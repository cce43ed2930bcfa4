---------------------------- MODULE Shared_proofs ----------------------------
(***************************************************************************)
(* What many threads share: the row of a torrent (RowStore), which every    *)
(* writer reads once and writes back later, and the pool of connections to  *)
(* the racing machine (SftpPool), for any number of writers, members and    *)
(* threads and any bounds.                                                  *)
(*                                                                          *)
(* The row.  The inductive invariant adds what the two invariants of        *)
(* RowStore rest on: no object is of a row younger than the table's, the    *)
(* revision of an object is never ahead of its row's, and an object that    *)
(* missed no change of state is in the row's state.                         *)
(*                                                                          *)
(* The pool.  The lock of a member is what both results rest on (Holding):  *)
(* a dial has it from the first packet to the handshake, so it finds no     *)
(* transport of another (Bare) and what is open is its socket or the        *)
(* member's client (Owned).  Closing may do without the lock, but it only   *)
(* takes away, and a boot that fails closes before the first call (Crews,   *)
(* Phases).                                                                 *)
(***************************************************************************)
EXTENDS RowStore, SftpPool, FunctionTheorems, FiniteSetTheorems, TLAPS

\* What the proof knows of the object of one writer.
ObjectInv(w) ==
  /\ mem[w].born <= born
  /\ SameRow(w) =>
       /\ mem[w].version <= row.version
       /\ (missed[w] \cap {"state", "column"} # {} /\ "blind" \notin missed[w])
            => mem[w].version < row.version
       /\ missed[w] \cap {"state", "blind"} = {} => mem[w].state = row.state

\* A row in the table was inserted; an object built by hand is of none.
Numbered == row.present => born > 0

IInv == TypeOK /\ Numbered /\ \A w \in Writers : ObjectInv(w)

-----------------------------------------------------------------------------
(* Lemmas: what the helpers build.                                          *)

LEMMA NothingType == Nothing \in Snapshot /\ NoRow \in Row
  BY DEF Nothing, NoRow, Snapshot, Row, State, Blobs

LEMMA OverwrittenType ==
  ASSUME NEW r \in Row, NEW m \in Snapshot, NEW s \in State
  PROVE  Overwritten(r, m, s) \in Row
<1>1. (IF m.blob = "empty" THEN r.blob ELSE m.blob) \in Blobs
  BY DEF Row, Snapshot
<1>2. m.skipped \in BOOLEAN /\ m.message \in Nat /\ r.version + 1 \in Nat
  BY DEF Row, Snapshot
<1> QED
  BY <1>1, <1>2 DEF Overwritten, Row

LEMMA InsertedType ==
  ASSUME NEW m \in Snapshot, NEW s \in State
  PROVE  Inserted(m, s) \in Row
  BY DEF Inserted, Row, Snapshot

LEMMA BumpType == ASSUME NEW r \in Row PROVE Bump(r) \in Row
  BY DEF Bump, Row

LEMMA RowUpdateType ==
  ASSUME NEW r \in Row
  PROVE  /\ [r EXCEPT !.blob = "bytes"] \in Row
         /\ \A x \in BOOLEAN : [r EXCEPT !.skipped = x] \in Row
         /\ [r EXCEPT !.deleted = TRUE] \in Row
         /\ [r EXCEPT !.deleted = FALSE] \in Row
         /\ \A id \in Nat : [r EXCEPT !.message = id] \in Row
  BY DEF Row, Blobs

LEMMA ObjectUpdateType ==
  ASSUME NEW m \in Snapshot
  PROVE  /\ \A s \in State, b \in Nat : [m EXCEPT !.state = s, !.born = b] \in Snapshot
         /\ \A s \in State, v \in Nat : [m EXCEPT !.state = s, !.version = v] \in Snapshot
         /\ \A v, b \in Nat : [m EXCEPT !.version = v, !.born = b] \in Snapshot
  BY DEF Snapshot

LEMMA MissType ==
  ASSUME TypeOK, NEW w \in Writers, NEW kinds \in SUBSET Kinds,
         OthersMiss(w, kinds) \/ AllMiss(kinds)
  PROVE  missed' \in [Writers -> SUBSET Kinds]
  BY DEF OthersMiss, AllMiss, TypeOK

LEMMA WriteKindsType == ASSUME NEW r, NEW r2 PROVE WriteKinds(r, r2) \in SUBSET Kinds
  BY DEF WriteKinds, Kinds

\* One update of an object keeps the type of mem.
LEMMA MemType ==
  ASSUME TypeOK, NEW w \in Writers, NEW m \in Snapshot,
         mem' = [mem EXCEPT ![w] = m]
  PROVE  mem' \in [Writers -> Snapshot]
  BY DEF TypeOK

-----------------------------------------------------------------------------
\* Every column of the row and of every object keeps its type, under every
\* operation of the store.
LEMMA TypeStep == TypeOK /\ [Next]_vars => TypeOK'
<1> SUFFICES ASSUME TypeOK, [Next]_vars PROVE TypeOK'
  OBVIOUS
<1>a. row \in Row /\ born \in Nat /\ (\A w \in Writers : mem[w] \in Snapshot)
  BY DEF TypeOK
<1>b. row.version + 1 \in Nat /\ born + 1 \in Nat /\ Bump(row) \in Row
  <2>1. row.version \in Nat
    BY <1>a DEF Row
  <2> QED BY <1>a, <2>1, BumpType
<1>1. ASSUME NEW w \in Writers, NEW withBlob \in BOOLEAN, Get(w, withBlob) PROVE TypeOK'
  <2> DEFINE m == [held |-> TRUE, state |-> row.state, version |-> row.version,
                   blob |-> IF withBlob THEN row.blob ELSE "empty",
                   skipped |-> row.skipped, message |-> row.message, born |-> born]
  <2>1. m \in Snapshot
    <3>1. (IF withBlob THEN row.blob ELSE "empty") \in Blobs
      BY <1>a DEF Row, Blobs
    <3>2. row.state \in State /\ row.version \in Nat /\ row.skipped \in BOOLEAN
          /\ row.message \in Nat
      BY <1>a DEF Row
    <3> QED BY <1>a, <3>1, <3>2 DEF Snapshot
  <2>2. mem' = [mem EXCEPT ![w] = m] /\ missed' = [missed EXCEPT ![w] = {}]
        /\ UNCHANGED <<row, born>>
    BY <1>1 DEF Get
  <2> HIDE DEF m
  <2> QED BY <2>1, <2>2, MemType DEF TypeOK
<1>2. ASSUME NEW w \in Writers, NEW b \in Blobs, Construct(w, b) PROVE TypeOK'
  <2> DEFINE m == [Nothing EXCEPT !.held = TRUE, !.blob = b]
  <2>1. m \in Snapshot
    BY NothingType DEF Snapshot
  <2> HIDE DEF m
  <2> QED BY <1>2, <2>1, MemType DEF Construct, TypeOK, m
<1>3. ASSUME NEW w \in Writers, Drop(w) PROVE TypeOK'
  BY <1>3, NothingType, MemType DEF Drop, TypeOK
<1>4. ASSUME NEW w \in Writers, NEW s \in State, Insert(w, s) PROVE TypeOK'
  <2> DEFINE m == [mem[w] EXCEPT !.state = s, !.born = born + 1]
  <2>1. m \in Snapshot
    BY <1>a, <1>b, ObjectUpdateType
  <2>2. mem' = [mem EXCEPT ![w] = m]
    BY <1>4 DEF Insert
  <2> HIDE DEF m
  <2>3. mem' \in [Writers -> Snapshot]
    BY <2>1, <2>2, MemType
  <2>4. row' \in Row /\ born' \in Nat
    BY <1>4, <1>a, InsertedType DEF Insert
  <2>5. missed' \in [Writers -> SUBSET Kinds]
    BY <1>4, MissType, {"state", "column"} \in SUBSET Kinds DEF Insert, Kinds
  <2> QED BY <2>3, <2>4, <2>5 DEF TypeOK
<1>5. ASSUME NEW w \in Writers, NEW s \in State, NEW m \in Snapshot,
             row' = Overwritten(row, mem[w], s), mem' = [mem EXCEPT ![w] = m],
             OthersMiss(w, WriteKinds(row, row')), UNCHANGED born
      PROVE TypeOK'
  <2>1. row' \in Row
    BY <1>5, <1>a, OverwrittenType
  <2>2. mem' \in [Writers -> Snapshot]
    BY <1>5, MemType
  <2>3. missed' \in [Writers -> SUBSET Kinds]
    BY <1>5, MissType, WriteKindsType
  <2> QED BY <1>5, <1>a, <2>1, <2>2, <2>3 DEF TypeOK
<1>6. ASSUME NEW w \in Writers, Overwrite(w) PROVE TypeOK'
  <2> DEFINE m == [mem[w] EXCEPT !.version = row.version + 1, !.born = born]
  <2>1. m \in Snapshot
    BY <1>a, <1>b, ObjectUpdateType
  <2>a. mem[w].state \in State
    BY <1>a DEF Snapshot
  <2>2. mem' = [mem EXCEPT ![w] = m]
    BY <1>6 DEF Overwrite
  <2> HIDE DEF m
  <2> QED BY <1>5, <1>6, <2>1, <2>a, <2>2 DEF Overwrite
<1>7. ASSUME NEW w \in Writers, NEW dst \in Scope, Transition(w, dst) PROVE TypeOK'
  <2>1. dst \in State
    BY ScopeAssumption
  <2>2. CASE Insert(w, dst)
    BY <1>4, <2>1, <2>2
  <2>3. CASE ~Insert(w, dst)
    <3> DEFINE m == [mem[w] EXCEPT !.state = dst, !.version = row.version + 1]
    <3>1. m \in Snapshot
      BY <1>a, <1>b, <2>1, ObjectUpdateType
    <3>2. mem' = [mem EXCEPT ![w] = m]
      BY <1>7, <2>3 DEF Transition
    <3> HIDE DEF m
    <3> QED BY <1>5, <1>7, <2>1, <2>3, <3>1, <3>2 DEF Transition
  <2> QED BY <2>2, <2>3
<1>8. ASSUME NEW w \in Writers, NEW dst \in Scope, TransitionFails(w, dst) PROVE TypeOK'
  BY <1>8, <1>a, MemType DEF TransitionFails, AfterFailedWrite, TypeOK
<1>9. ASSUME NEW w \in Writers, ParkNarrow(w) PROVE TypeOK'
  <2> DEFINE m == [mem[w] EXCEPT !.version = row.version + 1, !.born = born]
  <2>1. m \in Snapshot
    BY <1>a, <1>b, ObjectUpdateType
  <2>2. mem' = [mem EXCEPT ![w] = m]
    BY <1>9 DEF ParkNarrow, Bump
  <2> HIDE DEF m
  <2>3. mem' \in [Writers -> Snapshot]
    BY <2>1, <2>2, MemType
  <2>4. missed' \in [Writers -> SUBSET Kinds]
    BY <1>9 DEF ParkNarrow, TypeOK, Kinds
  <2> QED BY <1>9, <1>a, <2>3, <2>4, BumpType DEF ParkNarrow, TypeOK
<1>10. ASSUME Stamp \/ SetBlob \/ (\E hold \in BOOLEAN : SetSkipped(hold))
              \/ (\E id \in 1..MaxMessage : SetMessage(id)) \/ Tombstone \/ ClearTombstone
       PROVE TypeOK'
  <2>1. row' \in Row
    <3>1. CASE Stamp \/ SetBlob
      BY <3>1, <1>b, RowUpdateType DEF Stamp, SetBlob
    <3>2. CASE Tombstone \/ ClearTombstone
      BY <3>2, <1>b, RowUpdateType DEF Tombstone, ClearTombstone
    <3>3. ASSUME NEW hold \in BOOLEAN, SetSkipped(hold) PROVE row' \in Row
      BY <3>3, <1>b, RowUpdateType DEF SetSkipped
    <3>4. ASSUME NEW id \in 1..MaxMessage, SetMessage(id) PROVE row' \in Row
      <4>1. id \in Nat
        BY BoundAssumption
      <4> QED BY <3>4, <4>1, <1>a, RowUpdateType DEF SetMessage
    <3> QED BY <1>10, <3>1, <3>2, <3>3, <3>4
  <2>2. UNCHANGED <<mem, born>>
    BY <1>10 DEF Stamp, SetBlob, SetSkipped, SetMessage, Tombstone, ClearTombstone
  <2>3. \E kinds \in SUBSET Kinds : AllMiss(kinds)
    BY <1>10 DEF Stamp, SetBlob, SetSkipped, SetMessage, Tombstone, ClearTombstone, Kinds
  <2>4. missed' \in [Writers -> SUBSET Kinds]
    BY <2>3 DEF AllMiss, TypeOK
  <2> QED BY <2>1, <2>2, <2>4 DEF TypeOK
<1>11. CASE GcTombstone \/ HardDelete
  BY <1>11, NothingType DEF GcTombstone, HardDelete, TypeOK
<1>12. CASE UNCHANGED vars
  BY <1>12 DEF vars, TypeOK
<1>13. \A w \in Writers : Upsert(w) => TypeOK'
  BY <1>4, <1>6, <1>a DEF Upsert, Snapshot
<1> QED
  BY <1>1, <1>2, <1>3, <1>7, <1>8, <1>9, <1>10, <1>11, <1>12, <1>13 DEF Next

\* Every column of the row and of every object has its type in every
\* reachable state.
THEOREM TypeCorrect == Spec => []TypeOK
<1>1. Init => TypeOK
  BY NothingType DEF Init, TypeOK
<1> QED
  BY <1>1, TypeStep, PTL DEF Spec

-----------------------------------------------------------------------------
(* The object of a writer that a step leaves alone, and of the one it       *)
(* serves.                                                                  *)

\* A write to the row that the holder of an untouched object misses.
LEMMA Bystander ==
  ASSUME TypeOK, TypeOK', NEW x \in Writers, ObjectInv(x),
         NEW kinds \in SUBSET {"state", "column", "message"},
         mem'[x] = mem[x], born' = born, row.present,
         mem[x].held => missed'[x] = missed[x] \cup kinds,
         row.version <= row'.version,
         kinds \cap {"state", "column"} # {} => row.version < row'.version,
         row'.state = row.state \/ "state" \in kinds
  PROVE  ObjectInv(x)'
<1>1. /\ mem[x].version \in Nat /\ mem[x].born \in Nat /\ born \in Nat
      /\ row.version \in Nat /\ row'.version \in Nat
  BY DEF TypeOK, Snapshot, Row
<1>2. CASE ~SameRow(x)'
  BY <1>1, <1>2 DEF ObjectInv
<1>3. CASE SameRow(x)'
  <2>1. SameRow(x) /\ missed'[x] = missed[x] \cup kinds
    BY <1>3 DEF SameRow
  <2>2. mem'[x].version <= row'.version
    BY <1>1, <2>1 DEF ObjectInv
  <2>3. ASSUME missed'[x] \cap {"state", "column"} # {}, "blind" \notin missed'[x]
        PROVE  mem'[x].version < row'.version
    <3>1. CASE kinds \cap {"state", "column"} # {}
      BY <1>1, <2>1, <3>1 DEF ObjectInv
    <3>2. CASE kinds \cap {"state", "column"} = {}
      <4>1. missed[x] \cap {"state", "column"} # {} /\ "blind" \notin missed[x]
        BY <2>1, <2>3, <3>2
      <4> QED BY <1>1, <2>1, <4>1 DEF ObjectInv
    <3> QED BY <3>1, <3>2
  <2>4. ASSUME missed'[x] \cap {"state", "blind"} = {}
        PROVE  mem'[x].state = row'.state
    <3>1. missed[x] \cap {"state", "blind"} = {} /\ "state" \notin kinds
      BY <2>1, <2>4
    <3> QED BY <2>1, <3>1 DEF ObjectInv
  <2> QED BY <1>1, <2>2, <2>3, <2>4 DEF ObjectInv
<1> QED BY <1>2, <1>3

\* The object of a writer that has just read or written the whole row, or
\* that is of no row in the table.
LEMMA Served ==
  ASSUME TypeOK', NEW w \in Writers, mem'[w].born <= born',
         SameRow(w)' => /\ missed'[w] = {}
                        /\ mem'[w].version = row'.version
                        /\ mem'[w].state = row'.state
  PROVE  ObjectInv(w)'
<1>1. mem'[w].version \in Nat
  BY DEF TypeOK, Snapshot
<1> QED BY <1>1 DEF ObjectInv

\* Nothing the object depends on has changed.
LEMMA Untouched ==
  ASSUME NEW x \in Writers, ObjectInv(x), mem'[x] = mem[x], missed'[x] = missed[x],
         UNCHANGED <<row, born>>
  PROVE  ObjectInv(x)'
  BY DEF ObjectInv, SameRow

-----------------------------------------------------------------------------
LEMMA Initially == Init => IInv
<1> SUFFICES ASSUME Init PROVE IInv
  OBVIOUS
<1>1. TypeOK
  BY NothingType DEF Init, TypeOK
<1>2. \A w \in Writers : ObjectInv(w)
  BY DEF Init, ObjectInv, SameRow, Nothing
<1>3. Numbered
  BY DEF Init, NoRow, Numbered
<1> QED BY <1>1, <1>2, <1>3 DEF IInv

\* Every step keeps the invariant of every object: the step serves one
\* writer, and every other one is a bystander.
LEMMA Inductive == IInv /\ [Next]_vars => IInv'
<1> SUFFICES ASSUME IInv, [Next]_vars PROVE IInv'
  OBVIOUS
<1>t. TypeOK /\ TypeOK'
  BY TypeStep DEF IInv
<1>a. /\ born \in Nat /\ row.version \in Nat /\ row'.version \in Nat
      /\ \A w \in Writers : ObjectInv(w) /\ mem[w].born <= born
      /\ \A w \in Writers : mem[w].born \in Nat /\ mem[w].version \in Nat
  BY <1>t DEF IInv, TypeOK, ObjectInv, Row, Snapshot
<1>f. DOMAIN mem = Writers /\ DOMAIN missed = Writers
  BY <1>t DEF TypeOK
<1>r. /\ \A f \in DOMAIN row : TRUE
      /\ DOMAIN row = {"present", "deleted", "state", "version", "blob", "skipped", "message"}
  BY <1>t DEF TypeOK, Row
<1>m. \A w \in Writers : DOMAIN mem[w] = {"held", "state", "version", "blob", "skipped",
                                          "message", "born"}
  BY <1>t DEF TypeOK, Snapshot
<1>n. Numbered'
  <2>1. ASSUME NEW w \in Writers, NEW s \in State, Insert(w, s) PROVE Numbered'
    BY <2>1, <1>a DEF Insert, Numbered
  <2>2. ASSUME born' = born, row'.present => row.present PROVE Numbered'
    BY <2>2 DEF IInv, Numbered
  <2>3. ASSUME NEW w \in Writers, Upsert(w) PROVE Numbered'
    <3>1. mem[w].state \in State
      BY <1>t DEF TypeOK, Snapshot
    <3> QED BY <2>1, <2>2, <2>3, <3>1 DEF Upsert, Overwrite
  <2>4. ASSUME NEW w \in Writers, NEW dst \in Scope, Transition(w, dst) PROVE Numbered'
    <3>1. dst \in State
      BY ScopeAssumption
    <3> QED BY <2>1, <2>2, <2>4, <3>1 DEF Transition
  <2>5. ASSUME NEW w \in Writers,
               \/ \E withBlob \in BOOLEAN : Get(w, withBlob)
               \/ \E b \in Blobs : Construct(w, b)
               \/ Drop(w) \/ ParkNarrow(w) \/ \E dst \in Scope : TransitionFails(w, dst)
        PROVE Numbered'
    BY <2>2, <2>5 DEF Get, Construct, Drop, ParkNarrow, TransitionFails, Live
  <2>6. CASE \/ Stamp \/ SetBlob \/ \E hold \in BOOLEAN : SetSkipped(hold)
             \/ \E id \in 1..MaxMessage : SetMessage(id)
             \/ Tombstone \/ ClearTombstone
    BY <2>2, <2>6
    DEF Stamp, SetBlob, SetSkipped, SetMessage, Tombstone, ClearTombstone, Live, Tombstoned
  <2>7. CASE GcTombstone \/ HardDelete
    BY <2>2, <2>7 DEF GcTombstone, HardDelete, NoRow
  <2>8. CASE UNCHANGED vars
    BY <2>2, <2>8 DEF vars
  <2> QED BY <2>3, <2>4, <2>5, <2>6, <2>7, <2>8 DEF Next
<1>1. ASSUME NEW w \in Writers, NEW withBlob \in BOOLEAN, Get(w, withBlob),
             NEW x \in Writers
      PROVE  ObjectInv(x)'
  <2>1. CASE x = w
    BY <1>1, <1>a, <1>f, <1>t, <2>1, Served DEF Get
  <2>2. CASE x # w
    BY <1>1, <1>a, <1>f, <2>2, Untouched DEF Get
  <2> QED BY <2>1, <2>2
<1>2. ASSUME NEW w \in Writers, NEW b \in Blobs, Construct(w, b), NEW x \in Writers
      PROVE  ObjectInv(x)'
  <2>1. CASE x = w
    <3>1. mem'[w].born = 0
      BY <1>2, <1>f DEF Construct, Nothing
    <3>2. ~SameRow(w)'
      BY <3>1, <1>2, <1>a DEF IInv, Construct, SameRow, Numbered
    <3> QED BY <3>1, <3>2, <2>1, <1>a, <1>2 DEF ObjectInv, Construct
  <2>2. CASE x # w
    BY <1>2, <1>a, <1>f, <2>2, Untouched DEF Construct
  <2> QED BY <2>1, <2>2
<1>3. ASSUME NEW w \in Writers, Drop(w), NEW x \in Writers PROVE ObjectInv(x)'
  <2>1. CASE x = w
    BY <1>3, <1>a, <1>f, <2>1 DEF Drop, Nothing, ObjectInv, SameRow
  <2>2. CASE x # w
    BY <1>3, <1>a, <1>f, <2>2, Untouched DEF Drop
  <2> QED BY <2>1, <2>2
<1>4. ASSUME NEW w \in Writers, NEW s \in State, Insert(w, s), NEW x \in Writers
      PROVE  ObjectInv(x)'
  <2>1. CASE x = w
    <3>1. /\ mem'[w].version = row'.version /\ mem'[w].state = row'.state
          /\ mem'[w].born = born' /\ missed'[w] = {}
      BY <1>4, <1>f, <1>m DEF Insert, Inserted, OthersMiss
    <3>2. mem'[w].born <= born'
      BY <1>t, <3>1 DEF TypeOK
    <3> QED BY <1>t, <2>1, <3>1, <3>2, Served
  <2>2. CASE x # w
    <3>1. mem'[x] = mem[x] /\ born' = born + 1
      BY <1>4, <1>f, <2>2 DEF Insert
    <3> QED BY <3>1, <1>a DEF ObjectInv, SameRow
  <2> QED BY <2>1, <2>2
<1>5. ASSUME NEW w \in Writers, NEW s \in State, row.present,
             row' = Overwritten(row, mem[w], s),
             mem'[w].version = row.version + 1, mem'[w].state = s,
             mem'[w].born <= born,
             \A x \in Writers \ {w} : mem'[x] = mem[x],
             OthersMiss(w, WriteKinds(row, row')), UNCHANGED born, NEW x \in Writers
      PROVE  ObjectInv(x)'
  <2>1. row'.version = row.version + 1 /\ row'.state = s
    BY <1>5, <1>r DEF Overwritten
  <2>2. CASE x = w
    BY <1>t, <1>5, <2>1, <2>2, Served DEF OthersMiss
  <2>3. CASE x # w
    <3> DEFINE kinds == WriteKinds(row, row')
    <3>1. kinds \in SUBSET {"state", "column", "message"}
      BY DEF WriteKinds
    <3>2. row'.state = row.state \/ "state" \in kinds
      BY DEF WriteKinds
    <3>3. mem[x].held => missed'[x] = missed[x] \cup kinds
      BY <1>5, <2>3 DEF OthersMiss
    <3>4. row.version < row'.version
      BY <1>a, <2>1
    <3> HIDE DEF kinds
    <3> QED BY <1>t, <1>5, <1>a, <2>3, <3>1, <3>2, <3>3, <3>4, Bystander
  <2> QED BY <2>2, <2>3
<1>6. ASSUME NEW w \in Writers, Overwrite(w), NEW x \in Writers PROVE ObjectInv(x)'
  <2>1. /\ mem'[w].version = row.version + 1 /\ mem'[w].state = mem[w].state
        /\ mem'[w].born = born /\ \A y \in Writers \ {w} : mem'[y] = mem[y]
    BY <1>6, <1>f, <1>m DEF Overwrite
  <2>2. mem[w].state \in State
    BY <1>t DEF TypeOK, Snapshot
  <2> QED BY <1>5, <1>6, <1>a, <2>1, <2>2 DEF Overwrite
<1>7. ASSUME NEW w \in Writers, NEW dst \in Scope, Transition(w, dst), NEW x \in Writers
      PROVE  ObjectInv(x)'
  <2>1. dst \in State
    BY ScopeAssumption
  <2>2. CASE Insert(w, dst)
    BY <1>4, <2>1, <2>2
  <2>3. CASE ~Insert(w, dst)
    <3>0. mem' = [mem EXCEPT ![w] = [@ EXCEPT !.state = dst, !.version = row.version + 1]]
      BY <1>7, <2>3 DEF Transition
    <3>1. /\ mem'[w].version = row.version + 1
          /\ mem'[w].state = dst
          /\ mem'[w].born = mem[w].born
          /\ \A y \in Writers \ {w} : mem'[y] = mem[y]
      BY <1>f, <1>m, <3>0
    <3>2. /\ row.present /\ row' = Overwritten(row, mem[w], dst)
          /\ OthersMiss(w, WriteKinds(row, row')) /\ UNCHANGED born
      BY <1>7, <2>3 DEF Transition
    <3>3. mem'[w].born <= born
      BY <1>a, <3>1
    <3> QED BY <1>5, <2>1, <3>1, <3>2, <3>3
  <2> QED BY <2>2, <2>3
<1>8. ASSUME NEW w \in Writers, NEW dst \in Scope, TransitionFails(w, dst),
             NEW x \in Writers
      PROVE  ObjectInv(x)'
  BY <1>8, <1>a, <1>f, Untouched DEF TransitionFails, AfterFailedWrite
<1>9. ASSUME NEW w \in Writers, ParkNarrow(w), NEW x \in Writers PROVE ObjectInv(x)'
  <2>1. row'.version = row.version + 1 /\ row'.state = row.state /\ row'.present
    BY <1>9, <1>r DEF ParkNarrow, Bump, Live
  <2>2. CASE x = w
    <3>1. /\ mem'[w].version = row'.version /\ mem'[w].born = born'
          /\ mem'[w].state = mem[w].state /\ mem'[w].held = mem[w].held
      BY <1>9, <1>f, <1>m, <2>1 DEF ParkNarrow
    <3>2. CASE missed[w] \cap {"state", "column"} # {} \/ mem[w].born # born
      <4>1. "blind" \in missed'[w]
        BY <1>9, <3>2 DEF ParkNarrow
      <4> QED BY <1>a, <1>t, <2>1, <2>2, <3>1, <4>1 DEF ObjectInv, TypeOK
    <3>3. CASE ~(missed[w] \cap {"state", "column"} # {} \/ mem[w].born # born)
      <4>1. missed'[w] = missed[w] /\ missed[w] \cap {"state", "column"} = {}
        BY <1>9, <3>3 DEF ParkNarrow
      <4>2. mem[w].held => SameRow(w)
        BY <1>9, <3>3 DEF ParkNarrow, SameRow, Live
      <4> QED BY <1>a, <1>t, <2>1, <2>2, <3>1, <4>1, <4>2 DEF ObjectInv, SameRow, TypeOK
    <3> QED BY <3>2, <3>3
  <2>3. CASE x # w
    <3>1. mem'[x] = mem[x] /\ born' = born /\ row.present
          /\ (mem[x].held => missed'[x] = missed[x] \cup {"column"})
      BY <1>9, <1>f, <2>3 DEF ParkNarrow, Live
    <3>2. row.version < row'.version /\ row.version <= row'.version
      BY <1>a, <2>1
    <3> QED BY <1>a, <1>t, <2>1, <3>1, <3>2, Bystander
  <2> QED BY <2>2, <2>3
<1>10. ASSUME Stamp \/ SetBlob \/ (\E hold \in BOOLEAN : SetSkipped(hold))
               \/ Tombstone \/ ClearTombstone,
              NEW x \in Writers
       PROVE  ObjectInv(x)'
  <2>1. row'.version = row.version + 1 /\ row'.state = row.state /\ row.present
    BY <1>10, <1>r
    DEF Stamp, SetBlob, SetSkipped, Tombstone, ClearTombstone, Bump, Live, Tombstoned
  <2>2. /\ mem' = mem /\ born' = born
        /\ mem[x].held => missed'[x] = missed[x] \cup {"column"}
    BY <1>10 DEF Stamp, SetBlob, SetSkipped, Tombstone, ClearTombstone, AllMiss
  <2>3. row.version < row'.version /\ row.version <= row'.version
    BY <1>a, <2>1
  <2> QED BY <1>a, <1>t, <2>1, <2>2, <2>3, Bystander
<1>11. ASSUME NEW id \in 1..MaxMessage, SetMessage(id), NEW x \in Writers
       PROVE  ObjectInv(x)'
  <2>1. row'.version = row.version /\ row'.state = row.state /\ row.present
    BY <1>11, <1>r DEF SetMessage, Live
  <2>2. /\ mem' = mem /\ born' = born
        /\ mem[x].held => missed'[x] = missed[x] \cup {"message"}
    BY <1>11 DEF SetMessage, AllMiss
  <2>3. /\ {"message"} \in SUBSET {"state", "column", "message"}
        /\ {"message"} \cap {"state", "column"} = {}
    OBVIOUS
  <2>4. row.version <= row'.version
    BY <1>a, <2>1
  <2> QED BY <1>a, <1>t, <2>1, <2>2, <2>3, <2>4, Bystander
<1>12. ASSUME GcTombstone \/ HardDelete, NEW x \in Writers PROVE ObjectInv(x)'
  <2>1. row'.present = FALSE /\ mem' = mem /\ born' = born
    BY <1>12 DEF GcTombstone, HardDelete, NoRow
  <2> QED BY <1>a, <2>1 DEF ObjectInv, SameRow
<1>13. ASSUME UNCHANGED vars, NEW x \in Writers PROVE ObjectInv(x)'
  BY <1>13, <1>a, Untouched DEF vars
<1>14. ASSUME NEW w \in Writers, Upsert(w), NEW x \in Writers PROVE ObjectInv(x)'
  <2>1. mem[w].state \in State
    BY <1>t DEF TypeOK, Snapshot
  <2> QED BY <1>4, <1>6, <1>14, <2>1 DEF Upsert
<1>15. \A x \in Writers : ObjectInv(x)'
  BY <1>1, <1>2, <1>3, <1>7, <1>8, <1>9, <1>10, <1>11, <1>12, <1>13, <1>14 DEF Next
<1> QED BY <1>t, <1>n, <1>15 DEF IInv

THEOREM Invariance == Spec => []IInv
  BY Initially, Inductive, PTL DEF Spec

-----------------------------------------------------------------------------
\* The comparison of revisions in transition() tells every stale object from
\* a current one, blind parks apart.
THEOREM StalenessTold == Spec => []RevisionTellsStaleness
<1>1. IInv => RevisionTellsStaleness
  BY DEF IInv, ObjectInv, RevisionTellsStaleness
<1> QED BY <1>1, Invariance, PTL

\* An object at the row's revision is in the row's state.
THEOREM Coherent == Spec => []SnapshotCoherent
<1>1. IInv => SnapshotCoherent
  <2> SUFFICES ASSUME IInv, NEW w \in Writers,
                      SameRow(w), mem[w].version = row.version, "blind" \notin missed[w]
               PROVE  mem[w].state = row.state
    BY DEF SnapshotCoherent
  <2>1. mem[w].version \in Nat
    BY DEF IInv, TypeOK, Snapshot
  <2>2. missed[w] \cap {"state", "column"} = {}
    BY <2>1 DEF IInv, ObjectInv
  <2>3. missed[w] \cap {"state", "blind"} = {}
    BY <2>2
  <2> QED BY <2>3 DEF IInv, ObjectInv
<1> QED BY <1>1, Invariance, PTL

\* A transition that commits has missed no write that moves the revision.
THEOREM SecondWriterLosesHolds == Spec => SecondWriterLoses
<1>1. IInv /\ [Next]_vars =>
        [\A w \in Writers, dst \in Scope :
           (Transition(w, dst) /\ SameRow(w))
             => missed[w] \subseteq {"message"} \/ "blind" \in missed[w]]_vars
  <2> SUFFICES ASSUME IInv, NEW w \in Writers, NEW dst \in Scope,
                      Transition(w, dst), SameRow(w), "blind" \notin missed[w]
               PROVE  missed[w] \subseteq {"message"}
    OBVIOUS
  <2>1. row.version = mem[w].version
    BY DEF Transition, Insert, SameRow, SnapshotCurrent
  <2>2. row.version \in Nat /\ missed[w] \subseteq Kinds
    BY DEF IInv, TypeOK, Row
  <2>3. missed[w] \cap {"state", "column"} = {}
    BY <2>1, <2>2 DEF IInv, ObjectInv
  <2> QED BY <2>2, <2>3 DEF Kinds
<1> QED BY <1>1, Invariance, PTL DEF Spec, SecondWriterLoses

\* No write of any writer, whatever it holds, gets past a tombstone.
THEOREM TombstoneFreezesHolds == Spec => TombstoneFreezes
<1>1. TypeOK /\ [Next]_vars =>
        [(row.present /\ row.deleted /\ row'.present) =>
           /\ row'.state = row.state /\ row'.blob = row.blob
           /\ row'.skipped = row.skipped /\ row'.message = row.message]_vars
  <2> SUFFICES ASSUME TypeOK, [Next]_vars, row.present, row.deleted, row'.present
               PROVE  /\ row'.state = row.state /\ row'.blob = row.blob
                      /\ row'.skipped = row.skipped /\ row'.message = row.message
    OBVIOUS
  <2>1. ~Live /\ Tombstoned
    BY DEF Live, Tombstoned
  <2>2. row' = row \/ Tombstone \/ ClearTombstone \/ GcTombstone \/ HardDelete
    BY <2>1 DEF Next, vars, Get, Construct, Drop, Upsert, Insert, Overwrite, Transition,
       TransitionFails, ParkNarrow, Stamp, SetBlob, SetSkipped, SetMessage
  <2>3. CASE row' = row
    BY <2>3
  <2>4. CASE Tombstone \/ ClearTombstone
    BY <2>4 DEF Tombstone, ClearTombstone, Bump, TypeOK, Row
  <2>5. CASE GcTombstone \/ HardDelete
    BY <2>5 DEF GcTombstone, HardDelete, NoRow
  <2> QED BY <2>2, <2>3, <2>4, <2>5
<1> QED BY <1>1, TypeCorrect, PTL DEF Spec, TombstoneFreezes

\* A stored .torrent survives every writer.
THEOREM BlobNeverWipedHolds == Spec => BlobNeverWiped
<1>1. TypeOK /\ [Next]_vars =>
        [(row.present /\ row'.present /\ row.blob = "bytes") => row'.blob = "bytes"]_vars
  <2> SUFFICES ASSUME TypeOK, [Next]_vars, row.present, row'.present, row.blob = "bytes"
               PROVE  row'.blob = "bytes"
    OBVIOUS
  <2>r. row \in Row /\ \A w \in Writers : mem[w] \in Snapshot
    BY DEF TypeOK
  <2>0. ASSUME NEW m \in Snapshot, NEW s \in State, row' = Overwritten(row, m, s)
        PROVE row'.blob = "bytes"
    BY <2>0, <2>r DEF Overwritten, Row, Snapshot, Blobs
  <2>1. ASSUME NEW w \in Writers, Upsert(w) PROVE row'.blob = "bytes"
    <3>1. mem[w].state \in State
      BY <2>r DEF Snapshot
    <3> QED BY <2>0, <2>1, <2>r, <3>1 DEF Upsert, Insert, Overwrite
  <2>2. ASSUME NEW w \in Writers, NEW dst \in Scope, Transition(w, dst)
        PROVE row'.blob = "bytes"
    BY <2>0, <2>2, <2>r, ScopeAssumption DEF Transition, Insert
  <2>3. CASE \/ row' = row
             \/ Stamp \/ SetBlob \/ Tombstone \/ ClearTombstone
             \/ \E w \in Writers : ParkNarrow(w)
    BY <2>3, <2>r
    DEF Stamp, SetBlob, Tombstone, ClearTombstone, ParkNarrow, Bump, Row
  <2>4. CASE \E hold \in BOOLEAN : SetSkipped(hold)
    BY <2>4, <2>r DEF SetSkipped, Bump, Row
  <2>5. CASE \E id \in 1..MaxMessage : SetMessage(id)
    BY <2>5, <2>r DEF SetMessage, Row
  <2>6. CASE GcTombstone \/ HardDelete
    BY <2>6 DEF GcTombstone, HardDelete, NoRow
  <2>7. \/ row' = row
        \/ \E w \in Writers : Upsert(w) \/ ParkNarrow(w) \/ \E dst \in Scope : Transition(w, dst)
        \/ Stamp \/ SetBlob \/ Tombstone \/ ClearTombstone
        \/ \E hold \in BOOLEAN : SetSkipped(hold)
        \/ \E id \in 1..MaxMessage : SetMessage(id)
        \/ GcTombstone \/ HardDelete
    BY DEF Next, vars, Get, Construct, Drop, TransitionFails
  <2> QED BY <2>1, <2>2, <2>3, <2>4, <2>5, <2>6, <2>7
<1> QED BY <1>1, TypeCorrect, PTL DEF Spec, BlobNeverWiped

\* The revision only grows, and every change of state or blob makes it grow.
THEOREM RevisionMonotoneHolds == Spec => RevisionMonotone
<1>1. TypeOK /\ [Next]_vars =>
        [(row.present /\ row'.present) =>
           /\ row.version <= row'.version
           /\ (row.state # row'.state \/ row.blob # row'.blob)
                => row.version < row'.version]_vars
  <2> DEFINE Grown == /\ row.version <= row'.version
                      /\ (row.state # row'.state \/ row.blob # row'.blob)
                           => row.version < row'.version
  <2> SUFFICES ASSUME TypeOK, [Next]_vars, row.present, row'.present
               PROVE  Grown
    OBVIOUS
  <2>r. row \in Row /\ row.version \in Nat
    BY DEF TypeOK, Row
  <2>0. ASSUME row'.version = row.version + 1 PROVE Grown
    BY <2>0, <2>r
  <2>1. ASSUME NEW w \in Writers,
               \/ Upsert(w) \/ ParkNarrow(w) \/ \E dst \in Scope : Transition(w, dst)
        PROVE Grown
    <3>1. row'.version = row.version + 1
      BY <2>1, <2>r
      DEF Upsert, Insert, Overwrite, Transition, ParkNarrow, Overwritten, Bump, Row
    <3> QED BY <2>0, <3>1
  <2>2. CASE Stamp \/ SetBlob \/ (\E hold \in BOOLEAN : SetSkipped(hold))
             \/ Tombstone \/ ClearTombstone
    <3>1. row'.version = row.version + 1
      BY <2>2, <2>r
      DEF Stamp, SetBlob, SetSkipped, Tombstone, ClearTombstone, Bump, Row
    <3> QED BY <2>0, <3>1
  <2>3. CASE row' = row \/ \E id \in 1..MaxMessage : SetMessage(id)
    <3>1. row'.version = row.version /\ row'.state = row.state /\ row'.blob = row.blob
      BY <2>3, <2>r DEF SetMessage, Row
    <3> QED BY <2>r, <3>1
  <2>4. CASE GcTombstone \/ HardDelete
    BY <2>4 DEF GcTombstone, HardDelete, NoRow
  <2>5. \/ row' = row
        \/ \E w \in Writers : Upsert(w) \/ ParkNarrow(w) \/ \E dst \in Scope : Transition(w, dst)
        \/ Stamp \/ SetBlob \/ Tombstone \/ ClearTombstone
        \/ \E hold \in BOOLEAN : SetSkipped(hold)
        \/ \E id \in 1..MaxMessage : SetMessage(id)
        \/ GcTombstone \/ HardDelete
    BY DEF Next, vars, Get, Construct, Drop, TransitionFails
  <2> QED BY <2>1, <2>2, <2>3, <2>4, <2>5
<1> QED BY <1>1, TypeCorrect, PTL DEF Spec, RevisionMonotone

-----------------------------------------------------------------------------
(* The pool.                                                                *)

AtMember ==
  \A t \in Threads :
    pc[t] \in {"lock", "socket", "connect", "leased", "reading"} => at[t] \in pool

\* Whoever dials, has leased or reads holds the lock of its member.
Holding ==
  \A t \in Threads :
    pc[t] \in {"socket", "connect", "leased", "reading"} => lock[at[t]] = t

\* A member that is dialed has no transport ...
Bare == \A t \in Threads : pc[t] \in {"socket", "connect"} => client[at[t]] \notin Transports

\* ... and what it gets, as what it has, was dialed for it.
SocksOwn ==
  \A t \in Threads : pc[t] = "connect" => sock[t] \in Transports /\ sock[t][1] = at[t]

ClientsOwn ==
  \A m \in Members : client[m] \in Transports => m \in pool /\ client[m][1] = m

\* Nothing is open but clients, and sockets of dials under way.
Owned ==
  \A i \in open : \/ client[i[1]] = i
                  \/ \E t \in Threads : pc[t] = "connect" /\ sock[t] = i

\* The threads of a boot only dial; calls are made when the pool is up.
Crews ==
  /\ \A t \in Dialers : /\ pc[t] \in {"idle", "lock", "socket", "connect"}
                        /\ pc[t] # "idle" => why[t] = "boot"
  /\ \A t \in Callers : pc[t] = "idle" \/ boot = "up"

\* A boot closes while it fails, a stop when it shuts.
Phases ==
  /\ left["boot"] # {} => boot = "failing"
  /\ left["stop"] # {} => shut
  /\ \A c \in Closers : marked[c] # None => marked[c] \in left[c]

Conns == AtMember /\ Holding /\ Bare /\ SocksOwn /\ ClientsOwn /\ Owned

PoolInv == PoolTypeOK /\ Conns /\ Crews /\ Phases

\* What ReadUndisturbed asks of a step.
Undisturbed ==
  \A t \in Threads :
    pc[t] = "reading" /\ pc'[t] = "reading" /\ ~shut => client'[at[t]] = client[at[t]]

Kept == PoolInv' /\ Undisturbed

-----------------------------------------------------------------------------
(* Names.                                                                   *)

LEMMA Names ==
  /\ None \notin Transports /\ Blank \notin Transports /\ None # Blank
  /\ None \notin Members /\ None \notin Threads
  /\ \A t \in Threads : t \in Callers \/ t \in Dialers
  /\ \A t \in Callers : t \in Threads /\ t \notin Dialers
  /\ \A t \in Dialers : t \in Threads /\ t \notin Callers
  /\ "boot" \in Closers /\ "stop" \in Closers
  /\ \A c \in Closers : c = "boot" \/ c = "stop"
BY PoolAssumption, NamesAssumption DEF Threads

LEMMA Pool == PoolTypeOK => pool \subseteq Members
BY PoolAssumption DEF PoolTypeOK

LEMMA Transport ==
  /\ \A m \in Members : NewTransport(m) \in Transports /\ NewTransport(m)[1] = m
  /\ \A i \in Transports : i[1] \in Members
BY DEF NewTransport, Transports

LEMMA InitInv == PoolInit => PoolInv
<1> SUFFICES ASSUME PoolInit PROVE PoolInv
  OBVIOUS
<1>1. PoolTypeOK
  BY Names DEF PoolInit, PoolTypeOK
<1>2. Conns
  BY Names DEF PoolInit, Conns, AtMember, Holding, Bare, SocksOwn, ClientsOwn, Owned
<1>3. Crews /\ Phases
  BY Names DEF PoolInit, Crews, Phases
<1> QED
  BY <1>1, <1>2, <1>3 DEF PoolInv

-----------------------------------------------------------------------------
(* A call between its dials.                                                *)

LEMMA MovesThread ==
  ASSUME PoolTypeOK, NEW t \in Threads, NEW place, NEW m, NEW ms, Moves(t, place, m, ms),
         place \in {"idle", "revive", "lock", "sweep", "leased", "reading"},
         m \in Members \cup {None}, ms \in SUBSET Members
  PROVE  /\ pc' = [pc EXCEPT ![t] = place] /\ at' = [at EXCEPT ![t] = m]
         /\ pc' \in [Threads -> {"idle", "revive", "lock", "socket", "connect",
                                 "sweep", "leased", "reading"}]
         /\ at' \in [Threads -> Members \cup {None}]
         /\ why' \in [Threads -> {"boot", "revive", "call"}]
         /\ seen' \in [Threads -> SUBSET Members]
         /\ pc'[t] = place /\ at'[t] = m
         /\ \A s \in Threads : s # t => pc'[s] = pc[s] /\ at'[s] = at[s] /\ why'[s] = why[s]
<1>1. why[t] \in {"boot", "revive", "call"}
  BY DEF PoolTypeOK
<1>2. (IF m = None THEN "call" ELSE why[t]) \in {"boot", "revive", "call"}
  BY <1>1
<1> QED
  BY <1>2 DEF PoolTypeOK, Moves

\* A caller goes on without touching a connection: to a place where nothing
\* is held, or where what it needs is.
LEMMA Walks ==
  ASSUME PoolInv, NEW t \in Callers, UNCHANGED <<conns, state, booting, closing, sock>>,
         pc[t] \notin {"socket", "connect"}, boot = "up",
         pc' \in [Threads -> {"idle", "revive", "lock", "socket", "connect",
                              "sweep", "leased", "reading"}],
         at' \in [Threads -> Members \cup {None}],
         why' \in [Threads -> {"boot", "revive", "call"}],
         seen' \in [Threads -> SUBSET Members],
         pc'[t] \in {"idle", "revive", "sweep", "lock", "leased", "reading"},
         pc'[t] \in {"lock", "leased", "reading"} => at'[t] \in pool,
         pc'[t] \in {"leased", "reading"} => lock[at'[t]] = t,
         \A s \in Threads : s # t => pc'[s] = pc[s] /\ at'[s] = at[s] /\ why'[s] = why[s]
  PROVE  Kept
<1>1. PoolTypeOK'
  BY DEF PoolInv, PoolTypeOK, conns, state, booting, closing
<1>2. Conns'
  BY Names DEF PoolInv, Conns, AtMember, Holding, Bare, SocksOwn, ClientsOwn, Owned,
       conns, state
<1>3. Crews' /\ Phases'
  BY Names DEF PoolInv, Crews, Phases, state, booting, closing
<1>4. Undisturbed
  BY DEF Undisturbed, conns
<1> QED
  BY <1>1, <1>2, <1>3, <1>4 DEF Kept, PoolInv

LEMMA Walking ==
  ASSUME PoolInv, NEW t \in Callers,
         \/ Call(t) \/ Sweep(t) \/ Again(t) \/ Expire(t) \/ Begin(t)
         \/ \E m \in pool : Skip(t, m) \/ Revive(t, m) \/ Passes(t, m)
  PROVE  Kept
<1>1. t \in Threads /\ pool \subseteq Members /\ PoolTypeOK
  BY Names, Pool DEF PoolInv
<1>2. pc[t] = "idle" \/ boot = "up"
  BY DEF PoolInv, Crews
<1>3. seen[t] \in SUBSET Members /\ at[t] \in Members \cup {None}
  BY <1>1 DEF PoolTypeOK
<1>4. ASSUME NEW place \in {"idle", "revive", "sweep"}, NEW ms \in SUBSET Members,
             Moves(t, place, None, ms), pc[t] \notin {"socket", "connect"}, boot = "up",
             UNCHANGED <<conns, state, booting, closing, sock>>
      PROVE  Kept
  BY <1>1, <1>4, MovesThread, Walks
<1>5. CASE Call(t)
  BY <1>4, <1>5 DEF Call
<1>6. CASE Sweep(t) \/ Again(t) \/ Expire(t)
  BY <1>2, <1>4, <1>6 DEF Sweep, Again, Expire
<1>7. CASE \E m \in pool : Skip(t, m) \/ Passes(t, m)
  <2>1. PICK m \in pool : Skip(t, m) \/ Passes(t, m)
    BY <1>7
  <2>2. seen[t] \cup {m} \in SUBSET Members
    BY <1>1, <1>3
  <2> QED
    BY <1>2, <1>4, <2>1, <2>2 DEF Skip, Passes
<1>8. CASE \E m \in pool : Revive(t, m)
  <2>1. PICK m \in pool : Revive(t, m)
    BY <1>8
  <2>2. /\ pc[t] = "revive" /\ UNCHANGED <<conns, state, booting, closing, seen, sock>>
        /\ pc' = [pc EXCEPT ![t] = "lock"] /\ at' = [at EXCEPT ![t] = m]
        /\ why' = [why EXCEPT ![t] = "revive"]
    BY <2>1 DEF Revive
  <2>3. /\ pc' \in [Threads -> {"idle", "revive", "lock", "socket", "connect",
                                "sweep", "leased", "reading"}]
        /\ at' \in [Threads -> Members \cup {None}]
        /\ why' \in [Threads -> {"boot", "revive", "call"}]
        /\ seen' \in [Threads -> SUBSET Members]
    BY <1>1, <2>2 DEF PoolTypeOK
  <2>4. /\ pc'[t] = "lock" /\ at'[t] = m
        /\ \A s \in Threads : s # t => pc'[s] = pc[s] /\ at'[s] = at[s] /\ why'[s] = why[s]
    BY <1>1, <2>2 DEF PoolTypeOK
  <2> QED
    BY <1>2, <2>2, <2>3, <2>4, Walks
<1>9. CASE Begin(t)
  <2>1. pc[t] = "leased" /\ Moves(t, "reading", at[t], {})
        /\ UNCHANGED <<conns, state, booting, closing, sock>>
    BY <1>9 DEF Begin
  <2>2. at[t] \in pool /\ lock[at[t]] = t
    BY <1>1, <2>1 DEF PoolInv, Conns, AtMember, Holding
  <2>3. {} \in SUBSET Members
    OBVIOUS
  <2> QED
    BY <1>1, <1>2, <1>3, <2>1, <2>2, <2>3, MovesThread, Walks
<1> QED
  BY <1>5, <1>6, <1>7, <1>8, <1>9

LEMMA Taking ==
  ASSUME PoolInv, NEW t \in Callers, NEW m \in pool, Takes(t, m)
  PROVE  Kept
<1>1. t \in Threads /\ m \in Members /\ PoolTypeOK
  BY Names, Pool DEF PoolInv
<1>2. /\ pc[t] = "sweep" /\ lock[m] = None /\ lock' = [lock EXCEPT ![m] = t]
      /\ Moves(t, "leased", m, {})
      /\ UNCHANGED <<closed, client, open, state, booting, closing, sock>>
  BY DEF Takes
<1>3. m \in Members \cup {None} /\ {} \in SUBSET Members
  BY <1>1
<1>4. /\ pc' \in [Threads -> {"idle", "revive", "lock", "socket", "connect",
                              "sweep", "leased", "reading"}]
      /\ at' \in [Threads -> Members \cup {None}]
      /\ why' \in [Threads -> {"boot", "revive", "call"}]
      /\ seen' \in [Threads -> SUBSET Members]
      /\ pc'[t] = "leased" /\ at'[t] = m
      /\ \A s \in Threads : s # t => pc'[s] = pc[s] /\ at'[s] = at[s] /\ why'[s] = why[s]
  BY <1>1, <1>2, <1>3, MovesThread
<1>5. /\ lock' \in [Members -> Threads \cup {None}] /\ lock'[m] = t
      /\ \A n \in Members : n # m => lock'[n] = lock[n]
  BY <1>1, <1>2 DEF PoolTypeOK
<1>6. PoolTypeOK'
  BY <1>1, <1>2, <1>4, <1>5 DEF PoolTypeOK, state, booting, closing
<1>7. Holding'
  BY <1>1, <1>2, <1>4, <1>5, Names, Pool DEF PoolInv, Conns, AtMember, Holding
<1>8. AtMember' /\ Bare' /\ SocksOwn' /\ ClientsOwn' /\ Owned'
  BY <1>2, <1>4 DEF PoolInv, Conns, AtMember, Bare, SocksOwn, ClientsOwn, Owned, state
<1>9. Crews' /\ Phases'
  BY <1>1, <1>2, <1>4, Names DEF PoolInv, Crews, Phases, state, booting, closing
<1> QED
  BY <1>2, <1>6, <1>7, <1>8, <1>9 DEF Kept, PoolInv, Conns, Undisturbed

LEMMA Ending ==
  ASSUME PoolInv, NEW t \in Callers, End(t)
  PROVE  Kept
<1> DEFINE m == at[t]
<1>1. t \in Threads /\ PoolTypeOK
  BY Names DEF PoolInv
<1>2. /\ pc[t] = "reading" /\ lock' = [lock EXCEPT ![m] = None]
      /\ Moves(t, "idle", None, {})
      /\ UNCHANGED <<closed, client, open, state, booting, closing, sock>>
  BY DEF End
<1>3. m \in Members /\ lock[m] = t
  BY <1>1, <1>2, Pool DEF PoolInv, Conns, AtMember, Holding
<1> HIDE DEF m
<1>4. /\ pc' \in [Threads -> {"idle", "revive", "lock", "socket", "connect",
                              "sweep", "leased", "reading"}]
      /\ at' \in [Threads -> Members \cup {None}]
      /\ why' \in [Threads -> {"boot", "revive", "call"}]
      /\ seen' \in [Threads -> SUBSET Members]
      /\ pc'[t] = "idle"
      /\ \A s \in Threads : s # t => pc'[s] = pc[s] /\ at'[s] = at[s] /\ why'[s] = why[s]
  BY <1>1, <1>2, MovesThread
<1>5. /\ lock' \in [Members -> Threads \cup {None}]
      /\ \A n \in Members : n # m => lock'[n] = lock[n]
  BY <1>1, <1>2 DEF PoolTypeOK
<1>6. PoolTypeOK'
  BY <1>1, <1>2, <1>4, <1>5 DEF PoolTypeOK, state, booting, closing
<1>7. Holding'
  BY <1>1, <1>3, <1>4, <1>5, Pool DEF PoolInv, Conns, AtMember, Holding
<1>8. AtMember' /\ Bare' /\ SocksOwn' /\ ClientsOwn' /\ Owned'
  BY <1>2, <1>4 DEF PoolInv, Conns, AtMember, Bare, SocksOwn, ClientsOwn, Owned, state
<1>9. Crews' /\ Phases'
  BY <1>1, <1>2, <1>4, Names DEF PoolInv, Crews, Phases, state, booting, closing
<1> QED
  BY <1>2, <1>6, <1>7, <1>8, <1>9 DEF Kept, PoolInv, Conns, Undisturbed

-----------------------------------------------------------------------------
(* Dialing.                                                                 *)

\* A read holds the lock, so who has it and dials disturbs nobody.
LEMMA Alone ==
  ASSUME PoolInv, NEW t \in Threads, at[t] \in Members, lock[at[t]] \in {None, t},
         pc[t] # "reading" \/ pc'[t] # "reading",
         \A n \in Members : n # at[t] => client'[n] = client[n]
  PROVE  Undisturbed
<1> SUFFICES ASSUME NEW s \in Threads, pc[s] = "reading", pc'[s] = "reading"
             PROVE  client'[at[s]] = client[at[s]]
  BY DEF Undisturbed
<1>1. s # t /\ at[s] \in Members /\ lock[at[s]] = s
  BY Pool DEF PoolInv, Conns, AtMember, Holding
<1>2. at[s] # at[t]
  BY <1>1, Names
<1> QED
  BY <1>1, <1>2

\* connect() of a member, from a thread that has or gets its lock.
LEMMA Dial ==
  ASSUME PoolInv, NEW t \in Threads, Dials(t, at[t]), pc[t] \in {"lock", "leased"},
         lock[at[t]] \in {None, t},
         UNCHANGED <<state, booting, closing, at, why, seen, sock>>
  PROVE  Kept
<1> DEFINE m == at[t]
<1>1. PoolTypeOK /\ m \in pool /\ m \in Members
  BY Pool DEF PoolInv, Conns, AtMember
<1>2. /\ closed' = [closed EXCEPT ![m] = FALSE] /\ client' = [client EXCEPT ![m] = Blank]
      /\ lock' = [lock EXCEPT ![m] = t] /\ open' = open \ {client[m]}
      /\ pc' = [pc EXCEPT ![t] = "socket"]
  BY DEF Dials, Torn
<1>3. /\ lock' \in [Members -> Threads \cup {None}] /\ lock'[m] = t
      /\ \A n \in Members : n # m => lock'[n] = lock[n]
  BY <1>1, <1>2 DEF PoolTypeOK
<1>4. /\ client' \in [Members -> Transports \cup {None, Blank}] /\ client'[m] = Blank
      /\ \A n \in Members : n # m => client'[n] = client[n]
  BY <1>1, <1>2 DEF PoolTypeOK
<1>5. /\ pc' \in [Threads -> {"idle", "revive", "lock", "socket", "connect",
                              "sweep", "leased", "reading"}]
      /\ pc'[t] = "socket" /\ \A s \in Threads : s # t => pc'[s] = pc[s]
  BY <1>1, <1>2 DEF PoolTypeOK
<1>6. closed' \in [Members -> BOOLEAN] /\ open' \subseteq Transports
  BY <1>1, <1>2 DEF PoolTypeOK
<1>7. PoolTypeOK'
  BY <1>1, <1>3, <1>4, <1>5, <1>6 DEF PoolTypeOK, state, booting, closing
<1>8. AtMember' /\ Holding' /\ SocksOwn'
  BY <1>1, <1>3, <1>5, Names, Pool DEF PoolInv, Conns, AtMember, Holding, SocksOwn, state
<1>9. Bare' /\ ClientsOwn'
  BY <1>1, <1>4, <1>5, Names, Pool DEF PoolInv, Conns, AtMember, Bare, ClientsOwn, state
<1>10. Owned'
  <2> SUFFICES ASSUME NEW i \in open'
               PROVE  \/ client'[i[1]] = i
                      \/ \E s \in Threads : pc'[s] = "connect" /\ sock'[s] = i
    BY DEF Owned
  <2>1. i \in open /\ i # client[m] /\ i[1] \in Members
    BY <1>1, <1>2, Transport DEF PoolTypeOK
  <2>2. CASE client[i[1]] = i
    BY <1>4, <2>1, <2>2
  <2>3. CASE \E s \in Threads : pc[s] = "connect" /\ sock[s] = i
    BY <1>5, <2>3
  <2> QED
    BY <2>1, <2>2, <2>3 DEF PoolInv, Conns, Owned
<1>11. Crews' /\ Phases'
  BY <1>5, Names DEF PoolInv, Crews, Phases, state, booting, closing
<1>12. Undisturbed
  BY <1>1, <1>4, Alone
<1> QED
  BY <1>7, <1>8, <1>9, <1>10, <1>11, <1>12 DEF Kept, PoolInv, Conns

LEMMA Socketing ==
  ASSUME PoolInv, NEW t \in Threads, Socket(t)
  PROVE  Kept
<1> DEFINE i == NewTransport(at[t])
<1>1. PoolTypeOK /\ at[t] \in pool /\ at[t] \in Members /\ pc[t] = "socket"
  BY Pool DEF PoolInv, Conns, AtMember, Socket
<1>2. /\ sock' = [sock EXCEPT ![t] = i] /\ open' = open \cup {i}
      /\ pc' = [pc EXCEPT ![t] = "connect"]
      /\ UNCHANGED <<closed, client, lock, state, booting, closing, at, why, seen>>
  BY DEF Socket
<1>3. i \in Transports /\ i[1] = at[t]
  BY <1>1, Transport
<1> HIDE DEF i
<1>4. /\ pc' \in [Threads -> {"idle", "revive", "lock", "socket", "connect",
                              "sweep", "leased", "reading"}]
      /\ pc'[t] = "connect" /\ \A s \in Threads : s # t => pc'[s] = pc[s]
  BY <1>1, <1>2 DEF PoolTypeOK
<1>5. /\ sock' \in [Threads -> Transports \cup {None}]
      /\ sock'[t] = i /\ \A s \in Threads : s # t => sock'[s] = sock[s]
  BY <1>1, <1>2, <1>3 DEF PoolTypeOK
<1>6. PoolTypeOK'
  BY <1>1, <1>2, <1>3, <1>4, <1>5 DEF PoolTypeOK, state, booting, closing
<1>7. AtMember' /\ Holding' /\ Bare' /\ SocksOwn' /\ ClientsOwn'
  BY <1>1, <1>2, <1>3, <1>4, <1>5
     DEF PoolInv, Conns, AtMember, Holding, Bare, SocksOwn, ClientsOwn, state
<1>8. Owned'
  <2> SUFFICES ASSUME NEW j \in open'
               PROVE  \/ client'[j[1]] = j
                      \/ \E s \in Threads : pc'[s] = "connect" /\ sock'[s] = j
    BY DEF Owned
  <2>1. CASE j = i
    BY <1>4, <1>5, <2>1
  <2>2. CASE j \in open
    <3>1. CASE client[j[1]] = j
      BY <1>2, <3>1
    <3>2. CASE \E s \in Threads : pc[s] = "connect" /\ sock[s] = j
      BY <1>1, <1>4, <1>5, <3>2
    <3> QED
      BY <2>2, <3>1, <3>2 DEF PoolInv, Conns, Owned
  <2> QED
    BY <1>2, <2>1, <2>2
<1>9. Crews' /\ Phases'
  BY <1>1, <1>2, <1>4, Names DEF PoolInv, Crews, Phases, state, booting, closing
<1> QED
  BY <1>2, <1>6, <1>7, <1>8, <1>9 DEF Kept, PoolInv, Conns, Undisturbed

\* What the end of a dial does to its thread, its lock and the boot.
LEMMA Returned ==
  ASSUME PoolInv, NEW t \in Threads, pc[t] \in {"socket", "connect"},
         NEW ok \in BOOLEAN, Returns(t, ok)
  PROVE  /\ pc' \in [Threads -> {"idle", "revive", "lock", "socket", "connect",
                                 "sweep", "leased", "reading"}]
         /\ at' \in [Threads -> Members \cup {None}]
         /\ why' \in [Threads -> {"boot", "revive", "call"}]
         /\ seen' \in [Threads -> SUBSET Members]
         /\ sock' \in [Threads -> Transports \cup {None}]
         /\ lock' \in [Members -> Threads \cup {None}]
         /\ UNCHANGED <<state, marked>> /\ waiting' \subseteq Threads
         /\ boot' \in {"down", "dialing", "failing", "up"} /\ left' \in [Closers -> SUBSET Members]
         /\ \A s \in Threads : s # t => /\ pc'[s] = pc[s] /\ at'[s] = at[s]
                                        /\ why'[s] = why[s] /\ sock'[s] = sock[s]
         /\ \A n \in Members : n # at[t] => lock'[n] = lock[n]
         /\ \/ pc'[t] = "idle" /\ why'[t] = "call"
            \/ pc'[t] = "revive" /\ why[t] = "revive"
            \/ pc'[t] = "reading" /\ at'[t] = at[t] /\ lock'[at[t]] = t /\ why[t] = "call"
         /\ boot' = "failing" \/ boot' = boot
         /\ boot = "up" => boot' = "up"
         /\ \/ left' = left
            \/ boot' = "failing" /\ left' = [left EXCEPT !["boot"] = pool]
<1>1. PoolTypeOK /\ at[t] \in pool /\ at[t] \in Members /\ seen[t] \in SUBSET Members
  BY Pool DEF PoolInv, Conns, AtMember, PoolTypeOK
<1>2. /\ lock' = [lock EXCEPT ![at[t]] = IF ok /\ why[t] = "call" THEN t ELSE None]
      /\ CASE why[t] = "revive" -> Moves(t, "revive", None, seen[t] \cup {at[t]})
           [] why[t] = "call" /\ ok -> Moves(t, "reading", at[t], {})
           [] OTHER -> Moves(t, "idle", None, {})
      /\ waiting' = waiting \ {t}
      /\ sock' = [sock EXCEPT ![t] = None] /\ UNCHANGED <<state, marked>>
  BY DEF Returns, Unlocked
<1> DEFINE fails == t \in waiting /\ ~ok /\ boot = "dialing"
<1>3. /\ boot' = IF fails THEN "failing" ELSE boot
      /\ left' = IF fails THEN [left EXCEPT !["boot"] = pool] ELSE left
  BY DEF Returns
<1>4. /\ lock' \in [Members -> Threads \cup {None}]
      /\ lock'[at[t]] = IF ok /\ why[t] = "call" THEN t ELSE None
      /\ \A n \in Members : n # at[t] => lock'[n] = lock[n]
  BY <1>1, <1>2 DEF PoolTypeOK
<1>5. /\ sock' \in [Threads -> Transports \cup {None}]
      /\ \A s \in Threads : s # t => sock'[s] = sock[s]
  BY <1>1, <1>2 DEF PoolTypeOK
<1>6. /\ boot' \in {"down", "dialing", "failing", "up"} /\ left' \in [Closers -> SUBSET Members]
      /\ waiting' \subseteq Threads
  BY <1>1, <1>2, <1>3, Pool DEF PoolTypeOK
<1>7. /\ boot' = "failing" \/ boot' = boot
      /\ boot = "up" => boot' = "up"
      /\ \/ left' = left
         \/ boot' = "failing" /\ left' = [left EXCEPT !["boot"] = pool]
  BY <1>3
<1>8. /\ pc' \in [Threads -> {"idle", "revive", "lock", "socket", "connect",
                              "sweep", "leased", "reading"}]
      /\ at' \in [Threads -> Members \cup {None}]
      /\ why' \in [Threads -> {"boot", "revive", "call"}]
      /\ seen' \in [Threads -> SUBSET Members]
      /\ \A s \in Threads : s # t => pc'[s] = pc[s] /\ at'[s] = at[s] /\ why'[s] = why[s]
      /\ \/ pc'[t] = "idle" /\ why'[t] = "call"
         \/ pc'[t] = "revive" /\ why[t] = "revive"
         \/ pc'[t] = "reading" /\ at'[t] = at[t] /\ ok /\ why[t] = "call"
  <2>1. CASE why[t] = "revive"
    <3>1. Moves(t, "revive", None, seen[t] \cup {at[t]}) /\ seen[t] \cup {at[t]} \in SUBSET Members
      BY <1>1, <1>2, <2>1
    <3> QED
      BY <1>1, <2>1, <3>1, MovesThread
  <2>2. CASE why[t] = "call" /\ ok
    <3>1. Moves(t, "reading", at[t], {}) /\ {} \in SUBSET Members /\ at[t] \in Members \cup {None}
      BY <1>1, <1>2, <2>2
    <3> QED
      BY <1>1, <2>2, <3>1, MovesThread
  <2>3. CASE why[t] # "revive" /\ ~(why[t] = "call" /\ ok)
    <3>1. Moves(t, "idle", None, {}) /\ {} \in SUBSET Members
      BY <1>2, <2>3
    <3>2. why'[t] = "call"
      BY <1>1, <3>1 DEF Moves, PoolTypeOK
    <3> QED
      BY <1>1, <3>1, <3>2, MovesThread
  <2> QED
    BY <2>1, <2>2, <2>3
<1> QED
  BY <1>2, <1>4, <1>5, <1>6, <1>7, <1>8

\* The threads and the phases after a dial, whatever became of the client.
LEMMA AfterDial ==
  ASSUME PoolInv, NEW t \in Threads, pc[t] \in {"socket", "connect"},
         NEW ok \in BOOLEAN, Returns(t, ok)
  PROVE  AtMember' /\ Holding' /\ SocksOwn' /\ Crews' /\ Phases'
<1>1. PoolTypeOK /\ at[t] \in pool /\ pool' = pool /\ pool \subseteq Members /\ lock[at[t]] = t
  BY Pool, Returned DEF PoolInv, Conns, AtMember, Holding, state
<1>2. AtMember'
  BY <1>1, Returned DEF PoolInv, Conns, AtMember
<1>3. Holding'
  <2> SUFFICES ASSUME NEW s \in Threads, pc'[s] \in {"socket", "connect", "leased", "reading"}
               PROVE  lock'[at'[s]] = s
    BY DEF Holding
  <2>1. CASE s = t
    BY <2>1, Returned
  <2>2. CASE s # t
    <3>1. pc'[s] = pc[s] /\ at'[s] = at[s]
      BY <2>2, Returned
    <3>2. lock[at[s]] = s /\ at[s] \in Members /\ at[s] # at[t]
      BY <1>1, <2>2, <3>1 DEF PoolInv, Conns, AtMember, Holding
    <3> QED
      BY <3>1, <3>2, Returned
  <2> QED
    BY <2>1, <2>2
<1>4. SocksOwn'
  BY Returned DEF PoolInv, Conns, SocksOwn
<1>5. Crews'
  <2>1. /\ \A s \in Threads : s # t => pc'[s] = pc[s] /\ why'[s] = why[s]
        /\ \/ pc'[t] = "idle" \/ why[t] = "revive" \/ why[t] = "call"
        /\ boot = "up" => boot' = "up"
    BY Returned
  <2> QED
    BY <2>1, Names DEF PoolInv, Crews
<1>6. Phases'
  <2>1. /\ marked' = marked /\ shut' = shut
        /\ left["boot"] # {} => boot = "failing"
        /\ left["stop"] # {} => shut
        /\ \A c \in Closers : marked[c] # None => marked[c] \in left[c]
    BY Returned DEF PoolInv, Phases, state
  <2>2. CASE left' = left
    BY <2>1, <2>2, Returned DEF Phases
  <2>3. CASE left' # left
    <3>1. t \in waiting /\ ~ok /\ boot = "dialing" /\ boot' = "failing"
          /\ left' = [left EXCEPT !["boot"] = pool]
      BY <2>3 DEF Returns
    <3>2. marked["boot"] = None
      BY <2>1, <3>1, Names
    <3>3. left'["stop"] = left["stop"]
      BY <1>1, <3>1, Names DEF PoolTypeOK
    <3> QED
      BY <2>1, <3>1, <3>2, <3>3, Names DEF Phases
  <2> QED
    BY <2>2, <2>3
<1> QED
  BY <1>2, <1>3, <1>4, <1>5, <1>6

LEMMA Connecting ==
  ASSUME PoolInv, NEW t \in Threads, Connect(t)
  PROVE  Kept
<1>1. /\ PoolTypeOK /\ at[t] \in pool /\ at[t] \in Members /\ lock[at[t]] = t
      /\ pc[t] = "connect" /\ sock[t] \in Transports /\ sock[t][1] = at[t]
  BY Pool DEF PoolInv, Conns, AtMember, Holding, SocksOwn, Connect
<1>2. /\ client' = [client EXCEPT ![at[t]] = sock[t]]
      /\ UNCHANGED <<closed, open>> /\ Returns(t, TRUE)
  BY DEF Connect
<1>3. /\ client' \in [Members -> Transports \cup {None, Blank}] /\ client'[at[t]] = sock[t]
      /\ \A n \in Members : n # at[t] => client'[n] = client[n]
  BY <1>1, <1>2 DEF PoolTypeOK
<1>4. /\ AtMember' /\ Holding' /\ SocksOwn' /\ Crews' /\ Phases' /\ pool' = pool
      /\ pc'[t] \notin {"socket", "connect"}
      /\ \A s \in Threads : s # t => pc'[s] = pc[s] /\ at'[s] = at[s] /\ sock'[s] = sock[s]
  BY <1>1, <1>2, AfterDial, Returned DEF state
<1>5. PoolTypeOK'
  BY <1>1, <1>2, <1>3, Returned DEF PoolTypeOK, state
<1>6. Bare'
  <2> SUFFICES ASSUME NEW s \in Threads, pc'[s] \in {"socket", "connect"}
               PROVE  client'[at'[s]] \notin Transports
    BY DEF Bare
  <2>1. s # t /\ pc[s] \in {"socket", "connect"} /\ at'[s] = at[s]
    BY <1>4
  <2>2. at[s] \in Members /\ lock[at[s]] = s /\ client[at[s]] \notin Transports
    BY <2>1, Pool DEF PoolInv, Conns, AtMember, Holding, Bare
  <2> QED
    BY <1>1, <1>3, <2>1, <2>2
<1>7. ClientsOwn'
  BY <1>1, <1>3, <1>4 DEF PoolInv, Conns, ClientsOwn
<1>8. Owned'
  <2> SUFFICES ASSUME NEW i \in open
               PROVE  \/ client'[i[1]] = i
                      \/ \E s \in Threads : pc'[s] = "connect" /\ sock'[s] = i
    BY <1>2 DEF Owned
  <2>1. i \in Transports /\ i[1] \in Members
    BY <1>1, Transport DEF PoolTypeOK
  <2>2. CASE client[i[1]] = i
    <3>1. i[1] # at[t]
      BY <1>1, <2>1, <2>2 DEF PoolInv, Conns, Bare
    <3> QED
      BY <1>3, <2>1, <2>2, <3>1
  <2>3. CASE \E s \in Threads : pc[s] = "connect" /\ sock[s] = i
    BY <1>1, <1>3, <1>4, <2>3
  <2> QED
    BY <2>2, <2>3 DEF PoolInv, Conns, Owned
<1>9. Undisturbed
  BY <1>1, <1>3, Alone
<1> QED
  BY <1>4, <1>5, <1>6, <1>7, <1>8, <1>9 DEF Kept, PoolInv, Conns

LEMMA Breaking ==
  ASSUME PoolInv, NEW t \in Threads, pc[t] \in {"socket", "connect"}, Breaks(t)
  PROVE  Kept
<1>1. /\ PoolTypeOK /\ at[t] \in pool /\ at[t] \in Members /\ lock[at[t]] = t
  BY Pool DEF PoolInv, Conns, AtMember, Holding
<1>2. /\ closed' = [closed EXCEPT ![at[t]] = TRUE] /\ client' = [client EXCEPT ![at[t]] = None]
      /\ open' = (open \ {client[at[t]]}) \ {sock[t]} /\ Returns(t, FALSE)
  BY DEF Breaks, AfterFailure, Torn
<1>3. /\ client' \in [Members -> Transports \cup {None, Blank}] /\ client'[at[t]] = None
      /\ \A n \in Members : n # at[t] => client'[n] = client[n]
  BY <1>1, <1>2 DEF PoolTypeOK
<1>4. /\ AtMember' /\ Holding' /\ SocksOwn' /\ Crews' /\ Phases' /\ pool' = pool
      /\ pc'[t] \notin {"socket", "connect"}
      /\ \A s \in Threads : s # t => pc'[s] = pc[s] /\ at'[s] = at[s] /\ sock'[s] = sock[s]
  <2>1. AtMember' /\ Holding' /\ SocksOwn' /\ Crews' /\ Phases'
    BY <1>2, AfterDial
  <2>2. /\ pool' = pool
        /\ pc'[t] \notin {"socket", "connect"}
        /\ \A s \in Threads : s # t => pc'[s] = pc[s] /\ at'[s] = at[s] /\ sock'[s] = sock[s]
    BY <1>1, <1>2, Returned DEF state
  <2> QED
    BY <2>1, <2>2
<1>5. closed' \in [Members -> BOOLEAN] /\ open' \subseteq Transports
  BY <1>1, <1>2 DEF PoolTypeOK
<1>6. PoolTypeOK'
  BY <1>1, <1>2, <1>3, <1>5, Returned DEF PoolTypeOK, state
<1>7. Bare' /\ ClientsOwn'
  BY <1>1, <1>3, <1>4, Names, Pool DEF PoolInv, Conns, AtMember, Bare, ClientsOwn
<1>8. Owned'
  <2> SUFFICES ASSUME NEW i \in open'
               PROVE  \/ client'[i[1]] = i
                      \/ \E s \in Threads : pc'[s] = "connect" /\ sock'[s] = i
    BY DEF Owned
  <2>1. i \in open /\ i # client[at[t]] /\ i # sock[t] /\ i[1] \in Members
    BY <1>1, <1>2, Transport DEF PoolTypeOK
  <2>2. CASE client[i[1]] = i
    BY <1>3, <2>1, <2>2
  <2>3. CASE \E s \in Threads : pc[s] = "connect" /\ sock[s] = i
    BY <1>4, <2>1, <2>3
  <2> QED
    BY <2>1, <2>2, <2>3 DEF PoolInv, Conns, Owned
<1>9. Undisturbed
  BY <1>1, <1>3, Alone
<1> QED
  BY <1>4, <1>6, <1>7, <1>8, <1>9 DEF Kept, PoolInv, Conns

LEMMA DialsKept ==
  ASSUME PoolInv, NEW t \in Threads, Locks(t) \/ Dialing(t)
  PROVE  Kept
<1>1. CASE Locks(t)
  BY <1>1, Dial DEF Locks, Free
<1>2. CASE Socket(t)
  BY <1>2, Socketing
<1>3. CASE Connect(t)
  BY <1>3, Connecting
<1>4. CASE Bereft(t) \/ DialFails(t)
  BY <1>4, Breaking DEF Bereft, DialFails
<1> QED
  BY <1>1, <1>2, <1>3, <1>4 DEF Dialing

LEMMA CallsKept ==
  ASSUME PoolInv, NEW t \in Callers, Call(t) \/ Leases(t) \/ Works(t)
  PROVE  Kept
<1>1. CASE Redial(t)
  <2>1. t \in Threads /\ pc[t] = "leased" /\ Dials(t, at[t])
        /\ UNCHANGED <<state, booting, closing, at, why, seen, sock>>
    BY <1>1, Names DEF Redial
  <2>2. lock[at[t]] = t
    BY <2>1 DEF PoolInv, Conns, Holding
  <2> QED
    BY <2>1, <2>2, Dial
<1>2. CASE End(t)
  BY <1>2, Ending
<1>3. CASE \E m \in pool : Takes(t, m)
  BY <1>3, Taking
<1>4. CASE \/ Call(t) \/ Sweep(t) \/ Again(t) \/ Expire(t) \/ Begin(t)
           \/ \E m \in pool : Skip(t, m) \/ Revive(t, m) \/ Passes(t, m)
  BY <1>4, Walking
<1> QED
  BY <1>1, <1>2, <1>3, <1>4 DEF Leases, Works

-----------------------------------------------------------------------------
(* Booting and stopping.                                                    *)

\* The threads that a boot starts were idle, and each has a member to dial.
LEMMA Crew ==
  ASSUME PoolTypeOK, BootDials
  PROVE  /\ waiting' \subseteq {t \in Dialers : pc[t] = "idle"}
         /\ \A t \in waiting' : at'[t] \in pool
         /\ pc' = [t \in Threads |-> IF t \in waiting' THEN "lock" ELSE pc[t]]
         /\ why' = [t \in Threads |-> IF t \in waiting' THEN "boot" ELSE why[t]]
         /\ at' \in [Threads -> Members \cup {None}]
         /\ \A t \in Threads : t \notin waiting' => at'[t] = at[t]
<1> DEFINE free == {t \in Dialers : pc[t] = "idle"}
           crews == {f \in [pool -> free] : \A m, n \in pool : f[m] = f[n] => m = n}
           crew == CHOOSE f \in crews : TRUE
           for(t) == CHOOSE m \in pool : crew[m] = t
<1>1. /\ crews # {} /\ waiting' = {crew[m] : m \in pool}
      /\ pc' = [t \in Threads |-> IF t \in waiting' THEN "lock" ELSE pc[t]]
      /\ at' = [t \in Threads |-> IF t \in waiting' THEN for(t) ELSE at[t]]
      /\ why' = [t \in Threads |-> IF t \in waiting' THEN "boot" ELSE why[t]]
  BY DEF BootDials
<1>2. crew \in [pool -> free]
  BY <1>1
<1> HIDE DEF crew
<1>3. waiting' \subseteq free
  BY <1>1, <1>2
<1>4. \A t \in waiting' : for(t) \in pool
  BY <1>1
<1> HIDE DEF for
<1>5. \A t \in waiting' : t \in Threads
  BY <1>3, Names
<1>6. /\ \A t \in waiting' : at'[t] \in pool
      /\ \A t \in Threads : t \notin waiting' => at'[t] = at[t]
  BY <1>1, <1>4, <1>5
<1>7. at' \in [Threads -> Members \cup {None}]
  BY <1>1, <1>4, Pool DEF PoolTypeOK
<1> QED
  BY <1>1, <1>3, <1>6, <1>7

LEMMA BootDialing == PoolInv /\ BootDials => Kept
<1> SUFFICES ASSUME PoolInv, BootDials PROVE Kept
  OBVIOUS
<1>1. /\ PoolTypeOK /\ boot = "down" /\ boot' = "dialing"
      /\ UNCHANGED <<conns, state, closing, seen, sock>>
  BY DEF PoolInv, BootDials
<1>2. /\ waiting' \subseteq Threads /\ \A t \in waiting' : t \in Dialers /\ pc[t] = "idle"
      /\ \A t \in Threads : /\ t \in waiting' => pc'[t] = "lock" /\ why'[t] = "boot" /\ at'[t] \in pool
                            /\ t \notin waiting' => pc'[t] = pc[t] /\ why'[t] = why[t] /\ at'[t] = at[t]
      /\ pc' \in [Threads -> {"idle", "revive", "lock", "socket", "connect",
                              "sweep", "leased", "reading"}]
      /\ why' \in [Threads -> {"boot", "revive", "call"}]
      /\ at' \in [Threads -> Members \cup {None}]
  BY <1>1, Crew, Names DEF PoolTypeOK
<1>3. PoolTypeOK'
  BY <1>1, <1>2 DEF PoolTypeOK, conns, state, closing
<1>4. Conns'
  BY <1>1, <1>2
     DEF PoolInv, Conns, AtMember, Holding, Bare, SocksOwn, ClientsOwn, Owned, conns, state
<1>5. Crews'
  BY <1>1, <1>2, Names DEF PoolInv, Crews
<1>6. Phases' /\ Undisturbed
  BY <1>1 DEF PoolInv, Phases, Undisturbed, conns, state, closing
<1> QED
  BY <1>3, <1>4, <1>5, <1>6 DEF Kept, PoolInv

\* Nothing but the boot, the stop and what they have to close changes.
LEMMA BootMoves ==
  ASSUME PoolInv, UNCHANGED <<conns, pool, marked, threads>>,
         \/ BootDialed \/ BootExpires \/ BootFailed \/ Stop
  PROVE  Kept
<1>1. PoolTypeOK /\ pool \subseteq Members
  BY Pool DEF PoolInv
<1>2. /\ boot' \in {"down", "dialing", "failing", "up"} /\ shut' \in BOOLEAN
      /\ waiting' \subseteq Threads /\ left' \in [Closers -> SUBSET Members]
  BY <1>1 DEF PoolTypeOK, BootDialed, BootExpires, BootFailed, Stop, booting, closing, state
<1>3. PoolTypeOK'
  BY <1>1, <1>2 DEF PoolTypeOK, conns, threads
<1>4. Conns'
  BY DEF PoolInv, Conns, AtMember, Holding, Bare, SocksOwn, ClientsOwn, Owned, conns, threads
<1>5. boot = "up" => boot' = "up"
  BY DEF BootDialed, BootExpires, BootFailed, Stop, booting
<1>6. Crews'
  BY <1>5 DEF PoolInv, Crews, threads
<1>7. Phases'
  <2>1. CASE BootDialed \/ BootFailed
    BY <2>1 DEF PoolInv, Phases, BootDialed, BootFailed, closing, state
  <2>2. CASE BootExpires
    <3>1. /\ boot = "dialing" /\ boot' = "failing" /\ shut' = shut /\ marked' = marked
          /\ left' = [left EXCEPT !["boot"] = pool]
      BY <2>2 DEF BootExpires, state
    <3>2. marked["boot"] = None /\ left'["stop"] = left["stop"]
      BY <1>1, <3>1, Names DEF PoolInv, Phases, PoolTypeOK
    <3> QED
      BY <3>1, <3>2, Names DEF PoolInv, Phases
  <2>3. CASE Stop
    <3>1. /\ ~shut /\ shut' = TRUE /\ boot' = boot /\ marked' = marked
          /\ left' = [left EXCEPT !["stop"] = pool]
      BY <2>3 DEF Stop, booting
    <3>2. marked["stop"] = None /\ left'["boot"] = left["boot"]
      BY <1>1, <3>1, Names DEF PoolInv, Phases, PoolTypeOK
    <3> QED
      BY <3>1, <3>2, Names DEF PoolInv, Phases
  <2> QED
    BY <2>1, <2>2, <2>3
<1>8. Undisturbed
  BY DEF Undisturbed, conns
<1> QED
  BY <1>3, <1>4, <1>6, <1>7, <1>8 DEF Kept, PoolInv

LEMMA Marking ==
  ASSUME PoolInv, NEW c \in Closers, NEW m \in pool, Mark(c, m)
  PROVE  Kept
<1>1. PoolTypeOK /\ m \in Members
  BY Pool DEF PoolInv
<1>2. /\ m \in left[c] /\ marked' = [marked EXCEPT ![c] = m]
      /\ closed' = [closed EXCEPT ![m] = TRUE]
      /\ UNCHANGED <<client, lock, open, state, booting, left, threads>>
  BY DEF Mark
<1>3. PoolTypeOK'
  BY <1>1, <1>2 DEF PoolTypeOK, state, booting, threads
<1>4. Conns' /\ Crews' /\ Undisturbed
  BY <1>2 DEF PoolInv, Conns, AtMember, Holding, Bare, SocksOwn, ClientsOwn, Owned, Crews,
     Undisturbed, state, booting, threads
<1>5. Phases'
  BY <1>1, <1>2 DEF PoolInv, PoolTypeOK, Phases, state, booting
<1> QED
  BY <1>3, <1>4, <1>5 DEF Kept, PoolInv

\* A member is torn down with or without the lock: nobody reads while a boot
\* fails, and a stop disturbs whom it likes.
LEMMA TearingDown ==
  ASSUME PoolInv, NEW c \in Closers, TearDown(c)
  PROVE  Kept
<1> DEFINE m == marked[c]
<1>1. PoolTypeOK /\ m \in Members /\ m \in left[c]
  BY DEF PoolInv, PoolTypeOK, Phases, TearDown
<1>2. /\ client' = [client EXCEPT ![m] = None] /\ open' = open \ {client[m]}
      /\ marked' = [marked EXCEPT ![c] = None] /\ left' = [left EXCEPT ![c] = @ \ {m}]
      /\ UNCHANGED <<closed, lock, state, booting, threads>>
  BY DEF TearDown, Torn
<1> HIDE DEF m
<1>3. /\ client' \in [Members -> Transports \cup {None, Blank}] /\ client'[m] = None
      /\ \A n \in Members : n # m => client'[n] = client[n]
  BY <1>1, <1>2 DEF PoolTypeOK
<1>4. /\ marked' \in [Closers -> Members \cup {None}] /\ marked'[c] = None
      /\ left' \in [Closers -> SUBSET Members] /\ left'[c] \subseteq left[c]
      /\ \A d \in Closers : d # c => marked'[d] = marked[d] /\ left'[d] = left[d]
  BY <1>1, <1>2 DEF PoolTypeOK
<1>5. PoolTypeOK'
  BY <1>1, <1>2, <1>3, <1>4 DEF PoolTypeOK, state, booting, threads
<1>6. AtMember' /\ Holding' /\ SocksOwn' /\ Crews'
  BY <1>2 DEF PoolInv, Conns, AtMember, Holding, SocksOwn, Crews, state, booting, threads
<1>7. Bare' /\ ClientsOwn'
  BY <1>1, <1>2, <1>3, Names, Pool
     DEF PoolInv, Conns, AtMember, Bare, ClientsOwn, state, threads
<1>8. Owned'
  <2> SUFFICES ASSUME NEW i \in open'
               PROVE  \/ client'[i[1]] = i
                      \/ \E s \in Threads : pc'[s] = "connect" /\ sock'[s] = i
    BY DEF Owned
  <2>1. i \in open /\ i # client[m] /\ i[1] \in Members
    BY <1>1, <1>2, Transport DEF PoolTypeOK
  <2>2. CASE client[i[1]] = i
    BY <1>3, <2>1, <2>2
  <2>3. CASE \E s \in Threads : pc[s] = "connect" /\ sock[s] = i
    BY <1>2, <2>3 DEF threads
  <2> QED
    BY <2>1, <2>2, <2>3 DEF PoolInv, Conns, Owned
<1>9. Phases'
  BY <1>2, <1>4, Names DEF PoolInv, Phases, state, booting
<1>10. Undisturbed
  <2> SUFFICES ASSUME NEW t \in Threads, pc[t] = "reading", ~shut PROVE FALSE
    BY DEF Undisturbed
  <2>1. t \in Callers /\ boot = "up"
    BY Names DEF PoolInv, Crews
  <2> QED
    BY <1>1, <2>1, Names DEF PoolInv, Phases
<1> QED
  BY <1>5, <1>6, <1>7, <1>8, <1>9, <1>10 DEF Kept, PoolInv, Conns

LEMMA Losing ==
  ASSUME PoolInv, NEW m \in pool, Lost(m)
  PROVE  Kept
<1>1. open' \subseteq open /\ UNCHANGED <<closed, client, lock, state, booting, closing, threads>>
  BY DEF Lost, Torn
<1>2. PoolTypeOK'
  BY <1>1 DEF PoolInv, PoolTypeOK, state, booting, closing, threads
<1>3. Conns'
  BY <1>1 DEF PoolInv, Conns, AtMember, Holding, Bare, SocksOwn, ClientsOwn, Owned, state, threads
<1>4. Crews' /\ Phases' /\ Undisturbed
  BY <1>1 DEF PoolInv, Crews, Phases, Undisturbed, state, booting, closing, threads
<1> QED
  BY <1>2, <1>3, <1>4 DEF Kept, PoolInv

-----------------------------------------------------------------------------
LEMMA StepKept == PoolInv /\ [PoolNext]_poolVars => Kept
<1> SUFFICES ASSUME PoolInv, [PoolNext]_poolVars PROVE Kept
  OBVIOUS
<1>1. CASE \E t \in Callers : Call(t) \/ Leases(t) \/ Works(t)
  BY <1>1, CallsKept
<1>2. CASE \E t \in Threads : Locks(t) \/ Dialing(t)
  BY <1>2, DialsKept
<1>3. CASE Boots
  BY <1>3, BootDialing, BootMoves
     DEF Boots, BootDialed, BootFailed, state, closing
<1>4. CASE Outside
  BY <1>4, BootMoves, Losing DEF Outside, BootExpires, Stop, state, booting
<1>5. CASE \E c \in Closers : Closes(c)
  BY <1>5, Marking, TearingDown DEF Closes
<1>6. CASE UNCHANGED poolVars
  <2>1. PoolTypeOK'
    BY <1>6 DEF PoolInv, PoolTypeOK, poolVars, conns, state, booting, closing, threads
  <2>2. Conns'
    BY <1>6 DEF PoolInv, Conns, AtMember, Holding, Bare, SocksOwn, ClientsOwn, Owned,
       poolVars, conns, state, threads
  <2>3. Crews' /\ Phases' /\ Undisturbed
    BY <1>6 DEF PoolInv, Crews, Phases, Undisturbed, poolVars, conns, state, booting, closing, threads
  <2> QED
    BY <2>1, <2>2, <2>3 DEF Kept, PoolInv
<1> QED
  BY <1>1, <1>2, <1>3, <1>4, <1>5, <1>6 DEF PoolNext

LEMMA InvHolds == PoolSpec => []PoolInv
<1>1. PoolInv /\ [PoolNext]_poolVars => PoolInv'
  BY StepKept DEF Kept
<1> QED
  BY <1>1, InitInv, PTL DEF PoolSpec

\* Of two open transports of one member one is the client's and the other a
\* dial's, or both are dials': neither can be.
LEMMA OneEach ==
  ASSUME PoolInv, NEW i \in open, NEW j \in open, i[1] = j[1]
  PROVE  i = j
<1>1. i \in Transports /\ j \in Transports
  BY DEF PoolInv, PoolTypeOK
<1>2. /\ client[i[1]] = i \/ \E t \in Threads : pc[t] = "connect" /\ sock[t] = i
      /\ client[j[1]] = j \/ \E t \in Threads : pc[t] = "connect" /\ sock[t] = j
  BY DEF PoolInv, Conns, Owned
<1>3. \A t \in Threads : pc[t] = "connect" =>
        sock[t][1] = at[t] /\ client[at[t]] \notin Transports /\ lock[at[t]] = t
  BY DEF PoolInv, Conns, SocksOwn, Bare, Holding
<1> QED
  BY <1>1, <1>2, <1>3

LEMMA InvOne == PoolInv => OneTransportEach
<1> SUFFICES ASSUME PoolInv PROVE OneTransportEach
  OBVIOUS
<1>1. ASSUME NEW i \in open
      PROVE  /\ \/ \E m \in Members : client[m] = i
                \/ \E t \in Threads : sock[t] = i /\ lock[at[t]] = t
             /\ i[1] \in pool
  <2>1. i \in Transports /\ i[1] \in Members
    BY Transport DEF PoolInv, PoolTypeOK
  <2>2. CASE client[i[1]] = i
    BY <2>1, <2>2 DEF PoolInv, Conns, ClientsOwn
  <2>3. CASE \E t \in Threads : pc[t] = "connect" /\ sock[t] = i
    BY <2>3 DEF PoolInv, Conns, AtMember, Holding, SocksOwn
  <2> QED
    BY <2>2, <2>3 DEF PoolInv, Conns, Owned
<1> DEFINE f == [i \in open |-> i[1]]
<1>2. f \in [open -> pool]
  BY <1>1
<1>3. \A i, j \in open : f[i] = f[j] => i = j
  BY OneEach
<1>4. f \in Injection(open, pool)
  BY <1>2, <1>3 DEF Injection, IsInjective
<1>5. IsFiniteSet(pool)
  BY PoolAssumption, Pool, FS_Subset DEF PoolInv
<1> HIDE DEF f
<1>6. Cardinality(open) <= Cardinality(pool)
  BY <1>4, <1>5, FS_Injection
<1> QED
  BY <1>1, <1>6 DEF OneTransportEach

-----------------------------------------------------------------------------
\* Every variable keeps its type.
THEOREM PoolTypeCorrect == PoolSpec => []PoolTypeOK
BY InvHolds, PTL DEF PoolInv

\* Whatever dials fail, come late or lose their client to a close, what is open
\* is a member's or the dial's that holds it: _SFTPConnection.connect closes
\* what was open before it dials, and its handler what it dialed.
THEOREM OneTransportHolds == PoolSpec => []OneTransportEach
BY InvHolds, InvOne, PTL

\* No revival, late dial or failed boot takes the connection from under a read:
\* they wait for the lock the call holds, or are over before the first call.
THEOREM ReadUndisturbedHolds == PoolSpec => ReadUndisturbed
<1>1. PoolInv /\ [PoolNext]_poolVars =>
        [\A t \in Threads :
           pc[t] = "reading" /\ pc'[t] = "reading" /\ ~shut => client'[at[t]] = client[at[t]]]_poolVars
  BY StepKept DEF Kept, Undisturbed
<1> QED
  BY <1>1, InvHolds, PTL DEF PoolSpec, ReadUndisturbed
=============================================================================
