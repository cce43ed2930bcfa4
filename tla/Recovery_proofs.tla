-------------------------- MODULE Recovery_proofs --------------------------
(***************************************************************************)
(* What a start, a recover and a forget may rely on, for any operations and *)
(* any number of them: a start ends with client and database in agreement,  *)
(* it demotes no row whose entry it could have seen, and what was cancelled *)
(* gets no row again.                                                       *)
(*                                                                          *)
(* Every operation acts on what it read some awaits ago.  The invariant     *)
(* says what of that is still true: for any operation, which copies of a    *)
(* row there are and that nobody writes one over a row that was taken away  *)
(* (Outside); for a start, that the listing covers the client (Sees), that  *)
(* the rows are as they were read but for the states it changed itself      *)
(* (ReadsTrue), and that every entry is claimed or still to be adopted      *)
(* (Adopts).  A start may rely on more than a recover, since no worker runs *)
(* before it ends (Stopped).                                                *)
(***************************************************************************)
EXTENDS Recovery, FiniteSetTheorems, TLAPS

\* The states a worker is spawned for.
Up == InFlight \cup {"NEW"}

\* A worker that is at work read a row in flight.
Held == \A h \in Hash : wk[h].at # "idle" => wk[h].mem.state \in Up

\* Only a reconcile holds copies of the operation's, from its reading on.
OpReads ==
  \A h \in Hash : <<"op", h>> \in fresh => Reconciling /\ op.at \in {"check", "adopt"}

\* Nobody works before the start is over.
Stopped ==
  op.kind \in {"down", "boot"} =>
    \A h \in Hash : wk[h].at = "idle" /\ <<"worker", h>> \notin fresh

\* A row that is being forgotten is there until it is dropped, and what is to
\* be ignored is tombstoned, not deleted.
Doomed == op.kind = "forget" => op.h \in Hash /\ Live(op.h) /\ (op.ignore => ~ op.hard)

\* What was cancelled has no row, and a worker that is still at it will write
\* on a tombstone.
Out == \A h \in ignored : ~ Live(h) /\ (h \in dead \/ wk[h].at = "idle")

\* The rows that are yet to be checked are there.
Checks ==
  Reconciling /\ op.at = "check" => \A h \in left : Live(h) /\ snap[h].state # "none"

\* During a start nothing is added to what was listed.
Sees ==
  op.kind = "boot" /\ op.at \in {"rows", "check", "adopt", "retry"} =>
    \A c \in Hash : here[c] # "none" => seen[c] # "none"

\* A row that is DONE has an entry in the listing.
Seated == \A h \in Hash : Live(h) /\ row[h].state = "DONE" => Present(h, row[h])

\* What a start read of the rows is what they are, but for what it changed
\* itself: the state of a row it has checked, never the names the row goes by.
ReadsTrue ==
  op.kind = "boot" /\ op.at = "check" =>
    \A h \in Hash :
      /\ Live(h) <=> snap[h].state # "none"
      /\ Live(h) => Claims(h, row[h]) = Claims(h, snap[h])
      /\ h \in left => snap[h] = row[h]
      /\ h \notin left /\ Live(h) /\ row[h].state = "DONE" => Present(h, row[h])

\* An entry is claimed by a row that is there.
Claimed(c) == \E h \in Hash : Live(h) /\ c \in Claims(h, row[h])

\* An entry that is still to be adopted has no row; every other one is a row's.
Adopts ==
  op.kind = "boot" /\ op.at = "adopt" =>
    /\ \A h \in left : ~ Live(h) /\ seen[h] # "none"
    /\ \A c \in Hash \ (left \cup ignored \cup dead) : seen[c] # "none" => Claimed(c)
    /\ Seated

\* What holds whether a reconcile runs or not, ...
Outside == TypeOK /\ Held /\ OpReads /\ Stopped /\ Doomed /\ Out
\* ... and what a reconcile relies on.
Inside == Checks /\ Sees /\ ReadsTrue /\ Adopts /\ Accounted

\* The inductive invariant.
IInv == Outside /\ Inside

\* The types of TypeOK, by name.
Sights == {"none", "part", "all", "fuse"}
Places == {"none", "ssd", "fuse"}
Works == [at : {"idle", "run", "added", "dying", "shipped", "dropped"}, mem : Row]
Ops == [kind : {"none", "down", "boot", "recover", "forget"},
        at : {"none", "list", "rows", "check", "adopt", "retry",
              "delete", "verify", "again", "still", "drop"},
        h : Hash \cup {None}, files : BOOLEAN, ignore : BOOLEAN, hard : BOOLEAN]

-----------------------------------------------------------------------------
(* Operators.                                                               *)

LEMMA Names == Racing \in Hash /\ CrossSeed \in Hash /\ Hash = {Racing, CrossSeed}
BY DEF Hash

LEMMA GoneType == Gone \in Row
BY BoundAssumption DEF Gone, Row

LEMMA ToType ==
  ASSUME NEW r \in Row, NEW s \in Up \cup {"DONE", "FAILED"}
  PROVE  To(r, s) \in Row /\ To(r, s).state = s
BY DEF To, Row, Up, InFlight

LEMMA MineType == ASSUME NEW h, NEW r \in Row PROVE Mine(h, r) \in Hash
BY Names DEF Mine, Row

LEMMA KnownType ==
  ASSUME NEW r \in Row, NEW g \in Hash
  PROVE  [r EXCEPT !.dst = g] \in Row /\ [r EXCEPT !.dst = g].state = r.state
BY DEF Row

LEMMA ClaimsType == ASSUME NEW h \in Hash, NEW r \in Row PROVE Claims(h, r) \subseteq Hash
BY DEF Claims, Row

\* A row goes by the same names in every state.
LEMMA SameNames ==
  ASSUME NEW h, NEW r \in Row, NEW s \in Up \cup {"DONE", "FAILED"}, r.state # "none"
  PROVE  Claims(h, To(r, s)) = Claims(h, r)
BY DEF Claims, To, Row, Up, InFlight

\* Whole-row writes: one row, never a tombstoned one.
Writes(h, r) ==
  /\ row' \in [Hash -> Row] /\ dead' = dead /\ fresh' \subseteq fresh
  /\ \A g \in Hash \ {h} : row'[g] = row[g]
  /\ row'[h] # row[h] => row'[h] = r /\ h \notin dead

LEMMA UpsertWrites ==
  ASSUME TypeOK, NEW h \in Hash, NEW r \in Row, Upsert(h, r)
  PROVE  Writes(h, r)
BY DEF TypeOK, Upsert, Writes

\* A guarded write finds the row there.
LEMMA TransitionWrites ==
  ASSUME TypeOK, NEW h \in Hash, NEW r \in Row, NEW who, Transition(who, h, r)
  PROVE  Writes(h, r) /\ (row'[h] # row[h] => Live(h))
BY UpsertWrites DEF TypeOK, Transition, Upsert, Writes, Live

LEMMA FreshLives ==
  ASSUME TypeOK, NEW who, NEW h, <<who, h>> \in fresh
  PROVE  h \in Hash /\ Live(h)
BY DEF TypeOK, Live

LEMMA AddedType ==
  ASSUME TypeOK, NEW h \in Hash, Added(h)
  PROVE  here' \in [Hash -> Places] /\ ssd' \in {"none", "part", "all"} /\ remote' \in BOOLEAN
BY DEF TypeOK, Added, Places

LEMMA DeletedType ==
  ASSUME TypeOK, NEW h \in Hash, NEW f \in BOOLEAN, Deleted(h, f)
  PROVE  /\ here' \in [Hash -> Places] /\ ssd' \in {"none", "part", "all"} /\ remote' \in BOOLEAN
         /\ \A c \in Hash : here'[c] # "none" => here[c] # "none"
BY DEF TypeOK, Deleted, Places

LEMMA ListedType ==
  ASSUME TypeOK, NEW hs
  PROVE  /\ Listed(hs) \in [Hash -> Sights]
         /\ \A h \in Hash \cap hs : here[h] # "none" => Listed(hs)[h] # "none"
BY DEF TypeOK, Listed, Sights

\* No torrent's hash is None.
LEMMA NoneApart == None \notin Hash
<1> SUFFICES ASSUME None \in Hash PROVE FALSE OBVIOUS
<1>1. {Racing, CrossSeed, None} = {CrossSeed} \cup {Racing}
  BY Names
<1>2. IsFiniteSet({CrossSeed}) /\ Cardinality({CrossSeed}) = 1
  BY FS_Singleton
<1>3. Cardinality({CrossSeed} \cup {Racing}) \in {1, 2}
  BY <1>2, FS_AddElement
<1> QED BY <1>1, <1>3, HashAssumption

-----------------------------------------------------------------------------
(* What a step of a worker may do.                                          *)

\* The client and the bytes keep their types.
ClientType == here' \in [Hash -> Places] /\ ssd' \in {"none", "part", "all"} /\ remote' \in BOOLEAN

\* Only the worker at a row writes it, with a row in flight, DONE or FAILED, and
\* not over a tombstone; only a row that is there gets a worker.
Acts(h) ==
  /\ Running
  /\ row' \in [Hash -> Row] /\ dead' = dead
  /\ \A g \in Hash \ {h} : row'[g] = row[g] /\ wk'[g] = wk[g]
  /\ row'[h] # row[h] => row'[h].state # "none" /\ h \notin dead /\ wk[h].at # "idle"
  /\ wk' \in [Hash -> Works]
  /\ wk'[h].at # "idle" => wk'[h].mem.state \in Up /\ (wk[h].at # "idle" \/ Live(h))
  /\ fresh' \subseteq fresh \cup {<<"worker", h>>}
  /\ <<"worker", h>> \in fresh' => Live(h)
  /\ ClientType
  /\ UNCHANGED <<ignored, operation, events>>

LEMMA WorkerRuns ==
  ASSUME Outside, NEW h \in Hash, wk[h].at # "idle" PROVE Running
BY DEF Outside, TypeOK, Stopped, Running

\* A worker that ends with a write, of either kind.
LEMMA EndActs ==
  ASSUME Outside, NEW h \in Hash, wk[h].at # "idle", NEW r \in Row, r.state # "none",
         Upsert(h, r) \/ Transition("worker", h, r) \/ NoWrite,
         wk' = [wk EXCEPT ![h] = Idle], ClientType, UNCHANGED <<ignored, operation, events>>
  PROVE  Acts(h)
<1>1. row' \in [Hash -> Row] /\ dead' = dead /\ fresh' \subseteq fresh
      /\ (\A g \in Hash \ {h} : row'[g] = row[g])
      /\ (row'[h] # row[h] => row'[h] = r /\ h \notin dead)
  <2>1. CASE Upsert(h, r)
    BY <2>1, UpsertWrites DEF Outside, Writes
  <2>2. CASE Transition("worker", h, r)
    BY <2>2, TransitionWrites DEF Outside, Writes
  <2>3. CASE NoWrite
    BY <2>3 DEF Outside, TypeOK, NoWrite
  <2> QED BY <2>1, <2>2, <2>3
<1>2. wk' \in [Hash -> Works] /\ wk'[h].at = "idle" /\ \A g \in Hash \ {h} : wk'[g] = wk[g]
  BY GoneType DEF Outside, TypeOK, Works, Idle
<1> QED BY <1>1, <1>2, WorkerRuns, FreshLives DEF Acts, Outside

\* A worker that goes on.
LEMMA GoActs ==
  ASSUME Outside, NEW h \in Hash, wk[h].at # "idle", NoWrite,
         NEW at \in {"added", "dying", "shipped", "dropped"}, Goes(h, at),
         ClientType, UNCHANGED <<ignored, operation, events>>
  PROVE  Acts(h)
<1>1. wk' \in [Hash -> Works] /\ wk'[h].mem = wk[h].mem /\ \A g \in Hash \ {h} : wk'[g] = wk[g]
  BY DEF Outside, TypeOK, Works, Goes
<1> QED BY <1>1, WorkerRuns, FreshLives DEF Acts, Outside, Held, TypeOK, NoWrite

LEMMA ClientKept == TypeOK /\ UNCHANGED client => ClientType
BY DEF TypeOK, client, ClientType, Places

\* Every step of a worker is of that kind.
LEMMA WorkerActs ==
  ASSUME Outside, NEW h \in Hash, Worker(h)
  PROVE  Acts(h)
<1> DEFINE m == wk[h].mem
<1>t. TypeOK /\ m \in Row /\ (wk[h].at # "idle" => m.state \in Up)
  BY DEF Outside, TypeOK, Held
<1>k. UNCHANGED client => ClientType
  BY <1>t, ClientKept
<1>g. Mine(h, m) \in Hash
  BY <1>t, MineType
<1> USE DEF Up, InFlight
<1>1. CASE Spawn(h)
  <2>1. row[h] \in Row /\ UNCHANGED client
    BY <1>1, <1>t DEF TypeOK, Spawn
  <2>2. wk' \in [Hash -> Works] /\ wk'[h].mem = row[h] /\ \A g \in Hash \ {h} : wk'[g] = wk[g]
    BY <1>1, <1>t, <2>1 DEF TypeOK, Spawn, Works
  <2> QED BY <1>1, <1>t, <1>k, <2>1, <2>2 DEF Acts, Spawn, TypeOK, table
<1>2. CASE Parks(h)
  BY <1>2, <1>t, <1>k, EndActs DEF Parks, At
<1>3. CASE Admit(h)
  <2>1. PICK s \in {"QUEUED", "FAILED"} : Finish(h, To(m, s))
    BY <1>3 DEF Admit
  <2>2. To(m, s) \in Row /\ To(m, s).state # "none"
    BY <1>t, ToType
  <2> QED BY <1>3, <1>k, <2>1, <2>2, EndActs DEF Admit, At, Finish
<1>4. CASE Queued(h)
  <2> DEFINE known == [m EXCEPT !.dst = Mine(h, m)]
  <2>1. known \in Row /\ known.state = m.state
    BY <1>t, <1>g, KnownType
  <2>2. ASSUME NEW s \in {"DONE", "DOWNLOADING", "RE_ADDING", "FAILED"}
        PROVE  /\ To(known, s) \in Row /\ To(known, s).state # "none"
               /\ To(m, s) \in Row /\ To(m, s).state # "none"
    BY <1>t, <2>1, ToType
  <2>3. CASE /\ here[Mine(h, m)] = "fuse"
             /\ Finish(h, To(known, CASE remote -> "DONE"
                                     [] ssd = "all" -> "DOWNLOADING"
                                     [] OTHER -> "RE_ADDING"))
             /\ UNCHANGED client
    <3> DEFINE s == CASE remote -> "DONE" [] ssd = "all" -> "DOWNLOADING" [] OTHER -> "RE_ADDING"
    <3>1. s \in {"DONE", "DOWNLOADING", "RE_ADDING", "FAILED"}
      BY <1>t DEF TypeOK
    <3> HIDE DEF s
    <3>2. To(known, s) \in Row /\ To(known, s).state # "none"
      BY <3>1, <2>2
    <3>3. Finish(h, To(known, s)) /\ UNCHANGED client
      BY <2>3 DEF s
    <3> QED BY <1>4, <1>k, <3>2, <3>3, EndActs DEF Queued, At, Finish
  <2>4. CASE Finish(h, To(known, "DOWNLOADING")) /\ UNCHANGED client
    BY <1>4, <1>k, <2>2, <2>4, EndActs DEF Queued, At, Finish
  <2>5. CASE Finish(h, To(m, "RE_ADDING")) /\ UNCHANGED client
    BY <1>4, <1>k, <2>2, <2>5, EndActs DEF Queued, At, Finish
  <2>6. CASE Added(Mine(h, m)) /\ Goes(h, "added") /\ NoWrite
    <3>1. ClientType
      BY <1>t, <1>g, <2>6, AddedType DEF ClientType
    <3> QED BY <1>4, <2>6, <3>1, GoActs DEF Queued, At
  <2>7. CASE Finish(h, To(m, "FAILED")) /\ UNCHANGED client
    BY <1>4, <1>k, <2>2, <2>7, EndActs DEF Queued, At, Finish
  <2> QED BY <1>4, <2>3, <2>4, <2>5, <2>6, <2>7 DEF Queued
<1>5. CASE Record(h)
  <2> DEFINE known == [m EXCEPT !.dst = Mine(h, m)]
  <2>1. known \in Row /\ known.state = m.state /\ known.dst \in Hash
    BY <1>t, <1>g, KnownType DEF Row
  <2>2. ASSUME NEW s \in {"DOWNLOADING", "FAILED"}
        PROVE  To(known, s) \in Row /\ To(known, s).state # "none"
    BY <2>1, ToType
  <2>3. wk[h].at # "idle" /\ known.state # "none"
    BY <1>5, <1>t, <2>1 DEF Record, At
  <2>4. CASE Finish(h, To(known, "DOWNLOADING")) /\ UNCHANGED client
    BY <1>5, <1>k, <2>2, <2>3, <2>4, EndActs DEF Record, Finish
  <2>5. CASE Upsert(h, known) /\ wk' = [wk EXCEPT ![h] = Idle] /\ UNCHANGED client
    BY <1>5, <1>k, <2>1, <2>3, <2>5, EndActs DEF Record
  <2>6. CASE Finish(h, To(known, "FAILED")) /\ (Deleted(known.dst, TRUE) \/ UNCHANGED client)
    <3>1. ClientType
      BY <1>t, <1>k, <2>1, <2>6, DeletedType DEF ClientType
    <3> QED BY <1>5, <2>2, <2>3, <2>6, <3>1, EndActs DEF Record, Finish
  <2> QED BY <1>5, <2>4, <2>5, <2>6 DEF Record
<1>6. CASE Downloading(h)
  <2>1. To(m, "MOVING") \in Row /\ To(m, "MOVING").state # "none"
    BY <1>t, ToType
  <2>2. CASE Finish(h, To(m, "MOVING"))
    BY <1>6, <1>k, <2>1, <2>2, EndActs DEF Downloading, At, Finish
  <2>3. CASE Goes(h, "dying") /\ NoWrite
    BY <1>6, <1>k, <2>3, GoActs DEF Downloading, At
  <2> QED BY <1>6, <2>2, <2>3 DEF Downloading
<1>7. CASE Dying(h)
  <2>1. To(m, "FAILED") \in Row /\ To(m, "FAILED").state # "none"
    BY <1>t, ToType
  <2>2. ClientType
    BY <1>7, <1>t, <1>k, DeletedType DEF Dying, ClientType, Row
  <2> QED BY <1>7, <2>1, <2>2, EndActs DEF Dying, At
<1>8. CASE Moving(h)
  <2>1. To(m, "FAILED") \in Row /\ To(m, "FAILED").state # "none"
    BY <1>t, ToType
  <2>2. CASE remote' = TRUE /\ ssd' = "none" /\ UNCHANGED here /\ Goes(h, "shipped") /\ NoWrite
    <3>1. ClientType
      BY <1>t, <2>2 DEF ClientType, TypeOK, Places
    <3> QED BY <1>8, <2>2, <3>1, GoActs DEF Moving, At
  <2>3. CASE Goes(h, "shipped") /\ NoWrite /\ UNCHANGED client
    BY <1>8, <1>k, <2>3, GoActs DEF Moving, At
  <2>4. CASE Finish(h, To(m, "FAILED")) /\ UNCHANGED client
    BY <1>8, <1>k, <2>1, <2>4, EndActs DEF Moving, At, Finish
  <2> QED BY <1>8, <2>2, <2>3, <2>4 DEF Moving
<1>9. CASE Handover(h)
  <2>1. ClientType
    BY <1>9, <1>t, <1>g, <1>k, DeletedType DEF Handover, ClientType
  <2> QED BY <1>9, <2>1, GoActs DEF Handover, At
<1>10. CASE Handed(h)
  <2>1. To(m, "RE_ADDING") \in Row /\ To(m, "RE_ADDING").state # "none"
    BY <1>t, ToType
  <2> QED BY <1>10, <1>k, <2>1, EndActs DEF Handed, At, Finish
<1>11. CASE ReAdd(h)
  <2>1. To(m, "FAILED") \in Row /\ To(m, "FAILED").state # "none"
    BY <1>t, ToType
  <2>2. CASE \E late \in SUBSET {Racing} :
               LET put == {Mine(h, m)} \cup late
               IN  /\ here' = [g \in Hash |-> IF g \in put /\ here[g] = "none"
                                              THEN "fuse" ELSE here[g]]
                   /\ Finish(h, [m EXCEPT !.state = "DONE", !.dst = Mine(h, m),
                                          !.inj = @ \cup (late \ {h, Mine(h, m)})])
    <3>1. PICK late \in SUBSET {Racing} :
             /\ here' = [g \in Hash |-> IF g \in {Mine(h, m)} \cup late /\ here[g] = "none"
                                        THEN "fuse" ELSE here[g]]
             /\ Finish(h, [m EXCEPT !.state = "DONE", !.dst = Mine(h, m),
                                    !.inj = @ \cup (late \ {h, Mine(h, m)})])
      BY <2>2
    <3> DEFINE r == [m EXCEPT !.state = "DONE", !.dst = Mine(h, m),
                              !.inj = @ \cup (late \ {h, Mine(h, m)})]
    <3>2. r \in Row /\ r.state # "none"
      BY <1>t, <1>g, Names DEF Row
    <3> HIDE DEF r
    <3>3. Finish(h, r)
      BY <3>1 DEF r
    <3>4. here' \in [Hash -> Places]
      BY <1>t, <3>1 DEF TypeOK, Places
    <3>5. CASE UNCHANGED <<ssd, remote>>
      BY <1>11, <1>t, <3>2, <3>3, <3>4, <3>5, EndActs DEF ReAdd, At, Finish, ClientType, TypeOK
    <3>6. CASE Finish(h, To(m, "FAILED")) /\ UNCHANGED client
      BY <1>11, <1>k, <2>1, <3>6, EndActs DEF ReAdd, At, Finish
    <3> QED BY <1>11, <3>5, <3>6 DEF ReAdd
  <2>3. CASE Finish(h, To(m, "FAILED")) /\ UNCHANGED client
    BY <1>11, <1>k, <2>1, <2>3, EndActs DEF ReAdd, At, Finish
  <2> QED BY <1>11, <2>2, <2>3 DEF ReAdd
<1> QED
  BY <1>1, <1>2, <1>3, <1>4, <1>5, <1>6, <1>7, <1>8, <1>9, <1>10, <1>11 DEF Worker

\* ... and keeps the invariant.
LEMMA ActsKeeps == ASSUME IInv, NEW h \in Hash, Acts(h) PROVE IInv'
<1> USE DEF IInv, Outside, Inside
<1>1. op' = op /\ seen' = seen /\ snap' = snap /\ left' = left /\ events' = events /\ ignored' = ignored
      /\ op.kind \notin {"down", "boot"} /\ dead' = dead
  BY DEF Acts, operation, Running
<1>2. \A g \in Hash : Live(g) => Live(g)'
  BY DEF Acts, Live
<1>3. TypeOK'
  <2>1. dead' \subseteq {g \in Hash : row'[g].state # "none"}
    BY DEF Acts, TypeOK
  <2>2. fresh' \subseteq {"worker", "op"} \X {g \in Hash : row'[g].state # "none" /\ g \notin dead'}
    <3> SUFFICES ASSUME NEW x \in fresh'
                 PROVE  x \in {"worker", "op"} \X {g \in Hash : row'[g].state # "none" /\ g \notin dead'}
      OBVIOUS
    <3>1. CASE x \in fresh
      <4>1. PICK who \in {"worker", "op"}, g \in Hash : x = <<who, g>> /\ Live(g)
        BY <3>1 DEF TypeOK, Live
      <4> QED BY <1>2, <4>1 DEF Live
    <3>2. CASE x = <<"worker", h>>
      BY <1>2, <3>2 DEF Acts, Live
    <3> QED BY <3>1, <3>2 DEF Acts
  <2>3. /\ row' \in [Hash -> Row] /\ wk' \in [Hash -> Works]
        /\ here' \in [Hash -> Places] /\ ssd' \in {"none", "part", "all"} /\ remote' \in BOOLEAN
    BY DEF Acts, ClientType
  <2>4. /\ ignored' \subseteq Hash /\ op' \in Ops /\ seen' \in [Hash -> Sights]
        /\ snap' \in [Hash -> Row] /\ left' \subseteq Hash /\ events' \in 0..MaxEvents
    BY <1>1 DEF TypeOK, Ops, Sights
  <2> QED BY <2>1, <2>2, <2>3, <2>4 DEF TypeOK, Works, Places, Ops, Sights
<1>4. Held'
  BY DEF Acts, Held
<1>5. OpReads' /\ Stopped' /\ Doomed'
  BY <1>1, <1>2 DEF Acts, OpReads, Stopped, Doomed, Reconciling, Live
<1>6. Out'
  BY <1>1 DEF Acts, Out, Live, TypeOK
<1>7. Inside'
  <2>1. Checks'
    BY <1>1, <1>2 DEF Checks, Reconciling, TypeOK
  <2>2. op'.kind # "boot"
    BY <1>1
  <2> QED BY <2>1, <2>2 DEF Sees, ReadsTrue, Adopts, Accounted
<1> HIDE DEF Inside
<1> QED BY <1>3, <1>4, <1>5, <1>6, <1>7

-----------------------------------------------------------------------------
(* What happens beside a reconcile.                                         *)

LEMMA Idles == Idle \in Works /\ Idle.at = "idle"
BY GoneType DEF Idle, Works

LEMMA NoOpType == NoOp \in Ops /\ NoOp.kind = "none" /\ NoOp.at = "none"
BY DEF NoOp, Ops

LEMMA OpGoes ==
  ASSUME TypeOK, NEW at \in {"none", "list", "rows", "check", "adopt", "retry",
                             "delete", "verify", "again", "still", "drop"},
         op' = [op EXCEPT !.at = at]
  PROVE  /\ op' \in Ops /\ op'.at = at /\ op'.kind = op.kind /\ op'.h = op.h
         /\ op'.ignore = op.ignore /\ op'.hard = op.hard
BY DEF TypeOK, Ops

LEMMA EventCounts ==
  ASSUME TypeOK, NEW kind, Event(kind) PROVE events' \in 0..MaxEvents
BY BoundAssumption DEF TypeOK, Event

\* Of the client, only less: entries and bytes go.
LEMMA ClientLess ==
  ASSUME IInv, ClientType, \A c \in Hash : here'[c] # "none" => here[c] # "none",
         UNCHANGED <<table, workers, operation>>, events' \in 0..MaxEvents
  PROVE  IInv'
<1> USE DEF IInv, Outside, Inside, table, workers, operation
<1>1. Outside'
  BY DEF TypeOK, ClientType, Places, Held, OpReads, Stopped, Doomed, Out, Reconciling, Live
<1>2. Inside'
  BY DEF Checks, Sees, ReadsTrue, Adopts, Accounted, Reconciling, Live, Present, Claimed,
         Seated, Claims
<1> QED BY <1>1, <1>2

LEMMA StepLose == ASSUME IInv, NEW h \in Hash, Lose(h) PROVE IInv'
<1>1. ClientType /\ \A c \in Hash : here'[c] # "none" => here[c] # "none"
  BY DEF IInv, Outside, TypeOK, Lose, ClientType, Places
<1> QED BY <1>1, ClientLess, BoundAssumption DEF Lose, Event, IInv, Outside, TypeOK

LEMMA StepFetch == ASSUME IInv, Fetch PROVE IInv'
<1>1. ClientType /\ here' = here
  BY DEF IInv, Outside, TypeOK, Fetch, ClientType, Places
<1> QED BY <1>1, ClientLess DEF Fetch, IInv, Outside, TypeOK

\* Outside a reconcile a step has only Outside to keep.
LEMMA InsideOut == ~ Reconciling' => Inside'
BY DEF Reconciling, Inside, Checks, Sees, ReadsTrue, Adopts, Accounted

\* Nor has it as long as the reconcile has nothing but an empty list.
LEMMA InsideEarly == op'.at = "list" => Inside'
BY DEF Reconciling, Inside, Checks, Sees, ReadsTrue, Adopts, Accounted

LEMMA StepDiscover == ASSUME IInv, Discover PROVE IInv'
<1> USE DEF IInv, Outside
<1>1. To(Gone, "NEW") \in Row /\ To(Gone, "NEW").state = "NEW"
  BY GoneType, ToType DEF Up
<1>2. Writes(Racing, To(Gone, "NEW"))
  BY <1>1, UpsertWrites, Names DEF Discover
<1>3. Racing \notin ignored /\ op.kind = "none"
      /\ UNCHANGED <<ignored, here, ssd, remote, wk, op, seen, snap, left, events>>
  BY DEF Discover, client, operation
<1>4. TypeOK'
  <2>1. dead' \subseteq {g \in Hash : row'[g].state # "none"}
    BY <1>1, <1>2, Names DEF Writes, TypeOK
  <2>2. fresh' \subseteq {"worker", "op"} \X {g \in Hash : row'[g].state # "none" /\ g \notin dead'}
    BY <1>1, <1>2, Names DEF Writes, TypeOK
  <2> QED BY <1>2, <1>3, <2>1, <2>2 DEF Writes, TypeOK
<1>5. Held' /\ OpReads' /\ Stopped' /\ Doomed'
  BY <1>2, <1>3 DEF Writes, Held, OpReads, Stopped, Doomed, Reconciling
<1>6. Out'
  BY <1>2, <1>3, Names DEF Writes, Out, Live, TypeOK
<1> QED BY <1>3, <1>4, <1>5, <1>6, InsideOut DEF Reconciling

LEMMA StepStamp == ASSUME IInv, NEW h \in Hash, Stamp(h) PROVE IInv'
<1> USE DEF IInv, Outside, Inside
<1>1. fresh' = fresh \ {<<"op", h>>} /\ op.kind \notin {"down", "boot"}
      /\ UNCHANGED <<row, dead, ignored, here, ssd, remote, wk, op, seen, snap, left, events>>
  BY DEF Stamp, Running, table, client, operation
<1> QED
  BY <1>1 DEF TypeOK, Held, OpReads, Stopped, Doomed, Out, Reconciling, Live, Checks, Sees,
              ReadsTrue, Adopts, Accounted

LEMMA StepUnignore == ASSUME IInv, NEW h \in Hash, Unignore(h) PROVE IInv'
<1> USE DEF IInv, Outside
<1>1. op.kind = "down" /\ ignored' = ignored \ {h} /\ dead' = dead \ {h}
      /\ UNCHANGED <<row, here, ssd, remote, wk, fresh, op, seen, snap, left, events>>
  BY DEF Unignore, client, workers, operation
<1>2. Outside'
  BY <1>1 DEF TypeOK, Held, OpReads, Stopped, Doomed, Out, Reconciling, Live
<1> QED BY <1>1, <1>2, InsideOut DEF Reconciling

LEMMA StepGc == ASSUME IInv, NEW h \in Hash, Gc(h) PROVE IInv'
<1> USE DEF IInv, Outside
<1>1. op.kind \notin {"down", "boot"} /\ h \in dead /\ wk[h].at = "idle"
      /\ row' = [row EXCEPT ![h] = Gone] /\ dead' = dead \ {h}
      /\ UNCHANGED <<ignored, here, ssd, remote, wk, fresh, op, seen, snap, left, events>>
  BY DEF Gc, client, workers, operation, Running
<1>2. \A g \in Hash : Live(g)' <=> Live(g)
  BY <1>1 DEF Live, Gone, TypeOK
<1>3. TypeOK'
  BY <1>1, GoneType DEF TypeOK
<1>4. Held' /\ OpReads' /\ Stopped' /\ Doomed'
  BY <1>1, <1>2 DEF Held, OpReads, Stopped, Doomed, Reconciling
<1>5. Out'
  BY <1>1, <1>2 DEF Out, TypeOK
<1>6. Inside'
  BY <1>1, <1>2 DEF Inside, Checks, Sees, ReadsTrue, Adopts, Accounted, Reconciling, TypeOK
<1> QED BY <1>3, <1>4, <1>5, <1>6

LEMMA StepForget == ASSUME IInv, NEW h \in Hash, Forget(h) PROVE IInv'
<1> USE DEF IInv, Outside
<1>1. PICK files \in BOOLEAN, ignore \in BOOLEAN :
           \/ Forgets(h, files, ignore, FALSE) /\ UNCHANGED workers
           \/ /\ Forgets(h, files, ignore, ~ ignore)
              /\ wk' = [wk EXCEPT ![h] = Idle] /\ fresh' = fresh \ {<<"worker", h>>}
  BY DEF Forget
<1>2. /\ op.kind = "none" /\ Live(h) /\ events' \in 0..MaxEvents
      /\ UNCHANGED <<row, dead, ignored, here, ssd, remote, seen, left>>
  BY BoundAssumption DEF Forget, Event, table, client, TypeOK
<1>3. /\ op' \in Ops /\ op'.kind = "forget" /\ op'.at = "list" /\ op'.h = h
      /\ op'.ignore => ~ op'.hard
      /\ snap' \in [Hash -> Row]
  <2>1. Unread \in [Hash -> Row]
    BY GoneType DEF Unread
  <2>2. PICK hard \in BOOLEAN : Forgets(h, files, ignore, hard) /\ (ignore => ~ hard)
    BY <1>1
  <2>3. row[h] \in Row
    BY DEF TypeOK
  <2>4. /\ op' \in Ops /\ op'.kind = "forget" /\ op'.at = "list" /\ op'.h = h
        /\ op'.ignore = ignore /\ op'.hard = hard
    BY <2>2 DEF Forgets, NoOp, Ops
  <2> QED BY <2>1, <2>2, <2>3, <2>4 DEF Forgets
<1>4. /\ wk' \in [Hash -> Works] /\ fresh' \subseteq fresh
      /\ \A g \in Hash : wk'[g] = wk[g] \/ wk'[g].at = "idle"
  <2>1. CASE UNCHANGED workers
    BY <2>1 DEF TypeOK, Works, workers
  <2>2. CASE wk' = [wk EXCEPT ![h] = Idle] /\ fresh' = fresh \ {<<"worker", h>>}
    <3>1. wk \in [Hash -> Works]
      BY DEF TypeOK, Works
    <3> QED BY <2>2, <3>1, Idles
  <2> QED BY <1>1, <2>1, <2>2
<1>5. TypeOK'
  BY <1>2, <1>3, <1>4 DEF TypeOK, Works, Ops
<1>6. Held' /\ OpReads' /\ Stopped' /\ Doomed'
  BY <1>2, <1>3, <1>4 DEF Held, OpReads, Stopped, Doomed, Reconciling, Live
<1>7. Out'
  BY <1>2, <1>4 DEF Out, TypeOK, Live
<1> QED BY <1>3, <1>5, <1>6, <1>7, InsideOut DEF Reconciling

-----------------------------------------------------------------------------
(* Down and up.                                                             *)

LEMMA Blank == Unread \in [Hash -> Row] /\ Unseen \in [Hash -> Sights]
BY GoneType DEF Unread, Unseen, Sights

LEMMA StepCrash == ASSUME IInv, Crash PROVE IInv'
<1> USE DEF IInv, Outside
<1>1. /\ op' \in Ops /\ op'.kind = "down" /\ wk' = [h \in Hash |-> Idle] /\ fresh' = {}
      /\ seen' = Unseen /\ snap' = Unread /\ left' = {} /\ events' \in 0..MaxEvents
      /\ UNCHANGED <<row, dead, ignored, here, ssd, remote>>
  BY EventCounts DEF Crash, NoOp, Ops, table, client
<1>2. TypeOK'
  BY <1>1, Blank, Idles DEF TypeOK, Ops, Works, Sights
<1>3. Held' /\ OpReads' /\ Stopped' /\ Doomed'
  BY <1>1, Idles DEF Held, OpReads, Stopped, Doomed
<1>4. Out'
  BY <1>1, Idles DEF Out, Live, TypeOK
<1> QED BY <1>1, <1>2, <1>3, <1>4, InsideOut DEF Reconciling

LEMMA StepStart == ASSUME IInv, Start PROVE IInv'
<1> USE DEF IInv, Outside
<1>1. /\ op.kind = "down" /\ op' \in Ops /\ op'.kind = "boot" /\ op'.at = "list"
      /\ UNCHANGED <<row, dead, ignored, here, ssd, remote, wk, fresh, seen, snap, left, events>>
  BY DEF Start, Boots, NoOp, Ops, table, client, workers
<1>2. TypeOK'
  BY <1>1 DEF TypeOK, Ops
<1>3. Held' /\ OpReads' /\ Stopped' /\ Doomed' /\ Out'
  BY <1>1 DEF Held, OpReads, Stopped, Doomed, Out, Live, Reconciling
<1> QED BY <1>1, <1>2, <1>3, InsideEarly

\* A start without a database.
LEMMA Wiped ==
  ASSUME IInv, op.kind = "down", row' = Unread, dead' = {}, ignored' = {}, Boots, ClientType,
         UNCHANGED <<workers, seen, snap, left, events>>
  PROVE  IInv'
<1> USE DEF IInv, Outside
<1>1. /\ op' \in Ops /\ op'.kind = "boot" /\ op'.at = "list"
      /\ UNCHANGED <<wk, fresh, seen, snap, left, events>>
  BY DEF Boots, NoOp, Ops, workers
<1>2. fresh = {}
  <2>1. \A x \in fresh : \E who \in {"worker", "op"}, h \in Hash : x = <<who, h>>
    BY DEF TypeOK
  <2> QED BY <2>1 DEF Stopped, OpReads, Reconciling
<1>3. TypeOK'
  BY <1>1, <1>2, Blank DEF TypeOK, Ops, ClientType, Places
<1>4. Held' /\ OpReads' /\ Stopped' /\ Doomed' /\ Out'
  BY <1>1, <1>2 DEF Held, OpReads, Stopped, Doomed, Out
<1> QED BY <1>1, <1>3, <1>4, InsideEarly

LEMMA StepReset == ASSUME IInv, Reset PROVE IInv'
BY Wiped, ClientKept DEF Reset, IInv, Outside

LEMMA StepFullReset == ASSUME IInv, FullReset PROVE IInv'
<1>1. ClientType
  BY DEF FullReset, IInv, Outside, TypeOK, ClientType, Places
<1> QED BY <1>1, Wiped DEF FullReset

-----------------------------------------------------------------------------
(* The reconcile.                                                           *)

LEMMA StepRecover == ASSUME IInv, Recover PROVE IInv'
<1> USE DEF IInv, Outside
<1>1. /\ op.kind = "none" /\ op' \in Ops /\ op'.kind = "recover" /\ op'.at = "list"
      /\ events' \in 0..MaxEvents
      /\ UNCHANGED <<row, dead, ignored, here, ssd, remote, wk, fresh, seen, snap, left>>
  BY EventCounts DEF Recover, NoOp, Ops, table, client, workers
<1>2. TypeOK'
  BY <1>1 DEF TypeOK, Ops
<1>3. Held' /\ OpReads' /\ Stopped' /\ Doomed' /\ Out'
  BY <1>1 DEF Held, OpReads, Stopped, Doomed, Out, Live, Reconciling
<1> QED BY <1>1, <1>2, <1>3, InsideEarly

\* A reconcile that raises has changed nothing but its own state.
LEMMA RaisesKeeps ==
  ASSUME IInv, Reconciling, Raises,
         UNCHANGED <<row, dead, ignored, here, ssd, remote, wk, events>>
  PROVE  IInv'
<1> USE DEF IInv, Outside
<1>1. /\ op' \in Ops /\ op'.kind \in {"down", "none"} /\ (op'.kind = "down" => op.kind = "boot")
      /\ seen' = Unseen /\ snap' = Unread /\ left' = {} /\ fresh' = fresh \ ({"op"} \X Hash)
  BY DEF Raises, NoOp, Ops
<1>2. TypeOK'
  BY <1>1, Blank DEF TypeOK, Ops, Sights
<1>3. Held' /\ OpReads' /\ Stopped' /\ Doomed'
  BY <1>1 DEF Held, OpReads, Stopped, Doomed, TypeOK
<1>4. Out'
  BY DEF Out, Live
<1> QED BY <1>1, <1>2, <1>3, <1>4, InsideOut DEF Reconciling

LEMMA StepList == ASSUME IInv, List PROVE IInv'
<1> USE DEF IInv, Outside
<1>1. /\ Reconciling /\ op.at = "list"
      /\ UNCHANGED <<row, dead, ignored, here, ssd, remote, wk, events>>
  BY DEF List, table, client
<1>2. CASE seen' = Listed(Hash) /\ op' = [op EXCEPT !.at = "rows"] /\ UNCHANGED <<snap, left, fresh>>
  <2>1. op' \in Ops /\ op'.at = "rows" /\ op'.kind = op.kind
    BY <1>2, OpGoes
  <2>2. seen' \in [Hash -> Sights] /\ \A c \in Hash : here'[c] # "none" => seen'[c] # "none"
    BY <1>1, <1>2, ListedType
  <2>3. TypeOK'
    BY <1>1, <1>2, <2>1, <2>2 DEF TypeOK, Ops, Sights
  <2>4. Held' /\ OpReads' /\ Stopped' /\ Doomed' /\ Out'
    BY <1>1, <1>2, <2>1 DEF Held, OpReads, Stopped, Doomed, Out, Live, Reconciling
  <2>5. Inside'
    BY <2>1, <2>2 DEF Inside, Checks, Sees, ReadsTrue, Adopts, Accounted
  <2> QED BY <2>3, <2>4, <2>5
<1>3. CASE Raises
  BY <1>1, <1>3, RaisesKeeps
<1> QED BY <1>2, <1>3 DEF List

LEMMA StepRows == ASSUME IInv, Rows PROVE IInv'
<1> USE DEF IInv, Outside
<1>1. /\ Reconciling /\ op.at = "rows"
      /\ snap' = [h \in Hash |-> IF Live(h) THEN row[h] ELSE Gone]
      /\ fresh' = fresh \cup ({"op"} \X {h \in Hash : Live(h)})
      /\ left' = {h \in Hash : Live(h)}
      /\ op' = [op EXCEPT !.at = "check"]
      /\ UNCHANGED <<row, dead, ignored, here, ssd, remote, wk, seen, events>>
  BY DEF Rows, table, client
<1>2. op' \in Ops /\ op'.at = "check" /\ op'.kind = op.kind
  BY <1>1, OpGoes
<1>3. TypeOK'
  <2>1. snap' \in [Hash -> Row]
    BY <1>1, GoneType DEF TypeOK
  <2>2. fresh' \subseteq {"worker", "op"} \X {h \in Hash : row'[h].state # "none" /\ h \notin dead'}
    BY <1>1 DEF TypeOK, Live
  <2> QED BY <1>1, <1>2, <2>1, <2>2 DEF TypeOK, Ops
<1>4. Held' /\ OpReads' /\ Stopped' /\ Doomed' /\ Out'
  BY <1>1, <1>2 DEF Held, OpReads, Stopped, Doomed, Out, Live, Reconciling
<1>5. Checks' /\ Sees' /\ Adopts' /\ Accounted'
  BY <1>1, <1>2 DEF Inside, Checks, Sees, Adopts, Accounted, Live, Reconciling
<1>6. ReadsTrue'
  BY <1>1 DEF ReadsTrue, Live, Gone
<1> QED BY <1>3, <1>4, <1>5, <1>6 DEF Inside

LEMMA StepReconciled == ASSUME IInv, Reconciled PROVE IInv'
<1> USE DEF IInv, Outside
<1>1. /\ Reconciling /\ op.at = "adopt" /\ left = {} /\ snap' = Unread
      /\ fresh' = fresh \ ({"op"} \X Hash)
      /\ UNCHANGED <<row, dead, ignored, here, ssd, remote, wk, left, events>>
  BY DEF Reconciled, table, client
<1>2. CASE op.kind = "boot"
  <2>1. op' = [op EXCEPT !.at = "retry"] /\ seen' = seen
    BY <1>2 DEF Reconciled
  <2>2. op' \in Ops /\ op'.at = "retry" /\ op'.kind = op.kind
    BY <2>1, OpGoes
  <2>3. TypeOK'
    BY <1>1, <2>1, <2>2, Blank DEF TypeOK, Ops
  <2>4. Held' /\ OpReads' /\ Stopped' /\ Doomed' /\ Out'
    BY <1>1, <1>2, <2>2 DEF Held, OpReads, Stopped, Doomed, Out, Live, TypeOK
  <2>5. Sees /\ Adopts /\ Sees'
    BY <1>1, <1>2, <2>1, <2>2 DEF Inside, Sees
  <2>6. Accounted'
    BY <1>1, <1>2, <2>1, <2>5 DEF Sees, Adopts, Accounted, Claimed, Seated, Live, Present
  <2> QED BY <2>2, <2>3, <2>4, <2>5, <2>6 DEF Inside, Checks, ReadsTrue, Adopts
<1>3. CASE op.kind # "boot"
  <2>1. op' = NoOp /\ seen' = Unseen
    BY <1>3 DEF Reconciled
  <2>2. TypeOK'
    BY <1>1, <2>1, Blank, NoOpType DEF TypeOK, Ops, Sights
  <2>3. Held' /\ OpReads' /\ Stopped' /\ Doomed' /\ Out'
    BY <1>1, <2>1, NoOpType DEF Held, OpReads, Stopped, Doomed, Out, Live, TypeOK
  <2> QED BY <2>1, <2>2, <2>3, NoOpType, InsideOut DEF Reconciling
<1> QED BY <1>2, <1>3

\* A row that is there, or is not to stay away, is written whole.
LEMMA WritesKeeps ==
  ASSUME Outside, NEW h \in Hash, NEW r \in Row, r.state # "none", Writes(h, r),
         Live(h) \/ h \notin ignored, ClientType,
         UNCHANGED <<ignored, wk, op, seen, snap, events>>, left' \subseteq Hash
  PROVE  Outside' /\ \A g \in Hash : Live(g)' <=> Live(g) \/ (g = h /\ row'[h] # row[h])
<1> USE DEF Outside
<1>1. \A g \in Hash : Live(g)' <=> Live(g) \/ (g = h /\ row'[h] # row[h])
  BY DEF Writes, Live, TypeOK
<1>2. dead' \subseteq {g \in Hash : row'[g].state # "none"}
  BY DEF Writes, TypeOK
<1>3. fresh' \subseteq {"worker", "op"} \X {g \in Hash : row'[g].state # "none" /\ g \notin dead'}
  BY DEF Writes, TypeOK
<1>4. TypeOK'
  BY <1>2, <1>3 DEF Writes, TypeOK, ClientType, Places
<1>5. Held' /\ OpReads' /\ Stopped' /\ Doomed'
  BY <1>1 DEF Writes, Held, OpReads, Stopped, Doomed, Reconciling
<1>6. Out'
  BY <1>1 DEF Writes, Out, TypeOK
<1> QED BY <1>1, <1>4, <1>5, <1>6

\* What comes of a check: another state of the row as it was read, or the same.
\* At a start the names stay, and what is DONE has an entry.
RowChecked(h) ==
  /\ Writes(h, row'[h]) /\ row'[h].state # "none"
  /\ ClientType
  /\ op.kind = "boot" =>
       /\ here' = here
       /\ Claims(h, row'[h]) = Claims(h, row[h])
       /\ row'[h].state = "DONE" => Present(h, row'[h])

\* Either kind of write to a row that is there.
LEMMA WritesSome ==
  ASSUME TypeOK, NEW h \in Hash, Live(h), NEW r \in Row, r.state # "none",
         Upsert(h, r) \/ Transition("op", h, r) \/ NoWrite
  PROVE  Writes(h, row'[h]) /\ row'[h].state # "none"
<1>1. CASE Upsert(h, r)
  BY <1>1, UpsertWrites DEF Writes, Live
<1>2. CASE Transition("op", h, r)
  BY <1>2, TransitionWrites DEF Writes, Live
<1>3. CASE NoWrite
  BY <1>3 DEF NoWrite, Writes, Live, TypeOK
<1> QED BY <1>1, <1>2, <1>3

\* The copies a check works on.
LEMMA CheckReads ==
  ASSUME IInv, NEW h \in Hash, Check(h)
  PROVE  /\ TypeOK /\ Reconciling /\ op.at = "check" /\ h \in left /\ Live(h)
         /\ snap[h] \in Row /\ snap[h].state # "none"
         /\ op.kind = "boot" => snap[h] = row[h] /\ ~ Verify
BY DEF IInv, Outside, Inside, Check, Checks, ReadsTrue, Verify, TypeOK

\* So does fix_orphan.
LEMMA FixWrites ==
  ASSUME TypeOK, NEW h \in Hash, Live(h), NEW r \in Row, r.state # "none", FixOrphan(h, r)
  PROVE  Writes(h, row'[h]) /\ row'[h].state # "none" /\ ClientType
<1> USE DEF ForceState
<1>k. UNCHANGED client => ClientType
  BY ClientKept
<1>1. ASSUME NEW s \in Up \cup {"DONE", "FAILED"}
      PROVE  To(r, s) \in Row /\ To(r, s).state # "none"
  BY ToType DEF Up, InFlight
<1>2. CASE r.state \in {"DOWNLOADING", "QUEUED"}
  <2>1. CASE ForceState(h, To(r, "FAILED")) /\ UNCHANGED client
    BY <1>1, <1>k, <2>1, WritesSome
  <2>2. CASE /\ Added(Mine(h, r))
             /\ LET back == [r EXCEPT !.state = "DOWNLOADING", !.dst = Mine(h, r)]
                IN  IF r.state = "QUEUED" THEN ForceState(h, back) ELSE Upsert(h, back)
    <3> DEFINE back == [r EXCEPT !.state = "DOWNLOADING", !.dst = Mine(h, r)]
    <3>1. back \in Row /\ back.state # "none"
      BY MineType DEF Row, InFlight
    <3>2. ClientType
      BY <2>2, MineType, AddedType DEF ClientType
    <3> HIDE DEF back
    <3>3. Upsert(h, back) \/ Transition("op", h, back)
      BY <2>2 DEF back
    <3> QED BY <3>1, <3>2, <3>3, WritesSome
  <2> QED BY <1>2, <2>1, <2>2 DEF FixOrphan
<1>3. CASE r.state = "MOVING" /\ ssd = "none"
  BY <1>1, <1>3, <1>k, WritesSome DEF FixOrphan, Up, InFlight
<1>4. CASE NoWrite /\ UNCHANGED client
  BY <1>4, <1>k, WritesSome
<1> QED BY <1>2, <1>3, <1>4 DEF FixOrphan

\* A check that does not raise comes to that.
LEMMA CheckWrites ==
  ASSUME IInv, NEW h \in Hash, Check(h),
         ~ (snap[h].state = "DONE" /\ ~ Present(h, snap[h]) /\ <<"op", h>> \notin fresh)
  PROVE  RowChecked(h)
<1> DEFINE r == snap[h]
           lost == ~ Present(h, r)
<1>1. /\ TypeOK /\ Live(h) /\ r \in Row /\ r.state # "none"
      /\ op.kind = "boot" => r = row[h] /\ ~ Verify
  BY CheckReads
<1>k. UNCHANGED client => ClientType /\ here' = here
  BY <1>1, ClientKept DEF client
<1>2. CASE r.state = "DONE" /\ lost
  <2>1. Transition("op", h, To(r, "RE_ADDING")) /\ UNCHANGED client /\ <<"op", h>> \in fresh
    BY <1>2 DEF Check, ForceState, InFlight
  <2>2. To(r, "RE_ADDING") \in Row /\ To(r, "RE_ADDING").state = "RE_ADDING"
    BY <1>1, ToType DEF Up, InFlight
  <2>3. row'[h] = To(r, "RE_ADDING")
    BY <1>1, <2>1 DEF Transition, Upsert, Live, TypeOK
  <2>4. Claims(h, To(r, "RE_ADDING")) = Claims(h, r)
    BY <1>1, SameNames DEF Up, InFlight
  <2> QED BY <1>1, <1>k, <2>1, <2>2, <2>3, <2>4, WritesSome DEF RowChecked
<1>3. CASE r.state = "DONE" /\ ~ lost
  <2>1. CheckDone(h, r) /\ UNCHANGED client
    BY <1>3 DEF Check
  <2>2. To(r, "MOVING") \in Row /\ To(r, "MOVING").state # "none"
    BY <1>1, ToType DEF Up, InFlight
  <2>3. Writes(h, row'[h]) /\ row'[h].state # "none"
    BY <1>1, <2>1, <2>2, WritesSome DEF CheckDone
  <2>4. op.kind = "boot" => row' = row
    BY <1>1, <2>1 DEF CheckDone, NoWrite
  <2> QED BY <1>1, <1>3, <1>k, <2>1, <2>3, <2>4 DEF RowChecked, Present
<1>4. CASE r.state \in InFlight /\ lost /\ Verify
  <2>1. FixOrphan(h, r)
    BY <1>4 DEF Check, InFlight
  <2> QED BY <1>1, <1>4, <2>1, FixWrites DEF RowChecked
<1>5. CASE r.state # "DONE" /\ ~ (r.state \in InFlight /\ lost /\ Verify)
  <2>1. NoWrite /\ UNCHANGED client
    BY <1>5 DEF Check
  <2> QED BY <1>1, <1>5, <1>k, <2>1, WritesSome DEF RowChecked, NoWrite
<1> QED BY <1>2, <1>3, <1>4, <1>5

LEMMA StepCheck == ASSUME IInv, NEW h \in Hash, Check(h) PROVE IInv'
<1>1. UNCHANGED <<ignored, wk, events>>
  BY DEF Check
<1>2. CASE snap[h].state = "DONE" /\ ~ Present(h, snap[h]) /\ <<"op", h>> \notin fresh
  <2>1. Reconciling /\ Raises /\ UNCHANGED <<row, dead, here, ssd, remote>>
    BY <1>2 DEF Check, InFlight, client
  <2> QED BY <1>1, <2>1, RaisesKeeps
<1>3. CASE ~ (snap[h].state = "DONE" /\ ~ Present(h, snap[h]) /\ <<"op", h>> \notin fresh)
  <2>1. RowChecked(h)
    BY <1>3, CheckWrites
  <2>2. left' = left \ {h} /\ UNCHANGED <<op, seen, snap>>
    BY <1>3 DEF Check
  <2>3. TypeOK /\ Reconciling /\ op.at = "check" /\ h \in left /\ Live(h)
    BY CheckReads
  <2>4. Outside' /\ \A g \in Hash : Live(g)' <=> Live(g)
    <3>1. row'[h] \in Row /\ left' \subseteq Hash
      BY <2>1, <2>2, <2>3 DEF RowChecked, Writes, TypeOK
    <3> QED BY <1>1, <2>1, <2>2, <2>3, <3>1, WritesKeeps DEF RowChecked, IInv
  <2>5. Checks'
    BY <2>2, <2>4 DEF IInv, Inside, Checks, Reconciling, TypeOK, Outside
  <2>6. CASE op.kind = "boot"
    <3>1. Sees'
      BY <2>1, <2>2, <2>6 DEF IInv, Inside, Sees, RowChecked
    <3>2. ReadsTrue'
      <4> SUFFICES ASSUME NEW g \in Hash
                   PROVE  /\ Live(g)' <=> snap[g].state # "none"
                          /\ Live(g)' => Claims(g, row'[g]) = Claims(g, snap[g])
                          /\ g \in left' => snap[g] = row'[g]
                          /\ g \notin left' /\ Live(g)' /\ row'[g].state = "DONE" => Present(g, row[g])'
        BY <2>2 DEF ReadsTrue, Claims
      <4>1. ReadsTrue
        BY DEF IInv, Inside
      <4>2. CASE g # h
        <5>1. row'[g] = row[g] /\ Present(g, row[g])' = Present(g, row[g])
          BY <2>1, <2>2, <4>2 DEF RowChecked, Writes, Present, Claims
        <5> QED BY <2>2, <2>3, <2>4, <2>6, <4>1, <4>2, <5>1 DEF ReadsTrue
      <4>3. CASE g = h
        <5>1. Present(g, row[g])' = Present(g, row'[g])
          BY <2>2 DEF Present, Claims
        <5> QED BY <2>1, <2>2, <2>3, <2>4, <2>6, <4>1, <4>3, <5>1 DEF ReadsTrue, RowChecked
      <4> QED BY <4>2, <4>3
    <3> QED BY <2>2, <2>3, <2>4, <2>5, <3>1, <3>2 DEF IInv, Inside, Adopts, Accounted
  <2>7. CASE op.kind # "boot"
    BY <2>2, <2>4, <2>5, <2>7 DEF IInv, Inside, Sees, ReadsTrue, Adopts, Accounted
  <2> QED BY <2>6, <2>7
<1> QED BY <1>2, <1>3

LEMMA StepChecked == ASSUME IInv, Checked PROVE IInv'
<1> USE DEF IInv, Outside
<1>1. /\ Reconciling /\ op.at = "check" /\ left = {} /\ left' = Unknowns
      /\ op' = [op EXCEPT !.at = "adopt"]
      /\ UNCHANGED <<row, dead, ignored, here, ssd, remote, wk, fresh, seen, snap, events>>
  BY DEF Checked, table, client, workers
<1>2. op' \in Ops /\ op'.at = "adopt" /\ op'.kind = op.kind
  BY <1>1, OpGoes
<1>3. TypeOK'
  BY <1>1, <1>2 DEF TypeOK, Ops, Unknowns
<1>4. Held' /\ OpReads' /\ Stopped' /\ Doomed' /\ Out'
  BY <1>1, <1>2 DEF Held, OpReads, Stopped, Doomed, Out, Live, Reconciling
<1>5. Sees' /\ Checks' /\ ReadsTrue' /\ Accounted'
  BY <1>1, <1>2 DEF Inside, Checks, Sees, ReadsTrue, Accounted
<1>6. CASE op.kind = "boot"
  <2>1. \A h \in Hash :
          /\ Live(h) <=> snap[h].state # "none"
          /\ Live(h) => Claims(h, row[h]) = Claims(h, snap[h])
          /\ Live(h) /\ row[h].state = "DONE" => Present(h, row[h])
    BY <1>1, <1>6 DEF Inside, ReadsTrue
  <2>2. \A h \in left' : ~ Live(h)' /\ seen'[h] # "none"
    <3> SUFFICES ASSUME NEW h \in left' PROVE ~ Live(h) /\ seen[h] # "none"
      BY <1>1 DEF Live
    <3>1. h \in Hash /\ seen[h] # "none" /\ h \notin Claims(h, snap[h])
      BY <1>1 DEF Unknowns
    <3>2. snap[h].state = "none"
      BY <3>1, NoneApart DEF Claims
    <3> QED BY <2>1, <3>1, <3>2
  <2>3. \A c \in Hash \ left' : seen[c] # "none" => Claimed(c)
    <3> SUFFICES ASSUME NEW c \in Hash \ left', seen[c] # "none" PROVE Claimed(c)
      OBVIOUS
    <3>1. PICK h \in Hash : c \in Claims(h, snap[h])
      BY <1>1 DEF Unknowns
    <3>2. Live(h)
      BY <2>1, <3>1 DEF Claims
    <3> QED BY <2>1, <3>1, <3>2 DEF Claimed
  <2>4. \A c \in Hash : Claimed(c)' <=> Claimed(c)
    BY <1>1 DEF Claimed, Live, Claims
  <2>5. Seated'
    BY <1>1, <2>1 DEF Seated, Live, Present, Claims
  <2>6. Adopts'
    BY <1>1, <2>2, <2>3, <2>4, <2>5 DEF Adopts
  <2> QED BY <1>3, <1>4, <1>5, <2>6 DEF Inside
<1>7. CASE op.kind # "boot"
  BY <1>2, <1>3, <1>4, <1>5, <1>7 DEF Inside, Adopts
<1> QED BY <1>6, <1>7

\* A row that is adopted goes by the hash of its entry.
LEMMA AdoptedRow ==
  ASSUME NEW h \in Hash, NEW s \in Adopted(h)
  PROVE  LET r == [Gone EXCEPT !.state = s, !.dst = h]
         IN  r \in Row /\ r.state # "none" /\ h \in Claims(h, r)
<1>1. s \in {"MOVING", "DOWNLOADING", "DONE", "RE_ADDING"}
  BY DEF Adopted
<1>2. [Gone EXCEPT !.state = s, !.dst = h] \in Row
  BY <1>1, GoneType DEF Row, InFlight
<1> QED BY <1>1, <1>2, NoneApart DEF Gone, Claims

\* A row that gets another name keeps those it had.
LEMMA LinkedRow ==
  ASSUME TypeOK, NEW g \in Hash, Live(g), NEW h \in Hash
  PROVE  LET r == [row[g] EXCEPT !.inj = @ \cup {h}]
         IN  /\ r \in Row /\ r.state = row[g].state /\ r.state # "none"
             /\ Claims(g, r) = Claims(g, row[g]) \cup {h}
BY NoneApart DEF TypeOK, Live, Row, Claims

LEMMA StepAdopt == ASSUME IInv, NEW h \in Hash, Adopt(h) PROVE IInv'
<1>1. /\ Reconciling /\ op.at = "adopt" /\ h \in left /\ left' = left \ {h}
      /\ UNCHANGED <<ignored, here, ssd, remote, wk, op, seen, snap, events>>
      /\ TypeOK /\ Outside /\ left' \subseteq Hash /\ ClientType
  BY ClientKept DEF Adopt, client, IInv, Outside, TypeOK
<1>2. Checks' /\ Accounted' /\ ReadsTrue' /\ Sees'
  BY <1>1 DEF IInv, Inside, Checks, Accounted, ReadsTrue, Sees
<1>3. CASE h \in ignored
  <2>1. UNCHANGED <<row, dead, fresh>>
    BY <1>3 DEF Adopt, NoWrite
  <2>2. Outside'
    BY <1>1, <2>1 DEF Outside, TypeOK, Held, OpReads, Stopped, Doomed, Out, Live, Reconciling
  <2>3. Adopts'
    BY <1>1, <1>3, <2>1 DEF IInv, Inside, Adopts, Seated, Claimed, Live, Present, Claims
  <2> QED BY <1>2, <2>2, <2>3 DEF IInv, Inside
<1>4. CASE h \notin ignored /\ seen[h] # "part" /\ Link(h)
  <2>1. PICK g \in Hash \ {h} : Live(g) /\ Upsert(g, [row[g] EXCEPT !.inj = @ \cup {h}])
    BY <1>4 DEF Link
  <2> DEFINE r == [row[g] EXCEPT !.inj = @ \cup {h}]
  <2>2. /\ r \in Row /\ r.state = row[g].state /\ r.state # "none"
        /\ Claims(g, r) = Claims(g, row[g]) \cup {h}
    BY <1>1, <2>1, LinkedRow
  <2> HIDE DEF r
  <2>3. Upsert(g, r) /\ Writes(g, r)
    BY <1>1, <2>1, <2>2, UpsertWrites DEF r
  <2>4. row'[g] = r /\ dead' = dead /\ \A x \in Hash \ {g} : row'[x] = row[x]
    BY <1>1, <2>1, <2>3 DEF Upsert, Writes, Live, TypeOK
  <2>5. Outside' /\ \A x \in Hash : Live(x)' <=> Live(x)
    BY <1>1, <2>1, <2>2, <2>3, WritesKeeps
  <2>6. Adopts'
    <3> SUFFICES ASSUME op.kind = "boot" PROVE Adopts'
      BY <1>1 DEF Adopts
    <3>1. Adopts
      BY DEF IInv, Inside
    <3>2. \A x \in left' : ~ Live(x)' /\ seen'[x] # "none"
      BY <1>1, <2>5, <3>1 DEF Adopts
    <3>3. \A c \in Hash : Claimed(c) \/ c = h => Claimed(c)'
      <4> SUFFICES ASSUME NEW c \in Hash, Claimed(c) \/ c = h PROVE Claimed(c)'
        OBVIOUS
      <4>1. CASE c = h
        BY <2>1, <2>2, <2>4, <2>5, <4>1 DEF Claimed
      <4>2. CASE Claimed(c)
        BY <2>1, <2>2, <2>4, <2>5, <4>2 DEF Claimed
      <4> QED BY <4>1, <4>2
    <3>4. Seated'
      BY <1>1, <2>1, <2>2, <2>4, <2>5, <3>1 DEF Adopts, Seated, Present
    <3> QED BY <1>1, <2>4, <3>1, <3>2, <3>3, <3>4 DEF Adopts
  <2> QED BY <1>2, <2>5, <2>6 DEF IInv, Inside
<1>5. CASE h \notin ignored /\ \E s \in Adopted(h) : Upsert(h, [Gone EXCEPT !.state = s, !.dst = h])
  <2>1. PICK s \in Adopted(h) : Upsert(h, [Gone EXCEPT !.state = s, !.dst = h])
    BY <1>5
  <2> DEFINE r == [Gone EXCEPT !.state = s, !.dst = h]
  <2>2. r \in Row /\ r.state # "none" /\ h \in Claims(h, r)
    BY AdoptedRow
  <2> HIDE DEF r
  <2>3. Upsert(h, r) /\ Writes(h, r)
    BY <1>1, <2>1, <2>2, UpsertWrites DEF r
  <2>4. dead' = dead /\ (\A x \in Hash \ {h} : row'[x] = row[x]) /\ (h \notin dead => row'[h] = r)
    BY <1>1, <2>3 DEF Upsert, Writes, TypeOK
  <2>5. Outside' /\ \A x \in Hash : Live(x)' <=> Live(x) \/ (x = h /\ row'[h] # row[h])
    BY <1>1, <1>5, <2>2, <2>3, WritesKeeps
  <2>6. Adopts'
    <3> SUFFICES ASSUME op.kind = "boot" PROVE Adopts'
      BY <1>1 DEF Adopts
    <3>1. Adopts
      BY DEF IInv, Inside
    <3>2. \A x \in left' : ~ Live(x)' /\ seen'[x] # "none"
      BY <1>1, <2>5, <3>1 DEF Adopts
    <3>3. \A c \in Hash : Claimed(c) \/ (c = h /\ h \notin dead) => Claimed(c)'
      <4> SUFFICES ASSUME NEW c \in Hash, Claimed(c) \/ (c = h /\ h \notin dead) PROVE Claimed(c)'
        OBVIOUS
      <4>1. CASE c = h /\ h \notin dead
        BY <2>2, <2>4, <4>1 DEF Claimed, Live
      <4>2. CASE Claimed(c)
        <5>1. PICK x \in Hash : Live(x) /\ c \in Claims(x, row[x])
          BY <4>2 DEF Claimed
        <5>2. x # h
          BY <1>1, <3>1, <5>1 DEF Adopts
        <5> QED BY <2>4, <2>5, <5>1, <5>2 DEF Claimed
      <4> QED BY <4>1, <4>2
    <3>4. Seated'
      <4> SUFFICES ASSUME NEW x \in Hash, Live(x)', row'[x].state = "DONE"
                   PROVE  \E c \in Claims(x, row'[x]) : seen[c] # "none"
        BY <1>1 DEF Seated, Present
      <4>1. CASE x = h
        <5>1. ~ Live(h) /\ seen[h] # "none"
          BY <1>1, <3>1 DEF Adopts
        <5>2. row'[h] = r
          BY <2>4, <4>1 DEF Live
        <5> QED BY <2>2, <4>1, <5>1, <5>2
      <4>2. CASE x # h
        BY <1>1, <2>4, <2>5, <3>1, <4>2 DEF Adopts, Seated, Present
      <4> QED BY <4>1, <4>2
    <3> QED BY <1>1, <2>4, <3>1, <3>2, <3>3, <3>4 DEF Adopts
  <2> QED BY <1>2, <2>5, <2>6 DEF IInv, Inside
<1> QED BY <1>3, <1>4, <1>5 DEF Adopt

LEMMA StepRetry == ASSUME IInv, Retry PROVE IInv'
<1> USE DEF IInv, Outside
<1>1. PICK hs \in SUBSET {h \in Hash : Live(h) /\ row[h].state = "FAILED"
                                              /\ row[h].retries < MaxRetries} :
        row' = [h \in Hash |-> IF h \in hs
                  THEN [row[h] EXCEPT !.state = "NEW", !.retries = @ + 1] ELSE row[h]]
  BY DEF Retry
<1>2. /\ op.kind = "boot" /\ op.at = "retry" /\ op' = NoOp /\ seen' = Unseen
      /\ UNCHANGED <<dead, ignored, here, ssd, remote, wk, fresh, snap, left, events>>
  BY DEF Retry, client, workers
<1>3. /\ row' \in [Hash -> Row]
      /\ \A h \in Hash : row'[h].state = "none" <=> row[h].state = "none"
  <2> SUFFICES ASSUME NEW h \in Hash
               PROVE  row'[h] \in Row /\ (row'[h].state = "none" <=> row[h].state = "none")
    BY <1>1
  <2>1. row[h] \in Row
    BY DEF TypeOK
  <2>2. CASE h \in hs
    <3>1. row[h].retries + 1 \in 0..MaxRetries /\ row[h].state = "FAILED"
      <4>1. row[h].retries \in 0..MaxRetries /\ row[h].retries < MaxRetries /\ row[h].state = "FAILED"
        BY <2>1, <2>2 DEF Row
      <4>2. MaxRetries \in Nat
        BY BoundAssumption
      <4> QED BY <4>1, <4>2
    <3>2. row'[h] = [row[h] EXCEPT !.state = "NEW", !.retries = row[h].retries + 1]
      BY <1>1, <2>2
    <3> HIDE <1>1
    <3> DEFINE n == row[h].retries + 1
    <3> HIDE DEF n
    <3>3. row'[h] = [row[h] EXCEPT !.state = "NEW", !.retries = n] /\ n \in 0..MaxRetries
      BY <3>1, <3>2 DEF n
    <3> QED BY <2>1, <3>1, <3>3 DEF Row, InFlight
  <2> QED BY <1>1, <2>1, <2>2
<1>4. TypeOK'
  <2>1. dead' \subseteq {h \in Hash : row'[h].state # "none"}
    BY <1>2, <1>3 DEF TypeOK
  <2>2. fresh' \subseteq {"worker", "op"} \X {h \in Hash : row'[h].state # "none" /\ h \notin dead'}
    BY <1>2, <1>3 DEF TypeOK
  <2> QED BY <1>2, <1>3, <2>1, <2>2, Blank, NoOpType DEF TypeOK, Ops, Sights
<1>5. \A h \in Hash : Live(h)' <=> Live(h)
  BY <1>2, <1>3 DEF Live
<1>6. Held' /\ OpReads' /\ Stopped' /\ Doomed'
  BY <1>2, NoOpType DEF Held, OpReads, Stopped, Doomed, Reconciling
<1>7. Out'
  BY <1>2, <1>5 DEF Out, TypeOK
<1> QED BY <1>2, <1>4, <1>6, <1>7, NoOpType, InsideOut DEF Reconciling

-----------------------------------------------------------------------------
(* The forget.                                                              *)

\* Until the drop a forget changes its own state and the client.
LEMMA ForgetGoes ==
  ASSUME IInv, op.kind = "forget", UNCHANGED <<row, dead, ignored, wk, fresh, events>>,
         ClientType, seen' \in [Hash -> Sights], snap' \in [Hash -> Row], left' \subseteq Hash,
         op' = NoOp \/ (/\ op' \in Ops /\ op'.kind = "forget" /\ op'.h = op.h
                        /\ op'.ignore = op.ignore /\ op'.hard = op.hard)
  PROVE  IInv'
<1> USE DEF IInv, Outside
<1>1. op' \in Ops /\ op'.kind \in {"none", "forget"}
  BY NoOpType
<1>2. TypeOK'
  BY <1>1 DEF TypeOK, Ops, ClientType, Places, Sights
<1>3. Held' /\ OpReads' /\ Stopped' /\ Doomed' /\ Out'
  BY <1>1, NoOpType DEF Held, OpReads, Stopped, Doomed, Out, Live, Reconciling
<1> QED BY <1>1, <1>2, <1>3, InsideOut DEF Reconciling

\* The awaits of a forget, up to its drop.
LEMMA StepForgetting ==
  ASSUME IInv, Discovers \/ DeletedAll \/ Verifies \/ LooksAgain \/ \E c \in Hash : DeletesOne(c)
  PROVE  IInv'
<1>t. TypeOK /\ (UNCHANGED client => ClientType)
  BY ClientKept DEF IInv, Outside
<1>0. /\ op.kind = "forget" /\ UNCHANGED <<row, dead, ignored, wk, fresh, events>>
  BY DEF Discovers, DeletedAll, Verifies, LooksAgain, DeletesOne, Forgetting, table, workers
<1>1. ClientType
  <2>1. ASSUME NEW c \in Hash, DeletesOne(c) PROVE ClientType
    <3>1. CASE Deleted(c, op.files /\ seen[c] # "fuse")
      BY <1>t, <3>1, DeletedType DEF ClientType
    <3> QED BY <1>t, <2>1, <3>1 DEF DeletesOne
  <2> QED BY <1>t, <2>1 DEF Discovers, DeletedAll, Verifies, LooksAgain
<1>2. CASE Keeps
  BY <1>0, <1>1, <1>2, ForgetGoes, Blank DEF Keeps
<1>3. CASE /\ seen' \in [Hash -> Sights] /\ snap' = snap /\ left' \subseteq Hash
           /\ op' = op \/ \E at \in {"delete", "verify", "again", "still", "drop"} :
                            op' = [op EXCEPT !.at = at]
  <2>1. /\ op' \in Ops /\ op'.kind = "forget" /\ op'.h = op.h
        /\ op'.ignore = op.ignore /\ op'.hard = op.hard
    BY <1>t, <1>0, <1>3, OpGoes DEF TypeOK, Ops
  <2> QED BY <1>t, <1>0, <1>1, <1>3, <2>1, ForgetGoes DEF TypeOK
<1>4. CASE Discovers
  <2>1. Known \subseteq Hash
    BY <1>t, <1>0, ClaimsType DEF Known, TypeOK, Doomed, IInv, Outside
  <2> QED BY <1>t, <1>2, <1>3, <1>4, <2>1, ListedType DEF Discovers
<1>5. CASE DeletedAll
  BY <1>t, <1>3, <1>5 DEF DeletedAll, TypeOK, Sights
<1>6. CASE Verifies
  BY <1>t, <1>2, <1>3, <1>6, ListedType DEF Verifies, Entries
<1>7. CASE LooksAgain
  BY <1>t, <1>2, <1>3, <1>7 DEF LooksAgain, TypeOK, Sights
<1>8. CASE \E c \in Hash : DeletesOne(c)
  BY <1>t, <1>3, <1>8 DEF DeletesOne, TypeOK, Sights
<1> QED BY <1>4, <1>5, <1>6, <1>7, <1>8

LEMMA StepDrops == ASSUME IInv, Drops PROVE IInv'
<1> USE DEF IInv, Outside
<1> DEFINE h == op.h
<1>1. /\ op.kind = "forget" /\ h \in Hash /\ Live(h) /\ (op.ignore => ~ op.hard)
      /\ ignored' = (IF op.ignore THEN ignored \cup {h} ELSE ignored)
      /\ fresh' = fresh \ {<<"worker", h>>}
      /\ op' = NoOp /\ seen' = Unseen /\ snap' = Unread /\ left' = {}
      /\ ssd' \in {"none", "part", "all"}
      /\ UNCHANGED <<here, remote, wk, events>>
  BY DEF Drops, Forgetting, Doomed, Keeps, TypeOK
<1>2. \/ op.hard /\ row' = [row EXCEPT ![h] = Gone] /\ dead' = dead \ {h}
      \/ ~ op.hard /\ row' = row /\ dead' = dead \cup {h}
  BY <1>1 DEF Drops, Live
<1>3. \A x \in fresh : x \in {"worker"} \X Hash
  BY <1>1 DEF OpReads, Reconciling, TypeOK
<1>4. TypeOK'
  <2>1. row' \in [Hash -> Row] /\ dead' \subseteq {g \in Hash : row'[g].state # "none"}
    BY <1>1, <1>2, GoneType DEF TypeOK, Live
  <2>2. fresh' \subseteq {"worker", "op"} \X {g \in Hash : row'[g].state # "none" /\ g \notin dead'}
    BY <1>1, <1>2, <1>3 DEF TypeOK
  <2> QED BY <1>1, <2>1, <2>2, Blank, NoOpType DEF TypeOK, Ops, Sights
<1>5. Held' /\ OpReads' /\ Stopped' /\ Doomed'
  BY <1>1, NoOpType DEF Held, OpReads, Stopped, Doomed, Reconciling
<1>6. Out'
  BY <1>1, <1>2 DEF Out, Live, Gone, TypeOK
<1> QED BY <1>1, <1>4, <1>5, <1>6, NoOpType, InsideOut DEF Reconciling

-----------------------------------------------------------------------------
(* The theorems.                                                            *)

\* The invariant holds at first ...
LEMMA InitInv == Init => IInv
<1> SUFFICES ASSUME Init PROVE IInv
  OBVIOUS
<1>1. TypeOK
  <2>1. 0 \in 0..MaxEvents
    BY BoundAssumption
  <2> QED BY <2>1, Blank, NoOpType, Idles DEF Init, TypeOK, Ops, Works, Sights, Unseen
<1>2. Held /\ OpReads /\ Stopped /\ Doomed /\ Out
  BY NoOpType, Idles DEF Init, Held, OpReads, Stopped, Doomed, Out
<1>3. Inside
  BY NoOpType DEF Init, Inside, Reconciling, Checks, Sees, ReadsTrue, Adopts, Accounted
<1> QED BY <1>1, <1>2, <1>3 DEF IInv, Outside

\* ... and is inductive.
LEMMA StepInv == IInv /\ [Next]_vars => IInv'
<1> SUFFICES ASSUME IInv, [Next]_vars PROVE IInv'
  OBVIOUS
<1>1. ASSUME NEW h \in Hash, Worker(h) PROVE IInv'
  BY <1>1, WorkerActs, ActsKeeps DEF IInv
<1>2. ASSUME NEW h \in Hash, Lose(h) \/ Stamp(h) \/ Unignore(h) \/ Gc(h) \/ Forget(h) PROVE IInv'
  BY <1>2, StepLose, StepStamp, StepUnignore, StepGc, StepForget
<1>3. CASE Fetch \/ Discover \/ Crash \/ Start \/ Reset \/ FullReset
  BY <1>3, StepFetch, StepDiscover, StepCrash, StepStart, StepReset, StepFullReset
<1>4. CASE Recover \/ List \/ Rows \/ Checked \/ Reconciled \/ Retry
  BY <1>4, StepRecover, StepList, StepRows, StepChecked, StepReconciled, StepRetry
<1>5. ASSUME NEW h \in Hash, Check(h) \/ Adopt(h) PROVE IInv'
  BY <1>5, StepCheck, StepAdopt
<1>6. CASE Discovers \/ DeletedAll \/ Verifies \/ LooksAgain \/ \E h \in Hash : DeletesOne(h)
  BY <1>6, StepForgetting
<1>7. CASE Drops
  BY <1>7, StepDrops
<1>8. CASE UNCHANGED vars
  <2>1. UNCHANGED <<table, workers, operation>> /\ UNCHANGED <<client, events>>
    BY <1>8 DEF vars
  <2>2. ClientType /\ here' = here /\ events' \in 0..MaxEvents
    BY <2>1, ClientKept DEF IInv, Outside, TypeOK, client
  <2> QED BY <2>1, <2>2, ClientLess
<1> QED BY <1>1, <1>2, <1>3, <1>4, <1>5, <1>6, <1>7, <1>8 DEF Next

\* Every reachable state satisfies the inductive invariant.
THEOREM Invariance == Spec => []IInv
BY InitInv, StepInv, PTL DEF Spec

\* Rows, entries, copies and the operation under way keep their types.
THEOREM TypeCorrect == Spec => []TypeOK
<1>1. IInv => TypeOK BY DEF IInv, Outside
<1> QED BY <1>1, Invariance, PTL

\* When a start hands over to the workers, every entry that was not cancelled is
\* some row's, and every DONE row has an entry.
THEOREM AccountedHolds == Spec => []Accounted
<1>1. IInv => Accounted BY DEF IInv, Inside
<1> QED BY <1>1, Invariance, PTL

\* What a step of a start makes of a DONE row: it is demoted only by its check,
\* which found no entry in a listing that nothing was added to.
LEMMA StartDemotes ==
  ASSUME IInv, Next, op.kind = "boot", NEW h \in Hash, Live(h), row[h].state = "DONE",
         row'[h].state # "DONE"
  PROVE  \A c \in Claims(h, row[h]) : here[c] = "none"
<1>0. TypeOK /\ row' # row
  BY DEF IInv, Outside
<1>1. \A g \in Hash : ~ Worker(g)
  BY WorkerActs DEF IInv, Acts, Running
<1>2. ASSUME NEW g \in Hash, Lose(g) \/ Stamp(g) \/ Unignore(g) \/ Gc(g) \/ Forget(g) \/ DeletesOne(g)
      PROVE FALSE
  BY <1>0, <1>2 DEF Lose, Stamp, Unignore, Gc, Forget, DeletesOne, Forgetting, Running, table
<1>3. ~ (Fetch \/ Discover \/ Crash \/ Start \/ Reset \/ FullReset)
  BY <1>0 DEF Fetch, Discover, Crash, Start, Reset, FullReset, table
<1>4. ~ (Recover \/ List \/ Rows \/ Checked \/ Reconciled)
  BY <1>0 DEF Recover, List, Rows, Checked, Reconciled, table
<1>5. ~ (Discovers \/ DeletedAll \/ Verifies \/ LooksAgain \/ Drops)
  BY DEF Discovers, DeletedAll, Verifies, LooksAgain, Drops, Forgetting
<1>6. ~ Retry
  <2> SUFFICES ASSUME Retry PROVE row'[h].state = "DONE"
    OBVIOUS
  <2> QED BY DEF Retry
<1>7. ~ \E g \in Hash : Adopt(g)
  <2> SUFFICES ASSUME NEW g \in Hash, Adopt(g) PROVE row'[h].state = "DONE"
    OBVIOUS
  <2>1. ~ Live(g)
    BY DEF Adopt, IInv, Inside, Adopts
  <2>2. CASE \E x \in Hash \ {g} : Live(x) /\ Upsert(x, [row[x] EXCEPT !.inj = @ \cup {g}])
    BY <1>0, <2>2 DEF Upsert, TypeOK, Row
  <2>3. CASE \E s \in Adopted(g) : Upsert(g, [Gone EXCEPT !.state = s, !.dst = g])
    BY <1>0, <2>1, <2>3 DEF Upsert, TypeOK
  <2> QED BY <2>2, <2>3 DEF Adopt, Link, NoWrite
<1>8. PICK g \in Hash : Check(g)
  BY <1>1, <1>2, <1>3, <1>4, <1>5, <1>6, <1>7 DEF Next
<1>9. /\ op.at = "check" /\ snap[g] = row[g] /\ ~ Verify
  BY <1>8, CheckReads
<1>10. g = h
  <2>1. CASE snap[g].state = "DONE" /\ ~ Present(g, snap[g]) /\ <<"op", g>> \notin fresh
    BY <1>0, <1>8, <2>1 DEF Check, InFlight
  <2>2. CASE ~ (snap[g].state = "DONE" /\ ~ Present(g, snap[g]) /\ <<"op", g>> \notin fresh)
    BY <1>8, <2>2, CheckWrites DEF RowChecked, Writes
  <2> QED BY <2>1, <2>2
<1>11. ~ Present(h, row[h])
  BY <1>0, <1>8, <1>9, <1>10 DEF Check, CheckDone, NoWrite, InFlight
<1>12. Claims(h, row[h]) \subseteq Hash
  BY <1>0, ClaimsType DEF TypeOK
<1> QED BY <1>9, <1>11, <1>12 DEF IInv, Inside, Sees, Present

\* A start takes a DONE row for lost only if the client has no entry under any of
\* its names.
THEOREM DemotesNothingUnseen == Spec => NoBlindDemotion
<1>1. IInv /\ [Next]_vars =>
        [\A h \in Hash :
           op.kind = "boot" /\ Live(h) /\ row[h].state = "DONE" /\ row'[h].state # "DONE"
             => \A c \in Claims(h, row[h]) : here[c] = "none"]_vars
  BY StartDemotes
<1> QED BY <1>1, Invariance, PTL DEF Spec, NoBlindDemotion

\* A cancelled torrent gets no row again: not from intake, a recover that meets its
\* entry, or a worker that was at it when it went.
THEOREM CancelledStaysOut == Spec => IgnoredStaysOut
<1>1. IInv /\ IInv' => [\A h \in ignored \cap ignored' : ~ Live(h) => ~ Live(h)']_vars
  BY DEF IInv, Outside, Out
<1> QED BY <1>1, Invariance, PTL DEF IgnoredStaysOut
=============================================================================
