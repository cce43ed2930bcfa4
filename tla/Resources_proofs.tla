------------------------- MODULE Resources_proofs -------------------------
(***************************************************************************)
(* What is limited is never over its limit, and what is taken is given      *)
(* back, for any set of torrents, any sizes and any limits: the budget of   *)
(* the SSD (SsdLedger), the download slots (DownloadSlots) and the moves,   *)
(* one process in a tree (MoveGuard).  Each has a specification and         *)
(* variables of its own; no theorem speaks of two of them.                  *)
(*                                                                          *)
(* The budget.  A parked row holds some only while something is under way   *)
(* that gives it back, the recount of a promotion and the download of a     *)
(* heal, which both release, or when it was put there by a write past the   *)
(* ledger.  A grow writes a reservation when its probe comes back, so no    *)
(* row may be parked under a grow but by a write of that kind, which leaves *)
(* the worker astray.                                                       *)
(* A grow checks that the others' entries leave room for what it asks for,  *)
(* awaits its probe, and writes without a second look.  What makes that     *)
(* sound is that it keeps the lock: the other entries may only shrink       *)
(* meanwhile, and the sum of smaller entries is no larger (GrowFits).       *)
(*                                                                          *)
(* The slots.  The cap alone is not inductive: a granted admission is used  *)
(* only after the client's calls.  What is kept is that the rows            *)
(* downloading and the workers past the gate together fit (AdmissionsFit);  *)
(* for that, the gate must see every such worker among the admissions of    *)
(* live workers (AdmittedIsRecorded), which needs every worker to be in     *)
(* running.                                                                 *)
(*                                                                          *)
(* The moves.  OneMover is not inductive: a worker asks the registry before *)
(* it starts a process and writes to it after.  What is kept is that in a   *)
(* guarded tree (one move at a time, or one row) the registry names every   *)
(* process that lives (MovesRecorded), and that a worker at its move finds  *)
(* none there but its own (Exclusive); the latter lets it clear the record. *)
(***************************************************************************)
EXTENDS SsdLedger, DownloadSlots, MoveGuard, Sums

\* A row off the SSD that was not put there past the ledger, and whose worker
\* knows it.
PutAway(h) == h \notin past /\ row[h] \in Releasing /\ astray[h] = "NONE"

\* Such a row holds no budget, a recount and a heal aside ...
NothingParked ==
  \A h \in Hashes : (PutAway(h) /\ work[h].pc \notin {"recount", "heal"}) => ledger[h] = 0

\* ... and a probe in flight belongs to a row in setup or in download, or to
\* one that was forgotten or written past its worker meanwhile.
GrowsOnSsd ==
  \A h \in Hashes :
    (work[h].pc = "grow" /\ astray[h] = "NONE") => row[h] \in {"QUEUED", "DOWNLOADING", "GONE"}

IInv == TypeOK /\ NothingParked /\ GrowsOnSsd

\* A probe in flight has the lock, and what it asks for still fits: the others'
\* entries may only have shrunk since the check.
GrowFits ==
  \A h \in Hashes : work[h].pc = "grow" => lock = h /\ FitsInstead(h, work[h].ask)

BudgetInv == IInv /\ GrowFits

Work == [pc : Pcs, ask : 0..Cap, stale : SUBSET Hashes]

-----------------------------------------------------------------------------
(* The budget: helpers.                                                     *)

LEMMA IdleType == Idle \in Work /\ Idle.pc = "idle"
BY CapAssumption DEF Idle, Work, Pcs

LEMMA OnSsdRows == OnSsd \subseteq RowState /\ OnSsd \cap Releasing = {} /\ Releasing \subseteq RowState
BY DEF OnSsd, Releasing, RowState, State

LEMMA MoveRowType ==
  ASSUME TypeOK, NEW h \in Hashes, NEW dst \in RowState, NEW L \in [Hashes -> 0..Cap],
         MoveRow(h, dst, L)
  PROVE  row' \in [Hashes -> RowState] /\ ledger' \in [Hashes -> 0..Cap]
BY CapAssumption DEF TypeOK, MoveRow, Without

\* A row that is written keeps what must be kept, whatever becomes of its
\* worker, if it is left without budget or put among the past ones.
LEMMA RowKeeps ==
  ASSUME IInv, NEW h \in Hashes, NEW dst \in RowState,
         row' = [row EXCEPT ![h] = dst],
         \A k \in Hashes : k # h => ledger'[k] = ledger[k] \/ ledger'[k] = 0,
         \A k \in Hashes : k # h => work'[k] = work[k] /\ astray'[k] = astray[k],
         \A k \in Hashes : k # h /\ k \in past => k \in past',
         dst \in Releasing => h \in past' \/ ledger'[h] = 0,
         (work'[h].pc = "grow" /\ astray'[h] = "NONE") => dst \in {"QUEUED", "DOWNLOADING", "GONE"}
  PROVE  NothingParked' /\ GrowsOnSsd'
<1>1. row'[h] = dst /\ \A k \in Hashes : k # h => row'[k] = row[k] BY DEF IInv, TypeOK
<1>2. NothingParked' BY <1>1 DEF IInv, NothingParked, PutAway
<1>3. GrowsOnSsd' BY <1>1 DEF IInv, GrowsOnSsd
<1> QED BY <1>2, <1>3

LEMMA MoveRowKeeps ==
  ASSUME IInv, NEW h \in Hashes, NEW dst \in RowState, NEW L \in [Hashes -> 0..Cap],
         MoveRow(h, dst, L),
         \A k \in Hashes : k # h => L[k] = ledger[k] \/ L[k] = 0,
         \A k \in Hashes : k # h => work'[k] = work[k] /\ astray'[k] = astray[k],
         (work'[h].pc = "grow" /\ astray'[h] = "NONE") => dst \in {"QUEUED", "DOWNLOADING", "GONE"}
  PROVE  NothingParked' /\ GrowsOnSsd'
<1>1. row' = [row EXCEPT ![h] = dst] /\ \A k \in Hashes : k # h /\ k \in past => k \in past'
  BY DEF MoveRow
<1>2. /\ \A k \in Hashes : k # h => ledger'[k] = ledger[k] \/ ledger'[k] = 0
      /\ dst \in Releasing => ledger'[h] = 0
  BY DEF MoveRow, Without
<1> QED BY <1>1, <1>2, RowKeeps

\* So does a step that moves no row, if it leaves h without budget or busy.
LEMMA LedgerKeeps ==
  ASSUME IInv, NEW h \in Hashes, UNCHANGED <<row, past, astray>>,
         ledger' \in [Hashes -> 0..Cap],
         \A k \in Hashes : k # h => ledger'[k] = ledger[k] \/ ledger'[k] = 0,
         \A k \in Hashes : k # h => work'[k] = work[k],
         (PutAway(h) /\ work'[h].pc \notin {"recount", "heal"}) => ledger'[h] = 0,
         (work'[h].pc = "grow" /\ astray[h] = "NONE") => row[h] \in {"QUEUED", "DOWNLOADING", "GONE"}
  PROVE  NothingParked' /\ GrowsOnSsd'
BY DEF IInv, TypeOK, NothingParked, GrowsOnSsd, PutAway

LEMMA PrunedType ==
  ASSUME NEW L \in [Hashes -> 0..Cap], NEW read
  PROVE  /\ Pruned(L, read) \in [Hashes -> 0..Cap]
         /\ \A k \in Hashes : Pruned(L, read)[k] = L[k] \/ Pruned(L, read)[k] = 0
BY CapAssumption DEF Pruned

\* What a move leaves to be shown of an action of the worker of h.
LEMMA MoveStep ==
  ASSUME IInv, NEW h \in Hashes, NEW dst \in RowState, NEW L \in [Hashes -> 0..Cap],
         MoveRow(h, dst, L),
         \A k \in Hashes : k # h => L[k] = ledger[k] \/ L[k] = 0,
         \A k \in Hashes : k # h => astray'[k] = astray[k],
         work' = work \/ Rest(h),
         work' = work => (work[h].pc # "grow" \/ dst \in {"QUEUED", "DOWNLOADING", "GONE"})
  PROVE  /\ row' \in [Hashes -> RowState] /\ ledger' \in [Hashes -> 0..Cap]
         /\ work' \in [Hashes -> Work]
         /\ NothingParked' /\ GrowsOnSsd'
<1>1. TypeOK /\ work \in [Hashes -> Work] BY DEF IInv, TypeOK, Work
<1>2. row' \in [Hashes -> RowState] /\ ledger' \in [Hashes -> 0..Cap]
  BY <1>1, MoveRowType
<1>3. work' \in [Hashes -> Work] BY <1>1, IdleType DEF Rest
<1>4. /\ \A k \in Hashes : k # h => work'[k] = work[k]
      /\ work'[h].pc = "grow" => dst \in {"QUEUED", "DOWNLOADING", "GONE"}
  BY <1>1, IdleType DEF Rest
<1> QED BY <1>2, <1>3, <1>4, MoveRowKeeps

\* The same of an action that moves no row.
LEMMA StayStep ==
  ASSUME IInv, NEW h \in Hashes, UNCHANGED <<row, past, astray>>,
         ledger' \in [Hashes -> 0..Cap],
         \A k \in Hashes : k # h => ledger'[k] = ledger[k] \/ ledger'[k] = 0,
         NEW w \in Work, work' = [work EXCEPT ![h] = w],
         (PutAway(h) /\ w.pc \notin {"recount", "heal"}) => ledger'[h] = 0,
         (w.pc = "grow" /\ astray[h] = "NONE") => row[h] \in {"QUEUED", "DOWNLOADING", "GONE"}
  PROVE  work' \in [Hashes -> Work] /\ NothingParked' /\ GrowsOnSsd'
<1>1. work \in [Hashes -> Work] BY DEF IInv, TypeOK, Work
<1>2. work' \in [Hashes -> Work] BY <1>1
<1>3. work'[h] = w /\ \A k \in Hashes : k # h => work'[k] = work[k] BY <1>1
<1> QED BY <1>2, <1>3, LedgerKeeps

\* What every action must establish; the other variables are typed apart.
Kept ==
  /\ row' \in [Hashes -> RowState] /\ ledger' \in [Hashes -> 0..Cap]
  /\ work' \in [Hashes -> Work]
  /\ NothingParked' /\ GrowsOnSsd'

LEMMA AwaitType ==
  ASSUME NEW to \in Pcs, NEW ask \in 0..Cap
  PROVE  [pc |-> to, ask |-> ask, stale |-> {}] \in Work
BY DEF Work
-----------------------------------------------------------------------------
(* The budget: admission.                                                   *)

LEMMA AskKeeps == ASSUME IInv, NEW h \in Hashes, NEW amount \in 1..Cap, Ask(h, amount) PROVE Kept
<1> DEFINE w == [pc |-> "prune", ask |-> amount, stale |-> Stale]
<1>1. TypeOK /\ row \in [Hashes -> RowState] BY DEF IInv, TypeOK
<1>2. w \in Work BY CapAssumption DEF Work, Pcs, Stale, Collected
<1>3. UNCHANGED <<row, ledger, past, astray>> /\ work' = [work EXCEPT ![h] = w]
      /\ work[h].pc = "idle" BY DEF Ask, Ready, NobodyElse
<1>4. ledger' \in [Hashes -> 0..Cap] BY <1>1, <1>3 DEF TypeOK
<1>5. PutAway(h) => ledger'[h] = 0 BY <1>3 DEF IInv, NothingParked
<1>6. w.pc # "grow" OBVIOUS
<1> HIDE DEF w
<1>7. \A k \in Hashes : k # h => ledger'[k] = ledger[k] \/ ledger'[k] = 0 BY <1>3
<1>8. work' \in [Hashes -> Work] /\ NothingParked' /\ GrowsOnSsd'
  BY <1>2, <1>3, <1>4, <1>5, <1>6, <1>7, StayStep
<1> QED BY <1>1, <1>3, <1>4, <1>8 DEF Kept

\* While h is admitted its own entry is empty or not a parked row's.
LEMMA GrantKeeps ==
  ASSUME IInv, NEW h \in Hashes, NEW L \in [Hashes -> 0..Cap],
         \A k \in Hashes : L[k] = ledger[k] \/ L[k] = 0,
         Grant(h, L), astray' = astray
  PROVE  Kept
<1> DEFINE reserved == [L EXCEPT ![h] = work[h].ask]
<1>1. TypeOK /\ work[h].ask \in 0..Cap /\ row \in [Hashes -> RowState]
  BY DEF IInv, TypeOK
<1>2. reserved \in [Hashes -> 0..Cap] /\ Without(L, h) \in [Hashes -> 0..Cap]
  BY <1>1, CapAssumption DEF Without
<1>3. /\ \A k \in Hashes : k # h => reserved[k] = ledger[k] \/ reserved[k] = 0
      /\ \A k \in Hashes : k # h => Without(L, h)[k] = ledger[k] \/ Without(L, h)[k] = 0
      /\ Without(L, h)[h] = 0
  BY DEF Without
<1> HIDE DEF reserved
<1>4. CASE row[h] = "NEW" /\ MoveRow(h, "QUEUED", reserved) /\ Rest(h)
  <2>1. "QUEUED" \in RowState BY DEF RowState, State
  <2> QED BY <1>2, <1>3, <1>4, <2>1, MoveStep DEF Kept
<1>5. CASE row[h] = "WAITING_DISK" /\ Await(h, "recount", 0) /\ StayPut(reserved)
  <2> DEFINE w == [pc |-> "recount", ask |-> 0, stale |-> {}]
  <2>1. w \in Work BY AwaitType, CapAssumption DEF Pcs
  <2>2. work' = [work EXCEPT ![h] = w] BY <1>5 DEF Await
  <2>3. w.pc = "recount" OBVIOUS
  <2> HIDE DEF w
  <2>4. work' \in [Hashes -> Work] /\ NothingParked' /\ GrowsOnSsd'
    BY <1>2, <1>3, <1>5, <2>1, <2>2, <2>3, StayStep DEF StayPut
  <2> QED BY <1>1, <1>2, <1>5, <2>4 DEF Kept, StayPut
<1>6. CASE row[h] = "RE_ADDING" /\ Await(h, "heal", work[h].ask) /\ StayPut(reserved)
  <2> DEFINE w == [pc |-> "heal", ask |-> work[h].ask, stale |-> {}]
  <2>1. w \in Work BY <1>1, AwaitType DEF Pcs
  <2>2. work' = [work EXCEPT ![h] = w] BY <1>6 DEF Await
  <2>3. w.pc = "heal" OBVIOUS
  <2> HIDE DEF w
  <2>4. work' \in [Hashes -> Work] /\ NothingParked' /\ GrowsOnSsd'
    BY <1>2, <1>3, <1>6, <2>1, <2>2, <2>3, StayStep DEF StayPut
  <2> QED BY <1>1, <1>2, <1>6, <2>4 DEF Kept, StayPut
<1>7. CASE Rest(h) /\ StayPut(Without(L, h))
  <2>1. work' \in [Hashes -> Work] /\ NothingParked' /\ GrowsOnSsd'
    BY <1>2, <1>3, <1>7, IdleType, StayStep DEF Rest, StayPut
  <2> QED BY <1>1, <1>2, <1>7, <2>1 DEF Kept, StayPut
<1> QED BY <1>4, <1>5, <1>6, <1>7 DEF Grant, reserved

LEMMA RefuseKeeps ==
  ASSUME IInv, NEW h \in Hashes, NEW L \in [Hashes -> 0..Cap],
         \A k \in Hashes : L[k] = ledger[k] \/ L[k] = 0,
         work[h].pc \in {"prune", "admit"},
         Refuse(h, L), astray' = astray
  PROVE  Kept
<1>1. TypeOK /\ row \in [Hashes -> RowState] BY DEF IInv, TypeOK
<1>2. CASE row[h] = "NEW" /\ MoveRow(h, "WAITING_DISK", L)
  <2>1. "WAITING_DISK" \in RowState BY DEF RowState, State
  <2>2. Rest(h) BY DEF Refuse
  <2>3. work[h].pc # "grow" OBVIOUS
  <2> QED BY <1>2, <2>1, <2>2, <2>3, MoveStep DEF Kept
<1>3. CASE row[h] # "NEW" /\ StayPut(L)
  <2>1. PutAway(h) => ledger'[h] = 0 BY <1>3 DEF IInv, NothingParked, StayPut
  <2>2. work' \in [Hashes -> Work] /\ NothingParked' /\ GrowsOnSsd'
    BY <1>3, <2>1, IdleType, StayStep DEF Refuse, Rest, StayPut
  <2> QED BY <1>1, <1>3, <2>2 DEF Kept, StayPut
<1> QED BY <1>2, <1>3 DEF Refuse

LEMMA PruneLandsKeeps ==
  ASSUME IInv, NEW h \in Hashes, NEW granted \in BOOLEAN, PruneLands(h, granted) PROVE Kept
<1> DEFINE L == Pruned(ledger, work[h].stale)
<1>1. TypeOK /\ row \in [Hashes -> RowState] /\ work[h].ask \in 0..Cap
      /\ ledger \in [Hashes -> 0..Cap] /\ work[h].pc = "prune"
      /\ astray' = astray BY DEF IInv, TypeOK, PruneLands, NobodyElse
<1>2. L \in [Hashes -> 0..Cap] /\ \A k \in Hashes : L[k] = ledger[k] \/ L[k] = 0
  BY <1>1, PrunedType
<1> HIDE DEF L
<1>3. CASE Grant(h, L) BY <1>1, <1>2, <1>3, GrantKeeps
<1>4. CASE Refuse(h, L) BY <1>1, <1>2, <1>4, RefuseKeeps
<1>5. CASE Await(h, "admit", work[h].ask) /\ StayPut(L)
  <2> DEFINE w == [pc |-> "admit", ask |-> work[h].ask, stale |-> {}]
  <2>1. w \in Work BY <1>1, AwaitType DEF Pcs
  <2>2. work' = [work EXCEPT ![h] = w] BY <1>5 DEF Await
  <2>3. w.pc = "admit" OBVIOUS
  <2>4. PutAway(h) => ledger'[h] = 0 BY <1>1, <1>2, <1>5 DEF IInv, NothingParked, StayPut
  <2> HIDE DEF w
  <2>5. work' \in [Hashes -> Work] /\ NothingParked' /\ GrowsOnSsd'
    BY <1>1, <1>2, <1>5, <2>1, <2>2, <2>3, <2>4, StayStep DEF StayPut
  <2> QED BY <1>1, <1>2, <1>5, <2>5 DEF Kept, StayPut
<1> QED BY <1>3, <1>4, <1>5 DEF PruneLands, L

LEMMA AdmissionKeeps == ASSUME IInv, NEW h \in Hashes, Admission(h) PROVE Kept
<1>1. /\ TypeOK /\ row \in [Hashes -> RowState]
      /\ ledger \in [Hashes -> 0..Cap] /\ work \in [Hashes -> Work]
      /\ \A k \in Hashes : ledger[k] = ledger[k] \/ ledger[k] = 0
  BY DEF IInv, TypeOK, Work
<1>2. Without(ledger, h) \in [Hashes -> 0..Cap] /\ Without(ledger, h)[h] = 0
      /\ \A k \in Hashes : k # h => Without(ledger, h)[k] = ledger[k]
  BY <1>1, CapAssumption DEF Without
<1>3. ASSUME NEW amount \in 1..Cap, Ask(h, amount) PROVE Kept
  BY <1>3, AskKeeps
<1>4. ASSUME NEW granted \in BOOLEAN, PruneLands(h, granted) PROVE Kept
  BY <1>4, PruneLandsKeeps
<1>5. ASSUME NEW granted \in BOOLEAN, LockAcquired(h, granted) PROVE Kept
  <2>1. CASE Grant(h, ledger) BY <1>1, <1>5, <2>1, GrantKeeps DEF LockAcquired, NobodyElse
  <2>2. CASE Refuse(h, ledger) BY <1>1, <1>5, <2>2, RefuseKeeps DEF LockAcquired, NobodyElse
  <2> QED BY <1>5, <2>1, <2>2 DEF LockAcquired
<1>6. CASE Rest(h) /\ ledger' = Without(ledger, h) /\ UNCHANGED <<row, past, astray>>
  <2>1. work' \in [Hashes -> Work] /\ NothingParked' /\ GrowsOnSsd'
    BY <1>2, <1>6, IdleType, StayStep DEF Rest
  <2> QED BY <1>1, <1>2, <1>6, <2>1 DEF Kept
<1>7. CASE Promote(h)
  <2>1. CASE MoveRow(h, "QUEUED", ledger)
    <3>1. "QUEUED" \in RowState BY DEF RowState, State
    <3> QED BY <1>1, <1>7, <2>1, <3>1, MoveStep DEF Kept, Promote, NobodyElse
  <2> QED BY <1>6, <1>7, <2>1 DEF Promote, StayPut, NobodyElse
<1>8. CASE AdmitFree(h)
  <2>1. "QUEUED" \in RowState BY DEF RowState, State
  <2> QED BY <1>1, <1>8, <2>1, MoveStep DEF Kept, AdmitFree, Ready, NobodyElse
<1>9. CASE RecountFull(h) BY <1>6, <1>9 DEF RecountFull, NobodyElse
<1>10. CASE HealEnds(h) BY <1>6, <1>10 DEF HealEnds, NobodyElse
<1> QED BY <1>3, <1>4, <1>5, <1>7, <1>8, <1>9, <1>10 DEF Admission

-----------------------------------------------------------------------------
(* The budget: the other actions.                                           *)

\* An action whose worker is at rest and whose row moves.
LEMMA IdleMove ==
  ASSUME IInv, NEW h \in Hashes, NEW dst \in RowState, NEW L \in [Hashes -> 0..Cap],
         MoveRow(h, dst, L), \A k \in Hashes : k # h => L[k] = ledger[k],
         work[h].pc = "idle" \/ dst = "GONE", work' = work, NobodyElse
  PROVE  Kept
<1>1. work[h].pc # "grow" \/ dst \in {"QUEUED", "DOWNLOADING", "GONE"} OBVIOUS
<1> QED BY <1>1, MoveStep DEF Kept, NobodyElse

\* A write past the ledger, be there a worker or not.
LEMMA PastKeeps ==
  ASSUME IInv, NEW h \in Hashes, NEW dst \in RowState, NEW L \in [Hashes -> 0..Cap],
         WritePast(h, dst, L), \A k \in Hashes : k # h => L[k] = ledger[k],
         work' = work, \A k \in Hashes : k # h => astray'[k] = astray[k],
         (work[h].pc = "grow" /\ astray'[h] = "NONE") => dst \in {"QUEUED", "DOWNLOADING", "GONE"}
  PROVE  Kept
<1>1. row \in [Hashes -> RowState] /\ work \in [Hashes -> Work] BY DEF IInv, TypeOK, Work
<1>2. row' \in [Hashes -> RowState] /\ ledger' \in [Hashes -> 0..Cap] BY <1>1 DEF WritePast
<1>3. NothingParked' /\ GrowsOnSsd' BY RowKeeps DEF WritePast
<1> QED BY <1>1, <1>2, <1>3 DEF Kept

\* A grow of h starts: its row is in setup or in download, or its worker astray.
LEMMA GrowingKeeps ==
  ASSUME IInv, NEW h \in Hashes, NEW amount \in 1..Cap, Growing(h, amount),
         row[h] \in {"QUEUED", "DOWNLOADING"} \/ astray[h] # "NONE"
  PROVE  Kept
<1> DEFINE w == [pc |-> "grow", ask |-> amount, stale |-> {}]
<1>1. TypeOK /\ row \in [Hashes -> RowState] /\ ledger \in [Hashes -> 0..Cap]
  BY DEF IInv, TypeOK
<1>2. w \in Work BY AwaitType, CapAssumption DEF Pcs
<1>3. work' = [work EXCEPT ![h] = w] /\ UNCHANGED <<row, ledger, past, astray>>
  BY DEF Growing, Await, NobodyElse
<1>4. w.pc = "grow" /\ ~PutAway(h) BY DEF PutAway, Releasing
<1> HIDE DEF w
<1>5. work' \in [Hashes -> Work] /\ NothingParked' /\ GrowsOnSsd'
  BY <1>1, <1>2, <1>3, <1>4, StayStep
<1> QED BY <1>1, <1>3, <1>5 DEF Kept

LEMMA PipelineKeeps == ASSUME IInv, NEW h \in Hashes, Pipeline(h) PROVE Kept
<1>1. /\ TypeOK /\ row \in [Hashes -> RowState]
      /\ ledger \in [Hashes -> 0..Cap] /\ work \in [Hashes -> Work] /\ work[h].ask \in 0..Cap
      /\ Footprint[h] \in 1..Cap
  BY SizeAssumption DEF IInv, TypeOK, Work
<1>2. /\ Without(ledger, h) \in [Hashes -> 0..Cap]
      /\ \A k \in Hashes : k # h => Without(ledger, h)[k] = ledger[k]
  BY <1>1, CapAssumption DEF Without
<1>3. /\ {"QUEUED", "DOWNLOADING", "MOVING", "RE_ADDING", "DONE", "FAILED", "WAITING_DISK"} \subseteq RowState
  BY DEF RowState, State
<1>4. CASE SkipDownload(h) BY <1>1, <1>3, <1>4, IdleMove DEF SkipDownload, Ready
<1>5. CASE AddOnly(h)
  <2>1. UNCHANGED <<row, ledger, work, past, astray>> BY <1>5 DEF AddOnly, NobodyElse
  <2> QED BY <1>1, <2>1 DEF Kept, IInv, NothingParked, PutAway, GrowsOnSsd
<1>6. CASE SetupRemoteSingle(h) BY <1>1, <1>2, <1>3, <1>6, IdleMove DEF SetupRemoteSingle, Ready
<1>7. CASE SetupShrink(h)
  <2> DEFINE L == [ledger EXCEPT ![h] = Footprint[h]]
  <2>1. L \in [Hashes -> 0..Cap] /\ \A k \in Hashes : k # h => L[k] = ledger[k]
    BY <1>1, CapAssumption
  <2>2. PICK dst \in {"DOWNLOADING", "QUEUED"} : MoveRow(h, dst, L)
    BY <1>7 DEF SetupShrink, Start
  <2> HIDE DEF L
  <2> QED BY <1>3, <1>7, <2>1, <2>2, IdleMove DEF SetupShrink, Ready
<1>8. CASE SetupOverBudget(h) BY <1>1, <1>3, <1>8, IdleMove DEF SetupOverBudget, Ready
<1>9. CASE SetupGrow(h) BY <1>1, <1>9, GrowingKeeps DEF SetupGrow, Ready
<1>10. CASE Resume(h) BY <1>1, <1>3, <1>10, IdleMove DEF Resume, Ready
<1>11. CASE TightenShrink(h)
  <2>1. UNCHANGED <<row, work, past, astray>> /\ ~PutAway(h)
    BY <1>11 DEF TightenShrink, Refining, PutAway, Releasing, NobodyElse
  <2>2. PICK rem \in 0..Footprint[h] : rem <= ledger[h] /\ ledger' = [ledger EXCEPT ![h] = rem]
    BY <1>11 DEF TightenShrink
  <2>3. ledger' \in [Hashes -> 0..Cap] BY <1>1, <2>2, CapAssumption
  <2>4. \A k \in Hashes : k # h => ledger'[k] = ledger[k] BY <1>1, <2>2
  <2>5. NothingParked' /\ GrowsOnSsd' BY <2>1, <2>3, <2>4, LedgerKeeps DEF IInv, GrowsOnSsd
  <2> QED BY <1>1, <2>1, <2>3, <2>5 DEF Kept
<1>12. CASE TightenGrow(h)
  <2>1. PICK rem \in 1..Footprint[h] : Growing(h, rem) BY <1>12 DEF TightenGrow
  <2>2. rem \in 1..Cap BY <1>1, CapAssumption
  <2> QED BY <1>12, <2>1, <2>2, GrowingKeeps DEF TightenGrow, Refining
<1>13. CASE Grown(h)
  <2> DEFINE L == [ledger EXCEPT ![h] = work[h].ask]
  <2>1. L \in [Hashes -> 0..Cap] /\ \A k \in Hashes : k # h => L[k] = ledger[k]
    BY <1>1
  <2>2. Rest(h) /\ work[h].pc = "grow" /\ astray' = astray BY <1>13 DEF Grown, NobodyElse
  <2>3. (\E dst \in {"DOWNLOADING", "QUEUED"} : MoveRow(h, dst, L)) \/ StayPut(L)
    BY <1>13 DEF Grown, Start
  <2> HIDE DEF L
  <2>4. CASE StayPut(L)
    <3>1. ~PutAway(h) BY <1>1, <2>2 DEF IInv, GrowsOnSsd, PutAway, Releasing
    <3>2. UNCHANGED <<row, past, astray>> /\ ledger' = L BY <2>2, <2>4 DEF StayPut
    <3>3. work' \in [Hashes -> Work] /\ NothingParked' /\ GrowsOnSsd'
      BY <2>1, <2>2, <3>1, <3>2, IdleType, StayStep DEF Rest
    <3> QED BY <1>1, <2>1, <3>2, <3>3 DEF Kept
  <2>5. ASSUME NEW dst \in {"DOWNLOADING", "QUEUED"}, MoveRow(h, dst, L) PROVE Kept
    BY <1>3, <2>1, <2>2, <2>5, MoveStep DEF Kept
  <2> QED BY <2>3, <2>4, <2>5
<1>14. CASE GrowFails(h)
  <2>1. Rest(h) /\ work[h].pc = "grow" /\ astray' = astray BY <1>14 DEF GrowFails, NobodyElse
  <2>2. CASE MoveRow(h, "WAITING_DISK", ledger)
    <3>1. work' = [work EXCEPT ![h] = Idle] BY <2>1 DEF Rest
    <3>2. work'[h].pc = "idle" /\ \A k \in Hashes : k # h => work'[k] = work[k]
      BY <1>1, <3>1, IdleType
    <3>3. work' \in [Hashes -> Work] BY <1>1, <3>1, IdleType
    <3>4. NothingParked' /\ GrowsOnSsd'
      BY <1>1, <1>3, <2>1, <2>2, <3>2, MoveRowKeeps
    <3>5. row' \in [Hashes -> RowState] /\ ledger' \in [Hashes -> 0..Cap]
      BY <1>1, <1>3, <2>2, MoveRowType
    <3> QED BY <3>3, <3>4, <3>5 DEF Kept
  <2>3. CASE StayPut(ledger)
    <3>1. ~PutAway(h) BY <1>1, <2>1 DEF IInv, GrowsOnSsd, PutAway, Releasing
    <3>2. UNCHANGED <<row, past, astray, ledger>> BY <2>1, <2>3 DEF StayPut
    <3>3. work' \in [Hashes -> Work] /\ NothingParked' /\ GrowsOnSsd'
      BY <1>1, <2>1, <3>1, <3>2, IdleType, StayStep DEF Rest
    <3> QED BY <1>1, <3>2, <3>3 DEF Kept
  <2> QED BY <1>14, <2>2, <2>3 DEF GrowFails
<1>15. CASE Downloaded(h) BY <1>1, <1>3, <1>15, IdleMove DEF Downloaded, Ready
<1>16. CASE Moved(h) BY <1>1, <1>3, <1>16, IdleMove DEF Moved, Ready
<1>17. CASE Demote(h) BY <1>1, <1>3, <1>17, IdleMove DEF Demote, Ready
<1>18. CASE Finish(h) BY <1>1, <1>3, <1>18, IdleMove DEF Finish, Ready
<1>19. CASE Fail(h) BY <1>1, <1>3, <1>19, IdleMove DEF Fail, Ready
<1>20. CASE StrayEnds(h)
  <2>1. /\ work' = work /\ work[h].pc = "idle"
        /\ \A k \in Hashes : k # h => astray'[k] = astray[k]
    BY <1>20 DEF StrayEnds
  <2>2. row[h] \in RowState /\ astray[h] \in State \cup {"NONE"} BY <1>1 DEF TypeOK
  <2>3. ASSUME NEW dst \in RowState, NEW L \in {ledger, Without(ledger, h)}, StrayWrites(h, dst, L)
        PROVE  Kept
    <3>1. PICK to \in RowState : WritePast(h, to, L) BY <1>3, <2>3 DEF StrayWrites, RowState
    <3> QED BY <1>1, <1>2, <2>1, <3>1, PastKeeps
  <2>4. {row[h], astray[h], "FAILED"} \subseteq RowState
    BY <1>20, <1>3, <2>2 DEF StrayEnds, RowState
  <2> QED BY <1>20, <2>3, <2>4 DEF StrayEnds
<1> QED BY <1>4, <1>5, <1>6, <1>7, <1>8, <1>9, <1>10, <1>11, <1>12, <1>13, <1>14, <1>15, <1>16,
           <1>17, <1>18, <1>19, <1>20 DEF Pipeline

LEMMA OperatorKeeps == ASSUME IInv, NEW h \in Hashes, Operator(h) PROVE Kept
<1>1. /\ TypeOK /\ row \in [Hashes -> RowState]
      /\ ledger \in [Hashes -> 0..Cap] /\ work \in [Hashes -> Work]
  BY DEF IInv, TypeOK, Work
<1>2. /\ Without(ledger, h) \in [Hashes -> 0..Cap]
      /\ \A k \in Hashes : k # h => Without(ledger, h)[k] = ledger[k]
  BY <1>1, CapAssumption DEF Without
<1>3. {"NEW", "QUEUED", "RE_ADDING", "GONE"} \subseteq RowState BY DEF RowState, State
<1>4. CASE Arrive(h) BY <1>1, <1>3, <1>4, IdleMove DEF Arrive, Ready
<1>5. CASE ApiRetry(h) BY <1>1, <1>3, <1>5, PastKeeps DEF ApiRetry, NobodyElse
<1>6. CASE Revive(h) BY <1>1, <1>3, <1>6, IdleMove DEF Revive, Ready
<1>7. CASE InjectFuse(h) BY <1>1, <1>2, <1>3, <1>7, IdleMove DEF InjectFuse, Ready
<1>8. CASE ForgetCli(h) BY <1>1, <1>3, <1>8, IdleMove DEF ForgetCli
<1>9. ASSUME NEW stopped \in BOOLEAN, ForgetApi(h, stopped) PROVE Kept
  <2>1. /\ MoveRow(h, "GONE", Without(ledger, h)) /\ (work' = work \/ Rest(h))
        /\ \A k \in Hashes : k # h => astray'[k] = astray[k]
    BY <1>1, <1>9 DEF ForgetApi, TypeOK
  <2>2. \A k \in Hashes : k # h => Without(ledger, h)[k] = ledger[k] \/ Without(ledger, h)[k] = 0
    BY <1>2
  <2> QED BY <1>2, <1>3, <2>1, <2>2, MoveStep DEF Kept
<1>10. CASE EntryLost(h)
  <2>1. UNCHANGED <<row, ledger, work, past, astray>> BY <1>10 DEF EntryLost, NobodyElse
  <2> QED BY <1>1, <2>1 DEF Kept, IInv, NothingParked, PutAway, GrowsOnSsd
<1> QED BY <1>4, <1>5, <1>6, <1>7, <1>8, <1>9, <1>10 DEF Operator

\* A worker whose row is written while it probes for a grow is astray, or the
\* row is where a grow may be.
LEMMA OvertakenKeeps ==
  ASSUME IInv, NEW h \in Hashes, NEW dst \in RowState, WritePast(h, dst, ledger), Overtakes(h), work' = work
  PROVE  Kept
<1>1. TypeOK /\ row[h] \in RowState /\ ledger \in [Hashes -> 0..Cap]
      /\ astray \in [Hashes -> State \cup {"NONE"}]
  BY DEF IInv, TypeOK
<1>2. \A k \in Hashes : k # h => astray'[k] = astray[k] BY <1>1 DEF Overtakes
<1>3. work[h].pc = "grow" => astray'[h] # "NONE"
  <2>1. CASE (work[h].pc # "grow" \/ astray[h] # "NONE") /\ UNCHANGED astray BY <2>1
  <2>2. CASE row[h] \notin {"DONE", "FAILED", "GONE"} /\ astray' = [astray EXCEPT ![h] = row[h]]
    BY <1>1, <2>2 DEF RowState, State
  <2> QED BY <2>1, <2>2 DEF Overtakes
<1> QED BY <1>1, <1>2, <1>3, PastKeeps

LEMMA ReconcileKeeps == ASSUME IInv, NEW h \in Hashes, Reconcile(h) PROVE Kept
<1>1. /\ TypeOK /\ row \in [Hashes -> RowState]
      /\ ledger \in [Hashes -> 0..Cap] /\ work \in [Hashes -> Work]
  BY DEF IInv, TypeOK, Work
<1>2. {"DOWNLOADING", "MOVING", "RE_ADDING", "DONE", "FAILED"} \subseteq RowState BY DEF RowState, State
<1>3. CASE UNCHANGED <<row, ledger, work, past, astray>>
  BY <1>1, <1>3 DEF Kept, IInv, NothingParked, PutAway, GrowsOnSsd
<1>4. CASE OrphanFound(h) BY <1>3, <1>4 DEF OrphanFound
<1>5. CASE OrphanFails(h)
  BY <1>2, <1>3, <1>5, OvertakenKeeps DEF OrphanFails, OrphanSettled, StayPut
<1>6. CASE OrphanReadded(h)
  BY <1>2, <1>3, <1>6, OvertakenKeeps DEF OrphanReadded, OrphanSettled, StayPut
<1>7. CASE MovingOrphan(h) BY <1>2, <1>7, OvertakenKeeps DEF MovingOrphan
<1>8. CASE LostDone(h)
  <2>1. work[h].pc = "grow" => astray'[h] # "NONE" BY <1>8 DEF LostDone, IInv, GrowsOnSsd
  <2> QED BY <1>1, <1>2, <1>8, <2>1, PastKeeps DEF LostDone
<1>9. CASE Adopted(h)
  <2>1. PICK dst \in {"DONE", "RE_ADDING", "MOVING", "DOWNLOADING"} : WritePast(h, dst, ledger)
    BY <1>9 DEF Adopted
  <2> QED BY <1>1, <1>2, <1>9, <2>1, PastKeeps DEF Adopted, Ready
<1> QED BY <1>4, <1>5, <1>6, <1>7, <1>8, <1>9 DEF Reconcile

\* A restart forgets every worker and reserves for what is on the SSD only.
LEMMA RestartKeeps == ASSUME IInv, Restart PROVE Kept
<1>1. TypeOK /\ row' = row /\ row \in [Hashes -> RowState]
  BY DEF IInv, TypeOK, Restart
<1>2. ledger' \in [Hashes -> 0..Cap] BY SizeAssumption, CapAssumption DEF Restart, Rebuilt
<1>3. work' \in [Hashes -> Work] /\ \A h \in Hashes : work'[h].pc = "idle" BY IdleType DEF Restart
<1>4. NothingParked' BY <1>1, OnSsdRows DEF NothingParked, PutAway, Restart, Rebuilt
<1>5. GrowsOnSsd' BY <1>3 DEF GrowsOnSsd
<1> QED BY <1>1, <1>2, <1>3, <1>4, <1>5 DEF Kept

-----------------------------------------------------------------------------
(* The budget: what the ledger may be raised to.                            *)

LEMMA TotalIsSum == ASSUME NEW L PROVE Total(L) = SumOver(L, Hashes)
BY DEF Total, SumOver

\* The total of a ledger that has shrunk, wholly or but for h.
LEMMA TotalShrinks ==
  ASSUME NEW L \in [Hashes -> 0..Cap], NEW M \in [Hashes -> 0..Cap],
         \A k \in Hashes : M[k] <= L[k]
  PROVE  Total(M) <= Total(L)
<1>1. \A k \in Hashes : M[k] \in Nat /\ L[k] \in Nat /\ M[k] <= L[k] BY CapAssumption
<1> QED BY <1>1, TotalIsSum, SumLeq, HashesAssumption

LEMMA OthersShrink ==
  ASSUME NEW L \in [Hashes -> 0..Cap], NEW M \in [Hashes -> 0..Cap], NEW h \in Hashes,
         \A k \in Hashes \ {h} : M[k] <= L[k]
  PROVE  /\ Total(M) - M[h] <= Total(L) - L[h]
         /\ Total(M) - M[h] \in Nat /\ Total(L) - L[h] \in Nat
<1> DEFINE R == Hashes \ {h}
<1>1. \A k \in Hashes : M[k] \in Nat /\ L[k] \in Nat BY CapAssumption
<1>2. Total(M) = M[h] + SumOver(M, R) /\ Total(L) = L[h] + SumOver(L, R)
  BY <1>1, TotalIsSum, SumTake, HashesAssumption
<1>3. IsFiniteSet(R) BY HashesAssumption, FS_Subset
<1>4. \A k \in R : M[k] \in Nat /\ L[k] \in Nat /\ M[k] <= L[k] BY <1>1
<1> HIDE DEF R
<1>5. SumOver(M, R) <= SumOver(L, R) /\ SumOver(M, R) \in Nat /\ SumOver(L, R) \in Nat
  BY <1>3, <1>4, SumLeq, SumType
<1> QED BY <1>1, <1>2, <1>5

\* An entry is replaced, the others are what they were.
LEMMA TotalReplaced ==
  ASSUME NEW L \in [Hashes -> 0..Cap], NEW h \in Hashes, NEW v \in 0..Cap
  PROVE  /\ Total(L) \in Nat /\ L[h] <= Total(L)
         /\ Total([L EXCEPT ![h] = v]) = Total(L) - L[h] + v
<1> DEFINE M == [L EXCEPT ![h] = v]
<1>1. /\ \A k \in Hashes : L[k] \in Nat /\ M[k] \in Nat
      /\ M[h] = v /\ \A k \in Hashes \ {h} : M[k] = L[k]
  BY CapAssumption
<1> HIDE DEF M
<1>2. /\ SumOver(L, Hashes) \in Nat /\ L[h] <= SumOver(L, Hashes)
      /\ SumOver(M, Hashes) = SumOver(L, Hashes) - L[h] + M[h]
  BY <1>1, SumReplaced, HashesAssumption
<1>3. Total(L) = SumOver(L, Hashes) /\ Total(M) = SumOver(M, Hashes) BY TotalIsSum
<1>4. Total(L) \in Nat /\ L[h] <= Total(L) /\ Total(M) = Total(L) - L[h] + v BY <1>1, <1>2, <1>3
<1> QED BY <1>4 DEF M

\* What a step may do to the ledger: take away, raise it to no more than the
\* budget, or rebuild it.
Raised ==
  \/ \A k \in Hashes : ledger'[k] <= ledger[k]
  \/ Total(ledger') <= Cap
  \/ restarts' # restarts

LEMMA MoveRaises ==
  ASSUME TypeOK, NEW h \in Hashes, NEW dst, NEW L \in [Hashes -> 0..Cap],
         \A k \in Hashes : L[k] <= ledger[k], MoveRow(h, dst, L)
  PROVE  \A k \in Hashes : ledger'[k] <= ledger[k]
BY CapAssumption DEF TypeOK, MoveRow, Without

LEMMA PastRaises ==
  ASSUME TypeOK, NEW h \in Hashes, NEW dst, NEW L,
         \A k \in Hashes : L[k] <= ledger[k], WritePast(h, dst, L)
  PROVE  \A k \in Hashes : ledger'[k] <= ledger[k]
BY DEF WritePast

\* A grant adds what it checked, to a ledger of which some may have gone.
LEMMA GrantRaises ==
  ASSUME TypeOK, NEW h \in Hashes, NEW L \in [Hashes -> 0..Cap],
         \A k \in Hashes : L[k] <= ledger[k], Grant(h, L)
  PROVE  Raised
<1> DEFINE reserved == [L EXCEPT ![h] = work[h].ask]
<1>1. work[h].ask \in 0..Cap /\ ledger \in [Hashes -> 0..Cap] BY DEF TypeOK
<1>2. Total(reserved) = Total(L) - L[h] + work[h].ask /\ Total(L) \in Nat /\ L[h] \in 0..Cap
  BY <1>1, TotalReplaced
<1>3. Total(L) + work[h].ask <= Cap BY DEF Grant, Fits
<1>4. Total(reserved) <= Cap BY <1>1, <1>2, <1>3, CapAssumption
<1>5. ledger' = reserved \/ ledger' = Without(L, h)
  BY DEF Grant, MoveRow, Releasing, StayPut
<1>6. CASE ledger' = Without(L, h) BY <1>1, <1>6, CapAssumption DEF Without, Raised
<1> QED BY <1>4, <1>5, <1>6 DEF Raised

LEMMA RefuseRaises ==
  ASSUME TypeOK, NEW h \in Hashes, NEW L \in [Hashes -> 0..Cap],
         \A k \in Hashes : L[k] <= ledger[k], Refuse(h, L)
  PROVE  Raised
BY MoveRaises DEF Refuse, Raised, StayPut

LEMMA AdmissionRaises == ASSUME TypeOK, NEW h \in Hashes, Admission(h) PROVE Raised
<1>1. ledger \in [Hashes -> 0..Cap] /\ \A k \in Hashes : ledger[k] \in 0..Cap BY DEF TypeOK
<1>2. \A k \in Hashes : ledger[k] <= ledger[k] /\ Without(ledger, h)[k] <= ledger[k]
  BY <1>1, CapAssumption DEF Without
<1>3. ASSUME NEW granted \in BOOLEAN, PruneLands(h, granted) PROVE Raised
  <2> DEFINE L == Pruned(ledger, work[h].stale)
  <2>1. L \in [Hashes -> 0..Cap] /\ \A k \in Hashes : L[k] <= ledger[k]
    BY <1>1, CapAssumption DEF Pruned
  <2> HIDE DEF L
  <2>2. Grant(h, L) \/ Refuse(h, L) \/ ledger' = L BY <1>3 DEF PruneLands, StayPut, L
  <2>3. CASE ledger' = L BY <2>1, <2>3 DEF Raised
  <2> QED BY <2>1, <2>2, <2>3, GrantRaises, RefuseRaises
<1>4. ASSUME NEW granted \in BOOLEAN, LockAcquired(h, granted) PROVE Raised
  <2>1. Grant(h, ledger) \/ Refuse(h, ledger) BY <1>4 DEF LockAcquired
  <2> QED BY <1>1, <1>2, <2>1, GrantRaises, RefuseRaises
<1>5. CASE Promote(h)
  <2>1. CASE MoveRow(h, "QUEUED", ledger) BY <1>1, <1>2, <2>1, MoveRaises DEF Raised
  <2>2. CASE ledger' = Without(ledger, h) BY <1>2, <2>2 DEF Raised
  <2> QED BY <1>5, <2>1, <2>2 DEF Promote, StayPut
<1>6. CASE (\E amount \in 1..Cap : Ask(h, amount)) \/ AdmitFree(h)
  BY <1>1, <1>2, <1>6, MoveRaises DEF Ask, AdmitFree, Raised
<1>7. CASE RecountFull(h) \/ HealEnds(h) BY <1>2, <1>7 DEF RecountFull, HealEnds, Raised
<1> QED BY <1>3, <1>4, <1>5, <1>6, <1>7 DEF Admission

LEMMA PipelineRaises == ASSUME BudgetInv, NEW h \in Hashes, Pipeline(h) PROVE Raised
<1>1. TypeOK /\ ledger \in [Hashes -> 0..Cap] /\ Footprint[h] \in 1..Cap /\ work[h].ask \in 0..Cap
  BY SizeAssumption DEF BudgetInv, IInv, TypeOK
<1>2. /\ Without(ledger, h) \in [Hashes -> 0..Cap]
      /\ \A k \in Hashes : ledger[k] <= ledger[k] /\ Without(ledger, h)[k] <= ledger[k]
  BY <1>1, CapAssumption DEF Without
<1>3. CASE SetupShrink(h)
  <2> DEFINE L == [ledger EXCEPT ![h] = Footprint[h]]
  <2>1. L \in [Hashes -> 0..Cap] /\ \A k \in Hashes : L[k] <= ledger[k]
    BY <1>1, <1>3, CapAssumption DEF SetupShrink
  <2>2. PICK dst : MoveRow(h, dst, L) BY <1>3 DEF SetupShrink, Start
  <2> HIDE DEF L
  <2> QED BY <1>1, <2>1, <2>2, MoveRaises DEF Raised
<1>4. CASE TightenShrink(h)
  <2>1. PICK rem \in 0..Footprint[h] : rem <= ledger[h] /\ ledger' = [ledger EXCEPT ![h] = rem]
    BY <1>4 DEF TightenShrink
  <2> QED BY <1>1, <2>1 DEF Raised
<1>5. CASE Grown(h)
  <2> DEFINE L == [ledger EXCEPT ![h] = work[h].ask]
  <2>1. Total(L) = Total(ledger) - ledger[h] + work[h].ask BY <1>1, TotalReplaced
  <2>2. Total(L) <= Cap BY <1>5, <2>1 DEF Grown, BudgetInv, GrowFits, FitsInstead
  <2>3. ledger' = L BY <1>5 DEF Grown, Start, MoveRow, Releasing, StayPut
  <2> QED BY <2>2, <2>3 DEF Raised
<1>6. CASE SetupRemoteSingle(h)
  BY <1>1, <1>2, <1>6, MoveRaises DEF SetupRemoteSingle, Raised
<1>7. CASE (\E dst \in RowState : MoveRow(h, dst, ledger)) \/ ledger' = ledger
  BY <1>1, <1>2, <1>7, MoveRaises DEF Raised
<1>8. {"QUEUED", "DOWNLOADING", "MOVING", "RE_ADDING", "DONE", "FAILED", "WAITING_DISK"} \subseteq RowState
  BY DEF RowState, State
<1>9. CASE SkipDownload(h) \/ SetupOverBudget(h) \/ Resume(h) \/ Downloaded(h) \/ Moved(h) \/ Demote(h)
           \/ Finish(h) \/ Fail(h)
  BY <1>7, <1>8, <1>9 DEF SkipDownload, SetupOverBudget, Resume, Downloaded, Moved, Demote, Finish, Fail
<1>10. CASE AddOnly(h) \/ SetupGrow(h) \/ TightenGrow(h)
  BY <1>7, <1>10 DEF AddOnly, SetupGrow, TightenGrow, Growing
<1>11. CASE GrowFails(h) BY <1>7, <1>8, <1>11 DEF GrowFails, StayPut
<1>12. CASE StrayEnds(h)
  BY <1>1, <1>2, <1>12, PastRaises DEF StrayEnds, StrayWrites, Raised
<1> QED BY <1>3, <1>4, <1>5, <1>6, <1>9, <1>10, <1>11, <1>12 DEF Pipeline

LEMMA OperatorRaises == ASSUME TypeOK, NEW h \in Hashes, Operator(h) PROVE Raised
<1>1. ledger \in [Hashes -> 0..Cap] BY DEF TypeOK
<1>2. /\ Without(ledger, h) \in [Hashes -> 0..Cap]
      /\ \A k \in Hashes : ledger[k] <= ledger[k] /\ Without(ledger, h)[k] <= ledger[k]
  BY <1>1, CapAssumption DEF Without
<1>3. CASE ApiRetry(h) \/ EntryLost(h)
  BY <1>1, <1>2, <1>3, PastRaises DEF ApiRetry, EntryLost, Raised
<1>4. CASE \E dst \in RowState : MoveRow(h, dst, ledger) \/ MoveRow(h, dst, Without(ledger, h))
  BY <1>1, <1>2, <1>4, MoveRaises DEF Raised
<1>5. {"NEW", "RE_ADDING", "GONE"} \subseteq RowState BY DEF RowState, State
<1>6. CASE Arrive(h) \/ Revive(h) \/ InjectFuse(h) \/ ForgetCli(h) \/ \E stopped \in BOOLEAN : ForgetApi(h, stopped)
  BY <1>4, <1>5, <1>6 DEF Arrive, Revive, InjectFuse, ForgetCli, ForgetApi
<1> QED BY <1>3, <1>6 DEF Operator

\* Recover never writes to the ledger.
LEMMA ReconcileLedger == ASSUME NEW h \in Hashes, Reconcile(h) PROVE UNCHANGED <<ledger, work, lock>>
BY DEF Reconcile, OrphanFound, OrphanFails, OrphanReadded, OrphanSettled, MovingOrphan, LostDone,
       Adopted, WritePast, StayPut

LEMMA StepRaises == ASSUME BudgetInv, Next PROVE Raised
<1>1. TypeOK BY DEF BudgetInv, IInv
<1>2. CASE Restart BY <1>1, <1>2 DEF Restart, TypeOK, Raised
<1>3. CASE \E h \in Hashes : Reconcile(h)
  <2>1. ledger' = ledger /\ \A k \in Hashes : ledger[k] \in 0..Cap BY <1>1, <1>3, ReconcileLedger DEF TypeOK
  <2> QED BY <2>1, CapAssumption DEF Raised
<1> QED BY <1>1, <1>2, <1>3, AdmissionRaises, PipelineRaises, OperatorRaises DEF Next

\* What becomes of the probe of a row: it is over, it goes on with the lock
\* while others only lose, or it has just begun, with room for it.
Probe(k) ==
  work'[k].pc = "grow" =>
    /\ lock' = k
    /\ \/ /\ work[k].pc = "grow" /\ work'[k].ask = work[k].ask
          /\ \A j \in Hashes \ {k} : ledger'[j] <= ledger[j]
       \/ ledger' = ledger /\ FitsInstead(k, work'[k].ask)

\* Nothing of h has begun, and what others wait for with the lock they keep.
LEMMA ProbesGoOn ==
  ASSUME BudgetInv, NEW h \in Hashes, NEW w, w.pc # "grow",
         work' = [work EXCEPT ![h] = w] \/ (work' = work /\ work[h].pc # "grow"),
         LockFree \/ ((\A j \in Hashes : ledger'[j] <= ledger[j]) /\ (lock' = lock \/ lock = h))
  PROVE  \A k \in Hashes : Probe(k)
<1> SUFFICES ASSUME NEW k \in Hashes, work'[k].pc = "grow" PROVE Probe(k) BY DEF Probe
<1>1. TypeOK /\ work \in [Hashes -> Work] BY DEF BudgetInv, IInv, TypeOK, Work
<1>2. k # h /\ work'[k] = work[k] BY <1>1
<1>3. lock = k BY <1>2 DEF BudgetInv, GrowFits
<1>4. ~LockFree BY <1>3, RestartAssumption DEF LockFree
<1> QED BY <1>2, <1>3, <1>4 DEF Probe

LEMMA GrowingProbes ==
  ASSUME BudgetInv, NEW h \in Hashes, NEW amount, Growing(h, amount)
  PROVE  \A k \in Hashes : Probe(k)
<1> SUFFICES ASSUME NEW k \in Hashes, work'[k].pc = "grow" PROVE Probe(k) BY DEF Probe
<1>1. work \in [Hashes -> Work] BY DEF BudgetInv, IInv, TypeOK, Work
<1> DEFINE w == [pc |-> "grow", ask |-> amount, stale |-> {}]
<1>2. work' = [work EXCEPT ![h] = w] /\ w.ask = amount BY DEF Growing, Await
<1> HIDE DEF w
<1>3. CASE k = h
  <2>1. work'[k].ask = amount BY <1>1, <1>2, <1>3
  <2>2. lock' = k /\ ledger' = ledger /\ FitsInstead(k, amount) BY <1>3 DEF Growing
  <2> QED BY <2>1, <2>2 DEF Probe
<1>4. CASE k # h
  <2>1. work[k].pc = "grow" BY <1>1, <1>2, <1>4
  <2>2. lock = k BY <2>1 DEF BudgetInv, GrowFits
  <2> QED BY <2>2, RestartAssumption DEF Growing, LockFree
<1> QED BY <1>3, <1>4

LEMMA AdmissionProbes == ASSUME BudgetInv, NEW h \in Hashes, Admission(h) PROVE \A k \in Hashes : Probe(k)
<1>1. TypeOK /\ ledger \in [Hashes -> 0..Cap] /\ \A j \in Hashes : ledger[j] <= ledger[j]
  BY CapAssumption DEF BudgetInv, IInv, TypeOK
<1>2. Idle.pc # "grow" BY IdleType
<1>3. ASSUME NEW amount \in 1..Cap, Ask(h, amount) PROVE \A k \in Hashes : Probe(k)
  <2> DEFINE w == [pc |-> "prune", ask |-> amount, stale |-> Stale]
  <2>1. work' = [work EXCEPT ![h] = w] /\ w.pc # "grow" BY <1>3 DEF Ask
  <2> HIDE DEF w
  <2>2. lock' = lock /\ ledger' = ledger BY <1>3 DEF Ask
  <2> QED BY <1>1, <2>1, <2>2, ProbesGoOn
<1>4. ASSUME NEW stage \in {"recount", "heal", "admit"}, NEW ask, Await(h, stage, ask),
             LockFree \/ ((\A j \in Hashes : ledger'[j] <= ledger[j]) /\ lock' = lock)
      PROVE  \A k \in Hashes : Probe(k)
  <2> DEFINE w == [pc |-> stage, ask |-> ask, stale |-> {}]
  <2>1. work' = [work EXCEPT ![h] = w] /\ w.pc # "grow" BY <1>4 DEF Await
  <2> HIDE DEF w
  <2> QED BY <1>4, <2>1, ProbesGoOn
<1>5. ASSUME Rest(h), LockFree \/ ((\A j \in Hashes : ledger'[j] <= ledger[j]) /\ lock' = lock)
      PROVE  \A k \in Hashes : Probe(k)
  BY <1>2, <1>5, ProbesGoOn DEF Rest
<1>6. ASSUME NEW L, Grant(h, L) \/ Refuse(h, L), LockFree PROVE \A k \in Hashes : Probe(k)
  <2>1. \/ Rest(h) \/ Await(h, "recount", 0) \/ Await(h, "heal", work[h].ask)
    BY <1>6 DEF Grant, Refuse
  <2>2. LockFree BY <1>6
  <2>3. CASE Rest(h) BY <1>5, <2>2, <2>3
  <2>4. CASE Await(h, "recount", 0) BY <1>4, <2>2, <2>4
  <2>5. CASE Await(h, "heal", work[h].ask) BY <1>4, <2>2, <2>5
  <2> QED BY <2>1, <2>3, <2>4, <2>5
<1>7. ASSUME NEW granted \in BOOLEAN, PruneLands(h, granted) PROVE \A k \in Hashes : Probe(k)
  <2> DEFINE L == Pruned(ledger, work[h].stale)
  <2>1. \A j \in Hashes : L[j] <= ledger[j] BY <1>1, CapAssumption DEF Pruned
  <2> HIDE DEF L
  <2>2. CASE LockFree /\ (Grant(h, L) \/ Refuse(h, L)) BY <1>6, <2>2
  <2>3. CASE Await(h, "admit", work[h].ask) /\ ledger' = L /\ lock' = lock
    BY <1>4, <2>1, <2>3
  <2> QED BY <1>7, <2>2, <2>3 DEF PruneLands, StayPut, L
<1>8. ASSUME NEW granted \in BOOLEAN, LockAcquired(h, granted) PROVE \A k \in Hashes : Probe(k)
  BY <1>6, <1>8 DEF LockAcquired
<1>9. CASE RecountFull(h) \/ HealEnds(h) BY <1>5, <1>9 DEF RecountFull, HealEnds
<1>10. CASE Promote(h)
  <2>1. MoveRow(h, "QUEUED", ledger) \/ LockFree BY <1>10 DEF Promote
  <2>2. Rest(h) /\ lock' = lock BY <1>10 DEF Promote
  <2>3. CASE MoveRow(h, "QUEUED", ledger) BY <1>1, <1>5, <2>2, <2>3, MoveRaises
  <2> QED BY <1>5, <2>1, <2>2, <2>3
<1>11. CASE AdmitFree(h)
  <2>1. \A j \in Hashes : ledger'[j] <= ledger[j] BY <1>1, <1>11, MoveRaises DEF AdmitFree
  <2> QED BY <1>1, <1>2, <1>11, <2>1, ProbesGoOn DEF AdmitFree, Ready
<1> QED BY <1>3, <1>7, <1>8, <1>9, <1>10, <1>11 DEF Admission

\* A worker at rest, and a row that moves.
LEMMA IdleProbes ==
  ASSUME BudgetInv, NEW h \in Hashes, work[h].pc = "idle", work' = work, lock' = lock,
         \/ LockFree \/ ledger' = ledger
         \/ \E dst : MoveRow(h, dst, ledger) \/ WritePast(h, dst, ledger)
  PROVE  \A k \in Hashes : Probe(k)
<1>1. TypeOK /\ ledger \in [Hashes -> 0..Cap] /\ \A j \in Hashes : ledger[j] <= ledger[j]
  BY CapAssumption DEF BudgetInv, IInv, TypeOK
<1>2. LockFree \/ \A j \in Hashes : ledger'[j] <= ledger[j]
  BY <1>1, MoveRaises, PastRaises
<1> QED BY <1>2, IdleType, ProbesGoOn

LEMMA PipelineProbes == ASSUME BudgetInv, NEW h \in Hashes, Pipeline(h) PROVE \A k \in Hashes : Probe(k)
<1>1. TypeOK /\ work \in [Hashes -> Work] /\ ledger \in [Hashes -> 0..Cap]
      /\ \A j \in Hashes : ledger[j] <= ledger[j]
  BY CapAssumption DEF BudgetInv, IInv, TypeOK, Work
<1>2. CASE SkipDownload(h) \/ SetupOverBudget(h) \/ Resume(h) \/ Downloaded(h) \/ Moved(h) \/ Demote(h)
           \/ Finish(h) \/ Fail(h) \/ AddOnly(h)
  BY <1>2, IdleProbes DEF SkipDownload, SetupOverBudget, Resume, Downloaded, Moved, Demote, Finish,
     Fail, AddOnly, Ready
<1>3. CASE SetupRemoteSingle(h) \/ SetupShrink(h) \/ TightenShrink(h)
  BY <1>3, IdleProbes DEF SetupRemoteSingle, SetupShrink, TightenShrink, Refining, Ready
<1>4. CASE SetupGrow(h) \/ TightenGrow(h) BY <1>4, GrowingProbes DEF SetupGrow, TightenGrow
<1>5. CASE Grown(h) \/ GrowFails(h)
  <2>1. work[h].pc = "grow" /\ Rest(h) BY <1>5 DEF Grown, GrowFails
  <2>2. lock = h BY <2>1 DEF BudgetInv, GrowFits
  <2> SUFFICES ASSUME NEW k \in Hashes, work'[k].pc = "grow" PROVE FALSE BY DEF Probe
  <2>3. work[k].pc = "grow" /\ k # h BY <1>1, <2>1, IdleType DEF Rest
  <2> QED BY <2>2, <2>3 DEF BudgetInv, GrowFits
<1>6. CASE StrayEnds(h) BY <1>6, IdleProbes DEF StrayEnds, StrayWrites
<1> QED BY <1>2, <1>3, <1>4, <1>5, <1>6 DEF Pipeline

\* Where workers, lock and ledger stay, probes do.
LEMMA StillProbes ==
  ASSUME BudgetInv, UNCHANGED <<ledger, work, lock>> PROVE \A k \in Hashes : Probe(k)
<1>1. ledger \in [Hashes -> 0..Cap] /\ \A j \in Hashes : ledger[j] <= ledger[j]
  BY CapAssumption DEF BudgetInv, IInv, TypeOK
<1> QED BY <1>1 DEF Probe, BudgetInv, GrowFits

LEMMA OperatorProbes == ASSUME BudgetInv, NEW h \in Hashes, Operator(h) PROVE \A k \in Hashes : Probe(k)
<1>1. /\ TypeOK /\ work \in [Hashes -> Work] /\ ledger \in [Hashes -> 0..Cap]
      /\ Without(ledger, h) \in [Hashes -> 0..Cap]
      /\ \A j \in Hashes : ledger[j] <= ledger[j] /\ Without(ledger, h)[j] <= ledger[j]
  BY CapAssumption DEF BudgetInv, IInv, TypeOK, Work, Without
<1>2. CASE Arrive(h) \/ Revive(h) \/ InjectFuse(h)
  BY <1>2, IdleProbes DEF Arrive, Revive, InjectFuse, Ready
<1>3. CASE ForgetCli(h) \/ ApiRetry(h) \/ EntryLost(h)
  <2>1. UNCHANGED <<ledger, work, lock>>
    BY <1>1, <1>3 DEF ForgetCli, ApiRetry, EntryLost, MoveRow, WritePast, Releasing
  <2> QED BY <2>1, StillProbes
<1>4. ASSUME NEW stopped \in BOOLEAN, ForgetApi(h, stopped) PROVE \A k \in Hashes : Probe(k)
  <2>1. \A j \in Hashes : ledger'[j] <= ledger[j]
    BY <1>1, <1>4, MoveRaises DEF ForgetApi
  <2>2. CASE stopped
    <3>1. work' = [work EXCEPT ![h] = Idle] BY <1>4, <2>2 DEF ForgetApi, Rest
    <3>2. Idle.pc # "grow" BY IdleType
    <3>3. CASE LockFree BY <3>1, <3>2, <3>3, ProbesGoOn
    <3>4. CASE lock = h BY <2>1, <3>1, <3>2, <3>4, ProbesGoOn
    <3> QED BY <1>4, <2>2, <3>3, <3>4 DEF ForgetApi, LockFree
  <2>3. CASE ~stopped
    <3>1. LockFree /\ work' = work BY <1>4, <2>3 DEF ForgetApi
    <3>2. \A k \in Hashes : work[k].pc # "grow"
      BY <3>1, RestartAssumption DEF LockFree, BudgetInv, GrowFits
    <3> QED BY <3>1, <3>2 DEF Probe
  <2> QED BY <2>2, <2>3
<1> QED BY <1>2, <1>3, <1>4 DEF Operator

LEMMA StepProbes == ASSUME BudgetInv, Next PROVE \A k \in Hashes : Probe(k)
<1>1. CASE Restart BY <1>1, IdleType DEF Restart, Probe
<1>2. CASE \E h \in Hashes : Reconcile(h) BY <1>2, ReconcileLedger, StillProbes
<1> QED BY <1>1, <1>2, AdmissionProbes, PipelineProbes, OperatorProbes DEF Next

-----------------------------------------------------------------------------
(* The budget: the theorems.                                                *)

LEMMA StepKeeps == ASSUME IInv, Next PROVE Kept
BY AdmissionKeeps, PipelineKeeps, OperatorKeeps, ReconcileKeeps, RestartKeeps DEF Next

\* The variables the moves do not touch.
LEMMA StepOthers ==
  ASSUME TypeOK, Next
  PROVE  client' \in [Hashes -> BOOLEAN] /\ lock' \in Hashes \cup {NoHash} /\ restarts' \in 0..MaxRestarts
<1>1. client \in [Hashes -> BOOLEAN] /\ lock \in Hashes \cup {NoHash} /\ restarts \in 0..MaxRestarts
  BY DEF TypeOK
<1>2. ASSUME NEW h \in Hashes, Admission(h)
      PROVE  client' = client /\ lock' = lock /\ restarts' = restarts
  BY <1>2 DEF Admission, Ask, PruneLands, LockAcquired, RecountFull, Promote, AdmitFree, HealEnds, NobodyElse
<1>3. ASSUME NEW h \in Hashes, Pipeline(h)
      PROVE  /\ restarts' = restarts /\ lock' \in Hashes \cup {NoHash}
             /\ client' = client \/ \E b \in BOOLEAN : client' = [client EXCEPT ![h] = b]
  <2>1. client[h] \in BOOLEAN BY <1>1
  <2>2. CASE Fail(h) BY <1>1, <2>1, <2>2 DEF Fail, NobodyElse
  <2>3. CASE SkipDownload(h) \/ AddOnly(h) \/ SetupRemoteSingle(h) \/ SetupShrink(h)
             \/ SetupOverBudget(h) \/ Resume(h) \/ TightenShrink(h)
             \/ Downloaded(h) \/ Moved(h) \/ Demote(h) \/ Finish(h)
    BY <1>1, <2>3 DEF SkipDownload, AddOnly, SetupRemoteSingle, SetupShrink, SetupOverBudget, Resume,
       TightenShrink, Downloaded, Moved, Demote, Finish, NobodyElse
  <2>4. CASE SetupGrow(h) \/ TightenGrow(h) BY <2>4 DEF SetupGrow, TightenGrow, Growing, NobodyElse
  <2>5. CASE Grown(h) BY <2>5, RestartAssumption DEF Grown, NobodyElse
  <2>6. CASE GrowFails(h) BY <1>1, <2>1, <2>6, RestartAssumption DEF GrowFails, NobodyElse
  <2>7. CASE StrayEnds(h) BY <1>1, <2>7 DEF StrayEnds
  <2> QED BY <1>3, <2>2, <2>3, <2>4, <2>5, <2>6, <2>7 DEF Pipeline
<1>4. ASSUME NEW h \in Hashes, Operator(h)
      PROVE  /\ restarts' = restarts /\ lock' \in Hashes \cup {NoHash}
             /\ client' = client \/ client' = [client EXCEPT ![h] = FALSE]
  BY <1>1, <1>4 DEF Operator, Arrive, ApiRetry, Revive, InjectFuse, ForgetCli, ForgetApi, EntryLost, NobodyElse
<1>5. CASE Restart BY <1>1, <1>5, RestartAssumption DEF Restart
<1>6. ASSUME NEW h \in Hashes, Reconcile(h)
      PROVE  /\ restarts' = restarts /\ lock' = lock
             /\ client' = client \/ \E b \in BOOLEAN : client' = [client EXCEPT ![h] = b]
  <2>1. CASE Adopted(h)
    <3>1. PICK dst : client' = [client EXCEPT ![h] = dst \in OnSsd] BY <2>1 DEF Adopted
    <3>2. (dst \in OnSsd) \in BOOLEAN OBVIOUS
    <3> QED BY <2>1, <3>1, <3>2 DEF Adopted
  <2>2. CASE OrphanReadded(h) BY <2>2 DEF OrphanReadded, OrphanSettled
  <2>3. CASE OrphanFound(h) \/ OrphanFails(h) \/ MovingOrphan(h) \/ LostDone(h)
    BY <2>3 DEF OrphanFound, OrphanFails, OrphanSettled, MovingOrphan, LostDone
  <2> QED BY <1>6, <2>1, <2>2, <2>3 DEF Reconcile
<1> QED BY <1>1, <1>2, <1>3, <1>4, <1>5, <1>6 DEF Next

\* Those of recover and of the workers it overtakes.
LEMMA StepStrays ==
  ASSUME TypeOK, Next
  PROVE  /\ orphan' \in [Hashes -> {"NONE", "QUEUED", "DOWNLOADING"}]
         /\ astray' \in [Hashes -> State \cup {"NONE"}]
         /\ recovers' \in 0..MaxRecovers
<1>1. /\ orphan \in [Hashes -> {"NONE", "QUEUED", "DOWNLOADING"}]
      /\ astray \in [Hashes -> State \cup {"NONE"}]
      /\ recovers \in 0..MaxRecovers
      /\ row \in [Hashes -> RowState]
  BY DEF TypeOK
<1>2. CASE UNCHANGED <<orphan, astray, recovers>> BY <1>1, <1>2
<1>3. ASSUME NEW h \in Hashes, Admission(h) PROVE NobodyElse
  BY <1>3 DEF Admission, Ask, PruneLands, LockAcquired, RecountFull, Promote, AdmitFree, HealEnds
<1>4. ASSUME NEW h \in Hashes, Pipeline(h), ~StrayEnds(h) PROVE NobodyElse
  <2>1. CASE SkipDownload(h) \/ AddOnly(h) \/ SetupRemoteSingle(h) \/ SetupShrink(h) \/ SetupOverBudget(h)
             \/ Resume(h) \/ TightenShrink(h)
    BY <2>1 DEF SkipDownload, AddOnly, SetupRemoteSingle, SetupShrink, SetupOverBudget, Resume, TightenShrink
  <2>2. CASE SetupGrow(h) \/ TightenGrow(h) \/ Grown(h) \/ GrowFails(h)
    BY <2>2 DEF SetupGrow, TightenGrow, Growing, Grown, GrowFails
  <2>3. CASE Downloaded(h) \/ Moved(h) \/ Demote(h) \/ Finish(h) \/ Fail(h)
    BY <2>3 DEF Downloaded, Moved, Demote, Finish, Fail
  <2> QED BY <1>4, <2>1, <2>2, <2>3 DEF Pipeline
<1>5. ASSUME NEW h \in Hashes, Operator(h)
      PROVE  /\ orphan' = orphan /\ recovers' = recovers
             /\ astray' = astray \/ astray' = [astray EXCEPT ![h] = "NONE"]
  BY <1>5 DEF Operator, Arrive, ApiRetry, Revive, InjectFuse, ForgetCli, ForgetApi, EntryLost, NobodyElse
<1>6. ASSUME NEW h \in Hashes, Overtakes(h) PROVE astray' \in [Hashes -> State \cup {"NONE"}]
  BY <1>1, <1>6 DEF Overtakes, RowState
<1>7. ASSUME Recovers PROVE recovers' \in 0..MaxRecovers
  BY <1>1, <1>7, RestartAssumption DEF Recovers
<1>8. ASSUME NEW h \in Hashes, Reconcile(h)
      PROVE  /\ orphan' \in [Hashes -> {"NONE", "QUEUED", "DOWNLOADING"}]
             /\ astray' = astray \/ Overtakes(h)
             /\ recovers' = recovers \/ Recovers
  <2>1. CASE OrphanFound(h) BY <1>1, <2>1 DEF OrphanFound
  <2>2. CASE OrphanFails(h) \/ OrphanReadded(h) BY <1>1, <2>2 DEF OrphanFails, OrphanReadded, OrphanSettled
  <2>3. CASE MovingOrphan(h) \/ LostDone(h) \/ Adopted(h) BY <1>1, <2>3 DEF MovingOrphan, LostDone, Adopted
  <2> QED BY <1>8, <2>1, <2>2, <2>3 DEF Reconcile
<1>9. CASE \E h \in Hashes : StrayEnds(h) BY <1>1, <1>9 DEF StrayEnds
<1>10. CASE \E h \in Hashes : Reconcile(h) BY <1>1, <1>6, <1>7, <1>8, <1>10
<1>11. CASE Restart BY <1>1, <1>11 DEF Restart
<1>12. CASE \E h \in Hashes : Operator(h) BY <1>1, <1>5, <1>12
<1>13. CASE \E h \in Hashes : Admission(h) \/ (Pipeline(h) /\ ~StrayEnds(h))
  BY <1>2, <1>3, <1>4, <1>13 DEF NobodyElse
<1> QED BY <1>9, <1>10, <1>11, <1>12, <1>13 DEF Next

LEMMA StepPast == ASSUME past \subseteq Hashes, Next PROVE past' \subseteq Hashes
<1>1. ASSUME NEW h \in Hashes, Admission(h) PROVE past' \subseteq past
  BY <1>1 DEF Admission, Ask, PruneLands, LockAcquired, Grant, Refuse, RecountFull, Promote, AdmitFree,
     HealEnds, MoveRow, StayPut
<1>2. ASSUME NEW h \in Hashes, Pipeline(h) PROVE past' \subseteq past \cup {h}
  BY <1>2 DEF Pipeline, SkipDownload, AddOnly, SetupRemoteSingle, SetupShrink, SetupOverBudget,
     SetupGrow, Resume, TightenShrink, TightenGrow, Growing, Grown, GrowFails, Downloaded, Moved,
     Demote, Finish, Fail, StrayEnds, StrayWrites, Start, MoveRow, StayPut, WritePast
<1>3. ASSUME NEW h \in Hashes, Operator(h) PROVE past' \subseteq past \cup {h}
  BY <1>3 DEF Operator, Arrive, ApiRetry, Revive, InjectFuse, ForgetCli, ForgetApi, EntryLost, MoveRow, WritePast
<1>4. ASSUME NEW h \in Hashes, Reconcile(h) PROVE past' \subseteq past \cup {h}
  BY <1>4 DEF Reconcile, OrphanFound, OrphanFails, OrphanReadded, MovingOrphan, LostDone, Adopted,
     StayPut, WritePast
<1>5. CASE Restart BY <1>5 DEF Restart
<1> QED BY <1>1, <1>2, <1>3, <1>4, <1>5 DEF Next

\* The inductive invariant holds of the initial state and is kept.
THEOREM Invariance == Spec => []IInv
<1>1. Init => IInv
  <2> SUFFICES ASSUME Init PROVE IInv OBVIOUS
  <2>1. \A h \in Hashes : work[h].pc = "idle" BY IdleType DEF Init
  <2>2. work \in [Hashes -> Work] BY IdleType DEF Init
  <2>3. TypeOK
    BY <2>2, CapAssumption, RestartAssumption DEF Init, TypeOK, Work, RowState
  <2> QED BY <2>1, <2>3 DEF Init, IInv, NothingParked, GrowsOnSsd
<1>2. IInv /\ [Next]_vars => IInv'
  <2> SUFFICES ASSUME IInv, [Next]_vars PROVE IInv' OBVIOUS
  <2>1. CASE Next
    <3>1. Kept BY <2>1, StepKeeps
    <3>2. client' \in [Hashes -> BOOLEAN] /\ lock' \in Hashes \cup {NoHash} /\ restarts' \in 0..MaxRestarts
      BY <2>1, StepOthers DEF IInv
    <3>3. /\ orphan' \in [Hashes -> {"NONE", "QUEUED", "DOWNLOADING"}]
          /\ astray' \in [Hashes -> State \cup {"NONE"}]
          /\ past' \subseteq Hashes /\ recovers' \in 0..MaxRecovers
      BY <2>1, StepStrays, StepPast DEF IInv, TypeOK
    <3> QED BY <3>1, <3>2, <3>3 DEF Kept, IInv, TypeOK, Work
  <2>2. CASE UNCHANGED vars
    BY <2>2 DEF vars, IInv, TypeOK, NothingParked, PutAway, GrowsOnSsd, Pcs
  <2> QED BY <2>1, <2>2
<1> QED BY <1>1, <1>2, PTL DEF Spec

\* Types.
THEOREM TypeCorrect == Spec => []TypeOK
<1>1. IInv => TypeOK BY DEF IInv
<1> QED BY <1>1, Invariance, PTL

\* A row that is parked, finished or failed, with nothing under way, and holds
\* budget was put there by a write past the ledger: no admission, grow, forget,
\* retry or restart leaves one that coordinator.transition moved with any.
THEOREM OnlyPastWritesLeakHolds == Spec => []OnlyPastWritesLeak
<1>1. IInv => OnlyPastWritesLeak
  BY DEF IInv, NothingParked, PutAway, OnlyPastWritesLeak, Ready, Releasing
<1> QED BY <1>1, Invariance, PTL

\* What a probe asked for fits when it comes back, whatever the others did.
THEOREM ProbesFit == Spec => []BudgetInv
<1>1. Init => GrowFits BY IdleType DEF Init, GrowFits
<1>2. BudgetInv /\ IInv' /\ [Next]_vars => GrowFits'
  <2> SUFFICES ASSUME BudgetInv, IInv', [Next]_vars PROVE GrowFits' OBVIOUS
  <2>1. CASE UNCHANGED vars BY <2>1 DEF vars, BudgetInv, GrowFits, FitsInstead
  <2>2. ASSUME Next, NEW k \in Hashes, work'[k].pc = "grow"
        PROVE  lock' = k /\ Total(ledger') - ledger'[k] + work'[k].ask <= Cap
    <3>1. /\ ledger \in [Hashes -> 0..Cap] /\ ledger' \in [Hashes -> 0..Cap]
          /\ work'[k].ask \in 0..Cap
      BY DEF BudgetInv, IInv, TypeOK
    <3>2. Probe(k) BY <2>2, StepProbes
    <3>3. CASE ledger' = ledger /\ FitsInstead(k, work'[k].ask)
      BY <2>2, <3>2, <3>3 DEF Probe, FitsInstead
    <3>4. CASE /\ work[k].pc = "grow" /\ work'[k].ask = work[k].ask
               /\ \A j \in Hashes \ {k} : ledger'[j] <= ledger[j]
      <4>1. Total(ledger) - ledger[k] + work[k].ask <= Cap
        BY <3>4 DEF BudgetInv, GrowFits, FitsInstead
      <4>2. /\ Total(ledger') - ledger'[k] <= Total(ledger) - ledger[k]
            /\ Total(ledger') - ledger'[k] \in Nat /\ Total(ledger) - ledger[k] \in Nat
        BY <3>1, <3>4, OthersShrink
      <4> QED BY <2>2, <3>1, <3>2, <3>4, <4>1, <4>2, CapAssumption DEF Probe
    <3> QED BY <2>2, <3>2, <3>3, <3>4 DEF Probe
  <2> QED BY <2>1, <2>2 DEF GrowFits, FitsInstead
<1> QED BY <1>1, <1>2, Invariance, PTL DEF Spec, BudgetInv

\* The ledger is only ever raised to a total within the budget: a grant adds
\* what it checked under the lock, and a probe, whose check is an await old,
\* still fits when it lands.  Only a rebuild may exceed the budget.
THEOREM GrowsWithinBudgetHolds == Spec => GrowsWithinBudget
<1>1. BudgetInv /\ BudgetInv' /\ [Next]_vars
        => [\/ Total(ledger') <= Total(ledger)
            \/ Total(ledger') <= Cap
            \/ restarts' # restarts]_vars
  <2> SUFFICES ASSUME BudgetInv, BudgetInv', Next
               PROVE  \/ Total(ledger') <= Total(ledger)
                      \/ Total(ledger') <= Cap
                      \/ restarts' # restarts
    OBVIOUS
  <2>1. ledger \in [Hashes -> 0..Cap] /\ ledger' \in [Hashes -> 0..Cap]
    BY DEF BudgetInv, IInv, TypeOK
  <2>2. Raised BY StepRaises
  <2>3. CASE \A k \in Hashes : ledger'[k] <= ledger[k] BY <2>1, <2>3, TotalShrinks
  <2> QED BY <2>2, <2>3 DEF Raised
<1> QED BY <1>1, ProbesFit, PTL DEF Spec, GrowsWithinBudget

-----------------------------------------------------------------------------
(* Download slots.                                                          *)

LEMMA SlotConstants == IsFiniteSet(Torrents) /\ MaxDl \in Nat \ {0}
BY TorrentsAssumption, MaxDlAssumption

\* Every worker is in _running_infohashes until its done callback.
WorkersRun == \A h \in Torrents : pc[h] # "none" => h \in running

SlotsInv ==
  SlotTypeOK /\ WorkersRun /\ AdmittedIsRecorded /\ AdmissionsFit

\* What the slots count: downloads that came through the gate, and workers
\* past it.
Taken == (Down \ forced) \cup Admitted

-----------------------------------------------------------------------------
(* Slots: types.                                                            *)

LEMMA SlotsInitType == SlotInit => SlotTypeOK
BY DEF SlotInit, SlotTypeOK, Standing, Pc

LEMMA SlotsStepType == SlotTypeOK /\ [SlotNext]_slotVars => SlotTypeOK'
<1> SUFFICES ASSUME SlotTypeOK, [SlotNext]_slotVars PROVE SlotTypeOK'
  OBVIOUS
<1> USE DEF SlotTypeOK, Standing, Pc
<1>1. ASSUME NEW h \in Torrents, Spawn(h) PROVE SlotTypeOK'
  BY <1>1 DEF Spawn
<1>2. ASSUME NEW h \in Torrents, Begin(h) PROVE SlotTypeOK'
  <2>1. Entry[state[h]] \in Pc
    BY DEF Entry
  <2> QED
    BY <1>2, <2>1 DEF Begin
<1>3. ASSUME NEW h \in Torrents, Ended(h) \/ Queue(h) \/ Park(h) \/ Enter(h) \/ Pause(h)
      PROVE SlotTypeOK'
  BY <1>3 DEF Ended, Queue, Park, Enter, Pause, Goes
<1>4. ASSUME NEW h \in Torrents, GateRefuses(h) \/ GateAdmits(h) \/ StayQueued(h)
      PROVE SlotTypeOK'
  BY <1>4 DEF GateRefuses, GateAdmits, StayQueued, Goes, Live
<1>5. ASSUME NEW h \in Torrents, Divert(h) \/ Download(h) \/ Leave(h) PROVE SlotTypeOK'
  BY <1>5 DEF Divert, Download, Leave, Move, Goes
<1>6. ASSUME NEW h \in Torrents, Outside(h) PROVE SlotTypeOK'
  BY <1>6 DEF Outside, Appear, Retry, Forget, Cancel, Recover, Write
<1>7. CASE Reboot
  BY <1>7 DEF Reboot
<1>8. CASE UNCHANGED slotVars
  BY <1>8 DEF slotVars
<1> QED
  BY <1>1, <1>2, <1>3, <1>4, <1>5, <1>6, <1>7, <1>8 DEF SlotNext, Worker

-----------------------------------------------------------------------------
(* Slots: workers and their admissions.                                     *)

LEMMA SlotsStepWorkers ==
  SlotTypeOK /\ WorkersRun /\ AdmittedIsRecorded /\ [SlotNext]_slotVars
    => WorkersRun' /\ AdmittedIsRecorded'
<1> SUFFICES ASSUME SlotTypeOK, WorkersRun, AdmittedIsRecorded, [SlotNext]_slotVars
             PROVE WorkersRun' /\ AdmittedIsRecorded'
  OBVIOUS
<1> USE DEF SlotTypeOK, WorkersRun, AdmittedIsRecorded
<1>1. ASSUME NEW h \in Torrents, Spawn(h) PROVE WorkersRun' /\ AdmittedIsRecorded'
  BY <1>1 DEF Spawn
<1>2. ASSUME NEW h \in Torrents, Begin(h) PROVE WorkersRun' /\ AdmittedIsRecorded'
  <2>1. Entry[state[h]] # "admitted"
    BY DEF Entry, Standing
  <2> QED
    BY <1>2, <2>1 DEF Begin
<1>3. ASSUME NEW h \in Torrents, Ended(h) \/ Queue(h) \/ Park(h) \/ Enter(h) \/ Pause(h)
      PROVE WorkersRun' /\ AdmittedIsRecorded'
  BY <1>3 DEF Ended, Queue, Park, Enter, Pause, Goes
<1>4. ASSUME NEW h \in Torrents, GateRefuses(h) \/ GateAdmits(h) \/ StayQueued(h)
      PROVE WorkersRun' /\ AdmittedIsRecorded'
  BY <1>4 DEF GateRefuses, GateAdmits, StayQueued, Goes, Live
<1>5. ASSUME NEW h \in Torrents, Divert(h) \/ Download(h) \/ Leave(h)
      PROVE WorkersRun' /\ AdmittedIsRecorded'
  BY <1>5 DEF Divert, Download, Leave, Move, Goes
<1>6. ASSUME NEW h \in Torrents, Outside(h) PROVE WorkersRun' /\ AdmittedIsRecorded'
  BY <1>6 DEF Outside, Appear, Retry, Forget, Cancel, Recover, Write
<1>7. CASE Reboot
  BY <1>7 DEF Reboot
<1>8. CASE UNCHANGED slotVars
  BY <1>8 DEF slotVars
<1> QED
  BY <1>1, <1>2, <1>3, <1>4, <1>5, <1>6, <1>7, <1>8 DEF SlotNext, Worker

-----------------------------------------------------------------------------
(* Slots: what is taken fits.                                               *)

\* The slots taken only shrink, except by an admission.
LEMMA TakenShrinks ==
  ASSUME SlotTypeOK, WorkersRun, [SlotNext]_slotVars,
         \A h \in Torrents : ~GateAdmits(h)
  PROVE  Taken' \subseteq Taken
<1> USE DEF SlotTypeOK, WorkersRun, Taken, Down, Admitted
<1>1. ASSUME NEW h \in Torrents, Spawn(h) PROVE Taken' \subseteq Taken
  BY <1>1 DEF Spawn
<1>2. ASSUME NEW h \in Torrents, Begin(h) PROVE Taken' \subseteq Taken
  <2>1. Entry[state[h]] # "admitted"
    BY DEF Entry, Standing
  <2> QED
    BY <1>2, <2>1 DEF Begin
<1>3. ASSUME NEW h \in Torrents, Ended(h) \/ Queue(h) \/ Park(h) \/ Enter(h) \/ Pause(h)
      PROVE Taken' \subseteq Taken
  BY <1>3 DEF Ended, Queue, Park, Enter, Pause, Goes
<1>4. ASSUME NEW h \in Torrents, GateRefuses(h) \/ StayQueued(h)
      PROVE Taken' \subseteq Taken
  BY <1>4 DEF GateRefuses, StayQueued, Goes, Live
<1>5. ASSUME NEW h \in Torrents, Divert(h) \/ Download(h) \/ Leave(h)
      PROVE Taken' \subseteq Taken
  BY <1>5 DEF Divert, Download, Leave, Move, Goes
<1>6. ASSUME NEW h \in Torrents, Outside(h) PROVE Taken' \subseteq Taken
  BY <1>6 DEF Outside, Appear, Retry, Forget, Cancel, Recover, Write
<1>7. CASE Reboot
  BY <1>7 DEF Reboot
<1>8. CASE UNCHANGED slotVars
  BY <1>8 DEF slotVars
<1> QED
  BY <1>1, <1>2, <1>3, <1>4, <1>5, <1>6, <1>7, <1>8 DEF SlotNext, Worker

\* The gate leaves room for the worker it lets through.
LEMMA GateFits ==
  ASSUME SlotTypeOK, AdmittedIsRecorded, NEW h \in Torrents, GateAdmits(h)
  PROVE  Cardinality(Taken') <= MaxDl
<1> DEFINE others == Live \ {h}
           all == (Down \cup others) \cup {h}
<1>1. IsFiniteSet(Down) /\ IsFiniteSet(others) /\ IsFiniteSet(Down \cup others)
  <2>1. Down \subseteq Torrents /\ others \subseteq Torrents
    BY DEF Down, Live, SlotTypeOK
  <2> QED
    BY <2>1, FS_Subset, SlotConstants
<1>2. Cardinality(Down \cup others) <= Cardinality(Down) + Cardinality(others)
  <2>1. Cardinality(Down \cup others)
          = Cardinality(Down) + Cardinality(others) - Cardinality(Down \cap others)
    BY <1>1, FS_Union
  <2>2. IsFiniteSet(Down \cap others)
    BY <1>1, FS_Intersection
  <2> QED
    BY <1>1, <2>1, <2>2, FS_CardinalityType
<1>3. IsFiniteSet(all) /\ Cardinality(all) <= Cardinality(Down \cup others) + 1
  <2> DEFINE both == Down \cup others
  <2>1. IsFiniteSet(both) /\ Cardinality(both) \in Nat
    BY <1>1, FS_CardinalityType
  <2> HIDE DEF both
  <2>2. IsFiniteSet(both \cup {h})
        /\ (Cardinality(both \cup {h}) = Cardinality(both)
              \/ Cardinality(both \cup {h}) = Cardinality(both) + 1)
    BY <2>1, FS_AddElement
  <2> QED
    BY <2>1, <2>2 DEF both
<1>4. Cardinality(Down) + Cardinality(others) < MaxDl
  BY <1>1, FS_CardinalityType, SlotConstants DEF GateAdmits, Full
<1>5. Taken' \subseteq all
  <2>1. Admitted \subseteq Live
    BY DEF Admitted, AdmittedIsRecorded, Live
  <2>2. Admitted' = Admitted \cup {h}
    BY DEF GateAdmits, Goes, Admitted, SlotTypeOK
  <2>3. Down' = Down /\ forced' = forced
    BY DEF GateAdmits, Down
  <2> QED
    BY <2>1, <2>2, <2>3 DEF Taken
<1>6. IsFiniteSet(Taken') /\ Cardinality(Taken') <= Cardinality(all)
  BY <1>3, <1>5, FS_Subset
<1> QED
  <2>1. Cardinality(Down) \in Nat /\ Cardinality(others) \in Nat
        /\ Cardinality(Down \cup others) \in Nat /\ Cardinality(all) \in Nat
        /\ Cardinality(Taken') \in Nat
    BY <1>1, <1>3, <1>6, FS_CardinalityType
  <2> QED
    BY <2>1, <1>2, <1>3, <1>4, <1>6, SlotConstants

LEMMA TakenFinite == ASSUME SlotTypeOK PROVE IsFiniteSet(Taken) /\ Cardinality(Taken) \in Nat
<1>1. Taken \subseteq Torrents
  BY DEF Taken, Down, Admitted
<1> QED
  BY <1>1, FS_Subset, FS_CardinalityType, SlotConstants

LEMMA SlotsStepFits == SlotsInv /\ [SlotNext]_slotVars => AdmissionsFit'
<1> SUFFICES ASSUME SlotsInv, [SlotNext]_slotVars PROVE Cardinality(Taken') <= MaxDl
  BY DEF AdmissionsFit, Taken
<1> USE DEF SlotsInv
<1>1. ASSUME NEW h \in Torrents, GateAdmits(h) PROVE Cardinality(Taken') <= MaxDl
  BY <1>1, GateFits
<1>2. CASE \A h \in Torrents : ~GateAdmits(h)
  <2>1. Taken' \subseteq Taken
    BY <1>2, TakenShrinks
  <2>2. IsFiniteSet(Taken) /\ Cardinality(Taken) \in Nat
    BY TakenFinite
  <2>3. Cardinality(Taken') \in Nat /\ Cardinality(Taken') <= Cardinality(Taken)
    BY <2>1, <2>2, FS_Subset, FS_CardinalityType
  <2>4. Cardinality(Taken) <= MaxDl
    BY DEF AdmissionsFit, Taken
  <2> QED
    BY <2>2, <2>3, <2>4, SlotConstants
<1> QED
  BY <1>1, <1>2

-----------------------------------------------------------------------------
(* Slots: the theorems.                                                     *)

LEMMA SlotsInitInv == SlotInit => SlotsInv
<1> SUFFICES ASSUME SlotInit PROVE SlotsInv
  OBVIOUS
<1>1. SlotTypeOK
  BY SlotsInitType
<1>2. WorkersRun /\ AdmittedIsRecorded
  BY DEF SlotInit, WorkersRun, AdmittedIsRecorded
<1>3. AdmissionsFit
  <2>1. (Down \ forced) \cup Admitted = {}
    BY DEF SlotInit, Down, Admitted
  <2> QED
    BY <2>1, FS_EmptySet, SlotConstants DEF AdmissionsFit
<1> QED
  BY <1>1, <1>2, <1>3 DEF SlotsInv

\* Every reachable state satisfies the inductive invariant.
THEOREM SlotsInvariance == SlotSpec => []SlotsInv
<1>1. SlotsInv /\ [SlotNext]_slotVars => SlotsInv'
  BY SlotsStepType, SlotsStepWorkers, SlotsStepFits DEF SlotsInv
<1> QED
  BY SlotsInitInv, <1>1, PTL DEF SlotSpec

\* Type correctness.
THEOREM SlotsTypeCorrect == SlotSpec => []SlotTypeOK
<1>1. SlotsInv => SlotTypeOK
  BY DEF SlotsInv
<1> QED
  BY SlotsInvariance, <1>1, PTL

\* The gate's bookkeeping never loses a live worker past the gate.
THEOREM AdmittedIsRecordedHolds == SlotSpec => []AdmittedIsRecorded
<1>1. SlotsInv => AdmittedIsRecorded
  BY DEF SlotsInv
<1> QED
  BY SlotsInvariance, <1>1, PTL

\* Downloads and granted admissions together never exceed the cap.
THEOREM AdmissionsFitHolds == SlotSpec => []AdmissionsFit
<1>1. SlotsInv => AdmissionsFit
  BY DEF SlotsInv
<1> QED
  BY SlotsInvariance, <1>1, PTL

\* The rows that came to DOWNLOADING through the gate never exceed the cap.
THEOREM CapRespectedHolds == SlotSpec => []CapRespected
<1>1. SlotsInv => CapRespected
  <2> SUFFICES ASSUME SlotsInv PROVE Cardinality(Down \ forced) <= MaxDl
    BY DEF CapRespected
  <2>1. IsFiniteSet(Taken) /\ Cardinality(Taken) \in Nat
    BY TakenFinite DEF SlotsInv
  <2>2. Cardinality(Down \ forced) \in Nat /\ Cardinality(Down \ forced) <= Cardinality(Taken)
    BY <2>1, FS_Subset, FS_CardinalityType DEF Taken
  <2>3. Cardinality(Taken) <= MaxDl
    BY DEF SlotsInv, AdmissionsFit, Taken
  <2> QED
    BY <2>1, <2>2, <2>3, SlotConstants DEF SlotsInv
<1> QED
  BY SlotsInvariance, <1>1, PTL

-----------------------------------------------------------------------------
(* Moves.                                                                   *)

LEMMA MoveConstants ==
  /\ IsFiniteSet(Rows) /\ Heals \subseteq Rows /\ None \notin Procs
  /\ MaxFaults \in Nat
  /\ Placements \subseteq [tree : [Rows -> Trees], moves : Nat \ {0}]
BY RowsAssumption, FaultsAssumption, PlacementsAssumption

Tree(p) == place.tree[proc[p].row]

\* The rows whose tree the guard protects.
Guarded(r) == place.moves = 1 \/ Alone(r)

\* A process that lives has its row.
RowKnown == \A p \in Procs : Alive(p) => proc[p].row \in Rows

\* Who waits for a process holds the semaphore, and has begun it.
Waiting == {r \in Moving : step[r] # "spawning"}
WaitsInside == \A r \in Rows : child[r] # None => r \in Waiting

\* The semaphore.
FewMoving == Cardinality(Moving) <= place.moves

\* One at a time means one.
OneMoving == place.moves = 1 => \A r, s \in Moving : r = s

MovesRecorded ==
  \A p \in Procs : Alive(p) /\ Guarded(proc[p].row) => active[Tree(p)] = p

Exclusive ==
  \A r \in Moving : \A p \in Procs :
    Guarded(r) /\ Alive(p) /\ Tree(p) = place.tree[r] => child[r] = p

MovesInv ==
  MoveTypeOK /\ RowKnown /\ WaitsInside /\ FewMoving /\ OneMoving /\ MovesRecorded /\ Exclusive

\* No process begins, and those that live stay what they are.
NoneBegins ==
  /\ place' = place
  /\ \A p \in Procs : Alive(p)' => Alive(p) /\ proc'[p].row = proc[p].row

-----------------------------------------------------------------------------
(* Moves: types.                                                            *)

LEMMA MovesInitType == MoveInit => MoveTypeOK
BY MoveConstants DEF MoveInit, MoveTypeOK, Unused

LEMMA DropType ==
  ASSUME MoveTypeOK, NEW r \in Rows, NEW keep, Drop(r, keep)
  PROVE  active' \in [Trees -> Procs \cup {None}]
BY MoveConstants DEF MoveTypeOK, Drop

LEMMA LeavesType ==
  ASSUME MoveTypeOK, NEW r \in Rows, Leaves(r)
  PROVE  /\ child' \in [Rows -> Procs \cup {None}]
         /\ proc' \in [Procs -> [row : Rows \cup {None},
                                 end : {"none", "alive", "ok", "transient", "bad"}]]
<1>1. CASE Alive(child[r]) \/ child[r] = None
  BY <1>1 DEF MoveTypeOK, Leaves
<1>2. CASE ~(Alive(child[r]) \/ child[r] = None)
  BY <1>2 DEF MoveTypeOK, Leaves, Unused
<1> QED
  BY <1>1, <1>2

LEMMA GoesType ==
  ASSUME MoveTypeOK, NEW r \in Rows,
         \/ Parks(r) \/ Fails(r)
         \/ \E s \in {"due", "spawning", "moving", "stopping", "cancelling", "moved", "gone"} :
              Steps(r, s)
  PROVE  step' \in [Rows -> {"due", "spawning", "moving", "stopping", "cancelling",
                             "moved", "failed", "gone", "stranded"}]
BY DEF MoveTypeOK, Parks, Fails, Steps

LEMMA FaultType == MoveTypeOK /\ Fault => faults' \in 0..MaxFaults
BY MoveConstants DEF MoveTypeOK, Fault

LEMMA EndsType ==
  ASSUME MoveTypeOK, NEW p \in Procs, NEW e \in {"ok", "transient", "bad"}, Ends(p, e)
  PROVE  proc' \in [Procs -> [row : Rows \cup {None},
                              end : {"none", "alive", "ok", "transient", "bad"}]]
<1>1. CASE child[proc[p].row] = p
  BY <1>1 DEF MoveTypeOK, Ends
<1>2. CASE child[proc[p].row] # p
  BY <1>2 DEF MoveTypeOK, Ends, Unused
<1> QED
  BY <1>1, <1>2

LEMMA MovesStepType == MoveTypeOK /\ [MoveNext]_moveVars => MoveTypeOK'
<1> SUFFICES ASSUME MoveTypeOK, [MoveNext]_moveVars PROVE MoveTypeOK'
  OBVIOUS
<1> USE DEF MoveTypeOK
<1>1. ASSUME NEW r \in Rows, Refused(r) \/ Proceeds(r) PROVE MoveTypeOK'
  BY <1>1, DropType, GoesType DEF Refused, Proceeds
<1>2. ASSUME NEW r \in Rows, Spawned(r) PROVE MoveTypeOK'
  <2> DEFINE p == CHOOSE q \in Procs : Free(q)
  <2>1. p \in Procs
    BY <1>2 DEF Spawned
  <2>2. /\ proc' = [proc EXCEPT ![p] = [row |-> r, end |-> "alive"]]
        /\ child' = [child EXCEPT ![r] = p]
        /\ active' = [active EXCEPT ![place.tree[r]] = p]
        /\ step' = [step EXCEPT ![r] = "moving"]
        /\ UNCHANGED <<place, ssd, faults>>
    BY <1>2 DEF Spawned, Steps
  <2> HIDE DEF p
  <2>3. [row |-> r, end |-> "alive"] \in
          [row : Rows \cup {None}, end : {"none", "alive", "ok", "transient", "bad"}]
    OBVIOUS
  <2>4. proc' \in [Procs -> [row : Rows \cup {None},
                             end : {"none", "alive", "ok", "transient", "bad"}]]
    BY <2>2, <2>3
  <2>5. child' \in [Rows -> Procs \cup {None}] /\ active' \in [Trees -> Procs \cup {None}]
    BY <2>1, <2>2
  <2>6. step' \in [Rows -> {"due", "spawning", "moving", "stopping", "cancelling",
                            "moved", "failed", "gone", "stranded"}]
    BY <2>2
  <2> QED
    BY <2>2, <2>4, <2>5, <2>6
<1>3. ASSUME NEW r \in Rows, Exited(r) \/ Stopped(r) \/ Cancelled(r) PROVE MoveTypeOK'
  <2>1. Leaves(r) /\ UNCHANGED <<place, ssd, faults>> /\ \E keep \in BOOLEAN : Drop(r, keep)
    BY <1>3 DEF Exited, Stopped, Cancelled
  <2>2. step' \in [Rows -> {"due", "spawning", "moving", "stopping", "cancelling",
                            "moved", "failed", "gone", "stranded"}]
    BY <1>3, GoesType DEF Exited, Stopped, Cancelled
  <2> QED
    BY <2>1, <2>2, DropType, LeavesType
<1>4. ASSUME NEW r \in Rows, SpawnFails(r) PROVE MoveTypeOK'
  BY <1>4, DropType, GoesType, FaultType DEF SpawnFails
<1>5. ASSUME NEW r \in Rows, Interrupted(r) \/ Returns(r) PROVE MoveTypeOK'
  BY <1>5, GoesType, FaultType DEF Interrupted, Returns
<1>6. ASSUME NEW r \in Rows, CancelMove(r) PROVE MoveTypeOK'
  BY <1>6, LeavesType, GoesType, FaultType DEF CancelMove
<1>7. ASSUME NEW p \in Procs, Ships(p) \/ ShipsNothing(p) \/ Dies(p) PROVE MoveTypeOK'
  BY <1>7, EndsType, FaultType DEF Ships, ShipsNothing, Dies
<1>8. CASE UNCHANGED moveVars
  BY <1>8 DEF moveVars
<1> QED
  BY <1>1, <1>2, <1>3, <1>4, <1>5, <1>6, <1>7, <1>8 DEF MoveNext, Mover, Trouble, Runs

-----------------------------------------------------------------------------
(* Moves: the registry.                                                     *)

LEMMA MovesInitInv == MoveInit => MovesInv
<1> SUFFICES ASSUME MoveInit PROVE MovesInv
  OBVIOUS
<1>1. MoveTypeOK
  BY MovesInitType
<1>2. Moving = {} /\ \A p \in Procs : ~Alive(p)
  BY DEF MoveInit, Moving, Alive, Unused
<1>3. place.moves \in Nat \ {0}
  BY <1>1, MoveConstants DEF MoveTypeOK
<1>4. FewMoving
  BY <1>2, <1>3, FS_EmptySet DEF FewMoving
<1>5. WaitsInside
  BY DEF MoveInit, WaitsInside
<1> QED
  BY <1>1, <1>2, <1>4, <1>5 DEF MovesInv, RowKnown, OneMoving, MovesRecorded, Exclusive

\* Where no process begins, and nobody else comes to have a move, only the
\* record can be wrong.
LEMMA Settled ==
  ASSUME MovesInv, NoneBegins, MoveTypeOK',
         \A r \in Moving' : r \in Moving /\ child'[r] = child[r],
         \A r \in Rows : child'[r] # None => child'[r] = child[r] /\ r \in Waiting',
         \A t \in Trees : active'[t] = active[t]
           \/ \A p \in Procs : ~(Alive(p) /\ Guarded(proc[p].row) /\ Tree(p) = t)
  PROVE  MovesInv'
<1> USE DEF NoneBegins
<1>1. RowKnown'
  BY DEF MovesInv, RowKnown
<1>2. WaitsInside'
  BY DEF MovesInv, WaitsInside
<1>3. IsFiniteSet(Moving) /\ Moving' \subseteq Moving
  BY FS_Subset, MoveConstants DEF MovesInv, Moving
<1>4. FewMoving'
  <2>1. Cardinality(Moving') <= Cardinality(Moving) /\ Cardinality(Moving) \in Nat
        /\ IsFiniteSet(Moving')
    BY <1>3, FS_Subset, FS_CardinalityType
  <2>2. Cardinality(Moving') \in Nat
    BY <2>1, FS_CardinalityType
  <2>3. place.moves \in Nat
    BY MoveConstants DEF MovesInv, MoveTypeOK
  <2> QED
    BY <2>1, <2>2, <2>3 DEF MovesInv, FewMoving
<1>5. OneMoving'
  BY <1>3 DEF MovesInv, OneMoving
<1>6. \A r : Guarded(r)' <=> Guarded(r)
  BY DEF Guarded, Alone
<1>7. MovesRecorded'
  <2> SUFFICES ASSUME NEW p \in Procs, Alive(p)', Guarded(proc[p].row)' PROVE (active[Tree(p)] = p)'
    BY DEF MovesRecorded
  <2>1. Alive(p) /\ Guarded(proc[p].row) /\ Tree(p)' = Tree(p)
    BY <1>6 DEF Tree
  <2>2. proc[p].row \in Rows /\ Tree(p) \in Trees
    BY <2>1, MoveConstants DEF MovesInv, RowKnown, MoveTypeOK, Tree
  <2>3. active'[Tree(p)] = active[Tree(p)]
    BY <2>1, <2>2
  <2> QED
    BY <2>1, <2>3 DEF MovesInv, MovesRecorded
<1>8. Exclusive'
  <2> SUFFICES ASSUME NEW r \in Moving', NEW p \in Procs, Guarded(r)', Alive(p)',
                      (Tree(p) = place.tree[r])'
               PROVE  child'[r] = p
    BY DEF Exclusive
  <2>1. r \in Moving /\ child'[r] = child[r]
    OBVIOUS
  <2>2. Guarded(r) /\ Alive(p) /\ Tree(p) = place.tree[r]
    BY <1>6 DEF Tree
  <2> QED
    BY <2>1, <2>2 DEF MovesInv, Exclusive
<1> QED
  BY <1>1, <1>2, <1>4, <1>5, <1>7, <1>8 DEF MovesInv

\* Letting go of a process, and one that ends, begin none.
LEMMA LeavesNone ==
  ASSUME MoveTypeOK, NEW r \in Rows, Leaves(r), place' = place
  PROVE  NoneBegins
<1>1. CASE Alive(child[r]) \/ child[r] = None
  BY <1>1 DEF Leaves, NoneBegins, Alive
<1>2. CASE ~(Alive(child[r]) \/ child[r] = None)
  BY <1>2 DEF MoveTypeOK, Leaves, NoneBegins, Alive, Unused
<1> QED
  BY <1>1, <1>2

LEMMA EndsNone ==
  ASSUME MoveTypeOK, NEW p \in Procs, NEW e \in {"ok", "transient", "bad"}, Ends(p, e), place' = place
  PROVE  NoneBegins
<1>1. CASE child[proc[p].row] = p
  BY <1>1 DEF MoveTypeOK, Ends, NoneBegins, Alive
<1>2. CASE child[proc[p].row] # p
  BY <1>2 DEF MoveTypeOK, Ends, NoneBegins, Alive, Unused
<1> QED
  BY <1>1, <1>2

\* A worker at its move, whose process has ended, clears nobody's record.
LEMMA NobodysRecord ==
  ASSUME MovesInv, NEW r \in Moving, ~Alive(child[r])
  PROVE  \A p \in Procs :
           ~(Alive(p) /\ Guarded(proc[p].row) /\ Tree(p) = place.tree[r])
<1> SUFFICES ASSUME NEW p \in Procs, Alive(p), Guarded(proc[p].row), Tree(p) = place.tree[r]
             PROVE  FALSE
  OBVIOUS
<1>1. proc[p].row \in Rows /\ r \in Rows
  BY DEF MovesInv, RowKnown, Moving
<1>2. Guarded(r)
  BY <1>1 DEF Guarded, Alone, Tree
<1>3. child[r] = p
  BY <1>2 DEF MovesInv, Exclusive
<1> QED
  BY <1>3

\* Leaving one's move, with or without clearing the record.
LEMMA StepOut ==
  ASSUME MovesInv, MoveTypeOK', NEW r \in Rows, NEW x,
         x \notin {"spawning", "moving", "stopping", "cancelling"},
         Steps(r, x), Leaves(r), place' = place,
         \/ active' = active
         \/ /\ r \in Moving /\ ~Alive(child[r])
            /\ active' = [active EXCEPT ![place.tree[r]] = None]
  PROVE  MovesInv'
<1> USE DEF MovesInv
<1>1. NoneBegins
  BY LeavesNone
<1>2. \A s \in Moving' : s \in Moving /\ s # r /\ child'[s] = child[s]
  BY DEF MoveTypeOK, Moving, Steps, Leaves
<1>3. \A s \in Rows : child'[s] # None => child'[s] = child[s] /\ s \in Waiting'
  BY DEF MoveTypeOK, WaitsInside, Waiting, Moving, Steps, Leaves
<1>4. \A t \in Trees : active'[t] = active[t]
        \/ \A p \in Procs : ~(Alive(p) /\ Guarded(proc[p].row) /\ Tree(p) = t)
  <2>1. CASE active' = active
    BY <2>1
  <2>2. CASE /\ r \in Moving /\ ~Alive(child[r])
             /\ active' = [active EXCEPT ![place.tree[r]] = None]
    <3>1. \A p \in Procs : ~(Alive(p) /\ Guarded(proc[p].row) /\ Tree(p) = place.tree[r])
      BY <2>2, NobodysRecord
    <3> QED
      BY <2>2, <3>1 DEF MoveTypeOK
  <2> QED
    BY <2>1, <2>2
<1> QED
  BY <1>1, <1>2, <1>3, <1>4, Settled

\* Where the workers and the record stay.
LEMMA StepStay ==
  ASSUME MovesInv, MoveTypeOK', NoneBegins, UNCHANGED <<child, active>>,
         Moving' \subseteq Moving, \A r \in Rows : child[r] # None => r \in Waiting'
  PROVE  MovesInv'
BY Settled

LEMMA StepEnds ==
  ASSUME MovesInv, MoveTypeOK', NEW r \in Rows, Exited(r) \/ Stopped(r) \/ Cancelled(r)
  PROVE  MovesInv'
<1>1. r \in Moving /\ Leaves(r) /\ place' = place
  BY DEF Exited, Stopped, Cancelled, Moving
<1>2. \E x : x \notin {"spawning", "moving", "stopping", "cancelling"} /\ Steps(r, x)
  BY DEF Exited, Stopped, Cancelled, Parks, Fails, Steps
<1>3. \/ active' = active
      \/ ~Alive(child[r]) /\ active' = [active EXCEPT ![place.tree[r]] = None]
  BY DEF Exited, Stopped, Cancelled, Drop, Mine, Alive
<1> QED
  BY <1>1, <1>2, <1>3, StepOut

LEMMA StepBegin ==
  ASSUME MovesInv, MoveTypeOK', NEW r \in Rows, Proceeds(r)
  PROVE  MovesInv'
<1> USE DEF MovesInv
<1>1. /\ place' = place /\ child' = child /\ proc' = proc
      /\ active' = [active EXCEPT ![place.tree[r]] = None]
      /\ step' = [step EXCEPT ![r] = "spawning"]
      /\ step[r] = "due" /\ Cardinality(Moving) < place.moves
      /\ Holder(place.tree[r]) = None
  BY DEF Proceeds, Due, Steps, Drop
<1>2. \A q \in Rows : Guarded(q)' <=> Guarded(q)
  BY <1>1 DEF Guarded, Alone
<1>3. \A q \in Procs : (Alive(q)' <=> Alive(q)) /\ Tree(q)' = Tree(q)
  BY <1>1 DEF Alive, Tree
<1>4. \A p \in Procs : ~(Alive(p) /\ Guarded(proc[p].row) /\ Tree(p) = place.tree[r])
  BY <1>1 DEF Holder, MovesRecorded, Alive
<1>5. r \notin Moving /\ Moving' = Moving \cup {r} /\ IsFiniteSet(Moving)
  BY <1>1, FS_Subset, MoveConstants DEF MoveTypeOK, Moving
<1>6. place.moves \in Nat \ {0} /\ Cardinality(Moving) \in Nat
  BY <1>5, FS_CardinalityType, MoveConstants DEF MoveTypeOK
<1>7. FewMoving'
  <2>1. Cardinality(Moving') = Cardinality(Moving) + 1
    BY <1>5, FS_AddElement
  <2> QED
    BY <1>1, <1>6, <2>1 DEF FewMoving
<1>8. OneMoving'
  <2>1. ASSUME place.moves = 1 PROVE Moving = {}
    BY <1>1, <1>5, <1>6, <2>1, FS_EmptySet
  <2> QED
    BY <1>1, <1>5, <2>1 DEF OneMoving
<1>9. MovesRecorded'
  BY <1>1, <1>2, <1>3, <1>4 DEF MovesRecorded, MoveTypeOK, RowKnown
<1>10. Exclusive'
  <2> SUFFICES ASSUME NEW s \in Moving', NEW p \in Procs,
                      Guarded(s), Alive(p), Tree(p) = place.tree[s]
               PROVE  child[s] = p
    BY <1>1, <1>2, <1>3 DEF Exclusive, Moving
  <2>1. CASE s = r
    BY <1>4, <2>1 DEF Guarded, Alone, Tree, RowKnown
  <2>2. CASE s # r
    BY <1>5, <2>2 DEF Exclusive
  <2> QED
    BY <2>1, <2>2
<1>11. RowKnown' /\ WaitsInside'
  BY <1>1, <1>3, <1>5 DEF RowKnown, WaitsInside, Waiting, MoveTypeOK
<1> QED
  BY <1>7, <1>8, <1>9, <1>10, <1>11

LEMMA StepSpawned ==
  ASSUME MovesInv, MoveTypeOK', NEW r \in Rows, Spawned(r)
  PROVE  MovesInv'
<1> USE DEF MovesInv
<1>1. PICK p \in Procs :
        /\ Free(p)
        /\ proc' = [proc EXCEPT ![p] = [row |-> r, end |-> "alive"]]
        /\ child' = [child EXCEPT ![r] = p]
        /\ active' = [active EXCEPT ![place.tree[r]] = p]
  BY DEF Spawned
<1>2. /\ proc' = [proc EXCEPT ![p] = [row |-> r, end |-> "alive"]]
      /\ child' = [child EXCEPT ![r] = p]
      /\ active' = [active EXCEPT ![place.tree[r]] = p]
      /\ step' = [step EXCEPT ![r] = "moving"]
      /\ place' = place /\ step[r] = "spawning"
  BY <1>1 DEF Spawned, Steps
<1>3. \A q \in Rows : Guarded(q)' <=> Guarded(q)
  BY <1>2 DEF Guarded, Alone
<1>4. ~Alive(p) /\ p # None
  BY <1>1, MoveConstants DEF Free
<1>5. \A q \in Procs : q # p => (Alive(q)' <=> Alive(q)) /\ Tree(q)' = Tree(q)
                               /\ proc'[q] = proc[q]
  BY <1>2 DEF Alive, Tree, MoveTypeOK
<1>6. proc'[p].row = r /\ Tree(p)' = place.tree[r]
  BY <1>2 DEF Tree, MoveTypeOK
<1>7. r \in Moving /\ \A s \in Rows : s \in Moving' <=> s \in Moving
  BY <1>2 DEF Moving, MoveTypeOK
<1>8. child[r] = None
  BY <1>2 DEF WaitsInside, Waiting
<1>9. Moving' = Moving
  BY <1>7 DEF Moving
<1>10. RowKnown' /\ FewMoving' /\ OneMoving'
  BY <1>2, <1>5, <1>6, <1>9 DEF RowKnown, FewMoving, OneMoving
<1>11. WaitsInside'
  BY <1>2, <1>7 DEF WaitsInside, Waiting, MoveTypeOK, Moving
<1>12. MovesRecorded'
  <2> SUFFICES ASSUME NEW q \in Procs, Alive(q)', Guarded(proc[q].row)'
               PROVE  active'[Tree(q)'] = q
    BY DEF MovesRecorded
  <2>1. CASE q = p
    BY <1>2, <1>6, <2>1, MoveConstants DEF MoveTypeOK
  <2>2. CASE q # p
    <3>1. Alive(q) /\ Guarded(proc[q].row) /\ Tree(q)' = Tree(q) /\ active[Tree(q)] = q
      BY <1>3, <1>5, <2>2 DEF MovesRecorded, RowKnown
    <3>2. CASE Tree(q) = place.tree[r]
      <4>1. Guarded(r)
        BY <3>1, <3>2 DEF Guarded, Alone, Tree, RowKnown
      <4> QED
        BY <1>7, <1>8, <3>1, <3>2, <4>1 DEF Exclusive, Alive
    <3>3. CASE Tree(q) # place.tree[r]
      BY <1>2, <3>1, <3>3 DEF MoveTypeOK
    <3> QED
      BY <3>2, <3>3
  <2> QED
    BY <2>1, <2>2
<1>13. Exclusive'
  <2> SUFFICES ASSUME NEW s \in Moving, NEW q \in Procs,
                      Guarded(s), Alive(q)', Tree(q)' = place.tree[s]
               PROVE  child'[s] = q
    BY <1>2, <1>3, <1>9 DEF Exclusive, Moving
  <2>1. CASE q = p /\ s # r
    BY <1>6, <1>7, <2>1 DEF Guarded, Alone, OneMoving, Moving
  <2>2. CASE q = p /\ s = r
    BY <1>2, <2>2 DEF MoveTypeOK
  <2>3. CASE q # p /\ s # r
    BY <1>2, <1>5, <2>3 DEF Exclusive, MoveTypeOK, Moving
  <2>4. CASE q # p /\ s = r
    BY <1>5, <1>7, <1>8, <2>4 DEF Exclusive, Alive
  <2> QED
    BY <2>1, <2>2, <2>3, <2>4
<1> QED
  BY <1>10, <1>11, <1>12, <1>13

\* A start that fails leaves neither a process nor a record.
LEMMA StepSpawnFails ==
  ASSUME MovesInv, MoveTypeOK', NEW r \in Rows, SpawnFails(r)
  PROVE  MovesInv'
<1> USE DEF MovesInv
<1>1. r \in Moving /\ child[r] = None
  BY DEF SpawnFails, Moving, WaitsInside, Waiting
<1>2. PICK x : x \notin {"spawning", "moving", "stopping", "cancelling"} /\ Steps(r, x)
  BY DEF SpawnFails, Parks, Fails, Steps
<1>3. /\ place' = place /\ child' = child /\ proc' = proc
      /\ active' = [active EXCEPT ![place.tree[r]] = None]
  BY DEF SpawnFails, Drop
<1>4. Leaves(r)
  BY <1>1, <1>3 DEF Leaves, MoveTypeOK
<1> QED
  BY <1>1, <1>2, <1>3, <1>4, StepOut DEF Alive

LEMMA StepCancel ==
  ASSUME MovesInv, MoveTypeOK', NEW r \in Rows, CancelMove(r)
  PROVE  MovesInv'
<1> USE DEF MovesInv
<1>1. CASE step[r] = "moving"
  <2>1. /\ Steps(r, "cancelling") /\ UNCHANGED <<place, child, proc, active>>
    BY <1>1 DEF CancelMove
  <2>2. NoneBegins
    BY <2>1 DEF NoneBegins, Alive
  <2>3. Moving' \subseteq Moving /\ \A s \in Rows : child[s] # None => s \in Waiting'
    BY <1>1, <2>1 DEF MoveTypeOK, Steps, Moving, Waiting, WaitsInside
  <2> QED
    BY <2>1, <2>2, <2>3, StepStay
<1>2. CASE step[r] # "moving"
  <2>1. Steps(r, "gone") /\ Leaves(r) /\ UNCHANGED <<place, active>>
    BY <1>2 DEF CancelMove
  <2> QED
    BY <2>1, StepOut
<1> QED
  BY <1>1, <1>2

\* The worker's own steps that begin and end nothing.
LEMMA StepWaits ==
  ASSUME MovesInv, MoveTypeOK', NEW r \in Rows, Refused(r) \/ Interrupted(r) \/ Returns(r)
  PROVE  MovesInv'
<1> USE DEF MovesInv
<1>1. UNCHANGED <<place, child, proc, active>>
  BY DEF Refused, Interrupted, Returns
<1>2. NoneBegins
  BY <1>1 DEF NoneBegins, Alive
<1>3. Moving' \subseteq Moving /\ \A s \in Rows : child[s] # None => s \in Waiting'
  <2>1. CASE Interrupted(r)
    BY <2>1 DEF MoveTypeOK, Interrupted, Steps, Moving, Waiting, WaitsInside
  <2>2. CASE Refused(r) \/ Returns(r)
    <3>1. \E x \in {"due", "stranded"} : step' = [step EXCEPT ![r] = x]
      BY <2>2 DEF Refused, Returns, Parks, Steps
    <3>2. r \notin Moving
      BY <2>2 DEF Refused, Returns, Due, Moving
    <3> QED
      BY <3>1, <3>2 DEF MoveTypeOK, Moving, Waiting, WaitsInside
  <2> QED
    BY <2>1, <2>2
<1> QED
  BY <1>1, <1>2, <1>3, StepStay

LEMMA StepRuns ==
  ASSUME MovesInv, MoveTypeOK', NEW p \in Procs, Runs(p)
  PROVE  MovesInv'
<1> USE DEF MovesInv
<1>1. UNCHANGED <<place, step, child, active>>
  BY DEF Runs, Ships, ShipsNothing, Dies
<1>2. \E e \in {"ok", "transient", "bad"} : Ends(p, e)
  BY DEF Runs, Ships, ShipsNothing, Dies
<1>3. NoneBegins
  BY <1>1, <1>2, EndsNone
<1>4. Moving' \subseteq Moving /\ \A s \in Rows : child[s] # None => s \in Waiting'
  BY <1>1 DEF Moving, Waiting, WaitsInside
<1> QED
  BY <1>1, <1>3, <1>4, StepStay

LEMMA MovesStepInv == MovesInv /\ [MoveNext]_moveVars => MovesInv'
<1> SUFFICES ASSUME MovesInv, [MoveNext]_moveVars PROVE MovesInv'
  OBVIOUS
<1>1. MoveTypeOK'
  BY MovesStepType DEF MovesInv
<1>2. ASSUME NEW r \in Rows, Mover(r) PROVE MovesInv'
  BY <1>1, <1>2, StepWaits, StepBegin, StepSpawned, StepEnds DEF Mover
<1>3. ASSUME NEW r \in Rows, Trouble(r) PROVE MovesInv'
  BY <1>1, <1>3, StepSpawnFails, StepWaits, StepCancel DEF Trouble
<1>4. ASSUME NEW p \in Procs, Runs(p) PROVE MovesInv'
  BY <1>1, <1>4, StepRuns
<1>5. CASE UNCHANGED moveVars
  BY <1>5 DEF moveVars, MovesInv, MoveTypeOK, RowKnown, WaitsInside, Waiting, FewMoving, OneMoving, Moving,
              MovesRecorded, Exclusive, Alive, Guarded, Alone, Tree
<1> QED
  BY <1>2, <1>3, <1>4, <1>5 DEF MoveNext

LEMMA MovesInvHolds == MoveSpec => []MovesInv
BY MovesInitInv, MovesStepInv, PTL DEF MoveSpec

-----------------------------------------------------------------------------
(* Moves: the theorems.                                                     *)

\* Types hold: workers, processes and the registry keep to their ranges
\* whatever fails, is cancelled or comes back.
THEOREM MovesTypeCorrect == MoveSpec => []MoveTypeOK
<1>1. MovesInv => MoveTypeOK
  BY DEF MovesInv
<1> QED
  BY <1>1, MovesInvHolds, PTL

\* The guard of run_rclone: where moves go one at a time, or a tree has one
\* row, no process runs in a tree in which another may still be deleting, be
\* it one that no signal could stop.
THEOREM OneMoverHolds == MoveSpec => []OneMover
<1>1. MovesInv => OneMover
  <2> SUFFICES ASSUME MovesInv PROVE OneMover
    OBVIOUS
  <2>1. place.moves \in Nat \ {0}
    BY MoveConstants DEF MovesInv, MoveTypeOK
  <2>2. \A p, q \in Procs : Beside(p, q) => ~Guarded(proc[p].row)
    <3> SUFFICES ASSUME NEW p \in Procs, NEW q \in Procs, Beside(p, q), Guarded(proc[p].row)
                 PROVE  FALSE
      OBVIOUS
    <3>1. Alive(p) /\ Alive(q) /\ p # q /\ Tree(p) = Tree(q)
      BY DEF Beside, Tree
    <3>2. Guarded(proc[q].row)
      BY <3>1 DEF MovesInv, RowKnown, Guarded, Alone, Tree
    <3> QED
      BY <3>1, <3>2 DEF MovesInv, MovesRecorded
  <2>3. ~(place.moves = 1) => place.moves > 1
    BY <2>1
  <2> QED
    BY <2>2, <2>3 DEF OneMover, Guarded
<1> QED
  BY <1>1, MovesInvHolds, PTL

\* max_concurrent_moves: the semaphore bounds the processes that are waited
\* for, those that are being stopped or cancelled among them.
THEOREM MovesFitHolds == MoveSpec => []MovesFit
<1>1. MovesInv => MovesFit
  <2> SUFFICES ASSUME MovesInv PROVE MovesFit
    OBVIOUS
  <2> DEFINE Begun == {r \in Rows : child[r] # None}
  <2>1. Begun \subseteq Moving
    BY DEF MovesInv, WaitsInside, Waiting
  <2>2. IsFiniteSet(Moving)
    BY FS_Subset, MoveConstants DEF MovesInv, Moving
  <2>3. IsFiniteSet(Begun) /\ Cardinality(Begun) <= Cardinality(Moving)
    BY <2>1, <2>2, FS_Subset
  <2>4. Cardinality(Begun) \in Nat /\ Cardinality(Moving) \in Nat /\ place.moves \in Nat
    BY <2>2, <2>3, FS_CardinalityType, MoveConstants DEF MovesInv, MoveTypeOK
  <2> HIDE DEF Begun
  <2>5. Cardinality(Begun) <= place.moves
    BY <2>3, <2>4 DEF MovesInv, FewMoving
  <2> QED
    BY <2>5 DEF MovesFit, Begun
<1> QED
  BY <1>1, MovesInvHolds, PTL
=============================================================================
