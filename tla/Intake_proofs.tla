---------------------------- MODULE Intake_proofs ----------------------------
(***************************************************************************)
(* The rules of intake hold for any number of copies of a release, of any   *)
(* rank, and any number of commands.                                        *)
(*                                                                          *)
(* None of them looks at more than what a worker found when it began, so    *)
(* the invariant says what is still true of that when it admits: nobody was *)
(* before it (NobodyBefore), it may go within the grace (Granted), and a    *)
(* row put under a hold since has a worker that will be refused (Frozen).   *)
(***************************************************************************)
EXTENDS Intake, FiniteSetTheorems, WellFoundedInduction, TLAPS

Unborn == \A h \in Drops : row[h] = "none" => born[h] = 0

YoungUnranked == \A h \in young : Rank[h] = 2

OneRow == \A r, s \in Racing : Present(r) /\ Present(s) => r = s

\* Whose row a worker may be at.  A row that went away took the right to write
\* with it.
WorkersAt ==
  \A h \in Hash : run[h].at # "idle" =>
    \/ row[h] \in {"NEW", "WAITING_INDEXER", "WAITING_DISK"}
    \/ row[h] = "gone" /\ ~run[h].fresh

Frozen == \A h \in skipped : run[h].at # "idle" => ~run[h].fresh

NobodyBefore == \A h \in Hash : run[h].behind = {}

GrantedTo(h) ==
  row[h] = "NEW" /\ InGrace(h) =>
    /\ run[h].at = "tail" => run[h].free
    /\ run[h].at = "search" /\ run[h].force => run[h].free
    /\ run[h].at = "search" /\ h \in Drops => run[h].cand \/ run[h].free

Granted == \A h \in Hash : GrantedTo(h)

IInv ==
  /\ TypeOK /\ Unborn /\ YoungUnranked /\ OneRow
  /\ WorkersAt /\ Frozen /\ NobodyBefore /\ Granted

-----------------------------------------------------------------------------
(* What the parts of an action do to the types.                             *)

LEMMA IdleType == Idle \in Run
BY DEF Idle, Run

LEMMA InitInv == Init => IInv
<1> SUFFICES ASSUME Init PROVE IInv
  OBVIOUS
<1>1. Cardinality(Drops) \in Nat
  BY HashAssumption, FS_Subset, FS_CardinalityType DEF Hash
<1>2. TypeOK
  BY <1>1, IdleType, MaxOpsAssumption DEF Init, TypeOK, RowState
<1>3. Unborn /\ YoungUnranked /\ OneRow
  BY DEF Init, Unborn, YoungUnranked, OneRow, Present, Hash
<1>4. WorkersAt /\ Frozen /\ NobodyBefore /\ Granted
  BY DEF Init, WorkersAt, Frozen, NobodyBefore, Granted, GrantedTo, InGrace, Idle
<1> QED
  BY <1>2, <1>3, <1>4 DEF IInv

\* A drop that is given a row has its place in the order.
LEMMA CreateBorn ==
  ASSUME TypeOK, Unborn, NEW h \in Drops, row[h] = "none", Create(h)
  PROVE  born' \in [Drops -> 0..Cardinality(Drops)]
<1> DEFINE Before0 == {g \in Drops : born[g] # 0}
<1>1. IsFiniteSet(Drops)
  BY HashAssumption, FS_Subset DEF Hash
<1>2. h \notin Before0 /\ Before0 \subseteq Drops
  BY DEF Unborn
<1>3. IsFiniteSet(Before0)
  BY <1>1, <1>2, FS_Subset
<1>4. Cardinality(Before0 \cup {h}) = Cardinality(Before0) + 1
  BY <1>2, <1>3, FS_AddElement
<1>5. Cardinality(Before0 \cup {h}) <= Cardinality(Drops)
  BY <1>1, <1>2, FS_Subset
<1>6. Cardinality(Before0) \in Nat /\ Cardinality(Drops) \in Nat
  BY <1>1, <1>3, FS_CardinalityType
<1>7. born' = [born EXCEPT ![h] = 1 + Cardinality(Before0)]
  BY DEF Create
<1> HIDE DEF Before0
<1>8. 1 + Cardinality(Before0) \in 0..Cardinality(Drops)
  BY <1>4, <1>5, <1>6
<1> QED
  BY <1>7, <1>8 DEF TypeOK

LEMMA StalesType ==
  ASSUME TypeOK, NEW h \in Hash, Stales(h)
  PROVE  /\ run' \in [Hash -> Run]
         /\ \A g \in Hash : /\ g # h => run'[g] = run[g]
                            /\ run'[g].at = run[g].at /\ run'[g].cand = run[g].cand
                            /\ run'[g].force = run[g].force /\ run'[g].free = run[g].free
                            /\ run'[g].behind = run[g].behind
         /\ run[h].at # "idle" => ~run'[h].fresh
<1>1. run[h] \in Run
  BY DEF TypeOK
<1>2. run' = [run EXCEPT ![h] = [run[h] EXCEPT !.fresh = (run[h].fresh /\ run[h].at = "idle")]]
  BY DEF Stales, TypeOK
<1>3. (run[h].fresh /\ run[h].at = "idle") \in BOOLEAN
  OBVIOUS
<1>4. [run[h] EXCEPT !.fresh = (run[h].fresh /\ run[h].at = "idle")] \in Run
  BY <1>1, <1>3 DEF Run
<1> QED
  BY <1>1, <1>2, <1>4 DEF TypeOK, Run

LEMMA BeginsType ==
  ASSUME TypeOK, NEW h \in Hash, NEW where \in {"search", "tail"}, NEW cand \in BOOLEAN,
         NEW free \in BOOLEAN, NEW behind, Begins(h, where, cand, free, behind)
  PROVE  /\ (\A g \in behind \ {h} : ~Past(g)) => run' \in [Hash -> Run] /\ run'[h].behind = {}
         /\ \A g \in Hash : g # h => run'[g] = run[g]
         /\ run'[h].at = where /\ run'[h].cand = cand /\ run'[h].free = free
         /\ run'[h].force = (h \in forced)
<1> DEFINE new == [at |-> where, cand |-> cand, force |-> h \in forced, fresh |-> TRUE,
                   free |-> free, behind |-> {g \in behind \ {h} : Past(g)}]
<1>1. run' = [run EXCEPT ![h] = new]
  BY DEF Begins
<1>2. (h \in forced) \in BOOLEAN
  OBVIOUS
<1>3. ASSUME \A g \in behind \ {h} : ~Past(g) PROVE new \in Run /\ new.behind = {}
  <2>1. {g \in behind \ {h} : Past(g)} = {}
    BY <1>3
  <2> QED
    BY <1>2, <2>1 DEF Run
<1>4. /\ run'[h] = new
      /\ \A g \in Hash : g # h => run'[g] = run[g]
  BY <1>1 DEF TypeOK
<1>5. new.at = where /\ new.cand = cand /\ new.free = free /\ new.force = (h \in forced)
  OBVIOUS
<1> HIDE DEF new
<1> QED
  BY <1>1, <1>3, <1>4, <1>5 DEF TypeOK

\* A worker that ends, and a move that is refused or not.
LEMMA GivesUpType ==
  ASSUME TypeOK, NEW h \in Hash, GivesUp(h)
  PROVE  /\ run' \in [Hash -> Run] /\ run'[h] = Idle
         /\ \A g \in Hash : g # h => run'[g] = run[g]
BY IdleType DEF TypeOK, GivesUp

LEMMA MovesType ==
  ASSUME TypeOK, NEW h \in Hash, NEW dst \in {"FAILED", "WAITING_INDEXER", "QUEUED", "WAITING_DISK"},
         Moves(h, dst)
  PROVE  /\ run' \in [Hash -> Run] /\ run'[h] = Idle
         /\ \A g \in Hash : g # h => run'[g] = run[g]
         /\ row' \in [Hash -> RowState]
         /\ row'[h] # row[h] => row'[h] = dst /\ run[h].fresh
         /\ \A g \in Hash : g # h => row'[g] = row[g]
         /\ UNCHANGED <<born, young, skipped, forced>>
<1>1. GivesUp(h) /\ UNCHANGED <<born, young, skipped, forced>>
  BY DEF Moves
<1>2. CASE run[h].fresh /\ LegalMove(row[h], dst)
  <2>1. row' = [row EXCEPT ![h] = dst]
    BY <1>2 DEF Moves
  <2>2. dst \in RowState
    BY DEF RowState, Waiter, Locked
  <2> QED
    BY <1>1, <1>2, <2>1, <2>2, GivesUpType DEF TypeOK
<1>3. CASE ~(run[h].fresh /\ LegalMove(row[h], dst))
  <2>1. row' = row
    BY <1>3 DEF Moves
  <2> QED
    BY <1>1, <2>1, GivesUpType DEF TypeOK
<1> QED
  BY <1>2, <1>3

-----------------------------------------------------------------------------
(* The invariant is kept.  First by steps that write no row's state.        *)

LEMMA StepFiles ==
  ASSUME IInv, NEW h \in Hash,
         \/ h \in Drops /\ Drop(h)
         \/ h \in Racing /\ Race(h)
         \/ GraceEnds(h) \/ Prefer(h)
  PROVE  IInv'
<1> USE DEF IInv
<1>1. UNCHANGED <<row, born, skipped, forced, run>> /\ young' \subseteq young
  BY DEF Drop, Race, GraceEnds, Prefer, rowVars
<1>2. TypeOK'
  <2>1. CASE h \in Drops /\ Drop(h)
    BY <2>1, MaxOpsAssumption DEF TypeOK, Drop, Operates, rowVars
  <2>2. CASE h \in Racing /\ Race(h)
    BY <2>2 DEF TypeOK, Race, rowVars, fileVars
  <2>3. CASE GraceEnds(h)
    BY <2>3 DEF TypeOK, GraceEnds, fileVars
  <2>4. CASE Prefer(h)
    BY <2>4, MaxOpsAssumption DEF TypeOK, Prefer, Operates, rowVars, fileVars
  <2> QED
    BY <2>1, <2>2, <2>3, <2>4
<1> QED
  BY <1>1, <1>2 DEF Unborn, YoungUnranked, OneRow, Present, WorkersAt, Frozen, NobodyBefore,
                    Granted, GrantedTo, InGrace

\* What the operator or the scan writes beside a worker.
LEMMA StepStales ==
  ASSUME IInv, TypeOK', NEW h \in Hash, Stales(h),
         UNCHANGED <<born, young>>, \A g \in Hash : g # h => row'[g] = row[g],
         row'[h] \in {row[h], "gone"} \/ (row[h] = "FAILED" /\ row'[h] = "NEW"),
         row[h] # "none", row'[h] = "gone" \/ Present(h),
         skipped' \subseteq skipped \cup {h}
  PROVE  IInv'
<1> USE DEF IInv
<1>1. /\ \A g \in Hash : /\ g # h => run'[g] = run[g]
                         /\ run'[g].at = run[g].at /\ run'[g].cand = run[g].cand
                         /\ run'[g].force = run[g].force /\ run'[g].free = run[g].free
                         /\ run'[g].behind = run[g].behind
      /\ run[h].at # "idle" => ~run'[h].fresh
  BY StalesType
<1>2. Unborn' /\ YoungUnranked' /\ OneRow'
  BY DEF Unborn, YoungUnranked, OneRow, Present, Hash
<1>3. WorkersAt'
  BY <1>1 DEF WorkersAt
<1>4. Frozen'
  <2> SUFFICES ASSUME NEW g \in skipped', run'[g].at # "idle" PROVE ~run'[g].fresh
    BY DEF Frozen
  <2>1. g \in Hash
    BY DEF TypeOK
  <2> QED
    BY <1>1, <2>1 DEF Frozen
<1>5. NobodyBefore'
  BY <1>1 DEF NobodyBefore
<1>6. Granted'
  BY <1>1 DEF Granted, GrantedTo, InGrace, WorkersAt
<1> QED
  BY <1>2, <1>3, <1>4, <1>5, <1>6

LEMMA StepCommand ==
  ASSUME IInv, NEW h \in Hash, Fetch(h) \/ Hold(h) \/ Cancel(h)
  PROVE  IInv'
<1> USE DEF IInv
<1>1. Stales(h) /\ Operates /\ UNCHANGED <<born, exempt, fileVars, listed>>
  BY DEF Fetch, Hold, Cancel
<1>2. TypeOK'
  <2>1. run' \in [Hash -> Run] /\ ops' \in 0..MaxOps
    BY <1>1, StalesType, MaxOpsAssumption DEF TypeOK, Operates
  <2>2. CASE Fetch(h)
    BY <1>1, <2>1, <2>2 DEF TypeOK, Fetch, fileVars
  <2>3. CASE Hold(h)
    BY <1>1, <2>1, <2>3 DEF TypeOK, Hold, fileVars
  <2>4. CASE Cancel(h)
    BY <1>1, <2>1, <2>4 DEF TypeOK, Cancel, fileVars, RowState
  <2> QED
    BY <2>2, <2>3, <2>4
<1>3. CASE Fetch(h) \/ Hold(h)
  BY <1>1, <1>2, <1>3, StepStales DEF Fetch, Hold, Present
<1>4. CASE Cancel(h)
  <2>1. row' = [row EXCEPT ![h] = "gone"] /\ Present(h) /\ skipped' \subseteq skipped
        /\ young' = young \ {h}
    BY <1>4 DEF Cancel
  <2>2. \A g \in Hash : /\ g # h => run'[g] = run[g]
                        /\ run'[g].at = run[g].at /\ run'[g].cand = run[g].cand
                        /\ run'[g].force = run[g].force /\ run'[g].free = run[g].free
                        /\ run'[g].behind = run[g].behind
    BY <1>1, StalesType
  <2>3. run[h].at # "idle" => ~run'[h].fresh
    BY <1>1, StalesType
  <2>4. Unborn' /\ YoungUnranked' /\ OneRow'
    BY <1>1, <2>1 DEF Unborn, YoungUnranked, OneRow, Present, Hash, TypeOK
  <2>5. WorkersAt'
    <3>1. \A g \in Hash : row'[g] = IF g = h THEN "gone" ELSE row[g]
      BY <2>1 DEF TypeOK
    <3> QED
      BY <2>2, <2>3, <3>1 DEF WorkersAt
  <2>8. NobodyBefore'
    BY <2>2 DEF NobodyBefore
  <2>6. Frozen'
    <3> SUFFICES ASSUME NEW g \in skipped', run'[g].at # "idle" PROVE ~run'[g].fresh
      BY DEF Frozen
    <3>1. g \in Hash /\ g \in skipped
      BY <2>1 DEF TypeOK
    <3>2. run[g].at # "idle"
      BY <2>2, <3>1
    <3>3. CASE g = h
      BY <2>3, <3>2, <3>3
    <3>4. CASE g # h
      <4>1. run'[g] = run[g]
        BY <2>2, <3>1, <3>4
      <4>2. ~run[g].fresh
        BY <3>1, <3>2 DEF Frozen
      <4> QED
        BY <4>1, <4>2
    <3> QED
      BY <3>3, <3>4
  <2>7. Granted'
    BY <2>1, <2>2 DEF Granted, GrantedTo, InGrace, TypeOK
  <2> QED
    BY <1>2, <2>4, <2>5, <2>6, <2>7, <2>8
<1> QED
  BY <1>3, <1>4

LEMMA StepScan ==
  ASSUME IInv, NEW h \in Drops, ScanWatch(h)
  PROVE  IInv'
<1> USE DEF IInv
<1>1. h \in Hash /\ UNCHANGED <<exempt, listed, downloads, ops>>
  BY DEF Hash, ScanWatch
<1>2. dropped' \subseteq Drops /\ seen' \subseteq Drops
  BY DEF ScanWatch, PickedUp, LeftThere, TypeOK
<1>3. CASE row[h] = "none" /\ Create(h) /\ UNCHANGED run
  <2>1. /\ row' = [row EXCEPT ![h] = "NEW"] /\ UNCHANGED <<skipped, forced>>
        /\ young' = IF Rank[h] = 2 THEN young \cup {h} ELSE young
    BY <1>3 DEF Create
  <2>2. /\ born' \in [Drops -> 0..Cardinality(Drops)]
        /\ \A g \in Drops : g # h => born'[g] = born[g]
    BY <1>3, CreateBorn DEF Create, TypeOK
  <2>3. TypeOK'
    BY <1>1, <1>2, <1>3, <2>1, <2>2 DEF TypeOK, RowState, Waiter
  <2>4. \A g \in Hash : row'[g] = IF g = h THEN "NEW" ELSE row[g]
    BY <1>1, <2>1 DEF TypeOK
  <2>5. run[h].at = "idle"
    BY <1>1, <1>3 DEF WorkersAt
  <2>6. Unborn' /\ YoungUnranked' /\ OneRow'
    BY <1>1, <2>1, <2>2, <2>4, HashAssumption DEF Unborn, YoungUnranked, OneRow, Present, Hash
  <2>7. WorkersAt' /\ Frozen' /\ NobodyBefore'
    BY <1>3, <2>1, <2>4, <2>5 DEF WorkersAt, Frozen, NobodyBefore
  <2>8. Granted'
    BY <1>3, <2>1, <2>4, <2>5 DEF Granted, GrantedTo, InGrace
  <2> QED
    BY <2>3, <2>6, <2>7, <2>8
<1>4. CASE Stales(h) /\ row[h] = "FAILED" /\ row' = [row EXCEPT ![h] = "NEW"]
           /\ forced' = forced \ {h} /\ UNCHANGED <<born, young, skipped>>
  <2>1. TypeOK'
    BY <1>1, <1>2, <1>4, StalesType DEF TypeOK, RowState, Waiter
  <2>2. row'[h] = "NEW" /\ \A g \in Hash : g # h => row'[g] = row[g]
    BY <1>1, <1>4 DEF TypeOK
  <2>3. row[h] # "none" /\ Present(h)
    BY <1>4 DEF Present
  <2>4. skipped' \subseteq skipped \cup {h} /\ UNCHANGED <<born, young>>
    BY <1>4
  <2> QED
    BY <1>1, <1>4, <2>1, <2>2, <2>3, <2>4, StepStales
<1>5. CASE Stales(h) /\ Present(h) /\ skipped' = skipped \ {h}
           /\ UNCHANGED <<row, born, young, forced>>
  <2>1. TypeOK'
    BY <1>1, <1>2, <1>5, StalesType DEF TypeOK
  <2> QED
    BY <1>1, <1>5, <2>1, StepStales DEF Present
<1>6. CASE UNCHANGED <<rowVars, run>>
  <2>1. TypeOK'
    BY <1>1, <1>2, <1>6 DEF TypeOK, rowVars
  <2> QED
    BY <1>6, <2>1 DEF rowVars, Unborn, YoungUnranked, OneRow, Present, WorkersAt, Frozen,
                      NobodyBefore, Granted, GrantedTo, InGrace
<1> QED
  BY <1>3, <1>4, <1>5, <1>6 DEF ScanWatch

LEMMA StepPoll ==
  ASSUME IInv, NEW r \in Racing, PollGroup(r)
  PROVE  IInv'
<1> USE DEF IInv
<1>1. r \in Hash /\ r \notin Drops
  BY HashAssumption DEF Hash
<1>2. /\ row' = [row EXCEPT ![r] = "NEW"] /\ UNCHANGED <<born, skipped, forced>>
      /\ young' = IF Rank[r] = 2 THEN young \cup {r} ELSE young
      /\ UNCHANGED <<exempt, dropped, seen, listed, run, downloads, ops>>
  BY <1>1 DEF PollGroup, Create, fileVars
<1>3. \A g \in Hash : ~Present(g)
  BY DEF PollGroup, Tracked
<1>4. row[r] = "none"
  BY <1>1, <1>3 DEF PollGroup, Present, Primary
<1>5. TypeOK'
  BY <1>1, <1>2 DEF TypeOK, RowState, Waiter
<1>6. \A g \in Hash : row'[g] = IF g = r THEN "NEW" ELSE row[g]
  BY <1>1, <1>2 DEF TypeOK
<1>7. run[r].at = "idle"
  BY <1>1, <1>4 DEF WorkersAt
<1>8. Unborn' /\ YoungUnranked'
  BY <1>1, <1>2, <1>6 DEF Unborn, YoungUnranked, Hash
<1>9. OneRow'
  BY <1>3, <1>6 DEF OneRow, Present, Hash
<1>10. WorkersAt' /\ Frozen' /\ NobodyBefore'
  BY <1>2, <1>6, <1>7 DEF WorkersAt, Frozen, NobodyBefore
<1>11. Granted'
  BY <1>2, <1>6, <1>7 DEF Granted, GrantedTo, InGrace
<1> QED
  BY <1>5, <1>8, <1>9, <1>10, <1>11

\* Whoever is elected finds no fellow drop past admission.
LEMMA ElectedFirst ==
  ASSUME NEW h \in Drops, Elected(h)
  PROVE  \A g \in Drops \ {h} : ~Past(g)
BY DEF Elected, Contenders, Past, GraceHolds, Waiter, Locked

\* A worker that begins, or goes on to admit.
LEMMA StepRun ==
  ASSUME IInv, TypeOK', NEW h \in Hash, UNCHANGED rowVars,
         \A g \in Hash : g # h => run'[g] = run[g],
         \/ run'[h].at = "idle"
         \/ row[h] \in {"NEW", "WAITING_INDEXER", "WAITING_DISK"} /\ h \notin skipped
         \/ run[h].at # "idle" /\ run'[h].fresh = run[h].fresh,
         run'[h].behind = {}, GrantedTo(h)'
  PROVE  IInv'
<1> USE DEF IInv
<1>1. UNCHANGED <<row, born, young, skipped, forced>>
  BY DEF rowVars
<1>2. Unborn' /\ YoungUnranked' /\ OneRow'
  BY <1>1 DEF Unborn, YoungUnranked, OneRow, Present
<1>3. WorkersAt'
  BY <1>1 DEF WorkersAt
<1>4. Frozen'
  BY <1>1 DEF Frozen, TypeOK
<1>5. NobodyBefore'
  BY DEF NobodyBefore
<1>6. Granted'
  <2> SUFFICES ASSUME NEW g \in Hash, g # h PROVE GrantedTo(g)'
    BY DEF Granted
  <2> QED
    BY <1>1 DEF Granted, GrantedTo, InGrace
<1> QED
  BY <1>2, <1>3, <1>4, <1>5, <1>6

LEMMA StepBegins ==
  ASSUME IInv, NEW h \in Hash,
         StartDrop(h) \/ (h \in Racing /\ (StartRacing(h) \/ Wake(h))) \/ StartParked(h)
  PROVE  IInv'
<1> USE DEF IInv
<1>1. /\ UNCHANGED <<rowVars, fileVars, listed, downloads, ops>> /\ exempt' \subseteq exempt
      /\ Spawnable(h) /\ row[h] \in {"NEW", "WAITING_INDEXER", "WAITING_DISK"}
  BY DEF StartDrop, StartRacing, Wake, StartParked, Spent
<1>2. ASSUME run' \in [Hash -> Run] PROVE TypeOK'
  BY <1>1, <1>2 DEF TypeOK, rowVars, fileVars
<1>3. CASE StartDrop(h)
  <2> DEFINE cand == h \notin exempt /\ InGrace(h)
             free == Rank[h] = 2 /\ (h \in exempt \/ h \in forced)
             behind == IF h \in exempt THEN Drops ELSE Hash
  <2>1. Begins(h, "search", cand, free, behind) /\ h \in Drops /\ Elected(h)
        /\ (h \in exempt \/ ~Inflight(h))
    BY <1>3 DEF StartDrop
  <2>2. \A g \in behind \ {h} : ~Past(g)
    BY <2>1, ElectedFirst DEF Inflight
  <2>3. cand \in BOOLEAN /\ free \in BOOLEAN
    OBVIOUS
  <2>4. h \in young => cand \/ free
    BY DEF InGrace, YoungUnranked
  <2>5. h \in young /\ h \in forced => free
    BY DEF YoungUnranked
  <2> HIDE DEF cand, free, behind
  <2>6. /\ run' \in [Hash -> Run] /\ run'[h].behind = {}
        /\ \A g \in Hash : g # h => run'[g] = run[g]
        /\ run'[h].at = "search" /\ run'[h].cand = cand /\ run'[h].free = free
        /\ run'[h].force = (h \in forced)
    BY <2>1, <2>2, <2>3, BeginsType
  <2>7. GrantedTo(h)'
    BY <1>1, <2>4, <2>5, <2>6 DEF GrantedTo, InGrace, rowVars
  <2> QED
    BY <1>1, <1>2, <2>6, <2>7, StepRun DEF Spawnable
<1>4. CASE h \in Racing /\ StartRacing(h)
  <2> DEFINE free == Rank[h] = 2 /\ h \in forced
             behind == {}
  <2>1. Begins(h, "search", FALSE, free, behind) /\ h \notin Drops
    BY <1>4, HashAssumption DEF StartRacing
  <2>2. free \in BOOLEAN /\ (h \in young /\ h \in forced => free)
    BY DEF YoungUnranked
  <2>5. \A g \in behind \ {h} : ~Past(g)
    OBVIOUS
  <2> HIDE DEF free, behind
  <2>3. /\ run' \in [Hash -> Run] /\ run'[h].behind = {}
        /\ \A g \in Hash : g # h => run'[g] = run[g]
        /\ run'[h].at = "search" /\ run'[h].free = free /\ run'[h].force = (h \in forced)
    BY <2>1, <2>2, <2>5, BeginsType
  <2>4. GrantedTo(h)'
    BY <1>1, <2>1, <2>2, <2>3 DEF GrantedTo, InGrace, rowVars
  <2> QED
    BY <1>1, <1>2, <2>3, <2>4, StepRun DEF Spawnable
<1>5. CASE Wake(h)
  <2> DEFINE behind == Hash
  <2>1. Begins(h, "search", FALSE, FALSE, behind) /\ row[h] = "WAITING_INDEXER" /\ ~Inflight(h)
    BY <1>5 DEF Wake
  <2>2. \A g \in behind \ {h} : ~Past(g)
    BY <2>1 DEF Inflight
  <2> HIDE DEF behind
  <2>3. /\ run' \in [Hash -> Run] /\ run'[h].behind = {}
        /\ \A g \in Hash : g # h => run'[g] = run[g]
    BY <2>1, <2>2, BeginsType
  <2>4. GrantedTo(h)'
    BY <1>1, <2>1 DEF GrantedTo, rowVars
  <2> QED
    BY <1>1, <1>2, <2>3, <2>4, StepRun DEF Spawnable
<1>6. CASE StartParked(h)
  <2> DEFINE behind == IF h \in Drops THEN Drops ELSE {}
  <2>1. /\ Begins(h, "tail", FALSE, FALSE, behind) /\ row[h] = "WAITING_DISK"
        /\ h \in Drops => Elected(h)
    BY <1>6 DEF StartParked
  <2>2. \A g \in behind \ {h} : ~Past(g)
    BY <2>1, ElectedFirst
  <2> HIDE DEF behind
  <2>3. /\ run' \in [Hash -> Run] /\ run'[h].behind = {}
        /\ \A g \in Hash : g # h => run'[g] = run[g]
    BY <2>1, <2>2, BeginsType
  <2>4. GrantedTo(h)'
    BY <1>1, <2>1 DEF GrantedTo, rowVars
  <2> QED
    BY <1>1, <1>2, <2>3, <2>4, StepRun DEF Spawnable
<1> QED
  BY <1>3, <1>4, <1>5, <1>6

\* A worker that ends with a move of its own row, refused or not.
LEMMA StepMoves ==
  ASSUME IInv, TypeOK', NEW h \in Hash, run[h].at # "idle",
         NEW dst \in {"FAILED", "WAITING_INDEXER", "QUEUED", "WAITING_DISK"}, Moves(h, dst)
  PROVE  IInv'
<1> USE DEF IInv
<1>1. /\ run'[h] = Idle /\ \A g \in Hash : g # h => run'[g] = run[g]
      /\ row'[h] # row[h] => row'[h] = dst /\ run[h].fresh
      /\ \A g \in Hash : g # h => row'[g] = row[g]
      /\ UNCHANGED <<born, young, skipped, forced>>
  BY MovesType
<1>2. run'[h].at = "idle" /\ run'[h].behind = {}
  BY <1>1 DEF Idle
<1>3. row'[h] # row[h] => Present(h) /\ row'[h] # "none"
  BY <1>1 DEF WorkersAt, Present
<1>4. Unborn' /\ YoungUnranked'
  BY <1>1, <1>3 DEF Unborn, YoungUnranked, Hash
<1>5. OneRow'
  <2> SUFFICES ASSUME NEW r \in Racing, NEW s \in Racing, Present(r)', Present(s)' PROVE r = s
    BY DEF OneRow
  <2>1. Present(r) /\ Present(s)
    BY <1>1, <1>3 DEF Present, Hash
  <2> QED
    BY <2>1 DEF OneRow
<1>6. WorkersAt' /\ NobodyBefore'
  BY <1>1, <1>2 DEF WorkersAt, NobodyBefore
<1>7. Frozen'
  BY <1>1, <1>2 DEF Frozen, TypeOK
<1>8. Granted'
  BY <1>1, <1>2 DEF Granted, GrantedTo, InGrace
<1> QED
  BY <1>4, <1>5, <1>6, <1>7, <1>8

\* What a worker that goes on to admit keeps.
LEMMA OnType ==
  ASSUME TypeOK, NEW h \in Hash, NEW free \in BOOLEAN,
         run' = [run EXCEPT ![h].at = "tail", ![h].free = free]
  PROVE  /\ run' \in [Hash -> Run]
         /\ \A g \in Hash : g # h => run'[g] = run[g]
         /\ run'[h].at = "tail" /\ run'[h].free = free
         /\ run'[h].fresh = run[h].fresh /\ run'[h].behind = run[h].behind
<1> DEFINE on == [run[h] EXCEPT !.at = "tail", !.free = free]
<1>1. run[h] \in Run
  BY DEF TypeOK
<1>2. /\ on \in Run /\ on.at = "tail" /\ on.free = free
      /\ on.fresh = run[h].fresh /\ on.behind = run[h].behind
  BY <1>1 DEF Run
<1>3. run' = [run EXCEPT ![h] = on]
  BY DEF TypeOK
<1> HIDE DEF on
<1> QED
  BY <1>2, <1>3 DEF TypeOK

LEMMA StepSearchedDrop ==
  ASSUME IInv, NEW h \in Drops, SearchedDrop(h)
  PROVE  IInv'
<1> USE DEF IInv
<1>1. /\ h \in Hash /\ run[h].at = "search" /\ run[h] \in Run
      /\ UNCHANGED <<exempt, fileVars, listed, downloads, ops>>
  BY DEF SearchedDrop, Hash, TypeOK
<1>2. CASE Moves(h, "FAILED")
  <2>1. TypeOK'
    BY <1>1, <1>2, MovesType DEF TypeOK, fileVars
  <2> QED
    BY <1>1, <1>2, <2>1, StepMoves
<1>3. CASE GivesUp(h) /\ UNCHANGED rowVars
  <2>1. run' \in [Hash -> Run] /\ run'[h] = Idle /\ \A g \in Hash : g # h => run'[g] = run[g]
    BY <1>1, <1>3, GivesUpType
  <2>2. TypeOK'
    BY <1>1, <1>3, <2>1 DEF TypeOK, rowVars, fileVars
  <2> QED
    BY <1>1, <1>3, <2>1, <2>2, StepRun DEF Idle, GrantedTo
<1>4. ASSUME NEW found \in BOOLEAN, ~Holds(h, found), UNCHANGED rowVars,
             run' = [run EXCEPT ![h].at = "tail", ![h].free = @ \/ found]
      PROVE  IInv'
  <2> DEFINE free == run[h].free \/ found
  <2>1. free \in BOOLEAN
    BY <1>1, <1>4 DEF Run
  <2>2. run' = [run EXCEPT ![h].at = "tail", ![h].free = free]
    BY <1>1, <1>4 DEF TypeOK
  <2>3. row[h] = "NEW" /\ InGrace(h) => free
    BY <1>1, <1>4 DEF Granted, GrantedTo, Holds
  <2> HIDE DEF free
  <2>4. /\ run' \in [Hash -> Run]
        /\ \A g \in Hash : g # h => run'[g] = run[g]
        /\ run'[h].at = "tail" /\ run'[h].free = free
        /\ run'[h].fresh = run[h].fresh /\ run'[h].behind = run[h].behind
    BY <1>1, <2>1, <2>2, OnType
  <2>5. TypeOK'
    BY <1>1, <1>4, <2>4 DEF TypeOK, rowVars, fileVars
  <2>6. run'[h].behind = {}
    BY <1>1, <2>4 DEF NobodyBefore
  <2>7. GrantedTo(h)'
    BY <1>4, <2>3, <2>4 DEF GrantedTo, InGrace, rowVars
  <2> QED
    BY <1>1, <1>4, <2>4, <2>5, <2>6, <2>7, StepRun
<1> QED
  BY <1>2, <1>3, <1>4 DEF SearchedDrop

LEMMA StepSearchedRacing ==
  ASSUME IInv, NEW h \in Racing, SearchedRacing(h)
  PROVE  IInv'
<1> USE DEF IInv
<1>1. /\ h \in Hash /\ run[h].at = "search" /\ run[h] \in Run
      /\ UNCHANGED <<fileVars, listed, downloads, ops>>
      /\ exempt' \subseteq exempt
  BY DEF SearchedRacing, Hash, TypeOK, Spent
<1>2. ASSUME NEW dst \in {"FAILED", "WAITING_INDEXER"}, Moves(h, dst) PROVE IInv'
  <2>1. TypeOK'
    BY <1>1, <1>2, MovesType DEF TypeOK, fileVars
  <2> QED
    BY <1>1, <1>2, <2>1, StepMoves
<1>3. CASE GivesUp(h) /\ UNCHANGED rowVars
  <2>1. run' \in [Hash -> Run] /\ run'[h] = Idle /\ \A g \in Hash : g # h => run'[g] = run[g]
    BY <1>1, <1>3, GivesUpType
  <2>2. TypeOK'
    BY <1>1, <1>3, <2>1 DEF TypeOK, rowVars, fileVars
  <2> QED
    BY <1>1, <1>3, <2>1, <2>2, StepRun DEF Idle, GrantedTo
<1>4. ASSUME NEW preferred \in BOOLEAN, UNCHANGED rowVars,
             ~(/\ row[h] = "NEW" /\ ~run[h].force /\ h \notin exempt
               /\ ~preferred /\ InGrace(h)),
             run' = [run EXCEPT ![h].at = "tail",
                                ![h].free = Rank[h] = 2 /\ (@ \/ preferred \/ h \in exempt)]
      PROVE  IInv'
  <2> DEFINE free == Rank[h] = 2 /\ (run[h].free \/ preferred \/ h \in exempt)
  <2>1. free \in BOOLEAN
    BY <1>1, <1>4 DEF Run
  <2>2. run' = [run EXCEPT ![h].at = "tail", ![h].free = free]
    BY <1>1, <1>4 DEF TypeOK
  <2>3. row[h] = "NEW" /\ InGrace(h) => free
    BY <1>1, <1>4 DEF Granted, GrantedTo, YoungUnranked, InGrace
  <2> HIDE DEF free
  <2>4. /\ run' \in [Hash -> Run]
        /\ \A g \in Hash : g # h => run'[g] = run[g]
        /\ run'[h].at = "tail" /\ run'[h].free = free
        /\ run'[h].fresh = run[h].fresh /\ run'[h].behind = run[h].behind
    BY <1>1, <2>1, <2>2, OnType
  <2>5. TypeOK'
    BY <1>1, <1>4, <2>4 DEF TypeOK, rowVars, fileVars
  <2>6. run'[h].behind = {}
    BY <1>1, <2>4 DEF NobodyBefore
  <2>7. GrantedTo(h)'
    BY <1>4, <2>3, <2>4 DEF GrantedTo, InGrace, rowVars
  <2> QED
    BY <1>1, <1>4, <2>4, <2>5, <2>6, <2>7, StepRun
<1> QED
  BY <1>2, <1>3, <1>4 DEF SearchedRacing

LEMMA StepAdmit ==
  ASSUME IInv, NEW h \in Hash, Admit(h)
  PROVE  IInv'
<1> USE DEF IInv
<1>1. /\ run[h].at = "tail" /\ UNCHANGED <<fileVars, listed, ops>>
      /\ exempt' \subseteq exempt /\ downloads' \subseteq downloads \cup {h}
  BY DEF Admit, PruneExempt
<1>2. ASSUME NEW dst \in {"QUEUED", "WAITING_DISK"}, Moves(h, dst) PROVE IInv'
  <2>1. TypeOK'
    BY <1>1, <1>2, MovesType DEF TypeOK, fileVars
  <2> QED
    BY <1>1, <1>2, <2>1, StepMoves
<1>3. CASE GivesUp(h) /\ UNCHANGED rowVars
  <2>1. run' \in [Hash -> Run] /\ run'[h] = Idle /\ \A g \in Hash : g # h => run'[g] = run[g]
    BY <1>3, GivesUpType
  <2>2. TypeOK'
    BY <1>1, <1>3, <2>1 DEF TypeOK, rowVars, fileVars
  <2> QED
    BY <1>3, <2>1, <2>2, StepRun DEF Idle, GrantedTo
<1> QED
  BY <1>2, <1>3 DEF Admit, Admits

\* The pipeline, which runs no worker of this module.
LEMMA StepWorks ==
  ASSUME IInv, NEW h \in Hash, NEW dst, Works(h, dst)
  PROVE  IInv'
<1> USE DEF IInv
<1>1. /\ UNCHANGED <<born, young, skipped, forced, exempt, dropped, seen, listed, run, ops>>
      /\ downloads' \subseteq downloads /\ run[h].at = "idle"
      /\ row[h] \in Locked /\ dst \in {"RE_ADDING", "WAITING_DISK", "FAILED", "DONE"}
  BY DEF Works, Spawnable, fileVars, Locked
<1>2. row' \in [Hash -> RowState] /\ \A g \in Hash : row'[g] = IF g = h THEN dst ELSE row[g]
  BY <1>1 DEF Works, TypeOK, RowState, Waiter, Locked
<1>3. TypeOK'
  BY <1>1, <1>2 DEF TypeOK
<1>4. Unborn' /\ YoungUnranked'
  BY <1>1, <1>2 DEF Unborn, YoungUnranked, Hash
<1>5. OneRow'
  <2> SUFFICES ASSUME NEW r \in Racing, NEW s \in Racing, Present(r)', Present(s)' PROVE r = s
    BY DEF OneRow
  <2>1. Present(r) /\ Present(s)
    BY <1>1, <1>2 DEF Present, Hash, Locked
  <2> QED
    BY <2>1 DEF OneRow
<1>6. WorkersAt' /\ NobodyBefore' /\ Frozen'
  BY <1>1, <1>2 DEF WorkersAt, NobodyBefore, Frozen
<1>7. Granted'
  BY <1>1, <1>2 DEF Granted, GrantedTo, InGrace
<1> QED
  BY <1>3, <1>4, <1>5, <1>6, <1>7

LEMMA StepRestart ==
  ASSUME IInv, Restart
  PROVE  IInv'
<1> USE DEF IInv
<1>1. /\ UNCHANGED <<row, born, young, skipped, forced, dropped, listed, downloads>>
      /\ exempt' = {} /\ seen' = {} /\ run' = [h \in Hash |-> Idle] /\ ops' \in 0..MaxOps
  BY MaxOpsAssumption DEF Restart, rowVars, Operates, TypeOK
<1>2. TypeOK'
  BY <1>1, IdleType DEF TypeOK
<1>3. \A h \in Hash : run'[h].at = "idle" /\ run'[h].behind = {}
  BY <1>1 DEF Idle
<1>4. Unborn' /\ YoungUnranked' /\ OneRow'
  BY <1>1 DEF Unborn, YoungUnranked, OneRow, Present
<1>5. WorkersAt' /\ Frozen' /\ NobodyBefore' /\ Granted'
  BY <1>1, <1>3 DEF WorkersAt, Frozen, NobodyBefore, Granted, GrantedTo, TypeOK
<1> QED
  BY <1>2, <1>4, <1>5

LEMMA StepInv == IInv /\ [Next]_vars => IInv'
<1> SUFFICES ASSUME IInv, [Next]_vars PROVE IInv'
  OBVIOUS
<1>1. Drops \subseteq Hash /\ Racing \subseteq Hash
  BY DEF Hash
<1>2. CASE UNCHANGED vars
  BY <1>2 DEF vars, IInv, TypeOK, Unborn, YoungUnranked, OneRow, Present, WorkersAt, Frozen,
              NobodyBefore, Granted, GrantedTo, InGrace
<1>3. ASSUME NEW h \in Drops, Drop(h) \/ ScanWatch(h) \/ StartDrop(h) \/ SearchedDrop(h)
      PROVE  IInv'
  BY <1>1, <1>3, StepFiles, StepScan, StepBegins, StepSearchedDrop
<1>4. ASSUME NEW r \in Racing,
             Race(r) \/ PollGroup(r) \/ StartRacing(r) \/ Wake(r) \/ SearchedRacing(r)
      PROVE  IInv'
  BY <1>1, <1>4, StepFiles, StepPoll, StepBegins, StepSearchedRacing
<1>5. ASSUME NEW h \in Hash,
             \/ StartParked(h) \/ Admit(h) \/ \E dst \in State : Works(h, dst)
             \/ GraceEnds(h) \/ Prefer(h) \/ Fetch(h) \/ Hold(h) \/ Cancel(h)
      PROVE  IInv'
  BY <1>5, StepBegins, StepAdmit, StepWorks, StepFiles, StepCommand
<1> QED
  BY <1>2, <1>3, <1>4, <1>5, StepRestart DEF Next

LEMMA InvHolds == Spec => []IInv
BY InitInv, StepInv, PTL DEF Spec

-----------------------------------------------------------------------------
\* Every variable keeps its type.
THEOREM TypeCorrect == Spec => []TypeOK
BY InvHolds, PTL DEF IInv

\* The racing torrents of a release share one row, whatever the client lists:
\* PollGroup makes one only when no row of the release is there.
THEOREM OneRacingRowHolds == Spec => []OneRacingRow
<1>1. IInv => OneRacingRow
  <2> SUFFICES ASSUME IInv PROVE OneRacingRow
    OBVIOUS
  <2> DEFINE rows == {r \in Racing : Present(r)}
  <2>1. CASE rows = {}
    BY <2>1, FS_EmptySet DEF OneRacingRow
  <2>2. CASE rows # {}
    <3>1. PICK r \in rows : TRUE
      BY <2>2
    <3>2. rows = {r}
      BY <3>1 DEF IInv, OneRow
    <3> HIDE DEF rows
    <3>3. Cardinality(rows) = 1
      BY <3>2, FS_Singleton
    <3> QED
      BY <3>3 DEF OneRacingRow, rows
  <2> QED
    BY <2>1, <2>2
<1> QED
  BY <1>1, InvHolds, PTL

\* Who writes what into the row of a copy.
LEMMA RowSteps ==
  ASSUME IInv, [Next]_vars, NEW h \in Hash, row'[h] # row[h]
  PROVE  \/ row'[h] \in {"NEW", "gone", "FAILED", "WAITING_INDEXER", "DONE"}
         \/ row[h] \in Locked
         \/ /\ run[h].at = "tail" /\ run[h].fresh
            /\ row'[h] \in {"QUEUED", "WAITING_DISK"}
<1> USE DEF IInv
<1> DEFINE Goal == \/ row'[h] \in {"NEW", "gone", "FAILED", "WAITING_INDEXER", "DONE"}
                   \/ row[h] \in Locked
                   \/ /\ run[h].at = "tail" /\ run[h].fresh
                      /\ row'[h] \in {"QUEUED", "WAITING_DISK"}
<1> SUFFICES Goal
  OBVIOUS
<1>1. ASSUME NEW g \in Hash, NEW dst, row' = [row EXCEPT ![g] = dst],
             g = h => dst \in {"NEW", "gone", "FAILED", "WAITING_INDEXER", "DONE"}
      PROVE  Goal
  BY <1>1 DEF TypeOK
<1>2. ASSUME NEW g \in Hash, NEW dst \in {"FAILED", "WAITING_INDEXER"}, Moves(g, dst) PROVE Goal
  BY <1>2, MovesType
<1>3. CASE \E g \in Hash : Admit(g)
  <2>1. PICK g \in Hash : Admit(g)
    BY <1>3
  <2>2. ASSUME NEW dst \in {"QUEUED", "WAITING_DISK"}, Moves(g, dst) PROVE Goal
    BY <2>1, <2>2, MovesType DEF Admit
  <2> QED
    BY <2>1, <2>2 DEF Admit, Admits, rowVars
<1>4. CASE \E g \in Hash : \E dst \in State : Works(g, dst)
  <2>1. PICK g \in Hash : \E dst \in State : Works(g, dst)
    BY <1>4
  <2> QED
    BY <2>1 DEF Works, TypeOK, Locked
<1>5. CASE \E g \in Drops : Drop(g) \/ ScanWatch(g) \/ StartDrop(g) \/ SearchedDrop(g)
  <2>1. PICK g \in Drops : Drop(g) \/ ScanWatch(g) \/ StartDrop(g) \/ SearchedDrop(g)
    BY <1>5
  <2>2. g \in Hash
    BY DEF Hash
  <2>3. CASE Drop(g) \/ StartDrop(g)
    BY <2>3 DEF Drop, StartDrop, rowVars
  <2>4. CASE ScanWatch(g)
    BY <1>1, <2>2, <2>4 DEF ScanWatch, Create, rowVars
  <2>5. CASE SearchedDrop(g)
    BY <1>2, <2>2, <2>5 DEF SearchedDrop, rowVars
  <2> QED
    BY <2>1, <2>3, <2>4, <2>5
<1>6. CASE \E r \in Racing :
             Race(r) \/ PollGroup(r) \/ StartRacing(r) \/ Wake(r) \/ SearchedRacing(r)
  <2>1. PICK r \in Racing :
               Race(r) \/ PollGroup(r) \/ StartRacing(r) \/ Wake(r) \/ SearchedRacing(r)
    BY <1>6
  <2>2. r \in Hash
    BY DEF Hash
  <2>3. CASE Race(r) \/ StartRacing(r) \/ Wake(r)
    BY <2>3 DEF Race, StartRacing, Wake, rowVars
  <2>4. CASE PollGroup(r)
    BY <1>1, <2>2, <2>4 DEF PollGroup, Create
  <2>5. CASE SearchedRacing(r)
    BY <1>2, <2>2, <2>5 DEF SearchedRacing, rowVars
  <2> QED
    BY <2>1, <2>3, <2>4, <2>5
<1>7. CASE \E g \in Hash : \/ StartParked(g) \/ GraceEnds(g) \/ Prefer(g)
                         \/ Fetch(g) \/ Hold(g) \/ Cancel(g)
  BY <1>1, <1>7 DEF StartParked, GraceEnds, Prefer, Fetch, Hold, Cancel, rowVars
<1>8. CASE Restart \/ UNCHANGED vars
  BY <1>8 DEF Restart, vars, rowVars
<1> HIDE DEF Goal
<1> QED
  BY <1>3, <1>4, <1>5, <1>6, <1>7, <1>8 DEF Next

\* A hold takes effect on a worker that is searching: no row under a hold is
\* admitted, because the write of the hold has the worker refused.
THEOREM HeldStaysOutHolds == Spec => HeldStaysOut
<1>1. IInv /\ [Next]_vars => [\A h \in skipped : row'[h] \in Locked => row[h] \in Locked]_vars
  <2> SUFFICES ASSUME IInv, [Next]_vars, NEW h \in skipped, row'[h] \in Locked, row'[h] # row[h]
               PROVE  row[h] \in Locked
    OBVIOUS
  <2>1. h \in Hash
    BY DEF IInv, TypeOK
  <2> QED
    BY <2>1, RowSteps DEF IInv, Frozen, Locked
<1> QED
  BY <1>1, InvHolds, PTL DEF Spec, HeldStaysOut

\* Within its grace a copy leaves NEW for admission only when the operator or
\* its search let it: StartDrop and the searches leave no other way to the tail.
THEOREM GraceRespectedHolds == Spec => GraceRespected
<1>1. IInv /\ [Next]_vars
        => [\A h \in Hash :
              (row[h] = "NEW" /\ row'[h] \in {"QUEUED", "WAITING_DISK"} /\ InGrace(h))
                => run[h].free]_vars
  <2> SUFFICES ASSUME IInv, [Next]_vars, NEW h \in Hash, row[h] = "NEW",
                      row'[h] \in {"QUEUED", "WAITING_DISK"}, InGrace(h)
               PROVE  run[h].free
    OBVIOUS
  <2> QED
    BY RowSteps DEF IInv, Granted, GrantedTo, Locked
<1> QED
  BY <1>1, InvHolds, PTL DEF Spec, GraceRespected

\* A download begins beside no copy that was past admission when its worker
\* began: the election and the deferral let no such worker begin.
THEOREM DuplicatesHolds == Spec => DuplicatesOnlyFromOverlap
<1>1. IInv /\ [Next]_vars
        => [\A h \in Hash : Downloads(h) => \A g \in run[h].behind : ~Past(g)]_vars
  BY DEF IInv, NobodyBefore
<1> QED
  BY <1>1, InvHolds, PTL DEF Spec, DuplicatesOnlyFromOverlap

LEMMA NatSmallest ==
  ASSUME NEW T, T \subseteq Nat, T # {}
  PROVE  \E m \in T : \A n \in T : m <= n
<1>1. PICK m \in T : \A n \in T : ~(<<n, m>> \in OpToRel(<, Nat))
  BY WFMin, NatLessThanWellFounded, Zenon
<1>2. \A n \in T : ~(n < m)
  BY <1>1 DEF OpToRel
<1> QED
  BY <1>2

\* While no copy is past admission, the election lets one of the waiting drops
\* go: the best rank, and of that the oldest row.
THEOREM SomebodyMayGoHolds == Spec => []SomebodyMayGo
<1>1. TypeOK => SomebodyMayGo
  <2> DEFINE waiting == {h \in Drops : row[h] \in Waiter /\ h \notin skipped}
  <2> SUFFICES ASSUME TypeOK, waiting # {}, ~ \E g \in Hash : Past(g)
               PROVE  \E h \in waiting : Elected(h)
    BY DEF SomebodyMayGo
  <2> DEFINE ranks == {Rank[h] : h \in waiting}
  <2>1. ranks \subseteq Nat /\ ranks # {}
    BY RankAssumption DEF Hash
  <2>2. PICK best \in waiting : \A g \in waiting : Rank[best] <= Rank[g]
    <3> HIDE DEF ranks
    <3>1. \E m \in ranks : \A n \in ranks : m <= n
      BY <2>1, NatSmallest
    <3> QED
      BY <3>1 DEF ranks
  <2> DEFINE peers == {h \in waiting : Rank[h] = Rank[best]}
             births == {born[h] : h \in peers}
  <2>3. births \subseteq Nat /\ births # {}
    BY <2>2, HashAssumption, FS_Subset, FS_CardinalityType DEF Hash, TypeOK
  <2>4. PICK h \in peers : \A g \in peers : born[h] <= born[g]
    <3> HIDE DEF births
    <3>1. \E m \in births : \A n \in births : m <= n
      BY <2>3, NatSmallest
    <3> QED
      BY <3>1 DEF births
  <2>5. \A g \in Contenders(h) : g \in waiting
    BY DEF Contenders, Past, Hash
  <2>6. \A g \in waiting : Rank[g] \in Nat /\ born[g] \in Nat
    BY RankAssumption DEF Hash, TypeOK
  <2>7. \A g \in waiting : ~Before(g, h)
    BY <2>2, <2>4, <2>6 DEF Before
  <2> QED
    BY <2>4, <2>5, <2>7 DEF Elected, Contenders, Hash
<1> QED
  BY <1>1, TypeCorrect, PTL

=============================================================================
