-------------------------- MODULE Pipeline_proofs --------------------------
(***************************************************************************)
(* What holds of the pipeline of one torrent for torrents of every size,    *)
(* any batches and any number of failures and restarts.                     *)
(*                                                                          *)
(* The index passes a batch only when every file of it is on the remote     *)
(* (PassedBatchesDelivered), though the worker never looks at the remote:   *)
(* it reads the mount once, waits for the rest on the SSD, and checks what  *)
(* rclone left there.  The invariant says, for each step of a round, which  *)
(* of the three accounts for a file of the batch.                           *)
(*                                                                          *)
(* For a regular torrent the worker may also rely on the client: what it    *)
(* knows of a file the remote lacks is what the SSD has (ClientInv), so     *)
(* what was waited for is whole or delivered (SecureInv), every step is of  *)
(* one of six kinds (StepKind), and each kind is a step of Delivery or a    *)
(* stutter (Implements).                                                    *)
(*                                                                          *)
(* That the client runs with one batch only (OneBatch) rests on when a      *)
(* selection is the worker's own choice (Chosen), and that nothing else     *)
(* than complete files is moved, not even over a copy the remote has        *)
(* (OnlyComplete), on a mount that shows exactly what the remote has.       *)
(*                                                                          *)
(* What the client may fetch is within what was granted (SelectionFits) as  *)
(* long as the batches are, and the batches make_batches makes of a         *)
(* feasible list are (PlanMeetsBatchesFit): the loop over the files keeps   *)
(* the closed batches and the open one as it promises (Packed), for a list  *)
(* of any length.                                                           *)
(***************************************************************************)
EXTENDS Pipeline, Batcher, Sums, SequenceTheorems

\* Inside a round the index names a batch; before a flip, not the last one.
RoundInv ==
  /\ pc \in {"pause", "move", "flip", "advance"} => Batched /\ index < Batches
  /\ pc = "flip" => index + 1 < Batches
  /\ pc \in {"hwait", "hmove"} => heals < MaxHeals

Delivered == {f \in Files : remote[f] # "none"}

\* A file of the current batch is on the remote or in the worker's hands; in
\* the end, on the remote.
BatchInv ==
  /\ pc \in {"wait", "pause", "move"} /\ AwaitsBatch => Batch(index) \subseteq Delivered \cup todo
  /\ pc \in {"pause", "move"} => todo \subseteq Delivered \cup OnSsd
  /\ pc \in {"flip", "advance"} => Batch(index) \subseteq Delivered

\* The mount shows nothing that is not on the remote.
FuseTrue == fuse \subseteq Delivered

TInv == TypeOK /\ RoundInv
IInv == TInv /\ FuseTrue /\ BatchInv /\ PassedBatchesDelivered /\ DoneDelivered

-----------------------------------------------------------------------------
(* Typing.                                                                  *)

\* What the assumption says of a torrent.
LEMMA SettingType ==
  ASSUME setting \in Settings
  PROVE  /\ Batches \in Nat /\ BatchOf \in [AllFiles -> Nat]
         /\ Files \subseteq AllFiles /\ Slack \subseteq AllFiles
         /\ \A f \in Files : BatchOf[f] \in 0..Batches
         /\ setting.maxFaults \in Nat /\ setting.maxCrashes \in Nat
BY SettingsAssumption DEF Setting, Files, Batches, BatchOf, Slack

\* A torrent does not change.
LEMMA SettingKept ==
  ASSUME UNCHANGED setting
  PROVE  /\ Files' = Files /\ Batches' = Batches /\ BatchOf' = BatchOf
         /\ Slack' = Slack /\ Batched' = Batched
BY DEF Files, Batches, BatchOf, Slack, Batched

RowType == state \in State /\ total \in {0, Batches} /\ index \in 0..Batches

WorkerType ==
  /\ pc \in Pc /\ todo \subseteq Files
  /\ tries \in 0..(MaxFails - 1) /\ parks \in 0..MaxParks /\ heals \in 0..MaxHeals

ClientType ==
  /\ entry \in {"none", "paused", "running"} /\ want \subseteq Files /\ holes \subseteq Files
  /\ have \in [Files -> {"none", "some", "near", "all"}]

BytesType ==
  /\ disk \in [Files -> {"absent", "short", "shell", "whole"}] /\ folder \in BOOLEAN
  /\ remote \in [Files -> {"none", "bad", "whole"}] /\ fuse \subseteq Files

CountType == faults \in 0..setting.maxFaults /\ crashes \in 0..setting.maxCrashes

\* The type invariant, part by part.
LEMMA TypeParts ==
  TypeOK <=> /\ setting \in Settings
             /\ RowType /\ WorkerType /\ ClientType /\ BytesType /\ CountType
BY DEF TypeOK, RowType, WorkerType, ClientType, BytesType, CountType

\* The bounds, one by one.
LEMMA Bounds == MaxFails \in Nat \ {0} /\ MaxParks \in Nat \ {0} /\ MaxHeals \in Nat \ {0}
BY BoundAssumption

\* Every variable begins with its type.
LEMMA InitType == Init => TInv
<1> SUFFICES ASSUME Init PROVE TInv
  OBVIOUS
<1>1. Batches \in Nat /\ setting.maxFaults \in Nat /\ setting.maxCrashes \in Nat
  BY SettingType DEF Init
<1>2. setting \in Settings /\ RowType /\ WorkerType /\ CountType
  BY <1>1, Bounds DEF Init, RowType, WorkerType, CountType, State, Pc
<1>3. ClientType
  BY DEF Init, ClientType
<1>4. BytesType
  BY DEF Init, BytesType
<1>5. RoundInv
  BY DEF Init, RoundInv
<1> QED
  BY <1>2, <1>3, <1>4, <1>5, TypeParts DEF TInv

-----------------------------------------------------------------------------
(* What the parts of the actions do to the types.                           *)

\* The failures stay within their bound.
LEMMA CountFine ==
  ASSUME TypeOK, UNCHANGED <<setting, crashes>>, Fine \/ Trouble
  PROVE  CountType'
<1>1. setting.maxFaults \in Nat /\ setting' = setting
  BY SettingType DEF TypeOK
<1> QED
  BY <1>1 DEF TypeOK, CountType, Fine, Trouble

\* However the worker's variables change, they keep their types; ...
LEMMA WorkerSteps ==
  ASSUME TypeOK, UNCHANGED setting,
         Park \/ Retry \/ UNCHANGED worker \/ (\E to \in Pc : Goes(to))
           \/ (HealFailed /\ heals < MaxHeals)
  PROVE  WorkerType'
<1>1. Files' = Files
  BY SettingKept
<1>2. CASE Park
  BY <1>1, <1>2, Bounds DEF TypeOK, WorkerType, Park, Pc
<1>3. CASE Retry
  BY <1>1, <1>3, Bounds DEF TypeOK, WorkerType, Retry, Park, Pc
<1>4. CASE HealFailed /\ heals < MaxHeals
  BY <1>1, <1>4, Bounds DEF TypeOK, WorkerType, HealFailed, Pc
<1>5. CASE UNCHANGED worker
  BY <1>1, <1>5 DEF TypeOK, WorkerType, worker
<1>6. ASSUME NEW to \in Pc, Goes(to) PROVE WorkerType'
  BY <1>1, <1>6 DEF TypeOK, WorkerType, Goes
<1> QED
  BY <1>2, <1>3, <1>4, <1>5, <1>6

\* ... so do the client's; ...
LEMMA ClientSteps ==
  ASSUME TypeOK, UNCHANGED setting,
         \/ Gone \/ UNCHANGED client
         \/ \E fs \in SUBSET Files, to \in {"none", "paused", "running"} : Selects(fs, to)
         \/ \E to \in {"none", "paused", "running"} : Becomes(to)
         \/ Resumed /\ UNCHANGED <<want, have, holes>>
         \/ UNCHANGED <<entry, want, have>> /\ \E fs \in SUBSET Files : Punched(fs)
  PROVE  ClientType'
<1>1. Files' = Files
  BY SettingKept
<1>2. CASE Gone
  BY <1>1, <1>2 DEF ClientType, Gone
<1>3. CASE UNCHANGED client
  BY <1>1, <1>3 DEF TypeOK, ClientType, client
<1>4. ASSUME NEW fs \in SUBSET Files, NEW to \in {"none", "paused", "running"}, Selects(fs, to)
      PROVE ClientType'
  BY <1>1, <1>4 DEF TypeOK, ClientType, Selects
<1>5. ASSUME NEW to \in {"none", "paused", "running"}, Becomes(to) PROVE ClientType'
  BY <1>1, <1>5 DEF TypeOK, ClientType, Becomes
<1>6. CASE Resumed /\ UNCHANGED <<want, have, holes>>
  BY <1>1, <1>6 DEF TypeOK, ClientType, Resumed
<1>7. ASSUME UNCHANGED <<entry, want, have>>, NEW fs \in SUBSET Files, Punched(fs)
      PROVE ClientType'
  BY <1>1, <1>7 DEF TypeOK, ClientType, Punched
<1> QED
  BY <1>2, <1>3, <1>4, <1>5, <1>6, <1>7

\* ... so does what comes with an entry that is added, ...
LEMMA AddedType ==
  ASSUME TypeOK, UNCHANGED setting, NEW wanted \in SUBSET Files,
         NEW to \in {"paused", "running"}, Added(wanted, to)
  PROVE  ClientType' /\ BytesType'
<1>1. Files' = Files
  BY SettingKept
<1>2. ClientType'
  BY <1>1 DEF TypeOK, ClientType, Added
<1>3. BytesType'
  BY <1>1 DEF TypeOK, BytesType, Added
<1> QED
  BY <1>2, <1>3

\* ... what a move leaves, ...
LEMMA ShippedType ==
  ASSUME TypeOK, UNCHANGED setting, NEW m \in SUBSET Files, ShippedBytes(m)
  PROVE  BytesType'
<1>1. Files' = Files
  BY SettingKept
<1> QED
  BY <1>1 DEF TypeOK, BytesType, ShippedBytes

\* ... and what stays where it is or is wiped.
LEMMA BytesKept ==
  ASSUME TypeOK, UNCHANGED setting, (UNCHANGED bytes) \/ (Wiped /\ UNCHANGED <<remote, fuse>>)
  PROVE  BytesType'
<1>1. Files' = Files
  BY SettingKept
<1> QED
  BY <1>1 DEF TypeOK, BytesType, bytes, Wiped

-----------------------------------------------------------------------------
(* Every step keeps the types and the place of the index in a round.        *)

\* Every step keeps the types.
LEMMA StepType == TInv /\ [Next]_vars => TInv'
<1> SUFFICES ASSUME TInv, [Next]_vars PROVE TInv'
  OBVIOUS
<1>t. TypeOK /\ RoundInv /\ Batches \in Nat /\ setting \in Settings
  BY SettingType DEF TInv, TypeOK
<1>n. \A i : Need(i) \subseteq Files
  BY DEF Need, Batch
<1>p. ASSUME UNCHANGED setting, RowType', WorkerType', ClientType', BytesType', CountType', RoundInv'
      PROVE TInv'
  <2>1. TypeOK'
    BY <1>p, <1>t DEF TypeOK, RowType, WorkerType, ClientType, BytesType, CountType
  <2> QED
    BY <1>p, <2>1 DEF TInv
<1>1. ASSUME NEW f \in AllFiles, Fetch(f) PROVE TInv'
  BY <1>1, <1>t, SettingKept DEF Fetch, row, worker, TInv, TypeOK, RoundInv
<1>2. ASSUME NEW f \in AllFiles, Spill(f) PROVE TInv'
  BY <1>2, <1>t, SettingKept DEF Spill, row, worker, TInv, TypeOK, RoundInv
<1>3. ASSUME NEW f \in AllFiles, Index(f) PROVE TInv'
  BY <1>3, <1>t, SettingKept DEF Index, row, worker, client, TInv, TypeOK, RoundInv
<1>4. CASE Add
  <2>1. UNCHANGED setting
    BY <1>4 DEF Add
  <2>2. RowType'
    BY <1>4, <2>1, <1>t, SettingKept DEF Add, Fine, Trouble, RowType, TypeOK, State
  <2>3. WorkerType'
    BY <1>4, <2>1, <1>t, WorkerSteps DEF Add, Pc
  <2>4. ClientType'
    BY <1>4, <2>1, <1>t, <1>n, ClientSteps, AddedType DEF Add
  <2>5. BytesType'
    BY <1>4, <2>1, <1>t, BytesKept, AddedType DEF Add
  <2>6. CountType'
    BY <1>4, <2>1, <1>t, CountFine DEF Add
  <2>7. RoundInv'
    BY <1>4, <2>1, <1>t, SettingKept, Bounds DEF RoundInv, TypeOK, Add, worker, Goes
  <2> QED
    BY <2>1, <2>2, <2>3, <2>4, <2>5, <2>6, <2>7, <1>p
<1>5. CASE Setup
  <2>1. UNCHANGED setting
    BY <1>5 DEF Setup
  <2>2. RowType'
    BY <1>5, <2>1, <1>t, SettingKept DEF Setup, row, Fine, RowType, TypeOK, State
  <2>3. WorkerType'
    BY <1>5, <2>1, <1>t, WorkerSteps DEF Setup
  <2>4. ClientType'
    BY <1>5, <2>1, <1>t, <1>n, ClientSteps DEF Setup
  <2>5. BytesType'
    BY <1>5, <2>1, <1>t, BytesKept DEF Setup
  <2>6. CountType'
    BY <1>5, <2>1, <1>t, CountFine DEF Setup
  <2>7. RoundInv'
    BY <1>5, <2>1, <1>t, SettingKept, Bounds DEF RoundInv, TypeOK, Setup, Park
  <2> QED
    BY <2>1, <2>2, <2>3, <2>4, <2>5, <2>6, <2>7, <1>p
<1>6. CASE SetupRemote
  <2>1. UNCHANGED setting
    BY <1>6 DEF SetupRemote
  <2>2. RowType'
    BY <1>6, <2>1, <1>t, SettingKept DEF SetupRemote, RowType, TypeOK, State
  <2>3. WorkerType'
    BY <1>6, <2>1, <1>t, WorkerSteps DEF SetupRemote
  <2>4. ClientType'
    BY <1>6, <2>1, <1>t, <1>n, ClientSteps DEF SetupRemote
  <2>5. BytesType'
    BY <1>6, <2>1, <1>t, BytesKept DEF SetupRemote
  <2>6. CountType'
    BY <1>6, <2>1, <1>t, CountFine DEF SetupRemote, Fine
  <2>7. RoundInv'
    BY <1>6, <2>1, <1>t, SettingKept, Bounds DEF RoundInv, TypeOK, SetupRemote, Park
  <2> QED
    BY <2>1, <2>2, <2>3, <2>4, <2>5, <2>6, <2>7, <1>p
<1>7. CASE SetupSingle
  <2>1. UNCHANGED setting
    BY <1>7 DEF SetupSingle
  <2>2. RowType'
    BY <1>7, <2>1, <1>t, SettingKept DEF SetupSingle, RowType, TypeOK, State
  <2>3. WorkerType'
    BY <1>7, <2>1, <1>t, WorkerSteps DEF SetupSingle
  <2>4. ClientType'
    <3>1. (UNCHANGED client) \/ Becomes("running")
      BY <1>7 DEF SetupSingle
    <3> QED
      BY <2>1, <3>1, <1>t, ClientSteps
  <2>5. BytesType'
    BY <1>7, <2>1, <1>t, BytesKept DEF SetupSingle
  <2>6. CountType'
    BY <1>7, <2>1, <1>t, CountFine DEF SetupSingle
  <2>7. RoundInv'
    BY <1>7, <2>1, <1>t, SettingKept, Bounds DEF RoundInv, TypeOK, SetupSingle, Park
  <2> QED
    BY <2>1, <2>2, <2>3, <2>4, <2>5, <2>6, <2>7, <1>p
<1>8. CASE Adopt
  <2>1. UNCHANGED setting
    BY <1>8 DEF Adopt
  <2>2. RowType'
    BY <1>8, <2>1, <1>t, SettingKept DEF Adopt, RowType, TypeOK, State
  <2>3. WorkerType'
    BY <1>8, <2>1, <1>t, WorkerSteps DEF Adopt
  <2>4. ClientType'
    BY <1>8, <2>1, <1>t, <1>n, ClientSteps DEF Adopt, TypeOK
  <2>5. BytesType'
    BY <1>8, <2>1, <1>t, BytesKept DEF Adopt
  <2>6. CountType'
    BY <1>8, <2>1, <1>t, CountFine DEF Adopt
  <2>7. RoundInv'
    BY <1>8, <2>1, <1>t, SettingKept, Bounds DEF RoundInv, TypeOK, Adopt, worker
  <2> QED
    BY <2>1, <2>2, <2>3, <2>4, <2>5, <2>6, <2>7, <1>p
<1>9. CASE Enter
  <2>1. UNCHANGED setting
    BY <1>9 DEF Enter
  <2>2. RowType'
    BY <1>9, <2>1, <1>t, SettingKept DEF Enter, RowType, TypeOK, State
  <2>3. WorkerType'
    BY <1>9, <2>1, <1>t, WorkerSteps DEF Enter, Pc
  <2>4. ClientType'
    BY <1>9, <2>1, <1>t, <1>n, ClientSteps DEF Enter, TypeOK
  <2>5. BytesType'
    BY <1>9, <2>1, <1>t, BytesKept DEF Enter
  <2>6. CountType'
    BY <1>9, <2>1, <1>t, CountFine DEF Enter
  <2>7. RoundInv'
    BY <1>9, <2>1, <1>t, SettingKept, Bounds DEF RoundInv, TypeOK, Enter, Goes, Park
  <2> QED
    BY <2>1, <2>2, <2>3, <2>4, <2>5, <2>6, <2>7, <1>p
<1>10. CASE Again
  <2>1. UNCHANGED setting
    BY <1>10 DEF Again
  <2>2. RowType'
    BY <1>10, <2>1, <1>t, SettingKept DEF Again, Batched, RowType, TypeOK, State
  <2>3. WorkerType'
    BY <1>10, <2>1, <1>t, WorkerSteps DEF Again, Pc
  <2>4. ClientType'
    BY <1>10, <2>1, <1>t, <1>n, ClientSteps DEF Again, TypeOK, client
  <2>5. BytesType'
    BY <1>10, <2>1, <1>t, BytesKept DEF Again
  <2>6. CountType'
    BY <1>10, <2>1, <1>t, CountFine DEF Again, Fine
  <2>7. RoundInv'
    BY <1>10, <2>1, <1>t, SettingKept, Bounds DEF RoundInv, TypeOK, Again, Goes
  <2> QED
    BY <2>1, <2>2, <2>3, <2>4, <2>5, <2>6, <2>7, <1>p
<1>11. CASE Loop
  <2>1. UNCHANGED setting
    BY <1>11 DEF Loop
  <2>2. RowType'
    BY <1>11, <2>1, <1>t, SettingKept DEF Loop, row, RowType, TypeOK, State
  <2>3. WorkerType'
    BY <1>11, <2>1, <1>t, <1>n, SettingKept DEF Loop, WorkerType, TypeOK, Pc
  <2>4. ClientType'
    BY <1>11, <2>1, <1>t, <1>n, ClientSteps DEF Loop
  <2>5. BytesType'
    BY <1>11, <2>1, <1>t, BytesKept DEF Loop
  <2>6. CountType'
    BY <1>11, <2>1, <1>t, CountFine DEF Loop, Fine
  <2>7. RoundInv'
    BY <1>11, <2>1, <1>t, SettingKept, Bounds DEF RoundInv, TypeOK, Loop
  <2> QED
    BY <2>1, <2>2, <2>3, <2>4, <2>5, <2>6, <2>7, <1>p
<1>12. CASE Wait
  <2>1. UNCHANGED setting
    BY <1>12 DEF Wait
  <2>2. RowType'
    BY <1>12, <2>1, <1>t, SettingKept DEF Wait, row, RowType, TypeOK, State
  <2>3. WorkerType'
    BY <1>12, <2>1, <1>t, WorkerSteps DEF Wait, Pc
  <2>4. ClientType'
    BY <1>12, <2>1, <1>t, <1>n, ClientSteps DEF Wait
  <2>5. BytesType'
    BY <1>12, <2>1, <1>t, BytesKept DEF Wait
  <2>6. CountType'
    BY <1>12, <2>1, <1>t, CountFine DEF Wait, Fine
  <2>7. RoundInv'
    BY <1>12, <2>1, <1>t, SettingKept, Bounds DEF RoundInv, TypeOK, Wait, Goes, AwaitsBatch, row
  <2> QED
    BY <2>1, <2>2, <2>3, <2>4, <2>5, <2>6, <2>7, <1>p
<1>13. CASE Stall
  <2>1. UNCHANGED setting
    BY <1>13 DEF Stall
  <2>2. RowType'
    BY <1>13, <2>1, <1>t, SettingKept DEF Stall, row, RowType, TypeOK, State
  <2>3. WorkerType'
    BY <1>13, <2>1, <1>t, SettingKept, Bounds DEF Stall, WorkerType, TypeOK, Pc
  <2>4. ClientType'
    BY <1>13, <2>1, <1>t, <1>n, ClientSteps DEF Stall, client
  <2>5. BytesType'
    BY <1>13, <2>1, <1>t, BytesKept DEF Stall, bytes
  <2>6. CountType'
    BY <1>13, <2>1, <1>t, CountFine DEF Stall, Fine
  <2>7. RoundInv'
    BY <1>13, <2>1, <1>t, SettingKept, Bounds DEF RoundInv, TypeOK, Stall
  <2> QED
    BY <2>1, <2>2, <2>3, <2>4, <2>5, <2>6, <2>7, <1>p
<1>14. CASE Pause
  <2>1. UNCHANGED setting
    BY <1>14 DEF Pause
  <2>2. RowType'
    BY <1>14, <2>1, <1>t, SettingKept DEF Pause, row, RowType, TypeOK, State
  <2>3. WorkerType'
    BY <1>14, <2>1, <1>t, WorkerSteps DEF Pause, Pc
  <2>4. ClientType'
    BY <1>14, <2>1, <1>t, <1>n, ClientSteps DEF Pause
  <2>5. BytesType'
    BY <1>14, <2>1, <1>t, BytesKept DEF Pause
  <2>6. CountType'
    BY <1>14, <2>1, <1>t, CountFine DEF Pause
  <2>7. RoundInv'
    BY <1>14, <2>1, <1>t, SettingKept, Bounds DEF RoundInv, TypeOK, Pause, Goes, Retry, Park, row
  <2> QED
    BY <2>1, <2>2, <2>3, <2>4, <2>5, <2>6, <2>7, <1>p
<1>15. CASE Move
  <2>1. UNCHANGED setting
    BY <1>15 DEF Move
  <2>2. RowType'
    BY <1>15, <2>1, <1>t, SettingKept DEF Move, RowType, TypeOK, State
  <2>3. WorkerType'
    <3>1. \/ Retry \/ Park
          \/ pc' = Moved /\ tries' = 0 /\ UNCHANGED <<todo, parks, heals>>
      BY <1>15 DEF Move
    <3>2. Moved \in Pc
      BY DEF Moved, Pc
    <3>3. CASE pc' = Moved /\ tries' = 0 /\ UNCHANGED <<todo, parks, heals>>
      BY <3>2, <3>3, <2>1, <1>t, SettingKept, Bounds DEF WorkerType, TypeOK
    <3> QED
      BY <2>1, <3>1, <3>3, <1>t, WorkerSteps
  <2>4. ClientType'
    BY <1>15, <2>1, <1>t, <1>n, ClientSteps DEF Move, Shipped, TypeOK
  <2>5. BytesType'
    BY <1>15, <2>1, <1>t, ShippedType DEF Move, Shipped, TypeOK
  <2>6. CountType'
    BY <1>15, <2>1, <1>t, CountFine DEF Move
  <2>7. RoundInv'
    BY <1>15, <2>1, <1>t, SettingKept, Bounds DEF RoundInv, TypeOK, Move, Moved, Retry, Park
  <2> QED
    BY <2>1, <2>2, <2>3, <2>4, <2>5, <2>6, <2>7, <1>p
<1>16. CASE Flip
  <2>1. UNCHANGED setting
    BY <1>16 DEF Flip
  <2>2. RowType'
    BY <1>16, <2>1, <1>t, SettingKept DEF Flip, row, RowType, TypeOK, State
  <2>3. WorkerType'
    BY <1>16, <2>1, <1>t, WorkerSteps DEF Flip, Pc
  <2>4. ClientType'
    BY <1>16, <2>1, <1>t, <1>n, ClientSteps DEF Flip, TypeOK
  <2>5. BytesType'
    BY <1>16, <2>1, <1>t, BytesKept DEF Flip
  <2>6. CountType'
    BY <1>16, <2>1, <1>t, CountFine DEF Flip
  <2>7. RoundInv'
    BY <1>16, <2>1, <1>t, SettingKept, Bounds DEF RoundInv, TypeOK, Flip, Goes, Park, row
  <2> QED
    BY <2>1, <2>2, <2>3, <2>4, <2>5, <2>6, <2>7, <1>p
<1>17. CASE Advance
  <2>1. UNCHANGED setting
    BY <1>17 DEF Advance
  <2>2. RowType'
    BY <1>17, <2>1, <1>t, SettingKept DEF Advance, RoundInv, RowType, TypeOK, State
  <2>3. WorkerType'
    BY <1>17, <2>1, <1>t, WorkerSteps DEF Advance, Pc
  <2>4. ClientType'
    BY <1>17, <2>1, <1>t, <1>n, ClientSteps DEF Advance
  <2>5. BytesType'
    BY <1>17, <2>1, <1>t, BytesKept DEF Advance
  <2>6. CountType'
    BY <1>17, <2>1, <1>t, CountFine DEF Advance, Fine
  <2>7. RoundInv'
    BY <1>17, <2>1, <1>t, SettingKept, Bounds DEF RoundInv, TypeOK, Advance, Goes
  <2> QED
    BY <2>1, <2>2, <2>3, <2>4, <2>5, <2>6, <2>7, <1>p
<1>18. CASE Finish
  <2>1. UNCHANGED setting
    BY <1>18 DEF Finish
  <2>2. RowType'
    BY <1>18, <2>1, <1>t, SettingKept DEF Finish, RowType, TypeOK, State
  <2>3. WorkerType'
    BY <1>18, <2>1, <1>t, WorkerSteps DEF Finish
  <2>4. ClientType'
    BY <1>18, <2>1, <1>t, <1>n, ClientSteps DEF Finish
  <2>5. BytesType'
    BY <1>18, <2>1, <1>t, BytesKept DEF Finish
  <2>6. CountType'
    BY <1>18, <2>1, <1>t, CountFine DEF Finish, Fine
  <2>7. RoundInv'
    BY <1>18, <2>1, <1>t, SettingKept, Bounds DEF RoundInv, TypeOK, Finish, Park
  <2> QED
    BY <2>1, <2>2, <2>3, <2>4, <2>5, <2>6, <2>7, <1>p
<1>19. CASE List
  <2>1. UNCHANGED setting
    BY <1>19 DEF List
  <2>2. RowType'
    BY <1>19, <2>1, <1>t, SettingKept DEF List, row, RowType, TypeOK, State
  <2>3. WorkerType'
    BY <1>19, <2>1, <1>t, SettingKept DEF List, Claimed, WorkerType, TypeOK, Pc
  <2>4. ClientType'
    BY <1>19, <2>1, <1>t, <1>n, ClientSteps DEF List
  <2>5. BytesType'
    BY <1>19, <2>1, <1>t, BytesKept DEF List
  <2>6. CountType'
    BY <1>19, <2>1, <1>t, CountFine DEF List, Fine
  <2>7. RoundInv'
    BY <1>19, <2>1, <1>t, SettingKept, Bounds DEF RoundInv, TypeOK, List
  <2> QED
    BY <2>1, <2>2, <2>3, <2>4, <2>5, <2>6, <2>7, <1>p
<1>20. CASE PauseMoving
  <2>1. UNCHANGED setting
    BY <1>20 DEF PauseMoving
  <2>2. RowType'
    BY <1>20, <2>1, <1>t, SettingKept DEF PauseMoving, row, RowType, TypeOK, State
  <2>3. WorkerType'
    BY <1>20, <2>1, <1>t, WorkerSteps DEF PauseMoving, Pc
  <2>4. ClientType'
    BY <1>20, <2>1, <1>t, <1>n, ClientSteps DEF PauseMoving
  <2>5. BytesType'
    BY <1>20, <2>1, <1>t, BytesKept DEF PauseMoving
  <2>6. CountType'
    BY <1>20, <2>1, <1>t, CountFine DEF PauseMoving
  <2>7. RoundInv'
    BY <1>20, <2>1, <1>t, SettingKept, Bounds DEF RoundInv, TypeOK, PauseMoving, Goes, Park, row
  <2> QED
    BY <2>1, <2>2, <2>3, <2>4, <2>5, <2>6, <2>7, <1>p
<1>21. CASE Sort
  <2>1. UNCHANGED setting
    BY <1>21 DEF Sort
  <2>2. RowType'
    BY <1>21, <2>1, <1>t, SettingKept DEF Sort, RowType, TypeOK, State
  <2>3. WorkerType'
    <3>1. \/ Park
          \/ /\ todo' = Payload \cap FullSize /\ pc' \in {"ship", "shipHeld"}
             /\ UNCHANGED <<tries, parks, heals>>
      BY <1>21 DEF Sort
    <3> QED
      BY <2>1, <3>1, <1>t, WorkerSteps, SettingKept DEF WorkerType, TypeOK, Pc, FullSize
  <2>4. ClientType'
    <3>1. \/ Punched(Short) /\ UNCHANGED have /\ ((UNCHANGED entry) \/ Resumed)
          \/ Rechecked(Short) /\ UNCHANGED entry
      BY <1>21 DEF Sort
    <3>2. UNCHANGED want /\ Short \subseteq Files
      BY <1>21 DEF Sort, Short
    <3> QED
      BY <2>1, <3>1, <3>2, <1>t, SettingKept DEF ClientType, TypeOK, Punched, Resumed, Rechecked
  <2>5. BytesType'
    BY <1>21, <2>1, <1>t, SettingKept DEF Sort, BytesType, TypeOK
  <2>6. CountType'
    BY <1>21, <2>1, <1>t, CountFine DEF Sort, Resumed, Fine
  <2>7. RoundInv'
    BY <1>21, <2>1, <1>t, SettingKept DEF RoundInv, TypeOK, Sort, Park
  <2> QED
    BY <2>1, <2>2, <2>3, <2>4, <2>5, <2>6, <2>7, <1>p
<1>22. CASE Ship
  <2>1. UNCHANGED setting
    BY <1>22 DEF Ship
  <2>2. RowType'
    BY <1>22, <2>1, <1>t, SettingKept DEF Ship, RowType, TypeOK, State
  <2>3. WorkerType'
    BY <1>22, <2>1, <1>t, WorkerSteps DEF Ship, Pc
  <2>4. ClientType'
    <3>1. PICK m \in SUBSET todo :
            /\ Punched(m)
            /\ UNCHANGED <<want, have>>
            /\ (UNCHANGED entry) \/ Resumed
      BY <1>22 DEF Ship, Shipped
    <3>2. Files' = Files /\ m \subseteq Files
      BY <2>1, <1>t, SettingKept DEF TypeOK
    <3>3. entry' \in {"none", "paused", "running"}
      BY <3>1, <1>t DEF TypeOK, Resumed
    <3>4. holes' \subseteq Files
      BY <3>1, <3>2, <1>t DEF TypeOK, Punched
    <3>5. want' \subseteq Files /\ have' \in [Files -> {"none", "some", "near", "all"}]
      BY <3>1, <1>t DEF TypeOK
    <3> QED
      BY <3>2, <3>3, <3>4, <3>5 DEF ClientType
  <2>5. BytesType'
    BY <1>22, <2>1, <1>t, ShippedType DEF Ship, Shipped, TypeOK
  <2>6. CountType'
    BY <1>22, <2>1, <1>t, CountFine DEF Ship, Resumed, Fine, Trouble
  <2>7. RoundInv'
    BY <1>22, <2>1, <1>t, SettingKept, Bounds DEF RoundInv, TypeOK, Ship, Goes, Park
  <2> QED
    BY <2>1, <2>2, <2>3, <2>4, <2>5, <2>6, <2>7, <1>p
<1>23. CASE Drop
  <2>1. UNCHANGED setting
    BY <1>23 DEF Drop
  <2>2. RowType'
    BY <1>23, <2>1, <1>t, SettingKept DEF Drop, row, RowType, TypeOK, State
  <2>3. WorkerType'
    BY <1>23, <2>1, <1>t, WorkerSteps DEF Drop, Pc
  <2>4. ClientType'
    BY <1>23, <2>1, <1>t, <1>n, ClientSteps DEF Drop
  <2>5. BytesType'
    BY <1>23, <2>1, <1>t, BytesKept DEF Drop
  <2>6. CountType'
    BY <1>23, <2>1, <1>t, CountFine DEF Drop
  <2>7. RoundInv'
    BY <1>23, <2>1, <1>t, SettingKept, Bounds DEF RoundInv, TypeOK, Drop, Goes
  <2> QED
    BY <2>1, <2>2, <2>3, <2>4, <2>5, <2>6, <2>7, <1>p
<1>24. CASE Wipe
  <2>1. UNCHANGED setting
    BY <1>24 DEF Wipe
  <2>2. RowType'
    BY <1>24, <2>1, <1>t, SettingKept DEF Wipe, row, RowType, TypeOK, State
  <2>3. WorkerType'
    BY <1>24, <2>1, <1>t, WorkerSteps DEF Wipe, Pc
  <2>4. ClientType'
    BY <1>24, <2>1, <1>t, <1>n, ClientSteps DEF Wipe, OnSsd
  <2>5. BytesType'
    BY <1>24, <2>1, <1>t, BytesKept DEF Wipe
  <2>6. CountType'
    BY <1>24, <2>1, <1>t, CountFine DEF Wipe, Fine
  <2>7. RoundInv'
    BY <1>24, <2>1, <1>t, SettingKept, Bounds DEF RoundInv, TypeOK, Wipe, Goes
  <2> QED
    BY <2>1, <2>2, <2>3, <2>4, <2>5, <2>6, <2>7, <1>p
<1>25. CASE Handover
  <2>1. UNCHANGED setting
    BY <1>25 DEF Handover
  <2>2. RowType'
    BY <1>25, <2>1, <1>t, SettingKept DEF Handover, RowType, TypeOK, State
  <2>3. WorkerType'
    BY <1>25, <2>1, <1>t, WorkerSteps DEF Handover
  <2>4. ClientType'
    BY <1>25, <2>1, <1>t, <1>n, ClientSteps DEF Handover
  <2>5. BytesType'
    BY <1>25, <2>1, <1>t, BytesKept DEF Handover
  <2>6. CountType'
    BY <1>25, <2>1, <1>t, CountFine DEF Handover, Fine
  <2>7. RoundInv'
    BY <1>25, <2>1, <1>t, SettingKept, Bounds DEF RoundInv, TypeOK, Handover, Park
  <2> QED
    BY <2>1, <2>2, <2>3, <2>4, <2>5, <2>6, <2>7, <1>p
<1>26. CASE Inject
  <2>1. UNCHANGED setting
    BY <1>26 DEF Inject
  <2>2. RowType'
    BY <1>26, <2>1, <1>t, SettingKept DEF Inject, RowType, TypeOK, State
  <2>3. WorkerType'
    BY <1>26, <2>1, <1>t, WorkerSteps DEF Inject
  <2>4. ClientType'
    BY <1>26, <2>1, <1>t, <1>n, ClientSteps DEF Inject
  <2>5. BytesType'
    BY <1>26, <2>1, <1>t, BytesKept DEF Inject
  <2>6. CountType'
    BY <1>26, <2>1, <1>t, CountFine DEF Inject, Fine
  <2>7. RoundInv'
    BY <1>26, <2>1, <1>t, SettingKept, Bounds DEF RoundInv, TypeOK, Inject, worker
  <2> QED
    BY <2>1, <2>2, <2>3, <2>4, <2>5, <2>6, <2>7, <1>p
<1>27. CASE GiveUp
  <2>1. UNCHANGED setting
    BY <1>27 DEF GiveUp
  <2>2. RowType'
    BY <1>27, <2>1, <1>t, SettingKept DEF GiveUp, RowType, TypeOK, State
  <2>3. WorkerType'
    BY <1>27, <2>1, <1>t, WorkerSteps DEF GiveUp
  <2>4. ClientType'
    BY <1>27, <2>1, <1>t, <1>n, ClientSteps DEF GiveUp
  <2>5. BytesType'
    BY <1>27, <2>1, <1>t, BytesKept DEF GiveUp
  <2>6. CountType'
    BY <1>27, <2>1, <1>t, CountFine DEF GiveUp, Fine
  <2>7. RoundInv'
    BY <1>27, <2>1, <1>t, SettingKept, Bounds DEF RoundInv, TypeOK, GiveUp, worker
  <2> QED
    BY <2>1, <2>2, <2>3, <2>4, <2>5, <2>6, <2>7, <1>p
<1>28. CASE Heal
  <2>1. UNCHANGED setting
    BY <1>28 DEF Heal
  <2>2. RowType'
    BY <1>28, <2>1, <1>t, SettingKept DEF Heal, row, RowType, TypeOK, State
  <2>3. WorkerType'
    BY <1>28, <2>1, <1>t, WorkerSteps, SettingKept DEF Heal, WorkerType, TypeOK, Pc
  <2>4. ClientType'
    BY <1>28, <2>1, <1>t, <1>n, ClientSteps, AddedType DEF Heal, TypeOK
  <2>5. BytesType'
    BY <1>28, <2>1, <1>t, BytesKept, AddedType DEF Heal
  <2>6. CountType'
    BY <1>28, <2>1, <1>t, CountFine DEF Heal
  <2>7. RoundInv'
    BY <1>28, <2>1, <1>t, SettingKept, Bounds DEF RoundInv, TypeOK, Heal, worker, row
  <2> QED
    BY <2>1, <2>2, <2>3, <2>4, <2>5, <2>6, <2>7, <1>p
<1>29. CASE HealArrived
  <2>1. UNCHANGED setting
    BY <1>29 DEF HealArrived
  <2>2. RowType'
    BY <1>29, <2>1, <1>t, SettingKept DEF HealArrived, row, RowType, TypeOK, State
  <2>3. WorkerType'
    BY <1>29, <2>1, <1>t, WorkerSteps DEF HealArrived, Pc
  <2>4. ClientType'
    BY <1>29, <2>1, <1>t, <1>n, ClientSteps DEF HealArrived
  <2>5. BytesType'
    BY <1>29, <2>1, <1>t, BytesKept DEF HealArrived
  <2>6. CountType'
    BY <1>29, <2>1, <1>t, CountFine DEF HealArrived
  <2>7. RoundInv'
    BY <1>29, <2>1, <1>t, SettingKept, Bounds DEF RoundInv, TypeOK, HealArrived, Goes, row
  <2> QED
    BY <2>1, <2>2, <2>3, <2>4, <2>5, <2>6, <2>7, <1>p
<1>30. CASE HealStall
  <2>1. UNCHANGED setting
    BY <1>30 DEF HealStall
  <2>2. RowType'
    BY <1>30, <2>1, <1>t, SettingKept DEF HealStall, row, RowType, TypeOK, State
  <2>3. WorkerType'
    BY <1>30, <2>1, <1>t, WorkerSteps DEF HealStall, RoundInv
  <2>4. ClientType'
    BY <1>30, <2>1, <1>t, <1>n, ClientSteps DEF HealStall
  <2>5. BytesType'
    BY <1>30, <2>1, <1>t, BytesKept DEF HealStall
  <2>6. CountType'
    BY <1>30, <2>1, <1>t, CountFine DEF HealStall, Fine
  <2>7. RoundInv'
    BY <1>30, <2>1, <1>t, SettingKept, Bounds DEF RoundInv, TypeOK, HealStall, HealFailed
  <2> QED
    BY <2>1, <2>2, <2>3, <2>4, <2>5, <2>6, <2>7, <1>p
<1>31. CASE HealMove
  <2>1. UNCHANGED setting
    BY <1>31 DEF HealMove
  <2>2. RowType'
    BY <1>31, <2>1, <1>t, SettingKept DEF HealMove, row, RowType, TypeOK, State
  <2>3. WorkerType'
    BY <1>31, <2>1, <1>t, WorkerSteps, SettingKept, Bounds DEF HealMove, RoundInv, WorkerType, TypeOK, Pc
  <2>4. ClientType'
    BY <1>31, <2>1, <1>t, <1>n, ClientSteps DEF HealMove, Shipped, TypeOK
  <2>5. BytesType'
    BY <1>31, <2>1, <1>t, ShippedType DEF HealMove, Shipped, TypeOK
  <2>6. CountType'
    BY <1>31, <2>1, <1>t, CountFine DEF HealMove
  <2>7. RoundInv'
    BY <1>31, <2>1, <1>t, SettingKept, Bounds DEF RoundInv, TypeOK, HealMove, HealFailed
  <2> QED
    BY <2>1, <2>2, <2>3, <2>4, <2>5, <2>6, <2>7, <1>p
<1>32. CASE Crash
  <2>1. UNCHANGED setting
    BY <1>32 DEF Crash
  <2>2. RowType'
    BY <1>32, <2>1, <1>t, SettingKept DEF Crash, row, RowType, TypeOK, State
  <2>3. WorkerType'
    BY <1>32, <2>1, <1>t, SettingKept, Bounds DEF Crash, WorkerType, TypeOK, Pc
  <2>4. ClientType'
    BY <1>32, <2>1, <1>t, <1>n, ClientSteps DEF Crash
  <2>5. BytesType'
    BY <1>32, <2>1, <1>t, BytesKept DEF Crash
  <2>6. CountType'
    BY <1>32, <2>1, <1>t, SettingType DEF Crash, CountType, TypeOK
  <2>7. RoundInv'
    BY <1>32, <2>1, <1>t, SettingKept, Bounds DEF RoundInv, TypeOK, Crash
  <2> QED
    BY <2>1, <2>2, <2>3, <2>4, <2>5, <2>6, <2>7, <1>p
<1>33. CASE Boot
  <2>1. UNCHANGED setting
    BY <1>33 DEF Boot
  <2>2. RowType'
    BY <1>33, <2>1, <1>t, SettingKept DEF Boot, row, RowType, TypeOK, State
  <2>3. WorkerType'
    BY <1>33, <2>1, <1>t, WorkerSteps DEF Boot, Pc
  <2>4. ClientType'
    BY <1>33, <2>1, <1>t, <1>n, ClientSteps DEF Boot
  <2>5. BytesType'
    BY <1>33, <2>1, <1>t, BytesKept DEF Boot
  <2>6. CountType'
    BY <1>33, <2>1, <1>t, CountFine DEF Boot, Fine
  <2>7. RoundInv'
    BY <1>33, <2>1, <1>t, SettingKept, Bounds DEF RoundInv, TypeOK, Boot, Goes
  <2> QED
    BY <2>1, <2>2, <2>3, <2>4, <2>5, <2>6, <2>7, <1>p
<1>34. CASE UNCHANGED vars
  BY <1>34, <1>t, SettingKept DEF vars, row, worker, client, bytes, TInv, TypeOK, RoundInv
<1>35. CASE Recover
  <2>1. UNCHANGED setting
    BY <1>35 DEF Recover
  <2>2. RowType'
    BY <1>35, <2>1, <1>t, SettingKept DEF Recover, Recovered, RowType, TypeOK, State
  <2>3. WorkerType'
    BY <1>35, <2>1, <1>t, SettingKept DEF Recover, worker, WorkerType, TypeOK, Pc
  <2>4. ClientType'
    BY <1>35, <2>1, <1>t, <1>n, ClientSteps, AddedType DEF Recover, Recovered
  <2>5. BytesType'
    BY <1>35, <2>1, <1>t, BytesKept, AddedType DEF Recover, Recovered
  <2>6. CountType'
    BY <1>35, <2>1, <1>t, CountFine DEF Recover, Recovered
  <2>7. RoundInv'
    BY <1>35, <2>1, <1>t, SettingKept, Bounds DEF RoundInv, TypeOK, Recover, worker
  <2> QED
    BY <2>1, <2>2, <2>3, <2>4, <2>5, <2>6, <2>7, <1>p
<1>36. CASE Vanished
  <2>1. UNCHANGED setting
    BY <1>36 DEF Vanished
  <2>2. RowType'
    BY <1>36, <2>1, <1>t, SettingKept DEF Vanished, RowType, TypeOK, State
  <2>3. WorkerType'
    BY <1>36, <2>1, <1>t, WorkerSteps DEF Vanished, Pc
  <2>4. ClientType'
    BY <1>36, <2>1, <1>t, <1>n, ClientSteps DEF Vanished
  <2>5. BytesType'
    BY <1>36, <2>1, <1>t, BytesKept DEF Vanished
  <2>6. CountType'
    BY <1>36, <2>1, <1>t, CountFine DEF Vanished, Fine
  <2>7. RoundInv'
    BY <1>36, <2>1, <1>t, SettingKept, Bounds DEF RoundInv, TypeOK, Vanished, Park
  <2> QED
    BY <2>1, <2>2, <2>3, <2>4, <2>5, <2>6, <2>7, <1>p
<1> QED
  BY <1>1, <1>2, <1>3, <1>4, <1>5, <1>6, <1>7, <1>8, <1>9, <1>10, <1>11, <1>12, <1>13, <1>14, <1>15, <1>16, <1>17, <1>18, <1>19, <1>20, <1>21, <1>22, <1>23, <1>24, <1>25, <1>26, <1>27, <1>28, <1>29, <1>30, <1>31, <1>32, <1>33, <1>34, <1>35, <1>36
  DEF Next, Work, Download, Moving, Readd, Timer, Environment

-----------------------------------------------------------------------------
(* What is on the remote stays there.                                       *)

\* Only a move changes the remote; only it and the mount's index, what the
\* mount shows.
LEMMA RemoteSteps ==
  ASSUME TInv, [Next]_vars
  PROVE  \/ UNCHANGED <<remote, fuse>>
         \/ UNCHANGED remote /\ \E f \in Files : remote[f] # "none" /\ fuse' = fuse \cup {f}
         \/ (Move \/ Ship \/ HealMove) /\ \E m \in SUBSET Files : m \subseteq todo /\ ShippedBytes(m)
<1> DEFINE P == \/ UNCHANGED <<remote, fuse>>
                \/ UNCHANGED remote /\ \E f \in Files : remote[f] # "none" /\ fuse' = fuse \cup {f}
                \/ (Move \/ Ship \/ HealMove) /\ \E m \in SUBSET Files : m \subseteq todo /\ ShippedBytes(m)
<1>1. ASSUME NEW f \in AllFiles, Fetch(f) \/ Spill(f) \/ Index(f) PROVE P
  BY <1>1 DEF Fetch, Spill, Index
<1>2. CASE Add \/ Setup \/ SetupRemote \/ SetupSingle \/ Adopt
  BY <1>2 DEF Add, Setup, SetupRemote, SetupSingle, Adopt, Added, bytes
<1>3. CASE Enter \/ Again \/ Loop \/ Wait \/ Vanished \/ Stall \/ Pause \/ Flip \/ Advance \/ Finish
  BY <1>3 DEF Enter, Again, Loop, Wait, Vanished, Stall, Pause, Flip, Advance, Finish, bytes
<1>4. CASE List \/ PauseMoving \/ Sort \/ Drop \/ Wipe \/ Handover
  BY <1>4 DEF List, PauseMoving, Sort, Drop, Wipe, Handover, bytes
<1>5. CASE Inject \/ GiveUp \/ Heal \/ HealArrived \/ HealStall
  BY <1>5 DEF Inject, GiveUp, Heal, HealArrived, HealStall, Added, bytes
<1>6. CASE Crash \/ Boot \/ Recover
  BY <1>6 DEF Crash, Boot, Recover, Recovered, Added, bytes
<1>7. CASE Move \/ Ship \/ HealMove
  <2>1. todo \subseteq Files
    BY DEF TInv, TypeOK
  <2>2. \E m \in SUBSET todo : ShippedBytes(m)
    BY <1>7 DEF Move, Ship, HealMove, Shipped
  <2> QED
    BY <1>7, <2>1, <2>2
<1>8. CASE UNCHANGED vars
  BY <1>8 DEF vars, bytes
<1> QED
  BY <1>1, <1>2, <1>3, <1>4, <1>5, <1>6, <1>7, <1>8
  DEF Next, Work, Download, Moving, Readd, Timer, Environment

\* No step changes the torrent.
LEMMA StepSetting == [Next]_vars => UNCHANGED setting
<1>1. ASSUME NEW f \in AllFiles, Fetch(f) \/ Spill(f) \/ Index(f) PROVE UNCHANGED setting
  BY <1>1 DEF Fetch, Spill, Index
<1> QED
  BY <1>1 DEF Next, Work, Download, Moving, Readd, Timer, Environment, vars, Add, Setup,
     SetupRemote, SetupSingle, Adopt, Enter, Again, Loop, Wait, Vanished, Stall, Pause, Move, Flip, Advance,
     Finish, List, PauseMoving, Sort, Ship, Drop, Wipe, Handover, Inject, GiveUp, Heal,
     HealArrived, HealStall, HealMove, Crash, Boot, Recover

\* No step takes a file off the remote.
LEMMA RemoteKept ==
  ASSUME TInv, [Next]_vars
  PROVE  Delivered \subseteq Delivered'
<1>1. TypeOK /\ Files' = Files
  BY StepSetting, SettingKept DEF TInv
<1>2. CASE UNCHANGED remote
  BY <1>1, <1>2 DEF Delivered
<1>3. ASSUME NEW m \in SUBSET Files, ShippedBytes(m) PROVE Delivered \subseteq Delivered'
  BY <1>1, <1>3 DEF Delivered, ShippedBytes
<1> QED
  BY <1>2, <1>3, RemoteSteps

\* A move delivers what it moves.
LEMMA MoveDelivers ==
  ASSUME TypeOK, UNCHANGED setting, NEW m \in SUBSET Files, ShippedBytes(m)
  PROVE  m \subseteq Delivered'
BY SettingKept DEF Delivered, ShippedBytes, TypeOK

\* What the mount shows is on the remote.
LEMMA StepFuse == TInv /\ FuseTrue /\ [Next]_vars => FuseTrue'
<1> SUFFICES ASSUME TInv, FuseTrue, [Next]_vars PROVE FuseTrue'
  OBVIOUS
<1>1. TypeOK /\ UNCHANGED setting /\ Files' = Files
  BY StepSetting, SettingKept DEF TInv
<1>2. Delivered \subseteq Delivered'
  BY RemoteKept
<1>3. CASE UNCHANGED <<remote, fuse>>
  BY <1>2, <1>3 DEF FuseTrue
<1>4. ASSUME UNCHANGED remote, NEW f \in Files, remote[f] # "none", fuse' = fuse \cup {f}
      PROVE FuseTrue'
  BY <1>1, <1>4 DEF FuseTrue, Delivered
<1>5. ASSUME NEW m \in SUBSET Files, ShippedBytes(m) PROVE FuseTrue'
  <2>1. fuse' \subseteq fuse \cup m
    BY <1>5 DEF ShippedBytes
  <2> QED
    BY <1>1, <1>2, <1>5, <2>1, MoveDelivers DEF FuseTrue
<1> QED
  BY <1>3, <1>4, <1>5, RemoteSteps

-----------------------------------------------------------------------------
(* The gate.                                                                *)

\* Only the gate of RE_ADDING lets a row be done.
LEMMA DoneStep ==
  ASSUME TInv, [Next]_vars, state' = "DONE"
  PROVE  state = "DONE" \/ Gate
<1>1. ASSUME NEW f \in AllFiles, Fetch(f) \/ Spill(f) \/ Index(f) PROVE state' = state
  BY <1>1 DEF Fetch, Spill, Index, row
<1>2. CASE Add \/ Setup \/ SetupRemote \/ SetupSingle \/ Adopt
  BY <1>2 DEF Add, Setup, SetupRemote, SetupSingle, Adopt, row
<1>3. CASE Enter \/ Again \/ Loop \/ Wait \/ Vanished \/ Stall \/ Pause \/ Move \/ Flip \/ Advance \/ Finish
  BY <1>3 DEF Enter, Again, Loop, Wait, Vanished, Stall, Pause, Move, Flip, Advance, Finish, row
<1>4. CASE List \/ PauseMoving \/ Sort \/ Ship \/ Drop \/ Wipe \/ Handover
  BY <1>4 DEF List, PauseMoving, Sort, Ship, Drop, Wipe, Handover, row
<1>5. CASE Inject \/ GiveUp \/ Heal \/ HealArrived \/ HealStall \/ HealMove
  BY <1>5 DEF Inject, GiveUp, Heal, HealArrived, HealStall, HealMove, row
<1>6. CASE Crash \/ Boot \/ Recover
  BY <1>6 DEF Crash, Boot, Recover, Recovered, row
<1>7. CASE UNCHANGED vars
  BY <1>7 DEF vars, row
<1> QED
  BY <1>1, <1>2, <1>3, <1>4, <1>5, <1>6, <1>7
  DEF Next, Work, Download, Moving, Readd, Timer, Environment

\* Only the gate leads to DONE.
LEMMA StepDone == TInv /\ FuseTrue /\ DoneDelivered /\ [Next]_vars => DoneDelivered'
<1> SUFFICES ASSUME TInv, FuseTrue, DoneDelivered, [Next]_vars, state' = "DONE"
             PROVE  \A f \in Files' : remote'[f] # "none"
  BY DEF DoneDelivered
<1>1. Files' = Files
  BY StepSetting, SettingKept
<1>2. Files \subseteq Delivered
  BY DoneStep DEF DoneDelivered, Delivered, FuseTrue, Gate
<1>3. Files \subseteq Delivered'
  BY <1>2, RemoteKept
<1> QED
  BY <1>1, <1>3 DEF Delivered

-----------------------------------------------------------------------------
(* The rounds of DOWNLOADING.                                               *)

\* Outside a round nothing is claimed of the batch.
LEMMA OutOfRound ==
  ASSUME pc \notin {"wait", "pause", "move", "flip", "advance"}
  PROVE  BatchInv
BY DEF BatchInv

\* The steps of others take nothing from a round.
LEMMA RoundKept ==
  ASSUME TInv, BatchInv, [Next]_vars, UNCHANGED <<pc, todo, index>>,
         (Delivered \cup OnSsd) \cap todo \subseteq Delivered' \cup OnSsd'
  PROVE  BatchInv'
<1>1. Delivered \subseteq Delivered'
  BY RemoteKept
<1>2. Batch(index)' = Batch(index) /\ AwaitsBatch' = AwaitsBatch
  BY StepSetting, SettingKept DEF Batch, AwaitsBatch
<1> QED
  BY <1>1, <1>2 DEF BatchInv

\* A file of the batch is accounted for at every step of the round.
LEMMA StepBatch == TInv /\ FuseTrue /\ BatchInv /\ [Next]_vars => BatchInv'
<1> SUFFICES ASSUME TInv, FuseTrue, BatchInv, [Next]_vars PROVE BatchInv'
  OBVIOUS
<1>d. Delivered \subseteq Delivered'
  BY RemoteKept
<1>s. UNCHANGED setting /\ Files' = Files /\ Batches' = Batches /\ BatchOf' = BatchOf /\ Batched' = Batched
  BY StepSetting, SettingKept
<1>b. \A i : Batch(i) \subseteq Files
  BY DEF Batch
<1>1. ASSUME NEW f \in AllFiles, Fetch(f) \/ Spill(f) \/ Index(f) PROVE BatchInv'
  <2>1. UNCHANGED <<pc, todo, index>>
    BY <1>1 DEF Fetch, Spill, Index, row, worker
  <2>2. OnSsd \subseteq OnSsd'
    BY <1>1, <1>s DEF Fetch, Spill, Index, OnSsd, TInv, TypeOK
  <2> QED
    BY <2>1, <2>2, <1>d, RoundKept
<1>2. CASE Add \/ Setup \/ SetupRemote \/ SetupSingle \/ Adopt
  <2>1. pc' \in {"setup", "idle"}
    BY <1>2 DEF Add, Setup, SetupRemote, SetupSingle, Adopt, Goes, Park, worker
  <2> QED
    BY <2>1 DEF BatchInv
<1>3. CASE Enter \/ Again
  <2>1. pc' \in {"loop", "idle"} \/ (pc' = "wait" /\ ~ Batched)
    BY <1>3 DEF Enter, Again, Goes, Park
  <2> QED
    BY <2>1, <1>s DEF BatchInv, AwaitsBatch
<1>4. CASE Loop
  <2>1. pc' = "wait" /\ UNCHANGED <<index, remote>>
    BY <1>4 DEF Loop, row, bytes
  <2>2. index < Batches => todo' = Batch(index) \ fuse
    BY <1>4 DEF Loop, Need
  <2>3. AwaitsBatch' => index < Batches /\ Batch(index)' = Batch(index)
    BY <2>1, <1>s DEF AwaitsBatch, Batch
  <2>4. AwaitsBatch' => Batch(index)' \subseteq Delivered' \cup todo'
    BY <2>2, <2>3, <1>d DEF FuseTrue
  <2> QED
    BY <2>1, <2>4 DEF BatchInv
<1>5. CASE Wait
  <2>1. UNCHANGED <<todo, index, disk, remote>> /\ Arrived
    BY <1>5 DEF Wait, Goes, row, bytes
  <2>2. pc = "wait" /\ ((pc' = "pause" /\ AwaitsBatch) \/ pc' = "finish")
    BY <1>5 DEF Wait, Goes
  <2>3. CASE pc' = "finish"
    BY <2>3 DEF BatchInv
  <2>4. CASE pc' = "pause" /\ AwaitsBatch
    <3>1. todo \subseteq OnSsd
      BY <2>1, <2>4 DEF Arrived, FullSize, OnSsd
    <3>2. OnSsd' = OnSsd
      BY <2>1, <1>s DEF OnSsd
    <3>3. Batch(index)' = Batch(index)
      BY <2>1, <1>s DEF Batch
    <3>4. Batch(index) \subseteq Delivered \cup todo
      BY <2>2, <2>4 DEF BatchInv
    <3> QED
      BY <2>1, <2>4, <3>1, <3>2, <3>3, <3>4, <1>d DEF BatchInv
  <2> QED
    BY <2>2, <2>3, <2>4
<1>6. CASE Vanished \/ Stall \/ Finish \/ Crash
  <2>1. pc' \in {"idle", "boot"}
    BY <1>6 DEF Vanished, Stall, Finish, Crash, Park
  <2> QED
    BY <2>1 DEF BatchInv
<1>7. CASE Pause
  <2>1. \/ pc' \in {"loop", "idle"}
        \/ pc' = "move" /\ UNCHANGED <<todo, index, disk, remote>> /\ pc = "pause"
    BY <1>7 DEF Pause, Goes, Retry, Park, row, bytes
  <2>2. CASE pc' \in {"loop", "idle"}
    BY <2>2 DEF BatchInv
  <2>3. CASE pc' = "move" /\ UNCHANGED <<todo, index, disk, remote>> /\ pc = "pause"
    <3>1. OnSsd' = OnSsd /\ Batch(index)' = Batch(index) /\ AwaitsBatch' = AwaitsBatch
      BY <2>3, <1>s DEF OnSsd, Batch, AwaitsBatch
    <3> QED
      BY <2>3, <3>1, <1>d DEF BatchInv
  <2> QED
    BY <2>1, <2>2, <2>3
<1>8. CASE Move
  <2>1. PICK m \in SUBSET (todo \cap OnSsd) :
          /\ ShippedBytes(m)
          /\ pc' \in {"loop", "idle"} \/ (pc' = Moved /\ Left(m) = {})
    BY <1>8 DEF Move, Shipped, Retry, Park
  <2>2. pc = "move" /\ UNCHANGED index
    BY <1>8 DEF Move
  <2>3. CASE pc' \in {"loop", "idle"}
    BY <2>3 DEF BatchInv
  <2>4. CASE pc' = Moved /\ Left(m) = {}
    <3>1. AwaitsBatch
      BY <2>2 DEF TInv, RoundInv, AwaitsBatch
    <3>2. m \subseteq Delivered'
      BY <2>1, <1>s, MoveDelivers DEF TInv, TypeOK
    <3>3. todo \cap OnSsd \subseteq m
      BY <2>4 DEF Left
    <3>4. Batch(index) \subseteq Delivered \cup (todo \cap OnSsd)
      BY <2>2, <3>1 DEF BatchInv
    <3>5. Batch(index)' \subseteq Delivered'
      BY <3>2, <3>3, <3>4, <1>d, <2>2, <1>s DEF Batch
    <3>6. pc' \in {"flip", "advance"}
      BY <2>4 DEF Moved
    <3> QED
      BY <3>5, <3>6 DEF BatchInv
  <2> QED
    BY <2>1, <2>3, <2>4
<1>9. CASE Flip
  <2>1. pc = "flip" /\ pc' \in {"advance", "idle"} /\ UNCHANGED index
    BY <1>9 DEF Flip, Goes, Park, row
  <2>2. Batch(index)' \subseteq Delivered'
    BY <2>1, <1>d, <1>s DEF BatchInv, Batch
  <2> QED
    BY <2>1, <2>2 DEF BatchInv
<1>10. CASE Advance
  <2>1. pc' \in {"loop", "finish"}
    BY <1>10 DEF Advance, Goes
  <2> QED
    BY <2>1 DEF BatchInv
<1>11. CASE List \/ PauseMoving \/ Sort \/ Ship \/ Drop \/ Wipe \/ Handover
  <2>1. pc' \in {"mpause", "sort", "ship", "shipHeld", "drop", "wipe", "handover", "idle"}
    BY <1>11 DEF List, PauseMoving, Sort, Ship, Drop, Wipe, Handover, Goes, Park
  <2> QED
    BY <2>1 DEF BatchInv
<1>12. CASE Inject \/ GiveUp \/ Heal \/ HealArrived \/ HealStall \/ HealMove \/ Boot \/ Recover
  <2>1. pc' \in {"idle", "hwait", "hmove"}
    BY <1>12 DEF Inject, GiveUp, Heal, HealArrived, HealStall, HealMove, HealFailed, Boot, Recover, Goes, worker
  <2> QED
    BY <2>1 DEF BatchInv
<1>13. CASE UNCHANGED vars
  <2>1. UNCHANGED <<pc, todo, index, disk>>
    BY <1>13 DEF vars, row, worker, bytes
  <2>2. OnSsd' = OnSsd
    BY <2>1, <1>s DEF OnSsd
  <2> QED
    BY <2>1, <2>2, <1>d, RoundKept
<1> QED
  BY <1>1, <1>2, <1>3, <1>4, <1>5, <1>6, <1>7, <1>8, <1>9, <1>10, <1>11, <1>12, <1>13
  DEF Next, Work, Download, Moving, Readd, Timer, Environment

\* The index is raised at the end of a round, by one; every other step sets it
\* to a batch that is not beyond it, or to the first.
LEMMA IndexSteps ==
  ASSUME TInv, [Next]_vars
  PROVE  index' <= index \/ (pc = "advance" /\ index' = index + 1)
<1>t. index \in Nat /\ Batches \in Nat /\ TypeOK
  BY SettingType DEF TInv, TypeOK
<1>1. ASSUME NEW f \in AllFiles, Fetch(f) \/ Spill(f) \/ Index(f) PROVE index' = index
  BY <1>1 DEF Fetch, Spill, Index, row
<1>2. CASE Add \/ SetupSingle \/ Adopt \/ Enter \/ Loop \/ Wait \/ Vanished \/ Stall \/ Pause \/ Move \/ Flip \/ Finish
  BY <1>2, <1>t DEF Add, SetupSingle, Adopt, Enter, Loop, Wait, Vanished, Stall, Pause, Move, Flip, Finish, row
<1>3. CASE Setup \/ SetupRemote
  BY <1>3, <1>t DEF Setup, SetupRemote, row
<1>4. CASE Again
  BY <1>4, <1>t DEF Again
<1>5. CASE Advance
  BY <1>5 DEF Advance
<1>6. CASE List \/ PauseMoving \/ Sort \/ Ship \/ Drop \/ Wipe \/ Handover
  BY <1>6, <1>t DEF List, PauseMoving, Sort, Ship, Drop, Wipe, Handover, row
<1>7. CASE Inject \/ GiveUp \/ Heal \/ HealArrived \/ HealStall \/ HealMove
  BY <1>7, <1>t DEF Inject, GiveUp, Heal, HealArrived, HealStall, HealMove, row
<1>8. CASE Crash \/ Boot \/ Recover
  BY <1>8, <1>t DEF Crash, Boot, Recover, row
<1>9. CASE UNCHANGED vars
  BY <1>9, <1>t DEF vars, row
<1> QED
  BY <1>1, <1>2, <1>3, <1>4, <1>5, <1>6, <1>7, <1>8, <1>9, <1>t
  DEF Next, Work, Download, Moving, Readd, Timer, Environment

\* The index advances over delivered batches.
LEMMA StepPassed ==
  TInv /\ BatchInv /\ PassedBatchesDelivered /\ [Next]_vars => PassedBatchesDelivered'
<1> SUFFICES ASSUME TInv, BatchInv, PassedBatchesDelivered, [Next]_vars,
                    NEW f \in Files', BatchOf'[f] < index'
             PROVE  remote'[f] # "none"
  BY DEF PassedBatchesDelivered
<1>1. Files' = Files /\ BatchOf' = BatchOf
  BY StepSetting, SettingKept
<1>2. BatchOf[f] \in Nat /\ index \in Nat /\ index' \in Nat
  <2>1. TypeOK /\ TypeOK'
    BY StepType DEF TInv
  <2>2. Batches \in Nat /\ BatchOf[f] \in 0..Batches /\ Batches' = Batches
    BY <2>1, <1>1, SettingType, StepSetting, SettingKept DEF TypeOK
  <2> QED
    BY <2>1, <2>2 DEF TypeOK
<1>3. f \in Delivered
  <2>1. CASE BatchOf[f] < index
    BY <1>1, <2>1 DEF PassedBatchesDelivered, Delivered
  <2>2. CASE pc = "advance" /\ index' = index + 1 /\ BatchOf[f] = index
    BY <1>1, <2>2 DEF BatchInv, Batch
  <2> QED
    BY <1>1, <1>2, <2>1, <2>2, IndexSteps
<1> QED
  BY <1>1, <1>3, RemoteKept DEF Delivered

-----------------------------------------------------------------------------
(* The theorems.                                                            *)

\* The invariant holds at first.
LEMMA InitInv == Init => IInv
<1> SUFFICES ASSUME Init PROVE IInv
  OBVIOUS
<1>1. TInv /\ Batches \in Nat /\ \A f \in Files : BatchOf[f] \in 0..Batches
  BY InitType, SettingType DEF TInv, TypeOK
<1>2. FuseTrue
  BY DEF Init, FuseTrue, Delivered
<1>3. BatchInv /\ DoneDelivered
  BY DEF Init, BatchInv, DoneDelivered
<1>4. PassedBatchesDelivered
  BY <1>1 DEF Init, PassedBatchesDelivered
<1> QED
  BY <1>1, <1>2, <1>3, <1>4 DEF IInv

\* The invariant is inductive.
LEMMA StepInv == IInv /\ [Next]_vars => IInv'
BY StepType, StepFuse, StepBatch, StepPassed, StepDone DEF IInv

\* Every variable keeps its type, for any torrents and bounds.
THEOREM TypeCorrect == Spec => []TypeOK
<1>1. TInv => TypeOK
  BY DEF TInv
<1> QED
  BY InitType, StepType, <1>1, PTL DEF Spec

\* The batch index never outruns the remote, for any files and batches and any
\* number of failed pauses, moves and flips, lost entries and restarts.
THEOREM PassedDelivered == Spec => []PassedBatchesDelivered
<1>1. IInv => PassedBatchesDelivered
  BY DEF IInv
<1> QED
  BY InitInv, StepInv, <1>1, PTL DEF Spec

\* A row is done only when the remote has every file of its torrent.
THEOREM DoneComplete == Spec => []DoneDelivered
<1>1. IInv => DoneDelivered
  BY DEF IInv
<1> QED
  BY InitInv, StepInv, <1>1, PTL DEF Spec

-----------------------------------------------------------------------------
(* The states of the row and the steps of the worker.                       *)

\* Which step of the worker belongs to which state of the row.
PhaseInv ==
  /\ pc = "setup" => state = "QUEUED"
  /\ pc \in {"loop", "wait", "pause", "move", "flip", "advance", "finish"} => state = "DOWNLOADING"
  /\ pc \in {"mpause", "sort", "ship", "shipHeld", "drop", "wipe", "handover"} => state = "MOVING"
  /\ pc \in {"hwait", "hmove"} => state = "RE_ADDING"
  /\ state \in {"DONE", "FAILED"} => pc = "idle"
  /\ ~ Batched => index = 0

\* Where the worker has found an entry, and nobody else can have deleted it.
EntryInv ==
  pc \in {"setup", "pause", "move", "flip", "mpause", "sort", "ship", "shipHeld", "drop", "hwait", "hmove"}
    => entry # "none"

\* A step of the worker starts where another one of the same state ended.
LEMMA StepPhase == TInv /\ PhaseInv /\ [Next]_vars => PhaseInv'
<1> SUFFICES ASSUME TInv, PhaseInv, [Next]_vars PROVE PhaseInv'
  OBVIOUS
<1>s. Batched' = Batched /\ Batches' = Batches
  BY StepSetting, SettingKept
<1>t. TypeOK /\ RoundInv
  BY DEF TInv
<1>1. ASSUME NEW f \in AllFiles, Fetch(f) \/ Spill(f) \/ Index(f) PROVE PhaseInv'
  BY <1>1, <1>s DEF PhaseInv, Fetch, Spill, Index, row, worker, client
<1>2. CASE Add \/ Adopt
  BY <1>2, <1>s DEF PhaseInv, Add, Adopt, Goes, worker, Added, Selects
<1>3. CASE Setup \/ SetupRemote \/ SetupSingle
  BY <1>3, <1>s DEF PhaseInv, Setup, SetupRemote, SetupSingle, Park, row
<1>4. CASE Enter \/ Loop \/ Wait \/ Vanished \/ Flip \/ Finish
  BY <1>4, <1>s DEF PhaseInv, Enter, Loop, Wait, Vanished, Flip, Finish, Goes, Park, row, client, Becomes, Selects
<1>5. CASE Again \/ Advance
  BY <1>5, <1>s, <1>t DEF PhaseInv, Again, Advance, RoundInv, Goes
<1>6. CASE Stall
  BY <1>6, <1>s DEF PhaseInv, Stall, row
<1>7. CASE Pause
  BY <1>7, <1>s DEF PhaseInv, Pause, Goes, Park, Retry, row
<1>8. CASE Move
  BY <1>8, <1>s DEF PhaseInv, Move, Moved, Park, Retry
<1>9. CASE List \/ PauseMoving \/ Drop \/ Wipe \/ Handover
  BY <1>9, <1>s DEF PhaseInv, List, PauseMoving, Drop, Wipe, Handover, Goes, Park, row, client, Becomes, Selects
<1>10. CASE Sort
  BY <1>10, <1>s DEF PhaseInv, Sort, Park
<1>11. CASE Ship
  BY <1>11, <1>s DEF PhaseInv, Ship, Goes, Park
<1>12. CASE Inject \/ GiveUp \/ Heal \/ HealArrived \/ HealStall \/ HealMove
  BY <1>12, <1>s DEF PhaseInv, Inject, GiveUp, Heal, HealArrived, HealStall, HealMove, HealFailed, Goes, row, worker
<1>13. CASE Crash \/ Boot \/ Recover
  BY <1>13, <1>s DEF PhaseInv, Crash, Boot, Recover, Recovered, Goes, row, worker
<1>14. CASE UNCHANGED vars
  BY <1>14, <1>s DEF PhaseInv, vars, row, worker
<1> QED
  BY <1>1, <1>2, <1>3, <1>4, <1>5, <1>6, <1>7, <1>8, <1>9, <1>10, <1>11, <1>12, <1>13, <1>14
  DEF Next, Work, Download, Moving, Readd, Timer, Environment

\* Only the worker deletes the entry, and a restart, which ends the worker.
LEMMA StepEntry == TInv /\ EntryInv /\ [Next]_vars => EntryInv'
<1> SUFFICES ASSUME TInv, EntryInv, [Next]_vars PROVE EntryInv'
  OBVIOUS
<1>1. ASSUME NEW f \in AllFiles, Fetch(f) \/ Spill(f) \/ Index(f) PROVE EntryInv'
  BY <1>1 DEF EntryInv, Fetch, Spill, Index, worker, client
<1>2. CASE Add
  BY <1>2 DEF EntryInv, Add, Goes, Added, worker, client
<1>3. CASE Adopt
  BY <1>3 DEF EntryInv, Adopt, worker
<1>4. CASE Setup \/ SetupRemote \/ SetupSingle
  BY <1>4 DEF EntryInv, Setup, SetupRemote, SetupSingle, Park
<1>5. CASE Enter \/ Again \/ Loop \/ Vanished \/ Finish \/ Stall \/ Advance
  BY <1>5 DEF EntryInv, Enter, Again, Loop, Vanished, Finish, Stall, Advance, Goes, Park
<1>6. CASE Wait
  BY <1>6 DEF EntryInv, Wait, Goes, client
<1>7. CASE Pause
  BY <1>7 DEF EntryInv, Pause, Goes, Retry, Park, Becomes
<1>8. CASE Move
  BY <1>8 DEF EntryInv, Move, Moved, Retry, Park
<1>9. CASE Flip
  BY <1>9 DEF EntryInv, Flip, Goes, Park
<1>10. CASE List
  BY <1>10 DEF EntryInv, List, client
<1>11. CASE PauseMoving
  BY <1>11 DEF EntryInv, PauseMoving, Goes, Park, Becomes
<1>12. CASE Sort
  BY <1>12 DEF EntryInv, Sort, Park
<1>13. CASE Ship
  BY <1>13 DEF EntryInv, Ship, Goes, Park, Resumed
<1>14. CASE Drop \/ Wipe \/ Handover
  BY <1>14 DEF EntryInv, Drop, Wipe, Handover, Goes, Park
<1>15. CASE Inject \/ GiveUp
  BY <1>15 DEF EntryInv, Inject, GiveUp, worker
<1>16. CASE Heal
  BY <1>16 DEF EntryInv, Heal, worker, Added, Selects
<1>17. CASE HealArrived
  BY <1>17 DEF EntryInv, HealArrived, Goes, Becomes, client
<1>18. CASE HealStall \/ HealMove
  BY <1>18 DEF EntryInv, HealStall, HealMove, HealFailed
<1>19. CASE Crash \/ Boot \/ Recover
  BY <1>19 DEF EntryInv, Crash, Boot, Recover, Goes, worker
<1>20. CASE UNCHANGED vars
  BY <1>20 DEF EntryInv, vars, worker, client
<1> QED
  BY <1>1, <1>2, <1>3, <1>4, <1>5, <1>6, <1>7, <1>8, <1>9, <1>10, <1>11, <1>12, <1>13, <1>14, <1>15,
     <1>16, <1>17, <1>18, <1>19, <1>20
  DEF Next, Work, Download, Moving, Readd, Timer, Environment

-----------------------------------------------------------------------------
(* What the client knows of the SSD.                                        *)

\* The files that are complete on the SSD.
Whole == {f \in Files : disk[f] = "whole"}

\* A file of which the client knows everything is whole, and the other way
\* round, unless the remote has it; only such files have holes.
ClientInv ==
  /\ \A f \in Files : have[f] # "near"
  /\ entry # "none" => \A f \in Whole : have[f] = "all"
  /\ entry # "none" => \A f \in Files \ Delivered : have[f] = "all" => f \in Whole
  /\ holes \subseteq Delivered

\* The download of a torrent of one batch, or none, selects what the remote
\* lacks.
WantInv ==
  ~ Batched /\ entry # "none" /\ state \in {"QUEUED", "DOWNLOADING"} =>
    Files \subseteq want \cup Delivered

\* What the remote lacks is whole on the SSD where the worker relies on it, and
\* in the hands of the worker; nothing is wiped or handed on that it lacks.
SecureInv ==
  /\ pc \in {"pause", "move"} => todo \subseteq Delivered \cup Whole
  /\ pc = "finish" \/ state = "MOVING" => Files \subseteq Delivered \cup Whole
  /\ pc \in {"mpause", "sort", "ship", "shipHeld"} => Files \subseteq Delivered \cup todo
  /\ pc \in {"drop", "wipe", "handover"} \/ state \in {"RE_ADDING", "DONE"} => Files \subseteq Delivered

\* An entry that is added knows what a check of the SSD finds.
LEMMA AddedClient ==
  ASSUME TypeOK, UNCHANGED setting, NEW wanted, NEW to, Added(wanted, to)
  PROVE  ClientInv'
<1>1. Files' = Files
  BY SettingKept
<1>2. \A f \in Files : have'[f] = "all" <=> disk'[f] = "whole"
  BY <1>1 DEF Added, TypeOK
<1>3. holes' = {} /\ \A f \in Files : have'[f] # "near"
  BY <1>1 DEF Added, TypeOK
<1> QED
  BY <1>1, <1>2, <1>3 DEF ClientInv, Whole

\* No entry, nothing known.
LEMMA GoneClient ==
  ASSUME UNCHANGED setting, Gone
  PROVE  ClientInv'
BY SettingKept DEF Gone, ClientInv

\* The client knows as much as before, and nothing the remote lacks changed on
\* the SSD.
LEMMA KeptClient ==
  ASSUME TypeOK, UNCHANGED <<setting, have>>, ClientInv, entry' # "none" => entry # "none",
         Delivered \subseteq Delivered', Whole' \subseteq Whole, Whole \subseteq Whole' \cup Delivered',
         holes' \subseteq Delivered'
  PROVE  ClientInv'
BY SettingKept DEF ClientInv

\* A move takes its files off the SSD, and the remote has them.
LEMMA ShippedWhole ==
  ASSUME TypeOK, UNCHANGED setting, NEW m \in SUBSET Files, ShippedBytes(m)
  PROVE  Whole' = Whole \ m /\ Delivered' = Delivered \cup m
BY SettingKept DEF TypeOK, ShippedBytes, Whole, Delivered

\* ... and the holes it leaves are in files the remote has.
LEMMA ShippedClient ==
  ASSUME TypeOK, ClientInv, UNCHANGED setting, NEW m \in SUBSET Files, Shipped(m),
         entry' # "none" => entry # "none"
  PROVE  ClientInv'
<1>1. Whole' = Whole \ m /\ Delivered' = Delivered \cup m
  BY ShippedWhole DEF Shipped
<1>2. holes' \subseteq Delivered'
  BY <1>1 DEF Shipped, Punched, ClientInv
<1> QED
  BY <1>1, <1>2, KeptClient DEF Shipped

\* The client and the SSD agree on what the remote lacks, through every step.
LEMMA StepClient ==
  TInv /\ EntryInv /\ PhaseInv /\ Regular /\ ClientInv /\ SecureInv /\ [Next]_vars => ClientInv'
<1> SUFFICES ASSUME TInv, EntryInv, PhaseInv, Regular, ClientInv, SecureInv, [Next]_vars
             PROVE  ClientInv'
  OBVIOUS
<1>t. TypeOK /\ todo \subseteq Files
  BY DEF TInv, TypeOK
<1>s. UNCHANGED setting /\ Files' = Files
  BY StepSetting, SettingKept
<1>d. Delivered \subseteq Delivered'
  BY RemoteKept
<1>k. ASSUME UNCHANGED <<have, holes, disk>>, entry' # "none" => entry # "none" PROVE ClientInv'
  <2>1. Whole' = Whole /\ holes' \subseteq Delivered'
    BY <1>k, <1>s, <1>d DEF Whole, ClientInv
  <2> QED
    BY <2>1, <1>k, <1>s, <1>d, <1>t, KeptClient
<1>1. ASSUME NEW f \in AllFiles, Fetch(f) PROVE ClientInv'
  BY <1>1, <1>s, <1>t DEF Fetch, ClientInv, Whole, Delivered, TypeOK, Regular
<1>2. ASSUME NEW f \in AllFiles, Spill(f) PROVE ClientInv'
  BY <1>2, <1>s, <1>t DEF Spill, ClientInv, Whole, Delivered, TypeOK, Regular
<1>3. ASSUME NEW f \in AllFiles, Index(f) PROVE ClientInv'
  BY <1>3, <1>k DEF Index, client
<1>4. CASE Add
  <2>1. Added(Files, "paused") \/ UNCHANGED <<client, bytes>>
    BY <1>4 DEF Add
  <2> QED
    BY <2>1, <1>s, <1>t, <1>k, AddedClient DEF client, bytes
<1>5. CASE Setup \/ SetupSingle \/ Pause \/ Flip \/ PauseMoving
  <2>1. entry # "none"
    BY <1>5 DEF EntryInv, Setup, SetupSingle, Pause, Flip, PauseMoving
  <2>2. UNCHANGED <<have, holes, disk>>
    BY <1>5 DEF Setup, SetupSingle, Pause, Flip, PauseMoving, Selects, Becomes, client, bytes
  <2> QED
    BY <2>1, <2>2, <1>k
<1>6. CASE SetupRemote \/ Inject
  BY <1>6, <1>s, GoneClient DEF SetupRemote, Inject
<1>7. CASE Adopt \/ Enter \/ Again
  BY <1>7, <1>k DEF Adopt, Enter, Again, Selects, client, bytes
<1>8. CASE Loop \/ Wait \/ Vanished \/ Advance \/ Finish \/ List \/ Handover
  BY <1>8, <1>k DEF Loop, Wait, Vanished, Advance, Finish, List, Handover, client, bytes
<1>9. CASE Stall
  BY <1>9, <1>k, <1>s, GoneClient DEF Stall, client
<1>10. CASE Move
  <2>1. \E m \in SUBSET Files : Shipped(m)
    BY <1>10, <1>t DEF Move
  <2> QED
    BY <1>10, <2>1, <1>s, <1>t, ShippedClient DEF Move
<1>11. CASE Sort
  <2>1. pc = "sort" /\ entry # "none" /\ Files \subseteq Delivered \cup Whole
    BY <1>11 DEF Sort, EntryInv, PhaseInv, SecureInv
  <2>2. Whole' = Whole
    BY <1>11, <1>s, <1>t DEF Sort, Short, Whole, TypeOK
  <2>3. Short \subseteq Delivered
    BY <2>1 DEF Short, Whole
  <2>4. CASE Punched(Short) /\ UNCHANGED have
    <3>1. holes' \subseteq Delivered'
      BY <2>3, <2>4, <1>d DEF Punched, ClientInv
    <3> QED
      BY <2>1, <2>2, <2>4, <3>1, <1>s, <1>t, <1>d, KeptClient
  <2>5. CASE Rechecked(Short)
    <3>1. \A f \in Files : have'[f] = "all" <=> f \in Whole'
      BY <2>5, <1>s, <1>t, <2>2 DEF Rechecked, Whole, Short
    <3> QED
      BY <2>5, <3>1, <1>s DEF Rechecked, ClientInv, Whole
  <2> QED
    BY <1>11, <2>4, <2>5 DEF Sort
<1>12. CASE Ship
  <2>1. entry # "none" /\ \E m \in SUBSET Files : Shipped(m)
    BY <1>12, <1>t DEF Ship, EntryInv
  <2> QED
    BY <2>1, <1>s, <1>t, ShippedClient
<1>13. CASE Drop
  BY <1>13, <1>k, <1>s, GoneClient DEF Drop, client, bytes
<1>14. CASE Wipe
  <2>1. Files \subseteq Delivered /\ Whole' = {}
    BY <1>14, <1>s DEF Wipe, SecureInv, Wiped, Whole
  <2>2. holes' \subseteq Delivered' /\ UNCHANGED <<entry, have>>
    BY <1>14, <2>1, <1>d DEF Wipe, Punched, OnSsd, ClientInv
  <2> QED
    BY <2>1, <2>2, <1>s, <1>t, <1>d, KeptClient DEF Whole
<1>15. CASE GiveUp \/ HealStall \/ Boot
  BY <1>15, <1>k DEF GiveUp, HealStall, Boot, client, bytes
<1>16. CASE Heal
  BY <1>16, <1>k, <1>s, <1>t, AddedClient DEF Heal, Selects, bytes
<1>17. CASE HealArrived
  <2>1. entry # "none" /\ UNCHANGED <<have, holes, disk>>
    BY <1>17 DEF HealArrived, EntryInv, Becomes, client, bytes
  <2> QED
    BY <2>1, <1>k
<1>18. CASE HealMove
  <2>1. \/ Gone
        \/ UNCHANGED entry /\ \E m \in SUBSET Files : Shipped(m)
    BY <1>18, <1>t DEF HealMove
  <2> QED
    BY <2>1, <1>s, <1>t, GoneClient, ShippedClient
<1>19. CASE Crash
  BY <1>19, <1>k, <1>s, GoneClient DEF Crash, client, bytes
<1>20. CASE Recover
  <2>1. (\E wanted, to : Added(wanted, to)) \/ UNCHANGED <<client, bytes>>
    BY <1>20 DEF Recover, Recovered
  <2> QED
    BY <2>1, <1>k, <1>s, <1>t, AddedClient DEF client, bytes
<1>21. CASE UNCHANGED vars
  BY <1>21, <1>k DEF vars, client, bytes
<1> QED
  BY <1>1, <1>2, <1>3, <1>4, <1>5, <1>6, <1>7, <1>8, <1>9, <1>10, <1>11, <1>12, <1>13, <1>14, <1>15,
     <1>16, <1>17, <1>18, <1>19, <1>20, <1>21
  DEF Next, Work, Download, Moving, Readd, Timer, Environment

-----------------------------------------------------------------------------
(* The kinds of steps.                                                      *)

\* A row that is not settled.
Open == state \notin {"DONE", "FAILED"}

\* The kinds of steps, as the promise sees them.
Grows == UNCHANGED <<remote, state>> /\ Whole \subseteq Whole'
Carries ==
  /\ \E m \in SUBSET (Delivered \cup Whole) :
       Delivered' = Delivered \cup m /\ Whole' = Whole \ m
  /\ state' = state \/ (Open /\ state' = "FAILED")
Turns == UNCHANGED remote /\ Whole' = Whole /\ (state' = state \/ (Open /\ Open'))
Clears == UNCHANGED remote /\ Files \subseteq Delivered /\ (state' = state \/ (Open /\ Open'))
Fails == UNCHANGED remote /\ Whole' \subseteq Whole /\ Open /\ state' = "FAILED"
Ends == UNCHANGED <<remote, disk>> /\ Open /\ state' = "DONE" /\ Files \subseteq Delivered

\* What a step is told apart by.
SafeInv == TInv /\ FuseTrue /\ PhaseInv /\ EntryInv /\ ClientInv /\ SecureInv

\* A torrent whose every batch the mount shows, it shows in full.
LEMMA EveryBatchShown ==
  ASSUME TypeOK, Regular, Batches > 0, \A i \in 0..(Batches - 1) : Need(i) = {}
  PROVE  Files \subseteq fuse
<1>1. \A f \in Files : BatchOf[f] \in 0..(Batches - 1)
  BY SettingType DEF Regular, TypeOK
<1> QED
  BY <1>1 DEF Need, Batch

\* The client never takes a whole file for one it must fetch.
LEMMA ClientGrows ==
  ASSUME SafeInv, Regular, NEW f \in AllFiles, Fetch(f) \/ Spill(f)
  PROVE  Grows
<1>t. TypeOK
  BY DEF SafeInv, TInv
<1>s. UNCHANGED setting /\ Files' = Files
  BY SettingKept DEF Fetch, Spill
<1>1. UNCHANGED <<remote, state>>
  BY DEF Fetch, Spill, row
<1>2. f \in Files /\ f \notin Whole
  BY <1>t DEF Fetch, Spill, SafeInv, ClientInv, Regular, Whole
<1>3. \A g \in Files : g # f => disk'[g] = disk[g]
  BY <1>t DEF Fetch, Spill, TypeOK
<1>4. Whole \subseteq Whole'
  BY <1>2, <1>3, <1>s DEF Whole
<1> QED
  BY <1>1, <1>4 DEF Grows

\* Every step is of one of these kinds: it carries whole files to the remote, or
\* keeps them, or wipes what the remote has, or settles the row.
LEMMA StepKind ==
  ASSUME SafeInv, Regular, [Next]_vars
  PROVE  Grows \/ Carries \/ Turns \/ Clears \/ Fails \/ Ends
<1> DEFINE P == Grows \/ Carries \/ Turns \/ Clears \/ Fails \/ Ends
<1>t. TypeOK /\ todo \subseteq Files /\ state \in State
  BY DEF SafeInv, TInv, TypeOK
<1>s. UNCHANGED setting /\ Files' = Files
  BY StepSetting, SettingKept
<1>o. pc # "idle" => Open
  BY DEF SafeInv, PhaseInv, Open
<1>f. Files \subseteq fuse => Files \subseteq Delivered
  BY DEF SafeInv, FuseTrue
<1>k. ASSUME UNCHANGED <<remote, disk>>, state' = state \/ (Open /\ Open') PROVE P
  BY <1>k, <1>s DEF Turns, Whole
<1>w. ASSUME UNCHANGED <<remote, disk>>, Open, state' = "FAILED" PROVE P
  BY <1>w, <1>s DEF Fails, Whole
<1>c. ASSUME NEW wanted, NEW to, Added(wanted, to), state' = state \/ (Open /\ Open') PROVE P
  <2>1. UNCHANGED remote /\ Whole' = Whole
    BY <1>c, <1>s DEF Added, Whole
  <2> QED
    BY <1>c, <2>1 DEF Turns
<1>m. ASSUME NEW m \in SUBSET Files, m \subseteq Delivered \cup Whole, ShippedBytes(m),
             state' = state \/ (Open /\ state' = "FAILED")
      PROVE  P
  BY <1>m, <1>s, <1>t, ShippedWhole DEF Carries
<1>1. ASSUME NEW f \in AllFiles, Fetch(f) \/ Spill(f) PROVE P
  BY <1>1, ClientGrows
<1>2. ASSUME NEW f \in AllFiles, Index(f) PROVE P
  BY <1>2, <1>k DEF Index, row
<1>3. CASE Add
  <2>1. pc = "idle" /\ Open
    BY <1>3 DEF Add, Open
  <2>2. \/ Added(Files, "paused") /\ UNCHANGED state
        \/ UNCHANGED bytes /\ state' \in {"RE_ADDING", "FAILED"}
    BY <1>3 DEF Add
  <2> QED
    BY <2>1, <2>2, <1>c, <1>k, <1>w DEF bytes, Open
<1>4. CASE Setup \/ SetupSingle \/ Adopt \/ Enter \/ Again
  <2>1. UNCHANGED <<remote, disk>> /\ state' \in {state, "DOWNLOADING", "MOVING"}
    BY <1>4 DEF Setup, SetupSingle, Adopt, Enter, Again, row, bytes
  <2>2. Open
    BY <1>4, <1>o DEF Setup, SetupSingle, Adopt, Enter, Again, Open
  <2> QED
    BY <2>1, <2>2, <1>k DEF Open
<1>5. CASE SetupRemote
  <2>1. Files \subseteq fuse
    BY <1>5, <1>t, EveryBatchShown DEF SetupRemote
  <2>2. UNCHANGED remote /\ Open /\ Open'
    BY <1>5, <1>o DEF SetupRemote, Open
  <2> QED
    BY <2>1, <2>2, <1>f DEF Clears
<1>6. CASE Loop \/ Wait \/ Pause \/ Flip \/ Advance \/ List \/ PauseMoving \/ Drop
  BY <1>6, <1>k DEF Loop, Wait, Pause, Flip, Advance, List, PauseMoving, Drop, row, bytes
<1>7. CASE Vanished \/ Finish \/ Handover
  <2>1. UNCHANGED <<remote, disk>> /\ Open /\ state' \in {"FAILED", "MOVING", "RE_ADDING"}
    BY <1>7, <1>o DEF Vanished, Finish, Handover, bytes
  <2> QED
    BY <2>1, <1>k, <1>w DEF Open
<1>8. CASE Stall
  <2>1. CASE UNCHANGED <<row, client, disk, folder>>
    BY <1>8, <2>1, <1>k DEF Stall, row
  <2>2. CASE state' = "FAILED" /\ Wiped
    <3>1. Open /\ UNCHANGED remote
      BY <1>8, <1>o DEF Stall
    <3>2. Whole' = {}
      BY <2>2, <1>s DEF Wiped, Whole
    <3> QED
      BY <2>2, <3>1, <3>2 DEF Fails
  <2> QED
    BY <1>8, <2>1, <2>2 DEF Stall
<1>9. CASE Move
  <2>1. pc = "move" /\ todo \subseteq Delivered \cup Whole /\ Open
    BY <1>9, <1>o DEF Move, SafeInv, SecureInv
  <2>2. PICK m \in SUBSET todo : ShippedBytes(m)
    BY <1>9 DEF Move, Shipped
  <2>3. state' = state \/ state' = "FAILED"
    BY <1>9 DEF Move
  <2> QED
    BY <2>1, <2>2, <2>3, <1>m, <1>t
<1>10. CASE Sort
  <2>1. UNCHANGED remote /\ Whole' = Whole /\ Open
    BY <1>10, <1>s, <1>t, <1>o DEF Sort, Short, Whole, TypeOK
  <2>2. state' = state \/ state' = "FAILED"
    BY <1>10 DEF Sort
  <2> QED
    BY <2>1, <2>2 DEF Turns, Fails
<1>11. CASE Ship
  <2>1. Files \subseteq Delivered \cup Whole /\ Open
    BY <1>11, <1>o DEF Ship, SafeInv, SecureInv, PhaseInv
  <2>2. PICK m \in SUBSET todo : ShippedBytes(m)
    BY <1>11 DEF Ship, Shipped
  <2>3. state' = state \/ state' = "FAILED"
    BY <1>11 DEF Ship
  <2> QED
    BY <2>1, <2>2, <2>3, <1>m, <1>t
<1>12. CASE Wipe
  BY <1>12 DEF Wipe, SafeInv, SecureInv, Clears, row
<1>13. CASE Inject
  <2>1. UNCHANGED <<remote, disk>> /\ Open /\ state' = "DONE" /\ Gate
    BY <1>13 DEF Inject, bytes, Open
  <2> QED
    BY <2>1, <1>f DEF Ends, Gate
<1>14. CASE GiveUp
  BY <1>14, <1>w DEF GiveUp, bytes, Open
<1>15. CASE Heal
  <2>1. state' = state /\ (UNCHANGED bytes \/ \E wanted, to : Added(wanted, to))
    BY <1>15 DEF Heal, row
  <2> QED
    BY <2>1, <1>k, <1>c DEF bytes
<1>16. CASE HealArrived \/ HealStall
  BY <1>16, <1>k DEF HealArrived, HealStall, row, bytes
<1>17. CASE HealMove
  <2>1. Files \subseteq Delivered
    BY <1>17 DEF HealMove, SafeInv, SecureInv, PhaseInv
  <2>2. state' = state /\ \E m \in SUBSET todo : ShippedBytes(m)
    BY <1>17 DEF HealMove, Shipped, row
  <2> QED
    BY <2>1, <2>2, <1>m, <1>t
<1>18. CASE Crash \/ Boot
  BY <1>18, <1>k DEF Crash, Boot, row, bytes
<1>19. CASE Recover
  <2>1. CASE state \in {"QUEUED", "DOWNLOADING"}
    <3>1. \/ Added(Files, "paused") /\ state' = "DOWNLOADING"
          \/ state' = "FAILED" /\ UNCHANGED bytes
      BY <1>19, <2>1 DEF Recover, Recovered
    <3> QED
      BY <2>1, <3>1, <1>c, <1>w DEF Open, bytes
  <2>2. CASE state \notin {"QUEUED", "DOWNLOADING"}
    <3>1. UNCHANGED bytes /\ (state' = state \/ (state = "MOVING" /\ state' = "RE_ADDING"))
      BY <1>19, <2>2 DEF Recover, Recovered
    <3> QED
      BY <3>1, <1>k DEF Open, bytes
  <2> QED
    BY <2>1, <2>2
<1>20. CASE UNCHANGED vars
  BY <1>20, <1>k DEF vars, row, bytes
<1> QED
  BY <1>1, <1>2, <1>3, <1>4, <1>5, <1>6, <1>7, <1>8, <1>9, <1>10, <1>11, <1>12, <1>13, <1>14, <1>15,
     <1>16, <1>17, <1>18, <1>19, <1>20
  DEF Next, Work, Download, Moving, Readd, Timer, Environment

-----------------------------------------------------------------------------
(* What the worker relies on.                                               *)

\* What is on the remote or whole on the SSD stays so, until the row fails.
LEMMA SecureKept ==
  ASSUME SafeInv, Regular, [Next]_vars
  PROVE  state' = "FAILED" \/ Delivered \cup Whole \subseteq Delivered' \cup Whole'
<1>1. Delivered \subseteq Delivered' /\ Files' = Files
  BY RemoteKept, StepSetting, SettingKept DEF SafeInv
<1>2. CASE Ends
  BY <1>1, <1>2 DEF Ends, Whole
<1>3. CASE Clears
  BY <1>1, <1>3 DEF Clears, Whole
<1> QED
  BY <1>1, <1>2, <1>3, StepKind DEF Grows, Carries, Turns, Fails

\* One batch is all of a torrent that has no more.
LEMMA OnlyBatch ==
  ASSUME TypeOK, Regular, ~ Batched
  PROVE  Batch(0) = Files
BY SettingType DEF TypeOK, Regular, Batched, Batch

\* Every selection is of what the mount lacks, which shows only what is delivered.
LEMMA StepWant ==
  TInv /\ FuseTrue /\ PhaseInv /\ EntryInv /\ Regular /\ WantInv /\ [Next]_vars => WantInv'
<1> SUFFICES ASSUME TInv, FuseTrue, PhaseInv, EntryInv, Regular, WantInv, [Next]_vars,
                    ~ Batched', entry' # "none", state' \in {"QUEUED", "DOWNLOADING"}
             PROVE  Files' \subseteq want' \cup Delivered'
  BY DEF WantInv
<1>t. TypeOK /\ RoundInv
  BY DEF TInv
<1>s. Files' = Files /\ ~ Batched
  BY StepSetting, SettingKept
<1>d. Delivered \subseteq Delivered'
  BY RemoteKept
<1>n. Files \subseteq Need(index) \cup Delivered /\ index = 0
  BY <1>s, <1>t, OnlyBatch DEF Need, FuseTrue, PhaseInv
<1>k. ASSUME UNCHANGED want, entry # "none", state \in {"QUEUED", "DOWNLOADING"}
      PROVE Files \subseteq want' \cup Delivered'
  BY <1>k, <1>s, <1>d DEF WantInv
<1>a. ASSUME NEW to, Added(Files, to) PROVE Files \subseteq want' \cup Delivered'
  BY <1>a DEF Added
<1>1. ASSUME NEW f \in AllFiles, Fetch(f) \/ Spill(f) \/ Index(f)
      PROVE Files \subseteq want' \cup Delivered'
  BY <1>1, <1>k DEF Fetch, Spill, Index, row, client
<1>2. CASE Add
  BY <1>2, <1>s, <1>a DEF Add, client
<1>3. CASE Setup
  BY <1>3, <1>s, <1>n, <1>d, <1>k DEF Setup, Selects, EntryInv, PhaseInv, client
<1>4. CASE SetupSingle
  BY <1>4, <1>s, <1>k DEF SetupSingle, Becomes, EntryInv, PhaseInv, client
<1>5. CASE Adopt
  BY <1>5, <1>s, <1>n, <1>d, <1>k DEF Adopt, Selects
<1>6. CASE Enter
  BY <1>6, <1>s, <1>n, <1>d, <1>k DEF Enter, Selects, client
<1>7. CASE Again \/ Loop \/ Wait \/ Stall
  BY <1>7, <1>s, <1>k DEF Again, Loop, Wait, Stall, row, client
<1>8. CASE Pause
  BY <1>8, <1>s, <1>k DEF Pause, Becomes, EntryInv, row, client
<1>9. CASE Move \/ Flip \/ Advance
  BY <1>9, <1>s, <1>t DEF Move, Flip, Advance, RoundInv
<1>10. CASE SetupRemote \/ Vanished \/ Finish \/ Handover \/ Inject \/ GiveUp
  BY <1>10 DEF SetupRemote, Vanished, Finish, Handover, Inject, GiveUp
<1>11. CASE List \/ PauseMoving \/ Sort \/ Ship \/ Drop \/ Wipe
  <2>1. state = "MOVING"
    BY <1>11 DEF List, PauseMoving, Sort, Ship, Drop, Wipe, PhaseInv
  <2>2. state' \in {"MOVING", "FAILED"}
    BY <1>11, <1>s, <2>1 DEF List, PauseMoving, Sort, Ship, Drop, Wipe, row
  <2> QED
    BY <2>2
<1>12. CASE Heal \/ HealArrived \/ HealStall \/ HealMove
  <2>1. state = "RE_ADDING" /\ state' = state
    BY <1>12 DEF Heal, HealArrived, HealStall, HealMove, PhaseInv, row
  <2> QED
    BY <2>1
<1>13. CASE Crash \/ Boot
  BY <1>13, <1>s, <1>k DEF Crash, Boot, Gone, row, client
<1>14. CASE Recover
  <2>1. CASE state \in {"QUEUED", "DOWNLOADING"}
    BY <1>14, <1>s, <2>1, <1>a DEF Recover, Recovered
  <2>2. CASE state \notin {"QUEUED", "DOWNLOADING"}
    BY <1>14, <1>s, <2>2 DEF Recover, Recovered
  <2> QED
    BY <2>1, <2>2
<1>15. CASE UNCHANGED vars
  BY <1>15, <1>s, <1>k DEF vars, row, client
<1> QED
  BY <1>s, <1>1, <1>2, <1>3, <1>4, <1>5, <1>6, <1>7, <1>8, <1>9, <1>10, <1>11, <1>12, <1>13, <1>14, <1>15
  DEF Next, Work, Download, Moving, Readd, Timer, Environment

\* The worker waits for what is wanted before it pauses, moves and hands on.
LEMMA StepSecure ==
  SafeInv /\ BatchInv /\ PassedBatchesDelivered /\ Regular /\ WantInv /\ [Next]_vars => SecureInv'
<1> SUFFICES ASSUME SafeInv, BatchInv, PassedBatchesDelivered, Regular, WantInv, [Next]_vars
             PROVE  SecureInv'
  OBVIOUS
<1>t. TypeOK /\ RoundInv /\ todo \subseteq Files
  BY DEF SafeInv, TInv, TypeOK
<1>s. UNCHANGED setting /\ Files' = Files /\ Batches' = Batches
  BY StepSetting, SettingKept
<1>d. Delivered \subseteq Delivered'
  BY RemoteKept DEF SafeInv
<1>w. state' = "FAILED" \/ Delivered \cup Whole \subseteq Delivered' \cup Whole'
  BY SecureKept
<1>i. SecureInv /\ PhaseInv /\ PhaseInv'
  BY StepPhase DEF SafeInv
<1>c. entry # "none" => Whole \subseteq Claimed /\ Claimed \subseteq Delivered \cup Whole
  BY <1>t DEF SafeInv, ClientInv, Claimed, Whole, TypeOK
<1>f. fuse \subseteq Delivered
  BY DEF SafeInv, FuseTrue
<1>k. ASSUME UNCHANGED <<pc, todo, state>> PROVE SecureInv'
  BY <1>k, <1>s, <1>d, <1>w, <1>i DEF SecureInv, PhaseInv
<1>q. ASSUME pc' \in {"idle", "boot", "setup", "loop", "wait", "flip", "advance"}, state' = state
      PROVE  SecureInv'
  BY <1>q, <1>s, <1>d, <1>w, <1>i DEF SecureInv, PhaseInv
<1>e. ASSUME state' = "FAILED" PROVE SecureInv'
  BY <1>e, <1>i DEF SecureInv, PhaseInv
<1>1. ASSUME NEW f \in AllFiles, Fetch(f) \/ Spill(f) \/ Index(f) PROVE SecureInv'
  BY <1>1, <1>k DEF Fetch, Spill, Index, row, worker
<1>2. CASE Add
  <2>1. CASE Files \subseteq fuse
    BY <1>2, <2>1, <1>f, <1>s, <1>d DEF Add, worker, SecureInv
  <2>2. CASE ~ (Files \subseteq fuse)
    BY <1>2, <2>2, <1>q, <1>e DEF Add, Goes
  <2> QED
    BY <2>1, <2>2
<1>3. CASE Setup \/ Adopt
  BY <1>3, <1>q DEF Setup, Adopt, Park, row, worker, SecureInv
<1>4. CASE SetupRemote
  <2>1. Files \subseteq Delivered'
    BY <1>4, <1>f, <1>t, <1>d, EveryBatchShown DEF SetupRemote
  <2> QED
    BY <1>4, <2>1, <1>s DEF SetupRemote, Park, SecureInv
<1>5. CASE SetupSingle
  BY <1>5, <1>f, <1>s, <1>d, <1>i DEF SetupSingle, Park, SecureInv, PhaseInv
<1>6. CASE Enter \/ Again \/ Loop \/ Flip
  BY <1>6, <1>q DEF Enter, Again, Loop, Flip, Goes, Park, row
<1>7. CASE Wait
  <2>1. pc = "wait" /\ state = "DOWNLOADING" /\ entry # "none" /\ UNCHANGED <<state, todo>> /\ Arrived
    BY <1>7, <1>i DEF Wait, Goes, row, PhaseInv
  <2>2. CASE pc' = "pause" /\ AwaitsBatch
    <3>1. todo \subseteq Delivered \cup Whole
      BY <2>1, <2>2, <1>c DEF Arrived
    <3> QED
      BY <2>1, <2>2, <3>1, <1>w DEF SecureInv
  <2>3. CASE pc' = "finish" /\ ~ AwaitsBatch
    <3>1. want \subseteq Claimed
      BY <2>1, <2>3 DEF Arrived, TorrentComplete, Mostly, Regular
    <3>2. CASE Batched
      <4>1. \A f \in Files : BatchOf[f] < index
        BY <2>3, <3>2, <1>t, SettingType DEF AwaitsBatch, Regular, Batched, TypeOK
      <4>2. Files \subseteq Delivered
        BY <4>1 DEF PassedBatchesDelivered, Delivered
      <4> QED
        BY <2>1, <2>3, <4>2, <1>s, <1>d DEF SecureInv
    <3>3. CASE ~ Batched
      <4>1. Files \subseteq Delivered \cup Whole
        BY <2>1, <3>1, <3>3, <1>c DEF WantInv
      <4> QED
        BY <2>1, <2>3, <4>1, <1>s, <1>w DEF SecureInv
    <3> QED
      BY <3>2, <3>3
  <2> QED
    BY <1>7, <2>2, <2>3 DEF Wait, Goes
<1>8. CASE Vanished \/ GiveUp
  BY <1>8, <1>e DEF Vanished, GiveUp
<1>9. CASE Stall
  BY <1>9, <1>q, <1>e DEF Stall, row
<1>10. CASE Pause
  <2>1. state' = state /\ pc = "pause"
    BY <1>10 DEF Pause, row
  <2>2. CASE pc' = "move" /\ UNCHANGED todo
    BY <2>1, <2>2, <1>w, <1>i DEF SecureInv, PhaseInv
  <2>3. CASE pc' \in {"idle", "loop"}
    BY <2>1, <2>3, <1>q
  <2> QED
    BY <1>10, <2>2, <2>3 DEF Pause, Goes, Retry, Park
<1>11. CASE Move
  <2>1. pc' \in {"idle", "loop", "flip", "advance"} /\ (state' = state \/ state' = "FAILED")
    BY <1>11 DEF Move, Moved, Retry, Park
  <2> QED
    BY <2>1, <1>q, <1>e
<1>12. CASE Advance
  <2>1. pc = "advance" /\ state' = state /\ state = "DOWNLOADING" /\ pc' \in {"loop", "finish"}
    BY <1>12, <1>i DEF Advance, Goes, PhaseInv
  <2>2. CASE pc' = "finish"
    <3>1. Batched /\ index < Batches /\ ~ (index + 1 < Batches)
      BY <1>12, <2>1, <2>2, <1>t DEF Advance, Goes, RoundInv
    <3>2. \A f \in Files : BatchOf[f] < index \/ BatchOf[f] = index
      BY <3>1, <1>t, SettingType DEF Regular, Batched, TypeOK
    <3>3. Files \subseteq Delivered
      BY <2>1, <3>2 DEF PassedBatchesDelivered, BatchInv, Batch, Delivered
    <3> QED
      BY <2>1, <2>2, <3>3, <1>s, <1>d DEF SecureInv
  <2> QED
    BY <2>1, <2>2, <1>q
<1>13. CASE Finish
  BY <1>13, <1>i, <1>s, <1>w DEF Finish, Park, SecureInv
<1>14. CASE List
  <2>1. pc' = "mpause" /\ todo' = Claimed /\ state = "MOVING" /\ state' = state /\ entry # "none"
    BY <1>14 DEF List, row
  <2>2. Files \subseteq Delivered \cup Whole
    BY <2>1, <1>i DEF SecureInv
  <2> QED
    BY <2>1, <2>2, <1>c, <1>s, <1>d, <1>w DEF SecureInv
<1>15. CASE PauseMoving
  BY <1>15, <1>q, <1>i, <1>s, <1>d, <1>w DEF PauseMoving, Goes, Park, SecureInv, PhaseInv, row
<1>16. CASE Sort
  <2>1. pc = "sort" /\ state = "MOVING" /\ Files \subseteq Delivered \cup Whole /\ Files \subseteq Delivered \cup todo
    BY <1>16, <1>i DEF Sort, PhaseInv, SecureInv
  <2>2. CASE pc' \in {"ship", "shipHeld"} /\ todo' = Payload \cap FullSize /\ state' = state
    <3>1. Files \ Delivered \subseteq Completed
      BY <2>1 DEF Completed, FullSize, Whole
    <3>2. ~ Batched => Files \ Delivered \subseteq Need(0)
      BY <1>f, <1>t, OnlyBatch DEF Need
    <3>3. Batches = 0 => Files = {Main}
      BY DEF Regular
    <3>4. Files \ Delivered \subseteq Payload
      <4>1. Batches = 0 /\ Files # {} => Files = {Main}
        BY <3>3
      <4> QED
        BY <3>1, <3>2, <3>3, <1>t, SettingType DEF Payload, Completed, TypeOK
    <3>5. Files \ Delivered \subseteq FullSize
      BY <3>1 DEF Completed
    <3> QED
      BY <2>1, <2>2, <3>4, <3>5, <1>s, <1>d, <1>w DEF SecureInv
  <2>3. CASE pc' = "idle" /\ state' = state
    BY <2>3, <1>q
  <2>4. CASE state' = "FAILED"
    BY <2>4, <1>e
  <2> QED
    BY <1>16, <2>2, <2>3, <2>4 DEF Sort, Park
<1>17. CASE Ship
  <2>1. Files \subseteq Delivered \cup todo /\ state = "MOVING"
    BY <1>17, <1>i DEF Ship, PhaseInv, SecureInv
  <2>2. CASE pc' = "drop" /\ state' = state /\ ShippedBytes(todo)
    <3>1. Files \subseteq Delivered'
      BY <2>1, <2>2, <1>t, <1>s, <1>d, MoveDelivers
    <3> QED
      BY <2>1, <2>2, <3>1, <1>s DEF SecureInv
  <2>3. CASE pc' = "idle" /\ (state' = state \/ state' = "FAILED")
    BY <2>3, <1>q, <1>e
  <2>4. pc' = "idle" \/ (pc' = "drop" /\ state' = state /\ ShippedBytes(todo))
    BY <1>17 DEF Ship, Shipped, Goes, Park
  <2>5. state' = state \/ state' = "FAILED"
    BY <1>17 DEF Ship
  <2> QED
    BY <2>2, <2>3, <2>4, <2>5
<1>18. CASE Drop \/ Wipe
  BY <1>18, <1>i, <1>s, <1>d DEF Drop, Wipe, Goes, row, SecureInv, PhaseInv
<1>19. CASE Handover
  BY <1>19, <1>i, <1>s, <1>d DEF Handover, Park, SecureInv
<1>20. CASE Inject
  BY <1>20, <1>i, <1>s, <1>d DEF Inject, worker, SecureInv
<1>21. CASE Heal \/ HealArrived \/ HealStall \/ HealMove
  <2>1. state = "RE_ADDING" /\ state' = state
    BY <1>21, <1>i DEF Heal, HealArrived, HealStall, HealMove, PhaseInv, row
  <2>2. pc' \in {"idle", "hwait", "hmove"}
    BY <1>21 DEF Heal, HealArrived, HealStall, HealMove, HealFailed, Goes, worker
  <2> QED
    BY <2>1, <2>2, <1>i, <1>s, <1>d DEF SecureInv
<1>22. CASE Crash \/ Boot
  BY <1>22, <1>q DEF Crash, Boot, Goes, row
<1>23. CASE Recover
  <2>1. pc = "idle" /\ UNCHANGED <<pc, todo>>
    BY <1>23 DEF Recover, worker
  <2>2. CASE state \in {"QUEUED", "DOWNLOADING"}
    <3>1. state' \in {"DOWNLOADING", "FAILED"}
      BY <1>23, <2>2 DEF Recover, Recovered
    <3> QED
      BY <2>1, <3>1 DEF SecureInv
  <2>3. CASE state = "MOVING" /\ OnSsd = {}
    <3>1. state' = "RE_ADDING" /\ Files \subseteq Delivered
      BY <1>23, <2>3, <1>i DEF Recover, Recovered, SecureInv, OnSsd, Whole
    <3> QED
      BY <2>1, <3>1, <1>s, <1>d DEF SecureInv
  <2>4. CASE state \notin {"QUEUED", "DOWNLOADING"} /\ ~ (state = "MOVING" /\ OnSsd = {})
    <3>1. state' = state
      BY <1>23, <2>4 DEF Recover, Recovered
    <3> QED
      BY <2>1, <3>1, <1>k
  <2> QED
    BY <2>2, <2>3, <2>4
<1>24. CASE UNCHANGED vars
  BY <1>24, <1>k DEF vars, row, worker
<1> QED
  BY <1>1, <1>2, <1>3, <1>4, <1>5, <1>6, <1>7, <1>8, <1>9, <1>10, <1>11, <1>12, <1>13, <1>14, <1>15,
     <1>16, <1>17, <1>18, <1>19, <1>20, <1>21, <1>22, <1>23, <1>24
  DEF Next, Work, Download, Moving, Readd, Timer, Environment

-----------------------------------------------------------------------------
(* The promise.                                                             *)

\* The inductive invariant of a regular torrent.
RegularInv == Regular /\ IInv /\ PhaseInv /\ EntryInv /\ ClientInv /\ WantInv /\ SecureInv

\* It holds at first, ...
LEMMA InitRegular == Init /\ Regular => RegularInv
<1> SUFFICES ASSUME Init, Regular PROVE RegularInv
  OBVIOUS
<1>1. IInv
  BY InitInv
<1>2. PhaseInv /\ EntryInv /\ WantInv
  BY DEF Init, PhaseInv, EntryInv, WantInv
<1>3. ClientInv /\ SecureInv
  BY DEF Init, ClientInv, SecureInv
<1> QED
  BY <1>1, <1>2, <1>3 DEF RegularInv

\* ... and every step keeps it.
LEMMA StepRegular == RegularInv /\ [Next]_vars => RegularInv'
<1> SUFFICES ASSUME RegularInv, [Next]_vars PROVE RegularInv'
  OBVIOUS
<1>1. Regular'
  BY StepSetting DEF RegularInv, Regular, Near, Slack, Batches, Files, Main, BatchOf
<1>2. IInv'
  BY StepInv DEF RegularInv
<1>3. PhaseInv' /\ EntryInv' /\ ClientInv' /\ WantInv'
  BY StepPhase, StepEntry, StepClient, StepWant DEF RegularInv, IInv
<1>4. SecureInv'
  BY StepSecure DEF RegularInv, IInv, SafeInv
<1> QED
  BY <1>1, <1>2, <1>3, <1>4 DEF RegularInv

\* The files fs, and no others, get to another place.
LEMMA PlaceCarried ==
  ASSUME UNCHANGED setting, NEW fs \in SUBSET AllFiles, NEW p, NEW q,
         \A f \in fs : Place[f] = p /\ Place'[f] = q,
         \A f \in AllFiles \ fs : Place'[f] = Place[f]
  PROVE  Promise!Carried(fs, p, q)
<1>1. Place' = [f \in AllFiles |-> Place'[f]]
  BY DEF Place
<1>2. Place' = [f \in AllFiles |-> IF f \in fs THEN q ELSE Place[f]]
  BY <1>1
<1> QED
  BY <1>2 DEF Promise!Carried

\* The place of a file, in the words of the invariant.
LEMMA PlaceOf ==
  ASSUME UNCHANGED setting, NEW f \in AllFiles
  PROVE  /\ Place[f] = IF f \notin Files \/ f \in Delivered THEN "delivered"
                       ELSE IF f \in Whole THEN "held" ELSE "missing"
         /\ Place'[f] = IF f \notin Files \/ f \in Delivered' THEN "delivered"
                        ELSE IF f \in Whole' THEN "held" ELSE "missing"
BY SettingKept DEF Place, Delivered, Whole

\* No file moved is no change.
LEMMA NoneCarried ==
  ASSUME NEW p, NEW q, Promise!Carried({}, p, q)
  PROVE  Place' = Place
<1>1. Place = [f \in AllFiles |-> Place[f]]
  BY DEF Place
<1> QED
  BY <1>1 DEF Promise!Carried

\* Every step is a step of Delivery, or none.
LEMMA StepPromise ==
  ASSUME RegularInv, [Next]_vars
  PROVE  [Promise!Next]_<<Outcome, Place>>
<1> DEFINE P == [Promise!Next]_<<Outcome, Place>>
<1>s. UNCHANGED setting /\ Files' = Files /\ Files \subseteq AllFiles
  BY StepSetting, SettingKept, SettingType DEF RegularInv, IInv, TInv, TypeOK
<1>t. Whole \subseteq Files /\ Whole' \subseteq Files /\ Delivered \subseteq Files
  BY <1>s DEF Whole, Delivered
<1>d. UNCHANGED remote => Delivered' = Delivered
  BY <1>s DEF Delivered
<1>o. /\ state' = state \/ (Open /\ Open') => Outcome' = Outcome
      /\ Open => Outcome = "open"
      /\ state' = "FAILED" => Outcome' = "failed"
      /\ state' = "DONE" => Outcome' = "done"
  BY DEF Outcome, Open
<1>1. Grows \/ Carries \/ Turns \/ Clears \/ Fails \/ Ends
  BY StepKind DEF RegularInv, IInv, SafeInv
<1>2. CASE Grows
  <2> DEFINE fs == (Whole' \ Whole) \ Delivered
  <2>1. fs \subseteq AllFiles /\ Delivered' = Delivered /\ Outcome' = Outcome /\ Whole \subseteq Whole'
    BY <1>2, <1>s, <1>t, <1>d, <1>o DEF Grows
  <2>2. Promise!Carried(fs, "missing", "held")
    BY <2>1, <1>s, <1>t, PlaceOf, PlaceCarried
  <2>3. CASE fs = {}
    BY <2>1, <2>2, <2>3, NoneCarried
  <2>4. CASE fs # {}
    BY <2>1, <2>2, <2>4 DEF Promise!Gets, Promise!Next
  <2> QED
    BY <2>3, <2>4
<1>3. CASE Carries
  <2>1. PICK m \in SUBSET (Delivered \cup Whole) : Delivered' = Delivered \cup m /\ Whole' = Whole \ m
    BY <1>3 DEF Carries
  <2> DEFINE fs == m \ Delivered
  <2>2. fs \subseteq AllFiles /\ fs \subseteq Whole
    BY <2>1, <1>s, <1>t
  <2>3. Promise!Carried(fs, "held", "delivered")
    BY <2>1, <2>2, <1>s, <1>t, PlaceOf, PlaceCarried
  <2>4. Outcome' = Outcome \/ (Outcome = "open" /\ Outcome' = "failed")
    BY <1>3, <1>o DEF Carries
  <2>5. CASE fs # {}
    BY <2>2, <2>3, <2>4, <2>5 DEF Promise!Delivers, Promise!Next
  <2>6. CASE fs = {}
    <3>1. Place' = Place
      BY <2>3, <2>6, NoneCarried
    <3>2. Promise!Carried({}, "held", "missing")
      BY <3>1, <1>s, PlaceCarried
    <3> QED
      BY <2>4, <3>1, <3>2 DEF Promise!GivesUp, Promise!Next
  <2> QED
    BY <2>5, <2>6
<1>4. CASE Turns \/ Clears
  <2>1. Delivered' = Delivered /\ Outcome' = Outcome /\ (Whole' = Whole \/ Files \subseteq Delivered)
    BY <1>4, <1>d, <1>o DEF Turns, Clears
  <2>2. Promise!Carried({}, "held", "missing")
    BY <2>1, <1>s, PlaceOf, PlaceCarried
  <2> QED
    BY <2>1, <2>2, NoneCarried
<1>5. CASE Fails
  <2> DEFINE fs == (Whole \ Whole') \ Delivered
  <2>1. fs \subseteq AllFiles /\ Delivered' = Delivered /\ Whole' \subseteq Whole
    BY <1>5, <1>s, <1>t, <1>d DEF Fails
  <2>2. Promise!Carried(fs, "held", "missing")
    BY <2>1, <1>s, <1>t, PlaceOf, PlaceCarried
  <2>3. Outcome = "open" /\ Outcome' = "failed"
    BY <1>5, <1>o DEF Fails
  <2> QED
    BY <2>1, <2>2, <2>3 DEF Promise!GivesUp, Promise!Next
<1>6. CASE Ends
  <2>1. Delivered' = Delivered /\ Files \subseteq Delivered
    BY <1>6, <1>d DEF Ends
  <2>2. Promise!Carried({}, "held", "missing")
    BY <2>1, <1>s, PlaceOf, PlaceCarried
  <2>3. \A f \in AllFiles : Place[f] = "delivered"
    BY <2>1, <1>s, PlaceOf
  <2>4. Outcome = "open" /\ Outcome' = "done"
    BY <1>6, <1>o DEF Ends
  <2> QED
    BY <2>2, <2>3, <2>4, NoneCarried DEF Promise!Finishes, Promise!Next
<1> QED
  BY <1>1, <1>2, <1>3, <1>4, <1>5, <1>6

\* So are the initial states.
LEMMA InitPromise == Init => Promise!Init
<1> SUFFICES ASSUME Init PROVE Promise!Init
  OBVIOUS
<1>1. Outcome = "open"
  BY DEF Init, Outcome
<1>2. Place \in [AllFiles -> {"missing", "delivered"}]
  BY DEF Init, Place
<1> QED
  BY <1>1, <1>2 DEF Promise!Init

\* The pipeline of a regular torrent implements Delivery: whatever lags, fails, is
\* lost or restarted, a complete file leaves the SSD only when the remote has it
\* or the row has failed, the first copy the remote gets of a file is complete,
\* and DONE means every file is there.
THEOREM Implements == Spec /\ Regular => KeepsPromise
<1>1. RegularInv /\ [Next]_vars => [Promise!Next]_<<Outcome, Place>>
  BY StepPromise
<1> QED
  BY InitRegular, StepRegular, InitPromise, <1>1, PTL DEF Spec, KeepsPromise, Promise!Spec, Promise!vars

\* A row is handed on, to be added again, only when the remote has every file.
HandedOnDelivered == state \in {"RE_ADDING", "DONE"} => Files \subseteq Delivered

\* The worker never looks at the remote before it hands a regular torrent on, and
\* never hands one on that the remote lacks a file of: a heal that downloads again
\* is for a mount that lags, not for a file that was lost.
THEOREM HandedOnComplete == Spec /\ Regular => []HandedOnDelivered
<1>1. RegularInv => HandedOnDelivered
  BY DEF RegularInv, SecureInv, HandedOnDelivered
<1> QED
  BY InitRegular, StepRegular, <1>1, PTL DEF Spec

-----------------------------------------------------------------------------
(* One batch at a time.                                                     *)

\* The steps of a round of the batch loop.
RoundPc == {"loop", "wait", "pause", "move", "flip", "advance", "finish"}

\* Where the row's cursors stand when nobody has chosen a batch yet.
StartInv ==
  /\ Batched /\ (state = "QUEUED" \/ total = 0) => index = 0
  /\ Batched /\ pc \in RoundPc => total # 0
  /\ ~ Loses /\ state = "DOWNLOADING" => entry # "none"

\* What the client has selected is what the worker chose, and not what an entry
\* that was added again begins with.
Chosen ==
  /\ entry # "none"
  /\ \/ state \in {"QUEUED", "DOWNLOADING"} /\ entry = "running"
     \/ state = "MOVING" \/ pc = "finish"
     \/ pc = "advance" /\ index + 1 < Batches
     \/ ~ Loses /\ state = "DOWNLOADING" /\ index > 0
     \/ setting.maxFaults = 0 /\ pc \in RoundPc

\* ... and the worker chooses the files of one batch.
SelectInv == Batched /\ Chosen => OneBatchWanted

\* The cursors move only with a selection.
LEMMA StepStart == TInv /\ PhaseInv /\ EntryInv /\ StartInv /\ [Next]_vars => StartInv'
<1> SUFFICES ASSUME TInv, PhaseInv, EntryInv, StartInv, [Next]_vars PROVE StartInv'
  OBVIOUS
<1>t. TypeOK /\ RoundInv /\ Batches \in Nat
  BY SettingType DEF TInv, TypeOK
<1>s. Batched' = Batched /\ Batches' = Batches /\ Loses' = Loses
  BY StepSetting, SettingKept DEF Loses
<1>b. Batched => Batches # 0
  BY DEF Batched
<1>k. ASSUME UNCHANGED row, pc' \in RoundPc => pc \in RoundPc, entry' = "none" => entry = "none"
      PROVE  StartInv'
  BY <1>k, <1>s DEF StartInv, row
<1>1. ASSUME NEW f \in AllFiles, Fetch(f) \/ Spill(f) \/ Index(f) PROVE StartInv'
  BY <1>1, <1>k DEF Fetch, Spill, Index, worker, client
<1>2. CASE Add
  BY <1>2, <1>s, <1>t DEF Add, Added, Goes, worker, StartInv, RoundPc
<1>3. CASE Setup
  BY <1>3, <1>s, <1>b DEF Setup, Selects, Park, row, client, StartInv, PhaseInv, RoundPc
<1>4. CASE SetupRemote
  BY <1>4, <1>s, <1>b DEF SetupRemote, Park, StartInv, RoundPc
<1>5. CASE SetupSingle
  BY <1>5, <1>s, <1>b DEF SetupSingle, Becomes, Park, StartInv, PhaseInv, RoundPc
<1>6. CASE Adopt
  BY <1>6, <1>s DEF Adopt, Selects, worker, StartInv, RoundPc
<1>7. CASE Enter
  BY <1>7, <1>s, <1>b DEF Enter, Selects, Goes, Park, client, StartInv, RoundPc
<1>8. CASE Again
  <2>1. total # 0 /\ UNCHANGED <<state, total>> /\ state = "DOWNLOADING"
    BY <1>8 DEF Again
  <2>2. entry' = entry
    BY <1>8 DEF Again, Selects, client
  <2> QED
    BY <2>1, <2>2, <1>s DEF StartInv
<1>9. CASE Loop \/ Wait \/ Flip
  BY <1>9, <1>k DEF Loop, Wait, Flip, Goes, Park, Selects, client, RoundPc
<1>10. CASE Vanished \/ Finish \/ Handover \/ GiveUp
  BY <1>10, <1>s DEF Vanished, Finish, Handover, GiveUp, Park, worker, StartInv, RoundPc
<1>11. CASE Stall
  BY <1>11, <1>s, <1>k DEF Stall, StartInv, client, RoundPc
<1>12. CASE Pause
  BY <1>12, <1>k DEF Pause, Becomes, Goes, Retry, Park, client, RoundPc
<1>13. CASE Move
  BY <1>13, <1>s DEF Move, Moved, Retry, Park, StartInv, RoundPc
<1>14. CASE Advance
  BY <1>14, <1>s DEF Advance, Goes, client, StartInv, PhaseInv, RoundPc
<1>15. CASE List \/ PauseMoving \/ Wipe
  BY <1>15, <1>k DEF List, PauseMoving, Wipe, Becomes, Goes, Park, client, RoundPc
<1>16. CASE Sort \/ Ship \/ Drop
  <2>1. pc' \notin RoundPc /\ UNCHANGED <<total, index>> /\ state = "MOVING" /\ state' \in {"MOVING", "FAILED"}
    BY <1>16 DEF Sort, Ship, Drop, Goes, Park, PhaseInv, row, RoundPc
  <2> QED
    BY <2>1, <1>s DEF StartInv
<1>17. CASE Inject \/ Heal \/ HealArrived \/ HealStall \/ HealMove
  <2>1. pc' \notin RoundPc /\ UNCHANGED <<total, index>> /\ state' \in {"DONE", "RE_ADDING"} /\ state = "RE_ADDING"
    BY <1>17 DEF Inject, Heal, HealArrived, HealStall, HealMove, HealFailed, Goes, PhaseInv, row, worker, RoundPc
  <2> QED
    BY <2>1, <1>s DEF StartInv
<1>18. CASE Crash
  BY <1>18, <1>s DEF Crash, row, client, StartInv, RoundPc
<1>19. CASE Boot
  BY <1>19, <1>k DEF Boot, Goes, client, RoundPc
<1>20. CASE Recover
  <2>1. UNCHANGED <<total, index, pc>> /\ pc = "idle" /\ entry = "none"
    BY <1>20 DEF Recover, worker
  <2>2. CASE state \in {"QUEUED", "DOWNLOADING"}
    <3>1. (state' = "DOWNLOADING" /\ entry' = "paused") \/ state' = "FAILED"
      BY <1>20, <2>2 DEF Recover, Recovered, Added
    <3> QED
      BY <2>1, <3>1, <1>s DEF StartInv, RoundPc
  <2>3. CASE state \notin {"QUEUED", "DOWNLOADING"}
    <3>1. state' \in {state, "RE_ADDING"}
      BY <1>20, <2>3 DEF Recover, Recovered
    <3> QED
      BY <2>1, <2>3, <3>1, <1>s DEF StartInv, RoundPc
  <2> QED
    BY <2>2, <2>3
<1>21. CASE UNCHANGED vars
  BY <1>21, <1>k DEF vars, worker, client
<1> QED
  BY <1>1, <1>2, <1>3, <1>4, <1>5, <1>6, <1>7, <1>8, <1>9, <1>10, <1>11, <1>12, <1>13, <1>14, <1>15,
     <1>16, <1>17, <1>18, <1>19, <1>20, <1>21
  DEF Next, Work, Download, Moving, Readd, Timer, Environment

\* Every selection the client runs with is what one batch needs, or was there
\* before.
LEMMA StepChosen ==
  ASSUME TInv, PhaseInv, EntryInv, StartInv, LossOrFaults, Batched, [Next]_vars, Chosen'
  PROVE  (Chosen /\ UNCHANGED want) \/ (UNCHANGED bytes /\ \E i \in 0..(Batches - 1) : want' = Need(i))
<1> DEFINE P == (Chosen /\ UNCHANGED want) \/ (UNCHANGED bytes /\ \E i \in 0..(Batches - 1) : want' = Need(i))
<1>t. TypeOK /\ RoundInv /\ Batches \in Nat /\ index \in Nat /\ setting.maxFaults \in Nat
  BY SettingType DEF TInv, TypeOK
<1>s. Batched' = Batched /\ Batches' = Batches /\ Loses' = Loses /\ setting' = setting
  BY StepSetting, SettingKept DEF Loses
<1>u. Setup \/ Enter \/ Again \/ Flip => UNCHANGED bytes
  BY DEF Setup, Enter, Again, Flip
<1>f. Trouble => ~ Loses
  BY <1>t DEF Trouble, LossOrFaults, TypeOK
<1>b. Batches > 1
  BY <1>t DEF Batched
<1>k. ASSUME UNCHANGED <<row, want>>, entry' = "running" => entry = "running", entry' # "none" => entry # "none",
             pc' # pc => pc' \in {"idle", "boot", "mpause", "sort", "ship", "shipHeld", "wipe", "handover"}
               \/ (pc \in RoundPc /\ pc' \in RoundPc \ {"advance", "finish"})
      PROVE  P
  BY <1>k, <1>s DEF Chosen, RoundPc, row
<1>1. ASSUME NEW f \in AllFiles, Fetch(f) \/ Spill(f) \/ Index(f) PROVE P
  BY <1>1, <1>k DEF Fetch, Spill, Index, worker, client
<1>2. CASE Add
  <2>1. state' = "QUEUED" => entry' = "paused" /\ pc' = "setup"
    BY <1>2 DEF Add, Added, Goes
  <2>2. state' \in {"QUEUED", "RE_ADDING", "FAILED"} /\ pc' \in {"idle", "setup"}
    BY <1>2 DEF Add, Goes, worker
  <2> QED
    BY <2>1, <2>2 DEF Chosen, RoundPc
<1>3. CASE Setup
  <2>1. CASE \E to : Selects(Need(0), to)
    BY <1>3, <2>1, <1>b, <1>t, <1>u DEF Selects
  <2>2. CASE Park /\ UNCHANGED <<state, client>> /\ state = "QUEUED"
    BY <2>2 DEF Chosen, Park, client, RoundPc
  <2> QED
    BY <1>3, <2>1, <2>2 DEF Setup, PhaseInv
<1>4. CASE SetupRemote \/ SetupSingle \/ Vanished \/ Inject
  BY <1>4, <1>b DEF SetupRemote, SetupSingle, Vanished, Inject, Gone, client, Chosen
<1>5. CASE Adopt
  BY <1>5, <1>b, <1>t DEF Adopt, Selects, StartInv
<1>6. CASE Enter
  <2>1. index = 0 /\ state = "DOWNLOADING"
    BY <1>6 DEF Enter, StartInv
  <2>2. CASE \E to : Selects(Need(index), to)
    BY <1>6, <2>1, <2>2, <1>b, <1>t, <1>u DEF Selects
  <2>3. CASE Park /\ UNCHANGED <<state, client, index>>
    BY <2>1, <2>3 DEF Chosen, Park, client, RoundPc
  <2> QED
    BY <1>6, <2>2, <2>3, <1>b, <1>t DEF Enter
<1>7. CASE Again
  <2>1. CASE index' = (IF index < Batches THEN index ELSE Batches - 1) /\ Selects(Need(index'), entry)
    BY <1>7, <2>1, <1>b, <1>t, <1>u DEF Selects
  <2>2. CASE Trouble /\ UNCHANGED <<index, client>>
    <3>1. state = "DOWNLOADING" /\ state' = state /\ pc' = "loop" /\ ~ Loses /\ setting.maxFaults # 0
      BY <1>7, <2>2, <1>t DEF Again, Goes, LossOrFaults, Trouble, TypeOK
    <3> QED
      BY <2>2, <3>1, <1>s DEF Chosen, client
  <2> QED
    BY <1>7, <2>1, <2>2 DEF Again
<1>8. CASE Loop
  BY <1>8, <1>k DEF Loop, client, RoundPc
<1>9. CASE Wait
  <2>1. pc = "wait" /\ UNCHANGED <<row, client>> /\ state = "DOWNLOADING"
    BY <1>9 DEF Wait, PhaseInv
  <2>2. CASE pc' = "pause"
    BY <2>1, <2>2, <1>k DEF client, RoundPc
  <2>3. CASE pc' = "finish" /\ ~ AwaitsBatch
    <3>1. index > 0
      BY <2>3, <1>b, <1>t DEF AwaitsBatch, Batched
    <3> QED
      BY <2>1, <3>1, <1>s DEF Chosen, LossOrFaults, client, RoundPc
  <2> QED
    BY <1>9, <2>2, <2>3 DEF Wait, Goes
<1>10. CASE Stall
  BY <1>10, <1>k DEF Stall, Gone, Chosen, client
<1>11. CASE Pause
  BY <1>11, <1>k DEF EntryInv, Pause, Becomes, Goes, Retry, Park, client, RoundPc
<1>12. CASE Move
  <2>1. UNCHANGED <<want, entry, index>> /\ pc = "move" /\ state = "DOWNLOADING"
    BY <1>12 DEF Move, Shipped, PhaseInv
  <2>2. pc' \in {"idle", "loop", "flip"} \/ (pc' = "advance" /\ ~ (index + 1 < Batches))
    BY <1>12 DEF Move, Moved, Retry, Park
  <2>3. state' = state \/ (state' = "FAILED" /\ pc' = "idle")
    BY <1>12 DEF Move, Park
  <2> QED
    BY <2>1, <2>2, <2>3, <1>s DEF Chosen, RoundPc
<1>13. CASE Flip
  <2>1. index + 1 \in 0..(Batches - 1)
    BY <1>13, <1>t DEF Flip, RoundInv
  <2>2. CASE \E to : Selects(Need(index + 1), to)
    BY <1>13, <2>1, <2>2, <1>u DEF Selects
  <2>3. CASE UNCHANGED client /\ Park
    BY <1>13, <2>3, <1>k DEF Flip, Park, client
  <2> QED
    BY <1>13, <2>2, <2>3 DEF Flip
<1>14. CASE Advance
  <2>1. pc = "advance" /\ index' = index + 1 /\ UNCHANGED <<state, client>> /\ state = "DOWNLOADING"
    BY <1>14 DEF Advance, PhaseInv
  <2>2. ~ (index + 1 < Batches) => index > 0
    BY <1>b, <1>t
  <2> QED
    BY <2>1, <2>2, <1>s DEF Chosen, LossOrFaults, client, RoundPc
<1>15. CASE Finish
  BY <1>15 DEF Finish, Chosen, client
<1>16. CASE List \/ PauseMoving \/ Wipe
  BY <1>16, <1>k DEF EntryInv, List, PauseMoving, Wipe, Becomes, Goes, Park, client
<1>17. CASE Sort \/ Ship
  <2>1. state = "MOVING" /\ entry # "none" /\ want' = want
    BY <1>17 DEF Sort, Ship, Shipped, PhaseInv, EntryInv
  <2> QED
    BY <2>1 DEF Chosen
<1>18. CASE Drop
  BY <1>18, <1>k DEF Drop, Gone, Goes, Chosen, client
<1>19. CASE Handover \/ GiveUp
  BY <1>19 DEF Handover, GiveUp, Park, worker, Chosen, RoundPc
<1>20. CASE Heal \/ HealArrived \/ HealStall \/ HealMove
  <2>1. state' = "RE_ADDING" /\ pc' \in {"idle", "hwait", "hmove"}
    BY <1>20 DEF Heal, HealArrived, HealStall, HealMove, HealFailed, Goes, PhaseInv, row, worker
  <2> QED
    BY <2>1 DEF Chosen, RoundPc
<1>21. CASE Crash \/ Boot
  BY <1>21, <1>k DEF Crash, Boot, Gone, Goes, Chosen, client
<1>22. CASE Recover
  <2>1. UNCHANGED <<index, pc>> /\ pc = "idle" /\ entry = "none"
    BY <1>22 DEF Recover, worker
  <2>2. CASE state \in {"QUEUED", "DOWNLOADING"}
    <3>1. (state' = "DOWNLOADING" /\ entry' = "paused") \/ state' = "FAILED"
      BY <1>22, <2>2 DEF Recover, Recovered, Added
    <3> QED
      BY <2>1, <2>2, <3>1, <1>s DEF StartInv, Chosen, RoundPc
  <2>3. CASE state \notin {"QUEUED", "DOWNLOADING"}
    <3>1. UNCHANGED entry
      BY <1>22, <2>3 DEF Recover, Recovered, client
    <3> QED
      BY <2>1, <3>1 DEF Chosen
  <2> QED
    BY <2>2, <2>3
<1>23. CASE UNCHANGED vars
  BY <1>23, <1>k DEF vars, worker, client
<1> QED
  BY <1>1, <1>2, <1>3, <1>4, <1>5, <1>6, <1>7, <1>8, <1>9, <1>10, <1>11, <1>12, <1>13, <1>14, <1>15,
     <1>16, <1>17, <1>18, <1>19, <1>20, <1>21, <1>22, <1>23
  DEF Next, Work, Download, Moving, Readd, Timer, Environment

\* Chosen selections are of one batch.
LEMMA StepSelect ==
  TInv /\ PhaseInv /\ EntryInv /\ StartInv /\ LossOrFaults /\ SelectInv /\ [Next]_vars => SelectInv'
<1> SUFFICES ASSUME TInv, PhaseInv, EntryInv, StartInv, LossOrFaults, SelectInv, [Next]_vars,
                    Batched, Chosen'
             PROVE  OneBatchWanted'
  BY StepSetting, SettingKept DEF SelectInv
<1>s. Files' = Files /\ Batches' = Batches /\ BatchOf' = BatchOf
  BY StepSetting, SettingKept
<1>1. CASE Chosen /\ UNCHANGED want
  BY <1>1, <1>s DEF SelectInv, OneBatchWanted, Batch
<1>2. ASSUME NEW i \in 0..(Batches - 1), want' = Need(i) PROVE OneBatchWanted'
  BY <1>2, <1>s DEF OneBatchWanted, Need, Batch
<1> QED
  BY <1>1, <1>2, StepChosen

\* The client never runs with files of two batches selected, for any torrents,
\* batches, mounts and restarts, when losses and failures do not come together.
THEOREM OneBatch == Spec /\ LossOrFaults => []OneBatchSelected
<1> DEFINE Inv == LossOrFaults /\ TInv /\ PhaseInv /\ EntryInv /\ StartInv /\ SelectInv
<1>1. Init /\ LossOrFaults => Inv
  BY InitType DEF Init, PhaseInv, EntryInv, StartInv, SelectInv, Chosen, RoundPc
<1>2. Inv /\ [Next]_vars => Inv'
  <2>1. LossOrFaults /\ [Next]_vars => LossOrFaults'
    BY StepSetting DEF LossOrFaults, Loses
  <2> QED
    BY <2>1, StepType, StepPhase, StepEntry, StepStart, StepSelect
<1>3. Inv => OneBatchSelected
  BY DEF SelectInv, Chosen, OneBatchSelected
<1> QED
  BY <1>1, <1>2, <1>3, PTL DEF Spec

\* No batch is above the cap, which Batcher promises of the batches it makes of
\* a list whose every file fits; and a folder has no file outside its batch.
BatchesFit ==
  /\ \A i \in 0..(Batches - 1) : BytesOf(Batch(i)) <= Cap
  /\ Batches = 1 => Files \subseteq Batch(0)

\* What weighs no more than a batch.
LEMMA PartFits ==
  ASSUME TypeOK, BatchesFit, NEW i \in 0..(Batches - 1), NEW fs, fs \subseteq Batch(i)
  PROVE  BytesOf(fs) <= Cap
<1>1. Files \subseteq AllFiles
  BY SettingType DEF TypeOK
<1> DEFINE B == Batch(i)
<1>2. B \subseteq AllFiles /\ fs \in SUBSET B
  BY <1>1 DEF Batch
<1>3. BytesOf(B) <= Cap
  BY DEF BatchesFit
<1> HIDE DEF B
<1>4. IsFiniteSet(B) /\ IsFiniteSet(fs) /\ \A f \in B : Size[f] \in Nat
  BY <1>2, SizeAssumption, FS_Subset
<1>5. BytesOf(B) = SumOver(Size, B) /\ BytesOf(fs) = SumOver(Size, fs)
  BY DEF BytesOf, SumOver
<1>6. SumOver(Size, fs) <= SumOver(Size, B)
  BY <1>2, <1>4, SumSubset
<1>7. SumOver(Size, fs) \in Nat /\ SumOver(Size, B) \in Nat /\ Cap \in Nat
  BY <1>2, <1>4, SumType, SizeAssumption
<1> QED
  BY <1>3, <1>5, <1>6, <1>7

\* What a running client may fetch fits what was reserved for the row: it is of one
\* batch, and no part of a batch weighs more than the batch.
THEOREM SelectionFits == Spec /\ LossOrFaults /\ BatchesFit => []SelectedFits
<1>1. TInv /\ BatchesFit /\ OneBatchSelected => SelectedFits
  <2> SUFFICES ASSUME TInv, BatchesFit, OneBatchSelected, Batches > 0, entry = "running",
                      state \in {"QUEUED", "DOWNLOADING", "MOVING"}
               PROVE  BytesOf(want) <= Cap
    BY DEF SelectedFits
  <2>1. TypeOK /\ Batches \in Nat
    BY SettingType DEF TInv, TypeOK
  <2>2. CASE Batched
    <3>1. PICK i \in 0..(Batches - 1) : want \subseteq Batch(i)
      BY <2>2 DEF OneBatchSelected, OneBatchWanted
    <3> QED
      BY <2>1, <3>1, PartFits
  <2>3. CASE ~ Batched
    <3>1. Batches = 1
      BY <2>1, <2>3 DEF Batched
    <3>2. want \subseteq Batch(0) /\ 0 \in 0..(Batches - 1)
      BY <2>1, <3>1 DEF BatchesFit, TypeOK
    <3> QED
      BY <2>1, <3>2, PartFits
  <2> QED
    BY <2>2, <2>3
<1>2. Init => TInv
  BY InitType
<1>3. TInv /\ [Next]_vars => TInv'
  BY StepType
<1>4. BatchesFit /\ [Next]_vars => BatchesFit'
  BY StepSetting, SettingKept DEF BatchesFit, Batch
<1> QED
  BY <1>1, <1>2, <1>3, <1>4, OneBatch, PTL DEF Spec

-----------------------------------------------------------------------------
(* Complete files only.                                                     *)

\* A mount without lag shows exactly what is on the remote, and nothing of what
\* it shows in full is set up, or healed.
ShownInv ==
  /\ fuse = Delivered
  /\ pc \notin {"hwait", "hmove"}
  /\ pc = "setup" => ~ (Files \subseteq fuse)

\* What the worker has in hand to move is not on the remote, or whole.
HandInv ==
  /\ pc \in {"wait", "pause", "move"} /\ AwaitsBatch => todo \cap Delivered = {}
  /\ pc \in {"mpause", "sort"} => \A f \in todo : have[f] = "all"
  /\ pc \in {"ship", "shipHeld"} => todo \subseteq Whole

\* Before the row is handed on, what the client has is whole or gone, and what it
\* may still fetch has no holes: it is not on the remote.
FullInv ==
  /\ entry # "none" /\ state \in {"QUEUED", "DOWNLOADING", "MOVING"} =>
       \A f \in Files : have[f] = "all" => disk[f] \in {"whole", "absent"}
  /\ ~ Batched /\ state \in {"QUEUED", "DOWNLOADING"} => holes = {}
  /\ ~ Batched /\ entry # "none" /\ (pc = "finish" \/ state = "MOVING") => \A f \in want : have[f] = "all"
  /\ Batched /\ Chosen => \A f \in want \cap Delivered : have[f] = "all"

\* The inductive invariant of a regular torrent on a timely mount.
TimelyInv == RegularInv /\ Timely /\ StartInv /\ ShownInv /\ HandInv /\ FullInv /\ OnlyCompleteShipped

\* The files a step ships are whole.
LEMMA ShipsWhole ==
  ASSUME TimelyInv, [Next]_vars, NEW m \in SUBSET todo, Move \/ Ship \/ HealMove
  PROVE  m \subseteq Whole
<1>1. CASE Move
  <2>1. pc = "move" /\ AwaitsBatch
    BY <1>1 DEF Move, TimelyInv, RegularInv, IInv, TInv, RoundInv, AwaitsBatch
  <2> QED
    BY <2>1 DEF TimelyInv, HandInv, RegularInv, SecureInv
<1>2. CASE Ship
  BY <1>2 DEF Ship, TimelyInv, HandInv
<1>3. CASE HealMove
  BY <1>3 DEF HealMove, TimelyInv, ShownInv
<1> QED
  BY <1>1, <1>2, <1>3

\* Who goes to set up, or to heal.
LEMMA ComesFrom ==
  ASSUME [Next]_vars, pc' \in {"setup", "hwait", "hmove"}
  PROVE  (pc' = pc /\ UNCHANGED remote) \/ Add \/ Heal \/ HealArrived
<1>1. ASSUME NEW f \in AllFiles, Fetch(f) \/ Spill(f) \/ Index(f) PROVE pc' = pc /\ UNCHANGED remote
  BY <1>1 DEF Fetch, Spill, Index, worker
<1>2. CASE Setup \/ SetupRemote \/ SetupSingle \/ Enter \/ Again \/ Loop \/ Wait \/ Vanished \/ Stall
  BY <1>2 DEF Setup, SetupRemote, SetupSingle, Enter, Again, Loop, Wait, Vanished, Stall, Goes, Park
<1>3. CASE Pause \/ Move \/ Flip \/ Advance \/ Finish
  BY <1>3 DEF Pause, Move, Moved, Flip, Advance, Finish, Goes, Park, Retry
<1>4. CASE List \/ PauseMoving \/ Sort \/ Ship \/ Drop \/ Wipe \/ Handover
  BY <1>4 DEF List, PauseMoving, Sort, Ship, Drop, Wipe, Handover, Goes, Park
<1>5. CASE Adopt \/ Inject \/ GiveUp
  BY <1>5 DEF Adopt, Inject, GiveUp, worker, bytes
<1>6. CASE HealStall \/ HealMove \/ Crash \/ Boot
  BY <1>6 DEF HealStall, HealMove, HealFailed, Crash, Boot, Goes
<1>7. CASE Recover
  BY <1>7 DEF Recover, worker
<1>8. CASE UNCHANGED vars
  BY <1>8 DEF vars, worker, bytes
<1> QED
  BY <1>1, <1>2, <1>3, <1>4, <1>5, <1>6, <1>7, <1>8
  DEF Next, Work, Download, Moving, Readd, Timer, Environment

\* A move is on the mount before anyone looks again.
LEMMA StepShown == TimelyInv /\ [Next]_vars => ShownInv'
<1> SUFFICES ASSUME TimelyInv, [Next]_vars PROVE ShownInv'
  OBVIOUS
<1>i. TInv /\ TypeOK /\ ShownInv /\ SecureInv /\ PhaseInv /\ ~ Lag
  BY DEF TimelyInv, RegularInv, IInv, TInv, Timely
<1>s. UNCHANGED setting /\ Files' = Files
  BY StepSetting, SettingKept
<1>1. fuse' = Delivered'
  <2>1. CASE UNCHANGED <<remote, fuse>>
    BY <2>1, <1>i, <1>s DEF ShownInv, Delivered
  <2>2. ASSUME UNCHANGED remote, NEW f \in Files, remote[f] # "none", fuse' = fuse \cup {f}
        PROVE  fuse' = Delivered'
    BY <2>2, <1>i, <1>s DEF ShownInv, Delivered
  <2>3. ASSUME NEW m \in SUBSET Files, ShippedBytes(m) PROVE fuse' = Delivered'
    <3>1. fuse' = fuse \cup m
      BY <2>3, <1>i DEF ShippedBytes
    <3> QED
      BY <2>3, <3>1, <1>i, <1>s, ShippedWhole DEF ShownInv
  <2> QED
    BY <2>1, <2>2, <2>3, <1>i, RemoteSteps
<1>2. state = "RE_ADDING" => Gate
  BY <1>i DEF SecureInv, ShownInv, Gate
<1>3. ~ (Heal \/ HealArrived)
  BY <1>2, <1>i DEF Heal, HealArrived, ShownInv
<1>4. pc' \notin {"hwait", "hmove"}
  BY <1>3, <1>i, ComesFrom DEF ShownInv, Add, Goes, worker
<1>5. ASSUME pc' = "setup" PROVE ~ (Files' \subseteq fuse')
  <2>1. CASE pc = "setup" /\ UNCHANGED remote
    BY <2>1, <1>1, <1>s, <1>i DEF ShownInv, Delivered
  <2>2. CASE Add
    BY <2>2, <1>5, <1>s DEF Add, Added, worker
  <2> QED
    BY <1>3, <1>5, <2>1, <2>2, ComesFrom
<1> QED
  BY <1>1, <1>4, <1>5 DEF ShownInv

\* While there is an entry, only a recheck takes from what the client has.
LEMMA HaveKept ==
  ASSUME TypeOK, [Next]_vars, entry # "none", entry' # "none", NEW f \in Files, have[f] = "all"
  PROVE  have'[f] = "all" \/ (Sort /\ Batches = 0)
<1>t. have \in [Files -> {"none", "some", "near", "all"}]
  BY DEF TypeOK
<1>1. ASSUME NEW g \in AllFiles, Fetch(g) \/ Spill(g) \/ Index(g) PROVE have'[f] = "all"
  BY <1>1, <1>t DEF Fetch, Spill, Index, client
<1>2. CASE Add \/ Setup \/ SetupRemote \/ SetupSingle \/ Adopt \/ Enter \/ Again
  BY <1>2 DEF Add, Setup, SetupRemote, SetupSingle, Adopt, Enter, Again, Gone, Selects, Becomes, client
<1>3. CASE Loop \/ Wait \/ Vanished \/ Stall \/ Pause \/ Move \/ Flip \/ Advance \/ Finish
  BY <1>3 DEF Loop, Wait, Vanished, Stall, Pause, Move, Flip, Advance, Finish, Gone, Shipped, Selects, Becomes, client
<1>4. CASE Sort
  BY <1>4 DEF Sort
<1>5. CASE List \/ PauseMoving \/ Ship \/ Drop \/ Wipe \/ Handover
  BY <1>5 DEF List, PauseMoving, Ship, Drop, Wipe, Handover, Gone, Shipped, Becomes, client
<1>6. CASE Inject \/ GiveUp \/ Heal \/ HealArrived \/ HealStall \/ HealMove
  BY <1>6 DEF Inject, GiveUp, Heal, HealArrived, HealStall, HealMove, Gone, Shipped, Selects, Becomes, client
<1>7. CASE Crash \/ Boot \/ Recover
  BY <1>7 DEF Crash, Boot, Recover, Recovered, Gone, client
<1>8. CASE UNCHANGED vars
  BY <1>8 DEF vars, client
<1> QED
  BY <1>1, <1>2, <1>3, <1>4, <1>5, <1>6, <1>7, <1>8
  DEF Next, Work, Download, Moving, Readd, Timer, Environment

\* What the worker has in hand was claimed, and what is claimed is whole or gone.
LEMMA StepHand == TimelyInv /\ [Next]_vars => HandInv'
<1> SUFFICES ASSUME TimelyInv, [Next]_vars PROVE HandInv'
  OBVIOUS
<1>i. /\ TInv /\ TypeOK /\ todo \subseteq Files /\ ShownInv /\ HandInv /\ FullInv
      /\ SecureInv /\ PhaseInv /\ EntryInv /\ ClientInv /\ SafeInv /\ Regular
  BY DEF TimelyInv, RegularInv, IInv, TInv, TypeOK, SafeInv
<1>s. UNCHANGED setting /\ Files' = Files /\ Batches' = Batches /\ Batched' = Batched
  BY StepSetting, SettingKept
<1>q. ASSUME pc' \notin {"wait", "pause", "move", "mpause", "sort", "ship", "shipHeld"} PROVE HandInv'
  BY <1>q DEF HandInv
<1>1. ASSUME NEW f \in AllFiles, Fetch(f) \/ Spill(f) PROVE HandInv'
  <2>1. Grows
    BY <1>1, <1>i, ClientGrows
  <2>2. UNCHANGED <<pc, todo, index, entry>> /\ (pc = "sort" => pc' = "sort")
    BY <1>1 DEF Fetch, Spill, row, worker
  <2>3. AwaitsBatch' = AwaitsBatch /\ Delivered' = Delivered
    BY <2>1, <2>2, <1>s DEF AwaitsBatch, Delivered, Grows
  <2>4. \A g \in Files : have[g] = "all" => have'[g] = "all"
    BY <1>1, <1>i DEF Fetch, Spill, TypeOK
  <2> QED
    BY <2>1, <2>2, <2>3, <2>4, <1>i DEF HandInv, Grows
<1>2. ASSUME NEW f \in AllFiles, Index(f) PROVE HandInv'
  <2>1. UNCHANGED <<pc, todo, index, remote, disk, have>>
    BY <1>2 DEF Index, row, worker, client
  <2>2. AwaitsBatch' = AwaitsBatch /\ Delivered' = Delivered /\ Whole' = Whole
    BY <2>1, <1>s DEF AwaitsBatch, Delivered, Whole
  <2> QED
    BY <2>1, <2>2, <1>i DEF HandInv
<1>3. CASE Add \/ Setup \/ SetupRemote \/ SetupSingle
  BY <1>3, <1>q DEF Add, Setup, SetupRemote, SetupSingle, Goes, Park, worker
<1>4. CASE Adopt \/ Recover \/ Inject \/ GiveUp
  BY <1>4, <1>q DEF Adopt, Recover, Inject, GiveUp, worker
<1>5. CASE Enter \/ Again
  <2>1. pc' \in {"idle", "loop"} \/ (pc' = "wait" /\ ~ Batched)
    BY <1>5 DEF Enter, Again, Goes, Park
  <2> QED
    BY <2>1, <1>s, <1>q DEF HandInv, AwaitsBatch
<1>6. CASE Loop
  <2>1. pc' = "wait" /\ UNCHANGED <<index, remote>> /\ (index < Batches => todo' \cap fuse = {})
    BY <1>6 DEF Loop, Need, row, bytes
  <2>2. AwaitsBatch' => index < Batches
    BY <2>1, <1>s DEF AwaitsBatch
  <2>3. AwaitsBatch' => todo' \cap Delivered' = {}
    BY <2>1, <2>2, <1>i, <1>s DEF ShownInv, Delivered
  <2> QED
    BY <2>1, <2>3 DEF HandInv
<1>7. CASE Wait \/ Pause
  <2>1. pc \in {"wait", "pause"} /\ UNCHANGED <<index, remote>>
    BY <1>7 DEF Wait, Pause, row, bytes
  <2>2. pc' \in {"idle", "loop", "finish"} \/ (pc' \in {"pause", "move"} /\ UNCHANGED todo)
    BY <1>7 DEF Wait, Pause, Goes, Retry, Park
  <2>3. AwaitsBatch' = AwaitsBatch /\ Delivered' = Delivered
    BY <2>1, <1>s DEF AwaitsBatch, Delivered
  <2> QED
    BY <2>1, <2>2, <2>3, <1>i DEF HandInv
<1>8. CASE Vanished \/ Stall \/ Move \/ Flip \/ Advance \/ Finish
  BY <1>8, <1>q DEF Vanished, Stall, Move, Moved, Flip, Advance, Finish, Goes, Park, Retry
<1>9. CASE List
  <2>1. pc' = "mpause" /\ todo' = Claimed /\ UNCHANGED have
    BY <1>9 DEF List, client
  <2> QED
    BY <2>1, <1>i DEF HandInv, Claimed, ClientInv
<1>10. CASE PauseMoving
  <2>1. (pc = "mpause" /\ UNCHANGED <<have, todo>> /\ pc' = "sort") \/ pc' = "idle"
    BY <1>10 DEF PauseMoving, Goes, Park, Becomes, client
  <2> QED
    BY <2>1, <1>i DEF HandInv
<1>11. CASE Sort
  <2>1. /\ pc = "sort" /\ entry # "none" /\ state = "MOVING"
        /\ \A f \in todo : have[f] = "all" /\ disk[f] \in {"whole", "absent"}
    BY <1>11, <1>i DEF Sort, HandInv, FullInv, EntryInv, PhaseInv
  <2>2. Completed \subseteq Whole
    BY <2>1, <1>i DEF Completed, FullSize, Whole
  <2>3. Need(0) \subseteq Whole
    BY <2>1, <1>i DEF Need, Batch, ShownInv, SecureInv
  <2>4. Payload \subseteq Whole
    BY <2>2, <2>3 DEF Payload
  <2>5. Whole' = Whole
    BY <1>11, <1>s, <1>i DEF Sort, Short, Whole, TypeOK
  <2>6. pc' = "idle" \/ (pc' \in {"ship", "shipHeld"} /\ todo' \subseteq Payload)
    BY <1>11 DEF Sort, Park
  <2> QED
    BY <2>4, <2>5, <2>6 DEF HandInv
<1>12. CASE Ship \/ Drop \/ Wipe \/ Handover
  BY <1>12, <1>q DEF Ship, Drop, Wipe, Handover, Goes, Park
<1>13. CASE Heal \/ HealArrived \/ HealStall \/ HealMove
  BY <1>13, <1>q DEF Heal, HealArrived, HealStall, HealMove, HealFailed, Goes, worker
<1>14. CASE Crash \/ Boot
  BY <1>14, <1>q DEF Crash, Boot, Goes
<1>15. CASE UNCHANGED vars
  <2>1. UNCHANGED <<pc, todo, index, remote, disk, have>>
    BY <1>15 DEF vars, row, worker, bytes, client
  <2>2. AwaitsBatch' = AwaitsBatch /\ Delivered' = Delivered /\ Whole' = Whole
    BY <2>1, <1>s DEF AwaitsBatch, Delivered, Whole
  <2> QED
    BY <2>1, <2>2, <1>i DEF HandInv
<1> QED
  BY <1>1, <1>2, <1>3, <1>4, <1>5, <1>6, <1>7, <1>8, <1>9, <1>10, <1>11, <1>12, <1>13, <1>14, <1>15
  DEF Next, Work, Download, Moving, Readd, Timer, Environment

\* The states before the row is handed on.
Flight == state \in {"QUEUED", "DOWNLOADING", "MOVING"}
\* ... and before it is moved.
Early == state \in {"QUEUED", "DOWNLOADING"}

\* The first part of FullInv.
FullHave == entry # "none" /\ Flight => \A f \in Files : have[f] = "all" => disk[f] \in {"whole", "absent"}

\* No way leads back from RE_ADDING or FAILED.
LEMMA FlightSteps ==
  ASSUME TInv, PhaseInv, [Next]_vars
  PROVE  (Flight' => Flight) /\ (Early' => Early)
<1> DEFINE P == (Flight' => Flight) /\ (Early' => Early)
<1>1. ASSUME NEW f \in AllFiles, Fetch(f) \/ Spill(f) \/ Index(f) PROVE P
  BY <1>1 DEF Fetch, Spill, Index, Flight, Early, row
<1>2. CASE Add \/ Setup \/ SetupRemote \/ SetupSingle \/ Adopt
  BY <1>2 DEF Add, Setup, SetupRemote, SetupSingle, Adopt, PhaseInv, Flight, Early
<1>3. CASE Enter \/ Again \/ Loop \/ Wait \/ Vanished \/ Stall \/ Pause \/ Move \/ Flip \/ Advance \/ Finish
  BY <1>3 DEF Enter, Again, Loop, Wait, Vanished, Stall, Pause, Move, Flip, Advance, Finish, PhaseInv, Flight, Early
<1>4. CASE List \/ PauseMoving \/ Sort \/ Ship \/ Drop \/ Wipe \/ Handover
  <2>1. state = "MOVING"
    BY <1>4 DEF List, PauseMoving, Sort, Ship, Drop, Wipe, Handover, PhaseInv
  <2>2. state' \in {"MOVING", "FAILED", "RE_ADDING"}
    BY <1>4, <2>1 DEF List, PauseMoving, Sort, Ship, Drop, Wipe, Handover, row
  <2> QED
    BY <2>1, <2>2 DEF Flight, Early
<1>5. CASE Inject \/ GiveUp \/ Heal \/ HealArrived \/ HealStall \/ HealMove
  BY <1>5 DEF Inject, GiveUp, Heal, HealArrived, HealStall, HealMove, Flight, Early, row
<1>6. CASE Crash \/ Boot
  BY <1>6 DEF Crash, Boot, Flight, Early, row
<1>7. CASE Recover
  <2>1. /\ state \notin {"QUEUED", "DOWNLOADING", "MOVING"} => state' = state
        /\ state = "MOVING" => state' \in {"MOVING", "RE_ADDING"}
    BY <1>7 DEF Recover, Recovered
  <2> QED
    BY <2>1 DEF Flight, Early
<1>8. CASE UNCHANGED vars
  BY <1>8 DEF vars, Flight, Early, row
<1> QED
  BY <1>1, <1>2, <1>3, <1>4, <1>5, <1>6, <1>7, <1>8
  DEF Next, Work, Download, Moving, Readd, Timer, Environment

\* What a running client still fetches has no holes.
LEMMA FetchSound ==
  ASSUME TimelyInv, Flight, entry = "running", NEW f \in want, have[f] # "all"
  PROVE  f \notin holes
<1>1. CASE Batched
  <2>1. Chosen
    BY DEF Flight, Chosen
  <2> QED
    BY <1>1, <2>1 DEF TimelyInv, FullInv, RegularInv, ClientInv
<1>2. CASE ~ Batched
  BY <1>2 DEF TimelyInv, FullInv, Flight
<1> QED
  BY <1>1, <1>2

\* A file the client completes is whole, for it had no hole.
LEMMA StepFullHave == TimelyInv /\ [Next]_vars => FullHave'
<1> SUFFICES ASSUME TimelyInv, [Next]_vars, entry' # "none", Flight',
                    NEW f \in Files', have'[f] = "all"
             PROVE  disk'[f] \in {"whole", "absent"}
  BY DEF FullHave
<1>i. TInv /\ TypeOK /\ todo \subseteq Files /\ FullInv /\ PhaseInv /\ EntryInv /\ Flight
  BY FlightSteps DEF TimelyInv, RegularInv, IInv, TInv, TypeOK
<1>s. UNCHANGED setting /\ Files' = Files
  BY StepSetting, SettingKept
<1>h. entry # "none" /\ have[f] = "all" => disk[f] \in {"whole", "absent"}
  BY <1>i, <1>s DEF FullInv, Flight
<1>k. ASSUME entry # "none", have'[f] = have[f], disk'[f] \in {disk[f], "absent"} PROVE disk'[f] \in {"whole", "absent"}
  BY <1>k, <1>h
<1>a. ASSUME NEW wanted, NEW to, Added(wanted, to) PROVE disk'[f] \in {"whole", "absent"}
  BY <1>a, <1>s, <1>i DEF Added, TypeOK
<1>m. ASSUME NEW m, Shipped(m), entry # "none" PROVE disk'[f] \in {"whole", "absent"}
  <2>1. disk'[f] \in {disk[f], "absent"} /\ have' = have
    BY <1>m, <1>s DEF Shipped, ShippedBytes
  <2> QED
    BY <2>1, <1>m, <1>k
<1>1. ASSUME NEW g \in AllFiles, Fetch(g) PROVE disk'[f] \in {"whole", "absent"}
  <2>1. g # f => have'[f] = have[f] /\ disk'[f] = disk[f]
    BY <1>1, <1>s, <1>i DEF Fetch, TypeOK
  <2>2. CASE g = f
    <3>1. f \notin holes
      BY <1>1, <2>2, <1>i, FetchSound DEF Fetch
    <3> QED
      BY <1>1, <2>2, <3>1, <1>s, <1>i DEF Fetch, TypeOK
  <2> QED
    BY <1>1, <2>1, <2>2, <1>k DEF Fetch
<1>2. ASSUME NEW g \in AllFiles, Spill(g) PROVE disk'[f] \in {"whole", "absent"}
  <2>1. g # f => have'[f] = have[f] /\ disk'[f] = disk[f]
    BY <1>2, <1>s, <1>i DEF Spill, TypeOK
  <2>2. CASE g = f
    BY <1>2, <2>2, <1>s, <1>i DEF Spill, TypeOK
  <2> QED
    BY <1>2, <2>1, <2>2, <1>k DEF Spill
<1>3. ASSUME NEW g \in AllFiles, Index(g) PROVE disk'[f] \in {"whole", "absent"}
  BY <1>3, <1>k DEF Index, client
<1>4. CASE Add
  BY <1>4, <1>a, <1>k DEF Add, client
<1>5. CASE Setup \/ SetupSingle \/ Pause \/ Flip \/ PauseMoving
  <2>1. entry # "none"
    BY <1>5, <1>i DEF EntryInv, Setup, SetupSingle, Pause, Flip, PauseMoving
  <2>2. UNCHANGED <<have, disk>>
    BY <1>5 DEF Setup, SetupSingle, Pause, Flip, PauseMoving, Selects, Becomes, client, bytes
  <2> QED
    BY <2>1, <2>2, <1>k
<1>6. CASE SetupRemote \/ Inject
  BY <1>6 DEF SetupRemote, Inject, Gone
<1>7. CASE Adopt \/ Enter \/ Again
  BY <1>7, <1>k DEF Adopt, Enter, Again, Selects, client, bytes
<1>8. CASE Loop \/ Wait \/ Vanished \/ Advance \/ Finish \/ List \/ Handover
  BY <1>8, <1>k DEF Loop, Wait, Vanished, Advance, Finish, List, Handover, client, bytes
<1>9. CASE Stall
  BY <1>9, <1>k DEF Stall, Gone, client
<1>10. CASE Move
  BY <1>10, <1>m DEF Move
<1>11. CASE Sort
  <2>1. entry # "none"
    BY <1>11, <1>i DEF Sort, EntryInv
  <2>2. disk'[f] \in {disk[f], "absent"}
    BY <1>11, <1>s DEF Sort
  <2>3. CASE UNCHANGED have
    BY <2>1, <2>2, <2>3, <1>k
  <2>4. CASE Rechecked(Short)
    BY <2>2, <2>4, <1>s DEF Rechecked
  <2> QED
    BY <1>11, <2>3, <2>4 DEF Sort
<1>12. CASE Ship
  BY <1>12, <1>m, <1>i DEF Ship, EntryInv
<1>13. CASE Drop
  BY <1>13, <1>k DEF Drop, Gone, client, bytes
<1>14. CASE Wipe
  BY <1>14, <1>s DEF Wipe, Wiped
<1>15. CASE GiveUp \/ HealStall \/ Boot
  BY <1>15, <1>k DEF GiveUp, HealStall, Boot, client, bytes
<1>16. CASE Heal \/ HealArrived \/ HealMove
  <2>1. state = "RE_ADDING"
    BY <1>16, <1>i DEF Heal, HealArrived, HealMove, PhaseInv
  <2> QED
    BY <2>1, <1>i DEF Flight
<1>17. CASE Crash
  BY <1>17, <1>k DEF Crash, Gone, client, bytes
<1>18. CASE Recover
  <2>1. (\E wanted, to : Added(wanted, to)) \/ UNCHANGED <<client, bytes>>
    BY <1>18 DEF Recover, Recovered
  <2> QED
    BY <2>1, <1>a, <1>k DEF client, bytes
<1>19. CASE UNCHANGED vars
  BY <1>19, <1>k DEF vars, client, bytes
<1> QED
  BY <1>1, <1>2, <1>3, <1>4, <1>5, <1>6, <1>7, <1>8, <1>9, <1>10, <1>11, <1>12, <1>13, <1>14, <1>15,
     <1>16, <1>17, <1>18, <1>19
  DEF Next, Work, Download, Moving, Readd, Timer, Environment

\* A batch is selected without what the remote has.
LEMMA StepFresh ==
  ASSUME TimelyInv, [Next]_vars, Batched, Chosen'
  PROVE  \A f \in want' \cap Delivered' : have'[f] = "all"
<1>i. /\ TInv /\ TypeOK /\ want \subseteq Files /\ FullInv /\ PhaseInv /\ EntryInv /\ StartInv
      /\ LossOrFaults /\ ShownInv /\ ClientInv /\ SafeInv /\ Regular
  BY DEF TimelyInv, RegularInv, IInv, TInv, TypeOK, Timely, SafeInv
<1>s. Files' = Files /\ Delivered \subseteq Files
  BY StepSetting, SettingKept DEF Delivered
<1>1. CASE Chosen /\ UNCHANGED want
  <2> SUFFICES ASSUME NEW f \in want, f \in Delivered' PROVE have'[f] = "all"
    BY <1>1
  <2>1. entry # "none" /\ entry' # "none"
    BY <1>1 DEF Chosen
  <2>2. f \in Delivered \/ f \in Whole
    BY <1>i, <1>s, StepKind DEF Grows, Carries, Turns, Clears, Fails, Ends, Delivered
  <2>3. have[f] = "all"
    BY <1>1, <1>i, <2>1, <2>2 DEF FullInv, ClientInv
  <2>4. Batches # 0
    BY DEF Batched
  <2> QED
    BY <1>i, <2>1, <2>3, <2>4, HaveKept
<1>2. ASSUME UNCHANGED bytes, NEW i \in 0..(Batches - 1), want' = Need(i)
      PROVE  want' \cap Delivered' = {}
  <2>1. Delivered' = Delivered
    BY <1>2, <1>s DEF bytes, Delivered
  <2> QED
    BY <1>2, <2>1, <1>i DEF Need, ShownInv
<1> QED
  BY <1>1, <1>2, <1>i, StepChosen

\* What can be punched, and by whom.
LEMMA HolesSteps ==
  ASSUME [Next]_vars
  PROVE  holes' \in {holes, {}} \/ pc \in {"move", "sort", "ship", "shipHeld", "wipe", "hmove"}
<1>1. ASSUME NEW f \in AllFiles, Fetch(f) \/ Spill(f) \/ Index(f) PROVE holes' = holes
  BY <1>1 DEF Fetch, Spill, Index, client
<1>2. CASE Add \/ Setup \/ SetupRemote \/ SetupSingle \/ Adopt \/ Enter \/ Again
  BY <1>2 DEF Add, Added, Setup, SetupRemote, SetupSingle, Adopt, Enter, Again, Gone, Selects, Becomes, client
<1>3. CASE Loop \/ Wait \/ Vanished \/ Stall \/ Pause \/ Flip \/ Advance \/ Finish
  BY <1>3 DEF Loop, Wait, Vanished, Stall, Pause, Flip, Advance, Finish, Gone, Selects, Becomes, client
<1>4. CASE List \/ PauseMoving \/ Drop \/ Handover
  BY <1>4 DEF List, PauseMoving, Drop, Handover, Gone, Becomes, client
<1>5. CASE Inject \/ GiveUp \/ Heal \/ HealArrived \/ HealStall
  BY <1>5 DEF Inject, GiveUp, Heal, Added, HealArrived, HealStall, Gone, Selects, Becomes, client
<1>6. CASE Crash \/ Boot \/ Recover
  BY <1>6 DEF Crash, Boot, Recover, Recovered, Added, Gone, client
<1>7. CASE Move \/ Sort \/ Ship \/ Wipe \/ HealMove
  BY <1>7 DEF Move, Sort, Ship, Wipe, HealMove
<1>8. CASE UNCHANGED vars
  BY <1>8 DEF vars, client
<1> QED
  BY <1>1, <1>2, <1>3, <1>4, <1>5, <1>6, <1>7, <1>8
  DEF Next, Work, Download, Moving, Readd, Timer, Environment

\* Once the download is over.
Late == pc = "finish" \/ state = "MOVING"

\* What the client is to have changes no more once the download is over.
LEMMA LateSteps ==
  ASSUME TInv, PhaseInv, EntryInv, [Next]_vars, Late'
  PROVE  Wait \/ Advance \/ SetupSingle \/ (Late /\ (entry' = "none" \/ (entry # "none" /\ want' = want)))
<1> DEFINE P == Wait \/ Advance \/ SetupSingle \/ (Late /\ (entry' = "none" \/ (entry # "none" /\ want' = want)))
<1>1. ASSUME NEW f \in AllFiles, Fetch(f) \/ Spill(f) \/ Index(f) PROVE P
  BY <1>1 DEF Fetch, Spill, Index, Late, row, worker, client
<1>2. CASE Add \/ Setup \/ SetupRemote \/ Adopt \/ Enter \/ Again
  BY <1>2 DEF Add, Setup, SetupRemote, Adopt, Enter, Again, Goes, Park, PhaseInv, Late, row, worker
<1>3. CASE Loop \/ Vanished \/ Stall \/ Pause \/ Move \/ Flip
  BY <1>3 DEF Loop, Vanished, Stall, Pause, Move, Moved, Flip, Goes, Park, Retry, PhaseInv, Late, row
<1>4. CASE Finish \/ List \/ PauseMoving \/ Sort \/ Ship \/ Drop \/ Wipe \/ Handover
  BY <1>4 DEF Finish, List, PauseMoving, Sort, Ship, Shipped, Drop, Wipe, Handover, Gone, Becomes, PhaseInv, EntryInv, Late, client
<1>5. CASE Inject \/ GiveUp \/ Heal \/ HealArrived \/ HealStall \/ HealMove
  BY <1>5 DEF Inject, GiveUp, Heal, HealArrived, HealStall, HealMove, HealFailed, Goes, PhaseInv, Late, row, worker
<1>6. CASE Crash \/ Boot
  BY <1>6 DEF Crash, Boot, Gone, Goes, Late, row, client
<1>7. CASE Recover
  BY <1>7 DEF Recover, Recovered, Late, worker, client
<1>8. CASE UNCHANGED vars
  BY <1>8 DEF vars, Late, row, worker, client
<1> QED
  BY <1>1, <1>2, <1>3, <1>4, <1>5, <1>6, <1>7, <1>8
  DEF Next, Work, Download, Moving, Readd, Timer, Environment

\* The client's word is good until the row is handed on.
LEMMA StepFull == TimelyInv /\ [Next]_vars => FullInv'
<1> SUFFICES ASSUME TimelyInv, [Next]_vars PROVE FullInv'
  OBVIOUS
<1>i. /\ TInv /\ TypeOK /\ RoundInv /\ FullInv /\ PhaseInv /\ EntryInv /\ HandInv /\ ShownInv /\ ClientInv /\ Regular
  BY DEF TimelyInv, RegularInv, IInv, TInv
<1>s. UNCHANGED setting /\ Files' = Files /\ Batched' = Batched /\ Batches' = Batches
  BY StepSetting, SettingKept
<1>1. FullHave'
  BY StepFullHave
<1>2. ASSUME ~ Batched, Early' PROVE holes' = {}
  <2>1. Early /\ holes = {}
    BY <1>2, <1>i, FlightSteps DEF FullInv, Early
  <2>2. pc \notin {"move", "sort", "ship", "shipHeld", "wipe", "hmove"}
    BY <1>2, <2>1, <1>i DEF RoundInv, PhaseInv, Early
  <2> QED
    BY <2>1, <2>2, HolesSteps
<1>3. ASSUME ~ Batched, entry' # "none", Late', NEW f \in want' PROVE have'[f] = "all"
  <2>1. CASE Wait
    <3>1. UNCHANGED <<want, have>> /\ want \subseteq Claimed
      BY <1>3, <2>1, <1>i DEF Wait, Arrived, AwaitsBatch, TorrentComplete, Mostly, Regular, client
    <3> QED
      BY <1>3, <3>1, <1>i DEF Claimed, ClientInv
  <2>2. ~ Advance /\ ~ SetupSingle
    <3>1. ~ Advance
      BY <1>3, <1>i DEF Advance, RoundInv
    <3>2. SetupSingle => state' # "MOVING" /\ pc' = "idle"
      <4>1. SetupSingle => state = "QUEUED" /\ ~ (Files \subseteq fuse) /\ pc' = "idle"
        BY <1>i DEF SetupSingle, ShownInv, PhaseInv, Park
      <4> QED
        BY <4>1 DEF SetupSingle
    <3> QED
      BY <1>3, <3>1, <3>2 DEF Late
  <2>3. CASE Late /\ entry # "none" /\ want' = want
    <3>1. f \in Files /\ have[f] = "all" /\ entry # "none"
      BY <1>3, <2>3, <1>i DEF FullInv, Late, TypeOK
    <3>2. CASE Sort /\ Batches = 0
      <4>1. pc = "sort" /\ state = "MOVING" /\ Files = {Main}
        BY <3>2, <1>i DEF Sort, PhaseInv, Regular
      <4>2. f \in FullSize => disk[f] = "whole"
        BY <3>1, <4>1, <1>i DEF FullInv, FullSize
      <4>3. Rechecked(Short) /\ Unfinished => have'[f] = "all"
        BY <3>1, <3>2, <4>1, <4>2 DEF Unfinished, Rechecked, Short
      <4> QED
        BY <3>1, <3>2, <4>3 DEF Sort
    <3> QED
      BY <1>3, <3>1, <3>2, <1>i, HaveKept
  <2> QED
    BY <1>3, <2>1, <2>2, <2>3, <1>i, LateSteps
<1>4. ASSUME Batched, Chosen' PROVE \A f \in want' \cap Delivered' : have'[f] = "all"
  BY <1>4, StepFresh
<1> QED
  BY <1>1, <1>2, <1>3, <1>4, <1>s DEF FullInv, FullHave, Flight, Early, Late

\* Every move takes whole files only.
LEMMA StepComplete == TimelyInv /\ [Next]_vars => OnlyCompleteShipped'
<1> SUFFICES ASSUME TimelyInv, [Next]_vars PROVE OnlyCompleteShipped'
  OBVIOUS
<1>i. TypeOK /\ OnlyCompleteShipped /\ TInv
  BY DEF TimelyInv, RegularInv, IInv, TInv
<1>s. Files' = Files
  BY StepSetting, SettingKept
<1>k. ASSUME UNCHANGED remote PROVE OnlyCompleteShipped'
  BY <1>k, <1>i, <1>s DEF OnlyCompleteShipped
<1>m. ASSUME NEW m, ShippedBytes(m), m \subseteq Whole PROVE OnlyCompleteShipped'
  BY <1>m, <1>i, <1>s DEF OnlyCompleteShipped, ShippedBytes, Whole
<1>2. CASE (Move \/ Ship \/ HealMove) /\ \E m \in SUBSET Files : m \subseteq todo /\ ShippedBytes(m)
  BY <1>2, <1>m, ShipsWhole
<1> QED
  BY <1>k, <1>2, <1>i, RemoteSteps

\* Only complete files reach the remote, of a regular torrent whose mount shows a
\* move at once.
THEOREM OnlyComplete == Spec /\ Regular /\ Timely => []OnlyCompleteShipped
<1>1. Init /\ Regular /\ Timely => TimelyInv
  <2> SUFFICES ASSUME Init, Regular, Timely PROVE TimelyInv
    OBVIOUS
  <2>1. RegularInv
    BY InitRegular
  <2>2. PICK done \in SUBSET Files :
          fuse = done /\ remote = [f \in Files |-> IF f \in done THEN "whole" ELSE "none"]
    BY DEF Init, Timely
  <2>3. ShownInv /\ OnlyCompleteShipped
    BY <2>2 DEF Init, ShownInv, Delivered, OnlyCompleteShipped
  <2>4. StartInv /\ HandInv /\ FullInv
    BY DEF Init, StartInv, HandInv, FullInv, Chosen, RoundPc
  <2> QED
    BY <2>1, <2>3, <2>4 DEF TimelyInv
<1>2. TimelyInv /\ [Next]_vars => TimelyInv'
  <2> SUFFICES ASSUME TimelyInv, [Next]_vars PROVE TimelyInv'
    OBVIOUS
  <2>1. Timely'
    BY StepSetting DEF TimelyInv, Timely, LossOrFaults, Lag, Loses
  <2>2. RegularInv' /\ StartInv'
    BY StepRegular, StepStart DEF TimelyInv, RegularInv, IInv
  <2>3. ShownInv' /\ HandInv' /\ FullInv' /\ OnlyCompleteShipped'
    BY StepShown, StepHand, StepFull, StepComplete
  <2> QED
    BY <2>1, <2>2, <2>3 DEF TimelyInv
<1>3. TimelyInv => OnlyCompleteShipped
  BY DEF TimelyInv
<1> QED
  BY <1>1, <1>2, <1>3, PTL DEF Spec

-----------------------------------------------------------------------------
(* Folds over a list.                                                       *)

LEMMA HasLast ==
  ASSUME NEW n \in Nat
  PROVE  /\ \A s \in SUBSET (1..n) : s # {} => Max(s) \in s
         /\ IsFiniteSet(1..n)
<1> DEFINE S == 1..n
<1>1. IsFiniteSet(S)
  BY FS_Interval
<1> DEFINE T == {A \in SUBSET S : A = {} \/ \E x \in A : \A y \in A : x >= y}
<1>2. ASSUME NEW A \in SUBSET S, \A B \in SUBSET A : B # A => B \in T
      PROVE  A \in T
  <2> SUFFICES ASSUME A # {} PROVE \E x \in A : \A y \in A : x >= y
    OBVIOUS
  <2>1. PICK c \in A : TRUE
    OBVIOUS
  <2> DEFINE B == A \ {c}
  <2>2. B \in T
    BY <1>2, <2>1
  <2>3. CASE B = {}
    <3>1. \A y \in A : y = c
      BY <2>3
    <3> QED
      BY <2>1, <3>1
  <2>4. ASSUME NEW x \in B, \A y \in B : x >= y
        PROVE  \E z \in A : \A y \in A : z >= y
    <3>1. CASE x >= c
      BY <2>4, <3>1
    <3>2. CASE ~ (x >= c)
      BY <2>1, <2>4, <3>2
    <3> QED
      BY <3>1, <3>2
  <2> QED
    BY <2>2, <2>3, <2>4
<1>3. SUBSET S \subseteq T
  <2>1. \A X \in SUBSET S : (\A Y \in SUBSET X : Y # X => Y \in T) => X \in T
    BY <1>2
  <2> HIDE DEF T, S
  <2> QED
    BY <1>1, <2>1, SubsetInduction
<1> QED
  BY <1>1, <1>3 DEF Max

LEMMA LastOfPrefix ==
  ASSUME NEW n \in Nat, NEW k \in 1..n
  PROVE  /\ Max(1..k) = k /\ (1..k) \ {Max(1..k)} = 1..(k - 1)
         /\ 1..k \in SUBSET (1..n) /\ 1..(k - 1) \in SUBSET (1..n) /\ 1..k # {}
<1>1. k \in 1..k /\ \A y \in 1..k : k >= y
  OBVIOUS
<1>2. \A x \in 1..k : (\A y \in 1..k : x >= y) => x = k
  BY <1>1
<1>3. Max(1..k) = k
  BY <1>1, <1>2 DEF Max
<1> QED
  BY <1>3

\* The fold that adds the sizes of a list ...
BytesStep(fs, it, s) == IF s = {} THEN 0 ELSE it[s \ {Max(s)}] + fs[Max(s)].size
BytesTo(fs) == CHOOSE it : it = [s \in SUBSET DOMAIN fs |-> BytesStep(fs, it, s)]

LEMMA BytesUnfolds ==
  ASSUME NEW fs
  PROVE  Bytes(fs) = BytesTo(fs)[DOMAIN fs]
BY DEF Bytes, FoldLeft, MapThenFoldSet, BytesTo, BytesStep

\* ... exists.
LEMMA BytesToAt ==
  ASSUME NEW fs, NEW n \in Nat, DOMAIN fs = 1..n
  PROVE  \A s \in SUBSET (1..n) : BytesTo(fs)[s] = BytesStep(fs, BytesTo(fs), s)
<1> DEFINE S == 1..n
           D(m) == {s \in SUBSET S : Cardinality(s) <= m}
           T == {m \in Nat : \E it : it = [s \in D(m) |-> BytesStep(fs, it, s)]}
<1>1. \A s \in SUBSET S : /\ IsFiniteSet(s) /\ Cardinality(s) \in Nat
                         /\ Cardinality(s) <= Cardinality(S)
  BY HasLast, FS_Subset, FS_CardinalityType
<1>2. \A s \in SUBSET S : s # {} => /\ s \ {Max(s)} \in SUBSET S
                                    /\ Cardinality(s \ {Max(s)}) = Cardinality(s) - 1
                                    /\ Cardinality(s) # 0
  BY <1>1, HasLast, FS_RemoveElement, FS_EmptySet
<1> HIDE DEF S
<1>3. 0 \in T
  <2>1. D(0) = {{}}
    BY <1>1, FS_EmptySet
  <2>2. [s \in D(0) |-> 0] = [s \in D(0) |-> BytesStep(fs, [t \in D(0) |-> 0], s)]
    BY <2>1 DEF BytesStep
  <2> QED
    BY <2>2
<1>4. ASSUME NEW m \in T PROVE m + 1 \in T
  <2>1. PICK g : g = [s \in D(m) |-> BytesStep(fs, g, s)]
    BY <1>4
  <2> DEFINE h == [s \in D(m + 1) |-> BytesStep(fs, g, s)]
  <2>2. \A s \in D(m) : s \in D(m + 1) /\ h[s] = g[s]
    BY <2>1, <1>1
  <2>3. \A s \in D(m + 1) : s # {} => s \ {Max(s)} \in D(m)
    BY <1>1, <1>2
  <2>4. \A s \in D(m + 1) : BytesStep(fs, g, s) = BytesStep(fs, h, s)
    BY <2>2, <2>3 DEF BytesStep
  <2>5. h = [s \in D(m + 1) |-> BytesStep(fs, h, s)]
    BY <2>4
  <2>6. m \in Nat /\ m + 1 \in Nat
    BY <1>4
  <2>7. \E it : it = [s \in D(m + 1) |-> BytesStep(fs, it, s)]
    <3> HIDE DEF h
    <3> QED
      BY <2>5
  <2> QED
    BY <2>6, <2>7
<1>5. T = Nat
  BY <1>3, <1>4, NatSteps
<1>6. Cardinality(S) \in T
  BY <1>1, <1>5
<1>7. D(Cardinality(S)) = SUBSET S
  BY <1>1
<1>8. \E it : it = [s \in SUBSET DOMAIN fs |-> BytesStep(fs, it, s)]
  BY <1>6, <1>7 DEF S
<1> DEFINE it == BytesTo(fs)
<1>9. it = [s \in SUBSET S |-> BytesStep(fs, it, s)]
  BY <1>8 DEF BytesTo, S
<1> HIDE DEF it
<1>10. \A s \in SUBSET S : it[s] = BytesStep(fs, it, s)
  BY <1>9
<1> QED
  BY <1>10 DEF it, S

LEMMA BytesEmpty == Bytes(<<>>) = 0
<1>1. DOMAIN <<>> = 1..0 /\ {} \in SUBSET (1..0) /\ 1..0 = {}
  OBVIOUS
<1>2. BytesTo(<<>>)[{}] = BytesStep(<<>>, BytesTo(<<>>), {})
  BY <1>1, BytesToAt
<1> QED
  BY <1>1, <1>2, BytesUnfolds DEF BytesStep

\* One file more.
LEMMA BytesAt ==
  ASSUME NEW fs, NEW n \in Nat, DOMAIN fs = 1..n
  PROVE  /\ Bytes(fs) = BytesTo(fs)[1..n]
         /\ BytesTo(fs)[1..0] = 0
         /\ \A k \in 1..n : BytesTo(fs)[1..k] = BytesTo(fs)[1..(k - 1)] + fs[k].size
<1>1. BytesTo(fs)[{}] = 0
  BY BytesToAt DEF BytesStep
<1>2. ASSUME NEW k \in 1..n
      PROVE  BytesTo(fs)[1..k] = BytesTo(fs)[1..(k - 1)] + fs[k].size
  <2>1. BytesTo(fs)[1..k] = BytesStep(fs, BytesTo(fs), 1..k)
    BY LastOfPrefix, BytesToAt
  <2> QED
    BY <2>1, LastOfPrefix DEF BytesStep
<1>3. 1..0 = {}
  OBVIOUS
<1> QED
  BY <1>1, <1>2, <1>3, BytesUnfolds

LEMMA BytesAppend ==
  ASSUME NEW F, \A f \in F : f.size \in Nat, NEW fs \in Seq(F), NEW f \in F
  PROVE  Bytes(Append(fs, f)) = Bytes(fs) + f.size /\ Bytes(fs) \in Nat
<1> DEFINE n == Len(fs)
           gs == Append(fs, f)
<1>1. n \in Nat /\ DOMAIN fs = 1..n /\ \A k \in 1..n : fs[k] \in F /\ fs[k].size \in Nat
  OBVIOUS
<1>2. DOMAIN gs = 1..(n + 1) /\ gs[n + 1] = f /\ (\A k \in 1..n : gs[k] = fs[k]) /\ n + 1 \in Nat
  OBVIOUS
<1> HIDE DEF n, gs
<1> DEFINE T == {k \in Nat : k <= n => /\ BytesTo(gs)[1..k] = BytesTo(fs)[1..k]
                                       /\ BytesTo(fs)[1..k] \in Nat}
<1>3. 0 \in T
  BY <1>1, <1>2, BytesAt
<1>4. ASSUME NEW k \in T PROVE k + 1 \in T
  <2> SUFFICES ASSUME k + 1 <= n
               PROVE  /\ BytesTo(gs)[1..(k + 1)] = BytesTo(fs)[1..(k + 1)]
                      /\ BytesTo(fs)[1..(k + 1)] \in Nat
    BY <1>4
  <2>1. k \in Nat /\ k + 1 \in 1..n /\ k + 1 \in 1..(n + 1) /\ (k + 1) - 1 = k
    BY <1>1, <1>4
  <2>2. BytesTo(gs)[1..k] = BytesTo(fs)[1..k] /\ BytesTo(fs)[1..k] \in Nat
    BY <1>1, <1>4, <2>1
  <2>3. BytesTo(gs)[1..(k + 1)] = BytesTo(gs)[1..k] + gs[k + 1].size
    BY <1>2, <2>1, BytesAt
  <2>4. BytesTo(fs)[1..(k + 1)] = BytesTo(fs)[1..k] + fs[k + 1].size
    BY <1>1, <2>1, BytesAt
  <2> QED
    BY <1>1, <1>2, <2>1, <2>2, <2>3, <2>4
<1>5. T = Nat
  BY <1>3, <1>4, NatSteps
<1>6. BytesTo(gs)[1..n] = BytesTo(fs)[1..n] /\ BytesTo(fs)[1..n] \in Nat
  BY <1>1, <1>5
<1>7. Bytes(gs) = BytesTo(gs)[1..(n + 1)] /\ Bytes(fs) = BytesTo(fs)[1..n]
  BY <1>1, <1>2, BytesAt
<1>8. BytesTo(gs)[1..(n + 1)] = BytesTo(gs)[1..n] + f.size
  <2>1. n + 1 \in 1..(n + 1) /\ (n + 1) - 1 = n
    BY <1>1
  <2>2. \A k \in 1..(n + 1) : BytesTo(gs)[1..k] = BytesTo(gs)[1..(k - 1)] + gs[k].size
    BY <1>2, BytesAt
  <2>3. BytesTo(gs)[1..(n + 1)] = BytesTo(gs)[1..((n + 1) - 1)] + gs[n + 1].size
    BY <2>1, <2>2
  <2> QED
    BY <1>2, <2>1, <2>3
<1> QED
  BY <1>6, <1>7, <1>8 DEF gs

LEMMA BytesOne ==
  ASSUME NEW F, \A f \in F : f.size \in Nat, NEW f \in F
  PROVE  Bytes(<<f>>) = f.size
<1>1. <<f>> = Append(<<>>, f) /\ <<>> \in Seq(F) /\ f.size \in Nat
  OBVIOUS
<1>2. Bytes(Append(<<>>, f)) = Bytes(<<>>) + f.size
  BY <1>1, BytesAppend
<1>3. Bytes(<<f>>) = Bytes(Append(<<>>, f))
  BY <1>1, Zenon
<1> QED
  BY <1>1, <1>2, <1>3, BytesEmpty

\* ... and the loop of make_batches.
Start == [done |-> <<>>, cur |-> <<>>]
ReadingStep(fs, cap, maxFiles, it, s) ==
  IF s = {} THEN Start ELSE Take(it[s \ {Max(s)}], fs[Max(s)], cap, maxFiles)
Reading(fs, cap, maxFiles) ==
  CHOOSE it : it = [s \in SUBSET DOMAIN fs |-> ReadingStep(fs, cap, maxFiles, it, s)]

LEMMA LoopUnfolds ==
  ASSUME NEW fs, NEW cap, NEW maxFiles
  PROVE  MakeBatches(fs, cap, maxFiles) =
           LET end == Reading(fs, cap, maxFiles)[DOMAIN fs]
           IN  IF end.cur = <<>> THEN end.done ELSE Append(end.done, end.cur)
BY DEF MakeBatches, FoldLeft, MapThenFoldSet, Reading, ReadingStep, Start

LEMMA LoopAt ==
  ASSUME NEW fs, NEW cap, NEW maxFiles, NEW n \in Nat, DOMAIN fs = 1..n
  PROVE  \A s \in SUBSET (1..n) : Reading(fs, cap, maxFiles)[s] = ReadingStep(fs, cap, maxFiles, Reading(fs, cap, maxFiles), s)
<1> DEFINE S == 1..n
           D(m) == {s \in SUBSET S : Cardinality(s) <= m}
           T == {m \in Nat : \E it : it = [s \in D(m) |-> ReadingStep(fs, cap, maxFiles, it, s)]}
<1>1. \A s \in SUBSET S : /\ IsFiniteSet(s) /\ Cardinality(s) \in Nat
                         /\ Cardinality(s) <= Cardinality(S)
  BY HasLast, FS_Subset, FS_CardinalityType
<1>2. \A s \in SUBSET S : s # {} => /\ s \ {Max(s)} \in SUBSET S
                                    /\ Cardinality(s \ {Max(s)}) = Cardinality(s) - 1
                                    /\ Cardinality(s) # 0
  BY <1>1, HasLast, FS_RemoveElement, FS_EmptySet
<1> HIDE DEF S
<1>3. 0 \in T
  <2>1. D(0) = {{}}
    BY <1>1, FS_EmptySet
  <2>2. [s \in D(0) |-> Start] = [s \in D(0) |-> ReadingStep(fs, cap, maxFiles, [t \in D(0) |-> Start], s)]
    BY <2>1 DEF ReadingStep
  <2> QED
    BY <2>2
<1>4. ASSUME NEW m \in T PROVE m + 1 \in T
  <2>1. PICK g : g = [s \in D(m) |-> ReadingStep(fs, cap, maxFiles, g, s)]
    BY <1>4
  <2> DEFINE h == [s \in D(m + 1) |-> ReadingStep(fs, cap, maxFiles, g, s)]
  <2>2. \A s \in D(m) : s \in D(m + 1) /\ h[s] = g[s]
    BY <2>1, <1>1
  <2>3. \A s \in D(m + 1) : s # {} => s \ {Max(s)} \in D(m)
    BY <1>1, <1>2
  <2>4. \A s \in D(m + 1) : ReadingStep(fs, cap, maxFiles, g, s) = ReadingStep(fs, cap, maxFiles, h, s)
    BY <2>2, <2>3 DEF ReadingStep
  <2>5. h = [s \in D(m + 1) |-> ReadingStep(fs, cap, maxFiles, h, s)]
    BY <2>4
  <2>6. m \in Nat /\ m + 1 \in Nat
    BY <1>4
  <2>7. \E it : it = [s \in D(m + 1) |-> ReadingStep(fs, cap, maxFiles, it, s)]
    <3> HIDE DEF h
    <3> QED
      BY <2>5
  <2> QED
    BY <2>6, <2>7
<1>5. T = Nat
  BY <1>3, <1>4, NatSteps
<1>6. Cardinality(S) \in T
  BY <1>1, <1>5
<1>7. D(Cardinality(S)) = SUBSET S
  BY <1>1
<1>8. \E it : it = [s \in SUBSET DOMAIN fs |-> ReadingStep(fs, cap, maxFiles, it, s)]
  BY <1>6, <1>7 DEF S
<1> DEFINE it == Reading(fs, cap, maxFiles)
<1>9. it = [s \in SUBSET S |-> ReadingStep(fs, cap, maxFiles, it, s)]
  BY <1>8 DEF Reading, S
<1> HIDE DEF it
<1>10. \A s \in SUBSET S : it[s] = ReadingStep(fs, cap, maxFiles, it, s)
  BY <1>9
<1> QED
  BY <1>10 DEF it, S

LEMMA LoopRuns ==
  ASSUME NEW fs, NEW n \in Nat, DOMAIN fs = 1..n, NEW cap, NEW maxFiles
  PROVE  /\ Reading(fs, cap, maxFiles)[1..0] = Start
         /\ \A k \in 1..n : Reading(fs, cap, maxFiles)[1..k] =
              Take(Reading(fs, cap, maxFiles)[1..(k - 1)], fs[k], cap, maxFiles)
<1>1. Reading(fs, cap, maxFiles)[{}] = Start
  BY LoopAt DEF ReadingStep
<1>2. ASSUME NEW k \in 1..n
      PROVE  Reading(fs, cap, maxFiles)[1..k] =
               Take(Reading(fs, cap, maxFiles)[1..(k - 1)], fs[k], cap, maxFiles)
  <2>1. Reading(fs, cap, maxFiles)[1..k] = ReadingStep(fs, cap, maxFiles, Reading(fs, cap, maxFiles), 1..k)
    BY LastOfPrefix, LoopAt
  <2> QED
    BY <2>1, LastOfPrefix DEF ReadingStep
<1>3. 1..0 = {}
  OBVIOUS
<1> QED
  BY <1>1, <1>2, <1>3

\* The files of the batches, one list after the other.
FlatStep(bs, it, i) == IF i = 1 THEN bs[i] ELSE it[i - 1] \o bs[i]
Flat(bs) == CHOOSE it : it = [i \in 1..Len(bs) |-> FlatStep(bs, it, i)]

LEMMA FlatUnfolds ==
  ASSUME NEW bs
  PROVE  FlattenSeq(bs) = IF Len(bs) = 0 THEN bs ELSE Flat(bs)[Len(bs)]
BY DEF FlattenSeq, Flat, FlatStep

LEMMA FlatAt ==
  ASSUME NEW bs, Len(bs) \in Nat
  PROVE  \A i \in 1..Len(bs) : Flat(bs)[i] = FlatStep(bs, Flat(bs), i)
<1> DEFINE T == {m \in Nat : \E it : it = [i \in 1..m |-> FlatStep(bs, it, i)]}
<1>1. 0 \in T
  <2>1. [i \in 1..0 |-> 0] = [i \in 1..0 |-> FlatStep(bs, [j \in 1..0 |-> 0], i)]
    OBVIOUS
  <2> QED
    BY <2>1
<1>2. ASSUME NEW m \in T PROVE m + 1 \in T
  <2>1. PICK g : g = [i \in 1..m |-> FlatStep(bs, g, i)]
    BY <1>2
  <2> DEFINE h == [i \in 1..(m + 1) |-> FlatStep(bs, g, i)]
  <2>2. m \in Nat /\ \A i \in 1..m : i \in 1..(m + 1) /\ h[i] = g[i]
    BY <1>2, <2>1
  <2>3. \A i \in 1..(m + 1) : i # 1 => i - 1 \in 1..m
    BY <2>2
  <2>4. \A i \in 1..(m + 1) : FlatStep(bs, g, i) = FlatStep(bs, h, i)
    BY <2>2, <2>3 DEF FlatStep
  <2>5. h = [i \in 1..(m + 1) |-> FlatStep(bs, h, i)]
    BY <2>4
  <2>6. \E it : it = [i \in 1..(m + 1) |-> FlatStep(bs, it, i)]
    <3> HIDE DEF h
    <3> QED
      BY <2>5
  <2> QED
    BY <2>2, <2>6
<1>3. T = Nat
  BY <1>1, <1>2, NatSteps
<1>4. \E it : it = [i \in 1..Len(bs) |-> FlatStep(bs, it, i)]
  BY <1>3
<1> DEFINE it == Flat(bs)
<1>5. it = [i \in 1..Len(bs) |-> FlatStep(bs, it, i)]
  BY <1>4 DEF Flat
<1> HIDE DEF it
<1>6. \A i \in 1..Len(bs) : it[i] = FlatStep(bs, it, i)
  BY <1>5
<1> QED
  BY <1>6 DEF it

LEMMA FlattenAppend ==
  ASSUME NEW F, NEW bs \in Seq(Seq(F)), NEW b \in Seq(F)
  PROVE  FlattenSeq(Append(bs, b)) = FlattenSeq(bs) \o b /\ FlattenSeq(bs) \in Seq(F)
<1> DEFINE n == Len(bs)
           cs == Append(bs, b)
<1>1. n \in Nat /\ \A i \in 1..n : bs[i] \in Seq(F)
  OBVIOUS
<1>2. Len(cs) = n + 1 /\ cs[n + 1] = b /\ \A i \in 1..n : cs[i] = bs[i]
  OBVIOUS
<1>3. n = 0 => bs = <<>>
  OBVIOUS
<1> HIDE DEF n, cs
<1>4. \A i \in 1..n : Flat(bs)[i] = FlatStep(bs, Flat(bs), i)
  BY <1>1, FlatAt DEF n
<1>5. \A i \in 1..(n + 1) : Flat(cs)[i] = FlatStep(cs, Flat(cs), i)
  <2>1. Len(cs) \in Nat
    BY <1>1, <1>2
  <2> QED
    BY <1>2, <2>1, FlatAt
<1> DEFINE T == {k \in Nat : k \in 1..n => Flat(cs)[k] = Flat(bs)[k] /\ Flat(bs)[k] \in Seq(F)}
<1>6. 0 \in T
  OBVIOUS
<1>7. ASSUME NEW k \in T PROVE k + 1 \in T
  <2> SUFFICES ASSUME k + 1 \in 1..n
               PROVE  Flat(cs)[k + 1] = Flat(bs)[k + 1] /\ Flat(bs)[k + 1] \in Seq(F)
    BY <1>7
  <2>1. k \in Nat /\ k + 1 \in 1..(n + 1) /\ (k + 1) - 1 = k /\ (k + 1 # 1 => k \in 1..n)
    BY <1>1, <1>7
  <2>2. Flat(bs)[k + 1] = IF k + 1 = 1 THEN bs[k + 1] ELSE Flat(bs)[k] \o bs[k + 1]
    BY <1>4, <2>1 DEF FlatStep
  <2>3. Flat(cs)[k + 1] = IF k + 1 = 1 THEN bs[k + 1] ELSE Flat(cs)[k] \o bs[k + 1]
    BY <1>2, <1>5, <2>1 DEF FlatStep
  <2>4. k + 1 # 1 => Flat(cs)[k] = Flat(bs)[k] /\ Flat(bs)[k] \in Seq(F)
    BY <1>7, <2>1
  <2>5. bs[k + 1] \in Seq(F)
    BY <1>1
  <2> QED
    BY <2>2, <2>3, <2>4, <2>5
<1>8. T = Nat
  BY <1>6, <1>7, NatSteps
<1>9. ASSUME n # 0 PROVE Flat(cs)[n] = Flat(bs)[n] /\ Flat(bs)[n] \in Seq(F)
  <2>1. n \in T /\ n \in 1..n
    BY <1>1, <1>8, <1>9
  <2> QED
    BY <2>1
<1>10. FlattenSeq(bs) = IF n = 0 THEN <<>> ELSE Flat(bs)[n]
  BY <1>3, FlatUnfolds DEF n
<1>11. FlattenSeq(cs) = Flat(cs)[n + 1]
  BY <1>1, <1>2, FlatUnfolds
<1>12. Flat(cs)[n + 1] = IF n + 1 = 1 THEN b ELSE Flat(cs)[n] \o b
  <2>1. n + 1 \in 1..(n + 1) /\ (n + 1) - 1 = n
    BY <1>1
  <2> QED
    BY <1>2, <1>5, <2>1 DEF FlatStep
<1>13. b = <<>> \o b /\ <<>> \in Seq(F)
  OBVIOUS
<1> USE DEF cs
<1>14. CASE n = 0
  BY <1>10, <1>11, <1>12, <1>13, <1>14
<1>15. CASE n # 0
  <2>1. n + 1 # 1
    BY <1>1, <1>15
  <2> QED
    BY <1>9, <1>10, <1>11, <1>12, <1>15, <2>1
<1> QED
  BY <1>14, <1>15

-----------------------------------------------------------------------------
(* make_batches.                                                            *)

Fits(b, cap, maxFiles) ==
  b # <<>> /\ (Bytes(b) <= cap \/ Len(b) = 1) /\ Len(b) <= maxFiles
Tight(b, f, cap, maxFiles) == Bytes(b) + f.size > cap \/ Len(b) = maxFiles

\* The last of the closed batches could not take the file.
NoRoom(done, f, cap, maxFiles) ==
  done # <<>> => Tight(done[Len(done)], f, cap, maxFiles)

\* The closed batches, ...
Closed(done, F, cap, maxFiles) ==
  /\ done \in Seq(Seq(F))
  /\ \A i \in 1..Len(done) : Fits(done[i], cap, maxFiles)
  /\ \A i \in 1..Len(done) :
       i < Len(done) => Tight(done[i], done[i + 1][1], cap, maxFiles)

\* ... the open one, and the files the loop has read.
Packed(acc, read, F, cap, maxFiles) ==
  /\ acc = [done |-> acc.done, cur |-> acc.cur]
  /\ Closed(acc.done, F, cap, maxFiles)
  /\ acc.cur \in Seq(F) /\ Bytes(acc.cur) <= cap /\ Len(acc.cur) <= maxFiles
  /\ IF acc.cur = <<>> THEN acc.done # <<>> => Bytes(acc.done[Len(acc.done)]) > cap
                        ELSE NoRoom(acc.done, acc.cur[1], cap, maxFiles)
  /\ FlattenSeq(acc.done) \o acc.cur = read

Extended(new, done, b) ==
  /\ new # <<>> /\ new[Len(new)] = b
  /\ FlattenSeq(new) = FlattenSeq(done) \o b

LEMMA Closes ==
  ASSUME NEW F, NEW cap \in Nat, NEW maxFiles \in Nat \ {0},
         NEW done, Closed(done, F, cap, maxFiles),
         NEW b \in Seq(F), Fits(b, cap, maxFiles), NoRoom(done, b[1], cap, maxFiles)
  PROVE  Closed(Append(done, b), F, cap, maxFiles) /\ Extended(Append(done, b), done, b)
<1> DEFINE n == Len(done)
           new == Append(done, b)
<1>1. done \in Seq(Seq(F)) /\ n \in Nat
  BY DEF Closed
<1>2. /\ new \in Seq(Seq(F)) /\ Len(new) = n + 1 /\ new[n + 1] = b
      /\ \A i \in 1..n : new[i] = done[i]
  BY <1>1
<1>0. FlattenSeq(new) = FlattenSeq(done) \o b
  BY <1>1, FlattenAppend
<1> HIDE DEF new
<1>3. \A i \in 1..Len(new) : Fits(new[i], cap, maxFiles)
  <2>1. \A i \in 1..n : Fits(new[i], cap, maxFiles)
    BY <1>2 DEF Closed
  <2>2. \A i \in 1..(n + 1) : i \in 1..n \/ i = n + 1
    BY <1>1
  <2> HIDE DEF n
  <2> QED
    BY <1>2, <2>1, <2>2
<1>4. ASSUME NEW i \in 1..Len(new), i < Len(new)
      PROVE  Tight(new[i], new[i + 1][1], cap, maxFiles)
  <2>1. i \in 1..n
    BY <1>1, <1>2, <1>4
  <2>2. CASE i < n
    <3>1. new[i] = done[i] /\ new[i + 1] = done[i + 1]
      <4>1. i \in 1..n /\ i + 1 \in 1..n
        BY <1>1, <2>1, <2>2
      <4> HIDE DEF n
      <4> QED
        BY <1>2, <4>1
    <3>2. Tight(done[i], done[i + 1][1], cap, maxFiles)
      BY <2>1, <2>2 DEF Closed
    <3> QED
      BY <3>1, <3>2
  <2>3. CASE i = n
    <3>1. new[i] = done[n] /\ new[i + 1] = b /\ done # <<>>
      BY <1>1, <1>2, <2>1, <2>3
    <3> QED
      BY <3>1 DEF NoRoom
  <2> QED
    BY <1>1, <2>1, <2>2, <2>3
<1>5. new # <<>> /\ new[Len(new)] = b
  <2> HIDE DEF n
  <2>1. Len(<<>>) = 0 /\ n + 1 # 0
    BY <1>1
  <2> QED
    BY <1>2, <2>1
<1>6. Closed(new, F, cap, maxFiles)
  BY <1>2, <1>3, <1>4 DEF Closed
<1> QED
  BY <1>0, <1>5, <1>6 DEF Extended, new

LEMMA HeldNow ==
  ASSUME NEW F, NEW cap, NEW maxFiles, NEW done, NEW cur, NEW read,
         Closed(done, F, cap, maxFiles),
         cur \in Seq(F), Bytes(cur) <= cap, Len(cur) <= maxFiles,
         IF cur = <<>> THEN done # <<>> => Bytes(done[Len(done)]) > cap
                       ELSE NoRoom(done, cur[1], cap, maxFiles),
         FlattenSeq(done) \o cur = read
  PROVE  Packed([done |-> done, cur |-> cur], read, F, cap, maxFiles)
<1> DEFINE acc == [done |-> done, cur |-> cur]
<1>1. acc.done = done /\ acc.cur = cur
  OBVIOUS
<1> HIDE DEF acc
<1>2. acc = [done |-> acc.done, cur |-> acc.cur]
  BY <1>1 DEF acc
<1>3. Packed(acc, read, F, cap, maxFiles)
  BY <1>1, <1>2 DEF Packed
<1> QED
  BY <1>3 DEF acc

LEMMA Joined ==
  ASSUME NEW F, NEW s \in Seq(F), NEW t \in Seq(F), NEW f \in F
  PROVE  s \o Append(t, f) = Append(s \o t, f)
<1> DEFINE u == s \o Append(t, f)
           v == Append(s \o t, f)
<1>1. /\ u \in Seq(F) /\ Len(u) = Len(s) + Len(t) + 1
      /\ v \in Seq(F) /\ Len(v) = Len(s) + Len(t) + 1
      /\ Len(s) \in Nat /\ Len(t) \in Nat
  OBVIOUS
<1>2. \A i \in 1..Len(u) : u[i] = v[i]
  OBVIOUS
<1> HIDE DEF u, v
<1>3. u = v
  BY <1>1, <1>2, SeqEqual
<1> QED
  BY <1>3 DEF u, v

LEMMA OneFile ==
  ASSUME NEW F, \A f \in F : f.size \in Nat, NEW f \in F,
         NEW cap \in Nat, NEW maxFiles \in Nat \ {0}
  PROVE  /\ <<f>> \in Seq(F) /\ <<f>> = Append(<<>>, f) /\ <<f>>[1] = f /\ <<f>> # <<>>
         /\ Len(<<f>>) = 1 /\ Len(<<f>>) <= maxFiles /\ Bytes(<<f>>) = f.size
         /\ Fits(<<f>>, cap, maxFiles)
<1>1. /\ <<f>> \in Seq(F) /\ <<f>> = Append(<<>>, f) /\ <<f>>[1] = f /\ <<f>> # <<>>
      /\ Len(<<f>>) = 1 /\ Len(<<f>>) <= maxFiles
  OBVIOUS
<1>2. Bytes(<<f>>) = f.size
  BY BytesOne
<1> QED
  BY <1>1, <1>2 DEF Fits

\* A file put on no open batch.
LEMMA PutOnNone ==
  ASSUME NEW F, \A g \in F : g.size \in Nat, NEW f \in F,
         NEW cap \in Nat, NEW maxFiles \in Nat \ {0},
         NEW done, Closed(done, F, cap, maxFiles),
         NoRoom(done, f, cap, maxFiles)
  PROVE  Packed(Put(done, <<>>, f, cap), Append(FlattenSeq(done), f), F, cap, maxFiles)
<1> DEFINE one == <<f>>
<1>1. /\ one \in Seq(F) /\ one = Append(<<>>, f) /\ one[1] = f /\ one # <<>>
      /\ Len(one) = 1 /\ Len(one) <= maxFiles /\ Bytes(one) = f.size
      /\ Fits(one, cap, maxFiles)
  BY OneFile
<1>2. FlattenSeq(done) \in Seq(F)
  BY FlattenAppend, <1>1 DEF Closed
<1>3. FlattenSeq(done) \o one = Append(FlattenSeq(done), f)
  BY <1>2
<1>4. f.size \in Nat
  OBVIOUS
<1>5. <<>> \in Seq(F) /\ Len(<<>>) = 0
  OBVIOUS
<1> HIDE DEF one
<1>6. CASE f.size > cap
  <2> DEFINE new == Append(done, one)
  <2>0. NoRoom(done, one[1], cap, maxFiles)
    BY <1>1
  <2>1. Closed(new, F, cap, maxFiles) /\ Extended(new, done, one)
    BY <1>1, <2>0, Closes
  <2>2. Put(done, <<>>, f, cap) = [done |-> new, cur |-> <<>>]
    BY <1>1, <1>6 DEF Put
  <2> HIDE DEF new
  <2>3. FlattenSeq(new) \o <<>> = Append(FlattenSeq(done), f)
    BY <1>2, <1>3, <2>1 DEF Extended
  <2>4. Bytes(new[Len(new)]) > cap
    BY <1>1, <1>6, <2>1 DEF Extended
  <2>5. Bytes(<<>>) <= cap /\ Len(<<>>) <= maxFiles
    BY <1>5, BytesEmpty
  <2>6. Packed([done |-> new, cur |-> <<>>], Append(FlattenSeq(done), f), F, cap, maxFiles)
    BY <1>5, <2>1, <2>3, <2>4, <2>5, HeldNow
  <2> QED
    BY <2>2, <2>6
<1>7. CASE ~ (f.size > cap)
  <2>1. Put(done, <<>>, f, cap) = [done |-> done, cur |-> one]
    BY <1>1, <1>7 DEF Put
  <2>2. Bytes(one) <= cap
    BY <1>1, <1>4, <1>7
  <2>3. NoRoom(done, one[1], cap, maxFiles)
    BY <1>1
  <2>4. Packed([done |-> done, cur |-> one], Append(FlattenSeq(done), f), F, cap, maxFiles)
    BY <1>1, <1>3, <2>2, <2>3, HeldNow
  <2> QED
    BY <2>1, <2>4
<1> QED
  BY <1>6, <1>7

\* One round of the loop.
LEMMA TakeHeld ==
  ASSUME NEW F, \A g \in F : g.size \in Nat, NEW f \in F,
         NEW cap \in Nat, NEW maxFiles \in Nat \ {0},
         NEW acc, NEW read, Packed(acc, read, F, cap, maxFiles)
  PROVE  Packed(Take(acc, f, cap, maxFiles), Append(read, f), F, cap, maxFiles)
<1> DEFINE done == acc.done
           cur == acc.cur
<1>1. /\ Closed(done, F, cap, maxFiles) /\ cur \in Seq(F) /\ Bytes(cur) <= cap
      /\ Len(cur) <= maxFiles /\ FlattenSeq(done) \o cur = read
      /\ IF cur = <<>> THEN done # <<>> => Bytes(done[Len(done)]) > cap
                       ELSE NoRoom(done, cur[1], cap, maxFiles)
  BY DEF Packed
<1>2. f.size \in Nat /\ Bytes(cur) \in Nat /\ Len(cur) \in Nat
  BY <1>1, BytesAppend
<1>3. done \in Seq(Seq(F)) /\ FlattenSeq(done) \in Seq(F) /\ Len(done) \in Nat
  BY <1>1, FlattenAppend DEF Closed
<1>4. done # <<>> => Bytes(done[Len(done)]) \in Nat
  BY <1>3, BytesAppend
<1>5. Take(acc, f, cap, maxFiles) =
        IF Full(cur, f, cap, maxFiles) THEN Put(Append(done, cur), <<>>, f, cap)
                                       ELSE Put(done, cur, f, cap)
  BY DEF Take
<1> HIDE DEF done, cur
<1>6. CASE Full(cur, f, cap, maxFiles)
  <2> DEFINE new == Append(done, cur)
  <2>1. cur # <<>> /\ Fits(cur, cap, maxFiles) /\ Tight(cur, f, cap, maxFiles)
    BY <1>1, <1>2, <1>6 DEF Full, Fits, Tight
  <2>2. Closed(new, F, cap, maxFiles) /\ Extended(new, done, cur)
    BY <1>1, <2>1, Closes
  <2> HIDE DEF new
  <2>4. NoRoom(new, f, cap, maxFiles) /\ FlattenSeq(new) = read
    BY <1>1, <2>1, <2>2 DEF NoRoom, Extended
  <2>3. Packed(Put(new, <<>>, f, cap), Append(FlattenSeq(new), f), F, cap, maxFiles)
    BY <2>2, <2>4, PutOnNone
  <2> QED
    BY <1>5, <1>6, <2>3, <2>4 DEF new
<1>7. CASE ~ Full(cur, f, cap, maxFiles) /\ cur = <<>>
  <2>1. NoRoom(done, f, cap, maxFiles)
    BY <1>1, <1>2, <1>4, <1>7 DEF NoRoom, Tight
  <2>2. FlattenSeq(done) = read
    BY <1>1, <1>3, <1>7
  <2>3. Packed(Put(done, <<>>, f, cap), Append(FlattenSeq(done), f), F, cap, maxFiles)
    BY <1>1, <2>1, PutOnNone
  <2> QED
    BY <1>5, <1>7, <2>2, <2>3
<1>8. CASE ~ Full(cur, f, cap, maxFiles) /\ cur # <<>>
  <2> DEFINE more == Append(cur, f)
  <2>1. Bytes(cur) + f.size <= cap /\ Len(cur) < maxFiles
    BY <1>2, <1>8 DEF Full
  <2>2. ~ (f.size > cap)
    BY <1>2, <2>1
  <2>3. Put(done, cur, f, cap) = [done |-> done, cur |-> more]
    BY <2>2 DEF Put
  <2>4. Bytes(more) = Bytes(cur) + f.size
    BY <1>1, BytesAppend
  <2>5. /\ more \in Seq(F) /\ more # <<>> /\ more[1] = cur[1] /\ Len(more) = Len(cur) + 1
        /\ FlattenSeq(done) \o more = Append(FlattenSeq(done) \o cur, f)
    <3>1. /\ more \in Seq(F) /\ more # <<>> /\ Len(more) = Len(cur) + 1
      <4>1. cur \in Seq(F) /\ f \in F
        BY <1>1
      <4> QED
        BY <4>1, AppendProperties
    <3>2. Len(cur) # 0
      BY <1>1, <1>8
    <3>3. more[1] = cur[1]
      BY <1>1, <1>2, <3>2
    <3>4. FlattenSeq(done) \o more = Append(FlattenSeq(done) \o cur, f)
      <4> DEFINE moved == FlattenSeq(done)
      <4>1. moved \in Seq(F) /\ cur \in Seq(F) /\ f \in F
        BY <1>1, <1>3
      <4> HIDE DEF moved
      <4>2. moved \o Append(cur, f) = Append(moved \o cur, f)
        BY <4>1, Joined
      <4> QED
        BY <4>2 DEF moved
    <3> HIDE DEF more
    <3> QED
      BY <3>1, <3>3, <3>4
  <2> HIDE DEF more
  <2>6. Packed([done |-> done, cur |-> more], Append(read, f), F, cap, maxFiles)
    <3>1. Bytes(more) <= cap /\ Len(more) <= maxFiles
      BY <1>2, <2>1, <2>4, <2>5
    <3>2. NoRoom(done, more[1], cap, maxFiles)
      BY <1>1, <1>8, <2>5
    <3>3. FlattenSeq(done) \o more = Append(read, f)
      BY <1>1, <2>5
    <3> QED
      BY <1>1, <2>5, <3>1, <3>2, <3>3, HeldNow
  <2> QED
    BY <1>5, <1>8, <2>3, <2>6
<1> QED
  BY <1>6, <1>7, <1>8

LEMMA LoopHeld ==
  ASSUME NEW F, \A g \in F : g.size \in Nat, NEW fs \in Seq(F),
         NEW cap \in Nat, NEW maxFiles \in Nat \ {0}
  PROVE  Packed(Reading(fs, cap, maxFiles)[1..Len(fs)], fs, F, cap, maxFiles)
<1> DEFINE n == Len(fs)
           T == {k \in Nat : k <= n =>
                   Packed(Reading(fs, cap, maxFiles)[1..k], SubSeq(fs, 1, k), F, cap, maxFiles)}
<1>1. n \in Nat /\ DOMAIN fs = 1..n /\ \A k \in 1..n : fs[k] \in F
  OBVIOUS
<1>2. 0 \in T
  <2>1. Closed(<<>>, F, cap, maxFiles)
    <3>1. <<>> \in Seq(Seq(F)) /\ 1..Len(<<>>) = {}
      OBVIOUS
    <3> QED
      BY <3>1 DEF Closed
  <2>2. FlattenSeq(<<>>) \o <<>> = SubSeq(fs, 1, 0)
    <3>1. FlattenSeq(<<>>) = <<>>
      BY FlatUnfolds
    <3>2. SubSeq(fs, 1, 0) = <<>> /\ <<>> \o <<>> = <<>>
      OBVIOUS
    <3> QED
      BY <3>1, <3>2
  <2>3. <<>> \in Seq(F) /\ Bytes(<<>>) <= cap /\ Len(<<>>) <= maxFiles
    BY BytesEmpty
  <2>4. Packed(Start, SubSeq(fs, 1, 0), F, cap, maxFiles)
    BY <2>1, <2>2, <2>3, HeldNow DEF Start
  <2>5. Reading(fs, cap, maxFiles)[1..0] = Start
    BY <1>1, LoopRuns
  <2> HIDE DEF n
  <2> QED
    BY <2>4, <2>5
<1>3. ASSUME NEW k \in T PROVE k + 1 \in T
  <2> SUFFICES ASSUME k + 1 <= n
               PROVE  Packed(Reading(fs, cap, maxFiles)[1..(k + 1)], SubSeq(fs, 1, k + 1), F, cap, maxFiles)
    BY <1>3
  <2> DEFINE acc == Reading(fs, cap, maxFiles)[1..k]
             f == fs[k + 1]
  <2>1. k \in Nat /\ k + 1 \in 1..n /\ (k + 1) - 1 = k
    BY <1>1, <1>3
  <2>2. Packed(acc, SubSeq(fs, 1, k), F, cap, maxFiles) /\ f \in F
    BY <1>1, <1>3, <2>1
  <2>3. Reading(fs, cap, maxFiles)[1..(k + 1)] = Take(acc, f, cap, maxFiles)
    <3>1. \A m \in 1..n : Reading(fs, cap, maxFiles)[1..m] =
                            Take(Reading(fs, cap, maxFiles)[1..(m - 1)], fs[m], cap, maxFiles)
      BY <1>1, LoopRuns
    <3>2. Reading(fs, cap, maxFiles)[1..(k + 1)] =
            Take(Reading(fs, cap, maxFiles)[1..((k + 1) - 1)], fs[k + 1], cap, maxFiles)
      BY <2>1, <3>1
    <3> QED
      BY <2>1, <3>2
  <2>4. SubSeq(fs, 1, k + 1) = Append(SubSeq(fs, 1, k), f)
    <3> DEFINE u == SubSeq(fs, 1, k + 1)
               v == Append(SubSeq(fs, 1, k), f)
    <3>1. /\ u \in Seq(F) /\ Len(u) = k + 1
          /\ v \in Seq(F) /\ Len(v) = k + 1
      BY <1>1, <2>1, <2>2
    <3>2. \A i \in 1..(k + 1) : u[i] = v[i]
      BY <1>1, <2>1
    <3> HIDE DEF u, v
    <3>3. u = v
      BY <3>1, <3>2, SeqEqual
    <3> QED
      BY <3>3 DEF u, v
  <2> HIDE DEF acc, f, n
  <2>5. Packed(Take(acc, f, cap, maxFiles), Append(SubSeq(fs, 1, k), f), F, cap, maxFiles)
    BY <2>2, TakeHeld
  <2> QED
    BY <2>3, <2>4, <2>5
<1>4. T = Nat
  <2> HIDE DEF T
  <2> QED
    BY <1>2, <1>3, NatSteps DEF T
<1>5. Packed(Reading(fs, cap, maxFiles)[1..n], SubSeq(fs, 1, n), F, cap, maxFiles)
  <2>1. n \in T
    BY <1>1, <1>4
  <2> QED
    BY <1>1, <2>1
<1>6. SubSeq(fs, 1, n) = fs
  OBVIOUS
<1> QED
  BY <1>5, <1>6

\* The last batch is closed by the end of the list.
LEMMA PlanClosed ==
  ASSUME NEW F, \A g \in F : g.size \in Nat, NEW fs \in Seq(F),
         NEW cap \in Nat, NEW maxFiles \in Nat \ {0}
  PROVE  /\ Closed(MakeBatches(fs, cap, maxFiles), F, cap, maxFiles)
         /\ FlattenSeq(MakeBatches(fs, cap, maxFiles)) = fs
<1> DEFINE end == Reading(fs, cap, maxFiles)[1..Len(fs)]
           done == end.done
           cur == end.cur
<1>1. MakeBatches(fs, cap, maxFiles) = IF cur = <<>> THEN done ELSE Append(done, cur)
  <2>1. DOMAIN fs = 1..Len(fs)
    OBVIOUS
  <2> QED
    BY <2>1, LoopUnfolds
<1>2. Packed(end, fs, F, cap, maxFiles)
  BY LoopHeld
<1>3. /\ Closed(done, F, cap, maxFiles) /\ cur \in Seq(F) /\ Bytes(cur) <= cap
      /\ Len(cur) <= maxFiles /\ FlattenSeq(done) \o cur = fs
      /\ IF cur = <<>> THEN done # <<>> => Bytes(done[Len(done)]) > cap
                       ELSE NoRoom(done, cur[1], cap, maxFiles)
  BY <1>2 DEF Packed
<1> HIDE DEF end, done, cur
<1>4. CASE cur = <<>>
  <2>1. <<>> \in Seq(F)
    OBVIOUS
  <2>2. FlattenSeq(done) \in Seq(F)
    BY <1>3, <2>1, FlattenAppend DEF Closed
  <2> QED
    BY <1>1, <1>3, <1>4, <2>2
<1>5. CASE cur # <<>>
  <2>1. Fits(cur, cap, maxFiles)
    BY <1>3, <1>5 DEF Fits
  <2>2. Closed(Append(done, cur), F, cap, maxFiles) /\ Extended(Append(done, cur), done, cur)
    BY <1>3, <1>5, <2>1, Closes
  <2> QED
    BY <1>1, <1>3, <1>5, <2>2 DEF Extended
<1> QED
  BY <1>4, <1>5

\* make_batches keeps its promise for every list, cap and length of a batch:
\* the files in their order, in batches none of which is empty, too large or
\* too long, one file above the cap aside, and none of which could take the
\* next.
THEOREM EveryListPlanned ==
  ASSUME NEW F, \A g \in F : g.size \in Nat, NEW fs \in Seq(F),
         NEW cap \in Nat, NEW maxFiles \in Nat \ {0}
  PROVE  Planned(fs, cap, maxFiles)
<1> DEFINE plan == MakeBatches(fs, cap, maxFiles)
<1>1. Closed(plan, F, cap, maxFiles) /\ FlattenSeq(plan) = fs
  BY PlanClosed
<1> HIDE DEF plan
<1>2. plan \in Seq(Seq(F)) /\ DOMAIN plan = 1..Len(plan)
  BY <1>1 DEF Closed
<1> QED
  BY <1>1, <1>2 DEF Planned, Closed, Fits, Tight, plan

\* No batch of a feasible list is over the cap: the files of one batch, which
\* is all that a worker selects at a time, fit in what it was granted.
THEOREM FeasibleBatchesFit ==
  ASSUME NEW F, \A g \in F : g.size \in Nat, NEW fs \in Seq(F),
         NEW cap \in Nat, NEW maxFiles \in Nat \ {0}, Feasible(fs, cap)
  PROVE  \A i \in DOMAIN MakeBatches(fs, cap, maxFiles) :
           Bytes(MakeBatches(fs, cap, maxFiles)[i]) <= cap
<1> DEFINE plan == MakeBatches(fs, cap, maxFiles)
           G == {g \in F : g.size <= cap}
<1>1. fs \in Seq(G) /\ \A g \in G : g.size \in Nat
  BY DEF Feasible
<1>2. Closed(plan, G, cap, maxFiles)
  <2> HIDE DEF G
  <2> QED
    BY <1>1, PlanClosed
<1> HIDE DEF plan
<1>3. ASSUME NEW i \in DOMAIN plan PROVE Bytes(plan[i]) <= cap
  <2>1. plan[i] \in Seq(G) /\ Fits(plan[i], cap, maxFiles)
    <3> HIDE DEF G
    <3>1. plan \in Seq(Seq(G)) /\ \A j \in 1..Len(plan) : Fits(plan[j], cap, maxFiles)
      BY <1>2 DEF Closed
    <3>2. i \in 1..Len(plan)
      BY <1>3, <3>1
    <3> QED
      BY <3>1, <3>2
  <2>2. CASE Bytes(plan[i]) <= cap
    BY <2>2
  <2>3. CASE Len(plan[i]) = 1
    <3> DEFINE g == plan[i][1]
    <3>1. g \in G /\ g \in F
      <4>1. 1 \in 1..Len(plan[i])
        BY <2>3
      <4>2. \A b \in Seq(G) : \A j \in 1..Len(b) : b[j] \in G
        <5> HIDE DEF G
        <5> QED
          OBVIOUS
      <4> QED
        BY <2>1, <4>1, <4>2
    <3>2. plan[i] = <<g>>
      BY <2>1, <2>3
    <3>3. Bytes(<<g>>) = g.size
      <4> HIDE DEF g
      <4> QED
        BY <3>1, BytesOne
    <3>4. g.size <= cap
      BY <3>1
    <3> HIDE DEF g
    <3> QED
      BY <3>2, <3>3, <3>4
  <2> QED
    BY <2>1, <2>2, <2>3 DEF Fits
<1> QED
  BY <1>3 DEF plan

-----------------------------------------------------------------------------
(* The batches of a torrent.                                                *)

\* The files of a list are no more than what is listed, a file listed twice
\* counting twice.
LEMMA SetWithinList ==
  ASSUME NEW F,
         \A f \in F : f.size \in Nat /\ f.file \in AllFiles /\ Size[f.file] = f.size,
         NEW fs \in Seq(F)
  PROVE  FilesOf(fs) \subseteq AllFiles /\ BytesOf(FilesOf(fs)) <= Bytes(fs)
<1> DEFINE n == Len(fs)
           P(k) == {fs[i].file : i \in 1..k}
           T == {k \in Nat : k <= n => /\ BytesTo(fs)[1..k] \in Nat
                                       /\ SumOver(Size, P(k)) <= BytesTo(fs)[1..k]}
<1>1. /\ n \in Nat /\ DOMAIN fs = 1..n
      /\ \A k \in 1..n : /\ fs[k] \in F /\ fs[k].size \in Nat /\ fs[k].file \in AllFiles
                         /\ Size[fs[k].file] = fs[k].size
  OBVIOUS
<1>2. /\ BytesTo(fs)[1..0] = 0 /\ Bytes(fs) = BytesTo(fs)[1..n]
      /\ \A k \in 1..n : BytesTo(fs)[1..k] = BytesTo(fs)[1..(k - 1)] + fs[k].size
  BY <1>1, BytesAt
<1> HIDE DEF n
<1>3. \A A \in SUBSET AllFiles : /\ IsFiniteSet(A) /\ \A x \in A : Size[x] \in Nat
                                 /\ SumOver(Size, A) \in Nat
  <2>1. \A A \in SUBSET AllFiles : IsFiniteSet(A) /\ \A x \in A : Size[x] \in Nat
    BY SizeAssumption, FS_Subset
  <2> QED
    BY <2>1, SumType
<1>4. 0 \in T
  <2>1. P(0) = {}
    OBVIOUS
  <2>2. SumOver(Size, P(0)) = 0
    BY <2>1, SumEmpty
  <2> HIDE DEF P
  <2> QED
    BY <1>2, <2>2
<1>5. ASSUME NEW k \in T PROVE k + 1 \in T
  <2> SUFFICES ASSUME k + 1 <= n
               PROVE  /\ BytesTo(fs)[1..(k + 1)] \in Nat
                      /\ SumOver(Size, P(k + 1)) <= BytesTo(fs)[1..(k + 1)]
    BY <1>5
  <2> DEFINE x == fs[k + 1].file
             A == P(k)
             B == P(k + 1)
             a == BytesTo(fs)[1..k]
             b == BytesTo(fs)[1..(k + 1)]
  <2>1. k \in Nat /\ k + 1 \in 1..n /\ (k + 1) - 1 = k
    BY <1>1, <1>5
  <2>2. a \in Nat /\ SumOver(Size, A) <= a
    BY <1>1, <1>5, <2>1
  <2>3. b = a + Size[x] /\ Size[x] \in Nat
    BY <1>1, <1>2, <2>1
  <2>4. B = A \cup {x}
    <3>1. \A i : i \in 1..(k + 1) <=> i \in 1..k \/ i = k + 1
      BY <2>1
    <3> QED
      BY <3>1
  <2>5. A \in SUBSET AllFiles /\ B \in SUBSET AllFiles /\ x \in B
    <3>1. A \in SUBSET AllFiles /\ x \in AllFiles
      BY <1>1, <2>1
    <3> QED
      BY <2>4, <3>1
  <2>6. SumOver(Size, A) \in Nat /\ SumOver(Size, B) \in Nat
    BY <1>3, <2>5
  <2>7. SumOver(Size, B) <= SumOver(Size, A) + Size[x]
    <3> HIDE DEF A, B, x
    <3>1. CASE x \in A
      <4>1. B = A
        BY <2>4, <3>1
      <4> QED
        BY <2>3, <2>6, <4>1
    <3>2. CASE x \notin A
      <4>1. B \ {x} = A
        BY <2>4, <3>2
      <4>2. SumOver(Size, B) = Size[x] + SumOver(Size, B \ {x})
        <5>1. IsFiniteSet(B) /\ (\A y \in B : Size[y] \in Nat) /\ x \in B
          BY <1>3, <2>5
        <5> QED
          BY <5>1, SumTake
      <4>3. SumOver(Size, B) = Size[x] + SumOver(Size, A)
        BY <4>1, <4>2, Zenon
      <4>4. SumOver(Size, B) \in Nat /\ SumOver(Size, A) \in Nat /\ Size[x] \in Nat
        BY <2>3, <2>6
      <4> QED
        BY <4>3, <4>4
    <3> QED
      BY <3>1, <3>2
  <2> HIDE DEF A, B, x, a, b
  <2>8. b \in Nat /\ SumOver(Size, B) <= b
    BY <2>2, <2>3, <2>6, <2>7
  <2> QED
    BY <2>8 DEF B, b
<1>6. T = Nat
  <2> HIDE DEF T
  <2> QED
    BY <1>4, <1>5, NatSteps DEF T
<1>7. FilesOf(fs) = P(n) /\ FilesOf(fs) \subseteq AllFiles
  BY <1>1 DEF FilesOf
<1> HIDE DEF P
<1>8. SumOver(Size, P(n)) <= BytesTo(fs)[1..n]
  <2>1. n \in T /\ n <= n
    BY <1>1, <1>6
  <2> QED
    BY <2>1
<1>9. BytesOf(P(n)) = SumOver(Size, P(n))
  BY DEF BytesOf, SumOver
<1> QED
  BY <1>2, <1>7, <1>8, <1>9

\* A torrent in the batches make_batches makes of a feasible list selects no
\* more than was granted.
THEOREM PlanMeetsBatchesFit ==
  ASSUME TypeOK, NEW F,
         \A f \in F : f.size \in Nat /\ f.file \in AllFiles /\ Size[f.file] = f.size,
         NEW fs \in Seq(F), Feasible(fs, Cap), NEW maxFiles \in Nat \ {0},
         Batches = Len(MakeBatches(fs, Cap, maxFiles)),
         \A f \in Files : BatchOf[f] # Batches =>
           f \in FilesOf(MakeBatches(fs, Cap, maxFiles)[BatchOf[f] + 1]),
         Batches = 1 => Files \subseteq Batch(0)
  PROVE  BatchesFit
<1> DEFINE plan == MakeBatches(fs, Cap, maxFiles)
<1>1. /\ Cap \in Nat /\ IsFiniteSet(AllFiles) /\ Size \in [AllFiles -> Nat]
      /\ \A f \in F : f.size \in Nat
  BY SizeAssumption
<1>2. Closed(plan, F, Cap, maxFiles) /\ plan \in Seq(Seq(F)) /\ DOMAIN plan = 1..Len(plan)
  <2>1. Closed(plan, F, Cap, maxFiles)
    BY <1>1, PlanClosed
  <2> HIDE DEF plan
  <2> QED
    BY <2>1 DEF Closed
<1>3. \A i \in DOMAIN plan : Bytes(plan[i]) <= Cap
  BY <1>1, FeasibleBatchesFit
<1> HIDE DEF plan
<1>4. ASSUME NEW i \in 0..(Batches - 1) PROVE BytesOf(Batch(i)) <= Cap
  <2> DEFINE b == plan[i + 1]
             A == Batch(i)
             B == FilesOf(b)
  <2>1. i + 1 \in DOMAIN plan /\ b \in Seq(F) /\ i # Batches
    BY <1>2, <1>4 DEF plan
  <2>2. A \subseteq B
    BY <2>1 DEF Batch, plan
  <2>3. Bytes(b) <= Cap
    BY <1>3, <2>1
  <2> HIDE DEF b
  <2>4. B \subseteq AllFiles /\ BytesOf(B) <= Bytes(b)
    BY <2>1, SetWithinList
  <2>5. Bytes(b) \in Nat
    <3>1. CASE b = <<>>
      BY <3>1, BytesEmpty
    <3>2. CASE b # <<>>
      <4>1. b[1] \in F
        BY <2>1, <3>2
      <4> QED
        BY <1>1, <2>1, <4>1, BytesAppend
    <3> QED
      BY <3>1, <3>2
  <2> HIDE DEF A, B
  <2>6. /\ IsFiniteSet(B) /\ IsFiniteSet(A) /\ A \in SUBSET B
        /\ \A x \in B : Size[x] \in Nat
        /\ \A x \in A : Size[x] \in Nat
    BY <1>1, <2>2, <2>4, FS_Subset
  <2>7. SumOver(Size, A) <= SumOver(Size, B) /\ SumOver(Size, A) \in Nat /\ SumOver(Size, B) \in Nat
    BY <2>6, SumSubset, SumType
  <2>8. BytesOf(A) = SumOver(Size, A) /\ BytesOf(B) = SumOver(Size, B)
    BY DEF BytesOf, SumOver
  <2>9. BytesOf(A) <= Cap
    BY <1>1, <2>3, <2>4, <2>5, <2>7, <2>8
  <2> QED
    BY <2>9 DEF A
<1> QED
  BY <1>4 DEF BatchesFit

=============================================================================
