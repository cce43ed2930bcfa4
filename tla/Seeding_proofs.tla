--------------------------- MODULE Seeding_proofs ---------------------------
(***************************************************************************)
(* No entry is added blindly and no last copy is deleted, for any releases  *)
(* and any limit of cycles.                                                 *)
(*                                                                          *)
(* The worker asks the mount once, at the gate, and adds entries long       *)
(* after, when the mount may show nothing any more; the janitor passes its  *)
(* verdict long before it deletes.  Neither property follows from the       *)
(* guard of the step that could break it.  What is kept is that an answer   *)
(* stays true although it is old: what the mount showed was on the remote   *)
(* (ShownTrue) and the remote loses nothing, so that the torrent of a       *)
(* worker past the gate has its files there still (Passed), and what a      *)
(* verdict to delete was made of is on the SSD or, if it moved meanwhile,   *)
(* on the remote (Safe).                                                    *)
(*                                                                          *)
(* For the types, the count of cycles must stay in its range: a DONE row    *)
(* may be demoted once more (Spare), for the row and for what its worker    *)
(* and the poller still hold of it (WorkerHolds, PollerHolds).              *)
(***************************************************************************)
EXTENDS Seeding, TLAPS

\* What the mount shows is on the remote.
ShownTrue == shown => remote

\* A row that is DONE may be demoted once more.
Spare(r) == r.state = "DONE" => r.cycles < MaxCycles

\* The worker holds a copy of a re-adding row that does not flap, the poller one
\* of a row that was DONE.
WorkerHolds == at.worker # "idle" => W.state = "RE_ADDING" /\ W.cycles < MaxCycles
PollerHolds == at.poller # "idle" => P.state = "DONE" /\ P.cycles < MaxCycles

\* Past the gate: the mount had the files of the worker's torrent, and the remote
\* has them still, whatever the mount shows now.
Passed == at.worker \in {"inject", "cross"} => W.blob \in Hash \ setup.extra /\ remote

\* A verdict to delete: VPS2 had the content, and has it still, wherever it moved.
Safe == at.janitor = "delete" => remote \/ ssd

\* The inductive invariant.
IInv == TypeOK /\ ShownTrue /\ Spare(row) /\ WorkerHolds /\ PollerHolds /\ Passed /\ Safe

\* What the two action properties ask of a step.
NotBlind ==
  \A h \in Hash : (here[h] # "fuse" /\ here'[h] = "fuse") => (remote /\ h \notin setup.extra)
CopyKept == (origin /\ ~origin') => (remote \/ ssd)

\* What every step is shown to do.
Good == IInv' /\ NotBlind /\ CopyKept

\* The types of TypeOK, by name.
Steps == [worker |-> {"idle", "gate", "inject", "cross"},
          poller |-> {"idle", "verify", "source", "original", "new"},
          janitor |-> {"idle", "verdict", "delete"}]
At == [worker : {"idle", "gate", "inject", "cross"},
       poller : {"idle", "verify", "source", "original", "new"},
       janitor : {"idle", "verdict", "delete"}]
Places == [Hash -> {"none", "ssd", "fuse"}]

-----------------------------------------------------------------------------
(* Rows and copies.                                                         *)

LEMMA Names ==
  /\ Actor = {"worker", "poller", "janitor"} /\ Hash = {"s", "c", "p"} /\ OnVps1 \subseteq Hash
  /\ \A y \in Actor : "idle" \in Steps[y]
BY DEF Actor, Hash, OnVps1, Steps

LEMMA NewRowType == NewRow \in Row /\ NewRow.state = "RE_ADDING"
<1>1. 0 \in 0..MaxCycles
  BY BoundAssumption
<1> QED BY <1>1 DEF NewRow, Row

LEMMA SetupType ==
  ASSUME TypeOK PROVE Cross \in Hash /\ Cross \notin setup.extra
BY SetupsAssumption DEF TypeOK, Setup, Cross, Hash

LEMMA RecordedType ==
  ASSUME TypeOK, NEW r \in Row PROVE Recorded(r) \subseteq Hash
BY SetupType DEF Recorded, Row

LEMMA CopiedType ==
  ASSUME TypeOK, NEW x \in Actor, NEW r \in Row, NEW where \in Steps[x], Copied(x, r, where)
  PROVE  /\ at' \in At /\ at'[x] = where /\ \A y \in Actor \ {x} : at'[y] = at[y]
         /\ mem' \in [Actor -> Row] /\ \A y \in Actor \ {x} : mem'[y] = mem[y]
         /\ where # "idle" => mem'[x] = r
BY NewRowType DEF TypeOK, Copied, Steps, At, Actor

LEMMA GoesType ==
  ASSUME TypeOK, NEW x \in Actor, NEW where \in Steps[x], Goes(x, where)
  PROVE  /\ at' \in At /\ at'[x] = where /\ \A y \in Actor \ {x} : at'[y] = at[y]
         /\ mem' \in [Actor -> Row] /\ \A y \in Actor \ {x} : mem'[y] = mem[y]
         /\ where # "idle" => mem'[x] = mem[x]
         /\ fresh' \in [Actor -> BOOLEAN] /\ row' = row
<1>1. mem[x] \in Row /\ Copied(x, mem[x], where)
  BY DEF TypeOK, Goes
<1>2. fresh' \in [Actor -> BOOLEAN] /\ row' = row
  BY DEF TypeOK, Goes
<1> QED BY <1>1, <1>2, CopiedType

LEMMA UpsertType ==
  ASSUME TypeOK, NEW x \in Actor, NEW r \in Row, NEW where \in Steps[x], Upsert(x, r, where)
  PROVE  /\ at' \in At /\ at'[x] = where /\ \A y \in Actor \ {x} : at'[y] = at[y]
         /\ mem' \in [Actor -> Row] /\ \A y \in Actor \ {x} : mem'[y] = mem[y]
         /\ where # "idle" => mem'[x] = r
         /\ fresh' \in [Actor -> BOOLEAN] /\ row' = r
BY CopiedType DEF Upsert

LEMMA EnteringType ==
  ASSUME NEW r \in Row, NEW dst \in {"MOVING", "RE_ADDING", "DONE", "FAILED"}
  PROVE  Entering(r, dst) \in Row /\ Entering(r, dst).state = dst /\ Entering(r, dst).cycles = r.cycles
BY DEF Entering, Row

\* The end of a run: the row is written if the copy is the last word.
LEMMA TransitionType ==
  ASSUME TypeOK, NEW x \in Actor, NEW r \in Row, NEW dst \in {"MOVING", "RE_ADDING", "DONE", "FAILED"},
         Transition(x, r, dst)
  PROVE  /\ at' \in At /\ at'[x] = "idle" /\ \A y \in Actor \ {x} : at'[y] = at[y]
         /\ mem' \in [Actor -> Row] /\ \A y \in Actor \ {x} : mem'[y] = mem[y]
         /\ fresh' \in [Actor -> BOOLEAN]
         /\ row' = row \/ (row' \in Row /\ row'.state = dst /\ row'.cycles = r.cycles)
<1>1. "idle" \in Steps[x]
  BY Names
<1>2. CASE fresh[x]
  BY <1>1, <1>2, EnteringType, UpsertType DEF Transition
<1>3. CASE ~ fresh[x]
  BY <1>1, <1>3, GoesType DEF Transition
<1> QED BY <1>2, <1>3

LEMMA DemotedType ==
  ASSUME NEW r \in Row, r.cycles < MaxCycles, NEW dst \in {"MOVING", "RE_ADDING"},
         NEW d \in Demoted(r, dst)
  PROVE  d \in Row /\ d.state = dst
<1>1. Entering(r, dst) \in Row /\ Entering(r, dst).state = dst
  BY EnteringType
<1>2. PICK n \in {0, r.cycles + 1} : d = [Entering(r, dst) EXCEPT !.cycles = n]
  BY DEF Demoted
<1>3. n \in 0..MaxCycles
  BY BoundAssumption DEF Row
<1> QED BY <1>1, <1>2, <1>3 DEF Row

LEMMA EnteredType ==
  ASSUME TypeOK, NEW h \in Hash, NEW e \in Ensured(h), Entered(h, e[1])
  PROVE  /\ here' \in Places /\ UNCHANGED <<ssd, remote, shown>>
         /\ \A g \in Hash \ {h} : here'[g] = here[g]
         /\ e[2] \in {"ok", "later", "no"}
<1>1. e[1] \in {"none", "ssd", "fuse"} /\ e[2] \in {"ok", "later", "no"}
  BY DEF Ensured, TypeOK
<1> QED BY <1>1 DEF Entered, TypeOK, Places

-----------------------------------------------------------------------------
(* What the steps of an actor come to.                                      *)

\* Step x changes its own copy and place, and writes a row that is one.
Own(x) ==
  /\ at' \in At /\ mem' \in [Actor -> Row] /\ fresh' \in [Actor -> BOOLEAN]
  /\ \A y \in Actor \ {x} : at'[y] = at[y] /\ mem'[y] = mem[y]
  /\ row' \in Row /\ Spare(row')

\* What the worker may do: everything else is as it was.
WorkerDoes ==
  /\ Own("worker") /\ here' \in Places /\ NotBlind /\ todo' \subseteq OnVps1
  /\ at'.worker # "idle" => mem'["worker"].state = "RE_ADDING" /\ mem'["worker"].cycles < MaxCycles
  /\ at'.worker \in {"inject", "cross"} => mem'["worker"].blob \in Hash \ setup.extra /\ remote
  /\ UNCHANGED <<setup, group, quiet, doomed, ssd, remote, shown, listed, origin, deferred, memo, events>>

LEMMA WorkerKeeps == ASSUME IInv, WorkerDoes PROVE Good
<1>1. /\ at'.poller = at.poller /\ at'.janitor = at.janitor /\ mem'["poller"] = mem["poller"]
      /\ at' \in At /\ mem' \in [Actor -> Row] /\ fresh' \in [Actor -> BOOLEAN]
  BY DEF WorkerDoes, Own, Actor
<1>2. TypeOK'
  BY <1>1 DEF IInv, TypeOK, WorkerDoes, Own, At, Places
<1>3. ShownTrue' /\ Spare(row)' /\ WorkerHolds' /\ PollerHolds' /\ Passed' /\ Safe'
  BY <1>1 DEF IInv, WorkerDoes, Own, ShownTrue, Spare, WorkerHolds, PollerHolds, Passed, Safe, W, P
<1>4. CopyKept
  BY DEF WorkerDoes, CopyKept
<1> QED BY <1>2, <1>3, <1>4 DEF Good, IInv, WorkerDoes

LEMMA SameEntries == ASSUME TypeOK, UNCHANGED here PROVE here' \in Places /\ NotBlind
BY DEF TypeOK, Places, NotBlind

\* An entry that is added where the remote has the files is not added blindly.
LEMMA EntersWell ==
  ASSUME TypeOK, NEW h \in Hash \ setup.extra, remote, NEW e \in Ensured(h), Entered(h, e[1])
  PROVE  here' \in Places /\ NotBlind /\ UNCHANGED <<ssd, remote, shown>> /\ e[2] \in {"ok", "later", "no"}
BY EnteredType DEF NotBlind

LEMMA GateWell ==
  ASSUME IInv, NEW h, Gate(h) PROVE h \in Hash \ setup.extra /\ remote
BY DEF IInv, ShownTrue, Gate

\* The worker's run ends with its row parked ...
LEMMA Parks ==
  ASSUME TypeOK, NEW r \in Row, r.state # "DONE", Park(r)
  PROVE  Own("worker") /\ at'.worker = "idle"
<1> DEFINE q == [r EXCEPT !.timer = "set"]
<1>1. q \in Row /\ q.state = r.state
  BY DEF Row
<1>2. "worker" \in Actor /\ "idle" \in Steps["worker"]
  BY Names
<1>3. Upsert("worker", q, "idle")
  BY DEF Park
<1> HIDE DEF q
<1> QED BY <1>1, <1>2, <1>3, UpsertType DEF Own, Spare

\* ... or finished or failed.
LEMMA Ends ==
  ASSUME TypeOK, Spare(row), NEW r \in Row, r.cycles < MaxCycles, NEW dst \in {"DONE", "FAILED"},
         Transition("worker", r, dst)
  PROVE  Own("worker") /\ at'.worker = "idle"
<1>1. "worker" \in Actor
  BY Names
<1> QED BY <1>1, TransitionType DEF Own, Spare, TypeOK

LEMMA GivesUpEnds ==
  ASSUME IInv, at.worker # "idle", GivesUp PROVE Own("worker") /\ at'.worker = "idle"
<1>1. W \in Row /\ W.cycles < MaxCycles /\ TypeOK /\ Spare(row)
  BY Names DEF IInv, TypeOK, WorkerHolds, W
<1>2. [W EXCEPT !.timer = "none"] \in Row /\ [W EXCEPT !.timer = "none"].cycles = W.cycles
  BY <1>1 DEF Row
<1> QED BY <1>1, <1>2, Ends DEF GivesUp

LEMMA PutOffEnds ==
  ASSUME IInv, at.worker # "idle", PutOff
  PROVE  Own("worker") /\ at'.worker = "idle" /\ todo' = {}
<1>1. W \in Row /\ W.state # "DONE" /\ TypeOK
  BY Names DEF IInv, TypeOK, WorkerHolds, W
<1> QED BY <1>1, GivesUpEnds, Parks DEF PutOff

-----------------------------------------------------------------------------
(* The worker.                                                              *)

LEMMA StepBegin == ASSUME IInv, Begin PROVE Good
<1> DEFINE r == [row EXCEPT !.age = IF @ = "none" THEN "young" ELSE @]
           spent == [r EXCEPT !.state = "FAILED", !.timer = "none"]
<1>1. /\ TypeOK /\ row \in Row /\ row.state = "RE_ADDING" /\ "worker" \in Actor
      /\ {"idle", "gate"} \subseteq Steps["worker"]
  BY Names DEF IInv, TypeOK, Begin, Steps
<1>2. /\ r \in Row /\ r.state = "RE_ADDING" /\ r.cycles = row.cycles
      /\ spent \in Row /\ spent.state = "FAILED"
  BY <1>1 DEF Row
<1>3. /\ here' \in Places /\ NotBlind
      /\ UNCHANGED <<setup, todo, group, quiet, doomed, ssd, remote, shown, listed, origin,
                     deferred, memo, events>>
      /\ todo' \subseteq OnVps1
  BY <1>1, SameEntries DEF Begin, asWorker, vps2, vps1, maps, TypeOK
<1> HIDE DEF spent, r
<1>4. CASE Upsert("worker", spent, "idle")
  <2>1. Own("worker") /\ at'.worker = "idle"
    BY <1>1, <1>2, <1>4, UpsertType DEF Own, Spare
  <2> QED BY <1>3, <2>1, WorkerKeeps DEF WorkerDoes
<1>5. CASE Park(r)
  BY <1>1, <1>2, <1>3, <1>5, Parks, WorkerKeeps DEF WorkerDoes
<1>6. CASE Upsert("worker", r, "gate") /\ ~ Flaps(r)
  <2>1. r.cycles < MaxCycles
    BY <1>2, <1>6, BoundAssumption DEF Flaps, Row
  <2>2. Own("worker") /\ at'.worker = "gate" /\ mem'["worker"] = r
    BY <1>1, <1>2, <1>6, UpsertType DEF Own, Spare
  <2> QED BY <1>2, <1>3, <2>1, <2>2, WorkerKeeps DEF WorkerDoes
<1> QED BY <1>4, <1>5, <1>6 DEF Begin, r, spent

LEMMA StepPasses == ASSUME IInv, Passes PROVE Good
<1>1. /\ TypeOK /\ at.worker = "gate" /\ W \in Row /\ W.state = "RE_ADDING" /\ W.cycles < MaxCycles
      /\ "worker" \in Actor /\ "inject" \in Steps["worker"] /\ Spare(row) /\ row \in Row
      /\ mem["worker"] = W
  BY Names DEF IInv, TypeOK, Passes, Steps, WorkerHolds, W
<1>2. PICK b \in {W.blob} \cup IF W.blob = "none" /\ "s" \in listed THEN {"s"} ELSE {} :
        LET r == [W EXCEPT !.blob = b]
        IN  IF ~Gate(b) THEN Park(r) /\ UNCHANGED todo
            ELSE /\ todo' \in {listed, {}}
                 /\ IF b = W.blob THEN Goes("worker", "inject")
                    ELSE /\ Copied("worker", r, "inject") /\ row' = [row EXCEPT !.blob = b]
                         /\ fresh' = [x \in Actor |-> x = "worker"]
  BY DEF Passes
<1> DEFINE r == [W EXCEPT !.blob = b]
<1>3. b \in Hash \cup {"none"} /\ r \in Row /\ r.state = W.state /\ r.cycles = W.cycles /\ r.blob = b
  BY <1>1, Names DEF Row
<1>4. /\ here' \in Places /\ NotBlind
      /\ UNCHANGED <<setup, group, quiet, doomed, ssd, remote, shown, listed, origin,
                     deferred, memo, events>>
  BY <1>1, SameEntries DEF Passes, asWorker, vps2, vps1, maps
<1> HIDE DEF r
<1>5. CASE ~ Gate(b)
  <2>1. Park(r) /\ todo' \subseteq OnVps1
    BY <1>1, <1>2, <1>5 DEF r, TypeOK
  <2> QED BY <1>1, <1>3, <1>4, <2>1, Parks, WorkerKeeps DEF WorkerDoes
<1>6. CASE Gate(b)
  <2>1. todo' \subseteq OnVps1 /\ b \in Hash \ setup.extra /\ remote
    BY <1>1, <1>2, <1>6, GateWell DEF TypeOK
  <2>2. CASE b = W.blob
    <3>1. Goes("worker", "inject")
      BY <1>2, <1>6, <2>2
    <3>2. Own("worker") /\ mem'["worker"] = W
      BY <1>1, <3>1, GoesType DEF Own
    <3> QED BY <1>1, <1>4, <2>1, <2>2, <3>2, WorkerKeeps DEF WorkerDoes
  <2>3. CASE b # W.blob
    <3>1. /\ Copied("worker", r, "inject") /\ row' = [row EXCEPT !.blob = b]
          /\ fresh' = [x \in Actor |-> x = "worker"]
      BY <1>2, <1>6, <2>3 DEF r
    <3>2. row' \in Row /\ Spare(row') /\ fresh' \in [Actor -> BOOLEAN]
      BY <1>1, <1>3, <3>1 DEF Row, Spare
    <3>3. Own("worker") /\ mem'["worker"] = r
      BY <1>1, <1>3, <3>1, <3>2, CopiedType DEF Own
    <3> QED BY <1>1, <1>3, <1>4, <2>1, <3>3, WorkerKeeps DEF WorkerDoes
  <2> QED BY <2>2, <2>3
<1> QED BY <1>5, <1>6

\* What the worker holds past the gate.
LEMMA PastGate ==
  ASSUME IInv, at.worker \in {"inject", "cross"}
  PROVE  /\ TypeOK /\ Spare(row) /\ row \in Row /\ W \in Row /\ mem["worker"] = W
         /\ W.state = "RE_ADDING" /\ W.cycles < MaxCycles
         /\ W.blob \in Hash \ setup.extra /\ remote
         /\ "worker" \in Actor /\ {"idle", "inject", "cross"} \subseteq Steps["worker"]
BY Names DEF IInv, TypeOK, WorkerHolds, Passed, W, Steps

\* A copy that is unchanged but for what it records as injected.
LEMMA InjectedType ==
  ASSUME NEW r \in Row, NEW hs \in SUBSET Hash
  PROVE  LET q == [r EXCEPT !.injected = hs]
         IN  q \in Row /\ q.state = r.state /\ q.cycles = r.cycles /\ q.blob = r.blob
BY DEF Row

LEMMA StepInject == ASSUME IInv, Inject PROVE Good
<1>1. /\ at.worker = "inject"
      /\ UNCHANGED <<setup, group, quiet, doomed, listed, origin, deferred, memo, events>>
  BY DEF Inject, asWorker, vps1, maps
<1>2. /\ TypeOK /\ Spare(row) /\ row \in Row /\ W \in Row /\ mem["worker"] = W
      /\ W.state = "RE_ADDING" /\ W.cycles < MaxCycles
      /\ W.blob \in Hash \ setup.extra /\ remote
      /\ "worker" \in Actor /\ {"idle", "inject", "cross"} \subseteq Steps["worker"]
  BY <1>1, PastGate
<1>3. PICK h \in todo :
        \/ todo' = todo \ {h} /\ Goes("worker", "inject") /\ UNCHANGED vps2
        \/ /\ Injects(h)
           /\ \E e \in Ensured(h) :
                /\ Entered(h, e[1])
                /\ IF e[2] = "later" THEN PutOff
                   ELSE /\ todo' = todo \ {h} /\ UNCHANGED <<row, fresh>>
                        /\ Copied("worker", [W EXCEPT !.injected =
                                    IF e[2] = "ok" THEN @ \cup {h} ELSE @], "inject")
  BY DEF Inject
<1>4. CASE todo' = todo \ {h} /\ Goes("worker", "inject") /\ UNCHANGED vps2
  <2>1. Own("worker") /\ mem'["worker"] = W /\ at'.worker = "inject" /\ todo' \subseteq OnVps1
    BY <1>2, <1>4, GoesType DEF Own, TypeOK
  <2>2. here' \in Places /\ NotBlind /\ UNCHANGED <<ssd, remote, shown>>
    BY <1>2, <1>4, SameEntries DEF vps2
  <2> QED BY <1>1, <1>2, <2>1, <2>2, WorkerKeeps DEF WorkerDoes
<1>5. ASSUME Injects(h), NEW e \in Ensured(h), Entered(h, e[1]),
             IF e[2] = "later" THEN PutOff
             ELSE /\ todo' = todo \ {h} /\ UNCHANGED <<row, fresh>>
                  /\ Copied("worker", [W EXCEPT !.injected =
                              IF e[2] = "ok" THEN @ \cup {h} ELSE @], "inject")
      PROVE  Good
  <2>1. h \in Hash \ setup.extra
    BY <1>5, GateWell DEF Injects
  <2>2. here' \in Places /\ NotBlind /\ UNCHANGED <<ssd, remote, shown>>
    BY <1>2, <1>5, <2>1, EntersWell
  <2>3. CASE e[2] = "later"
    BY <1>1, <1>5, <2>2, <2>3, PutOffEnds, WorkerKeeps DEF WorkerDoes
  <2>4. CASE e[2] # "later"
    <3> DEFINE hs == IF e[2] = "ok" THEN W.injected \cup {h} ELSE W.injected
               r == [W EXCEPT !.injected = hs]
    <3>1. hs \in SUBSET Hash
      BY <1>2, <2>1 DEF Row
    <3>2. Copied("worker", r, "inject") /\ todo' = todo \ {h} /\ row' = row /\ fresh' = fresh
      BY <1>5, <2>4
    <3> HIDE DEF hs
    <3>3. r \in Row /\ r.state = W.state /\ r.cycles = W.cycles /\ r.blob = W.blob
      BY <1>2, <3>1, InjectedType
    <3> HIDE DEF r
    <3>4. Own("worker") /\ mem'["worker"] = r /\ todo' \subseteq OnVps1
      BY <1>2, <3>2, <3>3, CopiedType DEF Own, TypeOK
    <3> QED BY <1>1, <1>2, <2>2, <3>3, <3>4, WorkerKeeps DEF WorkerDoes
  <2> QED BY <2>3, <2>4
<1> QED BY <1>3, <1>4, <1>5

LEMMA StepSupplement == ASSUME IInv, Supplement PROVE Good
<1>1. /\ at.worker = "inject"
      /\ UNCHANGED <<setup, todo, group, quiet, doomed, listed, origin, deferred, memo, events>>
  BY DEF Supplement, asWorker, vps1, maps
<1>2. /\ TypeOK /\ Spare(row) /\ row \in Row /\ W \in Row /\ mem["worker"] = W
      /\ W.state = "RE_ADDING" /\ W.cycles < MaxCycles
      /\ W.blob \in Hash \ setup.extra /\ remote /\ todo' \subseteq OnVps1
      /\ "worker" \in Actor /\ {"idle", "inject", "cross"} \subseteq Steps["worker"]
  BY <1>1, PastGate DEF TypeOK
<1>3. ASSUME Goes("worker", "cross"), here' \in Places, NotBlind, UNCHANGED <<ssd, remote, shown>>
      PROVE  Good
  <2>1. Own("worker") /\ mem'["worker"] = W /\ at'.worker = "cross"
    BY <1>2, <1>3, GoesType DEF Own
  <2> QED BY <1>1, <1>2, <1>3, <2>1, WorkerKeeps DEF WorkerDoes
<1>4. CASE Goes("worker", "cross") /\ UNCHANGED vps2
  BY <1>2, <1>3, <1>4, SameEntries DEF vps2
<1>5. ASSUME Injects("p"), NEW e \in Ensured("p"), Entered("p", e[1]),
             IF e[2] = "ok" THEN Upsert("worker", [W EXCEPT !.injected = @ \cup {"p"}], "cross")
                            ELSE Goes("worker", "cross")
      PROVE  Good
  <2>1. "p" \in Hash \ setup.extra
    BY <1>5, GateWell DEF Injects
  <2>2. here' \in Places /\ NotBlind /\ UNCHANGED <<ssd, remote, shown>>
    BY <1>2, <1>5, <2>1, EntersWell
  <2>3. CASE e[2] = "ok"
    <3> DEFINE r == [W EXCEPT !.injected = W.injected \cup {"p"}]
    <3>1. r \in Row /\ r.state = W.state /\ r.cycles = W.cycles /\ r.blob = W.blob
      BY <1>2, <2>1, InjectedType DEF Row
    <3>2. Upsert("worker", r, "cross")
      BY <1>5, <2>3
    <3> HIDE DEF r
    <3>3. Own("worker") /\ mem'["worker"] = r
      BY <1>2, <3>1, <3>2, UpsertType DEF Own, Spare
    <3> QED BY <1>1, <1>2, <2>2, <3>1, <3>3, WorkerKeeps DEF WorkerDoes
  <2> QED BY <1>3, <1>5, <2>2, <2>3
<1> QED BY <1>4, <1>5 DEF Supplement

LEMMA StepAddCross == ASSUME IInv, AddCross PROVE Good
<1>1. /\ at.worker = "cross"
      /\ UNCHANGED <<setup, group, quiet, doomed, listed, origin, deferred, memo, events>>
  BY DEF AddCross, asWorker, vps1, maps
<1>2. /\ TypeOK /\ Spare(row) /\ row \in Row /\ W \in Row
      /\ W.state = "RE_ADDING" /\ W.cycles < MaxCycles
      /\ W.blob \in Hash \ setup.extra /\ remote
  BY <1>1, PastGate
<1>3. Finish => Own("worker") /\ at'.worker = "idle"
  <2>1. /\ [W EXCEPT !.timer = "none", !.onSsd = FALSE] \in Row
        /\ [W EXCEPT !.timer = "none", !.onSsd = FALSE].cycles = W.cycles
    BY <1>2 DEF Row
  <2> QED BY <1>2, <2>1, Ends DEF Finish
<1>4. (GivesUp => Own("worker") /\ at'.worker = "idle")
      /\ (PutOff => Own("worker") /\ at'.worker = "idle" /\ todo' = {})
  BY <1>1, GivesUpEnds, PutOffEnds
<1>5. ASSUME Own("worker"), at'.worker = "idle", here' \in Places, NotBlind,
             UNCHANGED <<ssd, remote, shown>>, todo' = todo \/ todo' = {}
      PROVE  Good
  BY <1>1, <1>2, <1>5, WorkerKeeps DEF WorkerDoes, TypeOK
<1>6. CASE Finish /\ UNCHANGED <<vps2, todo>>
  BY <1>2, <1>3, <1>5, <1>6, SameEntries DEF vps2
<1>7. ASSUME NEW e \in Ensured(W.blob), Entered(W.blob, e[1]),
             \/ e[2] = "ok" /\ Finish /\ UNCHANGED todo
             \/ e[2] = "later" /\ PutOff
             \/ e[2] = "no" /\ GivesUp /\ UNCHANGED todo
      PROVE  Good
  <2>1. here' \in Places /\ NotBlind /\ UNCHANGED <<ssd, remote, shown>>
    BY <1>2, <1>7, EntersWell
  <2> QED BY <1>3, <1>4, <1>5, <1>7, <2>1
<1> QED BY <1>6, <1>7 DEF AddCross

LEMMA StepBreaks == ASSUME IInv, Breaks PROVE Good
<1>1. /\ at.worker # "idle" /\ GivesUp /\ todo' = {} /\ TypeOK
      /\ UNCHANGED <<setup, group, quiet, doomed, here, ssd, remote, shown, listed, origin,
                     deferred, memo, events>>
  BY DEF Breaks, asWorker, vps1, vps2, maps, IInv
<1> QED BY <1>1, GivesUpEnds, SameEntries, WorkerKeeps DEF WorkerDoes

-----------------------------------------------------------------------------
(* The poller.                                                              *)

\* What the poller may do: everything else is as it was.
PollerDoes ==
  /\ Own("poller") /\ here' \in Places /\ NotBlind /\ PollerHolds'
  /\ group' \subseteq OnVps1 /\ quiet' \in BOOLEAN
  /\ deferred' \subseteq Hash /\ memo' \subseteq {"row", "original"}
  /\ UNCHANGED <<setup, todo, doomed, ssd, remote, shown, listed, origin, events>>

LEMMA PollerKeeps == ASSUME IInv, PollerDoes PROVE Good
<1>1. /\ at'.worker = at.worker /\ at'.janitor = at.janitor /\ mem'["worker"] = mem["worker"]
      /\ at' \in At /\ mem' \in [Actor -> Row] /\ fresh' \in [Actor -> BOOLEAN]
  BY DEF PollerDoes, Own, Actor
<1>2. TypeOK'
  BY <1>1 DEF IInv, TypeOK, PollerDoes, Own, At, Places
<1>3. ShownTrue' /\ Spare(row)' /\ WorkerHolds' /\ PollerHolds' /\ Passed' /\ Safe'
  BY <1>1 DEF IInv, PollerDoes, Own, ShownTrue, Spare, WorkerHolds, Passed, Safe, W
<1>4. CopyKept
  BY DEF PollerDoes, CopyKept
<1> QED BY <1>2, <1>3, <1>4 DEF Good, IInv, PollerDoes

LEMMA PollerHas ==
  ASSUME IInv, at.poller # "idle"
  PROVE  /\ TypeOK /\ P \in Row /\ mem["poller"] = P /\ P.state = "DONE" /\ P.cycles < MaxCycles
         /\ row \in Row /\ Spare(row) /\ "poller" \in Actor
BY Names DEF IInv, TypeOK, PollerHolds, P

LEMMA PollerGoes ==
  ASSUME IInv, at.poller # "idle", NEW where \in Steps["poller"], Goes("poller", where)
  PROVE  Own("poller") /\ at'.poller = where /\ PollerHolds'
<1>1. Own("poller") /\ at'.poller = where /\ (where # "idle" => mem'["poller"] = P)
  BY PollerHas, GoesType DEF Own
<1> QED BY <1>1, PollerHas DEF PollerHolds, P

LEMMA PollerWrites ==
  ASSUME IInv, NEW r \in Row, r.state = "DONE", r.cycles < MaxCycles,
         NEW where \in Steps["poller"], Upsert("poller", r, where)
  PROVE  Own("poller") /\ at'.poller = where /\ PollerHolds'
<1>1. TypeOK /\ "poller" \in Actor
  BY Names DEF IInv
<1>2. Own("poller") /\ at'.poller = where /\ (where # "idle" => mem'["poller"] = r)
  BY <1>1, UpsertType DEF Own, Spare
<1> QED BY <1>2 DEF PollerHolds, P

LEMMA PollerDemotes ==
  ASSUME IInv, at.poller # "idle", Demotes
  PROVE  Own("poller") /\ at'.poller = "idle" /\ PollerHolds'
<1>1. "idle" \in Steps["poller"]
  BY DEF Steps
<1>2. CASE Goes("poller", "idle")
  BY <1>1, <1>2, PollerGoes
<1>3. ASSUME NEW r \in Demoted([P EXCEPT !.onSsd = TRUE], "MOVING"), Upsert("poller", r, "idle")
      PROVE  Own("poller") /\ at'.poller = "idle" /\ PollerHolds'
  <2> DEFINE q == [P EXCEPT !.onSsd = TRUE]
  <2>1. q \in Row /\ q.cycles < MaxCycles
    BY PollerHas DEF Row
  <2>2. r \in Demoted(q, "MOVING")
    BY <1>3
  <2> HIDE DEF q
  <2>3. r \in Row /\ r.state = "MOVING"
    BY <2>1, <2>2, DemotedType
  <2>4. Own("poller") /\ at'.poller = "idle"
    BY <1>1, <1>3, <2>3, PollerHas, UpsertType DEF Own, Spare
  <2> QED BY <2>4 DEF PollerHolds
<1> QED BY <1>2, <1>3 DEF Demotes

LEMMA AddsWell ==
  ASSUME IInv, at.poller # "idle", NEW h \in Hash, NEW where \in Steps["poller"], Adds(h, where)
  PROVE  /\ Own("poller") /\ at'.poller = where /\ PollerHolds' /\ here' \in Places /\ NotBlind
         /\ UNCHANGED <<ssd, remote, shown, memo>> /\ deferred' \subseteq Hash
<1> DEFINE r == [P EXCEPT !.injected = P.injected \cup {h}]
<1>1. r \in Row /\ r.state = "DONE" /\ r.cycles < MaxCycles
  BY PollerHas DEF Row
<1>2. Upsert("poller", r, where)
  BY DEF Adds
<1> HIDE DEF r
<1>3. PICK e \in Ensured(h) : Entered(h, e[1])
  BY DEF Adds
<1>4. h \in Hash \ setup.extra /\ remote
  BY GateWell DEF Adds
<1>5. here' \in Places /\ NotBlind /\ UNCHANGED <<ssd, remote, shown>>
  BY <1>3, <1>4, PollerHas, EntersWell
<1>6. UNCHANGED memo /\ deferred' \subseteq Hash
  BY DEF Adds, IInv, TypeOK
<1> QED BY <1>1, <1>2, <1>5, <1>6, PollerWrites

LEMMA DefersWell ==
  ASSUME IInv, NEW h \in Hash, Defers(h)
  PROVE  /\ here' \in Places /\ NotBlind /\ UNCHANGED <<ssd, remote, shown, memo>>
         /\ deferred' \subseteq Hash
<1>1. UNCHANGED memo /\ deferred' \subseteq Hash /\ TypeOK
  BY DEF Defers, IInv, TypeOK
<1>2. CASE UNCHANGED vps2
  BY <1>1, <1>2, SameEntries DEF vps2
<1>3. ASSUME Gate(h), NEW e \in Ensured(h), Entered(h, e[1])
      PROVE  here' \in Places /\ NotBlind /\ UNCHANGED <<ssd, remote, shown>>
  BY <1>1, <1>3, GateWell, EntersWell
<1> QED BY <1>1, <1>2, <1>3 DEF Defers, vps2

\* Nothing of the client, the mount and the maps changes.
LEMMA Untouched ==
  ASSUME IInv, UNCHANGED <<vps2, maps>>
  PROVE  /\ here' \in Places /\ NotBlind /\ UNCHANGED <<ssd, remote, shown, memo>>
         /\ deferred' \subseteq Hash /\ memo' \subseteq {"row", "original"}
BY SameEntries DEF IInv, TypeOK, vps2, maps

LEMMA StepLateBegin == ASSUME IInv, LateBegin PROVE Good
<1>1. /\ TypeOK /\ row \in Row /\ row.state = "DONE" /\ row.cycles < MaxCycles /\ Spare(row)
      /\ group' \subseteq OnVps1 /\ quiet' \in BOOLEAN /\ "poller" \in Actor
      /\ UNCHANGED <<setup, todo, doomed, listed, origin, events>>
  BY Names DEF IInv, TypeOK, Spare, LateBegin, asPoller, vps1
<1>2. PICK where \in {"verify", "source"} : Reads("poller", where)
  BY DEF LateBegin
<1>3. where \in Steps["poller"] /\ where # "idle"
  BY DEF Steps
<1>4. Own("poller") /\ mem'["poller"] = row
  BY <1>1, <1>2, <1>3, CopiedType DEF Reads, Own, TypeOK
<1>5. PollerHolds'
  BY <1>1, <1>4 DEF PollerHolds, P
<1> QED BY <1>1, <1>4, <1>5, Untouched, PollerKeeps DEF PollerDoes, LateBegin

LEMMA StepVerify == ASSUME IInv, Verify PROVE Good
<1>1. /\ at.poller # "idle" /\ group' \subseteq OnVps1
      /\ UNCHANGED <<setup, todo, doomed, listed, origin, events>> /\ UNCHANGED <<vps2, maps>>
  BY DEF IInv, TypeOK, Verify, Grouped, asPoller, vps1
<1>2. CASE Upsert("poller", [P EXCEPT !.onSsd = FALSE], "source") /\ quiet' = FALSE
  <2> DEFINE r == [P EXCEPT !.onSsd = FALSE]
  <2>1. r \in Row /\ r.state = "DONE" /\ r.cycles < MaxCycles
    BY <1>1, PollerHas DEF Row
  <2>2. Upsert("poller", r, "source") /\ "source" \in Steps["poller"]
    BY <1>2 DEF Steps
  <2> HIDE DEF r
  <2> QED BY <1>1, <1>2, <2>1, <2>2, PollerWrites, Untouched, PollerKeeps DEF PollerDoes
<1>3. CASE Demotes /\ UNCHANGED quiet
  BY <1>1, <1>3, PollerDemotes, Untouched, PollerKeeps DEF PollerDoes, IInv, TypeOK
<1> QED BY <1>2, <1>3 DEF Verify

LEMMA StepRepairSource == ASSUME IInv, RepairSource PROVE Good
<1>1. /\ at.poller # "idle" /\ Adds("s", "original") /\ "original" \in Steps["poller"] /\ "s" \in Hash
      /\ group' \subseteq OnVps1 /\ quiet' \in BOOLEAN /\ memo \subseteq {"row", "original"}
      /\ UNCHANGED <<setup, todo, doomed, listed, origin, events>>
  BY DEF IInv, TypeOK, RepairSource, asPoller, vps1, Steps, Hash
<1> QED BY <1>1, AddsWell, PollerKeeps DEF PollerDoes

LEMMA StepPassSource == ASSUME IInv, PassSource PROVE Good
<1>1. /\ at.poller # "idle" /\ Goes("poller", "original") /\ "original" \in Steps["poller"]
      /\ "s" \in Hash
      /\ group' \subseteq OnVps1 /\ quiet' \in BOOLEAN /\ memo \subseteq {"row", "original"}
      /\ UNCHANGED <<setup, todo, doomed, listed, origin, events>>
  BY DEF IInv, TypeOK, PassSource, asPoller, vps1, Steps, Hash
<1>2. Defers("s") \/ UNCHANGED <<vps2, maps>>
  BY DEF PassSource
<1> QED BY <1>1, <1>2, DefersWell, Untouched, PollerGoes, PollerKeeps DEF PollerDoes

LEMMA StepOriginal == ASSUME IInv, Original PROVE Good
<1>1. /\ at.poller # "idle" /\ Goes("poller", "new") /\ "new" \in Steps["poller"] /\ TypeOK
      /\ Cross \in Hash
      /\ group' \subseteq OnVps1 /\ quiet' \in BOOLEAN /\ memo \subseteq {"row", "original"}
      /\ deferred \subseteq Hash
      /\ UNCHANGED <<setup, todo, doomed, listed, origin, events>>
  BY SetupType DEF IInv, TypeOK, Original, asPoller, vps1, Steps
<1>2. ASSUME here' \in Places, NotBlind, UNCHANGED <<ssd, remote, shown>>, deferred' \subseteq Hash,
             memo' \subseteq {"row", "original"}
      PROVE  Good
  BY <1>1, <1>2, PollerGoes, PollerKeeps DEF PollerDoes
<1>3. CASE UNCHANGED <<vps2, maps>>
  BY <1>2, <1>3, Untouched
<1>4. CASE Defers(Cross)
  BY <1>1, <1>2, <1>4, DefersWell
<1>5. ASSUME Gate(Cross), NEW e \in Ensured(Cross), Entered(Cross, e[1]),
             memo' = memo \cup {"original"}, deferred' = deferred \ {Cross}
      PROVE  Good
  <2>1. Cross \in Hash \ setup.extra /\ remote
    BY <1>5, GateWell
  <2>2. here' \in Places /\ NotBlind /\ UNCHANGED <<ssd, remote, shown>>
    BY <1>1, <1>5, <2>1, EntersWell
  <2> QED BY <1>1, <1>2, <1>5, <2>2
<1> QED BY <1>3, <1>4, <1>5 DEF Original

LEMMA StepLate == ASSUME IInv, Late PROVE Good
<1>1. /\ at.poller # "idle" /\ "idle" \in Steps["poller"] /\ "p" \in Hash /\ TypeOK
      /\ group' \subseteq OnVps1 /\ quiet' \in BOOLEAN /\ memo \subseteq {"row", "original"}
      /\ deferred \subseteq Hash
      /\ UNCHANGED <<setup, todo, doomed, listed, origin, events>>
  BY DEF IInv, TypeOK, Late, Grouped, asPoller, vps1, Steps, Hash
<1>2. CASE Memoizes /\ Goes("poller", "idle") /\ UNCHANGED vps2
  <2>1. deferred' \subseteq Hash /\ memo' \subseteq {"row", "original"}
    BY <1>1, <1>2 DEF Memoizes
  <2>2. here' \in Places /\ NotBlind /\ UNCHANGED <<ssd, remote, shown>>
    BY <1>1, <1>2, SameEntries DEF vps2
  <2> QED BY <1>1, <1>2, <2>1, <2>2, PollerGoes, PollerKeeps DEF PollerDoes
<1>3. CASE Adds("p", "idle")
  BY <1>1, <1>3, AddsWell, PollerKeeps DEF PollerDoes
<1>4. CASE Defers("p") /\ Goes("poller", "idle")
  BY <1>1, <1>4, DefersWell, PollerGoes, PollerKeeps DEF PollerDoes
<1>5. CASE deferred' = deferred \cup {"p"} /\ Demotes /\ UNCHANGED <<memo, vps2>>
  <2>1. here' \in Places /\ NotBlind /\ UNCHANGED <<ssd, remote, shown>>
    BY <1>1, <1>5, SameEntries DEF vps2
  <2> QED BY <1>1, <1>5, <2>1, PollerDemotes, PollerKeeps DEF PollerDoes
<1> QED BY <1>2, <1>3, <1>4, <1>5 DEF Late

-----------------------------------------------------------------------------
(* The janitor.                                                             *)

\* What the janitor may do: everything else is as it was.
JanitorDoes ==
  /\ Own("janitor") /\ Safe' /\ CopyKept
  /\ doomed' \subseteq OnVps1 /\ listed' \subseteq OnVps1 /\ origin' \in BOOLEAN
  /\ UNCHANGED <<setup, todo, group, quiet, here, ssd, remote, shown, deferred, memo, events>>

LEMMA JanitorKeeps == ASSUME IInv, JanitorDoes PROVE Good
<1>1. /\ at'.worker = at.worker /\ at'.poller = at.poller /\ mem'["worker"] = mem["worker"]
      /\ mem'["poller"] = mem["poller"]
      /\ at' \in At /\ mem' \in [Actor -> Row] /\ fresh' \in [Actor -> BOOLEAN]
  BY DEF JanitorDoes, Own, Actor
<1>2. TypeOK'
  BY <1>1 DEF IInv, TypeOK, JanitorDoes, Own, At
<1>3. ShownTrue' /\ Spare(row)' /\ WorkerHolds' /\ PollerHolds' /\ Passed' /\ Safe'
  BY <1>1 DEF IInv, JanitorDoes, Own, ShownTrue, Spare, WorkerHolds, PollerHolds, Passed, W, P
<1>4. NotBlind
  BY DEF JanitorDoes, NotBlind
<1> QED BY <1>2, <1>3, <1>4 DEF Good, IInv, JanitorDoes

LEMMA JanitorHas ==
  ASSUME IInv
  PROVE  /\ TypeOK /\ J \in Row /\ mem["janitor"] = J /\ row \in Row /\ Spare(row)
         /\ "janitor" \in Actor /\ {"idle", "verdict", "delete"} = Steps["janitor"]
         /\ doomed \subseteq OnVps1 /\ listed \subseteq OnVps1 /\ origin \in BOOLEAN
BY Names DEF IInv, TypeOK, J, Steps

LEMMA StampsOwn ==
  ASSUME IInv, NEW where \in {"idle", "delete"}, Stamps(where)
  PROVE  Own("janitor") /\ at'.janitor = where
<1>1. fresh' \in [Actor -> BOOLEAN]
  BY JanitorHas DEF Stamps, TypeOK
<1>2. Copied("janitor", J, where) /\ row' = row
  BY DEF Stamps
<1> QED BY <1>1, <1>2, JanitorHas, CopiedType DEF Own

LEMMA StepJanitorLists == ASSUME IInv, JanitorLists PROVE Good
<1>1. Copied("janitor", row, "verdict") /\ row' = row /\ fresh' = [fresh EXCEPT !["janitor"] = TRUE]
  BY DEF JanitorLists, Reads
<1>2. fresh' \in [Actor -> BOOLEAN]
  BY <1>1, JanitorHas DEF TypeOK
<1>3. Own("janitor") /\ at'.janitor = "verdict"
  BY <1>1, <1>2, JanitorHas, CopiedType DEF Own
<1>4. UNCHANGED <<setup, todo, group, quiet, here, ssd, remote, shown, listed, origin,
                  deferred, memo, events>> /\ doomed' = listed
  BY DEF JanitorLists, asJanitor, vps2, vps1, maps
<1> QED BY <1>3, <1>4, JanitorHas, JanitorKeeps DEF JanitorDoes, Safe, CopyKept

LEMMA StepVerdictKeep == ASSUME IInv, VerdictKeep PROVE Good
<1>1. Own("janitor") /\ at'.janitor = "idle"
  BY StampsOwn DEF VerdictKeep
<1>2. UNCHANGED <<setup, todo, group, quiet, here, ssd, remote, shown, listed, origin,
                  deferred, memo, events>> /\ doomed' = {}
  BY DEF VerdictKeep, asJanitor, vps2, vps1, maps
<1> QED BY <1>1, <1>2, JanitorHas, JanitorKeeps DEF JanitorDoes, Safe, CopyKept

LEMMA StepVerdictDelete == ASSUME IInv, VerdictDelete PROVE Good
<1>1. Own("janitor") /\ at'.janitor = "delete"
  BY StampsOwn DEF VerdictDelete
<1>2. UNCHANGED <<setup, todo, group, quiet, doomed, here, ssd, remote, shown, listed, origin,
                  deferred, memo, events>>
  BY DEF VerdictDelete, asJanitor, vps2, vps1, maps
<1>3. remote \/ ssd
  <2>1. CASE J.state = "DONE" /\ Healthy(J)
    BY <2>1, GateWell DEF Healthy
  <2>2. CASE ssd
    BY <2>2
  <2> QED BY <2>1, <2>2 DEF VerdictDelete
<1> QED BY <1>1, <1>2, <1>3, JanitorHas, JanitorKeeps DEF JanitorDoes, Safe, CopyKept

LEMMA StepHealBlob == ASSUME IInv, HealBlob PROVE Good
<1>1. PICK h \in Recorded(J) :
        /\ Written([row EXCEPT !.blob = h]) /\ Copied("janitor", [J EXCEPT !.blob = h], "verdict")
  BY DEF HealBlob
<1>2. h \in Hash
  BY JanitorHas, RecordedType
<1>3. [row EXCEPT !.blob = h] \in Row /\ Spare([row EXCEPT !.blob = h])
      /\ [J EXCEPT !.blob = h] \in Row
  BY <1>2, JanitorHas DEF Row, Spare
<1>4. row' = [row EXCEPT !.blob = h] /\ fresh' \in [Actor -> BOOLEAN]
  BY <1>1 DEF Written
<1>5. Own("janitor") /\ at'.janitor = "verdict"
  BY <1>1, <1>3, <1>4, JanitorHas, CopiedType DEF Own
<1>6. UNCHANGED <<setup, todo, group, quiet, doomed, here, ssd, remote, shown, listed, origin,
                  deferred, memo, events>>
  BY DEF HealBlob, asJanitor, vps2, vps1, maps
<1> QED BY <1>5, <1>6, JanitorHas, JanitorKeeps DEF JanitorDoes, Safe, CopyKept

LEMMA StepDelete == ASSUME IInv, Delete PROVE Good
<1>1. Own("janitor") /\ at'.janitor = "idle"
  BY JanitorHas, GoesType DEF Delete, Own
<1>2. /\ UNCHANGED <<setup, todo, group, quiet, here, ssd, remote, shown, deferred, memo, events>>
      /\ doomed' = {} /\ listed' \subseteq OnVps1 /\ origin' \in BOOLEAN
  BY JanitorHas DEF Delete, asJanitor, vps2, vps1, maps
<1>3. remote \/ ssd
  BY DEF Delete, IInv, Safe
<1> QED BY <1>1, <1>2, <1>3, JanitorKeeps DEF JanitorDoes, Safe, CopyKept

-----------------------------------------------------------------------------
(* Everything else.                                                         *)

\* The actors are where they were, and hold what they held.
Aside ==
  /\ UNCHANGED <<setup, at, mem, todo, group, quiet, doomed>>
  /\ row' \in Row /\ Spare(row') /\ fresh' \in [Actor -> BOOLEAN] /\ here' \in Places
  /\ (remote => remote') /\ (ssd => ssd' \/ remote') /\ (shown' => remote')
  /\ {ssd', remote', shown', origin'} \subseteq BOOLEAN /\ listed' \subseteq OnVps1
  /\ deferred' \subseteq Hash /\ memo' \subseteq {"row", "original"} /\ events' \in 0..MaxEvents
  /\ NotBlind /\ (origin => origin')

LEMMA AsideKeeps == ASSUME IInv, Aside PROVE Good
<1>1. TypeOK'
  BY DEF IInv, TypeOK, Aside, Places
<1>2. ShownTrue' /\ Spare(row)' /\ WorkerHolds' /\ PollerHolds' /\ Passed' /\ Safe'
  BY DEF IInv, Aside, ShownTrue, Spare, WorkerHolds, PollerHolds, Passed, Safe, W, P
<1> QED BY <1>1, <1>2 DEF Good, IInv, Aside, CopyKept

\* What the world finds.
LEMMA Found ==
  ASSUME IInv
  PROVE  /\ row \in Row /\ Spare(row) /\ fresh \in [Actor -> BOOLEAN] /\ here \in Places
         /\ {ssd, remote, shown, origin} \subseteq BOOLEAN /\ listed \subseteq OnVps1
         /\ deferred \subseteq Hash /\ memo \subseteq {"row", "original"} /\ events \in 0..MaxEvents
         /\ (shown => remote)
BY DEF IInv, TypeOK, Places, ShownTrue

LEMMA UnaskedType == ASSUME IInv, Unasked PROVE events' \in 0..MaxEvents
BY BoundAssumption DEF IInv, TypeOK, Unasked

\* An entry that goes is not added.
LEMMA LosesEntry ==
  ASSUME IInv, NEW h \in Hash, here' = [here EXCEPT ![h] = "none"]
  PROVE  here' \in Places /\ NotBlind
BY Found DEF Places, NotBlind

LEMMA WrittenType ==
  ASSUME NEW r \in Row, r.state # "DONE", Written(r)
  PROVE  row' \in Row /\ Spare(row') /\ fresh' \in [Actor -> BOOLEAN]
BY DEF Written, Spare

LEMMA StepMoves == ASSUME IInv, Moves PROVE Good
<1>1. PICK st \in {"RE_ADDING", "FAILED"} : Written([row EXCEPT !.state = st])
  BY DEF Moves
<1>2. [row EXCEPT !.state = st] \in Row /\ [row EXCEPT !.state = st].state # "DONE"
  BY Found DEF Row
<1>3. row' \in Row /\ Spare(row') /\ fresh' \in [Actor -> BOOLEAN]
  BY <1>1, <1>2, WrittenType
<1>4. here' \in Places /\ NotBlind
  <2>1. Cross \in Hash
    BY SetupType DEF IInv
  <2> QED BY <2>1, LosesEntry, SameEntries DEF Moves, IInv
<1>5. /\ UNCHANGED <<setup, at, todo, group, quiet, doomed, deferred, memo, mem, shown, listed,
                     origin, events>>
      /\ remote' = (remote \/ ssd) /\ ssd' = FALSE
  BY DEF Moves, elsewhere, books, maps, vps1
<1> QED BY <1>3, <1>4, <1>5, Found, AsideKeeps DEF Aside

LEMMA StepShows == ASSUME IInv, Shows PROVE Good
<1>1. /\ UNCHANGED <<setup, at, todo, group, quiet, doomed, deferred, memo, row, mem, fresh, here,
                     ssd, remote, listed, origin, events>>
      /\ shown' = TRUE /\ remote
  BY DEF Shows, elsewhere, books, maps, vps1
<1> QED BY <1>1, Found, SameEntries, AsideKeeps DEF Aside, IInv

\* Time changes no copy but for its timers.
LEMMA TimePasses ==
  ASSUME IInv, UNCHANGED <<elsewhere, fresh, vps2, vps1, events>>,
         row' \in Row, row'.state = row.state, row'.cycles = row.cycles, mem' \in [Actor -> Row],
         \A x \in Actor : /\ mem'[x].state = mem[x].state /\ mem'[x].cycles = mem[x].cycles
                         /\ mem'[x].blob = mem[x].blob
  PROVE  Good
<1>1. UNCHANGED <<setup, at, todo, group, quiet, doomed, deferred, memo, fresh, here, ssd, remote,
                  shown, listed, origin, events>>
  BY DEF elsewhere, books, maps, vps1, vps2
<1>2. TypeOK'
  BY <1>1 DEF IInv, TypeOK
<1>3. ShownTrue' /\ Spare(row)' /\ WorkerHolds' /\ PollerHolds' /\ Passed' /\ Safe'
  BY <1>1, Names DEF IInv, ShownTrue, Spare, WorkerHolds, PollerHolds, Passed, Safe, W, P
<1> QED BY <1>1, <1>2, <1>3 DEF Good, IInv, NotBlind, CopyKept

LEMMA StepTimerElapses == ASSUME IInv, TimerElapses PROVE Good
<1> DEFINE due(r) == IF r.timer = "set" THEN [r EXCEPT !.timer = "due"] ELSE r
<1>1. row' = due(row) /\ mem' = [x \in Actor |-> due(mem[x])]
      /\ UNCHANGED <<elsewhere, fresh, vps2, vps1, events>>
  BY DEF TimerElapses, Elapsed
<1>2. \A r \in Row : /\ due(r) \in Row /\ due(r).state = r.state /\ due(r).cycles = r.cycles
                    /\ due(r).blob = r.blob
  BY DEF Row
<1>3. row \in Row /\ mem \in [Actor -> Row]
  BY DEF IInv, TypeOK
<1> HIDE DEF due
<1> QED BY <1>1, <1>2, <1>3, TimePasses

LEMMA StepAges == ASSUME IInv, Ages PROVE Good
<1> DEFINE old(r) == IF r.age = "young" THEN [r EXCEPT !.age = "old"] ELSE r
<1>1. row' = old(row) /\ mem' = [x \in Actor |-> old(mem[x])]
      /\ UNCHANGED <<elsewhere, fresh, vps2, vps1, events>>
  BY DEF Ages, Elapsed
<1>2. \A r \in Row : /\ old(r) \in Row /\ old(r).state = r.state /\ old(r).cycles = r.cycles
                    /\ old(r).blob = r.blob
  BY DEF Row
<1>3. row \in Row /\ mem \in [Actor -> Row]
  BY DEF IInv, TypeOK
<1> HIDE DEF old
<1> QED BY <1>1, <1>2, <1>3, TimePasses

LEMMA StepEnds == ASSUME IInv, DeferralEnds \/ MemoEnds PROVE Good
<1>1. /\ UNCHANGED <<setup, at, todo, group, quiet, doomed, row, mem, fresh, here, ssd, remote,
                     shown, listed, origin, events>>
      /\ deferred' \subseteq Hash /\ memo' \subseteq {"row", "original"}
  BY Found DEF DeferralEnds, MemoEnds, books, vps2, vps1
<1> QED BY <1>1, Found, SameEntries, AsideKeeps DEF Aside, IInv

LEMMA StepVps1 == ASSUME IInv, Arrives \/ Departs PROVE Good
<1>1. /\ UNCHANGED <<setup, at, todo, group, quiet, doomed, deferred, memo, row, mem, fresh, here,
                     ssd, remote, shown>>
      /\ listed' \subseteq OnVps1 /\ Unasked
  BY Found DEF Arrives, Departs, elsewhere, books, maps, vps2, OnVps1
<1>2. origin' \in BOOLEAN /\ (origin => origin')
  <2>1. origin' = TRUE \/ origin' = origin
    BY Zenon DEF Arrives, Departs
  <2>2. origin \in BOOLEAN
    BY Found
  <2>3. CASE origin' = TRUE
    BY <2>3
  <2>4. CASE origin' = origin
    BY <2>2, <2>4, Zenon
  <2> QED BY <2>1, <2>3, <2>4
<1>3. events' \in 0..MaxEvents /\ here' \in Places /\ NotBlind
  BY <1>1, UnaskedType, SameEntries DEF IInv
<1> QED BY <1>1, <1>2, <1>3, Found, AsideKeeps DEF Aside

LEMMA StepLoses == ASSUME IInv, Loses PROVE Good
<1>1. /\ UNCHANGED <<setup, at, todo, group, quiet, doomed, deferred, memo, row, mem, fresh,
                     ssd, remote, shown, listed, origin>>
      /\ Unasked
  BY DEF Loses, elsewhere, books, maps, vps1
<1>2. here' \in Places /\ NotBlind
  BY LosesEntry DEF Loses
<1> QED BY <1>1, <1>2, Found, UnaskedType, AsideKeeps DEF Aside

LEMMA StepBlinds == ASSUME IInv, Blinds PROVE Good
<1>1. /\ UNCHANGED <<setup, at, todo, group, quiet, doomed, deferred, memo, row, mem, fresh, here,
                     ssd, remote, listed, origin>>
      /\ Unasked /\ shown' = FALSE
  BY DEF Blinds, elsewhere, books, maps, vps1
<1> QED BY <1>1, Found, UnaskedType, SameEntries, AsideKeeps DEF Aside, IInv

LEMMA StepRestart == ASSUME IInv, Restart PROVE Good
<1>1. /\ UNCHANGED <<setup, ssd, remote, shown, listed, origin>> /\ Unasked
      /\ at' = [x \in Actor |-> "idle"] /\ todo' = {} /\ group' = {} /\ doomed' = {}
      /\ quiet' = TRUE /\ deferred' = {} /\ memo' = {}
      /\ mem' = [x \in Actor |-> NewRow] /\ fresh' = [x \in Actor |-> FALSE]
  BY DEF Restart, vps1
<1>2. here' \in Places /\ NotBlind
  BY LosesEntry, SameEntries DEF Restart, IInv
<1>3. row' \in Row /\ Spare(row')
  <2>1. CASE row.state = "DONE" /\ row' \in Demoted(row, "RE_ADDING")
    BY <2>1, Found, DemotedType DEF Spare
  <2>2. CASE row' = row
    BY <2>2, Found
  <2> QED BY <2>1, <2>2 DEF Restart
<1>4. at' \in At /\ at'.worker = "idle" /\ at'.poller = "idle" /\ at'.janitor = "idle"
  BY <1>1 DEF At, Actor
<1>5. TypeOK'
  BY <1>1, <1>2, <1>3, <1>4, UnaskedType, NewRowType DEF IInv, TypeOK, At, Places
<1>6. ShownTrue' /\ WorkerHolds' /\ PollerHolds' /\ Passed' /\ Safe'
  BY <1>1, <1>4 DEF IInv, ShownTrue, WorkerHolds, PollerHolds, Passed, Safe
<1> QED BY <1>1, <1>2, <1>3, <1>5, <1>6 DEF Good, IInv, Spare, CopyKept

LEMMA StepRecover == ASSUME IInv, Recover PROVE Good
<1>1. /\ UNCHANGED <<setup, at, todo, group, quiet, doomed, deferred, memo, mem, here,
                     ssd, remote, shown, listed, origin>>
      /\ Unasked /\ row.state = "DONE"
  BY DEF Recover, elsewhere, books, maps, vps1, vps2
<1> DEFINE q == [row EXCEPT !.onSsd = TRUE]
<1>2. row \in Row /\ row.cycles < MaxCycles /\ q \in Row /\ q.cycles < MaxCycles
  BY <1>1, Found DEF Spare, Row
<1>3. \E r : Written(r) /\ (r \in Demoted(row, "RE_ADDING") \/ r \in Demoted(q, "MOVING"))
  BY DEF Recover
<1> HIDE DEF q
<1>4. \E r \in Row : r.state # "DONE" /\ Written(r)
  BY <1>2, <1>3, DemotedType
<1>5. row' \in Row /\ Spare(row') /\ fresh' \in [Actor -> BOOLEAN]
  BY <1>4, WrittenType
<1> QED BY <1>1, <1>5, Found, UnaskedType, SameEntries, AsideKeeps DEF Aside, IInv

-----------------------------------------------------------------------------
(* The theorems.                                                            *)

LEMMA InitInv == Init => IInv
<1> SUFFICES ASSUME Init PROVE IInv
  OBVIOUS
<1>1. /\ setup \in Setups /\ ssd \in BOOLEAN /\ remote \in BOOLEAN /\ shown = FALSE
      /\ mem = [x \in Actor |-> NewRow] /\ fresh = [x \in Actor |-> FALSE]
      /\ at = [x \in Actor |-> "idle"] /\ todo = {} /\ group = {} /\ doomed = {}
      /\ quiet = TRUE /\ listed = {"s"} /\ origin = TRUE
      /\ deferred = {} /\ memo = {} /\ events = 0
  BY DEF Init
<1>2. /\ at \in At /\ at.worker = "idle" /\ at.poller = "idle" /\ at.janitor = "idle"
      /\ mem \in [Actor -> Row] /\ fresh \in [Actor -> BOOLEAN]
  BY <1>1, NewRowType DEF At, Actor
<1>3. Cross \in Hash
  BY <1>1, SetupsAssumption DEF Setup, Cross, Hash
<1>4. PICK st \in {"RE_ADDING", "DONE"}, f \in BOOLEAN, b \in {"none", Cross}, i \in {{}, {"s"}},
           n \in 0..MaxCycles :
        row = [NewRow EXCEPT !.state = st, !.onSsd = f, !.blob = b, !.injected = i, !.cycles = n]
  BY DEF Init
<1>5. row \in Row
  BY <1>3, <1>4, NewRowType DEF Row, Hash
<1>6. Spare(row)
  <2>1. row.state = "RE_ADDING" \/ row.cycles = 0
    BY DEF Init
  <2> QED BY <2>1, BoundAssumption DEF Spare
<1>7. PICK e \in {"none", "ssd", "fuse"} :
        here = [h \in Hash |-> IF h \in row.injected THEN "fuse" ELSE IF h = Cross THEN e ELSE "none"]
  BY DEF Init
<1>8. here \in Places
  BY <1>7 DEF Places
<1>9. TypeOK
  <2>1. {origin, ssd, remote, shown} \subseteq BOOLEAN
    BY <1>1, Zenon
  <2>2. events \in 0..MaxEvents /\ listed \subseteq OnVps1 /\ quiet \in BOOLEAN
    BY <1>1, BoundAssumption DEF OnVps1
  <2> QED BY <1>1, <1>2, <1>5, <1>8, <2>1, <2>2 DEF TypeOK, At, Places
<1> QED BY <1>1, <1>2, <1>6, <1>9 DEF IInv, ShownTrue, WorkerHolds, PollerHolds, Passed, Safe

\* Every step keeps the invariant, adds no entry blindly and deletes no last
\* copy.
LEMMA StepGood == ASSUME IInv, [Next]_vars PROVE Good
<1>1. CASE Worker
  BY <1>1, StepBegin, StepPasses, StepInject, StepSupplement, StepAddCross, StepBreaks DEF Worker
<1>2. CASE Poller
  BY <1>2, StepLateBegin, StepVerify, StepRepairSource, StepPassSource, StepOriginal, StepLate
     DEF Poller
<1>3. CASE Janitor
  BY <1>3, StepJanitorLists, StepVerdictKeep, StepVerdictDelete, StepHealBlob, StepDelete DEF Janitor
<1>4. CASE World
  BY <1>4, StepMoves, StepShows, StepTimerElapses, StepAges, StepEnds, StepVps1, StepLoses,
     StepBlinds, StepRestart, StepRecover DEF World
<1>5. CASE UNCHANGED vars
  <2>1. UNCHANGED <<elsewhere, row, mem, fresh, vps2, vps1, events>>
    BY <1>5 DEF vars, elsewhere
  <2> QED BY <2>1, TimePasses DEF IInv, TypeOK
<1> QED BY <1>1, <1>2, <1>3, <1>4, <1>5 DEF Next

\* Every reachable state satisfies the inductive invariant.
THEOREM Invariance == Spec => []IInv
BY InitInv, StepGood, PTL DEF Spec, Good

\* Row, copies, entries and bookkeeping keep their types, for any releases and
\* any limit of cycles.
THEOREM TypeCorrect == Spec => []TypeOK
BY Invariance, PTL DEF IInv

\* Nobody adds an entry to the mount for a torrent whose files the remote does
\* not have, however long ago the mount was asked (_missing_fuse_files).
THEOREM SeedsNothingBlind == Spec => NoBlindSeed
<1>1. IInv /\ [Next]_vars => [NotBlind]_vars
  BY StepGood DEF Good
<1> QED BY <1>1, Invariance, PTL DEF Spec, NoBlindSeed, NotBlind

\* The janitor's verdict outlives what it was made of, and still the files on
\* VPS1 go only while VPS2 has the content (_delete_source_group).
THEOREM LastCopy == Spec => LastCopyKept
<1>1. IInv /\ [Next]_vars => [CopyKept]_vars
  BY StepGood DEF Good
<1> QED BY <1>1, Invariance, PTL DEF Spec, LastCopyKept, CopyKept
=============================================================================
