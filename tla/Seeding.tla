------------------------------ MODULE Seeding ------------------------------
(***************************************************************************)
(* What happens to one release once its bytes are on VPS2: the entries that *)
(* seed it from the fuse mount, and the torrents of it on VPS1.             *)
(*                                                                          *)
(* A RE_ADDING row's worker adds an entry for every torrent VPS1 has and    *)
(* for the torrent that was downloaded.  The source poller adds, to a DONE  *)
(* row, what was missed or arrived later.  The janitor deletes the torrents *)
(* of VPS1.  Each works on a copy of the row and on a listing it took       *)
(* earlier; the client loses entries, the mount shows the remote late.      *)
(*                                                                          *)
(* All entries are added without a check of their bytes, so an entry says   *)
(* nothing about the content it points at.                                  *)
(***************************************************************************)
EXTENDS Naturals, FiniteSets

CONSTANTS
  Setups,     \* the releases looked at
  MaxCycles,  \* _MAX_READD_CYCLES
  MaxEvents   \* bound: what happens unasked

\* s: the racing torrent of the row (source_infohash).  c: the cross-seed
\* downloaded in its stead.  p: a third torrent of the release.
Hash == {"s", "c", "p"}
OnVps1 == {"s", "p"}

\* cross:     dest_infohash: c, or s itself for a public release
\* extra:     the torrents with files that the download did not have
\* cancelled: the torrents the operator cancelled
Setup == [cross : {"s", "c"}, extra : SUBSET Hash, cancelled : SUBSET {"p"}]

ASSUME SetupsAssumption ==
  \A u \in Setups : u \in Setup /\ u.cross \notin u.extra
ASSUME BoundAssumption == MaxCycles \in Nat \ {0} /\ MaxEvents \in Nat

VARIABLES
  setup,     \* the release; never changed
  row,       \* the row in the database
  mem,       \* mem[x]: the copy actor x holds
  fresh,     \* fresh[x]: nobody else wrote the row since x read it
  at,        \* at[x]: what x is about to do
  todo,      \* the torrents the worker has still to add
  group,     \* the torrents of the release in the poller's listing
  quiet,     \* the poller's check changed nothing so far
  doomed,    \* the torrents of the release in the janitor's listing
  here,      \* here[h]: the entry of h on VPS2: none, ssd, fuse
  listed,    \* the torrents of the release on VPS1
  origin,    \* their files are on VPS1
  ssd,       \* the content is on the SSD
  remote,    \* the content is on the remote
  shown,     \* the mount shows it
  deferred,  \* _failed_late_cross_seeds
  memo,      \* _late_seed_ok_at and _original_healthy_at
  events     \* what happened unasked so far

books == <<at, todo, group, quiet, doomed>>
vps2 == <<here, ssd, remote, shown>>
vps1 == <<listed, origin>>
maps == <<deferred, memo>>
vars == <<setup, row, mem, fresh, books, vps2, vps1, maps, events>>

Actor == {"worker", "poller", "janitor"}

\* blob: the torrent the stored bytes are of.  age: since the first attempt.
Row == [state : {"MOVING", "RE_ADDING", "DONE", "FAILED"}, injected : SUBSET Hash,
        onSsd : BOOLEAN, timer : {"none", "set", "due"}, age : {"none", "young", "old"},
        cycles : 0..MaxCycles, blob : Hash \cup {"none"}]

NewRow == [state |-> "RE_ADDING", injected |-> {}, onSsd |-> FALSE, timer |-> "none",
           age |-> "none", cycles |-> 0, blob |-> "none"]

Cross == setup.cross

TypeOK ==
  /\ setup \in Setups
  /\ row \in Row /\ mem \in [Actor -> Row] /\ fresh \in [Actor -> BOOLEAN]
  /\ at \in [worker : {"idle", "gate", "inject", "cross"},
             poller : {"idle", "verify", "source", "original", "new"},
             janitor : {"idle", "verdict", "delete"}]
  /\ todo \subseteq OnVps1 /\ group \subseteq OnVps1 /\ doomed \subseteq OnVps1
  /\ quiet \in BOOLEAN
  /\ here \in [Hash -> {"none", "ssd", "fuse"}] /\ listed \subseteq OnVps1
  /\ {origin, ssd, remote, shown} \subseteq BOOLEAN
  /\ deferred \subseteq Hash /\ memo \subseteq {"row", "original"}
  /\ events \in 0..MaxEvents

\* Moved, or demoted so many times, and handed to RE_ADDING; or DONE, the
\* racing torrent injected or not; or adopted as DONE from an entry, with the
\* bytes on the remote, on the SSD, or nowhere.
Init ==
  /\ setup \in Setups
  /\ \E st \in {"RE_ADDING", "DONE"}, f \in BOOLEAN, b \in {"none", Cross}, i \in {{}, {"s"}},
        n \in 0..MaxCycles :
       row = [NewRow EXCEPT !.state = st, !.onSsd = f, !.blob = b, !.injected = i, !.cycles = n]
  /\ \E e \in {"none", "ssd", "fuse"} :
       here = [h \in Hash |-> IF h \in row.injected THEN "fuse" ELSE IF h = Cross THEN e ELSE "none"]
  /\ ssd \in BOOLEAN /\ remote \in BOOLEAN /\ shown = FALSE
  /\ IF row.state = "RE_ADDING"
       THEN remote /\ ~ssd /\ row.onSsd /\ here[Cross] # "fuse" /\ row.injected = {}
     ELSE /\ here[Cross] # "none" /\ row.cycles = 0
          /\ row.injected # {} => (remote /\ ~row.onSsd /\ here[Cross] = "fuse")
          /\ here[Cross] = "ssd" => (ssd /\ ~remote /\ row.onSsd)
          /\ remote => (~ssd /\ row.blob = Cross)
  /\ mem = [x \in Actor |-> NewRow] /\ fresh = [x \in Actor |-> FALSE]
  /\ at = [x \in Actor |-> "idle"] /\ todo = {} /\ group = {} /\ doomed = {}
  /\ quiet = TRUE /\ listed = {"s"} /\ origin = TRUE
  /\ deferred = {} /\ memo = {} /\ events = 0

-----------------------------------------------------------------------------
(* Writing the row.  An actor that is done forgets its copy.                *)

Copied(x, r, where) ==
  /\ at' = [at EXCEPT ![x] = where]
  /\ mem' = [mem EXCEPT ![x] = IF where = "idle" THEN NewRow ELSE r]

\* x goes on without writing.
Goes(x, where) ==
  /\ Copied(x, mem[x], where)
  /\ fresh' = [fresh EXCEPT ![x] = @ /\ where # "idle"] /\ UNCHANGED row

\* x reads the row.
Reads(x, where) ==
  /\ Copied(x, row, where) /\ fresh' = [fresh EXCEPT ![x] = TRUE] /\ UNCHANGED row

\* store.upsert: the whole copy, whatever the row is by now.
Upsert(x, r, where) ==
  /\ row' = r /\ Copied(x, r, where)
  /\ fresh' = [y \in Actor |-> y = x /\ where # "idle"]

\* What entering a state does to the timers of a row.
Entering(r, dst) ==
  IF r.state = "DONE" \/ dst = "DONE"
    THEN [r EXCEPT !.state = dst, !.timer = "none", !.age = "none"]
    ELSE [r EXCEPT !.state = dst]

\* coordinator.transition ends the run of x; a copy that is not the last word
\* is refused.
Transition(x, r, dst) ==
  IF fresh[x] THEN Upsert(x, Entering(r, dst), "idle") ELSE Goes(x, "idle")

\* A demotion of a DONE row; a rapid one counts.
Demoted(r, dst) == {[Entering(r, dst) EXCEPT !.cycles = n] : n \in {0, r.cycles + 1}}

\* Somebody else writes the row, or one column of it.
Written(r) == row' = r /\ fresh' = [x \in Actor |-> FALSE]

-----------------------------------------------------------------------------
(* The client and the mount.                                                *)

\* Fault: an entry is added and the mount is not asked.
GateOpen(h) == h \in Hash

\* _missing_fuse_files finds nothing missing.
Gate(h) == h \in Hash /\ shown /\ h \notin setup.extra

\* _ensure_fuse_entry: what becomes of the entry, and the answer.  An entry on
\* the mount is accepted, another is removed (its files kept) and added anew;
\* "later" is a client that has not registered it yet, or does not answer.
Ensured(h) ==
  CASE here[h] = "none" -> {<<"fuse", "ok">>, <<"fuse", "later">>, <<"none", "later">>,
                            <<"none", "no">>}
    [] here[h] = "fuse" -> {<<"fuse", "ok">>, <<"fuse", "later">>}
    [] here[h] = "ssd"  -> {<<"fuse", "ok">>, <<"fuse", "later">>, <<"none", "later">>,
                            <<"none", "no">>, <<"ssd", "no">>, <<"ssd", "later">>}

Entered(h, e) == here' = [here EXCEPT ![h] = e] /\ UNCHANGED <<ssd, remote, shown>>

\* All the entries the row knows of.
Recorded(r) == {Cross} \cup r.injected

\* Fault: the entries are there, so the content is taken to be.
HealthyByEntries(r) == \A h \in Recorded(r) : here[h] # "none"

\* _cleanup_fuse_healthy and _verified_fuse_mount_for_done_row: every recorded
\* entry is there, and the files of the stored torrent at the mount.
Healthy(r) == (\A h \in Recorded(r) : here[h] # "none") /\ Gate(r.blob)

-----------------------------------------------------------------------------
(* The worker of a RE_ADDING row: _do_re_add.                               *)

W == mem["worker"]
asWorker == <<setup, group, quiet, doomed, vps1, maps, events>>

\* Fault: an attempt that is put off starts the age again.
ParkAfresh(r) == Upsert("worker", [r EXCEPT !.timer = "set", !.age = "none"], "idle")

Park(r) == Upsert("worker", [r EXCEPT !.timer = "set"], "idle")

GivesUp == Transition("worker", [W EXCEPT !.timer = "none"], "FAILED")

\* Fault: one incident too many is let through.
FlapsPast(r) == r.cycles > MaxCycles

\* DONE and lost again too often.
Flaps(r) == r.cycles >= MaxCycles

\* A row that flaps is given up; the first attempt starts the age and waits
\* until the mount has indexed; an old row is given up.
Begin ==
  /\ at.worker = "idle" /\ row.state = "RE_ADDING" /\ row.timer # "set"
  /\ LET r == [row EXCEPT !.age = IF @ = "none" THEN "young" ELSE @]
         spent == [r EXCEPT !.state = "FAILED", !.timer = "none"]
     IN  IF Flaps(r) \/ (r.timer = "due" /\ r.age = "old") THEN Upsert("worker", spent, "idle")
         ELSE IF r.timer = "none" THEN Park(r)
         ELSE Upsert("worker", r, "gate")
  /\ UNCHANGED <<asWorker, todo, vps2>>

\* Without the torrent's bytes the racing torrent's are fetched from VPS1, and
\* stored with the revision taken over; without any, or with files missing at
\* the mount, the row waits.
Passes ==
  /\ at.worker = "gate"
  /\ \E b \in {W.blob} \cup IF W.blob = "none" /\ "s" \in listed THEN {"s"} ELSE {} :
       LET r == [W EXCEPT !.blob = b]
       IN  IF ~Gate(b) THEN Park(r) /\ UNCHANGED todo
           ELSE /\ todo' \in {listed, {}}
                /\ IF b = W.blob THEN Goes("worker", "inject")
                   ELSE /\ Copied("worker", r, "inject") /\ row' = [row EXCEPT !.blob = b]
                        /\ fresh' = [x \in Actor |-> x = "worker"]
  /\ UNCHANGED <<asWorker, vps2>>

\* The client does not answer: put off, or given up once old; what was
\* injected so far is kept with the row.
PutOff == todo' = {} /\ IF W.age = "old" THEN GivesUp ELSE Park(W)

Injects(h) == h \notin W.injected \cup setup.cancelled /\ Gate(h)

\* _re_inject_racing_torrents, for one torrent of the listing: passed over, or
\* its bytes fetched, its files found at the mount and its entry added.
Inject ==
  /\ at.worker = "inject"
  /\ \E h \in todo :
       \/ todo' = todo \ {h} /\ Goes("worker", "inject") /\ UNCHANGED vps2
       \/ /\ Injects(h)
          /\ \E e \in Ensured(h) :
               /\ Entered(h, e[1])
               /\ IF e[2] = "later" THEN PutOff
                  ELSE /\ todo' = todo \ {h} /\ UNCHANGED <<row, fresh>>
                       /\ Copied("worker", [W EXCEPT !.injected =
                                   IF e[2] = "ok" THEN @ \cup {h} ELSE @], "inject")
  /\ UNCHANGED asWorker

\* _re_inject_tracker_map_supplements: indexers have a third torrent, or not.
Supplement ==
  /\ at.worker = "inject" /\ todo = {}
  /\ \/ Goes("worker", "cross") /\ UNCHANGED vps2
     \/ /\ Injects("p")
        /\ \E e \in Ensured("p") :
             /\ Entered("p", e[1])
             /\ IF e[2] = "ok" THEN Upsert("worker", [W EXCEPT !.injected = @ \cup {"p"}], "cross")
                               ELSE Goes("worker", "cross")
  /\ UNCHANGED <<asWorker, todo>>

Finish == Transition("worker", [W EXCEPT !.timer = "none", !.onSsd = FALSE], "DONE")

\* _re_add_cross_seed_torrent: unless it is on record, the torrent of the
\* stored bytes is added; then the row is DONE.
AddCross ==
  /\ at.worker = "cross"
  /\ IF W.injected \cap {Cross, W.blob} # {} THEN Finish /\ UNCHANGED <<vps2, todo>>
     ELSE \E e \in Ensured(W.blob) :
            /\ Entered(W.blob, e[1])
            /\ \/ e[2] = "ok" /\ Finish /\ UNCHANGED todo
               \/ e[2] = "later" /\ PutOff
               \/ e[2] = "no" /\ GivesUp /\ UNCHANGED todo
  /\ UNCHANGED asWorker

\* An error that is no client's ends the row.
Breaks ==
  /\ at.worker \in {"inject", "cross"} /\ GivesUp /\ todo' = {}
  /\ UNCHANGED <<asWorker, vps2>>

-----------------------------------------------------------------------------
(* The poller and a DONE row: _check_and_inject_late_cross_seeds.           *)

P == mem["poller"]
asPoller == <<setup, todo, doomed, vps1, events>>

\* The listing of this poll is forgotten with the copy.
Grouped == group' = IF at'["poller"] = "idle" THEN {} ELSE group

\* The release of a cancelled torrent is not looked at.
LateBegin ==
  /\ at.poller = "idle" /\ row.state = "DONE" /\ listed # {}
  /\ listed \cap setup.cancelled = {} /\ "row" \notin memo
  /\ group' = listed /\ quiet' = TRUE
  /\ Reads("poller", IF row.onSsd THEN "verify" ELSE "source")
  /\ UNCHANGED <<asPoller, vps2, maps>>

\* _demote_false_done_to_moving: the client names the files, and the SSD has
\* them; otherwise nothing.
Demotes ==
  \/ Goes("poller", "idle")
  \/ /\ here[Cross] # "none" /\ ssd
     /\ \E r \in Demoted([P EXCEPT !.onSsd = TRUE], "MOVING") : Upsert("poller", r, "idle")

\* A save path off the mount: proved stale and repaired, or a false DONE.
Verify ==
  /\ at.poller = "verify"
  /\ IF Healthy(P) THEN Upsert("poller", [P EXCEPT !.onSsd = FALSE], "source") /\ quiet' = FALSE
                   ELSE Demotes /\ UNCHANGED quiet
  /\ Grouped /\ UNCHANGED <<asPoller, vps2, maps>>

\* Fault: the racing torrent is known, so it is not looked at again.
RepairsKnown == "s" \in group /\ "s" \notin Recorded(P) \cup {"s"}

\* The racing torrent was never injected and is listed.
Repairs == "s" \in group /\ "s" \notin Recorded(P)

\* The entry of h is added, and recorded at once.
Adds(h, where) ==
  /\ Gate(h) /\ \E e \in Ensured(h) : e[2] = "ok" /\ Entered(h, e[1])
  /\ deferred' = deferred \ {h} /\ UNCHANGED memo
  /\ Upsert("poller", [P EXCEPT !.injected = @ \cup {h}], where)

\* The bytes were not to be had, a file is missing, or the client declined: h
\* is put off for half an hour.
Defers(h) ==
  /\ deferred' = deferred \cup {h} /\ UNCHANGED memo
  /\ \/ UNCHANGED vps2
     \/ Gate(h) /\ \E e \in Ensured(h) : e[2] # "ok" /\ Entered(h, e[1])

\* _ensure_source_fuse_entry.
RepairSource ==
  /\ at.poller = "source" /\ Repairs /\ "s" \notin deferred
  /\ Adds("s", "original") /\ quiet' = FALSE
  /\ UNCHANGED <<asPoller, group>>

PassSource ==
  /\ at.poller = "source" /\ Goes("poller", "original")
  /\ IF Repairs /\ "s" \notin deferred THEN Defers("s") ELSE UNCHANGED <<vps2, maps>>
  /\ UNCHANGED <<asPoller, group, quiet>>

\* _ensure_original_fuse_entry: the entry that was downloaded, exported by the
\* client that has it.
Original ==
  /\ at.poller = "original" /\ Goes("poller", "new")
  /\ \/ UNCHANGED <<vps2, maps>>
     \/ /\ Cross \notin deferred /\ "original" \notin memo /\ here[Cross] # "none"
        /\ \/ Defers(Cross)
           \/ /\ Gate(Cross) /\ \E e \in Ensured(Cross) : e[2] = "ok" /\ Entered(Cross, e[1])
              /\ memo' = memo \cup {"original"} /\ deferred' = deferred \ {Cross}
  /\ UNCHANGED <<asPoller, group, quiet>>

\* Nothing changed and nothing waits: half an hour without a check.
Memoizes ==
  /\ UNCHANGED deferred
  /\ memo' = IF quiet /\ deferred \cap (Recorded(P) \cup {"s"} \cup group) = {}
               THEN memo \cup {"row"} ELSE memo

\* The torrents that arrived since: added, or put off, and the row demoted if
\* the files the mount lacks are on the SSD.
Late ==
  /\ at.poller = "new"
  /\ IF group \ (Recorded(P) \cup {"s"} \cup deferred) = {}
       THEN Memoizes /\ Goes("poller", "idle") /\ UNCHANGED vps2
       ELSE \/ Adds("p", "idle")
            \/ Defers("p") /\ Goes("poller", "idle")
            \/ /\ ~Gate("p") /\ ssd /\ deferred' = deferred \cup {"p"} /\ Demotes
               /\ UNCHANGED <<memo, vps2>>
  /\ Grouped /\ UNCHANGED <<asPoller, quiet>>

-----------------------------------------------------------------------------
(* The janitor: _run_source_cleanup.                                        *)

J == mem["janitor"]
asJanitor == <<setup, todo, group, quiet, vps2, maps, events>>

JanitorLists ==
  /\ at.janitor = "idle" /\ row.state \in {"DONE", "MOVING"} /\ listed # {}
  /\ Reads("janitor", "verdict") /\ doomed' = listed
  /\ UNCHANGED <<asJanitor, vps1>>

\* A narrow write of one column, unless it is a row without a change: the
\* revision moves on.
Stamps(where) ==
  /\ Copied("janitor", J, where) /\ UNCHANGED row
  /\ fresh' \in {fresh, [x \in Actor |-> FALSE]}

\* Kept: the swarm is alive (stamped), the minimums or the grace are not met,
\* or the bytes are not where they should be.
VerdictKeep ==
  /\ at.janitor = "verdict" /\ Stamps("idle") /\ doomed' = {}
  /\ UNCHANGED <<asJanitor, vps1>>

\* _cleanup_verdict, of the state in the copy: a DONE row that is healthy; a
\* MOVING row, under pressure, whose bytes the SSD has.
VerdictDelete ==
  /\ at.janitor = "verdict" /\ Stamps("delete")
  /\ \/ J.state = "DONE" /\ Healthy(J)
     \/ J.state = "MOVING" /\ here[Cross] # "none" /\ J.onSsd /\ ssd
  /\ UNCHANGED <<asJanitor, doomed, vps1>>

\* _cleanup_heal_blob: the bytes of a recorded entry, exported.
HealBlob ==
  /\ at.janitor = "verdict" /\ J.state = "DONE" /\ J.blob = "none"
  /\ \A h \in Recorded(J) : here[h] # "none"
  /\ \E h \in Recorded(J) :
       Written([row EXCEPT !.blob = h]) /\ Copied("janitor", [J EXCEPT !.blob = h], "verdict")
  /\ UNCHANGED <<asJanitor, doomed, vps1>>

\* _delete_source_group, on the group of the listing: the first torrent goes
\* with the files, the others without; any of the calls may fail.
Delete ==
  /\ at.janitor = "delete" /\ Goes("janitor", "idle") /\ doomed' = {}
  /\ \/ UNCHANGED vps1
     \/ \E gone \in (SUBSET doomed) \ {{}} : listed' = listed \ gone /\ origin' = FALSE
  /\ UNCHANGED asJanitor

-----------------------------------------------------------------------------
(* The move, time, the clients, a restart.                                  *)

elsewhere == <<setup, books, maps>>

\* The worker of MOVING: the bytes reach the remote, or are not there.
Moves ==
  /\ row.state = "MOVING"
  /\ Written([row EXCEPT !.state = IF ssd THEN "RE_ADDING" ELSE "FAILED"])
  /\ remote' = (remote \/ ssd) /\ ssd' = FALSE
  /\ here' \in {here, [here EXCEPT ![Cross] = "none"]}
  /\ UNCHANGED <<elsewhere, mem, shown, vps1, events>>

Shows ==
  /\ remote /\ ~shown /\ shown' = TRUE
  /\ UNCHANGED <<elsewhere, row, mem, fresh, here, ssd, remote, vps1, events>>

\* Time passes over every copy of a timestamp alike.
Elapsed(later(_)) ==
  /\ row' = later(row) /\ mem' = [x \in Actor |-> later(mem[x])]
  /\ UNCHANGED <<elsewhere, fresh, vps2, vps1, events>>

TimerElapses ==
  LET due(r) == IF r.timer = "set" THEN [r EXCEPT !.timer = "due"] ELSE r
  IN  row.timer = "set" /\ Elapsed(due)

Ages ==
  LET old(r) == IF r.age = "young" THEN [r EXCEPT !.age = "old"] ELSE r
  IN  row.age = "young" /\ Elapsed(old)

\* Half an hour outlasts a check.
DeferralEnds ==
  /\ deferred # {} /\ at.poller = "idle" /\ deferred' = {}
  /\ UNCHANGED <<setup, row, mem, fresh, books, vps2, vps1, memo, events>>

MemoEnds ==
  /\ memo # {} /\ at.poller = "idle" /\ memo' = {}
  /\ UNCHANGED <<setup, row, mem, fresh, books, vps2, vps1, deferred, events>>

Unasked == events < MaxEvents /\ events' = events + 1

\* A third torrent arrives on VPS1, with its files; a torrent leaves it.
Arrives ==
  /\ Unasked /\ listed' = listed \cup {"p"} /\ "p" \notin listed /\ origin' = TRUE
  /\ UNCHANGED <<elsewhere, row, mem, fresh, vps2>>

Departs ==
  /\ Unasked /\ \E h \in listed : listed' = listed \ {h} /\ UNCHANGED origin
  /\ UNCHANGED <<elsewhere, row, mem, fresh, vps2>>

\* The client loses an entry, which an entry lost in the middle of the worker's
\* run is taken to be after it; the mount goes blind.
Loses ==
  /\ Unasked /\ at.worker = "idle"
  /\ \E h \in Hash : here[h] # "none" /\ here' = [here EXCEPT ![h] = "none"]
  /\ UNCHANGED <<elsewhere, row, mem, fresh, ssd, remote, shown, vps1>>

Blinds ==
  /\ Unasked /\ shown /\ shown' = FALSE
  /\ UNCHANGED <<elsewhere, row, mem, fresh, here, ssd, remote, vps1>>

\* A restart, over which the client may lose an entry; at boot a row is demoted
\* that is DONE and has none of its torrents on the client.
Restart ==
  /\ Unasked
  /\ at' = [x \in Actor |-> "idle"] /\ todo' = {} /\ group' = {} /\ doomed' = {}
  /\ quiet' = TRUE /\ deferred' = {} /\ memo' = {}
  /\ mem' = [x \in Actor |-> NewRow] /\ fresh' = [x \in Actor |-> FALSE]
  /\ here' \in {here} \cup {[here EXCEPT ![h] = "none"] : h \in Hash}
  /\ IF row.state = "DONE" /\ \A h \in Recorded(row) \cup {"s"} : here'[h] = "none"
       THEN row' \in Demoted(row, "RE_ADDING") ELSE UNCHANGED row
  /\ UNCHANGED <<setup, ssd, remote, shown, vps1>>

\* POST /api/recover, which holds off the poller: a row whose torrents are gone
\* is demoted, and one whose files the SSD has and the mount lacks.
Recover ==
  /\ Unasked /\ row.state = "DONE" /\ at.poller = "idle"
  /\ IF \A h \in Recorded(row) \cup {"s"} : here[h] = "none"
       THEN \E r \in Demoted(row, "RE_ADDING") : Written(r)
       ELSE /\ ssd /\ ~shown
            /\ \E r \in Demoted([row EXCEPT !.onSsd = TRUE], "MOVING") : Written(r)
  /\ UNCHANGED <<mem, elsewhere, vps2, vps1>>

-----------------------------------------------------------------------------
Worker == Begin \/ Passes \/ Inject \/ Supplement \/ AddCross \/ Breaks
Poller == LateBegin \/ Verify \/ RepairSource \/ PassSource \/ Original \/ Late
Janitor == JanitorLists \/ VerdictKeep \/ VerdictDelete \/ HealBlob \/ Delete
World == Moves \/ Shows \/ TimerElapses \/ Ages \/ DeferralEnds \/ MemoEnds
         \/ Arrives \/ Departs \/ Loses \/ Blinds \/ Restart \/ Recover

Next == Worker \/ Poller \/ Janitor \/ World

Spec == Init /\ [][Next]_vars

\* The loops run, calls are bounded, time passes; the mount shows what is on
\* the remote, and VPS1 and the client answer now and then.
Fairness ==
  /\ WF_vars(Worker) /\ WF_vars(Moves) /\ WF_vars(Shows)
  /\ WF_vars(TimerElapses) /\ WF_vars(Ages) /\ SF_vars(DeferralEnds) /\ WF_vars(MemoEnds)
  /\ WF_vars(LateBegin) /\ WF_vars(Verify) /\ SF_vars(RepairSource) /\ WF_vars(PassSource)
  /\ WF_vars(Original) /\ WF_vars(Late)

FairSpec == Spec /\ Fairness

-----------------------------------------------------------------------------
(* Properties.                                                              *)

\* The janitor, on a listing and a verdict of some time ago, never deletes the
\* last copy: the files on VPS1 go only while VPS2 has the content.
LastCopyKept == [][(origin /\ ~origin') => (remote \/ ssd)]_vars

\* No entry is added to the mount for a torrent the mount has no files for,
\* whoever adds it and however long ago the mount was asked.
NoBlindSeed ==
  [][\A h \in Hash : (here[h] # "fuse" /\ here'[h] = "fuse")
                       => (remote /\ h \notin setup.extra)]_vars

\* A racing torrent that a re-add passed over is not left to the cross-seed
\* alone: while VPS1 has it, and nothing cancelled beside it, the poller comes
\* back until it seeds.
SourceSeeds ==
  (row.state = "DONE" /\ ~row.onSsd /\ remote /\ "s" \notin setup.extra /\ "s" \in listed)
    ~> ("s" \in Recorded(row) \/ row.state # "DONE"
         \/ "s" \notin listed \/ listed \cap setup.cancelled # {})

\* No re-add is for ever: it ends in DONE or, a day later, in FAILED.
ReAddEnds == (row.state = "RE_ADDING") ~> (row.state # "RE_ADDING")

\* A lost entry is re-added: a run that ends in DONE leaves the entry of the
\* torrent it was to re-add on the mount.
DoneSeeds ==
  [][(at.worker = "cross" /\ at'.worker = "idle" /\ row.state = "RE_ADDING"
      /\ row'.state = "DONE") => here'[W.blob] = "fuse"]_vars
=============================================================================
