---------------------------- MODULE IndexerWait ----------------------------
(***************************************************************************)
(* The row of one racing torrent until it is admitted: looked up on VPS1,   *)
(* adopted if it already seeds from the mount, picked a source for, parked  *)
(* in WAITING_INDEXER, woken by its timers, and given up when the window of *)
(* the first query has passed.                                              *)
(*                                                                          *)
(* Two actors work on it without a lock between them: its worker, and the   *)
(* sweep of the source poller, which skips rows that have a worker when it  *)
(* begins.  Each holds a copy of the row across its awaits; upsert writes a *)
(* copy back whole, transition only when nobody wrote since it was read.    *)
(*                                                                          *)
(* Time is three values: a clock that is young and then spent, and timers   *)
(* that are set and then due.  QUEUED stands for every admitted state.      *)
(***************************************************************************)
EXTENDS States, Naturals

CONSTANTS
  Surroundings, \* the torrents and configurations looked at
  MaxEvents     \* bound: what the operator and the clients do unasked

\* public:    a copy of the release on VPS1 is public, so indexers are not asked
\* fallback:  fallback_to_racing_torrent_on_prowlarr_timeout
\* queryable: _prowlarr_query_possible
Surrounding == [public : BOOLEAN, fallback : BOOLEAN, queryable : BOOLEAN]

ASSUME SurroundingsAssumption == Surroundings \subseteq Surrounding
ASSUME MaxEventsAssumption == MaxEvents \in Nat

VARIABLES
  around,   \* the configuration; never changed
  row,      \* the row in the database
  mem,      \* mem[x]: the copy actor x holds
  fresh,    \* fresh[x]: nobody else wrote the row since x read it
  at,       \* at[x]: what x awaits
  woken,    \* the worker's run began in WAITING_INDEXER
  direct,   \* the worker's run engaged the fallback
  misses,   \* _source_miss_counts of the row
  listed,   \* the racing client has the torrent
  cached,   \* the poller's snapshot has it
  seeds,    \* an entry added by hand seeds it from the mount
  entry,    \* another entry of it on the SSD client: none, loading, complete
  leader,   \* a copy of the release is past admission
  events    \* what happened unasked so far

vars == <<around, row, mem, fresh, at, woken, direct, misses,
          listed, cached, seeds, entry, leader, events>>

Actor == {"worker", "sweep"}

\* clock: since indexer_first_queried_at.  timer: indexer_next_retry_at.
\* ptimer: public_export_next_retry_at.  kind: classification_kind is known.
\* src: cross_seed_source, the racing client's own bytes or a cross-seed's.
Row == [state : {"NEW", "WAITING_INDEXER", "QUEUED", "DONE", "FAILED"},
        force : BOOLEAN, clock : {"none", "young", "spent"},
        timer : {"none", "set", "due"}, ptimer : {"none", "set", "due"},
        kind : BOOLEAN, held : BOOLEAN, src : {"none", "own", "cross", "supplied", "ssd"}]

NewRow == [state |-> "NEW", force |-> FALSE, clock |-> "none", timer |-> "none",
           ptimer |-> "none", kind |-> FALSE, held |-> FALSE, src |-> "none"]

WorkerPlace == {"idle", "lookup", "fuse", "adopt", "ssd", "pick", "direct", "supplied"}
SweepPlace == {"idle", "list", "fuse", "adopt"}

TypeOK ==
  /\ around \in Surroundings
  /\ row \in Row /\ mem \in [Actor -> Row] /\ fresh \in [Actor -> BOOLEAN]
  /\ at \in [Actor -> WorkerPlace \cup SweepPlace]
  /\ at["worker"] \in WorkerPlace /\ at["sweep"] \in SweepPlace
  /\ woken \in BOOLEAN /\ direct \in BOOLEAN /\ misses \in 0..2
  /\ listed \in BOOLEAN /\ cached \in BOOLEAN /\ seeds \in BOOLEAN /\ leader \in BOOLEAN
  /\ entry \in {"none", "loading", "complete"} /\ events \in 0..MaxEvents

Init ==
  /\ around \in Surroundings
  /\ row = NewRow /\ mem = [x \in Actor |-> NewRow] /\ fresh = [x \in Actor |-> FALSE]
  /\ at = [x \in Actor |-> "idle"] /\ woken = FALSE /\ direct = FALSE
  /\ misses = 0 /\ listed = TRUE /\ cached = FALSE
  /\ seeds = FALSE /\ entry = "none" /\ leader = FALSE /\ events = 0

world == <<around, listed, cached, seeds, entry, leader, events>>

Goes(x, where) == at' = [at EXCEPT ![x] = where]

Waiting == "WAITING_INDEXER"
PreSsd == {"NEW", Waiting}

-----------------------------------------------------------------------------
(* Writing the row.                                                         *)

Reads(x) == mem' = [mem EXCEPT ![x] = row] /\ fresh' = [fresh EXCEPT ![x] = TRUE]

\* store.upsert: the whole copy, whatever the row is by now.
Upsert(x, r) ==
  /\ row' = r
  /\ mem' = [mem EXCEPT ![x] = r]
  /\ fresh' = [y \in Actor |-> y = x]

\* Fault: the state is compared, the version is not.
LandsByState(x, r, dst) == row.state = mem[x].state /\ LegalMove(r.state, dst)

\* Whether transition() of a copy lands: by version, and by the table.
Lands(x, r, dst) == fresh[x] /\ LegalMove(r.state, dst)

\* coordinator.transition: a refusal leaves the row alone and is raised.
Transition(x, r, dst) ==
  IF Lands(x, r, dst)
    THEN Upsert(x, [r EXCEPT !.state = dst])
    ELSE UNCHANGED <<row, mem, fresh>>

\* _park_for_public_retry and _park_for_indexer_retry agree on this: the
\* state is entered, or its timer written.
Parked(r) == IF r.state = Waiting THEN Upsert("worker", r) ELSE Transition("worker", r, Waiting)

\* _park_for_indexer_retry; of reason "source export miss" it is the public
\* schedule, without the clock.
Park(r, reason) ==
  IF reason = "export" THEN Parked([r EXCEPT !.ptimer = "set"])
  ELSE LET q == [r EXCEPT !.timer = "set", !.clock = IF @ = "none" THEN "young" ELSE @]
       IN  IF q.clock = "spent" THEN Transition("worker", q, "FAILED") ELSE Parked(q)

-----------------------------------------------------------------------------
(* The worker of a racing row: _do_new and _do_waiting_indexer.             *)

Mine == mem["worker"]
Ends == Goes("worker", "idle")
Keep == UNCHANGED <<row, mem, fresh>>

\* Fault: the public schedule is not scanned.
ReadyIndexer == row.timer = "due"

\* list_waiting_ready: either schedule wakes the row.
Ready == "due" \in {row.timer, row.ptimer}

\* Spawned for a NEW row, or woken by a timer.
Begin ==
  /\ at["worker"] = "idle" /\ ~row.held
  /\ \/ row.state = "NEW" /\ Goes("worker", "lookup")
     \/ row.state = Waiting /\ Ready /\ Goes("worker", "fuse")
  /\ Reads("worker")
  /\ woken' = (row.state = Waiting) /\ direct' = FALSE
  /\ UNCHANGED <<row, misses, world>>

\* A row that was parked defers to a copy past admission: one interval more
\* on the schedule it is parked on, neither the attempts nor the clock touched.
Deferred(r) ==
  IF r.ptimer # "none" /\ r.timer = "none" THEN [r EXCEPT !.ptimer = "set"]
                                           ELSE [r EXCEPT !.timer = "set"]

AfterLookup ==
  IF ~woken THEN Goes("worker", "fuse")
  ELSE IF leader THEN Ends ELSE Goes("worker", "pick")

\* _fetch_source_or_fail with an answer: seen in the snapshot or alive, or
\* unseen; the third time in a row, parked for a cross-seed or failed.
Look ==
  /\ at["worker"] = "lookup"
  /\ \/ /\ cached \/ listed
        /\ misses' = 0 /\ AfterLookup
        /\ IF woken /\ leader THEN Upsert("worker", Deferred(Mine)) ELSE Keep
     \/ /\ ~cached /\ ~listed /\ misses < 2
        /\ misses' = misses + 1 /\ Ends /\ Keep
     \/ /\ ~cached /\ ~listed /\ misses = 2
        /\ misses' = 0
        /\ IF around.queryable
             THEN /\ Park(Mine, "indexer")
                  /\ IF fresh'["worker"] THEN AfterLookup ELSE Ends
             ELSE Transition("worker", Mine, "FAILED") /\ Ends
  /\ UNCHANGED <<woken, direct, world>>

\* The lookup hangs until its bound, which changes nothing, or the client
\* refuses it, which the worker's handler takes for a failure of the row.
LookFails ==
  /\ at["worker"] = "lookup" /\ ~cached /\ Ends
  /\ Keep \/ Transition("worker", Mine, "FAILED")
  /\ UNCHANGED <<woken, direct, misses, world>>

AfterFuse(x) ==
  Goes(x, IF x = "sweep" THEN "idle" ELSE IF woken THEN "ssd" ELSE "pick")

\* _adopt_manual_fuse_if_present and _verify_and_adopt_manual_fuse up to the
\* injection of the racing torrents: absent or unverified, or the kind saved.
Fuse(x) ==
  /\ at[x] = "fuse"
  /\ \/ AfterFuse(x) /\ Keep
     \/ /\ seeds /\ mem[x].state \in PreSsd
        /\ Goes(x, "adopt")
        /\ IF mem[x].kind THEN Keep ELSE Upsert(x, [mem[x] EXCEPT !.kind = TRUE])
  /\ UNCHANGED <<woken, direct, misses, world>>

\* The rest of it: DONE, or if that is refused the ordinary way.
Adopt(x) ==
  /\ at[x] = "adopt"
  /\ Transition(x, mem[x], "DONE")
  /\ IF Lands(x, mem[x], "DONE") THEN Goes(x, "idle") ELSE AfterFuse(x)
  /\ UNCHANGED <<woken, direct, misses, world>>

\* The shortcut over an entry on the SSD client; without the bytes of its
\* torrent a complete one is passed over.
Ssd ==
  /\ at["worker"] = "ssd"
  /\ \/ Goes("worker", "lookup") /\ Keep
     \/ /\ entry = "complete" \/ seeds
        /\ Transition("worker", [Mine EXCEPT !.src = "ssd"], "QUEUED")
        /\ IF Lands("worker", Mine, "QUEUED") THEN Ends ELSE Goes("worker", "lookup")
     \/ /\ entry = "loading"
        /\ Upsert("worker", [Mine EXCEPT !.timer = "set"]) /\ Ends
  /\ UNCHANGED <<woken, direct, misses, world>>

Reason == IF ~woken /\ around.public THEN "export" ELSE "indexer"

\* _prowlarr_timed_out, and what else the fallback asks.
FallsBack(r) ==
  Reason = "indexer" /\ around.fallback /\ ~r.force /\ r.clock = "spent"

\* Fault: the window of the first query goes on.
WindowKept(r) == [r EXCEPT !.force = TRUE]

\* The fallback opens a window of its own.
Window(r) == [r EXCEPT !.force = TRUE, !.clock = "young"]

\* Fault: a query that finds nothing falls through to the own bytes.
PickedEagerly(r) ==
  IF around.public THEN {"own", "none"}
  ELSE IF around.queryable /\ ~r.force THEN {"cross", "own", "none"} ELSE {"own", "none"}

\* pick_ssd_source_for_racing: the own bytes of a public torrent; for a
\* private one a cross-seed, and its own bytes only when no query is made.
Picked(r) ==
  IF around.public THEN {"own", "none"}
  ELSE IF around.queryable /\ ~r.force THEN {"cross", "none"} ELSE {"own", "none"}

Admits(src) == Transition("worker", [Mine EXCEPT !.src = src], "QUEUED") /\ Ends

\* _pick_and_admit: a source is found, and admitted or held for the grace;
\* or none is, and the racing client's own bytes are tried once the window
\* has passed, then what the operator supplied.
Pick ==
  /\ at["worker"] = "pick"
  /\ \E src \in Picked(Mine) :
       \/ src # "none" /\ Admits(src) /\ UNCHANGED direct
       \/ /\ src = "own" /\ ~around.public /\ Mine.state = "NEW" /\ ~Mine.force
          /\ Ends /\ Keep /\ UNCHANGED direct
       \/ /\ src = "none" /\ FallsBack(Mine)
          /\ Upsert("worker", Window(Mine)) /\ Goes("worker", "direct") /\ direct' = TRUE
       \/ /\ src = "none" /\ ~FallsBack(Mine)
          /\ Goes("worker", "supplied") /\ Keep /\ UNCHANGED direct
  /\ UNCHANGED <<woken, misses, world>>

PickDirect ==
  /\ at["worker"] = "direct"
  /\ \E src \in Picked(Mine) :
       IF src = "none" THEN Goes("worker", "supplied") /\ Keep ELSE Admits(src)
  /\ UNCHANGED <<woken, direct, misses, world>>

Supplied ==
  /\ at["worker"] = "supplied"
  /\ Admits("supplied") \/ (Park(Mine, Reason) /\ Ends)
  /\ UNCHANGED <<woken, direct, misses, world>>

-----------------------------------------------------------------------------
(* The sweep of the poller: _sweep_manual_fuse_adoptions.                   *)

SweepBegins ==
  /\ at["sweep"] = "idle" /\ at["worker"] = "idle" /\ row.state \in PreSsd
  /\ Reads("sweep") /\ Goes("sweep", "list")
  /\ UNCHANGED <<row, woken, direct, misses, world>>

\* The client has listed the entries; the row is read again.
SweepListed ==
  /\ at["sweep"] = "list"
  /\ IF seeds /\ row.state = mem["sweep"].state /\ ~row.held
       THEN Reads("sweep") /\ Goes("sweep", "fuse")
       ELSE Goes("sweep", "idle") /\ UNCHANGED <<mem, fresh>>
  /\ UNCHANGED <<row, woken, direct, misses, world>>

-----------------------------------------------------------------------------
(* Time, the operator, the clients.                                         *)

rest == <<fresh, at, woken, direct, misses, world>>

\* Time passes over every copy of a timestamp alike.
TimerElapses ==
  LET due(r) == IF r.timer = "set" THEN [r EXCEPT !.timer = "due"] ELSE r
      pdue(r) == IF r.ptimer = "set" THEN [r EXCEPT !.ptimer = "due"] ELSE r
  IN  /\ \/ /\ row.timer = "set"
            /\ row' = due(row) /\ mem' = [x \in Actor |-> due(mem[x])]
         \/ /\ row.ptimer = "set"
            /\ row' = pdue(row) /\ mem' = [x \in Actor |-> pdue(mem[x])]
      /\ UNCHANGED rest

\* A window of hours outlasts the bounded calls of the run that opened it.
ClockElapses ==
  LET spent(r) == IF r.clock = "young" THEN [r EXCEPT !.clock = "spent"] ELSE r
  IN  /\ row.clock = "young" /\ (direct => at["worker"] = "idle")
      /\ row' = spent(row) /\ mem' = [x \in Actor |-> spent(mem[x])]
      /\ UNCHANGED rest

Unasked == events < MaxEvents /\ events' = events + 1

\* Somebody else writes the row.
Written(r) ==
  /\ Unasked
  /\ row' = r /\ fresh' = [x \in Actor |-> FALSE]
  /\ UNCHANGED <<mem, at, woken, direct, misses, around, listed, cached, seeds, entry, leader>>

\* Telegram /fetch.
Fetch ==
  /\ ~row.held
  /\ \/ row.state = Waiting
        /\ Written([row EXCEPT !.force = TRUE, !.clock = "young", !.timer = "due"])
     \/ row.state = "NEW" /\ Written([row EXCEPT !.force = TRUE])

\* /skip and /unskip.
Hold == row.state \in PreSsd /\ Written([row EXCEPT !.held = ~@])

\* revive_failed_row.
Revive ==
  row.state = "FAILED" /\ Written([NewRow EXCEPT !.kind = row.kind, !.held = row.held,
                                                 !.src = row.src])

book == <<row, mem, fresh, at, woken, direct, misses, around>>

\* The racing torrent goes or comes back; the operator adds it on VPS2 by
\* hand, on the mount or on the SSD; another copy is admitted.
Happens ==
  /\ Unasked
  /\ \/ listed' = ~listed /\ UNCHANGED <<cached, seeds, entry, leader>>
     \/ seeds' = TRUE /\ ~seeds /\ UNCHANGED <<listed, cached, entry, leader>>
     \/ entry' = "loading" /\ entry = "none" /\ UNCHANGED <<listed, cached, seeds, leader>>
     \/ leader' = TRUE /\ ~leader /\ UNCHANGED <<listed, cached, seeds, entry>>
  /\ UNCHANGED book

\* The poller lists the racing client.
Polls ==
  /\ cached # listed /\ cached' = listed
  /\ UNCHANGED <<book, listed, seeds, entry, leader, events>>

Loads ==
  /\ entry = "loading" /\ entry' = "complete"
  /\ UNCHANGED <<book, listed, cached, seeds, leader, events>>

LeaderGoes ==
  /\ leader /\ leader' = FALSE
  /\ UNCHANGED <<book, listed, cached, seeds, entry, events>>

-----------------------------------------------------------------------------
Answers == (\E x \in Actor : Fuse(x) \/ Adopt(x)) \/ Ssd \/ Pick \/ PickDirect \/ Supplied

Next ==
  \/ Begin \/ Look \/ LookFails \/ Answers \/ SweepBegins \/ SweepListed
  \/ TimerElapses \/ ClockElapses
  \/ Fetch \/ Hold \/ Revive \/ Happens \/ Polls \/ Loads \/ LeaderGoes

Spec == Init /\ [][Next]_vars

\* The scheduler wakes the row, calls are bounded, time passes; VPS1 answers
\* now and then, the SSD client finishes, and the copy ahead does not stay
\* past admission for ever.
Fairness ==
  /\ WF_vars(Begin) /\ SF_vars(Look) /\ WF_vars(LookFails) /\ WF_vars(Ssd)
  /\ WF_vars(Pick) /\ WF_vars(PickDirect) /\ WF_vars(Supplied)
  /\ \A x \in Actor : WF_vars(Fuse(x)) /\ WF_vars(Adopt(x))
  /\ WF_vars(SweepListed) /\ WF_vars(TimerElapses) /\ WF_vars(ClockElapses)
  /\ WF_vars(Polls) /\ WF_vars(Loads) /\ WF_vars(LeaderGoes)

FairSpec == Spec /\ Fairness

-----------------------------------------------------------------------------
(* Properties.                                                              *)

\* The worker's run has given its row up and goes on: it may yet admit it, and
\* it may write its copy back.
GaveUp == mem["worker"].state = "FAILED"

\* A wait is given up only when its window has passed, or by the lookup on
\* VPS1: an actor whose copy is older than a window the operator opened with
\* /fetch does not close it, but for a run that had given the row up before.
WindowRespected ==
  [][(row.state = Waiting /\ row'.state = "FAILED")
       => (row.clock = "spent" \/ at["worker"] = "lookup" \/ GaveUp)]_vars

\* The run that falls back to the racing client's bytes does not end in
\* FAILED: one miss at the deadline leaves the direct attempts their window.
DirectWindowOpen ==
  [][(direct /\ at["worker"] # "lookup" /\ row.state = Waiting) => row'.state # "FAILED"]_vars

\* The private swarm of a torrent that indexers can be asked for is leeched
\* only on the word of the operator or of the fallback, and the row says so.
LeechesOnlyOnWord ==
  [][(row'.state = "QUEUED" /\ row.state # "QUEUED" /\ row'.src = "own"
      /\ ~around.public /\ around.queryable) => row'.force]_vars

\* No wait is for ever: a parked row that nobody holds is admitted, adopted
\* or given up, whatever goes and comes on the clients.
WaitEnds == (row.state = Waiting) ~> (row.state # Waiting \/ row.held)

\* "No max-age clock here: the source torrent still exists on VPS1, so giving
\* up would kill a recoverable row": the row of a public torrent that is
\* listed is not given up by the clock.
PublicNeverGivesUp ==
  [][(around.public /\ listed /\ row.state = Waiting /\ at["worker"] # "lookup")
       => row'.state # "FAILED"]_vars
=============================================================================
