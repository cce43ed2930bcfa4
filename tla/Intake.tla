------------------------------- MODULE Intake -------------------------------
(***************************************************************************)
(* How a release gets in, and which of its copies is downloaded.            *)
(*                                                                          *)
(* One release reaches the daemon as .torrent files dropped into the watch  *)
(* directory and as torrents of the racing client on VPS1, each under its   *)
(* own infohash.  The copies have one save path on the SSD, so only one is  *)
(* to be downloaded and the others are to seed what it brought.  Three      *)
(* rules decide which: the election among drops, the deferral to any copy   *)
(* past admission, and the grace in which a copy of a private tracker waits *)
(* for a preferred one.  All three look at the rows when a worker starts;   *)
(* the worker then searches the indexers for seconds before it admits.      *)
(*                                                                          *)
(* A row past admission is QUEUED or RE_ADDING here; what lies between is   *)
(* the module Pipeline.  Waiting for an indexer is the module IndexerWait.  *)
(***************************************************************************)
EXTENDS States, Naturals, FiniteSets

CONSTANTS
  Drops,   \* infohashes of the release that come by the watch directory
  Racing,  \* infohashes of the release on the racing client
  Rank,    \* Rank[h]: 0 public, 1 a download indexer's tracker, 2 neither
  MaxOps   \* bound: commands of the operator, re-drops and restarts

Hash == Drops \cup Racing

ASSUME HashAssumption == IsFiniteSet(Hash) /\ Drops \cap Racing = {}
ASSUME RankAssumption == Rank \in [Hash -> 0..2]
ASSUME MaxOpsAssumption == MaxOps \in Nat

VARIABLES
  row,       \* row[h]: the state in the database, "none", or "gone": tombstoned and ignored
  born,      \* born[h]: the order in which the drops' rows were created, 0 before
  young,     \* the rows of rank 2 whose preferred-copy grace has not run out
  skipped,   \* the rows under an operator's hold
  forced,    \* the rows with force_direct
  exempt,    \* _grace_exempt
  dropped,   \* the files in the watch directory
  seen,      \* _seen of the scanner
  listed,    \* what the racing client lists
  run,       \* run[h]: the worker of h
  downloads, \* the rows admitted on a reservation that still hold it
  ops        \* the commands given so far

vars == <<row, born, young, skipped, forced, exempt, dropped, seen, listed, run, downloads, ops>>

Waiter == {"NEW", "WAITING_DISK"}
Locked == {"QUEUED", "RE_ADDING"}
RowState == Waiter \cup Locked \cup {"WAITING_INDEXER", "DONE", "FAILED", "none", "gone"}

\* at: where the worker is.  cand: it will hold if nothing better is found.
\* force: the force_direct it read.  fresh: nobody wrote the row since.  Of
\* the history, free: why it may go within the grace (the operator said so,
\* or the bytes are preferred) and behind: the rows past admission when a drop's began.
Idle == [at |-> "idle", cand |-> FALSE, force |-> FALSE, fresh |-> TRUE,
         free |-> FALSE, behind |-> {}]

Run == [at : {"idle", "search", "tail"}, cand : BOOLEAN, force : BOOLEAN, fresh : BOOLEAN,
        free : BOOLEAN, behind : SUBSET Hash]

TypeOK ==
  /\ row \in [Hash -> RowState]
  /\ born \in [Drops -> 0..Cardinality(Drops)]
  /\ young \subseteq Hash /\ skipped \subseteq Hash /\ forced \subseteq Hash
  /\ exempt \subseteq Hash /\ downloads \subseteq Hash
  /\ dropped \subseteq Drops /\ seen \subseteq Drops /\ listed \subseteq Racing
  /\ run \in [Hash -> Run]
  /\ ops \in 0..MaxOps

Init ==
  /\ row = [h \in Hash |-> "none"] /\ born = [h \in Drops |-> 0]
  /\ young = {} /\ skipped = {} /\ forced = {} /\ exempt = {}
  /\ dropped = {} /\ seen = {} /\ listed = {}
  /\ run = [h \in Hash |-> Idle]
  /\ downloads = {} /\ ops = 0

Present(h) == row[h] \notin {"none", "gone"}
Past(h) == row[h] \in Locked
Remote == \E h \in Hash : row[h] = "DONE"

rowVars == <<row, born, young, skipped, forced>>
fileVars == <<dropped, seen>>

\* What a new row of h is, in every place that makes one.
Create(h) ==
  /\ row' = [row EXCEPT ![h] = "NEW"]
  /\ born' = IF h \in Drops
               THEN [born EXCEPT ![h] = 1 + Cardinality({g \in Drops : born[g] # 0})]
               ELSE born
  /\ young' = IF Rank[h] = 2 THEN young \cup {h} ELSE young
  /\ UNCHANGED <<skipped, forced>>

\* Somebody who is not the worker of h wrote the row of h.
Stales(h) == run' = [run EXCEPT ![h].fresh = (@ /\ run[h].at = "idle")]

Operates == ops < MaxOps /\ ops' = ops + 1

-----------------------------------------------------------------------------
(* The two ways in.                                                         *)

\* A file appears; to drop again what the daemon knows counts as a command.
Drop(h) ==
  /\ h \notin dropped
  /\ dropped' = dropped \cup {h}
  /\ IF row[h] = "none" THEN UNCHANGED ops ELSE Operates
  /\ UNCHANGED <<rowVars, exempt, seen, listed, run, downloads>>

\* delete_picked_up: only what the scan consumed, and a duplicate of a DONE row.
PickedUp(h) == dropped' = dropped \ {h} /\ seen' = (seen \cap dropped) \ {h}
LeftThere(h) == seen' = (seen \cap dropped) \cup {h} /\ UNCHANGED dropped

\* scan_once: a resident file is emitted once.
Emitted(h) == h \in dropped \ seen

\* scan_watch: an emitted file becomes a row, revives a FAILED one, resumes a
\* held one, or is left alone.
ScanWatch(h) ==
  /\ Emitted(h)
  /\ \/ /\ row[h] = "none"
        /\ Create(h) /\ PickedUp(h) /\ UNCHANGED run
     \/ /\ row[h] = "FAILED"
        /\ row' = [row EXCEPT ![h] = "NEW"] /\ forced' = forced \ {h}
        /\ UNCHANGED <<born, young, skipped>>
        /\ PickedUp(h) /\ Stales(h)
     \/ /\ Present(h) /\ row[h] # "FAILED" /\ h \in skipped
        /\ skipped' = skipped \ {h} /\ UNCHANGED <<row, born, young, forced>>
        /\ PickedUp(h) /\ Stales(h)
     \/ /\ row[h] = "DONE" /\ h \notin skipped
        /\ PickedUp(h) /\ UNCHANGED <<rowVars, run>>
     \/ /\ \/ row[h] = "gone"
           \/ row[h] \in RowState \ {"none", "gone", "FAILED", "DONE"} /\ h \notin skipped
        /\ LeftThere(h) /\ UNCHANGED <<rowVars, run>>
  /\ UNCHANGED <<exempt, listed, downloads, ops>>

\* The racing client's own life.
Race(r) ==
  /\ listed' = IF r \in listed THEN listed \ {r} ELSE listed \cup {r}
  /\ UNCHANGED <<rowVars, exempt, fileVars, run, downloads, ops>>

\* Fault: only the listed hashes are looked up, not the release's name.
TrackedByHash == \E h \in listed : Present(h)

\* The release is known under the hash of a listed torrent, or by its name.
Tracked == \E h \in Hash : Present(h)

\* One primary is elected per group: a public torrent, else any.
Primary == IF \E r \in listed : Rank[r] = 0 THEN {r \in listed : Rank[r] = 0} ELSE listed

\* _process_source_group: one cancelled hash vetoes the whole group.
PollGroup(r) ==
  /\ r \in Primary
  /\ ~ \E g \in listed : row[g] = "gone"
  /\ ~Tracked
  /\ Create(r)
  /\ UNCHANGED <<exempt, fileVars, listed, run, downloads, ops>>

-----------------------------------------------------------------------------
(* Who may go.                                                              *)

\* _in_preferred_grace of a row that is not preferred itself.
InGrace(h) == h \in young

\* _grace_holds_peer: a waiter that is itself held owns nothing yet.
GraceHolds(g) == row[g] \in Waiter /\ InGrace(g) /\ g \notin exempt

\* Fault: a waiter under an operator's hold still counts.
ContendersHeld(h) ==
  {g \in Drops \ {h} : row[g] \in Waiter \cup Locked /\ ~GraceHolds(g)}

\* The fellow drops that count in the election of h.
Contenders(h) ==
  {g \in Drops \ {h} : /\ row[g] \in Waiter \cup Locked /\ ~GraceHolds(g)
                       /\ ~(g \in skipped /\ row[g] \in Waiter)}

\* The best rank goes first, then the oldest row.
Before(g, h) == Rank[g] < Rank[h] \/ (Rank[g] = Rank[h] /\ born[g] < born[h])

\* _watch_election: whoever is past admission owns the release, else the best waiter.
Elected(h) == \A g \in Contenders(h) : ~Past(g) /\ ~Before(g, h)

\* Fault: a racing row past admission does not count.
InflightDrop(h) == \E g \in Drops \ {h} : Past(g)

\* _inflight_same_content: a copy of any origin is past admission.
Inflight(h) == \E g \in Hash \ {h} : Past(g)

-----------------------------------------------------------------------------
(* The worker.  A run starts with the decisions made on the rows as they    *)
(* are, searches, and admits; it ends idle wherever it gives up.            *)

Begins(h, at, cand, free, behind) ==
  run' = [run EXCEPT ![h] = [at |-> at, cand |-> cand, force |-> h \in forced, fresh |-> TRUE,
                             free |-> free, behind |-> {g \in behind \ {h} : Past(g)}]]

\* A one-shot exemption is taken when it is looked at.
Spent(h) == exempt' = exempt \ {h}

\* _drain_intake and the scheduler: one worker per row, none for a held row.
Spawnable(h) == run[h].at = "idle" /\ h \notin skipped

\* _do_new_watch_dir up to its first wait.  An exempted drop passes the deferral.
StartDrop(h) ==
  /\ h \in Drops /\ row[h] = "NEW" /\ Spawnable(h)
  /\ Elected(h)
  /\ h \in exempt \/ ~Inflight(h)
  /\ Spent(h)
  /\ Begins(h, "search", h \notin exempt /\ InGrace(h),
            Rank[h] = 2 /\ (h \in exempt \/ h \in forced),
            IF h \in exempt THEN Drops ELSE Hash)
  /\ UNCHANGED <<rowVars, fileVars, listed, downloads, ops>>

\* _do_new of a racing row, which asks neither question.
StartRacing(h) ==
  /\ h \in Racing /\ row[h] = "NEW" /\ Spawnable(h)
  /\ Begins(h, "search", FALSE, Rank[h] = 2 /\ h \in forced, {})
  /\ UNCHANGED <<rowVars, exempt, fileVars, listed, downloads, ops>>

\* _do_waiting_indexer of a racing row whose timer has run out.
Wake(h) ==
  /\ h \in Racing /\ row[h] = "WAITING_INDEXER" /\ Spawnable(h)
  /\ ~Inflight(h)
  /\ Begins(h, "search", FALSE, FALSE, Hash)
  /\ UNCHANGED <<rowVars, exempt, fileVars, listed, downloads, ops>>

\* _wait_disk_then_queue: the election again, but not the deferral.
StartParked(h) ==
  /\ row[h] = "WAITING_DISK" /\ Spawnable(h)
  /\ h \in Drops => Elected(h)
  /\ Begins(h, "tail", FALSE, FALSE, IF h \in Drops THEN Drops ELSE {})
  /\ UNCHANGED <<rowVars, exempt, fileVars, listed, downloads, ops>>

GivesUp(h) == run' = [run EXCEPT ![h] = Idle]

\* coordinator.transition: it is refused if the row was written meanwhile.
Moves(h, dst) ==
  /\ GivesUp(h)
  /\ IF run[h].fresh /\ LegalMove(row[h], dst)
       THEN row' = [row EXCEPT ![h] = dst] ELSE UNCHANGED row
  /\ UNCHANGED <<born, young, skipped, forced>>

\* Fault: nobody better is in sight, so there is nothing to wait for.
HoldsInSight(h, found) ==
  /\ run[h].cand /\ ~found /\ ~run[h].force /\ InGrace(h)
  /\ \E g \in Drops : Rank[g] < 2 /\ row[g] \in Waiter

\* A drop holds while it is a candidate, nothing preferred was found and the
\* grace still runs.
Holds(h, found) == run[h].cand /\ ~found /\ ~run[h].force /\ InGrace(h)

\* The search of a drop has answered.  Only a copy that is neither public
\* nor a download indexer's is looked up at the download indexers.
SearchedDrop(h) ==
  /\ h \in Drops /\ run[h].at = "search"
  /\ \/ \E found \in IF Rank[h] = 2 /\ ~run[h].force THEN BOOLEAN ELSE {FALSE} :
          /\ IF Holds(h, found) THEN GivesUp(h)
             ELSE run' = [run EXCEPT ![h].at = "tail", ![h].free = @ \/ found]
          /\ UNCHANGED rowVars
     \/ Moves(h, "FAILED")       \* a file larger than the SSD takes
  /\ UNCHANGED <<exempt, fileVars, listed, downloads, ops>>

\* _fetch_source_or_fail and _pick_and_admit of a racing row: the source
\* lookup missed; nothing found, park or give up; found, preferred or not.
\* The exemption is looked at last.
SearchedRacing(h) ==
  /\ h \in Racing /\ run[h].at = "search"
  /\ \/ GivesUp(h) /\ UNCHANGED <<rowVars, exempt>>
     \/ IF row[h] = "WAITING_INDEXER" THEN GivesUp(h) /\ UNCHANGED <<rowVars, exempt>>
        ELSE Moves(h, "WAITING_INDEXER") /\ UNCHANGED exempt
     \/ Moves(h, "FAILED") /\ UNCHANGED exempt
     \/ \E preferred \in IF Rank[h] < 2 THEN {TRUE} ELSE BOOLEAN :
          /\ Spent(h)
          /\ IF /\ row[h] = "NEW" /\ ~run[h].force /\ h \notin exempt
                /\ ~preferred /\ InGrace(h)
               THEN GivesUp(h)
               ELSE run' = [run EXCEPT ![h].at = "tail",
                                       ![h].free = Rank[h] = 2 /\ (@ \/ preferred \/ h \in exempt)]
          /\ UNCHANGED rowVars
  /\ UNCHANGED <<fileVars, listed, downloads, ops>>

\* Fault: a worker whose row was written meanwhile is not refused.
AdmitsStale(h, dst) ==
  /\ GivesUp(h)
  /\ row' = [row EXCEPT ![h] = dst]
  /\ UNCHANGED <<born, young, skipped, forced>>

Admits(h, dst) == Moves(h, dst)

\* _ssd_prune_stale, at every reservation: an exemption of a row that is not
\* NEW any more is dropped.
PruneExempt == exempt' = {g \in exempt : row[g] = "NEW"}

\* _admit_resolved: QUEUED without budget when the bytes are remote, on a
\* reservation, or WAITING_DISK.  A refused move gives the reservation back.
Admit(h) ==
  /\ run[h].at = "tail"
  /\ \/ /\ row[h] # "WAITING_DISK" /\ Remote
        /\ Admits(h, "QUEUED") /\ UNCHANGED <<downloads, exempt>>
     \/ /\ Admits(h, "QUEUED")
        /\ downloads' = IF row'[h] = "QUEUED" THEN downloads \cup {h} ELSE downloads
        /\ PruneExempt
     \/ /\ IF row[h] = "WAITING_DISK" THEN GivesUp(h) /\ UNCHANGED rowVars
           ELSE Admits(h, "WAITING_DISK")
        /\ PruneExempt /\ UNCHANGED downloads
  /\ UNCHANGED <<fileVars, listed, ops>>

\* The rest of the pipeline, which moves a row that is past admission.
Works(h, dst) ==
  /\ Spawnable(h)
  /\ \/ row[h] = "QUEUED" /\ dst \in {"RE_ADDING", "WAITING_DISK", "FAILED"}
     \/ row[h] = "RE_ADDING" /\ dst \in {"DONE", "FAILED"}
  /\ row' = [row EXCEPT ![h] = dst]
  /\ downloads' = downloads \ {h}
  /\ UNCHANGED <<born, young, skipped, forced, exempt, fileVars, listed, run, ops>>

-----------------------------------------------------------------------------
(* Time, the operator, restarts.                                            *)

GraceEnds(h) ==
  /\ h \in young
  /\ young' = young \ {h}
  /\ UNCHANGED <<row, born, skipped, forced, exempt, fileVars, listed, run, downloads, ops>>

\* _prefer_watch_row, _prefer_racing_row: refused outside the grace, and for
\* a drop that waits for another.
Preferable(h) == InGrace(h) /\ (h \in Drops => Elected(h))

\* prefer_grace_row.
Prefer(h) ==
  /\ row[h] = "NEW" /\ h \notin skipped /\ Preferable(h)
  /\ exempt' = exempt \cup {h} /\ Operates
  /\ UNCHANGED <<rowVars, fileVars, listed, run, downloads>>

\* Telegram /fetch on a NEW row: a narrow write of force_direct.
Fetch(h) ==
  /\ row[h] = "NEW" /\ h \notin skipped \cup forced
  /\ forced' = forced \cup {h} /\ Stales(h) /\ Operates
  /\ UNCHANGED <<row, born, young, skipped, exempt, fileVars, listed, downloads>>

\* Telegram /skip and /unskip.
Hold(h) ==
  /\ Present(h)
  /\ skipped' = IF h \in skipped THEN skipped \ {h} ELSE skipped \cup {h}
  /\ Stales(h) /\ Operates
  /\ UNCHANGED <<row, born, young, forced, exempt, fileVars, listed, downloads>>

\* Forget with remember: tombstone, ignore list, and the budget is pruned.
Cancel(h) ==
  /\ Present(h)
  /\ row' = [row EXCEPT ![h] = "gone"]
  /\ skipped' = skipped \ {h} /\ forced' = forced \ {h} /\ young' = young \ {h}
  /\ downloads' = downloads \ {h}
  /\ Stales(h) /\ Operates
  /\ UNCHANGED <<born, exempt, fileVars, listed>>

\* The process ends and comes back: workers and the maps in memory are lost.
Restart ==
  /\ Operates
  /\ run' = [h \in Hash |-> Idle] /\ exempt' = {} /\ seen' = {}
  /\ UNCHANGED <<rowVars, dropped, listed, downloads>>

-----------------------------------------------------------------------------
Next ==
  \/ \E h \in Drops : Drop(h) \/ ScanWatch(h) \/ StartDrop(h) \/ SearchedDrop(h)
  \/ \E r \in Racing :
       Race(r) \/ PollGroup(r) \/ StartRacing(r) \/ Wake(r) \/ SearchedRacing(r)
  \/ \E h \in Hash :
       \/ StartParked(h) \/ Admit(h) \/ \E dst \in State : Works(h, dst)
       \/ GraceEnds(h) \/ Prefer(h) \/ Fetch(h) \/ Hold(h) \/ Cancel(h)
  \/ Restart

Spec == Init /\ [][Next]_vars

-----------------------------------------------------------------------------
(* Properties.                                                              *)

\* h is admitted on a reservation, so it will be downloaded.
Downloads(h) == h \in downloads' \ downloads

\* Two copies are downloaded only when their workers overlapped: a drop, or a
\* racing row back from the indexer wait, does not begin a download beside a
\* copy that was past admission when its worker began and still is.  What is
\* left of the promise of one downloader per release.
DuplicatesOnlyFromOverlap ==
  [][\A h \in Hash : Downloads(h) => \A g \in run[h].behind : ~Past(g)]_vars

\* Within its grace a copy that is not preferred leaves NEW for admission
\* only when the operator let it or its search found preferred bytes, and
\* one word of the operator serves one run.
GraceRespected ==
  [][\A h \in Hash :
       (row[h] = "NEW" /\ row'[h] \in {"QUEUED", "WAITING_DISK"} /\ InGrace(h)) => run[h].free]_vars

\* A hold takes effect even on a worker that is searching: no row under a
\* hold is admitted.
HeldStaysOut ==
  [][\A h \in skipped : row'[h] \in Locked => row[h] \in Locked]_vars

\* The racing torrents of a release share one row, however the client's list
\* changes.
OneRacingRow == Cardinality({r \in Racing : Present(r)}) <= 1

\* Nobody waits on somebody who cannot go: while no copy is past admission,
\* one of the drops that wait and are not frozen is let go by the election,
\* whoever else is frozen or held.
SomebodyMayGo ==
  LET waiting == {h \in Drops : row[h] \in Waiter /\ h \notin skipped}
  IN  (waiting # {} /\ ~ \E g \in Hash : Past(g)) => \E h \in waiting : Elected(h)

\* "elect ONE downloader; the rest defer until it is DONE/FAILED/gone".
OneDownloader == Cardinality(downloads \cap Drops) <= 1
=============================================================================
