----------------------------- MODULE SsdLedger -----------------------------
(***************************************************************************)
(* The global SSD reservation ledger (coordinator_ssd.py) and everything    *)
(* in the coordinator that reserves, refines or drops a reservation.        *)
(*                                                                          *)
(* The ledger is a dict in the memory of one asyncio process.  Code between *)
(* two awaits is one step; the awaits that matter are the database read of  *)
(* _ssd_prune_stale, the SSD lock, the count of active downloads on a       *)
(* WAITING_DISK promotion, the disk probe of a growing adjust and the whole *)
(* download of a RE_ADDING heal.  The CLI's forget is another process: it   *)
(* removes rows, never reservations.                                        *)
(*                                                                          *)
(* coordinator.transition moves a row and drops its reservation.  The API's *)
(* retry and recover write the row past it, recover while the worker of the *)
(* row may be under way; that worker goes on with what it has in memory     *)
(* until a transition of it is refused or an upsert of it wins.             *)
(***************************************************************************)
EXTENDS States, Integers, FiniteSetsExt

CONSTANTS
  Hashes,       \* the torrents
  Cap,          \* ssd.max_inflight_bytes, in units
  Estimate,     \* Estimate[h] = min(total bytes, Cap): what admission asks first
  Footprint,    \* Footprint[h]: the largest batch, known from the .torrent or after the add
  NoHash,       \* the holder of a free lock
  MaxRestarts,  \* bound on the restarts of the process
  MaxRecovers   \* bound on the rows that POST /api/recover acts on

ASSUME HashesAssumption == IsFiniteSet(Hashes)
ASSUME CapAssumption == Cap \in Nat \ {0}
ASSUME SizeAssumption == Estimate \in [Hashes -> 1..Cap] /\ Footprint \in [Hashes -> 1..Cap]
ASSUME RestartAssumption == NoHash \notin Hashes /\ MaxRestarts \in Nat /\ MaxRecovers \in Nat

VARIABLES
  row,       \* row[h]: the state in the database, "GONE" when there is none
  ledger,    \* ledger[h]: bytes reserved, 0 for no entry (_ssd_reserved)
  client,    \* client[h]: the SSD client has an entry for h
  work,      \* work[h]: the worker of h and what it waits for
  lock,      \* the holder of _ssd_lock
  orphan,    \* orphan[h]: the state recover read of a row whose entry it adds again
  astray,    \* astray[h]: the state in the memory of a worker whose row another wrote
  past,      \* history: the rows put where they hold nothing by a write past the ledger
  restarts, recovers

vars == <<row, ledger, client, work, lock, orphan, astray, past, restarts, recovers>>

RowState == State \cup {"GONE"}

\* What the worker of h awaits: nothing, the prune's read, the lock of an
\* admission, the count of active downloads, the disk probe of a grow, the
\* end of a heal's download.
Pcs == {"idle", "prune", "admit", "recount", "grow", "heal"}

Idle == [pc |-> "idle", ask |-> 0, stale |-> {}]

TypeOK ==
  /\ row \in [Hashes -> RowState]
  /\ ledger \in [Hashes -> 0..Cap]
  /\ client \in [Hashes -> BOOLEAN]
  /\ work \in [Hashes -> [pc : Pcs, ask : 0..Cap, stale : SUBSET Hashes]]
  /\ lock \in Hashes \cup {NoHash}
  /\ orphan \in [Hashes -> {"NONE", "QUEUED", "DOWNLOADING"}]
  /\ astray \in [Hashes -> State \cup {"NONE"}]
  /\ past \subseteq Hashes
  /\ restarts \in 0..MaxRestarts /\ recovers \in 0..MaxRecovers

Init ==
  /\ row = [h \in Hashes |-> "GONE"]
  /\ ledger = [h \in Hashes |-> 0]
  /\ client = [h \in Hashes |-> FALSE]
  /\ work = [h \in Hashes |-> Idle]
  /\ lock = NoHash
  /\ orphan = [h \in Hashes |-> "NONE"]
  /\ astray = [h \in Hashes |-> "NONE"]
  /\ past = {}
  /\ restarts = 0 /\ recovers = 0

-----------------------------------------------------------------------------
(* The ledger.                                                              *)

Total(L) == MapThenSumSet(LAMBDA h : L[h], Hashes)

\* The one budget check of try_reserve: an entry h already has is not
\* discounted.
Fits(L, amount) == Total(L) + amount <= Cap

\* Fault: the entry being replaced counts as the whole of the budget in use.
FitsAlone(h, amount) == amount <= Cap

\* adjust discounts the entry it replaces.
FitsInstead(h, amount) == Total(ledger) - ledger[h] + amount <= Cap

LockFree == lock = NoHash

Without(L, h) == [L EXCEPT ![h] = 0]

\* Fault: FAILED is forgotten.
ReleasingButFailed == {"WAITING_DISK", "RE_ADDING", "DONE"}

\* coordinator.transition: the states that give the reservation up.
Releasing == {"WAITING_DISK", "RE_ADDING", "DONE", "FAILED"}

\* The row of h moves to dst, with L the ledger the caller leaves behind.
MoveRow(h, dst, L) ==
  /\ row' = [row EXCEPT ![h] = dst]
  /\ ledger' = IF dst \in Releasing THEN Without(L, h) ELSE L
  /\ past' = past \ {h}

\* store.transition or store.upsert: the row of h is dst, the ledger is L
\* whatever dst is.
WritePast(h, dst, L) ==
  /\ row' = [row EXCEPT ![h] = dst]
  /\ ledger' = L
  /\ past' = IF dst \in Releasing THEN past \cup {h} ELSE past \ {h}

\* The worker of h does something that moves no row.
StayPut(L) == ledger' = L /\ UNCHANGED <<row, past>>

\* Recover, the workers that are astray and the counters are left alone.
NobodyElse == UNCHANGED <<orphan, astray, restarts, recovers>>

Rest(h) == work' = [work EXCEPT ![h] = Idle]

Await(h, pc, ask) == work' = [work EXCEPT ![h] = [pc |-> pc, ask |-> ask, stale |-> {}]]

\* The worker of h, or whoever acts on the row, finds it in one of states.
Ready(h, states) == work[h].pc = "idle" /\ astray[h] = "NONE" /\ row[h] \in states

-----------------------------------------------------------------------------
(* Admission: try_reserve and its callers.                                  *)

\* The rows _ssd_prune_stale reads: the ledger's and the quiet-waiting ones.
Collected == {k \in Hashes : ledger[k] > 0 \/ row[k] = "WAITING_DISK"}

\* Fault: the entries of rows that are gone are kept.
StaleButGone == {k \in Collected : row[k] \notin OnSsd \cup {"GONE"}}

\* Those whose row is not on the SSD: what they hold is dropped.
Stale == {k \in Collected : row[k] \notin OnSsd}

\* _admit_resolved (NEW), _wait_disk_then_queue (WAITING_DISK, which falls
\* back from the estimate to the footprint) and the heal of _do_re_add call
\* try_reserve, which first prunes: the rows are read in a thread.
Ask(h, amount) ==
  /\ Ready(h, {"NEW", "WAITING_DISK", "RE_ADDING"})
  /\ amount \in {Estimate[h], Footprint[h]}
  /\ work' = [work EXCEPT ![h] = [pc |-> "prune", ask |-> amount, stale |-> Stale]]
  /\ UNCHANGED <<row, ledger, client, lock, past>> /\ NobodyElse

\* What the prune leaves of ledger L.
Pruned(L, stale) == [k \in Hashes |-> IF k \in stale THEN 0 ELSE L[k]]

\* Under the lock: the budget and the disk have room for h.
Grant(h, L) ==
  LET reserved == [L EXCEPT ![h] = work[h].ask] IN
  /\ Fits(L, work[h].ask)
  /\ \/ row[h] = "NEW" /\ MoveRow(h, "QUEUED", reserved) /\ Rest(h)
     \/ /\ row[h] = "WAITING_DISK"
        /\ Await(h, "recount", 0)
        /\ StayPut(reserved)
     \/ /\ row[h] = "RE_ADDING"
        /\ Await(h, "heal", work[h].ask)
        /\ StayPut(reserved)
     \/ \* moved meanwhile: transition raises AbandonedError, the caller releases
        /\ row[h] \notin {"NEW", "WAITING_DISK", "RE_ADDING"}
        /\ Rest(h)
        /\ StayPut(Without(L, h))

\* The budget or the disk has none: a NEW row is parked, the others stay.
Refuse(h, L) ==
  /\ Rest(h)
  /\ \/ row[h] = "NEW" /\ MoveRow(h, "WAITING_DISK", L)
     \/ row[h] # "NEW" /\ StayPut(L)

\* The read is back: prune, and decide at once if the lock is free.
PruneLands(h, granted) ==
  LET L == Pruned(ledger, work[h].stale) IN
  /\ work[h].pc = "prune"
  /\ \/ LockFree /\ granted /\ Grant(h, L)
     \/ LockFree /\ ~granted /\ Refuse(h, L)
     \/ /\ ~LockFree /\ ~granted
        /\ Await(h, "admit", work[h].ask)
        /\ StayPut(L)
  /\ UNCHANGED <<client, lock>> /\ NobodyElse

\* The lock was taken and is free now.
LockAcquired(h, granted) ==
  /\ work[h].pc = "admit" /\ LockFree
  /\ IF granted THEN Grant(h, ledger) ELSE Refuse(h, ledger)
  /\ UNCHANGED <<client, lock>> /\ NobodyElse

\* A parked row holds its reservation while the active downloads are counted.
\* Too many: release and stay parked.
RecountFull(h) ==
  /\ work[h].pc = "recount" /\ LockFree
  /\ \E k \in Hashes \ {h} : row[k] \in {"QUEUED", "DOWNLOADING"}
  /\ Rest(h)
  /\ ledger' = Without(ledger, h)
  /\ UNCHANGED <<row, client, lock, past>> /\ NobodyElse

\* Otherwise promote; a row that was moved or forgotten meanwhile is released.
Promote(h) ==
  /\ work[h].pc = "recount"
  /\ Rest(h)
  /\ \/ row[h] = "WAITING_DISK" /\ MoveRow(h, "QUEUED", ledger)
     \/ row[h] # "WAITING_DISK" /\ LockFree /\ StayPut(Without(ledger, h))
  /\ UNCHANGED <<client, lock>> /\ NobodyElse

\* Content that is all on the remote, or complete on the client, is queued
\* without budget.
AdmitFree(h) ==
  /\ Ready(h, {"NEW", "WAITING_DISK"})
  /\ MoveRow(h, "QUEUED", ledger)
  /\ UNCHANGED <<client, work, lock>> /\ NobodyElse

\* The heal's download has ended, well or not: release.
HealEnds(h) ==
  /\ work[h].pc = "heal" /\ LockFree
  /\ Rest(h)
  /\ ledger' = Without(ledger, h)
  /\ UNCHANGED <<row, client, lock, past>> /\ NobodyElse

-----------------------------------------------------------------------------
(* QUEUED and after.                                                        *)

\* Nothing to download: no entry is left on the client.
SkipDownload(h) ==
  /\ Ready(h, {"QUEUED"}) /\ ~client[h]
  /\ MoveRow(h, "RE_ADDING", ledger)
  /\ UNCHANGED <<client, work, lock>> /\ NobodyElse

\* The entry was added (paused) and then the client failed a call: the next
\* tick finds it.
AddOnly(h) ==
  /\ Ready(h, {"QUEUED"}) /\ ~client[h]
  /\ client' = [client EXCEPT ![h] = TRUE]
  /\ UNCHANGED <<row, ledger, work, lock, past>> /\ NobodyElse

\* _setup_queued_download, single file already on the remote.
SetupRemoteSingle(h) ==
  /\ Ready(h, {"QUEUED"}) /\ ~client[h] /\ LockFree
  /\ client' = [client EXCEPT ![h] = TRUE]
  /\ MoveRow(h, "MOVING", Without(ledger, h))
  /\ UNCHANGED <<work, lock>> /\ NobodyElse

\* Enter the download, or wait in QUEUED for a slot with the entry paused.
Start(h, L) == \E dst \in {"DOWNLOADING", "QUEUED"} : MoveRow(h, dst, L)

\* adjust to the real footprint: a shrink is immediate.
SetupShrink(h) ==
  /\ Ready(h, {"QUEUED"}) /\ ~client[h] /\ LockFree
  /\ Footprint[h] <= ledger[h]
  /\ client' = [client EXCEPT ![h] = TRUE]
  /\ Start(h, [ledger EXCEPT ![h] = Footprint[h]])
  /\ UNCHANGED <<work, lock>> /\ NobodyElse

\* A grow the budget refuses: the entry is deleted, the row parked.
SetupOverBudget(h) ==
  /\ Ready(h, {"QUEUED"}) /\ ~client[h] /\ LockFree
  /\ Footprint[h] > ledger[h] /\ ~FitsInstead(h, Footprint[h])
  /\ MoveRow(h, "WAITING_DISK", ledger)
  /\ UNCHANGED <<client, work, lock>> /\ NobodyElse

\* A grow within the budget probes the disk with the lock held.
Growing(h, amount) ==
  /\ LockFree
  /\ amount > ledger[h] /\ FitsInstead(h, amount)
  /\ lock' = h
  /\ Await(h, "grow", amount)
  /\ UNCHANGED <<row, ledger, past>> /\ NobodyElse

SetupGrow(h) ==
  /\ Ready(h, {"QUEUED"}) /\ ~client[h]
  /\ client' = [client EXCEPT ![h] = TRUE]
  /\ Growing(h, Footprint[h])

\* The worker of h refines its reservation: in download, or astray.
Refining(h) ==
  /\ work[h].pc = "idle"
  /\ \/ astray[h] = "NONE" /\ row[h] = "DOWNLOADING"
     \/ astray[h] \in {"QUEUED", "DOWNLOADING"}

\* A batch has landed: tighten the reservation to what remains.  An entry
\* that was lost is re-made here, budget allowing.
TightenShrink(h) ==
  /\ Refining(h) /\ LockFree
  /\ \E rem \in 0..Footprint[h] :
       rem <= ledger[h] /\ ledger' = [ledger EXCEPT ![h] = rem]
  /\ UNCHANGED <<row, client, work, lock, past>> /\ NobodyElse

TightenGrow(h) ==
  /\ Refining(h)
  /\ \E rem \in 1..Footprint[h] : Growing(h, rem)
  /\ UNCHANGED client

\* The row of h is in setup and nobody else wrote it.
InSetup(h) == row[h] = "QUEUED" /\ astray[h] = "NONE"

\* The probe is back with room.  A row forgotten or written meanwhile is not
\* moved (its transition raises), and keeps the entry for the prune to find.
Grown(h) ==
  LET L == [ledger EXCEPT ![h] = work[h].ask] IN
  /\ work[h].pc = "grow"
  /\ Rest(h) /\ lock' = NoHash
  /\ IF InSetup(h) THEN Start(h, L) ELSE StayPut(L)
  /\ UNCHANGED client /\ NobodyElse

\* ... or without: a row in setup is rolled back.
GrowFails(h) ==
  /\ work[h].pc = "grow"
  /\ Rest(h) /\ lock' = NoHash
  /\ IF InSetup(h) THEN MoveRow(h, "WAITING_DISK", ledger) ELSE StayPut(ledger)
  /\ client' = [client EXCEPT ![h] = @ /\ ~InSetup(h) /\ astray[h] # "QUEUED"]
  /\ NobodyElse

\* _do_queued finds its entry on the client: resume without another look at
\* the ledger, or hand over to RE_ADDING when the bytes are on fuse.
Resume(h) ==
  /\ Ready(h, {"QUEUED"}) /\ client[h]
  /\ \E dst \in {"DOWNLOADING", "RE_ADDING"} : MoveRow(h, dst, ledger)
  /\ UNCHANGED <<client, work, lock>> /\ NobodyElse

\* The last batch is complete, or the bytes are on the remote already.
Downloaded(h) ==
  /\ Ready(h, {"DOWNLOADING"})
  /\ MoveRow(h, "MOVING", ledger)
  /\ UNCHANGED <<client, work, lock>> /\ NobodyElse

\* Moved and wiped: the fuse entry replaces the SSD one.
Moved(h) ==
  /\ Ready(h, {"MOVING"})
  /\ client' = [client EXCEPT ![h] = FALSE]
  /\ MoveRow(h, "RE_ADDING", ledger)
  /\ UNCHANGED <<work, lock>> /\ NobodyElse

Finish(h) ==
  /\ Ready(h, {"RE_ADDING"})
  /\ MoveRow(h, "DONE", ledger)
  /\ UNCHANGED <<client, work, lock>> /\ NobodyElse

\* A late cross seed or recovery finds the bytes of a DONE row on the SSD: it
\* moves again, without a reservation.
Demote(h) ==
  /\ Ready(h, {"DONE"})
  /\ MoveRow(h, "MOVING", ledger)
  /\ UNCHANGED <<client, work, lock>> /\ NobodyElse

\* _fail_downloading_row, an oversize file and a poisoned setup delete the
\* entry; a crash of the worker (the backstop of _process_torrent) keeps it.
Fail(h) ==
  /\ Ready(h, State \ {"DONE", "FAILED"})
  /\ \E kept \in BOOLEAN : client' = [client EXCEPT ![h] = @ /\ kept]
  /\ MoveRow(h, "FAILED", ledger)
  /\ UNCHANGED <<work, lock>> /\ NobodyElse

-----------------------------------------------------------------------------
(* Operators and the process.                                               *)

\* scan_watch, the source poll, Telegram /add: a row for a new hash.
Arrive(h) ==
  /\ Ready(h, {"GONE"})
  /\ MoveRow(h, "NEW", ledger)
  /\ UNCHANGED <<client, work, lock>> /\ NobodyElse

\* _ops_lock: recover is not under way, which keeps the API's other commands
\* and Telegram's out.
OpsFree == \A k \in Hashes : orphan[k] = "NONE"

\* POST /api/retry: FAILED -> QUEUED on the store.
ApiRetry(h) ==
  /\ row[h] = "FAILED" /\ OpsFree
  /\ WritePast(h, "QUEUED", ledger)
  /\ UNCHANGED <<client, work, lock>> /\ NobodyElse

\* revive_failed_row (an operator's re-add) and the retry of failed rows at
\* the start run the intake again.
Revive(h) ==
  /\ Ready(h, {"FAILED"})
  /\ MoveRow(h, "NEW", ledger)
  /\ UNCHANGED <<client, work, lock>> /\ NobodyElse

\* Forget in the process: purge, then release.  Telegram's /cancel stops the
\* worker first (a grow gives the lock back), the API lets it run into the
\* missing row.
ForgetApi(h, stopped) ==
  /\ row[h] # "GONE" /\ OpsFree
  /\ IF stopped THEN /\ lock \in {NoHash, h} /\ lock' = NoHash
                     /\ Rest(h) /\ astray' = [astray EXCEPT ![h] = "NONE"]
                ELSE LockFree /\ UNCHANGED <<lock, work, astray>>
  /\ client' = [client EXCEPT ![h] = FALSE]
  /\ MoveRow(h, "GONE", Without(ledger, h))
  /\ UNCHANGED <<orphan, restarts, recovers>>

\* /injectfuse on a row that is downloading: release, delete the SSD entry,
\* hand the row to RE_ADDING.
InjectFuse(h) ==
  /\ Ready(h, OnSsd) /\ LockFree /\ OpsFree
  /\ client' = [client EXCEPT ![h] = FALSE]
  /\ MoveRow(h, "RE_ADDING", Without(ledger, h))
  /\ UNCHANGED <<work, lock>> /\ NobodyElse

\* Forget from the command line: another process, with the database and the
\* client but not the ledger.
ForgetCli(h) ==
  /\ row[h] # "GONE"
  /\ client' = [client EXCEPT ![h] = FALSE]
  /\ MoveRow(h, "GONE", ledger)
  /\ UNCHANGED <<work, lock>> /\ NobodyElse

\* The entry is lost: deleted by an operator, or by a step that a crash ended.
\* It is noticed by recover only, and of these rows.
EntryLost(h) ==
  /\ client[h] /\ row[h] \in {"DOWNLOADING", "MOVING"} /\ recovers < MaxRecovers
  /\ client' = [client EXCEPT ![h] = FALSE]
  /\ UNCHANGED <<row, ledger, work, lock, past>> /\ NobodyElse

-----------------------------------------------------------------------------
(* POST /api/recover: reconcile of rows and client, on the store.  It asks  *)
(* neither the ledger nor whether a worker is under way.  A transition is   *)
(* refused when the row was written since the snapshot; an upsert is not.   *)

Recovers == recovers < MaxRecovers /\ recovers' = recovers + 1

\* A worker that may be under way becomes one that is out of date; one in the
\* middle of an admission or a heal releases by itself (Grant, Promote).
Overtakes(h) ==
  \/ (work[h].pc # "grow" \/ astray[h] # "NONE") /\ UNCHANGED astray
  \/ /\ work[h].pc \in {"idle", "grow"} /\ astray[h] = "NONE"
     /\ row[h] \notin {"DONE", "FAILED", "GONE"}
     /\ astray' = [astray EXCEPT ![h] = row[h]]

\* fix_orphan, QUEUED or DOWNLOADING without an entry: read its .torrent and
\* add it again.
OrphanFound(h) ==
  /\ orphan[h] = "NONE" /\ row[h] \in {"QUEUED", "DOWNLOADING"} /\ ~client[h]
  /\ orphan' = [orphan EXCEPT ![h] = row[h]]
  /\ Recovers
  /\ UNCHANGED <<row, ledger, client, work, lock, astray, past, restarts>>

OrphanSettled(h) ==
  /\ orphan[h] # "NONE"
  /\ orphan' = [orphan EXCEPT ![h] = "NONE"]
  /\ UNCHANGED <<work, lock, restarts, recovers>>

\* There is no .torrent, or the client refuses it: _force_state to FAILED.
OrphanFails(h) ==
  /\ OrphanSettled(h)
  /\ \/ row[h] = orphan[h] /\ WritePast(h, "FAILED", ledger) /\ Overtakes(h)
     \/ row[h] # orphan[h] /\ StayPut(ledger) /\ UNCHANGED astray
  /\ UNCHANGED client

\* It is added, paused: a QUEUED row moves to DOWNLOADING, and what was
\* DOWNLOADING is upserted as that, whatever it has become.
OrphanReadded(h) ==
  /\ OrphanSettled(h)
  /\ client' = [client EXCEPT ![h] = TRUE]
  /\ IF row[h] = orphan[h] \/ (orphan[h] = "DOWNLOADING" /\ row[h] # "GONE")
     THEN WritePast(h, "DOWNLOADING", ledger) /\ Overtakes(h)
     ELSE StayPut(ledger) /\ UNCHANGED astray

\* fix_orphan, MOVING without an entry: nothing is left on the SSD, so the row
\* is handed on; FAILED when that fails.
MovingOrphan(h) ==
  /\ row[h] = "MOVING" /\ ~client[h]
  /\ \E dst \in {"RE_ADDING", "FAILED"} : WritePast(h, dst, ledger)
  /\ Overtakes(h) /\ Recovers
  /\ UNCHANGED <<client, work, lock, orphan, restarts>>

\* A DONE row whose entry is lost is re-added.
LostDone(h) ==
  /\ row[h] = "DONE"
  /\ WritePast(h, "RE_ADDING", ledger) /\ Recovers
  /\ UNCHANGED <<client, work, lock, orphan, astray, restarts>>

\* An entry no row knows becomes a row: seeding from the mount or incomplete
\* there, complete on the SSD or partly there.
Adopted(h) ==
  /\ Ready(h, {"GONE"})
  /\ \E dst \in {"DONE", "RE_ADDING", "MOVING", "DOWNLOADING"} :
       WritePast(h, dst, ledger) /\ client' = [client EXCEPT ![h] = dst \in OnSsd]
  /\ Recovers
  /\ UNCHANGED <<work, lock, orphan, astray, restarts>>

\* A tombstone drops every write.
StrayWrites(h, dst, L) == WritePast(h, IF row[h] = "GONE" THEN "GONE" ELSE dst, L)

\* A worker that is astray ends: refused by its transition and gone; or its
\* upsert puts the row back to what it knew; or it fails the row by an upsert
\* where its transition was refused (a poisoned setup, and, having released,
\* _fail_downloading_row).
StrayEnds(h) ==
  /\ work[h].pc = "idle" /\ astray[h] # "NONE"
  /\ astray' = [astray EXCEPT ![h] = "NONE"]
  /\ \/ \E dst \in {row[h], astray[h]} : StrayWrites(h, dst, ledger)
     \/ astray[h] = "QUEUED" /\ StrayWrites(h, "FAILED", ledger)
     \/ /\ astray[h] \in {"QUEUED", "DOWNLOADING"} /\ LockFree
        /\ StrayWrites(h, "FAILED", Without(ledger, h))
  /\ UNCHANGED <<client, work, lock, orphan, restarts, recovers>>

\* _ssd_rebuild_from_db.
Rebuilt == [h \in Hashes |-> IF row[h] \in OnSsd THEN Estimate[h] ELSE 0]

Restart ==
  /\ restarts < MaxRestarts
  /\ restarts' = restarts + 1
  /\ ledger' = Rebuilt
  /\ work' = [h \in Hashes |-> Idle]
  /\ lock' = NoHash
  /\ orphan' = [h \in Hashes |-> "NONE"]
  /\ astray' = [h \in Hashes |-> "NONE"]
  /\ past' = {}
  /\ UNCHANGED <<row, client, recovers>>

-----------------------------------------------------------------------------
Admission(h) ==
  \/ \E amount \in 1..Cap : Ask(h, amount)
  \/ \E granted \in BOOLEAN : PruneLands(h, granted) \/ LockAcquired(h, granted)
  \/ RecountFull(h) \/ Promote(h) \/ AdmitFree(h) \/ HealEnds(h)

Pipeline(h) ==
  \/ SkipDownload(h) \/ AddOnly(h) \/ SetupRemoteSingle(h) \/ SetupShrink(h)
  \/ SetupOverBudget(h) \/ SetupGrow(h) \/ Resume(h)
  \/ TightenShrink(h) \/ TightenGrow(h) \/ Grown(h) \/ GrowFails(h)
  \/ Downloaded(h) \/ Moved(h) \/ Demote(h) \/ Finish(h) \/ Fail(h) \/ StrayEnds(h)

Operator(h) ==
  \/ Arrive(h) \/ ApiRetry(h) \/ Revive(h) \/ InjectFuse(h) \/ ForgetCli(h)
  \/ EntryLost(h) \/ \E stopped \in BOOLEAN : ForgetApi(h, stopped)

Reconcile(h) ==
  \/ OrphanFound(h) \/ OrphanFails(h) \/ OrphanReadded(h)
  \/ MovingOrphan(h) \/ LostDone(h) \/ Adopted(h)

Next ==
  \/ \E h \in Hashes : Admission(h) \/ Pipeline(h) \/ Reconcile(h) \/ Operator(h)
  \/ Restart

Spec == Init /\ [][Next]_vars

\* The event loop runs what is runnable: the scheduler re-checks a parked row
\* at its quiet interval, reads come back, held locks are given up.  SF: a
\* row that is asked for again and again is granted in the end when each time
\* the budget would hold it, that is, the disk is not full for ever.
Fairness ==
  \A h \in Hashes :
    /\ WF_vars(Ask(h, Estimate[h]))
    /\ WF_vars(PruneLands(h, FALSE)) /\ SF_vars(PruneLands(h, TRUE))
    /\ WF_vars(LockAcquired(h, FALSE)) /\ SF_vars(LockAcquired(h, TRUE))
    /\ WF_vars(Promote(h))
    /\ WF_vars(HealEnds(h))
    /\ WF_vars(Grown(h) \/ GrowFails(h))

FairSpec == Spec /\ Fairness

-----------------------------------------------------------------------------
(* Properties.                                                              *)

\* The ledger is only ever raised to a total within the budget, whatever was
\* pruned, dropped or in flight since the check; a rebuild after a restart
\* re-reserves what is on the SSD already, and alone may exceed it.
GrowsWithinBudget ==
  [][\/ Total(ledger') <= Total(ledger)
     \/ Total(ledger') <= Cap
     \/ restarts' # restarts]_vars

\* A parked, finished or failed row on which nothing is under way and that
\* holds budget was put there by a write past the ledger (recover, a worker
\* that recover overtook); whatever coordinator.transition moved holds none,
\* though probes, recounts and heals write to the ledger after their awaits.
OnlyPastWritesLeak ==
  \A h \in Hashes \ past :
    Ready(h, {"WAITING_DISK", "RE_ADDING", "DONE", "FAILED"}) => ledger[h] = 0

\* Reservations that leaked (a forgotten row's, one that recover failed) never
\* starve the queue: a row that stays in WAITING_DISK for ever has others on
\* the SSD, being healed or under a worker that is astray, again and again.
WaiterServed ==
  \A h \in Hashes :
    []<>(\/ row[h] # "WAITING_DISK"
         \/ \E k \in Hashes \ {h} :
              row[k] \in OnSsd \/ work[k].pc = "heal" \/ astray[k] # "NONE")

-----------------------------------------------------------------------------
(* What the documentation says and the code does not do.                    *)

\* docs/architecture.md: "Reservations release on WAITING_DISK / RE_ADDING /
\* DONE / FAILED".  Recover fails an orphan, or hands it on, past the ledger.
ParkedHoldsNothing ==
  \A h \in Hashes :
    Ready(h, {"WAITING_DISK", "RE_ADDING", "DONE", "FAILED"}) => ledger[h] = 0

\* docs/architecture.md on the RE_ADDING heal: "SSD budget reserved", for the
\* time of the re-download.
HealHoldsItsReservation ==
  \A h \in Hashes :
    (work[h].pc = "heal" /\ row[h] = "RE_ADDING") => ledger[h] = work[h].ask
=============================================================================
