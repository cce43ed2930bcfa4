# racing-sync, modelled in TLA+

racing-sync moves torrents that finished on a source machine (VPS1) to a
rclone remote: it re-downloads them on the SSD of a second machine (VPS2), in
batches if they are large, moves the bytes to the remote with rclone, and seeds
them from a fuse mount of that remote. The modules here follow a release from
the first sighting to the deletion of its source, TLC checks them on small
instances, and TLAPS proves the safety properties for instances of every size.

Paths below are relative to the repository; code is in `src/racing_sync/`.

## The system

| Component | State it keeps | Operations | Hard behaviour |
|---|---|---|---|
| Row store (`state.py`) | one SQLite row per torrent: state, revision, tombstone, blob, timers | `get`, `upsert`, `transition`, narrow updates, tombstone and erase | long-lived snapshots, unguarded whole-row writes, several processes |
| SSD budget ledger (`coordinator_ssd.py`) | dict hash -> bytes, one asyncio lock | `try_reserve`, `adjust`, `release`, prune, rebuild | awaits between a check and its use, leaks, crash |
| Scheduler and workers (`coordinator.py`) | `_running_infohashes`, `_download_admissions`, semaphores | spawn, done callback, gate, `stop_workers_for` | stale snapshots, cancellation, admission bursts |
| Pipeline of one torrent (`coordinator.py`, `batcher.py`) | batch index, the SSD client's entry, the files on SSD and remote | set up, wait, pause, move a batch, flip, final move, wipe | partial moves, crash between move and save, lagging fuse listing |
| RE_ADDING (`coordinator.py`) | retry clock, heal attempts, flap counter | fuse gate, heal, inject, DONE | fuse lag, false verification |
| rclone runner (`rclone_ops.py`) | `_ACTIVE_MOVES` by source tree | `run_rclone`, timeout, kill | children that do not die, concurrent moves |
| Intake and election (`coordinator.py`, `coordinator_content.py`, `watchdir.py`) | watch rows, grace timers | scan, group, elect, prefer | one release, several copies |
| Indexer and export retries (`coordinator.py`, `prowlarr.py`) | retry timestamps | park, wake, give up | narrow writes against a worker's snapshot |
| Injection and supplements (`coordinator.py`) | injected hashes, deferrals, memos | re-inject, late injection, repairs of the source and the original | copies of a row held across awaits, entries added without a check |
| Recovery (`recovery.py`) | none | `reconcile`, `fix_orphan`, verify | runs beside workers on `POST /api/recover` |
| Forget / cancel (`forget.py`, `telegram_bot.py`, `api.py`) | ignore list | resolve, delete entries, files, row | workers that still run, the CLI as another process |
| Source cleanup (`coordinator_cleanup.py`) | last run, idle confirmations | verdict, delete a group | deletes what is not yet safe |
| Telegram bot, HTTP API | message ids, queues | commands, cards | writers of rows |
| SFTP pool (`sftp_source.py`) | SSH connections, each with a lock | lease, revive, read, boot, close | threads that outlive the call, late dials, closing under a holder |
| Clients, Prowlarr | connections | RPCs | external, may fail or time out at any call |
| Classifier, batcher | none | from a file list to a kind and batches, evaluated anew by many steps | boundaries, a cap that changes |
| Safety, config | none | pure functions | boundaries |

Workers, loops and handlers are asyncio tasks of one process: code between two
awaits is atomic. Threads are used for database reads that are awaited and for
the SFTP pool, whose calls the tasks give up on while their threads go on; the
command line (`forget`) is a second process on the same database.

### What makes each component correct

* Row store: a stale object never overwrites a state it has not seen; a
  tombstone is final until lifted; a stored `.torrent` is not lost.
* Ledger: never raised past the budget; nothing that `coordinator.transition` takes
  off the SSD keeps budget, and what others take off it past the ledger keeps it
  until the next admission's prune; such a leak does not starve the queue.
* Slots: never more downloads than configured; nobody waits for ever.
* Pipeline: a file is deleted from the SSD only when it is on the remote or can
  be downloaded again; DONE means every file is readable through fuse; every
  batch is moved before the next one is begun, across crashes.
* rclone runner: no second move in a tree in which one may still be deleting;
  no row waits for its move for ever.
* Intake: one copy of a release is downloaded, and somebody may always go; what
  the operator holds stays out.
* Indexer wait: the window of a search is kept; the racing client's own bytes are
  leeched only on the word of the operator or the fallback; the wait ends.
* Injection: nothing is seeded for which the mount has no files; what was passed
  over is come back to.
* Source cleanup: the last copy is never deleted.
* SFTP pool: one connection for each member and none left behind; a read keeps
  its connection; a lease ends; an outage heals.
* Recovery and forget: after a start the client and the database agree; nothing
  is demoted without having looked; what was cancelled stays away.

`PROJECT.json` lists the hazards behind these at their lines.

## Modules

| Module | Models | Checked by | Proved in |
|---|---|---|---|
| `States` | `state.State`, `ALLOWED`, `check_transition` | all | |
| `RowStore` | one row and the holders of its object | `MCRowStore` | `Shared_proofs` |
| `SsdLedger` | the ledger and every caller of it | `MCSsdLedger` | `Resources_proofs` |
| `DownloadSlots` | spawning, gate, admissions | `MCDownloadSlots` | `Resources_proofs` |
| `Delivery` | what the pipeline promises, with neither client nor batches in sight | `MCPipeline` (as `KeepsPromise`) | `Pipeline_proofs` (`Implements`) |
| `Batcher` | from a file list to the kind of a torrent and its batches | `MCPipeline` | `Pipeline_proofs` (`MakeBatches`) |
| `Pipeline` | one torrent, file by file, from QUEUED to DONE | `MCPipeline` | `Pipeline_proofs` |
| `MoveGuard` | the runner of rclone and the moves of several rows | `MCMoveGuard` | `Resources_proofs` |
| `Intake` | the copies of one release until one is admitted | `MCIntake` | `Intake_proofs` |
| `IndexerWait` | one row between intake and admission | `MCIndexerWait` | `IndexerWait_proofs` |
| `Seeding` | a release after its move: re-adding, late injections, janitor | `MCSeeding` | `Seeding_proofs` |
| `Recovery` | rows, entries and files through crashes, resets, forgets and recoveries | `MCRecovery` | `Recovery_proofs` |
| `SftpPool` | the pool of connections to VPS1 and the threads that use it | `MCSftpPool` | `Shared_proofs` |
| `Sums` | sums over finite sets: lemmas for `Resources_proofs` and `Pipeline_proofs` | | itself |

The modules meet at a row's states. `Intake` ends where a row is admitted and
leaves the search to `IndexerWait`, which has one copy and the search; `Pipeline`
goes on from QUEUED with files; `Seeding` from RE_ADDING with entries; `Recovery`
has all states with each phase cut to what it reads and writes. `RowStore`,
`SsdLedger`, `DownloadSlots` and `MoveGuard` are the shared resources all of
these draw on. `SftpPool` is what `IndexerWait` and `Seeding` have as a fetch that
answers or does not. `States`, the table of legal edges, is extended by the modules
that write states through `transition`.

### RowStore

`row` is the row in the table and `mem[w]` the `TorrentState` object that writer
`w` read some time ago. Each store call runs under the store's RLock and in one
transaction, so it is one action: `Get`, `Upsert`, `Transition` (with the
revision test `SnapshotCurrent` and the failing write `TransitionFails`), the
narrow writes `Stamp`, `SetBlob`, `SetSkipped`, `ParkNarrow`, `SetMessage`, and
`Tombstone`, `ClearTombstone`, `GcTombstone`, `HardDelete`. `born` and `missed`
are history: how often the row was inserted, and what kinds of write each
holder has not seen. Bounds: two writers, two target states (legal, illegal and
repeated edges occur between `NEW`, `QUEUED` and `FAILED`), revisions to 3, two
insertions. Two holders suffice for every pairwise race; the proofs cover more.

### SsdLedger

`ledger` is `_ssd_reserved`; `work[h]` says which await the worker of `h` is
in. The five that matter: the database read of `_ssd_prune_stale` (`Ask` ..
`PruneLands`), the SSD lock (`LockAcquired`), the count of active downloads in
`_wait_disk_then_queue` (`RecountFull`, `Promote`), the disk probe of a growing
`adjust` (`SetupGrow`, `TightenGrow` .. `Grown`, `GrowFails`) and the download of
a heal (`Ask` in RE_ADDING .. `HealEnds`). The states that release are one set,
`Releasing`, as in `coordinator.transition`. Two torrents, a budget of two units,
one whose estimate is the whole budget and shrinks, one that grows to it.
`HashesAssumption` has the torrents be finitely many.
`FairSpec` assumes that reads, locks and probes come back, that the scheduler
looks at a parked row again at its interval, and that a row asked for again and
again is granted in the end if the budget would hold it (the disk is not full
for ever); nothing is assumed of downloads.

Not every writer of a row goes through `coordinator.transition`, which releases.
`ApiRetry` writes on the store, and so does `POST /api/recover`: `Reconcile` has its
orphans, read (`OrphanFound`) some awaits before they are failed or added again,
its MOVING rows handed on or failed, its lost DONE rows and the entries it adopts.
`WritePast` is that write, and `past` remembers the rows it put where they hold
nothing. Recover asks nobody whether a worker of the row is under way: `astray[h]` is
the state in the memory of one that is (`Overtakes`). It goes on, refines its
reservation or waits for a probe, until it ends (`StrayEnds`): refused by its
transition, or by an upsert that puts the row back to what it knew or to FAILED.
`orphan` also says that `_ops_lock` is held (`OpsFree`).

The run has one restart and has recover act on one row (`MaxRecovers`); the proofs
have any number of both. Left out: a listing of recover older than the rows it read;
the next worker of a row waits for one that is astray; what recover read of an orphan
is compared by state where the store compares revisions; and entries are lost
(`EntryLost`) of DOWNLOADING and MOVING rows, and while recover may still act.

### DownloadSlots

`running`, `adm` are `_running_infohashes` and `_download_admissions`; `pc[h]` is
the worker of `h`; `stale` the workers whose row somebody else wrote, which end
with `AbandonedError` at their next transition. `forced` is history: rows put
in DOWNLOADING by recovery. Three torrents and one slot, so that a burst, a
waiter and a slot holder exist at once; one of the three is also cancelled,
forgotten and recovered. More slots are left to the proof. `FairSpec`: the
scheduler keeps looking at all rows, semaphores are first come first served,
no call lasts for ever, and operators leave the process alone in the end.
An admission is given back when its row leaves QUEUED; a worker that is cancelled
past the gate does not give its own back. The next worker at the gate drops it if
no worker of that hash lives; if the torrent came back and has one, the admission
counts, though that worker has not asked. `QueuedProceeds` therefore speaks of
admissions of others, not of workers past the gate.

### Batcher

`classify`, `_resolve_batches` and `make_batches` as functions of a file list, which
is a sequence of `Listed` files: `Kind`, `SingleFile`, `MakeBatches`,
`ResolveBatches`, `Feasible`. `Take` is one round of the loop of `make_batches`: the
open batch is closed if it is `Full`, and the file `Put` in the open one. The setup, every round of the download loop and the
move after a restart evaluate them anew and rely on `batch_index` meaning the same
batch each time.
Names and episode tags are numbers, since only their order matters.

Two assumptions of the module, which TLC evaluates whenever it runs `MCPipeline`,
compare the functions with what they promise, stated without the loop or the sort:
`PlanSound` for all lists of up to four files, sizes 0 to 3, caps 1 to 4 and up to
three files to a batch (order kept, no batch empty, too large or too long, none
that could take the next file); `ResolvedSound` for all lists of up to three files
with two episodes, three sizes and both suffixes (every variant of every episode
taken once, in order, and every file of a bundle without episodes). `PlanSound` is
also proved, for every list (`EveryListPlanned`). Three files make
a batch closed by the file that does not fit in it, and the 90 % rules fall on both
sides.

`MCPipeline` makes its torrents from file lists: `Torrent` applies these functions to
a list, a cap and sizes, so the kinds and batches `Pipeline` runs with are ones the
code can come to. `Pipeline` has the sizes and the cap as constants (`Size`, `Cap`),
for the one property that counts bytes, `SelectedFits`.

### Pipeline

One torrent and the four places that know of its bytes: `have` (the client's
per-file progress), `disk` (sizes on the SSD), `remote` and `fuse` (what the
mount shows of the remote, late if `lag`). `disk[f]` is `"shell"` when the file
has its full size and not its bytes, as a sparse or preallocated file has;
`remote[f]` is `"bad"` when such a file was moved. `holes` are files whose bytes
were removed while the client still counts on their pieces.

`pc` is the step the worker is about to take; a step ends where the code awaits
something that may fail or that others can change meanwhile. A worker that
returns is `idle` and the next tick starts it over from `state`, `total`
(`batches_total`) and `index` (`batch_index`), the columns a restart keeps.
`todo` is the list of names the worker read once and acts on afterwards: the
files the batch lacks on the mount, or the files the client claims.

| Phase | Actions | Code |
|---|---|---|
| QUEUED | `Add`, `Setup`, `SetupRemote`, `SetupSingle`, `Adopt` | `_do_queued`, `_setup_queued_download` |
| DOWNLOADING | `Enter`, `Again`, `Loop`, `Wait`, `Vanished`, `Stall`, `Pause`, `Move`, `Flip`, `Advance`, `Finish` | `_do_downloading` and its helpers |
| MOVING | `List`, `PauseMoving`, `Sort`, `Ship`, `Drop`, `Wipe`, `Handover` | `_do_moving` |
| RE_ADDING | `Inject`, `GiveUp`, `Heal`, `HealArrived`, `HealStall`, `HealMove` | `_do_re_add`, `_maybe_heal_readd_missing` |
| restart | `Crash`, `Boot` | `recovery._reconcile_snapshot`, which leaves rows in flight alone |
| operator | `Recover` (with `Recovered`) | `POST /api/recover`, `recovery.fix_orphan` |
| outside | `Fetch`, `Spill`, `Index` | the client, the mount |

What kind of torrent it is and what surrounds it is a frozen variable,
`setting`, chosen from the constant `Settings`, so that one run covers a single
file, a single file with a sibling, a folder, a folder with a file under 0.1 %
of it, a mixed torrent, two batches, and two batches with a file of neither.

Two files in one batch and one in the next are enough for what distinguishes the
properties: a move of part of a batch, a file of the next batch touched by
pieces of this one, a batch already on the mount. Two failures and two restarts
allow any step to fail, to be tried again and to fail or crash again.

`FairSpec`: the scheduler spawns a worker at every tick until a row is settled,
so that `Work` goes on (WF); `_wait_for_completion` raises on a stall (WF); the
mount catches up (WF); and the swarm serves a selected file if the client runs
again and again (SF, as it may be paused in between). The age limit and a
failing heal are not owed to anybody. `Settles` is checked without restarts in
`pipeline_settles`; `pipeline_restart` shows what one restart does to it.

`Delivery` is the abstract specification: files that are missing, held on the
SSD or delivered, and a torrent that is open, done or failed. `Pipeline`
implements it under the mapping `Place` (a file the remote has is delivered, the
first copy of it having been complete; else a whole one on the SSD is held) and
`Outcome` (the state), by `Promise == INSTANCE Delivery WITH ...` and the property
`KeepsPromise`. That no later copy spoils the first is `OnlyCompleteShipped`.

Taken together or left out: the recheck before a single file is resumed is one
step; the check watchdog, oversized files and WAITING_DISK parks in the middle of
a download, a tracker that deletes the torrent, files of zero bytes, the blob
kept for RE_ADDING.

### MoveGuard

`active` is `_ACTIVE_MOVES`, `proc` the rclone processes, alive or ended, and
`child[r]` the one row `r`'s worker began. `Proceeds` is the semaphore and
`_active_check`; `Spawned` the return of `create_subprocess_exec` and
`_active_set`, with the await between them; `Exited`, `Interrupted`/`Stopped`,
`CancelMove`/`Cancelled` are the ways `run_rclone` ends, each with what
`_active_drop` keeps. A process ends on its own (`Ships`, `ShipsNothing`) or by a
signal (`Dies`), sooner or later, also after its worker has gone. What a caller
does then is `Parks` and `Fails`: a mover comes back at the next tick; a heal
that has files on the SSD does not (`"stranded"`).

Batches, folders and heals start their moves from the SSD's save path, so many
rows share one tree; a single file is a tree of its own. Three placements: a
folder and a heal below one path beside a single file, with one or two moves at a
time, and three rows with a tree each. Two faults let a move time out, leave an
orphan and be tried again, or a row be cancelled and come back beside its
orphan; with three faults (450,000 states) the same properties hold. Four processes are enough: three
children and an orphan. `FairSpec`: due rows are spawned at every tick, the
semaphore is first come first served, the waits for a child are bounded, and a
process ends at last, even one in uninterruptible sleep.

### Intake

The copies of one release: files dropped into the watch directory (`Drops`) and
torrents on the racing client (`Racing`). `row` is the database; `run[h]` the
worker, with what it read when it started: whether it is the candidate, its
`force_direct`, whether anybody wrote the row since (`fresh`), and the history
`free` and `behind`. A worker's run is three steps, because the search for a
cross-seed takes seconds and the admission looks once more: `StartDrop`,
`StartRacing` or `StartParked` (elections, deferrals, grace), `SearchedDrop` or
`SearchedRacing`, `Admit`. `Drop`, `ScanWatch`, `Race`, `PollGroup` bring copies
in; `GraceEnds`, `Prefer`, `Fetch`, `Hold`, `Cancel`, `Restart` are the clock and
the operator. `Works` is everything a row does after admission.

Two drops and two racing torrents of mixed rank are the smallest set in which an
election, a deferral to the other kind and a grace meet. One command of the
operator (`MaxOps`): each of them races with everything else.

### IndexerWait

One racing torrent's row, its worker and the sweep of the source poller, each
with a copy `mem[x]` and what it awaits, `at[x]`. `fresh[x]` is the revision test
of `transition`; a whole-row write ignores it, as the code does. The worker goes
through lookup, fuse check, adoption, SSD check and pick; `Answers` are their
outcomes; the sweep through list, fuse and adopt. Time is three values, before
and after a timer or the window. Four surroundings: private with and without the
fallback to the racing client's bytes, not queryable, public. Two events let the
operator or a client interfere twice in one wait, and keep liveness affordable. The
safety properties are proved for any number; three events reach the case `GaveUp`,
in which a run that had given its row up writes FAILED over a window that the
operator opened since.

`FairSpec`: the scheduler wakes due rows, calls are bounded, time passes; VPS1
answers now and then (SF on `Look`, since it may be refused in between); the SSD
client finishes; the copy ahead does not stay past admission for ever.

### Seeding

A release with its racing torrent `s`, the cross-seed `c` downloaded in its
stead and a third torrent `p`. Three actors have a copy of the row: the re-adding
worker (`Begin`, `Passes`, `Inject`, `Supplement`, `AddCross`, `Breaks`), the
poller (`LateBegin`, `Verify`, `RepairSource`, `PassSource`, `Original`, `Late`)
and the janitor (`JanitorLists`, `VerdictKeep`, `VerdictDelete`, `HealBlob`,
`Delete`); `World` is the mount, the clocks, the swarm, a restart and a recover.
`here` are the entries on VPS2, `origin` the files on VPS1, `deferred` and
`memo` the poller's memory, lost in a restart. A row starts moved, DONE or
adopted with its bytes on the remote, on the SSD or nowhere.

One flap (`MaxCycles`) and one event (a loss, an arrival, a departure, a blind
listing, a restart or a recover) against three actors already give every overlap
of two views. `FairSpec`: loops run and calls are bounded; the mount shows
what is there; VPS1 and the client answer now and then, which is the strong
fairness of `RepairSource` and `DeferralEnds`.

### Recovery

Two torrents of one release, the racing one and the one downloaded for it, with
their rows, tombstones, ignore list, entries and files, and the operation under
way: `op` with what it listed (`seen`), the rows it read (`snap`) and the hashes
left. A start is `Start`, `List`, `Rows`, `Check`, `Checked`, `Adopt`,
`Reconciled`, `Retry`; `POST /api/recover` is the same with `Verify` and runs
beside workers; a forget is `Forget`, `Discovers`, `DeletesOne`, `DeletedAll`,
`Verifies`, `LooksAgain`, `Drops`, with its three listings. `Reset` and
`FullReset` are the command line's, which need the daemon down; `Unignore` and
`Gc` may come at any time. `Worker` is a row's worker with an await between the
client's call and the write (`Queued` and `Record`, `Moving`, `Handover` and
`Handed`, `Downloading` and `Dying`).

Two of crash, lost entry, forget and recover, in any order and at any step; the
operations that need a stop are not counted, since the crash before them is.
Nothing here is under fairness: the properties are of what a step may do and of
the moment a start hands over.

### SftpPool

`closed`, `client` and `lock` are the fields of each `_SFTPConnection`; `open`
is what is connected on the network, which is more than `client` names if
something leaks; `pool` are the members in use, one or two. A thread's `pc`
follows it through a call: `"revive"` and `"sweep"` are the two loops of
`_lease`, `"lock"`, `"socket"` and `"connect"` the three waits of a member's
`connect()` (for its lock, the TCP connection, the handshake), `"leased"` and
`"reading"` the operation. `why` says whom a dial is for: the boot, a lease that
revives, the call itself. The RLock is re-entrant, so the nested acquisitions of
a call are one.

`BootDials` starts a thread for each member, and `BootExpires` gives up on them:
they go on, beside the dials of the next attempt. `Mark` and `TearDown` are the
two halves of `_SFTPConnection.close`, with the bounded wait for the lock between
them; the second is taken with or without the lock. `"boot"` and `"stop"` close
at the same time if the stop comes while a boot fails.

Two callers meet in every way two can, each with a dialing thread of an attempt
to boot beside it, and one attempt more may run beside a late one when the pool
is one member. `FairSpec`: sockets and channels have timeouts, so a dial and a
read end; a lock that is free again and again is had in the end (threads of one
process, each holding it for a bounded time); a lease's deadline comes. That a
read ends is what the daemon cannot enforce where a transport is wedged; what
waits for it then is `QueuesBehindNobody`, below. `Heals` is conditional: the
network stays up from some time on, nobody stops the pool, and calls are made.

## Runs

| Run | Shows |
|---|---|
| `rowstore` | revision guard sound (`RevisionTellsStaleness`, `SnapshotCoherent`, `SecondWriterLoses`), tombstone final, blob kept |
| `ssd` | ledger raised only within the budget, parked rows hold nothing but what recover or a worker it overtook left them, leaks do not starve a parked row |
| `slots` | downloads and granted admissions fit the cap, a queued row is not passed over for ever |
| `pipeline` | no partial file on the remote, no batch passed before it is delivered, one batch selected at a time and no more than its cap, and every step one that `Delivery` allows: nothing complete is wiped, nothing done before the remote has it |
| `pipeline_settles` | a row is settled through failures, or a lagging mount |
| `pipeline_restart` | violation: a crash between the entry's deletion and the next state leaves MOVING for ever |
| `moves` | no second process in a tree of one row, or where moves go one at a time; every row is served |
| `intake` | one racing row, somebody may always go, a second download only by overlap, graces and holds kept |
| `indexer` | windows kept, the private swarm leeched only on somebody's word, the wait ends |
| `seeding` | the last copy is not deleted, nothing is seeded blind, the source comes to seed, a re-add ends |
| `recovery` | a start ends with client and database in agreement, demotes nothing unseen, revives nothing cancelled |
| `sftp` | no transport left behind, a read keeps its connection, a lease ends, the pool heals |

All type invariants are proved, and only those of `Seeding` and `Recovery` are
checked by runs as well. `RevisionMonotone`
of `RowStore`, `AdmittedIsRecorded` and `CapRespected` of `DownloadSlots`,
`DoneDelivered` of `Pipeline` (of which `KeepsPromise` says more) and `MovesFit` of
`MoveGuard` are proved for every instance, so no run checks them again.

The violation run checks one property that a document states and the code does
not keep; `findings` in `PROJECT.json` quotes the line.

### Under which assumptions `pipeline` holds

The settings of `Safe` leave out what is known to break a property. Each of
these was seen as a counterexample of the same module with the setting named:

* `near` (`MCPipeline.Rounded`): progress from 0.999 counts as complete
  (`coordinator.py:6837`, against `docs/architecture.md:198`), so a file one piece
  short is moved (`OnlyCompleteShipped`).
* A single file with a sibling and a failing move (`MCPipeline.SiblingFault`):
  moved half-way, the sibling is wiped with the rest, and the row gets past the
  gate without it (`coordinator.py:7062`, against 7493; `KeepsPromise`). With
  `lag` the next tick finds the moved file on neither side and the row fails with
  `FileNotFoundError` (`coordinator.py:7067`), as a folder does when the deletion
  of its entry failed and the daemon restarts after the wipe.
* A mixed torrent of one batch with a file in `slack`: its move does not look at
  the verified list (`coordinator.py:7534`), so a file the 99.9 % of the torrent
  do not tell of is moved unfinished.
* A deselected or slack file together with a failed deletion of the entry: the
  heal selects the file through the old entry, without a recheck, and pieces
  counted before the wipe are not fetched again (`coordinator.py:7971`).
* Two files in the last batch and `lag`, with nothing failing
  (`MCPipeline.LateSeason`): both are on the remote from an earlier attempt, and
  the mount shows neither when the batch is flipped to, so both are selected; it
  shows them before the loop looks again, and the row goes to MOVING with one of
  them short. That one is deleted (`coordinator.py:6887`), which leaves a hole under
  pieces the client counts; the other has the client resumed
  (`coordinator.py:7583`), and the first grows to its full size without being whole,
  is claimed, and is moved over the complete one (`OnlyCompleteShipped`).
* `loses` together with a failure, for two batches: the orphan is added again
  with everything selected, the selection fails once, and MOVING resumes the
  client with every batch selected (`coordinator.py:7612`).
* Liveness with a lost entry and a recover: an orphan is added paused, and
  `_do_downloading` of a row that has `batches_total` never resumes it
  (`coordinator.py:5742`), so it stalls until it fails. With `lag` and a failing
  move: a batch moved in part is awaited on the SSD for ever
  (`coordinator.py:5851`).
* A torrent of one batch with a file of no batch that is in `slack`, a client that
  preallocates, and an entry that a restart loses and a recover adds again, with
  everything selected: the wait does not miss the slack file, and in MOVING that
  file, which has its size and is not claimed, has the client resumed with every file
  (`coordinator.py:7612`), one more than was granted (`SelectedFits`).
* `docs/architecture.md:196` says the entry is deleted with its files between two
  batches; the code keeps both and says why (`_flip_to_next_batch`).

## Known divergences

What a document or comment says, and the code was found not to do, besides the
finding of the violation run. Where a module states the property it is named; it
is defined there and checked by no run, because it does not hold.

| Stated in | Property | What happens |
|---|---|---|
| `RowStore` | `HoldUntilResumed` | a running worker's whole-row write (`state.py:587`) clears a `/skip` (`telegram_bot.py:4156`) |
| `SsdLedger` | `ParkedHoldsNothing` | `POST /api/recover` fails an orphan or hands it on with its reservation (`recovery.py:694`, 932, 949, 1017), and so does an upsert of a worker whose transition was refused (`coordinator.py:4707`, 4715), until the next admission prunes (against `docs/architecture.md:308` and `coordinator.py:2046`) |
| `SsdLedger` | `HealHoldsItsReservation` | the next admission prunes a heal's reservation (`coordinator.py:7950`, against `docs/architecture.md:230`) |
| `DownloadSlots` | `NeverMoreThanMax` | recovery starts rows that wait for a slot (`recovery.py:956`, against `config.example.toml:165`) |
| `MoveGuard` | `OneMovePerTree` | two rows below one save path pass `_active_check` before either child is on record (`rclone_ops.py:334`, against its docstring at 325); the one that ends first strikes the other off |
| `MoveGuard` | `BusyIsRetried` | a heal refused by the guard leaves its download on the SSD, where the next attempt takes it for lag (`coordinator.py:7915`, against `rclone_ops.py:65-71`); so does a heal whose move times out |
| `Intake` | `OneDownloader` | two copies whose workers overlap are both downloaded (against `coordinator.py:3157`) |
| `IndexerWait` | `PublicNeverGivesUp` | the clock gives a public row up (`coordinator.py:4159`, against `config.example.toml:495-499`) |
| `Seeding` | `DoneSeeds` | a demoted row gets to DONE again without the lost entry of a hash on record (`coordinator.py:8405`, 8541, against `docs/architecture.md:269`) |
| `Recovery` | `RemoteKept` | `run --full` deletes every racing entry with its files, those on the mount included (`__main__.py:165`, against `__main__.py:131` and `README.md:77`; `MCRecovery.Wipe`); a forget of the API does, when its listing is older than the worker's re-adding (`forget.py:347`; `MCRecovery.ForgetOnly`) |
| `SftpPool` | `StaysShut` | a worker that saw a member closed before the stop dials it afterwards (`sftp_source.py:659-662`, against its comment at 683) |
| `SftpPool` | `QueuesBehindNobody` | a member revived, leased and read from by another is waited for in `connect()` without a bound (`sftp_source.py:158`, against the comment at 136) |
| `Recovery` | `GoneWhenDropped` | a third listing that fails counts as one that found nothing (`forget.py:401`, against 456) |

Batches:

* "Boundaries are stable by construction across restarts" (`coordinator_ssd.py:44`):
  they are those of the configured cap, and nothing writes the column
  `batch_cap_bytes` that would keep a row's own (`coordinator_ssd.py:84` reads it).
  After a restart with another `max_inflight_bytes` the `batch_index` of a row under
  way counts other batches: with three files of one byte, an index of 1 skips one
  file under a cap of 1 and two under a cap of 2 (`MakeBatches`).

Rows and their copies:

* The Telegram message id is written without a revision (`state.py:720`) and put
  back by a stale transition. A sweep's or worker's whole-row write undoes what
  was written meanwhile (`coordinator.py:2984`), a `/fetch` among it
  (`coordinator.py:2572`); the poller's, a demotion; `/recover`'s, a step of the
  worker (`recovery.py:967`), after which `_fail_downloading_row`, "pre-move by
  construction", deletes with files.
* The reservation of a promotion is pruned while `_wait_disk_then_queue` counts
  active downloads (`coordinator.py:4331`); `POST /api/retry` queues without a
  reservation (`api.py:355`); the admission of a cancelled torrent that is added
  again stays on record while its new worker lives (`coordinator.py:4415`), and
  may keep a queued row waiting as long.

Intake and search:

* A lookup on VPS1 that is refused fails the row at once (`coordinator.py:2440`),
  where the docstring (2400) has the miss counter decide.
* A run whose third missed lookup gave its row up, its window being spent, goes on
  with it (`coordinator.py:2466`): it may admit it from FAILED, or fall back and
  write its copy (`coordinator.py:2614`) over what the row has become. So may the
  sweep, which saves the kind it found by writing its whole copy
  (`coordinator.py:2844`), over a row failed meanwhile as well.
* The clock of the window is read twice, before and after an await, and may pass
  in between.
* "unignore it to reprocess it" (`coordinator.py:1010`) revives the old row, which
  is not processed again.

SFTP pool:

* The deadline of a lease is set after the members are revived
  (`sftp_source.py:694`), so "fast" is after as many dials as there are closed
  members; and every caller that saw a member closed dials it again, tearing down
  what the one before it had connected.
* A reconnect that fails returns `None` (`sftp_source.py:355`), which the caller
  takes for a clean miss and does not retry (`coordinator.py:10030`).

Seeding and cleanup:

* The janitor deletes a torrent of VPS1 whose hash was never injected, if the
  release is healthy by another entry (`coordinator_cleanup.py:435`, against
  `config.py:867`); the flag that `docs/architecture.md:267` says it requires is
  not looked at; a dry run of it writes rows.
* A blob healed from VPS1 is the racing torrent's own, so the cross-seed's entry
  is not added again.

Recovery and forget:

* The background pass of `docs/architecture.md:253-267`, `reconcile_verify`, is
  called by nothing; a start leaves orphans as they are and only
  `POST /api/recover` fixes them.
* Reconcile lists the client before it reads the rows, so a row that got to DONE
  in between is demoted by a recover; and a client that answers with a dictionary
  instead of a list (`clients/qbittorrent.py:167`) passes for an empty one.
* The janitor's stamp on a row makes a recover stop half-way, with a stale
  transition.
* A cancel ignores the source hash only: a surviving cross-seed entry is adopted
  again (against `docs/architecture.md:395-398`). An entry on the SSD may be
  adopted as a second row when it is incomplete, or added and not yet on record;
  `docs/architecture.md:277-280` has it both adopted and only audited.
* The scheduler may start a worker again after a hard forget stopped the first
  one (against `forget.py:459-463`), and it writes the row anew.

## Proofs

* `Sums`: what the two proofs about bytes need of a sum over a finite set: it is a
  natural number, any element can be taken out first, and it grows with its set and
  with its terms. The sum is a fold of the community modules, which is a recursive
  function over the subsets that takes an element by `CHOOSE`; that such a function
  exists, and that the choice does not matter, is proved by well-founded induction
  over the subsets (`SubsetInduction`), stated for a set of subsets and not for a
  predicate.

* `Shared_proofs`, the row: the invariant `IInv` says of each holder that, if its object
  is of the present row, its revision is at most the row's, that a missed counted
  write leaves it behind, and that at equal revision the states agree. From it
  `RevisionTellsStaleness`, `SnapshotCoherent` and `SecondWriterLoses`; the other
  action properties from types alone.
* `Resources_proofs` has three parts, one for each of `SsdLedger`, `DownloadSlots` and
  `MoveGuard`.
  - The budget: type correctness, `OnlyPastWritesLeak` and `GrowsWithinBudget`. The
    second is not inductive: a row between two awaits may be parked and hold budget,
    so the invariant says under which awaits (`NothingParked`) and ties the probe of a
    grow to the states it occurs in, unless its worker is astray (`GrowsOnSsd`). Nor
    does the third follow from the guards: a grow is checked, awaits a probe of the
    disk, and is written without a second check. `GrowFits` says why it may: the lock
    is its row's until then, and what it asks for goes on fitting, as the entries of
    others can only shrink meanwhile (`ProbesFit`).
  - The slots: `AdmissionsFit` for any cap and number of torrents; the invariant adds
    that live workers are in `running` and that admitted ones are on record, which is
    what makes the gate's count complete. `CapRespected` follows.
  - The moves: `OneMover` for any rows, trees, processes and faults, and `MovesFit`.
    `OneMover` is not inductive, since the registry is asked before a process starts
    and told after. `MovesRecorded` says that in a tree the guard protects the
    registry names every process that lives, and `Exclusive` that a worker at its
    move finds none there but its own; the second is what lets a worker clear the
    record without asking whose it is, and it is kept because a protected tree has
    one mover at a time (`OneMoving`, from the semaphore `FewMoving`, or `Alone`).

* `Pipeline_proofs`, for any files, batches, sizes and bounds, assuming only that the
  bounds, the sizes and the cap are natural numbers, that the files are finitely many
  and that batches number them:
  - `PassedBatchesDelivered` and `DoneDelivered`, of every setting. The first is not
    inductive, since the worker advances the index without looking at the remote.
    `BatchInv` says for each step of a round where a file of the current batch is: on
    the remote or among those the worker waits for; then on the remote or the SSD;
    before the flip and the advance, on the remote. `DoneDelivered` rests on
    `FuseTrue`: the mount may show too little, never too much, so a gate that passes
    proves delivery.
  - The refinement, `Implements`: under `Regular` every step is a step of `Delivery`
    or a stutter. `Regular` says that each file is in a batch, or is the only one,
    and that the client's report is exact; `Rounded`, `SiblingFault` and the settings
    with `slack` are why it is needed. `ClientInv` says what the client's report is
    worth: what it knows of a file that the remote lacks, the SSD has. `WantInv` and
    `SecureInv` follow the files from the selection to the worker's hands, with
    `PhaseInv` and `EntryInv` for which step belongs to which state. From these every
    step is of one of six kinds (`StepKind`): whole files are got (`Grows`), moved
    (`Carries`), left alone (`Turns`), wiped once all is delivered (`Clears`), let go
    with a row that fails (`Fails`), or the row is done (`Ends`). Each kind is what
    `Delivery` allows. `HandedOnComplete` comes with it: RE_ADDING is reached
    only with every file on the remote, so a heal is always for a mount that lags.
  - `OneBatch`: the client never runs with two batches selected, under
    `LossOrFaults` (an entry that is lost and a call that fails do not come together;
    the sixth item of the list above is what happens if they do). `Chosen` says when
    a selection is the worker's own and not what an entry added again begins with;
    the invariant is `SelectInv` with `StartInv`.
  - `SelectionFits`: what a running client may fetch is no more than the cap that
    admission reserves, under `LossOrFaults` and `BatchesFit`. The latter says that no
    batch is over the cap, and that a torrent of one batch has no file besides (the
    eighth item of the list above is why). It follows from `OneBatch` and the sums.
    `Medley`, one batch with a file besides, stays with TLC.
  - `PlanMeetsBatchesFit`: `BatchesFit` holds of every torrent whose batches are those
    of `MakeBatches` on a list that passed `Feasible`, if it has no file beside a lone
    batch. The promise of `make_batches` itself is `EveryListPlanned`: for a list of any length, any cap and any limit of
    files, its batches are the list, cut where the next file would not fit. The
    invariant of the loop, `Packed`, is about what was read so far: the closed
    batches keep the promise (`Closed`), the open one fits, and the last closed batch
    could not take what comes first after it (`NoRoom`; a file above the cap closes
    its batch, and then any next file is too much).
  - `OnlyComplete`: nothing incomplete reaches the remote, not even over a complete
    file, under `Regular` and `Timely` (no lag, and `LossOrFaults`; `LateSeason` is
    why). `ShownInv` says that the mount shows what the remote has, `HandInv` that
    what is about to be moved is whole or not there, and `FullInv` that what the
    client calls complete is.

* `Intake_proofs`: all five properties of `Intake`, for any copies, ranks and number
  of commands. None looks at more than what a worker found when it began, seconds
  before it admits, so the invariant says what of that is still true: a worker that
  may go within the grace was let (`Granted`, which needs `YoungUnranked`: only a
  copy that is not preferred has a grace); a row held since has a worker that will
  be refused (`Frozen`), as has a row that went away (`WorkersAt`); and no worker
  began beside a copy past admission (`NobodyBefore`, from the election and the
  deferral). `SomebodyMayGo` holds in every state of the right types: of the drops
  that wait, the oldest of the best rank has nobody before it.

* `IndexerWait_proofs`: the three action properties of `IndexerWait`, for any
  configurations and number of commands. Two actors write the row from copies; the
  invariant says that a copy nobody outdated is the row (`Coherent`), that whoever
  works holds a row not yet admitted or one it gave up (`Early`), and that a run
  that fell back has the new window in its copy (`NewWindow`). `Kept` is shown for
  one action after the other: the invariant with what the three properties ask of
  the step.

* `Shared_proofs`, the pool: `OneTransportEach` and `ReadUndisturbed`, for any members, pools
  and threads. Both rest on `Holding`: who dials, has leased or reads holds the
  lock. So a dial finds no transport of another's (`Bare`), what is open is a client
  or a dial's socket (`Owned`), and the map from what is open to the members is an
  injection, which bounds its number. A close may do without the lock; before the
  stop that is a boot that fails, and no call has begun by then (`Crews`, `Phases`).

* `Recovery_proofs`: the three properties of `Recovery`, for any operations in any
  number. Every operation acts on what it read some awaits ago. `Outside` says for
  all of them what copies there are and whose writes still count: a worker at work
  read a row in flight (`Held`), only a reconcile holds copies of the operation's
  (`OpReads`), nobody works before a start is over (`Stopped`), a row being
  forgotten is there until it is dropped (`Doomed`), and what was cancelled has no
  row and a worker still at it will write on a tombstone (`Out`, from which
  `IgnoredStaysOut`). `Inside` is the start: the listing covers the client
  (`Sees`), the rows are as read but for the states the start itself changed
  (`ReadsTrue`), every entry is claimed or yet to be adopted (`Adopts`). These are
  true of a start and not of a recover, beside which workers run. `Accounted` and
  `NoBlindDemotion` follow.

* `Seeding_proofs`: `LastCopyKept` and `NoBlindSeed`, for any releases and any limit
  of cycles. The worker asks the mount once, at the gate, and the janitor passes its
  verdict long before it deletes; the invariant says that the answers stay true
  although they are old. What the mount showed was on the remote (`ShownTrue`), so a
  worker past the gate has the files of its torrent there (`Passed`), and what a
  verdict was made of is on the SSD or, moved meanwhile, on the remote (`Safe`).
  `Spare`, `WorkerHolds` and `PollerHolds` keep the count of cycles in its range,
  for the row and its copies: each DONE row may be demoted once more. `Good` is
  shown for one actor after the other: the invariant with what the two properties
  ask of the step.

Every safety property a run checks is stated by a theorem, of the module's own
specification and for every value of its constants; for `OneBatchSelected`,
`SelectedFits`, `OnlyCompleteShipped` and `KeepsPromise` under the hypotheses named
above. TLC checks them for every setting of `Safe`, some of which lie outside.

Only model-checked: liveness and everything under fairness (`WaiterServed`,
`QueuedProceeds`, `Settles`, `Served`, `WaitEnds`, `SourceSeeds`, `ReAddEnds`,
`LeaseEnds`, `Heals`), which is out of the prover's reach; of `Batcher`, the kind of a
torrent, the order of its episodes (`SortedBy` chooses a permutation that is sorted,
and that there is one was not shown) and so `ResolvedSound`.

## Plan

1. Proofs: `KeepsPromise` for a torrent with `slack` or a file in no batch, with
   what the operator must not do named as hypotheses; that the copies of a row in
   `Seeding` and `Recovery` are those `RowStore` allows.
2. A restart in `MoveGuard`, beside children that live on.

## Not modelled

* Authentication, views, cards and logging; the wire protocols of the clients and
  of Prowlarr; path and bencode parsing, which the modules meet only as calls that
  fail; a SQLite COMMIT that fails after its statements succeeded.
* Injection of the blobs of dropped files (`/injectfuse`), the pausing of public
  torrents on the mount, waiting pairs that a cancel takes along, and
  `reconcile_verify`, which nothing calls.
* Ratio and seed time in the janitor's verdict, and the intake velocity that
  shortens its grace: they only make a deletion rarer or sooner, and `Seeding` lets
  it come at any time.
* The registry of moves is in memory. After a restart beside a child that lives on
  nothing keeps a second move out of its tree; `MoveGuard` has no restart. Nor has
  it the registry's limit of 5000 entries, which takes as many orphans to reach.
* Release names and preferences beyond the rank of a tracker; what an indexer
  answers beyond hit, miss and error.
* What `Batcher` takes as given: the season and episode that a name parses to, and
  sizes that are no numbers or lists with nameless files. The bounds of calls, the safety checks of paths and
  the configuration: they appear as calls that succeed or fail, or as constants.
