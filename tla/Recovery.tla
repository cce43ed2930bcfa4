----------------------------- MODULE Recovery -----------------------------
(***************************************************************************)
(* What brings rows and client back together, and what takes them apart:    *)
(* the reconcile of a start and of POST /api/recover, forget (API and       *)
(* Telegram), --reset and --full, unignore.                                 *)
(*                                                                          *)
(* One release with two torrents: the one racing, and the one downloaded in *)
(* its stead.  The rows are the database's, the entries the client's, the   *)
(* bytes lie on the SSD or on the remote, and every operation reads one of  *)
(* them, awaits, and acts on another.  The daemon's workers run on during a *)
(* recover and a forget; what they do is Pipeline's and Seeding's, cut down *)
(* here to what they read and write.                                        *)
(***************************************************************************)
EXTENDS FiniteSets, Integers

CONSTANTS
  Racing,      \* the torrent listed on VPS1
  CrossSeed,   \* the torrent of the same content downloaded for it
  None,
  MaxRetries,  \* recovery.max_failed_retries
  Operations,  \* what the operator and the world may do
  MaxEvents    \* bound: how often, but for what needs a stop of the daemon

ASSUME BoundAssumption == {MaxRetries, MaxEvents} \subseteq Nat
ASSUME HashAssumption == Cardinality({Racing, CrossSeed, None}) = 3

VARIABLES
  row,      \* the table torrent_state
  dead,     \* the hashes whose row is tombstoned
  ignored,  \* the table ignored_torrents
  here,     \* here[h]: the client's racing entry of h: none, on the ssd, at fuse
  ssd,      \* the content on the SSD: none, part, all
  remote,   \* the content is on the remote
  wk,       \* wk[h]: the worker of row h, and the row as it read it
  fresh,    \* <<who, h>>: who's copy of row h is what was written last
  op,       \* the operation under way
  seen,     \* the entries as the operation listed them
  snap,     \* the rows as the operation read them
  left,     \* the hashes the operation has still to deal with
  events    \* how often Operations happened

table == <<row, dead, ignored>>
client == <<here, ssd, remote>>
workers == <<wk, fresh>>
operation == <<op, seen, snap, left>>
vars == <<table, client, workers, operation, events>>

Hash == {Racing, CrossSeed}
InFlight == {"QUEUED", "DOWNLOADING", "MOVING", "RE_ADDING"}
Gone == [state |-> "none", dst |-> None, inj |-> {}, retries |-> 0]

\* dst: dest_infohash.  inj: injected_private_hashes.
Row == [state : InFlight \cup {"none", "NEW", "DONE", "FAILED"},
        dst : Hash \cup {None}, inj : SUBSET Hash, retries : 0..MaxRetries]

NoOp == [kind |-> "none", at |-> "none", h |-> None,
         files |-> FALSE, ignore |-> FALSE, hard |-> FALSE]
Idle == [at |-> "idle", mem |-> Gone]
Unseen == [h \in Hash |-> "none"]
Unread == [h \in Hash |-> Gone]

TypeOK ==
  /\ row \in [Hash -> Row]
  /\ dead \subseteq {h \in Hash : row[h].state # "none"}
  /\ ignored \subseteq Hash
  /\ here \in [Hash -> {"none", "ssd", "fuse"}]
  /\ ssd \in {"none", "part", "all"}
  /\ remote \in BOOLEAN
  /\ wk \in [Hash -> [at : {"idle", "run", "added", "dying", "shipped", "dropped"},
                      mem : Row]]
  /\ fresh \subseteq {"worker", "op"} \X {h \in Hash : row[h].state # "none" /\ h \notin dead}
  /\ op \in [kind : {"none", "down", "boot", "recover", "forget"},
             at : {"none", "list", "rows", "check", "adopt", "retry",
                   "delete", "verify", "again", "still", "drop"},
             h : Hash \cup {None}, files : BOOLEAN, ignore : BOOLEAN, hard : BOOLEAN]
  /\ seen \in [Hash -> {"none", "part", "all", "fuse"}]
  /\ snap \in [Hash -> Row]
  /\ left \subseteq Hash
  /\ events \in 0..MaxEvents

Init ==
  /\ row = Unread /\ dead = {} /\ ignored = {}
  /\ here = Unseen /\ ssd = "none" /\ remote = FALSE
  /\ wk = [h \in Hash |-> Idle] /\ fresh = {}
  /\ op = NoOp /\ seen = Unseen /\ snap = Unread /\ left = {}
  /\ events = 0

-----------------------------------------------------------------------------
(* Rows.                                                                    *)

\* Tombstoned rows are invisible to every read.
Live(h) == row[h].state # "none" /\ h \notin dead

\* The hashes a row goes by.
Claims(h, r) == IF r.state = "none" THEN {} ELSE ({h, r.dst} \cup r.inj) \ {None}

\* The torrent row h downloads.
Mine(h, r) == IF r.dst # None THEN r.dst ELSE CrossSeed

To(r, state) == [r EXCEPT !.state = state]

\* upsert: the whole row, whatever it has become; dropped on a tombstone.
Upsert(h, r) ==
  /\ IF h \in dead
     THEN UNCHANGED <<row, fresh>>
     ELSE /\ row' = [row EXCEPT ![h] = r]
          /\ fresh' = fresh \ {<<"worker", h>>, <<"op", h>>}
  /\ UNCHANGED dead

\* transition: only over the version that was read.
Transition(who, h, r) ==
  IF <<who, h>> \in fresh THEN Upsert(h, r) ELSE UNCHANGED <<row, fresh, dead>>

NoWrite == UNCHANGED <<row, fresh, dead>>

\* Something bounded happens.
Event(kind) == kind \in Operations /\ events < MaxEvents /\ events' = events + 1

-----------------------------------------------------------------------------
(* The client.                                                              *)

\* add_torrent of h, paused, in the SSD's directory; an entry that is there
\* is kept.
Added(h) ==
  /\ here' = [here EXCEPT ![h] = IF @ = "none" THEN "ssd" ELSE @]
  /\ ssd' = IF here[h] = "none" /\ ssd = "none" THEN "part" ELSE ssd
  /\ UNCHANGED remote

\* Deleting an entry with its files deletes what lies at its save path.
Deleted(h, files) ==
  /\ here' = [here EXCEPT ![h] = "none"]
  /\ ssd' = IF files /\ here[h] = "ssd" THEN "none" ELSE ssd
  /\ remote' = (remote /\ ~ (files /\ here[h] = "fuse"))

Fetch ==
  /\ ssd = "part" /\ \E h \in Hash : here[h] = "ssd"
  /\ ssd' = "all"
  /\ UNCHANGED <<here, remote, table, workers, operation, events>>

\* An entry is removed in the client's own interface.
Lose(h) ==
  /\ here[h] # "none"
  /\ Event("lose")
  /\ here' = [here EXCEPT ![h] = "none"]
  /\ UNCHANGED <<ssd, remote, table, workers, operation>>

-----------------------------------------------------------------------------
(* The daemon: intake and workers.                                          *)

Running == op.kind \notin {"down", "boot"}

\* _process_source_group, under the operations' lock.
Discover ==
  /\ op.kind = "none"
  /\ Racing \notin ignored
  /\ \A h \in Hash : ~ Live(h)
  /\ Upsert(Racing, To(Gone, "NEW"))
  /\ UNCHANGED <<ignored, client, wk, operation, events>>

Spawn(h) ==
  /\ Running /\ Live(h) /\ wk[h].at = "idle"
  /\ row[h].state \in InFlight \cup {"NEW"}
  /\ wk' = [wk EXCEPT ![h] = [at |-> "run", mem |-> row[h]]]
  /\ fresh' = fresh \cup {<<"worker", h>>}
  /\ UNCHANGED <<table, client, operation, events>>

At(h, at, states) == wk[h].at = at /\ wk[h].mem.state \in states
Goes(h, at) == wk' = [wk EXCEPT ![h].at = at]

\* The worker writes what comes of its row, and returns.
Finish(h, r) == Transition("worker", h, r) /\ wk' = [wk EXCEPT ![h] = Idle]

\* It returns for now; on many of the ways out it saves its copy first.
Parks(h) ==
  /\ At(h, "run", InFlight \cup {"NEW"})
  /\ NoWrite \/ Upsert(h, wk[h].mem)
  /\ wk' = [wk EXCEPT ![h] = Idle]
  /\ UNCHANGED <<ignored, client, operation, events>>

\* NEW to QUEUED: Intake, IndexerWait, DownloadSlots.
Admit(h) ==
  /\ At(h, "run", {"NEW"})
  /\ \E s \in {"QUEUED", "FAILED"} : Finish(h, To(wk[h].mem, s))
  /\ UNCHANGED <<ignored, client, operation, events>>

\* _do_queued: an entry decides by where it lies; without one, content on the
\* remote is re-added and all else is added, ...
Queued(h) ==
  /\ At(h, "run", {"QUEUED"})
  /\ LET r == wk[h].mem
         mine == Mine(h, r)
         known == [r EXCEPT !.dst = mine]
     IN  \/ /\ here[mine] = "fuse"
            /\ Finish(h, To(known, CASE remote -> "DONE"
                                     [] ssd = "all" -> "DOWNLOADING"
                                     [] OTHER -> "RE_ADDING"))
            /\ UNCHANGED client
         \/ /\ here[mine] = "ssd"
            /\ Finish(h, To(known, "DOWNLOADING"))
            /\ UNCHANGED client
         \/ /\ here[mine] = "none" /\ remote
            /\ Finish(h, To(r, "RE_ADDING"))
            /\ UNCHANGED client
         \/ /\ here[mine] = "none" /\ ~ remote
            /\ \/ Added(mine) /\ Goes(h, "added") /\ NoWrite
               \/ Finish(h, To(r, "FAILED")) /\ UNCHANGED client
  /\ UNCHANGED <<ignored, operation, events>>

\* ... and set up: downloading; parked with its hash written; or failed, the
\* entry kept, or deleted for a file that is too large.
Record(h) ==
  /\ At(h, "added", {"QUEUED"})
  /\ LET known == [wk[h].mem EXCEPT !.dst = Mine(h, wk[h].mem)]
     IN  \/ Finish(h, To(known, "DOWNLOADING")) /\ UNCHANGED client
         \/ /\ Upsert(h, known)
            /\ wk' = [wk EXCEPT ![h] = Idle]
            /\ UNCHANGED client
         \/ /\ Finish(h, To(known, "FAILED"))
            /\ Deleted(known.dst, TRUE) \/ UNCHANGED client
  /\ UNCHANGED <<ignored, operation, events>>

\* _do_downloading: complete; or given up.
Downloading(h) ==
  /\ At(h, "run", {"DOWNLOADING"})
  /\ LET r == wk[h].mem
     IN  \/ /\ here[Mine(h, r)] # "none" /\ ssd = "all"
            /\ Finish(h, To(r, "MOVING"))
         \/ /\ Live(h)
            /\ Goes(h, "dying") /\ NoWrite
  /\ UNCHANGED <<ignored, client, operation, events>>

\* _fail_downloading_row: the entry goes with its files, "pre-move by
\* construction"; then the row, written over whatever it is by now.
Dying(h) ==
  /\ At(h, "dying", {"DOWNLOADING"})
  /\ IF wk[h].mem.dst = None THEN UNCHANGED client ELSE Deleted(wk[h].mem.dst, TRUE)
  /\ Upsert(h, To(wk[h].mem, "FAILED"))
  /\ wk' = [wk EXCEPT ![h] = Idle]
  /\ UNCHANGED <<ignored, operation, events>>

\* _do_moving: the bytes first, ...
Moving(h) ==
  /\ At(h, "run", {"MOVING"})
  /\ LET r == wk[h].mem
     IN  \/ /\ here[Mine(h, r)] # "none" /\ ssd = "all"
            /\ remote' = TRUE /\ ssd' = "none" /\ UNCHANGED here
            /\ Goes(h, "shipped") /\ NoWrite
         \/ /\ here[Mine(h, r)] # "none" /\ ssd = "none" /\ remote
            /\ Goes(h, "shipped") /\ NoWrite /\ UNCHANGED client
         \/ /\ ssd # "all" /\ ~ remote
            /\ Finish(h, To(r, "FAILED")) /\ UNCHANGED client
  /\ UNCHANGED <<ignored, operation, events>>

\* ... then the entry, if the client lets it, ...
Handover(h) ==
  /\ At(h, "shipped", {"MOVING"})
  /\ Deleted(Mine(h, wk[h].mem), FALSE) \/ UNCHANGED client
  /\ Goes(h, "dropped")
  /\ NoWrite /\ UNCHANGED <<ignored, operation, events>>

\* ... then the row.
Handed(h) ==
  /\ At(h, "dropped", {"MOVING"})
  /\ Finish(h, To(wk[h].mem, "RE_ADDING"))
  /\ UNCHANGED <<ignored, client, operation, events>>

\* _do_re_adding: the row's torrents at fuse once the remote has the content.
ReAdd(h) ==
  /\ At(h, "run", {"RE_ADDING"})
  /\ LET r == wk[h].mem
     IN  \/ /\ remote
            /\ \E late \in SUBSET {Racing} :
                 LET put == {Mine(h, r)} \cup late
                 IN  /\ here' = [g \in Hash |-> IF g \in put /\ here[g] = "none"
                                                THEN "fuse" ELSE here[g]]
                     /\ Finish(h, [r EXCEPT !.state = "DONE", !.dst = Mine(h, r),
                                            !.inj = @ \cup (late \ {h, Mine(h, r)})])
            /\ UNCHANGED <<ssd, remote>>
         \/ /\ ~ remote
            /\ Finish(h, To(r, "FAILED"))
            /\ UNCHANGED client
  /\ UNCHANGED <<ignored, operation, events>>

\* The janitor stamps a DONE row fuse_verified: a narrow update, but a version
\* that an operation which has read the row does not know of.
Stamp(h) ==
  /\ Running /\ Live(h) /\ row[h].state = "DONE" /\ <<"op", h>> \in fresh
  /\ fresh' = fresh \ {<<"op", h>>}
  /\ UNCHANGED <<table, client, wk, operation, events>>

Worker(h) ==
  \/ Spawn(h) \/ Parks(h) \/ Admit(h) \/ Queued(h) \/ Record(h) \/ Downloading(h)
  \/ Dying(h) \/ Moving(h) \/ Handover(h) \/ Handed(h) \/ ReAdd(h)

-----------------------------------------------------------------------------
(* Down, and what the operator does before the start.                       *)

Crash ==
  /\ op.kind # "down"
  /\ Event("crash")
  /\ op' = [NoOp EXCEPT !.kind = "down"]
  /\ wk' = [h \in Hash |-> Idle] /\ fresh' = {}
  /\ seen' = Unseen /\ snap' = Unread /\ left' = {}
  /\ UNCHANGED <<table, client>>

Boots == op' = [NoOp EXCEPT !.kind = "boot", !.at = "list"]

Start ==
  /\ op.kind = "down"
  /\ Boots
  /\ UNCHANGED <<table, client, workers, seen, snap, left, events>>

\* run --reset: the database goes.
Reset ==
  /\ op.kind = "down" /\ "reset" \in Operations
  /\ row' = Unread /\ dead' = {} /\ ignored' = {}
  /\ Boots
  /\ UNCHANGED <<client, workers, seen, snap, left, events>>

\* run --full: _do_reset, then _do_full_reset: every entry the client lets go
\* of with its files, then the SSD.
FullReset ==
  /\ op.kind = "down" /\ "wipe" \in Operations
  /\ row' = Unread /\ dead' = {} /\ ignored' = {}
  /\ \E kept \in SUBSET Hash :
       /\ here' = [h \in Hash |-> IF h \in kept THEN here[h] ELSE "none"]
       /\ remote' = (remote /\ ~ \E h \in Hash \ kept : here[h] = "fuse")
       /\ ssd' = "none"
  /\ Boots
  /\ UNCHANGED <<workers, seen, snap, left, events>>

\* unignore: the tombstone is lifted too, and the row is what it was.
Unignore(h) ==
  /\ op.kind = "down" /\ h \in ignored /\ "unignore" \in Operations
  /\ ignored' = ignored \ {h} /\ dead' = dead \ {h}
  /\ UNCHANGED <<row, client, workers, operation, events>>

\* gc_tombstones, a day and more after the forget.
Gc(h) ==
  /\ Running /\ h \in dead /\ wk[h].at = "idle"
  /\ row' = [row EXCEPT ![h] = Gone] /\ dead' = dead \ {h}
  /\ UNCHANGED <<ignored, client, workers, operation, events>>

-----------------------------------------------------------------------------
(* reconcile: _reconcile_snapshot, at the start without verification, for   *)
(* POST /api/recover with.                                                  *)

Reconciling == op.kind \in {"boot", "recover"}
Verify == op.kind = "recover"

Recover ==
  /\ op.kind = "none"
  /\ Event("recover")
  /\ op' = [NoOp EXCEPT !.kind = "recover", !.at = "list"]
  /\ UNCHANGED <<table, client, workers, seen, snap, left>>

\* A start that raises is no start; a recover that raises is over.
Raises ==
  /\ op' = IF op.kind = "boot" THEN [NoOp EXCEPT !.kind = "down"] ELSE NoOp
  /\ seen' = Unseen /\ snap' = Unread /\ left' = {}
  /\ fresh' = fresh \ ({"op"} \X Hash)

Listed(hs) == [h \in Hash |-> CASE h \notin hs \/ here[h] = "none" -> "none"
                                [] here[h] = "fuse" -> "fuse"
                                [] OTHER -> IF ssd = "all" THEN "all" ELSE "part"]

\* Fault: a listing that fails is an empty one.
ListsBlind ==
  /\ Reconciling /\ op.at = "list"
  /\ seen' \in {Listed(Hash), Unseen}
  /\ op' = [op EXCEPT !.at = "rows"]
  /\ UNCHANGED <<table, client, workers, snap, left, events>>

\* The client's entries, three attempts.
List ==
  /\ Reconciling /\ op.at = "list"
  /\ \/ /\ seen' = Listed(Hash)
        /\ op' = [op EXCEPT !.at = "rows"]
        /\ UNCHANGED <<snap, left, fresh>>
     \/ Raises
  /\ UNCHANGED <<table, client, wk, events>>

Rows ==
  /\ Reconciling /\ op.at = "rows"
  /\ snap' = [h \in Hash |-> IF Live(h) THEN row[h] ELSE Gone]
  /\ fresh' = fresh \cup ({"op"} \X {h \in Hash : Live(h)})
  /\ left' = {h \in Hash : Live(h)}
  /\ op' = [op EXCEPT !.at = "check"]
  /\ UNCHANGED <<table, client, wk, seen, events>>

\* _force_state: a row forgotten or overtaken meanwhile is left alone.
ForceState(h, r) == Transition("op", h, r)

\* fix_orphan.
FixOrphan(h, r) ==
  \/ /\ r.state \in {"DOWNLOADING", "QUEUED"}
     /\ \/ ForceState(h, To(r, "FAILED")) /\ UNCHANGED client
        \/ /\ Added(Mine(h, r))
           /\ LET back == [r EXCEPT !.state = "DOWNLOADING", !.dst = Mine(h, r)]
              IN  IF r.state = "QUEUED" THEN ForceState(h, back) ELSE Upsert(h, back)
  \/ /\ r.state = "MOVING" /\ ssd = "none"
     /\ ForceState(h, To(r, "RE_ADDING")) /\ UNCHANGED client
  \/ /\ r.state = "MOVING" => ssd # "none"
     /\ r.state \notin {"DOWNLOADING", "QUEUED"}
     /\ NoWrite /\ UNCHANGED client

Present(h, r) == \E c \in Claims(h, r) : seen[c] # "none"

\* A DONE row with an entry.  With verification a row of unknown kind is
\* written back as it was read, and one whose bytes are on the SSD and not at
\* the entry's save path is moved.
CheckDone(h, r) ==
  \/ NoWrite
  \/ Verify /\ Upsert(h, r)
  \/ /\ Verify /\ ssd = "all" /\ ~ remote
     /\ \E c \in Claims(h, r) : seen[c] = "fuse" /\ here[c] # "none"
     /\ Transition("op", h, To(r, "MOVING"))

\* One row against the listing; a DONE row that was lost may be stale, and
\* transition raises.
Check(h) ==
  /\ Reconciling /\ op.at = "check" /\ h \in left
  /\ LET r == snap[h]
         lost == ~ Present(h, r)
         stale == <<"op", h>> \notin fresh
     IN  \/ /\ r.state = "DONE" /\ lost /\ stale
            /\ Raises /\ UNCHANGED <<row, dead, client>>
         \/ /\ \/ /\ r.state = "DONE" /\ lost /\ ~ stale
                  /\ ForceState(h, To(r, "RE_ADDING")) /\ UNCHANGED client
               \/ /\ r.state = "DONE" /\ ~ lost
                  /\ CheckDone(h, r) /\ UNCHANGED client
               \/ /\ r.state \in InFlight /\ lost /\ Verify
                  /\ FixOrphan(h, r)
               \/ /\ r.state # "DONE" /\ ~ (r.state \in InFlight /\ lost /\ Verify)
                  /\ NoWrite /\ UNCHANGED client
            /\ left' = left \ {h}
            /\ UNCHANGED <<op, seen, snap>>
  /\ UNCHANGED <<ignored, wk, events>>

\* Fault: without the entries on the SSD that are not complete.
UnknownsComplete ==
  {h \in Hash : seen[h] \in {"all", "fuse"}} \ UNION {Claims(h, snap[h]) : h \in Hash}

\* The entries no row goes by.
Unknowns ==
  {h \in Hash : seen[h] # "none"} \ UNION {Claims(h, snap[h]) : h \in Hash}

Checked ==
  /\ Reconciling /\ op.at = "check" /\ left = {}
  /\ left' = Unknowns
  /\ op' = [op EXCEPT !.at = "adopt"]
  /\ UNCHANGED <<table, client, workers, seen, snap, events>>

\* To the row of the same release, unless that is this torrent's already.
Link(h) ==
  \E g \in Hash \ {h} :
    /\ Live(g) /\ h \notin row[g].inj
    /\ Upsert(g, [row[g] EXCEPT !.inj = @ \cup {h}])

\* A row of its own, in the state the entry is in.  The client may say of an
\* entry at fuse that it lacks something; a verification, that its bytes are
\* on the SSD.
Adopted(h) ==
  CASE seen[h] = "all" -> {"MOVING"}
    [] seen[h] = "part" -> {"DOWNLOADING"}
    [] OTHER -> {"DONE", "RE_ADDING"}
                  \cup (IF Verify /\ ssd = "all" /\ ~ remote THEN {"MOVING"} ELSE {})

\* Fault: the ignore list is not asked.
AdoptAny(h) ==
  /\ Reconciling /\ op.at = "adopt" /\ h \in left
  /\ \/ seen[h] # "part" /\ Link(h)
     \/ \E s \in Adopted(h) : Upsert(h, [Gone EXCEPT !.state = s, !.dst = h])
  /\ left' = left \ {h}
  /\ UNCHANGED <<ignored, client, wk, op, seen, snap, events>>

\* One entry without a row.
Adopt(h) ==
  /\ Reconciling /\ op.at = "adopt" /\ h \in left
  /\ IF h \in ignored
     THEN NoWrite
     ELSE \/ seen[h] # "part" /\ Link(h)
          \* no row, or none of the same name
          \/ \E s \in Adopted(h) : Upsert(h, [Gone EXCEPT !.state = s, !.dst = h])
  /\ left' = left \ {h}
  /\ UNCHANGED <<ignored, client, wk, op, seen, snap, events>>

Reconciled ==
  /\ Reconciling /\ op.at = "adopt" /\ left = {}
  /\ IF op.kind = "boot"
     THEN op' = [op EXCEPT !.at = "retry"] /\ UNCHANGED seen
     ELSE op' = NoOp /\ seen' = Unseen
  /\ snap' = Unread
  /\ fresh' = fresh \ ({"op"} \X Hash)
  /\ UNCHANGED <<table, client, wk, left, events>>

\* Fault: without end.
RetryAlways ==
  /\ op.kind = "boot" /\ op.at = "retry"
  /\ row' = [h \in Hash |-> IF Live(h) /\ row[h].state = "FAILED"
               THEN [row[h] EXCEPT !.state = "NEW", !.retries = @ + 1] ELSE row[h]]
  /\ op' = NoOp /\ seen' = Unseen
  /\ UNCHANGED <<dead, ignored, client, workers, snap, left, events>>

\* auto_retry_failed, but for what the tracker has deleted; the daemon is up.
Retry ==
  /\ op.kind = "boot" /\ op.at = "retry"
  /\ \E hs \in SUBSET {h \in Hash : Live(h) /\ row[h].state = "FAILED"
                                             /\ row[h].retries < MaxRetries} :
       row' = [h \in Hash |-> IF h \in hs
                 THEN [row[h] EXCEPT !.state = "NEW", !.retries = @ + 1] ELSE row[h]]
  /\ op' = NoOp /\ seen' = Unseen
  /\ UNCHANGED <<dead, ignored, client, workers, snap, left, events>>

-----------------------------------------------------------------------------
(* forget_torrent of one row.  POST /api/forget lets the worker run on;     *)
(* Telegram stops it first and forgets for good (hard) what it is not to    *)
(* remember.                                                                *)

Forgets(h, files, ignore, hard) ==
  /\ op' = [NoOp EXCEPT !.kind = "forget", !.at = "list", !.h = h,
                        !.files = files, !.ignore = ignore, !.hard = hard]
  /\ snap' = [Unread EXCEPT ![h] = row[h]]

\* A hash that two rows go by is refused.
Forget(h) ==
  /\ op.kind = "none" /\ Live(h)
  /\ \A g \in Hash \ {h} : Live(g) => h \notin Claims(g, row[g])
  /\ Event("forget")
  /\ \E files, ignore \in BOOLEAN :
       \/ Forgets(h, files, ignore, FALSE) /\ UNCHANGED workers
       \/ /\ Forgets(h, files, ignore, ~ ignore)
          /\ wk' = [wk EXCEPT ![h] = Idle] /\ fresh' = fresh \ {<<"worker", h>>}
  /\ UNCHANGED <<table, client, seen, left>>

Forgetting(at) == op.kind = "forget" /\ op.at = at

\* The row is kept, for the operator to try again.
Keeps == op' = NoOp /\ seen' = Unseen /\ snap' = Unread /\ left' = {}

Known == Claims(op.h, snap[op.h])
Entries == {c \in Hash : seen[c] # "none"}

Discovers ==
  /\ Forgetting("list")
  /\ \/ Keeps
     \/ /\ seen' = Listed(Known)
        /\ left' = {c \in Known : here[c] # "none"}
        /\ op' = [op EXCEPT !.at = "delete"]
        /\ UNCHANGED snap
  /\ UNCHANGED <<table, client, workers, events>>

\* One entry of the listing, with files only if the listing had it on the SSD;
\* the first round, and the second for what is left.
DeletesOne(c) ==
  /\ Forgetting("delete") \/ Forgetting("again")
  /\ c \in left
  /\ Deleted(c, op.files /\ seen[c] # "fuse") \/ UNCHANGED client
  /\ left' = left \ {c}
  /\ UNCHANGED <<table, workers, op, seen, snap, events>>

DeletedAll ==
  /\ Forgetting("delete") \/ Forgetting("again")
  /\ left = {}
  /\ op' = [op EXCEPT !.at = IF op.at = "again" THEN "still"
                             ELSE IF Entries = {} THEN "drop" ELSE "verify"]
  /\ UNCHANGED <<table, client, workers, seen, snap, left, events>>

Verifies ==
  /\ Forgetting("verify")
  /\ \/ Keeps
     \/ /\ seen' = Listed(Entries)
        /\ left' = {c \in Entries : here[c] # "none"}
        /\ op' = [op EXCEPT !.at = "again"]
        /\ UNCHANGED snap
  /\ UNCHANGED <<table, client, workers, events>>

\* A listing that fails here counts as an empty one.
LooksAgain ==
  /\ Forgetting("still")
  /\ \/ \E c \in Entries : here[c] # "none" /\ Keeps
     \/ /\ \/ \A c \in Entries : here[c] = "none"
           \/ Entries # {}
        /\ op' = [op EXCEPT !.at = "drop"]
        /\ UNCHANGED <<seen, snap, left>>
  /\ UNCHANGED <<table, client, workers, events>>

\* The SSD, the ignore list, the row.
Drops ==
  /\ Forgetting("drop")
  /\ ssd' = IF op.files THEN "none" ELSE ssd
  /\ ignored' = IF op.ignore THEN ignored \cup {op.h} ELSE ignored
  /\ IF op.hard
     THEN row' = [row EXCEPT ![op.h] = Gone] /\ dead' = dead \ {op.h}
     ELSE /\ dead' = IF row[op.h].state = "none" THEN dead ELSE dead \cup {op.h}
          /\ UNCHANGED row
  /\ fresh' = fresh \ {<<"worker", op.h>>}
  /\ Keeps
  /\ UNCHANGED <<here, remote, wk, events>>

-----------------------------------------------------------------------------
Next ==
  \/ \E h \in Hash : Lose(h) \/ Worker(h) \/ Stamp(h) \/ Unignore(h) \/ Gc(h) \/ Forget(h)
  \/ Fetch \/ Discover
  \/ Crash \/ Start \/ Reset \/ FullReset
  \/ Recover \/ List \/ Rows \/ Checked \/ Reconciled \/ Retry
  \/ \E h \in Hash : Check(h) \/ Adopt(h) \/ DeletesOne(h)
  \/ Discovers \/ DeletedAll \/ Verifies \/ LooksAgain \/ Drops

Spec == Init /\ [][Next]_vars

-----------------------------------------------------------------------------
(* Properties.                                                              *)

\* When a start hands over to the workers, the database and the client agree
\* again: every entry is some row's, unless it was cancelled, and every DONE
\* row has an entry.  What a crash, a reset or the operator did to either side
\* before is made up for (_reconcile_snapshot; architecture.md, Recovery).
Accounted ==
  (op.kind = "boot" /\ op.at = "retry") =>
    /\ \A c \in Hash \ (ignored \cup dead) :
         here[c] # "none" => \E h \in Hash : Live(h) /\ c \in Claims(h, row[h])
    /\ \A h \in Hash : Live(h) /\ row[h].state = "DONE" => Present(h, row[h])

\* A start takes a DONE row for lost only if the client has no entry under any
\* of its names: not because the client did not answer ("reconcile must never
\* act on blindness"), and not because the torrent seeds under an injected hash.
NoBlindDemotion ==
  [][\A h \in Hash :
       op.kind = "boot" /\ Live(h) /\ row[h].state = "DONE" /\ row'[h].state # "DONE"
         => \A c \in Claims(h, row[h]) : here[c] = "none"]_vars

\* A cancelled torrent gets no row again, whoever finds it: the poll, a
\* recovery that meets its entry, a worker that was at it when it went.
IgnoredStaysOut ==
  [][\A h \in ignored \cap ignored' : ~ Live(h) => ~ Live(h)']_vars

\* "Fuse/remote copies are never touched".
RemoteKept == [][remote => remote']_vars

\* "reaching here means every dest entry is gone": a forget that drops the row
\* has left none of the entries it found.
GoneWhenDropped ==
  Forgetting("drop") => \A c \in Entries : here[c] = "none"
=============================================================================
