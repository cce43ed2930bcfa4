--------------------------- MODULE DownloadSlots ---------------------------
(***************************************************************************)
(* Workers and download slots: who may run, and who may download.           *)
(*                                                                          *)
(* The scheduler spawns at most one worker per torrent                      *)
(* (_running_infohashes).  A worker that finds its row in QUEUED takes the  *)
(* download semaphore and passes the gate _try_admit_download, which counts *)
(* the DOWNLOADING rows and the admissions (_download_admissions) of live   *)
(* workers and has no await in it.  Between the gate and the move to        *)
(* DOWNLOADING lie the client's calls, during which operators, recovery and *)
(* other workers act.                                                       *)
(*                                                                          *)
(* The states of a row that do not matter here are one, "ASIDE".            *)
(***************************************************************************)
EXTENDS Integers, FiniteSets

CONSTANTS
  Torrents,     \* the torrents
  MaxDl,        \* max_active_downloads
  Forgettable,  \* the torrents operators forget or cancel
  Recoverable   \* the torrents POST /api/recover finds without a client entry

ASSUME TorrentsAssumption == IsFiniteSet(Torrents)
ASSUME MaxDlAssumption == MaxDl \in Nat \ {0}
ASSUME OperatorAssumption == Forgettable \subseteq Torrents /\ Recoverable \subseteq Torrents

VARIABLES
  state,    \* state[h]: the state in the database
  pc,       \* pc[h]: where the worker of h is
  seen,     \* seen[h]: the state in the snapshot h was scheduled from
  stale,    \* the workers whose row somebody else has written since they began
  running,  \* _running_infohashes
  adm,      \* _download_admissions
  forced    \* history: the rows recovery moved to DOWNLOADING past the gate

slotVars == <<state, pc, seen, stale, running, adm, forced>>

Standing == {"GONE", "ASIDE", "QUEUED", "DOWNLOADING"}

\* none: no worker.  start: spawned, not run yet.  work: in a state before
\* QUEUED.  wait: for the semaphore.  queued, admitted: in _do_queued before
\* and after the gate.  downloading: in _do_downloading.  ended: returned or
\* cancelled, its done callback still to run.
Pc == {"none", "start", "work", "wait", "queued", "admitted", "downloading", "ended"}

SlotTypeOK ==
  /\ state \in [Torrents -> Standing]
  /\ pc \in [Torrents -> Pc]
  /\ seen \in [Torrents -> Standing]
  /\ stale \subseteq Torrents
  /\ running \subseteq Torrents
  /\ adm \subseteq Torrents
  /\ forced \subseteq Torrents

SlotInit ==
  /\ state = [h \in Torrents |-> "GONE"]
  /\ pc = [h \in Torrents |-> "none"]
  /\ seen = [h \in Torrents |-> "GONE"]
  /\ stale = {} /\ running = {} /\ adm = {} /\ forced = {}

Down == {h \in Torrents : state[h] = "DOWNLOADING"}

-----------------------------------------------------------------------------
(* The scheduler.                                                           *)

\* _schedule_step / _spawn_worker: one worker per hash; QUEUED rows only
\* while fewer than MaxDl live workers are at QUEUED or DOWNLOADING rows.
Spawn(h) ==
  /\ h \notin running /\ state[h] # "GONE"
  /\ state[h] = "QUEUED" =>
       Cardinality({k \in running : state[k] \in {"QUEUED", "DOWNLOADING"}}) < MaxDl
  /\ running' = running \cup {h}
  /\ pc' = [pc EXCEPT ![h] = "start"]
  /\ seen' = [seen EXCEPT ![h] = state[h]]
  /\ UNCHANGED <<state, stale, adm, forced>>

Entry == [GONE |-> "ended", ASIDE |-> "work", QUEUED |-> "wait", DOWNLOADING |-> "downloading"]

\* _process_torrent: a row that moved since the snapshot ends the worker.
Begin(h) ==
  /\ pc[h] = "start"
  /\ pc' = [pc EXCEPT ![h] = IF state[h] = seen[h] THEN Entry[state[h]] ELSE "ended"]
  /\ seen' = [seen EXCEPT ![h] = "GONE"]
  /\ UNCHANGED <<state, stale, running, adm, forced>>

\* The done callback.
Ended(h) ==
  /\ pc[h] = "ended"
  /\ pc' = [pc EXCEPT ![h] = "none"]
  /\ running' = running \ {h}
  /\ stale' = stale \ {h}
  /\ UNCHANGED <<state, seen, adm, forced>>

-----------------------------------------------------------------------------
(* The worker.                                                              *)

Goes(h, to) == pc' = [pc EXCEPT ![h] = to]

\* coordinator.transition to dst: AbandonedError ends a stale worker; leaving
\* QUEUED gives the admission back.
Move(h, dst, to) ==
  \/ /\ h \notin stale
     /\ state' = [state EXCEPT ![h] = dst]
     /\ adm' = IF state[h] = "QUEUED" THEN adm \ {h} ELSE adm
     /\ forced' = forced \ {h}
     /\ Goes(h, to)
  \/ /\ h \in stale
     /\ Goes(h, "ended")
     /\ UNCHANGED <<state, adm, forced>>

\* The intake ends with the row queued ...
Queue(h) ==
  /\ pc[h] = "work"
  /\ h \notin stale
  /\ state' = [state EXCEPT ![h] = "QUEUED"]
  /\ Goes(h, "wait")
  /\ UNCHANGED <<seen, stale, running, adm, forced>>

\* ... or parked, failed, or abandoned.
Park(h) ==
  /\ pc[h] = "work"
  /\ Goes(h, "ended")
  /\ UNCHANGED <<state, seen, stale, running, adm, forced>>

\* async with download_sem: MaxDl permits.
Enter(h) ==
  /\ pc[h] = "wait"
  /\ Cardinality({k \in Torrents : pc[k] \in {"queued", "admitted"}}) < MaxDl
  /\ Goes(h, "queued")
  /\ UNCHANGED <<state, seen, stale, running, adm, forced>>

\* The admissions of workers that are gone are dropped.
Live == adm \cap running

\* Faults: one too many let through; the asking worker's own admission of an
\* earlier round counted against it.
FullLate(h) == Cardinality(Down) + Cardinality(Live \ {h}) > MaxDl

FullWithOwn(h) == Cardinality(Down) + Cardinality(Live) >= MaxDl

\* DOWNLOADING rows in the table and admissions of others, against the cap.
Full(h) == Cardinality(Down) + Cardinality(Live \ {h}) >= MaxDl

\* _try_admit_download, refused: the object is written back, in QUEUED, over
\* whatever the row holds by now, unless the row is gone.
GateRefuses(h) ==
  /\ pc[h] = "queued" /\ Full(h)
  /\ adm' = Live
  /\ IF state[h] = "GONE" THEN UNCHANGED <<state, forced>>
     ELSE state' = [state EXCEPT ![h] = "QUEUED"] /\ forced' = forced \ {h}
  /\ Goes(h, "ended")
  /\ UNCHANGED <<seen, stale, running>>

\* ... and granted.
GateAdmits(h) ==
  /\ pc[h] = "queued" /\ ~Full(h)
  /\ adm' = Live \cup {h}
  /\ Goes(h, "admitted")
  /\ UNCHANGED <<state, seen, stale, running, forced>>

\* The client failed a call, before or after the gate: the object is written
\* back in QUEUED.  Over a tombstone the write is dropped; a row that was
\* erased comes back.
StayQueued(h) ==
  /\ pc[h] \in {"queued", "admitted"}
  /\ \/ state' = [state EXCEPT ![h] = "QUEUED"] /\ forced' = forced \ {h}
     \/ state[h] = "GONE" /\ UNCHANGED <<state, forced>>
  /\ Goes(h, "ended")
  /\ UNCHANGED <<seen, stale, running, adm>>

\* FAILED, WAITING_DISK, RE_ADDING, DONE or MOVING instead of a download.
Divert(h) ==
  /\ pc[h] \in {"queued", "admitted"}
  /\ Move(h, "ASIDE", "ended")
  /\ UNCHANGED <<seen, stale, running>>

\* The entry is on the client and resumed.
Download(h) ==
  /\ pc[h] = "admitted"
  /\ Move(h, "DOWNLOADING", "downloading")
  /\ UNCHANGED <<seen, stale, running>>

\* The download ends (MOVING, FAILED, RE_ADDING), or the worker gives up until
\* the next tick.
Leave(h) ==
  /\ pc[h] = "downloading"
  /\ Move(h, "ASIDE", "ended")
  /\ UNCHANGED <<seen, stale, running>>

Pause(h) ==
  /\ pc[h] = "downloading"
  /\ Goes(h, "ended")
  /\ UNCHANGED <<state, seen, stale, running, adm, forced>>

-----------------------------------------------------------------------------
(* Everybody else.                                                          *)

\* A write of the row of h that its worker, if it has one, knows nothing of.
Write(h, dst) ==
  /\ state' = [state EXCEPT ![h] = dst]
  /\ stale' = IF pc[h] \in {"none", "start"} THEN stale ELSE stale \cup {h}

Appear(h) ==
  /\ state[h] = "GONE"
  /\ Write(h, "ASIDE")
  /\ UNCHANGED <<pc, seen, running, adm, forced>>

\* POST /api/retry on a FAILED row.
Retry(h) ==
  /\ state[h] = "ASIDE"
  /\ Write(h, "QUEUED")
  /\ UNCHANGED <<pc, seen, running, adm, forced>>

\* API or CLI forget: the worker runs on.
Forget(h) ==
  /\ h \in Forgettable /\ state[h] # "GONE"
  /\ Write(h, "GONE")
  /\ forced' = forced \ {h}
  /\ UNCHANGED <<pc, seen, running, adm>>

\* Telegram /cancel: stop_workers_for, then forget.
Cancel(h) ==
  /\ h \in Forgettable /\ state[h] # "GONE"
  /\ Write(h, "GONE")
  /\ pc' = [pc EXCEPT ![h] = IF @ = "none" THEN "none" ELSE "ended"]
  /\ forced' = forced \ {h}
  /\ UNCHANGED <<seen, running, adm>>

\* fix_orphan: a QUEUED row with no entry on the client (it may only be
\* waiting for its slot) is added there and put in DOWNLOADING.
Recover(h) ==
  /\ h \in Recoverable /\ state[h] = "QUEUED"
  /\ Write(h, "DOWNLOADING")
  /\ forced' = forced \cup {h}
  /\ UNCHANGED <<pc, seen, running, adm>>

\* The process stops and starts: only the table survives.
Reboot ==
  /\ pc' = [h \in Torrents |-> "none"]
  /\ running' = {} /\ adm' = {} /\ stale' = {}
  /\ seen' = [h \in Torrents |-> "GONE"]
  /\ UNCHANGED <<state, forced>>

-----------------------------------------------------------------------------
Worker(h) ==
  \/ Begin(h) \/ Ended(h) \/ Queue(h) \/ Park(h) \/ Enter(h)
  \/ GateRefuses(h) \/ GateAdmits(h) \/ StayQueued(h) \/ Divert(h)
  \/ Download(h) \/ Leave(h) \/ Pause(h)

Outside(h) == Appear(h) \/ Retry(h) \/ Forget(h) \/ Cancel(h) \/ Recover(h)

SlotNext ==
  \/ \E h \in Torrents : Spawn(h) \/ Worker(h) \/ Outside(h)
  \/ Reboot

SlotSpec == SlotInit /\ [][SlotNext]_slotVars

\* The scheduler looks at every row on every pass, asyncio semaphores are first
\* come, first served (SF: the cap in the way of either comes and goes; one
\* condition for both, since a hash in the one's reach is out of the other's),
\* the client does not fail for ever, and no worker sleeps for ever in one
\* place (every client call has a timeout, downloads stall out).
SlotFairness ==
  \A h \in Torrents :
    /\ SF_slotVars(Spawn(h) \/ Enter(h)) /\ SF_slotVars(GateRefuses(h) \/ GateAdmits(h))
    /\ WF_slotVars(\/ Begin(h) \/ Ended(h) \/ Park(h) \/ Queue(h)
               \/ StayQueued(h) \/ Divert(h) \/ Download(h) \/ Leave(h))

\* ... of a process that is left alone in the end.
SlotFairSpec == SlotSpec /\ SlotFairness /\ <>[][~Reboot /\ \A h \in Torrents : ~Outside(h)]_slotVars

-----------------------------------------------------------------------------
(* Properties.                                                              *)

\* The workers past the gate.
Admitted == {h \in Torrents : pc[h] = "admitted"}

\* No interleaving of workers, operators and restarts puts more rows in
\* DOWNLOADING than max_active_downloads, those moved there by recovery aside
\* ("atomic admit via _download_admissions, extras stay QUEUED").
CapRespected == Cardinality(Down \ forced) <= MaxDl

\* ... and the rows that are still to get there are counted already: an
\* admission that was granted fits, whatever the worker awaits before it uses it.
AdmissionsFit == Cardinality((Down \ forced) \cup Admitted) <= MaxDl

\* A worker past the gate has its admission on record until it leaves: the
\* clean-up of dead workers' admissions never takes a live one's.
AdmittedIsRecorded == \A h \in Torrents : pc[h] = "admitted" => h \in adm /\ h \in running

\* A row in QUEUED is not passed over for ever: it is admitted, or others
\* download or hold an admission, again and again.  (Not "or others are past
\* the gate": the admission of a cancelled worker outlives it, and counts again
\* whenever the hash, if it comes back, has a new worker.)
QueuedProceeds ==
  \A h \in Torrents :
    []<>(\/ state[h] # "QUEUED" \/ pc[h] = "admitted"
         \/ \E k \in Torrents \ {h} : state[k] = "DOWNLOADING" \/ k \in Live)

-----------------------------------------------------------------------------
(* What the comments say and the code does not do.                          *)

\* config.example.toml: "Maximum concurrent torrents actively downloading on
\* VPS2 SSD".
NeverMoreThanMax == Cardinality(Down) <= MaxDl
=============================================================================
