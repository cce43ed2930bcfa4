----------------------------- MODULE Pipeline -----------------------------
(***************************************************************************)
(* One torrent through the pipeline: QUEUED, DOWNLOADING (batch after       *)
(* batch), MOVING, RE_ADDING, DONE.                                         *)
(*                                                                          *)
(* What the program knows of the bytes comes from four places that do not   *)
(* agree at every moment: the client's per-file progress, the sizes on the  *)
(* SSD, the remote, and the fuse mount, which shows the remote late.  The   *)
(* worker reads one, awaits, and acts on another; the client writes while   *)
(* it is not paused; a crash may fall between any two steps.                *)
(*                                                                          *)
(* A torrent of no batches is moved as a single file with its siblings, one *)
(* of one batch as a folder, one of more batches batch by batch.            *)
(***************************************************************************)
EXTENDS Integers, FiniteSetsExt

CONSTANTS
  Settings,    \* the torrents and surroundings looked at
  AllFiles,    \* the files of all of them
  Size,        \* Size[f]: the bytes of f
  Cap,         \* ssd.max_inflight_bytes: what admission reserves for a row, at most
  MaxFails,    \* max_batch_failures_per_tick
  MaxParks,    \* download_max_stall_parks
  MaxHeals     \* heal attempts

\* files:    the files of the torrent
\* batches:  batches_total, once it is resolved
\* batchOf:  the batch of a file; batches for a file in none
\* main:     the single file of a torrent without batches
\* mixed:    classification "mixed": episodes of several kinds
\* slack:    the files that are less than 0.1 % of the torrent
\* near:     the client may report 99.9 % of a file that lacks a piece
\* prealloc: the client creates every file at full size when it is added
\* loses:    the entry may be gone when the daemon is back
\* lag:      the mount shows a moved file only some time after the move
\* maxFaults, maxCrashes: bounds of the failures (client, rclone), and of the
\*           restarts of the daemon
Setting ==
  [files : SUBSET AllFiles, batches : Nat, batchOf : [AllFiles -> Nat],
   main : AllFiles, mixed : BOOLEAN, slack : SUBSET AllFiles, near : BOOLEAN,
   prealloc : BOOLEAN, loses : BOOLEAN, lag : BOOLEAN,
   maxFaults : Nat, maxCrashes : Nat]

ASSUME SettingsAssumption ==
  \A s \in Settings :
    /\ s \in Setting
    /\ s.main \in s.files
    /\ \A f \in s.files : s.batchOf[f] \in 0..s.batches
ASSUME SizeAssumption == IsFiniteSet(AllFiles) /\ Size \in [AllFiles -> Nat] /\ Cap \in Nat
ASSUME BoundAssumption == {MaxFails, MaxParks, MaxHeals} \subseteq Nat \ {0}

VARIABLES
  setting,  \* the torrent, the client and the mount; never changed
  state,    \* the row's state
  total,    \* batches_total
  index,    \* batch_index
  pc,       \* where the worker is
  todo,     \* the file names the worker has in hand
  entry,    \* the torrent's entry in the client of the SSD
  want,     \* the files with priority 1
  have,     \* have[f]: the client's progress of f
  holes,    \* files whose bytes were removed while the client counts on them
  disk,     \* disk[f]: f on the SSD
  folder,   \* the content folder exists on the SSD
  remote,   \* remote[f]: f on the remote
  fuse,     \* the files the mount shows at their full size
  tries,    \* consecutive_batch_failures
  parks,    \* _dl_stall_parks
  heals,    \* heal attempts of _readd_heal_track
  faults,   \* failures so far
  crashes   \* restarts so far

row == <<state, total, index>>
worker == <<pc, todo, tries, parks, heals>>
client == <<entry, want, have, holes>>
bytes == <<disk, folder, remote, fuse>>
vars == <<setting, row, worker, client, bytes, faults, crashes>>

Files == setting.files
Batches == setting.batches
BatchOf == setting.batchOf
Main == setting.main
Mixed == setting.mixed
Slack == setting.slack
Near == setting.near
Prealloc == setting.prealloc
Loses == setting.loses
Lag == setting.lag

State == {"QUEUED", "DOWNLOADING", "MOVING", "RE_ADDING", "DONE", "FAILED"}

\* boot: the daemon is not back yet.  idle: no
\* worker.  The others name the step the worker is about to take.
Pc == {"boot", "idle", "setup", "loop", "wait", "pause", "move", "flip",
       "advance", "finish", "mpause", "sort", "ship", "shipHeld", "drop",
       "wipe", "handover", "hwait", "hmove"}

TypeOK ==
  /\ setting \in Settings
  /\ state \in State
  /\ total \in {0, Batches}
  /\ index \in 0..Batches
  /\ pc \in Pc
  /\ todo \subseteq Files
  /\ entry \in {"none", "paused", "running"}
  /\ want \subseteq Files
  /\ have \in [Files -> {"none", "some", "near", "all"}]
  /\ holes \subseteq Files
  /\ disk \in [Files -> {"absent", "short", "shell", "whole"}]
  /\ folder \in BOOLEAN
  /\ remote \in [Files -> {"none", "bad", "whole"}]
  /\ fuse \subseteq Files
  /\ tries \in 0..(MaxFails - 1)
  /\ parks \in 0..MaxParks
  /\ heals \in 0..MaxHeals
  /\ faults \in 0..setting.maxFaults
  /\ crashes \in 0..setting.maxCrashes

\* A row admitted to QUEUED; an earlier run may have moved files already.
Init ==
  /\ setting \in Settings
  /\ state = "QUEUED" /\ total = 0 /\ index = 0
  /\ pc = "idle" /\ todo = {} /\ tries = 0 /\ parks = 0 /\ heals = 0
  /\ entry = "none" /\ want = {} /\ holes = {}
  /\ have = [f \in Files |-> "none"]
  /\ disk = [f \in Files |-> "absent"]
  /\ folder = FALSE
  /\ fuse \in SUBSET Files
  /\ \E done \in SUBSET Files :
       /\ fuse \subseteq done
       /\ ~ Lag => fuse = done
       /\ remote = [f \in Files |-> IF f \in done THEN "whole" ELSE "none"]
  /\ faults = 0 /\ crashes = 0

-----------------------------------------------------------------------------
(* Reading the four sources.                                                *)

Batched == Batches > 1
Batch(i) == {f \in Files : BatchOf[f] = i}

\* Fault: what earlier batches lack stays selected.
NeedUpTo(i) == {f \in Files : BatchOf[f] <= i} \ fuse

\* _fuse_skipped: what batch i still needs.
Need(i) == Batch(i) \ fuse

Claimed == {f \in Files : have[f] \in {"near", "all"}}
FullSize == {f \in Files : disk[f] \in {"shell", "whole"}}
OnSsd == {f \in Files : disk[f] # "absent"}

\* The progress of fs reads 99.9 %: the slack files may lack.
Mostly(fs) ==
  LET bulk == fs \ Slack
  IN  fs \subseteq Claimed \/ (bulk # {} /\ bulk \subseteq Claimed)

TorrentComplete == Mostly(want)

-----------------------------------------------------------------------------
(* Steps the actions are made of.                                           *)

Fine == UNCHANGED faults
Trouble == faults < setting.maxFaults /\ faults' = faults + 1

Goes(to) == pc' = to /\ UNCHANGED <<todo, tries, parks, heals>>

\* The worker returns; the next tick starts over.
Park == pc' = "idle" /\ todo' = {} /\ tries' = 0 /\ UNCHANGED <<parks, heals>>

\* The same tick tries again, MaxFails times.
Retry ==
  IF tries + 1 < MaxFails
  THEN pc' = "loop" /\ tries' = tries + 1 /\ UNCHANGED <<todo, parks, heals>>
  ELSE Park

Gone ==
  /\ entry' = "none" /\ want' = {} /\ holes' = {}
  /\ have' = [f \in Files |-> "none"]

Selects(fs, to) == want' = fs /\ entry' = to /\ UNCHANGED <<have, holes>>
Becomes(to) == entry' = to /\ UNCHANGED <<want, have, holes>>

\* add_torrent(paused, skip_check=False): everything selected, what lies on
\* the SSD checked; a client that preallocates creates every file now.
Added(wanted, to) ==
  /\ disk' = [f \in Files |-> IF Prealloc /\ disk[f] \in {"absent", "short"}
                              THEN "shell" ELSE disk[f]]
  /\ have' = [f \in Files |-> CASE disk[f] = "absent" -> "none"
                                [] disk[f] = "whole" -> "all"
                                [] OTHER -> "some"]
  /\ entry' = to /\ want' = wanted /\ holes' = {}
  /\ folder' = TRUE
  /\ UNCHANGED <<remote, fuse>>

Wiped == disk' = [f \in Files |-> "absent"] /\ folder' = FALSE

\* Removed from the SSD behind the client's back.
Punched(fs) == holes' = holes \cup {f \in fs : have[f] \in {"some", "near"}}

\* rclone move of the files m: the remote has them, the SSD no longer.
ShippedBytes(m) ==
  /\ disk' = [f \in Files |-> IF f \in m THEN "absent" ELSE disk[f]]
  /\ remote' = [f \in Files |->
       IF f \in m THEN (IF disk[f] = "whole" THEN "whole" ELSE "bad") ELSE remote[f]]
  /\ fuse' = IF Lag THEN fuse ELSE fuse \cup m
  /\ UNCHANGED folder

Shipped(m) == ShippedBytes(m) /\ Punched(m) /\ UNCHANGED <<want, have>>

-----------------------------------------------------------------------------
(* The client and the mount.                                                *)

\* A selected file advances.  Pieces the client counts are not fetched again:
\* a file with a hole ends at its size without its bytes.
Fetch(f) ==
  /\ f \in Files
  /\ entry = "running" /\ f \in want /\ have[f] # "all"
  /\ \E h \in {"some", "near", "all"} :
       /\ h = "near" => Near
       /\ h = "some" => have[f] = "none"
       /\ h = "near" => have[f] # "near"
       /\ have' = [have EXCEPT ![f] = h]
       /\ \E d \in {"short", "shell", "whole"} :
            /\ d = "whole" <=> h = "all" /\ f \notin holes
            /\ d = "short" => disk[f] # "shell"
            /\ disk' = [disk EXCEPT ![f] = d]
  /\ UNCHANGED <<row, worker, entry, want, holes, folder, remote, fuse, faults, crashes, setting>>

\* Pieces cross file boundaries: the client writes into files that are not
\* selected, and completes one that is no longer than a piece.
Spill(f) ==
  /\ f \in Files
  /\ entry = "running" /\ f \notin want /\ have[f] = "none"
  /\ \E g \in want : have[g] # "all"
  /\ \/ /\ have' = [have EXCEPT ![f] = "some"]
        /\ \E d \in {"short", "shell"} :
             /\ d = "short" => disk[f] # "shell"
             /\ disk' = [disk EXCEPT ![f] = d]
     \/ /\ f \in Slack
        /\ have' = [have EXCEPT ![f] = "all"]
        /\ disk' = [disk EXCEPT ![f] = "whole"]
  /\ UNCHANGED <<row, worker, entry, want, holes, folder, remote, fuse, faults, crashes, setting>>

Index(f) ==
  /\ f \in Files
  /\ remote[f] # "none" /\ f \notin fuse
  /\ fuse' = fuse \cup {f}
  /\ UNCHANGED <<row, worker, client, disk, folder, remote, faults, crashes, setting>>

-----------------------------------------------------------------------------
(* QUEUED.                                                                  *)

\* _do_queued of a row without an entry: nothing is added for content the
\* mount shows in full.
Add ==
  /\ pc = "idle" /\ state = "QUEUED" /\ entry = "none"
  /\ IF Files \subseteq fuse
     THEN Fine /\ state' = "RE_ADDING" /\ UNCHANGED <<worker, client, bytes>>
     ELSE \/ Fine /\ Added(Files, "paused") /\ Goes("setup") /\ UNCHANGED state
          \* rejected
          \/ Trouble /\ state' = "FAILED" /\ UNCHANGED <<worker, client, bytes>>
  /\ UNCHANGED <<total, index, crashes, setting>>

\* _setup_queued_download: the batches and the priorities of the first; ...
Setup ==
  /\ pc = "setup" /\ Batches > 0 /\ ~ \A i \in 0..(Batches - 1) : Need(i) = {}
  /\ \/ /\ Fine
        /\ state' = "DOWNLOADING" /\ total' = Batches /\ index' = 0
        /\ Selects(Need(0), IF Need(0) = {} THEN "paused" ELSE "running")
        /\ Park
     \* no download slot: parked before the row is written
     \/ /\ Fine
        /\ Selects(Need(0), "paused")
        /\ Park
        /\ UNCHANGED row
     \* the client fails: parked with the cursors written
     \/ /\ Trouble
        /\ total' = Batches /\ index' = 0
        /\ Park
        /\ UNCHANGED <<state, client>>
  /\ UNCHANGED <<bytes, crashes, setting>>

\* ... every batch on the mount since the row was looked at; ...
SetupRemote ==
  /\ pc = "setup" /\ Batches > 0 /\ \A i \in 0..(Batches - 1) : Need(i) = {}
  /\ state' = "RE_ADDING" /\ total' = Batches /\ index' = 0
  /\ Wiped
  /\ Gone
  /\ Park
  /\ UNCHANGED <<remote, fuse, faults, crashes, setting>>

\* ... or no batches: the whole torrent, unless its one file is on the mount.
SetupSingle ==
  /\ pc = "setup" /\ Batches = 0
  /\ \/ /\ Files \subseteq fuse /\ Cardinality(Files) = 1 /\ Fine
        /\ state' = "MOVING"
        /\ UNCHANGED client
     \/ /\ ~ (Files \subseteq fuse /\ Cardinality(Files) = 1) /\ Fine
        /\ state' = "DOWNLOADING"
        /\ Becomes("running")
     \/ /\ Fine \/ Trouble
        /\ UNCHANGED <<state, client>>
  /\ Park
  /\ UNCHANGED <<total, index, bytes, crashes, setting>>

\* _do_queued of a row whose entry is there: selection first, then resume.
Adopt ==
  /\ pc = "idle" /\ state = "QUEUED" /\ entry # "none"
  /\ LET sel == IF Batches > 0 THEN Need(index) ELSE want
     IN  \/ Fine /\ Selects(sel, "running") /\ state' = "DOWNLOADING"
         \/ Trouble /\ Selects(sel, entry) /\ UNCHANGED state
  /\ UNCHANGED <<total, index, worker, bytes, crashes, setting>>

-----------------------------------------------------------------------------
(* DOWNLOADING.                                                             *)

\* _do_downloading of a row whose batches were never resolved: they are
\* written, then the selection, then the resume; each may fail.  Without an
\* entry there is no file list to resolve them from, and the row stays.
Enter ==
  /\ pc = "idle" /\ state = "DOWNLOADING" /\ total = 0 /\ entry # "none"
  /\ total' = Batches
  /\ \/ /\ Fine
        /\ Selects(IF Batches > 0 THEN Need(index) ELSE want, "running")
        /\ Goes(IF Batched THEN "loop" ELSE "wait")
     \/ /\ Trouble
        /\ Selects(IF Batches > 0 THEN Need(index) ELSE want, entry)
        /\ Goes(IF Batched THEN "loop" ELSE "wait")
     \/ /\ Trouble /\ Batches > 0
        /\ Park
        /\ UNCHANGED client
  /\ UNCHANGED <<state, index, bytes, crashes, setting>>

\* ... and of one whose batches are known: nothing is resumed; a torrent of
\* more batches gets the selection of the current one again, if it can be set;
\* without an entry its batch cannot be told, and the row stays.
Again ==
  /\ pc = "idle" /\ state = "DOWNLOADING" /\ total > 0
  /\ Batched => entry # "none"
  /\ IF Batched
     THEN /\ \/ /\ Fine
                /\ index' = IF index < Batches THEN index ELSE Batches - 1
                /\ Selects(Need(index'), entry)
             \/ /\ Trouble
                /\ UNCHANGED <<index, client>>
          /\ Goes("loop")
     ELSE /\ Goes("wait")
          /\ UNCHANGED <<index, client, faults>>
  /\ UNCHANGED <<state, total, bytes, crashes, setting>>

\* A round of the loop: what of the batch is not on the mount, read once for
\* the wait and for the move after it.
Loop ==
  /\ pc = "loop"
  /\ todo' = IF index < Batches THEN Need(index) ELSE {}
  /\ pc' = "wait"
  /\ UNCHANGED <<row, tries, parks, heals, client, bytes, faults, crashes, setting>>

AwaitsBatch == Batched /\ index < Batches

\* Fault: files that are on the mount already are awaited too.
ArrivedAll ==
  IF AwaitsBatch THEN Batch(index) \subseteq Claimed \cap FullSize ELSE TorrentComplete

\* _wait_for_completion: the batch is claimed and at full size on the SSD.
Arrived ==
  IF AwaitsBatch THEN todo \subseteq Claimed \cap FullSize ELSE TorrentComplete

Wait ==
  /\ pc = "wait" /\ entry # "none" /\ Arrived
  /\ Goes(IF AwaitsBatch THEN "pause" ELSE "finish")
  /\ UNCHANGED <<row, client, bytes, faults, crashes, setting>>

\* "torrent vanished mid-download": the row fails.
Vanished ==
  /\ pc = "wait" /\ entry = "none"
  /\ state' = "FAILED"
  /\ Park
  /\ UNCHANGED <<total, index, client, bytes, faults, crashes, setting>>

\* A stall, for progress below 99.9 % only: parked, and after MaxParks stalls
\* without progress, such as a paused entry makes none, failed, the entry
\* deleted with its files.
Stall ==
  /\ pc = "wait" /\ entry # "none"
  /\ ~ (IF AwaitsBatch THEN Mostly(todo) ELSE TorrentComplete)
  /\ pc' = "idle" /\ todo' = {} /\ tries' = 0
  /\ \/ /\ parks' \in (IF entry = "running" THEN {1, parks + 1} ELSE {parks + 1}) \cap 1..MaxParks
        /\ UNCHANGED <<row, client, disk, folder>>
     \/ /\ parks = MaxParks
        /\ parks' = 0
        /\ state' = "FAILED"
        /\ Gone
        /\ Wiped
        /\ UNCHANGED <<total, index>>
  /\ UNCHANGED <<heals, remote, fuse, faults, crashes, setting>>

\* _pause_verified; a client that checks hashes parks the row.
Pause ==
  /\ pc = "pause"
  /\ \/ Fine /\ Becomes("paused") /\ Goes("move")
     \/ Trouble /\ Retry /\ UNCHANGED client
     \/ Trouble /\ Park /\ UNCHANGED client
  /\ UNCHANGED <<row, bytes, crashes, setting>>

Moved == IF index + 1 < Batches THEN "flip" ELSE "advance"

\* Fault: what rclone left on the SSD does not count.
LeftNothing(m) == {}

\* _left_on_disk of the names in hand, once rclone has moved m of them.
Left(m) == (todo \cap OnSsd) \ m

\* _move_and_clean_batch: an rclone that reports success and left files is
\* tried again; one that timed out parks the row; another failure fails it.
Move ==
  /\ pc = "move"
  /\ \E m \in SUBSET (todo \cap OnSsd) :
       /\ Shipped(m)
       /\ \/ /\ IF m = todo \cap OnSsd THEN Fine ELSE Trouble
             /\ IF Left(m) = {}
                THEN pc' = Moved /\ tries' = 0 /\ UNCHANGED <<todo, parks, heals>>
                ELSE Retry
             /\ UNCHANGED state
          \/ Trouble /\ todo # {} /\ Park /\ UNCHANGED state
          \/ Trouble /\ todo # {} /\ Park /\ state' = "FAILED"
  /\ UNCHANGED <<total, index, entry, crashes, setting>>

\* _flip_to_next_batch: the next batch selected, and resumed if it needs
\* anything; a failure parks the row where it was.
Flip ==
  /\ pc = "flip"
  /\ LET n == Need(index + 1)
     IN  \/ /\ Fine
            /\ Selects(n, IF n = {} THEN entry ELSE "running")
            /\ Goes("advance")
         \/ /\ Trouble
            /\ UNCHANGED client \/ Selects(n, entry)
            /\ Park
  /\ UNCHANGED <<row, bytes, crashes, setting>>

\* The index is written last.
Advance ==
  /\ pc = "advance"
  /\ index' = index + 1
  /\ Goes(IF index + 1 < Batches THEN "loop" ELSE "finish")
  /\ UNCHANGED <<state, total, client, bytes, faults, crashes, setting>>

Finish ==
  /\ pc = "finish"
  /\ state' = "MOVING"
  /\ Park
  /\ UNCHANGED <<total, index, client, bytes, faults, crashes, setting>>

-----------------------------------------------------------------------------
(* MOVING.                                                                  *)

\* _do_moving reads the client's file list first: the only word on progress
\* this tick has.  Without an entry the call fails and the row stays parked.
List ==
  /\ pc = "idle" /\ state = "MOVING" /\ entry # "none"
  /\ todo' = Claimed
  /\ pc' = "mpause"
  /\ UNCHANGED <<row, tries, parks, heals, client, bytes, faults, crashes, setting>>

PauseMoving ==
  /\ pc = "mpause"
  /\ \/ Fine /\ Becomes("paused") /\ Goes("sort")
     \/ Trouble /\ Park /\ UNCHANGED client
  /\ UNCHANGED <<row, bytes, crashes, setting>>

\* Present, but not at full size: deleted before anything is moved.
Short == {f \in Files : disk[f] = "short"}

\* Fault: files at full size are taken for complete.
CompletedBySize == FullSize

\* Claimed in the list and at full size on the SSD: what may be moved.
Completed == todo \cap FullSize

\* Fault: nothing holds the move back.
NoHold == {}

\* At full size and not claimed, and selected: the row is not done yet.
Held == (FullSize \ todo) \cap want

\* The branches of _do_moving: what rclone is given.
Payload ==
  IF Mixed /\ ~ Batched THEN Need(0)
  ELSE IF Batches > 0 THEN Completed
  ELSE IF Main \in FullSize THEN Completed ELSE {}

\* Nothing of the folder, or not the single file, is complete: the client is
\* resumed and the row parked.
Unfinished ==
  IF Batches = 0 THEN Main \in FullSize \ Completed
  ELSE ~ Batched /\ ~ Mixed /\ Completed = {} /\ FullSize \cup Short # {}

\* The single file is neither on the SSD nor on the mount; no folder.
Lost ==
  IF Batches = 0 THEN Main \notin FullSize \cup fuse
  ELSE ~ Batched /\ ~ Mixed /\ ~ folder

\* The client is asked to go on; best effort.
Resumed == (Fine /\ entry' = "running") \/ (Trouble /\ UNCHANGED entry)

\* A recheck of what is left of the SSD after d was deleted.
Rechecked(d) ==
  /\ have' = [f \in Files |-> IF f \in d \/ disk[f] = "absent" THEN "none"
                              ELSE IF disk[f] = "whole" THEN "all" ELSE "some"]
  /\ holes' = {}

\* Classification of the files on the SSD, and the branch taken.
Sort ==
  /\ pc = "sort"
  /\ disk' = [f \in Files |-> IF f \in Short THEN "absent" ELSE disk[f]]
  /\ \/ /\ Punched(Short)
        /\ UNCHANGED have
        /\ CASE Lost -> state' = "FAILED" /\ Park /\ Fine /\ UNCHANGED entry
             [] Unfinished -> Resumed /\ Park /\ UNCHANGED state
             [] OTHER ->
                  /\ todo' = Payload \cap FullSize
                  /\ pc' = IF Held = {} THEN "ship" ELSE "shipHeld"
                  /\ Fine
                  /\ UNCHANGED <<state, entry, tries, parks, heals>>
     \* a single file at full size is checked before the client is resumed
     \/ /\ Batches = 0 /\ Unfinished
        /\ Rechecked(Short)
        /\ Park
        /\ UNCHANGED <<state, entry, faults>>
  /\ UNCHANGED <<total, index, want, folder, remote, fuse, crashes, setting>>

\* The move; held back, the client is resumed instead of the entry dropped.
Ship ==
  /\ pc \in {"ship", "shipHeld"}
  /\ \E m \in SUBSET todo :
       /\ Shipped(m)
       /\ \/ /\ m = todo
             /\ \/ pc = "ship" /\ Goes("drop") /\ Fine /\ UNCHANGED entry
                \/ pc = "shipHeld" /\ Park /\ Resumed
             /\ UNCHANGED state
          \/ Trouble /\ todo # {} /\ Park /\ UNCHANGED <<state, entry>>
          \/ Trouble /\ todo # {} /\ Park /\ state' = "FAILED" /\ UNCHANGED entry
  /\ UNCHANGED <<total, index, crashes, setting>>

\* The entry is deleted without its files, best effort ...
Drop ==
  /\ pc = "drop"
  /\ \/ Fine /\ Gone
     \/ Trouble /\ UNCHANGED client
  /\ Goes("wipe")
  /\ UNCHANGED <<row, bytes, crashes, setting>>

\* ... the folder is removed ...
Wipe ==
  /\ pc = "wipe"
  /\ Wiped
  /\ Punched(OnSsd)
  /\ Goes("handover")
  /\ UNCHANGED <<row, entry, want, have, remote, fuse, faults, crashes, setting>>

\* ... and the row handed on.
Handover ==
  /\ pc = "handover"
  /\ state' = "RE_ADDING"
  /\ Park
  /\ UNCHANGED <<total, index, client, bytes, faults, crashes, setting>>

-----------------------------------------------------------------------------
(* RE_ADDING.                                                               *)

\* Fault: the gate looks at what was selected.
GateByBatches == \A i \in 0..(Batches - 1) : Need(i) = {}

\* The gate: every file of the torrent on the mount, at its size.
Gate == Files \subseteq fuse

\* _do_re_add past the gate: the injection replaces any entry of the SSD.
Inject ==
  /\ pc = "idle" /\ state = "RE_ADDING" /\ Gate
  /\ state' = "DONE"
  /\ Gone
  /\ UNCHANGED <<total, index, worker, bytes, faults, crashes, setting>>

\* The age limit of a row in RE_ADDING.
GiveUp ==
  /\ pc = "idle" /\ state = "RE_ADDING"
  /\ state' = "FAILED"
  /\ UNCHANGED <<total, index, worker, client, bytes, faults, crashes, setting>>

\* _maybe_heal_readd_missing, long after the gate first failed: files that are
\* on neither side are downloaded again, through the entry if there is one.
Heal ==
  /\ pc = "idle" /\ state = "RE_ADDING" /\ ~ Gate /\ heals < MaxHeals
  /\ (Files \ fuse) \cap OnSsd = {}
  /\ \/ /\ Fine
        /\ IF entry = "none"
           THEN Added(Files \ fuse, "running")
           ELSE Selects(Files \ fuse, "running") /\ UNCHANGED bytes
        /\ todo' = Files \ fuse /\ pc' = "hwait"
        /\ UNCHANGED <<tries, parks, heals>>
     \* added, and not selected or resumed; selected, and not resumed
     \/ /\ Trouble
        /\ IF entry = "none" THEN Added(Files, "paused")
                             ELSE Selects(Files \ fuse, entry) /\ UNCHANGED bytes
        /\ UNCHANGED worker
  /\ UNCHANGED <<row, crashes, setting>>

\* The missing files are there; a pause that fails is ignored.
HealArrived ==
  /\ pc = "hwait" /\ todo \subseteq Claimed \cap FullSize
  /\ Goes("hmove")
  /\ \/ Fine /\ Becomes("paused")
     \/ Trouble /\ UNCHANGED client
  /\ UNCHANGED <<row, bytes, crashes, setting>>

HealFailed == pc' = "idle" /\ todo' = {} /\ heals' = heals + 1 /\ UNCHANGED <<tries, parks>>

HealStall ==
  /\ pc = "hwait" /\ ~ Mostly(todo)
  /\ HealFailed
  /\ UNCHANGED <<row, client, bytes, faults, crashes, setting>>

\* The move; a success is the last attempt.
HealMove ==
  /\ pc = "hmove"
  /\ \E m \in SUBSET (todo \cap OnSsd) :
       \/ /\ m = todo \cap OnSsd
          /\ pc' = "idle" /\ todo' = {} /\ heals' = MaxHeals
          /\ UNCHANGED <<tries, parks>>
          /\ \/ Fine /\ ShippedBytes(m) /\ Gone
             \* the entry could not be deleted
             \/ Trouble /\ Shipped(m) /\ UNCHANGED entry
       \/ Shipped(m) /\ Trouble /\ HealFailed /\ UNCHANGED entry
  /\ UNCHANGED <<row, crashes, setting>>

-----------------------------------------------------------------------------
(* Restart.                                                                 *)

\* The daemon dies between two steps.  What it kept in memory is lost; the
\* entry may be lost too before it is back.
Crash ==
  /\ pc # "boot" /\ state \notin {"DONE", "FAILED"}
  /\ crashes < setting.maxCrashes /\ crashes' = crashes + 1
  /\ pc' = "boot" /\ todo' = {} /\ tries' = 0 /\ parks' = 0 /\ heals' = 0
  /\ UNCHANGED client \/ (Loses /\ Gone)
  /\ UNCHANGED <<row, bytes, faults, setting>>

\* The reconciliation at boot leaves a row in flight as it is, whether its
\* entry is there or not.
Boot ==
  /\ pc = "boot"
  /\ Goes("idle")
  /\ UNCHANGED <<row, client, bytes, faults, crashes, setting>>

\* fix_orphan, for a row whose entry is gone: added again, paused; in MOVING
\* left alone while anything of the torrent is on the SSD.
Recovered ==
  CASE state \in {"QUEUED", "DOWNLOADING"} ->
         \/ Fine /\ Added(Files, "paused") /\ state' = "DOWNLOADING"
         \/ Trouble /\ state' = "FAILED" /\ UNCHANGED <<client, bytes>>
    [] state = "MOVING" /\ OnSsd = {} ->
         Fine /\ state' = "RE_ADDING" /\ UNCHANGED <<client, bytes>>
    [] OTHER -> Fine /\ UNCHANGED <<state, client, bytes>>

\* POST /api/recover, between two runs of the worker (Recovery has the races).
Recover ==
  /\ pc = "idle" /\ entry = "none"
  /\ Recovered
  /\ UNCHANGED <<total, index, worker, crashes, setting>>

-----------------------------------------------------------------------------
Download == Enter \/ Again \/ Loop \/ Wait \/ Vanished \/ Pause \/ Move \/ Flip \/ Advance \/ Finish
Moving == List \/ PauseMoving \/ Sort \/ Ship \/ Drop \/ Wipe \/ Handover
Readd == Inject \/ Heal \/ HealArrived \/ HealMove
Work ==
  \/ Add \/ Setup \/ SetupRemote \/ SetupSingle \/ Adopt
  \/ Download \/ Moving \/ Readd \/ Boot

Timer == Stall \/ HealStall \/ GiveUp

Environment == \E f \in AllFiles : Fetch(f) \/ Spill(f) \/ Index(f)

Next == Work \/ Timer \/ Environment \/ Crash \/ Recover

Spec == Init /\ [][Next]_vars

\* The scheduler spawns a worker on every tick until the row is settled, a
\* stall is noticed, the mount catches up, and the swarm serves what is
\* selected whenever the client runs often enough.  The age limit and a
\* failing heal are not owed, nor is the operator's recover.
Fairness ==
  /\ WF_vars(Work)
  /\ WF_vars(Stall)
  /\ \A f \in AllFiles : WF_vars(Index(f)) /\ SF_vars(Fetch(f))

FairSpec == Spec /\ Fairness

-----------------------------------------------------------------------------
(* Properties.                                                              *)

\* A torrent whose every file is in a batch, or is its only one, and a client
\* that reports what it has.
Regular ==
  /\ ~ Near /\ Slack = {}
  /\ IF Batches = 0 THEN Files = {Main} ELSE \A f \in Files : BatchOf[f] < Batches

\* A lost entry and a failure do not come together.
LossOrFaults == ~ Loses \/ setting.maxFaults = 0

\* ... and the mount shows a file as soon as it is moved.
Timely == ~ Lag /\ LossOrFaults

\* Only complete files ever reach the remote.
OnlyCompleteShipped == \A f \in Files : remote[f] # "bad"

\* The index never passes a batch with a file the remote lacks: through
\* partial moves, failed flips, restarts and a mount that lags.
PassedBatchesDelivered ==
  \A f \in Files : BatchOf[f] < index => remote[f] # "none"

OneBatchWanted == \E i \in 0..(Batches - 1) : want \subseteq Batch(i)

\* The client never runs with files of two batches selected, whatever failed or
\* was lost before, not when MOVING resumes it either: the SSD holds one batch.
OneBatchSelected ==
  Batched /\ entry = "running" /\ state \in {"QUEUED", "DOWNLOADING", "MOVING"}
    => OneBatchWanted

BytesOf(fs) == MapThenSumSet(LAMBDA f : Size[f], fs)

\* What a running client may fetch before the torrent is moved fits the window
\* that was reserved for it, the cap of a batch, whatever was interrupted
\* before.
SelectedFits ==
  Batches > 0 /\ entry = "running" /\ state \in {"QUEUED", "DOWNLOADING", "MOVING"}
    => BytesOf(want) <= Cap

\* A row is done, and its cross-seed added, only when the remote has every
\* file of the torrent, selected or not.
DoneDelivered == state = "DONE" => \A f \in Files : remote[f] # "none"

\* A file as the promise sees it (one the torrent has not is not owed), and
\* the row.
Place ==
  [f \in AllFiles |-> IF f \notin Files \/ remote[f] # "none" THEN "delivered"
                      ELSE IF disk[f] = "whole" THEN "held" ELSE "missing"]

Outcome == CASE state = "DONE" -> "done" [] state = "FAILED" -> "failed" [] OTHER -> "open"

Promise == INSTANCE Delivery WITH File <- AllFiles, outcome <- Outcome, at <- Place

\* The pipeline keeps the promise of Delivery: whatever it batches, pauses,
\* moves, wipes, heals and recovers, no step takes a complete file off the SSD
\* that the remote has not got, nor ends in DONE short of a file.  The first copy
\* the remote gets is complete; that no later one spoils it: OnlyCompleteShipped.
KeepsPromise == Promise!Spec

\* Every row is settled.
Settles == <>(state \in {"DONE", "FAILED"})
=============================================================================
