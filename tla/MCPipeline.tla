---------------------------- MODULE MCPipeline ----------------------------
(* Model checking of Pipeline: the torrents, which Batcher makes of their   *)
(* file lists, and the surroundings.                                        *)
EXTENDS Pipeline, Batcher, TLC

CONSTANTS a, b, c, d

\* The sizes of the files.
Sizes == (a :> 1) @@ (b :> 1) @@ (c :> 2) @@ (d :> 1)

\* Three episodes, and two files that have no tag, of which d is no video in
\* the first case and one in the second.
EpA == Listed(a, 1, 1, Size[a], TRUE)
EpB == Listed(b, 2, 2, Size[b], TRUE)
EpC == Listed(c, 3, 3, Size[c], TRUE)
NoVideo == Listed(d, 4, Untagged, Size[d], FALSE)
Video == Listed(d, 4, Untagged, Size[d], TRUE)

\* The torrent of a list, with a mount and a client that give trouble.
Torrent(fs) ==
  [files |-> FilesOf(fs), batches |-> Len(ResolveBatches(fs, Cap)),
   batchOf |-> [f \in AllFiles |-> IF f \in FilesOf(fs) THEN BatchOfFile(fs, Cap, f) ELSE 0],
   main |-> SingleFile(fs), mixed |-> Kind(fs) = "mixed",
   slack |-> {}, near |-> FALSE, prealloc |-> FALSE,
   loses |-> FALSE, lag |-> TRUE, maxFaults |-> 2, maxCrashes |-> 2]

\* Two files in the first batch, one in the second, on a lagging mount.
Season == Torrent(<<EpC, EpA, EpB>>)

\* ... whose entry may be lost; neither rclone nor the client fails.
SeasonLost == [Season EXCEPT !.loses = TRUE, !.maxFaults = 0]

\* One file in each of two batches, one in none; the client preallocates.
SeasonExtra ==
  [Torrent(<<EpA, EpC, NoVideo>>) EXCEPT !.prealloc = TRUE, !.maxFaults = 0]

\* A folder of two files in one batch.
Folder == [Torrent(<<EpA, EpB>>) EXCEPT !.loses = TRUE]

\* ... one of them tiny.
FolderTiny == [Folder EXCEPT !.slack = {b}, !.maxFaults = 0]

\* Two episodes in one batch, and another video in none.
Medley == [Torrent(<<EpA, Video, EpB>>) EXCEPT !.loses = TRUE, !.maxFaults = 0]

\* A single file with a sibling; rclone and the client do not fail.
Sibling ==
  [Torrent(<<EpA, NoVideo>>) EXCEPT !.loses = TRUE, !.lag = FALSE, !.maxFaults = 0]

\* A single file.
Single == [Torrent(<<EpA>>) EXCEPT !.loses = TRUE, !.lag = FALSE]

Safe ==
  {Season, SeasonLost, SeasonExtra, Folder, FolderTiny, Medley, Sibling, Single}

\* For liveness: failures, or a mount that lags, and no restart.
Steady ==
  {[Season EXCEPT !.maxCrashes = 0, !.lag = FALSE],
   [Season EXCEPT !.maxCrashes = 0, !.maxFaults = 0]}

\* The season of a client that rounds, ...
Rounded == {[Season EXCEPT !.near = TRUE, !.maxFaults = 0, !.maxCrashes = 0]}

\* ... the single file with a sibling when rclone may fail once, ...
SiblingFault == {[Sibling EXCEPT !.maxFaults = 1, !.maxCrashes = 0]}

\* ... two files in the last batch, on a lagging mount, with nothing failing, ...
LateSeason ==
  LET late == <<Listed(c, 1, 1, Size[c], TRUE), Listed(a, 2, 2, Size[a], TRUE),
                Listed(b, 3, 3, Size[b], TRUE)>>
  IN  {[Torrent(late) EXCEPT !.maxFaults = 0, !.maxCrashes = 0]}

\* ... and the season when the daemon restarts once.
Restarted == {[Season EXCEPT !.lag = FALSE, !.maxFaults = 0, !.maxCrashes = 1]}

\* A row whose list is not feasible fails before it gets its batches.
ASSUME ListsFeasible ==
  \A fs \in {<<EpC, EpA, EpB>>, <<EpA, EpC, NoVideo>>, <<EpA, Video, EpB>>} : Feasible(fs, Cap)
=============================================================================
