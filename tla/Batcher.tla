------------------------------ MODULE Batcher ------------------------------
(***************************************************************************)
(* From the file list of a torrent to its kind and its batches: classify,   *)
(* _resolve_batches and make_batches, which several steps of the worker and *)
(* every restart evaluate anew, on the same list and a cap that is frozen.  *)
(*                                                                          *)
(* A listing is a sequence of files in the client's order.  Names and       *)
(* episode tags are compared only, so they are numbers; what a regular      *)
(* expression makes of a name is part of the listing.                       *)
(***************************************************************************)
EXTENDS Integers, SequencesExt

\* name:  its place in the order of names
\* tag:   its season and episode in their order; Untagged if it has none
\* video: its suffix is not one of NON_VIDEO_EXTENSIONS
Untagged == 0
Listed(f, name, tag, size, video) ==
  [file |-> f, name |-> name, tag |-> tag, size |-> size, video |-> video]

Bytes(fs) == FoldLeft(LAMBDA n, f : n + f.size, 0, fs)
FilesOf(fs) == {fs[i].file : i \in DOMAIN fs}

\* A stable sort, as Python's, by one of the fields.
SortedBy(fs, key) ==
  LET before(i, j) == fs[i][key] < fs[j][key] \/ (fs[i][key] = fs[j][key] /\ i < j)
      order == SetToSortSeq(DOMAIN fs, before)
  IN  [i \in DOMAIN fs |-> fs[order[i]]]

-----------------------------------------------------------------------------
(* classify.                                                                *)

\* The videos; all files if none is one.
Evaluated(fs) ==
  LET videos == SelectSeq(fs, LAMBDA f : f.video)
  IN  IF videos = <<>> THEN fs ELSE videos

\* Every variant of every episode.
Episodes(fs) ==
  SortedBy(SelectSeq(Evaluated(fs), LAMBDA f : f.tag # Untagged), "tag")

Largest(fs) == Max({fs[i].size : i \in DOMAIN fs})

\* One episode is all there is, give or take a tenth.
LoneEpisode(fs) ==
  LET eps == Episodes(fs)
  IN  /\ Cardinality({eps[i].tag : i \in DOMAIN eps}) = 1
      /\ Len(Evaluated(fs)) = 1 \/ Largest(eps) >= (9 * Bytes(fs)) \div 10

\* Nine files of ten are tagged, rounded up.
MostlyEpisodes(fs) == 10 * Len(Episodes(fs)) >= 9 * Len(Evaluated(fs))

Kind(fs) ==
  CASE fs = <<>>          -> "unknown"
    [] LoneEpisode(fs)    -> "episode"
    [] Episodes(fs) = <<>> -> "movie"
    [] MostlyEpisodes(fs) -> "season"
    [] OTHER              -> "mixed"

\* single_file, where the kind has one.
SingleFile(fs) ==
  IF Kind(fs) = "episode"
    THEN LET eps == Episodes(fs)
         IN  eps[Min({i \in DOMAIN eps : eps[i].size = Largest(eps)})].file
    ELSE fs[1].file

-----------------------------------------------------------------------------
(* make_batches.                                                            *)

\* A batch is closed before the file that would not fit in it ...
Full(cur, f, cap, maxFiles) ==
  cur # <<>> /\ (Bytes(cur) + f.size > cap \/ Len(cur) >= maxFiles)

\* ... and after one that fits in none.
Put(done, cur, f, cap) ==
  IF f.size > cap THEN [done |-> Append(done, Append(cur, f)), cur |-> <<>>]
                  ELSE [done |-> done, cur |-> Append(cur, f)]

\* The loop over the files.
Take(acc, f, cap, maxFiles) ==
  IF Full(acc.cur, f, cap, maxFiles) THEN Put(Append(acc.done, acc.cur), <<>>, f, cap)
                                     ELSE Put(acc.done, acc.cur, f, cap)

MakeBatches(fs, cap, maxFiles) ==
  LET end == FoldLeft(LAMBDA acc, f : Take(acc, f, cap, maxFiles),
                      [done |-> <<>>, cur |-> <<>>], fs)
  IN  IF end.cur = <<>> THEN end.done ELSE Append(end.done, end.cur)

DefaultMaxBatchFiles == 100

\* Fault: episodes are moved as one group.
ResolveBatchesWhole(fs, cap) ==
  CASE Kind(fs) \in {"season", "mixed"} -> <<Episodes(fs)>>
    [] Kind(fs) = "movie" /\ Len(fs) > 1 ->
         MakeBatches(SortedBy(fs, "name"), cap, DefaultMaxBatchFiles)
    [] OTHER -> <<>>

\* _resolve_batches: the episodes, or the files of a bundle in the order of
\* their names; none for a single file and a single episode.
ResolveBatches(fs, cap) ==
  CASE Kind(fs) \in {"season", "mixed"} ->
         MakeBatches(Episodes(fs), cap, DefaultMaxBatchFiles)
    [] Kind(fs) = "movie" /\ Len(fs) > 1 ->
         MakeBatches(SortedBy(fs, "name"), cap, DefaultMaxBatchFiles)
    [] OTHER -> <<>>

\* No file is over the cap, or _setup_queued_download fails the row.
Feasible(fs, cap) == \A i \in DOMAIN fs : fs[i].size <= cap

\* The batch of each file, and the number of batches for a file in none.
BatchOfFile(fs, cap, f) ==
  LET plan == ResolveBatches(fs, cap)
      of == {i \in DOMAIN plan : f \in FilesOf(plan[i])}
  IN  IF of = {} THEN Len(plan) ELSE Min(of) - 1

-----------------------------------------------------------------------------
(* What make_batches promises, for every list up to a bound: the files in   *)
(* their order, in batches none of which is empty, too large or too long,   *)
(* one file above the cap aside, and none of which could take the next.     *)

Planned(fs, cap, maxFiles) ==
  LET plan == MakeBatches(fs, cap, maxFiles)
  IN  /\ FlattenSeq(plan) = fs
      /\ \A i \in DOMAIN plan :
           /\ plan[i] # <<>>
           /\ Bytes(plan[i]) <= cap \/ Len(plan[i]) = 1
           /\ Len(plan[i]) <= maxFiles
           /\ i < Len(plan) => \/ Bytes(plan[i]) + plan[i + 1][1].size > cap
                               \/ Len(plan[i]) = maxFiles

ASSUME PlanSound ==
  \A n \in 0..4 : \A sizes \in [1..n -> 0..3] : \A cap \in 1..4 : \A maxFiles \in 1..3 :
    Planned([i \in 1..n |-> Listed(i, i, i, sizes[i], TRUE)], cap, maxFiles)

\* What _resolve_batches takes of a list: no file twice; every variant of every
\* episode, each in no batch before an earlier one's; every file if there is no
\* episode.
Covered(fs, cap) ==
  LET plan == ResolveBatches(fs, cap)
      batchOf(i) == BatchOfFile(fs, cap, fs[i].file)
      videos == {i \in DOMAIN fs : fs[i].video}
      tagged == {i \in (IF videos = {} THEN DOMAIN fs ELSE videos) : fs[i].tag # Untagged}
      taken == IF tagged = {} THEN DOMAIN fs ELSE tagged
  IN  plan # <<>> =>
        /\ {i \in DOMAIN fs : batchOf(i) < Len(plan)} = taken
        /\ Len(FlattenSeq(plan)) = Cardinality(taken)
        /\ \A i, j \in tagged : fs[i].tag < fs[j].tag => batchOf(i) <= batchOf(j)

ASSUME ResolvedSound ==
  \A n \in 0..3 :
    \A tags \in [1..n -> 0..2], sizes \in [1..n -> 1..3], videos \in [1..n -> BOOLEAN] :
      \A cap \in {2, 3} :
        Covered([i \in 1..n |-> Listed(i, n - i, tags[i], sizes[i], videos[i])], cap)
=============================================================================
