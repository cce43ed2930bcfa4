------------------------------- MODULE States -------------------------------
(***************************************************************************)
(* The lifecycle of a tracked torrent: the states of state.State and the    *)
(* table ALLOWED that check_transition consults.  Every module of the       *)
(* project that has a row in it takes its states from here.                 *)
(***************************************************************************)

State == {"NEW", "WAITING_INDEXER", "WAITING_DISK", "QUEUED", "DOWNLOADING",
          "MOVING", "RE_ADDING", "DONE", "FAILED"}

Allowed ==
  [s \in State |->
     CASE s = "NEW"             -> State \ {"NEW"}
       [] s = "WAITING_INDEXER" -> {"WAITING_DISK", "QUEUED", "DONE", "FAILED", "RE_ADDING"}
       [] s = "WAITING_DISK"    -> {"QUEUED", "DOWNLOADING", "DONE", "FAILED", "RE_ADDING"}
       [] s = "QUEUED"          -> {"DOWNLOADING", "MOVING", "WAITING_DISK", "RE_ADDING",
                                    "DONE", "FAILED"}
       [] s = "DOWNLOADING"     -> {"MOVING", "QUEUED", "FAILED", "RE_ADDING"}
       [] s = "MOVING"          -> {"RE_ADDING", "DOWNLOADING", "FAILED"}
       [] s = "RE_ADDING"       -> {"DONE", "MOVING", "FAILED"}
       [] s = "DONE"            -> {"RE_ADDING", "MOVING"}
       [] s = "FAILED"          -> {"QUEUED", "NEW", "RE_ADDING"}]

\* check_transition: an edge that is not in the table raises ValueError.
LegalMove(src, dst) == dst \in Allowed[src]

\* The states in which a row may occupy the SSD: the ones whose reservation
\* coordinator.transition() keeps and _ssd_prune_stale does not reap.
OnSsd == {"QUEUED", "DOWNLOADING", "MOVING"}
==============================================================================
