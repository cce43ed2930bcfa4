-------------------------- MODULE MCDownloadSlots --------------------------
(* Model checking of DownloadSlots.  Torrents are interchangeable, but no   *)
(* symmetry is declared: TLC's reduction is not sound for liveness.         *)
EXTENDS DownloadSlots
=============================================================================
