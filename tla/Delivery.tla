----------------------------- MODULE Delivery -----------------------------
(***************************************************************************)
(* What the pipeline promises of one torrent, whatever it downloads in how  *)
(* many batches, through how many failures and restarts: a file it has got  *)
(* hold of it keeps until the remote has it, or until it gives the torrent  *)
(* up; a torrent is done when the remote has every file, and stays done.    *)
(*                                                                          *)
(* Pipeline implements this (Pipeline.KeepsPromise).                        *)
(***************************************************************************)
CONSTANT File   \* the files of the torrent

VARIABLES
  outcome,   \* the torrent: open, done, failed
  at         \* at[f]: missing, held (complete on the SSD), delivered

vars == <<outcome, at>>

Type ==
  /\ outcome \in {"open", "done", "failed"}
  /\ at \in [File -> {"missing", "held", "delivered"}]

\* The remote may have files of an earlier attempt.
Init == outcome = "open" /\ at \in [File -> {"missing", "delivered"}]

\* The files fs, all of them at place p, get to place q.
Carried(fs, p, q) ==
  /\ \A f \in fs : at[f] = p
  /\ at' = [f \in File |-> IF f \in fs THEN q ELSE at[f]]

Gets == \E fs \in (SUBSET File) \ {{}} : Carried(fs, "missing", "held") /\ UNCHANGED outcome

\* A move may get only so far, and be the last.
Delivers ==
  /\ \E fs \in (SUBSET File) \ {{}} : Carried(fs, "held", "delivered")
  /\ outcome' = outcome \/ (outcome = "open" /\ outcome' = "failed")

\* What the torrent held goes with it, or later.
GivesUp ==
  /\ outcome = "open" /\ outcome' = "failed"
  /\ \E fs \in SUBSET File : Carried(fs, "held", "missing")

Drops ==
  /\ outcome = "failed" /\ UNCHANGED outcome
  /\ \E fs \in (SUBSET File) \ {{}} : Carried(fs, "held", "missing")

Finishes ==
  /\ outcome = "open" /\ outcome' = "done"
  /\ \A f \in File : at[f] = "delivered"
  /\ UNCHANGED at

Next == Gets \/ Delivers \/ GivesUp \/ Drops \/ Finishes

Spec == Init /\ [][Next]_vars
=============================================================================
