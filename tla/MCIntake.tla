------------------------------ MODULE MCIntake ------------------------------
(* Model checking of Intake: a drop of a download indexer's tracker and one *)
(* of a private tracker, a private and a public racing torrent.             *)
EXTENDS Intake

CONSTANTS d1, d2, r1, r2

MixedRanks == [h \in Hash |-> IF h = d1 THEN 1 ELSE IF h = r2 THEN 0 ELSE 2]
=============================================================================
