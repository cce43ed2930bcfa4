---------------------------- MODULE MCSsdLedger ----------------------------
(* Model checking of SsdLedger: one torrent whose estimate is the whole     *)
(* budget and shrinks after the add, and one that grows to all of it.       *)
EXTENDS SsdLedger, TLC

CONSTANTS h1, h2

TwoEstimates == h1 :> 2 @@ h2 :> 1
TwoFootprints == h1 :> 1 @@ h2 :> 2
=============================================================================
