----------------------------- MODULE MCSeeding -----------------------------
(* Model checking of Seeding: a private release whose cross-seed was        *)
(* downloaded and whose third torrent has files of its own, a public one,   *)
(* and a public one whose third torrent was cancelled.                      *)
EXTENDS Seeding

Private == [cross |-> "c", extra |-> {}, cancelled |-> {}]
Public == [Private EXCEPT !.cross = "s"]

Releases == {[Private EXCEPT !.extra = {"p"}], Public, [Public EXCEPT !.cancelled = {"p"}]}

OnePublic == {Public}
=============================================================================
