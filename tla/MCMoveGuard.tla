---------------------------- MODULE MCMoveGuard ----------------------------
(* Model checking of MoveGuard: a folder and a heal below one save path,    *)
(* and a row with a tree of its own; one move at a time, or several in      *)
(* trees of their own.                                                      *)
EXTENDS MoveGuard, TLC

CONSTANTS folder, heal, file, path, own, other

Shared == [tree |-> (folder :> path @@ heal :> path @@ file :> own), moves |-> 1]
Apart == [tree |-> (folder :> path @@ heal :> other @@ file :> own), moves |-> 2]

Each == {Shared, [Shared EXCEPT !.moves = 2], Apart}
=============================================================================
