----------------------------- MODULE MCRowStore -----------------------------
(* Model checking of RowStore: writers are interchangeable.                 *)
EXTENDS RowStore, TLC

WriterSymmetry == Permutations(Writers)
==============================================================================
