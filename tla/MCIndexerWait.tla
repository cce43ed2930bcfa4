--------------------------- MODULE MCIndexerWait ---------------------------
(* Model checking of IndexerWait: a private torrent with and without the    *)
(* fallback, one that no indexer is asked for, and a public one.            *)
EXTENDS IndexerWait

Private == [public |-> FALSE, fallback |-> FALSE, queryable |-> TRUE]

Looked == {Private, [Private EXCEPT !.fallback = TRUE], [Private EXCEPT !.queryable = FALSE],
           [Private EXCEPT !.public = TRUE]}
=============================================================================
