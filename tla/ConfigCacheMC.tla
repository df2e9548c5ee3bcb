---------------------------- MODULE ConfigCacheMC ---------------------------
(* Isolates are interchangeable, as are queries and handlers.              *)
EXTENDS ConfigCache, TLC

Interchangeable == Permutations(Isolate) \cup Permutations(Query)
                                         \cup Permutations(Writer)
=============================================================================
