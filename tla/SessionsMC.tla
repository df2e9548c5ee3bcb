----------------------------- MODULE SessionsMC -----------------------------
(***************************************************************************)
(* Sessions with small numbers of calls: every behaviour follows one plan, *)
(* how many calls of each kind it makes, so that the pairs and triples of  *)
(* calls that interact are all met without all of them at once.            *)
(***************************************************************************)
EXTENDS Sessions, TLC

Interchangeable == Permutations(Isolate) \cup Permutations(Call)

Plan(f) == [k \in Kinds |-> IF k \in DOMAIN f THEN f[k] ELSE 0]

Plans == {Plan([request |-> 2, lock |-> 1]), Plan([request |-> 1, logout |-> 1]),
          Plan([request |-> 1, revoke |-> 1]), Plan([request |-> 1, others |-> 1]),
          Plan([refresh |-> 3, request |-> 1]), Plan([request |-> 3]),
          Plan([request |-> 1, refresh |-> 1]), Plan([unlock |-> 3]),
          Plan([lock |-> 1, unlock |-> 1, request |-> 1])}

Refreshing == {Plan([refresh |-> 3, request |-> 1])}
=============================================================================
