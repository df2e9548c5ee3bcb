----------------------------- MODULE LogKeysMC -----------------------------
(* Model-checking constants for LogKeys: data keys, flushes and hybrid     *)
(* public keys are interchangeable.                                        *)
EXTENDS LogKeys, TLC
Interchangeable == {a @@ b @@ c : a \in Permutations(Kem),
                                  b \in Permutations(Flusher),
                                  c \in Permutations(Hybrid)}
=============================================================================
