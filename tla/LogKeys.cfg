SPECIFICATION Spec
CONSTANTS
  Flusher = {f1, f2}
  Profile = {home}
  PublicKey = {k1, k2, k3}
  Hybrid = {k1, k2}
  Kem = {n1, n2, n3}
  Handler = {h1}
  Nothing = Nothing
  Unknown = Unknown
  MaxChanges = 2
CHECK_DEADLOCK FALSE
INVARIANTS InvalidationHolds SealedForCurrentKey NoDuplicateMint KeyKept
SYMMETRY Interchangeable
