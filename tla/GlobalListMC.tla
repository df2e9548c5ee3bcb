---------------------------- MODULE GlobalListMC ----------------------------
(* GlobalList with two lists, the first version of one of them too long.   *)
EXTENDS GlobalList
CONSTANTS a, b
TooLong == {<<a, 1>>}
=============================================================================
