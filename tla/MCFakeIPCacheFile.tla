-------------------------- MODULE MCFakeIPCacheFile --------------------------
(* Ranges of one or two usable addresses, so that addresses change hands and *)
(* a restart may shrink a range; the second family may lack one.             *)
EXTENDS FakeIPCacheFile, TLC

MCRanges == {[f \in Families |-> IF f = "inet4" THEN 3 ELSE None], [f \in Families |-> 2]}

Symmetry == {p @@ q @@ r : p \in Permutations(Domains), q \in Permutations(Creators),
                           r \in Permutations(Writers)}
==============================================================================
