---------------------------- MODULE MCFakeIPMemory ---------------------------
(* Instances of FakeIPMemory: ranges of three usable addresses and one domain *)
(* more than that, so that the cursor wraps and addresses are taken over.     *)
EXTENDS FakeIPMemory, TLC

MCRanges == {[f \in Families |-> IF f = "inet4" THEN 4 ELSE None]}

Symmetry == {p @@ q : p \in Permutations(Domains), q \in Permutations(Creators)}
==============================================================================
