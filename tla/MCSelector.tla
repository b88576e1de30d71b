------------------------------ MODULE MCSelector ------------------------------
(* Instances of Selector: two outbounds and one that is only in the cache    *)
(* file, two connections, one or two handlers.                              *)
EXTENDS Selector, TLC

Symmetry == Permutations(Conns) \cup Permutations(Callers)
===============================================================================
