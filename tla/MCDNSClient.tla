------------------------------ MODULE MCDNSClient ------------------------------
(* Instances of DNSClient with two transports and two questions; two rules    *)
(* with different address filters use t1.                                     *)
EXTENDS DNSClient

CONSTANTS t1, t2, q1, q2

RequestOf(t, q, filter) ==
    [transport |-> t, question |-> q, filter |-> filter, excluded |-> FALSE, caching |-> "full"]

\* The server of t1 is named q2 and t2 looks it up; nobody asks t1 for q2.
Chained == [t \in Transports |-> IF t = t1 THEN RequestOf(t2, q2, None) ELSE None]

\* The answer "c" is a CNAME alone.
MCRequests ==
    {RequestOf(t1, q1, {"a"}), RequestOf(t1, q1, {"c"}),
     [RequestOf(t1, q1, {"a"}) EXCEPT !.caching = "look"],
     [RequestOf(t1, q1, {"c"}) EXCEPT !.excluded = TRUE],
     [RequestOf(t2, q2, None) EXCEPT !.caching = "none"]}

\* Dialling t1 needs q2, from t1 itself: its detour has a server of that name
\* and t1 is the default resolver.
SelfResolved == [t \in Transports |-> IF t = t1 THEN RequestOf(t1, q2, None) ELSE None]

SelfRequests == {RequestOf(t1, q1, None), RequestOf(t1, q2, None)}
================================================================================
