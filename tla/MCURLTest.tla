------------------------------- MODULE MCURLTest ------------------------------
(* Two outbounds, the first of them a nested group for TCP only; delays of 3  *)
(* bits that are equal, differ by more than the tolerance, or wrap.           *)
EXTENDS URLTest

MCOutbounds == <<"nested", "plain">>

MCRealTag == [o \in {"nested", "plain"} |-> IF o = "nested" THEN "inner" ELSE "plain"]

MCSupports == [o \in {"nested", "plain"} |-> IF o = "nested" THEN {"tcp"} ELSE {"tcp", "udp"}]
===============================================================================
