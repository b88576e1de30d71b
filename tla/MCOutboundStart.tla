--------------------------- MODULE MCOutboundStart ---------------------------
(* Two instances in one run.  OutboundStart: up to three tags in the list and *)
(* one more that a dependency may name, with every graph over the four.  Box:  *)
(* two inbounds, and one member in each other list.  Box takes what            *)
(* OutboundStart details as one step, so that one of them moves while the      *)
(* other rests in a final state.                                               *)
EXTENDS OutboundStart, Box

CONSTANTS a, b, c, direct

MCConfigurations ==
    {[outbounds |-> <<a, b, c>>, endpoints |-> <<>>],
     [outbounds |-> <<a, b>>, endpoints |-> <<c>>],
     [outbounds |-> <<>>, endpoints |-> <<a, b>>]}

MCMembers ==
    [inbound |-> <<"i1", "i2">>, outbound |-> <<"o1">>, endpoint |-> <<"e1">>,
     service |-> <<"s1">>, dnsTransport |-> <<"d1">>]

OutboundsRest ==
    /\ defaultTag = None /\ defaultOutbound = FallbackTag
    /\ outbounds = <<Fallback>> /\ endpoints = <<>> /\ list = <<Fallback>>
    /\ started = {FallbackTag} /\ next = 2 /\ canContinue = TRUE
    /\ oTree = {} /\ oCurrent = Fallback /\ problemOutboundTag = None
    /\ pc = "ok"

BoxRests ==
    /\ phase = "closed" /\ stage = 1 /\ place = 1 /\ startedManagers = {}
    /\ seen = [u \in Units |-> <<>>] /\ closed = [u \in Units |-> 0]
    /\ users = {} /\ remote = FALSE /\ refs = {} /\ rules = FALSE
    /\ update = "off" /\ cancelled = TRUE

MCInit == (Init /\ BoxRests) \/ (BoxInit /\ OutboundsRest)

MCNext == (Next /\ UNCHANGED boxVars) \/ (BoxNext /\ UNCHANGED vars)

\* One goroutine runs the manager's Start, and nothing it calls here waits for
\* another.
MCSpec ==
    /\ MCInit /\ [][MCNext]_<<vars, boxVars>>
    /\ WF_<<vars, boxVars>>((Start \/ StartOne \/ EndPass \/ LintOutbound) /\ UNCHANGED boxVars)
==============================================================================
