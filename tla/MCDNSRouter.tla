------------------------------ MODULE MCDNSRouter ------------------------------
(* DNSClient as in MCDNSClient, or DNSRouter with up to three rules.  The router *)
(* takes a call of the client as the steps of one family, which the client      *)
(* details, so that one of them moves while the other rests.                    *)
EXTENDS MCDNSClient, DNSRouter

VARIABLE active  \* which of the two

AnyRule == [action |-> "route", server |-> "remote", answer |-> {}, domain |-> "none",
            items |-> "none", cidr |-> {}, invert |-> FALSE]

MCRules ==
    {[AnyRule EXCEPT !.cidr = {"a"}],
     [AnyRule EXCEPT !.cidr = {"a"}, !.invert = TRUE],
     [AnyRule EXCEPT !.cidr = {"a"}, !.domain = "miss", !.invert = TRUE],
     [AnyRule EXCEPT !.cidr = {"a", "f"}, !.domain = "match", !.server = "fake"],
     [AnyRule EXCEPT !.cidr = {"f"}, !.items = "match", !.server = "fake"],
     [AnyRule EXCEPT !.domain = "miss", !.server = Nil],
     [AnyRule EXCEPT !.domain = "match", !.server = Nil],
     [AnyRule EXCEPT !.items = "miss", !.domain = "match"],
     [AnyRule EXCEPT !.action = "options", !.domain = "match"],
     [AnyRule EXCEPT !.action = "options", !.domain = "miss"],
     [AnyRule EXCEPT !.action = "predefined", !.answer = {"b"}, !.items = "miss", !.invert = TRUE],
     [AnyRule EXCEPT !.action = "reject", !.items = "match"],
     [AnyRule EXCEPT !.action = "drop", !.items = "match", !.domain = "miss"]}

MCRuleLists ==
    {<< >>} \cup {<<r, s>> : r, s \in MCRules}
    \cup {<<r, s, t>> \in MCRules \X MCRules \X MCRules :
              r.cidr # {} /\ s = [AnyRule EXCEPT !.cidr = {"a"}] /\ t.action # "route"}

RouterRests ==
    /\ rules = << >> /\ call = Nil /\ at = "idle" /\ index = 0
    /\ ruleCache = NoMatch /\ destination = {} /\ options = {} /\ asks = << >>
    /\ answer = {} /\ err = FALSE /\ mapped = {} /\ skipped = {}

MCInit ==
    /\ Init
    /\ \/ active = "client" /\ RouterRests
       \/ active = "router" /\ RouterInit

MCNext ==
    /\ UNCHANGED active
    /\ \/ active = "client" /\ Next /\ UNCHANGED routerVars
       \/ active = "router" /\ RouterNext /\ UNCHANGED vars
       \/ active = "router" /\ ClearCache /\ UNCHANGED routerVars

MCSpec ==
    /\ MCInit /\ [][MCNext]_<<vars, routerVars, active>>
    /\ \A g \in Goroutines : WF_vars(Progress(g))
    /\ WF_routerVars(active = "router" /\ RouterProgress /\ UNCHANGED <<vars, active>>)

\* Every exchange of the client and every call of the router returns, unless a
\* server stays silent to a transport that reads without a deadline.
CallsReturn == ExchangeReturns /\ CallReturns
================================================================================
