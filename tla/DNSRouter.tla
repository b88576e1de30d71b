------------------------------ MODULE DNSRouter ------------------------------
(***************************************************************************)
(* The DNS router, core/dns/router.go, and the matching of its rules,      *)
(* core/route/rule: a query goes to the server of the first rule that      *)
(* matches; a rule with an address limit is asked again once the answer is *)
(* there, and if it rejects the answer the query goes on to the next rule. *)
(*                                                                         *)
(* Rules match in a metadata record that belongs to the call and caches    *)
(* what a rule has found so far.  A Lookup asks for both families at once, *)
(* on two goroutines that share this record.  Calls share nothing but the  *)
(* reverse mapping, to which they only add, so there is one.               *)
(***************************************************************************)
EXTENDS Integers, Sequences

CONSTANTS RuleLists,      \* the configurations
          Servers,        \* the tags of the transports
          FakeServers,    \* those of type fakeip
          DefaultServer,
          UntimedServers, \* those whose transport may read without a deadline
          Addresses,      \* what other servers answer
          FakeAddresses,  \* what the fake-IP servers answer
          Nil

\* What a rule tests of the query: its destination address items (domains) and
\* all of its other items "match" or "miss", or there are "none".  cidr holds
\* the addresses of its ip_cidr items.
Rule == [action : {"route", "options", "reject", "drop", "predefined"},
         server : Servers \cup {Nil},   \* Nil: a tag that no transport has
         answer : SUBSET Addresses,     \* of a predefined response
         domain : {"none", "match", "miss"},
         items : {"none", "match", "miss"},
         cidr : SUBSET (Addresses \cup FakeAddresses),
         invert : BOOLEAN]

\* A query: Exchange asks for addresses of one family, or for something else.
\* transport is the server that the options name, if they do; a fake-IP server
\* there would get its answers into the client's cache.
Calls ==
    {c \in [op : {"exchange", "lookup"}, address : BOOLEAN,
            transport : (Servers \ FakeServers) \cup {Nil}] : c.op = "lookup" => c.address}

\* The families that one call of the client asks for: those of the strategy,
\* which each rule may set, where Lookup asks.
Families(c) == IF c.op = "lookup" THEN {{4}, {6}, {4, 6}} ELSE {{4}}

\* Other servers give no addresses of the ranges for fake ones.
ASSUME RouterAssumption ==
    /\ RuleLists \subseteq Seq(Rule)
    /\ Nil \notin Servers \cup Calls
    /\ Addresses \cap FakeAddresses = {}

VARIABLES rules,
          call,
          at,           \* "idle", "match" or "ask"
          index,        \* the rule that was matched last; 0: none, the default server
          ruleCache,    \* the metadata's DestinationAddressMatch and DidMatch
          destination,  \* its DestinationAddresses
          options,      \* the rules whose options are in dnsOptions
          asks,         \* the client's exchange for each family
          answer, err,  \* what the call returns
          mapped,       \* the addresses in dnsReverseMapping
          skipped       \* history: the rules that this call went on from

routerVars == <<rules, call, at, index, ruleCache, destination, options, asks, answer, err,
                mapped, skipped>>

NoMatch == [dest |-> FALSE, did |-> FALSE]

Asked == [pc |-> "asked", addresses |-> {}, result |-> Nil, checked |-> FALSE]

RouterInit ==
    /\ rules \in RuleLists
    /\ call = Nil /\ at = "idle" /\ index = 0
    /\ ruleCache = NoMatch /\ destination = {}
    /\ options = {} /\ asks = << >>
    /\ answer = {} /\ err = FALSE
    /\ mapped = {} /\ skipped = {}
-----------------------------------------------------------------------------
(* The matching of one rule.                                               *)

\* WithAddressLimit
Limited(rule) == rule.cidr # {}

\* Mutant: what the rule before has found stays.
KeepRuleCache(m) == m

ResetRuleCache(m) == NoMatch

\* The first half of Match looks at the items and caches what it finds.  A query
\* has no destination address of its own; ignoring: IgnoreDestinationIPCIDRMatch.
Scan(rule, m, ignoring, addresses) ==
    LET domain == m.dest \/ rule.domain = "match"
        limit == ~ignoring /\ Limited(rule) /\ ~domain
    IN [dest |-> domain \/ (limit /\ addresses \cap rule.cidr # {}),
        did |-> \/ m.did \/ limit \/ rule.items # "none"
                \/ rule.domain # "none" /\ ~m.dest]

\* Mutant: the final test of the address group forgets the ip_cidr items.
VerdictOnDomain(rule, m, ignoring) ==
    IF rule.items # "miss" /\ (rule.domain # "none" => m.dest)
    THEN ~m.did \/ ~rule.invert
    ELSE rule.invert

\* The second half decides by the cache.
Verdict(rule, m, ignoring) ==
    IF rule.items = "none" /\ rule.domain = "none" /\ ~Limited(rule) THEN TRUE
    ELSE IF /\ rule.items # "miss"
            /\ rule.domain # "none" \/ (~ignoring /\ Limited(rule)) => m.dest
         THEN ~m.did \/ ~rule.invert
         ELSE rule.invert
-----------------------------------------------------------------------------
(* matchDNS.                                                               *)

\* A rule whose server is unknown, or makes fake addresses for a Lookup, is
\* passed over.
Usable(server) == server # Nil /\ (server \in FakeServers => call.op = "exchange")

Server ==
    IF call.transport # Nil THEN call.transport
    ELSE IF index = 0 THEN DefaultServer
    ELSE rules[index].server

Ask(c) == at' = "ask" /\ \E families \in Families(c) : asks' = [f \in families |-> Asked]

Reply(addresses, failed) == at' = "idle" /\ answer' = addresses /\ err' = failed

\* What the action of the matched rule i does.
Act(rule, i) ==
    \/ /\ rule.action = "options"
       /\ options' = options \cup {i}
       /\ UNCHANGED <<at, asks, answer, err>>
    \/ /\ rule.action = "route" /\ ~Usable(rule.server)
       /\ UNCHANGED <<at, options, asks, answer, err>>
    \/ /\ rule.action = "route" /\ Usable(rule.server)
       /\ options' = options \cup {i}
       /\ Ask(call)
       /\ UNCHANGED <<answer, err>>
    \/ /\ rule.action \in {"reject", "drop"}
       /\ Reply({}, rule.action = "drop" \/ call.op = "lookup")
       /\ UNCHANGED <<options, asks>>
    \/ /\ rule.action = "predefined"
       /\ Reply(rule.answer, call.op = "lookup" /\ (err \/ rule.answer = {}))
       /\ UNCHANGED <<options, asks>>

\* One turn of the loop over the rules.
Consider ==
    LET i == index + 1
        scanned == Scan(rules[i], ResetRuleCache(ruleCache), TRUE, destination)
    IN
    /\ at = "match" /\ i \in DOMAIN rules
    /\ index' = i
    /\ IF Limited(rules[i]) /\ ~call.address
       THEN UNCHANGED <<at, ruleCache, options, asks, answer, err>>
       ELSE /\ ruleCache' = scanned
            /\ IF Verdict(rules[i], scanned, TRUE) THEN Act(rules[i], i)
               ELSE UNCHANGED <<at, options, asks, answer, err>>
    /\ UNCHANGED <<rules, call, destination, mapped, skipped>>

UseDefault ==
    /\ at = "match" /\ index + 1 \notin DOMAIN rules
    /\ index' = 0
    /\ Ask(call)
    /\ UNCHANGED <<rules, call, ruleCache, destination, options, answer, err, mapped, skipped>>
-----------------------------------------------------------------------------
(* The client's exchange for family f, which DNSClient details.            *)

\* There is a responseCheck.
Checked == call.transport = Nil /\ index # 0 /\ Limited(rules[index])

Waits(f, pc) == at = "ask" /\ f \in DOMAIN asks /\ asks[f].pc = pc

AskDone(f, result, addresses) ==
    asks' = [asks EXCEPT ![f] = [@ EXCEPT !.pc = "done", !.result = result,
                                          !.addresses = addresses]]

callVars == <<rules, call, at, index, options, answer, err, mapped, skipped>>

ClientFails(f) ==
    /\ Waits(f, "asked")
    /\ AskDone(f, "error", {})
    /\ UNCHANGED <<callVars, ruleCache, destination>>

\* The caches are disabled for fake-IP servers.
Caching == Server \notin FakeServers

Response == {{}} \cup {{a} : a \in IF Caching THEN Addresses ELSE FakeAddresses}

\* Without the server and its check: the strategy excludes the family, or there
\* is a cached response or a cached rejection.
ClientReturns(f) ==
    /\ Waits(f, "asked")
    /\ \/ AskDone(f, "ok", {})
       \/ Caching /\ \E r \in Response : AskDone(f, "ok", r)
       \/ Caching /\ Checked /\ AskDone(f, "rejected", {})
    /\ UNCHANGED <<callVars, ruleCache, destination>>

\* The server responds.  With a limit, a response without an answer is rejected,
\* and the check first stores the addresses of others, none if the answer has
\* none.  A response has one at most, so that a torn read of the slice is a read
\* of either.
ClientResponds(f) ==
    /\ Waits(f, "asked")
    /\ \E r \in Response :
          \/ ~Checked /\ AskDone(f, "ok", r) /\ UNCHANGED destination
          \/ Checked /\ r = {} /\ AskDone(f, "rejected", {}) /\ UNCHANGED destination
          \/ /\ Checked
             /\ destination' = r
             /\ asks' = [asks EXCEPT ![f] = [@ EXCEPT !.pc = "scan", !.addresses = r]]
    /\ UNCHANGED <<callVars, ruleCache>>

\* MatchAddressLimit, in the shared record.
CheckScans(f) ==
    /\ Waits(f, "scan")
    /\ ruleCache' = Scan(rules[index], ruleCache, FALSE, destination)
    /\ asks' = [asks EXCEPT ![f] = [@ EXCEPT !.pc = "verdict", !.checked = TRUE]]
    /\ UNCHANGED <<callVars, destination>>

CheckDecides(f) ==
    /\ Waits(f, "verdict")
    /\ AskDone(f, IF Verdict(rules[index], ruleCache, FALSE) THEN "ok" ELSE "rejected",
               asks[f].addresses)
    /\ UNCHANGED <<callVars, ruleCache, destination>>
-----------------------------------------------------------------------------
(* Exchange and Lookup.                                                    *)

RouterCall ==
    /\ call = Nil
    /\ \E c \in Calls :
          /\ call' = c
          /\ IF c.transport = Nil THEN at' = "match" /\ asks' = << >> ELSE Ask(c)
    /\ UNCHANGED <<rules, index, ruleCache, destination, options, answer, err, mapped, skipped>>

\* Mutant: matching begins again at the first rule.
ResumeFirst(i) == 0

\* The index after which matching resumes.
Resume(i) == i

NextRule ==
    /\ at' = "match" /\ index' = Resume(index)
    /\ skipped' = skipped \cup {index}
    /\ options' = {} /\ asks' = << >>
    /\ UNCHANGED answer

Answered == at = "ask" /\ \A f \in DOMAIN asks : asks[f].pc = "done"

\* client.Exchange has returned: only a rejected response goes on to the next
\* rule.
ExchangeDone ==
    /\ call.op = "exchange" /\ Answered
    /\ LET ask == asks[4] IN
       IF Checked /\ ask.result = "rejected"
       THEN NextRule /\ UNCHANGED <<err, mapped>>
       ELSE /\ Reply(IF ask.result = "ok" THEN ask.addresses ELSE {}, ask.result # "ok")
            /\ mapped' = IF Server \in FakeServers \/ ask.result # "ok" THEN mapped
                         ELSE mapped \cup ask.addresses
            /\ UNCHANGED <<index, skipped, options, asks>>
    /\ UNCHANGED <<rules, call, ruleCache, destination>>

\* client.Lookup has returned: with a limit, every error goes on to the next rule
\* and stays in err until the next server answers.
LookupDone ==
    LET addresses == UNION {asks[f].addresses : f \in {g \in DOMAIN asks : asks[g].result = "ok"}}
        failed == addresses = {} /\ \E f \in DOMAIN asks : asks[f].result # "ok"
    IN
    /\ call.op = "lookup" /\ Answered
    /\ IF Checked /\ failed
       THEN NextRule /\ err' = TRUE
       ELSE Reply(addresses, addresses = {}) /\ UNCHANGED <<index, skipped, options, asks>>
    /\ UNCHANGED <<rules, call, ruleCache, destination, mapped>>

\* The lifetime of a reverse mapping ends.
Forget ==
    /\ \E a \in mapped : mapped' = mapped \ {a}
    /\ UNCHANGED <<rules, call, at, index, ruleCache, destination, options, asks, answer, err,
                   skipped>>

RouterStep ==
    \/ Consider \/ UseDefault
    \/ \E f \in {4, 6} :
          ClientFails(f) \/ ClientReturns(f) \/ ClientResponds(f) \/ CheckScans(f) \/ CheckDecides(f)
    \/ call # Nil /\ (ExchangeDone \/ LookupDone)

RouterNext == RouterCall \/ RouterStep \/ Forget

RouterSpec == RouterInit /\ [][RouterNext]_routerVars

\* The client waits for a server that may stay silent for ever.
ServerSilent == (\E f \in {4, 6} : Waits(f, "asked")) /\ Server \in UntimedServers

\* The router waits for nothing but the client, whose other exchanges return.
RouterProgress == ~ServerSilent /\ RouterStep
-----------------------------------------------------------------------------
(* What a rule means, without the cache.                                   *)

\* The rule matches a query, as far as the query tells.
Applies(rule) ==
    \/ rule.items = "none" /\ rule.domain = "none"
    \/ (rule.items # "miss" /\ rule.domain # "miss") # rule.invert

\* The address limit of the rule admits an answer.
Admits(rule, addresses) ==
    (rule.items # "miss" /\ (rule.domain = "match" \/ addresses \cap rule.cidr # {})) # rule.invert

Reached(i) == Applies(rules[i]) /\ (Limited(rules[i]) => call.address)

\* Rule i ends the loop over the rules.
Stops(i) ==
    /\ Reached(i) /\ rules[i].action # "options"
    /\ rules[i].action = "route" => Usable(rules[i].server)

\* A query is settled by the first rule that matches it and that the call did not
\* go on from, or else by the default server, whatever earlier rules and answers
\* left in the metadata.  A call goes on from a rule with an address limit only:
\* when it rejected the answer and, in Lookup, also when its server failed.  It carries the options of the rules between the last
\* one it went on from and this one.  A call returns addresses together with an
\* error only where Lookup keeps the error of a rule that it went on from, next
\* to a predefined answer.  The reverse mapping never learns a fake address.
AnswersByFirstRule ==
    /\ call # Nil /\ at # "match" /\ call.transport = Nil =>
          LET open == {i \in DOMAIN rules \ skipped : Stops(i)}
          IN /\ IF index = 0 THEN open = {} ELSE index \in open /\ \A i \in open : index <= i
             /\ \A i \in skipped : Stops(i) /\ Limited(rules[i])
             /\ options = {i \in DOMAIN rules :
                   /\ \A j \in skipped : j < i
                   /\ index # 0 => i <= index
                   /\ Reached(i)
                   /\ rules[i].action = "options" \/ (i = index /\ rules[i].action = "route")}
             /\ at = "idle" /\ err /\ answer # {} =>
                   call.op = "lookup" /\ skipped # {} /\ rules[index].action = "predefined"
    /\ mapped \cap FakeAddresses = {}

\* The address limit decides about the answer it is given: exactly, where one
\* family is asked for.  Where both are, the two checks share the metadata, and
\* an answer that passes may owe it to the other family's addresses: still, one
\* of the two is admitted by the rule.
FilterDecides ==
    call # Nil /\ index # 0 =>
        \A f \in DOMAIN asks :
            asks[f].pc = "done" /\ asks[f].checked =>
                /\ asks[f].result = "ok" =>
                      \E g \in DOMAIN asks : Admits(rules[index], asks[g].addresses)
                /\ DOMAIN asks = {f} =>
                      ((asks[f].result = "ok") <=> Admits(rules[index], asks[f].addresses))

\* Every call returns, however many rules reject, unless it asks a server without
\* a deadline that stays silent.
CallReturns == (at # "idle" ~> at = "idle") \/ <>[]ServerSilent
=============================================================================
