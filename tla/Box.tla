--------------------------------- MODULE Box ---------------------------------
(***************************************************************************)
(* The lifecycle of a box, core/box.go: Start takes the parts through four *)
(* stages, in an order of its own for each, a failure at any point turns   *)
(* into Close, and Close closes the parts in yet another order.  The       *)
(* managers of core/adapter and core/dns hand a stage to each member of    *)
(* their lists; endpoints are started by the outbound manager and closed   *)
(* by their own.                                                           *)
(*                                                                         *)
(* One rule set of core/route/rule goes along.  Those who use it take a    *)
(* reference when they are started, and a set without references drops its *)
(* rules.  It is updated by a goroutine of its own from the moment it may  *)
(* be, while the box goes on starting or closes.                           *)
(***************************************************************************)
EXTENDS Integers, Sequences

CONSTANTS Members  \* the list of each manager

Managers == DOMAIN Members

SetOf(s) == {s[i] : i \in 1 .. Len(s)}

\* A part that is no manager is its own only member.
Listed(p) == IF p \in Managers THEN Members[p] ELSE <<p>>

Parts == Managers \cup {"logger", "internal", "network", "dnsRouter", "connection", "router"}

Units == UNION {SetOf(Listed(p)) : p \in Parts}

\* Each manager keeps a list of its own.
ASSUME MembersAssumption ==
    /\ Managers = {"outbound", "endpoint", "inbound", "service", "dnsTransport"}
    /\ \A p \in Managers : Members[p] \in Seq(SetOf(Members[p]))
    /\ \A p, q \in Parts : p # q => SetOf(Listed(p)) \cap SetOf(Listed(q)) = {}

Stages == 1 .. 4  \* Initialize, Start, PostStart, Started

\* preStart and start.  The logger has no stages and is started first.
StartOrder ==
    << <<"logger", "internal", "network", "dnsTransport", "dnsRouter", "connection", "router",
         "outbound", "inbound", "endpoint", "service">>,
       <<"outbound", "dnsTransport", "dnsRouter", "network", "connection", "router",
         "internal", "inbound", "endpoint", "service">>,
       <<"outbound", "network", "dnsTransport", "dnsRouter", "connection", "router",
         "inbound", "endpoint", "service", "internal">>,
       <<"network", "dnsTransport", "dnsRouter", "connection", "router",
         "outbound", "inbound", "endpoint", "service", "internal">> >>

\* Mutant: inbounds are closed with the network, after those who serve them.
CloseOrderLate ==
    <<"service", "endpoint", "outbound", "router", "connection", "dnsRouter",
      "dnsTransport", "network", "inbound", "internal", "logger">>

CloseOrder ==
    <<"service", "endpoint", "inbound", "outbound", "router", "connection", "dnsRouter",
      "dnsTransport", "network", "internal", "logger">>

VARIABLES phase,       \* "new", "starting", "up", "closing", "closed"
          stage,       \* the stage
          place,       \* the place in its order or in CloseOrder
          startedManagers, \* the managers whose started flag is set
          seen,        \* the stages each unit has been started at
          closed,      \* how often each unit has been closed
          users,       \* who uses the rule set
          remote,      \* the rule set is remote, or a local file
          refs,        \* its references
          rules,       \* it holds rules
          update,      \* its goroutine
          cancelled    \* its context is done, or its watcher closed

life == <<phase, stage, place, startedManagers, seen, closed>>
set == <<refs, rules, update, cancelled>>
boxVars == <<life, users, remote, set>>

\* A local file is read when the set is created.
BoxInit ==
    /\ phase = "new" /\ stage = 1 /\ place = 1
    /\ startedManagers = {}
    /\ seen = [u \in Units |-> <<>>]
    /\ closed = [u \in Units |-> 0]
    /\ users \in SUBSET {"dnsRouter", "router", "inbound"}
    /\ remote \in BOOLEAN
    /\ refs = {} /\ rules = ~remote
    /\ update = "off" /\ cancelled = FALSE

Part == IF phase = "closing" THEN CloseOrder[place] ELSE StartOrder[stage][place]

\* Mutant: the endpoint manager starts its endpoints at the Start stage as well.
StartedByTwice(p, s) ==
    IF p = "outbound" /\ s = 2 THEN Listed("outbound") \o Listed("endpoint") ELSE Listed(p)

\* The units that a part's Start hands the stage to.
StartedBy(p, s) ==
    CASE p = "outbound" /\ s = 2 -> Listed("outbound") \o Listed("endpoint")
      [] p = "endpoint" /\ s = 2 -> <<>>
      [] OTHER -> Listed(p)

\* The stages at which a part may return an error.
Fallible(p, s) ==
    CASE p \in {"endpoint", "logger"} -> s # 2
      [] p = "network" -> s \in {1, 2}
      [] p = "dnsRouter" -> s = 2
      [] p = "router" -> s \in {2, 3}
      [] p = "connection" -> FALSE
      [] OTHER -> TRUE

\* The units whose Start has been called when the part's Start fails: those up
\* to the one that failed.  The outbound and DNS managers start along
\* dependencies, and may find that there is no way on.
Attempted(p, s) ==
    IF p \in {"outbound", "dnsTransport"} /\ s = 2 THEN SUBSET SetOf(StartedBy(p, s))
    ELSE {SetOf(SubSeq(StartedBy(p, s), 1, k)) : k \in 1 .. Len(StartedBy(p, s))}

Called(units) == seen' = [u \in Units |-> IF u \in units THEN Append(seen[u], stage) ELSE seen[u]]

BoxStart ==
    /\ phase = "new"
    /\ phase' = "starting"
    /\ UNCHANGED <<stage, place, startedManagers, seen, closed, users, remote, set>>

Advance ==
    IF place < Len(StartOrder[stage]) THEN place' = place + 1 /\ UNCHANGED <<stage, phase>>
    ELSE /\ place' = 1
         /\ stage' = IF stage < 4 THEN stage + 1 ELSE stage
         /\ phase' = IF stage < 4 THEN phase ELSE "up"

\* Rules of the DNS router and inbounds take references at the Start stage, rules
\* of the router at PostStart.
Referenced(p) ==
    IF (p \in {"dnsRouter", "inbound"} /\ stage = 2) \/ (p = "router" /\ stage = 3)
    THEN refs \cup ({p} \cap users) ELSE refs

\* Mutant: the unused rules are dropped with the Start stage.
SetStartsEarly(p) ==
    /\ refs' = Referenced(p)
    /\ rules' = IF p = "router" /\ stage = 2 THEN refs' # {} ELSE rules
    /\ update' = IF p = "router" /\ stage = (IF remote THEN 3 ELSE 2) THEN "wait" ELSE update

\* What starting a part does to the rule set: its users take references; the
\* router loads it at Start, lets it update itself at PostStart (the watcher of
\* a file from Start on), and has it drop unused rules at Started.
SetStarts(p) ==
    /\ refs' = Referenced(p)
    /\ rules' = CASE p = "router" /\ stage = 2 -> TRUE
                  [] p = "router" /\ stage = 4 -> rules /\ refs # {}
                  [] OTHER -> rules
    /\ update' = IF p = "router" /\ stage = (IF remote THEN 3 ELSE 2) THEN "wait" ELSE update

StartPart ==
    /\ phase = "starting"
    /\ startedManagers' = startedManagers \cup {Part}
    /\ Called(SetOf(StartedBy(Part, stage)))
    /\ SetStarts(Part)
    /\ Advance
    /\ UNCHANGED <<closed, users, remote, cancelled>>

\* Start returns the error after Close.  The part may have done its work on this
\* rule set when it fails: the router's rules are started before any set is told
\* to update itself.
StartFails ==
    /\ phase = "starting" /\ Fallible(Part, stage)
    /\ startedManagers' = startedManagers \cup {Part}
    /\ \E units \in Attempted(Part, stage) : Called(units)
    /\ \/ stage = 2 /\ SetStarts(Part)
       \/ stage = 3 /\ refs' = Referenced(Part) /\ UNCHANGED <<rules, update>>
       \/ UNCHANGED <<refs, rules, update>>
    /\ phase' = "closing" /\ place' = 1
    /\ UNCHANGED <<stage, closed, users, remote, cancelled>>

\* Close of a box that is up, or that was only created to check a
\* configuration.  A second Close finds done closed and returns.
Close ==
    /\ phase \in {"new", "up"}
    /\ phase' = "closing" /\ place' = 1
    /\ UNCHANGED <<stage, startedManagers, seen, closed, users, remote, set>>

\* A manager that was not started at any stage closes nothing, one that was
\* closes its whole list.
Closes(p) == IF p \in Managers /\ p \notin startedManagers THEN {} ELSE SetOf(Listed(p))

\* The router closes the rule set, which drops its rules and ends its context.
ClosePart ==
    /\ phase = "closing"
    /\ closed' = [u \in Units |-> closed[u] + (IF u \in Closes(Part) THEN 1 ELSE 0)]
    /\ startedManagers' = startedManagers \ {Part}
    /\ rules' = (rules /\ Part # "router")
    /\ cancelled' = (cancelled \/ Part = "router")
    /\ place' = IF place < Len(CloseOrder) THEN place + 1 ELSE 1
    /\ phase' = IF place < Len(CloseOrder) THEN "closing" ELSE "closed"
    /\ UNCHANGED <<stage, seen, users, remote, refs, update>>
-----------------------------------------------------------------------------
(* The goroutine that updates the rule set.                                *)

\* The ticker fires, or the file has changed; a tick may be taken although the
\* context is done.
Update ==
    /\ update = "wait"
    /\ update' = "fetch"
    /\ UNCHANGED <<life, users, remote, refs, rules, cancelled>>

\* The request or the content is no good.
FetchFails ==
    /\ update = "fetch"
    /\ update' = "wait"
    /\ UNCHANGED <<life, users, remote, refs, rules, cancelled>>

\* fetch succeeds, with new content, whose rules replace the old ones, or
\* without; a built-in file is read whether the context is done or not.
Fetched ==
    /\ update = "fetch"
    /\ rules' \in {rules, TRUE}
    /\ update' = IF remote THEN "unused" ELSE "wait"
    /\ UNCHANGED <<life, users, remote, refs, cancelled>>

\* After a successful fetch a remote set without references drops its rules.
DropUnused ==
    /\ update = "unused"
    /\ rules' = (rules /\ refs # {})
    /\ update' = "wait"
    /\ UNCHANGED <<life, users, remote, refs, cancelled>>

UpdateEnds ==
    /\ update = "wait" /\ cancelled
    /\ update' = "off"
    /\ UNCHANGED <<life, users, remote, refs, rules, cancelled>>

BoxDone == phase = "closed" /\ update = "off" /\ UNCHANGED boxVars

BoxNext ==
    \/ BoxStart \/ StartPart \/ StartFails \/ Close \/ ClosePart
    \/ Update \/ FetchFails \/ Fetched \/ DropUnused \/ UpdateEnds
    \/ BoxDone

BoxSpec == BoxInit /\ [][BoxNext]_boxVars
-----------------------------------------------------------------------------
\* Whichever stage fails and whoever is started by another manager than closes
\* it: a unit is started at each stage once and in order, is closed at most once
\* and never started after that, has been through all stages when Start returns
\* without an error, and is closed when Close returns if any of its stages ran.
EachUnitOnce ==
    \A u \in Units :
        /\ seen[u] = [s \in 1 .. Len(seen[u]) |-> s]
        /\ closed[u] <= 1
        /\ phase = "starting" => closed[u] = 0
        /\ phase = "up" => Len(seen[u]) = (IF u = "logger" THEN 1 ELSE 4)
        /\ phase = "closed" /\ seen[u] # <<>> => closed[u] = 1

Up(u) == Len(seen[u]) >= 2 /\ closed[u] = 0

\* While an inbound is open, the outbounds, the DNS transports, the routers and
\* the network that its connections need are started and not closed, while the
\* box starts, when starting fails half-way and while it closes.
AcceptsWhenServed ==
    (\E i \in SetOf(Listed("inbound")) : Up(i)) =>
        \A p \in {"outbound", "dnsTransport", "dnsRouter", "network", "connection", "router"} :
            \A u \in SetOf(Listed(p)) : Up(u)

\* A rule set that somebody has taken a reference to keeps its rules, from the
\* moment the router has loaded it until the box closes: neither an update nor
\* the clean-up finds it unused because a user was started too late.
UsedSetKeepsRules ==
    /\ phase = "starting" /\ refs # {} /\ Len(seen["router"]) >= 2 => rules
    /\ phase = "up" => (rules \/ users = {})
==============================================================================
