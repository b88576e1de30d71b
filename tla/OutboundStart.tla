---------------------------- MODULE OutboundStart ----------------------------
(***************************************************************************)
(* The Start stage of the outbound manager, core/adapter/outbound/manager.go: *)
(* the choice of the default outbound, and startOutbounds, which starts    *)
(* outbounds and endpoints in passes over one list, an outbound as soon as *)
(* its dependencies are started, and explains why when a pass starts none. *)
(*                                                                         *)
(* The configuration is a variable that no step changes, so that one run   *)
(* covers every dependency graph.  An outbound is its tag and the set of   *)
(* its dependencies; their order only decides which of two complaints is   *)
(* reported first, and is left open.                                       *)
(***************************************************************************)
EXTENDS Integers, Sequences

CONSTANTS Configurations, \* the tags of the outbounds and of the endpoints, in order
          Tags,           \* every tag a dependency may name
          DefaultTags,    \* the values of route.final, None when it is empty
          FallbackTag,    \* "direct"
          MayFail,        \* an outbound's own Start may fail
          None

Elements(s) == {s[i] : i \in 1 .. Len(s)}

ASSUME ConstantsAssumption ==
    /\ Configurations \subseteq [outbounds : Seq(Tags), endpoints : Seq(Tags)]
    /\ FallbackTag \in Tags
    /\ DefaultTags \subseteq Tags \cup {None}
    /\ MayFail \in BOOLEAN
    /\ None \notin Tags

\* checkOutbounds rejects a configuration that uses a tag twice.
CheckOutbounds(c) ==
    LET tags == c.outbounds \o c.endpoints
    IN  \A i, j \in 1 .. Len(tags) : tags[i] = tags[j] => i = j

ASSUME TagsChecked == \A c \in Configurations : CheckOutbounds(c)

VARIABLES defaultTag,       \* Manager.defaultTag
          defaultOutbound,  \* the tag of Manager.defaultOutbound
          outbounds,        \* Manager.outbounds
          endpoints,        \* the endpoint manager's list
          list,             \* startOutbounds' argument
          started,          \* its local map
          next, canContinue, \* the pass: the index of its next outbound
          oTree, oCurrent,  \* lintOutbound's arguments
          problemOutboundTag,
          pc

config == <<defaultTag, endpoints>>
lint == <<oTree, oCurrent, problemOutboundTag>>
vars == <<config, defaultOutbound, outbounds, list, started, next, canContinue, lint, pc>>

Outbound == [tag : Tags, dependencies : SUBSET Tags]

\* The direct outbound of defaultOutboundFallback.
Fallback == [tag |-> FallbackTag, dependencies |-> {}]

TagsOf(s) == {s[k].tag : k \in 1 .. Len(s)}

Configured(tags) ==
    {s \in [1 .. Len(tags) -> Outbound] : \A k \in 1 .. Len(tags) : s[k].tag = tags[k]}

\* Create's choice of the default while the outbounds are configured: the one
\* route.final names, or the first one.
CreatedDefault(default, tags) ==
    IF default \in Elements(tags) THEN default
    ELSE IF default = None /\ tags # <<>> THEN tags[1] ELSE None

Init ==
    /\ \E c \in Configurations :
          /\ outbounds \in Configured(c.outbounds)
          /\ endpoints \in Configured(c.endpoints)
          /\ defaultTag \in DefaultTags
          /\ defaultOutbound = CreatedDefault(defaultTag, c.outbounds)
    /\ list = <<>>
    /\ started = {}
    /\ next = 1
    /\ canContinue = FALSE
    /\ oTree = {}
    /\ oCurrent = Fallback
    /\ problemOutboundTag = None
    /\ pc = "start"

\* Start(StartStateStart) up to the call of startOutbounds.
Start ==
    /\ pc = "start"
    /\ \/ /\ defaultTag # None /\ defaultOutbound = None /\ defaultTag \notin TagsOf(endpoints)
          /\ pc' = "defaultNotFound"
          /\ UNCHANGED <<defaultOutbound, outbounds, list>>
       \/ /\ defaultTag # None /\ defaultOutbound = None /\ defaultTag \in TagsOf(endpoints)
          /\ defaultOutbound' = defaultTag
          /\ list' = outbounds \o endpoints
          /\ pc' = "pass"
          /\ UNCHANGED outbounds
       \/ /\ defaultOutbound # None
          /\ list' = outbounds \o endpoints
          /\ pc' = "pass"
          /\ UNCHANGED <<defaultOutbound, outbounds>>
       \/ /\ defaultTag = None /\ defaultOutbound = None
          /\ outbounds' = Append(outbounds, Fallback)
          /\ defaultOutbound' = FallbackTag
          /\ list' = outbounds' \o endpoints
          /\ pc' = "pass"
    /\ UNCHANGED <<config, started, next, canContinue, lint>>

\* Mutant: dependencies are not waited for.
ReadyAlways(o) == o.tag \notin started

Ready(o) == o.tag \notin started /\ o.dependencies \subseteq started

\* One turn of the loop over the list.
StartOne ==
    /\ pc = "pass" /\ next <= Len(list)
    /\ next' = next + 1
    /\ \/ /\ ~Ready(list[next])
          /\ UNCHANGED <<started, canContinue, pc>>
       \/ /\ Ready(list[next])
          /\ started' = started \cup {list[next].tag}
          /\ canContinue' = TRUE
          /\ pc' \in {"pass"} \cup (IF MayFail THEN {"startFailed"} ELSE {})
    /\ UNCHANGED <<config, defaultOutbound, outbounds, list, lint>>

\* started is a map by tag: its length counts tags, not outbounds.
AllStarted == started = TagsOf(list) /\ \A j, k \in 1 .. Len(list) : list[j].tag = list[k].tag => j = k

\* Mutant: canContinue is declared outside the loop.
EndPassForever ==
    /\ pc = "pass" /\ next > Len(list)
    /\ \/ /\ AllStarted
          /\ pc' = "ok"
          /\ UNCHANGED next
       \/ /\ ~AllStarted /\ canContinue
          /\ next' = 1
          /\ UNCHANGED pc
    /\ UNCHANGED <<config, defaultOutbound, outbounds, list, started, canContinue, lint>>

\* The end of a pass.  The first outbound that is not started is linted; when
\* every tag is started and the list is longer, there is none and its Tag()
\* panics.
EndPass ==
    /\ pc = "pass" /\ next > Len(list)
    /\ \/ /\ AllStarted
          /\ pc' = "ok"
          /\ UNCHANGED <<next, canContinue, oTree, oCurrent>>
       \/ /\ ~AllStarted /\ canContinue
          /\ next' = 1
          /\ canContinue' = FALSE
          /\ UNCHANGED <<pc, oTree, oCurrent>>
       \/ /\ ~AllStarted /\ ~canContinue
          /\ \/ \E k \in 1 .. Len(list) :
                   /\ list[k].tag \notin started
                   /\ \A j \in 1 .. k - 1 : list[j].tag \in started
                   /\ oCurrent' = list[k]
                   /\ oTree' = {list[k].tag}
                   /\ pc' = "lint"
             \/ /\ TagsOf(list) \subseteq started
                /\ pc' = "panic"
                /\ UNCHANGED <<oTree, oCurrent>>
          /\ UNCHANGED <<next, canContinue>>
    /\ UNCHANGED <<config, defaultOutbound, outbounds, list, started, problemOutboundTag>>

\* Mutant: a dependency that exists is taken for one already visited.
LintOutboundHasty ==
    /\ pc = "lint"
    /\ problemOutboundTag' \in oCurrent.dependencies \ started
    /\ pc' = IF problemOutboundTag' \in TagsOf(outbounds) THEN "circular" ELSE "notFound"
    /\ UNCHANGED <<config, defaultOutbound, outbounds, list, started, next, canContinue, oTree, oCurrent>>

\* lintOutbound follows dependencies that are not started.  It looks them up
\* among the outbounds, where endpoints are not.
LintOutbound ==
    /\ pc = "lint"
    /\ problemOutboundTag' \in oCurrent.dependencies \ started
    /\ \/ /\ problemOutboundTag' \in oTree
          /\ pc' = "circular"
          /\ UNCHANGED <<oTree, oCurrent>>
       \/ /\ problemOutboundTag' \notin oTree \cup TagsOf(outbounds)
          /\ pc' = "notFound"
          /\ UNCHANGED <<oTree, oCurrent>>
       \/ /\ problemOutboundTag' \notin oTree
          /\ \E k \in 1 .. Len(outbounds) :
                outbounds[k].tag = problemOutboundTag' /\ oCurrent' = outbounds[k]
          /\ oTree' = oTree \cup {problemOutboundTag'}
          /\ UNCHANGED pc
    /\ UNCHANGED <<config, defaultOutbound, outbounds, list, started, next, canContinue>>

Errors == {"defaultNotFound", "startFailed", "circular", "notFound", "panic"}

Outcomes == Errors \cup {"ok"}

Done == pc \in Outcomes /\ UNCHANGED vars

Next == Start \/ StartOne \/ EndPass \/ LintOutbound \/ Done

Spec == Init /\ [][Next]_vars
------------------------------------------------------------------------------
\* A set of tags none of which can be started before another one of them, or
\* before a dependency that is not in the list.
Stuck(S) ==
    \A k \in 1 .. Len(list) :
        list[k].tag \in S => \E d \in list[k].dependencies : d \in S \/ d \notin TagsOf(list)

WellFounded == \A S \in SUBSET TagsOf(list) : Stuck(S) => S = {}

\* startOutbounds succeeds exactly for the dependency graphs that have an order
\* to start in, unless an outbound itself fails to start; it never panics.
StartOutcome ==
    /\ pc = "ok" => WellFounded
    /\ pc \in {"circular", "notFound"} => ~WellFounded
    /\ pc # "panic"

\* Tags of the list each of which depends on another one of them.
Circle(S) ==
    /\ S \subseteq TagsOf(list)
    /\ \A k \in 1 .. Len(list) : list[k].tag \in S => list[k].dependencies \cap S # {}

\* What the error of lintOutbound says is the case: the dependencies it lists
\* contain a circle, or the one it names does not exist.  The second holds only
\* without endpoints, which lintOutbound does not look among.
DiagnosisIsTrue ==
    /\ pc = "circular" => \E S \in SUBSET oTree : S # {} /\ Circle(S)
    /\ pc = "notFound" /\ endpoints = <<>> => problemOutboundTag \notin TagsOf(list)

\* startOutbounds returns: no pass that starts nothing is repeated.
Terminates == <>(pc \in Outcomes)
==============================================================================
