------------------------- MODULE OutboundStartProofs -------------------------
(***************************************************************************)
(* startOutbounds decides, for every dependency graph of every size,       *)
(* whether the outbounds have an order to start in, and what it reports    *)
(* when they have none is the case.  The box starts every unit of every    *)
(* list once at each stage, closes it once, and opens the inbounds only    *)
(* while all that serve them are up.                                       *)
(***************************************************************************)
EXTENDS OutboundStart, Box, SequenceTheorems, TLAPS

Unique(s) == \A j, k \in 1 .. Len(s) : s[j].tag = s[k].tag => j = k

\* The fallback's tag is free when the fallback is needed.
FallbackTagFree ==
    \A c \in Configurations : c.outbounds = <<>> => FallbackTag \notin Elements(c.endpoints)

\* No outbound of the list can be started now.
NoneReady(n) == \A k \in 1 .. n : list[k].tag \in started \/ ~(list[k].dependencies \subseteq started)

NeverEntered == \A S \in SUBSET TagsOf(list) : Stuck(S) => S \cap started = {}

Lists ==
    /\ outbounds \in Seq(Outbound)
    /\ endpoints \in Seq(Outbound)
    /\ list \in Seq(Outbound)
    /\ next \in Nat \ {0}

BeforeStart ==
    /\ pc = "start" => /\ Unique(outbounds \o endpoints)
                       /\ list = <<>> /\ started = {}
                       /\ next = 1 /\ canContinue = FALSE
    /\ pc = "start" /\ defaultTag = None /\ defaultOutbound = None =>
           outbounds = <<>> /\ FallbackTag \notin TagsOf(endpoints)

\* The inductive invariant.  A stuck set of tags is never entered: its first
\* member to be started would need another one, or a tag that is not listed.
\* A pass that has started nothing has met nothing that was ready.
StartInv ==
    /\ Lists
    /\ BeforeStart
    /\ Unique(list)
    /\ started \subseteq TagsOf(list)
    /\ NeverEntered
    /\ pc = "pass" /\ canContinue = FALSE => NoneReady(next - 1)
    /\ pc = "ok" => TagsOf(list) \subseteq started
    /\ pc \in {"lint", "circular", "notFound"} =>
           NoneReady(Len(list)) /\ ~(TagsOf(list) \subseteq started)
    /\ pc # "panic"

\* The invariant decides the outcome: what is left over is itself stuck.
LEMMA InvDecides == StartInv => StartOutcome
<1> SUFFICES ASSUME StartInv PROVE StartOutcome
  OBVIOUS
<1>1. pc = "ok" => WellFounded
  BY ZenonT(60) DEF StartInv, WellFounded, NeverEntered
<1>2. ASSUME pc \in {"circular", "notFound"} PROVE ~WellFounded
  <2> DEFINE U == TagsOf(list) \ started
  <2>1. NoneReady(Len(list)) /\ U # {}
    BY <1>2, ZenonT(60) DEF StartInv
  <2>2. Stuck(U)
    <3> SUFFICES ASSUME NEW k \in 1 .. Len(list), list[k].tag \in U
                 PROVE  \E d \in list[k].dependencies : d \in U \/ d \notin TagsOf(list)
      BY ZenonT(60) DEF Stuck
    <3>1. PICK d \in list[k].dependencies : d \notin started
      BY <2>1, ZenonT(60) DEF NoneReady
    <3> QED
      BY <3>1, ZenonT(60)
  <2> QED
    BY <2>1, <2>2, ZenonT(60) DEF WellFounded
<1> QED
  BY <1>1, <1>2, ZenonT(60) DEF StartOutcome, StartInv

\* The tags of a configured list are the configured tags.
LEMMA ConfiguredLists ==
    ASSUME NEW c \in Configurations,
           NEW o \in Configured(c.outbounds), NEW e \in Configured(c.endpoints)
    PROVE  /\ o \in Seq(Outbound) /\ e \in Seq(Outbound)
           /\ Len(o) = Len(c.outbounds)
           /\ Unique(o \o e)
           /\ TagsOf(e) = Elements(c.endpoints)
<1>1. c.outbounds \in Seq(Tags) /\ c.endpoints \in Seq(Tags)
  BY ConstantsAssumption, ZenonT(60)
<1>2. o \in [1 .. Len(c.outbounds) -> Outbound] /\ e \in [1 .. Len(c.endpoints) -> Outbound]
  BY ZenonT(60) DEF Configured
<1>3. o \in Seq(Outbound) /\ e \in Seq(Outbound)
  <2>1. Len(c.outbounds) \in Nat /\ Len(c.endpoints) \in Nat
    BY <1>1, LenProperties, ZenonT(60)
  <2>2. \A n \in Nat : \A s \in [1 .. n -> Outbound] : s \in Seq(Outbound)
    BY SeqDef, ZenonT(60)
  <2> QED
    BY <1>2, <2>1, <2>2, ZenonT(60)
<1>4. Len(o) = Len(c.outbounds) /\ Len(e) = Len(c.endpoints)
  BY <1>1, <1>2
<1>5. /\ \A k \in 1 .. Len(o) : o[k].tag = c.outbounds[k]
      /\ \A k \in 1 .. Len(e) : e[k].tag = c.endpoints[k]
  BY <1>4, ZenonT(60) DEF Configured
<1>6. Unique(o \o e)
  <2> DEFINE tags == c.outbounds \o c.endpoints
  <2>1. /\ Len(tags) = Len(c.outbounds) + Len(c.endpoints)
        /\ \A k \in 1 .. Len(c.outbounds) + Len(c.endpoints) :
              tags[k] = IF k <= Len(c.outbounds) THEN c.outbounds[k]
                        ELSE c.endpoints[k - Len(c.outbounds)]
    BY <1>1, ConcatProperties, ZenonT(60)
  <2> DEFINE both == o \o e
  <2>2. /\ Len(both) = Len(o) + Len(e)
        /\ \A k \in 1 .. Len(o) + Len(e) :
              both[k] = IF k <= Len(o) THEN o[k] ELSE e[k - Len(o)]
    BY <1>3, ConcatProperties, ZenonT(60)
  <2> HIDE DEF tags, both
  <2>4. Len(o) \in Nat /\ Len(e) \in Nat
    BY <1>3
  <2>5. Len(both) = Len(o) + Len(e) /\ Len(tags) = Len(o) + Len(e)
    BY <1>4, <2>1, <2>2, ZenonT(60)
  <2>6. ASSUME NEW k \in 1 .. Len(o) + Len(e) PROVE both[k].tag = tags[k]
    <3>1. CASE k <= Len(o)
      <4>1. k \in 1 .. Len(o) /\ k \in 1 .. Len(o) + Len(e)
        BY <3>1, <2>4
      <4>2. both[k] = o[k] /\ tags[k] = c.outbounds[k]
        BY <3>1, <4>1, <1>4, <2>1, <2>2, ZenonT(60)
      <4> QED
        BY <4>1, <4>2, <1>5, ZenonT(60)
    <3>2. CASE k > Len(o)
      <4>1. k - Len(o) \in 1 .. Len(e) /\ k \in 1 .. Len(o) + Len(e)
        BY <3>2, <2>4
      <4>2. both[k] = e[k - Len(o)] /\ tags[k] = c.endpoints[k - Len(o)]
        <5>1. ~(k <= Len(o))
          BY <3>2, <2>4
        <5>2. both[k] = e[k - Len(o)]
          BY <5>1, <2>2, ZenonT(60)
        <5>3. tags[k] = c.endpoints[k - Len(c.outbounds)]
          BY <5>1, <2>1, <1>4, ZenonT(60)
        <5> QED
          BY <5>2, <5>3, <1>4, ZenonT(60)
      <4> QED
        BY <4>1, <4>2, <1>5, ZenonT(60)
    <3> QED
      BY <3>1, <3>2, <2>4
  <2>3. \A j, k \in 1 .. Len(tags) : tags[j] = tags[k] => j = k
    BY TagsChecked, ZenonT(60) DEF CheckOutbounds, tags
  <2> QED
    <3>1. ASSUME NEW j \in 1 .. Len(both), NEW k \in 1 .. Len(both), both[j].tag = both[k].tag
          PROVE  j = k
      <4>1. tags[j] = tags[k]
        BY <2>5, <2>6, <3>1, ZenonT(60)
      <4> QED
        BY <2>3, <2>5, <4>1, ZenonT(60)
    <3> QED
      BY <3>1, ZenonT(60) DEF Unique, both
<1>7. TagsOf(e) = Elements(c.endpoints)
  BY <1>4, <1>5, ZenonT(60) DEF TagsOf, Elements
<1> QED
  BY <1>3, <1>4, <1>6, <1>7, ZenonT(60)

\* The lists of a new manager: outbounds, endpoints and the fallback, each tag once.
LEMMA InitInv == FallbackTagFree /\ Init => StartInv
<1> SUFFICES ASSUME FallbackTagFree, Init PROVE StartInv
  OBVIOUS
<1>1. PICK c \in Configurations :
         /\ outbounds \in Configured(c.outbounds)
         /\ endpoints \in Configured(c.endpoints)
         /\ defaultOutbound = CreatedDefault(defaultTag, c.outbounds)
  BY ZenonT(60) DEF Init
<1>2. /\ outbounds \in Seq(Outbound) /\ endpoints \in Seq(Outbound)
      /\ Len(outbounds) = Len(c.outbounds)
      /\ Unique(outbounds \o endpoints)
      /\ TagsOf(endpoints) = Elements(c.endpoints)
  BY <1>1, ConfiguredLists, ZenonT(60)
<1>3. list = <<>> /\ started = {} /\ next = 1 /\ canContinue = FALSE /\ pc = "start"
  BY ZenonT(60) DEF Init
<1>4. ASSUME defaultTag = None, defaultOutbound = None
      PROVE  outbounds = <<>> /\ FallbackTag \notin TagsOf(endpoints)
  <2>1. c.outbounds \in Seq(Tags) /\ None \notin Tags
    BY ConstantsAssumption, ZenonT(60)
  <2>2. None \notin Elements(c.outbounds)
    BY <2>1 DEF Elements
  <2>3. c.outbounds # <<>> => c.outbounds[1] \in Tags
    BY <2>1
  <2>4. c.outbounds = <<>>
    BY <1>1, <1>4, <2>1, <2>2, <2>3, ZenonT(60) DEF CreatedDefault
  <2>5. outbounds = <<>>
    BY <1>2, <2>4
  <2> QED
    BY <1>2, <2>4, <2>5, ZenonT(60) DEF FallbackTagFree
<1>5. Lists /\ BeforeStart /\ Unique(list)
  BY <1>2, <1>3, <1>4 DEF Lists, BeforeStart, Unique
<1> QED
  BY <1>3, <1>5, ZenonT(60) DEF StartInv, NeverEntered

\* Start hands startOutbounds a list whose tags differ.
LEMMA StartStep ==
    ASSUME StartInv, Start PROVE Lists' /\ Unique(list)'
<1>1. /\ outbounds \in Seq(Outbound) /\ endpoints \in Seq(Outbound) /\ pc = "start"
      /\ Unique(outbounds \o endpoints) /\ list = <<>> /\ next \in Nat \ {0}
  BY ZenonT(60) DEF StartInv, Lists, BeforeStart, Start
<1>2. CASE pc' = "defaultNotFound"
  BY <1>1, <1>2 DEF Start, Lists, Unique, config
<1>3. CASE list' = outbounds \o endpoints /\ UNCHANGED outbounds
  BY <1>1, <1>3, ConcatProperties, ZenonT(60) DEF Start, Lists, Unique, config
<1>4. CASE /\ outbounds' = Append(outbounds, Fallback)
           /\ list' = outbounds' \o endpoints
           /\ defaultTag = None /\ defaultOutbound = None
  <2>1. outbounds = <<>> /\ FallbackTag \notin TagsOf(endpoints)
    BY <1>1, <1>4, ZenonT(60) DEF StartInv, BeforeStart
  <2>2. Fallback \in Outbound /\ Fallback.tag = FallbackTag
    BY ConstantsAssumption, ZenonT(60) DEF Fallback, Outbound
  <2> HIDE DEF Fallback
  <2>3. outbounds' = <<Fallback>>
    BY <1>4, <2>1
  <2>4. outbounds' \in Seq(Outbound) /\ Len(outbounds') = 1 /\ outbounds'[1] = Fallback
    BY <2>2, <2>3
  <2>5. /\ list' \in Seq(Outbound)
        /\ Len(list') = 1 + Len(endpoints)
        /\ \A k \in 1 .. 1 + Len(endpoints) :
              list'[k] = IF k <= 1 THEN outbounds'[k] ELSE endpoints[k - 1]
    <3>1. /\ list' \in Seq(Outbound)
          /\ Len(list') = Len(outbounds') + Len(endpoints)
          /\ \A k \in 1 .. Len(outbounds') + Len(endpoints) :
                list'[k] = IF k <= Len(outbounds') THEN outbounds'[k]
                           ELSE endpoints[k - Len(outbounds')]
      BY <1>1, <1>4, <2>4, ConcatProperties, ZenonT(60)
    <3> QED
      BY <3>1, <2>4, ZenonT(60)
  <2>6. \A k \in 1 .. Len(endpoints) : endpoints[k].tag # FallbackTag
    BY <2>1, ZenonT(60) DEF TagsOf
  <2>7. \A j, k \in 1 .. Len(endpoints) : endpoints[j].tag = endpoints[k].tag => j = k
    BY <1>1, <2>1 DEF Unique
  <2>8. Len(endpoints) \in Nat
    BY <1>1
  <2>9. ASSUME NEW j \in 1 .. Len(list'), NEW k \in 1 .. Len(list'), list'[j].tag = list'[k].tag
        PROVE  j = k
    <3>1. list'[1].tag = FallbackTag
      BY <2>2, <2>4, <2>5, <2>8
    <3>2. ASSUME NEW n \in 2 .. 1 + Len(endpoints)
          PROVE  n - 1 \in 1 .. Len(endpoints) /\ list'[n] = endpoints[n - 1]
      BY <2>5, <2>8
    <3>3. CASE j = 1 \/ k = 1
      <4>1. \A n \in 2 .. 1 + Len(endpoints) : list'[n].tag # FallbackTag
        BY <3>2, <2>6, ZenonT(60)
      <4> QED
        BY <4>1, <3>1, <3>3, <2>5, <2>8, <2>9
    <3>4. CASE j # 1 /\ k # 1
      <4>1. j \in 2 .. 1 + Len(endpoints) /\ k \in 2 .. 1 + Len(endpoints)
        BY <3>4, <2>5, <2>8
      <4>2. endpoints[j - 1].tag = endpoints[k - 1].tag
        BY <4>1, <3>2, <2>9, ZenonT(60)
      <4>3. j - 1 = k - 1
        BY <4>1, <4>2, <3>2, <2>7, ZenonT(60)
      <4> QED
        BY <4>1, <4>3, <2>8
    <3> QED
      BY <3>3, <3>4, ZenonT(60)
  <2> QED
    BY <1>1, <2>4, <2>5, <2>9, ZenonT(60) DEF Start, Lists, Unique, config
<1> QED
  BY <1>2, <1>3, <1>4, ZenonT(60) DEF Start

\* What depends on the list alone stays when the list does.
LEMMA SameList ==
    ASSUME list' = list
    PROVE  /\ TagsOf(list)' = TagsOf(list)
           /\ Unique(list)' = Unique(list)
           /\ \A S : Stuck(S)' <=> Stuck(S)
<1>1. TagsOf(list)' = TagsOf(list)
  BY ZenonT(60) DEF TagsOf
<1>2. Unique(list)' = Unique(list)
  BY ZenonT(60) DEF Unique
<1>3. ASSUME NEW S PROVE Stuck(S)' <=> Stuck(S)
  BY <1>1, ZenonT(60) DEF Stuck
<1> QED
  BY <1>1, <1>2, <1>3, ZenonT(60)

\* Nothing is entered while the list and what is started stay.
LEMMA SameStarted ==
    ASSUME UNCHANGED <<list, started>>, NeverEntered
    PROVE  NeverEntered'
BY SameList, ZenonT(60) DEF NeverEntered

\* Starting one outbound keeps out of every stuck set.
LEMMA StartOneStep ==
    ASSUME StartInv, StartOne PROVE StartInv'
<1> DEFINE o == list[next]
<1>1. /\ pc = "pass" /\ next \in 1 .. Len(list) /\ next' = next + 1
      /\ UNCHANGED <<outbounds, endpoints, list>>
      /\ list \in Seq(Outbound) /\ next \in Nat \ {0}
  BY DEF StartInv, Lists, StartOne, config
<1>2. Lists' /\ Unique(list)' /\ BeforeStart'
  BY <1>1 DEF StartInv, StartOne, Lists, Unique, BeforeStart
<1>3. CASE ~Ready(o) /\ UNCHANGED <<started, canContinue, pc>>
  <2>1. canContinue' = FALSE => NoneReady(next - 1)'
    BY <1>1, <1>3 DEF StartInv, NoneReady, Ready
  <2> QED
    BY <1>1, <1>2, <1>3, <2>1, SameList, SameStarted, ZenonT(60) DEF StartInv
<1>4. CASE Ready(o) /\ started' = started \cup {o.tag} /\ canContinue' = TRUE
           /\ pc' \in {"pass", "startFailed"}
  <2>1. o.tag \in TagsOf(list) /\ o.dependencies \subseteq started
    BY <1>1, <1>4, ZenonT(60) DEF Ready, TagsOf
  <2>2. started' \subseteq TagsOf(list)'
    BY <1>1, <1>4, <2>1, ZenonT(60) DEF StartInv, TagsOf
  <2>3. ASSUME NEW S \in SUBSET TagsOf(list), Stuck(S) PROVE S \cap started' = {}
    <3>1. S \cap started = {} /\ started \subseteq TagsOf(list)
      BY <2>3, ZenonT(60) DEF StartInv, NeverEntered
    <3>2. o.tag \notin S
      BY <1>1, <2>1, <2>3, <3>1, ZenonT(60) DEF Stuck
    <3> QED
      BY <1>4, <3>1, <3>2, ZenonT(60)
  <2>4. NeverEntered'
    BY <1>1, <2>3, SameList, ZenonT(60) DEF NeverEntered
  <2> QED
    BY <1>2, <1>4, <2>2, <2>4, ZenonT(60) DEF StartInv
<1> QED
  BY <1>3, <1>4, ZenonT(60) DEF StartOne

\* A pass ends: with another one, with everything started, or with a diagnosis.
LEMMA EndPassStep ==
    ASSUME StartInv, EndPass PROVE StartInv'
<1>1. /\ pc = "pass" /\ next > Len(list)
      /\ UNCHANGED <<outbounds, endpoints, list, started>>
      /\ list \in Seq(Outbound) /\ next \in Nat \ {0} /\ next' \in {next, 1}
  BY ZenonT(60) DEF StartInv, Lists, EndPass, config
<1>2. Lists' /\ Unique(list)' /\ started' \subseteq TagsOf(list)'
  BY <1>1 DEF StartInv, EndPass, Lists, Unique, TagsOf
<1>3. NeverEntered'
  BY <1>1, SameStarted, ZenonT(60) DEF StartInv
<1>4. TagsOf(list) \subseteq started => AllStarted
  BY ZenonT(60) DEF StartInv, Unique, AllStarted
<1>5. CASE AllStarted /\ pc' = "ok"
  BY <1>1, <1>2, <1>3, <1>5 DEF StartInv, BeforeStart, AllStarted, TagsOf
<1>6. CASE next' = 1 /\ canContinue' = FALSE /\ UNCHANGED pc
  BY <1>1, <1>2, <1>3, <1>6 DEF StartInv, BeforeStart, NoneReady
<1>7. CASE ~AllStarted /\ ~canContinue /\ pc' = "lint" /\ UNCHANGED <<next, canContinue>>
  <2>1. ~(TagsOf(list) \subseteq started)
    BY <1>4, <1>7, ZenonT(60)
  <2>2. canContinue = FALSE => NoneReady(Len(list))
    BY <1>1 DEF StartInv, NoneReady
  <2> QED
    BY <1>1, <1>2, <1>3, <1>7, <2>1, <2>2 DEF StartInv, BeforeStart, NoneReady, TagsOf
<1>8. ~(~AllStarted /\ TagsOf(list) \subseteq started)
  BY <1>4, ZenonT(60)
<1> QED
  BY <1>5, <1>6, <1>7, <1>8, ZenonT(60) DEF EndPass

\* Every step of startOutbounds keeps the invariant.
LEMMA NextInv == StartInv /\ [Next]_vars => StartInv'
<1> SUFFICES ASSUME StartInv, [Next]_vars PROVE StartInv'
  OBVIOUS
<1>1. CASE Start
  <2>1. pc = "start" /\ started' = {} /\ next' = 1 /\ canContinue' = FALSE
    BY <1>1, ZenonT(60) DEF StartInv, BeforeStart, Start
  <2>2. pc' \in {"defaultNotFound", "pass"}
    BY <1>1, ZenonT(60) DEF Start
  <2>3. Lists' /\ Unique(list)'
    BY <1>1, StartStep, ZenonT(60)
  <2> QED
    BY <2>1, <2>2, <2>3 DEF StartInv, NeverEntered, BeforeStart, NoneReady
<1>2. CASE StartOne
  BY <1>2, StartOneStep, ZenonT(60)
<1>3. CASE EndPass
  BY <1>3, EndPassStep
<1>4. CASE LintOutbound \/ Done \/ UNCHANGED vars
  <2>1. UNCHANGED <<outbounds, endpoints, list, started, next, canContinue, defaultTag, defaultOutbound>>
    BY <1>4, ZenonT(60) DEF LintOutbound, Done, vars, config, lint
  <2>2. pc' = pc \/ (pc = "lint" /\ pc' \in {"circular", "notFound"})
    BY <1>4, ZenonT(60) DEF LintOutbound, Done, vars
  <2>3. NeverEntered' /\ Unique(list)' /\ TagsOf(list)' = TagsOf(list)
    BY <2>1, SameList, SameStarted, ZenonT(60) DEF StartInv
  <2>4. Lists' /\ BeforeStart'
    BY <2>1, <2>2, ZenonT(60) DEF StartInv, Lists, BeforeStart, Unique, TagsOf
  <2>5. \A n : NoneReady(n)' = NoneReady(n)
    BY <2>1, ZenonT(60) DEF NoneReady
  <2> QED
    BY <2>1, <2>2, <2>3, <2>4, <2>5, ZenonT(60) DEF StartInv
<1> QED
  BY <1>1, <1>2, <1>3, <1>4, ZenonT(60) DEF Next

\* For every configuration and every dependency graph: when the fallback's tag
\* is not taken by an endpoint, startOutbounds succeeds only if there is an
\* order to start in, fails with a diagnosis only if there is none, and never
\* panics.
THEOREM StartDecidesOrder ==
    ASSUME FallbackTagFree PROVE Spec => []StartOutcome
<1>1. Init => StartInv
  BY InitInv, ZenonT(60)
<1> QED
  BY <1>1, NextInv, InvDecides, PTL DEF Spec

\* Where the list comes from: startOutbounds is given both managers' lists.
ListIs == pc \in {"pass", "lint", "circular", "notFound"} => list = outbounds \o endpoints

\* lintOutbound walks along dependencies: whatever it has left depends on
\* something it has visited, and where it is, is an outbound of the list.
Walk ==
    /\ pc \in {"lint", "circular", "notFound"} =>
          /\ oTree \subseteq TagsOf(list)
          /\ oCurrent.tag \in oTree
          /\ \E k \in 1 .. Len(list) : list[k] = oCurrent
          /\ \A k \in 1 .. Len(list) :
                list[k].tag \in oTree /\ list[k].tag # oCurrent.tag =>
                    list[k].dependencies \cap oTree # {}
    /\ pc = "circular" => problemOutboundTag \in oCurrent.dependencies \cap oTree
    /\ pc = "notFound" => problemOutboundTag \notin TagsOf(outbounds)

LintInv == StartInv /\ ListIs /\ Walk

\* The tree of a walk that came back to itself is a circle.
LEMMA WalkDiagnoses == LintInv => DiagnosisIsTrue
<1> SUFFICES ASSUME LintInv PROVE DiagnosisIsTrue
  OBVIOUS
<1>1. ASSUME pc = "circular" PROVE oTree # {} /\ Circle(oTree)
  <2>1. PICK c \in 1 .. Len(list) : list[c] = oCurrent
    BY <1>1, ZenonT(60) DEF LintInv, Walk
  <2>2. ASSUME NEW k \in 1 .. Len(list), list[k].tag \in oTree
        PROVE  list[k].dependencies \cap oTree # {}
    <3>1. CASE list[k].tag = oCurrent.tag
      <4>1. k = c
        BY <2>1, <3>1, ZenonT(60) DEF LintInv, StartInv, Unique
      <4> QED
        BY <1>1, <2>1, <4>1, ZenonT(60) DEF LintInv, Walk
    <3>2. CASE list[k].tag # oCurrent.tag
      BY <1>1, <2>2, <3>2, ZenonT(60) DEF LintInv, Walk
    <3> QED
      BY <3>1, <3>2, ZenonT(60)
  <2> QED
    BY <1>1, <2>2, ZenonT(60) DEF LintInv, Walk, Circle
<1>2. ASSUME pc = "notFound", endpoints = <<>> PROVE problemOutboundTag \notin TagsOf(list)
  <2>1. outbounds \in Seq(Outbound)
    BY ZenonT(60) DEF LintInv, StartInv, Lists
  <2>2. outbounds \o <<>> = outbounds
    BY <2>1, ConcatEmptySeq, ZenonT(60)
  <2>3. list = outbounds
    BY <1>2, <2>2, ZenonT(60) DEF LintInv, ListIs
  <2> QED
    BY <1>2, <2>3, ZenonT(60) DEF LintInv, Walk
<1> QED
  BY <1>1, <1>2, ZenonT(60) DEF DiagnosisIsTrue

\* The outbounds come first in the list.
LEMMA OutboundsListed ==
    ASSUME LintInv, pc = "lint", NEW k \in 1 .. Len(outbounds)
    PROVE  \E j \in 1 .. Len(list) : list[j] = outbounds[k]
<1>1. outbounds \in Seq(Outbound) /\ endpoints \in Seq(Outbound) /\ list = outbounds \o endpoints
  BY ZenonT(60) DEF LintInv, StartInv, Lists, ListIs
<1>2. Len(list) = Len(outbounds) + Len(endpoints) /\ list[k] = outbounds[k]
  BY <1>1
<1>3. k \in 1 .. Len(list)
  BY <1>1, <1>2
<1> QED
  BY <1>2, <1>3, ZenonT(60)

\* A step along a dependency: the outbound left behind depends on the one the
\* walk goes to, which becomes part of the tree.
LEMMA LintStep ==
    ASSUME LintInv, LintOutbound PROVE Walk'
<1>1. /\ pc = "lint" /\ UNCHANGED <<outbounds, list, started>>
      /\ problemOutboundTag' \in oCurrent.dependencies
  BY ZenonT(60) DEF LintOutbound
<1>2. /\ oTree \subseteq TagsOf(list) /\ oCurrent.tag \in oTree
      /\ \E k \in 1 .. Len(list) : list[k] = oCurrent
      /\ \A k \in 1 .. Len(list) :
            list[k].tag \in oTree /\ list[k].tag # oCurrent.tag => list[k].dependencies \cap oTree # {}
  BY <1>1, ZenonT(60) DEF LintInv, Walk
<1>3. CASE problemOutboundTag' \in oTree /\ pc' = "circular" /\ UNCHANGED <<oTree, oCurrent>>
  BY <1>1, <1>2, <1>3, ZenonT(60) DEF Walk, TagsOf
<1>4. CASE /\ problemOutboundTag' \notin oTree \cup TagsOf(outbounds)
           /\ pc' = "notFound" /\ UNCHANGED <<oTree, oCurrent>>
  BY <1>1, <1>2, <1>4, ZenonT(60) DEF Walk, TagsOf
<1>5. ASSUME NEW o \in 1 .. Len(outbounds),
             outbounds[o].tag = problemOutboundTag', oCurrent' = outbounds[o],
             oTree' = oTree \cup {problemOutboundTag'}, pc' = pc
      PROVE  Walk'
  <2>1. PICK j \in 1 .. Len(list) : list[j] = oCurrent'
    BY <1>1, <1>5, OutboundsListed, ZenonT(60)
  <2>2. PICK c \in 1 .. Len(list) : list[c] = oCurrent
    BY <1>2, ZenonT(60)
  <2>3. oTree' \subseteq TagsOf(list) /\ oCurrent'.tag \in oTree'
    BY <1>2, <1>5, <2>1, ZenonT(60) DEF TagsOf
  <2>4. ASSUME NEW k \in 1 .. Len(list), list[k].tag \in oTree', list[k].tag # oCurrent'.tag
        PROVE  list[k].dependencies \cap oTree' # {}
    <3>1. list[k].tag \in oTree
      BY <1>5, <2>4, ZenonT(60)
    <3>2. CASE list[k].tag = oCurrent.tag
      <4>1. k = c
        BY <2>2, <3>2, ZenonT(60) DEF LintInv, StartInv, Unique
      <4> QED
        BY <1>1, <1>5, <2>2, <4>1, ZenonT(60)
    <3>3. CASE list[k].tag # oCurrent.tag
      BY <1>2, <1>5, <3>1, <3>3, ZenonT(60)
    <3> QED
      BY <3>2, <3>3, ZenonT(60)
  <2> QED
    BY <1>1, <1>5, <2>1, <2>3, <2>4 DEF Walk, TagsOf
<1> QED
  BY <1>3, <1>4, <1>5, ZenonT(60) DEF LintOutbound

\* The walk begins at the first outbound that is not started.
LEMMA EndPassWalk ==
    ASSUME LintInv, EndPass PROVE Walk'
<1>1. pc = "pass" /\ UNCHANGED <<outbounds, list>>
  BY ZenonT(60) DEF EndPass
<1>2. CASE pc' \in {"ok", "pass", "panic"}
  BY <1>2, ZenonT(60) DEF Walk
<1>3. ASSUME NEW k \in 1 .. Len(list), oCurrent' = list[k], oTree' = {list[k].tag}, pc' = "lint"
      PROVE  Walk'
  BY <1>1, <1>3, ZenonT(60) DEF Walk, TagsOf
<1> QED
  BY <1>1, <1>2, <1>3, ZenonT(60) DEF EndPass

\* Every step keeps the walk and the list.
LEMMA LintNext == LintInv /\ [Next]_vars => LintInv'
<1> SUFFICES ASSUME LintInv, [Next]_vars PROVE LintInv'
  OBVIOUS
<1>1. StartInv'
  BY NextInv, ZenonT(60) DEF LintInv
<1>2. CASE Start
  BY <1>1, <1>2, ZenonT(60) DEF Start, LintInv, ListIs, Walk, config
<1>3. CASE StartOne
  BY <1>1, <1>3, ZenonT(60) DEF StartOne, LintInv, ListIs, Walk, config
<1>4. CASE EndPass
  BY <1>1, <1>4, EndPassWalk, ZenonT(60) DEF EndPass, LintInv, ListIs, config
<1>5. CASE LintOutbound
  BY <1>1, <1>5, LintStep, ZenonT(60) DEF LintOutbound, LintInv, ListIs, config
<1>6. CASE Done \/ UNCHANGED vars
  BY <1>1, <1>6, ZenonT(60) DEF Done, vars, config, lint, LintInv, ListIs, Walk, TagsOf
<1> QED
  BY <1>2, <1>3, <1>4, <1>5, <1>6, ZenonT(60) DEF Next

\* For every configuration and every dependency graph, under the same
\* condition: a circular dependency that lintOutbound reports is one, and a
\* dependency that it reports missing, where there are no endpoints, is missing.
THEOREM LintIsRight ==
    ASSUME FallbackTagFree PROVE Spec => []DiagnosisIsTrue
<1>1. Init => LintInv
  BY InitInv, ZenonT(60) DEF Init, LintInv, ListIs, Walk
<1> QED
  BY <1>1, LintNext, WalkDiagnoses, PTL DEF Spec

\* Nothing on the walk has been started.
OpenWalk == pc = "lint" => oTree \cap started = {}

\* Where lintOutbound stands it finds a dependency that is not started: the
\* call of common.Find never comes back with the empty string.
FindsDependency == pc = "lint" => oCurrent.dependencies \ started # {}

\* The walk goes only to what is not started.
LEMMA OpenNext == LintInv /\ OpenWalk /\ [Next]_vars => OpenWalk'
<1> SUFFICES ASSUME OpenWalk, [Next]_vars PROVE OpenWalk'
  OBVIOUS
<1>1. CASE Start \/ StartOne
  BY <1>1, ZenonT(60) DEF Start, StartOne, OpenWalk
<1>2. CASE EndPass
  <2>1. started' = started
    BY <1>2, ZenonT(60) DEF EndPass
  <2>2. CASE pc' # "lint"
    BY <2>2, ZenonT(60) DEF OpenWalk
  <2>3. CASE pc' = "lint"
    <3>1. PICK k \in 1 .. Len(list) : list[k].tag \notin started /\ oTree' = {list[k].tag}
      BY <1>2, <2>3, ZenonT(60) DEF EndPass
    <3> QED
      BY <2>1, <3>1, ZenonT(60) DEF OpenWalk
  <2> QED
    BY <2>2, <2>3, ZenonT(60)
<1>3. CASE LintOutbound
  <2>1. pc = "lint" /\ started' = started /\ problemOutboundTag' \notin started
    BY <1>3, ZenonT(60) DEF LintOutbound
  <2>2. oTree' = oTree \/ oTree' = oTree \cup {problemOutboundTag'}
    BY <1>3, ZenonT(60) DEF LintOutbound
  <2> QED
    BY <2>1, <2>2, ZenonT(60) DEF OpenWalk
<1>4. CASE Done \/ UNCHANGED vars
  BY <1>4, ZenonT(60) DEF Done, vars, lint, OpenWalk
<1> QED
  BY <1>1, <1>2, <1>3, <1>4, ZenonT(60) DEF Next

\* For every configuration and every dependency graph, under the same
\* condition: lintOutbound, wherever its recursion has come to, has a dependency
\* to go on with, so the diagnosis is never about an outbound that could start.
THEOREM LintFindsDependency ==
    ASSUME FallbackTagFree PROVE Spec => []FindsDependency
<1>1. Init => LintInv /\ OpenWalk
  BY InitInv, ZenonT(60) DEF Init, LintInv, ListIs, Walk, OpenWalk
<1>2. LintInv /\ OpenWalk => FindsDependency
  <2> SUFFICES ASSUME LintInv, OpenWalk, pc = "lint" PROVE oCurrent.dependencies \ started # {}
    BY ZenonT(60) DEF FindsDependency
  <2>1. PICK k \in 1 .. Len(list) : list[k] = oCurrent
    BY ZenonT(60) DEF LintInv, Walk
  <2>2. list[k].tag \notin started
    BY <2>1, ZenonT(60) DEF LintInv, Walk, OpenWalk
  <2>3. ~(list[k].dependencies \subseteq started)
    BY <2>2, ZenonT(60) DEF LintInv, StartInv, NoneReady
  <2> QED
    BY <2>1, <2>3, ZenonT(60)
<1> QED
  BY <1>1, <1>2, LintNext, OpenNext, PTL DEF Spec

\* What each turn of startOutbounds gets closer to: it returns or goes on to the
\* next part of its work; or it starts one more of the listed tags; or, having
\* started none, it uses up canContinue or comes closer to the end of the list;
\* or its diagnosis visits one more outbound.  All of these are finite, and in
\* this order each outweighs those after it.
Advances ==
    /\ pc \notin Outcomes
    /\ \/ pc' \in Outcomes
       \/ pc = "start" /\ pc' = "pass"
       \/ pc = "pass" /\ pc' = "lint"
       \/ /\ pc = "pass" /\ pc' = "pass" /\ list' = list
          /\ \/ \E t \in TagsOf(list) \ started : started' = started \cup {t}
             \/ started' = started /\ canContinue /\ ~canContinue'
             \/ /\ started' = started /\ canContinue' = canContinue
                /\ next' = next + 1 /\ next' <= Len(list) + 1
       \/ /\ pc = "lint" /\ pc' = "lint" /\ outbounds' = outbounds
          /\ \E t \in TagsOf(outbounds) \ oTree : oTree' = oTree \cup {t}

\* For every configuration and every dependency graph, under the same
\* condition: no turn of the loops of startOutbounds and of lintOutbound is in
\* vain, which is why they end.
THEOREM StartAdvances ==
    ASSUME FallbackTagFree PROVE Spec => [][Advances]_vars
<1>1. StartInv /\ [Next]_vars => [Advances]_vars
  <2> SUFFICES ASSUME StartInv, Next, ~UNCHANGED vars PROVE Advances
    BY ZenonT(60) DEF vars
  <2>1. next \in Nat \ {0} /\ Len(list) \in Nat
    BY DEF StartInv, Lists
  <2>2. CASE Start
    BY <2>2, ZenonT(60) DEF Start, Advances, Outcomes, Errors
  <2>3. CASE StartOne
    <3>1. /\ pc = "pass" /\ next \in 1 .. Len(list) /\ next' = next + 1 /\ list' = list
          /\ next' <= Len(list) + 1
      BY <2>1, <2>3 DEF StartOne
    <3>2. CASE ~Ready(list[next])
      BY <2>3, <3>1, <3>2, ZenonT(60) DEF StartOne, Advances, Outcomes, Errors
    <3>3. CASE Ready(list[next])
      <4>1. list[next].tag \in TagsOf(list) \ started
        BY <3>1, <3>3, ZenonT(60) DEF Ready, TagsOf
      <4>2. started' = started \cup {list[next].tag} /\ pc' \in {"pass", "startFailed"}
        BY <2>3, <3>3, ZenonT(60) DEF StartOne
      <4> QED
        BY <3>1, <4>1, <4>2, ZenonT(60) DEF Advances, Outcomes, Errors
    <3> QED
      BY <3>2, <3>3, ZenonT(60)
  <2>4. CASE EndPass
    BY <2>4, ZenonT(60) DEF EndPass, Advances, Outcomes, Errors
  <2>5. CASE LintOutbound
    <3>1. pc = "lint" /\ outbounds' = outbounds
      BY <2>5, ZenonT(60) DEF LintOutbound
    <3>2. CASE pc' \in {"circular", "notFound"}
      BY <3>1, <3>2, ZenonT(60) DEF Advances, Outcomes, Errors
    <3>3. CASE pc' = "lint"
      <4>1. /\ problemOutboundTag' \notin oTree /\ oTree' = oTree \cup {problemOutboundTag'}
            /\ \E k \in 1 .. Len(outbounds) : outbounds[k].tag = problemOutboundTag'
        BY <2>5, <3>3, ZenonT(60) DEF LintOutbound
      <4>2. problemOutboundTag' \in TagsOf(outbounds) \ oTree
        BY <4>1, ZenonT(60) DEF TagsOf
      <4> QED
        BY <3>1, <3>3, <4>1, <4>2, ZenonT(60) DEF Advances, Outcomes, Errors
    <3> QED
      BY <2>5, <3>1, <3>2, <3>3, ZenonT(60) DEF LintOutbound
  <2>6. CASE Done
    BY <2>6, ZenonT(60) DEF Done
  <2> QED
    BY <2>2, <2>3, <2>4, <2>5, <2>6, ZenonT(60) DEF Next
<1>2. Init => StartInv
  BY InitInv
<1> QED
  BY <1>1, <1>2, NextInv, PTL DEF Spec
-----------------------------------------------------------------------------
(* The box.  The proofs look at StartOrder only through Past, and at       *)
(* CloseOrder only through Over.                                           *)

\* The part p has been started at the stage s.
Past(p, s) ==
    \/ s < stage
    \/ s = stage /\ \E i \in 1 .. place - 1 : StartOrder[s][i] = p

\* The part p has been closed.
Over(p) ==
    \/ phase = "closed"
    \/ phase = "closing" /\ \E i \in 1 .. place - 1 : CloseOrder[i] = p

\* Only the logger has no stages.
Runs(p, s) == p # "logger" \/ s = 1

\* The part that hands the stage s to the members of p.
Starter(p, s) == IF p = "endpoint" /\ s = 2 THEN "outbound" ELSE p

Serving == {"outbound", "dnsTransport", "dnsRouter", "network", "connection", "router"}

Position ==
    /\ phase \in {"new", "starting", "up", "closing", "closed"}
    /\ stage \in Stages
    /\ place \in Nat \ {0}
    /\ phase = "new" => stage = 1 /\ place = 1
    /\ phase = "starting" => place <= Len(StartOrder[stage])
    /\ phase = "closing" => place <= Len(CloseOrder)

\* What the stages have done to a unit of p, and what closing has.
UnitInv(p, u) ==
    /\ Len(seen[u]) \in 0 .. 4
    /\ seen[u] = [s \in 1 .. Len(seen[u]) |-> s]
    /\ phase = "new" => Len(seen[u]) = 0
    /\ phase = "starting" =>
           \A s \in Stages : s <= Len(seen[u]) <=> Runs(p, s) /\ Past(Starter(p, s), s)
    /\ phase = "up" => Len(seen[u]) = (IF p = "logger" THEN 1 ELSE 4)
    /\ closed[u] \in {0, 1}
    /\ ~Over(p) => closed[u] = 0
    /\ Over(p) /\ Len(seen[u]) > 0 => closed[u] = 1
    /\ p \in Managers /\ ~Over(p) /\ Len(seen[u]) > 0 => p \in startedManagers

\* Once an inbound has been started, all that serve it have been.
Served ==
    (\E i \in SetOf(Listed("inbound")) : Len(seen[i]) >= 2) =>
        \A p \in Serving : \A u \in SetOf(Listed(p)) : Len(seen[u]) >= 2

\* The inductive invariant of starting and closing.
BoxInv ==
    /\ Position
    /\ \A p \in Parts : \A u \in SetOf(Listed(p)) : UnitInv(p, u)
    /\ Served

\* The users that have taken their references.
Taken ==
    {p \in users : IF p = "router" THEN Past("router", 3) ELSE Past(p, 2)}

\* The inductive invariant of the rule set.  Nothing may drop its rules before
\* the router is past PostStart, and by then every user has its reference.
SetInv ==
    /\ users \subseteq {"dnsRouter", "router", "inbound"} /\ remote \in BOOLEAN
    /\ rules \in BOOLEAN /\ update \in {"off", "wait", "fetch", "unused"}
    /\ update = "unused" => remote
    /\ phase = "new" => refs = {} /\ update = "off"
    /\ phase = "starting" =>
           /\ refs = Taken
           /\ Past("router", 2) => rules \/ (refs = {} /\ Past("router", 3))
           /\ remote /\ update # "off" => Past("router", 3)
    /\ phase = "up" => refs = users /\ (rules \/ users = {})

-----------------------------------------------------------------------------
\* The managers, and the parts that are their own only member.
LEMMA PartsAre ==
    Parts = {"outbound", "endpoint", "inbound", "service", "dnsTransport", "logger",
             "internal", "network", "dnsRouter", "connection", "router"}
BY MembersAssumption, ZenonT(60) DEF Parts

\* Each stage's order names every part that has the stage, once.
LEMMA OrderNamesOnce ==
    ASSUME NEW s \in Stages
    PROVE  /\ Len(StartOrder[s]) \in Nat \ {0}
           /\ \A n \in 1 .. Len(StartOrder[s]) :
                 StartOrder[s][n] \in Parts /\ Runs(StartOrder[s][n], s)
           /\ \A m, n \in 1 .. Len(StartOrder[s]) : StartOrder[s][m] = StartOrder[s][n] => m = n
           /\ \A p \in Parts : Runs(p, s) => \E n \in 1 .. Len(StartOrder[s]) : StartOrder[s][n] = p
<1>1. CASE s = 1
  BY <1>1, PartsAre DEF StartOrder, Runs
<1>2. CASE s = 2
  BY <1>2, PartsAre DEF StartOrder, Runs
<1>3. CASE s = 3
  BY <1>3, PartsAre DEF StartOrder, Runs
<1>4. CASE s = 4
  BY <1>4, PartsAre, SMTT(30) DEF StartOrder, Runs
<1> QED
  BY <1>1, <1>2, <1>3, <1>4 DEF Stages

\* CloseOrder names every part once, the inbounds before all that serve them.
LEMMA CloseNamesOnce ==
    /\ Len(CloseOrder) \in Nat \ {0}
    /\ \A n \in 1 .. Len(CloseOrder) : CloseOrder[n] \in Parts
    /\ \A m, n \in 1 .. Len(CloseOrder) : CloseOrder[m] = CloseOrder[n] => m = n
    /\ \A p \in Parts : \E n \in 1 .. Len(CloseOrder) : CloseOrder[n] = p
    /\ \A n \in 1 .. Len(CloseOrder) : CloseOrder[n] \in Serving =>
          \E i \in 1 .. n - 1 : CloseOrder[i] = "inbound"
<1>1. Len(CloseOrder) = 11
  BY ZenonT(60) DEF CloseOrder
<1>2. \A n \in 1 .. 11 : CloseOrder[n] \in Parts
  BY PartsAre DEF CloseOrder
<1>3. \A m, n \in 1 .. 11 : CloseOrder[m] = CloseOrder[n] => m = n
  BY DEF CloseOrder
<1>4. \A p \in Parts : \E n \in 1 .. 11 : CloseOrder[n] = p
  BY PartsAre DEF CloseOrder
<1>5. ASSUME NEW n \in 1 .. 11, CloseOrder[n] \in Serving
      PROVE  \E i \in 1 .. n - 1 : CloseOrder[i] = "inbound"
  <2>1. n > 3
    BY <1>5 DEF CloseOrder, Serving
  <2>2. 3 \in 1 .. n - 1 /\ CloseOrder[3] = "inbound"
    BY <2>1 DEF CloseOrder
  <2> QED
    BY <2>2, ZenonT(60)
<1> QED
  BY <1>1, <1>2, <1>3, <1>4, <1>5

\* At the Start stage the inbounds come after all that serve them.
LEMMA ServersFirst ==
    ASSUME NEW n \in 1 .. Len(StartOrder[2]), StartOrder[2][n] = "inbound", NEW p \in Serving
    PROVE  \E i \in 1 .. n - 1 : StartOrder[2][i] = p
<1>1. n = 8
  BY DEF StartOrder
<1> QED
  BY <1>1 DEF StartOrder, Serving

\* What Past says where the box is starting: the part at hand is not past its
\* stage, and every part is past the stages before.
LEMMA PartAtHand ==
    ASSUME Position, phase = "starting"
    PROVE  /\ Part \in Parts /\ Runs(Part, stage)
           /\ ~Past(Part, stage)
           /\ \A p \in Parts, s \in Stages : s < stage => Past(p, s)
           /\ \A p \in Parts, s \in Stages : Past(p, s) => s <= stage
           /\ Part = "inbound" /\ stage >= 2 => \A p \in Serving : Past(p, 2)
           /\ Past("inbound", 2) => \A p \in Serving : Past(p, 2)
<1> stage \in Stages /\ place \in 1 .. Len(StartOrder[stage])
  BY OrderNamesOnce DEF Position
<1>1. Part = StartOrder[stage][place]
  BY ZenonT(60) DEF Part
<1>2. Part \in Parts /\ Runs(Part, stage)
  BY <1>1, OrderNamesOnce, ZenonT(60)
<1>3. ~Past(Part, stage)
  <2> SUFFICES ASSUME NEW i \in 1 .. place - 1, StartOrder[stage][i] = Part
               PROVE  FALSE
    BY DEF Past, Stages
  <2>1. i \in 1 .. Len(StartOrder[stage]) /\ i # place
    BY OrderNamesOnce
  <2> QED
    BY <1>1, <2>1, OrderNamesOnce
<1>4. \A p \in Parts, s \in Stages : (s < stage => Past(p, s)) /\ (Past(p, s) => s <= stage)
  BY DEF Past, Stages
<1>5. ASSUME Part = "inbound", stage >= 2 PROVE \A p \in Serving : Past(p, 2)
  <2>1. CASE stage > 2
    BY <2>1, ZenonT(60) DEF Past
  <2>2. CASE stage = 2
    BY <2>2, <1>1, <1>5, ServersFirst, ZenonT(60) DEF Past
  <2> QED
    BY <1>5, <2>1, <2>2 DEF Stages
<1>6. ASSUME Past("inbound", 2) PROVE \A p \in Serving : Past(p, 2)
  <2>1. CASE stage > 2
    BY <2>1 DEF Past
  <2>2. CASE stage = 2
    <3>1. PICK n \in 1 .. place - 1 : StartOrder[2][n] = "inbound"
      BY <1>6, <2>2 DEF Past
    <3>2. n \in 1 .. Len(StartOrder[2])
      BY <2>2, OrderNamesOnce
    <3>3. \A p \in Serving : \E i \in 1 .. n - 1 : StartOrder[2][i] = p
      BY <3>1, <3>2, ServersFirst, ZenonT(60)
    <3>4. \A i \in 1 .. n - 1 : i \in 1 .. place - 1
      OBVIOUS
    <3> QED
      BY <2>2, <3>3, <3>4, ZenonT(60) DEF Past
  <2> QED
    BY <1>6, <2>1, <2>2, ZenonT(60) DEF Past, Stages
<1> QED
  BY <1>2, <1>3, <1>4, <1>5, <1>6, ZenonT(60)

\* Advance takes the part at hand past its stage and nothing else; after the
\* last one every part is past every stage.
LEMMA AdvancePast ==
    ASSUME Position, phase = "starting", Advance
    PROVE  /\ Position'
           /\ phase' \in {"starting", "up"}
           /\ phase' = "starting" =>
                 \A p \in Parts, s \in Stages : Runs(p, s) =>
                     (Past(p, s)' <=> Past(p, s) \/ (p = Part /\ s = stage))
           /\ phase' = "up" =>
                 \A p \in Parts, s \in Stages : Runs(p, s) =>
                     Past(p, s) \/ (p = Part /\ s = stage)
<1> stage \in Stages /\ place \in 1 .. Len(StartOrder[stage])
  BY OrderNamesOnce DEF Position
<1>1. Part = StartOrder[stage][place]
  BY ZenonT(60) DEF Part
<1>2. CASE place < Len(StartOrder[stage])
  <2>1. place' = place + 1 /\ stage' = stage /\ phase' = "starting"
    BY <1>2, ZenonT(60) DEF Advance
  <2>2. Position'
    BY <1>2, <2>1 DEF Position
  <2>3. ASSUME NEW p \in Parts, NEW s \in Stages
        PROVE  Past(p, s)' <=> Past(p, s) \/ (p = Part /\ s = stage)
    <3>1. \A i : i \in 1 .. place' - 1 <=> i \in 1 .. place - 1 \/ i = place
      BY <2>1
    <3> QED
      BY <1>1, <2>1, <3>1, ZenonT(60) DEF Past
  <2> QED
    BY <2>1, <2>2, <2>3, ZenonT(60)
<1>3. CASE ~(place < Len(StartOrder[stage]))
  <2>1. place = Len(StartOrder[stage])
    BY <1>3, OrderNamesOnce
  <2>2. ASSUME NEW p \in Parts, NEW s \in Stages, Runs(p, s), s <= stage
        PROVE  Past(p, s) \/ (p = Part /\ s = stage)
    <3>1. CASE s = stage
      <4>1. PICK n \in 1 .. Len(StartOrder[s]) : StartOrder[s][n] = p
        BY <2>2, OrderNamesOnce, ZenonT(60)
      <4>2. n \in 1 .. place - 1 \/ n = place
        BY <2>1, <3>1
      <4> QED
        BY <1>1, <3>1, <4>1, <4>2, ZenonT(60) DEF Past
    <3>2. CASE s < stage
      BY <3>2, ZenonT(60) DEF Past
    <3> QED
      BY <2>2, <3>1, <3>2 DEF Stages
  <2>3. CASE stage < 4
    <3>1. place' = 1 /\ stage' = stage + 1 /\ phase' = "starting"
      BY <1>3, <2>3, ZenonT(60) DEF Advance
    <3>2. Position'
      <4>1. stage' \in Stages
        BY <2>3, <3>1 DEF Stages
      <4>2. Len(StartOrder[stage']) \in Nat \ {0}
        BY <4>1, OrderNamesOnce, ZenonT(60)
      <4>3. place' \in Nat \ {0} /\ place' <= Len(StartOrder[stage'])
        BY <3>1, <4>2
      <4> QED
        BY <3>1, <4>1, <4>3 DEF Position
    <3>3. ASSUME NEW p \in Parts, NEW s \in Stages, Runs(p, s)
          PROVE  Past(p, s)' <=> Past(p, s) \/ (p = Part /\ s = stage)
      <4>1. Past(p, s)' <=> s <= stage
        BY <3>1 DEF Past, Stages
      <4>2. Past(p, s) => s <= stage
        BY DEF Past, Stages
      <4> QED
        BY <2>2, <3>3, <4>1, <4>2 DEF Stages
    <3> QED
      BY <3>1, <3>2, <3>3, ZenonT(60)
  <2>4. CASE ~(stage < 4)
    <3>1. place' = 1 /\ stage' = stage /\ phase' = "up" /\ stage = 4
      BY <1>3, <2>4 DEF Advance, Stages
    <3>2. Position'
      BY <3>1 DEF Position
    <3> QED
      BY <2>2, <3>1, <3>2 DEF Stages
  <2> QED
    BY <2>3, <2>4, ZenonT(60)
<1> QED
  BY <1>2, <1>3, ZenonT(60)

\* Every part has a finite list of units.
LEMMA ListedSeq == \A p \in Parts : Listed(p) \in Seq(SetOf(Listed(p)))
<1> SUFFICES ASSUME NEW p \in Parts PROVE Listed(p) \in Seq(SetOf(Listed(p)))
  OBVIOUS
<1>1. CASE p \in Managers
  BY <1>1, MembersAssumption, ZenonT(60) DEF Listed
<1>2. CASE p \notin Managers
  BY <1>2 DEF Listed, SetOf
<1> QED
  BY <1>1, <1>2, ZenonT(60)

\* A unit belongs to one part.
LEMMA OnePart ==
    ASSUME NEW p \in Parts, NEW q \in Parts, NEW u \in SetOf(Listed(p)), u \in SetOf(Listed(q))
    PROVE  p = q
BY MembersAssumption, ZenonT(60)

\* What two lists hold one after the other.
LEMMA SetOfConcat ==
    ASSUME NEW S, NEW a \in Seq(S), NEW b \in Seq(S)
    PROVE  SetOf(a \o b) = SetOf(a) \cup SetOf(b)
<1>1. /\ Len(a \o b) = Len(a) + Len(b) /\ Len(a) \in Nat /\ Len(b) \in Nat
      /\ \A i \in 1 .. Len(a) + Len(b) :
            (a \o b)[i] = IF i <= Len(a) THEN a[i] ELSE b[i - Len(a)]
  BY ConcatProperties, LenProperties, ZenonT(60)
<1> DEFINE ab == a \o b
<1> HIDE DEF ab
<1>2. ASSUME NEW u \in SetOf(ab) PROVE u \in SetOf(a) \cup SetOf(b)
  <2>1. PICK i \in 1 .. Len(a) + Len(b) : u = ab[i]
    BY <1>1, ZenonT(60) DEF SetOf, ab
  <2>2. CASE i <= Len(a)
    BY <1>1, <2>1, <2>2 DEF SetOf, ab
  <2>3. CASE ~(i <= Len(a))
    <3>1. i - Len(a) \in 1 .. Len(b) /\ u = b[i - Len(a)]
      BY <1>1, <2>1, <2>3 DEF ab
    <3> QED
      BY <3>1, ZenonT(60) DEF SetOf
  <2> QED
    BY <2>2, <2>3, ZenonT(60)
<1>3. ASSUME NEW u \in SetOf(a) PROVE u \in SetOf(ab)
  <2>1. PICK i \in 1 .. Len(a) : u = a[i]
    BY ZenonT(60) DEF SetOf
  <2>2. i \in 1 .. Len(ab) /\ u = ab[i]
    BY <1>1, <2>1 DEF ab
  <2> QED
    BY <2>2, ZenonT(60) DEF SetOf
<1>4. ASSUME NEW u \in SetOf(b) PROVE u \in SetOf(ab)
  <2>1. PICK i \in 1 .. Len(b) : u = b[i]
    BY ZenonT(60) DEF SetOf
  <2> DEFINE j == Len(a) + i
  <2>2. j \in 1 .. Len(a) + Len(b) /\ ~(j <= Len(a)) /\ j - Len(a) = i
    BY <1>1
  <2>3. u = ab[j]
    BY <1>1, <2>1, <2>2, ZenonT(60) DEF ab
  <2> HIDE DEF j
  <2>4. j \in 1 .. Len(ab)
    BY <1>1, <2>2, ZenonT(60) DEF ab
  <2> QED
    BY <2>3, <2>4, ZenonT(60) DEF SetOf
<1> QED
  BY <1>2, <1>3, <1>4, ZenonT(60) DEF ab

\* The units of p are started at the stage s by Starter(p, s) and nobody else.
LEMMA StartedByOne ==
    ASSUME NEW p \in Parts, NEW u \in SetOf(Listed(p)), NEW q \in Parts, NEW s \in Stages
    PROVE  u \in SetOf(StartedBy(q, s)) <=> Starter(p, s) = q
<1>0. "outbound" \in Parts /\ "endpoint" \in Parts
  BY PartsAre, ZenonT(60)
<1>1. CASE q = "outbound" /\ s = 2
  <2> DEFINE o == Listed("outbound")
             e == Listed("endpoint")
             S == SetOf(o) \cup SetOf(e)
  <2>1. o \in Seq(S) /\ e \in Seq(S)
    <3>1. o \in Seq(SetOf(o)) /\ e \in Seq(SetOf(e))
      BY <1>0, ListedSeq, ZenonT(60)
    <3> QED
      BY <3>1
  <2>2. SetOf(o \o e) = SetOf(o) \cup SetOf(e)
    BY <2>1, SetOfConcat
  <2>3. StartedBy(q, s) = o \o e
    BY <1>1, ZenonT(60) DEF StartedBy
  <2> HIDE DEF o, e
  <2>4. u \in SetOf(o) <=> p = "outbound"
    BY <1>0, OnePart, ZenonT(60) DEF o
  <2>5. u \in SetOf(e) <=> p = "endpoint"
    BY <1>0, OnePart, ZenonT(60) DEF e
  <2> QED
    BY <1>1, <2>2, <2>3, <2>4, <2>5, ZenonT(60) DEF Starter
<1>2. CASE q = "endpoint" /\ s = 2
  <2>1. StartedBy(q, s) = <<>>
    BY <1>2, ZenonT(60) DEF StartedBy
  <2>2. SetOf(<<>>) = {}
    BY DEF SetOf
  <2> QED
    BY <1>2, <2>1, <2>2, ZenonT(60) DEF Starter
<1>3. CASE s # 2 \/ q \notin {"outbound", "endpoint"}
  <2>1. StartedBy(q, s) = Listed(q)
    BY <1>3, ZenonT(60) DEF StartedBy
  <2> QED
    BY <1>3, <2>1, OnePart, ZenonT(60) DEF Starter
<1> QED
  BY <1>1, <1>2, <1>3, ZenonT(60)

\* A part that fails has called no units but those it starts.
LEMMA AttemptedUnits ==
    ASSUME NEW p \in Parts, NEW s \in Stages, NEW units \in Attempted(p, s)
    PROVE  units \subseteq SetOf(StartedBy(p, s))
<1>1. CASE p \in {"outbound", "dnsTransport"} /\ s = 2
  BY <1>1, ZenonT(60) DEF Attempted
<1>2. CASE ~(p \in {"outbound", "dnsTransport"} /\ s = 2)
  <2> DEFINE q == StartedBy(p, s)
  <2>1. q = <<>> \/ q = Listed(p)
    BY <1>2, ZenonT(60) DEF StartedBy
  <2>2. Listed(p) \in Seq(SetOf(Listed(p))) /\ <<>> \in Seq(SetOf(Listed(p)))
    BY ListedSeq
  <2> HIDE DEF q
  <2>3. q \in Seq(SetOf(Listed(p)))
    BY <2>1, <2>2, ZenonT(60)
  <2>4. PICK k \in 1 .. Len(q) : units = SetOf(SubSeq(q, 1, k))
    BY <1>2, ZenonT(60) DEF Attempted, q
  <2>5. Len(q) \in Nat
    BY <2>3
  <2>6. Len(SubSeq(q, 1, k)) = k /\ \A i \in 1 .. k : SubSeq(q, 1, k)[i] = q[i]
    BY <2>3, <2>5
  <2>7. \A i \in 1 .. k : i \in 1 .. Len(q)
    BY <2>5
  <2> QED
    BY <2>4, <2>6, <2>7, ZenonT(60) DEF SetOf, q
<1> QED
  BY <1>1, <1>2, ZenonT(60)

\* One more stage in order.
LEMMA OneMore ==
    ASSUME NEW n \in Nat, NEW f, f = [s \in 1 .. n |-> s]
    PROVE  /\ Len(f) = n
           /\ Append(f, n + 1) = [s \in 1 .. n + 1 |-> s]
           /\ Len(Append(f, n + 1)) = n + 1
<1>1. f \in Seq(Nat) /\ Len(f) = n
  BY SeqDef
<1>2. /\ Append(f, n + 1) \in Seq(Nat) /\ Len(Append(f, n + 1)) = n + 1
      /\ \A i \in 1 .. n : Append(f, n + 1)[i] = f[i]
      /\ Append(f, n + 1)[n + 1] = n + 1
  BY <1>1, AppendProperties
<1>3. Append(f, n + 1) = [s \in 1 .. n + 1 |-> s]
  BY <1>2
<1> QED
  BY <1>1, <1>2, <1>3, ZenonT(60)

\* A part whose Start is called, to the end or not, takes each of the units
\* that it gets to from the stage before to this one.
LEMMA CalledUnits ==
    ASSUME BoxInv, phase = "starting",
           NEW units, units \subseteq SetOf(StartedBy(Part, stage)), Called(units),
           startedManagers' = startedManagers \cup {Part},
           NEW p \in Parts, NEW u \in SetOf(Listed(p))
    PROVE  /\ seen'[u] = [s \in 1 .. Len(seen'[u]) |-> s]
           /\ Len(seen'[u]) \in 0 .. 4
           /\ u \in units => Len(seen[u]) = stage - 1 /\ Len(seen'[u]) = stage
                             /\ Starter(p, stage) = Part
           /\ u \notin units => seen'[u] = seen[u]
           /\ p \in Managers /\ Len(seen'[u]) > 0 => p \in startedManagers'
<1>0. u \in Units
  BY ZenonT(60) DEF Units
<1>1. UnitInv(p, u) /\ Position /\ stage \in Stages
  BY ZenonT(60) DEF BoxInv, Position
<1>2. ~Over(p)
  BY ZenonT(60) DEF Over
<1>3. Part \in Parts /\ Runs(Part, stage) /\ ~Past(Part, stage)
      /\ \A q \in Parts, s \in Stages : s < stage => Past(q, s)
  BY <1>1, PartAtHand, ZenonT(60)
<1>4. CASE u \notin units
  <2>1. seen'[u] = seen[u]
    BY <1>0, <1>4, ZenonT(60) DEF Called
  <2> QED
    BY <1>1, <1>2, <1>4, <2>1, ZenonT(60) DEF UnitInv
<1>5. CASE u \in units
  <2>1. Starter(p, stage) = Part
    BY <1>1, <1>3, <1>5, StartedByOne
  <2>2. p = Part \/ (p = "endpoint" /\ stage = 2)
    BY <2>1, ZenonT(60) DEF Starter
  <2>3. Runs(p, stage)
    BY <1>3, <2>2, ZenonT(60) DEF Runs
  <2>4. seen'[u] = Append(seen[u], stage)
    BY <1>0, <1>5, ZenonT(60) DEF Called
  <2>5. ~(stage <= Len(seen[u]))
    BY <1>1, <1>3, <2>1, ZenonT(60) DEF UnitInv
  <2>6. \A s \in Stages : s < stage => s <= Len(seen[u])
    <3> SUFFICES ASSUME NEW s \in Stages, s < stage PROVE s <= Len(seen[u])
      OBVIOUS
    <3>1. Runs(p, s)
      BY <2>3 DEF Runs, Stages
    <3>2. Starter(p, s) \in Parts
      BY PartsAre, ZenonT(60) DEF Starter
    <3> QED
      BY <1>1, <1>3, <3>1, <3>2, ZenonT(60) DEF UnitInv
  <2>7. Len(seen[u]) = stage - 1
    <3>1. Len(seen[u]) \in 0 .. 4
      BY <1>1, ZenonT(60) DEF UnitInv
    <3>2. stage = 1 \/ stage - 1 \in Stages
      BY <1>1, SMTT(30) DEF Stages
    <3> QED
      BY <1>1, <2>5, <2>6, <3>1, <3>2, SMTT(30) DEF Stages
  <2>8. seen[u] = [s \in 1 .. stage - 1 |-> s]
    BY <1>1, <2>7, ZenonT(60) DEF UnitInv
  <2> DEFINE n == stage - 1
  <2>9. n \in Nat /\ stage = n + 1
    BY <1>1, SMTT(30) DEF Stages
  <2> HIDE DEF n
  <2>10. seen[u] = [s \in 1 .. n |-> s]
    BY <2>8, ZenonT(60) DEF n
  <2>11. seen'[u] = [s \in 1 .. stage |-> s] /\ Len(seen'[u]) = stage
    BY <2>4, <2>9, <2>10, OneMore, ZenonT(60)
  <2>12. p \in Managers => p \in startedManagers'
    <3>1. CASE p = Part
      BY <3>1, ZenonT(60)
    <3>2. CASE stage = 2
      BY <1>1, <1>2, <2>7, <3>2 DEF UnitInv
    <3> QED
      BY <2>2, <3>1, <3>2, ZenonT(60)
  <2> QED
    BY <1>1, <1>5, <2>1, <2>7, <2>11, <2>12 DEF Stages
<1> QED
  BY <1>4, <1>5, ZenonT(60)

\* Starting an inbound finds all that serve it started.
LEMMA CalledServed ==
    ASSUME BoxInv, phase = "starting",
           NEW units, units \subseteq SetOf(StartedBy(Part, stage)), Called(units),
           startedManagers' = startedManagers \cup {Part}
    PROVE  Served'
<1> SUFFICES ASSUME NEW i \in SetOf(Listed("inbound")), Len(seen'[i]) >= 2,
                    NEW p \in Serving, NEW u \in SetOf(Listed(p))
             PROVE  Len(seen'[u]) >= 2
  BY ZenonT(60) DEF Served
<1>1. "inbound" \in Parts /\ p \in Parts
  BY PartsAre, ZenonT(60) DEF Serving
<1>2. Position /\ stage \in Stages /\ UnitInv("inbound", i) /\ UnitInv(p, u)
  BY <1>1, ZenonT(60) DEF BoxInv, Position
<1>3. Past(p, 2)
  <2>1. CASE i \in units
    <3>1. Starter("inbound", stage) = Part /\ Len(seen'[i]) = stage
      BY <1>1, <2>1, CalledUnits, ZenonT(60)
    <3> QED
      BY <1>2, <3>1, PartAtHand, ZenonT(60) DEF Starter
  <2>2. CASE i \notin units
    <3>1. seen'[i] = seen[i]
      BY <1>1, <2>2, CalledUnits, ZenonT(60)
    <3>2. Past("inbound", 2)
      BY <1>2, <3>1 DEF UnitInv, Starter, Stages
    <3> QED
      BY <1>2, <3>2, PartAtHand, ZenonT(60)
  <2> QED
    BY <2>1, <2>2, ZenonT(60)
<1>4. Len(seen[u]) >= 2 /\ Len(seen[u]) \in 0 .. 4
  <2>1. Starter(p, 2) = p /\ Runs(p, 2)
    BY ZenonT(60) DEF Starter, Runs, Serving
  <2> QED
    BY <1>2, <1>3, <2>1 DEF UnitInv, Stages
<1>5. Len(seen'[u]) = Len(seen[u]) + 1 \/ seen'[u] = seen[u]
  <2>1. CASE u \in units
    <3>1. Len(seen[u]) = stage - 1 /\ Len(seen'[u]) = stage
      BY <1>1, <2>1, CalledUnits, ZenonT(60)
    <3> QED
      BY <1>2, <3>1 DEF Stages
  <2>2. CASE u \notin units
    BY <1>1, <2>2, CalledUnits, ZenonT(60)
  <2> QED
    BY <2>1, <2>2, ZenonT(60)
<1> QED
  BY <1>4, <1>5

\* A part that has been started leaves its units with one stage more.
LEMMA StartPartStep ==
    ASSUME BoxInv, StartPart
    PROVE  BoxInv'
<1> DEFINE units == SetOf(StartedBy(Part, stage))
<1>1. /\ phase = "starting" /\ Called(units) /\ Advance /\ closed' = closed
      /\ startedManagers' = startedManagers \cup {Part}
  BY ZenonT(60) DEF StartPart
<1>2. Position /\ stage \in Stages
  BY ZenonT(60) DEF BoxInv, Position
<1>3. Position' /\ phase' \in {"starting", "up"}
  BY <1>1, <1>2, AdvancePast, ZenonT(60)
<1>4. Part \in Parts /\ Runs(Part, stage)
  BY <1>1, <1>2, PartAtHand, ZenonT(60)
<1>5. Served'
  BY <1>1, CalledServed, ZenonT(60)
<1>6. ASSUME NEW p \in Parts, NEW u \in SetOf(Listed(p))
      PROVE  UnitInv(p, u)'
  <2>1. /\ UnitInv(p, u) /\ u \in Units
        /\ ~Over(p) /\ ~Over(p)'
    BY <1>1, <1>3, ZenonT(60) DEF BoxInv, Over, Units
  <2>2. /\ seen'[u] = [s \in 1 .. Len(seen'[u]) |-> s]
        /\ Len(seen'[u]) \in 0 .. 4
        /\ u \in units => Len(seen[u]) = stage - 1 /\ Len(seen'[u]) = stage
                          /\ Starter(p, stage) = Part
        /\ u \notin units => seen'[u] = seen[u]
        /\ p \in Managers /\ Len(seen'[u]) > 0 => p \in startedManagers'
    <3> HIDE DEF units
    <3>1. units \subseteq SetOf(StartedBy(Part, stage))
      BY ZenonT(60) DEF units
    <3> QED
      BY <1>1, <3>1, CalledUnits, ZenonT(60)
  <2>3. u \in units <=> Starter(p, stage) = Part
    BY <1>2, <1>4, StartedByOne
  <2> HIDE DEF units
  <2>4. \A s \in Stages : /\ Starter(p, s) \in Parts
                          /\ Runs(p, s) <=> Runs(Starter(p, s), s)
    BY PartsAre, ZenonT(60) DEF Starter, Runs
  <2>5. ASSUME NEW s \in Stages
        PROVE  s <= Len(seen'[u]) <=>
                  Runs(p, s) /\ (Past(Starter(p, s), s) \/ (Starter(p, s) = Part /\ s = stage))
    <3>1. s <= Len(seen[u]) <=> Runs(p, s) /\ Past(Starter(p, s), s)
      BY <1>1, <2>1, ZenonT(60) DEF UnitInv
    <3>2. CASE u \in units
      <4>1. s <= Len(seen'[u]) <=> s <= Len(seen[u]) \/ s = stage
        BY <1>2, <2>2, <3>2 DEF Stages
      <4>2. s = stage => Runs(p, s) /\ Starter(p, s) = Part
        BY <1>4, <2>2, <2>4, <3>2, ZenonT(60)
      <4> QED
        BY <3>1, <4>1, <4>2, ZenonT(60)
    <3>3. CASE u \notin units
      BY <2>2, <2>3, <3>1, <3>3, ZenonT(60)
    <3> QED
      BY <3>2, <3>3, ZenonT(60)
  <2>6. CASE phase' = "starting"
    <3>1. \A s \in Stages : s <= Len(seen'[u]) <=> Runs(p, s) /\ Past(Starter(p, s), s)'
      BY <1>1, <1>2, <2>4, <2>5, <2>6, AdvancePast, ZenonT(60)
    <3> QED
      BY <1>1, <2>1, <2>2, <2>6, <3>1, ZenonT(60) DEF UnitInv
  <2>7. CASE phase' = "up"
    <3>1. \A s \in Stages : s <= Len(seen'[u]) <=> Runs(p, s)
      BY <1>1, <1>2, <2>4, <2>5, <2>7, AdvancePast, ZenonT(60)
    <3>2. Len(seen'[u]) = (IF p = "logger" THEN 1 ELSE 4)
      <4> DEFINE n == Len(seen'[u])
      <4>1. n \in 0 .. 4
        BY <2>2, ZenonT(60)
      <4> HIDE DEF n
      <4>2. \A s \in Stages : s <= n <=> Runs(p, s)
        BY <3>1, ZenonT(60) DEF n
      <4>3. CASE p = "logger"
        <5>1. 1 <= n /\ ~(2 <= n)
          BY <4>2, <4>3 DEF Runs, Stages
        <5>2. n = 1
          BY <4>1, <5>1
        <5> QED
          BY <4>3, <5>2, ZenonT(60) DEF n
      <4>4. CASE p # "logger"
        <5>1. 4 <= n
          BY <4>2, <4>4 DEF Runs, Stages
        <5>2. n = 4
          BY <4>1, <5>1
        <5> QED
          BY <4>4, <5>2, ZenonT(60) DEF n
      <4> QED
        BY <4>3, <4>4, ZenonT(60)
    <3> QED
      BY <1>1, <2>1, <2>2, <2>7, <3>2, ZenonT(60) DEF UnitInv
  <2> QED
    BY <1>3, <2>6, <2>7, ZenonT(60)
<1> QED
  BY <1>3, <1>5, <1>6, ZenonT(60) DEF BoxInv

\* A part that fails leaves some of its units with one stage more.
LEMMA StartFailsStep ==
    ASSUME BoxInv, StartFails
    PROVE  BoxInv'
<1>1. /\ phase = "starting" /\ closed' = closed
      /\ startedManagers' = startedManagers \cup {Part}
      /\ phase' = "closing" /\ place' = 1 /\ stage' = stage
  BY ZenonT(60) DEF StartFails
<1>2. Position /\ stage \in Stages
  BY DEF BoxInv, Position
<1>3. Part \in Parts
  BY <1>1, <1>2, PartAtHand, ZenonT(60)
<1>4. PICK units \in Attempted(Part, stage) : Called(units)
  BY ZenonT(60) DEF StartFails
<1>5. units \subseteq SetOf(StartedBy(Part, stage))
  BY <1>2, <1>3, AttemptedUnits, ZenonT(60)
<1>6. Position'
  BY <1>1, <1>2, CloseNamesOnce DEF Position
<1>7. Served'
  BY <1>1, <1>4, <1>5, CalledServed, ZenonT(60)
<1>8. ASSUME NEW p \in Parts, NEW u \in SetOf(Listed(p))
      PROVE  UnitInv(p, u)'
  <2>1. UnitInv(p, u) /\ ~Over(p) /\ ~Over(p)'
    BY <1>1, SMTT(30) DEF BoxInv, Over
  <2>2. /\ seen'[u] = [s \in 1 .. Len(seen'[u]) |-> s]
        /\ Len(seen'[u]) \in 0 .. 4
        /\ p \in Managers /\ Len(seen'[u]) > 0 => p \in startedManagers'
    BY <1>1, <1>4, <1>5, CalledUnits, ZenonT(60)
  <2> QED
    BY <1>1, <2>1, <2>2, ZenonT(60) DEF UnitInv
<1> QED
  BY <1>6, <1>7, <1>8, ZenonT(60) DEF BoxInv

\* Closing takes the part at hand to those that are closed.
LEMMA CloseAtHand ==
    ASSUME Position, phase = "closing"
    PROVE  /\ Part \in Parts /\ ~Over(Part)
           /\ \A p \in Serving : Over(p) => Over("inbound")
           /\ ClosePart => Position' /\ \A p \in Parts : Over(p)' <=> Over(p) \/ p = Part
<1> place \in 1 .. Len(CloseOrder)
  BY CloseNamesOnce DEF Position
<1>1. Part = CloseOrder[place]
  BY ZenonT(60) DEF Part
<1>2. Part \in Parts
  BY <1>1, CloseNamesOnce, ZenonT(60)
<1>3. ~Over(Part)
  <2> SUFFICES ASSUME NEW i \in 1 .. place - 1, CloseOrder[i] = Part
               PROVE  FALSE
    BY ZenonT(60) DEF Over
  <2>1. i \in 1 .. Len(CloseOrder) /\ i # place
    BY CloseNamesOnce
  <2> QED
    BY <1>1, <2>1, CloseNamesOnce, ZenonT(60)
<1>4. ASSUME NEW p \in Serving, Over(p) PROVE Over("inbound")
  <2>1. PICK n \in 1 .. place - 1 : CloseOrder[n] = p
    BY <1>4, ZenonT(60) DEF Over
  <2>2. n \in 1 .. Len(CloseOrder)
    BY CloseNamesOnce
  <2>3. PICK i \in 1 .. n - 1 : CloseOrder[i] = "inbound"
    BY <2>1, <2>2, CloseNamesOnce, ZenonT(60)
  <2>4. i \in 1 .. place - 1
    OBVIOUS
  <2> QED
    BY <2>3, <2>4, ZenonT(60) DEF Over
<1>5. ASSUME ClosePart
      PROVE  Position' /\ \A p \in Parts : Over(p)' <=> Over(p) \/ p = Part
  <2>1. CASE place < Len(CloseOrder)
    <3>1. place' = place + 1 /\ phase' = "closing" /\ stage' = stage
      BY <1>5, <2>1, ZenonT(60) DEF ClosePart
    <3>2. Position'
      BY <2>1, <3>1 DEF Position
    <3>3. \A i : i \in 1 .. place' - 1 <=> i \in 1 .. place - 1 \/ i = place
      BY <3>1
    <3> QED
      BY <1>1, <3>1, <3>2, <3>3, ZenonT(60) DEF Over
  <2>2. CASE ~(place < Len(CloseOrder))
    <3>1. place' = 1 /\ phase' = "closed" /\ stage' = stage
      BY <1>5, <2>2, ZenonT(60) DEF ClosePart
    <3>2. Position'
      BY <3>1 DEF Position
    <3>3. ASSUME NEW p \in Parts PROVE Over(p) \/ p = Part
      <4>1. PICK n \in 1 .. Len(CloseOrder) : CloseOrder[n] = p
        BY CloseNamesOnce, ZenonT(60)
      <4>2. n \in 1 .. place - 1 \/ n = place
        BY <2>2, CloseNamesOnce
      <4> QED
        BY <1>1, <4>1, <4>2, ZenonT(60) DEF Over
    <3> QED
      BY <3>1, <3>2, <3>3, ZenonT(60) DEF Over
  <2> QED
    BY <2>1, <2>2, ZenonT(60)
<1> QED
  BY <1>2, <1>3, <1>4, <1>5, ZenonT(60)

\* A part closes every unit of its list that was started, and no other part's.
LEMMA ClosePartStep ==
    ASSUME BoxInv, ClosePart
    PROVE  BoxInv'
<1>1. /\ phase = "closing" /\ phase' \in {"closing", "closed"} /\ seen' = seen
      /\ closed' = [u \in Units |-> closed[u] + (IF u \in Closes(Part) THEN 1 ELSE 0)]
      /\ startedManagers' = startedManagers \ {Part}
  BY ZenonT(60) DEF ClosePart
<1>2. /\ Position' /\ \A p \in Parts : Over(p)' <=> Over(p) \/ p = Part
      /\ Part \in Parts /\ ~Over(Part)
  BY <1>1, CloseAtHand, ZenonT(60) DEF BoxInv
<1>3. Served'
  BY <1>1, ZenonT(60) DEF BoxInv, Served
<1>4. ASSUME NEW p \in Parts, NEW u \in SetOf(Listed(p))
      PROVE  UnitInv(p, u)'
  <2>1. UnitInv(p, u) /\ u \in Units
    BY ZenonT(60) DEF BoxInv, Units
  <2>2. CASE p # Part
    <3>1. u \notin Closes(Part)
      BY <1>2, <2>2, OnePart, ZenonT(60) DEF Closes
    <3>2. closed'[u] = closed[u] + 0
      BY <1>1, <2>1, <3>1, ZenonT(60)
    <3>3. closed'[u] = closed[u]
      BY <2>1, <3>2, SMTT(30) DEF UnitInv
    <3> QED
      BY <1>1, <1>2, <2>1, <2>2, <3>3, ZenonT(60) DEF UnitInv
  <2>3. CASE p = Part
    <3>1. closed[u] = 0 /\ Over(p)'
      BY <1>2, <2>1, <2>3, ZenonT(60) DEF UnitInv
    <3>2. closed'[u] \in {0, 1} /\ (u \in Closes(Part) => closed'[u] = 1)
      BY <1>1, <2>1, <3>1, SMTT(30)
    <3>3. Len(seen[u]) > 0 => u \in Closes(Part)
      BY <1>2, <2>1, <2>3, ZenonT(60) DEF Closes, UnitInv
    <3> QED
      BY <1>1, <2>1, <3>1, <3>2, <3>3, ZenonT(60) DEF UnitInv
  <2> QED
    BY <2>2, <2>3, ZenonT(60)
<1> QED
  BY <1>2, <1>3, <1>4, ZenonT(60) DEF BoxInv

\* Steps that leave the units alone.
LEMMA SameUnits ==
    ASSUME BoxInv, seen' = seen, closed' = closed, startedManagers' = startedManagers,
           Position',
           \/ phase' = phase /\ stage' = stage /\ place' = place
           \/ phase = "new" /\ phase' = "starting" /\ stage' = 1 /\ place' = 1
           \/ phase' = "closing" /\ place' = 1 /\ phase \in {"new", "up"}
    PROVE  BoxInv'
<1>1. Served'
  BY ZenonT(60) DEF BoxInv, Served
<1>2. ASSUME NEW p \in Parts, NEW u \in SetOf(Listed(p))
      PROVE  UnitInv(p, u)'
  <2>1. UnitInv(p, u)
    BY ZenonT(60) DEF BoxInv
  <2>2. Over(p)' <=> Over(p)
    BY DEF Over
  <2>3. \A s \in Stages : phase = "new" /\ stage' = 1 /\ place' = 1 => ~Past(Starter(p, s), s)'
    BY DEF Past, Stages
  <2>4. phase' = phase => \A s \in Stages : Past(Starter(p, s), s)' <=> Past(Starter(p, s), s)
    BY ZenonT(60) DEF Past
  <2>5. CASE phase' = phase
    BY <2>1, <2>2, <2>4, <2>5, ZenonT(60) DEF UnitInv
  <2>6. CASE phase = "new" /\ phase' = "starting" /\ stage' = 1 /\ place' = 1
    BY <2>1, <2>2, <2>3, <2>6, SMTT(30) DEF UnitInv, Stages
  <2>7. CASE phase' = "closing" /\ phase \in {"new", "up"}
    BY <2>1, <2>2, <2>7, ZenonT(60) DEF UnitInv
  <2> QED
    BY <2>5, <2>6, <2>7, ZenonT(60)
<1> QED
  BY <1>1, <1>2, ZenonT(60) DEF BoxInv

\* Before the start no unit has been through a stage.
LEMMA BoxInitInv == BoxInit => BoxInv
<1> SUFFICES ASSUME BoxInit PROVE BoxInv
  OBVIOUS
<1>1. /\ phase = "new" /\ stage = 1 /\ place = 1
      /\ seen = [u \in Units |-> <<>>] /\ closed = [u \in Units |-> 0]
  BY ZenonT(60) DEF BoxInit
<1>2. Position
  BY <1>1 DEF Position, Stages
<1>3. ASSUME NEW p \in Parts, NEW u \in SetOf(Listed(p))
      PROVE  UnitInv(p, u) /\ Len(seen[u]) = 0
  <2>1. u \in Units
    BY ZenonT(60) DEF Units
  <2>2. seen[u] = <<>> /\ Len(seen[u]) = 0 /\ closed[u] = 0
    BY <1>1, <2>1, ZenonT(60)
  <2>3. <<>> = [s \in 1 .. 0 |-> s]
    OBVIOUS
  <2>4. ~Over(p)
    BY <1>1, ZenonT(60) DEF Over
  <2> QED
    BY <1>1, <2>2, <2>3, <2>4 DEF UnitInv
<1>4. Served
  <2>1. "inbound" \in Parts
    BY PartsAre, ZenonT(60)
  <2> QED
    BY <1>3, <2>1 DEF Served
<1> QED
  BY <1>2, <1>3, <1>4, ZenonT(60) DEF BoxInv

\* Every step keeps the units' invariant.
LEMMA BoxNextInv == BoxInv /\ [BoxNext]_boxVars => BoxInv'
<1> SUFFICES ASSUME BoxInv, [BoxNext]_boxVars PROVE BoxInv'
  OBVIOUS
<1>0. Position
  BY ZenonT(60) DEF BoxInv
<1>1. CASE BoxStart
  <2>1. Position'
    BY <1>0, <1>1, OrderNamesOnce DEF BoxStart, Position
  <2> QED
    BY <1>0, <1>1, <2>1, SameUnits, ZenonT(60) DEF BoxStart, Position
<1>2. CASE StartPart
  BY <1>2, StartPartStep
<1>3. CASE StartFails
  BY <1>3, StartFailsStep
<1>4. CASE Close
  <2>1. Position'
    BY <1>0, <1>4, CloseNamesOnce DEF Close, Position
  <2> QED
    BY <1>4, <2>1, SameUnits, ZenonT(60) DEF Close
<1>5. CASE ClosePart
  BY <1>5, ClosePartStep
<1>6. CASE UNCHANGED life
  <2>1. Position'
    BY <1>0, <1>6, ZenonT(60) DEF life, Position
  <2> QED
    BY <1>6, <2>1, SameUnits, ZenonT(60) DEF life
<1>7. CASE Update \/ FetchFails \/ Fetched \/ DropUnused \/ UpdateEnds \/ BoxDone
           \/ UNCHANGED boxVars
  <2>1. UNCHANGED life
    BY <1>7, ZenonT(60) DEF Update, FetchFails, Fetched, DropUnused, UpdateEnds, BoxDone, boxVars
  <2> QED
    BY <1>6, <2>1, ZenonT(60)
<1> QED
  BY <1>1, <1>2, <1>3, <1>4, <1>5, <1>7, ZenonT(60) DEF BoxNext

\* The invariant says what became of every unit.
LEMMA BoxInvOnce == BoxInv => EachUnitOnce
<1> SUFFICES ASSUME BoxInv, NEW u \in Units
             PROVE  /\ seen[u] = [s \in 1 .. Len(seen[u]) |-> s]
                    /\ closed[u] <= 1
                    /\ phase = "starting" => closed[u] = 0
                    /\ phase = "up" => Len(seen[u]) = (IF u = "logger" THEN 1 ELSE 4)
                    /\ phase = "closed" /\ seen[u] # <<>> => closed[u] = 1
  BY ZenonT(60) DEF EachUnitOnce
<1>1. PICK p \in Parts : u \in SetOf(Listed(p))
  BY ZenonT(60) DEF Units
<1>2. UnitInv(p, u)
  BY <1>1, ZenonT(60) DEF BoxInv
<1>3. u = "logger" <=> p = "logger"
  <2>1. "logger" \in Parts /\ "logger" \notin Managers
    BY PartsAre, MembersAssumption, ZenonT(60)
  <2>2. SetOf(Listed("logger")) = {"logger"}
    BY <2>1, SMTT(30) DEF Listed, SetOf
  <2> QED
    BY <1>1, <2>1, <2>2, OnePart, ZenonT(60)
<1>4. closed[u] <= 1 /\ (phase = "starting" => closed[u] = 0)
  BY <1>2 DEF UnitInv, Over
<1>5. seen[u] # <<>> => Len(seen[u]) > 0
  <2>1. Len(seen[u]) = 0 => seen[u] = [s \in 1 .. 0 |-> s]
    BY <1>2, ZenonT(60) DEF UnitInv
  <2>2. <<>> = [s \in 1 .. 0 |-> s]
    OBVIOUS
  <2>3. Len(seen[u]) \in 0 .. 4
    BY <1>2, ZenonT(60) DEF UnitInv
  <2> QED
    BY <2>1, <2>2, <2>3
<1>6. phase = "closed" => Over(p)
  BY ZenonT(60) DEF Over
<1> QED
  BY <1>2, <1>3, <1>4, <1>5, <1>6, ZenonT(60) DEF UnitInv

\* An inbound that is open is not over, and so those that serve it are not.
LEMMA BoxInvServes == BoxInv => AcceptsWhenServed
<1> SUFFICES ASSUME BoxInv, NEW i \in SetOf(Listed("inbound")), Up(i),
                    NEW p \in Serving, NEW u \in SetOf(Listed(p))
             PROVE  Up(u)
  BY ZenonT(60) DEF AcceptsWhenServed, Serving
<1>1. "inbound" \in Parts /\ p \in Parts
  BY PartsAre, ZenonT(60) DEF Serving
<1>2. UnitInv("inbound", i) /\ UnitInv(p, u) /\ Position
  BY <1>1, ZenonT(60) DEF BoxInv
<1>3. Len(seen[u]) >= 2
  BY ZenonT(60) DEF BoxInv, Served, Up
<1>4. ~Over("inbound")
  BY <1>2 DEF UnitInv, Up
<1>5. ~Over(p)
  <2>1. phase # "closed"
    BY <1>4, ZenonT(60) DEF Over
  <2>2. CASE phase = "closing"
    BY <1>2, <1>4, <2>2, CloseAtHand, ZenonT(60)
  <2>3. CASE phase # "closing"
    BY <2>1, <2>3, ZenonT(60) DEF Over
  <2> QED
    BY <2>2, <2>3, ZenonT(60)
<1> QED
  BY <1>2, <1>3, <1>5, ZenonT(60) DEF UnitInv, Up

\* The invariant of the units holds throughout.
LEMMA BoxInvariant == BoxSpec => []BoxInv
BY BoxInitInv, BoxNextInv, PTL DEF BoxSpec

\* Whatever lists the managers hold and whatever fails: no unit of the box is
\* started twice at a stage, out of order or after its Close, and none that has
\* been started is left open when Close returns.
THEOREM BoxStartsAndClosesOnce == BoxSpec => []EachUnitOnce
BY BoxInvariant, BoxInvOnce, PTL

\* No inbound is open while something that its connections need is not yet
\* started or already closed.
THEOREM InboundsAreServed == BoxSpec => []AcceptsWhenServed
BY BoxInvariant, BoxInvServes, PTL

-----------------------------------------------------------------------------
(* The rule set.                                                           *)

\* The router has loaded the set when it is past the Start stage.
LEMMA SetInvKeeps == BoxInv /\ SetInv => UsedSetKeepsRules
<1> SUFFICES ASSUME BoxInv, SetInv PROVE UsedSetKeepsRules
  OBVIOUS
<1>1. ASSUME phase = "starting", refs # {}, Len(seen["router"]) >= 2 PROVE rules
  <2>1. "router" \in Parts /\ "router" \notin Managers
    BY PartsAre, MembersAssumption, ZenonT(60)
  <2>2. "router" \in SetOf(Listed("router"))
    BY <2>1 DEF Listed, SetOf
  <2>3. UnitInv("router", "router")
    BY <2>1, <2>2, ZenonT(60) DEF BoxInv
  <2>4. Past("router", 2)
    BY <1>1, <2>3 DEF UnitInv, Starter, Stages
  <2> QED
    BY <1>1, <2>4, ZenonT(60) DEF SetInv
<1> QED
  BY <1>1, ZenonT(60) DEF UsedSetKeepsRules, SetInv

\* Parts take their references before anything looks for unused rules.
LEMMA SetStartPart ==
    ASSUME BoxInv, SetInv, StartPart
    PROVE  SetInv'
<1>1. /\ phase = "starting" /\ SetStarts(Part) /\ Advance
      /\ users' = users /\ remote' = remote
  BY ZenonT(60) DEF StartPart
<1>2. Position /\ stage \in Stages
  BY ZenonT(60) DEF BoxInv, Position
<1>3. /\ Part \in Parts /\ ~Past(Part, stage)
      /\ \A p \in Parts, s \in Stages : s < stage => Past(p, s)
      /\ \A p \in Parts, s \in Stages : Past(p, s) => s <= stage
  BY <1>1, <1>2, PartAtHand, ZenonT(60)
<1> DEFINE Soon(p, s) == Past(p, s) \/ (p = Part /\ s = stage)
           Users == {"dnsRouter", "router", "inbound"}
           Now == {p \in users : IF p = "router" THEN Soon("router", 3) ELSE Soon(p, 2)}
<1>4. \A p \in Users, s \in Stages : p \in Parts /\ Runs(p, s)
  BY PartsAre, ZenonT(60) DEF Runs
<1>5. phase' = "starting" => \A p \in Users, s \in Stages : Past(p, s)' <=> Soon(p, s)
  BY <1>1, <1>2, <1>4, AdvancePast, ZenonT(60)
<1>6. phase' = "up" => \A p \in Users, s \in Stages : Soon(p, s)
  BY <1>1, <1>2, <1>4, AdvancePast, ZenonT(60)
<1>7. phase' \in {"starting", "up"}
  BY <1>1, <1>2, AdvancePast, ZenonT(60)
<1>8. users \subseteq Users /\ remote \in BOOLEAN /\ rules \in BOOLEAN
      /\ update \in {"off", "wait", "fetch", "unused"} /\ (update = "unused" => remote)
  BY ZenonT(60) DEF SetInv
<1>9. /\ refs = Taken
      /\ Past("router", 2) => rules \/ (refs = {} /\ Past("router", 3))
      /\ remote /\ update # "off" => Past("router", 3)
  BY <1>1, ZenonT(60) DEF SetInv
<1>10. refs' = Now
  <2>1. refs' = Referenced(Part)
    BY <1>1, ZenonT(60) DEF SetStarts
  <2> QED
    BY <1>2, <1>8, <1>9, <2>1, ZenonT(60) DEF Referenced, Taken, Stages
<1>11. Soon("router", 2) => rules' \/ (refs' = {} /\ Soon("router", 3))
  <2>1. CASE Part = "router" /\ stage = 2
    BY <1>1, <2>1 DEF SetStarts
  <2>2. CASE ~(Part = "router" /\ stage = 2)
    <3> SUFFICES ASSUME Past("router", 2) PROVE rules' \/ (refs' = {} /\ Soon("router", 3))
      BY <2>2, ZenonT(60)
    <3>1. CASE Past("router", 3)
      <4>1. stage >= 3
        BY <1>2, <1>3, <1>4, <3>1 DEF Stages
      <4>2. refs' = refs
        <5>1. ~(Part \in {"dnsRouter", "inbound"} /\ stage = 2) /\ ~(Part = "router" /\ stage = 3)
          BY <1>2, <1>3, <3>1, <4>1 DEF Stages
        <5> QED
          BY <1>1, <5>1, ZenonT(60) DEF SetStarts, Referenced
      <4>3. rules' = rules \/ rules' = (rules /\ refs # {})
        BY <1>1, <2>2, ZenonT(60) DEF SetStarts
      <4> QED
        BY <1>9, <3>1, <4>2, <4>3, ZenonT(60)
    <3>2. CASE ~Past("router", 3)
      <4>1. stage # 4
        BY <1>2, <1>3, <1>4, <3>2 DEF Stages
      <4>2. rules' = rules
        BY <1>1, <2>2, <4>1, ZenonT(60) DEF SetStarts
      <4> QED
        BY <1>9, <3>2, <4>2, ZenonT(60)
    <3> QED
      BY <3>1, <3>2, ZenonT(60)
  <2> QED
    BY <2>1, <2>2, ZenonT(60)
<1>12. remote /\ update' # "off" => Soon("router", 3)
  BY <1>1, <1>9, ZenonT(60) DEF SetStarts
<1>13. rules' \in BOOLEAN /\ update' \in {"off", "wait", "fetch", "unused"}
       /\ (update' = "unused" => remote)
  BY <1>1, <1>8, ZenonT(60) DEF SetStarts
<1>14. CASE phase' = "starting"
  <2>1. /\ Past("router", 2)' <=> Soon("router", 2)
        /\ Past("router", 3)' <=> Soon("router", 3)
        /\ \A p \in Users : Past(p, 2)' <=> Soon(p, 2)
    BY <1>5, <1>14 DEF Stages
  <2>2. Taken' = Now
    <3> HIDE DEF Soon
    <3>1. \A p \in users : /\ p \in Users
                           /\ Past(p, 2)' <=> Soon(p, 2)
      BY <1>8, <2>1, ZenonT(60)
    <3> QED
      BY <1>1, <2>1, <3>1, ZenonT(60) DEF Taken
  <2> HIDE DEF Soon, Now
  <2> QED
    BY <1>1, <1>8, <1>10, <1>11, <1>12, <1>13, <1>14, <2>1, <2>2, ZenonT(60) DEF SetInv
<1>15. CASE phase' = "up"
  <2>1. Soon("router", 2) /\ Soon("router", 3) /\ \A p \in Users : Soon(p, 2)
    BY <1>6, <1>15 DEF Stages
  <2>2. Now = users
    <3> HIDE DEF Soon
    <3> QED
      BY <1>8, <2>1, ZenonT(60)
  <2> HIDE DEF Soon, Now
  <2> QED
    BY <1>1, <1>8, <1>10, <1>11, <1>13, <1>15, <2>1, <2>2, ZenonT(60) DEF SetInv
<1> QED
  BY <1>7, <1>14, <1>15, ZenonT(60)

\* Where the box does not start a part, the position in the order stays.
LEMMA SamePast ==
    ASSUME UNCHANGED <<stage, place, users>>
    PROVE  Taken' = Taken /\ \A p, s : Past(p, s)' <=> Past(p, s)
BY ZenonT(60) DEF Taken, Past

\* Every step keeps the rule set's invariant.
LEMMA SetNext == BoxInv /\ SetInv /\ [BoxNext]_boxVars => SetInv'
<1> SUFFICES ASSUME BoxInv, SetInv, [BoxNext]_boxVars PROVE SetInv'
  OBVIOUS
<1>1. CASE BoxStart
  <2>1. stage = 1 /\ place = 1 /\ refs = {} /\ update = "off"
    BY <1>1, ZenonT(60) DEF BoxStart, BoxInv, Position, SetInv
  <2>2. ~Past("router", 2) /\ ~Past("router", 3) /\ \A p : ~Past(p, 2)
    BY <2>1 DEF Past
  <2>3. Taken = {}
    BY <2>2, ZenonT(60) DEF Taken
  <2>4. UNCHANGED <<stage, place, users, remote, refs, rules, update>> /\ phase' = "starting"
    BY <1>1, ZenonT(60) DEF BoxStart, set
  <2>5. Taken' = {} /\ ~Past("router", 2)'
    BY <2>2, <2>3, <2>4, SamePast, ZenonT(60)
  <2> QED
    BY <2>1, <2>4, <2>5, ZenonT(60) DEF SetInv
<1>2. CASE StartPart
  BY <1>2, SetStartPart, ZenonT(60)
<1>3. CASE StartFails
  <2>1. /\ users' = users /\ remote' = remote /\ phase' = "closing"
        /\ rules' \in BOOLEAN /\ update' \in {update, "wait"}
    BY <1>3, ZenonT(60) DEF StartFails, SetStarts, SetInv
  <2> QED
    BY <2>1, ZenonT(60) DEF SetInv
<1>4. CASE Close
  BY <1>4, ZenonT(60) DEF Close, set, SetInv
<1>5. CASE ClosePart
  BY <1>5, ZenonT(60) DEF ClosePart, SetInv
<1>6. ASSUME Update \/ FetchFails \/ Fetched \/ DropUnused \/ UpdateEnds \/ BoxDone
             \/ UNCHANGED boxVars
      PROVE  SetInv'
  <2>1. UNCHANGED <<phase, stage, place, users, remote, refs>>
    BY <1>6, ZenonT(60) DEF Update, FetchFails, Fetched, DropUnused, UpdateEnds, BoxDone, boxVars, life, set
  <2>2. Taken' = Taken /\ \A p, s : Past(p, s)' <=> Past(p, s)
    BY <2>1, SamePast, ZenonT(60)
  <2>3. CASE Update \/ FetchFails \/ UpdateEnds
    BY <2>1, <2>2, <2>3, ZenonT(60) DEF Update, FetchFails, UpdateEnds, SetInv
  <2>4. CASE Fetched
    <3>1. rules \in BOOLEAN /\ rules' \in {rules, TRUE}
      BY <2>4, ZenonT(60) DEF Fetched, SetInv
    <3>2. rules' \in BOOLEAN /\ (rules => rules')
      BY <3>1, ZenonT(60)
    <3>3. update = "fetch" /\ update' \in {"unused", "wait"} /\ (update' = "unused" => remote)
      BY <2>4, ZenonT(60) DEF Fetched
    <3> QED
      BY <2>1, <2>2, <3>2, <3>3, ZenonT(60) DEF SetInv
  <2>5. CASE DropUnused
    BY <2>1, <2>2, <2>5, ZenonT(60) DEF DropUnused, SetInv
  <2>6. CASE BoxDone \/ UNCHANGED boxVars
    <3>1. rules' = rules /\ update' = update
      BY <2>6, ZenonT(60) DEF BoxDone, boxVars, set
    <3> QED
      BY <2>1, <2>2, <3>1, ZenonT(60) DEF SetInv
  <2> QED
    BY <1>6, <2>3, <2>4, <2>5, <2>6, ZenonT(60)
<1> QED
  BY <1>1, <1>2, <1>3, <1>4, <1>5, <1>6, ZenonT(60) DEF BoxNext

\* Neither an update nor the clean-up of unused rules empties a rule set that
\* somebody uses, in whichever order they come.
THEOREM UsedRulesStay == BoxSpec => []UsedSetKeepsRules
<1>1. BoxInit => SetInv
  BY ZenonT(60) DEF BoxInit, SetInv
<1> QED
  BY <1>1, BoxInvariant, SetNext, SetInvKeeps, PTL DEF BoxSpec
==============================================================================
