-------------------------- MODULE DNSClientProofs ---------------------------
(***************************************************************************)
(* The DNS client for any goroutines, questions, transports and depth of   *)
(* nested exchanges: nobody waits on a channel that will not be closed,    *)
(* nobody waits in a circle unless a look-up is needed for itself, and an  *)
(* exchange returns no response that neither its own address filter has    *)
(* passed nor one with which it shares a key of the cache.                 *)
(***************************************************************************)
EXTENDS DNSClient, TLAPS

Exchange == Goroutines \X (1 .. MaxDepth)

StackTypes ==
    /\ stack \in [Goroutines -> Seq(Frame)]
    /\ \A h \in Goroutines : Len(stack[h]) \in 0 .. MaxDepth
    /\ cacheLock \in [Questions -> Exchange \cup {None}]

Depths(h) == 1 .. Len(stack[h])

\* While an exchange is at one of these it may have stored the channel.
Locking == {"load", "query", "exchange", "dialing", "send", "unlock"}

\* The channel is deleted by the deferred function of the exchange that stored it.
Holding(w, q) ==
    /\ w[2] \in Depths(w[1]) /\ stack[w[1]][w[2]].request.question = q
    /\ stack[w[1]][w[2]].pc \in Locking

HoldersLock == \A q \in Questions : cacheLock[q] # None => Holding(cacheLock[q], q)

\* Only the innermost exchange of a goroutine moves; it waits where it has a
\* channel to wait on; it unlocks what it has locked.
FramesInOrder ==
    \A h \in Goroutines : \A i \in Depths(h) :
        /\ i < Len(stack[h]) => stack[h][i].pc = "dialing"
        /\ stack[h][i].pc = "wait" <=> stack[h][i].waits # None
        /\ stack[h][i].pc = "unlock" => cacheLock[stack[h][i].request.question] = <<h, i>>

\* WaitsForHolder for one exchange and the channel w.
WaitsOn(w, q) ==
    /\ w[2] \in Depths(w[1]) /\ stack[w[1]][w[2]].request.question = q
    /\ cacheLock[q] = w \/ stack[w[1]][w[2]].pc = "signal"

Waiting ==
    \A h \in Goroutines : \A i \in Depths(h) :
        stack[h][i].pc = "wait" => WaitsOn(stack[h][i].waits, stack[h][i].request.question)

LockInv == StackTypes /\ HoldersLock /\ FramesInOrder /\ Waiting

CacheTyped == cache \in [Keys -> Responses \cup {None}]

-----------------------------------------------------------------------------
(* The address filter.                                                     *)

\* The frame is one of a request that somebody makes, at a place that the request
\* comes to.
Proper(f) ==
    /\ f.request \in AllRequests
    /\ f.request.excluded => f.pc \in {"peek", "return"}
    /\ f.pc = "peek" => f.request.caching # "none"
    /\ f.pc \in {"lock", "wait", "load"} => f.request.caching = "full"

Passed(f) == f.result \in Responses => PassedFilter(f.request, f.result)

FramesPassed ==
    \A h \in Goroutines : \A i \in Depths(h) : Proper(stack[h][i]) /\ Passed(stack[h][i])

\* Request s may have stored the response under key k.
Stores(s, k, response) ==
    /\ s.caching = "full" /\ ~s.excluded /\ Key(s.transport, s.question) = k
    /\ FilterAdmits(s, response)

CachePassed ==
    \A k \in Keys : cache[k] # None => \E s \in AllRequests : Stores(s, k, cache[k])

FilterInv == FramesPassed /\ CachePassed

-----------------------------------------------------------------------------
(* What the steps do to the frames.                                        *)

\* The innermost exchange of a busy goroutine, and its lock.
LEMMA TopFacts ==
    ASSUME StackTypes, NEW g \in Goroutines, Busy(g)
    PROVE  /\ Len(stack[g]) \in Depths(g) /\ Len(stack[g]) \in 1 .. MaxDepth
           /\ Top(g) \in Frame /\ Top(g).request \in Request /\ Question(g) \in Questions
           /\ Me(g) \in Exchange /\ Me(g) # None /\ Me(g)[1] = g /\ Me(g)[2] = Len(stack[g])
<1> DEFINE n == Len(stack[g])
<1>1. stack[g] \in Seq(Frame) /\ stack[g] # << >> /\ n \in 0 .. MaxDepth
    BY ZenonT(60) DEF StackTypes, Busy
<1>2. n \in 1 .. n /\ n \in 1 .. MaxDepth
    BY <1>1, ConstantsAssumption
<1>3. Top(g) \in Frame
    BY <1>1, <1>2 DEF Top
<1>4. Top(g).request \in Request /\ Question(g) \in Questions
    BY <1>3, ZenonT(60) DEF Frame, Request, Question
<1>5. Me(g) \in Exchange /\ Me(g)[1] = g /\ Me(g)[2] = n
    BY <1>2, ZenonT(60) DEF Me, Exchange
<1>6. Me(g) # None
    BY <1>5, ConstantsAssumption, ZenonT(60) DEF Exchange
<1> QED
    BY <1>2, <1>3, <1>4, <1>5, <1>6, ZenonT(60) DEF Depths

\* Every frame of the stacks has the type.
LEMMA FrameFacts ==
    ASSUME StackTypes, NEW h \in Goroutines, NEW i \in Depths(h)
    PROVE  /\ stack[h][i] \in Frame /\ i \in 1 .. MaxDepth /\ Len(stack[h]) \in Nat
           /\ stack[h][i].request \in Request /\ stack[h][i].request.question \in Questions
           /\ stack[h][i].request.transport \in Transports
           /\ stack[h][i].waits \in Exchange \cup {None}
           /\ <<h, i>> \in Exchange /\ <<h, i>> # None
<1>1. stack[h] \in Seq(Frame) /\ Len(stack[h]) \in 0 .. MaxDepth
    BY ZenonT(60) DEF StackTypes
<1>2. stack[h][i] \in Frame
    BY <1>1 DEF Depths
<1>3. i \in 1 .. MaxDepth
    BY <1>1, ConstantsAssumption DEF Depths
<1>4. /\ stack[h][i].request \in Request /\ stack[h][i].request.question \in Questions
      /\ stack[h][i].request.transport \in Transports
      /\ stack[h][i].waits \in Exchange \cup {None}
    BY <1>2, ZenonT(60) DEF Frame, Request, Exchange
<1>5. <<h, i>> \in Exchange /\ <<h, i>> # None
    BY <1>3, ConstantsAssumption DEF Exchange
<1> QED
    BY <1>1, <1>2, <1>3, <1>4, <1>5

\* Set replaces the innermost frame of g.
LEMMA SetDoes ==
    ASSUME StackTypes, NEW g \in Goroutines, Busy(g), NEW f \in Frame, Set(g, f)
    PROVE  /\ stack' \in [Goroutines -> Seq(Frame)]
           /\ \A h \in Goroutines : Len(stack'[h]) = Len(stack[h]) /\ Depths(h)' = Depths(h)
           /\ stack'[g][Len(stack[g])] = f
           /\ \A h \in Goroutines : \A i \in Depths(h) : <<h, i>> # Me(g) => stack'[h][i] = stack[h][i]
<1> DEFINE n == Len(stack[g])
           s == [stack[g] EXCEPT ![n] = f]
<1>1. stack[g] \in Seq(Frame) /\ n \in 1 .. n
    BY TopFacts, ZenonT(60) DEF StackTypes, Depths
<1>2. stack' = [stack EXCEPT ![g] = s]
    BY ZenonT(60) DEF Set, StackTypes
<1>3. /\ s \in Seq(Frame) /\ Len(s) = n /\ s[n] = f
      /\ \A i \in 1 .. n : i # n => s[i] = stack[g][i]
    BY <1>1
<1> HIDE DEF s
<1>4. stack' \in [Goroutines -> Seq(Frame)] /\ stack'[g] = s
    BY <1>2, <1>3, ZenonT(60) DEF StackTypes
<1>5. \A h \in Goroutines \ {g} : stack'[h] = stack[h]
    BY <1>2, ZenonT(60) DEF StackTypes
<1>6. \A h \in Goroutines : Len(stack'[h]) = Len(stack[h])
    BY <1>3, <1>4, <1>5, ZenonT(60)
<1>7. \A h \in Goroutines : \A i \in Depths(h) : <<h, i>> # Me(g) => stack'[h][i] = stack[h][i]
    BY <1>3, <1>4, <1>5, ZenonT(60) DEF Depths, Me
<1> QED
    BY <1>3, <1>4, <1>6, <1>7, ZenonT(60) DEF Depths

\* A step of g in which one frame changes, the lock of its question perhaps too.
FrameStep(g, f) ==
    /\ Busy(g) /\ f \in Frame /\ Set(g, f) /\ f.request = Top(g).request
    /\ f.pc = "wait" <=> f.waits # None

\* The exchange moves and leaves its question's channel, stores one or deletes its own.
LEMMA MoveKeeps ==
    ASSUME LockInv, NEW g \in Goroutines, NEW f, FrameStep(g, f), Top(g).pc # "signal",
           NEW l, cacheLock' = [cacheLock EXCEPT ![Question(g)] = l],
           \/ /\ l = cacheLock[Question(g)] /\ f.waits \in {None, l}
              /\ IF l = Me(g) THEN f.pc \in Locking ELSE f.pc # "unlock"
           \/ cacheLock[Question(g)] = None /\ l = Me(g) /\ f.pc \in Locking /\ f.waits = None
           \/ cacheLock[Question(g)] = Me(g) /\ l = None /\ f.pc = "signal" /\ f.waits = None
    PROVE  LockInv'
<1> DEFINE n == Len(stack[g])
           p == Question(g)
<1>1. /\ stack' \in [Goroutines -> Seq(Frame)]
      /\ \A h \in Goroutines : Len(stack'[h]) = Len(stack[h]) /\ Depths(h)' = Depths(h)
      /\ stack'[g][n] = f
      /\ \A h \in Goroutines : \A i \in Depths(h) : <<h, i>> # Me(g) => stack'[h][i] = stack[h][i]
    BY SetDoes, ZenonT(60) DEF LockInv, FrameStep
<1>2. /\ n \in Depths(g) /\ Me(g) = <<g, n>> /\ Me(g) # None /\ Me(g) \in Exchange
      /\ stack[g][n] = Top(g) /\ Top(g).request.question = p /\ p \in Questions
    BY TopFacts, ZenonT(60) DEF LockInv, FrameStep, Me, Top, Question
<1>3. cacheLock'[p] = l /\ \A q \in Questions \ {p} : cacheLock'[q] = cacheLock[q]
    BY <1>2, ZenonT(60) DEF LockInv, StackTypes
<1>4. StackTypes'
    <2>1. l \in Exchange \cup {None}
        BY <1>2, ZenonT(60) DEF LockInv, StackTypes
    <2> QED
        BY <1>1, <2>1, ZenonT(60) DEF LockInv, StackTypes
<1>5. \A h \in Goroutines : \A i \in Depths(h) :
          /\ stack'[h][i].request = stack[h][i].request
          /\ stack[h][i].pc = "signal" => stack'[h][i].pc = "signal"
    BY <1>1, <1>2, SMTT(30) DEF FrameStep
<1> HIDE DEF p
<1>6. HoldersLock'
    <2>1. SUFFICES ASSUME NEW q \in Questions, NEW w, w = cacheLock'[q], w # None
                   PROVE  Holding(w, q)'
        BY ZenonT(60) DEF HoldersLock
    <2>2. CASE w = Me(g)
        <3>1. q = p /\ f.pc \in Locking
            <4>1. CASE q = p
                BY <1>2, <1>3, <2>1, <2>2, <4>1, ZenonT(60) DEF p
            <4>2. CASE q # p
                <5>1. cacheLock[q] = Me(g)
                    BY <1>3, <2>1, <2>2, <4>2, ZenonT(60)
                <5>2. Holding(Me(g), q)
                    BY <1>2, <5>1, ZenonT(60) DEF LockInv, HoldersLock
                <5> QED
                    BY <1>2, <4>2, <5>2 DEF Holding
            <4> QED
                BY <4>1, <4>2, ZenonT(60)
        <3>2. w[1] = g /\ w[2] = n
            BY <1>2, <2>2
        <3> QED
            BY <1>1, <1>2, <1>5, <3>1, <3>2, ZenonT(60) DEF Holding
    <2>3. CASE w # Me(g)
        <3>1. w = cacheLock[q]
            BY <1>3, <2>1, <2>3, ZenonT(60) DEF p
        <3>2. w \in Exchange /\ Holding(w, q)
            BY <2>1, <3>1, ZenonT(60) DEF LockInv, StackTypes, HoldersLock
        <3>3. w[1] \in Goroutines /\ w[2] \in Depths(w[1]) /\ w = <<w[1], w[2]>>
            BY <3>2, SMTT(30) DEF Exchange, Holding
        <3> QED
            BY <1>1, <2>3, <3>2, <3>3, ZenonT(60) DEF Holding
    <2> QED
        BY <2>2, <2>3, ZenonT(60)
<1>7. FramesInOrder'
    <2>0. \A h \in Goroutines : Len(stack'[h]) = Len(stack[h]) /\ Depths(h)' = Depths(h)
        BY <1>1, ZenonT(60)
    <2>1. SUFFICES ASSUME NEW h \in Goroutines, NEW i \in Depths(h)
                   PROVE  /\ i < Len(stack[h]) => stack'[h][i].pc = "dialing"
                          /\ stack'[h][i].pc = "wait" <=> stack'[h][i].waits # None
                          /\ stack'[h][i].pc = "unlock" =>
                                cacheLock'[stack'[h][i].request.question] = <<h, i>>
        BY <2>0, ZenonT(60) DEF FramesInOrder
    <2>2. CASE <<h, i>> # Me(g)
        <3>1. stack'[h][i] = stack[h][i]
            BY <1>1, <2>2, ZenonT(60)
        <3>2. FramesInOrder!(h)!(i)
            BY ZenonT(60) DEF LockInv, FramesInOrder
        <3>3. ASSUME stack[h][i].pc = "unlock"
              PROVE  cacheLock'[stack[h][i].request.question] = <<h, i>>
            <4>1. PICK q \in Questions : q = stack[h][i].request.question
                BY FrameFacts, ZenonT(60) DEF LockInv
            <4>2. cacheLock[q] = <<h, i>> /\ <<h, i>> # None
                BY <3>2, <3>3, <4>1, FrameFacts, ZenonT(60) DEF LockInv
            <4>3. q = p => l = <<h, i>>
                BY <2>2, <4>2, ZenonT(60) DEF p
            <4> QED
                BY <1>3, <4>1, <4>2, <4>3, ZenonT(60)
        <3> QED
            BY <3>1, <3>2, <3>3, ZenonT(60)
    <2>3. CASE <<h, i>> = Me(g)
        <3>1. h = g /\ i = n /\ stack'[h][i] = f /\ ~(i < Len(stack[h]))
            BY <1>1, <1>2, <2>3, FrameFacts DEF LockInv
        <3>2. f.pc = "wait" <=> f.waits # None
            BY ZenonT(60) DEF FrameStep
        <3>3. f.request.question = p
            BY <1>2, ZenonT(60) DEF FrameStep
        <3>4. f.pc = "unlock" => l = Me(g)
            OBVIOUS
        <3> QED
            BY <1>3, <2>3, <3>1, <3>2, <3>3, <3>4, ZenonT(60)
    <2> QED
        BY <2>2, <2>3, ZenonT(60)
<1>8. Waiting'
    <2>1. SUFFICES ASSUME NEW h \in Goroutines, NEW i \in Depths(h), stack'[h][i].pc = "wait",
                          NEW w, w = stack'[h][i].waits,
                          NEW q, q = stack'[h][i].request.question
                   PROVE  WaitsOn(w, q)'
        BY <1>1, ZenonT(60) DEF Waiting
    <2>2. WaitsOn(w, q) /\ w \in Exchange /\ w # None /\ q \in Questions
        <3>1. CASE <<h, i>> # Me(g)
            <4>1. stack'[h][i] = stack[h][i]
                BY <1>1, <3>1
            <4>2. stack[h][i].waits \in Exchange /\ stack[h][i].waits # None
                BY <2>1, <4>1, FrameFacts, ZenonT(60) DEF LockInv, FramesInOrder
            <4>3. WaitsOn(stack[h][i].waits, stack[h][i].request.question)
                BY <2>1, <4>1, ZenonT(60) DEF LockInv, Waiting
            <4>4. w = stack[h][i].waits /\ q = stack[h][i].request.question /\ q \in Questions
                BY <2>1, <4>1, FrameFacts, ZenonT(60) DEF LockInv
            <4> QED
                BY <4>2, <4>3, <4>4, ZenonT(60)
        <3>2. CASE <<h, i>> = Me(g)
            <4>1. stack'[h][i] = f /\ q = p /\ w = f.waits
                BY <1>1, <1>2, <2>1, <3>2 DEF FrameStep
            <4>2. w = cacheLock[q] /\ w # None
                BY <2>1, <4>1, ZenonT(60) DEF FrameStep, p
            <4>3. w \in Exchange
                BY <1>2, <4>1, <4>2, ZenonT(60) DEF LockInv, StackTypes
            <4> QED
                BY <1>2, <4>1, <4>2, <4>3, ZenonT(60) DEF LockInv, HoldersLock, Holding, WaitsOn
        <3> QED
            BY <3>1, <3>2, ZenonT(60)
    <2>3. w[1] \in Goroutines /\ w[2] \in Depths(w[1])
        BY <2>2, ZenonT(60) DEF Exchange, WaitsOn
    <2>4. cacheLock'[q] = w \/ stack'[w[1]][w[2]].pc = "signal"
        <3>1. CASE stack[w[1]][w[2]].pc = "signal"
            BY <1>5, <2>3, <3>1, ZenonT(60)
        <3>2. CASE cacheLock[q] = w /\ (q # p \/ l = w)
            BY <1>3, <2>2, <3>2, ZenonT(60)
        <3>3. CASE cacheLock[q] = w /\ q = p /\ l # w
            <4>1. w = Me(g) /\ f.pc = "signal"
                BY <2>2, <3>3, ZenonT(60) DEF p
            <4> QED
                BY <1>1, <1>2, <4>1
        <3> QED
            BY <2>2, <3>1, <3>2, <3>3, ZenonT(60) DEF WaitsOn
    <2> QED
        BY <1>1, <1>5, <2>2, <2>3, <2>4, ZenonT(60) DEF WaitsOn
<1> QED
    BY <1>4, <1>6, <1>7, <1>8, ZenonT(60) DEF LockInv


-----------------------------------------------------------------------------
(* The steps that change one frame.                                        *)

Results == Responses \cup {"fixed", "rejected", "rejectedCached", "loopback", "error"}

\* An exchange that does not wait has nothing to wait on.
LEMMA NotWaiting ==
    ASSUME LockInv, NEW g \in Goroutines, Busy(g), Top(g).pc # "wait" PROVE Top(g).waits = None
BY TopFacts, ZenonT(60) DEF LockInv, FramesInOrder, Top

\* A channel is left as it is.
LEMMA SameLock ==
    ASSUME LockInv, NEW g \in Goroutines, cacheLock' = cacheLock
    PROVE  cacheLock' = [cacheLock EXCEPT ![Question(g)] = cacheLock[Question(g)]]
BY ZenonT(60) DEF LockInv, StackTypes

\* Exchange returns: the deferred function is next if the channel is its own.
LEMMA FinishKeeps ==
    ASSUME LockInv, NEW g \in Goroutines, Busy(g),
           Top(g).pc \in {"peek", "load", "query", "exchange", "send"},
           NEW result \in Results, Finish(g, result), cacheLock' = cacheLock
    PROVE  LockInv'
<1> DEFINE label == Deferred(Me(g), Top(g))
           f == [Top(g) EXCEPT !.result = result, !.pc = label]
<1>1. Top(g) \in Frame /\ Top(g).waits = None
    BY TopFacts, NotWaiting, ZenonT(60) DEF LockInv
<1>2. label = IF cacheLock[Question(g)] = Me(g) THEN "unlock" ELSE "return"
    BY ZenonT(60) DEF Deferred, Question
<1>3. Set(g, f)
    BY ZenonT(60) DEF Finish
<1> HIDE DEF label
<1>4. f \in Frame /\ f.request = Top(g).request /\ f.pc = label /\ f.waits = Top(g).waits
    BY <1>1, <1>2, ZenonT(60) DEF Frame, Results
<1> HIDE DEF f
<1>5. FrameStep(g, f)
    BY <1>1, <1>2, <1>3, <1>4, ZenonT(60) DEF FrameStep
<1> QED
    BY <1>1, <1>2, <1>4, <1>5, SameLock, MoveKeeps DEF Locking

\* An exchange that goes on with the channel it has.
LEMMA GotoKeeps ==
    ASSUME LockInv, NEW g \in Goroutines, Busy(g),
           Top(g).pc \in {"load", "query"}, NEW label \in {"query", "exchange"},
           Goto(g, label), cacheLock' = cacheLock
    PROVE  LockInv'
<1> DEFINE f == [Top(g) EXCEPT !.pc = label]
<1>1. Top(g) \in Frame /\ Top(g).waits = None
    BY TopFacts, NotWaiting, ZenonT(60) DEF LockInv
<1>2. Set(g, f)
    BY ZenonT(60) DEF Goto
<1>3. f \in Frame /\ f.request = Top(g).request /\ f.pc = label /\ f.waits = Top(g).waits
    BY <1>1, ZenonT(60) DEF Frame
<1> HIDE DEF f
<1>4. FrameStep(g, f)
    BY <1>1, <1>2, <1>3, ZenonT(60) DEF FrameStep
<1>5. cacheLock[Question(g)] = Me(g) => Top(g).pc \in Locking
    BY TopFacts DEF LockInv, HoldersLock, Holding, Top
<1>6. IF cacheLock[Question(g)] = Me(g) THEN f.pc \in Locking ELSE f.pc # "unlock"
    BY <1>3, <1>5, ZenonT(60) DEF Locking
<1> QED
    BY <1>1, <1>3, <1>4, <1>6, SameLock, MoveKeeps, ZenonT(60)

\* Where Exchange starts.
LEMMA EnteredDoes ==
    ASSUME NEW f \in Frame
    PROVE  /\ Entered(f) \in Frame
           /\ Entered(f).request = f.request /\ Entered(f).waits = f.waits
           /\ \/ /\ f.request.excluded
                 /\ Entered(f).pc = "return" /\ Entered(f).result = "fixed"
              \/ /\ ~f.request.excluded /\ Entered(f).result = f.result
                 /\ \/ Entered(f).pc = "lock" /\ f.request.caching = "full"
                    \/ Entered(f).pc = "query"
<1>1. CASE f.request.excluded
    <2>1. Entered(f) = [f EXCEPT !.pc = "return", !.result = "fixed"]
        BY <1>1, ZenonT(60) DEF Entered
    <2> QED
        BY <1>1, <2>1, ZenonT(60) DEF Frame
<1>2. CASE ~f.request.excluded /\ f.request.caching = "full"
    <2>1. Entered(f) = [f EXCEPT !.pc = "lock"]
        BY <1>2, ZenonT(60) DEF Entered
    <2> QED
        BY <1>2, <2>1, ZenonT(60) DEF Frame
<1>3. CASE ~f.request.excluded /\ f.request.caching # "full"
    <2>1. Entered(f) = [f EXCEPT !.pc = "query"]
        BY <1>3, ZenonT(60) DEF Entered
    <2> QED
        BY <1>3, <2>1, ZenonT(60) DEF Frame
<1> QED
    BY <1>1, <1>2, <1>3, ZenonT(60)

\* Lookup found nothing in the cache.
LEMMA EnterKeeps ==
    ASSUME LockInv, NEW g \in Goroutines, Busy(g), Top(g).pc = "peek",
           Set(g, Entered(Top(g))), cacheLock' = cacheLock
    PROVE  LockInv'
<1>1. Top(g) \in Frame /\ Top(g).waits = None
    BY TopFacts, NotWaiting, ZenonT(60) DEF LockInv
<1>2. PICK f : f = Entered(Top(g))
    BY ZenonT(60)
<1>3. /\ f \in Frame /\ f.request = Top(g).request /\ f.waits = None
      /\ f.pc \in {"return", "lock", "query"} /\ Set(g, f)
    BY <1>1, <1>2, EnteredDoes, ZenonT(60)
<1>4. FrameStep(g, f)
    BY <1>3, ZenonT(60) DEF FrameStep
<1>5. ASSUME cacheLock[Question(g)] = Me(g) PROVE FALSE
    <2>1. Me(g) # None /\ Me(g)[1] = g /\ Me(g)[2] = Len(stack[g]) /\ Question(g) \in Questions
        BY TopFacts, ZenonT(60) DEF LockInv
    <2>2. Holding(Me(g), Question(g))
        BY <1>5, <2>1, ZenonT(60) DEF LockInv, HoldersLock
    <2>3. Top(g).pc \in Locking
        BY <2>1, <2>2, ZenonT(60) DEF Holding, Top
    <2> QED
        BY <2>3, ZenonT(60) DEF Locking
<1> QED
    BY <1>3, <1>4, <1>5, SameLock, MoveKeeps, ZenonT(60)

\* LoadOrStore: the channel is stored, or there is one to wait on.
LEMMA LockKeeps == ASSUME LockInv, NEW g \in Goroutines, Lock(g) PROVE LockInv'
<1>1. Busy(g) /\ Top(g).pc = "lock"
    BY ZenonT(60) DEF Lock, At
<1>2. Top(g) \in Frame /\ Top(g).waits = None
    BY <1>1, TopFacts, NotWaiting, ZenonT(60) DEF LockInv
<1>3. CASE cacheLock[Question(g)] = None
    <2> DEFINE f == [Top(g) EXCEPT !.pc = "load"]
    <2>1. Set(g, f) /\ cacheLock' = [cacheLock EXCEPT ![Question(g)] = Me(g)]
        BY <1>3, ZenonT(60) DEF Lock, Goto
    <2>2. f \in Frame /\ f.request = Top(g).request /\ f.pc = "load" /\ f.waits = None
        BY <1>2, ZenonT(60) DEF Frame
    <2> HIDE DEF f
    <2>3. FrameStep(g, f)
        BY <1>1, <2>1, <2>2, ZenonT(60) DEF FrameStep
    <2> QED
        BY <1>1, <1>3, <2>1, <2>2, <2>3, MoveKeeps, ZenonT(60) DEF Locking
<1>4. CASE cacheLock[Question(g)] # None
    <2> DEFINE l == cacheLock[Question(g)]
               f == [Top(g) EXCEPT !.pc = "wait", !.waits = l]
    <2>1. Set(g, f) /\ cacheLock' = cacheLock
        BY <1>4, ZenonT(60) DEF Lock
    <2>2. l \in Exchange /\ l # None
        BY <1>1, <1>4, TopFacts, ZenonT(60) DEF LockInv, StackTypes
    <2>3. l # Me(g)
        <3> SUFFICES ASSUME l = Me(g) PROVE FALSE
            BY ZenonT(60)
        <3>1. Question(g) \in Questions /\ l[1] = g /\ l[2] = Len(stack[g])
            BY <1>1, TopFacts, ZenonT(60) DEF LockInv
        <3>2. Holding(l, Question(g))
            BY <2>2, <3>1, ZenonT(60) DEF LockInv, HoldersLock
        <3> HIDE DEF l
        <3>3. Top(g).pc \in Locking
            BY <3>1, <3>2, ZenonT(60) DEF Holding, Top
        <3> QED
            BY <1>1, <3>3, ZenonT(60) DEF Locking
    <2> HIDE DEF l
    <2>4. f \in Frame /\ f.request = Top(g).request /\ f.pc = "wait" /\ f.waits = l
        BY <1>2, <2>2, ZenonT(60) DEF Frame, Exchange
    <2> HIDE DEF f
    <2>5. FrameStep(g, f)
        BY <1>1, <2>1, <2>2, <2>4, ZenonT(60) DEF FrameStep
    <2> QED
        BY <1>1, <2>1, <2>3, <2>4, <2>5, SameLock, MoveKeeps, ZenonT(60) DEF l
<1> QED
    BY <1>3, <1>4, ZenonT(60)

\* The deferred function deletes the channel that the exchange stored.
LEMMA UnlockKeeps == ASSUME LockInv, NEW g \in Goroutines, Unlock(g) PROVE LockInv'
<1> DEFINE f == [Top(g) EXCEPT !.pc = "signal"]
<1>1. Busy(g) /\ Top(g).pc = "unlock" /\ cacheLock' = [cacheLock EXCEPT ![Question(g)] = None]
    BY ZenonT(60) DEF Unlock, At
<1>2. Top(g) \in Frame /\ Top(g).waits = None
    BY <1>1, TopFacts, NotWaiting, ZenonT(60) DEF LockInv
<1>3. cacheLock[Question(g)] = Me(g)
    BY <1>1, TopFacts, ZenonT(60) DEF LockInv, FramesInOrder, Top, Question, Me
<1>4. Set(g, f)
    BY ZenonT(60) DEF Unlock, Goto
<1>5. f \in Frame /\ f.request = Top(g).request /\ f.pc = "signal" /\ f.waits = None
    BY <1>2, ZenonT(60) DEF Frame
<1> HIDE DEF f
<1>6. FrameStep(g, f)
    BY <1>1, <1>4, <1>5, ZenonT(60) DEF FrameStep
<1> QED
    BY <1>1, <1>3, <1>5, <1>6, MoveKeeps, ZenonT(60)

-----------------------------------------------------------------------------
(* Closing the channel.                                                    *)

\* Those who wait on it wake up, and the exchange returns.
LEMMA SignalDoes ==
    ASSUME LockInv, NEW g \in Goroutines, Signal(g)
    PROVE  /\ Top(g).pc = "signal" /\ Busy(g) /\ cacheLock' = cacheLock
           /\ StackTypes' /\ \A h \in Goroutines : Len(stack'[h]) = Len(stack[h]) /\ Depths(h)' = Depths(h)
           /\ \A h \in Goroutines : \A i \in Depths(h) :
                 /\ stack'[h][i].request = stack[h][i].request
                 /\ stack'[h][i].result = stack[h][i].result
                 /\ \/ stack'[h][i] = stack[h][i] /\ <<h, i>> # Me(g) /\ stack[h][i].waits # Me(g)
                    \/ /\ <<h, i>> = Me(g) /\ stack'[h][i].pc = "return"
                       /\ stack'[h][i].waits = None
                    \/ /\ stack[h][i].waits = Me(g) /\ stack'[h][i].pc = "load"
                       /\ stack'[h][i].waits = None
<1>1. Busy(g) /\ Top(g).pc = "signal" /\ cacheLock' = cacheLock
    BY ZenonT(60) DEF Signal, At
<1>2. Top(g) \in Frame /\ Top(g).waits = None /\ Top(g) = stack[g][Len(stack[g])]
    BY <1>1, TopFacts, NotWaiting, ZenonT(60) DEF LockInv, Top
<1> DEFINE r == [Top(g) EXCEPT !.pc = "return"]
           s(h) == [i \in DOMAIN stack[h] |->
                       IF <<h, i>> = Me(g) THEN r ELSE Woken(h, i, Me(g))]
<1>3. stack' = [h \in Goroutines |-> s(h)]
    BY ZenonT(60) DEF Signal
<1>4. /\ r \in Frame /\ r.request = Top(g).request /\ r.result = Top(g).result
      /\ r.pc = "return" /\ r.waits = None
    BY <1>2, ZenonT(60) DEF Frame
<1> HIDE DEF r
<1>5. ASSUME NEW h \in Goroutines
      PROVE  /\ stack'[h] \in Seq(Frame) /\ Len(stack'[h]) = Len(stack[h])
             /\ \A i \in Depths(h) :
                   stack'[h][i] = IF <<h, i>> = Me(g) THEN r ELSE Woken(h, i, Me(g))
    <2>1. stack[h] \in Seq(Frame) /\ Len(stack[h]) \in Nat /\ DOMAIN stack[h] = Depths(h)
        BY DEF LockInv, StackTypes, Depths
    <2>2. stack'[h] = [i \in 1 .. Len(stack[h]) |->
                          IF <<h, i>> = Me(g) THEN r ELSE Woken(h, i, Me(g))]
        BY <1>3, <2>1, ZenonT(60) DEF Depths
    <2>3. \A i \in Depths(h) : Woken(h, i, Me(g)) \in Frame
        <3>1. SUFFICES ASSUME NEW i \in Depths(h) PROVE Woken(h, i, Me(g)) \in Frame
            OBVIOUS
        <3>2. stack[h][i] \in Frame
            BY FrameFacts, ZenonT(60) DEF LockInv
        <3> QED
            BY <3>2, ZenonT(60) DEF Woken, Frame
    <2>4. stack'[h] \in [1 .. Len(stack[h]) -> Frame]
        BY <1>4, <2>2, <2>3, ZenonT(60) DEF Depths
    <2>5. stack'[h] \in Seq(Frame) /\ Len(stack'[h]) = Len(stack[h])
        BY <2>1, <2>4
    <2> QED
        BY <2>2, <2>5, ZenonT(60) DEF Depths
<1>6. StackTypes' /\ \A h \in Goroutines : Len(stack'[h]) = Len(stack[h]) /\ Depths(h)' = Depths(h)
    <2>1. stack' \in [Goroutines -> Seq(Frame)]
        BY <1>3, <1>5, ZenonT(60)
    <2> QED
        BY <1>1, <1>5, <2>1, ZenonT(60) DEF LockInv, StackTypes, Depths
<1>7. ASSUME NEW h \in Goroutines, NEW i \in Depths(h)
      PROVE  /\ stack'[h][i].request = stack[h][i].request
             /\ stack'[h][i].result = stack[h][i].result
             /\ \/ stack'[h][i] = stack[h][i] /\ <<h, i>> # Me(g) /\ stack[h][i].waits # Me(g)
                \/ /\ <<h, i>> = Me(g) /\ stack'[h][i].pc = "return"
                   /\ stack'[h][i].waits = None
                \/ /\ stack[h][i].waits = Me(g) /\ stack'[h][i].pc = "load"
                   /\ stack'[h][i].waits = None
    <2>1. CASE <<h, i>> = Me(g)
        <3>1. stack'[h][i] = r /\ stack[h][i] = Top(g)
            BY <1>5, <2>1, ZenonT(60) DEF Me, Top
        <3> QED
            BY <1>4, <2>1, <3>1, ZenonT(60)
    <2>2. CASE <<h, i>> # Me(g)
        <3> DEFINE e == [stack[h][i] EXCEPT !.pc = "load", !.waits = None]
        <3>1. stack'[h][i] = IF stack[h][i].waits = Me(g) THEN e ELSE stack[h][i]
            BY <1>5, <2>2, ZenonT(60) DEF Woken
        <3>2. stack[h][i] \in Frame
            BY FrameFacts, ZenonT(60) DEF LockInv
        <3>3. /\ e.request = stack[h][i].request /\ e.result = stack[h][i].result
              /\ e.pc = "load" /\ e.waits = None
            BY <3>2, ZenonT(60) DEF Frame
        <3> HIDE DEF e
        <3> QED
            BY <2>2, <3>1, <3>3, ZenonT(60)
    <2> QED
        BY <2>1, <2>2, ZenonT(60)
<1> QED
    BY <1>1, <1>6, <1>7, ZenonT(60)

\* Nobody waits on the channel any more.
LEMMA SignalKeeps == ASSUME LockInv, NEW g \in Goroutines, Signal(g) PROVE LockInv'
<1>1. /\ Top(g).pc = "signal" /\ Busy(g) /\ cacheLock' = cacheLock
      /\ StackTypes' /\ \A h \in Goroutines : Len(stack'[h]) = Len(stack[h]) /\ Depths(h)' = Depths(h)
      /\ \A h \in Goroutines : \A i \in Depths(h) :
            /\ stack'[h][i].request = stack[h][i].request
            /\ \/ stack'[h][i] = stack[h][i] /\ <<h, i>> # Me(g) /\ stack[h][i].waits # Me(g)
               \/ /\ <<h, i>> = Me(g) /\ stack'[h][i].pc = "return"
                  /\ stack'[h][i].waits = None
               \/ /\ stack[h][i].waits = Me(g) /\ stack'[h][i].pc = "load"
                  /\ stack'[h][i].waits = None
    BY SignalDoes, ZenonT(60)
<1>2. /\ Me(g) # None /\ Me(g) = <<g, Len(stack[g])>> /\ Top(g) = stack[g][Len(stack[g])]
      /\ Len(stack[g]) \in Nat
    BY <1>1, TopFacts DEF LockInv, Me, Top
<1>3. ASSUME NEW h \in Goroutines, NEW i \in Depths(h), stack[h][i].pc \notin {"wait", "signal"}
      PROVE  stack'[h][i] = stack[h][i]
    <2>1. stack[h][i].waits = None
        BY <1>3, ZenonT(60) DEF LockInv, FramesInOrder
    <2>2. <<h, i>> # Me(g)
        BY <1>1, <1>2, <1>3
    <2> QED
        BY <1>1, <1>2, <2>1, <2>2, ZenonT(60)
<1>4. HoldersLock'
    <2>1. SUFFICES ASSUME NEW q \in Questions, NEW w, w = cacheLock[q], w # None
                   PROVE  Holding(w, q)'
        BY <1>1, ZenonT(60) DEF HoldersLock
    <2>2. w \in Exchange /\ Holding(w, q)
        BY <2>1, ZenonT(60) DEF LockInv, StackTypes, HoldersLock
    <2>3. w[1] \in Goroutines /\ w[2] \in Depths(w[1]) /\ stack[w[1]][w[2]].pc \notin {"wait", "signal"}
        BY <2>2, ZenonT(60) DEF Exchange, Holding, Locking
    <2>4. stack'[w[1]][w[2]] = stack[w[1]][w[2]]
        BY <1>3, <2>3, ZenonT(60)
    <2> QED
        BY <1>1, <2>2, <2>3, <2>4, ZenonT(60) DEF Holding
<1>5. FramesInOrder'
    <2>0. /\ cacheLock' = cacheLock
          /\ \A h \in Goroutines : Len(stack'[h]) = Len(stack[h]) /\ Depths(h)' = Depths(h)
        BY <1>1, ZenonT(60)
    <2>1. SUFFICES ASSUME NEW h \in Goroutines, NEW i \in Depths(h)
                   PROVE  /\ i < Len(stack[h]) => stack'[h][i].pc = "dialing"
                          /\ stack'[h][i].pc = "wait" <=> stack'[h][i].waits # None
                          /\ stack'[h][i].pc = "unlock" =>
                                cacheLock[stack'[h][i].request.question] = <<h, i>>
        BY <2>0, ZenonT(60) DEF FramesInOrder
    <2>2. FramesInOrder!(h)!(i)
        BY ZenonT(60) DEF LockInv, FramesInOrder
    <2>3. CASE stack'[h][i] = stack[h][i]
        BY <2>2, <2>3, ZenonT(60)
    <2>4. CASE <<h, i>> = Me(g) /\ stack'[h][i].pc = "return" /\ stack'[h][i].waits = None
        BY <1>2, <2>4
    <2>5. CASE stack[h][i].waits = Me(g) /\ stack'[h][i].pc = "load" /\ stack'[h][i].waits = None
        BY <1>2, <2>2, <2>5, ZenonT(60)
    <2> QED
        BY <1>1, <2>3, <2>4, <2>5, ZenonT(60)
<1>6. Waiting'
    <2>1. SUFFICES ASSUME NEW h \in Goroutines, NEW i \in Depths(h), stack'[h][i].pc = "wait",
                          NEW w, w = stack'[h][i].waits,
                          NEW q, q = stack'[h][i].request.question
                   PROVE  WaitsOn(w, q)'
        BY <1>1, ZenonT(60) DEF Waiting
    <2>2. stack'[h][i] = stack[h][i] /\ w # Me(g)
        BY <1>1, <2>1, ZenonT(60)
    <2>3. w = stack[h][i].waits /\ q = stack[h][i].request.question
        BY <2>1, <2>2, ZenonT(60)
    <2>4. WaitsOn(w, q) /\ w # None /\ w \in Exchange
        BY <2>1, <2>2, <2>3, FrameFacts, ZenonT(60) DEF LockInv, Waiting, FramesInOrder
    <2>5. w[1] \in Goroutines /\ w[2] \in Depths(w[1]) /\ w = <<w[1], w[2]>>
        BY <2>4 DEF Exchange, WaitsOn
    <2>6. ASSUME stack[w[1]][w[2]].pc = "signal" PROVE stack'[w[1]][w[2]] = stack[w[1]][w[2]]
        <3>1. stack[w[1]][w[2]].waits = None
            BY <2>5, <2>6, ZenonT(60) DEF LockInv, FramesInOrder
        <3> QED
            BY <1>1, <1>2, <2>2, <2>5, <3>1, ZenonT(60)
    <2> QED
        BY <1>1, <2>4, <2>5, <2>6, ZenonT(60) DEF WaitsOn
<1> QED
    BY <1>1, <1>4, <1>5, <1>6, ZenonT(60) DEF LockInv

-----------------------------------------------------------------------------
(* The steps that begin and end an exchange.                               *)

\* The stack of g grows or shrinks: a frame that goes has nothing to do, one
\* that comes has done nothing, one that changes had no channel to wait on.
Reshaped(g) ==
    /\ StackTypes' /\ cacheLock' = cacheLock
    /\ \A h \in Goroutines \ {g} : stack'[h] = stack[h]
    /\ \A i \in Depths(g) \ 1 .. Len(stack'[g]) : stack[g][i].pc = "return"
    /\ \A i \in 1 .. Len(stack'[g]) :
          /\ i < Len(stack'[g]) => stack'[g][i].pc = "dialing"
          /\ \/ i \in Depths(g) /\ stack'[g][i] = stack[g][i]
             \/ /\ i \in Depths(g) /\ stack'[g][i].request = stack[g][i].request
                /\ stack[g][i].pc \in Locking /\ stack'[g][i].waits = None
                /\ IF cacheLock[stack[g][i].request.question] = <<g, i>>
                   THEN stack'[g][i].pc \in Locking
                   ELSE stack'[g][i].pc \notin {"wait", "unlock"}
             \/ /\ i \notin Depths(g) /\ stack'[g][i].waits = None
                /\ stack'[g][i].pc \in {"peek", "lock", "query", "return"}

\* No channel is lost with it.
LEMMA ReshapedKeeps == ASSUME LockInv, NEW g \in Goroutines, Reshaped(g) PROVE LockInv'
<1>1. \A h \in Goroutines : Depths(h)' = 1 .. Len(stack'[h])
    BY ZenonT(60) DEF Depths
<1>2. \A h \in Goroutines \ {g} : stack'[h] = stack[h] /\ Depths(h)' = Depths(h)
    BY ZenonT(60) DEF Depths, Reshaped
<1>3. HoldersLock'
    <2>1. SUFFICES ASSUME NEW q \in Questions, NEW w, w = cacheLock[q], w # None
                   PROVE  Holding(w, q)'
        BY ZenonT(60) DEF HoldersLock, Reshaped
    <2>2. w \in Exchange /\ Holding(w, q)
        BY <2>1, ZenonT(60) DEF LockInv, StackTypes, HoldersLock
    <2>3. w[1] \in Goroutines /\ w = <<w[1], w[2]>>
        BY <2>2 DEF Exchange
    <2>4. CASE w[1] # g
        BY <1>2, <2>2, <2>3, <2>4, ZenonT(60) DEF Holding
    <2>5. CASE w[1] = g
        <3> DEFINE i == w[2]
        <3>1. /\ i \in Depths(g) /\ stack[g][i].pc \in Locking
              /\ stack[g][i].request.question = q /\ w = <<g, i>>
            BY <2>2, <2>3, <2>5, ZenonT(60) DEF Holding
        <3>2. i \in 1 .. Len(stack'[g])
            BY <3>1, ZenonT(60) DEF Reshaped, Locking
        <3>3. stack'[g][i].request.question = q /\ stack'[g][i].pc \in Locking
            <4>1. \/ stack'[g][i] = stack[g][i]
                  \/ /\ stack'[g][i].request = stack[g][i].request
                     /\ cacheLock[stack[g][i].request.question] = <<g, i>> => stack'[g][i].pc \in Locking
                BY <3>1, <3>2, ZenonT(60) DEF Reshaped
            <4>2. cacheLock[stack[g][i].request.question] = <<g, i>>
                BY <2>1, <3>1, ZenonT(60)
            <4> QED
                BY <3>1, <4>1, <4>2, ZenonT(60)
        <3> QED
            BY <1>1, <2>5, <3>2, <3>3, ZenonT(60) DEF Holding
    <2> QED
        BY <2>4, <2>5, ZenonT(60)
<1>4. FramesInOrder'
    <2>0. cacheLock' = cacheLock
        BY DEF Reshaped
    <2>1. SUFFICES ASSUME NEW h \in Goroutines, NEW i \in 1 .. Len(stack'[h])
                   PROVE  /\ i < Len(stack'[h]) => stack'[h][i].pc = "dialing"
                          /\ stack'[h][i].pc = "wait" <=> stack'[h][i].waits # None
                          /\ stack'[h][i].pc = "unlock" =>
                                cacheLock[stack'[h][i].request.question] = <<h, i>>
        BY <2>0, ZenonT(60) DEF FramesInOrder, Depths
    <2>2. CASE h # g
        <3>1. stack'[h] = stack[h] /\ i \in Depths(h)
            BY <1>1, <1>2, <2>2, ZenonT(60)
        <3>2. FramesInOrder!(h)!(i)
            BY <3>1, ZenonT(60) DEF LockInv, FramesInOrder
        <3> QED
            BY <3>1, <3>2, ZenonT(60)
    <2>3. CASE h = g
        <3>1. i < Len(stack'[g]) => stack'[g][i].pc = "dialing"
            BY <2>3, ZenonT(60) DEF Reshaped
        <3>2. CASE i \in Depths(g) /\ stack'[g][i] = stack[g][i]
            BY <2>3, <3>1, <3>2, ZenonT(60) DEF LockInv, FramesInOrder
        <3>3. CASE /\ i \in Depths(g) /\ stack'[g][i].request = stack[g][i].request
                   /\ stack[g][i].pc \in Locking /\ stack'[g][i].waits = None
                   /\ IF cacheLock[stack[g][i].request.question] = <<g, i>>
                      THEN stack'[g][i].pc \in Locking
                      ELSE stack'[g][i].pc \notin {"wait", "unlock"}
            BY <2>3, <3>1, <3>3, ZenonT(60) DEF Locking
        <3>4. CASE /\ i \notin Depths(g) /\ stack'[g][i].waits = None
                   /\ stack'[g][i].pc \in {"peek", "lock", "query", "return"}
            BY <2>3, <3>1, <3>4, ZenonT(60)
        <3> QED
            BY <2>3, <3>2, <3>3, <3>4, ZenonT(60) DEF Reshaped
    <2> QED
        BY <2>2, <2>3, ZenonT(60)
<1>5. Waiting'
    <2>1. SUFFICES ASSUME NEW h \in Goroutines, NEW i \in 1 .. Len(stack'[h]),
                          stack'[h][i].pc = "wait",
                          NEW w, w = stack'[h][i].waits,
                          NEW q, q = stack'[h][i].request.question
                   PROVE  WaitsOn(w, q)'
        BY <1>1, ZenonT(60) DEF Waiting
    <2>2. stack'[h][i] = stack[h][i] /\ i \in Depths(h)
        <3>1. CASE h # g
            BY <1>1, <1>2, <3>1, ZenonT(60)
        <3>2. CASE h = g
            BY <2>1, <3>2, ZenonT(60) DEF Reshaped, Locking
        <3> QED
            BY <3>1, <3>2, ZenonT(60)
    <2>3. w = stack[h][i].waits /\ q = stack[h][i].request.question
        BY <2>1, <2>2, ZenonT(60)
    <2>4. WaitsOn(w, q) /\ w # None /\ w \in Exchange /\ q \in Questions
        BY <2>1, <2>2, <2>3, FrameFacts, ZenonT(60) DEF LockInv, Waiting, FramesInOrder
    <2>5. w[1] \in Goroutines /\ w[2] \in Depths(w[1]) /\ w = <<w[1], w[2]>>
        BY <2>4 DEF Exchange, WaitsOn
    <2>6. CASE cacheLock[q] = w
        <3>1. Holding(w, q)'
            BY <1>3, <2>4, <2>6, ZenonT(60) DEF HoldersLock, Reshaped
        <3> QED
            BY <2>6, <3>1, ZenonT(60) DEF Holding, WaitsOn, Reshaped
    <2>7. CASE stack[w[1]][w[2]].pc = "signal"
        <3>1. CASE w[1] # g
            BY <1>2, <2>4, <2>5, <2>7, <3>1, ZenonT(60) DEF WaitsOn
        <3>2. CASE w[1] = g
            <4>1. w[2] \in 1 .. Len(stack'[g])
                BY <2>5, <2>7, <3>2, ZenonT(60) DEF Reshaped
            <4>2. stack'[g][w[2]] = stack[g][w[2]]
                BY <2>5, <2>7, <3>2, <4>1, ZenonT(60) DEF Reshaped, Locking
            <4> QED
                BY <1>1, <2>4, <2>7, <3>2, <4>1, <4>2, ZenonT(60) DEF WaitsOn
        <3> QED
            BY <3>1, <3>2, ZenonT(60)
    <2> QED
        BY <2>4, <2>6, <2>7, ZenonT(60) DEF WaitsOn
<1> QED
    BY <1>3, <1>4, <1>5, ZenonT(60) DEF LockInv, Reshaped

\* An exchange that begins.
Fresh(f) ==
    /\ f \in Frame /\ f.waits = None /\ f.result \in {None, "fixed"}
    /\ f.pc \in {"peek", "lock", "query", "return"}
    /\ f.request.excluded => f.pc \in {"peek", "return"}
    /\ f.pc = "peek" => f.request.caching # "none"
    /\ f.pc = "lock" => f.request.caching = "full"

\* Exchange and Lookup begin one.
LEMMA StartsFresh ==
    ASSUME NEW request \in Request
    PROVE  \A f \in {Exchanging(request), LookingUp(request)} : Fresh(f) /\ f.request = request
<1>1. PICK e : e = NewFrame(request)
    BY ZenonT(60)
<1>2. e \in Frame /\ e.waits = None /\ e.request = request /\ e.pc = "peek" /\ e.result = None
    BY <1>1, ZenonT(60) DEF NewFrame, Frame
<1>3. Fresh(Entered(e)) /\ Entered(e).request = request
    BY <1>2, EnteredDoes, ZenonT(60) DEF Fresh
<1>4. request.caching # "none" => Fresh(e)
    BY <1>2, ZenonT(60) DEF Fresh
<1>5. Exchanging(request) = Entered(e) /\ LookingUp(request) = IF request.caching = "none" THEN Entered(e) ELSE e
    BY <1>1, ZenonT(60) DEF Exchanging, LookingUp
<1> QED
    BY <1>2, <1>3, <1>4, <1>5, ZenonT(60)

\* A call from outside.
LEMMA CallKeeps ==
    ASSUME LockInv, NEW g \in Goroutines, Call(g)
    PROVE  /\ LockInv' /\ Len(stack'[g]) = 1 /\ stack'[g][1].request \in Requests
           /\ Fresh(stack'[g][1]) /\ \A h \in Goroutines \ {g} : stack'[h] = stack[h]
<1>1. PICK request \in Requests : \E f \in {Exchanging(request), LookingUp(request)} :
          stack' = [stack EXCEPT ![g] = <<f>>]
    BY ZenonT(60) DEF Call
<1>0. PICK f \in {Exchanging(request), LookingUp(request)} : stack' = [stack EXCEPT ![g] = <<f>>]
    BY <1>1, ZenonT(60)
<1>2. Fresh(f) /\ f \in Frame /\ f.waits = None /\ f.request = request
    <2>1. request \in Request
        BY ConstantsAssumption, ZenonT(60)
    <2>2. Fresh(f) /\ f.request = request
        BY <2>1, StartsFresh, ZenonT(60)
    <2> QED
        BY <2>2, ZenonT(60) DEF Fresh
<1>3. <<f>> \in Seq(Frame) /\ Len(<<f>>) = 1 /\ <<f>>[1] = f
    BY <1>2
<1>4. stack'[g] = <<f>> /\ \A h \in Goroutines \ {g} : stack'[h] = stack[h]
    BY <1>0, ZenonT(60) DEF LockInv, StackTypes
<1>5. StackTypes'
    <2>1. stack' \in [Goroutines -> Seq(Frame)]
        BY <1>0, <1>3, ZenonT(60) DEF LockInv, StackTypes
    <2>2. Len(stack'[g]) \in 0 .. MaxDepth
        BY <1>3, <1>4, ConstantsAssumption
    <2>3. \A h \in Goroutines \ {g} : Len(stack'[h]) \in 0 .. MaxDepth
        BY <1>4, ZenonT(60) DEF LockInv, StackTypes
    <2> QED
        BY <2>1, <2>2, <2>3, ZenonT(60) DEF LockInv, StackTypes, Call
<1>6. Depths(g) = {}
    BY DEF Call, Busy, Depths
<1>7. \A i \in 1 .. Len(stack'[g]) : i = 1 /\ stack'[g][i] = f
    BY <1>3, <1>4
<1>8. cacheLock' = cacheLock /\ Len(stack'[g]) = 1
    BY <1>3, <1>4, ZenonT(60) DEF Call
<1>9. Reshaped(g)
    BY <1>2, <1>4, <1>5, <1>6, <1>7, <1>8 DEF Reshaped, Fresh
<1> QED
    BY <1>2, <1>4, <1>7, <1>8, <1>9, ReshapedKeeps

\* Dialling the transport needs a lookup: a nested exchange.
LEMMA DialDoes ==
    ASSUME LockInv, NEW g \in Goroutines, Dial(g)
    PROVE  /\ LockInv' /\ \A h \in Goroutines \ {g} : stack'[h] = stack[h]
           /\ Len(stack'[g]) = Len(stack[g]) + 1
           /\ \A i \in Depths(g) :
                 /\ stack'[g][i].request = stack[g][i].request
                 /\ stack'[g][i].result = stack[g][i].result
                 /\ \/ stack'[g][i] = stack[g][i]
                    \/ stack[g][i].pc = "exchange" /\ stack'[g][i].pc = "dialing"
           /\ Fresh(stack'[g][Len(stack[g]) + 1])
           /\ Top(g).request.transport \in Transports /\ Resolver[Top(g).request.transport] # None
           /\ stack'[g][Len(stack[g]) + 1].request = Resolver[Top(g).request.transport]
<1> DEFINE n == Len(stack[g])
           t == Top(g).request.transport
           f == LookingUp(Resolver[t])
           d == [Top(g) EXCEPT !.pc = "dialing"]
           s == [stack[g] EXCEPT ![n] = d]
<1>1. Busy(g) /\ Top(g).pc = "exchange" /\ Resolver[t] # None /\ n < MaxDepth /\ cacheLock' = cacheLock
    BY ZenonT(60) DEF Dial, At
<1>2. /\ Top(g) \in Frame /\ Top(g).waits = None /\ Top(g) = stack[g][n] /\ n \in 1 .. n
      /\ n \in Nat /\ stack[g] \in Seq(Frame)
    BY <1>1, TopFacts, NotWaiting DEF LockInv, StackTypes, Top, Depths
<1>3. t \in Transports /\ Resolver[t] \in Request
    <2>1. Top(g).request \in Request
        BY <1>2, ZenonT(60) DEF Frame
    <2>2. t \in Transports
        BY <2>1, ZenonT(60) DEF Request
    <2>3. Resolver \in [Transports -> Request \cup {None}]
        BY ConstantsAssumption, ZenonT(60)
    <2> HIDE DEF t
    <2> QED
        BY <1>1, <2>2, <2>3, ZenonT(60)
<1>4. stack' = [stack EXCEPT ![g] = Append(s, f)]
    BY ZenonT(60) DEF Dial, Top
<1>5. /\ Fresh(f) /\ f \in Frame /\ f.waits = None
      /\ f.pc \in {"peek", "lock", "query", "return"} /\ f.request = Resolver[t]
    <2>1. \A e \in {Exchanging(Resolver[t]), LookingUp(Resolver[t])} : Fresh(e) /\ e.request = Resolver[t]
        BY <1>3, StartsFresh, ZenonT(60)
    <2>2. Fresh(f) /\ f.request = Resolver[t]
        BY <2>1, ZenonT(60)
    <2> HIDE DEF f, t
    <2> QED
        BY <2>2, ZenonT(60) DEF Fresh
<1>6. /\ d \in Frame /\ d.waits = None /\ d.pc = "dialing"
      /\ d.request = Top(g).request /\ d.result = Top(g).result
    BY <1>2, ZenonT(60) DEF Frame
<1> HIDE DEF f, d
<1>7. s \in Seq(Frame) /\ Len(s) = n /\ s[n] = d /\ \A i \in 1 .. n : i # n => s[i] = stack[g][i]
    BY <1>2, <1>6
<1> HIDE DEF s
<1>8. /\ Append(s, f) \in Seq(Frame) /\ Len(Append(s, f)) = n + 1 /\ Append(s, f)[n + 1] = f
      /\ \A i \in 1 .. n : Append(s, f)[i] = s[i]
    BY <1>2, <1>5, <1>7
<1>9. stack'[g] = Append(s, f) /\ \A h \in Goroutines \ {g} : stack'[h] = stack[h]
    BY <1>4, ZenonT(60) DEF LockInv, StackTypes
<1>10. /\ Len(stack'[g]) = n + 1 /\ stack'[g][n + 1] = f /\ stack'[g][n] = d
       /\ \A i \in 1 .. n : i # n => stack'[g][i] = stack[g][i]
    BY <1>2, <1>7, <1>8, <1>9, ZenonT(60)
<1>11. StackTypes'
    <2>1. stack' \in [Goroutines -> Seq(Frame)]
        BY <1>4, <1>8, ZenonT(60) DEF LockInv, StackTypes
    <2>2. Len(stack'[g]) \in 0 .. MaxDepth
        BY <1>1, <1>2, <1>10, ConstantsAssumption
    <2>3. \A h \in Goroutines \ {g} : Len(stack'[h]) \in 0 .. MaxDepth
        BY <1>9, ZenonT(60) DEF LockInv, StackTypes
    <2> QED
        BY <1>1, <2>1, <2>2, <2>3, ZenonT(60) DEF LockInv, StackTypes
<1>12. Reshaped(g)
    <2>1. ASSUME NEW i \in 1 .. n + 1
          PROVE  /\ i < n + 1 => stack'[g][i].pc = "dialing"
                 /\ \/ i \in Depths(g) /\ stack'[g][i] = stack[g][i]
                    \/ /\ i \in Depths(g) /\ stack'[g][i].request = stack[g][i].request
                       /\ stack[g][i].pc \in Locking /\ stack'[g][i].waits = None
                       /\ IF cacheLock[stack[g][i].request.question] = <<g, i>>
                          THEN stack'[g][i].pc \in Locking
                          ELSE stack'[g][i].pc \notin {"wait", "unlock"}
                    \/ /\ i \notin Depths(g) /\ stack'[g][i].waits = None
                       /\ stack'[g][i].pc \in {"peek", "lock", "query", "return"}
        <3>1. CASE i = n + 1
            <4>1. i \notin Depths(g) /\ ~(i < n + 1)
                BY <1>2, <3>1 DEF Depths
            <4> QED
                BY <1>5, <1>10, <3>1, <4>1, ZenonT(60)
        <3>2. CASE i = n
            BY <1>1, <1>2, <1>6, <1>10, <3>2, ZenonT(60) DEF Depths, Locking
        <3>3. CASE i \in Depths(g) /\ i # n
            <4>1. i < Len(stack[g]) /\ stack'[g][i] = stack[g][i]
                BY <1>2, <1>10, <3>3 DEF Depths
            <4> QED
                BY <3>3, <4>1, ZenonT(60) DEF LockInv, FramesInOrder
        <3>4. i \in Depths(g) \/ i = n + 1
            BY <1>2, <2>1 DEF Depths
        <3> QED
            BY <3>1, <3>2, <3>3, <3>4, ZenonT(60)
    <2>2. Depths(g) \ 1 .. n + 1 = {}
        BY <1>2 DEF Depths
    <2> QED
        BY <1>1, <1>9, <1>10, <1>11, <2>1, <2>2, ZenonT(60) DEF Reshaped
<1>13. t = Top(g).request.transport
    OBVIOUS
<1> HIDE DEF t
<1>14. \A i \in Depths(g) :
          /\ stack'[g][i].request = stack[g][i].request
          /\ stack'[g][i].result = stack[g][i].result
          /\ \/ stack'[g][i] = stack[g][i]
             \/ stack[g][i].pc = "exchange" /\ stack'[g][i].pc = "dialing"
    BY <1>1, <1>2, <1>6, <1>10, ZenonT(60) DEF Depths
<1> QED
    BY <1>1, <1>3, <1>5, <1>9, <1>10, <1>12, <1>13, <1>14, ReshapedKeeps, ZenonT(60)

\* A nested exchange returns to the transport that needed it, the outermost one
\* to its caller.
LEMMA ReturnDoes ==
    ASSUME LockInv, NEW g \in Goroutines, Return(g)
    PROVE  /\ LockInv' /\ \A h \in Goroutines \ {g} : stack'[h] = stack[h]
           /\ Len(stack'[g]) = Len(stack[g]) - 1
           /\ \A i \in 1 .. Len(stack'[g]) :
                 /\ i \in Depths(g) /\ stack'[g][i].request = stack[g][i].request
                 /\ stack'[g][i].result \in {stack[g][i].result, "error"}
                 /\ \/ stack'[g][i] = stack[g][i]
                    \/ /\ stack[g][i].pc = "dialing"
                       /\ stack'[g][i].pc \in {"send", "unlock", "return"}
<1> DEFINE n == Len(stack[g])
           outer == stack[g][n - 1]
           label == Deferred(<<g, n - 1>>, outer)
           sending == [outer EXCEPT !.pc = "send"]
           failed == [outer EXCEPT !.result = "error", !.pc = label]
           f == IF Top(g).result \in Answers \ Bare THEN sending ELSE failed
           s == IF n = 1 THEN << >> ELSE Append(SubSeq(stack[g], 1, n - 2), f)
<1>1. Busy(g) /\ Top(g).pc = "return" /\ cacheLock' = cacheLock
    BY ZenonT(60) DEF Return, At
<1>2. Top(g) = stack[g][n] /\ n \in 1 .. MaxDepth /\ n \in Nat /\ n >= 1 /\ stack[g] \in Seq(Frame)
    BY <1>1, TopFacts, ConstantsAssumption DEF LockInv, StackTypes, Top, Depths
<1>3. stack' = [stack EXCEPT ![g] = s]
    BY ZenonT(60) DEF Return
<1>4. ASSUME n # 1
      PROVE  /\ n - 1 \in Depths(g) /\ outer \in Frame /\ outer.pc = "dialing" /\ outer.waits = None
    <2>1. n - 1 \in 1 .. n /\ n - 1 < n
        <3>1. n \in Nat /\ n >= 1 /\ n # 1
            BY <1>2, <1>4, ZenonT(60)
        <3> HIDE DEF n
        <3> QED
            BY <3>1
    <2>2. n - 1 \in Depths(g)
        BY <2>1, ZenonT(60) DEF Depths
    <2> QED
        BY <2>1, <2>2, FrameFacts, ZenonT(60) DEF LockInv, FramesInOrder
<1>5. label = IF cacheLock[outer.request.question] = <<g, n - 1>> THEN "unlock" ELSE "return"
    BY ZenonT(60) DEF Deferred
<1> HIDE DEF label
<1>6. ASSUME n # 1
      PROVE  /\ f \in Frame /\ f.request = outer.request /\ f.waits = None
             /\ f.result \in {outer.result, "error"} /\ f.pc \in {"send", label}
    <2>1. /\ sending \in Frame /\ sending.request = outer.request /\ sending.waits = None
          /\ sending.result = outer.result /\ sending.pc = "send"
        BY <1>4, <1>6, ZenonT(60) DEF Frame
    <2>2. /\ failed \in Frame /\ failed.request = outer.request /\ failed.waits = None
          /\ failed.result = "error" /\ failed.pc = label
        BY <1>4, <1>5, <1>6, ZenonT(60) DEF Frame
    <2> HIDE DEF sending, failed
    <2> QED
        BY <2>1, <2>2, ZenonT(60)
<1> HIDE DEF f, sending, failed
<1>7. /\ s \in Seq(Frame) /\ Len(s) = n - 1
      /\ n # 1 => s[n - 1] = f /\ \A i \in 1 .. n - 2 : s[i] = stack[g][i]
    <2>1. CASE n = 1
        BY <2>1
    <2>2. CASE n # 1
        <3> DEFINE u == SubSeq(stack[g], 1, n - 2)
        <3>1. /\ u \in Seq(Frame) /\ Len(u) = n - 2
              /\ \A i \in 1 .. n - 2 : u[i] = stack[g][i]
            <4>1. n \in Nat /\ n >= 1 /\ n # 1
                BY <1>2, <2>2
            <4>2. n - 2 \in Nat /\ 1 \in 1 .. n /\ n - 2 \in 0 .. n
                <5> HIDE DEF n
                <5> QED
                    BY <4>1
            <4>3. stack[g] \in Seq(Frame)
                BY <1>2, ZenonT(60)
            <4> QED
                BY <4>1, <4>2, <4>3
        <3> HIDE DEF u
        <3>2. s = Append(u, f)
            BY <2>2, ZenonT(60) DEF u
        <3> HIDE DEF s
        <3>3. n \in Nat /\ n >= 1 /\ f \in Frame
            BY <1>2, <1>6, <2>2, ZenonT(60)
        <3> HIDE DEF n
        <3>4. n - 2 \in Nat /\ n - 1 = (n - 2) + 1
            BY <2>2, <3>3
        <3>5. Append(u, f) \in Seq(Frame) /\ Len(Append(u, f)) = (n - 2) + 1
            BY <3>1, <3>3, <3>4
        <3>6. /\ Append(u, f)[(n - 2) + 1] = f
              /\ \A i \in 1 .. n - 2 : Append(u, f)[i] = stack[g][i]
            BY <3>1, <3>3, <3>4
        <3> QED
            BY <2>2, <3>2, <3>4, <3>5, <3>6, ZenonT(60)
    <2> QED
        BY <2>1, <2>2, ZenonT(60)
<1> HIDE DEF s
<1>8. stack'[g] = s /\ \A h \in Goroutines \ {g} : stack'[h] = stack[h]
    BY <1>3, ZenonT(60) DEF LockInv, StackTypes
<1>9. StackTypes'
    <2>1. stack' \in [Goroutines -> Seq(Frame)]
        BY <1>3, <1>7, ZenonT(60) DEF LockInv, StackTypes
    <2>2. Len(stack'[g]) \in 0 .. MaxDepth
        BY <1>2, <1>7, <1>8, ConstantsAssumption
    <2>3. \A h \in Goroutines \ {g} : Len(stack'[h]) \in 0 .. MaxDepth
        BY <1>8, ZenonT(60) DEF LockInv, StackTypes
    <2> QED
        BY <1>1, <2>1, <2>2, <2>3, ZenonT(60) DEF LockInv, StackTypes
<1> HIDE DEF outer
<1>10. ASSUME NEW i \in 1 .. n - 1
       PROVE  /\ i \in Depths(g) /\ n # 1
              /\ i = n - 1 => stack'[g][i] = f /\ stack[g][i] = outer
              /\ i # n - 1 => i < n - 1 /\ i < n /\ stack'[g][i] = stack[g][i]
    <2>1. n \in Nat /\ n >= 1
        BY <1>2, ZenonT(60)
    <2>2. /\ i \in 1 .. n /\ n # 1 /\ i < n
          /\ i # n - 1 => i < n - 1 /\ i \in 1 .. n - 2
        <3> HIDE DEF n
        <3> QED
            BY <1>10, <2>1
    <2> QED
        BY <1>7, <1>8, <2>2, ZenonT(60) DEF Depths, outer
<1>11. Reshaped(g)
    <2>1. ASSUME NEW i \in 1 .. n - 1
          PROVE  /\ i < n - 1 => stack'[g][i].pc = "dialing"
                 /\ \/ i \in Depths(g) /\ stack'[g][i] = stack[g][i]
                    \/ /\ i \in Depths(g) /\ stack'[g][i].request = stack[g][i].request
                       /\ stack[g][i].pc \in Locking /\ stack'[g][i].waits = None
                       /\ IF cacheLock[stack[g][i].request.question] = <<g, i>>
                          THEN stack'[g][i].pc \in Locking
                          ELSE stack'[g][i].pc \notin {"wait", "unlock"}
        <3>1. CASE i = n - 1
            <4>1. stack'[g][i] = f /\ stack[g][i] = outer /\ n # 1 /\ ~(i < n - 1) /\ i \in Depths(g)
                BY <1>2, <1>10, <3>1
            <4>2. /\ f.request = outer.request /\ f.waits = None /\ f.pc \in {"send", label}
                  /\ outer.pc = "dialing"
                BY <1>4, <1>6, <4>1, ZenonT(60)
            <4>3. IF cacheLock[outer.request.question] = <<g, i>>
                  THEN f.pc \in Locking ELSE f.pc \notin {"wait", "unlock"}
                BY <1>5, <3>1, <4>2, ZenonT(60) DEF Locking
            <4> QED
                BY <4>1, <4>2, <4>3, ZenonT(60) DEF Locking
        <3>2. CASE i # n - 1
            <4>1. i \in Depths(g) /\ i < n /\ stack'[g][i] = stack[g][i]
                BY <1>10, <3>2, ZenonT(60)
            <4>2. stack[g][i].pc = "dialing"
                BY <4>1, ZenonT(60) DEF LockInv, FramesInOrder
            <4> QED
                BY <4>1, <4>2, ZenonT(60)
        <3> QED
            BY <3>1, <3>2, ZenonT(60)
    <2>2. \A i \in Depths(g) \ 1 .. n - 1 : i = n
        BY <1>2, SMTT(30) DEF Depths
    <2> QED
        BY <1>1, <1>2, <1>7, <1>8, <1>9, <2>1, <2>2, ZenonT(60) DEF Reshaped
<1>12. \A i \in 1 .. n - 1 : /\ i \in Depths(g) /\ stack'[g][i].request = stack[g][i].request
                             /\ stack'[g][i].result \in {stack[g][i].result, "error"}
                             /\ \/ stack'[g][i] = stack[g][i]
                                \/ /\ stack[g][i].pc = "dialing"
                                   /\ stack'[g][i].pc \in {"send", "unlock", "return"}
    <2>1. label \in {"unlock", "return"}
        BY <1>5, ZenonT(60)
    <2> QED
        BY <1>4, <1>6, <1>10, <2>1, ZenonT(60)
<1> QED
    BY <1>7, <1>8, <1>11, <1>12, ReshapedKeeps, ZenonT(60)

-----------------------------------------------------------------------------
(* Nobody waits in vain.                                                   *)

\* The response under the key of the innermost exchange.
LEMMA TopCached ==
    ASSUME StackTypes, CacheTyped, NEW g \in Goroutines, Busy(g)
    PROVE  /\ Top(g).request.transport \in Transports /\ Question(g) \in Questions
           /\ TopKey(g) = Key(Top(g).request.transport, Question(g)) /\ TopKey(g) \in Keys
           /\ cache[TopKey(g)] \in Responses \cup {None}
<1>1. Top(g).request.transport \in Transports /\ Question(g) \in Questions
    BY TopFacts, ZenonT(60) DEF Request
<1>2. TopKey(g) \in Keys
    BY <1>1 DEF TopKey, Keys
<1> QED
    BY <1>1, <1>2, ZenonT(60) DEF TopKey, CacheTyped

\* The cache holds responses.
LEMMA CacheTypedStep ==
    ASSUME LockInv, CacheTyped, [Next]_vars PROVE CacheTyped'
<1>1. ASSUME NEW g \in Goroutines, Exchanged(g) PROVE CacheTyped'
    <2>1. Busy(g)
        BY <1>1, ZenonT(60) DEF Exchanged, At
    <2>2. PICK response \in Responses : cache' \in {cache, [cache EXCEPT ![TopKey(g)] = response]}
        BY <1>1, ZenonT(60) DEF Exchanged, StoreCache
    <2> QED
        BY <2>2, ZenonT(60) DEF CacheTyped
<1>2. CASE Expire
    BY <1>2, ZenonT(60) DEF Expire, CacheTyped
<1>3. CASE ClearCache
    BY <1>3, ZenonT(60) DEF ClearCache, CacheTyped
<1>4. CASE UNCHANGED cache
    BY <1>4, ZenonT(60) DEF CacheTyped
<1>5. ASSUME NEW g \in Goroutines, Call(g) \/ Step(g), ~Exchanged(g) PROVE UNCHANGED cache
    BY <1>5, ZenonT(60) DEF Call, Step, Peek, Lock, Load, Query, Dial, ExchangeFailed, Unlock, Signal, Return
<1> QED
    BY <1>1, <1>2, <1>3, <1>4, <1>5, ZenonT(60) DEF Next, ExpireRDRC, vars

\* One goroutine's step.
LEMMA StepKeeps == ASSUME LockInv, CacheTyped, NEW g \in Goroutines, Step(g) PROVE LockInv'
<1>1. ASSUME Peek(g) \/ Load(g) PROVE LockInv'
    <2>1. Busy(g) /\ Top(g).pc \in {"peek", "load"} /\ cacheLock' = cacheLock
        BY <1>1, ZenonT(60) DEF Peek, Load, At
    <2>2. CASE cache[TopKey(g)] # None
        <3>1. cache[TopKey(g)] \in Results /\ Finish(g, cache[TopKey(g)])
            BY <1>1, <2>1, <2>2, TopCached, ZenonT(60) DEF LockInv, Results, Peek, Load
        <3> QED
            BY <2>1, <3>1, FinishKeeps, ZenonT(60)
    <2>3. CASE cache[TopKey(g)] = None
        <3>1. \/ Set(g, Entered(Top(g))) /\ Top(g).pc = "peek"
              \/ Goto(g, "query") /\ Top(g).pc = "load"
            BY <1>1, <2>3, ZenonT(60) DEF Peek, Load, At
        <3> QED
            BY <2>1, <3>1, GotoKeeps, EnterKeeps, ZenonT(60)
    <2> QED
        BY <2>2, <2>3, ZenonT(60)
<1>2. ASSUME Query(g) PROVE LockInv'
    <2>1. Busy(g) /\ Top(g).pc = "query" /\ cacheLock' = cacheLock
        BY <1>2, ZenonT(60) DEF Query, At
    <2>2. \/ \E result \in Results : Finish(g, result)
          \/ Goto(g, "exchange")
        BY <1>2, ZenonT(60) DEF Query, Results
    <2> QED
        BY <2>1, <2>2, FinishKeeps, GotoKeeps, ZenonT(60)
<1>3. ASSUME ExchangeFailed(g) \/ Exchanged(g) PROVE LockInv'
    <2>1. Busy(g) /\ Top(g).pc \in {"exchange", "send"} /\ cacheLock' = cacheLock
        BY <1>3, ZenonT(60) DEF ExchangeFailed, Exchanged, At
    <2>2. \E result \in Results : Finish(g, result)
        BY <1>3, ZenonT(60) DEF ExchangeFailed, Exchanged, Results
    <2> QED
        BY <2>1, <2>2, FinishKeeps, ZenonT(60)
<1> QED
    BY <1>1, <1>2, <1>3, LockKeeps, UnlockKeeps, SignalKeeps, DialDoes, ReturnDoes, ZenonT(60) DEF Step

\* Any step.
LEMMA LockStep == ASSUME LockInv, CacheTyped, [Next]_vars PROVE LockInv'
<1>1. ASSUME UNCHANGED <<stack, cacheLock>> PROVE LockInv'
    <2>1. StackTypes' /\ HoldersLock'
        BY <1>1, ZenonT(60) DEF LockInv, StackTypes, HoldersLock, Holding, Depths
    <2>2. FramesInOrder' <=> FramesInOrder
        BY <1>1, ZenonT(60) DEF FramesInOrder, Depths
    <2>3. Waiting' <=> Waiting
        BY <1>1, ZenonT(60) DEF Waiting, WaitsOn, Depths
    <2> QED
        BY <2>1, <2>2, <2>3, ZenonT(60) DEF LockInv
<1>2. Expire \/ ExpireRDRC \/ ClearCache \/ UNCHANGED vars => UNCHANGED <<stack, cacheLock>>
    BY ZenonT(60) DEF Expire, ExpireRDRC, ClearCache, vars
<1> QED
    BY <1>1, <1>2, CallKeeps, StepKeeps, ZenonT(60) DEF Next

\* Nobody is in an exchange.
LEMMA InitLock == Init => LockInv /\ CacheTyped
<1>1. SUFFICES ASSUME Init PROVE LockInv /\ CacheTyped
    OBVIOUS
<1>2. << >> \in Seq(Frame) /\ Len(<< >>) = 0
    OBVIOUS
<1>3. StackTypes
    BY <1>1, <1>2, ConstantsAssumption DEF Init, StackTypes
<1>4. \A h \in Goroutines : Depths(h) = {}
    BY <1>1, <1>2 DEF Init, Depths
<1>5. HoldersLock /\ FramesInOrder /\ Waiting
    BY <1>1, <1>4, ZenonT(60) DEF Init, HoldersLock, FramesInOrder, Waiting
<1> QED
    BY <1>1, <1>3, <1>5, ZenonT(60) DEF Init, LockInv, CacheTyped

\* Whatever the exchanges, nested ones included, and however deep they are: an
\* exchange that waits on a channel in cacheLock waits on one of the same question
\* whose owner will close it.
THEOREM NoVainWait == Spec => []WaitsForHolder
<1>1. Init => LockInv /\ CacheTyped
    BY InitLock, ZenonT(60)
<1>2. LockInv /\ CacheTyped /\ [Next]_vars => LockInv' /\ CacheTyped'
    BY LockStep, CacheTypedStep, ZenonT(60)
<1>3. LockInv => WaitsForHolder
    <2>1. SUFFICES ASSUME LockInv PROVE WaitsForHolder
        OBVIOUS
    <2>2. \A k \in Goroutines : DOMAIN stack[k] = Depths(k)
        BY <2>1 DEF LockInv, StackTypes, Depths
    <2>3. SUFFICES ASSUME NEW h \in Goroutines, NEW i \in DOMAIN stack[h], stack[h][i].pc = "wait"
                   PROVE  LET w == stack[h][i].waits
                              q == stack[h][i].request.question
                          IN /\ w[2] \in DOMAIN stack[w[1]]
                             /\ stack[w[1]][w[2]].request.question = q
                             /\ cacheLock[q] = w \/ stack[w[1]][w[2]].pc = "signal"
        BY ZenonT(60) DEF WaitsForHolder
    <2> DEFINE w == stack[h][i].waits
               q == stack[h][i].request.question
    <2>4. w \in Exchange
        BY <2>1, <2>2, <2>3, FrameFacts, ZenonT(60) DEF LockInv, FramesInOrder
    <2>5. WaitsOn(w, q)
        BY <2>1, <2>2, <2>3, ZenonT(60) DEF LockInv, Waiting
    <2>6. w[1] \in Goroutines
        BY <2>4, ZenonT(60) DEF Exchange
    <2> QED
        BY <2>2, <2>5, <2>6, ZenonT(60) DEF WaitsOn
<1> QED
    BY <1>1, <1>2, <1>3, PTL DEF Spec

-----------------------------------------------------------------------------
(* The filter holds.                                                       *)

\* A new frame of an exchange that goes on is as it should be.
LEMMA SetPasses ==
    ASSUME StackTypes, FramesPassed, NEW g \in Goroutines, Busy(g), NEW f \in Frame, Set(g, f),
           Proper(f), Passed(f)
    PROVE  FramesPassed'
<1>1. /\ \A h \in Goroutines : Depths(h)' = Depths(h)
      /\ stack'[g][Len(stack[g])] = f
      /\ \A h \in Goroutines : \A i \in Depths(h) : <<h, i>> # Me(g) => stack'[h][i] = stack[h][i]
    BY SetDoes, ZenonT(60)
<1>2. SUFFICES ASSUME NEW h \in Goroutines, NEW i \in Depths(h)
               PROVE  Proper(stack'[h][i]) /\ Passed(stack'[h][i])
    BY <1>1, ZenonT(60) DEF FramesPassed, Proper, Passed
<1>3. CASE <<h, i>> # Me(g)
    BY <1>1, <1>3, ZenonT(60) DEF FramesPassed
<1>4. CASE <<h, i>> = Me(g)
    <2>1. h = g /\ i = Len(stack[g])
        BY <1>4, ZenonT(60) DEF Me
    <2> QED
        BY <1>1, <2>1, ZenonT(60)
<1> QED
    BY <1>3, <1>4, ZenonT(60)

\* The innermost frame is as it should be.
LEMMA TopPassed ==
    ASSUME StackTypes, FramesPassed, NEW g \in Goroutines, Busy(g)
    PROVE  Proper(Top(g)) /\ Passed(Top(g))
BY TopFacts, ZenonT(60) DEF FramesPassed, Top

\* An exchange that returns with what its filter has passed.
LEMMA FinishPasses ==
    ASSUME LockInv, FramesPassed, NEW g \in Goroutines, Busy(g), NEW result \in Results,
           Finish(g, result),
           result \in Responses => PassedFilter(Top(g).request, result)
    PROVE  FramesPassed'
<1> DEFINE label == Deferred(Me(g), Top(g))
           f == [Top(g) EXCEPT !.result = result, !.pc = label]
<1>1. Top(g) \in Frame /\ label \in {"unlock", "return"} /\ Set(g, f)
    BY TopFacts, ZenonT(60) DEF LockInv, Deferred, Finish
<1>2. label = "unlock" => Top(g).pc \in Locking
    <2>1. label = "unlock" => cacheLock[Question(g)] = Me(g)
        BY ZenonT(60) DEF Deferred, Question
    <2> HIDE DEF label
    <2> QED
        BY <2>1, TopFacts DEF LockInv, HoldersLock, Holding, Top
<1> HIDE DEF label
<1>3. f \in Frame /\ f.request = Top(g).request /\ f.result = result /\ f.pc = label
    BY <1>1, ZenonT(60) DEF Frame, Results
<1> HIDE DEF f
<1>4. Proper(Top(g))
    BY TopPassed, ZenonT(60) DEF LockInv
<1>5. Proper(f) /\ Passed(f)
    BY <1>1, <1>2, <1>3, <1>4, ZenonT(60) DEF Proper, Passed, Locking
<1> QED
    BY <1>1, <1>3, <1>5, SetPasses, ZenonT(60) DEF LockInv

\* An exchange that goes on.
LEMMA GotoPasses ==
    ASSUME LockInv, FramesPassed, NEW g \in Goroutines, Busy(g),
           NEW label \in {"load", "query", "exchange", "signal"}, Goto(g, label),
           Top(g).pc \notin {"peek", "return"}, label = "load" => Top(g).pc = "lock"
    PROVE  FramesPassed'
<1> DEFINE f == [Top(g) EXCEPT !.pc = label]
<1>1. Top(g) \in Frame /\ Set(g, f) /\ Proper(Top(g)) /\ Passed(Top(g))
    BY TopFacts, TopPassed, ZenonT(60) DEF LockInv, Goto
<1>2. f \in Frame /\ f.request = Top(g).request /\ f.result = Top(g).result /\ f.pc = label
    BY <1>1, ZenonT(60) DEF Frame
<1> HIDE DEF f
<1>3. Proper(f) /\ Passed(f)
    BY <1>1, <1>2, ZenonT(60) DEF Proper, Passed
<1> QED
    BY <1>1, <1>2, <1>3, SetPasses, ZenonT(60) DEF LockInv

\* An exchange that begins has no response yet.
LEMMA FreshPasses ==
    ASSUME NEW f, Fresh(f), f.request \in AllRequests PROVE Proper(f) /\ Passed(f)
<1>1. f.result \notin Responses
    BY ConstantsAssumption DEF Fresh, Responses
<1> QED
    BY <1>1, ZenonT(60) DEF Fresh, Proper, Passed

\* Peek, Load.
LEMMA LoadPasses ==
    ASSUME LockInv, CacheTyped, FilterInv, NEW g \in Goroutines, Peek(g) \/ Load(g)
    PROVE  FramesPassed'
<1>1. /\ Busy(g) /\ Top(g).pc \in {"peek", "load"} /\ FramesPassed /\ Proper(Top(g)) /\ Passed(Top(g))
      /\ Top(g) \in Frame
    BY TopPassed, TopFacts, ZenonT(60) DEF Peek, Load, At, FilterInv, LockInv
<1>2. CASE cache[TopKey(g)] # None
    <2> DEFINE response == cache[TopKey(g)]
    <2>1. response \in Responses /\ TopKey(g) \in Keys /\ Finish(g, response)
        BY <1>1, <1>2, TopCached, ZenonT(60) DEF LockInv, Peek, Load
    <2>2. PICK s \in AllRequests : Stores(s, TopKey(g), response)
        BY <1>2, <2>1, ZenonT(60) DEF FilterInv, CachePassed
    <2> HIDE DEF response
    <2>3. Top(g).request.caching # "none"
        BY <1>1, ZenonT(60) DEF Proper
    <2>4. PassedFilter(Top(g).request, response)
        BY <2>2, <2>3, ZenonT(60) DEF PassedFilter, Shares, Stores, TopKey, Question
    <2> QED
        BY <1>1, <2>1, <2>4, FinishPasses, ZenonT(60) DEF Results
<1>3. CASE cache[TopKey(g)] = None /\ Peek(g)
    <2>1. PICK f : f = Entered(Top(g))
        BY ZenonT(60)
    <2>2. Set(g, f)
        BY <1>3, <2>1, ZenonT(60) DEF Peek
    <2>3. /\ f \in Frame /\ f.request = Top(g).request
          /\ \/ f.request.excluded /\ f.pc = "return" /\ f.result = "fixed"
             \/ /\ ~f.request.excluded /\ f.result = Top(g).result
                /\ \/ f.pc = "lock" /\ f.request.caching = "full"
                   \/ f.pc = "query"
        BY <1>1, <2>1, EnteredDoes, ZenonT(60)
    <2>4. "fixed" \notin Responses
        BY ConstantsAssumption DEF Responses
    <2>5. Proper(f) /\ Passed(f)
        BY <1>1, <2>3, <2>4, ZenonT(60) DEF Proper, Passed
    <2> QED
        BY <1>1, <2>2, <2>3, <2>5, SetPasses, ZenonT(60) DEF LockInv
<1>4. CASE cache[TopKey(g)] = None /\ Load(g)
    BY <1>1, <1>4, GotoPasses, ZenonT(60) DEF Load, At
<1> QED
    BY <1>2, <1>3, <1>4, ZenonT(60)

\* LoadOrStore.
LEMMA LockPasses ==
    ASSUME LockInv, FilterInv, NEW g \in Goroutines, Lock(g) PROVE FramesPassed'
<1>1. /\ Busy(g) /\ Top(g).pc = "lock" /\ FramesPassed /\ Proper(Top(g)) /\ Passed(Top(g))
      /\ Top(g) \in Frame
    BY TopPassed, TopFacts, ZenonT(60) DEF Lock, At, FilterInv, LockInv
<1>2. CASE cacheLock[Question(g)] = None
    BY <1>1, <1>2, GotoPasses, ZenonT(60) DEF Lock
<1>3. CASE cacheLock[Question(g)] # None
    <2> DEFINE l == cacheLock[Question(g)]
               f == [Top(g) EXCEPT !.pc = "wait", !.waits = l]
    <2>1. Set(g, f)
        BY <1>3, ZenonT(60) DEF Lock
    <2>2. l \in Exchange
        BY <1>1, <1>3, TopFacts, ZenonT(60) DEF LockInv, StackTypes
    <2> HIDE DEF l
    <2>3. f \in Frame /\ f.request = Top(g).request /\ f.result = Top(g).result /\ f.pc = "wait"
        BY <1>1, <2>2, ZenonT(60) DEF Frame, Exchange
    <2> HIDE DEF f
    <2>4. Proper(f) /\ Passed(f)
        BY <1>1, <2>3, ZenonT(60) DEF Proper, Passed
    <2> QED
        BY <1>1, <2>1, <2>3, <2>4, SetPasses, ZenonT(60) DEF LockInv
<1> QED
    BY <1>2, <1>3, ZenonT(60)

\* The query and the transport's exchange.
LEMMA QueryPasses ==
    ASSUME LockInv, FilterInv, NEW g \in Goroutines,
           Query(g) \/ ExchangeFailed(g) \/ Exchanged(g) \/ Unlock(g)
    PROVE  FramesPassed'
<1>1. /\ Busy(g) /\ Top(g).pc \in {"query", "exchange", "send", "unlock"} /\ FramesPassed
    BY ZenonT(60) DEF Query, ExchangeFailed, Exchanged, Unlock, At, FilterInv
<1>2. \/ Finish(g, "loopback") \/ Finish(g, "rejectedCached") \/ Finish(g, "error")
      \/ Finish(g, "rejected")
      \/ Goto(g, "exchange") \/ Goto(g, "signal")
      \/ \E response \in Responses : ~Rejected(Top(g).request, response) /\ Finish(g, response)
    BY ZenonT(60) DEF Query, ExchangeFailed, Exchanged, Unlock
<1>3. {"loopback", "rejectedCached", "error", "rejected"} \cap Responses = {}
    BY ConstantsAssumption DEF Responses
<1>4. ASSUME NEW result \in {"loopback", "rejectedCached", "error", "rejected"}, Finish(g, result)
      PROVE  FramesPassed'
    <2>1. result \notin Responses /\ result \in Results
        BY <1>3, ZenonT(60) DEF Results
    <2> QED
        BY <1>1, <1>4, <2>1, FinishPasses, ZenonT(60)
<1>5. ASSUME NEW response \in Responses, ~Rejected(Top(g).request, response), Finish(g, response)
      PROVE  FramesPassed'
    BY <1>1, <1>5, FinishPasses, ZenonT(60) DEF Results, PassedFilter, FilterAdmits, Rejected
<1>6. ASSUME Goto(g, "exchange") \/ Goto(g, "signal") PROVE FramesPassed'
    BY <1>1, <1>6, GotoPasses, ZenonT(60)
<1> QED
    BY <1>2, <1>4, <1>5, <1>6, ZenonT(60)

\* Closing the channel.
LEMMA SignalPasses ==
    ASSUME LockInv, FilterInv, NEW g \in Goroutines, Signal(g) PROVE FramesPassed'
<1>1. \A h \in Goroutines : Depths(h)' = Depths(h)
    BY SignalDoes, ZenonT(60)
<1>2. SUFFICES ASSUME NEW h \in Goroutines, NEW i \in Depths(h)
               PROVE  Proper(stack'[h][i]) /\ Passed(stack'[h][i])
    BY <1>1, ZenonT(60) DEF FramesPassed, Proper, Passed
<1>3. Proper(stack[h][i]) /\ Passed(stack[h][i])
    BY ZenonT(60) DEF FilterInv, FramesPassed
<1>4. /\ stack'[h][i].request = stack[h][i].request /\ stack'[h][i].result = stack[h][i].result
      /\ \/ stack'[h][i] = stack[h][i]
         \/ stack'[h][i].pc = "return"
         \/ stack[h][i].waits = Me(g) /\ stack'[h][i].pc = "load"
    BY SignalDoes, ZenonT(60)
<1>5. stack[h][i].waits = Me(g) => stack[h][i].pc = "wait"
    <2>1. Me(g) # None
        BY SignalDoes, TopFacts, ZenonT(60) DEF LockInv
    <2> QED
        BY <2>1, ZenonT(60) DEF LockInv, FramesInOrder
<1> QED
    BY <1>3, <1>4, <1>5, ZenonT(60) DEF Proper, Passed

\* The steps that begin and end an exchange leave the other goroutines alone.
LEMMA OthersStay ==
    ASSUME LockInv, NEW g \in Goroutines, Call(g) \/ Dial(g) \/ Return(g),
           NEW h \in Goroutines, h # g
    PROVE  stack'[h] = stack[h]
<1>1. h \in Goroutines \ {g}
    BY ZenonT(60)
<1>2. CASE Call(g)
    BY <1>1, <1>2, CallKeeps, ZenonT(60)
<1>3. CASE Dial(g)
    BY <1>1, <1>3, DialDoes, ZenonT(60)
<1>4. CASE Return(g)
    BY <1>1, <1>4, ReturnDoes, ZenonT(60)
<1> QED
    BY <1>2, <1>3, <1>4, ZenonT(60)

\* They keep what has passed.
LEMMA ReshapePasses ==
    ASSUME LockInv, FilterInv, NEW g \in Goroutines, Call(g) \/ Dial(g) \/ Return(g)
    PROVE  FramesPassed'
<1>1. SUFFICES ASSUME NEW h \in Goroutines, NEW i \in 1 .. Len(stack'[h])
               PROVE  Proper(stack'[h][i]) /\ Passed(stack'[h][i])
    BY ZenonT(60) DEF FramesPassed, Depths, Proper, Passed
<1>2. \A j \in Depths(h) : Proper(stack[h][j]) /\ Passed(stack[h][j])
    BY ZenonT(60) DEF FilterInv, FramesPassed
<1>3. CASE h # g
    <2>1. stack'[h] = stack[h]
        BY <1>3, OthersStay, ZenonT(60)
    <2> QED
        BY <1>2, <2>1, ZenonT(60) DEF Depths
<1>4. CASE h = g /\ Call(g)
    <2>1. Len(stack'[g]) = 1 /\ stack'[g][1].request \in Requests /\ Fresh(stack'[g][1])
        BY <1>4, CallKeeps, ZenonT(60)
    <2>2. i = 1
        BY <1>4, <2>1, SMTT(30)
    <2>3. stack'[g][1].request \in AllRequests
        BY <2>1, ZenonT(60) DEF AllRequests
    <2> QED
        BY <1>4, <2>1, <2>2, <2>3, FreshPasses, ZenonT(60)
<1>5. CASE h = g /\ Dial(g)
    <2> DEFINE n == Len(stack[g])
    <2>1. /\ Len(stack'[g]) = n + 1 /\ n \in Nat
          /\ \A j \in Depths(g) :
                /\ stack'[g][j].request = stack[g][j].request
                /\ stack'[g][j].result = stack[g][j].result
                /\ \/ stack'[g][j] = stack[g][j]
                   \/ stack[g][j].pc = "exchange" /\ stack'[g][j].pc = "dialing"
          /\ Fresh(stack'[g][n + 1])
          /\ Top(g).request.transport \in Transports /\ Resolver[Top(g).request.transport] # None
          /\ stack'[g][n + 1].request = Resolver[Top(g).request.transport]
        <3>1. n \in Nat
            BY DEF LockInv, StackTypes
        <3> QED
            BY <1>5, <3>1, DialDoes, ZenonT(60)
    <2>2. i \in Depths(g) \/ i = n + 1
        <3>1. i \in 1 .. n + 1
            BY <1>5, <2>1, ZenonT(60)
        <3> QED
            BY <2>1, <3>1, SMTT(30) DEF Depths
    <2>3. CASE i \in Depths(g)
        BY <1>2, <1>5, <2>1, <2>3, ZenonT(60) DEF Proper, Passed
    <2>4. CASE i = n + 1
        <3>1. stack'[g][n + 1].request \in AllRequests
            BY <2>1, ZenonT(60) DEF AllRequests
        <3> QED
            BY <1>5, <2>1, <2>4, <3>1, FreshPasses, ZenonT(60)
    <2> QED
        BY <2>2, <2>3, <2>4, ZenonT(60)
<1>6. CASE h = g /\ Return(g)
    <2>1. /\ i \in Depths(g) /\ stack'[g][i].request = stack[g][i].request
          /\ stack'[g][i].result \in {stack[g][i].result, "error"}
          /\ \/ stack'[g][i] = stack[g][i]
             \/ stack[g][i].pc = "dialing" /\ stack'[g][i].pc \in {"send", "unlock", "return"}
        BY <1>6, ReturnDoes, ZenonT(60)
    <2>2. "error" \notin Responses
        BY ConstantsAssumption DEF Responses
    <2> QED
        BY <1>2, <1>6, <2>1, <2>2, ZenonT(60) DEF Proper, Passed
<1> QED
    BY <1>3, <1>4, <1>5, <1>6, ZenonT(60)

\* Nothing is stored under a key that no filter of a request with the key has
\* passed.
LEMMA CachePassedStep ==
    ASSUME LockInv, CacheTyped, FilterInv, [Next]_vars PROVE CachePassed'
<1>1. CachePassed
    BY ZenonT(60) DEF FilterInv
<1>2. ASSUME NEW g \in Goroutines, Exchanged(g) PROVE CachePassed'
    <2>1. Busy(g) /\ Top(g).pc \in {"exchange", "send"} /\ Proper(Top(g))
        BY <1>2, TopPassed, ZenonT(60) DEF Exchanged, At, LockInv, FilterInv
    <2>2. CASE cache' = cache
        BY <1>1, <2>2, ZenonT(60) DEF CachePassed
    <2>3. ASSUME NEW response \in Responses, ~Rejected(Top(g).request, response),
                 Top(g).request.caching = "full",
                 cache' = [cache EXCEPT ![TopKey(g)] = response]
          PROVE  CachePassed'
        <3>1. SUFFICES ASSUME NEW k \in Keys, cache'[k] # None
                       PROVE  \E s \in AllRequests : Stores(s, k, cache'[k])
            BY ZenonT(60) DEF CachePassed
        <3>2. CASE k = TopKey(g)
            <4>1. cache'[k] = response
                BY <2>3, <3>2, ZenonT(60) DEF CacheTyped
            <4>2. Top(g).request \in AllRequests /\ ~Top(g).request.excluded
                BY <2>1, ZenonT(60) DEF Proper
            <4>3. Stores(Top(g).request, k, response)
                BY <2>3, <3>2, <4>2, ZenonT(60) DEF Stores, TopKey, Question, FilterAdmits, Rejected
            <4> QED
                BY <4>1, <4>2, <4>3, ZenonT(60)
        <3>3. CASE k # TopKey(g)
            <4>1. cache'[k] = cache[k]
                BY <2>3, <3>3, ZenonT(60) DEF CacheTyped
            <4> QED
                BY <1>1, <3>1, <4>1, ZenonT(60) DEF CachePassed
        <3> QED
            BY <3>2, <3>3, ZenonT(60)
    <2> QED
        BY <1>2, <2>2, <2>3, ZenonT(60) DEF Exchanged, StoreCache
<1>3. CASE Expire \/ ClearCache
    <2>1. \A k \in Keys : cache'[k] \in {cache[k], None}
        BY <1>3, ZenonT(60) DEF Expire, ClearCache, CacheTyped
    <2> QED
        BY <1>1, <2>1, ZenonT(60) DEF CachePassed
<1>4. CASE UNCHANGED cache
    BY <1>1, <1>4, ZenonT(60) DEF CachePassed
<1>5. ASSUME NEW g \in Goroutines, Call(g) \/ Step(g), ~Exchanged(g) PROVE UNCHANGED cache
    BY <1>5, ZenonT(60) DEF Call, Step, Peek, Lock, Load, Query, Dial, ExchangeFailed, Unlock, Signal, Return
<1> QED
    BY <1>2, <1>3, <1>4, <1>5, ZenonT(60) DEF Next, ExpireRDRC, vars

\* What the steps keep.
LEMMA FilterStep ==
    ASSUME LockInv, CacheTyped, FilterInv, [Next]_vars PROVE FilterInv'
<1>1. CASE UNCHANGED stack
    BY <1>1, CachePassedStep, ZenonT(60) DEF FilterInv, FramesPassed, Depths
<1>2. ASSUME NEW g \in Goroutines, Call(g) \/ Step(g) PROVE FramesPassed'
    BY <1>2, LoadPasses, LockPasses, QueryPasses, SignalPasses, ReshapePasses, ZenonT(60) DEF Step
<1> QED
    BY <1>1, <1>2, CachePassedStep, ZenonT(60) DEF Next, Expire, ExpireRDRC, ClearCache, vars, FilterInv

\* Whatever the rules, their filters and the nesting, with the shared cache and
\* with independent ones: what an exchange returns as a response its own filter
\* has passed, or that of a request for which the same key of the cache is used.
THEOREM FilterPassed == Spec => []FilterHolds
<1>1. Init => LockInv /\ CacheTyped /\ FilterInv
    <2>1. SUFFICES ASSUME Init PROVE FilterInv
        BY InitLock, ZenonT(60)
    <2>2. \A h \in Goroutines : Depths(h) = {}
        BY <2>1 DEF Init, Depths
    <2>3. CachePassed
        BY <2>1, ZenonT(60) DEF Init, CachePassed
    <2> QED
        BY <2>2, <2>3, ZenonT(60) DEF FilterInv, FramesPassed
<1>2. LockInv /\ CacheTyped /\ FilterInv /\ [Next]_vars => LockInv' /\ CacheTyped' /\ FilterInv'
    BY LockStep, CacheTypedStep, FilterStep, ZenonT(60)
<1>3. LockInv /\ FilterInv => FilterHolds
    <2>1. SUFFICES ASSUME LockInv, FilterInv PROVE FilterHolds
        OBVIOUS
    <2>2. \A k \in Goroutines : DOMAIN stack[k] = Depths(k)
        BY <2>1 DEF LockInv, StackTypes, Depths
    <2> QED
        BY <2>1, <2>2, ZenonT(60) DEF FilterHolds, FilterInv, FramesPassed, Passed
<1> QED
    BY <1>1, <1>2, <1>3, PTL DEF Spec
-----------------------------------------------------------------------------
(* Nobody waits in a circle.                                               *)

\* To answer q an exchange may have to look up p first.
Needs(q, p) ==
    \E r \in AllRequests :
        /\ r.question = q /\ Resolver[r.transport] # None
        /\ Resolver[r.transport].question = p

\* No question is needed, over any number of nested look-ups, for itself.
Layered == \A S \in SUBSET Questions : S # {} => \E q \in S : \A p \in S : ~Needs(q, p)

\* No goroutines wait for each other: in every set of them there is one whose
\* innermost exchange is not waiting, or waits for a goroutine outside the set.
NoCircularWait ==
    \A W \in SUBSET Goroutines :
        W # {} => \E g \in W : ~(At(g, "wait") /\ Top(g).waits[1] \in W)

\* A nested exchange is the one that the enclosing exchange's transport needs.
Nested ==
    \A h \in Goroutines : \A i \in Depths(h) :
        /\ stack[h][i].request \in AllRequests
        /\ i < Len(stack[h]) =>
              /\ Resolver[stack[h][i].request.transport] # None
              /\ stack[h][i + 1].request = Resolver[stack[h][i].request.transport]

\* The questions on the stacks of a circle would need each other: an exchange
\* that others wait for is not the innermost one of its goroutine, so it needs
\* the question above it.
LEMMA NestedApart == ASSUME Layered, LockInv, Nested PROVE NoCircularWait
<1>1. SUFFICES ASSUME NEW W \in SUBSET Goroutines, W # {},
                      \A g \in W : At(g, "wait") /\ Top(g).waits[1] \in W
               PROVE  FALSE
    BY ZenonT(60) DEF NoCircularWait
<1> DEFINE S == {q \in Questions : \E h \in W : \E i \in Depths(h) : stack[h][i].request.question = q}
<1>2. ASSUME NEW h \in W, NEW i \in Depths(h)
      PROVE  stack[h][i].request \in AllRequests /\ stack[h][i].request.question \in S
    <2>1. stack[h][i].request.question \in Questions
        BY FrameFacts, ZenonT(60) DEF LockInv
    <2> QED
        BY <2>1, ZenonT(60) DEF Nested
<1>3. \A q \in S : q \in Questions /\ \E h \in W : \E i \in Depths(h) : stack[h][i].request.question = q
    OBVIOUS
<1> HIDE DEF S
<1>4. ASSUME NEW h \in W, NEW i \in Depths(h), i < Len(stack[h])
      PROVE  \E p \in S : Needs(stack[h][i].request.question, p)
    <2>1. i + 1 \in Depths(h)
        BY <1>4, FrameFacts DEF LockInv, Depths
    <2>2. stack[h][i + 1].request.question \in S
        BY <1>2, <2>1, ZenonT(60)
    <2>3. /\ stack[h][i].request \in AllRequests /\ Resolver[stack[h][i].request.transport] # None
          /\ stack[h][i + 1].request = Resolver[stack[h][i].request.transport]
        BY <1>4, ZenonT(60) DEF Nested
    <2> QED
        BY <2>2, <2>3, ZenonT(60) DEF Needs
<1>5. ASSUME NEW h \in W PROVE \E p \in S : Needs(Question(h), p)
    <2>1. Busy(h) /\ Top(h).pc = "wait" /\ Top(h).waits[1] \in W /\ Len(stack[h]) \in Depths(h)
        BY <1>1, <1>5, TopFacts, ZenonT(60) DEF At, LockInv
    <2>2. PICK w : w = Top(h).waits
        OBVIOUS
    <2>3. WaitsOn(w, Question(h))
        BY <2>1, <2>2, ZenonT(60) DEF LockInv, Waiting, Top, Question
    <2>4. /\ w[1] \in W /\ w[2] \in Depths(w[1])
          /\ stack[w[1]][w[2]].request.question = Question(h)
        BY <2>1, <2>2, <2>3, ZenonT(60) DEF WaitsOn
    <2>5. stack[w[1]][w[2]].pc # "wait"
        <3>1. CASE stack[w[1]][w[2]].pc = "signal"
            BY <3>1, ZenonT(60)
        <3>2. CASE cacheLock[Question(h)] = w
            <4>1. Question(h) \in Questions /\ w # None
                BY <2>1, <2>2, TopFacts, ZenonT(60) DEF LockInv, FramesInOrder, Top
            <4>2. Holding(w, Question(h))
                BY <3>2, <4>1, ZenonT(60) DEF LockInv, HoldersLock
            <4> QED
                BY <4>2, ZenonT(60) DEF Holding, Locking
        <3> QED
            BY <2>3, <3>1, <3>2, ZenonT(60) DEF WaitsOn
    <2>6. w[2] # Len(stack[w[1]])
        BY <1>1, <2>4, <2>5, SMTT(30) DEF At, Top
    <2>7. w[2] < Len(stack[w[1]])
        BY <2>4, <2>6, FrameFacts DEF LockInv, Depths
    <2> QED
        BY <1>4, <2>4, <2>7, ZenonT(60)
<1>6. ASSUME NEW q \in S PROVE \E p \in S : Needs(q, p)
    <2>1. PICK h \in W : \E i \in Depths(h) : stack[h][i].request.question = q
        BY <1>3, <1>6, ZenonT(60)
    <2>2. PICK i \in Depths(h) : stack[h][i].request.question = q
        BY <2>1, ZenonT(60)
    <2>3. CASE i = Len(stack[h])
        BY <1>5, <2>2, <2>3, ZenonT(60) DEF Question, Top
    <2>4. CASE i # Len(stack[h])
        <3>1. i < Len(stack[h])
            BY <2>4, FrameFacts DEF LockInv, Depths
        <3> QED
            BY <1>4, <2>2, <3>1, ZenonT(60)
    <2> QED
        BY <2>3, <2>4, ZenonT(60)
<1>7. S # {} /\ S \in SUBSET Questions
    <2>1. PICK h \in W : TRUE
        BY <1>1, ZenonT(60)
    <2>2. Len(stack[h]) \in Depths(h)
        BY <1>1, TopFacts, ZenonT(60) DEF At, LockInv
    <2> QED
        BY <1>2, <1>3, <2>2, ZenonT(60)
<1> QED
    BY <1>6, <1>7, ZenonT(60) DEF Layered

\* The stacks keep their exchanges.
SameRequests ==
    \A h \in Goroutines :
        /\ Len(stack'[h]) = Len(stack[h])
        /\ \A i \in Depths(h) : stack'[h][i].request = stack[h][i].request

\* Then the nesting is as it was.
LEMMA SameNested == ASSUME LockInv, Nested, SameRequests PROVE Nested'
<1>1. SUFFICES ASSUME NEW h \in Goroutines, NEW i \in 1 .. Len(stack'[h])
               PROVE  /\ stack'[h][i].request \in AllRequests
                      /\ i < Len(stack'[h]) =>
                            /\ Resolver[stack'[h][i].request.transport] # None
                            /\ stack'[h][i + 1].request = Resolver[stack'[h][i].request.transport]
    BY ZenonT(60) DEF Nested, Depths
<1>2. Len(stack'[h]) = Len(stack[h]) /\ i \in Depths(h) /\ Len(stack[h]) \in Nat
    BY DEF SameRequests, Depths, LockInv, StackTypes
<1>3. stack'[h][i].request = stack[h][i].request
    BY <1>2, ZenonT(60) DEF SameRequests
<1>4. i < Len(stack[h]) => i + 1 \in Depths(h)
    BY <1>2 DEF Depths
<1>5. i < Len(stack[h]) => stack'[h][i + 1].request = stack[h][i + 1].request
    BY <1>4, ZenonT(60) DEF SameRequests
<1> QED
    BY <1>2, <1>3, <1>5, ZenonT(60) DEF Nested

\* Setting the innermost frame keeps the exchanges if it keeps the request.
LEMMA SetSame ==
    ASSUME StackTypes, NEW g \in Goroutines, Busy(g), NEW f, Set(g, f), f.request = Top(g).request
    PROVE  SameRequests
<1> DEFINE n == Len(stack[g])
           s == [stack[g] EXCEPT ![n] = f]
<1>1. stack[g] \in Seq(Frame) /\ n \in 1 .. n
    BY TopFacts, ZenonT(60) DEF StackTypes, Depths
<1>2. stack' = [stack EXCEPT ![g] = s]
    BY ZenonT(60) DEF Set, StackTypes
<1>3. Len(s) = n /\ s[n] = f /\ \A i \in 1 .. n : i # n => s[i] = stack[g][i]
    BY <1>1, SMTT(30)
<1> HIDE DEF s
<1>4. stack'[g] = s /\ \A h \in Goroutines \ {g} : stack'[h] = stack[h]
    BY <1>2, ZenonT(60) DEF StackTypes
<1>5. \A i \in 1 .. n : s[i].request = stack[g][i].request
    BY <1>3, ZenonT(60) DEF Top
<1> QED
    BY <1>3, <1>4, <1>5, ZenonT(60) DEF SameRequests, Depths

\* What a goroutine's step does to the nesting.
LEMMA StepNested ==
    ASSUME LockInv, Nested, NEW g \in Goroutines, Call(g) \/ Step(g) PROVE Nested'
<1>1. ASSUME Peek(g) \/ Lock(g) \/ Load(g) \/ Query(g) \/ ExchangeFailed(g) \/ Exchanged(g) \/ Unlock(g)
      PROVE  SameRequests
    <2>1. Busy(g) /\ Top(g) \in Frame
        BY <1>1, TopFacts, ZenonT(60) DEF LockInv, Peek, Lock, Load, Query, ExchangeFailed, Exchanged, Unlock, At
    <2>2. \/ \E result : Finish(g, result)
          \/ \E label : Goto(g, label)
          \/ \E l : Set(g, [Top(g) EXCEPT !.pc = "wait", !.waits = l])
          \/ Set(g, Entered(Top(g)))
        BY <1>1, ZenonT(60) DEF Peek, Lock, Load, Query, ExchangeFailed, Exchanged, Unlock
    <2>6. CASE Set(g, Entered(Top(g)))
        BY <2>1, <2>6, EnteredDoes, SetSame, ZenonT(60) DEF LockInv
    <2>3. ASSUME NEW result, Finish(g, result) PROVE SameRequests
        <3>1. PICK label : label = Deferred(Me(g), Top(g))
            OBVIOUS
        <3>2. PICK f : f = [Top(g) EXCEPT !.result = result, !.pc = label]
            OBVIOUS
        <3>3. Set(g, f) /\ f.request = Top(g).request
            BY <2>1, <2>3, <3>1, <3>2, ZenonT(60) DEF Finish, Frame
        <3> QED
            BY <2>1, <3>3, SetSame, ZenonT(60) DEF LockInv
    <2>4. ASSUME NEW label, Goto(g, label) PROVE SameRequests
        <3>1. PICK f : f = [Top(g) EXCEPT !.pc = label]
            BY ZenonT(60)
        <3>2. Set(g, f) /\ f.request = Top(g).request
            BY <2>1, <2>4, <3>1, ZenonT(60) DEF Goto, Frame
        <3> QED
            BY <2>1, <3>2, SetSame DEF LockInv
    <2>5. ASSUME NEW l, Set(g, [Top(g) EXCEPT !.pc = "wait", !.waits = l]) PROVE SameRequests
        <3>1. PICK f : f = [Top(g) EXCEPT !.pc = "wait", !.waits = l]
            OBVIOUS
        <3>2. Set(g, f) /\ f.request = Top(g).request
            BY <2>1, <2>5, <3>1, ZenonT(60) DEF Frame
        <3> QED
            BY <2>1, <3>2, SetSame DEF LockInv
    <2> QED
        BY <2>2, <2>3, <2>4, <2>5, <2>6, ZenonT(60)
<1>2. ASSUME Signal(g) PROVE SameRequests
    BY <1>2, SignalDoes, ZenonT(60) DEF SameRequests
<1>3. SUFFICES ASSUME Dial(g) \/ Return(g) \/ Call(g),
                      NEW h \in Goroutines, NEW i \in 1 .. Len(stack'[h])
               PROVE  /\ stack'[h][i].request \in AllRequests
                      /\ i < Len(stack'[h]) =>
                            /\ Resolver[stack'[h][i].request.transport] # None
                            /\ stack'[h][i + 1].request = Resolver[stack'[h][i].request.transport]
    BY <1>1, <1>2, SameNested, ZenonT(60) DEF Nested, Depths, Step
<1>4. Len(stack[g]) \in Nat /\ Len(stack[h]) \in Nat
    BY DEF LockInv, StackTypes
<1>5. CASE h # g
    <2>1. stack'[h] = stack[h]
        BY <1>3, <1>5, OthersStay, ZenonT(60)
    <2> QED
        BY <2>1, SMTT(30) DEF Nested, Depths
<1>6. CASE h = g /\ Call(g)
    <2>1. Len(stack'[g]) = 1 /\ stack'[g][1].request \in Requests
        BY <1>6, CallKeeps, ZenonT(60)
    <2>2. i = 1
        BY <1>6, <2>1, SMTT(30)
    <2> QED
        BY <1>6, <2>1, <2>2 DEF AllRequests
<1>7. CASE h = g /\ Return(g)
    <2>1. /\ Len(stack'[g]) = Len(stack[g]) - 1
          /\ \A j \in 1 .. Len(stack'[g]) : stack'[g][j].request = stack[g][j].request
        BY <1>7, ReturnDoes, ZenonT(60)
    <2>2. i \in Depths(g) /\ (i < Len(stack'[g]) => i < Len(stack[g]) /\ i + 1 \in 1 .. Len(stack'[g]))
        BY <1>4, <1>7, <2>1 DEF Depths
    <2>3. stack'[g][i].request = stack[g][i].request /\ stack[g][i].request \in AllRequests
        BY <1>7, <2>1, <2>2, ZenonT(60) DEF Nested
    <2>4. ASSUME i < Len(stack'[g])
          PROVE  /\ Resolver[stack[g][i].request.transport] # None
                 /\ stack'[g][i + 1].request = Resolver[stack[g][i].request.transport]
        <3>1. stack'[g][i + 1].request = stack[g][i + 1].request
            BY <2>1, <2>2, <2>4, ZenonT(60)
        <3> QED
            BY <2>2, <2>4, <3>1, ZenonT(60) DEF Nested
    <2> QED
        BY <1>7, <2>3, <2>4, ZenonT(60)
<1>8. CASE h = g /\ Dial(g)
    <2> DEFINE n == Len(stack[g])
    <2>1. /\ Len(stack'[g]) = n + 1
          /\ \A j \in Depths(g) : stack'[g][j].request = stack[g][j].request
          /\ Top(g).request.transport \in Transports /\ Resolver[Top(g).request.transport] # None
          /\ stack'[g][n + 1].request = Resolver[Top(g).request.transport]
        BY <1>8, DialDoes, ZenonT(60)
    <2>2. Busy(g) /\ n \in Depths(g) /\ Top(g) = stack[g][n]
        BY <1>8, TopFacts, ZenonT(60) DEF LockInv, Dial, At, Top
    <2>3. CASE i = n + 1
        BY <1>4, <1>8, <2>1, <2>3, SMTT(30) DEF AllRequests
    <2>4. CASE i = n
        BY <1>8, <2>1, <2>2, <2>4, ZenonT(60) DEF Nested
    <2>5. CASE i # n /\ i # n + 1
        <3>1. i \in Depths(g) /\ i < n /\ i + 1 \in Depths(g)
            BY <1>4, <1>8, <2>1, <2>5, SMTT(30) DEF Depths
        <3> QED
            BY <1>8, <2>1, <3>1, ZenonT(60) DEF Nested
    <2> QED
        BY <2>3, <2>4, <2>5, ZenonT(60)
<1> QED
    BY <1>3, <1>5, <1>6, <1>7, <1>8, ZenonT(60)

\* Whatever the exchanges and however deep they are nested: if no look-up is, over
\* other look-ups, needed for itself, then no goroutines wait for each other's
\* channels in cacheLock.  Where one is, the goroutine waits for itself: a server
\* whose name is looked up with that server.
THEOREM NobodyWaitsInCircle == ASSUME Layered PROVE Spec => []NoCircularWait
<1>1. Init => LockInv /\ CacheTyped /\ Nested
    <2>1. SUFFICES ASSUME Init PROVE Nested
        BY InitLock, ZenonT(60)
    <2>2. \A h \in Goroutines : Depths(h) = {}
        BY <2>1 DEF Init, Depths
    <2> QED
        BY <2>2, ZenonT(60) DEF Nested
<1>2. LockInv /\ CacheTyped /\ Nested /\ [Next]_vars => LockInv' /\ CacheTyped' /\ Nested'
    <2>1. SUFFICES ASSUME LockInv, CacheTyped, Nested, [Next]_vars PROVE Nested'
        BY LockStep, CacheTypedStep, ZenonT(60)
    <2>2. CASE UNCHANGED stack
        BY <2>1, <2>2, SameNested, ZenonT(60) DEF SameRequests
    <2> QED
        BY <2>1, <2>2, StepNested, ZenonT(60) DEF Next, Expire, ExpireRDRC, ClearCache, vars
<1>3. LockInv /\ Nested => NoCircularWait
    BY NestedApart, ZenonT(60)
<1> QED
    BY <1>1, <1>2, <1>3, PTL DEF Spec
=============================================================================
