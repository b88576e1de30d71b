-------------------------------- MODULE URLTest -------------------------------
(***************************************************************************)
(* The URL-test group, core/protocol/group/urltest.go: the loop that tests *)
(* the outbounds while the group is in use, and the choice among them by   *)
(* delay.  Delays are kept in core/common/urltest's history, by the tag of *)
(* the outbound that a nested group stands for.                            *)
(*                                                                         *)
(* Dials, the loop, the test that PostStart starts and those that control  *)
(* APIs ask for run on goroutines of their own.  Time is the age of        *)
(* lastActive in intervals; 2 are past idleTimeout.  Select reads the      *)
(* history in one step here.                                               *)
(***************************************************************************)
EXTENDS Group, Sequences, Functions

CONSTANTS Outbounds,   \* the outbounds, a sequence of tags
          RealTag,     \* the tag each of them stands for
          Supports,    \* the networks of each of them
          Delays,      \* delays a test may measure
          Tolerance,
          Width,       \* of a delay: 16 bits
          Loops        \* names for goroutines that run loopCheck

Networks == {"tcp", "udp"}

Tags == Range(Outbounds)

Reals == {RealTag[o] : o \in Tags}

\* Names that the model uses besides are no tags and no loops.
ASSUME ConstantsAssumption ==
    /\ Outbounds \in Seq(Tags)
    /\ Delays \subseteq Nat /\ Tolerance \in Nat
    /\ Width \in Nat /\ 2^Width \in Nat \ {0}
    /\ None \notin Tags \cup Loops \cup {"running", "stopped", "open"}
    /\ "open" \notin Tags
    /\ "other" \notin Loops

VARIABLES started,
          ticker,         \* None, "running" or "stopped"
          tick,           \* the ticker's channel holds a tick
          pauseCallback,  \* the ticker is registered with the pause manager
          closeChan,      \* the channel close has been closed
          closed,         \* Close has been called
          age,            \* of lastActive
          loop,           \* the next step of each loopCheck
          checking,       \* the caller of the urlTest that runs, None
          step,           \* its next step
          pending,        \* the tests it waits for
          updated,        \* performUpdateCheck's local variable
          history,        \* delay of each real tag, None
          selectedOutbound, \* selectedOutboundTCP, selectedOutboundUDP
          conns,          \* each connection: None, the outbound being dialed, or "open"
          outdated,       \* history: connections registered when the choice changed
          lateTouch       \* history: a Touch has made a ticker after Close

loopVars == <<started, ticker, tick, pauseCallback, closeChan, closed, age, loop, lateTouch>>
testVars == <<checking, step, pending, updated>>
vars == <<loopVars, testVars, history, selectedOutbound, conns, outdated>>

Init ==
    /\ started = FALSE
    /\ ticker = None /\ tick = FALSE /\ pauseCallback = FALSE
    /\ closeChan = FALSE /\ closed = FALSE
    /\ age = 0
    /\ loop = [l \in Loops |-> "off"]
    /\ checking = None /\ step = "idle" /\ pending = {} /\ updated = FALSE
    /\ history = [r \in Reals |-> None]
    /\ selectedOutbound = [n \in Networks |-> None]
    /\ conns = [c \in Conns |-> None]
    /\ outdated = {} /\ lateTouch = FALSE
-------------------------------------------------------------------------------
(* Select.                                                                 *)

\* An outbound of delay d replaces one of delay m; 0 stands for none yet.
Replaces(d, m) == m = 0 \/ m > (d + Tolerance) % 2^Width

\* Mutant: the scan does not start from the selected outbound.
StartFresh(n) == [outbound |-> None, delay |-> 0]

\* Where the scan starts: the selected outbound, if it has been measured.
StartFrom(n) ==
    LET s == selectedOutbound[n] IN
    IF s # None /\ history[RealTag[s]] # None
    THEN [outbound |-> s, delay |-> history[RealTag[s]]]
    ELSE [outbound |-> None, delay |-> 0]

\* One turn of the scan: an outbound of another network, or without a
\* measurement, is passed over.
Better(o, n, soFar) ==
    LET d == history[RealTag[o]] IN
    IF n \in Supports[o] /\ d # None /\ Replaces(d, soFar.delay)
    THEN [outbound |-> o, delay |-> d] ELSE soFar

\* The best outbound after each turn of the scan.
Scan(n) ==
    LET best[i \in 0 .. Len(Outbounds)] ==
            IF i = 0 THEN StartFrom(n) ELSE Better(Outbounds[i], n, best[i - 1])
    IN best

\* The first outbound that supports the network.
FirstSupporting(n) ==
    LET supporting == {i \in 1 .. Len(Outbounds) : n \in Supports[Outbounds[i]]} IN
    IF supporting = {} THEN None
    ELSE Outbounds[CHOOSE i \in supporting : \A j \in supporting : i <= j]

\* The outbound and whether it has been measured; the first one otherwise.
Select(n) ==
    LET best == Scan(n)[Len(Outbounds)] IN
    IF best.outbound # None THEN [outbound |-> best.outbound, exists |-> TRUE]
    ELSE [outbound |-> FirstSupporting(n), exists |-> FALSE]
-------------------------------------------------------------------------------
(* The life of the group.                                                  *)

\* The goroutine it starts is a caller of CheckOutbounds.
PostStart ==
    /\ ~started /\ ~closed
    /\ started' = TRUE /\ age' = 0
    /\ UNCHANGED <<ticker, tick, pauseCallback, closeChan, closed, loop, lateTouch, testVars,
                   history, selectedOutbound, conns, outdated>>

\* go loopCheck(), under a name that is free.
Start ==
    LET free == {l \in Loops : loop[l] = "off"} IN
    /\ free # {}
    /\ loop' = [loop EXCEPT ![CHOOSE l \in free : TRUE] = "begin"]

\* Mutant: a ticker is made although there is one.
TouchAlways ==
    IF ~started THEN UNCHANGED loopVars
    ELSE /\ ticker' = "running"
         /\ tick' = FALSE /\ pauseCallback' = TRUE
         /\ Start
         /\ lateTouch' = (lateTouch \/ closed)
         /\ UNCHANGED <<started, closeChan, closed, age>>

\* Touch, under the lock: the first use after an idle time starts the loop,
\* which refreshes lastActive itself.
Touch ==
    IF ~started THEN UNCHANGED loopVars
    ELSE IF ticker # None THEN /\ age' = 0
                               /\ UNCHANGED <<started, ticker, tick, pauseCallback, closeChan,
                                              closed, loop, lateTouch>>
    ELSE /\ ticker' = "running"
         /\ tick' = FALSE /\ pauseCallback' = TRUE
         /\ Start
         /\ lateTouch' = (lateTouch \/ closed)
         /\ UNCHANGED <<started, closeChan, closed, age>>

\* DialContext and ListenPacket: Touch, then the selected outbound, or Select's.
Dial(c, n) ==
    /\ conns[c] = None
    /\ Touch
    /\ LET o == IF selectedOutbound[n] # None THEN selectedOutbound[n] ELSE Select(n).outbound IN
       conns' = [conns EXCEPT ![c] = o]
    /\ UNCHANGED <<testVars, history, selectedOutbound, outdated>>

\* The dial returns: the connection enters the interrupt group, or the history of
\* the outbound's own tag is deleted.
DialReturns(c) ==
    /\ conns[c] \in Tags
    /\ \/ /\ conns' = [conns EXCEPT ![c] = "open"]
          /\ UNCHANGED history
       \/ /\ conns' = [conns EXCEPT ![c] = None]
          /\ history' = [r \in Reals |-> IF r = conns[c] THEN None ELSE history[r]]
    /\ UNCHANGED <<loopVars, testVars, selectedOutbound, outdated>>

CloseConn(c) ==
    /\ conns[c] = "open"
    /\ conns' = [conns EXCEPT ![c] = None]
    /\ outdated' = outdated \ {c}
    /\ UNCHANGED <<loopVars, testVars, history, selectedOutbound>>

\* Mutant: the loop is not told.
CloseQuiet ==
    /\ ~closed /\ closed' = TRUE
    /\ ticker' = IF ticker = None THEN None ELSE "stopped"
    /\ pauseCallback' = FALSE
    /\ UNCHANGED <<started, tick, closeChan, age, loop, lateTouch, testVars,
                   history, selectedOutbound, conns, outdated>>

\* Close, under the lock; without a ticker it leaves everything as it is.
Close ==
    /\ ~closed /\ closed' = TRUE
    /\ IF ticker = None THEN UNCHANGED <<ticker, pauseCallback, closeChan>>
       ELSE ticker' = "stopped" /\ pauseCallback' = FALSE /\ closeChan' = TRUE
    /\ UNCHANGED <<started, tick, age, loop, lateTouch, testVars, history, selectedOutbound,
                   conns, outdated>>

\* A goroutine that can go on does so within an interval, which is seconds long.
Waiting(l) == loop[l] \in {"off", "test"} \/ (loop[l] = "wait" /\ ~tick /\ ~closeChan)

\* An interval passes, with a tick of a running ticker.
TimePasses ==
    /\ \A l \in Loops : Waiting(l)
    /\ age' = IF age < 2 THEN age + 1 ELSE age
    /\ tick' = (tick \/ ticker = "running")
    /\ UNCHANGED <<started, ticker, pauseCallback, closeChan, closed, loop, lateTouch,
                   testVars, history, selectedOutbound, conns, outdated>>
-------------------------------------------------------------------------------
(* loopCheck.                                                              *)

GoTo(l, next) == loop' = [loop EXCEPT ![l] = next]

LoopBegin(l) ==
    /\ loop[l] = "begin"
    /\ IF age >= 1 THEN age' = 0 /\ GoTo(l, "check") ELSE GoTo(l, "wait") /\ UNCHANGED age
    /\ UNCHANGED <<started, ticker, tick, pauseCallback, closeChan, closed, lateTouch,
                   testVars, history, selectedOutbound, conns, outdated>>

\* The select between the close channel and the ticker.
LoopWakes(l) ==
    /\ loop[l] = "wait"
    /\ \/ closeChan /\ GoTo(l, "off") /\ UNCHANGED tick
       \/ tick /\ tick' = FALSE /\ GoTo(l, IF age = 2 THEN "stop" ELSE "check")
    /\ UNCHANGED <<started, ticker, pauseCallback, closeChan, closed, age, lateTouch,
                   testVars, history, selectedOutbound, conns, outdated>>

\* The group was idle when the loop looked; a Touch may have come since.
LoopStops(l) ==
    /\ loop[l] = "stop"
    /\ ticker' = None /\ pauseCallback' = FALSE
    /\ GoTo(l, "off")
    /\ UNCHANGED <<started, tick, closeChan, closed, age, lateTouch, testVars,
                   history, selectedOutbound, conns, outdated>>
-------------------------------------------------------------------------------
(* urlTest.                                                                *)

\* The caller w goes on.
Resume(w) ==
    loop' = IF w \in Loops THEN [loop EXCEPT ![w] = "wait"] ELSE loop

\* checking.Swap: a call during another one returns at once.  What has been
\* measured within the interval is not tested again unless forced.
UrlTest(w, force) ==
    /\ IF checking # None THEN Resume(w) /\ UNCHANGED <<checking, step, pending>>
       ELSE /\ checking' = w /\ step' = "test"
            /\ \E tested \in SUBSET Reals :
                   /\ {r \in Reals : history[r] = None \/ force} \subseteq tested
                   /\ pending' = tested
            /\ loop' = IF w \in Loops THEN [loop EXCEPT ![w] = "test"] ELSE loop
    /\ UNCHANGED <<started, ticker, tick, pauseCallback, closeChan, closed, age, lateTouch, updated,
                   history, selectedOutbound, conns, outdated>>

\* The callers besides the loop: a control API, and once the goroutine that
\* PostStart starts.
CheckOutbounds ==
    \/ \E l \in Loops : loop[l] = "check" /\ UrlTest(l, FALSE)
    \/ started /\ \E force \in BOOLEAN : UrlTest("other", force)

\* A test measures a delay, or fails and deletes the last one.
TestReturns(r) ==
    /\ step = "test" /\ r \in pending
    /\ pending' = pending \ {r}
    /\ history' \in {[history EXCEPT ![r] = d] : d \in Delays \cup {None}}
    /\ UNCHANGED <<loopVars, checking, step, updated, selectedOutbound, conns, outdated>>

\* performUpdateCheck for one network.
Update(n, next) ==
    LET chosen == Select(n)
        changes == /\ chosen.outbound # None
                   /\ \/ selectedOutbound[n] = None
                      \/ chosen.exists /\ chosen.outbound # selectedOutbound[n]
    IN
    /\ selectedOutbound' = IF changes THEN [selectedOutbound EXCEPT ![n] = chosen.outbound]
                           ELSE selectedOutbound
    /\ updated' = (updated \/ (changes /\ selectedOutbound[n] # None))
    /\ outdated' = IF changes /\ selectedOutbound[n] # None
                   THEN outdated \cup {c \in Conns : conns[c] = "open"}
                   ELSE outdated
    /\ step' = next
    /\ UNCHANGED <<loopVars, checking, pending, history, conns>>

UpdateTCP == step = "test" /\ pending = {} /\ Update("tcp", "udp")

UpdateUDP == step = "udp" /\ Update("udp", "interrupt")

\* Mutant: the check ends without the deferred Store.
FinishStuck ==
    /\ step = "interrupt"
    /\ conns' = [c \in Conns |-> IF updated /\ conns[c] = "open"
                                 THEN None ELSE conns[c]]
    /\ outdated' = {}
    /\ step' = "idle" /\ updated' = FALSE
    /\ Resume(checking)
    /\ UNCHANGED <<started, ticker, tick, pauseCallback, closeChan, closed, age, lateTouch, checking,
                   pending, history, selectedOutbound>>

\* Mutant: nothing is interrupted.
InterruptNone ==
    /\ step = "interrupt"
    /\ UNCHANGED conns
    /\ outdated' = {}
    /\ checking' = None /\ step' = "idle" /\ updated' = FALSE
    /\ Resume(checking)
    /\ UNCHANGED <<started, ticker, tick, pauseCallback, closeChan, closed, age, lateTouch,
                   pending, history, selectedOutbound>>

\* A changed choice interrupts the group's connections; checking.Store(false).
Finish ==
    /\ step = "interrupt"
    /\ conns' = [c \in Conns |-> IF updated /\ conns[c] = "open"
                                 THEN None ELSE conns[c]]
    /\ outdated' = {}
    /\ checking' = None /\ step' = "idle" /\ updated' = FALSE
    /\ Resume(checking)
    /\ UNCHANGED <<started, ticker, tick, pauseCallback, closeChan, closed, age, lateTouch,
                   pending, history, selectedOutbound>>

LoopStep(l) ==
    \/ LoopBegin(l) \/ LoopWakes(l) \/ LoopStops(l)
    \/ loop[l] = "check" /\ UrlTest(l, FALSE)

TestStep == (\E r \in Reals : TestReturns(r)) \/ UpdateTCP \/ UpdateUDP \/ Finish

Next ==
    \/ PostStart
    \/ \E c \in Conns : (\E n \in Networks : Dial(c, n)) \/ DialReturns(c) \/ CloseConn(c)
    \/ Close
    \/ TimePasses
    \/ \E l \in Loops : LoopStep(l)
    \/ CheckOutbounds
    \/ TestStep

\* Goroutines that can go on do, tests end by their timeout, time passes.
Fairness ==
    /\ \A l \in Loops : WF_vars(LoopStep(l))
    /\ WF_vars(TestStep)
    /\ WF_vars(TimePasses)

Spec == Init /\ [][Next]_vars /\ Fairness
-------------------------------------------------------------------------------
Alive == {l \in Loops : loop[l] # "off"}

\* However dials, idle stops and Close interleave, at most one loop runs, it has
\* a ticker to wait for, and a running ticker has its loop, unless a dial in
\* flight made the ticker after Close.
OneLoopPerTicker ==
    /\ Cardinality(Alive) <= 1
    /\ Alive # {} => ticker # None
    /\ ticker = "running" /\ ~lateTouch => Alive # {} /\ pauseCallback

\* The delays that Select is meant for: none is 0, and no sum wraps.
Measured(n) == {o \in Tags : n \in Supports[o] /\ history[RealTag[o]] # None}

Delay(o) == history[RealTag[o]]

Regular(n) == \A o \in Measured(n) : Delay(o) > 0 /\ Delay(o) + Tolerance < 2^Width

\* Select's answer is at most the tolerance slower than the fastest outbound, and
\* differs from the selected one only when it is faster by more than that: the
\* choice follows the delays without going back and forth between equal ones.
SelectWithinTolerance ==
    \A n \in Networks : Regular(n) /\ Measured(n) # {} =>
        LET s == Select(n).outbound IN
        /\ s \in Measured(n)
        /\ \A o \in Measured(n) : Delay(s) <= Delay(o) + Tolerance
        /\ selectedOutbound[n] \in Measured(n) \ {s} =>
               Delay(s) + Tolerance < Delay(selectedOutbound[n])

\* When a check has changed a choice, the connections registered at that moment
\* are closed before the next check begins.
ChangeInterrupts ==
    [][step = "interrupt" /\ step' = "idle" => \A c \in outdated : conns'[c] = None]_vars

\* A dial has chosen its outbound.
Dials == \E c \in Conns : conns[c] = None /\ conns'[c] # None

\* A group that is dialed again and again is tested again and again.
UsedIsTested ==
    []<><<Dials>>_conns /\ <>started /\ []~closed => []<>(step = "idle") /\ []<>(step = "test")

\* A group that is dialed no more stops its loop, by idleness or by Close.
UnusedStops == <>[][~Dials]_conns => <>[](Alive = {})
===============================================================================
