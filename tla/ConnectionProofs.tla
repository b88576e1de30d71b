--------------------------- MODULE ConnectionProofs ---------------------------
(***************************************************************************)
(* Proofs about ConnectionManager and NetworkManager for any number of     *)
(* connections, interfaces and reports.                                    *)
(*                                                                         *)
(* The inductive invariant says, for each connection, where its two        *)
(* goroutines are, which of them calls onClose, and who may have closed an *)
(* end.  The proof that a step keeps it goes connection by connection.     *)
(***************************************************************************)
EXTENDS NetworkManager, TLAPS

\* The two goroutines of a connection.
Up(c) == copier[c]["local"]

Down(c) == copier[c]["remote"]

\* One of them moves from a step in from to the step to.
Moves(c, from, to) ==
    \/ Up(c) \in from /\ Up(c)' = to /\ Down(c)' = Down(c)
    \/ Down(c) \in from /\ Down(c)' = to /\ Up(c)' = Up(c)

\* What no step of a goroutine changes of its connection.
Stays(c) ==
    /\ stage'[c] = stage[c] /\ network'[c] = network[c] /\ closed' = closed
    /\ untracked' = untracked /\ left' = left /\ hijacked' = hijacked /\ legacy' = legacy

\* Steps before and after done.Swap.
Before == {"write", "copy", "send", "failed", "finished", "swap", "swapFailed", "swapPacket"}

After == {"onClose", "close", "done"}

\* The types of one connection's values.
Typed(c) ==
    /\ network[c] \in {"tcp", "udp"} /\ open[c] \subseteq Ends
    /\ onClose[c] \in Nat /\ Up(c) \in Steps /\ Down(c) \in Steps

\* Where the goroutines are.
Shape(c) ==
    /\ stage[c] # "copying" => Up(c) = "off" /\ Down(c) = "off"
    /\ stage[c] = "copying" /\ network[c] = "tcp" =>
           Up(c) \notin {"off", "swapPacket"} /\ Down(c) \notin {"off", "swapPacket"}
    /\ stage[c] = "copying" /\ network[c] # "tcp" =>
           /\ Up(c) \in {"copy", "send", "swapPacket"} \cup After
           /\ Down(c) \in {"copy", "send", "swapPacket"} \cup After
    /\ done[c] <=> (Up(c) \in After \/ Down(c) \in After)

\* onClose has been called: by the second goroutine of a stream, by the first of
\* packets.
Called(c) ==
    /\ Up(c) # "onClose" /\ Down(c) # "onClose"
    /\ network[c] = "tcp" => Up(c) \in After /\ Down(c) \in After
    /\ network[c] # "tcp" => Up(c) \in After \/ Down(c) \in After

\* A connection that ended before the goroutines started has had its call, unless
\* it is one of those that are dropped without; the packets of hijack-dns may have
\* had two.
Dropped(c) ==
    /\ onClose[c] <= 1 \/ (onClose[c] = 2 /\ c \in hijacked /\ network[c] = "udp")
    /\ onClose[c] = 0 => c \notin hijacked /\ (c \in legacy \/ network[c] = "udp")

CallsOnce(c) ==
    /\ Up(c) = "onClose" => Down(c) # "onClose" /\ (network[c] = "tcp" => Down(c) \in After)
    /\ Down(c) = "onClose" /\ network[c] = "tcp" => Up(c) \in After
    /\ stage[c] \notin {"copying", "over"} => onClose[c] = 0
    /\ stage[c] = "over" => Dropped(c)
    /\ stage[c] = "copying" => onClose[c] = IF Called(c) THEN 1 ELSE 0
    /\ c \in hijacked => stage[c] \in {"hijacked", "over"}
    /\ stage[c] = "hijacked" => c \in hijacked
    /\ c \in left => stage[c] = "over"

\* The list has the connections whose onClose is still to come, until Close.
Listed(c) ==
    /\ c \in connections => stage[c] = "copying" /\ onClose[c] = 0
    /\ ~closed /\ stage[c] = "copying" /\ onClose[c] = 0 => c \in connections

\* Which ends are open.
Opened(c) ==
    /\ stage[c] = "none" => open[c] = {}
    /\ stage[c] = "over" => open[c] = {} \/ (c \in left /\ open[c] = {"local"})
    /\ stage[c] \in {"routing", "hijacked", "dialing", "connecting"} => open[c] = {"local"}
    /\ stage[c] \in {"checking", "reporting", "tracking"} /\ c \notin cut => open[c] = Ends
    /\ Up(c) = "done" /\ Down(c) = "done" => open[c] = {}
    /\ network[c] # "tcp" /\ (Up(c) = "done" \/ Down(c) = "done") => open[c] = {}

\* What has happened to a stream that was closed here before both directions ended.
Failing(c) ==
    network[c] = "tcp" =>
        /\ Up(c) \in {"failed", "swapFailed"} \/ Down(c) \in {"failed", "swapFailed"} =>
               c \in cut
        /\ (Up(c) = "close" \/ Down(c) = "close") /\ c \notin cut =>
               Up(c) \in After /\ Down(c) \in After
        /\ c \notin cut /\ (Up(c) \in Before \/ Down(c) \in Before) =>
               open[c] = Ends

\* What Close has left.
Missed(c) ==
    closed => /\ stage[c] = "copying" \/ c \in untracked
              /\ "local" \in open[c] =>
                     c \in untracked \/ Up(c) = "close" \/ Down(c) = "close"

Good(c) == Shape(c) /\ CallsOnce(c) /\ Listed(c) /\ Opened(c) /\ Failing(c) /\ Missed(c)

ConnInv == \A c \in Connections : Good(c)

-------------------------------------------------------------------------------
\* What the types say of one connection.
LEMMA TypedPoint ==
    ASSUME ConnTypeOK, NEW c \in Connections
    PROVE  Typed(c)
BY DEF ConnTypeOK, Typed, Up, Down, Ends

\* What a step of one goroutine changes.
LEMMA GoToPoint ==
    ASSUME ConnTypeOK,
           NEW d \in Connections, NEW f \in Ends, NEW step, GoTo(d, f, step),
           NEW from, copier[d][f] \in from
    PROVE  /\ Moves(d, from, step)
           /\ \A c \in Connections : c # d => copier'[c] = copier[c]
<1>1. /\ copier'[d] = [copier[d] EXCEPT ![f] = step]
      /\ \A c \in Connections : c # d => copier'[c] = copier[c]
  BY ZenonT(60) DEF GoTo, ConnTypeOK
<1>2. CASE f = "local"
  BY <1>1, <1>2 DEF Moves, Up, Down, Ends, ConnTypeOK
<1>3. CASE f = "remote"
  BY <1>1, <1>3 DEF Moves, Up, Down, Ends, ConnTypeOK
<1> QED
  BY <1>1, <1>2, <1>3, ZenonT(60) DEF Ends

\* What closing ends of one connection changes.
LEMMA CloseEndsPoint ==
    ASSUME ConnTypeOK, NEW d \in Connections, NEW es \in SUBSET Ends, CloseEnds(d, es)
    PROVE  /\ open' \in [Connections -> SUBSET Ends]
           /\ openConnection' = {c \in Connections : "remote" \in open'[c]}
           /\ open'[d] = open[d] \ es
           /\ \A c \in Connections : c # d => open'[c] = open[c]
BY ZenonT(60) DEF CloseEnds, Ends, ConnTypeOK

\* A step that changes nothing of a connection, but may close its remote end from
\* outside, keeps the connection's invariant.
LEMMA Apart ==
    ASSUME NEW c \in Connections, Good(c), ConnTypeOK,
           stage'[c] = stage[c], network'[c] = network[c], copier'[c] = copier[c],
           done'[c] = done[c], onClose'[c] = onClose[c],
           closed' = closed, untracked' = untracked,
           c \in connections' <=> c \in connections, c \in left' <=> c \in left,
           c \in hijacked' <=> c \in hijacked, c \in legacy' <=> c \in legacy,
           c \in cut => c \in cut',
           \/ open'[c] = open[c]
           \/ open'[c] = open[c] \ {"remote"} /\ "remote" \in open[c] /\ c \in cut'
    PROVE  Good(c)'
<1> USE DEF Good, Up, Down
<1>1. Shape(c)'
  BY ZenonT(60) DEF Shape
<1>2. CallsOnce(c)'
  BY ZenonT(60) DEF CallsOnce, Called, Dropped
<1>3. Listed(c)'
  BY ZenonT(60) DEF Listed
<1>4. Opened(c)'
  BY ZenonT(60) DEF Opened
<1>5. Failing(c)'
  BY ZenonT(60) DEF Failing
<1>6. Missed(c)'
  BY ZenonT(60) DEF Missed
<1> QED
  BY <1>1, <1>2, <1>3, <1>4, <1>5, <1>6, ZenonT(60)

\* A step of a connection that has no goroutines yet and goes on, with the local
\* end open or with both.
LEMMA Unstarted ==
    ASSUME NEW c \in Connections, Good(c), Typed(c),
           stage[c] \notin {"copying", "over"}, copier'[c] = copier[c],
           done'[c] = done[c], onClose'[c] = onClose[c], connections' = connections,
           closed' = closed, untracked' = untracked, left' = left,
           c \in hijacked' <=> stage'[c] = "hijacked",
           \/ /\ stage'[c] \in {"routing", "hijacked", "dialing", "connecting"}
              /\ open'[c] = {"local"}
           \/ /\ stage'[c] \in {"checking", "reporting", "tracking"}
              /\ c \notin cut' => open'[c] = Ends
              /\ "local" \in open'[c] => "local" \in open[c]
    PROVE  Good(c)'
<1> USE DEF Good
<1>0. /\ Up(c)' = "off" /\ Down(c)' = "off" /\ onClose[c] = 0 /\ c \notin connections
      /\ c \notin left
  BY ZenonT(60) DEF Up, Down, Shape, CallsOnce, Listed
<1>1. Shape(c)'
  BY <1>0, ZenonT(60) DEF Typed, Shape, Before, After
<1>2. CallsOnce(c)'
  BY <1>0 DEF CallsOnce, Called, After
<1>3. Listed(c)'
  BY <1>0, ZenonT(60) DEF Listed
<1>4. Opened(c)'
  BY <1>0, ZenonT(60) DEF Opened
<1>5. Failing(c)'
  BY <1>0, ZenonT(60) DEF Failing, Before
<1>6. Missed(c)'
  BY <1>0, ZenonT(60) DEF Missed, Before
<1> QED
  BY <1>1, <1>2, <1>3, <1>4, <1>5, <1>6, ZenonT(60)

\* The end of a connection that has no goroutines yet.
LEMMA Ended ==
    ASSUME NEW c \in Connections, Good(c), Typed(c),
           stage[c] \notin {"copying", "over"}, copier'[c] = copier[c],
           done'[c] = done[c], connections' = connections, network' = network,
           closed' = closed, untracked' = untracked, hijacked' = hijacked,
           stage'[c] = "over",
           open'[c] = {} \/ (open'[c] = open[c] /\ open[c] = {"local"} /\ c \in left'),
           \/ onClose'[c] = onClose[c] + 1
           \/ /\ onClose'[c] = onClose[c] + 0
              /\ c \notin hijacked /\ (c \in legacy' \/ network[c] = "udp")
           \/ onClose'[c] = onClose[c] + 2 /\ c \in hijacked /\ network[c] = "udp"
    PROVE  Good(c)'
<1> USE DEF Good
<1>0. Up(c)' = "off" /\ Down(c)' = "off" /\ onClose[c] = 0 /\ c \notin connections
  BY ZenonT(60) DEF Up, Down, Shape, CallsOnce, Listed
<1>1. Shape(c)'
  BY <1>0, ZenonT(60) DEF Typed, Shape, Before, After
<1>2. Dropped(c)'
  BY <1>0 DEF Dropped
<1>3. CallsOnce(c)'
  BY <1>0, <1>2, ZenonT(60) DEF CallsOnce, Called, After
<1>4. Listed(c)'
  BY <1>0, ZenonT(60) DEF Listed
<1>5. Opened(c)'
  BY <1>0, ZenonT(60) DEF Opened
<1>6. Failing(c)'
  BY <1>0, ZenonT(60) DEF Failing, Before
<1>7. Missed(c)'
  BY <1>0, ZenonT(60) DEF Missed, Before
<1> QED
  BY <1>1, <1>3, <1>4, <1>5, <1>6, <1>7, ZenonT(60)

\* A step of a goroutine that has not reached done.Swap.
LEMMA Copying ==
    ASSUME NEW c \in Connections, Good(c), Typed(c), Stays(c),
           NEW from \in Before, NEW to \in Before, Moves(c, {from}, to),
           network[c] = "tcp" => to # "swapPacket",
           network[c] # "tcp" => to \in {"copy", "send", "swapPacket"},
           to \in {"failed", "swapFailed"} => c \in cut',
           done'[c] = done[c], onClose'[c] = onClose[c], connections' = connections,
           c \in cut => c \in cut',
           open'[c] = open[c] \/ (open'[c] \subseteq open[c] /\ c \in cut')
    PROVE  Good(c)'
<1> USE DEF Good, Stays, Moves
<1>1. Shape(c)'
  BY ZenonT(60) DEF Typed, Shape, Before, After
<1>2. CallsOnce(c)'
  BY ZenonT(60) DEF Typed, CallsOnce, Called, Shape, Before, After
<1>3. Listed(c)'
  BY ZenonT(60) DEF Listed
<1>4. Opened(c)'
  BY ZenonT(60) DEF Opened, Shape, Before, After
<1>5. Failing(c)'
  BY ZenonT(60) DEF Failing, Opened, Shape, CallsOnce, Before, After
<1>6. Missed(c)'
  BY ZenonT(60) DEF Missed, Before
<1> QED
  BY <1>1, <1>2, <1>3, <1>4, <1>5, <1>6, ZenonT(60)

\* done.Swap by the goroutine that calls onClose.
LEMMA SwapsLast ==
    ASSUME NEW c \in Connections, Good(c), Typed(c), Stays(c),
           Moves(c, {"swap", "swapFailed", "swapPacket"}, "onClose"),
           done[c] <=> network[c] = "tcp", done'[c] = TRUE,
           onClose'[c] = onClose[c], connections' = connections, cut' = cut,
           open'[c] = open[c]
    PROVE  Good(c)'
<1> USE DEF Good, Stays, Moves
<1>1. Shape(c)'
  BY ZenonT(60) DEF Typed, Shape, Before, After
<1>2. CallsOnce(c)'
  BY ZenonT(60) DEF Typed, CallsOnce, Called, Shape, Before, After
<1>3. Listed(c)'
  BY ZenonT(60) DEF Listed
<1>4. Opened(c)'
  BY ZenonT(60) DEF Opened, Shape, Before, After
<1>5. Failing(c)'
  BY ZenonT(60) DEF Failing, Opened, Shape, CallsOnce, Before, After
<1>6. Missed(c)'
  BY ZenonT(60) DEF Missed, Before
<1> QED
  BY <1>1, <1>2, <1>3, <1>4, <1>5, <1>6, ZenonT(60)

\* done.Swap by the other one.
LEMMA SwapsFirst ==
    ASSUME NEW c \in Connections, Good(c), Typed(c), Stays(c),
           \/ Moves(c, {"swap"}, "done")
           \/ Moves(c, {"swapFailed", "swapPacket"}, "close"),
           done[c] <=> network[c] # "tcp", done'[c] = TRUE,
           onClose'[c] = onClose[c], connections' = connections, cut' = cut,
           open'[c] = open[c]
    PROVE  Good(c)'
<1> USE DEF Good, Stays, Moves
<1>1. Shape(c)'
  BY ZenonT(60) DEF Typed, Shape, Before, After
<1>2. CallsOnce(c)'
  BY ZenonT(60) DEF Typed, CallsOnce, Called, Shape, Before, After
<1>3. Listed(c)'
  BY ZenonT(60) DEF Listed
<1>4. Opened(c)'
  BY ZenonT(60) DEF Opened, Shape, Before, After
<1>5. Failing(c)'
  BY ZenonT(60) DEF Failing, Opened, Shape, CallsOnce, Before, After
<1>6. Missed(c)'
  BY ZenonT(60) DEF Missed, Before
<1> QED
  BY <1>1, <1>2, <1>3, <1>4, <1>5, <1>6, ZenonT(60)

\* The call of onClose.
LEMMA Calls ==
    ASSUME NEW c \in Connections, Good(c), Typed(c), Stays(c),
           Moves(c, {"onClose"}, "close"), onClose'[c] = onClose[c] + 1,
           connections' = connections \ {c},
           done'[c] = done[c], cut' = cut, open'[c] = open[c]
    PROVE  Good(c)'
<1> USE DEF Good, Stays, Moves
<1>0. stage[c] = "copying" /\ onClose[c] = 0 /\ onClose'[c] = 1
  BY DEF Shape, CallsOnce, Called
<1>1. Shape(c)'
  BY <1>0, ZenonT(60) DEF Typed, Shape, Before, After
<1>2. CallsOnce(c)'
  BY <1>0, ZenonT(60) DEF Typed, CallsOnce, Called, Shape, Before, After
<1>3. Listed(c)'
  BY <1>0 DEF Listed
<1>4. Opened(c)'
  BY <1>0, ZenonT(60) DEF Opened, Shape, Before, After
<1>5. Failing(c)'
  BY <1>0, ZenonT(60) DEF Failing, Opened, Shape, CallsOnce, Before, After
<1>6. Missed(c)'
  BY <1>0, ZenonT(60) DEF Missed, Before
<1> QED
  BY <1>1, <1>2, <1>3, <1>4, <1>5, <1>6, ZenonT(60)

\* The goroutine closes both ends.
LEMMA Closes ==
    ASSUME NEW c \in Connections, Good(c), Typed(c), Stays(c),
           Moves(c, {"close"}, "done"), open'[c] = {},
           done'[c] = done[c], onClose'[c] = onClose[c], connections' = connections,
           cut' = cut
    PROVE  Good(c)'
<1> USE DEF Good, Stays, Moves
<1>1. Shape(c)'
  BY ZenonT(60) DEF Typed, Shape, Before, After
<1>2. CallsOnce(c)'
  BY ZenonT(60) DEF Typed, CallsOnce, Called, Shape, Before, After
<1>3. Listed(c)'
  BY ZenonT(60) DEF Listed
<1>4. Opened(c)'
  BY ZenonT(60) DEF Opened, Shape, Before, After
<1>5. Failing(c)'
  BY ZenonT(60) DEF Failing, Opened, Shape, CallsOnce, Before, After
<1>6. Missed(c)'
  BY ZenonT(60) DEF Missed, Before
<1> QED
  BY <1>1, <1>2, <1>3, <1>4, <1>5, <1>6, ZenonT(60)
------------------------------------------------------------------------------
(* The steps of a connection before its goroutines start.                  *)

\* A connection that is accepted starts with its local end open.
LEMMA AcceptKeeps ==
    ASSUME ConnTypeOK, NEW c \in Connections, Typed(c), Good(c),
           NEW d \in Connections, Accept(d)
    PROVE  Good(c)'
<1>1. CASE c # d
  <2>1. /\ stage'[c] = stage[c] /\ network'[c] = network[c]
        /\ \/ open'[c] = open[c] /\ cut' = cut
           \/ /\ open'[c] = IF c \in openConnection THEN open[c] \ {"remote"} ELSE open[c]
              /\ cut' = cut \cup openConnection
              /\ c \in openConnection => "remote" \in open[c]
    BY <1>1, ZenonT(60) DEF Accept, WithoutTracked, ConnTypeOK
  <2> QED
    BY <1>1, <2>1, Apart, ZenonT(60) DEF Accept, WithoutTracked
<1>2. CASE c = d
  <2>1. stage'[c] = "routing" /\ open'[c] = {"local"}
    BY <1>2, ZenonT(60) DEF Accept, WithoutTracked, ConnTypeOK, Good, Opened, Ends
  <2> QED
    BY <1>2, <2>1, Unstarted, ZenonT(60) DEF Accept, Good, CallsOnce
<1> QED
  BY <1>1, <1>2, ZenonT(60)

\* A step that changes only the stage.
LEMMA AdvanceKeeps ==
    ASSUME ConnTypeOK, NEW c \in Connections, Typed(c), Good(c),
           NEW d \in Connections, NEW from, NEW to, Advance(d, from, to),
           \/ from \in {"routing", "dialing", "connecting"} /\ to \in {"dialing", "connecting"}
           \/ from = "reporting" /\ to = "tracking"
    PROVE  Good(c)'
<1>0. /\ copier' = copier /\ done' = done /\ onClose' = onClose /\ connections' = connections
      /\ closed' = closed /\ untracked' = untracked /\ left' = left /\ hijacked' = hijacked
      /\ legacy' = legacy /\ network' = network /\ open' = open /\ cut' = cut
      /\ stage[d] = from
  BY ZenonT(60) DEF Advance
<1>1. CASE c # d
  <2>1. stage'[c] = stage[c]
    BY <1>1, ZenonT(60) DEF Advance, ConnTypeOK
  <2> QED
    BY <1>0, <1>1, <2>1, Apart, ZenonT(60)
<1>2. CASE c = d
  <2>1. stage'[c] = to /\ c \notin hijacked
    BY <1>0, <1>2 DEF Advance, ConnTypeOK, Good, CallsOnce
  <2>2. CASE from \in {"routing", "dialing", "connecting"} /\ to \in {"dialing", "connecting"}
    <3>1. open'[c] = {"local"} /\ stage[c] \notin {"copying", "over"}
      BY <1>0, <1>2, <2>2 DEF Good, Opened
    <3> QED
      BY <1>0, <2>1, <2>2, <3>1, Unstarted, ZenonT(60)
  <2>3. CASE from = "reporting" /\ to = "tracking"
    <3>1. (c \notin cut' => open'[c] = Ends) /\ stage[c] \notin {"copying", "over"}
      BY <1>0, <1>2, <2>3 DEF Good, Opened
    <3> QED
      BY <1>0, <2>1, <2>3, <3>1, Unstarted, ZenonT(60)
  <2> QED
    BY <2>2, <2>3, ZenonT(60)
<1> QED
  BY <1>1, <1>2, ZenonT(60)

\* A connection that ends before it has goroutines, with both ends closed or with
\* the local one left to the caller.
LEMMA DropKeeps ==
    ASSUME ConnTypeOK, NEW c \in Connections, Typed(c), Good(c),
           NEW d \in Connections, NEW calls,
           \/ Drop(d, calls) /\ left' = left
           \/ LeaveToCaller(d, calls) /\ stage[d] \in {"routing", "hijacked"},
           stage[d] \notin {"copying", "over"},
           legacy' = legacy \/ legacy' = legacy \cup {d},
           \/ calls = 1
           \/ calls = 0 /\ stage[d] # "hijacked" /\ (d \in legacy' \/ network[d] = "udp")
           \/ calls = 2 /\ d \in hijacked /\ network[d] = "udp",
           copier' = copier, done' = done, connections' = connections, network' = network,
           closed' = closed, untracked' = untracked, hijacked' = hijacked, cut' = cut
    PROVE  Good(c)'
<1>1. /\ stage' = [stage EXCEPT ![d] = "over"]
      /\ onClose' = [onClose EXCEPT ![d] = @ + calls]
  BY ZenonT(60) DEF Drop, LeaveToCaller
<1>2. /\ c # d => open'[c] = open[c] /\ (c \in left' <=> c \in left)
      /\ c = d => open'[c] = {} \/ (open'[c] = open[c] /\ open[c] = {"local"} /\ c \in left')
  <2>1. CASE Drop(d, calls) /\ left' = left
    <3>1. open'[d] = open[d] \ Ends /\ (c # d => open'[c] = open[c])
      BY <2>1, CloseEndsPoint, ZenonT(60) DEF Drop
    <3>2. open[d] \subseteq Ends
      BY ZenonT(60) DEF ConnTypeOK
    <3> QED
      BY <2>1, <3>1, <3>2, ZenonT(60)
  <2>2. CASE LeaveToCaller(d, calls) /\ stage[d] \in {"routing", "hijacked"}
    BY <2>2, ZenonT(60) DEF LeaveToCaller, Good, Opened
  <2> QED
    BY <2>1, <2>2, ZenonT(60)
<1>3. CASE c # d
  <2>1. stage'[c] = stage[c] /\ onClose'[c] = onClose[c] /\ (c \in legacy' <=> c \in legacy)
    BY <1>1, <1>3, ZenonT(60) DEF ConnTypeOK
  <2> QED
    BY <1>2, <1>3, <2>1, Apart, ZenonT(60)
<1>4. CASE c = d
  <2>1. /\ stage'[c] = "over" /\ onClose'[c] = onClose[c] + calls
        /\ stage[c] # "hijacked" => c \notin hijacked
    BY <1>1, <1>4, ZenonT(60) DEF ConnTypeOK, Good, CallsOnce
  <2> QED
    BY <1>2, <1>4, <2>1, Ended, ZenonT(60)
<1> QED
  BY <1>3, <1>4, ZenonT(60)

\* A connection that cannot be routed is dropped, or left to the caller.
LEMMA RouteFailsKeeps ==
    ASSUME ConnTypeOK, NEW c \in Connections, Typed(c), Good(c),
           NEW d \in Connections, RouteFails(d)
    PROVE  Good(c)'
<1>1. /\ copier' = copier /\ done' = done /\ connections' = connections /\ network' = network
      /\ closed' = closed /\ untracked' = untracked /\ hijacked' = hijacked /\ cut' = cut
      /\ stage[d] = "routing"
  BY ZenonT(60) DEF RouteFails
<1>2. PICK calls \in {0, 1} :
          /\ \/ Drop(d, calls) /\ left' = left
             \/ LeaveToCaller(d, calls)
          /\ legacy' = legacy \/ legacy' = legacy \cup {d}
          /\ calls = 0 => d \in legacy'
  <2>1. 0 # 1
    OBVIOUS
  <2> QED
    BY <2>1, ZenonT(60) DEF RouteFails
<1> QED
  BY <1>1, <1>2, DropKeeps, ZenonT(60)

\* The caller closes the local end it was left.
LEMMA CallerClosesKeeps ==
    ASSUME ConnTypeOK, NEW c \in Connections, Typed(c), Good(c),
           NEW d \in Connections, CallerCloses(d)
    PROVE  Good(c)'
<1>1. /\ copier' = copier /\ done' = done /\ onClose' = onClose /\ connections' = connections
      /\ closed' = closed /\ untracked' = untracked /\ left' = left /\ hijacked' = hijacked
      /\ legacy' = legacy /\ network' = network /\ stage' = stage /\ cut' = cut /\ d \in left
  BY ZenonT(60) DEF CallerCloses
<1>2. open'[d] = open[d] \ {"local"} /\ (c # d => open'[c] = open[c])
  BY CloseEndsPoint, ZenonT(60) DEF CallerCloses, Ends
<1>3. CASE c # d
  BY <1>1, <1>2, <1>3, Apart, ZenonT(60)
<1>4. CASE c = d
  <2> USE DEF Good
  <2>1. stage[c] = "over" /\ open'[c] = {} /\ Up(c) = "off" /\ Down(c) = "off"
    BY <1>1, <1>2, <1>4, ZenonT(60) DEF CallsOnce, Opened, Shape
  <2>2. Up(c)' = Up(c) /\ Down(c)' = Down(c)
    BY <1>1, ZenonT(60) DEF Up, Down
  <2>3. Shape(c)'
    BY <1>1, <2>1, <2>2, ZenonT(60) DEF Shape
  <2>4. CallsOnce(c)'
    BY <1>1, <2>1, <2>2, ZenonT(60) DEF CallsOnce, Called, Dropped
  <2>5. Listed(c)'
    BY <1>1, <2>1, <2>2, ZenonT(60) DEF Listed
  <2>6. Opened(c)'
    BY <1>1, <2>1, <2>2, ZenonT(60) DEF Opened
  <2>7. Failing(c)'
    BY <1>1, <2>1, <2>2, ZenonT(60) DEF Failing, Before
  <2>8. Missed(c)'
    BY <1>1, <2>1, <2>2, ZenonT(60) DEF Missed
  <2> QED
    BY <2>3, <2>4, <2>5, <2>6, <2>7, <2>8, ZenonT(60)
<1> QED
  BY <1>3, <1>4, ZenonT(60)

\* A connection is taken over by hijack-dns.
LEMMA HijackKeeps ==
    ASSUME ConnTypeOK, NEW c \in Connections, Typed(c), Good(c),
           NEW d \in Connections, Hijack(d)
    PROVE  Good(c)'
<1>1. CASE c # d
  <2>1. stage'[c] = stage[c] /\ (c \in hijacked' <=> c \in hijacked)
    BY <1>1, ZenonT(60) DEF Hijack, ConnTypeOK
  <2> QED
    BY <1>1, <2>1, Apart, ZenonT(60) DEF Hijack
<1>2. CASE c = d
  <2>1. stage[c] = "routing" /\ stage'[c] = "hijacked" /\ open'[c] = {"local"}
    BY <1>2, ZenonT(60) DEF Hijack, ConnTypeOK, Good, Opened
  <2> QED
    BY <1>2, <2>1, Unstarted, ZenonT(60) DEF Hijack
<1> QED
  BY <1>1, <1>2, ZenonT(60)

\* hijack-dns ends.
LEMMA HijackEndsKeeps ==
    ASSUME ConnTypeOK, NEW c \in Connections, Typed(c), Good(c),
           NEW d \in Connections, HijackEnds(d), Good(d)
    PROVE  Good(c)'
<1>1. /\ copier' = copier /\ done' = done /\ connections' = connections /\ network' = network
      /\ closed' = closed /\ untracked' = untracked /\ hijacked' = hijacked /\ cut' = cut
      /\ legacy' = legacy /\ stage[d] = "hijacked"
  BY ZenonT(60) DEF HijackEnds
<1>2. PICK calls \in {1, 2} :
          /\ \/ Drop(d, calls) /\ left' = left
             \/ LeaveToCaller(d, calls)
          /\ calls = 2 => network[d] = "udp"
  <2>1. 1 # 2
    OBVIOUS
  <2> QED
    BY <2>1, ZenonT(60) DEF HijackEnds
<1>3. d \in hijacked
  BY <1>1, ZenonT(60) DEF Good, CallsOnce
<1> QED
  BY <1>1, <1>2, <1>3, DropKeeps, ZenonT(60)

\* A dial without an interface, or one that fails, is dropped.
LEMMA DialFailsKeeps ==
    ASSUME ConnTypeOK, NEW c \in Connections, Typed(c), Good(c),
           NEW d \in Connections, DialFails(d) \/ NoInterface(d)
    PROVE  Good(c)'
<1>1. /\ copier' = copier /\ done' = done /\ connections' = connections /\ network' = network
      /\ closed' = closed /\ untracked' = untracked /\ hijacked' = hijacked /\ cut' = cut
      /\ legacy' = legacy /\ left' = left /\ stage[d] \in {"dialing", "connecting"}
      /\ Drop(d, 1)
  BY ZenonT(60) DEF DialFails, NoInterface
<1> QED
  BY <1>1, DropKeeps, ZenonT(60)

\* The remote end is opened.
LEMMA ConnectKeeps ==
    ASSUME ConnTypeOK, NEW c \in Connections, Typed(c), Good(c),
           NEW d \in Connections, Connect(d)
    PROVE  Good(c)'
<1>1. CASE c # d
  <2>1. stage'[c] = stage[c] /\ open'[c] = open[c]
    BY <1>1, ZenonT(60) DEF Connect, ConnTypeOK
  <2> QED
    BY <1>1, <2>1, Apart, ZenonT(60) DEF Connect
<1>2. CASE c = d
  <2>1. /\ stage'[c] = "checking" /\ (c \notin cut' => open'[c] = Ends)
        /\ "local" \in open'[c] => "local" \in open[c]
        /\ stage[c] = "connecting" /\ c \notin hijacked
    BY <1>2, ZenonT(60) DEF Connect, ConnTypeOK, Good, Opened, CallsOnce, Ends
  <2> QED
    BY <1>2, <2>1, Unstarted, ZenonT(60) DEF Connect
<1> QED
  BY <1>1, <1>2

\* KillerCheck may close every remote end.
LEMMA KillerCheckKeeps ==
    ASSUME ConnTypeOK, NEW c \in Connections, Typed(c), Good(c),
           NEW d \in Connections, KillerCheck(d)
    PROVE  Good(c)'
<1>1. CASE c # d
  <2>1. /\ stage'[c] = stage[c] /\ network'[c] = network[c]
        /\ \/ open'[c] = open[c] /\ cut' = cut
           \/ /\ open'[c] = IF c \in openConnection THEN open[c] \ {"remote"} ELSE open[c]
              /\ cut' = cut \cup openConnection
              /\ c \in openConnection => "remote" \in open[c]
        /\ onClose'[c] = onClose[c]
    BY <1>1, ZenonT(60) DEF KillerCheck, WithoutTracked, ConnTypeOK
  <2> QED
    BY <1>1, <2>1, Apart, ZenonT(60) DEF KillerCheck, WithoutTracked
<1>2. CASE c = d
  <2>1. stage[c] = "checking" /\ c \notin hijacked
    BY <1>2, ZenonT(60) DEF KillerCheck, Good, CallsOnce
  <2>2. CASE stage'[c] = "reporting" /\ (c \notin cut' => open'[c] = Ends) /\ UNCHANGED <<open, onClose>>
    BY <1>2, <2>1, <2>2, Unstarted, ZenonT(60) DEF KillerCheck
  <2>3. CASE stage'[c] = "over" /\ open'[c] = {} /\ onClose'[c] = onClose[c] + 1
    BY <1>2, <2>1, <2>3, Ended, ZenonT(60) DEF KillerCheck
  <2> QED
    BY <1>2, <2>2, <2>3, ZenonT(60) DEF KillerCheck, WithoutTracked, ConnTypeOK, Good, Opened, Ends
<1> QED
  BY <1>1, <1>2

\* A handshake that cannot be reported.
LEMMA ReportFailsKeeps ==
    ASSUME ConnTypeOK, NEW c \in Connections, Typed(c), Good(c),
           NEW d \in Connections, ReportFails(d)
    PROVE  Good(c)'
<1>1. /\ copier' = copier /\ done' = done /\ connections' = connections /\ network' = network
      /\ closed' = closed /\ untracked' = untracked /\ hijacked' = hijacked /\ cut' = cut
      /\ legacy' = legacy /\ left' = left /\ stage[d] = "reporting"
  BY ZenonT(60) DEF ReportFails
<1>2. PICK calls \in {0, 1} : Drop(d, calls) /\ (calls = 0 => network[d] = "udp")
  <2>1. network[d] \in {"tcp", "udp"}
    BY ZenonT(60) DEF ConnTypeOK
  <2>2. 0 # 1
    OBVIOUS
  <2>3. CASE network[d] = "tcp"
    BY <2>2, <2>3, ZenonT(60) DEF ReportFails
  <2>4. CASE network[d] = "udp"
    BY <2>4, ZenonT(60) DEF ReportFails
  <2> QED
    BY <2>1, <2>3, <2>4, ZenonT(60)
<1> QED
  BY <1>1, <1>2, DropKeeps, ZenonT(60)

\* The goroutines start.
LEMMA TrackKeeps ==
    ASSUME ConnTypeOK, NEW c \in Connections, Typed(c), Good(c),
           NEW d \in Connections, Track(d)
    PROVE  Good(c)'
<1>1. CASE c # d
  <2>1. stage'[c] = stage[c] /\ copier'[c] = copier[c]
    BY <1>1, ZenonT(60) DEF Track, ConnTypeOK
  <2> QED
    BY <1>1, <2>1, Apart, ZenonT(60) DEF Track
<1>2. CASE c = d
  <2> USE DEF Good
  <2>1. stage[c] = "tracking" /\ stage'[c] = "copying" /\ connections' = connections \cup {c}
    BY <1>2, ZenonT(60) DEF Track, ConnTypeOK
  <2>2. /\ Up(c)' \in {"write", "copy"} /\ Down(c)' \in {"write", "copy"}
        /\ network[c] # "tcp" => Up(c)' = "copy" /\ Down(c)' = "copy"
    BY <1>2 DEF Track, ConnTypeOK, Up, Down, Ends
  <2>3. /\ network' = network /\ open' = open /\ done' = done /\ onClose' = onClose
        /\ closed' = closed /\ cut' = cut /\ left' = left /\ hijacked' = hijacked
        /\ legacy' = legacy /\ untracked' = untracked
    BY ZenonT(60) DEF Track
  <2>4. Shape(c)'
    BY <2>1, <2>2, <2>3, ZenonT(60) DEF Typed, Shape, Before, After
  <2>5. CallsOnce(c)'
    BY <2>1, <2>2, <2>3, ZenonT(60) DEF Typed, CallsOnce, Called, Shape, Before, After
  <2>6. Listed(c)'
    BY <2>1, <2>2, <2>3, ZenonT(60) DEF Listed, CallsOnce
  <2>7. Opened(c)'
    BY <2>1, <2>2, <2>3, ZenonT(60) DEF Opened
  <2>8. Failing(c)'
    BY <2>1, <2>2, <2>3, ZenonT(60) DEF Failing, Opened, Shape, CallsOnce, Before, After
  <2>9. Missed(c)'
    BY <2>1, <2>2, <2>3, ZenonT(60) DEF Missed, Before
  <2> QED
    BY <2>4, <2>5, <2>6, <2>7, <2>8, <2>9, ZenonT(60)
<1> QED
  BY <1>1, <1>2

\* The canceler closes the local end.
LEMMA TimeoutKeeps ==
    ASSUME ConnTypeOK, NEW c \in Connections, Typed(c), Good(c),
           NEW d \in Connections, Timeout(d)
    PROVE  Good(c)'
<1>1. open'[d] = open[d] \ {"local"} /\ (c # d => open'[c] = open[c])
  BY CloseEndsPoint, ZenonT(60) DEF Timeout, Ends
<1>2. CASE c # d
  BY <1>1, <1>2, Apart, ZenonT(60) DEF Timeout
<1>3. CASE c = d
  <2> USE DEF Good, Ends
  <2>1. /\ stage[c] = "copying" /\ network[c] = "udp" /\ open'[c] = open[c] \ {"local"}
        /\ c \in cut'
    BY <1>1, <1>3, ZenonT(60) DEF Timeout
  <2>2. /\ Up(c)' = Up(c) /\ Down(c)' = Down(c)
        /\ stage' = stage /\ network' = network /\ done' = done /\ onClose' = onClose
        /\ connections' = connections /\ closed' = closed /\ left' = left
        /\ hijacked' = hijacked /\ legacy' = legacy /\ untracked' = untracked
    BY ZenonT(60) DEF Timeout, Up, Down
  <2>3. Shape(c)'
    BY <2>1, <2>2, ZenonT(60) DEF Typed, Shape, Before, After
  <2>4. CallsOnce(c)'
    BY <2>1, <2>2, ZenonT(60) DEF Typed, CallsOnce, Called, Shape, Before, After
  <2>5. Listed(c)'
    BY <2>1, <2>2, ZenonT(60) DEF Listed
  <2>6. Opened(c)'
    BY <2>1, <2>2, ZenonT(60) DEF Opened, Shape, Before, After
  <2>7. Failing(c)'
    BY <2>1, <2>2, ZenonT(60) DEF Failing, Opened, Shape, CallsOnce, Before, After
  <2>8. Missed(c)'
    BY <2>1, <2>2, ZenonT(60) DEF Missed, Before
  <2> QED
    BY <2>3, <2>4, <2>5, <2>6, <2>7, <2>8
<1> QED
  BY <1>2, <1>3
------------------------------------------------------------------------------
(* The steps of a connection's goroutines, and Close.                      *)

\* The call of onClose.
LEMMA CallOnCloseKeeps ==
    ASSUME ConnTypeOK, NEW c \in Connections, Typed(c), Good(c),
           NEW d \in Connections, NEW f \in Ends, CallOnClose(d, f)
    PROVE  Good(c)'
<1>1. Moves(d, {"onClose"}, "close") /\ (c # d => copier'[c] = copier[c])
  BY GoToPoint, ZenonT(60) DEF CallOnClose
<1>3. CASE c # d
  <2>1. onClose'[c] = onClose[c] /\ (c \in connections' <=> c \in connections)
    BY <1>3, ZenonT(60) DEF CallOnClose, ConnTypeOK
  <2> QED
    BY <1>1, <1>3, <2>1, Apart, ZenonT(60) DEF CallOnClose
<1>4. CASE c = d
  <2>1. Stays(c)
    BY ZenonT(60) DEF CallOnClose, Stays
  <2>2. /\ onClose'[c] = onClose[c] + 1 /\ connections' = connections \ {c}
        /\ done'[c] = done[c] /\ cut' = cut /\ open'[c] = open[c]
    BY <1>4, ZenonT(60) DEF CallOnClose, ConnTypeOK, Typed
  <2> QED
    BY <1>1, <1>4, <2>1, <2>2, Calls, ZenonT(60)
<1> QED
  BY <1>3, <1>4, ZenonT(60)

\* Both ends are closed.
LEMMA CloseBothKeeps ==
    ASSUME ConnTypeOK, NEW c \in Connections, Typed(c), Good(c),
           NEW d \in Connections, NEW f \in Ends, CloseBoth(d, f)
    PROVE  Good(c)'
<1>1. Moves(d, {"close"}, "done") /\ (c # d => copier'[c] = copier[c])
  BY GoToPoint, ZenonT(60) DEF CloseBoth
<1>2. open'[d] = open[d] \ Ends /\ (c # d => open'[c] = open[c])
  BY CloseEndsPoint, ZenonT(60) DEF CloseBoth
<1>3. CASE c # d
  <2>1. done'[c] = done[c]
    BY <1>3, ZenonT(60) DEF CloseBoth, ConnTypeOK
  <2> QED
    BY <1>1, <1>2, <1>3, <2>1, Apart, ZenonT(60) DEF CloseBoth
<1>4. CASE c = d
  <2>1. Stays(c)
    BY ZenonT(60) DEF CloseBoth, Stays
  <2>2. /\ open'[c] = {} /\ done'[c] = done[c] /\ onClose'[c] = onClose[c]
        /\ connections' = connections /\ cut' = cut
    BY <1>4, <1>2, ZenonT(60) DEF CloseBoth, ConnTypeOK, Typed
  <2> QED
    BY <1>1, <1>4, <2>1, <2>2, Closes, ZenonT(60)
<1> QED
  BY <1>3, <1>4

\* A failed copy closes both ends.
LEMMA CopyFailedKeeps ==
    ASSUME ConnTypeOK, NEW c \in Connections, Typed(c), Good(c),
           NEW d \in Connections, NEW f \in Ends, CopyFailed(d, f)
    PROVE  Good(c)'
<1>1. Moves(d, {"failed"}, "swap") /\ (c # d => copier'[c] = copier[c])
  BY GoToPoint, ZenonT(60) DEF CopyFailed
<1>2. open'[d] = open[d] \ Ends /\ (c # d => open'[c] = open[c])
  BY CloseEndsPoint, ZenonT(60) DEF CopyFailed
<1>3. CASE c # d
  <2>1. done'[c] = done[c]
    BY <1>3, ZenonT(60) DEF CopyFailed, ConnTypeOK
  <2> QED
    BY <1>1, <1>2, <1>3, <2>1, Apart, ZenonT(60) DEF CopyFailed
<1>4. CASE c = d
  <2>1. Stays(c)
    BY ZenonT(60) DEF CopyFailed, Stays
  <2>2. /\ done'[c] = done[c] /\ onClose'[c] = onClose[c] /\ connections' = connections
        /\ cut' = cut /\ open'[c] = {} /\ network[c] = "tcp" /\ c \in cut
    <3>1. network[c] = "tcp" /\ c \in cut
      BY <1>1, <1>4, ZenonT(60) DEF Moves, Good, Shape, Failing, After, Typed
    <3> QED
      BY <1>2, <1>4, <3>1, ZenonT(60) DEF CopyFailed, Typed
  <2> QED
    BY <1>1, <1>4, <2>1, <2>2, Copying, ZenonT(60) DEF Before
<1> QED
  BY <1>3, <1>4

\* A goroutine reads or writes, or is done with it.
LEMMA ExchangeKeeps ==
    ASSUME ConnTypeOK, NEW c \in Connections, Typed(c), Good(c),
           NEW d \in Connections, Typed(d), Good(d), NEW f \in Ends, Exchange(d, f)
    PROVE  Good(c)'
<1>1. /\ stage' = stage /\ network' = network /\ closed' = closed /\ untracked' = untracked
      /\ left' = left /\ hijacked' = hijacked /\ legacy' = legacy /\ done' = done
      /\ onClose' = onClose /\ connections' = connections /\ open' = open
      /\ cut' = cut \/ cut' = cut \cup {d}
  BY ZenonT(60) DEF Exchange, CopyPayload, PayloadFails, Read, Write, CopyEnds, CopyFails
<1>2. copier[d][f] = "write" => network[d] = "tcp"
  <2>1. CASE f = "local"
    BY <2>1, ZenonT(60) DEF Good, Shape, After, Up, Typed
  <2>2. CASE f = "remote"
    BY <2>2, ZenonT(60) DEF Good, Shape, After, Down, Typed
  <2> QED
    BY <2>1, <2>2, ZenonT(60) DEF Ends
<1>3. PICK from \in Before, to \in Before :
          /\ copier[d][f] \in {from} /\ GoTo(d, f, to)
          /\ network[d] = "tcp" => to # "swapPacket"
          /\ network[d] # "tcp" => to \in {"copy", "send", "swapPacket"}
          /\ to \in {"failed", "swapFailed"} => d \in cut'
  <2> USE DEF Before
  <2>1. CASE CopyPayload(d, f)
    BY <2>1, ZenonT(60) DEF CopyPayload
  <2>2. CASE PayloadFails(d, f)
    BY <1>2, <2>2, ZenonT(60) DEF PayloadFails
  <2>3. CASE Read(d, f)
    BY <2>3, ZenonT(60) DEF Read
  <2>4. CASE Write(d, f)
    BY <2>4, ZenonT(60) DEF Write
  <2>5. CASE CopyEnds(d, f)
    BY <2>5, ZenonT(60) DEF CopyEnds
  <2>6. CASE CopyFails(d, f)
    BY <2>6, ZenonT(60) DEF CopyFails
  <2> QED
    BY <2>1, <2>2, <2>3, <2>4, <2>5, <2>6, ZenonT(60) DEF Exchange
<1>4. Moves(d, {from}, to) /\ (c # d => copier'[c] = copier[c])
  BY <1>3, GoToPoint, ZenonT(60)
<1>5. CASE c # d
  BY <1>1, <1>4, <1>5, Apart, ZenonT(60)
<1>6. CASE c = d
  <2>1. Stays(c)
    BY <1>1, ZenonT(60) DEF Stays
  <2> QED
    BY <1>1, <1>3, <1>4, <1>6, <2>1, Copying, ZenonT(60)
<1> QED
  BY <1>5, <1>6, ZenonT(60)

\* After a clean end the other end is closed for writing, or altogether.
LEMMA CopyFinishedKeeps ==
    ASSUME ConnTypeOK, NEW c \in Connections, Typed(c), Good(c),
           NEW d \in Connections, NEW f \in Ends, CopyFinished(d, f)
    PROVE  Good(c)'
<1>1. Moves(d, {"finished"}, "swap") /\ (c # d => copier'[c] = copier[c])
  <2>1. GoTo(d, f, "swap") /\ copier[d][f] \in {"finished"}
    BY ZenonT(60) DEF CopyFinished
  <2> QED
    BY <2>1, GoToPoint, ZenonT(60)
<1>2. /\ open'[d] = open[d] \/ (open'[d] \subseteq open[d] /\ d \in cut')
      /\ c # d => open'[c] = open[c]
      /\ cut \subseteq cut'
  <2>1. CASE UNCHANGED <<open, cut>>
    BY <2>1, ZenonT(60)
  <2>2. ASSUME NEW es \in SUBSET Ends, CloseEnds(d, es), cut' = cut \cup {d}
        PROVE  /\ open'[d] = open[d] \/ (open'[d] \subseteq open[d] /\ d \in cut')
               /\ c # d => open'[c] = open[c]
               /\ cut \subseteq cut'
    <3>1. open'[d] = open[d] \ es /\ (c # d => open'[c] = open[c])
      BY <2>2, CloseEndsPoint, ZenonT(60)
    <3> QED
      BY <2>2, <3>1, ZenonT(60)
  <2>3. Ends \in SUBSET Ends /\ {Other(f)} \in SUBSET Ends
    BY ZenonT(60) DEF Other, Ends
  <2> QED
    BY <2>1, <2>2, <2>3, ZenonT(60) DEF CopyFinished
<1>3. CASE c # d
  BY <1>1, <1>2, <1>3, Apart, ZenonT(60) DEF CopyFinished
<1>4. CASE c = d
  <2>1. Stays(c)
    BY ZenonT(60) DEF CopyFinished, Stays
  <2>2. network[c] = "tcp"
    BY <1>1, <1>4, ZenonT(60) DEF Moves, Good, Shape, After, Typed
  <2>3. done'[c] = done[c] /\ onClose'[c] = onClose[c] /\ connections' = connections
    BY ZenonT(60) DEF CopyFinished
  <2> QED
    BY <1>1, <1>2, <1>4, <2>1, <2>2, <2>3, Copying, ZenonT(60) DEF Before
<1> QED
  BY <1>3, <1>4

\* done.Swap.
LEMMA SwapKeeps ==
    ASSUME ConnTypeOK, NEW c \in Connections, Typed(c), Good(c),
           NEW d \in Connections, NEW f \in Ends, Swap(d, f)
    PROVE  Good(c)'
<1>1. /\ Last(d, f) => Moves(d, {"swap", "swapFailed", "swapPacket"}, "onClose")
      /\ ~Last(d, f) => \/ Moves(d, {"swap"}, "done")
                        \/ Moves(d, {"swapFailed", "swapPacket"}, "close")
      /\ c # d => copier'[c] = copier[c]
  <2>1. CASE Last(d, f)
    <3>1. GoTo(d, f, "onClose") /\ copier[d][f] \in {"swap", "swapFailed", "swapPacket"}
      BY <2>1, ZenonT(60) DEF Swap
    <3> QED
      BY <2>1, <3>1, GoToPoint, ZenonT(60)
  <2>2. CASE ~Last(d, f) /\ copier[d][f] \in {"swap"}
    <3>1. GoTo(d, f, "done")
      BY <2>2, ZenonT(60) DEF Swap
    <3> QED
      BY <2>2, <3>1, GoToPoint, ZenonT(60)
  <2>3. CASE ~Last(d, f) /\ copier[d][f] \in {"swapFailed", "swapPacket"}
    <3>1. GoTo(d, f, "close")
      BY <2>3, ZenonT(60) DEF Swap
    <3> QED
      BY <2>3, <3>1, GoToPoint, ZenonT(60)
  <2> QED
    BY <2>1, <2>2, <2>3, ZenonT(60) DEF Swap
<1>2. CASE c # d
  <2>1. done'[c] = done[c]
    BY <1>2, ZenonT(60) DEF Swap, ConnTypeOK
  <2> QED
    BY <1>1, <1>2, <2>1, Apart, ZenonT(60) DEF Swap
<1>3. CASE c = d
  <2>1. Stays(c)
    BY ZenonT(60) DEF Swap, Stays
  <2>2. /\ done'[c] = TRUE /\ onClose'[c] = onClose[c] /\ connections' = connections
        /\ cut' = cut /\ open'[c] = open[c]
    BY <1>3, ZenonT(60) DEF Swap, ConnTypeOK
  <2>3. /\ Last(d, f) => (done[c] <=> network[c] = "tcp")
        /\ ~Last(d, f) => (done[c] <=> network[c] # "tcp")
    BY <1>3, ZenonT(60) DEF Last, Typed
  <2>4. CASE Last(d, f)
    BY <1>1, <1>3, <2>1, <2>2, <2>3, <2>4, SwapsLast, ZenonT(60)
  <2>5. CASE ~Last(d, f)
    BY <1>1, <1>3, <2>1, <2>2, <2>3, <2>5, SwapsFirst, ZenonT(60)
  <2> QED
    BY <2>4, <2>5, ZenonT(60)
<1> QED
  BY <1>2, <1>3

\* ConnectionManager.Close closes the local end of what is in the list; the
\* goroutine that has taken a connection off the list closes it itself.
LEMMA CloseKeeps ==
    ASSUME ConnTypeOK, NEW c \in Connections, Typed(c), Good(c),
           Close
    PROVE  Good(c)'
<1> USE DEF Good, Ends
<1>1. /\ open'[c] = IF c \in connections THEN open[c] \ {"local"} ELSE open[c]
      /\ c \in untracked' <=> stage[c] # "copying"
      /\ c \in cut' <=> (c \in cut \/ c \in connections)
      /\ ~closed /\ closed' = TRUE /\ connections' = {}
  BY ZenonT(60) DEF Close, ConnTypeOK
<1>2. /\ Up(c)' = Up(c) /\ Down(c)' = Down(c)
      /\ stage' = stage /\ network' = network /\ done' = done /\ onClose' = onClose
      /\ left' = left /\ hijacked' = hijacked /\ legacy' = legacy
  BY ZenonT(60) DEF Close, Up, Down
<1>3. Shape(c)'
  BY <1>1, <1>2, ZenonT(60) DEF Typed, Shape, Before, After
<1>4. CallsOnce(c)'
  BY <1>1, <1>2, ZenonT(60) DEF Typed, CallsOnce, Called, Dropped, Shape, Before, After
<1>5. Listed(c)'
  BY <1>1, <1>2, ZenonT(60) DEF Listed
<1>6. Opened(c)'
  BY <1>1, <1>2, ZenonT(60) DEF Opened, Listed
<1>7. Failing(c)'
  BY <1>1, <1>2, ZenonT(60) DEF Failing
<1>8. Missed(c)'
  BY <1>1, <1>2, ZenonT(60) DEF Typed, Missed, Listed, CallsOnce, Called, Opened, Shape, After
<1> QED
  BY <1>3, <1>4, <1>5, <1>6, <1>7, <1>8, ZenonT(60)

\* A reset of the network closes remote ends.
LEMMA ResetAfterUpdateKeeps ==
    ASSUME ConnTypeOK, NEW c \in Connections, Typed(c), Good(c),
           ResetAfterUpdate
    PROVE  Good(c)'
<1>1. /\ open'[c] = IF c \in openConnection THEN open[c] \ {"remote"} ELSE open[c]
      /\ cut' = cut \cup openConnection
      /\ c \in openConnection => "remote" \in open[c]
  BY ZenonT(60) DEF ResetAfterUpdate, ResetNetwork, CloseTracked, WithoutTracked, ConnTypeOK
<1> QED
  BY <1>1, Apart, ZenonT(60) DEF ResetAfterUpdate, ResetNetwork

\* A reset of the network closes remote ends.
LEMMA ResetOnRequestKeeps ==
    ASSUME ConnTypeOK, NEW c \in Connections, Typed(c), Good(c),
           ResetOnRequest
    PROVE  Good(c)'
<1>1. /\ open'[c] = IF c \in openConnection THEN open[c] \ {"remote"} ELSE open[c]
      /\ cut' = cut \cup openConnection
      /\ c \in openConnection => "remote" \in open[c]
  BY ZenonT(60) DEF ResetOnRequest, ResetNetwork, CloseTracked, WithoutTracked, ConnTypeOK
<1> QED
  BY <1>1, Apart, ZenonT(60) DEF ResetOnRequest, ResetNetwork
------------------------------------------------------------------------------
(* The interfaces, the invariant as a whole and what follows from it.      *)

\* The interfaces.
InterfaceInv ==
    /\ update = "idle" => (networkPaused <=> notified /\ defaultInterface = None)
    /\ update = "reset" => defaultInterface # None /\ ~networkPaused
    /\ \A c \in Connections :
           /\ update = "idle" /\ defaultInterface # None /\ ~missed
           /\ bound[c] # None /\ c \notin crossing
           /\ stage[c] = "connecting" \/ "remote" \in open[c]
           => bound[c] = defaultInterface
-------------------------------------------------------------------------------
\* The types after a connection ends before it has goroutines.
LEMMA DropTypes ==
    ASSUME ConnTypeOK, NEW d \in Connections, NEW calls \in Nat,
           Drop(d, calls) \/ LeaveToCaller(d, calls)
    PROVE  /\ stage' \in [Connections -> Stages] /\ open' \in [Connections -> SUBSET Ends]
           /\ openConnection' = {c \in Connections : "remote" \in open'[c]}
           /\ onClose' \in [Connections -> Nat]
<1>1. /\ stage' = [stage EXCEPT ![d] = "over"]
      /\ onClose' = [onClose EXCEPT ![d] = @ + calls]
  BY ZenonT(60) DEF Drop, LeaveToCaller
<1>2. stage' \in [Connections -> Stages] /\ onClose' \in [Connections -> Nat]
  BY <1>1 DEF ConnTypeOK, Stages
<1>3. CASE Drop(d, calls)
  <2>1. Ends \in SUBSET Ends /\ CloseEnds(d, Ends)
    BY <1>3, ZenonT(60) DEF Drop
  <2> QED
    BY <1>2, <2>1, CloseEndsPoint, ZenonT(60)
<1>4. CASE LeaveToCaller(d, calls)
  BY <1>2, <1>4, ZenonT(60) DEF LeaveToCaller, ConnTypeOK
<1> QED
  BY <1>3, <1>4, ZenonT(60)

\* Type correctness of every step.
LEMMA TypeStep ==
    ASSUME TypeOK, ConnInv, [Next]_vars
    PROVE  TypeOK'
<1> USE DEF TypeOK, ConnTypeOK, Ends, Stages, Steps
<1>1. ASSUME NEW d \in Connections, Accept(d), UNCHANGED networkVars PROVE TypeOK'
  <2>1. /\ stage' \in [Connections -> Stages] /\ network' \in [Connections -> {"tcp", "udp"}]
        /\ duplex' \in [Connections -> SUBSET Ends]
    BY <1>1 DEF Accept
  <2>2. /\ open' \in [Connections -> SUBSET Ends]
        /\ openConnection' = {c \in Connections : "remote" \in open'[c]}
    <3>1. CASE open' = [open EXCEPT ![d] = {"local"}] /\ UNCHANGED openConnection
      BY <1>1, <3>1, ZenonT(60) DEF Accept, Opened, Good, ConnInv
    <3>2. CASE open' = [WithoutTracked EXCEPT ![d] = {"local"}] /\ openConnection' = {}
      BY <3>2, ZenonT(60) DEF WithoutTracked
    <3> QED
      BY <1>1, <3>1, <3>2, ZenonT(60) DEF Accept
  <2> QED
    BY <1>1, <2>1, <2>2, ZenonT(60) DEF Accept, networkVars
<1>2. ASSUME NEW d \in Connections, RouteFails(d) \/ HijackEnds(d) \/ DialFails(d) \/ ReportFails(d),
             UNCHANGED networkVars
      PROVE  TypeOK'
  <2>1. PICK calls \in {0, 1, 2} : Drop(d, calls) \/ LeaveToCaller(d, calls)
    BY <1>2, ZenonT(60) DEF RouteFails, HijackEnds, DialFails, ReportFails
  <2>2. calls \in Nat
    OBVIOUS
  <2>3. /\ stage' \in [Connections -> Stages] /\ open' \in [Connections -> SUBSET Ends]
        /\ openConnection' = {c \in Connections : "remote" \in open'[c]}
        /\ onClose' \in [Connections -> Nat]
    BY <2>1, <2>2, DropTypes, ZenonT(60)
  <2> QED
    BY <1>2, <2>3, ZenonT(60) DEF RouteFails, HijackEnds, DialFails, ReportFails, networkVars
<1>3. ASSUME NEW d \in Connections, CallerCloses(d), UNCHANGED networkVars PROVE TypeOK'
  BY <1>3, ZenonT(60) DEF CallerCloses, CloseEnds, networkVars
<1>4. ASSUME NEW d \in Connections, Hijack(d), UNCHANGED networkVars PROVE TypeOK'
  BY <1>4, ZenonT(60) DEF Hijack, networkVars
<1>5. ASSUME NEW d \in Connections, Route(d) \/ Report(d), UNCHANGED networkVars PROVE TypeOK'
  BY <1>5, ZenonT(60) DEF Route, Report, Advance, networkVars
<1>6. ASSUME NEW d \in Connections, Connect(d), UNCHANGED networkVars PROVE TypeOK'
  BY <1>6, SMTT(30) DEF Connect, networkVars
<1>7. ASSUME NEW d \in Connections, KillerCheck(d), UNCHANGED networkVars PROVE TypeOK'
  <2>1. CASE UNCHANGED <<open, openConnection, onClose>> /\ stage' = [stage EXCEPT ![d] = "reporting"]
    BY <1>7, <2>1, ZenonT(60) DEF KillerCheck, networkVars
  <2>2. CASE /\ open' = [WithoutTracked EXCEPT ![d] = {}] /\ openConnection' = {}
             /\ stage' = [stage EXCEPT ![d] = "over"] /\ onClose' = [onClose EXCEPT ![d] = @ + 1]
    <3>1. /\ open' \in [Connections -> SUBSET Ends]
          /\ openConnection' = {c \in Connections : "remote" \in open'[c]}
      BY <2>2, ZenonT(60) DEF WithoutTracked
    <3> QED
      BY <1>7, <2>2, <3>1 DEF KillerCheck, networkVars
  <2> QED
    BY <1>7, <2>1, <2>2, ZenonT(60) DEF KillerCheck
<1>8. ASSUME NEW d \in Connections, Track(d), UNCHANGED networkVars PROVE TypeOK'
  <2>1. PICK first \in [Ends -> {"write", "copy"}] : copier' = [copier EXCEPT ![d] = first]
    BY <1>8, ZenonT(60) DEF Track
  <2>2. first \in [Ends -> Steps]
    OBVIOUS
  <2>3. copier' \in [Connections -> [Ends -> Steps]]
    BY <2>1, <2>2, ZenonT(60)
  <2> QED
    BY <1>8, <2>3, ZenonT(60) DEF Track, networkVars
<1>9. ASSUME NEW d \in Connections, Timeout(d), UNCHANGED networkVars PROVE TypeOK'
  BY <1>9, ZenonT(60) DEF Timeout, CloseEnds, networkVars
<1>10. ASSUME NEW d \in Connections, NEW f \in Ends, Exchange(d, f), UNCHANGED networkVars
       PROVE  TypeOK'
  <2>1. \E step \in Steps : GoTo(d, f, step)
    BY <1>10, ZenonT(60) DEF Exchange, CopyPayload, PayloadFails, Read, Write, CopyEnds, CopyFails
  <2>2. copier' \in [Connections -> [Ends -> Steps]]
    BY <2>1 DEF GoTo
  <2>3. UNCHANGED <<stage, network, duplex, open, done, onClose, connections, openConnection>>
    BY <1>10, ZenonT(60) DEF Exchange, CopyPayload, PayloadFails, Read, Write, CopyEnds, CopyFails
  <2> QED
    BY <1>10, <2>2, <2>3, ZenonT(60) DEF networkVars
<1>11. ASSUME NEW d \in Connections, NEW f \in Ends, CopyFailed(d, f), UNCHANGED networkVars
       PROVE  TypeOK'
  <2>1. \E step \in Steps : GoTo(d, f, step)
    BY <1>11, ZenonT(60) DEF CopyFailed
  <2>2. copier' \in [Connections -> [Ends -> Steps]]
    BY <2>1 DEF GoTo
  <2> QED
    BY <1>11, <2>2, ZenonT(60) DEF CopyFailed, CloseEnds, networkVars
<1>12. ASSUME NEW d \in Connections, NEW f \in Ends, CopyFinished(d, f), UNCHANGED networkVars
       PROVE  TypeOK'
  <2>1. /\ open' \in [Connections -> SUBSET Ends]
        /\ openConnection' = {c \in Connections : "remote" \in open'[c]}
    <3>1. CASE UNCHANGED <<open, openConnection>>
      BY <3>1, ZenonT(60)
    <3>2. ASSUME NEW es \in SUBSET Ends, CloseEnds(d, es)
          PROVE  /\ open' \in [Connections -> SUBSET Ends]
                 /\ openConnection' = {c \in Connections : "remote" \in open'[c]}
      BY <3>2, CloseEndsPoint, ZenonT(60) DEF ConnTypeOK
    <3> QED
      BY <1>12, <3>1, <3>2, ZenonT(60) DEF CopyFinished, Other
  <2>2. GoTo(d, f, "swap")
    BY <1>12, ZenonT(60) DEF CopyFinished
  <2>3. copier' \in [Connections -> [Ends -> Steps]]
    BY <2>2, ZenonT(60) DEF GoTo
  <2> QED
    BY <1>12, <2>1, <2>3, ZenonT(60) DEF CopyFinished, networkVars
<1>13. ASSUME NEW d \in Connections, NEW f \in Ends, Swap(d, f), UNCHANGED networkVars
       PROVE  TypeOK'
  BY <1>13, ZenonT(60) DEF Swap, GoTo, Last, networkVars
<1>14. ASSUME NEW d \in Connections, NEW f \in Ends, CallOnClose(d, f), UNCHANGED networkVars
       PROVE  TypeOK'
  BY <1>14 DEF CallOnClose, GoTo, networkVars
<1>15. ASSUME NEW d \in Connections, NEW f \in Ends, CloseBoth(d, f), UNCHANGED networkVars
       PROVE  TypeOK'
  BY <1>15, ZenonT(60) DEF CloseBoth, GoTo, CloseEnds, networkVars
<1>16. ASSUME CloseInbounds, UNCHANGED networkVars PROVE TypeOK'
  BY <1>16, ZenonT(60) DEF CloseInbounds, networkVars
<1>17. ASSUME Close, UNCHANGED networkVars PROVE TypeOK'
  BY <1>17, ZenonT(60) DEF Close, networkVars
<1>18. ASSUME NEW d \in Connections, SelectInterface(d) PROVE TypeOK'
  <2>1. bound' \in [Connections -> Interfaces \cup {None}]
    <3>1. PICK i \in Interfaces \cup {None} : bound' = [bound EXCEPT ![d] = i]
      BY <1>18, ZenonT(60) DEF SelectInterface, Selected, Primary, Fallback
    <3> QED
      BY <3>1, ZenonT(60)
  <2> QED
    BY <1>18, <2>1, ZenonT(60) DEF SelectInterface, Advance
<1>19. ASSUME NEW d \in Connections, NoInterface(d) PROVE TypeOK'
  <2>1. /\ stage' \in [Connections -> Stages] /\ open' \in [Connections -> SUBSET Ends]
        /\ openConnection' = {c \in Connections : "remote" \in open'[c]}
        /\ onClose' \in [Connections -> Nat]
    BY <1>19, DropTypes DEF NoInterface
  <2> QED
    BY <1>19, <2>1, ZenonT(60) DEF NoInterface, networkVars
<1>20. ASSUME NEW d \in Connections, DialUnbound(d) PROVE TypeOK'
  BY <1>20, ZenonT(60) DEF DialUnbound, Advance
<1>21. ASSUME UpdateDefaultInterface PROVE TypeOK'
  BY <1>21, ZenonT(60) DEF UpdateDefaultInterface, connVars
<1>22. ASSUME notifyInterfaceUpdate PROVE TypeOK'
  BY <1>22, ZenonT(60) DEF notifyInterfaceUpdate, Wake, connVars
<1>23. ASSUME ResetAfterUpdate PROVE TypeOK'
  BY <1>23, ZenonT(60) DEF ResetAfterUpdate, ResetNetwork, CloseTracked, WithoutTracked
<1>24. ASSUME ResetOnRequest PROVE TypeOK'
  BY <1>24, ZenonT(60) DEF ResetOnRequest, ResetNetwork, CloseTracked, WithoutTracked
<1>25. ASSUME UNCHANGED vars PROVE TypeOK'
  BY <1>25, ZenonT(60) DEF vars, connVars, networkVars
<1>26. ASSUME NEW d \in Connections, NEW f \in Ends, Proceed(d, f), UNCHANGED networkVars
       PROVE  TypeOK'
  <2>1. Exchange(d, f) \/ CopyFailed(d, f) \/ CopyFinished(d, f) \/ Swap(d, f)
        \/ CallOnClose(d, f) \/ CloseBoth(d, f)
    BY <1>26, ZenonT(60) DEF Proceed, Exchange
  <2> QED
    BY <1>10, <1>11, <1>12, <1>13, <1>14, <1>15, <1>26, <2>1, ZenonT(60)
<1>27. ASSUME ConnNext, UNCHANGED networkVars PROVE TypeOK'
  BY <1>1, <1>2, <1>3, <1>4, <1>5, <1>6, <1>7, <1>8, <1>9, <1>10, <1>16, <1>17, <1>26, <1>27,
     ZenonT(60) DEF ConnNext
<1> QED
  BY <1>18, <1>19, <1>20, <1>21, <1>22, <1>23, <1>24, <1>25, <1>27, ZenonT(60) DEF Next

\* Every step keeps the invariant of the connections.
LEMMA ConnStep ==
    ASSUME TypeOK, ConnInv, [Next]_vars
    PROVE  ConnInv'
<1> SUFFICES ASSUME NEW c \in Connections
             PROVE  Good(c)'
  BY ZenonT(60) DEF ConnInv
<1>1. ConnTypeOK /\ \A d \in Connections : Typed(d) /\ Good(d)
  BY TypedPoint, ZenonT(60) DEF TypeOK, ConnInv
<1>2. ASSUME UNCHANGED connVars
      PROVE  Good(c)'
  BY <1>1, <1>2, Apart, ZenonT(60) DEF connVars
<1>3. ASSUME UpdateDefaultInterface \/ notifyInterfaceUpdate \/ UNCHANGED vars
      PROVE  UNCHANGED connVars
  BY <1>3, ZenonT(60) DEF UpdateDefaultInterface, notifyInterfaceUpdate, vars
<1>4. ASSUME CloseInbounds
      PROVE  Good(c)'
  BY <1>1, <1>4, Apart, ZenonT(60) DEF CloseInbounds
<1>5. ASSUME NEW d \in Connections,
             \/ Accept(d) \/ RouteFails(d) \/ CallerCloses(d) \/ Hijack(d) \/ HijackEnds(d)
             \/ DialFails(d) \/ Connect(d) \/ KillerCheck(d) \/ ReportFails(d) \/ Track(d)
             \/ Timeout(d)
      PROVE  Good(c)'
  BY <1>1, <1>5, AcceptKeeps, RouteFailsKeeps, CallerClosesKeeps, HijackKeeps, HijackEndsKeeps,
     DialFailsKeeps, ConnectKeeps, KillerCheckKeeps, ReportFailsKeeps, TrackKeeps, TimeoutKeeps,
     ZenonT(60)
<1>6. ASSUME NEW d \in Connections, Route(d) \/ Report(d)
      PROVE  Good(c)'
  BY <1>1, <1>6, AdvanceKeeps, ZenonT(60) DEF Route, Report
<1>7. ASSUME NEW d \in Connections, NEW f \in Ends, Proceed(d, f) \/ Exchange(d, f)
      PROVE  Good(c)'
  BY <1>1, <1>7, ExchangeKeeps, CopyFailedKeeps, CopyFinishedKeeps, SwapKeeps, CallOnCloseKeeps,
     CloseBothKeeps, ZenonT(60) DEF Proceed, Exchange
<1>8. CASE ConnNext
  BY <1>1, <1>4, <1>5, <1>6, <1>7, <1>8, CloseKeeps, ZenonT(60) DEF ConnNext
<1>9. ASSUME NEW d \in Connections, SelectInterface(d) \/ DialUnbound(d)
      PROVE  Good(c)'
  BY <1>1, <1>9, AdvanceKeeps, ZenonT(60) DEF SelectInterface, DialUnbound
<1>10. ASSUME NEW d \in Connections, NoInterface(d)
       PROVE  Good(c)'
  BY <1>1, <1>10, DialFailsKeeps, ZenonT(60)
<1> QED
  BY <1>1, <1>2, <1>3, <1>8, <1>9, <1>10, ResetAfterUpdateKeeps, ResetOnRequestKeeps,
     ZenonT(60) DEF Next
-------------------------------------------------------------------------------
\* No remote end is opened but by a dial that had begun to connect.
Steady ==
    \A c \in Connections :
        /\ stage'[c] = "connecting" => stage[c] = "connecting"
        /\ "remote" \in open'[c] => "remote" \in open[c] \/ stage[c] = "connecting"

\* That is so for the end of a connection that has no goroutines yet.
LEMMA DropSteady ==
    ASSUME ConnTypeOK, NEW d \in Connections, NEW calls,
           Drop(d, calls) \/ LeaveToCaller(d, calls)
    PROVE  Steady
<1>1. ASSUME NEW c \in Connections PROVE stage'[c] = "connecting" => stage[c] = "connecting"
  <2>1. stage'[c] \in {stage[c], "over"}
    BY ZenonT(60) DEF Drop, LeaveToCaller, ConnTypeOK
  <2> QED
    BY <2>1
<1>2. CASE Drop(d, calls)
  <2>1. Ends \in SUBSET Ends /\ CloseEnds(d, Ends)
    BY <1>2, ZenonT(60) DEF Drop
  <2>2. \A c \in Connections : open'[c] \subseteq open[c]
    BY <2>1, CloseEndsPoint, ZenonT(60)
  <2> QED
    BY <1>1, <2>2, ZenonT(60) DEF Steady
<1>3. CASE LeaveToCaller(d, calls)
  BY <1>1, <1>3, ZenonT(60) DEF LeaveToCaller, Steady
<1> QED
  BY <1>2, <1>3, ZenonT(60)

\* It is so for every step of the connections.
LEMMA ConnSteady ==
    ASSUME TypeOK, ConnNext
    PROVE  Steady
<1>0. ConnTypeOK
  BY ZenonT(60) DEF TypeOK
<1>1. ASSUME NEW d \in Connections, Accept(d) PROVE Steady
  <2>1. stage' = [stage EXCEPT ![d] = "routing"]
        /\ \A c \in Connections : open'[c] \subseteq open[c] \/ open'[c] = {"local"}
    <3>1. CASE open' = [open EXCEPT ![d] = {"local"}]
      BY <1>0, <1>1, <3>1, ZenonT(60) DEF Accept, ConnTypeOK
    <3>2. CASE open' = [WithoutTracked EXCEPT ![d] = {"local"}]
      BY <1>0, <1>1, <3>2, ZenonT(60) DEF Accept, WithoutTracked, ConnTypeOK
    <3> QED
      BY <1>1, <3>1, <3>2, ZenonT(60) DEF Accept
  <2>2. ASSUME NEW c \in Connections
        PROVE  /\ stage'[c] = "connecting" => stage[c] = "connecting"
               /\ "remote" \in open'[c] => "remote" \in open[c]
    <3>1. stage'[c] \in {stage[c], "routing"}
      BY <1>0, <2>1, ZenonT(60) DEF ConnTypeOK
    <3>2. "remote" \in open'[c] => "remote" \in open[c]
      <4>1. "remote" \notin {"local"}
        OBVIOUS
      <4> QED
        BY <2>1, <4>1, ZenonT(60)
    <3> QED
      BY <3>1, <3>2, ZenonT(60)
  <2> QED
    BY <2>2, ZenonT(60) DEF Steady
<1>2. ASSUME NEW d \in Connections, RouteFails(d) \/ HijackEnds(d) \/ DialFails(d) \/ ReportFails(d)
      PROVE  Steady
  <2>1. PICK calls \in {0, 1, 2} : Drop(d, calls) \/ LeaveToCaller(d, calls)
    BY <1>2, ZenonT(60) DEF RouteFails, HijackEnds, DialFails, ReportFails
  <2> QED
    BY <1>0, <2>1, DropSteady, ZenonT(60)
<1>3. ASSUME NEW d \in Connections, CallerCloses(d) \/ Timeout(d) PROVE Steady
  <2>1. stage' = stage /\ CloseEnds(d, {"local"}) /\ {"local"} \in SUBSET Ends
    BY <1>3, ZenonT(60) DEF CallerCloses, Timeout, Ends
  <2>2. \A c \in Connections : open'[c] \subseteq open[c]
    BY <1>0, <2>1, CloseEndsPoint, ZenonT(60)
  <2> QED
    BY <2>1, <2>2, ZenonT(60) DEF Steady
<1>4. ASSUME NEW d \in Connections, Hijack(d) \/ Route(d) \/ Report(d) \/ Track(d) PROVE Steady
  <2>1. /\ open' = open
        /\ \/ stage' = [stage EXCEPT ![d] = "hijacked"] \/ stage' = [stage EXCEPT ![d] = "dialing"]
           \/ stage' = [stage EXCEPT ![d] = "tracking"] \/ stage' = [stage EXCEPT ![d] = "copying"]
    BY <1>4, ZenonT(60) DEF Hijack, Route, Report, Advance, Track
  <2>2. \A c \in Connections : stage'[c] \in {stage[c], "hijacked", "dialing", "tracking", "copying"}
    BY <1>0, <2>1, ZenonT(60) DEF ConnTypeOK
  <2>3. \A c \in Connections : stage'[c] = "connecting" => stage[c] = "connecting"
    BY <2>2
  <2> QED
    BY <2>1, <2>3, ZenonT(60) DEF Steady
<1>5. ASSUME NEW d \in Connections, Connect(d) PROVE Steady
  <2>1. ASSUME NEW c \in Connections
        PROVE  /\ stage'[c] = "connecting" => stage[c] = "connecting"
               /\ "remote" \in open'[c] => "remote" \in open[c] \/ stage[c] = "connecting"
    BY <1>0, <1>5, ZenonT(60) DEF Connect, ConnTypeOK
  <2> QED
    BY <2>1, ZenonT(60) DEF Steady
<1>6. ASSUME NEW d \in Connections, KillerCheck(d) PROVE Steady
  <2>1. ASSUME NEW c \in Connections
        PROVE  /\ stage'[c] = "connecting" => stage[c] = "connecting"
               /\ "remote" \in open'[c] => "remote" \in open[c] \/ stage[c] = "connecting"
    BY <1>0, <1>6, ZenonT(60) DEF KillerCheck, WithoutTracked, ConnTypeOK
  <2> QED
    BY <2>1, ZenonT(60) DEF Steady
<1>7. ASSUME NEW d \in Connections, NEW f \in Ends,
             Exchange(d, f) \/ Swap(d, f) \/ CallOnClose(d, f)
      PROVE  Steady
  <2>1. stage' = stage /\ open' = open
    BY <1>7, ZenonT(60) DEF Exchange, CopyPayload, PayloadFails, Read, Write, CopyEnds, CopyFails,
       Swap, CallOnClose
  <2> QED
    BY <2>1, ZenonT(60) DEF Steady
<1>8. ASSUME NEW d \in Connections, NEW f \in Ends,
             CopyFailed(d, f) \/ CopyFinished(d, f) \/ CloseBoth(d, f)
      PROVE  Steady
  <2>1. /\ stage' = stage
        /\ \/ UNCHANGED open
           \/ \E es \in SUBSET Ends : CloseEnds(d, es)
    BY <1>8, ZenonT(60) DEF CopyFailed, CloseBoth, CopyFinished, Other, Ends
  <2>2. \A c \in Connections : open'[c] \subseteq open[c]
    BY <1>0, <2>1, CloseEndsPoint, ZenonT(60)
  <2> QED
    BY <2>1, <2>2, ZenonT(60) DEF Steady
<1>9. ASSUME CloseInbounds PROVE Steady
  BY <1>9, ZenonT(60) DEF CloseInbounds, Steady
<1>10. ASSUME Close PROVE Steady
  <2>1. ASSUME NEW c \in Connections
        PROVE  stage'[c] = stage[c] /\ open'[c] \subseteq open[c]
    BY <1>10, ZenonT(60) DEF Close
  <2> QED
    BY <2>1, ZenonT(60) DEF Steady
<1> QED
  BY <1>1, <1>2, <1>3, <1>4, <1>5, <1>6, <1>7, <1>8, <1>9, <1>10, ZenonT(60)
  DEF ConnNext, Proceed, Exchange

\* Every step keeps the invariant of the interfaces.
LEMMA InterfaceStep ==
    ASSUME TypeOK, InterfaceInv, [Next]_vars
    PROVE  InterfaceInv'
<1> USE DEF InterfaceInv
<1>1. ASSUME Steady, UNCHANGED networkVars PROVE InterfaceInv'
  BY <1>1, ZenonT(60) DEF Steady, networkVars
<1>2. ASSUME ConnNext, UNCHANGED networkVars PROVE InterfaceInv'
  BY <1>1, <1>2, ConnSteady, ZenonT(60)
<1>3. ASSUME NEW d \in Connections, SelectInterface(d) PROVE InterfaceInv'
  <2>1. /\ open' = open /\ stage' = [stage EXCEPT ![d] = "connecting"]
        /\ UNCHANGED <<defaultInterface, update, networkPaused, updates, notified, missed, crossing>>
    BY <1>3, ZenonT(60) DEF SelectInterface, Advance
  <2>2. PICK i : /\ bound' = [bound EXCEPT ![d] = i]
                 /\ defaultInterface # None => i \in {None, defaultInterface}
    BY <1>3, ZenonT(60) DEF SelectInterface, Selected, Primary, Fallback, IsPlain
  <2>3. ASSUME NEW c \in Connections
        PROVE  /\ c = d => bound'[c] = i
               /\ c # d => bound'[c] = bound[c] /\ stage'[c] = stage[c]
    BY <2>1, <2>2, ZenonT(60) DEF TypeOK, ConnTypeOK
  <2> QED
    BY <2>1, <2>2, <2>3, ZenonT(60)
<1>4. ASSUME NEW d \in Connections, NoInterface(d) PROVE InterfaceInv'
  BY <1>1, <1>4, DropSteady, ZenonT(60) DEF NoInterface, TypeOK
<1>5. ASSUME NEW d \in Connections, DialUnbound(d) PROVE InterfaceInv'
  <2>1. /\ open' = open /\ stage' = [stage EXCEPT ![d] = "connecting"]
        /\ bound' = [bound EXCEPT ![d] = None]
        /\ UNCHANGED <<defaultInterface, update, networkPaused, updates, notified, missed, crossing>>
    BY <1>5, ZenonT(60) DEF DialUnbound, Advance
  <2>2. ASSUME NEW c \in Connections
        PROVE  /\ c = d => bound'[c] = None
               /\ c # d => bound'[c] = bound[c] /\ stage'[c] = stage[c]
    BY <2>1, ZenonT(60) DEF TypeOK, ConnTypeOK
  <2> QED
    BY <2>1, <2>2, ZenonT(60)
<1>6. ASSUME UpdateDefaultInterface PROVE InterfaceInv'
  <2>1. UNCHANGED <<stage, open, networkPaused, bound, notified, missed, crossing>>
    BY <1>6, ZenonT(60) DEF UpdateDefaultInterface, connVars
  <2>2. UNCHANGED <<defaultInterface, update>> \/ update' = "notify"
    BY <1>6, ZenonT(60) DEF UpdateDefaultInterface
  <2>3. CASE UNCHANGED <<defaultInterface, update>>
    BY <2>1, <2>3, ZenonT(60)
  <2>4. CASE update' = "notify"
    BY <2>4
  <2> QED
    BY <2>2, <2>3, <2>4, ZenonT(60)
<1>7. ASSUME notifyInterfaceUpdate PROVE InterfaceInv'
  <2>1. /\ defaultInterface' = defaultInterface /\ notified' = TRUE
        /\ networkPaused' <=> defaultInterface = None
        /\ defaultInterface # None => missed' = TRUE
        /\ update' = "idle" \/ (update' = "reset" /\ defaultInterface # None)
    BY <1>7, ZenonT(60) DEF notifyInterfaceUpdate, Wake
  <2> QED
    BY <2>1, ZenonT(60)
<1>8. ASSUME ResetNetwork, UNCHANGED <<defaultInterface, networkPaused, bound, notified>>,
             update' = update \/ (update = "reset" /\ update' = "idle")
      PROVE  InterfaceInv'
  <2>1. /\ \A c \in Connections : "remote" \notin open'[c]
        /\ \A c \in Connections : stage'[c] = "connecting" => c \in crossing'
    BY <1>8, ZenonT(60) DEF ResetNetwork, CloseTracked, WithoutTracked, TypeOK, ConnTypeOK
  <2> QED
    BY <1>8, <2>1, ZenonT(60)
<1>9. ASSUME ResetAfterUpdate \/ ResetOnRequest PROVE InterfaceInv'
  BY <1>8, <1>9, ZenonT(60) DEF ResetAfterUpdate, ResetOnRequest
<1>10. ASSUME UNCHANGED vars PROVE InterfaceInv'
  BY <1>10, ZenonT(60) DEF vars, connVars, networkVars
<1> QED
  BY <1>2, <1>3, <1>4, <1>5, <1>6, <1>7, <1>9, <1>10, ZenonT(60) DEF Next
-------------------------------------------------------------------------------
\* The inductive invariant.
IInv == TypeOK /\ ConnInv /\ InterfaceInv

\* The initial state satisfies it.
LEMMA InitIInv == Init => IInv
<1> SUFFICES ASSUME Init PROVE IInv
  OBVIOUS
<1>1. TypeOK
  BY ZenonT(60) DEF Init, ConnInit, TypeOK, ConnTypeOK, Stages, Steps, Ends
<1>2. ConnInv
  BY ZenonT(60) DEF Init, ConnInit, ConnInv, Good, Shape, CallsOnce, Listed, Opened, Failing, Missed,
         Up, Down, Called, Dropped, Ends, Before, After
<1>3. InterfaceInv
  BY ZenonT(60) DEF Init, ConnInit, InterfaceInv
<1> QED
  BY <1>1, <1>2, <1>3, ZenonT(60) DEF IInv

\* It is an invariant, for any number of connections, interfaces and reports.
THEOREM Invariance == Spec => []IInv
<1>1. IInv /\ [Next]_vars => IInv'
  BY TypeStep, ConnStep, InterfaceStep, ZenonT(60) DEF IInv
<1> QED
  BY InitIInv, <1>1, PTL DEF Spec

\* Type correctness, with conntrack's list the open remote ends.
THEOREM TypeCorrect == Spec => []TypeOK
<1>1. IInv => TypeOK
  BY ZenonT(60) DEF IInv
<1> QED
  BY Invariance, <1>1, PTL

\* However its goroutines end, a connection's onClose is called once; one that never
\* got to copying has at most one call too, but for the packets of hijack-dns, and
\* none only if it was refused to a deprecated call or is a packet connection whose
\* handshake could not be reported.
THEOREM OnCloseIsCalledOnce == Spec => []OnCloseOnce
<1>1. IInv => OnCloseOnce
  <2> SUFFICES ASSUME IInv, NEW c \in Connections
               PROVE  /\ \/ onClose[c] <= 1
                         \/ onClose[c] = 2 /\ c \in hijacked /\ network[c] = "udp"
                      /\ Over(c) /\ onClose[c] = 0 =>
                             /\ stage[c] = "over" /\ c \notin hijacked
                             /\ c \in legacy \/ network[c] = "udp"
    BY ZenonT(60) DEF OnCloseOnce
  <2>1. CallsOnce(c) /\ Shape(c) /\ stage[c] \in Stages
    BY ZenonT(60) DEF IInv, ConnInv, Good, TypeOK, ConnTypeOK
  <2>2. CASE stage[c] = "copying"
    BY <2>1, <2>2, SMTT(30) DEF CallsOnce, Called, Over, After, Ends, Up, Down
  <2>3. CASE stage[c] = "over"
    BY <2>1, <2>3, ZenonT(60) DEF CallsOnce, Dropped
  <2>4. CASE stage[c] \notin {"copying", "over"}
    <3>1. onClose[c] = 0 /\ ~Over(c)
      BY <2>1, <2>4, ZenonT(60) DEF CallsOnce, Over
    <3> QED
      BY <3>1
  <2> QED
    BY <2>2, <2>3, <2>4, ZenonT(60)
<1> QED
  BY Invariance, <1>1, PTL

\* A connection that is over is not in the list and has no open end, but for a local
\* end that the caller was left and has yet to close.
THEOREM NothingIsLeft == Spec => []NothingLeft
<1>1. IInv => NothingLeft
  <2> SUFFICES ASSUME IInv, NEW c \in Connections, Over(c)
               PROVE  /\ open[c] = {} \/ (c \in left /\ open[c] = {"local"})
                      /\ c \notin connections
    BY ZenonT(60) DEF NothingLeft
  <2>1. CallsOnce(c) /\ Opened(c) /\ Listed(c)
    BY ZenonT(60) DEF IInv, ConnInv, Good
  <2> QED
    BY <2>1 DEF CallsOnce, Called, Opened, Listed, Over, After, Ends, Up, Down
<1> QED
  BY Invariance, <1>1, PTL

\* The end of one direction of a stream leaves the other direction open.
THEOREM HalfCloseIsKept == Spec => []HalfCloseKeepsOther
<1>1. IInv => HalfCloseKeepsOther
  BY ZenonT(60) DEF IInv, ConnInv, Good, Failing, Before, HalfCloseKeepsOther, Up, Down, Ends
<1> QED
  BY Invariance, <1>1, PTL

\* Close misses only connections that were still being dialed.
THEOREM CloseIsComplete == Spec => []CloseMissesOnlyUntracked
<1>1. IInv => CloseMissesOnlyUntracked
  BY ZenonT(60) DEF IInv, ConnInv, Good, Missed, CloseMissesOnlyUntracked, Up, Down, Ends
<1> QED
  BY Invariance, <1>1, PTL

\* Between two reports, once the callback has run, the network is paused exactly when
\* there is no default interface.
THEOREM PauseFollowsInterface == Spec => []PauseMatchesInterface
<1>1. IInv => PauseMatchesInterface
  BY ZenonT(60) DEF IInv, InterfaceInv, PauseMatchesInterface
<1> QED
  BY Invariance, <1>1, PTL

\* Between two reports a socket of the default strategy without network types uses
\* the default interface, unless the callback returned before the reset or the
\* socket crossed it.
THEOREM SocketsFollowInterface == Spec => []ConnectionsUseDefault
<1>1. IInv => ConnectionsUseDefault
  BY ZenonT(60) DEF IInv, InterfaceInv, ConnectionsUseDefault
<1> QED
  BY Invariance, <1>1, PTL
===============================================================================
