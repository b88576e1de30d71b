-------------------------- MODULE ConnectionManager --------------------------
(***************************************************************************)
(* A routed connection from its arrival to its end: the routing of         *)
(* core/route/route.go, the dial and the two copying goroutines of         *)
(* core/route/conn.go, and the list of outgoing sockets of                 *)
(* core/common/conntrack.                                                  *)
(*                                                                         *)
(* A connection has two ends, "local" towards the client and "remote".     *)
(* A copying goroutine is named by the end it reads: "local" uploads.      *)
(* What the peers do is left open: they may send, read or end a stream at  *)
(* any time, or never.  A goroutine that is blocked in a read or in a      *)
(* write goes on by itself only once that very end is closed here.         *)
(*                                                                         *)
(* The detour to another inbound and the outbounds that handle a           *)
(* connection themselves are left out: both hand the connection on.        *)
(***************************************************************************)
EXTENDS Naturals, FiniteSets

CONSTANT Connections

VARIABLES stage,           \* how far each connection has come
          network,         \* "tcp" or "udp"
          duplex,          \* the ends that can close one direction (N.WriteCloser)
          open,            \* the ends that are open
          copier,          \* the next step of each copying goroutine
          done,            \* done of NewConnection and NewPacketConnection
          onClose,         \* how often the connection's onClose has been called
          connections,     \* ConnectionManager.connections
          openConnection,  \* conntrack.openConnection: remote ends
          accepting,       \* the inbounds are open
          closed,          \* ConnectionManager.Close has returned
          cut,             \* history: connections an end of which was closed from outside, or
                           \* by a copy that failed or could not close one direction
          left,            \* ended connections whose local end is left to the caller
          hijacked,        \* history: connections answered by hijack-dns
          legacy,          \* history: connections refused to a deprecated call
          untracked        \* history: connections that were not in the list when Close ran

connVars == <<stage, network, duplex, open, copier, done, onClose, connections,
              openConnection, accepting, closed, cut, left, hijacked, legacy, untracked>>

Ends == {"local", "remote"}

Other(e) == IF e = "local" THEN "remote" ELSE "local"

Stages == {"none", "routing", "hijacked", "dialing", "connecting", "checking", "reporting",
           "tracking", "copying", "over"}

Steps == {"off", "write", "copy", "send", "failed", "finished", "swap", "swapFailed",
          "swapPacket", "onClose", "close", "done"}

ConnInit ==
    /\ stage = [c \in Connections |-> "none"]
    /\ network = [c \in Connections |-> "tcp"]
    /\ duplex = [c \in Connections |-> {}]
    /\ open = [c \in Connections |-> {}]
    /\ copier = [c \in Connections |-> [e \in Ends |-> "off"]]
    /\ done = [c \in Connections |-> FALSE]
    /\ onClose = [c \in Connections |-> 0]
    /\ connections = {} /\ openConnection = {}
    /\ accepting = TRUE /\ closed = FALSE
    /\ cut = {} /\ left = {}
    /\ hijacked = {} /\ legacy = {} /\ untracked = {}

\* Every copying goroutine of c has returned, or there never was one.
Over(c) ==
    \/ stage[c] = "over"
    \/ stage[c] = "copying" /\ \A e \in Ends : copier[c][e] = "done"

\* The ends es of c are closed; a remote end leaves conntrack's list
\* (conntrack.Conn.Close).
CloseEnds(c, es) ==
    /\ open' = [open EXCEPT ![c] = @ \ es]
    /\ openConnection' = IF "remote" \in es THEN openConnection \ {c} ELSE openConnection

\* conntrack.Close closes every outgoing socket and empties the list; the ends
\* that are then still open.
WithoutTracked == [c \in Connections |->
                 IF c \in openConnection THEN open[c] \ {"remote"} ELSE open[c]]

CloseTracked ==
    /\ open' = WithoutTracked
    /\ openConnection' = {}
    /\ cut' = cut \cup openConnection
------------------------------------------------------------------------------
\* A connection arrives at the router.  KillerCheck may find the memory
\* exhausted, and its error is ignored here.
Accept(c) ==
    /\ accepting /\ stage[c] = "none"
    /\ stage' = [stage EXCEPT ![c] = "routing"]
    /\ \E n \in {"tcp", "udp"}, d \in SUBSET Ends :
           /\ n = "udp" => d = {}
           /\ network' = [network EXCEPT ![c] = n]
           /\ duplex' = [duplex EXCEPT ![c] = d]
    /\ \/ /\ open' = [open EXCEPT ![c] = {"local"}]
          /\ UNCHANGED <<openConnection, cut>>
       \/ /\ open' = [WithoutTracked EXCEPT ![c] = {"local"}]
          /\ openConnection' = {}
          /\ cut' = cut \cup openConnection
    /\ UNCHANGED <<copier, done, onClose, connections, accepting, closed, left, hijacked,
                   legacy, untracked>>

\* c goes on from one stage to the next and nothing else changes.
Advance(c, from, to) ==
    /\ stage[c] = from
    /\ stage' = [stage EXCEPT ![c] = to]
    /\ UNCHANGED <<network, duplex, open, copier, done, onClose, connections,
                   openConnection, accepting, closed, cut, left, hijacked, legacy,
                   untracked>>

\* c is over: its ends are closed and onClose is called so many times, once by
\* CloseOnHandshakeFailure.
Drop(c, calls) ==
    /\ stage' = [stage EXCEPT ![c] = "over"]
    /\ CloseEnds(c, Ends)
    /\ onClose' = [onClose EXCEPT ![c] = @ + calls]

\* c is over and its local end stays as it is, the caller's to close.
LeaveToCaller(c, calls) ==
    /\ stage' = [stage EXCEPT ![c] = "over"]
    /\ left' = left \cup {c}
    /\ onClose' = [onClose EXCEPT ![c] = @ + calls]
    /\ UNCHANGED <<open, openConnection>>

\* No outbound, an outbound without the network, or a rule that rejects.  Of the
\* deprecated calls, RoutePacketConnection closes the connection and does not
\* call onClose, for which it then waits; RouteConnection returns the error and
\* does neither.
RouteFails(c) ==
    /\ stage[c] = "routing"
    /\ \/ Drop(c, 1) /\ UNCHANGED <<left, legacy>>
       \/ /\ network[c] = "udp"
          /\ Drop(c, 0)
          /\ legacy' = legacy \cup {c} /\ UNCHANGED left
       \/ /\ network[c] = "tcp"
          /\ LeaveToCaller(c, 0)
          /\ legacy' = legacy \cup {c}
    /\ UNCHANGED <<network, duplex, copier, done, connections, accepting, closed, cut,
                   hijacked, untracked>>

\* The inbound that was given RouteConnection's error, or its handler of onClose.
CallerCloses(c) ==
    /\ c \in left /\ "local" \in open[c]
    /\ CloseEnds(c, {"local"})
    /\ UNCHANGED <<stage, network, duplex, copier, done, onClose, connections, accepting,
                   closed, cut, left, hijacked, legacy, untracked>>

\* A rule has the connection's DNS queries answered here.
Hijack(c) ==
    /\ stage[c] = "routing"
    /\ stage' = [stage EXCEPT ![c] = "hijacked"]
    /\ hijacked' = hijacked \cup {c}
    /\ UNCHANGED <<network, duplex, open, copier, done, onClose, connections,
                   openConnection, accepting, closed, cut, left, legacy, untracked>>

\* hijackDNSStream ends; without an error CloseOnHandshakeFailure need not close
\* the end.  hijackDNSPacket calls CloseOnHandshakeFailure and returns the error,
\* for which RoutePacketConnectionEx calls it again.
HijackEnds(c) ==
    /\ stage[c] = "hijacked"
    /\ \/ Drop(c, 1) /\ UNCHANGED left
       \/ network[c] = "tcp" /\ LeaveToCaller(c, 1)
       \/ network[c] = "udp" /\ Drop(c, 2) /\ UNCHANGED left
    /\ UNCHANGED <<network, duplex, copier, done, connections, accepting, closed, cut,
                   hijacked, legacy, untracked>>

Route(c) == Advance(c, "routing", "dialing")

DialFails(c) ==
    /\ stage[c] = "connecting"
    /\ Drop(c, 1)
    /\ UNCHANGED <<network, duplex, copier, done, connections, accepting, closed, cut, left,
                   hijacked, legacy, untracked>>

\* conntrack.NewConn, NewPacketConn: the connected socket is listed ...
Connect(c) ==
    /\ stage[c] = "connecting"
    /\ stage' = [stage EXCEPT ![c] = "checking"]
    /\ open' = [open EXCEPT ![c] = @ \cup {"remote"}]
    /\ openConnection' = openConnection \cup {c}
    /\ UNCHANGED <<network, duplex, copier, done, onClose, connections, accepting, closed,
                   cut, left, hijacked, legacy, untracked>>

\* ... and given up when KillerCheck has closed every socket.
KillerCheck(c) ==
    /\ stage[c] = "checking"
    /\ \/ /\ stage' = [stage EXCEPT ![c] = "reporting"]
          /\ UNCHANGED <<open, openConnection, onClose, cut>>
       \/ /\ stage' = [stage EXCEPT ![c] = "over"]
          /\ open' = [WithoutTracked EXCEPT ![c] = {}]
          /\ openConnection' = {}
          /\ cut' = cut \cup openConnection
          /\ onClose' = [onClose EXCEPT ![c] = @ + 1]
    /\ UNCHANGED <<network, duplex, copier, done, connections, accepting, closed, left,
                   hijacked, legacy, untracked>>

\* Mutant: the remote end is forgotten.
ReportFailsLeaking(c) ==
    /\ stage[c] = "reporting"
    /\ stage' = [stage EXCEPT ![c] = "over"]
    /\ CloseEnds(c, {"local"})
    /\ onClose' = [onClose EXCEPT ![c] = @ + 1]
    /\ UNCHANGED <<network, duplex, copier, done, connections, accepting, closed, cut, left,
                   hijacked, legacy, untracked>>

\* The report of the handshake fails; the packet variant does not call onClose.
ReportFails(c) ==
    /\ stage[c] = "reporting"
    /\ Drop(c, IF network[c] = "tcp" THEN 1 ELSE 0)
    /\ UNCHANGED <<network, duplex, copier, done, connections, accepting, closed, cut, left,
                   hijacked, legacy, untracked>>

Report(c) == Advance(c, "reporting", "tracking")

\* The connection enters the manager's list and both goroutines start, whether
\* or not the manager has been closed.  A goroutine of a stream writes first if
\* there is a cached payload or an early handshake to make.
Track(c) ==
    /\ stage[c] = "tracking"
    /\ stage' = [stage EXCEPT ![c] = "copying"]
    /\ connections' = connections \cup {c}
    /\ \E first \in [Ends -> {"write", "copy"}] :
           /\ network[c] = "udp" => first = [e \in Ends |-> "copy"]
           /\ copier' = [copier EXCEPT ![c] = first]
    /\ UNCHANGED <<network, duplex, open, done, onClose, openConnection, accepting, closed,
                   cut, left, hijacked, legacy, untracked>>
------------------------------------------------------------------------------
GoTo(c, e, step) == copier' = [copier EXCEPT ![c][e] = step]

\* connectionCopy writes the cached payload and makes an early handshake ...
CopyPayload(c, e) ==
    /\ copier[c][e] = "write" /\ Other(e) \in open[c]
    /\ GoTo(c, e, "copy")
    /\ UNCHANGED <<stage, network, duplex, open, done, onClose, connections, openConnection,
                   accepting, closed, cut, left, hijacked, legacy, untracked>>

\* ... or fails in it.
PayloadFails(c, e) ==
    /\ copier[c][e] = "write"
    /\ GoTo(c, e, "swapFailed")
    /\ cut' = cut \cup {c}
    /\ UNCHANGED <<stage, network, duplex, open, done, onClose, connections, openConnection,
                   accepting, closed, left, hijacked, legacy, untracked>>

\* The copy loop reads from e, and writes to the other end.
Read(c, e) ==
    /\ copier[c][e] = "copy" /\ e \in open[c]
    /\ GoTo(c, e, "send")
    /\ UNCHANGED <<stage, network, duplex, open, done, onClose, connections, openConnection,
                   accepting, closed, cut, left, hijacked, legacy, untracked>>

Write(c, e) ==
    /\ copier[c][e] = "send" /\ Other(e) \in open[c]
    /\ GoTo(c, e, "copy")
    /\ UNCHANGED <<stage, network, duplex, open, done, onClose, connections, openConnection,
                   accepting, closed, cut, left, hijacked, legacy, untracked>>

\* The copy from e returns without an error: the peer of e has ended its stream.
CopyEnds(c, e) ==
    /\ copier[c][e] = "copy"
    /\ e \in open[c]
    /\ GoTo(c, e, IF network[c] = "tcp" THEN "finished" ELSE "swapPacket")
    /\ UNCHANGED <<stage, network, duplex, open, done, onClose, connections, openConnection,
                   accepting, closed, cut, left, hijacked, legacy, untracked>>

\* The copy fails in a read or in a write.
CopyFails(c, e) ==
    /\ copier[c][e] \in {"copy", "send"}
    /\ GoTo(c, e, IF network[c] = "tcp" THEN "failed" ELSE "swapPacket")
    /\ cut' = cut \cup {c}
    /\ UNCHANGED <<stage, network, duplex, open, done, onClose, connections, openConnection,
                   accepting, closed, left, hijacked, legacy, untracked>>

\* The goroutine is blocked on an end that has been closed: the end it reads, or
\* the one it writes to.
Woken(c, e) ==
    \/ copier[c][e] = "copy" /\ e \notin open[c]
    \/ copier[c][e] \in {"write", "send"} /\ Other(e) \notin open[c]

\* Mutant: a failed copy closes only the end it read.
CopyFailedHalf(c, e) ==
    /\ copier[c][e] = "failed"
    /\ CloseEnds(c, {e})
    /\ GoTo(c, e, "swap")
    /\ UNCHANGED <<stage, network, duplex, done, onClose, connections, accepting, closed,
                   cut, left, hijacked, legacy, untracked>>

CopyFailed(c, e) ==
    /\ copier[c][e] = "failed"
    /\ CloseEnds(c, Ends)
    /\ GoTo(c, e, "swap")
    /\ UNCHANGED <<stage, network, duplex, done, onClose, connections, accepting, closed,
                   cut, left, hijacked, legacy, untracked>>

\* After a clean end the other end is closed for writing, or altogether when it
\* cannot be; a CloseWrite that fails closes both.
CopyFinished(c, e) ==
    LET destination == Other(e) IN
    /\ copier[c][e] = "finished"
    /\ \/ /\ destination \in duplex[c] /\ destination \in open[c]
          /\ UNCHANGED <<open, openConnection, cut>>
       \/ /\ destination \in duplex[c]
          /\ CloseEnds(c, Ends)
          /\ cut' = cut \cup {c}
       \/ /\ destination \notin duplex[c]
          /\ CloseEnds(c, {destination})
          /\ cut' = cut \cup {c}
    /\ GoTo(c, e, "swap")
    /\ UNCHANGED <<stage, network, duplex, done, onClose, connections, accepting, closed,
                   left, hijacked, legacy, untracked>>

\* Mutant: the first goroutine to end reports and closes the connection.
LastFirst(c, e) == ~done[c]

\* Mutant: every packet goroutine reports.
LastAlways(c, e) == done[c] \/ network[c] = "udp"

\* Who calls onClose: the second goroutine of a stream, the first of packets.
Last(c, e) == IF network[c] = "udp" THEN ~done[c] ELSE done[c]

\* done.Swap(true).
Swap(c, e) ==
    /\ copier[c][e] \in {"swap", "swapFailed", "swapPacket"}
    /\ done' = [done EXCEPT ![c] = TRUE]
    /\ GoTo(c, e, IF Last(c, e) THEN "onClose"
                  ELSE IF copier[c][e] = "swap" THEN "done"
                  ELSE "close")
    /\ UNCHANGED <<stage, network, duplex, open, onClose, connections, openConnection,
                   accepting, closed, cut, left, hijacked, legacy, untracked>>

\* onClose, with the removal from the list that NewConnection has added to it.
CallOnClose(c, e) ==
    /\ copier[c][e] = "onClose"
    /\ onClose' = [onClose EXCEPT ![c] = @ + 1]
    /\ connections' = connections \ {c}
    /\ GoTo(c, e, "close")
    /\ UNCHANGED <<stage, network, duplex, open, done, openConnection, accepting, closed,
                   cut, left, hijacked, legacy, untracked>>

CloseBoth(c, e) ==
    /\ copier[c][e] = "close"
    /\ CloseEnds(c, Ends)
    /\ GoTo(c, e, "done")
    /\ UNCHANGED <<stage, network, duplex, done, onClose, connections, accepting, closed,
                   cut, left, hijacked, legacy, untracked>>
------------------------------------------------------------------------------
\* The canceler closes a packet connection that has been idle for udpTimeout.
Timeout(c) ==
    /\ stage[c] = "copying" /\ network[c] = "udp" /\ "local" \in open[c]
    /\ CloseEnds(c, {"local"})
    /\ cut' = cut \cup {c}
    /\ UNCHANGED <<stage, network, duplex, copier, done, onClose, connections, accepting,
                   closed, left, hijacked, legacy, untracked>>

\* Box.Close closes the inbounds before the connection manager.
CloseInbounds ==
    /\ accepting /\ accepting' = FALSE
    /\ UNCHANGED <<stage, network, duplex, open, copier, done, onClose, connections,
                   openConnection, closed, cut, left, hijacked, legacy, untracked>>

\* Mutant: the list is emptied and nothing is closed.
CloseNothing ==
    /\ ~accepting /\ ~closed
    /\ closed' = TRUE
    /\ connections' = {}
    /\ cut' = cut \cup connections
    /\ untracked' = {c \in Connections : stage[c] # "copying"}
    /\ UNCHANGED <<stage, network, duplex, open, copier, done, onClose, openConnection,
                   accepting, left, hijacked, legacy>>

\* ConnectionManager.Close closes the local ends and empties the list.
Close ==
    /\ ~accepting /\ ~closed
    /\ closed' = TRUE
    /\ open' = [c \in Connections |->
                 IF c \in connections THEN open[c] \ {"local"} ELSE open[c]]
    /\ connections' = {}
    /\ cut' = cut \cup connections
    /\ untracked' = {c \in Connections : stage[c] # "copying"}
    /\ UNCHANGED <<stage, network, duplex, copier, done, onClose, openConnection, accepting,
                   left, hijacked, legacy>>

\* The steps that a goroutine takes by itself, once it is scheduled.
Proceed(c, e) ==
    \/ CopyFailed(c, e)
    \/ CopyFinished(c, e)
    \/ Swap(c, e)
    \/ CallOnClose(c, e)
    \/ CloseBoth(c, e)
    \/ Woken(c, e) /\ (PayloadFails(c, e) \/ CopyFails(c, e))

\* The steps that take a peer.
Exchange(c, e) ==
    \/ CopyPayload(c, e) \/ PayloadFails(c, e)
    \/ Read(c, e) \/ Write(c, e) \/ CopyEnds(c, e) \/ CopyFails(c, e)

\* Everything but the choice of an interface.
ConnNext ==
    \/ \E c \in Connections :
           \/ Accept(c) \/ RouteFails(c) \/ CallerCloses(c)
           \/ Hijack(c) \/ HijackEnds(c) \/ Route(c)
           \/ DialFails(c) \/ Connect(c) \/ KillerCheck(c)
           \/ ReportFails(c) \/ Report(c) \/ Track(c)
           \/ Timeout(c)
           \/ \E e \in Ends : Proceed(c, e) \/ Exchange(c, e)
    \/ CloseInbounds
    \/ Close
------------------------------------------------------------------------------
\* Type correctness; a remote end that is open is listed by conntrack and the
\* other way round, whoever closes it.
ConnTypeOK ==
    /\ stage \in [Connections -> Stages]
    /\ network \in [Connections -> {"tcp", "udp"}]
    /\ duplex \in [Connections -> SUBSET Ends]
    /\ open \in [Connections -> SUBSET Ends]
    /\ copier \in [Connections -> [Ends -> Steps]]
    /\ done \in [Connections -> BOOLEAN]
    /\ onClose \in [Connections -> Nat]
    /\ connections \subseteq Connections
    /\ openConnection = {c \in Connections : "remote" \in open[c]}

\* onClose is called at most once, but for a packet connection of hijack-dns,
\* whose error is handled twice; and a connection that is over has had its call,
\* unless it never got to copying and was refused to a deprecated call or is a
\* packet connection whose handshake could not be reported.
OnCloseOnce ==
    \A c \in Connections :
        /\ \/ onClose[c] <= 1
           \/ onClose[c] = 2 /\ c \in hijacked /\ network[c] = "udp"
        /\ Over(c) /\ onClose[c] = 0 =>
               stage[c] = "over" /\ c \notin hijacked /\ (c \in legacy \/ network[c] = "udp")

\* A connection that is over leaves no open end and no entry in the list, but for
\* the local end where RouteConnection has returned an error, or a hijacked stream
\* ended without one, and the caller has yet to close it.
NothingLeft ==
    \A c \in Connections :
        Over(c) => /\ open[c] = {} \/ (c \in left /\ open[c] = {"local"})
                   /\ c \notin connections

\* The end of one direction of a stream does not cut off the other one: while a
\* copy is running, both ends are open unless a copy failed, an end that cannot
\* close one direction was closed, or someone else closed an end.
HalfCloseKeepsOther ==
    \A c \in Connections :
        /\ network[c] = "tcp" /\ c \notin cut
        /\ \E e \in Ends : copier[c][e] \in {"copy", "send"}
        => open[c] = Ends

\* After Close a local end is open only if the connection was not in the list
\* when Close ran, being dialed, hijacked or over, or if a goroutine that took it
\* off the list is about to close it.
CloseMissesOnlyUntracked ==
    \A c \in Connections :
        closed /\ "local" \in open[c] =>
            c \in untracked \/ \E e \in Ends : copier[c][e] = "close"

Running(c, e) == copier[c][e] \in {"write", "copy", "send"}

\* The goroutine is in a write that only the peer can end.
Stalled(c, e) == copier[c][e] \in {"write", "send"} /\ Other(e) \in open[c]

\* When an end is closed, by Close, by a reset of the network, by a timeout or by
\* the other goroutine, and a goroutine is blocked on it, the connection ends.
\* The goroutine that reads the end may just then be writing to the other one: the
\* connection ends as well, unless a peer leaves a write blocked for ever.
CutConnectionsEnd ==
    \A c \in Connections :
        /\ (\E e \in Ends : Woken(c, e)) ~> Over(c)
        /\ \/ (\E e \in Ends : Running(c, e) /\ e \notin open[c]) ~> Over(c)
           \/ \E e \in Ends : <>[]Stalled(c, e)
==============================================================================
