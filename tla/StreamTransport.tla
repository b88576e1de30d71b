--------------------------- MODULE StreamTransport ---------------------------
(***************************************************************************)
(* The stream DNS transports, core/dns/transport/tls.go and tcp.go.  An    *)
(* exchange over TCP dials a connection for itself and closes it.  One     *)
(* over TLS takes a connection from a pool, where the exchange before it   *)
(* has left it, and dials when there is none or when the pooled one fails. *)
(* Nobody compares the id of an answer with that of the query: whose       *)
(* answer an exchange reads depends on who used its connection before.     *)
(*                                                                         *)
(* A stream delivers in order.  The peer answers a query once, late or     *)
(* never, with a message that may not parse, and may cut the connection.   *)
(***************************************************************************)
EXTENDS Integers, Sequences

CONSTANTS Callers,   \* goroutines that call Exchange
          Conns,     \* names for connections
          MaxCalls,  \* bound on the number of exchanges
          None

VARIABLES connections, \* TLSTransport.connections
          conns,       \* each connection
          ex,          \* each caller's exchange
          calls

vars == <<connections, conns, ex, calls>>

Transports == {"tcp", "tls"}

\* asked: queries written and not answered; answers: answers not read yet;
\* cut: the peer has ended the connection.
NewConn == [open |-> FALSE, cut |-> FALSE, asked |-> <<>>, answers |-> <<>>]

\* conn: the connection in use; pooled: it comes from the pool.
NewExchange(n, transport) ==
    [pc |-> "begin", transport |-> transport, query |-> n, conn |-> None,
     pooled |-> FALSE, answer |-> None]

Idle == [NewExchange(0, "tcp") EXCEPT !.pc = "idle"]

Init ==
    /\ connections = <<>>
    /\ conns = [k \in Conns |-> NewConn]
    /\ ex = [c \in Callers |-> Idle]
    /\ calls = 0

Begin(c) ==
    /\ ex[c].pc = "idle" /\ calls < MaxCalls
    /\ calls' = calls + 1
    /\ \E transport \in Transports : ex' = [ex EXCEPT ![c] = NewExchange(calls + 1, transport)]
    /\ UNCHANGED <<connections, conns>>

\* The start of an exchange: TLS takes a connection from the pool.
Pop(c) ==
    /\ ex[c].pc = "begin"
    /\ \/ /\ ex[c].transport = "tls" /\ connections # <<>>
          /\ ex' = [ex EXCEPT ![c].pc = "write", ![c].conn = Head(connections), ![c].pooled = TRUE]
          /\ connections' = Tail(connections)
       \/ /\ ex[c].transport = "tcp" \/ connections = <<>>
          /\ ex' = [ex EXCEPT ![c].pc = "dial"]
          /\ UNCHANGED connections
    /\ UNCHANGED <<conns, calls>>

Dial(c) ==
    /\ ex[c].pc = "dial"
    /\ \E k \in Conns :
          /\ ~conns[k].open /\ \A d \in Callers : ex[d].conn # k
          /\ conns' = [conns EXCEPT ![k] = [NewConn EXCEPT !.open = TRUE]]
          /\ ex' = [ex EXCEPT ![c].conn = k, ![c].pc = IF ex[c].transport = "tls" THEN "handshake" ELSE "write"]
    /\ UNCHANGED <<connections, calls>>

\* The context ends a dial.
DialFails(c) ==
    /\ ex[c].pc = "dial"
    /\ ex' = [ex EXCEPT ![c] = Idle]
    /\ UNCHANGED <<connections, conns, calls>>

\* Mutant: a failed handshake leaves the TCP connection open.
HandshakeLeaking(c) ==
    /\ ex[c].pc = "handshake"
    /\ \/ ex' = [ex EXCEPT ![c].pc = "write"]
       \/ ex' = [ex EXCEPT ![c] = Idle]
    /\ UNCHANGED <<connections, conns, calls>>

\* tls.ClientHandshake; when it fails the TCP connection is closed.
Handshake(c) ==
    /\ ex[c].pc = "handshake"
    /\ \/ /\ ex' = [ex EXCEPT ![c].pc = "write"]
          /\ UNCHANGED conns
       \/ /\ ex' = [ex EXCEPT ![c] = Idle]
          /\ conns' = [conns EXCEPT ![ex[c].conn].open = FALSE]
    /\ UNCHANGED <<connections, calls>>

\* Mutant: an exchange whose pooled connection failed gives up.
FailsAtOnce(c) ==
    /\ conns' = [conns EXCEPT ![ex[c].conn].open = FALSE]
    /\ ex' = [ex EXCEPT ![c] = Idle]
    /\ UNCHANGED <<connections, calls>>

\* Writing or reading failed: the connection is closed, and an exchange that
\* had it from the pool goes on to dial.
Fails(c) ==
    /\ conns' = [conns EXCEPT ![ex[c].conn].open = FALSE]
    /\ ex' = [ex EXCEPT ![c] = IF ex[c].pooled
                               THEN [@ EXCEPT !.pc = "dial", !.conn = None, !.pooled = FALSE]
                               ELSE Idle]
    /\ UNCHANGED <<connections, calls>>

WriteMessage(c) ==
    LET k == ex[c].conn IN
    /\ ex[c].pc = "write"
    /\ conns[k].open
    /\ conns' = [conns EXCEPT ![k].asked = Append(@, ex[c].query)]
    /\ ex' = [ex EXCEPT ![c].pc = "read"]
    /\ UNCHANGED <<connections, calls>>

\* Packing the message, or the socket, fails.
WriteFails(c) == ex[c].pc = "write" /\ Fails(c)

ReadMessage(c) ==
    LET k == ex[c].conn IN
    /\ ex[c].pc = "read"
    /\ conns[k].open /\ conns[k].answers # <<>>
    /\ conns' = [conns EXCEPT ![k].answers = Tail(@)]
    /\ ex' = [ex EXCEPT ![c].pc = "return", ![c].answer = Head(conns[k].answers)]
    /\ UNCHANGED <<connections, calls>>

\* The connection is cut, or what arrives is too short or does not parse.
ReadFails(c) ==
    /\ ex[c].pc = "read"
    /\ LET k == ex[c].conn IN ~conns[k].open \/ conns[k].cut \/ conns[k].answers # <<>>
    /\ Fails(c)

\* TLS leaves its connection in the pool, the deferred Close of TCP ends it.
Return(c) ==
    LET k == ex[c].conn IN
    /\ ex[c].pc = "return"
    /\ \/ /\ ex[c].transport = "tls"
          /\ connections' = Append(connections, k)
          /\ UNCHANGED conns
       \/ /\ ex[c].transport = "tcp"
          /\ conns' = [conns EXCEPT ![k].open = FALSE]
          /\ UNCHANGED connections
    /\ ex' = [ex EXCEPT ![c] = Idle]
    /\ UNCHANGED calls

InPool(k) == \E i \in 1 .. Len(connections) : connections[i] = k

\* TLSTransport.Close, when the box closes or the network is reset; TCP has
\* nothing to close.  Connections in use are not in the pool.
Close ==
    /\ conns' = [k \in Conns |-> [conns[k] EXCEPT !.open = @ /\ ~InPool(k)]]
    /\ connections' = <<>>
    /\ UNCHANGED <<ex, calls>>
-----------------------------------------------------------------------------
(* The peer.                                                               *)

Answer(k) ==
    /\ conns[k].open /\ ~conns[k].cut /\ conns[k].asked # <<>>
    /\ conns' = [conns EXCEPT ![k].asked = Tail(@), ![k].answers = Append(@, Head(conns[k].asked))]
    /\ UNCHANGED <<connections, ex, calls>>

Cut(k) ==
    /\ conns[k].open /\ ~conns[k].cut
    /\ conns' = [conns EXCEPT ![k].cut = TRUE]
    /\ UNCHANGED <<connections, ex, calls>>

Step(c) ==
    \/ Pop(c) \/ Dial(c) \/ DialFails(c) \/ Handshake(c) \/ WriteMessage(c) \/ WriteFails(c)
    \/ ReadMessage(c) \/ ReadFails(c) \/ Return(c)

Next ==
    \/ \E c \in Callers : Begin(c) \/ Step(c)
    \/ \E k \in Conns : Answer(k) \/ Cut(k)
    \/ Close
-----------------------------------------------------------------------------
TypeOK ==
    /\ connections \in Seq(Conns)
    /\ conns \in [Conns -> [open : BOOLEAN, cut : BOOLEAN, asked : Seq(1 .. MaxCalls),
                            answers : Seq(1 .. MaxCalls)]]
    /\ ex \in [Callers -> [pc : {"idle", "begin", "dial", "handshake", "write", "read", "return"},
                           transport : Transports, query : 0 .. MaxCalls,
                           conn : Conns \cup {None}, pooled : BOOLEAN,
                           answer : (1 .. MaxCalls) \cup {None}]]
    /\ \A c \in Callers : ex[c].pc \in {"handshake", "write", "read", "return"} => ex[c].conn # None

\* An exchange returns the answer to its own query, although ids are not
\* compared, connections are passed on, and exchanges give up while their
\* answers are under way.
AnswerIsOwn == \A c \in Callers : ex[c].answer \in {None, ex[c].query}

Held(k) == {c \in Callers : ex[c].conn = k}

\* An open connection is held by one exchange or waits in the pool, whichever
\* step failed and whenever Close came: no socket is left behind.
NoConnectionLost ==
    \A k \in Conns : conns[k].open <=> (Held(k) # {} \/ InPool(k))

\* What the pool offers can be used at once: it is open, in the pool once, no
\* exchange is using it and no earlier query on it is still to be answered.
PoolIsClean ==
    \A i \in 1 .. Len(connections) :
        LET k == connections[i] IN
        /\ conns[k].open /\ Held(k) = {}
        /\ conns[k].asked = <<>> /\ conns[k].answers = <<>>
        /\ \A j \in 1 .. Len(connections) : connections[j] = k => i = j

\* A step that ends an exchange without an answer ends the use of a connection
\* that the exchange has dialled.
FailsFresh == \A c \in Callers : ex'[c].pc = "idle" /\ ex[c].answer = None => ~ex[c].pooled

\* The peer of the connection that the exchange reads neither answers nor ends
\* it, and ReadMessage has no deadline.
Silent(c) ==
    /\ ex[c].pc = "read"
    /\ LET k == ex[c].conn IN conns[k].open /\ ~conns[k].cut /\ conns[k].answers = <<>>
==============================================================================
