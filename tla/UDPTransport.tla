---------------------------- MODULE UDPTransport ----------------------------
(***************************************************************************)
(* The UDP DNS transport, core/dns/transport/udp.go: exchanges share one   *)
(* connected socket, a query is told from the others by the 16-bit id it   *)
(* is given on that connection, and the receive loop hands each answer to  *)
(* the callback registered under its id.                                   *)
(*                                                                         *)
(* The network loses, delays, duplicates and reorders: a query that was    *)
(* sent may be answered at any later time, any number of times, or never.  *)
(* Exchanges are numbered, which they are not in the code.                 *)
(***************************************************************************)
EXTENDS Integers

CONSTANTS Callers,   \* goroutines that call Exchange
          Conns,     \* names for connections
          IdSpace,   \* the number of query ids, 2^16 in the code
          MaxCalls,  \* bound on the number of exchanges
          None

ASSUME ConstantsAssumption ==
    /\ IdSpace \in Nat \ {0}
    /\ MaxCalls \in Nat
    /\ None \notin Conns \cup Int

Ids == 0 .. IdSpace - 1

Sizes == {"small", "large"}

VARIABLES conn,     \* UDPTransport.conn
          udpSize,  \* UDPTransport.udpSize
          conns,    \* each dnsConnection, with the buffer of its receive loop
          sent,     \* the queries the server has been sent
          ex,       \* each caller's exchange
          calls

vars == <<conn, udpSize, conns, sent, ex, calls>>

NewConn == [open |-> FALSE, queryId |-> 0, callbacks |-> [i \in Ids |-> None], buffer |-> None]

\* conn: what open returned; id: exMessage.Id; size: what the EDNS option allows;
\* answer: the query that callback.message answers; closed: the t.done channel
\* the exchange selects on is closed.
NewExchange(n, size) ==
    [pc |-> "open", conn |-> None, id |-> 0, query |-> n, size |-> size,
     answer |-> None, closed |-> FALSE]

Idle == [NewExchange(0, "small") EXCEPT !.pc = "idle"]

Init ==
    /\ conn = None
    /\ udpSize = "small"
    /\ conns = [k \in Conns |-> NewConn]
    /\ sent = {}
    /\ ex = [c \in Callers |-> Idle]
    /\ calls = 0

\* The callback is registered until the deferred delete.
Registered(c) == ex[c].pc \in {"write", "select", "answered", "failed"}

\* close(t.done) and a new channel: it reaches the exchanges that have entered
\* their select, not those that will read t.done later.
Signalled == [c \in Callers |-> [ex[c] EXCEPT !.closed = @ \/ ex[c].pc = "select"]]

\* A name may be used again once nothing refers to the old connection.
FreeConns == {k \in Conns : ~conns[k].open /\ k # conn /\ \A c \in Callers : ex[c].conn # k}

\* t.conn is there and its done channel is open.
Connected == conn # None /\ conns[conn].open

CloseConn(k) == conns' = [conns EXCEPT ![k].open = FALSE]

Goto(c, label) == ex' = [ex EXCEPT ![c].pc = label]
-----------------------------------------------------------------------------
(* Exchange.                                                               *)

\* A larger EDNS size than before ends the exchanges under way.
Begin(c) ==
    /\ ex[c].pc = "idle" /\ calls < MaxCalls
    /\ calls' = calls + 1
    /\ \E size \in Sizes :
          LET grows == size = "large" /\ udpSize = "small" IN
          /\ udpSize' = IF grows THEN size ELSE udpSize
          /\ ex' = [IF grows THEN Signalled ELSE ex EXCEPT ![c] = NewExchange(calls + 1, size)]
    /\ UNCHANGED <<conn, conns, sent>>

\* open, under the transport's lock: the connection while it is not done.
Reuse(c) ==
    /\ ex[c].pc = "open" /\ Connected
    /\ ex' = [ex EXCEPT ![c].conn = conn, ![c].pc = "register"]
    /\ UNCHANGED <<conn, udpSize, conns, sent, calls>>

DialFailed(c) ==
    /\ ex[c].pc = "open" /\ ~Connected
    /\ ex' = [ex EXCEPT ![c] = Idle]
    /\ UNCHANGED <<conn, udpSize, conns, sent, calls>>

Dial(c) ==
    /\ ex[c].pc = "open" /\ ~Connected
    /\ \E k \in FreeConns :
          /\ conn' = k
          /\ conns' = [conns EXCEPT ![k] = [NewConn EXCEPT !.open = TRUE]]
          /\ sent' = {m \in sent : m.conn # k}
          /\ ex' = [ex EXCEPT ![c].conn = k, ![c].pc = "register"]
    /\ UNCHANGED <<udpSize, calls>>

\* As NextId, without advancing the connection's id.
SameId(k) == conns[k].queryId

\* conn.queryId++
NextId(k) == (conns[k].queryId + 1) % IdSpace

\* The id is taken and the callback stored under the connection's lock.
Register(c) ==
    LET k == ex[c].conn IN
    /\ ex[c].pc = "register"
    /\ conns' = [conns EXCEPT ![k].queryId = NextId(k),
                              ![k].callbacks[NextId(k)] = ex[c].query]
    /\ ex' = [ex EXCEPT ![c].id = NextId(k), ![c].pc = "write"]
    /\ UNCHANGED <<conn, udpSize, sent, calls>>

\* PackBuffer and conn.Write; an error of the second closes the connection.
Write(c) ==
    LET k == ex[c].conn IN
    /\ ex[c].pc = "write"
    /\ \/ /\ conns[k].open
          /\ sent' = sent \cup {[conn |-> k, id |-> ex[c].id, query |-> ex[c].query, size |-> ex[c].size]}
          /\ Goto(c, "select")
          /\ UNCHANGED conns
       \/ /\ CloseConn(k) \/ UNCHANGED conns
          /\ Goto(c, "failed")
          /\ UNCHANGED sent
    /\ UNCHANGED <<conn, udpSize, calls>>

\* The select: the answer, the connection's or the transport's done channel.
Select(c) ==
    /\ ex[c].pc = "select"
    /\ \/ ex[c].answer # None /\ Goto(c, "answered")
       \/ (~conns[ex[c].conn].open \/ ex[c].closed) /\ Goto(c, "failed")
    /\ UNCHANGED <<conn, udpSize, conns, sent, calls>>

\* As ContextDone, only once the transport is closed.
ContextIgnored(c) ==
    /\ ex[c].pc = "select" /\ ex[c].closed
    /\ Goto(c, "failed")
    /\ UNCHANGED <<conn, udpSize, conns, sent, calls>>

\* The select's last case, the end of the context: the connection that all
\* exchanges share is closed.
ContextDone(c) ==
    /\ ex[c].pc = "select"
    /\ CloseConn(ex[c].conn)
    /\ Goto(c, "failed")
    /\ UNCHANGED <<conn, udpSize, sent, calls>>

\* The deferred function removes whatever is registered under the id.
DeleteCallback(c) == conns' = [conns EXCEPT ![ex[c].conn].callbacks[ex[c].id] = None]

\* exchange returns.  An answer with the truncated bit is asked for over TCP.
Return(c) ==
    /\ ex[c].pc \in {"answered", "failed"}
    /\ DeleteCallback(c)
    /\ \/ ex' = [ex EXCEPT ![c] = Idle]
       \/ ex[c].pc = "answered" /\ ex' = [ex EXCEPT ![c] = [Idle EXCEPT !.pc = "tcp"]]
    /\ UNCHANGED <<conn, udpSize, sent, calls>>

\* TCPTransport.Exchange dials a connection of its own and shares nothing; once
\* it has dialled it does not look at the context.
RetryTCP(c) ==
    /\ ex[c].pc = "tcp"
    /\ Goto(c, "idle")
    /\ UNCHANGED <<conn, udpSize, conns, sent, calls>>
-----------------------------------------------------------------------------
(* The receive loop, and Close.                                            *)

\* The next buffer has the size of the moment.
Allocate(k) ==
    /\ conns[k].open /\ conns[k].buffer = None
    /\ conns' = [conns EXCEPT ![k].buffer = udpSize]
    /\ UNCHANGED <<conn, udpSize, sent, ex, calls>>

\* The callback under the answer's id is completed, unless it has been.
Completed(k, m) ==
    [c \in Callers |->
        IF /\ Registered(c) /\ ex[c].conn = k
           /\ conns[k].callbacks[m.id] = ex[c].query
           /\ ex[c].answer = None
        THEN [ex[c] EXCEPT !.answer = m.query] ELSE ex[c]]

\* An answer longer than the buffer is cut off: it parses where the cut falls
\* between two records, and otherwise closes the connection.
Receive(k) ==
    /\ conns[k].open /\ conns[k].buffer # None
    /\ \E m \in sent :
          /\ m.conn = k
          /\ \/ /\ conns' = [conns EXCEPT ![k].buffer = None]
                /\ ex' = Completed(k, m)
             \/ /\ m.size = "large" /\ conns[k].buffer = "small"
                /\ CloseConn(k)
                /\ UNCHANGED ex
    /\ UNCHANGED <<conn, udpSize, sent, calls>>

\* The socket fails, or something that is no DNS message arrives.
ReadFailed(k) ==
    /\ conns[k].open
    /\ CloseConn(k)
    /\ UNCHANGED <<conn, udpSize, sent, ex, calls>>

\* Close ends the exchanges in their select and leaves the connection open.
Close ==
    /\ ex' = Signalled
    /\ UNCHANGED <<conn, udpSize, conns, sent, calls>>

ExchangeStep(c) ==
    \/ Reuse(c) \/ DialFailed(c) \/ Dial(c) \/ Register(c) \/ Write(c)
    \/ Select(c) \/ ContextDone(c) \/ Return(c)

Next ==
    \/ \E c \in Callers : Begin(c) \/ ExchangeStep(c) \/ RetryTCP(c)
    \/ \E k \in Conns : Allocate(k) \/ Receive(k) \/ ReadFailed(k)
    \/ Close

Spec == Init /\ [][Next]_vars
-----------------------------------------------------------------------------
TypeOK ==
    /\ conn \in Conns \cup {None}
    /\ udpSize \in Sizes
    /\ calls \in 0 .. MaxCalls
    /\ conns \in [Conns -> [open : BOOLEAN, queryId : Ids, buffer : Sizes \cup {None},
                            callbacks : [Ids -> (1 .. MaxCalls) \cup {None}]]]
    /\ sent \subseteq [conn : Conns, id : Ids, query : 1 .. MaxCalls, size : Sizes]
    /\ ex \in [Callers -> [pc : {"idle", "open", "register", "write", "select",
                                 "answered", "failed", "tcp"},
                           conn : Conns \cup {None}, id : Ids, query : 0 .. MaxCalls,
                           size : Sizes, answer : (1 .. MaxCalls) \cup {None},
                           closed : BOOLEAN]]
    /\ \A c \in Callers : Registered(c) \/ ex[c].pc = "register" => ex[c].conn # None

\* While fewer queries than ids are made on a connection, an exchange is never
\* given the answer to another exchange's query, however late or often answers
\* arrive and however connections are replaced.
AnswerIsOwn == \A c \in Callers : ex[c].answer \in {None, ex[c].query}

\* A callback is registered only for an exchange that will delete it: the map
\* of a connection does not grow with the exchanges that fail.
NoStrandedCallback ==
    \A k \in Conns, i \in Ids : conns[k].callbacks[i] # None =>
        \E c \in Callers : /\ Registered(c) /\ ex[c].conn = k /\ ex[c].id = i
                           /\ ex[c].query = conns[k].callbacks[i]

\* The transport holds at most one open socket, the one new exchanges use:
\* whenever open dials, the connection it replaces has been closed.
OneOpenConnection == \A k \in Conns : conns[k].open => k = conn
=============================================================================
