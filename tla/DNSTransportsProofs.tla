------------------------- MODULE DNSTransportsProofs -------------------------
(***************************************************************************)
(* The remote DNS transports for any number of exchanges, connections and  *)
(* query ids: exchanges get their own answers, release what they allocate, *)
(* and do not fail because of what the pool held.                          *)
(*                                                                         *)
(* The first part is UDP.  The steps are sorted by what they do to the     *)
(* callbacks and the numbers of the exchanges: most of them nothing.       *)
(***************************************************************************)
EXTENDS DNSTransports, FiniteSetTheorems, TLAPS

Pc == {"idle", "open", "register", "write", "select", "answered", "failed", "tcp"}

ExchangeRec ==
    [pc : Pc, conn : Conns \cup {None}, id : Ids, query : 0 .. MaxCalls, size : Sizes,
     answer : (1 .. MaxCalls) \cup {None}, closed : BOOLEAN]

ConnRec ==
    [open : BOOLEAN, queryId : Ids, buffer : Sizes \cup {None},
     callbacks : [Ids -> (1 .. MaxCalls) \cup {None}]]

Message == [conn : Conns, id : Ids, query : 1 .. MaxCalls, size : Sizes]

\* The records of TypeOK under their names.
Types ==
    /\ conn \in Conns \cup {None}
    /\ udpSize \in Sizes
    /\ calls \in 0 .. MaxCalls
    /\ conns \in [Conns -> ConnRec]
    /\ sent \in SUBSET Message
    /\ ex \in [Callers -> ExchangeRec]
    /\ \A c \in Callers : Registered(c) \/ ex[c].pc = "register" => ex[c].conn # None

\* An exchange that is under way has a number of its own.
Over(c) == ex[c].pc \in {"idle", "tcp"}

Numbered ==
    /\ \A c \in Callers : Over(c) \/ ex[c].query \in 1 .. calls
    /\ \A c, d \in Callers : ex[c].query = ex[d].query => Over(c) \/ Over(d) \/ c = d

-----------------------------------------------------------------------------
(* The kinds of step.                                                      *)

\* The exchange is as far as before, but for its answer.
Same(c) ==
    /\ Over(c)' <=> Over(c)
    /\ ex'[c].pc = "open" <=> ex[c].pc = "open"
    /\ ex'[c].pc = "register" <=> ex[c].pc = "register"
    /\ Registered(c)' <=> Registered(c)
    /\ ex'[c].conn = ex[c].conn /\ ex'[c].id = ex[c].id /\ ex'[c].query = ex[c].query

Stays(c) == Same(c) /\ ex'[c].answer = ex[c].answer

Others(c) == \A d \in Callers \ {c} : Stays(d)

\* The connection is not opened and has the callbacks and the id it had.
Keeps(k) ==
    /\ conns'[k].open => conns[k].open
    /\ conns'[k].queryId = conns[k].queryId
    /\ conns'[k].callbacks = conns[k].callbacks

KeepsAll == \A k \in Conns : Keeps(k)

Quiet ==
    /\ KeepsAll /\ \A d \in Callers : Stays(d)
    /\ \A m \in sent' : \/ m \in sent
                        \/ \E c \in Callers : /\ Registered(c) /\ m.conn = ex[c].conn
                                              /\ m.id = ex[c].id /\ m.query = ex[c].query
    /\ conn' = conn /\ calls <= calls'

Begun(c) ==
    /\ Over(c) /\ ex'[c].pc = "open" /\ ex'[c].query = calls + 1 /\ ex'[c].answer = None
    /\ Others(c) /\ KeepsAll
    /\ conn' = conn /\ sent' = sent /\ calls' = calls + 1

Fresh(k) ==
    /\ ~Connected /\ k \in Conns /\ \A d \in Callers : ex[d].conn # k
    /\ conns'[k].queryId = 0 /\ conns'[k].callbacks = [i \in Ids |-> None]
    /\ \A l \in Conns \ {k} : Keeps(l)
    /\ sent' = {m \in sent : m.conn # k}

Opened(c) ==
    /\ ex[c].pc = "open" /\ ex'[c].pc = "register" /\ ex'[c].conn = conn'
    /\ ex'[c].query = ex[c].query /\ ex'[c].answer = ex[c].answer
    /\ Others(c)
    /\ calls' = calls
    /\ \/ Fresh(conn')
       \/ KeepsAll /\ conn' = conn /\ sent' = sent

Failed(c) ==
    /\ ex[c].pc = "open" /\ Over(c)' /\ ex'[c].answer = None
    /\ Others(c) /\ KeepsAll
    /\ conn' = conn /\ sent' = sent /\ calls' = calls

Stored(c) ==
    LET k == ex[c].conn IN
    /\ ex[c].pc = "register" /\ k \in Conns
    /\ ex'[c].pc = "write" /\ ex'[c].conn = k /\ ex'[c].id = NextId(k)
    /\ ex'[c].query = ex[c].query /\ ex'[c].answer = ex[c].answer
    /\ conns'[k].open = conns[k].open /\ conns'[k].queryId = NextId(k)
    /\ conns'[k].callbacks = [conns[k].callbacks EXCEPT ![NextId(k)] = ex[c].query]
    /\ \A l \in Conns \ {k} : Keeps(l)
    /\ Others(c)
    /\ conn' = conn /\ sent' = sent /\ calls' = calls

Deleted(c) ==
    LET k == ex[c].conn IN
    /\ Registered(c) /\ k \in Conns /\ Over(c)' /\ ex'[c].answer = None
    /\ conns'[k].open = conns[k].open /\ conns'[k].queryId = conns[k].queryId
    /\ conns'[k].callbacks = [conns[k].callbacks EXCEPT ![ex[c].id] = None]
    /\ \A l \in Conns \ {k} : Keeps(l)
    /\ Others(c)
    /\ conn' = conn /\ sent' = sent /\ calls' = calls

Answered(m) ==
    /\ m \in sent /\ KeepsAll
    /\ \A c \in Callers :
          /\ Same(c)
          /\ \/ ex'[c].answer = ex[c].answer
             \/ /\ Registered(c) /\ ex[c].conn = m.conn
                /\ conns[m.conn].callbacks[m.id] = ex[c].query
                /\ ex'[c].answer = m.query
    /\ conn' = conn /\ sent' = sent /\ calls' = calls

Kinds ==
    \/ Quiet
    \/ \E c \in Callers : Begun(c) \/ Opened(c) \/ Failed(c) \/ Stored(c) \/ Deleted(c)
    \/ \E m \in sent : Answered(m)

-----------------------------------------------------------------------------
(* The ids: a connection has given out no more of them than exchanges have *)
(* begun, not counting those that still have to register.                  *)

Opening == {c \in Callers : ex[c].pc \in {"open", "register"}}

IdsLast ==
    /\ IsFiniteSet(Opening)
    /\ \A k \in Conns : conns[k].queryId + Cardinality(Opening) <= calls

\* Ids in use have been given out, and to one exchange each.
IdsAreOwn ==
    /\ \A c \in Callers : Registered(c) => ex[c].id <= conns[ex[c].conn].queryId
    /\ \A m \in sent : m.id <= conns[m.conn].queryId
    /\ \A c, d \in Callers :
          Registered(c) /\ Registered(d) /\ ex[c].conn = ex[d].conn /\ ex[c].id = ex[d].id => c = d
    /\ \A c \in Callers, m \in sent :
          Registered(c) /\ ex[c].conn = m.conn /\ ex[c].id = m.id => ex[c].query = m.query

-----------------------------------------------------------------------------
(* Each step is of one of the kinds, and keeps the types.                  *)

\* The ids are not empty.
LEMMA IdsExist == 0 \in Ids /\ IdSpace \in Nat \ {0} /\ None \notin Conns /\ None \notin 1 .. MaxCalls
BY ConstantsAssumption DEF Ids

\* A new connection has the type, before it is used and once it is.
LEMMA NoCallbacks ==
    /\ NewConn \in ConnRec
    /\ LET r == [NewConn EXCEPT !.open = TRUE]
       IN  r \in ConnRec /\ r.queryId = 0 /\ r.callbacks = [i \in Ids |-> None]
<1> DEFINE none == [i \in Ids |-> None]
<1>1. none \in [Ids -> (1 .. MaxCalls) \cup {None}]
    OBVIOUS
<1>2. NewConn = [open |-> FALSE, queryId |-> 0, callbacks |-> none, buffer |-> None]
    BY ZenonT(60) DEF NewConn
<1> HIDE DEF none
<1>3. NewConn \in ConnRec /\ NewConn.queryId = 0 /\ NewConn.callbacks = none
    BY <1>1, <1>2, IdsExist, ZenonT(60) DEF ConnRec
<1>4. LET r == [NewConn EXCEPT !.open = TRUE]
      IN  r \in ConnRec /\ r.queryId = 0 /\ r.callbacks = none
    BY <1>3, ZenonT(60) DEF ConnRec
<1> QED
    BY <1>3, <1>4, ZenonT(60) DEF none

\* So have a new exchange, one that is over and one that turns to TCP.
LEMMA NewTypes ==
    /\ \A n \in 0 .. MaxCalls, size \in Sizes : NewExchange(n, size) \in ExchangeRec
    /\ Idle \in ExchangeRec /\ Idle.pc = "idle" /\ Idle.conn = None /\ Idle.answer = None
    /\ LET t == [Idle EXCEPT !.pc = "tcp"]
       IN  t \in ExchangeRec /\ t.pc = "tcp" /\ t.answer = None
<1>1. \A n \in 0 .. MaxCalls, size \in Sizes : NewExchange(n, size) \in ExchangeRec
    BY IdsExist, ZenonT(60) DEF NewExchange, ExchangeRec, Pc
<1> DEFINE e == NewExchange(0, "small")
<1>2. e \in ExchangeRec
    BY <1>1, ConstantsAssumption DEF Sizes
<1>3. e.conn = None /\ e.answer = None
    BY ZenonT(60) DEF NewExchange
<1>4. Idle = [e EXCEPT !.pc = "idle"]
    BY ZenonT(60) DEF Idle
<1> HIDE DEF e
<1>5. Idle \in ExchangeRec /\ Idle.pc = "idle" /\ Idle.conn = None /\ Idle.answer = None
    BY <1>2, <1>3, <1>4, ZenonT(60) DEF ExchangeRec, Pc
<1>6. LET t == [Idle EXCEPT !.pc = "tcp"]
      IN  t \in ExchangeRec /\ t.pc = "tcp" /\ t.answer = None
    BY <1>5, ZenonT(60) DEF ExchangeRec, Pc
<1> QED
    BY <1>1, <1>5, <1>6, ZenonT(60)

\* The step of one exchange that leaves the others alone.
LEMMA OneMoves ==
    ASSUME Types, NEW c \in Callers, NEW e \in ExchangeRec, ex' = [ex EXCEPT ![c] = e]
    PROVE  ex' \in [Callers -> ExchangeRec] /\ ex'[c] = e /\ Others(c)
<1>1. ex' \in [Callers -> ExchangeRec] /\ ex'[c] = e
    BY ZenonT(60) DEF Types
<1>2. \A d \in Callers \ {c} : ex'[d] = ex[d]
    BY ZenonT(60) DEF Types
<1> QED
    BY <1>1, <1>2, ZenonT(60) DEF Others, Stays, Same, Over, Registered

\* An exchange that is moved on within its kind.
LEMMA OneStays ==
    ASSUME Types, NEW c \in Callers, NEW label \in {"idle", "select", "answered", "failed"},
           Goto(c, label), (Over(c) /\ label = "idle") \/ (Registered(c) /\ label # "idle")
    PROVE  ex' \in [Callers -> ExchangeRec] /\ \A d \in Callers : Stays(d)
<1> DEFINE e == [ex[c] EXCEPT !.pc = label]
<1>1. ex' = [ex EXCEPT ![c] = e]
    BY ZenonT(60) DEF Goto, Types
<1>2. e \in ExchangeRec
    BY ZenonT(60) DEF Types, ExchangeRec, Pc
<1>3. /\ e.pc = label /\ e.conn = ex[c].conn /\ e.id = ex[c].id
      /\ e.query = ex[c].query /\ e.answer = ex[c].answer
    BY ZenonT(60) DEF Types, ExchangeRec
<1> HIDE DEF e
<1>4. ex' \in [Callers -> ExchangeRec] /\ ex'[c] = e /\ Others(c)
    BY <1>1, <1>2, OneMoves, ZenonT(60)
<1>5. Stays(c)
    BY <1>3, <1>4, ZenonT(60) DEF Stays, Same, Over, Registered
<1> QED
    BY <1>4, <1>5, ZenonT(60) DEF Others

\* Closing t.done moves no exchange.
LEMMA SignalStays ==
    ASSUME Types
    PROVE  /\ Signalled \in [Callers -> ExchangeRec]
           /\ \A d \in Callers :
                 /\ Signalled[d].pc = ex[d].pc /\ Signalled[d].conn = ex[d].conn
                 /\ Signalled[d].id = ex[d].id /\ Signalled[d].query = ex[d].query
                 /\ Signalled[d].answer = ex[d].answer
BY ZenonT(60) DEF Signalled, Types, ExchangeRec

\* Closing a connection, or giving it another buffer, keeps the rest of it.
LEMMA CloseKeeps ==
    ASSUME Types, NEW k \in Conns, CloseConn(k)
    PROVE  conns' \in [Conns -> ConnRec] /\ KeepsAll
<1> DEFINE r == [conns[k] EXCEPT !.open = FALSE]
<1>1. conns' = [conns EXCEPT ![k] = r]
    BY ZenonT(60) DEF CloseConn, Types
<1>2. r \in ConnRec /\ ~r.open /\ r.queryId = conns[k].queryId /\ r.callbacks = conns[k].callbacks
    BY ZenonT(60) DEF Types, ConnRec
<1> HIDE DEF r
<1>3. conns'[k] = r /\ \A l \in Conns \ {k} : conns'[l] = conns[l]
    BY <1>1, ZenonT(60) DEF Types
<1>4. conns' \in [Conns -> ConnRec]
    BY <1>1, <1>2, ZenonT(60) DEF Types
<1> QED
    BY <1>2, <1>3, <1>4, ZenonT(60) DEF KeepsAll, Keeps

\* As CloseKeeps.
LEMMA BufferKeeps ==
    ASSUME Types, NEW k \in Conns, NEW b \in Sizes \cup {None},
           conns' = [conns EXCEPT ![k].buffer = b]
    PROVE  conns' \in [Conns -> ConnRec] /\ KeepsAll
<1> DEFINE r == [conns[k] EXCEPT !.buffer = b]
<1>1. conns' = [conns EXCEPT ![k] = r]
    BY ZenonT(60) DEF Types
<1>2. /\ r \in ConnRec /\ r.open = conns[k].open
      /\ r.queryId = conns[k].queryId /\ r.callbacks = conns[k].callbacks
    BY ZenonT(60) DEF Types, ConnRec
<1> HIDE DEF r
<1>3. conns'[k] = r /\ \A l \in Conns \ {k} : conns'[l] = conns[l]
    BY <1>1, ZenonT(60) DEF Types
<1>4. conns' \in [Conns -> ConnRec]
    BY <1>1, <1>2, ZenonT(60) DEF Types
<1> QED
    BY <1>2, <1>3, <1>4, ZenonT(60) DEF KeepsAll, Keeps

\* Nothing changes but the time, the numbers of the streams, or buffers.
LEMMA QuietStreams ==
    ASSUME Types, UNCHANGED udpVars, calls' \in 0 .. MaxCalls, calls <= calls'
    PROVE  Types' /\ Quiet
<1>1. \A d \in Callers : Stays(d)
    BY ZenonT(60) DEF udpVars, Stays, Same, Over, Registered
<1>2. KeepsAll
    BY ZenonT(60) DEF udpVars, KeepsAll, Keeps
<1>3. Types'
    BY ZenonT(60) DEF Types, udpVars, Registered
<1> QED
    BY <1>1, <1>2, <1>3, ZenonT(60) DEF Quiet, udpVars

\* The end of Types' that every step has to show.
LEMMA ConnsNamed ==
    ASSUME Types, NEW c \in Callers, Others(c),
           Registered(c)' \/ ex'[c].pc = "register" => ex'[c].conn # None
    PROVE  \A d \in Callers : Registered(d)' \/ ex'[d].pc = "register" => ex'[d].conn # None
BY ZenonT(60) DEF Types, Others, Stays, Same

\* Begin numbers the exchange, and may end others.
LEMMA BeginKind == ASSUME Types, NEW c \in Callers, Begin(c) PROVE Types' /\ Begun(c)
<1>1. PICK size \in Sizes :
          \/ ex' = [Signalled EXCEPT ![c] = NewExchange(calls + 1, size)]
          \/ ex' = [ex EXCEPT ![c] = NewExchange(calls + 1, size)]
    BY ZenonT(60) DEF Begin
<1>2. udpSize' \in Sizes /\ calls' \in 0 .. MaxCalls /\ calls + 1 \in 0 .. MaxCalls
    BY ConstantsAssumption DEF Begin, Types, Sizes
<1> DEFINE e == NewExchange(calls + 1, size)
<1>3. e \in ExchangeRec
    BY <1>2, NewTypes, ZenonT(60)
<1>4. e.pc = "open" /\ e.conn = None /\ e.query = calls + 1 /\ e.answer = None
    BY ZenonT(60) DEF NewExchange
<1>5. ex' = [Signalled EXCEPT ![c] = e] \/ ex' = [ex EXCEPT ![c] = e]
    BY <1>1, ZenonT(60)
<1> HIDE DEF e
<1>6. ex' \in [Callers -> ExchangeRec] /\ ex'[c] = e
    BY <1>3, <1>5, SignalStays, ZenonT(60) DEF Types
<1>7. \A d \in Callers \ {c} : ex'[d] = Signalled[d] \/ ex'[d] = ex[d]
    BY <1>5, SignalStays, ZenonT(60) DEF Types
<1>8. Others(c)
    BY <1>7, SignalStays DEF Others, Stays, Same, Over, Registered
<1>9. KeepsAll
    BY ZenonT(60) DEF Begin, KeepsAll, Keeps
<1>10. Begun(c)
    BY <1>4, <1>6, <1>8, <1>9, ZenonT(60) DEF Begun, Begin, Over
<1>11. \A d \in Callers : Registered(d)' \/ ex'[d].pc = "register" => ex'[d].conn # None
    BY <1>4, <1>6, <1>8, ConnsNamed, ZenonT(60) DEF Registered
<1> QED
    BY <1>2, <1>6, <1>10, <1>11, ZenonT(60) DEF Types, Begin

\* open returns the connection that is there.
LEMMA ReuseKind == ASSUME Types, NEW c \in Callers, Reuse(c) PROVE Types' /\ Opened(c)
<1> DEFINE e == [ex[c] EXCEPT !.conn = conn, !.pc = "register"]
<1>1. ex' = [ex EXCEPT ![c] = e]
    BY ZenonT(60) DEF Reuse, Types
<1>2. e \in ExchangeRec
    BY ZenonT(60) DEF Types, ExchangeRec, Pc
<1>3. e.pc = "register" /\ e.conn = conn /\ e.query = ex[c].query /\ e.answer = ex[c].answer
    BY ZenonT(60) DEF Types, ExchangeRec
<1> HIDE DEF e
<1>4. ex' \in [Callers -> ExchangeRec] /\ ex'[c] = e /\ Others(c)
    BY <1>1, <1>2, OneMoves, ZenonT(60)
<1>5. KeepsAll
    BY ZenonT(60) DEF Reuse, KeepsAll, Keeps
<1>6. Opened(c)
    BY <1>3, <1>4, <1>5, ZenonT(60) DEF Opened, Reuse
<1>7. \A d \in Callers : Registered(d)' \/ ex'[d].pc = "register" => ex'[d].conn # None
    BY <1>3, <1>4, ConnsNamed, ZenonT(60) DEF Reuse, Connected
<1> QED
    BY <1>4, <1>6, <1>7, ZenonT(60) DEF Types, Reuse

\* open dials, under a name that nothing refers to.
LEMMA DialKind == ASSUME Types, NEW c \in Callers, Dial(c) PROVE Types' /\ Opened(c)
<1>1. PICK k \in FreeConns :
          /\ conn' = k
          /\ conns' = [conns EXCEPT ![k] = [NewConn EXCEPT !.open = TRUE]]
          /\ sent' = {m \in sent : m.conn # k}
          /\ ex' = [ex EXCEPT ![c].conn = k, ![c].pc = "register"]
    BY ZenonT(60) DEF Dial
<1>2. k \in Conns /\ \A d \in Callers : ex[d].conn # k
    BY ZenonT(60) DEF FreeConns
<1> DEFINE e == [ex[c] EXCEPT !.conn = k, !.pc = "register"]
           r == [NewConn EXCEPT !.open = TRUE]
<1>3. ex' = [ex EXCEPT ![c] = e] /\ conns' = [conns EXCEPT ![k] = r]
    BY <1>1, ZenonT(60) DEF Types
<1>4. e \in ExchangeRec
    BY <1>2, ZenonT(60) DEF Types, ExchangeRec, Pc
<1>5. e.pc = "register" /\ e.conn = k /\ e.query = ex[c].query /\ e.answer = ex[c].answer
    BY ZenonT(60) DEF Types, ExchangeRec
<1>6. r \in ConnRec /\ r.queryId = 0 /\ r.callbacks = [i \in Ids |-> None]
    BY NoCallbacks, ZenonT(60)
<1> HIDE DEF e, r
<1>7. conns' \in [Conns -> ConnRec] /\ conns'[k] = r /\ \A l \in Conns \ {k} : conns'[l] = conns[l]
    BY <1>2, <1>3, <1>6, ZenonT(60) DEF Types
<1>8. ex' \in [Callers -> ExchangeRec] /\ ex'[c] = e /\ Others(c)
    BY <1>3, <1>4, OneMoves, ZenonT(60)
<1>9. \A l \in Conns \ {k} : Keeps(l)
    BY <1>7, ZenonT(60) DEF Keeps
<1>10. Fresh(k)
    BY <1>1, <1>2, <1>6, <1>7, <1>9, ZenonT(60) DEF Fresh, Dial
<1>11. Opened(c)
    BY <1>1, <1>5, <1>8, <1>10, ZenonT(60) DEF Opened, Dial
<1>12. \A d \in Callers : Registered(d)' \/ ex'[d].pc = "register" => ex'[d].conn # None
    BY <1>2, <1>5, <1>8, ConnsNamed, IdsExist, ZenonT(60)
<1>13. sent' \in SUBSET Message
    BY <1>1, ZenonT(60) DEF Types
<1> QED
    BY <1>1, <1>2, <1>7, <1>8, <1>11, <1>12, <1>13, ZenonT(60) DEF Types, Dial

\* open fails.
LEMMA DialFailedKind == ASSUME Types, NEW c \in Callers, DialFailed(c) PROVE Types' /\ Failed(c)
<1>1. ex' \in [Callers -> ExchangeRec] /\ ex'[c] = Idle /\ Others(c)
    BY NewTypes, OneMoves, ZenonT(60) DEF DialFailed
<1>2. KeepsAll
    BY ZenonT(60) DEF DialFailed, KeepsAll, Keeps
<1>3. Failed(c)
    BY <1>1, <1>2, NewTypes, ZenonT(60) DEF Failed, DialFailed, Over
<1>4. \A d \in Callers : Registered(d)' \/ ex'[d].pc = "register" => ex'[d].conn # None
    BY <1>1, NewTypes, ConnsNamed, ZenonT(60) DEF Registered
<1> QED
    BY <1>1, <1>3, <1>4, ZenonT(60) DEF Types, DialFailed

\* Register takes the next id and stores the callback under it.
LEMMA RegisterKind ==
    ASSUME Types, Numbered, NEW c \in Callers, Register(c) PROVE Types' /\ Stored(c)
<1> DEFINE k == ex[c].conn
           i == NextId(k)
           e == [ex[c] EXCEPT !.id = i, !.pc = "write"]
           b == [conns[k].callbacks EXCEPT ![i] = ex[c].query]
           r == [conns[k] EXCEPT !.queryId = i, !.callbacks = b]
<1>1. ex[c].pc = "register" /\ k \in Conns
    BY ZenonT(60) DEF Register, Types, ExchangeRec
<1>2. conns[k] \in ConnRec /\ i \in Ids
    BY <1>1, IdsExist, SMTT(30) DEF Types, ConnRec, NextId, Ids
<1>3. ex[c] \in ExchangeRec /\ ex[c].query \in 1 .. MaxCalls
    <2>1. ex[c] \in ExchangeRec /\ ex[c].query \in 1 .. calls
        BY <1>1, ZenonT(60) DEF Types, Numbered, Over
    <2> QED
        BY <2>1, ConstantsAssumption, SMTT(30) DEF Types
<1> HIDE DEF k, i
<1>4. b \in [Ids -> (1 .. MaxCalls) \cup {None}]
    BY <1>2, <1>3, ZenonT(60) DEF ConnRec
<1>5. /\ conns' = [conns EXCEPT ![k].queryId = i, ![k].callbacks[i] = ex[c].query]
      /\ ex' = [ex EXCEPT ![c].id = i, ![c].pc = "write"]
    BY ZenonT(60) DEF Register, k, i
<1>6. ex' = [ex EXCEPT ![c] = e] /\ conns' = [conns EXCEPT ![k] = r]
    BY <1>1, <1>5, ZenonT(60) DEF Types
<1>7. /\ e \in ExchangeRec /\ e.pc = "write" /\ e.id = i /\ e.conn = ex[c].conn
      /\ e.query = ex[c].query /\ e.answer = ex[c].answer
    BY <1>2, <1>3, ZenonT(60) DEF ExchangeRec, Pc
<1> HIDE DEF b
<1>8. r \in ConnRec /\ r.open = conns[k].open /\ r.queryId = i /\ r.callbacks = b
    BY <1>2, <1>4, ZenonT(60) DEF ConnRec
<1> HIDE DEF e, r
<1>9. conns' \in [Conns -> ConnRec] /\ conns'[k] = r /\ \A l \in Conns \ {k} : conns'[l] = conns[l]
    BY <1>1, <1>6, <1>8, ZenonT(60) DEF Types
<1>10. ex' \in [Callers -> ExchangeRec] /\ ex'[c] = e /\ Others(c)
    BY <1>6, <1>7, OneMoves, ZenonT(60)
<1>11. \A l \in Conns \ {k} : Keeps(l)
    BY <1>9, ZenonT(60) DEF Keeps
<1>12. Stored(c)
    BY <1>1, <1>7, <1>8, <1>9, <1>10, <1>11, ZenonT(60) DEF Stored, Register, k, i, b
<1>13. \A d \in Callers : Registered(d)' \/ ex'[d].pc = "register" => ex'[d].conn # None
    BY <1>1, <1>7, <1>10, ConnsNamed, IdsExist, ZenonT(60) DEF k
<1> QED
    BY <1>9, <1>10, <1>12, <1>13, ZenonT(60) DEF Types, Register

\* Return deletes the callback under the id of the exchange.
LEMMA ReturnKind == ASSUME Types, NEW c \in Callers, Return(c) PROVE Types' /\ Deleted(c)
<1> DEFINE k == ex[c].conn
           i == ex[c].id
           b == [conns[k].callbacks EXCEPT ![i] = None]
           r == [conns[k] EXCEPT !.callbacks = b]
<1>1. Registered(c) /\ k \in Conns /\ i \in Ids
    BY ZenonT(60) DEF Return, Types, ExchangeRec, Registered
<1>2. conns[k] \in ConnRec
    BY <1>1, ZenonT(60) DEF Types
<1> HIDE DEF k, i
<1>3. b \in [Ids -> (1 .. MaxCalls) \cup {None}]
    BY <1>1, <1>2, ZenonT(60) DEF ConnRec
<1>4. conns' = [conns EXCEPT ![k].callbacks[i] = None]
    BY ZenonT(60) DEF Return, DeleteCallback, k, i
<1>5. conns' = [conns EXCEPT ![k] = r]
    BY <1>1, <1>4, ZenonT(60) DEF Types
<1> HIDE DEF b
<1>6. r \in ConnRec /\ r.open = conns[k].open /\ r.queryId = conns[k].queryId /\ r.callbacks = b
    BY <1>2, <1>3, ZenonT(60) DEF ConnRec
<1> HIDE DEF r
<1>7. PICK e \in {Idle, [Idle EXCEPT !.pc = "tcp"]} : ex' = [ex EXCEPT ![c] = e]
    BY ZenonT(60) DEF Return
<1>8. e \in ExchangeRec /\ e.pc \in {"idle", "tcp"} /\ e.answer = None
    BY NewTypes, ZenonT(60)
<1>9. conns' \in [Conns -> ConnRec] /\ conns'[k] = r /\ \A l \in Conns \ {k} : conns'[l] = conns[l]
    BY <1>1, <1>5, <1>6, ZenonT(60) DEF Types
<1>10. ex' \in [Callers -> ExchangeRec] /\ ex'[c] = e /\ Others(c)
    BY <1>7, <1>8, OneMoves, ZenonT(60)
<1>11. \A l \in Conns \ {k} : Keeps(l)
    BY <1>9, ZenonT(60) DEF Keeps
<1>12. Over(c)' /\ ex'[c].answer = None
    BY <1>8, <1>10, ZenonT(60) DEF Over
<1>13. Deleted(c)
    BY <1>1, <1>6, <1>9, <1>10, <1>11, <1>12, ZenonT(60) DEF Deleted, Return, k, i, b
<1>14. \A d \in Callers : Registered(d)' \/ ex'[d].pc = "register" => ex'[d].conn # None
    BY <1>8, <1>10, ConnsNamed, ZenonT(60) DEF Registered
<1> QED
    BY <1>9, <1>10, <1>13, <1>14, ZenonT(60) DEF Types, Return

\* The steps of one exchange that leave its callback where it is.
LEMMA WaitKind ==
    ASSUME Types, Numbered, NEW c \in Callers, Write(c) \/ Select(c) \/ ContextDone(c) \/ RetryTCP(c)
    PROVE  Types' /\ Quiet
<1> DEFINE k == ex[c].conn
           m == [conn |-> k, id |-> ex[c].id, query |-> ex[c].query, size |-> ex[c].size]
<1>1. PICK label \in {"idle", "select", "answered", "failed"} :
          Goto(c, label) /\ ((Over(c) /\ label = "idle") \/ (Registered(c) /\ label # "idle"))
    BY ZenonT(60) DEF Write, Select, ContextDone, RetryTCP, Over, Registered
<1>2. ex' \in [Callers -> ExchangeRec] /\ \A d \in Callers : Stays(d)
    BY <1>1, OneStays, ZenonT(60)
<1>3. conns' = conns \/ (Registered(c) /\ CloseConn(k))
    BY ZenonT(60) DEF Write, Select, ContextDone, RetryTCP, Registered
<1>4. Registered(c) => k \in Conns /\ ex[c].query \in 1 .. MaxCalls
    BY DEF Types, Numbered, Over, Registered, ExchangeRec
<1>5. conns' \in [Conns -> ConnRec] /\ KeepsAll
    <2>1. CASE conns' = conns
        BY <2>1, ZenonT(60) DEF Types, KeepsAll, Keeps
    <2>2. CASE Registered(c) /\ CloseConn(k)
        <3> HIDE DEF k
        <3> QED
            BY <2>2, <1>4, CloseKeeps, ZenonT(60)
    <2> QED
        BY <1>3, <2>1, <2>2, ZenonT(60)
<1>6. sent' = sent \/ (Registered(c) /\ sent' = sent \cup {m})
    BY ZenonT(60) DEF Write, Select, ContextDone, RetryTCP, Registered
<1>7. Registered(c) => m \in Message
    BY <1>4, ZenonT(60) DEF Types, Message, ExchangeRec
<1>8. m.conn = ex[c].conn /\ m.id = ex[c].id /\ m.query = ex[c].query
    OBVIOUS
<1>9. conn' = conn /\ udpSize' = udpSize /\ calls' = calls
    BY ZenonT(60) DEF Write, Select, ContextDone, RetryTCP
<1> HIDE DEF m
<1>10. sent' \in SUBSET Message
    BY <1>6, <1>7, ZenonT(60) DEF Types
<1>11. Quiet
    BY <1>2, <1>5, <1>6, <1>8, <1>9, SMTT(30) DEF Quiet, Types
<1>12. \A d \in Callers : Registered(d)' \/ ex'[d].pc = "register" => ex'[d].conn # None
    BY <1>2, ZenonT(60) DEF Types, Stays, Same
<1> QED
    BY <1>2, <1>5, <1>9, <1>10, <1>11, <1>12, ZenonT(60) DEF Types

\* The steps of a connection that complete no callback, and Close.
LEMMA LoopKind ==
    ASSUME Types, NEW k \in Conns, Allocate(k) \/ ReadFailed(k)
    PROVE  Types' /\ Quiet
<1>1. conns' \in [Conns -> ConnRec] /\ KeepsAll
    BY CloseKeeps, BufferKeeps, ZenonT(60) DEF Allocate, ReadFailed, Types
<1>2. UNCHANGED <<conn, udpSize, sent, ex, calls>>
    BY ZenonT(60) DEF Allocate, ReadFailed
<1>3. \A d \in Callers : Stays(d)
    BY <1>2, ZenonT(60) DEF Stays, Same, Over, Registered
<1> QED
    BY <1>1, <1>2, <1>3 DEF Types, Quiet, Registered

\* As LoopKind.
LEMMA CloseKind == ASSUME Types, Close PROVE Types' /\ Quiet
<1>1. ex' = Signalled /\ UNCHANGED <<conn, udpSize, conns, sent, calls>>
    BY ZenonT(60) DEF Close
<1>2. ex' \in [Callers -> ExchangeRec] /\ \A d \in Callers : Stays(d)
    BY <1>1, SignalStays, ZenonT(60) DEF Stays, Same, Over, Registered
<1>3. KeepsAll
    BY <1>1, ZenonT(60) DEF KeepsAll, Keeps
<1>4. \A d \in Callers : Registered(d)' \/ ex'[d].pc = "register" => ex'[d].conn # None
    BY <1>2, ZenonT(60) DEF Types, Stays, Same
<1> QED
    BY <1>1, <1>2, <1>3, <1>4, SMTT(30) DEF Types, Quiet

\* Receive completes the callback under the id, or closes the connection.
LEMMA ReceiveKind ==
    ASSUME Types, NEW k \in Conns, Receive(k)
    PROVE  Types' /\ (Quiet \/ \E m \in sent : Answered(m))
<1>1. PICK m \in sent :
          /\ m.conn = k
          /\ \/ conns' = [conns EXCEPT ![k].buffer = None] /\ ex' = Completed(k, m)
             \/ CloseConn(k) /\ UNCHANGED ex
    BY ZenonT(60) DEF Receive
<1>2. UNCHANGED <<conn, udpSize, sent, calls>>
    BY ZenonT(60) DEF Receive
<1>3. conns' \in [Conns -> ConnRec] /\ KeepsAll
    BY <1>1, CloseKeeps, BufferKeeps, ZenonT(60)
<1>4. CASE ex' = ex
    <2>1. \A d \in Callers : Stays(d)
        BY <1>4, ZenonT(60) DEF Stays, Same, Over, Registered
    <2> QED
        BY <1>2, <1>3, <1>4, <2>1, SMTT(30) DEF Types, Quiet, Registered
<1>5. CASE ex' = Completed(k, m)
    <2>1. m.query \in 1 .. MaxCalls
        BY ZenonT(60) DEF Types, Message
    <2>2. ASSUME NEW c \in Callers
          PROVE  /\ ex'[c] \in ExchangeRec /\ Same(c)
                 /\ \/ ex'[c].answer = ex[c].answer
                    \/ /\ Registered(c) /\ ex[c].conn = m.conn
                       /\ conns[m.conn].callbacks[m.id] = ex[c].query
                       /\ ex'[c].answer = m.query
        <3> DEFINE e == [ex[c] EXCEPT !.answer = m.query]
        <3>1. /\ e \in ExchangeRec /\ e.pc = ex[c].pc /\ e.conn = ex[c].conn /\ e.id = ex[c].id
              /\ e.query = ex[c].query /\ e.answer = m.query
            BY <2>1, ZenonT(60) DEF Types, ExchangeRec
        <3>2. \/ ex'[c] = ex[c]
              \/ /\ Registered(c) /\ ex[c].conn = k /\ conns[k].callbacks[m.id] = ex[c].query
                 /\ ex'[c] = e
            BY <1>5, ZenonT(60) DEF Completed
        <3> HIDE DEF e
        <3> QED
            BY <1>1, <3>1, <3>2, ZenonT(60) DEF Types, Same, Over, Registered
    <2>3. ex' \in [Callers -> ExchangeRec]
        BY <1>5, <2>2, ZenonT(60) DEF Completed
    <2>4. Answered(m)
        BY <1>2, <1>3, <2>2, ZenonT(60) DEF Answered
    <2>5. \A d \in Callers : Registered(d)' \/ ex'[d].pc = "register" => ex'[d].conn # None
        BY <2>2, ZenonT(60) DEF Types, Same
    <2> QED
        BY <1>2, <1>3, <2>3, <2>4, <2>5, ZenonT(60) DEF Types
<1> QED
    BY <1>1, <1>4, <1>5, ZenonT(60)

\* What the streams do to the numbers of the exchanges.
LEMMA StreamNumbers ==
    ASSUME calls \in 0 .. MaxCalls, Stream!Next
    PROVE  calls' \in 0 .. MaxCalls /\ calls <= calls'
<1>1. (calls < MaxCalls /\ calls' = calls + 1) \/ calls' = calls
    BY ZenonT(60)
    DEF Stream!Next, Stream!Begin, Stream!Step, Stream!Pop, Stream!Dial, Stream!DialFails,
        Stream!Handshake, Stream!WriteMessage, Stream!WriteFails, Stream!ReadMessage,
        Stream!ReadFails, Stream!Fails, Stream!Return, Stream!Answer, Stream!Cut, Stream!Close
<1> QED
    BY <1>1, ConstantsAssumption

\* Every step of the transports is of one of the kinds.
LEMMA StepKinds ==
    ASSUME Types, Numbered, [DNSNext]_<<vars, streamVars>>
    PROVE  Types' /\ Kinds
<1>1. CASE UNCHANGED <<vars, streamVars>>
    <2>1. UNCHANGED udpVars /\ calls' = calls
        BY <1>1, ZenonT(60) DEF vars, udpVars
    <2> QED
        BY <2>1, QuietStreams DEF Kinds, Types
<1>2. CASE Stream!Next /\ UNCHANGED udpVars
    BY <1>2, StreamNumbers, QuietStreams, ZenonT(60) DEF Kinds, Types
<1>3. ASSUME NEW c \in Callers, Begin(c) \/ ExchangeStep(c) \/ RetryTCP(c) PROVE Types' /\ Kinds
    BY <1>3, BeginKind, ReuseKind, DialKind, DialFailedKind, RegisterKind, ReturnKind, WaitKind, ZenonT(60)
       DEF ExchangeStep, Kinds
<1>4. ASSUME NEW k \in Conns, Allocate(k) \/ Receive(k) \/ ReadFailed(k) PROVE Types' /\ Kinds
    BY <1>4, LoopKind, ReceiveKind, ZenonT(60) DEF Kinds
<1>5. CASE Close
    BY <1>5, CloseKind, ZenonT(60) DEF Kinds
<1> QED
    BY <1>1, <1>2, <1>3, <1>4, <1>5, ZenonT(60) DEF DNSNext, Next

-----------------------------------------------------------------------------
(* Numbers, callbacks and sockets.                                         *)

\* What holds of every exchange, connection and number by its type.
LEMMA TypeFacts ==
    ASSUME Types
    PROVE  /\ calls \in Nat
           /\ \A c \in Callers : /\ ex[c].query \in Nat /\ ex[c].id \in Ids /\ ex[c].pc \in Pc
                                 /\ ex[c].answer \in (1 .. MaxCalls) \cup {None}
                                 /\ Registered(c) => ex[c].conn \in Conns /\ ~Over(c)
                                 /\ ex[c].pc \in {"open", "register"} => ~Over(c) /\ ~Registered(c)
           /\ \A k \in Conns : /\ conns[k].queryId \in Ids
                               /\ conns[k].callbacks \in [Ids -> (1 .. MaxCalls) \cup {None}]
           /\ \A m \in sent : m.conn \in Conns /\ m.id \in Ids /\ m.query \in 1 .. MaxCalls
<1>1. calls \in Nat
    BY DEF Types
<1>2. ASSUME NEW c \in Callers
      PROVE  /\ ex[c].query \in Nat /\ ex[c].id \in Ids /\ ex[c].pc \in Pc
             /\ ex[c].answer \in (1 .. MaxCalls) \cup {None}
             /\ Registered(c) => ex[c].conn \in Conns /\ ~Over(c)
             /\ ex[c].pc \in {"open", "register"} => ~Over(c) /\ ~Registered(c)
    BY DEF Types, ExchangeRec, Registered, Over
<1>3. ASSUME NEW k \in Conns
      PROVE  /\ conns[k].queryId \in Ids
             /\ conns[k].callbacks \in [Ids -> (1 .. MaxCalls) \cup {None}]
    BY ZenonT(60) DEF Types, ConnRec
<1>4. ASSUME NEW m \in sent PROVE m.conn \in Conns /\ m.id \in Ids /\ m.query \in 1 .. MaxCalls
    BY ZenonT(60) DEF Types, Message
<1> QED
    BY <1>1, <1>2, <1>3, <1>4, ZenonT(60)

\* An exchange takes a number that has not been used.
LEMMA NumberedStep == ASSUME Types, Types', Numbered, Kinds PROVE Numbered'
<1>1. /\ calls \in Nat /\ calls' \in Nat
      /\ \A c \in Callers : ex[c].query \in Nat
    BY TypeFacts DEF Types
<1>2. ASSUME NEW c \in Callers, Begun(c) PROVE Numbered'
    <2>1. \A d \in Callers \ {c} : (Over(d)' <=> Over(d)) /\ ex'[d].query = ex[d].query
        BY <1>2, ZenonT(60) DEF Begun, Others, Stays, Same
    <2>2. ex'[c].query = calls + 1 /\ calls' = calls + 1
        BY <1>2, ZenonT(60) DEF Begun
    <2>3. \A d \in Callers : Over(d)' \/ ex'[d].query \in 1 .. calls'
        BY <1>1, <2>1, <2>2, SMTT(30) DEF Numbered
    <2>4. \A d \in Callers \ {c} : Over(d)' \/ ex'[d].query # ex'[c].query
        BY <1>1, <2>1, <2>2, SMTT(30) DEF Numbered
    <2>5. \A d, f \in Callers \ {c} : ex'[d].query = ex'[f].query => Over(d)' \/ Over(f)' \/ d = f
        BY <2>1, ZenonT(60) DEF Numbered
    <2> QED
        BY <2>3, <2>4, <2>5, ZenonT(60) DEF Numbered
<1>3. ASSUME calls <= calls', \A d \in Callers : Over(d)' \/ (~Over(d) /\ ex'[d].query = ex[d].query)
      PROVE  Numbered'
    BY <1>1, <1>3, SMTT(30) DEF Numbered
<1>4. ASSUME NEW c \in Callers, Opened(c) \/ Failed(c) \/ Stored(c) \/ Deleted(c) PROVE Numbered'
    <2>1. calls' = calls /\ \A d \in Callers \ {c} : Over(d)' \/ (~Over(d) /\ ex'[d].query = ex[d].query)
        BY <1>4, ZenonT(60) DEF Opened, Failed, Stored, Deleted, Others, Stays, Same
    <2>2. Over(c)' \/ (~Over(c) /\ ex'[c].query = ex[c].query)
        BY <1>4, ZenonT(60) DEF Opened, Failed, Stored, Deleted, Over
    <2> QED
        BY <1>1, <1>3, <2>1, <2>2, SMTT(30)
<1>5. CASE Quiet
    BY <1>3, <1>5, ZenonT(60) DEF Quiet, Stays, Same
<1>6. ASSUME NEW m \in sent, Answered(m) PROVE Numbered'
    BY <1>1, <1>3, <1>6, SMTT(30) DEF Answered, Same
<1> QED
    BY <1>2, <1>4, <1>5, <1>6, ZenonT(60) DEF Kinds

\* A socket is opened when none is.
LEMMA SocketStep == ASSUME Types, OneOpenConnection, Kinds PROVE OneOpenConnection'
<1>1. ASSUME KeepsAll, conn' = conn PROVE OneOpenConnection'
    BY <1>1, ZenonT(60) DEF OneOpenConnection, KeepsAll, Keeps
<1>2. ASSUME NEW c \in Callers, Opened(c), Fresh(conn') PROVE OneOpenConnection'
    <2>1. \A k \in Conns : ~conns[k].open
        BY <1>2, IdsExist DEF Fresh, Connected, OneOpenConnection, Types
    <2>2. \A l \in Conns \ {conn'} : Keeps(l)
        BY <1>2, ZenonT(60) DEF Fresh
    <2> QED
        BY <2>1, <2>2, ZenonT(60) DEF Keeps, OneOpenConnection
<1>3. ASSUME NEW c \in Callers, Stored(c) \/ Deleted(c) PROVE OneOpenConnection'
    <2>1. conn' = conn /\ \A k \in Conns : conns'[k].open => conns[k].open
        BY <1>3, ZenonT(60) DEF Stored, Deleted, Keeps
    <2> QED
        BY <2>1, ZenonT(60) DEF OneOpenConnection
<1> QED
    BY <1>1, <1>2, <1>3, ZenonT(60) DEF Kinds, Quiet, Begun, Opened, Failed, Answered

\* Nobody else's callback is deleted without its exchange, and an exchange ends
\* with its callback.
LEMMA CallbackStep == ASSUME Types, Types', Kinds, NoStrandedCallback PROVE NoStrandedCallback'
<1> DEFINE Has(k, i, d) == /\ Registered(d) /\ ex[d].conn = k /\ ex[d].id = i
                           /\ ex[d].query = conns[k].callbacks[i]
<1>1. ASSUME NEW k \in Conns, NEW i \in Ids, NEW d \in Callers,
             Has(k, i, d), Same(d), conns'[k].callbacks[i] = conns[k].callbacks[i]
      PROVE  Has(k, i, d)'
    BY <1>1, ZenonT(60) DEF Same
<1>2. \A k \in Conns, i \in Ids : conns[k].callbacks[i] # None => \E d \in Callers : Has(k, i, d)
    BY ZenonT(60) DEF NoStrandedCallback
<1>3. SUFFICES ASSUME NEW k \in Conns, NEW i \in Ids, conns'[k].callbacks[i] # None
               PROVE  \E d \in Callers : Has(k, i, d)'
    BY ZenonT(60) DEF NoStrandedCallback
<1> HIDE DEF Has
<1>4. ASSUME Keeps(k), NEW S \in SUBSET Callers, \A d \in S : Same(d),
             \A d \in Callers \ S : ~Registered(d) \/ ex[d].conn # k
      PROVE  \E d \in Callers : Has(k, i, d)'
    <2>1. conns'[k].callbacks[i] = conns[k].callbacks[i]
        BY <1>4, ZenonT(60) DEF Keeps
    <2>2. PICK d \in Callers : Has(k, i, d)
        BY <1>2, <1>3, <2>1, ZenonT(60)
    <2>3. d \in S
        BY <1>4, <2>2, ZenonT(60) DEF Has
    <2> QED
        BY <1>1, <1>4, <2>1, <2>2, <2>3, ZenonT(60)
<1>5. ASSUME NEW c \in Callers, Begun(c) \/ Failed(c) PROVE \E d \in Callers : Has(k, i, d)'
    <2>1. Keeps(k) /\ ~Registered(c) /\ \A d \in Callers \ {c} : Same(d)
        BY <1>5, ZenonT(60) DEF Begun, Failed, KeepsAll, Others, Stays, Registered, Over
    <2> QED
        BY <1>4, <2>1, ZenonT(60)
<1>6. ASSUME NEW c \in Callers, Opened(c) PROVE \E d \in Callers : Has(k, i, d)'
    <2>1. ~Registered(c) /\ \A d \in Callers \ {c} : Same(d)
        BY <1>6, ZenonT(60) DEF Opened, Others, Stays, Registered
    <2>2. Keeps(k)
        BY <1>3, <1>6, ZenonT(60) DEF Opened, Fresh, KeepsAll
    <2> QED
        BY <1>4, <2>1, <2>2, ZenonT(60)
<1>7. ASSUME NEW c \in Callers, Stored(c) PROVE \E d \in Callers : Has(k, i, d)'
    <2> DEFINE l == ex[c].conn
    <2>1. ~Registered(c) /\ \A d \in Callers \ {c} : Same(d)
        BY <1>7, ZenonT(60) DEF Stored, Others, Stays, Registered
    <2>2. CASE k # l
        BY <1>4, <1>7, <2>1, <2>2, ZenonT(60) DEF Stored
    <2>3. CASE k = l /\ i = NextId(l)
        <3>1. /\ conns'[l].callbacks = [conns[l].callbacks EXCEPT ![i] = ex[c].query]
              /\ conns[l].callbacks \in [Ids -> (1 .. MaxCalls) \cup {None}]
            BY <1>7, <2>3, TypeFacts, ZenonT(60) DEF Stored
        <3>2. conns'[k].callbacks[i] = ex[c].query
            BY <2>3, <3>1, ZenonT(60)
        <3>3. Has(k, i, c)'
            BY <1>7, <2>3, <3>2, ZenonT(60) DEF Stored, Has, Registered
        <3> QED
            BY <3>3, ZenonT(60)
    <2>4. CASE k = l /\ i # NextId(l)
        <3>1. /\ conns'[l].callbacks = [conns[l].callbacks EXCEPT ![NextId(l)] = ex[c].query]
              /\ conns[l].callbacks \in [Ids -> (1 .. MaxCalls) \cup {None}]
            BY <1>7, <2>4, TypeFacts, ZenonT(60) DEF Stored
        <3>2. conns'[k].callbacks[i] = conns[k].callbacks[i]
            BY <2>4, <3>1, ZenonT(60)
        <3>3. PICK d \in Callers : Has(k, i, d)
            BY <1>2, <1>3, <3>2, ZenonT(60)
        <3> QED
            BY <1>1, <2>1, <3>2, <3>3, SMTT(30) DEF Has
    <2> QED
        BY <2>2, <2>3, <2>4, ZenonT(60)
<1>8. ASSUME NEW c \in Callers, Deleted(c) PROVE \E d \in Callers : Has(k, i, d)'
    <2> DEFINE l == ex[c].conn
    <2>1. \A d \in Callers \ {c} : Same(d)
        BY <1>8, ZenonT(60) DEF Deleted, Others, Stays
    <2>2. CASE k # l
        BY <1>4, <1>8, <2>1, <2>2, ZenonT(60) DEF Deleted
    <2>3. CASE k = l
        <3>1. /\ conns'[l].callbacks = [conns[l].callbacks EXCEPT ![ex[c].id] = None]
              /\ conns[l].callbacks \in [Ids -> (1 .. MaxCalls) \cup {None}]
            BY <1>8, <2>3, TypeFacts, ZenonT(60) DEF Deleted
        <3>2. i # ex[c].id /\ conns'[k].callbacks[i] = conns[k].callbacks[i]
            BY <1>3, <2>3, <3>1, ZenonT(60)
        <3>3. PICK d \in Callers : Has(k, i, d)
            BY <1>2, <1>3, <3>2, ZenonT(60)
        <3> QED
            BY <1>1, <2>1, <3>2, <3>3, SMTT(30) DEF Has
    <2> QED
        BY <2>2, <2>3, ZenonT(60)
<1>9. CASE Quiet
    BY <1>4, <1>9, ZenonT(60) DEF Quiet, KeepsAll, Stays
<1>10. ASSUME NEW m \in sent, Answered(m) PROVE \E d \in Callers : Has(k, i, d)'
    BY <1>4, <1>10, ZenonT(60) DEF Answered, KeepsAll
<1> QED
    BY <1>5, <1>6, <1>7, <1>8, <1>9, <1>10, ZenonT(60) DEF Kinds

-----------------------------------------------------------------------------
(* Ids and answers.                                                        *)

\* An id is given out for an exchange that no longer opens.
LEMMA IdsLastStep ==
    ASSUME MaxCalls < IdSpace, Types, Types', IdsLast, Kinds
    PROVE  /\ IdsLast'
           /\ \A c \in Callers : Stored(c) => NextId(ex[c].conn) = conns[ex[c].conn].queryId + 1
<1>1. /\ calls \in Nat /\ calls' \in Nat /\ calls <= MaxCalls /\ Cardinality(Opening) \in Nat
      /\ \A k \in Conns : conns[k].queryId \in Nat
    BY TypeFacts, FS_CardinalityType, ConstantsAssumption DEF Types, IdsLast, Ids
<1>2. \A c \in Callers : /\ Stays(c) \/ Same(c) => (c \in Opening' <=> c \in Opening)
                         /\ Over(c) => c \notin Opening
                         /\ Over(c)' => c \notin Opening'
    BY ZenonT(60) DEF Stays, Same, Opening, Over
<1>3. ASSUME Opening' = Opening, KeepsAll \/ Fresh(conn'), calls <= calls' PROVE IdsLast'
    <2>1. \A k \in Conns : conns'[k].queryId = conns[k].queryId \/ conns'[k].queryId = 0
        BY <1>3, ZenonT(60) DEF KeepsAll, Keeps, Fresh
    <2> QED
        BY <1>1, <1>3, <2>1 DEF IdsLast
<1>4. ASSUME NEW c \in Callers, Begun(c) PROVE IdsLast'
    <2>1. Opening' = Opening \cup {c} /\ c \notin Opening
        BY <1>2, <1>4, ZenonT(60) DEF Begun, Others, Opening
    <2>2. IsFiniteSet(Opening') /\ Cardinality(Opening') = Cardinality(Opening) + 1
        BY <2>1, FS_AddElement, ZenonT(60) DEF IdsLast
    <2>3. calls' = calls + 1 /\ \A k \in Conns : conns'[k].queryId = conns[k].queryId
        BY <1>4, ZenonT(60) DEF Begun, KeepsAll, Keeps
    <2> QED
        BY <1>1, <2>2, <2>3, SMTT(30) DEF IdsLast
<1>5. ASSUME NEW c \in Callers, Opened(c) PROVE IdsLast'
    <2>1. Opening' = Opening
        BY <1>2, <1>5, ZenonT(60) DEF Opened, Others, Opening
    <2> QED
        BY <1>1, <1>3, <1>5, <2>1, SMTT(30) DEF Opened
<1>6. ASSUME NEW c \in Callers, Failed(c) \/ Stored(c)
      PROVE  IsFiniteSet(Opening') /\ Cardinality(Opening') = Cardinality(Opening) - 1
             /\ Cardinality(Opening') \in Nat
    <2>1. Opening' = Opening \ {c} /\ c \in Opening
        BY <1>2, <1>6, ZenonT(60) DEF Failed, Stored, Others, Opening, Over
    <2> QED
        BY <2>1, FS_RemoveElement, FS_CardinalityType, ZenonT(60) DEF IdsLast
<1>7. ASSUME NEW c \in Callers, Failed(c) PROVE IdsLast'
    BY <1>1, <1>6, <1>7, SMTT(30) DEF Failed, KeepsAll, Keeps, IdsLast
<1>8. ASSUME NEW c \in Callers, Stored(c)
      PROVE  IdsLast' /\ NextId(ex[c].conn) = conns[ex[c].conn].queryId + 1
    <2> DEFINE k == ex[c].conn
    <2>0. /\ k \in Conns /\ Cardinality(Opening) - 1 \in Nat
          /\ conns[k].queryId + Cardinality(Opening) <= calls
        BY <1>6, <1>8, ZenonT(60) DEF Stored, IdsLast
    <2>1. conns[k].queryId + 1 <= calls /\ conns[k].queryId \in Nat
        <3> HIDE DEF k
        <3> QED
            BY <1>1, <2>0, SMTT(30)
    <2>2. NextId(k) = conns[k].queryId + 1
        BY <1>1, <2>1, ConstantsAssumption, SMTT(30) DEF NextId
    <2>3. /\ calls' = calls /\ k \in Conns /\ conns'[k].queryId = NextId(k)
          /\ \A l \in Conns \ {k} : conns'[l].queryId = conns[l].queryId
        BY <1>8, ZenonT(60) DEF Stored, Keeps
    <2> HIDE DEF k
    <2>4. IdsLast'
        BY <1>1, <1>6, <1>8, <2>2, <2>3, SMTT(30) DEF IdsLast
    <2> QED
        BY <2>2, <2>4, ZenonT(60) DEF k
<1>9. ASSUME NEW c \in Callers, Deleted(c) PROVE IdsLast'
    <2>1. Opening' = Opening
        BY <1>2, <1>9, ZenonT(60) DEF Deleted, Others, Opening, Registered
    <2>2. calls' = calls /\ \A k \in Conns : conns'[k].queryId = conns[k].queryId
        BY <1>9, ZenonT(60) DEF Deleted, Keeps
    <2> QED
        BY <2>1, <2>2, ZenonT(60) DEF IdsLast
<1>10. ASSUME Quiet PROVE IdsLast'
    <2>1. Opening' = Opening
        BY <1>2, <1>10, ZenonT(60) DEF Quiet, Opening
    <2>2. KeepsAll /\ calls <= calls'
        BY <1>10, ZenonT(60) DEF Quiet
    <2> QED
        BY <1>3, <2>1, <2>2, ZenonT(60)
<1>11. ASSUME NEW m \in sent, Answered(m) PROVE IdsLast'
    <2>1. Opening' = Opening
        BY <1>2, <1>11, ZenonT(60) DEF Answered, Opening
    <2> QED
        BY <1>1, <1>3, <1>11, <2>1 DEF Answered
<1> QED
    BY <1>4, <1>5, <1>7, <1>8, <1>9, <1>10, <1>11, ZenonT(60) DEF Kinds

\* An id is given to one exchange, and what is sent under it is its query.
LEMMA IdsOwnStep ==
    ASSUME Types, Types', IdsAreOwn, Kinds,
           \A c \in Callers : Stored(c) => NextId(ex[c].conn) = conns[ex[c].conn].queryId + 1
    PROVE  IdsAreOwn'
<1>1. /\ \A k \in Conns : conns[k].queryId \in Nat /\ conns'[k].queryId \in Nat
      /\ \A c \in Callers : ex[c].id \in Nat /\ (Registered(c) => ex[c].conn \in Conns)
      /\ \A m \in sent : m.id \in Nat /\ m.conn \in Conns
    BY TypeFacts DEF Types, ConnRec, Ids
<1>2. ASSUME NEW S \in SUBSET Callers, \A d \in S : Same(d),
             \A d \in Callers \ S : ~Registered(d)',
             \A k \in Conns : \/ conns'[k].queryId = conns[k].queryId
                              \/ /\ \A d \in S : ex[d].conn # k
                                 /\ \A m \in sent' : m.conn # k,
             \A m \in sent' : \/ m \in sent
                              \/ \E c \in Callers : /\ Registered(c) /\ m.conn = ex[c].conn
                                                    /\ m.id = ex[c].id /\ m.query = ex[c].query
      PROVE  IdsAreOwn'
    <2>1. \A d \in Callers : Registered(d)' =>
              /\ d \in S /\ Registered(d) /\ ex'[d].conn = ex[d].conn
              /\ ex'[d].id = ex[d].id /\ ex'[d].query = ex[d].query
        BY <1>2, ZenonT(60) DEF Same
    <2>2. \A d \in Callers : Registered(d)' => ex'[d].id <= conns'[ex'[d].conn].queryId
        BY <1>1, <1>2, <2>1, SMTT(30) DEF IdsAreOwn
    <2>3. \A m \in sent' : m.id <= conns[m.conn].queryId /\ m.conn \in Conns
        BY <1>1, <1>2 DEF IdsAreOwn
    <2>4. \A m \in sent' : m.id <= conns'[m.conn].queryId
        BY <1>2, <2>3, ZenonT(60)
    <2>5. \A c, d \in Callers :
              (Registered(c) /\ Registered(d) /\ ex[c].conn = ex[d].conn /\ ex[c].id = ex[d].id)'
                  => c = d
        BY <2>1, ZenonT(60) DEF IdsAreOwn
    <2>6. \A c \in Callers, m \in sent' :
              Registered(c) /\ ex[c].conn = m.conn /\ ex[c].id = m.id => ex[c].query = m.query
        BY <1>2 DEF IdsAreOwn
    <2>7. \A c \in Callers, m \in sent' :
              Registered(c)' /\ ex'[c].conn = m.conn /\ ex'[c].id = m.id => ex'[c].query = m.query
        BY <2>1, <2>6, ZenonT(60)
    <2> QED
        BY <2>2, <2>4, <2>5, <2>7, ZenonT(60) DEF IdsAreOwn
<1>3. ASSUME NEW c \in Callers, Begun(c) \/ Failed(c) \/ Deleted(c) PROVE IdsAreOwn'
    <2>1. sent' = sent /\ \A d \in Callers \ {c} : Same(d)
        BY <1>3, ZenonT(60) DEF Begun, Failed, Deleted, Others, Stays
    <2>2. ~Registered(c)'
        BY <1>3, ZenonT(60) DEF Begun, Failed, Deleted, Registered, Over
    <2>3. \A k \in Conns : conns'[k].queryId = conns[k].queryId
        BY <1>3, ZenonT(60) DEF Begun, Failed, Deleted, KeepsAll, Keeps
    <2> QED
        BY <1>2, <2>1, <2>2, <2>3, ZenonT(60)
<1>4. ASSUME NEW c \in Callers, Opened(c) PROVE IdsAreOwn'
    <2>1. ~Registered(c)' /\ \A d \in Callers \ {c} : Same(d)
        BY <1>4, ZenonT(60) DEF Opened, Others, Stays, Registered
    <2>2. sent' \subseteq sent
        BY <1>4, ZenonT(60) DEF Opened, Fresh
    <2>3. \A k \in Conns : \/ conns'[k].queryId = conns[k].queryId
                           \/ /\ \A d \in Callers \ {c} : ex[d].conn # k
                              /\ \A m \in sent' : m.conn # k
        BY <1>4 DEF Opened, Fresh, KeepsAll, Keeps
    <2> QED
        BY <1>2, <2>1, <2>2, <2>3, ZenonT(60)
<1>5. ASSUME NEW c \in Callers, Stored(c) PROVE IdsAreOwn'
    <2> DEFINE k == ex[c].conn
    <2>1. /\ k \in Conns /\ ex'[c].conn = k /\ ex'[c].id = conns[k].queryId + 1
          /\ conns'[k].queryId = conns[k].queryId + 1
          /\ \A l \in Conns \ {k} : conns'[l].queryId = conns[l].queryId
          /\ sent' = sent
        BY <1>5, ZenonT(60) DEF Stored, Keeps
    <2>2. \A d \in Callers \ {c} : Same(d)
        BY <1>5, ZenonT(60) DEF Stored, Others, Stays
    <2> HIDE DEF k
    <2>3. \A l \in Conns : conns[l].queryId <= conns'[l].queryId
        BY <1>1, <2>1
    <2>4. \A d \in Callers \ {c} : Registered(d)' =>
              /\ Registered(d) /\ ex'[d].conn = ex[d].conn /\ ex[d].conn \in Conns
              /\ ex'[d].id = ex[d].id /\ ex'[d].query = ex[d].query
              /\ ex[d].id <= conns[ex[d].conn].queryId
        BY <1>1, <2>2, ZenonT(60) DEF Same, IdsAreOwn
    <2>5. \A d \in Callers : Registered(d)' => ex'[d].id <= conns'[ex'[d].conn].queryId
        BY <1>1, <2>1, <2>3, <2>4
    <2>6. \A m \in sent : m.id <= conns[m.conn].queryId /\ m.conn \in Conns
        BY <1>1, ZenonT(60) DEF IdsAreOwn
    <2>7. \A m \in sent' : m.id <= conns'[m.conn].queryId
        BY <1>1, <2>1, <2>3, <2>6, SMTT(30)
    <2>8. \A d \in Callers \ {c} : Registered(d)' => ~(ex'[d].conn = ex'[c].conn /\ ex'[d].id = ex'[c].id)
        BY <1>1, <2>1, <2>4, SMTT(30)
    <2>9. \A d, f \in Callers \ {c} :
              (Registered(d) /\ Registered(f) /\ ex[d].conn = ex[f].conn /\ ex[d].id = ex[f].id)'
                  => d = f
        BY <2>4, ZenonT(60) DEF IdsAreOwn
    <2>10. \A m \in sent' : ~(ex'[c].conn = m.conn /\ ex'[c].id = m.id)
        BY <1>1, <2>1, <2>6, SMTT(30)
    <2>11. \A d \in Callers \ {c}, m \in sent' :
              Registered(d)' /\ ex'[d].conn = m.conn /\ ex'[d].id = m.id => ex'[d].query = m.query
        BY <2>1, <2>4 DEF IdsAreOwn
    <2> QED
        BY <2>5, <2>7, <2>8, <2>9, <2>10, <2>11, ZenonT(60) DEF IdsAreOwn
<1>6. CASE Quiet
    <2>1. \A d \in Callers : Same(d)
        BY <1>6, ZenonT(60) DEF Quiet, Stays
    <2>2. \A k \in Conns : conns'[k].queryId = conns[k].queryId
        BY <1>6, ZenonT(60) DEF Quiet, KeepsAll, Keeps
    <2>3. \A m \in sent' : \/ m \in sent
                           \/ \E c \in Callers : /\ Registered(c) /\ m.conn = ex[c].conn
                                                 /\ m.id = ex[c].id /\ m.query = ex[c].query
        BY <1>6, ZenonT(60) DEF Quiet
    <2> QED
        BY <1>2, <2>1, <2>2, <2>3, ZenonT(60)
<1>7. ASSUME NEW m \in sent, Answered(m) PROVE IdsAreOwn'
    <2>1. sent' = sent /\ \A d \in Callers : Same(d)
        BY <1>7, ZenonT(60) DEF Answered
    <2>2. \A k \in Conns : conns'[k].queryId = conns[k].queryId
        BY <1>7, ZenonT(60) DEF Answered, KeepsAll, Keeps
    <2> QED
        BY <1>2, <2>1, <2>2, ZenonT(60)
<1> QED
    BY <1>3, <1>4, <1>5, <1>6, <1>7, ZenonT(60) DEF Kinds

\* A callback that an answer completes belongs to the exchange that has its id.
LEMMA AnswerStep ==
    ASSUME Types, Numbered, NoStrandedCallback, IdsAreOwn, AnswerIsOwn, Kinds
    PROVE  AnswerIsOwn'
<1>1. ASSUME NEW m \in sent, Answered(m) PROVE AnswerIsOwn'
    <2>1. SUFFICES ASSUME NEW c \in Callers,
                          Registered(c), ex[c].conn = m.conn, ex'[c].answer = m.query,
                          conns[m.conn].callbacks[m.id] = ex[c].query
                   PROVE  m.query = ex[c].query
        BY <1>1, ZenonT(60) DEF Answered, Same, AnswerIsOwn
    <2>2. m.conn \in Conns /\ m.id \in Ids /\ ~Over(c) /\ ex[c].query \in Nat
        BY <2>1, TypeFacts, ZenonT(60)
    <2>3. PICK d \in Callers : /\ Registered(d) /\ ex[d].conn = m.conn /\ ex[d].id = m.id
                               /\ ex[d].query = ex[c].query
        BY <2>1, <2>2, ConstantsAssumption DEF NoStrandedCallback
    <2>4. c = d
        BY <2>2, <2>3, TypeFacts, ZenonT(60) DEF Numbered
    <2> QED
        BY <2>1, <2>3, <2>4, ZenonT(60) DEF IdsAreOwn
<1>2. ASSUME NEW c \in Callers, Begun(c) \/ Opened(c) \/ Failed(c) \/ Stored(c) \/ Deleted(c)
      PROVE  AnswerIsOwn'
    <2>1. \A d \in Callers \ {c} : ex'[d].answer = ex[d].answer /\ ex'[d].query = ex[d].query
        BY <1>2, ZenonT(60) DEF Begun, Opened, Failed, Stored, Deleted, Others, Stays, Same
    <2>2. ex'[c].answer = None \/ (ex'[c].answer = ex[c].answer /\ ex'[c].query = ex[c].query)
        BY <1>2, ZenonT(60) DEF Begun, Opened, Failed, Stored, Deleted
    <2> QED
        BY <2>1, <2>2, ZenonT(60) DEF AnswerIsOwn
<1>3. CASE Quiet
    BY <1>3, ZenonT(60) DEF Quiet, Stays, Same, AnswerIsOwn
<1> QED
    BY <1>1, <1>2, <1>3, ZenonT(60) DEF Kinds

-----------------------------------------------------------------------------
(* UDP as a whole.                                                         *)

UDPInv == Types /\ Numbered /\ NoStrandedCallback /\ OneOpenConnection

AnswerInv == UDPInv /\ IdsLast /\ IdsAreOwn /\ AnswerIsOwn

\* The transport starts with no connection, exchange or callback.
LEMMA UDPStart == ASSUME Init PROVE AnswerInv
<1>1. ex = [c \in Callers |-> Idle] /\ conns = [k \in Conns |-> NewConn] /\ calls = 0 /\ sent = {}
    BY ZenonT(60) DEF Init
<1>2. NewConn.queryId = 0 /\ NewConn.callbacks = [i \in Ids |-> None] /\ ~NewConn.open
    BY ZenonT(60) DEF NewConn
<1>3. /\ \A c \in Callers : ex[c] = Idle /\ ex[c].pc = "idle" /\ ex[c].answer = None
      /\ \A k \in Conns : conns[k] = NewConn
    BY <1>1, NewTypes, ZenonT(60)
<1>4. ex \in [Callers -> ExchangeRec] /\ conns \in [Conns -> ConnRec]
    BY <1>1, NewTypes, NoCallbacks, ZenonT(60)
<1>5. Types
    BY <1>1, <1>3, <1>4, ConstantsAssumption, SMTT(30) DEF Init, Types, Sizes, Registered
<1>6. Numbered
    BY <1>3, ZenonT(60) DEF Numbered, Over
<1>7. NoStrandedCallback /\ OneOpenConnection
    BY <1>2, <1>3, ZenonT(60) DEF NoStrandedCallback, OneOpenConnection
<1>8. Opening = {}
    BY <1>3, ZenonT(60) DEF Opening
<1>9. IdsLast
    BY <1>1, <1>2, <1>3, <1>8, FS_EmptySet, SMTT(30) DEF IdsLast
<1>10. IdsAreOwn /\ AnswerIsOwn
    BY <1>1, <1>3, ZenonT(60) DEF IdsAreOwn, AnswerIsOwn, Registered
<1> QED
    BY <1>5, <1>6, <1>7, <1>9, <1>10, ZenonT(60) DEF AnswerInv, UDPInv

\* Every step of the transports keeps the invariant of UDP.
LEMMA UDPStep == ASSUME UDPInv, [DNSNext]_<<vars, streamVars>> PROVE UDPInv'
<1>1. Types' /\ Kinds
    BY StepKinds, ZenonT(60) DEF UDPInv
<1> QED
    BY <1>1, NumberedStep, CallbackStep, SocketStep, ZenonT(60) DEF UDPInv

\* And that of its answers, while there are more ids than exchanges.
LEMMA AnswerInvStep ==
    ASSUME MaxCalls < IdSpace, AnswerInv, [DNSNext]_<<vars, streamVars>>
    PROVE  AnswerInv'
<1>1. Types' /\ Kinds
    BY StepKinds, ZenonT(60) DEF UDPInv, AnswerInv
<1>2. /\ IdsLast'
      /\ \A c \in Callers : Stored(c) => NextId(ex[c].conn) = conns[ex[c].conn].queryId + 1
    BY <1>1, IdsLastStep, ZenonT(60) DEF UDPInv, AnswerInv
<1> QED
    BY <1>1, <1>2, UDPStep, IdsOwnStep, AnswerStep, ZenonT(60) DEF UDPInv, AnswerInv

-----------------------------------------------------------------------------
(* The streams.  An exchange that has a connection has it for itself, and  *)
(* nothing is on it but its own query or the answer to it.                 *)

StreamPc == {"idle", "begin", "dial", "handshake", "write", "read", "return"}

StreamExRec ==
    [pc : StreamPc, transport : {"tcp", "tls"}, query : 0 .. MaxCalls,
     conn : Streams \cup {None}, pooled : BOOLEAN, answer : (1 .. MaxCalls) \cup {None}]

StreamRec ==
    [open : BOOLEAN, cut : BOOLEAN, asked : Seq(1 .. MaxCalls), answers : Seq(1 .. MaxCalls)]

StreamTypes ==
    /\ connections \in Seq(Streams)
    /\ streams \in [Streams -> StreamRec]
    /\ streamEx \in [Callers -> StreamExRec]

\* Where an exchange is says whether it has a connection and an answer.
Phase(e) ==
    /\ e.pc \in {"handshake", "write", "read", "return"} <=> e.conn # None
    /\ e.pc = "idle" \/ e.query \in 1 .. MaxCalls
    /\ e.pc = "return" => e.answer = e.query
    /\ e.pc # "return" => e.answer = None
    /\ e.pooled => e.pc \in {"write", "read", "return"}

Clean(r) == r.open /\ r.asked = <<>> /\ r.answers = <<>>

\* What is on the connection r of the exchange e.
Content(e, r) ==
    \/ Clean(r) /\ e.pc # "read"
    \/ /\ e.pc = "read" /\ r.open
       /\ \/ r.asked = <<e.query>> /\ r.answers = <<>>
          \/ r.asked = <<>> /\ r.answers = <<e.query>>

Unheld(k) == \A c \in Callers : streamEx[c].conn # k

Phases == \A c \in Callers : Phase(streamEx[c])

Exclusive == \A c, d \in Callers :
    streamEx[c].conn = streamEx[d].conn => streamEx[c].conn = None \/ c = d

Contents == \A c \in Callers :
    streamEx[c].conn # None => Content(streamEx[c], streams[streamEx[c].conn])

PoolReady == \A i \in 1 .. Len(connections) :
    /\ Clean(streams[connections[i]]) /\ Unheld(connections[i])
    /\ \A j \in 1 .. Len(connections) : connections[j] = connections[i] => i = j

Kept == \A k \in Streams : streams[k].open => ~Unheld(k) \/ Stream!InPool(k)

StreamInv == StreamTypes /\ Phases /\ Exclusive /\ Contents /\ PoolReady /\ Kept

\* The types of what an exchange, a connection and the pool hold.
LEMMA StreamFacts ==
    ASSUME StreamTypes
    PROVE  /\ Len(connections) \in Nat
           /\ \A i \in 1 .. Len(connections) : connections[i] \in Streams
           /\ \A k \in Streams : streams[k] \in StreamRec
           /\ \A c \in Callers : streamEx[c] \in StreamExRec /\ streamEx[c].conn \in Streams \cup {None}
           /\ None \notin Streams /\ None \notin 0 .. MaxCalls
<1>1. \A c \in Callers : streamEx[c] \in StreamExRec /\ streamEx[c].conn \in Streams \cup {None}
    BY ZenonT(60) DEF StreamTypes, StreamExRec
<1>2. \A k \in Streams : streams[k] \in StreamRec
    BY ZenonT(60) DEF StreamTypes
<1>3. Len(connections) \in Nat /\ \A i \in 1 .. Len(connections) : connections[i] \in Streams
    BY DEF StreamTypes
<1> QED
    BY <1>1, <1>2, <1>3, StreamsAssumption, ConstantsAssumption, SMTT(30)

\* An exchange that has no connection moves on without one.
LEMMA MovesAlone ==
    ASSUME StreamInv, NEW c \in Callers, NEW e \in StreamExRec,
           streamEx' = [streamEx EXCEPT ![c] = e], UNCHANGED <<connections, streams>>,
           Phase(e), e.conn = None, streamEx[c].conn = None
    PROVE  StreamInv'
<1>1. /\ streamEx' \in [Callers -> StreamExRec] /\ streamEx'[c] = e
      /\ \A d \in Callers \ {c} : streamEx'[d] = streamEx[d]
    BY ZenonT(60) DEF StreamInv, StreamTypes
<1>2. \A d \in Callers : streamEx'[d].conn = streamEx[d].conn
    BY <1>1, ZenonT(60)
<1>3. StreamTypes'
    BY <1>1, ZenonT(60) DEF StreamInv, StreamTypes
<1>4. Phases'
    BY <1>1, ZenonT(60) DEF StreamInv, Phases
<1>5. Exclusive'
    BY <1>2, ZenonT(60) DEF StreamInv, Exclusive
<1>6. Contents'
    BY <1>1, <1>2, ZenonT(60) DEF StreamInv, Contents
<1>7. \A k : Unheld(k)' <=> Unheld(k)
    BY <1>2, ZenonT(60) DEF Unheld
<1>8. PoolReady' /\ Kept'
    BY <1>7, ZenonT(60) DEF StreamInv, PoolReady, Kept, Stream!InPool
<1> QED
    BY <1>3, <1>4, <1>5, <1>6, <1>8, ZenonT(60) DEF StreamInv

\* An exchange dials, uses or drops a connection that is its own.
LEMMA MovesWith ==
    ASSUME StreamInv, NEW c \in Callers, NEW e \in StreamExRec, NEW k \in Streams, NEW r \in StreamRec,
           streamEx' = [streamEx EXCEPT ![c] = e], streams' = [streams EXCEPT ![k] = r],
           UNCHANGED connections, Phase(e), ~Stream!InPool(k),
           streamEx[c].conn \in {k, None}, \A d \in Callers \ {c} : streamEx[d].conn # k,
           (e.conn = k /\ Content(e, r)) \/ (e.conn = None /\ ~r.open)
    PROVE  StreamInv'
<1>1. /\ streamEx' \in [Callers -> StreamExRec] /\ streamEx'[c] = e
      /\ \A d \in Callers \ {c} : streamEx'[d] = streamEx[d]
    BY ZenonT(60) DEF StreamInv, StreamTypes
<1>2. /\ streams' \in [Streams -> StreamRec] /\ streams'[k] = r
      /\ \A l \in Streams \ {k} : streams'[l] = streams[l]
    BY ZenonT(60) DEF StreamInv, StreamTypes
<1>3. StreamTypes'
    BY <1>1, <1>2, ZenonT(60) DEF StreamInv, StreamTypes
<1>4. Phases'
    BY <1>1, ZenonT(60) DEF StreamInv, Phases
<1>5. Exclusive'
    BY <1>1, ZenonT(60) DEF StreamInv, Exclusive
<1>6. Contents'
    <2>1. \A d \in Callers \ {c} : streamEx[d].conn \in (Streams \ {k}) \cup {None}
        BY StreamFacts, ZenonT(60) DEF StreamInv
    <2> QED
        BY <1>1, <1>2, <2>1, ZenonT(60) DEF StreamInv, Contents
<1>7. \A l \in Streams \ {k} : Unheld(l)' <=> Unheld(l)
    BY <1>1, StreamFacts, ZenonT(60) DEF StreamInv, Unheld
<1>8. PoolReady'
    <2>1. \A i \in 1 .. Len(connections) : connections[i] \in Streams \ {k}
        BY StreamFacts, ZenonT(60) DEF StreamInv, Stream!InPool
    <2> QED
        BY <1>2, <1>7, <2>1, ZenonT(60) DEF StreamInv, PoolReady
<1>9. Kept'
    <2>1. ASSUME NEW l \in Streams \ {k} PROVE Kept!(l)'
        BY <1>2, <1>7, ZenonT(60) DEF StreamInv, Kept, Stream!InPool
    <2>2. streams'[k].open => ~Unheld(k)'
        BY <1>1, <1>2, ZenonT(60) DEF Unheld
    <2> QED
        BY <2>1, <2>2, ZenonT(60) DEF Kept
<1> QED
    BY <1>3, <1>4, <1>5, <1>6, <1>8, <1>9, ZenonT(60) DEF StreamInv

\* A connection leaves the pool for an exchange.
LEMMA TakesFromPool ==
    ASSUME StreamInv, NEW c \in Callers, NEW e \in StreamExRec, connections # <<>>,
           streamEx' = [streamEx EXCEPT ![c] = e], connections' = Tail(connections),
           UNCHANGED streams, Phase(e), streamEx[c].conn = None,
           e.conn = Head(connections), e.pc # "read"
    PROVE  StreamInv'
<1> DEFINE k == connections[1]
           n == Len(connections)
<1>1. /\ streamEx' \in [Callers -> StreamExRec] /\ streamEx'[c] = e
      /\ \A d \in Callers \ {c} : streamEx'[d] = streamEx[d]
    BY ZenonT(60) DEF StreamInv, StreamTypes
<1>2. n \in Nat \ {0} /\ e.conn = k /\ k \in Streams /\ connections \in Seq(Streams)
    BY DEF StreamInv, StreamTypes
<1>3. /\ connections' \in Seq(Streams) /\ Len(connections') = n - 1
      /\ \A i \in 1 .. n - 1 : connections'[i] = connections[i + 1]
    BY <1>2
<1>4. /\ Clean(streams[k]) /\ Unheld(k)
      /\ \A i \in 1 .. n : connections[i] = k => i = 1
    BY <1>2 DEF StreamInv, PoolReady
<1> HIDE DEF k, n
<1>5. StreamTypes'
    BY <1>1, <1>3, ZenonT(60) DEF StreamInv, StreamTypes
<1>6. Phases'
    BY <1>1, ZenonT(60) DEF StreamInv, Phases
<1>7. Exclusive'
    BY <1>1, <1>2, <1>4, ZenonT(60) DEF StreamInv, Exclusive, Unheld
<1>8. Contents'
    <2>1. Content(e, streams[k])
        BY <1>4, ZenonT(60) DEF Content
    <2> QED
        BY <1>1, <1>2, <2>1, ZenonT(60) DEF StreamInv, Contents
<1>9. \A l \in Streams \ {k} : Unheld(l)' <=> Unheld(l)
    BY <1>1, <1>2, StreamFacts, ZenonT(60) DEF StreamInv, Unheld
<1>10. PoolReady'
    <2>1. SUFFICES ASSUME NEW i \in 1 .. n - 1
                   PROVE  /\ Clean(streams[connections'[i]])
                          /\ \A d \in Callers : streamEx'[d].conn # connections'[i]
                          /\ \A j \in 1 .. n - 1 : connections'[j] = connections'[i] => i = j
        BY <1>3, ZenonT(60) DEF PoolReady, Unheld
    <2>2. /\ i + 1 \in 1 .. n /\ connections'[i] = connections[i + 1]
          /\ connections[i + 1] \in Streams \ {k}
        BY <1>2, <1>3, <1>4, StreamFacts, SMTT(30) DEF StreamInv, n
    <2>3. Clean(streams[connections[i + 1]]) /\ Unheld(connections[i + 1])
        BY <2>2, ZenonT(60) DEF StreamInv, PoolReady, n
    <2>4. ASSUME NEW j \in 1 .. n - 1, connections'[j] = connections'[i] PROVE i = j
        <3>1. j + 1 \in 1 .. n /\ connections'[j] = connections[j + 1]
            BY <1>2, <1>3
        <3>2. i + 1 = j + 1
            BY <2>2, <2>4, <3>1, ZenonT(60) DEF StreamInv, PoolReady, n
        <3> QED
            BY <1>2, <3>2, SMTT(30)
    <2>5. \A d \in Callers : streamEx'[d].conn # connections'[i]
        BY <1>1, <1>2, <2>2, <2>3, ZenonT(60) DEF Unheld
    <2> QED
        BY <2>2, <2>3, <2>4, <2>5, ZenonT(60)
<1>11. Kept'
    <2>1. ASSUME NEW l \in Streams \ {k}, Stream!InPool(l) PROVE Stream!InPool(l)'
        <3>1. PICK i \in 1 .. n : connections[i] = l
            BY <2>1, ZenonT(60) DEF Stream!InPool, n
        <3>2. i # 1 /\ i - 1 \in 1 .. n - 1 /\ (i - 1) + 1 = i
            BY <1>2, <3>1 DEF k
        <3>3. connections'[i - 1] = l
            BY <1>3, <3>1, <3>2, ZenonT(60)
        <3> QED
            BY <1>3, <3>2, <3>3, ZenonT(60) DEF Stream!InPool
    <2>2. ASSUME NEW l \in Streams \ {k}, streams[l].open PROVE ~Unheld(l)' \/ Stream!InPool(l)'
        BY <1>9, <2>1, <2>2, ZenonT(60) DEF StreamInv, Kept
    <2>3. ASSUME NEW l \in Streams, l = k PROVE ~Unheld(l)'
        BY <1>1, <1>2, <2>3, ZenonT(60) DEF Unheld
    <2> QED
        BY <2>2, <2>3, ZenonT(60) DEF Kept
<1> QED
    BY <1>5, <1>6, <1>7, <1>8, <1>10, <1>11, ZenonT(60) DEF StreamInv

\* An exchange leaves its connection in the pool.
LEMMA GivesToPool ==
    ASSUME StreamInv, NEW c \in Callers, NEW e \in StreamExRec, NEW k \in Streams,
           streamEx' = [streamEx EXCEPT ![c] = e], connections' = Append(connections, k),
           UNCHANGED streams, Phase(e), e.conn = None, streamEx[c].conn = k, streamEx[c].pc # "read"
    PROVE  StreamInv'
<1> DEFINE n == Len(connections)
<1>1. /\ streamEx' \in [Callers -> StreamExRec] /\ streamEx'[c] = e
      /\ \A d \in Callers \ {c} : streamEx'[d] = streamEx[d]
    BY ZenonT(60) DEF StreamInv, StreamTypes
<1>2. n \in Nat /\ connections \in Seq(Streams) /\ None \notin Streams
    BY StreamFacts, ZenonT(60) DEF StreamInv, StreamTypes
<1>3. /\ connections' \in Seq(Streams) /\ Len(connections') = n + 1 /\ connections'[n + 1] = k
      /\ \A i \in 1 .. n : connections'[i] = connections[i] /\ connections[i] \in Streams
    BY <1>2
<1>4. /\ Clean(streams[k]) /\ \A d \in Callers \ {c} : streamEx[d].conn # k
      /\ \A i \in 1 .. n : connections[i] # k
    BY <1>2, ZenonT(60) DEF StreamInv, Contents, Content, Exclusive, PoolReady, Unheld
<1> HIDE DEF n
<1>5. StreamTypes'
    BY <1>1, <1>3, ZenonT(60) DEF StreamInv, StreamTypes
<1>6. Phases'
    BY <1>1, ZenonT(60) DEF StreamInv, Phases
<1>7. Exclusive'
    BY <1>1, ZenonT(60) DEF StreamInv, Exclusive
<1>8. Contents'
    BY <1>1, ZenonT(60) DEF StreamInv, Contents
<1>9. \A l \in Streams : Unheld(l) => \A d \in Callers : streamEx'[d].conn # l
    BY <1>1, <1>2, ZenonT(60) DEF Unheld
<1>10. \A d \in Callers : streamEx'[d].conn # k
    BY <1>1, <1>2, <1>4, ZenonT(60)
<1>11. PoolReady'
    <2>1. ASSUME NEW i \in 1 .. n + 1
          PROVE  /\ Clean(streams[connections'[i]])
                 /\ \A d \in Callers : streamEx'[d].conn # connections'[i]
                 /\ \A j \in 1 .. n + 1 : connections'[j] = connections'[i] => i = j
        <3>1. CASE i = n + 1
            <4>1. \A j \in 1 .. n + 1 : connections'[j] = k => j = n + 1
                BY <1>2, <1>3, <1>4, SMTT(30)
            <4> QED
                BY <1>3, <1>4, <1>10, <3>1, <4>1, ZenonT(60)
        <3>2. CASE i \in 1 .. n
            <4>1. /\ Clean(streams[connections[i]]) /\ Unheld(connections[i])
                  /\ \A j \in 1 .. n : connections[j] = connections[i] => i = j
                BY <3>2, ZenonT(60) DEF StreamInv, PoolReady, n
            <4>2. connections'[i] = connections[i] /\ connections[i] \in Streams /\ connections[i] # k
                BY <1>3, <1>4, <3>2, ZenonT(60)
            <4>3. \A j \in 1 .. n + 1 : connections'[j] = connections'[i] => i = j
                BY <1>2, <1>3, <4>1, <4>2, SMTT(30)
            <4> QED
                BY <1>9, <4>1, <4>2, <4>3, ZenonT(60)
        <3>3. i = n + 1 \/ i \in 1 .. n
            BY <1>2
        <3> QED
            BY <3>1, <3>2, <3>3, ZenonT(60)
    <2> QED
        BY <1>3, <2>1 DEF PoolReady, Unheld
<1>12. Kept'
    <2>1. n + 1 \in 1 .. n + 1 /\ 1 .. n \subseteq 1 .. n + 1
        BY <1>2
    <2>2. ASSUME NEW l \in Streams, streams[l].open PROVE ~Unheld(l)' \/ Stream!InPool(l)'
        <3>1. CASE l = k
            <4>1. Stream!InPool(l)'
                BY <1>3, <2>1, <3>1, ZenonT(60) DEF Stream!InPool
            <4> QED
                BY <4>1, ZenonT(60)
        <3>2. CASE Stream!InPool(l)
            <4>1. PICK i \in 1 .. n : connections[i] = l
                BY <3>2, ZenonT(60) DEF Stream!InPool, n
            <4>2. i \in 1 .. n + 1 /\ connections'[i] = l
                BY <1>3, <2>1, <4>1, ZenonT(60)
            <4> QED
                BY <1>3, <4>2, ZenonT(60) DEF Stream!InPool
        <3>3. CASE l # k /\ ~Unheld(l)
            BY <1>1, <3>3, ZenonT(60) DEF Unheld
        <3> QED
            BY <2>2, <3>1, <3>2, <3>3, ZenonT(60) DEF StreamInv, Kept
    <2> QED
        BY <2>2, ZenonT(60) DEF Kept
<1> QED
    BY <1>5, <1>6, <1>7, <1>8, <1>11, <1>12, ZenonT(60) DEF StreamInv

\* Close ends the connections of the pool, and empties it.
LEMMA CloseEmpties == ASSUME StreamInv, Stream!Close PROVE StreamInv'
<1>1. /\ streams' = [k \in Streams |-> [streams[k] EXCEPT !.open = @ /\ ~Stream!InPool(k)]]
      /\ connections' = <<>> /\ streamEx' = streamEx
    BY ZenonT(60) DEF Stream!Close
<1>3. ASSUME NEW k \in Streams
      PROVE  /\ streams'[k] \in StreamRec /\ streams'[k].asked = streams[k].asked
             /\ streams'[k].answers = streams[k].answers
             /\ streams'[k].open <=> streams[k].open /\ ~Stream!InPool(k)
    <2> DEFINE r == [streams[k] EXCEPT !.open = @ /\ ~Stream!InPool(k)]
    <2>1. streams'[k] = r
        BY <1>1, ZenonT(60)
    <2>2. /\ r \in StreamRec /\ r.asked = streams[k].asked /\ r.answers = streams[k].answers
          /\ r.open <=> streams[k].open /\ ~Stream!InPool(k)
        BY ZenonT(60) DEF StreamInv, StreamTypes, StreamRec
    <2> QED
        BY <2>1, <2>2, ZenonT(60)
<1>4. StreamTypes'
    <2>1. streams' = [k \in Streams |-> streams'[k]]
        BY <1>1, ZenonT(60)
    <2>2. streams' \in [Streams -> StreamRec]
        BY <1>3, <2>1, ZenonT(60)
    <2>3. connections' \in Seq(Streams)
        BY <1>1
    <2> QED
        BY <1>1, <2>2, <2>3, ZenonT(60) DEF StreamInv, StreamTypes
<1>5. Phases' /\ Exclusive'
    BY <1>1, ZenonT(60) DEF StreamInv, Phases, Exclusive
<1>6. Contents'
    <2>1. SUFFICES ASSUME NEW c \in Callers, streamEx[c].conn # None
                   PROVE  Content(streamEx[c], streams'[streamEx[c].conn])
        BY <1>1, ZenonT(60) DEF Contents
    <2> DEFINE k == streamEx[c].conn
    <2>2. k \in Streams /\ ~Stream!InPool(k)
        BY <2>1, StreamFacts, ZenonT(60) DEF StreamInv, PoolReady, Stream!InPool, Unheld
    <2>3. Content(streamEx[c], streams[k])
        BY <2>1, ZenonT(60) DEF StreamInv, Contents
    <2> HIDE DEF k
    <2>4. Content(streamEx[c], streams'[k])
        BY <1>3, <2>2, <2>3, ZenonT(60) DEF Content, Clean
    <2> QED
        BY <2>4, ZenonT(60) DEF k
<1>7. PoolReady'
    BY <1>1 DEF PoolReady
<1>8. Kept'
    BY <1>1, <1>3, ZenonT(60) DEF StreamInv, Kept, Unheld
<1> QED
    BY <1>4, <1>5, <1>6, <1>7, <1>8, ZenonT(60) DEF StreamInv

\* The peer acts on a connection that is in use, or only cuts it.
LEMMA PeerKeeps ==
    ASSUME StreamInv, NEW k \in Streams, NEW r \in StreamRec, streams' = [streams EXCEPT ![k] = r],
           UNCHANGED <<connections, streamEx>>, streams[k].open, r.open,
           \A c \in Callers : streamEx[c].conn = k => Content(streamEx[c], r),
           Stream!InPool(k) => Clean(r)
    PROVE  StreamInv'
<1>1. /\ streams' \in [Streams -> StreamRec] /\ streams'[k] = r
      /\ \A l \in Streams \ {k} : streams'[l] = streams[l]
    BY ZenonT(60) DEF StreamInv, StreamTypes
<1>2. StreamTypes'
    BY <1>1, ZenonT(60) DEF StreamInv, StreamTypes
<1>3. Phases' /\ Exclusive'
    BY ZenonT(60) DEF StreamInv, Phases, Exclusive
<1>4. Contents'
    BY <1>1, StreamFacts, ZenonT(60) DEF StreamInv, Contents
<1>5. PoolReady'
    <2>1. ASSUME NEW i \in 1 .. Len(connections) PROVE Clean(streams'[connections[i]])
        <3>1. connections[i] \in Streams /\ Clean(streams[connections[i]])
            BY StreamFacts, ZenonT(60) DEF StreamInv, PoolReady
        <3>2. connections[i] = k => Clean(r)
            BY ZenonT(60) DEF Stream!InPool
        <3> QED
            BY <1>1, <3>1, <3>2, ZenonT(60)
    <2> QED
        BY <2>1, ZenonT(60) DEF StreamInv, PoolReady, Unheld
<1>6. Kept'
    BY <1>1, ZenonT(60) DEF StreamInv, Kept, Unheld, Stream!InPool
<1> QED
    BY <1>2, <1>3, <1>4, <1>5, <1>6, ZenonT(60) DEF StreamInv

\* The peer answers the query of the exchange that has the connection.
LEMMA AnswerKeeps == ASSUME StreamInv, NEW k \in Streams, Stream!Answer(k) PROVE StreamInv'
<1> DEFINE s == streams[k]
           r == [s EXCEPT !.asked = Tail(@), !.answers = Append(@, Head(s.asked))]
<1>1. s \in StreamRec /\ s.asked \in Seq(1 .. MaxCalls) /\ s.answers \in Seq(1 .. MaxCalls)
    BY ZenonT(60) DEF StreamInv, StreamTypes, StreamRec
<1>2. s.open /\ s.asked # <<>> /\ UNCHANGED <<connections, streamEx>>
    BY ZenonT(60) DEF Stream!Answer
<1>3. streams' = [streams EXCEPT ![k] = r]
    BY ZenonT(60) DEF Stream!Answer, StreamInv, StreamTypes
<1>4. ~Stream!InPool(k)
    BY <1>2, ZenonT(60) DEF StreamInv, PoolReady, Stream!InPool, Clean
<1> HIDE DEF s
<1>5. Tail(s.asked) \in Seq(1 .. MaxCalls) /\ Append(s.answers, Head(s.asked)) \in Seq(1 .. MaxCalls)
    <2> DEFINE T == 1 .. MaxCalls
    <2>1. s.asked \in Seq(T) /\ s.answers \in Seq(T) /\ s.asked # <<>>
        BY <1>1, <1>2, ZenonT(60)
    <2> HIDE DEF T
    <2>2. Tail(s.asked) \in Seq(T) /\ Append(s.answers, Head(s.asked)) \in Seq(T)
        BY <2>1
    <2> QED
        BY <2>2, ZenonT(60) DEF T
<1>6. /\ r \in StreamRec /\ r.open = s.open
      /\ r.asked = Tail(s.asked) /\ r.answers = Append(s.answers, Head(s.asked))
    BY <1>1, <1>5, ZenonT(60) DEF StreamRec
<1> HIDE DEF r
<1>7. ASSUME NEW c \in Callers, streamEx[c].conn = k PROVE Content(streamEx[c], r)
    <2>1. Content(streamEx[c], s)
        BY <1>7, StreamFacts, ZenonT(60) DEF StreamInv, Contents, s
    <2>2. streamEx[c].pc = "read" /\ s.asked = <<streamEx[c].query>> /\ s.answers = <<>>
        BY <1>2, <2>1, ZenonT(60) DEF Content, Clean
    <2>3. r.asked = <<>> /\ r.answers = <<streamEx[c].query>>
        BY <1>6, <2>2
    <2> QED
        BY <1>2, <1>6, <2>2, <2>3, ZenonT(60) DEF Content
<1> QED
    BY <1>2, <1>3, <1>4, <1>6, <1>7, PeerKeeps, ZenonT(60) DEF s

\* The peer cuts a connection; nobody has noticed.
LEMMA CutKeeps == ASSUME StreamInv, NEW k \in Streams, Stream!Cut(k) PROVE StreamInv'
<1> DEFINE s == streams[k]
           r == [s EXCEPT !.cut = TRUE]
<1>1. s \in StreamRec
    BY ZenonT(60) DEF StreamInv, StreamTypes
<1>2. s.open /\ UNCHANGED <<connections, streamEx>>
    BY ZenonT(60) DEF Stream!Cut
<1>3. streams' = [streams EXCEPT ![k] = r]
    BY ZenonT(60) DEF Stream!Cut, StreamInv, StreamTypes
<1> HIDE DEF s
<1>4. r \in StreamRec /\ r.open = s.open /\ r.asked = s.asked /\ r.answers = s.answers
    BY <1>1, ZenonT(60) DEF StreamRec
<1> HIDE DEF r
<1>5. ASSUME NEW c \in Callers, streamEx[c].conn = k PROVE Content(streamEx[c], r)
    <2>1. Content(streamEx[c], s)
        BY <1>5, StreamFacts DEF StreamInv, Contents, s
    <2> QED
        BY <1>4, <2>1, ZenonT(60) DEF Content, Clean
<1>6. Stream!InPool(k) => Clean(r)
    BY <1>4, ZenonT(60) DEF StreamInv, PoolReady, Stream!InPool, Clean, s
<1> QED
    BY <1>2, <1>3, <1>4, <1>5, <1>6, PeerKeeps, ZenonT(60) DEF s

-----------------------------------------------------------------------------
(* The steps of an exchange over a stream.                                 *)

\* A new exchange and one that is over.
LEMMA StreamNew ==
    /\ Stream!Idle \in StreamExRec /\ Phase(Stream!Idle) /\ Stream!Idle.conn = None
    /\ Stream!Idle.pc = "idle"
    /\ \A n \in 1 .. MaxCalls, t \in {"tcp", "tls"} :
          LET e == Stream!NewExchange(n, t)
          IN  e \in StreamExRec /\ Phase(e) /\ e.conn = None
<1>1. \A n \in 0 .. MaxCalls, t \in {"tcp", "tls"} :
          LET e == Stream!NewExchange(n, t)
          IN  e \in StreamExRec /\ e.pc = "begin" /\ e.conn = None /\ e.answer = None /\ ~e.pooled /\ e.query = n
    BY ZenonT(60) DEF Stream!NewExchange, StreamExRec, StreamPc
<1>2. \A n \in 1 .. MaxCalls, t \in {"tcp", "tls"} :
          LET e == Stream!NewExchange(n, t)
          IN  e \in StreamExRec /\ Phase(e) /\ e.conn = None
    BY <1>1, ConstantsAssumption DEF Phase
<1> DEFINE e == Stream!NewExchange(0, "tcp")
<1>3. e \in StreamExRec /\ e.conn = None /\ e.answer = None /\ ~e.pooled
    BY <1>1, ConstantsAssumption
<1>4. Stream!Idle = [e EXCEPT !.pc = "idle"]
    BY ZenonT(60) DEF Stream!Idle
<1> HIDE DEF e
<1>5. /\ Stream!Idle \in StreamExRec /\ Stream!Idle.pc = "idle" /\ Stream!Idle.conn = None
      /\ Stream!Idle.answer = None /\ ~Stream!Idle.pooled
    BY <1>3, <1>4, ZenonT(60) DEF StreamExRec, StreamPc
<1> QED
    BY <1>2, <1>5, ZenonT(60) DEF Phase

\* A connection that has just been dialled.
LEMMA StreamDialled ==
    LET r == [Stream!NewConn EXCEPT !.open = TRUE]
    IN  Stream!NewConn \in StreamRec /\ r \in StreamRec /\ Clean(r)
<1>1. /\ Stream!NewConn \in StreamRec /\ Stream!NewConn.asked = <<>>
      /\ Stream!NewConn.answers = <<>>
    <2> DEFINE Q == Seq(1 .. MaxCalls)
    <2>1. <<>> \in Q
        OBVIOUS
    <2>2. StreamRec = [open : BOOLEAN, cut : BOOLEAN, asked : Q, answers : Q]
        BY ZenonT(60) DEF StreamRec
    <2> HIDE DEF Q
    <2> QED
        BY <2>1, <2>2, ZenonT(60) DEF Stream!NewConn
<1> QED
    BY <1>1, ZenonT(60) DEF StreamRec, Clean

\* Whoever holds a connection holds it alone.
LEMMA HeldAlone ==
    ASSUME StreamInv, NEW c \in Callers, streamEx[c].conn # None
    PROVE  LET k == streamEx[c].conn
           IN  /\ k \in Streams /\ ~Stream!InPool(k) /\ streams[k] \in StreamRec
               /\ Content(streamEx[c], streams[k])
               /\ \A d \in Callers \ {c} : streamEx[d].conn # k
BY StreamFacts, ZenonT(60) DEF StreamInv, Contents, Exclusive, PoolReady, Stream!InPool, Unheld

\* Connections that are closed after use.
LEMMA Drops ==
    ASSUME StreamInv, NEW c \in Callers, streamEx[c].conn # None, NEW e \in StreamExRec,
           Phase(e), e.conn = None, streamEx' = [streamEx EXCEPT ![c] = e], UNCHANGED connections,
           streams' = [streams EXCEPT ![streamEx[c].conn].open = FALSE]
    PROVE  StreamInv'
<1> DEFINE k == streamEx[c].conn
           r == [streams[k] EXCEPT !.open = FALSE]
<1>1. /\ k \in Streams /\ ~Stream!InPool(k) /\ streams[k] \in StreamRec
      /\ \A d \in Callers \ {c} : streamEx[d].conn # k
    BY HeldAlone, ZenonT(60)
<1>2. streams' = [streams EXCEPT ![k] = r]
    BY <1>1, ZenonT(60) DEF StreamInv, StreamTypes
<1>3. r \in StreamRec /\ ~r.open
    BY <1>1, ZenonT(60) DEF StreamRec
<1>4. streamEx[c].conn \in {k, None}
    OBVIOUS
<1> HIDE DEF k, r
<1> QED
    BY <1>1, <1>2, <1>3, <1>4, MovesWith, ZenonT(60)

\* Begin, and the steps before an exchange has a connection.
LEMMA BeforeDial ==
    ASSUME StreamInv, calls \in 0 .. MaxCalls, NEW c \in Callers,
           Stream!Begin(c) \/ Stream!Pop(c) \/ Stream!DialFails(c)
    PROVE  StreamInv'
<1> DEFINE x == streamEx[c]
<1>1. x \in StreamExRec /\ Phase(x)
    BY StreamFacts, ZenonT(60) DEF StreamInv, Phases
<1>2. CASE Stream!Begin(c)
    <2>1. PICK t \in {"tcp", "tls"} : streamEx' = [streamEx EXCEPT ![c] = Stream!NewExchange(calls + 1, t)]
        BY <1>2, ZenonT(60) DEF Stream!Begin, Stream!Transports
    <2>2. x.pc = "idle" /\ calls + 1 \in 1 .. MaxCalls /\ UNCHANGED <<connections, streams>>
        BY <1>2, ConstantsAssumption DEF Stream!Begin
    <2>3. x.conn = None
        BY <1>1, <2>2, ZenonT(60) DEF Phase
    <2> QED
        BY <2>1, <2>2, <2>3, StreamNew, MovesAlone, ZenonT(60)
<1>3. CASE Stream!DialFails(c)
    <2>1. x.conn = None
        BY <1>1, <1>3, ZenonT(60) DEF Phase, Stream!DialFails
    <2> QED
        BY <1>3, <2>1, StreamNew, MovesAlone, ZenonT(60) DEF Stream!DialFails
<1>4. CASE Stream!Pop(c)
    <2>1. x.pc = "begin" /\ streams' = streams
        BY <1>4, ZenonT(60) DEF Stream!Pop
    <2>2. x.conn = None /\ x.query \in 1 .. MaxCalls /\ x.answer = None /\ ~x.pooled
        BY <1>1, <2>1, ZenonT(60) DEF Phase
    <2>3. CASE /\ streamEx' = [streamEx EXCEPT ![c].pc = "dial"]
               /\ UNCHANGED connections
        <3> DEFINE e == [x EXCEPT !.pc = "dial"]
        <3>1. streamEx' = [streamEx EXCEPT ![c] = e]
            BY <2>3, ZenonT(60) DEF StreamInv, StreamTypes
        <3>2. /\ e \in StreamExRec /\ e.pc = "dial" /\ e.conn = x.conn /\ e.query = x.query
              /\ e.answer = x.answer /\ e.pooled = x.pooled
            BY <1>1, ZenonT(60) DEF StreamExRec, StreamPc
        <3> HIDE DEF e
        <3>3. Phase(e)
            BY <2>2, <3>2, ZenonT(60) DEF Phase
        <3> QED
            BY <2>1, <2>2, <2>3, <3>1, <3>2, <3>3, MovesAlone, ZenonT(60)
    <2>4. CASE /\ connections # <<>> /\ connections' = Tail(connections)
               /\ streamEx' = [streamEx EXCEPT ![c].pc = "write", ![c].conn = Head(connections),
                                               ![c].pooled = TRUE]
        <3> DEFINE e == [x EXCEPT !.pc = "write", !.conn = Head(connections), !.pooled = TRUE]
        <3>1. streamEx' = [streamEx EXCEPT ![c] = e]
            BY <2>4, ZenonT(60) DEF StreamInv, StreamTypes
        <3>2. Head(connections) \in Streams /\ None \notin Streams
            BY <2>4, StreamFacts, SMTT(30) DEF StreamInv, StreamTypes
        <3>3. /\ e \in StreamExRec /\ e.pc = "write" /\ e.conn = Head(connections)
              /\ e.query = x.query /\ e.answer = x.answer /\ e.pooled = TRUE
            BY <1>1, <3>2, ZenonT(60) DEF StreamExRec, StreamPc
        <3> HIDE DEF e
        <3>4. Phase(e)
            BY <2>2, <3>2, <3>3, ZenonT(60) DEF Phase
        <3> QED
            BY <2>1, <2>2, <2>4, <3>1, <3>3, <3>4, TakesFromPool, ZenonT(60)
    <2> QED
        BY <1>4, <2>3, <2>4, ZenonT(60) DEF Stream!Pop
<1> QED
    BY <1>2, <1>3, <1>4, ZenonT(60)

\* A dial makes a connection that nothing is on.
LEMMA DialKeeps == ASSUME StreamInv, NEW c \in Callers, Stream!Dial(c) PROVE StreamInv'
<1> DEFINE x == streamEx[c]
           label == IF x.transport = "tls" THEN "handshake" ELSE "write"
           r == [Stream!NewConn EXCEPT !.open = TRUE]
<1>1. x \in StreamExRec /\ Phase(x) /\ x.pc = "dial" /\ connections' = connections
    BY StreamFacts, ZenonT(60) DEF StreamInv, Phases, Stream!Dial
<1>2. x.conn = None /\ x.query \in 1 .. MaxCalls /\ x.answer = None /\ ~x.pooled
    BY <1>1, ZenonT(60) DEF Phase
<1>3. PICK k \in Streams :
          /\ ~streams[k].open /\ \A d \in Callers : streamEx[d].conn # k
          /\ streams' = [streams EXCEPT ![k] = r]
          /\ streamEx' = [streamEx EXCEPT ![c].conn = k, ![c].pc = label]
    BY ZenonT(60) DEF Stream!Dial
<1>4. r \in StreamRec /\ Clean(r)
    BY StreamDialled, ZenonT(60)
<1>5. ~Stream!InPool(k)
    BY <1>3, ZenonT(60) DEF StreamInv, PoolReady, Stream!InPool, Clean
<1> DEFINE e == [x EXCEPT !.conn = k, !.pc = label]
<1>6. streamEx' = [streamEx EXCEPT ![c] = e]
    BY <1>3, ZenonT(60) DEF StreamInv, StreamTypes
<1>7. label \in {"handshake", "write"}
    OBVIOUS
<1> HIDE DEF label, r
<1>8. /\ e \in StreamExRec /\ e.pc \in {"handshake", "write"} /\ e.conn = k
      /\ e.query = x.query /\ e.answer = x.answer /\ e.pooled = x.pooled
    BY <1>1, <1>7, ZenonT(60) DEF StreamExRec, StreamPc
<1> HIDE DEF e
<1>9. Phase(e) /\ Content(e, r)
    BY <1>2, <1>4, <1>8, StreamsAssumption, ZenonT(60) DEF Phase, Content
<1> QED
    BY <1>1, <1>2, <1>3, <1>4, <1>5, <1>6, <1>8, <1>9, MovesWith, ZenonT(60)

\* An exchange goes on with the connection it has.
LEMMA GoesOn ==
    ASSUME StreamInv, NEW c \in Callers, NEW k \in Streams, streamEx[c].conn = k,
           NEW e \in StreamExRec, NEW r \in StreamRec, Phase(e), Content(e, r), e.conn = k,
           streamEx' = [streamEx EXCEPT ![c] = e], UNCHANGED connections,
           streams' = [streams EXCEPT ![k] = r]
    PROVE  StreamInv'
<1>1. ~Stream!InPool(k) /\ \A d \in Callers \ {c} : streamEx[d].conn # k
    BY HeldAlone, StreamsAssumption, ZenonT(60)
<1>2. streamEx[c].conn \in {k, None}
    OBVIOUS
<1> QED
    BY <1>1, <1>2, MovesWith, ZenonT(60)

\* The handshake: nothing of DNS is on the connection yet.
LEMMA HandshakeKeeps == ASSUME StreamInv, NEW c \in Callers, Stream!Handshake(c) PROVE StreamInv'
<1> DEFINE x == streamEx[c]
           k == x.conn
           e == [x EXCEPT !.pc = "write"]
<1>1. x \in StreamExRec /\ Phase(x) /\ x.pc = "handshake" /\ connections' = connections
    BY StreamFacts, ZenonT(60) DEF StreamInv, Phases, Stream!Handshake
<1>2. k # None /\ x.query \in 1 .. MaxCalls /\ x.answer = None /\ ~x.pooled
    BY <1>1, ZenonT(60) DEF Phase
<1>3. k \in Streams /\ streams[k] \in StreamRec /\ Content(x, streams[k])
    BY <1>2, HeldAlone, ZenonT(60)
<1>4. CASE streamEx' = [streamEx EXCEPT ![c].pc = "write"] /\ streams' = streams
    <2>1. streamEx' = [streamEx EXCEPT ![c] = e] /\ streams' = [streams EXCEPT ![k] = streams[k]]
        BY <1>3, <1>4, ZenonT(60) DEF StreamInv, StreamTypes
    <2>2. /\ e \in StreamExRec /\ e.pc = "write" /\ e.conn = k
          /\ e.query = x.query /\ e.answer = x.answer /\ e.pooled = x.pooled
        BY <1>1, ZenonT(60) DEF StreamExRec, StreamPc
    <2> HIDE DEF e
    <2>3. Phase(e) /\ Content(e, streams[k])
        BY <1>1, <1>2, <1>3, <2>2, ZenonT(60) DEF Phase, Content
    <2> QED
        BY <1>1, <1>2, <1>3, <2>1, <2>2, <2>3, GoesOn, ZenonT(60)
<1>5. CASE streamEx' = [streamEx EXCEPT ![c] = Stream!Idle] /\ streams' = [streams EXCEPT ![k].open = FALSE]
    BY <1>1, <1>2, <1>5, StreamNew, Drops, ZenonT(60)
<1> QED
    BY <1>4, <1>5, ZenonT(60) DEF Stream!Handshake

\* A failure closes the connection and begins again without it, or ends.
LEMMA FailsKeeps ==
    ASSUME StreamInv, NEW c \in Callers, Stream!WriteFails(c) \/ Stream!ReadFails(c) PROVE StreamInv'
<1> DEFINE x == streamEx[c]
           e == [x EXCEPT !.pc = "dial", !.conn = None, !.pooled = FALSE]
<1>1. x \in StreamExRec /\ Phase(x) /\ x.pc \in {"write", "read"} /\ Stream!Fails(c)
    BY StreamFacts, ZenonT(60) DEF StreamInv, Phases, Stream!WriteFails, Stream!ReadFails
<1>2. x.conn # None /\ x.query \in 1 .. MaxCalls /\ x.answer = None
    BY <1>1, ZenonT(60) DEF Phase
<1>3. /\ connections' = connections /\ streams' = [streams EXCEPT ![x.conn].open = FALSE]
      /\ \/ streamEx' = [streamEx EXCEPT ![c] = Stream!Idle]
         \/ streamEx' = [streamEx EXCEPT ![c] = e]
    BY <1>1, ZenonT(60) DEF Stream!Fails, StreamInv, StreamTypes
<1>4. /\ e \in StreamExRec /\ e.pc = "dial" /\ e.conn = None
      /\ e.query = x.query /\ e.answer = x.answer /\ e.pooled = FALSE
    BY <1>1, ZenonT(60) DEF StreamExRec, StreamPc
<1> HIDE DEF e
<1>5. Phase(e)
    BY <1>2, <1>4, ZenonT(60) DEF Phase
<1> QED
    BY <1>2, <1>3, <1>4, <1>5, StreamNew, Drops, ZenonT(60)

\* The query is written on a connection that nothing is on.
LEMMA WriteKeeps == ASSUME StreamInv, NEW c \in Callers, Stream!WriteMessage(c) PROVE StreamInv'
<1> DEFINE x == streamEx[c]
           k == x.conn
           s == streams[k]
           q == x.query
           e == [x EXCEPT !.pc = "read"]
           a == Append(s.asked, q)
           r == [s EXCEPT !.asked = a]
<1>1. x \in StreamExRec /\ Phase(x) /\ x.pc = "write" /\ connections' = connections
    BY StreamFacts, ZenonT(60) DEF StreamInv, Phases, Stream!WriteMessage
<1>2. k # None /\ q \in 1 .. MaxCalls /\ x.answer = None
    BY <1>1, ZenonT(60) DEF Phase
<1>3. k \in Streams /\ s \in StreamRec /\ Content(x, s)
    BY <1>2, HeldAlone, ZenonT(60)
<1>4. Clean(s)
    BY <1>1, <1>3, ZenonT(60) DEF Content
<1>5. /\ streamEx' = [streamEx EXCEPT ![c] = e]
      /\ streams' = [streams EXCEPT ![k] = r]
    BY <1>3, ZenonT(60) DEF Stream!WriteMessage, StreamInv, StreamTypes
<1>6. /\ e \in StreamExRec /\ e.pc = "read" /\ e.conn = k
      /\ e.query = q /\ e.answer = x.answer /\ e.pooled = x.pooled
    BY <1>1, ZenonT(60) DEF StreamExRec, StreamPc
<1> HIDE DEF e, s, q
<1>7. a = <<q>> /\ a \in Seq(1 .. MaxCalls)
    BY <1>2, <1>4 DEF Clean
<1> HIDE DEF a
<1>8. r \in StreamRec /\ r.open = s.open /\ r.asked = a /\ r.answers = s.answers
    BY <1>3, <1>7, ZenonT(60) DEF StreamRec
<1> HIDE DEF r
<1>9. Phase(e) /\ Content(e, r)
    BY <1>2, <1>4, <1>6, <1>7, <1>8, ZenonT(60) DEF Phase, Content, Clean
<1> QED
    BY <1>1, <1>3, <1>5, <1>6, <1>8, <1>9, GoesOn, ZenonT(60)

\* What is read is the answer to the query, and nothing is left on the connection.
LEMMA ReadKeeps == ASSUME StreamInv, NEW c \in Callers, Stream!ReadMessage(c) PROVE StreamInv'
<1> DEFINE x == streamEx[c]
           k == x.conn
           s == streams[k]
           q == x.query
           h == Head(s.answers)
           t == Tail(s.answers)
           e == [x EXCEPT !.pc = "return", !.answer = h]
           r == [s EXCEPT !.answers = t]
<1>1. x \in StreamExRec /\ Phase(x) /\ x.pc = "read" /\ connections' = connections /\ s.answers # <<>>
    BY StreamFacts, ZenonT(60) DEF StreamInv, Phases, Stream!ReadMessage
<1>2. k # None /\ q \in 1 .. MaxCalls
    BY <1>1, ZenonT(60) DEF Phase
<1>3. k \in Streams /\ s \in StreamRec /\ Content(x, s)
    BY <1>2, HeldAlone, ZenonT(60)
<1>4. s.open /\ s.asked = <<>> /\ s.answers = <<q>>
    BY <1>1, <1>3, ZenonT(60) DEF Content
<1>5. /\ streamEx' = [streamEx EXCEPT ![c] = e]
      /\ streams' = [streams EXCEPT ![k] = r]
    BY <1>3, ZenonT(60) DEF Stream!ReadMessage, StreamInv, StreamTypes
<1> HIDE DEF s, q
<1>6. h = q /\ t = <<>> /\ t \in Seq(1 .. MaxCalls)
    BY <1>4
<1> HIDE DEF h, t
<1>7. /\ e \in StreamExRec /\ e.pc = "return" /\ e.conn = k
      /\ e.query = q /\ e.answer = q /\ e.pooled = x.pooled
    BY <1>1, <1>2, <1>6, ZenonT(60) DEF StreamExRec, StreamPc, q
<1> HIDE DEF e
<1>8. r \in StreamRec /\ r.open = s.open /\ r.asked = s.asked /\ r.answers = t
    BY <1>3, <1>6, ZenonT(60) DEF StreamRec
<1> HIDE DEF r
<1>9. Phase(e) /\ Content(e, r)
    BY <1>2, <1>4, <1>6, <1>7, <1>8, ZenonT(60) DEF Phase, Content, Clean
<1> QED
    BY <1>1, <1>3, <1>5, <1>7, <1>8, <1>9, GoesOn, ZenonT(60)

\* A connection is returned to the pool, or closed, when nothing is on it.
LEMMA ReturnKeeps == ASSUME StreamInv, NEW c \in Callers, Stream!Return(c) PROVE StreamInv'
<1> DEFINE k == streamEx[c].conn
<1>1. Phase(streamEx[c]) /\ streamEx[c].pc = "return"
    BY ZenonT(60) DEF StreamInv, Phases, Stream!Return
<1>2. k # None
    BY <1>1, ZenonT(60) DEF Phase
<1>3. k \in Streams /\ streamEx' = [streamEx EXCEPT ![c] = Stream!Idle]
    BY <1>2, HeldAlone, ZenonT(60) DEF Stream!Return
<1>4. CASE connections' = Append(connections, k) /\ streams' = streams
    <2>1. streamEx[c].conn = k
        OBVIOUS
    <2> HIDE DEF k
    <2> QED
        BY <1>1, <1>3, <1>4, <2>1, StreamNew, GivesToPool, ZenonT(60)
<1>5. CASE streams' = [streams EXCEPT ![k].open = FALSE] /\ connections' = connections
    BY <1>2, <1>3, <1>5, StreamNew, Drops, ZenonT(60)
<1> QED
    BY <1>4, <1>5, ZenonT(60) DEF Stream!Return

-----------------------------------------------------------------------------
(* Both transports.                                                        *)

DNSInv == UDPInv /\ StreamInv

\* The streams start with nothing open.
LEMMA StreamStart == ASSUME Stream!Init PROVE StreamInv
<1>1. /\ streamEx = [c \in Callers |-> Stream!Idle] /\ streams = [k \in Streams |-> Stream!NewConn]
      /\ connections = <<>>
    BY ZenonT(60) DEF Stream!Init
<1>2. \A c \in Callers : streamEx[c] = Stream!Idle
    BY <1>1, ZenonT(60)
<1>3. \A k \in Streams : ~streams[k].open
    BY <1>1, ZenonT(60) DEF Stream!NewConn
<1>4. streams \in [Streams -> StreamRec] /\ streamEx \in [Callers -> StreamExRec]
    BY <1>1, StreamNew, StreamDialled, ZenonT(60)
<1>5. StreamTypes
    BY <1>1, <1>4 DEF StreamTypes
<1>6. Phases /\ Exclusive /\ Contents
    BY <1>2, StreamNew, ZenonT(60) DEF Phases, Exclusive, Contents
<1>7. PoolReady /\ Kept
    BY <1>1, <1>3 DEF PoolReady, Kept
<1> QED
    BY <1>5, <1>6, <1>7, ZenonT(60) DEF StreamInv

\* Every step keeps the invariant of the streams.
LEMMA StreamStep ==
    ASSUME StreamInv, calls \in 0 .. MaxCalls, [DNSNext]_<<vars, streamVars>>
    PROVE  StreamInv'
<1>1. CASE UNCHANGED streamVars
    BY <1>1, ZenonT(60) DEF streamVars, StreamInv, StreamTypes, Phases, Exclusive, Contents, PoolReady, Kept,
                Unheld, Stream!InPool
<1>2. ASSUME NEW c \in Callers, Stream!Begin(c) \/ Stream!Step(c) PROVE StreamInv'
    BY <1>2, BeforeDial, DialKeeps, HandshakeKeeps, FailsKeeps, WriteKeeps, ReadKeeps, ReturnKeeps, ZenonT(60)
       DEF Stream!Step
<1>3. ASSUME NEW k \in Streams, Stream!Answer(k) \/ Stream!Cut(k) PROVE StreamInv'
    BY <1>3, AnswerKeeps, CutKeeps, ZenonT(60)
<1>4. CASE Stream!Close
    BY <1>4, CloseEmpties, ZenonT(60)
<1> QED
    BY <1>1, <1>2, <1>3, <1>4, ZenonT(60) DEF DNSNext, Stream!Next

\* The invariant says what is promised of callbacks, sockets and the pool.
LEMMA Released == ASSUME DNSInv PROVE NothingStranded
<1>1. NoStrandedCallback /\ OneOpenConnection
    BY ZenonT(60) DEF DNSInv, UDPInv
<1>3. \A k : Stream!Held(k) = {} <=> Unheld(k)
    BY ZenonT(60) DEF Stream!Held, Unheld
<1>4. \A k \in Streams : ~Unheld(k) => streams[k].open
    <2>1. SUFFICES ASSUME NEW c \in Callers, NEW k \in Streams, streamEx[c].conn = k
                   PROVE  streams[k].open
        BY ZenonT(60) DEF Unheld
    <2>2. Content(streamEx[c], streams[k])
        BY <2>1, StreamsAssumption, ZenonT(60) DEF DNSInv, StreamInv, Contents
    <2> QED
        BY <2>2, ZenonT(60) DEF Content, Clean
<1>5. \A k \in Streams : Stream!InPool(k) => streams[k].open
    BY ZenonT(60) DEF DNSInv, StreamInv, PoolReady, Stream!InPool, Clean
<1>6. Stream!NoConnectionLost
    BY <1>3, <1>4, <1>5, ZenonT(60) DEF Stream!NoConnectionLost, DNSInv, StreamInv, Kept
<1>7. Stream!PoolIsClean
    BY <1>3, ZenonT(60) DEF Stream!PoolIsClean, DNSInv, StreamInv, PoolReady, Clean
<1> QED
    BY <1>1, <1>6, <1>7, ZenonT(60) DEF NothingStranded

\* Whichever step of an exchange fails and whenever Close comes, a callback
\* belongs to an exchange that will delete it, UDP has one open socket at most, an
\* open stream is held or in the pool, and what the pool offers is ready for use:
\* the deferred delete and open of udp.go, Exchange and Close of tls.go.
THEOREM ResourcesReleased == DNSSpec => []NothingStranded
<1>1. DNSInit => DNSInv
    BY UDPStart, StreamStart, ZenonT(60) DEF DNSInit, DNSInv, AnswerInv
<1>2. DNSInv /\ [DNSNext]_<<vars, streamVars>> => DNSInv'
    BY UDPStep, StreamStep, ZenonT(60) DEF DNSInv, UDPInv, Types
<1>3. DNSInv => NothingStranded
    BY Released, ZenonT(60)
<1> QED
    BY <1>1, <1>2, <1>3, PTL DEF DNSSpec

\* While there are more query ids than exchanges, no exchange returns the answer
\* to the query of another, over UDP however late and often answers come and
\* however connections are replaced, over TLS and TCP although ids are not compared.
THEOREM OwnAnswers == ASSUME MaxCalls < IdSpace PROVE DNSSpec => []AnswersAreOwn
<1> DEFINE I == AnswerInv /\ StreamInv
<1>1. DNSInit => I
    BY UDPStart, StreamStart, ZenonT(60) DEF DNSInit
<1>2. I /\ [DNSNext]_<<vars, streamVars>> => I'
    BY AnswerInvStep, StreamStep, ZenonT(60) DEF AnswerInv, UDPInv, Types
<1>3. I => AnswersAreOwn
    BY ZenonT(60) DEF AnswersAreOwn, AnswerInv, StreamInv, Phases, Phase, Stream!AnswerIsOwn
<1> QED
    BY <1>1, <1>2, <1>3, PTL DEF DNSSpec

\* A step that ends an exchange over a stream without an answer ends one that has
\* dialled its connection: Exchange of tls.go dials once the pooled one fails.
LEMMA FailsFreshStep ==
    ASSUME StreamInv, [DNSNext]_<<vars, streamVars>> PROVE [Stream!FailsFresh]_streamEx
<1>1. SUFFICES ASSUME NEW c \in Callers, streamEx' # streamEx, streamEx'[c].pc = "idle",
                      streamEx[c].answer = None, streamEx[c].pooled
               PROVE  FALSE
    <2>1. \A c \in Callers : streamEx[c].pooled \in BOOLEAN
        BY ZenonT(60) DEF StreamInv, StreamTypes, StreamExRec
    <2> QED
        BY <2>1, ZenonT(60) DEF Stream!FailsFresh
<1> DEFINE x == streamEx[c]
<1>2. x.pc \in {"write", "read"} /\ x.conn # None /\ x \in StreamExRec /\ streamEx \in [Callers -> StreamExRec]
    <2>1. Phase(x) /\ x \in StreamExRec
        BY StreamFacts, ZenonT(60) DEF StreamInv, Phases
    <2>2. x.query \in 1 .. MaxCalls => x.query # None
        BY ConstantsAssumption
    <2>3. x.pc \in {"write", "read"} /\ x.conn # None
        BY <1>1, <2>1, <2>2, ZenonT(60) DEF Phase
    <2> QED
        BY <2>1, <2>3, ZenonT(60) DEF StreamInv, StreamTypes
<1>3. PICK d \in Callers : Stream!Begin(d) \/ Stream!Step(d)
    BY <1>1, ZenonT(60) DEF DNSNext, Stream!Next, Stream!Answer, Stream!Cut, Stream!Close, streamVars
<1>4. \E e : streamEx' = [streamEx EXCEPT ![d] = e]
    <2>1. CASE Stream!Begin(d)
        BY <1>2, <2>1, ZenonT(60) DEF Stream!Begin
    <2>2. CASE Stream!Pop(d)
        BY <1>2, <2>2, ZenonT(60) DEF Stream!Pop
    <2>3. CASE Stream!Dial(d)
        BY <1>2, <2>3, ZenonT(60) DEF Stream!Dial
    <2>4. CASE Stream!DialFails(d) \/ Stream!Return(d)
        BY <1>2, <2>4, ZenonT(60) DEF Stream!DialFails, Stream!Return
    <2>5. CASE Stream!Handshake(d)
        BY <1>2, <2>5, ZenonT(60) DEF Stream!Handshake
    <2>6. CASE Stream!WriteMessage(d)
        BY <1>2, <2>6, ZenonT(60) DEF Stream!WriteMessage
    <2>7. CASE Stream!ReadMessage(d)
        BY <1>2, <2>7, ZenonT(60) DEF Stream!ReadMessage
    <2>8. CASE Stream!WriteFails(d) \/ Stream!ReadFails(d)
        BY <1>2, <2>8, ZenonT(60) DEF Stream!WriteFails, Stream!ReadFails, Stream!Fails
    <2> QED
        BY <1>3, <2>1, <2>2, <2>3, <2>4, <2>5, <2>6, <2>7, <2>8, ZenonT(60) DEF Stream!Step
<1>5. d = c
    BY <1>1, <1>2, <1>4, ZenonT(60)
<1>6. Stream!WriteMessage(c) \/ Stream!WriteFails(c) \/ Stream!ReadMessage(c) \/ Stream!ReadFails(c)
    BY <1>2, <1>3, <1>5, ZenonT(60)
    DEF Stream!Begin, Stream!Step, Stream!Pop, Stream!Dial, Stream!DialFails,
        Stream!Handshake, Stream!Return
<1>7. CASE Stream!WriteMessage(c)
    BY <1>1, <1>2, <1>7, ZenonT(60) DEF Stream!WriteMessage, StreamExRec
<1>8. CASE Stream!ReadMessage(c)
    BY <1>1, <1>2, <1>8, ZenonT(60) DEF Stream!ReadMessage, StreamExRec
<1>9. CASE Stream!WriteFails(c) \/ Stream!ReadFails(c)
    <2> DEFINE e == [x EXCEPT !.pc = "dial", !.conn = None, !.pooled = FALSE]
    <2>1. streamEx' = [streamEx EXCEPT ![c] = e]
        BY <1>1, <1>2, <1>9, ZenonT(60) DEF Stream!WriteFails, Stream!ReadFails, Stream!Fails
    <2>2. e.pc = "dial"
        BY <1>2, ZenonT(60) DEF StreamExRec
    <2> HIDE DEF e
    <2> QED
        BY <1>1, <1>2, <2>1, <2>2, ZenonT(60)
<1> QED
    BY <1>6, <1>7, <1>8, <1>9, ZenonT(60)

\* A stale connection from the pool never fails an exchange over TLS: an exchange
\* that ends without an answer had dialled the connection it failed on.
THEOREM FailsFreshOnly == DNSSpec => FailsOnlyWhenFresh
<1>1. DNSInit => DNSInv
    BY UDPStart, StreamStart, SMTT(30) DEF DNSInit, DNSInv, AnswerInv
<1>2. DNSInv /\ [DNSNext]_<<vars, streamVars>> => DNSInv'
    BY UDPStep, StreamStep DEF DNSInv, UDPInv, Types
<1>3. DNSInv /\ [DNSNext]_<<vars, streamVars>> => [Stream!FailsFresh]_streamEx
    BY FailsFreshStep, ZenonT(60) DEF DNSInv
<1> QED
    BY <1>1, <1>2, <1>3, PTL DEF DNSSpec, FailsOnlyWhenFresh
=============================================================================
