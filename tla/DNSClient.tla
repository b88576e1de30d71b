------------------------------ MODULE DNSClient ------------------------------
(***************************************************************************)
(* The DNS client, core/dns/client.go: a response cache, a lock per        *)
(* question that lets one exchange ask and the others wait for what it     *)
(* caches, and the cache of rejected responses (RDRC).                     *)
(*                                                                         *)
(* A goroutine is a stack of exchanges: to dial its server, a transport    *)
(* may have to look up a name first, through the client and on the same    *)
(* goroutine.  A response is one of Answers, "empty" (no answer, or        *)
(* NXDOMAIN) or "failure" (any other code).  The address filter of the     *)
(* rule that asks is the set of the answers that it admits.                *)
(***************************************************************************)
EXTENDS Integers, Sequences

CONSTANTS Goroutines,
          Questions,
          Transports,
          Untimed,      \* those that may read without a deadline: TCP, TLS, and UDP
                        \* once an answer was truncated
          Answers,
          Bare,         \* the answers without an address, a CNAME alone
          Requests,     \* what callers ask
          Resolver,     \* the request that dialling each transport needs, or None
          Independent,  \* independent_cache
          MaxDepth,     \* bound on nested exchanges
          MaxCalls,     \* bound on the calls from outside
          None

\* The rule that asks may have an address filter.  The strategy may exclude the
\* type of the question.  Options or the form of the message may keep Exchange
\* from the caches, and then Lookup looks into the cache only if it is not
\* disabled ("look"): a client subnet does not disable it.
Request == [transport : Transports, question : Questions,
            filter : {None} \cup SUBSET Answers,
            excluded : BOOLEAN,
            caching : {"full", "look", "none"}]

Responses == Answers \cup {"empty", "failure"}

ASSUME ConstantsAssumption ==
    /\ Untimed \subseteq Transports /\ Bare \subseteq Answers
    /\ {"empty", "failure", "fixed", "rejected", "rejectedCached", "loopback", "error"}
          \cap Answers = {}
    /\ \A filter \in SUBSET Answers : filter # None
    /\ Requests \subseteq Request
    /\ Resolver \in [Transports -> Request \cup {None}]
    /\ Independent \in BOOLEAN
    /\ MaxDepth \in Nat \ {0}
    /\ MaxCalls \in Nat
    /\ None \notin Request \cup Responses \cup (Goroutines \X (1 .. MaxDepth))

VARIABLES cache,      \* the response stored under each key
          cacheLock,  \* the exchange that stored each question's channel
          rdrc,       \* rejected responses
          stack,      \* each goroutine's exchanges, the innermost last
          calls

vars == <<cache, cacheLock, rdrc, stack, calls>>

\* The shared cache is keyed by the question, the independent one also by the
\* transport.
Key(t, q) == <<IF Independent THEN t ELSE None, q>>

Keys == {Key(t, q) : t \in Transports, q \in Questions}

\* An exchange: what it asks, where it is, the exchange whose channel it waits
\* on, what it will return.
Frame == [request : Request,
          pc : {"peek", "lock", "wait", "load", "query", "exchange", "dialing",
                "send", "unlock", "signal", "return"},
          waits : (Goroutines \X (1 .. MaxDepth)) \cup {None},
          result : Responses \cup
                   {"fixed", "rejected", "rejectedCached", "loopback", "error", None}]

\* The start of Exchange: an excluded question gets a fixed response; without the
\* caches the query is next.
Entered(frame) ==
    IF frame.request.excluded THEN [frame EXCEPT !.pc = "return", !.result = "fixed"]
    ELSE [frame EXCEPT !.pc = IF frame.request.caching = "full" THEN "lock" ELSE "query"]

NewFrame(request) == [request |-> request, pc |-> "peek", waits |-> None, result |-> None]

Exchanging(request) == Entered(NewFrame(request))

\* Lookup looks into the cache before the exchange.
LookingUp(request) ==
    IF request.caching = "none" THEN Exchanging(request) ELSE NewFrame(request)

Init ==
    /\ cache = [k \in Keys |-> None]
    /\ cacheLock = [q \in Questions |-> None]
    /\ rdrc = {}
    /\ stack = [g \in Goroutines |-> << >>]
    /\ calls = 0

Busy(g) == stack[g] # << >>

Me(g) == <<g, Len(stack[g])>>

Top(g) == stack[g][Len(stack[g])]

At(g, pc) == Busy(g) /\ Top(g).pc = pc

Set(g, frame) == stack' = [stack EXCEPT ![g][Len(stack[g])] = frame]

Goto(g, pc) == Set(g, [Top(g) EXCEPT !.pc = pc])

\* As Deferred, without the deferred function.
DeferredNothing(e, frame) == "return"

\* Where exchange e goes when it returns: the one that stored the channel has a
\* deferred function to run first.
Deferred(e, frame) == IF cacheLock[frame.request.question] = e THEN "unlock" ELSE "return"

Finish(g, result) ==
    Set(g, [Top(g) EXCEPT !.result = result, !.pc = Deferred(Me(g), Top(g))])

Question(g) == Top(g).request.question

TopKey(g) == Key(Top(g).request.transport, Question(g))
-----------------------------------------------------------------------------
(* The steps of an exchange.                                               *)

Call(g) ==
    /\ ~Busy(g) /\ calls < MaxCalls
    /\ calls' = calls + 1
    /\ \E request \in Requests : \E frame \in {Exchanging(request), LookingUp(request)} :
          stack' = [stack EXCEPT ![g] = <<frame>>]
    /\ UNCHANGED <<cache, cacheLock, rdrc>>

\* lookupToExchange
Peek(g) ==
    /\ At(g, "peek")
    /\ IF cache[TopKey(g)] # None
       THEN Finish(g, cache[TopKey(g)])
       ELSE Set(g, Entered(Top(g)))
    /\ UNCHANGED <<cache, cacheLock, rdrc, calls>>

\* LoadOrStore of the question's channel.
Lock(g) ==
    /\ At(g, "lock")
    /\ IF cacheLock[Question(g)] = None
       THEN /\ cacheLock' = [cacheLock EXCEPT ![Question(g)] = Me(g)]
            /\ Goto(g, "load")
       ELSE /\ Set(g, [Top(g) EXCEPT !.pc = "wait", !.waits = cacheLock[Question(g)]])
            /\ UNCHANGED cacheLock
    /\ UNCHANGED <<cache, rdrc, calls>>

\* loadResponse; an exchange that waited and finds nothing asks by itself.
Load(g) ==
    /\ At(g, "load")
    /\ IF cache[TopKey(g)] # None
       THEN Finish(g, cache[TopKey(g)])
       ELSE Goto(g, "query")
    /\ UNCHANGED <<cache, cacheLock, rdrc, calls>>

\* The context holds the transport of the enclosing exchange, if there is one.
Loopback(g) ==
    /\ Len(stack[g]) > 1
    /\ stack[g][Len(stack[g]) - 1].request.transport = Top(g).request.transport

\* The entry is in memory until it is in the cache file.
LoadRDRC(r) == <<r.transport, r.question>> \in rdrc

SaveRDRCAsync(r) == rdrc' = rdrc \cup {<<r.transport, r.question>>}

\* The loopback check, then the cache of rejected responses.
Query(g) ==
    LET r == Top(g).request IN
    /\ At(g, "query")
    /\ IF Loopback(g) THEN Finish(g, "loopback")
       ELSE IF r.caching = "full" /\ r.filter # None /\ LoadRDRC(r)
            THEN Finish(g, "rejectedCached")
       ELSE Goto(g, "exchange")
    /\ UNCHANGED <<cache, cacheLock, rdrc, calls>>

\* transport.Exchange has to dial, and to look up its server for that.
Dial(g) ==
    LET t == Top(g).request.transport IN
    /\ At(g, "exchange") /\ Resolver[t] # None /\ Len(stack[g]) < MaxDepth
    /\ stack' = [stack EXCEPT ![g] =
           Append([@ EXCEPT ![Len(@)].pc = "dialing"], LookingUp(Resolver[t]))]
    /\ UNCHANGED <<cache, cacheLock, rdrc, calls>>

\* transport.Exchange fails, the timeout included.
ExchangeFailed(g) ==
    /\ At(g, "exchange") \/ At(g, "send")
    /\ Finish(g, "error")
    /\ UNCHANGED <<cache, cacheLock, rdrc, calls>>

\* As Rejected, with a response without an answer accepted.
RejectedAnswer(request, response) ==
    request.filter # None /\ response \in Answers \ request.filter

\* A response without an answer is rejected at once, any other is given to the
\* response checker.
Rejected(request, response) == request.filter # None /\ response \notin request.filter

\* A response with a zero time to live is not stored.
StoreCache(g, response) ==
    \/ cache' = [cache EXCEPT ![TopKey(g)] = response]
    \/ UNCHANGED cache

\* transport.Exchange returns a response.
Exchanged(g) ==
    LET r == Top(g).request IN
    /\ At(g, "exchange") \/ At(g, "send")
    /\ \E response \in Responses :
          IF Rejected(r, response)
          THEN /\ IF r.caching = "full" /\ response # "failure" THEN SaveRDRCAsync(r)
                  ELSE UNCHANGED rdrc
               /\ Finish(g, "rejected")
               /\ UNCHANGED cache
          ELSE /\ IF r.caching = "full" /\ response # "failure" THEN StoreCache(g, response)
                  ELSE UNCHANGED cache
               /\ Finish(g, response)
               /\ UNCHANGED rdrc
    /\ UNCHANGED <<cacheLock, calls>>

\* The deferred function deletes the channel from the map, then closes it.
Unlock(g) ==
    /\ At(g, "unlock")
    /\ cacheLock' = [cacheLock EXCEPT ![Question(g)] = None]
    /\ Goto(g, "signal")
    /\ UNCHANGED <<cache, rdrc, calls>>

\* The frame of goroutine h at depth i once the channel of exchange e is closed.
Woken(h, i, e) ==
    IF stack[h][i].waits = e
    THEN [stack[h][i] EXCEPT !.pc = "load", !.waits = None]
    ELSE stack[h][i]

Signal(g) ==
    /\ At(g, "signal")
    /\ stack' = [h \in Goroutines |->
           [i \in DOMAIN stack[h] |->
               IF <<h, i>> = Me(g) THEN [Top(g) EXCEPT !.pc = "return"]
               ELSE Woken(h, i, Me(g))]]
    /\ UNCHANGED <<cache, cacheLock, rdrc, calls>>

\* Back in the caller: the transport that needed the lookup goes on with its
\* exchange if it has got an address, or fails.
Return(g) ==
    LET n == Len(stack[g])
        outer == stack[g][n - 1]
        sending == [outer EXCEPT !.pc = "send"]
        failed == [outer EXCEPT !.result = "error", !.pc = Deferred(<<g, n - 1>>, outer)]
    IN
    /\ At(g, "return")
    /\ stack' = [stack EXCEPT ![g] =
           IF n = 1 THEN << >>
           ELSE Append(SubSeq(@, 1, n - 2),
                       IF Top(g).result \in Answers \ Bare THEN sending ELSE failed)]
    /\ UNCHANGED <<cache, cacheLock, rdrc, calls>>
-----------------------------------------------------------------------------
(* The lifetime of a stored response ends, or ClearCache purges them all.  *)
Expire ==
    \E k \in Keys :
       /\ cache[k] # None
       /\ cache' = [cache EXCEPT ![k] = None]
       /\ UNCHANGED <<cacheLock, rdrc, stack, calls>>

\* A rejection expires, or the write to the cache file failed.
ExpireRDRC ==
    \E rejection \in rdrc :
       /\ rdrc' = rdrc \ {rejection}
       /\ UNCHANGED <<cache, cacheLock, stack, calls>>

ClearCache ==
    /\ cache' = [k \in Keys |-> None]
    /\ UNCHANGED <<cacheLock, rdrc, stack, calls>>

Step(g) ==
    \/ Peek(g) \/ Lock(g) \/ Load(g) \/ Query(g)
    \/ Dial(g) \/ ExchangeFailed(g) \/ Exchanged(g)
    \/ Unlock(g) \/ Signal(g) \/ Return(g)

Next ==
    \/ \E g \in Goroutines : Call(g) \/ Step(g)
    \/ Expire
    \/ ExpireRDRC
    \/ ClearCache

Spec == Init /\ [][Next]_vars

\* The innermost exchange of g is with a server that may stay silent for ever.
Silent(g) == (At(g, "exchange") \/ At(g, "send")) /\ Top(g).request.transport \in Untimed

\* An exchange goes on; other transports honour the timeout of their context.
Progress(g) == ~Silent(g) /\ Step(g)

FairSpec == Spec /\ \A g \in Goroutines : WF_vars(Progress(g))
-----------------------------------------------------------------------------
\* No exchange waits in vain: the channel it waits on belongs to an exchange of
\* the same question that is still on its goroutine's stack and has its
\* deferred close before it, on every return of Exchange.
WaitsForHolder ==
    \A g \in Goroutines : \A i \in DOMAIN stack[g] :
        stack[g][i].pc = "wait" =>
            LET holder == stack[g][i].waits[1]
                depth == stack[g][i].waits[2]
                q == stack[g][i].request.question
            IN /\ depth \in DOMAIN stack[holder]
               /\ stack[holder][depth].request.question = q
               /\ \/ cacheLock[q] = stack[g][i].waits
                  \/ stack[holder][depth].pc = "signal"

AllRequests == Requests \cup {Resolver[t] : t \in {u \in Transports : Resolver[u] # None}}

\* An exchange of request r may get from the cache what one of s has stored.
Shares(r, s) ==
    /\ r.caching # "none" /\ s.caching = "full" /\ ~s.excluded
    /\ Key(r.transport, r.question) = Key(s.transport, s.question)

\* A filter admits some answers, and nothing that is no answer.
FilterAdmits(r, response) == r.filter = None \/ response \in r.filter

\* The filter of request r, or of one it shares the key with, admits the response.
PassedFilter(r, response) ==
    \/ FilterAdmits(r, response)
    \/ \E s \in AllRequests : Shares(r, s) /\ FilterAdmits(s, response)

\* What an exchange returns as a response has passed a filter: that of its own
\* rule or, from the cache or after waiting, that of a request with the same key.
\* The key has no place for the rule, so two rules with different filters get
\* each other's answers, and one without a filter opens the key to all.
FilterHolds ==
    \A g \in Goroutines : \A i \in DOMAIN stack[g] :
        stack[g][i].result \in Responses => PassedFilter(stack[g][i].request, stack[g][i].result)

\* Every exchange returns, unless a server stays silent to one whose transport
\* has no deadline, and to those that wait for its channel.
ExchangeReturns ==
    \A g \in Goroutines :
        \/ Busy(g) ~> ~Busy(g)
        \/ <>[]Silent(g)
        \/ <>[]At(g, "wait") /\ \E h \in Goroutines : <>[]Silent(h)
=============================================================================
