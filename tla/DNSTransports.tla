---------------------------- MODULE DNSTransports ----------------------------
(***************************************************************************)
(* The remote DNS transports side by side: UDPTransport and                *)
(* StreamTransport, used by the same goroutines.  An exchange goes over    *)
(* one transport at a time; exchanges are numbered in one sequence, the    *)
(* only thing the transports share.                                        *)
(***************************************************************************)
EXTENDS UDPTransport, Sequences

CONSTANT Streams  \* names for the connections of the stream transports

ASSUME StreamsAssumption == None \notin Streams

VARIABLES connections, streams, streamEx

Stream == INSTANCE StreamTransport WITH Conns <- Streams, conns <- streams, ex <- streamEx

streamVars == <<connections, streams, streamEx>>
udpVars == <<conn, udpSize, conns, sent, ex>>

DNSInit == Init /\ Stream!Init

\* A caller is in an exchange of one transport at a time.
OneTransport == \A c \in Callers : ex[c].pc = "idle" \/ streamEx[c].pc = "idle"

DNSNext ==
    /\ \/ Next /\ UNCHANGED streamVars
       \/ Stream!Next /\ UNCHANGED udpVars
    /\ OneTransport'

\* An exchange goes on, and its context, which the client gives a timeout, ends
\* the wait of UDP, a dial and a handshake.  It ends no read of a stream, and so
\* nothing makes the retry of UDP over TCP end.
DNSSpec ==
    /\ DNSInit /\ [][DNSNext]_<<vars, streamVars>>
    /\ \A c \in Callers :
          /\ WF_<<vars, streamVars>>(ExchangeStep(c) /\ UNCHANGED streamVars)
          /\ WF_<<vars, streamVars>>(Stream!Step(c) /\ UNCHANGED udpVars)
-----------------------------------------------------------------------------
DNSTypeOK == TypeOK /\ Stream!TypeOK

\* No exchange returns the answer to the query of another: over UDP, where late
\* and repeated answers find the callbacks of others, while fewer queries than
\* ids are made on a connection; over TLS, where ids are not compared and the
\* connection is passed on.
AnswersAreOwn == AnswerIsOwn /\ Stream!AnswerIsOwn

\* What a transport allocates for an exchange is released whichever step fails
\* and whenever Close comes: a callback belongs to an exchange that will delete
\* it, UDP has no open socket but the one that new exchanges use, an open stream
\* is held by an exchange or is in the pool.  And what the pool of TLS offers can
\* be used at once: it is open, in the pool once, and no earlier query on it is
\* still to be answered.
NothingStranded ==
    NoStrandedCallback /\ OneOpenConnection /\ Stream!NoConnectionLost /\ Stream!PoolIsClean

\* A stale connection from the pool never fails an exchange over TLS: one that
\* ends without an answer has failed on a connection that it dialled.
FailsOnlyWhenFresh == [][Stream!FailsFresh]_streamEx

\* An exchange over UDP returns or turns to TCP, whatever is lost and whoever
\* closes the connection or the transport; one over a stream returns or waits
\* for a peer that neither answers nor ends the connection.
ExchangesReturn ==
    \A c \in Callers :
        ex[c].pc = "open" \/ streamEx[c].pc = "begin"
            ~> /\ ex[c].pc \in {"idle", "tcp"}
               /\ streamEx[c].pc = "idle" \/ Stream!Silent(c)
==============================================================================
