------------------------------- MODULE Selector -------------------------------
(***************************************************************************)
(* The selector outbound, core/protocol/group/selector.go, with the        *)
(* interrupt group of core/common/interrupt that closes the connections of *)
(* an outbound that is no longer selected, and the selection kept in the   *)
(* cache file (core/experimental/cachefile/cache.go).                      *)
(*                                                                         *)
(* SelectOutbound is called by the handlers of the control APIs; it swaps  *)
(* the selection, stores it and interrupts, each under a lock of its own   *)
(* or none.  A dial loads the selection, connects, and only then registers *)
(* its connection.                                                         *)
(***************************************************************************)
EXTENDS Group

CONSTANTS SelectorTags,       \* the selector's outbounds
          First,              \* the first of them
          Default,            \* options.Default, None when empty
          OtherTags,          \* outbounds that are not the selector's
          Callers,            \* handlers that call SelectOutbound
          InterruptExternal   \* interrupt_exist_connections

ASSUME SelectorAssumption ==
    /\ First \in SelectorTags
    /\ Default \in SelectorTags \cup {None}
    /\ SelectorTags \cap OtherTags = {}
    /\ None \notin SelectorTags \cup OtherTags
    /\ InterruptExternal \in BOOLEAN

VARIABLES selected,
          cached,   \* the cache file's entry for this selector
          pc, tag,  \* the calls of SelectOutbound
          conn,     \* each connection's state
          group,    \* the connections of the interrupt group's list
          owed,     \* the registered connections each SelectOutbound has to close
          orderly   \* history: since the start no two calls of SelectOutbound have
                    \* overlapped and no write has failed

selectorVars == <<selected, cached, pc, tag, conn, group, owed, orderly>>

ConnState == [state : {"dialing", "open", "closed"},
              outbound : SelectorTags,
              isExternal : BOOLEAN,
              grouped : BOOLEAN]  \* dialed through the selector

Closed == [state |-> "closed", outbound |-> First, isExternal |-> FALSE, grouped |-> TRUE]

\* Start: the stored selection when it is still one of the outbounds, then
\* the default, then the first.
StartSelection(stored) ==
    IF stored \in SelectorTags THEN stored ELSE IF Default # None THEN Default ELSE First

SelectorInit ==
    /\ cached \in {None} \cup SelectorTags \cup OtherTags
    /\ selected = StartSelection(cached)
    /\ pc = [t \in Callers |-> "idle"]
    /\ tag = [t \in Callers |-> First]
    /\ conn = [c \in Conns |-> Closed]
    /\ group = {}
    /\ owed = [t \in Callers |-> {}]
    /\ orderly = TRUE

\* The process ends and starts again with the same configuration.
Restart ==
    /\ selected' = StartSelection(cached)
    /\ pc' = [t \in Callers |-> "idle"]
    /\ tag' = [t \in Callers |-> First]
    /\ conn' = [c \in Conns |-> Closed]
    /\ group' = {}
    /\ owed' = [t \in Callers |-> {}]
    /\ orderly' = TRUE
    /\ UNCHANGED cached
-------------------------------------------------------------------------------
(* SelectOutbound.                                                         *)

Selecting == {t \in Callers : pc[t] # "idle"}

\* Whether Interrupt closes the connection.
Interruptible(c) == ~conn[c].isExternal \/ InterruptExternal

\* selected.Swap; a tag that is not one of the outbounds changes nothing.
Swap(t) ==
    /\ pc[t] = "idle"
    /\ \E new \in SelectorTags :
          /\ selected' = new
          /\ IF new = selected
             THEN UNCHANGED <<pc, tag, owed>>
             ELSE /\ pc' = [pc EXCEPT ![t] = "store"]
                  /\ tag' = [tag EXCEPT ![t] = new]
                  /\ owed' = [owed EXCEPT ![t] =
                        {c \in group : conn[c].state = "open" /\ Interruptible(c)}]
    /\ orderly' = (orderly /\ Selecting = {})
    /\ UNCHANGED <<cached, conn, group>>

\* Mutant: the selection is not stored.
StoreSelectedNever(t) ==
    /\ pc[t] = "store"
    /\ pc' = [pc EXCEPT ![t] = "interrupt"]
    /\ UNCHANGED <<selected, cached, tag, conn, group, owed, orderly>>

\* A failure to store is logged.
StoreSelected(t) ==
    /\ pc[t] = "store"
    /\ \/ cached' = tag[t] /\ UNCHANGED orderly
       \/ orderly' = FALSE /\ UNCHANGED cached
    /\ pc' = [pc EXCEPT ![t] = "interrupt"]
    /\ UNCHANGED <<selected, tag, conn, group, owed>>

\* Mutant: an element is removed inside the loop, which ends it.
InterruptFirst(t) ==
    /\ pc[t] = "interrupt"
    /\ \E c \in group :
          /\ conn' = [conn EXCEPT ![c].state = "closed"]
          /\ group' = group \ {c}
    /\ pc' = [pc EXCEPT ![t] = "idle"]
    /\ owed' = [owed EXCEPT ![t] = {}]
    /\ UNCHANGED <<selected, cached, tag, orderly>>

Interrupt(t) ==
    /\ pc[t] = "interrupt"
    /\ conn' = [c \in Conns |-> IF c \in group /\ Interruptible(c)
                                THEN [conn[c] EXCEPT !.state = "closed"] ELSE conn[c]]
    /\ group' = {c \in group : ~Interruptible(c)}
    /\ pc' = [pc EXCEPT ![t] = "idle"]
    /\ owed' = [owed EXCEPT ![t] = {}]
    /\ UNCHANGED <<selected, cached, tag, orderly>>
-------------------------------------------------------------------------------
(* Connections.                                                            *)

DialSelected(c, external, grouped) ==
    /\ conn[c].state = "closed"
    /\ conn' = [conn EXCEPT ![c] = [state |-> "dialing", outbound |-> selected,
                                    isExternal |-> external, grouped |-> grouped]]
    /\ owed' = [t \in Callers |-> owed[t] \ {c}]
    /\ UNCHANGED <<selected, cached, pc, tag, group, orderly>>

\* DialContext and ListenPacket: selected.Load, then the outbound's own dial.
\* The context is marked external when an outer group passes on an inbound
\* connection.
DialContext(c) == \E external \in BOOLEAN : DialSelected(c, external, TRUE)

\* NewConnectionEx hands an inbound connection to the connection manager, which
\* dials the selected outbound itself, not the selector.
NewConnectionEx(c) == DialSelected(c, TRUE, FALSE)

\* The dial returns; DialContext registers its connection.
NewConn(c) ==
    /\ conn[c].state = "dialing"
    /\ \/ /\ conn' = [conn EXCEPT ![c].state = "open"]
          /\ group' = IF conn[c].grouped THEN group \cup {c} ELSE group
       \/ /\ conn' = [conn EXCEPT ![c].state = "closed"]
          /\ UNCHANGED group
    /\ UNCHANGED <<selected, cached, pc, tag, owed, orderly>>

\* The connection's owner closes it.
ConnClose(c) ==
    /\ conn[c].state = "open"
    /\ conn' = [conn EXCEPT ![c].state = "closed"]
    /\ group' = group \ {c}
    /\ UNCHANGED <<selected, cached, pc, tag, owed, orderly>>

SelectorNext ==
    \/ \E t \in Callers : Swap(t) \/ StoreSelected(t) \/ Interrupt(t)
    \/ \E c \in Conns : DialContext(c) \/ NewConn(c) \/ NewConnectionEx(c) \/ ConnClose(c)
    \/ Restart

SelectorSpec == SelectorInit /\ [][SelectorNext]_selectorVars
-------------------------------------------------------------------------------
\* The selection is one of the outbounds, and the interrupt group's list holds
\* only open connections: none is closed behind its back and kept.
SelectorTypeOK ==
    /\ selected \in SelectorTags
    /\ cached \in {None} \cup SelectorTags \cup OtherTags
    /\ pc \in [Callers -> {"idle", "store", "interrupt"}]
    /\ tag \in [Callers -> SelectorTags]
    /\ conn \in [Conns -> ConnState]
    /\ group \subseteq {c \in Conns : conn[c].state = "open"}
    /\ owed \in [Callers -> SUBSET Conns]

\* When SelectOutbound returns, every connection that was registered when it
\* changed the selection, and that the configuration allows to be interrupted,
\* is closed, whatever dials, closes and selects meanwhile.
SelectInterrupts ==
    [][\A t \in Callers : pc[t] = "interrupt" /\ pc'[t] = "idle" /\ ~Restart =>
          \A c \in owed[t] : conn'[c].state # "open"]_selectorVars

\* Between calls that have not overlapped and whose writes succeed, a selection
\* that was made and stored is the current one, so the process comes back with
\* it after a restart.
CacheFollowsSelection ==
    orderly /\ Selecting = {} /\ cached \in SelectorTags => cached = selected

\* With interrupt_exist_connections, SelectOutbound leaves no inbound connection
\* open that was open, on an outbound no longer selected, when it interrupted.
InboundInterrupted ==
    [][\A t \in Callers : pc[t] = "interrupt" /\ pc'[t] = "idle" /\ ~Restart =>
          \A c \in Conns :
             conn[c].state = "open" /\ conn[c].isExternal /\ conn[c].outbound # selected
                => conn'[c].state # "open"]_selectorVars
===============================================================================
