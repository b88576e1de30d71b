---------------------------- MODULE NetworkManager ---------------------------
(***************************************************************************)
(* Changes of the default network interface, composed with the connections *)
(* they reset, where the platform reports the interfaces:                  *)
(* core/route/network.go, core/experimental/libbox/monitor.go and the      *)
(* choice of an interface for a dial in core/common/dialer.                *)
(*                                                                         *)
(* The platform reports changes one after the other; the update of the     *)
(* default interface, the callback and the reset are steps between which   *)
(* connections go on.  The list of the interfaces that are up is read anew *)
(* with every report, by other components too, and may lag behind the      *)
(* default interface: whoever reads it may find any of them in it.         *)
(* Without a platform interface there is no such list, and                 *)
(* AutoDetectInterfaceFunc binds a socket by its address or to the default *)
(* interface; that variant is left out.                                    *)
(***************************************************************************)
EXTENDS ConnectionManager

CONSTANTS Interfaces,
          None,        \* no default interface, no restriction to types
          Options,     \* what dialers are configured with
          MaxUpdates   \* bound: reports of the platform and other resets

ASSUME NoneIsNoInterface == None \notin Interfaces

\* network_strategy, network_type and fallback_network_type; a list of types is
\* the set of the interfaces that have one of them.
Option == [strategy : {"default", "hybrid", "fallback"},
           interfaceType : {None} \cup SUBSET Interfaces,
           fallbackInterfaceType : {None} \cup SUBSET Interfaces]

ASSUME OptionsAssumption == \A option \in Options : option \in Option

VARIABLES defaultInterface,   \* platformDefaultInterfaceMonitor.defaultInterface
          update,             \* the next step of updateDefaultInterface
          networkPaused,      \* the pause manager's state
          updates,            \* number of reports and resets
          bound,              \* the interface that each dial of the default strategy without
                              \* types has chosen; others promise nothing
          notified,           \* history: the callback has run
          missed,             \* history: the last change was not followed by a reset
          crossing            \* history: sockets being connected during the last reset

networkVars == <<defaultInterface, update, networkPaused, updates, bound, notified,
                 missed, crossing>>
vars == <<connVars, networkVars>>

\* The monitor's first report is still to come.
Init ==
    /\ ConnInit
    /\ defaultInterface = None /\ update = "idle"
    /\ networkPaused = FALSE /\ updates = 0
    /\ bound = [c \in Connections |-> None]
    /\ notified = FALSE /\ missed = FALSE /\ crossing = {}
------------------------------------------------------------------------------
\* selectInterfaces takes from the list the interfaces of the types that are asked
\* for, or the default one, or all of them if there is none or if the strategy is
\* hybrid.
Primary(option, list) ==
    IF option.interfaceType # None THEN list \cap option.interfaceType
    ELSE IF option.strategy = "hybrid" \/ defaultInterface = None THEN list
    ELSE list \cap {defaultInterface}

\* The fallback strategy tries others as well.
Fallback(option, list) ==
    IF option.strategy # "fallback" THEN {}
    ELSE IF option.fallbackInterfaceType = None THEN list \ Primary(option, list)
    ELSE list \cap option.fallbackInterfaceType

Selected(option, list) == Primary(option, list) \cup Fallback(option, list)

IsPlain(option) == option.strategy = "default" /\ option.interfaceType = None

\* The selected interfaces are dialed in parallel or one after the other, and the
\* first that succeeds is used; any of them may be it.  A socket is bound to its
\* interface, but for the default one, which is left to the platform.
SelectInterface(c) ==
    /\ Advance(c, "dialing", "connecting")
    /\ \E option \in Options, list \in SUBSET Interfaces : \E i \in Selected(option, list) :
           bound' = [bound EXCEPT ![c] = IF IsPlain(option) THEN i ELSE None]
    /\ UNCHANGED <<defaultInterface, update, networkPaused, updates, notified, missed,
                   crossing>>

\* No interface is selected, and the dial fails.
NoInterface(c) ==
    /\ stage[c] = "dialing"
    /\ \E option \in Options, list \in SUBSET Interfaces : Selected(option, list) = {}
    /\ Drop(c, 1)
    /\ UNCHANGED <<network, duplex, copier, done, connections, accepting, closed, cut, left,
                   hijacked, legacy, untracked>>
    /\ UNCHANGED networkVars

\* A dialer without a strategy, or whose bind was not permitted, leaves the choice
\* to the system.
DialUnbound(c) ==
    /\ \/ Advance(c, "dialing", "connecting")
       \/ Advance(c, "connecting", "connecting")
    /\ bound' = [bound EXCEPT ![c] = None]
    /\ UNCHANGED <<defaultInterface, update, networkPaused, updates, notified, missed,
                   crossing>>
------------------------------------------------------------------------------
\* UpdateDefaultInterface: the list is read, with an error that is only logged, and
\* then, under the lock, the default interface is set.  The finder may not know
\* the reported one, whose report is then dropped; one that changes nothing has
\* no callback.
UpdateDefaultInterface ==
    /\ update = "idle" /\ updates < MaxUpdates
    /\ updates' = updates + 1
    /\ \E reported \in Interfaces \cup {None} :
           \/ reported # None /\ UNCHANGED <<defaultInterface, update>>
           \/ /\ reported = None \/ reported # defaultInterface
              /\ defaultInterface' = reported
              /\ update' = "notify"
    /\ UNCHANGED <<connVars, networkPaused, bound, notified, missed, crossing>>

\* NetworkPause or NetworkWake.
Wake == networkPaused' = (defaultInterface = None)

\* notifyInterfaceUpdate: nothing more happens without an interface, nor for one
\* that the list does not have ("race") or before PostStart, either of which may
\* be the case at any report.
notifyInterfaceUpdate ==
    /\ update = "notify"
    /\ Wake
    /\ \/ defaultInterface # None /\ update' = "reset"
       \/ update' = "idle"
    /\ notified' = TRUE
    /\ missed' = (missed \/ defaultInterface # None)
    /\ UNCHANGED <<connVars, defaultInterface, updates, bound, crossing>>

\* Mutant: the sockets are left alone.
ResetNetworkNothing ==
    /\ crossing' = {c \in Connections : stage[c] = "connecting"}
    /\ missed' = FALSE
    /\ UNCHANGED connVars

\* ResetNetwork: conntrack.Close, and the call of InterfaceUpdated on the
\* outbounds, which drop their own pooled connections.
ResetNetwork ==
    /\ CloseTracked
    /\ crossing' = {c \in Connections : stage[c] = "connecting"}
    /\ missed' = FALSE
    /\ UNCHANGED <<stage, network, duplex, copier, done, onClose, connections, accepting,
                   closed, left, hijacked, legacy, untracked>>

ResetAfterUpdate ==
    /\ update = "reset" /\ update' = "idle"
    /\ ResetNetwork
    /\ UNCHANGED <<defaultInterface, networkPaused, updates, bound, notified>>

\* The host asks for a reset, or the system suspends or resumes.
ResetOnRequest ==
    /\ updates < MaxUpdates /\ updates' = updates + 1
    /\ ResetNetwork
    /\ UNCHANGED <<defaultInterface, update, networkPaused, bound, notified>>

Next ==
    \/ ConnNext /\ UNCHANGED networkVars
    \/ \E c \in Connections :
           SelectInterface(c) \/ NoInterface(c) \/ DialUnbound(c)
    \/ UpdateDefaultInterface
    \/ notifyInterfaceUpdate
    \/ ResetAfterUpdate
    \/ ResetOnRequest

\* The scheduler runs every goroutine that can go on.
Fairness == \A c \in Connections, e \in Ends : WF_vars(Proceed(c, e) /\ UNCHANGED networkVars)

Spec == Init /\ [][Next]_vars /\ Fairness
------------------------------------------------------------------------------
\* Type correctness of the connections and of the interfaces.
TypeOK ==
    /\ ConnTypeOK
    /\ defaultInterface \in Interfaces \cup {None}
    /\ update \in {"idle", "notify", "reset"}
    /\ networkPaused \in BOOLEAN /\ notified \in BOOLEAN
    /\ bound \in [Connections -> Interfaces \cup {None}]

\* Between two reports, once the callback has run, the network is paused exactly
\* when there is no default interface, whatever reports were dropped and also
\* when notifyInterfaceUpdate returned early; before that it is not paused.
PauseMatchesInterface ==
    update = "idle" => (networkPaused <=> notified /\ defaultInterface = None)

\* Between two reports, a socket that was dialed by the default strategy without
\* network types uses the default interface, unless notifyInterfaceUpdate returned
\* before the reset or the socket was being connected during it.
ConnectionsUseDefault ==
    \A c \in Connections :
        /\ bound[c] # None
        /\ update = "idle" /\ defaultInterface # None /\ ~missed
        /\ "remote" \in open[c] /\ c \notin crossing
        => bound[c] = defaultInterface
==============================================================================
