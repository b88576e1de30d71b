--------------------------- MODULE MCCoreLifecycle ---------------------------
(* Instances of CoreLifecycle.  Three instances and three servers are enough *)
(* for a value that is being replaced, one that has been left behind and one *)
(* that an overlapping call allocates.                                       *)
EXTENDS CoreLifecycle

May(faults, commands, overlap, listenTCP) ==
    [faults |-> faults, commands |-> commands, overlap |-> overlap, listenTCP |-> listenTCP]

StartFaults == FaultKinds \ {"closeBox", "closeServer"}
ClashFaults == FaultKinds \ {"noClashAPI"}

\* One call at a time, with every combination of faults a property allows.
OneAtATime ==
    {May(faults, FALSE, FALSE, tcp) :
        faults \in {FaultKinds, StartFaults, ClashFaults}, tcp \in BOOLEAN}

\* Commands between calls, and commands that overlap a call.
WithCommands == {May(FaultKinds, TRUE, FALSE, TRUE), May(FaultKinds, TRUE, TRUE, FALSE)}

MCScenarios == OneAtATime \cup WithCommands

Faultless == {May({}, TRUE, FALSE, FALSE)}
==============================================================================
