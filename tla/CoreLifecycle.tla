---------------------------- MODULE CoreLifecycle ----------------------------
(***************************************************************************)
(* Starting, stopping, restarting and reloading the core: v2/custom.go,    *)
(* v2/coreinfo.go and v2/old_command_server.go, over the BoxService and    *)
(* the CommandServer of core/experimental/libbox.                          *)
(*                                                                         *)
(* The status, the running service and the command server live in package  *)
(* variables that no lock protects.  Threads of the host application call  *)
(* Start, Stop and Restart; the command server's connection goroutines run *)
(* ServiceReload and close the service.  A call is cut into steps at the   *)
(* calls that can block: parsing, listening, creating, starting, closing.  *)
(* The statements between two of them are one step.                        *)
(***************************************************************************)
EXTENDS Integers, FiniteSets

CONSTANTS Callers,    \* application threads
          Handlers,   \* connection goroutines of the command server
          Instances,  \* names for BoxService values
          Servers,    \* names for CommandServer values
          Scenarios,  \* what may happen, see Scenario
          Nil

FaultKinds == {"parse", "listen", "create", "start", "noClashAPI", "closeBox", "closeServer"}

Scenario ==
    [faults : SUBSET FaultKinds,  \* the calls that may fail
     commands : BOOLEAN,          \* the command server receives commands
     overlap : BOOLEAN,           \* a call may begin while another one runs
     listenTCP : BOOLEAN]         \* the command server listens on a port (IsTVOS),
                                  \* not on a socket file

ASSUME ConstantsAssumption ==
    /\ Scenarios \subseteq Scenario
    /\ Nil \notin Instances \cup Servers
    /\ Callers \cap Handlers = {}

VARIABLES CoreState,
          Box,               \* the published instance
          oldCommandServer,  \* the published command server
          instance,          \* the state of each BoxService
          server,            \* the listener of each CommandServer
          service,           \* CommandServer.service
          pc, op,            \* each thread's position and call
          result,            \* its outcome, known before StopAndAlert runs
          local,             \* StartService's instance
          scenario           \* never changes

globals == <<CoreState, Box, oldCommandServer>>
objects == <<instance, server, service>>
vars == <<globals, objects, pc, op, result, local, scenario>>

Threads == Callers \cup Handlers

\* Values that no variable and no thread refers to any more stand for the
\* ones the next call allocates.
FreeInstances == {i \in Instances : /\ instance[i] = "closed"
                                    /\ i # Box
                                    /\ \A s \in Servers : service[s] # i
                                    /\ \A t \in Threads : local[t] # i}

FreeServers == {s \in Servers : server[s] # "listening" /\ s # oldCommandServer}

Init ==
    /\ CoreState = "STOPPED"
    /\ Box = Nil
    /\ oldCommandServer = Nil
    /\ instance = [i \in Instances |-> "closed"]
    /\ server = [s \in Servers |-> "closed"]
    /\ service = [s \in Servers |-> Nil]
    /\ pc = [t \in Threads |-> "idle"]
    /\ op = [t \in Threads |-> "none"]
    /\ result = [t \in Threads |-> "ok"]
    /\ local = [t \in Threads |-> Nil]
    /\ scenario \in Scenarios

NewProcess ==
    /\ CoreState' = "STOPPED"
    /\ Box' = Nil
    /\ oldCommandServer' = Nil
    /\ instance' = [i \in Instances |-> "closed"]
    /\ server' = [s \in Servers |-> "closed"]
    /\ service' = [s \in Servers |-> Nil]
    /\ pc' = [t \in Threads |-> "idle"]
    /\ op' = [t \in Threads |-> "none"]
    /\ result' = [t \in Threads |-> "ok"]
    /\ local' = [t \in Threads |-> Nil]
    /\ UNCHANGED scenario

Busy == {t \in Threads : pc[t] # "idle"}

MayBegin(t) == pc[t] = "idle" /\ (scenario.overlap \/ Busy = {})

\* The bound of the model: a call that allocates begins only while the names
\* suffice for every call under way.
NamesLeft ==
    /\ Cardinality(FreeInstances) > Cardinality(Busy)
    /\ Cardinality(FreeServers) > Cardinality(Busy)

At(t, label) == pc[t] = label

\* Every step moves a thread; none changes the scenario.
Goto(t, label) ==
    /\ pc' = [pc EXCEPT ![t] = label]
    /\ UNCHANGED scenario

Return(t, r) ==
    /\ Goto(t, "idle")
    /\ result' = [result EXCEPT ![t] = r]
    /\ local' = [local EXCEPT ![t] = Nil]

\* On to StopAndAlert, after which the call goes on with outcome r.
Alert(t, r) ==
    /\ Goto(t, "alert")
    /\ result' = [result EXCEPT ![t] = r]

Enter(t, name) == op' = [op EXCEPT ![t] = name]

\* SetService(nil) on the published server.
DetachService == service' = [s \in Servers |-> IF s = oldCommandServer THEN Nil ELSE service[s]]

\* BoxService.Close: box.Close closes every part and reports their errors; a
\* second Close does nothing.
ClosedInstances(i) == [instance EXCEPT ![i] = "closed"]

\* CommandServer.Close: closing one twice is an error.
ClosedServers(s) == [server EXCEPT ![s] = "closed"]
------------------------------------------------------------------------------
(* Start, Restart and Stop up to the first call that can block.            *)

Start(t) ==
    /\ MayBegin(t) /\ NamesLeft
    /\ Enter(t, "start")
    /\ \/ /\ CoreState # "STOPPED"
          /\ Goto(t, "stop")
          /\ UNCHANGED CoreState
       \/ /\ CoreState = "STOPPED"
          /\ CoreState' = "STARTING"
          /\ Goto(t, "parse")
    /\ UNCHANGED <<Box, oldCommandServer, objects, result, local>>

Restart(t) ==
    /\ MayBegin(t) /\ NamesLeft
    /\ Enter(t, "restart")
    /\ \/ /\ CoreState = "STARTED" /\ Box # Nil
          /\ Goto(t, "stop")
          /\ UNCHANGED <<result, local>>
       \/ /\ CoreState # "STARTED" \/ Box = Nil
          /\ Return(t, "error")
    /\ UNCHANGED <<globals, objects>>

StopCall(t) ==
    /\ MayBegin(t)
    /\ Enter(t, "stop")
    /\ Goto(t, "stop")
    /\ UNCHANGED <<globals, objects, result, local>>

Stop(t) ==
    /\ At(t, "stop")
    /\ \/ /\ CoreState # "STARTED" \/ Box = Nil
          /\ Goto(t, "stopFailed")
          /\ UNCHANGED <<CoreState, service>>
       \/ /\ CoreState = "STARTED" /\ Box # Nil
          /\ CoreState' = "STOPPING"
          /\ DetachService
          /\ Goto(t, "closeBox")
    /\ UNCHANGED <<Box, oldCommandServer, instance, server, op, result, local>>

\* Box.Close(): a Box that another thread has set to nil meanwhile is a panic,
\* which Stop recovers from by StopAndAlert.
CloseBox(t) ==
    /\ At(t, "closeBox")
    /\ \/ /\ Box = Nil
          /\ Alert(t, "stopped")
          /\ UNCHANGED instance
       \/ /\ Box # Nil
          /\ instance' = ClosedInstances(Box)
          /\ \/ instance[Box] # "closed" /\ Goto(t, "closeServer")
             \/ (instance[Box] = "closed" \/ "closeBox" \in scenario.faults) /\ Goto(t, "stopFailed")
          /\ UNCHANGED result
    /\ UNCHANGED <<globals, server, service, op, local>>

\* Mutant: the command server is forgotten, not closed.
CloseServerForgets(t) ==
    /\ At(t, "closeServer")
    /\ Box' = Nil
    /\ oldCommandServer' = Nil
    /\ CoreState' = "STOPPED"
    /\ Goto(t, "stopped")
    /\ UNCHANGED <<instance, server, service, op, result, local>>

CloseServer(t) ==
    /\ At(t, "closeServer")
    /\ Box' = Nil
    /\ \/ /\ oldCommandServer = Nil
          /\ CoreState' = "STOPPED"
          /\ Goto(t, "stopped")
          /\ UNCHANGED <<oldCommandServer, server>>
       \/ /\ oldCommandServer # Nil
          /\ server' = ClosedServers(oldCommandServer)
          /\ \/ /\ server[oldCommandServer] # "closed"
                /\ oldCommandServer' = Nil
                /\ CoreState' = "STOPPED"
                /\ Goto(t, "stopped")
             \/ /\ server[oldCommandServer] = "closed" \/ "closeServer" \in scenario.faults
                /\ Goto(t, "stopFailed")
                /\ UNCHANGED <<oldCommandServer, CoreState>>
    /\ UNCHANGED <<instance, service, op, result, local>>

\* Back from Stop.  Start goes on whatever Stop returned; Restart only when it
\* returned no error.
AfterStop(t) ==
    /\ At(t, "stopped") \/ At(t, "stopFailed")
    /\ LET failed == pc[t] = "stopFailed" IN
       \/ /\ op[t] = "stop" \/ (op[t] = "restart" /\ failed)
          /\ Return(t, IF failed THEN "error" ELSE "ok")
          /\ UNCHANGED CoreState
       \/ /\ op[t] = "start" \/ (op[t] = "restart" /\ ~failed)
          /\ CoreState' = "STARTING"
          /\ Goto(t, "parse")
          /\ UNCHANGED <<result, local>>
    /\ UNCHANGED <<Box, oldCommandServer, objects, op>>
------------------------------------------------------------------------------
(* StartService.  Each failure sets the status and calls StopAndAlert.     *)

\* Mutant: the error is logged and not returned.
FailSilently(t) ==
    /\ CoreState' = "STOPPED"
    /\ Alert(t, "ok")

Fail(t) ==
    /\ CoreState' = "STOPPED"
    /\ Alert(t, "error")

\* Mutant: a bare return on content that does not parse.
ParseReturns(t) ==
    /\ At(t, "parse")
    /\ \/ /\ op[t] # "reload"
          /\ Goto(t, "listen")
          /\ UNCHANGED <<result, local>>
       \/ /\ op[t] = "reload" \/ "parse" \in scenario.faults
          /\ Return(t, "error")
    /\ UNCHANGED <<globals, objects, op>>

\* readOptions(ConfigContent).  A reload's request has no content, and empty
\* content does not parse.
Parse(t) ==
    /\ At(t, "parse")
    /\ \/ /\ op[t] # "reload"
          /\ Goto(t, "listen")
          /\ UNCHANGED <<CoreState, result>>
       \/ /\ op[t] = "reload" \/ "parse" \in scenario.faults
          /\ Fail(t)
    /\ UNCHANGED <<Box, oldCommandServer, objects, op, local>>

\* startCommandServer publishes the new server before it listens.  A port is
\* taken while any server listens on it; a socket file is removed first.
PortTaken == scenario.listenTCP /\ \E s \in Servers : server[s] = "listening"

StartCommandServer(t) ==
    /\ At(t, "listen")
    /\ \E new \in FreeServers :
       /\ oldCommandServer' = new
       /\ service' = [service EXCEPT ![new] = Nil]
       /\ \/ /\ ~PortTaken
             /\ server' = [server EXCEPT ![new] = "listening"]
             /\ Goto(t, "create")
             /\ UNCHANGED <<CoreState, result>>
          \/ /\ PortTaken \/ "listen" \in scenario.faults
             /\ server' = [server EXCEPT ![new] = "unbound"]
             /\ Fail(t)
    /\ UNCHANGED <<Box, instance, op, local>>

NewService(t) ==
    /\ At(t, "create")
    /\ \/ \E new \in FreeInstances :
             /\ local' = [local EXCEPT ![t] = new]
             /\ instance' = [instance EXCEPT ![new] = "created"]
             /\ Goto(t, "start")
             /\ UNCHANGED <<CoreState, result>>
       \/ /\ "create" \in scenario.faults
          /\ Fail(t)
          /\ UNCHANGED <<local, instance>>
    /\ UNCHANGED <<Box, oldCommandServer, server, service, op>>

\* instance.Start(): a box that fails to start closes itself.
StartInstance(t) ==
    /\ At(t, "start")
    /\ \/ /\ instance' = [instance EXCEPT ![local[t]] = "running"]
          /\ Goto(t, "publish")
          /\ UNCHANGED <<CoreState, result>>
       \/ /\ "start" \in scenario.faults
          /\ instance' = ClosedInstances(local[t])
          /\ Fail(t)
    /\ UNCHANGED <<Box, oldCommandServer, server, service, op, local>>

\* SetService(Box) panics when the server is nil or the instance has no Clash
\* API; the recover of Start and Restart then returns no error.
Publish(t) ==
    /\ At(t, "publish")
    /\ Box' = local[t]
    /\ \/ /\ oldCommandServer # Nil
          /\ service' = [service EXCEPT ![oldCommandServer] = local[t]]
          /\ CoreState' = "STARTED"
          /\ Return(t, "ok")
       \/ /\ oldCommandServer = Nil \/ "noClashAPI" \in scenario.faults
          /\ Alert(t, "ok")
          /\ UNCHANGED <<CoreState, service, local>>
    /\ UNCHANGED <<oldCommandServer, instance, server, op>>
------------------------------------------------------------------------------
(* StopAndAlert, which ignores the errors of both closes.                  *)

\* Mutant: StopAndAlert leaves the instance running.
StopAndAlertKeeping(t) ==
    /\ At(t, "alert")
    /\ CoreState' = "STOPPED"
    /\ DetachService
    /\ Goto(t, "alertServer")
    /\ UNCHANGED <<Box, oldCommandServer, instance, server, op, result, local>>

StopAndAlert(t) ==
    /\ At(t, "alert")
    /\ CoreState' = "STOPPED"
    /\ DetachService
    /\ \/ /\ Box = Nil
          /\ Goto(t, "alertServer")
          /\ UNCHANGED instance
       \/ /\ Box # Nil
          /\ instance' = ClosedInstances(Box)
          /\ Goto(t, "alertBox")
    /\ UNCHANGED <<Box, oldCommandServer, server, op, result, local>>

AlertServer(t) ==
    /\ At(t, "alertBox") \/ At(t, "alertServer")
    /\ Box' = IF pc[t] = "alertBox" THEN Nil ELSE Box
    /\ server' = IF oldCommandServer = Nil THEN server ELSE ClosedServers(oldCommandServer)
    /\ \/ /\ result[t] = "stopped"
          /\ Goto(t, "stopped")
          /\ UNCHANGED <<result, local>>
       \/ /\ result[t] # "stopped"
          /\ Return(t, result[t])
    /\ UNCHANGED <<CoreState, oldCommandServer, instance, service, op>>
------------------------------------------------------------------------------
(* Commands.  A listening server accepts a connection and runs its command. *)

\* Mutant: the instance is forgotten, not closed.
ServiceReloadForgets(t) ==
    /\ MayBegin(t) /\ scenario.commands
    /\ \E s \in Servers : server[s] = "listening"
    /\ Enter(t, "reload")
    /\ CoreState' = "STARTING"
    /\ DetachService
    /\ oldCommandServer' = Nil
    /\ Goto(t, "reloadBox")
    /\ UNCHANGED <<Box, instance, server, result, local>>

\* ServiceReload drops the command server without closing it.
ServiceReload(t) ==
    /\ MayBegin(t) /\ scenario.commands
    /\ \E s \in Servers : server[s] = "listening"
    /\ Enter(t, "reload")
    /\ CoreState' = "STARTING"
    /\ DetachService
    /\ oldCommandServer' = Nil
    /\ \/ /\ Box = Nil
          /\ Goto(t, "parse")
          /\ UNCHANGED instance
       \/ /\ Box # Nil
          /\ instance' = ClosedInstances(Box)
          /\ Goto(t, "reloadBox")
    /\ UNCHANGED <<Box, server, result, local>>

ReloadBox(t) ==
    /\ At(t, "reloadBox")
    /\ Box' = Nil
    /\ Goto(t, "parse")
    /\ UNCHANGED <<CoreState, oldCommandServer, objects, op, result, local>>

\* handleServiceClose closes the server's service and tells no one.  Without a
\* service its goroutine panics; no one recovers, and the application starts
\* the process anew.
ServiceClose(t) ==
    /\ MayBegin(t) /\ scenario.commands
    /\ \E s \in Servers :
          /\ server[s] = "listening"
          /\ \/ /\ service[s] # Nil
                /\ instance' = ClosedInstances(service[s])
                /\ UNCHANGED <<globals, server, service, pc, op, result, local, scenario>>
             \/ /\ service[s] = Nil
                /\ NewProcess
------------------------------------------------------------------------------
StopSteps(t) == Stop(t) \/ CloseBox(t) \/ CloseServer(t) \/ AfterStop(t)

StartServiceSteps(t) ==
    Parse(t) \/ StartCommandServer(t) \/ NewService(t) \/ StartInstance(t) \/ Publish(t)

AlertSteps(t) == StopAndAlert(t) \/ AlertServer(t)

CallerStep(t) == Start(t) \/ Restart(t) \/ StopCall(t) \/ StopSteps(t)

HandlerStep(t) == ServiceReload(t) \/ ReloadBox(t) \/ ServiceClose(t)

Next ==
    \/ \E t \in Callers : CallerStep(t)
    \/ \E t \in Handlers : HandlerStep(t)
    \/ \E t \in Threads : StartServiceSteps(t) \/ AlertSteps(t)

Spec == Init /\ [][Next]_vars

\* A call under way goes on: the calls it makes return, BoxService.Close within
\* FatalStopTimeout.  No call has to begin.
Proceed(t) == StopSteps(t) \/ StartServiceSteps(t) \/ AlertSteps(t) \/ ReloadBox(t)

FairSpec == Spec /\ \A t \in Threads : WF_vars(Proceed(t))
------------------------------------------------------------------------------
States == {"STOPPED", "STARTING", "STARTED", "STOPPING"}

Labels == {"idle", "stop", "closeBox", "closeServer", "stopped", "stopFailed", "parse",
           "listen", "create", "start", "publish", "alert", "alertBox", "alertServer",
           "reloadBox"}

\* A StartService that starts and publishes an instance has one.
TypeOK ==
    /\ CoreState \in States
    /\ Box \in Instances \cup {Nil}
    /\ oldCommandServer \in Servers \cup {Nil}
    /\ instance \in [Instances -> {"created", "running", "closed"}]
    /\ server \in [Servers -> {"unbound", "listening", "closed"}]
    /\ service \in [Servers -> Instances \cup {Nil}]
    /\ pc \in [Threads -> Labels]
    /\ op \in [Threads -> {"none", "start", "stop", "restart", "reload"}]
    /\ result \in [Threads -> {"ok", "error", "stopped"}]
    /\ local \in [Threads -> Instances \cup {Nil}]
    /\ \A t \in Threads : pc[t] \in {"start", "publish"} => local[t] \in Instances

Sequential == ~scenario.overlap

CallsOnly == Sequential /\ ~scenario.commands

\* Between calls and commands that do not overlap, STOPPED means that no
\* instance runs: the tunnel is down when the application shows it down.
StoppedMeansNothingRuns ==
    Sequential /\ Busy = {} /\ CoreState = "STOPPED" =>
        \A i \in Instances : instance[i] # "running"

\* While calls and commands do not overlap, a running instance can always be
\* reached to be closed: it is the published one, or a StartService is about to
\* publish it.
NoOrphanedInstance ==
    Sequential =>
        \A i \in Instances : instance[i] = "running" =>
            i = Box \/ \E t \in Threads : pc[t] = "publish" /\ local[t] = i

\* As long as closing does not fail, a listening command server is the published
\* one, so the next Stop or StopAndAlert frees its port or socket.
NoOrphanedListener ==
    CallsOnly /\ {"closeBox", "closeServer"} \cap scenario.faults = {} =>
        \A s \in Servers : server[s] = "listening" => s = oldCommandServer

\* The published instance runs and the published command server, listening,
\* serves it.
Served ==
    /\ Box # Nil /\ oldCommandServer # Nil
    /\ instance[Box] = "running"
    /\ server[oldCommandServer] = "listening"
    /\ service[oldCommandServer] = Box

\* What the application is told is the case.  Whenever calls that do not overlap
\* have returned, STARTED means that the published instance runs and is served,
\* whichever calls have failed before.  And unless it returns an error, a Start or
\* Restart has left the core started and a Stop has left it stopped; the Clash API
\* has to be configured.
StatusIsHonest ==
    [][CallsOnly /\ Busy' = {} =>
          /\ (CoreState = "STARTED" => Served)'
          /\ \A t \in Busy :
                "noClashAPI" \notin scenario.faults /\ result'[t] = "ok" =>
                    CoreState' = IF op[t] \in {"start", "restart"} THEN "STARTED" ELSE "STOPPED"]_vars

\* However calls and commands interleave, the status does not stay STARTING
\* forever.
StartingResolves == CoreState = "STARTING" ~> CoreState # "STARTING"

\* The request of a reload carries neither a path nor content, which
\* StartRequest's comment allows; when no call fails, the reload succeeds.
ReloadSucceeds ==
    scenario.faults = {} => \A t \in Handlers : pc[t] = "idle" /\ op[t] = "reload" => result[t] = "ok"
==============================================================================
