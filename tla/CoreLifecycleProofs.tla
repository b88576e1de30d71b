-------------------------- MODULE CoreLifecycleProofs --------------------------
(***************************************************************************)
(* Starting, stopping and reloading the core, for every number of threads, *)
(* command goroutines, instances and command servers and for every set of  *)
(* calls that may fail.                                                    *)
(***************************************************************************)
EXTENDS CoreLifecycle, TLAPS

\* The type invariant is inductive: every step of StartService that needs an
\* instance has one.
THEOREM TypeCorrect == Spec => []TypeOK
<1>1. Init => TypeOK
  BY DEF Init, TypeOK, States, Labels
<1>2. TypeOK /\ [Next]_vars => TypeOK'
  <2> SUFFICES ASSUME TypeOK, [Next]_vars PROVE TypeOK'
    OBVIOUS
  <2> USE DEF TypeOK, States, Labels, At, Goto, Return, Alert, Enter, Fail, globals, objects
  <2>1. ASSUME NEW t \in Threads, Start(t) PROVE TypeOK'
    BY <2>1, ZenonT(60) DEF Start, MayBegin
  <2>2. ASSUME NEW t \in Threads, Restart(t) PROVE TypeOK'
    BY <2>2 DEF Restart, MayBegin
  <2>3. ASSUME NEW t \in Threads, StopCall(t) PROVE TypeOK'
    BY <2>3, ZenonT(60) DEF StopCall, MayBegin
  <2>4. ASSUME NEW t \in Threads, Stop(t) PROVE TypeOK'
    BY <2>4 DEF Stop, DetachService
  <2>5. ASSUME NEW t \in Threads, CloseBox(t) PROVE TypeOK'
    BY <2>5 DEF CloseBox, ClosedInstances
  <2>6. ASSUME NEW t \in Threads, CloseServer(t) PROVE TypeOK'
    BY <2>6 DEF CloseServer, ClosedServers
  <2>7. ASSUME NEW t \in Threads, AfterStop(t) PROVE TypeOK'
    BY <2>7 DEF AfterStop
  <2>8. ASSUME NEW t \in Threads, Parse(t) PROVE TypeOK'
    BY <2>8 DEF Parse
  <2>9. ASSUME NEW t \in Threads, StartCommandServer(t) PROVE TypeOK'
    BY <2>9 DEF StartCommandServer, FreeServers
  <2>10. ASSUME NEW t \in Threads, NewService(t) PROVE TypeOK'
    BY <2>10 DEF NewService, FreeInstances
  <2>11. ASSUME NEW t \in Threads, StartInstance(t) PROVE TypeOK'
    BY <2>11 DEF StartInstance, ClosedInstances
  <2>12. ASSUME NEW t \in Threads, Publish(t) PROVE TypeOK'
    BY <2>12 DEF Publish
  <2>13. ASSUME NEW t \in Threads, StopAndAlert(t) PROVE TypeOK'
    BY <2>13 DEF StopAndAlert, DetachService, ClosedInstances
  <2>14. ASSUME NEW t \in Threads, AlertServer(t) PROVE TypeOK'
    BY <2>14 DEF AlertServer, ClosedServers
  <2>15. ASSUME NEW t \in Threads, ServiceReload(t) PROVE TypeOK'
    BY <2>15 DEF ServiceReload, MayBegin, DetachService, ClosedInstances
  <2>16. ASSUME NEW t \in Threads, ReloadBox(t) PROVE TypeOK'
    BY <2>16, ZenonT(60) DEF ReloadBox
  <2>17. ASSUME NEW t \in Threads, ServiceClose(t) PROVE TypeOK'
    BY <2>17 DEF ServiceClose, NewProcess, ClosedInstances
  <2>18. CASE UNCHANGED vars
    BY <2>18, ZenonT(60) DEF vars
  <2> QED
    BY <2>1, <2>2, <2>3, <2>4, <2>5, <2>6, <2>7, <2>8, <2>9, <2>10, <2>11, <2>12, <2>13,
       <2>14, <2>15, <2>16, <2>17, <2>18, ZenonT(60)
    DEF Next, Threads, CallerStep, HandlerStep, StopSteps, StartServiceSteps, AlertSteps
<1> QED
  BY <1>1, <1>2, PTL DEF Spec
--------------------------------------------------------------------------------
OneBusy == \A t, u \in Threads : pc[t] # "idle" /\ pc[u] # "idle" => t = u

\* Where a running instance may be: published while the status says STARTED and
\* nothing touches it, published and about to be closed, or about to be
\* published.
Accounted(i) ==
    \/ i = Box /\ CoreState = "STARTED" /\ \A t \in Threads : pc[t] \in {"idle", "stop"}
    \/ i = Box /\ \E t \in Threads : pc[t] \in {"closeBox", "alert"}
    \/ \E t \in Threads : pc[t] = "publish" /\ local[t] = i

\* The inductive invariant.  NoOrphanedInstance alone is not inductive: the steps
\* that overwrite Box need to know that the instance it held no longer runs.
RunInv ==
    Sequential => /\ OneBusy
                  /\ \A i \in Instances : instance[i] = "running" => Accounted(i)

\* The calls and faults of a behaviour are chosen once.
LEMMA SameScenario == [Next]_vars => scenario' = scenario
BY ZenonT(60) DEF Next, CallerStep, HandlerStep, StopSteps, StartServiceSteps, AlertSteps, Start, Restart,
   StopCall, Stop, CloseBox, CloseServer, AfterStop, Parse, StartCommandServer, NewService,
   StartInstance, Publish, StopAndAlert, AlertServer, ServiceReload, ReloadBox, ServiceClose,
   NewProcess, vars, Goto, Return, Alert, Fail

\* Every call, command and failure keeps the running instances accounted for.
LEMMA RunInvStep == TypeOK /\ RunInv /\ [Next]_vars => RunInv'
<1> SUFFICES ASSUME TypeOK, RunInv, [Next]_vars, Sequential' PROVE RunInv'
  BY ZenonT(60) DEF RunInv
<1> USE DEF TypeOK, At, Goto, Return, Alert, Enter, Fail, globals, objects, Accounted
<1>0. scenario' = scenario
  BY SameScenario, ZenonT(60)
<1>a. /\ OneBusy
      /\ \A i \in Instances : instance[i] = "running" => Accounted(i)
  BY <1>0, ZenonT(60) DEF RunInv, Sequential
<1>b. ASSUME NEW t \in Threads, MayBegin(t) PROVE \A u \in Threads : pc[u] = "idle"
  BY <1>0, <1>b, ZenonT(60) DEF MayBegin, Busy, Sequential
<1>c. ASSUME NEW t \in Threads, pc[t] # "idle"
      PROVE  \A u \in Threads \ {t} : pc[u] = "idle"
  BY <1>a, <1>c, ZenonT(60) DEF OneBusy
<1>1. ASSUME NEW t \in Threads, Start(t) PROVE RunInv'
  BY <1>1, <1>a, <1>b DEF Start, RunInv, OneBusy, MayBegin
<1>2. ASSUME NEW t \in Threads, Restart(t) PROVE RunInv'
  BY <1>2, <1>a, <1>b DEF Restart, RunInv, OneBusy, MayBegin
<1>3. ASSUME NEW t \in Threads, StopCall(t) PROVE RunInv'
  BY <1>3, <1>a, <1>b, ZenonT(60) DEF StopCall, RunInv, OneBusy, MayBegin
<1>4. ASSUME NEW t \in Threads, Stop(t) PROVE RunInv'
  <2>1. \A i \in Instances : instance[i] = "running" => i = Box /\ CoreState = "STARTED"
    BY <1>4, <1>a, <1>c, ZenonT(60) DEF Stop
  <2>2. instance' = instance /\ Box' = Box
    BY <1>4, ZenonT(60) DEF Stop
  <2>3. \A i \in Instances : instance[i] = "running" => i = Box' /\ pc'[t] = "closeBox"
    BY <1>4, <2>1, <2>2, ConstantsAssumption DEF Stop
  <2>4. OneBusy'
    BY <1>4, <1>c DEF Stop, OneBusy
  <2> QED
    BY <2>2, <2>3, <2>4, ZenonT(60) DEF RunInv
<1>5. ASSUME NEW t \in Threads, CloseBox(t) PROVE RunInv'
  <2>1. \A i \in Instances : instance[i] = "running" => i = Box
    BY <1>5, <1>a, <1>c, ZenonT(60) DEF CloseBox
  <2>2. \A i \in Instances : instance'[i] # "running"
    BY <1>5, <2>1, ConstantsAssumption DEF CloseBox, ClosedInstances
  <2>3. OneBusy'
    BY <1>5, <1>c DEF CloseBox, OneBusy
  <2> QED
    BY <2>2, <2>3, ZenonT(60) DEF RunInv
<1>6. ASSUME NEW t \in Threads, CloseServer(t) PROVE RunInv'
  BY <1>6, <1>a, <1>c DEF CloseServer, RunInv, OneBusy
<1>7. ASSUME NEW t \in Threads, AfterStop(t) PROVE RunInv'
  BY <1>7, <1>a, <1>c, SMTT(30) DEF AfterStop, RunInv, OneBusy
<1>8. ASSUME NEW t \in Threads, Parse(t) PROVE RunInv'
  BY <1>8, <1>a, <1>c DEF Parse, RunInv, OneBusy
<1>9. ASSUME NEW t \in Threads, StartCommandServer(t) PROVE RunInv'
  BY <1>9, <1>a, <1>c, SMTT(30) DEF StartCommandServer, RunInv, OneBusy
<1>10. ASSUME NEW t \in Threads, NewService(t) PROVE RunInv'
  BY <1>10, <1>a, <1>c, SMTT(30) DEF NewService, FreeInstances, RunInv, OneBusy
<1>11. ASSUME NEW t \in Threads, StartInstance(t) PROVE RunInv'
  BY <1>11, <1>a, <1>c DEF StartInstance, ClosedInstances, RunInv, OneBusy
<1>12. ASSUME NEW t \in Threads, Publish(t) PROVE RunInv'
  BY <1>12, <1>a, <1>c DEF Publish, RunInv, OneBusy
<1>13. ASSUME NEW t \in Threads, StopAndAlert(t) PROVE RunInv'
  <2>1. \A i \in Instances : instance[i] = "running" => i = Box
    BY <1>13, <1>a, <1>c DEF StopAndAlert
  <2>2. \A i \in Instances : instance'[i] # "running"
    BY <1>13, <2>1, ConstantsAssumption DEF StopAndAlert, ClosedInstances
  <2>3. OneBusy'
    BY <1>13, <1>c DEF StopAndAlert, OneBusy
  <2> QED
    BY <2>2, <2>3 DEF RunInv
<1>14. ASSUME NEW t \in Threads, AlertServer(t) PROVE RunInv'
  BY <1>14, <1>a, <1>c, SMTT(30) DEF AlertServer, RunInv, OneBusy
<1>15. ASSUME NEW t \in Threads, ServiceReload(t) PROVE RunInv'
  <2>1. \A i \in Instances : instance[i] = "running" => i = Box
    BY <1>15, <1>a, <1>b, ZenonT(60) DEF ServiceReload, MayBegin
  <2>2. \A i \in Instances : instance'[i] # "running"
    BY <1>15, <2>1, ConstantsAssumption DEF ServiceReload, ClosedInstances
  <2>3. OneBusy'
    BY <1>15, <1>b DEF ServiceReload, OneBusy, MayBegin
  <2> QED
    BY <2>2, <2>3 DEF RunInv
<1>16. ASSUME NEW t \in Threads, ReloadBox(t) PROVE RunInv'
  BY <1>16, <1>a, <1>c, ZenonT(60) DEF ReloadBox, RunInv, OneBusy
<1>17. ASSUME NEW t \in Threads, ServiceClose(t) PROVE RunInv'
  BY <1>17, <1>a, <1>b DEF ServiceClose, NewProcess, ClosedInstances, RunInv, OneBusy
<1>18. CASE UNCHANGED vars
  BY <1>18, <1>a, ZenonT(60) DEF vars, RunInv, OneBusy
<1> QED
  BY <1>1, <1>2, <1>3, <1>4, <1>5, <1>6, <1>7, <1>8, <1>9, <1>10, <1>11, <1>12, <1>13,
     <1>14, <1>15, <1>16, <1>17, <1>18, ZenonT(60)
  DEF Next, Threads, CallerStep, HandlerStep, StopSteps, StartServiceSteps, AlertSteps

\* The invariant holds throughout.
LEMMA Running == Spec => []RunInv
<1>1. Init => RunInv
  BY ZenonT(60) DEF Init, RunInv, OneBusy
<1> QED
  BY <1>1, TypeCorrect, RunInvStep, PTL DEF Spec

\* While calls and commands do not overlap, no failure of Start, Stop, Restart
\* or a reload leaves an instance running that no variable refers to.
THEOREM InstancesReachable == Spec => []NoOrphanedInstance
<1>1. RunInv => NoOrphanedInstance
  BY ZenonT(60) DEF RunInv, Accounted, NoOrphanedInstance
<1> QED
  BY <1>1, Running, PTL

\* Under the same condition nothing runs between calls while the status is
\* STOPPED.
THEOREM StoppedIsStopped == Spec => []StoppedMeansNothingRuns
<1>1. RunInv => StoppedMeansNothingRuns
  BY ZenonT(60) DEF RunInv, Accounted, StoppedMeansNothingRuns, Busy
<1> QED
  BY <1>1, Running, PTL
--------------------------------------------------------------------------------
Listening == oldCommandServer # Nil /\ server[oldCommandServer] = "listening"

Alerting == {"alert", "alertBox", "alertServer"}

\* Positions of a call that will close or has opened the command server.
Serving == {"closeBox", "closeServer", "create", "start", "publish"} \cup Alerting

\* What holds at each position of the call under way, when calls do not overlap
\* and there are no commands.
Position(t) ==
    /\ pc[t] # "reloadBox"
    /\ pc[t] \in {"closeBox", "closeServer", "create", "start", "publish"} => Listening
    /\ pc[t] = "closeBox" => Box # Nil /\ instance[Box] = "running"
    /\ pc[t] = "publish" => instance[local[t]] = "running"
    /\ pc[t] \in {"parse", "listen", "create", "start", "publish"} => op[t] \in {"start", "restart"}
    /\ pc[t] \in {"stopped", "alertBox", "alertServer"} => CoreState = "STOPPED"
    /\ pc[t] \in Alerting /\ "noClashAPI" \notin scenario.faults => result[t] # "ok"

\* The inductive invariant behind the status: STARTED means served and left alone.
\* Where no close fails, the only listener is the published one, and somebody is
\* about to close it or the status says STARTED.
CallInv ==
    CallsOnly =>
        /\ OneBusy
        /\ CoreState = "STARTED" => Served /\ \A t \in Threads : pc[t] \in {"idle", "stop"}
        /\ \A t \in Threads : Position(t)
        /\ {"closeBox", "closeServer"} \cap scenario.faults = {} =>
              \A s \in Servers : server[s] = "listening" =>
                  /\ s = oldCommandServer
                  /\ CoreState = "STARTED" \/ \E t \in Threads : pc[t] \in Serving

\* Every step of Start, Stop and Restart keeps the positions.
LEMMA CallInvStep == TypeOK /\ CallInv /\ [Next]_vars => CallInv'
<1> SUFFICES ASSUME TypeOK, CallInv, [Next]_vars, CallsOnly' PROVE CallInv'
  BY ZenonT(60) DEF CallInv
<1> USE DEF TypeOK, At, Goto, Return, Alert, Enter, Fail, globals, objects, OneBusy, Position, Listening,
        Served, Serving, Alerting
<1>0. scenario' = scenario
  BY SameScenario, ZenonT(60)
<1>a. CallsOnly
  BY <1>0, ZenonT(60) DEF CallsOnly, Sequential
<1>b. ASSUME NEW t \in Threads, MayBegin(t) PROVE \A u \in Threads : pc[u] = "idle"
  BY <1>a, <1>b, ZenonT(60) DEF MayBegin, Busy, Sequential, CallsOnly
<1>c. ASSUME NEW t \in Threads, pc[t] # "idle"
      PROVE  \A u \in Threads \ {t} : pc[u] = "idle"
  BY <1>a, <1>c, ZenonT(60) DEF CallInv
<1>1. ASSUME NEW t \in Threads, Start(t) PROVE CallInv'
  BY <1>1, <1>0, <1>a, <1>b, ConstantsAssumption DEF CallInv, Start, MayBegin
<1>2. ASSUME NEW t \in Threads, Restart(t) PROVE CallInv'
  BY <1>2, <1>0, <1>a, <1>b, ConstantsAssumption, SMTT(30) DEF CallInv, Restart, MayBegin
<1>3. ASSUME NEW t \in Threads, StopCall(t) PROVE CallInv'
  BY <1>3, <1>0, <1>a, <1>b, ConstantsAssumption, SMTT(30) DEF CallInv, StopCall, MayBegin
<1>4. ASSUME NEW t \in Threads, Stop(t) PROVE CallInv'
  BY <1>4, <1>0, <1>a, <1>c, ConstantsAssumption, SMTT(30) DEF CallInv, Stop, DetachService
<1>5. ASSUME NEW t \in Threads, CloseBox(t) PROVE CallInv'
  BY <1>5, <1>0, <1>a, <1>c, ConstantsAssumption, SMTT(30) DEF CallInv, CloseBox, ClosedInstances
<1>6. ASSUME NEW t \in Threads, CloseServer(t) PROVE CallInv'
  BY <1>6, <1>0, <1>a, <1>c, ConstantsAssumption, SMTT(30) DEF CallInv, CloseServer, ClosedServers
<1>7. ASSUME NEW t \in Threads, AfterStop(t) PROVE CallInv'
  BY <1>7, <1>0, <1>a, <1>c, ConstantsAssumption, SMTT(30) DEF CallInv, AfterStop
<1>8. ASSUME NEW t \in Threads, Parse(t) PROVE CallInv'
  BY <1>8, <1>0, <1>a, <1>c, ConstantsAssumption, SMTT(30) DEF CallInv, Parse
<1>9. ASSUME NEW t \in Threads, StartCommandServer(t) PROVE CallInv'
  BY <1>9, <1>0, <1>a, <1>c, ConstantsAssumption, SMTT(30) DEF CallInv, StartCommandServer, FreeServers
<1>10. ASSUME NEW t \in Threads, NewService(t) PROVE CallInv'
  BY <1>10, <1>0, <1>a, <1>c, ConstantsAssumption, SMTT(30) DEF CallInv, NewService, FreeInstances
<1>11. ASSUME NEW t \in Threads, StartInstance(t) PROVE CallInv'
  BY <1>11, <1>0, <1>a, <1>c, ConstantsAssumption, SMTT(30) DEF CallInv, StartInstance, ClosedInstances
<1>12. ASSUME NEW t \in Threads, Publish(t) PROVE CallInv'
  BY <1>12, <1>0, <1>a, <1>c, ConstantsAssumption, SMTT(30) DEF CallInv, Publish
<1>13. ASSUME NEW t \in Threads, StopAndAlert(t) PROVE CallInv'
  BY <1>13, <1>0, <1>a, <1>c, ConstantsAssumption, SMTT(30) DEF CallInv, StopAndAlert, DetachService, ClosedInstances
<1>14. ASSUME NEW t \in Threads, AlertServer(t) PROVE CallInv'
  BY <1>14, <1>0, <1>a, <1>c, ConstantsAssumption DEF CallInv, AlertServer, ClosedServers
<1>15. ASSUME NEW t \in Threads, ServiceReload(t) \/ ReloadBox(t) \/ ServiceClose(t) PROVE CallInv'
  BY <1>15, <1>a, ZenonT(60) DEF ServiceReload, ReloadBox, ServiceClose, CallsOnly, CallInv, Position
<1>16. CASE UNCHANGED vars
  BY <1>16, <1>a, ZenonT(60) DEF vars, CallInv
<1> QED
  BY <1>1, <1>2, <1>3, <1>4, <1>5, <1>6, <1>7, <1>8, <1>9, <1>10, <1>11, <1>12, <1>13,
     <1>14, <1>15, <1>16, ZenonT(60)
  DEF Next, Threads, CallerStep, HandlerStep, StopSteps, StartServiceSteps, AlertSteps

\* The invariant holds throughout.
LEMMA Calling == Spec => [](TypeOK /\ CallInv)
<1>1. Init => CallInv
  BY ZenonT(60) DEF Init, CallInv, OneBusy, Position, Alerting
<1> QED
  BY <1>1, TypeCorrect, CallInvStep, PTL DEF Spec

\* However many threads call Start, Stop and Restart one after the other, and
\* whichever calls fail short of closing, the command server that listens is the
\* published one.
THEOREM ListenersReachable == Spec => []NoOrphanedListener
<1>1. CallInv => NoOrphanedListener
  BY ZenonT(60) DEF CallInv, NoOrphanedListener
<1> QED
  BY <1>1, Calling, PTL

\* Under the same condition, the status and what the calls return are the case.
THEOREM StatusHonest == Spec => StatusIsHonest
<1> DEFINE Honest ==
      CallsOnly /\ Busy' = {} =>
          /\ (CoreState = "STARTED" => Served)'
          /\ \A t \in Busy :
                "noClashAPI" \notin scenario.faults /\ result'[t] = "ok" =>
                    CoreState' = IF op[t] \in {"start", "restart"} THEN "STARTED" ELSE "STOPPED"
<1>1. TypeOK /\ CallInv /\ CallInv' /\ [Next]_vars => [Honest]_vars
  <2> SUFFICES ASSUME TypeOK, CallInv, CallInv', Next, CallsOnly, Busy' = {} PROVE Honest
    BY ZenonT(60) DEF Honest
  <2>1. scenario' = scenario
    BY SameScenario, ZenonT(60)
  <2>2. (CoreState = "STARTED" => Served)'
    BY <2>1, ZenonT(60) DEF CallInv, CallsOnly, Sequential
  <2>3. ASSUME NEW t \in Busy, "noClashAPI" \notin scenario.faults, result'[t] = "ok"
        PROVE  CoreState' = IF op[t] \in {"start", "restart"} THEN "STARTED" ELSE "STOPPED"
    <3> USE DEF TypeOK, At, Goto, Return, Alert, Enter, Fail, globals, objects, Busy
    <3>1. \A u \in Threads : pc'[u] = "idle" /\ ~MayBegin(u) /\ (pc[u] # "idle" => u = t)
      BY <2>3, ZenonT(60) DEF MayBegin, CallsOnly, Sequential, CallInv, OneBusy
    <3>2. Position(t)
      BY ZenonT(60) DEF CallInv
    <3>3. PICK u \in Threads : CallerStep(u) \/ HandlerStep(u) \/ StartServiceSteps(u) \/ AlertSteps(u)
      BY ZenonT(60) DEF Next, Threads
    <3>4. ~(Start(u) \/ Restart(u) \/ StopCall(u) \/ HandlerStep(u))
      BY <3>1, ZenonT(60) DEF Start, Restart, StopCall, HandlerStep, ServiceReload, ReloadBox, ServiceClose
    <3>5. ~(Stop(u) \/ CloseBox(u) \/ CloseServer(u) \/ Parse(u) \/ StartCommandServer(u)
            \/ NewService(u) \/ StartInstance(u) \/ StopAndAlert(u))
      BY <3>1 DEF Stop, CloseBox, CloseServer, Parse, StartCommandServer, NewService,
         StartInstance, StopAndAlert
    <3>6. CASE AfterStop(u)
      BY <3>1, <3>2, <3>6, <2>3, ZenonT(60) DEF AfterStop, Position
    <3>7. CASE Publish(u)
      BY <3>1, <3>2, <3>7, <2>3, ZenonT(60) DEF Publish, Position
    <3>8. CASE AlertServer(u)
      BY <3>1, <3>2, <3>8, <2>3, ZenonT(60) DEF AlertServer, Position, Alerting
    <3> QED
      BY <3>3, <3>4, <3>5, <3>6, <3>7, <3>8, ZenonT(60) DEF CallerStep, StopSteps, StartServiceSteps, AlertSteps
  <2> QED
    BY <2>2, <2>3, ZenonT(60) DEF Honest
<1> QED
  BY <1>1, Calling, PTL DEF Spec, StatusIsHonest
================================================================================
