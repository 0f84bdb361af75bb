--------------------------- MODULE ControllerProofs ---------------------------
(***************************************************************************)
(* The safety of Controller for any number of clicks, starts and requests, *)
(* that it implements ServiceLifecycle, and that all of it holds of the    *)
(* program, Application, that runs it.                                     *)
(*                                                                         *)
(* The argument: state says who may hold the port.  While it is starting,  *)
(* one caller is between Start's two critical sections (OneStarter) and    *)
(* the port is, at most, the one it has bound (Bound).  While it is        *)
(* running or stopping, the fields name the one serving instance (Current) *)
(* and the port is, at most, its own (PortHolder).  No other instance      *)
(* serves, so nobody else writes the fields.                               *)
(***************************************************************************)
EXTENDS Application, TLAPS

Starting(c) == pc[c] \in {"listen", "publish"}

OneStarter ==
    /\ \A c \in Callers : Starting(c) => state = "starting"
    /\ \A c, d \in Callers : Starting(c) /\ Starting(d) => c = d

Bound ==
    \A c \in Callers :
        /\ bound[c] # None <=> pc[c] = "publish"
        /\ pc[c] = "publish" =>
            /\ port = bound[c]
            /\ serving[bound[c]] = "none"
            /\ shutdown[bound[c]] = "waiting"
            /\ ~cancelled[bound[c]]
            /\ ~closed[bound[c]]

Current ==
    /\ state \in {"running", "stopping"} =>
        /\ done # None
        /\ cancel = done
        /\ serving[done] # "none"
        /\ ~closed[done]
    /\ \A i \in Instances : serving[i] # "none" =>
        state \in {"running", "stopping"} /\ done = i

PortHolder ==
    port \in Instances =>
        \/ \E c \in Callers : bound[c] = port
        \/ done = port /\ serving[port] \in {"spawned", "accepting"}

\* A shutdown follows a cancel, and a cancel a Stop or a failed Accept.
ShutdownCause ==
    \A i \in Instances : serving[i] # "none" =>
        /\ shutdown[i] # "waiting" => cancelled[i]
        /\ cancelled[i] => state = "stopping" \/ serving[i] = "failed"
        /\ serving[i] = "closed" => shutdown[i] # "waiting"
        /\ serving[i] = "spawned" => port = i
        /\ serving[i] = "accepting" => (port = i <=> shutdown[i] = "waiting")
        /\ serving[i] \in {"closed", "failed"} => port # i

Waiting ==
    \A c \in Callers :
        /\ awaits[c] # None <=> pc[c] = "wait"
        /\ pc[c] = "wait" =>
            closed[awaits[c]] \/ (awaits[c] = done /\ state = "stopping")

NoOldError == state # "stopped" => ~lastError

IInv ==
    /\ TypeOK
    /\ OneStarter
    /\ Bound
    /\ Current
    /\ PortHolder
    /\ ShutdownCause
    /\ Waiting
    /\ NoOldError

-----------------------------------------------------------------------------

LEMMA TypeInit == Init => TypeOK
<1> SUFFICES ASSUME Init PROVE TypeOK
    OBVIOUS
<1>1. pc \in [Callers -> {"load", "idle", "start", "listen", "publish", "stop", "wait", "exit"}]
    BY DEF Init
<1>2. requests \in [Instances -> 0..MaxRequests]
    BY RequestsAssumption DEF Init
<1>3. lastError \in BOOLEAN /\ cancelled \in [Instances -> BOOLEAN] /\ closed \in [Instances -> BOOLEAN]
    BY DEF Init
<1> QED BY <1>1, <1>2, <1>3 DEF Init, TypeOK, States

LEMMA TypeStep == TypeOK /\ [Next]_vars => TypeOK'
<1> SUFFICES ASSUME TypeOK, [Next]_vars PROVE TypeOK'
    OBVIOUS
<1> USE RequestsAssumption, PortAssumption
    DEF TypeOK, States, At, Goto, AfterStop, ClosePort, fields, locals, server
<1>1. ASSUME NEW c \in Callers, BeginStart(c) PROVE TypeOK'
    BY <1>1 DEF BeginStart
<1>2. ASSUME NEW c \in Callers, ListenFails(c) PROVE TypeOK'
    BY <1>2 DEF ListenFails
<1>3. ASSUME NEW c \in Callers, NEW i \in Instances, Listen(c, i) PROVE TypeOK'
    BY <1>3 DEF Listen
<1>4. ASSUME NEW c \in Callers, PublishRunning(c) PROVE TypeOK'
    BY <1>4 DEF PublishRunning
<1>5. ASSUME NEW c \in Callers, BeginStop(c) PROVE TypeOK'
    BY <1>5 DEF BeginStop
<1>6. ASSUME NEW c \in Callers, StopReturns(c) \/ StopTimesOut(c) PROVE TypeOK'
    BY <1>6 DEF StopReturns, StopTimesOut
<1>7. ASSUME NEW i \in Instances, EnterServe(i) PROVE TypeOK'
    BY <1>7 DEF EnterServe
<1>8. ASSUME NEW i \in Instances, AcceptEnds(i) \/ AcceptFails(i) PROVE TypeOK'
    BY <1>8 DEF AcceptEnds, AcceptFails
<1>9. ASSUME NEW i \in Instances, BeginShutdown(i) PROVE TypeOK'
    BY <1>9 DEF BeginShutdown
<1>10. ASSUME NEW i \in Instances, EndShutdown(i) \/ ShutdownTimesOut(i) PROVE TypeOK'
    BY <1>10 DEF EndShutdown, ShutdownTimesOut
<1>11. ASSUME NEW i \in Instances, ServeReturns(i) PROVE TypeOK'
    <2>1. lastError' \in BOOLEAN
        BY <1>11 DEF ServeReturns
    <2> QED BY <1>11, <2>1 DEF ServeReturns
<1>12. ASSUME NEW i \in Instances, RequestArrives(i) \/ RequestEnds(i) PROVE TypeOK'
    BY <1>12 DEF RequestArrives, RequestEnds
<1>13. ASSUME NEW c \in Callers, ReadStatus(c) PROVE TypeOK'
    BY <1>13 DEF ReadStatus
<1>14. CASE BeginRun \/ Quit
    BY <1>14 DEF BeginRun, Quit, Callers
<1>15. CASE OtherProcess
    BY <1>15 DEF OtherProcess
<1>16. CASE UNCHANGED vars
    BY <1>16 DEF vars
<1> QED BY <1>1, <1>2, <1>3, <1>4, <1>5, <1>6, <1>7, <1>8, <1>9, <1>10, <1>11, <1>12,
           <1>13, <1>14, <1>15, <1>16 DEF Next, CallerStep, InstanceStep, Environment

\* The controller's fields, its callers and its servers keep their types.
THEOREM TypeCorrect == Spec => []TypeOK
    BY TypeInit, TypeStep, PTL DEF Spec

LEMMA InvInit == Init => IInv
<1> SUFFICES ASSUME Init PROVE IInv
    OBVIOUS
<1>1. TypeOK
    BY TypeInit
<1>2. OneStarter /\ Bound /\ Waiting
    BY DEF Init, OneStarter, Starting, Bound, Waiting
<1>3. Current /\ PortHolder /\ ShutdownCause /\ NoOldError
    BY PortAssumption DEF Init, Current, PortHolder, ShutdownCause, NoOldError
<1> QED BY <1>1, <1>2, <1>3 DEF IInv

LEMMA InvBeginStart ==
    ASSUME IInv, TypeOK', NEW c \in Callers, BeginStart(c)
    PROVE  IInv'
<1> USE DEF IInv, TypeOK, BeginStart, At, Goto, server
<1>1. OneStarter'
    BY DEF OneStarter, Starting
<1>2. Bound' /\ Waiting'
    BY DEF Bound, Waiting
<1>3. Current' /\ PortHolder' /\ ShutdownCause' /\ NoOldError'
    BY DEF Current, PortHolder, ShutdownCause, NoOldError
<1> QED BY <1>1, <1>2, <1>3

LEMMA InvListenFails ==
    ASSUME IInv, TypeOK', NEW c \in Callers, ListenFails(c)
    PROVE  IInv'
<1> USE DEF IInv, TypeOK, ListenFails, At, Goto, server
<1>1. state = "starting" /\ OneStarter'
    BY DEF OneStarter, Starting
<1>2. Bound' /\ Waiting'
    BY <1>1 DEF Bound, Waiting
<1>3. Current' /\ PortHolder' /\ ShutdownCause' /\ NoOldError'
    BY <1>1 DEF Current, PortHolder, ShutdownCause, NoOldError
<1> QED BY <1>1, <1>2, <1>3

LEMMA InvListen ==
    ASSUME IInv, TypeOK', NEW c \in Callers, NEW i \in Instances, Listen(c, i)
    PROVE  IInv'
<1> USE PortAssumption DEF IInv, TypeOK, Listen, Unused, At, Goto, fields
<1>1. state = "starting" /\ OneStarter'
    BY DEF OneStarter, Starting
<1>2. \A d \in Callers : bound[d] = None
    BY <1>1 DEF Bound, OneStarter, Starting
<1>3. Bound'
    BY <1>2 DEF Bound
<1>4. Waiting'
    BY DEF Waiting
<1>5. Current' /\ NoOldError'
    BY <1>1 DEF Current, NoOldError
<1>6. PortHolder'
    BY DEF PortHolder
<1>7. ShutdownCause'
    BY <1>1 DEF ShutdownCause, Current
<1> QED BY <1>1, <1>3, <1>4, <1>5, <1>6, <1>7

LEMMA InvPublishRunning ==
    ASSUME IInv, TypeOK', NEW c \in Callers, PublishRunning(c)
    PROVE  IInv'
<1> USE PortAssumption DEF IInv, TypeOK, PublishRunning, At, Goto
<1>1. /\ state = "starting" /\ bound[c] \in Instances /\ port = bound[c]
      /\ \A d \in Callers : d # c => ~Starting(d)
      /\ \A j \in Instances : serving[j] = "none"
    BY DEF OneStarter, Starting, Bound, Current
<1>2. OneStarter'
    BY <1>1 DEF OneStarter, Starting
<1>3. Bound'
    BY <1>1 DEF Bound, Starting
<1>4. Waiting'
    BY <1>1 DEF Waiting
<1>5. Current'
    BY <1>1 DEF Current, Bound
<1>6. PortHolder' /\ NoOldError'
    BY <1>1 DEF PortHolder, NoOldError
<1>7. ShutdownCause'
    BY <1>1 DEF ShutdownCause, Bound
<1> QED BY <1>2, <1>3, <1>4, <1>5, <1>6, <1>7

LEMMA InvBeginStop ==
    ASSUME IInv, TypeOK', NEW c \in Callers, BeginStop(c)
    PROVE  IInv'
<1> USE DEF IInv, TypeOK, BeginStop, At, Goto, AfterStop
<1>1. OneStarter'
    BY DEF OneStarter, Starting
<1>2. Bound'
    BY DEF Bound, OneStarter, Starting
<1>3. Waiting'
    <2>1. UNCHANGED <<closed, done>> /\ (state = "stopping" => state' = "stopping")
        OBVIOUS
    <2>2. ASSUME NEW d \in Callers, d # c
          PROVE  /\ awaits'[d] # None <=> pc'[d] = "wait"
                 /\ pc'[d] = "wait" =>
                     closed[awaits'[d]] \/ (awaits'[d] = done /\ state' = "stopping")
        <3>1. awaits'[d] = awaits[d] /\ pc'[d] = pc[d]
            BY <2>2
        <3> QED BY <2>1, <3>1 DEF Waiting
    <2>3. /\ awaits'[c] # None <=> pc'[c] = "wait"
          /\ pc'[c] = "wait" => awaits'[c] = done /\ state' = "stopping"
        <3>1. CASE state \in {"stopped", "starting"}
            BY <3>1 DEF Waiting
        <3>2. CASE state \notin {"stopped", "starting"}
            BY <3>2 DEF States, Current
        <3> QED BY <3>1, <3>2
    <2> QED BY <2>1, <2>2, <2>3 DEF Waiting
<1>4. Current' /\ PortHolder' /\ NoOldError'
    BY DEF Current, PortHolder, NoOldError
<1>5. ShutdownCause'
    BY DEF ShutdownCause, Current
<1> QED BY <1>1, <1>2, <1>3, <1>4, <1>5

LEMMA InvCallerOther ==
    ASSUME IInv, TypeOK', NEW c \in Callers,
           ReadStatus(c) \/ (c = Main /\ (BeginRun \/ Quit)) \/ StopReturns(c) \/ StopTimesOut(c)
    PROVE  IInv'
<1>1. /\ UNCHANGED <<fields, bound, server, port>>
      /\ pc' \in [Callers -> {"load", "idle", "start", "listen", "publish", "stop", "wait", "exit"}]
      /\ pc[c] \in {"load", "idle", "wait"} /\ pc'[c] \in {"idle", "start", "stop", "exit"}
      /\ \A d \in Callers \ {c} : pc'[d] = pc[d] /\ awaits'[d] = awaits[d]
      /\ awaits'[c] = None
    BY DEF IInv, TypeOK, ReadStatus, BeginRun, Quit, StopReturns, StopTimesOut, At,
           Goto, AfterStop, Waiting
<1> USE <1>1 DEF IInv, TypeOK, fields, server
<1>2. OneStarter'
    BY DEF OneStarter, Starting
<1>3. Bound'
    BY DEF Bound
<1>4. Waiting'
    BY DEF Waiting
<1>5. Current' /\ PortHolder' /\ ShutdownCause' /\ NoOldError'
    BY DEF Current, PortHolder, ShutdownCause, NoOldError
<1> QED BY <1>2, <1>3, <1>4, <1>5

LEMMA InvEnterServe ==
    ASSUME IInv, TypeOK', NEW i \in Instances, EnterServe(i)
    PROVE  IInv'
<1> USE PortAssumption DEF IInv, TypeOK, EnterServe, ClosePort, fields, locals
<1>1. OneStarter' /\ Waiting' /\ NoOldError'
    BY DEF OneStarter, Starting, Waiting, NoOldError
<1>2. state \in {"running", "stopping"} /\ done = i /\ port = i
    BY DEF Current, ShutdownCause
<1>3. Bound'
    BY <1>2 DEF Bound, OneStarter, Starting
<1>4. Current' /\ PortHolder' /\ ShutdownCause'
    BY <1>2 DEF Current, PortHolder, ShutdownCause
<1> QED BY <1>1, <1>3, <1>4

LEMMA InvAcceptStops ==
    ASSUME IInv, TypeOK', NEW i \in Instances, AcceptFails(i) \/ AcceptEnds(i)
    PROVE  IInv'
<1> USE PortAssumption DEF IInv, TypeOK, AcceptFails, AcceptEnds, ClosePort, fields, locals
<1>1. OneStarter' /\ Waiting' /\ NoOldError'
    BY DEF OneStarter, Starting, Waiting, NoOldError
<1>2. state \in {"running", "stopping"} /\ done = i
    BY DEF Current
<1>3. \A c \in Callers : bound[c] = None /\ pc[c] # "publish"
    BY <1>2 DEF Bound, OneStarter, Starting
<1>4. Bound'
    BY <1>3 DEF Bound
<1>5. serving[i] = "accepting" /\ (shutdown[i] # "waiting" => port # i)
    BY <1>2 DEF ShutdownCause
<1>6. Current' /\ PortHolder' /\ ShutdownCause'
    BY <1>2, <1>5 DEF Current, PortHolder, ShutdownCause
<1> QED BY <1>1, <1>4, <1>6

LEMMA InvShutdown ==
    ASSUME IInv, TypeOK', NEW i \in Instances,
           BeginShutdown(i) \/ EndShutdown(i) \/ ShutdownTimesOut(i)
    PROVE  IInv'
<1> USE PortAssumption DEF IInv, TypeOK, ClosePort, fields, locals
<1>1. /\ UNCHANGED <<fields, locals, serving, cancelled, closed>>
      /\ shutdown' \in [Instances -> {"waiting", "draining", "done"}]
      /\ \A j \in Instances \ {i} : shutdown'[j] = shutdown[j]
      /\ shutdown'[i] # "waiting"
      /\ \/ shutdown[i] = "waiting" /\ cancelled[i]
         \/ shutdown[i] = "draining"
      /\ port' = IF shutdown[i] = "waiting" /\ serving[i] = "accepting" /\ port = i
                   THEN Free ELSE port
    BY DEF BeginShutdown, EndShutdown, ShutdownTimesOut
<1>2. OneStarter' /\ Waiting' /\ NoOldError' /\ Current'
    BY <1>1 DEF OneStarter, Starting, Waiting, NoOldError, Current
<1>3. \A c \in Callers : pc[c] = "publish" => bound[c] # i
    BY <1>1 DEF Bound
<1>4. Bound'
    BY <1>1, <1>3 DEF Bound
<1>5. PortHolder'
    BY <1>1 DEF PortHolder
<1>6. ShutdownCause'
    BY <1>1 DEF ShutdownCause
<1> QED BY <1>2, <1>4, <1>5, <1>6

LEMMA InvServeReturns ==
    ASSUME IInv, TypeOK', NEW i \in Instances, ServeReturns(i)
    PROVE  IInv'
<1> USE PortAssumption DEF IInv, TypeOK, ServeReturns, fields, locals
<1>1. /\ state \in {"running", "stopping"} /\ done = i /\ state' = "stopped"
      /\ port # i /\ port' = port
      /\ \A c \in Callers : ~Starting(c) /\ bound[c] = None
      /\ \A j \in Instances : serving'[j] = "none"
    BY DEF Current, ShutdownCause, OneStarter, Starting, Bound
<1>2. port \notin Instances
    BY <1>1 DEF PortHolder
<1>3. OneStarter' /\ Bound' /\ NoOldError'
    BY <1>1 DEF OneStarter, Starting, Bound, NoOldError
<1>4. Current' /\ PortHolder' /\ ShutdownCause'
    BY <1>1, <1>2 DEF Current, PortHolder, ShutdownCause
<1>5. Waiting'
    BY <1>1 DEF Waiting
<1> QED BY <1>3, <1>4, <1>5

LEMMA InvOutside ==
    ASSUME IInv, TypeOK',
           \/ \E i \in Instances : RequestArrives(i) \/ RequestEnds(i)
           \/ OtherProcess
           \/ UNCHANGED vars
    PROVE  IInv'
<1>1. /\ UNCHANGED <<fields, locals, serving, cancelled, shutdown, closed>>
      /\ port' # port => port \notin Instances /\ port' \notin Instances
    BY PortAssumption DEF RequestArrives, RequestEnds, OtherProcess, vars, server
<1> USE <1>1, PortAssumption DEF IInv, TypeOK, fields, locals
<1>2. OneStarter' /\ Waiting' /\ NoOldError' /\ Current'
    BY DEF OneStarter, Starting, Waiting, NoOldError, Current
<1>3. Bound'
    BY DEF Bound
<1>4. PortHolder' /\ ShutdownCause'
    BY DEF PortHolder, ShutdownCause
<1> QED BY <1>2, <1>3, <1>4

LEMMA InvStep == IInv /\ [Next]_vars => IInv'
<1> SUFFICES ASSUME IInv, [Next]_vars PROVE IInv'
    OBVIOUS
<1>1. TypeOK'
    BY TypeStep DEF IInv
<1>2. ASSUME NEW c \in Callers, CallerStep(c) PROVE IInv'
    BY <1>1, <1>2, InvBeginStart, InvListenFails, InvListen, InvPublishRunning,
       InvBeginStop, InvCallerOther DEF CallerStep
<1>3. ASSUME NEW i \in Instances, InstanceStep(i) PROVE IInv'
    BY <1>1, <1>3, InvEnterServe, InvAcceptStops, InvShutdown, InvServeReturns
       DEF InstanceStep
<1>4. CASE Environment
    BY <1>1, <1>4, InvCallerOther, InvAcceptStops, InvOutside DEF Environment, Callers
<1>5. CASE UNCHANGED vars
    BY <1>1, <1>5, InvOutside
<1> QED BY <1>2, <1>3, <1>4, <1>5 DEF Next

-----------------------------------------------------------------------------
(* The theorems *)

\* The invariant that relates the starter, the instances, the port and the fields
\* of Controller holds at every step, for any number of clicks and instances.
THEOREM Invariance == Spec => []IInv
    BY InvInit, InvStep, PTL DEF Spec

\* For any number of concurrent Start and Stop calls there is one instance at
\* most: the fields of Controller are never another instance's.
THEOREM OneInstanceAtATime == Spec => []OneInstance
<1>1. IInv => OneInstance
    <2> SUFFICES ASSUME IInv PROVE OneInstance
        OBVIOUS
    <2>1. \A c \in Callers, i \in Instances : bound[c] = i => Starting(c) /\ state = "starting"
        BY PortAssumption DEF IInv, Bound, OneStarter, Starting
    <2>2. \A i \in Instances : serving[i] # "none" => done = i /\ state # "starting"
        BY DEF IInv, Current
    <2> QED BY <2>1, <2>2 DEF IInv, OneInstance, OneStarter
<1> QED BY <1>1, Invariance, PTL

\* No Stop calls a nil cancel or waits for a channel nobody will close.
THEOREM EveryStopIsAnswered == Spec => []StopIsAnswered
<1>1. IInv => StopIsAnswered
    BY DEF IInv, StopIsAnswered, At, Current, Waiting
<1> QED BY <1>1, Invariance, PTL

\* When the service is stopped, or about to listen, its port is not its own.
THEOREM PortIsGivenBack == Spec => []PortGivenBack
<1>1. IInv => PortGivenBack
    <2> SUFFICES ASSUME IInv, port \in Instances
                 PROVE  state # "stopped" /\ \A c \in Callers : pc[c] # "listen"
        BY DEF PortGivenBack, At
    <2>1. CASE \E d \in Callers : bound[d] = port
        <3>1. PICK d \in Callers : bound[d] = port
            BY <2>1
        <3>2. pc[d] = "publish" /\ state = "starting"
            BY <3>1, PortAssumption DEF IInv, Bound, OneStarter, Starting
        <3> QED BY <3>2 DEF IInv, OneStarter, Starting
    <2>2. CASE serving[port] \in {"spawned", "accepting"}
        BY <2>2 DEF IInv, Current, OneStarter, Starting
    <2> QED BY <2>1, <2>2 DEF IInv, PortHolder
<1> QED BY <1>1, Invariance, PTL

\* The status the tray reads describes the current instance.
THEOREM StatusStaysCurrent == Spec => []StatusIsCurrent
<1>1. IInv => StatusIsCurrent
    BY DEF IInv, TypeOK, StatusIsCurrent, Current, ShutdownCause, NoOldError
<1> QED BY <1>1, Invariance, PTL

-----------------------------------------------------------------------------
(* Controller implements ServiceLifecycle *)

LEMMA RefinesInit == Init => Lifecycle!Init
    BY PortAssumption DEF Init, Lifecycle!Init, Lease

LEMMA RefinesStep ==
    IInv /\ IInv' /\ [Next]_vars => [Lifecycle!Next]_(Lifecycle!vars)
<1> SUFFICES ASSUME IInv, IInv', [Next]_vars
             PROVE  Lifecycle!Next \/ UNCHANGED <<state, Lease>>
    BY DEF Lifecycle!vars
<1> USE PortAssumption DEF Lease, At, fields, locals, server
<1>1. ASSUME NEW c \in Callers, BeginStart(c)
      PROVE  Lifecycle!Request \/ UNCHANGED <<state, Lease>>
    BY <1>1 DEF BeginStart, Lifecycle!Request
<1>2. ASSUME NEW c \in Callers, ListenFails(c)
      PROVE  Lifecycle!Refuse
    <2>1. state = "starting"
        BY <1>2 DEF ListenFails, IInv, OneStarter, Starting
    <2>2. port = Other
        <3>1. port \in Instances => \A d \in Callers : bound[d] # port
            BY <1>2 DEF ListenFails, IInv, Bound, OneStarter, Starting
        <3> QED BY <1>2, <2>1, <3>1 DEF ListenFails, IInv, TypeOK, PortHolder, Current
    <2> QED BY <1>2, <2>1, <2>2 DEF ListenFails, Lifecycle!Refuse
<1>3. ASSUME NEW c \in Callers, NEW i \in Instances, Listen(c, i)
      PROVE  Lifecycle!Acquire
    BY <1>3 DEF Listen, Lifecycle!Acquire, IInv, OneStarter, Starting
<1>4. ASSUME NEW c \in Callers, PublishRunning(c)
      PROVE  Lifecycle!Open
    <2>1. state = "starting" /\ port \in Instances
        BY <1>4 DEF PublishRunning, IInv, TypeOK, OneStarter, Starting, Bound
    <2> QED BY <1>4, <2>1 DEF PublishRunning, Lifecycle!Open
<1>5. ASSUME NEW c \in Callers, BeginStop(c)
      PROVE  Lifecycle!Ask \/ UNCHANGED <<state, Lease>>
    BY <1>5 DEF BeginStop, Lifecycle!Ask
<1>6. ASSUME NEW c \in Callers, StopReturns(c) \/ StopTimesOut(c) \/ ReadStatus(c) \/ BeginRun \/ Quit
      PROVE  UNCHANGED <<state, Lease>>
    BY <1>6 DEF StopReturns, StopTimesOut, ReadStatus, BeginRun, Quit
<1>7. ASSUME NEW i \in Instances, EnterServe(i) \/ AcceptFails(i)
      PROVE  Lifecycle!Release \/ UNCHANGED <<state, Lease>>
    <2>1. state \in {"running", "stopping"}
        BY <1>7 DEF EnterServe, AcceptFails, IInv, Current
    <2> QED BY <1>7, <2>1 DEF EnterServe, AcceptFails, ClosePort, Lifecycle!Release
<1>8. ASSUME NEW i \in Instances, BeginShutdown(i)
      PROVE  Lifecycle!Release \/ UNCHANGED <<state, Lease>>
    <2>1. serving[i] # "none" => state \in {"running", "stopping"}
        BY DEF IInv, Current
    <2> QED BY <1>8, <2>1 DEF BeginShutdown, ClosePort, Lifecycle!Release
<1>9. ASSUME NEW i \in Instances, AcceptEnds(i) \/ EndShutdown(i) \/ ShutdownTimesOut(i)
                                  \/ RequestArrives(i) \/ RequestEnds(i)
      PROVE  UNCHANGED <<state, Lease>>
    BY <1>9 DEF AcceptEnds, EndShutdown, ShutdownTimesOut, RequestArrives, RequestEnds
<1>10. ASSUME NEW i \in Instances, ServeReturns(i)
       PROVE  Lifecycle!Finish
    <2>1. state \in {"running", "stopping"} /\ state' = "stopped" /\ port' = port
        BY <1>10 DEF ServeReturns, IInv, Current
    <2>2. port' \notin Instances
        <3>1. PortGivenBack'
            BY DEF IInv, PortHolder, PortGivenBack, Bound, OneStarter, Starting, Current, At
        <3> QED BY <2>1, <3>1 DEF PortGivenBack
    <2> QED BY <2>1, <2>2 DEF Lifecycle!Finish, IInv, TypeOK
<1>11. CASE OtherProcess
    <2>1. /\ port \notin Instances /\ port' \notin Instances
          /\ port \in {Free, Other} /\ port' \in {Free, Other} /\ state' = state
        BY <1>11 DEF OtherProcess
    <2>2. Lease = port /\ Lease' = port'
        BY <2>1
    <2> QED BY <2>1, <2>2 DEF Lifecycle!Elsewhere, Lifecycle!Next
<1>12. CASE UNCHANGED vars
    BY <1>12 DEF vars
<1> QED BY <1>1, <1>2, <1>3, <1>4, <1>5, <1>6, <1>7, <1>8, <1>9, <1>10, <1>11, <1>12
        DEF Next, CallerStep, InstanceStep, Environment, Callers, Lifecycle!Next

\* Every behaviour of the controller, its callers and its servers is, seen
\* from the tray and the port, one of the simple lifecycle.
THEOREM Implementation == Spec => ImplementsLifecycle
<1>1. IInv /\ [Next]_vars => IInv'
    BY InvStep
<1> QED BY InvInit, RefinesInit, RefinesStep, <1>1, PTL
        DEF Spec, ImplementsLifecycle, Lifecycle!Spec

-----------------------------------------------------------------------------
(* The application uses its controller as Controller says it is used:      *)
(* every step of AppSpec is one of Spec or leaves its variables alone, so  *)
(* what is shown of Spec holds of the application.  And it runs on whole   *)
(* settings, because nothing of the controller has moved before they are   *)
(* read (Untouched).                                                       *)

LEMMA AppStepIsControllerStep == [AppNext]_appVars => [Next]_vars
<1> SUFFICES ASSUME [AppNext]_appVars PROVE [Next]_vars
    OBVIOUS
<1>1. CASE Load \/ Write
    BY <1>1 DEF Load, Write, Launch, Next, Environment
<1>2. CASE Truncate \/ Killed \/ Relaunch \/ ChangeFile
    BY <1>2 DEF Truncate, Killed, Relaunch, ChangeFile
<1>3. CASE MainStarts \/ DeferredStop
    BY <1>3 DEF MainStarts, DeferredStop, Callers, Next, Environment
<1>4. CASE Interrupt \/ QuitItem \/ UpdateMenu \/ RemoveIcon \/ RunReturns
    BY <1>4 DEF Interrupt, QuitItem, UpdateMenu, RemoveIcon, RunReturns
<1>5. CASE (\E c \in Clicks : Click(c)) \/ Goroutines
    BY <1>5 DEF Click, Goroutines, Callers, Next, Environment
<1>6. CASE UNCHANGED appVars
    BY <1>6 DEF appVars
<1> QED BY <1>1, <1>2, <1>3, <1>4, <1>5, <1>6 DEF AppNext

\* The program is one of the environments Controller was specified for.
THEOREM UsesController == AppSpec => Spec
<1>1. AppInit => Init
    BY DEF AppInit
<1> QED BY <1>1, AppStepIsControllerStep, PTL DEF AppSpec, Spec

\* The safety of the controller holds of the program that runs it.
THEOREM ApplicationIsSafe ==
    AppSpec => [](OneInstance /\ StopIsAnswered /\ PortGivenBack /\ StatusIsCurrent)
    BY UsesController, OneInstanceAtATime, EveryStopIsAnswered, PortIsGivenBack,
       StatusStaysCurrent, PTL

LEMMA AppTypeStep == AppTypeOK /\ TypeOK' /\ [AppNext]_appVars => AppTypeOK'
<1> SUFFICES ASSUME AppTypeOK, TypeOK', [AppNext]_appVars PROVE AppTypeOK'
    OBVIOUS
<1> USE DEF AppTypeOK, app, launch
<1>1. CASE Load \/ Truncate \/ Write
    <2>1. /\ file' \in {"missing", "cut", "invalid", "whole"}
          /\ settings' \in {None, "whole"}
          /\ step' \in {"load", "save", "write", "failed", "starting", "tray", "headless", "leave"}
        BY <1>1 DEF Load, Truncate, Write, Launch, Accepts
    <2>2. rival' \in BOOLEAN /\ noTray' \in BOOLEAN /\ ctxDone' \in BOOLEAN
        BY <1>1 DEF Load, Truncate, Write, Launch, Accepts
    <2>3. up' \in BOOLEAN /\ enabled' \in BOOLEAN
        BY <1>1 DEF Load, Truncate, Write, Launch, Accepts
    <2>4. up' => step' = "tray"
        BY <1>1 DEF Load, Truncate, Write, Launch, Accepts
    <2> QED BY <2>1, <2>2, <2>3, <2>4
<1>2. CASE Killed \/ Relaunch \/ ChangeFile
    <2>1. /\ file' \in {"missing", "cut", "invalid", "whole"}
          /\ settings' \in {None, "whole"}
          /\ step' \in {"load", "save", "write", "failed", "starting", "tray", "headless", "leave"}
        BY <1>2 DEF Killed, Relaunch, ChangeFile
    <2>2. rival' \in BOOLEAN /\ noTray' \in BOOLEAN /\ ctxDone' \in BOOLEAN
        BY <1>2 DEF Killed, Relaunch, ChangeFile
    <2>3. up' \in BOOLEAN /\ enabled' \in BOOLEAN
        BY <1>2 DEF Killed, Relaunch, ChangeFile
    <2>4. up' => step' = "tray"
        BY <1>2 DEF Killed, Relaunch, ChangeFile
    <2> QED BY <2>1, <2>2, <2>3, <2>4
<1>4. CASE MainStarts
    BY <1>4 DEF MainStarts
<1>5. CASE Interrupt \/ QuitItem \/ UpdateMenu \/ RemoveIcon \/ RunReturns
    <2>1. /\ file' \in {"missing", "cut", "invalid", "whole"}
          /\ settings' \in {None, "whole"}
          /\ step' \in {"load", "save", "write", "failed", "starting", "tray", "headless", "leave"}
        BY <1>5 DEF Interrupt, QuitItem, UpdateMenu, RemoveIcon, RunReturns
    <2>2. rival' \in BOOLEAN /\ noTray' \in BOOLEAN /\ ctxDone' \in BOOLEAN
        BY <1>5 DEF Interrupt, QuitItem, UpdateMenu, RemoveIcon, RunReturns
    <2>3. up' \in BOOLEAN /\ enabled' \in BOOLEAN
        <3>1. CASE UpdateMenu
            BY <3>1 DEF UpdateMenu
        <3>2. CASE Interrupt \/ QuitItem \/ RemoveIcon \/ RunReturns
            BY <3>2 DEF Interrupt, QuitItem, RemoveIcon, RunReturns
        <3> QED BY <1>5, <3>1, <3>2
    <2>4. up' => step' = "tray"
        BY <1>5 DEF Interrupt, QuitItem, UpdateMenu, RemoveIcon, RunReturns
    <2> QED BY <2>1, <2>2, <2>3, <2>4
<1>6. CASE DeferredStop \/ (\E c \in Clicks : Click(c)) \/ (Goroutines /\ UNCHANGED app)
    BY <1>6 DEF DeferredStop, Click
<1>7. CASE UNCHANGED appVars
    BY <1>7 DEF appVars
<1> QED BY <1>1, <1>2, <1>4, <1>5, <1>6, <1>7 DEF AppNext

\* The program keeps its types, those of its controller included.
THEOREM AppTypeCorrect == AppSpec => []AppTypeOK
<1>1. AppInit /\ TypeOK => AppTypeOK
    BY DEF AppInit, AppTypeOK
<1>2. AppSpec => []TypeOK
    BY UsesController, TypeCorrect, PTL
<1> QED BY <1>1, <1>2, AppTypeStep, PTL DEF AppSpec

-----------------------------------------------------------------------------

\* Before the settings are read no goroutine of the controller has moved.
Untouched ==
    /\ settings \in {None, "whole"}
    /\ settings # "whole" =>
        /\ state = "stopped"
        /\ step \in {"load", "save", "write", "failed"}
        /\ ~up
        /\ \A c \in Callers : pc[c] \in {"load", "idle"}

LEMMA UntouchedStep == IInv /\ Untouched /\ [AppNext]_appVars => Untouched'
<1> SUFFICES ASSUME IInv, Untouched, [AppNext]_appVars PROVE Untouched'
    OBVIOUS
<1> USE DEF Untouched
<1>1. CASE Load
    BY <1>1 DEF Load, Launch, Accepts, vars, fields, locals
<1>2. CASE Write
    BY <1>2 DEF Write, Launch
<1>3. CASE Truncate \/ Killed \/ Relaunch \/ ChangeFile
    BY <1>3 DEF Truncate, Killed, Relaunch, ChangeFile, launch, vars, fields, locals
<1>4. CASE MainStarts \/ DeferredStop
    BY <1>4 DEF MainStarts, DeferredStop, app, launch
<1>5. CASE Interrupt \/ QuitItem \/ UpdateMenu \/ RemoveIcon \/ RunReturns
    BY <1>5 DEF Interrupt, QuitItem, UpdateMenu, RemoveIcon, RunReturns, launch
<1>6. CASE \E c \in Clicks : Click(c)
    BY <1>6 DEF Click, app, launch
<1>7. CASE Goroutines /\ UNCHANGED app
    <2> SUFFICES ASSUME settings # "whole" PROVE UNCHANGED <<state, pc>>
        BY <1>7 DEF app, launch
    <2>1. ASSUME NEW c \in Clicks, CallerStep(c) PROVE FALSE
        BY <2>1 DEF CallerStep, BeginStart, ListenFails, Listen, PublishRunning, BeginStop,
                    StopReturns, StopTimesOut, At, Callers
    <2>2. ASSUME NEW i \in Instances,
                 InstanceStep(i) \/ AcceptFails(i) \/ RequestArrives(i) \/ RequestEnds(i)
          PROVE  UNCHANGED <<state, pc>>
        BY <2>2 DEF IInv, Current, InstanceStep, EnterServe, AcceptEnds, BeginShutdown,
                    EndShutdown, ShutdownTimesOut, ServeReturns, AcceptFails,
                    RequestArrives, RequestEnds, fields, locals
    <2>3. CASE OtherProcess
        BY <2>3 DEF OtherProcess, fields, locals
    <2> QED BY <1>7, <2>1, <2>2, <2>3 DEF Goroutines
<1>8. CASE UNCHANGED appVars
    BY <1>8 DEF appVars, app, launch, vars, fields, locals
<1> QED BY <1>1, <1>2, <1>3, <1>4, <1>5, <1>6, <1>7, <1>8 DEF AppNext

\* No server and no icon under settings that were cut short, whoever was
\* writing the file when it was read.
THEOREM SettingsAreWhole == AppSpec => []RunsOnWholeSettings
<1>1. AppInit => Untouched
    BY DEF AppInit, Init, Untouched
<1>2. IInv /\ Untouched => RunsOnWholeSettings
    BY PortAssumption DEF IInv, Untouched, RunsOnWholeSettings, PortHolder, Bound, Current
<1>3. AppSpec => []IInv
    BY UsesController, Invariance, PTL
<1> QED BY <1>1, <1>2, <1>3, UntouchedStep, PTL DEF AppSpec
=============================================================================
