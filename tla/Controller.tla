------------------------------ MODULE Controller ------------------------------
(***************************************************************************)
(* The dashboard's lifecycle: Controller (internal/service/controller.go), *)
(* Server.Serve (internal/server/server.go), the tray's toggleServer       *)
(* (internal/tray/tray.go) and the calls of main.go, as concurrent         *)
(* goroutines: any number of clicks on Start/Stop, the main goroutine, one *)
(* serving goroutine and one shutdown goroutine per start.                 *)
(*                                                                         *)
(* A critical section of Controller.mu is one step: none of them blocks.   *)
(* An instance stands for everything one start creates: listener, context, *)
(* done channel, http.Server.  Of net/http it is used that Shutdown closes *)
(* the listeners Serve has registered and then waits for requests, and     *)
(* that Serve closes its listener when it returns, with ErrServerClosed if *)
(* Shutdown was called before.                                             *)
(***************************************************************************)
EXTENDS Integers, FiniteSets

CONSTANTS
    Clicks,         \* goroutines of the tray's Start/Stop item
    Main,           \* the main goroutine
    Instances,      \* one per start
    MaxRequests,    \* bound: requests an instance has in flight
    Free,           \* nobody listens on the port
    Other,          \* another process does
    None

Callers == Clicks \cup {Main}

ASSUME MainAssumption == Main \notin Clicks
ASSUME PortAssumption ==
    /\ Free # Other /\ Free # None /\ Other # None
    /\ {Free, Other, None} \cap Instances = {}
ASSUME RequestsAssumption == MaxRequests \in Nat

VARIABLES
    state,      \* Controller.state
    lastError,  \* Controller.lastError # nil
    cancel,     \* Controller.cancel: the instance whose context it cancels
    done,       \* Controller.done: the instance whose end closes it
    pc,         \* caller -> where it is in Start, Stop or toggleServer
    bound,      \* caller -> the instance whose listener it has opened
    awaits,     \* caller -> the instance whose done channel Stop waits for
    serving,    \* instance -> how far its serving goroutine is
    cancelled,  \* instance -> its context is cancelled
    shutdown,   \* instance -> how far its shutdown goroutine is
    closed,     \* instance -> its done channel is closed
    requests,   \* instance -> requests in flight
    port        \* who listens: Free, Other or an instance

fields == <<state, lastError, cancel, done>>
locals == <<pc, bound, awaits>>
server == <<serving, cancelled, shutdown, closed, requests>>
vars == <<fields, locals, server, port>>

States == {"stopped", "starting", "running", "stopping"}

Init ==
    /\ state = "stopped"
    /\ lastError = FALSE
    /\ cancel = None
    /\ done = None
    /\ pc = [c \in Callers |-> IF c = Main THEN "load" ELSE "idle"]
    /\ bound = [c \in Callers |-> None]
    /\ awaits = [c \in Callers |-> None]
    /\ serving = [i \in Instances |-> "none"]
    /\ cancelled = [i \in Instances |-> FALSE]
    /\ shutdown = [i \in Instances |-> "done"]
    /\ closed = [i \in Instances |-> TRUE]
    /\ requests = [i \in Instances |-> 0]
    /\ port \in {Free, Other}

-----------------------------------------------------------------------------
(* Callers *)

At(c, where) == pc[c] = where
Goto(c, where) == pc' = [pc EXCEPT ![c] = where]

\* run has read the configuration: it starts the server, or leaves that to the
\* tray.
BeginRun ==
    /\ At(Main, "load")
    /\ \E next \in {"start", "idle"} : Goto(Main, next)
    /\ UNCHANGED <<fields, bound, awaits, server, port>>

\* main has nothing more to do after its deferred StopWithTimeout.
AfterStop(c) == IF c = Main THEN "exit" ELSE "idle"

\* toggleServer: the status is read here and acted on in a later step.
ReadStatus(c) ==
    /\ c \in Clicks
    /\ At(c, "idle")
    /\ \/ state = "running" /\ Goto(c, "stop")
       \/ state = "stopped" /\ Goto(c, "start")
    /\ UNCHANGED <<fields, bound, awaits, server, port>>

\* A signal, Quit or the end of the tray: run returns to its deferred Stop.
Quit ==
    /\ At(Main, "idle")
    /\ Goto(Main, "stop")
    /\ UNCHANGED <<fields, bound, awaits, server, port>>

\* Faulty: Start does not look out for a stop in progress.
BeginStartWhileStopping(c) ==
    /\ At(c, "start")
    /\ IF state \in {"stopped", "stopping"}
         THEN /\ state' = "starting"
              /\ lastError' = FALSE
              /\ Goto(c, "listen")
         ELSE /\ Goto(c, "idle")
              /\ UNCHANGED <<state, lastError>>
    /\ UNCHANGED <<cancel, done, bound, awaits, server, port>>

\* Faulty: the error of the last run is kept.
BeginStartKeepsError(c) ==
    /\ At(c, "start")
    /\ IF state = "stopped"
         THEN state' = "starting" /\ Goto(c, "listen")
         ELSE Goto(c, "idle") /\ UNCHANGED state
    /\ UNCHANGED <<lastError, cancel, done, bound, awaits, server, port>>

\* Start up to its first Unlock.
BeginStart(c) ==
    /\ At(c, "start")
    /\ IF state = "stopped"
         THEN /\ state' = "starting"
              /\ lastError' = FALSE
              /\ Goto(c, "listen")
         ELSE /\ Goto(c, "idle")
              /\ UNCHANGED <<state, lastError>>
    /\ UNCHANGED <<cancel, done, bound, awaits, server, port>>

\* net.Listen fails: the port is taken.
ListenFails(c) ==
    /\ At(c, "listen")
    /\ port # Free
    /\ state' = "stopped"
    /\ lastError' = TRUE
    /\ Goto(c, "idle")
    /\ UNCHANGED <<cancel, done, bound, awaits, server, port>>

\* An instance nothing refers to any more stands for a new one.
Unused(i) ==
    /\ serving[i] = "none"
    /\ shutdown[i] = "done"
    /\ \A c \in Callers : awaits[c] # i

Listen(c, i) ==
    /\ At(c, "listen")
    /\ port = Free
    /\ Unused(i)
    /\ port' = i
    /\ bound' = [bound EXCEPT ![c] = i]
    /\ cancelled' = [cancelled EXCEPT ![i] = FALSE]
    /\ shutdown' = [shutdown EXCEPT ![i] = "waiting"]
    /\ closed' = [closed EXCEPT ![i] = FALSE]
    /\ requests' = [requests EXCEPT ![i] = 0]
    /\ Goto(c, "publish")
    /\ UNCHANGED <<fields, awaits, serving>>

\* Start's second critical section, and the go statement.
PublishRunning(c) ==
    LET i == bound[c]
    IN  /\ At(c, "publish")
        /\ state' = "running"
        /\ cancel' = i
        /\ done' = i
        /\ serving' = [serving EXCEPT ![i] = "spawned"]
        /\ bound' = [bound EXCEPT ![c] = None]
        /\ Goto(c, "idle")
        /\ UNCHANGED <<lastError, awaits, cancelled, shutdown, closed, requests, port>>

\* Faulty: the service is called stopped as soon as it is told to.
BeginStopAtOnce(c) ==
    /\ At(c, "stop")
    /\ IF state \in {"stopped", "starting"}
         THEN /\ Goto(c, AfterStop(c))
              /\ UNCHANGED <<state, awaits, cancelled>>
         ELSE /\ awaits' = [awaits EXCEPT ![c] = done]
              /\ Goto(c, "wait")
              /\ state' = "stopped"
              /\ cancelled' = [cancelled EXCEPT ![cancel] = TRUE]
    /\ UNCHANGED <<lastError, cancel, done, bound, serving, shutdown, closed, requests, port>>

\* Stop up to its Unlock: return, refuse, or cancel and wait for done.
BeginStop(c) ==
    /\ At(c, "stop")
    /\ IF state \in {"stopped", "starting"}
         THEN /\ Goto(c, AfterStop(c))
              /\ UNCHANGED <<state, awaits, cancelled>>
         ELSE /\ awaits' = [awaits EXCEPT ![c] = done]
              /\ Goto(c, "wait")
              /\ IF state = "running"
                   THEN /\ state' = "stopping"
                        /\ cancelled' = [cancelled EXCEPT ![cancel] = TRUE]
                   ELSE UNCHANGED <<state, cancelled>>
    /\ UNCHANGED <<lastError, cancel, done, bound, serving, shutdown, closed, requests, port>>

StopReturns(c) ==
    /\ At(c, "wait")
    /\ closed[awaits[c]]
    /\ awaits' = [awaits EXCEPT ![c] = None]
    /\ Goto(c, AfterStop(c))
    /\ UNCHANGED <<fields, bound, server, port>>

\* The context of StopWithTimeout expires first.
StopTimesOut(c) ==
    /\ At(c, "wait")
    /\ awaits' = [awaits EXCEPT ![c] = None]
    /\ Goto(c, AfterStop(c))
    /\ UNCHANGED <<fields, bound, server, port>>

-----------------------------------------------------------------------------
(* Server.Serve and its shutdown goroutine *)

ClosePort(i) == port' = IF port = i THEN Free ELSE port

\* http.Server.Serve registers the listener, or finds Shutdown already called.
EnterServe(i) ==
    /\ serving[i] = "spawned"
    /\ IF shutdown[i] = "waiting"
         THEN /\ serving' = [serving EXCEPT ![i] = "accepting"]
              /\ UNCHANGED port
         ELSE /\ serving' = [serving EXCEPT ![i] = "closed"]
              /\ ClosePort(i)
    /\ UNCHANGED <<fields, locals, cancelled, shutdown, closed, requests>>

\* Accept fails for good: Serve returns at once, cancelling its own context.
AcceptFails(i) ==
    /\ serving[i] = "accepting"
    /\ shutdown[i] = "waiting"
    /\ serving' = [serving EXCEPT ![i] = "failed"]
    /\ cancelled' = [cancelled EXCEPT ![i] = TRUE]
    /\ ClosePort(i)
    /\ UNCHANGED <<fields, locals, shutdown, closed, requests>>

\* Accept returns because Shutdown closed the listener: ErrServerClosed.
AcceptEnds(i) ==
    /\ serving[i] = "accepting"
    /\ shutdown[i] # "waiting"
    /\ serving' = [serving EXCEPT ![i] = "closed"]
    /\ UNCHANGED <<fields, locals, cancelled, shutdown, closed, requests, port>>

BeginShutdown(i) ==
    /\ shutdown[i] = "waiting"
    /\ cancelled[i]
    /\ shutdown' = [shutdown EXCEPT ![i] = "draining"]
    /\ IF serving[i] = "accepting" THEN ClosePort(i) ELSE UNCHANGED port
    /\ UNCHANGED <<fields, locals, serving, cancelled, closed, requests>>

\* Shutdown returns when no request is left.
EndShutdown(i) ==
    /\ shutdown[i] = "draining"
    /\ requests[i] = 0
    /\ shutdown' = [shutdown EXCEPT ![i] = "done"]
    /\ UNCHANGED <<fields, locals, serving, cancelled, closed, requests, port>>

\* Faulty: Shutdown is given a context without a timeout.
ShutdownNeverTimesOut(i) ==
    /\ shutdown[i] = "draining"
    /\ requests[i] = 0
    /\ shutdown' = [shutdown EXCEPT ![i] = "done"]
    /\ UNCHANGED <<fields, locals, serving, cancelled, closed, requests, port>>

\* The five seconds pass first: requests are left to themselves.
ShutdownTimesOut(i) ==
    /\ shutdown[i] = "draining"
    /\ shutdown' = [shutdown EXCEPT ![i] = "done"]
    /\ UNCHANGED <<fields, locals, serving, cancelled, closed, requests, port>>

\* Faulty: the done channel is dropped without being closed.
ServeReturnsSilently(i) ==
    /\ \/ serving[i] = "closed" /\ shutdown[i] = "done"
       \/ serving[i] = "failed"
    /\ lastError' = (lastError \/ serving[i] = "failed")
    /\ state' = "stopped"
    /\ cancel' = None
    /\ done' = None
    /\ serving' = [serving EXCEPT ![i] = "none"]
    /\ UNCHANGED <<locals, cancelled, shutdown, closed, requests, port>>

\* Serve returns to the goroutine of Start, which takes the lock.  After
\* ErrServerClosed it has first waited for the shutdown goroutine.
ServeReturns(i) ==
    /\ \/ serving[i] = "closed" /\ shutdown[i] = "done"
       \/ serving[i] = "failed"
    /\ lastError' = (lastError \/ serving[i] = "failed")
    /\ state' = "stopped"
    /\ cancel' = None
    /\ done' = None
    /\ serving' = [serving EXCEPT ![i] = "none"]
    /\ closed' = [closed EXCEPT ![i] = TRUE]
    /\ UNCHANGED <<locals, cancelled, shutdown, requests, port>>

RequestArrives(i) ==
    /\ serving[i] = "accepting"
    /\ port = i
    /\ requests[i] < MaxRequests
    /\ requests' = [requests EXCEPT ![i] = @ + 1]
    /\ UNCHANGED <<fields, locals, serving, cancelled, shutdown, closed, port>>

RequestEnds(i) ==
    /\ requests[i] > 0
    /\ requests' = [requests EXCEPT ![i] = @ - 1]
    /\ UNCHANGED <<fields, locals, serving, cancelled, shutdown, closed, port>>

\* Another process takes or leaves the port.
OtherProcess ==
    /\ port \in {Free, Other}
    /\ port' \in {Free, Other} \ {port}
    /\ UNCHANGED <<fields, locals, server>>

-----------------------------------------------------------------------------

CallerStep(c) ==
    \/ BeginStart(c)
    \/ ListenFails(c)
    \/ \E i \in Instances : Listen(c, i)
    \/ PublishRunning(c)
    \/ BeginStop(c)
    \/ StopReturns(c)
    \/ StopTimesOut(c)

InstanceStep(i) ==
    \/ EnterServe(i)
    \/ AcceptEnds(i)
    \/ BeginShutdown(i)
    \/ EndShutdown(i)
    \/ ShutdownTimesOut(i)
    \/ ServeReturns(i)

Environment ==
    \/ BeginRun
    \/ \E c \in Callers : ReadStatus(c)
    \/ Quit
    \/ \E i \in Instances : AcceptFails(i) \/ RequestArrives(i) \/ RequestEnds(i)
    \/ OtherProcess

Next ==
    \/ \E c \in Callers : CallerStep(c)
    \/ \E i \in Instances : InstanceStep(i)
    \/ Environment

Spec == Init /\ [][Next]_vars

-----------------------------------------------------------------------------
(* Properties *)

TypeOK ==
    /\ state \in States
    /\ lastError \in BOOLEAN
    /\ cancel \in Instances \cup {None}
    /\ done \in Instances \cup {None}
    /\ pc \in [Callers -> {"load", "idle", "start", "listen", "publish", "stop", "wait", "exit"}]
    /\ bound \in [Callers -> Instances \cup {None}]
    /\ awaits \in [Callers -> Instances \cup {None}]
    /\ serving \in [Instances -> {"none", "spawned", "accepting", "closed", "failed"}]
    /\ cancelled \in [Instances -> BOOLEAN]
    /\ shutdown \in [Instances -> {"waiting", "draining", "done"}]
    /\ closed \in [Instances -> BOOLEAN]
    /\ requests \in [Instances -> 0..MaxRequests]
    /\ port \in Instances \cup {Free, Other}

\* However clicks, failures and the end of the program interleave, at most one
\* instance is bound or serving, so the fields of Controller describe the one
\* there is and its end cannot overwrite a successor's.
OneInstance ==
    \A i, j \in Instances :
        /\ serving[i] # "none" \/ \E c \in Callers : bound[c] = i
        /\ serving[j] # "none" \/ \E c \in Callers : bound[c] = j
        => i = j

\* Stop never calls a nil cancel and never waits on a channel nobody will
\* close: the instance it waits for is the current one, or has ended.
StopIsAnswered ==
    /\ state \in {"running", "stopping"} => cancel # None /\ cancel = done
    /\ \A c \in Callers : At(c, "wait") =>
        /\ awaits[c] # None
        /\ closed[awaits[c]] \/ (awaits[c] = done /\ state = "stopping")

\* Our own listener never makes a later Start fail: whenever the service is
\* stopped or about to listen, the port is not held by any instance.
PortGivenBack ==
    /\ state = "stopped" => port \notin Instances
    /\ \A c \in Callers : At(c, "listen") => port \notin Instances

\* What the tray shows: while "Running", the address shown is listened on by
\* the current instance, unless its Accept has just failed; and the error of an
\* earlier run is not shown with a later one.
StatusIsCurrent ==
    /\ state = "running" => port = done \/ serving[done] = "failed"
    /\ state # "stopped" => ~lastError

\* A stop completes even while a request never ends.
StopCompletes == state = "stopping" ~> state = "stopped"

Lease == IF port \in Instances THEN None ELSE port

Lifecycle == INSTANCE ServiceLifecycle
    WITH phase <- state, lease <- Lease, Ours <- None

\* The controller implements the lifecycle it promises to the tray and to main.
ImplementsLifecycle == Lifecycle!Spec

=============================================================================
