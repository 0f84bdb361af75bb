--------------------------- MODULE ServiceLifecycle ---------------------------
(***************************************************************************)
(* What the dashboard service promises: a phase that moves through         *)
(* stopped, starting, running, stopping and back, and a TCP port that the  *)
(* service holds only while starting, running or stopping.  Controller is  *)
(* shown to implement it.                                                  *)
(***************************************************************************)
CONSTANTS Free, Ours, Other     \* who holds the port

VARIABLES phase, lease

vars == <<phase, lease>>

Phases == {"stopped", "starting", "running", "stopping"}

Init == phase = "stopped" /\ lease \in {Free, Other}

Request ==
    /\ phase = "stopped"
    /\ phase' = "starting"
    /\ UNCHANGED lease

Acquire ==
    /\ phase = "starting"
    /\ lease = Free
    /\ lease' = Ours
    /\ UNCHANGED phase

\* A start fails only because another process has the port.
Refuse ==
    /\ phase = "starting"
    /\ lease = Other
    /\ phase' = "stopped"
    /\ UNCHANGED lease

Open ==
    /\ phase = "starting"
    /\ lease = Ours
    /\ phase' = "running"
    /\ UNCHANGED lease

Ask ==
    /\ phase = "running"
    /\ phase' = "stopping"
    /\ UNCHANGED lease

Release ==
    /\ phase \in {"running", "stopping"}
    /\ lease = Ours
    /\ lease' = Free
    /\ UNCHANGED phase

\* The service is reported stopped only after the port is given back.
Finish ==
    /\ phase \in {"running", "stopping"}
    /\ lease # Ours
    /\ phase' = "stopped"
    /\ UNCHANGED lease

Elsewhere ==
    /\ lease \in {Free, Other}
    /\ lease' \in {Free, Other}
    /\ UNCHANGED phase

Next == Request \/ Acquire \/ Refuse \/ Open \/ Ask \/ Release \/ Finish \/ Elsewhere

Spec == Init /\ [][Next]_vars

=============================================================================
