------------------------------ MODULE Dashboard ------------------------------
(***************************************************************************)
(* The page in the browser (web/static/app.js) and the two handlers it     *)
(* asks (internal/server/handlers.go), reading usage that goes on being    *)
(* published (PublishedUsage) from a server that is stopped and started.   *)
(*                                                                         *)
(* Every ten seconds the page asks for /api/status and /api/stats at once  *)
(* and waits for both, whether the refreshes before have ended or not.     *)
(* Requests are handled, and answers arrive, in any order.                 *)
(***************************************************************************)
EXTENDS PublishedUsage

CONSTANTS
    Refreshes,  \* bound: calls of refresh() that are under way at a time
    Pending,    \* no answer yet
    Failure     \* the request failed, or the answer was cut off

ASSUME AnswersAssumption == Pending # Failure

VARIABLES
    serving,        \* the server accepts requests
    asking,         \* refresh -> it is under way
    reached,        \* refresh -> a server was there since it began
    statusAnswer,   \* refresh -> whether /api/status reported an error
    statsAnswer,    \* refresh -> the version /api/stats answered with
    since,          \* history: refresh -> what was published when it began
    shown,          \* version in the page's cards and charts; None before
    consumption,    \* version in its Consumption tab
    label           \* its status label

page == <<shown, consumption, label>>
requests == <<asking, reached, statusAnswer, statsAnswer, since>>
vars == <<usage, serving, requests, page>>

None == -2
Versions == 0..MaxVersion
Shown == {None, Blank} \cup Versions

Init ==
    /\ InitUsage
    /\ serving \in BOOLEAN
    /\ asking = [f \in Refreshes |-> FALSE]
    /\ reached = [f \in Refreshes |-> FALSE]
    /\ statusAnswer = [f \in Refreshes |-> Pending]
    /\ statsAnswer = [f \in Refreshes |-> Pending]
    /\ since = [f \in Refreshes |-> None]
    /\ shown = None
    /\ consumption = None
    /\ label = "connecting"

-----------------------------------------------------------------------------
\* Usage is published whether anyone reads it or not.
Publish ==
    /\ UsageNext
    /\ UNCHANGED <<serving, requests, page>>

\* The tray stops or starts the server.
StartStop ==
    /\ serving' = ~serving
    /\ reached' = IF serving THEN reached ELSE asking
    /\ UNCHANGED <<usage, asking, statusAnswer, statsAnswer, since, page>>

\* Faulty: the timer is stopped when the page has lost its server.
AskUnlessDisconnected(f) ==
    /\ ~asking[f]
    /\ label # "disconnected"
    /\ asking' = [asking EXCEPT ![f] = TRUE]
    /\ reached' = [reached EXCEPT ![f] = serving]
    /\ since' = [since EXCEPT ![f] = stats]
    /\ UNCHANGED <<usage, serving, statusAnswer, statsAnswer, page>>

\* refresh(), once when the page is loaded and then by the timer.
Ask(f) ==
    /\ ~asking[f]
    /\ asking' = [asking EXCEPT ![f] = TRUE]
    /\ reached' = [reached EXCEPT ![f] = serving]
    /\ since' = [since EXCEPT ![f] = stats]
    /\ UNCHANGED <<usage, serving, statusAnswer, statsAnswer, page>>

\* A server that is stopped still answers the requests it has accepted.
Handled(f) == asking[f] /\ (serving \/ reached[f])

\* GET /api/status
AnswerStatus(f) ==
    /\ Handled(f)
    /\ statusAnswer[f] = Pending
    /\ statusAnswer' = [statusAnswer EXCEPT ![f] = IF warned THEN "error" ELSE "none"]
    /\ UNCHANGED <<usage, serving, asking, reached, statsAnswer, since, page>>

\* Faulty: without no-store the browser may answer for the server.
AnswerStatsFromStore(f) ==
    /\ Handled(f)
    /\ statsAnswer[f] = Pending
    /\ statsAnswer' = [statsAnswer EXCEPT ![f] = IF shown = None THEN stats ELSE shown]
    /\ UNCHANGED <<usage, serving, asking, reached, statusAnswer, since, page>>

\* GET /api/stats; the answer must not be stored.
AnswerStats(f) ==
    /\ Handled(f)
    /\ statsAnswer[f] = Pending
    /\ statsAnswer' = [statsAnswer EXCEPT ![f] = stats]
    /\ UNCHANGED <<usage, serving, asking, reached, statusAnswer, since, page>>

\* Nobody listens, or the server ends before the answer is complete.
\* Promise.all gives up at the first failure and ignores the other answer.
RequestFails(f) ==
    /\ asking[f] /\ ~serving
    /\ statsAnswer[f] # Failure
    /\ statusAnswer' = [statusAnswer EXCEPT ![f] = Failure]
    /\ statsAnswer' = [statsAnswer EXCEPT ![f] = Failure]
    /\ UNCHANGED <<usage, serving, asking, reached, since, page>>

Over(f) ==
    /\ asking' = [asking EXCEPT ![f] = FALSE]
    /\ reached' = [reached EXCEPT ![f] = FALSE]
    /\ statusAnswer' = [statusAnswer EXCEPT ![f] = Pending]
    /\ statsAnswer' = [statsAnswer EXCEPT ![f] = Pending]
    /\ since' = [since EXCEPT ![f] = None]
    /\ UNCHANGED <<usage, serving>>

\* renderConsumption: statistics without a ledger for the chosen provider, as
\* the zero Stats is, leave the tab as it was.
ConsumptionAfter(v) == IF v = Blank THEN consumption ELSE v

\* Both answers are there: renderStats, then the label.
Render(f) ==
    /\ asking[f]
    /\ statusAnswer[f] \notin {Pending, Failure}
    /\ statsAnswer[f] \notin {Pending, Failure}
    /\ shown' = statsAnswer[f]
    /\ consumption' = ConsumptionAfter(statsAnswer[f])
    /\ label' = IF statusAnswer[f] # "none" THEN "warning" ELSE "live"
    /\ Over(f)

\* Faulty: a refresh that fails leaves the page as it was.
DisconnectSilently(f) ==
    /\ asking[f]
    /\ statsAnswer[f] = Failure
    /\ Over(f)
    /\ UNCHANGED page

\* The catch of refresh(): nothing else is rendered.
Disconnect(f) ==
    /\ asking[f]
    /\ statsAnswer[f] = Failure
    /\ label' = "disconnected"
    /\ Over(f)
    /\ UNCHANGED <<shown, consumption>>

Answered(f) == AnswerStatus(f) \/ AnswerStats(f) \/ RequestFails(f)

Next ==
    \/ Publish
    \/ StartStop
    \/ \E f \in Refreshes : Ask(f) \/ Answered(f) \/ Render(f) \/ Disconnect(f)

Spec == Init /\ [][Next]_vars

\* The timer of the page fires, a request is answered or fails (the server's
\* end resets its connections), and the page handles what it got.  Nothing is
\* assumed of the publisher or of the tray.
FairSpec ==
    /\ Spec
    /\ \A f \in Refreshes :
           /\ WF_vars(Ask(f))
           /\ WF_vars(Answered(f))
           /\ WF_vars(Render(f) \/ Disconnect(f))

-----------------------------------------------------------------------------
TypeOK ==
    /\ read \in Versions
    /\ stats \in {Blank} \cup Versions
    /\ warned \in BOOLEAN
    /\ serving \in BOOLEAN
    /\ asking \in [Refreshes -> BOOLEAN]
    /\ reached \in [Refreshes -> BOOLEAN]
    /\ statusAnswer \in [Refreshes -> {Pending, Failure, "none", "error"}]
    /\ statsAnswer \in [Refreshes -> {Pending, Failure, Blank} \cup Versions]
    /\ since \in [Refreshes -> Shown]
    /\ shown \in Shown
    /\ consumption \in {None} \cup Versions
    /\ label \in {"connecting", "live", "warning", "disconnected"}

\* However the refreshes of the page overlap and however late their answers
\* come: what a refresh renders is at least as new as what was published when
\* it began (or the empty statistics).  So a rendering goes back in time by no
\* more than the refreshes that were under way together.
RenderedIsFresh ==
    [][\A f \in Refreshes :
          asking[f] /\ ~asking'[f] /\ label' # "disconnected"
          => shown' = Blank \/ shown' >= since[f]]_vars

\* Status and statistics are asked for separately and may be of different
\* refreshes, and an older answer may be rendered last; but when the published
\* usage stays as it is and the server is up, the page comes to show it, with
\* the warning that belongs to it, in all of its tabs, and stays with it, also
\* after it had lost the server.
PageCatchesUp ==
    \A v \in {Blank} \cup Versions, w \in BOOLEAN :
        <>[](serving /\ stats = v /\ warned = w)
        => <>[](/\ shown = v /\ (v # Blank => consumption = v)
                /\ label = IF w THEN "warning" ELSE "live")

\* A page whose server has been stopped for good comes to say so, whatever
\* answers were still on their way.
DisconnectIsShown == <>[]~serving => <>[](label = "disconnected")
=============================================================================
