----------------------------- MODULE CodexLimits -----------------------------
(***************************************************************************)
(* QuotaTracker with the Codex client in detail (internal/quota/codex.go): *)
(* Fetch starts "codex app-server", writes a request to its standard input *)
(* and reads replies from its standard output, twice, and kills it; after  *)
(* twenty seconds, or when the application ends, it is killed in any case. *)
(* The command is the app-server itself: a wrapper that hands its output   *)
(* on to a child of its own is not modelled.                               *)
(*                                                                         *)
(* refreshMu lets one Fetch run at a time, so there is one app-server at   *)
(* most.  The app-server is external: it answers requests in their order,  *)
(* may notify in between, and as long as faults are left it may answer     *)
(* with an error or rubbish, stop answering, or end.                       *)
(***************************************************************************)
EXTENDS QuotaTracker

CONSTANT MaxNotes   \* bound: notifications during a fetch

ASSUME NotesAssumption == MaxNotes \in Nat

VARIABLES
    step,       \* where Fetch is
    process,    \* the app-server: "none", "runs" or "ended"
    stdin,      \* requests it has not read
    stdout,     \* messages the client has not read
    greeted,    \* the app-server has answered initialize
    notes

client == <<step, process, stdin, stdout, greeted, notes>>
allVars == <<vars, client>>

\* Replies carry the id of their request, a notification none (0).
Rubbish == [id |-> 0, body |-> "rubbish"]
Messages == [id : 0..2, body : {"result", "limits", "bare", "error", "rubbish"}]

Fetching(r) == pc[r] = "wait" /\ asking[r] = Codex

Idle == /\ step = "idle" /\ process = "none" /\ stdin = <<>> /\ stdout = <<>>
        /\ greeted = FALSE /\ notes = 0

ClientInit == Init /\ Idle

\* The command is found.
Begin(r) ==
    /\ asking[r] = Codex
    /\ Send(r)
    /\ step' = "start"
    /\ UNCHANGED <<process, stdin, stdout, greeted, notes>>

\* Faulty: only a fetch that fails ends its app-server.
ReapAfterError(result) ==
    IF result \in {Failed, Unavailable} THEN process' = "none" ELSE UNCHANGED process

\* The deferred function closes the input, kills and waits.
Reap(result) == process' = "none"

\* Fetch returns.  An error is counted while faults are left.
Finish(r, result) ==
    /\ Return(r, result)
    /\ Reap(result)
    /\ step' = "idle" /\ stdin' = <<>> /\ stdout' = <<>> /\ greeted' = FALSE /\ notes' = 0
    /\ faults' = IF result \in {Failed, Unavailable} /\ faults < MaxFaults
                 THEN faults + 1 ELSE faults
    /\ UNCHANGED known

MayFail == faults < MaxFaults \/ ctxDone

Start(r) ==
    /\ Fetching(r) /\ step = "start"
    /\ \/ /\ ~ctxDone
          /\ step' = "initialize"
          /\ process' = "runs"
          /\ UNCHANGED <<vars, stdin, stdout, greeted, notes>>
       \/ /\ MayFail
          /\ Finish(r, Failed)

\* Faulty: both requests at once.
RequestsTogether == <<1, 2>>

Requests == IF step = "initialize" THEN <<1>> ELSE <<2>>

\* Encode: the pipe of a process that has ended is closed.
Write(r) ==
    /\ Fetching(r) /\ step \in {"initialize", "request"}
    /\ \/ /\ process = "runs"
          /\ stdin' = stdin \o Requests
          /\ step' = IF step = "initialize" THEN "greeting" ELSE "answer"
          /\ UNCHANGED <<vars, process, stdout, greeted, notes>>
       \/ /\ process = "ended"
          /\ Finish(r, Failed)

Reading(r) == Fetching(r) /\ step \in {"greeting", "answer"}
Wanted == IF step = "greeting" THEN 1 ELSE 2

IsReply(m) == m.id = Wanted

Skip(r) ==
    /\ Reading(r) /\ stdout # <<>>
    /\ Head(stdout).body # "rubbish"
    /\ ~IsReply(Head(stdout))
    /\ stdout' = Tail(stdout)
    /\ UNCHANGED <<vars, step, process, stdin, greeted, notes>>

TakeGreeting(r) ==
    /\ Reading(r) /\ step = "greeting" /\ stdout # <<>>
    /\ Head(stdout).body \notin {"rubbish", "error"}
    /\ IsReply(Head(stdout))
    /\ step' = "request"
    /\ stdout' = Tail(stdout)
    /\ UNCHANGED <<vars, process, stdin, greeted, notes>>

Observed(w) == [observed |-> now, rank |-> 2, resets |-> w]

\* Faulty: limits without a window are a snapshot.
SnapshotsOfAny(body) ==
    IF body = "limits" THEN {Observed(w) : w \in Resets} ELSE {Observed({})}

\* parseCodexRateLimits
SnapshotsOf(body) ==
    IF body = "limits" THEN {Observed(w) : w \in Resets} ELSE {Unavailable}

TakeAnswer(r) ==
    /\ Reading(r) /\ step = "answer" /\ stdout # <<>>
    /\ Head(stdout).body \notin {"rubbish", "error"}
    /\ IsReply(Head(stdout))
    /\ \E s \in SnapshotsOf(Head(stdout).body) : Finish(r, s)

\* An error, or neither error nor result.
TakeError(r) ==
    /\ Reading(r) /\ stdout # <<>>
    /\ Head(stdout).body = "error"
    /\ IsReply(Head(stdout))
    /\ Finish(r, Unavailable)

\* Decode fails, on the cut message of a process that has ended as well.
TakeRubbish(r) ==
    /\ Reading(r) /\ stdout # <<>>
    /\ Head(stdout).body = "rubbish"
    /\ Finish(r, Failed)

AtEnd == stdout = <<>> /\ process = "ended"

\* io.EOF
ReadEnd(r) ==
    /\ Reading(r)
    /\ AtEnd
    /\ Finish(r, Unavailable)

FetchStep(r) ==
    \/ Start(r) \/ Write(r)
    \/ Skip(r) \/ TakeGreeting(r) \/ TakeAnswer(r) \/ TakeError(r) \/ TakeRubbish(r)
    \/ ReadEnd(r)

\* Twenty seconds have passed, or the application ends: CommandContext kills
\* the process.  What it has written can still be read.
Deadline ==
    /\ process = "runs" /\ MayFail
    /\ process' = "ended"
    /\ UNCHANGED <<vars, step, stdin, stdout, greeted, notes>>

-----------------------------------------------------------------------------
(* The app-server.                                                         *)

Reply ==
    /\ process = "runs" /\ stdin # <<>>
    /\ LET id == Head(stdin)
           honest == IF id = 1 THEN "result" ELSE IF greeted THEN "limits" ELSE "error"
           faulty == {"error", "rubbish"} \cup (IF id = 2 THEN {"bare"} ELSE {})
       IN  \E body \in {honest} \cup (IF MayFail THEN faulty ELSE {}) :
              /\ stdout' = Append(stdout, [id |-> id, body |-> body])
              /\ greeted' = (greeted \/ body = "result")
    /\ stdin' = Tail(stdin)
    /\ UNCHANGED <<vars, step, process, notes>>

Notify ==
    /\ process = "runs" /\ notes < MaxNotes
    /\ stdout' = Append(stdout, [id |-> 0, body |-> "result"])
    /\ notes' = notes + 1
    /\ UNCHANGED <<vars, step, process, stdin, greeted>>

End ==
    /\ process = "runs" /\ MayFail
    /\ process' = "ended"
    /\ stdout' \in {stdout, Append(stdout, Rubbish)}
    /\ UNCHANGED <<vars, step, stdin, greeted, notes>>

-----------------------------------------------------------------------------
\* What QuotaTracker does beside the fetches of the Codex client.
Others ==
    \/ TimePasses
    \/ \E p \in Enabled : ChangeAvailability(p)
    \/ \E s \in Sessions : LogLimits(s)
    \/ RefreshIndex
    \/ Tick
    \/ Quit
    \/ TakeTick
    \/ RunEnds

\* The Claude client is that of QuotaTracker.
AskClaude(r) == asking[r] = Claude /\ Send(r)
ClaudeAnswers(r) == asking[r] = Claude /\ (Receive(r) \/ ReceiveError(r))

PollStep(r) ==
    \/ Click(r) \/ LockRefresh(r) \/ FindUnavailable(r) \/ Store(r)
    \/ AskClaude(r) \/ ClaudeAnswers(r)

ClientNext ==
    \/ (Others \/ \E r \in Refreshers : PollStep(r)) /\ UNCHANGED client
    \/ \E r \in Refreshers : Begin(r) \/ FetchStep(r)
    \/ Deadline \/ Reply \/ Notify \/ End

ClientSpec == ClientInit /\ [][ClientNext]_allVars

\* As in QuotaTracker; the deadline ends the wait for an app-server that does
\* not answer.
FairClientSpec ==
    /\ ClientSpec
    /\ WF_allVars(Tick /\ UNCHANGED client)
    /\ WF_allVars(TakeTick /\ UNCHANGED client)
    /\ \A r \in Refreshers :
           /\ SF_allVars(LockRefresh(r) /\ UNCHANGED client)
           /\ WF_allVars(((FindUnavailable(r) \/ AskClaude(r)) /\ UNCHANGED client) \/ Begin(r))
           /\ WF_allVars((ClaudeAnswers(r) /\ UNCHANGED client) \/ FetchStep(r))
           /\ WF_allVars(Store(r) /\ UNCHANGED client)
    /\ WF_allVars(Reply \/ Deadline)

-----------------------------------------------------------------------------
ClientTypeOK ==
    /\ TypeOK
    /\ step \in {"idle", "start", "initialize", "greeting", "request", "answer"}
    /\ process \in {"none", "runs", "ended"}
    /\ stdin \in Seq(1..2) /\ Len(stdin) <= 1
    /\ stdout \in Seq(Messages)
    /\ greeted \in BOOLEAN
    /\ notes \in 0..MaxNotes
    /\ step = "idle" <=> \A r \in Refreshers : ~Fetching(r)

\* "AgentsUsage starts the installed codex app-server long enough to request
\* the current account rate limits, then terminates it": however a fetch ends,
\* no app-server outlives it, and one that has ended is waited for.
ServerReaped == process # "none" => \E r \in Refreshers : Fetching(r)

\* To the tracker the exchange is one question with one answer: limits with a
\* window are answered only if the app-server gave them, at the time they are
\* observed, and an error only if something went wrong.
ImplementsTracker == FairSpec
=============================================================================
