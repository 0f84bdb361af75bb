----------------------------- MODULE ClaudeDedupe -----------------------------
(***************************************************************************)
(* One response, one charge: dedupeClaude (internal/parser/claude.go),     *)
(* called on the candidates of all Claude logs at the end of every refresh *)
(* (Indexer.Refresh, index.go), while sessions append to the logs.         *)
(*                                                                         *)
(* Claude Code logs snapshots of a response as it streams in, each with    *)
(* the tokens so far, in the session's log and again in the logs of        *)
(* sessions resumed from it.  Some snapshots lack a message or a request   *)
(* identity.  An event is here its number of processed tokens.             *)
(***************************************************************************)
EXTENDS Integers, Sequences, FiniteSets, Functions

CONSTANTS
    Files,          \* number of Claude logs, in path order
    Messages,       \* message identities
    Requests,       \* request identities
    MaxTokens,      \* bound: tokens of one snapshot
    MaxCandidates,  \* bound: snapshots in all logs
    None            \* identity missing: the empty string

ASSUME FilesAssumption == Files \in Nat \ {0}
ASSUME NoneAssumption == None \notin Messages /\ None \notin Requests
ASSUME BoundsAssumption == MaxTokens \in Nat /\ MaxCandidates \in Nat

VARIABLE logs       \* the candidates of each log, in the order of its lines: their
                    \* message, request (or None) and tokens

\* Indexer.Refresh puts the logs one after the other, by path.
Candidates ==
    LET all[n \in 0..Files] == IF n = 0 THEN <<>> ELSE all[n - 1] \o logs[n]
    IN  all[Files]

RequestsOf(cs, m) == {c.request : c \in {d \in Range(cs) : d.message = m /\ d.request # None}}

\* Faulty: a snapshot without a request stands for itself.
NoAdoption(cs, c) == c.request

\* A snapshot without a request belongs to its message's only request.
Adopted(cs, c) ==
    IF /\ c.message # None
       /\ c.request = None
       /\ Cardinality(RequestsOf(cs, c.message)) = 1
    THEN CHOOSE r \in RequestsOf(cs, c.message) : TRUE
    ELSE c.request

Key(cs, c) == IF c.message # None THEN <<c.message, Adopted(cs, c)>>
              ELSE <<None, c.request>>

NoKey == <<None, None>>

\* Faulty: the latest snapshot is the one that counts.
Latest(kept, tokens) == tokens

\* Of two snapshots of a response the one with more tokens counts.
MoreTokens(kept, tokens) == IF tokens > kept THEN tokens ELSE kept

\* One step of the loop: result, and where in it each key's event is.
Merge(cs, done, c) ==
    LET k == Key(cs, c)
    IN  IF k = NoKey
        THEN [done EXCEPT !.result = Append(@, c.tokens)]
        ELSE IF k \notin DOMAIN done.indexes
        THEN [result |-> Append(done.result, c.tokens),
              indexes |-> [j \in DOMAIN done.indexes \cup {k} |->
                               IF j = k THEN Len(done.result) + 1 ELSE done.indexes[j]]]
        ELSE [done EXCEPT !.result[done.indexes[k]] = MoreTokens(@, c.tokens)]

dedupeClaude(cs) ==
    LET done[n \in 0..Len(cs)] ==
            IF n = 0 THEN [result |-> <<>>, indexes |-> <<>>]
            ELSE Merge(cs, done[n - 1], cs[n])
    IN  done[Len(cs)].result

Total == SumFunction(dedupeClaude(Candidates))

LogsInit == logs = [n \in 1..Files |-> <<>>]

\* A line with the token fields; usable if it reports no API error, names a
\* model and has a readable timestamp.
Line == [message : Messages \cup {None}, request : Requests \cup {None},
         tokens : 0..MaxTokens, usable : BOOLEAN]

\* parseClaudeLine skips the others.
IsCandidate(line) == line.usable /\ line.tokens > 0

\* A session writes a line, and the next refresh parses it.
AppendLine(n, line) ==
    /\ Len(Candidates) < MaxCandidates
    /\ IsCandidate(line)
    /\ logs' = [logs EXCEPT ![n] =
                   Append(@, [message |-> line.message, request |-> line.request,
                              tokens |-> line.tokens])]

LogsNext == \E n \in 1..Files, line \in Line : AppendLine(n, line)

LogsSpec == LogsInit /\ [][LogsNext]_logs

-----------------------------------------------------------------------------
\* Two snapshots are of one response when they agree on message and request,
\* or on the message alone if it was sent with one request only and one of
\* them does not know it, or on the request if neither knows its message.
SameResponse(cs, c, d) ==
    /\ c.message = d.message
    /\ c.message # None \/ c.request # None
    /\ \/ c.request = d.request
       \/ /\ c.message # None
          /\ None \in {c.request, d.request}
          /\ Cardinality(RequestsOf(cs, c.message)) = 1

Responses(cs) ==
    {{j \in DOMAIN cs : i = j \/ SameResponse(cs, cs[i], cs[j])} : i \in DOMAIN cs}

\* Every response is charged once, with the most tokens any of its snapshots
\* has: the one pass over the candidates, which decides about a snapshot by
\* the map it has built so far, finds exactly the responses; so the order of
\* the logs, which changes when one is renamed, makes no difference.
OneChargePerResponse ==
    LET cs == Candidates
        most(response) == CHOOSE t \in {cs[i].tokens : i \in response} :
                              \A i \in response : cs[i].tokens <= t
    IN  Total = SumFunction([response \in Responses(cs) |-> most(response)])

\* What is shown as used never shrinks because a log has grown, also when a
\* second request for a message turns up and snapshots that had been counted
\* with the first are not any more.
UsageNeverShrinks == [][Total' >= Total]_logs
=============================================================================
