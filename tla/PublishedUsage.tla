--------------------------- MODULE PublishedUsage ---------------------------
(***************************************************************************)
(* What parser.Monitor promises to those who read it (the HTTP handlers    *)
(* and the tray): Snapshot and LastError change together, the statistics   *)
(* are those of the newest logs the index has read, or empty with an       *)
(* error.  Monitor implements it; Dashboard is a reader of it.             *)
(***************************************************************************)
EXTENDS Integers

CONSTANT MaxVersion     \* bound: changes to the logs

ASSUME MaxVersionAssumption == MaxVersion \in Nat

VARIABLES
    read,       \* version of the logs the index has read
    stats,      \* version of the published statistics, or Blank
    warned      \* the published error is not nil

usage == <<read, stats, warned>>

Blank == -1     \* the zero Stats

InitUsage ==
    /\ read = 0
    /\ stats = Blank
    /\ warned = FALSE

\* The index has read more of the logs; nothing of it is shown yet.
ReadLogs ==
    /\ \E v \in (read + 1)..MaxVersion : read' = v
    /\ UNCHANGED <<stats, warned>>

\* A refresh ends.  It may do so without error, with a warning, or, when its
\* time is over, with nothing but the error.
PublishUsage ==
    /\ \/ stats' = read /\ warned' \in BOOLEAN
       \/ stats' = Blank /\ warned' = TRUE
    /\ UNCHANGED read

\* The file watcher reports an error between two refreshes.
WarnOnly ==
    /\ warned' = TRUE
    /\ UNCHANGED <<read, stats>>

UsageNext == ReadLogs \/ PublishUsage \/ WarnOnly

UsageSpec == InitUsage /\ [][UsageNext]_usage
=============================================================================
