---------------------------- MODULE MCCodexUsage ----------------------------
(* One session with two rate limits, its tokens being input and output.    *)
EXTENDS CodexUsage, TLC

\* Old records carry totals only, and some of their timestamps cannot be read;
\* newer ones carry the usage of the turn, with or without the totals.
MCMixtures == {[shapes |-> {"total"}, badStamps |-> TRUE],
               [shapes |-> {"both", "total"}, badStamps |-> FALSE],
               [shapes |-> {"both", "last"}, badStamps |-> FALSE]}

Interchangeable == Permutations(Kinds)

=============================================================================
