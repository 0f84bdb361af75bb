---------------------------- MODULE MCAggregate ----------------------------
(* Small instances of Aggregate: days of two hours, months of three days.  *)
EXTENDS Aggregate, TLC

CONSTANTS m1, m2

TwoModels == {m1, m2}
OneKnown == m1 :> claudeRates(1, 5)

\* The whole of the cache writes is missing, or the log gives a cost.
TwoOfClaude ==
    {[input |-> 1, output |-> 2, cacheRead |-> 4, cacheWrite |-> 0, oneHour |-> 3,
      fiveMin |-> 5, cost |-> NoCost],
     [input |-> 1, output |-> 1, cacheRead |-> 0, cacheWrite |-> 2, oneHour |-> 3,
      fiveMin |-> 0, cost |-> 7]}

\* The second logs more cached tokens than input.
TwoOfCodex ==
    {[input |-> 4, output |-> 1, cached |-> 2], [input |-> 1, output |-> 2, cached |-> 4]}
=============================================================================
