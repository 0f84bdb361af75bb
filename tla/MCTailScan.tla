----------------------------- MODULE MCTailScan -----------------------------
(* One log of up to three lines, read through a buffer of two bytes with a *)
(* limit of four.                                                          *)
EXTENDS TailScan

Object(n) == <<Open>> \o [i \in 1..n |-> Inside] \o <<Close>>

\* Objects below, at and above the limit; an object at the limit before a
\* carriage return; a blank line; a line torn by its writer; garbage before two
\* carriage returns, of which one ends the line.
MCLines == {Object(0), Object(2), Object(4), Append(Object(2), CR),
            Append(Object(0), CR), <<CR>>, <<Open, Inside>>, <<Inside, CR, CR>>}
=============================================================================
