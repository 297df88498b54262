---------------------------- MODULE MCTimedCase ----------------------------
(* A day of six parts of four hours.  India is one part ahead of UTC, and  *)
(* the peak windows and the quiet hours have the order of the real ones:   *)
(* quiet, peak, free, peak, quiet.                                         *)
EXTENDS TimedCase

CONSTANTS p1, hard, none

MCPeakWindows == <<[start |-> 2, end |-> 3], [start |-> 4, end |-> 5]>>
MCSpacing     == <<0, 12>>
MCMandateOf   == [p \in Payments |-> none]

\* Once a case has left the retry cycle no entry is inspected any more.
InCycle == row.state \in InRetry
=============================================================================
