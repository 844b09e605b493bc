---------------------------- MODULE MCReporting ----------------------------
(* Instances of Reporting for TLC.                                         *)
EXTENDS Reporting

\* What a mirror may report within the bounds.
MCReports == [Directions -> 0 .. MaxTime]

=============================================================================
