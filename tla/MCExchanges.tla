----------------------------- MODULE MCExchanges -----------------------------
(***************************************************************************)
(* Points and CandidateRuns for TLC.  They share no state, so each is      *)
(* explored on its own: the exchanges before any run is admitted, and the  *)
(* runs once every exchange has ended without an upstream.  In neither     *)
(* state has the component that rests a step that its fairness asks for.   *)
(***************************************************************************)
EXTENDS Points, CandidateRuns

NoneSent == \A x \in Exchanges : handler[x] = "done" /\ result[x] = "open"

PointsStep == RunsInit /\ Next /\ UNCHANGED runVars

\* Requests are interchangeable, so it is enough that one chosen request starts before the
\* others.
FirstRequest == CHOOSE r \in Requests : TRUE
StartsFirst == work'[FirstRequest] = "new" => \A r \in Requests : work'[r] = "new"

RunsStep == NoneSent /\ RunsNext /\ StartsFirst /\ UNCHANGED vars

MCInit == Init /\ RunsInit

MCSpec ==
    /\ MCInit
    /\ [][PointsStep \/ RunsStep]_<<vars, runVars>>
    /\ Fairness /\ RunsFairness

=============================================================================
