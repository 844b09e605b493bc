---------------------------- MODULE MCEgressQueue ----------------------------
(***************************************************************************)
(* EgressQueue for TLC: of two references and two candidates, three        *)
(* arrive.  References are interchangeable and so are candidates, so it is *)
(* enough that one chosen reference arrives before the other and one       *)
(* chosen candidate before the other.                                      *)
(***************************************************************************)
EXTENDS EgressQueue

CONSTANT MaxArrivals  \* bound: requests that arrive

ASSUME ArrivalsAssumption == MaxArrivals \in Nat

FirstReference == CHOOSE r \in References : TRUE
FirstCandidate == CHOOSE c \in Candidates : TRUE

ArrivesFirst(x, requests) == arrival'[x] = 0 => \A y \in requests : arrival'[y] = 0

Within ==
    /\ arrivals' <= MaxArrivals
    /\ ArrivesFirst(FirstReference, References)
    /\ ArrivesFirst(FirstCandidate, Candidates)

MCSpec == Init /\ [][Next /\ Within]_vars /\ Fairness

=============================================================================
