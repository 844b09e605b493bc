----------------------------- MODULE MCMirroring -----------------------------
(***************************************************************************)
(* Mirroring for TLC.  Requests are interchangeable, so it is enough to    *)
(* check the behaviours in which one chosen request arrives before the     *)
(* others.                                                                 *)
(***************************************************************************)
EXTENDS Mirroring

FirstRequest == CHOOSE q \in Requests : TRUE

ArrivesFirst ==
    handler'[FirstRequest] = "new" => \A q \in Requests : handler'[q] = "new"

MCSpec == Init /\ [][Next /\ ArrivesFirst]_vars /\ HandlerFairness

=============================================================================
