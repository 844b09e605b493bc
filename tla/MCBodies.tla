------------------------------- MODULE MCBodies -------------------------------
(***************************************************************************)
(* StreamBody and RequestCapture for TLC.  They share no state, so each is *)
(* explored on its own: the bodies beside a request that nobody has served *)
(* yet, and the request beside bodies whose readers wait for their first   *)
(* byte.  In neither state has the component that rests a step that its    *)
(* fairness asks for.                                                      *)
(***************************************************************************)
EXTENDS StreamBody, RequestCapture

Resting == \A b \in Bodies : sent[b] = 0 /\ source[b] = "reading" /\ reader[b] = "waiting"

\* Whether the request has a destination makes no difference to the bodies: they are explored
\* beside one that has, and only come to rest beside one that has none.
BodiesStep ==
    /\ served = "new"
    /\ \/ configured /\ Next
       \/ ~configured /\ \E b \in Bodies : ReadWaits(b)
    /\ UNCHANGED requestVars

CaptureStep == Resting /\ CaptureNext /\ UNCHANGED vars

MCInit == Init /\ CaptureInit

MCSpec ==
    /\ MCInit
    /\ [][BodiesStep \/ CaptureStep]_<<vars, requestVars>>
    /\ Fairness /\ CaptureFairness

=============================================================================
