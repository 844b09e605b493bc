--------------------------- MODULE InboundRequests ---------------------------
(***************************************************************************)
(* The inbound requests of the ingress server.  IngressPairs knows each    *)
(* one by the pair that it starts, CandidateRuns by the candidate work     *)
(* that it asks to be admitted.                                            *)
(***************************************************************************)

CONSTANT Requests

=============================================================================
