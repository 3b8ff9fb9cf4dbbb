---------------------------- MODULE MCNegotiation -----------------------------
(* Three requests and one ICE candidate.                                    *)
EXTENDS Negotiation
=============================================================================
