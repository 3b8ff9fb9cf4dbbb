----------------------------- MODULE MCRtcEngine -----------------------------
(* RtcEngine on a small instance.                                           *)
EXTENDS RtcEngine
=============================================================================
