----------------------------- MODULE MCResearch -----------------------------
(* Research on small instances: one card, pressed by two requests.           *)
EXTENDS Research
=============================================================================
