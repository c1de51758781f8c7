--------------------------- MODULE MCUnderstanding ---------------------------
(* Understanding on small instances: one file, two deliveries at once.       *)
EXTENDS Understanding
=============================================================================
