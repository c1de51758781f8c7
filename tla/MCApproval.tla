----------------------------- MODULE MCApproval -----------------------------
(* Small instances of Approval: two clicks that may overlap.                 *)
EXTENDS Approval
=============================================================================
