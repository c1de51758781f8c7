--------------------------- MODULE MCCreditLedger ---------------------------
(* Small workspaces for CreditLedger; each .cfg chooses what competes for    *)
(* the balance, and the days over which it does.                             *)
EXTENDS CreditLedger
=============================================================================
