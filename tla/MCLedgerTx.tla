----------------------------- MODULE MCLedgerTx -----------------------------
(* Small instances of LedgerTx: two or three database connections; each .cfg *)
(* chooses which operations compete.                                         *)
EXTENDS LedgerTx, TLC

\* Connections are interchangeable.
ConnectionSymmetry == Permutations(Procs)
=============================================================================
