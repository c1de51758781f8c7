------------------------------ MODULE MCGenJob ------------------------------
(* Small instances of GenJob: one or two delivery slots, an image or a       *)
(* video; each .cfg chooses the faults its behaviours may contain.           *)
EXTENDS GenJob, TLC

\* Delivery slots are interchangeable (used for safety only).
WorkerSymmetry == Permutations(Workers)
=============================================================================
