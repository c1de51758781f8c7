------------------------------ MODULE MCPublish -----------------------------
(* A small instance of Publish: a message that may be delivered to two       *)
(* slots at once, on either channel.                                         *)
EXTENDS Publish
=============================================================================
