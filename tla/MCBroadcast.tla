----------------------------- MODULE MCBroadcast -----------------------------
(* Broadcast on small instances: two identities of one customer, one of      *)
(* another.                                                                  *)
EXTENDS Broadcast, TLC

CONSTANTS amy1, amy2, ben1, amy, ben

Whose(m) == IF m = ben1 THEN ben ELSE amy
Order == <<"consentStop", "doNotDisturb">>
Alike == Permutations(Executions) \cup Permutations(Tabs)
=============================================================================
