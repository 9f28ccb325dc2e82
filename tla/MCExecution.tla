---------------------------- MODULE MCExecution ----------------------------
(* Execution with one or two credentials and requests, and every answer an *)
(* upstream may give or those that race.                                   *)
EXTENDS Execution, TLC

Perms == Permutations(Auths) \union Permutations(Requests)
AllOutcomes == Answers
Racing == {"ok", "quota", "transient"}
Rejected == {"ok", "unauthorized"}
=============================================================================
