------------------------------- MODULE MCSupervisor -------------------------------
(* Plans without, with one and with two actions; the input of "login" has  *)
(* a secret, without which it is "look".                                   *)
EXTENDS Supervisor

Sizes == [p \in Plans |-> CASE p = "answer" -> 0 [] p = "edit" -> 2 [] OTHER -> 1]
Masked == [p \in Plans |-> IF p = "login" THEN "look" ELSE p]
===================================================================================
