----------------------------- MODULE MCJobScheduler -----------------------------
(* JobScheduler on small instances.  Processes and executions are              *)
(* interchangeable.                                                            *)
EXTENDS JobScheduler, TLC

Symmetry == Permutations(Processes) \union Permutations(Executions)
=================================================================================
