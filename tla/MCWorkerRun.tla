-------------------------------- MODULE MCWorkerRun --------------------------------
(* WorkerRun on small instances.  Executors are interchangeable.               *)
EXTENDS WorkerRun, TLC

Symmetry == Permutations(Executors)
====================================================================================
