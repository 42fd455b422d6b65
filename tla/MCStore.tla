-------------------------------- MODULE MCStore --------------------------------
(* Three callers; under Postgres two share a process and one has its own.  *)
EXTENDS Store

MCHost == [c \in {"c1", "c2", "c3"} |-> IF c = "c3" THEN "p2" ELSE "p1"]
================================================================================
