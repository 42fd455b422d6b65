-------------------------------- MODULE MCIntake -------------------------------
EXTENDS Intake, TLC

(* Requests, commands and contents are interchangeable.                    *)
MCSymmetry == Permutations(Requests) \union Permutations(Commands)
                  \union Permutations(Digests)
================================================================================
