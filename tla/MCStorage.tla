------------------------------- MODULE MCStorage -------------------------------
(* The instances of Storage that TLC checks.                                  *)
EXTENDS Storage, TLC

\* Requests are interchangeable.
ClientSymmetry == Permutations(Clients)
================================================================================
