----------------------------- MODULE MCAuthSessions -----------------------------
(* The instances of AuthSessions that TLC checks.                             *)
EXTENDS AuthSessions, TLC

\* Requests are interchangeable, and so are adapter instances.
Symmetry == Permutations(Clients) \cup Permutations(Instances)
================================================================================
