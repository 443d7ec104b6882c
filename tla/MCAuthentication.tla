--------------------------- MODULE MCAuthentication ---------------------------
(***************************************************************************)
(* Instances of Authentication for TLC.                                    *)
(***************************************************************************)
EXTENDS Authentication, TLC

\* Workers, users and tokens are only compared (used without liveness).
Symmetry == Permutations(Workers) \cup Permutations(Users) \cup Permutations(Tokens)
===============================================================================
