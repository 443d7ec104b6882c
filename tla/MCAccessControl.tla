--------------------------- MODULE MCAccessControl ----------------------------
(***************************************************************************)
(* An instance of AccessControl for TLC, with the seeding script beside    *)
(* the server processes.                                                   *)
(***************************************************************************)
EXTENDS Seeding, TLC

\* Ids and workers are only compared; codes are told apart by the catalogue.
Symmetry ==
  Permutations(Roles) \cup Permutations(Permissions) \cup Permutations(Users)
    \cup Permutations(Links) \cup Permutations(Workers)

\* No step looks at the last answer: it needs no states of its own.
View == <<things, links, txn, seed>>
===============================================================================
