------------------------------ MODULE MCAccounts ------------------------------
(***************************************************************************)
(* Instances of Accounts for TLC.                                          *)
(***************************************************************************)
EXTENDS Accounts, TLC

\* Ids, emails, names and workers are only compared.
Symmetry ==
  Permutations(Users) \cup Permutations(Emails) \cup Permutations(Names)
    \cup Permutations(Workers) \cup Permutations(Tenants)

\* No step looks at the last answer: it needs no states of its own.
View == <<users, tenants, members, opened, txn>>
===============================================================================
