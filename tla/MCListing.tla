------------------------------- MODULE MCListing -------------------------------
(***************************************************************************)
(* An instance of Listing for TLC.                                         *)
(***************************************************************************)
EXTENDS Listing, TLC

\* Rows and processes are only compared.
Symmetry == Permutations(Rows) \cup Permutations(Workers)
===============================================================================
