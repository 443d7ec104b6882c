----------------------------- MODULE MCStatistics -----------------------------
(***************************************************************************)
(* An instance of Statistics for TLC.                                      *)
(***************************************************************************)
EXTENDS Statistics, TLC

\* Workers run the same code.
WorkerSymmetry == Permutations(Workers)
===============================================================================
