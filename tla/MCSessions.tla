------------------------------ MODULE MCSessions ------------------------------
(***************************************************************************)
(* Instances of Sessions for TLC, and the claims of the repository's docs  *)
(* that the service does not keep.                                         *)
(***************************************************************************)
EXTENDS Sessions

\* The route's documentation calls revoked_count the number of sessions really
\* revoked: with one worker, the count is the number of rows that changed.
RevokedCountIsActual ==
  [][\A w \in Workers :
       CommitScan(w) => call'[w].count = Cardinality(Active \ Active')]_vars
===============================================================================
