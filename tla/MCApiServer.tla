----------------------------- MODULE MCApiServer -----------------------------
(***************************************************************************)
(* Instances of ApiServer for TLC.                                         *)
(***************************************************************************)
EXTENDS ApiServerProps, TLC

\* Clients are alike, and so are routes.
Alike == Permutations(Clients) \cup Permutations(Routes)

=============================================================================
