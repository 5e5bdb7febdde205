-------------------------- MODULE MCRouteOperator --------------------------
(***************************************************************************)
(* The operator of model routes for TLC.                                   *)
(***************************************************************************)
EXTENDS RouteOperatorProps

CONSTANTS d1, d2

\* From one target to another one and back, with and without a mirror.
MCWishes ==
  {[targets |-> {d1, d2}, mirror |-> None],
   [targets |-> {d1}, mirror |-> d2]}

MCOneTarget == {[targets |-> {d1}, mirror |-> None]}

=============================================================================
