------------------------ MODULE MCDeploymentOperator ------------------------
(***************************************************************************)
(* The operator of model deployments for TLC.                              *)
(***************************************************************************)
EXTENDS DeploymentOperatorProps

CONSTANTS r1, r2

\* A role that is changed, or set and dropped, while the caches of services, of config
\* maps or of the resource are late; pull connections, whose password changes.
MCSetups ==
  {[conn |-> "none", roles |-> {r1, r2}, late |-> {"ks"}, pods |-> {"zero", "some", "all"}],
   [conn |-> "none", roles |-> {r1, None}, late |-> {"md"}, pods |-> {"missing"}],
   [conn |-> "none", roles |-> {r1, r2}, late |-> {"cm"}, pods |-> {"missing"}],
   [conn |-> "docker", roles |-> {r1}, late |-> {}, pods |-> {"some", "all"}],
   [conn |-> "ecr", roles |-> {None}, late |-> {"secret"}, pods |-> {"missing", "zero"}]}

=============================================================================
