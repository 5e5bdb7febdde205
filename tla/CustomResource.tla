--------------------------- MODULE CustomResource ---------------------------
(***************************************************************************)
(* The contract between the system controller and an operator about the    *)
(* custom resource of one entity.  The controller creates, updates and     *)
(* deletes it; the operator reports a stage in its status.                 *)
(*                                                                         *)
(* GenericWorker relies on the operator's half and keeps the controller's; *)
(* TaskOperator, DeploymentOperator and RouteOperator rely on the          *)
(* controller's half and keep the operator's.                              *)
(***************************************************************************)
CONSTANTS
  Specs,        \* the specifications a user may give to the entity
  Foreground,   \* a deleted resource stays until what it owns is gone
  Finite,       \* an operator that is done is done for good
  KeepsStatus   \* an update of the specification keeps the status

VARIABLE res

Absent == [stage |-> "Absent"]

Stages == {"Unknown", "Working", "Done", "Deleting"}

Resource == [spec: Specs, deleting: BOOLEAN, stage: Stages]

Present == res # Absent

-----------------------------------------------------------------------------
(* The controller's half                                                   *)

Create(s) ==
  /\ ~Present
  /\ res' = [spec |-> s, deleting |-> FALSE, stage |-> "Unknown"]

Update(s) ==
  /\ Present
  /\ res' = [res EXCEPT !.spec = s, !.stage = IF KeepsStatus THEN @ ELSE "Unknown"]

Delete ==
  /\ Present
  /\ res' = IF Foreground THEN [res EXCEPT !.deleting = TRUE] ELSE Absent

Controller == (\E s \in Specs : Create(s) \/ Update(s)) \/ Delete

-----------------------------------------------------------------------------
(* The operator's half, with the garbage collector                         *)

Report(stage) ==
  /\ Present /\ ~res.deleting
  /\ Finite => res.stage # "Done"
  /\ res' = [res EXCEPT !.stage = stage]

MarkDeleting ==
  /\ Present /\ res.deleting
  /\ res' = [res EXCEPT !.stage = "Deleting"]

Collect ==
  /\ Present /\ res.deleting
  /\ res' = Absent

Operator == Report("Working") \/ Report("Done") \/ MarkDeleting \/ Collect

-----------------------------------------------------------------------------
Init == res = Absent

Next == Controller \/ Operator

Spec == Init /\ [][Next]_res

=============================================================================
