-------------------------- MODULE MCGenericWorker --------------------------
(***************************************************************************)
(* The system controller for TLC.  The configurations choose the kind of   *)
(* entity; what must eventually happen is stated here, since it is checked  *)
(* by TLC only.                                                            *)
(***************************************************************************)
EXTENDS GenericWorkerProps

-----------------------------------------------------------------------------
(* Liveness                                                                *)

Wanted(i, s) == rows[i] # None /\ ~rows[i].mark /\ rows[i].spec = s

Running(i, s) == objs[i] # None /\ ~objs[i].deleting /\ objs[i].spec = s

\* Once a user leaves an entity alone, the runtime ends up with the declared spec,
\* or the entity is finished, through crashes, failed calls and stale lists.
SpecConverges ==
  \A i \in Ids, s \in Specs :
    <>[]Wanted(i, s) => <>[](Running(i, s) \/ (rows[i] # None /\ IsFinished(rows[i])))

\* Once an entity is gone from the storage for good, its custom resource goes too.
ZombiesRemoved ==
  \A i \in Ids : <>[](rows[i] = None) => <>[](objs[i] = None)

\* A result the runtime keeps reaches the storage, and does so again each time a
\* user submits the same spec and thereby resets the stored status.
ResultDelivered ==
  \A i \in Ids, s \in Specs :
    <>[](Wanted(i, s) /\ Running(i, s) /\ objs[i].status = [state |-> "Done", of |-> s])
      => []<>(rows[i] # None /\ rows[i].status = [state |-> "Done", of |-> s])

\* The promise of progress of the life cycle: what is declared is started, what
\* is condemned is stopped and then forgotten (SyncSpecs over its passes).
LifecycleProgress == Lifecycle!Fairness

=============================================================================
