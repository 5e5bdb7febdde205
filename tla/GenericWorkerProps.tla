------------------------- MODULE GenericWorkerProps -------------------------
(***************************************************************************)
(* What the system controller may never do, and the specification of a     *)
(* life cycle it implements.                                               *)
(***************************************************************************)
EXTENDS GenericWorker

-----------------------------------------------------------------------------
(* Types                                                                   *)

\* Every variable has its type; in particular a plan names one operation for an
\* id and a create or update carries the spec that was listed.
TypeOK ==
  /\ rows \in [Ids -> Row \cup {None}]
  /\ objs \in [Ids -> Obj \cup {None}]
  /\ started \in SUBSET Ids
  /\ lease \in Replicas \cup {None}
  /\ pc \in [Replicas -> {"idle", "listing", "acting"}]
  /\ listed \in [Replicas -> [Ids -> Obj \cup {None}]]
  /\ plan \in [Replicas -> [Ids -> Item]]
  /\ rec \in [Replicas -> Rec \cup {None}]
  /\ polled \in SUBSET Ids

-----------------------------------------------------------------------------
(* Safety of the kinds that are deleted with a mark                        *)

\* A custom resource never outlives the row it was made from: the worker deletes
\* a row only when its lists showed that the resource is gone, whatever users do
\* between its two lists and its calls (GetNotSynced, SyncSpecs).
NoOrphanObject ==
  \A i \in Ids : objs[i] # None => rows[i] # None

\* Only a deployment or job whose deletion was requested is taken down: what the
\* lists do not show (a page, a failed join) is never mistaken for a zombie.
OnlyMarkedTakenDown ==
  [][\A i \in Ids :
       /\ objs[i] # None /\ ~objs[i].deleting
       /\ rows[i] # None /\ ~rows[i].mark
       => objs'[i] # None /\ ~objs'[i].deleting]_vars

\* A row is declared once and its custom resource is created at most once: a
\* batch job never runs twice because of a retry, a restart, an empty answer for
\* a runtime list that failed or one that shows a part of the jobs only.
StartedOnce ==
  [][\A i \in Ids : objs[i] = None /\ objs'[i] # None => i \notin started]_vars

\* While an entity is in both stores and a replica leads, its status is going to
\* be read again: the statusReconciler never drops the polling for good.
PollScheduled ==
  \A i \in Ids :
    /\ lease # None
    /\ rows[i] # None
    /\ objs[i] # None
    => \/ i \in polled
       \/ \E w \in Replicas : rec[w] # None /\ rec[w].id = i

-----------------------------------------------------------------------------
(* Status                                                                  *)

\* A stored terminal status was computed for the stored spec: a result of an
\* earlier spec is never shown (and never stops the worker) for a later one.
DoneIsOfSpec ==
  \A i \in Ids :
    rows[i] # None /\ rows[i].status.state = "Done"
      => rows[i].status.of = rows[i].spec

\* The inductive invariant behind it: every status that is stored, reported or on
\* its way from one to the other belongs to the spec next to it.
Own(x) == x.status.of = x.spec

StatusesAreOwn ==
  /\ \A i \in Ids : rows[i] # None => Own(rows[i])
  /\ \A i \in Ids : objs[i] # None => Own(objs[i])
  /\ \A w \in Replicas : rec[w] # None => Own(rec[w].obj)

-----------------------------------------------------------------------------
(* The inductive invariant of the kinds that are deleted with a mark.       *)
(* Its premise says when it holds: one controller at a time, lists that     *)
(* show everything they should.                                             *)

CompleteLists ==
  /\ N <= StoragePage /\ N <= RuntimePage
  /\ ~JoinsService /\ ~HidesErrors

OneController == \A v, w \in Replicas : v = w

Guarded == MarkedDelete /\ CompleteLists /\ OneController

\* Foreground deletion was started by the mark.
DeletingIsMarked ==
  \A i \in Ids : objs[i] # None /\ objs[i].deleting => rows[i] # None /\ rows[i].mark

\* The object of an unmarked row that has had one is still there.
StartedIsRunning ==
  \A i \in started : rows[i] # None /\ ~rows[i].mark => objs[i] # None

\* What a pass has read of the runtime is safe to act on: an id without an object
\* still has none, and one with an object has a row.
ListedIsSafe ==
  \A w \in Replicas, i \in Ids :
    pc[w] = "listing" =>
      IF listed[w][i] = None THEN objs[i] = None ELSE rows[i] # None

\* What a pass has decided stays justified until it is done.
PlanIsSafe ==
  \A w \in Replicas, i \in Ids :
    /\ pc[w] # "acting" => plan[w][i] = Skip
    /\ plan[w][i].op # "skip" => rows[i] # None
    /\ plan[w][i].op \in {"create", "deleteDB"} => objs[i] = None
    /\ plan[w][i].op = "create" => i \notin started
    /\ plan[w][i].op \in {"delete", "deleteDB"} => rows[i].mark

\* No pass takes a job for a zombie since its service was not fetched.
ServicesAreRead ==
  \A w \in Replicas, missed \in SUBSET Ids :
    ListStorage(w, missed) => ListStorage(w, {})

\* The inductive invariant of StartedOnce, which needs neither complete runtime
\* lists nor marks: the object of a started, unmarked row stays, a creation that is
\* planned for it anyway finds it, and no deletion is planned of it.
StartsAreKept ==
  /\ \A i \in started :
       rows[i] # None /\ ~rows[i].mark => objs[i] # None /\ ~objs[i].deleting
  /\ \A w \in Replicas, i \in Ids :
       /\ pc[w] # "acting" => plan[w][i] = Skip
       /\ plan[w][i].op = "create" /\ i \in started => objs[i] # None /\ ~objs[i].deleting
       /\ plan[w][i].op = "delete" /\ i \in started => rows[i] = None \/ rows[i].mark

StoresAgree ==
  /\ NoOrphanObject
  /\ DeletingIsMarked
  /\ StartedIsRunning
  /\ ListedIsSafe
  /\ PlanIsSafe

IInv == TypeOK /\ StoresAgree /\ PollScheduled

-----------------------------------------------------------------------------
(* Refinement                                                              *)

Lifecycle == INSTANCE EntityLifecycle
  WITH Entities  <- Ids,
       declared  <- Existing(rows),
       condemned <- {i \in Existing(rows) : rows[i].mark},
       running   <- Existing(objs)

\* The controller implements the life cycle of an entity deleted with a mark:
\* nothing is started that is not declared, stopped that is not condemned, or
\* forgotten that still runs (SyncSpecs, the delete handlers of the API).
ImplementsLifecycle == Lifecycle!Spec

\* What the contract with an operator says of a custom resource.
View(obj) ==
  IF obj = None THEN [stage |-> "Absent"]
  ELSE [spec |-> obj.spec, deleting |-> obj.deleting, stage |-> obj.status.state]

Contract(i) == INSTANCE CustomResource WITH res <- View(objs[i])

\* The controller, its passes, retries and crashes included, does to the custom
\* resource of an entity only what the operators are built for, and takes of them
\* only what they may do (SyncSpecs; the create, update and delete of the clients).
KeepsContract == \A i \in Ids : Contract(i)!Spec

=============================================================================
