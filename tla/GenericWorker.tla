--------------------------- MODULE GenericWorker ---------------------------
(***************************************************************************)
(* The reconciliation loop of the ODAHU system controller                  *)
(* (packages/operator/pkg/controller): a GenericWorker copies the entities *)
(* declared in PostgreSQL ("storage") to Kubernetes custom resources       *)
(* ("runtime") and copies their status back.                               *)
(*                                                                         *)
(* One module covers the five kinds of entity; the CONSTANTS below say     *)
(* what the adapter, the service and the kube client of a kind do:         *)
(*                                                                         *)
(*             deployment  route  training  packaging  batch job           *)
(* MarkedDelete    x                                       x               *)
(* Foreground      x                                                       *)
(* Finite                            x          x          x               *)
(* KeepsStatus     x         x                                             *)
(* Immutable                                               x               *)
(* JoinsService                                            x               *)
(* HidesErrors                                             x               *)
(*                                                                         *)
(* Users, the worker pass, the status reconciler and the operator behind   *)
(* the custom resources interleave at every call to the database or to the *)
(* Kubernetes API.  A call that fails leaves the state alone and the code  *)
(* goes on with its next item.                                             *)
(***************************************************************************)
EXTENDS Integers, FiniteSets

CONSTANTS
  N,             \* entity ids are 1..N, in the order both lists are sorted by
  Specs,         \* the specifications a user may give to an entity
  Replicas,      \* processes of the system controller
  StoragePage,   \* rows a storage list returns (MaxSize, 500 in the code)
  RuntimePage,   \* custom resources a runtime list returns
  MarkedDelete,  \* a user's delete sets deletionmark instead of deleting the row
  Foreground,    \* the kube client deletes with foreground propagation
  Finite,        \* IsFinished looks at the stored state
  KeepsStatus,   \* UpdateInRuntime keeps the status of the custom resource
  Immutable,     \* the spec hash is constant and there is no update
  JoinsService,  \* ListStorage drops a row whose service cannot be fetched
  HidesErrors,   \* the kube client answers a list that fails with an empty one
  None           \* no row, no object, nobody

Ids == 1..N

States == {"Unknown", "Working", "Done", "Deleting"}

\* A status and the spec the operator had read when it computed that status.
Status == [state: States, of: Specs]

Row == [spec: Specs, mark: BOOLEAN, status: Status]

Obj == [spec: Specs, deleting: BOOLEAN, status: Status]

Item == [op: {"create", "update"}, spec: Specs]
        \cup [op: {"skip", "delete", "deleteDB"}]

Rec == [id: Ids, obj: Obj, phase: {"fetched", "compared"}]

ASSUME SizesAssumption ==
  /\ N \in Nat \ {0}
  /\ StoragePage \in Nat \ {0}
  /\ RuntimePage \in Nat \ {0}

ASSUME KindAssumption ==
  /\ {MarkedDelete, Foreground, Finite} \subseteq BOOLEAN
  /\ {KeepsStatus, Immutable, JoinsService, HidesErrors} \subseteq BOOLEAN

ASSUME NoneAssumption ==
  /\ None \notin Replicas
  /\ None \notin Row
  /\ None \notin Obj
  /\ None \notin Rec

VARIABLES
  rows,     \* storage: the row of every id, or None
  objs,     \* runtime: the custom resource of every id, or None
  started,  \* ids whose present row has had a custom resource created (history)
  lease,    \* the replica that leads, or None
  pc,       \* where the worker of a replica is in its pass
  listed,   \* the runtime list a pass has read
  plan,     \* what a pass still has to do about every id
  rec,      \* the status reconcile a replica is in the middle of, or None
  polled    \* ids in the leader's reconcile queue, due now or after 30 seconds

vars == <<rows, objs, started, lease, pc, listed, plan, rec, polled>>

workerVars == <<pc, listed, plan>>

-----------------------------------------------------------------------------
(* Helpers                                                                 *)

Existing(store) == {i \in Ids : store[i] # None}

\* The first page of a list ordered by id; no caller asks for another one.
FirstPage(S, size) == {i \in S : Cardinality({j \in S : j < i}) < size}

Page(store, size) ==
  [i \in Ids |-> IF i \in FirstPage(Existing(store), size) THEN store[i] ELSE None]

Unknown(s) == [state |-> "Unknown", of |-> s]

Skip == [op |-> "skip"]

Idle == [i \in Ids |-> Skip]

IsFinished(row) == Finite /\ row.status.state = "Done"

IsDeleting(obj) == Foreground /\ obj.status.state = "Deleting"

\* Mutant of SpecsEqual: a hash that does not cover the spec.
SpecsAlwaysEqual(obj, row) == TRUE

SpecsEqual(obj, row) == Immutable \/ obj.spec = row.spec

\* An event of the watch on custom resources; DeleteFunc filters deletions out.
Notify(i) == polled' = IF lease = None THEN polled ELSE polled \cup {i}

\* AddAfter or AddRateLimited; the queue of a replica that lost the lease is gone.
Requeue(w, i) == polled' = IF lease = w THEN polled \cup {i} ELSE polled

-----------------------------------------------------------------------------
(* The API server, on behalf of users                                      *)

CreateRow(i, s) ==
  /\ rows[i] = None
  /\ rows' = [rows EXCEPT ![i] = [spec |-> s, mark |-> FALSE, status |-> Unknown(s)]]
  /\ started' = started \ {i}
  /\ UNCHANGED <<objs, lease, workerVars, rec, polled>>

\* Mutant of UpdateRow: the submitted entity replaces the row with its mark.
UpdateRowUnmarks(i, s) ==
  /\ ~Immutable
  /\ rows[i] # None
  /\ rows' = [rows EXCEPT ![i] = [spec |-> s, mark |-> FALSE, status |-> Unknown(s)]]
  /\ UNCHANGED <<objs, started, lease, workerVars, rec, polled>>

\* Neither the mark nor a running deletion stops an update, or is undone by it.
UpdateRow(i, s) ==
  /\ ~Immutable
  /\ rows[i] # None
  /\ rows' = [rows EXCEPT ![i].spec = s, ![i].status = Unknown(s)]
  /\ UNCHANGED <<objs, started, lease, workerVars, rec, polled>>

MarkRow(i) ==
  /\ MarkedDelete
  /\ rows[i] # None
  /\ rows' = [rows EXCEPT ![i].mark = TRUE]
  /\ UNCHANGED <<objs, started, lease, workerVars, rec, polled>>

DeleteRow(i) ==
  /\ ~MarkedDelete
  /\ rows[i] # None
  /\ rows' = [rows EXCEPT ![i] = None]
  /\ UNCHANGED <<objs, started, lease, workerVars, rec, polled>>

User ==
  \E i \in Ids :
    \/ \E s \in Specs : CreateRow(i, s) \/ UpdateRow(i, s)
    \/ MarkRow(i)
    \/ DeleteRow(i)

-----------------------------------------------------------------------------
(* Leader election and the life of a controller process                    *)

\* A new leader starts the workers and the kube manager, whose informers list
\* every custom resource.  A former leader no longer starts passes, but SyncSpecs
\* ignores its context: a pass that is under way runs to its end.
Acquire(w) ==
  /\ lease # w
  /\ pc[w] = "idle" /\ rec[w] = None
  /\ lease' = w
  /\ polled' = Existing(objs)
  /\ UNCHANGED <<rows, objs, started, workerVars, rec>>

Crash(w) ==
  /\ lease = w \/ pc[w] # "idle" \/ rec[w] # None
  /\ lease' = IF lease = w THEN None ELSE lease
  /\ polled' = IF lease = w THEN {} ELSE polled
  /\ pc' = [pc EXCEPT ![w] = "idle"]
  /\ listed' = [listed EXCEPT ![w] = [i \in Ids |-> None]]
  /\ plan' = [plan EXCEPT ![w] = Idle]
  /\ rec' = [rec EXCEPT ![w] = None]
  /\ UNCHANGED <<rows, objs, started>>

-----------------------------------------------------------------------------
(* One pass of GenericWorker.SyncSpecs                                     *)

\* ConvertK8sErrToOdahuflowErr makes most errors of ListInferenceJob a nil.
RuntimeLists ==
  {Page(objs, RuntimePage)} \cup IF HidesErrors THEN {[i \in Ids |-> None]} ELSE {}

\* The tick of the launch period; GetNotSynced lists the runtime first.
ListRuntime(w) ==
  /\ lease = w
  /\ pc[w] = "idle"
  /\ pc' = [pc EXCEPT ![w] = "listing"]
  /\ \E list \in RuntimeLists : listed' = [listed EXCEPT ![w] = list]
  /\ UNCHANGED <<rows, objs, started, lease, plan, rec, polled>>

\* Mutant of Decide: a marked row leaves the storage before its object is gone.
DecideRowFirst(row, obj) ==
  CASE row = None /\ obj = None -> Skip
    [] row = None /\ obj # None -> [op |-> "delete"]
    [] row # None /\ row.mark -> [op |-> "deleteDB"]
    [] row # None /\ ~row.mark /\ obj = None ->
         IF IsFinished(row) THEN Skip ELSE [op |-> "create", spec |-> row.spec]
    [] row # None /\ ~row.mark /\ obj # None ->
         IF SpecsEqual(obj, row) THEN Skip ELSE [op |-> "update", spec |-> row.spec]

\* Mutant of Decide: a marked row that has no object is taken for handled.
DecideKeepsMarked(row, obj) ==
  CASE row = None /\ obj = None -> Skip
    [] row = None /\ obj # None -> [op |-> "delete"]
    [] row # None /\ obj = None ->
         IF row.mark \/ IsFinished(row) THEN Skip
         ELSE [op |-> "create", spec |-> row.spec]
    [] row # None /\ obj # None ->
         IF row.mark THEN (IF IsDeleting(obj) THEN Skip ELSE [op |-> "delete"])
         ELSE IF SpecsEqual(obj, row) THEN Skip
         ELSE [op |-> "update", spec |-> row.spec]

\* Mutant of Decide: no loop over what exists only in the runtime.
DecideNoZombies(row, obj) ==
  CASE row = None -> Skip
    [] row # None /\ obj = None ->
         IF row.mark THEN [op |-> "deleteDB"]
         ELSE IF IsFinished(row) THEN Skip
         ELSE [op |-> "create", spec |-> row.spec]
    [] row # None /\ obj # None ->
         IF row.mark THEN (IF IsDeleting(obj) THEN Skip ELSE [op |-> "delete"])
         ELSE IF SpecsEqual(obj, row) THEN Skip
         ELSE [op |-> "update", spec |-> row.spec]

\* What GetNotSynced decides about one id from the two lists.
Decide(row, obj) ==
  CASE row = None /\ obj = None -> Skip
    [] row = None /\ obj # None -> [op |-> "delete"]
    [] row # None /\ obj = None ->
         IF row.mark THEN [op |-> "deleteDB"]
         ELSE IF IsFinished(row) THEN Skip
         ELSE [op |-> "create", spec |-> row.spec]
    [] row # None /\ obj # None ->
         IF row.mark THEN (IF IsDeleting(obj) THEN Skip ELSE [op |-> "delete"])
         ELSE IF SpecsEqual(obj, row) THEN Skip
         ELSE [op |-> "update", spec |-> row.spec]

\* Mutant of ListStorage: an error while rows are scanned ends the list early.
ListStorageTruncates(w, missed) ==
  /\ pc[w] = "listing"
  /\ missed \subseteq Existing(rows)
  /\ plan' = [plan EXCEPT ![w] =
       [i \in Ids |-> Decide(IF i \in missed THEN None ELSE rows[i], listed[w][i])]]
  /\ pc' = [pc EXCEPT ![w] = "acting"]
  /\ listed' = [listed EXCEPT ![w] = [i \in Ids |-> None]]
  /\ UNCHANGED <<rows, objs, started, lease, rec, polled>>

\* missed: rows the batch adapter leaves out because their service was not fetched.
ListStorage(w, missed) ==
  /\ pc[w] = "listing"
  /\ missed \subseteq (IF JoinsService THEN Existing(rows) ELSE {})
  /\ LET page == Page(rows, StoragePage)
         row(i) == IF i \in missed THEN None ELSE page[i]
     IN  plan' = [plan EXCEPT ![w] = [i \in Ids |-> Decide(row(i), listed[w][i])]]
  /\ pc' = [pc EXCEPT ![w] = "acting"]
  /\ listed' = [listed EXCEPT ![w] = [i \in Ids |-> None]]
  /\ UNCHANGED <<rows, objs, started, lease, rec, polled>>

\* A storage list that fails ends the pass; a runtime list that fails starts none.
ListStorageFails(w) ==
  /\ pc[w] = "listing"
  /\ pc' = [pc EXCEPT ![w] = "idle"]
  /\ listed' = [listed EXCEPT ![w] = [i \in Ids |-> None]]
  /\ UNCHANGED <<rows, objs, started, lease, plan, rec, polled>>

\* The four loops of SyncSpecs run in this order.
Earlier(op) ==
  CASE op = "create"   -> {}
    [] op = "update"   -> {"create"}
    [] op = "delete"   -> {"create", "update"}
    [] op = "deleteDB" -> {"create", "update", "delete"}

Turn(w, i, op) ==
  /\ pc[w] = "acting"
  /\ plan[w][i].op = op
  /\ \A j \in Ids : plan[w][j].op \notin Earlier(op)

Tick(w, i) ==
  /\ plan' = [plan EXCEPT ![w][i] = Skip]
  /\ UNCHANGED <<lease, pc, listed, rec>>

CreateInRuntime(w, i) ==
  /\ Turn(w, i, "create")
  /\ Tick(w, i)
  /\ IF objs[i] = None
       THEN LET s == plan[w][i].spec IN
            /\ objs' = [objs EXCEPT ![i] = [spec |-> s, deleting |-> FALSE,
                                            status |-> Unknown(s)]]
            /\ started' = started \cup {i}
            /\ Notify(i)
       ELSE UNCHANGED <<objs, started, polled>>   \* AlreadyExists
  /\ UNCHANGED rows

UpdateInRuntime(w, i) ==
  /\ Turn(w, i, "update")
  /\ Tick(w, i)
  /\ IF objs[i] # None
       THEN LET s == plan[w][i].spec IN
            /\ objs' = [objs EXCEPT ![i].spec = s,
                                    ![i].status = IF KeepsStatus THEN @ ELSE Unknown(s)]
            /\ Notify(i)
       ELSE UNCHANGED <<objs, polled>>            \* NotFound
  /\ UNCHANGED <<rows, started>>

DeleteInRuntime(w, i) ==
  /\ Turn(w, i, "delete")
  /\ Tick(w, i)
  /\ IF Foreground /\ objs[i] # None
       THEN /\ objs' = [objs EXCEPT ![i].deleting = TRUE]
            /\ Notify(i)
       ELSE /\ objs' = [objs EXCEPT ![i] = None]
            /\ UNCHANGED polled
  /\ UNCHANGED <<rows, started>>

\* The service deletes by id: neither the mark nor the spec is looked at again.
DeleteInDB(w, i) ==
  /\ Turn(w, i, "deleteDB")
  /\ Tick(w, i)
  /\ rows' = [rows EXCEPT ![i] = None]
  /\ UNCHANGED <<objs, started, polled>>

\* The error of an item is logged and forgotten: the next pass plans it again.
ItemFails(w, i) ==
  /\ \E op \in {"create", "update", "delete", "deleteDB"} : Turn(w, i, op)
  /\ Tick(w, i)
  /\ UNCHANGED <<rows, objs, started, polled>>

EndPass(w) ==
  /\ pc[w] = "acting"
  /\ plan[w] = Idle
  /\ pc' = [pc EXCEPT ![w] = "idle"]
  /\ UNCHANGED <<rows, objs, started, lease, listed, plan, rec, polled>>

\* The call an item of the plan stands for goes through.
Act(w, i) ==
  \/ CreateInRuntime(w, i)
  \/ UpdateInRuntime(w, i)
  \/ DeleteInRuntime(w, i)
  \/ DeleteInDB(w, i)

Pass(w) ==
  \/ ListRuntime(w)
  \/ \E missed \in SUBSET Ids : ListStorage(w, missed)
  \/ ListStorageFails(w)
  \/ \E i \in Ids : Act(w, i) \/ ItemFails(w, i)
  \/ EndPass(w)

-----------------------------------------------------------------------------
(* statusReconciler.Reconcile and GenericWorker.SyncStatus                 *)

\* Take an id from the queue and get its custom resource; NotFound ends the polling.
FetchObject(w, i) ==
  /\ lease = w
  /\ rec[w] = None
  /\ i \in polled
  /\ polled' = polled \ {i}
  /\ rec' = IF objs[i] = None THEN rec
            ELSE [rec EXCEPT ![w] = [id |-> i, obj |-> objs[i], phase |-> "fetched"]]
  /\ UNCHANGED <<rows, objs, started, lease, workerVars>>

\* Get the row and compare the specs; a missing row ends the polling.
FetchRow(w) ==
  /\ rec[w] # None /\ rec[w].phase = "fetched"
  /\ LET i == rec[w].id IN
     \/ /\ rows[i] = None
        /\ rec' = [rec EXCEPT ![w] = None]
        /\ UNCHANGED polled
     \/ /\ rows[i] # None /\ ~SpecsEqual(rec[w].obj, rows[i])
        /\ rec' = [rec EXCEPT ![w] = None]
        /\ Requeue(w, i)
     \/ /\ rows[i] # None /\ SpecsEqual(rec[w].obj, rows[i])
        /\ rec' = [rec EXCEPT ![w].phase = "compared"]
        /\ UNCHANGED polled
  /\ UNCHANGED <<rows, objs, started, lease, workerVars>>

\* Mutant of ReportStatus: a status that was written needs no second look.
ReportStatusOnce(w) ==
  /\ rec[w] # None /\ rec[w].phase = "compared"
  /\ LET i == rec[w].id IN
     IF rows[i] # None /\ SpecsEqual(rec[w].obj, rows[i])
       THEN /\ rows' = [rows EXCEPT ![i].status = rec[w].obj.status]
            /\ UNCHANGED polled
       ELSE /\ UNCHANGED rows
            /\ Requeue(w, i)
  /\ rec' = [rec EXCEPT ![w] = None]
  /\ UNCHANGED <<objs, started, lease, workerVars>>

\* Mutant of ReportStatus: the transaction does not compare the specs again.
ReportStatusBlindly(w) ==
  /\ rec[w] # None /\ rec[w].phase = "compared"
  /\ LET i == rec[w].id IN
     /\ rows' = IF rows[i] = None THEN rows
                ELSE [rows EXCEPT ![i].status = rec[w].obj.status]
     /\ Requeue(w, i)
  /\ rec' = [rec EXCEPT ![w] = None]
  /\ UNCHANGED <<objs, started, lease, workerVars>>

\* The transaction of Update*Status: the row must still have the spec of the object.
ReportStatus(w) ==
  /\ rec[w] # None /\ rec[w].phase = "compared"
  /\ LET i == rec[w].id IN
     /\ IF rows[i] # None /\ SpecsEqual(rec[w].obj, rows[i])
          THEN rows' = [rows EXCEPT ![i].status = rec[w].obj.status]
          ELSE UNCHANGED rows                    \* NotFound, SpecWasTouched
     /\ Requeue(w, i)
  /\ rec' = [rec EXCEPT ![w] = None]
  /\ UNCHANGED <<objs, started, lease, workerVars>>

\* An error of the database: controller-runtime tries the id again.
ReconcileFails(w) ==
  /\ rec[w] # None
  /\ Requeue(w, rec[w].id)
  /\ rec' = [rec EXCEPT ![w] = None]
  /\ UNCHANGED <<rows, objs, started, lease, workerVars>>

\* Mutant of Resync: the informers deliver changes only.
ResyncNever == FALSE

\* The informers' periodic resync (controller-runtime's default, ten hours).
Resync ==
  /\ lease # None
  /\ polled' = polled \cup Existing(objs)
  /\ UNCHANGED <<rows, objs, started, lease, workerVars, rec>>

Reconcile(w) ==
  \/ \E i \in Ids : FetchObject(w, i)
  \/ FetchRow(w)
  \/ ReportStatus(w)
  \/ ReconcileFails(w)

-----------------------------------------------------------------------------
(* The operator and Kubernetes behind a custom resource                    *)

\* A finished training or packaging is not reconciled any more; the TaskRun of a
\* finished job does not change.
OperatorReports(i, st) ==
  /\ objs[i] # None /\ ~objs[i].deleting
  /\ Finite => objs[i].status.state # "Done"
  /\ objs' = [objs EXCEPT ![i].status = [state |-> st, of |-> objs[i].spec]]
  /\ Notify(i)
  /\ UNCHANGED <<rows, started, lease, workerVars, rec>>

OperatorMarksDeleting(i) ==
  /\ objs[i] # None /\ objs[i].deleting
  /\ objs' = [objs EXCEPT ![i].status = [state |-> "Deleting", of |-> objs[i].spec]]
  /\ Notify(i)
  /\ UNCHANGED <<rows, started, lease, workerVars, rec>>

\* The garbage collector removes an object whose dependents are gone.
Collect(i) ==
  /\ objs[i] # None /\ objs[i].deleting
  /\ objs' = [objs EXCEPT ![i] = None]
  /\ UNCHANGED <<rows, started, lease, workerVars, rec, polled>>

Cluster ==
  \E i \in Ids : \/ \E st \in {"Working", "Done"} : OperatorReports(i, st)
                 \/ OperatorMarksDeleting(i)
                 \/ Collect(i)

-----------------------------------------------------------------------------
Init ==
  /\ rows = [i \in Ids |-> None]
  /\ objs = [i \in Ids |-> None]
  /\ started = {}
  /\ lease = None
  /\ pc = [w \in Replicas |-> "idle"]
  /\ listed = [w \in Replicas |-> [i \in Ids |-> None]]
  /\ plan = [w \in Replicas |-> Idle]
  /\ rec = [w \in Replicas |-> None]
  /\ polled = {}

Next ==
  \/ User
  \/ \E w \in Replicas : Acquire(w) \/ Crash(w) \/ Pass(w) \/ Reconcile(w)
  \/ Resync
  \/ Cluster

Spec == Init /\ [][Next]_vars

\* Users owe nothing.  A lease is eventually taken and the ticker of its holder
\* ticks; calls fail and processes crash, but not for ever at the same point.
WorkerFairness ==
  /\ \A w \in Replicas :
       /\ WF_vars(lease = None /\ Acquire(w))
       /\ SF_vars(ListRuntime(w))
       /\ SF_vars(ListStorage(w, {}))
       /\ SF_vars(EndPass(w))
       /\ \A i \in Ids : SF_vars(Act(w, i))
  /\ \A i \in Ids : WF_vars(Collect(i))

ReconcilerFairness ==
  /\ WF_vars(Resync)
  /\ \A w \in Replicas :
       /\ \A i \in Ids : SF_vars(FetchObject(w, i))
       /\ SF_vars(FetchRow(w))
       /\ SF_vars(ReportStatus(w))

PassFairSpec == Spec /\ WorkerFairness

FairSpec == Spec /\ WorkerFairness /\ ReconcilerFairness

=============================================================================
