---------------------------- MODULE TaskOperator ----------------------------
(***************************************************************************)
(* The operators that turn a custom resource into a Tekton task run        *)
(* (packages/operator/controllers): ModelTrainingReconciler,               *)
(* ModelPackagingReconciler and BatchInferenceJobReconciler, for one       *)
(* entity.                                                                 *)
(*                                                                         *)
(*             result map   must save it   edits   final state is kept     *)
(* training        x                         x              x              *)
(* packaging       x             x           x              x              *)
(* batch                                                                   *)
(*                                                                         *)
(* An operator reads from the caches of its informers and writes to the    *)
(* Kubernetes API.  A cache shows an object as it is or as it was, each    *)
(* object at its own pace (Lagging).  An update of the custom resource is  *)
(* refused when it has changed since the version that was read; deleting   *)
(* and creating a task run only look at its name.                          *)
(***************************************************************************)
CONSTANTS
  Specs,    \* the specifications a user may give to the entity
  Kinds,    \* kinds of entity: a set of "training", "packaging" and "batch"
  Lagging,  \* which of "cr", "run" and "cm" a cache may show as it was before
  None      \* no object, no reconcile

States == {"Unknown", "Scheduling", "Running", "Succeeded", "Failed"}

\* The artifacts and results that go with the state Succeeded are left out.
CR == [spec: Specs, state: States]

\* The result map, without or with something that can be unmarshalled.
Results == {"empty", "saved"}

\* Conditions of a task run, and while they are Unknown the phase of its pod.
Phases == {"pending", "running", "ended", "evicted", "true", "false"}

Run == [of: Specs, phase: Phases]

Rec == [cr: CR, phase: {"config", "run", "create", "created"},
        fresh: BOOLEAN, owned: BOOLEAN]

\* An object as it is and as the cache of its informer shows it.
Store(T) == [now: T \cup {None}, seen: T \cup {None}]

ASSUME KindsAssumption ==
  /\ Kinds \subseteq {"training", "packaging", "batch"}
  /\ Lagging \subseteq {"cr", "run", "cm"}

ASSUME AbsentAssumption ==
  /\ None \notin CR
  /\ None \notin Run
  /\ None \notin Rec
  /\ None \notin Results

VARIABLES
  kind,     \* which of the three operators this is
  cr,       \* the custom resource
  run,      \* the task run of its name, with its pod
  cm,       \* the result config map
  orphans,  \* which of "run" and "cm" have an owner that does not exist any more
  dying,    \* the pod of a deleted run has not stopped yet
  rec,      \* the local variables of Reconcile, or None
  queued    \* the workqueue of the operator holds the name

vars == <<kind, cr, run, cm, orphans, dying, rec, queued>>

-----------------------------------------------------------------------------
(* Helpers                                                                 *)

HasResult == kind \in {"training", "packaging"}

Put(name, store, x) ==
  IF x = store.now THEN store
  ELSE [now |-> x, seen |-> IF name \in Lagging THEN store.seen ELSE x]

Refresh(store) == [store EXCEPT !.seen = store.now]

\* Mutant of Watch: the operator does not watch task runs.
WatchResourceOnly == cr'.seen # cr.seen

\* The informers of the custom resource and of its task run call the handlers.
Watch == cr'.seen # cr.seen \/ run'.seen # run.seen

Notify == queued' = (queued \/ Watch)

\* Mutant of IsFinished: a final state is looked at again.
NeverFinished(c) == FALSE

IsFinished(c) == kind # "batch" /\ c.state \in {"Succeeded", "Failed"}

\* A version that somebody else writes makes the one of a reconcile outdated.
Outdated == IF rec = None THEN None ELSE [rec EXCEPT !.fresh = FALSE]

OwnedBy(x) == IF rec.owned THEN orphans \ {x} ELSE orphans \cup {x}

\* The pod of a run that is deleted gets a grace period.
Terminated == dying \/ run.now.phase = "running"

-----------------------------------------------------------------------------
(* The system controller, on behalf of users                               *)

\* Bound: the cache has shown the end of a resource before the next one is created.
Declare(s) ==
  /\ cr.now = None /\ cr.seen = None
  /\ cr' = Put("cr", cr, [spec |-> s, state |-> "Unknown"])
  /\ rec' = Outdated
  /\ UNCHANGED <<kind, run, cm, orphans, dying>>
  /\ Notify

\* An update that changes nothing makes no new version; one with the same spec resets
\* the state all the same.
Edit(s) ==
  /\ kind # "batch"
  /\ cr.now # None
  /\ cr.now # [spec |-> s, state |-> "Unknown"]
  /\ cr' = Put("cr", cr, [spec |-> s, state |-> "Unknown"])
  /\ rec' = Outdated
  /\ UNCHANGED <<kind, run, cm, orphans, dying>>
  /\ Notify

Remove ==
  /\ cr.now # None
  /\ cr' = Put("cr", cr, None)
  /\ orphans' = {x \in {"run", "cm"} : (IF x = "run" THEN run ELSE cm).now # None}
  /\ rec' = IF rec = None THEN None ELSE [rec EXCEPT !.fresh = FALSE, !.owned = FALSE]
  /\ UNCHANGED <<kind, run, cm, dying>>
  /\ Notify

-----------------------------------------------------------------------------
(* The operator                                                            *)

\* Reconcile of a resource that is gone or, but for batch jobs, finished.
Ignore ==
  /\ queued /\ rec = None
  /\ cr.seen # None => IsFinished(cr.seen)
  /\ queued' = FALSE
  /\ UNCHANGED <<kind, cr, run, cm, orphans, dying, rec>>

Begin ==
  /\ queued /\ rec = None
  /\ cr.seen # None
  /\ ~IsFinished(cr.seen)
  /\ rec' = [cr |-> cr.seen, phase |-> IF HasResult THEN "config" ELSE "run",
             fresh |-> cr.seen = cr.now, owned |-> cr.now # None]
  /\ queued' = FALSE
  /\ UNCHANGED <<kind, cr, run, cm, orphans, dying>>

CreateResultConfigMap ==
  /\ rec # None /\ rec.phase = "config"
  /\ \/ /\ cm.seen # None
        /\ UNCHANGED <<cm, orphans>>
     \/ /\ cm.seen = None /\ cm.now = None
        /\ cm' = Put("cm", cm, "empty")
        /\ orphans' = OwnedBy("cm")
  /\ rec' = [rec EXCEPT !.phase = "run"]
  /\ UNCHANGED <<kind, cr, run, dying, queued>>

\* Mutant of NeedsRun: a task run that is there is taken over.
NeedsRunOnce == rec.cr.state = "Unknown" /\ run.seen = None

\* reconcileTaskRun creates a run, whether there is one or not, until a state was
\* reported.
NeedsRun == rec.cr.state = "Unknown"

DeleteTaskRun ==
  /\ rec # None /\ rec.phase = "run"
  /\ NeedsRun
  /\ run.seen # None
  /\ run.now # None
  /\ run' = Put("run", run, None)
  /\ orphans' = orphans \ {"run"}
  /\ dying' = Terminated
  /\ rec' = [rec EXCEPT !.phase = "create"]
  /\ UNCHANGED <<kind, cr, cm>>
  /\ Notify

CreateTaskRun ==
  /\ rec # None
  /\ \/ rec.phase = "run" /\ NeedsRun /\ run.seen = None
     \/ rec.phase = "create"
  /\ run.now = None
  /\ run' = Put("run", run, [of |-> rec.cr.spec, phase |-> "pending"])
  /\ orphans' = OwnedBy("run")
  /\ rec' = [rec EXCEPT !.phase = "created"]
  /\ UNCHANGED <<kind, cr, cm, dying>>
  /\ Notify

\* The state by the conditions of the task run and by its pod; a pod that has ended
\* leaves the state as it was.
Calculated ==
  IF rec.phase = "created" THEN "Scheduling"
  ELSE CASE run.seen.phase = "pending" -> "Scheduling"
         [] run.seen.phase = "running" -> "Running"
         [] run.seen.phase = "ended" -> rec.cr.state
         [] run.seen.phase = "true" -> "Succeeded"
         [] run.seen.phase \in {"evicted", "false"} -> "Failed"

TakesResult == HasResult /\ rec.phase = "run" /\ run.seen.phase = "true"

\* Mutant of Unchanged: the update does not carry the version that was read.
UpdatesBlindly == cr.now # None

\* The update carries the version that was read, and this is still the present one.
Unchanged == rec.fresh

\* An empty result map cannot be unmarshalled; an outdated update is a conflict.
UpdateStatus ==
  /\ rec # None
  /\ \/ rec.phase = "created"
     \/ rec.phase = "run" /\ ~NeedsRun /\ run.seen # None
  /\ TakesResult => cm.seen = "saved"
  /\ Unchanged
  /\ cr' = Put("cr", cr, [rec.cr EXCEPT !.state = Calculated])
  /\ rec' = None
  /\ UNCHANGED <<kind, run, cm, orphans, dying>>
  /\ Notify

\* Mutant of Fail: the reconcile ends with success, nothing brings the name back.
FailSilently ==
  /\ rec # None
  /\ rec' = None
  /\ UNCHANGED <<kind, cr, run, cm, orphans, dying, queued>>

\* A call fails, or what a cache showed is not there or there already: the name is
\* queued again after a backoff.
Fail ==
  /\ rec # None
  /\ rec' = None
  /\ queued' = TRUE
  /\ UNCHANGED <<kind, cr, run, cm, orphans, dying>>

\* A new process lists every object before it starts.
Restart ==
  /\ cr' = Refresh(cr) /\ run' = Refresh(run) /\ cm' = Refresh(cm)
  /\ rec' = None
  /\ queued' = (cr.now # None \/ run.now # None)
  /\ UNCHANGED <<kind, orphans, dying>>

Resync ==
  /\ cr.seen # None
  /\ queued' = TRUE
  /\ UNCHANGED <<kind, cr, run, cm, orphans, dying, rec>>

Operator ==
  \/ Ignore \/ Begin
  \/ CreateResultConfigMap \/ DeleteTaskRun \/ CreateTaskRun
  \/ UpdateStatus \/ Fail \/ Restart \/ Resync

-----------------------------------------------------------------------------
(* Informers, garbage collector, Tekton and the containers of the pod      *)

ObserveResource ==
  /\ cr.seen # cr.now
  /\ cr' = Refresh(cr)
  /\ UNCHANGED <<kind, run, cm, orphans, dying, rec>>
  /\ Notify

ObserveRun ==
  /\ run.seen # run.now
  /\ run' = Refresh(run)
  /\ UNCHANGED <<kind, cr, cm, orphans, dying, rec>>
  /\ Notify

\* Nobody watches the config map.
ObserveConfigMap ==
  /\ cm.seen # cm.now
  /\ cm' = Refresh(cm)
  /\ UNCHANGED <<kind, cr, run, orphans, dying, rec, queued>>

CollectRun ==
  /\ "run" \in orphans
  /\ run.now # None
  /\ run' = Put("run", run, None)
  /\ dying' = Terminated
  /\ orphans' = orphans \ {"run"}
  /\ UNCHANGED <<kind, cr, cm, rec>>
  /\ Notify

CollectConfigMap ==
  /\ "cm" \in orphans
  /\ cm' = Put("cm", cm, None)
  /\ orphans' = orphans \ {"cm"}
  /\ UNCHANGED <<kind, cr, run, dying, rec, queued>>

\* Tekton moves the run, and with it the pod, from one of the phases to another.
RunGoes(from, to) ==
  /\ run.now # None
  /\ run.now.phase \in from
  /\ run' = Put("run", run, [run.now EXCEPT !.phase = to])
  /\ UNCHANGED <<kind, cr, orphans, dying, rec>>
  /\ Notify

Progress ==
  /\ \/ RunGoes({"pending"}, "running")
     \/ RunGoes({"pending", "running"}, "evicted")
     \/ RunGoes({"ended"}, "true")
     \/ RunGoes({"pending", "running", "evicted"}, "false")
  /\ UNCHANGED cm

SaveResult == cm.now # None /\ cm' = Put("cm", cm, "saved")

\* Setup of the trainer saves the commit.
SaveCommit ==
  /\ kind = "training"
  /\ run.now # None /\ run.now.phase = "running"
  /\ SaveResult
  /\ UNCHANGED <<kind, cr, run, orphans, dying, rec, queued>>

\* The last container: the trainer logs the error of a save that fails and succeeds.
Finish ==
  /\ RunGoes({"running"}, "ended")
  /\ \/ HasResult /\ SaveResult
     \/ kind # "packaging" /\ UNCHANGED cm

\* A pod that is being terminated gets as far as saving its result, or not.
Terminate ==
  /\ dying
  /\ dying' = FALSE
  /\ UNCHANGED cm \/ (HasResult /\ SaveResult)
  /\ UNCHANGED <<kind, cr, run, orphans, rec, queued>>

Cluster ==
  \/ ObserveResource \/ ObserveRun \/ ObserveConfigMap
  \/ CollectRun \/ CollectConfigMap
  \/ Progress \/ SaveCommit \/ Finish \/ Terminate

-----------------------------------------------------------------------------
Init ==
  /\ kind \in Kinds
  /\ cr = [now |-> None, seen |-> None]
  /\ run = [now |-> None, seen |-> None]
  /\ cm = [now |-> None, seen |-> None]
  /\ orphans = {}
  /\ dying = FALSE
  /\ rec = None
  /\ queued = FALSE

Next ==
  \/ \E s \in Specs : Declare(s) \/ Edit(s)
  \/ Remove
  \/ Operator
  \/ Cluster

Spec == Init /\ [][Next]_vars

\* Events arrive, a queued name is taken in its turn, a reconcile comes to its end,
\* and a call that is made again and again succeeds in the end.
Fairness ==
  /\ WF_vars(ObserveResource) /\ WF_vars(ObserveRun) /\ WF_vars(ObserveConfigMap)
  /\ WF_vars(Ignore) /\ SF_vars(Begin)
  /\ SF_vars(CreateResultConfigMap)
  /\ SF_vars(DeleteTaskRun) /\ SF_vars(CreateTaskRun)
  /\ SF_vars(UpdateStatus) /\ WF_vars(Fail)

FairSpec == Spec /\ Fairness

=============================================================================
