------------------------- MODULE TaskOperatorProps --------------------------
(***************************************************************************)
(* What the operators of trainings, packagings and batch jobs owe to the   *)
(* custom resource and to its task run.                                    *)
(***************************************************************************)
EXTENDS TaskOperator

\* Every variable has its type; the state is one of those the code has a name for.
TypeOK ==
  /\ kind \in Kinds
  /\ cr \in Store(CR)
  /\ run \in Store(Run)
  /\ cm \in Store(Results)
  /\ orphans \subseteq {"run", "cm"}
  /\ dying \in BOOLEAN
  /\ rec \in Rec \cup {None}
  /\ queued \in BOOLEAN

\* Once a state was reported, the task run is one of the present spec: no edit is
\* answered with the run of an earlier one, however late the caches are and
\* whatever fails between deleting, creating and reporting (reconcileTaskRun).
RunIsOfSpec ==
  cr.now # None /\ cr.now.state # "Unknown" /\ run.now # None
    => run.now.of = cr.now.spec

Final(c) == c.state \in {"Succeeded", "Failed"}

\* What a reconcile, or the cache it begins with, takes for a resource without a state
\* is the present one or has its spec: no state is reported but by the one reconcile
\* there is, which has read the spec from the same cache.
KnowsSpec(c) ==
  cr.now # None /\ cr.now.state # "Unknown" /\ c.state = "Unknown"
    => c.spec = cr.now.spec

\* The inductive invariant behind RunIsOfSpec, EditsAreKept and FinishedIsFinal.
IInv ==
  /\ TypeOK
  /\ RunIsOfSpec
  /\ cr.seen # None => KnowsSpec(cr.seen)
  /\ rec # None =>
       /\ KnowsSpec(rec.cr)
       /\ rec.fresh => cr.now = rec.cr /\ cr.seen = rec.cr
       /\ kind # "batch" => ~Final(rec.cr)
       /\ rec.phase \in {"create", "created"} => rec.cr.state = "Unknown"
       /\ rec.phase = "created" /\ run.now # None => run.now.of = rec.cr.spec

\* An operator, which writes the whole resource back, never undoes an edit nor the
\* reset of the state that comes with it (syncCrdState).
EditsAreKept ==
  [][/\ cr.now # None /\ cr'.now # None
     /\ cr'.now.spec # cr.now.spec
     => cr'.now.state = "Unknown"]_vars

\* A training or packaging that has succeeded or failed stays so until it is edited or
\* removed, even if a late cache makes the operator run it once more (isTrainingFinished).
FinishedIsFinal ==
  [][kind # "batch" /\ cr.now # None /\ Final(cr.now) /\ cr'.now # None
     => cr'.now.state \in {cr.now.state, "Unknown"}]_vars

Reported == cr.now # None /\ cr.now.state # "Unknown"

\* A resource that says "TaskRun that should exist" comes to be without its run in one
\* way only: a reconcile that was shown a version without a state, and an outdated one,
\* deletes it.  No failed call or crash between deleting, creating and reporting does
\* it, nor the collector with the run of an earlier resource (reconcileTaskRun).
RunIsKept ==
  [][Reported' /\ run'.now = None =>
       \/ Reported /\ run.now = None
       \/ DeleteTaskRun /\ rec.cr # cr.now]_vars

\* The inductive part of it: a run that is going to be collected belongs to a resource
\* without a state, and whoever may still report one has seen to its run.
RunStays ==
  /\ "run" \in orphans => ~Reported
  /\ rec # None =>
       /\ ~rec.owned => ~Reported
       /\ rec.fresh => rec.owned
       /\ rec.fresh /\ rec.phase = "created" => run.now # None /\ "run" \notin orphans

\* The end that is reported is the end of a task run of the present spec, as far as
\* the cache of task runs is not late at that moment: never that of an earlier edit or
\* of an earlier resource of the same name (reconcileTaskRun, calculateStateByTaskRun).
EndIsOfSpec ==
  [][/\ cr.now # None /\ cr'.now # None
     /\ ~Final(cr.now) /\ Final(cr'.now)
     /\ run.seen = run.now
     => run.now # None /\ run.now.of = cr'.now.spec]_vars

\* A child the collector will not take belongs to a resource that is there: whatever a
\* reconcile creates after the end of its resource, it creates as an orphan
\* (SetControllerReference).
NothingStrays ==
  cr.now = None =>
    /\ run.now # None => "run" \in orphans
    /\ cm.now # None => "cm" \in orphans

\* A reconcile that makes children for a resource has the one that is there.
OwnerIsThere == rec # None /\ rec.owned => cr.now # None

-----------------------------------------------------------------------------
(* Refinement                                                              *)

Stage(c) ==
  CASE c.state = "Unknown" -> "Unknown"
    [] c.state \in {"Scheduling", "Running"} -> "Working"
    [] c.state \in {"Succeeded", "Failed"} -> "Done"

Shown ==
  IF cr.now = None THEN [stage |-> "Absent"]
  ELSE [spec |-> cr.now.spec, deleting |-> FALSE, stage |-> Stage(cr.now)]

Contract == INSTANCE CustomResource
  WITH Foreground <- FALSE, Finite <- TRUE, KeepsStatus <- FALSE, res <- Shown

\* What the system controller sees of the resource are the steps of its contract with
\* the operator: for trainings and packagings whichever cache is late, for batch jobs,
\* which are looked at again after their end, unless the one of task runs is.
KeepsContract == Contract!Spec

\* The inductive part of it: neither a reconcile nor the cache it begins with takes a
\* resource for new that has reached its end, and the run of a batch job is at its end
\* with it.
EndStands ==
  /\ "run" \notin Lagging => run.seen = run.now
  /\ cr.now # None /\ Final(cr.now) =>
       /\ cr.seen # None => cr.seen.state # "Unknown"
       /\ rec # None => rec.cr.state # "Unknown"
       /\ kind = "batch" /\ "run" \notin Lagging /\ run.now # None
            => run.now.phase \in {"ended", "evicted", "true", "false"}

-----------------------------------------------------------------------------
(* Liveness                                                                *)

\* An entity that is written gets its task run, unless it is edited again or removed.
EditIsStarted ==
  \A s \in Specs :
    cr.now # None /\ cr.now.spec = s /\ cr.now.state = "Unknown"
    ~> cr.now = None \/ cr.now.spec # s \/ cr.now.state # "Unknown"

\* The task run of the resource has come to its end, and left a result if it has to.
Ended ==
  /\ cr.now # None /\ run.now # None
  /\ \/ run.now.phase = "false"
     \/ /\ run.now.phase = "true"
        /\ HasResult => cm.now = "saved"
  /\ orphans = {}

\* The end of a task run reaches the status of the resource, whether the events of the
\* two objects come early, late or in the other order (SetupBuilder, Reconcile).
OutcomeIsReported == []<>(Ended => Final(cr.now))

=============================================================================
