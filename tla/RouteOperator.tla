---------------------------- MODULE RouteOperator ----------------------------
(***************************************************************************)
(* The operator of model routes (controllers/modelroute_controller.go) at  *)
(* work on one route: its labels, its Istio virtual service and its state, *)
(* while the deployments it leads to come, go and change.                  *)
(*                                                                         *)
(* The virtual service carries the resource version of the route it was    *)
(* made for, and is left alone as long as the route still has it.          *)
(***************************************************************************)
EXTENDS Naturals, FiniteSets

CONSTANTS
  Deployments,  \* model deployments
  Hosts,        \* what a virtual service takes over from a deployment: the header
                \* Host, the name and the version of the model
  Wishes,       \* the specifications a user may give to the route
  StatusIsLost, \* whether the state Processing may fail to be stored although nobody
                \* else has written, or the process stop before it is stored
  None          \* no object, no mirror

\* The weights are left out, and so is the order of the targets.
RouteSpec == [targets: SUBSET Deployments, mirror: Deployments \cup {None}]

\* A resource version is only compared with another one, so that those nobody holds
\* can be used again: the route, a reconcile and the virtual service hold one each.
Versions == 1..4

Route == [spec: RouteSpec, labels: SUBSET Deployments,
          state: {"", "Processing", "Ready"}, version: Versions]

\* A deployment as the cache shows it; the host is read from one that is ready only.
Deployment == [ready: BOOLEAN, host: Hosts]

\* What is known of a target: where it is, or that it is missing.
Targets == UNION {[S -> Hosts] : S \in SUBSET Deployments}

VirtualService == [targets: Targets, mirror: Deployments \cup {None},
                   version: Versions, owned: BOOLEAN]

Phases == {"labels", "targets", "service", "status"}

Rec == [route: Route, phase: Phases, fresh: BOOLEAN, owned: BOOLEAN,
        read: SUBSET Deployments, found: Targets, mirror: Deployments \cup {None},
        again: BOOLEAN]

ASSUME RouteAssumption ==
  /\ Wishes \subseteq RouteSpec
  /\ StatusIsLost \in BOOLEAN
  /\ None \notin Route \cup Deployment \cup VirtualService \cup Rec \cup Deployments

VARIABLES
  route,   \* the custom resource
  md,      \* the deployments, as the cache shows them
  vs,      \* the virtual service
  rec,     \* the local variables of Reconcile, or None
  queued   \* the workqueue holds the name

vars == <<route, md, vs, rec, queued>>

-----------------------------------------------------------------------------
(* Helpers                                                                 *)

Held ==
  {r.version : r \in {route, vs} \ {None}}
    \cup (IF rec = None THEN {} ELSE {rec.route.version})

NewVersion == CHOOSE v \in Versions : v \notin Held

SameContent(a, b) == [a EXCEPT !.version = 1] = [b EXCEPT !.version = 1]

\* Mutant of Written: every update makes a new version.
WrittenAnew(r) == [r EXCEPT !.version = NewVersion]

\* An update that changes nothing makes no new version.
Written(r) ==
  IF SameContent(r, route) THEN route ELSE [r EXCEPT !.version = NewVersion]

\* The route and its virtual service are watched.
Notify == queued' = (queued \/ route' # route \/ vs' # vs)

Outdated == IF rec = None THEN None ELSE [rec EXCEPT !.fresh = FALSE]

At(phase) == rec # None /\ rec.phase = phase

-----------------------------------------------------------------------------
(* The system controller, on behalf of users                               *)

Declare(s) ==
  /\ route = None
  /\ route' = [spec |-> s, labels |-> {}, state |-> "", version |-> NewVersion]
  /\ rec' = Outdated
  /\ UNCHANGED <<md, vs>>
  /\ Notify

\* An update keeps labels and status.
Edit(s) ==
  /\ route # None /\ route.spec # s
  /\ route' = [route EXCEPT !.spec = s, !.version = NewVersion]
  /\ rec' = Outdated
  /\ UNCHANGED <<md, vs>>
  /\ Notify

Remove ==
  /\ route # None
  /\ route' = None
  /\ vs' = IF vs = None THEN None ELSE [vs EXCEPT !.owned = FALSE]
  /\ rec' = IF rec = None THEN None ELSE [rec EXCEPT !.fresh = FALSE, !.owned = FALSE]
  /\ UNCHANGED md
  /\ Notify

-----------------------------------------------------------------------------
(* Reconcile                                                               *)

Ignore ==
  /\ queued /\ rec = None
  /\ route = None
  /\ queued' = FALSE
  /\ UNCHANGED <<route, md, vs, rec>>

Begin ==
  /\ queued /\ rec = None
  /\ route # None
  /\ rec' = [route |-> route, phase |-> "labels", fresh |-> TRUE, owned |-> TRUE,
             read |-> {}, found |-> [d \in {} |-> None], mirror |-> None, again |-> FALSE]
  /\ queued' = FALSE
  /\ UNCHANGED <<route, md, vs>>

\* An update is refused when somebody has written a newer version.
Unchanged == rec.fresh

\* The update gives the reconcile the new version.
SetLabels ==
  /\ At("labels")
  /\ LET labelled == [rec.route EXCEPT !.labels = rec.route.spec.targets] IN
       IF labelled = rec.route
       THEN /\ rec' = [rec EXCEPT !.phase = "targets"]
            /\ UNCHANGED route
       ELSE /\ Unchanged
            /\ route' = Written(labelled)
            /\ rec' = [rec EXCEPT !.phase = "targets", !.route = Written(labelled)]
  /\ UNCHANGED <<md, vs>>
  /\ Notify

\* A target that is missing is left out.  One that is not ready ends the reading: the
\* virtual service stays as it is.
ReadTarget(d) ==
  /\ At("targets")
  /\ d \in rec.route.spec.targets \ rec.read
  /\ rec' =
       IF md[d] = None THEN [rec EXCEPT !.read = @ \cup {d}, !.again = TRUE]
       ELSE IF ~md[d].ready THEN [rec EXCEPT !.phase = "status", !.again = TRUE]
       ELSE [rec EXCEPT !.read = @ \cup {d},
                        !.found = [x \in DOMAIN @ \cup {d} |->
                                     IF x = d THEN md[d].host ELSE @[x]]]
  /\ UNCHANGED <<route, md, vs, queued>>

\* Mirrored to a deployment that is there and ready.
ReadMirror ==
  /\ At("targets")
  /\ rec.read = rec.route.spec.targets
  /\ LET d == rec.route.spec.mirror
         here == d # None /\ md[d] # None /\ md[d].ready
     IN rec' = IF DOMAIN rec.found = {} THEN [rec EXCEPT !.phase = "status"]
               ELSE [rec EXCEPT !.phase = "service",
                                !.mirror = IF here THEN d ELSE None,
                                !.again = @ \/ (d # None /\ ~here)]
  /\ UNCHANGED <<route, md, vs, queued>>

\* Mutant of Made: the owner is known by its name, whatever has become of it.
MadeForName ==
  [targets |-> rec.found, mirror |-> rec.mirror, version |-> rec.route.version,
   owned |-> TRUE]

\* Mutant of Made: the version is that of the route by now.
MadeForNewest ==
  [targets |-> rec.found, mirror |-> rec.mirror, owned |-> rec.owned,
   version |-> IF route = None THEN rec.route.version ELSE route.version]

Made == [targets |-> rec.found, mirror |-> rec.mirror, version |-> rec.route.version,
         owned |-> rec.owned]

\* Mutant of ReconcileVirtualService: a virtual service that is there is left alone.
CreateServiceOnce ==
  /\ At("service")
  /\ vs' = IF vs = None THEN Made ELSE vs
  /\ rec' = [rec EXCEPT !.phase = "status"]
  /\ UNCHANGED <<route, md>>
  /\ Notify

\* Created, or updated when it was made for another version of the route; an update
\* leaves its owner.
ReconcileVirtualService ==
  /\ At("service")
  /\ vs' = IF vs = None THEN Made
           ELSE IF vs.version = rec.route.version THEN vs
           ELSE [Made EXCEPT !.owned = vs.owned]
  /\ rec' = [rec EXCEPT !.phase = "status"]
  /\ UNCHANGED <<route, md>>
  /\ Notify

\* Mutant of Verdict: what is missing is forgotten.
AlwaysReady == "Ready"

Verdict == IF rec.again THEN "Processing" ELSE "Ready"

UpdateStatus ==
  /\ At("status")
  /\ Unchanged
  /\ route' = Written([rec.route EXCEPT !.state = Verdict])
  /\ rec' = None
  /\ UNCHANGED <<md, vs>>
  /\ Notify

\* Somebody has written a newer version.
Conflict == rec # None /\ ~rec.fresh /\ rec.phase \in {"labels", "status"}

\* The error of storing the state Processing is ignored.
LoseStatus ==
  /\ At("status")
  /\ rec.again
  /\ StatusIsLost \/ Conflict
  /\ rec' = None
  /\ UNCHANGED <<route, md, vs, queued>>

\* A call fails: the name comes back after a backoff.
Fail ==
  /\ rec # None
  /\ ~(rec.phase = "status" /\ rec.again)
  /\ rec' = None
  /\ queued' = TRUE
  /\ UNCHANGED <<route, md, vs>>

\* The delay of RequeueAfter is over, or the informers resync.
Requeue ==
  /\ route # None
  /\ queued' = TRUE
  /\ UNCHANGED <<route, md, vs, rec>>

Restart ==
  /\ StatusIsLost \/ ~(At("status") /\ rec.again)
  /\ rec' = None
  /\ queued' = (route # None \/ vs # None)
  /\ UNCHANGED <<route, md, vs>>

Work ==
  \/ Ignore \/ Begin
  \/ SetLabels
  \/ \E d \in Deployments : ReadTarget(d)
  \/ ReadMirror
  \/ ReconcileVirtualService
  \/ UpdateStatus \/ LoseStatus
  \/ Fail

Operator == Work \/ Requeue \/ Restart

-----------------------------------------------------------------------------
(* The deployments and the garbage collector                               *)

\* Every route is queued for an event of any deployment: the selector for the routes
\* that lead to it stays empty.
DeploymentChanges(d, x) ==
  /\ md[d] # x
  /\ md' = [md EXCEPT ![d] = x]
  /\ queued' = (queued \/ route # None)
  /\ UNCHANGED <<route, vs, rec>>

\* A deployment is created, is ready or not, is gone; what it serves is found out once.
DeploymentStep(d) ==
  \/ /\ md[d] = None
     /\ \E h \in Hosts : DeploymentChanges(d, [ready |-> FALSE, host |-> h])
  \/ /\ md[d] # None
     /\ \E r \in BOOLEAN : DeploymentChanges(d, [md[d] EXCEPT !.ready = r])
  \/ DeploymentChanges(d, None)

CollectVirtualService ==
  /\ vs # None /\ ~vs.owned
  /\ vs' = None
  /\ UNCHANGED <<route, md, rec>>
  /\ Notify

-----------------------------------------------------------------------------
Init ==
  /\ route = None
  /\ md = [d \in Deployments |-> None]
  /\ vs = None
  /\ rec = None
  /\ queued = FALSE

Next ==
  \/ \E s \in Wishes : Declare(s) \/ Edit(s)
  \/ Remove
  \/ Operator
  \/ \E d \in Deployments : DeploymentStep(d)
  \/ CollectVirtualService

Spec == Init /\ [][Next]_vars

Lucky ==
  rec # None /\ rec' = None => UpdateStatus \/ (Conflict /\ (Fail \/ LoseStatus))

\* A queued name is taken in its turn and comes back after a delay, a reconcile goes
\* on, and the garbage collector works.  From some time on calls fail for a conflict
\* only, and the process runs.
Fairness ==
  /\ WF_vars(Work) /\ WF_vars(Requeue)
  /\ WF_vars(CollectVirtualService)
  /\ <>[][Lucky]_vars

FairSpec == Spec /\ Fairness

=============================================================================
