------------------------- MODULE RouteOperatorProps -------------------------
(***************************************************************************)
(* What the operator of model routes promises.                             *)
(***************************************************************************)
EXTENDS RouteOperator

\* The objects and the local variables are what is declared.
TypeOK ==
  /\ route \in Route \cup {None}
  /\ md \in [Deployments -> Deployment \cup {None}]
  /\ vs \in VirtualService \cup {None}
  /\ rec \in Rec \cup {None}
  /\ queued \in BOOLEAN

-----------------------------------------------------------------------------
(* Safety                                                                  *)

\* What was made for the route r leads to nothing that r does not lead to.
MadeFor(r, targets, mirror) ==
  DOMAIN targets \subseteq r.spec.targets /\ mirror \in {r.spec.mirror, None}

\* A virtual service that bears the version of the route, and so is left alone, was made
\* for the route as it is: it leads nowhere the route does not, however many edits and
\* routes of the same name it has outlived (ModelRouteVersionKey).
MarkIsTrue ==
  vs # None /\ route # None /\ vs.version = route.version =>
    MadeFor(route, vs.targets, vs.mirror)

-----------------------------------------------------------------------------
(* What must eventually happen                                             *)

\* Users and deployments have done all there is to do.
Wish == IF route = None THEN None ELSE route.spec

Settled == <>[](route # None) /\ <>[][FALSE]_<<Wish, md>>

IsReady(d) == md[d] # None /\ md[d].ready

Served == route # None /\ \A d \in route.spec.targets : IsReady(d)

\* "Route should reacts on changes in any ModelDeployment from its targets": once its
\* targets are all ready, traffic is led to all of them, with the header Host, the name
\* and the version of the model they have now, although a virtual service that was made
\* without some of them is taken for up to date as long as the route keeps its version
\* (ModelRouteVersionKey).
TargetsAreRouted ==
  (Settled /\ <>[](Served /\ route.spec.targets # {})) =>
    <>[](/\ vs # None /\ Served
         /\ vs.targets = [d \in route.spec.targets |-> md[d].host])

\* Once nothing changes any more the route has the state that goes with its targets
\* and its mirror.
StateFollowsTargets ==
  Settled =>
    <>[](route # None
         /\ route.state =
              IF Served /\ (route.spec.mirror = None \/ IsReady(route.spec.mirror))
              THEN "Ready" ELSE "Processing")

\* The operator reacts to its own updates, each of which makes a new version and so
\* a new virtual service; it comes to rest all the same.
ComesToRest ==
  Settled => <>[][FALSE]_<<route, vs>>

\* A route that is gone leaves no virtual service, even one that was made after its end.
NothingIsLeft ==
  <>[](route = None) => <>[](vs = None)

-----------------------------------------------------------------------------
(* The inductive invariant                                                 *)

\* A reconcile that may write has the route as it is, and only one that has it bears
\* its version.
VersionsTell ==
  rec # None =>
    /\ rec.fresh => route # None /\ rec.route = route
    /\ route # None /\ rec.route.version = route.version => rec.route = route

\* What a reconcile has found belongs to the route it has read; so does a virtual
\* service with the version it has read.
FoundFits ==
  rec # None =>
    /\ MadeFor(rec.route, rec.found, rec.mirror)
    /\ vs # None /\ vs.version = rec.route.version => MadeFor(rec.route, vs.targets, vs.mirror)

IInv == TypeOK /\ MarkIsTrue /\ VersionsTell /\ FoundFits

-----------------------------------------------------------------------------
(* What is left behind                                                     *)

\* The safe part of NothingIsLeft: a virtual service the collector leaves alone has its
\* route, whatever a reconcile creates after the end of the route it has read.
NothingStrays == vs # None /\ vs.owned => route # None

\* A reconcile that makes a virtual service for a route has the one that is there.
OwnerIsThere == rec # None /\ rec.owned => route # None

-----------------------------------------------------------------------------
(* Refinement                                                              *)

Stage(state) ==
  CASE state = "" -> "Unknown"
    [] state = "Processing" -> "Working"
    [] state = "Ready" -> "Done"

\* What the contract says of a route.
View(r) ==
  IF r = None THEN [stage |-> "Absent"]
  ELSE [spec |-> r.spec, deleting |-> FALSE, stage |-> Stage(r.state)]

Contract == INSTANCE CustomResource
  WITH Specs <- Wishes, Foreground <- FALSE, Finite <- FALSE, KeepsStatus <- TRUE,
       res <- View(route)

\* What the system controller sees of the route are the steps of its contract with the
\* operator: neither the labels nor a lost status is a step of its own.
KeepsContract == Contract!Spec

=============================================================================
