----------------------- MODULE DeploymentOperatorProps -----------------------
(***************************************************************************)
(* What the operator of model deployments promises.                        *)
(***************************************************************************)
EXTENDS DeploymentOperator

\* The objects, their cached versions and the local variables are what is declared.
TypeOK ==
  /\ setup \in Setups /\ password \in Passwords \cup {None}
  /\ md \in Store(MD) /\ ks \in Store(KService)
  /\ cm \in Store(Roles) /\ secret \in Store(Passwords)
  /\ replicas \in Replicas /\ orphans \subseteq Children
  /\ rec \in Rec \cup {None}
  /\ queued \in BOOLEAN

-----------------------------------------------------------------------------
(* Safety                                                                  *)

\* The operator updates the whole resource, but never takes back what a user has
\* changed since it read it, nor a deletion (reconcileStatus, pull_connections.go:118).
EditsAreKept ==
  [][(md.now # None /\ md'.now # None) =>
       /\ md'.now.spec # md.now.spec => \E s \in MDSpec : Edit(s)
       /\ md.now.deleting => md'.now.deleting]_vars

-----------------------------------------------------------------------------
(* At rest                                                                 *)

Alive == md.now # None /\ ~md.now.deleting

Declared == IF md.now = None THEN None ELSE md.now.spec

\* Nothing will happen: no reconcile, no name in the queue, no event on its way.
Settled ==
  /\ rec = None /\ ~queued
  /\ md.seen = md.now /\ cm.seen = cm.now /\ ks.seen = ks.now

\* The operator never comes to rest on a policy or a service of another specification:
\* whatever a cache has shown it and wherever a reconcile was cut off, an event or a
\* name in the queue is left until both are those of the resource.  A service behind a
\* pull connection is excepted: Reconcile ends without error when the connection cannot
\* be read (line 538) and then waits for the resync.  In between pods may run under the
\* policy of another role: an existing revision under the new map until the service
\* follows, and a new one under an old map that the cache still hides.
RestsInAgreement ==
  Settled /\ Alive =>
    /\ cm.now = Declared.role
    /\ setup.conn = "none" => ks.now # None /\ ks.now.spec = Declared

-----------------------------------------------------------------------------
(* What must eventually happen                                             *)

\* The user has done all there is to do.
LeftAlone == <>[]Alive /\ <>[][FALSE]_Declared

Reported(state) == md.now # None /\ md.now.state = state

\* Once a user leaves a deployment alone, and Knative its service, the service and the
\* policy are those of the specification, whatever a cache has shown or a call has failed.
ServiceFollowsSpec ==
  (LeftAlone /\ <>[][~KnativeReports]_ks) =>
    <>[](ks.now # None /\ ks.now.spec = Declared /\ cm.now = Declared.role)

\* The state follows the service: Ready when it serves for good, not Ready when it
\* does not serve any more (the watch of the service, the requeues of Reconcile).
StateFollowsService ==
  LeftAlone =>
    /\ <>[](ks.now # None /\ ks.now.ready /\ replicas = "all") => <>[]Reported("Ready")
    /\ <>[](ks.now # None /\ ~ks.now.ready) => <>[]~Reported("Ready")

\* A password that was changed reaches the pull secret of a Docker connection
\* (PeriodVerifyingDockerConnectionToken).
CredentialsArrive ==
  (<>[](Alive /\ setup.conn = "docker") /\ <>[][FALSE]_password) =>
    <>[](secret.now = password)

\* A deployment that is gone leaves nothing behind, even what a reconcile created
\* after its end (SetControllerReference).
NothingIsLeft ==
  <>[](md.now = None) => <>[](\A x \in Children : ~Exists(x))

-----------------------------------------------------------------------------
(* The inductive invariant                                                 *)

\* There is a password where there is a connection, and only then it is asked for.
PasswordFits ==
  /\ setup.conn = "none" <=> password = None
  /\ At("pull") \/ At("creds") => setup.conn # "none"

\* What a reconcile may write is what the user has asked for.
FreshIsCurrent ==
  rec # None /\ rec.fresh =>
    /\ md.now # None
    /\ rec.md.spec = md.now.spec /\ rec.md.deleting = md.now.deleting

IInv == TypeOK /\ PasswordFits /\ FreshIsCurrent

-----------------------------------------------------------------------------
(* What is left behind                                                     *)

\* The safe part of NothingIsLeft: a child without a resource is one the collector
\* takes, whatever a reconcile creates after the end of the resource it has read.
NothingStrays ==
  md.now = None => \A x \in Children : Exists(x) => x \in orphans

\* A reconcile that makes children for a resource has the one that is there.
OwnerIsThere == rec # None /\ rec.owned => md.now # None

-----------------------------------------------------------------------------
(* The inductive invariant of RestsInAgreement                             *)

\* The cache shows the resource that is there, of this life or an earlier version of it.
Shown == Alive /\ md.seen # None

\* The resource of a cache is not in deletion before the resource is.
ShownIsAlive == Shown => ~md.seen.deleting

\* Until an event has come, a reconcile works on what the cache shows.
ReadIsShown ==
  rec # None /\ ~queued =>
    /\ md.seen # None
    /\ rec.md.spec = md.seen.spec /\ rec.md.deleting = md.seen.deleting

\* A reconcile that has lost its resource leaves a name in the queue for the next one.
OwnedUnlessQueued == Alive /\ rec # None /\ ~rec.owned => queued

\* The policy, once a reconcile has gone over it.
PolicyDone == rec = None \/ rec.phase # "policy"

PolicyAgrees ==
  Shown /\ ~queued /\ PolicyDone =>
    /\ cm.seen = cm.now => cm.now = md.seen.spec.role
    /\ "cm" \in orphans /\ cm.now # None => cm.seen # None

\* The service, likewise; its condition comes from Knative.
ServiceDone == rec = None \/ rec.phase \in {"status", "write"}

SameService ==
  IF ks.seen = None THEN ks.now = None
  ELSE ks.now # None /\ ks.now.spec = ks.seen.spec

ServiceAgrees ==
  setup.conn = "none" /\ Shown /\ ~queued /\ ServiceDone =>
    /\ SameService => ks.now # None /\ ks.now.spec = md.seen.spec
    /\ "ks" \in orphans /\ ks.now # None => ks.seen # None

Agreement ==
  /\ ShownIsAlive
  /\ ReadIsShown
  /\ OwnedUnlessQueued
  /\ PolicyAgrees
  /\ ServiceAgrees

-----------------------------------------------------------------------------
(* Refinement                                                              *)

Stage(state) ==
  CASE state = "" -> "Unknown"
    [] state = "Processing" -> "Working"
    [] state = "Ready" -> "Done"
    [] state = "Deleting" -> "Deleting"

\* What the contract says of a custom resource.
View(c) ==
  IF c = None THEN [stage |-> "Absent"]
  ELSE [spec |-> c.spec, deleting |-> c.deleting, stage |-> Stage(c.state)]

Contract == INSTANCE CustomResource
  WITH Specs <- MDSpec, Foreground <- TRUE, Finite <- FALSE, KeepsStatus <- TRUE,
       res <- View(md.now)

\* What the system controller sees of the resource are the steps of its contract with
\* the operator, whichever caches are late: the state Deleting is that of a resource in
\* deletion, and an update of the credentials reports nothing.
KeepsContract == Contract!Spec

\* The inductive part of it: what a reconcile may write has the state it has read, until
\* it has come to one of its own.
StatusFits ==
  rec # None /\ rec.fresh =>
    IF rec.phase = "write"
    THEN rec.md.state \in (IF rec.md.deleting THEN {"Deleting"} ELSE {"Processing", "Ready"})
    ELSE rec.md.state = md.now.state /\ ~rec.md.deleting

=============================================================================
