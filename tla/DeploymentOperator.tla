------------------------- MODULE DeploymentOperator -------------------------
(***************************************************************************)
(* The operator of model deployments (controllers/modeldeployment_         *)
(* controller.go) at work on one name: the policy config map, the pull     *)
(* secret with its service account, the Knative service and the state of   *)
(* the custom resource.                                                    *)
(*                                                                         *)
(* A reconcile makes its calls one after the other; users, Knative, the    *)
(* garbage collector and the informers act between any two of them.        *)
(***************************************************************************)
EXTENDS KubeCache

CONSTANTS
  Models,       \* what a user deploys: the image and everything but the role
  Roles,        \* roles a policy may ask for
  Passwords,    \* passwords of the registry
  Setups        \* what may be different from one deployment to another

MDSpec == [model: Models, role: Roles \cup {None}]

States == {"", "Processing", "Ready", "Deleting"}

\* The custom resource; creds: LastCredsUpdatedTime is set, meta: so are the name
\* and the version of the model.
MD == [spec: MDSpec, state: States, deleting: BOOLEAN, creds: BOOLEAN, meta: BOOLEAN]

\* The Knative service: the applied specification and its condition Ready.  The
\* hash of the policy follows from the role, which is part of the specification.
KService == [spec: MDSpec, ready: BOOLEAN]

\* The pods of the latest ready revision, by its Deployment.
Replicas == {"missing", "zero", "some", "all"}

\* The kind of pull connection, the roles users ask for, the objects whose cache may
\* show an earlier version, and how many pods there may be.
Setup == [conn: {"none", "docker", "ecr"}, roles: SUBSET (Roles \cup {None}),
          late: SUBSET {"md", "ks", "cm", "secret"}, pods: SUBSET Replicas]

Children == {"cm", "secret", "ks"}

Phases == {"policy", "pull", "creds", "service", "status", "write"}

Rec == [md: MD, phase: Phases, fresh: BOOLEAN, owned: BOOLEAN]

ASSUME DeploymentAssumption ==
  /\ Setups \subseteq Setup
  /\ None \notin MD \cup KService \cup Roles \cup Passwords \cup Rec

VARIABLES
  setup,     \* one of Setups
  password,  \* the password of that connection, or the token of the registry
  md, cm, secret, ks,  \* the objects, as they are and as their cache shows them
  replicas,
  orphans,   \* children whose owner does not exist any more
  rec,       \* the local variables of Reconcile, or None
  queued     \* the workqueue holds the name

children == <<cm, secret, ks>>
cluster == <<setup, password, md, children, replicas, orphans>>
vars == <<cluster, rec, queued>>

-----------------------------------------------------------------------------
(* Helpers                                                                 *)

Late(x) == x \in setup.late

Exists(x) ==
  CASE x = "cm" -> cm.now # None
    [] x = "secret" -> secret.now # None
    [] x = "ks" -> ks.now # None

\* Mutant of Watch: the operator does not own the config map.
WatchServices == md'.seen # md.seen \/ ks'.seen # ks.seen

\* Secret and service account are watched for another type of owner, so that their
\* events lead nowhere.
Watch == md'.seen # md.seen \/ cm'.seen # cm.seen \/ ks'.seen # ks.seen

Notify == queued' = (queued \/ Watch)

\* A version that somebody else writes makes the one of a reconcile outdated.
Outdated == IF rec = None THEN None ELSE [rec EXCEPT !.fresh = FALSE]

\* Mutant of OwnedBy: the child is created without an owner reference.
NotOwned(x) == orphans \ {x}

\* A child is created with a reference to the resource that was read.
OwnedBy(x) == IF rec.owned THEN orphans \ {x} ELSE orphans \cup {x}

At(phase) == rec # None /\ rec.phase = phase

Goto(phase) == rec' = [rec EXCEPT !.phase = phase]

-----------------------------------------------------------------------------
(* The system controller, on behalf of users, and the registry             *)

Declare(s) ==
  /\ md.now = None /\ md.seen = None
  /\ md' = Put(Late("md"), md, [spec |-> s, state |-> "", deleting |-> FALSE,
                          creds |-> FALSE, meta |-> FALSE])
  /\ rec' = Outdated
  /\ UNCHANGED <<setup, password, children, replicas, orphans>>
  /\ Notify

\* An update keeps the status.
Edit(s) ==
  /\ md.now # None /\ md.now.spec # s
  /\ md' = Put(Late("md"), md, [md.now EXCEPT !.spec = s])
  /\ rec' = Outdated
  /\ UNCHANGED <<setup, password, children, replicas, orphans>>
  /\ Notify

\* Foreground propagation: the resource stays until its children are gone.
Remove ==
  /\ md.now # None /\ ~md.now.deleting
  /\ md' = Put(Late("md"), md, [md.now EXCEPT !.deleting = TRUE])
  /\ rec' = Outdated
  /\ UNCHANGED <<setup, password, children, replicas, orphans>>
  /\ Notify

Rotate(p) ==
  /\ setup.conn # "none"
  /\ password # p
  /\ password' = p
  /\ UNCHANGED <<setup, md, children, replicas, orphans, rec, queued>>

-----------------------------------------------------------------------------
(* Reconcile                                                               *)

Ignore ==
  /\ queued /\ rec = None
  /\ md.seen = None
  /\ queued' = FALSE
  /\ UNCHANGED <<cluster, rec>>

\* A resource in foreground deletion goes straight to its status.
Begin ==
  /\ queued /\ rec = None
  /\ md.seen # None
  /\ rec' = [md |-> IF md.seen.deleting THEN [md.seen EXCEPT !.state = "Deleting"]
                    ELSE md.seen,
             phase |-> IF md.seen.deleting THEN "write" ELSE "policy",
             fresh |-> md.seen = md.now, owned |-> md.now # None]
  /\ queued' = FALSE
  /\ UNCHANGED cluster

\* Mutant of ReconcilePolicyCM: a policy that is there is left alone.
CreatePolicyOnce ==
  /\ At("policy")
  /\ LET role == rec.md.spec.role IN
       IF role # None /\ cm.seen = None
       THEN /\ cm.now = None
            /\ cm' = Put(Late("cm"), cm, role)
            /\ orphans' = OwnedBy("cm")
       ELSE UNCHANGED <<cm, orphans>>
  /\ Goto(IF setup.conn = "none" THEN "service" ELSE "pull")
  /\ UNCHANGED <<setup, password, md, secret, ks, replicas>>
  /\ Notify

\* Without a role the config map is deleted by its name; otherwise it is created, or
\* replaced whatever its version and its owner.
ReconcilePolicyCM ==
  /\ At("policy")
  /\ LET role == rec.md.spec.role IN
       \/ /\ role = None
          /\ cm' = Put(Late("cm"), cm, None)
          /\ orphans' = orphans \ {"cm"}
       \/ /\ role # None /\ cm.seen = role
          /\ UNCHANGED <<cm, orphans>>
       \/ /\ role # None /\ cm.seen # role
          /\ (cm.seen = None) <=> (cm.now = None)
          /\ cm' = Put(Late("cm"), cm, role)
          /\ orphans' = OwnedBy("cm")
  /\ Goto(IF setup.conn = "none" THEN "service" ELSE "pull")
  /\ UNCHANGED <<setup, password, md, secret, ks, replicas>>
  /\ Notify

\* Mutant of ReconcilePullConnection: the credentials are not looked at again.
CreateSecretOnce ==
  /\ At("pull")
  /\ secret.seen = None => secret.now = None
  /\ secret' = IF secret.seen = None THEN Put(Late("secret"), secret, password) ELSE secret
  /\ orphans' = IF secret.seen = None THEN OwnedBy("secret") ELSE orphans
  /\ Goto(IF setup.conn = "ecr" /\ ~rec.md.creds THEN "creds" ELSE "service")
  /\ UNCHANGED <<setup, password, md, cm, ks, replicas, queued>>

\* The connection is fetched and the secret, with it its service account, created, or
\* updated at the version that was read.  The token of ECR is not renewed once it was
\* written: until the end of any period there is always less time left than the period.
ReconcilePullConnection ==
  /\ At("pull")
  /\ \/ /\ \/ setup.conn = "ecr" /\ rec.md.creds
           \/ secret.seen = password
        /\ UNCHANGED <<secret, orphans>>
     \/ /\ ~(setup.conn = "ecr" /\ rec.md.creds)
        /\ secret.seen = None /\ secret.now = None
        /\ secret' = Put(Late("secret"), secret, password)
        /\ orphans' = OwnedBy("secret")
     \/ /\ ~(setup.conn = "ecr" /\ rec.md.creds)
        /\ secret.seen \notin {None, password} /\ secret.seen = secret.now
        /\ secret' = Put(Late("secret"), secret, password)
        /\ UNCHANGED orphans
  /\ Goto(IF setup.conn = "ecr" /\ ~rec.md.creds THEN "creds" ELSE "service")
  /\ UNCHANGED <<setup, password, md, cm, ks, replicas, queued>>

\* The time of the token is written to the resource at once.
RecordCreds ==
  /\ At("creds")
  /\ rec.fresh
  /\ md' = Put(Late("md"), md, [rec.md EXCEPT !.creds = TRUE])
  /\ rec' = [rec EXCEPT !.phase = "service", !.md.creds = TRUE]
  /\ UNCHANGED <<setup, password, children, replicas, orphans>>
  /\ Notify

\* Mutant of ReconcileKnativeService: a service that is there is left alone.
CreateServiceOnce ==
  /\ At("service")
  /\ IF ks.seen = None
     THEN /\ ks.now = None
          /\ ks' = Put(Late("ks"), ks, [spec |-> rec.md.spec, ready |-> FALSE])
          /\ orphans' = OwnedBy("ks")
     ELSE UNCHANGED <<ks, orphans>>
  /\ Goto("status")
  /\ UNCHANGED <<setup, password, md, cm, secret, replicas>>
  /\ Notify

\* The service is created, or updated when another specification was applied to it;
\* its condition stays until Knative has looked at the new one.
ReconcileKnativeService ==
  /\ At("service")
  /\ \/ /\ ks.seen # None /\ ks.seen.spec = rec.md.spec
        /\ UNCHANGED <<ks, orphans>>
     \/ /\ ks.seen = None /\ ks.now = None
        /\ ks' = Put(Late("ks"), ks, [spec |-> rec.md.spec, ready |-> FALSE])
        /\ orphans' = OwnedBy("ks")
     \/ /\ ks.seen # None /\ ks.seen.spec # rec.md.spec
        /\ ks.seen = ks.now
        /\ ks' = Put(Late("ks"), ks, [ks.now EXCEPT !.spec = rec.md.spec])
        /\ UNCHANGED orphans
  /\ Goto("status")
  /\ UNCHANGED <<setup, password, md, cm, secret, replicas>>
  /\ Notify

\* Mutant of Serves: the condition of the service is not asked.
ServesByPods == ks.seen # None /\ replicas \in {"zero", "all"}

\* The service and enough of its pods are there.
Serves == ks.seen # None /\ ks.seen.ready /\ replicas \in {"zero", "all"}

Conclude(state, meta) ==
  /\ rec' = [rec EXCEPT !.phase = "write", !.md.state = state, !.md.meta = meta]
  /\ UNCHANGED <<cluster, queued>>

\* The service or its pods are not there yet.
JudgeNotReady ==
  /\ At("status")
  /\ ks.seen # None /\ ~Serves
  /\ Conclude("Processing", rec.md.meta)

\* The model is inspected once, when it has a pod, and may not answer.
Inspect ==
  /\ At("status")
  /\ Serves
  /\ ~rec.md.meta /\ replicas = "all"
  /\ Conclude("Ready", TRUE) \/ Conclude("Processing", FALSE)

JudgeReady ==
  /\ At("status")
  /\ Serves
  /\ rec.md.meta \/ replicas = "zero"
  /\ Conclude("Ready", rec.md.meta)

\* Mutant of Unchanged: the update does not carry the version that was read.
UpdatesBlindly == md.now # None

\* An update of the resource is refused when somebody has written a newer version.
Unchanged == rec.fresh

UpdateStatus ==
  /\ At("write")
  /\ Unchanged
  /\ md' = Put(Late("md"), md, rec.md)
  /\ rec' = None
  /\ UNCHANGED <<setup, password, children, replicas, orphans>>
  /\ Notify

\* The error of storing the state Processing is ignored.
LoseStatus ==
  /\ At("write")
  /\ rec.md.state = "Processing"
  /\ rec' = None
  /\ UNCHANGED <<cluster, queued>>

\* A call fails, or the server has another version than the cache: the name comes
\* back after a backoff.
Fail ==
  /\ rec # None
  /\ \/ rec.phase \in {"policy", "service", "status"}
     \/ rec.phase = "write" /\ rec.md.state # "Processing"
  /\ rec' = None
  /\ queued' = TRUE
  /\ UNCHANGED cluster

\* An error around the pull connection is logged and the reconcile ends with success.
PullFails ==
  /\ rec # None
  /\ rec.phase \in {"pull", "creds"}
  /\ rec' = None
  /\ UNCHANGED <<cluster, queued>>

\* A new process lists every object before it starts.
Restart ==
  /\ md' = Refresh(md) /\ cm' = Refresh(cm) /\ secret' = Refresh(secret) /\ ks' = Refresh(ks)
  /\ rec' = None
  /\ queued' = (md.now # None \/ cm.now # None \/ ks.now # None)
  /\ UNCHANGED <<setup, password, replicas, orphans>>

\* The delay of RequeueAfter is over, or the informers resync.
Requeue ==
  /\ md.seen # None
  /\ queued' = TRUE
  /\ UNCHANGED <<cluster, rec>>

Work ==
  \/ Ignore \/ Begin
  \/ ReconcilePolicyCM
  \/ ReconcilePullConnection \/ RecordCreds
  \/ ReconcileKnativeService
  \/ JudgeNotReady \/ Inspect \/ JudgeReady \/ UpdateStatus \/ LoseStatus
  \/ Fail \/ PullFails

Operator == Work \/ Requeue \/ Restart

-----------------------------------------------------------------------------
(* Informers, garbage collector and Knative                                *)

Observe(x) ==
  /\ md' = IF x = "md" THEN Refresh(md) ELSE md
  /\ cm' = IF x = "cm" THEN Refresh(cm) ELSE cm
  /\ secret' = IF x = "secret" THEN Refresh(secret) ELSE secret
  /\ ks' = IF x = "ks" THEN Refresh(ks) ELSE ks
  /\ <<md, cm, secret, ks>>' # <<md, cm, secret, ks>>
  /\ UNCHANGED <<setup, password, replicas, orphans, rec>>
  /\ Notify

\* The children of a resource in foreground deletion, and orphans.
Collect(x) ==
  /\ Exists(x)
  /\ x \in orphans \/ (md.now # None /\ md.now.deleting)
  /\ cm' = IF x = "cm" THEN Put(Late("cm"), cm, None) ELSE cm
  /\ secret' = IF x = "secret" THEN Put(Late("secret"), secret, None) ELSE secret
  /\ ks' = IF x = "ks" THEN Put(Late("ks"), ks, None) ELSE ks
  /\ orphans' = orphans \ {x}
  /\ UNCHANGED <<setup, password, md, replicas, rec>>
  /\ Notify

CollectResource ==
  /\ md.now # None /\ md.now.deleting
  /\ \A x \in Children \ orphans : ~Exists(x)
  /\ md' = Put(Late("md"), md, None)
  /\ rec' = IF rec = None THEN None ELSE [rec EXCEPT !.fresh = FALSE, !.owned = FALSE]
  /\ UNCHANGED <<setup, password, children, replicas, orphans>>
  /\ Notify

KnativeReports ==
  /\ ks.now # None
  /\ ks' = Put(Late("ks"), ks, [ks.now EXCEPT !.ready = ~ks.now.ready])
  /\ UNCHANGED <<setup, password, md, cm, secret, replicas, orphans, rec>>
  /\ Notify

\* Only an update of the Deployment is an event: its creation and its end are not.
PodsChange(x) ==
  /\ x # replicas
  /\ replicas' = x
  /\ queued' = (queued \/ "missing" \notin {x, replicas})
  /\ UNCHANGED <<setup, password, md, children, orphans, rec>>

Cluster ==
  \/ \E x \in {"md", "ks", "cm", "secret"} : Observe(x)
  \/ \E x \in Children : Collect(x)
  \/ CollectResource
  \/ KnativeReports
  \/ \E x \in setup.pods : PodsChange(x)

-----------------------------------------------------------------------------
Init ==
  /\ setup \in Setups
  /\ IF setup.conn = "none" THEN password = None ELSE password \in Passwords
  /\ md = Absent /\ cm = Absent /\ secret = Absent /\ ks = Absent
  /\ replicas \in setup.pods
  /\ orphans = {}
  /\ rec = None
  /\ queued = FALSE

Next ==
  \/ \E s \in MDSpec : s.role \in setup.roles /\ (Declare(s) \/ Edit(s))
  \/ Remove
  \/ \E p \in Passwords : Rotate(p)
  \/ Operator
  \/ Cluster

Spec == Init /\ [][Next]_vars

\* What a call meets that cannot succeed: the server has another version than the one
\* that was read.
Conflict ==
  \/ At("policy") /\ (cm.seen = None) # (cm.now = None)
  \/ At("pull") /\ secret.seen # secret.now
  \/ At("service") /\ ks.seen # ks.now
  \/ At("status") /\ ks.seen = None
  \/ (At("creds") \/ At("write")) /\ ~rec.fresh

Lucky ==
  /\ rec # None /\ rec' = None =>
       UpdateStatus \/ (Conflict /\ (Fail \/ PullFails \/ LoseStatus))
  /\ Inspect => rec'.md.meta

\* Informers deliver, a queued name is taken in its turn and comes back after a delay,
\* a reconcile goes on, and the garbage collector works.  From some time on calls fail
\* for a conflict only, and the process runs.
Fairness ==
  /\ \A x \in {"md", "ks", "cm", "secret"} : WF_vars(Observe(x))
  /\ WF_vars(Work) /\ WF_vars(Requeue)
  /\ \A x \in Children : WF_vars(Collect(x))
  /\ <>[][Lucky]_vars

FairSpec == Spec /\ Fairness

=============================================================================
