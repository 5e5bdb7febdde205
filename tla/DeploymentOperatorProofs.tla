---------------------- MODULE DeploymentOperatorProofs ----------------------
(***************************************************************************)
(* Proofs about DeploymentOperator for any models, roles and passwords,    *)
(* any pull connection and any caches that are late.                       *)
(***************************************************************************)
EXTENDS DeploymentOperatorProps, TLAPS

-----------------------------------------------------------------------------
(* Stores                                                                  *)

\* A write and a look at the server keep the type of an object and its cache.
LEMMA PutType ==
  ASSUME NEW T, NEW store \in Store(T), NEW x \in T \cup {None}, NEW late
  PROVE  Put(late, store, x) \in Store(T) /\ Put(late, store, x).now = x
PROOF
  BY DEF Put, Store

LEMMA RefreshType ==
  ASSUME NEW T, NEW store \in Store(T)
  PROVE  Refresh(store) \in Store(T) /\ Refresh(store).now = store.now
         /\ Refresh(store).seen = store.now
PROOF
  BY DEF Refresh, Store

\* What every step that keeps the objects typed needs to know.
LEMMA ObjectTypes ==
  ASSUME IInv
  PROVE  /\ md.now \in MD \cup {None} /\ md.seen \in MD \cup {None}
         /\ ks.now \in KService \cup {None} /\ ks.seen \in KService \cup {None}
         /\ cm.now \in Roles \cup {None} /\ cm.seen \in Roles \cup {None}
         /\ secret.now \in Passwords \cup {None} /\ secret.seen \in Passwords \cup {None}
         /\ None \notin MD \cup KService \cup Roles \cup Passwords \cup Rec
         /\ setup \in Setup
         /\ rec # None => /\ rec \in Rec /\ rec.md \in MD /\ rec.md.spec \in MDSpec
                          /\ rec.md.spec.role \in Roles \cup {None}
PROOF
  <1>1. /\ md \in Store(MD) /\ ks \in Store(KService)
        /\ cm \in Store(Roles) /\ secret \in Store(Passwords)
        /\ setup \in Setups /\ rec \in Rec \cup {None}
    BY DEF IInv, TypeOK
  <1>2. /\ md.now \in MD \cup {None} /\ md.seen \in MD \cup {None}
        /\ ks.now \in KService \cup {None} /\ ks.seen \in KService \cup {None}
        /\ cm.now \in Roles \cup {None} /\ cm.seen \in Roles \cup {None}
        /\ secret.now \in Passwords \cup {None} /\ secret.seen \in Passwords \cup {None}
    BY <1>1 DEF Store
  <1>3. rec # None => /\ rec \in Rec /\ rec.md \in MD /\ rec.md.spec \in MDSpec
                      /\ rec.md.spec.role \in Roles \cup {None}
    BY <1>1 DEF Rec, MD, MDSpec
  <1> QED
    BY <1>1, <1>2, <1>3, DeploymentAssumption

-----------------------------------------------------------------------------
(* Users                                                                   *)

\* A resource that a user writes is not the one a reconcile has read any more.
LEMMA UserKeeps ==
  ASSUME IInv,
         NEW x \in MD \cup {None},
         md' = Put(Late("md"), md, x),
         \/ rec' = Outdated
         \/ rec' = IF rec = None THEN None ELSE [rec EXCEPT !.fresh = FALSE, !.owned = FALSE],
         UNCHANGED <<setup, password, children, replicas, orphans>>, Notify
  PROVE  IInv'
PROOF
  <1>1. rec = None => rec' = None
    BY DEF Outdated
  <1>2. rec # None => /\ rec' \in Rec /\ rec'.md = rec.md
                      /\ rec'.phase = rec.phase /\ ~rec'.fresh
    BY ObjectTypes DEF Outdated, Rec
  <1>3. UNCHANGED <<setup, password, cm, secret, ks, replicas, orphans>>
    BY DEF children
  <1>4. queued' \in BOOLEAN
    BY DEF Notify, IInv, TypeOK
  <1>5. TypeOK'
    <2>1. md' \in Store(MD)
      BY PutType DEF IInv, TypeOK
    <2> QED
      BY <1>1, <1>2, <1>3, <1>4, <2>1 DEF IInv, TypeOK
  <1>6. PasswordFits'
    BY <1>1, <1>2, <1>3, ObjectTypes DEF IInv, PasswordFits, At
  <1>7. FreshIsCurrent'
    BY <1>1, <1>2 DEF FreshIsCurrent
  <1> QED
    BY <1>5, <1>6, <1>7 DEF IInv

LEMMA UsersKeep ==
  ASSUME IInv,
         \/ \E s \in MDSpec : Declare(s) \/ Edit(s)
         \/ Remove
         \/ CollectResource
         \/ \E p \in Passwords : Rotate(p)
  PROVE  IInv'
PROOF
  <1>1. ASSUME NEW s \in MDSpec, Declare(s) PROVE IInv'
    <2>1. [spec |-> s, state |-> "", deleting |-> FALSE, creds |-> FALSE, meta |-> FALSE]
            \in MD \cup {None}
      BY DEF MD, States
    <2> QED
      BY <1>1, <2>1, UserKeeps DEF Declare
  <1>2. ASSUME NEW s \in MDSpec, Edit(s) PROVE IInv'
    <2>1. [md.now EXCEPT !.spec = s] \in MD \cup {None}
      BY <1>2, ObjectTypes DEF Edit, MD
    <2> QED
      BY <1>2, <2>1, UserKeeps DEF Edit
  <1>3. CASE Remove
    <2>1. [md.now EXCEPT !.deleting = TRUE] \in MD \cup {None}
      BY <1>3, ObjectTypes DEF Remove, MD
    <2> QED
      BY <1>3, <2>1, UserKeeps DEF Remove
  <1>4. CASE CollectResource
    BY <1>4, UserKeeps DEF CollectResource
  <1>5. ASSUME NEW p \in Passwords, Rotate(p) PROVE IInv'
    <2>1. UNCHANGED <<setup, md, cm, secret, ks, replicas, orphans, rec, queued>>
          /\ password' = p /\ p # None /\ setup.conn # "none"
      BY <1>5, ObjectTypes DEF Rotate, children
    <2> QED
      BY <2>1
      DEF IInv, TypeOK, PasswordFits, FreshIsCurrent, At
  <1> QED
    BY <1>1, <1>2, <1>3, <1>4, <1>5

-----------------------------------------------------------------------------
(* Reconcile                                                               *)

\* The end of a reconcile, with the name queued or not.
LEMMA DropKeeps ==
  ASSUME IInv, rec' = None, queued' \in BOOLEAN, UNCHANGED cluster
  PROVE  IInv'
PROOF
  <1>1. UNCHANGED <<setup, password, md, cm, secret, ks, replicas, orphans>>
    BY DEF cluster, children
  <1> QED
    BY <1>1 DEF IInv, TypeOK, PasswordFits, FreshIsCurrent, At

LEMMA BeginKeeps ==
  ASSUME IInv, Begin
  PROVE  IInv'
PROOF
  <1>1. /\ UNCHANGED <<setup, password, md, cm, secret, ks, replicas, orphans>>
        /\ queued' = FALSE /\ md.seen \in MD
    BY ObjectTypes DEF Begin, cluster, children
  <1> DEFINE read == IF md.seen.deleting THEN [md.seen EXCEPT !.state = "Deleting"] ELSE md.seen
             phase == IF md.seen.deleting THEN "write" ELSE "policy"
  <1>2. /\ read \in MD /\ read.spec = md.seen.spec /\ read.deleting = md.seen.deleting
    BY <1>1 DEF MD, States
  <1>3. rec' = [md |-> read, phase |-> phase, fresh |-> md.seen = md.now, owned |-> md.now # None]
    BY DEF Begin
  <1> HIDE DEF read
  <1>4. rec' \in Rec /\ rec'.phase \in {"write", "policy"} /\ rec'.md = read
        /\ (rec'.fresh => md.seen = md.now)
    BY <1>2, <1>3 DEF Rec, Phases
  <1>5. TypeOK'
    BY <1>1, <1>4 DEF IInv, TypeOK
  <1>6. PasswordFits'
    BY <1>1, <1>4 DEF IInv, PasswordFits, At
  <1>7. FreshIsCurrent'
    BY <1>1, <1>2, <1>4, ObjectTypes DEF FreshIsCurrent
  <1> QED
    BY <1>5, <1>6, <1>7 DEF IInv

\* A reconcile that goes on to its next phase.
LEMMA GotoFacts ==
  ASSUME IInv, rec # None, NEW phase \in Phases, Goto(phase)
  PROVE  rec' \in Rec /\ rec' # None /\ rec'.phase = phase /\ rec'.md = rec.md
         /\ rec'.fresh = rec.fresh
PROOF
  BY ObjectTypes DEF Goto, Rec

LEMMA OwnedByType ==
  ASSUME IInv, NEW x \in Children
  PROVE  OwnedBy(x) \subseteq Children
PROOF
  BY DEF OwnedBy, IInv, TypeOK

LEMMA PolicyKeeps ==
  ASSUME IInv, ReconcilePolicyCM
  PROVE  IInv'
PROOF
  <1> DEFINE phase == IF setup.conn = "none" THEN "service" ELSE "pull"
  <1>1. rec # None /\ UNCHANGED <<setup, password, md, secret, ks, replicas>>
        /\ queued' \in BOOLEAN /\ Goto(phase)
    BY DEF ReconcilePolicyCM, At, Notify, IInv, TypeOK
  <1>2. phase \in Phases /\ (phase = "pull" => setup.conn # "none") /\ phase # "creds"
    BY DEF Phases
  <1> HIDE DEF phase
  <1>3. rec' \in Rec /\ rec' # None /\ rec'.phase = phase /\ rec'.md = rec.md
        /\ rec'.fresh = rec.fresh
    BY <1>1, <1>2, GotoFacts
  <1>4. /\ \/ cm' = cm
           \/ \E x \in Roles \cup {None} : cm' = Put(Late("cm"), cm, x)
        /\ orphans' \subseteq Children
    <2>1. rec.md.spec.role \in Roles \cup {None}
      BY <1>1, ObjectTypes
    <2>a. OwnedBy("cm") \subseteq Children
      BY OwnedByType DEF Children
    <2>2. orphans' \subseteq Children
      BY <2>a DEF ReconcilePolicyCM, IInv, TypeOK
    <2>3. cm' = cm \/ cm' = Put(Late("cm"), cm, rec.md.spec.role)
      BY DEF ReconcilePolicyCM
    <2> QED
      BY <2>1, <2>2, <2>3
  <1>5. cm' \in Store(Roles)
    BY <1>4, PutType DEF IInv, TypeOK
  <1>6. TypeOK'
    BY <1>1, <1>3, <1>4, <1>5 DEF IInv, TypeOK
  <1>7. PasswordFits'
    BY <1>1, <1>2, <1>3 DEF IInv, PasswordFits, At
  <1>8. FreshIsCurrent'
    BY <1>1, <1>3 DEF IInv, FreshIsCurrent
  <1> QED
    BY <1>6, <1>7, <1>8 DEF IInv

LEMMA PullKeeps ==
  ASSUME IInv, ReconcilePullConnection
  PROVE  IInv'
PROOF
  <1> DEFINE phase == IF setup.conn = "ecr" /\ ~rec.md.creds THEN "creds" ELSE "service"
  <1>1. rec # None /\ At("pull") /\ UNCHANGED <<setup, password, md, cm, ks, replicas, queued>>
        /\ Goto(phase)
    BY DEF ReconcilePullConnection, At
  <1>2. phase \in Phases /\ (phase = "creds" => setup.conn # "none") /\ phase # "pull"
    BY DEF Phases
  <1> HIDE DEF phase
  <1>3. rec' \in Rec /\ rec' # None /\ rec'.phase = phase /\ rec'.md = rec.md
        /\ rec'.fresh = rec.fresh
    BY <1>1, <1>2, GotoFacts
  <1>4. password \in Passwords
    BY <1>1 DEF IInv, TypeOK, PasswordFits
  <1>5. secret' \in Store(Passwords) /\ orphans' \subseteq Children
    <2>1. Put(Late("secret"), secret, password) \in Store(Passwords)
      BY <1>4, PutType DEF IInv, TypeOK
    <2>2. OwnedBy("secret") \subseteq Children
      BY OwnedByType DEF Children
    <2> QED
      BY <2>1, <2>2 DEF ReconcilePullConnection, IInv, TypeOK
  <1>6. TypeOK'
    BY <1>1, <1>3, <1>5 DEF IInv, TypeOK
  <1>7. PasswordFits'
    BY <1>1, <1>2, <1>3 DEF IInv, PasswordFits, At
  <1>8. FreshIsCurrent'
    BY <1>1, <1>3 DEF IInv, FreshIsCurrent
  <1> QED
    BY <1>6, <1>7, <1>8 DEF IInv

LEMMA CredsKeep ==
  ASSUME IInv, RecordCreds
  PROVE  IInv'
PROOF
  <1>1. /\ rec # None /\ At("creds") /\ rec.fresh
        /\ UNCHANGED <<setup, password, cm, secret, ks, replicas, orphans>>
        /\ queued' \in BOOLEAN
        /\ md' = Put(Late("md"), md, [rec.md EXCEPT !.creds = TRUE])
        /\ rec' = [rec EXCEPT !.phase = "service", !.md.creds = TRUE]
    BY DEF RecordCreds, At, Notify, children, IInv, TypeOK
  <1>2. rec \in Rec /\ rec.md \in MD
    BY <1>1, ObjectTypes
  <1>3. /\ [rec.md EXCEPT !.creds = TRUE] \in MD
        /\ [rec.md EXCEPT !.creds = TRUE].spec = rec.md.spec
        /\ [rec.md EXCEPT !.creds = TRUE].deleting = rec.md.deleting
    BY <1>2 DEF MD
  <1>4. md' \in Store(MD) /\ md'.now = [rec.md EXCEPT !.creds = TRUE]
    BY <1>1, <1>3, PutType DEF IInv, TypeOK
  <1>5. /\ rec' \in Rec /\ rec' # None /\ rec'.phase = "service"
        /\ rec'.md = [rec.md EXCEPT !.creds = TRUE] /\ rec'.fresh
    BY <1>1, <1>2, <1>3, ObjectTypes DEF Rec, Phases
  <1>6. TypeOK'
    BY <1>1, <1>4, <1>5 DEF IInv, TypeOK
  <1>7. PasswordFits'
    BY <1>1, <1>5 DEF IInv, PasswordFits, At
  <1>8. FreshIsCurrent'
    BY <1>3, <1>4, <1>5, ObjectTypes DEF FreshIsCurrent
  <1> QED
    BY <1>6, <1>7, <1>8 DEF IInv

LEMMA ServiceKeeps ==
  ASSUME IInv, ReconcileKnativeService
  PROVE  IInv'
PROOF
  <1>1. /\ rec # None /\ Goto("status")
        /\ UNCHANGED <<setup, password, md, cm, secret, replicas>>
        /\ queued' \in BOOLEAN
    BY DEF ReconcileKnativeService, At, Notify, IInv, TypeOK
  <1>2. rec' \in Rec /\ rec' # None /\ rec'.phase = "status" /\ rec'.md = rec.md
        /\ rec'.fresh = rec.fresh
    BY <1>1, GotoFacts DEF Phases
  <1>3. ks' \in Store(KService) /\ orphans' \subseteq Children
    <2>1. [spec |-> rec.md.spec, ready |-> FALSE] \in KService
      BY <1>1, ObjectTypes DEF KService
    <2>2. ks.now # None => [ks.now EXCEPT !.spec = rec.md.spec] \in KService
      BY <1>1, ObjectTypes DEF KService
    <2>3. \A x \in KService \cup {None} : Put(Late("ks"), ks, x) \in Store(KService)
      BY PutType DEF IInv, TypeOK
    <2>4. OwnedBy("ks") \subseteq Children
      BY OwnedByType DEF Children
    <2>5. orphans' \subseteq Children
      BY <2>4 DEF ReconcileKnativeService, IInv, TypeOK
    <2>6. CASE ks' = ks
      BY <2>5, <2>6 DEF IInv, TypeOK
    <2>7. CASE ks' = Put(Late("ks"), ks, [spec |-> rec.md.spec, ready |-> FALSE])
      BY <2>1, <2>3, <2>5, <2>7
    <2>8. CASE ks.now # None /\ ks' = Put(Late("ks"), ks, [ks.now EXCEPT !.spec = rec.md.spec])
      BY <2>2, <2>3, <2>5, <2>8
    <2> QED
      BY <2>6, <2>7, <2>8 DEF ReconcileKnativeService
  <1>4. TypeOK'
    BY <1>1, <1>2, <1>3 DEF IInv, TypeOK
  <1>5. PasswordFits'
    BY <1>1, <1>2 DEF IInv, PasswordFits, At
  <1>6. FreshIsCurrent'
    BY <1>1, <1>2 DEF IInv, FreshIsCurrent
  <1> QED
    BY <1>4, <1>5, <1>6 DEF IInv

\* The state is judged, from what the service and the model say.
LEMMA JudgeKeeps ==
  ASSUME IInv, rec # None, NEW state \in {"Ready", "Processing"}, NEW meta \in BOOLEAN,
         Conclude(state, meta)
  PROVE  IInv'
PROOF
  <1>1. /\ UNCHANGED <<setup, password, md, cm, secret, ks, replicas, orphans, queued>>
        /\ rec' = [rec EXCEPT !.phase = "write", !.md.state = state, !.md.meta = meta]
    BY DEF Conclude, cluster, children
  <1>2. rec \in Rec /\ rec.md \in MD
    BY ObjectTypes
  <1> DEFINE judged == [rec.md EXCEPT !.state = state, !.meta = meta]
  <1>3. judged \in MD /\ judged.spec = rec.md.spec /\ judged.deleting = rec.md.deleting
    BY <1>2 DEF MD, States
  <1>4. rec' = [rec EXCEPT !.phase = "write", !.md = judged]
    BY <1>1, <1>2 DEF Rec
  <1> HIDE DEF judged
  <1>5. rec' \in Rec /\ rec' # None /\ rec'.phase = "write" /\ rec'.md = judged
        /\ rec'.fresh = rec.fresh
    BY <1>2, <1>3, <1>4, ObjectTypes DEF Rec, Phases
  <1>6. TypeOK'
    BY <1>1, <1>5 DEF IInv, TypeOK
  <1>7. PasswordFits'
    BY <1>1, <1>5 DEF IInv, PasswordFits, At
  <1>8. FreshIsCurrent'
    BY <1>1, <1>3, <1>5 DEF IInv, FreshIsCurrent
  <1> QED
    BY <1>6, <1>7, <1>8 DEF IInv

LEMMA StatusKeeps ==
  ASSUME IInv, UpdateStatus
  PROVE  IInv'
PROOF
  <1>1. /\ rec # None /\ rec' = None
        /\ UNCHANGED <<setup, password, cm, secret, ks, replicas, orphans>>
        /\ queued' \in BOOLEAN
        /\ md' = Put(Late("md"), md, rec.md)
    BY DEF UpdateStatus, At, Notify, children, IInv, TypeOK
  <1>2. md' \in Store(MD)
    BY <1>1, ObjectTypes, PutType DEF IInv, TypeOK
  <1> QED
    BY <1>1, <1>2 DEF IInv, TypeOK, PasswordFits, FreshIsCurrent, At

LEMMA OperatorKeeps ==
  ASSUME IInv, Operator
  PROVE  IInv'
PROOF
  <1>1. CASE Ignore
    BY <1>1, DropKeeps DEF Ignore
  <1>2. CASE Begin
    BY <1>2, BeginKeeps
  <1>3. CASE ReconcilePolicyCM
    BY <1>3, PolicyKeeps
  <1>4. CASE ReconcilePullConnection
    BY <1>4, PullKeeps
  <1>5. CASE RecordCreds
    BY <1>5, CredsKeep
  <1>6. CASE ReconcileKnativeService
    BY <1>6, ServiceKeeps
  <1>7. CASE JudgeNotReady \/ Inspect \/ JudgeReady
    <2>1. rec # None
      BY <1>7 DEF JudgeNotReady, Inspect, JudgeReady, At
    <2>2. rec.md.meta \in BOOLEAN
      BY <2>1, ObjectTypes DEF MD
    <2> QED
      BY <1>7, <2>1, <2>2, JudgeKeeps DEF JudgeNotReady, Inspect, JudgeReady
  <1>8. CASE UpdateStatus
    BY <1>8, StatusKeeps
  <1>9. CASE LoseStatus \/ Fail \/ PullFails
    <2>1. rec' = None /\ queued' \in BOOLEAN /\ UNCHANGED cluster
      BY <1>9 DEF LoseStatus, Fail, PullFails, IInv, TypeOK
    <2> QED
      BY <2>1, DropKeeps
  <1>10. CASE Requeue
    <2>1. UNCHANGED <<setup, password, md, cm, secret, ks, replicas, orphans, rec>>
          /\ queued' \in BOOLEAN
      BY <1>10 DEF Requeue, cluster, children
    <2> QED
      BY <2>1 DEF IInv, TypeOK, PasswordFits, FreshIsCurrent, At
  <1>11. CASE Restart
    <2>1. /\ UNCHANGED <<setup, password, replicas, orphans>> /\ rec' = None
          /\ queued' \in BOOLEAN /\ cm' = Refresh(cm)
          /\ md' \in Store(MD) /\ cm' \in Store(Roles)
          /\ secret' \in Store(Passwords) /\ ks' \in Store(KService)
      BY <1>11, RefreshType DEF Restart, IInv, TypeOK
    <2> QED
      BY <2>1 DEF IInv, TypeOK, PasswordFits, FreshIsCurrent, At
  <1> QED
    BY <1>1, <1>2, <1>3, <1>4, <1>5, <1>6, <1>7, <1>8, <1>9, <1>10, <1>11
    DEF Operator, Work

-----------------------------------------------------------------------------
(* Informers, garbage collector and Knative                                *)

LEMMA ClusterKeeps ==
  ASSUME IInv, Cluster
  PROVE  IInv'
PROOF
  <1>1. ASSUME NEW x \in {"md", "ks", "cm", "secret"}, Observe(x) PROVE IInv'
    <2>1. /\ UNCHANGED <<setup, password, replicas, orphans, rec>> /\ queued' \in BOOLEAN
      BY <1>1 DEF Observe, Notify, IInv, TypeOK
    <2>2. /\ md' \in Store(MD) /\ cm' \in Store(Roles)
          /\ secret' \in Store(Passwords) /\ ks' \in Store(KService)
          /\ md'.now = md.now /\ cm'.now = cm.now
          /\ cm'.seen = cm.seen \/ cm'.seen = cm.now
      BY <1>1, RefreshType DEF Observe, IInv, TypeOK
    <2> QED
      BY <2>1, <2>2 DEF IInv, TypeOK, PasswordFits, FreshIsCurrent, At
  <1>2. ASSUME NEW x \in Children, Collect(x) PROVE IInv'
    <2>1. /\ UNCHANGED <<setup, password, md, replicas, rec>> /\ queued' \in BOOLEAN
          /\ orphans' \subseteq Children
          /\ cm' = cm \/ cm' = Put(Late("cm"), cm, None)
          /\ secret' = secret \/ secret' = Put(Late("secret"), secret, None)
          /\ ks' = ks \/ ks' = Put(Late("ks"), ks, None)
      BY <1>2 DEF Collect, Notify, IInv, TypeOK
    <2>2. cm' \in Store(Roles) /\ secret' \in Store(Passwords) /\ ks' \in Store(KService)
      BY <2>1, PutType DEF IInv, TypeOK
    <2> QED
      BY <2>1, <2>2
      DEF IInv, TypeOK, PasswordFits, FreshIsCurrent, At
  <1>3. CASE CollectResource
    BY <1>3, UsersKeep
  <1>4. CASE KnativeReports
    <2>1. /\ UNCHANGED <<setup, password, md, cm, secret, replicas, orphans, rec>>
          /\ queued' \in BOOLEAN
      BY <1>4 DEF KnativeReports, Notify, IInv, TypeOK
    <2>2. [ks.now EXCEPT !.ready = ~ks.now.ready] \in KService
      BY <1>4, ObjectTypes DEF KnativeReports, KService
    <2>3. ks' \in Store(KService)
      BY <1>4, <2>2, PutType DEF KnativeReports, IInv, TypeOK
    <2> QED
      BY <2>1, <2>3 DEF IInv, TypeOK, PasswordFits, FreshIsCurrent, At
  <1>5. ASSUME NEW x \in setup.pods, PodsChange(x) PROVE IInv'
    <2>1. /\ UNCHANGED <<setup, password, md, cm, secret, ks, orphans, rec>>
          /\ queued' \in BOOLEAN /\ replicas' \in Replicas
      BY <1>5, ObjectTypes DEF PodsChange, children, Setup, IInv, TypeOK
    <2> QED
      BY <2>1 DEF IInv, TypeOK, PasswordFits, FreshIsCurrent, At
  <1> QED
    BY <1>1, <1>2, <1>3, <1>4, <1>5 DEF Cluster

-----------------------------------------------------------------------------
(* Theorems                                                                *)

LEMMA InitHolds == Init => IInv
PROOF
  <1> SUFFICES ASSUME Init PROVE IInv
    OBVIOUS
  <1>1. /\ setup \in Setups /\ setup \in Setup
        /\ IF setup.conn = "none" THEN password = None ELSE password \in Passwords
        /\ md = Absent /\ cm = Absent /\ secret = Absent /\ ks = Absent
        /\ replicas \in setup.pods /\ orphans = {} /\ rec = None /\ queued = FALSE
    BY DeploymentAssumption DEF Init
  <1>2. \A T : Absent \in Store(T)
    BY DEF Absent, Store
  <1>3. TypeOK
    BY <1>1, <1>2 DEF TypeOK, Setup
  <1>4. PasswordFits
    BY <1>1, DeploymentAssumption DEF PasswordFits, At
  <1> QED
    BY <1>1, <1>3, <1>4 DEF IInv, FreshIsCurrent, At

LEMMA NextKeeps ==
  ASSUME IInv, [Next]_vars
  PROVE  IInv'
PROOF
  <1>1. CASE UNCHANGED vars
    BY <1>1 DEF vars, cluster, children, IInv, TypeOK, PasswordFits, FreshIsCurrent,
                At
  <1>2. CASE Next
    BY <1>2, UsersKeep, OperatorKeeps, ClusterKeeps DEF Next
  <1> QED
    BY <1>1, <1>2

\* The invariant holds of every behaviour of users, operator and cluster.
THEOREM InvariantHolds == Spec => []IInv
PROOF
  <1>1. Init => IInv
    BY InitHolds
  <1>2. IInv /\ [Next]_vars => IInv'
    BY NextKeeps
  <1> QED
    BY <1>1, <1>2, PTL DEF Spec

\* The objects, their cached versions and the local variables have their types.
THEOREM TypeCorrect == Spec => []TypeOK
PROOF
  <1>1. IInv => TypeOK
    BY DEF IInv
  <1> QED
    BY <1>1, InvariantHolds, PTL

\* Who writes the resource: users, the garbage collector, and the operator, which writes
\* what it has read.
LEMMA WhoWrites ==
  ASSUME IInv, Next, md'.now # md.now, md.now # None, md'.now # None
  PROVE  \/ \E s \in MDSpec : Edit(s)
         \/ Remove
         \/ rec # None /\ rec.fresh /\ md'.now.spec = rec.md.spec
                                    /\ md'.now.deleting = rec.md.deleting
PROOF
  <1>1. CASE RecordCreds
    <2>1. [rec.md EXCEPT !.creds = TRUE] \in MD
          /\ [rec.md EXCEPT !.creds = TRUE].spec = rec.md.spec
          /\ [rec.md EXCEPT !.creds = TRUE].deleting = rec.md.deleting
      BY <1>1, ObjectTypes DEF RecordCreds, At, MD
    <2>2. md'.now = [rec.md EXCEPT !.creds = TRUE]
      BY <1>1, <2>1, PutType DEF RecordCreds, IInv, TypeOK
    <2> QED
      BY <1>1, <2>1, <2>2 DEF RecordCreds, At
  <1>2. CASE UpdateStatus
    <2>1. md'.now = rec.md
      BY <1>2, ObjectTypes, PutType DEF UpdateStatus, At, IInv, TypeOK
    <2> QED
      BY <1>2, <2>1 DEF UpdateStatus, Unchanged, At
  <1>3. CASE CollectResource
    <2>1. md'.now = None
      BY <1>3, PutType DEF CollectResource, IInv, TypeOK
    <2> QED
      BY <2>1
  <1>4. ASSUME NEW x \in {"md", "ks", "cm", "secret"}, Observe(x)
        PROVE  FALSE
    BY <1>4, RefreshType DEF Observe, IInv, TypeOK
  <1>5. CASE Restart
    BY <1>5, RefreshType DEF Restart, IInv, TypeOK
  <1>6. ASSUME NEW x, Collect(x) \/ PodsChange(x) \/ Rotate(x) \/ KnativeReports
        PROVE  FALSE
    BY <1>6 DEF Collect, PodsChange, Rotate, KnativeReports
  <1>7. ASSUME NEW s \in MDSpec, Declare(s)
        PROVE  FALSE
    BY <1>7 DEF Declare
  <1>8. CASE Requeue \/ Ignore \/ Begin \/ ReconcilePolicyCM \/ ReconcilePullConnection
             \/ ReconcileKnativeService \/ JudgeNotReady \/ Inspect \/ JudgeReady
             \/ LoseStatus \/ Fail \/ PullFails
    BY <1>8 DEF Requeue, Ignore, Begin, ReconcilePolicyCM, ReconcilePullConnection,
                ReconcileKnativeService, JudgeNotReady, Inspect, JudgeReady, Conclude,
                LoseStatus, Fail, PullFails, cluster
  <1> QED
    BY <1>1, <1>2, <1>3, <1>4, <1>5, <1>6, <1>7, <1>8
    DEF Next, Operator, Work, Cluster

\* Whatever caches show and whenever a reconcile is cut off, the operator never takes
\* back a change or a deletion by a user (reconcileStatus, pull_connections.go:118).
THEOREM EditsOfUsersAreKept == Spec => EditsAreKept
PROOF
  <1>1. IInv /\ [Next]_vars =>
          [(md.now # None /\ md'.now # None) =>
             /\ md'.now.spec # md.now.spec => \E s \in MDSpec : Edit(s)
             /\ md.now.deleting => md'.now.deleting]_vars
    <2> SUFFICES ASSUME IInv, Next, md.now # None, md'.now # None
                 PROVE  /\ md'.now.spec # md.now.spec => \E s \in MDSpec : Edit(s)
                        /\ md.now.deleting => md'.now.deleting
      OBVIOUS
    <2>1. md.now \in MD
      BY ObjectTypes
    <2>2. CASE md'.now = md.now
      BY <2>2
    <2>a. \A x \in MD : Put(Late("md"), md, x).now = x
      BY PutType DEF IInv, TypeOK
    <2>3. ASSUME NEW s \in MDSpec, Edit(s)
          PROVE  md'.now.deleting = md.now.deleting
      <3>1. [md.now EXCEPT !.spec = s] \in MD
            /\ [md.now EXCEPT !.spec = s].deleting = md.now.deleting
        BY <2>1 DEF MD
      <3> QED
        BY <2>3, <2>a, <3>1 DEF Edit
    <2>4. ASSUME Remove
          PROVE  md'.now.spec = md.now.spec /\ md'.now.deleting
      <3>1. /\ [md.now EXCEPT !.deleting = TRUE] \in MD
            /\ [md.now EXCEPT !.deleting = TRUE].deleting
            /\ [md.now EXCEPT !.deleting = TRUE].spec = md.now.spec
        BY <2>1 DEF MD
      <3> QED
        BY <2>4, <2>a, <3>1 DEF Remove
    <2>5. rec # None /\ rec.fresh =>
            rec.md.spec = md.now.spec /\ rec.md.deleting = md.now.deleting
      BY DEF IInv, FreshIsCurrent
    <2> QED
      BY <2>2, <2>3, <2>4, <2>5, WhoWrites
  <1> QED
    BY <1>1, InvariantHolds, PTL DEF Spec, EditsAreKept

-----------------------------------------------------------------------------
(* At rest                                                                 *)

\* What a write leaves in a store, according to whether its cache is late.
LEMMA PutCases ==
  ASSUME NEW T, NEW store \in Store(T), NEW x \in T \cup {None}, NEW late
  PROVE  /\ Put(late, store, x).now = x
         /\ Put(late, store, x).seen \in {store.seen, x}
         /\ x = store.now => Put(late, store, x) = store
PROOF
  BY DEF Put, Store

\* A deletion that the cache shows has been asked for: a write does not take it back.
LEMMA ShownPut ==
  ASSUME IInv, ShownIsAlive, NEW x \in MD \cup {None}, md' = Put(Late("md"), md, x),
         md.seen = None \/ x = None \/ (md.now # None /\ (md.now.deleting => x.deleting))
  PROVE  ShownIsAlive'
PROOF
  <1>1. md'.now = x /\ md'.seen \in {md.seen, x}
    BY PutCases DEF IInv, TypeOK
  <1> QED
    BY <1>1 DEF ShownIsAlive, Shown, Alive

LEMMA ShownNext ==
  ASSUME IInv, ShownIsAlive, [Next]_vars
  PROVE  ShownIsAlive'
PROOF
  <1>t. md \in Store(MD)
    BY DEF IInv, TypeOK
  <1>1. ASSUME NEW s \in MDSpec, Declare(s) PROVE ShownIsAlive'
    <2>1. [spec |-> s, state |-> "", deleting |-> FALSE, creds |-> FALSE, meta |-> FALSE] \in MD
      BY DEF MD, States
    <2> QED
      BY <1>1, <2>1, ShownPut DEF Declare
  <1>2. ASSUME NEW s \in MDSpec, Edit(s) PROVE ShownIsAlive'
    <2>1. /\ [md.now EXCEPT !.spec = s] \in MD
          /\ [md.now EXCEPT !.spec = s].deleting = md.now.deleting
      BY <1>2, ObjectTypes DEF Edit, MD
    <2> QED
      BY <1>2, <2>1, ShownPut DEF Edit
  <1>3. CASE Remove
    <2>1. [md.now EXCEPT !.deleting = TRUE] \in MD /\ [md.now EXCEPT !.deleting = TRUE].deleting
      BY <1>3, ObjectTypes DEF Remove, MD
    <2> QED
      BY <1>3, <2>1, ShownPut DEF Remove
  <1>4. CASE CollectResource
    BY <1>4, ShownPut DEF CollectResource
  <1>5. CASE RecordCreds \/ UpdateStatus
    <2>1. rec # None /\ rec.fresh
      BY <1>5 DEF RecordCreds, UpdateStatus, Unchanged, At
    <2>2. md.now # None /\ rec.md.deleting = md.now.deleting
      BY <2>1 DEF IInv, FreshIsCurrent
    <2>3. /\ rec.md \in MD /\ [rec.md EXCEPT !.creds = TRUE] \in MD
          /\ [rec.md EXCEPT !.creds = TRUE].deleting = rec.md.deleting
      BY <2>1, ObjectTypes DEF MD
    <2> QED
      BY <1>5, <2>2, <2>3, ShownPut DEF RecordCreds, UpdateStatus
  <1>6. ASSUME (\E x \in {"md", "ks", "cm", "secret"} : Observe(x)) \/ Restart
        PROVE  ShownIsAlive'
    <2>1. md' = md \/ (md'.now = md.now /\ md'.seen = md.now)
      BY <1>6, <1>t, RefreshType DEF Observe, Restart
    <2> QED
      BY <2>1 DEF ShownIsAlive, Shown, Alive
  <1>7. ASSUME NEW x, Collect(x) \/ PodsChange(x) \/ Rotate(x) \/ KnativeReports
        PROVE  md' = md
    BY <1>7 DEF Collect, PodsChange, Rotate, KnativeReports
  <1>8. CASE Requeue \/ Ignore \/ Begin \/ ReconcilePolicyCM \/ ReconcilePullConnection
             \/ ReconcileKnativeService \/ JudgeNotReady \/ Inspect \/ JudgeReady
             \/ LoseStatus \/ Fail \/ PullFails \/ UNCHANGED vars
    <2>1. md' = md
      BY <1>8 DEF Requeue, Ignore, Begin, ReconcilePolicyCM, ReconcilePullConnection,
         ReconcileKnativeService, JudgeNotReady, Inspect, JudgeReady, Conclude,
         LoseStatus, Fail, PullFails, vars, cluster
    <2> QED
      BY <2>1 DEF ShownIsAlive, Shown, Alive
  <1> QED
    BY <1>1, <1>2, <1>3, <1>4, <1>5, <1>6, <1>7, <1>8
    DEF Next, Operator, Work, Cluster, ShownIsAlive, Shown, Alive

\* A name in the queue is all that is asked for.
LEMMA QueuedAgrees ==
  ASSUME ShownIsAlive', queued'
  PROVE  Agreement'
PROOF
  BY DEF Agreement, ReadIsShown, OwnedUnlessQueued, PolicyAgrees, ServiceAgrees

\* A step that neither wakes the operator up nor brings a reconcile past a call, and
\* that leaves the policy and the service as they are.
LEMMA AgreementStands ==
  ASSUME Agreement, ShownIsAlive', ~queued, md'.seen = md.seen, Alive' => Alive,
         UNCHANGED <<setup, cm, ks>>,
         "cm" \in orphans' => "cm" \in orphans, "ks" \in orphans' => "ks" \in orphans,
         rec' # None => /\ rec # None
                        /\ rec'.md.spec = rec.md.spec /\ rec'.md.deleting = rec.md.deleting
                        /\ Alive /\ rec.owned => rec'.owned,
         PolicyDone' => PolicyDone,
         setup.conn = "none" /\ ServiceDone' => ServiceDone
  PROVE  Agreement'
PROOF
  <1>1. Shown' => Shown
    BY DEF Shown
  <1>2. ReadIsShown' /\ OwnedUnlessQueued'
    BY DEF Agreement, ReadIsShown, OwnedUnlessQueued
  <1>3. PolicyAgrees'
    BY <1>1 DEF Agreement, PolicyAgrees
  <1>4. ServiceAgrees'
    BY <1>1 DEF Agreement, ServiceAgrees, SameService
  <1> QED
    BY <1>2, <1>3, <1>4 DEF Agreement

\* Users and the collector write the resource, and the operator its status.
LEMMA WritesAgree ==
  ASSUME IInv, Agreement, ShownIsAlive', ~queued',
         \/ \E s \in MDSpec : Declare(s) \/ Edit(s)
         \/ Remove \/ CollectResource \/ RecordCreds \/ UpdateStatus
  PROVE  Agreement'
PROOF
  <1>t. md \in Store(MD)
    BY DEF IInv, TypeOK
  <1>1. /\ ~queued /\ md'.seen = md.seen
        /\ UNCHANGED <<setup, cm, ks, orphans>>
    BY DEF Declare, Edit, Remove, CollectResource, RecordCreds, UpdateStatus, Notify, Watch,
           children
  <1>2. ASSUME NEW s \in MDSpec, Declare(s) PROVE Agreement'
    <2>1. rec = None /\ rec' = None /\ ~Shown'
      BY <1>1, <1>2 DEF Declare, Outdated, Shown, Agreement, ReadIsShown
    <2> QED
      BY <2>1 DEF Agreement, ReadIsShown, OwnedUnlessQueued, PolicyAgrees, ServiceAgrees
  <1>3. ASSUME \/ \E s \in MDSpec : Edit(s)
               \/ Remove \/ CollectResource
        PROVE  Agreement'
    <2>1. rec = None => rec' = None
      BY <1>3 DEF Edit, Remove, CollectResource, Outdated
    <2>2. rec # None => /\ rec' # None /\ rec'.md = rec.md /\ rec'.phase = rec.phase
                        /\ ~CollectResource => rec'.owned = rec.owned
      BY <1>3, ObjectTypes DEF Edit, Remove, CollectResource, Outdated, Rec
    <2>3. /\ Alive' => Alive
          /\ CollectResource => ~Alive
      <3>1. CASE CollectResource
        <4>1. md'.now = None
          BY <3>1, <1>t, PutType DEF CollectResource
        <4> QED
          BY <3>1, <4>1 DEF CollectResource, Alive
      <3>2. CASE Remove
        <4>1. [md.now EXCEPT !.deleting = TRUE] \in MD /\ [md.now EXCEPT !.deleting = TRUE].deleting
          BY <3>2, ObjectTypes DEF Remove, MD
        <4>2. md'.now = [md.now EXCEPT !.deleting = TRUE]
          BY <3>2, <1>t, <4>1, PutType DEF Remove
        <4> QED
          BY <3>2, <4>1, <4>2 DEF Remove, Alive, CollectResource
      <3>3. ASSUME NEW s \in MDSpec, Edit(s) PROVE (Alive' => Alive) /\ (CollectResource => ~Alive)
        <4>1. /\ [md.now EXCEPT !.spec = s] \in MD
              /\ [md.now EXCEPT !.spec = s].deleting = md.now.deleting
          BY <3>3, ObjectTypes DEF Edit, MD
        <4>2. md'.now = [md.now EXCEPT !.spec = s]
          BY <3>3, <1>t, <4>1, PutType DEF Edit
        <4> QED
          BY <3>3, <4>1, <4>2 DEF Edit, Alive, CollectResource
      <3> QED
        BY <1>3, <3>1, <3>2, <3>3
    <2> QED
      BY <1>1, <2>1, <2>2, <2>3, AgreementStands DEF PolicyDone, ServiceDone
  <1>4. CASE RecordCreds \/ UpdateStatus
    <2>1. rec # None /\ rec.fresh /\ rec \in Rec /\ rec.md \in MD
      BY <1>4, ObjectTypes DEF RecordCreds, UpdateStatus, Unchanged, At
    <2>2. md.now # None /\ rec.md.deleting = md.now.deleting
      BY <2>1 DEF IInv, FreshIsCurrent
    <2> DEFINE dated == [rec.md EXCEPT !.creds = TRUE]
    <2>3. dated \in MD /\ dated.deleting = rec.md.deleting /\ dated.spec = rec.md.spec
      BY <2>1 DEF MD
    <2>4. md'.now \in {rec.md, dated}
      BY <1>4, <1>t, <2>1, <2>3, PutType DEF RecordCreds, UpdateStatus
    <2>5. Alive' => Alive
      BY <2>2, <2>3, <2>4 DEF Alive
    <2>6. CASE UpdateStatus
      BY <1>1, <2>5, <2>6, AgreementStands DEF UpdateStatus, At, PolicyDone, ServiceDone
    <2>7. CASE RecordCreds
      <3>1. rec' = [rec EXCEPT !.phase = "service", !.md = dated]
        BY <2>1, <2>7 DEF RecordCreds, Rec
      <3> HIDE DEF dated
      <3>2. rec'.md = dated /\ rec'.phase = "service" /\ rec'.owned = rec.owned /\ rec' # None
        BY <2>1, <2>3, <3>1, ObjectTypes DEF Rec, Phases
      <3>3. PolicyDone /\ ~ServiceDone'
        BY <2>7, <3>2 DEF RecordCreds, At, PolicyDone, ServiceDone
      <3> QED
        BY <1>1, <2>1, <2>3, <2>5, <3>2, <3>3, AgreementStands
    <2> QED
      BY <1>4, <2>6, <2>7
  <1> QED
    BY <1>2, <1>3, <1>4

\* The policy is brought to what the cache shows of the resource, or was found there.
LEMMA PolicyStepAgrees ==
  ASSUME IInv, Agreement, ShownIsAlive', ~queued', ReconcilePolicyCM
  PROVE  Agreement'
PROOF
  <1> DEFINE phase == IF setup.conn = "none" THEN "service" ELSE "pull"
  <1>1. /\ rec # None /\ Goto(phase) /\ ~queued
        /\ UNCHANGED <<setup, md, ks>>
    BY DEF ReconcilePolicyCM, At, Notify
  <1>2. rec' = [rec EXCEPT !.phase = phase]
    BY <1>1 DEF Goto
  <1>3. /\ rec' # None /\ rec'.phase \in {"service", "pull"} /\ rec'.md = rec.md
        /\ rec'.owned = rec.owned
    BY <1>1, <1>2, ObjectTypes DEF Rec, Phases
  <1>4. ReadIsShown' /\ OwnedUnlessQueued'
    BY <1>1, <1>3 DEF Agreement, ReadIsShown, OwnedUnlessQueued, Alive
  <1>5. ServiceAgrees'
    BY <1>3 DEF ServiceAgrees, ServiceDone
  <1>6. PolicyAgrees'
    <2> SUFFICES ASSUME Shown
                 PROVE  /\ cm'.seen = cm'.now => cm'.now = md.seen.spec.role
                        /\ "cm" \in orphans' /\ cm'.now # None => cm'.seen # None
      BY <1>1 DEF PolicyAgrees, Shown, Alive
    <2>1. rec.md.spec.role = md.seen.spec.role /\ rec.owned
      BY <1>1 DEF Agreement, ReadIsShown, OwnedUnlessQueued, Shown
    <2> DEFINE role == rec.md.spec.role
    <2>2. Put(Late("cm"), cm, role).now = role
      BY <1>1, ObjectTypes, PutType DEF IInv, TypeOK
    <2>3. CASE role = None \/ cm.seen # role
      <3>1. cm' = Put(Late("cm"), cm, role) /\ "cm" \notin orphans'
        BY <2>1, <2>3 DEF ReconcilePolicyCM, OwnedBy
      <3> QED
        BY <2>1, <2>2, <3>1
    <2>4. CASE role # None /\ cm.seen = role
      <3>1. cm' = cm
        BY <2>4 DEF ReconcilePolicyCM
      <3> QED
        BY <2>1, <2>4, <3>1
    <2> QED
      BY <2>3, <2>4
  <1> QED
    BY <1>4, <1>5, <1>6 DEF Agreement

\* So is the service.
LEMMA ServiceStepAgrees ==
  ASSUME IInv, Agreement, ShownIsAlive', ~queued', ReconcileKnativeService
  PROVE  Agreement'
PROOF
  <1>1. /\ rec # None /\ rec.phase = "service" /\ Goto("status") /\ ~queued
        /\ UNCHANGED <<setup, md, cm>>
    BY DEF ReconcileKnativeService, At, Notify
  <1>2. /\ rec' # None /\ rec'.phase = "status" /\ rec'.md = rec.md
        /\ rec'.owned = rec.owned
    BY <1>1, ObjectTypes DEF Goto, Rec, Phases
  <1>3. ReadIsShown' /\ OwnedUnlessQueued'
    BY <1>1, <1>2 DEF Agreement, ReadIsShown, OwnedUnlessQueued, Alive
  <1>4. "cm" \in orphans' => "cm" \in orphans
    BY DEF ReconcileKnativeService, OwnedBy
  <1>5. PolicyAgrees'
    BY <1>1, <1>4 DEF Agreement, PolicyAgrees, PolicyDone, Shown, Alive
  <1>6. ServiceAgrees'
    <2> SUFFICES ASSUME Shown, SameService \/ "ks" \in orphans'
                 PROVE  /\ SameService' => ks'.now # None /\ ks'.now.spec = md.seen.spec
                        /\ "ks" \in orphans' /\ ks'.now # None => ks'.seen # None
      <3>1. CASE SameService \/ "ks" \in orphans'
        BY <1>1, <3>1 DEF ServiceAgrees, Shown, Alive
      <3>2. CASE ~SameService /\ "ks" \notin orphans'
        <4>1. ks.seen # None /\ ks.seen # ks.now
          BY <3>2 DEF SameService, ReconcileKnativeService
        <4>2. ks' = ks
          BY <4>1 DEF ReconcileKnativeService
        <4> QED
          BY <3>2, <4>2 DEF ServiceAgrees, SameService
      <3> QED
        BY <3>1, <3>2
    <2>1. rec.md.spec = md.seen.spec /\ rec.owned
      BY <1>1 DEF Agreement, ReadIsShown, OwnedUnlessQueued, Shown
    <2>2. CASE ks' = ks /\ ks.seen # None /\ ks.seen.spec = rec.md.spec
      BY <2>1, <2>2 DEF SameService
    <2>3. CASE ks' = Put(Late("ks"), ks, [spec |-> rec.md.spec, ready |-> FALSE])
               /\ orphans' = OwnedBy("ks")
      <3>1. [spec |-> rec.md.spec, ready |-> FALSE] \in KService
        BY <1>1, ObjectTypes DEF KService
      <3>2. ks'.now = [spec |-> rec.md.spec, ready |-> FALSE]
        BY <2>3, <3>1, PutType DEF IInv, TypeOK
      <3> QED
        BY <2>1, <2>3, <3>1, <3>2, ObjectTypes DEF OwnedBy
    <2>4. CASE ks.seen # None /\ ks.seen = ks.now
               /\ ks' = Put(Late("ks"), ks, [ks.now EXCEPT !.spec = rec.md.spec])
      <3>1. /\ [ks.now EXCEPT !.spec = rec.md.spec] \in KService
            /\ [ks.now EXCEPT !.spec = rec.md.spec].spec = rec.md.spec
        BY <1>1, <2>4, ObjectTypes DEF KService
      <3>2. /\ ks'.now = [ks.now EXCEPT !.spec = rec.md.spec]
            /\ ks'.seen # None
        BY <2>4, <3>1, PutCases, ObjectTypes DEF IInv, TypeOK
      <3> QED
        BY <2>1, <3>1, <3>2, ObjectTypes
    <2> QED
      BY <2>2, <2>3, <2>4 DEF ReconcileKnativeService
  <1> QED
    BY <1>3, <1>5, <1>6 DEF Agreement

\* A child that is collected is missed by an event, or not yet asked for.
LEMMA CollectAgrees ==
  ASSUME IInv, Agreement, ShownIsAlive', ~queued', NEW x \in Children, Collect(x)
  PROVE  Agreement'
PROOF
  <1>t. cm \in Store(Roles) /\ ks \in Store(KService)
    BY DEF IInv, TypeOK
  <1>1. /\ ~queued /\ cm'.seen = cm.seen /\ ks'.seen = ks.seen
        /\ UNCHANGED <<setup, md, rec>>
        /\ orphans' = orphans \ {x}
    BY DEF Collect, Notify, Watch
  <1>2. CASE ~Alive
    BY <1>1, <1>2
    DEF Agreement, ReadIsShown, OwnedUnlessQueued, PolicyAgrees, ServiceAgrees, Shown, Alive
  <1>3. CASE x = "secret"
    <2>1. UNCHANGED <<cm, ks>>
      BY <1>3 DEF Collect
    <2> QED
      BY <1>1, <2>1, AgreementStands DEF Alive, PolicyDone, ServiceDone
  <1>4. ReadIsShown' /\ OwnedUnlessQueued'
    BY <1>1 DEF Agreement, ReadIsShown, OwnedUnlessQueued, Alive
  <1>5. CASE Alive /\ x = "cm"
    <2>1. cm'.now = None /\ cm.now # None /\ ks' = ks /\ "cm" \in orphans
      BY <1>t, <1>5, PutType DEF Collect, Exists, Alive
    <2> QED
      BY <1>1, <1>4, <2>1
      DEF Agreement, PolicyAgrees, PolicyDone, ServiceAgrees, ServiceDone, SameService, Shown, Alive
  <1>6. CASE Alive /\ x = "ks"
    <2>1. ks'.now = None /\ ks.now # None /\ cm' = cm /\ "ks" \in orphans
      BY <1>t, <1>6, PutType DEF Collect, Exists, Alive
    <2> QED
      BY <1>1, <1>4, <2>1
      DEF Agreement, PolicyAgrees, PolicyDone, ServiceAgrees, ServiceDone, SameService, Shown, Alive
  <1> QED
    BY <1>2, <1>3, <1>5, <1>6 DEF Children

LEMMA AgreementNext ==
  ASSUME IInv, Agreement, [Next]_vars
  PROVE  Agreement'
PROOF
  <1>s. ShownIsAlive'
    BY ShownNext DEF Agreement
  <1> SUFFICES ASSUME ~queued' PROVE Agreement'
    BY <1>s, QueuedAgrees
  <1>t. /\ md \in Store(MD) /\ cm \in Store(Roles)
        /\ secret \in Store(Passwords) /\ ks \in Store(KService)
    BY DEF IInv, TypeOK
  <1>1. CASE \/ \E s \in MDSpec : Declare(s) \/ Edit(s)
             \/ Remove \/ CollectResource \/ RecordCreds \/ UpdateStatus
    BY <1>1, <1>s, WritesAgree
  <1>2. CASE ReconcilePolicyCM
    BY <1>2, <1>s, PolicyStepAgrees
  <1>3. CASE ReconcileKnativeService
    BY <1>3, <1>s, ServiceStepAgrees
  <1>4. ASSUME NEW x \in Children, Collect(x) PROVE Agreement'
    BY <1>4, <1>s, CollectAgrees
  <1>5. CASE Ignore \/ Begin
    <2>1. /\ UNCHANGED <<setup, md, cm, ks, orphans>> /\ rec = None
      BY <1>5 DEF Ignore, Begin, cluster, children
    <2>2. CASE Ignore
      BY <2>1, <2>2, <1>s
      DEF Ignore, Agreement, ReadIsShown, OwnedUnlessQueued, PolicyAgrees, ServiceAgrees, Shown
    <2>3. CASE Begin
      <3> DEFINE read == IF md.seen.deleting THEN [md.seen EXCEPT !.state = "Deleting"]
                         ELSE md.seen
      <3>1. /\ md.seen \in MD /\ rec'.md = read
            /\ rec'.phase = (IF md.seen.deleting THEN "write" ELSE "policy")
            /\ rec'.owned = (md.now # None)
        BY <2>3, ObjectTypes DEF Begin
      <3>2. read \in MD /\ read.spec = md.seen.spec /\ read.deleting = md.seen.deleting
        BY <3>1 DEF MD, States
      <3>a. rec' = [md |-> read, phase |-> IF md.seen.deleting THEN "write" ELSE "policy",
                    fresh |-> md.seen = md.now, owned |-> md.now # None]
        BY <2>3 DEF Begin
      <3> HIDE DEF read
      <3>3. ReadIsShown' /\ OwnedUnlessQueued'
        BY <2>1, <2>3, <3>1, <3>2 DEF Begin, ReadIsShown, OwnedUnlessQueued, Alive
      <3>4. Shown' => ~md.seen.deleting
        BY <1>s, <2>1 DEF ShownIsAlive
      <3>5. rec' # None
        <4>1. rec' \in Rec
          BY <3>2, <3>a DEF Rec, Phases
        <4> QED
          BY <4>1, ObjectTypes
      <3>6. PolicyAgrees' /\ ServiceAgrees'
        BY <3>1, <3>4, <3>5 DEF PolicyAgrees, ServiceAgrees, PolicyDone, ServiceDone
      <3> QED
        BY <1>s, <3>3, <3>6 DEF Agreement
    <2> QED
      BY <1>5, <2>2, <2>3
  <1>6. CASE ReconcilePullConnection
    <2>1. /\ rec # None /\ rec.phase = "pull" /\ ~queued
          /\ UNCHANGED <<setup, md, cm, ks>>
          /\ "cm" \in orphans' => "cm" \in orphans
          /\ "ks" \in orphans' => "ks" \in orphans
      BY <1>6 DEF ReconcilePullConnection, At, OwnedBy
    <2>2. PICK phase \in {"creds", "service"} : Goto(phase)
      BY <1>6 DEF ReconcilePullConnection
    <2>3. rec' # None /\ rec'.phase = phase /\ rec'.md = rec.md /\ rec'.owned = rec.owned
      BY <2>1, <2>2, ObjectTypes DEF Goto, Rec, Phases
    <2> QED
      BY <1>s, <2>1, <2>3, AgreementStands DEF Alive, PolicyDone, ServiceDone
  <1>7. ASSUME At("status"), NEW state, NEW meta, Conclude(state, meta) PROVE Agreement'
    <2>1. /\ rec # None /\ rec.phase = "status" /\ ~queued /\ rec \in Rec /\ rec.md \in MD
          /\ UNCHANGED <<setup, md, cm, ks, orphans>>
      BY <1>7, ObjectTypes DEF Conclude, At, cluster, children
    <2> DEFINE judged == [rec.md EXCEPT !.state = state, !.meta = meta]
    <2>2. judged.spec = rec.md.spec /\ judged.deleting = rec.md.deleting
      BY <2>1 DEF MD
    <2>3. rec' = [rec EXCEPT !.phase = "write", !.md = judged]
      BY <1>7, <2>1 DEF Conclude, Rec
    <2> HIDE DEF judged
    <2>4. rec'.md = judged /\ rec'.owned = rec.owned
      BY <2>1, <2>3 DEF Rec
    <2> QED
      BY <1>s, <2>1, <2>2, <2>4, AgreementStands DEF Alive, PolicyDone, ServiceDone
  <1>8. CASE JudgeNotReady \/ Inspect \/ JudgeReady
    BY <1>7, <1>8 DEF JudgeNotReady, Inspect, JudgeReady
  <1>9. CASE LoseStatus \/ PullFails
    <2>1. /\ rec # None /\ rec' = None /\ ~queued
          /\ UNCHANGED <<setup, md, cm, ks, orphans>>
          /\ rec.phase # "policy" /\ (setup.conn = "none" => rec.phase = "write")
      BY <1>9 DEF LoseStatus, PullFails, At, cluster, children, IInv, PasswordFits
    <2> QED
      BY <1>s, <2>1, AgreementStands DEF Alive, PolicyDone, ServiceDone
  <1>10. CASE Fail \/ Requeue
    BY <1>10 DEF Fail, Requeue
  <1>11. CASE Restart
    <2>1. md'.now = None /\ rec' = None
      BY <1>11, <1>t, RefreshType DEF Restart
    <2> QED
      BY <1>s, <2>1
      DEF Agreement, ReadIsShown, OwnedUnlessQueued, PolicyAgrees, ServiceAgrees, Shown, Alive
  <1>12. ASSUME NEW x, Observe(x) PROVE Agreement'
    <2>1. /\ ~queued /\ md'.seen = md.seen /\ cm'.seen = cm.seen /\ ks'.seen = ks.seen
          /\ UNCHANGED <<setup, orphans, rec>>
      BY <1>12 DEF Observe, Notify, Watch
    <2>2. UNCHANGED <<md, cm, ks>>
      BY <1>12, <1>t, <2>1 DEF Observe, Refresh, Store
    <2> QED
      BY <1>s, <2>1, <2>2, AgreementStands DEF Alive, PolicyDone, ServiceDone
  <1>13. CASE KnativeReports
    <2>1. /\ ~queued /\ ks'.seen = ks.seen /\ ks.now # None
          /\ UNCHANGED <<setup, md, cm, orphans, rec>>
      BY <1>13 DEF KnativeReports, Notify, Watch
    <2>2. /\ [ks.now EXCEPT !.ready = ~ks.now.ready] \in KService
          /\ [ks.now EXCEPT !.ready = ~ks.now.ready].spec = ks.now.spec
      BY <2>1, ObjectTypes DEF KService
    <2>3. ks'.now # None /\ ks'.now.spec = ks.now.spec
      <3>1. \A x \in KService : Put(Late("ks"), ks, x).now = x
        BY <1>t, PutType
      <3> QED
        BY <1>13, <2>2, <3>1, ObjectTypes DEF KnativeReports
    <2>4. ReadIsShown' /\ OwnedUnlessQueued' /\ PolicyAgrees'
      BY <2>1 DEF Agreement, ReadIsShown, OwnedUnlessQueued, PolicyAgrees, PolicyDone, Shown, Alive
    <2>5. ServiceAgrees'
      BY <2>1, <2>3 DEF Agreement, ServiceAgrees, ServiceDone, SameService, Shown, Alive
    <2> QED
      BY <1>s, <2>4, <2>5 DEF Agreement
  <1>14. ASSUME NEW x, PodsChange(x) \/ Rotate(x) \/ UNCHANGED vars
         PROVE  ~queued /\ UNCHANGED <<setup, md, cm, ks, orphans, rec>>
    <2>1. CASE PodsChange(x)
      BY <2>1 DEF PodsChange, children
    <2>2. CASE Rotate(x)
      BY <2>2 DEF Rotate, children
    <2>3. CASE UNCHANGED vars
      BY <2>3 DEF vars, cluster, children
    <2> QED
      BY <1>14, <2>1, <2>2, <2>3
  <1>15. ASSUME ~queued, UNCHANGED <<setup, md, cm, ks, orphans, rec>> PROVE Agreement'
    BY <1>s, <1>15, AgreementStands DEF Alive, PolicyDone, ServiceDone
  <1> QED
    BY <1>1, <1>2, <1>3, <1>4, <1>5, <1>6, <1>8, <1>9, <1>10, <1>11, <1>12, <1>13, <1>14, <1>15
    DEF Next, Operator, Work, Cluster

\* The operator never comes to rest on a policy or a service of another specification,
\* for any roles and edits, whichever caches are late and wherever a reconcile is cut
\* off (reconcilePolicyCM, ReconcileKnativeService, the watches of SetupBuilder).
THEOREM AtRestAllAgrees == Spec => []RestsInAgreement
PROOF
  <1>1. Init => Agreement
    BY DEF Init, Absent, Agreement, ShownIsAlive, ReadIsShown, OwnedUnlessQueued,
           PolicyAgrees, ServiceAgrees, Shown, Alive
  <1>2. Agreement => RestsInAgreement
    BY DEF Agreement, PolicyAgrees, PolicyDone, ServiceAgrees, ServiceDone, SameService,
           Shown, Alive, RestsInAgreement, Settled, Declared
  <1> QED
    BY <1>1, <1>2, AgreementNext, InvariantHolds, PTL DEF Spec

-----------------------------------------------------------------------------
(* The contract with the system controller                                 *)

\* Neither the cluster, but for the collector, nor the registry nor time writes the
\* resource or has a part in a reconcile.
LEMMA ClusterStands ==
  ASSUME IInv, \/ Cluster /\ ~CollectResource
               \/ Requeue
               \/ \E p \in Passwords : Rotate(p)
  PROVE  md'.now = md.now /\ rec' = rec
PROOF
  <1>1. ASSUME NEW x, Observe(x) PROVE md'.now = md.now /\ rec' = rec
    BY <1>1, RefreshType DEF Observe, IInv, TypeOK
  <1>2. ASSUME NEW x, Collect(x) \/ PodsChange(x) \/ Rotate(x)
        PROVE  md'.now = md.now /\ rec' = rec
    BY <1>2 DEF Collect, PodsChange, Rotate
  <1>3. CASE KnativeReports \/ Requeue
    BY <1>3 DEF KnativeReports, Requeue, cluster
  <1> QED
    BY <1>1, <1>2, <1>3 DEF Cluster

\* Of the steps of the operator only two write the resource.
LEMMA ResourceStays ==
  ASSUME IInv, Operator, ~RecordCreds, ~UpdateStatus
  PROVE  md'.now = md.now
PROOF
  <1>1. CASE Restart
    BY <1>1, RefreshType DEF Restart, IInv, TypeOK
  <1>2. CASE Ignore \/ Begin \/ ReconcilePolicyCM \/ ReconcilePullConnection
             \/ ReconcileKnativeService \/ JudgeNotReady \/ Inspect \/ JudgeReady
             \/ LoseStatus \/ Fail \/ PullFails \/ Requeue
    BY <1>2 DEF Ignore, Begin, ReconcilePolicyCM, ReconcilePullConnection,
       ReconcileKnativeService, JudgeNotReady, Inspect, JudgeReady, Conclude, LoseStatus,
       Fail, PullFails, Requeue, cluster
  <1> QED
    BY <1>1, <1>2 DEF Operator, Work

\* A write to the resource stores it.
LEMMA ResourceWritten ==
  ASSUME IInv, NEW x \in MD \cup {None}, md' = Put(Late("md"), md, x)
  PROVE  md'.now = x
PROOF
  BY PutType DEF IInv, TypeOK

\* Steps that leave the resource and what a reconcile has read of it alone.
LEMMA StatusStands ==
  ASSUME StatusFits, md'.now = md.now,
         rec' = None \/ ~rec'.fresh
           \/ (rec # None /\ rec'.fresh = rec.fresh /\ rec'.md = rec.md
                /\ (rec.phase = "write" <=> rec'.phase = "write"))
  PROVE  StatusFits'
PROOF
  BY DEF StatusFits

\* Until a reconcile has come to a state of its own it keeps the one it has read.
LEMMA StatusNext ==
  ASSUME IInv, StatusFits, [Next]_vars
  PROVE  StatusFits'
PROOF
  <1>1. CASE Begin
    <2>1. md.seen \in MD /\ md'.now = md.now
      BY <1>1, ObjectTypes DEF Begin, cluster
    <2> DEFINE read == IF md.seen.deleting THEN [md.seen EXCEPT !.state = "Deleting"]
                       ELSE md.seen
    <2>2. /\ rec'.md = read /\ (rec'.fresh => md.seen = md.now)
          /\ rec'.phase = IF md.seen.deleting THEN "write" ELSE "policy"
      BY <1>1 DEF Begin
    <2>3. md.seen.deleting => read.state = "Deleting" /\ read.deleting
      BY <2>1 DEF MD
    <2>4. ~md.seen.deleting => read = md.seen
      OBVIOUS
    <2> HIDE DEF read
    <2> QED
      BY <2>1, <2>2, <2>3, <2>4 DEF StatusFits
  <1>2. CASE ReconcilePolicyCM \/ ReconcilePullConnection \/ ReconcileKnativeService
    <2>1. PICK phase \in Phases \ {"write"} : Goto(phase)
      BY <1>2 DEF ReconcilePolicyCM, ReconcilePullConnection, ReconcileKnativeService, Phases
    <2>2. rec # None /\ rec.phase # "write" /\ md'.now = md.now
      BY <1>2 DEF ReconcilePolicyCM, ReconcilePullConnection, ReconcileKnativeService, At
    <2>3. rec'.phase = phase /\ rec'.md = rec.md /\ rec'.fresh = rec.fresh
      BY <2>1, <2>2, GotoFacts
    <2> QED
      BY <2>1, <2>2, <2>3, StatusStands
  <1>3. CASE RecordCreds
    <2>1. rec # None /\ rec.fresh /\ rec \in Rec /\ rec.md \in MD /\ rec.phase = "creds"
      BY <1>3, ObjectTypes DEF RecordCreds, At
    <2> DEFINE dated == [rec.md EXCEPT !.creds = TRUE]
    <2>2. dated \in MD /\ dated.state = rec.md.state /\ dated.deleting = rec.md.deleting
      BY <2>1 DEF MD
    <2>3. md'.now = dated
      BY <1>3, <2>2, ResourceWritten DEF RecordCreds
    <2>4. rec'.md = dated /\ rec'.phase = "service"
      BY <1>3, <2>1 DEF RecordCreds, Rec
    <2> HIDE DEF dated
    <2> QED
      BY <2>1, <2>2, <2>3, <2>4 DEF StatusFits
  <1>4. ASSUME At("status"), NEW state \in {"Ready", "Processing"}, NEW meta \in BOOLEAN,
               Conclude(state, meta)
        PROVE  StatusFits'
    <2>1. rec # None /\ rec \in Rec /\ rec.md \in MD /\ rec.phase = "status"
      BY <1>4, ObjectTypes DEF At
    <2> DEFINE judged == [rec.md EXCEPT !.state = state, !.meta = meta]
    <2>2. judged.state = state /\ judged.deleting = rec.md.deleting
      BY <2>1 DEF MD
    <2>3. rec' = [rec EXCEPT !.phase = "write", !.md = judged]
      BY <1>4, <2>1 DEF Conclude, Rec
    <2> HIDE DEF judged
    <2>4. rec'.md = judged /\ rec'.phase = "write" /\ rec'.fresh = rec.fresh
      BY <2>1, <2>3 DEF Rec
    <2> QED
      BY <2>1, <2>2, <2>4 DEF StatusFits
  <1>5. CASE JudgeNotReady \/ Inspect \/ JudgeReady
    <2>1. At("status") /\ rec.md.meta \in BOOLEAN
      BY <1>5, ObjectTypes DEF JudgeNotReady, Inspect, JudgeReady, At, MD
    <2> QED
      BY <1>4, <1>5, <2>1 DEF JudgeNotReady, Inspect, JudgeReady
  <1>6. CASE Ignore \/ UpdateStatus \/ LoseStatus \/ Fail \/ PullFails \/ Restart
    BY <1>6 DEF Ignore, UpdateStatus, LoseStatus, Fail, PullFails, Restart, StatusFits
  <1>7. ASSUME \/ \E s \in MDSpec : Declare(s) \/ Edit(s)
               \/ Remove \/ CollectResource
        PROVE  StatusFits'
    <2>1. rec' = None \/ ~rec'.fresh
      BY <1>7, ObjectTypes DEF Declare, Edit, Remove, CollectResource, Outdated, Rec
    <2> QED
      BY <2>1 DEF StatusFits
  <1>8. ASSUME (Cluster /\ ~CollectResource) \/ Requeue \/ \E p \in Passwords : Rotate(p)
        PROVE  StatusFits'
    BY <1>8, ClusterStands DEF StatusFits
  <1>9. CASE UNCHANGED vars
    BY <1>9 DEF vars, cluster, StatusFits
  <1> QED
    BY <1>1, <1>2, <1>3, <1>5, <1>6, <1>7, <1>8, <1>9 DEF Next, Operator, Work

\* What the contract says of a resource that is there.
LEMMA ViewOfResource ==
  ASSUME NEW c \in MD
  PROVE  /\ View(c) = [spec |-> c.spec, deleting |-> c.deleting, stage |-> Stage(c.state)]
         /\ View(c) \in [spec: {c.spec}, deleting: {c.deleting}, stage: {Stage(c.state)}]
         /\ View(c) # [stage |-> "Absent"]
PROOF
  <1>1. c # None /\ c.state \in States
    BY DeploymentAssumption DEF MD
  <1>2. View(c) = [spec |-> c.spec, deleting |-> c.deleting, stage |-> Stage(c.state)]
    BY <1>1 DEF View
  <1>3. Stage(c.state) # "Absent"
    BY <1>1 DEF Stage, States
  <1>4. View(c).stage # "Absent"
    BY <1>2, <1>3
  <1> QED
    BY <1>2, <1>4

\* What users do is what the contract lets the controller do.
LEMMA ControllerSteps ==
  ASSUME IInv, Remove \/ \E s \in MDSpec : Declare(s) \/ Edit(s)
  PROVE  Contract!Controller
PROOF
  <1>1. ASSUME NEW s \in MDSpec, Declare(s) PROVE Contract!Controller
    <2> DEFINE c == [spec |-> s, state |-> "", deleting |-> FALSE, creds |-> FALSE,
                     meta |-> FALSE]
    <2>1. c \in MD
      BY DEF MD, States
    <2>2. md'.now = c /\ md.now = None
      BY <1>1, <2>1, ResourceWritten DEF Declare
    <2>3. View(c) = [spec |-> s, deleting |-> FALSE, stage |-> "Unknown"]
      BY <2>1, ViewOfResource DEF Stage
    <2> HIDE DEF c
    <2>4. Contract!Create(s)
      BY <2>2, <2>3 DEF Contract!Create, Contract!Present, Contract!Absent, View
    <2> QED
      BY <2>4 DEF Contract!Controller
  <1>2. ASSUME NEW s \in MDSpec, Edit(s) PROVE Contract!Controller
    <2> DEFINE o == md.now
               c == [o EXCEPT !.spec = s]
    <2>1. o \in MD
      BY <1>2, ObjectTypes DEF Edit
    <2>2. c \in MD /\ c.spec = s /\ c.deleting = o.deleting /\ c.state = o.state
      BY <2>1 DEF MD
    <2>3. md'.now = c
      BY <1>2, <2>2, ResourceWritten DEF Edit
    <2> HIDE DEF c
    <2>4. View(c) \in [spec: {s}, deleting: {o.deleting}, stage: {Stage(o.state)}]
      BY <2>2, ViewOfResource
    <2> HIDE DEF o
    <2>5. View(c) = [View(o) EXCEPT !.spec = s]
      BY <2>1, <2>4, ViewOfResource
    <2>6. View(c) = [View(o) EXCEPT !.spec = s, !.stage = View(o).stage]
      BY <2>1, <2>4, ViewOfResource
    <2>7. Contract!Update(s)
      BY <2>1, <2>3, <2>6, ViewOfResource
         DEF Contract!Update, Contract!Present, Contract!Absent, o
    <2> QED
      BY <2>7 DEF Contract!Controller
  <1>3. CASE Remove
    <2> DEFINE o == md.now
               c == [o EXCEPT !.deleting = TRUE]
               yes == TRUE
    <2>1. o \in MD
      BY <1>3, ObjectTypes DEF Remove
    <2>2. c \in MD /\ c.spec = o.spec /\ c.deleting = yes /\ c.state = o.state
      BY <2>1 DEF MD
    <2>3. md'.now = c
      BY <1>3, <2>2, ResourceWritten DEF Remove
    <2> HIDE DEF c, yes
    <2>4. View(c) \in [spec: {o.spec}, deleting: {yes}, stage: {Stage(o.state)}]
      BY <2>2, ViewOfResource
    <2> HIDE DEF o
    <2>5. View(c) = [View(o) EXCEPT !.deleting = yes]
      BY <2>1, <2>4, ViewOfResource
    <2>6. View(md'.now) = [View(md.now) EXCEPT !.deleting = TRUE]
      BY <2>3, <2>5 DEF o, yes
    <2>7. View(md.now) # [stage |-> "Absent"]
      BY <2>1, ViewOfResource DEF o
    <2>8. Contract!Delete
      BY <2>6, <2>7, Zenon DEF Contract!Delete, Contract!Present, Contract!Absent
    <2> QED
      BY <2>8 DEF Contract!Controller
  <1> QED
    BY <1>1, <1>2, <1>3

\* What the operator and the cluster do is what the contract lets the operator do.
LEMMA OperatorSteps ==
  ASSUME IInv, StatusFits, Operator \/ Cluster \/ \E p \in Passwords : Rotate(p)
  PROVE  Contract!Operator \/ UNCHANGED View(md.now)
PROOF
  <1> DEFINE o == md.now
             c == rec.md
  <1>1. CASE UpdateStatus
    <2>1. /\ rec # None /\ rec.fresh /\ rec.phase = "write" /\ o # None
          /\ c \in MD /\ o \in MD /\ c.spec = o.spec /\ c.deleting = o.deleting
      BY <1>1, ObjectTypes DEF UpdateStatus, Unchanged, At, IInv, FreshIsCurrent
    <2>2. md'.now = c
      BY <1>1, <2>1, ResourceWritten DEF UpdateStatus
    <2>3. View(c) \in [spec: {o.spec}, deleting: {o.deleting}, stage: {Stage(c.state)}]
      BY <2>1, ViewOfResource
    <2>4. c.state \in (IF o.deleting THEN {"Deleting"} ELSE {"Processing", "Ready"})
      BY <2>1 DEF StatusFits
    <2>5. View(o).deleting = o.deleting /\ View(o) # [stage |-> "Absent"]
      BY <2>1, ViewOfResource
    <2> HIDE DEF o, c
    <2>6. View(c) = [View(o) EXCEPT !.stage = Stage(c.state)]
      BY <2>1, <2>3, ViewOfResource
    <2>7. CASE o.deleting
      <3>1. Stage(c.state) = "Deleting"
        BY <2>4, <2>7 DEF Stage
      <3>2. Contract!MarkDeleting
        BY <2>2, <2>5, <2>6, <2>7, <3>1
           DEF Contract!MarkDeleting, Contract!Present, Contract!Absent, o
      <3> QED
        BY <3>2 DEF Contract!Operator
    <2>8. CASE ~o.deleting
      <3>1. Stage(c.state) \in {"Working", "Done"}
        BY <2>4, <2>8 DEF Stage
      <3>2. Contract!Report(Stage(c.state))
        BY <2>2, <2>5, <2>6, <2>8 DEF Contract!Report, Contract!Present, Contract!Absent, o
      <3> QED
        BY <3>1, <3>2 DEF Contract!Operator
    <2> QED
      BY <2>7, <2>8
  <1>2. CASE RecordCreds
    <2>1. /\ rec # None /\ rec.fresh /\ rec.phase = "creds" /\ o # None
          /\ c \in MD /\ c.spec = o.spec /\ c.deleting = o.deleting /\ c.state = o.state
      BY <1>2, ObjectTypes DEF RecordCreds, At, IInv, FreshIsCurrent, StatusFits
    <2> DEFINE dated == [c EXCEPT !.creds = TRUE]
    <2>2. /\ dated \in MD /\ dated.spec = c.spec /\ dated.deleting = c.deleting
          /\ dated.state = c.state
      BY <2>1 DEF MD
    <2>3. md'.now = dated
      BY <1>2, <2>2, ResourceWritten DEF RecordCreds
    <2> HIDE DEF dated
    <2>4. View(dated) = View(o)
      BY <2>1, <2>2, ViewOfResource, ObjectTypes
    <2> QED
      BY <2>3, <2>4
  <1>3. CASE CollectResource
    <2>1. o \in MD /\ o.deleting /\ md'.now = None
      BY <1>3, ObjectTypes, ResourceWritten DEF CollectResource
    <2>2. View(o).deleting = o.deleting /\ View(o) # [stage |-> "Absent"]
      BY <2>1, ViewOfResource
    <2>3. Contract!Collect
      BY <2>1, <2>2 DEF Contract!Collect, Contract!Present, Contract!Absent, View
    <2> QED
      BY <2>3 DEF Contract!Operator
  <1>4. CASE ~UpdateStatus /\ ~RecordCreds /\ ~CollectResource
    BY <1>4, ResourceStays, ClusterStands
  <1> QED
    BY <1>1, <1>2, <1>3, <1>4

\* The operator of deployments keeps its contract with the system controller, for every
\* setup: whichever caches are late and whatever credentials it has to renew.
THEOREM ContractKept == Spec => KeepsContract
PROOF
  <1>1. Init => Contract!Init /\ StatusFits
    BY DEF Init, Absent, Contract!Init, Contract!Absent, View, StatusFits
  <1>2. IInv /\ StatusFits /\ [Next]_vars => [Contract!Next]_(View(md.now))
    <2> SUFFICES ASSUME IInv, StatusFits, [Next]_vars
                 PROVE  Contract!Next \/ UNCHANGED View(md.now)
      OBVIOUS
    <2>1. CASE UNCHANGED vars
      BY <2>1 DEF vars, cluster, View
    <2> QED
      BY <2>1, ControllerSteps, OperatorSteps DEF Next, Contract!Next
  <1> QED
    BY <1>1, <1>2, StatusNext, InvariantHolds, PTL DEF Spec, KeepsContract, Contract!Spec

-----------------------------------------------------------------------------
(* What is left behind                                                     *)

Collected == NothingStrays /\ OwnerIsThere

\* A step that leaves the resource alone and writes one child: the child is there before,
\* or it becomes an orphan unless the reconcile has the resource that is there.
LEMMA ChildWritten ==
  ASSUME Collected, NEW y \in Children, md'.now = md.now,
         orphans' \in {orphans, orphans \ {y}, OwnedBy(y)},
         \A x \in Children \ {y} : Exists(x)' = Exists(x),
         Exists(y)' => \/ orphans' = orphans /\ Exists(y)
                       \/ rec # None /\ orphans' = OwnedBy(y),
         rec' = None \/ (rec # None /\ (rec'.owned => rec.owned))
  PROVE  Collected'
PROOF
  <1>1. OwnerIsThere'
    BY DEF Collected, OwnerIsThere
  <1>2. ASSUME md.now = None, NEW x \in Children, Exists(x)' PROVE x \in orphans'
    <2>1. CASE x # y
      BY <1>2, <2>1 DEF Collected, NothingStrays, OwnedBy
    <2>2. CASE x = y
      BY <1>2, <2>2 DEF Collected, NothingStrays, OwnerIsThere, OwnedBy
    <2> QED
      BY <2>1, <2>2
  <1> QED
    BY <1>1, <1>2 DEF Collected, NothingStrays

\* A step that leaves the objects alone, and what a reconcile knows of its resource.
LEMMA NothingWritten ==
  ASSUME Collected, md'.now = md.now, cm'.now = cm.now, secret'.now = secret.now,
         ks'.now = ks.now, orphans' = orphans,
         rec' = None \/ (rec # None /\ (rec'.owned => rec.owned))
  PROVE  Collected'
PROOF
  BY DEF Collected, NothingStrays, OwnerIsThere, Exists

LEMMA StrayNext ==
  ASSUME IInv, Collected, [Next]_vars
  PROVE  Collected'
PROOF
  <1>t. /\ md \in Store(MD) /\ cm \in Store(Roles)
        /\ secret \in Store(Passwords) /\ ks \in Store(KService)
    BY DEF IInv, TypeOK
  <1>n. {"cm", "secret", "ks"} = Children
    BY DEF Children
  \* Where a reconcile goes it takes its owner along.
  <1>g. ASSUME NEW phase \in Phases, rec # None, Goto(phase)
        PROVE  rec' # None /\ rec'.owned = rec.owned
    BY <1>g, ObjectTypes DEF Goto, Rec
  <1>1. ASSUME \/ \E s \in MDSpec : Declare(s) \/ Edit(s)
               \/ Remove \/ RecordCreds \/ UpdateStatus
        PROVE  Collected'
    <2>1. \A x \in MD : Put(Late("md"), md, x).now # None
      BY ResourceWritten, PutType, ObjectTypes, <1>t
    <2>2. md'.now # None
      <3>1. \A s \in MDSpec : [spec |-> s, state |-> "", deleting |-> FALSE,
                               creds |-> FALSE, meta |-> FALSE] \in MD
        BY DEF MD, States
      <3>2. md.now # None => /\ [md.now EXCEPT !.deleting = TRUE] \in MD
                             /\ \A s \in MDSpec : [md.now EXCEPT !.spec = s] \in MD
        BY ObjectTypes DEF MD
      <3>3. rec # None => rec.md \in MD /\ [rec.md EXCEPT !.creds = TRUE] \in MD
        BY ObjectTypes DEF MD
      <3> QED
        BY <1>1, <2>1, <3>1, <3>2, <3>3 DEF Declare, Edit, Remove, RecordCreds, UpdateStatus, At
    <2> QED
      BY <2>2 DEF Collected, NothingStrays, OwnerIsThere
  <1>2. CASE CollectResource
    <2>1. /\ UNCHANGED <<cm, secret, ks, orphans>>
          /\ \A x \in Children \ orphans : ~Exists(x)
      BY <1>2 DEF CollectResource, children
    <2>2. rec' = None \/ ~rec'.owned
      BY <1>2, ObjectTypes DEF CollectResource, Rec
    <2>3. \A x \in Children : Exists(x)' = Exists(x)
      BY <2>1 DEF Exists
    <2> QED
      BY <2>1, <2>2, <2>3 DEF Collected, NothingStrays, OwnerIsThere
  <1>3. CASE Begin
    <2>1. rec'.owned = (md.now # None)
      BY <1>3 DEF Begin
    <2> QED
      BY <1>3, <2>1 DEF Begin, cluster, children, Collected, NothingStrays, OwnerIsThere, Exists
  <1>4. CASE ReconcilePolicyCM
    <2>1. rec # None /\ rec' # None /\ rec'.owned = rec.owned
      BY <1>4, <1>g DEF ReconcilePolicyCM, At, Phases
    <2>2. \A x \in Children \ {"cm"} : Exists(x)' = Exists(x)
      BY <1>4 DEF ReconcilePolicyCM, Exists, Children
    <2>3. CASE rec.md.spec.role = None
      <3>1. cm'.now = None /\ orphans' = orphans \ {"cm"}
        BY <1>4, <1>t, <2>3, PutType, ObjectTypes DEF ReconcilePolicyCM
      <3> QED
        BY <1>4, <1>n, <2>1, <2>2, <3>1, ChildWritten DEF ReconcilePolicyCM, Exists
    <2>4. CASE rec.md.spec.role # None
      <3>1. (cm' = cm /\ orphans' = orphans) \/ orphans' = OwnedBy("cm")
        BY <1>4, <2>4 DEF ReconcilePolicyCM
      <3> QED
        BY <1>4, <1>n, <2>1, <2>2, <3>1, ChildWritten DEF ReconcilePolicyCM, Exists
    <2> QED
      BY <2>3, <2>4
  <1>5. CASE ReconcilePullConnection
    <2>1. rec # None /\ rec' # None /\ rec'.owned = rec.owned
      BY <1>5, <1>g DEF ReconcilePullConnection, At, Phases
    <2>2. \A x \in Children \ {"secret"} : Exists(x)' = Exists(x)
      BY <1>5 DEF ReconcilePullConnection, Exists, Children
    <2>3. \/ secret' = secret /\ orphans' = orphans
          \/ orphans' = OwnedBy("secret")
          \/ orphans' = orphans /\ secret.now # None
      BY <1>5 DEF ReconcilePullConnection
    <2> QED
      BY <1>5, <1>n, <2>1, <2>2, <2>3, ChildWritten DEF ReconcilePullConnection, Exists
  <1>6. CASE ReconcileKnativeService
    <2>1. rec # None /\ rec' # None /\ rec'.owned = rec.owned
      BY <1>6, <1>g DEF ReconcileKnativeService, At, Phases
    <2>2. \A x \in Children \ {"ks"} : Exists(x)' = Exists(x)
      BY <1>6 DEF ReconcileKnativeService, Exists, Children
    <2>3. \/ ks' = ks /\ orphans' = orphans
          \/ orphans' = OwnedBy("ks")
          \/ orphans' = orphans /\ ks.now # None
      BY <1>6 DEF ReconcileKnativeService
    <2> QED
      BY <1>6, <1>n, <2>1, <2>2, <2>3, ChildWritten DEF ReconcileKnativeService, Exists
  <1>7. ASSUME NEW y \in Children, Collect(y) PROVE Collected'
    <2>1. orphans' = orphans \ {y} /\ md' = md /\ rec' = rec
      BY <1>7 DEF Collect
    <2>2. ~Exists(y)'
      <3>1. /\ Put(Late("cm"), cm, None).now = None
            /\ Put(Late("secret"), secret, None).now = None
            /\ Put(Late("ks"), ks, None).now = None
        BY <1>t, PutType
      <3> QED
        BY <1>7, <3>1 DEF Collect, Exists, Children
    <2>3. \A x \in Children \ {y} : Exists(x)' = Exists(x)
      BY <1>7 DEF Collect, Exists, Children
    <2> QED
      BY <2>1, <2>2, <2>3, ChildWritten, NothingWritten DEF Collected, NothingStrays, OwnerIsThere
  <1>8. ASSUME (\E x \in {"md", "ks", "cm", "secret"} : Observe(x)) \/ Restart
        PROVE  Collected'
    <2>1. /\ md'.now = md.now /\ cm'.now = cm.now /\ secret'.now = secret.now
          /\ ks'.now = ks.now /\ orphans' = orphans
      BY <1>8, <1>t, RefreshType DEF Observe, Restart
    <2>2. rec' = None \/ rec' = rec
      BY <1>8 DEF Observe, Restart
    <2> QED
      BY <2>1, <2>2, NothingWritten
  <1>9. CASE KnativeReports
    <2>1. /\ ks.now # None /\ UNCHANGED <<md, cm, secret, orphans, rec>>
      BY <1>9 DEF KnativeReports
    <2> QED
      BY <2>1 DEF Collected, NothingStrays, OwnerIsThere, Exists, Children
  <1>10. ASSUME NEW state, NEW meta, rec # None, Conclude(state, meta)
         PROVE  Collected'
    <2>1. rec'.owned = rec.owned /\ rec' = [rec EXCEPT !.phase = "write", !.md.state = state, !.md.meta = meta]
      BY <1>10, ObjectTypes DEF Conclude, Rec
    <2> QED
      BY <1>10, <2>1, NothingWritten DEF Conclude, cluster, children
  <1>11. CASE JudgeNotReady \/ Inspect \/ JudgeReady
    BY <1>10, <1>11 DEF JudgeNotReady, Inspect, JudgeReady, At
  <1>12. CASE Ignore \/ LoseStatus \/ Fail \/ PullFails \/ Requeue \/ UNCHANGED vars
    BY <1>12, NothingWritten
    DEF Ignore, LoseStatus, Fail, PullFails, Requeue, vars, cluster, children
  <1>13. ASSUME NEW x, PodsChange(x) \/ Rotate(x) PROVE Collected'
    BY <1>13, NothingWritten DEF PodsChange, Rotate, children
  <1> QED
    BY <1>1, <1>2, <1>3, <1>4, <1>5, <1>6, <1>7, <1>8, <1>9, <1>11, <1>12, <1>13
    DEF Next, Operator, Work, Cluster

\* Whatever a reconcile creates when its resource is gone already, the garbage collector
\* takes: nothing a deployment leaves behind stays for ever (SetControllerReference).
THEOREM ChildrenAreCollected == Spec => []NothingStrays
PROOF
  <1>1. Init => Collected
    BY DEF Init, Absent, Collected, NothingStrays, OwnerIsThere, Exists, Children
  <1>2. Collected => NothingStrays
    BY DEF Collected
  <1> QED
    BY <1>1, <1>2, StrayNext, InvariantHolds, PTL DEF Spec

=============================================================================
