------------------------- MODULE RouteOperatorProofs -------------------------
(***************************************************************************)
(* Proofs about RouteOperator for any deployments, hosts and wishes, and   *)
(* whether or not states get lost.                                         *)
(***************************************************************************)
EXTENDS RouteOperatorProps, TLAPS

-----------------------------------------------------------------------------
(* Versions                                                                *)

\* Four versions are enough: one is always free, so that a new version differs from
\* all that are compared with it.
LEMMA NewVersionIsNew ==
  NewVersion \in Versions /\ NewVersion \notin Held
PROOF
  <1> DEFINE a == IF route = None THEN 0 ELSE route.version
             b == IF vs = None THEN 0 ELSE vs.version
             c == IF rec = None THEN 0 ELSE rec.route.version
  <1>1. Held \subseteq {a, b, c}
    BY DEF Held
  <1> HIDE DEF a, b, c
  <1>2. \E v \in 1..4 : v # a /\ v # b /\ v # c
    OBVIOUS
  <1>3. \E v \in Versions : v \notin Held
    BY <1>1, <1>2 DEF Versions
  <1> QED
    BY <1>3 DEF NewVersion

\* What that says of the three that hold a version.
LEMMA NewVersionDiffers ==
  /\ route # None => NewVersion # route.version
  /\ vs # None => NewVersion # vs.version
  /\ rec # None => NewVersion # rec.route.version
PROOF
  BY NewVersionIsNew DEF Held

-----------------------------------------------------------------------------
(* Types                                                                   *)

LEMMA ObjectTypes ==
  ASSUME IInv
  PROVE  /\ None \notin Route \cup Deployment \cup VirtualService \cup Rec \cup Deployments
         /\ route # None => /\ route \in Route /\ route.spec \in RouteSpec
                            /\ route.spec.targets \subseteq Deployments
                            /\ route.version \in Versions
         /\ vs # None => vs \in VirtualService
         /\ rec # None =>
              /\ rec \in Rec /\ rec.route \in Route /\ rec.route.spec \in RouteSpec
              /\ rec.route.spec.targets \subseteq Deployments
              /\ rec.route.spec.mirror \in Deployments \cup {None}
              /\ rec.route.version \in Versions /\ rec.found \in Targets
              /\ rec.mirror \in Deployments \cup {None} /\ rec.owned \in BOOLEAN
PROOF
  <1>1. route \in Route \cup {None} /\ vs \in VirtualService \cup {None} /\ rec \in Rec \cup {None}
    BY DEF IInv, TypeOK
  <1>2. rec # None => rec \in Rec /\ rec.route \in Route
    BY <1>1 DEF Rec
  <1>3. rec # None => /\ rec.route.spec \in RouteSpec /\ rec.route.version \in Versions
                      /\ rec.found \in Targets
                      /\ rec.mirror \in Deployments \cup {None} /\ rec.owned \in BOOLEAN
    BY <1>2 DEF Rec, Route
  <1>4. rec # None => /\ rec.route.spec.targets \subseteq Deployments
                      /\ rec.route.spec.mirror \in Deployments \cup {None}
    BY <1>3 DEF RouteSpec
  <1>5. route # None => /\ route \in Route /\ route.spec \in RouteSpec
                        /\ route.spec.targets \subseteq Deployments
                        /\ route.version \in Versions
    BY <1>1 DEF Route, RouteSpec
  <1> QED
    BY <1>1, <1>2, <1>3, <1>4, <1>5, RouteAssumption

\* Targets are added one by one.
LEMMA TargetsGrow ==
  ASSUME NEW f \in Targets, NEW d \in Deployments, NEW h \in Hosts
  PROVE  [x \in DOMAIN f \cup {d} |-> IF x = d THEN h ELSE f[x]] \in Targets
PROOF
  <1>1. PICK S \in SUBSET Deployments : f \in [S -> Hosts]
    BY DEF Targets
  <1>2. [x \in DOMAIN f \cup {d} |-> IF x = d THEN h ELSE f[x]] \in [S \cup {d} -> Hosts]
    BY <1>1
  <1> QED
    BY <1>1, <1>2 DEF Targets

LEMMA NoTargets == [d \in {} |-> None] \in Targets /\ DOMAIN [d \in {} |-> None] = {}
PROOF
  <1>1. [d \in {} |-> None] \in [{} -> Hosts]
    OBVIOUS
  <1> QED
    BY <1>1 DEF Targets

-----------------------------------------------------------------------------
(* Users                                                                   *)

\* A route that a user writes has a version nobody else holds.
LEMMA UserKeeps ==
  ASSUME IInv, NEW r \in Route, r.version = NewVersion,
         route' = r, rec' = Outdated, UNCHANGED <<md, vs>>, Notify
  PROVE  IInv'
PROOF
  <1>1. rec = None => rec' = None
    BY DEF Outdated
  <1>2. rec # None => /\ rec' \in Rec /\ ~rec'.fresh /\ rec'.route = rec.route
                      /\ rec'.found = rec.found /\ rec'.mirror = rec.mirror
    BY ObjectTypes DEF Outdated, Rec
  <1>3. TypeOK'
    BY <1>1, <1>2 DEF Notify, IInv, TypeOK
  <1>4. MarkIsTrue'
    BY NewVersionDiffers DEF MarkIsTrue
  <1>5. VersionsTell'
    BY <1>1, <1>2, NewVersionDiffers, ObjectTypes DEF VersionsTell
  <1>6. FoundFits'
    BY <1>1, <1>2, ObjectTypes DEF IInv, FoundFits
  <1> QED
    BY <1>3, <1>4, <1>5, <1>6 DEF IInv

LEMMA UsersKeep ==
  ASSUME IInv, (\E s \in Wishes : Declare(s) \/ Edit(s)) \/ Remove
  PROVE  IInv'
PROOF
  <1>1. ASSUME NEW s \in Wishes, Declare(s) PROVE IInv'
    <2> DEFINE r == [spec |-> s, labels |-> {}, state |-> "", version |-> NewVersion]
    <2>1. r \in Route /\ r.version = NewVersion
      BY NewVersionIsNew, RouteAssumption DEF Route
    <2>2. route' = r /\ rec' = Outdated /\ UNCHANGED <<md, vs>> /\ Notify
      BY <1>1 DEF Declare
    <2> HIDE DEF r
    <2> QED
      BY <2>1, <2>2, UserKeeps
  <1>2. ASSUME NEW s \in Wishes, Edit(s) PROVE IInv'
    <2> DEFINE r == [route EXCEPT !.spec = s, !.version = NewVersion]
    <2>1. r \in Route /\ r.version = NewVersion
      BY <1>2, NewVersionIsNew, RouteAssumption, ObjectTypes DEF Edit, Route
    <2>2. route' = r /\ rec' = Outdated /\ UNCHANGED <<md, vs>> /\ Notify
      BY <1>2 DEF Edit
    <2> HIDE DEF r
    <2> QED
      BY <2>1, <2>2, UserKeeps
  <1>3. CASE Remove
    <2>1. /\ route' = None /\ UNCHANGED md /\ queued' \in BOOLEAN
          /\ vs' = IF vs = None THEN None ELSE [vs EXCEPT !.owned = FALSE]
          /\ rec' = IF rec = None THEN None ELSE [rec EXCEPT !.fresh = FALSE, !.owned = FALSE]
      BY <1>3 DEF Remove, Notify, IInv, TypeOK
    <2>2. /\ vs = None => vs' = None
          /\ vs # None => /\ vs' \in VirtualService /\ vs'.version = vs.version
                          /\ vs'.targets = vs.targets /\ vs'.mirror = vs.mirror
      BY <2>1, ObjectTypes DEF VirtualService
    <2>3. /\ rec = None => rec' = None
          /\ rec # None => /\ rec' \in Rec /\ ~rec'.fresh /\ rec'.route = rec.route
                           /\ rec'.found = rec.found /\ rec'.mirror = rec.mirror
      BY <2>1, ObjectTypes DEF Rec
    <2>4. TypeOK'
      BY <2>1, <2>2, <2>3 DEF IInv, TypeOK
    <2>5. MarkIsTrue'
      BY <2>1 DEF MarkIsTrue
    <2>6. VersionsTell'
      BY <2>1, <2>3 DEF VersionsTell
    <2>7. FoundFits'
      BY <2>2, <2>3, ObjectTypes DEF IInv, FoundFits
    <2> QED
      BY <2>4, <2>5, <2>6, <2>7 DEF IInv
  <1> QED
    BY <1>1, <1>2, <1>3

-----------------------------------------------------------------------------
(* Reconcile                                                               *)

\* The end of a reconcile, or a step that only queues the name.
LEMMA DropKeeps ==
  ASSUME IInv, rec' = None \/ rec' = rec, queued' \in BOOLEAN, UNCHANGED <<route, vs>>,
         md' \in [Deployments -> Deployment \cup {None}]
  PROVE  IInv'
PROOF
  BY DEF IInv, TypeOK, MarkIsTrue, VersionsTell, FoundFits

LEMMA BeginKeeps ==
  ASSUME IInv, Begin
  PROVE  IInv'
PROOF
  <1>1. /\ route # None /\ UNCHANGED <<route, md, vs>> /\ queued' = FALSE
        /\ rec' = [route |-> route, phase |-> "labels", fresh |-> TRUE, owned |-> TRUE,
                   read |-> {}, found |-> [d \in {} |-> None], mirror |-> None, again |-> FALSE]
    BY DEF Begin
  <1>2. rec' \in Rec
    BY <1>1, NoTargets, ObjectTypes DEF Rec, Phases
  <1>3. /\ rec'.route = route /\ rec'.mirror = None /\ DOMAIN rec'.found = {}
    BY <1>1, NoTargets
  <1>4. TypeOK'
    BY <1>1, <1>2 DEF IInv, TypeOK
  <1>5. MarkIsTrue'
    BY <1>1 DEF IInv, MarkIsTrue
  <1>6. VersionsTell'
    BY <1>1, <1>3 DEF VersionsTell
  <1>7. FoundFits'
    BY <1>1, <1>3 DEF IInv, MarkIsTrue, FoundFits, MadeFor
  <1> QED
    BY <1>4, <1>5, <1>6, <1>7 DEF IInv

\* What an update of the route writes that has changed nothing but labels or state.
LEMMA WrittenFacts ==
  ASSUME IInv, rec # None, rec.fresh, NEW r \in Route, r.spec = rec.route.spec
  PROVE  /\ Written(r) \in Route /\ Written(r).spec = route.spec
         /\ Written(r) = route \/ Written(r).version = NewVersion
PROOF
  <1>1. route # None /\ route \in Route /\ rec.route = route
    BY ObjectTypes DEF IInv, VersionsTell
  <1>2. [r EXCEPT !.version = NewVersion] \in Route
        /\ [r EXCEPT !.version = NewVersion].version = NewVersion
        /\ [r EXCEPT !.version = NewVersion].spec = r.spec
    BY NewVersionIsNew DEF Route
  <1> QED
    BY <1>1, <1>2 DEF Written

LEMMA LabelsKeep ==
  ASSUME IInv, SetLabels
  PROVE  IInv'
PROOF
  <1> DEFINE labelled == [rec.route EXCEPT !.labels = rec.route.spec.targets]
  <1>1. rec # None /\ UNCHANGED <<md, vs>> /\ queued' \in BOOLEAN
    BY DEF SetLabels, At, Notify, IInv, TypeOK
  <1>2. rec \in Rec
    BY <1>1, ObjectTypes
  <1>3. labelled \in Route /\ labelled.spec = rec.route.spec
    BY <1>1, ObjectTypes DEF Route
  <1>4. CASE labelled = rec.route
    <2>1. rec' = [rec EXCEPT !.phase = "targets"] /\ route' = route
      BY <1>4 DEF SetLabels
    <2>2. /\ rec' \in Rec /\ rec'.route = rec.route /\ rec'.fresh = rec.fresh
          /\ rec'.found = rec.found /\ rec'.mirror = rec.mirror
      BY <1>2, <2>1 DEF Rec, Phases
    <2> QED
      BY <1>1, <2>1, <2>2, ObjectTypes
      DEF IInv, TypeOK, MarkIsTrue, VersionsTell, FoundFits
  <1>5. CASE labelled # rec.route
    <2>1. /\ rec.fresh /\ route' = Written(labelled)
          /\ rec' = [rec EXCEPT !.phase = "targets", !.route = Written(labelled)]
      BY <1>5 DEF SetLabels, Unchanged
    <2> HIDE DEF labelled
    <2>2. /\ route' \in Route /\ route' # None /\ route'.spec = route.spec
          /\ route' = route \/ route'.version = NewVersion
      BY <1>1, <1>3, <2>1, WrittenFacts, ObjectTypes
    <2>3. /\ rec' \in Rec /\ rec' # None /\ rec'.route = route'
          /\ rec'.found = rec.found /\ rec'.mirror = rec.mirror
      BY <1>2, <2>1, <2>2, ObjectTypes DEF Rec, Phases
    <2>4. route # None /\ rec.route = route
      BY <1>1, <2>1 DEF IInv, VersionsTell
    <2>5. TypeOK'
      BY <1>1, <2>2, <2>3 DEF IInv, TypeOK
    <2>6. MarkIsTrue'
      BY <1>1, <2>2, <2>4, NewVersionDiffers DEF IInv, MarkIsTrue, MadeFor
    <2>7. VersionsTell'
      BY <2>2, <2>3 DEF VersionsTell
    <2>8. FoundFits'
      <3>1. MadeFor(rec.route, rec.found, rec.mirror)
        BY <1>1 DEF IInv, FoundFits
      <3>2. MadeFor(route', rec'.found, rec'.mirror)
        BY <2>2, <2>3, <2>4, <3>1 DEF MadeFor
      <3> QED
        BY <2>2, <2>3, <2>6, <3>2 DEF FoundFits, MarkIsTrue
    <2> QED
      BY <2>5, <2>6, <2>7, <2>8 DEF IInv
  <1> QED
    BY <1>4, <1>5

\* Reading changes what is found and nothing else.
LEMMA ReadingKeeps ==
  ASSUME IInv, rec # None, rec' \in Rec,
         rec'.route = rec.route, rec'.fresh = rec.fresh,
         MadeFor(rec.route, rec'.found, rec'.mirror), UNCHANGED <<route, md, vs, queued>>
  PROVE  IInv'
PROOF
  BY ObjectTypes DEF IInv, TypeOK, MarkIsTrue, VersionsTell, FoundFits

LEMMA TargetKeeps ==
  ASSUME IInv, NEW d \in Deployments, ReadTarget(d)
  PROVE  IInv'
PROOF
  <1>1. /\ rec # None /\ d \in rec.route.spec.targets /\ rec \in Rec
        /\ UNCHANGED <<route, md, vs, queued>> /\ rec.read \subseteq Deployments
    BY ObjectTypes DEF ReadTarget, At, Rec
  <1>2. MadeFor(rec.route, rec.found, rec.mirror)
    BY <1>1 DEF IInv, FoundFits
  <1>3. CASE md[d] = None
    <2>1. rec' = [rec EXCEPT !.read = @ \cup {d}, !.again = TRUE]
      BY <1>3 DEF ReadTarget
    <2>2. /\ rec' \in Rec /\ rec'.route = rec.route /\ rec'.fresh = rec.fresh
          /\ rec'.found = rec.found /\ rec'.mirror = rec.mirror
      BY <1>1, <2>1 DEF Rec
    <2> QED
      BY <1>1, <1>2, <2>2, ReadingKeeps
  <1>4. CASE md[d] # None /\ ~md[d].ready
    <2>1. rec' = [rec EXCEPT !.phase = "status", !.again = TRUE]
      BY <1>4 DEF ReadTarget
    <2>2. /\ rec' \in Rec /\ rec'.route = rec.route /\ rec'.fresh = rec.fresh
          /\ rec'.found = rec.found /\ rec'.mirror = rec.mirror
      BY <1>1, <2>1 DEF Rec, Phases
    <2> QED
      BY <1>1, <1>2, <2>2, ReadingKeeps
  <1>5. CASE md[d] # None /\ md[d].ready
    <2> DEFINE found == [x \in DOMAIN rec.found \cup {d} |->
                           IF x = d THEN md[d].host ELSE rec.found[x]]
    <2>1. rec' = [rec EXCEPT !.read = @ \cup {d}, !.found = found]
      BY <1>5 DEF ReadTarget
    <2>2. found \in Targets /\ DOMAIN found = DOMAIN rec.found \cup {d}
      <3>1. md[d].host \in Hosts /\ rec.found \in Targets
        BY <1>1, <1>5, ObjectTypes DEF IInv, TypeOK, Deployment
      <3> QED
        BY <3>1, TargetsGrow
    <2> HIDE DEF found
    <2>3. /\ rec' \in Rec /\ rec'.route = rec.route /\ rec'.fresh = rec.fresh
          /\ rec'.found = found /\ rec'.mirror = rec.mirror
      BY <1>1, <2>1, <2>2 DEF Rec
    <2>4. MadeFor(rec.route, found, rec.mirror)
      BY <1>1, <1>2, <2>2 DEF MadeFor
    <2> QED
      BY <1>1, <2>3, <2>4, ReadingKeeps
  <1> QED
    BY <1>3, <1>4, <1>5

LEMMA MirrorKeeps ==
  ASSUME IInv, ReadMirror
  PROVE  IInv'
PROOF
  <1>1. /\ rec # None /\ rec \in Rec /\ UNCHANGED <<route, md, vs, queued>>
        /\ rec.route.spec.mirror \in Deployments \cup {None}
    BY ObjectTypes DEF ReadMirror, At
  <1>2. MadeFor(rec.route, rec.found, rec.mirror)
    BY <1>1 DEF IInv, FoundFits
  <1> DEFINE d == rec.route.spec.mirror
             here == d # None /\ md[d] # None /\ md[d].ready
  <1>3. CASE DOMAIN rec.found = {}
    <2>1. rec' = [rec EXCEPT !.phase = "status"]
      BY <1>3 DEF ReadMirror
    <2>2. /\ rec' \in Rec /\ rec'.route = rec.route /\ rec'.fresh = rec.fresh
          /\ rec'.found = rec.found /\ rec'.mirror = rec.mirror
      BY <1>1, <2>1 DEF Rec, Phases
    <2> QED
      BY <1>1, <1>2, <2>2, ReadingKeeps
  <1>4. CASE DOMAIN rec.found # {}
    <2> DEFINE mirror == IF here THEN d ELSE None
               again == rec.again \/ (d # None /\ ~here)
    <2>1. rec' = [rec EXCEPT !.phase = "service", !.mirror = mirror, !.again = again]
      BY <1>4 DEF ReadMirror
    <2>2. mirror \in {d, None} /\ mirror \in Deployments \cup {None}
      BY <1>1
    <2>3. again \in BOOLEAN
      <3>1. here \in BOOLEAN
        <4>1. md[d] # None /\ d # None => md[d].ready \in BOOLEAN
          BY <1>1 DEF IInv, TypeOK, Deployment
        <4> QED
          BY <4>1
      <3>2. rec.again \in BOOLEAN
        BY <1>1 DEF Rec
      <3> HIDE DEF here
      <3> QED
        BY <3>1, <3>2
    <2> HIDE DEF mirror, again
    <2>4. /\ rec' \in Rec /\ rec'.route = rec.route /\ rec'.fresh = rec.fresh
          /\ rec'.found = rec.found /\ rec'.mirror = mirror
      BY <1>1, <2>1, <2>2, <2>3 DEF Rec, Phases
    <2> QED
      BY <1>1, <1>2, <2>2, <2>4, ReadingKeeps DEF MadeFor
  <1> QED
    BY <1>3, <1>4

LEMMA ServiceKeeps ==
  ASSUME IInv, ReconcileVirtualService
  PROVE  IInv'
PROOF
  <1>1. /\ rec # None /\ rec \in Rec /\ UNCHANGED <<route, md>> /\ queued' \in BOOLEAN
        /\ rec' = [rec EXCEPT !.phase = "status"]
    BY ObjectTypes DEF ReconcileVirtualService, At, Notify, IInv, TypeOK
  <1>2. /\ rec' \in Rec /\ rec' # None /\ rec'.route = rec.route /\ rec'.fresh = rec.fresh
        /\ rec'.found = rec.found /\ rec'.mirror = rec.mirror
    BY <1>1, ObjectTypes DEF Rec, Phases
  <1>3. /\ Made \in VirtualService /\ Made.version = rec.route.version
        /\ Made.targets = rec.found /\ Made.mirror = rec.mirror
    BY <1>1, ObjectTypes DEF Made, VirtualService
  <1>4. \/ vs # None /\ vs' = vs
        \/ /\ vs' \in VirtualService /\ vs' # None /\ vs'.version = rec.route.version
           /\ vs'.targets = rec.found /\ vs'.mirror = rec.mirror
    <2>1. vs # None => vs.owned \in BOOLEAN
      BY ObjectTypes DEF VirtualService
    <2>2. vs # None =>
            LET made == [Made EXCEPT !.owned = vs.owned] IN
              /\ made \in VirtualService /\ made.version = rec.route.version
              /\ made.targets = rec.found /\ made.mirror = rec.mirror
      BY <1>3, <2>1 DEF VirtualService
    <2> QED
      BY <1>3, <2>2, ObjectTypes DEF ReconcileVirtualService
  <1>5. MadeFor(rec.route, rec.found, rec.mirror)
    BY <1>1 DEF IInv, FoundFits
  <1>6. TypeOK'
    BY <1>1, <1>2, <1>4 DEF IInv, TypeOK
  <1>7. MarkIsTrue'
    BY <1>1, <1>4, <1>5 DEF IInv, MarkIsTrue, VersionsTell
  <1>8. VersionsTell'
    BY <1>1, <1>2 DEF IInv, VersionsTell
  <1>9. FoundFits'
    BY <1>1, <1>2, <1>4, <1>5 DEF IInv, FoundFits
  <1> QED
    BY <1>6, <1>7, <1>8, <1>9 DEF IInv

LEMMA StatusKeeps ==
  ASSUME IInv, UpdateStatus
  PROVE  IInv'
PROOF
  <1> DEFINE r == [rec.route EXCEPT !.state = Verdict]
  <1>1. /\ rec # None /\ rec.fresh /\ rec' = None /\ UNCHANGED <<md, vs>> /\ queued' \in BOOLEAN
        /\ route' = Written(r)
    BY DEF UpdateStatus, Unchanged, At, Notify, IInv, TypeOK
  <1>2. r \in Route /\ r.spec = rec.route.spec
    BY <1>1, ObjectTypes DEF Verdict, Route
  <1> HIDE DEF r
  <1>3. /\ route' \in Route /\ route'.spec = route.spec
        /\ route' = route \/ route'.version = NewVersion
    BY <1>1, <1>2, WrittenFacts
  <1>4. route # None
    BY <1>1 DEF IInv, VersionsTell
  <1>5. TypeOK'
    BY <1>1, <1>3 DEF IInv, TypeOK
  <1>6. MarkIsTrue'
    BY <1>1, <1>3, <1>4, NewVersionDiffers DEF IInv, MarkIsTrue
  <1> QED
    BY <1>1, <1>5, <1>6 DEF IInv, VersionsTell, FoundFits

LEMMA OperatorKeeps ==
  ASSUME IInv, Operator
  PROVE  IInv'
PROOF
  <1>1. CASE Ignore \/ LoseStatus \/ Fail \/ Requeue \/ Restart
    <2>1. rec' = None \/ rec' = rec
      BY <1>1 DEF Ignore, LoseStatus, Fail, Requeue, Restart, IInv, TypeOK
    <2>2. queued' \in BOOLEAN /\ UNCHANGED <<route, vs>>
          /\ md' \in [Deployments -> Deployment \cup {None}]
      BY <1>1 DEF Ignore, LoseStatus, Fail, Requeue, Restart, IInv, TypeOK
    <2> QED
      BY <2>1, <2>2, DropKeeps
  <1>2. CASE Begin
    BY <1>2, BeginKeeps
  <1>3. CASE SetLabels
    BY <1>3, LabelsKeep
  <1>4. ASSUME NEW d \in Deployments, ReadTarget(d) PROVE IInv'
    BY <1>4, TargetKeeps
  <1>5. CASE ReadMirror
    BY <1>5, MirrorKeeps
  <1>6. CASE ReconcileVirtualService
    BY <1>6, ServiceKeeps
  <1>7. CASE UpdateStatus
    BY <1>7, StatusKeeps
  <1> QED
    BY <1>1, <1>2, <1>3, <1>4, <1>5, <1>6, <1>7 DEF Operator, Work

-----------------------------------------------------------------------------
(* The deployments and the garbage collector                               *)

LEMMA DeploymentKeeps ==
  ASSUME IInv, NEW d \in Deployments, DeploymentStep(d)
  PROVE  IInv'
PROOF
  <1>1. PICK x \in Deployment \cup {None} : DeploymentChanges(d, x)
    <2>1. \A h \in Hosts : [ready |-> FALSE, host |-> h] \in Deployment
      BY DEF Deployment
    <2>2. md[d] # None => \A r \in BOOLEAN : [md[d] EXCEPT !.ready = r] \in Deployment
      BY DEF IInv, TypeOK, Deployment
    <2> QED
      BY <2>1, <2>2 DEF DeploymentStep
  <1>2. /\ md' \in [Deployments -> Deployment \cup {None}]
        /\ UNCHANGED <<route, vs, rec>> /\ queued' \in BOOLEAN
    BY <1>1 DEF DeploymentChanges, IInv, TypeOK
  <1> QED
    BY <1>2, DropKeeps

LEMMA CollectKeeps ==
  ASSUME IInv, CollectVirtualService
  PROVE  IInv'
PROOF
  <1>1. vs' = None /\ UNCHANGED <<route, md, rec>> /\ queued' \in BOOLEAN
    BY DEF CollectVirtualService, Notify, IInv, TypeOK
  <1> QED
    BY <1>1 DEF IInv, TypeOK, MarkIsTrue, VersionsTell, FoundFits

-----------------------------------------------------------------------------
(* Theorems                                                                *)

\* The invariant holds of every behaviour of users, operator, deployments and collector.
THEOREM InvariantHolds == Spec => []IInv
PROOF
  <1>1. Init => IInv
    BY DEF Init, IInv, TypeOK, MarkIsTrue, VersionsTell, FoundFits
  <1>2. IInv /\ [Next]_vars => IInv'
    <2> SUFFICES ASSUME IInv, [Next]_vars PROVE IInv'
      OBVIOUS
    <2>1. CASE UNCHANGED vars
      BY <2>1 DEF vars, IInv, TypeOK, MarkIsTrue, VersionsTell, FoundFits
    <2>2. CASE Next
      BY <2>2, UsersKeep, OperatorKeeps, DeploymentKeeps, CollectKeeps DEF Next
    <2> QED
      BY <2>1, <2>2
  <1> QED
    BY <1>1, <1>2, PTL DEF Spec

\* The objects and the local variables have their types.
THEOREM TypeCorrect == Spec => []TypeOK
PROOF
  <1>1. IInv => TypeOK
    BY DEF IInv
  <1> QED
    BY <1>1, InvariantHolds, PTL

\* A virtual service that is left alone was made for the route as it is, for any number
\* of targets and however many routes have had the name (ModelRouteVersionKey).
THEOREM MarksAreTrue == Spec => []MarkIsTrue
PROOF
  <1>1. IInv => MarkIsTrue
    BY DEF IInv
  <1> QED
    BY <1>1, InvariantHolds, PTL

-----------------------------------------------------------------------------
(* Refinement                                                              *)

\* What the contract says of a route that is there.
LEMMA ViewOfRoute ==
  ASSUME NEW r \in Route
  PROVE  /\ View(r) = [spec |-> r.spec, deleting |-> FALSE, stage |-> Stage(r.state)]
         /\ View(r) \in [spec: {r.spec}, deleting: {FALSE}, stage: {Stage(r.state)}]
         /\ View(r) # [stage |-> "Absent"]
PROOF
  <1>1. r # None /\ r.state \in {"", "Processing", "Ready"}
    BY RouteAssumption DEF Route
  <1>2. View(r) = [spec |-> r.spec, deleting |-> FALSE, stage |-> Stage(r.state)]
    BY <1>1 DEF View
  <1>3. Stage(r.state) # "Absent"
    BY <1>1 DEF Stage
  <1>4. View(r).stage # "Absent"
    BY <1>2, <1>3
  <1> QED
    BY <1>2, <1>4

\* An update stores the specification and the state it is given, or finds them there.
LEMMA WrittenStores ==
  ASSUME route \in Route, NEW r \in Route
  PROVE  /\ Written(r) \in Route
         /\ Written(r).spec = r.spec /\ Written(r).state = r.state
PROOF
  <1> DEFINE new == [r EXCEPT !.version = NewVersion]
  <1>1. new \in Route /\ new.spec = r.spec /\ new.state = r.state
    BY NewVersionIsNew DEF Route
  <1>2. ASSUME SameContent(r, route) PROVE route.spec = r.spec /\ route.state = r.state
    <2> DEFINE a == [r EXCEPT !.version = 1]
               b == [route EXCEPT !.version = 1]
    <2>1. a.spec = r.spec /\ a.state = r.state
      BY DEF Route
    <2>2. b.spec = route.spec /\ b.state = route.state
      BY DEF Route
    <2>3. a = b
      BY <1>2 DEF SameContent
    <2> HIDE DEF a, b
    <2> QED
      BY <2>1, <2>2, <2>3
  <1> HIDE DEF new
  <1>3. Written(r) = IF SameContent(r, route) THEN route ELSE new
    BY DEF Written, new
  <1> QED
    BY <1>1, <1>2, <1>3

\* What users do is what the contract lets the controller do.
LEMMA ControllerSteps ==
  ASSUME IInv, Remove \/ \E s \in Wishes : Declare(s) \/ Edit(s)
  PROVE  Contract!Controller
PROOF
  <1>1. ASSUME NEW s \in Wishes, Declare(s) PROVE Contract!Controller
    <2> DEFINE r == [spec |-> s, labels |-> {}, state |-> "", version |-> NewVersion]
    <2>1. r \in Route /\ route = None /\ route' = r
      BY <1>1, NewVersionIsNew, RouteAssumption DEF Declare, Route
    <2>2. View(r) = [spec |-> s, deleting |-> FALSE, stage |-> "Unknown"]
      BY <2>1, ViewOfRoute DEF Stage
    <2> HIDE DEF r
    <2>3. Contract!Create(s)
      BY <2>1, <2>2 DEF Contract!Create, Contract!Present, Contract!Absent, View
    <2> QED
      BY <2>3 DEF Contract!Controller
  <1>2. ASSUME NEW s \in Wishes, Edit(s) PROVE Contract!Controller
    <2> DEFINE o == route
               r == [o EXCEPT !.spec = s, !.version = NewVersion]
    <2>1. o \in Route /\ route' = r
      BY <1>2, ObjectTypes DEF Edit
    <2>2. r \in Route /\ r.spec = s /\ r.state = o.state
      BY <2>1, NewVersionIsNew, RouteAssumption DEF Route
    <2> HIDE DEF r
    <2>3. View(r) \in [spec: {s}, deleting: {FALSE}, stage: {Stage(o.state)}]
      BY <2>2, ViewOfRoute
    <2> HIDE DEF o
    <2>4. View(r) = [View(o) EXCEPT !.spec = s, !.stage = View(o).stage]
      BY <2>1, <2>3, ViewOfRoute
    <2>5. Contract!Update(s)
      BY <2>1, <2>4, ViewOfRoute
         DEF Contract!Update, Contract!Present, Contract!Absent, o
    <2> QED
      BY <2>5 DEF Contract!Controller
  <1>3. CASE Remove
    <2>1. route \in Route /\ route' = None
      BY <1>3, ObjectTypes DEF Remove
    <2>2. Contract!Delete
      BY <2>1, ViewOfRoute DEF Contract!Delete, Contract!Present, Contract!Absent, View
    <2> QED
      BY <2>2 DEF Contract!Controller
  <1> QED
    BY <1>1, <1>2, <1>3

\* What the operator does is what the contract lets the operator do.
LEMMA OperatorSteps ==
  ASSUME IInv, Operator \/ CollectVirtualService \/ \E d \in Deployments : DeploymentStep(d)
  PROVE  Contract!Operator \/ UNCHANGED View(route)
PROOF
  <1> DEFINE o == route
  <1>1. CASE UpdateStatus
    <2> DEFINE r == [rec.route EXCEPT !.state = Verdict]
    <2>1. rec # None /\ o \in Route /\ rec.route = o /\ route' = Written(r)
      BY <1>1, ObjectTypes DEF UpdateStatus, Unchanged, At, IInv, VersionsTell
    <2>2. Verdict \in {"Processing", "Ready"}
      BY DEF Verdict
    <2>3. r \in Route /\ r.spec = o.spec /\ r.state = Verdict
      BY <2>1, <2>2 DEF Route
    <2> HIDE DEF r
    <2>4. Written(r) \in Route /\ Written(r).spec = o.spec /\ Written(r).state = Verdict
      BY <2>1, <2>3, WrittenStores
    <2>5. View(route') \in [spec: {o.spec}, deleting: {FALSE}, stage: {Stage(Verdict)}]
      BY <2>1, <2>4, ViewOfRoute
    <2>6. View(o).deleting = FALSE /\ View(o) # [stage |-> "Absent"]
      BY <2>1, ViewOfRoute
    <2> HIDE DEF o
    <2>7. View(route') = [View(o) EXCEPT !.stage = Stage(Verdict)]
      BY <2>1, <2>5, ViewOfRoute
    <2>8. Stage(Verdict) \in {"Working", "Done"}
      BY <2>2 DEF Stage
    <2>9. Contract!Report(Stage(Verdict))
      BY <2>6, <2>7 DEF Contract!Report, Contract!Present, Contract!Absent, o
    <2> QED
      BY <2>8, <2>9 DEF Contract!Operator
  <1>2. CASE SetLabels
    <2> DEFINE labelled == [rec.route EXCEPT !.labels = rec.route.spec.targets]
    <2>1. rec # None /\ (route' = o \/ (rec.fresh /\ route' = Written(labelled)))
      BY <1>2 DEF SetLabels, At, Unchanged
    <2>2. CASE rec.fresh /\ route' = Written(labelled)
      <3>1. o \in Route /\ rec.route = o /\ o.spec.targets \subseteq Deployments
        BY <2>1, <2>2, ObjectTypes DEF IInv, VersionsTell
      <3>2. labelled \in Route /\ labelled.spec = o.spec /\ labelled.state = o.state
        BY <3>1 DEF Route
      <3> HIDE DEF labelled
      <3>3. route' \in Route /\ route'.spec = o.spec /\ route'.state = o.state
        BY <2>2, <3>1, <3>2, WrittenStores
      <3> QED
        BY <3>1, <3>3, ViewOfRoute
    <2> QED
      BY <2>1, <2>2
  <1>3. CASE ~UpdateStatus /\ ~SetLabels
    <2>1. route' = o
      BY <1>3 DEF Operator, Work, Ignore, Begin, ReadTarget, ReadMirror,
         ReconcileVirtualService, LoseStatus, Fail, Requeue, Restart, CollectVirtualService,
         DeploymentStep, DeploymentChanges
    <2> QED
      BY <2>1
  <1> QED
    BY <1>1, <1>2, <1>3

\* The operator of routes keeps its contract with the system controller, for any number
\* of targets and whether or not states get lost.
THEOREM ContractKept == Spec => KeepsContract
PROOF
  <1>1. Init => Contract!Init
    BY DEF Init, Contract!Init, Contract!Absent, View
  <1>2. IInv /\ [Next]_vars => [Contract!Next]_(View(route))
    <2> SUFFICES ASSUME IInv, [Next]_vars
                 PROVE  Contract!Next \/ UNCHANGED View(route)
      OBVIOUS
    <2>1. CASE UNCHANGED vars
      BY <2>1 DEF vars
    <2> QED
      BY <2>1, ControllerSteps, OperatorSteps DEF Next, Contract!Next
  <1> QED
    BY <1>1, <1>2, InvariantHolds, PTL DEF Spec, KeepsContract, Contract!Spec

-----------------------------------------------------------------------------
(* What is left behind                                                     *)

Collected == NothingStrays /\ OwnerIsThere

\* A step that leaves no route removes the owner of what is there and of what is made.
LEMMA StrayNext ==
  ASSUME IInv, Collected, [Next]_vars
  PROVE  Collected'
PROOF
  <1>1. ASSUME NEW s \in Wishes, Declare(s) \/ Edit(s) PROVE Collected'
    <2>1. route' # None
      <3>1. [spec |-> s, labels |-> {}, state |-> "", version |-> NewVersion] \in Route
        BY NewVersionIsNew, RouteAssumption DEF Route
      <3>2. route # None => [route EXCEPT !.spec = s, !.version = NewVersion] \in Route
        BY NewVersionIsNew, RouteAssumption, ObjectTypes DEF Route
      <3> QED
        BY <1>1, <3>1, <3>2, RouteAssumption DEF Declare, Edit
    <2> QED
      BY <2>1 DEF Collected, NothingStrays, OwnerIsThere
  <1>2. CASE Remove
    <2>1. vs' = None \/ ~vs'.owned
      BY <1>2, ObjectTypes DEF Remove, VirtualService
    <2>2. rec' = None \/ ~rec'.owned
      BY <1>2, ObjectTypes DEF Remove, Rec
    <2> QED
      BY <2>1, <2>2 DEF Collected, NothingStrays, OwnerIsThere
  <1>3. CASE Begin
    BY <1>3 DEF Begin, Collected, NothingStrays, OwnerIsThere
  <1>4. CASE SetLabels \/ UpdateStatus
    <2>1. rec # None /\ vs' = vs /\ (route' = route \/ rec.fresh)
      BY <1>4 DEF SetLabels, UpdateStatus, At, Unchanged
    <2>2. rec' = None \/ rec'.owned = rec.owned
      BY <1>4, <2>1, ObjectTypes DEF SetLabels, UpdateStatus, Rec
    <2>3. rec.fresh => route \in Route
      BY <2>1, ObjectTypes DEF IInv, VersionsTell
    <2>4. rec.fresh => route' # None
      <3>1. route' \in Route \cup {None}
        BY <1>4, LabelsKeep, StatusKeeps DEF IInv, TypeOK
      <3>2. ASSUME rec.fresh, NEW r \in Route, route' = Written(r) PROVE route' # None
        BY <2>3, <3>2, WrittenStores, RouteAssumption
      <3>3. [rec.route EXCEPT !.labels = rec.route.spec.targets] \in Route
            /\ [rec.route EXCEPT !.state = Verdict] \in Route
        BY <2>1, ObjectTypes DEF Route, Verdict
      <3> QED
        BY <1>4, <2>1, <2>3, <3>2, <3>3, RouteAssumption DEF SetLabels, UpdateStatus
    <2> QED
      BY <2>1, <2>2, <2>4 DEF Collected, NothingStrays, OwnerIsThere
  <1>5. CASE (\E d \in Deployments : ReadTarget(d)) \/ ReadMirror
    <2>1. rec # None /\ UNCHANGED <<route, vs>>
      BY <1>5 DEF ReadTarget, ReadMirror, At
    <2>2. rec'.owned = rec.owned
      BY <1>5, <2>1, ObjectTypes DEF ReadTarget, ReadMirror, Rec
    <2> QED
      BY <2>1, <2>2 DEF Collected, NothingStrays, OwnerIsThere
  <1>6. CASE ReconcileVirtualService
    <2>1. rec # None /\ route' = route
      BY <1>6 DEF ReconcileVirtualService, At
    <2>2. rec'.owned = rec.owned
      BY <1>6, <2>1, ObjectTypes DEF ReconcileVirtualService, Rec
    <2>3. Made.owned = rec.owned /\ \A b : [Made EXCEPT !.owned = b].owned = b
      BY DEF Made
    <2>4. vs'.owned => rec.owned \/ (vs # None /\ vs.owned)
      BY <1>6, <2>3 DEF ReconcileVirtualService
    <2> QED
      BY <2>1, <2>2, <2>4 DEF Collected, NothingStrays, OwnerIsThere
  <1>7. CASE Ignore \/ LoseStatus \/ Fail \/ Requeue \/ Restart \/ CollectVirtualService
    BY <1>7 DEF Ignore, LoseStatus, Fail, Requeue, Restart, CollectVirtualService,
       Collected, NothingStrays, OwnerIsThere
  <1>8. CASE (\E d \in Deployments : DeploymentStep(d)) \/ UNCHANGED vars
    BY <1>8 DEF DeploymentStep, DeploymentChanges, vars, Collected, NothingStrays, OwnerIsThere
  <1> QED
    BY <1>1, <1>2, <1>3, <1>4, <1>5, <1>6, <1>7, <1>8 DEF Next, Operator, Work

\* Whatever a reconcile makes when its route is gone already, the garbage collector
\* takes: no virtual service leads traffic for a route that is no more for ever.
THEOREM ChildrenAreCollected == Spec => []NothingStrays
PROOF
  <1>1. Init => Collected
    BY DEF Init, Collected, NothingStrays, OwnerIsThere
  <1>2. Collected => NothingStrays
    BY DEF Collected
  <1> QED
    BY <1>1, <1>2, StrayNext, InvariantHolds, PTL DEF Spec

=============================================================================
