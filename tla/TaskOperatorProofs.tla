------------------------- MODULE TaskOperatorProofs -------------------------
(***************************************************************************)
(* Proofs about the operators of trainings, packagings and batch jobs.     *)
(***************************************************************************)
EXTENDS TaskOperatorProps, TLAPS

-----------------------------------------------------------------------------
(* Stores                                                                  *)

\* A write changes the object; its cache then shows the new version or what it did.
LEMMA PutValue ==
  ASSUME NEW T, NEW store \in Store(T), NEW x \in T \cup {None}, NEW name
  PROVE  /\ Put(name, store, x) \in Store(T)
         /\ Put(name, store, x).now = x
         /\ Put(name, store, x).seen \in {store.seen, x}
<1>1. CASE x = store.now
  BY <1>1 DEF Put, Store
<1>2. CASE x # store.now
  BY <1>2 DEF Put, Store
<1> QED BY <1>1, <1>2

\* A cache catches up with the object and leaves it alone.
LEMMA RefreshValue ==
  ASSUME NEW T, NEW store \in Store(T)
  PROVE  /\ Refresh(store) \in Store(T)
         /\ Refresh(store).now = store.now
         /\ Refresh(store).seen = store.now
BY DEF Refresh, Store

-----------------------------------------------------------------------------
(* Type correctness                                                        *)

\* An operator that has not started has a well-typed state.
LEMMA TypeInit == Init => TypeOK
<1> SUFFICES ASSUME Init PROVE TypeOK
  OBVIOUS
<1>1. ASSUME NEW T PROVE [now |-> None, seen |-> None] \in Store(T)
  BY DEF Store
<1>2. cr \in Store(CR) /\ run \in Store(Run) /\ cm \in Store(Results)
  BY <1>1 DEF Init
<1> QED BY <1>2 DEF Init, TypeOK

\* The reconcile in progress stays one when somebody else writes the resource.
LEMMA OutdatedType ==
  ASSUME rec \in Rec \cup {None}
  PROVE  /\ Outdated \in Rec \cup {None}
         /\ (Outdated # None) <=> (rec # None)
         /\ Outdated # None => /\ Outdated.cr = rec.cr
                               /\ Outdated.phase = rec.phase
                               /\ Outdated.fresh = FALSE
<1>1. CASE rec = None
  BY <1>1 DEF Outdated
<1>2. CASE rec # None
  <2>1. rec \in Rec /\ Outdated = [rec EXCEPT !.fresh = FALSE]
    BY <1>2 DEF Outdated
  <2>2. Outdated \in Rec
    BY <2>1 DEF Rec
  <2>3. Outdated # None
    BY <2>2, AbsentAssumption
  <2> QED BY <1>2, <2>1, <2>2, <2>3 DEF Rec
<1> QED BY <1>1, <1>2

\* Every step of the controller, the operator and the cluster keeps the types.
LEMMA TypeNext == TypeOK /\ [Next]_vars => TypeOK'
<1> SUFFICES ASSUME TypeOK, [Next]_vars PROVE TypeOK'
  OBVIOUS
<1>t. /\ kind \in Kinds
      /\ cr \in Store(CR)
      /\ run \in Store(Run)
      /\ cm \in Store(Results)
      /\ orphans \subseteq {"run", "cm"}
      /\ dying \in BOOLEAN
      /\ rec \in Rec \cup {None}
      /\ queued \in BOOLEAN
  BY DEF TypeOK
<1>n. /\ cr.now \in CR \cup {None} /\ cr.seen \in CR \cup {None}
      /\ run.now \in Run \cup {None} /\ run.seen \in Run \cup {None}
      /\ cm.now \in Results \cup {None} /\ cm.seen \in Results \cup {None}
  BY <1>t DEF Store
<1>q. Notify => queued' \in BOOLEAN
  BY <1>t DEF Notify, Watch
<1>r. run.now # None => run.now \in Run /\ run.now.of \in Specs /\ Terminated \in BOOLEAN
  BY <1>n, <1>t DEF Run, Terminated
<1>1. ASSUME NEW s \in Specs, Declare(s) PROVE TypeOK'
  <2>1. [spec |-> s, state |-> "Unknown"] \in CR
    BY DEF CR, States
  <2>2. cr' \in Store(CR)
    BY <1>1, <1>t, <2>1, PutValue DEF Declare
  <2> QED BY <1>1, <1>t, <1>q, <2>2, OutdatedType DEF Declare, TypeOK
<1>2. ASSUME NEW s \in Specs, Edit(s) PROVE TypeOK'
  <2>1. [spec |-> s, state |-> "Unknown"] \in CR
    BY DEF CR, States
  <2>2. cr' \in Store(CR)
    BY <1>2, <1>t, <2>1, PutValue DEF Edit
  <2> QED BY <1>2, <1>t, <1>q, <2>2, OutdatedType DEF Edit, TypeOK
<1>3. CASE Remove
  <2>1. cr' \in Store(CR)
    BY <1>3, <1>t, PutValue DEF Remove
  <2>2. rec' \in Rec \cup {None}
    BY <1>3, <1>t DEF Remove, Rec
  <2>3. orphans' \subseteq {"run", "cm"}
    BY <1>3 DEF Remove
  <2> QED BY <1>3, <1>t, <1>q, <2>1, <2>2, <2>3 DEF Remove, TypeOK
<1>4. CASE Ignore \/ Fail \/ Resync
  BY <1>4, <1>t DEF Ignore, Fail, Resync, TypeOK
<1>5. CASE Begin
  <2>1. rec' \in Rec
    BY <1>5, <1>n DEF Begin, Rec
  <2> QED BY <1>5, <1>t, <2>1 DEF Begin, TypeOK
<1>6. CASE CreateResultConfigMap
  <2>1. cm' \in Store(Results)
    BY <1>6, <1>t, PutValue DEF CreateResultConfigMap, Results
  <2>2. rec' \in Rec
    BY <1>6, <1>t DEF CreateResultConfigMap, Rec
  <2>3. orphans' \subseteq {"run", "cm"}
    BY <1>6, <1>t DEF CreateResultConfigMap, OwnedBy
  <2> QED BY <1>6, <1>t, <2>1, <2>2, <2>3 DEF CreateResultConfigMap, TypeOK
<1>7. CASE DeleteTaskRun
  <2>1. run' \in Store(Run)
    BY <1>7, <1>t, PutValue DEF DeleteTaskRun
  <2>2. rec' \in Rec
    BY <1>7, <1>t DEF DeleteTaskRun, Rec
  <2>3. orphans' \subseteq {"run", "cm"} /\ dying' \in BOOLEAN
    BY <1>7, <1>t, <1>r DEF DeleteTaskRun
  <2> QED BY <1>7, <1>t, <1>q, <2>1, <2>2, <2>3 DEF DeleteTaskRun, TypeOK
<1>8. CASE CreateTaskRun
  <2>1. [of |-> rec.cr.spec, phase |-> "pending"] \in Run
    BY <1>8, <1>t DEF CreateTaskRun, Rec, CR, Run, Phases
  <2>2. run' \in Store(Run)
    BY <1>8, <1>t, <2>1, PutValue DEF CreateTaskRun
  <2>3. rec' \in Rec
    BY <1>8, <1>t DEF CreateTaskRun, Rec
  <2>4. orphans' \subseteq {"run", "cm"}
    BY <1>8, <1>t DEF CreateTaskRun, OwnedBy
  <2> QED BY <1>8, <1>t, <1>q, <2>2, <2>3, <2>4 DEF CreateTaskRun, TypeOK
<1>9. CASE UpdateStatus
  <2>1. rec \in Rec /\ rec.cr \in CR
    BY <1>9, <1>t DEF UpdateStatus, Rec
  <2>2. Calculated \in States
    <3>1. CASE rec.phase = "created"
      BY <3>1 DEF Calculated, States
    <3>2. CASE rec.phase # "created"
      <4>1. run.seen \in Run
        BY <1>9, <1>n, <3>2 DEF UpdateStatus
      <4>2. run.seen.phase \in Phases /\ rec.cr.state \in States
        BY <2>1, <4>1 DEF Run, CR
      <4> QED BY <3>2, <4>2 DEF Calculated, States, Phases
    <3> QED BY <3>1, <3>2
  <2>3. [rec.cr EXCEPT !.state = Calculated] \in CR
    BY <2>1, <2>2 DEF CR
  <2>4. cr' \in Store(CR)
    BY <1>9, <1>t, <2>3, PutValue DEF UpdateStatus
  <2> QED BY <1>9, <1>t, <1>q, <2>4 DEF UpdateStatus, TypeOK
<1>10. CASE Restart
  BY <1>10, <1>t, RefreshValue DEF Restart, TypeOK
<1>11. CASE ObserveResource \/ ObserveRun \/ ObserveConfigMap
  <2>1. CASE ObserveResource
    BY <2>1, <1>t, <1>q, RefreshValue DEF ObserveResource, TypeOK
  <2>2. CASE ObserveRun
    BY <2>2, <1>t, <1>q, RefreshValue DEF ObserveRun, TypeOK
  <2>3. CASE ObserveConfigMap
    BY <2>3, <1>t, RefreshValue DEF ObserveConfigMap, TypeOK
  <2> QED BY <1>11, <2>1, <2>2, <2>3
<1>12. CASE CollectRun
  <2>1. run' \in Store(Run)
    BY <1>12, <1>t, PutValue DEF CollectRun
  <2>2. dying' \in BOOLEAN
    BY <1>12, <1>r DEF CollectRun
  <2> QED BY <1>12, <1>t, <1>q, <2>1, <2>2 DEF CollectRun, TypeOK
<1>13. CASE CollectConfigMap
  <2>1. cm' \in Store(Results)
    BY <1>13, <1>t, PutValue DEF CollectConfigMap
  <2> QED BY <1>13, <1>t, <2>1 DEF CollectConfigMap, TypeOK
<1>14. ASSUME NEW from, NEW to \in Phases, RunGoes(from, to), cm' \in Store(Results)
       PROVE  TypeOK'
  <2>1. [run.now EXCEPT !.phase = to] \in Run
    BY <1>14, <1>r DEF RunGoes, Run
  <2>2. run' \in Store(Run)
    BY <1>14, <1>t, <2>1, PutValue DEF RunGoes
  <2> QED BY <1>14, <1>t, <1>q, <2>2 DEF RunGoes, TypeOK
<1>s. ASSUME SaveResult PROVE cm' \in Store(Results)
  BY <1>s, <1>t, PutValue DEF SaveResult, Results
<1>15. CASE Progress
  <2>1. cm' \in Store(Results)
    BY <1>15, <1>t DEF Progress
  <2>2. {"running", "evicted", "true", "false"} \subseteq Phases
    BY DEF Phases
  <2> QED BY <1>14, <1>15, <2>1, <2>2 DEF Progress
<1>16. CASE SaveCommit
  <2>1. cm' \in Store(Results)
    BY <1>16, <1>s DEF SaveCommit
  <2> QED BY <1>16, <1>t, <2>1 DEF SaveCommit, TypeOK
<1>17. CASE Finish
  <2>1. cm' \in Store(Results)
    BY <1>17, <1>s, <1>t DEF Finish
  <2>2. "ended" \in Phases
    BY DEF Phases
  <2> QED BY <1>14, <1>17, <2>1, <2>2 DEF Finish
<1>18. CASE Terminate
  <2>1. cm' \in Store(Results)
    BY <1>18, <1>s, <1>t DEF Terminate
  <2> QED BY <1>18, <1>t, <2>1 DEF Terminate, TypeOK
<1>19. CASE UNCHANGED vars
  BY <1>19, <1>t DEF vars, TypeOK
<1>20. CASE Operator
  BY <1>4, <1>5, <1>6, <1>7, <1>8, <1>9, <1>10, <1>20 DEF Operator
<1>21. CASE Cluster
  BY <1>11, <1>12, <1>13, <1>15, <1>16, <1>17, <1>18, <1>21 DEF Cluster
<1> QED BY <1>1, <1>2, <1>3, <1>19, <1>20, <1>21 DEF Next

\* The state stays well typed whatever the three operators meet.
THEOREM TypeCorrect == Spec => []TypeOK
BY TypeInit, TypeNext, PTL DEF Spec

-----------------------------------------------------------------------------
(* The task run and the spec of the resource                               *)

\* An operator that has not started has promised nothing.
LEMMA RightInit == Init => IInv
BY TypeInit DEF Init, IInv, RunIsOfSpec

\* The invariant that says what a reconcile and its caches know is inductive.
LEMMA RightNext == IInv /\ [Next]_vars => IInv'
<1> SUFFICES ASSUME IInv, [Next]_vars PROVE IInv'
  OBVIOUS
<1>t. TypeOK /\ TypeOK'
  BY TypeNext DEF IInv
<1>i. /\ RunIsOfSpec
      /\ cr.seen # None => KnowsSpec(cr.seen)
      /\ rec # None =>
           /\ KnowsSpec(rec.cr)
           /\ rec.fresh => cr.now = rec.cr /\ cr.seen = rec.cr
           /\ kind # "batch" => ~Final(rec.cr)
           /\ rec.phase \in {"create", "created"} => rec.cr.state = "Unknown"
           /\ rec.phase = "created" /\ run.now # None => run.now.of = rec.cr.spec
  BY DEF IInv
<1>s. cr \in Store(CR) /\ run \in Store(Run) /\ rec \in Rec \cup {None}
  BY <1>t DEF TypeOK
<1>n. cr.now \in CR \cup {None} /\ run.now \in Run \cup {None}
  BY <1>s DEF Store
\* Writing an Unknown state, or removing the resource, promises nothing.
<1>u. ASSUME NEW c \in CR \cup {None}, cr' = Put("cr", cr, c),
             c # None => c.state = "Unknown",
             rec' # None => /\ rec # None
                            /\ rec'.cr = rec.cr /\ rec'.phase = rec.phase
                            /\ rec'.fresh = FALSE,
             UNCHANGED <<run, kind>>
      PROVE  IInv'
  <2>1. cr'.now = c
    BY <1>u, <1>s, PutValue
  <2> QED BY <1>i, <1>t, <1>u, <2>1 DEF IInv, RunIsOfSpec, KnowsSpec, Final
<1>1. ASSUME NEW s \in Specs, Declare(s) PROVE IInv'
  <2>1. [spec |-> s, state |-> "Unknown"] \in CR
    BY DEF CR, States
  <2> QED BY <1>1, <1>s, <1>u, <2>1, OutdatedType DEF Declare
<1>2. ASSUME NEW s \in Specs, Edit(s) PROVE IInv'
  <2>1. [spec |-> s, state |-> "Unknown"] \in CR
    BY DEF CR, States
  <2> QED BY <1>2, <1>s, <1>u, <2>1, OutdatedType DEF Edit
<1>3. CASE Remove
  <2>1. rec' # None => /\ rec # None
                       /\ rec'.cr = rec.cr /\ rec'.phase = rec.phase
                       /\ rec'.fresh = FALSE
    BY <1>3, <1>s DEF Remove, Rec
  <2> QED BY <1>3, <1>u, <2>1 DEF Remove
\* Steps that leave the resource and the task run alone.
<1>v. ASSUME UNCHANGED <<cr, run, kind>>,
             rec' # None => /\ rec # None
                            /\ rec'.cr = rec.cr /\ rec'.phase = rec.phase
                            /\ rec'.fresh = rec.fresh
      PROVE  IInv'
  BY <1>i, <1>t, <1>v DEF IInv, RunIsOfSpec, KnowsSpec, Final
<1>4. CASE Ignore \/ Fail \/ Resync
  BY <1>4, <1>v DEF Ignore, Fail, Resync
<1>5. CASE Begin
  <2>1. /\ rec'.cr = cr.seen /\ UNCHANGED kind
        /\ kind # "batch" => ~Final(cr.seen)
        /\ rec'.fresh => cr.seen = cr.now
        /\ rec'.phase \in {"config", "run"}
    BY <1>5 DEF Begin, IsFinished, Final
  <2> QED BY <1>5, <1>i, <1>t, <2>1 DEF Begin, IInv, RunIsOfSpec, KnowsSpec
<1>6. CASE CreateResultConfigMap
  <2>1. rec' = [rec EXCEPT !.phase = "run"] /\ rec \in Rec /\ UNCHANGED <<cr, run, kind>>
    BY <1>6, <1>s DEF CreateResultConfigMap
  <2>2. rec'.cr = rec.cr /\ rec'.phase = "run" /\ rec'.fresh = rec.fresh /\ rec # None
    BY <1>6, <2>1 DEF Rec, CreateResultConfigMap
  <2> QED BY <1>i, <1>t, <2>1, <2>2 DEF IInv, RunIsOfSpec, KnowsSpec, Final
<1>7. CASE DeleteTaskRun
  <2>1. rec \in Rec /\ rec # None
    BY <1>7, <1>s DEF DeleteTaskRun
  <2>2. rec'.cr = rec.cr /\ rec'.phase = "create" /\ rec'.fresh = rec.fresh
    BY <1>7, <2>1 DEF DeleteTaskRun, Rec
  <2>3. run'.now = None /\ UNCHANGED <<cr, kind>> /\ rec.cr.state = "Unknown"
    BY <1>7, <1>s, PutValue DEF DeleteTaskRun, NeedsRun
  <2> QED BY <1>i, <1>t, <2>1, <2>2, <2>3 DEF IInv, RunIsOfSpec, KnowsSpec, Final
<1>8. CASE CreateTaskRun
  <2>1. rec \in Rec /\ rec # None
    BY <1>8, <1>s DEF CreateTaskRun
  <2>2. rec'.cr = rec.cr /\ rec'.phase = "created" /\ rec'.fresh = rec.fresh
    BY <1>8, <2>1 DEF CreateTaskRun, Rec
  <2>3. [of |-> rec.cr.spec, phase |-> "pending"] \in Run
    BY <2>1 DEF Rec, CR, Run, Phases
  <2>4. run'.now = [of |-> rec.cr.spec, phase |-> "pending"] /\ UNCHANGED <<cr, kind>>
    BY <1>8, <1>s, <2>3, PutValue DEF CreateTaskRun
  <2>5. rec.cr.state = "Unknown"
    BY <1>8, <1>i DEF CreateTaskRun, NeedsRun
  <2> QED BY <1>i, <1>t, <2>1, <2>2, <2>4, <2>5 DEF IInv, RunIsOfSpec, KnowsSpec, Final
<1>9. CASE UpdateStatus
  <2> DEFINE new == [rec.cr EXCEPT !.state = Calculated]
  <2>1. rec \in Rec /\ rec # None /\ rec.cr \in CR
    BY <1>9, <1>s DEF UpdateStatus, Rec
  <2>2. cr' = Put("cr", cr, new) /\ rec' = None /\ UNCHANGED run
    BY <1>9 DEF UpdateStatus
  <2>3. cr.now = rec.cr /\ cr.seen = rec.cr
    BY <1>9, <1>i, <2>1 DEF UpdateStatus, Unchanged
  <2>4. cr'.seen \in {cr.seen, cr'.now}
    BY <1>s, <2>2 DEF Put, Store
  <2>5. cr'.now = new
    BY <2>2, <2>3, <1>s DEF Put, Store
  <2>6. new.spec = rec.cr.spec
    BY <2>1 DEF CR
  <2>7. cr.now # None
    BY <2>1, <2>3, AbsentAssumption
  <2>8. run.now # None => run.now.of = rec.cr.spec
    BY <1>9, <1>i, <2>1, <2>3, <2>7 DEF UpdateStatus, NeedsRun, RunIsOfSpec
  <2> HIDE DEF new
  <2>9. RunIsOfSpec'
    BY <2>2, <2>5, <2>6, <2>8 DEF RunIsOfSpec
  <2>10. (cr.seen # None => KnowsSpec(cr.seen))'
    BY <1>i, <2>3, <2>4, <2>5, <2>6, <2>7 DEF KnowsSpec
  <2> QED BY <1>t, <2>2, <2>9, <2>10 DEF IInv
<1>10. CASE Restart \/ ObserveResource \/ ObserveRun
  <2>1. /\ cr'.now = cr.now /\ cr'.seen \in {cr.seen, cr.now}
        /\ run'.now = run.now /\ kind' = kind
        /\ rec' \in {rec, None}
    BY <1>10, <1>s, RefreshValue DEF Restart, ObserveResource, ObserveRun
  <2> QED BY <1>i, <1>t, <2>1 DEF IInv, RunIsOfSpec, KnowsSpec, Final
<1>11. CASE CollectRun
  <2>1. run'.now = None /\ UNCHANGED <<cr, rec, kind>>
    BY <1>11, <1>s, PutValue DEF CollectRun
  <2> QED BY <1>i, <1>t, <2>1 DEF IInv, RunIsOfSpec, KnowsSpec, Final
<1>12. ASSUME NEW from, NEW to \in Phases, RunGoes(from, to) PROVE IInv'
  <2>1. [run.now EXCEPT !.phase = to] \in Run /\ run.now \in Run
    BY <1>12, <1>n DEF RunGoes, Run
  <2>2. run'.now = [run.now EXCEPT !.phase = to] /\ UNCHANGED <<cr, rec, kind>>
    BY <1>12, <1>s, <2>1, PutValue DEF RunGoes
  <2>3. run'.now.of = run.now.of /\ run.now # None
    BY <1>12, <2>1, <2>2 DEF Run, RunGoes
  <2> QED BY <1>i, <1>t, <2>2, <2>3 DEF IInv, RunIsOfSpec, KnowsSpec, Final
<1>13. CASE Progress \/ Finish
  <2>1. {"running", "ended", "evicted", "true", "false"} \subseteq Phases
    BY DEF Phases
  <2> QED BY <1>12, <1>13, <2>1 DEF Progress, Finish
<1>14. CASE ObserveConfigMap \/ CollectConfigMap \/ SaveCommit \/ Terminate
  BY <1>14, <1>v DEF ObserveConfigMap, CollectConfigMap, SaveCommit, Terminate
<1>15. CASE UNCHANGED vars
  BY <1>15, <1>v DEF vars
<1>16. CASE Operator
  BY <1>4, <1>5, <1>6, <1>7, <1>8, <1>9, <1>10, <1>16 DEF Operator
<1>17. CASE Cluster
  BY <1>10, <1>11, <1>13, <1>14, <1>17 DEF Cluster
<1> QED BY <1>1, <1>2, <1>3, <1>15, <1>16, <1>17 DEF Next

\* The run of an entity is of its present spec as soon as a state was reported,
\* for every number of specs and whichever caches lag.
THEOREM RunBelongsToSpec == Spec => []RunIsOfSpec
<1>1. IInv => RunIsOfSpec
  BY DEF IInv
<1> QED BY <1>1, RightInit, RightNext, PTL DEF Spec

\* What the update of a status writes: the resource that was read, which is the present
\* one, with the state that was calculated.
LEMMA StatusWritten ==
  ASSUME IInv, UpdateStatus
  PROVE  /\ rec \in Rec /\ rec # None
         /\ rec.cr \in CR /\ cr.now = rec.cr /\ cr.seen = rec.cr
         /\ Calculated \in States
         /\ cr'.now \in CR /\ cr'.now.spec = rec.cr.spec /\ cr'.now.state = Calculated
         /\ cr'.seen \in {rec.cr, cr'.now}
<1>1. rec \in Rec /\ rec # None /\ rec.cr \in CR /\ cr \in Store(CR)
  BY DEF UpdateStatus, IInv, TypeOK, Rec
<1>2. cr.now = rec.cr /\ cr.seen = rec.cr
  BY <1>1 DEF UpdateStatus, Unchanged, IInv
<1>3. cr'.now = [rec.cr EXCEPT !.state = Calculated] /\ cr'.seen \in {cr.seen, cr'.now}
  BY <1>1, <1>2 DEF UpdateStatus, Put, Store
<1>4. Calculated \in States
  <2>1. CASE rec.phase = "created"
    BY <2>1 DEF Calculated, States
  <2>2. CASE rec.phase # "created"
    <3>1. run.seen.phase \in Phases /\ rec.cr.state \in States
      BY <1>1, <2>2 DEF UpdateStatus, IInv, TypeOK, Store, Run, CR
    <3> QED BY <2>2, <3>1 DEF Calculated, States, Phases
  <2> QED BY <2>1, <2>2
<1> QED BY <1>1, <1>2, <1>3, <1>4 DEF CR

\* The update of a status is the only step of an operator that writes the resource,
\* and it starts from the present version of one that is not finished.
LEMMA UpdateKeeps ==
  IInv /\ UpdateStatus =>
    /\ cr'.now.spec = cr.now.spec
    /\ kind # "batch" => ~Final(cr.now)
BY StatusWritten DEF IInv

\* Every other step leaves the resource alone, removes it or writes an Unknown state.
LEMMA OthersKeep ==
  IInv /\ [Next]_vars
    => \/ cr'.now = cr.now
       \/ cr'.now = None
       \/ cr'.now.state = "Unknown"
       \/ UpdateStatus
<1> SUFFICES ASSUME IInv, [Next]_vars, ~UpdateStatus
             PROVE  cr'.now = cr.now \/ cr'.now = None \/ cr'.now.state = "Unknown"
  OBVIOUS
<1>s. cr \in Store(CR)
  BY DEF IInv, TypeOK
<1>1. ASSUME NEW s \in Specs, Declare(s) \/ Edit(s) PROVE cr'.now.state = "Unknown"
  BY <1>1, <1>s DEF Declare, Edit, Put, Store
<1>2. CASE Remove
  BY <1>2, <1>s DEF Remove, Put, Store
<1>3. CASE Operator
  BY <1>3, <1>s, RefreshValue DEF Operator, Ignore, Begin, CreateResultConfigMap,
     DeleteTaskRun, CreateTaskRun, Fail, Restart, Resync
<1>4. CASE Cluster
  BY <1>4, <1>s, RefreshValue DEF Cluster, ObserveResource, ObserveRun, ObserveConfigMap,
     CollectRun, CollectConfigMap, Progress, SaveCommit, Finish, Terminate, RunGoes
<1>5. CASE UNCHANGED vars
  BY <1>5 DEF vars
<1> QED BY <1>1, <1>2, <1>3, <1>4, <1>5 DEF Next

\* No operator undoes an edit.
THEOREM EditsSurvive == Spec => EditsAreKept
<1>1. IInv /\ [Next]_vars
      => [/\ cr.now # None /\ cr'.now # None
          /\ cr'.now.spec # cr.now.spec
          => cr'.now.state = "Unknown"]_vars
  BY UpdateKeeps, OthersKeep
<1> QED BY <1>1, RightInit, RightNext, PTL DEF Spec, EditsAreKept

\* No operator of trainings or packagings takes a final state back.
THEOREM FinalStays == Spec => FinishedIsFinal
<1>1. IInv /\ [Next]_vars
      => [kind # "batch" /\ cr.now # None /\ Final(cr.now) /\ cr'.now # None
          => cr'.now.state \in {cr.now.state, "Unknown"}]_vars
  BY UpdateKeeps, OthersKeep
<1> QED BY <1>1, RightInit, RightNext, PTL DEF Spec, FinishedIsFinal

-----------------------------------------------------------------------------
(* The task run of a resource whose state was reported                     *)

\* Only a run that nobody reported on may be collected, whichever caches lag.
LEMMA StaysNext == IInv /\ RunStays /\ [Next]_vars => RunStays'
<1> SUFFICES ASSUME IInv, RunStays, [Next]_vars PROVE RunStays'
  OBVIOUS
<1>t. cr \in Store(CR) /\ run \in Store(Run) /\ rec \in Rec \cup {None}
  BY DEF IInv, TypeOK
<1>i. /\ "run" \in orphans => ~Reported
      /\ rec # None =>
           /\ ~rec.owned => ~Reported
           /\ rec.fresh => rec.owned
           /\ rec.fresh /\ rec.phase = "created" => run.now # None /\ "run" \notin orphans
  BY DEF RunStays
<1>r. rec # None =>
        /\ rec \in Rec /\ rec.cr \in CR
        /\ rec.fresh => cr.now = rec.cr
        /\ rec.phase \in {"create", "created"} => rec.cr.state = "Unknown"
  BY <1>t DEF IInv, Rec
<1>n. run.now \in Run \cup {None}
  BY <1>t DEF Store
\* A resource without a state, or none, asks for nothing.
<1>u. ASSUME NEW c \in CR \cup {None}, cr' = Put("cr", cr, c),
             c # None => c.state = "Unknown",
             rec' # None => rec'.fresh = FALSE
      PROVE  RunStays'
  <2>1. cr'.now = c
    BY <1>u, <1>t, PutValue
  <2>2. ~Reported'
    BY <1>u, <2>1 DEF Reported
  <2> QED BY <1>u, <2>2 DEF RunStays, Reported
\* Steps that leave the resource, its run and the owner of the run alone.
<1>v. ASSUME cr'.now = cr.now, run'.now = None => run.now = None,
             "run" \in orphans' => "run" \in orphans,
             rec' # None => /\ rec # None
                            /\ rec'.fresh = rec.fresh
                            /\ rec'.owned = rec.owned
                            /\ rec'.phase = "created" => rec.phase = "created"
      PROVE  RunStays'
  BY <1>i, <1>v DEF RunStays, Reported
<1>1. ASSUME NEW s \in Specs, Declare(s) \/ Edit(s) PROVE RunStays'
  <2>1. [spec |-> s, state |-> "Unknown"] \in CR
    BY DEF CR, States
  <2> QED BY <1>1, <1>t, <1>u, <2>1, OutdatedType DEF Declare, Edit
<1>2. CASE Remove
  <2>1. rec' # None => rec'.fresh = FALSE
    BY <1>2, <1>t DEF Remove, Rec
  <2> QED BY <1>2, <1>u, <2>1 DEF Remove
<1>3. CASE Ignore \/ Fail \/ Resync
  BY <1>3, <1>v DEF Ignore, Fail, Resync
<1>4. CASE Begin
  <2>1. /\ rec'.phase # "created" /\ rec'.owned = (cr.now # None)
        /\ rec'.fresh => cr.now # None
        /\ UNCHANGED <<cr, run, orphans>>
    BY <1>4 DEF Begin
  <2> QED BY <1>i, <2>1 DEF RunStays, Reported
<1>5. CASE CreateResultConfigMap
  <2>1. rec' = [rec EXCEPT !.phase = "run"] /\ rec # None
    BY <1>5 DEF CreateResultConfigMap
  <2>2. "run" \in orphans' => "run" \in orphans
    BY <1>5 DEF CreateResultConfigMap, OwnedBy
  <2> QED BY <1>5, <1>r, <1>v, <2>1, <2>2 DEF CreateResultConfigMap, Rec
<1>6. CASE DeleteTaskRun
  <2>1. rec' = [rec EXCEPT !.phase = "create"] /\ rec # None
    BY <1>6 DEF DeleteTaskRun
  <2>2. rec'.phase = "create" /\ rec'.fresh = rec.fresh /\ rec'.owned = rec.owned
    BY <1>r, <2>1 DEF Rec
  <2> QED BY <1>6, <1>i, <2>1, <2>2 DEF DeleteTaskRun, RunStays, Reported
<1>7. CASE CreateTaskRun
  <2>1. rec' = [rec EXCEPT !.phase = "created"] /\ rec # None
    BY <1>7 DEF CreateTaskRun
  <2>2. [of |-> rec.cr.spec, phase |-> "pending"] \in Run
    BY <1>r, <2>1 DEF CR, Run, Phases
  <2>3. run'.now # None
    BY <1>7, <1>t, <2>2, PutValue, AbsentAssumption DEF CreateTaskRun
  <2>4. orphans' = OwnedBy("run") /\ UNCHANGED cr
    BY <1>7 DEF CreateTaskRun
  <2>5. "run" \in orphans' <=> ~rec.owned
    BY <1>r, <2>1, <2>4 DEF OwnedBy, Rec
  <2>6. rec'.fresh = rec.fresh /\ rec'.owned = rec.owned
    BY <1>r, <2>1 DEF Rec
  <2> QED BY <1>i, <2>1, <2>3, <2>4, <2>5, <2>6 DEF RunStays, Reported
<1>8. CASE UpdateStatus
  <2>1. rec # None /\ rec' = None /\ rec.fresh /\ UNCHANGED <<run, orphans>>
    BY <1>8 DEF UpdateStatus, Unchanged
  <2>2. "run" \notin orphans
    <3>1. CASE rec.phase = "created"
      BY <1>i, <2>1, <3>1
    <3>2. CASE rec.phase # "created"
      <4>1. rec.cr.state # "Unknown"
        BY <1>8, <3>2 DEF UpdateStatus, NeedsRun
      <4>2. Reported
        BY <1>r, <2>1, <4>1, AbsentAssumption DEF Reported
      <4> QED BY <1>i, <4>2
    <3> QED BY <3>1, <3>2
  <2> QED BY <2>1, <2>2 DEF RunStays
<1>9. CASE Restart \/ ObserveResource \/ ObserveRun
  <2>1. cr'.now = cr.now /\ run'.now = run.now /\ rec' \in {rec, None} /\ UNCHANGED orphans
    BY <1>9, <1>t, RefreshValue DEF Restart, ObserveResource, ObserveRun
  <2> QED BY <1>v, <2>1
<1>10. CASE CollectRun
  <2>1. "run" \in orphans /\ "run" \notin orphans' /\ UNCHANGED <<cr, rec>>
    BY <1>10 DEF CollectRun
  <2> QED BY <1>i, <2>1 DEF RunStays, Reported
<1>11. ASSUME NEW from, NEW to \in Phases, RunGoes(from, to) PROVE RunStays'
  <2>1. run.now # None /\ UNCHANGED <<cr, orphans, rec>>
    BY <1>11 DEF RunGoes
  <2>2. [run.now EXCEPT !.phase = to] \in Run
    BY <1>n, <2>1 DEF Run
  <2>3. run'.now # None
    BY <1>11, <1>t, <2>2, PutValue, AbsentAssumption DEF RunGoes
  <2> QED BY <1>v, <2>1, <2>3
<1>12. CASE Progress \/ Finish
  <2>1. {"running", "ended", "evicted", "true", "false"} \subseteq Phases
    BY DEF Phases
  <2> QED BY <1>11, <1>12, <2>1 DEF Progress, Finish
<1>13. CASE ObserveConfigMap \/ CollectConfigMap \/ SaveCommit \/ Terminate
  BY <1>13, <1>v DEF ObserveConfigMap, CollectConfigMap, SaveCommit, Terminate
<1>14. CASE UNCHANGED vars
  BY <1>14, <1>v DEF vars
<1>15. CASE Operator
  BY <1>3, <1>4, <1>5, <1>6, <1>7, <1>8, <1>9, <1>15 DEF Operator
<1>16. CASE Cluster
  BY <1>9, <1>10, <1>12, <1>13, <1>16 DEF Cluster
<1> QED BY <1>1, <1>2, <1>14, <1>15, <1>16 DEF Next

\* The steps after which a run is gone that was there.
LEMMA RunGone ==
  ASSUME IInv, [Next]_vars, run.now # None, run'.now = None
  PROVE  (DeleteTaskRun \/ CollectRun) /\ UNCHANGED cr
<1>t. run \in Store(Run) /\ run.now \in Run
  BY DEF IInv, TypeOK, Store
<1>1. ASSUME NEW from, NEW to \in Phases, RunGoes(from, to) PROVE FALSE
  <2>1. [run.now EXCEPT !.phase = to] \in Run
    BY <1>t DEF Run
  <2> QED BY <1>1, <1>t, <2>1, PutValue, AbsentAssumption DEF RunGoes
<1>2. ~Progress /\ ~Finish
  <2>1. {"running", "ended", "evicted", "true", "false"} \subseteq Phases
    BY DEF Phases
  <2> QED BY <1>1, <2>1 DEF Progress, Finish
<1>3. ~Restart /\ ~ObserveRun
  BY <1>t, RefreshValue DEF Restart, ObserveRun
<1>4. ~UNCHANGED run
  OBVIOUS
<1>5. ~CreateTaskRun
  BY DEF CreateTaskRun
<1>6. DeleteTaskRun \/ CollectRun
  BY <1>2, <1>3, <1>4, <1>5
     DEF Next, Operator, Cluster, vars, Declare, Edit, Remove, Ignore, Begin,
         CreateResultConfigMap, UpdateStatus, Fail, Resync, ObserveResource,
         ObserveConfigMap, CollectConfigMap, SaveCommit, Terminate
<1> QED BY <1>6 DEF DeleteTaskRun, CollectRun

\* A resource whose state was reported comes to be without its run only by a reconcile
\* that was shown an outdated version, for every number of specs, all three kinds and
\* whichever caches lag.
THEOREM RunsAreKept == Spec => RunIsKept
<1> DEFINE Kept == Reported' /\ run'.now = None =>
                     \/ Reported /\ run.now = None
                     \/ DeleteTaskRun /\ rec.cr # cr.now
<1>1. Init => RunStays
  BY DEF Init, RunStays
<1>2. ASSUME IInv, RunStays, [Next]_vars, Reported', run'.now = None,
             ~(Reported /\ run.now = None)
      PROVE  DeleteTaskRun /\ rec.cr # cr.now
  <2>1. CASE run.now # None
    <3>1. (DeleteTaskRun \/ CollectRun) /\ Reported
      BY <1>2, <2>1, RunGone DEF Reported
    <3>2. ~CollectRun
      BY <1>2, <3>1 DEF CollectRun, RunStays
    <3> QED BY <3>1, <3>2 DEF DeleteTaskRun, NeedsRun, Reported
  <2>2. CASE run.now = None
    <3>1. ~Reported /\ UpdateStatus
      <4>1. ~Reported /\ cr'.now # None /\ cr'.now.state # "Unknown"
        BY <1>2, <2>2 DEF Reported
      <4> QED BY <1>2, <4>1, OthersKeep DEF Reported
    <3>2. rec # None /\ rec.fresh /\ (rec.phase = "created" \/ rec.cr.state # "Unknown")
      BY <3>1 DEF UpdateStatus, Unchanged, NeedsRun
    <3>3. cr.now = rec.cr /\ cr.now # None
      BY <1>2, <3>1, StatusWritten, AbsentAssumption
    <3> QED BY <1>2, <2>2, <3>1, <3>2, <3>3 DEF RunStays, Reported
  <2> QED BY <2>1, <2>2
<1>3. IInv /\ RunStays /\ [Next]_vars => [Kept]_vars
  BY <1>2
<1> QED BY <1>1, <1>3, StaysNext, RightInit, RightNext, PTL DEF Spec, RunIsKept

\* What a reconcile and its caches know, for every number of specs, all kinds and all
\* caches: the invariant behind the theorems above.
THEOREM InvariantHolds == Spec => []IInv
BY RightInit, RightNext, PTL DEF Spec

-----------------------------------------------------------------------------
(* The end that is reported                                                *)

\* The end of a resource is only written by the update of its status, from a run that
\* was not made for another spec.
THEOREM EndsBelongToSpec == Spec => EndIsOfSpec
<1>1. IInv /\ [Next]_vars
      => [/\ cr.now # None /\ cr'.now # None
          /\ ~Final(cr.now) /\ Final(cr'.now)
          /\ run.seen = run.now
          => run.now # None /\ run.now.of = cr'.now.spec]_vars
  <2> SUFFICES ASSUME IInv, [Next]_vars, cr.now # None, cr'.now # None,
                      ~Final(cr.now), Final(cr'.now), run.seen = run.now
               PROVE  run.now # None /\ run.now.of = cr'.now.spec
    OBVIOUS
  <2>1. UpdateStatus
    BY OthersKeep DEF Final
  <2>2. cr.now = rec.cr /\ cr'.now.spec = cr.now.spec /\ cr'.now.state = Calculated
    BY <2>1, StatusWritten
  <2>3. rec.phase # "created"
    BY <2>2 DEF Calculated, Final
  <2>4. run.seen # None /\ rec.cr.state # "Unknown"
    BY <2>1, <2>3 DEF UpdateStatus, NeedsRun
  <2> QED BY <2>2, <2>4 DEF IInv, RunIsOfSpec
<1> QED BY <1>1, RightInit, RightNext, PTL DEF Spec, EndIsOfSpec

-----------------------------------------------------------------------------
(* What a resource leaves behind                                           *)

\* Who creates a child knows whether there is a resource to own it.
LEMMA StrayNext ==
  IInv /\ NothingStrays /\ OwnerIsThere /\ [Next]_vars => NothingStrays' /\ OwnerIsThere'
<1> SUFFICES ASSUME IInv, NothingStrays, OwnerIsThere, [Next]_vars
             PROVE  NothingStrays' /\ OwnerIsThere'
  OBVIOUS
<1>t. cr \in Store(CR) /\ run \in Store(Run) /\ cm \in Store(Results) /\ rec \in Rec \cup {None}
  BY DEF IInv, TypeOK
<1>i. /\ cr.now = None => /\ run.now # None => "run" \in orphans
                          /\ cm.now # None => "cm" \in orphans
      /\ rec # None /\ rec.owned => cr.now # None
  BY DEF NothingStrays, OwnerIsThere
<1>r. ASSUME NEW phase, rec # None
      PROVE  [rec EXCEPT !.phase = phase].owned = rec.owned
  BY <1>t, <1>r DEF Rec
\* A resource that is there owns what is there.
<1>u. ASSUME cr'.now # None
      PROVE  NothingStrays' /\ OwnerIsThere'
  BY <1>u DEF NothingStrays, OwnerIsThere
\* Steps that create nothing and drop no mark of a child that is there.
<1>v. ASSUME cr'.now = cr.now,
             run'.now # None => run.now # None /\ ("run" \in orphans => "run" \in orphans'),
             cm'.now # None => cm.now # None /\ ("cm" \in orphans => "cm" \in orphans'),
             rec' # None /\ rec'.owned => rec # None /\ rec.owned
      PROVE  NothingStrays' /\ OwnerIsThere'
  BY <1>i, <1>v DEF NothingStrays, OwnerIsThere
<1>1. ASSUME NEW s \in Specs, Declare(s) \/ Edit(s) PROVE NothingStrays' /\ OwnerIsThere'
  <2>1. [spec |-> s, state |-> "Unknown"] \in CR
    BY DEF CR, States
  <2>2. cr'.now # None
    BY <1>1, <1>t, <2>1, PutValue, AbsentAssumption DEF Declare, Edit
  <2> QED BY <1>u, <2>2
<1>2. CASE Remove
  <2>1. rec' # None => ~rec'.owned
    BY <1>2, <1>t DEF Remove, Rec
  <2>2. /\ UNCHANGED <<run, cm>>
        /\ run.now # None => "run" \in orphans'
        /\ cm.now # None => "cm" \in orphans'
    BY <1>2 DEF Remove
  <2> QED BY <2>1, <2>2 DEF NothingStrays, OwnerIsThere
<1>3. CASE Ignore \/ Fail \/ Resync
  BY <1>3, <1>v DEF Ignore, Fail, Resync
<1>4. CASE Begin
  <2>1. UNCHANGED <<cr, run, cm, orphans>> /\ rec'.owned = (cr.now # None)
    BY <1>4 DEF Begin
  <2> QED BY <1>i, <2>1 DEF NothingStrays, OwnerIsThere
<1>5. CASE CreateResultConfigMap \/ CreateTaskRun
  <2>1. UNCHANGED cr /\ rec # None /\ rec'.owned = rec.owned
    BY <1>5, <1>r DEF CreateResultConfigMap, CreateTaskRun
  <2>2. CASE rec.owned
    BY <1>i, <1>u, <2>1, <2>2
  <2>3. CASE ~rec.owned
    <3>1. /\ orphans \subseteq orphans'
          /\ UNCHANGED cm \/ "cm" \in orphans'
          /\ UNCHANGED run \/ "run" \in orphans'
      BY <1>5, <2>3 DEF CreateResultConfigMap, CreateTaskRun, OwnedBy
    <3> QED BY <1>i, <2>1, <2>3, <3>1 DEF NothingStrays, OwnerIsThere
  <2> QED BY <2>2, <2>3
<1>6. CASE DeleteTaskRun \/ CollectRun
  <2>1. run'.now = None
    BY <1>6, <1>t, PutValue DEF DeleteTaskRun, CollectRun
  <2>2. UNCHANGED <<cr, cm>> /\ orphans' = orphans \ {"run"}
        /\ (rec' # None /\ rec'.owned => rec # None /\ rec.owned)
    BY <1>6, <1>r DEF DeleteTaskRun, CollectRun
  <2> QED BY <1>v, <2>1, <2>2
<1>7. CASE UpdateStatus
  BY <1>7, <1>u, StatusWritten, AbsentAssumption
<1>8. CASE Restart \/ ObserveResource \/ ObserveRun \/ ObserveConfigMap
  <2>1. /\ cr'.now = cr.now /\ run'.now = run.now /\ cm'.now = cm.now
        /\ UNCHANGED orphans /\ rec' \in {rec, None}
    BY <1>8, <1>t, RefreshValue DEF Restart, ObserveResource, ObserveRun, ObserveConfigMap
  <2> QED BY <1>v, <2>1
<1>9. CASE CollectConfigMap
  <2>1. cm'.now = None
    BY <1>9, <1>t, PutValue DEF CollectConfigMap
  <2> QED BY <1>9, <1>v, <2>1 DEF CollectConfigMap
<1>10. CASE Progress \/ SaveCommit \/ Finish \/ Terminate
  <2>1. run'.now # None => run.now # None
    BY <1>10 DEF Progress, SaveCommit, Finish, Terminate, RunGoes
  <2>2. cm'.now # None => cm.now # None
    BY <1>10 DEF Progress, SaveCommit, Finish, Terminate, SaveResult
  <2> QED BY <1>10, <1>v, <2>1, <2>2 DEF Progress, SaveCommit, Finish, Terminate, RunGoes
<1>11. CASE UNCHANGED vars
  BY <1>11, <1>v DEF vars
<1>12. CASE Operator
  BY <1>3, <1>4, <1>5, <1>6, <1>7, <1>8, <1>12 DEF Operator
<1>13. CASE Cluster
  BY <1>6, <1>8, <1>9, <1>10, <1>13 DEF Cluster
<1> QED BY <1>1, <1>2, <1>11, <1>12, <1>13 DEF Next

\* No task run and no result map is left that the garbage collector would not take,
\* whatever a reconcile still creates after the resource is gone.
THEOREM ChildrenAreCollected == Spec => []NothingStrays
<1>1. Init => NothingStrays /\ OwnerIsThere
  BY DEF Init, NothingStrays, OwnerIsThere
<1> QED BY <1>1, StrayNext, RightInit, RightNext, PTL DEF Spec

-----------------------------------------------------------------------------
(* The contract with the system controller                                 *)

\* A cache that is not late shows what is written at once.
LEMMA PutShown ==
  ASSUME NEW T, NEW store \in Store(T), NEW x \in T \cup {None}, NEW name,
         name \notin Lagging, store.seen = store.now
  PROVE  Put(name, store, x).now = x /\ Put(name, store, x).seen = x
<1>1. CASE x = store.now
  BY <1>1 DEF Put
<1>2. CASE x # store.now
  BY <1>2 DEF Put
<1> QED BY <1>1, <1>2

\* Nobody takes a resource for new that has reached its end.
LEMMA EndNext == IInv /\ EndStands /\ [Next]_vars => EndStands'
<1> SUFFICES ASSUME IInv, EndStands, [Next]_vars PROVE EndStands'
  OBVIOUS
<1>t. cr \in Store(CR) /\ run \in Store(Run) /\ rec \in Rec \cup {None}
  BY DEF IInv, TypeOK
<1>r. rec # None => rec \in Rec /\ rec.cr \in CR
                    /\ (rec.phase \in {"create", "created"} => rec.cr.state = "Unknown")
  BY <1>t DEF IInv, Rec
<1> DEFINE Ends == {"ended", "evicted", "true", "false"}
<1>i. /\ "run" \notin Lagging => run.seen = run.now
      /\ cr.now # None /\ Final(cr.now) =>
           /\ cr.seen # None => cr.seen.state # "Unknown"
           /\ rec # None => rec.cr.state # "Unknown"
           /\ kind = "batch" /\ "run" \notin Lagging /\ run.now # None => run.now.phase \in Ends
  BY DEF EndStands
\* The cache of task runs is late or shows what is there.
<1>p. ASSUME NEW x \in Run \cup {None}, run' = Put("run", run, x)
      PROVE  ("run" \notin Lagging => run'.seen = run'.now) /\ run'.now = x
  BY <1>i, <1>p, <1>t, PutValue, PutShown
\* A state that is not final says nothing.
<1>u. ASSUME cr'.now # None => ~Final(cr'.now), UNCHANGED run
      PROVE  EndStands'
  BY <1>i, <1>u DEF EndStands
\* Steps that leave the resource alone, and the end of a task run with it.
<1>v. ASSUME cr' = cr, kind' = kind, "run" \notin Lagging => run'.seen = run'.now,
             run'.now # None => run.now # None /\ (run.now.phase \in Ends => run'.now.phase \in Ends),
             rec' # None => \/ rec # None /\ rec'.cr = rec.cr
                            \/ cr.seen # None /\ rec'.cr = cr.seen
      PROVE  EndStands'
  BY <1>i, <1>v DEF EndStands, Final
<1>1. ASSUME NEW s \in Specs, Declare(s) \/ Edit(s) PROVE EndStands'
  <2>1. [spec |-> s, state |-> "Unknown"] \in CR
    BY DEF CR, States
  <2>2. cr'.now = [spec |-> s, state |-> "Unknown"] /\ UNCHANGED run
    BY <1>1, <1>t, <2>1, PutValue DEF Declare, Edit
  <2> QED BY <1>u, <2>2 DEF Final
<1>2. CASE Remove
  BY <1>2, <1>t, <1>u, PutValue DEF Remove
<1>3. CASE Ignore \/ Fail \/ Resync \/ Begin
  BY <1>3, <1>i, <1>v DEF Ignore, Fail, Resync, Begin
<1>4. CASE CreateResultConfigMap
  <2>1. rec' = [rec EXCEPT !.phase = "run"] /\ rec # None /\ UNCHANGED <<cr, kind, run>>
    BY <1>4 DEF CreateResultConfigMap
  <2>2. rec'.cr = rec.cr
    BY <1>r, <2>1 DEF Rec
  <2> QED BY <1>i, <1>v, <2>1, <2>2
<1>5. CASE DeleteTaskRun
  <2>1. rec' = [rec EXCEPT !.phase = "create"] /\ rec # None /\ UNCHANGED <<cr, kind>>
        /\ run' = Put("run", run, None)
    BY <1>5 DEF DeleteTaskRun
  <2>2. rec'.cr = rec.cr
    BY <1>r, <2>1 DEF Rec
  <2> QED BY <1>p, <1>v, <2>1, <2>2
<1>6. CASE CreateTaskRun
  <2>1. rec' = [rec EXCEPT !.phase = "created"] /\ rec # None /\ UNCHANGED <<cr, kind>>
    BY <1>6 DEF CreateTaskRun
  <2>2. [of |-> rec.cr.spec, phase |-> "pending"] \in Run
    BY <1>r, <2>1 DEF CR, Run, Phases
  <2>3. "run" \notin Lagging => run'.seen = run'.now
    BY <1>6, <1>p, <2>2 DEF CreateTaskRun
  <2>4. cr.now # None => ~Final(cr.now)
    BY <1>6, <1>i, <1>r DEF CreateTaskRun, NeedsRun
  <2> QED BY <2>1, <2>3, <2>4 DEF EndStands, Final
<1>7. CASE UpdateStatus
  <2>1. /\ cr.now = rec.cr /\ rec # None /\ rec' = None /\ UNCHANGED <<kind, run>>
        /\ cr'.now.state = Calculated /\ cr'.seen \in {rec.cr, cr'.now}
    BY <1>7, StatusWritten DEF UpdateStatus
  <2> SUFFICES ASSUME Final(cr'.now)
               PROVE  /\ cr'.seen.state # "Unknown"
                      /\ kind = "batch" /\ "run" \notin Lagging /\ run.now # None
                           => run.now.phase \in Ends
    BY <1>i, <2>1 DEF EndStands
  <2>2. rec.phase # "created"
    BY <2>1 DEF Calculated, Final
  <2>3. rec.cr.state # "Unknown"
    BY <1>7, <2>2 DEF UpdateStatus, NeedsRun
  <2>4. CASE Final(rec.cr)
    BY <1>7, <1>i, <2>1, <2>3, <2>4, StatusWritten, AbsentAssumption DEF Final
  <2>5. CASE ~Final(rec.cr)
    <3>1. run.seen.phase \in Ends
      <4>1. run.seen \in Run
        BY <1>7, <1>t, <2>2 DEF UpdateStatus, Store
      <4>2. run.seen.phase \in Phases
        BY <4>1 DEF Run
      <4> QED BY <2>1, <2>2, <4>2 DEF Calculated, Final, Phases
    <3> QED BY <1>i, <2>1, <2>3, <3>1 DEF Final
  <2> QED BY <2>4, <2>5
<1>8. CASE Restart \/ ObserveResource \/ ObserveRun
  <2>1. /\ cr'.now = cr.now /\ cr'.seen \in {cr.seen, cr.now} /\ run'.now = run.now
        /\ run'.seen \in {run.seen, run.now} /\ rec' \in {rec, None} /\ UNCHANGED kind
    BY <1>8, <1>t, RefreshValue DEF Restart, ObserveResource, ObserveRun
  <2> QED BY <1>i, <2>1 DEF EndStands, Final
<1>9. CASE CollectRun
  BY <1>9, <1>p, <1>v DEF CollectRun
<1>10. ASSUME NEW from, NEW to, RunGoes(from, to), to \in Phases,
              to \in Ends \/ from \cap {"ended", "evicted", "true", "false"} = {}
       PROVE  EndStands'
  <2>1. run.now \in Run /\ run.now # None /\ run.now.phase \in from
    BY <1>10, <1>t DEF RunGoes, Store
  <2>2. [run.now EXCEPT !.phase = to] \in Run /\ [run.now EXCEPT !.phase = to].phase = to
    BY <1>10, <2>1 DEF Run
  <2>3. run'.now.phase = to /\ ("run" \notin Lagging => run'.seen = run'.now)
    BY <1>10, <1>p, <2>2 DEF RunGoes
  <2>4. UNCHANGED <<cr, kind, rec>>
    BY <1>10 DEF RunGoes
  <2> QED BY <1>10, <1>v, <2>1, <2>3, <2>4
<1>11. CASE Progress \/ Finish
  <2>1. {"running", "ended", "evicted", "true", "false"} \subseteq Phases
    BY DEF Phases
  <2> QED BY <1>10, <1>11, <2>1 DEF Progress, Finish
<1>12. CASE ObserveConfigMap \/ CollectConfigMap \/ SaveCommit \/ Terminate
  BY <1>12, <1>i, <1>v DEF ObserveConfigMap, CollectConfigMap, SaveCommit, Terminate
<1>13. CASE UNCHANGED vars
  BY <1>13, <1>i, <1>v DEF vars
<1>14. CASE Operator
  BY <1>3, <1>4, <1>5, <1>6, <1>7, <1>8, <1>14 DEF Operator
<1>15. CASE Cluster
  BY <1>8, <1>9, <1>11, <1>12, <1>15 DEF Cluster
<1> QED BY <1>1, <1>2, <1>13, <1>14, <1>15 DEF Next

\* What users do is what the contract lets the controller do.
LEMMA ControllerSteps ==
  ASSUME IInv, Remove \/ \E s \in Specs : Declare(s) \/ Edit(s)
  PROVE  Contract!Controller
<1>t. cr \in Store(CR) /\ cr.now \in CR \cup {None}
  BY DEF IInv, TypeOK, Store
<1>1. ASSUME NEW s \in Specs, Declare(s) \/ Edit(s) PROVE Contract!Controller
  <2> DEFINE c == [spec |-> s, state |-> "Unknown"]
  <2>1. c \in CR /\ c # None
    BY AbsentAssumption DEF CR, States
  <2>2. cr'.now = c
    BY <1>1, <1>t, <2>1, PutValue DEF Declare, Edit
  <2>3. Shown' = [spec |-> s, deleting |-> FALSE, stage |-> "Unknown"]
    BY <2>1, <2>2 DEF Shown, Stage
  <2>4. CASE Declare(s)
    <3>1. Contract!Create(s)
      BY <2>3, <2>4 DEF Contract!Create, Contract!Present, Contract!Absent, Declare, Shown
    <3> QED BY <3>1 DEF Contract!Controller
  <2>5. CASE Edit(s)
    <3>1. Shown = [spec |-> cr.now.spec, deleting |-> FALSE, stage |-> Stage(cr.now)]
      BY <2>5 DEF Edit, Shown
    <3>2. Stage(cr.now) # "Absent"
      BY <1>t, <2>5 DEF Edit, Stage, CR, States
    <3>3. Shown # [stage |-> "Absent"]
      BY <3>1, <3>2
    <3>4. /\ Shown \in [spec: {cr.now.spec}, deleting: {FALSE}, stage: {Stage(cr.now)}]
          /\ Shown' \in [spec: {s}, deleting: {FALSE}, stage: {"Unknown"}]
      BY <2>3, <3>1
    <3>5. [Shown EXCEPT !.spec = s, !.stage = "Unknown"] = Shown'
      BY <3>4
    <3>6. Contract!Update(s)
      BY <3>3, <3>5 DEF Contract!Update, Contract!Present, Contract!Absent
    <3> QED BY <3>6 DEF Contract!Controller
  <2> QED BY <1>1, <2>4, <2>5
<1>2. CASE Remove
  <2>1. cr'.now = None /\ cr.now # None
    BY <1>2, <1>t, PutValue DEF Remove
  <2>2. Contract!Delete
    BY <2>1 DEF Contract!Delete, Contract!Present, Contract!Absent, Shown
  <2> QED BY <2>2 DEF Contract!Controller
<1> QED BY <1>1, <1>2

\* When the operator may be looking at a resource that was reported to be done already.
LateRuns == "batch" \in Kinds /\ "run" \in Lagging

\* What the operator and the cluster do is what the contract lets the operator do.
LEMMA OperatorSteps ==
  ASSUME ~LateRuns, IInv, EndStands, Operator \/ Cluster
  PROVE  Contract!Operator \/ UNCHANGED Shown
<1>t. cr \in Store(CR)
  BY DEF IInv, TypeOK
<1>1. CASE UpdateStatus
  <2>1. /\ rec # None /\ rec.cr \in CR /\ cr.now = rec.cr /\ Calculated \in States
        /\ cr'.now \in CR /\ cr'.now.spec = rec.cr.spec /\ cr'.now.state = Calculated
    BY <1>1, StatusWritten
  <2>2. /\ Shown = [spec |-> rec.cr.spec, deleting |-> FALSE, stage |-> Stage(rec.cr)]
        /\ Shown' = [spec |-> rec.cr.spec, deleting |-> FALSE, stage |-> Stage(cr'.now)]
    BY <2>1, AbsentAssumption DEF Shown
  <2>3. Calculated # "Unknown"
    <3>1. CASE rec.phase = "created"
      BY <3>1 DEF Calculated
    <3>2. CASE rec.phase # "created"
      <4>1. rec.cr.state # "Unknown" /\ run.seen \in Run
        BY <1>1, <3>2 DEF UpdateStatus, NeedsRun, IInv, TypeOK, Store
      <4> QED BY <3>2, <4>1 DEF Calculated, Run, Phases
    <3> QED BY <3>1, <3>2
  <2>4. Stage(cr'.now) \in {"Working", "Done"}
    BY <2>1, <2>3 DEF Stage, States
  <2>5. CASE Stage(rec.cr) # "Done"
    <3>1. Shown.stage \notin {"Absent", "Done"} /\ ~Shown.deleting
      BY <2>1, <2>2, <2>5 DEF Stage, CR, States
    <3>2. /\ Shown \in [spec: {rec.cr.spec}, deleting: {FALSE}, stage: {Stage(rec.cr)}]
          /\ Shown' \in [spec: {rec.cr.spec}, deleting: {FALSE}, stage: {Stage(cr'.now)}]
      BY <2>2
    <3>3. [Shown EXCEPT !.stage = Stage(cr'.now)] = Shown'
      BY <3>2
    <3>4. Contract!Report(Stage(cr'.now))
      BY <3>1, <3>3 DEF Contract!Report, Contract!Present, Contract!Absent
    <3> QED BY <2>4, <3>4 DEF Contract!Operator
  <2>6. CASE Stage(rec.cr) = "Done"
    <3>1. Final(rec.cr) /\ rec.cr.state # "Unknown"
      BY <2>1, <2>6 DEF Stage, Final, CR, States
    <3>2. kind = "batch" /\ "run" \notin Lagging
      BY <2>1, <3>1 DEF IInv, TypeOK, LateRuns
    <3>3. rec.phase # "created" /\ run.seen = run.now /\ run.seen # None
      BY <1>1, <2>1, <3>1, <3>2 DEF UpdateStatus, EndStands, IInv
    <3>4. run.seen.phase \in {"ended", "evicted", "true", "false"}
      BY <2>1, <3>1, <3>2, <3>3, AbsentAssumption DEF EndStands
    <3>5. Final(cr'.now)
      BY <2>1, <3>1, <3>3, <3>4 DEF Calculated, Final
    <3>6. Stage(cr'.now) = "Done"
      BY <3>5 DEF Stage, Final
    <3> QED BY <2>2, <2>6, <3>6
  <2> QED BY <2>5, <2>6
<1>2. CASE Operator /\ ~UpdateStatus
  <2>1. cr'.now = cr.now
    BY <1>2, <1>t, RefreshValue DEF Operator, Ignore, Begin, CreateResultConfigMap,
       DeleteTaskRun, CreateTaskRun, Fail, Restart, Resync
  <2> QED BY <2>1 DEF Shown, Stage
<1>3. CASE Cluster
  <2>1. cr'.now = cr.now
    BY <1>3, <1>t, RefreshValue DEF Cluster, ObserveResource, ObserveRun, ObserveConfigMap,
       CollectRun, CollectConfigMap, Progress, SaveCommit, Finish, Terminate, RunGoes
  <2> QED BY <2>1 DEF Shown, Stage
<1> QED BY <1>1, <1>2, <1>3

\* The operators of trainings, packagings and batch jobs keep their contract with the
\* system controller, for every number of specs; that of batch jobs needs a cache of
\* task runs that is not late.
THEOREM ContractKept ==
  ASSUME ~LateRuns
  PROVE  Spec => KeepsContract
<1>1. Init => Contract!Init
  BY DEF Init, Contract!Init, Contract!Absent, Shown
<1>2. Init => EndStands
  BY DEF Init, EndStands
<1>3. IInv /\ EndStands /\ [Next]_vars => [Contract!Next]_Shown
  <2> SUFFICES ASSUME IInv, EndStands, [Next]_vars
               PROVE  Contract!Next \/ UNCHANGED Shown
    OBVIOUS
  <2>1. CASE UNCHANGED vars
    BY <2>1 DEF vars, Shown, Stage
  <2> QED BY <2>1, ControllerSteps, OperatorSteps DEF Next, Contract!Next
<1> QED BY <1>1, <1>2, <1>3, EndNext, RightInit, RightNext, PTL
        DEF Spec, KeepsContract, Contract!Spec

=============================================================================
