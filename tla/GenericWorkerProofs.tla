------------------------ MODULE GenericWorkerProofs ------------------------
(***************************************************************************)
(* Proofs about the system controller.                                     *)
(***************************************************************************)
EXTENDS GenericWorkerProps, FiniteSetTheorems, TLAPS

-----------------------------------------------------------------------------
(* Type correctness                                                        *)

\* What GetNotSynced plans for an id is an item of a plan.
LEMMA DecideType ==
  ASSUME NEW row \in Row \cup {None}, NEW obj \in Obj \cup {None}
  PROVE  Decide(row, obj) \in Item
<1>1. row # None => row \in Row /\ row.spec \in Specs /\ row.mark \in BOOLEAN
  BY DEF Row
<1>2. CASE row = None
  BY <1>2 DEF Decide, Skip, Item
<1>3. CASE row # None /\ obj = None
  BY <1>1, <1>3 DEF Decide, Skip, Item
<1>4. CASE row # None /\ obj # None
  BY <1>1, <1>4 DEF Decide, Skip, Item
<1> QED BY <1>2, <1>3, <1>4

\* A page of a store is typed like the store.
LEMMA PageType ==
  ASSUME NEW T, NEW store \in [Ids -> T \cup {None}], NEW size
  PROVE  Page(store, size) \in [Ids -> T \cup {None}]
BY DEF Page

\* A controller that has not started has a well-typed state.
LEMMA TypeInit == Init => TypeOK
BY DEF Init, TypeOK, Idle, Skip, Item

\* Every call of a user, a pass, a reconcile or the operator keeps the types.
LEMMA TypeNext == TypeOK /\ [Next]_vars => TypeOK'
<1> SUFFICES ASSUME TypeOK, [Next]_vars PROVE TypeOK'
  OBVIOUS
<1>t. /\ rows \in [Ids -> Row \cup {None}]
      /\ objs \in [Ids -> Obj \cup {None}]
      /\ started \in SUBSET Ids
      /\ lease \in Replicas \cup {None}
      /\ pc \in [Replicas -> {"idle", "listing", "acting"}]
      /\ listed \in [Replicas -> [Ids -> Obj \cup {None}]]
      /\ plan \in [Replicas -> [Ids -> Item]]
      /\ rec \in [Replicas -> Rec \cup {None}]
      /\ polled \in SUBSET Ids
  BY DEF TypeOK
<1>u. \A s \in Specs : Unknown(s) \in Status
  BY DEF Unknown, Status, States
<1>1. ASSUME NEW i \in Ids, NEW s \in Specs, CreateRow(i, s) PROVE TypeOK'
  <2>1. [spec |-> s, mark |-> FALSE, status |-> Unknown(s)] \in Row
    BY <1>u DEF Row
  <2> QED BY <1>1, <1>t, <2>1 DEF CreateRow, TypeOK, workerVars
<1>2. ASSUME NEW i \in Ids, NEW s \in Specs, UpdateRow(i, s) PROVE TypeOK'
  <2>1. rows[i] \in Row
    BY <1>2, <1>t DEF UpdateRow
  <2>2. [rows[i] EXCEPT !.spec = s, !.status = Unknown(s)] \in Row
    BY <2>1, <1>u DEF Row
  <2>3. rows' = [rows EXCEPT ![i] = [rows[i] EXCEPT !.spec = s, !.status = Unknown(s)]]
    BY <1>2, <1>t DEF UpdateRow
  <2> QED BY <1>2, <1>t, <2>2, <2>3 DEF UpdateRow, TypeOK, workerVars
<1>3. ASSUME NEW i \in Ids, MarkRow(i) PROVE TypeOK'
  <2>1. rows[i] \in Row
    BY <1>3, <1>t DEF MarkRow
  <2>2. [rows[i] EXCEPT !.mark = TRUE] \in Row
    BY <2>1 DEF Row
  <2> QED BY <1>3, <1>t, <2>2 DEF MarkRow, TypeOK, workerVars
<1>4. ASSUME NEW i \in Ids, DeleteRow(i) PROVE TypeOK'
  BY <1>4, <1>t DEF DeleteRow, TypeOK, workerVars
<1>5. ASSUME NEW w \in Replicas, Acquire(w) PROVE TypeOK'
  BY <1>5, <1>t DEF Acquire, TypeOK, workerVars, Existing
<1>6. ASSUME NEW w \in Replicas, Crash(w) PROVE TypeOK'
  <2>1. Idle \in [Ids -> Item]
    BY DEF Idle, Skip, Item
  <2> QED BY <1>6, <1>t, <2>1 DEF Crash, TypeOK
<1>7. ASSUME NEW w \in Replicas, ListRuntime(w) PROVE TypeOK'
  <2>1. Page(objs, RuntimePage) \in [Ids -> Obj \cup {None}]
    BY <1>t, PageType
  <2>2. RuntimeLists \subseteq [Ids -> Obj \cup {None}]
    BY <2>1 DEF RuntimeLists
  <2>3. PICK list \in RuntimeLists : listed' = [listed EXCEPT ![w] = list]
    BY <1>7 DEF ListRuntime
  <2> QED BY <1>7, <1>t, <2>2, <2>3 DEF ListRuntime, TypeOK
<1>8. ASSUME NEW w \in Replicas, NEW missed \in SUBSET Ids, ListStorage(w, missed)
      PROVE TypeOK'
  <2> DEFINE page == Page(rows, StoragePage)
             row(i) == IF i \in missed THEN None ELSE page[i]
             new == [i \in Ids |-> Decide(row(i), listed[w][i])]
  <2>1. page \in [Ids -> Row \cup {None}]
    BY <1>t, PageType
  <2>2. \A i \in Ids : row(i) \in Row \cup {None}
    BY <2>1
  <2>3. \A i \in Ids : listed[w][i] \in Obj \cup {None}
    BY <1>t
  <2> HIDE DEF page, row
  <2>4. new \in [Ids -> Item]
    BY <2>2, <2>3, DecideType
  <2>5. plan' = [plan EXCEPT ![w] = new]
    BY <1>8 DEF ListStorage, row, page
  <2>6. [i \in Ids |-> None] \in [Ids -> Obj \cup {None}]
    OBVIOUS
  <2> HIDE DEF new
  <2> QED BY <1>8, <1>t, <2>4, <2>5, <2>6 DEF ListStorage, TypeOK
<1>9. ASSUME NEW w \in Replicas, ListStorageFails(w) PROVE TypeOK'
  BY <1>9, <1>t DEF ListStorageFails, TypeOK
<1>10. ASSUME NEW w \in Replicas, NEW i \in Ids, Tick(w, i)
       PROVE /\ plan' \in [Replicas -> [Ids -> Item]]
             /\ UNCHANGED <<lease, pc, listed, rec>>
  <2>1. [plan[w] EXCEPT ![i] = Skip] \in [Ids -> Item]
    BY <1>t DEF Skip, Item
  <2> QED BY <1>10, <1>t, <2>1 DEF Tick
<1>11. ASSUME NEW w \in Replicas, NEW i \in Ids, CreateInRuntime(w, i) PROVE TypeOK'
  <2>1. plan[w][i].spec \in Specs
    <3>1. plan[w][i] \in Item /\ plan[w][i].op = "create"
      BY <1>11, <1>t DEF CreateInRuntime, Turn
    <3> QED BY <3>1 DEF Item
  <2> DEFINE new == [spec |-> plan[w][i].spec, deleting |-> FALSE,
                     status |-> Unknown(plan[w][i].spec)]
  <2>2. new \in Obj
    BY <2>1, <1>u DEF Obj
  <2>3. objs' \in [Ids -> Obj \cup {None}]
    BY <1>11, <1>t, <2>2 DEF CreateInRuntime
  <2>4. started' \in SUBSET Ids /\ polled' \in SUBSET Ids /\ rows' = rows
    BY <1>11, <1>t DEF CreateInRuntime, Notify
  <2> QED BY <1>11, <1>10, <1>t, <2>3, <2>4 DEF CreateInRuntime, TypeOK
<1>12. ASSUME NEW w \in Replicas, NEW i \in Ids, UpdateInRuntime(w, i) PROVE TypeOK'
  <2>1. plan[w][i].spec \in Specs
    <3>1. plan[w][i] \in Item /\ plan[w][i].op = "update"
      BY <1>12, <1>t DEF UpdateInRuntime, Turn
    <3> QED BY <3>1 DEF Item
  <2> DEFINE s == plan[w][i].spec
             new == [objs[i] EXCEPT !.spec = s,
                                    !.status = IF KeepsStatus THEN @ ELSE Unknown(s)]
  <2>2. ASSUME objs[i] # None PROVE new \in Obj
    BY <2>1, <2>2, <1>u, <1>t DEF Obj
  <2>3. ASSUME objs[i] # None PROVE objs' = [objs EXCEPT ![i] = new]
    BY <1>12, <1>t, <2>3 DEF UpdateInRuntime
  <2> HIDE DEF new
  <2>4. objs' \in [Ids -> Obj \cup {None}]
    BY <1>12, <1>t, <2>2, <2>3 DEF UpdateInRuntime
  <2>5. polled' \in SUBSET Ids
    BY <1>12, <1>t DEF UpdateInRuntime, Notify
  <2> QED BY <1>12, <1>10, <1>t, <2>4, <2>5 DEF UpdateInRuntime, TypeOK
<1>13. ASSUME NEW w \in Replicas, NEW i \in Ids, DeleteInRuntime(w, i) PROVE TypeOK'
  <2>1. ASSUME objs[i] # None PROVE [objs[i] EXCEPT !.deleting = TRUE] \in Obj
    BY <2>1, <1>t DEF Obj
  <2>2. objs' \in [Ids -> Obj \cup {None}]
    BY <1>13, <1>t, <2>1 DEF DeleteInRuntime
  <2>3. polled' \in SUBSET Ids
    BY <1>13, <1>t DEF DeleteInRuntime, Notify
  <2> QED BY <1>13, <1>10, <1>t, <2>2, <2>3 DEF DeleteInRuntime, TypeOK
<1>14. ASSUME NEW w \in Replicas, NEW i \in Ids, DeleteInDB(w, i) PROVE TypeOK'
  BY <1>14, <1>10, <1>t DEF DeleteInDB, TypeOK
<1>15. ASSUME NEW w \in Replicas, NEW i \in Ids, ItemFails(w, i) PROVE TypeOK'
  BY <1>15, <1>10, <1>t DEF ItemFails, TypeOK
<1>16. ASSUME NEW w \in Replicas, EndPass(w) PROVE TypeOK'
  BY <1>16, <1>t DEF EndPass, TypeOK
<1>17. ASSUME NEW w \in Replicas, NEW i \in Ids, FetchObject(w, i) PROVE TypeOK'
  <2>1. ASSUME objs[i] # None
        PROVE  [id |-> i, obj |-> objs[i], phase |-> "fetched"] \in Rec
    BY <2>1, <1>t DEF Rec
  <2>2. rec' \in [Replicas -> Rec \cup {None}]
    BY <1>17, <1>t, <2>1 DEF FetchObject
  <2> QED BY <1>17, <1>t, <2>2 DEF FetchObject, TypeOK, workerVars
<1>18. ASSUME NEW w \in Replicas, rec[w] # None
       PROVE  /\ rec[w] \in Rec
              /\ rec[w].id \in Ids
              /\ rec[w].obj.status \in Status
  BY <1>18, <1>t DEF Rec, Obj
<1>19. ASSUME NEW w \in Replicas, FetchRow(w) PROVE TypeOK'
  <2>1. rec[w] \in Rec /\ rec[w].id \in Ids
    BY <1>19, <1>18 DEF FetchRow
  <2>2. [rec[w] EXCEPT !.phase = "compared"] \in Rec
    BY <2>1 DEF Rec
  <2>3. rec' \in [Replicas -> Rec \cup {None}]
    BY <1>19, <1>t, <2>2 DEF FetchRow
  <2>4. polled' \in SUBSET Ids
    BY <1>19, <1>t, <2>1 DEF FetchRow, Requeue
  <2> QED BY <1>19, <1>t, <2>3, <2>4 DEF FetchRow, TypeOK, workerVars
<1>20. ASSUME NEW w \in Replicas, ReportStatus(w) PROVE TypeOK'
  <2> DEFINE i == rec[w].id
  <2>1. i \in Ids /\ rec[w].obj.status \in Status
    BY <1>20, <1>18 DEF ReportStatus
  <2>2. ASSUME rows[i] # None
        PROVE  [rows[i] EXCEPT !.status = rec[w].obj.status] \in Row
    BY <2>1, <2>2, <1>t DEF Row
  <2>3. rows' \in [Ids -> Row \cup {None}]
    BY <1>20, <1>t, <2>1, <2>2 DEF ReportStatus
  <2>4. polled' \in SUBSET Ids
    BY <1>20, <1>t, <2>1 DEF ReportStatus, Requeue
  <2> QED BY <1>20, <1>t, <2>3, <2>4 DEF ReportStatus, TypeOK, workerVars
<1>21. ASSUME NEW w \in Replicas, ReconcileFails(w) PROVE TypeOK'
  BY <1>21, <1>18, <1>t DEF ReconcileFails, Requeue, TypeOK, workerVars
<1>22. ASSUME Resync PROVE TypeOK'
  BY <1>22, <1>t DEF Resync, TypeOK, workerVars, Existing
<1>23. ASSUME NEW i \in Ids, NEW st \in {"Working", "Done"}, OperatorReports(i, st)
       PROVE TypeOK'
  <2>1. objs[i] \in Obj /\ objs[i].spec \in Specs
    BY <1>23, <1>t DEF OperatorReports, Obj
  <2>2. [objs[i] EXCEPT !.status = [state |-> st, of |-> objs[i].spec]] \in Obj
    BY <2>1 DEF Obj, Status, States
  <2>3. objs' \in [Ids -> Obj \cup {None}] /\ polled' \in SUBSET Ids
    BY <1>23, <1>t, <2>2 DEF OperatorReports, Notify
  <2> QED BY <1>23, <1>t, <2>3 DEF OperatorReports, TypeOK, workerVars
<1>24. ASSUME NEW i \in Ids, OperatorMarksDeleting(i) PROVE TypeOK'
  <2>1. objs[i] \in Obj /\ objs[i].spec \in Specs
    BY <1>24, <1>t DEF OperatorMarksDeleting, Obj
  <2>2. [objs[i] EXCEPT !.status = [state |-> "Deleting", of |-> objs[i].spec]] \in Obj
    BY <2>1 DEF Obj, Status, States
  <2>3. objs' \in [Ids -> Obj \cup {None}] /\ polled' \in SUBSET Ids
    BY <1>24, <1>t, <2>2 DEF OperatorMarksDeleting, Notify
  <2> QED BY <1>24, <1>t, <2>3 DEF OperatorMarksDeleting, TypeOK, workerVars
<1>25. ASSUME NEW i \in Ids, Collect(i) PROVE TypeOK'
  BY <1>25, <1>t DEF Collect, TypeOK, workerVars
<1>26. CASE UNCHANGED vars
  BY <1>26, <1>t DEF vars, workerVars, TypeOK
<1> QED
  BY <1>1, <1>2, <1>3, <1>4, <1>5, <1>6, <1>7, <1>8, <1>9, <1>11, <1>12, <1>13,
     <1>14, <1>15, <1>16, <1>17, <1>19, <1>20, <1>21, <1>22, <1>23, <1>24, <1>25,
     <1>26
  DEF Next, User, Pass, Act, Reconcile, Cluster

\* Every variable keeps its type, for every kind of entity and every number of
\* entities and controllers.
THEOREM TypeCorrect == Spec => []TypeOK
BY TypeInit, TypeNext, PTL DEF Spec

-----------------------------------------------------------------------------
(* Lists                                                                   *)

\* A page that is not shorter than the number of ids shows the whole store.
LEMMA PageIsStore ==
  ASSUME NEW T, NEW store \in [Ids -> T \cup {None}],
         NEW size \in Nat, N <= size
  PROVE  Page(store, size) = store
<1> USE SizesAssumption
<1>1. ASSUME NEW i \in Ids PROVE Cardinality({j \in Existing(store) : j < i}) < size
  <2>1. /\ IsFiniteSet(1..(i - 1))
        /\ Cardinality(1..(i - 1)) = i - 1
    BY FS_Interval DEF Ids
  <2>2. {j \in Existing(store) : j < i} \subseteq 1..(i - 1)
    BY DEF Existing, Ids
  <2>3. Cardinality({j \in Existing(store) : j < i}) <= i - 1
    BY <2>1, <2>2, FS_Subset
  <2>4. Cardinality({j \in Existing(store) : j < i}) \in Nat
    BY <2>1, <2>2, FS_Subset, FS_CardinalityType
  <2> QED BY <2>3, <2>4 DEF Ids
<1>2. FirstPage(Existing(store), size) = Existing(store)
  BY <1>1 DEF FirstPage, Existing
<1>3. \A i \in Ids : Page(store, size)[i] = store[i]
  BY <1>2 DEF Page, Existing
<1> QED BY <1>3 DEF Page

-----------------------------------------------------------------------------
(* Steps that edit a record in place                                       *)

\* An update of a row by a user keeps its mark.
LEMMA UpdateRowKeeps ==
  ASSUME TypeOK, NEW i \in Ids, NEW s \in Specs, UpdateRow(i, s)
  PROVE  \A j \in Ids : /\ rows'[j] = None <=> rows[j] = None
                        /\ rows[j] # None => (rows'[j].mark <=> rows[j].mark)
<1> DEFINE new == [rows[i] EXCEPT !.spec = s, !.status = Unknown(s)]
<1>1. rows \in [Ids -> Row \cup {None}] /\ rows[i] \in Row
  BY DEF TypeOK, UpdateRow
<1>2. Unknown(s) \in Status
  BY DEF Unknown, Status, States
<1>3. new \in Row /\ (rows[i].mark <=> new.mark)
  BY <1>1, <1>2 DEF Row
<1>4. rows' = [rows EXCEPT ![i] = new]
  BY <1>1 DEF UpdateRow
<1> HIDE DEF new
<1> QED BY <1>1, <1>3, <1>4, NoneAssumption

\* A status report keeps the mark of the row.
LEMMA ReportStatusKeeps ==
  ASSUME TypeOK, NEW w \in Replicas, ReportStatus(w)
  PROVE  \A j \in Ids : /\ rows'[j] = None <=> rows[j] = None
                        /\ rows[j] # None => (rows'[j].mark <=> rows[j].mark)
<1> DEFINE i == rec[w].id
           new == [rows[i] EXCEPT !.status = rec[w].obj.status]
<1>1. rows \in [Ids -> Row \cup {None}] /\ rec \in [Replicas -> Rec \cup {None}]
  BY DEF TypeOK
<1>2. i \in Ids /\ rec[w].obj.status \in Status
  BY <1>1 DEF ReportStatus, Rec, Obj
<1>3. ASSUME rows[i] \in Row PROVE new \in Row /\ (rows[i].mark <=> new.mark)
  BY <1>2, <1>3 DEF Row
<1>4. rows' = rows \/ (rows[i] # None /\ rows' = [rows EXCEPT ![i] = new])
  BY <1>1, <1>2 DEF ReportStatus
<1> HIDE DEF new
<1> QED BY <1>1, <1>2, <1>3, <1>4, NoneAssumption

\* A request to delete an entity leaves a marked row, and the other rows alone.
LEMMA MarkRowMarks ==
  ASSUME TypeOK, NEW i \in Ids, MarkRow(i)
  PROVE  /\ rows'[i] # None /\ rows'[i].mark
         /\ \A j \in Ids : j # i => rows'[j] = rows[j]
<1> DEFINE new == [rows[i] EXCEPT !.mark = TRUE]
<1>1. rows \in [Ids -> Row \cup {None}] /\ rows[i] \in Row
  BY DEF TypeOK, MarkRow
<1>2. new \in Row /\ new.mark
  BY <1>1 DEF Row
<1>3. rows' = [rows EXCEPT ![i] = new]
  BY <1>1 DEF MarkRow
<1> HIDE DEF new
<1> QED BY <1>1, <1>2, <1>3, NoneAssumption

\* An update of a custom resource does not start its deletion.
LEMMA UpdateInRuntimeKeeps ==
  ASSUME TypeOK, NEW w \in Replicas, NEW i \in Ids, UpdateInRuntime(w, i)
  PROVE  \A j \in Ids : /\ objs'[j] = None <=> objs[j] = None
                        /\ objs'[j] # None /\ objs'[j].deleting => objs[j].deleting
<1> DEFINE s == plan[w][i].spec
           st == IF KeepsStatus THEN objs[i].status ELSE Unknown(s)
           new == [objs[i] EXCEPT !.spec = s, !.status = st]
<1>1. objs \in [Ids -> Obj \cup {None}]
  BY DEF TypeOK
<1>2. CASE objs[i] = None
  BY <1>1, <1>2 DEF UpdateInRuntime
<1>3. CASE objs[i] # None
  <2>1. objs[i] \in Obj /\ plan[w][i] \in Item /\ plan[w][i].op = "update"
    BY <1>3 DEF UpdateInRuntime, Turn, TypeOK
  <2>2. s \in Specs
    BY <2>1 DEF Item
  <2>3. st \in Status
    BY <2>1, <2>2 DEF Obj, Unknown, Status, States
  <2>4. objs' = [objs EXCEPT ![i] = new]
    BY <1>1, <1>3 DEF UpdateInRuntime
  <2> HIDE DEF s, st
  <2>5. new \in Obj /\ (new.deleting => objs[i].deleting)
    BY <2>1, <2>2, <2>3 DEF Obj
  <2> HIDE DEF new
  <2> QED BY <1>1, <1>3, <2>4, <2>5, NoneAssumption
<1> QED BY <1>2, <1>3

\* A report of the operator behind a custom resource does not either.
LEMMA OperatorReportsKeeps ==
  ASSUME TypeOK, NEW i \in Ids, NEW st \in {"Working", "Done"}, OperatorReports(i, st)
  PROVE  \A j \in Ids : /\ objs'[j] = None <=> objs[j] = None
                        /\ objs'[j] # None /\ objs'[j].deleting => objs[j].deleting
<1> DEFINE new == [objs[i] EXCEPT !.status = [state |-> st, of |-> objs[i].spec]]
<1>1. objs \in [Ids -> Obj \cup {None}] /\ objs[i] \in Obj
  BY DEF TypeOK, OperatorReports
<1>2. [state |-> st, of |-> objs[i].spec] \in Status
  BY <1>1 DEF Obj, Status, States
<1>3. new \in Obj /\ (new.deleting => objs[i].deleting)
  BY <1>1, <1>2 DEF Obj
<1>4. objs' = [objs EXCEPT ![i] = new]
  BY <1>1 DEF OperatorReports
<1> HIDE DEF new
<1> QED BY <1>1, <1>3, <1>4, NoneAssumption

\* Nor does the report that a resource is being deleted.
LEMMA OperatorMarksDeletingKeeps ==
  ASSUME TypeOK, NEW i \in Ids, OperatorMarksDeleting(i)
  PROVE  \A j \in Ids : /\ objs'[j] = None <=> objs[j] = None
                        /\ objs'[j] # None /\ objs'[j].deleting => objs[j].deleting
<1>1. objs \in [Ids -> Obj \cup {None}] /\ objs[i] \in Obj /\ objs[i].deleting
  BY DEF TypeOK, OperatorMarksDeleting
<1> DEFINE new == [objs[i] EXCEPT !.status = [state |-> "Deleting", of |-> objs[i].spec]]
<1>2. new \in Obj
  BY <1>1 DEF Obj, Status, States
<1>3. objs' = [objs EXCEPT ![i] = new]
  BY <1>1 DEF OperatorMarksDeleting
<1> HIDE DEF new
<1> QED BY <1>1, <1>2, <1>3, NoneAssumption

-----------------------------------------------------------------------------
(* The two stores agree                                                    *)

\* Empty stores agree and no replica has read anything yet.
LEMMA StoresAgreeInit == Init => StoresAgree
BY DEF Init, StoresAgree, NoOrphanObject, DeletingIsMarked, StartedIsRunning,
       ListedIsSafe, PlanIsSafe, Idle, Skip

\* No step of anyone makes what a pass has read or planned unjustified: while one
\* controller works on complete lists, nobody else creates or removes an object
\* and nobody else removes a marked row (GetNotSynced, SyncSpecs).
LEMMA StoresAgreeNext ==
  Guarded /\ TypeOK /\ StoresAgree /\ [Next]_vars => StoresAgree'
<1> SUFFICES ASSUME Guarded, TypeOK, StoresAgree, [Next]_vars PROVE StoresAgree'
  OBVIOUS
<1>t. /\ rows \in [Ids -> Row \cup {None}]
      /\ objs \in [Ids -> Obj \cup {None}]
      /\ started \in SUBSET Ids
      /\ pc \in [Replicas -> {"idle", "listing", "acting"}]
      /\ listed \in [Replicas -> [Ids -> Obj \cup {None}]]
      /\ plan \in [Replicas -> [Ids -> Item]]
  BY DEF TypeOK
<1>g. /\ MarkedDelete /\ ~JoinsService /\ ~HidesErrors
      /\ N <= StoragePage /\ N <= RuntimePage
  BY DEF Guarded, CompleteLists
<1>o. \A v, w \in Replicas : v = w
  BY DEF Guarded, OneController
<1>s. Skip.op = "skip"
  BY DEF Skip
<1>u. \A s \in Specs : Unknown(s) \in Status
  BY DEF Unknown, Status, States
<1>n. None \notin Row /\ None \notin Obj
  BY NoneAssumption
<1> USE DEF StoresAgree, NoOrphanObject, DeletingIsMarked, StartedIsRunning,
            ListedIsSafe, PlanIsSafe
\* What a step that neither creates nor removes anything has to keep.
<1>f. ASSUME \A i \in Ids : /\ rows'[i] = None <=> rows[i] = None
                            /\ rows[i] # None /\ rows[i].mark => rows'[i].mark
                            /\ objs'[i] = None <=> objs[i] = None
                            /\ objs'[i] # None /\ objs'[i].deleting => objs[i].deleting,
             UNCHANGED <<started, pc, listed, plan>>
      PROVE  StoresAgree'
  BY <1>f, <1>t, <1>s
<1>1. ASSUME NEW i \in Ids, NEW s \in Specs, CreateRow(i, s) PROVE StoresAgree'
  <2> DEFINE new == [spec |-> s, mark |-> FALSE, status |-> Unknown(s)]
  <2>1. new \in Row
    BY <1>u DEF Row
  <2>2. rows' = [rows EXCEPT ![i] = new]
    BY <1>1 DEF CreateRow
  <2> HIDE DEF new
  <2> QED BY <1>1, <1>t, <1>s, <1>n, <2>1, <2>2 DEF CreateRow, workerVars
<1>2. ASSUME NEW i \in Ids, NEW s \in Specs, UpdateRow(i, s) PROVE StoresAgree'
  BY <1>2, <1>f, UpdateRowKeeps DEF UpdateRow, workerVars
<1>3. ASSUME NEW i \in Ids, MarkRow(i) PROVE StoresAgree'
  <2>1. rows[i] # None /\ rows'[i] # None /\ rows'[i].mark
    BY <1>3, MarkRowMarks DEF MarkRow
  <2>2. \A j \in Ids : j # i => rows'[j] = rows[j]
    BY <1>3, MarkRowMarks
  <2>3. \A j \in Ids : /\ rows'[j] = None <=> rows[j] = None
                       /\ rows[j] # None /\ rows[j].mark => rows'[j].mark
    BY <2>1, <2>2
  <2> QED BY <1>3, <1>f, <2>3 DEF MarkRow, workerVars
<1>4. ASSUME NEW i \in Ids, DeleteRow(i) PROVE StoresAgree'
  BY <1>4, <1>g DEF DeleteRow
<1>5. ASSUME NEW w \in Replicas, Acquire(w) PROVE StoresAgree'
  BY <1>5 DEF Acquire, workerVars
<1>6. ASSUME NEW w \in Replicas, Crash(w) PROVE StoresAgree'
  BY <1>6, <1>t, <1>o, <1>s DEF Crash, Idle
<1>7. ASSUME NEW w \in Replicas, ListRuntime(w) PROVE StoresAgree'
  <2>1. Page(objs, RuntimePage) = objs
    BY <1>t, <1>g, PageIsStore, SizesAssumption
  <2>2. RuntimeLists = {objs}
    BY <1>g, <2>1 DEF RuntimeLists
  <2> QED BY <1>7, <1>t, <1>o, <2>2 DEF ListRuntime
<1>8. ASSUME NEW w \in Replicas, NEW missed \in SUBSET Ids, ListStorage(w, missed)
      PROVE StoresAgree'
  <2>1. Page(rows, StoragePage) = rows
    BY <1>t, <1>g, PageIsStore, SizesAssumption
  <2>2. missed = {}
    BY <1>8, <1>g DEF ListStorage
  <2>3. /\ UNCHANGED <<rows, objs, started>>
        /\ pc[w] = "listing" /\ pc' = [pc EXCEPT ![w] = "acting"]
        /\ plan' = [plan EXCEPT ![w] = [i \in Ids |-> Decide(rows[i], listed[w][i])]]
    BY <1>8, <2>1, <2>2 DEF ListStorage
  <2>4. \A i \in Ids : plan'[w][i] = Decide(rows[i], listed[w][i]) /\ pc'[w] = "acting"
    BY <2>3, <1>t
  <2>5. ASSUME NEW i \in Ids
        PROVE  LET d == Decide(rows[i], listed[w][i]) IN
               /\ d.op # "skip" => rows[i] # None
               /\ d.op \in {"create", "deleteDB"} => objs[i] = None
               /\ d.op = "create" => i \notin started
               /\ d.op \in {"delete", "deleteDB"} => rows[i].mark
    <3>1. IF listed[w][i] = None THEN objs[i] = None ELSE rows[i] # None
      BY <2>3
    <3>2. rows[i] # None => rows[i].mark \in BOOLEAN
      BY <1>t DEF Row
    <3>3. CASE rows[i] = None
      BY <3>1, <3>3 DEF Decide, Skip
    <3>4. CASE rows[i] # None /\ listed[w][i] = None
      BY <3>1, <3>2, <3>4 DEF Decide, Skip
    <3>5. CASE rows[i] # None /\ listed[w][i] # None
      BY <3>2, <3>5 DEF Decide, Skip
    <3> QED BY <3>3, <3>4, <3>5
  <2>6. PlanIsSafe'
    BY <2>3, <2>4, <2>5, <1>o
  <2>7. ListedIsSafe'
    BY <2>4, <1>o
  <2> QED BY <2>3, <2>6, <2>7
<1>9. ASSUME NEW w \in Replicas, ListStorageFails(w) PROVE StoresAgree'
  BY <1>9, <1>t, <1>o DEF ListStorageFails
<1>10. ASSUME NEW w \in Replicas, NEW i \in Ids, CreateInRuntime(w, i) PROVE StoresAgree'
  <2>1. CASE objs[i] # None
    BY <1>10, <1>t, <1>s, <2>1 DEF CreateInRuntime, Turn, Tick
  <2>2. CASE objs[i] = None
    <3> DEFINE s == plan[w][i].spec
               new == [spec |-> s, deleting |-> FALSE, status |-> Unknown(s)]
    <3>1. plan[w][i] \in Item /\ plan[w][i].op = "create"
      BY <1>10, <1>t DEF CreateInRuntime, Turn
    <3>2. new \in Obj
      BY <3>1, <1>u DEF Item, Obj
    <3>3. new.deleting = FALSE
      OBVIOUS
    <3>4. objs' = [objs EXCEPT ![i] = new] /\ started' = started \cup {i}
      BY <1>10, <2>2 DEF CreateInRuntime
    <3> HIDE DEF new
    <3>5. rows[i] # None
      BY <3>1
    <3>6. /\ UNCHANGED <<rows, pc, listed>>
          /\ pc[w] = "acting"
          /\ plan' = [plan EXCEPT ![w][i] = Skip]
      BY <1>10 DEF CreateInRuntime, Turn, Tick
    <3> QED BY <1>t, <1>o, <1>s, <1>n, <3>2, <3>3, <3>4, <3>5, <3>6
  <2> QED BY <2>1, <2>2
<1>11. ASSUME NEW w \in Replicas, NEW i \in Ids, UpdateInRuntime(w, i) PROVE StoresAgree'
  <2>1. CASE objs[i] = None
    BY <1>11, <1>t, <1>s, <2>1 DEF UpdateInRuntime, Turn, Tick
  <2>2. CASE objs[i] # None
    <3>1. /\ UNCHANGED <<rows, started, pc, listed>>
          /\ plan' = [plan EXCEPT ![w][i] = Skip]
      BY <1>11 DEF UpdateInRuntime, Tick
    <3> QED BY <1>11, <1>t, <1>s, <2>2, <3>1, UpdateInRuntimeKeeps
  <2> QED BY <2>1, <2>2
<1>12. ASSUME NEW w \in Replicas, NEW i \in Ids, DeleteInRuntime(w, i) PROVE StoresAgree'
  BY <1>12, <1>t, <1>o, <1>s DEF DeleteInRuntime, Turn, Tick, Obj
<1>13. ASSUME NEW w \in Replicas, NEW i \in Ids, DeleteInDB(w, i) PROVE StoresAgree'
  BY <1>13, <1>t, <1>o, <1>s DEF DeleteInDB, Turn, Tick
<1>14. ASSUME NEW w \in Replicas, NEW i \in Ids, ItemFails(w, i) PROVE StoresAgree'
  BY <1>14, <1>t, <1>o, <1>s DEF ItemFails, Turn, Tick
<1>15. ASSUME NEW w \in Replicas, EndPass(w) PROVE StoresAgree'
  BY <1>15, <1>t, <1>o DEF EndPass, Idle
<1>16. ASSUME NEW w \in Replicas, NEW i \in Ids, FetchObject(w, i) PROVE StoresAgree'
  BY <1>16 DEF FetchObject, workerVars
<1>17. ASSUME NEW w \in Replicas, FetchRow(w) PROVE StoresAgree'
  BY <1>17 DEF FetchRow, workerVars
<1>18. ASSUME NEW w \in Replicas, ReportStatus(w) PROVE StoresAgree'
  BY <1>18, <1>f, ReportStatusKeeps DEF ReportStatus, workerVars
<1>19. ASSUME NEW w \in Replicas, ReconcileFails(w) PROVE StoresAgree'
  BY <1>19 DEF ReconcileFails, workerVars
<1>20. ASSUME Resync PROVE StoresAgree'
  BY <1>20 DEF Resync, workerVars
<1>21. ASSUME NEW i \in Ids, NEW st \in {"Working", "Done"}, OperatorReports(i, st)
       PROVE StoresAgree'
  BY <1>21, <1>f, OperatorReportsKeeps DEF OperatorReports, workerVars
<1>22. ASSUME NEW i \in Ids, OperatorMarksDeleting(i) PROVE StoresAgree'
  BY <1>22, <1>f, OperatorMarksDeletingKeeps DEF OperatorMarksDeleting, workerVars
<1>23. ASSUME NEW i \in Ids, Collect(i) PROVE StoresAgree'
  BY <1>23, <1>t DEF Collect, workerVars
<1>24. CASE UNCHANGED vars
  BY <1>24 DEF vars, workerVars
<1> QED
  BY <1>1, <1>2, <1>3, <1>4, <1>5, <1>6, <1>7, <1>8, <1>9, <1>10, <1>11, <1>12,
     <1>13, <1>14, <1>15, <1>16, <1>17, <1>18, <1>19, <1>20, <1>21, <1>22, <1>23,
     <1>24
  DEF Next, User, Pass, Act, Reconcile, Cluster

-----------------------------------------------------------------------------
(* The polling of the status reconciler                                    *)

\* Without a leader nothing has to be polled.
LEMMA PollInit == Init => PollScheduled
BY DEF Init, PollScheduled

\* An id leaves the reconcile queue only for a reconcile that puts it back, or when
\* one of the stores has lost it; a resource that is made is notified of.
LEMMA PollNext ==
  Guarded /\ TypeOK /\ StoresAgree /\ PollScheduled /\ [Next]_vars => PollScheduled'
<1> SUFFICES ASSUME Guarded, TypeOK, StoresAgree, PollScheduled, [Next]_vars
             PROVE  PollScheduled'
  OBVIOUS
<1> DEFINE Awaited(i) == i \in polled \/ \E w \in Replicas : rec[w] # None /\ rec[w].id = i
<1>t. /\ rows \in [Ids -> Row \cup {None}]
      /\ objs \in [Ids -> Obj \cup {None}]
      /\ rec \in [Replicas -> Rec \cup {None}]
      /\ lease \in Replicas \cup {None}
  BY DEF TypeOK
<1>g. MarkedDelete /\ None \notin Replicas /\ None \notin Rec
  BY NoneAssumption DEF Guarded
<1>o. \A v, w \in Replicas : v = w
  BY DEF Guarded, OneController
<1>n. \A i \in Ids : objs[i] # None => rows[i] # None
  BY DEF StoresAgree, NoOrphanObject
<1>p. \A i \in Ids : lease # None /\ rows[i] # None /\ objs[i] # None => Awaited(i)
  BY DEF PollScheduled
\* A step that neither adds what has to be polled nor gives up a polling.
<1>f. ASSUME \A i \in Ids : objs'[i] # None => objs[i] # None \/ i \in polled',
             lease' = lease \/ lease' = None,
             \A i \in Ids : lease # None /\ Awaited(i) => Awaited(i)'
      PROVE  PollScheduled'
  BY <1>f, <1>n, <1>p DEF PollScheduled
<1>q. ASSUME UNCHANGED <<lease, rec>>, polled \subseteq polled',
             \A i \in Ids : objs'[i] # None => objs[i] # None \/ i \in polled' \/ lease = None
      PROVE  PollScheduled'
  BY <1>q, <1>n, <1>p DEF PollScheduled
<1>1. ASSUME NEW i \in Ids, NEW s \in Specs, CreateRow(i, s) PROVE PollScheduled'
  BY <1>1, <1>q DEF CreateRow
<1>2. ASSUME NEW i \in Ids, NEW s \in Specs, UpdateRow(i, s) PROVE PollScheduled'
  BY <1>2, <1>q DEF UpdateRow
<1>3. ASSUME NEW i \in Ids, MarkRow(i) PROVE PollScheduled'
  BY <1>3, <1>q DEF MarkRow
<1>4. ASSUME NEW i \in Ids, DeleteRow(i) PROVE PollScheduled'
  BY <1>4, <1>q DEF DeleteRow
<1>5. ASSUME NEW w \in Replicas, Acquire(w) PROVE PollScheduled'
  BY <1>5 DEF Acquire, PollScheduled, Existing
<1>6. ASSUME NEW w \in Replicas, Crash(w) PROVE PollScheduled'
  <2>1. lease' = None
    BY <1>6, <1>t, <1>o DEF Crash
  <2> QED BY <2>1 DEF PollScheduled
<1>7. ASSUME NEW w \in Replicas, ListRuntime(w) PROVE PollScheduled'
  BY <1>7, <1>q DEF ListRuntime
<1>8. ASSUME NEW w \in Replicas, NEW missed \in SUBSET Ids, ListStorage(w, missed)
      PROVE PollScheduled'
  BY <1>8, <1>q DEF ListStorage
<1>9. ASSUME NEW w \in Replicas, ListStorageFails(w) PROVE PollScheduled'
  BY <1>9, <1>q DEF ListStorageFails
<1>10. ASSUME NEW w \in Replicas, NEW i \in Ids, CreateInRuntime(w, i)
       PROVE PollScheduled'
  <2>1. \A j \in Ids : objs'[j] # None => objs[j] # None \/ j \in polled' \/ lease = None
    BY <1>10, <1>t DEF CreateInRuntime, Notify
  <2> QED BY <1>10, <1>q, <2>1 DEF CreateInRuntime, Tick, Notify
<1>11. ASSUME NEW w \in Replicas, NEW i \in Ids, UpdateInRuntime(w, i)
       PROVE PollScheduled'
  <2>1. \A j \in Ids : objs'[j] # None => objs[j] # None
    BY <1>11, <1>t DEF UpdateInRuntime
  <2> QED BY <1>11, <1>q, <2>1 DEF UpdateInRuntime, Tick, Notify
<1>12. ASSUME NEW w \in Replicas, NEW i \in Ids, DeleteInRuntime(w, i)
       PROVE PollScheduled'
  <2>1. \A j \in Ids : objs'[j] # None => objs[j] # None
    BY <1>12, <1>t DEF DeleteInRuntime
  <2> QED BY <1>12, <1>q, <2>1 DEF DeleteInRuntime, Tick, Notify
<1>13. ASSUME NEW w \in Replicas, NEW i \in Ids, DeleteInDB(w, i) PROVE PollScheduled'
  BY <1>13, <1>q DEF DeleteInDB, Tick
<1>14. ASSUME NEW w \in Replicas, NEW i \in Ids, ItemFails(w, i) PROVE PollScheduled'
  BY <1>14, <1>q DEF ItemFails, Tick
<1>15. ASSUME NEW w \in Replicas, EndPass(w) PROVE PollScheduled'
  BY <1>15, <1>q DEF EndPass
<1>16. ASSUME NEW w \in Replicas, NEW i \in Ids, FetchObject(w, i) PROVE PollScheduled'
  <2> DEFINE new == [id |-> i, obj |-> objs[i], phase |-> "fetched"]
  <2>1. CASE objs[i] = None
    BY <1>16, <2>1, <1>p DEF FetchObject, PollScheduled
  <2>2. CASE objs[i] # None
    <3>1. new \in Rec /\ new.id = i
      BY <2>2, <1>t DEF Rec
    <3>2. rec' = [rec EXCEPT ![w] = new]
      BY <1>16, <2>2 DEF FetchObject
    <3> HIDE DEF new
    <3>3. Awaited(i)'
      BY <1>g, <1>t, <3>1, <3>2
    <3>4. \A j \in Ids : j # i /\ Awaited(j) => Awaited(j)'
      BY <1>16, <1>t, <3>2 DEF FetchObject
    <3> QED BY <1>16, <1>f, <3>3, <3>4 DEF FetchObject
  <2> QED BY <2>1, <2>2
\* What a reconcile that ends leaves behind.
<1>17. ASSUME NEW w \in Replicas, rec[w] # None,
              rec' = [rec EXCEPT ![w] = None], Requeue(w, rec[w].id),
              UNCHANGED <<objs, lease>>
       PROVE  PollScheduled'
  <2>1. lease # None => polled' = polled \cup {rec[w].id}
    BY <1>17, <1>o, <1>t DEF Requeue
  <2>2. ASSUME NEW i \in Ids, lease # None, Awaited(i) PROVE Awaited(i)'
    BY <1>17, <1>o, <2>1, <2>2
  <2>3. \A i \in Ids : objs'[i] # None => objs[i] # None
    BY <1>17
  <2> QED BY <1>17, <1>f, <2>2, <2>3
<1>18. ASSUME NEW w \in Replicas, FetchRow(w) PROVE PollScheduled'
  <2> DEFINE i == rec[w].id
  <2>1. rec[w] \in Rec /\ i \in Ids
    BY <1>18, <1>t DEF FetchRow, Rec
  <2>2. CASE rows[i] = None /\ rec' = [rec EXCEPT ![w] = None] /\ UNCHANGED polled
    <3>1. \A j \in Ids : j # i /\ Awaited(j) => Awaited(j)'
      BY <2>2, <1>o
    <3>2. UNCHANGED <<rows, objs, lease>>
      BY <1>18 DEF FetchRow
    <3> QED BY <2>2, <3>1, <3>2, <1>p DEF PollScheduled
  <2>3. CASE rec' = [rec EXCEPT ![w] = None] /\ Requeue(w, i)
    BY <1>17, <1>18, <2>3 DEF FetchRow
  <2>4. CASE rec' = [rec EXCEPT ![w].phase = "compared"] /\ UNCHANGED polled
    <3> DEFINE new == [rec[w] EXCEPT !.phase = "compared"]
    <3>1. new \in Rec /\ new.id = i
      BY <2>1 DEF Rec
    <3>2. rec' = [rec EXCEPT ![w] = new]
      BY <2>4, <1>t
    <3> HIDE DEF new
    <3>3. \A j \in Ids : Awaited(j) => Awaited(j)'
      BY <2>4, <1>g, <1>t, <3>1, <3>2
    <3> QED BY <1>18, <1>f, <3>3 DEF FetchRow
  <2> QED BY <1>18, <2>2, <2>3, <2>4 DEF FetchRow
<1>19. ASSUME NEW w \in Replicas, ReportStatus(w) PROVE PollScheduled'
  BY <1>17, <1>19 DEF ReportStatus
<1>20. ASSUME NEW w \in Replicas, ReconcileFails(w) PROVE PollScheduled'
  BY <1>17, <1>20 DEF ReconcileFails
<1>21. ASSUME Resync PROVE PollScheduled'
  BY <1>21, <1>q DEF Resync
<1>22. ASSUME NEW i \in Ids, NEW st \in {"Working", "Done"}, OperatorReports(i, st)
       PROVE PollScheduled'
  <2>1. \A j \in Ids : objs'[j] # None => objs[j] # None
    BY <1>22, <1>t DEF OperatorReports
  <2> QED BY <1>22, <1>q, <2>1 DEF OperatorReports, Notify
<1>23. ASSUME NEW i \in Ids, OperatorMarksDeleting(i) PROVE PollScheduled'
  <2>1. \A j \in Ids : objs'[j] # None => objs[j] # None
    BY <1>23, <1>t DEF OperatorMarksDeleting
  <2> QED BY <1>23, <1>q, <2>1 DEF OperatorMarksDeleting, Notify
<1>24. ASSUME NEW i \in Ids, Collect(i) PROVE PollScheduled'
  <2>1. \A j \in Ids : objs'[j] # None => objs[j] # None
    BY <1>24, <1>t DEF Collect
  <2> QED BY <1>24, <1>q, <2>1 DEF Collect
<1>25. CASE UNCHANGED vars
  BY <1>25, <1>q DEF vars
<1> QED
  BY <1>1, <1>2, <1>3, <1>4, <1>5, <1>6, <1>7, <1>8, <1>9, <1>10, <1>11, <1>12,
     <1>13, <1>14, <1>15, <1>16, <1>18, <1>19, <1>20, <1>21, <1>22, <1>23, <1>24,
     <1>25
  DEF Next, User, Pass, Act, Reconcile, Cluster

-----------------------------------------------------------------------------
(* Safety of the kinds that are deleted with a mark                        *)

\* The inductive invariant holds before anything has happened.
LEMMA IInvInit == Init => IInv
BY TypeInit, StoresAgreeInit, PollInit DEF IInv

\* Every step of a guarded controller keeps the inductive invariant.
LEMMA IInvNext == Guarded /\ IInv /\ [Next]_vars => IInv'
BY TypeNext, StoresAgreeNext, PollNext DEF IInv

\* The inductive invariant holds of every behaviour of a guarded controller.
THEOREM InvariantHolds == Guarded => (Spec => []IInv)
<1> SUFFICES ASSUME Guarded PROVE Spec => []IInv
  OBVIOUS
<1>1. IInv /\ [Next]_vars => IInv'
  BY IInvNext
<1> QED BY <1>1, IInvInit, PTL DEF Spec

\* No custom resource outlives its row, however users, passes, reconciles, crashes
\* and failed calls interleave (GetNotSynced and the four loops of SyncSpecs).
THEOREM NoOrphans == Guarded => (Spec => []NoOrphanObject)
<1>1. IInv => NoOrphanObject
  BY DEF IInv, StoresAgree
<1> QED BY <1>1, InvariantHolds, PTL

\* The status reconciler always comes back to an entity both stores have.
THEOREM PollingGoesOn == Guarded => (Spec => []PollScheduled)
<1>1. IInv => PollScheduled
  BY DEF IInv
<1> QED BY <1>1, InvariantHolds, PTL

\* A custom resource changes in three ways, each with its reason.
LEMMA ObjectSteps ==
  ASSUME IInv, [Next]_vars, NEW i \in Ids, objs'[i] # objs[i]
  PROVE  \/ objs[i] = None /\ i \notin started
         \/ /\ objs[i] # None /\ objs'[i] # None
            /\ objs'[i].deleting => objs[i].deleting \/ (rows[i] # None /\ rows[i].mark)
         \/ objs[i] # None /\ rows[i] # None /\ rows[i].mark
<1> DEFINE Goal == \/ objs[i] = None /\ i \notin started
                   \/ /\ objs[i] # None /\ objs'[i] # None
                      /\ objs'[i].deleting => objs[i].deleting \/ (rows[i] # None /\ rows[i].mark)
                   \/ objs[i] # None /\ rows[i] # None /\ rows[i].mark
<1>t. TypeOK /\ objs \in [Ids -> Obj \cup {None}] /\ plan \in [Replicas -> [Ids -> Item]]
  BY DEF IInv, TypeOK
<1>d. /\ DeletingIsMarked
      /\ PlanIsSafe
  BY DEF IInv, StoresAgree
<1>1. ASSUME NEW w \in Replicas, NEW j \in Ids, CreateInRuntime(w, j) PROVE Goal
  <2>1. objs[j] = None /\ j = i
    BY <1>1, <1>t DEF CreateInRuntime
  <2> QED BY <1>1, <1>d, <2>1 DEF CreateInRuntime, Turn, PlanIsSafe
<1>2. ASSUME NEW w \in Replicas, NEW j \in Ids, UpdateInRuntime(w, j) PROVE Goal
  <2>1. objs[j] # None /\ j = i
    BY <1>2, <1>t DEF UpdateInRuntime
  <2> QED BY <1>2, <1>t, <2>1, UpdateInRuntimeKeeps
<1>3. ASSUME NEW w \in Replicas, NEW j \in Ids, DeleteInRuntime(w, j) PROVE Goal
  <2>1. objs[j] # None /\ j = i
    BY <1>3, <1>t DEF DeleteInRuntime
  <2>2. rows[i] # None /\ rows[i].mark
    BY <1>3, <1>d, <2>1 DEF DeleteInRuntime, Turn, PlanIsSafe
  <2> QED BY <2>1, <2>2
<1>4. ASSUME NEW j \in Ids, NEW st \in {"Working", "Done"}, OperatorReports(j, st) PROVE Goal
  <2>1. objs[j] # None /\ j = i
    BY <1>4, <1>t DEF OperatorReports
  <2> QED BY <1>4, <1>t, <2>1, OperatorReportsKeeps
<1>5. ASSUME NEW j \in Ids, OperatorMarksDeleting(j) PROVE Goal
  <2>1. objs[j] # None /\ j = i
    BY <1>5, <1>t DEF OperatorMarksDeleting
  <2> QED BY <1>5, <1>t, <2>1, OperatorMarksDeletingKeeps
<1>6. ASSUME NEW j \in Ids, Collect(j) PROVE Goal
  <2>1. objs[j] # None /\ j = i /\ objs[j].deleting
    BY <1>6, <1>t DEF Collect
  <2> QED BY <1>d, <2>1 DEF DeletingIsMarked
<1>7. CASE UNCHANGED objs
  BY <1>7
<1> HIDE DEF Goal
<1>8. Goal
  BY <1>1, <1>2, <1>3, <1>4, <1>5, <1>6, <1>7
  DEF Next, User, Pass, Act, Reconcile, Cluster, vars, CreateRow, UpdateRow, MarkRow,
      DeleteRow, Acquire, Crash, ListRuntime, ListStorage, ListStorageFails, DeleteInDB,
      ItemFails, EndPass, FetchObject, FetchRow, ReportStatus, ReconcileFails, Resync
<1> QED BY <1>8 DEF Goal

\* Nothing but a requested deletion takes a custom resource down.
THEOREM OnlyMarkedAreTakenDown == Guarded => (Spec => OnlyMarkedTakenDown)
<1> SUFFICES ASSUME Guarded PROVE Spec => OnlyMarkedTakenDown
  OBVIOUS
<1> DEFINE Kept == \A i \in Ids :
                     /\ objs[i] # None /\ ~objs[i].deleting
                     /\ rows[i] # None /\ ~rows[i].mark
                     => objs'[i] # None /\ ~objs'[i].deleting
<1>1. IInv /\ [Next]_vars => [Kept]_vars
  BY ObjectSteps
<1>2. Spec => []IInv
  BY InvariantHolds
<1> QED BY <1>1, <1>2, PTL DEF Spec, OnlyMarkedTakenDown

-----------------------------------------------------------------------------
(* A job is started once                                                   *)

\* Nothing is started or planned before anything has happened.
LEMMA StartsInit == Init => StartsAreKept
BY DEF Init, StartsAreKept, Idle, Skip

\* While one controller leads and its storage lists are complete, no step takes the
\* object of a started, unmarked row away, whatever its runtime lists show.
LEMMA StartsNext ==
  /\ OneController /\ N <= StoragePage
  /\ TypeOK /\ StartsAreKept /\ [Next]_vars /\ [ServicesAreRead]_vars
  => StartsAreKept'
<1> SUFFICES ASSUME OneController, N <= StoragePage, TypeOK, StartsAreKept,
                    [Next]_vars, [ServicesAreRead]_vars
             PROVE  StartsAreKept'
  OBVIOUS
<1>t. /\ rows \in [Ids -> Row \cup {None}]
      /\ objs \in [Ids -> Obj \cup {None}]
      /\ started \in SUBSET Ids
      /\ pc \in [Replicas -> {"idle", "listing", "acting"}]
      /\ plan \in [Replicas -> [Ids -> Item]]
  BY DEF TypeOK
<1>o. \A v, w \in Replicas : v = w
  BY DEF OneController
<1>s. Skip.op = "skip"
  BY DEF Skip
<1>u. \A s \in Specs : Unknown(s) \in Status
  BY DEF Unknown, Status, States
<1>n. None \notin Row /\ None \notin Obj
  BY NoneAssumption
<1> USE DEF StartsAreKept
\* What a step that neither creates nor removes anything has to keep.
<1>f. ASSUME \A i \in Ids : /\ rows'[i] # None => rows[i] # None
                            /\ rows[i].mark /\ rows'[i] # None => rows'[i].mark
                            /\ objs'[i] = None => objs[i] = None
                            /\ objs'[i] # None /\ objs'[i].deleting => objs[i].deleting,
             UNCHANGED <<started, pc, plan>>
      PROVE  StartsAreKept'
  BY <1>f, <1>t, <1>s
<1>1. ASSUME NEW i \in Ids, NEW s \in Specs, CreateRow(i, s) PROVE StartsAreKept'
  <2>1. i \notin started' /\ \A j \in Ids : j # i => rows'[j] = rows[j]
    BY <1>1, <1>t DEF CreateRow
  <2>2. started' \subseteq started /\ UNCHANGED <<objs, pc, plan>>
    BY <1>1 DEF CreateRow, workerVars
  <2> QED BY <1>t, <2>1, <2>2
<1>2. ASSUME NEW i \in Ids, NEW s \in Specs, UpdateRow(i, s) PROVE StartsAreKept'
  BY <1>2, <1>f, UpdateRowKeeps DEF UpdateRow, workerVars
<1>3. ASSUME NEW i \in Ids, MarkRow(i) PROVE StartsAreKept'
  <2>1. rows[i] # None /\ rows'[i].mark /\ \A j \in Ids : j # i => rows'[j] = rows[j]
    BY <1>3, MarkRowMarks DEF MarkRow
  <2> QED BY <1>3, <1>f, <2>1 DEF MarkRow, workerVars
<1>4. ASSUME NEW i \in Ids, DeleteRow(i) PROVE StartsAreKept'
  BY <1>4, <1>f, <1>t DEF DeleteRow, workerVars
<1>5. ASSUME NEW w \in Replicas, Acquire(w) PROVE StartsAreKept'
  BY <1>5 DEF Acquire, workerVars
<1>6. ASSUME NEW w \in Replicas, Crash(w) PROVE StartsAreKept'
  BY <1>6, <1>t, <1>o, <1>s DEF Crash, Idle
<1>7. ASSUME NEW w \in Replicas, ListRuntime(w) PROVE StartsAreKept'
  <2>1. UNCHANGED <<rows, objs, started, plan>> /\ plan[w] = [i \in Ids |-> plan[w][i]]
    BY <1>7, <1>t DEF ListRuntime
  <2>2. pc[w] # "acting"
    BY <1>7 DEF ListRuntime
  <2> QED BY <1>o, <1>s, <2>1, <2>2
<1>8. ASSUME NEW w \in Replicas, NEW missed \in SUBSET Ids, ListStorage(w, missed)
      PROVE StartsAreKept'
  <2>1. Page(rows, StoragePage) = rows
    BY <1>t, PageIsStore, SizesAssumption
  <2>2. pc[w] = "listing" /\ pc' = [pc EXCEPT ![w] = "acting"]
    BY <1>8 DEF ListStorage
  <2>3. pc' # pc
    BY <2>2, <1>t
  <2>4. ListStorage(w, {})
    BY <1>8, <2>3 DEF ServicesAreRead, vars
  <2>5. /\ UNCHANGED <<rows, objs, started>>
        /\ plan' = [plan EXCEPT ![w] = [i \in Ids |-> Decide(rows[i], listed[w][i])]]
    BY <2>1, <2>4 DEF ListStorage
  <2>6. \A i \in Ids : plan'[w][i] = Decide(rows[i], listed[w][i])
    BY <2>5, <1>t
  <2>7. ASSUME NEW i \in Ids
        PROVE  LET d == Decide(rows[i], listed[w][i]) IN
               /\ d.op = "create" => rows[i] # None /\ ~rows[i].mark
               /\ d.op = "delete" => rows[i] = None \/ rows[i].mark
    <3>1. rows[i] # None => rows[i].mark \in BOOLEAN
      BY <1>t DEF Row
    <3> QED BY <3>1 DEF Decide, Skip
  <2> QED BY <1>o, <1>t, <2>2, <2>5, <2>6, <2>7
<1>9. ASSUME NEW w \in Replicas, ListStorageFails(w) PROVE StartsAreKept'
  BY <1>9, <1>t, <1>o, <1>s DEF ListStorageFails
<1>10. ASSUME NEW w \in Replicas, NEW i \in Ids, CreateInRuntime(w, i) PROVE StartsAreKept'
  <2>1. CASE objs[i] # None
    BY <1>10, <1>t, <1>s, <2>1 DEF CreateInRuntime, Turn, Tick
  <2>2. CASE objs[i] = None
    <3> DEFINE s == plan[w][i].spec
               new == [spec |-> s, deleting |-> FALSE, status |-> Unknown(s)]
    <3>1. plan[w][i] \in Item /\ plan[w][i].op = "create"
      BY <1>10, <1>t DEF CreateInRuntime, Turn
    <3>2. new \in Obj /\ new.deleting = FALSE
      BY <3>1, <1>u DEF Item, Obj
    <3>3. objs' = [objs EXCEPT ![i] = new] /\ started' = started \cup {i}
      BY <1>10, <2>2 DEF CreateInRuntime
    <3> HIDE DEF new
    <3>4. /\ UNCHANGED <<rows, pc>>
          /\ plan' = [plan EXCEPT ![w][i] = Skip]
      BY <1>10 DEF CreateInRuntime, Tick
    <3> QED BY <1>t, <1>o, <1>s, <1>n, <3>2, <3>3, <3>4
  <2> QED BY <2>1, <2>2
<1>11. ASSUME NEW w \in Replicas, NEW i \in Ids, UpdateInRuntime(w, i) PROVE StartsAreKept'
  <2>1. /\ UNCHANGED <<rows, started, pc>>
        /\ plan' = [plan EXCEPT ![w][i] = Skip]
    BY <1>11 DEF UpdateInRuntime, Tick
  <2> QED BY <1>11, <1>t, <1>s, <2>1, UpdateInRuntimeKeeps
<1>12. ASSUME NEW w \in Replicas, NEW i \in Ids, DeleteInRuntime(w, i) PROVE StartsAreKept'
  <2>1. i \in started => rows[i] = None \/ rows[i].mark
    BY <1>12 DEF DeleteInRuntime, Turn
  <2>2. /\ UNCHANGED <<rows, started, pc>>
        /\ plan' = [plan EXCEPT ![w][i] = Skip]
        /\ \A j \in Ids : j # i => objs'[j] = objs[j]
    BY <1>12, <1>t DEF DeleteInRuntime, Tick
  <2>3. plan[w][i].op = "delete"
    BY <1>12 DEF DeleteInRuntime, Turn
  <2> QED BY <1>t, <1>o, <1>s, <2>1, <2>2, <2>3
<1>13. ASSUME NEW w \in Replicas, NEW i \in Ids, DeleteInDB(w, i) PROVE StartsAreKept'
  BY <1>13, <1>t, <1>o, <1>s DEF DeleteInDB, Turn, Tick
<1>14. ASSUME NEW w \in Replicas, NEW i \in Ids, ItemFails(w, i) PROVE StartsAreKept'
  BY <1>14, <1>t, <1>o, <1>s DEF ItemFails, Turn, Tick
<1>15. ASSUME NEW w \in Replicas, EndPass(w) PROVE StartsAreKept'
  BY <1>15, <1>t, <1>o, <1>s DEF EndPass, Idle
<1>16. ASSUME NEW w \in Replicas, NEW i \in Ids, FetchObject(w, i) PROVE StartsAreKept'
  BY <1>16 DEF FetchObject, workerVars
<1>17. ASSUME NEW w \in Replicas, FetchRow(w) PROVE StartsAreKept'
  BY <1>17 DEF FetchRow, workerVars
<1>18. ASSUME NEW w \in Replicas, ReportStatus(w) PROVE StartsAreKept'
  BY <1>18, <1>f, ReportStatusKeeps DEF ReportStatus, workerVars
<1>19. ASSUME NEW w \in Replicas, ReconcileFails(w) PROVE StartsAreKept'
  BY <1>19 DEF ReconcileFails, workerVars
<1>20. ASSUME Resync PROVE StartsAreKept'
  BY <1>20 DEF Resync, workerVars
<1>21. ASSUME NEW i \in Ids, NEW st \in {"Working", "Done"}, OperatorReports(i, st)
       PROVE StartsAreKept'
  BY <1>21, <1>f, OperatorReportsKeeps DEF OperatorReports, workerVars
<1>22. ASSUME NEW i \in Ids, OperatorMarksDeleting(i) PROVE StartsAreKept'
  BY <1>22, <1>f, OperatorMarksDeletingKeeps DEF OperatorMarksDeleting, workerVars
<1>23. ASSUME NEW i \in Ids, Collect(i) PROVE StartsAreKept'
  <2>1. objs[i] # None /\ objs[i].deleting
    BY <1>23 DEF Collect
  <2> QED BY <1>23, <1>t, <2>1 DEF Collect, workerVars
<1>24. CASE UNCHANGED vars
  BY <1>24 DEF vars, workerVars
<1> QED
  BY <1>1, <1>2, <1>3, <1>4, <1>5, <1>6, <1>7, <1>8, <1>9, <1>10, <1>11, <1>12,
     <1>13, <1>14, <1>15, <1>16, <1>17, <1>18, <1>19, <1>20, <1>21, <1>22, <1>23,
     <1>24
  DEF Next, User, Pass, Act, Reconcile, Cluster

\* An object is made for a row that has had none.
LEMMA StartIsFirst ==
  ASSUME TypeOK, StartsAreKept, [Next]_vars, NEW i \in Ids, objs[i] = None, objs'[i] # None
  PROVE  i \notin started
<1>t. objs \in [Ids -> Obj \cup {None}]
  BY DEF TypeOK
<1>1. ASSUME NEW w \in Replicas, NEW j \in Ids, CreateInRuntime(w, j) PROVE i \notin started
  <2>1. objs[j] = None /\ j = i
    BY <1>1, <1>t DEF CreateInRuntime
  <2> QED BY <1>1, <2>1 DEF CreateInRuntime, Turn, StartsAreKept
<1>2. ASSUME NEW w \in Replicas, NEW j \in Ids, UpdateInRuntime(w, j) PROVE FALSE
  BY <1>2, <1>t DEF UpdateInRuntime
<1>3. ASSUME NEW w \in Replicas, NEW j \in Ids, DeleteInRuntime(w, j) PROVE FALSE
  BY <1>3, <1>t DEF DeleteInRuntime
<1>4. ASSUME NEW j \in Ids, NEW st \in {"Working", "Done"}, OperatorReports(j, st) PROVE FALSE
  BY <1>4, <1>t DEF OperatorReports
<1>5. ASSUME NEW j \in Ids, OperatorMarksDeleting(j) PROVE FALSE
  BY <1>5, <1>t DEF OperatorMarksDeleting
<1>6. ASSUME NEW j \in Ids, Collect(j) PROVE FALSE
  BY <1>6, <1>t DEF Collect
<1>7. CASE UNCHANGED objs
  BY <1>7
<1> QED
  BY <1>1, <1>2, <1>3, <1>4, <1>5, <1>6, <1>7
  DEF Next, User, Pass, Act, Reconcile, Cluster, vars, CreateRow, UpdateRow, MarkRow,
      DeleteRow, Acquire, Crash, ListRuntime, ListStorage, ListStorageFails, DeleteInDB,
      ItemFails, EndPass, FetchObject, FetchRow, ReportStatus, ReconcileFails, Resync

\* A custom resource is created at most once for a row, for every kind of entity and
\* for batch jobs in particular: neither the empty answers of ListInferenceJob nor a
\* runtime list that shows a part makes a job run twice.  What can is a second
\* controller, more rows than a storage list returns, and a service that is not read.
THEOREM JobsStartOnce ==
  OneController /\ N <= StoragePage
    => (Spec /\ [][ServicesAreRead]_vars => StartedOnce)
<1> SUFFICES ASSUME OneController, N <= StoragePage
             PROVE  Spec /\ [][ServicesAreRead]_vars => StartedOnce
  OBVIOUS
<1> DEFINE Once == \A i \in Ids : objs[i] = None /\ objs'[i] # None => i \notin started
           Kept == TypeOK /\ StartsAreKept
<1>1. Kept /\ [Next]_vars => [Once]_vars
  BY StartIsFirst
<1>2. Init => Kept
  BY TypeInit, StartsInit
<1>3. Kept /\ [Next]_vars /\ [ServicesAreRead]_vars => Kept'
  BY TypeNext, StartsNext
<1> HIDE DEF Kept
<1> QED BY <1>1, <1>2, <1>3, PTL DEF Spec, StartedOnce

-----------------------------------------------------------------------------
(* The controller implements the life cycle of an entity                   *)

\* Empty stores are the initial state of the life cycle.
LEMMA LifecycleInit == Init => Lifecycle!Init
BY DEF Init, Lifecycle!Init, Existing

\* A step that neither makes nor removes nor marks anything is a stutter.
LEMMA LifecycleStutter ==
  ASSUME \A j \in Ids : /\ rows'[j] = None <=> rows[j] = None
                        /\ rows[j] # None => (rows'[j].mark <=> rows[j].mark)
                        /\ objs'[j] = None <=> objs[j] = None
  PROVE  UNCHANGED Lifecycle!lvars
<1>1. Existing(rows)' = Existing(rows) /\ Existing(objs)' = Existing(objs)
  BY DEF Existing
<1>2. {i \in Existing(rows) : rows[i].mark}' = {i \in Existing(rows) : rows[i].mark}
  BY <1>1 DEF Existing
<1> QED BY <1>1, <1>2 DEF Lifecycle!lvars

\* Every step of a guarded controller is a step of the life cycle or a stutter.
LEMMA LifecycleNext ==
  Guarded /\ IInv /\ [Next]_vars => [Lifecycle!Next]_(Lifecycle!lvars)
<1> SUFFICES ASSUME Guarded, IInv, [Next]_vars
             PROVE  Lifecycle!Next \/ UNCHANGED Lifecycle!lvars
  OBVIOUS
<1> DEFINE declared == Existing(rows)
           condemned == {i \in Existing(rows) : rows[i].mark}
           running == Existing(objs)
           Goal == Lifecycle!Next \/ UNCHANGED Lifecycle!lvars
<1>t. /\ TypeOK
      /\ rows \in [Ids -> Row \cup {None}]
      /\ objs \in [Ids -> Obj \cup {None}]
      /\ plan \in [Replicas -> [Ids -> Item]]
  BY DEF IInv, TypeOK
<1>d. DeletingIsMarked /\ PlanIsSafe /\ MarkedDelete
  BY DEF IInv, StoresAgree, Guarded
<1>u. \A s \in Specs : Unknown(s) \in Status
  BY DEF Unknown, Status, States
<1>1. ASSUME NEW i \in Ids, NEW s \in Specs, CreateRow(i, s) PROVE Goal
  <2> DEFINE new == [spec |-> s, mark |-> FALSE, status |-> Unknown(s)]
  <2>1. new \in Row /\ ~new.mark
    BY <1>u DEF Row
  <2>2. rows[i] = None /\ rows' = [rows EXCEPT ![i] = new] /\ objs' = objs
    BY <1>1 DEF CreateRow
  <2> HIDE DEF new
  <2>3. i \notin declared /\ declared' = declared \cup {i} /\ running' = running
    BY <1>t, <2>1, <2>2, NoneAssumption DEF Existing
  <2>4. condemned' = condemned
    BY <1>t, <2>1, <2>2, NoneAssumption DEF Existing
  <2>5. Lifecycle!Declare(i)
    BY <2>3, <2>4 DEF Lifecycle!Declare
  <2> QED BY <2>5 DEF Lifecycle!Next
<1>2. ASSUME NEW i \in Ids, NEW s \in Specs, UpdateRow(i, s) PROVE Goal
  BY <1>2, <1>t, UpdateRowKeeps, LifecycleStutter DEF UpdateRow
<1>3. ASSUME NEW i \in Ids, MarkRow(i) PROVE Goal
  <2>1. /\ rows[i] # None /\ rows'[i] # None /\ rows'[i].mark
        /\ \A j \in Ids : j # i => rows'[j] = rows[j]
        /\ objs' = objs
    BY <1>3, <1>t, MarkRowMarks DEF MarkRow
  <2>2. i \in declared /\ declared' = declared /\ running' = running
    BY <2>1 DEF Existing
  <2>3. condemned' = condemned \cup {i}
    BY <2>1 DEF Existing
  <2>4. Lifecycle!Condemn(i)
    BY <2>2, <2>3 DEF Lifecycle!Condemn
  <2> QED BY <2>4 DEF Lifecycle!Next
<1>4. ASSUME NEW w \in Replicas, NEW i \in Ids, CreateInRuntime(w, i) PROVE Goal
  <2>1. CASE objs[i] # None
    BY <1>4, <2>1, LifecycleStutter DEF CreateInRuntime
  <2>2. CASE objs[i] = None
    <3> DEFINE s == plan[w][i].spec
               new == [spec |-> s, deleting |-> FALSE, status |-> Unknown(s)]
    <3>1. plan[w][i] \in Item /\ plan[w][i].op = "create"
      BY <1>4, <1>t DEF CreateInRuntime, Turn
    <3>2. new \in Obj
      BY <3>1, <1>u DEF Item, Obj
    <3>3. rows[i] # None /\ rows' = rows /\ objs' = [objs EXCEPT ![i] = new]
      BY <1>4, <1>d, <2>2, <3>1 DEF CreateInRuntime, PlanIsSafe
    <3> HIDE DEF new
    <3>4. i \in declared /\ running' = running \cup {i}
      BY <1>t, <3>2, <3>3, NoneAssumption DEF Existing
    <3>5. declared' = declared /\ condemned' = condemned
      BY <3>3 DEF Existing
    <3>6. Lifecycle!Start(i)
      BY <3>4, <3>5 DEF Lifecycle!Start
    <3> QED BY <3>6 DEF Lifecycle!Next
  <2> QED BY <2>1, <2>2
<1>5. ASSUME NEW w \in Replicas, NEW i \in Ids, UpdateInRuntime(w, i) PROVE Goal
  BY <1>5, <1>t, UpdateInRuntimeKeeps, LifecycleStutter DEF UpdateInRuntime
\* An object that goes away is the object of a condemned entity.
<1>6. ASSUME NEW i \in Ids, objs' = [objs EXCEPT ![i] = None], rows' = rows,
             rows[i] # None, rows[i].mark
      PROVE  Goal
  <2>1. i \in condemned /\ running' = running \ {i}
    BY <1>6, <1>t DEF Existing
  <2>2. declared' = declared /\ condemned' = condemned
    BY <1>6 DEF Existing
  <2>3. Lifecycle!Stop(i)
    BY <2>1, <2>2 DEF Lifecycle!Stop
  <2> QED BY <2>3 DEF Lifecycle!Next
<1>7. ASSUME NEW w \in Replicas, NEW i \in Ids, DeleteInRuntime(w, i) PROVE Goal
  <2>1. rows[i] # None /\ rows[i].mark /\ rows' = rows
    BY <1>7, <1>d DEF DeleteInRuntime, Turn, PlanIsSafe
  <2>2. CASE Foreground /\ objs[i] # None
    <3> DEFINE new == [objs[i] EXCEPT !.deleting = TRUE]
    <3>1. new \in Obj
      BY <1>t, <2>2 DEF Obj
    <3>2. objs' = [objs EXCEPT ![i] = new]
      BY <1>7, <1>t, <2>2 DEF DeleteInRuntime
    <3> HIDE DEF new
    <3>3. \A j \in Ids : objs'[j] = None <=> objs[j] = None
      BY <1>t, <2>2, <3>1, <3>2, NoneAssumption
    <3> QED BY <2>1, <3>3, LifecycleStutter
  <2>3. CASE ~(Foreground /\ objs[i] # None)
    BY <1>6, <1>7, <2>1, <2>3 DEF DeleteInRuntime
  <2> QED BY <2>2, <2>3
<1>8. ASSUME NEW w \in Replicas, NEW i \in Ids, DeleteInDB(w, i) PROVE Goal
  <2>1. /\ rows[i] # None /\ rows[i].mark /\ objs[i] = None
        /\ rows' = [rows EXCEPT ![i] = None] /\ objs' = objs
    BY <1>8, <1>d DEF DeleteInDB, Turn, PlanIsSafe
  <2>2. i \in condemned /\ i \notin running /\ running' = running
    BY <2>1 DEF Existing
  <2>3. declared' = declared \ {i} /\ condemned' = condemned \ {i}
    BY <1>t, <2>1 DEF Existing
  <2>4. Lifecycle!Forget(i)
    BY <2>2, <2>3 DEF Lifecycle!Forget
  <2> QED BY <2>4 DEF Lifecycle!Next
<1>9. ASSUME NEW w \in Replicas, ReportStatus(w) PROVE Goal
  BY <1>9, <1>t, ReportStatusKeeps, LifecycleStutter DEF ReportStatus
<1>10. ASSUME NEW i \in Ids, NEW st \in {"Working", "Done"}, OperatorReports(i, st)
       PROVE Goal
  BY <1>10, <1>t, OperatorReportsKeeps, LifecycleStutter DEF OperatorReports
<1>11. ASSUME NEW i \in Ids, OperatorMarksDeleting(i) PROVE Goal
  BY <1>11, <1>t, OperatorMarksDeletingKeeps, LifecycleStutter DEF OperatorMarksDeleting
<1>12. ASSUME NEW i \in Ids, Collect(i) PROVE Goal
  BY <1>6, <1>12, <1>d DEF Collect, DeletingIsMarked
<1>13. CASE UNCHANGED <<rows, objs>>
  BY <1>13, LifecycleStutter
\* The steps that touch neither store.
<1>14. ASSUME NEW w \in Replicas,
              \/ Acquire(w) \/ Crash(w) \/ ListRuntime(w) \/ ListStorageFails(w)
              \/ \E missed \in SUBSET Ids : ListStorage(w, missed)
              \/ EndPass(w) \/ FetchRow(w) \/ ReconcileFails(w)
              \/ \E i \in Ids : ItemFails(w, i) \/ FetchObject(w, i)
       PROVE  UNCHANGED <<rows, objs>>
  BY <1>14 DEF Acquire, Crash, ListRuntime, ListStorage, ListStorageFails, ItemFails,
               EndPass, FetchObject, FetchRow, ReconcileFails
<1>15. Resync \/ UNCHANGED vars => UNCHANGED <<rows, objs>>
  BY DEF Resync, vars
<1>16. \A i \in Ids : ~DeleteRow(i)
  BY <1>d DEF DeleteRow
<1>17. CASE User
  BY <1>1, <1>2, <1>3, <1>16, <1>17 DEF User
<1>18. CASE \E w \in Replicas : Acquire(w) \/ Crash(w) \/ Pass(w) \/ Reconcile(w)
  BY <1>4, <1>5, <1>7, <1>8, <1>9, <1>13, <1>14, <1>18 DEF Pass, Act, Reconcile
<1>19. CASE Resync \/ UNCHANGED vars
  BY <1>13, <1>15, <1>19
<1>20. CASE Cluster
  BY <1>10, <1>11, <1>12, <1>20 DEF Cluster
<1> QED BY <1>17, <1>18, <1>19, <1>20 DEF Next

\* The controller, of any number of entities, implements the abstract life cycle.
THEOREM LifecycleImplemented == Guarded => (Spec => ImplementsLifecycle)
<1> SUFFICES ASSUME Guarded PROVE Spec => ImplementsLifecycle
  OBVIOUS
<1>1. IInv /\ [Next]_vars => [Lifecycle!Next]_(Lifecycle!lvars)
  BY LifecycleNext
<1>2. Spec => []IInv
  BY InvariantHolds
<1> QED BY <1>1, <1>2, LifecycleInit, PTL DEF Spec, ImplementsLifecycle, Lifecycle!Spec

-----------------------------------------------------------------------------
(* Status                                                                  *)

\* There is no status yet that could belong to another spec.
LEMMA StatusInit == Init => StatusesAreOwn
BY DEF Init, StatusesAreOwn

\* Every step keeps each status next to the spec it was computed for: an update
\* resets it and a report is written only under the spec it belongs to.
LEMMA StatusNext ==
  ~KeepsStatus /\ ~Immutable /\ TypeOK /\ StatusesAreOwn /\ [Next]_vars => StatusesAreOwn'
<1> SUFFICES ASSUME ~KeepsStatus, ~Immutable, TypeOK, StatusesAreOwn, [Next]_vars
             PROVE  StatusesAreOwn'
  OBVIOUS
<1>t. /\ rows \in [Ids -> Row \cup {None}]
      /\ objs \in [Ids -> Obj \cup {None}]
      /\ plan \in [Replicas -> [Ids -> Item]]
      /\ rec \in [Replicas -> Rec \cup {None}]
  BY DEF TypeOK
<1>k. ~KeepsStatus /\ ~Immutable
  OBVIOUS
<1>u. \A s \in Specs : Unknown(s) \in Status /\ Unknown(s).of = s
  BY DEF Unknown, Status, States
\* What a step has to say of each of the three places a status is kept in.
<1>r. ASSUME NEW i \in Ids, NEW new, new = None \/ Own(new),
             rows' = [rows EXCEPT ![i] = new], UNCHANGED <<objs, rec>>
      PROVE  StatusesAreOwn'
  BY <1>r, <1>t DEF StatusesAreOwn
<1>o. ASSUME NEW i \in Ids, NEW new, new = None \/ Own(new),
             objs' = [objs EXCEPT ![i] = new], UNCHANGED <<rows, rec>>
      PROVE  StatusesAreOwn'
  BY <1>o, <1>t DEF StatusesAreOwn
<1>c. ASSUME NEW w \in Replicas, NEW new, new = None \/ Own(new.obj),
             rec' = [rec EXCEPT ![w] = new], UNCHANGED <<rows, objs>>
      PROVE  StatusesAreOwn'
  BY <1>c, <1>t DEF StatusesAreOwn
<1>f. ASSUME UNCHANGED <<rows, objs, rec>> PROVE StatusesAreOwn'
  BY <1>f DEF StatusesAreOwn
<1>1. ASSUME NEW i \in Ids, NEW s \in Specs, CreateRow(i, s) PROVE StatusesAreOwn'
  <2>1. Own([spec |-> s, mark |-> FALSE, status |-> Unknown(s)])
    BY <1>u DEF Own
  <2> QED BY <1>1, <1>r, <2>1 DEF CreateRow
<1>2. ASSUME NEW i \in Ids, NEW s \in Specs, UpdateRow(i, s) PROVE StatusesAreOwn'
  <2> DEFINE new == [rows[i] EXCEPT !.spec = s, !.status = Unknown(s)]
  <2>1. rows[i] \in Row
    BY <1>2, <1>t DEF UpdateRow
  <2>2. Own(new)
    BY <2>1, <1>u DEF Own, Row
  <2>3. rows' = [rows EXCEPT ![i] = new]
    BY <1>2, <1>t DEF UpdateRow
  <2> HIDE DEF new
  <2> QED BY <1>2, <1>r, <2>2, <2>3 DEF UpdateRow
<1>3. ASSUME NEW i \in Ids, MarkRow(i) PROVE StatusesAreOwn'
  <2> DEFINE new == [rows[i] EXCEPT !.mark = TRUE]
  <2>1. rows[i] \in Row /\ Own(rows[i])
    BY <1>3, <1>t DEF MarkRow, StatusesAreOwn
  <2>2. Own(new)
    BY <2>1 DEF Own, Row
  <2>3. rows' = [rows EXCEPT ![i] = new]
    BY <1>3, <1>t DEF MarkRow
  <2> HIDE DEF new
  <2> QED BY <1>3, <1>r, <2>2, <2>3 DEF MarkRow
<1>4. ASSUME NEW i \in Ids, DeleteRow(i) PROVE StatusesAreOwn'
  BY <1>4, <1>r DEF DeleteRow
<1>5. ASSUME NEW w \in Replicas, Crash(w) PROVE StatusesAreOwn'
  BY <1>5, <1>c DEF Crash
<1>6. ASSUME NEW w \in Replicas, NEW i \in Ids, CreateInRuntime(w, i)
      PROVE StatusesAreOwn'
  <2>1. CASE objs[i] # None
    BY <1>6, <1>f, <2>1 DEF CreateInRuntime, Tick
  <2>2. CASE objs[i] = None
    <3> DEFINE s == plan[w][i].spec
    <3>1. plan[w][i] \in Item /\ plan[w][i].op = "create"
      BY <1>6, <1>t DEF CreateInRuntime, Turn
    <3>2. s \in Specs
      BY <3>1 DEF Item
    <3>3. Own([spec |-> s, deleting |-> FALSE, status |-> Unknown(s)])
      BY <3>2, <1>u DEF Own
    <3> QED BY <1>6, <1>o, <2>2, <3>3 DEF CreateInRuntime, Tick
  <2> QED BY <2>1, <2>2
<1>7. ASSUME NEW w \in Replicas, NEW i \in Ids, UpdateInRuntime(w, i)
      PROVE StatusesAreOwn'
  <2>1. CASE objs[i] = None
    BY <1>7, <1>f, <2>1 DEF UpdateInRuntime, Tick
  <2>2. CASE objs[i] # None
    <3> DEFINE s == plan[w][i].spec
               new == [objs[i] EXCEPT !.spec = s, !.status = Unknown(s)]
    <3>1. objs[i] \in Obj /\ plan[w][i] \in Item /\ plan[w][i].op = "update"
      BY <1>7, <1>t, <2>2 DEF UpdateInRuntime, Turn
    <3>2. s \in Specs
      BY <3>1 DEF Item
    <3>3. objs' = [objs EXCEPT ![i] = new] /\ UNCHANGED <<rows, rec>>
      BY <1>7, <1>t, <1>k, <2>2 DEF UpdateInRuntime, Tick
    <3> HIDE DEF s
    <3>4. Own(new)
      BY <3>1, <3>2, <1>u DEF Own, Obj
    <3> HIDE DEF new
    <3> QED BY <1>o, <3>3, <3>4
  <2> QED BY <2>1, <2>2
<1>8. ASSUME NEW w \in Replicas, NEW i \in Ids, DeleteInRuntime(w, i)
      PROVE StatusesAreOwn'
  <2>1. CASE Foreground /\ objs[i] # None
    <3> DEFINE new == [objs[i] EXCEPT !.deleting = TRUE]
    <3>1. objs[i] \in Obj /\ Own(objs[i])
      BY <1>t, <2>1 DEF StatusesAreOwn
    <3>2. Own(new)
      BY <3>1 DEF Own, Obj
    <3>3. objs' = [objs EXCEPT ![i] = new] /\ UNCHANGED <<rows, rec>>
      BY <1>8, <1>t, <2>1 DEF DeleteInRuntime, Tick
    <3> HIDE DEF new
    <3> QED BY <1>o, <3>2, <3>3
  <2>2. CASE ~(Foreground /\ objs[i] # None)
    BY <1>8, <1>o, <2>2 DEF DeleteInRuntime, Tick
  <2> QED BY <2>1, <2>2
<1>9. ASSUME NEW w \in Replicas, NEW i \in Ids, DeleteInDB(w, i) PROVE StatusesAreOwn'
  BY <1>9, <1>r DEF DeleteInDB, Tick
<1>10. ASSUME NEW w \in Replicas, NEW i \in Ids, FetchObject(w, i) PROVE StatusesAreOwn'
  <2>1. CASE objs[i] = None
    BY <1>10, <1>f, <2>1 DEF FetchObject
  <2>2. CASE objs[i] # None
    <3>1. Own([id |-> i, obj |-> objs[i], phase |-> "fetched"].obj)
      BY <2>2 DEF StatusesAreOwn
    <3> QED BY <1>10, <1>c, <2>2, <3>1 DEF FetchObject
  <2> QED BY <2>1, <2>2
<1>11. ASSUME NEW w \in Replicas, FetchRow(w) PROVE StatusesAreOwn'
  <2>1. rec[w] \in Rec /\ Own(rec[w].obj)
    BY <1>11, <1>t DEF FetchRow, StatusesAreOwn
  <2> DEFINE new == [rec[w] EXCEPT !.phase = "compared"]
  <2>2. Own(new.obj)
    BY <2>1 DEF Rec
  <2>3. CASE rec' = [rec EXCEPT ![w] = None]
    BY <1>11, <1>c, <2>3 DEF FetchRow
  <2>4. CASE rec' = [rec EXCEPT ![w].phase = "compared"]
    <3>1. rec' = [rec EXCEPT ![w] = new] /\ UNCHANGED <<rows, objs>>
      BY <1>11, <1>t, <2>4 DEF FetchRow
    <3> HIDE DEF new
    <3> QED BY <1>c, <2>2, <3>1
  <2> QED BY <1>11, <2>3, <2>4 DEF FetchRow
\* The transaction compares the specs, so the reported status fits the stored one.
<1>12. ASSUME NEW w \in Replicas, ReportStatus(w) PROVE StatusesAreOwn'
  <2> DEFINE i == rec[w].id
             new == [rows[i] EXCEPT !.status = rec[w].obj.status]
  <2>1. i \in Ids /\ Own(rec[w].obj) /\ rec' = [rec EXCEPT ![w] = None]
    BY <1>12, <1>t DEF ReportStatus, StatusesAreOwn, Rec
  <2>2. \A v \in Replicas : rec'[v] # None => Own(rec'[v].obj)
    BY <2>1, <1>t DEF StatusesAreOwn
  <2>3. CASE rows[i] # None /\ SpecsEqual(rec[w].obj, rows[i])
    <3>1. rows[i] \in Row /\ rec[w].obj.spec = rows[i].spec
      BY <1>t, <1>k, <2>1, <2>3 DEF SpecsEqual
    <3>2. Own(new)
      BY <2>1, <3>1 DEF Own, Row
    <3>3. rows' = [rows EXCEPT ![i] = new] /\ objs' = objs
      BY <1>12, <1>t, <2>3 DEF ReportStatus
    <3> HIDE DEF new, i
    <3> QED BY <1>t, <2>1, <2>2, <3>2, <3>3 DEF StatusesAreOwn
  <2>4. CASE ~(rows[i] # None /\ SpecsEqual(rec[w].obj, rows[i]))
    BY <1>12, <2>2, <2>4 DEF ReportStatus, StatusesAreOwn
  <2> QED BY <2>3, <2>4
<1>13. ASSUME NEW w \in Replicas, ReconcileFails(w) PROVE StatusesAreOwn'
  BY <1>13, <1>c DEF ReconcileFails
<1>14. ASSUME NEW i \in Ids, NEW st \in {"Working", "Done", "Deleting"}, objs[i] # None,
              objs' = [objs EXCEPT ![i].status = [state |-> st, of |-> objs[i].spec]],
              UNCHANGED <<rows, rec>>
       PROVE  StatusesAreOwn'
  <2> DEFINE new == [objs[i] EXCEPT !.status = [state |-> st, of |-> objs[i].spec]]
  <2>1. objs[i] \in Obj
    BY <1>14, <1>t
  <2>2. Own(new)
    BY <2>1 DEF Own, Obj
  <2>3. objs' = [objs EXCEPT ![i] = new]
    BY <1>14, <1>t
  <2> HIDE DEF new
  <2> QED BY <1>14, <1>o, <2>2, <2>3
<1>15. ASSUME NEW i \in Ids, NEW st \in {"Working", "Done"}, OperatorReports(i, st)
       PROVE  StatusesAreOwn'
  BY <1>14, <1>15 DEF OperatorReports
<1>16. ASSUME NEW i \in Ids, OperatorMarksDeleting(i) PROVE StatusesAreOwn'
  BY <1>14, <1>16 DEF OperatorMarksDeleting
<1>17. ASSUME NEW i \in Ids, Collect(i) PROVE StatusesAreOwn'
  BY <1>17, <1>o DEF Collect
<1>18. ASSUME NEW w \in Replicas,
              \/ Acquire(w) \/ ListRuntime(w) \/ ListStorageFails(w) \/ EndPass(w)
              \/ \E missed \in SUBSET Ids : ListStorage(w, missed)
              \/ \E i \in Ids : ItemFails(w, i)
       PROVE  StatusesAreOwn'
  BY <1>18, <1>f DEF Acquire, ListRuntime, ListStorageFails, ListStorage, EndPass,
                     ItemFails, Tick
<1>19. CASE Resync \/ UNCHANGED vars
  BY <1>19, <1>f DEF Resync, vars
<1>20. CASE User
  BY <1>1, <1>2, <1>3, <1>4, <1>20 DEF User
<1>21. CASE \E w \in Replicas : Acquire(w) \/ Crash(w) \/ Pass(w) \/ Reconcile(w)
  BY <1>5, <1>6, <1>7, <1>8, <1>9, <1>10, <1>11, <1>12, <1>13, <1>18, <1>21
  DEF Pass, Act, Reconcile
<1>22. CASE Cluster
  BY <1>15, <1>16, <1>17, <1>22 DEF Cluster
<1> QED BY <1>19, <1>20, <1>21, <1>22 DEF Next

\* A kind whose custom resource loses its status on update never stores a result
\* of an earlier spec (trainings and packagings: UpdateStatus compares the specs).
THEOREM DoneBelongsToSpec == ~KeepsStatus /\ ~Immutable => (Spec => []DoneIsOfSpec)
<1> SUFFICES ASSUME ~KeepsStatus, ~Immutable PROVE Spec => []DoneIsOfSpec
  OBVIOUS
<1>1. StatusesAreOwn /\ TypeOK /\ [Next]_vars => StatusesAreOwn'
  BY StatusNext
<1>2. StatusesAreOwn => DoneIsOfSpec
  BY DEF StatusesAreOwn, DoneIsOfSpec, Own
<1> QED BY <1>1, <1>2, StatusInit, TypeCorrect, PTL DEF Spec

-----------------------------------------------------------------------------
(* The contract with the operators                                         *)

\* What the contract says of an object that is there.
LEMMA ViewOfObject ==
  ASSUME NEW o \in Obj
  PROVE  /\ View(o) = [spec |-> o.spec, deleting |-> o.deleting, stage |-> o.status.state]
         /\ View(o) \in [spec: {o.spec}, deleting: {o.deleting}, stage: {o.status.state}]
         /\ View(o).stage \in States /\ View(o).deleting = o.deleting
         /\ View(o) # [stage |-> "Absent"]
<1>1. o # None /\ o.status.state \in States
  BY NoneAssumption DEF Obj, Status
<1>2. View(o) = [spec |-> o.spec, deleting |-> o.deleting, stage |-> o.status.state]
  BY <1>1 DEF View
<1>3. View(o).stage = o.status.state /\ "Absent" \notin States
  BY <1>2 DEF States
<1> QED BY <1>1, <1>2, <1>3

\* A create makes a new resource, where there is none.
LEMMA CreateKeepsContract ==
  ASSUME TypeOK, NEW w \in Replicas, NEW i \in Ids, CreateInRuntime(w, i), objs[i] = None
  PROVE  Contract(i)!Controller
<1> DEFINE s == plan[w][i].spec
           new == [spec |-> s, deleting |-> FALSE, status |-> Unknown(s)]
<1>1. plan[w][i] \in Item /\ plan[w][i].op = "create" /\ objs \in [Ids -> Obj \cup {None}]
  BY DEF CreateInRuntime, Turn, TypeOK
<1>2. s \in Specs
  BY <1>1 DEF Item
<1>3. new \in Obj /\ objs'[i] = new
  BY <1>1, <1>2 DEF CreateInRuntime, Obj, Unknown, Status, States
<1>4. View(new) = [spec |-> s, deleting |-> FALSE, stage |-> "Unknown"]
  BY <1>3, NoneAssumption DEF View, Unknown
<1>5. Contract(i)!Create(s)
  BY <1>3, <1>4 DEF Contract!Create, Contract!Present, Contract!Absent, View
<1> QED BY <1>2, <1>5 DEF Contract!Controller

\* An update changes the specification and, but for deployments and routes, resets
\* the status.
LEMMA UpdateKeepsContract ==
  ASSUME TypeOK, NEW w \in Replicas, NEW i \in Ids, UpdateInRuntime(w, i), objs[i] # None
  PROVE  Contract(i)!Controller
<1> DEFINE s == plan[w][i].spec
           o == objs[i]
           st == IF KeepsStatus THEN o.status ELSE Unknown(s)
           new == [o EXCEPT !.spec = s, !.status = st]
           stage == IF KeepsStatus THEN View(o).stage ELSE "Unknown"
<1>1. plan[w][i] \in Item /\ plan[w][i].op = "update" /\ objs \in [Ids -> Obj \cup {None}]
      /\ o \in Obj
  BY DEF UpdateInRuntime, Turn, TypeOK
<1>2. s \in Specs
  BY <1>1 DEF Item
<1>3. st \in Status /\ st.state = stage
  BY <1>1, <1>2, ViewOfObject DEF Obj, Unknown, Status, States
<1>4. objs' = [objs EXCEPT ![i] = new]
  BY <1>1 DEF UpdateInRuntime
<1> HIDE DEF s, st
<1>5. new \in Obj /\ new.spec = s /\ new.deleting = o.deleting /\ new.status.state = stage
  BY <1>1, <1>2, <1>3 DEF Obj
<1> HIDE DEF new, stage
<1>6. objs'[i] = new
  BY <1>1, <1>4
<1>7. View(new) \in [spec: {s}, deleting: {o.deleting}, stage: {stage}]
  BY <1>5, ViewOfObject
<1> HIDE DEF o
<1>8. View(new) = [View(o) EXCEPT !.spec = s, !.stage = stage]
  BY <1>1, <1>7, ViewOfObject
<1>9. Contract(i)!Update(s)
  BY <1>1, <1>6, <1>8, ViewOfObject
     DEF Contract!Update, Contract!Present, Contract!Absent, o, stage
<1> QED BY <1>2, <1>9 DEF Contract!Controller

\* A delete marks the resource of a deployment and removes the others.
LEMMA DeleteKeepsContract ==
  ASSUME TypeOK, NEW w \in Replicas, NEW i \in Ids, DeleteInRuntime(w, i), objs[i] # None
  PROVE  Contract(i)!Controller
<1> DEFINE o == objs[i]
           new == [o EXCEPT !.deleting = TRUE]
           yes == TRUE
<1>1. objs \in [Ids -> Obj \cup {None}] /\ o \in Obj
  BY DEF TypeOK
<1>2. CASE Foreground
  <2>1. objs' = [objs EXCEPT ![i] = new]
    BY <1>1, <1>2 DEF DeleteInRuntime
  <2>2. new \in Obj /\ new.spec = o.spec /\ new.deleting = TRUE /\ new.status = o.status
    BY <1>1 DEF Obj
  <2> HIDE DEF new
  <2>3. objs'[i] = new
    BY <1>1, <2>1
  <2>4. View(new) \in [spec: {o.spec}, deleting: {yes}, stage: {o.status.state}]
    BY <2>2, ViewOfObject
  <2> HIDE DEF o, yes
  <2>5. View(new) = [View(o) EXCEPT !.deleting = yes]
    BY <1>1, <2>4, ViewOfObject
  <2>6. View(objs'[i]) = [View(objs[i]) EXCEPT !.deleting = TRUE]
    BY <2>3, <2>5 DEF o, yes
  <2>7. View(objs[i]) # [stage |-> "Absent"]
    BY <1>1, ViewOfObject DEF o
  <2>8. Contract(i)!Delete
    BY <1>2, <2>6, <2>7, Zenon DEF Contract!Delete, Contract!Present, Contract!Absent
  <2> QED BY <2>8 DEF Contract!Controller
<1>3. CASE ~Foreground
  <2>1. objs'[i] = None
    BY <1>1, <1>3 DEF DeleteInRuntime
  <2>2. Contract(i)!Delete
    BY <1>1, <1>3, <2>1, ViewOfObject
       DEF Contract!Delete, Contract!Present, Contract!Absent, View
  <2> QED BY <2>2 DEF Contract!Controller
<1> QED BY <1>2, <1>3

\* A status that is written is the stage the contract is told of.
LEMMA StatusInView ==
  ASSUME TypeOK, NEW i \in Ids, NEW st \in States, objs[i] # None,
         objs' = [objs EXCEPT ![i].status = [state |-> st, of |-> objs[i].spec]]
  PROVE  objs[i] \in Obj /\ View(objs'[i]) = [View(objs[i]) EXCEPT !.stage = st]
<1> DEFINE o == objs[i]
           new == [o EXCEPT !.status = [state |-> st, of |-> o.spec]]
<1>1. objs \in [Ids -> Obj \cup {None}] /\ o \in Obj
  BY DEF TypeOK
<1>2. [state |-> st, of |-> o.spec] \in Status
  BY <1>1 DEF Obj, Status
<1>3. objs' = [objs EXCEPT ![i] = new]
  BY <1>1
<1>4. new \in Obj /\ new.spec = o.spec /\ new.deleting = o.deleting /\ new.status.state = st
  BY <1>1, <1>2 DEF Obj
<1> HIDE DEF new
<1>5. objs'[i] = new
  BY <1>1, <1>3
<1>6. View(new) \in [spec: {o.spec}, deleting: {o.deleting}, stage: {st}]
  BY <1>4, ViewOfObject
<1> HIDE DEF o
<1>7. View(new) = [View(o) EXCEPT !.stage = st]
  BY <1>1, <1>6, ViewOfObject
<1> QED BY <1>1, <1>5, <1>7 DEF o

\* Every step of anyone is for each resource a step of its contract, or none.
LEMMA ContractNext ==
  ASSUME TypeOK, [Next]_vars, NEW i \in Ids
  PROVE  Contract(i)!Next \/ UNCHANGED View(objs[i])
<1> DEFINE Goal == Contract(i)!Next \/ UNCHANGED View(objs[i])
<1>t. objs \in [Ids -> Obj \cup {None}]
  BY DEF TypeOK
<1>s. objs'[i] = objs[i] => Goal
  BY DEF View
<1>c. Contract(i)!Controller => Goal
  BY DEF Contract!Next
<1>o. Contract(i)!Operator => Goal
  BY DEF Contract!Next
<1> HIDE DEF Goal
<1>1. ASSUME NEW w \in Replicas, NEW j \in Ids, Act(w, j) PROVE Goal
  <2>1. CASE i # j \/ DeleteInDB(w, j)
    BY <1>1, <1>s, <1>t, <2>1 DEF Act, CreateInRuntime, UpdateInRuntime, DeleteInRuntime,
       DeleteInDB
  <2>2. CASE i = j /\ CreateInRuntime(w, j)
    BY <1>c, <1>s, <2>2, CreateKeepsContract DEF CreateInRuntime
  <2>3. CASE i = j /\ UpdateInRuntime(w, j)
    BY <1>c, <1>s, <2>3, UpdateKeepsContract DEF UpdateInRuntime
  <2>4. CASE i = j /\ DeleteInRuntime(w, j)
    <3>1. CASE objs[j] = None
      BY <1>s, <1>t, <2>4, <3>1 DEF DeleteInRuntime
    <3> QED BY <1>c, <2>4, <3>1, DeleteKeepsContract
  <2> QED BY <1>1, <2>1, <2>2, <2>3, <2>4 DEF Act
<1>2. ASSUME NEW j \in Ids, NEW st \in {"Working", "Done"}, OperatorReports(j, st)
      PROVE  Goal
  <2>1. CASE i # j
    BY <1>2, <1>s, <1>t, <2>1 DEF OperatorReports
  <2>2. CASE i = j
    <3>1. objs[i] \in Obj /\ View(objs'[i]) = [View(objs[i]) EXCEPT !.stage = st]
      BY <1>2, <2>2, StatusInView DEF OperatorReports, States
    <3>2. Contract(i)!Report(st)
      BY <1>2, <2>2, <3>1, ViewOfObject
         DEF OperatorReports, Contract!Report, Contract!Present, Contract!Absent
    <3> QED BY <1>o, <3>2 DEF Contract!Operator
  <2> QED BY <2>1, <2>2
<1>3. ASSUME NEW j \in Ids, OperatorMarksDeleting(j) PROVE Goal
  <2>1. CASE i # j
    BY <1>3, <1>s, <1>t, <2>1 DEF OperatorMarksDeleting
  <2>2. CASE i = j
    <3>1. objs[i] \in Obj /\ View(objs'[i]) = [View(objs[i]) EXCEPT !.stage = "Deleting"]
      BY <1>3, <2>2, StatusInView DEF OperatorMarksDeleting, States
    <3>2. Contract(i)!MarkDeleting
      BY <1>3, <2>2, <3>1, ViewOfObject
         DEF OperatorMarksDeleting, Contract!MarkDeleting, Contract!Present, Contract!Absent
    <3> QED BY <1>o, <3>2 DEF Contract!Operator
  <2> QED BY <2>1, <2>2
<1>4. ASSUME NEW j \in Ids, Collect(j) PROVE Goal
  <2>1. CASE i # j
    BY <1>4, <1>s, <1>t, <2>1 DEF Collect
  <2>2. CASE i = j
    <3>1. objs[i] \in Obj /\ objs[i].deleting /\ objs'[i] = None
      BY <1>4, <1>t, <2>2 DEF Collect
    <3>2. Contract(i)!Collect
      BY <3>1, ViewOfObject DEF Contract!Collect, Contract!Present, Contract!Absent, View
    <3> QED BY <1>o, <3>2 DEF Contract!Operator
  <2> QED BY <2>1, <2>2
<1>5. ASSUME NEW w \in Replicas, Pass(w), ~\E j \in Ids : Act(w, j) PROVE Goal
  BY <1>5, <1>s DEF Pass, ListRuntime, ListStorage, ListStorageFails, ItemFails, EndPass
<1>6. ASSUME NEW w \in Replicas, Acquire(w) \/ Crash(w) \/ Reconcile(w) PROVE Goal
  BY <1>6, <1>s DEF Acquire, Crash, Reconcile, FetchObject, FetchRow, ReportStatus,
     ReconcileFails
<1>7. CASE User \/ Resync \/ UNCHANGED vars
  BY <1>7, <1>s DEF User, CreateRow, UpdateRow, MarkRow, DeleteRow, Resync, vars
<1> QED BY <1>1, <1>2, <1>3, <1>4, <1>5, <1>6, <1>7 DEF Next, Cluster, Goal

\* The controller keeps its half of the contract, and relies on no more than the
\* operator's, for every kind of entity and any number of entities and controllers.
THEOREM ContractKept == Spec => KeepsContract
<1> SUFFICES ASSUME NEW i \in Ids PROVE Spec => Contract(i)!Spec
  BY DEF KeepsContract
<1>1. Init => Contract(i)!Init
  BY DEF Init, Contract!Init, Contract!Absent, View
<1>2. TypeOK /\ [Next]_vars => [Contract(i)!Next]_(View(objs[i]))
  BY ContractNext
<1> QED BY <1>1, <1>2, TypeCorrect, PTL DEF Spec, Contract!Spec

\* Whatever the contract lets an operator do to a resource, the controller is ready for:
\* it is a step of the cluster it was checked with.
THEOREM OperatorsAreExpected ==
  ASSUME TypeOK, NEW i \in Ids, NEW new \in Obj \cup {None},
         Contract(i)!Operator,
         objs' = [objs EXCEPT ![i] = new],
         new # None => Own(new),
         IF new = None THEN UNCHANGED polled ELSE Notify(i),
         UNCHANGED <<rows, started, lease, workerVars, rec>>
  PROVE  Cluster
<1> DEFINE o == objs[i]
<1>1. objs \in [Ids -> Obj \cup {None}] /\ objs'[i] = new
  BY DEF TypeOK
<1>2. o \in Obj
  BY <1>1 DEF Contract!Operator, Contract!Report, Contract!MarkDeleting, Contract!Collect,
     Contract!Present, Contract!Absent, View
<1>3. ASSUME NEW st \in States, View(new) = [View(o) EXCEPT !.stage = st]
      PROVE  objs' = [objs EXCEPT ![i].status = [state |-> st, of |-> o.spec]] /\ new # None
  <2>1. View(new) = [spec |-> o.spec, deleting |-> o.deleting, stage |-> st]
    BY <1>2, <1>3, ViewOfObject
  <2>2. new \in Obj
    BY <1>2, <2>1, ViewOfObject DEF View, States
  <2>3. new.spec = o.spec /\ new.deleting = o.deleting /\ new.status.state = st
    BY <2>1, <2>2, ViewOfObject
  <2>4. new.status \in Status /\ new.status.of = o.spec
    BY <2>2, <2>3, NoneAssumption DEF Own, Obj
  <2>5. new.status = [state |-> st, of |-> o.spec]
    BY <2>3, <2>4 DEF Status
  <2>6. new = [o EXCEPT !.status = [state |-> st, of |-> o.spec]]
    BY <1>2, <2>2, <2>3, <2>5 DEF Obj
  <2> QED BY <1>1, <2>2, <2>6, NoneAssumption
<1>4. ASSUME NEW st \in {"Working", "Done"}, Contract(i)!Report(st) PROVE Cluster
  <2>1. /\ View(new) = [View(o) EXCEPT !.stage = st]
        /\ ~View(o).deleting /\ (Finite => View(o).stage # "Done")
    BY <1>1, <1>4 DEF Contract!Report
  <2>2. ~o.deleting /\ (Finite => o.status.state # "Done")
    BY <1>2, <2>1, ViewOfObject
  <2>3. /\ objs' = [objs EXCEPT ![i].status = [state |-> st, of |-> o.spec]] /\ new # None
    BY <1>3, <2>1 DEF States
  <2>4. OperatorReports(i, st)
    BY <1>2, <2>2, <2>3, NoneAssumption DEF OperatorReports
  <2> QED BY <2>4 DEF Cluster
<1>5. CASE Contract(i)!MarkDeleting
  <2>1. View(new) = [View(o) EXCEPT !.stage = "Deleting"] /\ View(o).deleting
    BY <1>1, <1>5 DEF Contract!MarkDeleting
  <2>2. o.deleting
    BY <1>2, <2>1, ViewOfObject
  <2>3. /\ objs' = [objs EXCEPT ![i].status = [state |-> "Deleting", of |-> o.spec]]
        /\ new # None
    BY <1>3, <2>1 DEF States
  <2>4. OperatorMarksDeleting(i)
    BY <1>2, <2>2, <2>3, NoneAssumption DEF OperatorMarksDeleting
  <2> QED BY <2>4 DEF Cluster
<1>6. CASE Contract(i)!Collect
  <2>1. View(new) = [stage |-> "Absent"] /\ View(o).deleting
    BY <1>1, <1>6 DEF Contract!Collect, Contract!Absent
  <2>2. o.deleting /\ new = None
    BY <1>2, <2>1, ViewOfObject
  <2>3. Collect(i)
    BY <1>2, <2>2, NoneAssumption DEF Collect
  <2> QED BY <2>3 DEF Cluster
<1> QED BY <1>4, <1>5, <1>6 DEF Contract!Operator

=============================================================================
