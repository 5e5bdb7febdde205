--------------------------- MODULE ApiServerProofs ---------------------------
(***************************************************************************)
(* Proofs about deployments, routes and their events in the API server.    *)
(***************************************************************************)
EXTENDS ApiServerProps, FiniteSetTheorems, TLAPS

-----------------------------------------------------------------------------
(* Types                                                                   *)

\* A row of each table.
LEMMA RowTypes ==
  /\ \A d \in Deployments : d \notin Routes /\ d \in Entities
  /\ \A r \in Routes : r \notin Deployments /\ r \in Entities
  /\ None \notin Specs /\ None \notin Deployment /\ None \notin Route /\ None \notin Event
BY ApiAssumption DEF Entities

\* Nothing is stored and no transaction is open at first.
LEMMA InvInit == Init => IInv
<1> SUFFICES ASSUME Init PROVE IInv
  OBVIOUS
<1>1. /\ \A d \in Deployments : md[d] = None /\ outbox[d] = None
      /\ \A r \in Routes : mr[r] = None /\ outbox[r] = None
      /\ \A c \in Clients : tx[c] = None
  BY DEF Init, Entities
<1>2. \A d : DefaultRoutes(d) = {}
  BY <1>1 DEF DefaultRoutes
<1>3. TypeOK
  BY <1>1 DEF Init, TypeOK
<1>4. AtMostOneDefault /\ EventsTellRows /\ RoutesAreTold
  BY <1>1, <1>2 DEF AtMostOneDefault, EventsTellRows, RoutesAreTold, LastIs
<1> QED BY <1>1, <1>3, <1>4 DEF IInv

-----------------------------------------------------------------------------
(* The beginning of a transaction                                          *)

\* A transaction that begins keeps the invariant if it has what is asked of one.
LEMMA BeginKeeps ==
  ASSUME IInv, NEW c \in Clients, NEW inserts, NEW rows, NEW events,
         Begin(c, inserts, rows, events),
         NEW t, t = [inserts |-> inserts, rows |-> rows, events |-> events,
                     replaces |-> {x \in DOMAIN events : outbox[x] # None}],
         Typed(t), WritesRows(t), KeepsDefaults(t), Tells(t),
         \A d \in Deployments \cap (DOMAIN events \ DOMAIN rows) : md[d] = None,
         \A k \in Clients \ {c} : tx[k] # None =>
           InsertsApart(t, tx[k]) /\ InsertsApart(tx[k], t)
  PROVE  IInv' /\ UNCHANGED <<md, mr, outbox, belated>>
<1>1. UNCHANGED <<md, mr, outbox, belated>> /\ tx' = [tx EXCEPT ![c] = t]
  BY DEF Begin
<1>2. DOMAIN tx = Clients
  BY DEF IInv, TypeOK
<1>3. tx'[c] = t /\ \A k \in Clients \ {c} : tx'[k] = tx[k]
  BY <1>1, <1>2
<1>4. \A x : Row(x)' = Row(x)
  BY <1>1 DEF Row
<1>5. \A d : DefaultRoutes(d)' = DefaultRoutes(d)
  BY <1>1 DEF DefaultRoutes
<1>6. TypeOK'
  BY <1>1, <1>2, <1>3 DEF IInv, TypeOK, Typed
<1>7. AtMostOneDefault' /\ EventsTellRows' /\ RoutesAreTold'
  BY <1>1, <1>5 DEF IInv, AtMostOneDefault, EventsTellRows, RoutesAreTold, LastIs
<1>r. Replaces(t)
  BY DEF Replaces
<1>8. ASSUME NEW k \in Clients, tx'[k] # None
      PROVE  (WritesRows(tx[k]) /\ KeepsDefaults(tx[k]) /\ Tells(tx[k]) /\ Replaces(tx[k]))'
  <2>1. WritesRows(tx'[k]) /\ KeepsDefaults(tx'[k]) /\ Tells(tx'[k]) /\ Replaces(tx'[k])
    BY <1>3, <1>8, <1>r DEF IInv
  <2>2. WritesRows(tx[k])'
    BY <1>1, <1>4, <2>1 DEF WritesRows
  <2>3. KeepsDefaults(tx[k])'
    BY <1>1, <1>5, <2>1 DEF KeepsDefaults
  <2>4. Tells(tx[k])'
    BY <2>1 DEF Tells
  <2>5. Replaces(tx[k])'
    BY <1>1, <2>1 DEF Replaces
  <2> QED BY <2>2, <2>3, <2>4, <2>5
\* It changes what is there, and has found an event that another one has found.
<1>s. ASSUME NEW k \in Clients \ {c}, tx[k] # None
      PROVE  ReplacesToo(t, tx[k]) /\ ReplacesToo(tx[k], t)
  <2>1. WritesRows(tx[k]) /\ Replaces(tx[k])
    BY <1>s DEF IInv
  <2>2. ReplacesToo(t, tx[k])
    BY <2>1 DEF ReplacesToo, WritesRows, Row
  <2>3. ReplacesToo(tx[k], t)
    BY <2>1 DEF ReplacesToo, Replaces, Tells
  <2> QED BY <2>2, <2>3
<1>9. \A a, b \in Clients : a # b /\ tx'[a] # None /\ tx'[b] # None =>
        InsertsApart(tx'[a], tx'[b]) /\ ReplacesToo(tx'[a], tx'[b])
  BY <1>3, <1>s DEF IInv
<1>10. \A a, b \in Clients : (a # b /\ tx[a] # None /\ tx[b] # None =>
        InsertsApart(tx[a], tx[b]) /\ ReplacesToo(tx[a], tx[b]))'
  BY <1>9 DEF InsertsApart, ReplacesToo
<1> QED BY <1>1, <1>6, <1>7, <1>8, <1>10 DEF IInv

\* A request that inserts nothing is apart from all.
LEMMA ChangeKeeps ==
  ASSUME IInv, NEW c \in Clients, NEW rows, NEW events, Begin(c, {}, rows, events),
         NEW t, t = [inserts |-> {}, rows |-> rows, events |-> events,
                     replaces |-> {x \in DOMAIN events : outbox[x] # None}],
         Typed(t), WritesRows(t), KeepsDefaults(t), Tells(t),
         \A d \in Deployments \cap (DOMAIN events \ DOMAIN rows) : md[d] = None
  PROVE  IInv' /\ UNCHANGED <<md, mr, outbox, belated>>
<1>1. \A k : InsertsApart(t, tx[k]) /\ InsertsApart(tx[k], t)
  BY DEF InsertsApart
<1> QED BY <1>1, BeginKeeps

\* An update resets the status and keeps the mark.
LEMMA UpdateDeploymentKeeps ==
  ASSUME IInv, NEW c \in Clients, NEW d \in Deployments, NEW s \in Specs,
         UpdateModelDeployment(c, d, s)
  PROVE  IInv' /\ UNCHANGED <<md, mr, outbox, belated>>
<1> DEFINE row == [NewDeployment(s) EXCEPT !.mark = md[d].mark]
           rows == Only(d, row)
           events == Only(d, Says("changed", NewDeployment(s)))
           t == [inserts |-> {}, rows |-> rows, events |-> events,
                 replaces |-> {x \in DOMAIN events : outbox[x] # None}]
<1>1. md[d] # None /\ Begin(c, {}, rows, events)
  BY DEF UpdateModelDeployment
<1>2. DOMAIN rows = {d} /\ DOMAIN events = {d} /\ rows[d] = row
      /\ events[d] = Says("changed", NewDeployment(s))
  BY DEF Only
<1>3. md[d] \in Deployment
  BY <1>1 DEF IInv, TypeOK
<1>4. row \in Deployment /\ NewDeployment(s) \in Deployment /\ row.mark = md[d].mark
      /\ NewDeployment(s) = [row EXCEPT !.mark = NewDeployment(s).mark]
  BY <1>3 DEF Deployment, NewDeployment
<1>5. Says("changed", NewDeployment(s)) \in Event
  BY <1>4 DEF Says, Event, Types
<1> HIDE DEF row, rows, events
<1>6. Typed(t)
  BY <1>2, <1>4, <1>5, RowTypes DEF Typed
<1>7. WritesRows(t)
  BY <1>1, <1>2, <1>4, RowTypes DEF WritesRows, Row
<1>8. KeepsDefaults(t)
  BY <1>2, <1>4, RowTypes DEF KeepsDefaults
<1>9. Tells(t)
  BY <1>2, <1>4, RowTypes DEF Tells, Says
<1> HIDE DEF t
<1> QED BY <1>1, <1>2, <1>6, <1>7, <1>8, <1>9, ChangeKeeps DEF t

\* The status is added to the row as it was read.
LEMMA ReportDeploymentKeeps ==
  ASSUME IInv, NEW c \in Clients, NEW d \in Deployments, NEW s \in Specs,
         UpdateModelDeploymentStatus(c, d, s)
  PROVE  IInv' /\ UNCHANGED <<md, mr, outbox, belated>>
<1> DEFINE row == [md[d] EXCEPT !.status = s]
           rows == Only(d, row)
           events == Only(d, Says("changed", row))
           t == [inserts |-> {}, rows |-> rows, events |-> events,
                 replaces |-> {x \in DOMAIN events : outbox[x] # None}]
<1>1. md[d] # None /\ Begin(c, {}, rows, events)
  BY DEF UpdateModelDeploymentStatus
<1>2. DOMAIN rows = {d} /\ DOMAIN events = {d} /\ rows[d] = row
      /\ events[d] = Says("changed", row)
  BY DEF Only
<1>3. md[d] \in Deployment
  BY <1>1 DEF IInv, TypeOK
<1>4. row \in Deployment /\ row.mark = md[d].mark /\ row = [row EXCEPT !.mark = row.mark]
  BY <1>3 DEF Deployment
<1>5. Says("changed", row) \in Event
  BY <1>4 DEF Says, Event, Types
<1> HIDE DEF row, rows, events
<1>6. Typed(t)
  BY <1>2, <1>4, <1>5, RowTypes DEF Typed
<1>7. WritesRows(t)
  BY <1>1, <1>2, <1>4, RowTypes DEF WritesRows, Row
<1>8. KeepsDefaults(t)
  BY <1>2, <1>4, RowTypes DEF KeepsDefaults
<1>9. Tells(t)
  BY <1>2, <1>4, RowTypes DEF Tells, Says
<1> HIDE DEF t
<1> QED BY <1>1, <1>2, <1>6, <1>7, <1>8, <1>9, ChangeKeeps DEF t

\* The mark is set, or only told of when there is no row.
LEMMA MarkKeeps ==
  ASSUME IInv, NEW c \in Clients, NEW d \in Deployments, SetDeletionMark(c, d)
  PROVE  IInv' /\ UNCHANGED <<md, mr, outbox, belated>>
<1> DEFINE rows == IF md[d] = None THEN <<>> ELSE Only(d, [md[d] EXCEPT !.mark = TRUE])
           events == Only(d, Says("marked", None))
           t == [inserts |-> {}, rows |-> rows, events |-> events,
                 replaces |-> {x \in DOMAIN events : outbox[x] # None}]
<1>1. Begin(c, {}, rows, events)
  BY DEF SetDeletionMark
<1>2. DOMAIN events = {d} /\ events[d] = Says("marked", None)
  BY DEF Only
<1>3. Says("marked", None) \in Event
  BY DEF Says, Event, Types
<1>4. /\ DOMAIN rows \subseteq {d}
      /\ d \in DOMAIN rows =>
           md[d] # None /\ rows[d] \in Deployment /\ rows[d].mark
      /\ d \notin DOMAIN rows => md[d] = None
  <2>1. CASE md[d] = None
    <3>1. rows = <<>>
      BY <2>1
    <3>2. DOMAIN rows = {}
      BY <3>1
    <3> HIDE DEF rows
    <3> QED BY <2>1, <3>2
  <2>2. CASE md[d] # None
    <3>1. md[d] \in Deployment
      BY <2>2 DEF IInv, TypeOK
    <3>2. [md[d] EXCEPT !.mark = TRUE] \in Deployment
      BY <3>1 DEF Deployment
    <3>3. [md[d] EXCEPT !.mark = TRUE].mark
      BY <3>1 DEF Deployment
    <3>4. DOMAIN rows = {d} /\ rows[d] = [md[d] EXCEPT !.mark = TRUE]
      BY <2>2 DEF Only
    <3> QED BY <2>2, <3>2, <3>3, <3>4
  <2> QED BY <2>1, <2>2
<1> HIDE DEF rows, events
<1>6. Typed(t)
  BY <1>2, <1>3, <1>4, RowTypes DEF Typed
<1>7. WritesRows(t)
  BY <1>2, <1>4, RowTypes DEF WritesRows, Row
<1>8. KeepsDefaults(t)
  BY <1>2, <1>4, RowTypes DEF KeepsDefaults
<1>9. Tells(t)
  BY <1>2, <1>4, RowTypes DEF Tells, Says
<1>10. \A e \in Deployments \cap (DOMAIN events \ DOMAIN rows) : md[e] = None
  BY <1>2, <1>4
<1> HIDE DEF t
<1> QED BY <1>1, <1>6, <1>7, <1>8, <1>9, <1>10, ChangeKeeps DEF t

\* With the deployment goes every route that is its default one.
LEMMA DeleteDeploymentKeeps ==
  ASSUME IInv, NEW c \in Clients, NEW d \in Deployments, DeleteModelDeployment(c, d)
  PROVE  IInv' /\ UNCHANGED <<md, mr, outbox, belated>>
<1> DEFINE gone == (IF md[d] = None THEN {} ELSE {d}) \cup DefaultRoutes(d)
           rows == [x \in gone |-> None]
           events == [x \in {d} \cup DefaultRoutes(d) |-> Says("deleted", None)]
           t == [inserts |-> {}, rows |-> rows, events |-> events,
                 replaces |-> {x \in DOMAIN events : outbox[x] # None}]
<1>1. Begin(c, {}, rows, events)
  BY DEF DeleteModelDeployment
<1>2. /\ DOMAIN rows = gone /\ \A x \in gone : rows[x] = None
      /\ DOMAIN events = {d} \cup DefaultRoutes(d)
      /\ \A x \in DOMAIN events : events[x] = Says("deleted", None)
  OBVIOUS
<1>3. Says("deleted", None) \in Event
  BY DEF Says, Event, Types
<1>4. /\ DefaultRoutes(d) \subseteq Routes
      /\ \A r \in DefaultRoutes(d) : mr[r] # None
      /\ gone \subseteq {d} \cup DefaultRoutes(d)
      /\ DefaultRoutes(d) \subseteq gone
      /\ d \in gone <=> md[d] # None
  BY RowTypes DEF DefaultRoutes
<1> HIDE DEF gone, rows, events
<1>6. Typed(t)
  BY <1>2, <1>3, <1>4, RowTypes DEF Typed
<1>7. WritesRows(t)
  BY <1>2, <1>4, RowTypes DEF WritesRows, Row
<1>8. KeepsDefaults(t)
  BY <1>2, <1>4, RowTypes DEF KeepsDefaults
<1>9. Tells(t)
  BY <1>2, <1>4, RowTypes DEF Tells, Says
<1>10. \A e \in Deployments \cap (DOMAIN events \ DOMAIN rows) : md[e] = None
  BY <1>2, <1>4, RowTypes
<1> HIDE DEF t
<1> QED BY <1>1, <1>6, <1>7, <1>8, <1>9, <1>10, ChangeKeeps DEF t

\* A route that is not a default one is changed; it becomes one for a user only.
LEMMA UpdateRouteKeeps ==
  ASSUME IInv, NEW c \in Clients, NEW r \in Routes, NEW d \in Deployments,
         NEW b \in BOOLEAN, UpdateModelRoute(c, r, d, b)
  PROVE  IInv' /\ UNCHANGED <<md, mr, outbox, belated>>
<1> DEFINE row == [target |-> d, default |-> b, ready |-> FALSE]
           rows == Only(r, row)
           events == Only(r, Says("changed", row))
           t == [inserts |-> {}, rows |-> rows, events |-> events,
                 replaces |-> {x \in DOMAIN events : outbox[x] # None}]
<1>1. mr[r] # None /\ ~mr[r].default /\ (b => d \in Promoted)
      /\ Begin(c, {}, rows, events)
  BY DEF UpdateModelRoute
<1>2. DOMAIN rows = {r} /\ DOMAIN events = {r} /\ rows[r] = row
      /\ events[r] = Says("changed", row)
  BY DEF Only
<1>4. row \in Route /\ row.default = b /\ row.target = d /\ row.ready = FALSE
  BY DEF Route
<1>5. Says("changed", row) \in Event
  BY <1>4 DEF Says, Event, Types
<1> HIDE DEF row, rows, events
<1>6. Typed(t)
  BY <1>2, <1>4, <1>5, RowTypes DEF Typed
<1>7. WritesRows(t)
  BY <1>1, <1>2, <1>4, RowTypes DEF WritesRows, Row
<1>8. KeepsDefaults(t)
  BY <1>1, <1>2, <1>4, RowTypes DEF KeepsDefaults
<1>9. Tells(t)
  BY <1>2, <1>4, RowTypes DEF Tells, Says
<1> HIDE DEF t
<1> QED BY <1>1, <1>2, <1>6, <1>7, <1>8, <1>9, ChangeKeeps DEF t

\* Only whether it is ready changes.
LEMMA ReportRouteKeeps ==
  ASSUME IInv, NEW c \in Clients, NEW r \in Routes, NEW d \in Deployments,
         NEW b \in BOOLEAN, UpdateModelRouteStatus(c, r, d, b)
  PROVE  IInv' /\ UNCHANGED <<md, mr, outbox, belated>>
<1> DEFINE row == [mr[r] EXCEPT !.ready = b]
           rows == Only(r, row)
           events == Only(r, Says("changed", row))
           t == [inserts |-> {}, rows |-> rows, events |-> events,
                 replaces |-> {x \in DOMAIN events : outbox[x] # None}]
<1>1. mr[r] # None /\ Begin(c, {}, rows, events)
  BY DEF UpdateModelRouteStatus
<1>2. DOMAIN rows = {r} /\ DOMAIN events = {r} /\ rows[r] = row
      /\ events[r] = Says("changed", row)
  BY DEF Only
<1>3. mr[r] \in Route
  BY <1>1 DEF IInv, TypeOK
<1>4. row \in Route /\ row.default = mr[r].default /\ row.target = mr[r].target
  BY <1>3 DEF Route
<1>5. Says("changed", row) \in Event
  BY <1>4 DEF Says, Event, Types
<1> HIDE DEF row, rows, events
<1>6. Typed(t)
  BY <1>2, <1>4, <1>5, RowTypes DEF Typed
<1>7. WritesRows(t)
  BY <1>1, <1>2, <1>4, RowTypes DEF WritesRows, Row
<1>8. KeepsDefaults(t)
  BY <1>1, <1>2, <1>4, RowTypes DEF KeepsDefaults
<1>9. Tells(t)
  BY <1>2, <1>4, RowTypes DEF Tells, Says
<1> HIDE DEF t
<1> QED BY <1>1, <1>2, <1>6, <1>7, <1>8, <1>9, ChangeKeeps DEF t

\* A route of a user goes alone.
LEMMA DeleteRouteKeeps ==
  ASSUME IInv, NEW c \in Clients, NEW r \in Routes, DeleteModelRoute(c, r)
  PROVE  IInv' /\ UNCHANGED <<md, mr, outbox, belated>>
<1> DEFINE rows == Only(r, None)
           events == Only(r, Says("deleted", None))
           t == [inserts |-> {}, rows |-> rows, events |-> events,
                 replaces |-> {x \in DOMAIN events : outbox[x] # None}]
<1>1. mr[r] # None /\ Begin(c, {}, rows, events)
  BY DEF DeleteModelRoute
<1>2. DOMAIN rows = {r} /\ DOMAIN events = {r} /\ rows[r] = None
      /\ events[r] = Says("deleted", None)
  BY DEF Only
<1>3. Says("deleted", None) \in Event
  BY DEF Says, Event, Types
<1> HIDE DEF rows, events
<1>6. Typed(t)
  BY <1>2, <1>3, RowTypes DEF Typed
<1>7. WritesRows(t)
  BY <1>1, <1>2, RowTypes DEF WritesRows, Row
<1>8. KeepsDefaults(t)
  BY <1>2, RowTypes DEF KeepsDefaults
<1>9. Tells(t)
  BY <1>2, RowTypes DEF Tells, Says
<1> HIDE DEF t
<1> QED BY <1>1, <1>2, <1>6, <1>7, <1>8, <1>9, ChangeKeeps DEF t

\* A deployment that finds a default route is all that is inserted.
LEMMA SaveOnlyKeeps ==
  ASSUME IInv, NEW c \in Clients, NEW d \in Deployments, NEW s \in Specs, SaveOnly(c, d, s)
  PROVE  IInv' /\ UNCHANGED <<md, mr, outbox, belated>>
<1> DEFINE row == NewDeployment(s)
           inserts == {d}
           rows == Only(d, row)
           events == <<>>
           t == [inserts |-> inserts, rows |-> rows, events |-> events,
                 replaces |-> {x \in DOMAIN events : outbox[x] # None}]
<1>1. Begin(c, inserts, rows, events)
  BY DEF SaveOnly
<1>2. DOMAIN rows = {d} /\ rows[d] = row
  BY DEF Only
<1>3. DOMAIN events = {}
  OBVIOUS
<1>4. row \in Deployment /\ IsNew(row)
  BY DEF Deployment, NewDeployment, IsNew
<1> HIDE DEF row, rows, events
<1>6. Typed(t)
  BY <1>2, <1>3, <1>4, RowTypes DEF Typed
<1>7. WritesRows(t)
  BY <1>2, <1>4, RowTypes DEF WritesRows, Row
<1>8. KeepsDefaults(t)
  BY <1>2, <1>4, RowTypes DEF KeepsDefaults
<1>9. Tells(t)
  BY <1>2, <1>3, RowTypes DEF Tells
<1>10. \A k : InsertsApart(t, tx[k]) /\ InsertsApart(tx[k], t)
  BY RowTypes DEF InsertsApart
<1> HIDE DEF t
<1> QED BY <1>1, <1>3, <1>6, <1>7, <1>8, <1>9, <1>10, BeginKeeps DEF t

\* Otherwise its default route comes with it, under an id that nobody has used.
LEMMA SaveWithRouteKeeps ==
  ASSUME IInv, NEW c \in Clients, NEW d \in Deployments, NEW s \in Specs, NEW r \in Routes,
         SaveWithRoute(c, d, s, r)
  PROVE  IInv' /\ UNCHANGED <<md, mr, outbox, belated>>
<1> DEFINE new(x) == IF x = d THEN NewDeployment(s) ELSE DefaultRoute(d)
           inserts == {d, r}
           rows == [x \in {d, r} |-> new(x)]
           events == [x \in {d, r} |-> Says("changed", new(x))]
           t == [inserts |-> inserts, rows |-> rows, events |-> events,
                 replaces |-> {x \in DOMAIN events : outbox[x] # None}]
<1>1. /\ Begin(c, inserts, rows, events)
      /\ DefaultRoutes(d) = {} /\ outbox[r] = None
      /\ \A k \in Clients : tx[k] # None => r \notin tx[k].inserts
  BY DEF SaveWithRoute
<1>2. /\ DOMAIN rows = {d, r} /\ DOMAIN events = {d, r}
      /\ rows[d] = NewDeployment(s) /\ rows[r] = DefaultRoute(d)
      /\ events[d] = Says("changed", NewDeployment(s))
      /\ events[r] = Says("changed", DefaultRoute(d))
  BY RowTypes
<1>4. /\ NewDeployment(s) \in Deployment /\ IsNew(NewDeployment(s))
      /\ NewDeployment(s) = [NewDeployment(s) EXCEPT !.mark = NewDeployment(s).mark]
      /\ DefaultRoute(d) \in Route
      /\ DefaultRoute(d).target = d /\ DefaultRoute(d).ready = FALSE
  BY DEF Deployment, NewDeployment, Route, DefaultRoute, IsNew
<1>5. Says("changed", NewDeployment(s)) \in Event /\ Says("changed", DefaultRoute(d)) \in Event
  BY <1>4 DEF Says, Event, Types
<1> HIDE DEF rows, events
<1>6. Typed(t)
  BY <1>2, <1>4, <1>5, RowTypes DEF Typed
<1>7. WritesRows(t)
  BY <1>2, <1>4, RowTypes DEF WritesRows, Row
<1>8. KeepsDefaults(t)
  BY <1>1, <1>2, <1>4, RowTypes DEF KeepsDefaults
<1>9. Tells(t)
  BY <1>2, <1>4, RowTypes DEF Tells, Says
<1>10. \A k \in Clients \ {c} : tx[k] # None =>
         InsertsApart(t, tx[k]) /\ InsertsApart(tx[k], t)
  BY <1>1, RowTypes DEF InsertsApart
<1> HIDE DEF t
<1> QED BY <1>1, <1>2, <1>6, <1>7, <1>8, <1>9, <1>10, BeginKeeps DEF t

\* A user creates a route that is not a default one.
LEMMA CreateRouteKeeps ==
  ASSUME IInv, NEW c \in Clients, NEW r \in Routes, NEW d \in Deployments,
         CreateModelRoute(c, r, d)
  PROVE  IInv' /\ UNCHANGED <<md, mr, outbox, belated>>
<1> DEFINE row == [target |-> d, default |-> FALSE, ready |-> FALSE]
           inserts == {r}
           rows == Only(r, row)
           events == Only(r, Says("changed", row))
           t == [inserts |-> inserts, rows |-> rows, events |-> events,
                 replaces |-> {x \in DOMAIN events : outbox[x] # None}]
<1>1. /\ Begin(c, inserts, rows, events)
      /\ \A k \in Clients : tx[k] # None /\ r \in tx[k].inserts => ~tx[k].rows[r].default
  BY DEF CreateModelRoute
<1>2. DOMAIN rows = {r} /\ DOMAIN events = {r} /\ rows[r] = row
      /\ events[r] = Says("changed", row)
  BY DEF Only
<1>4. row \in Route /\ row.default = FALSE
  BY DEF Route
<1>5. Says("changed", row) \in Event
  BY <1>4 DEF Says, Event, Types
<1> HIDE DEF row, rows, events
<1>6. Typed(t)
  BY <1>2, <1>4, <1>5, RowTypes DEF Typed
<1>7. WritesRows(t)
  BY <1>2, <1>4, RowTypes DEF WritesRows, Row
<1>8. KeepsDefaults(t)
  BY <1>2, <1>4, RowTypes DEF KeepsDefaults
<1>9. Tells(t)
  BY <1>2, <1>4, RowTypes DEF Tells, Says
<1>10. \A k \in Clients \ {c} : tx[k] # None =>
         InsertsApart(t, tx[k]) /\ InsertsApart(tx[k], t)
  BY <1>1, <1>2, <1>4 DEF InsertsApart
<1> HIDE DEF t
<1> QED BY <1>1, <1>2, <1>6, <1>7, <1>8, <1>9, <1>10, BeginKeeps DEF t

-----------------------------------------------------------------------------
(* The end of a transaction                                                *)

\* What a commit writes, and which transactions are left.
LEMMA CommitValue ==
  ASSUME IInv, NEW c \in Clients, Commit(c)
  PROVE  /\ tx[c] # None
         /\ \A x \in tx[c].inserts : Row(x) = None
         /\ \A d \in Deployments :
              md'[d] = IF d \in DOMAIN tx[c].rows THEN tx[c].rows[d] ELSE md[d]
         /\ \A r \in Routes :
              mr'[r] = IF r \in DOMAIN tx[c].rows THEN tx[c].rows[r] ELSE mr[r]
         /\ \A x \in Entities :
              outbox'[x] = IF x \in DOMAIN tx[c].events THEN tx[c].events[x] ELSE outbox[x]
         /\ DOMAIN md' = Deployments /\ DOMAIN mr' = Routes /\ DOMAIN outbox' = Entities
         /\ DOMAIN tx' = Clients
         /\ \A k \in Clients : tx'[k] # None =>
              /\ k # c /\ tx'[k] = tx[k]
              /\ (DOMAIN tx[k].rows \ tx[k].inserts) \cap DOMAIN tx[c].rows = {}
              /\ tx[k].replaces \cap tx[c].replaces = {}
         /\ belated' = (belated \ DOMAIN tx[c].events) \cup
              {x \in DOMAIN tx[c].events \ (DOMAIN tx[c].rows \cup tx[c].replaces) :
                 outbox[x] # None}
<1>1. DOMAIN md = Deployments /\ DOMAIN mr = Routes /\ DOMAIN outbox = Entities
  BY DEF IInv, TypeOK
<1> QED BY <1>1 DEF Commit, Overwritten, Late

\* A commit keeps the invariant: rows and events are written together, and nobody is
\* left who has read what it changes.
LEMMA CommitKeeps ==
  ASSUME IInv, NEW c \in Clients, Commit(c)
  PROVE  IInv'
<1> DEFINE t == tx[c]
<1>1. /\ t # None
      /\ Typed(t) /\ WritesRows(t) /\ KeepsDefaults(t) /\ Tells(t) /\ Replaces(t)
  BY CommitValue DEF IInv, TypeOK
<1>2. /\ \A d \in Deployments : md'[d] = IF d \in DOMAIN t.rows THEN t.rows[d] ELSE md[d]
      /\ \A r \in Routes : mr'[r] = IF r \in DOMAIN t.rows THEN t.rows[r] ELSE mr[r]
      /\ \A x \in Entities :
           outbox'[x] = IF x \in DOMAIN t.events THEN t.events[x] ELSE outbox[x]
  BY CommitValue
<1>3. \A k \in Clients : tx'[k] # None =>
        /\ k # c /\ tx'[k] = tx[k] /\ tx[k] # None
        /\ (DOMAIN tx[k].rows \ tx[k].inserts) \cap DOMAIN t.rows = {}
        /\ tx[k].replaces \cap t.replaces = {}
        /\ Typed(tx[k]) /\ WritesRows(tx[k]) /\ KeepsDefaults(tx[k]) /\ Tells(tx[k])
        /\ Replaces(tx[k])
  BY CommitValue DEF IInv, TypeOK
<1>4. \A x \in t.inserts : Row(x) = None
  BY CommitValue
<1>5. /\ md' = [x \in Deployments |-> md'[x]]
      /\ mr' = [x \in Routes |-> mr'[x]]
      /\ outbox' = [x \in Entities |-> outbox'[x]]
      /\ DOMAIN tx' = Clients
  BY DEF Commit, Overwritten, IInv, TypeOK
<1>b. belated' = (belated \ DOMAIN t.events) \cup
        {x \in DOMAIN t.events \ (DOMAIN t.rows \cup t.replaces) : outbox[x] # None}
  BY CommitValue
<1>a. TypeOK /\ AtMostOneDefault /\ EventsTellRows /\ RoutesAreTold
  BY DEF IInv
<1> HIDE DEF t
<1>6. TypeOK'
  <2>1. \A d \in Deployments : md'[d] \in Deployment \cup {None}
    BY <1>1, <1>2, <1>a DEF Typed, TypeOK
  <2>2. \A r \in Routes : mr'[r] \in Route \cup {None}
    BY <1>1, <1>2, <1>a DEF Typed, TypeOK
  <2>3. \A x \in Entities : outbox'[x] \in Event \cup {None}
    BY <1>1, <1>2, <1>a DEF Typed, TypeOK
  <2>4. \A k \in Clients : tx'[k] # None => Typed(tx'[k])
    BY <1>3
  <2>5. belated' \subseteq Entities
    BY <1>1, <1>a, <1>b DEF Typed, TypeOK
  <2> QED BY <1>5, <2>1, <2>2, <2>3, <2>4, <2>5 DEF TypeOK, Typed
<1>7. AtMostOneDefault'
  <2> SUFFICES ASSUME NEW d \in Deployments \ Promoted
               PROVE  /\ \A q, r \in DefaultRoutes(d)' : q = r
                      /\ DefaultRoutes(d)' # {} => md'[d] # None
    BY DEF AtMostOneDefault
  \* A default route is a new one of a new deployment, or was there before.
  <2>1. ASSUME NEW r \in DefaultRoutes(d)'
        PROVE  \/ r \in t.inserts /\ d \in t.inserts /\ t.rows[r].default
               \/ r \in DefaultRoutes(d) /\ (r \in DOMAIN t.rows => t.rows[r] # None)
    BY <1>1, <1>2, <2>1, RowTypes DEF DefaultRoutes, KeepsDefaults, WritesRows, Row
  <2>2. d \in t.inserts => DefaultRoutes(d) = {}
    BY <1>4, <1>a DEF Row, AtMostOneDefault
  <2>3. \A r \in DefaultRoutes(d)' : r \in Routes
    BY DEF DefaultRoutes
  <2>4. \A q, r \in DefaultRoutes(d)' : q = r
    BY <1>1, <1>a, <2>1, <2>2, <2>3 DEF KeepsDefaults, AtMostOneDefault
  <2>5. ASSUME NEW r \in DefaultRoutes(d)', md'[d] = None
        PROVE  FALSE
    <3>1. CASE d \in t.inserts
      BY <1>1, <1>2, <2>5, <3>1 DEF WritesRows, Typed
    <3>2. CASE d \notin t.inserts
      <4>1. r \in DefaultRoutes(d) /\ (r \in DOMAIN t.rows => t.rows[r] # None)
        BY <2>1, <3>2
      <4>2. md[d] # None
        BY <1>a, <4>1 DEF AtMostOneDefault
      <4>3. d \in DOMAIN t.rows /\ t.rows[d] = None
        BY <1>2, <2>5, <4>2
      <4> QED BY <1>1, <4>1, <4>3 DEF KeepsDefaults
    <3> QED BY <3>1, <3>2
  <2> QED BY <2>4, <2>5
<1>8. EventsTellRows'
  <2>1. ASSUME NEW r \in Routes
        PROVE  IF mr'[r] = None THEN outbox'[r] = None \/ LastIs(r, "deleted")'
               ELSE outbox'[r] # None /\ outbox'[r].payload = mr'[r]
    BY <1>1, <1>2, <1>a, RowTypes DEF Tells, EventsTellRows, Typed, LastIs
  <2> DEFINE unseen(d) == md'[d] = None \/ IsNew(md'[d])
  <2>2. ASSUME NEW d \in Deployments
        PROVE  /\ outbox'[d] = None => unseen(d)
               /\ LastIs(d, "changed")' =>
                    /\ md'[d] # None
                    /\ outbox'[d].payload = [md'[d] EXCEPT !.mark = outbox'[d].payload.mark]
               /\ LastIs(d, "marked")' => unseen(d) \/ md'[d].mark \/ d \in belated'
               /\ LastIs(d, "deleted")' => unseen(d) \/ d \in belated'
    <3>1. CASE d \in DOMAIN t.events
      <4>1. /\ outbox'[d] = t.events[d] /\ t.events[d] \in Event
            /\ t.events[d].type \in {"changed", "marked", "deleted"}
        BY <1>1, <1>2, <3>1, RowTypes DEF Typed, Event, Types
      <4>2. CASE d \in DOMAIN t.rows
        BY <1>1, <1>2, <3>1, <4>1, <4>2, RowTypes DEF Tells, LastIs
      \* The request has found no row.
      <4>3. CASE d \notin DOMAIN t.rows
        <5>1. t.events[d].type # "changed" /\ md'[d] = md[d]
          BY <1>1, <1>2, <3>1, <4>3 DEF Tells
        <5>2. md[d] = None \/ IsNew(md[d]) \/ d \in belated'
          <6>1. CASE d \in t.replaces
            BY <1>1, <4>3, <6>1 DEF Replaces
          <6>2. CASE d \notin t.replaces /\ outbox[d] = None
            BY <1>a, <6>2 DEF EventsTellRows
          <6>3. CASE d \notin t.replaces /\ outbox[d] # None
            BY <1>b, <3>1, <4>3, <6>3
          <6> QED BY <6>1, <6>2, <6>3
        <5> QED BY <4>1, <5>1, <5>2, RowTypes DEF LastIs
      <4> QED BY <4>2, <4>3
    <3>2. CASE d \notin DOMAIN t.events
      <4>1. outbox'[d] = outbox[d] /\ (d \in belated' <=> d \in belated)
        BY <1>2, <1>b, <3>2, RowTypes
      <4>2. CASE d \in DOMAIN t.rows
        <5>1. d \in t.inserts /\ md[d] = None
          BY <1>1, <1>4, <3>2, <4>2 DEF Tells, Row
        <5>2. md'[d] # None /\ IsNew(md'[d])
          BY <1>1, <1>2, <4>2, <5>1 DEF WritesRows
        <5>3. ~LastIs(d, "changed")
          BY <1>a, <5>1 DEF EventsTellRows
        <5> QED BY <4>1, <5>2, <5>3 DEF LastIs
      <4>3. CASE d \notin DOMAIN t.rows
        <5>1. md'[d] = md[d]
          BY <1>2, <4>3
        <5> QED BY <1>a, <4>1, <5>1 DEF EventsTellRows, LastIs
      <4> QED BY <4>2, <4>3
    <3> QED BY <3>1, <3>2
  <2> QED BY <2>1, <2>2 DEF EventsTellRows
<1>9. RoutesAreTold'
  BY <1>1, <1>2, <1>a, RowTypes DEF Tells, RoutesAreTold, LastIs, Typed
<1>10. ASSUME NEW k \in Clients, tx'[k] # None
       PROVE  WritesRows(tx[k])' /\ KeepsDefaults(tx[k])' /\ Tells(tx[k])'
              /\ Replaces(tx[k])'
  <2> DEFINE u == tx[k]
  <2>1. /\ tx'[k] = u /\ u # None
        /\ (DOMAIN u.rows \ u.inserts) \cap DOMAIN t.rows = {}
        /\ u.replaces \cap t.replaces = {}
        /\ Typed(u) /\ WritesRows(u) /\ KeepsDefaults(u) /\ Tells(u) /\ Replaces(u)
    BY <1>3, <1>10
  <2>i. InsertsApart(u, t) /\ ReplacesToo(u, t)
    BY <1>1, <1>3, <1>10 DEF IInv, t
  <2> HIDE DEF u
  <2>2. WritesRows(tx[k])'
    <3>1. ASSUME NEW x \in DOMAIN u.rows \ u.inserts
          PROVE  Row(x)' = Row(x)
      BY <1>2, <2>1, <3>1 DEF Row, Typed, Entities
    <3>2. \A d \in Deployments \cap (DOMAIN u.rows \ u.inserts) : md'[d] = md[d]
      BY <1>2, <2>1
    <3> QED BY <2>1, <3>1, <3>2 DEF WritesRows
  <2>3. KeepsDefaults(tx[k])'
    <3>1. ASSUME NEW r \in Routes \cap u.inserts, u.rows[r].default
          PROVE  u.rows[r].target \in u.inserts /\ outbox'[r] = None /\ ~u.rows[r].ready
      <4>1. u.rows[r].target \in u.inserts /\ outbox[r] = None /\ ~u.rows[r].ready
        BY <2>1, <3>1 DEF KeepsDefaults
      <4>2. r \notin DOMAIN t.rows
        <5>1. r \notin t.inserts
          BY <1>1, <1>2, <2>i, <3>1 DEF InsertsApart
        <5>2. mr[r] = None
          BY <1>a, <4>1 DEF RoutesAreTold, LastIs
        <5> QED BY <1>1, <5>1, <5>2, RowTypes DEF WritesRows, Row
      <4>3. r \notin DOMAIN t.events
        BY <1>1, <4>2 DEF Tells
      <4> QED BY <1>2, <4>1, <4>3, RowTypes
    <3>2. ASSUME NEW r \in Routes \cap (DOMAIN u.rows \ u.inserts)
          PROVE  mr'[r] = mr[r]
      BY <1>2, <2>1
    <3>3. ASSUME NEW d \in (Deployments \ Promoted) \cap DOMAIN u.rows, u.rows[d] = None,
                 NEW r \in DefaultRoutes(d)'
          PROVE  r \in DefaultRoutes(d)
      <4>1. d \notin DOMAIN t.rows
        BY <2>1, <3>3 DEF WritesRows
      <4>2. r \in Routes /\ mr'[r] # None /\ mr'[r].default /\ mr'[r].target = d
        BY DEF DefaultRoutes
      <4>3. CASE r \notin DOMAIN t.rows
        BY <1>2, <4>2, <4>3 DEF DefaultRoutes
      <4>4. CASE r \in t.inserts
        BY <1>1, <1>2, <4>1, <4>2, <4>4 DEF KeepsDefaults, Typed
      <4>5. CASE r \in DOMAIN t.rows \ t.inserts
        BY <1>1, <1>2, <3>3, <4>2, <4>5, RowTypes DEF KeepsDefaults, WritesRows, DefaultRoutes, Row
      <4> QED BY <4>3, <4>4, <4>5
    <3> QED BY <2>1, <3>1, <3>2, <3>3 DEF KeepsDefaults
  <2>4. Tells(tx[k])'
    BY <2>1 DEF Tells
  <2>5. Replaces(tx[k])'
    <3>1. ASSUME NEW x \in u.replaces
          PROVE  outbox'[x] # None
      <4>1. x \in Entities /\ outbox[x] # None
        BY <2>1 DEF Typed, Replaces
      <4>2. x \in DOMAIN t.events => t.events[x] # None
        BY <1>1, RowTypes DEF Typed
      <4> QED BY <1>2, <4>1, <4>2
    \* What changes it replaces the same event, and one of the two is rolled back.
    <3>2. ASSUME NEW d \in Deployments \cap (u.replaces \ DOMAIN u.rows)
          PROVE  md'[d] = None \/ IsNew(md'[d])
      <4>1. CASE d \notin DOMAIN t.rows
        BY <1>2, <2>1, <4>1 DEF Replaces
      <4>2. CASE d \in t.inserts
        BY <1>1, <1>2, <4>2 DEF WritesRows, Typed
      <4>3. CASE d \in DOMAIN t.rows \ t.inserts
        BY <1>2, <2>1, <2>i, <4>3 DEF ReplacesToo
      <4> QED BY <4>1, <4>2, <4>3
    <3> QED BY <2>1, <3>1, <3>2 DEF Replaces
  <2> QED BY <2>2, <2>3, <2>4, <2>5
<1>11. \A a, b \in Clients : (a # b /\ tx[a] # None /\ tx[b] # None =>
         InsertsApart(tx[a], tx[b]) /\ ReplacesToo(tx[a], tx[b]))'
  BY <1>3 DEF IInv, InsertsApart, ReplacesToo
<1> QED BY <1>6, <1>7, <1>8, <1>9, <1>10, <1>11 DEF IInv

\* A transaction that is rolled back leaves nothing.
LEMMA RollbackKeeps ==
  ASSUME IInv, NEW c \in Clients, Rollback(c)
  PROVE  IInv' /\ UNCHANGED <<md, mr, outbox, belated>>
<1>1. UNCHANGED <<md, mr, outbox, belated>> /\ DOMAIN tx = Clients /\ DOMAIN tx' = Clients
  BY DEF Rollback, IInv, TypeOK
<1>2. \A k \in Clients : tx'[k] # None => tx'[k] = tx[k]
  BY DEF Rollback, IInv, TypeOK
<1>3. \A x : Row(x)' = Row(x)
  BY <1>1 DEF Row
<1>4. \A d : DefaultRoutes(d)' = DefaultRoutes(d)
  BY <1>1 DEF DefaultRoutes
<1>5. TypeOK' /\ AtMostOneDefault' /\ EventsTellRows' /\ RoutesAreTold'
  BY <1>1, <1>2, <1>4
     DEF IInv, TypeOK, Typed, AtMostOneDefault, EventsTellRows, RoutesAreTold, LastIs
<1>6. ASSUME NEW k \in Clients, tx'[k] # None
      PROVE  WritesRows(tx[k])' /\ KeepsDefaults(tx[k])' /\ Tells(tx[k])' /\ Replaces(tx[k])'
  <2>1. /\ tx'[k] = tx[k]
        /\ WritesRows(tx[k]) /\ KeepsDefaults(tx[k]) /\ Tells(tx[k]) /\ Replaces(tx[k])
    BY <1>2, <1>6 DEF IInv
  <2>2. WritesRows(tx[k])'
    BY <1>1, <1>3, <2>1 DEF WritesRows
  <2>3. KeepsDefaults(tx[k])'
    BY <1>1, <1>4, <2>1 DEF KeepsDefaults
  <2>4. Tells(tx[k])'
    BY <2>1 DEF Tells
  <2>5. Replaces(tx[k])'
    BY <1>1, <2>1 DEF Replaces
  <2> QED BY <2>2, <2>3, <2>4, <2>5
<1>7. \A a, b \in Clients : (a # b /\ tx[a] # None /\ tx[b] # None =>
        InsertsApart(tx[a], tx[b]) /\ ReplacesToo(tx[a], tx[b]))'
  BY <1>2 DEF IInv, InsertsApart, ReplacesToo
<1> QED BY <1>1, <1>5, <1>6, <1>7 DEF IInv

-----------------------------------------------------------------------------
(* The invariant                                                           *)

\* Every step but a commit leaves tables and outbox alone.
LEMMA InvNext ==
  ASSUME IInv, [Next]_vars
  PROVE  IInv' /\ (UNCHANGED <<md, mr, outbox, belated>> \/ \E c \in Clients : Commit(c))
<1>1. ASSUME NEW c \in Clients, NEW d \in Deployments, DeploymentRequest(c, d)
      PROVE  IInv' /\ UNCHANGED <<md, mr, outbox, belated>>
  <2>1. CASE \E s \in Specs : CreateModelDeployment(c, d, s)
    BY <2>1, SaveOnlyKeeps, SaveWithRouteKeeps DEF CreateModelDeployment
  <2>2. CASE \E s \in Specs : UpdateModelDeployment(c, d, s)
    BY <2>2, UpdateDeploymentKeeps
  <2>3. CASE \E s \in Specs : UpdateModelDeploymentStatus(c, d, s)
    BY <2>3, ReportDeploymentKeeps
  <2>4. CASE SetDeletionMark(c, d)
    BY <2>4, MarkKeeps
  <2>5. CASE DeleteModelDeployment(c, d)
    BY <2>5, DeleteDeploymentKeeps
  <2> QED BY <1>1, <2>1, <2>2, <2>3, <2>4, <2>5 DEF DeploymentRequest
<1>2. ASSUME NEW c \in Clients, NEW r \in Routes, RouteRequest(c, r)
      PROVE  IInv' /\ UNCHANGED <<md, mr, outbox, belated>>
  <2>1. CASE \E d \in Deployments : CreateModelRoute(c, r, d)
    BY <2>1, CreateRouteKeeps
  <2>2. CASE \E d \in Deployments, b \in BOOLEAN : UpdateModelRoute(c, r, d, b)
    BY <2>2, UpdateRouteKeeps
  <2>3. CASE \E d \in Deployments, b \in BOOLEAN : UpdateModelRouteStatus(c, r, d, b)
    BY <2>3, ReportRouteKeeps
  <2>4. CASE DeleteModelRoute(c, r)
    BY <2>4, DeleteRouteKeeps
  <2> QED BY <1>2, <2>1, <2>2, <2>3, <2>4 DEF RouteRequest
<1>3. ASSUME NEW c \in Clients, Commit(c) PROVE IInv'
  BY <1>3, CommitKeeps
<1>4. ASSUME NEW c \in Clients, Rollback(c)
      PROVE  IInv' /\ UNCHANGED <<md, mr, outbox, belated>>
  BY <1>4, RollbackKeeps
<1>5. CASE UNCHANGED vars
  <2>1. UNCHANGED <<md, mr, outbox, belated>> /\ tx' = tx
    BY <1>5 DEF vars
  <2>2. TypeOK' /\ AtMostOneDefault' /\ EventsTellRows' /\ RoutesAreTold'
    BY <2>1 DEF IInv, TypeOK, Typed, AtMostOneDefault, EventsTellRows, RoutesAreTold,
         DefaultRoutes, LastIs
  <2>3. \A c \in Clients : (tx[c] # None =>
          WritesRows(tx[c]) /\ KeepsDefaults(tx[c]) /\ Tells(tx[c]) /\ Replaces(tx[c]))'
    BY <2>1 DEF IInv, WritesRows, Row, KeepsDefaults, DefaultRoutes, Tells, Replaces
  <2>4. \A b, c \in Clients : (b # c /\ tx[b] # None /\ tx[c] # None =>
          InsertsApart(tx[b], tx[c]) /\ ReplacesToo(tx[b], tx[c]))'
    BY <2>1 DEF IInv, InsertsApart, ReplacesToo
  <2> QED BY <2>1, <2>2, <2>3, <2>4 DEF IInv
<1> QED BY <1>1, <1>2, <1>3, <1>4, <1>5 DEF Next

\* What is known of tables, events and transactions, for any number of each.
THEOREM InvariantHolds == Spec => []IInv
BY InvInit, InvNext, PTL DEF Spec

\* Tables, outbox and transactions keep their types.
THEOREM TypeCorrect == Spec => []TypeOK
<1>1. IInv => TypeOK
  BY DEF IInv
<1> QED BY <1>1, InvariantHolds, PTL

\* A deployment never has two default routes, and no default route outlives it, unless
\* a user promotes one.
THEOREM DefaultRoutesAreOwned == Spec => []DefaultRouteIsOwned
<1>1. ASSUME IInv PROVE DefaultRouteIsOwned
  <2> SUFFICES ASSUME NEW d \in Deployments \ Promoted
               PROVE  /\ Cardinality(DefaultRoutes(d)) <= 1
                      /\ DefaultRoutes(d) # {} => md[d] # None
    BY DEF DefaultRouteIsOwned
  <2>1. /\ \A q, r \in DefaultRoutes(d) : q = r
        /\ DefaultRoutes(d) # {} => md[d] # None
    BY <1>1 DEF IInv, AtMostOneDefault
  <2>2. DefaultRoutes(d) = {} \/ \E r : DefaultRoutes(d) = {r}
    BY <2>1
  <2>3. Cardinality(DefaultRoutes(d)) \in {0, 1}
    BY <2>2, FS_EmptySet, FS_Singleton
  <2> QED BY <2>1, <2>3
<1> QED BY <1>1, InvariantHolds, PTL

\* Whoever follows the events knows the rows.
THEOREM EventsAreTrue == Spec => []EventsTellRows
<1>1. IInv => EventsTellRows
  BY DEF IInv
<1> QED BY <1>1, InvariantHolds, PTL

\* No request takes a deletion mark away.
THEOREM MarksStay == Spec => MarkStays
<1> DEFINE Stays == \A d \in Deployments :
                      md[d] # None /\ md[d].mark /\ md'[d] # None => md'[d].mark
<1>1. ASSUME IInv, [Next]_vars PROVE Stays
  <2>1. CASE UNCHANGED <<md, mr, outbox, belated>>
    BY <2>1
  <2>2. ASSUME NEW c \in Clients, Commit(c), NEW d \in Deployments,
               md[d] # None, md[d].mark, md'[d] # None
        PROVE  md'[d].mark
    <3>1. tx[c] # None /\ Typed(tx[c]) /\ WritesRows(tx[c])
      BY <1>1, <2>2, CommitValue DEF IInv, TypeOK
    <3>2. d \notin tx[c].inserts
      BY <1>1, <2>2, CommitValue DEF Row
    <3>3. md'[d] = IF d \in DOMAIN tx[c].rows THEN tx[c].rows[d] ELSE md[d]
      BY <1>1, <2>2, CommitValue
    <3> QED BY <2>2, <3>1, <3>2, <3>3 DEF WritesRows
  <2> QED BY <1>1, <2>1, <2>2, InvNext
<1>2. IInv /\ [Next]_vars => [Stays]_vars
  BY <1>1
<1> QED BY <1>2, InvariantHolds, PTL DEF Spec, MarkStays

\* The events of a route come in the order module Outbox takes for granted.
THEOREM EventsFollow == Spec => RouteEventsFollow
<1> DEFINE Allowed(r) == Kind(outbox'[r]) \in
                           O!Follows(IF outbox[r] = None THEN None
                                     ELSE [id |-> 1, kind |-> Kind(outbox[r])])
           Follow == \A r \in Routes : outbox'[r] # outbox[r] => Allowed(r)
<1>1. ASSUME IInv, [Next]_vars PROVE Follow
  <2>1. CASE UNCHANGED <<md, mr, outbox, belated>>
    BY <2>1
  <2>2. ASSUME NEW c \in Clients, Commit(c), NEW r \in Routes, outbox'[r] # outbox[r]
        PROVE  Allowed(r)
    <3> DEFINE t == tx[c]
    <3>1. t # None /\ Typed(t) /\ WritesRows(t) /\ KeepsDefaults(t) /\ Tells(t)
      BY <1>1, <2>2, CommitValue DEF IInv, TypeOK
    <3>2. /\ r \in DOMAIN t.events /\ outbox'[r] = t.events[r]
          /\ \A x \in t.inserts : Row(x) = None
      BY <1>1, <2>2, CommitValue, RowTypes
    <3>3. /\ IF mr[r] = None THEN outbox[r] # None => outbox[r].type = "deleted"
             ELSE outbox[r] # None /\ outbox[r].payload = mr[r]
          /\ mr[r] # None => outbox[r] # None /\ outbox[r].type = "changed"
          /\ mr[r] # None => mr[r] \in Route
      BY <1>1 DEF IInv, EventsTellRows, RoutesAreTold, LastIs, TypeOK
    <3> HIDE DEF t
    <3>4. r \in DOMAIN t.rows
      BY <3>1, <3>2 DEF Tells
    <3>5. IF t.rows[r] = None THEN outbox'[r].type = "deleted"
          ELSE /\ outbox'[r].type = "changed" /\ outbox'[r].payload = t.rows[r]
               /\ t.rows[r] \in Route
      BY <3>1, <3>2, <3>4 DEF Tells, Typed
    <3>6. CASE r \in t.inserts
      <4>1. mr[r] = None /\ t.rows[r] # None
        BY <3>1, <3>2, <3>6, RowTypes DEF WritesRows, Row
      <4>2. CASE t.rows[r].default
        <5>1. outbox[r] = None /\ ~t.rows[r].ready
          BY <3>1, <3>6, <4>2 DEF KeepsDefaults
        <5>2. Kind(outbox'[r]) = "pending"
          BY <3>5, <4>1, <4>2, <5>1 DEF Kind
        <5> QED BY <5>1, <5>2 DEF O!Follows
      <4>3. CASE ~t.rows[r].default
        <5>1. Kind(outbox'[r]) = "other"
          BY <3>5, <4>1, <4>3 DEF Kind
        <5>2. outbox[r] # None => Kind(outbox[r]) = "deleted"
          BY <3>3, <4>1 DEF Kind
        <5> QED BY <5>1, <5>2 DEF O!Follows
      <4> QED BY <4>2, <4>3
    <3>7. CASE r \notin t.inserts
      <4>1. mr[r] # None
        BY <3>1, <3>4, <3>7, RowTypes DEF WritesRows, Row
      <4>2. /\ outbox[r] # None
            /\ Kind(outbox[r]) = IF ~mr[r].default THEN "other"
                                 ELSE IF mr[r].ready THEN "ready" ELSE "pending"
        BY <3>3, <4>1 DEF Kind
      <4>e. [id |-> 1, kind |-> Kind(outbox[r])] # None
        BY <4>2, EventAssumption DEF O!Event, O!Kinds
      <4>3. CASE t.rows[r] = None
        <5>1. Kind(outbox'[r]) = "deleted"
          BY <3>5, <4>3 DEF Kind
        <5> QED BY <4>2, <4>e, <5>1 DEF O!Follows
      <4>4. CASE t.rows[r] # None
        <5>1. Kind(outbox'[r]) = IF ~t.rows[r].default THEN "other"
                                 ELSE IF t.rows[r].ready THEN "ready" ELSE "pending"
          BY <3>5, <4>4 DEF Kind
        <5>2. /\ mr[r].default => t.rows[r].default
              /\ t.rows[r].default /\ t.rows[r].ready => mr[r].default
          BY <3>1, <3>4, <3>7, <4>4 DEF KeepsDefaults
        <5> QED BY <4>2, <4>e, <5>1, <5>2 DEF O!Follows
      <4> QED BY <4>3, <4>4
    <3> QED BY <3>6, <3>7
  <2> QED BY <1>1, <2>1, <2>2, InvNext
<1>2. IInv /\ [Next]_vars => [Follow]_vars
  BY <1>1
<1> QED BY <1>2, InvariantHolds, PTL DEF Spec, RouteEventsFollow

=============================================================================
