-------------------------- MODULE ReflectorProofs ---------------------------
(***************************************************************************)
(* Proofs about the reflector of the service catalog.                      *)
(***************************************************************************)
EXTENDS ReflectorProps, WellFoundedInduction, TLAPS

-----------------------------------------------------------------------------
(* The cursor                                                              *)

\* A set of numbers with a bound has a maximum.
LEMMA MaxValue ==
  ASSUME NEW n \in Nat, NEW S \in SUBSET (0..n), S # {}
  PROVE  Max(S) \in S /\ \A y \in S : Max(S) >= y
<1> DEFINE T == {x \in Nat : x <= n /\ n - x \in S}
           R == {p \in Nat \X Nat : p[1] < p[2]}
<1>1. PICK s \in S : s \in 0..n
  OBVIOUS
<1>2. n - s \in T
  <2>1. n - (n - s) = s
    BY <1>1
  <2> QED BY <1>1, <2>1
<1>3. T # {} /\ T \subseteq Nat
  BY <1>2
<1>4. IsWellFoundedOn(R, Nat)
  BY NatLessThanWellFounded, Zenon DEF OpToRel
<1>5. PICK t \in T : \A u \in T : ~ (<<u, t>> \in R)
  <2> HIDE DEF T, R
  <2> QED BY <1>3, <1>4, WFMin
<1>6. \A u \in T : ~(u < t)
  BY <1>5
<1>7. n - t \in S
  BY <1>5
<1>8. \A y \in S : n - t >= y
  <2> SUFFICES ASSUME NEW y \in S PROVE n - t >= y
    OBVIOUS
  <2>1. y \in 0..n
    OBVIOUS
  <2>2. n - (n - y) = y
    BY <2>1
  <2>3. n - y \in T
    BY <2>1, <2>2
  <2>4. ~(n - y < t) /\ t \in Nat
    BY <2>3, <1>6, <1>5
  <2> QED BY <2>1, <2>4
<1>9. \E x \in S : \A y \in S : x >= y
  BY <1>7, <1>8
<1> QED BY <1>9 DEF Max

\* The next cursor is the id of an event, or zero, and no event is behind it.
LEMMA NewCursorValue ==
  ASSUME TypeOK
  PROVE  /\ NewCursor(cursor) \in 0..MaxEvents
         /\ \A r \in Behind(cursor) : outbox[r].id <= NewCursor(cursor)
<1> DEFINE S == {0} \cup {outbox[r].id : r \in Behind(cursor)}
<1>1. \A r \in Behind(cursor) : outbox[r].id \in 1..MaxEvents
  BY DEF TypeOK, OutboxTypeOK, Behind, Event
<1>2. S \in SUBSET (0..MaxEvents) /\ S # {}
  BY <1>1, OutboxAssumption
<1>3. Max(S) \in S /\ \A y \in S : Max(S) >= y
  <2> HIDE DEF S
  <2> QED BY <1>2, OutboxAssumption, MaxValue
<1>4. NewCursor(cursor) = Max(S)
  BY DEF NewCursor
<1>5. Max(S) \in 0..MaxEvents
  BY <1>2, <1>3
<1>6. \A r \in Behind(cursor) : outbox[r].id \in S
  OBVIOUS
<1>7. ASSUME NEW r \in Behind(cursor) PROVE outbox[r].id <= NewCursor(cursor)
  <2>1. outbox[r].id \in 1..MaxEvents /\ Max(S) >= outbox[r].id
    BY <1>1, <1>3, <1>6
  <2> HIDE DEF S
  <2> QED BY <2>1, <1>4, <1>5
<1> QED BY <1>4, <1>5, <1>7

-----------------------------------------------------------------------------
(* Type correctness                                                        *)

\* The outbox keeps its types.
LEMMA OutboxTypeNext == OutboxTypeOK /\ OutboxNext => OutboxTypeOK'
<1> SUFFICES ASSUME OutboxTypeOK, OutboxNext PROVE OutboxTypeOK'
  OBVIOUS
<1> USE OutboxAssumption DEF OutboxTypeOK
<1>1. PICK r \in Routes : (\E k \in Kinds : Publish(r, k)) \/ Commit(r) \/ Rollback(r)
  BY DEF OutboxNext
<1>2. ASSUME NEW k \in Kinds, Publish(r, k) PROVE OutboxTypeOK'
  <2>1. [id |-> nextval, kind |-> k] \in Event
    BY <1>2 DEF Publish, Event
  <2> QED BY <1>2, <2>1 DEF Publish
<1>3. CASE Commit(r)
  BY <1>3 DEF Commit
<1>4. CASE Rollback(r)
  BY <1>4 DEF Rollback
<1> QED BY <1>1, <1>2, <1>3, <1>4

\* What a worker that is past a phase has.
LEMMA JobType ==
  ASSUME TypeOK, NEW w \in Workers, job[w] # None
  PROVE  /\ job[w] \in Job
         /\ job[w].route \in Routes
         /\ job[w].cached \in Cached \cup {None}
         /\ job[w].cached # None =>
              /\ job[w].cached.event \in Event
              /\ job[w].cached.event.id \in 1..MaxEvents
              /\ job[w].cached.version \in 0..MaxEvents
<1>1. job[w] \in Job
  BY DEF TypeOK
<1> QED BY <1>1 DEF Job, Cached, Event

\* A process that has not started is well-typed.
LEMMA TypeInit == Init => TypeOK
BY OutboxAssumption DEF Init, OutboxInit, ReflectorInit, Nothing, TypeOK, OutboxTypeOK

\* A worker that goes to another phase has the job it had.
LEMMA PhaseType ==
  ASSUME TypeOK, NEW w \in Workers, job[w] # None,
         NEW p \in {"got", "read", "succeeded", "failed"}
  PROVE  [job EXCEPT ![w].phase = p] \in [Workers -> Job \cup {None}]
<1>1. [job[w] EXCEPT !.phase = p] \in Job
  BY JobType DEF Job
<1> QED BY <1>1 DEF TypeOK

\* Every step of the outbox, the fetcher and the workers keeps the types.
LEMMA TypeNext == TypeOK /\ FetchedIsAhead /\ [Next]_vars => TypeOK'
<1> SUFFICES ASSUME TypeOK, FetchedIsAhead, [Next]_vars PROVE TypeOK'
  OBVIOUS
<1>0. outboxVars' = outboxVars => OutboxTypeOK'
  BY DEF TypeOK, OutboxTypeOK, outboxVars
<1>1. CASE OutboxNext /\ UNCHANGED reflectorVars
  <2>1. OutboxTypeOK'
    BY <1>1, OutboxTypeNext DEF TypeOK
  <2> QED BY <1>1, <2>1 DEF TypeOK, reflectorVars, fetcherVars, queueVars, catalogVars
<1>2. CASE Fetch
  <2>1. fetched' \in 0..MaxEvents
    BY <1>2, NewCursorValue DEF Fetch
  <2>2. batch' \in [Routes -> Event \cup {None}]
    BY <1>2 DEF Fetch, Behind, TypeOK, OutboxTypeOK
  <2> QED BY <1>0, <1>2, <2>1, <2>2 DEF Fetch, TypeOK, queueVars, catalogVars
<1>3. ASSUME NEW r \in Routes, AddKey(r) PROVE TypeOK'
  BY <1>0, <1>3 DEF AddKey, TypeOK, catalogVars
<1>4. CASE PutEvent
  <2>1. added \in Routes /\ batch[added] \in Event
    BY <1>4 DEF PutEvent, TypeOK, FetchedIsAhead
  <2>2. [event |-> batch[added], version |-> cursor] \in Cached
    BY <2>1 DEF Cached, TypeOK
  <2> QED BY <1>0, <1>4, <2>1, <2>2 DEF PutEvent, TypeOK, queueVars, catalogVars
<1>5. CASE MoveCursor
  BY <1>0, <1>5, OutboxAssumption DEF MoveCursor, TypeOK, queueVars, catalogVars
<1>6. ASSUME NEW w \in Workers, NEW r \in Routes, Get(w, r) PROVE TypeOK'
  <2>1. [route |-> r, cached |-> None, phase |-> "got"] \in Job
    BY DEF Job
  <2>2. job' \in [Workers -> Job \cup {None}]
    BY <1>6, <2>1 DEF Get, TypeOK
  <2> QED BY <1>0, <1>6, <2>2 DEF Get, TypeOK, fetcherVars, catalogVars
<1>7. ASSUME NEW w \in Workers, ReadCache(w) PROVE TypeOK'
  <2>1. cache[job[w].route] \in Cached \cup {None}
    BY <1>7, JobType DEF ReadCache, TypeOK
  <2>2. [job[w] EXCEPT !.cached = cache[job[w].route], !.phase = "read"] \in Job
    BY <1>7, <2>1, JobType DEF ReadCache, Job
  <2>3. job' \in [Workers -> Job \cup {None}]
    BY <1>7, <2>2 DEF ReadCache, TypeOK
  <2> QED BY <1>0, <1>7, <2>3 DEF ReadCache, TypeOK, fetcherVars, queueVars, catalogVars
<1>8. ASSUME NEW w \in Workers, Handle(w) PROVE TypeOK'
  <2>1. CASE HandleFails(w)
    <3>1. job' \in [Workers -> Job \cup {None}]
      BY <2>1, PhaseType DEF HandleFails
    <3> QED BY <1>0, <2>1, <3>1 DEF HandleFails, TypeOK, fetcherVars, catalogVars
  <2>2. ASSUME NEW kinds, Reads(w, kinds), Succeed(w),
               catalog' \in [Routes -> Event \cup {None}], models' \in SUBSET Routes
        PROVE  TypeOK'
    <3>1. job' \in [Workers -> Job \cup {None}]
      BY <2>2, PhaseType DEF Succeed, Reads
    <3>2. job[w].cached.event \in Event
      BY <2>2, JobType DEF Reads
    <3>3. \A e \in Event \cup {None} : Newer(e, job[w].cached.event) \in Event \cup {None}
      BY <3>2 DEF Newer
    <3>4. handled' \in [Routes -> Event \cup {None}]
      BY <2>2, <3>3 DEF Succeed, TypeOK
    <3> QED BY <1>0, <2>2, <3>1, <3>4 DEF Succeed, TypeOK, fetcherVars
  <2>3. CASE HandleDeleted(w)
    <3>1. catalog' \in [Routes -> Event \cup {None}] /\ models' \in SUBSET Routes
      BY <2>3 DEF HandleDeleted, TypeOK
    <3> QED BY <2>2, <2>3, <3>1 DEF HandleDeleted
  <2>4. CASE HandleOther(w)
    BY <2>2, <2>4 DEF HandleOther, TypeOK
  <2>5. CASE HandleReady(w)
    <3>1. job[w].cached.event \in Event /\ job[w].route \in Routes
      BY <2>5, JobType DEF HandleReady, Reads
    <3>2. catalog' \in [Routes -> Event \cup {None}] /\ models' \in SUBSET Routes
      BY <2>5, <3>1 DEF HandleReady, TypeOK
    <3> QED BY <2>2, <2>5, <3>2 DEF HandleReady
  <2>6. CASE HandleUnreadable(w)
    BY <2>2, <2>6 DEF HandleUnreadable, TypeOK
  <2> QED BY <1>8, <2>1, <2>3, <2>4, <2>5, <2>6 DEF Handle
<1>9. ASSUME NEW w \in Workers, Retry(w) PROVE TypeOK'
  <2>1. job[w].route \in Routes
    BY <1>9, JobType DEF Retry
  <2> QED BY <1>0, <1>9, <2>1 DEF Retry, TypeOK, fetcherVars, catalogVars
<1>10. ASSUME NEW w \in Workers, Forget(w) PROVE TypeOK'
  BY <1>0, <1>10 DEF Forget, TypeOK, fetcherVars, queueVars, catalogVars
<1>11. ASSUME NEW r \in Routes, Expire(r) PROVE TypeOK'
  BY <1>0, <1>11 DEF Expire, TypeOK, fetcherVars, catalogVars
<1>12. CASE Restart
  BY <1>0, <1>12, OutboxAssumption DEF Restart, TypeOK, Nothing
<1>13. CASE UNCHANGED vars
  BY <1>0, <1>13
  DEF vars, reflectorVars, fetcherVars, queueVars, catalogVars, TypeOK
<1> QED
  BY <1>1, <1>2, <1>3, <1>4, <1>5, <1>6, <1>7, <1>8, <1>9, <1>10, <1>11, <1>12, <1>13
  DEF Next

-----------------------------------------------------------------------------
(* The versions that are held                                              *)

\* A version of a route is held in the cache or by a worker.
LEMMA HeldElement ==
  ASSUME NEW r, NEW x
  PROVE  /\ x \in Held(r) <=>
              /\ x # None
              /\ x = cache[r] \/ \E w \in Workers : /\ job[w] # None /\ job[w].route = r
                                                    /\ x = job[w].cached
         /\ x \in Held(r)' <=>
              /\ x # None
              /\ x = cache'[r] \/ \E w \in Workers : /\ job'[w] # None /\ job'[w].route = r
                                                     /\ x = job'[w].cached
<1>1. x \in Held(r) <=>
        /\ x # None
        /\ x = cache[r] \/ \E w \in Workers : /\ job[w] # None /\ job[w].route = r
                                              /\ x = job[w].cached
  BY DEF Held
<1>2. x \in Held(r)' <=>
        /\ x # None
        /\ x = cache'[r] \/ \E w \in Workers : /\ job'[w] # None /\ job'[w].route = r
                                               /\ x = job'[w].cached
  BY DEF Held
<1> QED BY <1>1, <1>2

\* What is held is an event of the outbox and a cursor.
LEMMA HeldType ==
  ASSUME TypeOK, NEW r \in Routes, NEW x \in Held(r)
  PROVE  /\ x \in Cached /\ x.event \in Event
         /\ x.version \in 0..MaxEvents /\ x.event.id \in 1..MaxEvents
<1>1. x \in Cached
  <2>1. x # None
    BY HeldElement
  <2>2. CASE x = cache[r]
    BY <2>1, <2>2 DEF TypeOK
  <2>3. ASSUME NEW w \in Workers, job[w] # None, x = job[w].cached PROVE x \in Cached
    BY <2>1, <2>3, JobType
  <2> QED BY <2>2, <2>3, HeldElement
<1> QED BY <1>1 DEF Cached, Event

\* Nobody gets another version of a route, and its cache loses at most what it has.
Fewer ==
  /\ UNCHANGED <<cursor, batch, fetched, handled>>
  /\ \A r \in Routes :
       /\ Held(r)' \subseteq Held(r)
       /\ cache'[r] = cache[r] \/ cache'[r] = None

\* Then the order among versions stays, and what was handled stays behind them.
LEMMA FewerKeeps ==
  VersionsOrder /\ HandledIsPast /\ Fewer => VersionsOrder' /\ HandledIsPast'
<1> SUFFICES ASSUME VersionsOrder, HandledIsPast, Fewer
             PROVE  VersionsOrder' /\ HandledIsPast'
  OBVIOUS
<1>1. VersionsOrder'
  <2> SUFFICES ASSUME NEW r \in Routes, NEW x \in Held(r)'
               PROVE  /\ x.version < x.event.id /\ x.version <= cursor'
                      /\ IF x.version = cursor' THEN batch'[r] = None /\ x.event.id <= fetched'
                         ELSE x.event.id <= cursor'
                      /\ \A y \in Held(r)' :
                           /\ x.version = y.version => x = y
                           /\ x.version < y.version => x.event.id <= y.version
                      /\ cache'[r] # None => x.version <= cache'[r].version
    BY DEF VersionsOrder
  <2>1. x \in Held(r) /\ Held(r)' \subseteq Held(r)
    BY DEF Fewer
  <2> QED BY <2>1 DEF VersionsOrder, Fewer
<1>2. HandledIsPast'
  <2> SUFFICES ASSUME NEW r \in Routes, handled'[r] # None
               PROVE  /\ \/ handled'[r].id <= cursor'
                         \/ batch'[r] = None /\ handled'[r].id <= fetched'
                      /\ cache'[r] # None => handled'[r].id <= cache'[r].event.id
                      /\ \A x \in Held(r)' :
                           handled'[r].id = x.event.id => handled'[r] = x.event
    BY DEF HandledIsPast
  <2>1. Held(r)' \subseteq Held(r)
    BY DEF Fewer
  <2> QED BY <2>1 DEF HandledIsPast, Fewer
<1> QED BY <1>1, <1>2

-----------------------------------------------------------------------------
(* The invariant                                                           *)

\* A process that has not started fulfils it.
LEMMA InvariantInit == OutboxTypeOK /\ ReflectorInit => IInv
<1> SUFFICES ASSUME OutboxTypeOK, ReflectorInit PROVE IInv
  OBVIOUS
<1>1. TypeOK
  BY OutboxAssumption DEF ReflectorInit, Nothing, TypeOK
<1>2. \A r \in Routes : Held(r) = {}
  BY HeldElement DEF ReflectorInit, Nothing
<1>3. FetchedIsAhead /\ OneWorker
  BY DEF ReflectorInit, Nothing, FetchedIsAhead, OneWorker, Active
<1>4. VersionsOrder /\ HandledIsPast
  BY <1>2 DEF VersionsOrder, HandledIsPast, ReflectorInit, Nothing
<1>5. SucceededIsHandled /\ NeverBackwards /\ DeletedIsGone
  BY DEF SucceededIsHandled, NeverBackwards, DeletedIsGone, ReflectorInit, Nothing
<1> QED BY <1>1, <1>3, <1>4, <1>5 DEF IInv

\* Nothing but the outbox changes, or nothing the invariant is about.
LEMMA StutterKeeps ==
  ASSUME IInv, TypeOK',
         UNCHANGED <<fetcherVars, cache, processing, job, catalogVars>>
  PROVE  IInv'
<1> USE DEF IInv, fetcherVars, catalogVars
<1>1. \A r \in Routes : \A x : x \in Held(r)' <=> x \in Held(r)
  BY HeldElement
<1>2. Fewer
  BY <1>1 DEF Fewer
<1>3. FetchedIsAhead' /\ OneWorker' /\ SucceededIsHandled'
  BY DEF FetchedIsAhead, OneWorker, Active, SucceededIsHandled
<1>4. NeverBackwards' /\ DeletedIsGone'
  BY DEF NeverBackwards, DeletedIsGone
<1> QED BY <1>2, <1>3, <1>4, FewerKeeps

\* A fetch: no version is the cursor's, or the one before it would go on.
LEMMA FetchKeeps ==
  ASSUME IInv, TypeOK', Fetch
  PROVE  IInv'
<1> USE DEF IInv
<1>t. /\ cursor \in 0..MaxEvents /\ fetched' \in 0..MaxEvents /\ cursor < fetched'
      /\ fetched = 0 /\ UNCHANGED <<cursor, added, cache, job, handled, processing, catalog>>
  BY DEF Fetch, TypeOK, queueVars, catalogVars
<1>1. \A r \in Routes : batch[r] = None
  BY <1>t DEF FetchedIsAhead, TypeOK
<1>2. FetchedIsAhead'
  <2>1. ASSUME NEW r \in Routes, batch'[r] # None
        PROVE  batch'[r].id \in (cursor + 1)..fetched'
    <3>1. r \in Behind(cursor) /\ batch'[r] = outbox[r]
      BY <2>1 DEF Fetch
    <3>2. outbox[r].id > cursor /\ outbox[r].id \in 1..MaxEvents
      BY <3>1 DEF Behind, TypeOK, OutboxTypeOK, Event
    <3>3. outbox[r].id <= fetched'
      BY <3>1, NewCursorValue DEF Fetch
    <3> QED BY <1>t, <3>1, <3>2, <3>3
  <2>2. added = None
    BY <1>1 DEF FetchedIsAhead, TypeOK
  <2> QED BY <1>t, <2>1, <2>2 DEF FetchedIsAhead
<1>3. \A r \in Routes : \A x : x \in Held(r)' <=> x \in Held(r)
  BY <1>t, HeldElement
<1>4. ASSUME NEW r \in Routes, NEW x \in Held(r)
      PROVE  x.version # cursor /\ x.event.id <= cursor
  BY <1>t, <1>4, HeldType DEF VersionsOrder
<1>5. VersionsOrder'
  BY <1>t, <1>3, <1>4 DEF VersionsOrder
<1>6. ASSUME NEW r \in Routes, handled[r] # None PROVE handled[r].id <= cursor
  <2>1. handled[r].id \in 1..MaxEvents
    BY <1>6 DEF TypeOK, Event
  <2> QED BY <1>t, <1>6, <2>1 DEF HandledIsPast
<1>7. HandledIsPast'
  BY <1>t, <1>3, <1>6 DEF HandledIsPast
<1>8. OneWorker' /\ SucceededIsHandled' /\ NeverBackwards' /\ DeletedIsGone'
  BY <1>t DEF OneWorker, Active, SucceededIsHandled, NeverBackwards, DeletedIsGone
<1> QED BY <1>2, <1>5, <1>7, <1>8

\* Queueing an id: its event is one of the fetch.
LEMMA AddKeyKeeps ==
  ASSUME IInv, TypeOK', NEW r \in Routes, AddKey(r)
  PROVE  IInv'
<1> USE DEF IInv
<1>1. UNCHANGED <<cursor, batch, fetched, cache, processing, job, handled, catalog>>
  BY DEF AddKey, catalogVars
<1>2. FetchedIsAhead'
  BY <1>1 DEF AddKey, FetchedIsAhead
<1>3. Fewer
  BY <1>1, HeldElement DEF Fewer
<1>4. OneWorker' /\ SucceededIsHandled' /\ NeverBackwards' /\ DeletedIsGone'
  BY <1>1 DEF OneWorker, Active, SucceededIsHandled, NeverBackwards, DeletedIsGone
<1> QED BY <1>2, <1>3, <1>4, FewerKeeps

\* An event that is cached is the only one of its version: those that are held belong
\* to earlier fetches, since this one was not cached yet.
LEMMA PutEventKeeps ==
  ASSUME IInv, TypeOK', PutEvent
  PROVE  IInv'
<1> USE DEF IInv
<1>a. PICK a \in Routes : a = added
  BY DEF PutEvent, TypeOK
<1>b. PICK new \in Cached : new = [event |-> batch[a], version |-> cursor]
  <2>1. batch[a] \in Event
    BY <1>a DEF PutEvent, TypeOK, FetchedIsAhead
  <2> QED BY <2>1 DEF Cached, TypeOK
<1>t. /\ batch[a] # None /\ batch[a] \in Event /\ batch[a].id \in (cursor + 1)..fetched
      /\ cursor \in 0..MaxEvents /\ fetched \in 0..MaxEvents
      /\ batch' = [batch EXCEPT ![a] = None] /\ batch \in [Routes -> Event \cup {None}]
      /\ cache' = [cache EXCEPT ![a] = new] /\ cache \in [Routes -> Cached \cup {None}]
      /\ added' = None
      /\ UNCHANGED <<cursor, fetched, processing, job, handled, catalog>>
  BY <1>a, <1>b DEF PutEvent, TypeOK, FetchedIsAhead, queueVars, catalogVars
<1>n. new # None /\ new.event = batch[a] /\ new.version = cursor
  BY <1>b, ReflectorNoneAssumption
<1>1. FetchedIsAhead'
  BY <1>t DEF FetchedIsAhead
<1>2. ASSUME NEW r \in Routes, NEW x \in Held(r)'
      PROVE  x \in Held(r) \/ (r = a /\ x = new)
  BY <1>2, <1>t, HeldElement
<1>3. ASSUME NEW x \in Held(a)
      PROVE  x.version < cursor /\ x.event.id <= cursor
  <2>1. x.version \in 0..MaxEvents /\ x.version <= cursor /\ x.version # cursor
    BY <1>t, <1>3, HeldType DEF VersionsOrder
  <2> QED BY <1>t, <1>3, <2>1 DEF VersionsOrder
<1>4. cache'[a] = new /\ batch'[a] = None
  BY <1>t
<1>5. ASSUME NEW r \in Routes, r # a
      PROVE  cache'[r] = cache[r] /\ batch'[r] = batch[r] /\ Held(r)' \subseteq Held(r)
  BY <1>t, <1>5, <1>2
<1>6. VersionsOrder'
  <2> SUFFICES ASSUME NEW r \in Routes, NEW x \in Held(r)'
               PROVE  /\ x.version < x.event.id /\ x.version <= cursor'
                      /\ IF x.version = cursor' THEN batch'[r] = None /\ x.event.id <= fetched'
                         ELSE x.event.id <= cursor'
                      /\ \A y \in Held(r)' :
                           /\ x.version = y.version => x = y
                           /\ x.version < y.version => x.event.id <= y.version
                      /\ cache'[r] # None => x.version <= cache'[r].version
    BY DEF VersionsOrder
  <2>1. CASE r # a
    BY <1>t, <1>5, <2>1 DEF VersionsOrder
  <2>2. CASE r = a /\ x = new
    <3>1. ASSUME NEW y \in Held(a)' PROVE /\ x.version = y.version => x = y
                                          /\ x.version < y.version => x.event.id <= y.version
      <4>1. CASE y = new
        BY <2>2, <4>1, <1>n, <1>t
      <4>2. CASE y \in Held(a)
        <5>1. y.version < cursor /\ y.version \in 0..MaxEvents
          BY <4>2, <1>3, <1>t, HeldType
        <5> QED BY <5>1, <1>t, <1>n, <2>2
      <4> QED BY <4>1, <4>2, <1>2, <3>1, <1>t
    <3> QED BY <1>t, <1>n, <1>4, <2>2, <3>1
  <2>3. CASE r = a /\ x \in Held(a)
    <3>1. /\ x.version < cursor /\ x.event.id <= cursor
          /\ x.version \in 0..MaxEvents /\ x.version < x.event.id
      BY <2>3, <1>3, <1>t, HeldType DEF VersionsOrder
    <3>2. ASSUME NEW y \in Held(a)' PROVE /\ x.version = y.version => x = y
                                          /\ x.version < y.version => x.event.id <= y.version
      <4>1. CASE y = new
        BY <3>1, <4>1, <1>n, <1>t
      <4>2. CASE y \in Held(a)
        BY <2>3, <4>2, <1>t DEF VersionsOrder
      <4> QED BY <4>1, <4>2, <1>2, <3>2, <1>t
    <3> QED BY <1>t, <1>n, <1>4, <2>3, <3>1, <3>2
  <2> QED BY <1>2, <2>1, <2>2, <2>3
<1>7. HandledIsPast'
  <2> SUFFICES ASSUME NEW r \in Routes, handled[r] # None
               PROVE  /\ \/ handled[r].id <= cursor'
                         \/ batch'[r] = None /\ handled[r].id <= fetched'
                      /\ cache'[r] # None => handled[r].id <= cache'[r].event.id
                      /\ \A x \in Held(r)' :
                           handled[r].id = x.event.id => handled[r] = x.event
    BY <1>t DEF HandledIsPast
  <2>1. CASE r # a
    BY <1>t, <1>5, <2>1 DEF HandledIsPast
  <2>2. CASE r = a
    <3>1. handled[r].id <= cursor /\ handled[r].id \in 1..MaxEvents
      BY <1>t, <2>2, ReflectorNoneAssumption, OutboxNoneAssumption
      DEF HandledIsPast, TypeOK, Event
    <3>2. ASSUME NEW x \in Held(r)' PROVE handled[r].id = x.event.id => handled[r] = x.event
      BY <1>2, <1>t, <1>n, <2>2, <3>1, <3>2 DEF HandledIsPast
    <3> QED BY <1>t, <1>n, <1>4, <2>2, <3>1, <3>2
  <2> QED BY <2>1, <2>2
<1>8. SucceededIsHandled'
  <2> SUFFICES ASSUME NEW w \in Workers, job[w] # None, job[w].phase = "succeeded"
               PROVE  /\ job[w].cached # None
                      /\ cache'[job[w].route] # None
                           /\ cache'[job[w].route].version = job[w].cached.version =>
                         handled[job[w].route] = job[w].cached.event
    BY <1>t DEF SucceededIsHandled
  <2>1. job[w].route \in Routes /\ job[w].cached # None
    BY JobType DEF SucceededIsHandled
  <2>2. job[w].cached \in Held(job[w].route)
    BY <2>1, HeldElement
  <2>3. CASE job[w].route # a
    BY <1>5, <2>1, <2>3 DEF SucceededIsHandled
  <2>4. CASE job[w].route = a
    BY <1>t, <1>3, <1>4, <1>n, <2>1, <2>2, <2>4, HeldType
  <2> QED BY <2>3, <2>4
<1>9. OneWorker' /\ NeverBackwards' /\ DeletedIsGone'
  BY <1>t DEF OneWorker, Active, NeverBackwards, DeletedIsGone
<1> QED BY <1>1, <1>6, <1>7, <1>8, <1>9

\* The cursor moves once every event of the fetch is cached.
LEMMA MoveCursorKeeps ==
  ASSUME IInv, TypeOK', MoveCursor
  PROVE  IInv'
<1> USE DEF IInv
<1>t. /\ \A r \in Routes : batch[r] = None
      /\ cursor \in 0..MaxEvents /\ fetched \in 0..MaxEvents /\ cursor < fetched
      /\ cursor' = fetched /\ fetched' = 0
      /\ UNCHANGED <<batch, added, cache, processing, job, handled, catalog>>
  BY OutboxAssumption
  DEF MoveCursor, Nothing, TypeOK, FetchedIsAhead, queueVars, catalogVars
<1>1. FetchedIsAhead'
  BY <1>t DEF FetchedIsAhead
<1>2. \A r \in Routes : \A x : x \in Held(r)' <=> x \in Held(r)
  BY <1>t, HeldElement
<1>3. ASSUME NEW r \in Routes, NEW x \in Held(r)
      PROVE  x.version < fetched /\ x.event.id <= fetched
  <2>1. x.version \in 0..MaxEvents /\ x.event.id \in 1..MaxEvents /\ x.version <= cursor
    BY <1>3, HeldType DEF VersionsOrder
  <2> QED BY <1>t, <1>3, <2>1 DEF VersionsOrder
<1>4. VersionsOrder'
  <2> SUFFICES ASSUME NEW r \in Routes, NEW x \in Held(r)
               PROVE  /\ x.version < x.event.id /\ x.version <= fetched
                      /\ x.version # fetched /\ x.event.id <= fetched
                      /\ \A y \in Held(r) :
                           /\ x.version = y.version => x = y
                           /\ x.version < y.version => x.event.id <= y.version
                      /\ cache[r] # None => x.version <= cache[r].version
    BY <1>t, <1>2 DEF VersionsOrder
  <2>1. x.version \in 0..MaxEvents
    BY HeldType
  <2> QED BY <1>t, <1>3, <2>1 DEF VersionsOrder
<1>5. ASSUME NEW r \in Routes, handled[r] # None PROVE handled[r].id <= fetched
  <2>1. handled[r].id \in 1..MaxEvents
    BY <1>5 DEF TypeOK, Event
  <2> QED BY <1>t, <1>5, <2>1 DEF HandledIsPast
<1>6. HandledIsPast'
  BY <1>t, <1>2, <1>5 DEF HandledIsPast
<1>7. OneWorker' /\ SucceededIsHandled' /\ NeverBackwards' /\ DeletedIsGone'
  BY <1>t DEF OneWorker, Active, SucceededIsHandled, NeverBackwards, DeletedIsGone
<1> QED BY <1>1, <1>4, <1>6, <1>7

\* A worker that takes a route is its only one, and holds nothing yet.
LEMMA GetKeeps ==
  ASSUME IInv, TypeOK', NEW w \in Workers, NEW r \in Routes, Get(w, r)
  PROVE  IInv'
<1> USE DEF IInv
<1>t. /\ job[w] = None /\ r \notin processing /\ processing' = processing \cup {r}
      /\ job \in [Workers -> Job \cup {None}]
      /\ job' = [job EXCEPT ![w] = [route |-> r, cached |-> None, phase |-> "got"]]
      /\ UNCHANGED <<cursor, batch, fetched, added, cache, handled, catalog>>
  BY DEF Get, TypeOK, fetcherVars, catalogVars
<1>1. /\ job'[w].route = r /\ job'[w].cached = None /\ job'[w].phase = "got"
      /\ \A v \in Workers : v # w => job'[v] = job[v]
  BY <1>t
<1>2. \A q \in Routes : Held(q)' \subseteq Held(q)
  BY <1>t, <1>1, HeldElement
<1>3. Fewer
  BY <1>t, <1>2 DEF Fewer
<1>4. OneWorker'
  BY <1>t, <1>1 DEF OneWorker, Active
<1>5. FetchedIsAhead' /\ SucceededIsHandled' /\ NeverBackwards' /\ DeletedIsGone'
  BY <1>t, <1>1 DEF FetchedIsAhead, SucceededIsHandled, NeverBackwards, DeletedIsGone
<1> QED BY <1>3, <1>4, <1>5, FewerKeeps

\* A worker reads the latest version.
LEMMA ReadCacheKeeps ==
  ASSUME IInv, TypeOK', NEW w \in Workers, ReadCache(w)
  PROVE  IInv'
<1> USE DEF IInv
<1>t. /\ job[w] # None /\ job[w].phase = "got" /\ job[w].route \in Routes
      /\ job[w] \in Job /\ job \in [Workers -> Job \cup {None}]
      /\ job' = [job EXCEPT ![w].cached = cache[job[w].route], ![w].phase = "read"]
      /\ UNCHANGED <<cursor, batch, fetched, added, cache, processing, handled, catalog>>
  BY JobType DEF ReadCache, TypeOK, fetcherVars, queueVars, catalogVars
<1>1. /\ job'[w].route = job[w].route /\ job'[w].phase = "read"
      /\ job'[w].cached = cache[job[w].route]
      /\ \A v \in Workers : v # w => job'[v] = job[v]
  BY <1>t DEF Job
<1>2. \A q \in Routes : Held(q)' \subseteq Held(q)
  BY <1>t, <1>1, HeldElement
<1>3. Fewer
  BY <1>t, <1>2 DEF Fewer
<1>4. OneWorker'
  BY <1>t, <1>1 DEF OneWorker, Active
<1>5. NeverBackwards'
  BY <1>t, <1>1 DEF NeverBackwards, HandledIsPast
<1>6. FetchedIsAhead' /\ SucceededIsHandled' /\ DeletedIsGone'
  BY <1>t, <1>1 DEF FetchedIsAhead, SucceededIsHandled, DeletedIsGone
<1> QED BY <1>3, <1>4, <1>5, <1>6, FewerKeeps

\* The versions that are held are in the order of their events, and the cache has
\* the last one.
LEMMA HeldOrder ==
  ASSUME IInv, NEW r \in Routes, NEW x \in Held(r), NEW y \in Held(r)
  PROVE  /\ x.event.id = y.event.id => x = y
         /\ cache[r] # None => x.event.id <= cache[r].event.id
         /\ cache[r] # None /\ x.event.id >= cache[r].event.id => x = cache[r]
<1> USE DEF IInv
<1>1. ASSUME NEW u \in Held(r), NEW v \in Held(r), u.version < v.version
      PROVE  u.event.id < v.event.id
  <2>1. u.event.id <= v.version /\ v.version < v.event.id
    BY <1>1 DEF VersionsOrder
  <2> QED BY <1>1, <2>1, HeldType
<1>2. ASSUME NEW u \in Held(r), NEW v \in Held(r), u.version = v.version
      PROVE  u = v
  BY <1>2 DEF VersionsOrder
<1>3. \A u \in Held(r) : u.version \in 0..MaxEvents /\ u.event.id \in 1..MaxEvents
  BY HeldType
<1>4. x.event.id = y.event.id => x = y
  BY <1>1, <1>2, <1>3
<1>5. ASSUME cache[r] # None
      PROVE  /\ x.event.id <= cache[r].event.id
             /\ x.event.id >= cache[r].event.id => x = cache[r]
  <2>1. cache[r] \in Held(r)
    BY <1>5, HeldElement
  <2>2. x.version <= cache[r].version
    BY <1>5 DEF VersionsOrder
  <2> QED BY <1>1, <1>2, <1>3, <2>1, <2>2
<1> QED BY <1>4, <1>5

\* A worker that succeeds has handled the newest event so far: its own.
LEMMA SucceedKeeps ==
  ASSUME IInv, TypeOK', NEW w \in Workers, NEW kinds, Reads(w, kinds), Succeed(w)
  PROVE  /\ FetchedIsAhead' /\ OneWorker' /\ VersionsOrder' /\ HandledIsPast'
         /\ SucceededIsHandled' /\ NeverBackwards'
         /\ handled' = [handled EXCEPT ![job[w].route] = job[w].cached.event]
<1> USE DEF IInv
<1>r. PICK r \in Routes : r = job[w].route
  BY JobType DEF Reads
<1>x. PICK x \in Held(r) : x = job[w].cached
  BY <1>r, HeldElement DEF Reads
<1>a. r = job[w].route /\ x = job[w].cached /\ job[w] \in Job
  BY <1>r, <1>x, JobType DEF Reads
<1>t. /\ Active(w) /\ job[w] # None /\ job[w].phase = "read"
      /\ job \in [Workers -> Job \cup {None}]
      /\ handled \in [Routes -> Event \cup {None}]
      /\ job' = [job EXCEPT ![w].phase = "succeeded"]
      /\ processing' = processing \ {r}
      /\ UNCHANGED <<cursor, batch, fetched, added, cache>>
  BY <1>a DEF Reads, Succeed, Active, TypeOK, fetcherVars
<1>e. /\ x \in Cached /\ x.event \in Event /\ x.event.id \in 1..MaxEvents
      /\ x.version \in 0..MaxEvents /\ x # None
  BY HeldType, HeldElement
<1>1. /\ job'[w].route = r /\ job'[w].cached = x /\ job'[w].phase = "succeeded"
      /\ \A v \in Workers : v # w => job'[v] = job[v]
  BY <1>a, <1>t DEF Job
<1>2. ASSUME handled[r] # None
      PROVE  /\ handled[r].id <= x.event.id /\ handled[r].id \in 1..MaxEvents
             /\ handled[r].id = x.event.id => handled[r] = x.event
  <2>1. handled[r].id <= x.event.id
    BY <1>2, <1>a, <1>t, <1>e DEF NeverBackwards
  <2>2. handled[r].id \in 1..MaxEvents
    BY <1>2, <1>t DEF Event
  <2> QED BY <1>2, <2>1, <2>2 DEF HandledIsPast
<1>3. Newer(handled[r], x.event) = x.event
  BY <1>2, <1>e DEF Newer
<1>4. handled' = [handled EXCEPT ![r] = x.event]
  BY <1>3, <1>a, <1>t DEF Succeed
<1>5. \A q \in Routes : \A y : y \in Held(q)' <=> y \in Held(q)
  <2>1. \A v \in Workers : /\ job'[v] # None <=> job[v] # None
                           /\ job'[v].route = job[v].route /\ job'[v].cached = job[v].cached
    <3>1. [job[w] EXCEPT !.phase = "succeeded"] \in Job
      BY <1>a DEF Job
    <3>2. job'[w] # None
      BY <1>t, <3>1, ReflectorNoneAssumption
    <3> QED BY <3>2, <1>a, <1>t, <1>1
  <2> QED BY <2>1, <1>t, HeldElement
<1>6. VersionsOrder'
  BY <1>t, <1>5 DEF VersionsOrder
<1>7. OneWorker'
  BY <1>a, <1>t, <1>1 DEF OneWorker, Active
<1>8. HandledIsPast'
  <2> SUFFICES ASSUME NEW q \in Routes, handled'[q] # None
               PROVE  /\ \/ handled'[q].id <= cursor
                         \/ batch[q] = None /\ handled'[q].id <= fetched
                      /\ cache[q] # None => handled'[q].id <= cache[q].event.id
                      /\ \A y \in Held(q) :
                           handled'[q].id = y.event.id => handled'[q] = y.event
    BY <1>t, <1>5 DEF HandledIsPast
  <2>1. CASE q # r
    BY <1>4, <2>1 DEF HandledIsPast
  <2>2. CASE q = r
    <3>1. handled'[r] = x.event
      BY <1>4, <1>t
    <3>2. x.event.id <= cursor \/ (batch[r] = None /\ x.event.id <= fetched)
      BY DEF VersionsOrder
    <3>3. cache[r] # None => x.event.id <= cache[r].event.id
      BY HeldOrder
    <3>4. \A y \in Held(r) : x.event.id = y.event.id => x.event = y.event
      BY HeldOrder
    <3> QED BY <2>2, <3>1, <3>2, <3>3, <3>4
  <2> QED BY <2>1, <2>2
<1>9. SucceededIsHandled'
  <2> SUFFICES ASSUME NEW v \in Workers, job'[v] # None, job'[v].phase = "succeeded"
               PROVE  /\ job'[v].cached # None
                      /\ cache[job'[v].route] # None
                           /\ cache[job'[v].route].version = job'[v].cached.version =>
                         handled'[job'[v].route] = job'[v].cached.event
    BY <1>t DEF SucceededIsHandled
  <2>1. CASE v = w
    BY <1>1, <1>4, <1>e, <1>t, <2>1
  <2>2. CASE v # w /\ job[v].route # r
    BY <1>1, <1>4, <2>2 DEF SucceededIsHandled
  <2>3. CASE v # w /\ job[v].route = r
    <3>1. job'[v] = job[v] /\ job[v].cached # None /\ job[v].cached \in Held(r)
      BY <1>1, <2>3, HeldElement DEF SucceededIsHandled
    <3>2. ASSUME cache[r] # None, cache[r].version = job[v].cached.version
          PROVE  x.event = job[v].cached.event
      <4>1. cache[r] = job[v].cached /\ cache[r] \in Held(r)
        BY <3>1, <3>2, HeldElement DEF VersionsOrder
      <4>2. handled[r] = cache[r].event /\ handled[r] # None
        <5>1. handled[r] = cache[r].event
          BY <1>1, <2>3, <3>1, <3>2, <4>1 DEF SucceededIsHandled
        <5>2. cache[r].event \in Event
          BY <4>1, HeldType
        <5> QED BY <5>1, <5>2, OutboxNoneAssumption
      <4>3. x.event.id >= cache[r].event.id
        BY <4>2, <1>2, <1>e
      <4> QED BY <3>2, <4>1, <4>3, HeldOrder
    <3> QED BY <1>4, <1>t, <2>3, <3>1, <3>2
  <2> QED BY <2>1, <2>2, <2>3
<1>10. NeverBackwards'
  <2> SUFFICES ASSUME NEW v \in Workers, job'[v] # None, job'[v].phase = "read",
                      job'[v].cached # None, handled'[job'[v].route] # None
               PROVE  handled'[job'[v].route].id <= job'[v].cached.event.id
    BY DEF NeverBackwards
  <2>1. v # w /\ job'[v] = job[v]
    BY <1>1
  <2>2. job[v].route # r
    BY <1>a, <1>t, <2>1 DEF OneWorker, Active
  <2> QED BY <1>4, <2>1, <2>2 DEF NeverBackwards
<1>11. FetchedIsAhead'
  BY <1>t DEF FetchedIsAhead
<1> QED BY <1>a, <1>4, <1>6, <1>7, <1>8, <1>9, <1>10, <1>11

\* A handler changes the catalog for the event that becomes the newest one handled.
LEMMA HandleKeeps ==
  ASSUME IInv, TypeOK', NEW w \in Workers, Handle(w), ~HandleFails(w)
  PROVE  IInv'
<1> USE DEF IInv
<1>1. PICK kind \in {"deleted", "other", "ready"} : Reads(w, {kind}) /\ Succeed(w)
  BY DEF Handle, HandleDeleted, HandleOther, HandleReady, HandleUnreadable
<1>2. /\ FetchedIsAhead' /\ OneWorker' /\ VersionsOrder' /\ HandledIsPast'
      /\ SucceededIsHandled' /\ NeverBackwards'
      /\ handled' = [handled EXCEPT ![job[w].route] = job[w].cached.event]
  BY <1>1, SucceedKeeps
<1>3. DeletedIsGone'
  <2> SUFFICES ASSUME NEW r \in Routes, handled'[r] # None, handled'[r].kind = "deleted"
               PROVE  catalog'[r] = None
    BY DEF DeletedIsGone
  <2>1. CASE r # job[w].route
    <3>1. handled'[r] = handled[r]
      BY <1>2, <2>1
    <3>2. catalog'[r] = catalog[r]
      BY <2>1 DEF Handle, HandleDeleted, HandleOther, HandleReady, HandleUnreadable, TypeOK
    <3> QED BY <3>1, <3>2 DEF DeletedIsGone
  <2>2. CASE r = job[w].route
    <3>1. handled'[r] = job[w].cached.event
      BY <1>2, <2>2 DEF TypeOK
    <3>2. HandleDeleted(w)
      BY <2>2, <3>1
      DEF Handle, HandleDeleted, HandleOther, HandleReady, HandleUnreadable, Reads
    <3> QED BY <2>2, <3>2 DEF HandleDeleted, TypeOK
  <2> QED BY <2>1, <2>2
<1> QED BY <1>2, <1>3

\* A worker that fails is not an active one any more.
LEMMA HandleFailsKeeps ==
  ASSUME IInv, TypeOK', NEW w \in Workers, HandleFails(w)
  PROVE  IInv'
<1> USE DEF IInv
<1>t. /\ job[w] # None /\ job[w].phase = "read" /\ job[w] \in Job
      /\ job \in [Workers -> Job \cup {None}]
      /\ job' = [job EXCEPT ![w].phase = "failed"]
      /\ processing' = processing \ {job[w].route}
      /\ UNCHANGED <<cursor, batch, fetched, added, cache, handled, catalog>>
  BY JobType DEF HandleFails, TypeOK, fetcherVars, catalogVars
<1>1. /\ job'[w].route = job[w].route /\ job'[w].phase = "failed"
      /\ job'[w].cached = job[w].cached
      /\ \A v \in Workers : v # w => job'[v] = job[v]
  BY <1>t DEF Job
<1>2. \A q \in Routes : Held(q)' \subseteq Held(q)
  BY <1>t, <1>1, HeldElement
<1>3. Fewer
  BY <1>t, <1>2 DEF Fewer
<1>4. OneWorker'
  BY <1>t, <1>1 DEF OneWorker, Active
<1>5. SucceededIsHandled' /\ NeverBackwards'
  BY <1>t, <1>1 DEF SucceededIsHandled, NeverBackwards
<1>6. FetchedIsAhead' /\ DeletedIsGone'
  BY <1>t, <1>1 DEF FetchedIsAhead, DeletedIsGone
<1> QED BY <1>3, <1>4, <1>5, <1>6, FewerKeeps

\* A worker that goes for the next id holds nothing, and may empty the cache.
LEMMA DoneKeeps ==
  ASSUME IInv, TypeOK', NEW w \in Workers, Retry(w) \/ Forget(w)
  PROVE  IInv'
<1> USE DEF IInv
<1>t. /\ job[w] # None /\ job[w].phase \in {"succeeded", "failed"}
      /\ job \in [Workers -> Job \cup {None}]
      /\ cache \in [Routes -> Cached \cup {None}]
      /\ job' = [job EXCEPT ![w] = None]
      /\ \A r \in Routes : cache'[r] = cache[r] \/ cache'[r] = None
      /\ UNCHANGED <<cursor, batch, fetched, added, processing, handled, catalog>>
  BY DEF Retry, Forget, TypeOK, fetcherVars, queueVars, catalogVars
<1>1. job'[w] = None /\ \A v \in Workers : v # w => job'[v] = job[v]
  BY <1>t
<1>2. \A q \in Routes : Held(q)' \subseteq Held(q)
  BY <1>t, <1>1, HeldElement
<1>3. Fewer
  BY <1>t, <1>2 DEF Fewer
<1>4. OneWorker'
  BY <1>t, <1>1 DEF OneWorker, Active
<1>5. SucceededIsHandled'
  <2> SUFFICES ASSUME NEW v \in Workers, job'[v] # None, job'[v].phase = "succeeded"
               PROVE  /\ job'[v].cached # None
                      /\ cache'[job'[v].route] # None
                           /\ cache'[job'[v].route].version = job'[v].cached.version =>
                         handled[job'[v].route] = job'[v].cached.event
    BY <1>t DEF SucceededIsHandled
  <2>1. v # w /\ job'[v] = job[v] /\ job[v].route \in Routes
    BY <1>1, JobType
  <2> QED BY <1>t, <2>1 DEF SucceededIsHandled
<1>6. NeverBackwards' /\ FetchedIsAhead' /\ DeletedIsGone'
  BY <1>t, <1>1 DEF NeverBackwards, FetchedIsAhead, DeletedIsGone
<1> QED BY <1>3, <1>4, <1>5, <1>6, FewerKeeps

\* Every step keeps the invariant.
LEMMA InvariantNext == IInv /\ [Next]_vars => IInv'
<1> SUFFICES ASSUME IInv, [Next]_vars PROVE IInv'
  OBVIOUS
<1>t. TypeOK'
  BY TypeNext DEF IInv
<1>1. CASE OutboxNext /\ UNCHANGED reflectorVars
  BY <1>t, <1>1, StutterKeeps DEF reflectorVars, queueVars
<1>2. CASE Fetch
  BY <1>t, <1>2, FetchKeeps
<1>3. ASSUME NEW r \in Routes, AddKey(r) PROVE IInv'
  BY <1>t, <1>3, AddKeyKeeps
<1>4. CASE PutEvent
  BY <1>t, <1>4, PutEventKeeps
<1>5. CASE MoveCursor
  BY <1>t, <1>5, MoveCursorKeeps
<1>6. ASSUME NEW w \in Workers, NEW r \in Routes, Get(w, r) PROVE IInv'
  BY <1>t, <1>6, GetKeeps
<1>7. ASSUME NEW w \in Workers, ReadCache(w) PROVE IInv'
  BY <1>t, <1>7, ReadCacheKeeps
<1>8. ASSUME NEW w \in Workers, Handle(w) PROVE IInv'
  BY <1>t, <1>8, HandleKeeps, HandleFailsKeeps
<1>9. ASSUME NEW w \in Workers, Retry(w) \/ Forget(w) PROVE IInv'
  BY <1>t, <1>9, DoneKeeps
<1>10. ASSUME NEW r \in Routes, Expire(r) PROVE IInv'
  BY <1>t, <1>10, StutterKeeps DEF Expire
<1>11. CASE Restart
  <2>1. (OutboxTypeOK /\ ReflectorInit)'
    BY <1>t, <1>11 DEF Restart, ReflectorInit, TypeOK
  <2> QED BY <2>1, InvariantInit, PTL
<1>12. CASE UNCHANGED vars
  BY <1>t, <1>12, StutterKeeps DEF vars, reflectorVars, queueVars
<1> QED
  BY <1>1, <1>2, <1>3, <1>4, <1>5, <1>6, <1>7, <1>8, <1>9, <1>10, <1>11, <1>12 DEF Next

\* The invariant holds for every number of routes, workers and events.
THEOREM InvariantHolds == Spec => []IInv
<1>1. Init => IInv
  BY TypeInit, InvariantInit DEF Init, TypeOK
<1> QED BY <1>1, InvariantNext, PTL DEF Spec

-----------------------------------------------------------------------------
(* The properties                                                          *)

\* Every variable has its type.
THEOREM TypeCorrect == Spec => []TypeOK
<1>1. IInv => TypeOK
  BY DEF IInv
<1> QED BY <1>1, InvariantHolds, PTL

\* No worker carries an event that is older than what was handled of its route.
THEOREM CatalogNeverGoesBack == Spec => []NeverBackwards
<1>1. IInv => NeverBackwards
  BY DEF IInv
<1> QED BY <1>1, InvariantHolds, PTL

\* A route whose deletion was handled is not in the catalog.
THEOREM DeletedRoutesAreGone == Spec => []DeletedIsGone
<1>1. IInv => DeletedIsGone
  BY DEF IInv
<1> QED BY <1>1, InvariantHolds, PTL

\* An event leaves the cache only after it was handled, or with the process.
THEOREM EventsAreNotLost == Spec => DroppedWhenHandled
<1> DEFINE Drops == \A r \in Routes :
             cache[r] # None /\ cache'[r] = None
               => handled[r] = cache[r].event \/ ReflectorInit'
<1>1. IInv /\ [Next]_vars => [Drops]_vars
  <2> SUFFICES ASSUME IInv, Next, NEW r \in Routes, cache[r] # None, cache'[r] = None
               PROVE  handled[r] = cache[r].event \/ ReflectorInit'
    OBVIOUS
  <2> USE DEF IInv
  <2>1. CASE Restart
    BY <2>1 DEF Restart, ReflectorInit
  <2>2. ASSUME NEW w \in Workers, Forget(w) PROVE handled[r] = cache[r].event
    <3>1. /\ r = job[w].route /\ job[w].phase = "succeeded" /\ job[w] # None
          /\ job[w].cached # None
      BY <2>2 DEF Forget, TypeOK, SucceededIsHandled
    <3>2. cache[r].version = job[w].cached.version
      BY <2>2, <3>1 DEF Forget, TypeOK
    <3> QED
      <4>1. handled[r] = job[w].cached.event
        BY <3>1, <3>2 DEF SucceededIsHandled
      <4>2. cache[r] \in Held(r) /\ job[w].cached \in Held(r)
        BY <3>1, HeldElement
      <4> QED BY <3>2, <4>1, <4>2 DEF VersionsOrder
  <2>3. CASE PutEvent
    <3>1. added \in Routes /\ batch[added] \in Event
      BY <2>3 DEF PutEvent, TypeOK, FetchedIsAhead
    <3>2. [event |-> batch[added], version |-> cursor] \in Cached
      BY <3>1 DEF Cached, TypeOK
    <3> QED BY <2>3, <3>2, ReflectorNoneAssumption DEF PutEvent, TypeOK
  <2>4. ASSUME UNCHANGED cache PROVE FALSE
    BY <2>4
  <2> QED
    BY <2>1, <2>2, <2>3, <2>4
    DEF Next, Fetch, AddKey, MoveCursor, Get, ReadCache, Handle, HandleDeleted, HandleOther,
        HandleReady, HandleUnreadable, HandleFails, Succeed, Retry, Expire, reflectorVars
<1> QED BY <1>1, InvariantHolds, PTL DEF Spec, DroppedWhenHandled

-----------------------------------------------------------------------------
(* What the process knows comes from the outbox                            *)

\* Each step leaves the outbox alone, or is one of it.
LEMMA OutboxSteps ==
  ASSUME [Next]_vars
  PROVE  UNCHANGED outboxVars \/ (OutboxNext /\ UNCHANGED reflectorVars)
BY DEF Next, vars, Fetch, AddKey, PutEvent, MoveCursor, Get, ReadCache, Handle, HandleDeleted,
   HandleOther, HandleReady, HandleUnreadable, HandleFails, Reads, Succeed, Retry, Forget,
   Expire, Restart

\* Transactions on one route exclude each other, so its ids grow as they are committed.
LEMMA IdsNext ==
  ASSUME OutboxTypeOK, IdsGrow, [Next]_vars
  PROVE  IdsGrow'
<1> USE OutboxAssumption, OutboxNoneAssumption DEF OutboxTypeOK, Event
<1>1. CASE UNCHANGED outboxVars
  BY <1>1 DEF outboxVars, IdsGrow
<1>2. ASSUME NEW q \in Routes, NEW k \in Kinds, Publish(q, k) PROVE IdsGrow'
  BY <1>2 DEF Publish, IdsGrow
<1>3. ASSUME NEW q \in Routes, Commit(q) \/ Rollback(q) PROVE IdsGrow'
  BY <1>3 DEF Commit, Rollback, IdsGrow
<1> QED BY <1>1, <1>2, <1>3, OutboxSteps DEF OutboxNext

\* What is in the outbox, or older, stays so.
LEMMA PastGrows ==
  ASSUME OutboxTypeOK, IdsGrow, [Next]_vars, NEW r \in Routes, NEW e \in Event,
         IsPast(e, outbox[r])
  PROVE  IsPast(e, outbox'[r])
<1>1. CASE UNCHANGED outboxVars
  BY <1>1 DEF outboxVars
<1>2. ASSUME NEW q \in Routes, Commit(q) PROVE IsPast(e, outbox'[r])
  BY <1>2, OutboxNoneAssumption DEF Commit, IdsGrow, IsPast, OutboxTypeOK, Event
<1>3. ASSUME NEW q \in Routes, (\E k \in Kinds : Publish(q, k)) \/ Rollback(q)
      PROVE  IsPast(e, outbox'[r])
  BY <1>3 DEF Publish, Rollback
<1> QED BY <1>1, <1>2, <1>3, OutboxSteps DEF OutboxNext

\* Where an event comes from that is fetched, cached, or carried by a worker.
LEMMA EventsArePassedOn ==
  ASSUME IInv, [Next]_vars
  PROVE  /\ \A r \in Routes :
              /\ batch'[r] \in {batch[r], outbox[r], None}
              /\ cache'[r] # None =>
                   cache'[r] = cache[r] \/ (batch[r] # None /\ cache'[r].event = batch[r])
         /\ \A w \in Workers : job'[w] # None /\ job'[w].cached # None =>
              /\ job[w] # None /\ job'[w].route = job[w].route /\ job[w].route \in Routes
              /\ job'[w].cached \in {job[w].cached, cache[job[w].route]}
<1> USE DEF IInv, TypeOK
<1>1. CASE Fetch
  BY <1>1, JobType DEF Fetch, Behind
<1>2. ASSUME \/ \E r \in Routes : AddKey(r) \/ Expire(r)
             \/ MoveCursor \/ UNCHANGED reflectorVars \/ UNCHANGED vars
      PROVE  UNCHANGED <<batch, cache, job>>
  BY <1>2 DEF AddKey, Expire, MoveCursor, vars, reflectorVars, fetcherVars
<1>3. CASE PutEvent
  <2>1. added \in Routes /\ batch[added] # None
    BY <1>3 DEF PutEvent, FetchedIsAhead
  <2> QED BY <1>3, <2>1, JobType DEF PutEvent
<1>4. ASSUME NEW w \in Workers, NEW r \in Routes, Get(w, r)
      PROVE  /\ UNCHANGED <<batch, cache>>
             /\ job' = [job EXCEPT ![w] = [route |-> r, cached |-> None, phase |-> "got"]]
  BY <1>4 DEF Get, fetcherVars
<1>5. ASSUME NEW w \in Workers, ReadCache(w)
      PROVE  /\ UNCHANGED <<batch, cache>> /\ job[w] # None
             /\ job'[w].route = job[w].route /\ job'[w].cached = cache[job[w].route]
             /\ \A v \in Workers \ {w} : job'[v] = job[v]
  <2>1. job[w] \in Job
    BY <1>5, JobType DEF ReadCache
  <2> QED BY <1>5, <2>1 DEF ReadCache, Job, fetcherVars
<1>6. ASSUME NEW w \in Workers, Handle(w)
      PROVE  /\ UNCHANGED <<batch, cache>> /\ job[w] # None
             /\ job'[w].route = job[w].route /\ job'[w].cached = job[w].cached
             /\ \A v \in Workers \ {w} : job'[v] = job[v]
  <2>1. /\ UNCHANGED <<batch, cache>> /\ job[w] # None
        /\ \E p \in {"succeeded", "failed"} : job' = [job EXCEPT ![w].phase = p]
    BY <1>6 DEF Handle, HandleDeleted, HandleOther, HandleReady, HandleUnreadable, HandleFails,
       Reads, Succeed, fetcherVars
  <2>2. job[w] \in Job
    BY <2>1, JobType
  <2> QED BY <2>1, <2>2 DEF Job
<1>7. ASSUME NEW w \in Workers, Retry(w) \/ Forget(w)
      PROVE  /\ UNCHANGED batch /\ \A r \in Routes : cache'[r] \in {cache[r], None}
             /\ job' = [job EXCEPT ![w] = None]
  BY <1>7 DEF Retry, Forget, fetcherVars
<1>8. CASE Restart
  BY <1>8 DEF Restart, Nothing
<1>9. \A w \in Workers : job[w] # None => job[w].route \in Routes
  BY JobType
<1>10. CASE UNCHANGED <<batch, cache, job>>
  BY <1>9, <1>10
<1>11. ASSUME NEW w \in Workers, NEW r \in Routes, Get(w, r)
       PROVE  \A v \in Workers : job'[v] # None /\ job'[v].cached # None => job'[v] = job[v]
  BY <1>4, <1>11
<1>12. ASSUME NEW w \in Workers, Retry(w) \/ Forget(w)
       PROVE  \A v \in Workers : job'[v] # None => job'[v] = job[v]
  BY <1>7, <1>12
<1>13. ASSUME NEW w \in Workers, \/ \E r \in Routes : Get(w, r)
                                 \/ ReadCache(w) \/ Handle(w) \/ Retry(w) \/ Forget(w)
       PROVE  /\ \A r \in Routes : batch'[r] = batch[r] /\ cache'[r] \in {cache[r], None}
              /\ \A v \in Workers : job'[v] # None /\ job'[v].cached # None =>
                   /\ job[v] # None /\ job'[v].route = job[v].route
                   /\ job'[v].cached \in {job[v].cached, cache[job[v].route]}
  BY <1>4, <1>5, <1>6, <1>7, <1>11, <1>12, <1>13
<1> QED
  <2> HIDE DEF IInv, TypeOK
  <2> QED BY <1>1, <1>2, <1>3, <1>8, <1>9, <1>10, <1>13 DEF Next

\* A handled event is the one a worker has, and only such a one is entered.
LEMMA HandledComes ==
  ASSUME IInv, [Next]_vars, NEW r \in Routes
  PROVE  \/ handled'[r] = handled[r] /\ catalog'[r] = catalog[r]
         \/ handled'[r] = None /\ catalog'[r] = None
         \/ \E w \in Workers :
              /\ job[w] # None /\ job[w].route = r /\ job[w].cached # None
              /\ handled'[r] = job[w].cached.event
              /\ catalog'[r] \in {catalog[r], None, job[w].cached.event}
<1> USE DEF IInv, TypeOK
<1>1. ASSUME NEW w \in Workers, Handle(w), ~HandleFails(w)
      PROVE  \/ handled'[r] = handled[r] /\ catalog'[r] = catalog[r]
             \/ /\ job[w] # None /\ job[w].route = r /\ job[w].cached # None
                /\ handled'[r] = job[w].cached.event
                /\ catalog'[r] \in {catalog[r], None, job[w].cached.event}
  <2>1. PICK kinds : Reads(w, kinds) /\ Succeed(w)
    BY <1>1 DEF Handle, HandleDeleted, HandleOther, HandleReady, HandleUnreadable
  <2>2. TypeOK'
    BY TypeNext
  <2>3. /\ handled' = [handled EXCEPT ![job[w].route] = job[w].cached.event]
        /\ job[w] # None /\ job[w].cached # None
    BY <2>1, <2>2, SucceedKeeps DEF Reads
  <2>4. \/ catalog' = catalog
        \/ catalog' = [catalog EXCEPT ![job[w].route] = None]
        \/ catalog' = [catalog EXCEPT ![job[w].route] = job[w].cached.event]
    BY <1>1 DEF Handle, HandleDeleted, HandleOther, HandleReady, HandleUnreadable
  <2> QED BY <2>3, <2>4
<1>2. ASSUME NEW w \in Workers, NEW q \in Routes,
             HandleFails(w) \/ Get(w, q) \/ ReadCache(w) \/ Retry(w) \/ Forget(w)
      PROVE  UNCHANGED <<handled, catalog>>
  BY <1>2 DEF HandleFails, Get, ReadCache, Retry, Forget, catalogVars
<1>3. ASSUME NEW q \in Routes, \/ Fetch \/ AddKey(q) \/ PutEvent \/ MoveCursor \/ Expire(q)
                               \/ UNCHANGED reflectorVars \/ UNCHANGED vars
      PROVE  UNCHANGED <<handled, catalog>>
  BY <1>3 DEF Fetch, AddKey, PutEvent, MoveCursor, Expire, catalogVars, vars, reflectorVars
<1>4. CASE Restart
  BY <1>4 DEF Restart, Nothing
<1> QED BY <1>1, <1>2, <1>3, <1>4 DEF Next

\* The process is never ahead of the outbox.
LEMMA KnownNext ==
  ASSUME IInv, IdsGrow, KnownIsPast, [Next]_vars
  PROVE  KnownIsPast'
<1> USE DEF IInv
<1>1. OutboxTypeOK
  BY DEF TypeOK
<1>2. ASSUME NEW r \in Routes PROVE IsPast(batch'[r], outbox'[r])
  <2>1. batch'[r] \in {batch[r], outbox[r], None} /\ batch[r] \in Event \cup {None}
        /\ outbox[r] \in Event \cup {None}
    BY <1>1, EventsArePassedOn DEF TypeOK, OutboxTypeOK
  <2>2. IsPast(batch'[r], outbox[r])
    BY <2>1 DEF KnownIsPast, IsPast
  <2>3. batch'[r] = None \/ batch'[r] \in Event
    BY <2>1
  <2> QED BY <1>1, <2>2, <2>3, PastGrows DEF IsPast
<1>3. ASSUME NEW r \in Routes, cache'[r] # None PROVE IsPast(cache'[r].event, outbox'[r])
  <2>1. cache'[r] = cache[r] \/ (batch[r] # None /\ cache'[r].event = batch[r])
    BY <1>3, EventsArePassedOn
  <2>2. cache'[r].event \in Event /\ IsPast(cache'[r].event, outbox[r])
    BY <1>3, <2>1 DEF KnownIsPast, TypeOK, Cached
  <2> QED BY <1>1, <2>2, PastGrows
<1>4. ASSUME NEW w \in Workers, job'[w] # None, job'[w].cached # None
      PROVE  IsPast(job'[w].cached.event, outbox'[job'[w].route])
  <2>1. /\ job[w] # None /\ job'[w].route = job[w].route /\ job[w].route \in Routes
        /\ job'[w].cached \in {job[w].cached, cache[job[w].route]}
    BY <1>4, EventsArePassedOn
  <2>2. /\ job'[w].cached.event \in Event
        /\ IsPast(job'[w].cached.event, outbox[job[w].route])
    BY <1>4, <2>1, JobType DEF KnownIsPast, TypeOK, Cached
  <2> QED BY <1>1, <2>1, <2>2, PastGrows
<1> QED BY <1>2, <1>3, <1>4 DEF KnownIsPast

\* The step of a handler is one of the catalog that learns the event of its worker.
LEMMA HandlerLearns ==
  ASSUME IInv, KnownIsPast, TypeOK', NEW w \in Workers, Handle(w), ~HandleFails(w),
         UNCHANGED outboxVars
  PROVE  Catalog!Next
<1> USE DEF IInv
<1> DEFINE r == job[w].route
           e == job[w].cached.event
<1>1. PICK kind \in {"deleted", "other", "ready"} : Reads(w, {kind}) /\ Succeed(w)
  BY DEF Handle, HandleDeleted, HandleOther, HandleReady, HandleUnreadable
<1>2. /\ r \in Routes /\ e \in Event /\ job[w].phase = "read"
      /\ job[w] # None /\ job[w].cached # None /\ job[w].cached \in Held(r)
  BY <1>1, JobType, HeldElement DEF Reads
<1>3. handled' = [handled EXCEPT ![r] = e]
  BY <1>1, SucceedKeeps
<1>4. e = outbox[r] \/ (outbox[r] # None /\ e.id < outbox[r].id)
  BY <1>2, OutboxNoneAssumption DEF KnownIsPast, IsPast
<1>5. e = handled[r] \/ handled[r] = None \/ handled[r].id < e.id
  <2> SUFFICES ASSUME handled[r] # None PROVE e = handled[r] \/ handled[r].id < e.id
    OBVIOUS
  <2>1. handled[r] \in Event
    BY <1>2 DEF TypeOK
  <2>2. handled[r].id <= e.id
    BY <1>2 DEF NeverBackwards
  <2>3. handled[r].id = e.id => handled[r] = e
    BY <1>2 DEF HandledIsPast
  <2> QED BY <1>2, <2>1, <2>2, <2>3 DEF Event
<1>6. Catalog!Show(r, e)
  BY <1>1 DEF Handle, HandleDeleted, HandleOther, HandleReady, HandleUnreadable, HandleFails,
     Reads, Catalog!Show
<1>7. Catalog!Learn(r, e)
  BY <1>3, <1>4, <1>5, <1>6 DEF Catalog!Learn, Catalog!After, outboxVars
<1> QED BY <1>2, <1>7 DEF Catalog!Next

\* Every other step is an announcement, a new start, or nothing the catalog shows.
LEMMA CatalogNext ==
  ASSUME IInv, IdsGrow, KnownIsPast, [Next]_vars
  PROVE  [Catalog!Next]_(<<outbox, handled, catalog>>)
<1> SUFFICES Catalog!Next \/ UNCHANGED <<outbox, handled, catalog>>
  OBVIOUS
<1>1. ASSUME NEW w \in Workers, Handle(w), ~HandleFails(w) PROVE Catalog!Next
  <2>1. UNCHANGED outboxVars
    BY <1>1 DEF Handle, HandleDeleted, HandleOther, HandleReady, HandleUnreadable, Succeed
  <2>2. TypeOK'
    BY TypeNext DEF IInv
  <2> QED BY <1>1, <2>1, <2>2, HandlerLearns
<1>2. ASSUME NEW q \in Routes, Commit(q), UNCHANGED reflectorVars PROVE Catalog!Next
  <2>1. open[q] \in Event /\ Catalog!After(open[q], outbox[q])
    BY <1>2 DEF Commit, IInv, TypeOK, OutboxTypeOK, IdsGrow, Catalog!After
  <2>2. Catalog!Announce(q, open[q])
    BY <1>2, <2>1 DEF Commit, Catalog!Announce, reflectorVars, catalogVars
  <2> QED BY <2>1, <2>2 DEF Catalog!Next
<1>3. CASE Restart
  BY <1>3 DEF Restart, outboxVars, Nothing, Catalog!Next, Catalog!StartOver, Catalog!Nothing
<1>4. ASSUME NEW q \in Routes, (\E k \in Kinds : Publish(q, k)) \/ Rollback(q),
             UNCHANGED reflectorVars
      PROVE  UNCHANGED <<outbox, handled, catalog>>
  BY <1>4 DEF Publish, Rollback, reflectorVars, catalogVars
<1>5. ASSUME NEW w \in Workers,
             \/ \E q \in Routes : Get(w, q)
             \/ HandleFails(w) \/ ReadCache(w) \/ Retry(w) \/ Forget(w)
      PROVE  UNCHANGED <<outbox, handled, catalog>>
  BY <1>5 DEF HandleFails, Get, ReadCache, Retry, Forget, catalogVars, outboxVars
<1>6. ASSUME \/ \E q \in Routes : AddKey(q) \/ Expire(q)
             \/ Fetch \/ PutEvent \/ MoveCursor \/ UNCHANGED vars
      PROVE  UNCHANGED <<outbox, handled, catalog>>
  BY <1>6 DEF Fetch, AddKey, PutEvent, MoveCursor, Expire, catalogVars, vars, reflectorVars,
     outboxVars
<1> QED BY <1>1, <1>2, <1>3, <1>4, <1>5, <1>6 DEF Next, OutboxNext

-----------------------------------------------------------------------------
(* The theorems about it                                                   *)

\* The ids of a route grow, and nothing in the process is ahead of the outbox.
LEMMA OutboxLeads == Spec => [](IdsGrow /\ KnownIsPast)
<1>1. Init => IdsGrow /\ KnownIsPast
  BY DEF Init, OutboxInit, ReflectorInit, Nothing, IdsGrow, KnownIsPast, IsPast
<1>2. IInv => OutboxTypeOK
  BY DEF IInv, TypeOK
<1> QED BY <1>1, <1>2, IdsNext, KnownNext, InvariantHolds, PTL DEF Spec

\* The service catalog implements the abstract one: however fetches, retries, several
\* workers and restarts interleave, what it shows of a route is what a reader of the
\* outbox would show that takes its events one by one.
THEOREM OutboxIsFollowed == Spec => FollowsOutbox
<1>1. Init => Catalog!Init
  BY DEF Init, OutboxInit, ReflectorInit, Nothing, Catalog!Init, Catalog!Nothing
<1>2. IInv /\ IdsGrow /\ KnownIsPast /\ [Next]_vars
        => [Catalog!Next]_(<<outbox, handled, catalog>>)
  BY CatalogNext
<1> QED
  BY <1>1, <1>2, InvariantHolds, OutboxLeads, PTL
  DEF Spec, FollowsOutbox, Catalog!Spec, Catalog!catalogVars

\* An event of a route that is not in the process comes there from the outbox only.
LEMMA UnknownNext ==
  ASSUME IInv, [Next]_vars, NEW r \in Routes, NEW e \in Event, Unknown(r, e), outbox[r] # e
  PROVE  Unknown(r, e)'
<1>1. batch'[r] # e /\ (cache'[r] # None => cache'[r].event # e)
  BY EventsArePassedOn, OutboxNoneAssumption DEF Unknown
<1>2. \A w \in Workers :
        job'[w] # None /\ job'[w].route = r /\ job'[w].cached # None => job'[w].cached.event # e
  BY EventsArePassedOn DEF Unknown
<1>3. handled'[r] # e /\ catalog'[r] # e
  BY HandledComes, OutboxNoneAssumption DEF Unknown
<1> QED BY <1>1, <1>2, <1>3 DEF Unknown

\* An event that is never committed for a route is never handled nor shown as one of it.
THEOREM NothingIsInvented == Spec => NothingInvented
<1> SUFFICES ASSUME NEW r \in Routes, NEW e \in Event
             PROVE  Spec => ([](outbox[r] # e) => [](handled[r] # e /\ catalog[r] # e))
  BY DEF NothingInvented
<1>1. Init => Unknown(r, e)
  BY OutboxNoneAssumption DEF Init, ReflectorInit, Nothing, Unknown
<1>2. IInv /\ [Next]_vars /\ Unknown(r, e) /\ outbox[r] # e => Unknown(r, e)'
  BY UnknownNext
<1>3. Unknown(r, e) => handled[r] # e /\ catalog[r] # e
  BY DEF Unknown
<1> QED BY <1>1, <1>2, <1>3, InvariantHolds, PTL DEF Spec

=============================================================================
