----------------------------- MODULE Reflector ------------------------------
(***************************************************************************)
(* The reflector of the service catalog (packages/operator/pkg/            *)
(* servicecatalog) behind the outbox of the API server.  One goroutine     *)
(* fetches events, adds the id of their route to a workqueue and caches    *)
(* them; workers take an id, read the cache and let the UpdateHandler      *)
(* change the catalog.  A failed id comes back after a backoff.            *)
(*                                                                         *)
(* The workqueue is client-go's: an id is queued at most once, is given to *)
(* one worker at a time, and is queued again if it was added meanwhile.    *)
(* Its order is left open.                                                 *)
(***************************************************************************)
EXTENDS Outbox

CONSTANTS Workers

Cached == [event: Event, version: 0..MaxEvents]

Job == [route: Routes, cached: Cached \cup {None},
        phase: {"got", "read", "succeeded", "failed"}]

ASSUME ReflectorNoneAssumption ==
  None \notin Cached /\ None \notin Job /\ None \notin Routes

VARIABLES
  cursor,      \* the id of the last event that was fetched
  batch,       \* the events of the running fetch that are not cached yet
  fetched,     \* the cursor that came with them, or 0
  added,       \* the route whose id is queued and whose event is not cached
  cache,       \* eventCache: the event of a route and the cursor it was behind
  dirty,       \* ids that need processing
  processing,  \* ids workers have
  waiting,     \* ids in their backoff
  job,         \* what a worker is doing, or None
  catalog,     \* routeMap: the event a route was entered with, or None
  models,      \* modelsMap: routes whose model is known
  handled      \* the newest event handled without error since the start (history)

queueVars == <<dirty, processing, waiting>>

fetcherVars == <<cursor, batch, fetched, added>>

catalogVars == <<catalog, models, handled>>

reflectorVars == <<fetcherVars, cache, queueVars, job, catalogVars>>

vars == <<outboxVars, reflectorVars>>

-----------------------------------------------------------------------------
(* The fetcher                                                             *)

Nothing == [r \in Routes |-> None]

\* A tick that finds an event behind the cursor.  Nothing happens on one that does
\* not, nor on a temporary error; any other error stops the process (Restart).
Fetch ==
  /\ fetched = 0
  /\ NewCursor(cursor) > cursor
  /\ fetched' = NewCursor(cursor)
  /\ batch' = [r \in Routes |-> IF r \in Behind(cursor) THEN outbox[r] ELSE None]
  /\ UNCHANGED <<outboxVars, cursor, added, cache, queueVars, job, catalogVars>>

\* The id is queued first ...
AddKey(r) ==
  /\ added = None
  /\ batch[r] # None
  /\ \A q \in Routes : batch[q] # None => batch[r].id <= batch[q].id
  /\ added' = r
  /\ dirty' = dirty \cup {r}
  /\ UNCHANGED <<outboxVars, cursor, batch, fetched, cache, processing, waiting,
                 job, catalogVars>>

\* ... and the event is cached after that, with the cursor before the fetch.
PutEvent ==
  /\ added # None
  /\ cache' = [cache EXCEPT ![added] = [event |-> batch[added], version |-> cursor]]
  /\ batch' = [batch EXCEPT ![added] = None]
  /\ added' = None
  /\ UNCHANGED <<outboxVars, cursor, fetched, queueVars, job, catalogVars>>

MoveCursor ==
  /\ fetched # 0
  /\ batch = Nothing
  /\ cursor' = fetched
  /\ fetched' = 0
  /\ UNCHANGED <<outboxVars, batch, added, cache, queueVars, job, catalogVars>>

-----------------------------------------------------------------------------
(* A worker                                                                *)

Get(w, r) ==
  /\ job[w] = None
  /\ r \in dirty \ processing
  /\ dirty' = dirty \ {r}
  /\ processing' = processing \cup {r}
  /\ job' = [job EXCEPT ![w] = [route |-> r, cached |-> None, phase |-> "got"]]
  /\ UNCHANGED <<outboxVars, fetcherVars, cache, waiting, catalogVars>>

\* Mutant of ReadCache: the id is released before its event is handled.
ReadCacheReleases(w) ==
  /\ job[w] # None /\ job[w].phase = "got"
  /\ job' = [job EXCEPT ![w].cached = cache[job[w].route], ![w].phase = "read"]
  /\ processing' = processing \ {job[w].route}
  /\ UNCHANGED <<outboxVars, fetcherVars, cache, dirty, waiting, catalogVars>>

ReadCache(w) ==
  /\ job[w] # None /\ job[w].phase = "got"
  /\ job' = [job EXCEPT ![w].cached = cache[job[w].route], ![w].phase = "read"]
  /\ UNCHANGED <<outboxVars, fetcherVars, cache, queueVars, catalogVars>>

Reads(w, kinds) ==
  /\ job[w] # None /\ job[w].phase = "read"
  /\ job[w].cached # None
  /\ job[w].cached.event.kind \in kinds

\* The newer of the newest event so far and an event.
Newer(newest, e) == IF newest = None \/ newest.id < e.id THEN e ELSE newest

\* Handle returns no error; queue.Done.
Succeed(w) ==
  /\ job' = [job EXCEPT ![w].phase = "succeeded"]
  /\ processing' = processing \ {job[w].route}
  /\ handled' = [handled EXCEPT ![job[w].route] = Newer(@, job[w].cached.event)]
  /\ UNCHANGED <<outboxVars, fetcherVars, cache, dirty, waiting>>

\* Catalog.Delete leaves the model of the deployment where it is.
HandleDeleted(w) ==
  /\ Reads(w, {"deleted"})
  /\ Succeed(w)
  /\ catalog' = [catalog EXCEPT ![job[w].route] = None]
  /\ UNCHANGED models

\* A default route in another state is not taken out of the catalog either.
HandleOther(w) ==
  /\ Reads(w, {"other"})
  /\ Succeed(w)
  /\ UNCHANGED <<catalog, models>>

HandleReady(w) ==
  /\ Reads(w, {"ready"})
  /\ Succeed(w)
  /\ catalog' = [catalog EXCEPT ![job[w].route] = job[w].cached.event]
  /\ models' = models \cup {job[w].route}

\* The error of CreateOrUpdate, a swagger that is no JSON, is logged and lost.
HandleUnreadable(w) ==
  /\ Reads(w, {"ready"})
  /\ Succeed(w)
  /\ UNCHANGED <<catalog, models>>

\* Mutant of HandleFails: an id without an event has nothing to be retried.
HandleFailsOnEvents(w) ==
  /\ job[w] # None /\ job[w].phase = "read"
  /\ \/ /\ job[w].cached = None
        /\ job' = [job EXCEPT ![w].phase = "succeeded"]
     \/ /\ Reads(w, {"pending", "ready"})
        /\ job' = [job EXCEPT ![w].phase = "failed"]
  /\ processing' = processing \ {job[w].route}
  /\ UNCHANGED <<outboxVars, fetcherVars, cache, dirty, waiting, catalogVars>>

\* There is no event for the id yet, or any more; the route is not Ready; its
\* deployment or its model cannot be asked.
HandleFails(w) ==
  /\ job[w] # None /\ job[w].phase = "read"
  /\ job[w].cached = None \/ Reads(w, {"pending", "ready"})
  /\ job' = [job EXCEPT ![w].phase = "failed"]
  /\ processing' = processing \ {job[w].route}
  /\ UNCHANGED <<outboxVars, fetcherVars, cache, dirty, waiting, catalogVars>>

\* Mutant of Retry: a failed event is dropped from the queue.
RetryNever(w) ==
  /\ job[w] # None /\ job[w].phase = "failed"
  /\ job' = [job EXCEPT ![w] = None]
  /\ UNCHANGED <<outboxVars, fetcherVars, cache, queueVars, catalogVars>>

\* AddRateLimited
Retry(w) ==
  /\ job[w] # None /\ job[w].phase = "failed"
  /\ waiting' = waiting \cup {job[w].route}
  /\ job' = [job EXCEPT ![w] = None]
  /\ UNCHANGED <<outboxVars, fetcherVars, cache, dirty, processing, catalogVars>>

\* Mutant of Forget: the event is deleted whatever its version.
ForgetAny(w) ==
  /\ job[w] # None /\ job[w].phase = "succeeded"
  /\ cache' = [cache EXCEPT ![job[w].route] = None]
  /\ job' = [job EXCEPT ![w] = None]
  /\ UNCHANGED <<outboxVars, fetcherVars, queueVars, catalogVars>>

\* The version of an id without an event is zero; backoffs go on.
Forget(w) ==
  /\ job[w] # None /\ job[w].phase = "succeeded"
  /\ LET r == job[w].route
         version == IF job[w].cached = None THEN 0 ELSE job[w].cached.version
     IN  cache' = IF cache[r] # None /\ cache[r].version = version
                  THEN [cache EXCEPT ![r] = None] ELSE cache
  /\ job' = [job EXCEPT ![w] = None]
  /\ UNCHANGED <<outboxVars, fetcherVars, queueVars, catalogVars>>

\* The backoff of an id is over.
Expire(r) ==
  /\ r \in waiting
  /\ waiting' = waiting \ {r}
  /\ dirty' = dirty \cup {r}
  /\ UNCHANGED <<outboxVars, fetcherVars, cache, processing, job, catalogVars>>

-----------------------------------------------------------------------------
ReflectorInit ==
  /\ cursor = 0
  /\ batch = Nothing
  /\ fetched = 0
  /\ added = None
  /\ cache = Nothing
  /\ dirty = {}
  /\ processing = {}
  /\ waiting = {}
  /\ job = [w \in Workers |-> None]
  /\ catalog = Nothing
  /\ models = {}
  /\ handled = Nothing

\* The process stops, on an error of the fetcher too, and is started again.
Restart ==
  /\ cursor' = 0
  /\ batch' = Nothing
  /\ fetched' = 0
  /\ added' = None
  /\ cache' = Nothing
  /\ dirty' = {}
  /\ processing' = {}
  /\ waiting' = {}
  /\ job' = [w \in Workers |-> None]
  /\ catalog' = Nothing
  /\ models' = {}
  /\ handled' = Nothing
  /\ UNCHANGED outboxVars

Init == OutboxInit /\ ReflectorInit

Handle(w) ==
  \/ HandleDeleted(w)
  \/ HandleOther(w)
  \/ HandleReady(w)
  \/ HandleUnreadable(w)
  \/ HandleFails(w)

Next ==
  \/ OutboxNext /\ UNCHANGED reflectorVars
  \/ Fetch \/ (\E r \in Routes : AddKey(r)) \/ PutEvent \/ MoveCursor
  \/ \E w \in Workers :
       \/ \E r \in Routes : Get(w, r)
       \/ ReadCache(w) \/ Handle(w) \/ Retry(w) \/ Forget(w)
  \/ \E r \in Routes : Expire(r)
  \/ Restart

Spec == Init /\ [][Next]_vars

\* The goroutines of the process run; every queued id is taken in its turn; the API
\* and the models answer now and then.  Nothing makes anyone publish or restart.
Fairness ==
  /\ WF_vars(Fetch) /\ WF_vars(PutEvent) /\ WF_vars(MoveCursor)
  /\ \A r \in Routes :
       /\ WF_vars(AddKey(r))
       /\ WF_vars(Expire(r))
       /\ SF_vars(\E w \in Workers : Get(w, r))
  /\ \A w \in Workers :
       /\ WF_vars(ReadCache(w))
       /\ WF_vars(Handle(w))
       /\ WF_vars(Retry(w))
       /\ WF_vars(Forget(w))
       /\ \A r \in Routes : SF_vars(job[w] # None /\ job[w].route = r /\ HandleReady(w))

FairSpec == Spec /\ Fairness

=============================================================================
