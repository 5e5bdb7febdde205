----------------------------- MODULE KubeCache -----------------------------
(***************************************************************************)
(* An object of the Kubernetes API as the server has it and as the         *)
(* informer of a controller-runtime client shows it.  A client that gets   *)
(* or lists reads the cache; a client that creates, updates or deletes     *)
(* talks to the server.                                                    *)
(***************************************************************************)
CONSTANT None  \* no object

Store(T) == [now: T \cup {None}, seen: T \cup {None}]

Absent == [now |-> None, seen |-> None]

\* A new version, which the cache shows at once or, where it may be late, afterwards.
Put(late, store, x) ==
  IF x = store.now THEN store
  ELSE [now |-> x, seen |-> IF late THEN store.seen ELSE x]

Refresh(store) == [store EXCEPT !.seen = store.now]

=============================================================================
