------------------------------ MODULE ApiClient ------------------------------
(***************************************************************************)
(* odahuflowctl and its SDK on a connection of the API server: commands,   *)
(* the requests they send, retries, logins, and what is reported in the    *)
(* end (packages/cli/odahuflow/cli/parsers, packages/sdk/odahuflow/sdk/    *)
(* clients).                                                               *)
(*                                                                         *)
(* create, edit and delete use the client of requests, whose retries are   *)
(* those of urllib3; bulk apply and delete use that of aiohttp, which has  *)
(* a loop of its own.  Login is without a browser.                         *)
(***************************************************************************)
EXTENDS ConnectionService

CONSTANT Retries  \* RETRY_ATTEMPTS

ASSUME RetriesAssumption == Retries \in Nat \ {0}

VARIABLE session  \* of a client: its command and where it stands, or its last report

vars == <<store, conn, calls, writes, alone, session>>

Bulk == {"apply", "remove"}

\* No command is running.
Idle(report) ==
  [cmd |-> "none", body |-> None, lenient |-> FALSE, method |-> "none",
   call |-> None, left |-> 0, logged |-> FALSE, report |-> report]

Runs(s)  == session[s].cmd # "none"
Waits(s) == session[s].call # None

\* Attempts after the first one: urllib3 counts retries, the loop counts attempts.
Budget(cmd) == IF cmd \in Bulk THEN Retries - 1 ELSE Retries

\* Mutant of Idempotent: every method may be sent again.
AnyMethod(method) == TRUE

\* What urllib3 sends again when it does not know whether it has arrived.
Idempotent(method) == method \in {"GET", "PUT", "DELETE"}

-----------------------------------------------------------------------------
(* Commands                                                                *)

FirstMethod(cmd) ==
  CASE cmd = "create" -> "POST"
    [] cmd = "edit"   -> "PUT"
    [] cmd = "delete" -> "DELETE"
    [] OTHER          -> "GET"

\* A request of the command begins, with all its attempts and a login.
Ask(s, method) ==
  session' = [session EXCEPT ![s].method = method, ![s].call = None,
                             ![s].left = Budget(session[s].cmd), ![s].logged = FALSE]

Starts(cmd, body, lenient) ==
  [Idle("none") EXCEPT !.cmd = cmd, !.body = body, !.lenient = lenient,
                       !.method = FirstMethod(cmd), !.left = Budget(cmd)]

\* From a file, or from an answer of the server, with the secrets or without.
Manifests == Files \cup IF conn = None THEN {} ELSE {Masked(conn), Decrypted(conn)}

Start(s) ==
  /\ ~Runs(s)
  /\ \/ \E cmd \in {"create", "edit", "apply"}, body \in Manifests :
          session' = [session EXCEPT ![s] = Starts(cmd, body, FALSE)]
     \/ \E lenient \in BOOLEAN :
          session' = [session EXCEPT ![s] = Starts("delete", None, lenient)]
     \/ session' = [session EXCEPT ![s] = Starts("remove", None, FALSE)]
  /\ UNCHANGED serviceVars

\* Calls as they are when a session does not wait for one of its own any more.
Released(c) ==
  [calls EXCEPT ![c] = IF @.phase = "done" THEN None ELSE [@ EXCEPT !.awaited = FALSE]]

\* The command reports and is over; what it has sent may still be on its way.
End(s, report) ==
  /\ session' = [session EXCEPT ![s] = Idle(report)]
  /\ calls' = [c \in Calls |->
                 IF calls[c] = None \/ calls[c].owner # s THEN calls[c]
                 ELSE IF calls[c].phase = "done" THEN None
                 ELSE [calls[c] EXCEPT !.owner = None, !.awaited = FALSE]]
  /\ writes' = [writes EXCEPT ![s] = 0]
  /\ alone' = [alone EXCEPT ![s] = TRUE]
  /\ UNCHANGED <<store, conn>>

-----------------------------------------------------------------------------
(* Requests                                                                *)

Send(s) ==
  /\ Runs(s) /\ ~Waits(s)
  /\ \E c \in Calls :
       /\ calls[c] = None
       /\ calls' = [calls EXCEPT ![c] = Arrived(s, session[s].method,
                      IF session[s].method \in {"POST", "PUT"} THEN session[s].body ELSE None)]
       /\ session' = [session EXCEPT ![s].call = c]
  /\ UNCHANGED <<store, conn, writes, alone>>

\* One more attempt, if there is one left.
TryAgain(s) ==
  /\ session[s].left > 0
  /\ session' = [session EXCEPT ![s].left = @ - 1, ![s].call = None]

\* The server cannot be reached: every method is tried again.
NotSent(s) ==
  /\ Runs(s) /\ ~Waits(s)
  /\ \/ TryAgain(s) /\ UNCHANGED serviceVars
     \/ session[s].left = 0 /\ End(s, "failed")

\* May the client ask again when it has no answer, or one that says nothing?
Repeats(s) ==
  session[s].cmd \in Bulk \/ Idempotent(session[s].method)

\* The connection breaks, the client gives up waiting, or a proxy answers in place of
\* the server.  The client of aiohttp only repeats after the first of these.
Interrupted(s) ==
  /\ Waits(s)
  /\ \/ /\ Repeats(s)
        /\ TryAgain(s)
        /\ calls' = Released(session[s].call)
        /\ UNCHANGED <<store, conn, writes, alone>>
     \/ /\ session[s].left = 0 \/ ~Idempotent(session[s].method) \/ session[s].cmd \in Bulk
        /\ End(s, "failed")

\* Mutant of Login: a refused token is exchanged each time.
LoginAgain(s) ==
  /\ Ask(s, session[s].method)
  /\ UNCHANGED serviceVars

\* A token is exchanged once for each request (limit_stack).
Login(s) ==
  /\ ~session[s].logged
  /\ session' = [session EXCEPT ![s].logged = TRUE, ![s].left = Budget(session[s].cmd)]
  /\ UNCHANGED serviceVars

\* The request is refused before it gets to its handler; the login may fail.
Unauthorized(s) ==
  /\ Runs(s) /\ ~Waits(s)
  /\ Login(s) \/ End(s, "failed")

-----------------------------------------------------------------------------
(* Answers                                                                 *)

\* Mutant of Ignored: whatever the error is, it is ignored.
IgnoredAlways(s, answer) == session[s].lenient

\* --ignore-not-found.
Ignored(s, answer) == session[s].lenient /\ answer = "notFound"

\* What a bulk command does after it has looked whether the connection exists.
NextMethod(cmd, answer) ==
  CASE cmd = "apply" /\ answer = "ok"       -> "PUT"
    [] cmd = "apply" /\ answer = "notFound" -> "POST"
    [] cmd = "remove" /\ answer = "ok"      -> "DELETE"
    [] OTHER                                -> "none"

Answered(s, answer) ==
  /\ Waits(s)
  /\ calls[session[s].call].phase = "done"
  /\ calls[session[s].call].answer = answer

\* async_apply: the first answer tells whether to create, to edit or to delete.
Looked(s) ==
  \E answer \in {"ok", "notFound"} :
    /\ Answered(s, answer)
    /\ session[s].method = "GET"
    /\ NextMethod(session[s].cmd, answer) # "none"
    /\ Ask(s, NextMethod(session[s].cmd, answer))
    /\ calls' = Released(session[s].call)
    /\ UNCHANGED <<store, conn, writes, alone>>

\* Nothing is there to be removed.
NothingToRemove(s) ==
  /\ session[s].cmd = "remove" /\ session[s].method = "GET"
  /\ Answered(s, "notFound")
  /\ End(s, "ok")

Succeeded(s) ==
  /\ session[s].method # "GET"
  /\ Answered(s, "ok")
  /\ End(s, "ok")

RefusedOrIgnored(s) ==
  \E answer \in {"notFound", "exists", "invalid"} :
    /\ session[s].method # "GET"
    /\ Answered(s, answer)
    /\ End(s, IF Ignored(s, answer) THEN "ok" ELSE "refused")

\* status_forcelist: urllib3 repeats what it may; the other client reports the error.
\* What Vault forbids is answered by another status (403), which nobody repeats.
ServerError(s) ==
  /\ Answered(s, "error")
  /\ \/ /\ session[s].cmd \notin Bulk /\ Idempotent(session[s].method)
        /\ TryAgain(s)
        /\ calls' = Released(session[s].call)
        /\ UNCHANGED <<store, conn, writes, alone>>
     \/ /\ \/ session[s].left = 0 \/ ~Idempotent(session[s].method)
           \/ session[s].cmd \in Bulk \/ store = "vault"
        /\ End(s, "failed")

\* Every step a command takes by itself.
Advance(s) ==
  \/ Send(s)
  \/ NotSent(s)
  \/ Interrupted(s)
  \/ Unauthorized(s)
  \/ Looked(s)
  \/ NothingToRemove(s)
  \/ Succeeded(s)
  \/ RefusedOrIgnored(s)
  \/ ServerError(s)

Init ==
  /\ ServiceInit
  /\ session = [s \in Sessions |-> Idle("none")]

Next ==
  \/ \E c \in Calls : Handle(c) /\ UNCHANGED session
  \/ \E s \in Sessions : Start(s) \/ Advance(s)

Spec == Init /\ [][Next]_vars

\* A command goes on, whether the server answers or not: its client gives up waiting.
FairSpec == Spec /\ \A s \in Sessions : WF_vars(Advance(s))

=============================================================================
