--------------------------- MODULE ApiClientProps ---------------------------
(***************************************************************************)
(* What clients and server together owe the users of a connection.         *)
(***************************************************************************)
EXTENDS ApiClient

\* The command of s ends in this step, with this report.
Reports(s, report) == Runs(s) /\ session'[s] = Idle(report)

\* What is there when the command has done what it says.
Wanted(s) ==
  IF session[s].cmd \in {"delete", "remove"} THEN None ELSE Decoded(session[s].body)

\* A command that reports success has done it: whatever was repeated, lost or late,
\* unless somebody else has written meanwhile, the connection is what it was asked to
\* be.  Of Kubernetes this cannot be said, which loses the errors of its calls
\* (parsers/connection.py, api_aggregated.py, connection_service.go).
ReportIsRight ==
  [][\A s \in Sessions :
       store = "vault" /\ Reports(s, "ok") /\ alone[s] => conn = Wanted(s)]_vars

\* A create writes at most once, and one that is refused has not written: its request
\* is not sent again when it may have arrived (Retry of RemoteAPIClient).
CreatedOnce ==
  [][\A s \in Sessions :
       session[s].cmd = "create" =>
         /\ writes'[s] <= 1
         /\ Reports(s, "refused") => writes[s] = 0]_vars

\* The store has secrets that somebody has, never what is shown in their place, however
\* often answers of the server are sent back to it; and what its type needs
\* (DecodeBase64Fields, EncodeBase64Fields, ValidatesAndSetDefaults).
StoredIsSound ==
  conn # None =>
    /\ conn.secret \in Secrets
    /\ Needs(conn.type) \subseteq conn.given

\* Every command ends, also when the server never answers or refuses every token.
CommandsEnd == \A s \in Sessions : Runs(s) ~> ~Runs(s)

-----------------------------------------------------------------------------
(* The inductive invariant                                                 *)

Session ==
  [cmd: {"none", "create", "edit", "delete", "apply", "remove"}, body: Body \cup {None},
   lenient: BOOLEAN, method: {"none", "GET", "POST", "PUT", "DELETE"},
   call: Calls \cup {None}, left: Nat, logged: BOOLEAN,
   report: {"none", "ok", "refused", "failed"}]

\* Every variable has its type.
TypeOK ==
  /\ store \in {"vault", "kubernetes"}
  /\ conn \in Stored \cup {None}
  /\ calls \in [Calls -> Call \cup {None}]
  /\ writes \in [Sessions -> 0..2]
  /\ alone \in [Sessions -> BOOLEAN]
  /\ session \in [Sessions -> Session]

Sends(c, methods) == calls[c] # None /\ calls[c].method \in methods

Owns(s, c) == calls[c] # None /\ calls[c].owner = s

\* A command sends the requests of its kind.
MethodsFit ==
  \A s \in Sessions :
    /\ session[s].cmd = "create" => session[s].method = "POST"
    /\ session[s].cmd = "edit"   => session[s].method = "PUT"
    /\ session[s].cmd = "delete" => session[s].method = "DELETE"
    /\ session[s].cmd = "apply"  => session[s].method \in {"GET", "POST", "PUT"}
    /\ session[s].cmd = "remove" => session[s].method \in {"GET", "DELETE"}
    /\ session[s].cmd \in {"create", "edit", "apply"} => session[s].body # None
    /\ session[s].lenient => session[s].cmd = "delete"

\* Nobody has the mask for a secret, and what is about to be written is valid.
BodiesAreHonest ==
  /\ \A s \in Sessions : session[s].body # None => Honest(session[s].body)
  /\ \A c \in Calls :
       /\ calls[c] # None /\ calls[c].body # None => Honest(calls[c].body)
       /\ Sends(c, {"POST", "PUT"}) => calls[c].body # None
       /\ Sends(c, {"POST", "PUT"}) /\ In(c, "write") => Valid(calls[c].body)
       /\ In(c, "write") => calls[c].method # "GET"
       /\ In(c, "again") => calls[c].method = "DELETE"

\* A session waits for a call of its own, and somebody for every answer.
AwaitedIsOwned ==
  /\ \A s \in Sessions : Waits(s) =>
       /\ Runs(s) /\ Owns(s, session[s].call)
       /\ calls[session[s].call].awaited
       /\ calls[session[s].call].method = session[s].method
  /\ \A c \in Calls :
       /\ calls[c] # None /\ calls[c].awaited =>
            calls[c].owner # None /\ session[calls[c].owner].call = c
       /\ In(c, "done") => calls[c].awaited

\* The calls of a session are requests of its present command.
CallsFit ==
  \A s \in Sessions, c \in Calls : Owns(s, c) =>
    /\ Runs(s)
    /\ calls[c].method \in {"POST", "PUT"} =>
         session[s].cmd \in {"create", "edit", "apply"} /\ calls[c].body = session[s].body
    /\ calls[c].method = "DELETE" => session[s].cmd \in {"delete", "remove"}
    /\ session[s].cmd = "create" => session[s].call = c

\* What has been written for a create, as far as its call has come.
CreateWrites ==
  \A s \in Sessions :
    /\ ~Runs(s) => writes[s] = 0
    /\ session[s].cmd = "create" =>
         /\ writes[s] <= 1
         /\ \/ ~Waits(s)
            \/ ~In(session[s].call, "done")
            \/ calls[session[s].call].answer \in {"notFound", "exists", "invalid"}
            => writes[s] = 0

\* An answer that makes a command succeed is true until the command reports it.
AnswersHold ==
  \A s \in Sessions :
    /\ store = "vault" /\ alone[s] /\ Waits(s) /\ In(session[s].call, "done")
    /\ LET answer == calls[session[s].call].answer IN
         \/ answer = "ok" /\ session[s].method # "GET"
         \/ answer = "notFound" /\ session[s].cmd \in {"delete", "remove"}
    => conn = Wanted(s)

IInv ==
  /\ TypeOK
  /\ MethodsFit /\ BodiesAreHonest /\ AwaitedIsOwned /\ CallsFit
  /\ CreateWrites /\ AnswersHold /\ StoredIsSound

=============================================================================
