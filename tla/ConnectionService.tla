-------------------------- MODULE ConnectionService --------------------------
(***************************************************************************)
(* One connection in the API server: the handlers of its requests, the     *)
(* validation and the secrets they let through, and the two stores         *)
(* (packages/operator/pkg/apiserver/routes/v1/connection,                  *)
(* pkg/service/connection, pkg/repository/connection).                     *)
(*                                                                         *)
(* A handler looks at the store before it writes, by separate calls, and   *)
(* nothing keeps two handlers apart.  It goes on when its client has given *)
(* up waiting for it.                                                      *)
(***************************************************************************)
EXTENDS Naturals, FiniteSets

CONSTANTS
  Sessions,  \* clients, each with one command at a time
  Calls,     \* places for requests that are being handled
  Secrets,   \* secrets that users have
  Files,     \* connections as users write them
  Stores,    \* "vault" or "kubernetes", whatever the server may be configured with
  Mask,      \* DecryptedDataMask, what is shown in place of a secret
  None       \* no connection, no call, no owner

-----------------------------------------------------------------------------
(* Connections                                                             *)

\* Fields that are given; secret stands for the value of those that are sensitive.
Fields == {"uri", "region", "role", "keyID", "keySecret", "username", "password", "publicKey"}

Types == {"s3", "gcs", "azureblob", "git", "docker", "ecr"}

\* What travels: text in base64 or as it is.
Base64(text) == [base64 |-> TRUE, text |-> text]
Raw(text)    == [base64 |-> FALSE, text |-> text]

\* Mutant of Encode: the mask is encoded like a secret.
EncodeAll(text) == Base64(text)

\* EncodeBase64Fields leaves the mask as it is.
Encode(text) == IF text = Mask THEN Raw(Mask) ELSE Base64(text)

Connection(secrets) ==
  [type: Types, given: SUBSET Fields, secret: secrets, vital: BOOLEAN]

Stored == Connection(Secrets \cup {Mask})
Body   == Connection({Raw(Mask)} \cup {Base64(text) : text \in Secrets \cup {Mask}})

\* A request that is being handled; somebody waits for the answer, or nobody.
Call == [method: {"GET", "POST", "PUT", "DELETE"}, body: Body \cup {None},
         owner: Sessions \cup {None}, awaited: BOOLEAN,
         phase: {"look", "again", "write", "done"},
         answer: {"ok", "notFound", "exists", "invalid", "error"}]

\* Nobody's secret is the mask.
Honest(b) == b.secret.base64 => b.secret.text \in Secrets

ASSUME ConnectionAssumption ==
  /\ Mask \notin Secrets
  /\ Stores \subseteq {"vault", "kubernetes"}
  /\ Files \subseteq {b \in Body : Honest(b)}
  /\ None \notin Sessions \cup Calls \cup Stored \cup Body \cup Call

\* The validators of the types; some fill in what is missing.
Needs(type) ==
  {"uri"} \cup
  CASE type = "s3"        -> {"region", "keyID", "keySecret"}
    [] type = "gcs"       -> {"region", "keySecret"}
    [] type = "azureblob" -> {"keySecret"}
    [] type = "git"       -> {"publicKey"}
    [] type = "docker"    -> {"username", "password"}
    [] type = "ecr"       -> {"region", "keyID", "keySecret"}

Forbids(type) == IF type \in {"s3", "gcs"} THEN {"role"} ELSE {}

\* The public key of a git host, the region in the URI of a registry.
Defaults(type) ==
  CASE type = "git" -> {"publicKey"}
    [] type = "ecr" -> {"region"}
    [] OTHER        -> {}

SetDefaults(b) ==
  IF "uri" \in b.given THEN [b EXCEPT !.given = @ \cup Defaults(b.type)] ELSE b

Valid(b) ==
  /\ b.secret.base64
  /\ Needs(b.type) \subseteq SetDefaults(b).given
  /\ Forbids(b.type) \cap b.given = {}

\* What an accepted body is in the store (DecodeBase64Fields).
Decoded(b) == [SetDefaults(b) EXCEPT !.secret = b.secret.text]

\* What a GET shows of it, the secrets masked or not.
Masked(c)    == [c EXCEPT !.secret = Encode(Mask)]
Decrypted(c) == [c EXCEPT !.secret = Encode(c.secret)]

-----------------------------------------------------------------------------
VARIABLES
  store,   \* the configured repository
  conn,    \* the connection in it
  calls,   \* requests that are being handled: method, body and owner, whether a
           \* client waits for the answer, and how far the handler has come
  writes,  \* history: how often the command of a session has written, at most 2
  alone    \* history: nothing else has written since the command of a session began

serviceVars == <<store, conn, calls, writes, alone>>

\* A new request; its answer counts when it is done.
Arrived(s, method, body) ==
  [method |-> method, body |-> body, owner |-> s, awaited |-> TRUE,
   phase |-> "look", answer |-> "error"]

In(c, phase) == calls[c] # None /\ calls[c].phase = phase

Goes(c, phase) == calls' = [calls EXCEPT ![c].phase = phase]

\* An answer nobody waits for is dropped.
Answer(c, answer) ==
  calls' = [calls EXCEPT ![c] = IF @.awaited THEN [@ EXCEPT !.phase = "done", !.answer = answer]
                                             ELSE None]

Reads == UNCHANGED <<store, conn, writes, alone>>

-----------------------------------------------------------------------------
(* Handlers                                                                *)

GetConnection(c) ==
  /\ In(c, "look") /\ calls[c].method = "GET"
  /\ Answer(c, IF conn = None THEN "notFound" ELSE "ok")
  /\ Reads

\* The key of a git host may not be to be had, and the URI of a registry not be one.
Reject(c) ==
  LET b == calls[c].body IN
  /\ In(c, "look") /\ calls[c].method \in {"POST", "PUT"}
  /\ \/ ~Valid(b)
     \/ b.type = "git" /\ "publicKey" \notin b.given
     \/ b.type = "ecr"
  /\ Answer(c, "invalid")
  /\ Reads

CheckAbsent(c) ==
  /\ In(c, "look") /\ calls[c].method = "POST" /\ Valid(calls[c].body)
  /\ IF conn = None THEN Goes(c, "write") ELSE Answer(c, "exists")
  /\ Reads

CheckPresent(c) ==
  /\ In(c, "look") /\ calls[c].method = "PUT" /\ Valid(calls[c].body)
  /\ IF conn = None THEN Answer(c, "notFound") ELSE Goes(c, "write")
  /\ Reads

\* The handler looks whether the connection is vital, the service whether it is there.
CheckNotVital(c) ==
  /\ In(c, "look") /\ calls[c].method = "DELETE"
  /\ IF conn = None THEN Answer(c, "notFound")
     ELSE IF conn.vital THEN Answer(c, "invalid")
     ELSE Goes(c, "again")
  /\ Reads

CheckAgain(c) ==
  /\ In(c, "again")
  /\ IF conn = None THEN Answer(c, "notFound") ELSE Goes(c, "write")
  /\ Reads

\* CreateConnection takes every error for an absent connection.  The error of
\* Kubernetes is lost on its way (ConvertK8sErrToOdahuflowErr): CreateConnection takes
\* the empty answer for a connection, the others panic.
LookFails(c) ==
  /\ In(c, "look") \/ In(c, "again")
  /\ calls[c].body # None => Valid(calls[c].body)
  /\ CASE calls[c].method = "POST" /\ store = "vault"      -> Goes(c, "write")
       [] calls[c].method = "POST" /\ store = "kubernetes" -> Answer(c, "exists")
       [] OTHER                                            -> Answer(c, "error")
  /\ Reads

\* The connection is written for its session and under the hands of the others.
Put(c, value) ==
  LET s == calls[c].owner IN
  /\ conn' = value
  /\ writes' = [t \in Sessions |-> IF t = s /\ writes[t] < 2 THEN writes[t] + 1 ELSE writes[t]]
  /\ alone' = [t \in Sessions |-> alone[t] /\ t = s]
  /\ UNCHANGED store

Written(c) == IF calls[c].method = "DELETE" THEN None ELSE Decoded(calls[c].body)

\* Kubernetes creates what is not there and changes what is; Vault writes anyway.
Refused(c) ==
  /\ store = "kubernetes"
  /\ (conn = None) # (calls[c].method = "POST")

Write(c) ==
  /\ In(c, "write")
  /\ IF Refused(c)
     THEN Answer(c, IF conn = None THEN "notFound" ELSE "exists") /\ Reads
     ELSE Answer(c, "ok") /\ Put(c, Written(c))

\* Another handler has written between the read and the write of an update.
Conflict(c) ==
  /\ store = "kubernetes" /\ In(c, "write") /\ calls[c].method = "PUT"
  /\ \E d \in Calls \ {c} : In(d, "write")
  /\ Answer(c, "exists")
  /\ Reads

\* An error of the store, with or without effect; that of Kubernetes gets lost.
WriteFails(c) ==
  /\ In(c, "write")
  /\ Answer(c, IF store = "kubernetes" THEN "ok" ELSE "error")
  /\ \/ Reads
     \/ ~Refused(c) /\ Put(c, Written(c))

Handle(c) ==
  \/ GetConnection(c)
  \/ Reject(c)
  \/ CheckAbsent(c)
  \/ CheckPresent(c)
  \/ CheckNotVital(c)
  \/ CheckAgain(c)
  \/ LookFails(c)
  \/ Write(c)
  \/ Conflict(c)
  \/ WriteFails(c)

ServiceInit ==
  /\ store \in Stores
  /\ conn = None
  /\ calls = [c \in Calls |-> None]
  /\ writes = [s \in Sessions |-> 0]
  /\ alone = [s \in Sessions |-> TRUE]

=============================================================================
