--------------------------- MODULE ApiClientProofs ---------------------------
(***************************************************************************)
(* Proofs about ApiClient for any number of clients, calls, retries, files *)
(* and secrets.                                                            *)
(*                                                                         *)
(* A step is one of six kinds: a handler's, the start of a command, a      *)
(* request sent, an attempt given up before it was sent, an attempt given  *)
(* up after it was sent, and the end of a command.  A lemma for each kind  *)
(* says that it keeps the invariant.                                       *)
(***************************************************************************)
EXTENDS ApiClientProps, TLAPS

-----------------------------------------------------------------------------
(* Connections                                                             *)

\* What a body with its secret in base64 becomes in the store.
LEMMA DecodedIsSound ==
  ASSUME NEW b \in Body
  PROVE  /\ Decoded(b) \in Stored
         /\ Honest(b) /\ Valid(b) =>
              /\ Decoded(b).secret \in Secrets
              /\ Needs(Decoded(b).type) \subseteq Decoded(b).given
PROOF
  <1>1. b.type \in Types /\ b.given \subseteq Fields /\ b.vital \in BOOLEAN
    BY DEF Body, Connection
  <1>2. b.secret.text \in Secrets \cup {Mask}
    BY DEF Body, Connection, Base64, Raw
  <1>3. Defaults(b.type) \subseteq Fields
    BY <1>1 DEF Defaults, Types, Fields
  <1>4. /\ SetDefaults(b) \in Connection({Raw(Mask)} \cup {Base64(text) : text \in Secrets \cup {Mask}})
        /\ SetDefaults(b).type = b.type /\ SetDefaults(b).secret = b.secret
    BY <1>1, <1>3 DEF SetDefaults, Body, Connection
  <1>5. /\ Decoded(b) \in Stored
        /\ Decoded(b).secret = b.secret.text /\ Decoded(b).type = b.type
        /\ Decoded(b).given = SetDefaults(b).given
    BY <1>2, <1>4 DEF Decoded, Stored, Connection
  <1> QED
    BY <1>5 DEF Honest, Valid

\* Every file, and every answer with what is stored, is an honest body.
LEMMA ManifestsAreHonest ==
  ASSUME TypeOK, StoredIsSound, NEW b \in Manifests
  PROVE  b \in Body /\ b # None /\ Honest(b)
PROOF
  <1>1. CASE b \in Files
    BY <1>1, ConnectionAssumption
  <1>2. CASE conn # None /\ b = Masked(conn)
    BY <1>2, ConnectionAssumption
    DEF TypeOK, Masked, Encode, Stored, Body, Connection, Honest, Raw
  <1>3. CASE conn # None /\ b = Decrypted(conn)
    <2>1. conn \in Stored /\ conn.secret \in Secrets /\ conn.secret # Mask
      BY <1>3, ConnectionAssumption DEF TypeOK, StoredIsSound
    <2>2. b = [conn EXCEPT !.secret = Base64(conn.secret)]
      BY <1>3, <2>1 DEF Decrypted, Encode
    <2>3. b \in Body /\ b.secret = Base64(conn.secret)
      BY <2>1, <2>2 DEF Stored, Body, Connection
    <2>4. Base64(conn.secret).text = conn.secret
      BY DEF Base64
    <2> QED
      BY <2>1, <2>3, <2>4, ConnectionAssumption DEF Honest
  <1> QED
    BY <1>1, <1>2, <1>3 DEF Manifests

-----------------------------------------------------------------------------
(* Handlers                                                                *)

\* What a step of a handler may be, and when its answer says that a command is done.
Moves(c) ==
  \E phase \in {"again", "write"} :
    /\ Goes(c, phase) /\ Reads
    /\ phase = "again" => calls[c].method = "DELETE"
    /\ phase = "write" => calls[c].method # "GET"
    /\ phase = "write" /\ calls[c].method # "DELETE" => Valid(calls[c].body)

Tells(c) ==
  \E answer \in {"ok", "notFound", "exists", "invalid", "error"} :
    /\ Answer(c, answer) /\ Reads
    /\ store = "vault" /\ answer = "ok" => calls[c].method = "GET"
    /\ store = "vault" /\ answer = "notFound" => conn = None

Puts(c) ==
  \E answer \in {"ok", "error"} :
    Answer(c, answer) /\ In(c, "write") /\ Put(c, Written(c))

LEMMA HandlerSteps ==
  ASSUME IInv, NEW c \in Calls, Handle(c)
  PROVE  calls[c] # None /\ calls[c].phase # "done" /\ (Moves(c) \/ Tells(c) \/ Puts(c))
PROOF
  <1>1. calls[c] # None => calls[c] \in Call
    BY DEF IInv, TypeOK
  <1>2. calls[c] # None => calls[c].method \in {"GET", "POST", "PUT", "DELETE"}
    BY <1>1 DEF Call
  <1>3. store \in {"vault", "kubernetes"}
    BY DEF IInv, TypeOK
  <1>4. CASE GetConnection(c)
    BY <1>4 DEF GetConnection, In, Tells
  <1>5. CASE Reject(c)
    BY <1>5 DEF Reject, In, Tells
  <1>6. CASE CheckAbsent(c)
    BY <1>6 DEF CheckAbsent, In, Tells, Moves
  <1>7. CASE CheckPresent(c)
    BY <1>7 DEF CheckPresent, In, Tells, Moves
  <1>8. CASE CheckNotVital(c)
    BY <1>8 DEF CheckNotVital, In, Tells, Moves
  <1>9. CASE CheckAgain(c)
    BY <1>9 DEF CheckAgain, In, Tells, Moves, IInv, BodiesAreHonest
  <1>10. CASE LookFails(c)
    <2>1. calls[c] # None /\ calls[c].phase # "done"
      BY <1>10 DEF LookFails, In
    <2>2. CASE calls[c].method = "POST" /\ store = "vault"
      <3>1. In(c, "look")
        BY <1>10, <2>2 DEF LookFails, IInv, BodiesAreHonest
      <3>2. Valid(calls[c].body)
        BY <1>10, <2>1, <2>2, <3>1 DEF LookFails, IInv, BodiesAreHonest, Sends
      <3>3. Goes(c, "write") /\ Reads
        BY <1>10, <2>2 DEF LookFails
      <3> QED
        BY <2>1, <2>2, <3>2, <3>3 DEF Moves
    <2>3. CASE calls[c].method = "POST" /\ store = "kubernetes"
      <3>1. Answer(c, "exists") /\ Reads
        BY <1>10, <2>3 DEF LookFails
      <3> QED
        BY <2>1, <3>1 DEF Tells
    <2>4. CASE calls[c].method # "POST"
      <3>1. Answer(c, "error") /\ Reads
        BY <1>10, <2>4 DEF LookFails
      <3> QED
        BY <2>1, <3>1 DEF Tells
    <2> QED
      BY <1>3, <2>2, <2>3, <2>4
  <1>11. CASE Write(c)
    <2>1. calls[c] # None /\ calls[c].phase # "done"
      BY <1>11 DEF Write, In
    <2>2. CASE Refused(c)
      BY <1>11, <2>1, <2>2 DEF Write, Tells, Refused
    <2>3. CASE ~Refused(c)
      BY <1>11, <2>1, <2>3 DEF Write, Puts
    <2> QED
      BY <2>2, <2>3
  <1>12. CASE Conflict(c)
    BY <1>12 DEF Conflict, In, Tells
  <1>13. CASE WriteFails(c)
    <2>1. calls[c] # None /\ calls[c].phase # "done" /\ In(c, "write")
      BY <1>13 DEF WriteFails, In
    <2>2. \E answer \in {"ok", "error"} :
            Answer(c, answer) /\ (store = "vault" => answer = "error")
      BY <1>13 DEF WriteFails
    <2>3. CASE Reads
      BY <2>1, <2>2, <2>3 DEF Tells
    <2>4. CASE Put(c, Written(c))
      BY <2>1, <2>2, <2>4 DEF Puts
    <2> QED
      BY <1>13, <2>3, <2>4 DEF WriteFails
  <1> QED
    BY <1>4, <1>5, <1>6, <1>7, <1>8, <1>9, <1>10, <1>11, <1>12, <1>13 DEF Handle

\* An answer reaches the client that waits for it and changes no other call.
LEMMA AnswerEffects ==
  ASSUME TypeOK, NEW c \in Calls, calls[c] # None,
         NEW answer \in {"ok", "notFound", "exists", "invalid", "error"}, Answer(c, answer)
  PROVE  /\ calls' \in [Calls -> Call \cup {None}]
         /\ \A d \in Calls : d # c => calls'[d] = calls[d]
         /\ ~calls[c].awaited => calls'[c] = None
         /\ calls[c].awaited =>
              /\ calls'[c] # None /\ calls'[c].phase = "done" /\ calls'[c].answer = answer
              /\ calls'[c].method = calls[c].method /\ calls'[c].body = calls[c].body
              /\ calls'[c].owner = calls[c].owner /\ calls'[c].awaited
PROOF
  <1>1. calls \in [Calls -> Call \cup {None}] /\ calls[c] \in Call
    BY DEF TypeOK
  <1>2. CASE calls[c].awaited
    <2>1. calls' = [calls EXCEPT ![c] = [@ EXCEPT !.phase = "done", !.answer = answer]]
      BY <1>2 DEF Answer
    <2>2. [calls[c] EXCEPT !.phase = "done", !.answer = answer] \in Call
      BY <1>1 DEF Call
    <2>3. None \notin Call
      BY ConnectionAssumption
    <2> QED
      BY <1>1, <1>2, <2>1, <2>2, <2>3 DEF Call
  <1>3. CASE ~calls[c].awaited
    BY <1>1, <1>3 DEF Answer
  <1> QED
    BY <1>2, <1>3

\* A step of a handler keeps the invariant, and a create has then written at most once.
LEMMA HandlerKeeps ==
  ASSUME IInv, NEW c \in Calls, Handle(c), UNCHANGED session
  PROVE  /\ IInv'
         /\ \A s \in Sessions : session[s].cmd = "create" => writes'[s] <= 1
PROOF
  <1> USE DEF IInv
  <1>1. calls[c] # None /\ calls[c] \in Call /\ calls[c].phase # "done"
    BY HandlerSteps DEF TypeOK
  <1>2. /\ None \notin Sessions \cup Calls \cup Stored \cup Body \cup Call
        /\ \A s \in Sessions : session[s].call \in Calls \cup {None}
    BY ConnectionAssumption DEF TypeOK, Session
  <1>3. CASE Moves(c)
    <2>1. PICK phase \in {"again", "write"} :
            /\ Goes(c, phase) /\ Reads
            /\ phase = "again" => calls[c].method = "DELETE"
            /\ phase = "write" => calls[c].method # "GET"
            /\ phase = "write" /\ calls[c].method # "DELETE" => Valid(calls[c].body)
      BY <1>3 DEF Moves
    <2>2. /\ \A d \in Calls : d # c => calls'[d] = calls[d]
          /\ calls'[c] = [calls[c] EXCEPT !.phase = phase]
          /\ UNCHANGED <<store, conn, writes, alone>>
      BY <2>1 DEF Goes, Reads, TypeOK
    <2>3. /\ calls'[c] \in Call /\ calls'[c] # None /\ calls'[c].phase = phase
          /\ calls'[c].method = calls[c].method /\ calls'[c].body = calls[c].body
          /\ calls'[c].owner = calls[c].owner /\ calls'[c].awaited = calls[c].awaited
      BY <1>1, <1>2, <2>2 DEF Call
    <2>4. TypeOK'
      BY <2>1, <2>2, <2>3 DEF TypeOK, Goes
    <2>5. MethodsFit'
      BY DEF MethodsFit
    <2>6. BodiesAreHonest'
      BY <1>1, <2>1, <2>2, <2>3 DEF BodiesAreHonest, Sends, In
    <2>a. \A d \in Calls :
            /\ calls'[d] = None <=> calls[d] = None
            /\ calls'[d].method = calls[d].method /\ calls'[d].body = calls[d].body
            /\ calls'[d].owner = calls[d].owner /\ calls'[d].awaited = calls[d].awaited
            /\ In(d, "done")' <=> In(d, "done")
            /\ In(d, "done") => calls'[d] = calls[d]
      BY <1>1, <2>2, <2>3 DEF In
    <2>7. AwaitedIsOwned'
      BY <1>2, <2>a DEF AwaitedIsOwned, Waits, Runs, Owns
    <2>8. CallsFit'
      BY <2>a DEF CallsFit, Owns, Runs
    <2>9. CreateWrites'
      BY <1>2, <2>2, <2>a DEF CreateWrites, Runs, Waits
    <2>10. AnswersHold'
      <3> SUFFICES ASSUME NEW s \in Sessions, store = "vault", alone[s], Waits(s),
                          In(session[s].call, "done")',
                          \/ calls'[session[s].call].answer = "ok" /\ session[s].method # "GET"
                          \/ /\ calls'[session[s].call].answer = "notFound"
                             /\ session[s].cmd \in {"delete", "remove"}
                   PROVE  conn = Wanted(s)
        BY <2>2 DEF AnswersHold, Waits, Wanted
      <3> QED
        BY <1>2, <2>a DEF AnswersHold, Waits
    <2>11. StoredIsSound'
      BY <2>2 DEF StoredIsSound
    <2> QED
      BY <2>2, <2>4, <2>5, <2>6, <2>7, <2>8, <2>9, <2>10, <2>11 DEF CreateWrites
  <1>4. ASSUME NEW answer \in {"ok", "notFound", "exists", "invalid", "error"},
               Answer(c, answer)
        PROVE  /\ calls' \in [Calls -> Call \cup {None}]
               /\ MethodsFit' /\ BodiesAreHonest' /\ AwaitedIsOwned' /\ CallsFit'
               /\ \A d \in Calls : d # c => calls'[d] = calls[d]
               /\ \A s \in Sessions : session[s].call = c =>
                    /\ session[s].method = calls[c].method /\ Owns(s, c)
                    /\ In(c, "done")' /\ calls'[c].answer = answer
    <2>1. /\ calls' \in [Calls -> Call \cup {None}]
          /\ \A d \in Calls : d # c => calls'[d] = calls[d]
          /\ ~calls[c].awaited => calls'[c] = None
          /\ calls[c].awaited =>
               /\ calls'[c] # None /\ calls'[c].phase = "done" /\ calls'[c].answer = answer
               /\ calls'[c].method = calls[c].method /\ calls'[c].body = calls[c].body
               /\ calls'[c].owner = calls[c].owner /\ calls'[c].awaited
      BY <1>1, <1>4, AnswerEffects
    <2>2. MethodsFit'
      BY DEF MethodsFit
    <2>3. BodiesAreHonest'
      BY <1>1, <2>1 DEF BodiesAreHonest, Sends, In
    <2>4. AwaitedIsOwned'
      BY <1>1, <1>2, <2>1 DEF AwaitedIsOwned, Waits, Runs, Owns, In
    <2>5. CallsFit'
      BY <1>1, <2>1 DEF CallsFit, Owns, Runs
    <2>6. \A s \in Sessions : session[s].call = c =>
            calls[c].awaited /\ session[s].method = calls[c].method /\ Owns(s, c)
      BY <1>2 DEF AwaitedIsOwned, Waits
    <2> QED
      BY <2>1, <2>2, <2>3, <2>4, <2>5, <2>6 DEF In
  <1>5. CASE Tells(c)
    <2>1. PICK answer \in {"ok", "notFound", "exists", "invalid", "error"} :
            /\ Answer(c, answer) /\ Reads
            /\ store = "vault" /\ answer = "ok" => calls[c].method = "GET"
            /\ store = "vault" /\ answer = "notFound" => conn = None
      BY <1>5 DEF Tells
    <2>2. UNCHANGED <<store, conn, writes, alone>>
      BY <2>1 DEF Reads
    <2>3. TypeOK'
      BY <1>4, <2>1, <2>2 DEF TypeOK
    <2>4. CreateWrites'
      <3> SUFFICES ASSUME NEW s \in Sessions, session[s].cmd = "create"
                   PROVE  /\ writes[s] <= 1
                          /\ \/ ~Waits(s)'
                             \/ ~In(session[s].call, "done")'
                             \/ calls'[session[s].call].answer \in {"notFound", "exists", "invalid"}
                             => writes[s] = 0
        BY <2>2 DEF CreateWrites, Runs
      <3>1. CASE session[s].call = c
        BY <1>1, <3>1 DEF CreateWrites, In
      <3>2. CASE session[s].call # c
        BY <1>4, <2>1, <3>2 DEF CreateWrites, In, Waits, TypeOK, Session
      <3> QED
        BY <3>1, <3>2
    <2>5. AnswersHold'
      <3> SUFFICES ASSUME NEW s \in Sessions, store = "vault", alone[s], Waits(s),
                          In(session[s].call, "done")',
                          \/ calls'[session[s].call].answer = "ok" /\ session[s].method # "GET"
                          \/ /\ calls'[session[s].call].answer = "notFound"
                             /\ session[s].cmd \in {"delete", "remove"}
                   PROVE  conn = Wanted(s)
        BY <2>2 DEF AnswersHold, Waits, Wanted
      <3>1. CASE session[s].call = c
        BY <1>4, <2>1, <3>1 DEF Wanted
      <3>2. CASE session[s].call # c
        BY <1>4, <2>1, <3>2 DEF AnswersHold, In, Waits, TypeOK, Session
      <3> QED
        BY <3>1, <3>2
    <2>6. StoredIsSound'
      BY <2>2 DEF StoredIsSound
    <2> QED
      BY <1>4, <2>1, <2>2, <2>3, <2>4, <2>5, <2>6 DEF CreateWrites
  <1>6. CASE Puts(c)
    <2>1. PICK answer \in {"ok", "error"} :
            Answer(c, answer) /\ In(c, "write") /\ Put(c, Written(c))
      BY <1>6 DEF Puts
    <2>2. /\ store' = store /\ conn' = Written(c)
          /\ writes' = [t \in Sessions |-> IF t = calls[c].owner /\ writes[t] < 2
                                           THEN writes[t] + 1 ELSE writes[t]]
          /\ alone' = [t \in Sessions |-> alone[t] /\ t = calls[c].owner]
      BY <2>1 DEF Put
    <2>3. /\ Written(c) = None
          \/ /\ Written(c) = Decoded(calls[c].body) /\ calls[c].body \in Body
             /\ Honest(calls[c].body) /\ Valid(calls[c].body)
      BY <1>1, <2>1 DEF Written, BodiesAreHonest, Sends, In, Call
    <2>4. TypeOK'
      <3>1. conn' \in Stored \cup {None}
        BY <2>2, <2>3, DecodedIsSound
      <3>2. writes' \in [Sessions -> 0..2] /\ alone' \in [Sessions -> BOOLEAN]
        BY <2>2 DEF TypeOK
      <3> QED
        BY <1>4, <2>1, <2>2, <3>1, <3>2 DEF TypeOK
    <2>5. StoredIsSound'
      BY <2>2, <2>3, DecodedIsSound DEF StoredIsSound
    <2>6. CreateWrites' /\ \A s \in Sessions : session[s].cmd = "create" => writes'[s] <= 1
      <3> SUFFICES ASSUME NEW s \in Sessions
                   PROVE  /\ ~Runs(s) => writes'[s] = 0
                          /\ session[s].cmd = "create" =>
                               /\ writes'[s] <= 1
                               /\ \/ ~Waits(s)'
                                  \/ ~In(session[s].call, "done")'
                                  \/ calls'[session[s].call].answer \in {"notFound", "exists", "invalid"}
                                  => writes'[s] = 0
        BY DEF CreateWrites, Runs
      <3>1. CASE s = calls[c].owner
        <4>1. Owns(s, c) /\ Runs(s)
          BY <1>1, <3>1 DEF Owns, CallsFit
        <4>2. session[s].cmd = "create" => session[s].call = c
          BY <4>1 DEF CallsFit
        <4>3. session[s].cmd = "create" => writes[s] = 0
          BY <1>1, <4>2 DEF CreateWrites, In
        <4>4. session[s].cmd = "create" => writes'[s] = 1
          BY <2>2, <3>1, <4>3
        <4>5. session[s].cmd = "create" => Waits(s)' /\ In(session[s].call, "done")'
                                           /\ calls'[session[s].call].answer = answer
          BY <1>2, <1>4, <2>1, <4>2 DEF Waits
        <4> QED
          BY <4>1, <4>4, <4>5
      <3>2. CASE s # calls[c].owner
        <4>1. writes'[s] = writes[s]
          BY <2>2, <3>2
        <4>2. session[s].call # c
          BY <1>4, <2>1, <3>2 DEF Owns
        <4> QED
          BY <1>4, <2>1, <4>1, <4>2 DEF CreateWrites, In, Waits, TypeOK, Session
      <3> QED
        BY <3>1, <3>2
    <2>7. AnswersHold'
      <3> SUFFICES ASSUME NEW s \in Sessions, alone'[s], Runs(s)
                   PROVE  conn' = Wanted(s)
        BY <1>4, <2>1 DEF AnswersHold, Wanted, AwaitedIsOwned, Waits, Runs
      <3>1. s = calls[c].owner
        BY <2>2
      <3>2. Owns(s, c)
        BY <1>1, <3>1 DEF Owns
      <3> QED
        BY <1>1, <2>1, <2>2, <3>2 DEF CallsFit, Written, Wanted, Call, BodiesAreHonest, In
    <2> QED
      BY <1>4, <2>1, <2>4, <2>5, <2>6, <2>7
  <1> QED
    BY <1>3, <1>5, <1>6, HandlerSteps

-----------------------------------------------------------------------------
(* Steps of a client                                                       *)

\* The start of a command: no call of an earlier one is left.
LEMMA StartKeeps ==
  ASSUME IInv, NEW s \in Sessions, Start(s)
  PROVE  IInv'
PROOF
  <1> USE DEF IInv
  <1>1. /\ ~Runs(s) /\ UNCHANGED serviceVars
        /\ \E cmd \in {"create", "edit", "apply", "delete", "remove"},
              body \in Manifests \cup {None}, lenient \in BOOLEAN :
             /\ session' = [session EXCEPT ![s] = Starts(cmd, body, lenient)]
             /\ cmd \in {"create", "edit", "apply"} => body \in Manifests
             /\ lenient => cmd = "delete"
    BY DEF Start
  <1>2. PICK cmd \in {"create", "edit", "apply", "delete", "remove"},
              body \in Manifests \cup {None}, lenient \in BOOLEAN :
             /\ session' = [session EXCEPT ![s] = Starts(cmd, body, lenient)]
             /\ cmd \in {"create", "edit", "apply"} => body \in Manifests
             /\ lenient => cmd = "delete"
    BY <1>1
  <1>3. /\ body \in Body \cup {None}
        /\ cmd \in {"create", "edit", "apply"} => body # None
        /\ body # None => Honest(body)
    BY <1>2, ManifestsAreHonest
  <1>4. /\ FirstMethod(cmd) \in {"GET", "POST", "PUT", "DELETE"}
        /\ cmd = "create" => FirstMethod(cmd) = "POST"
        /\ cmd = "edit"   => FirstMethod(cmd) = "PUT"
        /\ cmd = "delete" => FirstMethod(cmd) = "DELETE"
        /\ cmd \in {"apply", "remove"} => FirstMethod(cmd) = "GET"
    BY DEF FirstMethod
  <1>5. Budget(cmd) \in Nat
    BY RetriesAssumption DEF Budget
  <1>6. /\ session'[s] \in Session
        /\ session'[s].cmd = cmd /\ session'[s].body = body
        /\ session'[s].lenient = lenient /\ session'[s].method = FirstMethod(cmd)
        /\ session'[s].call = None
    BY <1>2, <1>3, <1>4, <1>5 DEF Starts, Idle, Session, TypeOK
  <1>7. /\ \A t \in Sessions : t # s => session'[t] = session[t]
        /\ session' \in [Sessions -> Session]
    BY <1>2, <1>6 DEF TypeOK
  <1>8. UNCHANGED <<store, conn, calls, writes, alone>>
    BY <1>1 DEF serviceVars
  <1>9. \A c \in Calls : ~Owns(s, c)
    BY <1>1 DEF CallsFit
  <1>10. TypeOK'
    BY <1>7, <1>8 DEF TypeOK
  <1>11. MethodsFit'
    BY <1>2, <1>3, <1>4, <1>6, <1>7 DEF MethodsFit
  <1>12. BodiesAreHonest'
    BY <1>3, <1>6, <1>7, <1>8 DEF BodiesAreHonest, Sends, In
  <1>13. AwaitedIsOwned'
    <2>1. \A t \in Sessions : Waits(t)' => t # s
      BY <1>6 DEF Waits
    <2>2. \A c \in Calls : calls[c] # None /\ calls[c].awaited => calls[c].owner # s
      BY <1>9 DEF Owns
    <2>3. \A c \in Calls : calls[c] # None => calls[c].owner \in Sessions \cup {None}
      BY DEF TypeOK, Call
    <2> QED
      BY <1>7, <1>8, <2>1, <2>2, <2>3 DEF AwaitedIsOwned, Waits, Runs, Owns, In
  <1>14. CallsFit'
    BY <1>7, <1>8, <1>9 DEF CallsFit, Owns, Runs
  <1>15. CreateWrites'
    BY <1>1, <1>6, <1>7, <1>8 DEF CreateWrites, Runs, Waits, In
  <1>16. AnswersHold'
    BY <1>6, <1>7, <1>8 DEF AnswersHold, Waits, In, Wanted
  <1>17. StoredIsSound'
    BY <1>8 DEF StoredIsSound
  <1> QED
    BY <1>10, <1>11, <1>12, <1>13, <1>14, <1>15, <1>16, <1>17

\* A request sent is a call of its command that the session waits for.
LEMMA SendKeeps ==
  ASSUME IInv, NEW s \in Sessions, Send(s)
  PROVE  IInv'
PROOF
  <1> USE DEF IInv
  <1>1. PICK c \in Calls :
          /\ calls[c] = None
          /\ calls' = [calls EXCEPT ![c] = Arrived(s, session[s].method,
                         IF session[s].method \in {"POST", "PUT"} THEN session[s].body ELSE None)]
          /\ session' = [session EXCEPT ![s].call = c]
    BY DEF Send
  <1>2. Runs(s) /\ ~Waits(s) /\ UNCHANGED <<store, conn, writes, alone>>
    BY DEF Send
  <1>3. /\ None \notin Sessions \cup Calls \cup Call
        /\ session[s] \in Session
        /\ \A d \in Calls : calls[d] # None => calls[d] \in Call
    BY ConnectionAssumption DEF TypeOK
  <1>4. session[s].method \in {"GET", "POST", "PUT", "DELETE"}
    BY <1>2, <1>3 DEF MethodsFit, Runs, Session
  <1>5. /\ calls'[c] \in Call /\ calls'[c] # None
        /\ calls'[c].method = session[s].method /\ calls'[c].owner = s
        /\ calls'[c].awaited /\ calls'[c].phase = "look"
        /\ calls'[c].body = IF session[s].method \in {"POST", "PUT"} THEN session[s].body ELSE None
        /\ \A d \in Calls : d # c => calls'[d] = calls[d]
    <2> DEFINE body == IF session[s].method \in {"POST", "PUT"} THEN session[s].body ELSE None
    <2>1. body \in Body \cup {None}
      BY <1>3 DEF Session
    <2>2. Arrived(s, session[s].method, body) \in Call
      BY <1>4, <2>1 DEF Arrived, Call
    <2>3. calls'[c] = Arrived(s, session[s].method, body) /\ \A d \in Calls : d # c => calls'[d] = calls[d]
      BY <1>1 DEF TypeOK
    <2> HIDE DEF body
    <2>4. /\ calls'[c] \in Call /\ calls'[c].method = session[s].method /\ calls'[c].owner = s
          /\ calls'[c].awaited /\ calls'[c].phase = "look" /\ calls'[c].body = body
      BY <2>2, <2>3 DEF Arrived
    <2> QED
      BY <1>3, <2>3, <2>4 DEF body
  <1>6. /\ session'[s] = [session[s] EXCEPT !.call = c] /\ session'[s] \in Session
        /\ \A t \in Sessions : t # s => session'[t] = session[t]
        /\ session' \in [Sessions -> Session]
    BY <1>1, <1>3 DEF TypeOK, Session
  <1>7. \A t \in Sessions :
          /\ session'[t].cmd = session[t].cmd /\ session'[t].body = session[t].body
          /\ session'[t].method = session[t].method /\ session'[t].lenient = session[t].lenient
          /\ session'[t].call = IF t = s THEN c ELSE session[t].call
    BY <1>3, <1>6 DEF Session
  <1>8. \A t \in Sessions : session[t].call # c
    BY <1>1, <1>3 DEF AwaitedIsOwned, Waits, Owns
  <1>a. /\ ~In(c, "done") /\ ~In(c, "done")'
        /\ \A d \in Calls : d # c => (In(d, "done")' <=> In(d, "done"))
        /\ \A t \in Sessions : t # s /\ Waits(t) => session[t].call \in Calls
    BY <1>1, <1>3, <1>5 DEF In, Waits, Session, TypeOK
  <1>9. TypeOK'
    BY <1>1, <1>2, <1>5, <1>6 DEF TypeOK
  <1>10. MethodsFit'
    BY <1>7 DEF MethodsFit
  <1>11. session[s].method \in {"POST", "PUT"} =>
           /\ session[s].cmd \in {"create", "edit", "apply"} /\ session[s].body # None
           /\ Honest(session[s].body)
    BY <1>2, <1>3 DEF MethodsFit, BodiesAreHonest, Runs, Session
  <1>12. BodiesAreHonest'
    <2>1. \A t \in Sessions : session'[t].body # None => Honest(session'[t].body)
      BY <1>7 DEF BodiesAreHonest
    <2>2. \A d \in Calls : d # c =>
            /\ calls[d] # None /\ calls[d].body # None => Honest(calls[d].body)
            /\ Sends(d, {"POST", "PUT"}) => calls[d].body # None
            /\ Sends(d, {"POST", "PUT"}) /\ In(d, "write") => Valid(calls[d].body)
            /\ In(d, "write") => calls[d].method # "GET"
            /\ In(d, "again") => calls[d].method = "DELETE"
      BY DEF BodiesAreHonest
    <2>3. /\ calls'[c].body # None => Honest(calls'[c].body)
          /\ Sends(c, {"POST", "PUT"})' => calls'[c].body # None
          /\ ~In(c, "write")' /\ ~In(c, "again")'
      BY <1>5, <1>11 DEF Sends, In
    <2> QED
      BY <1>5, <2>1, <2>2, <2>3 DEF BodiesAreHonest, Sends, In
  <1>13. AwaitedIsOwned'
    <2>1. \A t \in Sessions : Waits(t)' =>
            /\ Runs(t)' /\ Owns(t, session[t].call)'
            /\ calls'[session'[t].call].awaited
            /\ calls'[session'[t].call].method = session'[t].method
      BY <1>2, <1>3, <1>5, <1>7, <1>8, <1>a DEF AwaitedIsOwned, Waits, Runs, Owns
    <2>2. \A d \in Calls : calls[d] # None /\ calls[d].awaited => calls[d].owner # s
      BY <1>2, <1>3 DEF AwaitedIsOwned, Waits
    <2>3. \A d \in Calls : calls[d] # None => calls[d].owner \in Sessions \cup {None}
      BY <1>3 DEF Call
    <2>4. \A d \in Calls : d # c =>
            /\ calls'[d] # None /\ calls'[d].awaited =>
                 calls'[d].owner # None /\ session'[calls'[d].owner].call = d
            /\ In(d, "done")' => calls'[d].awaited
      BY <1>5, <1>7, <1>a, <2>2, <2>3 DEF AwaitedIsOwned
    <2>5. /\ calls'[c].owner # None /\ session'[calls'[c].owner].call = c
          /\ ~In(c, "done")'
      BY <1>3, <1>5, <1>7, <1>a
    <2> QED
      BY <2>1, <2>4, <2>5 DEF AwaitedIsOwned
  <1>14. CallsFit'
    <2>1. session[s].cmd = "create" => \A d \in Calls : ~Owns(s, d)
      BY <1>2, <1>3 DEF CallsFit, Waits
    <2>2. session[s].method = "DELETE" => session[s].cmd \in {"delete", "remove"}
      BY <1>2, <1>3 DEF MethodsFit, Runs, Session
    <2> QED
      BY <1>2, <1>5, <1>7, <1>11, <2>1, <2>2 DEF CallsFit, Owns, Runs
  <1>15. CreateWrites'
    <2> SUFFICES ASSUME NEW t \in Sessions
                 PROVE  /\ ~Runs(t)' => writes'[t] = 0
                        /\ session'[t].cmd = "create" =>
                             /\ writes'[t] <= 1
                             /\ \/ ~Waits(t)'
                                \/ ~In(session[t].call, "done")'
                                \/ calls'[session'[t].call].answer \in {"notFound", "exists", "invalid"}
                                => writes'[t] = 0
      BY DEF CreateWrites
    <2>1. CASE t = s
      BY <1>2, <1>7, <2>1 DEF CreateWrites, Runs
    <2>2. CASE t # s
      BY <1>2, <1>5, <1>7, <1>8, <1>a, <2>2 DEF CreateWrites, Runs, Waits
    <2> QED
      BY <2>1, <2>2
  <1>16. AnswersHold'
    <2>1. \A t \in Sessions : Waits(t)' /\ In(session[t].call, "done")' => t # s
      BY <1>7, <1>a DEF Waits
    <2> QED
      BY <1>2, <1>5, <1>7, <1>8, <1>a, <2>1 DEF AnswersHold, Waits, Wanted
  <1>17. StoredIsSound'
    BY <1>2 DEF StoredIsSound
  <1> QED
    BY <1>9, <1>10, <1>12, <1>13, <1>14, <1>15, <1>16, <1>17

\* An attempt that was never sent, or a login, changes nothing the others see.
Resets(s) ==
  /\ ~Waits(s) /\ UNCHANGED serviceVars
  /\ \E left \in Nat, logged \in BOOLEAN :
       session' = [session EXCEPT ![s].left = left, ![s].logged = logged, ![s].call = None]

LEMMA RetryKeeps ==
  ASSUME IInv, NEW s \in Sessions, Resets(s)
  PROVE  IInv'
PROOF
  <1> USE DEF IInv
  <1>1. PICK left \in Nat, logged \in BOOLEAN :
          session' = [session EXCEPT ![s].left = left, ![s].logged = logged, ![s].call = None]
    BY DEF Resets
  <1>2. ~Waits(s) /\ UNCHANGED <<store, conn, calls, writes, alone>>
    BY DEF Resets, serviceVars
  <1>3. /\ session' \in [Sessions -> Session]
        /\ \A t \in Sessions :
             /\ session'[t].cmd = session[t].cmd /\ session'[t].body = session[t].body
             /\ session'[t].method = session[t].method /\ session'[t].lenient = session[t].lenient
             /\ session'[t].call = session[t].call
    <2>1. session[s] \in Session /\ session[s].call = None
      BY <1>2 DEF TypeOK, Waits
    <2>2. session'[s] = [session[s] EXCEPT !.left = left, !.logged = logged, !.call = None]
      BY <1>1 DEF TypeOK
    <2>3. /\ session'[s] \in Session
          /\ session'[s].cmd = session[s].cmd /\ session'[s].body = session[s].body
          /\ session'[s].method = session[s].method /\ session'[s].lenient = session[s].lenient
          /\ session'[s].call = session[s].call
      BY <2>1, <2>2 DEF Session
    <2>4. /\ \A t \in Sessions : t # s => session'[t] = session[t]
          /\ session' \in [Sessions -> Session]
      BY <1>1, <2>3 DEF TypeOK
    <2> QED
      BY <2>3, <2>4
  <1>4. TypeOK'
    BY <1>2, <1>3 DEF TypeOK
  <1>5. MethodsFit'
    BY <1>3 DEF MethodsFit
  <1>6. BodiesAreHonest'
    BY <1>2, <1>3 DEF BodiesAreHonest, Sends, In
  <1>7. AwaitedIsOwned'
    <2>1. \A c \in Calls : calls[c] # None => calls[c].owner \in Sessions \cup {None}
      BY DEF TypeOK, Call
    <2> QED
      BY <1>2, <1>3, <2>1 DEF AwaitedIsOwned, Waits, Runs, Owns, In
  <1>8. CallsFit'
    BY <1>2, <1>3 DEF CallsFit, Owns, Runs
  <1>9. CreateWrites'
    BY <1>2, <1>3 DEF CreateWrites, Runs, Waits, In
  <1>10. AnswersHold'
    BY <1>2, <1>3 DEF AnswersHold, Waits, In, Wanted
  <1>11. StoredIsSound'
    BY <1>2 DEF StoredIsSound
  <1> QED
    BY <1>4, <1>5, <1>6, <1>7, <1>8, <1>9, <1>10, <1>11

\* A call that its session gives up, to send another one: never that of a create.
Releases(s) ==
  /\ Waits(s) /\ session[s].cmd # "create"
  /\ calls' = Released(session[s].call)
  /\ UNCHANGED <<store, conn, writes, alone>>
  /\ \E method \in {"GET", "POST", "PUT", "DELETE"}, left \in Nat, logged \in BOOLEAN :
       /\ session' = [session EXCEPT ![s].method = method, ![s].left = left,
                                     ![s].logged = logged, ![s].call = None]
       /\ session[s].cmd = "edit"   => method = "PUT"
       /\ session[s].cmd = "delete" => method = "DELETE"
       /\ session[s].cmd = "apply"  => method \in {"GET", "POST", "PUT"}
       /\ session[s].cmd = "remove" => method \in {"GET", "DELETE"}

LEMMA ReleaseKeeps ==
  ASSUME IInv, NEW s \in Sessions, Releases(s)
  PROVE  IInv'
PROOF
  <1> USE DEF IInv
  <1> DEFINE c == session[s].call
  <1>1. PICK method \in {"GET", "POST", "PUT", "DELETE"}, left \in Nat, logged \in BOOLEAN :
          /\ session' = [session EXCEPT ![s].method = method, ![s].left = left,
                                        ![s].logged = logged, ![s].call = None]
          /\ session[s].cmd = "edit"   => method = "PUT"
          /\ session[s].cmd = "delete" => method = "DELETE"
          /\ session[s].cmd = "apply"  => method \in {"GET", "POST", "PUT"}
          /\ session[s].cmd = "remove" => method \in {"GET", "DELETE"}
    BY DEF Releases
  <1>2. /\ Waits(s) /\ session[s].cmd # "create" /\ calls' = Released(c)
        /\ UNCHANGED <<store, conn, writes, alone>>
    BY DEF Releases
  <1>3. /\ None \notin Sessions \cup Calls \cup Call
        /\ c \in Calls /\ calls[c] # None /\ calls[c] \in Call /\ calls[c].owner = s
        /\ calls[c].awaited
        /\ \A d \in Calls : calls[d] # None => calls[d] \in Call
    BY <1>2, ConnectionAssumption DEF TypeOK, Session, Waits, AwaitedIsOwned, Owns
  <1>4. /\ session' \in [Sessions -> Session]
        /\ session'[s].method = method /\ session'[s].call = None
        /\ \A t \in Sessions : t # s => session'[t] = session[t]
        /\ \A t \in Sessions :
             /\ session'[t].cmd = session[t].cmd /\ session'[t].body = session[t].body
             /\ session'[t].lenient = session[t].lenient
    <2>1. session'[s] = [session[s] EXCEPT !.method = method, !.left = left,
                                           !.logged = logged, !.call = None]
      BY <1>1 DEF TypeOK
    <2>2. /\ session'[s] \in Session
          /\ session'[s].cmd = session[s].cmd /\ session'[s].body = session[s].body
          /\ session'[s].method = method /\ session'[s].lenient = session[s].lenient
          /\ session'[s].call = None
      <3>1. session[s] \in Session
        BY DEF TypeOK
      <3> QED
        BY <2>1, <3>1 DEF Session
    <2>3. /\ \A t \in Sessions : t # s => session'[t] = session[t]
          /\ session' \in [Sessions -> Session]
      BY <1>1, <2>2 DEF TypeOK
    <2> QED
      BY <2>2, <2>3
  <1> HIDE DEF c
  <1>5. /\ calls' \in [Calls -> Call \cup {None}]
        /\ \A d \in Calls : d # c => calls'[d] = calls[d]
        /\ calls'[c] = IF calls[c].phase = "done" THEN None
                       ELSE [calls[c] EXCEPT !.awaited = FALSE]
    <2>1. [calls[c] EXCEPT !.awaited = FALSE] \in Call
      BY <1>3 DEF Call
    <2> QED
      BY <1>2, <1>3, <2>1 DEF Released, TypeOK
  <1>6. calls'[c] # None =>
          /\ calls'[c].method = calls[c].method /\ calls'[c].body = calls[c].body
          /\ calls'[c].owner = calls[c].owner /\ ~calls'[c].awaited
          /\ calls'[c].phase = calls[c].phase /\ calls[c].phase # "done"
    BY <1>3, <1>5 DEF Call
  <1>a. \A d \in Calls : calls'[d] # None =>
          /\ calls[d] # None
          /\ calls'[d].method = calls[d].method /\ calls'[d].body = calls[d].body
          /\ calls'[d].owner = calls[d].owner /\ calls'[d].phase = calls[d].phase
          /\ calls'[d].awaited => d # c /\ calls[d].awaited
          /\ In(d, "done")' => d # c /\ In(d, "done")
    <2> SUFFICES ASSUME NEW d \in Calls, calls'[d] # None
                 PROVE  /\ calls[d] # None
                        /\ calls'[d].method = calls[d].method /\ calls'[d].body = calls[d].body
                        /\ calls'[d].owner = calls[d].owner /\ calls'[d].phase = calls[d].phase
                        /\ calls'[d].awaited => d # c /\ calls[d].awaited
                        /\ In(d, "done")' => d # c /\ In(d, "done")
      OBVIOUS
    <2>1. CASE d = c
      BY <1>3, <1>6, <2>1 DEF In
    <2>2. CASE d # c
      BY <1>5, <2>2 DEF In
    <2> QED
      BY <2>1, <2>2
  <1>7. \A t \in Sessions : t # s /\ Waits(t) => session[t].call # c /\ session[t].call \in Calls
    BY <1>3 DEF AwaitedIsOwned, Owns, Waits, TypeOK, Session
  <1>8. TypeOK'
    BY <1>2, <1>4, <1>5 DEF TypeOK
  <1>9. MethodsFit'
    BY <1>1, <1>2, <1>4 DEF MethodsFit
  <1>10. BodiesAreHonest'
    BY <1>4, <1>a DEF BodiesAreHonest, Sends, In
  <1>11. AwaitedIsOwned'
    <2>1. \A t \in Sessions : Waits(t)' =>
            /\ Runs(t)' /\ Owns(t, session[t].call)'
            /\ calls'[session'[t].call].awaited
            /\ calls'[session'[t].call].method = session'[t].method
      BY <1>4, <1>5, <1>7 DEF AwaitedIsOwned, Waits, Runs, Owns
    <2>2. \A d \in Calls : calls[d] # None /\ calls[d].awaited /\ calls[d].owner = s => d = c
      BY <1>2 DEF AwaitedIsOwned, c
    <2>3. \A d \in Calls : calls[d] # None => calls[d].owner \in Sessions \cup {None}
      BY <1>3 DEF Call
    <2>4. \A d \in Calls :
            /\ calls'[d] # None /\ calls'[d].awaited =>
                 calls'[d].owner # None /\ session'[calls'[d].owner].call = d
            /\ In(d, "done")' => calls'[d].awaited
      <3> SUFFICES ASSUME NEW d \in Calls, calls'[d] # None
                   PROVE  /\ calls'[d].awaited =>
                               calls'[d].owner # None /\ session'[calls'[d].owner].call = d
                          /\ In(d, "done")' => calls'[d].awaited
        BY DEF In
      <3>1. CASE d = c
        BY <1>a, <3>1
      <3>2. CASE d # c
        <4>1. calls'[d] = calls[d] /\ (In(d, "done")' => In(d, "done"))
          BY <1>5, <1>a, <3>2
        <4> QED
          BY <1>4, <2>2, <2>3, <3>2, <4>1 DEF AwaitedIsOwned
      <3> QED
        BY <3>1, <3>2
    <2> QED
      BY <2>1, <2>4 DEF AwaitedIsOwned
  <1>12. CallsFit'
    BY <1>2, <1>4, <1>a DEF CallsFit, Owns, Runs
  <1>13. CreateWrites'
    BY <1>2, <1>4, <1>5, <1>7 DEF CreateWrites, Runs, Waits, In
  <1>14. AnswersHold'
    BY <1>2, <1>4, <1>5, <1>7 DEF AnswersHold, Waits, In, Wanted
  <1>15. StoredIsSound'
    BY <1>2 DEF StoredIsSound
  <1> QED
    BY <1>8, <1>9, <1>10, <1>11, <1>12, <1>13, <1>14, <1>15

\* A command that ends leaves its calls to nobody.
LEMMA EndKeeps ==
  ASSUME IInv, NEW s \in Sessions, Runs(s),
         NEW report \in {"none", "ok", "refused", "failed"}, End(s, report)
  PROVE  /\ IInv'
         /\ session'[s] = Idle(report) /\ writes'[s] = 0
         /\ \A t \in Sessions : t # s => session'[t] = session[t] /\ writes'[t] = writes[t]
         /\ conn' = conn
PROOF
  <1> USE DEF IInv
  <1>1. /\ session' = [session EXCEPT ![s] = Idle(report)]
        /\ writes' = [writes EXCEPT ![s] = 0]
        /\ alone' = [alone EXCEPT ![s] = TRUE]
        /\ UNCHANGED <<store, conn>>
    BY DEF End
  <1>2. /\ None \notin Sessions \cup Calls \cup Call
        /\ \A c \in Calls : calls[c] # None => calls[c] \in Call
    BY ConnectionAssumption DEF TypeOK
  <1>3. Idle(report) \in Session /\ Idle(report).call = None /\ Idle(report).cmd = "none"
        /\ Idle(report).body = None /\ ~Idle(report).lenient
    BY DEF Idle, Session
  <1>4. /\ session' \in [Sessions -> Session] /\ session'[s] = Idle(report)
        /\ \A t \in Sessions : t # s => /\ session'[t] = session[t] /\ writes'[t] = writes[t]
                                        /\ alone'[t] = alone[t]
        /\ writes' \in [Sessions -> 0..2] /\ writes'[s] = 0
        /\ alone' \in [Sessions -> BOOLEAN]
    BY <1>1, <1>3 DEF TypeOK
  <1>5. /\ calls' \in [Calls -> Call \cup {None}]
        /\ \A c \in Calls : ~Owns(s, c) => calls'[c] = calls[c]
        /\ \A c \in Calls : Owns(s, c) /\ calls'[c] # None =>
             /\ calls'[c].method = calls[c].method /\ calls'[c].body = calls[c].body
             /\ calls'[c].owner = None /\ ~calls'[c].awaited
             /\ calls'[c].phase = calls[c].phase /\ calls[c].phase # "done"
    <2>1. \A c \in Calls :
            calls'[c] = IF ~Owns(s, c) THEN calls[c]
                        ELSE IF calls[c].phase = "done" THEN None
                        ELSE [calls[c] EXCEPT !.owner = None, !.awaited = FALSE]
      BY DEF End, Owns
    <2>2. \A c \in Calls : calls[c] # None =>
            [calls[c] EXCEPT !.owner = None, !.awaited = FALSE] \in Call
      BY <1>2 DEF Call
    <2>3. calls' \in [Calls -> Call \cup {None}]
      <3>1. \A c \in Calls : calls'[c] \in Call \cup {None}
        BY <1>2, <2>1, <2>2 DEF Owns
      <3>2. calls' = [c \in Calls |-> calls'[c]]
        BY DEF End
      <3> QED
        BY <3>1, <3>2
    <2>4. \A c \in Calls : Owns(s, c) /\ calls'[c] # None =>
             /\ calls'[c].method = calls[c].method /\ calls'[c].body = calls[c].body
             /\ calls'[c].owner = None /\ ~calls'[c].awaited
             /\ calls'[c].phase = calls[c].phase /\ calls[c].phase # "done"
      <3> SUFFICES ASSUME NEW c \in Calls, Owns(s, c), calls'[c] # None
                   PROVE  /\ calls'[c].method = calls[c].method /\ calls'[c].body = calls[c].body
                          /\ calls'[c].owner = None /\ ~calls'[c].awaited
                          /\ calls'[c].phase = calls[c].phase /\ calls[c].phase # "done"
        OBVIOUS
      <3>1. calls[c] \in Call
        BY <1>2 DEF Owns
      <3>2. /\ calls[c].phase # "done"
            /\ calls'[c] = [calls[c] EXCEPT !.owner = None, !.awaited = FALSE]
        BY <2>1
      <3> QED
        BY <3>1, <3>2 DEF Call
    <2> QED
      BY <2>1, <2>3, <2>4
  <1>6. \A t \in Sessions : t # s /\ Waits(t) =>
          session[t].call \in Calls /\ ~Owns(s, session[t].call)
    BY <1>2 DEF AwaitedIsOwned, Owns, Waits, TypeOK, Session
  <1>7. TypeOK'
    BY <1>1, <1>4, <1>5 DEF TypeOK
  <1>8. MethodsFit'
    BY <1>3, <1>4 DEF MethodsFit
  <1>9. BodiesAreHonest'
    BY <1>3, <1>4, <1>5 DEF BodiesAreHonest, Sends, In, Owns
  <1>10. AwaitedIsOwned'
    <2>1. \A t \in Sessions : Waits(t)' =>
            /\ Runs(t)' /\ Owns(t, session[t].call)'
            /\ calls'[session'[t].call].awaited
            /\ calls'[session'[t].call].method = session'[t].method
      BY <1>3, <1>4, <1>5, <1>6 DEF AwaitedIsOwned, Waits, Runs, Owns
    <2>2. \A c \in Calls : calls[c] # None => calls[c].owner \in Sessions \cup {None}
      BY <1>2 DEF Call
    <2>3. \A c \in Calls :
            /\ calls'[c] # None /\ calls'[c].awaited =>
                 calls'[c].owner # None /\ session'[calls'[c].owner].call = c
            /\ In(c, "done")' => calls'[c].awaited
      BY <1>4, <1>5, <2>2 DEF AwaitedIsOwned, In, Owns
    <2> QED
      BY <2>1, <2>3 DEF AwaitedIsOwned
  <1>11. CallsFit'
    BY <1>2, <1>4, <1>5 DEF CallsFit, Owns, Runs
  <1>12. CreateWrites'
    BY <1>3, <1>4, <1>5, <1>6 DEF CreateWrites, Runs, Waits, In
  <1>13. AnswersHold'
    BY <1>1, <1>3, <1>4, <1>5, <1>6 DEF AnswersHold, Waits, In, Wanted
  <1>14. StoredIsSound'
    BY <1>1 DEF StoredIsSound
  <1> QED
    BY <1>1, <1>4, <1>7, <1>8, <1>9, <1>10, <1>11, <1>12, <1>13, <1>14

\* A command ends with a report that is right.
Ends(s) ==
  \E report \in {"ok", "refused", "failed"} :
    /\ Runs(s) /\ End(s, report)
    /\ report = "ok" /\ store = "vault" /\ alone[s] => conn = Wanted(s)
    /\ report = "refused" /\ session[s].cmd = "create" => writes[s] = 0

LEMMA SessionSteps ==
  ASSUME IInv, NEW s \in Sessions, Advance(s)
  PROVE  Send(s) \/ Resets(s) \/ Releases(s) \/ Ends(s)
PROOF
  <1> USE DEF IInv
  <1>1. session[s] \in Session /\ (Waits(s) => Runs(s))
    BY DEF TypeOK, AwaitedIsOwned
  <1>2. session[s].left \in Nat /\ session[s].logged \in BOOLEAN
        /\ session[s].method \in {"none", "GET", "POST", "PUT", "DELETE"}
        /\ session[s].cmd \in {"none", "create", "edit", "delete", "apply", "remove"}
    BY <1>1 DEF Session
  <1>3. Runs(s) => session[s].method \in {"GET", "POST", "PUT", "DELETE"}
    BY <1>2 DEF MethodsFit, Runs
  <1>4. Budget(session[s].cmd) \in Nat
    BY RetriesAssumption DEF Budget
  <1>5. ASSUME TryAgain(s), ~Waits(s), UNCHANGED serviceVars
        PROVE  Resets(s)
    <2>1. session' = [session EXCEPT ![s].left = session[s].left - 1,
                                     ![s].logged = session[s].logged, ![s].call = None]
      BY <1>1, <1>5 DEF TryAgain, Session, TypeOK
    <2>2. session[s].left - 1 \in Nat
      BY <1>2, <1>5 DEF TryAgain
    <2> QED
      BY <1>2, <1>5, <2>1, <2>2 DEF Resets
  <1>6. ASSUME TryAgain(s), Waits(s), session[s].cmd # "create",
               calls' = Released(session[s].call), UNCHANGED <<store, conn, writes, alone>>
        PROVE  Releases(s)
    <2>1. session' = [session EXCEPT ![s].method = session[s].method,
                                     ![s].left = session[s].left - 1,
                                     ![s].logged = session[s].logged, ![s].call = None]
      BY <1>1, <1>6 DEF TryAgain, Session, TypeOK
    <2>2. session[s].left - 1 \in Nat
      BY <1>2, <1>6 DEF TryAgain
    <2> QED
      BY <1>1, <1>2, <1>3, <1>6, <2>1, <2>2 DEF Releases, MethodsFit
  <1>7. ASSUME Runs(s), End(s, "failed")
        PROVE  Ends(s)
    BY <1>7 DEF Ends
  <1>8. CASE Send(s)
    BY <1>8
  <1>9. CASE NotSent(s)
    BY <1>5, <1>7, <1>9 DEF NotSent
  <1>10. CASE Interrupted(s)
    <2>1. session[s].cmd = "create" => ~Repeats(s)
      BY <1>1 DEF Repeats, Bulk, Idempotent, MethodsFit
    <2> QED
      BY <1>1, <1>6, <1>7, <1>10, <2>1 DEF Interrupted
  <1>11. CASE Unauthorized(s)
    <2>1. CASE Login(s)
      <3>1. session' = [session EXCEPT ![s].left = Budget(session[s].cmd),
                                       ![s].logged = TRUE, ![s].call = None]
        BY <1>1, <1>11, <2>1 DEF Unauthorized, Login, Waits, Session, TypeOK
      <3> QED
        BY <1>4, <1>11, <2>1, <3>1 DEF Unauthorized, Login, Resets
    <2> QED
      BY <1>7, <1>11, <2>1 DEF Unauthorized
  <1>12. CASE Looked(s)
    <2>1. PICK answer \in {"ok", "notFound"} :
            /\ Answered(s, answer)
            /\ NextMethod(session[s].cmd, answer) # "none"
            /\ Ask(s, NextMethod(session[s].cmd, answer))
            /\ calls' = Released(session[s].call)
            /\ UNCHANGED <<store, conn, writes, alone>>
      BY <1>12 DEF Looked
    <2> DEFINE method == NextMethod(session[s].cmd, answer)
    <2>2. \/ session[s].cmd = "apply" /\ method \in {"PUT", "POST"}
          \/ session[s].cmd = "remove" /\ method = "DELETE"
      <3>1. CASE session[s].cmd = "apply"
        BY <3>1 DEF NextMethod
      <3>2. CASE session[s].cmd = "remove"
        BY <2>1, <3>2 DEF NextMethod
      <3>3. CASE session[s].cmd \notin {"apply", "remove"}
        BY <2>1, <3>3 DEF NextMethod
      <3> QED
        BY <3>1, <3>2, <3>3
    <2>3. session' = [session EXCEPT ![s].method = method, ![s].left = Budget(session[s].cmd),
                                     ![s].logged = FALSE, ![s].call = None]
      BY <1>1, <2>1 DEF Ask, Session, TypeOK
    <2> HIDE DEF method
    <2> QED
      BY <1>4, <2>1, <2>2, <2>3 DEF Releases, Answered
  <1>13. CASE NothingToRemove(s)
    <2>1. /\ session[s].cmd = "remove" /\ Waits(s) /\ calls[session[s].call].phase = "done"
          /\ calls[session[s].call].answer = "notFound" /\ End(s, "ok")
      BY <1>13 DEF NothingToRemove, Answered
    <2>2. In(session[s].call, "done")
      BY <2>1 DEF AwaitedIsOwned, Owns, In
    <2> QED
      BY <1>1, <2>1, <2>2 DEF Ends, AnswersHold
  <1>14. CASE Succeeded(s)
    <2>1. /\ session[s].method # "GET" /\ Waits(s) /\ calls[session[s].call].phase = "done"
          /\ calls[session[s].call].answer = "ok" /\ End(s, "ok")
      BY <1>14 DEF Succeeded, Answered
    <2>2. In(session[s].call, "done")
      BY <2>1 DEF AwaitedIsOwned, Owns, In
    <2> QED
      BY <1>1, <2>1, <2>2 DEF Ends, AnswersHold
  <1>15. CASE RefusedOrIgnored(s)
    <2>1. PICK answer \in {"notFound", "exists", "invalid"} :
            Answered(s, answer) /\ End(s, IF Ignored(s, answer) THEN "ok" ELSE "refused")
      BY <1>15 DEF RefusedOrIgnored
    <2>2. /\ Waits(s) /\ In(session[s].call, "done")
          /\ calls[session[s].call].answer = answer
      BY <2>1 DEF Answered, AwaitedIsOwned, Owns, In
    <2>3. CASE Ignored(s, answer)
      <3>1. answer = "notFound" /\ session[s].cmd = "delete"
        BY <2>3 DEF Ignored, MethodsFit
      <3> QED
        BY <1>1, <2>1, <2>2, <2>3, <3>1 DEF Ends, AnswersHold
    <2>4. CASE ~Ignored(s, answer)
      BY <1>1, <2>1, <2>2, <2>4 DEF Ends, CreateWrites
    <2> QED
      BY <2>3, <2>4
  <1>16. CASE ServerError(s)
    <2>1. session[s].cmd = "create" => ~Idempotent(session[s].method)
      BY DEF Idempotent, MethodsFit
    <2> QED
      BY <1>1, <1>6, <1>7, <1>16, <2>1 DEF ServerError, Answered
  <1> QED
    BY <1>8, <1>9, <1>10, <1>11, <1>12, <1>13, <1>14, <1>15, <1>16 DEF Advance

-----------------------------------------------------------------------------
(* Theorems                                                                *)

LEMMA InitHolds == Init => IInv
PROOF
  <1> SUFFICES ASSUME Init PROVE IInv
    OBVIOUS
  <1>1. /\ store \in {"vault", "kubernetes"} /\ conn = None
        /\ calls = [c \in Calls |-> None] /\ writes = [s \in Sessions |-> 0]
        /\ alone = [s \in Sessions |-> TRUE] /\ session = [s \in Sessions |-> Idle("none")]
    BY ConnectionAssumption DEF Init, ServiceInit
  <1>2. /\ Idle("none") \in Session /\ Idle("none").cmd = "none" /\ Idle("none").body = None
        /\ Idle("none").call = None /\ ~Idle("none").lenient
    BY DEF Idle, Session
  <1>3. TypeOK
    BY <1>1, <1>2 DEF TypeOK
  <1> QED
    BY <1>1, <1>2, <1>3
    DEF IInv, MethodsFit, BodiesAreHonest, AwaitedIsOwned, CallsFit, CreateWrites,
        AnswersHold, StoredIsSound, Sends, Owns, In, Runs, Waits

LEMMA NextKeeps ==
  ASSUME IInv, [Next]_vars
  PROVE  IInv'
PROOF
  <1>1. CASE UNCHANGED vars
    BY <1>1
    DEF vars, IInv, TypeOK, MethodsFit, BodiesAreHonest, AwaitedIsOwned, CallsFit,
        CreateWrites, AnswersHold, StoredIsSound, Sends, Owns, In, Runs, Waits, Wanted
  <1>2. ASSUME NEW c \in Calls, Handle(c), UNCHANGED session
        PROVE  IInv'
    BY <1>2, HandlerKeeps
  <1>3. ASSUME NEW s \in Sessions, Start(s)
        PROVE  IInv'
    BY <1>3, StartKeeps
  <1>4. ASSUME NEW s \in Sessions, Advance(s)
        PROVE  IInv'
    <2>1. CASE Send(s)
      BY <2>1, SendKeeps
    <2>2. CASE Resets(s)
      BY <2>2, RetryKeeps
    <2>3. CASE Releases(s)
      BY <2>3, ReleaseKeeps
    <2>4. CASE Ends(s)
      BY <2>4, EndKeeps DEF Ends
    <2> QED
      BY <1>4, <2>1, <2>2, <2>3, <2>4, SessionSteps
  <1> QED
    BY <1>1, <1>2, <1>3, <1>4 DEF Next

\* The invariant holds of every behaviour of clients, handlers and stores.
THEOREM InvariantHolds == Spec => []IInv
PROOF
  <1>1. Init => IInv
    BY InitHolds
  <1>2. IInv /\ [Next]_vars => IInv'
    BY NextKeeps
  <1> QED
    BY <1>1, <1>2, PTL DEF Spec

\* Every variable has its type.
THEOREM TypeCorrect == Spec => []TypeOK
PROOF
  <1>1. IInv => TypeOK
    BY DEF IInv
  <1> QED
    BY <1>1, InvariantHolds, PTL

\* What is stored has a secret that somebody has and what its type needs, however many
\* clients send answers of the server back to it (DecodeBase64Fields).
THEOREM SecretsAreSound == Spec => []StoredIsSound
PROOF
  <1>1. IInv => StoredIsSound
    BY DEF IInv
  <1> QED
    BY <1>1, InvariantHolds, PTL

\* A session that leaves its command has ended it.
LEMMA ReportsAreEnds ==
  ASSUME IInv, Next, NEW s \in Sessions, NEW report \in {"ok", "refused", "failed"},
         Reports(s, report)
  PROVE  Ends(s) /\ End(s, report)
PROOF
  <1>1. /\ Idle(report).cmd = "none" /\ session'[s].cmd = "none"
        /\ session[s].cmd # "none" /\ Runs(s)
    BY DEF Reports, Idle, Runs
  <1>2. session \in [Sessions -> Session]
    BY DEF IInv, TypeOK
  <1>3. ~UNCHANGED session
    BY <1>1
  <1>4. PICK t \in Sessions : Start(t) \/ Advance(t)
    BY <1>3 DEF Next
  <1>5. t = s
    <2>1. \/ Start(t) \/ Send(t) \/ Resets(t) \/ Releases(t) \/ Ends(t)
      BY <1>4, SessionSteps
    <2>2. t # s => session'[s] = session[s]
      BY <1>2, <2>1 DEF Start, Send, Resets, Releases, Ends, End
    <2> QED
      BY <1>1, <2>2
  <1>6. ~Start(s)
    BY <1>1 DEF Start
  <1>7. ~Send(s) /\ ~Resets(s) /\ ~Releases(s)
    <2>1. session[s] \in Session
      BY <1>2
    <2>2. CASE Send(s)
      BY <1>1, <1>2, <2>1, <2>2 DEF Send, Session
    <2>3. CASE Resets(s)
      <3>1. PICK left \in Nat, logged \in BOOLEAN :
              session' = [session EXCEPT ![s].left = left, ![s].logged = logged, ![s].call = None]
        BY <2>3 DEF Resets
      <3> QED
        BY <1>1, <1>2, <2>1, <3>1 DEF Session
    <2>4. CASE Releases(s)
      <3>1. PICK method \in {"GET", "POST", "PUT", "DELETE"}, left \in Nat, logged \in BOOLEAN :
              session' = [session EXCEPT ![s].method = method, ![s].left = left,
                                         ![s].logged = logged, ![s].call = None]
        BY <2>4 DEF Releases
      <3> QED
        BY <1>1, <1>2, <2>1, <3>1 DEF Session
    <2> QED
      BY <2>2, <2>3, <2>4
  <1>8. Ends(s)
    BY <1>4, <1>5, <1>6, <1>7, SessionSteps
  <1>9. PICK r \in {"ok", "refused", "failed"} : End(s, r)
    BY <1>8 DEF Ends
  <1>10. session'[s] = Idle(r)
    BY <1>2, <1>9 DEF End
  <1>11. Idle(r).report = r /\ Idle(report).report = report
    BY DEF Idle
  <1> QED
    BY <1>8, <1>9, <1>10, <1>11 DEF Reports

\* For any number of clients, calls and retries, a command that reports success of a
\* store in Vault has done what it says (AsyncRemoteAPIClient._request, CreateConnection).
THEOREM ReportsAreRight == Spec => ReportIsRight
PROOF
  <1>1. IInv /\ [Next]_vars =>
          [\A s \in Sessions :
             store = "vault" /\ Reports(s, "ok") /\ alone[s] => conn = Wanted(s)]_vars
    <2> SUFFICES ASSUME IInv, Next, NEW s \in Sessions, store = "vault",
                        Reports(s, "ok"), alone[s]
                 PROVE  conn = Wanted(s)
      OBVIOUS
    <2>1. Ends(s) /\ End(s, "ok")
      BY ReportsAreEnds
    <2>2. PICK r \in {"ok", "refused", "failed"} :
            End(s, r) /\ (r = "ok" => conn = Wanted(s))
      BY <2>1 DEF Ends
    <2>3. session'[s] = Idle("ok") /\ session'[s] = Idle(r)
      BY <2>1, <2>2 DEF End, IInv, TypeOK
    <2>4. Idle(r).report = r /\ Idle("ok").report = "ok"
      BY DEF Idle
    <2> QED
      BY <2>2, <2>3, <2>4
  <1> QED
    BY <1>1, InvariantHolds, PTL DEF Spec, ReportIsRight

\* A create writes at most once however often requests are lost or repeated, and one
\* that is refused has not written (Retry of RemoteAPIClient).
THEOREM CreatesWriteOnce == Spec => CreatedOnce
PROOF
  <1>1. IInv /\ [Next]_vars =>
          [\A s \in Sessions :
             session[s].cmd = "create" =>
               /\ writes'[s] <= 1
               /\ Reports(s, "refused") => writes[s] = 0]_vars
    <2> SUFFICES ASSUME IInv, Next, NEW s \in Sessions, session[s].cmd = "create"
                 PROVE  /\ writes'[s] <= 1
                        /\ Reports(s, "refused") => writes[s] = 0
      OBVIOUS
    <2>1. writes[s] <= 1 /\ writes[s] \in 0..2
      BY DEF IInv, CreateWrites, TypeOK
    <2>2. writes'[s] <= 1
      <3>1. ASSUME NEW c \in Calls, Handle(c), UNCHANGED session
            PROVE  writes'[s] <= 1
        BY <3>1, HandlerKeeps
      <3>2. ASSUME NEW t \in Sessions, Start(t) \/ Advance(t)
            PROVE  writes'[s] <= 1
        <4>1. Start(t) \/ Send(t) \/ Resets(t) \/ Releases(t) \/ Ends(t)
          BY <3>2, SessionSteps
        <4>2. writes' = writes \/ Ends(t)
          BY <4>1 DEF Start, Send, Resets, Releases, serviceVars
        <4>3. Ends(t) => writes' = [writes EXCEPT ![t] = 0]
          BY DEF Ends, End
        <4> QED
          BY <2>1, <4>2, <4>3 DEF IInv, TypeOK
      <3> QED
        BY <3>1, <3>2 DEF Next
    <2>3. ASSUME Reports(s, "refused")
          PROVE  writes[s] = 0
      <3>1. Ends(s) /\ End(s, "refused")
        BY <2>3, ReportsAreEnds
      <3>2. PICK r \in {"ok", "refused", "failed"} :
              End(s, r) /\ (r = "refused" => writes[s] = 0)
        BY <3>1 DEF Ends
      <3>3. session'[s] = Idle("refused") /\ session'[s] = Idle(r)
        BY <3>1, <3>2 DEF End, IInv, TypeOK
      <3>4. Idle(r).report = r /\ Idle("refused").report = "refused"
        BY DEF Idle
      <3> QED
        BY <3>2, <3>3, <3>4
    <2> QED
      BY <2>2, <2>3
  <1> QED
    BY <1>1, InvariantHolds, PTL DEF Spec, CreatedOnce

=============================================================================
