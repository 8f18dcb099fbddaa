--------------------------- MODULE CoordinatorAPI ---------------------------
(***************************************************************************)
(* internal/api/grpc/server.go over the session manager: what the clients  *)
(* of the four handlers are told, and what the audit log keeps, while      *)
(* other callers of the manager, the clock and clean-up go on.             *)
(*                                                                         *)
(* A handler holds no lock of its own.  It validates the request (a call   *)
(* that is refused there touches nothing and is no action), calls the      *)
(* manager, and then reads the session it was given, or emits an event,    *)
(* with the manager's lock released.  Of the log the verdicts on           *)
(* attestations are kept, each under the nonce the attestation carried.    *)
(***************************************************************************)
EXTENDS SessionManager

CONSTANTS Clients,    \* the connections, each with one call at a time
          Calls(_),   \* the handlers each client calls
          Reports     \* what clients report: [nonce, age, pcrs]

(* The document SubmitAttestation builds: a time stamp of 0 would be now, and *)
(* nothing in the request can become a certificate chain.                     *)
Document(r) == [nonce |-> r.nonce, age |-> r.age, chain |-> FALSE, pcrs |-> r.pcrs]

ASSUME APIConstants ==
  /\ IsFiniteSet(Clients)
  /\ \A c \in Clients : Calls(c) \subseteq {"CreateSession", "IssueChallenge",
                                          "SubmitAttestation", "GetSession"}
  /\ \A r \in Reports : DOMAIN r = {"nonce", "age", "pcrs"} /\ r.nonce \in NM!Nonces
  /\ \A r \in Reports : Document(r) \in Docs   \* which are all that are submitted

VARIABLES
  serving,  \* what the handler of each client is at
  shown,    \* what each client was last told of a session
  audited   \* nonce -> verdicts on attestations in the log, oldest first

apiVars == <<vars, serving, shown, audited>>

Idle == [op |-> "idle"]

(* The client calls a handler. *)
Calling(c, handler) == serving[c] = Idle /\ handler \in Calls(c)

(* What a response says of a session, but for what never changes in it. *)
View(x) == [status |-> x.status, attested |-> x.attested,
            committed |-> x.committed, shared |-> x.shared]
Nothing == [status |-> "", attested |-> {}, committed |-> {}, shared |-> {}]

APIInit ==
  /\ Init
  /\ serving = [c \in Clients |-> Idle]
  /\ shown = [c \in Clients |-> [session |-> 0, view |-> Nothing]]
  /\ audited = [n \in NM!Nonces |-> <<>>]

-----------------------------------------------------------------------------
(* A handler that holds the manager's pointer to a session: whatever values  *)
(* the session has from then on, it can come to read.                        *)
Holding(op, s, x) == [op |-> op, session |-> s, values |-> {View(x)}]

(* What a handler is at after a step of somebody else: CreateSession or       *)
(* IssueChallenge of the manager may have returned, the session it holds may  *)
(* have changed.                                                              *)
Returned(req) ==
  LET found == {s \in DOMAIN sessions' : req.id \in DOMAIN requestIndex' /\ requestIndex'[req.id] = s}
  IN  IF found = {} THEN Idle ELSE LET s == CHOOSE s \in found : TRUE
                                   IN  Holding("status", s, sessions'[s])

Later(w) ==
  CASE w.op = "create" /\ Free' -> Returned(w.req)
    [] w.op = "challenge" /\ w.asked \notin challenges' -> Idle
    [] w.op \in {"get", "status"} /\ w.session \in DOMAIN sessions' ->
         [w EXCEPT !.values = @ \cup {View(sessions'[w.session])}]
    [] OTHER -> w

Serve(c, w) == serving' = [d \in Clients |-> IF d = c THEN w ELSE Later(serving[d])]

(* CreateSession: an ID that is known is answered at once.  The rest of the   *)
(* manager's CreateSession goes on in steps of its own.                       *)
APICreateSession(c, req) ==
  /\ Calling(c, "CreateSession") /\ Free
  /\ IF Known(req)
     THEN UNCHANGED vars /\ Serve(c, Holding("status", requestIndex[req.id], sessions[requestIndex[req.id]]))
     ELSE CreateSession(req) /\ Serve(c, [op |-> "create", req |-> req])
  /\ UNCHANGED <<shown, audited>>

(* IssueChallenge: an event and the nonce, once the manager has drawn it. *)
APIIssueChallenge(c, s, a) ==
  /\ Calling(c, "IssueChallenge")
  /\ <<s, a>> \notin challenges /\ IssueChallenge(s, a)
  /\ Serve(c, [op |-> "challenge", asked |-> <<s, a>>])
  /\ UNCHANGED <<shown, audited>>

-----------------------------------------------------------------------------
(* The manager's SubmitAttestation when it returns before the nonce is used   *)
(* up and before the deadline is noticed to be over.                          *)
SubmitRefused(s, a, n) ==
  /\ Free
  /\ s \in DOMAIN sessions => ~PastDeadline(s) /\ (First(s, a) = {} \/ ~NM!Answerable(n))
  /\ UNCHANGED vars

(* Faulty: every error is taken for a verdict. *)
extractRejectCode_AnyError(prefix, code) == IF code = "" THEN prefix ELSE code

(* The code of an error message, "" unless its prefix is that of a verdict. *)
extractRejectCode(prefix, code) == IF prefix = "attestation rejected" THEN code ELSE ""

(* SubmitAttestation, with the nonce of the document as the one to validate; *)
(* the event is emitted later.                                               *)
APISubmit(c, s, a, r) ==
  LET doc == Document(r)
      Returns(verdict) == Serve(c, [op |-> "emit", nonce |-> r.nonce, verdict |-> verdict])
  IN  /\ Calling(c, "SubmitAttestation")
      /\ \/ SubmitAccepted(s, a, doc, doc.nonce) /\ Returns("accepted")
         \/ /\ SubmitRejected(s, a, doc, doc.nonce)
            /\ Returns(extractRejectCode("attestation rejected", Verify(doc, doc.nonce)))
         \/ /\ SubmitLate(s) \/ SubmitRefused(s, a, doc.nonce)
            /\ Returns(extractRejectCode("other", ""))
      /\ UNCHANGED <<shown, audited>>

(* s.emit: the event goes to the log, the answer to the client. *)
Emit(c) ==
  /\ serving[c].op = "emit"
  /\ audited' = IF serving[c].verdict = "" THEN audited
                ELSE [audited EXCEPT ![serving[c].nonce] = Append(@, serving[c].verdict)]
  /\ UNCHANGED vars
  /\ Serve(c, Idle)
  /\ UNCHANGED shown

-----------------------------------------------------------------------------
(* The manager's GetSession finds the session, under the read lock ... *)
Found(s) == Free /\ s \in DOMAIN sessions /\ ~PastDeadline(s)

APIGetSession(c, s) ==
  /\ Calling(c, "GetSession") /\ Found(s)
  /\ UNCHANGED vars
  /\ Serve(c, Holding("get", s, sessions[s]))
  /\ UNCHANGED <<shown, audited>>

(* ... and the handler reads it after the lock is released.  Each field is    *)
(* read once, at a moment of its own; the status, a string of two words, can  *)
(* be torn between two values, whose lengths differ: "torn" is no status.     *)
Between(flags, low, high) == low \subseteq flags /\ flags \subseteq high

Read(values) ==
  LET Statuses == {x.status : x \in values}
      Flags(field) == LET seen == {x[field] : x \in values}
                          low == {i \in UNION seen : \A f \in seen : i \in f}
                      IN  {f \in SUBSET UNION seen : Between(f, low, UNION seen)}
  IN  [status : Statuses \cup (IF Cardinality(Statuses) > 1 THEN {"torn"} ELSE {}),
       attested : Flags("attested"), committed : Flags("committed"), shared : Flags("shared")]

Answer(c) ==
  /\ serving[c].op = "get"
  /\ \E view \in Read(serving[c].values) :
       shown' = [shown EXCEPT ![c] = [session |-> serving[c].session, view |-> view]]
  /\ UNCHANGED vars
  /\ Serve(c, Idle)
  /\ UNCHANGED audited

(* The answer of CreateSession has the status alone. *)
AnswerCreate(c) ==
  /\ serving[c].op = "status"
  /\ LET s == serving[c].session
         before == IF shown[c].session = s THEN shown[c].view ELSE Nothing
     IN  \E view \in Read(serving[c].values) :
           shown' = [shown EXCEPT ![c] = [session |-> s,
                                          view |-> [before EXCEPT !.status = view.status]]]
  /\ UNCHANGED vars
  /\ Serve(c, Idle)
  /\ UNCHANGED audited

-----------------------------------------------------------------------------
(* Whatever else happens to the manager. *)
Elsewhere ==
  /\ Next
  /\ serving' = [c \in Clients |-> Later(serving[c])]
  /\ UNCHANGED <<shown, audited>>

APINext ==
  \/ \E c \in Clients :
       \/ \E req \in Requests : APICreateSession(c, req)
       \/ \E s \in SessionIDs :
            \/ APIGetSession(c, s)
            \/ \E a \in Signers : \/ APIIssueChallenge(c, s, a)
                                  \/ \E r \in Reports : APISubmit(c, s, a, r)
       \/ Emit(c) \/ Answer(c) \/ AnswerCreate(c)
  \/ Elsewhere

APISpec == APIInit /\ [][APINext]_apiVars

-----------------------------------------------------------------------------
(* The handlers are at something the code can be at. *)
Views == [status : Status \cup {"", "torn"}, attested : SUBSET Positions,
          committed : SUBSET Positions, shared : SUBSET Positions]
Verdicts == {"accepted", "NONCE_INVALID", "EXPIRED", "CHAIN_INVALID", "PCR_MISMATCH"}

ServingOK(w) ==
  \/ w = Idle
  \/ w.op = "create" /\ w = [op |-> "create", req |-> call.req]
  \/ w.op = "challenge" /\ w.asked \in challenges
  \/ w.op \in {"get", "status"} /\ w.session \in 1 .. sessionCount /\ w.values \subseteq Views
  \/ w.op = "emit" /\ w.nonce \in NM!Nonces /\ w.verdict \in Verdicts \cup {""}

APITypeOK ==
  /\ \A c \in Clients : ServingOK(serving[c])
  /\ shown \in [Clients -> [session : 0 .. sessionCount, view : Views]]
  /\ audited \in [NM!Nonces -> Seq(Verdicts)]

(* types/attestation.go:67, "these codes appear in audit logs": the log tells  *)
(* what became of a challenge.  At most one verdict is ever given on it,       *)
(* whoever submits it to whatever session how often; with one given it cannot  *)
(* be answered any more; and where the verdict is a rejection no session has   *)
(* an attestation that rests on it.                                            *)
VerdictsOn(n) == {c \in Clients : /\ serving[c].op = "emit" /\ serving[c].nonce = n
                                  /\ serving[c].verdict # ""}

Recorded(n) == \E s \in DOMAIN sessions : \E a \in DOMAIN sessions[s].attestations :
                 sessions[s].attestations[a] = n

OneVerdictPerChallenge ==
  \A n \in NM!Nonces :
    LET given == Len(audited[n]) + Cardinality(VerdictsOn(n))
        rejected == (\E i \in DOMAIN audited[n] : audited[n][i] # "accepted")
                      \/ \E c \in VerdictsOn(n) : serving[c].verdict # "accepted"
    IN  /\ given <= 1
        /\ given > 0 => ~NM!Answerable(n)
        /\ rejected => ~Recorded(n)

(* server.go:205, reads outside the lock: an answer can mix moments of the     *)
(* session, but two answers to one client are still in order.  What was shown  *)
(* set stays set, and no earlier phase follows a later one.                    *)
Rank == [attesting |-> 1, commit |-> 2, sign |-> 3, complete |-> 4, expired |-> 5]

InOrder(old, new) ==
  /\ old.attested \subseteq new.attested
  /\ old.committed \subseteq new.committed
  /\ old.shared \subseteq new.shared
  /\ old.status \in Status /\ new.status \in Status => Rank[old.status] <= Rank[new.status]

AnswersInOrder ==
  [][\A c \in Clients : shown[c].session = shown'[c].session
                          => InOrder(shown[c].view, shown'[c].view)]_apiVars

(* server.go:205-219: an answer can show a phase and not the marks that led to *)
(* it; the next answer of GetSession to the same client shows them.            *)
Explained(old, new) ==
  /\ old.status \in {"commit", "sign", "complete"} => Cardinality(new.attested) >= Threshold
  /\ old.status \in {"sign", "complete"} => Cardinality(new.committed) >= Threshold
  /\ old.status = "complete" => Cardinality(new.shared) >= Threshold

NextAnswerExplains ==
  [][\A c \in Clients :
       /\ shown[c].session = shown'[c].session /\ serving[c].op = "get" /\ serving'[c] = Idle
       => Explained(shown[c].view, shown'[c].view)]_apiVars

=============================================================================
