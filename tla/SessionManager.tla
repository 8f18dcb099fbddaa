--------------------------- MODULE SessionManager ---------------------------
(***************************************************************************)
(* internal/session/manager.go: the coordinator's signing sessions, over   *)
(* the nonce table (NonceManager), the enrolled signers (PolicyState) and  *)
(* the attestation checks (AttestationVerifier) it calls.                  *)
(*                                                                         *)
(* m.mu is held for the whole of CreateSession, SubmitAttestation,         *)
(* RecordCommitment, RecordShare and CleanupExpired.  The last four touch  *)
(* nothing that others change meanwhile except through one call into the   *)
(* nonce table, so each is one action.  CreateSession reads the policy     *)
(* signer by signer under the policy's own lock, and IssueChallenge drops  *)
(* m.mu before it asks for a nonce: both are split there.                  *)
(*                                                                         *)
(* Session IDs, like nonces, are crypto/rand: the n-th one drawn is n.     *)
(***************************************************************************)
EXTENDS Integers, FiniteSets, SequencesExt, AttestationVerifier

CONSTANTS
  Requests,        \* SigningRequests: [id, payload, required]; required may be <<>>
  Docs,            \* documents that are submitted: [nonce, age, chain, pcrs], NoDoc
  PayloadKey(_,_), \* computePayloadKey, of a payload and a list of signer IDs
  Signers,         \* the signer IDs that occur, see PolicyState
  Genesis,         \* the signers the start-up code has enrolled
  Threshold,       \* policyState.ThresholdConfig().Threshold, which never changes
  Timeout,         \* m.config.Timeout
  MaxAge,          \* nm.spec.MaxAge
  MaxTime, MaxNonces, MaxVersion,  \* bounds, see NonceManager and PolicyState
  MaxSessions,     \* bound: how many sessions are created
  MaxChallenges    \* bound: how many IssueChallenge calls are under way at once

VARIABLES
  now,                \* the clock every component reads
  sessions,           \* m.sessions: session ID -> session
  requestIndex,       \* m.requestIndex: request ID -> session ID
  sessionsByPayload,  \* m.sessionsByPayload: payload key -> session ID
  sessionCount,       \* how many session IDs have been drawn
  call,               \* the CreateSession that holds m.mu, or NoCall
  challenges,         \* <<session ID, signer>> of IssueChallenge calls that
                      \* passed their checks and have no nonce yet
  issued, nonceCount, \* see NonceManager
  signers, version    \* see PolicyState

NM == INSTANCE NonceManager
PS == INSTANCE PolicyState

nonceVars == <<issued, nonceCount>>
policyVars == <<signers, version>>
indexVars == <<requestIndex, sessionsByPayload>>
vars == <<now, sessions, indexVars, sessionCount, call, challenges, nonceVars, policyVars>>

-----------------------------------------------------------------------------
(* Participants are a list of signer IDs.  The per-participant flags of a   *)
(* session are sets of positions in that list: i \in attested is            *)
(* Participants[i].Attested, and so on.                                     *)
SessionIDs == 1 .. MaxSessions
RequestIDs == {r.id : r \in Requests}
Payloads == {r.payload : r \in Requests}
Status == {"attesting", "commit", "sign", "complete", "expired"}

(* The lists selectParticipants can return: the required signers as the     *)
(* request names them, or the active signers in the order of a map range.   *)
Selections == {r.required : r \in Requests} \cup UNION {SetToSeqs(A) : A \in SUBSET Signers}

Keys == {PayloadKey(p, q) : p \in Payloads, q \in Selections}

SameUpToOrder(p, q) ==
  /\ Len(p) = Len(q)
  /\ \A a \in Signers : Cardinality({i \in DOMAIN p : p[i] = a})
                          = Cardinality({i \in DOMAIN q : q[i] = a})

ASSUME ManagerConstants ==
  /\ Timeout \in Nat /\ MaxAge \in Nat
  /\ MaxTime \in Nat /\ MaxNonces \in Nat /\ MaxVersion \in Nat
  /\ MaxSessions \in Nat /\ MaxChallenges \in Nat
  /\ IsFiniteSet(Signers) /\ Genesis \subseteq Signers /\ Cardinality(Genesis) <= MaxVersion
  /\ Threshold \in Nat \ {0}   \* ThresholdConfig.Valid
  /\ \A r \in Requests : r.required \in Seq(Signers)

(* The key sorts the signer IDs, so their order does not matter. *)
ASSUME KeyIgnoresOrder ==
  \A p \in Payloads : \A q1, q2 \in Selections :
    SameUpToOrder(q1, q2) => PayloadKey(p, q1) = PayloadKey(p, q2)

NoCall == [idle |-> TRUE]

(* A CreateSession in progress: the request, how many policy reads          *)
(* selectParticipants has made, and the active signers it found.            *)
Call == [req : Requests, reads : Nat, found : Selections]

(* An empty manager, once the signers of Genesis have been enrolled. *)
Init ==
  /\ NM!Init
  /\ signers = [a \in Genesis |-> "active"] /\ version = Cardinality(Genesis)
  /\ sessions = [s \in {} |-> 0]
  /\ requestIndex = [r \in {} |-> 0]
  /\ sessionsByPayload = [k \in {} |-> 0]
  /\ sessionCount = 0
  /\ call = NoCall
  /\ challenges = {}

(* The map f after f[x] = v. *)
Put(f, x, v) == [y \in DOMAIN f \cup {x} |-> IF y = x THEN v ELSE f[y]]

Free == call = NoCall  \* m.mu is not held across steps

(* m.clock().After(session.ExpiresAt) *)
PastDeadline(s) == now > sessions[s].expiresAt

(* Faulty (a slip of the code, not part of the model, as every definition   *)
(* with such a suffix): the loop does not stop at the first match.          *)
First_EveryMatch(s, a) ==
  {i \in DOMAIN sessions[s].participants : sessions[s].participants[i] = a}

(* Faulty: positions off by one. *)
First_OffByOne(s, a) == {i + 1 : i \in First_EveryMatch(s, a)}

(* Where the lookup loops stop: the first participant of that ID, if any. *)
First(s, a) ==
  LET p == sessions[s].participants
  IN  {i \in DOMAIN p : p[i] = a /\ \A j \in DOMAIN p : j < i => p[j] # a}

-----------------------------------------------------------------------------
(* Faulty: only a session that is not marked expired answers the request ID. *)
Known_NotExpired(req) ==
  /\ req.id \in DOMAIN requestIndex /\ requestIndex[req.id] \in DOMAIN sessions
  /\ sessions[requestIndex[req.id]].status # "expired"

(* CreateSession takes m.mu.  A request ID that is already indexed, by a    *)
(* session that still exists, is answered at once and nothing changes.      *)
Known(req) == req.id \in DOMAIN requestIndex /\ requestIndex[req.id] \in DOMAIN sessions

CreateSession(req) ==
  /\ Free /\ ~Known(req)
  /\ call' = [req |-> req, reads |-> 0, found |-> <<>>]
  /\ UNCHANGED <<now, sessions, indexVars, sessionCount, challenges, nonceVars, policyVars>>

(* selectParticipants, one iteration: GetSigner for the next required       *)
(* signer.  The status is read through the returned pointer without the     *)
(* policy's lock; any value a torn read yields differs from "active", as    *)
(* one of the two values of a change does, so the read is one step.         *)
Required(c) == c.req.required
NextRequired == Required(call)[call.reads + 1]

ReadRequired ==
  /\ ~Free /\ call.reads < Len(Required(call))
  /\ PS!Active(NextRequired)
  /\ call' = [call EXCEPT !.reads = @ + 1]
  /\ UNCHANGED <<now, sessions, indexVars, sessionCount, challenges, nonceVars, policyVars>>

(* ErrSignerNotEnrolled, ErrSignerNotActive: the call returns. *)
RefuseRequired ==
  /\ ~Free /\ call.reads < Len(Required(call))
  /\ ~PS!Active(NextRequired)
  /\ call' = NoCall
  /\ UNCHANGED <<now, sessions, indexVars, sessionCount, challenges, nonceVars, policyVars>>

(* selectParticipants without required signers: all active ones, in the     *)
(* order the range over the map happens to take.                            *)
ReadActive ==
  /\ ~Free /\ Required(call) = <<>> /\ call.reads = 0
  /\ \E order \in SetToSeqs(PS!GetActiveSigners) :
       call' = [call EXCEPT !.reads = 1, !.found = order]
  /\ UNCHANGED <<now, sessions, indexVars, sessionCount, challenges, nonceVars, policyVars>>

(* The rest of CreateSession, once the participants are selected. *)
Selected == ~Free /\ call.reads = IF Required(call) = <<>> THEN 1 ELSE Len(Required(call))
Participants == IF Required(call) = <<>> THEN call.found ELSE Required(call)
(* Faulty: the key leaves the signers out. *)
CallKey_PayloadOnly == PayloadKey(call.req.payload, <<>>)

CallKey == PayloadKey(call.req.payload, Participants)

(* Faulty: only a session that still collects attestations is reused. *)
Reusable_Attesting == /\ CallKey \in DOMAIN sessionsByPayload
                      /\ sessionsByPayload[CallKey] \in DOMAIN sessions
                      /\ sessions[sessionsByPayload[CallKey]].status = "attesting"

(* A session that is in the index under the call's key and not marked       *)
(* expired; nothing looks at its deadline.  No code sets "failed".          *)
Reusable == /\ CallKey \in DOMAIN sessionsByPayload
            /\ sessionsByPayload[CallKey] \in DOMAIN sessions
            /\ sessions[sessionsByPayload[CallKey]].status # "expired"

(* ErrInsufficientSigners, or rand.Read failed in generateSessionID. *)
CreateFails ==
  /\ Selected
  /\ Len(Participants) < Threshold \/ ~Reusable
  /\ call' = NoCall
  /\ UNCHANGED <<now, sessions, indexVars, sessionCount, challenges, nonceVars, policyVars>>

CreateReuses ==
  /\ Selected /\ Len(Participants) >= Threshold /\ Reusable
  /\ requestIndex' = Put(requestIndex, call.req.id, sessionsByPayload[CallKey])
  /\ call' = NoCall
  /\ UNCHANGED <<now, sessions, sessionsByPayload, sessionCount, challenges, nonceVars, policyVars>>

NewSession ==
  [status |-> "attesting", participants |-> Participants, payload |-> call.req.payload,
   expiresAt |-> now + Timeout, attested |-> {}, committed |-> {}, shared |-> {},
   attestations |-> [a \in {} |-> 0]]

CreateNew ==
  /\ Selected /\ Len(Participants) >= Threshold /\ ~Reusable
  /\ sessionCount < MaxSessions
  /\ sessionCount' = sessionCount + 1
  /\ sessions' = Put(sessions, sessionCount + 1, NewSession)
  /\ requestIndex' = Put(requestIndex, call.req.id, sessionCount + 1)
  /\ sessionsByPayload' = Put(sessionsByPayload, CallKey, sessionCount + 1)
  /\ call' = NoCall
  /\ UNCHANGED <<now, challenges, nonceVars, policyVars>>

CreateStep == ReadRequired \/ RefuseRequired \/ ReadActive
                \/ CreateFails \/ CreateReuses \/ CreateNew

-----------------------------------------------------------------------------
(* IssueChallenge: GetSession and the participant check, under the read      *)
(* lock; then, with the lock released, nonceManager.Issue.  The nonce is not *)
(* kept with the session or the signer it was asked for.                     *)
IssueChallenge(s, a) ==
  /\ Free
  /\ s \in DOMAIN sessions /\ ~PastDeadline(s)
  /\ First(s, a) # {}
  /\ Cardinality(challenges) < MaxChallenges
  /\ challenges' = challenges \cup {<<s, a>>}
  /\ UNCHANGED <<now, sessions, indexVars, sessionCount, call, nonceVars, policyVars>>

IssueNonce(c) ==
  /\ NM!Issue
  /\ challenges' = challenges \ {c}
  /\ UNCHANGED <<sessions, indexVars, sessionCount, call, policyVars>>

(* rand.Read failed: the caller gets an error and no nonce is registered. *)
IssueFails(c) ==
  /\ challenges' = challenges \ {c}
  /\ UNCHANGED <<now, sessions, indexVars, sessionCount, call, nonceVars, policyVars>>

-----------------------------------------------------------------------------
(* SubmitAttestation.  The clock is read once here; the code reads it again  *)
(* for each check, all within the same critical section.                     *)

(* After the deadline the session is marked expired, whatever its status. *)
SubmitLate(s) ==
  /\ Free
  /\ s \in DOMAIN sessions /\ PastDeadline(s)
  /\ sessions' = [sessions EXCEPT ![s].status = "expired"]
  /\ UNCHANGED <<now, indexVars, sessionCount, call, challenges, nonceVars, policyVars>>

(* Before it, a participant's nonce is used up first and the document is     *)
(* verified second, in whatever status the session is.                       *)
Submit(s, a, n) ==
  /\ Free
  /\ s \in DOMAIN sessions /\ ~PastDeadline(s)
  /\ First(s, a) # {}
  /\ NM!Validate(n)
  /\ UNCHANGED <<indexVars, sessionCount, call, challenges, policyVars>>

(* Faulty: the document is verified before the nonce, which is kept. *)
SubmitRejected_VerifyFirst(s, a, doc, n) ==
  /\ Free
  /\ s \in DOMAIN sessions /\ ~PastDeadline(s)
  /\ First(s, a) # {}
  /\ Verify(doc, n) # ""
  /\ UNCHANGED vars

SubmitRejected(s, a, doc, n) ==
  /\ Submit(s, a, n)
  /\ Verify(doc, n) # ""
  /\ UNCHANGED sessions

(* Faulty: the status is not looked at. *)
MaybeAdvance_AnyStatus(x) ==
  IF Cardinality(x.attested) >= Threshold THEN [x EXCEPT !.status = "commit"] ELSE x

(* Faulty: one attestation short. *)
MaybeAdvance_OneShort(x) ==
  IF x.status = "attesting" /\ Cardinality(x.attested) + 1 >= Threshold
  THEN [x EXCEPT !.status = "commit"] ELSE x

(* maybeAdvanceSession, of the session's value. *)
MaybeAdvance(x) ==
  IF x.status = "attesting" /\ Cardinality(x.attested) >= Threshold
  THEN [x EXCEPT !.status = "commit"] ELSE x

(* Faulty: the marks of the others are lost. *)
Attest_Resets(s, a, n) ==
  [sessions[s] EXCEPT !.attested = First(s, a), !.attestations = Put(@, a, n)]

(* The session with the document recorded and the participant marked. *)
Attest(s, a, n) ==
  [sessions[s] EXCEPT !.attested = @ \cup First(s, a), !.attestations = Put(@, a, n)]

SubmitAccepted(s, a, doc, n) ==
  /\ Submit(s, a, n)
  /\ Verify(doc, n) = ""
  /\ sessions' = [sessions EXCEPT ![s] = MaybeAdvance(Attest(s, a, doc.nonce))]

-----------------------------------------------------------------------------
(* RecordCommitment and RecordShare: no deadline is looked at.  An unattested *)
(* participant is refused; the ID of a non-participant marks nobody, yet the  *)
(* count is taken.                                                            *)
RecordCommitment(s, a) ==
  /\ Free
  /\ s \in DOMAIN sessions /\ sessions[s].status = "commit"
  /\ First(s, a) \subseteq sessions[s].attested
  /\ LET marked == sessions[s].committed \cup First(s, a)
     IN  sessions' = [sessions EXCEPT ![s].committed = marked,
           ![s].status = IF Cardinality(marked) >= Threshold THEN "sign" ELSE @]
  /\ UNCHANGED <<now, indexVars, sessionCount, call, challenges, nonceVars, policyVars>>

RecordShare(s, a) ==
  /\ Free
  /\ s \in DOMAIN sessions /\ sessions[s].status = "sign"
  /\ First(s, a) \subseteq sessions[s].attested
  /\ LET marked == sessions[s].shared \cup First(s, a)
     IN  sessions' = [sessions EXCEPT ![s].shared = marked,
           ![s].status = IF Cardinality(marked) >= Threshold THEN "complete" ELSE @]
  /\ UNCHANGED <<now, indexVars, sessionCount, call, challenges, nonceVars, policyVars>>

(* CleanupExpired: every session past its deadline goes, and with each of     *)
(* them one key of the payload index that leads to it, the first the range    *)
(* over the map comes upon.  The request index keeps its entries.             *)
KeysOf(s) == {k \in DOMAIN sessionsByPayload : sessionsByPayload[k] = s}
Overdue == {s \in DOMAIN sessions : PastDeadline(s)}

(* Faulty: the payload index keeps its keys. *)
CleanupExpired_KeepsKeys ==
  /\ Free /\ Overdue # {}
  /\ sessions' = Restrict(sessions, DOMAIN sessions \ Overdue)
  /\ UNCHANGED <<now, indexVars, sessionCount, call, challenges, nonceVars, policyVars>>

CleanupExpired ==
  /\ Free /\ Overdue # {}
  /\ sessions' = Restrict(sessions, DOMAIN sessions \ Overdue)
  /\ \E dropped \in SUBSET UNION {KeysOf(s) : s \in Overdue} :
       /\ \A s \in Overdue : KeysOf(s) # {} => \E k \in KeysOf(s) : KeysOf(s) \cap dropped = {k}
       /\ sessionsByPayload' = Restrict(sessionsByPayload, DOMAIN sessionsByPayload \ dropped)
  /\ UNCHANGED <<now, requestIndex, sessionCount, call, challenges, nonceVars, policyVars>>

-----------------------------------------------------------------------------
(* What goes on beside the manager and its lock. *)
CleanupNonces ==
  /\ NM!Cleanup
  /\ UNCHANGED <<sessions, indexVars, sessionCount, call, challenges, policyVars>>

Tick ==
  /\ NM!Tick
  /\ UNCHANGED <<sessions, indexVars, sessionCount, call, challenges, policyVars>>

PolicyChange ==
  /\ PS!Next
  /\ UNCHANGED <<now, sessions, indexVars, sessionCount, call, challenges, nonceVars>>

Next ==
  \/ \E req \in Requests : CreateSession(req)
  \/ CreateStep
  \/ \E c \in challenges : IssueNonce(c) \/ IssueFails(c)
  \/ \E s \in SessionIDs :
       \/ SubmitLate(s)
       \/ \E a \in Signers :
            \/ IssueChallenge(s, a) \/ RecordCommitment(s, a) \/ RecordShare(s, a)
            \/ \E doc \in Docs, n \in NM!Nonces :
                 SubmitRejected(s, a, doc, n) \/ SubmitAccepted(s, a, doc, n)
  \/ CleanupExpired
  \/ CleanupNonces \/ Tick \/ PolicyChange

Spec == Init /\ [][Next]_vars

-----------------------------------------------------------------------------
Positions == UNION {DOMAIN q : q \in Selections}
Attestations == UNION {[A -> NM!Nonces] : A \in SUBSET Signers}

Session == [status : Status, participants : Selections, payload : Payloads,
            expiresAt : Nat, attested : SUBSET Positions, committed : SUBSET Positions,
            shared : SUBSET Positions, attestations : Attestations]

(* The flags of a session are flags of its participants. *)
WellFormed(x) ==
  x \in Session /\ x.attested \cup x.committed \cup x.shared \subseteq DOMAIN x.participants

SessionsOK ==
  /\ sessionCount \in 0 .. MaxSessions
  /\ DOMAIN sessions \subseteq 1 .. sessionCount
  /\ \A s \in DOMAIN sessions : WellFormed(sessions[s])

IndexesOK ==
  /\ DOMAIN requestIndex \subseteq RequestIDs
  /\ \A r \in DOMAIN requestIndex : requestIndex[r] \in 1 .. sessionCount
  /\ DOMAIN sessionsByPayload \subseteq Keys
  /\ \A k \in DOMAIN sessionsByPayload : sessionsByPayload[k] \in 1 .. sessionCount

(* The state is well formed: every map holds what its Go type says and      *)
(* refers to sessions and nonces that were drawn.                           *)
TypeOK ==
  /\ NM!TypeOK /\ PS!TypeOK /\ SessionsOK /\ IndexesOK
  /\ call \in Call \cup {NoCall}
  /\ challenges \subseteq SessionIDs \X Signers

(* A session is in a signing phase only on the strength of Threshold         *)
(* DIFFERENT signers: as many attested before commitments were taken, as     *)
(* many attested ones committed before shares were, as many attested ones    *)
(* sent a share before it was complete; even when a request names a signer   *)
(* twice, and however attestations, retries and late messages interleave.    *)
SignersAt(s, positions) == {sessions[s].participants[i] : i \in positions}

PhaseBackedByQuorum ==
  \A s \in DOMAIN sessions :
    LET Quorum(positions) == /\ positions \subseteq sessions[s].attested
                             /\ Cardinality(SignersAt(s, positions)) >= Threshold
    IN  /\ sessions[s].status \in {"commit", "sign", "complete"} => Quorum(sessions[s].attested)
        /\ sessions[s].status \in {"sign", "complete"} => Quorum(sessions[s].committed)
        /\ sessions[s].status = "complete" => Quorum(sessions[s].shared)

(* One answered challenge backs one attestation: no nonce is recorded for    *)
(* two sessions, or for two signers, though Cleanup forgets used nonces and  *)
(* sessions come and go.                                                     *)
NoNonceReplay ==
  \A s, t \in DOMAIN sessions :
    \A a \in DOMAIN sessions[s].attestations, b \in DOMAIN sessions[t].attestations :
      sessions[s].attestations[a] = sessions[t].attestations[b] => s = t /\ a = b

(* README.md:53: no two sessions that are not marked expired are for the     *)
(* same payload and the same signers, in whatever order they were selected.  *)
OneLiveSessionPerPayload ==
  \A s, t \in DOMAIN sessions :
    (/\ sessions[s].status # "expired" /\ sessions[t].status # "expired"
     /\ sessions[s].payload = sessions[t].payload
     /\ SameUpToOrder(sessions[s].participants, sessions[t].participants)) => s = t

(* README.md:56: the payload index leads to sessions that exist and were     *)
(* filed under that key; clean-up leaves no entry behind.                    *)
KeyOf(s) == PayloadKey(sessions[s].payload, sessions[s].participants)

PayloadIndexSound ==
  \A k \in DOMAIN sessionsByPayload :
    sessionsByPayload[k] \in DOMAIN sessions /\ KeyOf(sessionsByPayload[k]) = k

(* A request ID leads to a session for the payload and for exactly the       *)
(* signers (in any order) that a request of that ID asked for, also when the *)
(* session was created for somebody else's request.                          *)
RequestServed ==
  \A r \in DOMAIN requestIndex : requestIndex[r] \in DOMAIN sessions =>
    \E req \in Requests :
      /\ req.id = r
      /\ req.payload = sessions[requestIndex[r]].payload
      /\ req.required # <<>> =>
           SameUpToOrder(req.required, sessions[requestIndex[r]].participants)

(* Retrying a request is idempotent: as long as the session it was answered  *)
(* with exists, its ID leads there, whatever else is created or cleaned up.  *)
SameAnswer == \A r \in DOMAIN requestIndex : requestIndex[r] \in DOMAIN sessions' =>
                r \in DOMAIN requestIndex' /\ requestIndex'[r] = requestIndex[r]

RetryFindsSession == [][SameAnswer]_vars

(* A session goes through its phases one at a time and in order, and leaves  *)
(* that order only to be marked expired, after its deadline and for good.    *)
NextStatus == {<<"attesting", "commit">>, <<"commit", "sign">>, <<"sign", "complete">>}

OnePhaseOn ==
  \A s \in DOMAIN sessions \cap DOMAIN sessions' :
    LET old == sessions[s].status  new == sessions'[s].status
    IN  old # new => <<old, new>> \in NextStatus \/ (new = "expired" /\ PastDeadline(s))

PhasesInOrder == [][OnePhaseOn]_vars

=============================================================================
