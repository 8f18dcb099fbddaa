------------------------- MODULE SessionSafetyProofs -------------------------
(***************************************************************************)
(* The state of the session manager is well formed, and its safety         *)
(* properties hold (its nonces, its quorums and its payload index), for    *)
(* any requests, any signers, any payload key that ignores order, and any  *)
(* bounds.                                                                 *)
(***************************************************************************)
EXTENDS SessionInvariants, TLAPS, FiniteSetTheorems

(* The active signers in some order are a list of participants. *)
LEMMA OrderIsSelection ==
  ASSUME NEW A \in SUBSET Signers, NEW q \in SetToSeqs(A) PROVE q \in Selections
BY DEF Selections

LEMMA EmptySelection == <<>> \in Selections
<1>1. <<>> \in SetToSeqs({})
  BY FS_EmptySet DEF SetToSeqs
<1> QED
  BY <1>1, OrderIsSelection

(* The operations of the policy keep its own state well formed. *)
LEMMA PolicyStep == ASSUME PS!TypeOK, PS!Next PROVE PS!TypeOK'
BY ManagerConstants
   DEF PS!TypeOK, PS!Next, PS!EnrollSigner, PS!RevokeSigner, PS!SuspendSigner,
       PS!ReactivateSigner, PS!Active, PS!SetStatus, PS!SignerStatus

(* So do the operations of the nonce table. *)
LEMMA NonceStep ==
  ASSUME NM!TypeOK, NM!Issue \/ NM!Cleanup \/ NM!Tick \/ \E n \in NM!Nonces : NM!Validate(n)
  PROVE  NM!TypeOK'
<1> USE ManagerConstants DEF NM!TypeOK, NM!NonceEntry
<1>1. CASE NM!Issue
  BY <1>1 DEF NM!Issue, NM!Store
<1>2. CASE NM!Cleanup
  BY <1>2 DEF NM!Cleanup, NM!Restrict
<1>3. CASE NM!Tick
  BY <1>3 DEF NM!Tick
<1>4. CASE \E n \in NM!Nonces : NM!Validate(n)
  <2>1. PICK n \in NM!Nonces : NM!Validate(n)
    BY <1>4
  <2>2. n \in DOMAIN issued
    BY <2>1 DEF NM!Validate, NM!Answerable
  <2> QED
    BY <2>1, <2>2 DEF NM!Validate, NM!Store
<1> QED
  BY <1>1, <1>2, <1>3, <1>4

-----------------------------------------------------------------------------
(* A call in progress carries a request and a list of participants. *)
LEMMA CallFacts ==
  ASSUME TypeOK, ~Free
  PROVE  /\ call \in Call
         /\ Participants \in Selections
         /\ CallKey \in Keys
         /\ call.req.id \in RequestIDs
         /\ call.req.payload \in Payloads
<1>1. call \in Call
  BY DEF TypeOK, Free
<1>2. Participants \in Selections
  BY <1>1 DEF Call, Participants, Required, Selections
<1> QED
  BY <1>1, <1>2 DEF Call, CallKey, Keys, RequestIDs, Payloads

(* A session changed in place to something well formed. *)
LEMMA SessionsUpdate ==
  ASSUME SessionsOK, NEW s \in DOMAIN sessions, NEW x, WellFormed(x),
         sessions' = [sessions EXCEPT ![s] = x], UNCHANGED sessionCount
  PROVE  SessionsOK'
BY DEF SessionsOK

(* Marking the first participant of an ID keeps flags on participants. *)
LEMMA FirstIsPosition ==
  ASSUME NEW s \in DOMAIN sessions, NEW a PROVE First(s, a) \subseteq DOMAIN sessions[s].participants
BY DEF First

(* RecordCommitment, RecordShare and a late SubmitAttestation. *)
LEMMA StatusUpdate ==
  ASSUME SessionsOK, NEW s \in DOMAIN sessions, NEW st \in Status,
         NEW c, c \subseteq DOMAIN sessions[s].participants
  PROVE  /\ WellFormed([sessions[s] EXCEPT !.status = st])
         /\ WellFormed([sessions[s] EXCEPT !.committed = c, !.status = st])
         /\ WellFormed([sessions[s] EXCEPT !.shared = c, !.status = st])
<1>1. sessions[s] \in Session /\ WellFormed(sessions[s])
  BY DEF SessionsOK, WellFormed
<1>2. c \subseteq Positions
  BY <1>1 DEF Session, Positions
<1> QED
  BY <1>1, <1>2 DEF Session, WellFormed

(* Recording a document keeps the table of attestations well formed. *)
LEMMA PutAttestation ==
  ASSUME NEW f \in Attestations, NEW a \in Signers, NEW n \in NM!Nonces
  PROVE  Put(f, a, n) \in Attestations
<1>1. PICK A \in SUBSET Signers : f \in [A -> NM!Nonces]
  BY DEF Attestations
<1>2. Put(f, a, n) \in [A \cup {a} -> NM!Nonces]
  BY <1>1 DEF Put
<1> QED
  BY <1>2 DEF Attestations

LEMMA AttestWellFormed ==
  ASSUME SessionsOK, NEW s \in DOMAIN sessions, NEW a \in Signers, NEW n \in NM!Nonces
  PROVE  WellFormed(Attest(s, a, n)) /\ WellFormed(MaybeAdvance(Attest(s, a, n)))
<1>1. sessions[s] \in Session /\ WellFormed(sessions[s])
  BY DEF SessionsOK, WellFormed
<1>2. First(s, a) \subseteq DOMAIN sessions[s].participants /\ First(s, a) \subseteq Positions
  BY <1>1, FirstIsPosition DEF Session, Positions
<1>3. Put(sessions[s].attestations, a, n) \in Attestations
  BY <1>1, PutAttestation DEF Session
<1>4. WellFormed(Attest(s, a, n))
  BY <1>1, <1>2, <1>3 DEF Attest, Session, WellFormed
<1>5. WellFormed(MaybeAdvance(Attest(s, a, n)))
  <2> DEFINE x == Attest(s, a, n)
  <2> HIDE DEF x
  <2>1. WellFormed(x)
    BY <1>4 DEF x
  <2>2. WellFormed(MaybeAdvance(x))
    BY <2>1 DEF WellFormed, MaybeAdvance, Session, Status
  <2> QED
    BY <2>2 DEF x
<1> QED
  BY <1>4, <1>5

(* A document that is accepted carries the nonce it is checked against. *)
LEMMA AcceptedNonce == ASSUME NEW doc, NEW n, Verify(doc, n) = "" PROVE doc.nonce = n
BY DEF Verify, NonceMatches

LEMMA AcceptedUpdate ==
  ASSUME NEW s \in SessionIDs, NEW a \in Signers, NEW doc, NEW n \in NM!Nonces,
         SubmitAccepted(s, a, doc, n)
  PROVE  /\ s \in DOMAIN sessions
         /\ sessions' = [sessions EXCEPT ![s] = MaybeAdvance(Attest(s, a, n))]
BY AcceptedNonce DEF SubmitAccepted, Submit

-----------------------------------------------------------------------------
(* A part of the type invariant holds after a step that leaves what it is    *)
(* about alone.                                                              *)
LEMMA TypeFrame ==
  /\ NM!TypeOK /\ UNCHANGED <<now, nonceVars>> => NM!TypeOK'
  /\ PS!TypeOK /\ UNCHANGED policyVars => PS!TypeOK'
  /\ SessionsOK /\ UNCHANGED <<sessions, sessionCount>> => SessionsOK'
  /\ IndexesOK /\ UNCHANGED <<indexVars, sessionCount>> => IndexesOK'
<1>1. NM!TypeOK /\ UNCHANGED <<now, nonceVars>> => NM!TypeOK'
  BY DEF NM!TypeOK, nonceVars
<1>2. PS!TypeOK /\ UNCHANGED policyVars => PS!TypeOK'
  BY DEF PS!TypeOK, policyVars
<1>3. SessionsOK /\ UNCHANGED <<sessions, sessionCount>> => SessionsOK'
  BY DEF SessionsOK
<1>4. IndexesOK /\ UNCHANGED <<indexVars, sessionCount>> => IndexesOK'
  BY DEF IndexesOK, indexVars
<1> QED
  BY <1>1, <1>2, <1>3, <1>4

(* Steps of a CreateSession that only change the call itself. *)
LEMMA TypeCall ==
  ASSUME TypeOK, call' \in Call \cup {NoCall},
         UNCHANGED <<now, sessions, indexVars, sessionCount, challenges, nonceVars, policyVars>>
  PROVE  TypeOK'
BY TypeFrame DEF TypeOK

(* Steps that end a call. *)
LEMMA NewSessionWellFormed == ASSUME TypeOK, ~Free PROVE WellFormed(NewSession)
<1>1. call.req.payload \in Payloads /\ Participants \in Selections
  BY CallFacts
<1>2. now + Timeout \in Nat
  BY ManagerConstants DEF TypeOK, NM!TypeOK
<1>3. [a \in {} |-> 0] \in Attestations
  BY DEF Attestations
<1> QED
  BY <1>1, <1>2, <1>3 DEF NewSession, WellFormed, Session, Status

LEMMA TypeCreateNew == ASSUME TypeOK, CreateNew PROVE TypeOK'
<1> USE ManagerConstants
<1>1. ~Free /\ WellFormed(NewSession)
  BY NewSessionWellFormed DEF CreateNew, Selected
<1>2. CallKey \in Keys /\ call.req.id \in RequestIDs
  BY <1>1, CallFacts
<1>3. SessionsOK'
  BY <1>1 DEF CreateNew, TypeOK, SessionsOK, Put
<1>4. IndexesOK'
  BY <1>2 DEF CreateNew, TypeOK, SessionsOK, IndexesOK, Put
<1> QED
  BY <1>3, <1>4, TypeFrame DEF CreateNew, TypeOK

LEMMA TypeCreateReuses == ASSUME TypeOK, CreateReuses PROVE TypeOK'
<1>1. ~Free /\ CallKey \in DOMAIN sessionsByPayload
  BY DEF CreateReuses, Selected, Reusable
<1>2. call.req.id \in RequestIDs
  BY <1>1, CallFacts
<1>3. IndexesOK'
  BY <1>1, <1>2 DEF CreateReuses, TypeOK, IndexesOK, Put
<1> QED
  BY <1>3, TypeFrame DEF CreateReuses, TypeOK

(* CreateSession, whichever way it goes on or returns. *)
LEMMA TypeCreate ==
  ASSUME TypeOK, CreateStep \/ \E req \in Requests : CreateSession(req) PROVE TypeOK'
<1>1. CASE \E req \in Requests : CreateSession(req)
  BY <1>1, TypeCall, EmptySelection DEF CreateSession, Call
<1>2. CASE ReadRequired
  <2>1. call \in Call
    BY <1>2, CallFacts DEF ReadRequired
  <2> QED
    BY <1>2, <2>1, TypeCall DEF ReadRequired, Call
<1>3. CASE RefuseRequired
  BY <1>3, TypeCall DEF RefuseRequired
<1>4. CASE ReadActive
  <2>1. call \in Call
    BY <1>4, CallFacts DEF ReadActive
  <2>2. PS!GetActiveSigners \subseteq Signers
    BY DEF TypeOK, PS!TypeOK, PS!GetActiveSigners
  <2>3. PICK order \in SetToSeqs(PS!GetActiveSigners) :
          call' = [call EXCEPT !.reads = 1, !.found = order]
    BY <1>4 DEF ReadActive
  <2>4. order \in Selections
    BY <2>2, <2>3, OrderIsSelection
  <2> QED
    BY <1>4, <2>1, <2>3, <2>4, TypeCall DEF ReadActive, Call
<1>5. CASE CreateFails
  BY <1>5, TypeCall DEF CreateFails
<1>6. CASE CreateReuses
  BY <1>6, TypeCreateReuses
<1>7. CASE CreateNew
  BY <1>7, TypeCreateNew
<1> QED
  BY <1>1, <1>2, <1>3, <1>4, <1>5, <1>6, <1>7 DEF CreateStep

-----------------------------------------------------------------------------
(* IssueChallenge and its call into the nonce table. *)
LEMMA TypeChallenge ==
  ASSUME TypeOK,
         \/ \E s \in SessionIDs, a \in Signers : IssueChallenge(s, a)
         \/ \E c \in challenges : IssueNonce(c) \/ IssueFails(c)
  PROVE  TypeOK'
<1>1. CASE \E s \in SessionIDs, a \in Signers : IssueChallenge(s, a)
  BY <1>1, TypeFrame DEF IssueChallenge, TypeOK
<1>2. CASE \E c \in challenges : IssueNonce(c)
  <2>1. NM!TypeOK'
    BY <1>2, NonceStep DEF IssueNonce, TypeOK
  <2> QED
    BY <1>2, <2>1, TypeFrame DEF IssueNonce, TypeOK
<1>3. CASE \E c \in challenges : IssueFails(c)
  BY <1>3, TypeFrame DEF IssueFails, TypeOK
<1> QED
  BY <1>1, <1>2, <1>3

(* SubmitAttestation, late, rejected and accepted. *)
LEMMA TypeSubmit ==
  ASSUME TypeOK, NEW s \in SessionIDs,
         \/ SubmitLate(s)
         \/ \E a \in Signers, doc \in Docs, n \in NM!Nonces :
              SubmitRejected(s, a, doc, n) \/ SubmitAccepted(s, a, doc, n)
  PROVE  TypeOK'
<1>1. CASE SubmitLate(s)
  <2>1. s \in DOMAIN sessions /\ sessions' = [sessions EXCEPT ![s] = [sessions[s] EXCEPT !.status = "expired"]]
    BY <1>1 DEF SubmitLate
  <2>2. WellFormed([sessions[s] EXCEPT !.status = "expired"])
    BY <2>1, StatusUpdate DEF TypeOK, Status
  <2>3. SessionsOK'
    BY <1>1, <2>1, <2>2, SessionsUpdate DEF SubmitLate, TypeOK
  <2> QED
    BY <1>1, <2>3, TypeFrame DEF SubmitLate, TypeOK
<1>2. ASSUME NEW a \in Signers, NEW doc \in Docs, NEW n \in NM!Nonces,
             SubmitRejected(s, a, doc, n)
      PROVE  TypeOK'
  <2>1. NM!TypeOK'
    BY <1>2, NonceStep DEF SubmitRejected, Submit, TypeOK
  <2> QED
    BY <1>2, <2>1, TypeFrame DEF SubmitRejected, Submit, TypeOK
<1>3. ASSUME NEW a \in Signers, NEW doc \in Docs, NEW n \in NM!Nonces,
             SubmitAccepted(s, a, doc, n)
      PROVE  TypeOK'
  <2>1. NM!TypeOK'
    BY <1>3, NonceStep DEF SubmitAccepted, Submit, TypeOK
  <2>2. /\ s \in DOMAIN sessions
        /\ sessions' = [sessions EXCEPT ![s] = MaybeAdvance(Attest(s, a, n))]
    BY <1>3, AcceptedUpdate
  <2>3. WellFormed(MaybeAdvance(Attest(s, a, n)))
    BY <2>2, AttestWellFormed DEF TypeOK
  <2>4. SessionsOK'
    BY <1>3, <2>2, <2>3, SessionsUpdate DEF SubmitAccepted, Submit, TypeOK
  <2> QED
    BY <1>3, <2>1, <2>4, TypeFrame DEF SubmitAccepted, Submit, TypeOK
<1> QED
  BY <1>1, <1>2, <1>3

(* RecordCommitment and RecordShare. *)
LEMMA TypeRecord ==
  ASSUME TypeOK, NEW s \in SessionIDs, NEW a \in Signers,
         RecordCommitment(s, a) \/ RecordShare(s, a)
  PROVE  TypeOK'
<1>1. s \in DOMAIN sessions
  BY DEF RecordCommitment, RecordShare
<1>2. WellFormed(sessions[s]) /\ First(s, a) \subseteq DOMAIN sessions[s].participants
  BY <1>1, FirstIsPosition DEF TypeOK, SessionsOK
<1>3. CASE RecordCommitment(s, a)
  <2> DEFINE c == sessions[s].committed \cup First(s, a)
             st == IF Cardinality(c) >= Threshold THEN "sign" ELSE sessions[s].status
  <2>1. sessions' = [sessions EXCEPT ![s] = [sessions[s] EXCEPT !.committed = c, !.status = st]]
    BY <1>3 DEF RecordCommitment
  <2>2. c \subseteq DOMAIN sessions[s].participants /\ st \in Status
    BY <1>2 DEF WellFormed, Session, Status
  <2> HIDE DEF c, st
  <2>3. WellFormed([sessions[s] EXCEPT !.committed = c, !.status = st])
    BY <1>1, <2>2, StatusUpdate DEF TypeOK
  <2>4. SessionsOK'
    BY <1>1, <1>3, <2>1, <2>3, SessionsUpdate DEF RecordCommitment, TypeOK
  <2> QED
    BY <1>3, <2>4, TypeFrame DEF RecordCommitment, TypeOK
<1>4. CASE RecordShare(s, a)
  <2> DEFINE c == sessions[s].shared \cup First(s, a)
             st == IF Cardinality(c) >= Threshold THEN "complete" ELSE sessions[s].status
  <2>1. sessions' = [sessions EXCEPT ![s] = [sessions[s] EXCEPT !.shared = c, !.status = st]]
    BY <1>4 DEF RecordShare
  <2>2. c \subseteq DOMAIN sessions[s].participants /\ st \in Status
    BY <1>2 DEF WellFormed, Session, Status
  <2> HIDE DEF c, st
  <2>3. WellFormed([sessions[s] EXCEPT !.shared = c, !.status = st])
    BY <1>1, <2>2, StatusUpdate DEF TypeOK
  <2>4. SessionsOK'
    BY <1>1, <1>4, <2>1, <2>3, SessionsUpdate DEF RecordShare, TypeOK
  <2> QED
    BY <1>4, <2>4, TypeFrame DEF RecordShare, TypeOK
<1> QED
  BY <1>3, <1>4

LEMMA TypeCleanup == ASSUME TypeOK, CleanupExpired PROVE TypeOK'
<1>1. SessionsOK'
  BY DEF CleanupExpired, TypeOK, SessionsOK, Restrict
<1>2. IndexesOK'
  BY DEF CleanupExpired, TypeOK, IndexesOK, Restrict
<1> QED
  BY <1>1, <1>2, TypeFrame DEF CleanupExpired, TypeOK

(* What goes on beside the manager. *)
LEMMA TypeEnvironment == ASSUME TypeOK, CleanupNonces \/ Tick \/ PolicyChange PROVE TypeOK'
<1>1. CASE CleanupNonces
  <2>1. NM!TypeOK'
    BY <1>1, NonceStep DEF CleanupNonces, TypeOK
  <2> QED
    BY <1>1, <2>1, TypeFrame DEF CleanupNonces, TypeOK
<1>2. CASE Tick
  <2>1. NM!TypeOK'
    BY <1>2, NonceStep DEF Tick, TypeOK
  <2> QED
    BY <1>2, <2>1, TypeFrame DEF Tick, TypeOK
<1>3. CASE PolicyChange
  <2>1. PS!TypeOK'
    BY <1>3, PolicyStep DEF PolicyChange, TypeOK
  <2> QED
    BY <1>3, <2>1, TypeFrame DEF PolicyChange, TypeOK
<1> QED
  BY <1>1, <1>2, <1>3

-----------------------------------------------------------------------------
LEMMA TypeInit == Init => TypeOK
<1> SUFFICES ASSUME Init PROVE TypeOK
  OBVIOUS
<1> USE ManagerConstants DEF Init
<1>1. NM!TypeOK
  BY DEF NM!Init, NM!TypeOK
<1>2. PS!TypeOK
  <2>1. Cardinality(Genesis) \in Nat
    BY FS_Subset, FS_CardinalityType
  <2> QED
    BY <2>1 DEF PS!TypeOK, PS!SignerStatus
<1>3. SessionsOK /\ IndexesOK
  BY DEF SessionsOK, IndexesOK
<1> QED
  BY <1>1, <1>2, <1>3 DEF TypeOK

LEMMA TypeStep == TypeOK /\ [Next]_vars => TypeOK'
<1> SUFFICES ASSUME TypeOK, [Next]_vars PROVE TypeOK'
  OBVIOUS
<1>1. CASE CreateStep \/ \E req \in Requests : CreateSession(req)
  BY <1>1, TypeCreate
<1>2. CASE \E c \in challenges : IssueNonce(c) \/ IssueFails(c)
  BY <1>2, TypeChallenge
<1>3. ASSUME NEW s \in SessionIDs, SubmitLate(s) PROVE TypeOK'
  BY <1>3, TypeSubmit
<1>4. ASSUME NEW s \in SessionIDs, NEW a \in Signers, IssueChallenge(s, a) PROVE TypeOK'
  BY <1>4, TypeChallenge
<1>5. ASSUME NEW s \in SessionIDs, NEW a \in Signers,
             RecordCommitment(s, a) \/ RecordShare(s, a)
      PROVE  TypeOK'
  BY <1>5, TypeRecord
<1>6. ASSUME NEW s \in SessionIDs, NEW a \in Signers, NEW doc \in Docs, NEW n \in NM!Nonces,
             SubmitRejected(s, a, doc, n) \/ SubmitAccepted(s, a, doc, n)
      PROVE  TypeOK'
  BY <1>6, TypeSubmit
<1>7. CASE CleanupExpired
  BY <1>7, TypeCleanup
<1>8. CASE CleanupNonces \/ Tick \/ PolicyChange
  BY <1>8, TypeEnvironment
<1>9. CASE UNCHANGED vars
  BY <1>9, TypeFrame DEF vars, TypeOK
<1> QED
  BY <1>1, <1>2, <1>3, <1>4, <1>5, <1>6, <1>7, <1>8, <1>9 DEF Next

(* Whatever clients, signers, administrators and the clock do, in any order, *)
(* the manager's maps hold what their Go types say, flags belong to          *)
(* participants, and no index leads to an ID that was never drawn.           *)
THEOREM SessionTypeCorrect == Spec => []TypeOK
BY TypeInit, TypeStep, PTL DEF Spec

-----------------------------------------------------------------------------

(* The two parts of the invariant that are about nonces. *)
NoncesOnce == RecordedNoncesSpent /\ NoNonceReplay

(* A step that records no attestation keeps them, provided the table goes on *)
(* treating every used nonce as used, and draws only new ones.               *)
RecordsNothing ==
  \A s \in DOMAIN sessions' :
    \/ s \in DOMAIN sessions /\ sessions'[s].attestations = sessions[s].attestations
    \/ DOMAIN sessions'[s].attestations = {}

TableKeepsUsed ==
  /\ nonceCount' \in Nat /\ nonceCount <= nonceCount'
  /\ \A n \in DOMAIN issued' \cap 1 .. nonceCount :
       n \in DOMAIN issued /\ (issued[n].used => issued'[n].used)

LEMMA NoncesFrame ==
  ASSUME TypeOK, NoncesOnce, RecordsNothing, TableKeepsUsed PROVE NoncesOnce'
<1>1. nonceCount \in Nat
  BY ManagerConstants DEF TypeOK, NM!TypeOK
<1>2. RecordedNoncesSpent'
  <2> SUFFICES ASSUME NEW s \in DOMAIN sessions', NEW a \in DOMAIN sessions'[s].attestations
               PROVE  LET n == sessions'[s].attestations[a]
                      IN  n \in 1 .. nonceCount' /\ (n \in DOMAIN issued' => issued'[n].used)
    BY DEF RecordedNoncesSpent
  <2>1. s \in DOMAIN sessions /\ sessions'[s].attestations = sessions[s].attestations
    BY DEF RecordsNothing
  <2> DEFINE n == sessions[s].attestations[a]
  <2>2. n \in 1 .. nonceCount /\ (n \in DOMAIN issued => issued[n].used)
    BY <2>1 DEF NoncesOnce, RecordedNoncesSpent
  <2> HIDE DEF n
  <2>3. n \in 1 .. nonceCount' /\ (n \in DOMAIN issued' => issued'[n].used)
    BY <1>1, <2>2 DEF TableKeepsUsed
  <2> QED
    BY <2>1, <2>3 DEF n
<1>3. NoNonceReplay'
  BY DEF NoncesOnce, NoNonceReplay, RecordsNothing
<1> QED
  BY <1>2, <1>3 DEF NoncesOnce

(* The operations of the nonce table keep used nonces used. *)
LEMMA TableOperations ==
  ASSUME TypeOK,
         \/ NM!Issue \/ NM!Cleanup \/ \E n \in NM!Nonces : NM!Validate(n)
         \/ UNCHANGED nonceVars
  PROVE  TableKeepsUsed
<1> USE ManagerConstants DEF TypeOK, NM!TypeOK, TableKeepsUsed
<1>1. CASE NM!Issue
  BY <1>1 DEF NM!Issue, NM!Store
<1>2. CASE NM!Cleanup
  BY <1>2 DEF NM!Cleanup, NM!Restrict
<1>3. CASE \E n \in NM!Nonces : NM!Validate(n)
  <2>1. PICK n \in NM!Nonces : NM!Validate(n)
    BY <1>3
  <2>2. n \in DOMAIN issued /\ issued[n] \in NM!NonceEntry
    BY <2>1 DEF NM!Validate, NM!Answerable
  <2>3. issued'[n].used
    BY <2>1, <2>2 DEF NM!Validate, NM!Store, NM!NonceEntry
  <2> QED
    BY <2>1, <2>2, <2>3 DEF NM!Validate, NM!Store
<1>4. CASE UNCHANGED nonceVars
  BY <1>4 DEF nonceVars
<1> QED
  BY <1>1, <1>2, <1>3, <1>4

(* Attest changes what it is meant to change. *)
LEMMA AttestFields ==
  ASSUME SessionsOK, NEW s \in DOMAIN sessions, NEW a \in Signers, NEW n \in NM!Nonces
  PROVE  LET x == sessions[s]  y == MaybeAdvance(Attest(s, a, n))
         IN  /\ y.participants = x.participants /\ y.payload = x.payload
             /\ y.expiresAt = x.expiresAt
             /\ y.attested = x.attested \cup First(s, a)
             /\ y.committed = x.committed /\ y.shared = x.shared
             /\ y.attestations = Put(x.attestations, a, n)
             /\ y.status = IF x.status = "attesting" /\ Cardinality(y.attested) >= Threshold
                           THEN "commit" ELSE x.status
<1>1. sessions[s] \in Session
  BY DEF SessionsOK, WellFormed
<1>2. Attest(s, a, n) \in Session
  BY AttestWellFormed DEF WellFormed
<1>3. /\ Attest(s, a, n).participants = sessions[s].participants
      /\ Attest(s, a, n).payload = sessions[s].payload
      /\ Attest(s, a, n).expiresAt = sessions[s].expiresAt
      /\ Attest(s, a, n).attested = sessions[s].attested \cup First(s, a)
      /\ Attest(s, a, n).committed = sessions[s].committed
      /\ Attest(s, a, n).shared = sessions[s].shared
      /\ Attest(s, a, n).attestations = Put(sessions[s].attestations, a, n)
      /\ Attest(s, a, n).status = sessions[s].status
  BY <1>1 DEF Attest, Session
<1> DEFINE z == Attest(s, a, n)
<1> HIDE DEF z
<1>4. z \in Session
  BY <1>2 DEF z
<1>5. LET y == MaybeAdvance(z)
      IN  /\ y.participants = z.participants /\ y.payload = z.payload
          /\ y.expiresAt = z.expiresAt /\ y.attested = z.attested
          /\ y.committed = z.committed /\ y.shared = z.shared
          /\ y.attestations = z.attestations
          /\ y.status = IF z.status = "attesting" /\ Cardinality(z.attested) >= Threshold
                        THEN "commit" ELSE z.status
  BY <1>4 DEF MaybeAdvance, Session
<1> QED
  BY <1>3, <1>5 DEF z

(* An accepted attestation takes a nonce that backed none before. *)
LEMMA NoncesAccepted ==
  ASSUME TypeOK, NoncesOnce, NEW s \in SessionIDs, NEW a \in Signers, NEW doc \in Docs,
         NEW n \in NM!Nonces, SubmitAccepted(s, a, doc, n)
  PROVE  NoncesOnce'
<1>1. /\ s \in DOMAIN sessions
      /\ sessions' = [sessions EXCEPT ![s] = MaybeAdvance(Attest(s, a, n))]
  BY AcceptedUpdate
<1>2. n \in DOMAIN issued /\ ~issued[n].used /\ n \in 1 .. nonceCount /\ NM!Validate(n)
  BY DEF SubmitAccepted, Submit, NM!Validate, NM!Answerable, TypeOK, NM!TypeOK
<1>3. TableKeepsUsed /\ nonceCount' = nonceCount
  BY <1>2, TableOperations DEF NM!Validate
<1>4. issued'[n].used
  <2>1. issued[n] \in NM!NonceEntry
    BY <1>2 DEF TypeOK, NM!TypeOK
  <2> QED
    BY <1>2, <2>1 DEF NM!Validate, NM!Store, NM!NonceEntry
<1>5. DOMAIN sessions' = DOMAIN sessions
  BY <1>1
<1>6. \A t \in DOMAIN sessions : t # s => sessions'[t] = sessions[t]
  BY <1>1
<1>7. /\ DOMAIN sessions'[s].attestations = DOMAIN sessions[s].attestations \cup {a}
      /\ sessions'[s].attestations[a] = n
      /\ \A b \in DOMAIN sessions[s].attestations :
           b # a => sessions'[s].attestations[b] = sessions[s].attestations[b]
  <2>1. sessions'[s].attestations = Put(sessions[s].attestations, a, n)
    <3>1. MaybeAdvance(Attest(s, a, n)).attestations = Put(sessions[s].attestations, a, n)
      BY <1>1, AttestFields DEF TypeOK
    <3> QED
      BY <1>1, <3>1
  <2> QED
    BY <2>1 DEF Put
<1>8. \A t \in DOMAIN sessions : \A b \in DOMAIN sessions[t].attestations :
        sessions[t].attestations[b] # n
  BY <1>2 DEF NoncesOnce, RecordedNoncesSpent
<1>9. RecordedNoncesSpent'
  <2> SUFFICES ASSUME NEW t \in DOMAIN sessions', NEW b \in DOMAIN sessions'[t].attestations
               PROVE  LET m == sessions'[t].attestations[b]
                      IN  m \in 1 .. nonceCount' /\ (m \in DOMAIN issued' => issued'[m].used)
    BY DEF RecordedNoncesSpent
  <2>1. CASE t = s /\ b = a
    BY <1>2, <1>3, <1>4, <1>7, <2>1
  <2>2. CASE ~(t = s /\ b = a)
    <3>1. t \in DOMAIN sessions /\ b \in DOMAIN sessions[t].attestations
      BY <1>5, <1>6, <1>7, <2>2
    <3>2. sessions'[t].attestations[b] = sessions[t].attestations[b]
      BY <1>6, <1>7, <2>2, <3>1
    <3> DEFINE m == sessions[t].attestations[b]
    <3>3. m \in 1 .. nonceCount /\ (m \in DOMAIN issued => issued[m].used)
      BY <3>1 DEF NoncesOnce, RecordedNoncesSpent
    <3> HIDE DEF m
    <3>4. m \in 1 .. nonceCount' /\ (m \in DOMAIN issued' => issued'[m].used)
      BY <1>3, <3>3 DEF TableKeepsUsed
    <3> QED
      BY <3>2, <3>4 DEF m
  <2> QED
    BY <2>1, <2>2
<1>10. NoNonceReplay'
  <2> SUFFICES ASSUME NEW t \in DOMAIN sessions', NEW u \in DOMAIN sessions',
                      NEW b \in DOMAIN sessions'[t].attestations,
                      NEW c \in DOMAIN sessions'[u].attestations,
                      sessions'[t].attestations[b] = sessions'[u].attestations[c]
               PROVE  t = u /\ b = c
    BY DEF NoNonceReplay
  <2> DEFINE New(t1, b1) == t1 = s /\ b1 = a
  <2>1. ASSUME NEW t1 \in DOMAIN sessions', NEW b1 \in DOMAIN sessions'[t1].attestations,
               ~New(t1, b1)
        PROVE  /\ t1 \in DOMAIN sessions /\ b1 \in DOMAIN sessions[t1].attestations
               /\ sessions'[t1].attestations[b1] = sessions[t1].attestations[b1]
               /\ sessions'[t1].attestations[b1] # n
    <3>1. t1 \in DOMAIN sessions /\ b1 \in DOMAIN sessions[t1].attestations
      BY <1>5, <1>6, <1>7, <2>1
    <3>2. sessions'[t1].attestations[b1] = sessions[t1].attestations[b1]
      BY <1>6, <1>7, <2>1, <3>1
    <3> QED
      BY <1>8, <3>1, <3>2
  <2>2. CASE New(t, b) /\ New(u, c)
    BY <2>2
  <2>3. CASE New(t, b) /\ ~New(u, c)
    BY <1>7, <2>1, <2>3
  <2>4. CASE ~New(t, b) /\ New(u, c)
    BY <1>7, <2>1, <2>4
  <2>5. CASE ~New(t, b) /\ ~New(u, c)
    <3>1. sessions[t].attestations[b] = sessions[u].attestations[c]
      BY <2>1, <2>5
    <3> QED
      BY <2>1, <2>5, <3>1 DEF NoncesOnce, NoNonceReplay
  <2> QED
    BY <2>2, <2>3, <2>4, <2>5
<1> QED
  BY <1>9, <1>10 DEF NoncesOnce

-----------------------------------------------------------------------------
(* The session a call creates has an ID that no session has. *)
LEMMA NewID == ASSUME TypeOK PROVE sessionCount + 1 \notin DOMAIN sessions
BY ManagerConstants DEF TypeOK, SessionsOK

LEMMA NoncesStep ==
  ASSUME TypeOK, NoncesOnce, [Next]_vars PROVE NoncesOnce'
<1>1. ASSUME UNCHANGED <<sessions, nonceVars>> PROVE NoncesOnce'
  BY <1>1, NoncesFrame, TableOperations DEF RecordsNothing
<1>2. CASE CreateStep
  <2>1. CASE CreateNew
    <3>1. RecordsNothing
      BY <2>1, NewID DEF CreateNew, Put, NewSession, RecordsNothing
    <3> QED
      BY <2>1, <3>1, NoncesFrame, TableOperations DEF CreateNew
  <2>2. CASE ~CreateNew
    BY <1>1, <1>2, <2>2 DEF CreateStep, ReadRequired, RefuseRequired, ReadActive,
                            CreateFails, CreateReuses
  <2> QED
    BY <2>1, <2>2
<1>3. CASE \E req \in Requests : CreateSession(req)
  BY <1>1, <1>3 DEF CreateSession
<1>4. CASE \E c \in challenges : IssueNonce(c) \/ IssueFails(c)
  <2>1. ASSUME NEW c \in challenges, IssueNonce(c) PROVE NoncesOnce'
    BY <2>1, NoncesFrame, TableOperations DEF IssueNonce, RecordsNothing
  <2>2. ASSUME NEW c \in challenges, IssueFails(c) PROVE NoncesOnce'
    BY <2>2, <1>1 DEF IssueFails
  <2> QED
    BY <1>4, <2>1, <2>2
<1>5. ASSUME NEW s \in SessionIDs, SubmitLate(s) PROVE NoncesOnce'
  <2>1. RecordsNothing
    BY <1>5 DEF SubmitLate, RecordsNothing, TypeOK, SessionsOK, WellFormed, Session
  <2> QED
    BY <1>5, <2>1, NoncesFrame, TableOperations DEF SubmitLate
<1>6. ASSUME NEW s \in SessionIDs, NEW a \in Signers, IssueChallenge(s, a) PROVE NoncesOnce'
  BY <1>6, <1>1 DEF IssueChallenge
<1>7. ASSUME NEW s \in SessionIDs, NEW a \in Signers, RecordCommitment(s, a) PROVE NoncesOnce'
  <2>1. RecordsNothing
    BY <1>7 DEF RecordCommitment, RecordsNothing, TypeOK, SessionsOK, WellFormed, Session
  <2> QED
    BY <1>7, <2>1, NoncesFrame, TableOperations DEF RecordCommitment
<1>8. ASSUME NEW s \in SessionIDs, NEW a \in Signers, RecordShare(s, a) PROVE NoncesOnce'
  <2>1. RecordsNothing
    BY <1>8 DEF RecordShare, RecordsNothing, TypeOK, SessionsOK, WellFormed, Session
  <2> QED
    BY <1>8, <2>1, NoncesFrame, TableOperations DEF RecordShare
<1>9. ASSUME NEW s \in SessionIDs, NEW a \in Signers, NEW doc \in Docs, NEW n \in NM!Nonces,
             SubmitRejected(s, a, doc, n)
      PROVE  NoncesOnce'
  BY <1>9, NoncesFrame, TableOperations DEF SubmitRejected, Submit, RecordsNothing
<1>10. ASSUME NEW s \in SessionIDs, NEW a \in Signers, NEW doc \in Docs, NEW n \in NM!Nonces,
              SubmitAccepted(s, a, doc, n)
       PROVE  NoncesOnce'
  BY <1>10, NoncesAccepted
<1>11. CASE CleanupExpired
  <2>1. RecordsNothing
    BY <1>11 DEF CleanupExpired, Restrict, RecordsNothing
  <2> QED
    BY <1>11, <2>1, NoncesFrame, TableOperations DEF CleanupExpired
<1>12. CASE CleanupNonces
  BY <1>12, NoncesFrame, TableOperations DEF CleanupNonces, RecordsNothing
<1>13. CASE Tick
  BY <1>13, <1>1 DEF Tick, NM!Tick, nonceVars
<1>14. CASE PolicyChange
  BY <1>14, <1>1 DEF PolicyChange
<1>15. CASE UNCHANGED vars
  BY <1>15, <1>1 DEF vars
<1> QED
  BY <1>2, <1>3, <1>4, <1>5, <1>6, <1>7, <1>8, <1>9, <1>10, <1>11, <1>12, <1>13, <1>14, <1>15
     DEF Next

LEMMA AlwaysNoncesOnce == Spec => []NoncesOnce
<1>1. Init => NoncesOnce
  BY DEF Init, NoncesOnce, RecordedNoncesSpent, NoNonceReplay
<1>2. TypeOK /\ NoncesOnce /\ [Next]_vars => NoncesOnce'
  BY NoncesStep
<1> QED
  BY <1>1, <1>2, SessionTypeCorrect, PTL DEF Spec

(* No answered challenge backs two attestations, whichever sessions, signers *)
(* and interleavings, and whatever the two clean-ups have forgotten.         *)
THEOREM AttestationsNeverShareNonce == Spec => []NoNonceReplay
<1>1. NoncesOnce => NoNonceReplay
  BY DEF NoncesOnce
<1> QED
  BY <1>1, AlwaysNoncesOnce, PTL

-----------------------------------------------------------------------------
(* Lists of participants are finite, and their positions are numbers. *)
LEMMA FiniteSelection ==
  ASSUME NEW q \in Selections PROVE IsFiniteSet(DOMAIN q) /\ DOMAIN q \subseteq Nat
<1>1. CASE q \in {r.required : r \in Requests}
  <2>1. q \in Seq(Signers)
    BY <1>1, ManagerConstants
  <2>2. DOMAIN q = 1 .. Len(q) /\ Len(q) \in Nat
    BY <2>1
  <2> QED
    BY <2>2, FS_Interval
<1>2. CASE \E A \in SUBSET Signers : q \in SetToSeqs(A)
  <2>1. PICK A \in SUBSET Signers : q \in SetToSeqs(A)
    BY <1>2
  <2>2. Cardinality(A) \in Nat
    BY ManagerConstants, FS_Subset, FS_CardinalityType
  <2>3. DOMAIN q = 1 .. Cardinality(A)
    BY <2>1 DEF SetToSeqs
  <2> QED
    BY <2>2, <2>3, FS_Interval
<1> QED
  BY <1>1, <1>2 DEF Selections

(* Different marked positions hold different signers. *)
LEMMA CountsSigners ==
  ASSUME NEW p \in Selections, NEW P \in SUBSET DOMAIN p, \A i \in P : Unrepeated(p, i)
  PROVE  Cardinality({p[i] : i \in P}) = Cardinality(P)
<1> DEFINE T == {p[i] : i \in P}
           f == [i \in P |-> p[i]]
<1>1. IsFiniteSet(P)
  BY FiniteSelection, FS_Subset
<1>2. \A i, j \in P : p[i] = p[j] => i = j
  BY FiniteSelection DEF Unrepeated
<1>3. f \in Injection(P, T)
  BY <1>2 DEF Injection, IsInjective
<1>4. f \in Surjection(P, T)
  BY DEF Surjection
<1> QED
  BY <1>1, <1>3, <1>4, FS_Surjection

(* More marked positions are not fewer. *)
LEMMA CountGrows ==
  ASSUME NEW p \in Selections, NEW P \in SUBSET DOMAIN p, NEW Q \in SUBSET P
  PROVE  Cardinality(Q) <= Cardinality(P) /\ Cardinality(Q) \in Nat /\ Cardinality(P) \in Nat
BY FiniteSelection, FS_Subset, FS_CardinalityType

(* The first occurrence of a signer is no repetition. *)
LEMMA FirstUnrepeated ==
  ASSUME NEW s \in DOMAIN sessions, NEW a, NEW i \in First(s, a)
  PROVE  Unrepeated(sessions[s].participants, i)
BY DEF First, Unrepeated

(* A step that gives one session a backed value keeps all of them backed. *)
LEMMA BackedUpdate ==
  ASSUME SessionsBacked, NEW s \in DOMAIN sessions, NEW x, Backed(x),
         sessions' = [sessions EXCEPT ![s] = x]
  PROVE  SessionsBacked'
BY DEF SessionsBacked, Backed

LEMMA BackedSubset ==
  ASSUME SessionsBacked, DOMAIN sessions' \subseteq DOMAIN sessions,
         \A s \in DOMAIN sessions' : sessions'[s] = sessions[s]
  PROVE  SessionsBacked'
BY DEF SessionsBacked, Backed

LEMMA BackedLate ==
  ASSUME TypeOK, SessionsBacked, NEW s \in SessionIDs, SubmitLate(s) PROVE SessionsBacked'
<1>1. s \in DOMAIN sessions /\ sessions' = [sessions EXCEPT ![s] = [sessions[s] EXCEPT !.status = "expired"]]
  BY DEF SubmitLate
<1>2. sessions[s] \in Session /\ Backed(sessions[s])
  BY <1>1 DEF TypeOK, SessionsOK, WellFormed, SessionsBacked
<1>3. Backed([sessions[s] EXCEPT !.status = "expired"])
  BY <1>2 DEF Backed, Session
<1> QED
  BY <1>1, <1>3, BackedUpdate

(* Attesting adds a first occurrence; the quorum that a later phase rests on *)
(* only grows.                                                               *)
LEMMA BackedAccepted ==
  ASSUME TypeOK, SessionsBacked, NEW s \in SessionIDs, NEW a \in Signers, NEW doc \in Docs,
         NEW n \in NM!Nonces, SubmitAccepted(s, a, doc, n)
  PROVE  SessionsBacked'
<1> DEFINE x == sessions[s]
           y == MaybeAdvance(Attest(s, a, n))
<1>1. s \in DOMAIN sessions /\ sessions' = [sessions EXCEPT ![s] = y]
  BY AcceptedUpdate
<1>2. x \in Session /\ WellFormed(x) /\ Backed(x) /\ WellFormed(y)
  BY <1>1, AttestWellFormed DEF TypeOK, SessionsOK, WellFormed, SessionsBacked
<1>3. /\ y.participants = x.participants /\ y.attested = x.attested \cup First(s, a)
      /\ y.committed = x.committed /\ y.shared = x.shared
      /\ y.status = IF x.status = "attesting" /\ Cardinality(y.attested) >= Threshold
                    THEN "commit" ELSE x.status
  BY <1>1, AttestFields DEF TypeOK
<1>4. \A i \in First(s, a) : Unrepeated(x.participants, i)
  BY <1>1, FirstUnrepeated
<1> HIDE DEF x, y
<1>5. x.participants \in Selections /\ y.attested \subseteq DOMAIN x.participants
  BY <1>2, <1>3 DEF WellFormed, Session
<1>6. /\ Cardinality(x.attested) <= Cardinality(y.attested)
      /\ Cardinality(x.attested) \in Nat /\ Cardinality(y.attested) \in Nat
  BY <1>3, <1>5, CountGrows
<1>7. Backed(y)
  BY <1>2, <1>3, <1>4, <1>6, ManagerConstants DEF Backed
<1> QED
  BY <1>1, <1>7, BackedUpdate

LEMMA BackedCommitment ==
  ASSUME TypeOK, SessionsBacked, NEW s \in SessionIDs, NEW a \in Signers, RecordCommitment(s, a)
  PROVE  SessionsBacked'
<1> DEFINE x == sessions[s]
           c == x.committed \cup First(s, a)
           st == IF Cardinality(c) >= Threshold THEN "sign" ELSE x.status
           y == [x EXCEPT !.committed = c, !.status = st]
<1>1. s \in DOMAIN sessions /\ x.status = "commit" /\ First(s, a) \subseteq x.attested
  BY DEF RecordCommitment
<1>2. sessions' = [sessions EXCEPT ![s] = y]
  BY DEF RecordCommitment
<1>3. x \in Session /\ Backed(x)
  BY <1>1 DEF TypeOK, SessionsOK, WellFormed, SessionsBacked
<1> HIDE DEF x, c, st
<1>4. /\ y.participants = x.participants /\ y.attested = x.attested /\ y.shared = x.shared
      /\ y.committed = c /\ y.status = st
  BY <1>3 DEF Session
<1> HIDE DEF y
<1>5. Backed(y)
  BY <1>1, <1>3, <1>4 DEF Backed, c, st, x
<1> QED
  BY <1>1, <1>2, <1>5, BackedUpdate

LEMMA BackedShare ==
  ASSUME TypeOK, SessionsBacked, NEW s \in SessionIDs, NEW a \in Signers, RecordShare(s, a)
  PROVE  SessionsBacked'
<1> DEFINE x == sessions[s]
           c == x.shared \cup First(s, a)
           st == IF Cardinality(c) >= Threshold THEN "complete" ELSE x.status
           y == [x EXCEPT !.shared = c, !.status = st]
<1>1. s \in DOMAIN sessions /\ x.status = "sign" /\ First(s, a) \subseteq x.attested
  BY DEF RecordShare
<1>2. sessions' = [sessions EXCEPT ![s] = y]
  BY DEF RecordShare
<1>3. x \in Session /\ Backed(x)
  BY <1>1 DEF TypeOK, SessionsOK, WellFormed, SessionsBacked
<1> HIDE DEF x, c, st
<1>4. /\ y.participants = x.participants /\ y.attested = x.attested
      /\ y.committed = x.committed /\ y.shared = c /\ y.status = st
  BY <1>3 DEF Session
<1> HIDE DEF y
<1>5. Backed(y)
  BY <1>1, <1>3, <1>4 DEF Backed, c, st, x
<1> QED
  BY <1>1, <1>2, <1>5, BackedUpdate

LEMMA BackedStep ==
  ASSUME TypeOK, SessionsBacked, [Next]_vars PROVE SessionsBacked'
<1>1. ASSUME UNCHANGED sessions PROVE SessionsBacked'
  BY <1>1, BackedSubset
<1>2. CASE CreateStep
  <2>1. CASE CreateNew
    <3>1. Backed(NewSession)
      BY DEF NewSession, Backed
    <3> QED
      BY <2>1, <3>1 DEF CreateNew, Put, SessionsBacked, Backed
  <2>2. CASE ~CreateNew
    BY <1>1, <1>2, <2>2 DEF CreateStep, ReadRequired, RefuseRequired, ReadActive,
                            CreateFails, CreateReuses
  <2> QED
    BY <2>1, <2>2
<1>3. CASE \E req \in Requests : CreateSession(req)
  BY <1>1, <1>3 DEF CreateSession
<1>4. CASE \E c \in challenges : IssueNonce(c) \/ IssueFails(c)
  BY <1>1, <1>4 DEF IssueNonce, IssueFails
<1>5. ASSUME NEW s \in SessionIDs, SubmitLate(s) PROVE SessionsBacked'
  BY <1>5, BackedLate
<1>6. ASSUME NEW s \in SessionIDs, NEW a \in Signers, IssueChallenge(s, a) PROVE SessionsBacked'
  BY <1>6, <1>1 DEF IssueChallenge
<1>7. ASSUME NEW s \in SessionIDs, NEW a \in Signers, RecordCommitment(s, a) \/ RecordShare(s, a)
      PROVE  SessionsBacked'
  BY <1>7, BackedCommitment, BackedShare
<1>8. ASSUME NEW s \in SessionIDs, NEW a \in Signers, NEW doc \in Docs, NEW n \in NM!Nonces,
             SubmitRejected(s, a, doc, n) \/ SubmitAccepted(s, a, doc, n)
      PROVE  SessionsBacked'
  BY <1>8, <1>1, BackedAccepted DEF SubmitRejected
<1>9. CASE CleanupExpired
  BY <1>9, BackedSubset DEF CleanupExpired, Restrict
<1>10. CASE CleanupNonces \/ Tick \/ PolicyChange
  BY <1>10, <1>1 DEF CleanupNonces, Tick, PolicyChange
<1>11. CASE UNCHANGED vars
  BY <1>11, <1>1 DEF vars
<1> QED
  BY <1>2, <1>3, <1>4, <1>5, <1>6, <1>7, <1>8, <1>9, <1>10, <1>11 DEF Next

LEMMA AlwaysBacked == Spec => []SessionsBacked
<1>1. Init => SessionsBacked
  BY DEF Init, SessionsBacked
<1>2. TypeOK /\ SessionsBacked /\ [Next]_vars => SessionsBacked'
  BY BackedStep
<1> QED
  BY <1>1, <1>2, SessionTypeCorrect, PTL DEF Spec

(* No phase is entered, and no session completed, on the strength of fewer   *)
(* than Threshold different signers, even when a request names one twice.    *)
THEOREM EveryPhaseHasQuorum == Spec => []PhaseBackedByQuorum
<1>1. TypeOK /\ SessionsBacked => PhaseBackedByQuorum
  <2> SUFFICES ASSUME TypeOK, SessionsBacked, NEW s \in DOMAIN sessions
               PROVE  \A P \in SUBSET sessions[s].attested :
                        Cardinality(SignersAt(s, P)) = Cardinality(P)
    BY DEF PhaseBackedByQuorum, SessionsBacked, Backed
  <2>1. /\ sessions[s].participants \in Selections
        /\ sessions[s].attested \subseteq DOMAIN sessions[s].participants
    BY DEF TypeOK, SessionsOK, WellFormed, Session
  <2> QED
    BY <2>1, CountsSigners DEF SignersAt, SessionsBacked, Backed
<1> QED
  BY <1>1, AlwaysBacked, SessionTypeCorrect, PTL

-----------------------------------------------------------------------------
(* The payload index leads to every session that is not marked expired and   *)
(* to nothing else, so no two such sessions are for the same work.           *)
Indexed == LiveSessionsIndexed /\ PayloadIndexSound

(* A step that leaves the index, the sessions there are and what they are    *)
(* filed under as they were, and revives no session, keeps it.               *)
LEMMA IndexFrame ==
  ASSUME Indexed, UNCHANGED sessionsByPayload, DOMAIN sessions' = DOMAIN sessions,
         \A s \in DOMAIN sessions :
           /\ sessions'[s].payload = sessions[s].payload
           /\ sessions'[s].participants = sessions[s].participants
           /\ sessions[s].status = "expired" => sessions'[s].status = "expired"
  PROVE  Indexed'
<1>1. \A s \in DOMAIN sessions : KeyOf(s)' = KeyOf(s)
  BY DEF KeyOf
<1>2. LiveSessionsIndexed'
  BY <1>1 DEF Indexed, LiveSessionsIndexed
<1>3. PayloadIndexSound'
  BY <1>1 DEF Indexed, PayloadIndexSound
<1> QED
  BY <1>2, <1>3 DEF Indexed

(* A new session is filed under a key that led to no live session. *)
LEMMA IndexCreateNew == ASSUME TypeOK, Indexed, CreateNew PROVE Indexed'
<1>0. PICK t, K : t = sessionCount + 1 /\ K = CallKey
  OBVIOUS
<1>1. t \notin DOMAIN sessions
  BY <1>0, ManagerConstants DEF TypeOK, SessionsOK
<1>2. /\ DOMAIN sessions' = DOMAIN sessions \cup {t} /\ sessions'[t] = NewSession
      /\ \A s \in DOMAIN sessions : sessions'[s] = sessions[s]
  BY <1>0, <1>1 DEF CreateNew, Put
<1>3. /\ DOMAIN sessionsByPayload' = DOMAIN sessionsByPayload \cup {K}
      /\ sessionsByPayload'[K] = t
      /\ \A k \in DOMAIN sessionsByPayload : k # K => sessionsByPayload'[k] = sessionsByPayload[k]
  BY <1>0 DEF CreateNew, Put
<1>4. KeyOf(t)' = K
  BY <1>0, <1>2 DEF KeyOf, NewSession, CallKey
<1>5. \A s \in DOMAIN sessions : KeyOf(s)' = KeyOf(s)
  BY <1>2 DEF KeyOf
<1>6. \A s \in DOMAIN sessions : sessions[s].status # "expired" => KeyOf(s) # K
  BY <1>0 DEF CreateNew, Reusable, Indexed, LiveSessionsIndexed
<1>7. LiveSessionsIndexed'
  BY <1>2, <1>3, <1>4, <1>5, <1>6 DEF Indexed, LiveSessionsIndexed
<1>8. PayloadIndexSound'
  BY <1>2, <1>3, <1>4, <1>5 DEF Indexed, PayloadIndexSound
<1> QED
  BY <1>7, <1>8 DEF Indexed

(* CleanupExpired drops one key per session it removes; that is all of them, *)
(* since each session is filed under one key.                                *)
LEMMA IndexCleanup == ASSUME TypeOK, Indexed, CleanupExpired PROVE Indexed'
<1>1. PICK dropped \in SUBSET UNION {KeysOf(s) : s \in Overdue} :
        /\ \A s \in Overdue : KeysOf(s) # {} => \E k \in KeysOf(s) : KeysOf(s) \cap dropped = {k}
        /\ sessionsByPayload' = Restrict(sessionsByPayload, DOMAIN sessionsByPayload \ dropped)
  BY DEF CleanupExpired
<1>2. /\ DOMAIN sessions' = DOMAIN sessions \ Overdue
      /\ \A s \in DOMAIN sessions' : sessions'[s] = sessions[s] /\ KeyOf(s)' = KeyOf(s)
  BY DEF CleanupExpired, Restrict, KeyOf
<1>3. /\ DOMAIN sessionsByPayload' = DOMAIN sessionsByPayload \ dropped
      /\ \A k \in DOMAIN sessionsByPayload' : sessionsByPayload'[k] = sessionsByPayload[k]
  BY <1>1 DEF Restrict
<1>4. \A k \in DOMAIN sessionsByPayload : k \in dropped => sessionsByPayload[k] \in Overdue
  BY <1>1 DEF KeysOf
<1>5. \A k \in DOMAIN sessionsByPayload : sessionsByPayload[k] \in Overdue => k \in dropped
  <2> SUFFICES ASSUME NEW k \in DOMAIN sessionsByPayload, sessionsByPayload[k] \in Overdue
               PROVE  k \in dropped
    OBVIOUS
  <2> DEFINE s == sessionsByPayload[k]
  <2>1. k \in KeysOf(s) /\ s \in Overdue
    BY DEF KeysOf
  <2>2. PICK j \in KeysOf(s) : KeysOf(s) \cap dropped = {j}
    BY <1>1, <2>1
  <2>3. KeyOf(s) = j /\ KeyOf(s) = k
    BY <2>1, <2>2 DEF KeysOf, Indexed, PayloadIndexSound
  <2> QED
    BY <2>2, <2>3
<1>6. LiveSessionsIndexed'
  BY <1>2, <1>3, <1>4 DEF Indexed, LiveSessionsIndexed
<1>7. PayloadIndexSound'
  BY <1>2, <1>3, <1>5 DEF Indexed, PayloadIndexSound
<1> QED
  BY <1>6, <1>7 DEF Indexed

(* An accepted attestation moves a session on, under the same key. *)
LEMMA IndexAccepted ==
  ASSUME TypeOK, Indexed, NEW s \in SessionIDs, NEW a \in Signers, NEW doc \in Docs,
         NEW n \in NM!Nonces, SubmitAccepted(s, a, doc, n)
  PROVE  Indexed'
<1>1. /\ s \in DOMAIN sessions
      /\ sessions' = [sessions EXCEPT ![s] = MaybeAdvance(Attest(s, a, n))]
  BY AcceptedUpdate
<1> DEFINE x == Attest(s, a, n)
<1>2. /\ x \in Session /\ x.status = sessions[s].status /\ x.payload = sessions[s].payload
      /\ x.participants = sessions[s].participants
  <2>1. sessions[s] \in Session /\ x \in Session
    BY <1>1, AttestWellFormed DEF TypeOK, SessionsOK, WellFormed
  <2> QED
    BY <2>1 DEF Attest, Session
<1> HIDE DEF x
<1>3. /\ MaybeAdvance(x).payload = x.payload
      /\ MaybeAdvance(x).participants = x.participants
      /\ x.status = "expired" => MaybeAdvance(x).status = "expired"
  BY <1>2 DEF MaybeAdvance, Session
<1>4. sessions' = [sessions EXCEPT ![s] = MaybeAdvance(x)]
  BY <1>1 DEF x
<1> QED
  BY <1>1, <1>2, <1>3, <1>4, IndexFrame DEF SubmitAccepted, Submit, indexVars

LEMMA IndexStep ==
  ASSUME TypeOK, Indexed, [Next]_vars PROVE Indexed'
<1> USE DEF indexVars
<1>1. ASSUME UNCHANGED <<sessions, sessionsByPayload>> PROVE Indexed'
  BY <1>1, IndexFrame
<1>2. CASE CreateStep
  <2>1. CASE CreateNew
    BY <2>1, IndexCreateNew
  <2>2. CASE ~CreateNew
    BY <1>1, <1>2, <2>2 DEF CreateStep, ReadRequired, RefuseRequired, ReadActive,
                            CreateFails, CreateReuses
  <2> QED
    BY <2>1, <2>2
<1>3. CASE \E req \in Requests : CreateSession(req)
  BY <1>1, <1>3 DEF CreateSession
<1>4. CASE \E c \in challenges : IssueNonce(c) \/ IssueFails(c)
  BY <1>1, <1>4 DEF IssueNonce, IssueFails
<1>5. ASSUME NEW s \in SessionIDs, SubmitLate(s) PROVE Indexed'
  BY <1>5, IndexFrame DEF SubmitLate, TypeOK, SessionsOK, WellFormed, Session
<1>6. ASSUME NEW s \in SessionIDs, NEW a \in Signers, IssueChallenge(s, a) PROVE Indexed'
  BY <1>6, <1>1 DEF IssueChallenge
<1>7. ASSUME NEW s \in SessionIDs, NEW a \in Signers, RecordCommitment(s, a) PROVE Indexed'
  BY <1>7, IndexFrame DEF RecordCommitment, TypeOK, SessionsOK, WellFormed, Session
<1>8. ASSUME NEW s \in SessionIDs, NEW a \in Signers, RecordShare(s, a) PROVE Indexed'
  BY <1>8, IndexFrame DEF RecordShare, TypeOK, SessionsOK, WellFormed, Session
<1>9. ASSUME NEW s \in SessionIDs, NEW a \in Signers, NEW doc \in Docs, NEW n \in NM!Nonces,
             SubmitRejected(s, a, doc, n)
      PROVE  Indexed'
  BY <1>9, <1>1 DEF SubmitRejected, Submit
<1>10. ASSUME NEW s \in SessionIDs, NEW a \in Signers, NEW doc \in Docs, NEW n \in NM!Nonces,
              SubmitAccepted(s, a, doc, n)
       PROVE  Indexed'
  BY <1>10, IndexAccepted
<1>11. CASE CleanupExpired
  BY <1>11, IndexCleanup
<1>12. CASE CleanupNonces \/ Tick \/ PolicyChange
  BY <1>12, <1>1 DEF CleanupNonces, Tick, PolicyChange
<1>13. CASE UNCHANGED vars
  BY <1>13, <1>1 DEF vars
<1> QED
  BY <1>2, <1>3, <1>4, <1>5, <1>6, <1>7, <1>8, <1>9, <1>10, <1>11, <1>12, <1>13 DEF Next

LEMMA AlwaysIndexed == Spec => []Indexed
<1>1. Init => Indexed
  BY DEF Init, Indexed, LiveSessionsIndexed, PayloadIndexSound
<1>2. TypeOK /\ Indexed /\ [Next]_vars => Indexed'
  BY IndexStep
<1> QED
  BY <1>1, <1>2, SessionTypeCorrect, PTL DEF Spec

(* Every entry of the payload index leads to a session that exists and was   *)
(* filed under that key, after any number of clean-ups.                      *)
THEOREM PayloadIndexNeverDangles == Spec => []PayloadIndexSound
<1>1. Indexed => PayloadIndexSound
  BY DEF Indexed
<1> QED
  BY <1>1, AlwaysIndexed, PTL

(* README.md:53: there are never two sessions that are not marked expired    *)
(* for the same payload and the same signers, in whatever order they were    *)
(* selected, however CreateSession calls, clean-ups and expiries interleave. *)
THEOREM NoDuplicateLiveSessions == Spec => []OneLiveSessionPerPayload
<1>1. TypeOK /\ Indexed => OneLiveSessionPerPayload
  <2> SUFFICES ASSUME TypeOK, Indexed, NEW s \in DOMAIN sessions, NEW t \in DOMAIN sessions,
                      sessions[s].status # "expired", sessions[t].status # "expired",
                      sessions[s].payload = sessions[t].payload,
                      SameUpToOrder(sessions[s].participants, sessions[t].participants)
               PROVE  s = t
    BY DEF OneLiveSessionPerPayload
  <2>1. /\ sessions[s].payload \in Payloads
        /\ sessions[s].participants \in Selections /\ sessions[t].participants \in Selections
    BY DEF TypeOK, SessionsOK, WellFormed, Session
  <2>2. KeyOf(s) = KeyOf(t)
    BY <2>1, KeyIgnoresOrder DEF KeyOf
  <2> QED
    BY <2>2 DEF Indexed, LiveSessionsIndexed
<1> QED
  BY <1>1, AlwaysIndexed, SessionTypeCorrect, PTL

=============================================================================
