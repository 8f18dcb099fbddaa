------------------------- MODULE SessionPhaseProofs -------------------------
(***************************************************************************)
(* The session manager implements SigningSessions, its sessions go through *)
(* their phases in order, and a retried request finds its session; for any *)
(* requests, signers and bounds, and any payload key that ignores order,   *)
(* as the key of the code does.                                            *)
(***************************************************************************)
EXTENDS SessionSafetyProofs

(* What a step can do to the sessions. *)
LEMMA SessionSteps ==
  ASSUME [Next]_vars
  PROVE  \/ UNCHANGED <<sessions, sessionCount>>
         \/ CreateNew \/ CleanupExpired
         \/ \E s \in SessionIDs :
              \/ SubmitLate(s)
              \/ \E a \in Signers :
                   \/ RecordCommitment(s, a) \/ RecordShare(s, a)
                   \/ \E doc \in Docs, n \in NM!Nonces : SubmitAccepted(s, a, doc, n)
<1>1. CASE CreateStep
  BY <1>1 DEF CreateStep, ReadRequired, RefuseRequired, ReadActive, CreateFails, CreateReuses
<1>2. CASE \E req \in Requests : CreateSession(req)
  BY <1>2 DEF CreateSession
<1>3. CASE \E c \in challenges : IssueNonce(c) \/ IssueFails(c)
  BY <1>3 DEF IssueNonce, IssueFails
<1>4. CASE CleanupNonces \/ Tick \/ PolicyChange \/ UNCHANGED vars
  BY <1>4 DEF CleanupNonces, Tick, PolicyChange, vars
<1>5. ASSUME NEW s \in SessionIDs, NEW a \in Signers, IssueChallenge(s, a)
      PROVE  UNCHANGED <<sessions, sessionCount>>
  BY <1>5 DEF IssueChallenge
<1>6. ASSUME NEW s \in SessionIDs, NEW a \in Signers, NEW doc \in Docs, NEW n \in NM!Nonces,
             SubmitRejected(s, a, doc, n)
      PROVE  UNCHANGED <<sessions, sessionCount>>
  BY <1>6 DEF SubmitRejected, Submit
<1> QED
  BY <1>1, <1>2, <1>3, <1>4, <1>5, <1>6 DEF Next

(* Time does not go back. *)
LEMMA ClockForward == ASSUME TypeOK, [Next]_vars PROVE now <= now'
<1>1. now \in Nat
  BY ManagerConstants DEF TypeOK, NM!TypeOK
<1>2. ASSUME now' = now PROVE now <= now'
  BY <1>1, <1>2
<1>3. CASE CreateStep
  <2>1. UNCHANGED now
    BY <1>3 DEF CreateStep, ReadRequired, RefuseRequired, ReadActive, CreateFails,
                CreateReuses, CreateNew
  <2> QED
    BY <2>1, <1>2
<1>4. CASE \E req \in Requests : CreateSession(req)
  BY <1>2, <1>4 DEF CreateSession
<1>5. CASE \E c \in challenges : IssueNonce(c) \/ IssueFails(c)
  BY <1>2, <1>5 DEF IssueNonce, IssueFails, NM!Issue
<1>6. CASE CleanupExpired \/ CleanupNonces \/ PolicyChange \/ UNCHANGED vars
  BY <1>2, <1>6 DEF CleanupExpired, CleanupNonces, NM!Cleanup, PolicyChange, vars
<1>7. CASE Tick
  BY <1>1, <1>7 DEF Tick, NM!Tick
<1>8. ASSUME NEW s \in SessionIDs, SubmitLate(s) PROVE now <= now'
  BY <1>2, <1>8 DEF SubmitLate
<1>9. ASSUME NEW s \in SessionIDs, NEW a \in Signers,
             IssueChallenge(s, a) \/ RecordCommitment(s, a) \/ RecordShare(s, a)
      PROVE  now <= now'
  <2>1. UNCHANGED now
    BY <1>9 DEF IssueChallenge, RecordCommitment, RecordShare
  <2> QED
    BY <2>1, <1>2
<1>10. ASSUME NEW s \in SessionIDs, NEW a \in Signers, NEW doc \in Docs, NEW n \in NM!Nonces,
              SubmitRejected(s, a, doc, n) \/ SubmitAccepted(s, a, doc, n)
       PROVE  now <= now'
  BY <1>2, <1>10 DEF SubmitRejected, SubmitAccepted, Submit, NM!Validate
<1> QED
  BY <1>1, <1>2, <1>3, <1>4, <1>5, <1>6, <1>7, <1>8, <1>9, <1>10 DEF Next

-----------------------------------------------------------------------------
(* The value each operation gives a session. *)
LEMMA LateValue ==
  ASSUME TypeOK, NEW s \in SessionIDs, SubmitLate(s)
  PROVE  \E y : /\ s \in DOMAIN sessions /\ PastDeadline(s) /\ UNCHANGED <<now, sessionCount>>
                /\ sessions' = [sessions EXCEPT ![s] = y] /\ y.status = "expired"
                /\ y.participants = sessions[s].participants /\ y.payload = sessions[s].payload
                /\ y.attested = sessions[s].attested /\ y.committed = sessions[s].committed
                /\ y.shared = sessions[s].shared /\ y.expiresAt = sessions[s].expiresAt
<1> DEFINE x == sessions[s]
           y == [x EXCEPT !.status = "expired"]
<1>1. s \in DOMAIN sessions /\ sessions' = [sessions EXCEPT ![s] = y]
  BY DEF SubmitLate
<1>2. x \in Session
  BY <1>1 DEF TypeOK, SessionsOK, WellFormed
<1> HIDE DEF x
<1>3. /\ y.status = "expired" /\ y.participants = x.participants /\ y.payload = x.payload
      /\ y.attested = x.attested /\ y.committed = x.committed /\ y.shared = x.shared
      /\ y.expiresAt = x.expiresAt
  BY <1>2 DEF Session
<1> HIDE DEF y
<1> QED
  BY <1>1, <1>3 DEF SubmitLate, x

LEMMA CommitmentValue ==
  ASSUME TypeOK, NEW s \in SessionIDs, NEW a \in Signers, RecordCommitment(s, a)
  PROVE  \E y : /\ s \in DOMAIN sessions /\ sessions[s].status = "commit"
                /\ First(s, a) \subseteq sessions[s].attested /\ UNCHANGED <<now, sessionCount>>
                /\ sessions' = [sessions EXCEPT ![s] = y]
                /\ y.committed = sessions[s].committed \cup First(s, a)
                /\ y.status = IF Cardinality(y.committed) >= Threshold THEN "sign" ELSE "commit"
                /\ y.participants = sessions[s].participants /\ y.payload = sessions[s].payload
                /\ y.attested = sessions[s].attested /\ y.shared = sessions[s].shared
                /\ y.expiresAt = sessions[s].expiresAt
<1> DEFINE x == sessions[s]
           c == x.committed \cup First(s, a)
           st == IF Cardinality(c) >= Threshold THEN "sign" ELSE x.status
           y == [x EXCEPT !.committed = c, !.status = st]
<1>1. s \in DOMAIN sessions /\ x.status = "commit" /\ sessions' = [sessions EXCEPT ![s] = y]
  BY DEF RecordCommitment
<1>2. x \in Session
  BY <1>1 DEF TypeOK, SessionsOK, WellFormed
<1> HIDE DEF x
<1>3. /\ y.committed = c /\ y.status = st /\ y.participants = x.participants
      /\ y.payload = x.payload /\ y.attested = x.attested /\ y.shared = x.shared
      /\ y.expiresAt = x.expiresAt
  BY <1>2 DEF Session
<1> HIDE DEF y
<1> QED
  BY <1>1, <1>3 DEF RecordCommitment, x

LEMMA ShareValue ==
  ASSUME TypeOK, NEW s \in SessionIDs, NEW a \in Signers, RecordShare(s, a)
  PROVE  \E y : /\ s \in DOMAIN sessions /\ sessions[s].status = "sign"
                /\ First(s, a) \subseteq sessions[s].attested /\ UNCHANGED <<now, sessionCount>>
                /\ sessions' = [sessions EXCEPT ![s] = y]
                /\ y.shared = sessions[s].shared \cup First(s, a)
                /\ y.status = IF Cardinality(y.shared) >= Threshold THEN "complete" ELSE "sign"
                /\ y.participants = sessions[s].participants /\ y.payload = sessions[s].payload
                /\ y.attested = sessions[s].attested /\ y.committed = sessions[s].committed
                /\ y.expiresAt = sessions[s].expiresAt
<1> DEFINE x == sessions[s]
           c == x.shared \cup First(s, a)
           st == IF Cardinality(c) >= Threshold THEN "complete" ELSE x.status
           y == [x EXCEPT !.shared = c, !.status = st]
<1>1. s \in DOMAIN sessions /\ x.status = "sign" /\ sessions' = [sessions EXCEPT ![s] = y]
  BY DEF RecordShare
<1>2. x \in Session
  BY <1>1 DEF TypeOK, SessionsOK, WellFormed
<1> HIDE DEF x
<1>3. /\ y.shared = c /\ y.status = st /\ y.participants = x.participants
      /\ y.payload = x.payload /\ y.attested = x.attested /\ y.committed = x.committed
      /\ y.expiresAt = x.expiresAt
  BY <1>2 DEF Session
<1> HIDE DEF y
<1> QED
  BY <1>1, <1>3 DEF RecordShare, x

LEMMA AcceptedValue ==
  ASSUME TypeOK, NEW s \in SessionIDs, NEW a \in Signers, NEW doc \in Docs,
         NEW n \in NM!Nonces, SubmitAccepted(s, a, doc, n)
  PROVE  \E y : /\ s \in DOMAIN sessions /\ ~PastDeadline(s) /\ First(s, a) # {}
                /\ UNCHANGED <<now, sessionCount>>
                /\ sessions' = [sessions EXCEPT ![s] = y]
                /\ y.attested = sessions[s].attested \cup First(s, a)
                /\ y.status = IF sessions[s].status = "attesting"
                                   /\ Cardinality(y.attested) >= Threshold
                              THEN "commit" ELSE sessions[s].status
                /\ y.participants = sessions[s].participants /\ y.payload = sessions[s].payload
                /\ y.committed = sessions[s].committed /\ y.shared = sessions[s].shared
                /\ y.expiresAt = sessions[s].expiresAt
<1>1. s \in DOMAIN sessions /\ sessions' = [sessions EXCEPT ![s] = MaybeAdvance(Attest(s, a, n))]
  BY AcceptedUpdate
<1>2. ~PastDeadline(s) /\ First(s, a) # {} /\ UNCHANGED <<now, sessionCount>>
  BY DEF SubmitAccepted, Submit, NM!Validate
<1> WITNESS MaybeAdvance(Attest(s, a, n))
<1> QED
  BY <1>1, <1>2, AttestFields DEF TypeOK

-----------------------------------------------------------------------------
(* Nobody is not enough. *)
LEMMA NobodyIsNotEnough == \A P : P = {} => Cardinality(P) = 0 /\ Cardinality(P) < Threshold
<1>1. Cardinality({}) = 0
  BY FS_EmptySet
<1> QED
  BY <1>1, ManagerConstants

(* A step that changes one session as its phase allows keeps them waiting. *)
LEMMA WaitUpdate ==
  ASSUME SessionsWait, NEW s \in DOMAIN sessions, NEW y, Waiting(y), UNCHANGED now,
         sessions' = [sessions EXCEPT ![s] = y], y.expiresAt = sessions[s].expiresAt,
         y.status = "expired" => PastDeadline(s)
  PROVE  SessionsWait'
<1> SUFFICES ASSUME NEW t \in DOMAIN sessions
             PROVE  /\ Waiting(sessions'[t])
                    /\ sessions'[t].status = "expired" => now > sessions'[t].expiresAt
  BY DEF SessionsWait, PastDeadline, Waiting
<1>1. CASE t = s
  BY <1>1 DEF PastDeadline
<1>2. CASE t # s
  BY <1>2 DEF SessionsWait, PastDeadline
<1> QED
  BY <1>1, <1>2

(* So does a step that takes sessions away, and the passing of time. *)
LEMMA WaitSubset ==
  ASSUME TypeOK, SessionsWait, [Next]_vars, DOMAIN sessions' \subseteq DOMAIN sessions,
         \A s \in DOMAIN sessions' : sessions'[s] = sessions[s]
  PROVE  SessionsWait'
<1> SUFFICES ASSUME NEW t \in DOMAIN sessions'
             PROVE  /\ Waiting(sessions[t])
                    /\ sessions[t].status = "expired" => now' > sessions[t].expiresAt
  BY DEF SessionsWait, PastDeadline, Waiting
<1>1. now \in Nat /\ now' \in Nat /\ sessions[t].expiresAt \in Nat
  BY TypeStep, ManagerConstants DEF TypeOK, NM!TypeOK, SessionsOK, WellFormed, Session
<1>2. Waiting(sessions[t]) /\ (sessions[t].status = "expired" => now > sessions[t].expiresAt)
  BY DEF SessionsWait, PastDeadline
<1> QED
  BY <1>1, <1>2, ClockForward

LEMMA WaitCreate == ASSUME TypeOK, SessionsWait, CreateNew PROVE SessionsWait'
<1>1. Waiting(NewSession) /\ NewSession.status # "expired"
  BY FS_EmptySet, ManagerConstants DEF NewSession, Waiting
<1>2. /\ \A t \in DOMAIN sessions' : sessions'[t] = IF t = sessionCount + 1 THEN NewSession
                                                     ELSE sessions[t]
      /\ DOMAIN sessions' = DOMAIN sessions \cup {sessionCount + 1} /\ now' = now
  BY DEF CreateNew, Put
<1> HIDE DEF NewSession
<1> QED
  BY <1>1, <1>2 DEF SessionsWait, PastDeadline, Waiting

LEMMA WaitCommitment ==
  ASSUME TypeOK, SessionsWait, NEW s \in SessionIDs, NEW a \in Signers, RecordCommitment(s, a)
  PROVE  SessionsWait'
<1>1. PICK y : /\ s \in DOMAIN sessions /\ sessions[s].status = "commit"
               /\ UNCHANGED now /\ sessions' = [sessions EXCEPT ![s] = y]
               /\ y.committed = sessions[s].committed \cup First(s, a)
               /\ y.status = IF Cardinality(y.committed) >= Threshold THEN "sign" ELSE "commit"
               /\ y.shared = sessions[s].shared /\ y.expiresAt = sessions[s].expiresAt
  BY CommitmentValue
<1>2. y.shared = {} /\ Cardinality(y.shared) < Threshold
  BY <1>1, NobodyIsNotEnough DEF SessionsWait, Waiting
<1>3. Cardinality(y.committed) \in Nat
  BY <1>1, FirstIsPosition, FiniteSelection, FS_Subset, FS_CardinalityType
     DEF TypeOK, SessionsOK, WellFormed, Session
<1>4. Waiting(y)
  BY <1>1, <1>2, <1>3, ManagerConstants DEF Waiting
<1> QED
  BY <1>1, <1>4, WaitUpdate

LEMMA WaitShare ==
  ASSUME TypeOK, SessionsWait, NEW s \in SessionIDs, NEW a \in Signers, RecordShare(s, a)
  PROVE  SessionsWait'
<1>1. PICK y : /\ s \in DOMAIN sessions
               /\ UNCHANGED now /\ sessions' = [sessions EXCEPT ![s] = y]
               /\ y.shared = sessions[s].shared \cup First(s, a)
               /\ y.status = IF Cardinality(y.shared) >= Threshold THEN "complete" ELSE "sign"
               /\ y.expiresAt = sessions[s].expiresAt
  BY ShareValue
<1>2. Cardinality(y.shared) \in Nat
  BY <1>1, FirstIsPosition, FiniteSelection, FS_Subset, FS_CardinalityType
     DEF TypeOK, SessionsOK, WellFormed, Session
<1>3. Waiting(y)
  BY <1>1, <1>2, ManagerConstants DEF Waiting
<1> QED
  BY <1>1, <1>3, WaitUpdate

LEMMA WaitAccepted ==
  ASSUME TypeOK, SessionsWait, NEW s \in SessionIDs, NEW a \in Signers, NEW doc \in Docs,
         NEW n \in NM!Nonces, SubmitAccepted(s, a, doc, n)
  PROVE  SessionsWait'
<1>1. PICK y : /\ s \in DOMAIN sessions
               /\ UNCHANGED now /\ sessions' = [sessions EXCEPT ![s] = y]
               /\ y.attested = sessions[s].attested \cup First(s, a)
               /\ y.status = IF sessions[s].status = "attesting"
                                   /\ Cardinality(y.attested) >= Threshold
                              THEN "commit" ELSE sessions[s].status
               /\ y.committed = sessions[s].committed /\ y.shared = sessions[s].shared
               /\ y.expiresAt = sessions[s].expiresAt
  BY AcceptedValue
<1>2. Waiting(sessions[s]) /\ (sessions[s].status = "expired" => PastDeadline(s))
  BY <1>1 DEF SessionsWait
<1>3. Cardinality(y.attested) \in Nat
  BY <1>1, FirstIsPosition, FiniteSelection, FS_Subset, FS_CardinalityType
     DEF TypeOK, SessionsOK, WellFormed, Session
<1>4. Waiting(y)
  BY <1>1, <1>2, <1>3, NobodyIsNotEnough, ManagerConstants DEF Waiting
<1> QED
  BY <1>1, <1>2, <1>4, WaitUpdate

LEMMA WaitStep == ASSUME TypeOK, SessionsWait, [Next]_vars PROVE SessionsWait'
<1>1. CASE UNCHANGED <<sessions, sessionCount>>
  BY <1>1, WaitSubset
<1>2. CASE CreateNew
  BY <1>2, WaitCreate
<1>3. CASE CleanupExpired
  BY <1>3, WaitSubset DEF CleanupExpired, Restrict
<1>4. ASSUME NEW s \in SessionIDs, SubmitLate(s) PROVE SessionsWait'
  <2>1. PICK y : /\ s \in DOMAIN sessions /\ PastDeadline(s) /\ UNCHANGED now
                 /\ sessions' = [sessions EXCEPT ![s] = y]
                 /\ y.status = "expired" /\ y.expiresAt = sessions[s].expiresAt
    BY <1>4, LateValue
  <2>2. Waiting(y)
    BY <2>1 DEF Waiting
  <2> QED
    BY <2>1, <2>2, WaitUpdate
<1> QED
  BY <1>1, <1>2, <1>3, <1>4, SessionSteps, WaitCommitment, WaitShare, WaitAccepted

(* A session stays in a phase only as long as it has to, and is marked       *)
(* expired only once it is.                                                  *)
LEMMA SessionsAlwaysWait == Spec => []SessionsWait
<1>1. Init => SessionsWait
  BY DEF Init, SessionsWait
<1>2. TypeOK /\ SessionsWait /\ [Next]_vars => SessionsWait'
  BY WaitStep
<1> QED
  BY <1>1, <1>2, SessionTypeCorrect, PTL DEF Spec

-----------------------------------------------------------------------------
(* The sessions as SigningSessions sees them. *)
LEMMA MarkMembers ==
  ASSUME NEW s \in DOMAIN sessions, NEW a, First(s, a) # {}, NEW P
  PROVE  Members(sessions[s], P \cup First(s, a)) = Members(sessions[s], P) \cup {a}
BY DEF Members, First

(* Marked positions of a session are as many as the signers they stand for. *)
LEMMA CountMembers ==
  ASSUME TypeOK, SessionsBacked, NEW s \in DOMAIN sessions, NEW a,
         NEW P \in SUBSET sessions[s].attested
  PROVE  /\ Cardinality(Members(sessions[s], P \cup First(s, a))) = Cardinality(P \cup First(s, a))
         /\ Cardinality(P \cup First(s, a)) \in Nat
<1> DEFINE p == sessions[s].participants
           Q == P \cup First(s, a)
<1>1. p \in Selections /\ Q \subseteq DOMAIN p
  BY FirstIsPosition DEF TypeOK, SessionsOK, WellFormed, Session
<1>2. \A i \in Q : Unrepeated(p, i)
  BY FirstUnrepeated DEF SessionsBacked, Backed
<1>3. Cardinality(Q) \in Nat
  BY <1>1, FiniteSelection, FS_Subset, FS_CardinalityType
<1>4. Cardinality({p[i] : i \in Q}) = Cardinality(Q)
  BY <1>1, <1>2, CountsSigners
<1> QED
  BY <1>3, <1>4 DEF Members

(* The table after a step that gives one session another value. *)
LEMMA TableUpdate ==
  ASSUME NEW s \in DOMAIN sessions, NEW y, sessions' = [sessions EXCEPT ![s] = y]
  PROVE  /\ Table' = [Table EXCEPT ![s] = Promise(y)]
         /\ s \in DOMAIN Table /\ Table[s] = Promise(sessions[s])
<1>1. /\ Table = [t \in DOMAIN sessions |-> Promise(sessions[t])]
      /\ Table' = [t \in DOMAIN sessions' |-> Promise(sessions'[t])]
  BY DEF Table, Promise, Members
<1>2. DOMAIN sessions' = DOMAIN sessions
      /\ \A t \in DOMAIN sessions : sessions'[t] = IF t = s THEN y ELSE sessions[t]
  OBVIOUS
<1> QED
  BY <1>1, <1>2

(* The table after a session is added to it. *)
LEMMA TableAdd ==
  ASSUME NEW s, NEW y,
         sessions' = [t \in DOMAIN sessions \cup {s} |-> IF t = s THEN y ELSE sessions[t]]
  PROVE  Table' = [t \in DOMAIN Table \cup {s} |-> IF t = s THEN Promise(y) ELSE Table[t]]
<1>1. DOMAIN sessions' = DOMAIN sessions \cup {s} /\ DOMAIN Table = DOMAIN sessions
  BY DEF Table
<1>2. \A t \in DOMAIN sessions' : sessions'[t] = IF t = s THEN y ELSE sessions[t]
  OBVIOUS
<1>3. Table' = [t \in DOMAIN sessions' |-> Promise(sessions'[t])]
  BY DEF Table, Promise, Members
<1>4. \A t \in DOMAIN sessions' : t # s => Promise(sessions'[t]) = Table[t]
  BY <1>1, <1>2 DEF Table
<1>5. \A t \in DOMAIN sessions' : Promise(sessions'[t]) = IF t = s THEN Promise(y) ELSE Table[t]
  BY <1>2, <1>4
<1> QED
  BY <1>1, <1>3, <1>5

(* The members counted are those of the standard module. *)
LEMMA SameCount == \A P : Signing!Cardinality(P) = Cardinality(P)
BY DEF Signing!Cardinality, Cardinality

(* What is promised of a session is its six fields. *)
Fields == {"payload", "phase", "team", "attested", "committed", "shared"}

LEMMA PromiseIs ==
  ASSUME NEW y, NEW q, q \in [Fields -> {q[f] : f \in Fields}],
         \A f \in Fields : q[f] = Promise(y)[f]
  PROVE  Promise(y) = q
<1>1. DOMAIN Promise(y) = Fields
  BY DEF Promise, Fields
<1> QED
  BY <1>1 DEF Promise, Fields

(* Each operation as a step of SigningSessions. *)
LEMMA OpensSession ==
  ASSUME TypeOK, CreateNew
  PROVE  \E s \in SessionIDs, payload \in Payloads, team \in SUBSET Signers :
           Signing!Open(s, payload, team)
<1> DEFINE s == sessionCount + 1
           team == Members(NewSession, DOMAIN Participants)
<1>1. s \in SessionIDs /\ s \notin 1 .. sessionCount /\ 1 .. sessionCount' = (1 .. sessionCount) \cup {s}
  BY ManagerConstants DEF CreateNew, TypeOK, SessionsOK, SessionIDs
<1>2. call.req.payload \in Payloads /\ Participants \in Selections
  BY CallFacts DEF CreateNew, Selected
<1>3. \A i \in DOMAIN Participants : Participants[i] \in Signers
  <2>1. CASE Participants \in {r.required : r \in Requests}
    <3>1. Participants \in Seq(Signers)
      BY <2>1, ManagerConstants
    <3> QED
      BY <3>1
  <2>2. CASE \E A \in SUBSET Signers : Participants \in SetToSeqs(A)
    BY <2>2 DEF SetToSeqs
  <2> QED
    BY <1>2, <2>1, <2>2 DEF Selections
<1>4. team \in SUBSET Signers
  BY <1>3 DEF Members, NewSession
<1>5. Promise(NewSession) = [payload |-> call.req.payload, team |-> team, phase |-> "attesting",
                             attested |-> {}, committed |-> {}, shared |-> {}]
  BY DEF Promise, Members, NewSession
<1>6. Table' = [t \in DOMAIN Table \cup {s} |-> IF t = s THEN Promise(NewSession) ELSE Table[t]]
  <2>1. sessions' = [t \in DOMAIN sessions \cup {s} |-> IF t = s THEN NewSession ELSE sessions[t]]
    BY DEF CreateNew, Put
  <2> QED
    BY <2>1, TableAdd
<1>7. Signing!Open(s, call.req.payload, team)
  BY <1>1, <1>5, <1>6 DEF Signing!Open
<1> QED
  BY <1>1, <1>2, <1>4, <1>7

LEMMA ExpiresSession ==
  ASSUME TypeOK, NEW s \in SessionIDs, SubmitLate(s)
  PROVE  s \in DOMAIN Table /\ Signing!Expire(s)
<1>1. PICK y : /\ s \in DOMAIN sessions /\ UNCHANGED sessionCount
               /\ sessions' = [sessions EXCEPT ![s] = y] /\ y.status = "expired"
               /\ y.participants = sessions[s].participants /\ y.payload = sessions[s].payload
               /\ y.attested = sessions[s].attested /\ y.committed = sessions[s].committed
               /\ y.shared = sessions[s].shared
  BY LateValue
<1>2. Promise(y) = [Promise(sessions[s]) EXCEPT !.phase = "expired"]
  <2>1. \A P : Members(y, P) = Members(sessions[s], P)
    BY <1>1 DEF Members
  <2> QED
    BY <1>1, <2>1 DEF Promise
<1>3. Table' = [Table EXCEPT ![s] = Promise(y)] /\ s \in DOMAIN Table /\ Table[s] = Promise(sessions[s])
  BY <1>1, TableUpdate
<1> QED
  BY <1>1, <1>2, <1>3 DEF Signing!Expire

LEMMA AttestsSession ==
  ASSUME TypeOK, SessionsBacked, SessionsWait, NEW s \in SessionIDs, NEW a \in Signers,
         NEW doc \in Docs, NEW n \in NM!Nonces, SubmitAccepted(s, a, doc, n)
  PROVE  s \in DOMAIN Table /\ Signing!Attest(s, a)
<1> DEFINE x == sessions[s]
<1>1. PICK y : /\ s \in DOMAIN sessions /\ ~PastDeadline(s) /\ First(s, a) # {}
               /\ UNCHANGED sessionCount /\ sessions' = [sessions EXCEPT ![s] = y]
               /\ y.attested = x.attested \cup First(s, a)
               /\ y.status = IF x.status = "attesting" /\ Cardinality(y.attested) >= Threshold
                              THEN "commit" ELSE x.status
               /\ y.participants = x.participants /\ y.payload = x.payload
               /\ y.committed = x.committed /\ y.shared = x.shared
  BY AcceptedValue
<1>2. x.status # "expired"
  BY <1>1 DEF SessionsWait
<1>3. a \in Members(x, DOMAIN x.participants)
  BY <1>1 DEF First, Members
<1> DEFINE done == Members(x, x.attested) \cup {a}
<1>4. /\ Members(y, y.attested) = done /\ Members(y, y.committed) = Members(x, x.committed)
      /\ Members(y, y.shared) = Members(x, x.shared)
      /\ Members(y, DOMAIN y.participants) = Members(x, DOMAIN x.participants)
  <2>1. Members(x, y.attested) = done
    BY <1>1, MarkMembers
  <2> QED
    BY <1>1, <2>1 DEF Members
<1>5. Cardinality(done) = Cardinality(y.attested)
  <2>1. Members(x, y.attested) = done
    BY <1>1, MarkMembers
  <2> QED
    BY <1>1, <2>1, CountMembers
<1> HIDE DEF x, done
<1>6. y.status = IF x.status = "attesting" /\ Signing!Enough(done) THEN "commit" ELSE x.status
  BY <1>1, <1>5, SameCount DEF Signing!Enough, x
<1>7. Promise(y) = [Promise(x) EXCEPT !.attested = done, !.phase = y.status]
  <2> DEFINE q == [Promise(x) EXCEPT !.attested = done, !.phase = y.status]
  <2>1. /\ q \in [Fields -> {q[f] : f \in Fields}] /\ q.attested = done /\ q.phase = y.status
        /\ \A f \in Fields \ {"attested", "phase"} : q[f] = Promise(x)[f]
    BY DEF Promise, Fields
  <2> HIDE DEF q
  <2>2. /\ Promise(y).attested = done /\ Promise(y).phase = y.status
        /\ \A f \in Fields \ {"attested", "phase"} : Promise(y)[f] = Promise(x)[f]
    BY <1>1, <1>4 DEF Promise, Fields
  <2>3. \A f \in Fields : q[f] = Promise(y)[f]
    BY <2>1, <2>2 DEF Fields
  <2> QED
    <3>1. Promise(y) = q
      BY <2>1, <2>3, PromiseIs
    <3> QED
      BY <3>1 DEF q
<1>8. Table' = [Table EXCEPT ![s] = Promise(y)] /\ s \in DOMAIN Table /\ Table[s] = Promise(x)
  BY <1>1, TableUpdate DEF x
<1>9. /\ Promise(x).phase = x.status /\ Promise(x).attested = Members(x, x.attested)
      /\ Promise(x).team = Members(x, DOMAIN x.participants)
  BY DEF Promise
<1> QED
  BY <1>1, <1>2, <1>3, <1>6, <1>7, <1>8, <1>9 DEF Signing!Attest, done

LEMMA CommitsSession ==
  ASSUME TypeOK, SessionsBacked, NEW s \in SessionIDs, NEW a \in Signers,
         RecordCommitment(s, a), First(s, a) # {}
  PROVE  s \in DOMAIN Table /\ Signing!Commit(s, a)
<1> DEFINE x == sessions[s]
<1>1. PICK y : /\ s \in DOMAIN sessions /\ x.status = "commit" /\ First(s, a) \subseteq x.attested
               /\ UNCHANGED sessionCount /\ sessions' = [sessions EXCEPT ![s] = y]
               /\ y.committed = x.committed \cup First(s, a)
               /\ y.status = IF Cardinality(y.committed) >= Threshold THEN "sign" ELSE "commit"
               /\ y.participants = x.participants /\ y.payload = x.payload
               /\ y.attested = x.attested /\ y.shared = x.shared
  BY CommitmentValue
<1>2. a \in Members(x, x.attested)
  BY <1>1 DEF First, Members
<1> DEFINE done == Members(x, x.committed) \cup {a}
<1>3. Members(x, y.committed) = done
  BY <1>1, MarkMembers
<1>4. /\ Members(y, y.committed) = done /\ Members(y, y.attested) = Members(x, x.attested)
      /\ Members(y, y.shared) = Members(x, x.shared)
      /\ Members(y, DOMAIN y.participants) = Members(x, DOMAIN x.participants)
  BY <1>1, <1>3 DEF Members
<1>5. Cardinality(done) = Cardinality(y.committed)
  <2>1. x.committed \subseteq x.attested
    BY <1>1 DEF SessionsBacked, Backed
  <2>2. Cardinality(Members(x, x.committed \cup First(s, a))) = Cardinality(x.committed \cup First(s, a))
    BY <1>1, <2>1, CountMembers
  <2> QED
    BY <1>1, <1>3, <2>2
<1> HIDE DEF x, done
<1>6. y.status = IF Signing!Enough(done) THEN "sign" ELSE "commit"
  BY <1>1, <1>5, SameCount DEF Signing!Enough, x
<1>7. Promise(y) = [Promise(x) EXCEPT !.committed = done, !.phase = y.status]
  <2> DEFINE q == [Promise(x) EXCEPT !.committed = done, !.phase = y.status]
  <2>1. /\ q \in [Fields -> {q[f] : f \in Fields}] /\ q.committed = done /\ q.phase = y.status
        /\ \A f \in Fields \ {"committed", "phase"} : q[f] = Promise(x)[f]
    BY DEF Promise, Fields
  <2> HIDE DEF q
  <2>2. /\ Promise(y).committed = done /\ Promise(y).phase = y.status
        /\ \A f \in Fields \ {"committed", "phase"} : Promise(y)[f] = Promise(x)[f]
    BY <1>1, <1>4 DEF Promise, Fields
  <2>3. \A f \in Fields : q[f] = Promise(y)[f]
    BY <2>1, <2>2 DEF Fields
  <2> QED
    <3>1. Promise(y) = q
      BY <2>1, <2>3, PromiseIs
    <3> QED
      BY <3>1 DEF q
<1>8. Table' = [Table EXCEPT ![s] = Promise(y)] /\ s \in DOMAIN Table /\ Table[s] = Promise(x)
  BY <1>1, TableUpdate DEF x
<1>9. /\ Promise(x).phase = x.status /\ Promise(x).attested = Members(x, x.attested)
      /\ Promise(x).committed = Members(x, x.committed)
  BY DEF Promise
<1> QED
  BY <1>1, <1>2, <1>6, <1>7, <1>8, <1>9 DEF Signing!Commit, done

LEMMA SharesSession ==
  ASSUME TypeOK, SessionsBacked, NEW s \in SessionIDs, NEW a \in Signers,
         RecordShare(s, a), First(s, a) # {}
  PROVE  s \in DOMAIN Table /\ Signing!Share(s, a)
<1> DEFINE x == sessions[s]
<1>1. PICK y : /\ s \in DOMAIN sessions /\ x.status = "sign" /\ First(s, a) \subseteq x.attested
               /\ UNCHANGED sessionCount /\ sessions' = [sessions EXCEPT ![s] = y]
               /\ y.shared = x.shared \cup First(s, a)
               /\ y.status = IF Cardinality(y.shared) >= Threshold THEN "complete" ELSE "sign"
               /\ y.participants = x.participants /\ y.payload = x.payload
               /\ y.attested = x.attested /\ y.committed = x.committed
  BY ShareValue
<1>2. a \in Members(x, x.attested)
  BY <1>1 DEF First, Members
<1> DEFINE done == Members(x, x.shared) \cup {a}
<1>3. Members(x, y.shared) = done
  BY <1>1, MarkMembers
<1>4. /\ Members(y, y.shared) = done /\ Members(y, y.attested) = Members(x, x.attested)
      /\ Members(y, y.committed) = Members(x, x.committed)
      /\ Members(y, DOMAIN y.participants) = Members(x, DOMAIN x.participants)
  BY <1>1, <1>3 DEF Members
<1>5. Cardinality(done) = Cardinality(y.shared)
  <2>1. x.shared \subseteq x.attested
    BY <1>1 DEF SessionsBacked, Backed
  <2>2. Cardinality(Members(x, x.shared \cup First(s, a))) = Cardinality(x.shared \cup First(s, a))
    BY <1>1, <2>1, CountMembers
  <2> QED
    BY <1>1, <1>3, <2>2
<1> HIDE DEF x, done
<1>6. y.status = IF Signing!Enough(done) THEN "complete" ELSE "sign"
  BY <1>1, <1>5, SameCount DEF Signing!Enough, x
<1>7. Promise(y) = [Promise(x) EXCEPT !.shared = done, !.phase = y.status]
  <2> DEFINE q == [Promise(x) EXCEPT !.shared = done, !.phase = y.status]
  <2>1. /\ q \in [Fields -> {q[f] : f \in Fields}] /\ q.shared = done /\ q.phase = y.status
        /\ \A f \in Fields \ {"shared", "phase"} : q[f] = Promise(x)[f]
    BY DEF Promise, Fields
  <2> HIDE DEF q
  <2>2. /\ Promise(y).shared = done /\ Promise(y).phase = y.status
        /\ \A f \in Fields \ {"shared", "phase"} : Promise(y)[f] = Promise(x)[f]
    BY <1>1, <1>4 DEF Promise, Fields
  <2>3. \A f \in Fields : q[f] = Promise(y)[f]
    BY <2>1, <2>2 DEF Fields
  <2> QED
    <3>1. Promise(y) = q
      BY <2>1, <2>3, PromiseIs
    <3> QED
      BY <3>1 DEF q
<1>8. Table' = [Table EXCEPT ![s] = Promise(y)] /\ s \in DOMAIN Table /\ Table[s] = Promise(x)
  BY <1>1, TableUpdate DEF x
<1>9. /\ Promise(x).phase = x.status /\ Promise(x).attested = Members(x, x.attested)
      /\ Promise(x).shared = Members(x, x.shared)
  BY DEF Promise
<1> QED
  BY <1>1, <1>2, <1>6, <1>7, <1>8, <1>9 DEF Signing!Share, done

(* A message of a non-participant changes nothing, since the phase has gone  *)
(* on as soon as it could.                                                   *)
LEMMA StrangersMoveNothing ==
  ASSUME TypeOK, SessionsWait, NEW s \in SessionIDs, NEW a \in Signers, First(s, a) = {},
         RecordCommitment(s, a) \/ RecordShare(s, a)
  PROVE  UNCHANGED Signing!vars
<1>1. PICK y : /\ s \in DOMAIN sessions /\ UNCHANGED sessionCount
               /\ sessions' = [sessions EXCEPT ![s] = y]
               /\ y.status = sessions[s].status /\ y.participants = sessions[s].participants
               /\ y.payload = sessions[s].payload /\ y.attested = sessions[s].attested
               /\ y.committed = sessions[s].committed /\ y.shared = sessions[s].shared
  <2>1. CASE RecordCommitment(s, a)
    <3>1. PICK y : /\ s \in DOMAIN sessions /\ sessions[s].status = "commit"
                   /\ First(s, a) \subseteq sessions[s].attested /\ UNCHANGED <<now, sessionCount>>
                   /\ sessions' = [sessions EXCEPT ![s] = y]
                   /\ y.committed = sessions[s].committed \cup First(s, a)
                   /\ y.status = IF Cardinality(y.committed) >= Threshold THEN "sign" ELSE "commit"
                   /\ y.participants = sessions[s].participants /\ y.payload = sessions[s].payload
                   /\ y.attested = sessions[s].attested /\ y.shared = sessions[s].shared
                   /\ y.expiresAt = sessions[s].expiresAt
      BY <2>1, CommitmentValue
    <3>2. y.committed = sessions[s].committed
      BY <3>1
    <3>3. Cardinality(sessions[s].committed) < Threshold
      BY <3>1 DEF SessionsWait, Waiting
    <3>4. Cardinality(sessions[s].committed) \in Nat
      BY <3>1, FiniteSelection, FS_Subset, FS_CardinalityType
         DEF TypeOK, SessionsOK, WellFormed, Session
    <3>5. y.status = sessions[s].status
      BY <3>1, <3>2, <3>3, <3>4, ManagerConstants
    <3> QED
      BY <3>1, <3>2, <3>5
  <2>2. CASE RecordShare(s, a)
    <3>1. PICK y : /\ s \in DOMAIN sessions /\ sessions[s].status = "sign"
                   /\ First(s, a) \subseteq sessions[s].attested /\ UNCHANGED <<now, sessionCount>>
                   /\ sessions' = [sessions EXCEPT ![s] = y]
                   /\ y.shared = sessions[s].shared \cup First(s, a)
                   /\ y.status = IF Cardinality(y.shared) >= Threshold THEN "complete" ELSE "sign"
                   /\ y.participants = sessions[s].participants /\ y.payload = sessions[s].payload
                   /\ y.attested = sessions[s].attested /\ y.committed = sessions[s].committed
                   /\ y.expiresAt = sessions[s].expiresAt
      BY <2>2, ShareValue
    <3>2. y.shared = sessions[s].shared
      BY <3>1
    <3>3. Cardinality(sessions[s].shared) < Threshold
      BY <3>1 DEF SessionsWait, Waiting
    <3>4. Cardinality(sessions[s].shared) \in Nat
      BY <3>1, FiniteSelection, FS_Subset, FS_CardinalityType
         DEF TypeOK, SessionsOK, WellFormed, Session
    <3>5. y.status = sessions[s].status
      BY <3>1, <3>2, <3>3, <3>4, ManagerConstants
    <3> QED
      BY <3>1, <3>2, <3>5
  <2> QED
    BY <2>1, <2>2
<1>2. Promise(y) = Promise(sessions[s])
  BY <1>1 DEF Promise, Members
<1>3. Table' = [Table EXCEPT ![s] = Promise(y)] /\ Table[s] = Promise(sessions[s])
  BY <1>1, TableUpdate
<1>4. Table' = Table
  BY <1>2, <1>3 DEF Table
<1> QED
  BY <1>1, <1>4 DEF Signing!vars

LEMMA RemovesSessions ==
  ASSUME TypeOK, CleanupExpired
  PROVE  \E gone \in SUBSET DOMAIN Table : Signing!Remove(gone)
<1>1. sessions' = [s \in DOMAIN sessions \ Overdue |-> sessions[s]] /\ UNCHANGED sessionCount
  BY DEF CleanupExpired, Restrict
<1>2. Table' = [s \in DOMAIN Table \ Overdue |-> Table[s]]
  BY <1>1 DEF Table, Promise, Members
<1>3. Overdue \subseteq DOMAIN Table
  BY DEF Overdue, Table
<1> QED
  BY <1>1, <1>2, <1>3 DEF Signing!Remove

LEMMA SigningStep ==
  ASSUME TypeOK, SessionsBacked, SessionsWait, [Next]_vars PROVE [Signing!Next]_Signing!vars
<1>1. CASE UNCHANGED <<sessions, sessionCount>>
  BY <1>1 DEF Signing!vars, Table, Promise, Members
<1>2. CASE CreateNew
  BY <1>2, OpensSession DEF Signing!Next
<1>3. CASE CleanupExpired
  BY <1>3, RemovesSessions DEF Signing!Next
<1>4. ASSUME NEW s \in SessionIDs, SubmitLate(s) PROVE Signing!Next
  BY <1>4, ExpiresSession DEF Signing!Next
<1>5. ASSUME NEW s \in SessionIDs, NEW a \in Signers, RecordCommitment(s, a) \/ RecordShare(s, a)
      PROVE  [Signing!Next]_Signing!vars
  BY <1>5, CommitsSession, SharesSession, StrangersMoveNothing DEF Signing!Next
<1>6. ASSUME NEW s \in SessionIDs, NEW a \in Signers, NEW doc \in Docs, NEW n \in NM!Nonces,
             SubmitAccepted(s, a, doc, n)
      PROVE  Signing!Next
  BY <1>6, AttestsSession DEF Signing!Next
<1> QED
  BY <1>1, <1>2, <1>3, <1>4, <1>5, <1>6, SessionSteps

(* The session manager does what SigningSessions promises, for any threshold *)
(* and any requests: every handler is one step of the promise or none.       *)
THEOREM ManagerKeepsPromise == Spec => ImplementsSigningSessions
<1>1. Init => Signing!Init
  BY DEF Init, Signing!Init, Table
<1>2. TypeOK /\ SessionsBacked /\ SessionsWait /\ [Next]_vars => [Signing!Next]_Signing!vars
  BY SigningStep
<1> QED
  BY <1>1, <1>2, SessionTypeCorrect, AlwaysBacked, SessionsAlwaysWait, PTL
     DEF Spec, ImplementsSigningSessions, Signing!Spec

-----------------------------------------------------------------------------
(* A session that changes its phase takes the next one, or expires. *)
LEMMA PhaseStep == ASSUME TypeOK, [Next]_vars PROVE OnePhaseOn
<1>1. ASSUME NEW s \in DOMAIN sessions, NEW y, sessions' = [sessions EXCEPT ![s] = y],
             \/ y.status = sessions[s].status
             \/ <<sessions[s].status, y.status>> \in NextStatus
             \/ y.status = "expired" /\ PastDeadline(s)
      PROVE  OnePhaseOn
  BY <1>1 DEF OnePhaseOn
<1>2. ASSUME \A s \in DOMAIN sessions \cap DOMAIN sessions' : sessions'[s] = sessions[s]
      PROVE  OnePhaseOn
  BY <1>2 DEF OnePhaseOn
<1>3. CASE UNCHANGED <<sessions, sessionCount>>
  BY <1>2, <1>3
<1>4. CASE CreateNew
  BY <1>2, <1>4, NewID DEF CreateNew, Put
<1>5. CASE CleanupExpired
  BY <1>2, <1>5 DEF CleanupExpired, Restrict
<1>6. ASSUME NEW s \in SessionIDs, SubmitLate(s) PROVE OnePhaseOn
  BY <1>1, <1>6, LateValue
<1>7. ASSUME NEW s \in SessionIDs, NEW a \in Signers, RecordCommitment(s, a) PROVE OnePhaseOn
  BY <1>1, <1>7, CommitmentValue DEF NextStatus
<1>8. ASSUME NEW s \in SessionIDs, NEW a \in Signers, RecordShare(s, a) PROVE OnePhaseOn
  BY <1>1, <1>8, ShareValue DEF NextStatus
<1>9. ASSUME NEW s \in SessionIDs, NEW a \in Signers, NEW doc \in Docs, NEW n \in NM!Nonces,
             SubmitAccepted(s, a, doc, n)
      PROVE  OnePhaseOn
  BY <1>1, <1>9, AcceptedValue DEF NextStatus
<1> QED
  BY <1>3, <1>4, <1>5, <1>6, <1>7, <1>8, <1>9, SessionSteps

(* No step skips a phase or goes back, and only a session past its deadline  *)
(* is marked expired, which it stays.                                        *)
THEOREM PhasesComeInOrder == Spec => PhasesInOrder
<1>1. TypeOK /\ [Next]_vars => OnePhaseOn
  BY PhaseStep
<1> QED
  BY <1>1, SessionTypeCorrect, PTL DEF Spec, PhasesInOrder

-----------------------------------------------------------------------------
(* What the idempotency check found stays true until the call ends. *)
LEMMA CallStep == ASSUME TypeOK, CallIsNew, [Next]_vars PROVE CallIsNew'
<1>1. ASSUME Free' PROVE CallIsNew'
  BY <1>1 DEF CallIsNew
<1>2. ASSUME UNCHANGED <<sessions, requestIndex, call>> PROVE CallIsNew'
  BY <1>2 DEF CallIsNew, Free, Known
<1>3. CASE CreateStep
  <2>1. CASE ReadRequired \/ ReadActive
    <3>1. ~Free /\ call \in Call /\ UNCHANGED <<sessions, requestIndex>>
      BY <2>1 DEF ReadRequired, ReadActive, TypeOK, Free, indexVars
    <3>2. call'.req = call.req
      BY <2>1, <3>1 DEF ReadRequired, ReadActive, Call
    <3> QED
      BY <3>1, <3>2 DEF CallIsNew, Known
  <2>2. CASE RefuseRequired \/ CreateFails \/ CreateReuses \/ CreateNew
    BY <1>1, <2>2 DEF RefuseRequired, CreateFails, CreateReuses, CreateNew, Free
  <2> QED
    BY <1>3, <2>1, <2>2 DEF CreateStep
<1>4. ASSUME NEW req \in Requests, CreateSession(req) PROVE CallIsNew'
  <2>1. ~Known(req) /\ call'.req = req /\ UNCHANGED <<sessions, requestIndex>>
    BY <1>4 DEF CreateSession, indexVars
  <2> QED
    BY <2>1 DEF CallIsNew, Known
<1>5. ASSUME Free, UNCHANGED call PROVE CallIsNew'
  BY <1>1, <1>5 DEF Free
<1>6. CASE \E c \in challenges : IssueNonce(c) \/ IssueFails(c)
  BY <1>2, <1>6 DEF IssueNonce, IssueFails, indexVars
<1>7. CASE CleanupNonces \/ Tick \/ PolicyChange \/ UNCHANGED vars
  BY <1>2, <1>7 DEF CleanupNonces, Tick, PolicyChange, vars, indexVars
<1>8. CASE CleanupExpired
  BY <1>5, <1>8 DEF CleanupExpired
<1>9. ASSUME NEW s \in SessionIDs, SubmitLate(s) PROVE CallIsNew'
  BY <1>5, <1>9 DEF SubmitLate
<1>10. ASSUME NEW s \in SessionIDs, NEW a \in Signers,
              IssueChallenge(s, a) \/ RecordCommitment(s, a) \/ RecordShare(s, a)
       PROVE  CallIsNew'
  <2>1. Free /\ UNCHANGED call
    BY <1>10 DEF IssueChallenge, RecordCommitment, RecordShare
  <2> QED
    BY <1>5, <2>1
<1>11. ASSUME NEW s \in SessionIDs, NEW a \in Signers, NEW doc \in Docs, NEW n \in NM!Nonces,
              SubmitRejected(s, a, doc, n) \/ SubmitAccepted(s, a, doc, n)
       PROVE  CallIsNew'
  BY <1>5, <1>11 DEF SubmitRejected, SubmitAccepted, Submit
<1> QED
  BY <1>3, <1>4, <1>6, <1>7, <1>8, <1>9, <1>10, <1>11 DEF Next

(* Only the end of a call writes the request index. *)
LEMMA IndexUnwritten == ASSUME [Next]_vars, ~CreateNew, ~CreateReuses PROVE UNCHANGED requestIndex
<1> USE DEF indexVars
<1>1. CASE CreateStep
  BY <1>1 DEF CreateStep, ReadRequired, RefuseRequired, ReadActive, CreateFails
<1>2. CASE \E req \in Requests : CreateSession(req)
  BY <1>2 DEF CreateSession
<1>3. CASE \E c \in challenges : IssueNonce(c) \/ IssueFails(c)
  BY <1>3 DEF IssueNonce, IssueFails
<1>4. CASE CleanupExpired \/ CleanupNonces \/ Tick \/ PolicyChange \/ UNCHANGED vars
  BY <1>4 DEF CleanupExpired, CleanupNonces, Tick, PolicyChange, vars
<1>5. ASSUME NEW s \in SessionIDs, SubmitLate(s) PROVE UNCHANGED requestIndex
  BY <1>5 DEF SubmitLate
<1>6. ASSUME NEW s \in SessionIDs, NEW a \in Signers,
             IssueChallenge(s, a) \/ RecordCommitment(s, a) \/ RecordShare(s, a)
      PROVE  UNCHANGED requestIndex
  BY <1>6 DEF IssueChallenge, RecordCommitment, RecordShare
<1>7. ASSUME NEW s \in SessionIDs, NEW a \in Signers, NEW doc \in Docs, NEW n \in NM!Nonces,
             SubmitRejected(s, a, doc, n) \/ SubmitAccepted(s, a, doc, n)
      PROVE  UNCHANGED requestIndex
  BY <1>7 DEF SubmitRejected, SubmitAccepted, Submit
<1> QED
  BY <1>1, <1>2, <1>3, <1>4, <1>5, <1>6, <1>7 DEF Next

(* It is written under an ID that led to no session, and a new session's ID  *)
(* is not yet in it.                                                         *)
LEMMA AnswerStep == ASSUME TypeOK, CallIsNew, [Next]_vars PROVE SameAnswer
<1>1. CASE ~CreateNew /\ ~CreateReuses
  BY <1>1, IndexUnwritten DEF SameAnswer
<1>2. ASSUME NEW v, ~Free, requestIndex' = Put(requestIndex, call.req.id, v),
             DOMAIN sessions' \subseteq DOMAIN sessions \cup {sessionCount + 1}
      PROVE  SameAnswer
  <2>1. \A r \in DOMAIN requestIndex : requestIndex[r] # sessionCount + 1
    BY ManagerConstants DEF TypeOK, IndexesOK, SessionsOK
  <2>2. \A r \in DOMAIN requestIndex : requestIndex[r] \in DOMAIN sessions' => r # call.req.id
    BY <1>2, <2>1 DEF CallIsNew, Known
  <2> QED
    BY <1>2, <2>2 DEF SameAnswer, Put
<1>3. CASE CreateReuses \/ CreateNew
  BY <1>2, <1>3 DEF CreateReuses, CreateNew, Selected, Put
<1> QED
  BY <1>1, <1>3

LEMMA CallAlwaysNew == Spec => []CallIsNew
<1>1. Init => CallIsNew
  BY DEF Init, CallIsNew, Free
<1>2. TypeOK /\ CallIsNew /\ [Next]_vars => CallIsNew'
  BY CallStep
<1> QED
  BY <1>1, <1>2, SessionTypeCorrect, PTL DEF Spec

(* A request that is retried finds the session it was answered with as long  *)
(* as there is one, whatever other calls, expiries and clean-ups come        *)
(* between.                                                                  *)
THEOREM RetriesFindSession == Spec => RetryFindsSession
<1>1. TypeOK /\ CallIsNew /\ [Next]_vars => SameAnswer
  BY AnswerStep
<1> QED
  BY <1>1, SessionTypeCorrect, CallAlwaysNew, PTL DEF Spec, RetryFindsSession

-----------------------------------------------------------------------------
(* What the payload key must tell apart for a request to get its own work:   *)
(* the payload, and the signers up to their order.  PayloadKeys shows that   *)
(* the key of the code does not for every choice of signer IDs.              *)
KeyTellsApart ==
  \A p1, p2 \in Payloads : \A q1, q2 \in Selections :
    PayloadKey(p1, q1) = PayloadKey(p2, q2) => p1 = p2 /\ SameUpToOrder(q1, q2)

(* A session's work is what it was created for. *)
LEMMA WorkStays ==
  ASSUME TypeOK, [Next]_vars, ~CreateNew
  PROVE  \A s \in DOMAIN sessions' :
           /\ s \in DOMAIN sessions
           /\ sessions'[s].payload = sessions[s].payload
           /\ sessions'[s].participants = sessions[s].participants
<1>1. ASSUME NEW s \in DOMAIN sessions, NEW y, sessions' = [sessions EXCEPT ![s] = y],
             y.payload = sessions[s].payload, y.participants = sessions[s].participants
      PROVE  \A t \in DOMAIN sessions' :
               /\ t \in DOMAIN sessions
               /\ sessions'[t].payload = sessions[t].payload
               /\ sessions'[t].participants = sessions[t].participants
  BY <1>1
<1>2. CASE UNCHANGED <<sessions, sessionCount>>
  BY <1>2
<1>3. CASE CleanupExpired
  BY <1>3 DEF CleanupExpired, Restrict
<1> QED
  BY <1>1, <1>2, <1>3, SessionSteps, LateValue, CommitmentValue, ShareValue, AcceptedValue

LEMMA ServedStep ==
  ASSUME KeyTellsApart, TypeOK, Indexed, RequestServed, [Next]_vars PROVE RequestServed'
<1> DEFINE Serves(s, r) == \E req \in Requests :
             /\ req.id = r /\ req.payload = s.payload
             /\ req.required # <<>> => SameUpToOrder(req.required, s.participants)
<1>1. CASE CreateNew
  <2> DEFINE t == sessionCount + 1
  <2>1. /\ DOMAIN sessions' = DOMAIN sessions \cup {t} /\ sessions'[t] = NewSession
        /\ \A s \in DOMAIN sessions : s # t => sessions'[s] = sessions[s]
        /\ requestIndex' = Put(requestIndex, call.req.id, t) /\ ~Free
    BY <1>1 DEF CreateNew, Put, Selected
  <2>2. \A r \in DOMAIN requestIndex : requestIndex[r] # t
    BY ManagerConstants DEF TypeOK, IndexesOK, SessionsOK
  <2>3. Serves(NewSession, call.req.id)
    <3>1. call.req \in Requests
      BY <2>1 DEF TypeOK, Free, Call
    <3>2. \A q : SameUpToOrder(q, q)
      BY DEF SameUpToOrder
    <3> QED
      BY <3>1, <3>2 DEF NewSession, Participants, Required
  <2>4. \A r \in DOMAIN requestIndex : requestIndex[r] \in DOMAIN sessions =>
          Serves(sessions[requestIndex[r]], r)
    BY DEF RequestServed
  <2> HIDE DEF t, Serves, NewSession
  <2>5. \A r \in DOMAIN requestIndex' : requestIndex'[r] \in DOMAIN sessions' =>
          Serves(sessions'[requestIndex'[r]], r)
    BY <2>1, <2>2, <2>3, <2>4 DEF Put
  <2> QED
    BY <2>5 DEF RequestServed, Serves, SameUpToOrder
<1>2. CASE CreateReuses
  <2> DEFINE t == sessionsByPayload[CallKey]
  <2>1. /\ t \in DOMAIN sessions /\ KeyOf(t) = CallKey /\ UNCHANGED sessions
        /\ requestIndex' = Put(requestIndex, call.req.id, t) /\ ~Free
    BY <1>2 DEF CreateReuses, Selected, Reusable, Indexed, PayloadIndexSound
  <2>2. /\ sessions[t].payload = call.req.payload
        /\ SameUpToOrder(Participants, sessions[t].participants)
    <3>1. call.req.payload \in Payloads /\ Participants \in Selections
      BY <2>1, CallFacts
    <3>2. sessions[t].payload \in Payloads /\ sessions[t].participants \in Selections
      BY <2>1 DEF TypeOK, SessionsOK, WellFormed, Session
    <3>3. PayloadKey(call.req.payload, Participants)
            = PayloadKey(sessions[t].payload, sessions[t].participants)
      BY <2>1 DEF KeyOf, CallKey
    <3> QED
      BY <3>1, <3>2, <3>3 DEF KeyTellsApart
  <2>3. Serves(sessions[t], call.req.id)
    <3>1. call.req \in Requests
      BY <2>1 DEF TypeOK, Free, Call
    <3> QED
      BY <2>2, <3>1 DEF Participants, Required
  <2>4. \A r \in DOMAIN requestIndex : requestIndex[r] \in DOMAIN sessions =>
          Serves(sessions[requestIndex[r]], r)
    BY DEF RequestServed
  <2> HIDE DEF t, Serves
  <2>5. \A r \in DOMAIN requestIndex' : requestIndex'[r] \in DOMAIN sessions' =>
          Serves(sessions'[requestIndex'[r]], r)
    BY <2>1, <2>3, <2>4 DEF Put
  <2> QED
    BY <2>5 DEF RequestServed, Serves, SameUpToOrder
<1>3. CASE ~CreateNew /\ ~CreateReuses
  <2>1. UNCHANGED requestIndex
    BY <1>3, IndexUnwritten
  <2>2. \A s \in DOMAIN sessions' :
          /\ s \in DOMAIN sessions
          /\ sessions'[s].payload = sessions[s].payload
          /\ sessions'[s].participants = sessions[s].participants
    BY <1>3, WorkStays
  <2> QED
    BY <2>1, <2>2 DEF RequestServed, SameUpToOrder
<1> QED
  BY <1>1, <1>2, <1>3

(* If the key tells the work apart, a request ID always leads to a session   *)
(* for the payload and the signers that a request of that ID asked for.      *)
THEOREM EveryRequestServed == ASSUME KeyTellsApart PROVE Spec => []RequestServed
<1>1. Init => RequestServed
  BY DEF Init, RequestServed
<1>2. TypeOK /\ Indexed /\ RequestServed /\ [Next]_vars => RequestServed'
  BY ServedStep
<1> QED
  BY <1>1, <1>2, SessionTypeCorrect, AlwaysIndexed, PTL DEF Spec

-----------------------------------------------------------------------------
(* The key of the code, PayloadKeys.                                          *)
CONSTANT IDBytes(_)  \* a signer ID, as the sequence of its bytes

(* The public keys of signers are no part of a payload key. *)
Code == INSTANCE StateRootProofs WITH Name <- IDBytes, Key <- IDBytes

KeyOfCode ==
  \A p \in Payloads : \A q \in Selections : PayloadKey(p, q) = Code!ComputePayloadKey(p, q)

DifferentIDs ==
  /\ \A a \in Signers : IDBytes(a) \in Seq(Nat)
  /\ \A a, b \in Signers : IDBytes(a) = IDBytes(b) => a = b

IDsOfLength(L) == DifferentIDs /\ \A a \in Signers : Len(IDBytes(a)) = L

LEMMA SameOrderInCode == \A q1, q2 : SameUpToOrder(q1, q2) <=> Code!SameUpToOrder(Signers, q1, q2)
BY DEF SameUpToOrder, Code!SameUpToOrder, Code!Places, Cardinality, Code!Cardinality

LEMMA SelectionsAreLists == ASSUME NEW q \in Selections PROVE q \in Seq(Signers)
<1>1. CASE q \in {r.required : r \in Requests}
  BY <1>1, ManagerConstants
<1>2. CASE q \in UNION {SetToSeqs(A) : A \in SUBSET Signers}
  <2>1. PICK A \in SUBSET Signers : q \in SetToSeqs(A)
    BY <1>2
  <2>2. PICK n \in Nat : q \in [1 .. n -> A]
    BY <2>1, FS_Subset, FS_CardinalityType, ManagerConstants DEF SetToSeqs
  <2> QED
    BY <2>2
<1> QED
  BY <1>1, <1>2 DEF Selections

(* manager.go:200, "deterministic": whatever the IDs, as long as none is used  *)
(* twice, the key of the code keeps the assumption KeyIgnoresOrder, so that    *)
(* what is proved of the manager holds with that key.                         *)
THEOREM KeyOfCodeIgnoresOrder ==
  ASSUME DifferentIDs, NEW p \in Payloads, NEW q1 \in Selections, NEW q2 \in Selections,
         SameUpToOrder(q1, q2)
  PROVE  Code!ComputePayloadKey(p, q1) = Code!ComputePayloadKey(p, q2)
<1>1. Code!Named(Signers) /\ Code!NamesApart(Signers)
  BY DEF DifferentIDs, Code!Named, Code!NamesApart
<1>2. q1 \in Seq(Signers) /\ q2 \in Seq(Signers)
  BY SelectionsAreLists
<1>3. Code!SameUpToOrder(Signers, q1, q2)
  BY SameOrderInCode
<1> QED
  BY <1>1, <1>2, <1>3, Code!PayloadKeyIgnoresOrder

LEMMA KeyOfCodeTellsApart ==
  ASSUME KeyOfCode, NEW L \in Nat, L # 0, IDsOfLength(L) PROVE KeyTellsApart
<1> SUFFICES ASSUME NEW p1 \in Payloads, NEW p2 \in Payloads,
                    NEW q1 \in Selections, NEW q2 \in Selections,
                    PayloadKey(p1, q1) = PayloadKey(p2, q2)
             PROVE  p1 = p2 /\ SameUpToOrder(q1, q2)
  BY DEF KeyTellsApart
<1>1. Code!ComputePayloadKey(p1, q1) = Code!ComputePayloadKey(p2, q2)
  BY DEF KeyOfCode
<1>2. Code!Named(Signers) /\ Code!NamesApart(Signers) /\ Code!OfOneLength(Signers, L)
  BY DEF IDsOfLength, DifferentIDs, Code!Named, Code!NamesApart, Code!OfOneLength
<1>3. q1 \in Seq(Signers) /\ q2 \in Seq(Signers)
  BY SelectionsAreLists
<1>4. p1 = p2 /\ Code!SameUpToOrder(Signers, q1, q2)
  BY <1>1, <1>2, <1>3, Code!PayloadKeyNamesWork
<1> QED
  BY <1>4, SameOrderInCode

(* manager.go:200-214: with the key of the code and signer IDs of one length,  *)
(* of which none is used twice, a request ID always leads to a session for    *)
(* the payload and the signers that a request of that ID asked for.           *)
THEOREM EqualLengthIDsAreServed ==
  ASSUME KeyOfCode, NEW L \in Nat, L # 0, IDsOfLength(L) PROVE Spec => []RequestServed
BY KeyOfCodeTellsApart, EveryRequestServed

(* The invariant as a whole. *)
THEOREM InvariantHolds == Spec => []Inductive
<1>1. /\ TypeOK /\ NoncesOnce /\ Indexed /\ SessionsBacked /\ SessionsWait /\ CallIsNew
      => Inductive
  BY DEF Inductive, NoncesOnce, Indexed
<1> QED
  BY <1>1, SessionTypeCorrect, AlwaysNoncesOnce, AlwaysIndexed, AlwaysBacked,
     SessionsAlwaysWait, CallAlwaysNew, PTL

=============================================================================
