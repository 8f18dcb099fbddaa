-------------------------- MODULE SessionInvariants --------------------------
(***************************************************************************)
(* Why the properties of SessionManager hold: the invariant its operations *)
(* preserve one by one, in named parts.                                    *)
(***************************************************************************)
EXTENDS SessionManager

(* The nonce of a recorded attestation was drawn, and is marked used for as *)
(* long as the nonce table remembers it: it will not be accepted again.     *)
RecordedNoncesSpent ==
  \A s \in DOMAIN sessions : \A a \in DOMAIN sessions[s].attestations :
    LET n == sessions[s].attestations[a]
    IN  n \in 1 .. nonceCount /\ (n \in DOMAIN issued => issued[n].used)

(* The payload index leads to every session that is not marked expired. *)
LiveSessionsIndexed ==
  \A s \in DOMAIN sessions : sessions[s].status # "expired" =>
    KeyOf(s) \in DOMAIN sessionsByPayload /\ sessionsByPayload[KeyOf(s)] = s

(* Only first occurrences of a signer are ever marked, and only attested     *)
(* ones commit or share, so a count of flags is a count of signers; and the  *)
(* phase a session is in is backed by such a count.                          *)
Unrepeated(p, i) == \A j \in DOMAIN p : j < i => p[j] # p[i]

Backed(x) ==
  /\ \A i \in x.attested : Unrepeated(x.participants, i)
  /\ x.committed \cup x.shared \subseteq x.attested
  /\ x.status \in {"commit", "sign", "complete"} => Cardinality(x.attested) >= Threshold
  /\ x.status \in {"sign", "complete"} => Cardinality(x.committed) >= Threshold
  /\ x.status = "complete" => Cardinality(x.shared) >= Threshold

SessionsBacked == \A s \in DOMAIN sessions : Backed(sessions[s])

(* A session waits in a phase only as long as it has to: nobody commits      *)
(* before the phase for it, the mark that makes the threshold is the last    *)
(* one of the phase, and expired sessions are past their deadline.           *)
Waiting(x) ==
  /\ x.status = "attesting" => Cardinality(x.attested) < Threshold /\ x.committed = {}
  /\ x.status = "commit" => Cardinality(x.committed) < Threshold
  /\ x.status \in {"attesting", "commit"} => x.shared = {}
  /\ x.status = "sign" => Cardinality(x.shared) < Threshold

SessionsWait ==
  \A s \in DOMAIN sessions :
    Waiting(sessions[s]) /\ (sessions[s].status = "expired" => PastDeadline(s))

(* A CreateSession under way is for a request ID that leads to no session:   *)
(* the lock keeps what the idempotency check found true until the end.       *)
CallIsNew == ~Free => ~Known(call.req)

(* All of it, with the properties that are inductive along with it.          *)
Inductive ==
  /\ TypeOK
  /\ RecordedNoncesSpent /\ NoNonceReplay
  /\ LiveSessionsIndexed /\ PayloadIndexSound
  /\ SessionsBacked /\ SessionsWait
  /\ CallIsNew

-----------------------------------------------------------------------------
(* The sessions as SigningSessions sees them: sets of signers, whatever the   *)
(* order and the repetitions in the list of participants.                     *)
Members(x, positions) == {x.participants[i] : i \in positions}

Promise(x) ==
  [payload |-> x.payload, phase |-> x.status, team |-> Members(x, DOMAIN x.participants),
   attested |-> Members(x, x.attested), committed |-> Members(x, x.committed),
   shared |-> Members(x, x.shared)]

Table == [s \in DOMAIN sessions |-> Promise(sessions[s])]

Signing == INSTANCE SigningSessions WITH
             IDs <- SessionIDs, opened <- 1 .. sessionCount, table <- Table

(* The session manager does what SigningSessions promises: a stranger's or a  *)
(* repeated message moves nothing, no late or early one is counted, and a     *)
(* phase ends exactly with the mark of the Threshold-th different signer.     *)
ImplementsSigningSessions == Signing!Spec

=============================================================================
