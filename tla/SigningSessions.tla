--------------------------- MODULE SigningSessions ---------------------------
(***************************************************************************)
(* What the coordinator promises of a signing session, without clocks,     *)
(* nonces, documents, indexes and lists: a team of signers does one piece  *)
(* of work in phases, and goes on to the next phase when, and only when,   *)
(* Threshold different members have done their part in this one.           *)
(***************************************************************************)
EXTENDS Naturals, FiniteSets

CONSTANTS IDs, Signers, Payloads, Threshold

VARIABLES opened,  \* the IDs that were given to a session, once each
          table    \* the sessions there are: ID -> session

vars == <<opened, table>>

Session == [payload : Payloads, team : SUBSET Signers,
            phase : {"attesting", "commit", "sign", "complete", "expired"},
            attested : SUBSET Signers, committed : SUBSET Signers, shared : SUBSET Signers]

Init == opened = {} /\ table = [s \in {} |-> 0]

Enough(members) == Cardinality(members) >= Threshold

Open(s, payload, team) ==
  /\ s \notin opened
  /\ opened' = opened \cup {s}
  /\ table' = [t \in DOMAIN table \cup {s} |->
                 IF t = s THEN [payload |-> payload, team |-> team, phase |-> "attesting",
                                attested |-> {}, committed |-> {}, shared |-> {}]
                 ELSE table[t]]

(* A member may attest at any time, and again; only while the session waits  *)
(* for attestations can that take it further.                                *)
Attest(s, a) ==
  /\ table[s].phase # "expired" /\ a \in table[s].team
  /\ LET done == table[s].attested \cup {a}
     IN  table' = [table EXCEPT ![s].attested = done,
           ![s].phase = IF table[s].phase = "attesting" /\ Enough(done) THEN "commit"
                        ELSE table[s].phase]
  /\ UNCHANGED opened

Commit(s, a) ==
  /\ table[s].phase = "commit" /\ a \in table[s].attested
  /\ LET done == table[s].committed \cup {a}
     IN  table' = [table EXCEPT ![s].committed = done,
           ![s].phase = IF Enough(done) THEN "sign" ELSE "commit"]
  /\ UNCHANGED opened

Share(s, a) ==
  /\ table[s].phase = "sign" /\ a \in table[s].attested
  /\ LET done == table[s].shared \cup {a}
     IN  table' = [table EXCEPT ![s].shared = done,
           ![s].phase = IF Enough(done) THEN "complete" ELSE "sign"]
  /\ UNCHANGED opened

Expire(s) == table' = [table EXCEPT ![s].phase = "expired"] /\ UNCHANGED opened

Remove(gone) == /\ table' = [s \in DOMAIN table \ gone |-> table[s]]
                /\ UNCHANGED opened

Next ==
  \/ \E s \in IDs, payload \in Payloads, team \in SUBSET Signers : Open(s, payload, team)
  \/ \E s \in DOMAIN table :
       Expire(s) \/ \E a \in Signers : Attest(s, a) \/ Commit(s, a) \/ Share(s, a)
  \/ \E gone \in SUBSET DOMAIN table : Remove(gone)

Spec == Init /\ [][Next]_vars

=============================================================================
