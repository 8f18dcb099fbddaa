-------------------------- MODULE MCCoordinatorAPI ---------------------------
(* CoordinatorAPI with the requests, documents and payload key of           *)
(* MCSessionManager: one client that creates the session and polls it, one  *)
(* that attests, beside callers in the same process that do both.           *)
EXTENDS CoordinatorAPI, MCSessionManager

OneWork == {Req("r1", "p", <<"a", "b">>)}

MCCalls(c) == IF c = "x" THEN {"CreateSession", "IssueChallenge", "GetSession"}
              ELSE {"SubmitAttestation"}

MCReports == {[nonce |-> 1, age |-> 0, pcrs |-> PCR0]}

(* What callers in the same process submit may have a chain. *)
APIDocs == GoodDocs \cup {Document(r) : r \in MCReports}
=============================================================================
