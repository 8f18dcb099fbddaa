------------------------- MODULE AttestationVerifier -------------------------
(***************************************************************************)
(* internal/attestation/verifier.go: the checks Verify makes of an         *)
(* attestation document, in their order, and the code it rejects with.     *)
(* A document is what those checks look at: the nonce it carries, how old  *)
(* its time stamp is, whether the certificate chain reaches a trusted root *)
(* at the time of the check, and the PCRs it reports.                      *)
(***************************************************************************)
EXTENDS Integers

CONSTANTS DocMaxAge,    \* v.nonceSpec.MaxAge, the verifier's own copy
          ClockSkew,    \* the minute a time stamp may lie in the future
          ExpectedPCRs, \* v.expectedPCRs: PCR index -> measurement
          Fits(_)       \* whether a nonce has the length v.nonceSpec asks for

ASSUME VerifierConstants ==
  /\ DocMaxAge \in Nat /\ ClockSkew \in Nat
  /\ DOMAIN ExpectedPCRs # {}   \* NewVerifier refuses an empty policy

NoDoc == [absent |-> TRUE]  \* doc == nil

(* verifyTimestamp: neither from the future nor too old. *)
Timely(age) == -ClockSkew <= age /\ age <= DocMaxAge

(* verifyPCRs: every expected PCR is reported with the expected value;      *)
(* PCRs the policy does not name are not looked at.                         *)
PCRsMatch(pcrs) ==
  \A i \in DOMAIN ExpectedPCRs : i \in DOMAIN pcrs /\ pcrs[i] = ExpectedPCRs[i]

(* verifyNonce: of the right length, and the one the document carries. *)
NonceMatches(doc, nonce) == Fits(nonce) /\ doc.nonce = nonce

(* Faulty (a slip of the code, not part of the model): the checks of the     *)
(* time stamp and of the chain have changed places.                          *)
Verify_ChainFirst(doc, nonce) ==
  IF doc = NoDoc                     THEN "MALFORMED"
  ELSE IF ~NonceMatches(doc, nonce)  THEN "NONCE_INVALID"
  ELSE IF ~doc.chain                 THEN "CHAIN_INVALID"
  ELSE IF ~Timely(doc.age)           THEN "EXPIRED"
  ELSE IF ~PCRsMatch(doc.pcrs)       THEN "PCR_MISMATCH"
  ELSE ""

(* Verify: the code of the first check that fails, "" when all pass. *)
Verify(doc, nonce) ==
  IF doc = NoDoc                     THEN "MALFORMED"
  ELSE IF ~NonceMatches(doc, nonce)  THEN "NONCE_INVALID"
  ELSE IF ~Timely(doc.age)           THEN "EXPIRED"
  ELSE IF ~doc.chain                 THEN "CHAIN_INVALID"
  ELSE IF ~PCRsMatch(doc.pcrs)       THEN "PCR_MISMATCH"
  ELSE ""

=============================================================================
