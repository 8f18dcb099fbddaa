--------------------------- MODULE DocumentParser ---------------------------
(***************************************************************************)
(* internal/attestation/parser.go: VerifyRaw, over a parser that can be    *)
(* plugged in and the checks of the verifier.  Parser.Parse is external:   *)
(* it fails, or returns a document, or nil.  A case is one call:           *)
(*   [parser: it is there, raw: "empty", "garbage" or "document",          *)
(*    doc: what the parser makes of it, nonce: the one expected].          *)
(* A document has one field more than the verifier looks at: stamped, that *)
(* its time stamp is not the zero time.  Its age is of the moment Verify   *)
(* reads the clock.                                                        *)
(***************************************************************************)
EXTENDS AttestationVerifier, SequencesExt

CONSTANTS Cases,    \* the calls that occur
          MaxLate   \* bound: ticks between the two readings of the clock

(* What a parser makes of the bytes when it makes anything. *)
IsDocument(doc) ==
  /\ doc = [nonce |-> doc.nonce, stamped |-> doc.stamped, age |-> doc.age,
            chain |-> doc.chain, pcrs |-> doc.pcrs]
  /\ doc.stamped \in BOOLEAN /\ doc.chain \in BOOLEAN /\ doc.age \in Int

ASSUME ParserConstants ==
  /\ MaxLate \in Nat
  /\ \A case \in Cases : case.doc = NoDoc \/ IsDocument(case.doc)
  /\ IsFiniteSet(DOMAIN ExpectedPCRs)   \* a map of Go
  /\ ExpectedPCRs = [i \in DOMAIN ExpectedPCRs |-> ExpectedPCRs[i]]

VARIABLES asked,   \* the call under way, or the last one
          result   \* its VerificationResult, or Pending

parserVars == <<asked, result>>

Pending == [pending |-> TRUE]

Init == asked \in Cases /\ result = Pending

-----------------------------------------------------------------------------
(* Faulty: the loop goes on behind a mismatch. *)
PCRsChecked_All(order, pcrs) == ToSet(order)

(* verifyPCRs ranges over the expected PCRs in any order and notes each one  *)
(* it looks at, up to the first that is missing or differs.                  *)
PCRsChecked(order, pcrs) ==
  LET Differs(i) == order[i] \notin DOMAIN pcrs \/ pcrs[order[i]] # ExpectedPCRs[order[i]]
      last == {i \in DOMAIN order : Differs(i) /\ \A j \in 1 .. i - 1 : ~Differs(j)}
  IN  {order[i] : i \in {i \in DOMAIN order : \A j \in last : i <= j}}

(* The document Verify gets: one without a time stamp is given one, a second *)
(* before the first reading of the clock.                                    *)
Stamped(doc, late) ==
  IF doc = NoDoc \/ doc.stamped THEN doc ELSE [doc EXCEPT !.age = 1 + late]

(* The parser is there and made something of the bytes. *)
Parses(case) == case.parser /\ case.raw = "document"

VerifyRaw ==
  /\ result = Pending
  /\ \E late \in 0 .. MaxLate, order \in SetToSeqs(DOMAIN ExpectedPCRs) :
       LET doc == Stamped(asked.doc, late)
           code == IF Parses(asked) THEN Verify(doc, asked.nonce) ELSE "MALFORMED"
       IN  result' = [valid |-> code = "", code |-> code, late |-> late,
                      checked |-> IF code \in {"", "PCR_MISMATCH"}
                                  THEN PCRsChecked(order, doc.pcrs) ELSE {}]
  /\ UNCHANGED asked

(* The next call, of another caller: nothing is left of the one before. *)
Again ==
  /\ result # Pending
  /\ asked' \in Cases /\ result' = Pending

Next == VerifyRaw \/ Again

Spec == Init /\ [][Next]_parserVars

-----------------------------------------------------------------------------
(* What the checks are for, one by one, of the call as it was asked. *)
Codes == <<"MALFORMED", "NONCE_INVALID", "EXPIRED", "CHAIN_INVALID", "PCR_MISMATCH", "">>

Passes(check) ==
  LET doc == asked.doc
  IN  CASE check = 1 -> asked.parser /\ asked.raw = "document" /\ doc # NoDoc
        [] check = 2 -> Fits(asked.nonce) /\ doc.nonce = asked.nonce
        [] check = 3 -> IF doc.stamped THEN doc.age \in -ClockSkew .. DocMaxAge
                        ELSE result.late < DocMaxAge
        [] check = 4 -> doc.chain
        [] check = 5 -> [i \in DOMAIN doc.pcrs \cap DOMAIN ExpectedPCRs |-> doc.pcrs[i]] = ExpectedPCRs

(* types/attestation.go:55, "every rejection has a reason code": the code is    *)
(* that of the first requirement the call fails, whatever else is wrong with    *)
(* it, and nothing is valid that fails one.                                     *)
VerdictNamesFirstFailure ==
  result # Pending =>
    \E k \in DOMAIN Codes :
      /\ result.code = Codes[k] /\ (result.valid <=> k = Len(Codes))
      /\ \A j \in 1 .. k - 1 : Passes(j)
      /\ k < Len(Codes) => ~Passes(k)

(* types/attestation.go:61-63, "metadata for audit logging": the PCRs noted as  *)
(* checked are all that were expected, or go as far as one that differs, in     *)
(* whatever order they were looked at; they are none if it did not come to it.  *)
ChecksAccountedFor ==
  result # Pending =>
    LET differing == {i \in result.checked : \/ i \notin DOMAIN asked.doc.pcrs
                                             \/ asked.doc.pcrs[i] # ExpectedPCRs[i]}
    IN  /\ result.valid => result.checked = DOMAIN ExpectedPCRs /\ differing = {}
        /\ result.code = "PCR_MISMATCH" => Cardinality(differing) = 1
        /\ result.code \notin {"", "PCR_MISMATCH"} => result.checked = {}

=============================================================================
