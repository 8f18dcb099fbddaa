--------------------------- MODULE DocumentProofs ---------------------------
(***************************************************************************)
(* What a verdict says of the call it is given on, for any calls, any      *)
(* expected measurements, ages and skew: the theorems of DocumentParser.   *)
(***************************************************************************)
EXTENDS DocumentParser, FiniteSetTheorems, WellFoundedInduction, TLAPS

(* A set of numbers that has one has a least one. *)
LEMMA LeastNumber == ASSUME NEW T \in SUBSET Nat, T # {} PROVE \E m \in T : \A k \in T : m <= k
<1>1. PICK R : IsWellFoundedOn(R, Nat) /\ \A k, m \in Nat : k < m => <<k, m>> \in R
  <2>1. \A k, m \in Nat : k < m => <<k, m>> \in OpToRel(<, Nat)
    BY DEF OpToRel
  <2> QED
    BY <2>1, NatLessThanWellFounded, Zenon
<1>2. PICK m \in T : \A k \in T : ~ (<<k, m>> \in R)
  <2>1. T \subseteq Nat /\ IsWellFoundedOn(R, Nat)
    BY <1>1
  <2>2. \E m \in T : \A k \in T : ~ (<<k, m>> \in R)
    BY <2>1, WFMin
  <2> QED
    BY <2>2
<1>3. \A k \in T : ~ (k < m)
  BY <1>1, <1>2
<1> QED
  BY <1>3

-----------------------------------------------------------------------------
(* parser.go:47, the document Verify gets: only the age can be another. *)
LEMMA StampedDocument ==
  ASSUME NEW doc, IsDocument(doc), NEW late \in 0 .. MaxLate
  PROVE  LET d == Stamped(doc, late)
         IN  /\ d # NoDoc /\ d.nonce = doc.nonce /\ d.chain = doc.chain /\ d.pcrs = doc.pcrs
             /\ d.age = IF doc.stamped THEN doc.age ELSE 1 + late
<1>1. DOMAIN doc = {"nonce", "stamped", "age", "chain", "pcrs"} /\ DOMAIN NoDoc = {"absent"}
  BY DEF IsDocument, NoDoc
<1>2. doc # NoDoc
  BY <1>1
<1>3. CASE doc.stamped
  BY <1>2, <1>3 DEF Stamped
<1>4. CASE ~doc.stamped
  <2>1. Stamped(doc, late) = [doc EXCEPT !.age = 1 + late]
    BY <1>2, <1>4 DEF Stamped
  <2> QED
    BY <1>1, <1>4, <2>1 DEF IsDocument
<1> QED
  BY <1>3, <1>4 DEF IsDocument

(* verifier.go:182: what the loop decides, said of the maps as a whole. *)
Expected(pcrs) == [i \in DOMAIN pcrs \cap DOMAIN ExpectedPCRs |-> pcrs[i]]

LEMMA MatchingMeasurements ==
  ASSUME NEW pcrs PROVE PCRsMatch(pcrs) <=> Expected(pcrs) = ExpectedPCRs
<1> DEFINE common == Expected(pcrs)
<1> USE DEF Expected
<1>1. ASSUME PCRsMatch(pcrs) PROVE common = ExpectedPCRs
  <2>1. DOMAIN pcrs \cap DOMAIN ExpectedPCRs = DOMAIN ExpectedPCRs
    BY <1>1 DEF PCRsMatch
  <2>2. common = [i \in DOMAIN ExpectedPCRs |-> ExpectedPCRs[i]]
    BY <1>1, <2>1 DEF PCRsMatch
  <2> QED
    BY <2>2, ParserConstants
<1>2. ASSUME common = ExpectedPCRs PROVE PCRsMatch(pcrs)
  <2>1. DOMAIN common = DOMAIN pcrs \cap DOMAIN ExpectedPCRs
    OBVIOUS
  <2>2. \A i \in DOMAIN ExpectedPCRs : i \in DOMAIN pcrs /\ common[i] = pcrs[i]
    BY <1>2, <2>1
  <2> QED
    BY <1>2, <2>2 DEF PCRsMatch
<1> QED
  BY <1>1, <1>2

-----------------------------------------------------------------------------
(* The order of the map range: every expected measurement once. *)
LEMMA OrderVisitsAll ==
  ASSUME NEW order \in SetToSeqs(DOMAIN ExpectedPCRs)
  PROVE  /\ DOMAIN order \subseteq Nat
         /\ \A i \in DOMAIN order : order[i] \in DOMAIN ExpectedPCRs
         /\ \A p \in DOMAIN ExpectedPCRs : \E i \in DOMAIN order : order[i] = p
<1> DEFINE n == Cardinality(DOMAIN ExpectedPCRs)
           D == 1 .. n
<1>1. n \in Nat /\ IsFiniteSet(DOMAIN ExpectedPCRs)
  BY FS_CardinalityType, ParserConstants
<1>2. order \in [D -> DOMAIN ExpectedPCRs] /\ \A i, j \in D : i # j => order[i] # order[j]
  BY DEF SetToSeqs
<1>3. order \in Injection(D, DOMAIN ExpectedPCRs)
  BY <1>2 DEF Injection, IsInjective
<1>4. Cardinality(D) = n
  BY <1>1, FS_Interval
<1>5. order \in Surjection(D, DOMAIN ExpectedPCRs)
  BY <1>1, <1>3, <1>4, FS_Injection
<1> QED
  BY <1>1, <1>2, <1>5 DEF Surjection
Differs(pcrs, p) == p \notin DOMAIN pcrs \/ pcrs[p] # ExpectedPCRs[p]

LEMMA NoneDiffers == ASSUME NEW pcrs
                     PROVE  PCRsMatch(pcrs) <=> \A p \in DOMAIN ExpectedPCRs : ~Differs(pcrs, p)
BY DEF PCRsMatch, Differs

(* The loop ends behind the last measurement when none differs ... *)
LEMMA MatchChecksAll ==
  ASSUME NEW order \in SetToSeqs(DOMAIN ExpectedPCRs), NEW pcrs, PCRsMatch(pcrs)
  PROVE  PCRsChecked(order, pcrs) = DOMAIN ExpectedPCRs
<1>1. \A i \in DOMAIN order : ~Differs(pcrs, order[i])
  BY OrderVisitsAll, NoneDiffers
<1>2. PCRsChecked(order, pcrs) = {order[i] : i \in DOMAIN order}
  BY <1>1 DEF PCRsChecked, Differs
<1> QED
  BY <1>2, OrderVisitsAll

(* ... and at the first that does. *)
LEMMA MismatchEndsLoop ==
  ASSUME NEW order \in SetToSeqs(DOMAIN ExpectedPCRs), NEW pcrs, ~PCRsMatch(pcrs)
  PROVE  \E p : {q \in PCRsChecked(order, pcrs) : Differs(pcrs, q)} = {p}
<1> DEFINE T == {i \in DOMAIN order : Differs(pcrs, order[i])}
<1>1. T \in SUBSET Nat /\ T # {}
  BY OrderVisitsAll, NoneDiffers
<1>2. PICK m \in T : \A k \in T : m <= k
  BY <1>1, LeastNumber
<1>3. DOMAIN order \subseteq Nat /\ m \in Nat
  BY <1>1, OrderVisitsAll
<1>4. {i \in DOMAIN order : Differs(pcrs, order[i])
                             /\ \A j \in 1 .. i - 1 : ~Differs(pcrs, order[j])} = {m}
  <2>1. DOMAIN order = 1 .. Cardinality(DOMAIN ExpectedPCRs)
    BY DEF SetToSeqs
  <2>2. Cardinality(DOMAIN ExpectedPCRs) \in Nat
    BY FS_CardinalityType, ParserConstants
  <2>3. ASSUME NEW i \in T, i # m PROVE \E j \in 1 .. i - 1 : Differs(pcrs, order[j])
    <3>1. m \in 1 .. i - 1
      BY <1>2, <1>3, <2>1, <2>2, <2>3
    <3> QED
      BY <3>1
  <2>4. \A j \in 1 .. m - 1 : ~Differs(pcrs, order[j])
    <3>1. \A j \in 1 .. m - 1 : j \in DOMAIN order /\ ~(m <= j)
      BY <1>3, <2>1, <2>2
    <3> QED
      BY <1>2, <3>1
  <2> QED
    BY <2>3, <2>4
<1>5. PCRsChecked(order, pcrs) = {order[i] : i \in {i \in DOMAIN order : i <= m}}
  BY <1>4 DEF PCRsChecked, Differs
<1>6. ASSUME NEW q \in PCRsChecked(order, pcrs), Differs(pcrs, q) PROVE q = order[m]
  <2>1. PICK i \in DOMAIN order : i <= m /\ q = order[i]
    BY <1>5
  <2>2. m <= i
    BY <1>2, <1>6, <2>1
  <2> QED
    BY <1>3, <2>1, <2>2
<1>7. order[m] \in PCRsChecked(order, pcrs) /\ Differs(pcrs, order[m])
  BY <1>3, <1>5
<1> QED
  BY <1>6, <1>7

-----------------------------------------------------------------------------
(* verifier.go:77-115, parser.go:21: the five checks of the code, each said  *)
(* of the call as it was asked.                                              *)
LEMMA ChecksAreRequirements ==
  ASSUME NEW late \in 0 .. MaxLate, result'.late = late, asked \in Cases, UNCHANGED asked
  PROVE  LET doc == asked.doc
             d == Stamped(doc, late)
         IN  /\ Passes(1)' <=> Parses(asked) /\ doc # NoDoc
             /\ doc = NoDoc => d = NoDoc
             /\ doc # NoDoc =>
                  /\ d # NoDoc
                  /\ Passes(2)' <=> NonceMatches(d, asked.nonce)
                  /\ Passes(3)' <=> Timely(d.age)
                  /\ Passes(4)' <=> d.chain
                  /\ Passes(5)' <=> PCRsMatch(d.pcrs)
<1>1. Passes(1)' <=> Parses(asked) /\ asked.doc # NoDoc
  BY DEF Passes, Parses
<1>2. asked.doc = NoDoc => Stamped(asked.doc, late) = NoDoc
  BY DEF Stamped
<1>3. ASSUME NEW doc, doc = asked.doc, NEW d, d = Stamped(doc, late), doc # NoDoc
      PROVE  /\ d # NoDoc
             /\ Passes(2)' <=> NonceMatches(d, asked.nonce)
             /\ Passes(3)' <=> Timely(d.age)
             /\ Passes(4)' <=> d.chain
             /\ Passes(5)' <=> PCRsMatch(d.pcrs)
  <2>1. IsDocument(doc)
    BY <1>3, ParserConstants
  <2>2. /\ d # NoDoc /\ d.nonce = doc.nonce /\ d.chain = doc.chain /\ d.pcrs = doc.pcrs
        /\ d.age = IF doc.stamped THEN doc.age ELSE 1 + late
    BY <1>3, <2>1, StampedDocument
  <2>3. Passes(2)' <=> NonceMatches(d, asked.nonce)
    BY <1>3, <2>2 DEF Passes, NonceMatches
  <2>4. Passes(3)' <=> Timely(d.age)
    <3>1. Passes(3)' <=> IF doc.stamped THEN doc.age \in -ClockSkew .. DocMaxAge
                         ELSE late < DocMaxAge
      BY <1>3 DEF Passes
    <3>2. doc.age \in Int /\ late \in Nat /\ ClockSkew \in Nat /\ DocMaxAge \in Nat
      BY <2>1, ParserConstants, VerifierConstants DEF IsDocument
    <3> QED
      BY <2>2, <3>1, <3>2 DEF Timely
  <2>5. Passes(4)' <=> d.chain
    BY <1>3, <2>2 DEF Passes
  <2>6. Passes(5)' <=> PCRsMatch(d.pcrs)
    <3>1. asked'.doc.pcrs = d.pcrs
      BY <1>3, <2>2
    <3>2. Passes(5)' <=> Expected(asked'.doc.pcrs) = ExpectedPCRs
      BY DEF Passes, Expected
    <3> QED
      BY <3>1, <3>2, MatchingMeasurements
  <2> QED
    BY <2>2, <2>3, <2>4, <2>5, <2>6
<1> QED
  BY <1>1, <1>2, <1>3

(* The result is put together from the document as stamped, in some order. *)
LEMMA ResultOf ==
  ASSUME asked \in Cases, VerifyRaw
  PROVE  \E late \in 0 .. MaxLate, order \in SetToSeqs(DOMAIN ExpectedPCRs) : \E code, d :
           /\ d = Stamped(asked.doc, late)
           /\ code = IF Parses(asked) THEN Verify(d, asked.nonce) ELSE "MALFORMED"
           /\ result'.valid = (code = "") /\ result'.code = code /\ result'.late = late
           /\ result'.checked = IF code \in {"", "PCR_MISMATCH"}
                                THEN PCRsChecked(order, d.pcrs) ELSE {}
<1>1. PICK late \in 0 .. MaxLate, order \in SetToSeqs(DOMAIN ExpectedPCRs) :
        LET doc == Stamped(asked.doc, late)
            code == IF Parses(asked) THEN Verify(doc, asked.nonce) ELSE "MALFORMED"
        IN  result' = [valid |-> code = "", code |-> code, late |-> late,
                       checked |-> IF code \in {"", "PCR_MISMATCH"}
                                   THEN PCRsChecked(order, doc.pcrs) ELSE {}]
  BY DEF VerifyRaw
<1>2. PICK d, code : /\ d = Stamped(asked.doc, late)
                     /\ code = IF Parses(asked) THEN Verify(d, asked.nonce) ELSE "MALFORMED"
  OBVIOUS
<1>3. result' = [valid |-> code = "", code |-> code, late |-> late,
                 checked |-> IF code \in {"", "PCR_MISMATCH"}
                             THEN PCRsChecked(order, d.pcrs) ELSE {}]
  BY <1>1, <1>2
<1>4. /\ result'.valid = (code = "") /\ result'.code = code /\ result'.late = late
      /\ result'.checked = IF code \in {"", "PCR_MISMATCH"}
                           THEN PCRsChecked(order, d.pcrs) ELSE {}
  BY <1>3
<1> QED
  BY <1>2, <1>4

(* Which of the checks the verdict stands for. *)
Names(k) ==
  /\ result.code = Codes[k] /\ (result.valid <=> k = Len(Codes))
  /\ \A j \in 1 .. k - 1 : Passes(j)
  /\ k < Len(Codes) => ~Passes(k)

LEMMA CodesInOrder ==
  /\ Len(Codes) = 6 /\ DOMAIN Codes = 1 .. 6
  /\ Codes[1] = "MALFORMED" /\ Codes[2] = "NONCE_INVALID" /\ Codes[3] = "EXPIRED"
  /\ Codes[4] = "CHAIN_INVALID" /\ Codes[5] = "PCR_MISMATCH" /\ Codes[6] = ""
BY DEF Codes

LEMMA VerdictStep ==
  ASSUME asked \in Cases, VerifyRaw PROVE (\E k \in DOMAIN Codes : Names(k)') /\ ChecksAccountedFor'
<1>0. PICK late \in 0 .. MaxLate, order \in SetToSeqs(DOMAIN ExpectedPCRs) : \E code, d :
           /\ d = Stamped(asked.doc, late)
           /\ code = IF Parses(asked) THEN Verify(d, asked.nonce) ELSE "MALFORMED"
           /\ result'.valid = (code = "") /\ result'.code = code /\ result'.late = late
           /\ result'.checked = IF code \in {"", "PCR_MISMATCH"}
                                THEN PCRsChecked(order, d.pcrs) ELSE {}
  BY ResultOf
<1>1. PICK code, d :
           /\ d = Stamped(asked.doc, late)
           /\ code = IF Parses(asked) THEN Verify(d, asked.nonce) ELSE "MALFORMED"
           /\ result'.valid = (code = "") /\ result'.code = code /\ result'.late = late
           /\ result'.checked = IF code \in {"", "PCR_MISMATCH"}
                                THEN PCRsChecked(order, d.pcrs) ELSE {}
  BY <1>0
<1>2. /\ Passes(1)' <=> Parses(asked) /\ asked.doc # NoDoc
      /\ asked.doc = NoDoc => d = NoDoc
      /\ asked.doc # NoDoc =>
           /\ d # NoDoc
           /\ Passes(2)' <=> NonceMatches(d, asked.nonce)
           /\ Passes(3)' <=> Timely(d.age)
           /\ Passes(4)' <=> d.chain
           /\ Passes(5)' <=> PCRsMatch(d.pcrs)
  BY <1>1, ChecksAreRequirements DEF VerifyRaw
<1>3. \/ code = "MALFORMED" /\ ~Passes(1)'
      \/ code = "NONCE_INVALID" /\ Passes(1)' /\ ~Passes(2)'
      \/ code = "EXPIRED" /\ Passes(1)' /\ Passes(2)' /\ ~Passes(3)'
      \/ code = "CHAIN_INVALID" /\ Passes(1)' /\ Passes(2)' /\ Passes(3)' /\ ~Passes(4)'
      \/ /\ code = "PCR_MISMATCH" /\ ~PCRsMatch(d.pcrs) /\ asked.doc # NoDoc
         /\ Passes(1)' /\ Passes(2)' /\ Passes(3)' /\ Passes(4)' /\ ~Passes(5)'
      \/ /\ code = "" /\ PCRsMatch(d.pcrs) /\ asked.doc # NoDoc
         /\ Passes(1)' /\ Passes(2)' /\ Passes(3)' /\ Passes(4)' /\ Passes(5)'
  BY <1>1, <1>2 DEF Verify
<1>4. \E k \in DOMAIN Codes : Names(k)'
  <2>1. result'.code = code /\ (result'.valid <=> code = "")
    BY <1>1
  <2>2. CASE code = "MALFORMED" /\ ~Passes(1)'
    <3>1. 1 .. 1 - 1 = {} /\ 1 \in 1 .. 6
      OBVIOUS
    <3>2. code = Codes[1] /\ (code = "" <=> 1 = Len(Codes))
      BY <2>2, CodesInOrder
    <3>3. Names(1)'
      BY <2>1, <2>2, <3>1, <3>2, CodesInOrder, Zenon DEF Names
    <3> QED
      BY <3>1, <3>3, CodesInOrder, Zenon
  <2>3. CASE code = "NONCE_INVALID" /\ Passes(1)' /\ ~Passes(2)'
    <3>1. 1 .. 2 - 1 = {1} /\ 2 \in 1 .. 6
      OBVIOUS
    <3>2. code = Codes[2] /\ (code = "" <=> 2 = Len(Codes))
      BY <2>3, CodesInOrder
    <3>3. Names(2)'
      BY <2>1, <2>3, <3>1, <3>2, CodesInOrder, Zenon DEF Names
    <3> QED
      BY <3>1, <3>3, CodesInOrder, Zenon
  <2>4. CASE code = "EXPIRED" /\ Passes(1)' /\ Passes(2)' /\ ~Passes(3)'
    <3>1. 1 .. 3 - 1 = {1, 2} /\ 3 \in 1 .. 6
      OBVIOUS
    <3>2. code = Codes[3] /\ (code = "" <=> 3 = Len(Codes))
      BY <2>4, CodesInOrder
    <3>3. Names(3)'
      BY <2>1, <2>4, <3>1, <3>2, CodesInOrder, Zenon DEF Names
    <3> QED
      BY <3>1, <3>3, CodesInOrder, Zenon
  <2>5. CASE code = "CHAIN_INVALID" /\ Passes(1)' /\ Passes(2)' /\ Passes(3)' /\ ~Passes(4)'
    <3>1. 1 .. 4 - 1 = {1, 2, 3} /\ 4 \in 1 .. 6
      OBVIOUS
    <3>2. code = Codes[4] /\ (code = "" <=> 4 = Len(Codes))
      BY <2>5, CodesInOrder
    <3>3. Names(4)'
      BY <2>1, <2>5, <3>1, <3>2, CodesInOrder, Zenon DEF Names
    <3> QED
      BY <3>1, <3>3, CodesInOrder, Zenon
  <2>6. CASE /\ code = "PCR_MISMATCH" /\ ~Passes(5)'
             /\ Passes(1)' /\ Passes(2)' /\ Passes(3)' /\ Passes(4)'
    <3>1. 1 .. 5 - 1 = {1, 2, 3, 4} /\ 5 \in 1 .. 6
      OBVIOUS
    <3>2. code = Codes[5] /\ (code = "" <=> 5 = Len(Codes))
      BY <2>6, CodesInOrder
    <3>3. Names(5)'
      BY <2>1, <2>6, <3>1, <3>2, CodesInOrder, Zenon DEF Names
    <3> QED
      BY <3>1, <3>3, CodesInOrder, Zenon
  <2>7. CASE code = "" /\ Passes(1)' /\ Passes(2)' /\ Passes(3)' /\ Passes(4)' /\ Passes(5)'
    <3>1. 1 .. 6 - 1 = {1, 2, 3, 4, 5} /\ 6 \in 1 .. 6 /\ ~(6 < 6)
      OBVIOUS
    <3>2. code = Codes[6] /\ (code = "" <=> 6 = Len(Codes))
      BY <2>7, CodesInOrder
    <3>3. Names(6)'
      BY <2>1, <2>7, <3>1, <3>2, CodesInOrder, Zenon DEF Names
    <3> QED
      BY <3>1, <3>3, CodesInOrder, Zenon
  <2> QED
    BY <1>3, <2>2, <2>3, <2>4, <2>5, <2>6, <2>7
<1>5. ChecksAccountedFor'
  <2>1. PICK doc, checked : doc = asked.doc /\ doc = asked'.doc /\ checked = result'.checked
    BY DEF VerifyRaw
  <2>2. ASSUME doc # NoDoc PROVE d.pcrs = doc.pcrs
    <3>1. IsDocument(doc)
      BY <2>1, <2>2, ParserConstants
    <3> QED
      BY <1>1, <2>1, <3>1, StampedDocument
  <2> DEFINE differing == {q \in checked : Differs(doc.pcrs, q)}
  <2>3. ASSUME code = "", PCRsMatch(d.pcrs), doc # NoDoc
        PROVE  checked = DOMAIN ExpectedPCRs /\ differing = {}
    <3>1. PCRsMatch(doc.pcrs) /\ checked = PCRsChecked(order, doc.pcrs)
      BY <1>1, <2>1, <2>2, <2>3
    <3>2. checked = DOMAIN ExpectedPCRs
      BY <3>1, MatchChecksAll
    <3>3. \A q \in checked : ~Differs(doc.pcrs, q)
      BY <3>1, <3>2, NoneDiffers
    <3> QED
      BY <3>2, <3>3
  <2>4. ASSUME code = "PCR_MISMATCH", ~PCRsMatch(d.pcrs), doc # NoDoc
        PROVE  Cardinality(differing) = 1
    <3>1. checked = PCRsChecked(order, doc.pcrs)
      BY <1>1, <2>1, <2>2, <2>4
    <3>2. \E p : differing = {p}
      BY <2>2, <2>4, <3>1, MismatchEndsLoop
    <3> QED
      BY <3>2, FS_Singleton
  <2>5. code \notin {"", "PCR_MISMATCH"} => checked = {}
    BY <1>1, <2>1
  <2>6. /\ code = "" => PCRsMatch(d.pcrs) /\ doc # NoDoc
        /\ code = "PCR_MISMATCH" => ~PCRsMatch(d.pcrs) /\ doc # NoDoc
    BY <1>3, <2>1
  <2>7. (result'.valid <=> code = "") /\ result'.code = code
    BY <1>1
  <2>8. differing = {i \in checked : \/ i \notin DOMAIN doc.pcrs
                                     \/ doc.pcrs[i] # ExpectedPCRs[i]}
    BY DEF Differs
  <2>9. /\ result'.valid => checked = DOMAIN ExpectedPCRs /\ differing = {}
        /\ result'.code = "PCR_MISMATCH" => Cardinality(differing) = 1
        /\ result'.code \notin {"", "PCR_MISMATCH"} => checked = {}
    BY <2>3, <2>4, <2>5, <2>6, <2>7
  <2> HIDE DEF differing
  <2> QED
    BY <2>1, <2>8, <2>9 DEF ChecksAccountedFor
<1> QED
  BY <1>4, <1>5

(* types/attestation.go:55, verifier.go:77: whatever else is wrong with a call, *)
(* its verdict is that of the first of the five requirements it fails.          *)
THEOREM VerdictIsFirstFailure == Spec => []VerdictNamesFirstFailure
<1>1. Init => asked \in Cases /\ VerdictNamesFirstFailure
  BY DEF Init, VerdictNamesFirstFailure
<1>2. asked \in Cases /\ VerdictNamesFirstFailure /\ [Next]_parserVars
        => (asked \in Cases)' /\ VerdictNamesFirstFailure'
  <2> SUFFICES ASSUME asked \in Cases, VerdictNamesFirstFailure, [Next]_parserVars
               PROVE  asked' \in Cases /\ VerdictNamesFirstFailure'
    OBVIOUS
  <2>1. CASE VerifyRaw
    <3>1. \E k \in DOMAIN Codes : Names(k)'
      BY <2>1, VerdictStep
    <3> QED
      BY <2>1, <3>1 DEF VerdictNamesFirstFailure, Names, VerifyRaw
  <2>2. CASE Again
    BY <2>2 DEF Again, VerdictNamesFirstFailure
  <2>3. CASE UNCHANGED parserVars
    <3>1. UNCHANGED asked /\ UNCHANGED result
      BY <2>3 DEF parserVars
    <3>2. \A k : Passes(k)' <=> Passes(k)
      BY <3>1 DEF Passes
    <3> QED
      BY <3>1, <3>2, Zenon DEF VerdictNamesFirstFailure
  <2> QED
    BY <2>1, <2>2, <2>3 DEF Next
<1> QED
  BY <1>1, <1>2, PTL DEF Spec

(* types/attestation.go:61, verifier.go:182: the measurements noted as checked  *)
(* are all of them, or end at the one that differs, or none: in any map order.  *)
THEOREM ChecksAreAccountedFor == Spec => []ChecksAccountedFor
<1>1. Init => asked \in Cases /\ ChecksAccountedFor
  BY DEF Init, ChecksAccountedFor
<1>2. asked \in Cases /\ ChecksAccountedFor /\ [Next]_parserVars
        => (asked \in Cases)' /\ ChecksAccountedFor'
  <2> SUFFICES ASSUME asked \in Cases, ChecksAccountedFor, [Next]_parserVars
               PROVE  asked' \in Cases /\ ChecksAccountedFor'
    OBVIOUS
  <2>1. CASE VerifyRaw
    BY <2>1, VerdictStep DEF VerifyRaw
  <2>2. CASE Again
    BY <2>2 DEF Again, ChecksAccountedFor
  <2>3. CASE UNCHANGED parserVars
    BY <2>3 DEF parserVars, ChecksAccountedFor
  <2> QED
    BY <2>1, <2>2, <2>3 DEF Next
<1> QED
  BY <1>1, <1>2, PTL DEF Spec

=============================================================================
