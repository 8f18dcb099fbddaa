----------------------------- MODULE NonceProofs -----------------------------
(***************************************************************************)
(* The nonce table is well formed, and is a source of one-time challenges, *)
(* for every lifetime and every bound.                                     *)
(***************************************************************************)
EXTENDS NonceHistory, TLAPS

(* Every operation of nonce.go keeps the table well formed. *)
LEMMA TypeStep == TypeOK /\ [Next]_vars => TypeOK'
<1> SUFFICES ASSUME TypeOK, [Next]_vars PROVE TypeOK'
  OBVIOUS
<1> USE NonceBounds DEF TypeOK, NonceEntry
<1>1. CASE Issue
  BY <1>1 DEF Issue, Store
<1>2. CASE Cleanup
  BY <1>2 DEF Cleanup, Restrict
<1>3. CASE Tick
  BY <1>3 DEF Tick
<1>4. CASE \E n \in Nonces : Validate(n)
  <2>1. PICK n \in Nonces : Validate(n)
    BY <1>4
  <2>2. n \in DOMAIN issued
    BY <2>1 DEF Validate, Answerable
  <2> QED
    BY <2>1, <2>2 DEF Validate, Store
<1>5. CASE UNCHANGED vars
  BY <1>5 DEF vars
<1> QED
  BY <1>1, <1>2, <1>3, <1>4, <1>5 DEF Next

(* The nonce table of NonceManager always holds well-formed entries, for    *)
(* nonces that were drawn, none dated in the future.                        *)
THEOREM NonceTypeCorrect == Spec => []TypeOK
<1>1. Init => TypeOK
  BY NonceBounds DEF Init, TypeOK
<1>2. QED
  BY <1>1, TypeStep, PTL DEF Spec

-----------------------------------------------------------------------------
(* The history variable adds nothing to what the manager may do. *)
LEMMA HistoryStep == [HistoryNext]_allVars => [Next]_vars
BY DEF HistoryNext, allVars, Next, vars

LEMMA HistoryTypeCorrect == HistorySpec => []TypeOK
<1>1. HistoryInit => TypeOK
  BY NonceBounds DEF HistoryInit, Init, TypeOK
<1>2. TypeOK /\ [HistoryNext]_allVars => TypeOK'
  BY TypeStep, HistoryStep
<1>3. QED
  BY <1>1, <1>2, PTL DEF HistorySpec

Due == [n \in Pending |-> issued[n].issuedAt + MaxAge]

(* Issue hands out a challenge that was not pending before. *)
LEMMA IssueGives == ASSUME TypeOK, Issue, answers' = answers PROVE Challenge!Give
<1> USE NonceBounds DEF TypeOK, NonceEntry
<1>1. nonceCount + 1 \notin DOMAIN issued
  OBVIOUS
<1>2. DOMAIN issued' = DOMAIN issued \cup {nonceCount + 1}
  BY DEF Issue, Store
<1>3. issued'[nonceCount + 1] = [issuedAt |-> now, used |-> FALSE]
  BY DEF Issue, Store
<1>4. \A n \in DOMAIN issued : issued'[n] = issued[n]
  BY <1>1 DEF Issue, Store
<1>5. Pending' = Pending \cup {nonceCount + 1}
  <2>1. now' = now
    BY DEF Issue
  <2>2. nonceCount + 1 \in Pending'
    BY <1>2, <1>3, <2>1 DEF Pending
  <2>3. \A n \in DOMAIN issued : n \in Pending' <=> n \in Pending
    BY <1>2, <1>4, <2>1 DEF Pending
  <2> QED
    BY <1>2, <2>2, <2>3 DEF Pending
<1>6. Due' = [n \in Pending \cup {nonceCount + 1} |->
                IF n = nonceCount + 1 THEN now + MaxAge ELSE Due[n]]
  BY <1>1, <1>3, <1>4, <1>5 DEF Due, Pending
<1> QED
  BY <1>6 DEF Challenge!Give, Due, Issue

(* Validate accepts a pending nonce, and no other nonce is affected. *)
LEMMA ValidateAnswers ==
  ASSUME TypeOK, NEW n \in Nonces, Validate(n), answers' = answers + 1
  PROVE  Challenge!Answer(n) /\ n \in 1 .. nonceCount
<1> USE NonceBounds DEF TypeOK, NonceEntry
<1>1. n \in Pending
  BY DEF Validate, Answerable, Pending
<1>2. DOMAIN issued' = DOMAIN issued /\ issued'[n].used /\ now' = now
  BY <1>1 DEF Validate, Store, Pending
<1>3. \A m \in DOMAIN issued : m # n => issued'[m] = issued[m]
  BY DEF Validate, Store
<1>4. Pending' = Pending \ {n}
  BY <1>2, <1>3 DEF Pending
<1>5. Due' = [m \in Pending \ {n} |-> Due[m]]
  BY <1>3, <1>4 DEF Due, Pending
<1> QED
  BY <1>1, <1>5 DEF Challenge!Answer, Challenge!Restrict, Due, Validate, Pending

(* Cleanup forgets only nonces that are no longer pending. *)
LEMMA CleanupKeepsPending == ASSUME TypeOK, Cleanup PROVE Due' = Due
<1> USE NonceBounds DEF TypeOK, NonceEntry
<1>1. \A n \in Pending : ~Stale(n)
  BY DEF Pending, Stale
<1>2. /\ DOMAIN issued' = {n \in DOMAIN issued : ~Stale(n)} /\ now' = now
      /\ \A n \in DOMAIN issued' : issued'[n] = issued[n]
  BY DEF Cleanup, Restrict
<1>3. Pending' = Pending
  BY <1>1, <1>2 DEF Pending
<1> QED
  BY <1>2, <1>3 DEF Due, Pending

(* A tick ends exactly the lifetimes that are over. *)
LEMMA TickAdvances == ASSUME TypeOK, Tick, answers' = answers PROVE Challenge!Advance
<1> USE NonceBounds DEF TypeOK, NonceEntry
<1>1. now' = now + 1 /\ issued' = issued
  BY DEF Tick
<1>2. Pending' = {n \in Pending : Due[n] >= now'}
  BY <1>1 DEF Pending, Due
<1>3. Due' = [n \in Pending' |-> Due[n]]
  BY <1>1, <1>2 DEF Due
<1> QED
  BY <1>1, <1>2, <1>3 DEF Challenge!Advance, Challenge!Restrict, Due, Tick

(* Validate accepts each issued nonce at most once and for exactly its      *)
(* lifetime, and Cleanup never removes one that could still be answered:    *)
(* every step of the table is a step of OneTimeChallenge, or none.          *)
THEOREM NoncesAreOneTimeChallenges == HistorySpec => ImplementsOneTimeChallenge
<1>1. HistoryInit => Challenge!Init
  BY DEF HistoryInit, Init, Challenge!Init, Pending
<1>2. TypeOK /\ [HistoryNext]_allVars => [Challenge!Next]_(Challenge!vars)
  <2> SUFFICES ASSUME TypeOK, [HistoryNext]_allVars
               PROVE  Challenge!Next \/ UNCHANGED Challenge!vars
    OBVIOUS
  <2>1. CASE Issue /\ UNCHANGED answers
    BY <2>1, IssueGives DEF Challenge!Next
  <2>2. CASE Cleanup /\ UNCHANGED answers
    BY <2>2, CleanupKeepsPending DEF Challenge!vars, Due, Cleanup
  <2>3. CASE Tick /\ UNCHANGED answers
    BY <2>3, TickAdvances DEF Challenge!Next
  <2>4. CASE \E n \in Nonces : Validate(n) /\ answers' = answers + 1
    BY <2>4, ValidateAnswers DEF Challenge!Next
  <2>5. CASE UNCHANGED allVars
    BY <2>5 DEF allVars, vars, Challenge!vars, Pending
  <2> QED
    BY <2>1, <2>2, <2>3, <2>4, <2>5 DEF HistoryNext
<1>3. QED
  BY <1>1, <1>2, HistoryTypeCorrect, PTL
     DEF HistorySpec, ImplementsOneTimeChallenge, Challenge!Spec

=============================================================================
