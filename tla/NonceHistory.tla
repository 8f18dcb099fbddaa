---------------------------- MODULE NonceHistory ----------------------------
(***************************************************************************)
(* NonceManager with a count of the answers Validate has accepted, and the *)
(* promise it keeps to its callers: OneTimeChallenge.                      *)
(***************************************************************************)
EXTENDS NonceManager

VARIABLE answers  \* how many calls of Validate have returned nil

allVars == <<vars, answers>>

HistoryInit == Init /\ answers = 0

HistoryNext ==
  \/ (Issue \/ Cleanup \/ Tick) /\ UNCHANGED answers
  \/ \E n \in Nonces : Validate(n) /\ answers' = answers + 1

HistorySpec == HistoryInit /\ [][HistoryNext]_allVars

(* A nonce is pending while it is unused and young enough. *)
Pending == {n \in DOMAIN issued : ~issued[n].used /\ now - issued[n].issuedAt <= MaxAge}

Challenge == INSTANCE OneTimeChallenge
               WITH Lifetime <- MaxAge, given <- nonceCount,
                    pending <- [n \in Pending |-> issued[n].issuedAt + MaxAge]

(* The table, its flags, its age check and its clean-up together behave as  *)
(* a source of one-time challenges: Validate accepts a nonce at most once,  *)
(* even when Cleanup has forgotten that it was used, for exactly its        *)
(* lifetime, and Cleanup never takes away one that could still be answered. *)
ImplementsOneTimeChallenge == Challenge!Spec

=============================================================================
