---------------------------- MODULE SessionClaims ----------------------------
(***************************************************************************)
(* What the documentation and the comments say of signing sessions and the *)
(* code does not do.  Each statement is checked by a run that is expected  *)
(* to find it violated; README.md says what the counterexample shows.      *)
(* askedFor is a history variable: the session each nonce was issued for,  *)
(* which the code forgets.                                                 *)
(***************************************************************************)
EXTENDS SessionManager

VARIABLE askedFor  \* nonce -> session ID

claimVars == <<vars, askedFor>>

ClaimsInit == Init /\ askedFor = [n \in {} |-> 0]

ClaimsNext ==
  /\ Next
  /\ askedFor' = IF nonceCount' = nonceCount THEN askedFor
                 ELSE Put(askedFor, nonceCount', (CHOOSE c \in challenges \ challenges' : TRUE)[1])

ClaimsSpec == ClaimsInit /\ [][ClaimsNext]_claimVars

-----------------------------------------------------------------------------
(* manager.go:7 "Enforces timeouts", types/session.go:33 "the session        *)
(* deadline (prevents hanging sessions)": no session makes progress after    *)
(* its deadline.                                                             *)
NoProgressPastDeadline ==
  [][\A s \in DOMAIN sessions \cap DOMAIN sessions' :
       PastDeadline(s) => sessions'[s].status \in {sessions[s].status, "expired"}]_claimVars

(* threat-model/STRIDE.md:145 "Nonce in attestation ties to specific         *)
(* session": an attestation that a session has recorded answers a challenge  *)
(* issued for that session, and not for another one.                         *)
AttestationForItsSession ==
  \A s \in DOMAIN sessions : \A a \in DOMAIN sessions[s].attestations :
    askedFor[sessions[s].attestations[a]] = s

=============================================================================
