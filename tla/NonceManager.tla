---------------------------- MODULE NonceManager ----------------------------
(***************************************************************************)
(* internal/attestation/nonce.go: the table of nonces the coordinator has  *)
(* handed out.  Every operation on the table runs under nm.mu and is one   *)
(* action.  A nonce is 32 bytes of crypto/rand: the n-th nonce issued is   *)
(* the number n, so nonces never repeat.  time.Duration is counted in      *)
(* ticks of an integer clock.                                              *)
(***************************************************************************)
EXTENDS Naturals, Functions

CONSTANTS MaxAge,     \* nm.spec.MaxAge
          MaxNonces,  \* bound: how many nonces are issued
          MaxTime     \* bound: the last tick of the clock

ASSUME NonceBounds == MaxAge \in Nat /\ MaxNonces \in Nat /\ MaxTime \in Nat

VARIABLES now,        \* the clock
          issued,     \* nm.issued: nonce -> [issuedAt, used]
          nonceCount  \* how many nonces have been drawn

vars == <<now, issued, nonceCount>>

Nonces == 1 .. MaxNonces
NonceEntry == [issuedAt : 0 .. MaxTime, used : BOOLEAN]

Init == now = 0 /\ issued = [n \in {} |-> 0] /\ nonceCount = 0

-----------------------------------------------------------------------------
(* The map nm.issued after nm.issued[n] = entry. *)
Store(n, entry) ==
  [k \in DOMAIN issued \cup {n} |-> IF k = n THEN entry ELSE issued[k]]

(* Faulty variants, here and below, stand for slips of the code: they are   *)
(* not part of the model.  Faulty: the nonce is filed but not counted.      *)
Issue_Uncounted ==
  /\ nonceCount < MaxNonces
  /\ issued' = Store(nonceCount + 1, [issuedAt |-> now, used |-> FALSE])
  /\ UNCHANGED <<now, nonceCount>>

(* Issue: a fresh nonce is registered, unused. *)
Issue ==
  /\ nonceCount < MaxNonces
  /\ nonceCount' = nonceCount + 1
  /\ issued' = Store(nonceCount + 1, [issuedAt |-> now, used |-> FALSE])
  /\ UNCHANGED now

(* Faulty: the replay check is missing. *)
Answerable_Replay(n) == n \in DOMAIN issued /\ now - issued[n].issuedAt <= MaxAge

(* The three checks of Validate: known, not used, not too old. *)
Answerable(n) ==
  /\ n \in DOMAIN issued
  /\ ~issued[n].used
  /\ now - issued[n].issuedAt <= MaxAge

(* Validate, when it returns nil: the nonce is used up.  When it returns an *)
(* error it leaves the table alone, whichever of the checks failed.         *)
Validate(n) ==
  /\ Answerable(n)
  /\ issued' = Store(n, [issued[n] EXCEPT !.used = TRUE])
  /\ UNCHANGED <<now, nonceCount>>

(* Cleanup: entries issued before now - 2 * MaxAge are dropped. *)
Stale(n) == issued[n].issuedAt + 2 * MaxAge < now

Cleanup ==
  /\ \E n \in DOMAIN issued : Stale(n)
  /\ issued' = Restrict(issued, {n \in DOMAIN issued : ~Stale(n)})
  /\ UNCHANGED <<now, nonceCount>>

Tick == now < MaxTime /\ now' = now + 1 /\ UNCHANGED <<issued, nonceCount>>

Next == Issue \/ Cleanup \/ Tick \/ \E n \in Nonces : Validate(n)

Spec == Init /\ [][Next]_vars

-----------------------------------------------------------------------------
(* The table holds well-formed entries for nonces that were drawn, none of *)
(* them dated in the future.                                               *)
TypeOK ==
  /\ now \in 0 .. MaxTime
  /\ nonceCount \in 0 .. MaxNonces
  /\ DOMAIN issued \subseteq 1 .. nonceCount
  /\ \A n \in DOMAIN issued : issued[n] \in NonceEntry /\ issued[n].issuedAt <= now

=============================================================================
