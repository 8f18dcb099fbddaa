-------------------------- MODULE OneTimeChallenge --------------------------
(***************************************************************************)
(* What a source of one-time challenges promises to the verifier that uses *)
(* it, whatever table it keeps: a challenge is new when it is handed out,  *)
(* can be answered once, and stays answerable for exactly its lifetime.    *)
(* It has no flags, no garbage and no clean-up: a challenge is either      *)
(* pending or it is not.  NonceManager is shown to implement it.           *)
(***************************************************************************)
EXTENDS Naturals, Functions

CONSTANT Lifetime  \* the ticks during which a challenge can be answered

VARIABLES now,      \* the clock
          given,    \* how many challenges have been handed out: 1 .. given
          pending,  \* challenge -> last tick at which it can be answered
          answers   \* how many answers have been accepted

vars == <<now, given, pending, answers>>

Init == now = 0 /\ given = 0 /\ pending = [n \in {} |-> 0] /\ answers = 0

(* A challenge that was never handed out before becomes answerable. *)
Give == /\ given' = given + 1
        /\ pending' = [n \in DOMAIN pending \cup {given + 1} |->
                         IF n = given + 1 THEN now + Lifetime ELSE pending[n]]
        /\ UNCHANGED <<now, answers>>

(* An answer is accepted: the challenge cannot be answered again. *)
Answer(n) == /\ n \in DOMAIN pending
             /\ pending' = Restrict(pending, DOMAIN pending \ {n})
             /\ answers' = answers + 1
             /\ UNCHANGED <<now, given>>

(* Time passes: exactly the challenges whose lifetime is over lapse. *)
Advance == /\ now' = now + 1
           /\ pending' = Restrict(pending, {n \in DOMAIN pending : pending[n] >= now'})
           /\ UNCHANGED <<given, answers>>

Next == Give \/ Advance \/ \E n \in 1 .. given : Answer(n)

Spec == Init /\ [][Next]_vars

=============================================================================
