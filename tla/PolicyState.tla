----------------------------- MODULE PolicyState -----------------------------
(***************************************************************************)
(* internal/policy/state.go: the enrolled signers and the policy version.  *)
(* Every operation runs under sm.mu and is one action; an operation that   *)
(* returns an error changes nothing.  A signer is its ID: keys, PCRs and   *)
(* time stamps of an enrolment never decide anything here.                 *)
(***************************************************************************)
EXTENDS Naturals

CONSTANTS Signers,     \* the signer IDs that occur, enrolled or not
          MaxVersion   \* bound: the last policy version reached

ASSUME PolicyConstants == MaxVersion \in Nat

VARIABLES signers,  \* sm.enrolledSigners: signer ID -> status
          version   \* sm.version

vars == <<signers, version>>

SignerStatus == {"active", "suspended", "revoked"}

(* NewStateManager: nobody is enrolled. *)
Init == signers = [a \in {} |-> "active"] /\ version = 0

-----------------------------------------------------------------------------
Active(a) == a \in DOMAIN signers /\ signers[a] = "active"

(* GetActiveSigners: one read of the map under the read lock. *)
GetActiveSigners == {a \in DOMAIN signers : Active(a)}

(* Faulty (a slip of the code, not part of the model, as below): the version *)
(* stays where it was.                                                       *)
SetStatus_SameVersion(a, status) ==
  /\ version < MaxVersion
  /\ signers' = [b \in DOMAIN signers \cup {a} |-> IF b = a THEN status ELSE signers[b]]
  /\ UNCHANGED version

(* signer.Status = status, and the version moves on. *)
SetStatus(a, status) ==
  /\ version < MaxVersion
  /\ version' = version + 1
  /\ signers' = [b \in DOMAIN signers \cup {a} |-> IF b = a THEN status ELSE signers[b]]

(* Faulty: the caller's status, usually none, is not overwritten. *)
EnrollSigner_CallersStatus(a) == a \notin DOMAIN signers /\ SetStatus(a, "")

EnrollSigner(a) == a \notin DOMAIN signers /\ SetStatus(a, "active")

RevokeSigner(a) ==
  /\ a \in DOMAIN signers
  /\ signers[a] # "revoked"
  /\ SetStatus(a, "revoked")

SuspendSigner(a) == Active(a) /\ SetStatus(a, "suspended")

(* Faulty: any signer that is not active can be reactivated. *)
ReactivateSigner_AnyInactive(a) ==
  /\ a \in DOMAIN signers
  /\ signers[a] # "active"
  /\ SetStatus(a, "active")

ReactivateSigner(a) ==
  /\ a \in DOMAIN signers
  /\ signers[a] = "suspended"
  /\ SetStatus(a, "active")

Next == \E a \in Signers :
          EnrollSigner(a) \/ RevokeSigner(a) \/ SuspendSigner(a) \/ ReactivateSigner(a)

Spec == Init /\ [][Next]_vars

-----------------------------------------------------------------------------
(* The map and the version are well formed. *)
TypeOK ==
  /\ DOMAIN signers \subseteq Signers
  /\ \A a \in DOMAIN signers : signers[a] \in SignerStatus
  /\ version \in 0 .. MaxVersion

(* "Permanently removed" (types/policy.go:94): no sequence of enrolments,   *)
(* suspensions and reactivations brings a revoked signer back.              *)
KeepsRevoked == \A a \in DOMAIN signers : signers[a] = "revoked" =>
                  a \in DOMAIN signers' /\ signers'[a] = "revoked"

RevokedIsFinal == [][KeepsRevoked]_vars

(* A version names one policy: whoever holds two records of the same version *)
(* holds the same signers, since no change leaves the version where it was.  *)
VersionNamesPolicy == [][signers' # signers => version' > version]_vars

=============================================================================
