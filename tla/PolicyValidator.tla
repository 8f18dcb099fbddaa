--------------------------- MODULE PolicyValidator ---------------------------
(***************************************************************************)
(* internal/policy/validator.go: the check of a policy record, and the      *)
(* version the validator has accepted last.  AcceptTransition reads that    *)
(* version under the read lock, checks the record with no lock held, and    *)
(* commits under the write lock: its two halves are Valid and Commit.       *)
(***************************************************************************)
EXTENDS Naturals, FiniteSets, Sequences

CONSTANTS
  Guardians,       \* v.guardians, by ID
  QuorumThreshold, \* v.threshold
  InitialVersion,  \* cfg.InitialVersion
  Records          \* PolicyStateRecords that occur: [version, signatures], where a
                   \* signature names a signer and is good when it verifies
                   \* under that guardian's key for the hash of the record

ASSUME ValidatorConstants ==
  /\ IsFiniteSet(Guardians)
  /\ QuorumThreshold \in Nat \ {0}  \* NewValidator
  /\ InitialVersion \in Nat
  /\ \A r \in Records : r.version \in Nat

VARIABLE lastKnownVersion

Signature(r, i, g) == r.signatures[i].signer = g /\ r.signatures[i].good

(* The guardians that are counted: unknown signers and bad signatures are   *)
(* passed over, and a guardian counts once however often it signed.         *)
SeenSigners(r) == {g \in Guardians : \E i \in DOMAIN r.signatures : Signature(r, i, g)}

(* Faulty (a slip of the code, not part of the model, as every definition   *)
(* with such a suffix): repeated signatures of a guardian are counted.      *)
Approved_CountsRepeats(r) ==
  Cardinality({i \in DOMAIN r.signatures : \E g \in Guardians : Signature(r, i, g)})
    >= QuorumThreshold

Approved(r) ==
  /\ Len(r.signatures) >= QuorumThreshold
  /\ Cardinality(SeenSigners(r)) >= QuorumThreshold

(* ValidateTransition returns nil. *)
Valid(r) == r.version > lastKnownVersion /\ Approved(r)

(* Faulty: no second look at the version under the write lock. *)
Newer_Unchecked(r) == TRUE

(* The second half of AcceptTransition looks at the version again. *)
Newer(r) == r.version > lastKnownVersion

Commit(r) == Newer(r) /\ lastKnownVersion' = r.version

=============================================================================
