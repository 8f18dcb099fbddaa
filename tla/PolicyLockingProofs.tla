------------------------- MODULE PolicyLockingProofs -------------------------
(***************************************************************************)
(* Proofs about the policy and its lock, for any signers and callers: the  *)
(* signer map is well formed, a revoked signer stays revoked and a version *)
(* names one policy; the goroutines under the lock do nothing else to it;  *)
(* and a record is of one moment although it is put together in steps.     *)
(***************************************************************************)
EXTENDS PolicyLocking, StateRootProofs

(* One fact about each operation of state.go: it sets the status of one      *)
(* signer, to "active" only if it was not revoked, and moves the version on. *)
LEMMA OneSignerChanges ==
  ASSUME Next
  PROVE  \E a \in Signers, status \in SignerStatus :
           /\ SetStatus(a, status)
           /\ ~(a \in DOMAIN signers /\ signers[a] = "revoked")
BY DEF Next, EnrollSigner, RevokeSigner, SuspendSigner, ReactivateSigner, Active, SignerStatus

LEMMA PolicyTypeStep == TypeOK /\ [Next]_vars => TypeOK'
<1> SUFFICES ASSUME TypeOK, [Next]_vars PROVE TypeOK'
  OBVIOUS
<1> USE PolicyConstants DEF TypeOK
<1>1. CASE Next
  <2>1. PICK a \in Signers, status \in SignerStatus : SetStatus(a, status)
    BY <1>1, OneSignerChanges
  <2> QED
    BY <2>1 DEF SetStatus
<1>2. CASE UNCHANGED vars
  BY <1>2 DEF vars
<1> QED
  BY <1>1, <1>2

LEMMA PolicyTypeInit == Init => TypeOK
BY PolicyConstants DEF Init, TypeOK

(* The signer map and the version of PolicyState are always well formed. *)
THEOREM PolicyTypeCorrect == Spec => []TypeOK
BY PolicyTypeInit, PolicyTypeStep, PTL DEF Spec

(* "Permanently removed" (types/policy.go:94): whatever is enrolled,         *)
(* suspended and reactivated, a revoked signer stays in the map, revoked.    *)
THEOREM RevokedStaysRevoked == Spec => RevokedIsFinal
<1>1. ASSUME [Next]_vars, NEW b \in DOMAIN signers, signers[b] = "revoked"
      PROVE  b \in DOMAIN signers' /\ signers'[b] = "revoked"
  <2>1. CASE Next
    <3>1. PICK a \in Signers, status \in SignerStatus :
            /\ SetStatus(a, status)
            /\ ~(a \in DOMAIN signers /\ signers[a] = "revoked")
      BY <2>1, OneSignerChanges
    <3> QED
      BY <1>1, <3>1 DEF SetStatus
  <2>2. CASE UNCHANGED vars
    BY <1>1, <2>2 DEF vars
  <2> QED
    BY <1>1, <2>1, <2>2
<1>2. [Next]_vars => [KeepsRevoked]_vars
  BY <1>1 DEF KeepsRevoked
<1> QED
  BY <1>2, PTL DEF Spec, RevokedIsFinal

(* No operation of state.go changes the signers under the same version. *)
THEOREM VersionMovesOn == Spec => VersionNamesPolicy
<1>1. TypeOK /\ [Next]_vars => [signers' # signers => version' > version]_vars
  <2> SUFFICES ASSUME TypeOK, Next, signers' # signers PROVE version' > version
    BY DEF vars
  <2>1. PICK a \in Signers, status \in SignerStatus : SetStatus(a, status)
    BY OneSignerChanges
  <2> QED
    BY <2>1, PolicyConstants DEF SetStatus, TypeOK
<1> QED
  BY <1>1, PolicyTypeCorrect, PTL DEF Spec, VersionNamesPolicy

-----------------------------------------------------------------------------
(* A CreateStateRecord that has read the version keeps the lock until it has *)
(* the root: the version it has read stays the current one.                  *)
Reading(c) == at[c] \in {"nest", "nestWait", "nested"}
VersionKept == \A c \in Callers : Reading(c) => seen[c] = version

RecordKnown == record # NoRecord => record.version \in 0 .. version

LockInv == TypeOK /\ LockingTypeOK /\ VersionKept /\ RecordKnown /\ RecordsOneMoment

(* What an operation of the policy does to the version. *)
LEMMA ChangeRaisesVersion ==
  ASSUME TypeOK, Next
  PROVE  TypeOK' /\ version' = version + 1
<1>1. PICK a \in Signers, status \in SignerStatus : SetStatus(a, status)
  BY OneSignerChanges
<1>2. TypeOK'
  BY PolicyTypeStep
<1> QED
  BY <1>1, <1>2 DEF SetStatus

LEMMA LockInvInit == LockingInit => LockInv
<1> SUFFICES ASSUME LockingInit PROVE LockInv
  OBVIOUS
<1>1. TypeOK /\ version = 0
  BY PolicyTypeInit DEF LockingInit, Init
<1>2. HistoryOK
  BY <1>1 DEF LockingInit, HistoryOK
<1>3. LockingTypeOK
  BY <1>1, <1>2, PolicyConstants, LockingConstants DEF LockingInit, LockingTypeOK, LockAgrees
<1> QED
  BY <1>1, <1>3 DEF LockingInit, LockInv, VersionKept, Reading, RecordKnown, RecordsOneMoment

-----------------------------------------------------------------------------
(* Steps that change neither the policy nor the records. *)
LEMMA QuietStep ==
  ASSUME LockInv, UNCHANGED <<vars, record, history>>
  PROVE  TypeOK' /\ HistoryOK' /\ RecordKnown' /\ RecordsOneMoment'
BY DEF LockInv, LockingTypeOK, vars, TypeOK, HistoryOK, RecordKnown, RecordsOneMoment

LEMMA CallStep ==
  ASSUME LockInv, NEW c \in Callers, Call(c)
  PROVE  LockInv'
<1> USE DEF LockInv, Call, Goto, LockingTypeOK, vars, lockVars
<1>1. PICK operation \in {"change", "look", "record"} :
        at[c] = "idle" /\ at' = [at EXCEPT ![c] = operation]
  BY LockingConstants
<1>2. TypeOK' /\ HistoryOK' /\ RecordKnown' /\ RecordsOneMoment'
  BY QuietStep
<1>3. at' \in [Callers -> {"idle"} \cup ChangePoints \cup LookPoints \cup RecordPoints]
  BY <1>1 DEF ChangePoints, LookPoints, RecordPoints
<1>4. \A d \in Callers : LockAgrees(d)'
  BY <1>1 DEF LockAgrees
<1>5. VersionKept'
  BY <1>1 DEF VersionKept, Reading
<1> QED
  BY <1>2, <1>3, <1>4, <1>5

LEMMA LockStep ==
  ASSUME LockInv, NEW c \in Callers, Lock(c)
  PROVE  LockInv'
<1> USE DEF LockInv, Lock, Goto, LockingTypeOK, vars
<1>1. TypeOK' /\ HistoryOK' /\ RecordKnown' /\ RecordsOneMoment'
  BY QuietStep
<1>2. at' \in [Callers -> {"idle"} \cup ChangePoints \cup LookPoints \cup RecordPoints]
  BY DEF ChangePoints, LookPoints, RecordPoints
<1>3. \A d \in Callers : LockAgrees(d)'
  BY LockingConstants DEF LockAgrees
<1>4. VersionKept'
  BY DEF VersionKept, Reading
<1> QED
  BY <1>1, <1>2, <1>3, <1>4

(* RLock, at each of its three places: the caller enters or waits, and holds  *)
(* one lock more if it enters.                                                *)
LEMMA RLockStep ==
  ASSUME LockInv, NEW c \in Callers, FirstRLock(c) \/ NestedRLock(c)
  PROVE  LockInv'
<1> USE DEF LockInv, RLock, Goto, Admission, LockingTypeOK, vars
<1>1. TypeOK' /\ HistoryOK' /\ RecordKnown' /\ RecordsOneMoment'
  BY QuietStep DEF FirstRLock, NestedRLock
<1>2. held[c] = IF at[c] = "nest" THEN 1 ELSE 0
  BY DEF FirstRLock, NestedRLock, LockAgrees
<1>3. at' \in [Callers -> {"idle"} \cup ChangePoints \cup LookPoints \cup RecordPoints]
  BY DEF ChangePoints, LookPoints, RecordPoints, FirstRLock, NestedRLock
<1>4. held' \in [Callers -> 0 .. 2]
  BY <1>2 DEF FirstRLock, NestedRLock
<1>5. \A d \in Callers : LockAgrees(d)'
  BY <1>2, LockingConstants DEF LockAgrees, FirstRLock, NestedRLock
<1>6. VersionKept'
  BY DEF VersionKept, Reading, FirstRLock, NestedRLock
<1> QED
  BY <1>1, <1>3, <1>4, <1>5, <1>6 DEF FirstRLock, NestedRLock

LEMMA LookStep ==
  ASSUME LockInv, NEW c \in Callers, Look(c)
  PROVE  LockInv'
<1> USE DEF LockInv, Look, Goto, LockingTypeOK, vars
<1>1. TypeOK' /\ HistoryOK' /\ RecordKnown' /\ RecordsOneMoment'
  BY QuietStep
<1>2. held[c] = 1
  BY DEF LockAgrees
<1>3. at' \in [Callers -> {"idle"} \cup ChangePoints \cup LookPoints \cup RecordPoints]
  OBVIOUS
<1>4. \A d \in Callers : LockAgrees(d)'
  BY <1>2 DEF LockAgrees
<1>5. VersionKept'
  BY DEF VersionKept, Reading
<1> QED
  BY <1>1, <1>2, <1>3, <1>4, <1>5

LEMMA ReadVersionStep ==
  ASSUME LockInv, NEW c \in Callers, ReadVersion(c)
  PROVE  LockInv'
<1> USE DEF LockInv, ReadVersion, Goto, LockingTypeOK, vars, lockVars
<1>1. TypeOK' /\ HistoryOK' /\ RecordKnown' /\ RecordsOneMoment'
  BY QuietStep
<1>2. at' \in [Callers -> {"idle"} \cup ChangePoints \cup LookPoints \cup RecordPoints]
  BY DEF RecordPoints
<1>3. \A d \in Callers : LockAgrees(d)'
  BY DEF LockAgrees
<1>4. VersionKept'
  BY DEF VersionKept, Reading
<1>5. seen' \in [Callers -> 0 .. MaxVersion]
  BY DEF TypeOK
<1> QED
  BY <1>1, <1>2, <1>3, <1>4, <1>5

(* The root is computed under the version that was read. *)
LEMMA RecordStep ==
  ASSUME LockInv, NEW c \in Callers, CreateStateRecord(c)
  PROVE  LockInv'
<1> USE DEF LockInv, CreateStateRecord, Goto, LockingTypeOK, vars
<1>1. PICK order \in SetToSeqs(DOMAIN signers) :
        record' = [version |-> seen[c], root |-> ComputeStateRoot(signers, order)]
  OBVIOUS
<1>2. seen[c] = version
  BY DEF VersionKept, Reading
<1>3. RecordKnown'
  BY <1>1, <1>2 DEF RecordKnown, TypeOK
<1>4. RecordsOneMoment'
  BY <1>1, <1>2 DEF RecordsOneMoment, HistoryOK
<1>5. TypeOK' /\ HistoryOK'
  BY DEF TypeOK, HistoryOK
<1>6. at' \in [Callers -> {"idle"} \cup ChangePoints \cup LookPoints \cup RecordPoints]
  OBVIOUS
<1>7. \A d \in Callers : LockAgrees(d)'
  BY DEF LockAgrees
<1>8. VersionKept'
  BY DEF VersionKept, Reading
<1>9. seen' \in [Callers -> 0 .. MaxVersion]
  BY PolicyConstants
<1> QED
  BY <1>3, <1>4, <1>5, <1>6, <1>7, <1>8, <1>9

-----------------------------------------------------------------------------
(* A writer is alone: whoever reads a record's parts holds a read lock.       *)
LEMMA WriterAlone ==
  ASSUME LockInv, NEW c \in Callers, Inside(c)
  PROVE  \A d \in Callers : ~Reading(d)
BY DEF LockInv, LockingTypeOK, LockAgrees, Inside, Reading

LEMMA UnlockStep ==
  ASSUME LockInv, NEW c \in Callers, Inside(c), Unlock(c), UNCHANGED seen
  PROVE  /\ at' \in [Callers -> {"idle"} \cup ChangePoints \cup LookPoints \cup RecordPoints]
         /\ writer' \in Callers \cup {NoCaller} /\ held' \in [Callers -> 0 .. 2]
         /\ \A d \in Callers : LockAgrees(d)'
         /\ VersionKept'
<1> USE DEF LockInv, LockingTypeOK, Unlock, Waits, Admission
<1>1. \A d \in Callers : at[d] # "nestWait" /\ held[d] = 0
  BY WriterAlone DEF Reading, Inside
<1>2. \A d \in Callers : d # c => writer # d
  BY DEF Inside
<1>3. at' \in [Callers -> {"idle"} \cup ChangePoints \cup LookPoints \cup RecordPoints]
  BY DEF LookPoints, RecordPoints
<1>4. ASSUME NEW d \in Callers PROVE LockAgrees(d)'
  <2>1. writer' = NoCaller /\ NoCaller # d
    BY LockingConstants
  <2>2. CASE d = c
    BY <1>1, <2>1, <2>2 DEF LockAgrees, Inside
  <2>3. CASE d # c /\ at[d] \in {"lookWait", "recordWait"}
    BY <1>1, <2>1, <2>3
       DEF LockAgrees
  <2>4. CASE d # c /\ at[d] \notin {"lookWait", "recordWait"}
    <3>1. at'[d] = at[d] /\ held'[d] = held[d]
      BY <1>1, <2>4
    <3>2. writer # d
      BY <1>2, <2>4
    <3> QED
      BY <1>1, <2>1, <3>1, <3>2 DEF LockAgrees
  <2> QED
    BY <2>2, <2>3, <2>4
<1>5. VersionKept'
  BY <1>1, WriterAlone DEF VersionKept, Reading
<1> QED
  BY <1>1, <1>3, <1>4, <1>5

LEMMA RefuseStep ==
  ASSUME LockInv, NEW c \in Callers, Refuse(c)
  PROVE  LockInv'
<1>1. TypeOK' /\ HistoryOK' /\ RecordKnown' /\ RecordsOneMoment'
  BY QuietStep DEF Refuse
<1> QED
  BY <1>1, UnlockStep DEF Refuse, LockInv, LockingTypeOK

LEMMA ChangeStep ==
  ASSUME LockInv, NEW c \in Callers, Change(c)
  PROVE  LockInv'
<1> USE DEF LockInv, LockingTypeOK
<1>1. TypeOK' /\ version' = version + 1 /\ version \in Nat
  BY ChangeRaisesVersion DEF Change, TypeOK
<1>2. HistoryOK' /\ \A v \in 0 .. version : history'[v] = history[v]
  BY <1>1 DEF Change, HistoryOK
<1>3. RecordKnown'
  BY <1>1 DEF Change, RecordKnown
<1>5. ASSUME record = NoRecord PROVE RecordsOneMoment'
  BY <1>5 DEF Change, RecordsOneMoment
<1>6. ASSUME record # NoRecord PROVE RecordsOneMoment'
  <2>1. record' = record /\ history'[record.version] = history[record.version]
    BY <1>2, <1>6 DEF Change, RecordKnown
  <2> QED
    BY <1>6, <2>1 DEF RecordsOneMoment
<1>4. seen' \in [Callers -> 0 .. MaxVersion]
  BY DEF Change
<1> QED
  BY <1>1, <1>2, <1>3, <1>4, <1>5, <1>6, UnlockStep DEF Change

-----------------------------------------------------------------------------
LEMMA LockInvStep == LockInv /\ [LockingNext]_allVars => LockInv'
<1> SUFFICES ASSUME LockInv, [LockingNext]_allVars PROVE LockInv'
  OBVIOUS
<1>1. CASE UNCHANGED allVars
  BY <1>1 DEF allVars, vars, lockVars, callVars, LockInv, TypeOK, LockingTypeOK, LockAgrees,
              HistoryOK, VersionKept, Reading, RecordKnown, RecordsOneMoment
<1>2. ASSUME NEW c \in Callers, Call(c) \/ Lock(c) \/ Step(c) PROVE LockInv'
  BY <1>2, CallStep, LockStep, RLockStep, LookStep, ReadVersionStep, RecordStep,
     RefuseStep, ChangeStep DEF Step
<1> QED
  BY <1>1, <1>2 DEF LockingNext

LEMMA LockInvHolds == LockingSpec => []LockInv
BY LockInvInit, LockInvStep, PTL DEF LockingSpec

(* state.go, sm.mu: readers and writers hold the lock exactly where the code  *)
(* says, whoever calls what and however many wait.                            *)
THEOREM LockAndCallersAgree == LockingSpec => []LockingTypeOK
<1>1. LockInv => LockingTypeOK
  BY DEF LockInv
<1> QED
  BY <1>1, LockInvHolds, PTL

(* CreateStateRecord: version and root of a record are of one moment, since    *)
(* the outer read lock keeps every change out between the two.                 *)
THEOREM RecordsAreOfOneMoment == LockingSpec => []RecordsOneMoment
<1>1. LockInv => RecordsOneMoment
  BY DEF LockInv
<1> QED
  BY <1>1, LockInvHolds, PTL

-----------------------------------------------------------------------------
(* Only Change touches the policy, and it is an operation of state.go. *)
LEMMA OnlyChanges == ASSUME [LockingNext]_allVars PROVE [Next]_vars
<1>1. ASSUME NEW c \in Callers, Call(c) \/ Lock(c) \/ Step(c) PROVE [Next]_vars
  BY <1>1 DEF Call, Lock, Step, Refuse, Change, FirstRLock, NestedRLock, RLock, Look,
              ReadVersion, CreateStateRecord
<1>2. CASE UNCHANGED allVars
  BY <1>2 DEF allVars
<1> QED
  BY <1>1, <1>2 DEF LockingNext

(* sm.mu, state.go:19: with the goroutines interleaved under the lock, the    *)
(* policy goes through the operations of PolicyState one after the other and  *)
(* through nothing else; so all that is proved of those holds for it.         *)
THEOREM LockSerializesPolicy == LockingSpec => Spec
<1>1. LockingInit => Init
  BY DEF LockingInit
<1>2. [LockingNext]_allVars => [Next]_vars
  BY OnlyChanges
<1> QED
  BY <1>1, <1>2, PTL DEF LockingSpec, Spec

(* As a consequence, under the lock too: no revoked signer comes back, and    *)
(* no two policies go by one version.                                         *)
THEOREM LockKeepsPolicyRules ==
  LockingSpec => []TypeOK /\ RevokedIsFinal /\ VersionNamesPolicy
BY LockSerializesPolicy, PolicyTypeCorrect, RevokedStaysRevoked, VersionMovesOn, PTL

-----------------------------------------------------------------------------
(* Every policy there was is a finite map of signers. *)
IsPolicy(policy) ==
  /\ IsFiniteSet(DOMAIN policy) /\ DOMAIN policy \subseteq Signers
  /\ policy = [a \in DOMAIN policy |-> policy[a]]

PoliciesAreMaps == \A v \in DOMAIN history : IsPolicy(history[v])

LEMMA ChangeKeepsMap ==
  ASSUME NEW a \in Signers, NEW status, SetStatus(a, status), IsPolicy(signers)
  PROVE  IsPolicy(signers')
<1>1. signers' = [b \in DOMAIN signers \cup {a} |-> IF b = a THEN status ELSE signers[b]]
  BY DEF SetStatus
<1>2. DOMAIN signers' = DOMAIN signers \cup {a}
  BY <1>1
<1>3. IsFiniteSet(DOMAIN signers \cup {a}) /\ DOMAIN signers \cup {a} \subseteq Signers
  BY FS_AddElement DEF IsPolicy
<1>4. signers' = [b \in DOMAIN signers' |-> signers'[b]]
  BY <1>1
<1> QED
  BY <1>2, <1>3, <1>4 DEF IsPolicy

LEMMA PoliciesAreMapsInit == LockingInit => PoliciesAreMaps
<1> SUFFICES ASSUME LockingInit PROVE PoliciesAreMaps
  OBVIOUS
<1>1. signers = [a \in {} |-> "active"] /\ DOMAIN signers = {}
  BY DEF LockingInit, Init
<1>2. IsPolicy(signers)
  BY <1>1, FS_EmptySet DEF IsPolicy
<1>3. \A v \in DOMAIN history : history[v] = signers
  BY DEF LockingInit
<1> QED
  BY <1>2, <1>3 DEF PoliciesAreMaps

LEMMA PoliciesAreMapsStep ==
  LockInv /\ PoliciesAreMaps /\ [LockingNext]_allVars => PoliciesAreMaps'
<1> SUFFICES ASSUME LockInv, PoliciesAreMaps, [LockingNext]_allVars PROVE PoliciesAreMaps'
  OBVIOUS
<1>1. version \in Nat /\ DOMAIN history = 0 .. version /\ history[version] = signers
  BY DEF LockInv, LockingTypeOK, HistoryOK, TypeOK
<1>2. ASSUME NEW c \in Callers, Change(c) PROVE PoliciesAreMaps'
  <2>1. PICK a \in Signers, status \in SignerStatus : SetStatus(a, status)
    BY <1>2, OneSignerChanges DEF Change
  <2>2. IsPolicy(signers)
    BY <1>1 DEF PoliciesAreMaps
  <2>3. IsPolicy(signers')
    BY <2>1, <2>2, ChangeKeepsMap
  <2>4. history' = [v \in 0 .. version + 1 |-> IF v <= version THEN history[v] ELSE signers']
    BY <1>2 DEF Change
  <2>5. ASSUME NEW v \in 0 .. version + 1 
        PROVE  \/ history'[v] = signers'
               \/ v \in DOMAIN history /\ history'[v] = history[v]
    <3>1. CASE v = version + 1
      BY <1>1, <2>4, <3>1
    <3>2. CASE v # version + 1
      <4>1. v \in 0 .. version
        BY <1>1, <3>2
      <4> QED
        BY <1>1, <2>4, <4>1
    <3> QED
      BY <3>1, <3>2
  <2>6. DOMAIN history' = 0 .. version + 1
    BY <2>4
  <2> QED
    BY <2>3, <2>5, <2>6, Zenon DEF PoliciesAreMaps, IsPolicy
<1>3. ASSUME UNCHANGED history PROVE PoliciesAreMaps'
  BY <1>3 DEF PoliciesAreMaps, IsPolicy
<1>4. ASSUME NEW c \in Callers, Call(c) \/ Lock(c) \/ Step(c)
      PROVE  Change(c) \/ UNCHANGED history
  BY <1>4 DEF Call, Lock, Step, Refuse, FirstRLock, NestedRLock, RLock, Look,
              ReadVersion, CreateStateRecord
<1>5. CASE UNCHANGED allVars
  BY <1>3, <1>5 DEF allVars
<1> QED
  BY <1>2, <1>3, <1>4, <1>5 DEF LockingNext

LEMMA PoliciesAreMapsHolds == LockingSpec => [](LockInv /\ PoliciesAreMaps)
BY LockInvHolds, LockInvInit, LockInvStep, PoliciesAreMapsInit, PoliciesAreMapsStep, PTL DEF LockingSpec

LEMMA SignersHaveBytes ==
  ASSUME NEW S \in SUBSET Signers PROVE Symbolic(S) /\ Named(S) /\ NamesApart(S)
BY SignerBytes DEF Symbolic, Named, NamesApart

(* state.go:155 and 161: the root of the current signers is the Merkle tree   *)
(* hash of their leaves, in whatever order the range over the map takes them. *)
THEOREM RootsAreTrees == LockingSpec => []RootIsTree
<1>1. ASSUME LockInv, PoliciesAreMaps PROVE RootIsTree
  <2>1. IsPolicy(signers)
    BY <1>1 DEF PoliciesAreMaps, LockInv, LockingTypeOK, HistoryOK, TypeOK
  <2>2. PICK S \in SUBSET Signers : S = DOMAIN signers /\ IsFiniteSet(S)
    BY <2>1 DEF IsPolicy
  <2>3. Named(S) /\ NamesApart(S) /\ SetToSeq(S) \in SetToSeqs(S)
    BY <2>2, SignersHaveBytes, SetsHaveOrders
  <2>4. \A order \in SetToSeqs(S) :
          ComputeStateRoot(signers, order) = TreeOf(Leaves(signers, SetToSeq(S)))
    BY <2>2, <2>3, StateRootIsTree
  <2> QED
    BY <2>2, <2>4 DEF RootIsTree
<1> QED
  BY <1>1, PoliciesAreMapsHolds, PTL

(* validator.go, what guardians sign: two versions with one root have the      *)
(* same signers in the same status, unless the ID and key of one signer,       *)
(* written one after the other, are those of another one.                      *)
THEOREM RootsNamePolicies ==
  ASSUME IDsAndKeysApart(Signers) PROVE LockingSpec => []RootNamesPolicy
<1>1. ASSUME PoliciesAreMaps, NEW v \in DOMAIN history, NEW w \in DOMAIN history,
             ComputeStateRoot(history[v], SetToSeq(DOMAIN history[v]))
               = ComputeStateRoot(history[w], SetToSeq(DOMAIN history[w]))
      PROVE  history[v] = history[w]
  <2>1. PICK x, y : x = history[v] /\ y = history[w] /\ IsPolicy(x) /\ IsPolicy(y)
    BY <1>1 DEF PoliciesAreMaps
  <2>2. PICK S \in SUBSET Signers, T \in SUBSET Signers :
          S = DOMAIN x /\ T = DOMAIN y /\ IsFiniteSet(S) /\ IsFiniteSet(T)
    BY <2>1 DEF IsPolicy
  <2>3. PICK o, p : o = SetToSeq(S) /\ p = SetToSeq(T) /\ o \in SetToSeqs(S) /\ p \in SetToSeqs(T)
    BY <2>2, SetsHaveOrders
  <2>4. ComputeStateRoot(x, o) = ComputeStateRoot(y, p)
    BY <1>1, <2>1, <2>2, <2>3
  <2>5. Symbolic(S \cup T) /\ NamesApart(S \cup T) /\ IDsAndKeysApart(S \cup T)
    <3>1. S \cup T \in SUBSET Signers
      OBVIOUS
    <3> QED
      BY <3>1, SignersHaveBytes DEF IDsAndKeysApart
  <2>6. S = T /\ \A a \in S : x[a] = y[a]
    BY <2>2, <2>3, <2>4, <2>5, StateRootNamesPolicy
  <2>7. x = [a \in S |-> x[a]] /\ y = [a \in T |-> y[a]]
    BY <2>1, <2>2 DEF IsPolicy
  <2>8. x = y
    BY <2>6, <2>7
  <2> QED
    BY <2>1, <2>8
<1>2. ASSUME PoliciesAreMaps PROVE RootNamesPolicy
  BY <1>1, <1>2 DEF RootNamesPolicy
<1> QED
  BY <1>2, PoliciesAreMapsHolds, PTL

=============================================================================
