---------------------------- MODULE PolicyLocking ----------------------------
(***************************************************************************)
(* internal/policy/state.go under its lock: the goroutines that change,    *)
(* read and record the policy, and sm.mu, a sync.RWMutex.  PolicyState     *)
(* gives what a change does; here is when it can happen.                   *)
(*                                                                         *)
(* sync.RWMutex is external: a Lock that waits for readers to leave keeps  *)
(* new readers out, also one that holds a read lock already, and Unlock    *)
(* lets in every reader that waits before the next Lock can close the door *)
(* again.                                                                  *)
(***************************************************************************)
EXTENDS PolicyState, StateRoot

CONSTANTS Callers,   \* the goroutines that call the state manager
          Calls(_),  \* what each of them calls, of "change", "look" and "record"
          NoCaller   \* nobody

ASSUME LockingConstants ==
  NoCaller \notin Callers /\ \A c \in Callers : Calls(c) \subseteq {"change", "look", "record"}

(* IDs and keys are strings of bytes, and the map has one entry for an ID. *)
ASSUME SignerBytes ==
  /\ \A a \in Signers : Name(a) \in Seq(Nat) /\ Key(a) \in Seq(Nat)
  /\ \A a, b \in Signers : Name(a) = Name(b) => a = b

VARIABLES
  at,       \* what each caller does and how far it is
  writer,   \* the caller whose Lock has closed the door, or NoCaller
  held,     \* how many read locks each caller holds
  seen,     \* the version CreateStateRecord has read
  record,   \* the last record that was created, or NoRecord
  history   \* history variable: version -> the signers as of that version

lockVars == <<writer, held>>
callVars == <<at, seen>>
allVars == <<vars, lockVars, callVars, record, history>>

(* Before, in and behind: the Lock of a change; the RLock of a simple read;  *)
(* the RLock of CreateStateRecord and the one of the ComputeStateRoot it     *)
(* calls.                                                                    *)
ChangePoints == {"change", "drain"}
LookPoints == {"look", "lookWait", "looking"}
RecordPoints == {"record", "recordWait", "recording", "nest", "nestWait", "nested"}

Admission == [lookWait |-> "looking", recordWait |-> "recording", nestWait |-> "nested"]

NoRecord == [absent |-> TRUE]

LockingInit ==
  /\ Init
  /\ at = [c \in Callers |-> "idle"]
  /\ writer = NoCaller /\ held = [c \in Callers |-> 0]
  /\ seen = [c \in Callers |-> 0]
  /\ record = NoRecord
  /\ history = [v \in {0} |-> signers]

Goto(c, point) == at' = [at EXCEPT ![c] = point]

Call(c) ==
  /\ at[c] = "idle"
  /\ \E operation \in Calls(c) : Goto(c, operation)
  /\ UNCHANGED <<vars, lockVars, seen, record, history>>

-----------------------------------------------------------------------------
(* sm.mu.Lock() of a change: one writer at a time closes the door. *)
Lock(c) ==
  /\ at[c] = "change" /\ writer = NoCaller
  /\ writer' = c /\ Goto(c, "drain")
  /\ UNCHANGED <<vars, held, seen, record, history>>

(* The readers that waited get in. *)
Waits(c) == at[c] \in DOMAIN Admission

Unlock(c) ==
  /\ writer' = NoCaller
  /\ held' = [d \in Callers |-> IF Waits(d) THEN held[d] + 1 ELSE held[d]]
  /\ at' = [d \in Callers |-> IF d = c THEN "idle"
                               ELSE IF Waits(d) THEN Admission[at[d]] ELSE at[d]]

Inside(c) == writer = c /\ \A d \in Callers : held[d] = 0

(* Faulty: the lock is not given back when the operation is refused. *)
Refuse_KeepsLock(c) ==
  /\ Inside(c)
  /\ Goto(c, "idle")
  /\ UNCHANGED <<vars, lockVars, seen, record, history>>

(* Faulty: a change is refused, and the lock given back, while readers are    *)
(* still inside.                                                              *)
Refuse_Early(c) ==
  /\ writer = c
  /\ Unlock(c)
  /\ UNCHANGED <<vars, seen, record, history>>

(* EnrollSigner, RevokeSigner, SuspendSigner or ReactivateSigner, the whole   *)
(* of it once the last reader has left: refused with an error ...             *)
Refuse(c) ==
  /\ Inside(c)
  /\ Unlock(c)
  /\ UNCHANGED <<vars, seen, record, history>>

(* ... or done, under a new version. *)
Change(c) ==
  /\ Inside(c)
  /\ Next
  /\ history' = [v \in 0 .. version + 1 |-> IF v <= version THEN history[v] ELSE signers']
  /\ Unlock(c)
  /\ UNCHANGED <<seen, record>>

-----------------------------------------------------------------------------
(* sm.mu.RLock(): a reader enters when no writer has closed the door, and     *)
(* waits for the Unlock otherwise.                                            *)
RLock(c, waiting) ==
  /\ IF writer = NoCaller
     THEN Goto(c, Admission[waiting]) /\ held' = [held EXCEPT ![c] = @ + 1]
     ELSE Goto(c, waiting) /\ UNCHANGED held
  /\ UNCHANGED <<vars, writer, seen, record, history>>

FirstRLock(c) ==
  (at[c] = "look" /\ RLock(c, "lookWait")) \/ (at[c] = "record" /\ RLock(c, "recordWait"))
NestedRLock(c) == at[c] = "nest" /\ RLock(c, "nestWait")

(* GetSigner, GetActiveSigners, Version, ThresholdConfig, and                  *)
(* ComputeStateRoot when it is called alone: a read under one read lock.       *)
Look(c) ==
  /\ at[c] = "looking"
  /\ held' = [held EXCEPT ![c] = @ - 1] /\ Goto(c, "idle")
  /\ UNCHANGED <<vars, writer, seen, record, history>>

(* Faulty: the version is read under a lock of its own. *)
ReadVersion_Unlocks(c) ==
  /\ at[c] = "recording"
  /\ seen' = [seen EXCEPT ![c] = version]
  /\ held' = [held EXCEPT ![c] = @ - 1] /\ Goto(c, "nest")
  /\ UNCHANGED <<vars, writer, record, history>>

(* CreateStateRecord, up to its call of ComputeStateRoot. *)
ReadVersion(c) ==
  /\ at[c] = "recording"
  /\ seen' = [seen EXCEPT ![c] = version]
  /\ Goto(c, "nest")
  /\ UNCHANGED <<vars, lockVars, record, history>>

(* ComputeStateRoot, over the signers in the order a range happens to take,    *)
(* and both read locks given back.                                             *)
CreateStateRecord(c) ==
  /\ at[c] = "nested"
  /\ \E order \in SetToSeqs(DOMAIN signers) :
       record' = [version |-> seen[c], root |-> ComputeStateRoot(signers, order)]
  /\ held' = [held EXCEPT ![c] = 0] /\ Goto(c, "idle")
  /\ seen' = [seen EXCEPT ![c] = 0]
  /\ UNCHANGED <<vars, writer, history>>

-----------------------------------------------------------------------------
Step(c) == \/ Refuse(c) \/ Change(c)
           \/ FirstRLock(c) \/ NestedRLock(c)
           \/ Look(c) \/ ReadVersion(c) \/ CreateStateRecord(c)

LockingNext == \E c \in Callers : Call(c) \/ Lock(c) \/ Step(c)

LockingSpec == LockingInit /\ [][LockingNext]_allVars

(* A goroutine that can go on does; the mutex among writers, which is free    *)
(* only now and then, starves nobody.                                          *)
FairLockingSpec ==
  LockingSpec /\ \A c \in Callers : WF_allVars(Step(c)) /\ SF_allVars(Lock(c))

-----------------------------------------------------------------------------
(* A read lock is held exactly at the points behind an RLock, and the door is *)
(* closed exactly while its caller is in Lock.                                 *)
LockAgrees(c) ==
  /\ held[c] = IF at[c] = "nested" THEN 2
               ELSE IF at[c] \in {"looking", "recording", "nest", "nestWait"} THEN 1 ELSE 0
  /\ at[c] = "drain" <=> writer = c

HistoryOK == history = [v \in 0 .. version |-> history[v]] /\ history[version] = signers

(* The lock and its callers are in states the code can be in, and so agree. *)
LockingTypeOK ==
  /\ at \in [Callers -> {"idle"} \cup ChangePoints \cup LookPoints \cup RecordPoints]
  /\ writer \in Callers \cup {NoCaller}
  /\ held \in [Callers -> 0 .. 2] /\ seen \in [Callers -> 0 .. MaxVersion]
  /\ \A c \in Callers : LockAgrees(c)
  /\ HistoryOK

(* types/policy.go:20 and state.go:155-156: a record names one moment.  Its    *)
(* root is that of the signers as they were at its version, though the record  *)
(* is put together in several steps while others wait to change them.          *)
RecordsOneMoment ==
  record # NoRecord =>
    LET then == history[record.version]
    IN  \E order \in SetToSeqs(DOMAIN then) : record.root = ComputeStateRoot(then, order)

(* state.go:161, "sort for deterministic ordering", and 155, "Merkle root":     *)
(* whatever order the range over the map takes, the root is the Merkle tree     *)
(* hash of the leaves.                                                          *)
RootIsTree ==
  LET tree == TreeOf(Leaves(signers, SetToSeq(DOMAIN signers)))
  IN  \A order \in SetToSeqs(DOMAIN signers) : ComputeStateRoot(signers, order) = tree

(* validator.go: what guardians sign.  Versions with one root have the same     *)
(* signers in the same status: no signer, not even the odd one of a level, is   *)
(* left out of the root.                                                        *)
RootNamesPolicy ==
  LET RootOf(policy) == ComputeStateRoot(policy, SetToSeq(DOMAIN policy))
      records == {[root |-> RootOf(history[v]), policy |-> history[v]] : v \in DOMAIN history}
  IN  \A r, q \in records : r.root = q.root => r.policy = q.policy

(* A CreateStateRecord that holds a read lock and waits for its second one,     *)
(* behind a writer that waits for the first: neither ever goes on.              *)
Hung == \E c \in Callers : at[c] = "nestWait"

(* Every call returns, unless somebody is hung in that way: refused changes,    *)
(* queues of readers and of writers block nobody for ever.                      *)
OnlyNestedReadsHang == \A c \in Callers : at[c] # "idle" ~> (at[c] = "idle" \/ Hung)

(* state.go:240 "CreateStateRecord creates a PolicyStateRecord for the current  *)
(* state": a call of it returns.                                                *)
RecordsAreCreated ==
  \A c \in Callers : at[c] \in RecordPoints ~> at[c] = "idle"

=============================================================================
