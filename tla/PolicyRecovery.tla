---------------------------- MODULE PolicyRecovery ----------------------------
(***************************************************************************)
(* internal/policy/recovery.go over the validator and a store: how the     *)
(* policy record in force gets into a coordinator process and onto disk,   *)
(* through failures of the store, crashes and restarts.                    *)
(*                                                                         *)
(* The store is a FileStateStore, which writes a temporary file and        *)
(* renames it under s.mu, so that what can be loaded changes at the        *)
(* rename; or a SQLiteStateStore, which upserts one row.                   *)
(*                                                                         *)
(* Once the process serves, Updaters (goroutines outside this repository)  *)
(* do with new records what RecoverPolicyState does with a bootstrap       *)
(* record: AcceptTransition, then SavePolicyState.                         *)
(*                                                                         *)
(* store.go treats storage as untrusted: what it holds can be exchanged at *)
(* any moment for another record, an older one of the program's included.  *)
(***************************************************************************)
EXTENDS PolicyValidator

CONSTANTS
  Updaters,   \* who submits new records
  Bootstraps, \* the bootstrap records processes are started with; NoRecord
              \* when there is none or AllowBootstrap is off
  Stores      \* the kinds of store that are used: "file", "sqlite"

VARIABLES
  store,      \* which of the two stores it is, the same in every process
  process,    \* "down", "starting" (RecoverPolicyState may run), "serving", "failed"
  task,       \* what the start-up and each updater are doing with which record
  stored,     \* what the store holds, NoRecord if nothing
  recovered,  \* history: what RecoverPolicyState returned last, in any process
  replaced    \* history: the storage was changed behind the program's back since
              \* the program last recovered or saved what is in it

historyVars == <<recovered, replaced>>
vars == <<store, lastKnownVersion, process, task, stored, historyVars>>

NoRecord == [absent |-> TRUE]
Startup == "startup"
Callers == {Startup} \cup Updaters

ASSUME RecoveryConstants == Startup \notin Updaters /\ NoRecord \notin Records
                              /\ Bootstraps \subseteq Records \cup {NoRecord}
                              /\ Stores \subseteq {"file", "sqlite"}

Idle == [at |-> "idle"]

(* A call in progress: before or after its validation, before or after the  *)
(* temporary file; save tells whether the record is still to be stored.     *)
Task == [at : {"validate", "commit", "save", "rename"}, record : Records, save : BOOLEAN]

At(c, point) == task[c].at = point
Goto(c, point) == task' = [task EXCEPT ![c].at = point]

(* A first start, or one over a record that was stored before. *)
Init ==
  /\ lastKnownVersion = InitialVersion
  /\ store \in Stores
  /\ process = "down"
  /\ task = [c \in Callers |-> Idle]
  /\ stored \in Records \cup {NoRecord}
  /\ recovered = NoRecord /\ replaced = FALSE

-----------------------------------------------------------------------------
(* A call returns; RecoverPolicyState decides whether the process serves. *)
Return(c) ==
  /\ task' = [task EXCEPT ![c] = Idle]
  /\ replaced' = (stored' # task[c].record)
  /\ IF c = Startup
     THEN process' = "serving" /\ recovered' = task[c].record
     ELSE UNCHANGED <<process, recovered>>

Fail(c) ==
  /\ task' = [task EXCEPT ![c] = Idle]
  /\ process' = IF c = Startup THEN "failed" ELSE process
  /\ UNCHANGED <<lastKnownVersion, stored, historyVars>>

Start(c, r, save) ==
  /\ task[c] = Idle
  /\ task' = [task EXCEPT ![c] = [at |-> "validate", record |-> r, save |-> save]]
  /\ UNCHANGED <<lastKnownVersion, process, stored, historyVars>>

-----------------------------------------------------------------------------
(* RecoverPolicyState, up to its call of AcceptTransition. *)

(* Faulty: the persisted record is returned without being accepted. *)
LoadFound_Trusted ==
  /\ process = "starting" /\ task[Startup] = Idle /\ stored # NoRecord
  /\ process' = "serving" /\ recovered' = stored /\ replaced' = FALSE
  /\ UNCHANGED <<lastKnownVersion, task, stored>>

LoadFound ==
  /\ process = "starting"
  /\ stored # NoRecord
  /\ Start(Startup, stored, FALSE)

(* Faulty: a bootstrap record that is nil is not refused. *)
LoadNothing_NilRecord ==
  /\ process = "starting"
  /\ stored = NoRecord
  /\ \E r \in Bootstraps : Start(Startup, r, TRUE)

LoadNothing ==
  /\ process = "starting"
  /\ stored = NoRecord
  /\ \E r \in Bootstraps \ {NoRecord} : Start(Startup, r, TRUE)

(* The store cannot be read, or holds nothing and there is no bootstrap. *)
LoadFails ==
  /\ process = "starting" /\ task[Startup] = Idle
  /\ Fail(Startup)

-----------------------------------------------------------------------------
(* AcceptTransition. *)
Validate(c) ==
  /\ At(c, "validate") /\ Valid(task[c].record)
  /\ Goto(c, "commit")
  /\ UNCHANGED <<lastKnownVersion, process, stored, historyVars>>

Reject(c) == At(c, "validate") /\ ~Valid(task[c].record) /\ Fail(c)

Accept(c) ==
  /\ At(c, "commit")
  /\ Commit(task[c].record)
  /\ UNCHANGED stored
  /\ IF task[c].save THEN Goto(c, "save") /\ UNCHANGED <<process, historyVars>>
     ELSE Return(c)

Supersede(c) == At(c, "commit") /\ ~Newer(task[c].record) /\ Fail(c)

-----------------------------------------------------------------------------
(* SavePolicyState. *)

(* The temporary file is written, with s.mu held from here to the rename. *)
WriteTemp(c) ==
  /\ store = "file" /\ At(c, "save") /\ \A d \in Callers : ~At(d, "rename")
  /\ Goto(c, "rename")
  /\ UNCHANGED <<lastKnownVersion, process, stored, historyVars>>

Rename(c) ==
  /\ At(c, "rename")
  /\ stored' = task[c].record
  /\ Return(c)
  /\ UNCHANGED lastKnownVersion

(* SQLite replaces the row, whichever version it has. *)
Upsert(c) ==
  /\ store = "sqlite" /\ At(c, "save")
  /\ stored' = task[c].record
  /\ Return(c)
  /\ UNCHANGED lastKnownVersion

(* It may do so, and the call be told that its context was cancelled. *)
UpsertUnheard(c) ==
  /\ store = "sqlite" /\ At(c, "save")
  /\ stored' = task[c].record
  /\ task' = [task EXCEPT ![c] = Idle]
  /\ process' = IF c = Startup THEN "failed" ELSE process
  /\ UNCHANGED <<lastKnownVersion, historyVars>>

(* The context is cancelled, or one of the operations on the file or the     *)
(* database fails.  The validator has accepted the record all the same.      *)
SaveFails(c) == (At(c, "save") \/ At(c, "rename")) /\ Fail(c)

-----------------------------------------------------------------------------
(* A new process, with a validator of its own. *)
Boot ==
  /\ process = "down"
  /\ process' = "starting" /\ lastKnownVersion' = InitialVersion
  /\ UNCHANGED <<task, stored, historyVars>>

(* After a failure RecoverPolicyState is called again in the same process. *)
Retry ==
  /\ process = "failed" /\ process' = "starting"
  /\ UNCHANGED <<lastKnownVersion, task, stored, historyVars>>

Update(u, r) == process = "serving" /\ Start(u, r, TRUE)

(* The process ends at any point; the store keeps what was renamed into it. *)
Crash ==
  /\ process # "down" /\ process' = "down"
  /\ task' = [c \in Callers |-> Idle]
  /\ UNCHANGED <<lastKnownVersion, stored, historyVars>>

(* Whoever else has the disk puts a record in, an old one for instance, or    *)
(* takes away what is there.  Bytes that are no record make LoadFails.        *)
StorageChanges ==
  /\ \E r \in Records \cup {NoRecord} : r # stored /\ stored' = r
  /\ replaced' = TRUE
  /\ UNCHANGED <<lastKnownVersion, process, task, recovered>>

Next ==
  /\ \/ StorageChanges
     \/ Boot \/ Retry \/ Crash
     \/ LoadFound \/ LoadNothing \/ LoadFails
     \/ \E u \in Updaters, r \in Records : Update(u, r)
     \/ \E c \in Callers :
          \/ Validate(c) \/ Reject(c) \/ Accept(c) \/ Supersede(c)
          \/ WriteTemp(c) \/ Rename(c) \/ Upsert(c) \/ UpsertUnheard(c) \/ SaveFails(c)
  /\ UNCHANGED store

Spec == Init /\ [][Next]_vars

-----------------------------------------------------------------------------
(* The state is well formed: only records are worked on and stored. *)
RecordsOK ==
  /\ lastKnownVersion \in Nat
  /\ process \in {"down", "starting", "serving", "failed"}
  /\ task \in [Callers -> Task \cup {Idle}]
  /\ stored \in Records \cup {NoRecord}
  /\ recovered \in Records \cup {NoRecord}
  /\ replaced \in BOOLEAN

TypeOK == RecordsOK /\ store \in Stores

(* validator.go:92-95, store.go:21-22 and reference-impl/README.md:45:        *)
(* whatever is or was put on disk, and whichever crashes, failures and        *)
(* concurrent updates came before, a process that serves has recovered a      *)
(* policy that Threshold different guardians signed, above the version it was *)
(* configured with.  As long as the storage keeps what the program wrote, it  *)
(* has such a policy in it, no older than the one the process recovered and   *)
(* no newer than what its validator knows.                                    *)
QuorumSigned(r) ==
  \E Q \in SUBSET Guardians :
    /\ Cardinality(Q) >= QuorumThreshold
    /\ \A g \in Q : \E i \in DOMAIN r.signatures : Signature(r, i, g)

PolicyInForce ==
  process = "serving" =>
    /\ recovered # NoRecord /\ QuorumSigned(recovered)
    /\ InitialVersion < recovered.version /\ recovered.version <= lastKnownVersion
    /\ ~replaced => /\ stored # NoRecord /\ QuorumSigned(stored)
                    /\ recovered.version <= stored.version
                    /\ stored.version <= lastKnownVersion

(* validator.go:148-149 and 158: within a process no version is accepted      *)
(* that is not above all accepted before, though records are validated        *)
(* concurrently against the same version.                                     *)
AcceptsUpwards ==
  [][process # "down" /\ lastKnownVersion' # lastKnownVersion
       => lastKnownVersion' > lastKnownVersion]_vars

(* recovery.go:28-30 and store.go:76: a restart goes back behind a policy     *)
(* that was recovered earlier only if the storage was changed behind the      *)
(* program's back.  The program itself never makes it so, though a crash may   *)
(* lose updates that were not stored and one save may overtake another.       *)
OnlyStorageGoesBack ==
  [][recovered # NoRecord /\ ~replaced => recovered'.version >= recovered.version]_vars

(* types/policy.go:14 "policy_version must strictly increase across           *)
(* restarts": no restart goes back at all, whoever writes to the disk.        *)
RecoversForward ==
  [][recovered # NoRecord => recovered'.version >= recovered.version]_vars

=============================================================================
