------------------------ MODULE PolicyRecoveryProofs ------------------------
(***************************************************************************)
(* Whatever is done to the storage, a process serves only a policy with a  *)
(* quorum behind it; and no restart goes back unless the storage was       *)
(* changed: for any records, guardians and updaters.                       *)
(***************************************************************************)
EXTENDS PolicyRecovery, TLAPS

(* What was recovered stays in a storage that keeps what it is given, in that *)
(* version or a later one.                                                    *)
RecoveredIsKept ==
  ~replaced /\ recovered # NoRecord =>
    stored # NoRecord /\ recovered.version <= stored.version

(* The validator of a process that serves knows what was recovered ... *)
RecoveredIsKnown ==
  process = "serving" =>
    /\ recovered # NoRecord /\ Approved(recovered)
    /\ InitialVersion < recovered.version /\ recovered.version <= lastKnownVersion

(* ... and what the program has stored. *)
StoredIsKnown ==
  process = "serving" /\ ~replaced =>
    stored # NoRecord /\ Approved(stored) /\ stored.version <= lastKnownVersion

(* RecoverPolicyState works on what is stored, or on a bootstrap record when *)
(* nothing is, before the process serves.                                    *)
StartupTask ==
  LET t == task[Startup]
  IN  t # Idle => /\ process = "starting"
                  /\ ~replaced /\ t.save => stored = NoRecord
                  /\ ~replaced /\ ~t.save => stored = t.record

(* Updates run while the process serves; one that was accepted is newer than *)
(* what this process recovered.                                              *)
UpdaterTask(u) ==
  LET t == task[u]
  IN  t # Idle => /\ process = "serving"
                  /\ t.save
                  /\ t.at \in {"save", "rename"} => t.record.version > recovered.version

(* Past its validation a record has a quorum; past its acceptance it is known. *)
Checked(c) ==
  LET t == task[c]
  IN  t # Idle => /\ t.at # "validate" => Approved(t.record)
                  /\ t.at \in {"save", "rename"} =>
                       /\ t.save
                       /\ InitialVersion < t.record.version
                       /\ t.record.version <= lastKnownVersion

Inductive ==
  /\ RecordsOK /\ InitialVersion <= lastKnownVersion
  /\ RecoveredIsKept /\ RecoveredIsKnown /\ StoredIsKnown
  /\ StartupTask
  /\ \A u \in Updaters : UpdaterTask(u)
  /\ \A c \in Callers : Checked(c)

-----------------------------------------------------------------------------
LEMMA Distinctions ==
  /\ NoRecord \notin Records /\ Idle \notin Task
  /\ \A r \in Records : r.version \in Nat
  /\ Startup \in Callers /\ \A u \in Updaters : u \in Callers /\ u # Startup
<1>1. Idle \notin Task
  BY DEF Idle, Task
<1> QED
  BY <1>1, ValidatorConstants, RecoveryConstants DEF Callers

(* A call that is at some point has a task, with a record. *)
LEMMA TaskInProgress ==
  ASSUME RecordsOK, NEW c \in Callers, task[c] # Idle
  PROVE  /\ task[c] \in Task /\ task[c].record \in Records
         /\ task[c].record.version \in Nat /\ task[c].record # NoRecord
<1>1. task[c] \in Task
  BY DEF RecordsOK
<1>2. task[c].record \in Records
  BY <1>1 DEF Task
<1> QED
  BY <1>1, <1>2, Distinctions

(* Moving a task on changes its point and nothing else. *)
LEMMA GotoMoves ==
  ASSUME RecordsOK, NEW c \in Callers, task[c] # Idle,
         NEW point \in {"validate", "commit", "save", "rename"}, Goto(c, point)
  PROVE  /\ task' \in [Callers -> Task \cup {Idle}]
         /\ task'[c] # Idle
         /\ task'[c].at = point
         /\ task'[c].record = task[c].record /\ task'[c].save = task[c].save
         /\ \A d \in Callers : d # c => task'[d] = task[d]
<1>1. task[c] \in Task
  BY TaskInProgress
<1>2. [task[c] EXCEPT !.at = point] \in Task
  BY <1>1 DEF Task
<1>3. /\ task'[c] = [task[c] EXCEPT !.at = point]
      /\ \A d \in Callers : d # c => task'[d] = task[d]
      /\ task' \in [Callers -> Task \cup {Idle}]
  BY <1>2 DEF RecordsOK, Goto
<1>4. /\ task'[c].at = point
      /\ task'[c].record = task[c].record /\ task'[c].save = task[c].save
  BY <1>1, <1>3 DEF Task
<1> QED
  BY <1>2, <1>3, <1>4, Distinctions

(* A task that ends is idle, the others stay. *)
LEMMA TaskEnds ==
  ASSUME RecordsOK, NEW c \in Callers, task' = [task EXCEPT ![c] = Idle]
  PROVE  /\ task' \in [Callers -> Task \cup {Idle}]
         /\ task'[c] = Idle
         /\ \A d \in Callers : d # c => task'[d] = task[d]
BY DEF RecordsOK

(* A record with a quorum is one that enough different guardians signed. *)
LEMMA ApprovedHasQuorum == ASSUME NEW r, Approved(r) PROVE QuorumSigned(r)
BY DEF Approved, QuorumSigned, SeenSigners

-----------------------------------------------------------------------------
LEMMA InductiveInit == Init => Inductive
<1> SUFFICES ASSUME Init PROVE Inductive
  OBVIOUS
<1>1. RecordsOK
  BY ValidatorConstants DEF Init, RecordsOK
<1>2. InitialVersion <= lastKnownVersion
  BY ValidatorConstants DEF Init
<1>3. \A c \in Callers : task[c] = Idle
  BY DEF Init
<1> QED
  BY <1>1, <1>2, <1>3, Distinctions
  DEF Init, Inductive, RecoveredIsKept, RecoveredIsKnown, StoredIsKnown, StartupTask,
      UpdaterTask, Checked

(* Only Startup and the updaters have tasks. *)
LEMMA CallerCases == ASSUME NEW c \in Callers PROVE c = Startup \/ c \in Updaters
BY DEF Callers

LEMMA StartStep ==
  ASSUME Inductive, NEW c \in Callers, NEW r \in Records, NEW save \in BOOLEAN, Start(c, r, save),
         c = Startup => /\ process = "starting"
                        /\ save => stored = NoRecord
                        /\ ~save => stored = r,
         c \in Updaters => process = "serving" /\ save
  PROVE  Inductive'
<1> DEFINE new == [at |-> "validate", record |-> r, save |-> save]
<1>1. new \in Task /\ new # Idle
  BY Distinctions DEF Task
<1>2. /\ task'[c] = new
      /\ \A d \in Callers : d # c => task'[d] = task[d]
      /\ task' \in [Callers -> Task \cup {Idle}]
  BY <1>1 DEF Start, Inductive, RecordsOK
<1>3. UNCHANGED <<lastKnownVersion, process, stored, recovered, replaced>>
  BY DEF Start, historyVars
<1>4. (RecordsOK /\ InitialVersion <= lastKnownVersion)'
  BY <1>2, <1>3 DEF Inductive, RecordsOK
<1>5. (RecoveredIsKept /\ RecoveredIsKnown /\ StoredIsKnown)'
  BY <1>3 DEF Inductive, RecoveredIsKept, RecoveredIsKnown, StoredIsKnown
<1>6. StartupTask'
  BY <1>2, <1>3, Distinctions DEF Inductive, StartupTask
<1>7. ASSUME NEW u \in Updaters PROVE UpdaterTask(u)'
  BY <1>2, <1>3, Distinctions DEF Inductive, UpdaterTask
<1>8. ASSUME NEW d \in Callers PROVE Checked(d)'
  <2>1. CASE d = c
    BY <1>2, <1>3, <2>1 DEF Checked
  <2>2. CASE d # c
    BY <1>2, <1>3, <2>2 DEF Inductive, Checked
  <2> QED
    BY <2>1, <2>2
<1> QED
  BY <1>4, <1>5, <1>6, <1>7, <1>8 DEF Inductive

(* A call that fails: the validator may have accepted its record all the same. *)
LEMMA FailStep ==
  ASSUME Inductive, NEW c \in Callers, Fail(c), c = Startup => process = "starting"
  PROVE  Inductive'
<1>1. /\ task' \in [Callers -> Task \cup {Idle}]
      /\ task'[c] = Idle
      /\ \A d \in Callers : d # c => task'[d] = task[d]
  BY TaskEnds DEF Fail, Inductive
<1>2. UNCHANGED <<lastKnownVersion, stored, recovered, replaced>>
  BY DEF Fail, historyVars
<1>3. /\ process' \in {"down", "starting", "serving", "failed"}
      /\ process' = "serving" => process = "serving"
      /\ process = "serving" => process' = "serving"
      /\ c # Startup => process' = process
  BY DEF Fail, Inductive, RecordsOK
<1>4. (RecordsOK /\ InitialVersion <= lastKnownVersion)'
  BY <1>1, <1>2, <1>3 DEF Inductive, RecordsOK
<1>5. (RecoveredIsKept /\ RecoveredIsKnown /\ StoredIsKnown)'
  BY <1>2, <1>3 DEF Inductive, RecoveredIsKept, RecoveredIsKnown, StoredIsKnown
<1>6. StartupTask'
  BY <1>1, <1>2, <1>3, Distinctions DEF Inductive, StartupTask
<1>7. ASSUME NEW u \in Updaters PROVE UpdaterTask(u)'
  BY <1>1, <1>2, <1>3, Distinctions DEF Inductive, UpdaterTask
<1>8. ASSUME NEW d \in Callers PROVE Checked(d)'
  BY <1>1, <1>2 DEF Inductive, Checked
<1> QED
  BY <1>4, <1>5, <1>6, <1>7, <1>8 DEF Inductive

(* A task that moves on to a point where its invariant holds again. *)
LEMMA GotoStep ==
  ASSUME Inductive, NEW c \in Callers, task[c] # Idle,
         NEW point \in {"validate", "commit", "save", "rename"}, Goto(c, point),
         UNCHANGED <<process, stored, recovered, replaced>>,
         lastKnownVersion' \in Nat, lastKnownVersion' >= lastKnownVersion,
         point # "validate" => Approved(task[c].record),
         point \in {"save", "rename"} =>
           /\ task[c].save /\ InitialVersion < task[c].record.version
           /\ task[c].record.version <= lastKnownVersion'
           /\ c \in Updaters => task[c].record.version > recovered.version
  PROVE  Inductive'
<1> USE DEF Inductive
<1>1. /\ task' \in [Callers -> Task \cup {Idle}]
      /\ task'[c] # Idle
      /\ task'[c].at = point
      /\ task'[c].record = task[c].record /\ task'[c].save = task[c].save
      /\ \A d \in Callers : d # c => task'[d] = task[d]
  BY GotoMoves
<1>2. lastKnownVersion \in Nat
  BY DEF RecordsOK
<1>3. RecordsOK' /\ (InitialVersion <= lastKnownVersion)'
  BY <1>1, <1>2, ValidatorConstants DEF RecordsOK
<1>4. RecoveredIsKept'
  BY DEF RecoveredIsKept
<1>5. RecoveredIsKnown' /\ StoredIsKnown'
  <2>1. /\ stored # NoRecord => stored.version \in Nat
        /\ recovered # NoRecord => recovered.version \in Nat
    BY Distinctions DEF RecordsOK
  <2> QED
    BY <1>2, <2>1 DEF RecoveredIsKnown, StoredIsKnown
<1>6. StartupTask'
  BY <1>1, Distinctions DEF StartupTask
<1>7. ASSUME NEW u \in Updaters PROVE UpdaterTask(u)'
  BY <1>1, <1>7, Distinctions DEF UpdaterTask
<1>8. ASSUME NEW d \in Callers PROVE Checked(d)'
  <2>1. CASE d = c
    BY <1>1, <2>1 DEF Checked
  <2>2. CASE d # c
    <3>1. task[d] # Idle => task[d].record.version \in Nat
      BY TaskInProgress
    <3> QED
      BY <1>1, <1>2, <2>2, <3>1 DEF Checked
  <2> QED
    BY <2>1, <2>2
<1> QED
  BY <1>3, <1>4, <1>5, <1>6, <1>7, <1>8

-----------------------------------------------------------------------------
LEMMA NotIdle ==
  ASSUME Inductive, NEW c \in Callers,
         NEW point \in {"validate", "commit", "save", "rename"}, At(c, point)
  PROVE  /\ task[c] # Idle /\ task[c].record \in Records
         /\ task[c].record.version \in Nat
         /\ c = Startup => process = "starting"
<1>1. task[c] # Idle
  BY DEF At, Idle
<1> QED
  BY <1>1, TaskInProgress DEF Inductive, StartupTask

LEMMA ValidateStep == ASSUME Inductive, NEW c \in Callers, Validate(c) PROVE Inductive'
<1>1. task[c] # Idle
  BY NotIdle DEF Validate
<1> QED
  BY <1>1, GotoStep DEF Validate, Valid, Inductive, RecordsOK, historyVars

LEMMA WriteTempStep == ASSUME Inductive, NEW c \in Callers, WriteTemp(c) PROVE Inductive'
<1>1. At(c, "save") /\ task[c] # Idle
  BY NotIdle DEF WriteTemp
<1>2. /\ Approved(task[c].record) /\ task[c].save
      /\ InitialVersion < task[c].record.version
      /\ task[c].record.version <= lastKnownVersion
  BY <1>1 DEF Inductive, Checked, At
<1>3. c \in Updaters => task[c].record.version > recovered.version
  BY <1>1 DEF Inductive, UpdaterTask, At
<1> QED
  BY <1>1, <1>2, <1>3, GotoStep DEF WriteTemp, Inductive, RecordsOK, historyVars

(* AcceptTransition returns nil: what is accepted is newer than what is      *)
(* known, hence than what was recovered.                                     *)
LEMMA AcceptStep == ASSUME Inductive, NEW c \in Callers, Accept(c) PROVE Inductive'
<1> DEFINE r == task[c].record
<1>1. /\ task[c] # Idle /\ r \in Records /\ r.version \in Nat
      /\ c = Startup => process = "starting"
  BY NotIdle DEF Accept
<1>2. Approved(r)
  BY <1>1 DEF Accept, At, Inductive, Checked
<1>3. lastKnownVersion \in Nat /\ r.version > lastKnownVersion /\ lastKnownVersion' = r.version
  BY DEF Accept, Commit, Newer, Inductive, RecordsOK
<1>4. InitialVersion < r.version
  BY <1>1, <1>3, ValidatorConstants DEF Inductive
<1>5. CASE task[c].save
  <2>1. c \in Updaters => r.version > recovered.version
    <3> SUFFICES ASSUME c \in Updaters PROVE r.version > recovered.version
      OBVIOUS
    <3>1. process = "serving"
      BY <1>1 DEF Inductive, UpdaterTask
    <3>2. recovered # NoRecord /\ recovered.version <= lastKnownVersion
      BY <3>1 DEF Inductive, RecoveredIsKnown
    <3>3. recovered.version \in Nat
      BY <3>2, Distinctions DEF Inductive, RecordsOK
    <3> QED
      BY <1>1, <1>3, <3>2, <3>3
  <2>2. Goto(c, "save") /\ UNCHANGED <<process, stored, recovered, replaced>>
    BY <1>5 DEF Accept, historyVars
  <2> QED
    BY <1>1, <1>2, <1>3, <1>4, <1>5, <2>1, <2>2, GotoStep
<1>6. CASE ~task[c].save
  <2>1. c = Startup
    BY <1>1, <1>6, CallerCases DEF Inductive, UpdaterTask
  <2>2. process = "starting"
    BY <1>1, <2>1
  <2>3. /\ task' = [task EXCEPT ![c] = Idle]
        /\ process' = "serving" /\ recovered' = r /\ stored' = stored
        /\ replaced' = (stored' # r)
    BY <1>6, <2>1 DEF Accept, Return
  <2>4. /\ task' \in [Callers -> Task \cup {Idle}]
        /\ task'[c] = Idle
        /\ \A d \in Callers : d # c => task'[d] = task[d]
    BY <2>3, TaskEnds DEF Inductive
  <2>5. \A u \in Updaters : task'[u] = Idle
    BY <2>1, <2>2, <2>4, Distinctions DEF Inductive, UpdaterTask
  <2>6. \A d \in Callers : task'[d] = Idle
    BY <2>1, <2>4, <2>5, CallerCases
  <2>7. RecordsOK' /\ (InitialVersion <= lastKnownVersion)'
    BY <1>1, <1>3, <2>3, <2>4, ValidatorConstants DEF Inductive, RecordsOK
  <2>8. ~replaced' => stored' = r
    BY <2>3
  <2>9. RecoveredIsKept' /\ StoredIsKnown'
    BY <1>1, <1>2, <1>3, <2>3, <2>8, Distinctions DEF RecoveredIsKept, StoredIsKnown
  <2>10. RecoveredIsKnown'
    BY <1>1, <1>2, <1>3, <1>4, <2>3, Distinctions DEF RecoveredIsKnown
  <2> QED
    BY <2>3, <2>6, <2>7, <2>9, <2>10, Distinctions DEF Inductive, StartupTask, UpdaterTask, Checked
<1> QED
  BY <1>5, <1>6

(* What is stored is newer than what was recovered, or the first ever. *)
LEMMA StoreStep ==
  ASSUME Inductive, NEW c \in Callers, NEW point \in {"save", "rename"}, At(c, point),
         stored' = task[c].record, task' = [task EXCEPT ![c] = Idle], UNCHANGED lastKnownVersion,
         \/ Return(c)
         \/ process' = (IF c = Startup THEN "failed" ELSE process) /\ UNCHANGED historyVars
  PROVE  Inductive'
<1> DEFINE r == task[c].record
<1>1. /\ task[c] # Idle /\ r \in Records /\ r.version \in Nat /\ r # NoRecord
      /\ c = Startup => process = "starting"
  BY NotIdle, Distinctions
<1>2. Approved(r) /\ task[c].save /\ InitialVersion < r.version /\ r.version <= lastKnownVersion
  BY <1>1 DEF At, Inductive, Checked
<1>3. /\ task' = [task EXCEPT ![c] = Idle]
      /\ stored' = r /\ lastKnownVersion' = lastKnownVersion
      /\ replaced' = FALSE \/ replaced' = replaced
  BY DEF Return, historyVars
<1>4. /\ task' \in [Callers -> Task \cup {Idle}]
      /\ task'[c] = Idle
      /\ \A d \in Callers : d # c => task'[d] = task[d]
  BY <1>3, TaskEnds DEF Inductive
<1>5. CASE c = Startup
  <2>1. /\ process = "starting"
        /\ ~replaced => recovered = NoRecord
        /\ \/ process' = "serving" /\ recovered' = r
           \/ process' = "failed" /\ recovered' = recovered /\ replaced' = replaced
    BY <1>1, <1>2, <1>5 DEF Return, historyVars, Inductive, StartupTask, RecoveredIsKept
  <2>2. \A d \in Callers : task'[d] = Idle
    BY <1>4, <1>5, <2>1, CallerCases, Distinctions DEF Inductive, UpdaterTask
  <2>3. (RecordsOK /\ InitialVersion <= lastKnownVersion)'
    BY <1>1, <1>3, <1>4, <2>1 DEF Inductive, RecordsOK
  <2>4. RecoveredIsKept' /\ RecoveredIsKnown' /\ StoredIsKnown'
    BY <1>1, <1>2, <1>3, <1>5, <2>1 DEF Inductive, Checked, RecoveredIsKept, RecoveredIsKnown, StoredIsKnown
  <2> QED
    BY <2>2, <2>3, <2>4, Distinctions DEF Inductive, StartupTask, UpdaterTask, Checked
<1>6. CASE c # Startup
  <2>1. c \in Updaters
    BY <1>6, CallerCases
  <2>2. process' = process /\ recovered' = recovered
    BY <1>6 DEF Return, historyVars
  <2>3. process = "serving" /\ r.version > recovered.version
    BY <1>1, <2>1 DEF At, Inductive, UpdaterTask
  <2>4. recovered # NoRecord /\ recovered.version \in Nat
    BY <2>3, Distinctions DEF Inductive, RecoveredIsKnown, RecordsOK
  <2>5. (RecordsOK /\ InitialVersion <= lastKnownVersion)'
    BY <1>1, <1>3, <1>4, <2>2 DEF Inductive, RecordsOK
  <2>6. RecoveredIsKept' /\ RecoveredIsKnown' /\ StoredIsKnown'
    BY <1>1, <1>2, <1>3, <2>2, <2>3, <2>4
    DEF Inductive, RecoveredIsKept, RecoveredIsKnown, StoredIsKnown
  <2>7. StartupTask'
    BY <1>4, <1>6, <2>2, <2>3, Distinctions DEF Inductive, StartupTask
  <2>8. ASSUME NEW u \in Updaters PROVE UpdaterTask(u)'
    BY <1>4, <2>2, <2>8, Distinctions DEF Inductive, UpdaterTask
  <2>9. ASSUME NEW d \in Callers PROVE Checked(d)'
    BY <1>3, <1>4, <2>9 DEF Inductive, Checked
  <2> QED
    BY <2>5, <2>6, <2>7, <2>8, <2>9 DEF Inductive
<1> QED
  BY <1>5, <1>6

LEMMA SaveStep ==
  ASSUME Inductive, NEW c \in Callers, Rename(c) \/ Upsert(c) \/ UpsertUnheard(c)
  PROVE  Inductive'
BY StoreStep DEF Rename, Upsert, UpsertUnheard, Return, historyVars

(* The process goes down, comes up or tries again: nobody is at work then. *)
LEMMA ProcessStep == ASSUME Inductive, Boot \/ Retry \/ Crash PROVE Inductive'
<1>1. /\ process # "serving" \/ process' = "down"
      /\ process' \in {"down", "starting"}
      /\ lastKnownVersion' \in Nat /\ InitialVersion <= lastKnownVersion'
      /\ UNCHANGED <<stored, recovered, replaced>>
  BY ValidatorConstants DEF Boot, Retry, Crash, historyVars, Inductive, RecordsOK
<1>2. task' \in [Callers -> Task \cup {Idle}] /\ \A d \in Callers : task'[d] = Idle
  <2>1. CASE Crash
    BY <2>1 DEF Crash
  <2>2. CASE Boot \/ Retry
    <3>1. process \notin {"starting", "serving"} /\ task' = task
      BY <2>2 DEF Boot, Retry
    <3>2. \A d \in Callers : task[d] = Idle
      BY <3>1, CallerCases DEF Inductive, StartupTask, UpdaterTask
    <3> QED
      BY <3>1, <3>2 DEF Inductive, RecordsOK
  <2> QED
    BY <2>1, <2>2
<1>3. RecordsOK'
  BY <1>1, <1>2 DEF Inductive, RecordsOK
<1>4. RecoveredIsKept' /\ RecoveredIsKnown' /\ StoredIsKnown'
  BY <1>1 DEF Inductive, RecoveredIsKept, RecoveredIsKnown, StoredIsKnown
<1> QED
  BY <1>1, <1>2, <1>3, <1>4, Distinctions DEF Inductive, StartupTask, UpdaterTask, Checked

(* Whatever is put on disk, what the program has recovered and accepted stays. *)
LEMMA StorageStep == ASSUME Inductive, StorageChanges PROVE Inductive'
<1>1. PICK r \in Records \cup {NoRecord} : stored' = r
  BY DEF StorageChanges
<1>2. /\ replaced' = TRUE
      /\ UNCHANGED <<lastKnownVersion, process, task, recovered>>
  BY DEF StorageChanges
<1>3. (RecordsOK /\ InitialVersion <= lastKnownVersion)'
  BY <1>1, <1>2 DEF Inductive, RecordsOK
<1>4. RecoveredIsKept' /\ RecoveredIsKnown' /\ StoredIsKnown' /\ StartupTask'
  BY <1>2 DEF Inductive, RecoveredIsKept, RecoveredIsKnown, StoredIsKnown, StartupTask
<1>5. ASSUME NEW u \in Updaters PROVE UpdaterTask(u)'
  BY <1>2 DEF Inductive, UpdaterTask
<1>6. ASSUME NEW c \in Callers PROVE Checked(c)'
  BY <1>2 DEF Inductive, Checked
<1> QED
  BY <1>3, <1>4, <1>5, <1>6 DEF Inductive

LEMMA LoadStep == ASSUME Inductive, LoadFound \/ LoadNothing \/ LoadFails PROVE Inductive'
<1>1. CASE LoadFound
  BY <1>1, StartStep, Distinctions DEF LoadFound, Inductive, RecordsOK
<1>2. CASE LoadNothing
  <2>1. PICK r \in Bootstraps \ {NoRecord} : Start(Startup, r, TRUE)
    BY <1>2 DEF LoadNothing
  <2>2. r \in Records
    BY RecoveryConstants
  <2> QED
    BY <1>2, <2>1, <2>2, StartStep, Distinctions DEF LoadNothing
<1>3. CASE LoadFails
  BY <1>3, FailStep, Distinctions DEF LoadFails
<1> QED
  BY <1>1, <1>2, <1>3

LEMMA InductiveStep == Inductive /\ [Next]_vars => Inductive'
<1> SUFFICES ASSUME Inductive, [Next]_vars PROVE Inductive'
  OBVIOUS
<1>1. CASE Boot \/ Retry \/ Crash
  BY <1>1, ProcessStep
<1>2. CASE LoadFound \/ LoadNothing \/ LoadFails
  BY <1>2, LoadStep
<1>3. ASSUME NEW u \in Updaters, NEW r \in Records, Update(u, r) PROVE Inductive'
  BY <1>3, StartStep, Distinctions DEF Update
<1>4. ASSUME NEW c \in Callers, Reject(c) \/ Supersede(c) \/ SaveFails(c) PROVE Inductive'
  BY <1>4, NotIdle, FailStep DEF Reject, Supersede, SaveFails
<1>5. ASSUME NEW c \in Callers, Validate(c) \/ Accept(c) \/ WriteTemp(c)
      PROVE  Inductive'
  BY <1>5, ValidateStep, AcceptStep, WriteTempStep
<1>6. ASSUME NEW c \in Callers, Rename(c) \/ Upsert(c) \/ UpsertUnheard(c) PROVE Inductive'
  BY <1>6, SaveStep
<1>7. CASE UNCHANGED vars
  BY <1>7 DEF vars, historyVars, Inductive, RecordsOK, RecoveredIsKept, RecoveredIsKnown,
              StoredIsKnown, StartupTask, UpdaterTask, Checked
<1>8. CASE StorageChanges
  BY <1>8, StorageStep
<1> QED
  BY <1>1, <1>2, <1>3, <1>4, <1>5, <1>6, <1>7, <1>8 DEF Next

LEMMA AlwaysInductive == Spec => []Inductive
BY InductiveInit, InductiveStep, PTL DEF Spec

-----------------------------------------------------------------------------
(* A process that serves has recovered a policy with a quorum behind it,     *)
(* above its InitialVersion, whatever recovery.go found in the store; and as  *)
(* long as the storage keeps what store.go puts there, that holds such a      *)
(* policy too, no older than the one recovered and known to validator.go.     *)
THEOREM ServedPolicyIsInForce == Spec => []PolicyInForce
<1>1. Inductive => PolicyInForce
  BY ApprovedHasQuorum
  DEF Inductive, RecoveredIsKept, RecoveredIsKnown, StoredIsKnown, PolicyInForce
<1> QED
  BY <1>1, AlwaysInductive, PTL

(* Only records are worked on, stored and recovered: a start-up without one,  *)
(* or with a bootstrap record that is nil, stops before it uses it.           *)
THEOREM RecoveryTypeCorrect == Spec => []TypeOK
<1>1. Init => store \in Stores
  BY DEF Init
<1>2. store \in Stores /\ [Next]_vars => (store \in Stores)'
  BY DEF Next, vars
<1>3. Inductive /\ store \in Stores => TypeOK
  BY DEF Inductive, TypeOK
<1> QED
  BY <1>1, <1>2, <1>3, AlwaysInductive, PTL DEF Spec

(* The second look of AcceptTransition keeps a process from accepting a      *)
(* version twice or going back, whoever validated what before.               *)
THEOREM ValidatorAcceptsUpwards == Spec => AcceptsUpwards
<1> DEFINE Upwards == process # "down" /\ lastKnownVersion' # lastKnownVersion
                        => lastKnownVersion' > lastKnownVersion
<1>1. [Next]_vars => [Upwards]_vars
  <2> SUFFICES ASSUME Next, process # "down", lastKnownVersion' # lastKnownVersion
               PROVE  lastKnownVersion' > lastKnownVersion
    OBVIOUS
  <2>1. PICK c \in Callers : Accept(c)
    BY DEF Next, StorageChanges, Boot, Retry, Crash, LoadFound, LoadNothing, LoadFails, Update,
           Start, Fail, Validate, Reject, Supersede, WriteTemp, Rename, Upsert, UpsertUnheard, SaveFails
  <2> QED
    BY <2>1 DEF Accept, Commit, Newer
<1> QED
  BY <1>1, PTL DEF Spec, AcceptsUpwards

(* Whatever crashes, a start recovers a version below one recovered before    *)
(* only if the storage does not hold what the program last had there: nothing *)
(* that recovery.go and store.go do by themselves takes a restart back.       *)
THEOREM OnlyStorageTakesBack == Spec => OnlyStorageGoesBack
<1> DEFINE Forward == recovered # NoRecord /\ ~replaced => recovered'.version >= recovered.version
<1>1. Inductive /\ [Next]_vars => [Forward]_vars
  <2> SUFFICES ASSUME Inductive, Next, recovered # NoRecord, ~replaced
               PROVE  recovered'.version >= recovered.version
    OBVIOUS
  <2>1. /\ stored # NoRecord /\ recovered.version <= stored.version
        /\ recovered.version \in Nat /\ stored.version \in Nat
    BY Distinctions DEF Inductive, RecoveredIsKept, RecordsOK
  <2>2. ASSUME recovered' # recovered PROVE recovered' = stored
    <3>1. PICK c \in Callers : Return(c) /\ (Accept(c) \/ Rename(c) \/ Upsert(c))
      BY <2>2 DEF Next, StorageChanges, Boot, Retry, Crash, LoadFound, LoadNothing, LoadFails,
                  Update, Start, Fail, Validate, Reject, Accept, Supersede, WriteTemp, Rename,
                  Upsert, UpsertUnheard, SaveFails, historyVars
    <3>2. c = Startup /\ recovered' = task[Startup].record
      BY <2>2, <3>1 DEF Return
    <3>3. task[Startup] # Idle
      BY <3>1, <3>2, NotIdle DEF Accept, Rename, Upsert
    <3>4. ~task[Startup].save
      BY <2>1, <3>3 DEF Inductive, StartupTask
    <3> QED
      BY <3>2, <3>3, <3>4 DEF Inductive, StartupTask
  <2> QED
    BY <2>1, <2>2
<1> QED
  BY <1>1, AlwaysInductive, PTL DEF Spec, OnlyStorageGoesBack
=============================================================================
