# Attested custody: specification, model checking and proofs

TLA+ specifications of the reference implementation in `src/reference-impl`, the
coordinator of a threshold-signing service whose signers run in attested
enclaves. TLC checks the specifications on small instances; TLAPS proves the
central safety properties for every value of the constants. Paths below are
relative to `src/reference-impl` unless they start with `src/`.

## The system

| component | state | operations | called by |
|---|---|---|---|
| Session manager (`internal/session/manager.go`) | sessions by ID, request ID index, payload index, one RWMutex | CreateSession, GetSession, IssueChallenge, SubmitAttestation, RecordCommitment, RecordShare, CleanupExpired | gRPC server; nothing in the repository calls CleanupExpired, a deployment would from a timer |
| Nonce manager (`internal/attestation/nonce.go`) | nonces issued, with time and used flag, its own lock | Issue, Validate, Cleanup | session manager; Cleanup likewise a timer |
| Attestation verifier (`internal/attestation/verifier.go`) | none (expected PCRs, roots) | Verify | session manager, parser |
| Document parser (`internal/attestation/parser.go`) | none | VerifyRaw | nobody yet |
| Policy state manager (`internal/policy/state.go`) | enrolled signers and their status, version, threshold, its own RWMutex | EnrollSigner, RevokeSigner, SuspendSigner, ReactivateSigner, GetSigner, GetActiveSigners, ComputeStateRoot, CreateStateRecord | session manager (reads), administration |
| Transition validator (`internal/policy/validator.go`) | last known version, guardians | ValidateTransition, AcceptTransition | recovery |
| Startup recovery (`internal/policy/recovery.go`) | none | RecoverPolicyState | start-up |
| Stores (`internal/policy/store.go`, `store_sqlite.go`) | one persisted record | SavePolicyState, LoadLatestPolicyState | recovery |
| gRPC server (`internal/api/grpc/server.go`) | none | CreateSession, IssueChallenge, SubmitAttestation, GetSession | clients |
| Audit events (`internal/audit/events.go`) | none | Emit | gRPC server |
| Types (`pkg/types`) | | | all |

**Interaction.** A client creates a session for a payload. The session manager
reads the policy to choose the participants, files the session under the
request ID and under a key made of the payload and the participants, and gives
it a deadline. Each participant asks for a challenge (a nonce) and submits an
attestation document that carries it; the nonce is used up, the document
verified, and the participant marked. With `Threshold` participants marked the
session goes on to the commit phase, with as many commitments to the sign
phase, with as many shares it is complete. Clean-up removes sessions past their
deadline and old nonces.

**What is hard.** Three locks (manager, nonces, policy), taken one inside the
other or one after the other; a session that several clients share without
knowing; retries and repeated submissions; a deadline that is looked at by some
operations and not by others; a status ("expired") that is set lazily; two
indexes that must agree with the session table through clean-up; a policy that
changes while sessions run; for the policy record, a version counter that is
checked, accepted and persisted in separate steps.

**What makes each component correct.**

* Nonce manager: a nonce is a one-time challenge, answerable for exactly its
  lifetime, and forgetting one never makes it answerable again.
* Policy state: revocation is final; a version names one policy.
* Session manager: no phase without a quorum of different attested signers; no
  attestation counts twice; one live session per payload and signer set; the
  indexes lead to the right sessions; retries are idempotent; phases go in
  order; calls return although the policy is read under the manager's lock.
* Validator, recovery, stores: no policy without a quorum of different guardians,
  whatever is on disk; within a process the accepted version never goes back, and
  over crashes and restarts the program never takes itself back. (That a changed
  storage can, see `rollback` below.)
* Policy state under its lock: a record is of one moment and its root is a
  function of the policy; whoever waits for the lock is let in.
* Verifier and parser: the verdict is the first requirement that fails, and what
  is noted as checked was checked.
* Server: answers read outside the lock do not go backwards, and the log gives
  one verdict on each challenge.

## The modules

| module | models | remarks |
|---|---|---|
| `OneTimeChallenge` | (abstract) | what a source of challenges promises: Give, Answer, Advance |
| `NonceManager` | `nonce.go` | one action per operation; the n-th nonce is the number n |
| `NonceHistory` | | adds a count of accepted answers and the refinement mapping to `OneTimeChallenge` |
| `PolicyState` | `state.go`, operations on signers | one action per operation |
| `PolicyLocking` | `state.go`, its RWMutex and its callers, over `PolicyState` and `StateRoot` | see below |
| `StateRoot` | `ComputeStateRoot` and the three hashes below it, over `PayloadKeys` for the sort | operators; hashes are injective; the tree the rounds are to make is defined beside them |
| `AttestationVerifier` | `verifier.go` | `Verify`, the checks in order, as an operator |
| `DocumentParser` | `parser.go`, over `AttestationVerifier` | see below |
| `PayloadKeys` | `computePayloadKey` and the `sort.Strings` it and `ComputeStateRoot` call | a sorted list is an arrangement of the list that ascends in byte order; concatenation over IDs of explicit bytes |
| `SessionManager` | `manager.go`, over the modules above | see below |
| `SigningSessions` | (abstract) | what the coordinator promises of a session: Open, Attest, Commit, Share, Expire, Remove over sets of signers |
| `CoordinatorAPI` | `server.go`, over `SessionManager` | see below |
| `PolicyValidator` | `validator.go` | the check of a record and the two looks at the version, as operators |
| `PolicyRecovery` | `recovery.go`, `store.go`, `store_sqlite.go`, over `PolicyValidator` | see below |
| `SessionInvariants` | | the inductive invariant, in named parts, and the refinement mapping to `SigningSessions` |
| `ManagerLocking` | the lock of `manager.go` and, inside it, the policy's, over `PolicyLocking` | see below |
| `SessionClaims` | | statements of the documentation that the code does not keep |
| `NonceProofs`, `PolicyLockingProofs`, `PolicyRecoveryProofs`, `StateRootProofs`, `SessionSafetyProofs`, `SessionPhaseProofs`, `CoordinatorProofs`, `DocumentProofs` | | theorems and proofs |
| `MC*` | | values of the constants for TLC |

### SessionManager, action by action

`sessions`, `requestIndex` and `sessionsByPayload` are the three maps of
`Manager`. The per-participant Booleans are sets of positions of the
participant list (`attested`, `committed`, `shared`), so that a list that names
a signer twice is represented as the code represents it. `attestations` keeps
of each recorded document the nonce it carried. A session ID, like a nonce, is
random in the code; the n-th one drawn is n.

* The manager's lock is held throughout `SubmitAttestation`,
  `RecordCommitment`, `RecordShare` and `CleanupExpired`. Everything they read
  is guarded by it, but for one call into the nonce table, which is atomic under
  the table's lock; so each path through them is one action (`SubmitLate`,
  `SubmitRejected`, `SubmitAccepted`, `RecordCommitment`, `RecordShare`,
  `CleanupExpired`). A return that changes nothing is no action.
* `CreateSession` reads the policy, which others change under the policy's own
  lock. It is split at each read: `CreateSession` takes the lock and makes the
  idempotency check, `ReadRequired` / `RefuseRequired` look at one required
  signer each, `ReadActive` is the one read without required signers, and
  `CreateFails`, `CreateReuses`, `CreateNew` are the ways out. While it runs,
  `call` holds its locals and stands for the lock.
* `IssueChallenge` releases the lock before it asks for a nonce: `IssueChallenge`
  is its first half, `IssueNonce` / `IssueFails` the second.
* `CleanupNonces`, `Tick` and `PolicyChange` go on beside the lock.
* `CleanupExpired` removes one key per session, whichever the range over the map
  meets first, and leaves the request index alone.

### CoordinatorAPI, action by action

`serving` is what the handler of each client is at, `shown` what the client was
last told of a session, `audited` the verdicts in the log under the nonce each
was given on. The handlers hold no lock. A request their own validation refuses
touches nothing and is no action.

* `APICreateSession` enters the manager's `CreateSession`, whose steps go on as
  in `SessionManager`; when the lock is free again the handler holds the session
  (`Returned`). A known request ID is answered at once.
* `APIGetSession` finds a session under the read lock; `Answer` and
  `AnswerCreate` read it after the lock is released. In between, `Later` collects
  every value the session takes, also through callers that are not gRPC clients.
  An answer takes each field from a moment of its own, and a status that was
  written meanwhile may be torn: it is a two-word string and the read a data
  race.
* `APISubmit` is the manager's `SubmitAttestation` with the document the handler
  builds: nothing in the request becomes a certificate chain. `Emit` logs and
  answers afterwards. The disjunct of `APISubmit` for an accepted attestation is
  kept because the code has it, and is never taken: see "Where the code and its
  documentation differ".
* `Elsewhere` is any step of the manager, also for callers in the same process
  that submit complete documents.

### PolicyLocking, action by action

`at` is where each goroutine is, `writer` the one whose `Lock` has closed the
door to new readers, `held` the read locks each holds, `seen` the version
`CreateStateRecord` has read, `record` the last record, `history` the signers
as of each version.

* `Call` starts an operation. `Lock` closes the door; the operation itself,
  `Change` or, with an error, `Refuse`, happens when the last reader has left,
  and its `Unlock` lets every waiting reader in.
* `RLock` enters or waits; `FirstRLock` is that of a simple read or of
  `CreateStateRecord`, `NestedRLock` that of the `ComputeStateRoot` it calls.
* `Look` is any read under one lock. `ReadVersion` and `CreateStateRecord` are
  the two halves of `CreateStateRecord`: the version is read first, the root
  computed in the nested call, over the signers in any order a range may take.
* Fields that are equal in every policy the model can reach (the threshold
  configuration) are one symbol in the hash; the time stamp of a record is left
  out.

### ManagerLocking, action by action

What `CreateSession` does is in `SessionManager`; here is what it waits for.
`client` says whether a client is outside the manager, waits for `m.mu` or is
inside, `holder` who has the lock, `looks` how often the call may still read the
policy.

* `CallManager` and `Enter` are a call of any operation of the manager and its
  `m.mu.Lock()`; one that does not read the policy has no looks.
* `ReadPolicy` starts a read of the policy under the manager's lock. It goes on
  as `Look` does in `PolicyLocking` and waits where that waits.
* `Leave` is the deferred unlock, after all reads or between any two of them,
  where a signer is refused.
* `PolicyStep` is what goes on in `PolicyLocking`, for clients and others.

### DocumentParser

A behaviour is a sequence of calls of `VerifyRaw`. A call is a parser that is
there or not, bytes that are empty, garbage or a document, what the parser makes
of them (perhaps nil) and the nonce expected. `Stamped` is the time stamp the
code fills in; `late` the time between its reading of the clock and that of
`Verify`; `PCRsChecked` follows the range over the expected PCRs in an arbitrary
order.

### PolicyRecovery, action by action

`lastKnownVersion` is the validator's. `process` says how far the coordinator
process is, `task` what the start-up and each updater are doing and with which
record, `stored` is what the store would load. `recovered` and `replaced` are
history: what was recovered last, in any process, and whether the storage was
changed behind the program's back since the program last recovered or saved what
is in it.

* `RecoverPolicyState` is `LoadFound`, `LoadNothing` or `LoadFails`, then the
  steps of `AcceptTransition`, then, for a bootstrap record, those of
  `SavePolicyState`. `AllowBootstrap` off is a bootstrap record that is absent.
* `AcceptTransition` is `Validate` / `Reject` (one read of the version under the
  read lock; the checks of signatures look at nothing that changes) and `Accept`
  / `Supersede` (under the write lock).
* `SavePolicyState` of the file store is `WriteTemp`, from which on the mutex is
  held, and `Rename`; `SaveFails` stands for an error at any point. What can be
  loaded changes at the rename only, so the temporary file is no variable. With
  the SQLite store, which `store` tells, it is one step, `Upsert`; or
  `UpsertUnheard`, when the context is cancelled while the statement runs and
  the caller is told of an error though the row was replaced.
* `Crash` ends the process anywhere, `Boot` starts one with a new validator at
  `InitialVersion`, `Retry` calls `RecoverPolicyState` again in the same process.
  After a failed save of a bootstrap record such a retry is always refused as a
  rollback, until the process is restarted: the validator keeps what it accepted.
* `Update`: no code in the repository submits new records after the start. The
  model lets goroutines do so the way `RecoverPolicyState` does with a bootstrap
  record, accept first and save then.

* `StorageChanges`: `store.go` treats storage as untrusted, so at any moment,
  while the process runs, starts or is down, another record can be put in the
  store, an older one for instance or one that no quorum signed, or what is there
  be taken away. Bytes that are no record are `LoadFails`.

A power failure that loses the contents of a renamed file is a storage that
changed.

Operators whose name has a suffix such as `_Replay` or `_KeepsKeys`, commented
"Faulty", are slips a change of the code could introduce. No action uses them;
they are there to confirm that a property notices the slip when it takes the
place of the correct definition.

Abstractions: SHA-256 is injective; the X.509 chain check is a Boolean of the
document; an enrolment is its ID and status; error texts and
all audit events but the verdicts in `CoordinatorAPI` are left out. The clock is one integer for all components (the code gives each one
`time.Now`), does not go back, and is read once per action. `rand.Read` may fail
and never repeats a value. `types.SessionFailed` and `SessionPending` are never
set by the code and do not occur. The `threshold` is a constant since no
operation changes it, and each session's copy of it is that constant.

## What is checked

| run | instance | shows |
|---|---|---|
| `challenge` | 4 nonces, 7 ticks, age limit 1 | `NonceManager` implements `OneTimeChallenge`: accepted at most once, for exactly the lifetime, never taken away early by Cleanup |
| `locking` | 2 signers whose IDs begin alike, 3 changes, an administrator, one who also creates records, a client of the session manager with up to 2 reads of the policy in a call | `LockingTypeOK`, `RecordsOneMoment`, `RootIsTree`, `RootNamesPolicy`, `RevokedIsFinal`, `VersionNamesPolicy`, `HangHoldsManager`, and `OnlyNestedReadsHang` and `ManagerCallsReturn` under fairness |
| `lifecycle` | 2 requests for the same work, signers in different orders, 2 sessions, 3 nonces, 4 ticks | `Inductive`, `OneLiveSessionPerPayload`, `PayloadIndexSound`, `RetryFindsSession`, `PhasesInOrder` |
| `attestations` | 3 requests, 2 of which share an ID, one for whoever is active, one that names a signer twice; a third signer and a change of the policy; good and bad documents, age limit 0 | `RequestServed`, `NoNonceReplay`, `PhaseBackedByQuorum`, and that the manager implements `SigningSessions` |
| `recovery` | both stores, 6 records of 4 versions, 2 of them without a quorum, one with a bad signature beside its quorum, one no newer than `InitialVersion`; 2 updaters; storage that changes at any moment | `PolicyInForce`, `AcceptsUpwards`, `OnlyStorageGoesBack` |
| `api` | 1 session of 2 signers, a client that creates and polls, one that attests, callers beside them, 2 nonces, deadline at once | `OneVerdictPerChallenge`, `AnswersInOrder`, `NextAnswerExplains` |
| `verdicts` | every combination of 3 nonces, 4 ages or no time stamp, chain, 4 sets of PCRs, absent parser, bytes or document | `VerdictNamesFirstFailure`, `ChecksAccountedFor` |

**Why the bounds are enough.** In `challenge` the clock runs past three times
the age limit, so a nonce can be used, forgotten by Cleanup and submitted
again, while three others are in other stages. In `lifecycle` a session can go
through all phases, be reused by the other client, expire, be cleaned up and be
followed by a second one under the same key; three nonces are one more than two
signers need, so one submission can be rejected or repeated. In
`attestations` the signer named twice would reach the threshold alone if it were
counted twice, and the age limit 0 and timeout 0 let Cleanup forget a used nonce
at the tick that follows while the session it was recorded in and another one are
both there; before the tick both sessions are alive at once. A signer can be
enrolled, suspended or revoked between two reads of one call, which selects
different signers for the same request or refuses it.
In `recovery` two updaters and three versions above the first are enough for
one save to overtake another and for a validation to be superseded; crashes,
restarts and changes of the storage are not bounded. In `locking` a writer, a
second writer that also creates records and a reader are what the nested read
lock, the queue of writers and the admission of waiting readers need, and three
versions let both signers be enrolled, or one be enrolled, revoked or suspended
and reactivated. The reader is a client of the session manager, so the lock of
the manager is held around its reads; two of them let a call be refused between
them or after the last. One client is enough: it comes back after every call,
and finds the manager locked for good if an earlier call did not unlock it. A tree
of up to nine leaves is compared with its definition by the assumption `RoundsMakeATree`, as
more leaves than three do not occur in the run; `RoundsMakeTree` proves it for
any number. In `api` one session is enough
since an answer is about one; the timeout 0 makes it expire at the first tick,
so that late submissions, expiry and clean-up fall between the reads of an
answer; the second nonce is one that is asked for by a caller in the same
process. `verdicts` is not bounded but for its values.
Bounds in guards: `MaxTime`, `MaxNonces`, `MaxVersion`, `MaxSessions`,
`MaxChallenges`, `MaxLate`, `MaxLooks`. Deadlock is checked in `verdicts`. In the other runs
it is not: with every bound used up the model stops, which the system does not;
in `locking` and `lock_hang` the system itself may stop, which is
what `OnlyNestedReadsHang`, `ManagerCallsReturn` and `RecordsAreCreated` are about.

**Fairness.** `FairLockingSpec` assumes weak fairness of
each goroutine's next step and strong fairness of `Lock`: a runnable goroutine
runs, and the mutex among writers, which Go hands over to a waiter after a
millisecond at the latest, starves nobody. `FairManagerSpec` assumes the same of
the goroutines inside the session manager and of `m.mu`. That a step is fair does
not mean that it comes: a `CreateSession` whose read of the policy waits has no
step that could be taken, and if the policy's lock hangs it never gets one. So
`ManagerCallsReturn` and `OnlyNestedReadsHang` promise a return only where no
nested read hangs, and `HangHoldsManager` says what follows where one does. Nobody is
assumed to call anything (`Call` and `CallManager` are not fair), and no fairness
of clients, signers, clean-up or time is assumed.

### Where the code and its documentation differ

Each is a run of its own, with the shortest counterexample TLC finds; the first
three are over `SessionClaims` (`SessionManager` plus, as a history variable,
what each nonce was asked for), the others over `PolicyLocking` and `PolicyRecovery`.

| run | statement | what happens |
|---|---|---|
| `deadline` | "Enforces timeouts" (`manager.go:7`), "prevents hanging sessions" (`types/session.go:33`) | `RecordCommitment` and `RecordShare` do not look at the deadline; a session completes after it |
| `bound_nonce` | "Nonce in attestation ties to specific session" (`STRIDE.md:145`) | the nonce table does not know sessions: of two sessions under way, the challenge issued for the one is accepted in an attestation for the other |
| `key_collision` | one session per "identical (payload_hash, signer_set)" (`README.md:53`) | IDs are hashed without separators: {a, bc} and {ab, c} have one key |
| `lock_hang` | "creates a PolicyStateRecord for the current state" (`state.go:240`) | a writer that calls `Lock` between the two read locks of `CreateStateRecord` waits for the first and keeps out the second; all later calls wait with them, also those of the session manager (`HangHoldsManager`) |
| `rollback` | "policy_version must strictly increase across restarts" (`types/policy.go:14`), "cannot rewind state" (`STRIDE.md:97`), "cannot downgrade even with disk access" (`src/threat-model/README.md:92`) | a new process knows no version but `InitialVersion`; an older record with a quorum that is put back in the store before a restart is accepted and served |

Further things a reader of the documents might expect and the code does not do.
They can be read off an action, so they have no run:

* `validator.go:95` says of `ValidateTransition` "All signatures are valid". A
  signature that does not verify is passed over like that of a stranger: a quorum
  with a bad signature beside it is accepted (one record of `recovery` is such),
  and `ErrInvalidSignature` is never returned.
* `state.go:182-183` calls the state root "simplified: just hash all leaves
  together", where `computeMerkleRoot` below it hashes a Merkle tree, which is what
  155 says and `RootIsTree` shows. The tree's leaves and nodes are hashed alike,
  without a prefix to tell them apart; `StateRoot` assumes that they never are the
  same bytes.
* No attestation submitted over gRPC is ever accepted: `SubmitAttestation` in
  `server.go` builds the document without a certificate chain, so the verifier
  rejects it, as CHAIN_INVALID at the latest, after its nonce was used up.
* A late `SubmitAttestation` marks also a complete session expired
  (`manager.go:274`), while `src/threat-model/STRIDE.md:158` says "Completed
  signature state is durable". Nothing about a session is persisted either.
* A session past its deadline that nobody has touched is still reused for a new
  request (`manager.go:128`), which can then get no challenge and no attestation
  more.
* A signer named twice in a request counts twice in the check of
  `manager.go:120`; the session it creates can then wait for ever for a quorum
  of different signers.
* The log has no entry for a request the handlers' validation refuses, none for
  attestations that do not come through gRPC, and no nonces and PCRs, while
  `STRIDE.md:156` says it "records all received attestations (signer ID,
  timestamp, nonce, PCRs)". Entries can be in another order than the decisions
  they report, as they are written after the lock is released.
* A poll can return a torn status string (`server.go:205-219` read what others
  write under the manager's lock).
* After a failed save of a bootstrap record, `RecoverPolicyState` with that record
  fails in the same process until it is restarted.
* The state root leaves out a signer's `EnclaveIdentity`, and has no separator
  between ID and public key: `RootNamesPolicy` holds for IDs and keys that do not
  run into each other, as those of the run do not (`IDsAndKeysApart` in the proof;
  keys of one length are enough, by `KeysOfOneLength`).
* `RequireAllAttestation` (`types/session.go:76-77`) is read by no code.
* The policy status of a signer is read only when a session is created, so a
  signer suspended or revoked afterwards can still attest and sign in it.
* `CleanupExpired` leaves `requestIndex` alone, which therefore only grows.

Of the statement of `key_collision`, `RequestServed`: it holds in `attestations` because no two lists of the IDs
a, b, c of that run concatenate to the same bytes, and fails in
`key_collision` where two do.

## What is proved

All theorems are for arbitrary constants under the assumptions stated with
them: `NonceBounds`, `PolicyConstants`, `VerifierConstants`,
`ValidatorConstants`, `RecoveryConstants`, `ManagerConstants`
(bounds are naturals, the threshold is positive as `ThresholdConfig.Valid`
demands, `Signers` is finite, requests name known signers),
`LockingConstants`, `SignerBytes` (IDs and keys are strings of bytes, different
IDs different ones), `APIConstants` (finitely many clients; a document made from
a report is one the manager can be given), `ParserConstants` (a call's document
has the fields a document has, the expected measurements are a finite map), and
`KeyIgnoresOrder` (the payload key of two lists that differ in order only is the
same, which is what the sort in `computePayloadKey` is for;
`KeyOfCodeIgnoresOrder` proves it of the code's key). TLC evaluates all of them
in the runs.

| theorem | statement |
|---|---|
| `NonceTypeCorrect`, `PolicyTypeCorrect`, `SessionTypeCorrect`, `RecoveryTypeCorrect`, `APITypeCorrect` | type correctness |
| `NoncesAreOneTimeChallenges` | `NonceManager` implements `OneTimeChallenge` |
| `RevokedStaysRevoked`, `VersionMovesOn` | the policy's action properties |
| `LockAndCallersAgree`, `RecordsAreOfOneMoment` | `LockingTypeOK`, `RecordsOneMoment`, for any number of goroutines |
| `LockSerializesPolicy`, `LockKeepsPolicyRules` | `PolicyLocking` implements `PolicyState`, so the policy's action properties hold under the lock |
| `RootsAreTrees` | `RootIsTree`, for any number of signers |
| `RootsNamePolicies` | `RootNamesPolicy`, from `IDsAndKeysApart` |
| `SortingIgnoresOrder`, `PayloadKeyIgnoresOrder` | a sorted list, and with it the payload key of the code, does not depend on the order of the list |
| `RoundsMakeTree`, `TreeNamesLeaves` | the rounds of `computeMerkleRoot` make the Merkle tree; a Merkle root tells lists of leaves apart |
| `AttestationsNeverShareNonce` | `NoNonceReplay` |
| `EveryPhaseHasQuorum` | `PhaseBackedByQuorum` |
| `PayloadIndexNeverDangles` | `PayloadIndexSound` |
| `NoDuplicateLiveSessions` | `OneLiveSessionPerPayload` |
| `ManagerKeepsPromise` | the session manager implements `SigningSessions` |
| `PhasesComeInOrder`, `RetriesFindSession` | `PhasesInOrder`, `RetryFindsSession` |
| `EveryRequestServed` | `RequestServed`, from `KeyTellsApart` |
| `PayloadKeyNamesWork` | over IDs of one length, the code's payload key names the payload and the signers, each as often |
| `KeyOfCodeIgnoresOrder` | the code's payload key keeps the assumption `KeyIgnoresOrder`, for any different IDs |
| `EqualLengthIDsAreServed` | `RequestServed` with the code's payload key and different IDs of one length |
| `InvariantHolds` | `Inductive`, all of it |
| `ServedPolicyIsInForce`, `ValidatorAcceptsUpwards`, `OnlyStorageTakesBack` | `PolicyInForce`, `AcceptsUpwards`, `OnlyStorageGoesBack`, with a storage that may change at any moment |
| `HandlersUseManager` | `CoordinatorAPI` implements `SessionManager`, so all that is proved of sessions holds behind the API |
| `AnswersComeInOrder`, `AnswersAreExplained` | `AnswersInOrder`, `NextAnswerExplains`, for any number of clients |
| `ChallengeGetsOneVerdict` | `OneVerdictPerChallenge` |
| `VerdictIsFirstFailure`, `ChecksAreAccountedFor` | `VerdictNamesFirstFailure`, `ChecksAccountedFor`, for any expected measurements and any order of the range over them |

**The argument.** None of the session properties is inductive alone;
`SessionInvariants` names what each needs.

* `NoNonceReplay` needs `RecordedNoncesSpent`: a recorded nonce was drawn and,
  while the table remembers it, is marked used. Validate then refuses it; after
  Cleanup has forgotten it, it is unknown; and Issue draws beyond `nonceCount`.
* `PhaseBackedByQuorum` follows from `SessionsBacked`: only the first occurrence
  of a signer is ever marked (`Unrepeated`), so marks and signers are in
  bijection and counting the one counts the other; commitments and shares come
  from attested positions; and each phase keeps the count that led to it, since
  no mark is ever removed.
* `PayloadIndexSound` is what makes "one key per session" enough in clean-up: a
  session is filed under its own key and no other, so that key is the one that
  is dropped.
* `OneLiveSessionPerPayload` needs `LiveSessionsIndexed` (a session not marked
  expired is the one its key leads to): two live sessions for the same work
  would have one key, by `KeyIgnoresOrder`, and so be the same. A new session
  displaces the old one from the index only when that one is marked expired.
* `NoncesAreOneTimeChallenges` maps a nonce to a pending challenge while it is
  unused and young enough; Cleanup then is a stutter because what it drops is
  older than that, and Tick lapses exactly the challenges whose time is over.
* `ManagerKeepsPromise` maps lists of participants and sets of positions to sets
  of signers. `SessionsBacked` makes the counts agree; `SessionsWait` says that a
  session is in a phase no longer than it must be, so that the mark that makes
  the threshold is the one that ends the phase, and that a commitment or share
  for a stranger, which takes the count all the same, moves nothing.
* `RetryFindsSession` needs `CallIsNew`: the lock keeps true until the end of
  `CreateSession` what its idempotency check found at the start, so only an
  entry that leads nowhere is ever overwritten.
* `EveryRequestServed` assumes `KeyTellsApart`, that the payload key tells
  payloads and signer lists apart; `key_collision` shows that the code's key
  does not for all IDs, and the theorem that nothing else can go wrong.
* `EqualLengthIDsAreServed` takes the key of the code, `PayloadKeys`, for the
  constant (`KeyOfCode`) and shows `KeyTellsApart` of it for different IDs of one
  length. What is written is built string by string, each the one before with an
  ID behind it (`StringsGrow`): strings of equal length are made of equally many
  IDs (`StringsAsLong`), and from the last to the first, equal strings have equal
  last IDs (`StringsNameBlocks`, `EndsCut`). So the sorted lists are the same, and
  the lists they were sorted from hold each ID as often.
* `RecordsOneMoment` needs `VersionKept`: from reading the version to the root
  `CreateStateRecord` holds a read lock, so that no change comes between. The
  nested read lock is not what makes the record consistent, and is what hangs.
* `SortingIgnoresOrder`: two ascending lists that hold every ID as often are equal.
  Take the first place where they differ; the smaller of the two IDs there is
  still to come in the one list and can in the other not come any more, so the
  counts differ (`FirstDifference`). That a sorted list exists at all is shown by
  ranks: each ID goes to the place that is one more than the number of IDs before
  it, a tie being broken by position (`RanksArePlaces`).
* `RoundsMakeTree`: after `k` rounds the `i`-th node is the tree of the `i`-th run
  of `2^k` leaves, or of what is left of it (`Covers`). A round keeps this: where
  both nodes of a pair are there, the first run is the largest power of two short
  of both together (`SegmentsJoin`); where the second one is missing, the first
  run is what the pair would have covered, so that carrying the odd node forward
  is right. The inductions are over a set of round numbers, by `LeastNumber`.
* `TreeNamesLeaves`: a node is the hash of two hashes and a leaf is not, so equal
  trees have equal shapes from the root down; induction on the length of the
  segment. `EndIsNoNode` shows that leaves qualify: the last thing hashed into
  one is a status or the configuration, never a hash.
* `RootsAreTrees` and `RootsNamePolicies` add that every policy there ever was is a
  finite map (`PoliciesAreMaps`, inductive with `LockInv`), that a range over a
  map takes each ID once (`OrdersHoldAll`), and, for the second one, that a leaf
  names signer and status (`SignerLeafNames`).
* `LockSerializesPolicy` and `HandlersUseManager` have no mapping to state: every
  step of the composed module changes the inner module's variables by one of its
  actions, or not at all.
* `PolicyInForce` and `OnlyStorageGoesBack` rest on a chain. What a serving
  process recovered is approved, above `InitialVersion` and no newer than what its
  validator knows, and an update is accepted only above that (`RecoveredIsKnown`,
  `UpdaterTask` in `PolicyRecoveryProofs`); none of this looks at the storage. As
  long as the storage was not changed, what was recovered is no newer than what is
  stored, and that is known to the validator (`RecoveredIsKept`, `StoredIsKnown`).
  So a save, even one that overtakes another, never takes the store behind what
  was recovered; what the store held in between may be lost. A start that recovers
  what is then in the store, and an update that is saved, make up for a change of
  the storage: from there on the chain holds again.
* `AnswersInOrder` needs `ClientsOK`. A handler that reads a session without the
  lock reads each field from some value in a set; `Span` says that the values of
  this set lie in a row between a first and a last, the first at least as far as
  what the client was shown before, the last at most as far as the session is
  now. So the reader gets, field by field, something no earlier than what was
  shown and no later than the session, whatever it mixes. A torn status is in no
  order, and the two properties claim nothing of it. `NextAnswerExplains` follows
  since the marks a client was shown before are among those it is shown next:
  the quorum that the status shown first rests on is among them.
* `OneVerdictPerChallenge` needs `VerdictsOK`: the entries in the log for a nonce
  and the verdicts on their way to it (decided, not yet logged) are one at most;
  once there is one the nonce is `Spent` (issued, and marked used while the table
  remembers it), so that no later submission gets as far as a verdict on it; and
  a nonce with a rejection is recorded in no session. The
  last takes `RecordedNoncesSpent` once more, for the submission that is accepted
  beside the API.
* `ChecksAccountedFor` rests on there being a first differing measurement in
  whichever order the range takes, `LeastNumber` from the well-foundedness of
  `<`: before it every comparison was noted, at it the loop ends. With it
  `VerdictNamesFirstFailure` compares the checks of the code with the list of
  requirements one by one.

**Only model-checked.** The liveness properties `ManagerCallsReturn` and
`OnlyNestedReadsHang`, since liveness under fairness is outside what the prover
can do, and the two other properties of `ManagerLocking`. `KeyTellsApart` is not proved of `PayloadKeys` for all IDs, for good
reason: `key_collision` refutes it for IDs that run together. The proof for IDs of
one length says what a deployment has to see to, since no code checks it.

## Not modelled, and the plan

* Generated protobuf code and the white paper's tooling: no logic of the system.
* Audit events other than verdicts on attestations: they repeat what the answer
  to the client says, nothing reads them back, and the only emitter in the
  repository drops them.
* X.509 validation, SHA-256, Ed25519, JSON, SQLite and the file system are
  external and modelled by what the code relies on.
* `PolicyStateRecord.Hash` is a fixed-width encoding of fields the model keeps
  apart; a signature is over a record.

Left to do: a weaker condition than one length under which `KeyTellsApart` holds of
the code's key, such as IDs none of which is the beginning of another.

## Running it

In this directory, `tlc -config lifecycle.cfg MCSessionManager` and likewise
for the other runs (`PROJECT.json` lists module and configuration of each);
`tlapm SessionSafetyProofs.tla` and likewise for the other proof modules.
