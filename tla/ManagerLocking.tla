---------------------------- MODULE ManagerLocking ----------------------------
(***************************************************************************)
(* The two locks a CreateSession takes, one inside the other: m.mu of      *)
(* internal/session/manager.go, held by defer until the call returns, and  *)
(* within it, once for every read of the policy, the read lock of          *)
(* internal/policy/state.go, over PolicyLocking.  What the calls do to the *)
(* sessions is in SessionManager; here is what they wait for.              *)
(*                                                                         *)
(* m.mu is an RWMutex that only GetSession and IssueChallenge take for     *)
(* reading, and nobody twice; the model lets one caller in at a time,      *)
(* which makes them wait for more, not for less.                           *)
(***************************************************************************)
EXTENDS PolicyLocking

CONSTANTS Clients,  \* the goroutines that call the session manager
          MaxLooks  \* bound on a call's reads of the policy

ASSUME ManagerLockingConstants ==
  MaxLooks \in Nat /\ Clients \subseteq {c \in Callers : Calls(c) = {}}

VARIABLES
  client,  \* where each client is: "out", "waiting" for m.mu, "inside"
  holder,  \* the client that holds m.mu, or NoCaller
  looks    \* the reads of the policy its call may still come to

managerVars == <<client, holder, looks>>
bothVars == <<allVars, managerVars>>

ManagerInit ==
  /\ LockingInit
  /\ client = [c \in Clients |-> "out"]
  /\ holder = NoCaller /\ looks = 0

CallManager(c) ==
  /\ client[c] = "out"
  /\ client' = [client EXCEPT ![c] = "waiting"]
  /\ UNCHANGED <<allVars, holder, looks>>

(* CreateSession reads the policy for each required signer, or once for all  *)
(* the active ones, and for the threshold; a known request and the other     *)
(* operations of the manager do not read it.                                 *)
Enter(c) ==
  /\ client[c] = "waiting" /\ holder = NoCaller
  /\ client' = [client EXCEPT ![c] = "inside"] /\ holder' = c
  /\ looks' \in 0 .. MaxLooks
  /\ UNCHANGED allVars

ReadPolicy(c) ==
  /\ client[c] = "inside" /\ at[c] = "idle" /\ looks > 0
  /\ Goto(c, "look") /\ looks' = looks - 1
  /\ UNCHANGED <<vars, lockVars, seen, record, history, client, holder>>

(* Faulty: a call that is refused returns without unlocking. *)
Leave_RefusedKeepsLock(c) ==
  /\ client[c] = "inside" /\ at[c] = "idle"
  /\ client' = [client EXCEPT ![c] = "out"] /\ looks' = 0
  /\ holder' = IF looks > 0 THEN holder ELSE NoCaller
  /\ UNCHANGED allVars

(* Faulty: the manager is unlocked before the read of the policy is over. *)
Leave_WhileReading(c) ==
  /\ client[c] = "inside"
  /\ client' = [client EXCEPT ![c] = "out"] /\ holder' = NoCaller /\ looks' = 0
  /\ UNCHANGED allVars

(* The call returns, between any two reads when it is refused. *)
Leave(c) ==
  /\ client[c] = "inside" /\ at[c] = "idle"
  /\ client' = [client EXCEPT ![c] = "out"] /\ holder' = NoCaller /\ looks' = 0
  /\ UNCHANGED allVars

PolicyStep(A) == A /\ UNCHANGED managerVars

ManagerNext == \/ \E c \in Clients : CallManager(c) \/ Enter(c) \/ ReadPolicy(c) \/ Leave(c)
               \/ PolicyStep(LockingNext)

(* As in FairLockingSpec: whoever can go on does, neither mutex starves       *)
(* anybody, and nobody has to call.                                           *)
FairManagerSpec ==
  /\ ManagerInit /\ [][ManagerNext]_bothVars
  /\ \A c \in Callers : WF_bothVars(PolicyStep(Step(c))) /\ SF_bothVars(PolicyStep(Lock(c)))
  /\ \A c \in Clients : WF_bothVars(ReadPolicy(c) \/ Leave(c)) /\ SF_bothVars(Enter(c))

-----------------------------------------------------------------------------
(* m.mu is held by the one client inside, and the policy's lock is taken by   *)
(* that client only, never before m.mu: the locks are always nested one way.  *)
ManagerTypeOK ==
  /\ client \in [Clients -> {"out", "waiting", "inside"}]
  /\ holder \in Clients \cup {NoCaller} /\ looks \in 0 .. MaxLooks
  /\ \A c \in Clients : /\ client[c] = "inside" <=> holder = c
                        /\ at[c] # "idle" => at[c] \in LookPoints /\ holder = c

(* manager.go:103-104: every call of the session manager returns, whatever    *)
(* changes, queues and reads of the policy it meets while it holds m.mu, and   *)
(* wherever it is refused, unless the policy's lock is hung by a nested read.  *)
ManagerCallsReturn ==
  \A c \in Clients : client[c] = "waiting" ~> (client[c] = "out" \/ Hung)

(* manager.go:119, 167 and 181 under 103: a CreateSession that meets a hung    *)
(* policy never gets its read lock, and keeps everybody out of the manager for *)
(* good: no later change, record or call of anybody sets it free.              *)
ManagerStuck == Hung /\ holder # NoCaller /\ at[holder] = "lookWait"
HangHoldsManager == [][ManagerStuck => ManagerStuck']_bothVars

=============================================================================
