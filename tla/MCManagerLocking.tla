-------------------------- MODULE MCManagerLocking --------------------------
(* ManagerLocking with an administrator, a second one who also has the      *)
(* policy recorded, and a client of the session manager, whose calls read   *)
(* the policy.                                                              *)
EXTENDS ManagerLocking, MCPolicyLocking

MCClients == {3}
AdminCalls(c) == CASE c = 1 -> {"change"} [] c = 2 -> {"change", "record"} [] c \in MCClients -> {}
=============================================================================
