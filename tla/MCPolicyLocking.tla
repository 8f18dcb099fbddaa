--------------------------- MODULE MCPolicyLocking ---------------------------
(* PolicyLocking with signer IDs of one and two bytes, one of which begins  *)
(* with another, and keys of one byte.  The session manager only reads; a   *)
(* second administrator changes the policy and has it recorded.             *)
EXTENDS PolicyLocking

IDBytes == [a |-> <<1>>, ab |-> <<1, 2>>, b |-> <<2>>]
NameBytes(id) == IDBytes[id]
KeyBytes(id) == <<7>>

(* 1 is an administrator, 2 one who also creates records, 3 the manager. *)
MCCalls(c) == CASE c = 1 -> {"change"} [] c = 2 -> {"change", "record"} [] c = 3 -> {"look"}

(* Up to nine leaves, more than there are signers here. *)
ASSUME RoundsMakeATree ==
  \A n \in 1 .. 9 : LET leaves == [i \in 1 .. n |-> Symbol(i)]
                   IN  MerkleRoot(leaves) = TreeOf(leaves)
=============================================================================
