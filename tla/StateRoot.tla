------------------------------ MODULE StateRoot ------------------------------
(***************************************************************************)
(* internal/policy/state.go: ComputeStateRoot, the hash of the threshold   *)
(* configuration and the enrolled signers that a policy record carries.    *)
(*                                                                         *)
(* SHA-256 is external and taken to be injective: the hash of a run of     *)
(* symbols is that run, marked as a hash.  A symbol is a byte, a status or *)
(* the configuration (one-element tuples), or a hash (a pair).  So what is *)
(* hashed into a leaf is never what is hashed into a node.  The code does  *)
(* not see to that by a prefix, as Merkle trees often do: it rests on no   *)
(* ID, key and status making up, byte for byte, two hashes that occur.     *)
(***************************************************************************)
EXTENDS PayloadKeys   \* for sort.Strings

CONSTANT Key(_)  \* the signer's PublicKeyShare, as the sequence of its bytes

Hash(run) == <<"sha256", run>>
Symbol(x) == <<x>>
Symbols(bytes) == [i \in DOMAIN bytes |-> Symbol(bytes[i])]

(* hashThresholdConfig: the configuration never changes. *)
ConfigLeaf == Hash(<<Symbol("config")>>)

(* Faulty (a slip of the code, not part of the model, as below): the status   *)
(* is left out.                                                              *)
SignerLeaf_NoStatus(a, status) == Hash(Symbols(Name(a)) \o Symbols(Key(a)))

(* hashSignerEnrollment: ID, key and status one after the other.  No status  *)
(* is the end of another, so one symbol stands for it.                       *)
SignerLeaf(a, status) == Hash(Symbols(Name(a)) \o Symbols(Key(a)) \o <<Symbol(status)>>)

(* Faulty: the IDs are not sorted. *)
Leaves_MapOrder(signers, order) ==
  <<ConfigLeaf>> \o [i \in DOMAIN order |-> SignerLeaf(order[i], signers[order[i]])]

(* The leaves for a map of signers that is ranged over in the given order. *)
Leaves(signers, order) ==
  LET ids == Sorted(order)
  IN  <<ConfigLeaf>> \o [i \in DOMAIN ids |-> SignerLeaf(ids[i], signers[ids[i]])]

(* One round of computeMerkleRoot: pairs are hashed, an odd last node is      *)
(* carried forward.                                                           *)
Level(nodes) ==
  [i \in 1 .. (Len(nodes) + 1) \div 2 |->
     IF 2 * i <= Len(nodes) THEN Hash(<<nodes[2 * i - 1], nodes[2 * i]>>) ELSE nodes[2 * i - 1]]

(* Rounds until one node is left, which further rounds do not change; a tree  *)
(* has at least as many leaves as it needs rounds.                            *)
Rounds(leaves) ==
  LET nodes[n \in 0 .. Len(leaves)] == IF n = 0 THEN leaves ELSE Level(nodes[n - 1])
  IN  nodes

(* computeMerkleRoot.  Without leaves, which ComputeStateRoot never is, the   *)
(* hash of nothing.                                                           *)
MerkleRoot(leaves) ==
  IF Len(leaves) = 0 THEN Hash(<<>>) ELSE Rounds(leaves)[Len(leaves)][1]

ComputeStateRoot(signers, order) == MerkleRoot(Leaves(signers, order))

-----------------------------------------------------------------------------
(* What the rounds are to compute: the Merkle tree hash of a segment of the   *)
(* leaves, whose left half is as long as the largest power of two there is.   *)
PowersOfTwo(n) ==
  LET power[i \in 0 .. n] == IF i = 0 THEN 1 ELSE 2 * power[i - 1]
  IN  {power[i] : i \in 0 .. n}

LeftHalf(n, powers) == CHOOSE k \in powers : k < n /\ n <= 2 * k

Segments(n) == {r \in (1 .. n) \X (1 .. n) : r[1] <= r[2]}

Tree(leaves) ==
  LET powers == PowersOfTwo(Len(leaves))
      tree[r \in Segments(Len(leaves))] ==
        LET k == r[1] + LeftHalf(r[2] - r[1] + 1, powers)
        IN  IF r[1] = r[2] THEN leaves[r[1]]
            ELSE Hash(<<tree[<<r[1], k - 1>>], tree[<<k, r[2]>>]>>)
  IN  tree

TreeOf(leaves) == Tree(leaves)[<<1, Len(leaves)>>]

=============================================================================
