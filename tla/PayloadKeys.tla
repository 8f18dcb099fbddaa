---------------------------- MODULE PayloadKeys ----------------------------
(***************************************************************************)
(* computePayloadKey (internal/session/manager.go): the signer IDs sorted, *)
(* then written one after the other behind the payload hash.  SHA-256 is   *)
(* external and taken to be injective, so the key is the bytes hashed: the *)
(* payload, of fixed length, and the run of characters that follows it.    *)
(***************************************************************************)
EXTENDS Naturals, SequencesExt

CONSTANT Name(_)  \* a signer ID, as the sequence of its bytes

(* Byte order of Go strings: at the first difference, where the end of a    *)
(* string comes before any byte.                                            *)
Before(x, y) ==
  \E i \in DOMAIN y : /\ i \notin DOMAIN x \/ x[i] < y[i]
                      /\ \A j \in 1 .. i - 1 : j \in DOMAIN x /\ x[j] = y[j]

(* sort.Strings: the list with the same IDs, each as often, in which none is *)
(* before an earlier one.                                                    *)
Arrangements(ids) ==
  {[i \in DOMAIN ids |-> ids[p[i]]] : p \in Injection(DOMAIN ids, DOMAIN ids)}

Ascending(ids) == \A i, j \in DOMAIN ids : i < j => ~Before(Name(ids[j]), Name(ids[i]))

Sorted(ids) == CHOOSE s \in Arrangements(ids) : Ascending(s)

Written(ids) == FlattenSeq([i \in DOMAIN ids |-> Name(ids[i])])

ComputePayloadKey(payload, ids) == <<payload, Written(Sorted(ids))>>

=============================================================================
