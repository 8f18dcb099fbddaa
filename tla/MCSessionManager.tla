-------------------------- MODULE MCSessionManager --------------------------
(* SessionManager with the payload key of the code over short signer IDs.  *)
EXTENDS SessionInvariants

IDBytes == [a |-> <<1>>, b |-> <<2>>, c |-> <<3>>, ab |-> <<1, 2>>, bc |-> <<2, 3>>]
NameBytes(id) == IDBytes[id]
Hash == INSTANCE PayloadKeys WITH Name <- NameBytes
MCPayloadKey(payload, ids) == Hash!ComputePayloadKey(payload, ids)

Req(id, payload, required) == [id |-> id, payload |-> payload, required |-> required]

(* Two clients that want the same work and name the signers in different    *)
(* orders; work for whoever is active and for named signers, with an ID     *)
(* used for two different requests, one of which names a signer twice;      *)
(* signer IDs that run together in the hash.                                *)
SameWork == {Req("r1", "p", <<"a", "b">>), Req("r2", "p", <<"b", "a">>)}
DifferentWork ==
  {Req("r1", "p", <<>>), Req("r2", "p", <<"b", "a">>), Req("r2", "q", <<"a", "a", "b">>)}
RunTogether == {Req("r1", "p", <<"a", "bc">>), Req("r2", "p", <<"ab", "c">>)}

AnyLength(nonce) == TRUE  \* the verifier and the nonce table agree on the length

(* One expected measurement; good documents, and one bad one per check. *)
PCR0 == <<"measured">>
Good(n) == [nonce |-> n, age |-> 0, chain |-> TRUE, pcrs |-> PCR0]
GoodDocs == {Good(n) : n \in 1 .. MaxNonces}
BadDocs == {NoDoc, [Good(1) EXCEPT !.age = 2], [Good(1) EXCEPT !.age = -2],
            [Good(1) EXCEPT !.chain = FALSE], [Good(1) EXCEPT !.pcrs = <<"other">>]}
AllDocs == GoodDocs \cup BadDocs
=============================================================================
