--------------------------- MODULE MCSessionClaims ---------------------------
(* SessionClaims with the requests, documents and payload key of            *)
(* MCSessionManager.                                                        *)
EXTENDS SessionClaims, MCSessionManager

OneRequest == {Req("r1", "p", <<"a", "b">>)}
TwoPayloads == {Req("r1", "p", <<"a", "b">>), Req("r2", "q", <<"a", "b">>)}
=============================================================================
