-------------------------- MODULE MCPolicyRecovery --------------------------
(* Records of four versions signed by two of three guardians, one with a   *)
(* bad signature of the third beside; processes start with the first of     *)
(* these versions.  And records that lack a quorum: one guardian twice, a   *)
(* bad signature, a stranger.                                               *)
EXTENDS PolicyRecovery

CONSTANTS g1, g2, g3, stranger

Sig(g, good) == [signer |-> g, good |-> good]
Record(v, sigs) == [version |-> v, signatures |-> sigs]
Signed(v) == Record(v, <<Sig(g1, TRUE), Sig(g2, TRUE)>>)
SignedBadlyToo(v) == Record(v, <<Sig(g1, TRUE), Sig(g3, FALSE), Sig(g2, TRUE)>>)

MCRecords ==
  {Signed(1), Signed(2), Signed(3), SignedBadlyToo(4),
   Record(3, <<Sig(g1, TRUE), Sig(g1, TRUE)>>),
   Record(4, <<Sig(g1, TRUE), Sig(g2, FALSE), Sig(stranger, TRUE)>>)}

MCBootstraps == {NoRecord, Signed(2)}
=============================================================================
