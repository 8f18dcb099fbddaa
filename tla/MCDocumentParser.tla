-------------------------- MODULE MCDocumentParser ---------------------------
(* DocumentParser with every combination of good and bad fields, over two   *)
(* expected PCRs.                                                           *)
EXTENDS DocumentParser

PCRs == [pcr0 |-> "image", pcr1 |-> "kernel"]
Reported == {PCRs, [pcr0 |-> "image"], [pcr0 |-> "other", pcr1 |-> "other"],
             [pcr0 |-> "image", pcr1 |-> "kernel", pcr2 |-> "extra"]}

Made == [nonce : {"n1", "n2", "short"}, stamped : {TRUE}, age : {-2, -1, 1, 2}, chain : BOOLEAN,
         pcrs : Reported]
          \cup [nonce : {"n1", "n2"}, stamped : {FALSE}, age : {99}, chain : BOOLEAN, pcrs : Reported]

MCFits(nonce) == nonce # "short"

Case(parser, raw, doc, nonce) == [parser |-> parser, raw |-> raw, doc |-> doc, nonce |-> nonce]

MCCases == {Case(TRUE, "document", doc, nonce) : doc \in Made \cup {NoDoc}, nonce \in {"n1", "short"}}
             \cup {Case(TRUE, raw, NoDoc, "n1") : raw \in {"empty", "garbage"}}
             \cup {Case(FALSE, "document", NoDoc, "n1")}
=============================================================================
