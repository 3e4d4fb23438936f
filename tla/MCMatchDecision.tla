-------------------------- MODULE MCMatchDecision ---------------------------
(* Every set of up to three candidates over three cards (one of them none) *)
(* and four names whose scores against the source's name "a" are 100, 80,  *)
(* 60 (just similar) and 59 (just not).                                    *)
EXTENDS MatchDecision, TLC

CONSTANTS c1, c2, c3

MCName == {"a", "b", "c", "d"}

\* Scores against "a"; the source is always called "a".
MCRatio == [x \in MCName \X MCName |->
  CASE x = <<"a", "a">> -> 100
    [] x = <<"a", "b">> -> 80
    [] x = <<"a", "c">> -> 60
    [] OTHER -> 59]

MCRow(type, name, last4) ==
  [type |-> type, amount |-> 1, currency |-> "KRW", paidAt |-> 0,
   name |-> name, last4 |-> last4]

MCPayment ==
  {MCRow("merchant_receipt", "a", l) : l \in {"1", NoLast4}} \cup
  {MCRow("card_notification", n, l) : n \in MCName, l \in {"1", "2", NoLast4}}

MCInit == Init /\ p[Source].type = "merchant_receipt"
MCSpec == MCInit /\ [][Next]_vars

MCSymmetry == Permutations({c1, c2, c3})
=============================================================================
