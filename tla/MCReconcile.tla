---------------------------- MODULE MCReconcile -----------------------------
(* Instances of Reconcile.  Minutes are real: a pair is 10 minutes apart at *)
(* most, 11 is one too many, and the second clock reading lies just 24      *)
(* hours after the first payments.                                          *)
EXTENDS Reconcile, TLC

CONSTANTS e1, e2, e3, s1, s2

MCName  == {"a", "b"}
MCRatio == [x \in MCName \X MCName |-> IF x[1] = x[2] THEN 100 ELSE 59]

Card(paidAt, name, last4) ==
  [type |-> "card_notification", amount |-> 1, currency |-> "KRW", paidAt |-> paidAt,
   name |-> name, last4 |-> last4]
Receipt(paidAt, name, last4) ==
  [Card(paidAt, name, last4) EXCEPT !.type = "merchant_receipt"]

\* A receipt in the middle, card notifications at both ends of its window and
\* one just outside, of the same and of another merchant, with and without card.
MCPayment ==
  {Receipt(10, "a", NoLast4), Receipt(10, "b", "1"),
   Card(0, "a", "1"), Card(20, "a", NoLast4), Card(21, "b", "1")}

\* Two of a kind on each side: every receipt may go with every notification.
MCTwoPairs == {Receipt(0, "a", NoLast4), Card(0, "a", NoLast4)}

MCInstants == {30, 1440, 1470}
MCLate     == {30, 1440}

MCSymmetry == Permutations({e1, e2, e3})
=============================================================================
