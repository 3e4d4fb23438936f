----------------------------- MODULE MCMailbook -----------------------------
(* An instance of Mailbook: the two halves of one payment, the receipt read *)
(* by its rule and the card notification by the LLM, either of them twice,  *)
(* or a mail with nothing to read.  The clock is read before, at and after  *)
(* the 24 hours of the card notification, the last one at those of the      *)
(* receipt.                                                                 *)
EXTENDS Mailbook

CONSTANT sync

MCName  == {"a"}
MCRatio == [x \in MCName \X MCName |-> 100]

Card    == [type |-> "card_notification", amount |-> 1, currency |-> "KRW", paidAt |-> 0,
            name |-> "a", last4 |-> "1"]
Receipt == [Card EXCEPT !.type = "merchant_receipt", !.paidAt = 10, !.last4 = NoLast4]

\* A mail and the payment it tells of; the mails are all of one second.
Tells(body, rule, from, pays) ==
  [mail |-> [body |-> body, rule |-> rule, from |-> from, received |-> 0,
             start |-> IF body = "text" THEN {"words"} ELSE {}],
   pays |-> pays]

MCContent ==
  {Tells("html", "ok", "trancy", Receipt), Tells("text", "none", "bank", Card),
   Tells("none", "none", "bank", Card)}

MCInstants == {30, 1440, 1450}
=============================================================================
