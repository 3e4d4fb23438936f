------------------------------- MODULE Ledger -------------------------------
(***************************************************************************)
(* What mailbook promises its owner, without sessions, passes or locks     *)
(* (README.md:3 and :13-15): payment events come in; now and then some of  *)
(* the events that are not yet in the ledger are posted, each as a part of *)
(* exactly one new transaction that is a card payment of two compatible    *)
(* events or a payment of one event; what is posted stays as it is.        *)
(***************************************************************************)
EXTENDS MatchingEngine

CONSTANTS Event, Payment, Txn, None

VARIABLES
  row,    \* the events that have come in
  txnOf,  \* the transaction each is booked in
  posted  \* the transactions of the ledger and their payment method

vars == <<row, txnOf, posted>>

Method == {"card", "subscription", "non_card", "unknown"}

Init ==
  /\ row = [e \in Event |-> None]
  /\ txnOf = [e \in Event |-> None]
  /\ posted = [t \in Txn |-> None]

Arrive ==
  /\ row' \in [Event -> Payment \cup {None}]
  /\ \A e \in Event : row[e] # None => row'[e] = row[e]
  /\ UNCHANGED <<txnOf, posted>>

\* A set of events is one payment, booked under `method`.
OnePayment(E, method) ==
  \/ \E a, b \in E : /\ a # b /\ E = {a, b}
                     /\ Compatible(row[a], row[b])
                     /\ method = "card"
  \/ \E a \in E : /\ E = {a}
                  /\ \/ method = "subscription" /\ row[a].type = "card_notification"
                     \/ method = "non_card" /\ row[a].type = "merchant_receipt"
                     \/ method = "unknown"

\* Booking the events where `to` is not None, each transaction a new one.
Post(to) ==
  /\ \E e \in Event : to[e] # None
  /\ \A e \in Event : to[e] # None =>
       row[e] # None /\ txnOf[e] = None /\ posted[to[e]] = None
  /\ txnOf' = [e \in Event |-> IF to[e] # None THEN to[e] ELSE txnOf[e]]
  /\ \E method \in [{to[e] : e \in Event} \ {None} -> Method] :
       /\ \A t \in DOMAIN method : OnePayment({e \in Event : to[e] = t}, method[t])
       /\ posted' = [t \in Txn |-> IF t \in DOMAIN method THEN method[t] ELSE posted[t]]
  /\ UNCHANGED row

Next == Arrive \/ \E to \in [Event -> Txn \cup {None}] : Post(to)

Spec == Init /\ [][Next]_vars
=============================================================================
