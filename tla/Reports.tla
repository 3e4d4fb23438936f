------------------------------- MODULE Reports -------------------------------
(***************************************************************************)
(* MonthlyReport and CategoryReport over a set of transactions.  An        *)
(* instant is <<year, month, day>> in the application's time zone.         *)
(***************************************************************************)
EXTENDS Integers, FiniteSetsExt

CONSTANTS Nothing, OtherName

\* Lexicographic, as datetimes of one zone compare.
Before(a, b) ==
  \/ a[1] < b[1]
  \/ a[1] = b[1] /\ a[2] < b[2]
  \/ a[1] = b[1] /\ a[2] = b[2] /\ a[3] < b[3]

\* The query string admits any two digits; datetime raises for the others.
IsMonth(y, m) == y \in 1..9999 /\ m \in 1..12 /\ <<y, m>> # <<9999, 12>>

\* Seeded fault: December ends with its own year.
NextMonthSameYear(y, m) == IF m = 12 THEN <<y, 1, 1>> ELSE <<y, m + 1, 1>>

NextMonth(y, m) == IF m = 12 THEN <<y + 1, 1, 1>> ELSE <<y, m + 1, 1>>

InMonth(T, y, m) ==
  {t \in T : ~Before(t.paidAt, <<y, m, 1>>) /\ Before(t.paidAt, NextMonth(y, m))}

Total(T) == SumFunction([t \in T |-> t.amount])
Aggregate(T) == [amount |-> Total(T), count |-> Cardinality(T)]

CategoryOf(t) == IF t.category = Nothing THEN OtherName ELSE t.category
MerchantOf(t) == IF t.canonical = Nothing THEN t.name ELSE t.canonical

Monthly(T, y, m) ==
  LET P == InMonth(T, y, m) IN
  [total       |-> Aggregate(P),
   by_category |-> [c \in {CategoryOf(t) : t \in P} |-> Aggregate({t \in P : CategoryOf(t) = c})],
   by_method   |-> [k \in {t.method : t \in P} |-> Aggregate({t \in P : t.method = k})],
   review      |-> Cardinality({t \in P : t.review})]

\* The lines of a breakdown, added up again.
Sums(by) ==
  [amount |-> SumFunction([k \in DOMAIN by |-> by[k].amount]),
   count  |-> SumFunction([k \in DOMAIN by |-> by[k].count])]

\* A category's total is that of its merchants.
Categories(T, y, m) ==
  LET P == InMonth(T, y, m)
      In(c) == {t \in P : CategoryOf(t) = c}
      Merchants(c) ==
        [k \in {MerchantOf(t) : t \in In(c)} |-> Aggregate({t \in In(c) : MerchantOf(t) = k})]
  IN [c \in {CategoryOf(t) : t \in P} |->
       [merchants |-> Merchants(c), total |-> Sums(Merchants(c))]]
=============================================================================
