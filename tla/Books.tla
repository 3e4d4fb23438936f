-------------------------------- MODULE Books --------------------------------
(***************************************************************************)
(* What becomes of a payment after matching: it is filed under a merchant  *)
(* and a category, verified by the owner, and reported by month.           *)
(*                                                                         *)
(* A payment is what a match or solo pass turns into one transaction (see  *)
(* Reconcile, which says when).  A pass is one database transaction, the   *)
(* requests of the owner - to teach an alias, to seed the file, to verify  *)
(* a transaction - run beside it.  Each of them writes once, just before   *)
(* its commit, so that write and commit are one step here; what it read    *)
(* before may be old by then.                                              *)
(***************************************************************************)
EXTENDS Merchants

CONSTANTS
  Payment,   \* numbers, in the order of paid_at
  Bill,      \* [Payment -> raw name, amount, paid_at, payment method]
  Catalogs,  \* what categories.yaml may hold
  Lesson,    \* what the owner may teach: raw name, canonical name, category
  Clerk,     \* concurrent requests of the owner
  Seedings   \* how often the file is seeded at most

ASSUME BooksAssumption ==
  /\ Catalogs \subseteq SUBSET Category
  /\ Payment \subseteq Nat /\ Seedings \in Nat
  /\ \A p \in Payment : Bill[p].raw \in Seq(Token)
  /\ \A l \in Lesson : l.raw \in Seq(Token) /\ l.category \in Category \cup {None}

VARIABLES
  own,       \* the owner's alias for a key: canonical name and category
  global,    \* how many rows without a user the key has
  seedings,  \* how often the file has been seeded
  catalog,   \* categories.yaml
  arrived,   \* payments there are
  ledger,    \* committed transactions, by payment
  draft,     \* those of the running pass
  batch,     \* the payments this pass has still to book; None: no pass runs
  rules,     \* the catalogue it was started with
  task       \* what a request of the owner is about, and the row it has read

vars == <<own, global, seedings, catalog, arrived, ledger, draft, batch, rules, task>>

Raw   == {Bill[p].raw : p \in Payment} \cup {l.raw : l \in Lesson}
KeyOf == [raw \in Raw |-> Normalise(raw)]
Key   == {KeyOf[raw] : raw \in Raw} \cup SeedKeys

Alias == [canonical : {l.canonical : l \in Lesson}
                      \cup {SeedRows[i].canonical : i \in DOMAIN SeedRows},
          category  : Category \cup {None}]

Transaction ==
  [canonical : {a.canonical : a \in Alias} \cup {None}, category : Category \cup {None},
   review : BOOLEAN, verified : BOOLEAN]

Task ==
  [is : {"learn"}, lesson : Lesson, found : Alias \cup {None}]
  \cup [is : {"verify"}, payment : Payment, flag : BOOLEAN,
     verified : BOOLEAN, review : BOOLEAN]

ASSUME NoneAssumption ==
  /\ \A P \in SUBSET Payment : P # None
  /\ \A a \in Alias : a # None
  /\ \A t \in Transaction : t # None
  /\ \A t \in Task : t # None

TypeOK ==
  /\ own \in [Key -> Alias \cup {None}]
  /\ global \in [Key -> Nat] /\ seedings \in 0..Seedings
  /\ catalog \subseteq Category /\ rules \subseteq Category
  /\ arrived \subseteq Payment
  /\ ledger \in [Payment -> Transaction \cup {None}]
  /\ draft \in [Payment -> Transaction \cup {None}]
  /\ batch = None \/ batch \subseteq arrived
  /\ task \in [Clerk -> Task \cup {None}]
  /\ \A p \in Payment : ledger[p] # None \/ draft[p] # None => p \in arrived
  /\ \A p \in Payment : ledger[p] = None \/ draft[p] = None

Init ==
  /\ own = [k \in Key |-> None]
  /\ global = [k \in Key |-> 0] /\ seedings = 0
  /\ catalog \in Catalogs /\ rules = {}
  /\ arrived = {}
  /\ ledger = [p \in Payment |-> None] /\ draft = [p \in Payment |-> None]
  /\ batch = None
  /\ task = [c \in Clerk |-> None]

-----------------------------------------------------------------------------
(* The lookup of ResolveCanonical: the owner's alias first.                *)

\* Seeded fault: the rows of the file are read in any case.
AmbiguousAnyway(k) == global[k] > 1

\* scalar_one_or_none raises when there are several rows.
Ambiguous(k) == own[k] = None /\ global[k] > 1

Lookup(k) ==
  IF own[k] # None THEN own[k] ELSE IF global[k] > 0 THEN SeedAlias[k] ELSE None

-----------------------------------------------------------------------------
(* The owner.                                                              *)

\* categories.yaml is edited; every request reads it anew.
EditCatalog(C) ==
  /\ C # catalog
  /\ catalog' = C
  /\ UNCHANGED <<own, global, seedings, arrived, ledger, draft, batch, rules, task>>

\* LearnAlias looks for its row.  (An unknown category is answered with 400 before.)
FindAlias(c, l) ==
  /\ task[c] = None
  /\ l.category \in catalog \cup {None}
  /\ task' = [task EXCEPT ![c] =
       [is |-> "learn", lesson |-> l, found |-> own[KeyOf[l.raw]]]]
  /\ UNCHANGED <<own, global, seedings, catalog, arrived, ledger, draft, batch, rules>>

Done(c) == task' = [task EXCEPT ![c] = None]

\* Only columns that differ from the row read are sent.
Column(new, read, now) == IF new = read THEN now ELSE new

\* The INSERT of a first row, or the UPDATE of the one found.
WriteAlias(c) ==
  /\ task[c] # None /\ task[c].is = "learn"
  /\ LET l == task[c].lesson
         k == KeyOf[l.raw]
         r == task[c].found IN
       /\ r = None => own[k] = None
       /\ own' = [own EXCEPT ![k] =
            IF r = None THEN [canonical |-> l.canonical, category |-> l.category]
            ELSE [canonical |-> Column(l.canonical, r.canonical, @.canonical),
                  category  |-> Column(l.category, r.category, @.category)]]
  /\ Done(c)
  /\ UNCHANGED <<global, seedings, catalog, arrived, ledger, draft, batch, rules>>

\* The unique key on (user_id, raw_name) makes the second of two first rows raise.
FirstRowTaken(c) ==
  /\ task[c] # None /\ task[c].is = "learn"
  /\ task[c].found = None /\ own[KeyOf[task[c].lesson.raw]] # None
  /\ Done(c)
  /\ UNCHANGED <<own, global, seedings, catalog, arrived, ledger, draft, batch, rules>>

\* INSERT ... ON CONFLICT (user_id, raw_name): with user_id NULL no row conflicts.
Seed ==
  /\ seedings < Seedings
  /\ SeedFits(catalog)
  /\ global' = [k \in Key |-> global[k] + (IF k \in SeedKeys THEN SeedCount[k] ELSE 0)]
  /\ seedings' = seedings + 1
  /\ UNCHANGED <<own, catalog, arrived, ledger, draft, batch, rules, task>>

\* VerifyTransaction loads the row (404 without one).
FindTransaction(c, p, flag) ==
  /\ task[c] = None
  /\ ledger[p] # None
  /\ task' = [task EXCEPT ![c] =
       [is |-> "verify", payment |-> p, flag |-> flag,
        verified |-> ledger[p].verified, review |-> ledger[p].review]]
  /\ UNCHANGED <<own, global, seedings, catalog, arrived, ledger, draft, batch, rules>>

\* Seeded fault: a verification keeps the review flag.
ReviewKept(flag, read, now) == now

\* The review flag is only ever cleared, by a verification.
ReviewAfter(flag, read, now) == IF flag /\ read THEN FALSE ELSE now

WriteVerdict(c) ==
  /\ task[c] # None /\ task[c].is = "verify"
  /\ LET t == task[c] IN
     ledger' = [ledger EXCEPT ![t.payment].verified = Column(t.flag, t.verified, @),
                              ![t.payment].review = ReviewAfter(t.flag, t.review, @)]
  /\ Done(c)
  /\ UNCHANGED <<own, global, seedings, catalog, arrived, draft, batch, rules>>

\* A request fails or is gone before it has written.
GiveUp(c) ==
  /\ task[c] # None
  /\ Done(c)
  /\ UNCHANGED <<own, global, seedings, catalog, arrived, ledger, draft, batch, rules>>

-----------------------------------------------------------------------------
(* A pass.                                                                 *)

Arrive(p) ==
  /\ p \notin arrived
  /\ arrived' = arrived \cup {p}
  /\ UNCHANGED <<own, global, seedings, catalog, ledger, draft, batch, rules, task>>

\* Seeded fault: what has a transaction already is taken again.
UnmatchedOrNot == arrived

Unmatched == {p \in arrived : ledger[p] = None}

StartPass ==
  /\ batch = None
  /\ batch' = Unmatched
  /\ rules' = catalog
  /\ UNCHANGED <<own, global, seedings, catalog, arrived, ledger, draft, task>>

\* _create_transaction, _create_review_transaction and _create_solo.
Filed(alias, p) ==
  [canonical |-> IF alias = None THEN None ELSE alias.canonical,
   category  |-> Pick(IF alias = None THEN None ELSE alias.category, rules),
   review    |-> Bill[p].method = "unknown", verified |-> FALSE]

First(p) == p \in batch /\ \A q \in batch : p <= q

Book(p) ==
  /\ batch # None /\ First(p)
  /\ LET k == KeyOf[Bill[p].raw] IN
       /\ ~Ambiguous(k)
       /\ draft' = [draft EXCEPT ![p] = Filed(Lookup(k), p)]
  /\ batch' = batch \ {p}
  /\ UNCHANGED <<own, global, seedings, catalog, arrived, ledger, rules, task>>

EndPass ==
  /\ batch' = None /\ rules' = {}
  /\ draft' = [p \in Payment |-> None]

CommitPass ==
  /\ batch = {}
  /\ ledger' = [p \in Payment |-> IF draft[p] # None THEN draft[p] ELSE ledger[p]]
  /\ EndPass
  /\ UNCHANGED <<own, global, seedings, catalog, arrived, task>>

\* A lookup that finds several rows raises, and so may anything else.
FailPass ==
  /\ batch # None
  /\ EndPass
  /\ UNCHANGED <<own, global, seedings, catalog, arrived, ledger, task>>

-----------------------------------------------------------------------------
PassStep == (\E p \in Payment : Book(p)) \/ CommitPass

Next ==
  \/ \E C \in Catalogs : EditCatalog(C)
  \/ \E c \in Clerk : \/ \E l \in Lesson : FindAlias(c, l)
                      \/ \E p \in Payment, flag \in BOOLEAN : FindTransaction(c, p, flag)
                      \/ WriteAlias(c) \/ FirstRowTaken(c) \/ WriteVerdict(c) \/ GiveUp(c)
  \/ Seed
  \/ \E p \in Payment : Arrive(p)
  \/ StartPass \/ PassStep \/ FailPass

Spec == Init /\ [][Next]_vars

-----------------------------------------------------------------------------
(* Properties.                                                             *)

\* A lookup finds one row at most (merchant_alias_orm.py:23-25: "the yaml seed is
\* upserted when it is run again").
LookupsAreUnique == \A k \in Key : ~Ambiguous(k)

\* The category of a transaction is one of categories.yaml, or none, even when the
\* alias was taught under a category that has been removed since (classifier.py:1).
CategoryAllowed == \A p \in Payment : draft[p] # None => draft[p].category \in rules \cup {None}

\* Verifications that overlap, each writing only what differs from the row it read,
\* never leave a verified transaction on the review list.
ReviewList == {p \in Payment : ledger[p] # None /\ ledger[p].review}
VerifiedNotInReview == \A p \in ReviewList : ~ledger[p].verified

\* The reports of the months together hold every transaction once; the categories and
\* the methods of a month add up to it, and the category report, which adds up the
\* merchants of a category, comes to what the monthly report says of that category.
\* (Looked at when no request is under way: every ledger there can be is there at such
\* a moment too.)
R == INSTANCE Reports WITH Nothing <- None, OtherName <- Other
Date == Nat \X (1..12) \X (1..31)
ASSUME BillAssumption ==
  \A p \in Payment : LET d == Bill[p].paidAt IN
    Bill[p].amount \in Int /\ d \in Date /\ R!IsMonth(d[1], d[2])

Line(p) ==
  [id |-> p, name |-> Bill[p].raw, amount |-> Bill[p].amount, paidAt |-> Bill[p].paidAt,
   method |-> Bill[p].method, canonical |-> ledger[p].canonical,
   category |-> ledger[p].category, review |-> ledger[p].review]
Booked      == {Line(p) : p \in {q \in Payment : ledger[q] # None}}
MonthOf(t)  == <<t.paidAt[1], t.paidAt[2]>>
Months      == {MonthOf(t) : t \in Booked}
Report(ym)  == R!Monthly(Booked, ym[1], ym[2])
Detail(ym)  == R!Categories(Booked, ym[1], ym[2])

MonthsAddUp ==
  /\ SumFunction([ym \in Months |-> Report(ym).total.count]) = Cardinality(Booked)
  /\ SumFunction([ym \in Months |-> Report(ym).review]) = Cardinality(ReviewList)
MonthAddsUp(ym) ==
  /\ R!Sums(Report(ym).by_category) = Report(ym).total
  /\ R!Sums(Report(ym).by_method) = Report(ym).total
  /\ DOMAIN Detail(ym) = DOMAIN Report(ym).by_category
  /\ \A c \in DOMAIN Detail(ym) : Detail(ym)[c].total = Report(ym).by_category[c]
AtRest == batch = None /\ \A c \in Clerk : task[c] = None
ReportsAgree == AtRest => MonthsAddUp /\ \A ym \in Months : MonthAddsUp(ym)

(***************************************************************************)
(* Fairness: passes are called again and again and run to their end.       *)
(***************************************************************************)
FairSpec == Spec /\ WF_vars(StartPass) /\ WF_vars(PassStep)

\* When passes stop failing by themselves, each payment is filed - provided that in
\* the end no name is left that only the file knows, and knows several times: the
\* pass raises at such a name for ever, until the owner teaches it.
Settled == \A p \in Payment : LET k == KeyOf[Bill[p].raw] IN own[k] # None \/ global[k] <= 1
BooksKeepUp ==
  <>[]Settled /\ <>[][~FailPass]_vars =>
    \A p \in Payment : p \in arrived ~> ledger[p] # None
=============================================================================
