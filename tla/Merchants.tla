------------------------------ MODULE Merchants ------------------------------
(***************************************************************************)
(* Names of merchants: the key a raw name is looked up by, the rows of     *)
(* config/merchants.yaml, and the category of a transaction.               *)
(*                                                                         *)
(* A raw name is a sequence of tokens: words, Space for a run of blanks,   *)
(* corporate marks and the prefixes of payment gateways.                   *)
(***************************************************************************)
EXTENDS Integers, FiniteSets, Sequences, SequencesExt

CONSTANTS
  Token,     \* the tokens names are made of
  Fold,      \* [Token -> Token], casefold
  Space,
  CorpMark,  \* tokens such as "(주)" that are dropped wherever they stand
  PgPrefixes,  \* _PG_PREFIXES, in their order
  SeedRows,  \* config/merchants.yaml
  Category,  \* names of categories
  Other,     \* the fallback category
  None

ASSUME MerchantAssumption ==
  /\ Fold \in [Token -> Token] /\ {Space} \cup CorpMark \subseteq Token
  /\ PgPrefixes \in Seq(Token)
  /\ \A i \in DOMAIN SeedRows :
       /\ SeedRows[i].canonical \in Seq(Token)
       /\ SeedRows[i].aliases \in Seq(Seq(Token))
       /\ SeedRows[i].category \in Category \cup {None}
  /\ Other \in Category /\ None \notin Category

-----------------------------------------------------------------------------
\* Blanks at both ends go, runs of them become one.
Squeeze(name) ==
  LET Add(s, t) == IF t = Space /\ (s = <<>> \/ Last(s) = Space) THEN s ELSE Append(s, t)
      s == FoldLeft(Add, <<>>, name)
  IN  IF s # <<>> /\ Last(s) = Space THEN Front(s) ELSE s

\* Each prefix is tried once, in the order of the tuple.
DropPrefixes(name) ==
  LET Drop(s, p) == IF s # <<>> /\ Fold[Head(s)] = Fold[p] THEN Tail(s) ELSE s
  IN  FoldLeft(Drop, name, PgPrefixes)

\* A mark in front of a prefix shields it by the blank it leaves behind.
Normalise(raw) ==
  LET Unmarked == SelectSeq(Squeeze(raw), LAMBDA t : t \notin CorpMark)
      Bare == Squeeze(DropPrefixes(Unmarked))
  IN  [i \in DOMAIN Bare |-> Fold[Bare[i]]]

-----------------------------------------------------------------------------
\* The names a row of the file is entered under, its canonical one first.
NamesOf(row) == <<row.canonical>> \o row.aliases

\* The entries of the file: a row and one of its names.
Entry == UNION {{i} \X DOMAIN NamesOf(SeedRows[i]) : i \in DOMAIN SeedRows}
EntryKey == [e \in Entry |-> Normalise(NamesOf(SeedRows[e[1]])[e[2]])]
SeedKeys == {EntryKey[e] : e \in Entry}
ASSUME FileAssumption == IsFiniteSet(Entry)

\* What one seeding enters under a key: so many rows, and (one of) their content.
SeedCount == [k \in SeedKeys |-> Cardinality({e \in Entry : EntryKey[e] = k})]
SeedAlias ==
  [k \in SeedKeys |->
     LET row == SeedRows[(CHOOSE e \in Entry : EntryKey[e] = k)[1]]
     IN  [canonical |-> row.canonical, category |-> row.category]]

\* SeedFromYaml refuses the whole file for one category it does not know.
SeedFits(catalog) ==
  \A i \in DOMAIN SeedRows : SeedRows[i].category \in catalog \cup {None}

-----------------------------------------------------------------------------
\* Seeded fault: the category of the alias is taken as it is.
PickUnchecked(category, catalog) == IF category # None THEN category ELSE Other

\* Classifier.pick; "" is stored as NULL.
Pick(category, catalog) ==
  IF category \in catalog THEN category ELSE IF Other \in catalog THEN Other ELSE None
=============================================================================
