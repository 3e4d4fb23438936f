--------------------------- MODULE MatchingEngine ---------------------------
(***************************************************************************)
(* The pure rules that decide which card notification and which merchant   *)
(* receipt are the two halves of one payment                               *)
(* (app/domains/transaction/domain/service/matching_engine.py), and the    *)
(* SQL predicate that gathers the candidates they choose from.             *)
(*                                                                         *)
(* A payment event is a record with the columns the rules read:            *)
(*   type, amount, currency, paidAt (in minutes), last4 and name.          *)
(* `p` is the table, a function from event ids to such records.            *)
(***************************************************************************)
EXTENDS Integers, FiniteSets

CONSTANTS
  Name,      \* normalised merchant names (_norm is applied on both sides)
  Ratio,     \* rapidfuzz partial_ratio on normalised names: [Name \X Name -> 0..100]
  NoLast4    \* the card_last4 of an event that carries no card number

ASSUME RatioAssumption == Ratio \in [Name \X Name -> 0..100]

TIME_WINDOW_MINUTES == 10
FUZZY_THRESHOLD     == 60

EventType == {"merchant_receipt", "card_notification"}

Opposite(type) ==
  IF type = "merchant_receipt" THEN "card_notification" ELSE "merchant_receipt"

\* Two rows the candidate query pairs: opposite type, equal amount, at most the
\* window apart.  The query compares neither currency nor card nor merchant.
Compatible(a, b) ==
  /\ b.type = Opposite(a.type)
  /\ b.amount = a.amount
  /\ b.paidAt >= a.paidAt - TIME_WINDOW_MINUTES
  /\ b.paidAt <= a.paidAt + TIME_WINDOW_MINUTES

-----------------------------------------------------------------------------
(***************************************************************************)
(* disambiguate_sync.  `cands` is the set of candidate ids.                *)
(***************************************************************************)

\* Step 3a: keep the candidates on the source's card, if it has one and any is.
SameCard(p, src, cands) == {c \in cands : p[c].last4 = p[src].last4}

\* Seeded fault: a card nobody shares leaves no candidate.
NarrowedToNothing(p, src, cands) ==
  IF p[src].last4 # NoLast4 THEN SameCard(p, src, cands) ELSE cands

Narrowed(p, src, cands) ==
  IF p[src].last4 # NoLast4 /\ SameCard(p, src, cands) # {}
  THEN SameCard(p, src, cands)
  ELSE cands

\* Step 3b: those of them whose merchant name is similar enough.
Passing(p, src, cands) ==
  {c \in Narrowed(p, src, cands) : Ratio[p[src].name, p[c].name] >= FUZZY_THRESHOLD}

\* The counterpart the rules settle on without the LLM, as a set of at most one.
SyncChoice(p, src, cands) ==
  CASE Cardinality(Narrowed(p, src, cands)) = 1 -> Narrowed(p, src, cands)
    [] Cardinality(Narrowed(p, src, cands)) # 1
         /\ Cardinality(Passing(p, src, cands)) = 1 -> Passing(p, src, cands)
    [] OTHER -> {}

NeedsLlm(p, src, cands) == cands # {} /\ SyncChoice(p, src, cands) = {}

\* Seeded fault: the score is reported without the 0.1 on top.
SyncConfidencePlain(p, src, cands, c) == Ratio[p[src].name, p[c].name]

\* Confidence in percent of a counterpart chosen without the LLM.
SyncConfidence(p, src, cands, c) ==
  CASE Cardinality(cands) = 1 -> 95
    [] Cardinality(cands) > 1 /\ Cardinality(Narrowed(p, src, cands)) = 1 -> 93
    [] OTHER -> IF Ratio[p[src].name, p[c].name] + 10 < 90
                THEN Ratio[p[src].name, p[c].name] + 10 ELSE 90

(***************************************************************************)
(* finalize_with_llm: the answer counts when it names one of `cands`, the  *)
(* candidates as they were before any narrowing; every other answer, None  *)
(* or an unknown id, leaves the source to manual review.                   *)
(***************************************************************************)

\* Seeded fault: the answer is not looked up among the candidates.
LlmChoiceUnchecked(cands, answer) == {answer}

LlmChoice(cands, answer) == cands \cap {answer}
LLM_CONFIDENCE == 70
=============================================================================
