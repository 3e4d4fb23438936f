--------------------------- MODULE MatchDecision ----------------------------
(***************************************************************************)
(* One decision of the match pass, from the candidate query to the         *)
(* MatchDecision: the rows the query returns arrive one by one, the rules  *)
(* of MatchingEngine are applied, and when they do not settle it the LLM   *)
(* is asked and may answer with any id or with nothing.                    *)
(*                                                                         *)
(* This module exists to compare the rules with an independent statement   *)
(* of what they should compute, over every small set of candidates.        *)
(***************************************************************************)
EXTENDS MatchingEngine

CONSTANTS
  Source,     \* id of the event being matched
  Candidate,  \* ids the candidate query may return
  Payment,    \* the rows they may hold
  NoAnswer    \* the LLM call failed, timed out or returned no usable id

ASSUME PaymentAssumption == \A r \in Payment : r.name \in Name

VARIABLES
  p,          \* rows read so far: Source and the candidates returned
  phase,      \* "gather" | "llm" | "done"
  outcome     \* the MatchDecision: how it was reached and with which candidates

vars == <<p, phase, outcome>>

cands == DOMAIN p \ {Source}

Undecided == [by |-> "none", with |-> {}, confidence |-> 0]

TypeOK ==
  /\ Source \in DOMAIN p
  /\ cands \subseteq Candidate
  /\ \A e \in DOMAIN p : p[e] \in Payment
  /\ phase \in {"gather", "llm", "done"}
  /\ outcome \in [by : {"none", "rules", "llm", "review"},
                  with : SUBSET Candidate, confidence : 0..100]

Init ==
  /\ \E r \in Payment : p = [e \in {Source} |-> r]
  /\ phase = "gather"
  /\ outcome = Undecided

\* One more row of find_candidates' result.
ReturnRow(c, r) ==
  /\ phase = "gather"
  /\ c \notin DOMAIN p
  /\ Compatible(p[Source], r)
  /\ p' = [e \in DOMAIN p \cup {c} |-> IF e = c THEN r ELSE p[e]]
  /\ UNCHANGED <<phase, outcome>>

\* disambiguate_sync, and the branch of execute on needs_llm.
DisambiguateSync ==
  /\ phase = "gather"
  /\ IF NeedsLlm(p, Source, cands)
     THEN phase' = "llm" /\ UNCHANGED outcome
     ELSE /\ phase' = "done"
          /\ outcome' =
               IF cands = {} THEN Undecided
               ELSE [by |-> "rules", with |-> SyncChoice(p, Source, cands),
                     confidence |-> CHOOSE n \in 0..100 : \E c \in SyncChoice(p, Source, cands) :
                                      n = SyncConfidence(p, Source, cands, c)]
  /\ UNCHANGED p

\* finalize_with_llm on the answer of llm.pick.
FinalizeWithLlm(answer) ==
  /\ phase = "llm"
  /\ phase' = "done"
  /\ outcome' = IF LlmChoice(cands, answer) = {}
                THEN [by |-> "review", with |-> {}, confidence |-> 0]
                ELSE [by |-> "llm", with |-> LlmChoice(cands, answer),
                      confidence |-> LLM_CONFIDENCE]
  /\ UNCHANGED p

Next ==
  \/ \E c \in Candidate, r \in Payment : ReturnRow(c, r)
  \/ DisambiguateSync
  \/ \E answer \in Candidate \cup {NoAnswer} : FinalizeWithLlm(answer)

Spec == Init /\ [][Next]_vars

-----------------------------------------------------------------------------
(* Reference definition: evidence weighed candidate by candidate.          *)

Bit(b) == IF b THEN 1 ELSE 0

CommonCard(c) == p[Source].last4 # NoLast4 /\ p[c].last4 = p[Source].last4

SimilarName(c) == Ratio[p[Source].name, p[c].name] >= 60

\* A card number in common outweighs a similar merchant name.
Evidence(c) == 2 * Bit(CommonCard(c)) + Bit(SimilarName(c))

Strongest == {c \in cands : \A d \in cands \ {c} : Evidence(d) < Evidence(c)}

\* The staged elimination of disambiguate_sync (single candidate, then card,
\* then name) matches without the LLM exactly when one candidate carries
\* strictly more evidence than every other, and it matches that one; the LLM
\* and manual review are left for ties.
RulesPickTheStrongest ==
  /\ phase = "done" /\ outcome.by = "rules" => outcome.with = Strongest /\ Strongest # {}
  /\ outcome.by \in {"llm", "review"} \/ phase = "llm" => Strongest = {} /\ cands # {}
  /\ phase = "done" /\ outcome.by = "none" => cands = {}

\* A pair booked by the rules is never reported with less confidence than one
\* the LLM guessed: the fuzzy branch adds 0.1 to a score of at least 60.
RulesOutrankTheLlm ==
  outcome.by = "rules" => outcome.confidence >= LLM_CONFIDENCE
=============================================================================
