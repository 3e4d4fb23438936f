------------------------ MODULE MatchDecision_proofs ------------------------
(***************************************************************************)
(* The staged rules against the weighing of evidence, for any number of    *)
(* candidates, any cards and names, and any scores.                        *)
(***************************************************************************)
EXTENDS MatchDecision, FiniteSetTheorems, TLAPS

\* The rows gathered so far: finitely many, each with a name to compare.
Gathered ==
  /\ IsFiniteSet(cands)
  /\ \A e \in DOMAIN p : p[e].name \in Name
  /\ Source \in DOMAIN p

N == Narrowed(p, Source, cands)
Q == Passing(p, Source, cands)

\* What the stages keep is a part of the candidates, and N is not empty for nothing.
LEMMA Stages == Q \subseteq N /\ N \subseteq cands /\ (cands # {} => N # {})
BY DEF N, Q, Passing, Narrowed, SameCard

\* A score is a number between 0 and 100.
LEMMA Score ==
  ASSUME Gathered, NEW c \in cands
  PROVE  Ratio[p[Source].name, p[c].name] \in 0..100
<1>1. p[Source].name \in Name /\ p[c].name \in Name
  BY DEF Gathered, cands
<1>2. <<p[Source].name, p[c].name>> \in Name \X Name
  BY <1>1
<1>3. QED
  BY <1>2, RatioAssumption

\* The four weights.
LEMMA Weight ==
  ASSUME NEW c
  PROVE  /\ CommonCard(c) /\ SimilarName(c) => Evidence(c) = 3
         /\ CommonCard(c) /\ ~SimilarName(c) => Evidence(c) = 2
         /\ ~CommonCard(c) /\ SimilarName(c) => Evidence(c) = 1
         /\ ~CommonCard(c) /\ ~SimilarName(c) => Evidence(c) = 0
<1>1. PICK u \in Int : u = Bit(CommonCard(c))
  BY DEF Bit
<1>2. PICK v \in Int : v = Bit(SimilarName(c))
  BY DEF Bit
<1>3. Evidence(c) = 2 * u + v
  BY <1>1, <1>2 DEF Evidence
<1>4. (CommonCard(c) => u = 1) /\ (~CommonCard(c) => u = 0)
  BY <1>1 DEF Bit
<1>5. (SimilarName(c) => v = 1) /\ (~SimilarName(c) => v = 0)
  BY <1>2 DEF Bit
<1>6. QED
  BY <1>3, <1>4, <1>5

\* Whoever is left by the card has two points or none for it, as all others left
\* have, and one more for a similar name; who is not left has less than two.
LEMMA Weights ==
  ASSUME Gathered
  PROVE  \E b \in {0, 2} :
           /\ \A c \in N : Evidence(c) = b + Bit(c \in Q)
           /\ \A d \in cands \ N : Evidence(d) \in {0, 1} /\ b = 2
<1> DEFINE same == p[Source].last4 # NoLast4 /\ SameCard(p, Source, cands) # {}
<1>1. PICK b \in {0, 2} : b = IF same THEN 2 ELSE 0
  OBVIOUS
<1>2. ASSUME NEW c \in N PROVE Evidence(c) = b + Bit(c \in Q)
  <2>1. c \in Q <=> SimilarName(c)
    BY <1>2 DEF N, Q, Passing, FUZZY_THRESHOLD, SimilarName
  <2>2. CommonCard(c) <=> same
    BY <1>2 DEF N, Narrowed, SameCard, CommonCard
  <2>3. QED
    BY <1>1, <2>1, <2>2, Weight DEF Bit
<1>3. ASSUME NEW d \in cands \ N PROVE Evidence(d) \in {0, 1} /\ b = 2
  <2>1. same /\ ~CommonCard(d)
    BY <1>3 DEF N, Narrowed, SameCard, CommonCard
  <2>2. QED
    BY <1>1, <2>1, Weight
<1>4. QED
  BY <1>1, <1>2, <1>3

\* A finite set that is not a singleton offers another member to each of its members.
LEMMA Another ==
  ASSUME NEW S, IsFiniteSet(S), Cardinality(S) # 1, S # {}, NEW c
  PROVE  \E d \in S : d # c
<1>1. S # {c}
  BY FS_Singleton
<1>2. QED
  BY <1>1

\* A finite set of one element.
LEMMA Single ==
  ASSUME NEW S, IsFiniteSet(S), Cardinality(S) = 1
  PROVE  \E c : S = {c}
BY FS_Singleton

\* The staged elimination finds the candidate with strictly more evidence, if there
\* is one, and only then settles the match.
LEMMA StagesFindStrongest ==
  ASSUME Gathered
  PROVE  SyncChoice(p, Source, cands) = Strongest
<1>1. IsFiniteSet(N) /\ IsFiniteSet(Q)
  BY Stages, FS_Subset DEF Gathered
<1>2. PICK b \in {0, 2} :
        /\ \A c \in N : Evidence(c) = b + Bit(c \in Q)
        /\ \A d \in cands \ N : Evidence(d) \in {0, 1} /\ b = 2
  BY Weights
<1>3. CASE Cardinality(N) = 1
  <2>1. PICK c : N = {c}
    BY <1>1, <1>3, Single
  <2>2. \A d \in cands \ {c} : Evidence(d) < Evidence(c)
    BY <1>2, <2>1 DEF Bit
  <2>3. Strongest = {c}
    <3>1. c \in Strongest
      BY <2>1, <2>2, Stages DEF Strongest
    <3>2. ASSUME NEW d \in Strongest, d # c PROVE FALSE
      <4>1. Evidence(d) < Evidence(c) /\ Evidence(c) < Evidence(d)
        BY <2>1, <2>2, <3>2, Stages DEF Strongest
      <4>2. Evidence(c) \in Int /\ Evidence(d) \in Int
        BY DEF Evidence, Bit
      <4>3. QED
        BY <4>1, <4>2
    <3>3. QED
      BY <3>1, <3>2
  <2>4. SyncChoice(p, Source, cands) = N
    BY <1>3 DEF SyncChoice, N
  <2>5. QED
    BY <2>1, <2>3, <2>4
<1>4. CASE Cardinality(N) # 1 /\ Cardinality(Q) = 1
  <2>1. PICK c : Q = {c}
    BY <1>1, <1>4, Single
  <2>2. c \in N /\ c \in cands
    BY <2>1, Stages
  <2>3. \A d \in cands \ {c} : Evidence(d) < Evidence(c)
    BY <1>2, <2>1, <2>2 DEF Bit
  <2>4. Strongest = {c}
    <3>1. c \in Strongest
      BY <2>2, <2>3 DEF Strongest
    <3>2. ASSUME NEW d \in Strongest, d # c PROVE FALSE
      <4>1. Evidence(d) < Evidence(c) /\ Evidence(c) < Evidence(d)
        BY <2>2, <2>3, <3>2 DEF Strongest
      <4>2. Evidence(c) \in Int /\ Evidence(d) \in Int
        BY DEF Evidence, Bit
      <4>3. QED
        BY <4>1, <4>2
    <3>3. QED
      BY <3>1, <3>2
  <2>5. SyncChoice(p, Source, cands) = Q
    BY <1>4 DEF SyncChoice, N, Q
  <2>6. QED
    BY <2>1, <2>4, <2>5
<1>5. CASE Cardinality(N) # 1 /\ Cardinality(Q) # 1
  <2>1. SyncChoice(p, Source, cands) = {}
    BY <1>5 DEF SyncChoice, N, Q
  <2>2. ASSUME NEW c \in Strongest PROVE FALSE
    <3>1. c \in cands /\ \A d \in cands \ {c} : Evidence(d) < Evidence(c)
      BY <2>2 DEF Strongest
    <3>2. N # {}
      BY <3>1, Stages
    <3>3. PICK d \in N : d # c /\ (Q # {} => d \in Q)
      BY <1>1, <1>5, <3>2, Another, Stages
    <3>4. d \in cands /\ Evidence(d) < Evidence(c)
      BY <3>1, <3>3, Stages
    <3>5. QED
      BY <1>2, <3>3, <3>4, <3>1 DEF Bit
  <2>3. QED
    BY <2>1, <2>2
<1>6. QED
  BY <1>3, <1>4, <1>5

\* What the rules choose is one candidate.
LEMMA ChoiceSingle ==
  ASSUME Gathered, SyncChoice(p, Source, cands) # {}
  PROVE  \E c \in cands : /\ SyncChoice(p, Source, cands) = {c}
                          /\ Cardinality(N) = 1 \/ c \in Q
<1>1. IsFiniteSet(N) /\ IsFiniteSet(Q)
  BY Stages, FS_Subset DEF Gathered
<1>2. \/ Cardinality(N) = 1 /\ SyncChoice(p, Source, cands) = N
      \/ Cardinality(N) # 1 /\ Cardinality(Q) = 1 /\ SyncChoice(p, Source, cands) = Q
  BY DEF SyncChoice, N, Q
<1>3. QED
  BY <1>1, <1>2, Single, Stages

\* Its confidence lies between that of the LLM and 95.
LEMMA ConfidenceBounds ==
  ASSUME Gathered, NEW c \in cands, Cardinality(N) = 1 \/ c \in Q
  PROVE  SyncConfidence(p, Source, cands, c) \in 70..95
<1>1. PICK r \in 0..100 : r = Ratio[p[Source].name, p[c].name]
  BY Score
<1>2. c \in Q => r >= 60
  <2>1. c \in Q => Ratio[p[Source].name, p[c].name] >= 60
    BY DEF Q, Passing, FUZZY_THRESHOLD
  <2>2. QED
    BY <1>1, <2>1, Zenon
<1>3. Cardinality(cands) \in Nat /\ Cardinality(cands) # 0
  BY FS_CardinalityType, FS_EmptySet DEF Gathered
<1>4. CASE Cardinality(cands) = 1
  BY <1>4 DEF SyncConfidence
<1>5. CASE Cardinality(cands) > 1 /\ Cardinality(N) = 1
  <2>1. SyncConfidence(p, Source, cands, c) = 93
    BY <1>3, <1>5 DEF SyncConfidence, N
  <2>2. QED
    BY <2>1
<1>6. CASE Cardinality(cands) > 1 /\ Cardinality(N) # 1
  <2>1. r >= 60
    BY <1>2, <1>6
  <2>2. ~(Cardinality(cands) = 1) /\ ~(Cardinality(N) = 1)
    BY <1>6
  <2>3. SyncConfidence(p, Source, cands, c) = IF r + 10 < 90 THEN r + 10 ELSE 90
    BY <1>1, <2>2, Zenon DEF SyncConfidence, N
  <2>4. QED
    BY <2>1, <2>3
<1>7. QED
  BY <1>3, <1>4, <1>5, <1>6
-----------------------------------------------------------------------------
(***************************************************************************)
(* The decision.  Nothing is concluded while rows are still read, so the   *)
(* conclusions rest on the rows as they are when the rules are applied and *)
(* stay true because nothing is read after that.                           *)
(***************************************************************************)

DInv ==
  /\ TypeOK
  /\ IsFiniteSet(cands)
  /\ phase # "done" => outcome = Undecided
  /\ RulesPickTheStrongest
  /\ RulesOutrankTheLlm

\* The payments all have a name the scores are defined for.
LEMMA Gathers == DInv => Gathered
BY PaymentAssumption DEF DInv, TypeOK, Gathered

\* At first there is the source and nothing else.
LEMMA InitDInv == Init => DInv
<1> SUFFICES ASSUME Init PROVE DInv
  OBVIOUS
<1>1. PICK r \in Payment : p = [e \in {Source} |-> r]
  BY DEF Init
<1>2. DOMAIN p = {Source} /\ p[Source] = r
  BY <1>1
<1>3. cands = {} /\ IsFiniteSet(cands)
  BY <1>2, FS_EmptySet DEF cands
<1>4. TypeOK
  BY <1>2, <1>3 DEF TypeOK, Init, Undecided
<1>5. QED
  BY <1>3, <1>4 DEF DInv, Init, Undecided, RulesPickTheStrongest, RulesOutrankTheLlm

\* A row more changes what is known, while nothing is concluded yet.
LEMMA ReturnRowKeeps ==
  ASSUME DInv, NEW c \in Candidate, NEW r \in Payment, ReturnRow(c, r)
  PROVE  DInv'
<1>1. phase' = "gather" /\ outcome' = Undecided
  BY DEF ReturnRow, DInv
<1>2. DOMAIN p' = DOMAIN p \cup {c}
  BY DEF ReturnRow
<1>3. \A e \in DOMAIN p' : p'[e] = IF e = c THEN r ELSE p[e]
  BY DEF ReturnRow
<1>4. cands' = cands \/ cands' = cands \cup {c}
  BY <1>2 DEF cands
<1>5. IsFiniteSet(cands')
  BY <1>4, FS_AddElement DEF DInv
<1>6. TypeOK'
  BY <1>1, <1>2, <1>3, <1>4 DEF DInv, TypeOK, Undecided
<1>7. QED
  BY <1>1, <1>5, <1>6 DEF DInv, Undecided, RulesPickTheStrongest, RulesOutrankTheLlm

\* The rules settle a match exactly when one candidate has the most evidence, with
\* a confidence the LLM never has more of.
LEMMA DisambiguateKeeps ==
  ASSUME DInv, DisambiguateSync
  PROVE  DInv'
<1>1. p' = p /\ cands' = cands /\ Strongest' = Strongest
  BY DEF DisambiguateSync, cands, Strongest, Evidence, CommonCard, SimilarName
<1>2. Gathered /\ SyncChoice(p, Source, cands) = Strongest
  BY Gathers, StagesFindStrongest
<1>3. outcome = Undecided
  BY DEF DInv, DisambiguateSync
<1>4. CASE NeedsLlm(p, Source, cands)
  <2>1. phase' = "llm" /\ outcome' = Undecided
    BY <1>3, <1>4 DEF DisambiguateSync
  <2>2. Strongest = {} /\ cands # {}
    BY <1>2, <1>4 DEF NeedsLlm
  <2>3. TypeOK'
    BY <1>1, <2>1 DEF DInv, TypeOK, Undecided
  <2>4. QED
    BY <1>1, <2>1, <2>2, <2>3 DEF DInv, Undecided, RulesPickTheStrongest, RulesOutrankTheLlm
<1>5. CASE ~NeedsLlm(p, Source, cands) /\ cands = {}
  <2>1. phase' = "done" /\ outcome' = Undecided
    BY <1>5 DEF DisambiguateSync
  <2>2. TypeOK'
    BY <1>1, <2>1 DEF DInv, TypeOK, Undecided
  <2>3. QED
    BY <1>1, <1>5, <2>1, <2>2 DEF DInv, Undecided, RulesPickTheStrongest, RulesOutrankTheLlm
<1>6. CASE ~NeedsLlm(p, Source, cands) /\ cands # {}
  <2>1. SyncChoice(p, Source, cands) # {}
    BY <1>6 DEF NeedsLlm
  <2>2. PICK c \in cands : /\ SyncChoice(p, Source, cands) = {c}
                           /\ Cardinality(N) = 1 \/ c \in Q
    BY <1>2, <2>1, ChoiceSingle
  <2>3. SyncConfidence(p, Source, cands, c) \in 70..95
    BY <1>2, <2>2, ConfidenceBounds
  <2>4. PICK n \in 70..95 : n = SyncConfidence(p, Source, cands, c)
    BY <2>3
  <2>5. (CHOOSE k \in 0..100 : \E d \in SyncChoice(p, Source, cands) :
                                 k = SyncConfidence(p, Source, cands, d)) = n
    BY <2>2, <2>4
  <2>6. phase' = "done" /\ outcome' = [by |-> "rules", with |-> {c}, confidence |-> n]
    BY <1>6, <2>2, <2>5 DEF DisambiguateSync
  <2>7. TypeOK'
    BY <1>1, <2>6 DEF DInv, TypeOK
  <2>8. RulesPickTheStrongest'
    BY <1>1, <1>2, <2>2, <2>6 DEF RulesPickTheStrongest
  <2>9. RulesOutrankTheLlm'
    BY <2>6 DEF RulesOutrankTheLlm, LLM_CONFIDENCE
  <2>10. QED
    BY <1>1, <2>6, <2>7, <2>8, <2>9 DEF DInv
<1>7. QED
  BY <1>4, <1>5, <1>6

\* The LLM decides among the candidates of a tie, or nobody does.
LEMMA FinalizeKeeps ==
  ASSUME DInv, NEW answer \in Candidate \cup {NoAnswer}, FinalizeWithLlm(answer)
  PROVE  DInv'
<1>1. p' = p /\ cands' = cands /\ Strongest' = Strongest
  BY DEF FinalizeWithLlm, cands, Strongest, Evidence, CommonCard, SimilarName
<1>2. Strongest = {} /\ cands # {}
  BY DEF DInv, RulesPickTheStrongest, FinalizeWithLlm
<1>3. /\ phase' = "done"
      /\ outcome' \in [by : {"llm", "review"}, with : SUBSET Candidate, confidence : 0..100]
  BY DEF FinalizeWithLlm, LlmChoice, LLM_CONFIDENCE, DInv, TypeOK
<1>4. TypeOK'
  BY <1>1, <1>3 DEF DInv, TypeOK
<1>5. QED
  BY <1>1, <1>2, <1>3, <1>4 DEF DInv, RulesPickTheStrongest, RulesOutrankTheLlm

\* Every step keeps the conclusions.
LEMMA DInvInductive == DInv /\ [Next]_vars => DInv'
<1> SUFFICES ASSUME DInv, [Next]_vars PROVE DInv'
  OBVIOUS
<1>1. ASSUME NEW c \in Candidate, NEW r \in Payment, ReturnRow(c, r) PROVE DInv'
  BY <1>1, ReturnRowKeeps
<1>2. CASE DisambiguateSync
  BY <1>2, DisambiguateKeeps
<1>3. ASSUME NEW answer \in Candidate \cup {NoAnswer}, FinalizeWithLlm(answer) PROVE DInv'
  BY <1>3, FinalizeKeeps
<1>4. CASE UNCHANGED vars
  <2>1. p' = p /\ phase' = phase /\ outcome' = outcome
    BY <1>4 DEF vars
  <2>2. cands' = cands /\ Strongest' = Strongest
    BY <2>1 DEF cands, Strongest, Evidence, CommonCard, SimilarName
  <2>3. TypeOK'
    BY <2>1, <2>2 DEF DInv, TypeOK
  <2>4. QED
    BY <2>1, <2>2, <2>3 DEF DInv, RulesPickTheStrongest, RulesOutrankTheLlm
<1>5. QED
  BY <1>1, <1>2, <1>3, <1>4 DEF Next

\* A decision is always one of the four kinds, about candidates, with a percentage.
THEOREM TypeCorrect == Spec => []TypeOK
<1>1. DInv => TypeOK
  BY DEF DInv
<1>2. QED
  BY InitDInv, DInvInductive, <1>1, PTL DEF Spec

\* For every table, every set of candidates and every score: the staged rules of
\* disambiguate_sync match without the LLM exactly when one candidate carries more
\* evidence than each other, and then match that one.
THEOREM StrongestPicked == Spec => []RulesPickTheStrongest
<1>1. DInv => RulesPickTheStrongest
  BY DEF DInv
<1>2. QED
  BY InitDInv, DInvInductive, <1>1, PTL DEF Spec

\* A match of the rules is never less confident than one of the LLM.
THEOREM RulesOutrank == Spec => []RulesOutrankTheLlm
<1>1. DInv => RulesOutrankTheLlm
  BY DEF DInv
<1>2. QED
  BY InitDInv, DInvInductive, <1>1, PTL DEF Spec
=============================================================================
