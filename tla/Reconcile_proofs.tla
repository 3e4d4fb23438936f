-------------------------- MODULE Reconcile_proofs --------------------------
(***************************************************************************)
(* Reconcile for any number of events, transactions and sessions: the type *)
(* invariant, and BookedConsistently whatever interleavings, deadlocks,    *)
(* failures and crashes there are.                                         *)
(***************************************************************************)
EXTENDS Reconcile, TLAPS

-----------------------------------------------------------------------------
(* Lemmas about the matching rules.                                        *)

\* The rules only choose among the candidates.
LEMMA SyncChoiceInCandidates ==
  ASSUME NEW p, NEW e, NEW C
  PROVE  SyncChoice(p, e, C) \subseteq C
<1>1. Narrowed(p, e, C) \subseteq C
  BY DEF Narrowed, SameCard
<1>2. Passing(p, e, C) \subseteq C
  BY <1>1 DEF Passing
<1>3. CASE Cardinality(Narrowed(p, e, C)) = 1
  BY <1>1, <1>3 DEF SyncChoice
<1>4. CASE Cardinality(Narrowed(p, e, C)) # 1 /\ Cardinality(Passing(p, e, C)) = 1
  <2>1. SyncChoice(p, e, C) = Passing(p, e, C)
    BY <1>4 DEF SyncChoice
  <2>2. QED
    BY <1>2, <2>1
<1>5. CASE Cardinality(Narrowed(p, e, C)) # 1 /\ Cardinality(Passing(p, e, C)) # 1
  <2>1. SyncChoice(p, e, C) = {}
    BY <1>5 DEF SyncChoice
  <2>2. QED
    BY <2>1
<1>6. QED
  BY <1>3, <1>4, <1>5

\* The candidate query is symmetric: each half of a pair finds the other, and
\* never itself.
LEMMA CompatibleSymmetric ==
  ASSUME NEW a \in Payment, NEW b \in Payment, Compatible(a, b)
  PROVE  Compatible(b, a) /\ a # b
BY ReconcileAssumption DEF Compatible, Opposite, EventType, TIME_WINDOW_MINUTES

-----------------------------------------------------------------------------
(* Type correctness.                                                       *)

\* Every step keeps the types.
LEMMA TypeInductive == TypeOK /\ [Next]_vars => TypeOK'
<1> SUFFICES ASSUME TypeOK, [Next]_vars PROVE TypeOK'
  OBVIOUS
<1> USE DEF TypeOK, Label, Job, Method, Goto, Begin, End, db, ask, stmt
<1>1. CASE Tick
  BY <1>1 DEF Tick
<1>2. CASE \E E \in (SUBSET Event) \ {{}} : Arrive(E)
  BY <1>2 DEF Arrive
<1>3. ASSUME NEW s \in Session, NEW j \in {"match", "sync"}, StartMatch(s, j)
      PROVE TypeOK'
  BY <1>3 DEF StartMatch, FirstOf, Unmatched
<1>4. ASSUME NEW s \in Session, NEW j \in Job, StartSolo(s, j)
      PROVE TypeOK'
  BY <1>4 DEF StartSolo, FirstOf, Unmatched, OlderThan24h
<1>5. ASSUME NEW s \in Session, NEW e \in Event,
             AlreadyConsumed(s, e) \/ NoCandidate(s, e) \/ AskLlm(s, e)
      PROVE TypeOK'
  <2>1. CASE AlreadyConsumed(s, e) \/ NoCandidate(s, e)
    BY <2>1 DEF AlreadyConsumed, NoCandidate, Take
  <2>2. CASE AskLlm(s, e)
    <3>1. CandidatesOf(s, e) \subseteq Event
      BY DEF CandidatesOf, Unmatched
    <3>2. e # None
      BY ReconcileAssumption
    <3>3. QED
      BY <2>2, <3>1, <3>2 DEF AskLlm, Take
  <2>3. QED
    BY <1>5, <2>1, <2>2
<1>6. ASSUME NEW s \in Session, NEW e \in Event, NEW c \in Event, MatchByRules(s, e, c)
      PROVE TypeOK'
  <2>1. PICK t \in Txn : /\ ledger' = [ledger EXCEPT ![t] = "card"]
                         /\ inserted' = [inserted EXCEPT ![s] = @ \cup {t}]
                         /\ cur' = [cur EXCEPT ![s] = t]
    BY <1>6 DEF MatchByRules, Insert
  <2>2. /\ pc' = [pc EXCEPT ![s] = "pair"] /\ todo' = [todo EXCEPT ![s] = {e, c}]
        /\ batch' = [batch EXCEPT ![s] = @ \ {e}]
        /\ UNCHANGED <<now, row, txnOf, lock, dirty, job, src, cands>>
    BY <1>6 DEF MatchByRules, Take, Insert
  <2>3. QED
    BY <2>1, <2>2
<1>7. ASSUME NEW s \in Session, NEW answer \in Event \cup {None}, LlmAnswers(s, answer)
      PROVE TypeOK'
  <2>1. PICK t \in Txn, m \in Method, E \in SUBSET Event :
          /\ ledger' = [ledger EXCEPT ![t] = m]
          /\ inserted' = [inserted EXCEPT ![s] = @ \cup {t}]
          /\ cur' = [cur EXCEPT ![s] = t]
          /\ todo' = [todo EXCEPT ![s] = E]
    <3>1. CASE LlmChoice(cands[s], answer) # {}
      <4>1. {src[s], answer} \in SUBSET Event
        BY <1>7, <3>1 DEF LlmAnswers, LlmChoice
      <4>2. QED
        BY <1>7, <3>1, <4>1 DEF LlmAnswers, Insert
    <3>2. CASE LlmChoice(cands[s], answer) = {}
      <4>1. {src[s]} \in SUBSET Event
        BY <1>7 DEF LlmAnswers
      <4>2. QED
        BY <1>7, <3>2, <4>1 DEF LlmAnswers, Insert
    <3>3. QED
      BY <3>1, <3>2
  <2>2. /\ pc' = [pc EXCEPT ![s] = "pair"]
        /\ src' = [src EXCEPT ![s] = None] /\ cands' = [cands EXCEPT ![s] = {}]
        /\ UNCHANGED <<now, row, txnOf, lock, dirty, job, batch>>
    BY <1>7 DEF LlmAnswers, Insert
  <2>3. QED
    BY <2>1, <2>2
<1>8. ASSUME NEW s \in Session, NEW e \in Event,
             Assign(s, e, "pair", "match") \/ Assign(s, e, "book", "solo")
      PROVE TypeOK'
  <2>1. CASE Assign(s, e, "pair", "match")
    BY <2>1 DEF Assign
  <2>2. CASE Assign(s, e, "book", "solo")
    BY <2>2 DEF Assign
  <2>3. QED
    BY <1>8, <2>1, <2>2
<1>9. ASSUME NEW s \in Session, FinishMatch(s) \/ FinishSolo(s) PROVE TypeOK'
  <2>1. /\ txnOf' \in [Event -> Txn \cup {None}]
        /\ lock' \in [Event -> Session \cup {None}]
        /\ dirty' \in [Event -> Txn \cup {None}]
        /\ inserted' \in [Session -> SUBSET Txn]
        /\ UNCHANGED <<now, row, ledger, batch, ask, stmt>>
    BY <1>9 DEF FinishMatch, FinishSolo, Commit, Visible
  <2>2. /\ pc' \in [Session -> Label] /\ job' \in [Session -> Job \cup {None}]
        /\ \A o \in Session : pc'[o] = "llm" => pc[o] = "llm"
    BY <1>9 DEF FinishMatch, FinishSolo
  <2>3. QED
    BY <2>1, <2>2
<1>10. ASSUME NEW s \in Session, NEW e \in Event, CreateSolo(s, e) PROVE TypeOK'
  BY <1>10 DEF CreateSolo, Insert
<1>11. ASSUME NEW s \in Session, Abort(s) \/ Crash(s) PROVE TypeOK'
  <2>1. /\ ledger' \in [Txn -> Method \cup {None}]
        /\ lock' \in [Event -> Session \cup {None}]
        /\ dirty' \in [Event -> Txn \cup {None}]
        /\ UNCHANGED <<now, row, txnOf>>
    BY <1>11 DEF Abort, Crash, Rollback
  <2>2. /\ inserted' \in [Session -> SUBSET Txn]
        /\ batch' \in [Session -> SUBSET Event]
        /\ cands' \in [Session -> SUBSET Event]
        /\ todo' \in [Session -> SUBSET Event]
    BY <1>11 DEF Abort, Crash, Rollback
  <2>3. src' \in [Session -> Event \cup {None}] /\ cur' \in [Session -> Txn \cup {None}]
    BY <1>11 DEF Abort, Crash, Rollback
  <2>4. /\ pc' \in [Session -> Label] /\ job' \in [Session -> Job \cup {None}]
        /\ pc'[s] # "llm" /\ \A o \in Session \ {s} : pc'[o] = pc[o]
    BY <1>11 DEF Abort, Crash
  <2>5. \A o \in Session \ {s} : src'[o] = src[o]
    BY <1>11 DEF Abort, Crash, Rollback
  <2>6. QED
    BY <2>1, <2>2, <2>3, <2>4, <2>5
<1>12. CASE UNCHANGED vars
  BY <1>12 DEF vars
<1>13. QED
  BY <1>1, <1>2, <1>3, <1>4, <1>5, <1>6, <1>7, <1>8, <1>9, <1>10, <1>11, <1>12
     DEF Next, Step

\* Before the first step there is no row and no request.
LEMMA InitTypeOK == Init => TypeOK
BY DEF Init, TypeOK, Label

\* The state of both passes keeps its types.
THEOREM TypeCorrect == Spec => []TypeOK
BY InitTypeOK, TypeInductive, PTL DEF Spec

\* A request sees time stand still, and makes no event rows.
LEMMA RequestsKeepRows ==
  ASSUME NEW s \in Session, NEW j \in Job,
         StartMatch(s, j) \/ StartSolo(s, j) \/ Step(s) \/ Abort(s) \/ Crash(s)
  PROVE  now' = now /\ row' = row
<1> USE DEF db
<1>1. CASE StartMatch(s, j) \/ StartSolo(s, j)
  BY <1>1 DEF StartMatch, StartSolo
<1>2. CASE Step(s)
  BY <1>2 DEF Step, AlreadyConsumed, NoCandidate, AskLlm, MatchByRules, LlmAnswers, Assign,
              FinishMatch, Commit, StartSolo, CreateSolo, FinishSolo
<1>3. CASE Abort(s) \/ Crash(s)
  BY <1>3 DEF Abort, Crash, Rollback
<1>4. QED
  BY <1>1, <1>2, <1>3

\* A request under way stays the request it is.
LEMMA RequestsKeepJobs ==
  ASSUME TypeOK, NEW s \in Session, job[s] = "sync", Step(s) \/ Abort(s)
  PROVE  job'[s] = "sync" \/ pc'[s] = "idle"
<1> USE DEF TypeOK, Goto, End
<1>1. CASE Abort(s)
  BY <1>1 DEF Abort
<1>2. CASE StartSolo(s, "sync") \/ FinishMatch(s) \/ FinishSolo(s)
  BY <1>2 DEF StartSolo, Begin, FinishMatch, FinishSolo
<1>3. CASE Step(s) /\ ~(StartSolo(s, "sync") \/ FinishMatch(s) \/ FinishSolo(s))
  BY <1>3 DEF Step, AlreadyConsumed, NoCandidate, AskLlm, MatchByRules, LlmAnswers, Insert, Assign,
              CreateSolo
<1>4. QED
  BY <1>1, <1>2, <1>3

-----------------------------------------------------------------------------
(***************************************************************************)
(* The inductive invariant behind BookedConsistently.  It speaks of an     *)
(* event's tie to a transaction in any of its three stages: the UPDATE has *)
(* still to reach the row, it has written it but not committed, it has     *)
(* committed it.                                                           *)
(***************************************************************************)

Tied(e, t) ==
  \/ txnOf[e] = t
  \/ dirty[e] = t
  \/ \E s \in Session : e \in todo[s] /\ cur[s] = t

\* What a session remembers is about rows that exist, and the candidates it has
\* put to the LLM suit its source.
RowsKnown ==
  \A s \in Session :
    /\ \A e \in batch[s] \cup todo[s] : row[e] # None
    /\ pc[s] = "llm" =>
         row[src[s]] # None /\ \A c \in cands[s] : row[c] # None /\ Compatible(row[src[s]], row[c])

\* An UPDATE in progress sets a transaction its own session has inserted.
OpenStatement ==
  \A s \in Session :
    /\ todo[s] # {} => pc[s] \in {"pair", "book"}
    /\ pc[s] \in {"pair", "book"} => cur[s] \in inserted[s]

OwnInserts ==
  /\ \A s \in Session : \A t \in inserted[s] : ledger[t] # None
  /\ \A s, o \in Session : s # o => inserted[s] \cap inserted[o] = {}

OwnWrites ==
  \A e \in Event :
    IF lock[e] = None THEN dirty[e] = None ELSE dirty[e] \in inserted[lock[e]]

CommittedPosted == \A e \in Event : txnOf[e] # None => txnOf[e] \in Posted

\* The heart of it: all the events tied to one transaction, at whatever stage,
\* were booked in it together.
GroupsSound ==
  \A t \in Txn, e \in Event : Tied(e, t) =>
    /\ row[e] # None
    /\ ledger[t] = "subscription" => row[e].type = "card_notification"
    /\ ledger[t] = "non_card" => row[e].type = "merchant_receipt"
    /\ \A f \in Event : Tied(f, t) /\ f # e =>
         ledger[t] = "card" /\ Compatible(row[e], row[f])

IInv ==
  RowsKnown /\ OpenStatement /\ OwnInserts /\ OwnWrites /\ CommittedPosted /\ GroupsSound

\* A transaction no row exists for has no events tied to it, at any stage.
LEMMA FreshIsUntied ==
  ASSUME TypeOK, IInv, NEW e \in Event, NEW t \in Txn, ledger[t] = None
  PROVE  ~Tied(e, t)
<1>1. txnOf[e] # t
  BY ReconcileAssumption DEF TypeOK, IInv, CommittedPosted, Posted
<1>2. dirty[e] # t
  BY ReconcileAssumption DEF TypeOK, IInv, OwnWrites, OwnInserts
<1>3. ASSUME NEW s \in Session, e \in todo[s] PROVE cur[s] # t
  BY <1>3 DEF TypeOK, IInv, OpenStatement, OwnInserts
<1>4. QED
  BY <1>1, <1>2, <1>3 DEF Tied

\* Groups stay sound when no event is tied to more than before.
LEMMA FewerTies ==
  ASSUME GroupsSound,
         \A e \in Event, t \in Txn : Tied(e, t)' =>
            Tied(e, t) /\ row'[e] = row[e] /\ ledger'[t] = ledger[t]
  PROVE  GroupsSound'
BY DEF GroupsSound

\* Inserting a transaction and opening its UPDATE on a group of events that suit
\* the payment method keeps the invariant, in either pass.
LEMMA InsertKeeps ==
  ASSUME TypeOK, TypeOK', IInv,
         NEW s \in Session, NEW m \in Method, NEW E \in SUBSET Event,
         NEW label \in {"pair", "book"},
         Insert(s, m, E, label), UNCHANGED <<row, txnOf, lock, dirty>>,
         todo[s] = {},
         \A o \in Session : batch'[o] \subseteq batch[o],
         \A o \in Session \ {s} : src'[o] = src[o] /\ cands'[o] = cands[o],
         \A e \in E :
           /\ row[e] # None
           /\ m = "subscription" => row[e].type = "card_notification"
           /\ m = "non_card" => row[e].type = "merchant_receipt"
           /\ \A f \in E \ {e} : m = "card" /\ Compatible(row[e], row[f])
  PROVE  IInv'
<1>1. PICK t \in Txn :
        /\ ledger[t] = None
        /\ ledger' = [ledger EXCEPT ![t] = m]
        /\ inserted' = [inserted EXCEPT ![s] = @ \cup {t}]
        /\ cur' = [cur EXCEPT ![s] = t]
        /\ todo' = [todo EXCEPT ![s] = E]
        /\ pc' = [pc EXCEPT ![s] = label]
  BY DEF Insert, NextId, Goto
<1>2. m # None
  BY ReconcileAssumption DEF Method
<1>3. RowsKnown'
  BY <1>1 DEF IInv, RowsKnown, TypeOK
<1>4. OpenStatement'
  BY <1>1 DEF IInv, OpenStatement, TypeOK
<1>5. \A o \in Session : t \notin inserted[o]
  BY <1>1 DEF IInv, OwnInserts
<1>6. OwnInserts'
  BY <1>1, <1>2, <1>5 DEF IInv, OwnInserts, TypeOK
<1>7. OwnWrites'
  BY <1>1 DEF IInv, OwnWrites, TypeOK
<1>8. CommittedPosted'
  <2> SUFFICES ASSUME NEW e \in Event, txnOf[e] # None PROVE (txnOf[e] \in Posted)'
    BY DEF CommittedPosted
  <2>1. txnOf[e] \in Txn /\ ledger[txnOf[e]] # None /\ txnOf[e] # t
    BY <1>1 DEF IInv, CommittedPosted, Posted, TypeOK
  <2>2. \A o \in Session : txnOf[e] \notin inserted[o]
    BY DEF IInv, CommittedPosted, Posted
  <2>3. QED
    BY <1>1, <2>1, <2>2 DEF Posted, TypeOK
<1>9. GroupsSound'
  <2>1. \A e \in Event, u \in Txn \ {t} : Tied(e, u)' => Tied(e, u) /\ ledger'[u] = ledger[u]
    BY <1>1 DEF Tied, TypeOK
  <2>2. \A e \in Event : Tied(e, t)' => e \in E
    <3> SUFFICES ASSUME NEW e \in Event, Tied(e, t)' PROVE e \in E
      OBVIOUS
    <3>1. ~Tied(e, t)
      BY <1>1, FreshIsUntied
    <3>2. PICK o \in Session : e \in todo'[o] /\ cur'[o] = t
      BY <3>1 DEF Tied
    <3>3. QED
      BY <1>1, <3>1, <3>2 DEF Tied, TypeOK
  <2>3. ledger'[t] = m
    BY <1>1 DEF TypeOK
  <2> SUFFICES ASSUME NEW u \in Txn, NEW e \in Event, Tied(e, u)'
               PROVE  /\ row[e] # None
                      /\ ledger'[u] = "subscription" => row[e].type = "card_notification"
                      /\ ledger'[u] = "non_card" => row[e].type = "merchant_receipt"
                      /\ \A f \in Event : Tied(f, u)' /\ f # e =>
                           ledger'[u] = "card" /\ Compatible(row[e], row[f])
    BY DEF GroupsSound
  <2>4. CASE u = t
    BY <2>2, <2>3, <2>4
  <2>5. CASE u # t
    BY <2>1, <2>5 DEF IInv, GroupsSound
  <2>6. QED
    BY <2>4, <2>5
<1>10. QED
  BY <1>3, <1>4, <1>6, <1>7, <1>8, <1>9 DEF IInv

\* Nothing is tied to anything in an empty database.
LEMMA InitIInv == Init => IInv
<1> SUFFICES ASSUME Init PROVE IInv
  OBVIOUS
<1>1. \A e \in Event, t \in Txn : ~Tied(e, t)
  BY ReconcileAssumption DEF Init, Tied
<1>2. GroupsSound
  BY <1>1 DEF GroupsSound
<1>3. RowsKnown /\ OpenStatement /\ OwnInserts
  BY DEF Init, RowsKnown, OpenStatement, OwnInserts
<1>4. OwnWrites /\ CommittedPosted
  BY DEF Init, OwnWrites, CommittedPosted
<1>5. QED
  BY <1>2, <1>3, <1>4 DEF IInv

\* Taking a source off the snapshot touches no row.
LEMMA TakeKeeps ==
  ASSUME TypeOK, IInv, NEW s \in Session, NEW e \in Event,
         AlreadyConsumed(s, e) \/ NoCandidate(s, e)
  PROVE  IInv'
<1>1. /\ UNCHANGED <<row, txnOf, ledger, lock, dirty, inserted, pc, src, cands, cur, todo>>
      /\ batch' = [batch EXCEPT ![s] = @ \ {e}]
  BY DEF AlreadyConsumed, NoCandidate, Take, db, ask, stmt
<1>2. RowsKnown'
  BY <1>1 DEF IInv, RowsKnown, TypeOK
<1>3. (OpenStatement /\ OwnInserts /\ OwnWrites /\ CommittedPosted)'
  BY <1>1 DEF IInv, OpenStatement, OwnInserts, OwnWrites, CommittedPosted, Posted
<1>4. GroupsSound'
  BY <1>1 DEF IInv, GroupsSound, Tied
<1>5. QED
  BY <1>2, <1>3, <1>4 DEF IInv

\* The candidates of a source are rows it is compatible with.
LEMMA CandidatesSuit ==
  ASSUME TypeOK, IInv, NEW s \in Session, NEW e \in Event, Take(s, e),
         NEW c \in CandidatesOf(s, e)
  PROVE  c \in Event /\ row[e] # None /\ row[c] # None /\ Compatible(row[e], row[c])
BY DEF CandidatesOf, Unmatched, Take, NextIn, IInv, RowsKnown

\* The rules book a source with one of its candidates.
LEMMA MatchByRulesKeeps ==
  ASSUME TypeOK, TypeOK', IInv, NEW s \in Session, NEW e \in Event, NEW c \in Event,
         MatchByRules(s, e, c)
  PROVE  IInv'
<1>1. c \in CandidatesOf(s, e) /\ Take(s, e)
  BY SyncChoiceInCandidates DEF MatchByRules
<1>2. row[e] # None /\ row[c] # None /\ Compatible(row[e], row[c])
  BY <1>1, CandidatesSuit
<1>3. Compatible(row[c], row[e])
  BY <1>2, CompatibleSymmetric DEF TypeOK
<1>4. Insert(s, "card", {e, c}, "pair") /\ UNCHANGED <<row, txnOf, lock, dirty, src, cands>>
  BY DEF MatchByRules, ask
<1>5. todo[s] = {} /\ \A o \in Session : batch'[o] \subseteq batch[o]
  BY <1>1 DEF Take, IInv, OpenStatement, TypeOK
<1>6. "card" \in Method /\ {e, c} \in SUBSET Event
  BY DEF Method
<1>7. QED
  BY <1>2, <1>3, <1>4, <1>5, <1>6, InsertKeeps

\* Putting a source to the LLM only remembers it and its candidates.
LEMMA AskLlmKeeps ==
  ASSUME TypeOK, IInv, NEW s \in Session, NEW e \in Event, AskLlm(s, e)
  PROVE  IInv'
<1>1. /\ UNCHANGED <<row, txnOf, ledger, lock, dirty, inserted, cur, todo>>
      /\ batch' = [batch EXCEPT ![s] = @ \ {e}]
      /\ pc' = [pc EXCEPT ![s] = "llm"] /\ pc[s] = "match"
      /\ src' = [src EXCEPT ![s] = e] /\ cands' = [cands EXCEPT ![s] = CandidatesOf(s, e)]
  BY DEF AskLlm, Take, Goto, db, stmt
<1>2. row[e] # None
  BY DEF AskLlm, Take, NextIn, IInv, RowsKnown
<1>3. \A c \in CandidatesOf(s, e) : row[c] # None /\ Compatible(row[e], row[c])
  BY CandidatesSuit DEF AskLlm
<1>4. RowsKnown'
  BY <1>1, <1>2, <1>3 DEF IInv, RowsKnown, TypeOK
<1>5. OpenStatement'
  BY <1>1 DEF IInv, OpenStatement, TypeOK
<1>6. (OwnInserts /\ OwnWrites /\ CommittedPosted)'
  BY <1>1 DEF IInv, OwnInserts, OwnWrites, CommittedPosted, Posted
<1>7. GroupsSound'
  BY <1>1 DEF IInv, GroupsSound, Tied
<1>8. QED
  BY <1>4, <1>5, <1>6, <1>7 DEF IInv

\* The LLM's answer books a pair among the candidates, or the source for review.
LEMMA LlmAnswersKeeps ==
  ASSUME TypeOK, TypeOK', IInv, NEW s \in Session, NEW answer \in Event \cup {None},
         LlmAnswers(s, answer)
  PROVE  IInv'
<1>1. src[s] \in Event /\ row[src[s]] # None /\ cands[s] \subseteq Event /\ todo[s] = {}
  BY DEF LlmAnswers, TypeOK, IInv, RowsKnown, OpenStatement
<1>2. /\ UNCHANGED <<row, txnOf, lock, dirty, batch>>
      /\ \A o \in Session \ {s} : src'[o] = src[o] /\ cands'[o] = cands[o]
  BY DEF LlmAnswers, TypeOK
<1>3. "card" \in Method /\ "unknown" \in Method
  BY DEF Method
<1>4. CASE LlmChoice(cands[s], answer) # {}
  <2>1. answer \in cands[s] /\ Insert(s, "card", {src[s], answer}, "pair")
    BY <1>4 DEF LlmAnswers, LlmChoice
  <2>2. answer \in Event /\ row[answer] # None /\ Compatible(row[src[s]], row[answer])
    BY <1>1, <2>1 DEF LlmAnswers, IInv, RowsKnown
  <2>3. Compatible(row[answer], row[src[s]])
    BY <1>1, <2>2, CompatibleSymmetric DEF TypeOK
  <2>4. QED
    BY <1>1, <1>2, <1>3, <2>1, <2>2, <2>3, InsertKeeps
<1>5. CASE LlmChoice(cands[s], answer) = {}
  <2>1. Insert(s, "unknown", {src[s]}, "pair")
    BY <1>5 DEF LlmAnswers
  <2>2. QED
    BY <1>1, <1>2, <1>3, <2>1, InsertKeeps
<1>6. QED
  BY <1>4, <1>5

\* A solo transaction has the payment method of its event's type.
LEMMA CreateSoloKeeps ==
  ASSUME TypeOK, TypeOK', IInv, NEW s \in Session, NEW e \in Event, CreateSolo(s, e)
  PROVE  IInv'
<1>1. row[e] # None /\ todo[s] = {}
  BY DEF CreateSolo, NextIn, IInv, RowsKnown, OpenStatement
<1>2. row[e].type \in EventType
  BY <1>1, ReconcileAssumption DEF TypeOK
<1>3. UNCHANGED <<row, txnOf, lock, dirty, src, cands>>
      /\ \A o \in Session : batch'[o] \subseteq batch[o]
  BY DEF CreateSolo, ask, TypeOK
<1>4. CASE row[e].type = "card_notification"
  BY <1>1, <1>3, <1>4, InsertKeeps DEF CreateSolo, Method
<1>5. CASE row[e].type # "card_notification"
  BY <1>1, <1>2, <1>3, <1>5, InsertKeeps DEF CreateSolo, Method, EventType
<1>6. QED
  BY <1>4, <1>5

\* Writing a row moves its tie from the open UPDATE to the uncommitted version.
LEMMA AssignKeeps ==
  ASSUME TypeOK, IInv, NEW s \in Session, NEW e \in Event,
         NEW label \in {"pair", "book"}, NEW after \in {"match", "solo"},
         Assign(s, e, label, after)
  PROVE  IInv'
<1>1. /\ pc[s] = label /\ e \in todo[s] /\ lock[e] \in {None, s}
      /\ lock' = [lock EXCEPT ![e] = s] /\ dirty' = [dirty EXCEPT ![e] = cur[s]]
      /\ todo' = [todo EXCEPT ![s] = @ \ {e}]
      /\ UNCHANGED <<row, txnOf, ledger, inserted, batch, src, cands>>
  BY DEF Assign, ask
<1>2. cur[s] \in inserted[s] /\ cur[s] \in Txn /\ s # None
  BY <1>1, ReconcileAssumption DEF IInv, OpenStatement, TypeOK
<1>3. /\ \A o \in Session \ {s} : pc'[o] = pc[o] /\ cur'[o] = cur[o] /\ todo'[o] = todo[o]
      /\ \/ todo[s] = {e} /\ pc'[s] = after
         \/ todo[s] # {e} /\ pc'[s] = pc[s] /\ cur'[s] = cur[s]
  BY DEF Assign, Goto, TypeOK
<1>4. RowsKnown'
  BY <1>1, <1>3 DEF IInv, RowsKnown, TypeOK
<1>5. OpenStatement'
  BY <1>1, <1>3 DEF IInv, OpenStatement, TypeOK
<1>6. OwnWrites'
  BY <1>1, <1>2 DEF IInv, OwnWrites, TypeOK
<1>7. (OwnInserts /\ CommittedPosted)'
  BY <1>1 DEF IInv, OwnInserts, CommittedPosted, Posted
<1>8. GroupsSound'
  <2>1. \A f \in Event, t \in Txn : Tied(f, t)' => Tied(f, t)
    <3> SUFFICES ASSUME NEW f \in Event, NEW t \in Txn, Tied(f, t)' PROVE Tied(f, t)
      OBVIOUS
    <3>1. CASE txnOf'[f] = t
      BY <1>1, <3>1 DEF Tied
    <3>2. CASE dirty'[f] = t
      BY <1>1, <3>2 DEF Tied, TypeOK
    <3>3. ASSUME NEW o \in Session, f \in todo'[o], cur'[o] = t PROVE Tied(f, t)
      <4>1. f \in todo[o] /\ cur[o] = t
        BY <1>1, <1>3, <3>3 DEF TypeOK
      <4>2. QED
        BY <4>1 DEF Tied
    <3>4. QED
      BY <3>1, <3>2, <3>3 DEF Tied
  <2>2. QED
    BY <1>1, <2>1, FewerTies DEF IInv
<1>9. QED
  BY <1>4, <1>5, <1>6, <1>7, <1>8 DEF IInv

\* A commit turns a session's written ties into committed ones.
LEMMA CommitKeeps ==
  ASSUME TypeOK, IInv, NEW s \in Session, FinishMatch(s) \/ FinishSolo(s)
  PROVE  IInv'
<1>1. /\ txnOf' = [e \in Event |-> Visible(s, e)]
      /\ lock' = [e \in Event |-> IF lock[e] = s THEN None ELSE lock[e]]
      /\ dirty' = [e \in Event |-> IF lock[e] = s THEN None ELSE dirty[e]]
      /\ inserted' = [inserted EXCEPT ![s] = {}]
      /\ UNCHANGED <<row, ledger, batch, src, cands, cur, todo>>
  BY DEF FinishMatch, FinishSolo, Commit, ask, stmt
<1>2. /\ pc[s] \in {"match", "solo"} /\ pc'[s] \in {"resolve", "idle"}
      /\ \A o \in Session \ {s} : pc'[o] = pc[o]
  BY DEF FinishMatch, FinishSolo, Goto, End, TypeOK
<1>3. s # None
  BY ReconcileAssumption
<1>4. RowsKnown'
  BY <1>1, <1>2 DEF IInv, RowsKnown
<1>5. OpenStatement'
  BY <1>1, <1>2 DEF IInv, OpenStatement, TypeOK
<1>6. OwnInserts'
  BY <1>1 DEF IInv, OwnInserts, TypeOK
<1>7. OwnWrites'
  BY <1>1, <1>3 DEF IInv, OwnWrites, TypeOK
<1>8. CommittedPosted'
  <2> SUFFICES ASSUME NEW e \in Event, txnOf'[e] # None PROVE (txnOf[e] \in Posted)'
    BY DEF CommittedPosted
  <2>1. CASE lock[e] = s
    <3>1. txnOf'[e] = dirty[e] /\ dirty[e] \in inserted[s]
      BY <1>1, <1>3, <2>1 DEF Visible, IInv, OwnWrites
    <3>2. QED
      BY <1>1, <3>1 DEF Posted, IInv, OwnInserts, TypeOK
  <2>2. CASE lock[e] # s
    <3>1. txnOf'[e] = txnOf[e] /\ txnOf[e] \in Posted
      BY <1>1, <2>2 DEF Visible, IInv, CommittedPosted
    <3>2. QED
      BY <1>1, <3>1 DEF Posted, TypeOK
  <2>3. QED
    BY <2>1, <2>2
<1>9. GroupsSound'
  <2>1. \A e \in Event, t \in Txn : Tied(e, t)' => Tied(e, t)
    BY <1>1, ReconcileAssumption DEF Tied, Visible
  <2>2. QED
    BY <1>1, <2>1, FewerTies DEF IInv
<1>10. QED
  BY <1>4, <1>5, <1>6, <1>7, <1>8, <1>9 DEF IInv

\* A rollback unties what the session had not committed, and removes the
\* transactions it was tied to with it.
LEMMA RollbackKeeps ==
  ASSUME TypeOK, IInv, NEW s \in Session, Abort(s) \/ Crash(s)
  PROVE  IInv'
<1>1. /\ ledger' = [t \in Txn |-> IF t \in inserted[s] THEN None ELSE ledger[t]]
      /\ lock' = [e \in Event |-> IF lock[e] = s THEN None ELSE lock[e]]
      /\ dirty' = [e \in Event |-> IF lock[e] = s THEN None ELSE dirty[e]]
      /\ UNCHANGED <<row, txnOf>>
  BY DEF Abort, Crash, Rollback
<1>2. /\ inserted' = [inserted EXCEPT ![s] = {}]
      /\ batch' = [batch EXCEPT ![s] = {}]
      /\ src' = [src EXCEPT ![s] = None]
      /\ cands' = [cands EXCEPT ![s] = {}]
      /\ cur' = [cur EXCEPT ![s] = None]
      /\ todo' = [todo EXCEPT ![s] = {}]
  BY DEF Abort, Crash, Rollback
<1>3. pc'[s] \in {"resolve", "idle"} /\ \A o \in Session \ {s} : pc'[o] = pc[o]
  BY DEF Abort, Crash, Goto, End, TypeOK
<1>4. s # None
  BY ReconcileAssumption
<1>5. RowsKnown'
  BY <1>1, <1>2, <1>3 DEF IInv, RowsKnown, TypeOK
<1>6. OpenStatement'
  BY <1>2, <1>3 DEF IInv, OpenStatement, TypeOK
<1>7. OwnInserts'
  BY <1>1, <1>2 DEF IInv, OwnInserts, TypeOK
<1>8. OwnWrites'
  BY <1>1, <1>2, <1>4 DEF IInv, OwnWrites, TypeOK
<1>9. CommittedPosted'
  BY <1>1, <1>2 DEF IInv, CommittedPosted, Posted, TypeOK
<1>10. GroupsSound'
  <2>1. ASSUME NEW e \in Event, NEW t \in Txn, Tied(e, t)'
        PROVE  Tied(e, t) /\ t \notin inserted[s]
    <3>1. CASE txnOf'[e] = t
      BY <1>1, <3>1, ReconcileAssumption DEF Tied, IInv, CommittedPosted, Posted
    <3>2. CASE dirty'[e] = t
      <4>1. dirty[e] = t /\ lock[e] # s
        BY <1>1, <3>2, ReconcileAssumption
      <4>2. t \in inserted[lock[e]] /\ lock[e] \in Session
        BY <4>1, ReconcileAssumption DEF IInv, OwnWrites, TypeOK
      <4>3. QED
        BY <4>1, <4>2 DEF Tied, IInv, OwnInserts
    <3>3. ASSUME NEW o \in Session, e \in todo'[o], cur'[o] = t
          PROVE  Tied(e, t) /\ t \notin inserted[s]
      <4>1. o # s /\ e \in todo[o] /\ cur[o] = t
        BY <1>2, <3>3 DEF TypeOK
      <4>2. t \in inserted[o]
        BY <4>1 DEF IInv, OpenStatement
      <4>3. QED
        BY <4>1, <4>2 DEF Tied, IInv, OwnInserts
    <3>4. QED
      BY <2>1, <3>1, <3>2, <3>3 DEF Tied
  <2>2. QED
    BY <1>1, <2>1, FewerTies DEF IInv
<1>11. QED
  BY <1>5, <1>6, <1>7, <1>8, <1>9, <1>10 DEF IInv

\* Starting a pass only takes a snapshot of rows that exist.
LEMMA StartKeeps ==
  ASSUME TypeOK, IInv, NEW s \in Session, NEW j \in Job,
         (j \in {"match", "sync"} /\ StartMatch(s, j)) \/ StartSolo(s, j)
  PROVE  IInv'
<1>1. PICK B \in SUBSET Unmatched(s) : batch' = [batch EXCEPT ![s] = B]
  BY DEF StartMatch, StartSolo, FirstOf
<1>2. /\ pc[s] \in {"idle", "resolve"}
      /\ pc'[s] \in {"match", "solo"} /\ \A o \in Session \ {s} : pc'[o] = pc[o]
      /\ UNCHANGED <<row, txnOf, ledger, lock, dirty, inserted, src, cands, cur, todo>>
  BY DEF StartMatch, StartSolo, Begin, Admit, Idle, TypeOK, db, ask, stmt
<1>3. RowsKnown'
  BY <1>1, <1>2 DEF IInv, RowsKnown, TypeOK, Unmatched
<1>4. OpenStatement'
  BY <1>2 DEF IInv, OpenStatement
<1>5. (OwnInserts /\ OwnWrites /\ CommittedPosted)'
  BY <1>2 DEF IInv, OwnInserts, OwnWrites, CommittedPosted, Posted
<1>6. GroupsSound'
  BY <1>2 DEF IInv, GroupsSound, Tied
<1>7. QED
  BY <1>3, <1>4, <1>5, <1>6 DEF IInv

\* A new row is tied to nothing, and no remembered row is overwritten.
LEMMA ArriveKeeps ==
  ASSUME TypeOK, IInv, NEW E \in SUBSET Event, Arrive(E)
  PROVE  IInv'
<1>1. UNCHANGED <<txnOf, ledger, lock, dirty, inserted, pc, batch, src, cands, cur, todo>>
  BY DEF Arrive, ask, stmt
<1>2. \A f \in Event : row[f] # None => row'[f] = row[f]
  BY DEF Arrive
<1>3. RowsKnown'
  BY <1>1, <1>2 DEF IInv, RowsKnown, TypeOK
<1>4. (OpenStatement /\ OwnInserts /\ OwnWrites /\ CommittedPosted)'
  BY <1>1 DEF IInv, OpenStatement, OwnInserts, OwnWrites, CommittedPosted, Posted
<1>5. GroupsSound'
  <2>1. \A f \in Event, t \in Txn : Tied(f, t)' => Tied(f, t)
    BY <1>1 DEF Tied
  <2>2. QED
    BY <1>1, <1>2, <2>1, FewerTies DEF IInv, GroupsSound
<1>6. QED
  BY <1>3, <1>4, <1>5 DEF IInv

\* Every step of every session preserves the inductive invariant.
LEMMA IInvInductive == TypeOK /\ TypeOK' /\ IInv /\ [Next]_vars => IInv'
<1> SUFFICES ASSUME TypeOK, TypeOK', IInv, [Next]_vars PROVE IInv'
  OBVIOUS
<1>1. CASE Tick \/ UNCHANGED vars
  <2>1. UNCHANGED <<row, txnOf, ledger, lock, dirty, inserted, pc, batch, src, cands, cur, todo>>
    BY <1>1 DEF Tick, vars, db, ask, stmt
  <2>2. (RowsKnown /\ OpenStatement /\ OwnInserts /\ OwnWrites /\ CommittedPosted)'
    BY <2>1 DEF IInv, RowsKnown, OpenStatement, OwnInserts, OwnWrites, CommittedPosted, Posted
  <2>3. GroupsSound'
    BY <2>1 DEF IInv, GroupsSound, Tied
  <2>4. QED
    BY <2>2, <2>3 DEF IInv
<1>2. CASE \E E \in (SUBSET Event) \ {{}} : Arrive(E)
  BY <1>2, ArriveKeeps
<1>3. CASE \E s \in Session, j \in {"match", "sync"} : StartMatch(s, j)
  BY <1>3, StartKeeps DEF Job
<1>4. CASE \E s \in Session, j \in {"solo", "force"} : StartSolo(s, j)
  BY <1>4, StartKeeps DEF Job
<1>5. ASSUME NEW s \in Session, Step(s) PROVE IInv'
  <2>1. CASE \E e \in Event : AlreadyConsumed(s, e) \/ NoCandidate(s, e) \/ AskLlm(s, e)
    BY <2>1, TakeKeeps, AskLlmKeeps
  <2>2. CASE \E e, c \in Event : MatchByRules(s, e, c)
    BY <2>2, MatchByRulesKeeps
  <2>3. CASE \E answer \in Event \cup {None} : LlmAnswers(s, answer)
    BY <2>3, LlmAnswersKeeps
  <2>4. CASE \E e \in Event : Assign(s, e, "pair", "match") \/ Assign(s, e, "book", "solo")
    BY <2>4, AssignKeeps
  <2>5. CASE FinishMatch(s) \/ FinishSolo(s)
    BY <2>5, CommitKeeps
  <2>6. CASE StartSolo(s, "sync")
    BY <2>6, StartKeeps DEF Job
  <2>7. CASE \E e \in Event : CreateSolo(s, e)
    BY <2>7, CreateSoloKeeps
  <2>8. QED
    BY <1>5, <2>1, <2>2, <2>3, <2>4, <2>5, <2>6, <2>7 DEF Step
<1>6. CASE \E s \in Session : Abort(s) \/ Crash(s)
  BY <1>6, RollbackKeeps
<1>7. QED
  BY <1>1, <1>2, <1>3, <1>4, <1>5, <1>6 DEF Next

\* The invariant holds in every reachable state.
LEMMA Invariance == Spec => []IInv
BY InitIInv, IInvInductive, TypeCorrect, PTL DEF Spec

\* However many requests run at once and however they fail, every booked event
\* points at a committed transaction that was made from it.
THEOREM Consistency == Spec => []BookedConsistently
<1>1. TypeOK /\ IInv => BookedConsistently
  <2> SUFFICES ASSUME TypeOK, IInv, NEW e \in Event, txnOf[e] # None
               PROVE  /\ txnOf[e] \in Posted
                      /\ ledger[txnOf[e]] = "subscription" => row[e].type = "card_notification"
                      /\ ledger[txnOf[e]] = "non_card" => row[e].type = "merchant_receipt"
                      /\ \A f \in Members(txnOf[e]) \ {e} :
                           ledger[txnOf[e]] = "card" /\ Compatible(row[e], row[f])
    BY DEF BookedConsistently
  <2>1. txnOf[e] \in Txn /\ txnOf[e] \in Posted
    BY DEF TypeOK, IInv, CommittedPosted
  <2>2. \A f \in Members(txnOf[e]) : f \in Event /\ Tied(f, txnOf[e])
    BY DEF Members, Tied
  <2>3. Tied(e, txnOf[e])
    BY DEF Tied
  <2>4. QED
    BY <2>1, <2>2, <2>3 DEF IInv, GroupsSound
<1>2. QED
  BY <1>1, InitIInv, IInvInductive, TypeCorrect, PTL DEF Spec
=============================================================================
