--------------------- MODULE Reconcile_exclusive_proofs ---------------------
(***************************************************************************)
(* Reconcile when requests run one at a time (Exclusive): no event is      *)
(* overwritten, so every transaction of the ledger keeps exactly the       *)
(* events it was made from, for any number of events and sessions, any     *)
(* limit, and whatever fails; no half of a payment is booked alone by a    *)
(* sync that sees its whole backlog; and the committed rows are a ledger   *)
(* in the sense of Ledger.                                                 *)
(***************************************************************************)
EXTENDS Reconcile_proofs, FiniteSetTheorems

TiedTo(t) == {e \in Event : Tied(e, t)}

\* At most one request is in progress, and the others hold nothing.
OneAtATime ==
  /\ \A s, o \in Session : ~Idle(s) /\ ~Idle(o) => s = o
  /\ \A s \in Session : pc[s] \in {"idle", "resolve"} =>
       inserted[s] = {} /\ batch[s] = {} /\ \A e \in Event : lock[e] # s

\* Whatever is written, about to be written or listed has no committed booking.
NothingOverwritten ==
  /\ \A e \in Event : lock[e] # None => txnOf[e] = None
  /\ \A s \in Session :
       /\ \A e \in batch[s] \cup todo[s] : txnOf[e] = None
       /\ \A e \in todo[s] : lock[e] = None
       /\ pc[s] \in {"solo", "book"} => \A e \in batch[s] : lock[e] = None /\ e \notin todo[s]
       /\ pc[s] = "llm" => \A e \in cands[s] \cup {src[s]} : txnOf[e] = None /\ lock[e] = None

\* A set of events is what a transaction of this payment method counts.
Whole(E, method) ==
  IF method = "card" THEN \E e, f \in Event : e # f /\ E = {e, f}
                     ELSE \E e \in Event : E = {e}

GroupsWhole == \A t \in Txn : ledger[t] # None => Whole(TiedTo(t), ledger[t])

EInv == OneAtATime /\ NothingOverwritten /\ GroupsWhole

\* An empty database has nothing to overwrite and no transaction to make whole.
LEMMA InitEInv == Init => EInv
<1> SUFFICES ASSUME Init PROVE EInv
  OBVIOUS
<1>1. OneAtATime
  BY ReconcileAssumption DEF Init, OneAtATime, Idle
<1>2. NothingOverwritten
  BY DEF Init, NothingOverwritten
<1>3. GroupsWhole
  BY DEF Init, GroupsWhole
<1>4. QED
  BY <1>1, <1>2, <1>3 DEF EInv

\* Groups stay whole when every transaction that remains keeps its ties.
LEMMA SameTies ==
  ASSUME GroupsWhole,
         \A t \in Txn : ledger'[t] # None =>
            ledger'[t] = ledger[t] /\ \A e \in Event : Tied(e, t)' <=> Tied(e, t)
  PROVE  GroupsWhole'
<1>1. \A t \in Txn : ledger'[t] # None => ledger'[t] = ledger[t] /\ TiedTo(t)' = TiedTo(t)
  BY DEF TiedTo
<1>2. QED
  BY <1>1 DEF GroupsWhole, Whole

\* The only session at work inserts a transaction for events nobody has booked.
LEMMA InsertKeepsWhole ==
  ASSUME TypeOK, TypeOK', IInv, EInv,
         NEW s \in Session, NEW m \in Method, NEW E \in SUBSET Event,
         NEW label \in {"pair", "book"},
         Insert(s, m, E, label), UNCHANGED <<row, txnOf, lock, dirty>>,
         ~Idle(s), todo[s] = {},
         \A o \in Session : batch'[o] \subseteq batch[o],
         \A o \in Session \ {s} : src'[o] = src[o] /\ cands'[o] = cands[o],
         \A e \in E : txnOf[e] = None /\ lock[e] = None,
         label = "book" => pc[s] = "solo" /\ \A e \in batch'[s] : e \notin E,
         Whole(E, m)
  PROVE  EInv'
<1>1. PICK t \in Txn :
        /\ ledger[t] = None
        /\ ledger' = [ledger EXCEPT ![t] = m]
        /\ inserted' = [inserted EXCEPT ![s] = @ \cup {t}]
        /\ cur' = [cur EXCEPT ![s] = t]
        /\ todo' = [todo EXCEPT ![s] = E]
        /\ pc' = [pc EXCEPT ![s] = label]
  BY DEF Insert, NextId, Goto
<1>2. OneAtATime'
  BY <1>1 DEF EInv, OneAtATime, Idle, TypeOK
<1>3. NothingOverwritten'
  BY <1>1 DEF EInv, NothingOverwritten, TypeOK
<1>4. GroupsWhole'
  <2>1. \A u \in Txn \ {t} : ledger'[u] = ledger[u] /\ \A e \in Event : Tied(e, u)' <=> Tied(e, u)
    BY <1>1 DEF Tied, TypeOK
  <2>2. ledger'[t] = m
    BY <1>1 DEF TypeOK
  <2>3. \A e \in Event : Tied(e, t)' <=> e \in E
    <3> SUFFICES ASSUME NEW e \in Event PROVE Tied(e, t)' <=> e \in E
      OBVIOUS
    <3>1. ~Tied(e, t)
      BY <1>1, FreshIsUntied
    <3>2. txnOf'[e] # t /\ dirty'[e] # t
      BY <3>1 DEF Tied
    <3>3. ASSUME NEW o \in Session, e \in todo'[o], cur'[o] = t PROVE e \in E
      BY <1>1, <3>1, <3>3 DEF Tied, TypeOK
    <3>4. e \in E => e \in todo'[s] /\ cur'[s] = t
      BY <1>1 DEF TypeOK
    <3>5. QED
      BY <3>2, <3>3, <3>4 DEF Tied
  <2>4. TiedTo(t)' = E /\ \A u \in Txn \ {t} : TiedTo(u)' = TiedTo(u)
    BY <2>1, <2>3 DEF TiedTo
  <2>5. QED
    BY <2>1, <2>2, <2>4 DEF EInv, GroupsWhole, Whole
<1>5. QED
  BY <1>2, <1>3, <1>4 DEF EInv

\* A source still in the snapshot that this pass has not consumed is free.
LEMMA SourceIsFree ==
  ASSUME TypeOK, EInv, NEW s \in Session, NEW e \in Event, Take(s, e), e \notin Consumed(s)
  PROVE  txnOf[e] = None /\ lock[e] = None /\ ~Idle(s)
<1>1. pc[s] = "match" /\ e \in batch[s] /\ lock[e] # s
  BY DEF Take, NextIn, Consumed
<1>2. \A o \in Session : o # s => lock[e] # o
  BY <1>1 DEF EInv, OneAtATime, Idle, TypeOK
<1>3. QED
  BY <1>1, <1>2 DEF EInv, NothingOverwritten, Idle, TypeOK

\* So is each of its candidates.
LEMMA CandidateIsFree ==
  ASSUME TypeOK, EInv, NEW s \in Session, NEW e \in Event, pc[s] = "match",
         NEW c \in CandidatesOf(s, e)
  PROVE  c \in Event /\ txnOf[c] = None /\ lock[c] = None
<1>1. c \in Event /\ lock[c] # s /\ txnOf[c] = None
  BY DEF CandidatesOf, Consumed, Unmatched, Visible
<1>2. \A o \in Session : o # s => lock[c] # o
  BY <1>1 DEF EInv, OneAtATime, Idle, TypeOK
<1>3. QED
  BY <1>1, <1>2 DEF TypeOK

\* Taking a source off the snapshot ties nothing.
LEMMA TakeKeepsWhole ==
  ASSUME TypeOK, IInv, EInv, NEW s \in Session, NEW e \in Event,
         AlreadyConsumed(s, e) \/ NoCandidate(s, e)
  PROVE  EInv'
<1>1. /\ UNCHANGED <<row, txnOf, ledger, lock, dirty, inserted, pc, src, cands, cur, todo>>
      /\ batch' = [batch EXCEPT ![s] = @ \ {e}]
  BY DEF AlreadyConsumed, NoCandidate, Take, db, ask, stmt
<1>2. OneAtATime'
  BY <1>1 DEF EInv, OneAtATime, Idle, TypeOK
<1>3. NothingOverwritten'
  BY <1>1 DEF EInv, NothingOverwritten, TypeOK
<1>4. GroupsWhole'
  BY <1>1 DEF EInv, GroupsWhole, Whole, TiedTo, Tied
<1>5. QED
  BY <1>2, <1>3, <1>4 DEF EInv

\* The rules pair two free events.
LEMMA MatchByRulesKeepsWhole ==
  ASSUME TypeOK, TypeOK', IInv, EInv, NEW s \in Session, NEW e \in Event, NEW c \in Event,
         MatchByRules(s, e, c)
  PROVE  EInv'
<1>1. c \in CandidatesOf(s, e) /\ Take(s, e) /\ pc[s] = "match"
  BY SyncChoiceInCandidates DEF MatchByRules, Take
<1>2. txnOf[e] = None /\ lock[e] = None /\ ~Idle(s)
  BY <1>1, SourceIsFree DEF MatchByRules
<1>3. txnOf[c] = None /\ lock[c] = None
  BY <1>1, CandidateIsFree
<1>4. e # c
  <2>1. row[e] # None /\ row[c] # None /\ Compatible(row[e], row[c])
    BY <1>1, CandidatesSuit
  <2>2. QED
    BY <2>1, CompatibleSymmetric DEF TypeOK
<1>5. Insert(s, "card", {e, c}, "pair") /\ UNCHANGED <<row, txnOf, lock, dirty, src, cands>>
  BY DEF MatchByRules, ask
<1>6. todo[s] = {} /\ \A o \in Session : batch'[o] \subseteq batch[o]
  BY <1>1 DEF Take, IInv, OpenStatement, TypeOK
<1>7. "card" \in Method /\ {e, c} \in SUBSET Event /\ Whole({e, c}, "card")
  BY <1>4 DEF Method, Whole
<1>8. \A x \in {e, c} : txnOf[x] = None /\ lock[x] = None
  BY <1>2, <1>3
<1>9. QED
  BY <1>2, <1>5, <1>6, <1>7, <1>8, InsertKeepsWhole

\* The source and the candidates put to the LLM are free when they are read.
LEMMA AskLlmKeepsWhole ==
  ASSUME TypeOK, IInv, EInv, NEW s \in Session, NEW e \in Event, AskLlm(s, e)
  PROVE  EInv'
<1>1. /\ UNCHANGED <<row, txnOf, ledger, lock, dirty, inserted, cur, todo>>
      /\ batch' = [batch EXCEPT ![s] = @ \ {e}]
      /\ pc' = [pc EXCEPT ![s] = "llm"] /\ pc[s] = "match" /\ Take(s, e)
      /\ src' = [src EXCEPT ![s] = e] /\ cands' = [cands EXCEPT ![s] = CandidatesOf(s, e)]
  BY DEF AskLlm, Take, Goto, db, stmt
<1>2. txnOf[e] = None /\ lock[e] = None
  BY <1>1, SourceIsFree DEF AskLlm
<1>3. \A c \in CandidatesOf(s, e) : txnOf[c] = None /\ lock[c] = None
  BY <1>1, CandidateIsFree
<1>4. OneAtATime'
  BY <1>1 DEF EInv, OneAtATime, Idle, TypeOK
<1>5. NothingOverwritten'
  BY <1>1, <1>2, <1>3 DEF EInv, NothingOverwritten, TypeOK
<1>6. GroupsWhole'
  BY <1>1 DEF EInv, GroupsWhole, Whole, TiedTo, Tied
<1>7. QED
  BY <1>4, <1>5, <1>6 DEF EInv

\* And still free when its answer comes back, for nobody else is at work.
LEMMA LlmAnswersKeepsWhole ==
  ASSUME TypeOK, TypeOK', IInv, EInv, NEW s \in Session, NEW answer \in Event \cup {None},
         LlmAnswers(s, answer)
  PROVE  EInv'
<1>1. /\ src[s] \in Event /\ row[src[s]] # None /\ cands[s] \subseteq Event
      /\ todo[s] = {} /\ pc[s] = "llm" /\ ~Idle(s)
  BY DEF LlmAnswers, TypeOK, IInv, RowsKnown, OpenStatement, Idle
<1>2. /\ UNCHANGED <<row, txnOf, lock, dirty, batch>>
      /\ \A o \in Session \ {s} : src'[o] = src[o] /\ cands'[o] = cands[o]
  BY DEF LlmAnswers, TypeOK
<1>3. \A e \in cands[s] \cup {src[s]} : txnOf[e] = None /\ lock[e] = None
  BY <1>1 DEF EInv, NothingOverwritten
<1>4. "card" \in Method /\ "unknown" \in Method
  BY DEF Method
<1>5. CASE LlmChoice(cands[s], answer) # {}
  <2>1. answer \in cands[s] /\ Insert(s, "card", {src[s], answer}, "pair")
    BY <1>5 DEF LlmAnswers, LlmChoice
  <2>2. answer \in Event /\ row[answer] # None /\ Compatible(row[src[s]], row[answer])
    BY <1>1, <2>1 DEF LlmAnswers, IInv, RowsKnown
  <2>3. Whole({src[s], answer}, "card")
    BY <1>1, <2>2, CompatibleSymmetric DEF TypeOK, Whole
  <2>4. \A e \in {src[s], answer} : txnOf[e] = None /\ lock[e] = None
    BY <1>3, <2>1
  <2>5. QED
    BY <1>1, <1>2, <1>4, <2>1, <2>2, <2>3, <2>4, InsertKeepsWhole
<1>6. CASE LlmChoice(cands[s], answer) = {}
  <2>1. Insert(s, "unknown", {src[s]}, "pair")
    BY <1>6 DEF LlmAnswers
  <2>2. Whole({src[s]}, "unknown")
    BY <1>1 DEF Whole
  <2>3. QED
    BY <1>1, <1>2, <1>3, <1>4, <2>1, <2>2, InsertKeepsWhole
<1>7. QED
  BY <1>5, <1>6

\* A solo transaction is made of one free event.
LEMMA CreateSoloKeepsWhole ==
  ASSUME TypeOK, TypeOK', IInv, EInv, NEW s \in Session, NEW e \in Event, CreateSolo(s, e)
  PROVE  EInv'
<1>1. /\ pc[s] = "solo" /\ e \in batch[s] /\ todo[s] = {} /\ ~Idle(s)
      /\ batch' = [batch EXCEPT ![s] = @ \ {e}]
  BY DEF CreateSolo, NextIn, IInv, OpenStatement, Idle
<1>2. txnOf[e] = None /\ lock[e] = None
  BY <1>1 DEF EInv, NothingOverwritten
<1>3. UNCHANGED <<row, txnOf, lock, dirty, src, cands>>
      /\ \A o \in Session : batch'[o] \subseteq batch[o]
  BY <1>1 DEF CreateSolo, ask, TypeOK
<1>4. PICK m \in {"subscription", "non_card"} : Insert(s, m, {e}, "book")
  BY DEF CreateSolo
<1>5. m \in Method /\ Whole({e}, m) /\ \A x \in batch'[s] : x \notin {e}
  BY <1>1 DEF Method, Whole, TypeOK
<1>6. QED
  BY <1>1, <1>2, <1>3, <1>4, <1>5, InsertKeepsWhole

\* Writing a free row moves its tie, and takes none away.
LEMMA AssignKeepsWhole ==
  ASSUME TypeOK, TypeOK', IInv, EInv, NEW s \in Session, NEW e \in Event,
         Assign(s, e, "pair", "match") \/ Assign(s, e, "book", "solo")
  PROVE  EInv'
<1>1. /\ pc[s] \in {"pair", "book"} /\ e \in todo[s]
      /\ lock' = [lock EXCEPT ![e] = s] /\ dirty' = [dirty EXCEPT ![e] = cur[s]]
      /\ todo' = [todo EXCEPT ![s] = @ \ {e}]
      /\ UNCHANGED <<row, txnOf, ledger, inserted, batch, src, cands>>
  BY DEF Assign, ask
<1>2. /\ \A o \in Session \ {s} : pc'[o] = pc[o] /\ cur'[o] = cur[o]
      /\ \/ todo[s] = {e} /\ pc'[s] \in {"match", "solo"} /\ (pc'[s] = "solo" => pc[s] = "book")
         \/ todo[s] # {e} /\ pc'[s] = pc[s] /\ cur'[s] = cur[s]
  BY DEF Assign, Goto, TypeOK
<1>3. \A o \in Session \ {s} : pc[o] = "idle" /\ todo[o] = {} /\ batch[o] = {}
  BY <1>1 DEF EInv, OneAtATime, Idle, IInv, OpenStatement
<1>4. /\ txnOf[e] = None /\ lock[e] = None /\ dirty[e] = None
      /\ cur[s] \in inserted[s] /\ cur[s] \in Txn
  BY <1>1 DEF EInv, NothingOverwritten, IInv, OwnWrites, OpenStatement, TypeOK
<1>5. OneAtATime'
  <2>1. \A o \in Session : pc'[o] \in {"idle", "resolve"} => o # s /\ pc[o] \in {"idle", "resolve"}
    BY <1>1, <1>2
  <2>2. \A o, x \in Session : ~Idle(o)' /\ ~Idle(x)' => o = x
    BY <1>2, <1>3 DEF Idle
  <2>3. \A o \in Session \ {s}, f \in Event : lock'[f] = o => lock[f] = o
    BY <1>1 DEF TypeOK
  <2>4. QED
    BY <1>1, <2>1, <2>2, <2>3 DEF EInv, OneAtATime
<1>6. NothingOverwritten'
  <2>1. \A f \in Event : lock'[f] # None => txnOf'[f] = None
    BY <1>1, <1>4 DEF EInv, NothingOverwritten, TypeOK
  <2>2. \A o \in Session : todo'[o] \subseteq todo[o] /\ e \notin todo'[o]
    BY <1>1, <1>3 DEF TypeOK
  <2>3. \A o \in Session : \A f \in batch'[o] \cup todo'[o] : txnOf'[f] = None
    BY <1>1, <2>2 DEF EInv, NothingOverwritten
  <2>4. \A o \in Session : \A f \in todo'[o] : lock'[f] = None
    BY <1>1, <2>2 DEF EInv, NothingOverwritten, TypeOK
  <2>5. \A o \in Session : pc'[o] \in {"solo", "book"} =>
          \A f \in batch'[o] : lock'[f] = None /\ f \notin todo'[o]
    <3>1. pc'[s] \in {"solo", "book"} => \A f \in batch[s] : lock[f] = None /\ f \notin todo[s]
      BY <1>1, <1>2 DEF EInv, NothingOverwritten
    <3>2. QED
      BY <1>1, <1>2, <1>3, <2>2, <3>1 DEF TypeOK
  <2>6. \A o \in Session : pc'[o] # "llm"
    BY <1>1, <1>2, <1>3
  <2>7. QED
    BY <2>1, <2>3, <2>4, <2>5, <2>6 DEF NothingOverwritten
<1>7. GroupsWhole'
  <2>1. ASSUME NEW f \in Event, NEW t \in Txn PROVE Tied(f, t)' <=> Tied(f, t)
    <3>1. CASE f = e
      <4>1. Tied(e, t) <=> cur[s] = t
        BY <1>1, <1>3, <1>4, ReconcileAssumption DEF Tied
      <4>2. Tied(e, t)' <=> cur[s] = t
        BY <1>1, <1>3, <1>4, ReconcileAssumption DEF Tied, TypeOK
      <4>3. QED
        BY <3>1, <4>1, <4>2
    <3>2. CASE f # e
      <4>1. txnOf'[f] = txnOf[f] /\ dirty'[f] = dirty[f]
        BY <1>1, <3>2 DEF TypeOK
      <4>2. \A o \in Session : f \in todo'[o] /\ cur'[o] = t <=> f \in todo[o] /\ cur[o] = t
        BY <1>1, <1>2, <3>2 DEF TypeOK
      <4>3. QED
        BY <4>1, <4>2 DEF Tied
    <3>3. QED
      BY <3>1, <3>2
  <2>2. QED
    BY <1>1, <2>1, SameTies DEF EInv
<1>8. QED
  BY <1>5, <1>6, <1>7 DEF EInv

\* A commit moves the ties of the only session at work, and nobody else has any
\* row left to write.
LEMMA CommitKeepsWhole ==
  ASSUME TypeOK, TypeOK', IInv, EInv, NEW s \in Session, FinishMatch(s) \/ FinishSolo(s)
  PROVE  EInv'
<1>1. /\ txnOf' = [e \in Event |-> Visible(s, e)]
      /\ lock' = [e \in Event |-> IF lock[e] = s THEN None ELSE lock[e]]
      /\ dirty' = [e \in Event |-> IF lock[e] = s THEN None ELSE dirty[e]]
      /\ inserted' = [inserted EXCEPT ![s] = {}]
      /\ UNCHANGED <<row, ledger, batch, src, cands, cur, todo>>
  BY DEF FinishMatch, FinishSolo, Commit, ask, stmt
<1>2. /\ pc[s] \in {"match", "solo"} /\ batch[s] = {} /\ pc'[s] \in {"resolve", "idle"}
      /\ \A o \in Session \ {s} : pc'[o] = pc[o]
  BY DEF FinishMatch, FinishSolo, Goto, End, TypeOK
<1>3. \A o \in Session \ {s} : pc[o] = "idle"
  BY <1>2 DEF EInv, OneAtATime, Idle
<1>4. /\ \A o \in Session : todo[o] = {} /\ batch[o] = {} /\ pc'[o] \in {"idle", "resolve"}
      /\ \A o \in Session : inserted'[o] = {}
  BY <1>1, <1>2, <1>3 DEF EInv, OneAtATime, IInv, OpenStatement, TypeOK
<1>5. \A e \in Event : lock'[e] = None
  BY <1>1, <1>3 DEF EInv, OneAtATime, TypeOK
<1>6. OneAtATime'
  BY <1>1, <1>2, <1>3, <1>4, <1>5, ReconcileAssumption DEF OneAtATime, Idle
<1>7. NothingOverwritten'
  BY <1>1, <1>4, <1>5 DEF NothingOverwritten
<1>8. GroupsWhole'
  <2>1. ASSUME NEW e \in Event, NEW t \in Txn PROVE Tied(e, t)' <=> Tied(e, t)
    <3>1. lock[e] = s => txnOf[e] # t
      BY ReconcileAssumption DEF EInv, NothingOverwritten
    <3>2. lock[e] # s => dirty[e] # t
      BY <1>1, <1>5, ReconcileAssumption DEF IInv, OwnWrites
    <3>3. QED
      BY <1>1, <1>4, <3>1, <3>2, ReconcileAssumption DEF Tied, Visible
  <2>2. QED
    BY <1>1, <2>1, SameTies DEF EInv
<1>9. QED
  BY <1>6, <1>7, <1>8 DEF EInv

\* A rollback removes a session's transactions with their ties, and leaves the
\* others whole.
LEMMA RollbackKeepsWhole ==
  ASSUME TypeOK, TypeOK', IInv, EInv, NEW s \in Session, Abort(s) \/ Crash(s)
  PROVE  EInv'
<1>1. /\ ledger' = [t \in Txn |-> IF t \in inserted[s] THEN None ELSE ledger[t]]
      /\ lock' = [e \in Event |-> IF lock[e] = s THEN None ELSE lock[e]]
      /\ dirty' = [e \in Event |-> IF lock[e] = s THEN None ELSE dirty[e]]
      /\ UNCHANGED <<row, txnOf>>
  BY DEF Abort, Crash, Rollback
<1>2. /\ inserted' = [inserted EXCEPT ![s] = {}]
      /\ batch' = [batch EXCEPT ![s] = {}]
      /\ cur' = [cur EXCEPT ![s] = None]
      /\ todo' = [todo EXCEPT ![s] = {}]
  BY DEF Abort, Crash, Rollback
<1>3. /\ ~Idle(s) /\ pc'[s] \in {"resolve", "idle"}
      /\ \A o \in Session \ {s} : pc'[o] = pc[o]
  BY DEF Abort, Crash, Goto, End, TypeOK
<1>4. \A o \in Session \ {s} : pc[o] = "idle"
  BY <1>3 DEF EInv, OneAtATime, Idle
<1>5. /\ \A o \in Session : todo'[o] = {} /\ batch'[o] = {} /\ inserted'[o] = {}
      /\ \A o \in Session : pc'[o] \in {"idle", "resolve"}
      /\ \A o \in Session \ {s} : todo[o] = {}
  <2>1. \A o \in Session \ {s} : todo[o] = {} /\ batch[o] = {} /\ inserted[o] = {}
    BY <1>4 DEF EInv, OneAtATime, IInv, OpenStatement
  <2>2. todo'[s] = {} /\ batch'[s] = {} /\ inserted'[s] = {}
    BY <1>2 DEF TypeOK
  <2>3. \A o \in Session \ {s} :
          todo'[o] = todo[o] /\ batch'[o] = batch[o] /\ inserted'[o] = inserted[o]
    BY <1>2 DEF TypeOK
  <2>4. QED
    BY <1>3, <1>4, <2>1, <2>2, <2>3
<1>6. \A e \in Event : lock'[e] = None
  BY <1>1, <1>4 DEF EInv, OneAtATime, TypeOK
<1>7. OneAtATime'
  BY <1>3, <1>4, <1>5, <1>6, ReconcileAssumption DEF OneAtATime, Idle
<1>8. NothingOverwritten'
  BY <1>5, <1>6 DEF NothingOverwritten
<1>9. GroupsWhole'
  <2>1. ASSUME NEW e \in Event, NEW t \in Txn, t \notin inserted[s]
        PROVE  Tied(e, t)' <=> Tied(e, t)
    <3>1. dirty[e] # t /\ dirty'[e] # t
      BY <1>1, <1>6, <2>1, ReconcileAssumption DEF IInv, OwnWrites
    <3>2. ~\E o \in Session : e \in todo[o] /\ cur[o] = t
      BY <1>5, <2>1 DEF IInv, OpenStatement
    <3>3. QED
      BY <1>1, <1>5, <3>1, <3>2 DEF Tied
  <2>2. \A t \in Txn : ledger'[t] # None => t \notin inserted[s] /\ ledger'[t] = ledger[t]
    BY <1>1
  <2>3. QED
    BY <2>1, <2>2, SameTies DEF EInv
<1>10. QED
  BY <1>7, <1>8, <1>9 DEF EInv

\* A pass starts, while no other request is in progress, from rows nobody has
\* written: its snapshot is of free events.
LEMMA StartKeepsWhole ==
  ASSUME Exclusive, TypeOK, TypeOK', IInv, EInv, NEW s \in Session, NEW j \in Job,
         (j \in {"match", "sync"} /\ StartMatch(s, j)) \/ StartSolo(s, j)
  PROVE  EInv'
<1>1. PICK B \in SUBSET Unmatched(s) : batch' = [batch EXCEPT ![s] = B]
  BY DEF StartMatch, StartSolo, FirstOf
<1>2. /\ pc[s] \in {"idle", "resolve"}
      /\ pc'[s] \in {"match", "solo"} /\ \A o \in Session \ {s} : pc'[o] = pc[o]
      /\ UNCHANGED <<row, txnOf, ledger, lock, dirty, inserted, src, cands, cur, todo>>
  BY DEF StartMatch, StartSolo, Begin, Admit, Idle, TypeOK, db, ask, stmt
<1>3. \A o \in Session \ {s} : pc[o] = "idle"
  <2>1. CASE pc[s] = "idle"
    BY <2>1 DEF StartMatch, StartSolo, Admit, Idle
  <2>2. CASE pc[s] = "resolve"
    BY <2>2 DEF EInv, OneAtATime, Idle
  <2>3. QED
    BY <1>2, <2>1, <2>2
<1>4. \A o \in Session : pc[o] \in {"idle", "resolve"} /\ todo[o] = {}
  BY <1>2, <1>3 DEF IInv, OpenStatement
<1>5. \A e \in Event : lock[e] = None
  BY <1>4 DEF EInv, OneAtATime, TypeOK
<1>6. \A e \in B : e \in Event /\ txnOf[e] = None
  BY <1>5, ReconcileAssumption DEF Unmatched, Visible
<1>7. OneAtATime'
  BY <1>1, <1>2, <1>3 DEF EInv, OneAtATime, Idle, TypeOK
<1>8. NothingOverwritten'
  <2>1. \A o \in Session : batch'[o] = IF o = s THEN B ELSE {}
    BY <1>1, <1>2, <1>3 DEF EInv, OneAtATime, TypeOK
  <2>2. \A o \in Session : pc'[o] # "llm"
    BY <1>2, <1>3
  <2>3. QED
    BY <1>2, <1>4, <1>5, <1>6, <2>1, <2>2 DEF NothingOverwritten
<1>9. GroupsWhole'
  BY <1>2 DEF EInv, GroupsWhole, Whole, TiedTo, Tied
<1>10. QED
  BY <1>7, <1>8, <1>9 DEF EInv

\* Time and new rows tie nothing.
LEMMA FrameKeepsWhole ==
  ASSUME EInv,
         UNCHANGED <<txnOf, ledger, lock, dirty, inserted, pc, batch, src, cands, cur, todo>>
  PROVE  EInv'
<1>1. OneAtATime' /\ NothingOverwritten'
  BY DEF EInv, OneAtATime, NothingOverwritten, Idle
<1>2. GroupsWhole'
  BY DEF EInv, GroupsWhole, Whole, TiedTo, Tied
<1>3. QED
  BY <1>1, <1>2 DEF EInv

\* Every step of an exclusive run keeps the groups whole.
LEMMA EInvInductive ==
  ASSUME Exclusive
  PROVE  TypeOK /\ TypeOK' /\ IInv /\ EInv /\ [Next]_vars => EInv'
<1> SUFFICES ASSUME TypeOK, TypeOK', IInv, EInv, [Next]_vars PROVE EInv'
  OBVIOUS
<1>1. CASE Tick \/ UNCHANGED vars \/ \E E \in (SUBSET Event) \ {{}} : Arrive(E)
  <2>1. UNCHANGED <<txnOf, ledger, lock, dirty, inserted, pc, batch, src, cands, cur, todo>>
    BY <1>1 DEF Tick, Arrive, vars, db, ask, stmt
  <2>2. QED
    BY <2>1, FrameKeepsWhole
<1>2. CASE \E s \in Session, j \in {"match", "sync"} : StartMatch(s, j)
  BY <1>2, StartKeepsWhole DEF Job
<1>3. CASE \E s \in Session, j \in {"solo", "force"} : StartSolo(s, j)
  BY <1>3, StartKeepsWhole DEF Job
<1>4. ASSUME NEW s \in Session, Step(s) PROVE EInv'
  <2>1. CASE \E e \in Event : AlreadyConsumed(s, e) \/ NoCandidate(s, e) \/ AskLlm(s, e)
    BY <2>1, TakeKeepsWhole, AskLlmKeepsWhole
  <2>2. CASE \E e, c \in Event : MatchByRules(s, e, c)
    BY <2>2, MatchByRulesKeepsWhole
  <2>3. CASE \E answer \in Event \cup {None} : LlmAnswers(s, answer)
    BY <2>3, LlmAnswersKeepsWhole
  <2>4. CASE \E e \in Event : Assign(s, e, "pair", "match") \/ Assign(s, e, "book", "solo")
    BY <2>4, AssignKeepsWhole
  <2>5. CASE FinishMatch(s) \/ FinishSolo(s)
    BY <2>5, CommitKeepsWhole
  <2>6. CASE StartSolo(s, "sync")
    BY <2>6, StartKeepsWhole DEF Job
  <2>7. CASE \E e \in Event : CreateSolo(s, e)
    BY <2>7, CreateSoloKeepsWhole
  <2>8. QED
    BY <1>4, <2>1, <2>2, <2>3, <2>4, <2>5, <2>6, <2>7 DEF Step
<1>5. CASE \E s \in Session : Abort(s) \/ Crash(s)
  BY <1>5, RollbackKeepsWhole
<1>6. QED
  BY <1>1, <1>2, <1>3, <1>4, <1>5 DEF Next

\* The invariant holds in every reachable state of an exclusive run.
LEMMA ExclusiveInvariance == ASSUME Exclusive PROVE Spec => []EInv
<1>1. TypeOK /\ TypeOK' /\ IInv /\ EInv /\ [Next]_vars => EInv'
  BY EInvInductive
<1>2. QED
  BY <1>1, InitEInv, Invariance, TypeCorrect, PTL DEF Spec

\* The transaction of an uncommitted tie is not yet posted, so a posted
\* transaction is tied to its committed members only.
LEMMA PostedTies ==
  ASSUME TypeOK, IInv, NEW t \in Posted
  PROVE  TiedTo(t) = Members(t)
<1>1. t \in Txn /\ t # None /\ \A s \in Session : t \notin inserted[s]
  BY ReconcileAssumption DEF Posted
<1>2. ASSUME NEW e \in Event PROVE Tied(e, t) <=> txnOf[e] = t
  <2>1. dirty[e] # t
    BY <1>1 DEF IInv, OwnWrites, TypeOK
  <2>2. ~\E s \in Session : e \in todo[s] /\ cur[s] = t
    BY <1>1 DEF IInv, OpenStatement
  <2>3. QED
    BY <2>1, <2>2 DEF Tied
<1>3. QED
  BY <1>2 DEF TiedTo, Members

\* When requests run one at a time, failing or not, every transaction of the
\* ledger counts exactly the events it was made from, and no event twice.
THEOREM NothingCountedTwice == Exclusive => (Spec => []EveryTransactionCounts)
<1> SUFFICES ASSUME Exclusive PROVE Spec => []EveryTransactionCounts
  OBVIOUS
<1>1. TypeOK /\ IInv /\ EInv => EveryTransactionCounts
  <2> SUFFICES ASSUME TypeOK, IInv, EInv, NEW t \in Posted
               PROVE  IF ledger[t] = "card"
                      THEN \E e, f \in Event : e # f /\ Members(t) = {e, f}
                      ELSE \E e \in Event : Members(t) = {e}
    BY DEF EveryTransactionCounts
  <2>1. t \in Txn /\ ledger[t] # None /\ TiedTo(t) = Members(t)
    BY PostedTies DEF Posted
  <2>2. QED
    BY <2>1 DEF EInv, GroupsWhole, Whole
<1>2. Spec => []EInv
  BY ExclusiveInvariance
<1>3. QED
  BY <1>1, <1>2, Invariance, TypeCorrect, PTL

-----------------------------------------------------------------------------
(***************************************************************************)
(* SoloHasNoPartner, for a sync whose passes take in the whole backlog.    *)
(* While the match pass runs, an unbooked pair has a half that the pass    *)
(* has still to come to or is sure to book; when it ends there is no such  *)
(* pair, and while the sync goes on nobody adds one.                       *)
(***************************************************************************)

Backlog == {e \in Event : row[e] # None /\ txnOf[e] = None}

Fits == IsFiniteSet(Backlog) /\ Cardinality(Backlog) <= Limit

\* What the pass is sure to book: written, about to be, or put to the LLM.
Taken(s) == Consumed(s) \cup todo[s] \cup {e \in Event : pc[s] = "llm" /\ e = src[s]}

PairsInHand(s) ==
  \A e, f \in Backlog : Compatible(row[e], row[f]) =>
    e \in batch[s] \cup Taken(s) \/ f \in Taken(s)

NoPairLeft == \A e, f \in Backlog : ~Compatible(row[e], row[f])

Partners(s) ==
  /\ pc[s] \in {"match", "llm", "pair"} => PairsInHand(s)
  /\ pc[s] = "resolve" \/ (job[s] = "sync" /\ pc[s] \in {"solo", "book"}) => NoPairLeft

PInv == \A s \in Session : Partners(s)

\* A pass whose limit the rows do not exceed takes them all.
LEMMA TakesAll ==
  ASSUME NEW U, IsFiniteSet(U), Cardinality(U) <= Limit, NEW B \in FirstOf(U)
  PROVE  B = U
<1> SUFFICES ASSUME B # U PROVE FALSE
  OBVIOUS
<1>1. B \subseteq U /\ Cardinality(B) = Limit
  BY DEF FirstOf
<1>2. Cardinality(B) < Cardinality(U)
  BY <1>1, FS_Subset, FS_CardinalityType
<1>3. Cardinality(B) \in Nat /\ Cardinality(U) \in Nat /\ Limit \in Nat
  BY <1>1, FS_Subset, FS_CardinalityType, ReconcileAssumption
<1>4. QED
  BY <1>1, <1>2, <1>3

\* The match pass begins with every unbooked row in its snapshot.
LEMMA StartMatchPartners ==
  ASSUME Exclusive, TypeOK, EInv, Fits, NEW s \in Session, NEW j \in Job, StartMatch(s, j)
  PROVE  Partners(s)'
<1>1. /\ UNCHANGED <<row, txnOf, lock, todo, src>> /\ pc' = [pc EXCEPT ![s] = "match"]
      /\ \A o \in Session : pc[o] = "idle"
  BY DEF StartMatch, Begin, Admit, Idle, db, ask, stmt
<1>2. \A e \in Event : lock[e] = None
  BY <1>1 DEF EInv, OneAtATime, TypeOK
<1>3. Unmatched(s) = Backlog
  BY <1>2, ReconcileAssumption DEF Unmatched, Visible, Backlog
<1>4. batch'[s] = Backlog
  <2>1. PICK B \in FirstOf(Unmatched(s)) : batch' = [batch EXCEPT ![s] = B]
    BY DEF StartMatch
  <2>2. B = Backlog
    BY <1>3, <2>1, TakesAll DEF Fits
  <2>3. QED
    BY <2>1, <2>2 DEF TypeOK
<1>5. Backlog' = Backlog /\ pc'[s] = "match"
  BY <1>1 DEF Backlog, TypeOK
<1>6. PairsInHand(s)'
  BY <1>4, <1>5 DEF PairsInHand
<1>7. QED
  BY <1>5, <1>6 DEF Partners

\* Pairs stay in hand as the pass works on: what it is sure to book grows, and what
\* it takes off the snapshot it is sure to book or has no partner left.
LEMMA StillInHand ==
  ASSUME NEW s \in Session, PairsInHand(s), UNCHANGED <<row, txnOf>>,
         Taken(s) \subseteq Taken(s)',
         \A e \in batch[s] \ batch'[s] :
           e \in Taken(s)' \/ \A f \in Backlog \ Taken(s) : ~Compatible(row[e], row[f])
  PROVE  PairsInHand(s)'
<1>1. Backlog' = Backlog
  BY DEF Backlog
<1>2. QED
  BY <1>1 DEF PairsInHand

\* A source without candidates has no unbooked partner but those the pass books.
LEMMA NoCandidatePartners ==
  ASSUME TypeOK, NEW s \in Session, NEW e \in Event,
         CandidatesOf(s, e) = {}, NEW f \in Backlog \ Taken(s)
  PROVE  ~Compatible(row[e], row[f])
<1>1. f \in Event /\ row[f] # None /\ txnOf[f] = None /\ lock[f] # s
  BY DEF Backlog, Taken, Consumed
<1>2. f \in Unmatched(s) /\ f \notin Consumed(s)
  BY <1>1 DEF Unmatched, Visible, Consumed
<1>3. QED
  BY <1>2 DEF CandidatesOf

\* Every step of the match pass but its commit.
LEMMA PassPartners ==
  ASSUME TypeOK, TypeOK', IInv, NEW s \in Session, Partners(s), NEW e \in Event,
         \/ AlreadyConsumed(s, e) \/ NoCandidate(s, e) \/ AskLlm(s, e)
         \/ \E c \in Event : MatchByRules(s, e, c)
         \/ \E answer \in Event \cup {None} : LlmAnswers(s, answer)
         \/ Assign(s, e, "pair", "match")
  PROVE  Partners(s)'
<1>1. CASE AlreadyConsumed(s, e) \/ NoCandidate(s, e)
  <2>1. /\ UNCHANGED <<row, txnOf, lock, todo, src, pc>>
        /\ pc[s] = "match" /\ batch' = [batch EXCEPT ![s] = @ \ {e}]
    BY <1>1 DEF AlreadyConsumed, NoCandidate, Take, db, ask, stmt
  <2>2. Taken(s)' = Taken(s)
    BY <2>1 DEF Taken, Consumed
  <2>3. e \in Taken(s) \/ \A f \in Backlog \ Taken(s) : ~Compatible(row[e], row[f])
    BY <1>1, NoCandidatePartners DEF AlreadyConsumed, NoCandidate, Taken
  <2>4. \A x \in batch[s] \ batch'[s] : x = e
    BY <2>1 DEF TypeOK
  <2>5. PairsInHand(s)'
    BY <2>1, <2>2, <2>3, <2>4, StillInHand DEF Partners
  <2>6. QED
    BY <2>1, <2>5 DEF Partners
<1>2. CASE AskLlm(s, e)
  <2>1. /\ UNCHANGED <<row, txnOf, lock, todo>> /\ pc[s] = "match"
        /\ pc'[s] = "llm" /\ src'[s] = e /\ batch' = [batch EXCEPT ![s] = @ \ {e}]
    BY <1>2 DEF AskLlm, Take, Goto, db, stmt, TypeOK
  <2>2. Taken(s)' = Taken(s) \cup {e}
    BY <2>1 DEF Taken, Consumed
  <2>3. \A x \in batch[s] \ batch'[s] : x = e
    BY <2>1 DEF TypeOK
  <2>4. PairsInHand(s)'
    BY <2>1, <2>2, <2>3, StillInHand DEF Partners
  <2>5. QED
    BY <2>1, <2>4 DEF Partners
<1>3. ASSUME NEW c \in Event, MatchByRules(s, e, c) PROVE Partners(s)'
  <2>1. /\ UNCHANGED <<row, txnOf, lock>> /\ pc[s] = "match"
        /\ pc'[s] = "pair" /\ todo'[s] = {e, c} /\ batch' = [batch EXCEPT ![s] = @ \ {e}]
    BY <1>3 DEF MatchByRules, Take, Insert, Goto, TypeOK
  <2>2. todo[s] = {}
    BY <2>1 DEF IInv, OpenStatement
  <2>3. Taken(s)' = Taken(s) \cup {e, c}
    BY <2>1, <2>2 DEF Taken, Consumed
  <2>4. \A x \in batch[s] \ batch'[s] : x = e
    BY <2>1 DEF TypeOK
  <2>5. PairsInHand(s)'
    BY <2>1, <2>3, <2>4, StillInHand DEF Partners
  <2>6. QED
    BY <2>1, <2>5 DEF Partners
<1>4. ASSUME NEW answer \in Event \cup {None}, LlmAnswers(s, answer) PROVE Partners(s)'
  <2>1. /\ UNCHANGED <<row, txnOf, lock, batch>> /\ pc[s] = "llm"
        /\ pc'[s] = "pair" /\ src[s] \in todo'[s]
    BY <1>4 DEF LlmAnswers, Insert, Goto, TypeOK
  <2>2. todo[s] = {}
    BY <2>1 DEF IInv, OpenStatement
  <2>3. Taken(s) \subseteq Taken(s)'
    BY <2>1, <2>2 DEF Taken, Consumed
  <2>4. PairsInHand(s)'
    BY <2>1, <2>3, StillInHand DEF Partners
  <2>5. QED
    BY <2>1, <2>4 DEF Partners
<1>5. CASE Assign(s, e, "pair", "match")
  <2>1. /\ UNCHANGED <<row, txnOf, batch>> /\ pc[s] = "pair" /\ pc'[s] \in {"pair", "match"}
        /\ lock' = [lock EXCEPT ![e] = s] /\ todo' = [todo EXCEPT ![s] = @ \ {e}]
    BY <1>5 DEF Assign, Goto, TypeOK
  <2>2. Taken(s) \subseteq Taken(s)'
    BY <2>1 DEF Taken, Consumed, TypeOK
  <2>3. PairsInHand(s)'
    BY <2>1, <2>2, StillInHand DEF Partners
  <2>4. QED
    BY <2>1, <2>3 DEF Partners
<1>6. QED
  BY <1>1, <1>2, <1>3, <1>4, <1>5

\* When the pass has come to its end, what it is sure to book is what it has locked,
\* and its commit books that.
LEMMA FinishMatchPartners ==
  ASSUME TypeOK, TypeOK', IInv, NEW s \in Session, Partners(s), FinishMatch(s)
  PROVE  Partners(s)'
<1>1. /\ pc[s] = "match" /\ batch[s] = {} /\ pc'[s] \in {"resolve", "idle"} /\ row' = row
      /\ txnOf' = [e \in Event |-> Visible(s, e)]
  BY DEF FinishMatch, Commit, Goto, End, TypeOK
<1>2. Taken(s) = Consumed(s)
  BY <1>1 DEF Taken, IInv, OpenStatement
<1>3. ASSUME NEW e \in Consumed(s) PROVE txnOf'[e] # None
  BY <1>1, <1>3, ReconcileAssumption DEF Consumed, Visible, IInv, OwnWrites, TypeOK
<1>4. \A e \in Backlog' : e \in Backlog /\ e \notin Consumed(s)
  BY <1>1, <1>3 DEF Backlog, Visible, Consumed
<1>5. NoPairLeft'
  BY <1>1, <1>2, <1>4 DEF NoPairLeft, Partners, PairsInHand
<1>6. QED
  BY <1>1, <1>5 DEF Partners

\* The solo pass books nothing before its commit.
LEMMA SoloPartners ==
  ASSUME TypeOK, TypeOK', NEW s \in Session, Partners(s),
         \/ StartSolo(s, "sync") \/ FinishSolo(s)
         \/ \E e \in Event : CreateSolo(s, e) \/ Assign(s, e, "book", "solo")
  PROVE  Partners(s)'
<1>1. CASE StartSolo(s, "sync")
  <2>1. pc[s] = "resolve" /\ pc'[s] = "solo" /\ UNCHANGED <<row, txnOf>>
    BY <1>1 DEF StartSolo, Begin, db, TypeOK
  <2>2. QED
    BY <2>1 DEF Partners, NoPairLeft, Backlog
<1>2. CASE FinishSolo(s)
  BY <1>2 DEF FinishSolo, End, Partners, TypeOK
<1>3. ASSUME NEW e \in Event, CreateSolo(s, e) \/ Assign(s, e, "book", "solo")
      PROVE  Partners(s)'
  <2>1. /\ pc[s] \in {"solo", "book"} /\ pc'[s] \in {"solo", "book"} /\ job' = job
        /\ UNCHANGED <<row, txnOf>>
    BY <1>3 DEF CreateSolo, Insert, Assign, Goto, TypeOK
  <2>2. QED
    BY <2>1 DEF Partners, NoPairLeft, Backlog
<1>4. QED
  BY <1>1, <1>2, <1>3

\* Every step of a request, failures aside.
LEMMA StepPartners ==
  ASSUME TypeOK, TypeOK', IInv, NEW s \in Session, Partners(s), Step(s)
  PROVE  Partners(s)'
<1>1. CASE \/ \E e \in Event : \/ AlreadyConsumed(s, e) \/ NoCandidate(s, e)
                               \/ AskLlm(s, e) \/ Assign(s, e, "pair", "match")
           \/ \E e, c \in Event : MatchByRules(s, e, c)
  BY <1>1, PassPartners
<1>2. CASE \E answer \in Event \cup {None} : LlmAnswers(s, answer)
  <2>1. src[s] \in Event
    BY <1>2 DEF LlmAnswers, TypeOK
  <2>2. QED
    BY <1>2, <2>1, PassPartners
<1>3. CASE FinishMatch(s)
  BY <1>3, FinishMatchPartners
<1>4. CASE \/ StartSolo(s, "sync") \/ FinishSolo(s)
           \/ \E e \in Event : CreateSolo(s, e) \/ Assign(s, e, "book", "solo")
  BY <1>4, SoloPartners
<1>5. QED
  BY <1>1, <1>2, <1>3, <1>4 DEF Step

\* A session that is idle has nothing to say about partners.
LEMMA IdlePartners ==
  ASSUME NEW s \in Session, pc[s] = "idle" PROVE Partners(s)
BY DEF Partners

\* The one session at work waits for nobody, so the detector cancels none of its
\* statements.
LEMMA NoDeadlock ==
  ASSUME EInv, NEW s \in Session PROVE ~Deadlocked(s)
<1>1. ~Blocked(s)
  BY DEF Blocked, EInv, NothingOverwritten
<1>2. QED
  BY <1>1 DEF Deadlocked, WaitsFor

\* Every step of an exclusive run keeps the invariant, while the backlog fits.
LEMMA PInvInductive ==
  ASSUME Exclusive, "sync" \notin Faults
  PROVE  TypeOK /\ TypeOK' /\ IInv /\ EInv /\ Fits /\ PInv /\ [Next]_vars => PInv'
<1> SUFFICES ASSUME TypeOK, TypeOK', IInv, EInv, Fits, PInv, [Next]_vars, NEW o \in Session
             PROVE  Partners(o)'
  BY DEF PInv
<1>1. CASE Tick \/ UNCHANGED vars
  <2>1. UNCHANGED <<row, txnOf, lock, pc, job, batch, src, todo>>
    BY <1>1 DEF Tick, vars, db, ask, stmt
  <2>2. QED
    BY <2>1 DEF PInv, Partners, PairsInHand, NoPairLeft, Backlog, Taken, Consumed
<1>2. CASE \E E \in (SUBSET Event) \ {{}} : Arrive(E)
  <2>1. pc'[o] = "idle"
    BY <1>2 DEF Arrive, Idle
  <2>2. QED
    BY <2>1, IdlePartners DEF Partners
<1>3. ASSUME NEW s \in Session,
             \/ \E j \in {"match", "sync"} : StartMatch(s, j)
             \/ \E j \in {"solo", "force"} : StartSolo(s, j)
             \/ Step(s) \/ Abort(s) \/ Crash(s)
      PROVE  Partners(o)'
  <2>1. CASE o # s
    <3>1. pc[s] # "idle" \/ pc[o] = "idle"
      BY <1>3 DEF StartMatch, StartSolo, Admit, Idle, Step, Abort, Crash, AlreadyConsumed,
                  NoCandidate, AskLlm, MatchByRules, Take, LlmAnswers, Assign, FinishMatch,
                  CreateSolo, FinishSolo
    <3>2. pc[o] = "idle"
      BY <2>1, <3>1 DEF EInv, OneAtATime, Idle
    <3>3. pc'[o] = pc[o]
      BY <1>3, <2>1 DEF StartMatch, StartSolo, Step, Abort, Crash, AlreadyConsumed,
                  NoCandidate, AskLlm, MatchByRules, LlmAnswers, Insert, Assign, FinishMatch,
                  CreateSolo, FinishSolo, Goto, Begin, End, TypeOK
    <3>4. QED
      BY <3>2, <3>3 DEF Partners
  <2>2. CASE o = s /\ \E j \in {"match", "sync"} : StartMatch(s, j)
    BY <2>2, StartMatchPartners DEF Job
  <2>3. CASE o = s /\ \E j \in {"solo", "force"} : StartSolo(s, j)
    <3>1. pc'[s] = "solo" /\ job'[s] # "sync"
      BY <2>3 DEF StartSolo, Begin, TypeOK
    <3>2. QED
      BY <2>3, <3>1 DEF Partners
  <2>4. CASE o = s /\ Step(s)
    BY <2>4, StepPartners DEF PInv
  <2>5. CASE o = s /\ (Abort(s) \/ Crash(s))
    <3>1. pc'[s] = "idle"
      <4>1. CASE Crash(s)
        BY <4>1 DEF Crash, End, TypeOK
      <4>2. CASE Abort(s)
        <5>1. job[s] # "sync"
          BY <4>2, NoDeadlock DEF Abort
        <5>2. QED
          BY <4>2, <5>1 DEF Abort, End, TypeOK
      <4>3. QED
        BY <2>5, <4>1, <4>2
    <3>2. QED
      BY <2>5, <3>1 DEF Partners
  <2>6. QED
    BY <1>3, <2>1, <2>2, <2>3, <2>4, <2>5
<1>4. QED
  BY <1>1, <1>2, <1>3 DEF Next

\* When requests run one at a time, the steps of a sync do not fail and its limit
\* covers the unbooked rows, its solo pass books no event alone that has an unbooked
\* other half - however the rules and the LLM decide, and whatever other requests
\* fail or crash in between.
THEOREM NobodyLeftAlone ==
  ASSUME Exclusive, "sync" \notin Faults
  PROVE  Spec /\ []Fits => []SoloHasNoPartner
<1>1. IInv /\ EInv /\ TypeOK /\ PInv => SoloHasNoPartner
  <2> SUFFICES ASSUME IInv, EInv, TypeOK, PInv, NEW s \in Session, job[s] = "sync",
                      pc[s] \in {"solo", "book"}, NEW e \in Consumed(s), NEW f \in Event,
                      row[f] # None, Compatible(row[e], row[f]), txnOf[f] = None
               PROVE  FALSE
    BY DEF SoloHasNoPartner
  <2>1. e \in Event /\ lock[e] = s /\ txnOf[e] = None
    BY ReconcileAssumption DEF Consumed, EInv, NothingOverwritten
  <2>2. row[e] # None
    <3>1. dirty[e] \in Txn /\ Tied(e, dirty[e])
      BY <2>1, ReconcileAssumption DEF IInv, OwnWrites, TypeOK, Tied
    <3>2. QED
      BY <2>1, <3>1 DEF IInv, GroupsSound
  <2>3. QED
    BY <2>1, <2>2 DEF PInv, Partners, NoPairLeft, Backlog
<1>2. Init => PInv
  BY DEF Init, PInv, Partners
<1>3. Spec => []EInv
  BY ExclusiveInvariance
<1>4. TypeOK /\ TypeOK' /\ IInv /\ EInv /\ Fits /\ PInv /\ [Next]_vars => PInv'
  BY PInvInductive
<1>5. QED
  BY <1>1, <1>2, <1>3, <1>4, Invariance, TypeCorrect, PTL DEF Spec

-----------------------------------------------------------------------------
(***************************************************************************)
(* The refinement: a commit posts whole payments of events that were not   *)
(* posted before, and every other step, failures and crashes included,     *)
(* changes nothing an owner of the ledger can see.                         *)
(***************************************************************************)

\* The refinement mapping: the transactions that are committed.
Shown == [t \in Txn |-> IF t \in Posted THEN ledger[t] ELSE None]

\* Ledger's copy of the candidate predicate is the one of Reconcile.
LEMMA SamePredicate ==
  ASSUME NEW a, NEW b
  PROVE  Abstract!Compatible(a, b) <=> Compatible(a, b)
BY DEF Abstract!Compatible, Abstract!Opposite, Abstract!TIME_WINDOW_MINUTES,
       Compatible, Opposite, TIME_WINDOW_MINUTES

\* An inserted transaction does not show before its commit.
LEMMA InsertUnseen ==
  ASSUME TypeOK, IInv, NEW s \in Session, NEW m \in Method, NEW E, NEW label,
         Insert(s, m, E, label)
  PROVE  Shown' = Shown
<1>1. PICK t \in Txn : /\ ledger[t] = None
                       /\ ledger' = [ledger EXCEPT ![t] = m]
                       /\ inserted' = [inserted EXCEPT ![s] = @ \cup {t}]
  BY DEF Insert, NextId
<1>2. t \notin Posted /\ t \notin Posted'
  BY <1>1 DEF Posted, TypeOK
<1>3. ASSUME NEW u \in Txn \ {t} PROVE (u \in Posted' <=> u \in Posted) /\ ledger'[u] = ledger[u]
  BY <1>1 DEF Posted, TypeOK
<1>4. QED
  BY <1>2, <1>3 DEF Shown

\* Nor does what a rollback takes back.
LEMMA RollbackUnseen ==
  ASSUME TypeOK, IInv, NEW s \in Session, Rollback(s)
  PROVE  Shown' = Shown
<1>1. /\ ledger' = [t \in Txn |-> IF t \in inserted[s] THEN None ELSE ledger[t]]
      /\ inserted' = [inserted EXCEPT ![s] = {}]
  BY DEF Rollback
<1>2. ASSUME NEW t \in Txn
      PROVE  (t \in Posted' <=> t \in Posted) /\ (t \in Posted => ledger'[t] = ledger[t])
  BY <1>1 DEF Posted, TypeOK
<1>3. QED
  BY <1>2 DEF Shown

\* What a session's commit books.
Booking(s) == [e \in Event |-> IF lock[e] = s THEN dirty[e] ELSE None]

\* The events of a transaction about to be committed are all of its ties.
LEMMA BookedTogether ==
  ASSUME TypeOK, IInv, EInv, NEW s \in Session, \A o \in Session : todo[o] = {},
         NEW t \in inserted[s]
  PROVE  /\ t \in Txn /\ t # None
         /\ {e \in Event : Booking(s)[e] = t} = TiedTo(t)
<1>1. t \in Txn /\ t # None /\ t \notin Posted
  BY ReconcileAssumption DEF TypeOK, Posted
<1>2. ASSUME NEW e \in Event PROVE Booking(s)[e] = t <=> Tied(e, t)
  <2>1. txnOf[e] # t
    BY <1>1 DEF IInv, CommittedPosted
  <2>2. dirty[e] = t => lock[e] = s
    BY <1>1, ReconcileAssumption DEF IInv, OwnWrites, OwnInserts, TypeOK
  <2>3. QED
    BY <1>1, <2>1, <2>2 DEF Booking, Tied
<1>3. QED
  BY <1>1, <1>2 DEF TiedTo

\* They make one payment in the sense of Ledger.
LEMMA WholePayment ==
  ASSUME TypeOK, IInv, EInv, NEW t \in Txn, ledger[t] # None
  PROVE  Abstract!OnePayment(TiedTo(t), ledger[t]) /\ TiedTo(t) # {}
<1>1. Whole(TiedTo(t), ledger[t]) /\ ledger[t] \in Method
  BY DEF EInv, GroupsWhole, TypeOK
<1>2. \A e \in TiedTo(t) : e \in Event /\ Tied(e, t)
  BY DEF TiedTo
<1>3. CASE ledger[t] = "card"
  <2>1. PICK e, f \in Event : e # f /\ TiedTo(t) = {e, f}
    BY <1>1, <1>3 DEF Whole
  <2>2. Tied(e, t) /\ Tied(f, t)
    BY <1>2, <2>1
  <2>3. Compatible(row[e], row[f])
    BY <2>1, <2>2 DEF IInv, GroupsSound
  <2>4. QED
    BY <1>3, <2>1, <2>3, SamePredicate DEF Abstract!OnePayment
<1>4. CASE ledger[t] # "card"
  <2>1. PICK e \in Event : TiedTo(t) = {e}
    BY <1>1, <1>4 DEF Whole
  <2>2. /\ ledger[t] = "subscription" => row[e].type = "card_notification"
        /\ ledger[t] = "non_card" => row[e].type = "merchant_receipt"
    BY <1>2, <2>1 DEF IInv, GroupsSound
  <2>3. ledger[t] \in {"subscription", "non_card", "unknown"}
    BY <1>1, <1>4 DEF Method
  <2>4. QED
    BY <2>1, <2>2, <2>3 DEF Abstract!OnePayment
<1>5. QED
  BY <1>3, <1>4

\* A commit posts the session's transactions; one that wrote nothing is a stutter.
LEMMA CommitPosts ==
  ASSUME TypeOK, TypeOK', IInv, EInv, NEW s \in Session, FinishMatch(s) \/ FinishSolo(s)
  PROVE  Abstract!Next \/ UNCHANGED <<row, txnOf, Shown>>
<1>1. /\ txnOf' = [e \in Event |-> Visible(s, e)]
      /\ inserted' = [inserted EXCEPT ![s] = {}]
      /\ UNCHANGED <<row, ledger>>
  BY DEF FinishMatch, FinishSolo, Commit
<1>2. \A o \in Session : todo[o] = {} /\ (o # s => inserted[o] = {})
  <2>1. pc[s] \in {"match", "solo"}
    BY DEF FinishMatch, FinishSolo
  <2>2. \A o \in Session \ {s} : pc[o] = "idle"
    BY <2>1 DEF EInv, OneAtATime, Idle
  <2>3. QED
    BY <2>1, <2>2 DEF EInv, OneAtATime, IInv, OpenStatement
<1>3. \A e \in Event : IF lock[e] = s THEN Booking(s)[e] \in inserted[s] /\ Booking(s)[e] # None
                                      ELSE Booking(s)[e] = None
  BY ReconcileAssumption DEF Booking, IInv, OwnWrites, TypeOK
<1>4. \A t \in inserted[s] : \E e \in Event : Booking(s)[e] = t
  <2> SUFFICES ASSUME NEW t \in inserted[s] PROVE \E e \in Event : Booking(s)[e] = t
    OBVIOUS
  <2>1. t \in Txn /\ {e \in Event : Booking(s)[e] = t} = TiedTo(t)
    BY <1>2, BookedTogether
  <2>2. ledger[t] # None
    BY DEF IInv, OwnInserts
  <2>3. QED
    BY <2>1, <2>2, WholePayment
<1>5. \A t \in Txn : t \in Posted' <=> t \in Posted \cup inserted[s]
  BY <1>1, <1>2 DEF Posted, IInv, OwnInserts, TypeOK
<1>6. CASE inserted[s] = {}
  <2>1. \A e \in Event : lock[e] # s
    BY <1>3, <1>6
  <2>2. txnOf' = txnOf
    BY <1>1, <2>1 DEF Visible, TypeOK
  <2>3. Shown' = Shown
    BY <1>1, <1>5, <1>6 DEF Shown
  <2>4. QED
    BY <1>1, <2>2, <2>3
<1>7. CASE inserted[s] # {}
  <2>1. PICK to \in [Event -> Txn \cup {None}] : to = Booking(s)
    BY DEF Booking, TypeOK
  <2> DEFINE D == {to[e] : e \in Event} \ {None}
             method == [t \in D |-> ledger[t]]
  <2>2. \E e \in Event : to[e] # None
    <3>1. PICK t \in inserted[s] : TRUE
      BY <1>7
    <3>2. PICK e \in Event : to[e] = t
      BY <1>4, <2>1
    <3>3. QED
      BY <3>2, ReconcileAssumption DEF TypeOK
  <2>3. D = inserted[s] /\ D \subseteq Txn
    <3>1. inserted[s] \subseteq Txn /\ None \notin inserted[s]
      BY ReconcileAssumption DEF TypeOK
    <3>2. inserted[s] \subseteq D
      BY <1>4, <2>1, <3>1
    <3>3. ASSUME NEW e \in Event, to[e] # None PROVE to[e] \in inserted[s]
      BY <1>3, <2>1, <3>3
    <3>4. QED
      BY <3>1, <3>2, <3>3
  <2>4. \A e \in Event : to[e] # None =>
          row[e] # None /\ txnOf[e] = None /\ to[e] \in Txn /\ Shown[to[e]] = None
    <3> SUFFICES ASSUME NEW e \in Event, to[e] # None
                 PROVE  row[e] # None /\ txnOf[e] = None /\ to[e] \in Txn /\ Shown[to[e]] = None
      OBVIOUS
    <3>1. lock[e] = s /\ to[e] = dirty[e] /\ to[e] \in inserted[s] /\ to[e] \in Txn
      BY <1>3, <2>1, <2>3 DEF Booking
    <3>2. row[e] # None
      BY <3>1 DEF IInv, GroupsSound, Tied
    <3>3. txnOf[e] = None
      BY <3>1, ReconcileAssumption DEF EInv, NothingOverwritten
    <3>4. Shown[to[e]] = None
      BY <3>1 DEF Shown, Posted
    <3>5. QED
      BY <3>1, <3>2, <3>3, <3>4
  <2>5. txnOf' = [e \in Event |-> IF to[e] # None THEN to[e] ELSE txnOf[e]]
    <3>1. ASSUME NEW e \in Event PROVE Visible(s, e) = IF to[e] # None THEN to[e] ELSE txnOf[e]
      BY <1>3, <2>1 DEF Visible, Booking
    <3>2. QED
      BY <1>1, <3>1
  <2>6. method \in [D -> Abstract!Method]
    BY <2>3 DEF IInv, OwnInserts, TypeOK, Method, Abstract!Method
  <2>7. \A t \in DOMAIN method :
          Abstract!OnePayment({e \in Event : to[e] = t}, method[t])
    <3> SUFFICES ASSUME NEW t \in D
                 PROVE  Abstract!OnePayment({e \in Event : to[e] = t}, ledger[t])
      OBVIOUS
    <3>1. t \in inserted[s] /\ t \in Txn /\ ledger[t] # None
      BY <2>3 DEF IInv, OwnInserts
    <3>2. {e \in Event : to[e] = t} = TiedTo(t)
      BY <1>2, <2>1, <3>1, BookedTogether
    <3>3. QED
      BY <3>1, <3>2, WholePayment
  <2>8. Shown' = [t \in Txn |-> IF t \in DOMAIN method THEN method[t] ELSE Shown[t]]
    <3>1. ASSUME NEW t \in Txn
          PROVE  (IF t \in Posted' THEN ledger'[t] ELSE None)
                   = IF t \in D THEN ledger[t] ELSE IF t \in Posted THEN ledger[t] ELSE None
      BY <1>1, <1>5, <2>3
    <3>2. QED
      BY <3>1 DEF Shown
  <2>9. Abstract!Post(to)
    <3>1. \A e \in Event : to[e] # None => row[e] # None /\ txnOf[e] = None /\ Shown[to[e]] = None
      BY <2>4
    <3>2. row' = row
      BY <1>1
    <3>3. QED
      BY <2>2, <2>5, <2>6, <2>7, <2>8, <3>1, <3>2 DEF Abstract!Post, Shown
  <2>10. QED
    BY <2>9 DEF Abstract!Next
<1>8. QED
  BY <1>6, <1>7

\* Inserts before a commit and rollbacks change nothing Ledger sees; so do the
\* steps that only read, wait or take row locks.
LEMMA OtherStepsUnseen ==
  ASSUME TypeOK, IInv, NEW s \in Session,
         Step(s) \/ Abort(s) \/ Crash(s), ~FinishMatch(s), ~FinishSolo(s)
  PROVE  UNCHANGED <<row, txnOf, Shown>>
<1>1. CASE Abort(s) \/ Crash(s)
  <2>1. Rollback(s)
    BY <1>1 DEF Abort, Crash
  <2>2. QED
    BY <2>1, RollbackUnseen DEF Rollback
<1>2. CASE \E e, c \in Event : MatchByRules(s, e, c)
  BY <1>2, InsertUnseen DEF MatchByRules, Method
<1>3. CASE \E answer \in Event \cup {None} : LlmAnswers(s, answer)
  <2>1. UNCHANGED <<row, txnOf>> /\ \E m \in Method, E \in {todo'[s]} : Insert(s, m, E, "pair")
    BY <1>3 DEF LlmAnswers, Insert, Method, TypeOK
  <2>2. QED
    BY <2>1, InsertUnseen
<1>4. CASE \E e \in Event : CreateSolo(s, e)
  BY <1>4, InsertUnseen DEF CreateSolo, Method
<1>5. CASE \/ \E e \in Event : AlreadyConsumed(s, e) \/ NoCandidate(s, e) \/ AskLlm(s, e)
           \/ \E e \in Event : Assign(s, e, "pair", "match") \/ Assign(s, e, "book", "solo")
           \/ StartSolo(s, "sync")
  <2>1. UNCHANGED <<row, txnOf, ledger, inserted>>
    BY <1>5 DEF AlreadyConsumed, NoCandidate, AskLlm, Assign, StartSolo, db
  <2>2. QED
    BY <2>1 DEF Shown, Posted
<1>6. QED
  BY <1>1, <1>2, <1>3, <1>4, <1>5 DEF Step

\* Every step of an exclusive run is a step of Ledger or changes nothing it sees.
LEMMA StepRefines ==
  ASSUME TypeOK, TypeOK', IInv, EInv, [Next]_vars
  PROVE  [Abstract!Next]_(Abstract!vars)
<1>1. Abstract!Next \/ UNCHANGED <<row, txnOf, Shown>>
  <2>1. CASE \/ Tick \/ UNCHANGED vars
             \/ \E s \in Session, j \in {"match", "sync"} : StartMatch(s, j)
             \/ \E s \in Session, j \in {"solo", "force"} : StartSolo(s, j)
    <3>1. UNCHANGED <<row, txnOf, ledger, inserted>>
      BY <2>1 DEF Tick, vars, StartMatch, StartSolo, db
    <3>2. QED
      BY <3>1 DEF Shown, Posted
  <2>2. CASE \E E \in (SUBSET Event) \ {{}} : Arrive(E)
    <3>1. /\ \A e \in Event : row[e] # None => row'[e] = row[e]
          /\ UNCHANGED <<txnOf, ledger, inserted>>
      BY <2>2 DEF Arrive
    <3>2. Abstract!Arrive
      BY <3>1 DEF Abstract!Arrive, Posted, TypeOK
    <3>3. QED
      BY <3>2 DEF Abstract!Next
  <2>3. CASE \E s \in Session : FinishMatch(s) \/ FinishSolo(s)
    BY <2>3, CommitPosts
  <2>4. CASE \E s \in Session : /\ Step(s) \/ Abort(s) \/ Crash(s)
                                /\ ~FinishMatch(s) /\ ~FinishSolo(s)
    BY <2>4, OtherStepsUnseen
  <2>5. QED
    BY <2>1, <2>2, <2>3, <2>4 DEF Next
<1>2. QED
  BY <1>1 DEF Abstract!vars, Shown

\* When requests run one at a time, failing or not, the committed rows behave as
\* Ledger: each commit posts whole payments, and nothing posted changes.
THEOREM RefinesLedger == Exclusive => (Spec => ImplementsLedger)
<1> SUFFICES ASSUME Exclusive PROVE Spec => ImplementsLedger
  OBVIOUS
<1>1. Init => Abstract!Init
  BY DEF Init, Abstract!Init, Posted
<1>2. TypeOK /\ TypeOK' /\ IInv /\ EInv /\ [Next]_vars => [Abstract!Next]_(Abstract!vars)
  BY StepRefines
<1>3. Spec => []EInv
  BY ExclusiveInvariance
<1>4. QED
  BY <1>1, <1>2, <1>3, Invariance, TypeCorrect, PTL DEF Spec, ImplementsLedger, Abstract!Spec
=============================================================================
