------------------------- MODULE ParsePending_proofs -------------------------
(***************************************************************************)
(* Proofs about ParsePending, for every set of emails and sessions, every  *)
(* limit, with or without faults and overlapping requests.                 *)
(***************************************************************************)
EXTENDS ParsePending, TLAPS

USE MailAssumption, VerdictAssumption

-----------------------------------------------------------------------------
(* Types.                                                                  *)

\* What becomes of an LLM payload is a verdict.
LEMMA JudgeType == \A p \in Payload : Judge(p) \in Verdict
BY DEF Judge, Payload, Verdict, Parsed, Failed

\* Nothing is known of an email that has not been fetched, and no pass works on it.
Known ==
  /\ \A e \in Email : mail[e] = None =>
       status[e] = None /\ event[e] = None /\ lock[e] = None /\ inserting[e] = None
  /\ \A s \in Session : cur[s] # None => mail[cur[s]] # None
  /\ \A s \in Session : \A e \in batch[s] : mail[e] # None

\* Every fetched email has a key of the cache.
LEMMA KeyType == TypeOK => \A e \in Email : mail[e] # None => CacheKey(e) \in Key
BY DEF TypeOK, CacheKey, Key

\* A list of pending mails holds pending mails.
LEMMA ListType == \A B \in ListPending(Pending) : \A e \in B : e \in Email /\ status[e] = "pending"
BY DEF ListPending, Pending

\* Every step keeps the types of what is known.
LEMMA TypeKept == TypeOK /\ Known /\ [Next]_vars => TypeOK'
<1> SUFFICES ASSUME TypeOK, Known, [Next]_vars PROVE TypeOK'
  OBVIOUS
<1> USE DEF TypeOK, Label, Status, db
<1>1. ASSUME NEW E \in SUBSET Email, Arrive(E) PROVE TypeOK'
  BY <1>1 DEF Arrive
<1>2. ASSUME NEW k \in Key, Expire(k) PROVE TypeOK'
  BY <1>2 DEF Expire
<1>3. ASSUME NEW s \in Session, StartParse(s) PROVE TypeOK'
  BY <1>3, ListType DEF StartParse, Admit, Idle, Goto
<1>4. ASSUME NEW s \in Session, NEW e \in Email, SkipEmpty(s, e) PROVE TypeOK'
  <2>1. [status |-> "skipped", event |-> None] \in Verdict
    BY DEF Verdict
  <2>2. QED
    BY <1>4, <2>1 DEF SkipEmpty, Take, Give, Goto
<1>5. ASSUME NEW s \in Session, NEW e \in Email, ParseByRule(s, e) PROVE TypeOK'
  <2>1. Parsed(e) \in Verdict
    BY DEF Verdict, Parsed
  <2>2. QED
    BY <1>5, <2>1 DEF ParseByRule, Take, Give, Goto
<1>6. ASSUME NEW s \in Session, NEW e \in Email, FallBack(s, e) PROVE TypeOK'
  BY <1>6 DEF FallBack, Take, Goto
<1>7. ASSUME NEW s \in Session, CacheHit(s) PROVE TypeOK'
  <2>1. cur[s] \in Email /\ CacheKey(cur[s]) \in Key
    BY <1>7, KeyType DEF CacheHit, Known
  <2>2. Judge(cache[CacheKey(cur[s])]) \in Verdict
    BY <1>7, <2>1, JudgeType DEF CacheHit
  <2>3. QED
    BY <1>7, <2>1, <2>2 DEF CacheHit, Give, Goto
<1>8. ASSUME NEW s \in Session, CacheMiss(s) PROVE TypeOK'
  BY <1>8 DEF CacheMiss, Goto
<1>9. ASSUME NEW s \in Session, NEW is \in {"payment", "misfit", "no", "odd"},
             LlmAnswers(s, is)
      PROVE  TypeOK'
  <2> DEFINE p == [about |-> cur[s], is |-> is]
  <2>1. cur[s] \in Email /\ CacheKey(cur[s]) \in Key
    BY <1>9, KeyType DEF LlmAnswers, WriteCache, Known
  <2>2. p \in Payload
    BY <2>1 DEF Payload
  <2>3. Judge(p) \in Verdict
    BY <2>2, JudgeType
  <2>4. cache' \in [Key -> Payload \cup {None}]
    BY <1>9, <2>1, <2>2 DEF LlmAnswers, WriteCache
  <2>5. CASE Goto(s, "retry") /\ UNCHANGED verdict
    BY <1>9, <2>1, <2>4, <2>5 DEF LlmAnswers, WriteCache, Goto
  <2>6. CASE Give(s, Judge(p))
    BY <1>9, <2>1, <2>3, <2>4, <2>6 DEF LlmAnswers, WriteCache, Give, Goto
  <2>7. QED
    BY <1>9, <2>5, <2>6 DEF LlmAnswers, WriteCache
<1>10. ASSUME NEW s \in Session, LlmFails(s) PROVE TypeOK'
  <2>1. Failed \in Verdict
    BY DEF Verdict, Failed
  <2>2. QED
    BY <1>10, <2>1 DEF LlmFails, Give, Goto
<1>11. ASSUME NEW s \in Session, AlreadySo(s) PROVE TypeOK'
  BY <1>11 DEF AlreadySo, AfterStatus, NextEmail, Goto
<1>12. ASSUME NEW s \in Session, GetRow(s) PROVE TypeOK'
  BY <1>12 DEF GetRow, Goto
<1>13. ASSUME NEW s \in Session, UpdateStatus(s) PROVE TypeOK'
  <2>1. cur[s] \in Email /\ verdict[s].status \in Status
    BY <1>13 DEF UpdateStatus, Verdict
  <2>2. QED
    BY <1>13, <2>1 DEF UpdateStatus, AfterStatus, NextEmail, Goto
<1>14. ASSUME NEW s \in Session, SaveEvent(s) PROVE TypeOK'
  <2>1. cur[s] \in Email /\ verdict[s].event \in Email \cup {None}
    BY <1>14 DEF SaveEvent, Verdict
  <2>2. QED
    BY <1>14, <2>1 DEF SaveEvent, NextEmail, Goto
<1>15. ASSUME NEW s \in Session, FinishParse(s) PROVE TypeOK'
  BY <1>15 DEF FinishParse, Goto
<1>16. ASSUME NEW s \in Session, SaveRaises(s) \/ Abort(s) PROVE TypeOK'
  <2>1. Rollback(s)
    BY <1>16 DEF SaveRaises, Abort
  <2>2. QED
    BY <2>1 DEF Rollback, Goto
<1>17. CASE UNCHANGED vars
  BY <1>17 DEF vars
<1>18. QED
  BY <1>1, <1>2, <1>3, <1>4, <1>5, <1>6, <1>7, <1>8, <1>9, <1>10, <1>11, <1>12,
     <1>13, <1>14, <1>15, <1>16, <1>17 DEF Next, Step

\* A pass works on mails that its list has found pending, and writes about those.
LEMMA KnownKept == TypeOK /\ Known /\ [Next]_vars => Known'
<1> SUFFICES ASSUME TypeOK, Known, [Next]_vars PROVE Known'
  OBVIOUS
<1> USE DEF TypeOK, db
<1>1. ASSUME NEW E \in SUBSET Email, Arrive(E) PROVE Known'
  <2>1. /\ UNCHANGED <<event, lock, inserting, batch, cur>>
        /\ \A e \in Email : \/ mail'[e] = mail[e] /\ status'[e] = status[e]
                            \/ mail[e] = None /\ mail'[e] # None /\ status'[e] = "pending"
    BY <1>1 DEF Arrive
  <2>2. /\ \A s \in Session : cur[s] # None => cur[s] \in Email
        /\ \A s \in Session : \A e \in batch[s] : e \in Email
    OBVIOUS
  <2>3. \A e \in Email : mail'[e] = None =>
          status'[e] = None /\ event[e] = None /\ lock[e] = None /\ inserting[e] = None
    BY <2>1 DEF Known
  <2>4. \A e \in Email : mail[e] # None => mail'[e] # None
    BY <2>1
  <2>5. QED
    BY <2>1, <2>2, <2>3, <2>4 DEF Known
<1>2. ASSUME NEW s \in Session, StartParse(s) PROVE Known'
  BY <1>2, ListType DEF StartParse, Goto, Known
<1>3. ASSUME NEW s \in Session, NEW e \in Email,
             SkipEmpty(s, e) \/ ParseByRule(s, e) \/ FallBack(s, e)
      PROVE  Known'
  <2>1. Take(s, e) /\ UNCHANGED db
    BY <1>3 DEF SkipEmpty, ParseByRule, FallBack
  <2>2. QED
    BY <2>1 DEF Known, Take
<1>4. ASSUME NEW s \in Session, NEW is \in {"payment", "misfit", "no", "odd"}, LlmAnswers(s, is)
      PROVE  Known'
  BY <1>4 DEF LlmAnswers, WriteCache, Known
<1>5. ASSUME NEW s \in Session, CacheHit(s) \/ CacheMiss(s) \/ LlmFails(s) PROVE Known'
  BY <1>5 DEF CacheHit, CacheMiss, LlmFails, Known
<1>6. ASSUME NEW s \in Session, AlreadySo(s) \/ GetRow(s) \/ UpdateStatus(s) PROVE Known'
  BY <1>6 DEF AlreadySo, GetRow, UpdateStatus, AfterStatus, NextEmail, Goto, Known
<1>7. ASSUME NEW s \in Session, SaveEvent(s) PROVE Known'
  BY <1>7 DEF SaveEvent, NextEmail, Goto, Known
<1>8. ASSUME NEW s \in Session, FinishParse(s) PROVE Known'
  BY <1>8 DEF FinishParse, Known
<1>9. ASSUME NEW s \in Session, SaveRaises(s) \/ Abort(s) PROVE Known'
  <2>1. Rollback(s)
    BY <1>9 DEF SaveRaises, Abort
  <2>2. QED
    BY <2>1 DEF Rollback, Known
<1>10. ASSUME NEW k \in Key, Expire(k) PROVE Known'
  BY <1>10 DEF Expire, Known
<1>11. CASE UNCHANGED vars
  BY <1>11 DEF vars, Known
<1>12. QED
  BY <1>1, <1>2, <1>3, <1>4, <1>5, <1>6, <1>7, <1>8, <1>9, <1>10, <1>11 DEF Next, Step

\* Every step keeps both.
LEMMA TypeInductive == TypeOK /\ Known /\ [Next]_vars => TypeOK' /\ Known'
BY TypeKept, KnownKept

\* Before the first step no email is fetched and no pass is under way.
LEMMA InitTypeOK == Init => TypeOK /\ Known
BY DEF Init, TypeOK, Known, Label

\* Variables keep their types, and an email is being worked on, with or without a
\* verdict, exactly where the pass needs it.
THEOREM TypeCorrect == Spec => []TypeOK
BY InitTypeOK, TypeInductive, PTL DEF Spec

-----------------------------------------------------------------------------
(* The inductive invariant.                                                *)

\* A row in the making is a first row.
Inserts == \A e \in Email : inserting[e] # None => event[e] = None /\ wevent[e] # None

\* A payload was made from a mail that has its key.
Cached ==
  \A k \in Key : cache[k] # None => Asked(cache[k].about) /\ CacheKey(cache[k].about) = k

\* A verdict has an event exactly if it is "parsed", and only the save needs one; the
\* event is one the mail may be given.  The LLM is asked where it is to be.
Verdicts ==
  /\ \A s \in Session : verdict[s] # None =>
       /\ verdict[s].status = "parsed" <=> verdict[s].event # None
       /\ verdict[s].event \in Email => MayTell(cur[s], verdict[s].event)
  /\ \A s \in Session : pc[s] = "save" => verdict[s].event # None
  /\ \A s \in Session : pc[s] \in {"cache", "llm", "retry"} => Asked(cur[s])

\* "parsed" is written, by a session that has saved the event or is about to, or that
\* found one.
Written ==
  \A e \in Email : wstatus[e] = "parsed" =>
    \/ event[e] # None
    \/ inserting[e] # None /\ inserting[e] = lock[e]
    \/ \E s \in Session : lock[e] = s /\ pc[s] = "save" /\ cur[s] = e

\* The row in the making holds an event the mail may be given.
OwnRow == \A e \in Email : inserting[e] # None => MayTell(e, wevent[e])

IInv ==
  /\ Known /\ Inserts /\ Cached /\ Verdicts /\ Written /\ OwnRow
  /\ ParsedHasEvent /\ PayloadsShared

\* The invariant holds before the first request.
LEMMA InitIInv == Init => IInv
BY DEF Init, IInv, Known, Inserts, Cached, Verdicts, Written, OwnRow, ParsedHasEvent,
       PayloadsShared, Key

\* What a payload about an email, or cached for it, makes of that email.
LEMMA JudgeSound ==
  ASSUME NEW p \in Payload
  PROVE  /\ Judge(p).status = "parsed" <=> Judge(p).event # None
         /\ Judge(p).event \in Email => Judge(p).event = p.about
BY DEF Judge, Payload, Parsed, Failed

\* A rollback forgets what the session wrote and leaves the rest as it was.
LEMMA RollbackIInv ==
  ASSUME TypeOK, IInv, NEW s \in Session, Rollback(s)
  PROVE  IInv'
<1> USE DEF TypeOK, IInv, Rollback, Goto, MayTell, Asked, Alike, CacheKey
<1>1. Known'    BY DEF Known
<1>2. Inserts'  BY DEF Inserts
<1>3. Cached'   BY DEF Cached
<1>4. Verdicts' BY DEF Verdicts
<1>5. Written'  BY DEF Written
<1>6. OwnRow'   BY DEF OwnRow
<1>7. ParsedHasEvent' /\ PayloadsShared' BY DEF ParsedHasEvent, PayloadsShared
<1>8. QED BY <1>1, <1>2, <1>3, <1>4, <1>5, <1>6, <1>7

\* A commit publishes statuses together with the events they promise.
LEMMA FinishIInv ==
  ASSUME TypeOK, IInv, NEW s \in Session, FinishParse(s)
  PROVE  IInv'
<1> USE DEF TypeOK, IInv, FinishParse, Goto, MayTell, Asked, Alike, CacheKey
<1>1. Known'    BY DEF Known
<1>2. Inserts'  BY DEF Inserts
<1>3. Cached'   BY DEF Cached
<1>4. Verdicts' BY DEF Verdicts
<1>5. Written'  BY DEF Written, Inserts
<1>6. OwnRow'   BY DEF OwnRow
<1>7. ParsedHasEvent'
  <2> SUFFICES ASSUME NEW e \in Email, status'[e] = "parsed" PROVE event'[e] # None
    BY DEF ParsedHasEvent
  <2>1. CASE lock[e] = s
    <3>1. wstatus[e] = "parsed"
      BY <2>1
    <3>2. event[e] # None \/ inserting[e] = s
      BY <2>1, <3>1 DEF Written
    <3>3. QED
      BY <3>2 DEF Inserts
  <2>2. CASE lock[e] # s
    <3>1. event[e] # None
      BY <2>2 DEF ParsedHasEvent
    <3>2. QED
      BY <3>1 DEF Inserts
  <2>3. QED
    BY <2>1, <2>2
<1>8. PayloadsShared' BY DEF PayloadsShared, OwnRow
<1>9. QED BY <1>1, <1>2, <1>3, <1>4, <1>5, <1>6, <1>7, <1>8

\* Every step of every session preserves the invariant.
LEMMA IInvInductive == TypeOK /\ TypeOK' /\ IInv /\ [Next]_vars => IInv'
<1> SUFFICES ASSUME TypeOK, TypeOK', IInv, [Next]_vars PROVE IInv'
  OBVIOUS
<1> USE DEF TypeOK, IInv, db, MayTell, Asked, Alike, CacheKey
<1>1. ASSUME NEW E \in SUBSET Email, Arrive(E) PROVE IInv'
  <2>0. /\ UNCHANGED <<event, lock, wstatus, inserting, wevent, cache, pc, batch, cur, verdict>>
        /\ \A e \in Email : \/ mail'[e] = mail[e] /\ status'[e] = status[e]
                            \/ mail[e] = None /\ mail'[e] # None /\ status'[e] = "pending"
    BY <1>1 DEF Arrive
  <2> USE <2>0
  <2>a. \A e \in Email : mail[e] # None => mail'[e] = mail[e]
    OBVIOUS
  <2>1. Known'
    BY KnownKept
  <2>2. Inserts'  BY DEF Inserts
  <2>3. Cached'
    BY <2>a DEF Cached, Payload
  <2>4. Verdicts'
    <3>1. ASSUME NEW s \in Session, cur[s] # None
          PROVE  cur[s] \in Email /\ mail[cur[s]] # None /\ mail'[cur[s]] = mail[cur[s]]
      BY <2>a, <3>1 DEF Known
    <3>2. QED
      BY <2>a, <3>1 DEF Verdicts
  <2>5. Written'  BY DEF Written
  <2>6. OwnRow'   BY <2>a DEF OwnRow, Inserts
  <2>7. ParsedHasEvent' BY DEF ParsedHasEvent, Known
  <2>8. PayloadsShared' BY <2>a DEF PayloadsShared
  <2>9. QED BY <2>1, <2>2, <2>3, <2>4, <2>5, <2>6, <2>7, <2>8
<1>2. ASSUME NEW k \in Key, Expire(k) PROVE IInv'
  <2> USE <1>2 DEF Expire
  <2>1. Known'    BY DEF Known
  <2>2. Inserts'  BY DEF Inserts
  <2>3. Cached'   BY DEF Cached
  <2>4. Verdicts' BY DEF Verdicts
  <2>5. Written'  BY DEF Written
  <2>6. OwnRow'   BY DEF OwnRow
  <2>7. ParsedHasEvent' /\ PayloadsShared' BY DEF ParsedHasEvent, PayloadsShared
  <2>8. QED BY <2>1, <2>2, <2>3, <2>4, <2>5, <2>6, <2>7
<1>3. ASSUME NEW s \in Session, StartParse(s) PROVE IInv'
  <2> USE <1>3 DEF StartParse, Goto
  <2>1. Known'    BY KnownKept
  <2>2. Inserts'  BY DEF Inserts
  <2>3. Cached'   BY DEF Cached
  <2>4. Verdicts' BY DEF Verdicts
  <2>5. Written'  BY DEF Written, Admit, Idle
  <2>6. OwnRow'   BY DEF OwnRow
  <2>7. ParsedHasEvent' /\ PayloadsShared' BY DEF ParsedHasEvent, PayloadsShared
  <2>8. QED BY <2>1, <2>2, <2>3, <2>4, <2>5, <2>6, <2>7
<1>4. ASSUME NEW s \in Session, NEW e \in Email,
             SkipEmpty(s, e) \/ ParseByRule(s, e) \/ FallBack(s, e)
      PROVE  IInv'
  <2>1. Take(s, e) /\ UNCHANGED <<db, cache>> /\ pc'[s] # "save"
    BY <1>4 DEF SkipEmpty, ParseByRule, FallBack, Take, Give, Goto
  <2>2. Known'    BY KnownKept
  <2>3. Inserts'  BY <2>1 DEF Inserts
  <2>4. Cached'   BY <2>1 DEF Cached
  <2>5. Verdicts'
    <3>1. mail[e] # None
      BY <2>1 DEF Take, Known
    <3>2. CASE SkipEmpty(s, e)
      BY <3>2 DEF Verdicts, SkipEmpty, Take, Give, Goto
    <3>3. CASE FallBack(s, e)
      BY <3>1, <3>3 DEF Verdicts, FallBack, Take, Goto
    <3>4. CASE ParseByRule(s, e)
      BY <3>4 DEF Verdicts, ParseByRule, Take, Give, Goto, Parsed
    <3>5. QED
      BY <1>4, <3>2, <3>3, <3>4
  <2>6. \A t \in Session \ {s} : pc'[t] = pc[t] /\ cur'[t] = cur[t]
    BY <1>4 DEF SkipEmpty, ParseByRule, FallBack, Take, Give, Goto
  <2>7. Written'  BY <2>1, <2>6 DEF Written, Take
  <2>8. OwnRow'   BY <2>1 DEF OwnRow
  <2>9. ParsedHasEvent' /\ PayloadsShared'
    BY <2>1 DEF ParsedHasEvent, PayloadsShared
  <2>10. QED BY <2>2, <2>3, <2>4, <2>5, <2>7, <2>8, <2>9
<1>5. ASSUME NEW s \in Session,
             CacheHit(s) \/ CacheMiss(s) \/ LlmFails(s)
               \/ \E is \in {"payment", "misfit", "no", "odd"} : LlmAnswers(s, is)
      PROVE  IInv'
  <2> DEFINE k == CacheKey(cur[s])
  <2>1. cur[s] \in Email /\ k \in Key /\ Asked(cur[s])
    BY <1>5, KeyType DEF CacheHit, CacheMiss, LlmFails, LlmAnswers, WriteCache, Known, Verdicts
  <2>2. /\ UNCHANGED <<db, batch, cur>>
        /\ pc[s] # "save" /\ pc'[s] \in {"llm", "retry", "get"}
        /\ \A t \in Session \ {s} : pc'[t] = pc[t] /\ verdict'[t] = verdict[t]
    BY <1>5 DEF CacheHit, CacheMiss, LlmFails, LlmAnswers, WriteCache, Give, Goto
  <2>3. UNCHANGED cache \/ \E p \in Payload : p.about = cur[s] /\ cache' = [cache EXCEPT ![k] = p]
    BY <1>5, <2>1 DEF CacheHit, CacheMiss, LlmFails, LlmAnswers, WriteCache, Payload
  <2>4. \/ verdict'[s] = verdict[s]
        \/ verdict'[s] = Failed
        \/ \E p \in Payload : MayTell(cur[s], p.about) /\ verdict'[s] = Judge(p)
    <3>1. CASE CacheHit(s)
      <4>1. cache[k] \in Payload /\ verdict'[s] = Judge(cache[k])
        BY <2>1, <3>1 DEF CacheHit, Give
      <4>2. MayTell(cur[s], cache[k].about)
        BY <2>1, <3>1 DEF Cached, CacheHit, KeyOf
      <4>3. QED
        BY <4>1, <4>2
    <3>2. CASE CacheMiss(s) \/ LlmFails(s)
      BY <3>2 DEF CacheMiss, LlmFails, Give
    <3>3. ASSUME NEW is \in {"payment", "misfit", "no", "odd"}, LlmAnswers(s, is)
          PROVE  \/ verdict'[s] = verdict[s]
                 \/ \E p \in Payload : MayTell(cur[s], p.about) /\ verdict'[s] = Judge(p)
      <4> DEFINE p == [about |-> cur[s], is |-> is]
      <4>1. p \in Payload /\ p.about = cur[s] /\ MayTell(cur[s], p.about)
        BY <2>1 DEF Payload
      <4>2. verdict'[s] = verdict[s] \/ verdict'[s] = Judge(p)
        BY <3>3 DEF LlmAnswers, WriteCache, Give
      <4>3. QED
        BY <4>1, <4>2
    <3>4. QED
      BY <1>5, <3>1, <3>2, <3>3
  <2>5. Known'    BY <2>2 DEF Known
  <2>6. Inserts'  BY <2>2 DEF Inserts
  <2>7. Cached'
    <3>1. mail' = mail
      BY <2>2
    <3>2. QED
      BY <2>1, <2>3, <3>1 DEF Cached
  <2>8. Verdicts'
    <3>1. ASSUME verdict'[s] # None
          PROVE  /\ verdict'[s].status = "parsed" <=> verdict'[s].event # None
                 /\ verdict'[s].event \in Email => MayTell(cur[s], verdict'[s].event)
      <4>1. CASE verdict'[s] = verdict[s]
        BY <3>1, <4>1 DEF Verdicts
      <4>2. CASE verdict'[s] = Failed
        BY <4>2 DEF Failed
      <4>3. CASE \E p \in Payload : MayTell(cur[s], p.about) /\ verdict'[s] = Judge(p)
        BY <4>3, JudgeSound
      <4>4. QED
        BY <2>4, <4>1, <4>2, <4>3
    <3>2. mail' = mail /\ cur' = cur
      BY <2>2
    <3>3. QED
      BY <2>1, <2>2, <3>1, <3>2 DEF Verdicts
  <2>9. Written'  BY <2>2 DEF Written
  <2>10. OwnRow'  BY <2>2 DEF OwnRow
  <2>11. ParsedHasEvent' /\ PayloadsShared'
    BY <2>2 DEF ParsedHasEvent, PayloadsShared
  <2>12. QED BY <2>5, <2>6, <2>7, <2>8, <2>9, <2>10, <2>11
<1>6. ASSUME NEW s \in Session, AlreadySo(s) \/ GetRow(s) PROVE IInv'
  <2> USE <1>6 DEF AlreadySo, GetRow, AfterStatus, NextEmail, Goto
  <2>1. Known'    BY DEF Known
  <2>2. Inserts'  BY DEF Inserts
  <2>3. Cached'   BY DEF Cached
  <2>4. Verdicts' BY DEF Verdicts
  <2>5. Written'  BY DEF Written
  <2>6. OwnRow'   BY DEF OwnRow
  <2>7. ParsedHasEvent' /\ PayloadsShared' BY DEF ParsedHasEvent, PayloadsShared
  <2>8. QED BY <2>1, <2>2, <2>3, <2>4, <2>5, <2>6, <2>7
<1>7. ASSUME NEW s \in Session, UpdateStatus(s) PROVE IInv'
  <2> USE <1>7 DEF UpdateStatus, AfterStatus, NextEmail, Goto
  <2>1. Known'    BY DEF Known
  <2>2. Inserts'  BY DEF Inserts
  <2>3. Cached'   BY DEF Cached
  <2>4. Verdicts'
    <3>1. /\ mail' = mail /\ \A t \in Session \ {s} : pc'[t] = pc[t] /\ cur'[t] = cur[t]
          /\ \A t \in Session \ {s} : verdict'[t] = verdict[t]
      OBVIOUS
    <3>2. \/ pc'[s] = "next" /\ verdict'[s] = None
          \/ /\ pc'[s] = "save" /\ verdict'[s] = verdict[s] /\ cur'[s] = cur[s]
             /\ verdict[s] # None /\ verdict[s].event # None
      OBVIOUS
    <3>3. QED
      BY <3>1, <3>2 DEF Verdicts
  <2>5. Written'
    <3> SUFFICES ASSUME NEW e \in Email, wstatus'[e] = "parsed"
        PROVE  \/ event'[e] # None
               \/ inserting'[e] # None /\ inserting'[e] = lock'[e]
               \/ \E t \in Session : lock'[e] = t /\ pc'[t] = "save" /\ cur'[t] = e
      BY DEF Written
    <3>1. CASE e = cur[s]
      BY <3>1 DEF Verdicts
    <3>2. CASE e # cur[s]
      <4>1. wstatus[e] = "parsed" /\ lock'[e] = lock[e]
        BY <3>2
      <4>2. \A t \in Session : pc[t] = "save" => pc'[t] = "save" /\ cur'[t] = cur[t]
        OBVIOUS
      <4>3. QED
        BY <4>1, <4>2 DEF Written
    <3>3. QED
      BY <3>1, <3>2
  <2>6. OwnRow'   BY DEF OwnRow
  <2>7. ParsedHasEvent' /\ PayloadsShared' BY DEF ParsedHasEvent, PayloadsShared
  <2>8. QED BY <2>1, <2>2, <2>3, <2>4, <2>5, <2>6, <2>7
<1>8. ASSUME NEW s \in Session, SaveEvent(s) PROVE IInv'
  <2> USE <1>8 DEF SaveEvent, NextEmail, Goto
  <2>1. cur[s] \in Email /\ verdict[s].event \in Email
    BY DEF Verdict, Verdicts
  <2>2. MayTell(cur[s], verdict[s].event)
    BY <2>1 DEF Verdicts
  <2>3. Known'    BY DEF Known
  <2>4. Inserts'  BY <2>1 DEF Inserts
  <2>5. Cached'   BY DEF Cached
  <2>6. Verdicts' BY DEF Verdicts
  <2>7. Written'
    <3> SUFFICES ASSUME NEW e \in Email, wstatus'[e] = "parsed"
        PROVE  \/ event'[e] # None
               \/ inserting'[e] # None /\ inserting'[e] = lock'[e]
               \/ \E t \in Session : lock'[e] = t /\ pc'[t] = "save" /\ cur'[t] = e
      BY DEF Written
    <3>1. CASE lock[e] = s /\ cur[s] = e
      BY <3>1
    <3>2. CASE ~(lock[e] = s /\ cur[s] = e)
      <4>1. \A t \in Session \ {s} : pc'[t] = pc[t] /\ cur'[t] = cur[t]
        OBVIOUS
      <4>2. \/ event[e] # None
            \/ inserting[e] # None /\ inserting[e] = lock[e]
            \/ \E t \in Session \ {s} : lock[e] = t /\ pc[t] = "save" /\ cur[t] = e
        BY <3>2 DEF Written
      <4>3. inserting[e] # None => inserting'[e] = inserting[e]
        OBVIOUS
      <4>4. QED
        BY <4>1, <4>2, <4>3
    <3>3. QED
      BY <3>1, <3>2
  <2>8. OwnRow'   BY <2>1, <2>2 DEF OwnRow
  <2>9. ParsedHasEvent' /\ PayloadsShared' BY DEF ParsedHasEvent, PayloadsShared
  <2>10. QED BY <2>3, <2>4, <2>5, <2>6, <2>7, <2>8, <2>9
<1>9. ASSUME NEW s \in Session, FinishParse(s) PROVE IInv'
  BY <1>9, FinishIInv
<1>10. ASSUME NEW s \in Session, SaveRaises(s) \/ Abort(s) PROVE IInv'
  BY <1>10, RollbackIInv DEF SaveRaises, Abort
<1>11. CASE UNCHANGED vars
  <2> USE <1>11 DEF vars
  <2>1. Known' /\ Inserts' /\ Cached' BY DEF Known, Inserts, Cached
  <2>2. Verdicts' /\ Written' /\ OwnRow' BY DEF Verdicts, Written, OwnRow
  <2>3. ParsedHasEvent' /\ PayloadsShared' BY DEF ParsedHasEvent, PayloadsShared
  <2>4. QED BY <2>1, <2>2, <2>3
<1>12. QED
  BY <1>1, <1>2, <1>3, <1>4, <1>5, <1>6, <1>7, <1>8, <1>9, <1>10, <1>11 DEF Next, Step

-----------------------------------------------------------------------------
(* The properties the runs check.                                          *)

\* The invariant holds in every reachable state.
LEMMA Invariance == Spec => []IInv
BY InitIInv, IInvInductive, TypeCorrect, PTL DEF Spec

\* A parsed email has its event, however many passes overlap, fail or crash.
THEOREM EventCommitted == Spec => []ParsedHasEvent
BY Invariance, PTL DEF IInv

\* anthropic_llm_parser.py:89-96: an event tells what its own mail tells, or what another
\* mail tells that shares its sender, subject and first 4096 bytes and that no rule reads
\* either, whatever overlaps, fails, expires or is rolled back.
THEOREM OwnPayload == Spec => []PayloadsShared
BY Invariance, PTL DEF IInv

\* Only its commit shows what a pass has made.
LEMMA OnlyFinishPublishes ==
  ASSUME NEW s \in Session, StartParse(s) \/ Step(s) \/ Abort(s)
  PROVE  mail' = mail /\ (FinishParse(s) \/ (event' = event /\ status' = status))
<1>1. CASE StartParse(s) \/ Abort(s)
  BY <1>1 DEF StartParse, Abort, Rollback, db
<1>2. CASE Step(s)
  BY <1>2 DEF Step, SkipEmpty, ParseByRule, FallBack, CacheHit, CacheMiss, LlmAnswers,
              WriteCache, LlmFails,
              AlreadySo, GetRow, UpdateStatus, SaveEvent, SaveRaises, Rollback, FinishParse, db
<1>3. QED
  BY <1>1, <1>2

\* The commit replaces no event.
LEMMA FinishKeepsEvents ==
  ASSUME TypeOK, IInv, NEW s \in Session, FinishParse(s), NEW e \in Email, event[e] # None
  PROVE  event'[e] = event[e]
BY DEF FinishParse, TypeOK, IInv, Inserts

\* No step of any pass replaces an event that is committed.
THEOREM EventsKept == Spec => EventsStay
<1>1. TypeOK /\ IInv /\ [Next]_vars
        => [\A e \in Email : event[e] # None => event'[e] = event[e]]_vars
  <2>1. ASSUME NEW s \in Session, TypeOK, IInv, StartParse(s) \/ Step(s) \/ Abort(s),
               NEW e \in Email,
               event[e] # None
        PROVE  event'[e] = event[e]
    BY <2>1, OnlyFinishPublishes, FinishKeepsEvents
  <2>2. QED
    BY <2>1 DEF Next, Arrive, Expire, db, vars
<1>2. QED
  BY <1>1, Invariance, TypeCorrect, PTL DEF Spec, EventsStay

-----------------------------------------------------------------------------
(* The order of waiting.                                                   *)

Holds(s, e) == lock[e] = s \/ inserting[e] = s
NoLater(e, f) == mail[e].received <= mail[f].received

\* A pass works through its batch as the mails were received, and holds rows of emails
\* received no later than what it has still to do.
Upwards ==
  \A s \in Session :
    /\ cur[s] # None => \A f \in batch[s] : NoLater(cur[s], f)
    /\ \A e \in Email : Holds(s, e) =>
         /\ pc[s] # "idle"
         /\ \A f \in batch[s] : NoLater(e, f)
         /\ cur[s] # None => NoLater(e, cur[s])

\* An event in the making is guarded by the lock on its email, and so is the place of
\* one about to be saved, unless it is taken.
Guarded ==
  /\ \A e \in Email : inserting[e] # None => lock[e] = inserting[e]
  /\ \A s \in Session : pc[s] = "save" => lock[cur[s]] = s \/ event[cur[s]] # None

\* The session that takes an email goes up, the others stay where they are.
LEMMA TakeUpwards ==
  ASSUME TypeOK, Upwards, Guarded, NEW s \in Session, NEW e \in Email,
         Take(s, e), UNCHANGED db, pc'[s] \notin {"idle", "save"},
         \A t \in Session \ {s} : pc'[t] = pc[t]
  PROVE  Upwards' /\ Guarded'
<1> USE DEF TypeOK, Take, db
<1>1. \A t \in Session \ {s} : cur'[t] = cur[t] /\ batch'[t] = batch[t]
  OBVIOUS
<1>2. cur'[s] = e /\ (\A f \in batch'[s] : NoLater(e, f) /\ f \in batch[s])
  BY DEF NoLater
<1>3. \A d \in Email : Holds(s, d) => NoLater(d, e)
  BY DEF Upwards
<1>4. \A t \in Session, d \in Email : Holds(t, d)' <=> Holds(t, d)
  BY DEF Holds
<1>5. Upwards'
  BY <1>1, <1>2, <1>3, <1>4 DEF Upwards, NoLater
<1>6. Guarded'
  BY <1>1 DEF Guarded
<1>7. QED
  BY <1>5, <1>6

\* A step that only goes on, without "save", keeps the order.
LEMMA GoOnUpwards ==
  ASSUME TypeOK, Upwards, Guarded, NEW s \in Session,
         UNCHANGED <<db, batch, cur>>, pc[s] # "save", pc'[s] \notin {"idle", "save"},
         \A t \in Session \ {s} : pc'[t] = pc[t]
  PROVE  Upwards' /\ Guarded'
BY DEF TypeOK, Upwards, NoLater, Guarded, Holds, db

\* Rolling back lets go of everything.
LEMMA RollbackUpwards ==
  ASSUME TypeOK, Upwards, Guarded, NEW s \in Session, Rollback(s)
  PROVE  Upwards' /\ Guarded'
<1> USE DEF TypeOK, Rollback, Goto
<1>1. Upwards'
  BY DEF Upwards, NoLater, Holds
<1>2. Guarded'
  BY DEF Guarded
<1>3. QED
  BY <1>1, <1>2

\* Committing lets go of everything too, and events stay.
LEMMA FinishUpwards ==
  ASSUME TypeOK, IInv, Upwards, Guarded, NEW s \in Session, FinishParse(s)
  PROVE  Upwards' /\ Guarded'
<1> USE DEF TypeOK, FinishParse, Goto
<1>1. Upwards'
  BY DEF Upwards, NoLater, Holds
<1>2. \A e \in Email : event[e] # None => event'[e] # None
  BY DEF IInv, Inserts
<1>3. Guarded'
  BY <1>2 DEF Guarded
<1>4. QED
  BY <1>1, <1>3

\* Locking the row of the email at hand, or finding that it needs no update.
LEMMA StatusUpwards ==
  ASSUME TypeOK, IInv, Upwards, Guarded, NEW s \in Session,
         UpdateStatus(s) \/ AlreadySo(s)
  PROVE  Upwards' /\ Guarded'
<1> USE DEF TypeOK
<1>0. mail' = mail
  BY DEF UpdateStatus, AlreadySo, db
<1>1. /\ cur[s] \in Email /\ batch' = batch /\ inserting' = inserting /\ event' = event
      /\ \A t \in Session \ {s} : pc'[t] = pc[t] /\ cur'[t] = cur[t]
      /\ lock' = lock \/ (lock' = [lock EXCEPT ![cur[s]] = s] /\ lock[cur[s]] \in {None, s})
  BY DEF UpdateStatus, AlreadySo, AfterStatus, NextEmail, Goto, db
<1>2. \/ pc'[s] = "next" /\ cur'[s] = None
      \/ pc'[s] = "save" /\ cur'[s] = cur[s] /\ verdict[s].event # None
  BY DEF UpdateStatus, AlreadySo, AfterStatus, NextEmail, Goto
<1>3. pc[s] \in {"update", "get"}
  BY DEF UpdateStatus, AlreadySo
<1>4. \A t \in Session, e \in Email : Holds(t, e)' => Holds(t, e) \/ (t = s /\ e = cur[s])
  BY <1>1 DEF Holds
<1>5. Upwards'
  <2> SUFFICES ASSUME NEW t \in Session
      PROVE  /\ cur'[t] # None => \A f \in batch'[t] : NoLater(cur'[t], f)
             /\ \A e \in Email : Holds(t, e)' =>
                  /\ pc'[t] # "idle"
                  /\ \A f \in batch'[t] : NoLater(e, f)
                  /\ cur'[t] # None => NoLater(e, cur'[t])
    BY <1>0 DEF Upwards, NoLater
  <2>1. CASE t = s
    <3>1. NoLater(cur[s], cur[s])
      BY <1>0, <1>1 DEF NoLater, IInv, Known
    <3>2. QED
      BY <1>1, <1>2, <1>3, <1>4, <2>1, <3>1 DEF Upwards
  <2>2. CASE t # s
    BY <1>1, <1>4, <2>2 DEF Upwards
  <2>3. QED
    BY <2>1, <2>2
<1>6. pc'[s] = "save" => lock'[cur[s]] = s \/ event'[cur[s]] # None
  <2>1. CASE UpdateStatus(s)
    BY <1>1, <2>1 DEF UpdateStatus
  <2>2. CASE AlreadySo(s)
    BY <1>1, <1>2, <2>2 DEF AlreadySo, IInv, Verdicts, ParsedHasEvent
  <2>3. QED
    BY <2>1, <2>2
<1>7. Guarded'
  <2>1. \A e \in Email : inserting'[e] # None => lock'[e] = inserting'[e]
    BY <1>1 DEF Guarded
  <2>2. ASSUME NEW t \in Session \ {s}, pc'[t] = "save"
        PROVE  lock'[cur'[t]] = t \/ event'[cur'[t]] # None
    <3>1. pc[t] = "save" /\ cur'[t] = cur[t] /\ cur[t] \in Email
      BY <1>1, <2>2
    <3>2. lock[cur[t]] = t \/ event[cur[t]] # None
      BY <3>1 DEF Guarded
    <3>3. QED
      BY <1>1, <3>1, <3>2
  <2>3. QED
    BY <1>2, <1>6, <2>1, <2>2 DEF Guarded
<1>8. QED
  BY <1>5, <1>7

\* Saving the event of the email at hand.
LEMMA SaveUpwards ==
  ASSUME TypeOK, Upwards, Guarded, NEW s \in Session, SaveEvent(s)
  PROVE  Upwards' /\ Guarded'
<1> USE DEF TypeOK, SaveEvent, NextEmail, Goto
<1>1. /\ \A t \in Session \ {s} : pc'[t] = pc[t] /\ cur'[t] = cur[t]
      /\ pc'[s] = "next" /\ cur'[s] = None
  OBVIOUS
<1>2. \A t \in Session, e \in Email : Holds(t, e)' => Holds(t, e) \/ (t = s /\ e = cur[s])
  BY DEF Holds
<1>3. Upwards'
  BY <1>1, <1>2 DEF Upwards, NoLater
<1>4. Guarded'
  BY <1>1 DEF Guarded
<1>5. QED
  BY <1>3, <1>4

\* Every step keeps the order.
LEMMA UpwardsInductive ==
  TypeOK /\ TypeOK' /\ IInv /\ Upwards /\ Guarded /\ [Next]_vars => Upwards' /\ Guarded'
<1> SUFFICES ASSUME TypeOK, TypeOK', IInv, Upwards, Guarded, [Next]_vars
    PROVE  Upwards' /\ Guarded'
  OBVIOUS
<1>1. ASSUME NEW E \in SUBSET Email, Arrive(E) PROVE Upwards' /\ Guarded'
  <2>1. /\ UNCHANGED <<event, lock, inserting, pc, batch, cur>>
        /\ \A e \in Email : mail[e] # None => mail'[e] = mail[e]
    BY <1>1 DEF Arrive
  <2>2. /\ \A s \in Session : cur[s] # None => cur[s] \in Email /\ mail[cur[s]] # None
        /\ \A s \in Session : \A f \in batch[s] : f \in Email /\ mail[f] # None
        /\ \A s \in Session, e \in Email : Holds(s, e) => mail[e] # None
    BY DEF TypeOK, IInv, Known, Holds
  <2>3. Upwards'
    BY <2>1, <2>2 DEF Upwards, NoLater, Holds
  <2>4. QED
    BY <2>1, <2>3 DEF Guarded
<1>2. ASSUME NEW k \in Key, Expire(k) PROVE Upwards' /\ Guarded'
  BY <1>2 DEF Expire, Upwards, NoLater, Guarded, Holds, db
<1>3. ASSUME NEW s \in Session, StartParse(s) PROVE Upwards' /\ Guarded'
  BY <1>3 DEF TypeOK, StartParse, Admit, Idle, Goto, Upwards, NoLater, Guarded, Holds,
               db
<1>4. ASSUME NEW s \in Session, NEW e \in Email,
             SkipEmpty(s, e) \/ ParseByRule(s, e) \/ FallBack(s, e)
      PROVE  Upwards' /\ Guarded'
  <2>1. /\ Take(s, e) /\ UNCHANGED db /\ pc'[s] \notin {"idle", "save"}
        /\ \A t \in Session \ {s} : pc'[t] = pc[t]
    BY <1>4 DEF TypeOK, SkipEmpty, ParseByRule, FallBack, Take, Give, Goto
  <2>2. QED
    BY <2>1, TakeUpwards
<1>5. ASSUME NEW s \in Session,
             CacheHit(s) \/ CacheMiss(s) \/ LlmFails(s) \/ GetRow(s)
               \/ \E is \in {"payment", "misfit", "no", "odd"} : LlmAnswers(s, is)
      PROVE  Upwards' /\ Guarded'
  <2>1. /\ UNCHANGED <<db, batch, cur>> /\ pc[s] # "save" /\ pc'[s] \notin {"idle", "save"}
        /\ \A t \in Session \ {s} : pc'[t] = pc[t]
    BY <1>5 DEF TypeOK, CacheHit, CacheMiss, LlmFails, LlmAnswers, WriteCache, GetRow, Give, Goto
  <2>2. QED
    BY <2>1, GoOnUpwards
<1>6. ASSUME NEW s \in Session, UpdateStatus(s) \/ AlreadySo(s) PROVE Upwards' /\ Guarded'
  BY <1>6, StatusUpwards
<1>7. ASSUME NEW s \in Session, SaveEvent(s) PROVE Upwards' /\ Guarded'
  BY <1>7, SaveUpwards
<1>8. ASSUME NEW s \in Session, FinishParse(s) PROVE Upwards' /\ Guarded'
  BY <1>8, FinishUpwards
<1>9. ASSUME NEW s \in Session, SaveRaises(s) \/ Abort(s) PROVE Upwards' /\ Guarded'
  BY <1>9, RollbackUpwards DEF SaveRaises, Abort
<1>10. CASE UNCHANGED vars
  BY <1>10 DEF vars, Upwards, NoLater, Guarded, Holds
<1>11. QED
  BY <1>1, <1>2, <1>3, <1>4, <1>5, <1>6, <1>7, <1>8, <1>9, <1>10 DEF Next, Step

\* An event is never waited for, and a lock only upwards.
LEMMA OrderSound == TypeOK /\ IInv /\ Upwards /\ Guarded => WaitsInOrder
<1> SUFFICES ASSUME TypeOK, IInv, Upwards, Guarded,
                    NEW s \in Session, NEW o \in Session, NEW p \in Session,
                    WaitsFor(s, o), WaitsFor(o, p)
             PROVE  NoLater(cur[s], cur[o])
  BY DEF WaitsInOrder, NoLater
<1>1. \A t \in Session, u \in Session : WaitsFor(t, u) =>
        pc[t] = "update" /\ cur[t] \in Email /\ lock[cur[t]] = u
  <2> SUFFICES ASSUME NEW t \in Session, NEW u \in Session, WaitsFor(t, u), pc[t] = "save"
               PROVE  FALSE
    BY DEF WaitsFor, TypeOK
  <2>1. cur[t] \in Email /\ inserting[cur[t]] = u /\ u # t
    BY DEF WaitsFor, TypeOK
  <2>2. lock[cur[t]] = u /\ event[cur[t]] = None
    BY <2>1 DEF Guarded, IInv, Inserts
  <2>3. QED
    BY <2>1, <2>2 DEF Guarded
<1>2. Holds(o, cur[s]) /\ pc[o] = "update" /\ cur[o] \in Email /\ cur[s] \in Email
  BY <1>1 DEF Holds
<1>3. QED
  BY <1>2 DEF Upwards

\* email_repository.py:76: whoever is waited for waits, if at all, for a mail received no
\* earlier, so passes wait for each other in a circle for mails of one second only.
THEOREM NoCircle == Spec => []WaitsInOrder
<1>1. Init => Upwards /\ Guarded
  BY DEF Init, Upwards, Guarded, Holds
<1>2. QED
  BY <1>1, UpwardsInductive, OrderSound, Invariance, TypeCorrect, PTL DEF Spec
-----------------------------------------------------------------------------
(***************************************************************************)
(* What an event is about.  In any run it is about a mail that has been    *)
(* fetched.  It is about the mail it was saved for as long as no two mails *)
(* that no rule reads share a key of the cache.                            *)
(***************************************************************************)

Fetched == \A e \in Email : event[e] # None => mail[event[e]] # None

\* An event is only ever about a mail that was fetched.
LEMMA FetchedAlways == TypeOK /\ IInv => Fetched
BY DEF TypeOK, IInv, PayloadsShared, MayTell, Asked, Known, Fetched

\* The same in every reachable state.
LEMMA AlwaysFetched == Spec => []Fetched
BY FetchedAlways, Invariance, TypeCorrect, PTL

KeysApart ==
  \A e, f \in Email : Asked(e) /\ Asked(f) /\ Alike(e, f) => e = f

\* The key of the LLM cache is as good as PROGRESS.md:160 says in a mailbox where no two
\* mails that the LLM is to read agree in sender, subject and the first 4096 bytes of
\* their text: whatever overlaps, fails or is asked twice, the event of an email
\* describes that email.
THEOREM OwnWhereApart == Spec /\ []KeysApart => []EventDescribesItsEmail
<1>1. TypeOK /\ PayloadsShared /\ KeysApart => EventDescribesItsEmail
  BY DEF TypeOK, PayloadsShared, MayTell, KeysApart, EventDescribesItsEmail
<1>2. QED
  BY <1>1, OwnPayload, TypeCorrect, PTL
=============================================================================
