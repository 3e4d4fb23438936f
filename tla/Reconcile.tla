----------------------------- MODULE Reconcile ------------------------------
(***************************************************************************)
(* Turning parsed payment events into ledger transactions: the match pass  *)
(* (MatchUnmatchedEvents) and the solo pass (ResolveSoloTransactions), run *)
(* by concurrent requests against one PostgreSQL database at READ          *)
(* COMMITTED.                                                              *)
(*                                                                         *)
(* A request is one database session.  It runs                             *)
(*   "match"  POST /transactions/match                                     *)
(*   "solo"   POST /transactions/resolve-solo                              *)
(*   "force"  the same with force=true                                     *)
(*   "sync"   steps 3 and 4 of the sync pipeline, each committed or rolled *)
(*            back on its own                                              *)
(* and what it wrote is visible to the others only after its commit.       *)
(***************************************************************************)
EXTENDS MatchingEngine

CONSTANTS
  Event,      \* ids of payment_events rows
  Payment,    \* the rows they may hold
  Txn,        \* ids the transactions sequence may hand out
  Session,    \* concurrent requests
  Limit,      \* the limit argument of both passes
  Instants,   \* the wall clock readings, in minutes
  None,       \* SQL NULL, and the absence of a row
  Exclusive,  \* TRUE: a request starts only when no other is in progress
  Faults      \* the requests whose statements may fail; the process may crash if any

ASSUME ReconcileAssumption ==
  /\ Limit \in Nat \ {0}
  /\ Instants \subseteq Int
  /\ Txn \subseteq Nat
  /\ Exclusive \in BOOLEAN
  /\ Faults \subseteq {"match", "solo", "force", "sync"}
  /\ None \notin Event /\ None \notin Txn /\ None \notin Session /\ None \notin Payment
  /\ None \notin {"card", "subscription", "non_card", "unknown",
                  "match", "solo", "force", "sync"}
  /\ \A r \in Payment : r.type \in EventType /\ r.amount \in Int /\ r.paidAt \in Int

VARIABLES
  now,        \* the wall clock
  row,        \* committed payment_events rows
  txnOf,      \* their committed transaction_id column
  ledger,     \* transactions: the payment_method of every row, committed or not
  lock,       \* the session holding the row lock of an event, if any
  dirty,      \* the transaction_id that session has written but not committed
  inserted,   \* the transactions a session has inserted but not committed
  pc, job,    \* where a session is in its request, and which request it is
  batch,      \* snapshot of list_unmatched the pass has still to walk through
  src, cands, \* the source put to the LLM and its candidates
  cur, todo   \* the UPDATE in progress: its transaction_id, the rows left

db     == <<row, txnOf, ledger, lock, dirty, inserted>>
ask    == <<src, cands>>
stmt   == <<cur, todo>>
vars   == <<now, row, txnOf, ledger, lock, dirty, inserted,
            pc, job, batch, src, cands, cur, todo>>

SOLO_TIMEOUT == 24 * 60
Method == {"card", "subscription", "non_card", "unknown"}
Job    == {"match", "solo", "force", "sync"}
Label  == {"idle", "match", "llm", "pair", "resolve", "solo", "book"}

TypeOK ==
  /\ now \in Instants
  /\ row \in [Event -> Payment \cup {None}]
  /\ txnOf \in [Event -> Txn \cup {None}]
  /\ ledger \in [Txn -> Method \cup {None}]
  /\ lock \in [Event -> Session \cup {None}]
  /\ dirty \in [Event -> Txn \cup {None}]
  /\ inserted \in [Session -> SUBSET Txn]
  /\ pc \in [Session -> Label]
  /\ job \in [Session -> Job \cup {None}]
  /\ batch \in [Session -> SUBSET Event]
  /\ src \in [Session -> Event \cup {None}]
  /\ cands \in [Session -> SUBSET Event]
  /\ cur \in [Session -> Txn \cup {None}]
  /\ todo \in [Session -> SUBSET Event]
  /\ \A s \in Session : pc[s] = "llm" => src[s] # None

Init ==
  /\ now \in Instants /\ \A t \in Instants : now <= t
  /\ row = [e \in Event |-> None]
  /\ txnOf = [e \in Event |-> None]
  /\ ledger = [t \in Txn |-> None]
  /\ lock = [e \in Event |-> None]
  /\ dirty = [e \in Event |-> None]
  /\ inserted = [s \in Session |-> {}]
  /\ pc = [s \in Session |-> "idle"]
  /\ job = [s \in Session |-> None]
  /\ batch = [s \in Session |-> {}]
  /\ src = [s \in Session |-> None]
  /\ cands = [s \in Session |-> {}]
  /\ cur = [s \in Session |-> None]
  /\ todo = [s \in Session |-> {}]

-----------------------------------------------------------------------------
(* What a session's SELECT sees: committed rows under its own writes.      *)

\* Seeded fault: READ UNCOMMITTED.
VisibleUncommitted(s, e) == IF lock[e] # None THEN dirty[e] ELSE txnOf[e]

Visible(s, e)  == IF lock[e] = s THEN dirty[e] ELSE txnOf[e]
Unmatched(s)   == {e \in Event : row[e] # None /\ Visible(s, e) = None}

\* Seeded fault: not yet at exactly 24 hours, and then the clock stops.
MoreThan24h    == {e \in Event : row[e] # None /\ row[e].paidAt < now - SOLO_TIMEOUT}

OlderThan24h   == {e \in Event : row[e] # None /\ row[e].paidAt <= now - SOLO_TIMEOUT}

\* ORDER BY paid_at LIMIT: rows left out are not older than rows taken.
FirstOf(U) ==
  {B \in SUBSET U :
     /\ Cardinality(B) = Limit \/ B = U
     /\ Cardinality(B) <= Limit
     /\ \A b \in B, u \in U \ B : row[b].paidAt <= row[u].paidAt}

NextIn(B) == {e \in B : \A f \in B : row[e].paidAt <= row[f].paidAt}

\* Seeded fault: the pass does not remember what it has assigned.
ConsumedNothing(s) == {}

\* The in-memory set of the match pass: the events it has assigned so far.  A
\* session commits only at the end of a pass, so these are the rows it has locked.
Consumed(s) == {e \in Event : lock[e] = s}

\* Seeded fault: the window without its end points.
CandidatesInside(s, e) ==
  {c \in Unmatched(s) : /\ Compatible(row[e], row[c])
                        /\ row[c].paidAt - row[e].paidAt \notin {-10, 10}} \ Consumed(s)

CandidatesOf(s, e) ==
  {c \in Unmatched(s) : Compatible(row[e], row[c])} \ Consumed(s)

Idle(s)  == pc[s] = "idle"
Admit(s) == Idle(s) /\ (Exclusive => \A o \in Session : Idle(o))

Goto(s, label) == pc' = [pc EXCEPT ![s] = label] /\ UNCHANGED job
Begin(s, j, label) == pc' = [pc EXCEPT ![s] = label] /\ job' = [job EXCEPT ![s] = j]
End(s) == pc' = [pc EXCEPT ![s] = "idle"] /\ job' = [job EXCEPT ![s] = None]

-----------------------------------------------------------------------------
(* The environment: time, and the parse step that commits new event rows.  *)

Tick ==
  /\ \E t \in Instants : t > now /\ now' = t
  /\ UNCHANGED <<db, pc, job, batch, ask, stmt>>

\* A parse pass commits the rows of all its emails together.
Arrive(E) ==
  /\ Exclusive => \A s \in Session : Idle(s)
  /\ \A e \in E : row[e] = None
  /\ \E new \in [E -> Payment] :
       /\ \A e \in E : new[e].paidAt <= now
       /\ row' = [e \in Event |-> IF e \in E THEN new[e] ELSE row[e]]
  /\ UNCHANGED <<now, txnOf, ledger, lock, dirty, inserted, pc, job, batch, ask, stmt>>

-----------------------------------------------------------------------------
(* Writes shared by both passes.                                           *)

\* The id sequence.  Ids a rollback gave up are handed out again: nobody keeps one.
NextId(t) == ledger[t] = None /\ \A u \in Txn : ledger[u] = None => t <= u

\* TransactionRepository.save, then the UPDATE of assign_transaction begins.
Insert(s, method, events, label) ==
  \E t \in Txn :
    /\ NextId(t)
    /\ ledger' = [ledger EXCEPT ![t] = method]
    /\ inserted' = [inserted EXCEPT ![s] = @ \cup {t}]
    /\ cur' = [cur EXCEPT ![s] = t]
    /\ todo' = [todo EXCEPT ![s] = events]
    /\ Goto(s, label)

\* The UPDATE reaches one row: it takes the row lock, waiting while another
\* session holds it, and sets transaction_id whatever the column holds by then.
Assign(s, e, label, after) ==
  /\ pc[s] = label
  /\ e \in todo[s]
  /\ lock[e] \in {None, s}
  /\ lock' = [lock EXCEPT ![e] = s]
  /\ dirty' = [dirty EXCEPT ![e] = cur[s]]
  /\ todo' = [todo EXCEPT ![s] = @ \ {e}]
  /\ IF todo[s] = {e}
     THEN Goto(s, after) /\ cur' = [cur EXCEPT ![s] = None]
     ELSE UNCHANGED <<pc, job, cur>>
  /\ UNCHANGED <<now, row, txnOf, ledger, inserted, batch, ask>>

Commit(s) ==
  /\ txnOf' = [e \in Event |-> Visible(s, e)]
  /\ lock' = [e \in Event |-> IF lock[e] = s THEN None ELSE lock[e]]
  /\ dirty' = [e \in Event |-> IF lock[e] = s THEN None ELSE dirty[e]]
  /\ inserted' = [inserted EXCEPT ![s] = {}]
  /\ UNCHANGED <<now, row, ledger, batch, ask, stmt>>

\* Seeded fault: the inserts were committed on their own.
RollbackUpdatesOnly(s) ==
  /\ lock' = [e \in Event |-> IF lock[e] = s THEN None ELSE lock[e]]
  /\ dirty' = [e \in Event |-> IF lock[e] = s THEN None ELSE dirty[e]]
  /\ inserted' = [inserted EXCEPT ![s] = {}]
  /\ batch' = [batch EXCEPT ![s] = {}]
  /\ src' = [src EXCEPT ![s] = None]
  /\ cands' = [cands EXCEPT ![s] = {}]
  /\ cur' = [cur EXCEPT ![s] = None]
  /\ todo' = [todo EXCEPT ![s] = {}]
  /\ UNCHANGED <<now, row, txnOf, ledger>>

Rollback(s) ==
  /\ ledger' = [t \in Txn |-> IF t \in inserted[s] THEN None ELSE ledger[t]]
  /\ lock' = [e \in Event |-> IF lock[e] = s THEN None ELSE lock[e]]
  /\ dirty' = [e \in Event |-> IF lock[e] = s THEN None ELSE dirty[e]]
  /\ inserted' = [inserted EXCEPT ![s] = {}]
  /\ batch' = [batch EXCEPT ![s] = {}]
  /\ src' = [src EXCEPT ![s] = None]
  /\ cands' = [cands EXCEPT ![s] = {}]
  /\ cur' = [cur EXCEPT ![s] = None]
  /\ todo' = [todo EXCEPT ![s] = {}]
  /\ UNCHANGED <<now, row, txnOf>>

-----------------------------------------------------------------------------
(* The match pass.                                                         *)

StartMatch(s, j) ==
  /\ j \in {"match", "sync"}
  /\ Admit(s)
  /\ Begin(s, j, "match")
  /\ \E B \in FirstOf(Unmatched(s)) : batch' = [batch EXCEPT ![s] = B]
  /\ UNCHANGED <<now, db, ask, stmt>>

\* The loop takes the next source off the snapshot.
Take(s, e) ==
  /\ pc[s] = "match"
  /\ e \in NextIn(batch[s])
  /\ batch' = [batch EXCEPT ![s] = @ \ {e}]

AlreadyConsumed(s, e) ==
  /\ Take(s, e)
  /\ e \in Consumed(s)
  /\ UNCHANGED <<now, db, pc, job, ask, stmt>>

NoCandidate(s, e) ==
  /\ Take(s, e)
  /\ e \notin Consumed(s)
  /\ CandidatesOf(s, e) = {}
  /\ UNCHANGED <<now, db, pc, job, ask, stmt>>

MatchByRules(s, e, c) ==
  /\ Take(s, e)
  /\ e \notin Consumed(s)
  /\ c \in SyncChoice(row, e, CandidatesOf(s, e))
  /\ Insert(s, "card", {e, c}, "pair")
  /\ UNCHANGED <<now, row, txnOf, lock, dirty, ask>>

\* Seeded fault: the source is not kept for when the answer comes back.
AskLlmForgetful(s, e) ==
  /\ Take(s, e)
  /\ e \notin Consumed(s)
  /\ NeedsLlm(row, e, CandidatesOf(s, e))
  /\ cands' = [cands EXCEPT ![s] = CandidatesOf(s, e)]
  /\ Goto(s, "llm")
  /\ UNCHANGED <<now, db, src, stmt>>

AskLlm(s, e) ==
  /\ Take(s, e)
  /\ e \notin Consumed(s)
  /\ NeedsLlm(row, e, CandidatesOf(s, e))
  /\ src' = [src EXCEPT ![s] = e]
  /\ cands' = [cands EXCEPT ![s] = CandidatesOf(s, e)]
  /\ Goto(s, "llm")
  /\ UNCHANGED <<now, db, stmt>>

\* The LLM's answer comes back, from candidates read before the call.
LlmAnswers(s, answer) ==
  /\ pc[s] = "llm"
  /\ IF LlmChoice(cands[s], answer) # {}
     THEN Insert(s, "card", {src[s], answer}, "pair")
     ELSE Insert(s, "unknown", {src[s]}, "pair")
  /\ src' = [src EXCEPT ![s] = None]
  /\ cands' = [cands EXCEPT ![s] = {}]
  /\ UNCHANGED <<now, row, txnOf, lock, dirty, batch>>

\* commit of the endpoint, or of step 3 of the sync.
FinishMatch(s) ==
  /\ pc[s] = "match" /\ batch[s] = {}
  /\ Commit(s)
  /\ IF job[s] = "sync" THEN Goto(s, "resolve") ELSE End(s)

-----------------------------------------------------------------------------
(* The solo pass.                                                          *)

StartSolo(s, j) ==
  /\ \/ j \in {"solo", "force"} /\ Admit(s)
     \/ j = "sync" /\ pc[s] = "resolve"
  /\ Begin(s, j, "solo")
  /\ \E B \in FirstOf(IF j = "force" THEN Unmatched(s) ELSE Unmatched(s) \cap OlderThan24h) :
       batch' = [batch EXCEPT ![s] = B]
  /\ UNCHANGED <<now, db, ask, stmt>>

CreateSolo(s, e) ==
  /\ pc[s] = "solo"
  /\ e \in NextIn(batch[s])
  /\ batch' = [batch EXCEPT ![s] = @ \ {e}]
  /\ Insert(s, IF row[e].type = "card_notification" THEN "subscription" ELSE "non_card",
            {e}, "book")
  /\ UNCHANGED <<now, row, txnOf, lock, dirty, ask>>

FinishSolo(s) ==
  /\ pc[s] = "solo" /\ batch[s] = {}
  /\ Commit(s)
  /\ End(s)

-----------------------------------------------------------------------------
(* Failures.                                                               *)

Blocked(s) == todo[s] # {} /\ \A e \in todo[s] : lock[e] \notin {None, s}
WaitsFor(s, o) == Blocked(s) /\ \E e \in todo[s] : lock[e] = o

\* PostgreSQL's deadlock detector cancels a statement on a cycle of waits.
Deadlocked(s) ==
  \E C \in SUBSET Session :
    /\ s \in C
    /\ \A x \in C : (\E y \in C : WaitsFor(x, y)) /\ (\E y \in C : WaitsFor(y, x))

\* Seeded fault: a cancelled statement is not given up.
AbortFaultsOnly(s) ==
  /\ ~Idle(s)
  /\ job[s] \in Faults
  /\ Rollback(s)
  /\ End(s)

\* An exception out of a pass: the session rolls back, the sync goes on with its
\* next step and an endpoint ends.
Abort(s) ==
  /\ ~Idle(s)
  /\ job[s] \in Faults \/ Deadlocked(s)
  /\ Rollback(s)
  /\ IF job[s] = "sync" /\ pc[s] \in {"match", "llm", "pair"}
     THEN Goto(s, "resolve") ELSE End(s)

\* The process dies: nothing of the request goes on.
Crash(s) ==
  /\ Faults # {}
  /\ ~Idle(s)
  /\ Rollback(s)
  /\ End(s)

-----------------------------------------------------------------------------
Step(s) ==
  \/ \E e \in Event : AlreadyConsumed(s, e) \/ NoCandidate(s, e) \/ AskLlm(s, e)
  \/ \E e, c \in Event : MatchByRules(s, e, c)
  \/ \E answer \in Event \cup {None} : LlmAnswers(s, answer)
  \/ \E e \in Event : Assign(s, e, "pair", "match")
  \/ FinishMatch(s)
  \/ StartSolo(s, "sync")
  \/ \E e \in Event : CreateSolo(s, e)
  \/ \E e \in Event : Assign(s, e, "book", "solo")
  \/ FinishSolo(s)

Next ==
  \/ Tick
  \/ \E E \in (SUBSET Event) \ {{}} : Arrive(E)
  \/ \E s \in Session, j \in {"match", "sync"} : StartMatch(s, j)
  \/ \E s \in Session, j \in {"solo", "force"} : StartSolo(s, j)
  \/ \E s \in Session : Step(s)
  \/ \E s \in Session : Abort(s) \/ Crash(s)

Spec == Init /\ [][Next]_vars

-----------------------------------------------------------------------------
(* Properties.                                                             *)

Posted     == {t \in Txn : ledger[t] # None /\ \A s \in Session : t \notin inserted[s]}
Members(t) == {e \in Event : txnOf[e] = t}

\* However requests interleave, fail or crash: a booked event points at a
\* committed transaction, and that transaction was made from this event - a
\* subscription from one card notification, a non-card payment from one receipt,
\* a card payment from rows the candidate query pairs.
BookedConsistently ==
  \A e \in Event : txnOf[e] # None =>
    /\ txnOf[e] \in Posted
    /\ ledger[txnOf[e]] = "subscription" => row[e].type = "card_notification"
    /\ ledger[txnOf[e]] = "non_card" => row[e].type = "merchant_receipt"
    /\ \A f \in Members(txnOf[e]) \ {e} :
         ledger[txnOf[e]] = "card" /\ Compatible(row[e], row[f])

\* One request at a time: every transaction in the ledger stands for events that
\* are really there - a card payment for its two halves, any other for exactly
\* one event - so summing the ledger counts no event twice.
EveryTransactionCounts ==
  \A t \in Posted :
    IF ledger[t] = "card"
    THEN \E e, f \in Event : e # f /\ Members(t) = {e, f}
    ELSE \E e \in Event : Members(t) = {e}

\* The solo pass of a sync books an event alone only if no unmatched event could
\* be its other half: README.md:14, "events that found no partner within 24 hours".
SoloHasNoPartner ==
  \A s \in Session : job[s] = "sync" /\ pc[s] \in {"solo", "book"} =>
    \A e \in Consumed(s), f \in Event :
      row[f] # None /\ Compatible(row[e], row[f]) => txnOf[f] # None

\* One request at a time, failing or not, the committed rows behave as the
\* abstract ledger: each commit posts whole payments, and nothing posted changes.
Abstract == INSTANCE Ledger WITH
  posted <- [t \in Txn |-> IF t \in Posted THEN ledger[t] ELSE None]
ImplementsLedger == Abstract!Spec

(***************************************************************************)
(* Fairness: the event loop runs every request to its end (each LLM or     *)
(* database call returns or raises), deadlock victims included.  It is      *)
(* strong, because PostgreSQL queues the waiters of a row lock in order: a *)
(* request is not passed over for ever by later ones.  The owner keeps     *)
(* calling POST /sync while time passes.                                   *)
(***************************************************************************)
RunsOn(s) == Step(s) \/ (Deadlocked(s) /\ Abort(s))

FairSpec ==
  /\ Spec
  /\ WF_vars(Tick)
  /\ \A s \in Session : SF_vars(RunsOn(s)) /\ SF_vars(StartMatch(s, "sync"))

\* No request waits for ever: row locks taken in opposite orders by two passes
\* end with one of them cancelled, the other one through.
RequestsEnd == \A s \in Session : ~Idle(s) ~> Idle(s)

\* When failures stop, every event reaches the ledger, matched, solo or in review,
\* however many there are compared with the limit of one pass.  (A pass that had
\* nothing to write ends the same way whether it commits or fails.)
FailuresStop ==
  <>[][\A s \in Session : Abort(s) \/ Crash(s) => FinishMatch(s) \/ FinishSolo(s)]_vars
EventuallyBooked == FailuresStop => \A e \in Event : row[e] # None ~> txnOf[e] # None
=============================================================================
