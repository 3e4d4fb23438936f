---------------------------- MODULE ParsePending ----------------------------
(***************************************************************************)
(* Turning fetched emails into payment events: ParsePendingEmails, run by  *)
(* POST /payment-events/parse and by step 2 of the sync, with the LLM      *)
(* parser and its Redis cache behind it.  A request is one database        *)
(* session at READ COMMITTED; the whole pass is one transaction, while the *)
(* cache is written at once and outlives a rollback.                       *)
(*                                                                         *)
(* An event is the email whose payment it holds: the email the rule parser *)
(* read, or the one the LLM's payload was made from.                       *)
(***************************************************************************)
EXTENDS Integers, FiniteSets

CONSTANTS
  Email,      \* ids of emails rows
  Mail,       \* what an email may be
  Session,    \* concurrent requests
  Limit,      \* the limit argument of the pass
  Exclusive,  \* TRUE: a request starts only when no other is in progress
  Faults,     \* TRUE: statements, Redis and the process may fail
  None,       \* SQL NULL, a missing row, a missing key
  Misfit      \* an event no column of payment_events can take

\* body: the mail has a text part, HTML only, or nothing.
\* rule: no rule parser takes it, one does and succeeds, one does and fails or raises.
\* from: sender and subject; start: the first 4096 bytes of the text part, which an
\* HTML-only mail has none of; received: received_at, in the whole seconds of a Date.
ASSUME MailAssumption ==
  /\ Limit \in Nat \ {0}
  /\ Exclusive \in BOOLEAN /\ Faults \in BOOLEAN
  /\ \A m \in Mail :
       /\ m.body \in {"text", "html", "none"} /\ m.rule \in {"none", "ok", "fail"}
       /\ m.received \in Nat
  /\ None \notin Email /\ None \notin Session /\ None \notin Mail
  /\ Misfit \notin Email \cup {None}
  /\ None \notin {"pending", "parsed", "failed", "skipped"}

VARIABLES
  mail,       \* the emails fetched so far
  status,     \* their committed parsed_status
  event,      \* the committed payment_events row of each email
  lock,       \* the session holding the row lock of an email
  wstatus,    \* the parsed_status it has written but not committed
  inserting,  \* the session with an uncommitted payment_events row of an email
  wevent,     \* that row
  cache,      \* Redis: the LLM's payload under each key
  pc, batch,  \* where a request is, the snapshot of list_pending it has still to take
  cur,        \* the email it works on
  verdict     \* the status that email is to get, and the event if it is "parsed"

db   == <<mail, status, event, lock, wstatus, inserting, wevent>>
vars == <<mail, status, event, lock, wstatus, inserting, wevent, cache, pc, batch, cur, verdict>>

Status == {"pending", "parsed", "failed", "skipped"}
Label  == {"idle", "next", "cache", "llm", "retry", "get", "update", "save"}

\* What the JSON of an LLM answer amounts to: a payment; a payment some column of
\* payment_events is too small for ("misfit", a card_last4 of five characters); no
\* payment, or no usable type or date ("no"); a value int() or float() rejects ("odd").
Payload == [about : Email, is : {"payment", "misfit", "no", "odd"}]

\* A verdict with the event Misfit is "parsed" with a row that cannot be inserted.
Verdict == [status : {"parsed", "failed", "skipped"}, event : Email \cup {None, Misfit}]
ASSUME VerdictAssumption == None \notin Verdict
Failed     == [status |-> "failed", event |-> None]
Parsed(ev) == [status |-> "parsed", event |-> ev]

\* The LLM cache key hashes sender, subject and the first 4096 bytes of body_text: not
\* the HTML, nor the rest of the text and the received_at that the prompt also shows.
KeyOf(m) == <<m.from, m.start>>
Key      == {KeyOf(m) : m \in Mail}

\* Seeded fault: the body is left out of the key.
CacheKeyNoBody(e) == <<mail[e].from, {}>>

CacheKey(e) == KeyOf(mail[e])

TypeOK ==
  /\ mail \in [Email -> Mail \cup {None}]
  /\ status \in [Email -> Status \cup {None}]
  /\ event \in [Email -> Email \cup {None}]
  /\ lock \in [Email -> Session \cup {None}]
  /\ wstatus \in [Email -> Status \cup {None}]
  /\ inserting \in [Email -> Session \cup {None}]
  /\ wevent \in [Email -> Email \cup {None}]
  /\ cache \in [Key -> Payload \cup {None}]
  /\ pc \in [Session -> Label]
  /\ batch \in [Session -> SUBSET Email]
  /\ cur \in [Session -> Email \cup {None}]
  /\ verdict \in [Session -> Verdict \cup {None}]
  /\ \A s \in Session :
       /\ pc[s] \in {"cache", "llm", "retry", "get", "update", "save"} <=> cur[s] # None
       /\ pc[s] \in {"get", "update", "save"} <=> verdict[s] # None

Init ==
  /\ mail = [e \in Email |-> None]
  /\ status = [e \in Email |-> None]
  /\ event = [e \in Email |-> None]
  /\ lock = [e \in Email |-> None]
  /\ wstatus = [e \in Email |-> None]
  /\ inserting = [e \in Email |-> None]
  /\ wevent = [e \in Email |-> None]
  /\ cache = [k \in Key |-> None]
  /\ pc = [s \in Session |-> "idle"]
  /\ batch = [s \in Session |-> {}]
  /\ cur = [s \in Session |-> None]
  /\ verdict = [s \in Session |-> None]

Idle(s)  == pc[s] = "idle"
Admit(s) == Idle(s) /\ (Exclusive => \A o \in Session : Idle(o))
Goto(s, label) == pc' = [pc EXCEPT ![s] = label]
Give(s, v) == verdict' = [verdict EXCEPT ![s] = v] /\ Goto(s, "get")

-----------------------------------------------------------------------------
(* The environment: the fetch commits new emails, Redis forgets after 24 h. *)

\* The fetch commits the mails of one mailbox page or more, all of them together.
Arrive(E) ==
  /\ \A e \in E : mail[e] = None
  /\ \E new \in [E -> Mail] :
       mail' = [e \in Email |-> IF e \in E THEN new[e] ELSE mail[e]]
  /\ status' = [e \in Email |-> IF e \in E THEN "pending" ELSE status[e]]
  /\ UNCHANGED <<event, lock, wstatus, inserting, wevent, cache, pc, batch, cur, verdict>>

Expire(k) ==
  /\ cache[k] # None
  /\ cache' = [cache EXCEPT ![k] = None]
  /\ UNCHANGED <<db, pc, batch, cur, verdict>>

-----------------------------------------------------------------------------
(* The pass.                                                               *)

Pending == {e \in Email : status[e] = "pending"}

\* ORDER BY received_at LIMIT: which mails of one second come before the limit, and in
\* what order, PostgreSQL may choose anew for each query.
ListPending(P) ==
  {B \in SUBSET P :
     /\ Cardinality(B) = IF Cardinality(P) < Limit THEN Cardinality(P) ELSE Limit
     /\ \A e \in B, f \in P \ B : mail[e].received <= mail[f].received}

StartParse(s) ==
  /\ Admit(s)
  /\ \E B \in ListPending(Pending) : batch' = [batch EXCEPT ![s] = B]
  /\ Goto(s, "next")
  /\ UNCHANGED <<db, cache, cur, verdict>>

\* Seeded fault: the snapshot is walked through in no particular order.
TakeAny(s, e) ==
  /\ pc[s] = "next"
  /\ e \in batch[s]
  /\ batch' = [batch EXCEPT ![s] = @ \ {e}]
  /\ cur' = [cur EXCEPT ![s] = e]

Take(s, e) ==
  /\ pc[s] = "next"
  /\ e \in batch[s] /\ \A f \in batch[s] : mail[e].received <= mail[f].received
  /\ batch' = [batch EXCEPT ![s] = @ \ {e}]
  /\ cur' = [cur EXCEPT ![s] = e]

SkipEmpty(s, e) ==
  /\ Take(s, e)
  /\ mail[e].body = "none"
  /\ Give(s, [status |-> "skipped", event |-> None])
  /\ UNCHANGED <<db, cache>>

ParseByRule(s, e) ==
  /\ Take(s, e)
  /\ mail[e].body # "none"
  /\ mail[e].rule = "ok"
  /\ Give(s, Parsed(e))
  /\ UNCHANGED <<db, cache>>

\* No rule parser takes the mail, or the one that does fails.
FallBack(s, e) ==
  /\ Take(s, e)
  /\ mail[e].body # "none"
  /\ mail[e].rule # "ok"
  /\ Goto(s, "cache")
  /\ UNCHANGED <<db, cache, verdict>>

\* What a payload makes of the email; "odd" raises before there is a result.
Judge(p) ==
  CASE p.is = "payment" -> Parsed(p.about)
    [] p.is = "misfit"  -> Parsed(Misfit)
    [] OTHER            -> Failed

\* A cached payload is judged outside the retry loop: one that raises is a failure.
CacheHit(s) ==
  /\ pc[s] = "cache"
  /\ cache[CacheKey(cur[s])] # None
  /\ Give(s, Judge(cache[CacheKey(cur[s])]))
  /\ UNCHANGED <<db, cache, batch, cur>>

CacheMiss(s) ==
  /\ pc[s] = "cache"
  /\ cache[CacheKey(cur[s])] = None \/ Faults
  /\ Goto(s, "llm")
  /\ UNCHANGED <<db, cache, batch, cur, verdict>>

\* SET key EX 86400; an error of Redis is swallowed.
WriteCache(k, p) ==
  \/ cache' = [cache EXCEPT ![k] = p]
  \/ Faults /\ UNCHANGED cache

\* An answer with JSON: cached first, judged then, a second time if judging raises.
LlmAnswers(s, is) ==
  LET p == [about |-> cur[s], is |-> is] IN
  /\ pc[s] \in {"llm", "retry"}
  /\ WriteCache(CacheKey(cur[s]), p)
  /\ IF is = "odd" /\ pc[s] = "llm"
     THEN Goto(s, "retry") /\ UNCHANGED verdict
     ELSE Give(s, Judge(p))
  /\ UNCHANGED <<db, batch, cur>>

\* Seeded fault: giving up on an email leaves its row as it is.
LlmFailsForgotten(s) ==
  /\ pc[s] \in {"llm", "retry"}
  /\ IF pc[s] = "llm" THEN Goto(s, "retry") /\ UNCHANGED cur
     ELSE Goto(s, "next") /\ cur' = [cur EXCEPT ![s] = None]
  /\ UNCHANGED <<db, cache, batch, verdict>>

\* The call raises, or the answer holds no JSON object.
LlmFails(s) ==
  /\ pc[s] \in {"llm", "retry"}
  /\ IF pc[s] = "llm" THEN Goto(s, "retry") /\ UNCHANGED verdict ELSE Give(s, Failed)
  /\ UNCHANGED <<db, cache, batch, cur>>

-----------------------------------------------------------------------------
(* Writing the outcome.                                                    *)

\* Seeded fault: the result of one email is still there for the next.
NextEmailStale(s) ==
  /\ Goto(s, "next")
  /\ cur' = [cur EXCEPT ![s] = None]
  /\ UNCHANGED verdict

\* Done with the email.
NextEmail(s) ==
  /\ Goto(s, "next")
  /\ cur' = [cur EXCEPT ![s] = None]
  /\ verdict' = [verdict EXCEPT ![s] = None]

AfterStatus(s) ==
  IF verdict[s].event = None THEN NextEmail(s) ELSE Goto(s, "save") /\ UNCHANGED <<cur, verdict>>

\* session.get of the email's row: when it holds the new status already nothing is
\* sent, except that a failure may be sent again with another reason.
AlreadySo(s) ==
  /\ pc[s] = "get"
  /\ status[cur[s]] = verdict[s].status
  /\ AfterStatus(s)
  /\ UNCHANGED <<db, cache, batch>>

GetRow(s) ==
  /\ pc[s] = "get"
  /\ status[cur[s]] # verdict[s].status \/ verdict[s].status = "failed"
  /\ Goto(s, "update")
  /\ UNCHANGED <<db, cache, batch, cur, verdict>>

\* The UPDATE by primary key: it waits for the row lock and then overwrites.
UpdateStatus(s) ==
  /\ pc[s] = "update"
  /\ lock[cur[s]] \in {None, s}
  /\ lock' = [lock EXCEPT ![cur[s]] = s]
  /\ wstatus' = [wstatus EXCEPT ![cur[s]] = verdict[s].status]
  /\ AfterStatus(s)
  /\ UNCHANGED <<mail, status, event, inserting, wevent, cache, batch>>

\* Seeded fault: ON CONFLICT DO UPDATE.
SaveOverwriting(s) ==
  /\ pc[s] = "save"
  /\ verdict[s].event # Misfit
  /\ inserting[cur[s]] \in {None, s}
  /\ inserting' = [inserting EXCEPT ![cur[s]] = s]
  /\ wevent' = [wevent EXCEPT ![cur[s]] = verdict[s].event]
  /\ NextEmail(s)
  /\ UNCHANGED <<mail, status, event, lock, wstatus, cache, batch>>

\* INSERT ... ON CONFLICT (email_id) DO NOTHING: it waits while another session has
\* such a row in the making, and leaves a committed one alone.
SaveEvent(s) ==
  /\ pc[s] = "save"
  /\ verdict[s].event # Misfit
  /\ inserting[cur[s]] \in {None, s}
  /\ IF event[cur[s]] # None
     THEN UNCHANGED <<inserting, wevent>>
     ELSE /\ inserting' = [inserting EXCEPT ![cur[s]] = s]
          /\ wevent' = [wevent EXCEPT ![cur[s]] = verdict[s].event]
  /\ NextEmail(s)
  /\ UNCHANGED <<mail, status, event, lock, wstatus, cache, batch>>

FinishParse(s) ==
  /\ pc[s] = "next" /\ batch[s] = {}
  /\ status' = [e \in Email |-> IF lock[e] = s THEN wstatus[e] ELSE status[e]]
  /\ event' = [e \in Email |-> IF inserting[e] = s THEN wevent[e] ELSE event[e]]
  /\ lock' = [e \in Email |-> IF lock[e] = s THEN None ELSE lock[e]]
  /\ wstatus' = [e \in Email |-> IF lock[e] = s THEN None ELSE wstatus[e]]
  /\ inserting' = [e \in Email |-> IF inserting[e] = s THEN None ELSE inserting[e]]
  /\ wevent' = [e \in Email |-> IF inserting[e] = s THEN None ELSE wevent[e]]
  /\ Goto(s, "idle")
  /\ UNCHANGED <<mail, cache, batch, cur, verdict>>

\* Seeded fault: the status had a transaction of its own.
RollbackEventOnly(s) ==
  /\ status' = [e \in Email |-> IF lock[e] = s THEN wstatus[e] ELSE status[e]]
  /\ lock' = [e \in Email |-> IF lock[e] = s THEN None ELSE lock[e]]
  /\ wstatus' = [e \in Email |-> IF lock[e] = s THEN None ELSE wstatus[e]]
  /\ inserting' = [e \in Email |-> IF inserting[e] = s THEN None ELSE inserting[e]]
  /\ wevent' = [e \in Email |-> IF inserting[e] = s THEN None ELSE wevent[e]]
  /\ Goto(s, "idle")
  /\ batch' = [batch EXCEPT ![s] = {}]
  /\ cur' = [cur EXCEPT ![s] = None]
  /\ verdict' = [verdict EXCEPT ![s] = None]
  /\ UNCHANGED <<mail, event, cache>>

\* Everything the pass wrote is taken back, whatever emails it was for.
Rollback(s) ==
  /\ lock' = [e \in Email |-> IF lock[e] = s THEN None ELSE lock[e]]
  /\ wstatus' = [e \in Email |-> IF lock[e] = s THEN None ELSE wstatus[e]]
  /\ inserting' = [e \in Email |-> IF inserting[e] = s THEN None ELSE inserting[e]]
  /\ wevent' = [e \in Email |-> IF inserting[e] = s THEN None ELSE wevent[e]]
  /\ Goto(s, "idle")
  /\ batch' = [batch EXCEPT ![s] = {}]
  /\ cur' = [cur EXCEPT ![s] = None]
  /\ verdict' = [verdict EXCEPT ![s] = None]
  /\ UNCHANGED <<mail, status, event, cache>>

\* PostgreSQL rejects the row, and the exception leaves the pass.
SaveRaises(s) ==
  /\ pc[s] = "save"
  /\ verdict[s].event = Misfit
  /\ Rollback(s)

WaitsFor(s, o) ==
  /\ o # s
  /\ \/ pc[s] = "update" /\ lock[cur[s]] = o
     \/ pc[s] = "save" /\ inserting[cur[s]] = o

\* PostgreSQL's deadlock detector cancels a statement of a circle of waits.
Deadlocked(s) ==
  \E C \in SUBSET Session :
    /\ s \in C
    /\ \A x \in C : (\E y \in C : WaitsFor(x, y)) /\ (\E y \in C : WaitsFor(y, x))

\* A statement or the commit fails, or the process dies.
Abort(s) ==
  /\ Faults \/ Deadlocked(s)
  /\ ~Idle(s)
  /\ Rollback(s)

-----------------------------------------------------------------------------
Step(s) ==
  \/ \E e \in Email : SkipEmpty(s, e) \/ ParseByRule(s, e) \/ FallBack(s, e)
  \/ CacheHit(s) \/ CacheMiss(s)
  \/ \E is \in {"payment", "misfit", "no", "odd"} : LlmAnswers(s, is)
  \/ LlmFails(s)
  \/ AlreadySo(s) \/ GetRow(s) \/ UpdateStatus(s)
  \/ SaveEvent(s) \/ SaveRaises(s)
  \/ FinishParse(s)

Next ==
  \/ \E E \in (SUBSET Email) \ {{}} : Arrive(E)
  \/ \E k \in Key : Expire(k)
  \/ \E s \in Session : StartParse(s) \/ Step(s) \/ Abort(s)

Spec == Init /\ [][Next]_vars

-----------------------------------------------------------------------------
(* Properties.                                                             *)

\* A parsed email has its event: the status and the event are committed together
\* or not at all, and no other pass takes the event away.
ParsedHasEvent == \A e \in Email : status[e] = "parsed" => event[e] # None

\* The event of an email is never replaced, whichever passes parse it again with
\* whatever answers: the match pass may rely on the rows it has read.
EventsStay == [][\A e \in Email : event[e] # None => event'[e] = event[e]]_vars

\* What has been put to the LLM, or may be: no rule makes an event of it.
Asked(e) == mail[e] # None /\ mail[e].body # "none" /\ mail[e].rule # "ok"

\* An event may tell what its own mail tells, or, when the LLM was to read that, what
\* another mail tells that the LLM was to read and that has the same sender, subject
\* and first 4096 bytes of text.
Alike(e, f)   == mail[e].from = mail[f].from /\ mail[e].start = mail[f].start
MayTell(e, f) == e = f \/ (Asked(e) /\ Asked(f) /\ Alike(e, f))

\* Payloads cross no further than the key of the cache lets them, whoever asked the
\* LLM, failed, overlapped or was rolled back before; a mail a rule reads has an event
\* of its own.
PayloadsShared == \A e \in Email : event[e] # None => MayTell(e, event[e])

\* Overlapping passes keep row locks and unique keys until they commit, LLM calls
\* included.  Whoever is waited for and waits itself waits for a mail received no
\* earlier: they wait in a circle for mails of one second only, which two lists may
\* have in different orders, and one of them is cancelled then.
WaitsInOrder ==
  \A s, o, p \in Session :
    WaitsFor(s, o) /\ WaitsFor(o, p) => mail[cur[s]].received <= mail[cur[o]].received

\* PROGRESS.md:160: the key is a hash of sender, subject and body.
EventDescribesItsEmail == \A e \in Email : event[e] \in {None, e}
=============================================================================
