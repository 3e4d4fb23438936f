# A TLA+ verification of mailbook-backend

mailbook turns payment mails into a ledger without duplicates. The TLA+ modules
in this directory model the way of a mail into that ledger: fetched from Gmail,
parsed, matched or booked alone, filed under a merchant and a category, verified
and reported, and the sync request that runs the first four of these. TLC checks
the modules on small instances; TLAPS proves the main invariants for all of them.

Run in this directory: `tlc -config <cfg> <module>` for the runs of
`PROJECT.json`, `tlapm <module>_proofs.tla` for the proofs.

## 1. The system

A FastAPI process (asyncio, one task per request) with PostgreSQL (READ
COMMITTED, one session per request), Redis, Gmail and the Anthropic API.

| Component | State | Operations | Interacts with |
|---|---|---|---|
| Sync request (`sync_router.py`, `sync_pipeline.py`) | Redis key `mailbook:sync_lock`, `processing_runs` | `POST /sync`: lock, four steps with a commit or rollback each, record the run, unlock | calls all stages below on one session |
| Email fetch (`fetch_emails.py`, `gmail_connector.py`, `email_repository.py`) | `emails` | list pages, save each message once | Gmail, token storage |
| OAuth and tokens (`encrypted_token_storage.py`, `google_oauth_flow.py`) | `oauth_tokens`, one row per account | callback, refresh | written by the callback and by every fetch |
| Parse stage (`parse_pending_emails.py`, `anthropic_llm_parser.py`) | `emails.parsed_status`, `payment_events`, the LLM cache | parse the pending emails, oldest first; also `POST /payment-events/parse`, without a lock | rule parsers, Anthropic, Redis |
| Match pass (`match_unmatched_events.py`, `matching_engine.py`) | `payment_events.transaction_id`, `transactions` | pair events; also `POST /transactions/match`, without a lock | Anthropic, merchant aliases |
| Solo pass (`resolve_solo_transactions.py`) | the same | book what found no partner in 24 h; also `POST /transactions/resolve-solo`, optionally `force` | merchant aliases |
| Merchant aliases (`merchant/`) | `merchant_aliases` | seed from YAML, learn, resolve | read by both passes |
| Verification, reports | `transactions` | set verified; sum by month and category | |
| Rule parsers | none | regular expressions over a body | called by the parse stage |

What is hard: requests interleave at every `await` and share rows without
`SELECT FOR UPDATE`; only `/sync` takes a lock, and that lock expires; a pass is
one database transaction of up to 500 emails or events with LLM calls inside it;
Redis is written at once while the database may roll back; every step may fail
after having done half its work. The list with line numbers is in
`PROJECT.json`, "hazards".

What makes each component correct:

- matching rules: the rules settle a match only when one candidate has the best
  evidence;
- both passes: no event is counted twice, none is lost, none of a payment's two
  halves is booked alone while the other one is there, a booked event stays
  consistent with its transaction;
- parse stage: an email and its event change together, the event is about that
  email and never replaced, every email is concluded;
- sync request: one at a time, no failed step lost, the lock comes free;
- email fetch: a message is stored once, a failing fetch loses nothing;
- tokens: the stored refresh token stays usable whoever wrote last;
- merchant aliases: the lookup finds one row.

## 2. Plan

The order of work, the most important behaviour first. Items 1 to 11 are done.

1. `MatchingEngine`, `MatchDecision`: the pure rules; proofs, the staged elimination
   against the weighing of evidence among them.
2. `Reconcile` with the abstract `Ledger`: both passes; proofs of types, of
   `BookedConsistently` and, for requests that do not overlap, of
   `EveryTransactionCounts`.
3. `SyncPipeline`: lock, steps, run record; proofs.
4. `ParsePending`: parse stage and LLM cache; proofs, among them that passes wait for
   each other in a circle only for mails of one second. `RuleParsers`: what a mail is
   to it.
5. `EmailFetch`: pages, duplicates, failure half-way, and the token row between a
   refresh and a callback; proofs.
6. `Merchants`, `Books`: names and aliases, seeding, learning, verification; proofs.
   `Reports`: the two reports as functions of the ledger.
7. `Mailbook`: fetch, parse, match and solo composed in one sync request.
8. `Reconcile_exclusive_proofs`: `Reconcile` implements `Ledger` when requests do not
   overlap, and leaves nobody alone (`SoloHasNoPartner`).
9. `Mailbook_proofs`: the stages of a sync are behaviours of `ParsePending` and
   `Reconcile`, so that what is proved of them holds of the whole; `NoHalfAlone`.
10. `Inbox`: what a fetch promises. `EmailFetch` implements it, which is proved.
11. The sums of the reports, proved by induction over the ledger.
12. Left: `Mailbook` with a parse request beside the sync, which has 28 times the
    states and so needs a smaller instance.

At most a dozen runs are kept, so a run that shows more takes the place of one
that shows less.

## 3. The modules

| Module | Models | State and actions in terms of the code |
|---|---|---|
| `MatchingEngine` | `matching_engine.py`, the predicate of `find_candidates` | operators on a table of events; the fuzzy score is the constant function `Ratio` |
| `MatchDecision` | one decision: query, rules, LLM | rows of the query arrive one by one, `DisambiguateSync`, `FinalizeWithLlm` |
| `Ledger` | what README.md:3 and :13-15 of the repository promise | `Post` books whole payments, nothing changes afterwards |
| `Reconcile` | match and solo passes, endpoints and sync steps 3 and 4 | below |
| `SyncPipeline` | `run_sync`, `SyncPipeline.execute` | `key`, `ttl` are the Redis lock; `pc` walks through the steps; `errors`, `counted` are the run's result, `committed` what of its work is in the database; a commit may be refused (`CommitRaises`), or done with its reply lost (`CommitUnanswered`, `Lands`) |
| `ParsePending` | parse stage, sync step 2, LLM parser and cache | below |
| `RuleParsers` | the parts of a MIME message, the parser registry, both rule parsers | operators: `Kind` is what a message amounts to for the parse stage; a text, a sender, a subject is the set of the patterns that are found in it |
| `Inbox` | what step 1 promises the later ones (`fetch_emails.py:15-35`) | `Store` adds, at once, all that was in the mailbox at the beginning; `GiveUp` adds nothing |
| `EmailFetch` | `fetch_emails.py`, the Gmail connector, the OAuth callback, the token row | below |
| `Merchants` | `alias_resolver.py`, `merchants.yaml`, `classifier.py` | operators: `Normalise`, the entries of the file, `Pick` |
| `Books` | alias lookup, learning, seeding, categories of a pass, verification | below |
| `Reports` | `monthly_report.py`, `category_report.py` | operators on a set of transactions; the two reports make their totals in different ways, as in the code |
| `Mailbook` | the four steps of `SyncPipeline.execute` on one database | below |
| `*_proofs` | theorems | section 6 |
| `MC*` | constants for TLC | section 4 |

`Reconcile`. `row`, `txnOf` are the committed `payment_events`, `ledger` the
`transactions`; `lock`, `dirty`, `inserted` are what open database transactions
hold and have written. A request (`Session`) takes a snapshot
(`list_unmatched`, `StartMatch`), walks it in the order of `paid_at`
(`Take`), queries candidates and decides in one step per event (the statements in
between read only), waits for the LLM in `pc = "llm"` with the candidates it has
read, inserts a transaction (`Insert`) and updates its events one row at a time
(`Assign`), because the row locks of `UPDATE ... WHERE id IN (...)` are taken one
after the other and in no fixed order. `FinishMatch`, `FinishSolo` commit, `Abort`
and `Crash` roll back. `now` jumps between readings of the clock.
`Consumed(s)`, the pass's in-memory set, is the set of rows the session has
locked: a pass commits only at its end and assigns exactly what it consumes.
Transaction ids given up by a rollback are reused so that `Txn` can be finite;
no row refers to them.

`ParsePending`. A mail is what decides its way: its body, what the rules make of it, its
sender and subject, the first 4096 bytes of its text and the second it was received in.
Content is abstracted to where it comes from: an event is the email whose payment it
holds, so an event of email 2 that says 1 is a copy of another mail's payment. A payload
of the LLM is a payment, a payment that no column can take (`misfit`: a
`card_last4` of five characters, an amount beyond BIGINT), no payment, or one
whose conversion raises (`odd`). The payload goes into the cache before it is
looked at, as in the code, under `KeyOf` of the mail: sender, subject and the first 4096
bytes of the text. The rest of the text, the HTML and `received_at`, which the prompt
has too, are not in the key. `ListPending` is the set of lists the query may return: it
orders by `received_at` alone, so that mails of one second come before or after the
limit as they will, and `Take` takes them in either order. Writing the outcome is
`session.get` (`GetRow`, `AlreadySo`: SQLAlchemy sends no UPDATE for values that are
already there), the UPDATE that waits for the row lock (`UpdateStatus`) and the INSERT
... ON CONFLICT DO NOTHING (`SaveEvent`). Two passes with mails of one second may wait in
a circle (`Deadlocked`); PostgreSQL then cancels one, which is an `Abort`. Emails come in
as the fetch commits them, any number together (`Arrive`), and so do the events in
`Reconcile`, where a commit of the parse pass adds them.

`EmailFetch`. Messages are numbers in the order of `internalDate`; Gmail lists the
newest first. `emails` are the committed rows, `inserting` those of a running fetch,
which make the INSERT ... ON CONFLICT of another one wait (`SaveEmail`). A fetch is
one database transaction from the read of the token (`StartFetch`) to the commit of
step 1 (`FinishFetch`), Gmail calls included. `token` is the account's committed
row, `holder` and `wtoken` the write of a request that has not committed; `creds` is
the copy a request works with. A callback (`Consent`) looks for the row before it
inserts or updates (`FindToken`, `InsertToken`, `WriteToken`). `Lapse` and `Revoke`
are the token's expiry and the owner's withdrawal at Google; `Abort` stands for
everything a fetch can raise and for a crash. The dates of the query are left out.

`Books`. `own` is the owner's alias of a key, `global` the number of rows without a
user, which the unique index does not keep apart. A pass (`StartPass`, `Book`,
`CommitPass`, `FailPass`) reads `categories.yaml` when it starts (`rules`) and
aliases as it goes. The owner's requests read first (`FindAlias`,
`FindTransaction`) and write later; a write sends only the columns that differ from
what was read (`Column`), as SQLAlchemy's flush does, which is what decides how two
of them mix. Names are sequences of tokens, so that `Normalise` is the code's own
sequence of steps.

`Mailbook`. `Parse` and `Book` are instances of `ParsePending` and `Reconcile` for the
one session of the sync, joined by `Row`: the committed event of a mail is the row
that matching sees. The fetch is coarse: `FetchCommits` stores what was in the mailbox
when the sync began and any part of what came later; `FetchFails` stores nothing. That
is `Inbox` written out: an abstraction of the fetch, not a translation of it. What
justifies it is that `EmailFetch`, with all its pages, tokens and row locks, implements
`Inbox` (the run `fetch`, the theorem `KeepsItsPromise`). Each step commits
or fails on its own and the next one follows (`After`); `failed` remembers that one
did. A commit whose reply is lost counts as failed although its work is there. `Crash`
rolls back what is open. `due` are the messages the sync answers for: those that were
there when it began, less those its parse step did not end with `parsed`. `Book` is
instantiated with `Exclusive`: one request holds the sync lock (`SyncPipeline` has the
lock itself).

Operators commented "Seeded fault" are not part of the specifications: they are
the wrong variants with which each property is tested (`PROJECT.json`,
"mutants").

## 4. The runs

| Run | Instance | Shows |
|---|---|---|
| `match_decision` | up to 3 candidates, 3 cards (one: none), names scoring 100, 80, 60, 59 | `RulesPickTheStrongest`: the staged elimination equals an independent weighing of the evidence; `RulesOutrankTheLlm` |
| `reconcile` | 3 events of 5 kinds (10 minutes apart, 11 apart, with and without card, two merchants), one request at a time, endpoint requests failing and the process dying anywhere, three readings of the clock | `EveryTransactionCounts`; `SoloHasNoPartner`; `ImplementsLedger`: the committed rows behave as `Ledger` |
| `reconcile_locks` | 2 events, 2 overlapping requests, limit 1 | `BookedConsistently`; `RequestsEnd` with deadlock victims; `EventuallyBooked`, also of an event skipped at exactly 24 hours |
| `sync_pipeline` | 2 requests, lock of 2 ticks, runs of at most 1, up to 2 of a run's 4 steps failing, replies of Redis and of commits lost | `MutualExclusion`; `EveryStepAccountedFor`: a step of which a finished run reports no error is in the database; `LockComesFree` |
| `parse` | 2 emails, each any of 5 mails of one second or the next (3 the LLM reads, 2 of them with one cache key), 2 overlapping requests, failures, crashes, cache expiry | `ParsedHasEvent`, `EventsStay`; `PayloadsShared`: payloads cross no further than the cache key lets them; `WaitsInOrder`: circles of waits are within one second |
| `fetch` | 2 messages, pages of 1, 2 overlapping fetches, 1 callback | `ImplementsInbox`: a failing or overlapped fetch skips nothing and leaves nothing half-stored; `ConsentSticks`: a good refresh token is not lost to an older copy; `WaitsInOrder` |
| `books` | 2 payments in December and January, a file that enters one name twice, 2 lessons about that name, 2 catalogues, 2 requests of the owner | `CategoryAllowed`, `VerifiedNotInReview`, `ReportsAgree`; `BooksKeepUp`: a name the file has twice holds passes up only until the owner teaches it |
| `mailbook` | 2 messages of 3 contents (receipt read by a rule, notification read by the LLM, empty mail), every step failing, crashes | `NoHalfAlone`: a sync without a failed step splits no payment whose two mails it could see; `EveryMailEndsUp` |

Runs that end in a violation, each a disagreement between the code and what the
repository says of it:

| Run | What TLC finds |
|---|---|
| `reconcile_overwrite` | two overlapping `/match` (or `/resolve-solo`, `/sync`) requests book the same events; the first transaction remains in the ledger with no event: the payment counts twice (README.md:22) |
| `sync_overrun` | a run outlives the lock; two syncs run, and the first one's DELETE removes the lock of the second (README.md:27) |
| `parse_cache` | two HTML-only mails of one sender and subject: the second gets the first one's payment (PROGRESS.md:160) |
| `merchant_seed` | the file is seeded twice: two rows under one key, at which the lookup of a pass raises (`merchant_alias_orm.py:23-25`) |

Seen while modelling and not kept as runs:

- Step 4 books both halves of a payment alone, once they are older than 24 hours,
  after a step 1, 2 or 3 that failed, when there are more unmatched events than the
  limit (skipped events stay at the head of `list_unmatched`), or when a parse
  request commits the second half between step 3's snapshot and step 4's query.
  `NoHalfAlone` and `SoloHasNoPartner` name these cases as their premises.
- `find_candidates` compares amounts, not currencies: 2000 won and 20.00 dollars are
  a pair.
- The LLM fallback gets the candidates from before the narrowing by card number
  (`match_unmatched_events.py:81`); `LLM_FUZZY_THRESHOLD` (`matching_engine.py:18`)
  is used nowhere.
- Overlapping parse passes can leave an email FAILED that has an event.
- A mail whose row or event the database refuses makes the same fetch or parse pass
  raise again and again, the other mails with it.
- Two overlapping lessons about one name can leave the canonical name of one with
  the category of the other.
- A consent withdrawn while its callback waits overwrites a newer, good token.

Bounds. Two sessions suffice for every conflict the code has: locks, lost
updates and deadlocks are between pairs of requests, and a third request only
repeats the part of one of them (the DELETE that removes another's lock needs two,
the first of which outlives its lock). Three events make one more than a pair,
hence ties, LLM calls and reviews; two emails make two locks in one pass, a
shared cache key and, received in one second, a deadlock. Which steps of a run have failed
before does not change what the next one may do, so two failures in a run show what four
would. Two messages on pages of one make a page token that is followed,
a message met again, and one that arrives during the walk; two fetches and a callback
are all who write the token row. Two payments on the two sides of New Year's Eve
make two months and two years; two lessons about one name, two requests. In
`mailbook` two messages are the two halves, or two of a kind, and the clock reads 30
minutes, the 24 hours of the first half, and the 24 hours of the second one. Time in
`reconcile` is three readings: before, at and after the 24 hours of the first event.
`Limit`, `LOCK_TTL`, `MaxRun`, `PageSize`, `MaxFailures` (the failing steps of one run)
and `Seedings` (the file is seeded once, twice in `merchant_seed`) are in the
configurations.

`CHECK_DEADLOCK FALSE` stands where the modelled requests come to an end
(`MatchDecision`, `SyncPipeline`) or the next request has nothing left to do
(`ParsePending`, `Mailbook`). `SYMMETRY` is used only in runs without liveness
properties; the refinements have no fairness on either side.

Limits of the instances: in `reconcile` and `mailbook` the limit is the number of
events; `reconcile_locks` has limit 1 and checks `EventuallyBooked` there.
`ReportsAgree` looks at the ledger when no request is under way, since any ledger
occurs at such a moment too.

## 5. Fairness

- Requests run on: the event loop resumes every task, and each database, Redis and
  LLM call returns or raises. In `Reconcile` this is strong fairness of a session's
  steps, because PostgreSQL serves the waiters of a row lock in order of arrival: a
  request that is blocked again and again gets the lock. The deadlock detector is
  part of it (`Deadlocked(s) /\ Abort(s)`). Where nobody waits for anybody it is
  weak: a sync's steps in `SyncPipeline` and `Mailbook`, a pass in `Books`.
- The owner goes on calling the endpoint: `SF` of `StartMatch(s, "sync")`, `WF` of
  `StartSync` and of `StartPass`. Nothing in the repository schedules the sync;
  without somebody calling nothing happens at all.
- Time and Redis' clock pass (`WF(Tick)`).
- Mail, consents, lessons, cache expiry and failures are not fair. Failures need not
  stop either, except in the properties that say so: `EventuallyBooked`,
  `EveryMailEndsUp` and `BooksKeepUp` hold if from some moment on no step fails. They
  need it for a reason worth knowing: a payload the database rejects is cached for 24
  hours, and every parse pass that contains this email is rolled back, the other
  emails with it; and a name with two rows of the file raises in every pass.
- `ParsePending` and `EmailFetch` state no fairness of their own: their liveness is
  that of `Mailbook`.

## 6. Proofs

All for arbitrary constants under the ASSUMEs of the modules (`RatioAssumption`,
`PaymentAssumption`, `ReconcileAssumption`, `SyncAssumption`, `MailAssumption`,
`VerdictAssumption`, `FetchAssumption`, `TokenAssumption`, `MerchantAssumption`,
`FileAssumption`, `BooksAssumption`, `BillAssumption`, `NoneAssumption`,
`MailboxAssumption`), which TLC evaluates in every run of the module. They say that
constants have their types and that `None` is none of the values it stands beside;
`FileAssumption`, that the file of merchants is finite; `BillAssumption`, that a
payment has a date of the calendar and a whole number of won or cents;
`MailboxAssumption` is those of the two stages `Mailbook` composes.

Some theorems have hypotheses, each of them a case the runs contain:

- `Exclusive`: requests do not overlap. What overlap does is in `reconcile_overwrite`.
- `MaxRun < LOCK_TTL`: a sync ends before its lock. See `sync_overrun`.
- `"sync" \notin Faults`: the steps of a sync do not fail, other requests may
  (`NobodyLeftAlone`; `NoHalfIsAlone` needs no such thing, since it speaks of the syncs
  that have not failed among those that do).
- `Fits`: the unbooked rows do not exceed the limit of a pass, 500 in the code.
- `KeysApart`: no two mails that the LLM is to read have the same sender, subject and
  first 4096 bytes of text. See `parse_cache`.

| Theorem | Statement | Argument |
|---|---|---|
| `MatchDecision_proofs!TypeCorrect` | `Spec => []TypeOK` | the rows gathered are finitely many, each with a name to score |
| `MatchDecision_proofs!StrongestPicked` | `Spec => []RulesPickTheStrongest` | `Weights`: who is left by the card has the same points for it, so that the name decides; who is not has fewer |
| `MatchDecision_proofs!RulesOutrank` | `Spec => []RulesOutrankTheLlm` | the three branches of `SyncConfidence` |
| `Reconcile_proofs!TypeCorrect` | `Spec => []TypeOK` | one step per action |
| `Reconcile_proofs!Consistency` | `Spec => []BookedConsistently` | below |
| `Reconcile_exclusive_proofs!NothingCountedTwice` | `Exclusive => (Spec => []EveryTransactionCounts)` | below |
| `Reconcile_exclusive_proofs!NobodyLeftAlone` | `Exclusive`, `"sync" \notin Faults` prove `Spec /\ []Fits => []SoloHasNoPartner` | below |
| `Reconcile_exclusive_proofs!RefinesLedger` | `Exclusive => (Spec => ImplementsLedger)` | below |
| `SyncPipeline_proofs!TypeCorrect` | `Spec => []TypeOK` | |
| `SyncPipeline_proofs!Exclusion` | `MaxRun < LOCK_TTL => (Spec => []MutualExclusion)` | `LockCoversRun`: while a request runs the key is its own, with `ttl` exactly the ticks it has not used |
| `SyncPipeline_proofs!Accounted` | `Spec => []EveryStepAccountedFor` | `Accounting`: every step behind `pc` that is not in `errors` is in `committed` and `counted` |
| `ParsePending_proofs!TypeCorrect` | `Spec => []TypeOK` | |
| `ParsePending_proofs!EventCommitted` | `Spec => []ParsedHasEvent` | `Written`: whoever holds "parsed" uncommitted has saved the event, is about to, or found one |
| `ParsePending_proofs!EventsKept` | `Spec => EventsStay` | `Inserts`: a row in the making is a first row |
| `ParsePending_proofs!OwnPayload` | `Spec => []PayloadsShared` | `Cached`, `Verdicts`, `OwnRow`: a payload is under the key of the mail it was made from, and the verdict and the row keep to it on the way |
| `ParsePending_proofs!OwnWhereApart` | `Spec /\ []KeysApart => []EventDescribesItsEmail` | from `OwnPayload` |
| `ParsePending_proofs!NoCircle` | `Spec => []WaitsInOrder` | `Upwards`: a pass holds rows of mails received no later than those it has still to take; `Guarded`: an event in the making is behind the lock of its own email |
| `EmailFetch_proofs!TypeCorrect` | `Spec => []TypeOK` | `Found`: only a row that is there is refreshed or updated |
| `EmailFetch_proofs!NoCircle` | `Spec => []WaitsInOrder` | `Behind`: a fetch holds rows of messages it has been given and is done with, which lie above those to come; the token row is taken before any of them |
| `EmailFetch_proofs!KeepsItsPromise` | `Spec => ImplementsInbox` | below |
| `EmailFetch_proofs!GoodTokenStays` | `Spec => ConsentSticks` | `Kept`: what a request has written over a good token is good too, or was withdrawn in between: then a fetch can only fail, and a callback's commit is the case the property names |
| `Books_proofs!TypeCorrect` | `Spec => []TypeOK` | `Clean`: rows of the file are under its keys only, what a request has read is still there, only a running pass has drafts |
| `Books_proofs!CategoriesAllowed` | `Spec => []CategoryAllowed` | from `Clean`: between passes there is no draft |
| `Books_proofs!VerifiedLeavesReview` | `Spec => []VerifiedNotInReview` | `Verdicts`: the review flag only goes down, so a request that has read it down finds it down when it writes, and one that has read a verified transaction has read it down |
| `Books_proofs!MonthsApart` | a transaction is in the report of its own month and in no other | `OwnMonth`: a month and the bounds the code computes for it, December's included |
| `Books_proofs!ReportsAddUp` | `Spec => []ReportsAgree` | below |
| `Mailbook_proofs!RunsParsePending` | `Spec => Parse!Spec` | below |
| `Mailbook_proofs!RunsReconcile` | `Spec => Book!Spec` | below |
| `Mailbook_proofs!TypeCorrect` | `Spec => []TypeOK` | from `RunsParsePending` and `RunsReconcile` |
| `Mailbook_proofs!LedgerSound` | `Spec => [](Book!BookedConsistently /\ Book!EveryTransactionCounts)` | from `RunsReconcile` |
| `Mailbook_proofs!BookedAsMailsTell` | what is booked of a mail is what a mail tells: itself, if a rule reads it, or one that shares its cache key | joins `PayloadsShared` of one stage and `GroupsSound` of the other by `Row` |
| `Mailbook_proofs!ImplementsLedger` | `Spec => Book!ImplementsLedger` | from `RunsReconcile` |
| `Mailbook_proofs!NoHalfIsAlone` | `Spec /\ []Fits /\ []PP!KeysApart => []NoHalfAlone` | below |

`BookedConsistently` is not inductive: it speaks of committed columns, which a
commit copies from what a session has written, so the invariant has to follow
the uncommitted data too. `OwnWrites` and `OpenStatement` say what a session's
locked rows and its running UPDATE contain; `OwnInserts` keeps uncommitted
transactions of different sessions apart; `GroupsSound` says that the rows that
are, will be or are being tied to a transaction fit its payment method, even
when another session takes one of them away. That last part is what survives
overlapping requests.

`EveryTransactionCounts` is false when requests overlap (`reconcile_overwrite`),
so its theorem assumes `Exclusive`. `OneAtATime` says all but one session are
empty-handed; `NothingOverwritten` that a row being assigned is free in the
committed state too, which is where overlap breaks it; `GroupsWhole` that the
rows tied to a transaction are all of its rows.

`RefinesLedger` maps `posted` to the transactions that are in no session's
`inserted`. An insert is therefore invisible until its commit, and a rollback
invisible altogether (`InsertUnseen`, `RollbackUnseen`), whatever failed. The commit
is the one step that shows: since the other sessions are empty-handed, the events a
transaction is tied to are exactly the rows this session is about to write
(`BookedTogether`); `GroupsWhole` and `GroupsSound` make of them one payment of
`Ledger` (`WholePayment`); and `NothingOverwritten` says that they were not booked
before. A pass that wrote nothing commits as a stutter (`CommitPosts`).

`KeepsItsPromise` maps `fetching` to the fetches that are not idle, and lets `Inbox` see
committed rows only. Nearly every step is a stutter then, and a rollback a `GiveUp`.
The commit has to be a `Store`: `Walked` says that what was there at the beginning has
been listed, or lies below all that has been and will be (`Owed`), and that what has
been listed is known or on the page, so that nothing is missing when the last page is
done; `Given`, that a fetch inserts only messages Gmail has given it, so that nothing is
stored that is in no mailbox. The row locks matter too: two fetches that meet at a
message wait for each other, and one that finds a row takes it for stored because it is
committed.

`GoodTokenStays` is about steps as well, and so is proved from an inductive invariant
that carries a request's history, `creds` and `wtoken` on the way of a token.

`ReportsAddUp` compares sums, which the model makes by folds over finite sets, as the
code does by loops. The library's induction theorems cannot be used here (they take an
operator as a parameter), so `SubsetInduction` is proved first, about a family of sets
instead: one that has every part of a finite set all of whose elements can be taken
out within the family has all its parts. A counterexample of least size (`Least`, from
the library's fact that the natural numbers are well-founded) would have a smaller
one. On it rest the facts about sums (`SumTakes`, `SumSame`, `SumOfParts`: the sums
over the parts of a partition add up to the sum over the whole), and on those that
what is grouped by a key adds up (`SumByKey`). The rest is that the months cut the
ledger into parts (`MonthsApart`), and that the category report, which adds up
merchants first and those to categories then, comes to what the monthly one adds up
directly. `Finite`, that the ledger is finite in every state whatever `Payment` is, is
the invariant this takes.

`SoloHasNoPartner` speaks of the solo pass, but what it needs is done by the match pass
before: `Partners(s)` says that of any two unbooked rows that suit each other one is
written or about to be, or the first is still to be visited (`PairsInHand`), so that a
match pass that ends leaves no such pair (`NoPairLeft`). It begins with all of them in
its snapshot because the rows fit the limit (`TakesAll`), and nobody adds a row or
rolls one back while it goes on, because requests do not overlap and its own steps do
not fail. How the rules and the LLM decide does not matter: a row that is put to review
is booked too.

The composition. `Mailbook` acts on the variables of both stages, so that
`RunsParsePending` and `RunsReconcile` have to show that each of its steps is a step or
a stutter of the stage. For the parse stage that needs `Copies`: the rows of `emails`
are copies of messages, hence a commit of the fetch is an `Arrive` of those it adds. For
the match and solo stage, `row` is not a variable but computed (`Row`): a commit of the
parse step is an `Arrive` of the events it adds. That takes `EventsStay` (no row changes
under the other stage), `Fetched` (an event is about a message that has been fetched),
`Past` (nobody is told of a payment to come, which `Arrive` demands) and `Staged` (no
pass is under way while the parse step commits). `PP` and `RP` are the two stages with
their proofs; the lemmas `SameParsing` and `SameBooking` say that they name the same
actions as `Parse` and `Book`.

`NoHalfAlone` then follows the messages the sync began with (`InHand`): when the parse
step is done, those still `due` are `parsed`, so each has its event (`ParsedHasEvent`),
which is about itself (`EventDescribesItsEmail`, for which `KeysApart`); the match pass
takes in all rows there are, and as long as nothing has failed `Partners` holds of the
sync, with the failures of others ruled out by `Staged` instead of an assumption.

Only model-checked: liveness (`EventuallyBooked`, `RequestsEnd`, `EveryMailEndsUp`,
`BooksKeepUp`, `LockComesFree`), which is beyond this prover. Every other property of the
passing runs is a theorem. What `Normalise` of `Merchants` computes from a name is seen
in the run of `Books` only: it is a fold over sequences of any length.

## 7. Not modelled

- Application shell: configuration, logging, exception mapping, migrations, health
  checks. Nothing of it outlives a request except the database's pool.
- Encryption of tokens and the address of Google's consent page, of which the outcome is kept
  (`encrypted_token_storage.py`, `google_oauth_flow.py`): a token is what Google makes
  of it, and its encoding is undone before use. With a key that has changed, the load
  raises: the fetch fails as if Google had refused.
- The loaders of `parser_routes.yaml` and `card_companies.yaml`: nothing in the
  program calls them.
- Confidence, note and `learned_from` of transactions and aliases: written once, read
  by nothing that decides anything. Masking and the wording of prompts.
- Fields of a parsed event other than what matching reads.
- The dates of a sync (`since`, `until`): `EmailFetch` and `Mailbook` take all
  messages as matching the query. A sync asked for other dates does not see a
  message, and nothing else in the code does either.
- The paged lists: reads of a moving table that promise nothing.
- Single-stage requests beside the sync in `Mailbook`; beside each other they are in
  `Reconcile`, `ParsePending` and `EmailFetch`.
- Users: every query has the one `OWNER_USER_ID`.
- Exceptions of a rollback itself are the `Propagate` of the sync request;
  a lost connection to PostgreSQL is an `Abort`.
