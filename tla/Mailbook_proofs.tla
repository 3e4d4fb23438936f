-------------------------- MODULE Mailbook_proofs ---------------------------
(***************************************************************************)
(* A sync from the mailbox to the ledger, for any number of messages, any  *)
(* limit and whatever fails: its parse step is ParsePending and its match  *)
(* and solo steps are Reconcile, so what is proved of the two stages holds *)
(* of the whole; and a sync in which nothing fails books no half of a      *)
(* payment alone.                                                          *)
(*                                                                         *)
(* PP and RP are the stages Parse and Book again, with their proofs.       *)
(***************************************************************************)
EXTENDS Mailbook, TLAPS

PP == INSTANCE ParsePending_proofs WITH
  Email <- Message, Mail <- {c.mail : c \in Content}, Session <- {Sync},
  Exclusive <- FALSE, Faults <- TRUE,
  lock <- mailLock, pc <- at, batch <- pending, cur <- reading

RP == INSTANCE Reconcile_exclusive_proofs WITH
  Event <- Message, Payment <- {c.pays : c \in Content}, Session <- {Sync},
  Exclusive <- TRUE, Faults <- {"sync"}, row <- Row

\* The assumptions of the two stages, as those of the mailbox grant them.
LEMMA Assumptions ==
  /\ PP!MailAssumption /\ PP!VerdictAssumption
  /\ RP!ReconcileAssumption /\ RP!RatioAssumption
BY MailboxAssumption, RatioAssumption DEF Parse!Verdict, PP!Verdict, RP!EventType, Book!EventType

\* ParsePending and the module of its proofs name the same actions.
LEMMA SameParsing ==
  /\ Parse!Init <=> PP!Init
  /\ Parse!TypeOK <=> PP!TypeOK
  /\ Parse!vars = PP!vars /\ Parse!Key = PP!Key
  /\ \A k \in PP!Key : Parse!Expire(k) <=> PP!Expire(k)
  /\ \A E \in SUBSET Message : Parse!Arrive(E) <=> PP!Arrive(E)
  /\ \A s \in {Sync} : /\ Parse!StartParse(s) <=> PP!StartParse(s)
                       /\ Parse!Step(s) <=> PP!Step(s)
                       /\ Parse!Abort(s) <=> PP!Abort(s)
                       /\ Parse!FinishParse(s) <=> PP!FinishParse(s)
<1>1. Parse!Init <=> PP!Init
  BY DEF Parse!Init, PP!Init, Parse!Key, PP!Key, Parse!KeyOf, PP!KeyOf
<1>2. Parse!TypeOK <=> PP!TypeOK
  BY DEF Parse!TypeOK, PP!TypeOK, Parse!Status, PP!Status, Parse!Key, PP!Key, Parse!KeyOf,
         PP!KeyOf, Parse!Payload, PP!Payload, Parse!Label, PP!Label, Parse!Verdict, PP!Verdict
<1>3. Parse!vars = PP!vars /\ Parse!Key = PP!Key
  BY DEF Parse!vars, PP!vars, Parse!Key, PP!Key, Parse!KeyOf, PP!KeyOf
<1>4. \A k \in PP!Key : Parse!Expire(k) <=> PP!Expire(k)
  BY DEF Parse!Expire, PP!Expire, Parse!db, PP!db
<1>5. \A E \in SUBSET Message : Parse!Arrive(E) <=> PP!Arrive(E)
  BY DEF Parse!Arrive, PP!Arrive
<1>6. ASSUME NEW s \in {Sync}
      PROVE  /\ Parse!StartParse(s) <=> PP!StartParse(s)
             /\ Parse!Abort(s) <=> PP!Abort(s)
             /\ Parse!FinishParse(s) <=> PP!FinishParse(s)
  <2>1. Parse!StartParse(s) <=> PP!StartParse(s)
    BY DEF Parse!StartParse, PP!StartParse, Parse!Admit, PP!Admit, Parse!Idle, PP!Idle, Parse!Goto,
           PP!Goto, Parse!Cardinality, PP!Cardinality, Parse!ListPending, PP!ListPending,
           Parse!Pending, PP!Pending, Parse!db, PP!db
  <2>2. Parse!Abort(s) <=> PP!Abort(s)
    BY DEF Parse!Abort, PP!Abort, Parse!Idle, PP!Idle, Parse!Rollback, PP!Rollback, Parse!Goto,
           PP!Goto, Parse!Deadlocked, PP!Deadlocked, Parse!WaitsFor, PP!WaitsFor
  <2>3. Parse!FinishParse(s) <=> PP!FinishParse(s)
    BY DEF Parse!FinishParse, PP!FinishParse, Parse!Goto, PP!Goto
  <2>4. QED
    BY <2>1, <2>2, <2>3
<1>7. ASSUME NEW s \in {Sync} PROVE Parse!Step(s) <=> PP!Step(s)
  BY DEF Parse!Step, PP!Step, Parse!SkipEmpty, PP!SkipEmpty, Parse!ParseByRule, PP!ParseByRule,
         Parse!FallBack, PP!FallBack, Parse!CacheHit, PP!CacheHit, Parse!CacheMiss, PP!CacheMiss,
         Parse!LlmAnswers, PP!LlmAnswers, Parse!WriteCache, PP!WriteCache, Parse!LlmFails,
         PP!LlmFails, Parse!AlreadySo,
         PP!AlreadySo, Parse!GetRow, PP!GetRow, Parse!UpdateStatus, PP!UpdateStatus,
         Parse!SaveEvent, PP!SaveEvent, Parse!SaveRaises, PP!SaveRaises, Parse!FinishParse,
         PP!FinishParse, Parse!Goto, PP!Goto, Parse!Give, PP!Give, Parse!Take, PP!Take,
         Parse!Parsed, PP!Parsed, Parse!Failed, PP!Failed, Parse!Judge, PP!Judge, Parse!CacheKey,
         PP!CacheKey, Parse!KeyOf, PP!KeyOf, Parse!AfterStatus, PP!AfterStatus,
         Parse!NextEmail, PP!NextEmail,
         Parse!Rollback, PP!Rollback, Parse!db, PP!db
<1>8. QED
  BY <1>1, <1>2, <1>3, <1>4, <1>5, <1>6, <1>7

\* Reconcile and the module of its proofs name the same actions.
LEMMA SameBooking ==
  /\ Book!Init <=> RP!Init
  /\ Book!TypeOK <=> RP!TypeOK
  /\ Book!vars = RP!vars
  /\ Book!Tick <=> RP!Tick
  /\ \A E \in SUBSET Message : Book!Arrive(E) <=> RP!Arrive(E)
  /\ \A s \in {Sync} : /\ \A j \in RP!Job : /\ Book!StartMatch(s, j) <=> RP!StartMatch(s, j)
                                            /\ Book!StartSolo(s, j) <=> RP!StartSolo(s, j)
                       /\ Book!Step(s) <=> RP!Step(s)
                       /\ Book!Abort(s) <=> RP!Abort(s)
                       /\ Book!Crash(s) <=> RP!Crash(s)
                       /\ Book!FinishMatch(s) <=> RP!FinishMatch(s)
                       /\ Book!FinishSolo(s) <=> RP!FinishSolo(s)
                       /\ Book!Consumed(s) = RP!Consumed(s)
<1>1. (Book!Init <=> RP!Init) /\ Book!vars = RP!vars
  BY DEF Book!Init, RP!Init, Book!vars, RP!vars
<1>2. Book!TypeOK <=> RP!TypeOK
  BY DEF Book!TypeOK, RP!TypeOK, Book!Method, RP!Method, Book!Job, RP!Job, Book!Label, RP!Label
<1> USE DEF Book!db, RP!db, Book!ask, RP!ask, Book!stmt, RP!stmt, Book!Goto, RP!Goto,
            Book!End, RP!End, Book!Begin, RP!Begin, Book!Idle, RP!Idle
<1>3. Book!Tick <=> RP!Tick
  BY DEF Book!Tick, RP!Tick
<1>4. \A E \in SUBSET Message : Book!Arrive(E) <=> RP!Arrive(E)
  BY DEF Book!Arrive, RP!Arrive
<1> USE DEF Book!Admit, RP!Admit, Book!FirstOf, RP!FirstOf, Book!Unmatched, RP!Unmatched,
            Book!Cardinality, RP!Cardinality, Book!Visible, RP!Visible, Book!Consumed, RP!Consumed
<1>5. ASSUME NEW s \in {Sync}, NEW j \in RP!Job
      PROVE  /\ Book!StartMatch(s, j) <=> RP!StartMatch(s, j)
             /\ Book!StartSolo(s, j) <=> RP!StartSolo(s, j)
  BY DEF Book!StartMatch, RP!StartMatch, Book!StartSolo, RP!StartSolo, Book!OlderThan24h,
         RP!OlderThan24h, Book!SOLO_TIMEOUT, RP!SOLO_TIMEOUT
<1>6. ASSUME NEW s \in {Sync}
      PROVE  /\ Book!Abort(s) <=> RP!Abort(s)
             /\ Book!Crash(s) <=> RP!Crash(s)
  BY DEF Book!Abort, RP!Abort, Book!Crash, RP!Crash, Book!Rollback, RP!Rollback,
         Book!Deadlocked, RP!Deadlocked, Book!WaitsFor, RP!WaitsFor, Book!Blocked, RP!Blocked
<1>7. ASSUME NEW s \in {Sync}
      PROVE  /\ Book!FinishMatch(s) <=> RP!FinishMatch(s)
             /\ Book!FinishSolo(s) <=> RP!FinishSolo(s)
             /\ Book!Consumed(s) = RP!Consumed(s)
  BY DEF Book!FinishMatch, RP!FinishMatch, Book!FinishSolo, RP!FinishSolo, Book!Commit, RP!Commit
<1>8. ASSUME NEW s \in {Sync} PROVE Book!Step(s) <=> RP!Step(s)
  BY DEF Book!Step, RP!Step, Book!AlreadyConsumed, RP!AlreadyConsumed, Book!NoCandidate,
         RP!NoCandidate, Book!AskLlm, RP!AskLlm, Book!MatchByRules, RP!MatchByRules,
         Book!LlmAnswers,
         RP!LlmAnswers, Book!Assign, RP!Assign, Book!FinishMatch, RP!FinishMatch, Book!StartSolo,
         RP!StartSolo, Book!CreateSolo, RP!CreateSolo, Book!FinishSolo, RP!FinishSolo,
         Book!Commit, RP!Commit, Book!OlderThan24h, RP!OlderThan24h, Book!SOLO_TIMEOUT,
         RP!SOLO_TIMEOUT, Book!Take, RP!Take, Book!NextIn, RP!NextIn, Book!CandidatesOf,
         RP!CandidatesOf, Book!Insert, RP!Insert, Book!NextId, RP!NextId,
         Book!Compatible, RP!Compatible, Book!Opposite, RP!Opposite, Book!SyncChoice,
         RP!SyncChoice, Book!NeedsLlm, RP!NeedsLlm, Book!LlmChoice, RP!LlmChoice,
         Book!Narrowed, RP!Narrowed, Book!SameCard, RP!SameCard, Book!Passing, RP!Passing,
         Book!TIME_WINDOW_MINUTES, RP!TIME_WINDOW_MINUTES, Book!FUZZY_THRESHOLD,
         RP!FUZZY_THRESHOLD
<1>9. QED
  BY <1>1, <1>2, <1>3, <1>4, <1>5, <1>6, <1>7, <1>8

-----------------------------------------------------------------------------
(***************************************************************************)
(* Step 2 of the sync is ParsePending: the fetch commits arrivals, and     *)
(* nothing else of the sync touches what the parse pass works on.          *)
(***************************************************************************)

\* The rows of emails are copies of what is in the mailbox.
Copies ==
  /\ mailbox \in [Message -> Content \cup {None}]
  /\ \A m \in Message : mail[m] # None => mailbox[m] # None /\ mail[m] = mailbox[m].mail

\* A commit of the fetch adds the rows of the messages it has read.
LEMMA FetchArrives ==
  ASSUME Copies, PP!TypeOK, FetchCommits
  PROVE  [PP!Next]_(PP!vars)
<1>1. PICK M \in SUBSET Delivered :
        /\ mail' = [m \in Message |-> IF m \in M THEN mailbox[m].mail ELSE mail[m]]
        /\ status' = [m \in Message |->
                        IF m \in M /\ mail[m] = None THEN "pending" ELSE status[m]]
  BY DEF FetchCommits
<1>2. M \subseteq Message /\ \A m \in M : mailbox[m] \in Content
  BY DEF Delivered, Copies
<1>3. UNCHANGED <<event, mailLock, wstatus, inserting, wevent, cache, at, pending, reading,
                  verdict>>
  BY DEF FetchCommits
<1>4. PICK E \in SUBSET Message : E = {m \in M : mail[m] = None}
  BY <1>2
<1>5. CASE E = {}
  <2>1. mail' = mail
    BY <1>1, <1>2, <1>4, <1>5 DEF Copies, PP!TypeOK
  <2>2. status' = status
    BY <1>1, <1>4, <1>5 DEF PP!TypeOK
  <2>3. QED
    BY <1>3, <2>1, <2>2 DEF PP!vars
<1>6. CASE E # {}
  <2>1. PICK new \in [E -> {c.mail : c \in Content}] : \A m \in E : new[m] = mailbox[m].mail
    <3>1. [m \in E |-> mailbox[m].mail] \in [E -> {c.mail : c \in Content}]
      BY <1>2, <1>4
    <3>2. QED
      BY <3>1
  <2>2. mail' = [m \in Message |-> IF m \in E THEN new[m] ELSE mail[m]]
    BY <1>1, <1>2, <1>4, <2>1 DEF Copies
  <2>3. status' = [m \in Message |-> IF m \in E THEN "pending" ELSE status[m]]
    BY <1>1, <1>4
  <2>4. PP!Arrive(E)
    BY <1>3, <1>4, <2>1, <2>2, <2>3 DEF PP!Arrive
  <2>5. E \in (SUBSET Message) \ {{}}
    BY <1>4, <1>6, Zenon
  <2>6. PP!Next
    BY <2>4, <2>5, Zenon DEF PP!Next
  <2>7. QED
    BY <2>6
<1>7. QED
  BY <1>5, <1>6

\* A step of the whole is a step of the parse stage, or leaves it alone.
LEMMA ParseStep ==
  ASSUME Copies, PP!TypeOK, [Next]_vars
  PROVE  [PP!Next]_(PP!vars)
<1>1. CASE UNCHANGED parseVars
  BY <1>1 DEF parseVars, PP!vars
<1>2. CASE Forget
  BY <1>2, SameParsing DEF Forget, PP!Next
<1>3. CASE FetchCommits
  BY <1>3, FetchArrives
<1>4. CASE SyncParses
  BY <1>4, SameParsing DEF SyncParses, PP!Next
<1>5. CASE Crash
  BY <1>1, <1>5, SameParsing DEF Crash, PP!Next
<1>6. QED
  BY <1>1, <1>2, <1>3, <1>4, <1>5
     DEF Next, Deliver, Tick, StartSync, FetchFails, SyncBooks, vars

\* The rows stay copies: messages come in but once, and only the fetch writes rows.
LEMMA CopiesInductive ==
  ASSUME Copies, PP!TypeOK, [Next]_vars
  PROVE  Copies'
<1>1. CASE UNCHANGED <<mailbox, mail>>
  BY <1>1 DEF Copies
<1>2. ASSUME NEW m \in Message, NEW c \in Content, Deliver(m, c) PROVE Copies'
  BY <1>2 DEF Deliver, parseVars, Copies
<1>3. CASE FetchCommits
  <2>1. PICK M \in SUBSET Delivered :
          mail' = [m \in Message |-> IF m \in M THEN mailbox[m].mail ELSE mail[m]]
    BY <1>3 DEF FetchCommits
  <2>2. mailbox' = mailbox
    BY <1>3 DEF FetchCommits
  <2>3. QED
    BY <2>1, <2>2 DEF Copies, Delivered
<1>4. CASE SyncParses \/ Crash
  <2>1. mailbox' = mailbox
    BY <1>4 DEF SyncParses, Crash
  <2>2. mail' = mail
    BY <1>4, SameParsing, Assumptions, PP!OnlyFinishPublishes DEF SyncParses, Crash, parseVars
  <2>3. QED
    BY <1>1, <2>1, <2>2
<1>5. CASE Forget
  BY <1>1, <1>5, SameParsing DEF Forget, PP!Expire, PP!db
<1>6. QED
  BY <1>1, <1>2, <1>3, <1>4, <1>5
     DEF Next, Tick, StartSync, FetchFails, SyncBooks, vars, parseVars

\* An empty mailbox has nothing to copy, and the parse stage begins as it does alone.
LEMMA InitParsing == Init => Copies /\ PP!Init
BY SameParsing DEF Init, Copies, PP!Init

\* The parse stage of a sync does what ParsePending does.
LEMMA Parsing == Spec => PP!Spec /\ []Copies
<1>1. PP!Init => PP!TypeOK /\ PP!Known
  BY Assumptions, PP!InitTypeOK
<1>2. Copies /\ PP!TypeOK /\ [Next]_vars => [PP!Next]_(PP!vars) /\ Copies'
  BY ParseStep, CopiesInductive
<1>3. PP!TypeOK /\ PP!Known /\ [PP!Next]_(PP!vars) => PP!TypeOK' /\ PP!Known'
  BY Assumptions, PP!TypeInductive
<1>4. QED
  BY <1>1, <1>2, <1>3, InitParsing, PTL DEF Spec, PP!Spec

\* A sync's parse step and the fetch before it are a behaviour of ParsePending.
THEOREM RunsParsePending == Spec => Parse!Spec
<1>1. PP!Next => Parse!Next
  <2>1. \A E \in (SUBSET Message) \ {{}} : PP!Arrive(E) => Parse!Arrive(E)
    BY SameParsing
  <2>2. \A k \in PP!Key : k \in Parse!Key /\ (PP!Expire(k) => Parse!Expire(k))
    BY SameParsing
  <2>3. \A s \in {Sync} : PP!StartParse(s) \/ PP!Step(s) \/ PP!Abort(s)
                         => Parse!StartParse(s) \/ Parse!Step(s) \/ Parse!Abort(s)
    BY SameParsing
  <2>4. QED
    BY <2>1, <2>2, <2>3, Zenon DEF PP!Next, Parse!Next
<1>2. PP!Init => Parse!Init
  BY SameParsing
<1>3. [PP!Next]_(PP!vars) => [Parse!Next]_(Parse!vars)
  BY <1>1 DEF PP!vars, Parse!vars
<1>4. QED
  BY <1>2, <1>3, Parsing, PTL DEF PP!Spec, Parse!Spec

-----------------------------------------------------------------------------
(***************************************************************************)
(* Steps 3 and 4 are Reconcile, with the commit of the parse step as the   *)
(* arrival of the rows it has made.                                        *)
(***************************************************************************)

\* No mail tells of a payment to come, and the rows of events come and go with the
\* stage that may write to them.
Past   == \A m \in Message : mailbox[m] # None => mailbox[m].pays.paidAt <= now
Staged == /\ stage \in {"idle", "fetch", "parse", "book"}
          /\ stage # "parse" => at[Sync] = "idle"
          /\ stage # "book" => pc[Sync] = "idle"

\* An event holds the payment of a message in the mailbox.
RowsSound ==
  \A m \in Message : event[m] # None => /\ event[m] \in Message /\ mailbox[event[m]] \in Content
                                        /\ Row[m] = mailbox[event[m]].pays

\* The messages events are about have been fetched, and what is fetched is in the mailbox.
LEMMA Rows == Copies /\ PP!TypeOK /\ PP!Fetched => RowsSound
<1> SUFFICES ASSUME Copies, PP!TypeOK, PP!Fetched, NEW m \in Message, event[m] # None
             PROVE  /\ event[m] \in Message /\ mailbox[event[m]] \in Content
                    /\ Row[m] = mailbox[event[m]].pays
  BY DEF RowsSound
<1>1. event[m] \in Message /\ mail[event[m]] # None
  BY DEF PP!TypeOK, PP!Fetched
<1>2. mailbox[event[m]] \in Content
  BY <1>1 DEF Copies
<1>3. QED
  BY <1>1, <1>2 DEF Row

\* A message that comes in is one no event is about yet.
LEMMA DeliverKeepsRows ==
  ASSUME Copies, PP!TypeOK, PP!Fetched, NEW m \in Message, NEW c \in Content, Deliver(m, c)
  PROVE  Row' = Row
<1>1. \A e \in Message : event[e] # None => event[e] # m
  BY DEF Deliver, Copies, PP!TypeOK, PP!Fetched
<1>2. event' = event /\ \A e \in Message : e # m => mailbox'[e] = mailbox[e]
  BY DEF Deliver, parseVars, Copies
<1>3. QED
  BY <1>1, <1>2 DEF Row, PP!TypeOK

\* A commit of the parse step is an arrival of the rows it publishes.
LEMMA ParsedArrive ==
  ASSUME Copies, Copies', Past, PP!TypeOK, PP!TypeOK', PP!IInv, PP!Fetched, PP!Fetched', Staged,
         stage = "parse", PP!FinishParse(Sync), UNCHANGED <<mailbox, bookVars>>
  PROVE  [RP!Next]_(RP!vars)
<1>1. PICK E \in SUBSET Message : E = {m \in Message : event[m] = None /\ event'[m] # None}
  OBVIOUS
<1>2. \A m \in Message : event[m] # None => event'[m] = event[m]
  BY Assumptions, PP!FinishKeepsEvents
<1>3. \A m \in Message \ E : Row'[m] = Row[m]
  BY <1>1, <1>2 DEF Row
<1>4. \A m \in E : /\ Row[m] = None /\ Row'[m] \in {c.pays : c \in Content}
                   /\ Row'[m].paidAt <= now
  <2> SUFFICES ASSUME NEW m \in E
               PROVE  /\ Row[m] = None /\ Row'[m] \in {c.pays : c \in Content}
                      /\ Row'[m].paidAt <= now
    OBVIOUS
  <2>1. Row[m] = None
    BY <1>1 DEF Row
  <2>2. /\ event'[m] \in Message /\ mailbox'[event'[m]] \in Content
        /\ Row'[m] = mailbox'[event'[m]].pays
    <3>1. RowsSound'
      BY Rows, PTL
    <3>2. QED
      BY <1>1, <3>1 DEF RowsSound
  <2>3. mailbox[event'[m]] \in Content /\ Row'[m] = mailbox[event'[m]].pays
    BY <2>2
  <2>4. mailbox[event'[m]] # None
    BY <2>3, MailboxAssumption
  <2>5. QED
    BY <2>1, <2>2, <2>3, <2>4 DEF Past
<1>5. PICK new \in [E -> {c.pays : c \in Content}] : \A m \in E : new[m] = Row'[m]
  <2>1. [m \in E |-> Row'[m]] \in [E -> {c.pays : c \in Content}]
    BY <1>4
  <2>2. QED
    BY <2>1
<1>6. Row' = [m \in Message |-> IF m \in E THEN new[m] ELSE Row[m]]
  <2>1. \A m \in Message : Row'[m] = IF m \in E THEN new[m] ELSE Row[m]
    BY <1>3, <1>5
  <2>2. Row' = [m \in Message |-> Row'[m]]
    BY DEF Row
  <2>3. QED
    BY <2>1, <2>2
<1>7. RP!Arrive(E)
  BY <1>4, <1>5, <1>6 DEF Staged, RP!Arrive, RP!Idle, RP!ask, RP!stmt, bookVars
<1>8. CASE E = {}
  <2>1. Row' = Row
    <3>1. \A m \in Message : Row'[m] = Row[m]
      BY <1>3, <1>8
    <3>2. QED
      BY <3>1 DEF Row
  <2>2. QED
    BY <2>1 DEF bookVars, RP!vars
<1>9. CASE E # {}
  <2>1. E \in (SUBSET Message) \ {{}}
    BY <1>1, <1>9, Zenon
  <2>2. RP!Next
    BY <1>7, <2>1, Zenon DEF RP!Next
  <2>3. QED
    BY <2>2
<1>10. QED
  BY <1>8, <1>9

\* A step of the whole is a step of the match and solo stage, or leaves it alone.
LEMMA BookStep ==
  ASSUME Copies, Copies', Past, PP!TypeOK, PP!TypeOK', PP!IInv, PP!Fetched, PP!Fetched', Staged,
         [Next]_vars
  PROVE  [RP!Next]_(RP!vars)
<1>1. CASE UNCHANGED bookVars /\ Row' = Row
  BY <1>1 DEF bookVars, RP!vars
<1>2. ASSUME NEW m \in Message, NEW c \in Content, Deliver(m, c) PROVE [RP!Next]_(RP!vars)
  BY <1>1, <1>2, DeliverKeepsRows DEF Deliver
<1>3. CASE Tick
  BY <1>3, SameBooking DEF Tick, RP!Next
<1>4. CASE StartSync \/ FetchCommits \/ FetchFails \/ Forget \/ UNCHANGED vars
  <2>1. UNCHANGED <<mailbox, event, bookVars>>
    BY <1>4, SameParsing DEF StartSync, FetchCommits, FetchFails, Forget, PP!Expire, PP!db,
                             parseVars, vars
  <2>2. QED
    BY <1>1, <2>1 DEF Row
<1>5. CASE SyncParses
  <2>1. CASE PP!FinishParse(Sync)
    BY <1>5, <2>1, ParsedArrive DEF SyncParses
  <2>2. CASE ~PP!FinishParse(Sync)
    <3>1. event' = event
      BY <1>5, <2>2, SameParsing, Assumptions, PP!OnlyFinishPublishes DEF SyncParses
    <3>2. QED
      BY <1>1, <1>5, <3>1 DEF Row, SyncParses
  <2>3. QED
    BY <2>1, <2>2
<1>6. CASE SyncBooks
  <2>1. "sync" \in {"match", "sync"} /\ "sync" \in RP!Job /\ Sync \in {Sync}
    BY DEF RP!Job
  <2>2. RP!StartMatch(Sync, "sync") \/ RP!Step(Sync) \/ RP!Abort(Sync)
    BY <1>6, <2>1, SameBooking DEF SyncBooks
  <2>3. RP!Next
    BY <2>1, <2>2, Zenon DEF RP!Next
  <2>4. QED
    BY <2>3
<1>7. CASE Crash
  <2>1. event' = event /\ mailbox' = mailbox
    BY <1>7, SameParsing DEF Crash, PP!Abort, PP!Rollback, parseVars
  <2>2. CASE Book!Crash(Sync)
    BY <2>2, SameBooking DEF RP!Next
  <2>3. CASE UNCHANGED bookVars
    BY <1>1, <2>1, <2>3 DEF Row
  <2>4. QED
    BY <1>7, <2>2, <2>3 DEF Crash
<1>8. QED
  BY <1>2, <1>3, <1>4, <1>5, <1>6, <1>7 DEF Next

\* A pass of either kind is under way in its own stage only, and time only grows.
LEMMA StagedInductive ==
  ASSUME Copies, Past, Staged, PP!TypeOK, RP!TypeOK, RP!TypeOK', [Next]_vars
  PROVE  Past' /\ Staged'
<1>1. ASSUME UNCHANGED <<mailbox, now>> PROVE Past'
  BY <1>1 DEF Past
<1>2. ASSUME UNCHANGED <<stage, at, pc>> PROVE Staged'
  BY <1>2 DEF Staged
<1>3. ASSUME NEW m \in Message, NEW c \in Content, Deliver(m, c) PROVE Past' /\ Staged'
  <2>1. UNCHANGED <<stage, at, pc>>
    BY <1>3 DEF Deliver, request, parseVars, bookVars
  <2>2. Past'
    BY <1>3 DEF Deliver, bookVars, Past, Copies
  <2>3. QED
    BY <1>2, <2>1, <2>2
<1>4. CASE Tick
  <2>1. UNCHANGED <<stage, at, pc, mailbox>>
    BY <1>4, SameBooking DEF Tick, RP!Tick, request, parseVars
  <2>2. now \in Int /\ now' \in Int /\ now <= now'
    BY <1>4, SameBooking, Assumptions DEF Tick, RP!Tick, RP!ReconcileAssumption, RP!TypeOK
  <2>3. \A m \in Message : mailbox[m] # None => mailbox[m].pays.paidAt \in Int
    BY Assumptions DEF RP!ReconcileAssumption, Copies
  <2>4. QED
    BY <1>2, <2>1, <2>2, <2>3 DEF Past
<1>5. CASE StartSync \/ FetchCommits \/ FetchFails
  <2>1. UNCHANGED <<mailbox, now, at, pc>> /\ stage' \in {"fetch", "parse"}
    BY <1>5 DEF StartSync, FetchCommits, FetchFails, After, parseVars, bookVars
  <2>2. stage \in {"idle", "fetch"}
    BY <1>5 DEF StartSync, FetchCommits, FetchFails
  <2>3. QED
    BY <1>1, <2>1, <2>2 DEF Staged
<1>6. CASE SyncParses
  <2>1. UNCHANGED <<mailbox, now, pc>> /\ stage = "parse"
    BY <1>6 DEF SyncParses, bookVars
  <2>2. IF at'[Sync] = "idle" THEN stage' = "book" ELSE stage' = "parse"
    BY <1>6, <2>1 DEF SyncParses, After, request
  <2>3. QED
    BY <1>1, <2>1, <2>2 DEF Staged
<1>7. CASE SyncBooks
  <2>1. UNCHANGED <<mailbox, at>> /\ stage = "book"
    BY <1>7 DEF SyncBooks, parseVars
  <2>2. now' = now
    BY <1>7, SameBooking, Assumptions, RP!RequestsKeepRows DEF SyncBooks, RP!Job
  <2>3. stage' = IF pc'[Sync] = "idle" THEN "idle" ELSE "book"
    BY <1>7, <2>1 DEF SyncBooks, After
  <2>4. QED
    BY <1>1, <2>1, <2>2, <2>3 DEF Staged
<1>8. CASE Crash
  <2>1. mailbox' = mailbox /\ stage' = "idle"
    BY <1>8 DEF Crash
  <2>2. now' = now /\ pc'[Sync] = "idle"
    BY <1>8, SameBooking DEF Crash, RP!Crash, RP!Rollback, RP!End, RP!TypeOK, bookVars, Book!Idle
  <2>3. at'[Sync] = "idle"
    BY <1>8, SameParsing DEF Crash, PP!Abort, PP!Rollback, PP!Goto, PP!TypeOK, parseVars, Parse!Idle
  <2>4. QED
    BY <1>1, <2>1, <2>2, <2>3 DEF Staged
<1>9. CASE Forget \/ UNCHANGED vars
  <2>1. UNCHANGED <<mailbox, now, stage, at, pc>>
    BY <1>9, SameParsing DEF Forget, PP!Expire, vars, request, parseVars, bookVars
  <2>2. QED
    BY <1>1, <1>2, <2>1
<1>10. QED
  BY <1>3, <1>4, <1>5, <1>6, <1>7, <1>8, <1>9 DEF Next

\* Before the first sync nothing is under way, and there are no rows of events.
LEMMA InitBooking == Init => Past /\ Staged /\ RP!Init
BY SameBooking, SameParsing, MailboxAssumption DEF Init, Past, Staged, RP!Init, PP!Init

\* The match and solo stage of a sync does what Reconcile does for one session.
LEMMA Booking == Spec => RP!Spec /\ []Past /\ []Staged
<1>1. RP!Init => RP!TypeOK
  BY Assumptions, RP!InitTypeOK
<1>2. PP!Spec => []PP!TypeOK
  BY Assumptions, PP!TypeCorrect
<1>3. PP!Spec => []PP!IInv
  BY Assumptions, PP!Invariance
<1>4. PP!Spec => []PP!Fetched
  BY Assumptions, PP!AlwaysFetched
<1>5. Copies /\ Copies' /\ PP!TypeOK /\ PP!TypeOK' /\ PP!IInv /\ PP!Fetched /\ PP!Fetched'
        /\ Past /\ Staged /\ [Next]_vars => [RP!Next]_(RP!vars)
  BY BookStep
<1>6. Copies /\ PP!TypeOK /\ Past /\ Staged /\ RP!TypeOK /\ RP!TypeOK' /\ [Next]_vars
        => Past' /\ Staged'
  BY StagedInductive
<1>7. RP!TypeOK /\ [RP!Next]_(RP!vars) => RP!TypeOK'
  BY Assumptions, RP!TypeInductive
<1>8. QED
  BY <1>1, <1>2, <1>3, <1>4, <1>5, <1>6, <1>7, InitBooking, Parsing, PTL DEF Spec, RP!Spec

\* The match and solo steps of a sync are a behaviour of Reconcile.
THEOREM RunsReconcile == Spec => Book!Spec
<1>1. RP!Next => Book!Next
  <2>1. \A E \in (SUBSET Message) \ {{}} : RP!Arrive(E) => Book!Arrive(E)
    BY SameBooking
  <2>2. \A j \in {"match", "solo", "force", "sync"} : j \in RP!Job
    BY DEF RP!Job
  <2>3. \A s \in {Sync}, j \in {"match", "sync"} : RP!StartMatch(s, j) => Book!StartMatch(s, j)
    BY <2>2, SameBooking
  <2>4. \A s \in {Sync}, j \in {"solo", "force"} : RP!StartSolo(s, j) => Book!StartSolo(s, j)
    BY <2>2, SameBooking
  <2>5. \A s \in {Sync} : /\ RP!Step(s) => Book!Step(s)
                          /\ RP!Abort(s) \/ RP!Crash(s) => Book!Abort(s) \/ Book!Crash(s)
    BY SameBooking
  <2>6. RP!Tick => Book!Tick
    BY SameBooking
  <2>7. QED
    BY <2>1, <2>3, <2>4, <2>5, <2>6, Zenon DEF RP!Next, Book!Next
<1>2. RP!Init => Book!Init
  BY SameBooking
<1>3. [RP!Next]_(RP!vars) => [Book!Next]_(Book!vars)
  BY <1>1 DEF RP!vars, Book!vars
<1>4. QED
  BY <1>2, <1>3, Booking, PTL DEF RP!Spec, Book!Spec

-----------------------------------------------------------------------------
(* What holds of the whole.                                                *)

\* A sync knows only of messages that are there.
Known == due \subseteq Delivered /\ failed \in BOOLEAN

\* Messages stay in the mailbox, and a sync only ever drops some of those it began with.
LEMMA KnownInductive ==
  ASSUME Copies, Known, [Next]_vars
  PROVE  Known'
<1>1. Delivered \subseteq Delivered'
  <2>1. ASSUME NEW m \in Message, NEW c \in Content, Deliver(m, c)
        PROVE  Delivered \subseteq Delivered'
    BY <2>1 DEF Deliver, Delivered, Copies
  <2>2. CASE mailbox' = mailbox
    BY <2>2 DEF Delivered
  <2>3. QED
    BY <2>1, <2>2 DEF Next, Tick, StartSync, FetchCommits, FetchFails, SyncParses, SyncBooks, Crash,
                      Forget, vars
<1>2. due' \subseteq Delivered
  BY DEF Known, Next, Deliver, Tick, StartSync, FetchCommits, FetchFails, SyncParses, SyncBooks,
         Crash,
         Forget, vars, request
<1>3. failed' \in BOOLEAN
  <2>1. CASE SyncParses
    BY <2>1, Zenon DEF Known, SyncParses, request
  <2>2. CASE SyncBooks
    BY <2>2, Zenon DEF Known, SyncBooks
  <2>3. CASE FetchCommits
    BY <2>3 DEF Known, FetchCommits
  <2>4. QED
    BY <2>1, <2>2, <2>3
       DEF Known, Next, Deliver, Tick, StartSync, FetchFails, Crash, Forget, vars, request
<1>4. QED
  BY <1>1, <1>2, <1>3 DEF Known

\* A sync is in one stage at a time, each stage of it keeps its types, and it is about
\* messages that are there.
THEOREM TypeCorrect == Spec => []TypeOK
<1>1. Init => Known
  BY DEF Init, Known
<1>2. Copies /\ Known /\ [Next]_vars => Known'
  BY KnownInductive
<1>3. PP!Spec => []PP!TypeOK
  BY Assumptions, PP!TypeCorrect
<1>4. RP!Spec => []RP!TypeOK
  BY Assumptions, RP!TypeCorrect
<1>5. Copies /\ Known /\ Staged /\ PP!TypeOK /\ RP!TypeOK => TypeOK
  BY SameParsing, SameBooking DEF Copies, Known, Staged, TypeOK
<1>6. QED
  BY <1>1, <1>2, <1>3, <1>4, <1>5, Parsing, Booking, PTL DEF Spec

\* From the mailbox to the ledger, whatever fails on the way: what is booked is booked
\* from its own events, and no event is counted twice.
THEOREM LedgerSound == Spec => [](Book!BookedConsistently /\ Book!EveryTransactionCounts)
<1>1. RP!Spec => []RP!BookedConsistently
  BY Assumptions, RP!Consistency
<1>2. RP!Spec => []RP!EveryTransactionCounts
  BY Assumptions, RP!NothingCountedTwice
<1>3. RP!BookedConsistently <=> Book!BookedConsistently
  BY DEF RP!BookedConsistently, Book!BookedConsistently, RP!Posted, Book!Posted, RP!Members,
         Book!Members, RP!Compatible, Book!Compatible, RP!Opposite, Book!Opposite,
         RP!TIME_WINDOW_MINUTES, Book!TIME_WINDOW_MINUTES
<1>4. RP!EveryTransactionCounts <=> Book!EveryTransactionCounts
  BY DEF RP!EveryTransactionCounts, Book!EveryTransactionCounts, RP!Posted, Book!Posted,
         RP!Members, Book!Members
<1>5. QED
  BY <1>1, <1>2, <1>3, <1>4, Booking, PTL

\* A half in the ledger is that of a message there is, and tells what a message tells:
\* that message, if its rule reads it, and otherwise that one or another with the same
\* sender, subject and first 4096 bytes of text that no rule reads either.
BookedAsTold ==
  \A m \in Message : txnOf[m] # None =>
    /\ mailbox[m] # None
    /\ mailbox[m].mail.rule = "ok" => Row[m] = mailbox[m].pays
    /\ \E n \in Delivered : Row[m] = mailbox[n].pays /\ Parse!MayTell(m, n)

\* BookedAsTold holds throughout, whatever the LLM and its cache have answered, whatever
\* has failed, crashed or been forgotten since: no payment enters the ledger that no mail
\* tells of, and none as another mail's beyond what the key of the cache lets through.
THEOREM BookedAsMailsTell == Spec => []BookedAsTold
<1>1. Copies /\ PP!TypeOK /\ PP!Fetched /\ PP!IInv /\ RP!TypeOK /\ RP!IInv => BookedAsTold
  <2> SUFFICES ASSUME Copies, PP!TypeOK, PP!Fetched, PP!IInv, RP!TypeOK, RP!IInv,
                      NEW m \in Message, txnOf[m] # None
               PROVE  /\ mailbox[m] # None
                      /\ mailbox[m].mail.rule = "ok" => Row[m] = mailbox[m].pays
                      /\ \E n \in Delivered : Row[m] = mailbox[n].pays /\ Parse!MayTell(m, n)
    BY DEF BookedAsTold
  <2>1. Row[m] # None
    <3>1. txnOf[m] \in Txn /\ RP!Tied(m, txnOf[m])
      BY DEF RP!TypeOK, RP!Tied
    <3>2. QED
      BY <3>1 DEF RP!IInv, RP!GroupsSound
  <2>2. event[m] # None
    BY <2>1 DEF Row
  <2>3. mail[m] # None /\ mailbox[m] # None /\ mail[m] = mailbox[m].mail
    BY <2>2 DEF PP!IInv, PP!Known, Copies
  <2>4. PP!MayTell(m, event[m])
    BY <2>2 DEF PP!IInv, PP!PayloadsShared
  <2>5. event[m] \in Delivered /\ Row[m] = mailbox[event[m]].pays
    BY <2>2, Rows DEF RowsSound, Delivered, PP!Fetched, Copies
  <2>6. mailbox[m].mail.rule = "ok" => event[m] = m
    BY <2>3, <2>4 DEF PP!MayTell, PP!Asked
  <2>7. Parse!MayTell(m, event[m])
    BY <2>4 DEF PP!MayTell, PP!Asked, PP!Alike,
                Parse!MayTell, Parse!Asked, Parse!Alike
  <2>8. QED
    BY <2>3, <2>5, <2>6, <2>7
<1>2. PP!Spec => []PP!TypeOK
  BY Assumptions, PP!TypeCorrect
<1>3. PP!Spec => []PP!IInv
  BY Assumptions, PP!Invariance
<1>4. PP!Spec => []PP!Fetched
  BY Assumptions, PP!AlwaysFetched
<1>5. RP!Spec => []RP!TypeOK
  BY Assumptions, RP!TypeCorrect
<1>6. RP!Spec => []RP!IInv
  BY Assumptions, RP!Invariance
<1>7. QED
  BY <1>1, <1>2, <1>3, <1>4, <1>5, <1>6, Parsing, Booking, PTL

\* To its owner, mailbook is the ledger of Ledger: mails come in, are fetched and parsed,
\* fail and are tried again, and each commit of the match and solo steps posts whole
\* payments and leaves what is posted as it is.
THEOREM ImplementsLedger == Spec => Book!ImplementsLedger
<1>1. RP!Spec => RP!ImplementsLedger
  BY Assumptions, RP!RefinesLedger
<1>2. RP!Abstract!Init <=> Book!Abstract!Init
  BY DEF RP!Abstract!Init, Book!Abstract!Init, RP!Posted, Book!Posted
<1>3. RP!Abstract!Next <=> Book!Abstract!Next
  BY DEF RP!Abstract!Next, Book!Abstract!Next, RP!Abstract!Arrive, Book!Abstract!Arrive,
         RP!Abstract!Post, Book!Abstract!Post, RP!Abstract!OnePayment, Book!Abstract!OnePayment,
         RP!Abstract!Method, Book!Abstract!Method, RP!Posted, Book!Posted,
         RP!Abstract!Compatible, Book!Abstract!Compatible, RP!Abstract!Opposite,
         Book!Abstract!Opposite, RP!Abstract!TIME_WINDOW_MINUTES, Book!Abstract!TIME_WINDOW_MINUTES
<1>4. [RP!Abstract!Next]_(RP!Abstract!vars) => [Book!Abstract!Next]_(Book!Abstract!vars)
  BY <1>3 DEF RP!Abstract!vars, Book!Abstract!vars, RP!Posted, Book!Posted
<1>5. QED
  BY <1>1, <1>2, <1>4, Booking, PTL
     DEF RP!ImplementsLedger, Book!ImplementsLedger, RP!Abstract!Spec, Book!Abstract!Spec

-----------------------------------------------------------------------------
(***************************************************************************)
(* NoHalfAlone.  A sync that has not failed enters the match pass with the *)
(* mails it began with parsed or given up on, takes in every unbooked row, *)
(* and leaves no unbooked pair to the solo pass.                           *)
(***************************************************************************)

\* The unbooked rows do not exceed the limit of a pass.
Waiting == {m \in Message : event[m] # None /\ txnOf[m] = None}
Fits == IsFiniteSet(Waiting) /\ Cardinality(Waiting) <= Limit

InHand ==
  /\ stage = "book" => \A m \in due : status[m] = "parsed"
  /\ pc[Sync] # "idle" => job[Sync] = "sync"
  /\ stage = "book" /\ ~failed => RP!Partners(Sync)

\* Rows come in with the commit of the parse step only.
LEMMA RowsKept ==
  ASSUME Copies, PP!TypeOK, PP!Fetched, stage = "book", [Next]_vars
  PROVE  Row' = Row
<1>1. ASSUME NEW m \in Message, NEW c \in Content, Deliver(m, c) PROVE Row' = Row
  BY <1>1, DeliverKeepsRows
<1>2. CASE Tick \/ SyncBooks \/ Forget \/ UNCHANGED vars
  <2>1. UNCHANGED <<mailbox, event>>
    BY <1>2, SameParsing DEF Tick, SyncBooks, Forget, PP!Expire, PP!db, parseVars, vars
  <2>2. QED
    BY <2>1 DEF Row
<1>3. CASE Crash
  <2>1. event' = event /\ mailbox' = mailbox
    BY <1>3, SameParsing DEF Crash, PP!Abort, PP!Rollback, parseVars
  <2>2. QED
    BY <2>1 DEF Row
<1>4. QED
  BY <1>1, <1>2, <1>3 DEF Next, StartSync, FetchCommits, FetchFails, SyncParses

\* The match and solo steps keep the unbooked pairs in hand as long as nothing fails.
LEMMA BooksInHand ==
  ASSUME RP!TypeOK, RP!TypeOK', RP!IInv, RP!EInv, RP!Fits, InHand, SyncBooks
  PROVE  InHand'
<1>1. "sync" \in RP!Job /\ Sync \in {Sync}
  BY DEF RP!Job
<1>2. RP!StartMatch(Sync, "sync") \/ RP!Step(Sync) \/ RP!Abort(Sync)
  BY <1>1, SameBooking DEF SyncBooks
<1>3. stage = "book" /\ UNCHANGED <<due, status>>
  BY DEF SyncBooks, parseVars
<1>4. pc'[Sync] # "idle" => job'[Sync] = "sync"
  <2>1. CASE RP!StartMatch(Sync, "sync")
    BY <2>1 DEF RP!StartMatch, RP!Begin, RP!TypeOK
  <2>2. CASE RP!Step(Sync) \/ RP!Abort(Sync)
    <3>1. pc[Sync] # "idle"
      BY <2>2 DEF RP!Step, RP!Abort, RP!Idle, RP!AlreadyConsumed, RP!NoCandidate, RP!AskLlm,
                  RP!MatchByRules, RP!Take, RP!LlmAnswers, RP!Assign, RP!FinishMatch, RP!StartSolo,
                  RP!CreateSolo, RP!FinishSolo
    <3>2. QED
      BY <1>1, <2>2, <3>1, Assumptions, RP!RequestsKeepJobs DEF InHand
  <2>3. QED
    BY <1>2, <2>1, <2>2
<1>5. ASSUME ~failed' PROVE RP!Partners(Sync)'
  <2>1. ~failed
    BY <1>5, Zenon DEF SyncBooks
  <2>2. RP!Abort(Sync) => RP!FinishMatch(Sync) \/ RP!FinishSolo(Sync)
    BY <1>1, <1>5, SameBooking, Zenon DEF SyncBooks
  <2>3. CASE RP!StartMatch(Sync, "sync")
    BY <1>1, <2>3, Assumptions, RP!StartMatchPartners
  <2>4. CASE RP!Step(Sync)
    BY <1>1, <1>3, <2>1, <2>4, Assumptions, RP!StepPartners DEF InHand
  <2>5. QED
    BY <1>2, <2>2, <2>3, <2>4 DEF RP!Step
<1>6. QED
  BY <1>3, <1>4, <1>5 DEF InHand

\* Every step of the whole keeps what is in hand, while the backlog fits.
LEMMA InHandInductive ==
  ASSUME Copies, PP!TypeOK, PP!Fetched, Staged, Staged', RP!TypeOK, RP!TypeOK', RP!IInv, RP!EInv,
         RP!Fits, InHand, [Next]_vars
  PROVE  InHand'
<1>1. CASE SyncBooks
  BY <1>1, BooksInHand
<1>2. CASE SyncParses
  <2>1. stage = "parse" /\ UNCHANGED <<pc, job>>
    BY <1>2 DEF SyncParses, bookVars
  <2>2. pc'[Sync] = "idle"
    BY <2>1 DEF Staged
  <2>3. stage' = "book" => \A m \in due' : status'[m] = "parsed"
    BY <1>2, <2>1 DEF SyncParses, request
  <2>4. RP!Partners(Sync)'
    BY <2>2 DEF RP!Partners
  <2>5. QED
    BY <2>2, <2>3, <2>4 DEF InHand
<1>3. CASE stage' # "book"
  <2>1. pc'[Sync] = "idle"
    BY <1>3 DEF Staged
  <2>2. QED
    BY <1>3, <2>1 DEF InHand
<1>4. CASE stage = "book" /\ stage' = "book" /\ ~SyncBooks /\ ~SyncParses
  <2>1. /\ UNCHANGED <<due, failed, status, txnOf, lock, pc, job, batch, src, todo>>
    BY <1>4, SameParsing, SameBooking
       DEF Next, Deliver, Tick, Forget, StartSync, FetchCommits, FetchFails, Crash,
           RP!Tick, RP!db, RP!ask, RP!stmt, PP!Expire, PP!db, request, parseVars, bookVars, vars
  <2>2. Row' = Row
    BY <1>4, RowsKept
  <2>3. RP!Partners(Sync) => RP!Partners(Sync)'
    BY <2>1, <2>2 DEF RP!Partners, RP!PairsInHand, RP!NoPairLeft, RP!Backlog, RP!Taken, RP!Consumed
  <2>4. QED
    BY <1>4, <2>1, <2>3 DEF InHand
<1>5. QED
  <2>1. stage' = "book" /\ stage # "book" => SyncParses
    BY DEF Next, Deliver, Tick, Forget, StartSync, FetchCommits, FetchFails, SyncBooks, Crash,
           After,
           request, vars
  <2>2. QED
    BY <1>1, <1>2, <1>3, <1>4, <2>1

\* A sync in which nothing fails books no half of a payment alone while the mail with
\* the other half was there when it began, when the limit of its passes covers the
\* unbooked rows and no two mails that the LLM is to read share a key of its cache:
\* whatever failed or crashed before, whatever the LLM answers, and whatever comes in
\* on the way.
THEOREM NoHalfIsAlone == Spec /\ []Fits /\ []PP!KeysApart => []NoHalfAlone
<1>1. PP!Spec /\ []PP!KeysApart => []PP!EventDescribesItsEmail
  BY Assumptions, PP!OwnWhereApart
<1>2. Fits /\ PP!TypeOK /\ PP!Fetched /\ Copies => RP!Fits
  <2> SUFFICES ASSUME Fits, PP!TypeOK, PP!Fetched, Copies PROVE RP!Fits
    OBVIOUS
  <2>1. RP!Backlog = Waiting
    <3>1. \A m \in Message : event[m] # None => Row[m] # None
      BY Rows, Assumptions DEF RowsSound, RP!ReconcileAssumption
    <3>2. \A m \in Message : event[m] = None => Row[m] = None
      BY DEF Row
    <3>3. QED
      BY <3>1, <3>2 DEF RP!Backlog, Waiting
  <2>2. QED
    BY <2>1 DEF Fits, RP!Fits, RP!Cardinality, Cardinality, RP!IsFiniteSet, IsFiniteSet
<1>3. Known /\ Copies /\ PP!TypeOK /\ PP!IInv /\ PP!Fetched /\ PP!EventDescribesItsEmail
        /\ RP!TypeOK /\ RP!EInv /\ InHand => NoHalfAlone
  <2> SUFFICES ASSUME Known, Copies, PP!TypeOK, PP!IInv, PP!Fetched, PP!EventDescribesItsEmail,
                      RP!TypeOK, RP!EInv, InHand,
                      stage = "book", pc[Sync] \in {"solo", "book"}, ~failed,
                      NEW e \in Book!Consumed(Sync) \cap due, NEW m \in due,
                      Compatible(Row[e], mailbox[m].pays), txnOf[m] = None
               PROVE  FALSE
    BY DEF NoHalfAlone
  <2>1. \A x \in due : x \in Message /\ event[x] = x /\ Row[x] = mailbox[x].pays /\ Row[x] # None
    <3> SUFFICES ASSUME NEW x \in due
                 PROVE  x \in Message /\ event[x] = x /\ Row[x] = mailbox[x].pays /\ Row[x] # None
      OBVIOUS
    <3>1. x \in Message /\ status[x] = "parsed"
      BY DEF Known, Delivered, InHand
    <3>2. event[x] = x
      BY <3>1 DEF PP!IInv, PP!ParsedHasEvent, PP!EventDescribesItsEmail
    <3>3. Row[x] = mailbox[x].pays /\ mailbox[x] \in Content
      BY <3>1, <3>2, Rows, Assumptions DEF RowsSound, PP!MailAssumption
    <3>4. QED
      BY <3>1, <3>2, <3>3, Assumptions DEF RP!ReconcileAssumption
  <2>2. e \in Message /\ lock[e] = Sync /\ txnOf[e] = None
    BY Assumptions, SameBooking DEF RP!Consumed, RP!EInv, RP!NothingOverwritten,
                                    RP!ReconcileAssumption
  <2>3. RP!NoPairLeft
    BY DEF InHand, RP!Partners
  <2>4. RP!Compatible(Row[e], Row[m])
    BY <2>1 DEF Compatible, RP!Compatible, Opposite, RP!Opposite, TIME_WINDOW_MINUTES,
                RP!TIME_WINDOW_MINUTES
  <2>5. e \in RP!Backlog /\ m \in RP!Backlog
    BY <2>1, <2>2 DEF RP!Backlog
  <2>6. QED
    BY <2>3, <2>4, <2>5 DEF RP!NoPairLeft
<1>4. Init => InHand /\ Known
  <2>1. Init => stage = "idle" /\ due = {} /\ failed = FALSE /\ pc[Sync] = "idle"
    BY SameBooking DEF Init, RP!Init
  <2>2. QED
    BY <2>1 DEF InHand, Known
<1>5. PP!Spec => []PP!TypeOK
  BY Assumptions, PP!TypeCorrect
<1>6. PP!Spec => []PP!IInv
  BY Assumptions, PP!Invariance
<1>7. PP!Spec => []PP!Fetched
  BY Assumptions, PP!AlwaysFetched
<1>8. RP!Spec => []RP!TypeOK
  BY Assumptions, RP!TypeCorrect
<1>9. RP!Spec => []RP!IInv
  BY Assumptions, RP!Invariance
<1>10. RP!Spec => []RP!EInv
  BY Assumptions, RP!ExclusiveInvariance
<1>11. Copies /\ PP!TypeOK /\ PP!Fetched /\ Staged /\ Staged' /\ RP!TypeOK /\ RP!TypeOK'
         /\ RP!IInv /\ RP!EInv /\ RP!Fits /\ InHand /\ [Next]_vars => InHand'
  BY InHandInductive
<1>12. Copies /\ Known /\ [Next]_vars => Known'
  BY KnownInductive
<1>13. QED
  BY <1>1, <1>2, <1>3, <1>4, <1>5, <1>6, <1>7, <1>8, <1>9, <1>10, <1>11, <1>12,
     Parsing, Booking, PTL DEF Spec
=============================================================================
