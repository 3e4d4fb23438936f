------------------------------- MODULE Mailbook -------------------------------
(***************************************************************************)
(* A mail's way into the ledger: POST /sync runs fetch, parse, match and   *)
(* solo, one after the other, on what the step before has committed.       *)
(* ParsePending and Reconcile run here as they are, joined by the row that *)
(* an event becomes; the fetch is what EmailFetch shows of it: a step that *)
(* commits stores at least what was in the mailbox when it began.          *)
(*                                                                         *)
(* The sync lock admits one request; the endpoints that run a single stage *)
(* without the lock are in the modules of their stages.                    *)
(***************************************************************************)
EXTENDS MatchingEngine

CONSTANTS
  Message,   \* messages, and the rows of emails and payment_events they become
  Content,   \* what a message may be: a mail to parse, and the payment it tells of
  Sync,      \* the request that holds the sync lock
  Limit,     \* the limit of every pass
  Txn, Instants, None, Misfit

VARIABLES
  mailbox,   \* Gmail: the messages delivered
  stage,     \* where the sync is
  due,       \* the messages in the mailbox when it began
  failed,    \* a step of it has failed
  (* ParsePending *)
  mail, status, event, mailLock, wstatus, inserting, wevent, cache, at, pending, reading, verdict,
  (* Reconcile *)
  now, txnOf, ledger, lock, dirty, inserted, pc, job, batch, src, cands, cur, todo

request   == <<stage, due, failed>>
parseVars == <<mail, status, event, mailLock, wstatus, inserting, wevent,
               cache, at, pending, reading, verdict>>
bookVars  == <<now, txnOf, ledger, lock, dirty, inserted, pc, job, batch, src, cands, cur, todo>>
vars      == <<mailbox, request, parseVars, bookVars>>

\* A payment_events row holds the payment of the mail it was made from.
Row == [m \in Message |-> IF event[m] = None THEN None ELSE mailbox[event[m]].pays]

Parse == INSTANCE ParsePending WITH
  Email <- Message, Mail <- {c.mail : c \in Content}, Session <- {Sync},
  Exclusive <- FALSE, Faults <- TRUE,
  lock <- mailLock, pc <- at, batch <- pending, cur <- reading

Book == INSTANCE Reconcile WITH
  Event <- Message, Payment <- {c.pays : c \in Content}, Session <- {Sync},
  Exclusive <- TRUE, Faults <- {"sync"}, row <- Row

ASSUME MailboxAssumption ==
  /\ Parse!MailAssumption /\ Parse!VerdictAssumption /\ Book!ReconcileAssumption
  /\ None \notin Content

Delivered == {m \in Message : mailbox[m] # None}

TypeOK ==
  /\ mailbox \in [Message -> Content \cup {None}]
  /\ stage \in {"idle", "fetch", "parse", "book"}
  /\ due \subseteq Delivered
  /\ failed \in BOOLEAN
  /\ Parse!TypeOK /\ Book!TypeOK
  /\ stage # "parse" => at[Sync] = "idle"
  /\ stage # "book" => pc[Sync] = "idle"

Init ==
  /\ mailbox = [m \in Message |-> None]
  /\ stage = "idle" /\ due = {} /\ failed = FALSE
  /\ Parse!Init
  /\ Book!Init

-----------------------------------------------------------------------------
\* The owner pays, and is told so by mail, then or later.
Deliver(m, c) ==
  /\ mailbox[m] = None
  /\ c.pays.paidAt <= now
  /\ mailbox' = [mailbox EXCEPT ![m] = c]
  /\ UNCHANGED <<request, parseVars, bookVars>>

Tick ==
  /\ UNCHANGED <<mailbox, request, parseVars>>
  /\ Book!Tick

StartSync ==
  /\ stage = "idle"
  /\ stage' = "fetch"
  /\ due' = Delivered
  /\ failed' = FALSE
  /\ UNCHANGED <<mailbox, parseVars, bookVars>>

\* Seeded fault: the match step comes before the parse step.
AfterMatchFirst == [fetch |-> "book", parse |-> "idle", book |-> "parse"]

\* However a step ends, the next one follows.
After == [fetch |-> "parse", parse |-> "book", book |-> "idle"]

\* Step 1 commits, as EmailFetch is shown to (Inbox!Store): a message that came in on
\* the way is stored or not.  The reply to a commit, here as below, may be lost: the
\* step has failed although it is done.
FetchCommits ==
  /\ stage = "fetch"
  /\ \E M \in SUBSET Delivered :
       /\ due \subseteq M
       /\ mail' = [m \in Message |-> IF m \in M THEN mailbox[m].mail ELSE mail[m]]
       /\ status' = [m \in Message |->
                       IF m \in M /\ mail[m] = None THEN "pending" ELSE status[m]]
  /\ stage' = After["fetch"]
  /\ failed' \in {failed, TRUE}
  /\ UNCHANGED <<mailbox, due, event, mailLock, wstatus, inserting, wevent, cache,
                 at, pending, reading, verdict, bookVars>>

FetchFails ==
  /\ stage = "fetch"
  /\ stage' = After["fetch"]
  /\ failed' = TRUE
  /\ UNCHANGED <<mailbox, due, parseVars, bookVars>>

\* Step 2.
SyncParses ==
  /\ stage = "parse"
  /\ Parse!StartParse(Sync) \/ Parse!Step(Sync) \/ Parse!Abort(Sync)
  /\ IF at'[Sync] = "idle"
     THEN /\ stage' = After["parse"]
          /\ failed' \in {failed \/ ~Parse!FinishParse(Sync), TRUE}
          /\ due' = {m \in due : status'[m] = "parsed"}
     ELSE UNCHANGED request
  /\ UNCHANGED <<mailbox, bookVars>>

\* Steps 3 and 4.
SyncBooks ==
  /\ stage = "book"
  /\ UNCHANGED <<mailbox, due, parseVars>>
  /\ Book!StartMatch(Sync, "sync") \/ Book!Step(Sync) \/ Book!Abort(Sync)
  /\ stage' = IF pc'[Sync] = "idle" THEN After["book"] ELSE stage
  /\ failed' \in IF Book!FinishMatch(Sync) \/ Book!FinishSolo(Sync)
                  THEN {failed, TRUE} ELSE {failed \/ Book!Abort(Sync)}

\* The process of the sync dies, and the database rolls its session back.
Crash ==
  /\ stage # "idle"
  /\ stage' = "idle"
  /\ UNCHANGED <<mailbox, due, failed>>
  /\ Parse!Abort(Sync) \/ (Parse!Idle(Sync) /\ UNCHANGED parseVars)
  /\ Book!Crash(Sync) \/ (Book!Idle(Sync) /\ UNCHANGED bookVars)

Forget ==
  /\ \E k \in Parse!Key : Parse!Expire(k)
  /\ UNCHANGED <<mailbox, request, bookVars>>

Next ==
  \/ \E m \in Message, c \in Content : Deliver(m, c)
  \/ Tick \/ Forget
  \/ StartSync \/ FetchCommits \/ FetchFails \/ SyncParses \/ SyncBooks \/ Crash

Spec == Init /\ [][Next]_vars

-----------------------------------------------------------------------------
(* Properties.                                                             *)

\* A sync whose steps have all gone well so far books no half of a payment alone
\* while the mail with the other half was there when it began: that mail has been
\* given up on, or it is booked (README.md:14).
NoHalfAlone ==
  stage = "book" /\ pc[Sync] \in {"solo", "book"} /\ ~failed =>
    \A e \in Book!Consumed(Sync) \cap due, m \in due :
      Compatible(Row[e], mailbox[m].pays) => txnOf[m] # None

(***************************************************************************)
(* Fairness: the owner goes on asking for a sync, time passes, and a sync  *)
(* is run to its end.                                                      *)
(***************************************************************************)
FairSpec ==
  /\ Spec
  /\ WF_vars(Tick) /\ WF_vars(StartSync)
  /\ WF_vars(FetchCommits \/ SyncParses \/ SyncBooks)

\* When failures stop, every mail comes to its end: the ledger, or the mails given up.
\* (A sync that had nothing to write in its last step ends as one that dies there.)
FailuresStop == <>[][(Crash => SyncBooks) /\ (failed' => failed)]_vars
EveryMailEndsUp ==
  FailuresStop =>
    \A m \in Message :
      mailbox[m] # None ~> status[m] \in {"failed", "skipped"} \/ txnOf[m] # None
=============================================================================
