----------------------------- MODULE EmailFetch -----------------------------
(***************************************************************************)
(* Step 1 of the sync, FetchEmails over the GmailConnector, and the OAuth  *)
(* callback that provides its token.  A fetch is one database transaction: *)
(* it reads the account's token, refreshes it when it has expired, lists   *)
(* the mailbox page by page and saves every message it does not have.      *)
(*                                                                         *)
(* A message is a number in the order of internalDate.  Gmail is external: *)
(* it lists the newest messages first and continues a listing, by its page *)
(* token, below the last message it gave.                                  *)
(***************************************************************************)
EXTENDS Integers, FiniteSets

CONSTANTS
  Message,   \* ids of messages that match the query
  Fetcher,   \* requests that fetch; two overlap when a sync outlives its lock
  Callback,  \* requests to the OAuth callback
  PageSize,  \* messages of one page
  None

ASSUME FetchAssumption ==
  /\ Message \subseteq Nat
  /\ PageSize \in Nat \ {0}
  /\ Fetcher \cap Callback = {} /\ None \notin Fetcher \cup Callback

VARIABLES
  mailbox,    \* the messages at Gmail
  emails,     \* committed rows of emails, by message id
  inserting,  \* the fetch with an uncommitted row of a message
  token,      \* the committed oauth_tokens row of the account
  holder,     \* the request that has written this row and not committed
  wtoken,     \* what it has written
  pc,
  creds,      \* the credentials a request works with (a copy of the row)
  due,        \* history: the messages that were there when a fetch began
  seen,       \* the messages a fetch has been given
  page,       \* those of the current page it has still to save
  rest        \* Gmail gave a nextPageToken

row  == <<token, holder, wtoken>>
walk == <<due, seen, page, rest>>
vars == <<mailbox, emails, inserting, token, holder, wtoken, pc, creds, due, seen, page, rest>>

Request == Fetcher \cup Callback

\* access: usable or over (expired or revoked); refresh: absent, accepted by Google
\* or revoked.
Token == [access : {"ok", "over"}, refresh : {"none", "live", "dead"}]
ASSUME TokenAssumption == None \notin Token

TypeOK ==
  /\ mailbox \subseteq Message /\ emails \subseteq Message
  /\ inserting \in [Message -> Fetcher \cup {None}]
  /\ token \in Token \cup {None} /\ wtoken \in Token \cup {None}
  /\ holder \in Request \cup {None}
  /\ (holder = None) = (wtoken = None)
  /\ pc \in [Request -> {"idle", "refresh", "find", "insert", "write", "commit",
                         "list", "page", "save"}]
  /\ creds \in [Request -> Token \cup {None}]
  /\ \A r \in Request : pc[r] # "idle" => creds[r] # None
  /\ due \in [Fetcher -> SUBSET Message] /\ seen \in [Fetcher -> SUBSET Message]
  /\ page \in [Fetcher -> SUBSET Message] /\ rest \in [Fetcher -> BOOLEAN]
  /\ \A f \in Fetcher : pc[f] \in {"idle", "refresh", "write", "list", "page", "save"}
  /\ \A c \in Callback : pc[c] \in {"idle", "find", "insert", "write", "commit"}
  /\ \A f \in Fetcher : pc[f] = "save" => page[f] # {}

Init ==
  /\ mailbox = {} /\ emails = {}
  /\ inserting = [m \in Message |-> None]
  /\ token = None /\ holder = None /\ wtoken = None
  /\ pc = [r \in Request |-> "idle"]
  /\ creds = [r \in Request |-> None]
  /\ due = [f \in Fetcher |-> {}]
  /\ seen = [f \in Fetcher |-> {}]
  /\ page = [f \in Fetcher |-> {}]
  /\ rest = [f \in Fetcher |-> FALSE]

Idle(r) == pc[r] = "idle"
Goto(r, label) == pc' = [pc EXCEPT ![r] = label]

-----------------------------------------------------------------------------
(* The environment: mail, time, and the owner's Google account.            *)

Deliver(m) ==
  /\ m \notin mailbox
  /\ mailbox' = mailbox \cup {m}
  /\ UNCHANGED <<emails, inserting, row, pc, creds, walk>>

Lapse ==
  /\ token # None /\ token.access = "ok"
  /\ token' = [token EXCEPT !.access = "over"]
  /\ UNCHANGED <<mailbox, emails, inserting, holder, wtoken, pc, creds, walk>>

Revoked(t) ==
  IF t = None THEN None
  ELSE [access |-> "over", refresh |-> IF t.refresh = "none" THEN "none" ELSE "dead"]

\* The owner withdraws the access: every token issued so far is worthless.
Revoke ==
  /\ token' = Revoked(token) /\ wtoken' = Revoked(wtoken)
  /\ creds' = [r \in Request |-> Revoked(creds[r])]
  /\ <<token, creds>>' # <<token, creds>>
  /\ UNCHANGED <<mailbox, emails, inserting, holder, pc, walk>>

-----------------------------------------------------------------------------
(* The token: EncryptedTokenStorage.save and its two callers.              *)

\* google-auth renews an access token on its own while it holds a refresh token.
Usable(t) == t.access = "ok" \/ t.refresh = "live"

\* Seeded fault: the refresh token is written even when there is none.
MergedBlindly(new, old) == new

\* An answer without a refresh token leaves the stored one alone.
Merged(new, old) == IF new.refresh = "none" THEN [new EXCEPT !.refresh = old.refresh] ELSE new

\* UPDATE of the row found, waiting for its lock.
WriteToken(r) ==
  /\ pc[r] = "write"
  /\ holder \in {None, r}
  /\ holder' = r
  /\ wtoken' = Merged(creds[r], token)
  /\ Goto(r, IF r \in Fetcher THEN "list" ELSE "commit")
  /\ UNCHANGED <<mailbox, emails, inserting, token, creds, walk>>

CommitRow(r) ==
  /\ token' = IF holder = r THEN wtoken ELSE token
  /\ holder' = IF holder = r THEN None ELSE holder
  /\ wtoken' = IF holder = r THEN None ELSE wtoken

\* GET /auth/gmail/callback: the code is exchanged for a token.
Consent(c, refresh) ==
  /\ Idle(c)
  /\ creds' = [creds EXCEPT ![c] = [access |-> "ok", refresh |-> refresh]]
  /\ Goto(c, "find")
  /\ UNCHANGED <<mailbox, emails, inserting, row, walk>>

FindToken(c) ==
  /\ pc[c] = "find"
  /\ Goto(c, IF token = None THEN "insert" ELSE "write")
  /\ UNCHANGED <<mailbox, emails, inserting, row, creds, walk>>

\* The INSERT of an account's first token waits for another one in the making.
InsertToken(c) ==
  /\ pc[c] = "insert"
  /\ holder = None /\ token = None
  /\ holder' = c /\ wtoken' = creds[c]
  /\ Goto(c, "commit")
  /\ UNCHANGED <<mailbox, emails, inserting, token, creds, walk>>

CommitToken(c) ==
  /\ pc[c] = "commit"
  /\ CommitRow(c)
  /\ Goto(c, "idle")
  /\ creds' = [creds EXCEPT ![c] = None]
  /\ UNCHANGED <<mailbox, emails, inserting, walk>>

-----------------------------------------------------------------------------
(* The fetch.                                                              *)

\* Seeded fault: a missing row goes unnoticed.
StartFetchUnchecked(f) ==
  /\ Idle(f)
  /\ creds' = [creds EXCEPT ![f] = token]
  /\ due' = [due EXCEPT ![f] = mailbox]
  /\ Goto(f, "list")
  /\ UNCHANGED <<mailbox, emails, inserting, row, seen, page, rest>>

\* authenticate: without a row the step fails at once, with 401.
StartFetch(f) ==
  /\ Idle(f)
  /\ token # None
  /\ creds' = [creds EXCEPT ![f] = token]
  /\ due' = [due EXCEPT ![f] = mailbox]
  /\ Goto(f, IF token.access = "over" /\ token.refresh # "none" THEN "refresh" ELSE "list")
  /\ UNCHANGED <<mailbox, emails, inserting, row, seen, page, rest>>

\* Google's answer, in a thread of its own: other requests go on meanwhile.
RefreshToken(f) ==
  /\ pc[f] = "refresh"
  /\ creds[f].refresh = "live"
  /\ creds' = [creds EXCEPT ![f].access = "ok"]
  /\ Goto(f, "write")
  /\ UNCHANGED <<mailbox, emails, inserting, row, walk>>

\* What the page token leads to.
Older(f) == {m \in mailbox : \A n \in seen[f] : m < n}

\* Seeded fault: the page token is not looked at.
NoMore(f, P) == FALSE

\* nextPageToken is there when something lies below the page.
More(f, P) == P # Older(f)

ListPage(f) ==
  /\ pc[f] = "list"
  /\ Usable(creds[f])
  /\ LET P == {m \in Older(f) : Cardinality({n \in Older(f) : n > m}) < PageSize} IN
       /\ page' = [page EXCEPT ![f] = P]
       /\ seen' = [seen EXCEPT ![f] = @ \cup P]
       /\ rest' = [rest EXCEPT ![f] = More(f, P)]
  /\ Goto(f, "page")
  /\ UNCHANGED <<mailbox, emails, inserting, row, creds, due>>

Newest(f, m) == m \in page[f] /\ \A n \in page[f] : n <= m

Known(f, m) == m \in emails \/ inserting[m] = f

\* The message is read from Gmail and looked up.
SkipKnown(f, m) ==
  /\ pc[f] = "page" /\ Newest(f, m)
  /\ Usable(creds[f])
  /\ Known(f, m)
  /\ page' = [page EXCEPT ![f] = @ \ {m}]
  /\ UNCHANGED <<mailbox, emails, inserting, row, pc, creds, due, seen, rest>>

ReadNew(f, m) ==
  /\ pc[f] = "page" /\ Newest(f, m)
  /\ Usable(creds[f])
  /\ ~Known(f, m)
  /\ Goto(f, "save")
  /\ UNCHANGED <<mailbox, emails, inserting, row, creds, walk>>

\* INSERT ... ON CONFLICT DO NOTHING: waits for the row of another fetch; when that
\* one has committed, its row is read instead.
SaveEmail(f, m) ==
  /\ pc[f] = "save" /\ Newest(f, m)
  /\ inserting[m] \in {None, f}
  /\ inserting' = IF m \in emails THEN inserting ELSE [inserting EXCEPT ![m] = f]
  /\ page' = [page EXCEPT ![f] = @ \ {m}]
  /\ Goto(f, "page")
  /\ UNCHANGED <<mailbox, emails, row, creds, due, seen, rest>>

\* Seeded fault: the token is stored again before every page.
NextPageSaving(f) ==
  /\ pc[f] = "page" /\ page[f] = {} /\ rest[f]
  /\ Goto(f, "write")
  /\ UNCHANGED <<mailbox, emails, inserting, row, creds, walk>>

NextPage(f) ==
  /\ pc[f] = "page" /\ page[f] = {} /\ rest[f]
  /\ Goto(f, "list")
  /\ UNCHANGED <<mailbox, emails, inserting, row, creds, walk>>

Released(f) == [m \in Message |-> IF inserting[m] = f THEN None ELSE inserting[m]]

\* The request's variables are gone.
Forget(r) ==
  /\ Goto(r, "idle")
  /\ creds' = [creds EXCEPT ![r] = None]
  /\ due' = [f \in Fetcher |-> IF f = r THEN {} ELSE due[f]]
  /\ seen' = [f \in Fetcher |-> IF f = r THEN {} ELSE seen[f]]
  /\ page' = [f \in Fetcher |-> IF f = r THEN {} ELSE page[f]]
  /\ rest' = [f \in Fetcher |-> IF f = r THEN FALSE ELSE rest[f]]

\* The commit of step 1.
FinishFetch(f) ==
  /\ pc[f] = "page" /\ page[f] = {} /\ ~rest[f]
  /\ emails' = emails \cup {m \in Message : inserting[m] = f}
  /\ inserting' = Released(f)
  /\ CommitRow(f)
  /\ Forget(f)
  /\ UNCHANGED mailbox

-----------------------------------------------------------------------------
(* Failures.                                                               *)

Rollback(r) ==
  /\ inserting' = Released(r)
  /\ holder' = IF holder = r THEN None ELSE holder
  /\ wtoken' = IF holder = r THEN None ELSE wtoken
  /\ Forget(r)
  /\ UNCHANGED <<mailbox, emails, token>>

\* Google rejects the credentials, a call or a statement fails (a label list or a
\* NUL the column cannot take, a second first token), or the process dies.
Abort(r) == ~Idle(r) /\ Rollback(r)

-----------------------------------------------------------------------------
FetchStep(f) ==
  \/ RefreshToken(f) \/ WriteToken(f) \/ ListPage(f) \/ NextPage(f) \/ FinishFetch(f)
  \/ \E m \in Message : SkipKnown(f, m) \/ ReadNew(f, m) \/ SaveEmail(f, m)

ConsentStep(c) == FindToken(c) \/ InsertToken(c) \/ WriteToken(c) \/ CommitToken(c)

Next ==
  \/ \E m \in Message : Deliver(m)
  \/ Lapse \/ Revoke
  \/ \E c \in Callback : \/ \E refresh \in {"none", "live"} : Consent(c, refresh)
                         \/ ConsentStep(c)
  \/ \E f \in Fetcher : StartFetch(f) \/ FetchStep(f)
  \/ \E r \in Request : Abort(r)

Spec == Init /\ [][Next]_vars

-----------------------------------------------------------------------------
(* Properties.                                                             *)

\* However fetches overlap, fail or meet pages and each other's rows, they do what
\* Inbox promises: the rows that appear are those of one fetch that went through its
\* whole list, all that was in the mailbox when it began among them, on whichever page
\* it was; a fetch that fails half-way leaves nothing (fetch_emails.py:15).
Abstract == INSTANCE Inbox WITH fetching <- {f \in Fetcher : ~Idle(f)}
ImplementsInbox == Abstract!Spec

\* A refresh token Google accepts is never lost to the row of the account, neither
\* to a consent that brings none nor to a fetch that loaded an older one before and
\* writes it back after: the row ceases to be good only when the owner revokes it, or
\* when a consent lands that was withdrawn while its callback was waiting.
ConsentSticks ==
  [][token # None /\ token.refresh = "live" =>
       \/ Revoke
       \/ token' # None /\ token'.refresh = "live"
       \/ \E c \in Callback : CommitToken(c) /\ wtoken.refresh = "dead"]_vars

\* Requests hold rows until they commit and never wait for each other in a circle:
\* whoever is waited for waits, if at all, for a message, and for an older one than
\* those that wait for it.
WaitsFor(r, o) ==
  /\ o # r
  /\ \/ pc[r] \in {"write", "insert"} /\ holder = o
     \/ pc[r] = "save" /\ \E m \in Message : Newest(r, m) /\ inserting[m] = o
WaitsInOrder ==
  \A r, o, p \in Request : WaitsFor(r, o) /\ WaitsFor(o, p) =>
    /\ pc[o] = "save"
    /\ pc[r] = "save" => \A m \in page[o], n \in page[r] : Newest(r, n) => m < n
=============================================================================
