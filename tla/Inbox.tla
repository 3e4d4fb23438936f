-------------------------------- MODULE Inbox --------------------------------
(***************************************************************************)
(* What step 1 of the sync promises the steps after it, without pages,     *)
(* tokens, row locks or uncommitted rows (fetch_emails.py:15-35): a fetch  *)
(* that comes to its end has stored all that was in the mailbox when it    *)
(* began, at once and nothing else; one that does not has stored nothing;  *)
(* and no stored message is ever lost.                                     *)
(***************************************************************************)
CONSTANTS Message, Fetcher

VARIABLES
  mailbox,   \* the messages at Gmail
  emails,    \* the messages that are stored
  fetching,  \* the fetches under way
  due        \* what was in the mailbox when each of them began

vars == <<mailbox, emails, fetching, due>>

Init ==
  /\ mailbox = {} /\ emails = {} /\ fetching = {}
  /\ due = [f \in Fetcher |-> {}]

Deliver(m) ==
  /\ m \notin mailbox
  /\ mailbox' = mailbox \cup {m}
  /\ UNCHANGED <<emails, fetching, due>>

Begin(f) ==
  /\ f \notin fetching
  /\ fetching' = fetching \cup {f}
  /\ due' = [due EXCEPT ![f] = mailbox]
  /\ UNCHANGED <<mailbox, emails>>

End(f) ==
  /\ f \in fetching
  /\ fetching' = fetching \ {f}
  /\ due' = [due EXCEPT ![f] = {}]
  /\ UNCHANGED mailbox

\* A message that came in on the way is stored or not.
Store(f) ==
  /\ End(f)
  /\ \E M \in SUBSET mailbox : emails' = emails \cup M
  /\ due[f] \subseteq emails'

GiveUp(f) == End(f) /\ UNCHANGED emails

Next ==
  \/ \E m \in Message : Deliver(m)
  \/ \E f \in Fetcher : Begin(f) \/ Store(f) \/ GiveUp(f)

Spec == Init /\ [][Next]_vars
=============================================================================
