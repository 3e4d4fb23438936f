-------------------------- MODULE EmailFetch_proofs --------------------------
(***************************************************************************)
(* Proofs about EmailFetch, for every mailbox, page size and any number of *)
(* fetches and consents at once.                                           *)
(***************************************************************************)
EXTENDS EmailFetch, FiniteSetTheorems, TLAPS

USE FetchAssumption, TokenAssumption

-----------------------------------------------------------------------------
(* Types.                                                                  *)

\* A withdrawn token is still a token.
LEMMA RevokedType ==
  \A t \in Token \cup {None} : /\ Revoked(t) \in Token \cup {None}
                               /\ Revoked(t) = None <=> t = None
BY DEF Revoked, Token

\* What is written is a token: an UPDATE finds a row or changes nothing of the answer.
LEMMA MergedType ==
  ASSUME NEW new \in Token, NEW old \in Token
  PROVE  Merged(new, old) \in Token
BY DEF Merged, Token

\* Only a row that is there is refreshed or updated.
Found == \A r \in Request : pc[r] \in {"refresh", "write"} => token # None

\* A request that ends leaves the types alone.
LEMMA ForgetType ==
  ASSUME TypeOK, NEW r \in Request, Forget(r)
  PROVE  /\ pc' \in [Request -> {"idle", "refresh", "find", "insert", "write", "commit",
                                 "list", "page", "save"}]
         /\ creds' \in [Request -> Token \cup {None}]
         /\ \A q \in Request : pc'[q] # "idle" => creds'[q] # None
         /\ due' \in [Fetcher -> SUBSET Message] /\ seen' \in [Fetcher -> SUBSET Message]
         /\ page' \in [Fetcher -> SUBSET Message] /\ rest' \in [Fetcher -> BOOLEAN]
         /\ \A f \in Fetcher : pc'[f] \in {"idle", "refresh", "write", "list", "page", "save"}
         /\ \A c \in Callback : pc'[c] \in {"idle", "find", "insert", "write", "commit"}
         /\ \A f \in Fetcher : pc'[f] = "save" => page'[f] # {}
BY DEF TypeOK, Forget, Goto, Request

\* Rows a request gives up are rows of others, or nobody's.
LEMMA ReleasedType ==
  ASSUME TypeOK, NEW r \in Request
  PROVE  Released(r) \in [Message -> Fetcher \cup {None}]
BY DEF TypeOK, Released

\* Every step keeps the types.
LEMMA TypeInductive == TypeOK /\ Found /\ [Next]_vars => TypeOK' /\ Found'
<1> SUFFICES ASSUME TypeOK, Found, [Next]_vars PROVE TypeOK' /\ Found'
  OBVIOUS
<1> USE DEF row, walk, Idle, Goto
<1>1. ASSUME NEW m \in Message, Deliver(m) PROVE TypeOK' /\ Found'
  BY <1>1 DEF Deliver, TypeOK, Found
<1>2. ASSUME Lapse PROVE TypeOK' /\ Found'
  <2>1. token \in Token /\ token' \in Token
    BY <1>2 DEF Lapse, TypeOK, Token
  <2>2. QED
    BY <1>2, <2>1 DEF Lapse, TypeOK, Found
<1>3. ASSUME Revoke PROVE TypeOK' /\ Found'
  <2>1. /\ token' \in Token \cup {None} /\ (token' = None <=> token = None)
        /\ wtoken' \in Token \cup {None} /\ (wtoken' = None <=> wtoken = None)
    BY <1>3, RevokedType DEF Revoke, TypeOK
  <2>2. /\ creds' \in [Request -> Token \cup {None}]
        /\ \A r \in Request : creds'[r] = None <=> creds[r] = None
    BY <1>3, RevokedType DEF Revoke, TypeOK
  <2>3. QED
    BY <1>3, <2>1, <2>2 DEF Revoke, TypeOK, Found
<1>4. ASSUME NEW c \in Callback, NEW refresh \in {"none", "live"}, Consent(c, refresh)
      PROVE TypeOK' /\ Found'
  <2>1. [access |-> "ok", refresh |-> refresh] \in Token
    BY DEF Token
  <2>2. QED
    BY <1>4, <2>1 DEF Consent, TypeOK, Request, Found
<1>5. ASSUME NEW c \in Callback, FindToken(c) PROVE TypeOK' /\ Found'
  BY <1>5 DEF FindToken, TypeOK, Request, Found
<1>6. ASSUME NEW c \in Callback, InsertToken(c) PROVE TypeOK' /\ Found'
  BY <1>6 DEF InsertToken, TypeOK, Request, Found
<1>7. ASSUME NEW r \in Request, WriteToken(r) PROVE TypeOK' /\ Found'
  <2>1. creds[r] \in Token /\ token \in Token
    BY <1>7 DEF WriteToken, TypeOK, Found
  <2>2. wtoken' \in Token /\ wtoken' # None
    BY <1>7, <2>1, MergedType DEF WriteToken
  <2>3. QED
    BY <1>7, <2>2 DEF WriteToken, TypeOK, Request, Found
<1>8. ASSUME NEW c \in Callback, CommitToken(c) PROVE TypeOK' /\ Found'
  <2>1. token' \in Token \cup {None} /\ (token # None => token' # None)
    BY <1>8 DEF CommitToken, CommitRow, TypeOK, Request
  <2>2. QED
    BY <1>8, <2>1 DEF CommitToken, CommitRow, TypeOK, Request, Found
<1>9. ASSUME NEW f \in Fetcher, StartFetch(f) PROVE TypeOK' /\ Found'
  BY <1>9 DEF StartFetch, TypeOK, Request, Found
<1>10. ASSUME NEW f \in Fetcher, RefreshToken(f) PROVE TypeOK' /\ Found'
  BY <1>10 DEF RefreshToken, TypeOK, Request, Found, Token
<1>11. ASSUME NEW f \in Fetcher, ListPage(f) PROVE TypeOK' /\ Found'
  <2>1. Older(f) \in SUBSET Message
    BY DEF Older, TypeOK
  <2>2. \A P : More(f, P) \in BOOLEAN
    BY DEF More
  <2>3. QED
    BY <1>11, <2>1, <2>2 DEF ListPage, TypeOK, Request, Found
<1>12. ASSUME NEW f \in Fetcher, NEW m \in Message, SkipKnown(f, m) PROVE TypeOK' /\ Found'
  BY <1>12 DEF SkipKnown, TypeOK, Found, Request
<1>13. ASSUME NEW f \in Fetcher, NEW m \in Message, ReadNew(f, m) PROVE TypeOK' /\ Found'
  BY <1>13 DEF ReadNew, Newest, TypeOK, Found, Request
<1>14. ASSUME NEW f \in Fetcher, NEW m \in Message, SaveEmail(f, m) PROVE TypeOK' /\ Found'
  BY <1>14 DEF SaveEmail, TypeOK, Found, Request
<1>15. ASSUME NEW f \in Fetcher, NextPage(f) PROVE TypeOK' /\ Found'
  BY <1>15 DEF NextPage, TypeOK, Found, Request
<1>16. ASSUME NEW f \in Fetcher, FinishFetch(f) PROVE TypeOK' /\ Found'
  <2>1. f \in Request
    BY DEF Request
  <2>2. token' \in Token \cup {None} /\ (token # None => token' # None)
    BY <1>16, <2>1 DEF FinishFetch, CommitRow, TypeOK
  <2>3. inserting' \in [Message -> Fetcher \cup {None}] /\ emails' \subseteq Message
    BY <1>16, <2>1, ReleasedType DEF FinishFetch, TypeOK
  <2>4. /\ wtoken' \in Token \cup {None} /\ holder' \in Request \cup {None}
        /\ (holder' = None) = (wtoken' = None)
    BY <1>16 DEF FinishFetch, CommitRow, TypeOK
  <2>5. Forget(f) /\ mailbox' = mailbox
    BY <1>16 DEF FinishFetch
  <2>6. TypeOK'
    BY <2>1, <2>2, <2>3, <2>4, <2>5, ForgetType DEF TypeOK
  <2>7. Found'
    BY <2>1, <2>2, <2>5 DEF Found, Forget, TypeOK
  <2>8. QED
    BY <2>6, <2>7
<1>17. ASSUME NEW r \in Request, Abort(r) PROVE TypeOK' /\ Found'
  <2>1. Rollback(r)
    BY <1>17 DEF Abort
  <2>2. inserting' \in [Message -> Fetcher \cup {None}]
    BY <2>1, ReleasedType DEF Rollback
  <2>3. /\ wtoken' \in Token \cup {None} /\ holder' \in Request \cup {None}
        /\ (holder' = None) = (wtoken' = None)
    BY <2>1 DEF Rollback, TypeOK
  <2>4. Forget(r) /\ UNCHANGED <<mailbox, emails, token>>
    BY <2>1 DEF Rollback
  <2>5. TypeOK'
    BY <2>2, <2>3, <2>4, ForgetType DEF TypeOK
  <2>6. Found'
    BY <2>4 DEF Found, Forget, TypeOK
  <2>7. QED
    BY <2>5, <2>6
<1>18. ASSUME UNCHANGED vars PROVE TypeOK' /\ Found'
  BY <1>18 DEF vars, TypeOK, Found
<1>19. Fetcher \subseteq Request /\ Callback \subseteq Request
  BY DEF Request
<1>20. QED
  BY <1>1, <1>2, <1>3, <1>4, <1>5, <1>6, <1>7, <1>8, <1>9, <1>10, <1>11, <1>12, <1>13,
     <1>14, <1>15, <1>16, <1>17, <1>18, <1>19 DEF Next, FetchStep, ConsentStep

\* Whatever the mailbox holds and however requests overlap or fail, the account's row
\* stays a token, a row written by a request has that request, and a fetch saves only
\* what a page gave it.
THEOREM TypeCorrect == Spec => []TypeOK
<1>1. Init => TypeOK /\ Found
  BY DEF Init, TypeOK, Found, Request
<1>2. QED
  BY <1>1, TypeInductive, PTL DEF Spec

-----------------------------------------------------------------------------
(* The order of waiting.                                                   *)

\* A row of the token is held by a request that has it behind it, and a fetch holds
\* rows of messages newer than all it has still to save of its page.
Behind ==
  /\ \A r \in Request : holder = r => pc[r] \in {"list", "page", "save", "commit"}
  /\ \A f \in Fetcher : page[f] \subseteq seen[f]
  /\ \A f \in Fetcher, m \in Message : inserting[m] = f =>
       /\ pc[f] \in {"list", "page", "save"}
       /\ m \in seen[f]
       /\ \A n \in page[f] : n < m

\* Messages of the mailbox are numbers, and a page has one newest.
LEMMA NewestUnique ==
  ASSUME TypeOK, NEW f \in Fetcher, NEW m, NEW n, Newest(f, m), Newest(f, n)
  PROVE  m = n /\ m \in Message
<1>1. page[f] \subseteq Nat /\ page[f] \subseteq Message
  BY DEF TypeOK
<1>2. QED
  BY <1>1 DEF Newest

\* A fetch that ends holds nothing.
LEMMA ForgetBehind ==
  ASSUME TypeOK, Behind, NEW r \in Request, Forget(r), inserting' = Released(r),
         holder' = IF holder = r THEN None ELSE holder
  PROVE  Behind'
<1> USE DEF TypeOK, Behind, Forget, Goto, Released
<1>1. \A q \in Request : holder' = q => holder = q /\ q # r
  BY DEF Request
<1>2. \A q \in Request : holder' = q => pc'[q] \in {"list", "page", "save", "commit"}
  BY <1>1
<1>3. \A f \in Fetcher : page'[f] \subseteq seen'[f]
  OBVIOUS
<1>4. ASSUME NEW f \in Fetcher, NEW m \in Message, inserting'[m] = f
      PROVE  /\ pc'[f] \in {"list", "page", "save"}
             /\ m \in seen'[f]
             /\ \A n \in page'[f] : n < m
  <2>1. inserting[m] = f /\ f # r
    BY <1>4
  <2>2. pc'[f] = pc[f] /\ seen'[f] = seen[f] /\ page'[f] = page[f]
    BY <2>1 DEF Request
  <2>3. QED
    BY <2>1, <2>2
<1>5. QED
  BY <1>2, <1>3, <1>4

\* Every step keeps the order.
LEMMA BehindInductive == TypeOK /\ Behind /\ [Next]_vars => Behind'
<1> SUFFICES ASSUME TypeOK, Behind, [Next]_vars PROVE Behind'
  OBVIOUS
<1> USE DEF row, walk, Idle, Goto, Behind, TypeOK
<1>0. Fetcher \subseteq Request /\ Callback \subseteq Request
  BY DEF Request
<1>1. ASSUME NEW m \in Message, Deliver(m) PROVE Behind'
  BY <1>1 DEF Deliver
<1>2. ASSUME Lapse PROVE Behind'
  BY <1>2 DEF Lapse
<1>3. ASSUME Revoke PROVE Behind'
  BY <1>3 DEF Revoke
<1>4. ASSUME NEW c \in Callback, NEW refresh \in {"none", "live"}, Consent(c, refresh)
      PROVE Behind'
  BY <1>0, <1>4 DEF Consent
<1>5. ASSUME NEW c \in Callback, FindToken(c) PROVE Behind'
  BY <1>0, <1>5 DEF FindToken
<1>6. ASSUME NEW c \in Callback, InsertToken(c) PROVE Behind'
  BY <1>0, <1>6 DEF InsertToken
<1>7. ASSUME NEW r \in Request, WriteToken(r) PROVE Behind'
  BY <1>0, <1>7 DEF WriteToken
<1>8. ASSUME NEW c \in Callback, CommitToken(c) PROVE Behind'
  BY <1>0, <1>8 DEF CommitToken, CommitRow, Request
<1>9. ASSUME NEW f \in Fetcher, StartFetch(f) PROVE Behind'
  BY <1>0, <1>9 DEF StartFetch
<1>10. ASSUME NEW f \in Fetcher, RefreshToken(f) PROVE Behind'
  BY <1>0, <1>10 DEF RefreshToken
<1>11. ASSUME NEW f \in Fetcher, ListPage(f) PROVE Behind'
  <2>1. PICK P \in SUBSET Older(f) : /\ page' = [page EXCEPT ![f] = P]
                                     /\ seen' = [seen EXCEPT ![f] = seen[f] \cup P]
    BY <1>11 DEF ListPage
  <2>2. \A g \in Fetcher : page'[g] \subseteq seen'[g] /\ seen[g] \subseteq seen'[g]
    BY <2>1
  <2>3. pc' = [pc EXCEPT ![f] = "page"] /\ pc[f] = "list" /\ UNCHANGED <<holder, inserting>>
    BY <1>11 DEF ListPage
  <2>4. ASSUME NEW g \in Fetcher, NEW m \in Message, inserting[m] = g, NEW n \in page'[g]
        PROVE  n < m
    <3>1. CASE g = f
      BY <2>1, <2>4, <3>1 DEF Older
    <3>2. CASE g # f
      BY <2>1, <2>4, <3>2
    <3>3. QED
      BY <3>1, <3>2
  <2>5. QED
    BY <1>0, <2>2, <2>3, <2>4
<1>12. ASSUME NEW f \in Fetcher, NEW m \in Message, SkipKnown(f, m) PROVE Behind'
  BY <1>12 DEF SkipKnown
<1>13. ASSUME NEW f \in Fetcher, NEW m \in Message, ReadNew(f, m) PROVE Behind'
  BY <1>0, <1>13 DEF ReadNew
<1>14. ASSUME NEW f \in Fetcher, NEW m \in Message, SaveEmail(f, m) PROVE Behind'
  <2>1. /\ pc[f] = "save" /\ pc' = [pc EXCEPT ![f] = "page"]
        /\ page' = [page EXCEPT ![f] = page[f] \ {m}]
        /\ UNCHANGED <<holder, seen>>
        /\ \A n \in Message : inserting'[n] = inserting[n] \/ (n = m /\ inserting'[n] = f)
    BY <1>14 DEF SaveEmail
  <2>2. m \in seen[f] /\ \A n \in page[f] \ {m} : n < m
    BY <1>14 DEF SaveEmail, Newest
  <2>3. \A g \in Fetcher : page'[g] \subseteq page[g] /\ page'[g] \subseteq seen'[g]
    BY <2>1
  <2>4. ASSUME NEW g \in Fetcher, NEW k \in Message, inserting'[k] = g
        PROVE  /\ pc'[g] \in {"list", "page", "save"}
               /\ k \in seen'[g]
               /\ \A n \in page'[g] : n < k
    <3>1. CASE inserting[k] = g
      BY <1>0, <2>1, <2>3, <3>1
    <3>2. CASE k = m /\ g = f
      BY <1>0, <2>1, <2>2, <3>2
    <3>3. QED
      BY <2>1, <2>4, <3>1, <3>2
  <2>5. QED
    BY <1>0, <2>1, <2>3, <2>4
<1>15. ASSUME NEW f \in Fetcher, NextPage(f) PROVE Behind'
  BY <1>0, <1>15 DEF NextPage
<1>16. ASSUME NEW f \in Fetcher, FinishFetch(f) PROVE Behind'
  <2>1. /\ Forget(f) /\ inserting' = Released(f)
        /\ holder' = IF holder = f THEN None ELSE holder
    BY <1>16 DEF FinishFetch, CommitRow
  <2>2. QED
    BY <1>0, <2>1, ForgetBehind
<1>17. ASSUME NEW r \in Request, Abort(r) PROVE Behind'
  BY <1>17, ForgetBehind DEF Abort, Rollback
<1>18. ASSUME UNCHANGED vars PROVE Behind'
  BY <1>18 DEF vars
<1>20. QED
  BY <1>1, <1>2, <1>3, <1>4, <1>5, <1>6, <1>7, <1>8, <1>9, <1>10, <1>11, <1>12, <1>13,
     <1>14, <1>15, <1>16, <1>17, <1>18, <1>0 DEF Next, FetchStep, ConsentStep

\* However many fetches and callbacks overlap, none waits in a circle: who holds the
\* account's token is past waiting for it, and messages are waited for newest first.
THEOREM NoCircle == Spec => []WaitsInOrder
<1>1. TypeOK /\ Behind => WaitsInOrder
  <2> SUFFICES ASSUME TypeOK, Behind, NEW r \in Request, NEW o \in Request, NEW p \in Request,
                      WaitsFor(r, o), WaitsFor(o, p)
               PROVE  /\ pc[o] = "save"
                      /\ pc[r] = "save" => \A m \in page[o], n \in page[r] : Newest(r, n) => m < n
    BY DEF WaitsInOrder
  <2>1. \A q \in Request : pc[q] = "save" => q \in Fetcher
    BY DEF TypeOK, Request
  <2>2. pc[o] \in {"write", "insert", "save"}
    BY DEF WaitsFor
  <2>3. CASE pc[r] \in {"write", "insert"} /\ holder = o
    BY <2>2, <2>3 DEF Behind
  <2>4. CASE pc[r] = "save" /\ \E m \in Message : Newest(r, m) /\ inserting[m] = o
    <3>1. PICK m \in Message : Newest(r, m) /\ inserting[m] = o
      BY <2>4
    <3>2. o \in Fetcher /\ r \in Fetcher
      BY <2>1, <2>4, <3>1 DEF TypeOK, Request
    <3>3. pc[o] = "save" /\ \A n \in page[o] : n < m
      BY <2>2, <3>1, <3>2 DEF Behind
    <3>4. \A n : Newest(r, n) => n = m
      BY <3>1, <3>2, NewestUnique
    <3>5. QED
      BY <3>3, <3>4
  <2>5. QED
    BY <2>3, <2>4 DEF WaitsFor
<1>2. Init => TypeOK /\ Found /\ Behind
  BY DEF Init, TypeOK, Found, Behind, Request
<1>3. QED
  BY <1>1, <1>2, TypeInductive, BehindInductive, PTL DEF Spec

-----------------------------------------------------------------------------
(* The whole list.                                                         *)

\* What was there when a fetch began has been given to it, or lies below all it has
\* been given and will be listed; what it has been given is known or on its page.
Owed(f) ==
  \A m \in due[f] : \/ m \in seen[f]
                    \/ /\ pc[f] = "list" \/ rest[f]
                       /\ m \in mailbox /\ \A n \in seen[f] : m < n
Walked ==
  /\ IsFiniteSet(mailbox)
  /\ \A f \in Fetcher :
       /\ pc[f] \in {"idle", "refresh", "write"} => seen[f] = {}
       /\ pc[f] \in {"idle", "refresh", "write", "list"} => page[f] = {}
       /\ pc[f] \in {"refresh", "write"} => due[f] \subseteq mailbox
       /\ pc[f] \in {"list", "page", "save"} => Owed(f)
       /\ \A m \in seen[f] : m \in page[f] \/ Known(f, m)

\* What a page leaves out is older than the page.
LEMMA PageFull ==
  ASSUME TypeOK, IsFiniteSet(mailbox), NEW f \in Fetcher, NEW m \in Older(f), NEW n \in Older(f),
         m < n \/ m = n,
         Cardinality({x \in Older(f) : x > m}) < PageSize
  PROVE  Cardinality({x \in Older(f) : x > n}) < PageSize
<1> DEFINE M == {x \in Older(f) : x > m}
           N == {x \in Older(f) : x > n}
<1>1. Older(f) \subseteq Nat /\ M \subseteq mailbox
  BY DEF Older, TypeOK
<1>2. N \subseteq M
  BY <1>1
<1>3. IsFiniteSet(M)
  BY <1>1, FS_Subset
<1>4. Cardinality(N) <= Cardinality(M) /\ IsFiniteSet(N)
  BY <1>2, <1>3, FS_Subset
<1>5. Cardinality(M) \in Nat /\ Cardinality(N) \in Nat
  BY <1>3, <1>4, FS_CardinalityType
<1>6. Cardinality(M) < PageSize
  OBVIOUS
<1>7. Cardinality(N) < PageSize
  <2> HIDE DEF M, N
  <2>1. QED
    BY <1>4, <1>5, <1>6
<1>8. QED
  BY <1>7

\* Nothing a fetch knows is forgotten by a step of another one.
LEMMA StillKnown ==
  ASSUME TypeOK, NEW f \in Fetcher, NEW m, Known(f, m), emails \subseteq emails',
         inserting[m] = f => inserting'[m] = f \/ m \in emails'
  PROVE  Known(f, m)'
BY DEF Known

\* Ending a request leaves the walks of the others alone.
LEMMA ForgetWalked ==
  ASSUME TypeOK, Walked, NEW r \in Request, Forget(r), mailbox' = mailbox,
         emails \subseteq emails', inserting' = Released(r)
  PROVE  Walked'
<1> USE DEF TypeOK, Walked, Forget, Goto
<1>1. ASSUME NEW f \in Fetcher, f = r
      PROVE  pc'[f] = "idle" /\ seen'[f] = {} /\ page'[f] = {}
  BY <1>1
<1>2. ASSUME NEW f \in Fetcher, f # r
      PROVE  /\ pc'[f] = pc[f] /\ seen'[f] = seen[f] /\ due'[f] = due[f]
             /\ page'[f] = page[f] /\ rest'[f] = rest[f]
             /\ \A m \in Message : Known(f, m) => Known(f, m)'
  BY <1>2 DEF Known, Released, Request
<1>3. ASSUME NEW f \in Fetcher, f # r, Owed(f) PROVE Owed(f)'
  BY <1>2, <1>3 DEF Owed
<1>4. ASSUME NEW f \in Fetcher
      PROVE  /\ pc'[f] \in {"idle", "refresh", "write"} => seen'[f] = {}
             /\ pc'[f] \in {"idle", "refresh", "write", "list"} => page'[f] = {}
             /\ pc'[f] \in {"refresh", "write"} => due'[f] \subseteq mailbox'
             /\ pc'[f] \in {"list", "page", "save"} => Owed(f)'
             /\ \A m \in seen'[f] : m \in page'[f] \/ Known(f, m)'
  <2>1. CASE f = r
    BY <1>1, <2>1
  <2>2. CASE f # r
    BY <1>2, <1>3, <2>2
  <2>3. QED
    BY <2>1, <2>2
<1>5. QED
  BY <1>4

\* A step that touches none of the walks, and takes nothing from the mailbox or the
\* emails, keeps them.
LEMMA StepWalked ==
  ASSUME TypeOK, Walked, UNCHANGED <<due, seen, page, rest, inserting>>,
         emails \subseteq emails', mailbox \subseteq mailbox', IsFiniteSet(mailbox'),
         \A f \in Fetcher : \/ pc'[f] = pc[f]
                            \/ pc[f] = "refresh" /\ pc'[f] = "write"
                            \/ pc[f] = "write" /\ pc'[f] = "list"
                            \/ pc[f] = "page" /\ pc'[f] = "save"
                            \/ pc[f] = "page" /\ pc'[f] = "list" /\ page[f] = {}
  PROVE  Walked'
<1> USE DEF Walked
<1> SUFFICES ASSUME NEW f \in Fetcher
             PROVE  /\ pc'[f] \in {"idle", "refresh", "write"} => seen'[f] = {}
                    /\ pc'[f] \in {"idle", "refresh", "write", "list"} => page'[f] = {}
                    /\ pc'[f] \in {"refresh", "write"} => due'[f] \subseteq mailbox'
                    /\ pc'[f] \in {"list", "page", "save"} => Owed(f)'
                    /\ \A m \in seen'[f] : m \in page'[f] \/ Known(f, m)'
  OBVIOUS
<1>1. \A m \in seen'[f] : m \in page'[f] \/ Known(f, m)'
  BY DEF Known
<1>2. ASSUME pc'[f] \in {"list", "page", "save"} PROVE Owed(f)'
  <2>1. CASE pc[f] = "write" /\ pc'[f] = "list"
    BY <2>1 DEF Owed
  <2>2. CASE pc[f] \in {"list", "page", "save"}
    BY <1>2, <2>2 DEF Owed
  <2>3. QED
    BY <1>2, <2>1, <2>2
<1>3. QED
  BY <1>1, <1>2

\* A page moves the line between what has been given and what will be.
LEMMA ListWalked ==
  ASSUME TypeOK, Walked, NEW f \in Fetcher, ListPage(f)
  PROVE  Walked'
<1> DEFINE P == {m \in Older(f) : Cardinality({n \in Older(f) : n > m}) < PageSize}
<1>1. /\ pc[f] = "list" /\ pc' = [pc EXCEPT ![f] = "page"]
      /\ page' = [page EXCEPT ![f] = P]
      /\ seen' = [seen EXCEPT ![f] = seen[f] \cup P]
      /\ rest' = [rest EXCEPT ![f] = (P # Older(f))]
      /\ UNCHANGED <<mailbox, emails, inserting, due>>
  BY DEF ListPage, More, Goto, row
<1>2. P \subseteq Older(f) /\ Older(f) \subseteq Nat
  BY DEF Older, TypeOK
<1>3. ASSUME NEW m \in Older(f), m \notin P, NEW n \in P PROVE m < n
  <2>1. n \in Older(f) /\ m \in Nat /\ n \in Nat
    BY <1>2
  <2>2. Cardinality({x \in Older(f) : x > n}) < PageSize
    OBVIOUS
  <2>3. CASE n < m \/ n = m
    <3>1. Cardinality({x \in Older(f) : x > m}) < PageSize
      BY <2>1, <2>2, <2>3, PageFull DEF Walked
    <3>2. QED
      BY <1>3, <3>1
  <2>4. QED
    BY <2>1, <2>3
<1> HIDE DEF P
<1>4. Owed(f)'
  <2> SUFFICES ASSUME NEW m \in due[f], m \notin seen[f], m \notin P
               PROVE  /\ rest'[f]
                      /\ m \in mailbox
                      /\ \A n \in seen[f] \cup P : m < n
    BY <1>1 DEF Owed, TypeOK
  <2>1. m \in mailbox /\ \A n \in seen[f] : m < n
    BY <1>1 DEF Walked, Owed
  <2>2. m \in Older(f)
    BY <2>1 DEF Older
  <2>3. rest'[f]
    BY <1>1, <2>2 DEF TypeOK
  <2>4. QED
    BY <1>3, <2>1, <2>2, <2>3
<1>5. \A m \in seen'[f] : m \in page'[f] \/ Known(f, m)'
  <2>1. page'[f] = P /\ seen'[f] = seen[f] \cup P /\ page[f] \in SUBSET Message
    BY <1>1 DEF TypeOK
  <2>2. \A m \in seen[f] : m \in P \/ Known(f, m)
    <3>1. page[f] = {}
      BY <1>1 DEF Walked
    <3>2. QED
      BY <3>1 DEF Walked
  <2>3. QED
    BY <1>1, <2>1, <2>2 DEF Known
<1>6. ASSUME NEW g \in Fetcher, g # f
      PROVE  /\ pc'[g] \in {"idle", "refresh", "write"} => seen'[g] = {}
             /\ pc'[g] \in {"idle", "refresh", "write", "list"} => page'[g] = {}
             /\ pc'[g] \in {"refresh", "write"} => due'[g] \subseteq mailbox'
             /\ pc'[g] \in {"list", "page", "save"} => Owed(g)'
             /\ \A m \in seen'[g] : m \in page'[g] \/ Known(g, m)'
  BY <1>1, <1>6 DEF Walked, Owed, Known, TypeOK
<1>7. /\ pc'[f] = "page" /\ mailbox' = mailbox
  BY <1>1 DEF TypeOK, Request
<1>8. QED
  BY <1>4, <1>5, <1>6, <1>7 DEF Walked

\* A message leaves the page when it is known.
LEMMA TakeWalked ==
  ASSUME TypeOK, Walked, NEW f \in Fetcher, NEW m \in Message,
         page' = [page EXCEPT ![f] = page[f] \ {m}],
         \A g \in Fetcher \ {f} : pc'[g] = pc[g],
         pc[f] \in {"page", "save"}, pc'[f] = "page",
         UNCHANGED <<mailbox, emails, due, seen, rest>>,
         Known(f, m)',
         \A g \in Fetcher, n \in Message : Known(g, n) => Known(g, n)'
  PROVE  Walked'
<1> SUFFICES ASSUME NEW g \in Fetcher
             PROVE  /\ pc'[g] \in {"idle", "refresh", "write"} => seen'[g] = {}
                    /\ pc'[g] \in {"idle", "refresh", "write", "list"} => page'[g] = {}
                    /\ pc'[g] \in {"refresh", "write"} => due'[g] \subseteq mailbox'
                    /\ pc'[g] \in {"list", "page", "save"} => Owed(g)'
                    /\ \A n \in seen'[g] : n \in page'[g] \/ Known(g, n)'
  BY DEF Walked
<1>1. \A n \in seen'[g] : n \in page'[g] \/ Known(g, n)'
  <2>1. \A n \in seen[g] : n \in Message /\ (n \in page[g] \/ Known(g, n))
    BY DEF Walked, TypeOK
  <2>2. QED
    BY <2>1 DEF TypeOK
<1>2. CASE g = f
  BY <1>1, <1>2 DEF Walked, Owed
<1>3. CASE g # f
  BY <1>1, <1>3 DEF Walked, Owed
<1>4. QED
  BY <1>2, <1>3

\* Every step keeps to the list.
LEMMA WalkedInductive == TypeOK /\ Walked /\ [Next]_vars => Walked'
<1> SUFFICES ASSUME TypeOK, Walked, [Next]_vars PROVE Walked'
  OBVIOUS
<1> USE DEF row, walk, Idle, Goto
<1>0. Fetcher \subseteq Request /\ Callback \subseteq Request
  BY DEF Request
<1>a. IsFiniteSet(mailbox)
  BY DEF Walked
<1>1. ASSUME NEW m \in Message, Deliver(m) PROVE Walked'
  <2>1. IsFiniteSet(mailbox')
    BY <1>1, <1>a, FS_AddElement DEF Deliver
  <2>2. QED
    BY <1>1, <2>1, StepWalked DEF Deliver
<1>2. ASSUME Lapse PROVE Walked'
  BY <1>2, <1>a, StepWalked DEF Lapse
<1>3. ASSUME Revoke PROVE Walked'
  BY <1>3, <1>a, StepWalked DEF Revoke
<1>4. ASSUME NEW c \in Callback, NEW refresh \in {"none", "live"}, Consent(c, refresh)
      PROVE Walked'
  <2>1. \A f \in Fetcher : pc'[f] = pc[f]
    BY <1>0, <1>4 DEF Consent, TypeOK
  <2>2. QED
    BY <1>4, <1>a, <2>1, StepWalked DEF Consent
<1>5. ASSUME NEW c \in Callback, FindToken(c) PROVE Walked'
  <2>1. \A f \in Fetcher : pc'[f] = pc[f]
    BY <1>0, <1>5 DEF FindToken, TypeOK
  <2>2. QED
    BY <1>5, <1>a, <2>1, StepWalked DEF FindToken
<1>6. ASSUME NEW c \in Callback, InsertToken(c) PROVE Walked'
  <2>1. \A f \in Fetcher : pc'[f] = pc[f]
    BY <1>0, <1>6 DEF InsertToken, TypeOK
  <2>2. QED
    BY <1>6, <1>a, <2>1, StepWalked DEF InsertToken
<1>7. ASSUME NEW r \in Request, WriteToken(r) PROVE Walked'
  <2>1. \A f \in Fetcher : pc'[f] = pc[f] \/ (pc[f] = "write" /\ pc'[f] = "list")
    BY <1>0, <1>7 DEF WriteToken, TypeOK
  <2>2. QED
    BY <1>7, <1>a, <2>1, StepWalked DEF WriteToken
<1>8. ASSUME NEW c \in Callback, CommitToken(c) PROVE Walked'
  <2>1. \A f \in Fetcher : pc'[f] = pc[f]
    BY <1>0, <1>8 DEF CommitToken, TypeOK
  <2>2. QED
    BY <1>8, <1>a, <2>1, StepWalked DEF CommitToken
<1>9. ASSUME NEW f \in Fetcher, StartFetch(f) PROVE Walked'
  <2>1. /\ pc[f] = "idle" /\ pc'[f] \in {"refresh", "list"} /\ due'[f] = mailbox
        /\ \A g \in Fetcher \ {f} : pc'[g] = pc[g] /\ due'[g] = due[g]
        /\ UNCHANGED <<mailbox, emails, inserting, seen, page, rest>>
    BY <1>0, <1>9 DEF StartFetch, TypeOK
  <2>2. seen[f] = {} /\ page[f] = {}
    BY <2>1 DEF Walked
  <2>3. QED
    BY <2>1, <2>2 DEF Walked, Owed, Known
<1>10. ASSUME NEW f \in Fetcher, RefreshToken(f) PROVE Walked'
  <2>1. \A g \in Fetcher : pc'[g] = pc[g] \/ (pc[g] = "refresh" /\ pc'[g] = "write")
    BY <1>0, <1>10 DEF RefreshToken, TypeOK
  <2>2. QED
    BY <1>10, <1>a, <2>1, StepWalked DEF RefreshToken
<1>11. ASSUME NEW f \in Fetcher, ListPage(f) PROVE Walked'
  BY <1>11, ListWalked
<1>12. ASSUME NEW f \in Fetcher, NEW m \in Message, SkipKnown(f, m) PROVE Walked'
  BY <1>12, TakeWalked DEF SkipKnown, Known
<1>13. ASSUME NEW f \in Fetcher, NEW m \in Message, ReadNew(f, m) PROVE Walked'
  <2>1. \A g \in Fetcher : pc'[g] = pc[g] \/ (pc[g] = "page" /\ pc'[g] = "save")
    BY <1>0, <1>13 DEF ReadNew, TypeOK
  <2>2. QED
    BY <1>13, <1>a, <2>1, StepWalked DEF ReadNew
<1>14. ASSUME NEW f \in Fetcher, NEW m \in Message, SaveEmail(f, m) PROVE Walked'
  <2>1. /\ pc[f] = "save" /\ pc'[f] = "page" /\ \A g \in Fetcher \ {f} : pc'[g] = pc[g]
        /\ page' = [page EXCEPT ![f] = page[f] \ {m}]
        /\ UNCHANGED <<mailbox, emails, due, seen, rest>>
    BY <1>0, <1>14 DEF SaveEmail, TypeOK
  <2>2. /\ inserting[m] \in {None, f}
        /\ inserting' = IF m \in emails THEN inserting ELSE [inserting EXCEPT ![m] = f]
    BY <1>14 DEF SaveEmail
  <2>3. Known(f, m)' /\ \A g \in Fetcher, n \in Message : Known(g, n) => Known(g, n)'
    BY <2>1, <2>2 DEF Known, TypeOK
  <2>4. QED
    BY <2>1, <2>3, TakeWalked
<1>15. ASSUME NEW f \in Fetcher, NextPage(f) PROVE Walked'
  <2>1. \A g \in Fetcher : \/ pc'[g] = pc[g]
                           \/ pc[g] = "page" /\ pc'[g] = "list" /\ page[g] = {}
    BY <1>0, <1>15 DEF NextPage, TypeOK
  <2>2. QED
    BY <1>15, <1>a, <2>1, StepWalked DEF NextPage
<1>16. ASSUME NEW f \in Fetcher, FinishFetch(f) PROVE Walked'
  BY <1>0, <1>16, ForgetWalked DEF FinishFetch
<1>17. ASSUME NEW r \in Request, Abort(r) PROVE Walked'
  BY <1>17, ForgetWalked DEF Abort, Rollback
<1>18. ASSUME UNCHANGED vars PROVE Walked'
  BY <1>18, <1>a, StepWalked DEF vars
<1>20. QED
  BY <1>1, <1>2, <1>3, <1>4, <1>5, <1>6, <1>7, <1>8, <1>9, <1>10, <1>11, <1>12, <1>13,
     <1>14, <1>15, <1>16, <1>17, <1>18, <1>0 DEF Next, FetchStep, ConsentStep

-----------------------------------------------------------------------------
(* The promise of a fetch: EmailFetch implements Inbox.                    *)

\* What a fetch is given, and what it has inserted, comes from the mailbox.
Given ==
  /\ \A f \in Fetcher : page[f] \subseteq mailbox
  /\ \A m \in Message : inserting[m] # None => m \in mailbox

\* A step that gives up pages and rows, and takes nothing from the mailbox, keeps that.
LEMMA LessGiven ==
  ASSUME Given, mailbox \subseteq mailbox',
         \A f \in Fetcher : page'[f] \subseteq page[f],
         \A m \in Message : inserting'[m] \in {None, inserting[m]}
  PROVE  Given'
BY DEF Given

\* Every step keeps it.
LEMMA GivenInductive == TypeOK /\ Given /\ [Next]_vars => Given'
<1> SUFFICES ASSUME TypeOK, Given, [Next]_vars PROVE Given'
  OBVIOUS
<1>1. CASE UNCHANGED <<page, inserting>> /\ mailbox \subseteq mailbox'
  BY <1>1, LessGiven
<1>2. ASSUME NEW f \in Fetcher, ListPage(f) PROVE Given'
  <2>1. PICK P \in SUBSET Older(f) : page' = [page EXCEPT ![f] = P]
    BY <1>2 DEF ListPage
  <2>2. UNCHANGED <<mailbox, inserting>> /\ Older(f) \subseteq mailbox
    BY <1>2 DEF ListPage, Older
  <2>3. QED
    BY <2>1, <2>2 DEF Given, TypeOK
<1>3. ASSUME NEW f \in Fetcher, NEW m \in Message, SkipKnown(f, m) PROVE Given'
  BY <1>3, LessGiven DEF SkipKnown, TypeOK
<1>4. ASSUME NEW f \in Fetcher, NEW m \in Message, SaveEmail(f, m) PROVE Given'
  BY <1>4 DEF SaveEmail, Newest, Given, TypeOK
<1>5. ASSUME NEW r \in Request, Forget(r), inserting' = Released(r), mailbox' = mailbox
      PROVE  Given'
  BY <1>5, LessGiven DEF Forget, Released, TypeOK
<1>6. QED
  BY <1>1, <1>2, <1>3, <1>4, <1>5
     DEF Next, FetchStep, ConsentStep, Deliver, Lapse, Revoke, Consent, FindToken, InsertToken,
         WriteToken, CommitToken, StartFetch, RefreshToken, ReadNew, NextPage, FinishFetch,
         Abort, Rollback, Request, walk, vars

\* A step between a fetch's begin and its end is none of Inbox.
LEMMA Between ==
  ASSUME UNCHANGED <<mailbox, emails, due>>,
         \A f \in Fetcher : pc'[f] = "idle" <=> pc[f] = "idle"
  PROVE  UNCHANGED Abstract!vars
BY DEF Abstract!vars, Idle

\* A request that ends is one fetch that does, or a callback.
LEMMA ForgetEnds ==
  ASSUME TypeOK, NEW r \in Request, ~Idle(r), Forget(r), mailbox' = mailbox
  PROVE  /\ r \in Fetcher => Abstract!End(r)
         /\ r \notin Fetcher =>
              due' = due /\ \A f \in Fetcher : pc'[f] = "idle" <=> pc[f] = "idle"
<1>1. \A q \in Request : pc'[q] = IF q = r THEN "idle" ELSE pc[q]
  BY DEF Forget, Goto, TypeOK
<1>2. Fetcher \subseteq Request
  BY DEF Request
<1>3. ASSUME r \in Fetcher PROVE Abstract!End(r)
  <2>1. {f \in Fetcher : pc'[f] # "idle"} = {f \in Fetcher : pc[f] # "idle"} \ {r}
    BY <1>1, <1>2
  <2>2. due' = [due EXCEPT ![r] = {}]
    BY DEF Forget, TypeOK
  <2>3. QED
    BY <1>3, <2>1, <2>2 DEF Abstract!End, Idle
<1>4. ASSUME r \notin Fetcher
      PROVE  due' = due /\ \A f \in Fetcher : pc'[f] = "idle" <=> pc[f] = "idle"
  BY <1>1, <1>2, <1>4 DEF Forget, TypeOK
<1>5. QED
  BY <1>3, <1>4

\* The commit of a fetch stores its whole list, and nothing but messages.
LEMMA FinishStores ==
  ASSUME TypeOK, Walked, Given, NEW f \in Fetcher, FinishFetch(f)
  PROVE  Abstract!Store(f)
<1>1. /\ pc[f] = "page" /\ page[f] = {} /\ ~rest[f] /\ Forget(f) /\ mailbox' = mailbox
      /\ emails' = emails \cup {m \in Message : inserting[m] = f}
  BY DEF FinishFetch
<1>2. due[f] \subseteq seen[f] /\ seen[f] \subseteq emails'
  BY <1>1 DEF Walked, Owed, Known, TypeOK
<1>3. {m \in Message : inserting[m] = f} \in SUBSET mailbox
  BY FetchAssumption DEF Given
<1>4. Abstract!End(f)
  BY <1>1, ForgetEnds DEF Request, Idle
<1>5. QED
  BY <1>1, <1>2, <1>3, <1>4 DEF Abstract!Store

\* Every step is one of Inbox, or none.
LEMMA InboxStep ==
  ASSUME TypeOK, Walked, Given, [Next]_vars
  PROVE  [Abstract!Next]_(Abstract!vars)
<1> USE DEF row, walk, Idle, Goto
<1>0. Fetcher \subseteq Request /\ Callback \subseteq Request /\ Fetcher \cap Callback = {}
  BY DEF Request
<1>1. ASSUME NEW m \in Message, Deliver(m) PROVE Abstract!Deliver(m)
  BY <1>1 DEF Deliver, Abstract!Deliver
<1>2. ASSUME NEW f \in Fetcher, StartFetch(f) PROVE Abstract!Begin(f)
  <2>1. pc[f] = "idle" /\ \A g \in Fetcher : pc'[g] # "idle" <=> g = f \/ pc[g] # "idle"
    BY <1>0, <1>2 DEF StartFetch, TypeOK
  <2>2. {g \in Fetcher : pc'[g] # "idle"} = {g \in Fetcher : pc[g] # "idle"} \cup {f}
    BY <2>1
  <2>3. UNCHANGED <<mailbox, emails>> /\ due' = [due EXCEPT ![f] = mailbox]
    BY <1>2 DEF StartFetch
  <2>4. QED
    BY <2>1, <2>2, <2>3 DEF Abstract!Begin
<1>3. ASSUME NEW r \in Request, Abort(r)
      PROVE  (\E f \in Fetcher : Abstract!GiveUp(f)) \/ UNCHANGED Abstract!vars
  <2>1. ~Idle(r) /\ Forget(r) /\ UNCHANGED <<mailbox, emails>>
    BY <1>3 DEF Abort, Rollback
  <2>2. CASE r \in Fetcher
    BY <2>1, <2>2, ForgetEnds DEF Abstract!GiveUp
  <2>3. CASE r \notin Fetcher
    <3>1. due' = due /\ \A f \in Fetcher : pc'[f] = "idle" <=> pc[f] = "idle"
      BY <2>1, <2>3, ForgetEnds
    <3>2. QED
      BY <2>1, <3>1, Between
  <2>4. QED
    BY <2>2, <2>3
<1>4. ASSUME NEW f \in Fetcher, \/ RefreshToken(f) \/ WriteToken(f) \/ ListPage(f) \/ NextPage(f)
                                \/ \E m \in Message : \/ SkipKnown(f, m) \/ ReadNew(f, m)
                                                      \/ SaveEmail(f, m)
      PROVE  UNCHANGED Abstract!vars
  <2>1. UNCHANGED <<mailbox, emails, due>>
    BY <1>4 DEF RefreshToken, WriteToken, ListPage, NextPage, SkipKnown, ReadNew, SaveEmail
  <2>2. \A g \in Fetcher : pc'[g] = "idle" <=> pc[g] = "idle"
    BY <1>0, <1>4 DEF RefreshToken, WriteToken, ListPage, NextPage, SkipKnown, ReadNew,
                      SaveEmail, TypeOK
  <2>3. QED
    BY <2>1, <2>2, Between
<1>5. ASSUME NEW c \in Callback, \/ FindToken(c) \/ InsertToken(c) \/ WriteToken(c) \/ CommitToken(c)
                                 \/ \E refresh \in {"none", "live"} : Consent(c, refresh)
      PROVE  UNCHANGED Abstract!vars
  <2>1. UNCHANGED <<mailbox, emails, due>>
    BY <1>5 DEF FindToken, InsertToken, WriteToken, CommitToken, Consent
  <2>2. \A g \in Fetcher : pc'[g] = pc[g]
    BY <1>0, <1>5 DEF FindToken, InsertToken, WriteToken, CommitToken, Consent, TypeOK
  <2>3. QED
    BY <2>1, <2>2, Between
<1>6. ASSUME Lapse \/ Revoke \/ UNCHANGED vars PROVE UNCHANGED Abstract!vars
  BY <1>6, Between DEF Lapse, Revoke, vars
<1>7. ASSUME NEW f \in Fetcher, FinishFetch(f) PROVE Abstract!Store(f)
  BY <1>7, FinishStores
<1>8. CASE \E m \in Message : Deliver(m)
  BY <1>1, <1>8 DEF Abstract!Next
<1>9. CASE \E f \in Fetcher : StartFetch(f) \/ FinishFetch(f)
  BY <1>2, <1>7, <1>9 DEF Abstract!Next
<1>10. CASE \E r \in Request : Abort(r)
  BY <1>3, <1>10 DEF Abstract!Next
<1>11. QED
  BY <1>4, <1>5, <1>6, <1>8, <1>9, <1>10 DEF Next, FetchStep, ConsentStep

\* Whatever overlaps, fails or arrives meanwhile, and on however many pages, the rows of
\* emails are what Inbox promises: a fetch that ends has stored all that was in the
\* mailbox when it began, in one step, one that fails nothing, and no row is lost.
THEOREM KeepsItsPromise == Spec => ImplementsInbox
<1>1. Init => TypeOK /\ Found /\ Walked /\ Given
  BY FS_EmptySet DEF Init, TypeOK, Found, Walked, Given, Request
<1>2. Init => Abstract!Init
  BY DEF Init, Abstract!Init, Idle, Request
<1>3. TypeOK /\ Walked /\ Given /\ [Next]_vars => [Abstract!Next]_(Abstract!vars)
  BY InboxStep
<1>4. QED
  BY <1>1, <1>2, <1>3, TypeInductive, WalkedInductive, GivenInductive, PTL
     DEF Spec, ImplementsInbox, Abstract!Spec

-----------------------------------------------------------------------------
(* The refresh token.                                                      *)

Live(t) == t # None /\ t.refresh = "live"

\* What a request has written over a good token is good too, unless a withdrawal in
\* between makes the request fail (a fetch) or the write pointless (a callback).
Kept ==
  /\ \A f \in Fetcher : pc[f] = "write" => creds[f].refresh = "live" \/ ~Usable(creds[f])
  /\ \A f \in Fetcher : holder = f /\ (pc[f] \in {"page", "save"} \/ Usable(creds[f])) =>
       (Live(token) => Live(wtoken))
  /\ \A c \in Callback : holder = c /\ Live(token) => wtoken.refresh \in {"live", "dead"}

\* A withdrawn token is neither accepted nor usable.
LEMMA RevokedUseless ==
  \A t \in Token \cup {None} : ~Live(Revoked(t)) /\ (t # None => ~Usable(Revoked(t)))
BY DEF Live, Usable, Revoked, Token

\* A consent that brings no refresh token takes over the one that is there.
LEMMA MergedKeeps ==
  ASSUME NEW new \in Token, NEW old \in Token, Live(old)
  PROVE  /\ Merged(new, old).refresh \in {"live", "dead"}
         /\ new.refresh = "live" => Live(Merged(new, old))
BY DEF Merged, Live, Token

\* Ending a request releases its row and changes nobody else's.
LEMMA ForgetKept ==
  ASSUME TypeOK, Behind, Kept, NEW r \in Request, Forget(r),
         holder' = IF holder = r THEN None ELSE holder,
         wtoken' = IF holder = r THEN None ELSE wtoken,
         holder # r => token' = token
  PROVE  Kept'
<1> USE DEF TypeOK, Forget, Goto
<1>1. ASSUME NEW q \in Request, q # r PROVE pc'[q] = pc[q] /\ creds'[q] = creds[q]
  BY <1>1
<1>2. pc'[r] = "idle"
  OBVIOUS
<1>3. ASSUME NEW q \in Request, holder' = q
      PROVE  q # r /\ holder = q /\ wtoken' = wtoken /\ token' = token
  BY <1>3 DEF Request
<1>4. Fetcher \subseteq Request /\ Callback \subseteq Request
  BY DEF Request
<1>5. \A f \in Fetcher : pc'[f] = "write" => creds'[f].refresh = "live" \/ ~Usable(creds'[f])
  BY <1>1, <1>2, <1>4 DEF Kept
<1>6. \A f \in Fetcher : holder' = f /\ (pc'[f] \in {"page", "save"} \/ Usable(creds'[f])) =>
        (Live(token') => Live(wtoken'))
  BY <1>1, <1>3, <1>4 DEF Kept
<1>7. \A c \in Callback : holder' = c /\ Live(token') => wtoken'.refresh \in {"live", "dead"}
  BY <1>3, <1>4 DEF Kept
<1>8. QED
  BY <1>5, <1>6, <1>7 DEF Kept, Live, Usable

\* Every step keeps it.
LEMMA KeptInductive == TypeOK /\ Found /\ Behind /\ Kept /\ [Next]_vars => Kept'
<1> SUFFICES ASSUME TypeOK, Found, Behind, Kept, [Next]_vars PROVE Kept'
  OBVIOUS
<1> USE DEF row, walk, Idle, Goto, TypeOK
<1>0. /\ Fetcher \subseteq Request /\ Callback \subseteq Request
      /\ Fetcher \cap Callback = {} /\ None \notin Request
  BY DEF Request
<1>1. ASSUME NEW m \in Message, Deliver(m) PROVE Kept'
  BY <1>1 DEF Deliver, Kept, Live, Usable
<1>2. ASSUME Lapse PROVE Kept'
  <2>1. token \in Token /\ token' \in Token /\ token'.refresh = token.refresh
    BY <1>2 DEF Lapse, Token
  <2>2. Live(token') => Live(token)
    BY <2>1 DEF Live
  <2>3. UNCHANGED <<holder, wtoken, pc, creds>>
    BY <1>2 DEF Lapse
  <2>4. QED
    BY <2>2, <2>3 DEF Kept, Live, Usable
<1>3. ASSUME Revoke PROVE Kept'
  <2>1. ~Live(token')
    BY <1>3, RevokedUseless DEF Revoke
  <2>2. \A f \in Fetcher : pc'[f] = "write" => ~Usable(creds'[f])
    BY <1>0, <1>3, RevokedUseless DEF Revoke
  <2>3. QED
    BY <2>1, <2>2 DEF Kept, Live, Usable
<1>4. ASSUME NEW c \in Callback, NEW refresh \in {"none", "live"}, Consent(c, refresh)
      PROVE Kept'
  BY <1>0, <1>4 DEF Consent, Kept, Live, Usable
<1>5. ASSUME NEW c \in Callback, FindToken(c) PROVE Kept'
  BY <1>0, <1>5 DEF FindToken, Kept, Live, Usable
<1>6. ASSUME NEW c \in Callback, InsertToken(c) PROVE Kept'
  <2>1. token' = None /\ holder' = c /\ pc'[c] = "commit" /\ creds' = creds
        /\ \A f \in Fetcher : pc'[f] = pc[f]
    BY <1>0, <1>6 DEF InsertToken
  <2>2. QED
    BY <1>0, <2>1 DEF Kept, Live, Usable
<1>7. ASSUME NEW r \in Request, WriteToken(r) PROVE Kept'
  <2>1. creds[r] \in Token /\ token \in Token /\ pc[r] = "write"
    BY <1>7 DEF WriteToken, Found
  <2>2. /\ holder' = r /\ wtoken' = Merged(creds[r], token) /\ UNCHANGED <<token, creds>>
        /\ pc'[r] # "write" /\ \A q \in Request \ {r} : pc'[q] = pc[q]
        /\ pc'[r] \notin {"page", "save"}
    BY <1>7 DEF WriteToken
  <2>3. Live(token) => /\ wtoken'.refresh \in {"live", "dead"}
                       /\ creds[r].refresh = "live" => Live(wtoken')
    BY <2>1, <2>2, MergedKeeps
  <2>4. r \in Fetcher => creds[r].refresh = "live" \/ ~Usable(creds[r])
    BY <2>1 DEF Kept
  <2>5. QED
    BY <1>0, <2>2, <2>3, <2>4 DEF Kept, Live, Usable
<1>8. ASSUME NEW c \in Callback, CommitToken(c) PROVE Kept'
  <2>1. /\ holder' = (IF holder = c THEN None ELSE holder)
        /\ token' = (IF holder = c THEN wtoken ELSE token)
        /\ wtoken' = (IF holder = c THEN None ELSE wtoken)
        /\ pc'[c] = "idle" /\ \A q \in Request \ {c} : pc'[q] = pc[q] /\ creds'[q] = creds[q]
    BY <1>0, <1>8 DEF CommitToken, CommitRow
  <2>2. CASE holder = c
    BY <1>0, <2>1, <2>2 DEF Kept, Live, Usable
  <2>3. CASE holder # c
    BY <1>0, <2>1, <2>3 DEF Kept, Live, Usable
  <2>4. QED
    BY <2>2, <2>3
<1>9. ASSUME NEW f \in Fetcher, StartFetch(f) PROVE Kept'
  <2>1. holder # f
    BY <1>0, <1>9 DEF StartFetch, Behind
  <2>2. /\ pc'[f] \in {"refresh", "list"} /\ UNCHANGED <<token, holder, wtoken>>
        /\ \A q \in Request \ {f} : pc'[q] = pc[q] /\ creds'[q] = creds[q]
    BY <1>0, <1>9 DEF StartFetch
  <2>3. QED
    BY <1>0, <2>1, <2>2 DEF Kept, Live, Usable
<1>10. ASSUME NEW f \in Fetcher, RefreshToken(f) PROVE Kept'
  <2>1. holder # f
    BY <1>0, <1>10 DEF RefreshToken, Behind
  <2>2. creds[f] \in Token /\ creds[f].refresh = "live"
          /\ creds'[f] = [creds[f] EXCEPT !.access = "ok"]
    BY <1>0, <1>10 DEF RefreshToken
  <2>3. creds'[f].refresh = "live"
    BY <2>2 DEF Token
  <2>4. /\ pc'[f] = "write" /\ UNCHANGED <<token, holder, wtoken>>
        /\ \A q \in Request \ {f} : pc'[q] = pc[q] /\ creds'[q] = creds[q]
    BY <1>0, <1>10 DEF RefreshToken
  <2>5. QED
    BY <1>0, <2>1, <2>3, <2>4 DEF Kept, Live, Usable
<1>11. ASSUME NEW f \in Fetcher, ListPage(f) PROVE Kept'
  <2>1. /\ Usable(creds[f]) /\ pc'[f] = "page" /\ UNCHANGED <<token, holder, wtoken, creds>>
        /\ \A q \in Request \ {f} : pc'[q] = pc[q]
    BY <1>0, <1>11 DEF ListPage
  <2>2. QED
    BY <1>0, <2>1 DEF Kept, Live, Usable
<1>12. ASSUME NEW f \in Fetcher, NEW m \in Message, SkipKnown(f, m) PROVE Kept'
  BY <1>12 DEF SkipKnown, Kept, Live, Usable
<1>13. ASSUME NEW f \in Fetcher, NEW m \in Message, ReadNew(f, m) PROVE Kept'
  <2>1. /\ pc[f] = "page" /\ pc'[f] = "save" /\ UNCHANGED <<token, holder, wtoken, creds>>
        /\ \A q \in Request \ {f} : pc'[q] = pc[q]
    BY <1>0, <1>13 DEF ReadNew
  <2>2. QED
    BY <1>0, <2>1 DEF Kept, Live, Usable
<1>14. ASSUME NEW f \in Fetcher, NEW m \in Message, SaveEmail(f, m) PROVE Kept'
  <2>1. /\ pc[f] = "save" /\ pc'[f] = "page" /\ UNCHANGED <<token, holder, wtoken, creds>>
        /\ \A q \in Request \ {f} : pc'[q] = pc[q]
    BY <1>0, <1>14 DEF SaveEmail
  <2>2. QED
    BY <1>0, <2>1 DEF Kept, Live, Usable
<1>15. ASSUME NEW f \in Fetcher, NextPage(f) PROVE Kept'
  <2>1. /\ pc'[f] = "list" /\ UNCHANGED <<token, holder, wtoken, creds>>
        /\ \A q \in Request \ {f} : pc'[q] = pc[q]
    BY <1>0, <1>15 DEF NextPage
  <2>2. QED
    BY <1>0, <1>15, <2>1 DEF Kept, Live, Usable, NextPage
<1>16. ASSUME NEW f \in Fetcher, FinishFetch(f) PROVE Kept'
  <2>1. f \in Request /\ Forget(f) /\ CommitRow(f)
    BY <1>0, <1>16 DEF FinishFetch
  <2>2. QED
    BY <2>1, ForgetKept DEF CommitRow
<1>17. ASSUME NEW r \in Request, Abort(r) PROVE Kept'
  BY <1>17, ForgetKept DEF Abort, Rollback
<1>18. ASSUME UNCHANGED vars PROVE Kept'
  BY <1>18 DEF vars, Kept, Live, Usable
<1>20. QED
  BY <1>1, <1>2, <1>3, <1>4, <1>5, <1>6, <1>7, <1>8, <1>9, <1>10, <1>11, <1>12, <1>13,
     <1>14, <1>15, <1>16, <1>17, <1>18, <1>0 DEF Next, FetchStep, ConsentStep

\* Whatever consents and fetches overlap, a refresh token Google accepts leaves the
\* account's row only by the owner's withdrawal, or with a consent that was withdrawn.
THEOREM GoodTokenStays == Spec => ConsentSticks
<1> DEFINE A == token # None /\ token.refresh = "live" =>
                  \/ Revoke
                  \/ token' # None /\ token'.refresh = "live"
                  \/ \E c \in Callback : CommitToken(c) /\ wtoken.refresh = "dead"
<1>1. TypeOK /\ Behind /\ Kept /\ [Next]_vars => [A]_vars
  <2> SUFFICES ASSUME TypeOK, Behind, Kept, Next, Live(token), ~Revoke, ~Live(token')
               PROVE  \E c \in Callback : CommitToken(c) /\ wtoken.refresh = "dead"
    BY DEF vars, Live
  <2> USE DEF TypeOK
  <2>1. token' # token
    BY DEF Live
  <2>2. \/ Lapse
        \/ \E c \in Callback : CommitToken(c)
        \/ \E f \in Fetcher : FinishFetch(f)
    BY <2>1 DEF Next, FetchStep, ConsentStep, Deliver, Consent, FindToken, row,
           InsertToken, WriteToken, StartFetch, RefreshToken, ListPage, SkipKnown,
           ReadNew, SaveEmail, NextPage, Abort, Rollback
  <2>3. ~Lapse
    <3>1. token \in Token
      BY DEF Live
    <3>2. Lapse => Live(token')
      BY <3>1 DEF Lapse, Live, Token
    <3>3. QED
      BY <3>2
  <2>4. ASSUME NEW f \in Fetcher, FinishFetch(f) PROVE FALSE
    <3>1. holder = f /\ token' = wtoken /\ pc[f] = "page"
      BY <2>1, <2>4 DEF FinishFetch, CommitRow
    <3>2. Live(wtoken)
      BY <3>1 DEF Kept
    <3>3. QED
      BY <3>1, <3>2
  <2>5. ASSUME NEW c \in Callback, CommitToken(c) PROVE wtoken.refresh = "dead"
    <3>1. holder = c /\ token' = wtoken /\ wtoken # None
      BY <2>1, <2>5 DEF CommitToken, CommitRow
    <3>2. wtoken.refresh \in {"live", "dead"}
      BY <3>1 DEF Kept
    <3>3. QED
      BY <3>1, <3>2 DEF Live
  <2>6. QED
    BY <2>2, <2>3, <2>4, <2>5
<1>2. Init => TypeOK /\ Found /\ Behind /\ Kept
  BY DEF Init, TypeOK, Found, Behind, Kept, Request
<1>3. QED
  BY <1>1, <1>2, TypeInductive, BehindInductive, KeptInductive, PTL DEF Spec, ConsentSticks
=============================================================================
