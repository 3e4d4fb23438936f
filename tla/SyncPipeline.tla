---------------------------- MODULE SyncPipeline ----------------------------
(***************************************************************************)
(* POST /sync: the handler run_sync takes the Redis lock                   *)
(* mailbook:sync_lock, runs SyncPipeline.execute, and deletes the lock     *)
(* whatever happened.  The pipeline creates a ProcessingRun row, runs four *)
(* steps - each commits, or is noted in the run's errors and rolled back,  *)
(* which undoes nothing when only the reply to its commit was lost - and   *)
(* writes the outcome back to the row.                                     *)
(*                                                                         *)
(* The lock has a time to live and its value is always "1", so Redis       *)
(* cannot tell whose lock a DELETE removes; `key` remembers who set it     *)
(* only for the properties to speak about.                                 *)
(***************************************************************************)
EXTENDS Integers, FiniteSets

CONSTANTS
  Request,   \* requests to POST /sync, each sent once
  LOCK_TTL,  \* sync_lock_ttl_seconds, in clock ticks
  MaxRun,    \* no request runs longer than this many ticks
  MaxFailures, \* no request has more failing steps than this; a run has four
  Faults,    \* TRUE: processes crash, clients disconnect, Redis goes away
  None

ASSUME SyncAssumption ==
  /\ LOCK_TTL \in Nat \ {0}
  /\ MaxRun \in Nat
  /\ MaxFailures \in Nat
  /\ Faults \in BOOLEAN
  /\ None \notin Request

VARIABLES
  key,        \* the request that set the lock, None when there is no lock
  ttl,        \* ticks until Redis expires the key
  age,        \* ticks since a request took the lock
  pc,         \* where the request is
  run,        \* its processing_runs row: "none", "open" (finished_at NULL), "finished"
  errors,     \* the steps in result.errors, then in the finished row's
  counted,    \* the steps whose counters are in the result
  committed   \* the steps whose work is in the database

vars == <<key, ttl, age, pc, run, errors, counted, committed>>

Steps == {"fetch", "parse", "match", "resolve_solo"}
Label == {"idle", "create", "record", "release", "done"} \cup Steps

\* Where execute goes after each step, however the step ended.
NextLabel ==
  [fetch |-> "parse", parse |-> "match", match |-> "resolve_solo", resolve_solo |-> "record"]

Running(r) == pc[r] \notin {"idle", "done"}

TypeOK ==
  /\ key \in Request \cup {None}
  /\ ttl \in 0..LOCK_TTL
  /\ age \in [Request -> 0..MaxRun]
  /\ pc \in [Request -> Label]
  /\ run \in [Request -> {"none", "open", "finished"}]
  /\ errors \in [Request -> SUBSET Steps]
  /\ counted \in [Request -> SUBSET Steps]
  /\ committed \in [Request -> SUBSET Steps]

Init ==
  /\ key = None
  /\ ttl = 0
  /\ age = [r \in Request |-> 0]
  /\ pc = [r \in Request |-> "idle"]
  /\ run = [r \in Request |-> "none"]
  /\ errors = [r \in Request |-> {}]
  /\ counted = [r \in Request |-> {}]
  /\ committed = [r \in Request |-> {}]

Goto(r, label) == pc' = [pc EXCEPT ![r] = label]
lock   == <<key, ttl>>
result == <<errors, counted, committed>>

-----------------------------------------------------------------------------
(* The lock.                                                               *)

\* Seeded fault: SET EX without NX.
AcquireWithoutNX(r) ==
  /\ pc[r] = "idle"
  /\ key' = r
  /\ ttl' = LOCK_TTL
  /\ age' = [age EXCEPT ![r] = 0]
  /\ Goto(r, "create")
  /\ UNCHANGED <<run, result>>

\* Seeded fault: SET NX without EX; a key with ttl 0 has no expiry.
AcquireWithoutEX(r) ==
  /\ pc[r] = "idle"
  /\ key = None
  /\ key' = r
  /\ ttl' = 0
  /\ age' = [age EXCEPT ![r] = 0]
  /\ Goto(r, "create")
  /\ UNCHANGED <<run, result>>

\* Seeded fault: milliseconds given for seconds.
AcquireMilliseconds(r) ==
  /\ pc[r] = "idle"
  /\ key = None
  /\ key' = r
  /\ ttl' = 1000 * LOCK_TTL
  /\ age' = [age EXCEPT ![r] = 0]
  /\ Goto(r, "create")
  /\ UNCHANGED <<run, result>>

\* SET NX EX succeeds.
Acquire(r) ==
  /\ pc[r] = "idle"
  /\ key = None
  /\ key' = r
  /\ ttl' = LOCK_TTL
  /\ age' = [age EXCEPT ![r] = 0]
  /\ Goto(r, "create")
  /\ UNCHANGED <<run, result>>

\* 409 Conflict; or Redis cannot be reached and the handler raises.
Refuse(r) ==
  /\ pc[r] = "idle"
  /\ key # None \/ Faults
  /\ Goto(r, "done")
  /\ UNCHANGED <<lock, age, run, result>>

\* SET NX EX succeeds and its reply is lost: the handler raises before its try, so
\* nobody will delete the key.
AcquireUnanswered(r) ==
  /\ Faults
  /\ pc[r] = "idle"
  /\ key = None
  /\ key' = r
  /\ ttl' = LOCK_TTL
  /\ Goto(r, "done")
  /\ UNCHANGED <<age, run, result>>

\* The finally clause: DELETE, whoever's lock is there.
Release(r) ==
  /\ pc[r] = "release"
  /\ key' = None
  /\ ttl' = 0
  /\ Goto(r, "done")
  /\ UNCHANGED <<age, run, result>>

\* The DELETE itself fails: the key stays until it expires.
ReleaseFails(r) ==
  /\ Faults
  /\ pc[r] = "release"
  /\ Goto(r, "done")
  /\ UNCHANGED <<lock, age, run, result>>

\* Time passes for the key and for the requests alike.
Tick ==
  /\ \A r \in Request : Running(r) => age[r] < MaxRun
  /\ age' = [r \in Request |-> IF Running(r) THEN age[r] + 1 ELSE 0]
  /\ ttl' = IF ttl > 0 THEN ttl - 1 ELSE 0
  /\ key' = IF ttl = 1 THEN None ELSE key
  /\ UNCHANGED <<pc, run, result>>

-----------------------------------------------------------------------------
(* SyncPipeline.execute.                                                   *)

\* The result is a local of execute: what leaves by an exception leaves none, but
\* for the row that the last commit may have written all the same.
Forget(r) ==
  IF run'[r] = "finished" THEN UNCHANGED <<errors, counted>>
  ELSE /\ errors' = [errors EXCEPT ![r] = {}]
       /\ counted' = [counted EXCEPT ![r] = {}]

CreateRun(r) ==
  /\ pc[r] = "create"
  /\ run' = [run EXCEPT ![r] = "open"]
  /\ Goto(r, "fetch")
  /\ UNCHANGED <<lock, age, result>>

StepCommits(r) ==
  /\ pc[r] \in Steps
  /\ counted' = [counted EXCEPT ![r] = @ \cup {pc[r]}]
  /\ committed' = [committed EXCEPT ![r] = @ \cup {pc[r]}]
  /\ Goto(r, NextLabel[pc[r]])
  /\ UNCHANGED <<lock, age, run, errors>>

MayFail(r) == pc[r] \in Steps /\ Cardinality(errors[r]) < MaxFailures

\* Seeded fault: the exception is swallowed.
StepRaisesSilently(r) ==
  /\ MayFail(r)
  /\ Goto(r, NextLabel[pc[r]])
  /\ UNCHANGED <<lock, age, run, result>>

\* The work of a step raises: noted, rolled back, and on to the next step.
StepRaises(r) ==
  /\ MayFail(r)
  /\ errors' = [errors EXCEPT ![r] = @ \cup {pc[r]}]
  /\ Goto(r, NextLabel[pc[r]])
  /\ UNCHANGED <<lock, age, run, counted, committed>>

\* The work succeeds and its counters are copied into the result, then the
\* commit raises, refused by the database: the counters stay, the work is rolled back.
CommitRaises(r) ==
  /\ MayFail(r)
  /\ counted' = [counted EXCEPT ![r] = @ \cup {pc[r]}]
  /\ errors' = [errors EXCEPT ![r] = @ \cup {pc[r]}]
  /\ Goto(r, NextLabel[pc[r]])
  /\ UNCHANGED <<lock, age, run, committed>>

\* The same except clause when the commit is done and its reply is lost: the
\* step is noted as failed, and there is nothing left to roll back.
CommitUnanswered(r) ==
  /\ MayFail(r)
  /\ counted' = [counted EXCEPT ![r] = @ \cup {pc[r]}]
  /\ errors' = [errors EXCEPT ![r] = @ \cup {pc[r]}]
  /\ committed' = [committed EXCEPT ![r] = @ \cup {pc[r]}]
  /\ Goto(r, NextLabel[pc[r]])
  /\ UNCHANGED <<lock, age, run>>

RecordRun(r) ==
  /\ pc[r] = "record"
  /\ run' = [run EXCEPT ![r] = "finished"]
  /\ Goto(r, "release")
  /\ UNCHANGED <<lock, age, result>>

\* The commit a request was at is done although the request heard no more of it.
Lands(r) ==
  /\ run' = CASE pc[r] = "create" -> [run EXCEPT ![r] = "open"]
              [] pc[r] = "record" -> [run EXCEPT ![r] = "finished"]
              [] OTHER            -> run
  /\ committed' = [committed EXCEPT ![r] = @ \cup ({pc[r]} \cap Steps)]

\* Creating or updating the run's row raises, or the request is cancelled in any
\* step (CancelledError is no Exception), the commit done or not: straight to the
\* finally clause, and the result is gone unless the row has it.
Propagate(r) ==
  /\ pc[r] \in {"create", "record"} \/ (Faults /\ pc[r] \in Steps)
  /\ Lands(r) \/ UNCHANGED <<run, committed>>
  /\ Forget(r)
  /\ Goto(r, "release")
  /\ UNCHANGED <<lock, age>>

Crash(r) ==
  /\ Faults
  /\ Running(r)
  /\ Lands(r) \/ UNCHANGED <<run, committed>>
  /\ Forget(r)
  /\ Goto(r, "done")
  /\ UNCHANGED <<lock, age>>

Execute(r) ==
  \/ CreateRun(r)
  \/ StepCommits(r) \/ StepRaises(r) \/ CommitRaises(r) \/ CommitUnanswered(r)
  \/ RecordRun(r)

Next ==
  \/ Tick
  \/ \E r \in Request : Acquire(r) \/ AcquireUnanswered(r) \/ Refuse(r)
  \/ \E r \in Request : Execute(r) \/ Propagate(r)
  \/ \E r \in Request : Release(r) \/ ReleaseFails(r) \/ Crash(r)

\* The event loop runs a request on, Redis runs its clock.
FairSpec ==
  /\ Init /\ [][Next]_vars
  /\ WF_vars(Tick)
  /\ \A r \in Request : WF_vars(Execute(r)) /\ WF_vars(Release(r))

Spec == Init /\ [][Next]_vars

-----------------------------------------------------------------------------
(* Properties.                                                             *)

\* At most one sync runs (README.md:27).  True as long as no run outlives the
\* lock: the DELETE in finally then removes the request's own key.
MutualExclusion ==
  \A r, q \in Request : Running(r) /\ Running(q) => r = q

\* Failures are contained and none is lost: a step of which a finished run reports
\* no error is in the database, with its counters in the result - whichever of the
\* steps raised before or after it, and whether in its work, in its commit or for
\* want of the commit's reply.  (The converse fails in the last of these: a step
\* reported as failed may be in the database.)
EveryStepAccountedFor ==
  \A r \in Request : run[r] = "finished" =>
    Steps \ errors[r] \subseteq committed[r] \cap counted[r]

\* Whatever happens to its holder, a crash included, the lock comes free.
LockComesFree == key # None ~> key = None
=============================================================================
