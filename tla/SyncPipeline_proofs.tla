------------------------ MODULE SyncPipeline_proofs -------------------------
(***************************************************************************)
(* SyncPipeline for every number of requests, time to live and run length: *)
(* its type invariant, the exclusion the lock gives when no run outlives   *)
(* it, and the accounting of failed steps.                                 *)
(***************************************************************************)
EXTENDS SyncPipeline, TLAPS

USE SyncAssumption DEF Steps, Label

\* The state of POST /sync keeps its types.
THEOREM TypeCorrect == Spec => []TypeOK
<1>1. Init => TypeOK
  BY DEF Init, TypeOK
<1>2. TypeOK /\ [Next]_vars => TypeOK'
  <2> SUFFICES ASSUME TypeOK, [Next]_vars PROVE TypeOK'
    OBVIOUS
  <2> USE DEF TypeOK, lock, result, Goto
  <2>1. CASE Tick
    BY <2>1 DEF Tick, Running
  <2>2. ASSUME NEW r \in Request, Acquire(r) \/ AcquireUnanswered(r) \/ Refuse(r)
        PROVE TypeOK'
    BY <2>2 DEF Acquire, AcquireUnanswered, Refuse
  <2>3. ASSUME NEW r \in Request, CreateRun(r) \/ RecordRun(r)
        PROVE TypeOK'
    BY <2>3 DEF CreateRun, RecordRun
  <2>4. ASSUME NEW r \in Request,
               StepCommits(r) \/ StepRaises(r) \/ CommitRaises(r) \/ CommitUnanswered(r)
        PROVE TypeOK'
    <3>1. pc[r] \in Steps /\ NextLabel[pc[r]] \in Label
      BY <2>4 DEF StepCommits, MayFail, StepRaises, CommitRaises, CommitUnanswered, NextLabel
    <3>2. QED
      BY <2>4, <3>1 DEF StepCommits, MayFail, StepRaises, CommitRaises, CommitUnanswered
  <2>5. ASSUME NEW r \in Request, Propagate(r) \/ Crash(r)
        PROVE TypeOK'
    BY <2>5 DEF Propagate, Crash, Lands, Forget
  <2>6. ASSUME NEW r \in Request, Release(r) \/ ReleaseFails(r)
        PROVE TypeOK'
    BY <2>6 DEF Release, ReleaseFails
  <2>7. CASE UNCHANGED vars
    BY <2>7 DEF vars
  <2>8. QED
    BY <2>1, <2>2, <2>3, <2>4, <2>5, <2>6, <2>7 DEF Next, Execute
<1>3. QED
  BY <1>1, <1>2, PTL DEF Spec

-----------------------------------------------------------------------------
(* Why the lock excludes: a running request's key is still there, with     *)
(* exactly the ticks left that the request has not used.                   *)

LockCoversRun ==
  \A r \in Request : Running(r) => key = r /\ ttl = LOCK_TTL - age[r]

\* README.md:27: while no run outlives the lock's time to live, at most one sync
\* runs, whatever crashes, cancellations and Redis failures happen.
THEOREM Exclusion == MaxRun < LOCK_TTL => (Spec => []MutualExclusion)
<1> SUFFICES ASSUME MaxRun < LOCK_TTL PROVE Spec => []MutualExclusion
  OBVIOUS
<1>1. Init => LockCoversRun
  BY DEF Init, LockCoversRun, Running
<1>2. TypeOK /\ LockCoversRun /\ [Next]_vars => LockCoversRun'
  <2> SUFFICES ASSUME TypeOK, LockCoversRun, [Next]_vars PROVE LockCoversRun'
    OBVIOUS
  <2> USE DEF TypeOK, LockCoversRun, Running, lock, result, Goto
  <2>1. CASE Tick
    <3> SUFFICES ASSUME NEW r \in Request, Running(r)
                 PROVE key' = r /\ ttl' = LOCK_TTL - age'[r]
      BY <2>1 DEF Tick
    <3>1. age[r] < MaxRun /\ age'[r] = age[r] + 1
      BY <2>1 DEF Tick
    <3>2. ttl > 1
      BY <3>1
    <3>3. QED
      BY <2>1, <3>1, <3>2 DEF Tick
  <2>2. ASSUME NEW r \in Request, Acquire(r)
        PROVE LockCoversRun'
    BY <2>2 DEF Acquire
  <2>3. ASSUME NEW r \in Request, AcquireUnanswered(r) \/ Refuse(r)
        PROVE LockCoversRun'
    BY <2>3 DEF AcquireUnanswered, Refuse
  <2>4. ASSUME NEW r \in Request, Execute(r) \/ Propagate(r)
        PROVE LockCoversRun'
    <3>1. Running(r) /\ UNCHANGED <<key, ttl, age>> /\ \A q \in Request \ {r} : pc'[q] = pc[q]
      BY <2>4 DEF Execute, CreateRun, StepCommits, MayFail, StepRaises, CommitRaises,
                  CommitUnanswered, RecordRun, Propagate, Lands, Forget
    <3>2. QED
      BY <3>1
  <2>5. ASSUME NEW r \in Request, Release(r)
        PROVE LockCoversRun'
    BY <2>5 DEF Release
  <2>6. ASSUME NEW r \in Request, ReleaseFails(r) \/ Crash(r)
        PROVE LockCoversRun'
    BY <2>6 DEF ReleaseFails, Crash, Lands, Forget
  <2>7. CASE UNCHANGED vars
    BY <2>7 DEF vars
  <2>8. QED
    BY <2>1, <2>2, <2>3, <2>4, <2>5, <2>6, <2>7 DEF Next
<1>3. LockCoversRun => MutualExclusion
  BY DEF LockCoversRun, MutualExclusion
<1>4. QED
  BY <1>1, <1>2, <1>3, TypeCorrect, PTL DEF Spec

-----------------------------------------------------------------------------
(* The accounting holds step by step: what a request has passed is sorted, *)
(* what lies ahead is untouched.                                           *)

Passed(label) ==
  CASE label = "parse" -> {"fetch"}
    [] label = "match" -> {"fetch", "parse"}
    [] label = "resolve_solo" -> {"fetch", "parse", "match"}
    [] label = "record" -> Steps
    [] OTHER -> {}

Accounting ==
  \A r \in Request :
    /\ pc[r] \in {"idle", "create", "fetch", "parse", "match", "resolve_solo", "record"} =>
         /\ Passed(pc[r]) \ errors[r] \subseteq committed[r] \cap counted[r]
         /\ run[r] # "finished"
    /\ run[r] = "finished" => Steps \ errors[r] \subseteq committed[r] \cap counted[r]

\* sync_pipeline.py:72-117: a step that a finished run reports no error of is in the
\* database and counted, a lost reply to any of the commits included.
THEOREM Accounted == Spec => []EveryStepAccountedFor
<1>1. Init => Accounting
  BY DEF Init, Accounting, Passed
<1>2. TypeOK /\ Accounting /\ [Next]_vars => Accounting'
  <2> SUFFICES ASSUME TypeOK, Accounting, [Next]_vars PROVE Accounting'
    OBVIOUS
  <2> USE DEF TypeOK, Accounting, lock, result, Goto
  <2>1. CASE Tick \/ UNCHANGED vars
    BY <2>1 DEF Tick, vars
  <2>2. ASSUME NEW r \in Request, Acquire(r) \/ CreateRun(r)
        PROVE Accounting'
    BY <2>2 DEF Acquire, CreateRun, Passed
  <2>3. ASSUME NEW r \in Request,
               StepCommits(r) \/ StepRaises(r) \/ CommitRaises(r) \/ CommitUnanswered(r)
        PROVE Accounting'
    <3>1. pc[r] \in Steps /\ pc'[r] = NextLabel[pc[r]] /\ run' = run
      BY <2>3 DEF StepCommits, MayFail, StepRaises, CommitRaises, CommitUnanswered, NextLabel
    <3>2. /\ Passed(pc'[r]) = Passed(pc[r]) \cup {pc[r]}
          /\ pc'[r] \in {"parse", "match", "resolve_solo", "record"}
      BY <3>1 DEF NextLabel, Passed
    <3>3. \A q \in Request \ {r} :
            /\ pc'[q] = pc[q] /\ errors'[q] = errors[q]
            /\ counted'[q] = counted[q] /\ committed'[q] = committed[q]
      BY <2>3 DEF StepCommits, MayFail, StepRaises, CommitRaises, CommitUnanswered
    <3>4. Passed(pc'[r]) \ errors'[r] \subseteq committed'[r] \cap counted'[r]
      <4>1. CASE StepCommits(r)
        BY <4>1, <3>1, <3>2 DEF StepCommits
      <4>2. CASE StepRaises(r)
        BY <4>2, <3>1, <3>2 DEF MayFail, StepRaises
      <4>3. CASE CommitRaises(r)
        BY <4>3, <3>1, <3>2 DEF MayFail, CommitRaises
      <4>4. CASE CommitUnanswered(r)
        BY <4>4, <3>1, <3>2 DEF MayFail, CommitUnanswered
      <4>5. QED
        BY <2>3, <4>1, <4>2, <4>3, <4>4
    <3>5. QED
      BY <3>1, <3>2, <3>3, <3>4
  <2>4. ASSUME NEW r \in Request, RecordRun(r)
        PROVE Accounting'
    BY <2>4 DEF RecordRun, Passed
  <2>5. ASSUME NEW r \in Request,
               AcquireUnanswered(r) \/ Refuse(r) \/ Release(r) \/ ReleaseFails(r)
        PROVE Accounting'
    BY <2>5 DEF AcquireUnanswered, Refuse, Release, ReleaseFails
  <2>6. ASSUME NEW r \in Request, Propagate(r) \/ Crash(r)
        PROVE Accounting'
    <3>1. pc'[r] \in {"release", "done"} 
      BY <2>6 DEF Propagate, Crash
    <3>2. /\ committed[r] \subseteq committed'[r]
          /\ run'[r] = "finished" =>
               /\ run[r] = "finished" \/ pc[r] = "record"
               /\ errors'[r] = errors[r] /\ counted'[r] = counted[r]
      BY <2>6 DEF Propagate, Crash, Lands, Forget
    <3>3. \A q \in Request \ {r} :
            /\ pc'[q] = pc[q] /\ run'[q] = run[q] /\ committed'[q] = committed[q]
            /\ errors'[q] = errors[q] /\ counted'[q] = counted[q]
      BY <2>6 DEF Propagate, Crash, Lands, Forget
    <3>4. QED
      BY <3>1, <3>2, <3>3 DEF Passed
  <2>7. QED
    BY <2>1, <2>2, <2>3, <2>4, <2>5, <2>6 DEF Next, Execute
<1>3. Accounting => EveryStepAccountedFor
  BY DEF Accounting, EveryStepAccountedFor
<1>4. QED
  BY <1>1, <1>2, <1>3, TypeCorrect, PTL DEF Spec
=============================================================================
