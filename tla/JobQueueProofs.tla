---------------------------- MODULE JobQueueProofs ----------------------------
(***************************************************************************)
(* Theorems about the durable scan queue, for every number of objects,     *)
(* workers, rows, attempts and faults.                                     *)
(***************************************************************************)
EXTENDS JobQueue, TLAPS

RowStates == {"absent", "queued", "running", "completed", "failed", "purged"}
ThreadPcs == {"idle", "handling", "returned", "raised", "deadletter", "dead"}

\* A claim yields a row.
LEMMA ClaimTyped ==
  ASSUME NEW r \in Row, NEW w \in Workers
  PROVE  Leased(r, w) \in Row
<1>1. ASSUME NEW n \in Nat
      PROVE  [r EXCEPT !.state = "running", !.attempts = n, !.owner = w, !.live = TRUE]
               \in Row
  BY DEF Row
<1>2. r.attempts + 1 \in Nat
  BY DEF Row
<1>3. QED
  BY <1>1, <1>2 DEF Leased

\* Giving up a lease yields a row.
LEMMA UnleaseTyped ==
  ASSUME NEW r \in Row, NEW s \in RowStates, NEW b \in BOOLEAN
  PROVE  [r EXCEPT !.state = s, !.ready = b, !.owner = NoWorker, !.live = FALSE] \in Row
BY DEF Row, RowStates

\* So do the single-column updates.
LEMMA ColumnTyped ==
  ASSUME NEW r \in Row, NEW b \in BOOLEAN
  PROVE  /\ [r EXCEPT !.live = b] \in Row
         /\ [r EXCEPT !.ready = b] \in Row
         /\ [r EXCEPT !.state = "purged"] \in Row
<1>1. [r EXCEPT !.live = b] \in Row
  BY DEF Row
<1>2. [r EXCEPT !.ready = b] \in Row
  BY DEF Row
<1>3. [r EXCEPT !.state = "purged"] \in Row
  BY DEF Row
<1>4. QED
  BY <1>1, <1>2, <1>3

\* Every assignment the queue makes to a thread yields a thread.
LEMMA ThreadTyped ==
  ASSUME NEW t \in Thread, NEW p \in ThreadPcs
  PROVE  /\ [t EXCEPT !.pc = p] \in Thread
         /\ IdleThread \in Thread
BY DEF Thread, ThreadPcs, IdleThread

\* The shape of every step on the table: unchanged, one row set, or rewritten.
LEMMA FunctionTyped ==
  ASSUME NEW S, NEW T, NEW f \in [S -> T], NEW i, NEW e, i \in S => e \in T
  PROVE  [f EXCEPT ![i] = e] \in [S -> T]
OBVIOUS

\* No step puts anything but rows in the table.
LEMMA JobsTyped ==
  ASSUME TypeOK, [Next]_queueVars
  PROVE  jobs' \in [JobIds -> Row]
<1> DEFINE J == jobs \in [JobIds -> Row]
<1>0. J /\ work \in [Workers -> Thread]
  BY DEF TypeOK
<1>1. ASSUME NEW o \in Objects, Submit(o)
      PROVE  J'
  <2>1. [obj |-> o, state |-> "queued", attempts |-> 0,
         ready |-> TRUE, live |-> FALSE, owner |-> NoWorker] \in Row
    BY DEF Row
  <2>2. QED
    BY <1>0, <1>1, <2>1, FunctionTyped DEF Submit
<1>2. ASSUME NEW w \in Workers, Claim(w)
      PROVE  J'
  <2>1. PICK i \in JobIds : jobs' = [jobs EXCEPT ![i] = Leased(jobs[i], w)]
    BY <1>2 DEF Claim
  <2>2. QED
    BY <1>0, <2>1, ClaimTyped
<1>3. ASSUME NEW i, NEW s \in RowStates, NEW b \in BOOLEAN, jobs' = Unlease(i, s, b)
      PROVE  J'
  <2>1. i \in JobIds => [jobs[i] EXCEPT !.state = s, !.ready = b,
                                        !.owner = NoWorker, !.live = FALSE] \in Row
    BY <1>0, UnleaseTyped
  <2>2. QED
    BY <1>0, <1>3, <2>1, FunctionTyped DEF Unlease
<1>4. ASSUME NEW w \in Workers, Settle(w)
      PROVE  J'
  <2>1. \/ jobs' = jobs
        \/ jobs' = Unlease(work[w].job, "completed", TRUE)
        \/ jobs' = Unlease(work[w].job, "queued", FALSE)
        \/ jobs' = Unlease(work[w].job, "failed", TRUE)
    BY <1>4 DEF Settle, Complete, Retry, Fail, DeadLetterDone
  <2>2. QED
    BY <1>0, <1>3, <2>1 DEF RowStates
<1>5. ASSUME NEW i, NEW b \in BOOLEAN,
             \/ jobs' = [jobs EXCEPT ![i].live = b]
             \/ jobs' = [jobs EXCEPT ![i].ready = b]
      PROVE  J'
  <2>1. i \in JobIds => /\ [jobs[i] EXCEPT !.live = b] \in Row
                        /\ [jobs[i] EXCEPT !.ready = b] \in Row
    BY <1>0, ColumnTyped
  <2>2. QED
    BY <1>0, <1>5, <2>1, FunctionTyped
<1>6. ASSUME NEW w \in Workers, Heartbeat(w) \/ LeaseLost(w)
      PROVE  J'
  BY <1>5, <1>6 DEF Heartbeat, LeaseLost
<1>7. ASSUME NEW i \in JobIds, BackoffElapses(i) \/ LeaseLapses(i)
      PROVE  J'
  BY <1>5, <1>7 DEF BackoffElapses, LeaseLapses
<1>8. CASE Start
  <2>1. ASSUME NEW i \in JobIds
        PROVE  [jobs[i] EXCEPT !.state = "queued", !.ready = TRUE,
                               !.owner = NoWorker, !.live = FALSE] \in Row
    BY <1>0, UnleaseTyped DEF RowStates
  <2>2. QED
    BY <1>0, <1>8, <2>1 DEF Start
<1>9. CASE PurgeCompleted
  <2>1. ASSUME NEW i \in JobIds
        PROVE  [jobs[i] EXCEPT !.state = "purged"] \in Row
    BY <1>0, ColumnTyped
  <2>2. QED
    BY <1>0, <1>9, <2>1 DEF PurgeCompleted
<1>10. CASE UNCHANGED jobs
  BY <1>0, <1>10
<1>11. QED
  BY <1>1, <1>2, <1>4, <1>6, <1>7, <1>8, <1>9, <1>10
     DEF Next, queueVars, HandlerEnds, HandlerReturns, HandlerRaises, ThreadDies, Crash

\* No step puts anything but threads in the pool.
LEMMA WorkTyped ==
  ASSUME TypeOK, [Next]_queueVars
  PROVE  work' \in [Workers -> Thread]
<1>0. work \in [Workers -> Thread] /\ jobs \in [JobIds -> Row]
  BY DEF TypeOK
<1>1. ASSUME NEW w \in Workers, NEW p \in ThreadPcs,
             \/ work' = [work EXCEPT ![w].pc = p]
             \/ work' = [work EXCEPT ![w] = IdleThread]
      PROVE  work' \in [Workers -> Thread]
  <2>1. [work[w] EXCEPT !.pc = p] \in Thread /\ IdleThread \in Thread
    BY <1>0, ThreadTyped
  <2>2. QED
    BY <1>0, <1>1, <2>1, FunctionTyped
<1>2. ASSUME NEW w \in Workers, Claim(w)
      PROVE  work' \in [Workers -> Thread]
  <2>1. PICK i \in JobIds :
          work' = [work EXCEPT ![w] = [pc |-> "handling", job |-> i,
                                       attempts |-> jobs[i].attempts + 1]]
    BY <1>2 DEF Claim
  <2>2. [pc |-> "handling", job |-> i, attempts |-> jobs[i].attempts + 1] \in Thread
    BY <1>0 DEF Row, Thread
  <2>3. QED
    BY <1>0, <2>1, <2>2, FunctionTyped
<1>3. ASSUME NEW w \in Workers, HandlerEnds(w) \/ Settle(w) \/ ThreadDies(w)
      PROVE  work' \in [Workers -> Thread]
  <2>1. \/ work' = [work EXCEPT ![w] = IdleThread]
        \/ work' = [work EXCEPT ![w].pc = "returned"]
        \/ work' = [work EXCEPT ![w].pc = "raised"]
        \/ work' = [work EXCEPT ![w].pc = "deadletter"]
        \/ work' = [work EXCEPT ![w].pc = "dead"]
    BY <1>3 DEF HandlerEnds, HandlerReturns, HandlerRaises, Settle, Complete, Retry,
                Fail, DeadLetterDone, ThreadDies
  <2>2. QED
    BY <1>1, <2>1 DEF ThreadPcs
<1>4. CASE Crash
  BY <1>0, <1>4, ThreadTyped DEF Crash, ThreadPcs, IdleThread, Thread
<1>5. CASE UNCHANGED work
  BY <1>0, <1>5
<1>6. QED
  BY <1>2, <1>3, <1>4, <1>5
     DEF Next, queueVars, Submit, Heartbeat, LeaseLost, BackoffElapses, LeaseLapses,
         Start, PurgeCompleted

\* The table, the thread states and the counters keep their types.
THEOREM TypeCorrect == Spec => []TypeOK
<1>1. Init => TypeOK
  BY QueueConstants DEF Init, TypeOK, NoRow, Row, IdleThread, Thread, JobIds
<1>2. TypeOK /\ [Next]_queueVars => TypeOK'
  <2> SUFFICES ASSUME TypeOK, [Next]_queueVars
               PROVE  TypeOK'
    OBVIOUS
  <2>1. jobs' \in [JobIds -> Row] /\ work' \in [Workers -> Thread]
    BY JobsTyped, WorkTyped
  <2>2. nextId' \in 1..(MaxJobs + 1)
    <3>1. UNCHANGED nextId \/ (nextId \in JobIds /\ nextId' = nextId + 1)
      BY DEF Next, queueVars, Submit, Claim, HandlerEnds, HandlerReturns, HandlerRaises,
             Settle, Complete, Retry, Fail, DeadLetterDone, Heartbeat, LeaseLost,
             ThreadDies, BackoffElapses, LeaseLapses, Crash, Start, PurgeCompleted
    <3>2. QED
      BY <3>1, QueueConstants DEF TypeOK, JobIds
  <2>3. up' \in BOOLEAN /\ faults' \in 0..MaxFaults
    <3>1. UNCHANGED faults \/ (faults < MaxFaults /\ faults' = faults + 1)
      BY DEF Next, queueVars, Submit, Claim, HandlerEnds, HandlerReturns, HandlerRaises,
             Settle, Complete, Retry, Fail, DeadLetterDone, Heartbeat, LeaseLost, Fault,
             ThreadDies, BackoffElapses, LeaseLapses, Crash, Start, PurgeCompleted
    <3>2. up' \in {TRUE, FALSE, up}
      BY DEF Next, queueVars, Submit, Claim, HandlerEnds, HandlerReturns, HandlerRaises,
             Settle, Complete, Retry, Fail, DeadLetterDone, Heartbeat, LeaseLost,
             ThreadDies, BackoffElapses, LeaseLapses, Crash, Start, PurgeCompleted
    <3>3. up' \in BOOLEAN
      BY <3>2 DEF TypeOK
    <3>4. faults' \in 0..MaxFaults
      BY <3>1, QueueConstants DEF TypeOK
    <3>5. QED
      BY <3>3, <3>4
  <2>4. QED
    BY <2>1, <2>2, <2>3 DEF TypeOK
<1>3. QED
  BY <1>1, <1>2, PTL DEF Spec

------------------------------------------------------------------------------
(* The inductive invariant.  Each lemma below shows that one kind of step  *)
(* preserves it; the first step of each says what the step does to the row *)
(* and the thread it touches, column by column.                            *)

\* Outside a crash a thread is the only one a step moves.
OthersKeep(w) == \A v \in Workers : v # w => work'[v] = work[v]

\* A row is the only one a step changes.
RestKeeps(i) == \A k \in JobIds : k # i => jobs'[k] = jobs[k]


\* Nothing the invariant speaks of changes when nothing changes.
LEMMA StutterPreserves ==
  ASSUME QueueInv, UNCHANGED queueVars
  PROVE  QueueInv'
BY DEF queueVars, QueueInv, OwnersAgree, ThreadsHaveJobs, OneActiveRow, FaultFree,
       AttemptsSpare, AttemptsAccounted, GivenUpOnlyAfterMaxAttempts, DeadLettersFailed,
       DeadLetteredOnce, FreshIdsAbsent, ActiveRowsSane, Busy, Active, Holds

\* A submission adds a queued row with a fresh id, or does nothing.
LEMMA SubmitPreserves ==
  ASSUME TypeOK, QueueInv, NEW o \in Objects, Submit(o)
  PROVE  QueueInv'
<1>1. CASE UNCHANGED queueVars
  BY <1>1, StutterPreserves
<1>2. CASE ~ UNCHANGED queueVars
  <2>1. /\ nextId \in JobIds
        /\ \A i \in JobIds : Active(i) => jobs[i].obj # o
        /\ nextId' = nextId + 1
        /\ RestKeeps(nextId)
        /\ jobs'[nextId].obj = o
        /\ jobs'[nextId].state = "queued"
        /\ jobs'[nextId].attempts = 0
        /\ UNCHANGED <<work, up, faults>>
    BY <1>2 DEF Submit, queueVars, RestKeeps, TypeOK
  <2>2. jobs[nextId].state = "absent"
    BY <2>1 DEF QueueInv, FreshIdsAbsent, TypeOK, JobIds
  <2>3. OwnersAgree'
    BY <2>1 DEF QueueInv, RestKeeps, OwnersAgree, Busy
  <2>4. ThreadsHaveJobs'
    BY <2>1 DEF QueueInv, ThreadsHaveJobs, Busy
  <2>5. FaultFree'
    BY <2>1, <2>2 DEF QueueInv, RestKeeps, FaultFree, Busy, Holds, ThreadsHaveJobs
  <2>6. OneActiveRow'
    BY <2>1 DEF QueueInv, RestKeeps, OneActiveRow, Active
  <2>7. AttemptsSpare'
    BY <2>1, QueueConstants DEF QueueInv, TypeOK, RestKeeps, AttemptsSpare
  <2>8. AttemptsAccounted' /\ GivenUpOnlyAfterMaxAttempts'
    BY <2>1, QueueConstants
       DEF QueueInv, TypeOK, RestKeeps, AttemptsAccounted, GivenUpOnlyAfterMaxAttempts
  <2>9. DeadLettersFailed' /\ DeadLetteredOnce'
    BY <2>1, <2>2 DEF QueueInv, RestKeeps, DeadLettersFailed, DeadLetteredOnce, ThreadsHaveJobs
  <2>10. FreshIdsAbsent' /\ ActiveRowsSane'
    BY <2>1 DEF QueueInv, TypeOK, RestKeeps, FreshIdsAbsent, ActiveRowsSane, Active, JobIds
  <2>11. QED
    BY <2>3, <2>4, <2>5, <2>6, <2>7, <2>8, <2>9, <2>10 DEF QueueInv
<1>3. QED
  BY <1>1, <1>2

\* What a claim does to a row.
LEMMA LeasedColumns ==
  ASSUME NEW r \in Row, NEW w
  PROVE  /\ Leased(r, w).state = "running" /\ Leased(r, w).owner = w
         /\ Leased(r, w).live = TRUE /\ Leased(r, w).obj = r.obj
         /\ Leased(r, w).attempts = r.attempts + 1
BY DEF Leased, Row

\* A claim takes a row that is queued, or whose lease ran out, for a thread
\* that held none.
LEMMA ClaimPreserves ==
  ASSUME TypeOK, QueueInv, NEW w \in Workers, Claim(w)
  PROVE  QueueInv'
<1>1. PICK i \in JobIds :
        /\ Claimable(i)
        /\ jobs' = [jobs EXCEPT ![i] = Leased(jobs[i], w)]
        /\ work' = [work EXCEPT ![w] = [pc |-> "handling", job |-> i,
                                        attempts |-> jobs[i].attempts + 1]]
  BY DEF Claim
<1>2. /\ RestKeeps(i)
      /\ jobs'[i].state = "running" /\ jobs'[i].owner = w /\ jobs'[i].live = TRUE
      /\ jobs'[i].obj = jobs[i].obj
      /\ jobs'[i].attempts = jobs[i].attempts + 1
  <2>1. jobs'[i] = Leased(jobs[i], w) /\ jobs[i] \in Row /\ RestKeeps(i)
    BY <1>1 DEF TypeOK, RestKeeps
  <2>2. /\ Leased(jobs[i], w).state = "running" /\ Leased(jobs[i], w).owner = w
        /\ Leased(jobs[i], w).live = TRUE /\ Leased(jobs[i], w).obj = jobs[i].obj
        /\ Leased(jobs[i], w).attempts = jobs[i].attempts + 1
    BY <2>1, LeasedColumns
  <2>3. QED
    BY <2>1, <2>2
<1>3. /\ OthersKeep(w)
      /\ work'[w].pc = "handling" /\ work'[w].job = i
      /\ work'[w].attempts = jobs[i].attempts + 1
      /\ UNCHANGED <<nextId, up, faults>>
      /\ up /\ work[w].pc = "idle"
  BY <1>1 DEF Claim, OthersKeep, TypeOK
<1>4. /\ Active(i)
      /\ jobs[i].state = "queued" \/ (jobs[i].state = "running" /\ ~jobs[i].live)
      /\ jobs[i].attempts \in Nat
      /\ faults \in Nat
  BY <1>1, QueueConstants DEF Claimable, Active, TypeOK, Row
<1>5. jobs[i].attempts < MaxAttempts + faults
  BY <1>4 DEF QueueInv, AttemptsSpare
<1>6. OwnersAgree'
  BY <1>2, <1>3 DEF QueueInv, RestKeeps, OthersKeep, OwnersAgree, Busy
<1>7. ThreadsHaveJobs'
  BY <1>3 DEF QueueInv, OthersKeep, ThreadsHaveJobs, Busy
<1>8. FaultFree'
  BY <1>2, <1>3, <1>4 DEF QueueInv, RestKeeps, OthersKeep, FaultFree, Busy, Holds, ThreadsHaveJobs
<1>9. OneActiveRow'
  BY <1>2, <1>4 DEF QueueInv, RestKeeps, OneActiveRow, Active
<1>10. AttemptsSpare'
  <2>1. ASSUME NEW k \in JobIds, k # i, jobs[k].state = "running"
        PROVE  work'[jobs'[k].owner] = work[jobs[k].owner]
    BY <1>2, <1>3, <2>1 DEF QueueInv, RestKeeps, OthersKeep, OwnersAgree, Busy
  <2>2. ASSUME NEW k \in JobIds, k # i, 
               \/ jobs'[k].state = "queued"
               \/ /\ jobs'[k].state = "running"
                  /\ ~up' \/ ~jobs'[k].live \/ work'[jobs'[k].owner].pc = "dead"
        PROVE  jobs'[k].attempts < MaxAttempts + faults'
    BY <1>2, <1>3, <2>1, <2>2 DEF QueueInv, RestKeeps, AttemptsSpare
  <2>3. QED
    BY <1>2, <1>3, <2>2 DEF AttemptsSpare
<1>11. AttemptsAccounted'
  BY <1>2, <1>3, <1>4, <1>5, QueueConstants DEF QueueInv, RestKeeps, AttemptsAccounted
<1>12. GivenUpOnlyAfterMaxAttempts' /\ DeadLetteredOnce'
  BY <1>2, <1>3 DEF QueueInv, RestKeeps, OthersKeep, GivenUpOnlyAfterMaxAttempts, DeadLetteredOnce
<1>13. DeadLettersFailed'
  BY <1>2, <1>3, <1>4 DEF QueueInv, RestKeeps, OthersKeep, DeadLettersFailed, ThreadsHaveJobs
<1>14. FreshIdsAbsent'
  BY <1>2, <1>3, <1>4 DEF QueueInv, RestKeeps, FreshIdsAbsent
<1>15. ActiveRowsSane'
  BY <1>2, <1>4 DEF QueueInv, RestKeeps, ActiveRowsSane, Active
<1>16. QED
  BY <1>6, <1>7, <1>8, <1>9, <1>10, <1>11, <1>12, <1>13, <1>14, <1>15 DEF QueueInv

\* A step that moves one thread and no row: a handler ends, a stale claim is
\* dropped, the dead-letter callback is over, or the thread dies.
LEMMA ThreadStepPreserves ==
  ASSUME TypeOK, QueueInv, NEW w \in Workers, OthersKeep(w),
         UNCHANGED <<jobs, nextId, up>>,
         \/ work'[w].job = work[w].job /\ work'[w].attempts = work[w].attempts
         \/ work'[w].pc = "idle",
         \/ /\ Busy(w) /\ work'[w].pc \in {"returned", "raised"}
            /\ faults' = faults
         \/ /\ work'[w].pc = "idle" /\ faults' = faults
            /\ (Busy(w) /\ ~Holds(w, work[w].job)) \/ work[w].pc = "deadletter"
         \/ /\ work'[w].pc = "dead" /\ faults' = faults + 1 /\ up
            /\ work[w].pc \in {"idle", "returned", "raised"}
  PROVE  QueueInv'
<1>1. faults \in Nat /\ faults' \in Nat /\ faults <= faults'
      /\ (faults' = 0 => faults = 0 /\ work'[w].pc # "dead")
  BY QueueConstants DEF TypeOK
<1>2. OwnersAgree'
  BY DEF QueueInv, OthersKeep, OwnersAgree, Busy, Holds
<1>3. ThreadsHaveJobs'
  BY DEF QueueInv, OthersKeep, ThreadsHaveJobs, Busy
<1>4. FaultFree'
  BY <1>1 DEF QueueInv, OthersKeep, FaultFree, Busy, Holds
<1>5. AttemptsSpare'
  <2>1. ASSUME NEW i \in JobIds,
               \/ jobs[i].state = "queued"
               \/ /\ jobs[i].state = "running"
                  /\ ~up \/ ~jobs[i].live \/ work'[jobs[i].owner].pc = "dead"
        PROVE  jobs[i].attempts < MaxAttempts + faults'
    <3>0. jobs[i].attempts \in Nat /\ jobs[i].attempts <= MaxAttempts + faults
      BY DEF QueueInv, AttemptsAccounted, TypeOK, Row
    <3>1. CASE jobs[i].attempts < MaxAttempts + faults
      BY <1>1, <3>0, <3>1, QueueConstants
    <3>2. CASE /\ jobs[i].state = "running"
               /\ work'[jobs[i].owner].pc = "dead"
               /\ work[jobs[i].owner].pc # "dead"
      <4>1. faults' = faults + 1
        BY <3>2 DEF QueueInv, OwnersAgree, OthersKeep
      <4>2. QED
        BY <1>1, <3>0, <4>1, QueueConstants
    <3>3. QED
      BY <2>1, <3>1, <3>2 DEF QueueInv, AttemptsSpare
  <2>2. QED
    BY <2>1 DEF AttemptsSpare
<1>6. AttemptsAccounted'
  BY <1>1, QueueConstants DEF QueueInv, TypeOK, Row, AttemptsAccounted
<1>7. OneActiveRow' /\ GivenUpOnlyAfterMaxAttempts' /\ FreshIdsAbsent' /\ ActiveRowsSane'
  BY DEF QueueInv, OneActiveRow, GivenUpOnlyAfterMaxAttempts, FreshIdsAbsent,
         ActiveRowsSane, Active
<1>8. DeadLettersFailed' /\ DeadLetteredOnce'
  BY DEF QueueInv, OthersKeep, DeadLettersFailed, DeadLetteredOnce, Busy
<1>9. QED
  BY <1>2, <1>3, <1>4, <1>5, <1>6, <1>7, <1>8 DEF QueueInv

\* The three outcomes a worker records in the row it holds.
LEMMA ReleasePreserves ==
  ASSUME TypeOK, QueueInv, NEW w \in Workers, NEW i \in JobIds,
         Busy(w), i = work[w].job, Holds(w, i),
         OthersKeep(w), RestKeeps(i), UNCHANGED <<nextId, up, faults>>,
         jobs'[i].obj = jobs[i].obj /\ jobs'[i].attempts = jobs[i].attempts,
         \/ jobs'[i].state = "completed" /\ work'[w].pc = "idle"
         \/ /\ jobs'[i].state = "queued" /\ work'[w].pc = "idle"
            /\ work[w].attempts < MaxAttempts
         \/ /\ jobs'[i].state = "failed" /\ work'[w].pc = "deadletter" /\ work'[w].job = i
            /\ work[w].attempts >= MaxAttempts
  PROVE  QueueInv'
<1>1. up /\ jobs[i].state = "running" /\ jobs[i].owner = w
  BY DEF QueueInv, ThreadsHaveJobs, Busy, Holds
<1>2. jobs[i].attempts = work[w].attempts /\ jobs[i].attempts \in Nat /\ faults \in Nat
  BY <1>1, QueueConstants DEF QueueInv, OwnersAgree, TypeOK, Row
<1>3. ASSUME NEW k \in JobIds, jobs'[k].state = "running"
      PROVE  /\ k # i /\ jobs'[k] = jobs[k]
             /\ jobs[k].owner \in Workers
             /\ work'[jobs'[k].owner] = work[jobs[k].owner]
  <2>1. k # i /\ jobs'[k] = jobs[k]
    BY <1>3 DEF RestKeeps
  <2>2. jobs[k].owner \in Workers /\ work[jobs[k].owner].job = k
    BY <1>1, <1>3, <2>1 DEF QueueInv, OwnersAgree
  <2>3. QED
    BY <2>1, <2>2 DEF OthersKeep
<1>4. OwnersAgree'
  BY <1>3 DEF QueueInv, OwnersAgree, Busy
<1>5. ThreadsHaveJobs'
  BY <1>1 DEF QueueInv, OthersKeep, ThreadsHaveJobs, Busy
<1>6. FaultFree'
  BY <1>1, <1>3 DEF QueueInv, OthersKeep, RestKeeps, FaultFree, Busy, Holds, ThreadsHaveJobs
<1>7. OneActiveRow'
  BY <1>1 DEF QueueInv, RestKeeps, OneActiveRow, Active
<1>8. AttemptsSpare'
  <2>1. ASSUME NEW k \in JobIds,
               \/ jobs'[k].state = "queued"
               \/ /\ jobs'[k].state = "running"
                  /\ ~up' \/ ~jobs'[k].live \/ work'[jobs'[k].owner].pc = "dead"
        PROVE  jobs'[k].attempts < MaxAttempts + faults'
    <3>1. CASE k = i
      BY <1>2, <2>1, <3>1, QueueConstants
    <3>2. CASE k # i
      BY <1>3, <2>1, <3>2 DEF QueueInv, RestKeeps, AttemptsSpare
    <3>3. QED
      BY <3>1, <3>2
  <2>2. QED
    BY <2>1 DEF AttemptsSpare
<1>9. AttemptsAccounted' /\ GivenUpOnlyAfterMaxAttempts'
  BY <1>2 DEF QueueInv, RestKeeps, AttemptsAccounted, GivenUpOnlyAfterMaxAttempts
<1>10. DeadLettersFailed'
  BY <1>1 DEF QueueInv, OthersKeep, RestKeeps, DeadLettersFailed, ThreadsHaveJobs
<1>11. DeadLetteredOnce'
  BY <1>1 DEF QueueInv, OthersKeep, DeadLettersFailed, DeadLetteredOnce
<1>12. FreshIdsAbsent' /\ ActiveRowsSane'
  BY <1>1 DEF QueueInv, RestKeeps, FreshIdsAbsent, ActiveRowsSane, Active
<1>13. QED
  BY <1>4, <1>5, <1>6, <1>7, <1>8, <1>9, <1>10, <1>11, <1>12 DEF QueueInv

\* A step that only renews or loses the lease of a row, or makes it due.
LEMMA LeaseStepPreserves ==
  ASSUME TypeOK, QueueInv, NEW i \in JobIds, RestKeeps(i), UNCHANGED <<nextId, work, up>>,
         jobs'[i].obj = jobs[i].obj /\ jobs'[i].attempts = jobs[i].attempts,
         jobs'[i].state = jobs[i].state /\ jobs'[i].owner = jobs[i].owner,
         \/ faults' = faults /\ (jobs[i].live => jobs'[i].live)
         \/ faults' = faults + 1
         \/ /\ faults' = faults
            /\ work[jobs[i].owner].pc = "dead" /\ jobs[i].state = "running"
  PROVE  QueueInv'
<1>1. faults \in Nat /\ faults' \in Nat /\ faults <= faults' /\ (faults' = 0 => faults = 0)
  BY QueueConstants DEF TypeOK
<1>2. /\ \A k \in JobIds : /\ jobs'[k].state = jobs[k].state
                           /\ jobs'[k].obj = jobs[k].obj
                           /\ jobs'[k].owner = jobs[k].owner
                           /\ jobs'[k].attempts = jobs[k].attempts
  BY DEF RestKeeps
<1>3. OwnersAgree' /\ ThreadsHaveJobs'
  BY <1>2 DEF QueueInv, OwnersAgree, ThreadsHaveJobs, Busy
<1>4. FaultFree'
  BY <1>1, <1>2 DEF QueueInv, RestKeeps, FaultFree, Busy, Holds, ThreadsHaveJobs, OwnersAgree
<1>5. AttemptsSpare'
  <2>1. ASSUME NEW k \in JobIds,
               \/ jobs[k].state = "queued"
               \/ /\ jobs[k].state = "running"
                  /\ ~up \/ ~jobs'[k].live \/ work[jobs[k].owner].pc = "dead"
        PROVE  jobs[k].attempts < MaxAttempts + faults'
    <3>0. jobs[k].attempts \in Nat /\ jobs[k].attempts <= MaxAttempts + faults
      BY DEF QueueInv, AttemptsAccounted, TypeOK, Row
    <3>1. CASE jobs[k].attempts < MaxAttempts + faults
      BY <1>1, <3>0, <3>1, QueueConstants
    <3>2. CASE faults' = faults + 1
      BY <1>1, <3>0, <3>2, QueueConstants
    <3>3. QED
      BY <2>1, <3>1, <3>2 DEF QueueInv, RestKeeps, AttemptsSpare
  <2>2. QED
    BY <1>2, <2>1 DEF AttemptsSpare
<1>6. AttemptsAccounted' /\ GivenUpOnlyAfterMaxAttempts'
  <2>1. ASSUME NEW k \in JobIds
        PROVE  jobs[k].attempts <= MaxAttempts + faults'
    BY <1>1, QueueConstants DEF QueueInv, TypeOK, Row, AttemptsAccounted
  <2>2. QED
    BY <1>2, <2>1 DEF QueueInv, AttemptsAccounted, GivenUpOnlyAfterMaxAttempts
<1>7. OneActiveRow' /\ FreshIdsAbsent' /\ ActiveRowsSane'
  BY <1>2 DEF QueueInv, OneActiveRow, FreshIdsAbsent, ActiveRowsSane, Active
<1>8. DeadLettersFailed' /\ DeadLetteredOnce'
  BY <1>2 DEF QueueInv, DeadLettersFailed, DeadLetteredOnce, ThreadsHaveJobs
<1>9. QED
  BY <1>3, <1>4, <1>5, <1>6, <1>7, <1>8 DEF QueueInv

\* A crash leaves the table and forgets the threads.
LEMMA CrashPreserves ==
  ASSUME TypeOK, QueueInv, Crash
  PROVE  QueueInv'
<1>1. /\ UNCHANGED <<jobs, nextId>> /\ ~up' /\ up /\ faults' = faults + 1
      /\ \A w \in Workers : work'[w].pc = "idle"
      /\ faults \in Nat
  BY QueueConstants DEF Crash, Fault, IdleThread, TypeOK
<1>2. AttemptsAccounted' /\ AttemptsSpare'
  <2>1. ASSUME NEW i \in JobIds
        PROVE  jobs[i].attempts <= MaxAttempts + faults
    BY DEF QueueInv, AttemptsAccounted
  <2>2. ASSUME NEW i \in JobIds
        PROVE  jobs[i].attempts < MaxAttempts + faults'
    BY <1>1, <2>1, QueueConstants DEF TypeOK, Row
  <2>3. QED
    BY <1>1, <2>2, QueueConstants DEF AttemptsAccounted, AttemptsSpare, TypeOK, Row
<1>3. OwnersAgree' /\ ThreadsHaveJobs'
  BY <1>1 DEF QueueInv, OwnersAgree, ThreadsHaveJobs, Busy
<1>4. FaultFree'
  BY <1>1 DEF FaultFree
<1>5. OneActiveRow' /\ GivenUpOnlyAfterMaxAttempts' /\ FreshIdsAbsent' /\ ActiveRowsSane'
  BY <1>1 DEF QueueInv, OneActiveRow, GivenUpOnlyAfterMaxAttempts, FreshIdsAbsent,
              ActiveRowsSane, Active
<1>6. DeadLettersFailed' /\ DeadLetteredOnce'
  BY <1>1 DEF DeadLettersFailed, DeadLetteredOnce
<1>7. QED
  BY <1>2, <1>3, <1>4, <1>5, <1>6 DEF QueueInv

\* start() queues the running rows of the dead process again.
LEMMA StartPreserves ==
  ASSUME TypeOK, QueueInv, Start
  PROVE  QueueInv'
<1>1. ~up /\ up' /\ UNCHANGED <<nextId, work, faults>>
  BY DEF Start
<1>2. ASSUME NEW i \in JobIds
      PROVE  /\ jobs'[i].obj = jobs[i].obj
             /\ jobs'[i].attempts = jobs[i].attempts
             /\ jobs'[i].state = IF jobs[i].state = "running" THEN "queued" ELSE jobs[i].state
  BY DEF Start, TypeOK, Row
<1>3. \A w \in Workers : work'[w].pc = "idle"
  BY <1>1 DEF QueueInv, ThreadsHaveJobs
<1>4. OwnersAgree' /\ ThreadsHaveJobs'
  BY <1>1, <1>2, <1>3 DEF OwnersAgree, ThreadsHaveJobs, Busy
<1>5. FaultFree'
  BY <1>1 DEF QueueInv, FaultFree
<1>6. OneActiveRow'
  BY <1>2 DEF QueueInv, OneActiveRow, Active
<1>7. AttemptsSpare'
  BY <1>1, <1>2 DEF QueueInv, AttemptsSpare
<1>8. AttemptsAccounted' /\ GivenUpOnlyAfterMaxAttempts'
  BY <1>1, <1>2 DEF QueueInv, AttemptsAccounted, GivenUpOnlyAfterMaxAttempts
<1>9. DeadLettersFailed' /\ DeadLetteredOnce'
  BY <1>3 DEF DeadLettersFailed, DeadLetteredOnce
<1>10. FreshIdsAbsent' /\ ActiveRowsSane'
  BY <1>1, <1>2 DEF QueueInv, FreshIdsAbsent, ActiveRowsSane, Active
<1>11. QED
  BY <1>4, <1>5, <1>6, <1>7, <1>8, <1>9, <1>10 DEF QueueInv

\* Purging deletes finished rows only.
LEMMA PurgePreserves ==
  ASSUME TypeOK, QueueInv, PurgeCompleted
  PROVE  QueueInv'
<1>1. up /\ UNCHANGED <<nextId, work, up, faults>>
  BY DEF PurgeCompleted
<1>2. ASSUME NEW i \in JobIds
      PROVE  \/ jobs'[i] = jobs[i]
             \/ /\ jobs[i].state \in {"completed", "failed"}
                /\ jobs'[i].state = "purged"
                /\ jobs'[i].attempts = jobs[i].attempts
  <2>1. PICK S \in SUBSET {k \in JobIds : Finished(k)} :
          jobs' = [k \in JobIds |-> IF k \in S
                                    THEN [jobs[k] EXCEPT !.state = "purged"]
                                    ELSE jobs[k]]
    BY DEF PurgeCompleted
  <2>2. QED
    BY <1>2, <2>1 DEF Finished, TypeOK, Row
<1>3. OwnersAgree' /\ ThreadsHaveJobs'
  BY <1>1, <1>2 DEF QueueInv, OwnersAgree, ThreadsHaveJobs, Busy
<1>4. FaultFree'
  BY <1>1, <1>2 DEF QueueInv, FaultFree, Busy, Holds, ThreadsHaveJobs
<1>5. OneActiveRow'
  BY <1>2 DEF QueueInv, OneActiveRow, Active
<1>6. AttemptsSpare'
  BY <1>1, <1>2 DEF QueueInv, AttemptsSpare
<1>7. AttemptsAccounted' /\ GivenUpOnlyAfterMaxAttempts'
  BY <1>1, <1>2 DEF QueueInv, AttemptsAccounted, GivenUpOnlyAfterMaxAttempts
<1>8. DeadLettersFailed' /\ DeadLetteredOnce'
  BY <1>1, <1>2 DEF QueueInv, DeadLettersFailed, DeadLetteredOnce, ThreadsHaveJobs
<1>9. FreshIdsAbsent' /\ ActiveRowsSane'
  BY <1>1, <1>2 DEF QueueInv, FreshIdsAbsent, ActiveRowsSane, Active
<1>10. QED
  BY <1>3, <1>4, <1>5, <1>6, <1>7, <1>8, <1>9 DEF QueueInv

\* Row i leaves its thread in state s, and no other row changes.
Released(i, s) == /\ RestKeeps(i)
                  /\ jobs'[i].state = s
                  /\ jobs'[i].obj = jobs[i].obj
                  /\ jobs'[i].attempts = jobs[i].attempts

\* That is what giving up a lease does, in each of the three places that do it.
LEMMA Unleased ==
  ASSUME jobs \in [JobIds -> Row], NEW i \in JobIds
  PROVE  /\ jobs' = Unlease(i, "completed", TRUE) => Released(i, "completed")
         /\ jobs' = Unlease(i, "queued", FALSE) => Released(i, "queued")
         /\ jobs' = Unlease(i, "failed", TRUE) => Released(i, "failed")
<1>1. ASSUME NEW s, NEW b, jobs' = Unlease(i, s, b)
      PROVE  Released(i, s)
  <2>1. RestKeeps(i)
        /\ jobs'[i] = [jobs[i] EXCEPT !.state = s, !.ready = b,
                                      !.owner = NoWorker, !.live = FALSE]
    BY <1>1 DEF RestKeeps, Unlease
  <2>2. jobs[i] \in Row
    OBVIOUS
  <2>3. QED
    BY <2>1, <2>2 DEF Row, Released
<1>2. jobs' = Unlease(i, "completed", TRUE) => Released(i, "completed")
  BY <1>1
<1>3. jobs' = Unlease(i, "queued", FALSE) => Released(i, "queued")
  BY <1>1
<1>4. jobs' = Unlease(i, "failed", TRUE) => Released(i, "failed")
  BY <1>1
<1>5. QED
  BY <1>2, <1>3, <1>4

\* What a worker does about its row and its thread when the handler is over.
LEMMA SettlePreserves ==
  ASSUME TypeOK, QueueInv, NEW w \in Workers, Settle(w)
  PROVE  QueueInv'
<1> DEFINE i == work[w].job
<1>1. OthersKeep(w) /\ UNCHANGED <<nextId, up, faults>>
  BY DEF TypeOK, OthersKeep, Settle, Complete, Retry, Fail, DeadLetterDone
<1>2. CASE UNCHANGED jobs
  <2>1. work' = [work EXCEPT ![w] = IdleThread]
        \/ (work' = [work EXCEPT ![w].pc = "deadletter"] /\ Holds(w, i) /\ Busy(w)
            /\ jobs' = Unlease(i, "failed", TRUE))
    BY DEF Settle, Complete, Retry, Fail, DeadLetterDone, Busy
  <2>2. work[w].pc = "deadletter" \/ Busy(w)
    BY DEF Settle, Complete, Retry, Fail, DeadLetterDone, Busy
  <2>3. ASSUME Busy(w), Holds(w, i)
        PROVE  FALSE
    <3>1. i \in JobIds /\ jobs[i].state = "running"
      BY <2>3 DEF QueueInv, ThreadsHaveJobs, Holds
    <3>2. \/ jobs' = Unlease(i, "completed", TRUE)
          \/ jobs' = Unlease(i, "queued", FALSE)
          \/ jobs' = Unlease(i, "failed", TRUE)
      BY <2>3 DEF Settle, Complete, Retry, Fail, DeadLetterDone, Busy
    <3>3. jobs'[i].state # "running"
      BY <3>1, <3>2, Unleased DEF TypeOK, Released
    <3>4. QED
      BY <1>2, <3>1, <3>3
  <2>4. work'[w].pc = "idle"
    <3>1. work' = [work EXCEPT ![w] = IdleThread]
      BY <2>1, <2>3
    <3>2. QED
      BY <3>1 DEF TypeOK, IdleThread
  <2>5. QED
    BY <1>1, <1>2, <2>2, <2>3, <2>4, ThreadStepPreserves
<1>3. CASE ~ UNCHANGED jobs
  <2>1. /\ Busy(w) /\ Holds(w, i)
        /\ \/ /\ jobs' = Unlease(i, "completed", TRUE)
              /\ work' = [work EXCEPT ![w] = IdleThread]
           \/ /\ jobs' = Unlease(i, "queued", FALSE)
              /\ work' = [work EXCEPT ![w] = IdleThread]
              /\ work[w].attempts < MaxAttempts
           \/ /\ jobs' = Unlease(i, "failed", TRUE)
              /\ work' = [work EXCEPT ![w].pc = "deadletter"]
              /\ work[w].attempts >= MaxAttempts
    BY <1>3 DEF Settle, Complete, Retry, Fail, DeadLetterDone, Busy
  <2>2. i \in JobIds
    BY <2>1 DEF QueueInv, ThreadsHaveJobs
  <2>3. /\ RestKeeps(i)
        /\ jobs'[i].obj = jobs[i].obj /\ jobs'[i].attempts = jobs[i].attempts
    BY <2>1, <2>2, Unleased DEF TypeOK, Released
  <2>4. \/ jobs'[i].state = "completed" /\ work'[w].pc = "idle"
        \/ /\ jobs'[i].state = "queued" /\ work'[w].pc = "idle"
           /\ work[w].attempts < MaxAttempts
        \/ /\ jobs'[i].state = "failed" /\ work'[w].pc = "deadletter" /\ work'[w].job = i
           /\ work[w].attempts >= MaxAttempts
    <3>1. CASE jobs' = Unlease(i, "completed", TRUE) /\ work' = [work EXCEPT ![w] = IdleThread]
      BY <2>2, <3>1, Unleased DEF TypeOK, IdleThread, Released
    <3>2. CASE /\ jobs' = Unlease(i, "queued", FALSE)
               /\ work' = [work EXCEPT ![w] = IdleThread]
               /\ work[w].attempts < MaxAttempts
      BY <2>2, <3>2, Unleased DEF TypeOK, IdleThread, Released
    <3>3. CASE /\ jobs' = Unlease(i, "failed", TRUE)
               /\ work' = [work EXCEPT ![w].pc = "deadletter"]
               /\ work[w].attempts >= MaxAttempts
      <4>1. work'[w].pc = "deadletter" /\ work'[w].job = i
        BY <3>3 DEF TypeOK, Thread
      <4>2. QED
        BY <2>2, <3>3, <4>1, Unleased DEF TypeOK, Released
    <3>4. QED
      BY <2>1, <3>1, <3>2, <3>3
  <2>5. QED
    BY <1>1, <2>1, <2>2, <2>3, <2>4, ReleasePreserves
<1>4. QED
  BY <1>2, <1>3

\* Through every interleaving of claims, handlers, retries, lost leases, dead
\* threads, crashes and restarts the table and the threads agree as QueueInv says.
THEOREM QueueInvariant == Spec => []QueueInv
<1>1. Init => QueueInv
  BY QueueConstants
     DEF Init, QueueInv, OwnersAgree, ThreadsHaveJobs, OneActiveRow, FaultFree, AttemptsSpare,
         AttemptsAccounted, GivenUpOnlyAfterMaxAttempts, DeadLettersFailed, DeadLetteredOnce,
         FreshIdsAbsent, ActiveRowsSane, Active, Busy, NoRow, IdleThread
<1>2. TypeOK /\ QueueInv /\ [Next]_queueVars => QueueInv'
  <2> SUFFICES ASSUME TypeOK, QueueInv, [Next]_queueVars
               PROVE  QueueInv'
    OBVIOUS
  <2>1. ASSUME NEW o \in Objects, Submit(o)
        PROVE  QueueInv'
    BY <2>1, SubmitPreserves
  <2>2. ASSUME NEW w \in Workers, HandlerEnds(w)
        PROVE  QueueInv'
    <3>1. /\ OthersKeep(w) /\ UNCHANGED <<jobs, nextId, up, faults>> /\ Busy(w)
          /\ work'[w].pc \in {"returned", "raised"}
          /\ work'[w].job = work[w].job /\ work'[w].attempts = work[w].attempts
      BY <2>2 DEF HandlerEnds, HandlerReturns, HandlerRaises, OthersKeep, Busy, TypeOK, Thread
    <3>2. QED
      BY <3>1, ThreadStepPreserves
  <2>3. ASSUME NEW w \in Workers, Heartbeat(w) \/ LeaseLost(w)
        PROVE  QueueInv'
    <3>1. PICK i \in JobIds : i = work[w].job
      BY <2>3 DEF Heartbeat, LeaseLost, QueueInv, ThreadsHaveJobs
    <3>2. /\ RestKeeps(i) /\ UNCHANGED <<nextId, work, up>>
          /\ jobs'[i].obj = jobs[i].obj /\ jobs'[i].attempts = jobs[i].attempts
          /\ jobs'[i].state = jobs[i].state /\ jobs'[i].owner = jobs[i].owner
          /\ (faults' = faults /\ jobs'[i].live) \/ faults' = faults + 1
      BY <2>3, <3>1 DEF Heartbeat, LeaseLost, Fault, RestKeeps, TypeOK, Row
    <3>3. QED
      BY <3>2, LeaseStepPreserves
  <2>4. ASSUME NEW w \in Workers, ThreadDies(w)
        PROVE  QueueInv'
    <3>1. /\ OthersKeep(w) /\ UNCHANGED <<jobs, nextId, up>> /\ faults' = faults + 1 /\ up
          /\ work[w].pc \in {"idle", "returned", "raised"} /\ work'[w].pc = "dead"
          /\ work'[w].job = work[w].job /\ work'[w].attempts = work[w].attempts
      BY <2>4 DEF ThreadDies, Fault, OthersKeep, TypeOK, Thread
    <3>2. QED
      BY <3>1, ThreadStepPreserves
  <2>5. ASSUME NEW i \in JobIds, BackoffElapses(i) \/ LeaseLapses(i)
        PROVE  QueueInv'
    <3>1. /\ RestKeeps(i) /\ UNCHANGED <<nextId, work, up, faults>>
          /\ jobs'[i].obj = jobs[i].obj /\ jobs'[i].attempts = jobs[i].attempts
          /\ jobs'[i].state = jobs[i].state /\ jobs'[i].owner = jobs[i].owner
          /\ \/ jobs'[i].live = jobs[i].live
             \/ work[jobs[i].owner].pc = "dead" /\ jobs[i].state = "running"
      BY <2>5 DEF BackoffElapses, LeaseLapses, RestKeeps, TypeOK, Row
    <3>2. QED
      BY <3>1, LeaseStepPreserves
  <2>6. QED
    BY <2>1, <2>2, <2>3, <2>4, <2>5, ClaimPreserves, SettlePreserves, CrashPreserves,
       StartPreserves, PurgePreserves, StutterPreserves
    DEF Next
<1>3. QED
  BY <1>1, <1>2, TypeCorrect, PTL DEF Spec

------------------------------------------------------------------------------
(* What follows from the invariant.                                        *)

\* Without faults no object is scanned by two workers at once.
THEOREM NeverTwiceAtOnce == Spec => []ExclusiveHandling
<1>1. QueueInv => ExclusiveHandling
  <2> SUFFICES ASSUME QueueInv, faults = 0,
                      NEW v \in Workers, NEW w \in Workers, v # w, Busy(v), Busy(w),
                      jobs[work[v].job].obj = jobs[work[w].job].obj
               PROVE  FALSE
    BY DEF ExclusiveHandling
  <2>1. Holds(v, work[v].job) /\ Holds(w, work[w].job)
    BY DEF QueueInv, FaultFree
  <2>2. work[v].job \in JobIds /\ work[w].job \in JobIds
    BY DEF QueueInv, ThreadsHaveJobs
  <2>3. work[v].job = work[w].job
    BY <2>1, <2>2 DEF QueueInv, OneActiveRow, Active, Holds
  <2>4. QED
    BY <2>1, <2>3 DEF Holds
<1>2. QED
  BY <1>1, QueueInvariant, PTL

\* No running row is left without a thread that works on it or died doing so.
THEOREM NoOrphanedRow == Spec => []RunningRowsHaveAWorker
<1>1. QueueInv => RunningRowsHaveAWorker
  BY DEF QueueInv, OwnersAgree, RunningRowsHaveAWorker
<1>2. QED
  BY <1>1, QueueInvariant, PTL

\* Attempts never exceed the limit by more than the number of faults, a job is
\* failed only at the limit, and it is dead-lettered by one worker only.
THEOREM RetriesAccounted ==
  Spec => [](AttemptsAccounted /\ GivenUpOnlyAfterMaxAttempts /\ DeadLetteredOnce)
<1>1. QueueInv => AttemptsAccounted /\ GivenUpOnlyAfterMaxAttempts /\ DeadLetteredOnce
  BY DEF QueueInv
<1>2. QED
  BY <1>1, QueueInvariant, PTL

\* Which steps may end a running row: a thread settling the row it holds, or a restart.
LEMMA OwnerStep ==
  ASSUME TypeOK, QueueInv, [Next]_queueVars, NEW k \in JobIds,
         jobs[k].state = "running", jobs'[k].state # "running"
  PROVE  \/ ~up /\ jobs'[k].state = "queued"
         \/ /\ jobs[k].owner # NoWorker
            /\ work[jobs[k].owner].job = k
            /\ work[jobs[k].owner].pc =
                 IF jobs'[k].state = "completed" THEN "returned" ELSE "raised"
            /\ work'[jobs[k].owner] # work[jobs[k].owner]
<1>1. ASSUME NEW i, NEW e, jobs' = [jobs EXCEPT ![i] = e], e.state = "running"
      PROVE  FALSE
  BY <1>1 DEF TypeOK
<1>2. ASSUME NEW o \in Objects, Submit(o)
      PROVE  FALSE
  <2>1. UNCHANGED jobs \/ (nextId \in JobIds /\ RestKeeps(nextId))
    BY <1>2 DEF Submit, RestKeeps, TypeOK
  <2>2. nextId \in JobIds => jobs[nextId].state = "absent"
    BY QueueConstants DEF QueueInv, FreshIdsAbsent, TypeOK, JobIds
  <2>3. QED
    BY <2>1, <2>2 DEF RestKeeps
<1>3. ASSUME NEW w \in Workers, Claim(w)
      PROVE  FALSE
  <2>1. PICK i \in JobIds : jobs' = [jobs EXCEPT ![i] = Leased(jobs[i], w)]
    BY <1>3 DEF Claim
  <2>2. jobs[i] \in Row
    BY DEF TypeOK
  <2>3. Leased(jobs[i], w).state = "running"
    BY <2>2, LeasedColumns
  <2>4. QED
    BY <1>1, <2>1, <2>3
<1>4. ASSUME NEW w \in Workers, Heartbeat(w) \/ LeaseLost(w)
      PROVE  FALSE
  BY <1>4 DEF Heartbeat, LeaseLost, TypeOK, Row
<1>5. ASSUME NEW i \in JobIds, BackoffElapses(i) \/ LeaseLapses(i)
      PROVE  FALSE
  BY <1>5 DEF BackoffElapses, LeaseLapses, TypeOK, Row
<1>6. ~ UNCHANGED jobs /\ ~ PurgeCompleted
  <2>1. ~ UNCHANGED jobs
    OBVIOUS
  <2>2. ASSUME PurgeCompleted
        PROVE  FALSE
    <3>1. PICK S \in SUBSET {i \in JobIds : Finished(i)} :
            jobs' = [i \in JobIds |-> IF i \in S
                                      THEN [jobs[i] EXCEPT !.state = "purged"]
                                      ELSE jobs[i]]
      BY <2>2 DEF PurgeCompleted
    <3>2. k \notin S
      BY DEF Finished
    <3>3. QED
      BY <3>1, <3>2
  <2>3. QED
    BY <2>1, <2>2
<1>7. CASE Start
  <2>1. ~up /\ jobs'[k] = [jobs[k] EXCEPT !.state = "queued", !.ready = TRUE,
                                          !.owner = NoWorker, !.live = FALSE]
    BY <1>7 DEF Start
  <2>2. QED
    BY <2>1 DEF TypeOK, Row
<1>8. CASE \E w \in Workers : Settle(w)
  <2>1. PICK w \in Workers : Settle(w)
    BY <1>8
  <2>2. /\ Busy(w) /\ Holds(w, work[w].job)
        /\ \/ jobs' = Unlease(work[w].job, "completed", TRUE) /\ work[w].pc = "returned"
           \/ jobs' = Unlease(work[w].job, "queued", FALSE) /\ work[w].pc = "raised"
           \/ jobs' = Unlease(work[w].job, "failed", TRUE) /\ work[w].pc = "raised"
        /\ \/ work' = [work EXCEPT ![w] = IdleThread]
           \/ work' = [work EXCEPT ![w].pc = "deadletter"]
    BY <1>6, <2>1 DEF Settle, Complete, Retry, Fail, DeadLetterDone, Busy
  <2>3. work[w].job \in JobIds
    BY <2>2 DEF QueueInv, ThreadsHaveJobs
  <2>4. /\ RestKeeps(work[w].job)
        /\ \/ jobs'[work[w].job].state = "completed" /\ work[w].pc = "returned"
           \/ jobs'[work[w].job].state \in {"queued", "failed"} /\ work[w].pc = "raised"
    BY <2>2, <2>3, Unleased DEF TypeOK, Released
  <2>5. k = work[w].job /\ jobs[k].owner = w
    BY <2>2, <2>4 DEF RestKeeps, Holds
  <2>6. work'[w] # work[w]
    BY <2>2 DEF TypeOK, Thread, IdleThread, Busy
  <2>7. QED
    BY <2>4, <2>5, <2>6, QueueConstants
<1>9. QED
  BY <1>2, <1>3, <1>4, <1>5, <1>6, <1>7, <1>8
     DEF Next, queueVars, HandlerEnds, HandlerReturns, HandlerRaises, ThreadDies, Crash

\* Which steps may give a running row to another thread: a claim after its lease ran out.
LEMMA TakeOverStep ==
  ASSUME TypeOK, QueueInv, [Next]_queueVars, NEW k \in JobIds,
         jobs[k].state = "running", jobs'[k].owner \notin {jobs[k].owner, NoWorker}
  PROVE  ~jobs[k].live
<1>1. ASSUME NEW i, NEW s, NEW b, jobs' = Unlease(i, s, b)
      PROVE  FALSE
  BY <1>1 DEF Unlease, TypeOK, Row
<1>2. ASSUME NEW w \in Workers, Settle(w)
      PROVE  FALSE
  <2>1. UNCHANGED jobs \/ \E s, b : jobs' = Unlease(work[w].job, s, b)
    BY <1>2 DEF Settle, Complete, Retry, Fail, DeadLetterDone
  <2>2. QED
    BY <1>1, <2>1
<1>3. ASSUME NEW o \in Objects, Submit(o)
      PROVE  FALSE
  BY <1>3 DEF Submit, TypeOK
<1>4. ASSUME NEW w \in Workers, Claim(w)
      PROVE  ~jobs[k].live
  <2>1. PICK i \in JobIds : Claimable(i) /\ jobs' = [jobs EXCEPT ![i] = Leased(jobs[i], w)]
    BY <1>4 DEF Claim
  <2>2. i = k
    BY <2>1 DEF TypeOK
  <2>3. QED
    BY <2>1, <2>2 DEF Claimable
<1>5. ASSUME NEW i, NEW b,
             jobs' = [jobs EXCEPT ![i].live = b] \/ jobs' = [jobs EXCEPT ![i].ready = b]
      PROVE  FALSE
  BY <1>5 DEF TypeOK, Row
<1>6. ASSUME NEW w \in Workers, Heartbeat(w) \/ LeaseLost(w)
      PROVE  FALSE
  BY <1>5, <1>6 DEF Heartbeat, LeaseLost
<1>7. ASSUME NEW i \in JobIds, BackoffElapses(i) \/ LeaseLapses(i)
      PROVE  FALSE
  BY <1>5, <1>7 DEF BackoffElapses, LeaseLapses
<1>8. ~ UNCHANGED jobs /\ ~ Start /\ ~ PurgeCompleted
  <2>1. jobs[k] \in Row /\ ~ UNCHANGED jobs
    BY DEF TypeOK
  <2>2. ASSUME Start
        PROVE  FALSE
    <3>1. jobs'[k] = [jobs[k] EXCEPT !.state = "queued", !.ready = TRUE,
                                     !.owner = NoWorker, !.live = FALSE]
      BY <2>2 DEF Start
    <3>2. QED
      BY <2>1, <3>1 DEF Row
  <2>3. ~ PurgeCompleted
    BY <2>1 DEF PurgeCompleted, Row
  <2>4. QED
    BY <2>1, <2>2, <2>3
<1>9. QED
  BY <1>2, <1>3, <1>4, <1>6, <1>7, <1>8
     DEF Next, queueVars, HandlerEnds, HandlerReturns, HandlerRaises, ThreadDies, Crash

\* A worker that lost its row to another never completes, requeues or fails it, and no row
\* is taken from a worker whose lease is alive.
THEOREM StaleWorkersEndNothing == Spec => OnlyTheOwnerFinishes
<1>1. TypeOK /\ QueueInv /\ [Next]_queueVars
        => [\A i \in JobIds :
              jobs[i].state = "running" =>
                /\ jobs'[i].state # "running" =>
                     \/ ~up /\ jobs'[i].state = "queued"
                     \/ /\ jobs[i].owner # NoWorker
                        /\ work[jobs[i].owner].job = i
                        /\ work[jobs[i].owner].pc =
                             IF jobs'[i].state = "completed" THEN "returned" ELSE "raised"
                        /\ work'[jobs[i].owner] # work[jobs[i].owner]
                /\ jobs'[i].owner \notin {jobs[i].owner, NoWorker} => ~jobs[i].live]_queueVars
  BY OwnerStep, TakeOverStep
<1>2. QED
  BY <1>1, TypeCorrect, QueueInvariant, PTL DEF Spec, OnlyTheOwnerFinishes

------------------------------------------------------------------------------
(* The leased queue implements the abstract one.                           *)

\* Steps the abstract queue does not see.
LEMMA Invisible ==
  ASSUME \A i \in JobIds : /\ jobs'[i].obj = jobs[i].obj
                           /\ jobs'[i].attempts = jobs[i].attempts
                           /\ \/ jobs'[i].state = jobs[i].state
                              \/ Active(i) /\ Active(i)'
  PROVE  UNCHANGED WQ!vars
<1>1. AbstractStatus' = AbstractStatus
  BY DEF AbstractStatus, Active
<1>2. [i \in JobIds |-> jobs[i].obj]' = [i \in JobIds |-> jobs[i].obj]
  OBVIOUS
<1>3. [i \in JobIds |-> jobs[i].attempts]' = [i \in JobIds |-> jobs[i].attempts]
  OBVIOUS
<1>4. QED
  BY <1>1, <1>2, <1>3 DEF WQ!vars

\* A step that changes row k only, seen from above.
LEMMA OneRowVisible ==
  ASSUME NEW k \in JobIds, RestKeeps(k)
  PROVE  /\ AbstractStatus' =
              [AbstractStatus EXCEPT ![k] = IF Active(k)' THEN "active" ELSE jobs'[k].state]
         /\ [i \in JobIds |-> jobs[i].obj]' =
              [[i \in JobIds |-> jobs[i].obj] EXCEPT ![k] = jobs'[k].obj]
         /\ [i \in JobIds |-> jobs[i].attempts]' =
              [[i \in JobIds |-> jobs[i].attempts] EXCEPT ![k] = jobs'[k].attempts]
<1>1. AbstractStatus' =
        [AbstractStatus EXCEPT ![k] = IF Active(k)' THEN "active" ELSE jobs'[k].state]
  BY DEF AbstractStatus, Active, RestKeeps
<1>2. [i \in JobIds |-> jobs[i].obj]' =
        [[i \in JobIds |-> jobs[i].obj] EXCEPT ![k] = jobs'[k].obj]
  BY DEF RestKeeps
<1>3. [i \in JobIds |-> jobs[i].attempts]' =
        [[i \in JobIds |-> jobs[i].attempts] EXCEPT ![k] = jobs'[k].attempts]
  BY DEF RestKeeps
<1>4. QED
  BY <1>1, <1>2, <1>3

\* A submission that inserts a row is an Accept.
LEMMA SubmitImplements ==
  ASSUME TypeOK, QueueInv, NEW o \in Objects, Submit(o)
  PROVE  [WQ!Next]_(WQ!vars)
<1>1. CASE UNCHANGED jobs
  BY <1>1, Invisible
<1>2. CASE ~ UNCHANGED jobs
  <2>1. /\ nextId \in JobIds
        /\ \A i \in JobIds : Active(i) => jobs[i].obj # o
        /\ RestKeeps(nextId)
        /\ jobs'[nextId].obj = o /\ jobs'[nextId].state = "queued"
        /\ jobs'[nextId].attempts = 0
    BY <1>2 DEF Submit, RestKeeps, TypeOK
  <2>2. jobs[nextId].state = "absent" /\ jobs[nextId].attempts = 0
    BY <2>1 DEF QueueInv, FreshIdsAbsent, TypeOK, JobIds
  <2>3. AbstractStatus' = [AbstractStatus EXCEPT ![nextId] = "active"]
    BY <2>1, OneRowVisible DEF Active
  <2>4. [i \in JobIds |-> jobs[i].obj]' =
          [[i \in JobIds |-> jobs[i].obj] EXCEPT ![nextId] = o]
    BY <2>1, OneRowVisible
  <2>5. [i \in JobIds |-> jobs[i].attempts]' = [i \in JobIds |-> jobs[i].attempts]
    BY <2>1, <2>2 DEF RestKeeps
  <2>6. AbstractStatus[nextId] = "absent"
    BY <2>1, <2>2 DEF AbstractStatus, Active
  <2>7. \A k \in JobIds : [i \in JobIds |-> jobs[i].obj][k] = o => AbstractStatus[k] # "active"
    BY <2>1, <2>2 DEF AbstractStatus, Active, TypeOK, Row
  <2>8. WQ!Accept(nextId, o)
    BY <2>3, <2>4, <2>5, <2>6, <2>7 DEF WQ!Accept
  <2>9. QED
    BY <2>1, <2>8 DEF WQ!Next
<1>3. QED
  BY <1>1, <1>2

\* A claim is a Try, whichever thread held the row before.
LEMMA ClaimImplements ==
  ASSUME TypeOK, QueueInv, NEW w \in Workers, Claim(w)
  PROVE  [WQ!Next]_(WQ!vars)
<1>1. PICK i \in JobIds : Claimable(i) /\ jobs' = [jobs EXCEPT ![i] = Leased(jobs[i], w)]
  BY DEF Claim
<1>2. jobs'[i] = Leased(jobs[i], w) /\ jobs[i] \in Row /\ RestKeeps(i)
  BY <1>1 DEF TypeOK, RestKeeps
<1>3. /\ jobs'[i].state = "running" /\ jobs'[i].obj = jobs[i].obj
      /\ jobs'[i].attempts = jobs[i].attempts + 1
  <2>1. /\ Leased(jobs[i], w).state = "running" /\ Leased(jobs[i], w).obj = jobs[i].obj
        /\ Leased(jobs[i], w).attempts = jobs[i].attempts + 1
    BY <1>2, LeasedColumns
  <2>2. QED
    BY <1>2, <2>1
<1>4. AbstractStatus[i] = "active" /\ AbstractStatus' = AbstractStatus
  BY <1>1, <1>2, <1>3 DEF AbstractStatus, Active, Claimable, RestKeeps
<1>5. [k \in JobIds |-> jobs[k].obj]' = [k \in JobIds |-> jobs[k].obj]
  BY <1>2, <1>3 DEF RestKeeps
<1>6. [k \in JobIds |-> jobs[k].attempts]' =
        [[k \in JobIds |-> jobs[k].attempts] EXCEPT ![i] = @ + 1]
  <2>1. [k \in JobIds |-> jobs[k].attempts][i] + 1 = jobs'[i].attempts
    BY <1>3
  <2>2. QED
    BY <1>2, <2>1, OneRowVisible
<1>7. WQ!Try(i)
  BY <1>4, <1>5, <1>6 DEF WQ!Try
<1>8. QED
  BY <1>7 DEF WQ!Next

\* Recording an outcome is a Finish, unless the claim is stale or the job is
\* queued again: then the abstract queue sees nothing.
LEMMA SettleImplements ==
  ASSUME TypeOK, QueueInv, NEW w \in Workers, Settle(w)
  PROVE  [WQ!Next]_(WQ!vars)
<1> DEFINE i == work[w].job
<1>1. CASE UNCHANGED jobs
  BY <1>1, Invisible
<1>2. CASE ~ UNCHANGED jobs
  <2>1. /\ Busy(w) /\ Holds(w, i)
        /\ \/ jobs' = Unlease(i, "completed", TRUE)
           \/ jobs' = Unlease(i, "queued", FALSE)
           \/ /\ jobs' = Unlease(i, "failed", TRUE)
              /\ work[w].attempts >= MaxAttempts
    BY <1>2 DEF Settle, Complete, Retry, Fail, DeadLetterDone, Busy
  <2>2. i \in JobIds /\ up
    BY <2>1 DEF QueueInv, ThreadsHaveJobs, Busy
  <2>3. /\ Active(i) /\ jobs[i].attempts = work[w].attempts /\ jobs[i].attempts >= 1
        /\ jobs[i].attempts \in Nat
    BY <2>1, <2>2 DEF QueueInv, OwnersAgree, ActiveRowsSane, Active, Holds, TypeOK, Row
  <2>4. CASE Released(i, "queued")
    BY <2>2, <2>3, <2>4, Invisible DEF Released, RestKeeps, Active
  <2>5. ASSUME NEW s \in {"completed", "failed"}, Released(i, s),
               s = "failed" => jobs[i].attempts >= MaxAttempts
        PROVE  WQ!Finish(i)
    <3>1. AbstractStatus' = [AbstractStatus EXCEPT ![i] = s]
      BY <2>2, <2>5, OneRowVisible DEF Released, Active
    <3>2. UNCHANGED <<[k \in JobIds |-> jobs[k].obj], [k \in JobIds |-> jobs[k].attempts]>>
      BY <2>5 DEF Released, RestKeeps
    <3>3. AbstractStatus[i] = "active" /\ [k \in JobIds |-> jobs[k].attempts][i] = jobs[i].attempts
      BY <2>2, <2>3 DEF AbstractStatus
    <3>4. QED
      BY <2>3, <2>5, <3>1, <3>2, <3>3 DEF WQ!Finish
  <2>6. \/ Released(i, "queued")
        \/ Released(i, "completed")
        \/ Released(i, "failed") /\ jobs[i].attempts >= MaxAttempts
    BY <2>1, <2>2, <2>3, Unleased DEF TypeOK
  <2>7. Released(i, "completed") => WQ!Finish(i)
    BY <2>5
  <2>8. Released(i, "failed") /\ jobs[i].attempts >= MaxAttempts => WQ!Finish(i)
    BY <2>5
  <2>9. QED
    BY <2>2, <2>4, <2>6, <2>7, <2>8 DEF WQ!Next
<1>3. QED
  BY <1>1, <1>2

\* Purging is a Forget.
LEMMA PurgeImplements ==
  ASSUME TypeOK, QueueInv, PurgeCompleted
  PROVE  [WQ!Next]_(WQ!vars)
<1>1. PICK S \in SUBSET {k \in JobIds : Finished(k)} :
        jobs' = [k \in JobIds |-> IF k \in S
                                  THEN [jobs[k] EXCEPT !.state = "purged"]
                                  ELSE jobs[k]]
  BY DEF PurgeCompleted
<1>2. ASSUME NEW k \in JobIds
      PROVE  /\ jobs'[k].obj = jobs[k].obj /\ jobs'[k].attempts = jobs[k].attempts
             /\ jobs'[k].state = IF k \in S THEN "purged" ELSE jobs[k].state
  BY <1>1 DEF TypeOK, Row
<1>3. S \in SUBSET JobIds /\ \A k \in S : AbstractStatus[k] \in {"completed", "failed"}
  BY DEF Finished, AbstractStatus, Active
<1>4. AbstractStatus' = [k \in JobIds |-> IF k \in S THEN "purged" ELSE AbstractStatus[k]]
  BY <1>2, <1>3 DEF AbstractStatus, Active
<1>5. UNCHANGED <<[k \in JobIds |-> jobs[k].obj], [k \in JobIds |-> jobs[k].attempts]>>
  BY <1>2
<1>6. WQ!Forget(S)
  BY <1>3, <1>4, <1>5 DEF WQ!Forget
<1>7. QED
  BY <1>3, <1>6 DEF WQ!Next

\* Submissions, leases, heartbeats, lost leases, dead threads, crashes, restarts
\* and purges together do no more than the abstract queue: every accepted job is
\* remembered, ends once, and fails only after MaxAttempts tries.
THEOREM QueueRefinement == Spec => ImplementsWorkQueue
<1>1. Init => WQ!Init
  BY DEF Init, WQ!Init, NoRow, AbstractStatus, Active, WQ!NoObject, NoObject
<1>2. TypeOK /\ QueueInv /\ [Next]_queueVars => [WQ!Next]_(WQ!vars)
  <2> SUFFICES ASSUME TypeOK, QueueInv, [Next]_queueVars
               PROVE  [WQ!Next]_(WQ!vars)
    OBVIOUS
  <2>1. CASE UNCHANGED jobs
    BY <2>1, Invisible
  <2>2. ASSUME NEW i, NEW b,
               jobs' = [jobs EXCEPT ![i].live = b] \/ jobs' = [jobs EXCEPT ![i].ready = b]
        PROVE  UNCHANGED WQ!vars
    <3>1. ASSUME NEW k \in JobIds
          PROVE  /\ jobs'[k].obj = jobs[k].obj /\ jobs'[k].state = jobs[k].state
                 /\ jobs'[k].attempts = jobs[k].attempts
      BY <2>2 DEF TypeOK, Row
    <3>2. QED
      BY <3>1, Invisible
  <2>3. ASSUME NEW w \in Workers, Heartbeat(w) \/ LeaseLost(w)
        PROVE  UNCHANGED WQ!vars
    BY <2>2, <2>3 DEF Heartbeat, LeaseLost
  <2>4. ASSUME NEW i \in JobIds, BackoffElapses(i) \/ LeaseLapses(i)
        PROVE  UNCHANGED WQ!vars
    BY <2>2, <2>4 DEF BackoffElapses, LeaseLapses
  <2>5. CASE Start
    <3>1. ASSUME NEW i \in JobIds
          PROVE  /\ jobs'[i].obj = jobs[i].obj
                 /\ jobs'[i].attempts = jobs[i].attempts
                 /\ \/ jobs'[i].state = jobs[i].state
                    \/ Active(i) /\ Active(i)'
      BY <2>5 DEF Start, TypeOK, Row, Active
    <3>2. QED
      BY <3>1, Invisible
  <2>6. QED
    BY <2>1, <2>3, <2>4, <2>5, SubmitImplements, ClaimImplements, SettleImplements,
       PurgeImplements
    DEF Next, queueVars, HandlerEnds, HandlerReturns, HandlerRaises, ThreadDies, Crash
<1>3. QED
  BY <1>1, <1>2, TypeCorrect, QueueInvariant, PTL DEF Spec, ImplementsWorkQueue, WQ!Spec
==============================================================================
