------------------------------- MODULE JobQueue -------------------------------
(***************************************************************************)
(* SQLiteJobQueue (src/src/sfss/jobs.py): the durable, leased scan queue.  *)
(*                                                                         *)
(* jobs[i] is the scan_jobs row with id i.  Wall-clock time is abstracted: *)
(* `ready` says available_at has passed, `live` that lease_until has not.  *)
(* lease_owner is the uuid drawn by a claim; a worker thread holds at most *)
(* one claim, and start() clears the owners of a dead process, so the      *)
(* owner is represented by the thread that drew the uuid.                  *)
(*                                                                         *)
(* What a handler does is left open here (it returns or it raises); the    *)
(* inbound scan is InboundSystem.                                          *)
(***************************************************************************)
EXTENDS Naturals, FiniteSets

CONSTANTS Objects,      \* the objects jobs are submitted for
          Workers,      \* the worker threads of the process
          NoWorker,     \* lease_owner NULL
          MaxAttempts,  \* max_attempts
          MaxJobs,      \* bound of the model: rows ever inserted
          MaxFaults     \* bound of the model: crashes, dead threads, lost leases

ASSUME QueueConstants ==
  /\ NoWorker \notin Workers
  /\ MaxAttempts \in Nat \ {0}   \* max(1, max_attempts)
  /\ MaxJobs \in Nat
  /\ MaxFaults \in Nat

VARIABLES jobs,     \* the scan_jobs table
          nextId,   \* the next value of the AUTOINCREMENT id
          work,     \* the worker threads: program counter and local `job`
          up,       \* the process runs and start() has been called
          faults    \* how many faults have happened (counts, never read by the code)

queueVars == <<jobs, nextId, work, up, faults>>

JobIds == 1..MaxJobs
NoObject == "none"

Row == [obj: Objects \cup {NoObject},
        state: {"absent", "queued", "running", "completed", "failed", "purged"},
        attempts: Nat, ready: BOOLEAN, live: BOOLEAN,
        owner: Workers \cup {NoWorker}]

NoRow == [obj |-> NoObject, state |-> "absent", attempts |-> 0,
          ready |-> FALSE, live |-> FALSE, owner |-> NoWorker]

\* pc "idle": in the claim loop; "handling": inside the handler; "returned",
\* "raised": the handler is over and its outcome not yet recorded; "deadletter":
\* the row is 'failed' and the dead-letter callback not yet called; "dead": the
\* thread ended on an exception the loop does not catch.
Thread == [pc: {"idle", "handling", "returned", "raised", "deadletter", "dead"},
           job: JobIds \cup {0}, attempts: Nat]

IdleThread == [pc |-> "idle", job |-> 0, attempts |-> 0]

Active(i) == jobs[i].state \in {"queued", "running"}
Busy(w)   == work[w].pc \in {"handling", "returned", "raised"}

\* The guard of every update a worker makes to its row:
\* WHERE id=? AND state='running' AND lease_owner=?
Holds(w, i) == jobs[i].state = "running" /\ jobs[i].owner = w

Init ==
  /\ jobs = [i \in JobIds |-> NoRow]
  /\ nextId = 1
  /\ work = [w \in Workers |-> IdleThread]
  /\ up = TRUE
  /\ faults = 0

------------------------------------------------------------------------------
(* Submission.                                                             *)

\* Mutant: the unique index is missing, every submission inserts a row.
SubmitTwice(o) ==
  /\ up
  /\ nextId \in JobIds
  /\ jobs' = [jobs EXCEPT ![nextId] = [NoRow EXCEPT !.obj = o, !.state = "queued",
                                                    !.ready = TRUE]]
  /\ nextId' = nextId + 1
  /\ UNCHANGED <<work, up, faults>>

\* INSERT OR IGNORE: the unique index over queued and running rows makes a
\* submission for an object that already has one a silent no-op.
Submit(o) ==
  /\ up
  /\ IF \E i \in JobIds : Active(i) /\ jobs[i].obj = o
     THEN UNCHANGED <<jobs, nextId>>
     ELSE /\ nextId \in JobIds
          /\ jobs' = [jobs EXCEPT ![nextId] =
                        [obj |-> o, state |-> "queued", attempts |-> 0,
                         ready |-> TRUE, live |-> FALSE, owner |-> NoWorker]]
          /\ nextId' = nextId + 1
  /\ UNCHANGED <<work, up, faults>>

------------------------------------------------------------------------------
(* The worker threads.                                                     *)

\* Mutant: expired leases are not taken over.
ClaimableIfQueued(i) == jobs[i].state = "queued" /\ jobs[i].ready

Claimable(i) == \/ jobs[i].state = "queued" /\ jobs[i].ready
                \/ jobs[i].state = "running" /\ ~jobs[i].live

Leased(r, w) ==
  [r EXCEPT !.state = "running", !.attempts = @ + 1, !.owner = w, !.live = TRUE]

\* The oldest row that is due, or whose lease ran out, whoever held it.
Claim(w) ==
  /\ up
  /\ work[w].pc = "idle"
  /\ \E i \in JobIds :
       /\ Claimable(i)
       /\ \A k \in JobIds : Claimable(k) => i <= k
       /\ jobs' = [jobs EXCEPT ![i] = Leased(jobs[i], w)]
       /\ work' = [work EXCEPT ![w] = [pc |-> "handling", job |-> i,
                                       attempts |-> jobs[i].attempts + 1]]
  /\ UNCHANGED <<nextId, up, faults>>

HandlerReturns(w) ==
  /\ work[w].pc = "handling"
  /\ work' = [work EXCEPT ![w].pc = "returned"]
  /\ UNCHANGED <<jobs, nextId, up, faults>>

HandlerRaises(w) ==
  /\ work[w].pc = "handling"
  /\ work' = [work EXCEPT ![w].pc = "raised"]
  /\ UNCHANGED <<jobs, nextId, up, faults>>

\* lease_until=NULL, lease_owner=NULL.
Unlease(i, s, due) ==
  [jobs EXCEPT ![i] = [@ EXCEPT !.state = s, !.ready = due,
                                !.owner = NoWorker, !.live = FALSE]]

\* The else branch of the try: mark the row completed if it is still ours.
Complete(w) ==
  /\ work[w].pc = "returned"
  /\ jobs' = IF Holds(w, work[w].job) THEN Unlease(work[w].job, "completed", TRUE) ELSE jobs
  /\ work' = [work EXCEPT ![w] = IdleThread]
  /\ UNCHANGED <<nextId, up, faults>>

\* Mutant: WHERE id=? alone.
RetryUnguarded(w) ==
  /\ work[w].pc = "raised"
  /\ work[w].attempts < MaxAttempts
  /\ jobs' = Unlease(work[w].job, "queued", FALSE)
  /\ work' = [work EXCEPT ![w] = IdleThread]
  /\ UNCHANGED <<nextId, up, faults>>

\* _retry_or_fail below the limit: back into the queue, after a delay.
Retry(w) ==
  /\ work[w].pc = "raised"
  /\ work[w].attempts < MaxAttempts
  /\ jobs' = IF Holds(w, work[w].job)
             THEN Unlease(work[w].job, "queued", FALSE)
             ELSE jobs
  /\ work' = [work EXCEPT ![w] = IdleThread]
  /\ UNCHANGED <<nextId, up, faults>>

\* _retry_or_fail at the limit: the row fails, and only the worker whose
\* update took effect goes on to the dead-letter callback.
Fail(w) ==
  /\ work[w].pc = "raised"
  /\ work[w].attempts >= MaxAttempts
  /\ IF Holds(w, work[w].job)
     THEN /\ jobs' = Unlease(work[w].job, "failed", TRUE)
          /\ work' = [work EXCEPT ![w].pc = "deadletter"]
     ELSE /\ work' = [work EXCEPT ![w] = IdleThread]
          /\ UNCHANGED jobs
  /\ UNCHANGED <<nextId, up, faults>>

\* dead_letter(...) returned, or raised and was swallowed.
DeadLetterDone(w) ==
  /\ work[w].pc = "deadletter"
  /\ work' = [work EXCEPT ![w] = IdleThread]
  /\ UNCHANGED <<jobs, nextId, up, faults>>

\* The heartbeat renews the lease for as long as the loop body runs, also a
\* lease that has already run out, provided nobody has taken the row.
Heartbeat(w) ==
  /\ Busy(w)
  /\ Holds(w, work[w].job)
  /\ jobs' = [jobs EXCEPT ![work[w].job].live = TRUE]
  /\ UNCHANGED <<nextId, work, up, faults>>

------------------------------------------------------------------------------
(* Time.                                                                   *)

\* A retry becomes due.
BackoffElapses(i) ==
  /\ jobs[i].state = "queued" /\ ~jobs[i].ready
  /\ jobs' = [jobs EXCEPT ![i].ready = TRUE]
  /\ UNCHANGED <<nextId, work, up, faults>>

\* The lease of a thread that died runs out, there being no heartbeat.
LeaseLapses(i) ==
  /\ jobs[i].state = "running" /\ jobs[i].live
  /\ work[jobs[i].owner].pc = "dead"
  /\ jobs' = [jobs EXCEPT ![i].live = FALSE]
  /\ UNCHANGED <<nextId, work, up, faults>>

------------------------------------------------------------------------------
(* Faults, each counted against MaxFaults.                                 *)

Fault == faults < MaxFaults /\ faults' = faults + 1

\* The heartbeat cannot reach the database until the lease has run out, while
\* the handler keeps going.
LeaseLost(w) ==
  /\ Fault
  /\ Busy(w)
  /\ Holds(w, work[w].job)
  /\ jobs[work[w].job].live
  /\ jobs' = [jobs EXCEPT ![work[w].job].live = FALSE]
  /\ UNCHANGED <<nextId, work, up>>

\* A database error in _claim, or in recording an outcome: nothing in _worker
\* catches it, the thread and its heartbeat end, the row stays as it was.
ThreadDies(w) ==
  /\ Fault
  /\ up
  /\ work[w].pc \in {"idle", "returned", "raised"}
  /\ work' = [work EXCEPT ![w].pc = "dead"]
  /\ UNCHANGED <<jobs, nextId, up>>

\* The process is killed or stopped; only the table survives.
Crash ==
  /\ Fault
  /\ up
  /\ up' = FALSE
  /\ work' = [w \in Workers |-> IdleThread]
  /\ UNCHANGED <<jobs, nextId>>

\* start(): leases of the previous process are void, its jobs queued again.
Start ==
  /\ ~up
  /\ up' = TRUE
  /\ jobs' = [i \in JobIds |->
                IF jobs[i].state = "running"
                THEN [jobs[i] EXCEPT !.state = "queued", !.ready = TRUE,
                                     !.owner = NoWorker, !.live = FALSE]
                ELSE jobs[i]]
  /\ UNCHANGED <<nextId, work, faults>>

------------------------------------------------------------------------------
(* Maintenance.                                                            *)

\* Mutant: the purge takes queued rows too.
NotRunning(i) == jobs[i].state \in {"queued", "completed", "failed"}

Finished(i) == jobs[i].state \in {"completed", "failed"}

\* purge_completed: finished rows older than the cutoff are deleted; which
\* ones are that old is left open.
PurgeCompleted ==
  /\ up
  /\ \E S \in SUBSET {i \in JobIds : Finished(i)} \ {{}} :
       jobs' = [i \in JobIds |-> IF i \in S
                                 THEN [jobs[i] EXCEPT !.state = "purged"]
                                 ELSE jobs[i]]
  /\ UNCHANGED <<nextId, work, up, faults>>

------------------------------------------------------------------------------

HandlerEnds(w) == HandlerReturns(w) \/ HandlerRaises(w)

Settle(w) == Complete(w) \/ Retry(w) \/ Fail(w) \/ DeadLetterDone(w)

Next ==
  \/ \E o \in Objects : Submit(o)
  \/ \E w \in Workers : \/ Claim(w) \/ HandlerEnds(w) \/ Settle(w)
                        \/ Heartbeat(w) \/ LeaseLost(w) \/ ThreadDies(w)
  \/ \E i \in JobIds : BackoffElapses(i) \/ LeaseLapses(i)
  \/ Crash \/ Start \/ PurgeCompleted

Spec == Init /\ [][Next]_queueVars

\* Threads that are alive are scheduled, time passes, and a stopped service is
\* started again; nothing says that a lost lease is renewed, that a fault
\* happens or that old rows are purged.
Fairness ==
  /\ \A w \in Workers : /\ WF_queueVars(Claim(w))
                        /\ WF_queueVars(HandlerEnds(w))
                        /\ WF_queueVars(Settle(w))
  /\ \A i \in JobIds : /\ WF_queueVars(BackoffElapses(i))
                       /\ WF_queueVars(LeaseLapses(i))
  /\ WF_queueVars(Start)

FairSpec == Spec /\ Fairness

------------------------------------------------------------------------------
(* Properties.                                                             *)

TypeOK ==
  /\ jobs \in [JobIds -> Row]
  /\ nextId \in 1..(MaxJobs + 1)
  /\ work \in [Workers -> Thread]
  /\ up \in BOOLEAN
  /\ faults \in 0..MaxFaults

\* The queue never works on one object twice at a time unless a lease was lost
\* or a thread died first: `active-job de-duplication' (README) holds through
\* every interleaving of submit, claim, retry and completion.
ExclusiveHandling ==
  faults = 0 =>
    \A v, w \in Workers :
      (v # w /\ Busy(v) /\ Busy(w)) => jobs[work[v].job].obj # jobs[work[w].job].obj

\* A running row always belongs to a thread that is still working on it, or that
\* died doing so: no row is left running with nobody to renew, finish or lose
\* its lease (start() repairs the rows of a dead process).
RunningRowsHaveAWorker ==
  up => \A i \in JobIds :
          jobs[i].state = "running" =>
            \E w \in Workers : /\ jobs[i].owner = w
                               /\ work[w].job = i
                               /\ Busy(w) \/ work[w].pc = "dead"

\* Retries are bounded up to faults: an attempt beyond max_attempts is one that
\* a crash, a dead thread or a lost lease cut short.
AttemptsAccounted ==
  \A i \in JobIds : jobs[i].attempts <= MaxAttempts + faults

\* A job is given up, and its object failed closed, only after max_attempts
\* deliveries, whatever claims were lost in between.
GivenUpOnlyAfterMaxAttempts ==
  \A i \in JobIds : jobs[i].state = "failed" => jobs[i].attempts >= MaxAttempts

\* Two workers never dead-letter the same job, also when each of them believed
\* it held the last attempt.
DeadLetteredOnce ==
  \A v, w \in Workers :
    (v # w /\ work[v].pc = "deadletter" /\ work[w].pc = "deadletter")
      => work[v].job # work[w].job

\* The inductive invariant behind the properties above, part by part.

\* A running row and the thread its owner names agree on the job and on how many
\* attempts it has had.
OwnersAgree ==
  \A i \in JobIds :
    jobs[i].state = "running" =>
      /\ jobs[i].owner \in Workers
      /\ up => /\ work[jobs[i].owner].job = i
               /\ work[jobs[i].owner].attempts = jobs[i].attempts
               /\ Busy(jobs[i].owner) \/ work[jobs[i].owner].pc = "dead"

ThreadsHaveJobs ==
  \A w \in Workers :
    /\ ~up => work[w].pc = "idle"
    /\ (Busy(w) \/ work[w].pc = "deadletter") => work[w].job \in JobIds

OneActiveRow ==
  \A i, k \in JobIds :
    (Active(i) /\ Active(k) /\ jobs[i].obj = jobs[k].obj) => i = k

\* Without a fault every busy thread still owns its row.
FaultFree ==
  faults = 0 =>
    /\ up
    /\ \A w \in Workers :
         /\ work[w].pc # "dead"
         /\ Busy(w) => Holds(w, work[w].job)
    /\ \A i \in JobIds : jobs[i].state = "running" => jobs[i].live

\* A row that may be claimed once more has an attempt, or a fault, to spare.
AttemptsSpare ==
  \A i \in JobIds :
    (\/ jobs[i].state = "queued"
     \/ /\ jobs[i].state = "running"
        /\ ~up \/ ~jobs[i].live \/ work[jobs[i].owner].pc = "dead")
    => jobs[i].attempts < MaxAttempts + faults

DeadLettersFailed ==
  \A w \in Workers :
    work[w].pc = "deadletter" => jobs[work[w].job].state \in {"failed", "purged"}

FreshIdsAbsent ==
  \A i \in JobIds : i >= nextId => jobs[i].state = "absent" /\ jobs[i].attempts = 0

ActiveRowsSane ==
  \A i \in JobIds :
    /\ jobs[i].state = "running" => jobs[i].attempts >= 1
    /\ Active(i) => jobs[i].obj \in Objects

QueueInv ==
  /\ OwnersAgree /\ ThreadsHaveJobs /\ OneActiveRow /\ FaultFree
  /\ AttemptsSpare /\ AttemptsAccounted /\ GivenUpOnlyAfterMaxAttempts
  /\ DeadLettersFailed /\ DeadLetteredOnce /\ FreshIdsAbsent /\ ActiveRowsSane

\* A worker that lost its row to another changes nothing about it any more: but for a
\* restart, a row leaves 'running', completed, queued again or failed, only in the step of
\* the thread that owns it and by what its own handler did; and it changes hands only
\* once its lease has run out.
OnlyTheOwnerFinishes ==
  [][\A i \in JobIds :
       jobs[i].state = "running" =>
         /\ jobs'[i].state # "running" =>
              \/ ~up /\ jobs'[i].state = "queued"
              \/ /\ jobs[i].owner # NoWorker
                 /\ work[jobs[i].owner].job = i
                 /\ work[jobs[i].owner].pc =
                      IF jobs'[i].state = "completed" THEN "returned" ELSE "raised"
                 /\ work'[jobs[i].owner] # work[jobs[i].owner]
         /\ jobs'[i].owner \notin {jobs[i].owner, NoWorker} => ~jobs[i].live]_queueVars

\* Every job accepted into the queue is eventually completed or failed, through
\* crashes, dead threads and lost leases, as long as one thread is left.
JobsFinish ==
  \A i \in JobIds :
    Active(i) ~> \/ jobs[i].state \in {"completed", "failed", "purged"}
                 \/ \A w \in Workers : work[w].pc = "dead"

\* The jobs, seen as the abstract queue sees them.
AbstractStatus ==
  [i \in JobIds |-> IF Active(i) THEN "active" ELSE jobs[i].state]

WQ == INSTANCE WorkQueue
        WITH status  <- AbstractStatus,
             subject <- [i \in JobIds |-> jobs[i].obj],
             tries   <- [i \in JobIds |-> jobs[i].attempts]

\* The leased queue implements the abstract one: crashes, leases and stale
\* workers never lose a job, end it twice or give it up early.
ImplementsWorkQueue == WQ!Spec
==============================================================================
