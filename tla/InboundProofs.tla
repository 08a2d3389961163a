---------------------------- MODULE InboundProofs ----------------------------
(***************************************************************************)
(* The inbound service on top of the queue, for every number of objects,   *)
(* workers, rows and faults.  First: it touches the queue only through the *)
(* operations of JobQueue, so what is proved of the queue on its own holds *)
(* of the queue inside the service.  Then the objects: which thread works  *)
(* for which object, where each payload is and who may move it (the        *)
(* inductive invariant), and from that, that what is released is there,    *)
(* that one worker at a time is past mkdir(), the refinement of            *)
(* ObjectLifecycle, and that recovery forgets nothing.                     *)
(***************************************************************************)
EXTENDS InboundSystem, JobQueueProofs

\* A worker's part of a scan.
LEMMA ScanStepUsesQueue ==
  ASSUME NEW w \in Workers, ScanStep(w)
  PROVE  [Next]_queueVars
<1>1. CASE Returns(w) \/ Raises(w)
  BY <1>1 DEF Returns, Raises, HandlerEnds, Next
<1>2. CASE UNCHANGED queueVars
  BY <1>2
<1>3. QED
  BY <1>1, <1>2 DEF ScanStep, BeginScan, ReadObject, RunScanners, MakeReleaseDir, MovePayload,
     Repath, ConcludeScan, FailScan, FailClosed

\* Recording the outcome of a job, and dead-lettering it.
LEMMA OutcomeStepUsesQueue ==
  ASSUME NEW w \in Workers, OutcomeStep(w)
  PROVE  [Next]_queueVars
BY DEF OutcomeStep, Settled, GiveUp, ClaimDeadLetter, CondemnDeadLetter, Settle, Next

\* Exceptions.
LEMMA GlitchUsesQueue ==
  ASSUME NEW w \in Workers, ScanGlitch(w) \/ DeadLetterGlitch(w)
  PROVE  [Next]_queueVars
<1>1. CASE ScanGlitch(w)
  BY <1>1 DEF ScanGlitch, Raises, HandlerEnds, Next
<1>2. CASE DeadLetterGlitch(w)
  BY <1>2 DEF DeadLetterGlitch, Settle, Next
<1>3. QED
  BY <1>1, <1>2

\* Leases and dying threads.
LEMMA FaultUsesQueue ==
  ASSUME NEW w \in Workers, LeaseStep(w) \/ WorkerDies(w) \/ Take(w)
  PROVE  [Next]_queueVars
BY DEF LeaseStep, WorkerDies, Take, Next

\* The sweep.
LEMMA SweepUsesQueue ==
  ASSUME SweepStep \/ SweepGlitch
  PROVE  [Next]_queueVars
<1>1. CASE UNCHANGED queueVars
  BY <1>1
<1>2. CASE PurgeCompleted
  BY <1>2 DEF Next
<1>3. QED
  BY <1>1, <1>2 DEF SweepStep, SweepGlitch, StartExpiring, ReadDue, ExpireDue, StartTimeouts,
     TimeOutScan, StartPurge, PurgePayload, ClearPath, EndSweep

\* Crash and start-up.
LEMMA BootUsesQueue ==
  ASSUME BootStep \/ SystemCrash
  PROVE  [Next]_queueVars
<1>1. CASE Crash \/ Start \/ \E o \in Objects : Submit(o)
  BY <1>1 DEF Next
<1>2. CASE UNCHANGED queueVars
  BY <1>2
<1>3. QED
  BY <1>1, <1>2 DEF BootStep, SystemCrash, Harden, StartQueue, StartRecovery, RecoverScanning,
     RecoveryRaises, StartResubmitting, Resubmit, StartServing

\* Every step of the service is a step of the queue or leaves it alone.
LEMMA StepUsesQueue == SystemNext => [Next]_queueVars
<1> SUFFICES ASSUME SystemNext
             PROVE  [Next]_queueVars
  OBVIOUS
<1>1. ASSUME NEW o \in Objects,
             \/ Upload(o) \/ Rescan(o) \/ SubmitScan(o) \/ SubmitGlitch(o)
             \/ Expire(o) \/ BecomesDue(o) \/ BecomesStale(o)
      PROVE  [Next]_queueVars
  BY <1>1 DEF Upload, Rescan, SubmitScan, SubmitGlitch, Expire, BecomesDue, BecomesStale, Next
<1>2. ASSUME NEW i \in JobIds, QueueTime(i)
      PROVE  [Next]_queueVars
  BY <1>2 DEF QueueTime, Next
<1>3. QED
  BY <1>1, <1>2, ScanStepUsesQueue, OutcomeStepUsesQueue, GlitchUsesQueue, FaultUsesQueue,
     SweepUsesQueue, BootUsesQueue DEF SystemNext

\* The service drives the queue only through the operations JobQueue models: whatever
\* requests, scans, sweeps, crashes and start-ups do, the queue inside it is a JobQueue.
THEOREM ServiceUsesQueue == SystemSpec => Spec
<1>1. SystemInit => Init
  BY DEF SystemInit
<1>2. UNCHANGED systemVars => UNCHANGED queueVars
  BY DEF systemVars, queueVars
<1>3. [SystemNext]_systemVars => [Next]_queueVars
  BY <1>2, StepUsesQueue
<1>4. QED
  BY <1>1, <1>3, PTL DEF SystemSpec, Spec

\* Inside the service, too, no two workers scan the same object at once before a lease is
\* lost, a thread dies or the process crashes.
THEOREM ScansExclude == SystemSpec => []ExclusiveHandling
BY ServiceUsesQueue, NeverTwiceAtOnce

\* ... a worker that lost its lease to another completes, requeues and fails no job of it ...
THEOREM StaleScansEndNothing == SystemSpec => OnlyTheOwnerFinishes
BY ServiceUsesQueue, StaleWorkersEndNothing

\* ... and every job the service submitted is remembered, ends once, and is given up only
\* after MaxAttempts tries.
THEOREM ServiceKeepsJobs == SystemSpec => ImplementsWorkQueue
BY ServiceUsesQueue, QueueRefinement

------------------------------------------------------------------------------
(* The inductive invariant of the service.                                 *)

States  == {"absent", "pending_scan", "scanning", "quarantined", "released", "rejected",
            "expired"}
ScanPcs == {"begin", "read", "scan", "mkdir", "move", "repath", "conclude", "except",
            "failclosed"}
Locals  == [pc: {"none", "claim", "condemn"} \cup ScanPcs, path: Places,
            target: {"none", "released", "quarantined", "rejected"}]
Sweeps  == [pc: {"idle", "expire", "expiring", "timeout", "purge", "clear"},
            todo: SUBSET Objects, paths: [Objects -> Places],
            current: Objects \cup {NoObject}, seen: States]
Boots   == [pc: {"serving", "down", "hardened", "refused", "started", "recover", "resubmit"},
            todo: SUBSET Objects]

\* A thread inside scan_object has a job, and its locals are fresh before and after.
ThreadOk(w) ==
  /\ scan[w].pc \in ScanPcs <=> work[w].pc = "handling"
  /\ scan[w].pc \notin ScanPcs => scan[w].path = "none"
  /\ scan[w].pc \in {"scan", "mkdir", "move"} => scan[w].path # "none"
  /\ work[w].pc \in {"handling", "returned", "raised", "deadletter"}
       => jobs[work[w].job].state # "absent"

\* A job was submitted for an object that exists.
JobOk(i) ==
  jobs[i].state # "absent" => jobs[i].obj \in Objects /\ row[jobs[i].obj].state # "absent"

\* Nobody works on an object that does not exist yet.
AbsentOk(o) ==
  row[o].state = "absent" => /\ row[o].path = "none" /\ file[o] = "none"
                             /\ submits[o] = 0
                             /\ o \notin mt.todo /\ o \notin boot.todo

\* The queue runs from start() on, and the sweep while the service serves.
BootOk ==
  /\ up <=> boot.pc \notin {"down", "hardened", "refused"}
  /\ boot.pc = "serving" => boot = Serving
  /\ boot.pc # "serving" => mt = NoSweep
  /\ mt.pc \in {"expiring", "clear"} => mt.current \in Objects
  /\ mt.pc = "clear" => mt.current \in mt.todo

Threads == \A w \in Workers : ThreadOk(w)
JobRows == \A i \in JobIds : JobOk(i)
Absent  == \A o \in Objects : AbsentOk(o)

\* Who works for whom.
Actors == SystemTypeOK /\ Threads /\ JobRows /\ Absent /\ BootOk

------------------------------------------------------------------------------
(* Types.                                                                  *)

\* The published life cycle, as a relation on states.
LEMMA LifeCycle ==
  ASSUME NEW s \in States, NEW t \in ALLOWED_TRANSITIONS[s]
  PROVE  /\ s \notin {"absent", "expired"}
         /\ t \in States \ {"absent"}
         /\ t = "scanning" => s = "pending_scan"
         /\ t \in {"released", "rejected", "quarantined"} => s = "scanning"
         /\ t = "pending_scan" => s = "quarantined"
         /\ t = "expired" => s \in {"pending_scan", "quarantined", "released", "rejected"}
BY DEF ALLOWED_TRANSITIONS, States

\* The type invariant, by the names above.
LEMMA ServiceTypes ==
  SystemTypeOK <=>
    /\ TypeOK
    /\ row \in [Objects -> [state: States, path: Places]]
    /\ file \in [Objects -> Places]
    /\ relDir \in [Objects -> BOOLEAN]
    /\ due \in [Objects -> BOOLEAN]
    /\ stale \in [Objects -> BOOLEAN]
    /\ scan \in [Workers -> Locals]
    /\ submits \in [Objects -> 0..(MaxSubmits + 1)]
    /\ mt \in Sweeps
    /\ boot \in Boots
    /\ glitches \in 0..MaxTroubles
<1>1. DOMAIN ALLOWED_TRANSITIONS = States
  BY DEF ALLOWED_TRANSITIONS, States
<1>2. {"none", "begin", "read", "scan", "mkdir", "move", "repath", "conclude",
       "except", "failclosed", "claim", "condemn"} = {"none", "claim", "condemn"} \cup ScanPcs
  BY DEF ScanPcs
<1>3. QED
  BY <1>1, <1>2 DEF SystemTypeOK, Locals, Sweeps, Boots

\* ... in the next state.
LEMMA ServiceTypesNext ==
  ASSUME TypeOK', row' \in [Objects -> [state: States, path: Places]],
         file' \in [Objects -> Places], relDir' \in [Objects -> BOOLEAN],
         due' \in [Objects -> BOOLEAN], stale' \in [Objects -> BOOLEAN],
         scan' \in [Workers -> Locals], submits' \in [Objects -> 0..(MaxSubmits + 1)],
         mt' \in Sweeps, boot' \in Boots, glitches' \in 0..MaxTroubles
  PROVE  SystemTypeOK'
<1>1. DOMAIN ALLOWED_TRANSITIONS = States
  BY DEF ALLOWED_TRANSITIONS, States
<1>2. {"none", "begin", "read", "scan", "mkdir", "move", "repath", "conclude",
       "except", "failclosed", "claim", "condemn"} = {"none", "claim", "condemn"} \cup ScanPcs
  BY DEF ScanPcs
<1>3. QED
  BY <1>1, <1>2 DEF SystemTypeOK, Locals, Sweeps, Boots

\* The thread that holds a job works for an object that exists.
LEMMA HandlerObject ==
  ASSUME Actors, QueueInv, NEW w \in Workers,
         work[w].pc \in {"handling", "returned", "raised", "deadletter"}
  PROVE  /\ work[w].job \in JobIds
         /\ jobs[work[w].job].state # "absent"
         /\ ObjectOf(w) \in Objects
         /\ row[ObjectOf(w)].state \in States \ {"absent"}
<1>1. work[w].job \in JobIds
  BY DEF QueueInv, ThreadsHaveJobs, Busy
<1>2. jobs[work[w].job].state # "absent"
  BY DEF Actors, Threads, ThreadOk
<1>3. ObjectOf(w) \in Objects /\ row[ObjectOf(w)].state # "absent"
  BY <1>1, <1>2 DEF Actors, JobRows, JobOk, ObjectOf
<1>4. QED
  BY <1>1, <1>2, <1>3, ServiceTypes DEF Actors

\* What the steps do to the objects table keeps its type.
LEMMA RowTyped ==
  ASSUME row \in [Objects -> [state: States, path: Places]],
         NEW o \in Objects, NEW s \in States, NEW p \in Places
  PROVE  /\ [row EXCEPT ![o].state = s] \in [Objects -> [state: States, path: Places]]
         /\ [row EXCEPT ![o].path = p] \in [Objects -> [state: States, path: Places]]
         /\ [row EXCEPT ![o] = [state |-> s, path |-> p]]
              \in [Objects -> [state: States, path: Places]]
OBVIOUS

\* ... and what they do to the locals of a scan.
LEMMA LocalsTyped ==
  ASSUME scan \in [Workers -> Locals], NEW w \in Workers,
         NEW p \in {"none", "claim", "condemn"} \cup ScanPcs,
         NEW q \in Places, NEW t \in {"released", "quarantined", "rejected"}
  PROVE  /\ [scan EXCEPT ![w].pc = p] \in [Workers -> Locals]
         /\ [scan EXCEPT ![w].pc = p, ![w].path = q] \in [Workers -> Locals]
         /\ [scan EXCEPT ![w].pc = p, ![w].target = t] \in [Workers -> Locals]
         /\ [scan EXCEPT ![w] = NoScan] \in [Workers -> Locals]
<1>1. NoScan \in Locals
  BY DEF NoScan, Locals, Places
<1>2. scan[w] \in Locals
  OBVIOUS
<1>3. [scan[w] EXCEPT !.pc = p] \in Locals
  BY <1>2 DEF Locals
<1>4. [scan[w] EXCEPT !.pc = p, !.path = q] \in Locals
  BY <1>2 DEF Locals
<1>5. [scan[w] EXCEPT !.pc = p, !.target = t] \in Locals
  BY <1>2 DEF Locals
<1>6. [scan EXCEPT ![w].pc = p] \in [Workers -> Locals]
  BY <1>3, FunctionTyped
<1>7. [scan EXCEPT ![w].pc = p, ![w].path = q] \in [Workers -> Locals]
  BY <1>4
<1>8. [scan EXCEPT ![w].pc = p, ![w].target = t] \in [Workers -> Locals]
  BY <1>5
<1>9. [scan EXCEPT ![w] = NoScan] \in [Workers -> Locals]
  BY <1>1
<1>10. QED
  BY <1>6, <1>7, <1>8, <1>9

\* A transition is along the life cycle and leaves storage_path alone.
LEMMA TransitionTyped ==
  ASSUME SystemTypeOK, NEW o \in Objects, NEW s, Transition(o, s)
  PROVE  /\ row[o].state \in States \ {"absent", "expired"}
         /\ s \in ALLOWED_TRANSITIONS[row[o].state]
         /\ s \in States \ {"absent"}
         /\ row' \in [Objects -> [state: States, path: Places]]
         /\ stale' \in [Objects -> BOOLEAN]
         /\ row'[o].state = s /\ row'[o].path = row[o].path
         /\ \A p \in Objects \ {o} : row'[p] = row[p]
<1>1. row \in [Objects -> [state: States, path: Places]] /\ stale \in [Objects -> BOOLEAN]
  BY ServiceTypes
<1>2. row[o].state \in States \ {"absent", "expired"}
      /\ s \in ALLOWED_TRANSITIONS[row[o].state] /\ s \in States \ {"absent"}
  BY <1>1, LifeCycle DEF Transition, CanMove
<1>3. row' = [row EXCEPT ![o].state = s] /\ stale' = [stale EXCEPT ![o] = FALSE]
  BY DEF Transition
<1>4. row' \in [Objects -> [state: States, path: Places]]
  <2>1. "none" \in Places
    BY DEF Places
  <2>2. QED
    BY <1>1, <1>2, <1>3, <2>1, RowTyped
<1>5. QED
  BY <1>1, <1>2, <1>3, <1>4

\* Requests keep the types.
LEMMA RequestTyped ==
  ASSUME Actors, TypeOK', NEW o \in Objects,
         \/ Upload(o) \/ Rescan(o) \/ SubmitScan(o) \/ SubmitGlitch(o)
         \/ Expire(o) \/ BecomesDue(o) \/ BecomesStale(o)
  PROVE  SystemTypeOK'
<1>0. /\ SystemTypeOK
      /\ row \in [Objects -> [state: States, path: Places]] /\ file \in [Objects -> Places]
      /\ relDir \in [Objects -> BOOLEAN] /\ due \in [Objects -> BOOLEAN]
      /\ stale \in [Objects -> BOOLEAN] /\ scan \in [Workers -> Locals]
      /\ submits \in [Objects -> 0..(MaxSubmits + 1)] /\ mt \in Sweeps /\ boot \in Boots
      /\ glitches \in 0..MaxTroubles /\ faults \in Nat
      /\ MaxSubmits \in Nat /\ MaxTroubles \in Nat
  BY ServiceTypes, SystemConstants, QueueConstants DEF Actors, TypeOK
<1>1. ASSUME NEW n \in 0..(MaxSubmits + 1)
      PROVE  [submits EXCEPT ![o] = n] \in [Objects -> 0..(MaxSubmits + 1)]
  BY <1>0
<1>2. CASE Upload(o)
  <2>1. submits[o] + 1 \in 0..(MaxSubmits + 1)
    BY <1>0, <1>2 DEF Upload, Actors, Absent, AbsentOk
  <2>2. "isolation" \in Places /\ "pending_scan" \in States
    BY DEF Places, States
  <2>3. row' \in [Objects -> [state: States, path: Places]]
    BY <1>0, <1>2, <2>2, RowTyped DEF Upload
  <2>4. file' \in [Objects -> Places] /\ submits' \in [Objects -> 0..(MaxSubmits + 1)]
    BY <1>0, <1>1, <1>2, <2>1, <2>2 DEF Upload
  <2>5. QED
    BY <1>0, <1>2, <2>3, <2>4, ServiceTypesNext DEF Upload
<1>3. CASE Rescan(o)
  <2>1. submits[o] + 1 \in 0..(MaxSubmits + 1)
    BY <1>0, <1>3 DEF Rescan
  <2>2. row' \in [Objects -> [state: States, path: Places]] /\ stale' \in [Objects -> BOOLEAN]
    BY <1>0, <1>3, TransitionTyped DEF Rescan
  <2>3. submits' \in [Objects -> 0..(MaxSubmits + 1)]
    BY <1>1, <1>3, <2>1 DEF Rescan
  <2>4. QED
    BY <1>0, <1>3, <2>2, <2>3, ServiceTypesNext DEF Rescan
<1>4. CASE SubmitScan(o) \/ SubmitGlitch(o)
  <2>1. submits[o] - 1 \in 0..(MaxSubmits + 1)
    BY <1>0, <1>4 DEF SubmitScan, SubmitGlitch
  <2>2. submits' \in [Objects -> 0..(MaxSubmits + 1)]
    BY <1>1, <1>4, <2>1 DEF SubmitScan, SubmitGlitch
  <2>3. glitches' \in 0..MaxTroubles
    BY <1>0, <1>4 DEF SubmitScan, SubmitGlitch, Glitch, Calm
  <2>4. QED
    BY <1>0, <1>4, <2>2, <2>3, ServiceTypesNext DEF SubmitScan, SubmitGlitch, objectVars
<1>5. CASE Expire(o)
  <2>1. row' \in [Objects -> [state: States, path: Places]] /\ stale' \in [Objects -> BOOLEAN]
    BY <1>0, <1>5, TransitionTyped DEF Expire
  <2>2. QED
    BY <1>0, <1>5, <2>1, ServiceTypesNext DEF Expire
<1>6. CASE BecomesDue(o) \/ BecomesStale(o)
  <2>1. due' \in [Objects -> BOOLEAN] /\ stale' \in [Objects -> BOOLEAN]
    BY <1>0, <1>6 DEF BecomesDue, BecomesStale
  <2>2. QED
    BY <1>0, <1>6, <2>1, ServiceTypesNext DEF BecomesDue, BecomesStale
<1>7. QED
  BY <1>2, <1>3, <1>4, <1>5, <1>6

\* So do the workers.
LEMMA ThreadStepTyped ==
  ASSUME Actors, QueueInv, TypeOK', NEW w \in Workers,
         \/ Take(w) \/ ScanStep(w) \/ OutcomeStep(w) \/ ScanGlitch(w)
         \/ DeadLetterGlitch(w) \/ LeaseStep(w) \/ WorkerDies(w)
  PROVE  SystemTypeOK'
<1>0. /\ SystemTypeOK
      /\ row \in [Objects -> [state: States, path: Places]] /\ file \in [Objects -> Places]
      /\ relDir \in [Objects -> BOOLEAN] /\ due \in [Objects -> BOOLEAN]
      /\ stale \in [Objects -> BOOLEAN] /\ scan \in [Workers -> Locals]
      /\ submits \in [Objects -> 0..(MaxSubmits + 1)] /\ mt \in Sweeps /\ boot \in Boots
      /\ glitches \in 0..MaxTroubles /\ faults \in Nat
      /\ MaxSubmits \in Nat /\ MaxTroubles \in Nat
  BY ServiceTypes, SystemConstants, QueueConstants DEF Actors, TypeOK
<1>1. /\ "released" \in Places /\ "none" \in Places
      /\ {"none", "begin", "read", "scan", "mkdir", "move", "repath", "conclude", "except",
          "failclosed", "claim", "condemn"} = {"none", "claim", "condemn"} \cup ScanPcs
  BY DEF Places, ScanPcs
<1>2. ASSUME NEW p \in {"none", "claim", "condemn"} \cup ScanPcs, Goto(w, p)
      PROVE  scan' \in [Workers -> Locals]
  BY <1>0, <1>1, <1>2, LocalsTyped DEF Goto
<1>3. ASSUME NEW t \in {"released", "quarantined", "rejected"}, Conclude(w, t)
      PROVE  scan' \in [Workers -> Locals]
  BY <1>0, <1>1, <1>3, LocalsTyped DEF Conclude
<1>4. ASSUME scan' = [scan EXCEPT ![w] = NoScan]
      PROVE  scan' \in [Workers -> Locals]
  BY <1>0, <1>1, <1>4, LocalsTyped
<1>5. ASSUME work[w].pc \in {"handling", "deadletter"}
      PROVE  ObjectOf(w) \in Objects
  BY <1>5, HandlerObject
<1>6. CASE Take(w)
  BY <1>0, <1>1, <1>2, <1>6, ServiceTypesNext DEF Take, objectVars
<1>7. CASE BeginScan(w)
  <2>1. scan' \in [Workers -> Locals]
    BY <1>1, <1>2, <1>4, <1>7 DEF BeginScan, Returns
  <2>2. row' \in [Objects -> [state: States, path: Places]] /\ stale' \in [Objects -> BOOLEAN]
    BY <1>0, <1>5, <1>7, TransitionTyped DEF BeginScan, At
  <2>3. QED
    BY <1>0, <1>7, <2>1, <2>2, ServiceTypesNext DEF BeginScan
<1>8. CASE ReadObject(w) \/ RunScanners(w)
  <2>1. row[ObjectOf(w)].path \in Places
    BY <1>0, <1>5, <1>8 DEF ReadObject, RunScanners, At
  <2>2. [scan EXCEPT ![w].pc = "scan", ![w].path = row[ObjectOf(w)].path] \in [Workers -> Locals]
    BY <1>0, <1>1, <2>1, LocalsTyped
  <2>3. scan' \in [Workers -> Locals]
    BY <1>1, <1>2, <1>3, <1>8, <2>2 DEF ReadObject, RunScanners
  <2>4. QED
    BY <1>0, <1>8, <2>3, ServiceTypesNext DEF ReadObject, RunScanners, objectVars
<1>9. CASE MakeReleaseDir(w) \/ MovePayload(w)
  <2>1. scan' \in [Workers -> Locals]
    BY <1>1, <1>2, <1>9 DEF MakeReleaseDir, MovePayload
  <2>2. file' \in [Objects -> Places] /\ relDir' \in [Objects -> BOOLEAN]
    BY <1>0, <1>1, <1>9 DEF MakeReleaseDir, MovePayload
  <2>3. QED
    BY <1>0, <1>9, <2>1, <2>2, ServiceTypesNext DEF MakeReleaseDir, MovePayload
<1>10. CASE Repath(w)
  <2>1. scan' \in [Workers -> Locals]
    BY <1>3, <1>10 DEF Repath
  <2>2. row' \in [Objects -> [state: States, path: Places]]
    BY <1>0, <1>1, <1>5, <1>10, RowTyped DEF Repath, At, States
  <2>3. QED
    BY <1>0, <1>10, <2>1, <2>2, ServiceTypesNext DEF Repath
<1>11. CASE ConcludeScan(w) \/ FailScan(w) \/ FailClosed(w)
  <2>1. scan' \in [Workers -> Locals]
    BY <1>1, <1>2, <1>4, <1>11 DEF ConcludeScan, FailScan, FailClosed, Returns, Raises
  <2>2. row' \in [Objects -> [state: States, path: Places]] /\ stale' \in [Objects -> BOOLEAN]
    BY <1>0, <1>5, <1>11, TransitionTyped
       DEF ConcludeScan, FailScan, FailClosed, At, objectVars
  <2>3. QED
    BY <1>0, <1>11, <2>1, <2>2, ServiceTypesNext DEF ConcludeScan, FailScan, FailClosed, objectVars
<1>12. CASE GiveUp(w)
  <2>1. scan' \in [Workers -> Locals]
    BY <1>0, <1>1, <1>12, LocalsTyped DEF GiveUp
  <2>2. QED
    BY <1>0, <1>12, <2>1, ServiceTypesNext DEF GiveUp, objectVars
<1>13. CASE ClaimDeadLetter(w) \/ CondemnDeadLetter(w)
  <2>1. scan' \in [Workers -> Locals]
    BY <1>1, <1>2, <1>4, <1>13 DEF ClaimDeadLetter, CondemnDeadLetter
  <2>2. row' \in [Objects -> [state: States, path: Places]] /\ stale' \in [Objects -> BOOLEAN]
    BY <1>0, <1>5, <1>13, TransitionTyped DEF ClaimDeadLetter, CondemnDeadLetter, DeadLetterDone
  <2>3. QED
    BY <1>0, <1>13, <2>1, <2>2, ServiceTypesNext DEF ClaimDeadLetter, CondemnDeadLetter
<1>14. CASE ScanGlitch(w) \/ DeadLetterGlitch(w)
  <2>1. scan' \in [Workers -> Locals]
    BY <1>1, <1>2, <1>4, <1>14 DEF ScanGlitch, DeadLetterGlitch, Raises
  <2>2. glitches' \in 0..MaxTroubles
    BY <1>0, <1>14 DEF ScanGlitch, DeadLetterGlitch, Glitch, Calm
  <2>3. QED
    BY <1>0, <1>14, <2>1, <2>2, ServiceTypesNext DEF ScanGlitch, DeadLetterGlitch, objectVars
<1>15. CASE Settled(w) \/ LeaseStep(w) \/ WorkerDies(w)
  BY <1>0, <1>15, ServiceTypesNext DEF Settled, LeaseStep, WorkerDies, inboundVars
<1>16. QED
  BY <1>6, <1>7, <1>8, <1>9, <1>10, <1>11, <1>12, <1>13, <1>14, <1>15
     DEF ScanStep, OutcomeStep

\* What the sweep does to its own variables keeps their types.
LEMMA SweepRecordTyped ==
  ASSUME mt \in Sweeps, NEW pc \in {"idle", "expire", "expiring", "timeout", "purge", "clear"},
         NEW S \in SUBSET Objects, NEW o \in Objects, NEW s \in States,
         NEW q \in [Objects -> Places]
  PROVE  /\ Sweep(pc, S) \in Sweeps /\ NoSweep \in Sweeps
         /\ Swept(o) \in Sweeps
         /\ [Swept(o) EXCEPT !.pc = pc, !.current = o, !.seen = s] \in Sweeps
         /\ [Swept(o) EXCEPT !.pc = pc, !.current = NoObject] \in Sweeps
         /\ [mt EXCEPT !.pc = pc, !.current = o] \in Sweeps
         /\ [Sweep(pc, S) EXCEPT !.paths = q] \in Sweeps
<1>1. NoSweep \in Sweeps
  BY DEF NoSweep, NoPaths, Sweeps, Places, States
<1>2. Sweep(pc, S) \in Sweeps
  <2>1. PICK n \in Sweeps : n = NoSweep
    BY <1>1
  <2>2. [n EXCEPT !.pc = pc, !.todo = S] \in Sweeps
    BY DEF Sweeps
  <2>3. QED
    BY <2>1, <2>2 DEF Sweep
<1>3. Swept(o) \in Sweeps
  BY DEF Swept, Sweeps
<1>4. ASSUME NEW m \in Sweeps
      PROVE  /\ [m EXCEPT !.pc = pc, !.current = o, !.seen = s] \in Sweeps
             /\ [m EXCEPT !.pc = pc, !.current = NoObject] \in Sweeps
             /\ [m EXCEPT !.pc = pc, !.current = o] \in Sweeps
             /\ [m EXCEPT !.paths = q] \in Sweeps
  BY DEF Sweeps
<1>5. QED
  BY <1>1, <1>2, <1>3, <1>4

\* So does the sweep.
LEMMA SweepTyped ==
  ASSUME Actors, TypeOK', SweepStep \/ SweepGlitch
  PROVE  SystemTypeOK'
<1>0. /\ SystemTypeOK
      /\ row \in [Objects -> [state: States, path: Places]] /\ file \in [Objects -> Places]
      /\ relDir \in [Objects -> BOOLEAN] /\ due \in [Objects -> BOOLEAN]
      /\ stale \in [Objects -> BOOLEAN] /\ scan \in [Workers -> Locals]
      /\ submits \in [Objects -> 0..(MaxSubmits + 1)] /\ mt \in Sweeps /\ boot \in Boots
      /\ glitches \in 0..MaxTroubles /\ faults \in Nat
      /\ MaxSubmits \in Nat /\ MaxTroubles \in Nat
  BY ServiceTypes, SystemConstants, QueueConstants DEF Actors, TypeOK
<1>1. /\ "none" \in Places /\ "absent" \in States /\ NoPaths \in [Objects -> Places]
  BY DEF Places, States, NoPaths
<1>2. NoSweep \in Sweeps
  BY <1>1 DEF NoSweep, Sweeps
<1>3. ASSUME NEW pc \in {"idle", "expire", "expiring", "timeout", "purge", "clear"},
             NEW S \in SUBSET Objects
      PROVE  Sweep(pc, S) \in Sweeps
  BY <1>0, <1>1, <1>2 DEF Sweep, NoSweep, Sweeps
<1>4. CASE StartExpiring \/ StartTimeouts
  <2>1. mt' \in Sweeps
    BY <1>3, <1>4 DEF StartExpiring, StartTimeouts
  <2>2. QED
    BY <1>0, <1>4, <2>1, ServiceTypesNext DEF StartExpiring, StartTimeouts, objectVars
<1>5. ASSUME NEW o \in Objects, ReadDue(o)
      PROVE  SystemTypeOK'
  <2>1. row[o].state \in States
    BY <1>0
  <2>2. mt' \in Sweeps
    BY <1>0, <1>1, <1>2, <1>5, <2>1, SweepRecordTyped DEF ReadDue
  <2>3. QED
    BY <1>0, <1>5, <2>2, ServiceTypesNext DEF ReadDue, objectVars
<1>6. CASE ExpireDue
  <2>1. mt.current \in Objects /\ mt.todo \in SUBSET Objects
    BY <1>0, <1>6 DEF ExpireDue, Actors, BootOk, Sweeps
  <2>2. mt' \in Sweeps
    BY <1>2, <1>3, <1>6, <2>1 DEF ExpireDue
  <2>3. row' \in [Objects -> [state: States, path: Places]] /\ stale' \in [Objects -> BOOLEAN]
    BY <1>0, <1>6, <2>1, TransitionTyped DEF ExpireDue
  <2>4. QED
    BY <1>0, <1>6, <2>2, <2>3, ServiceTypesNext DEF ExpireDue
<1>7. ASSUME NEW o \in Objects, TimeOutScan(o)
      PROVE  SystemTypeOK'
  <2>1. mt' \in Sweeps
    BY <1>0, <1>1, <1>2, <1>7, SweepRecordTyped DEF TimeOutScan
  <2>2. row' \in [Objects -> [state: States, path: Places]] /\ stale' \in [Objects -> BOOLEAN]
    BY <1>0, <1>7, TransitionTyped DEF TimeOutScan
  <2>3. QED
    BY <1>0, <1>7, <2>1, <2>2, ServiceTypesNext DEF TimeOutScan
<1>8. CASE StartPurge
  <2>1. [o \in Objects |-> row[o].path] \in [Objects -> Places]
    BY <1>0
  <2>2. PICK S \in SUBSET Objects :
          mt' = [Sweep("purge", S) EXCEPT !.paths = [o \in Objects |-> row[o].path]]
    BY <1>8 DEF StartPurge
  <2>3. mt' \in Sweeps
    BY <1>3, <2>1, <2>2 DEF Sweeps
  <2>4. QED
    BY <1>0, <1>8, <2>3, ServiceTypesNext DEF StartPurge, objectVars
<1>9. ASSUME NEW o \in Objects, PurgePayload(o)
      PROVE  SystemTypeOK'
  <2>1. mt' \in Sweeps
    BY <1>0, <1>1, <1>9, SweepRecordTyped DEF PurgePayload
  <2>2. file' \in [Objects -> Places] /\ relDir' \in [Objects -> BOOLEAN]
    BY <1>0, <1>1, <1>9 DEF PurgePayload
  <2>3. QED
    BY <1>0, <1>9, <2>1, <2>2, ServiceTypesNext DEF PurgePayload
<1>10. CASE ClearPath
  <2>1. mt.current \in Objects
    BY <1>10 DEF ClearPath, Actors, BootOk
  <2>2. mt' \in Sweeps
    BY <1>0, <1>1, <1>10, <2>1, SweepRecordTyped DEF ClearPath
  <2>3. row' \in [Objects -> [state: States, path: Places]]
    BY <1>0, <1>1, <1>10, <2>1, RowTyped DEF ClearPath
  <2>4. QED
    BY <1>0, <1>10, <2>2, <2>3, ServiceTypesNext DEF ClearPath
<1>11. CASE EndSweep
  BY <1>0, <1>2, <1>11, ServiceTypesNext DEF EndSweep, objectVars
<1>12. CASE SweepGlitch
  <2>1. glitches' \in 0..MaxTroubles
    BY <1>0, <1>12 DEF SweepGlitch, Glitch, Calm
  <2>2. QED
    BY <1>0, <1>2, <1>12, <2>1, ServiceTypesNext DEF SweepGlitch, objectVars
<1>13. QED
  BY <1>4, <1>5, <1>6, <1>7, <1>8, <1>9, <1>10, <1>11, <1>12 DEF SweepStep

\* ... crashes and the start-up sequence.
LEMMA BootTyped ==
  ASSUME Actors, TypeOK', BootStep \/ SystemCrash
  PROVE  SystemTypeOK'
<1>0. /\ SystemTypeOK
      /\ row \in [Objects -> [state: States, path: Places]] /\ file \in [Objects -> Places]
      /\ relDir \in [Objects -> BOOLEAN] /\ due \in [Objects -> BOOLEAN]
      /\ stale \in [Objects -> BOOLEAN] /\ scan \in [Workers -> Locals]
      /\ submits \in [Objects -> 0..(MaxSubmits + 1)] /\ mt \in Sweeps /\ boot \in Boots
      /\ glitches \in 0..MaxTroubles
      /\ MaxSubmits \in Nat
  BY ServiceTypes, SystemConstants DEF Actors
<1>1. ASSUME Forget, UNCHANGED <<objectVars, glitches>>
      PROVE  SystemTypeOK'
  <2>1. scan' \in [Workers -> Locals]
    BY <1>1 DEF Forget, NoScan, Locals, Places
  <2>2. submits' \in [Objects -> 0..(MaxSubmits + 1)]
    BY <1>0, <1>1 DEF Forget
  <2>3. mt' \in Sweeps /\ boot' \in Boots
    BY <1>1 DEF Forget, NoSweep, NoPaths, Sweeps, Places, States, Down, Boots
  <2>4. QED
    BY <1>0, <1>1, <2>1, <2>2, <2>3, ServiceTypesNext DEF objectVars
<1>2. ASSUME NEW o \in Objects, RecoverScanning(o)
      PROVE  SystemTypeOK'
  <2>1. row' \in [Objects -> [state: States, path: Places]] /\ stale' \in [Objects -> BOOLEAN]
    BY <1>0, <1>2, TransitionTyped DEF RecoverScanning
  <2>2. boot' \in Boots
    BY <1>0, <1>2 DEF RecoverScanning, Boots
  <2>3. QED
    BY <1>0, <1>2, <2>1, <2>2, ServiceTypesNext DEF RecoverScanning
<1>3. ASSUME \/ Harden \/ StartQueue \/ StartRecovery \/ StartResubmitting \/ StartServing
             \/ \E o \in Objects : Resubmit(o)
      PROVE  SystemTypeOK'
  <2>1. boot' \in Boots
    BY <1>0, <1>3 DEF Harden, StartQueue, StartRecovery, StartResubmitting, StartServing, Resubmit,
       Boots, Serving
  <2>2. QED
    BY <1>0, <1>3, <2>1, ServiceTypesNext
       DEF Harden, StartQueue, StartRecovery, StartResubmitting, StartServing, Resubmit, objectVars
<1>4. QED
  BY <1>1, <1>2, <1>3 DEF BootStep, SystemCrash, RecoveryRaises

------------------------------------------------------------------------------
(* Who works for whom.                                                     *)

\* A submission adds a row for its object, or none.
LEMMA SubmittedRow ==
  ASSUME TypeOK, QueueInv, NEW o \in Objects, Submit(o), NEW i \in JobIds
  PROVE  \/ jobs'[i] = jobs[i]
         \/ jobs[i].state = "absent" /\ jobs'[i].obj = o /\ nextId' # nextId
<1>0. jobs \in [JobIds -> Row] /\ nextId \in 1..(MaxJobs + 1)
  BY DEF TypeOK
<1>1. \/ jobs' = jobs
      \/ /\ nextId \in JobIds
         /\ jobs' = [jobs EXCEPT ![nextId] =
                      [obj |-> o, state |-> "queued", attempts |-> 0,
                       ready |-> TRUE, live |-> FALSE, owner |-> NoWorker]]
         /\ nextId' = nextId + 1
  BY DEF Submit
<1>2. CASE nextId = i /\ jobs' # jobs
  <2>1. jobs'[i].obj = o
    BY <1>0, <1>1, <1>2
  <2>2. jobs[i].state = "absent"
    BY <1>0, <1>2 DEF QueueInv, FreshIdsAbsent
  <2>3. nextId' # nextId
    BY <1>0, <1>1, <1>2
  <2>4. QED
    BY <2>1, <2>2, <2>3
<1>3. CASE nextId # i \/ jobs' = jobs
  BY <1>0, <1>1, <1>3
<1>4. QED
  BY <1>2, <1>3

\* A row of the queue keeps its object for as long as it exists, and rows are made by
\* submissions only.
LEMMA RowsKeepObjects ==
  ASSUME TypeOK, QueueInv, [Next]_queueVars, NEW i \in JobIds
  PROVE  \/ /\ jobs'[i].obj = jobs[i].obj
            /\ jobs'[i].state = "absent" <=> jobs[i].state = "absent"
         \/ jobs[i].state = "absent" /\ nextId' # nextId
<1> DEFINE Same == /\ jobs'[i].obj = jobs[i].obj
                   /\ jobs'[i].state = "absent" <=> jobs[i].state = "absent"
<1>0. jobs \in [JobIds -> Row] /\ jobs[i] \in Row
  BY DEF TypeOK
<1>1. ASSUME NEW o \in Objects, Submit(o)
      PROVE  Same \/ (jobs[i].state = "absent" /\ nextId' # nextId)
  BY <1>1, SubmittedRow
<1>2. ASSUME NEW w \in Workers, Claim(w)
      PROVE  Same
  <2>1. PICK k \in JobIds : Claimable(k) /\ jobs' = [jobs EXCEPT ![k] = Leased(jobs[k], w)]
    BY <1>2 DEF Claim
  <2>2. CASE k = i
    <3>1. jobs'[i] = Leased(jobs[i], w)
      BY <1>0, <2>1, <2>2
    <3>2. jobs'[i].obj = jobs[i].obj /\ jobs'[i].state = "running"
      <4>1. Leased(jobs[i], w).obj = jobs[i].obj /\ Leased(jobs[i], w).state = "running"
        BY <1>0, LeasedColumns
      <4>2. QED
        BY <3>1, <4>1
    <3>3. jobs[i].state # "absent"
      BY <2>1, <2>2 DEF Claimable
    <3>4. QED
      BY <3>2, <3>3
  <2>3. QED
    BY <1>0, <2>1, <2>2
<1>3. ASSUME NEW k, NEW s \in RowStates \ {"absent"}, NEW b, jobs' = Unlease(k, s, b),
             k = i => jobs[i].state # "absent"
      PROVE  Same
  <2>1. CASE k = i
    <3>1. jobs'[i] = [jobs[i] EXCEPT !.state = s, !.ready = b, !.owner = NoWorker, !.live = FALSE]
      BY <1>0, <1>3, <2>1 DEF Unlease
    <3>2. jobs'[i].obj = jobs[i].obj /\ jobs'[i].state = s
      BY <1>0, <3>1 DEF Row
    <3>3. QED
      BY <1>3, <2>1, <3>2
  <2>2. QED
    BY <1>0, <1>3, <2>1 DEF Unlease
<1>4. ASSUME NEW w \in Workers, Settle(w)
      PROVE  Same
  <2>1. \/ jobs' = jobs
        \/ /\ Holds(w, work[w].job)
           /\ \/ jobs' = Unlease(work[w].job, "completed", TRUE)
              \/ jobs' = Unlease(work[w].job, "queued", FALSE)
              \/ jobs' = Unlease(work[w].job, "failed", TRUE)
    BY <1>4 DEF Settle, Complete, Retry, Fail, DeadLetterDone
  <2>2. QED
    BY <1>3, <2>1 DEF RowStates, Holds
<1>5. ASSUME NEW k, NEW b, \/ jobs' = [jobs EXCEPT ![k].live = b]
                           \/ jobs' = [jobs EXCEPT ![k].ready = b]
      PROVE  Same
  <2>1. /\ [jobs[i] EXCEPT !.live = b].obj = jobs[i].obj
        /\ [jobs[i] EXCEPT !.live = b].state = jobs[i].state
        /\ [jobs[i] EXCEPT !.ready = b].obj = jobs[i].obj
        /\ [jobs[i] EXCEPT !.ready = b].state = jobs[i].state
    BY <1>0 DEF Row
  <2>2. jobs'[i] \in {jobs[i], [jobs[i] EXCEPT !.live = b], [jobs[i] EXCEPT !.ready = b]}
    BY <1>0, <1>5
  <2>3. QED
    BY <2>1, <2>2
<1>6. CASE Start
  <2>1. /\ [jobs[i] EXCEPT !.state = "queued", !.ready = TRUE, !.owner = NoWorker,
                           !.live = FALSE].obj = jobs[i].obj
        /\ [jobs[i] EXCEPT !.state = "queued", !.ready = TRUE, !.owner = NoWorker,
                           !.live = FALSE].state = "queued"
    BY <1>0 DEF Row
  <2>2. QED
    BY <1>6, <2>1 DEF Start
<1>7. CASE PurgeCompleted
  <2>1. /\ [jobs[i] EXCEPT !.state = "purged"].obj = jobs[i].obj
        /\ [jobs[i] EXCEPT !.state = "purged"].state = "purged"
    BY <1>0 DEF Row
  <2>2. QED
    BY <1>7, <2>1 DEF PurgeCompleted, Finished
<1>8. CASE UNCHANGED jobs
  BY <1>8
<1>9. QED
  BY <1>1, <1>2, <1>3, <1>4, <1>5, <1>6, <1>7, <1>8
     DEF Next, queueVars, HandlerEnds, HandlerReturns, HandlerRaises, ThreadDies, Crash,
         Heartbeat, LeaseLost, BackoffElapses, LeaseLapses

\* A thread keeps its job until it is idle again, or dies.
LEMMA ThreadsKeepJobs ==
  ASSUME TypeOK, [Next]_queueVars, NEW v \in Workers,
         work'[v].pc \in {"handling", "returned", "raised", "deadletter"}
  PROVE  \/ /\ work[v].pc \in {"handling", "returned", "raised", "deadletter"}
            /\ work'[v].job = work[v].job
         \/ /\ work[v].pc = "idle" /\ work'[v].pc = "handling"
            /\ work'[v].job \in JobIds
            /\ jobs[work'[v].job].state # "absent"
<1>0. work \in [Workers -> Thread]
  BY DEF TypeOK
<1>1. ASSUME NEW w \in Workers, Claim(w)
      PROVE  \/ work'[v] = work[v]
             \/ /\ work[v].pc = "idle" /\ work'[v].pc = "handling"
                /\ work'[v].job \in JobIds
                /\ jobs[work'[v].job].state # "absent"
  BY <1>0, <1>1 DEF Claim, Claimable
<1>2. ASSUME NEW w \in Workers, HandlerEnds(w) \/ Settle(w) \/ ThreadDies(w)
      PROVE  /\ work[v].pc \in {"handling", "returned", "raised", "deadletter"}
             /\ work'[v].job = work[v].job
  <2>1. \/ work' = [work EXCEPT ![w] = IdleThread]
        \/ work' = [work EXCEPT ![w].pc = "dead"]
        \/ /\ work[w].pc \in {"handling", "raised"}
           /\ \E pc \in {"returned", "raised", "deadletter"} : work' = [work EXCEPT ![w].pc = pc]
    BY <1>2 DEF HandlerEnds, HandlerReturns, HandlerRaises, Settle, Complete, Retry, Fail,
       DeadLetterDone, ThreadDies
  <2>2. work[v] \in Thread
    BY <1>0
  <2>3. QED
    BY <1>0, <2>1, <2>2 DEF IdleThread, Thread
<1>3. CASE Crash
  BY <1>3 DEF Crash, IdleThread
<1>4. CASE UNCHANGED work
  BY <1>4
<1>5. QED
  BY <1>1, <1>2, <1>3, <1>4
     DEF Next, queueVars, Submit, Heartbeat, LeaseLost, BackoffElapses, LeaseLapses, Start,
         PurgeCompleted

\* The submissions are those of the requests and of recovery.
LEMMA WhoSubmits ==
  ASSUME SystemNext, nextId' # nextId
  PROVE  \E o \in Objects : Submit(o) /\ (submits[o] > 0 \/ o \in boot.todo)
<1>1. ASSUME NEW o \in Objects,
             \/ Upload(o) \/ Rescan(o) \/ SubmitScan(o) \/ SubmitGlitch(o)
             \/ Expire(o) \/ BecomesDue(o) \/ BecomesStale(o)
      PROVE  Submit(o) /\ submits[o] > 0
  BY <1>1 DEF Upload, Rescan, SubmitScan, SubmitGlitch, Expire, BecomesDue, BecomesStale, queueVars
<1>2. ASSUME NEW w \in Workers, ScanStep(w) \/ ScanGlitch(w)
      PROVE  FALSE
  <2>1. CASE Returns(w) \/ Raises(w)
    BY <2>1 DEF Returns, Raises, HandlerReturns, HandlerRaises
  <2>2. CASE UNCHANGED queueVars
    BY <2>2 DEF queueVars
  <2>3. QED
    BY <1>2, <2>1, <2>2 DEF ScanStep, BeginScan, ReadObject, RunScanners, MakeReleaseDir,
       MovePayload, Repath, ConcludeScan, FailScan, FailClosed, ScanGlitch
<1>3. ASSUME NEW w \in Workers,
             Take(w) \/ OutcomeStep(w) \/ DeadLetterGlitch(w) \/ LeaseStep(w) \/ WorkerDies(w)
      PROVE  FALSE
  BY <1>3 DEF Take, OutcomeStep, DeadLetterGlitch, LeaseStep, WorkerDies, Settled, GiveUp,
     ClaimDeadLetter, CondemnDeadLetter, queueVars, Claim, Complete, Retry, Fail, DeadLetterDone,
     Heartbeat, LeaseLost, ThreadDies
<1>4. ASSUME NEW i \in JobIds, QueueTime(i)
      PROVE  FALSE
  BY <1>4 DEF QueueTime, BackoffElapses, LeaseLapses
<1>5. ASSUME SweepStep \/ SweepGlitch
      PROVE  FALSE
  BY <1>5 DEF SweepStep, SweepGlitch, StartExpiring, ReadDue, ExpireDue, StartTimeouts,
     TimeOutScan, StartPurge, PurgePayload, ClearPath, EndSweep, PurgeCompleted, queueVars
<1>6. ASSUME BootStep \/ SystemCrash
      PROVE  \E o \in Objects : Submit(o) /\ o \in boot.todo
  BY <1>6 DEF BootStep, SystemCrash, Harden, StartQueue, StartRecovery, RecoverScanning,
     RecoveryRaises, StartResubmitting, Resubmit, StartServing, queueVars, Crash, Start
<1>7. QED
  BY <1>1, <1>2, <1>3, <1>4, <1>5, <1>6 DEF SystemNext

\* What a step does to the rows: nothing, one transition, one upload, or a new path.
LEMMA RowSteps ==
  ASSUME Actors, QueueInv, SystemNext
  PROVE  \/ UNCHANGED row
         \/ \E o \in Objects, s \in States :
              /\ Transition(o, s)
              /\ s = "pending_scan" => boot = Serving
         \/ \E o \in Objects : Upload(o)
         \/ \E o \in Objects, p \in Places : row' = [row EXCEPT ![o].path = p]
<1> DEFINE Goal == \/ UNCHANGED row
                   \/ \E o \in Objects, s \in States :
                        /\ Transition(o, s)
                        /\ s = "pending_scan" => boot = Serving
                   \/ \E o \in Objects : Upload(o)
                   \/ \E o \in Objects, p \in Places : row' = [row EXCEPT ![o].path = p]
<1>0. {"pending_scan", "scanning", "quarantined", "released", "rejected", "expired"} \subseteq States
      /\ "none" \in Places /\ "released" \in Places
  BY DEF States, Places
<1>1. ASSUME NEW o \in Objects,
             \/ Upload(o) \/ Rescan(o) \/ SubmitScan(o) \/ SubmitGlitch(o)
             \/ Expire(o) \/ BecomesDue(o) \/ BecomesStale(o)
      PROVE  Goal
  BY <1>0, <1>1 DEF Rescan, SubmitScan, SubmitGlitch, Expire, BecomesDue, BecomesStale, objectVars
<1>2. ASSUME NEW w \in Workers, ScanStep(w)
      PROVE  Goal
  <2>1. PICK o \in Objects : o = ObjectOf(w)
    BY <1>2, HandlerObject DEF ScanStep, BeginScan, ReadObject, RunScanners, MakeReleaseDir,
       MovePayload, Repath, ConcludeScan, FailScan, FailClosed, At
  <2>2. scan \in [Workers -> Locals]
    BY ServiceTypes DEF Actors
  <2>3. CASE ConcludeScan(w)
    <3>1. CASE row' = row
      BY <3>1
    <3>2. PICK t : t = scan[w].target
      OBVIOUS
    <3>3. CASE Transition(o, t)
      <4>1. t # "pending_scan" /\ t \in States
        BY <2>2, <3>2, <3>3, TransitionTyped DEF Locals, Actors
      <4>2. QED
        BY <3>3, <4>1
    <3>4. QED
      BY <2>1, <2>3, <3>1, <3>2, <3>3 DEF ConcludeScan
  <2>4. CASE ~ ConcludeScan(w)
    BY <1>0, <1>2, <2>1, <2>4 DEF ScanStep, BeginScan, ReadObject, RunScanners, MakeReleaseDir,
       MovePayload, Repath, FailScan, FailClosed, objectVars
  <2>5. QED
    BY <2>3, <2>4
<1>3. ASSUME NEW w \in Workers,
             \/ Take(w) \/ OutcomeStep(w) \/ ScanGlitch(w)
             \/ DeadLetterGlitch(w) \/ LeaseStep(w) \/ WorkerDies(w)
      PROVE  Goal
  <2>1. CASE ClaimDeadLetter(w) \/ CondemnDeadLetter(w)
    <3>1. PICK o \in Objects : o = ObjectOf(w)
      BY <2>1, HandlerObject DEF ClaimDeadLetter, CondemnDeadLetter, DeadLetterDone
    <3>2. QED
      BY <1>0, <2>1, <3>1 DEF ClaimDeadLetter, CondemnDeadLetter
  <2>2. QED
    BY <1>3, <2>1 DEF Take, OutcomeStep, ScanGlitch, DeadLetterGlitch, LeaseStep, WorkerDies,
       Settled, GiveUp, inboundVars, objectVars
<1>4. ASSUME NEW i \in JobIds, QueueTime(i)
      PROVE  Goal
  BY <1>4 DEF QueueTime, inboundVars
<1>5. CASE SweepStep \/ SweepGlitch
  <2>1. mt.pc \in {"expiring", "clear"} => mt.current \in Objects
    BY DEF Actors, BootOk
  <2>2. QED
    BY <1>0, <1>5, <2>1 DEF SweepStep, SweepGlitch, StartExpiring, ReadDue, ExpireDue,
       StartTimeouts, TimeOutScan, StartPurge, PurgePayload, ClearPath, EndSweep, objectVars
<1>6. CASE BootStep \/ SystemCrash
  BY <1>0, <1>6 DEF BootStep, SystemCrash, Harden, StartQueue, StartRecovery, RecoverScanning,
     RecoveryRaises, StartResubmitting, Resubmit, StartServing, objectVars
<1>7. QED
  BY <1>1, <1>2, <1>3, <1>4, <1>5, <1>6 DEF SystemNext

\* An object that exists goes on existing, an expired one stays expired, and only requests
\* make an object wait for a scan again.
StateMoves(o) ==
  /\ row[o].state # "absent" => row'[o].state # "absent"
  /\ row[o].state = "expired" => row'[o].state = "expired"
  /\ row'[o].state = "pending_scan" /\ boot # Serving => row[o].state = "pending_scan"

\* The row of one object moves, or none.
LEMMA StatesMove ==
  ASSUME Actors, QueueInv, SystemNext, NEW o \in Objects
  PROVE  StateMoves(o)
<1>0. SystemTypeOK /\ row \in [Objects -> [state: States, path: Places]]
  BY ServiceTypes DEF Actors
<1>1. CASE UNCHANGED row
  BY <1>1 DEF StateMoves
<1>2. ASSUME NEW p \in Objects, NEW s \in States, Transition(p, s),
             s = "pending_scan" => boot = Serving
      PROVE  StateMoves(o)
  BY <1>0, <1>2, TransitionTyped DEF StateMoves
<1>3. ASSUME NEW p \in Objects, Upload(p)
      PROVE  StateMoves(o)
  BY <1>0, <1>3 DEF Upload, StateMoves
<1>4. ASSUME NEW p \in Objects, NEW q \in Places, row' = [row EXCEPT ![p].path = q]
      PROVE  StateMoves(o)
  BY <1>0, <1>4 DEF StateMoves
<1>5. QED
  BY <1>1, <1>2, <1>3, <1>4, RowSteps

\* A step of one thread leaves the others where they are.
Alone(w) == \A v \in Workers \ {w} : scan'[v] = scan[v] /\ work'[v] = work[v]

\* Threads that leave a handler.
LEMMA ThreadLeaves ==
  ASSUME work \in [Workers -> Thread], NEW w \in Workers,
         \/ work' = [work EXCEPT ![w] = IdleThread]
         \/ \E p \in {"returned", "raised", "deadletter", "dead"} : work' = [work EXCEPT ![w].pc = p]
  PROVE  work'[w].pc # "handling" /\ \A v \in Workers \ {w} : work'[v] = work[v]
BY DEF IdleThread, Thread

\* A thread that steps is inside scan_object with a job, or its locals are fresh.
LEMMA OwnThread ==
  ASSUME Actors, TypeOK, NEW w \in Workers,
         \/ Take(w) \/ ScanStep(w) \/ OutcomeStep(w) \/ ScanGlitch(w)
         \/ DeadLetterGlitch(w) \/ LeaseStep(w) \/ WorkerDies(w)
  PROVE  /\ Alone(w)
         /\ scan'[w].pc \in ScanPcs <=> work'[w].pc = "handling"
         /\ scan'[w].pc \notin ScanPcs => scan'[w].path = "none"
         /\ scan'[w].pc \in {"scan", "mkdir", "move"} => scan'[w].path # "none"
<1> DEFINE Goal == /\ Alone(w)
                   /\ scan'[w].pc \in ScanPcs <=> work'[w].pc = "handling"
                   /\ scan'[w].pc \notin ScanPcs => scan'[w].path = "none"
                   /\ scan'[w].pc \in {"scan", "mkdir", "move"} => scan'[w].path # "none"
<1>0. /\ scan \in [Workers -> Locals] /\ work \in [Workers -> Thread] /\ scan[w] \in Locals
      /\ work[w] \in Thread
  BY ServiceTypes DEF Actors, TypeOK
<1>1. /\ scan[w].pc \in ScanPcs <=> work[w].pc = "handling"
      /\ scan[w].pc \notin ScanPcs => scan[w].path = "none"
      /\ scan[w].pc \in {"scan", "mkdir", "move"} => scan[w].path # "none"
  BY DEF Actors, Threads, ThreadOk
<1>2. ASSUME scan' = [scan EXCEPT ![w] = NoScan], work'[w].pc # "handling",
             \A v \in Workers \ {w} : work'[v] = work[v]
      PROVE  Goal
  BY <1>0, <1>2 DEF Alone, NoScan, ScanPcs
<1>3. ASSUME NEW p \in ScanPcs, Goto(w, p), work[w].pc = "handling", UNCHANGED work,
             p \in {"scan", "mkdir", "move"} => scan[w].path # "none"
      PROVE  Goal
  BY <1>0, <1>3 DEF Alone, Goto, Locals
<1>4. ASSUME NEW t, Conclude(w, t), work[w].pc = "handling", UNCHANGED work
      PROVE  Goal
  BY <1>0, <1>4 DEF Alone, Conclude, Locals, ScanPcs
<1>5. CASE Take(w)
  <2>1. work'[w].pc = "handling" /\ \A v \in Workers \ {w} : work'[v] = work[v]
    BY <1>0, <1>5 DEF Take, Claim
  <2>2. scan'[w].pc = "begin" /\ \A v \in Workers \ {w} : scan'[v] = scan[v]
    BY <1>0, <1>5 DEF Take, Goto, Locals
  <2>3. QED
    BY <2>1, <2>2 DEF Alone, ScanPcs
<1>6. ASSUME Returns(w) \/ Raises(w)
      PROVE  Goal
  <2>1. work'[w].pc # "handling" /\ \A v \in Workers \ {w} : work'[v] = work[v]
    BY <1>0, <1>6, ThreadLeaves DEF Returns, Raises, HandlerReturns, HandlerRaises
  <2>2. QED
    BY <1>2, <1>6, <2>1 DEF Returns, Raises
<1>7. ASSUME DeadLetterDone(w), scan' = [scan EXCEPT ![w] = NoScan]
      PROVE  Goal
  <2>1. work'[w].pc # "handling" /\ \A v \in Workers \ {w} : work'[v] = work[v]
    BY <1>0, <1>7, ThreadLeaves DEF DeadLetterDone
  <2>2. QED
    BY <1>2, <1>7, <2>1
<1>8. CASE ReadObject(w) \/ RunScanners(w)
  <2>1. work[w].pc = "handling" /\ UNCHANGED work
    BY <1>8 DEF ReadObject, RunScanners, At, queueVars
  <2>2. ASSUME NEW q, q # "none", scan' = [scan EXCEPT ![w].pc = "scan", ![w].path = q]
        PROVE  Goal
    BY <1>0, <2>1, <2>2 DEF Alone, Locals, ScanPcs
  <2>3. CASE RunScanners(w) /\ Goto(w, "mkdir")
    <3>1. scan[w].path # "none" /\ "mkdir" \in ScanPcs
      BY <1>1, <2>3 DEF RunScanners, At, ScanPcs
    <3>2. QED
      BY <1>3, <2>1, <2>3, <3>1
  <2>4. QED
    BY <1>4, <1>8, <2>1, <2>2, <2>3 DEF ReadObject, RunScanners
<1>9. CASE ScanStep(w) \/ ScanGlitch(w)
  <2>1. work[w].pc = "handling"
    BY <1>9 DEF ScanStep, BeginScan, ReadObject, RunScanners, MakeReleaseDir, MovePayload,
       Repath, ConcludeScan, FailScan, FailClosed, ScanGlitch, At
  <2>2. "read" \in ScanPcs /\ "move" \in ScanPcs /\ "repath" \in ScanPcs /\ "except" \in ScanPcs
        /\ "failclosed" \in ScanPcs
    BY DEF ScanPcs
  <2>3. \/ Returns(w) \/ Raises(w) \/ ReadObject(w) \/ RunScanners(w)
        \/ /\ UNCHANGED work
           /\ \/ \E p \in {"read", "repath", "except", "failclosed"} : Goto(w, p)
              \/ Goto(w, "move") /\ scan[w].path # "none"
              \/ Conclude(w, "released")
    BY <1>1, <1>9 DEF ScanStep, At, BeginScan, MakeReleaseDir, MovePayload, Repath, ConcludeScan,
       FailScan, FailClosed, ScanGlitch, queueVars
  <2>4. QED
    BY <1>3, <1>4, <1>6, <1>8, <2>1, <2>2, <2>3
<1>10. CASE Settled(w) \/ WorkerDies(w)
  <2>1. work[w].pc # "handling" /\ scan' = scan
    BY <1>10 DEF Settled, WorkerDies, Complete, Retry, ThreadDies, inboundVars
  <2>2. work'[w].pc # "handling" /\ \A v \in Workers \ {w} : work'[v] = work[v]
    BY <1>0, <1>10, ThreadLeaves DEF Settled, WorkerDies, Complete, Retry, ThreadDies
  <2>3. QED
    BY <1>0, <1>1, <2>1, <2>2 DEF Alone
<1>11. CASE GiveUp(w)
  <2>1. /\ work[w].pc # "handling" /\ work'[w].pc # "handling"
        /\ \A v \in Workers \ {w} : work'[v] = work[v]
    BY <1>0, <1>11, ThreadLeaves DEF GiveUp, Fail
  <2>2. \E p \in {"claim", "none"} : scan' = [scan EXCEPT ![w].pc = p]
    BY <1>11 DEF GiveUp
  <2>3. scan'[w].pc \in {"claim", "none"} /\ scan'[w].path = scan[w].path
    BY <1>0, <2>2 DEF Locals
  <2>4. Alone(w)
    BY <1>0, <2>1, <2>2 DEF Alone
  <2>5. QED
    BY <1>1, <2>1, <2>3, <2>4 DEF ScanPcs
<1>12. CASE ClaimDeadLetter(w)
  <2>1. scan'[w].pc = "condemn" /\ scan'[w].path = scan[w].path /\ UNCHANGED work
    BY <1>0, <1>12 DEF ClaimDeadLetter, Goto, queueVars, Locals
  <2>2. scan[w].pc = "claim" /\ Alone(w)
    BY <1>0, <1>12 DEF ClaimDeadLetter, Goto, queueVars, Alone
  <2>3. QED
    BY <1>1, <2>1, <2>2 DEF ScanPcs
<1>13. CASE CondemnDeadLetter(w) \/ DeadLetterGlitch(w)
  BY <1>7, <1>13 DEF CondemnDeadLetter, DeadLetterGlitch
<1>14. CASE LeaseStep(w)
  BY <1>0, <1>1, <1>14 DEF LeaseStep, inboundVars, Heartbeat, LeaseLost, Alone
<1>15. QED
  BY <1>5, <1>9, <1>10, <1>11, <1>12, <1>13, <1>14 DEF OutcomeStep

\* The other steps move no thread, but a crash moves them all.
LEMMA OtherSteps ==
  ASSUME SystemNext
  PROVE  \/ \E w \in Workers : \/ Take(w) \/ ScanStep(w) \/ OutcomeStep(w) \/ ScanGlitch(w)
                               \/ DeadLetterGlitch(w) \/ LeaseStep(w) \/ WorkerDies(w)
         \/ UNCHANGED <<scan, work>>
         \/ Crash /\ Forget
<1>1. ASSUME NEW o \in Objects,
             \/ Upload(o) \/ Rescan(o) \/ SubmitScan(o) \/ SubmitGlitch(o)
             \/ Expire(o) \/ BecomesDue(o) \/ BecomesStale(o)
      PROVE  UNCHANGED <<scan, work>>
  BY <1>1 DEF Upload, Rescan, SubmitScan, SubmitGlitch, Expire, BecomesDue, BecomesStale,
     queueVars, Submit
<1>2. ASSUME NEW i \in JobIds, QueueTime(i)
      PROVE  UNCHANGED <<scan, work>>
  BY <1>2 DEF QueueTime, BackoffElapses, LeaseLapses, inboundVars
<1>3. ASSUME SweepStep \/ SweepGlitch
      PROVE  UNCHANGED <<scan, work>>
  BY <1>3 DEF SweepStep, SweepGlitch, StartExpiring, ReadDue, ExpireDue, StartTimeouts,
     TimeOutScan, StartPurge, PurgePayload, ClearPath, EndSweep, PurgeCompleted, queueVars
<1>4. ASSUME BootStep \/ SystemCrash
      PROVE  UNCHANGED <<scan, work>> \/ (Crash /\ Forget)
  BY <1>4 DEF BootStep, SystemCrash, Harden, StartQueue, StartRecovery, RecoverScanning,
     RecoveryRaises, StartResubmitting, Resubmit, StartServing, queueVars, Start, Submit
<1>5. QED
  BY <1>1, <1>2, <1>3, <1>4 DEF SystemNext

\* Threads keep to their jobs.
LEMMA ThreadsKept ==
  ASSUME Actors, QueueInv, TypeOK, SystemNext
  PROVE  Threads'
<1>0. [Next]_queueVars
  BY StepUsesQueue
<1>1. ASSUME NEW v \in Workers
      PROVE  /\ scan'[v].pc \in ScanPcs <=> work'[v].pc = "handling"
             /\ scan'[v].pc \notin ScanPcs => scan'[v].path = "none"
             /\ scan'[v].pc \in {"scan", "mkdir", "move"} => scan'[v].path # "none"
  <2>1. /\ scan[v].pc \in ScanPcs <=> work[v].pc = "handling"
        /\ scan[v].pc \notin ScanPcs => scan[v].path = "none"
        /\ scan[v].pc \in {"scan", "mkdir", "move"} => scan[v].path # "none"
    BY DEF Actors, Threads, ThreadOk
  <2>2. CASE Crash /\ Forget
    BY <2>2 DEF Crash, Forget, NoScan, ScanPcs, IdleThread
  <2>3. CASE UNCHANGED <<scan, work>>
    BY <2>1, <2>3
  <2>4. ASSUME NEW w \in Workers,
               \/ Take(w) \/ ScanStep(w) \/ OutcomeStep(w) \/ ScanGlitch(w)
               \/ DeadLetterGlitch(w) \/ LeaseStep(w) \/ WorkerDies(w)
        PROVE  /\ scan'[v].pc \in ScanPcs <=> work'[v].pc = "handling"
               /\ scan'[v].pc \notin ScanPcs => scan'[v].path = "none"
               /\ scan'[v].pc \in {"scan", "mkdir", "move"} => scan'[v].path # "none"
    <3>1. CASE v = w
      BY <2>4, <3>1, OwnThread
    <3>2. CASE v # w
      <4>1. scan'[v] = scan[v] /\ work'[v] = work[v]
        BY <2>4, <3>2, OwnThread DEF Alone
      <4>2. QED
        BY <2>1, <4>1
    <3>3. QED
      BY <3>1, <3>2
  <2>5. QED
    BY <2>2, <2>3, <2>4, OtherSteps
<1>2. ASSUME NEW v \in Workers,
             work'[v].pc \in {"handling", "returned", "raised", "deadletter"}
      PROVE  jobs'[work'[v].job].state # "absent"
  <2>1. work'[v].job \in JobIds /\ jobs[work'[v].job].state # "absent"
    BY <1>0, <1>2, ThreadsKeepJobs, HandlerObject
  <2>2. QED
    BY <1>0, <2>1, RowsKeepObjects
<1>3. QED
  BY <1>1, <1>2 DEF Threads, ThreadOk

\* Jobs are submitted for objects that exist.
LEMMA JobRowsKept ==
  ASSUME Actors, QueueInv, TypeOK, SystemNext
  PROVE  JobRows'
<1>0. [Next]_queueVars
  BY StepUsesQueue
<1> SUFFICES ASSUME NEW i \in JobIds, jobs'[i].state # "absent"
             PROVE  jobs'[i].obj \in Objects /\ row'[jobs'[i].obj].state # "absent"
  BY DEF JobRows, JobOk
<1>1. CASE jobs[i].state # "absent"
  <2>1. PICK o \in Objects : o = jobs[i].obj /\ row[o].state # "absent"
    BY <1>1 DEF Actors, JobRows, JobOk
  <2>2. jobs'[i].obj = o
    BY <1>0, <1>1, <2>1, RowsKeepObjects
  <2>3. QED
    BY <2>1, <2>2, StatesMove DEF StateMoves
<1>2. CASE jobs[i].state = "absent"
  <2>1. nextId' # nextId
    BY <1>0, <1>2, RowsKeepObjects
  <2>2. PICK o \in Objects : Submit(o) /\ (submits[o] > 0 \/ o \in boot.todo)
    BY <2>1, WhoSubmits
  <2>3. jobs'[i].obj = o
    BY <1>2, <2>2, SubmittedRow
  <2>4. row[o].state # "absent"
    BY <2>2 DEF Actors, Absent, AbsentOk
  <2>5. QED
    BY <2>3, <2>4, StatesMove DEF StateMoves
<1>3. QED
  BY <1>1, <1>2

\* Nobody works on an object that does not exist.
LEMMA AbsentKept ==
  ASSUME Actors, QueueInv, SystemNext
  PROVE  Absent'
<1> SUFFICES ASSUME NEW o \in Objects, row'[o].state = "absent"
             PROVE  /\ row'[o].path = "none" /\ file'[o] = "none" /\ submits'[o] = 0
                    /\ o \notin mt'.todo /\ o \notin boot'.todo
  BY DEF Absent, AbsentOk
<1>0. /\ SystemTypeOK
      /\ row \in [Objects -> [state: States, path: Places]] /\ file \in [Objects -> Places]
      /\ submits \in [Objects -> 0..(MaxSubmits + 1)] /\ mt \in Sweeps /\ boot \in Boots
  BY ServiceTypes DEF Actors
<1>1. row[o].state = "absent"
  BY StatesMove DEF StateMoves
<1>2. /\ row[o].path = "none" /\ file[o] = "none" /\ submits[o] = 0
      /\ o \notin mt.todo /\ o \notin boot.todo
  BY <1>1 DEF Actors, Absent, AbsentOk
<1>3. ASSUME NEW p \in Objects, Transition(p, "pending_scan") \/ Transition(p, "expired")
      PROVE  row'[o] = row[o]
  BY <1>0, <1>1, <1>3, TransitionTyped
<1>4. ASSUME NEW p \in Objects,
             \/ Upload(p) \/ Rescan(p) \/ SubmitScan(p) \/ SubmitGlitch(p)
             \/ Expire(p) \/ BecomesDue(p) \/ BecomesStale(p)
      PROVE  /\ row'[o] = row[o] /\ file'[o] = file[o] /\ submits'[o] = submits[o]
             /\ mt' = mt /\ boot' = boot
  <2>1. CASE Upload(p)
    <3>1. p # o
      BY <1>0, <2>1 DEF Upload
    <3>2. QED
      BY <1>0, <2>1, <3>1 DEF Upload
  <2>2. CASE Rescan(p)
    <3>1. p # o
      BY <1>1, <2>2 DEF Rescan
    <3>2. QED
      BY <1>0, <1>3, <2>2, <3>1 DEF Rescan
  <2>3. CASE SubmitScan(p) \/ SubmitGlitch(p)
    <3>1. p # o
      BY <1>0, <1>2, <2>3 DEF SubmitScan, SubmitGlitch
    <3>2. QED
      BY <1>0, <2>3, <3>1 DEF SubmitScan, SubmitGlitch, objectVars
  <2>4. CASE Expire(p) \/ BecomesDue(p) \/ BecomesStale(p)
    BY <1>3, <2>4 DEF Expire, BecomesDue, BecomesStale
  <2>5. QED
    BY <1>4, <2>1, <2>2, <2>3, <2>4
<1>5. ASSUME NEW w \in Workers,
             \/ Take(w) \/ ScanStep(w) \/ OutcomeStep(w) \/ ScanGlitch(w)
             \/ DeadLetterGlitch(w) \/ LeaseStep(w) \/ WorkerDies(w)
      PROVE  /\ row'[o] = row[o] /\ file'[o] = file[o] /\ UNCHANGED <<submits, mt, boot>>
  <2>1. UNCHANGED <<submits, mt, boot>>
    BY <1>5 DEF Take, ScanStep, OutcomeStep, ScanGlitch, DeadLetterGlitch, LeaseStep, WorkerDies,
       BeginScan, ReadObject, RunScanners, MakeReleaseDir, MovePayload, Repath, ConcludeScan,
       FailScan, FailClosed, Settled, GiveUp, ClaimDeadLetter, CondemnDeadLetter, inboundVars
  <2>2. CASE UNCHANGED objectVars
    BY <2>1, <2>2 DEF objectVars
  <2>3. CASE ScanStep(w) \/ ClaimDeadLetter(w) \/ CondemnDeadLetter(w)
    <3>1. ObjectOf(w) \in Objects /\ row[ObjectOf(w)].state # "absent"
      BY <2>3, HandlerObject DEF ScanStep, BeginScan, ReadObject, RunScanners, MakeReleaseDir,
         MovePayload, Repath, ConcludeScan, FailScan, FailClosed, At, ClaimDeadLetter,
         CondemnDeadLetter, DeadLetterDone
    <3>2. PICK p \in Objects : p = ObjectOf(w) /\ p # o
      BY <1>1, <3>1
    <3>3. file'[o] = file[o]
      BY <1>0, <2>3, <3>2 DEF ScanStep, BeginScan, ReadObject, RunScanners, MakeReleaseDir,
         MovePayload, Repath, ConcludeScan, FailScan, FailClosed, ClaimDeadLetter,
         CondemnDeadLetter, objectVars
    <3>4. \/ row' = row \/ \E s : Transition(p, s)
          \/ row' = [row EXCEPT ![p].path = "released"]
      BY <2>3, <3>2 DEF ScanStep, BeginScan, ReadObject, RunScanners, MakeReleaseDir, MovePayload,
         Repath, ConcludeScan, FailScan, FailClosed, ClaimDeadLetter, CondemnDeadLetter, objectVars
    <3>5. row'[o] = row[o]
      BY <1>0, <3>2, <3>4, TransitionTyped
    <3>6. QED
      BY <2>1, <3>3, <3>5
  <2>4. QED
    BY <1>5, <2>1, <2>2, <2>3 DEF Take, OutcomeStep, ScanGlitch, DeadLetterGlitch, LeaseStep,
       WorkerDies, Settled, GiveUp, inboundVars, objectVars
<1>6. CASE SweepStep \/ SweepGlitch
  <2>0. mt.pc = "clear" => mt.current \in Objects \ {o}
    BY <1>2 DEF Actors, BootOk
  <2>1. submits' = submits /\ boot' = boot
    BY <1>6 DEF SweepStep, SweepGlitch, StartExpiring, ReadDue, ExpireDue, StartTimeouts,
       TimeOutScan, StartPurge, PurgePayload, ClearPath, EndSweep
  <2>2. file'[o] = file[o]
    BY <1>0, <1>2, <1>6 DEF SweepStep, SweepGlitch, StartExpiring, ReadDue, ExpireDue,
       StartTimeouts, TimeOutScan, StartPurge, PurgePayload, ClearPath, EndSweep, objectVars
  <2>3. \/ row' = row \/ \E p \in Objects : \E s : Transition(p, s)
        \/ row' = [row EXCEPT ![mt.current].path = "none"] /\ mt.pc = "clear"
    <3>1. mt.pc = "expiring" => mt.current \in Objects
      BY DEF Actors, BootOk
    <3>2. QED
      BY <1>6, <3>1 DEF SweepStep, SweepGlitch, StartExpiring, ReadDue, ExpireDue, StartTimeouts,
         TimeOutScan, StartPurge, PurgePayload, ClearPath, EndSweep, objectVars
  <2>4. row'[o] = row[o]
    <3>1. ASSUME NEW p \in Objects, NEW s, Transition(p, s)
          PROVE  row'[o] = row[o]
      BY <1>0, <1>1, <3>1, TransitionTyped
    <3>2. QED
      BY <1>0, <2>0, <2>3, <3>1
  <2>5. o \notin mt'.todo
    <3>1. \/ mt'.todo \subseteq mt.todo
          \/ \A p \in mt'.todo : CanMove(p, "expired") \/ row[p].state \in {"scanning", "expired"}
      <4>1. ASSUME NEW pc, NEW S
            PROVE  Sweep(pc, S).todo = S
        BY DEF Sweep, NoSweep
      <4>2. CASE StartExpiring \/ StartTimeouts
        BY <4>1, <4>2 DEF StartExpiring, StartTimeouts
      <4>3. CASE StartPurge
        <5>1. mt'.todo = {p \in Objects : row[p].state = "expired" /\ stale[p]
                                                                   /\ row[p].path # "none"}
          BY <4>3 DEF StartPurge, Sweep, NoSweep
        <5>2. QED
          BY <5>1
      <4>4. CASE ExpireDue \/ EndSweep \/ SweepGlitch
        BY <4>1, <4>4 DEF ExpireDue, EndSweep, SweepGlitch, NoSweep
      <4>5. CASE ClearPath \/ \E p \in Objects : ReadDue(p) \/ TimeOutScan(p) \/ PurgePayload(p)
        <5>1. ASSUME NEW p \in Objects
              PROVE  Swept(p).todo \subseteq mt.todo
          BY <1>0 DEF Swept, Sweeps
        <5>2. \/ mt'.todo = mt.todo \/ mt' = NoSweep
              \/ \E p \in Objects : mt'.todo = mt.todo \ {p}
          BY <1>0, <2>0, <4>5 DEF ClearPath, ReadDue, TimeOutScan, PurgePayload, Swept, Sweeps
        <5>3. QED
          BY <5>2 DEF NoSweep
      <4>6. QED
        BY <1>6, <4>2, <4>3, <4>4, <4>5 DEF SweepStep
    <3>2. QED
      BY <1>0, <1>1, <1>2, <3>1, LifeCycle DEF CanMove
  <2>6. QED
    BY <1>2, <2>1, <2>2, <2>4, <2>5
<1>7. CASE BootStep \/ SystemCrash
  <2>1. /\ submits' = submits \/ submits' = [p \in Objects |-> 0]
        /\ mt' = mt \/ mt' = NoSweep
        /\ file' = file
    BY <1>7 DEF BootStep, SystemCrash, Harden, StartQueue, StartRecovery, RecoverScanning,
       RecoveryRaises, StartResubmitting, Resubmit, StartServing, Forget, objectVars
  <2>2. row'[o] = row[o]
    <3>1. row' = row \/ \E p \in Objects : Transition(p, "quarantined")
      BY <1>7 DEF BootStep, SystemCrash, Harden, StartQueue, StartRecovery, RecoverScanning,
         RecoveryRaises, StartResubmitting, Resubmit, StartServing, objectVars
    <3>2. QED
      BY <1>0, <1>1, <3>1, TransitionTyped
  <2>3. o \notin boot'.todo
    BY <1>0, <1>1, <1>2, <1>7
       DEF BootStep, SystemCrash, Harden, StartQueue, StartRecovery, RecoverScanning,
           RecoveryRaises, StartResubmitting, Resubmit, StartServing, Forget, Down, Serving, Boots
  <2>4. QED
    BY <1>2, <2>1, <2>2, <2>3 DEF NoSweep
<1>8. ASSUME NEW i \in JobIds, QueueTime(i)
      PROVE  UNCHANGED <<row, file, submits, mt, boot>>
  BY <1>8 DEF QueueTime, inboundVars
<1>9. QED
  BY <1>2, <1>4, <1>5, <1>6, <1>7, <1>8 DEF SystemNext

\* Start-up, the queue and the sweep stay in step.
LEMMA BootKept ==
  ASSUME Actors, TypeOK, SystemNext
  PROVE  BootOk'
<1>0. mt \in Sweeps /\ boot \in Boots /\ BootOk
  BY ServiceTypes DEF Actors
<1>1. ASSUME UNCHANGED <<up, mt, boot>>
      PROVE  BootOk'
  BY <1>0, <1>1 DEF BootOk
<1>2. ASSUME NEW o \in Objects,
             \/ Upload(o) \/ Rescan(o) \/ SubmitScan(o) \/ SubmitGlitch(o)
             \/ Expire(o) \/ BecomesDue(o) \/ BecomesStale(o)
      PROVE  UNCHANGED <<up, mt, boot>>
  BY <1>2 DEF Upload, Rescan, SubmitScan, SubmitGlitch, Expire, BecomesDue, BecomesStale,
     queueVars, Submit
<1>3. ASSUME NEW w \in Workers,
             \/ Take(w) \/ ScanStep(w) \/ OutcomeStep(w) \/ ScanGlitch(w)
             \/ DeadLetterGlitch(w) \/ LeaseStep(w) \/ WorkerDies(w)
      PROVE  UNCHANGED <<up, mt, boot>>
  <2>1. UNCHANGED <<mt, boot>>
    BY <1>3 DEF Take, ScanStep, OutcomeStep, ScanGlitch, DeadLetterGlitch, LeaseStep, WorkerDies,
       BeginScan, ReadObject, RunScanners, MakeReleaseDir, MovePayload, Repath, ConcludeScan,
       FailScan, FailClosed, Settled, GiveUp, ClaimDeadLetter, CondemnDeadLetter, inboundVars
  <2>2. CASE ScanStep(w) \/ ScanGlitch(w)
    <3>1. UNCHANGED queueVars \/ Returns(w) \/ Raises(w)
      BY <2>2 DEF ScanStep, ScanGlitch, BeginScan, ReadObject, RunScanners, MakeReleaseDir,
         MovePayload, Repath, ConcludeScan, FailScan, FailClosed
    <3>2. QED
      BY <2>1, <3>1 DEF Returns, Raises, HandlerReturns, HandlerRaises, queueVars
  <2>3. CASE ~ (ScanStep(w) \/ ScanGlitch(w))
    BY <1>3, <2>1, <2>3 DEF Take, OutcomeStep, DeadLetterGlitch, LeaseStep, WorkerDies, Settled,
       GiveUp, ClaimDeadLetter, CondemnDeadLetter, queueVars, Claim, Complete, Retry, Fail,
       DeadLetterDone, Heartbeat, LeaseLost, ThreadDies
  <2>4. QED
    BY <2>2, <2>3
<1>4. ASSUME NEW i \in JobIds, QueueTime(i)
      PROVE  UNCHANGED <<up, mt, boot>>
  BY <1>4 DEF QueueTime, BackoffElapses, LeaseLapses, inboundVars
<1>5. CASE SweepStep \/ SweepGlitch
  <2>1. UNCHANGED <<up, boot>>
    BY <1>5 DEF SweepStep, SweepGlitch, StartExpiring, ReadDue, ExpireDue, StartTimeouts,
       TimeOutScan, StartPurge, PurgePayload, ClearPath, EndSweep, queueVars, PurgeCompleted
  <2>2. boot.pc = "serving"
    <3>1. CASE mt = NoSweep
      BY <1>5, <3>1 DEF SweepStep, SweepGlitch, StartExpiring, ReadDue, ExpireDue, StartTimeouts,
         TimeOutScan, StartPurge, PurgePayload, ClearPath, EndSweep, NoSweep, Serving
    <3>2. QED
      BY <1>0, <3>1 DEF BootOk
  <2>3. /\ mt'.pc \in {"expiring", "clear"} => mt'.current \in Objects
        /\ mt'.pc = "clear" => mt'.current \in mt'.todo
    <3>1. ASSUME NEW o \in Objects, ReadDue(o)
          PROVE  mt' = NoSweep \/ (mt'.pc = "expiring" /\ mt'.current = o)
      BY <1>0, <3>1 DEF ReadDue, Swept, Sweeps
    <3>2. ASSUME NEW o \in Objects, PurgePayload(o)
          PROVE  mt'.pc = "clear" /\ mt'.current = o /\ o \in mt'.todo
      BY <1>0, <3>2 DEF PurgePayload, Sweeps
    <3>3. ASSUME NEW o \in Objects, TimeOutScan(o)
          PROVE  mt' = NoSweep \/ mt'.pc = "timeout"
      BY <1>0, <3>3 DEF TimeOutScan, Swept, Sweeps
    <3>4. ASSUME NEW pc, NEW S
          PROVE  Sweep(pc, S).pc = pc
      BY DEF Sweep, NoSweep
    <3>5. CASE StartPurge
      <4>1. mt'.pc = "purge"
        BY <3>5 DEF StartPurge, Sweep, NoSweep
      <4>2. QED
        BY <4>1
    <3>6. CASE ClearPath
      <4>1. mt'.pc = "purge"
        BY <1>0, <3>6 DEF ClearPath, Swept, Sweeps
      <4>2. QED
        BY <4>1
    <3>7. CASE StartExpiring \/ ExpireDue \/ StartTimeouts \/ EndSweep \/ SweepGlitch
      <4>1. mt'.pc \in {"idle", "expire", "timeout"}
        BY <3>4, <3>7 DEF StartExpiring, ExpireDue, StartTimeouts, EndSweep, SweepGlitch, NoSweep
      <4>2. QED
        BY <4>1
    <3>8. QED
      BY <1>5, <3>1, <3>2, <3>3, <3>5, <3>6, <3>7 DEF SweepStep, NoSweep
  <2>4. QED
    BY <1>0, <2>1, <2>2, <2>3 DEF BootOk
<1>6. ASSUME Crash, Forget
      PROVE  BootOk'
  BY <1>6 DEF Crash, Forget, BootOk, Down, NoSweep
<1>7. CASE BootStep
  <2>1. CASE \E o \in Objects : RecoveryRaises(o)
    BY <1>6, <2>1 DEF RecoveryRaises
  <2>2. CASE StartServing
    BY <1>0, <2>2 DEF StartServing, BootOk, Serving, queueVars
  <2>3. CASE Harden
    <3>1. boot'.pc \in {"hardened", "refused"} /\ UNCHANGED <<up, mt>>
      BY <1>0, <2>3 DEF Harden, Boots, queueVars
    <3>2. QED
      BY <1>0, <2>3, <3>1 DEF BootOk, Harden
  <2>4. CASE StartQueue
    <3>1. boot'.pc = "started" /\ mt' = mt /\ up'
      BY <1>0, <2>4 DEF StartQueue, Boots, Start
    <3>2. QED
      BY <1>0, <2>4, <3>1 DEF BootOk, StartQueue
  <2>5. CASE \/ StartRecovery \/ StartResubmitting
             \/ \E o \in Objects : RecoverScanning(o) \/ Resubmit(o)
    <3>1. /\ boot.pc \in {"started", "recover", "resubmit"}
          /\ boot'.pc \in {"recover", "resubmit"}
          /\ UNCHANGED <<up, mt>>
      BY <1>0, <2>5 DEF StartRecovery, StartResubmitting, RecoverScanning, Resubmit, Boots,
         queueVars, Submit
    <3>2. QED
      BY <1>0, <3>1 DEF BootOk
  <2>6. QED
    BY <1>7, <2>1, <2>2, <2>3, <2>4, <2>5 DEF BootStep
<1>8. QED
  BY <1>1, <1>2, <1>3, <1>4, <1>5, <1>6, <1>7 DEF SystemNext, SystemCrash

\* Every step keeps who works for whom.
LEMMA ActorsKept ==
  ASSUME Actors, QueueInv, TypeOK, TypeOK', SystemNext
  PROVE  Actors'
<1>1. SystemTypeOK'
  <2>1. ASSUME NEW i \in JobIds, QueueTime(i)
        PROVE  SystemTypeOK'
    BY <2>1, ServiceTypes, ServiceTypesNext DEF QueueTime, inboundVars, Actors
  <2>2. QED
    BY <2>1, RequestTyped, ThreadStepTyped, SweepTyped, BootTyped DEF SystemNext
<1>2. QED
  BY <1>1, ThreadsKept, JobRowsKept, AbsentKept, BootKept DEF Actors

------------------------------------------------------------------------------
(* Where the payload of an object is.                                      *)

\* A payload is in isolation only while the row says so, and in the release area only
\* inside the release directory; what is released is there, by the row too.
PlaceOk(o) ==
  /\ file[o] = "isolation" => row[o].path = "isolation"
  /\ file[o] = "released" => relDir[o]
  /\ row[o].state = "released" => row[o].path = "released" /\ file[o] = "released"

\* The purge has yet to unlink the payload of o.
Ahead(o)    == mt.pc \in {"purge", "clear"} /\ o \in mt.todo
                                            /\ ~(mt.pc = "clear" /\ mt.current = o)
Unlinked(o) == mt.pc = "clear" /\ mt.current = o

\* The purge works on expired objects, and the path it read can only have been overtaken
\* by the one move out of isolation.
PurgeOk(o) ==
  /\ mt.pc \in {"purge", "clear"} /\ o \in mt.todo => row[o].state = "expired"
  /\ Ahead(o) => /\ file[o] = "isolation" => mt.paths[o] = "isolation"
                 /\ mt.paths[o] = "released" /\ glitches = 0 => file[o] = "released"
  /\ Unlinked(o) => file[o] # "isolation"

\* Thread w is scanning o.
ScansObject(w, o) == scan[w].pc \in ScanPcs /\ ObjectOf(w) = o

\* What the steps of a release find: before the move the payload is not in the release
\* area, whose directory is there unless a purge that failed half-way was repeated;
\* between the move and the new path nothing else touches either.
ReleaserOk(w, o) ==
  /\ file[o] = "isolation" => scan[w].path # "released"
  /\ scan[w].pc = "move" => /\ file[o] # "released"
                            /\ \/ relDir[o]
                               \/ glitches > 0 /\ row[o].state = "expired"
                                               /\ file[o] # "isolation"
  /\ scan[w].pc = "repath" => /\ file[o] = "released"
                              /\ row[o].path # "released"
                              /\ ~(Ahead(o) /\ mt.paths[o] = "released")
  /\ scan[w].pc = "conclude" /\ scan[w].target = "released"
       => row[o].path = "released" \/ row[o].state = "expired"

\* Two threads get past mkdir() only when such a purge has removed the directory.
PairOk(v, w, o) ==
  scan[v].pc \in {"move", "repath"} /\ scan[w].pc \in {"move", "repath"}
    => /\ scan[v].pc = "move"
       /\ glitches > 0 /\ row[o].state = "expired" /\ file[o] # "isolation"

ObjectOk(o) ==
  /\ PlaceOk(o) /\ PurgeOk(o)
  /\ \A w \in Workers : ScansObject(w, o) => ReleaserOk(w, o)
  /\ \A v \in Workers, w \in Workers :
       v # w /\ ScansObject(v, o) /\ ScansObject(w, o) => PairOk(v, w, o)

Payloads == \A o \in Objects : ObjectOk(o)

\* A step that leaves the payload of o where it is, and the purge where it was with it.
QuietObject(o) ==
  /\ file'[o] = file[o] /\ relDir'[o] = relDir[o] /\ row'[o].path = row[o].path
  /\ row'[o].state = "released"
       => row[o].state = "released" \/ (row[o].path = "released" /\ file[o] = "released")
  /\ mt'.pc \in {"purge", "clear"} /\ o \in mt'.todo
       => mt.pc \in {"purge", "clear"} /\ o \in mt.todo
  /\ Ahead(o)' => Ahead(o) /\ mt'.paths[o] = mt.paths[o]
  /\ Unlinked(o)' => Unlinked(o)

\* A thread that begins a scan, or goes on with one outside the steps of a release.
Continues(w) ==
  \/ scan'[w].pc = "begin" /\ scan'[w].path = "none"
  \/ /\ scan[w].pc \in ScanPcs
     /\ scan'[w].path \in {scan[w].path, row[ObjectOf(w)].path}
     /\ scan'[w].pc \in {"move", "repath"} => scan'[w].pc = scan[w].pc
     /\ scan'[w].pc = "conclude" /\ scan'[w].target = "released"
          => scan[w].pc = "conclude" /\ scan[w].target = "released"

\* A thread in the middle of a scan stays with its object.
LEMMA SameObject ==
  ASSUME Actors, QueueInv, TypeOK, SystemNext, Threads',
         NEW w \in Workers, scan'[w].pc \in ScanPcs, scan[w].pc \in ScanPcs
  PROVE  ObjectOf(w)' = ObjectOf(w) /\ ObjectOf(w) \in Objects
<1>0. [Next]_queueVars
  BY StepUsesQueue
<1>1. work[w].pc = "handling" /\ work'[w].pc = "handling"
  BY DEF Actors, Threads, ThreadOk
<1>2. PICK i \in JobIds : i = work[w].job /\ jobs[i].state # "absent"
  BY <1>1, HandlerObject
<1>3. work'[w].job = i
  BY <1>0, <1>1, <1>2, ThreadsKeepJobs
<1>4. jobs'[i].obj = jobs[i].obj
  BY <1>0, <1>2, RowsKeepObjects
<1>5. QED
  BY <1>1, <1>2, <1>3, <1>4, HandlerObject DEF ObjectOf

\* Exceptions are only counted up.
LEMMA GlitchesGrow ==
  ASSUME Actors, SystemNext
  PROVE  glitches \in Nat /\ glitches' \in Nat /\ glitches <= glitches'
<1>1. glitches \in Nat
  BY ServiceTypes, SystemConstants DEF Actors
<1>2. glitches' = glitches \/ glitches' = glitches + 1
  BY DEF SystemNext, Upload, Rescan, SubmitScan, SubmitGlitch, Expire, BecomesDue, BecomesStale,
     Take, ScanStep, BeginScan, ReadObject, RunScanners, MakeReleaseDir, MovePayload, Repath,
     ConcludeScan, FailScan, FailClosed, OutcomeStep, Settled, GiveUp, ClaimDeadLetter,
     CondemnDeadLetter, ScanGlitch, DeadLetterGlitch, Glitch, LeaseStep, WorkerDies, QueueTime,
     SweepStep, SweepGlitch, StartExpiring, ReadDue, ExpireDue, StartTimeouts, TimeOutScan,
     StartPurge, PurgePayload, ClearPath, EndSweep, BootStep, SystemCrash, Harden, StartQueue,
     StartRecovery, RecoverScanning, RecoveryRaises, StartResubmitting, Resubmit, StartServing,
     inboundVars
<1>3. QED
  BY <1>1, <1>2

\* The rule for quiet steps.
LEMMA QuietRule ==
  ASSUME Actors, QueueInv, TypeOK, SystemNext, Threads',
         NEW o \in Objects, ObjectOk(o), QuietObject(o),
         \A w \in Workers : ScansObject(w, o)' => Continues(w)
  PROVE  ObjectOk(o)'
<1>0. StateMoves(o)
  BY StatesMove
<1>1. glitches \in Nat /\ glitches' \in Nat /\ glitches <= glitches'
  BY GlitchesGrow
<1>2. PlaceOk(o)'
  BY DEF ObjectOk, PlaceOk, QuietObject
<1>3. PurgeOk(o)'
  BY <1>0, <1>1 DEF ObjectOk, PurgeOk, QuietObject, StateMoves
<1>4. ASSUME NEW w \in Workers, ScansObject(w, o)', scan'[w].pc # "begin" \/ scan'[w].path # "none"
      PROVE  ScansObject(w, o) /\ ReleaserOk(w, o)
  <2>1. scan[w].pc \in ScanPcs
    BY <1>4 DEF Continues
  <2>2. ObjectOf(w)' = ObjectOf(w)
    BY <1>4, <2>1, SameObject DEF ScansObject
  <2>3. QED
    BY <1>4, <2>1, <2>2 DEF ScansObject, ObjectOk
<1>5. ASSUME NEW w \in Workers, ScansObject(w, o)'
      PROVE  ReleaserOk(w, o)'
  <2>1. CASE scan'[w].pc = "begin" /\ scan'[w].path = "none"
    BY <2>1 DEF ReleaserOk
  <2>2. CASE ~(scan'[w].pc = "begin" /\ scan'[w].path = "none")
    <3>1. ScansObject(w, o) /\ ReleaserOk(w, o) /\ Continues(w)
      BY <1>4, <1>5, <2>2
    <3>2. file'[o] = "isolation" => scan'[w].path # "released"
      BY <2>2, <3>1 DEF ReleaserOk, Continues, ScansObject, QuietObject, ObjectOk, PlaceOk
    <3>3. scan'[w].pc = "move" => /\ file'[o] # "released"
                                  /\ \/ relDir'[o]
                                     \/ glitches' > 0 /\ row'[o].state = "expired"
                                                      /\ file'[o] # "isolation"
      BY <1>0, <1>1, <2>2, <3>1 DEF ReleaserOk, Continues, QuietObject, StateMoves
    <3>4. scan'[w].pc = "repath" => /\ file'[o] = "released"
                                    /\ row'[o].path # "released"
                                    /\ ~(Ahead(o)' /\ mt'.paths[o] = "released")
      BY <2>2, <3>1 DEF ReleaserOk, Continues, QuietObject
    <3>5. scan'[w].pc = "conclude" /\ scan'[w].target = "released"
            => row'[o].path = "released" \/ row'[o].state = "expired"
      BY <1>0, <2>2, <3>1 DEF ReleaserOk, Continues, QuietObject, StateMoves
    <3>6. QED
      BY <3>2, <3>3, <3>4, <3>5 DEF ReleaserOk
  <2>3. QED
    BY <2>1, <2>2
<1>6. ASSUME NEW v \in Workers, NEW w \in Workers, v # w, ScansObject(v, o)', ScansObject(w, o)'
      PROVE  PairOk(v, w, o)'
  <2> SUFFICES ASSUME scan'[v].pc \in {"move", "repath"}, scan'[w].pc \in {"move", "repath"}
               PROVE  PairOk(v, w, o)'
    BY DEF PairOk
  <2>1. ScansObject(v, o) /\ ScansObject(w, o)
    BY <1>4, <1>6
  <2>2. scan[v].pc = scan'[v].pc /\ scan[w].pc = scan'[w].pc
    BY <1>6 DEF Continues
  <2>3. PairOk(v, w, o)
    BY <1>6, <2>1 DEF ObjectOk
  <2>4. QED
    BY <1>0, <1>1, <2>2, <2>3 DEF PairOk, QuietObject, StateMoves
<1>7. QED
  BY <1>2, <1>3, <1>5, <1>6 DEF ObjectOk

\* A transition is quiet, if it releases only what is in the release area.
LEMMA TransitionQuiet ==
  ASSUME Actors, UNCHANGED <<file, relDir, mt>>, NEW o \in Objects,
         \/ UNCHANGED row
         \/ \E p \in Objects, s \in States :
              /\ Transition(p, s)
              /\ s = "released" => row[p].path = "released" /\ file[p] = "released"
  PROVE  QuietObject(o)
<1>0. SystemTypeOK
  BY DEF Actors
<1>1. Ahead(o)' <=> Ahead(o)
  BY DEF Ahead
<1>2. Unlinked(o)' <=> Unlinked(o)
  BY DEF Unlinked
<1>3. /\ row'[o].path = row[o].path
      /\ row'[o].state = "released"
           => row[o].state = "released" \/ (row[o].path = "released" /\ file[o] = "released")
  <2>1. CASE UNCHANGED row
    BY <2>1
  <2>2. ASSUME NEW p \in Objects, NEW s \in States, Transition(p, s),
               s = "released" => row[p].path = "released" /\ file[p] = "released"
        PROVE  /\ row'[o].path = row[o].path
               /\ row'[o].state = "released"
                    => row[o].state = "released" \/ (row[o].path = "released" /\ file[o] = "released")
    BY <1>0, <2>2, TransitionTyped
  <2>3. QED
    BY <2>1, <2>2
<1>4. QED
  BY <1>1, <1>2, <1>3 DEF QuietObject

\* A thread whose locals do not change goes on.
LEMMA StandingContinues ==
  ASSUME NEW w, scan'[w] = scan[w], scan'[w].pc \in ScanPcs
  PROVE  Continues(w)
BY DEF Continues

\* Requests leave payloads where they are; an upload makes one.
LEMMA RequestKeepsPayloads ==
  ASSUME Actors, QueueInv, TypeOK, SystemNext, Threads', Payloads, NEW p \in Objects,
         \/ Upload(p) \/ Rescan(p) \/ SubmitScan(p) \/ SubmitGlitch(p)
         \/ Expire(p) \/ BecomesDue(p) \/ BecomesStale(p)
  PROVE  Payloads'
<1> SUFFICES ASSUME NEW o \in Objects
             PROVE  ObjectOk(o)'
  BY DEF Payloads
<1>0. ObjectOk(o) /\ row \in [Objects -> [state: States, path: Places]]
      /\ file \in [Objects -> Places]
  BY ServiceTypes DEF Payloads, Actors
<1>1. scan' = scan /\ UNCHANGED <<relDir, mt>>
  BY DEF Upload, Rescan, SubmitScan, SubmitGlitch, Expire, BecomesDue, BecomesStale, objectVars
<1>2. \A w \in Workers : ScansObject(w, o)' => Continues(w)
  BY <1>1, StandingContinues DEF ScansObject
<1>3. CASE Upload(p) /\ p = o
  <2>1. /\ row'[o].path = "isolation" /\ row'[o].state = "pending_scan"
        /\ file'[o] = "isolation" /\ row[o].state = "absent"
    BY <1>0, <1>3 DEF Upload
  <2>2. o \notin mt.todo /\ ~Unlinked(o)
    BY <2>1 DEF Actors, Absent, AbsentOk, BootOk, Unlinked
  <2>3. ASSUME NEW w \in Workers, ScansObject(w, o)'
        PROVE  FALSE
    <3>1. scan[w].pc \in ScanPcs
      BY <1>1, <2>3 DEF ScansObject
    <3>2. ObjectOf(w) = o
      BY <2>3, <3>1, SameObject DEF ScansObject
    <3>3. work[w].pc = "handling"
      BY <3>1 DEF Actors, Threads, ThreadOk
    <3>4. QED
      BY <2>1, <3>2, <3>3, HandlerObject
  <2>4. PlaceOk(o)' /\ PurgeOk(o)'
    BY <1>1, <2>1, <2>2 DEF PlaceOk, PurgeOk, Ahead, Unlinked
  <2>5. QED
    BY <2>3, <2>4 DEF ObjectOk
<1>4. CASE Upload(p) /\ p # o
  <2>1. row'[o] = row[o] /\ file'[o] = file[o]
    BY <1>0, <1>4 DEF Upload
  <2>2. QuietObject(o)
    BY <1>1, <2>1 DEF QuietObject, Ahead, Unlinked
  <2>3. QED
    BY <1>0, <1>2, <2>2, QuietRule
<1>5. CASE ~ Upload(p)
  <2>1. file' = file
    BY <1>5 DEF Rescan, SubmitScan, SubmitGlitch, Expire, BecomesDue, BecomesStale, objectVars
  <2>2. \/ UNCHANGED row \/ Transition(p, "pending_scan") \/ Transition(p, "expired")
    BY <1>5 DEF Rescan, SubmitScan, SubmitGlitch, Expire, BecomesDue, BecomesStale, objectVars
  <2>3. "pending_scan" \in States /\ "expired" \in States
    BY DEF States
  <2>4. QuietObject(o)
    BY <1>1, <2>1, <2>2, <2>3, TransitionQuiet
  <2>5. QED
    BY <1>0, <1>2, <2>4, QuietRule
<1>6. QED
  BY <1>3, <1>4, <1>5

\* What a worker does to the rows besides the new path: one transition, and what it releases
\* is in the release area, by the row too.
LEMMA WorkerTransitions ==
  ASSUME Actors, QueueInv, Payloads, NEW w \in Workers,
         \/ Take(w) \/ BeginScan(w) \/ ReadObject(w) \/ RunScanners(w) \/ ConcludeScan(w)
         \/ FailScan(w) \/ FailClosed(w) \/ OutcomeStep(w) \/ ScanGlitch(w)
         \/ DeadLetterGlitch(w) \/ LeaseStep(w) \/ WorkerDies(w)
  PROVE  \/ UNCHANGED row
         \/ \E p \in Objects, s \in States :
              /\ Transition(p, s)
              /\ s = "released" => row[p].path = "released" /\ file[p] = "released"
<1>1. CASE ConcludeScan(w)
  <2>1. work[w].pc = "handling" /\ scan[w].pc = "conclude"
    BY <1>1 DEF ConcludeScan, At
  <2>2. PICK p \in Objects : p = ObjectOf(w)
    BY <2>1, HandlerObject
  <2>3. PICK t : t = scan[w].target
    OBVIOUS
  <2>4. CASE CanMove(p, t) /\ (t = "released" => file[p] = "released")
    <3>1. Transition(p, t)
      BY <1>1, <2>2, <2>3, <2>4 DEF ConcludeScan
    <3>2. row[p].state # "expired" /\ t \in States
      BY <3>1, TransitionTyped DEF Actors
    <3>3. ReleaserOk(w, p)
      BY <2>1, <2>2 DEF Payloads, ObjectOk, ScansObject, ScanPcs
    <3>4. t = "released" => row[p].path = "released"
      BY <2>1, <2>3, <3>2, <3>3 DEF ReleaserOk
    <3>5. QED
      BY <2>4, <3>1, <3>2, <3>4
  <2>5. CASE ~(CanMove(p, t) /\ (t = "released" => file[p] = "released"))
    BY <1>1, <2>2, <2>3, <2>5 DEF ConcludeScan
  <2>6. QED
    BY <2>4, <2>5
<1>2. CASE BeginScan(w) \/ FailClosed(w) \/ ClaimDeadLetter(w) \/ CondemnDeadLetter(w)
  <2>1. PICK p \in Objects : p = ObjectOf(w)
    BY <1>2, HandlerObject DEF BeginScan, FailClosed, At, ClaimDeadLetter, CondemnDeadLetter,
       DeadLetterDone
  <2>2. "scanning" \in States /\ "quarantined" \in States
    BY DEF States
  <2>3. UNCHANGED row \/ Transition(p, "scanning") \/ Transition(p, "quarantined")
    BY <1>2, <2>1 DEF BeginScan, FailClosed, ClaimDeadLetter, CondemnDeadLetter
  <2>4. QED
    BY <2>1, <2>2, <2>3
<1>3. QED
  BY <1>1, <1>2 DEF Take, ReadObject, RunScanners, FailScan, OutcomeStep, Settled, GiveUp,
     ScanGlitch, DeadLetterGlitch, LeaseStep, WorkerDies, inboundVars, objectVars

\* So do the steps of a worker outside the three of a release.
LEMMA WorkerKeepsPayloads ==
  ASSUME Actors, QueueInv, TypeOK, SystemNext, Threads', Payloads, NEW w \in Workers,
         \/ Take(w) \/ BeginScan(w) \/ ReadObject(w) \/ RunScanners(w) \/ ConcludeScan(w)
         \/ FailScan(w) \/ FailClosed(w) \/ OutcomeStep(w) \/ ScanGlitch(w)
         \/ DeadLetterGlitch(w) \/ LeaseStep(w) \/ WorkerDies(w)
  PROVE  Payloads'
<1> SUFFICES ASSUME NEW o \in Objects
             PROVE  ObjectOk(o)'
  BY DEF Payloads
<1>0. /\ ObjectOk(o) /\ row \in [Objects -> [state: States, path: Places]]
      /\ scan \in [Workers -> Locals] /\ scan[w] \in Locals
      /\ scan[w].pc \notin ScanPcs => scan[w].path = "none"
  BY ServiceTypes DEF Payloads, Actors, Threads, ThreadOk
<1>1. UNCHANGED <<file, relDir, mt>>
  BY DEF Take, BeginScan, ReadObject, RunScanners, ConcludeScan, FailScan, FailClosed, OutcomeStep,
     Settled, GiveUp, ClaimDeadLetter, CondemnDeadLetter, ScanGlitch, DeadLetterGlitch, LeaseStep,
     WorkerDies, inboundVars, objectVars
<1>2. Alone(w)
  BY OwnThread DEF ScanStep
<1>3. ASSUME scan' = [scan EXCEPT ![w] = NoScan]
      PROVE  scan'[w].pc \notin ScanPcs
  BY <1>0, <1>3 DEF NoScan, ScanPcs
<1>4. ASSUME NEW q, Goto(w, q)
      PROVE  scan'[w].pc = q /\ scan'[w].path = scan[w].path
  BY <1>0, <1>4 DEF Goto, Locals
<1>5. ASSUME NEW t, Conclude(w, t)
      PROVE  scan'[w].pc = "conclude" /\ scan'[w].path = scan[w].path /\ scan'[w].target = t
  BY <1>0, <1>5 DEF Conclude, Locals
<1>6. ASSUME scan'[w].pc \in ScanPcs
      PROVE  Continues(w)
  <2>1. CASE Take(w)
    <3>1. scan'[w].pc = "begin" /\ scan'[w].path = scan[w].path
      BY <1>4, <2>1 DEF Take
    <3>2. scan[w].pc \notin ScanPcs
      BY <2>1 DEF Take, Claim, Actors, Threads, ThreadOk
    <3>3. QED
      BY <1>0, <3>1, <3>2 DEF Continues
  <2>2. CASE ReadObject(w) \/ RunScanners(w)
    <3>1. scan[w].pc \in ScanPcs
      BY <2>2 DEF ReadObject, RunScanners, At, ScanPcs
    <3>2. CASE scan' = [scan EXCEPT ![w].pc = "scan", ![w].path = row[ObjectOf(w)].path]
      <4>1. scan'[w].pc = "scan" /\ scan'[w].path = row[ObjectOf(w)].path
        BY <1>0, <3>2 DEF Locals
      <4>2. QED
        BY <3>1, <4>1 DEF Continues
    <3>3. QED
      BY <1>4, <1>5, <2>2, <3>1, <3>2 DEF ReadObject, RunScanners, Continues
  <2>3. CASE BeginScan(w) \/ ConcludeScan(w) \/ FailScan(w) \/ FailClosed(w)
    <3>1. scan[w].pc \in ScanPcs
      BY <2>3 DEF BeginScan, ConcludeScan, FailScan, FailClosed, At, ScanPcs
    <3>2. \E q \in {"read", "except", "failclosed"} : Goto(w, q)
      BY <1>3, <1>6, <2>3 DEF BeginScan, ConcludeScan, FailScan, FailClosed, Returns, Raises
    <3>3. QED
      BY <1>4, <3>1, <3>2 DEF Continues
  <2>4. CASE ScanGlitch(w)
    <3>1. Goto(w, "except")
      BY <1>3, <1>6, <2>4 DEF ScanGlitch, Raises
    <3>2. scan[w].pc \in ScanPcs
      <4>1. scan'[w].pc = "except" /\ scan'[w].path = scan[w].path
        BY <1>4, <3>1
      <4>2. QED
        BY <2>4 DEF ScanGlitch, Actors, Threads, ThreadOk
    <3>3. QED
      BY <1>4, <3>1, <3>2 DEF Continues
  <2>5. CASE OutcomeStep(w) \/ DeadLetterGlitch(w) \/ LeaseStep(w) \/ WorkerDies(w)
    <3>1. CASE scan' = scan
      BY <1>6, <3>1, StandingContinues
    <3>2. CASE ClaimDeadLetter(w)
      BY <1>4, <1>6, <3>2 DEF ClaimDeadLetter, ScanPcs
    <3>3. CASE GiveUp(w)
      <4>1. \E q \in {"claim", "none"} : scan' = [scan EXCEPT ![w].pc = q]
        BY <3>3 DEF GiveUp
      <4>2. scan'[w].pc \in {"claim", "none"}
        BY <1>0, <4>1 DEF Locals
      <4>3. QED
        BY <1>6, <4>2 DEF ScanPcs
    <3>4. QED
      BY <1>3, <1>6, <2>5, <3>1, <3>2, <3>3 DEF OutcomeStep, Settled, CondemnDeadLetter,
         DeadLetterGlitch, LeaseStep, WorkerDies, inboundVars
  <2>6. QED
    BY <2>1, <2>2, <2>3, <2>4, <2>5
<1>7. \A v \in Workers : ScansObject(v, o)' => Continues(v)
  BY <1>2, <1>6, StandingContinues DEF Alone, ScansObject
<1>8. \/ UNCHANGED row
      \/ \E p \in Objects, s \in States :
           /\ Transition(p, s)
           /\ s = "released" => row[p].path = "released" /\ file[p] = "released"
  BY WorkerTransitions
<1>9. QED
  BY <1>0, <1>1, <1>7, <1>8, TransitionQuiet, QuietRule

\* What a release does to one object leaves the others alone.
LEMMA ReleaseElsewhere ==
  ASSUME Actors, QueueInv, TypeOK, SystemNext, Threads', NEW w \in Workers,
         MakeReleaseDir(w) \/ MovePayload(w) \/ Repath(w),
         NEW o \in Objects, o # ObjectOf(w), ObjectOk(o)
  PROVE  ObjectOk(o)'
<1>0. /\ row \in [Objects -> [state: States, path: Places]] /\ file \in [Objects -> Places]
      /\ relDir \in [Objects -> BOOLEAN]
  BY ServiceTypes DEF Actors
<1>1. work[w].pc = "handling" /\ scan[w].pc \in ScanPcs
  BY DEF MakeReleaseDir, MovePayload, Repath, At, ScanPcs
<1>2. PICK p \in Objects : p = ObjectOf(w) /\ p # o
  BY <1>1, HandlerObject
<1>3. row'[o] = row[o] /\ file'[o] = file[o] /\ relDir'[o] = relDir[o] /\ mt' = mt
  BY <1>0, <1>2 DEF MakeReleaseDir, MovePayload, Repath
<1>4. QuietObject(o)
  BY <1>3 DEF QuietObject, Ahead, Unlinked
<1>5. Alone(w)
  BY OwnThread DEF ScanStep
<1>6. ASSUME NEW v \in Workers, ScansObject(v, o)'
      PROVE  Continues(v)
  <2>1. CASE v = w
    BY <1>1, <1>2, <1>6, <2>1, SameObject DEF ScansObject
  <2>2. CASE v # w
    BY <1>5, <1>6, <2>2, StandingContinues DEF Alone, ScansObject
  <2>3. QED
    BY <2>1, <2>2
<1>7. QED
  BY <1>4, <1>6, QuietRule

\* A release that gives up before the move.
LEMMA AbandonKeepsPayloads ==
  ASSUME Actors, QueueInv, TypeOK, SystemNext, Threads', NEW w \in Workers,
         At(w, "mkdir") \/ At(w, "move"), Goto(w, "except"), UNCHANGED <<row, file, relDir, mt>>,
         Alone(w), NEW o \in Objects, ObjectOk(o)
  PROVE  ObjectOk(o)'
<1>1. scan \in [Workers -> Locals]
  BY ServiceTypes DEF Actors
<1>2. scan[w].pc \in ScanPcs /\ scan'[w].pc = "except" /\ scan'[w].path = scan[w].path
  BY <1>1 DEF At, Goto, ScanPcs, Locals
<1>3. Continues(w)
  BY <1>2 DEF Continues
<1>4. \A v \in Workers : ScansObject(v, o)' => Continues(v)
  BY <1>3, StandingContinues DEF Alone, ScansObject
<1>5. QuietObject(o)
  BY DEF QuietObject, Ahead, Unlinked
<1>6. QED
  BY <1>4, <1>5, QuietRule

\* mkdir() lets one thread past.
LEMMA MakeDirKeepsPayloads ==
  ASSUME Actors, QueueInv, TypeOK, SystemNext, Threads', NEW w \in Workers, MakeReleaseDir(w),
         NEW o \in Objects, o = ObjectOf(w), ObjectOk(o)
  PROVE  ObjectOk(o)'
<1>0. scan \in [Workers -> Locals] /\ relDir \in [Objects -> BOOLEAN]
  BY ServiceTypes DEF Actors
<1>1. Alone(w)
  BY OwnThread DEF ScanStep
<1>2. At(w, "mkdir") /\ scan[w].pc \in ScanPcs /\ UNCHANGED <<row, file, mt, glitches>>
  BY DEF MakeReleaseDir, At, ScanPcs
<1>3. CASE relDir[o]
  <2>1. Goto(w, "except") /\ relDir' = relDir
    BY <1>3 DEF MakeReleaseDir
  <2>2. QED
    BY <1>1, <1>2, <2>1, AbandonKeepsPayloads
<1>4. CASE ~relDir[o]
  <2>1. scan'[w].pc = "move" /\ scan'[w].path = scan[w].path /\ relDir'[o] = TRUE
    BY <1>0, <1>4 DEF MakeReleaseDir, Goto, Locals
  <2>2. PlaceOk(o)' /\ PurgeOk(o)' /\ (Ahead(o)' <=> Ahead(o))
    BY <1>2, <2>1 DEF ObjectOk, PlaceOk, PurgeOk, Ahead, Unlinked
  <2>3. ScansObject(w, o) /\ ReleaserOk(w, o)
    BY <1>2 DEF ScansObject, ObjectOk
  <2>4. ReleaserOk(w, o)'
    BY <1>2, <1>4, <2>1, <2>3 DEF ReleaserOk, ObjectOk, PlaceOk
  <2>5. ASSUME NEW v \in Workers, v # w, ScansObject(v, o)'
        PROVE  scan'[v] = scan[v] /\ ScansObject(v, o) /\ ReleaserOk(v, o)
    <3>1. scan'[v] = scan[v]
      BY <1>1, <2>5 DEF Alone
    <3>2. ScansObject(v, o)
      BY <2>5, <3>1, SameObject DEF ScansObject
    <3>3. QED
      BY <3>1, <3>2 DEF ObjectOk
  <2>6. ASSUME NEW v \in Workers, v # w, ScansObject(v, o)'
        PROVE  ReleaserOk(v, o)'
    BY <1>2, <2>1, <2>2, <2>5, <2>6 DEF ReleaserOk
  <2>7. ASSUME NEW v \in Workers, NEW u \in Workers, v # u, ScansObject(v, o)', ScansObject(u, o)'
        PROVE  PairOk(v, u, o)'
    <3>1. CASE v # w /\ u # w
      <4>1. scan'[v] = scan[v] /\ scan'[u] = scan[u] /\ PairOk(v, u, o)
        BY <2>5, <2>7, <3>1 DEF ObjectOk
      <4>2. QED
        BY <1>2, <4>1 DEF PairOk
    <3>2. ASSUME NEW x \in Workers, x # w, ScansObject(x, o)', scan'[x].pc \in {"move", "repath"}
          PROVE  /\ scan'[x].pc = "move"
                 /\ glitches > 0 /\ row[o].state = "expired" /\ file[o] # "isolation"
      <4>1. scan'[x] = scan[x] /\ ReleaserOk(x, o)
        BY <2>5, <3>2
      <4>2. QED
        BY <1>4, <3>2, <4>1 DEF ReleaserOk, ObjectOk, PlaceOk
    <3>3. CASE v = w
      BY <1>2, <2>1, <2>7, <3>2, <3>3 DEF PairOk
    <3>4. CASE u = w
      BY <1>2, <2>1, <2>7, <3>2, <3>4 DEF PairOk
    <3>5. QED
      BY <3>1, <3>3, <3>4
  <2>8. QED
    BY <2>2, <2>4, <2>6, <2>7 DEF ObjectOk
<1>5. QED
  BY <1>3, <1>4

\* The one move of a payload: it is in isolation, and nobody else is about to move it.
LEMMA OnlyFromIsolation ==
  ASSUME Actors, NEW w \in Workers, At(w, "move"),
         NEW o \in Objects, o = ObjectOf(w), ObjectOk(o), file[o] = scan[w].path
  PROVE  /\ file[o] = "isolation" /\ row[o].path = "isolation" /\ relDir[o]
         /\ row[o].state # "released"
         /\ \A v \in Workers : v # w /\ ScansObject(v, o) => scan[v].pc \notin {"move", "repath"}
<1>0. file \in [Objects -> Places] /\ scan[w].path # "none"
  BY ServiceTypes DEF Actors, Threads, ThreadOk, At
<1>1. ScansObject(w, o) /\ ReleaserOk(w, o)
  BY DEF At, ScansObject, ScanPcs, ObjectOk
<1>2. file[o] = "isolation" /\ relDir[o]
  BY <1>0, <1>1 DEF ReleaserOk, At, Places
<1>3. row[o].path = "isolation" /\ row[o].state # "released"
  BY <1>2 DEF ObjectOk, PlaceOk
<1>4. ASSUME NEW v \in Workers, v # w, ScansObject(v, o)
      PROVE  scan[v].pc \notin {"move", "repath"}
  <2>1. PairOk(v, w, o)
    BY <1>1, <1>4 DEF ObjectOk
  <2>2. QED
    BY <1>2, <2>1 DEF PairOk, At
<1>5. QED
  BY <1>2, <1>3, <1>4

\* The one step that moves a payload out of isolation accounts for it.
LEMMA MoveKeepsPayloads ==
  ASSUME Actors, QueueInv, TypeOK, SystemNext, Threads', NEW w \in Workers, MovePayload(w),
         NEW o \in Objects, o = ObjectOf(w), ObjectOk(o)
  PROVE  ObjectOk(o)'
<1>0. scan \in [Workers -> Locals] /\ file \in [Objects -> Places]
  BY ServiceTypes DEF Actors
<1>1. Alone(w)
  BY OwnThread DEF ScanStep
<1>2. At(w, "move") /\ scan[w].pc \in ScanPcs /\ UNCHANGED <<row, relDir, mt, glitches>>
  BY DEF MovePayload, At, ScanPcs
<1>3. CASE file[o] # scan[w].path
  <2>1. Goto(w, "except") /\ file' = file
    BY <1>3 DEF MovePayload
  <2>2. QED
    BY <1>1, <1>2, <2>1, AbandonKeepsPayloads
<1>4. CASE file[o] = scan[w].path
  <2>1. /\ file[o] = "isolation" /\ row[o].path = "isolation" /\ relDir[o]
        /\ row[o].state # "released"
        /\ \A v \in Workers : v # w /\ ScansObject(v, o) => scan[v].pc \notin {"move", "repath"}
    BY <1>2, <1>4, OnlyFromIsolation
  <2>2. scan'[w].pc = "repath" /\ scan'[w].path = scan[w].path /\ file'[o] = "released"
    BY <1>0, <1>4 DEF MovePayload, Goto, Locals
  <2>3. /\ Ahead(o)' <=> Ahead(o)
        /\ Unlinked(o)' <=> Unlinked(o)
        /\ mt' = mt
    BY <1>2 DEF Ahead, Unlinked
  <2>4. PlaceOk(o)' /\ PurgeOk(o)'
    BY <1>2, <2>1, <2>2, <2>3 DEF ObjectOk, PlaceOk, PurgeOk
  <2>5. ReleaserOk(w, o)'
    BY <1>2, <2>1, <2>2, <2>3 DEF ReleaserOk, ObjectOk, PurgeOk
  <2>6. ASSUME NEW v \in Workers, v # w, ScansObject(v, o)'
        PROVE  scan'[v].pc \notin {"move", "repath"} /\ ReleaserOk(v, o)'
    <3>1. scan'[v] = scan[v]
      BY <1>1, <2>6 DEF Alone
    <3>2. ScansObject(v, o)
      BY <2>6, <3>1, SameObject DEF ScansObject
    <3>3. ReleaserOk(v, o) /\ scan[v].pc \notin {"move", "repath"}
      BY <2>1, <2>6, <3>2 DEF ObjectOk
    <3>4. QED
      BY <1>2, <2>2, <3>1, <3>3 DEF ReleaserOk
  <2>7. ASSUME NEW v \in Workers, NEW u \in Workers, v # u, ScansObject(v, o)', ScansObject(u, o)'
        PROVE  PairOk(v, u, o)'
    BY <2>6, <2>7 DEF PairOk
  <2>8. QED
    BY <2>4, <2>5, <2>6, <2>7 DEF ObjectOk
<1>5. QED
  BY <1>3, <1>4

\* Between the move and the new path nothing has happened to either.
LEMMA RepathKeepsPayloads ==
  ASSUME Actors, QueueInv, TypeOK, SystemNext, Threads', NEW w \in Workers, Repath(w),
         NEW o \in Objects, o = ObjectOf(w), ObjectOk(o)
  PROVE  ObjectOk(o)'
<1>0. /\ scan \in [Workers -> Locals]
      /\ row \in [Objects -> [state: States, path: Places]]
  BY ServiceTypes DEF Actors
<1>1. Alone(w)
  BY OwnThread DEF ScanStep
<1>2. /\ At(w, "repath") /\ scan[w].pc \in ScanPcs /\ UNCHANGED <<file, relDir, mt, glitches>>
      /\ row'[o].path = "released" /\ row'[o].state = row[o].state
  BY <1>0 DEF Repath, At, ScanPcs
<1>3. ScansObject(w, o) /\ ReleaserOk(w, o) /\ file[o] = "released"
  BY <1>2 DEF ScansObject, ObjectOk, At, ReleaserOk
<1>4. scan'[w].pc = "conclude" /\ scan'[w].target = "released"
  BY <1>0 DEF Repath, Conclude, Locals
<1>5. PlaceOk(o)' /\ PurgeOk(o)'
  BY <1>2, <1>3 DEF ObjectOk, PlaceOk, PurgeOk, Ahead, Unlinked
<1>6. ReleaserOk(w, o)'
  BY <1>2, <1>3, <1>4 DEF ReleaserOk
<1>7. ASSUME NEW v \in Workers, v # w, ScansObject(v, o)'
      PROVE  scan'[v].pc \notin {"move", "repath"} /\ ReleaserOk(v, o)'
  <2>1. scan'[v] = scan[v]
    BY <1>1, <1>7 DEF Alone
  <2>2. ScansObject(v, o)
    BY <1>7, <2>1, SameObject DEF ScansObject
  <2>3. PairOk(w, v, o) /\ ReleaserOk(v, o)
    BY <1>3, <1>7, <2>2 DEF ObjectOk
  <2>4. scan[v].pc \notin {"move", "repath"}
    BY <1>2, <2>3 DEF PairOk, At
  <2>5. QED
    BY <1>2, <1>3, <2>1, <2>3, <2>4 DEF ReleaserOk
<1>8. ASSUME NEW v \in Workers, NEW u \in Workers, v # u, ScansObject(v, o)', ScansObject(u, o)'
      PROVE  PairOk(v, u, o)'
  BY <1>4, <1>7, <1>8 DEF PairOk
<1>9. QED
  BY <1>5, <1>6, <1>7, <1>8 DEF ObjectOk

\* The purge unlinks a payload only where the row says it is, and only of an expired object;
\* if a row that points into the release area has no payload there, somebody is half-way, or
\* storage has failed.
Accounted(o) ==
  row[o].path # "none" /\ file[o] # row[o].path
    => \/ \E w \in Workers : At(w, "repath") /\ ObjectOf(w) = o
       \/ mt.pc = "clear" /\ mt.current = o

\* While a service without storage errors runs, no payload is lost; start-up has seen to it.
Running  == up /\ glitches = 0 => \A o \in Objects : Accounted(o)
Hardened == boot.pc = "hardened"
              => \A o \in Objects : row[o].path # "none" => file[o] = row[o].path

\* While the sweep waits or works on other tasks, it is quiet for every object.
LEMMA SweepAtRest ==
  ASSUME mt'.pc \notin {"purge", "clear"} \/ mt' = mt,
         NEW o \in Objects, UNCHANGED <<file, relDir>>, row'[o].path = row[o].path,
         row'[o].state = "released" => row[o].state = "released"
  PROVE  QuietObject(o)
BY DEF QuietObject, Ahead, Unlinked

\* Expiring objects and ending scans leaves payloads where they are, and so does everything
\* that is neither a request, a thread, nor the purge.
LEMMA SweepKeepsPayloads ==
  ASSUME Actors, QueueInv, TypeOK, SystemNext, Threads', Payloads,
         \/ StartExpiring \/ ExpireDue \/ StartTimeouts \/ EndSweep \/ SweepGlitch
         \/ \E p \in Objects : ReadDue(p) \/ TimeOutScan(p)
         \/ BootStep \/ SystemCrash
         \/ \E i \in JobIds : QueueTime(i)
  PROVE  Payloads'
<1> SUFFICES ASSUME NEW o \in Objects
             PROVE  ObjectOk(o)'
  BY DEF Payloads
<1>0. ObjectOk(o) /\ mt \in Sweeps /\ SystemTypeOK
  BY ServiceTypes DEF Payloads, Actors
<1>1. mt'.pc \notin {"purge", "clear"} \/ mt' = mt
  <2>1. ASSUME NEW pc, NEW S
        PROVE  Sweep(pc, S).pc = pc
    BY DEF Sweep, NoSweep
  <2>2. CASE StartExpiring \/ ExpireDue \/ StartTimeouts \/ EndSweep \/ SweepGlitch
    BY <2>1, <2>2 DEF StartExpiring, ExpireDue, StartTimeouts, EndSweep, SweepGlitch, NoSweep
  <2>3. ASSUME NEW p \in Objects, ReadDue(p) \/ TimeOutScan(p)
        PROVE  mt'.pc \notin {"purge", "clear"}
    <3>1. mt' = NoSweep \/ mt'.pc \in {"expiring", "timeout"}
      BY <1>0, <2>3 DEF ReadDue, TimeOutScan, Swept, Sweeps
    <3>2. QED
      BY <3>1 DEF NoSweep
  <2>4. CASE BootStep \/ SystemCrash \/ \E i \in JobIds : QueueTime(i)
    BY <2>4 DEF BootStep, SystemCrash, Harden, StartQueue, StartRecovery, RecoverScanning,
       RecoveryRaises, StartResubmitting, Resubmit, StartServing, Forget, QueueTime, inboundVars,
       NoSweep
  <2>5. QED
    BY <2>2, <2>3, <2>4
<1>2. UNCHANGED <<file, relDir>>
  BY DEF StartExpiring, ExpireDue, StartTimeouts, EndSweep, SweepGlitch, ReadDue, TimeOutScan,
     BootStep, SystemCrash, Harden, StartQueue, StartRecovery, RecoverScanning, RecoveryRaises,
     StartResubmitting, Resubmit, StartServing, QueueTime, inboundVars, objectVars
<1>3. UNCHANGED row \/ \E p \in Objects : Transition(p, "expired") \/ Transition(p, "quarantined")
  <2>1. mt.pc = "expiring" => mt.current \in Objects
    BY DEF Actors, BootOk
  <2>2. QED
    BY <2>1 DEF StartExpiring, ExpireDue, StartTimeouts, EndSweep, SweepGlitch, ReadDue,
       TimeOutScan, BootStep, SystemCrash, Harden, StartQueue, StartRecovery, RecoverScanning,
       RecoveryRaises, StartResubmitting, Resubmit, StartServing, QueueTime, inboundVars,
       objectVars
<1>4. row'[o].path = row[o].path /\ (row'[o].state = "released" => row[o].state = "released")
  <2>1. ASSUME NEW p \in Objects, Transition(p, "expired") \/ Transition(p, "quarantined")
        PROVE  /\ row'[o].path = row[o].path
               /\ row'[o].state = "released" => row[o].state = "released"
    BY <1>0, <2>1, TransitionTyped
  <2>2. QED
    BY <1>3, <2>1
<1>5. QuietObject(o)
  BY <1>1, <1>2, <1>4, SweepAtRest
<1>6. \A w \in Workers : ScansObject(w, o)' => Continues(w)
  <2>1. scan' = scan \/ scan' = [w \in Workers |-> NoScan]
    BY DEF StartExpiring, ExpireDue, StartTimeouts, EndSweep, SweepGlitch, ReadDue, TimeOutScan,
       BootStep, SystemCrash, Harden, StartQueue, StartRecovery, RecoverScanning, RecoveryRaises,
       StartResubmitting, Resubmit, StartServing, Forget, QueueTime, inboundVars, objectVars
  <2>2. QED
    BY <2>1, StandingContinues DEF ScansObject, NoScan, ScanPcs
<1>7. QED
  BY <1>0, <1>5, <1>6, QuietRule

\* The purge reads the paths: what it will unlink is there, unless storage has failed.
LEMMA StartPurgeKeepsPayloads ==
  ASSUME Actors, QueueInv, TypeOK, SystemNext, Threads', Payloads, Running, StartPurge
  PROVE  Payloads'
<1> SUFFICES ASSUME NEW o \in Objects
             PROVE  ObjectOk(o)'
  BY DEF Payloads
<1>0. /\ ObjectOk(o) /\ row \in [Objects -> [state: States, path: Places]]
      /\ file \in [Objects -> Places]
  BY ServiceTypes DEF Payloads, Actors
<1>1. UNCHANGED <<row, file, relDir, scan, glitches>>
  BY DEF StartPurge, objectVars
<1>2. /\ mt'.pc = "purge" /\ mt'.paths = [p \in Objects |-> row[p].path]
      /\ o \in mt'.todo => row[o].state = "expired"
  <2>1. PICK S : /\ S = {p \in Objects : row[p].state = "expired" /\ stale[p]
                                                                  /\ row[p].path # "none"}
                 /\ mt' = [Sweep("purge", S) EXCEPT !.paths = [p \in Objects |-> row[p].path]]
    BY DEF StartPurge
  <2>2. mt'.pc = "purge" /\ mt'.paths = [p \in Objects |-> row[p].path] /\ mt'.todo = S
    BY <2>1 DEF Sweep, NoSweep
  <2>3. QED
    BY <2>1, <2>2
<1>3. up /\ mt.pc # "clear"
  BY DEF StartPurge, Actors, BootOk, NoSweep
<1>4. ASSUME NEW w \in Workers, ScansObject(w, o)'
      PROVE  ScansObject(w, o) /\ scan'[w] = scan[w]
  BY <1>1, <1>4, SameObject DEF ScansObject
<1>5. row[o].path = "released" /\ glitches = 0 => file[o] = "released"
  <2>1. SUFFICES ASSUME row[o].path = "released", glitches = 0, file[o] # "released"
                 PROVE  FALSE
    OBVIOUS
  <2>2. PICK w \in Workers : At(w, "repath") /\ ObjectOf(w) = o
    BY <1>3, <2>1 DEF Running, Accounted
  <2>3. ReleaserOk(w, o)
    BY <1>0, <2>2 DEF At, ScansObject, ScanPcs, ObjectOk
  <2>4. QED
    BY <2>1, <2>2, <2>3 DEF At, ReleaserOk
<1>6. PlaceOk(o)' /\ PurgeOk(o)'
  BY <1>0, <1>1, <1>2, <1>5 DEF ObjectOk, PlaceOk, PurgeOk, Ahead, Unlinked
<1>7. ASSUME NEW w \in Workers, ScansObject(w, o)'
      PROVE  ReleaserOk(w, o)'
  <2>1. ReleaserOk(w, o) /\ scan'[w] = scan[w]
    BY <1>0, <1>4, <1>7 DEF ObjectOk
  <2>2. QED
    BY <1>1, <1>2, <2>1 DEF ReleaserOk
<1>8. ASSUME NEW v \in Workers, NEW w \in Workers, v # w, ScansObject(v, o)', ScansObject(w, o)'
      PROVE  PairOk(v, w, o)'
  <2>1. PairOk(v, w, o) /\ scan'[v] = scan[v] /\ scan'[w] = scan[w]
    BY <1>0, <1>4, <1>8 DEF ObjectOk
  <2>2. QED
    BY <1>1, <2>1 DEF PairOk
<1>9. QED
  BY <1>6, <1>7, <1>8 DEF ObjectOk

\* What the purge unlinks is a payload that has expired, where the row said it was; unless
\* storage has failed, no thread is then in the middle of releasing it.
LEMMA UnlinkKeepsPayloads ==
  ASSUME Actors, QueueInv, TypeOK, SystemNext, Threads', Payloads,
         NEW p \in Objects, PurgePayload(p)
  PROVE  Payloads'
<1> SUFFICES ASSUME NEW o \in Objects
             PROVE  ObjectOk(o)'
  BY DEF Payloads
<1>0. /\ ObjectOk(o) /\ mt \in Sweeps /\ file \in [Objects -> Places]
      /\ relDir \in [Objects -> BOOLEAN] /\ glitches \in Nat
  BY ServiceTypes, GlitchesGrow DEF Payloads, Actors
<1>1. UNCHANGED <<row, scan, glitches>> /\ mt.pc = "purge" /\ p \in mt.todo
  BY DEF PurgePayload
<1>2. mt'.pc = "clear" /\ mt'.current = p /\ mt'.todo = mt.todo /\ mt'.paths = mt.paths
  BY <1>0 DEF PurgePayload, Sweeps
<1>3. ASSUME NEW w \in Workers, ScansObject(w, o)'
      PROVE  ScansObject(w, o) /\ scan'[w] = scan[w]
  BY <1>1, <1>3, SameObject DEF ScansObject
<1>4. CASE o # p
  <2>1. row'[o] = row[o] /\ file'[o] = file[o] /\ relDir'[o] = relDir[o]
    BY <1>0, <1>1, <1>4 DEF PurgePayload
  <2>2. QuietObject(o)
    BY <1>1, <1>2, <1>4, <2>1 DEF QuietObject, Ahead, Unlinked
  <2>3. \A w \in Workers : ScansObject(w, o)' => Continues(w)
    BY <1>1, StandingContinues DEF ScansObject
  <2>4. QED
    BY <1>0, <2>2, <2>3, QuietRule
<1>5. CASE o = p
  <2>1. /\ file'[o] = IF file[o] = mt.paths[o] THEN "none" ELSE file[o]
        /\ relDir'[o] <=> relDir[o] /\ mt.paths[o] # "released"
    BY <1>0, <1>5 DEF PurgePayload
  <2>2. /\ row[o].state = "expired"
        /\ file[o] = "isolation" => mt.paths[o] = "isolation"
        /\ mt.paths[o] = "released" /\ glitches = 0 => file[o] = "released"
        /\ Ahead(o)
    BY <1>0, <1>1, <1>5 DEF ObjectOk, PurgeOk, Ahead
  <2>3. file'[o] # "isolation" /\ Unlinked(o)' /\ ~Ahead(o)'
    BY <1>2, <1>5, <2>1, <2>2 DEF Ahead, Unlinked
  <2>4. PlaceOk(o)' /\ PurgeOk(o)'
    BY <1>0, <1>1, <2>1, <2>2, <2>3 DEF ObjectOk, PlaceOk, PurgeOk
  <2>5. ASSUME NEW w \in Workers, ScansObject(w, o)'
        PROVE  ReleaserOk(w, o)'
    <3>1. ReleaserOk(w, o) /\ scan'[w] = scan[w]
      BY <1>0, <1>3, <2>5 DEF ObjectOk
    <3>2. scan[w].pc = "move" => file'[o] # "released"
                                 /\ (relDir'[o] \/ (glitches > 0 /\ row[o].state = "expired"))
      BY <1>0, <2>1, <2>2, <3>1 DEF ReleaserOk
    <3>3. scan[w].pc = "repath" => file'[o] = "released" /\ row[o].path # "released"
      BY <2>1, <2>2, <3>1 DEF ReleaserOk
    <3>4. QED
      BY <1>1, <2>2, <2>3, <3>1, <3>2, <3>3 DEF ReleaserOk
  <2>6. ASSUME NEW v \in Workers, NEW w \in Workers, v # w, ScansObject(v, o)', ScansObject(w, o)'
        PROVE  PairOk(v, w, o)'
    <3>1. PairOk(v, w, o) /\ scan'[v] = scan[v] /\ scan'[w] = scan[w]
      BY <1>0, <1>3, <2>6 DEF ObjectOk
    <3>2. QED
      BY <1>1, <2>3, <3>1 DEF PairOk
  <2>7. QED
    BY <2>4, <2>5, <2>6 DEF ObjectOk
<1>6. QED
  BY <1>4, <1>5

\* Clearing the path follows the unlinking.
LEMMA ClearKeepsPayloads ==
  ASSUME Actors, QueueInv, TypeOK, SystemNext, Threads', Payloads, ClearPath
  PROVE  Payloads'
<1> SUFFICES ASSUME NEW o \in Objects
             PROVE  ObjectOk(o)'
  BY DEF Payloads
<1>0. /\ ObjectOk(o) /\ mt \in Sweeps /\ row \in [Objects -> [state: States, path: Places]]
  BY ServiceTypes DEF Payloads, Actors
<1>1. UNCHANGED <<file, relDir, scan, glitches>> /\ mt.pc = "clear"
  BY DEF ClearPath
<1>2. PICK p \in Objects : p = mt.current /\ p \in mt.todo
  BY <1>1 DEF Actors, BootOk
<1>3. mt'.pc = "purge" /\ mt'.todo = mt.todo \ {p} /\ mt'.paths = mt.paths
  BY <1>0, <1>2 DEF ClearPath, Swept, Sweeps
<1>4. ASSUME NEW w \in Workers, ScansObject(w, o)'
      PROVE  ScansObject(w, o) /\ scan'[w] = scan[w]
  BY <1>1, <1>4, SameObject DEF ScansObject
<1>5. CASE o # p
  <2>1. row'[o] = row[o]
    BY <1>0, <1>2, <1>5 DEF ClearPath
  <2>2. QuietObject(o)
    BY <1>1, <1>2, <1>3, <1>5, <2>1 DEF QuietObject, Ahead, Unlinked
  <2>3. \A w \in Workers : ScansObject(w, o)' => Continues(w)
    BY <1>1, StandingContinues DEF ScansObject
  <2>4. QED
    BY <1>0, <2>2, <2>3, QuietRule
<1>6. CASE o = p
  <2>1. row'[o].path = "none" /\ row'[o].state = row[o].state
    BY <1>0, <1>2, <1>6 DEF ClearPath
  <2>2. row[o].state = "expired" /\ file[o] # "isolation"
    BY <1>0, <1>1, <1>2, <1>6 DEF ObjectOk, PurgeOk, Unlinked
  <2>3. ~Ahead(o)' /\ ~Unlinked(o)' /\ o \notin mt'.todo
    BY <1>3, <1>6 DEF Ahead, Unlinked
  <2>4. PlaceOk(o)' /\ PurgeOk(o)'
    BY <1>0, <1>1, <2>1, <2>2, <2>3 DEF ObjectOk, PlaceOk, PurgeOk
  <2>5. ASSUME NEW w \in Workers, ScansObject(w, o)'
        PROVE  ReleaserOk(w, o)'
    <3>1. ReleaserOk(w, o) /\ scan'[w] = scan[w]
      BY <1>0, <1>4, <2>5 DEF ObjectOk
    <3>2. QED
      BY <1>1, <2>1, <2>2, <2>3, <3>1 DEF ReleaserOk
  <2>6. ASSUME NEW v \in Workers, NEW w \in Workers, v # w, ScansObject(v, o)', ScansObject(w, o)'
        PROVE  PairOk(v, w, o)'
    <3>1. PairOk(v, w, o) /\ scan'[v] = scan[v] /\ scan'[w] = scan[w]
      BY <1>0, <1>4, <2>6 DEF ObjectOk
    <3>2. QED
      BY <1>1, <2>1, <3>1 DEF PairOk
  <2>7. QED
    BY <2>4, <2>5, <2>6 DEF ObjectOk
<1>7. QED
  BY <1>5, <1>6

\* Every step keeps the payloads in their places.
LEMMA PayloadsKept ==
  ASSUME Actors, QueueInv, TypeOK, SystemNext, Threads', Payloads, Running
  PROVE  Payloads'
<1>1. ASSUME NEW w \in Workers, MakeReleaseDir(w) \/ MovePayload(w) \/ Repath(w)
      PROVE  Payloads'
  <2> SUFFICES ASSUME NEW o \in Objects
               PROVE  ObjectOk(o)'
    BY DEF Payloads
  <2>1. ObjectOk(o)
    BY DEF Payloads
  <2>2. CASE o = ObjectOf(w)
    BY <1>1, <2>1, <2>2, MakeDirKeepsPayloads, MoveKeepsPayloads, RepathKeepsPayloads
  <2>3. QED
    BY <1>1, <2>1, <2>2, ReleaseElsewhere
<1>2. QED
  BY <1>1, RequestKeepsPayloads, WorkerKeepsPayloads, SweepKeepsPayloads, StartPurgeKeepsPayloads,
     UnlinkKeepsPayloads, ClearKeepsPayloads DEF SystemNext, ScanStep, SweepStep

\* Where row and file agree, or somebody is half-way, this remains so as long as that thread
\* or the sweep stays where it is.
LEMMA StillAccounted ==
  ASSUME Actors, QueueInv, TypeOK, SystemNext, Threads', NEW o \in Objects, Accounted(o),
         file'[o] = file[o], row'[o].path = row[o].path,
         \A w \in Workers : At(w, "repath") /\ ObjectOf(w) = o => scan'[w] = scan[w],
         mt.pc = "clear" /\ mt.current = o => mt' = mt
  PROVE  Accounted(o)'
<1>1. ASSUME NEW w \in Workers, At(w, "repath"), ObjectOf(w) = o
      PROVE  At(w, "repath")' /\ ObjectOf(w)' = o
  <2>1. scan'[w] = scan[w] /\ scan[w].pc = "repath" /\ scan[w].pc \in ScanPcs
    BY <1>1 DEF At, ScanPcs
  <2>2. ObjectOf(w)' = o
    BY <1>1, <2>1, SameObject
  <2>3. work'[w].pc = "handling"
    BY <2>1 DEF Threads, ThreadOk
  <2>4. QED
    BY <2>1, <2>2, <2>3 DEF At
<1>2. QED
  BY <1>1 DEF Accounted

\* A step that moves only thread w, which has no path to update, and no payload.
LEMMA ThreadStillAccounted ==
  ASSUME Actors, QueueInv, TypeOK, SystemNext, Threads', NEW o \in Objects, Accounted(o),
         NEW w \in Workers, Alone(w), ~At(w, "repath"), mt' = mt,
         file'[o] = file[o], row'[o].path = row[o].path
  PROVE  Accounted(o)'
<1>1. \A v \in Workers : At(v, "repath") => scan'[v] = scan[v]
  BY DEF Alone
<1>2. QED
  BY <1>1, StillAccounted

\* While the service runs and storage does not fail, no payload gets lost.
LEMMA ThreadsAccount ==
  ASSUME Actors, QueueInv, TypeOK, SystemNext, Threads', Payloads, glitches' = glitches,
         NEW o \in Objects, Accounted(o), NEW w \in Workers,
         \/ Take(w) \/ ScanStep(w) \/ OutcomeStep(w) \/ ScanGlitch(w)
         \/ DeadLetterGlitch(w) \/ LeaseStep(w) \/ WorkerDies(w)
  PROVE  Accounted(o)'
<1>0. /\ row \in [Objects -> [state: States, path: Places]] /\ file \in [Objects -> Places]
      /\ scan \in [Workers -> Locals] /\ glitches \in Nat /\ SystemTypeOK
  BY ServiceTypes, GlitchesGrow DEF Actors
<1>1. Alone(w)
  BY OwnThread
<1>2. mt' = mt
  BY DEF Take, ScanStep, OutcomeStep, ScanGlitch, DeadLetterGlitch, LeaseStep, WorkerDies,
     BeginScan, ReadObject, RunScanners, MakeReleaseDir, MovePayload, Repath, ConcludeScan,
     FailScan, FailClosed, Settled, GiveUp, ClaimDeadLetter, CondemnDeadLetter, inboundVars
<1>3. CASE ScanGlitch(w) \/ DeadLetterGlitch(w)
  BY <1>0, <1>3 DEF ScanGlitch, DeadLetterGlitch, Glitch
<1>4. CASE LeaseStep(w)
  BY <1>4, <1>2, StillAccounted DEF LeaseStep, inboundVars
<1>5. CASE Take(w) \/ OutcomeStep(w) \/ WorkerDies(w)
  <2>1. ~At(w, "repath")
    BY <1>5 DEF Take, Claim, OutcomeStep, Settled, Complete, Retry, GiveUp, Fail, ClaimDeadLetter,
       CondemnDeadLetter, DeadLetterDone, WorkerDies, ThreadDies, At
  <2>2. file' = file /\ row'[o].path = row[o].path
    <3>1. CASE ClaimDeadLetter(w) \/ CondemnDeadLetter(w)
      <4>1. PICK p \in Objects : p = ObjectOf(w)
        BY <3>1, HandlerObject DEF ClaimDeadLetter, CondemnDeadLetter, DeadLetterDone
      <4>2. row' = row \/ \E s : Transition(p, s)
        BY <3>1, <4>1 DEF ClaimDeadLetter, CondemnDeadLetter
      <4>3. QED
        BY <1>0, <3>1, <4>2, TransitionTyped DEF ClaimDeadLetter, CondemnDeadLetter
    <3>2. QED
      BY <1>5, <3>1 DEF Take, OutcomeStep, WorkerDies, Settled, GiveUp, inboundVars, objectVars
  <2>3. QED
    BY <1>1, <1>2, <2>1, <2>2, ThreadStillAccounted
<1>6. CASE ScanStep(w)
  <2>1. PICK p \in Objects : p = ObjectOf(w)
    BY <1>6, HandlerObject DEF ScanStep, BeginScan, ReadObject, RunScanners, MakeReleaseDir,
       MovePayload, Repath, ConcludeScan, FailScan, FailClosed, At
  <2>2. CASE Repath(w)
    <3>1. CASE o = p
      <4>1. row'[o].path = "released" /\ file' = file
        BY <1>0, <2>1, <2>2, <3>1 DEF Repath
      <4>2. ReleaserOk(w, o)
        BY <2>1, <2>2, <3>1 DEF Payloads, ObjectOk, ScansObject, ScanPcs, Repath, At
      <4>3. file[o] = "released"
        BY <2>2, <4>2 DEF Repath, At, ReleaserOk
      <4>4. QED
        BY <4>1, <4>3 DEF Accounted
    <3>2. CASE o # p
      <4>1. row'[o].path = row[o].path /\ file' = file
        BY <1>0, <2>1, <2>2, <3>2 DEF Repath
      <4>2. ASSUME NEW v \in Workers, ObjectOf(v) = o
            PROVE  scan'[v] = scan[v]
        BY <1>1, <2>1, <3>2, <4>2 DEF Alone
      <4>3. QED
        BY <1>2, <4>1, <4>2, StillAccounted
    <3>3. QED
      BY <3>1, <3>2
  <2>3. CASE MovePayload(w)
    <3>1. CASE o = p /\ file[p] = scan[w].path
      <4>1. scan'[w].pc = "repath"
        BY <1>0, <2>1, <2>3, <3>1 DEF MovePayload, Goto, Locals
      <4>2. scan[w].pc \in ScanPcs /\ scan'[w].pc \in ScanPcs
        BY <2>3, <4>1 DEF MovePayload, At, ScanPcs
      <4>3. ObjectOf(w)' = o /\ work'[w].pc = "handling"
        BY <2>1, <3>1, <4>2, SameObject DEF Threads, ThreadOk
      <4>4. QED
        BY <4>1, <4>3 DEF Accounted, At
    <3>2. CASE ~(o = p /\ file[p] = scan[w].path)
      <4>1. file'[o] = file[o] /\ row' = row
        BY <1>0, <2>1, <2>3, <3>2 DEF MovePayload
      <4>2. ~At(w, "repath")
        BY <2>3 DEF MovePayload, At
      <4>3. QED
        BY <1>1, <1>2, <4>1, <4>2, ThreadStillAccounted
    <3>3. QED
      BY <3>1, <3>2
  <2>4. CASE ~Repath(w) /\ ~MovePayload(w)
    <3>1. ~At(w, "repath")
      BY <1>6, <2>4 DEF ScanStep, BeginScan, ReadObject, RunScanners, MakeReleaseDir, ConcludeScan,
         FailScan, FailClosed, At
    <3>2. file' = file /\ (row' = row \/ \E s : Transition(p, s))
      BY <1>6, <2>1, <2>4 DEF ScanStep, BeginScan, ReadObject, RunScanners, MakeReleaseDir,
         ConcludeScan, FailScan, FailClosed, objectVars
    <3>3. QED
      BY <1>0, <1>1, <1>2, <3>1, <3>2, ThreadStillAccounted, TransitionTyped
  <2>5. QED
    BY <2>2, <2>3, <2>4
<1>7. QED
  BY <1>3, <1>4, <1>5, <1>6

\* Requests account for every payload.
LEMMA RequestsAccount ==
  ASSUME Actors, QueueInv, TypeOK, SystemNext, Threads', NEW o \in Objects, Accounted(o),
         NEW p \in Objects,
         \/ Upload(p) \/ Rescan(p) \/ SubmitScan(p) \/ SubmitGlitch(p)
         \/ Expire(p) \/ BecomesDue(p) \/ BecomesStale(p)
  PROVE  Accounted(o)'
<1>0. /\ row \in [Objects -> [state: States, path: Places]] /\ file \in [Objects -> Places]
      /\ SystemTypeOK
  BY ServiceTypes DEF Actors
<1>1. scan' = scan /\ mt' = mt
  BY DEF Upload, Rescan, SubmitScan, SubmitGlitch, Expire, BecomesDue, BecomesStale, objectVars
<1>2. CASE Upload(p) /\ p = o
  <2>1. row'[o].path = "isolation" /\ file'[o] = "isolation"
    BY <1>0, <1>2 DEF Upload
  <2>2. QED
    BY <2>1 DEF Accounted
<1>3. CASE ~(Upload(p) /\ p = o)
  <2>1. file'[o] = file[o]
    BY <1>0, <1>3 DEF Upload, Rescan, SubmitScan, SubmitGlitch, Expire, BecomesDue, BecomesStale,
       objectVars
  <2>2. row'[o] = row[o] \/ \E s : Transition(p, s)
    BY <1>0, <1>3 DEF Upload, Rescan, SubmitScan, SubmitGlitch, Expire, BecomesDue, BecomesStale,
       objectVars
  <2>3. QED
    BY <1>0, <1>1, <2>1, <2>2, StillAccounted, TransitionTyped
<1>4. QED
  BY <1>2, <1>3

\* So do the steps of the maintenance sweep.
LEMMA SweepAccounts ==
  ASSUME Actors, QueueInv, TypeOK, SystemNext, Threads', NEW o \in Objects, Accounted(o),
         SweepStep
  PROVE  Accounted(o)'
<1>0. /\ row \in [Objects -> [state: States, path: Places]] /\ file \in [Objects -> Places]
      /\ mt \in Sweeps /\ SystemTypeOK
  BY ServiceTypes DEF Actors
<1>1. scan' = scan
  BY DEF SweepStep, StartExpiring, ReadDue, ExpireDue, StartTimeouts, TimeOutScan, StartPurge,
     PurgePayload, ClearPath, EndSweep
<1>2. CASE mt.pc = "clear"
  <2>1. ClearPath
    BY <1>2 DEF SweepStep, StartExpiring, ReadDue, ExpireDue, StartTimeouts, TimeOutScan,
       StartPurge, PurgePayload, EndSweep
  <2>2. PICK c \in Objects : c = mt.current
    BY <1>2 DEF Actors, BootOk
  <2>3. CASE o = c
    <3>1. row'[o].path = "none"
      BY <1>0, <2>1, <2>2, <2>3 DEF ClearPath
    <3>2. QED
      BY <3>1 DEF Accounted
  <2>4. CASE o # c
    <3>1. file' = file /\ row'[o] = row[o]
      BY <1>0, <2>1, <2>2, <2>4 DEF ClearPath
    <3>2. QED
      BY <1>1, <2>2, <2>4, <3>1, StillAccounted
  <2>5. QED
    BY <2>3, <2>4
<1>3. CASE mt.pc # "clear"
  <2>1. CASE PurgePayload(o)
    <3>1. mt'.pc = "clear" /\ mt'.current = o
      BY <1>0, <2>1 DEF PurgePayload, Sweeps
    <3>2. QED
      BY <3>1 DEF Accounted
  <2>2. CASE ~PurgePayload(o)
    <3>1. file'[o] = file[o]
      BY <1>0, <1>3, <2>2 DEF SweepStep, StartExpiring, ReadDue, ExpireDue, StartTimeouts,
         TimeOutScan, StartPurge, PurgePayload, ClearPath, EndSweep, objectVars
    <3>2. row' = row \/ \E p \in Objects : \E s : Transition(p, s)
      <4>1. mt.pc = "expiring" => mt.current \in Objects
        BY DEF Actors, BootOk
      <4>2. QED
        BY <1>3, <4>1 DEF SweepStep, StartExpiring, ReadDue, ExpireDue, StartTimeouts,
           TimeOutScan, StartPurge, PurgePayload, ClearPath, EndSweep, objectVars
    <3>3. row'[o].path = row[o].path
      BY <1>0, <3>2, TransitionTyped
    <3>4. QED
      BY <1>1, <1>3, <3>1, <3>3, StillAccounted
  <2>3. QED
    BY <2>1, <2>2
<1>4. QED
  BY <1>2, <1>3

\* Start-up is over while the service works.
LEMMA SameBoot ==
  ASSUME SystemNext, ~BootStep, ~SystemCrash
  PROVE  boot' = boot
BY DEF SystemNext, Upload, Rescan, SubmitScan, SubmitGlitch, Expire, BecomesDue, BecomesStale,
   Take, ScanStep, OutcomeStep, ScanGlitch, DeadLetterGlitch, LeaseStep, WorkerDies,
   BeginScan, ReadObject, RunScanners, MakeReleaseDir, MovePayload, Repath, ConcludeScan,
   FailScan, FailClosed, Settled, GiveUp, ClaimDeadLetter, CondemnDeadLetter, inboundVars,
   SweepStep, SweepGlitch, StartExpiring, ReadDue, ExpireDue, StartTimeouts, TimeOutScan,
   StartPurge, PurgePayload, ClearPath, EndSweep, QueueTime

LEMMA RunningKept ==
  ASSUME Actors, QueueInv, TypeOK, SystemNext, Threads', Payloads, Running, Hardened
  PROVE  Running'
<1> SUFFICES ASSUME up', glitches' = 0, NEW o \in Objects
             PROVE  Accounted(o)'
  BY DEF Running
<1>0. glitches = 0 /\ glitches \in Nat /\ SystemTypeOK
  BY GlitchesGrow DEF Actors
<1>1. CASE StartQueue
  <2>1. boot.pc = "hardened" /\ row' = row /\ file' = file
    BY <1>1 DEF StartQueue, objectVars
  <2>2. row[o].path # "none" => file[o] = row[o].path
    BY <2>1 DEF Hardened
  <2>3. QED
    BY <2>1, <2>2 DEF Accounted
<1>2. CASE BootStep /\ ~StartQueue
  <2>1. up' = up /\ scan' = scan /\ mt' = mt /\ file' = file
    BY <1>2 DEF BootStep, Harden, StartRecovery, RecoverScanning, RecoveryRaises,
       StartResubmitting, Resubmit, StartServing, queueVars, Crash, Submit, objectVars
  <2>2. Accounted(o)
    BY <1>0, <2>1 DEF Running
  <2>3. row' = row \/ \E p \in Objects : \E s : Transition(p, s)
    BY <1>2, <2>1 DEF BootStep, Harden, StartRecovery, RecoverScanning, RecoveryRaises,
       StartResubmitting, Resubmit, StartServing, objectVars
  <2>4. row'[o].path = row[o].path
    BY <1>0, <2>3, TransitionTyped
  <2>5. QED
    BY <2>1, <2>2, <2>4, StillAccounted
<1>3. CASE SystemCrash \/ SweepGlitch
  BY <1>0, <1>3 DEF SystemCrash, Crash, SweepGlitch, Glitch
<1>4. CASE ~BootStep /\ ~SystemCrash /\ ~SweepGlitch
  <2>1. up
    <3>1. boot' = boot
      BY <1>4, SameBoot
    <3>2. QED
      BY <3>1, BootKept DEF Actors, BootOk
  <2>2. Accounted(o)
    BY <1>0, <2>1 DEF Running
  <2>3. CASE \E i \in JobIds : QueueTime(i)
    BY <2>2, <2>3, StillAccounted DEF QueueTime, inboundVars
  <2>4. QED
    BY <1>0, <1>4, <2>2, <2>3, ThreadsAccount, RequestsAccount, SweepAccounts DEF SystemNext
<1>5. QED
  BY <1>1, <1>2, <1>3, <1>4

\* Between the check of start-up and the queue nothing runs.
LEMMA HardenedKept ==
  ASSUME Actors, QueueInv, TypeOK, SystemNext, Hardened
  PROVE  Hardened'
<1> SUFFICES ASSUME boot'.pc = "hardened"
             PROVE  \A o \in Objects : row'[o].path # "none" => file'[o] = row'[o].path
  BY DEF Hardened
<1>0. boot \in Boots
  BY ServiceTypes DEF Actors
<1>1. CASE BootStep \/ SystemCrash
  <2>1. Harden
    BY <1>0, <1>1 DEF BootStep, StartQueue, StartRecovery, RecoverScanning, RecoveryRaises,
       StartResubmitting, Resubmit, StartServing, SystemCrash, Forget, Down, Serving, Boots
  <2>2. UNCHANGED <<row, file>>
    BY <2>1 DEF Harden, objectVars
  <2>3. CASE \A o \in Objects : row[o].path # "none" => file[o] = row[o].path
    BY <2>2, <2>3
  <2>4. CASE ~ \A o \in Objects : row[o].path # "none" => file[o] = row[o].path
    <3>1. boot'.pc = "refused"
      BY <1>0, <2>1, <2>4 DEF Harden, Boots
    <3>2. QED
      BY <3>1
  <2>5. QED
    BY <2>3, <2>4
<1>2. CASE ~BootStep /\ ~SystemCrash
  <2>1. boot.pc = "hardened" /\ boot # Serving /\ ~up /\ mt = NoSweep
    BY <1>2, SameBoot DEF Actors, BootOk, Serving
  <2>2. \A w \in Workers : work[w].pc = "idle"
    BY <2>1 DEF QueueInv, ThreadsHaveJobs
  <2>3. ASSUME NEW p \in Objects,
               \/ Upload(p) \/ Rescan(p) \/ SubmitScan(p) \/ SubmitGlitch(p)
               \/ Expire(p) \/ BecomesDue(p) \/ BecomesStale(p)
        PROVE  UNCHANGED <<row, file>>
    BY <2>1, <2>3 DEF Upload, Rescan, SubmitScan, SubmitGlitch, Expire, BecomesDue, BecomesStale
  <2>4. ASSUME NEW w \in Workers,
               \/ Take(w) \/ ScanStep(w) \/ OutcomeStep(w) \/ ScanGlitch(w)
               \/ DeadLetterGlitch(w) \/ LeaseStep(w) \/ WorkerDies(w)
        PROVE  FALSE
    <3>1. work[w].pc = "idle"
      BY <2>2
    <3>2. QED
      BY <2>1, <2>4, <3>1 DEF Take, Claim, ScanStep, OutcomeStep, ScanGlitch, DeadLetterGlitch,
         LeaseStep, WorkerDies, BeginScan, ReadObject, RunScanners, MakeReleaseDir, MovePayload,
         Repath, ConcludeScan, FailScan, FailClosed, Settled, Complete, Retry, GiveUp, Fail,
         ClaimDeadLetter, CondemnDeadLetter, DeadLetterDone, Heartbeat, LeaseLost, Busy,
         ThreadDies, At
  <2>5. ASSUME SweepStep \/ SweepGlitch
        PROVE  FALSE
    BY <2>1, <2>5 DEF SweepStep, SweepGlitch, StartExpiring, ReadDue, ExpireDue, StartTimeouts,
       TimeOutScan, StartPurge, PurgePayload, ClearPath, EndSweep, NoSweep
  <2>6. UNCHANGED <<row, file>>
    BY <1>2, <2>3, <2>4, <2>5 DEF SystemNext, QueueTime, inboundVars
  <2>7. QED
    BY <2>1, <2>6 DEF Hardened
<1>3. QED
  BY <1>1, <1>2

\* The inductive invariant.
Whereabouts == Actors /\ Payloads /\ Running /\ Hardened

\* Nothing is stored yet.
LEMMA InitiallyInPlace == SystemInit /\ TypeOK => Whereabouts
<1> SUFFICES ASSUME SystemInit, TypeOK
             PROVE  Whereabouts
  OBVIOUS
<1>1. SystemTypeOK
  <2>1. /\ "none" \in Places /\ "absent" \in States
        /\ MaxSubmits \in Nat /\ MaxTroubles \in Nat
    BY SystemConstants DEF Places, States
  <2>2. scan \in [Workers -> Locals]
    BY DEF SystemInit, NoScan, Locals, Places
  <2>3. mt \in Sweeps /\ boot \in Boots
    BY DEF SystemInit, NoSweep, NoPaths, Sweeps, Serving, Boots, Places, States
  <2>4. QED
    BY <2>1, <2>2, <2>3, ServiceTypes DEF SystemInit
<1>2. Threads /\ JobRows
  BY DEF SystemInit, Init, Threads, ThreadOk, JobRows, JobOk, NoScan, ScanPcs, IdleThread,
     NoRow
<1>3. Absent /\ BootOk
  BY DEF SystemInit, Init, Absent, AbsentOk, BootOk, NoSweep, Serving
<1>4. ASSUME NEW o \in Objects
      PROVE  ObjectOk(o) /\ Accounted(o)
  <2>1. \A w \in Workers : ~ScansObject(w, o)
    BY DEF SystemInit, ScansObject, NoScan, ScanPcs
  <2>2. QED
    BY <2>1 DEF SystemInit, ObjectOk, PlaceOk, PurgeOk, Ahead, Unlinked, NoSweep, Accounted
<1>5. Hardened
  BY DEF SystemInit, Hardened, Serving
<1>6. QED
  BY <1>1, <1>2, <1>3, <1>4, <1>5 DEF Whereabouts, Actors, Payloads, Running

\* Every step of the service accounts for every payload and its actors.
LEMMA WhereaboutsKept ==
  ASSUME Whereabouts, QueueInv, TypeOK, TypeOK', [SystemNext]_systemVars
  PROVE  Whereabouts'
<1>1. CASE SystemNext
  <2>1. Actors'
    BY <1>1, ActorsKept DEF Whereabouts
  <2>2. Threads'
    BY <2>1 DEF Actors
  <2>3. QED
    BY <1>1, <2>1, <2>2, PayloadsKept, RunningKept, HardenedKept DEF Whereabouts
<1>2. CASE UNCHANGED systemVars
  <2>1. UNCHANGED systemVars => Whereabouts'
    BY DEF systemVars, Whereabouts, Actors, SystemTypeOK, TypeOK, Threads, ThreadOk, JobRows, JobOk,
       Absent, AbsentOk, BootOk, Payloads, ObjectOk, PlaceOk, PurgeOk, Ahead, Unlinked,
       ScansObject, ReleaserOk, PairOk, ObjectOf, Running, Accounted, At, Hardened
  <2>2. QED
    BY <1>2, <2>1
<1>3. QED
  BY <1>1, <1>2

\* Whatever scans, lost leases, timeouts, purges, exceptions and crashes overlap: threads work
\* for objects that exist, payloads are where rows and locals say, one move leaves isolation.
THEOREM PayloadsAreTracked == SystemSpec => []Whereabouts
<1>1. SystemSpec => [](TypeOK /\ QueueInv)
  BY ServiceUsesQueue, TypeCorrect, QueueInvariant, PTL
<1>2. SystemInit /\ TypeOK => Whereabouts
  BY InitiallyInPlace
<1>3. Whereabouts /\ QueueInv /\ TypeOK /\ TypeOK' /\ [SystemNext]_systemVars => Whereabouts'
  BY WhereaboutsKept
<1>4. QED
  BY <1>1, <1>2, <1>3, PTL DEF SystemSpec

\* A released object can be served, and while a service without storage errors runs, row and
\* file disagree only between two steps of one thread.
THEOREM ReleasedPayloadsAreThere == SystemSpec => []SystemInv
<1>1. Whereabouts => SystemInv
  <2>1. Whereabouts => SystemTypeOK
    BY DEF Whereabouts, Actors
  <2>2. Whereabouts => ReleasedIsServable
    BY DEF Whereabouts, Payloads, ObjectOk, PlaceOk, ReleasedIsServable
  <2>3. Whereabouts => PayloadsAccountedFor
    BY DEF Whereabouts, Running, Accounted, PayloadsAccountedFor
  <2>4. QED
    BY <2>1, <2>2, <2>3 DEF SystemInv
<1>2. QED
  BY <1>1, PayloadsAreTracked, PTL

\* mkdir() lets one of several workers with the same job past, also after lost leases; the one
\* way round it finds no payload any more.
THEOREM OneReleaser == SystemSpec => []OneReleaserAtATime
<1>1. Whereabouts /\ QueueInv => OneReleaserAtATime
  <2> SUFFICES ASSUME Whereabouts, QueueInv, NEW v \in Workers, NEW w \in Workers, v # w,
                      scan[v].pc \in {"move", "repath"}, scan[w].pc \in {"move", "repath"},
                      ObjectOf(v) = ObjectOf(w)
               PROVE  /\ glitches > 0 /\ row[ObjectOf(v)].state = "expired"
                      /\ file[ObjectOf(v)] = "none"
    BY DEF OneReleaserAtATime
  <2>1. work[v].pc = "handling" /\ scan[v].pc \in ScanPcs /\ scan[w].pc \in ScanPcs
    BY DEF Whereabouts, Actors, Threads, ThreadOk, ScanPcs
  <2>2. PICK o \in Objects : o = ObjectOf(v)
    BY <2>1, HandlerObject DEF Whereabouts
  <2>3. ObjectOk(o) /\ ScansObject(v, o) /\ ScansObject(w, o)
    BY <2>1, <2>2 DEF Whereabouts, Payloads, ScansObject
  <2>4. PairOk(v, w, o) /\ ReleaserOk(v, o)
    BY <2>3 DEF ObjectOk
  <2>5. /\ glitches > 0 /\ row[o].state = "expired"
        /\ file[o] # "isolation" /\ file[o] # "released"
    BY <2>4 DEF PairOk, ReleaserOk
  <2>6. file[o] \in Places
    BY ServiceTypes DEF Whereabouts, Actors
  <2>7. QED
    BY <2>2, <2>5, <2>6 DEF Places
<1>2. SystemSpec => []QueueInv
  BY ServiceUsesQueue, QueueInvariant, PTL
<1>3. QED
  BY <1>1, <1>2, PayloadsAreTracked, PTL

------------------------------------------------------------------------------
(* The service implements the life cycle of an object.                     *)

\* A transition that leaves the payload alone is a step of the life cycle.
LEMMA TransitionShows ==
  ASSUME SystemTypeOK, NEW o \in Objects, NEW s, Transition(o, s), file' = file,
         s = "released" => file[o] = "released"
  PROVE  LC!Next
<1>1. /\ row \in [Objects -> [state: States, path: Places]]
      /\ row[o].state \in States /\ s \in ALLOWED_TRANSITIONS[row[o].state]
      /\ row' = [row EXCEPT ![o].state = s]
  BY ServiceTypes, TransitionTyped DEF Transition
<1>2. ObjectStates[o] = row[o].state
  BY DEF ObjectStates
<1>3. ObjectStates' = [ObjectStates EXCEPT ![o] = s]
  BY <1>1 DEF ObjectStates
<1>4. ASSUME NEW from, from = row[o].state
      PROVE  LC!Change(o, from, s)
  BY <1>2, <1>3, <1>4 DEF LC!Change
<1>5. /\ s \in {"scanning", "released", "rejected", "quarantined", "pending_scan", "expired"}
      /\ s = "scanning" => row[o].state = "pending_scan"
      /\ s \in {"released", "rejected", "quarantined"} => row[o].state = "scanning"
      /\ s = "pending_scan" => row[o].state = "quarantined"
      /\ s = "expired" => row[o].state \in {"pending_scan", "quarantined", "released", "rejected"}
  BY <1>1, LifeCycle DEF States
<1>6. \/ LC!BeginScan(o) \/ LC!Hold(o) \/ LC!Reject(o) \/ LC!Release(o) \/ LC!Rescan(o)
      \/ LC!Expire(o)
  BY <1>4, <1>5 DEF LC!BeginScan, LC!Hold, LC!Reject, LC!Release, LC!Rescan, LC!Expire
<1>7. QED
  BY <1>6 DEF LC!Next

\* An upload registers the object with its payload in isolation.
LEMMA UploadShows ==
  ASSUME SystemTypeOK, NEW o \in Objects, Upload(o)
  PROVE  LC!Next
<1>1. row \in [Objects -> [state: States, path: Places]]
  BY ServiceTypes
<1>2. ObjectStates[o] = "absent"
  BY DEF ObjectStates, Upload
<1>3. ObjectStates' = [ObjectStates EXCEPT ![o] = "pending_scan"]
  BY <1>1 DEF ObjectStates, Upload
<1>4. LC!Register(o)
  BY <1>2, <1>3 DEF LC!Register, Upload
<1>5. QED
  BY <1>4 DEF LC!Next

\* The move out of isolation promotes it.
LEMMA MoveShows ==
  ASSUME Whereabouts, QueueInv, NEW w \in Workers, MovePayload(w)
  PROVE  LC!Next \/ UNCHANGED LC!vars
<1>1. ObjectStates' = ObjectStates
  BY DEF MovePayload, ObjectStates
<1>2. PICK o \in Objects : o = ObjectOf(w)
  BY HandlerObject DEF MovePayload, At, Whereabouts
<1>3. CASE file[o] = scan[w].path
  <2>1. file[o] = "isolation"
    BY <1>2, <1>3, OnlyFromIsolation DEF MovePayload, Whereabouts, Payloads
  <2>2. LC!Promote(o)
    BY <1>1, <1>2, <1>3, <2>1 DEF LC!Promote, MovePayload
  <2>3. QED
    BY <2>2 DEF LC!Next
<1>4. CASE file[o] # scan[w].path
  BY <1>1, <1>2, <1>4 DEF MovePayload, LC!vars
<1>5. QED
  BY <1>3, <1>4

\* The purge discards the payload of an expired object, if it is there.
LEMMA PurgeShows ==
  ASSUME Whereabouts, NEW o \in Objects, PurgePayload(o)
  PROVE  LC!Next \/ UNCHANGED LC!vars
<1>1. ObjectStates' = ObjectStates
  BY DEF PurgePayload, ObjectStates
<1>2. row[o].state = "expired"
  BY DEF PurgePayload, Whereabouts, Payloads, ObjectOk, PurgeOk
<1>3. ObjectStates[o] = "expired"
  BY <1>2 DEF ObjectStates
<1>4. CASE file[o] = mt.paths[o]
  <2>1. LC!Discard(o)
    BY <1>1, <1>3, <1>4 DEF LC!Discard, PurgePayload
  <2>2. QED
    BY <2>1 DEF LC!Next
<1>5. CASE file[o] # mt.paths[o]
  <2>1. file' = file
    BY <1>5, ServiceTypes DEF PurgePayload, Whereabouts, Actors
  <2>2. QED
    BY <1>1, <2>1 DEF LC!vars
<1>6. QED
  BY <1>4, <1>5

\* A new path is not part of the life cycle.
LEMMA PathStutters ==
  ASSUME SystemTypeOK, file' = file, NEW o \in Objects, NEW p \in Places,
         row' = [row EXCEPT ![o].path = p]
  PROVE  UNCHANGED LC!vars
<1>1. row \in [Objects -> [state: States, path: Places]]
  BY ServiceTypes
<1>2. \A q \in Objects : row'[q].state = row[q].state
  BY <1>1
<1>3. QED
  BY <1>2 DEF ObjectStates, LC!vars

\* Every step of the service is a step of the life cycle, or none.
LEMMA StepShows ==
  ASSUME Whereabouts, QueueInv, SystemNext
  PROVE  LC!Next \/ UNCHANGED LC!vars
<1>0. SystemTypeOK /\ Actors /\ Payloads /\ "none" \in Places /\ "released" \in Places
  BY DEF Whereabouts, Actors, Places
<1>1. ASSUME UNCHANGED <<row, file>>
      PROVE  UNCHANGED LC!vars
  BY <1>1 DEF ObjectStates, LC!vars
<1>2. ASSUME NEW o \in Objects,
             \/ Upload(o) \/ Rescan(o) \/ SubmitScan(o) \/ SubmitGlitch(o)
             \/ Expire(o) \/ BecomesDue(o) \/ BecomesStale(o)
      PROVE  LC!Next \/ UNCHANGED LC!vars
  BY <1>0, <1>1, <1>2, UploadShows, TransitionShows
     DEF Rescan, SubmitScan, SubmitGlitch, Expire, BecomesDue, BecomesStale, objectVars
<1>3. ASSUME NEW w \in Workers,
             \/ Take(w) \/ ScanStep(w) \/ OutcomeStep(w) \/ ScanGlitch(w)
             \/ DeadLetterGlitch(w) \/ LeaseStep(w) \/ WorkerDies(w)
      PROVE  LC!Next \/ UNCHANGED LC!vars
  <2>1. CASE MovePayload(w)
    BY <2>1, MoveShows
  <2>2. CASE MakeReleaseDir(w)
    BY <1>1, <2>2 DEF MakeReleaseDir
  <2>3. CASE Repath(w)
    <3>1. PICK o \in Objects : o = ObjectOf(w)
      BY <1>0, <2>3, HandlerObject DEF Repath, At
    <3>2. file' = file /\ row' = [row EXCEPT ![o].path = "released"]
      BY <2>3, <3>1 DEF Repath
    <3>3. QED
      BY <1>0, <3>2, PathStutters
  <2>4. CASE \/ Take(w) \/ BeginScan(w) \/ ReadObject(w) \/ RunScanners(w) \/ ConcludeScan(w)
             \/ FailScan(w) \/ FailClosed(w) \/ OutcomeStep(w) \/ ScanGlitch(w)
             \/ DeadLetterGlitch(w) \/ LeaseStep(w) \/ WorkerDies(w)
    <3>1. file' = file
      BY <2>4 DEF Take, BeginScan, ReadObject, RunScanners, ConcludeScan, FailScan, FailClosed,
         OutcomeStep, Settled, GiveUp, ClaimDeadLetter, CondemnDeadLetter, ScanGlitch,
         DeadLetterGlitch, LeaseStep, WorkerDies, inboundVars, objectVars
    <3>2. QED
      BY <1>0, <1>1, <2>4, <3>1, WorkerTransitions, TransitionShows
  <2>5. QED
    BY <1>3, <2>1, <2>2, <2>3, <2>4 DEF ScanStep
<1>4. CASE SweepStep \/ SweepGlitch
  <2>1. mt.pc \in {"expiring", "clear"} => mt.current \in Objects
    BY <1>0 DEF Actors, BootOk
  <2>2. ASSUME NEW o \in Objects, PurgePayload(o)
        PROVE  LC!Next \/ UNCHANGED LC!vars
    BY <2>2, PurgeShows
  <2>3. CASE ClearPath
    <3>1. file' = file /\ row' = [row EXCEPT ![mt.current].path = "none"] /\ mt.current \in Objects
      BY <2>1, <2>3 DEF ClearPath
    <3>2. QED
      BY <1>0, <3>1, PathStutters
  <2>4. CASE \/ StartExpiring \/ ExpireDue \/ StartTimeouts \/ StartPurge \/ EndSweep \/ SweepGlitch
             \/ \E o \in Objects : ReadDue(o) \/ TimeOutScan(o)
    <3>1. file' = file
      BY <2>4 DEF StartExpiring, ExpireDue, StartTimeouts, StartPurge, EndSweep, SweepGlitch,
         ReadDue, TimeOutScan, objectVars
    <3>2. row' = row \/ \E o \in Objects : Transition(o, "expired") \/ Transition(o, "quarantined")
      BY <2>1, <2>4 DEF StartExpiring, ExpireDue, StartTimeouts, StartPurge, EndSweep, SweepGlitch,
         ReadDue, TimeOutScan, objectVars
    <3>3. QED
      BY <1>0, <1>1, <3>1, <3>2, TransitionShows
  <2>5. QED
    BY <1>4, <2>2, <2>3, <2>4 DEF SweepStep
<1>5. CASE BootStep \/ SystemCrash
  <2>1. file' = file /\ (row' = row \/ \E o \in Objects : Transition(o, "quarantined"))
    BY <1>5 DEF BootStep, SystemCrash, Harden, StartQueue, StartRecovery, RecoverScanning,
       RecoveryRaises, StartResubmitting, Resubmit, StartServing, objectVars
  <2>2. QED
    BY <1>0, <1>1, <2>1, TransitionShows
<1>6. ASSUME NEW i \in JobIds, QueueTime(i)
      PROVE  UNCHANGED LC!vars
  BY <1>1, <1>6 DEF QueueTime, inboundVars
<1>7. QED
  BY <1>2, <1>3, <1>4, <1>5, <1>6 DEF SystemNext

\* Through duplicate deliveries, lost leases, timeouts, recovery and dead letters an object
\* moves only along its life cycle, is released only with its payload in the release area, and
\* loses the payload only after it expired.
THEOREM ObjectRefinement == SystemSpec => ImplementsLifecycle
<1>1. SystemInit => LC!Init
  BY DEF SystemInit, LC!Init, ObjectStates
<1>2. Whereabouts /\ QueueInv /\ [SystemNext]_systemVars => [LC!Next]_LC!vars
  <2>1. UNCHANGED systemVars => UNCHANGED LC!vars
    BY DEF systemVars, LC!vars, ObjectStates
  <2>2. QED
    BY <2>1, StepShows
<1>3. SystemSpec => []QueueInv
  BY ServiceUsesQueue, QueueInvariant, PTL
<1>4. QED
  BY <1>1, <1>2, <1>3, PayloadsAreTracked, PTL DEF SystemSpec, ImplementsLifecycle, LC!Spec

------------------------------------------------------------------------------
(* Recovery forgets no pending object.                                     *)

\* Past its first transition a scan has seen that its object does not wait any more.
SeenOk(w) ==
  work[w].pc \in {"returned", "raised"} \/ scan[w].pc \in ScanPcs \ {"begin"}
    => row[ObjectOf(w)].state # "pending_scan"

\* A pending object recovery has dealt with is in the queue.
QueuedOk(o) ==
  row[o].state = "pending_scan" /\ o \notin boot.todo
    => \E i \in JobIds : Active(i) /\ jobs[i].obj = o

\* What recovery rests on, while no request makes objects wait.
Recovery ==
  glitches = 0 /\ boot.pc # "serving" =>
    /\ \A w \in Workers : SeenOk(w)
    /\ boot.pc = "resubmit" => \A o \in Objects : QueuedOk(o)

\* A row stays in the queue until the thread that ran it reports.
LEMMA RowsStayActive ==
  ASSUME TypeOK, QueueInv, [Next]_queueVars, NEW i \in JobIds, Active(i)
  PROVE  \/ Active(i)'
         \/ \E w \in Workers : work[w].pc \in {"returned", "raised"} /\ work[w].job = i
<1> DEFINE Goal == \/ Active(i)'
                   \/ \E w \in Workers : work[w].pc \in {"returned", "raised"} /\ work[w].job = i
<1>0. jobs \in [JobIds -> Row] /\ jobs[i] \in Row /\ jobs[i].state \in {"queued", "running"}
  BY DEF TypeOK, Active
<1>1. ASSUME NEW o \in Objects, Submit(o)
      PROVE  Goal
  <2>1. jobs'[i] = jobs[i]
    BY <1>0, <1>1, SubmittedRow
  <2>2. QED
    BY <1>0, <2>1 DEF Active
<1>2. ASSUME NEW w \in Workers, Claim(w)
      PROVE  Goal
  <2>1. PICK k \in JobIds : Claimable(k) /\ jobs' = [jobs EXCEPT ![k] = Leased(jobs[k], w)]
    BY <1>2 DEF Claim
  <2>2. Leased(jobs[i], w).state = "running"
    BY <1>0, LeasedColumns
  <2>3. jobs'[i] \in {jobs[i], Leased(jobs[i], w)}
    BY <1>0, <2>1
  <2>4. QED
    BY <1>0, <2>2, <2>3 DEF Active
<1>3. ASSUME NEW w \in Workers, Settle(w)
      PROVE  Goal
  <2>1. \/ jobs' = jobs
        \/ /\ work[w].pc \in {"returned", "raised"}
           /\ \E s \in RowStates, b \in BOOLEAN : jobs' = Unlease(work[w].job, s, b)
    BY <1>3 DEF Settle, Complete, Retry, Fail, DeadLetterDone, RowStates
  <2>2. CASE work[w].pc \in {"returned", "raised"} /\ work[w].job = i
    BY <2>2
  <2>3. CASE ~(work[w].pc \in {"returned", "raised"} /\ work[w].job = i)
    <3>1. jobs'[i] = jobs[i]
      BY <1>0, <2>1, <2>3 DEF Unlease
    <3>2. QED
      BY <1>0, <3>1 DEF Active
  <2>4. QED
    BY <2>2, <2>3
<1>4. ASSUME NEW k, NEW b, \/ jobs' = [jobs EXCEPT ![k].live = b]
                           \/ jobs' = [jobs EXCEPT ![k].ready = b]
      PROVE  Goal
  <2>1. /\ [jobs[i] EXCEPT !.live = b].state = jobs[i].state
        /\ [jobs[i] EXCEPT !.ready = b].state = jobs[i].state
    BY <1>0 DEF Row
  <2>2. jobs'[i] \in {jobs[i], [jobs[i] EXCEPT !.live = b], [jobs[i] EXCEPT !.ready = b]}
    BY <1>0, <1>4
  <2>3. QED
    BY <1>0, <2>1, <2>2 DEF Active
<1>5. CASE Start
  <2>1. [jobs[i] EXCEPT !.state = "queued", !.ready = TRUE, !.owner = NoWorker,
                        !.live = FALSE].state = "queued"
    BY <1>0 DEF Row
  <2>2. QED
    BY <1>0, <1>5, <2>1 DEF Start, Active
<1>6. CASE PurgeCompleted
  <2>1. jobs'[i] = jobs[i]
    BY <1>0, <1>6 DEF PurgeCompleted, Finished
  <2>2. QED
    BY <1>0, <2>1 DEF Active
<1>7. CASE UNCHANGED jobs
  BY <1>7 DEF Active
<1>8. QED
  BY <1>1, <1>2, <1>3, <1>4, <1>5, <1>6, <1>7
     DEF Next, queueVars, HandlerEnds, HandlerReturns, HandlerRaises, ThreadDies, Crash,
         Heartbeat, LeaseLost, BackoffElapses, LeaseLapses

\* A submission leaves the object in the queue.
LEMMA SubmittedIsActive ==
  ASSUME TypeOK, QueueInv, NEW o \in Objects, Submit(o)
  PROVE  \E i \in JobIds : Active(i)' /\ jobs'[i].obj = o
<1>0. jobs \in [JobIds -> Row]
  BY DEF TypeOK
<1>1. CASE \E i \in JobIds : Active(i) /\ jobs[i].obj = o
  <2>1. jobs' = jobs
    BY <1>1 DEF Submit, Active
  <2>2. QED
    BY <1>1, <2>1 DEF Active
<1>2. CASE ~ \E i \in JobIds : Active(i) /\ jobs[i].obj = o
  <2>1. /\ nextId \in JobIds
        /\ jobs' = [jobs EXCEPT ![nextId] =
                     [obj |-> o, state |-> "queued", attempts |-> 0,
                      ready |-> TRUE, live |-> FALSE, owner |-> NoWorker]]
    BY <1>2 DEF Submit
  <2>2. jobs'[nextId].state = "queued" /\ jobs'[nextId].obj = o
    BY <1>0, <2>1
  <2>3. QED
    BY <2>1, <2>2 DEF Active
<1>3. QED
  BY <1>1, <1>2

\* Where a thread stands for each kind of step.
LEMMA StepsFrom ==
  ASSUME work \in [Workers -> Thread], NEW w \in Workers
  PROVE  /\ ScanStep(w) \/ ScanGlitch(w) => work[w].pc = "handling"
         /\ OutcomeStep(w) => work[w].pc \in {"returned", "raised", "deadletter"}
         /\ DeadLetterGlitch(w) => work[w].pc = "deadletter"
         /\ LeaseStep(w) => UNCHANGED <<scan, work>>
         /\ WorkerDies(w) => work'[w].pc = "dead"
         /\ Take(w) => work[w].pc = "idle"
<1>1. ScanStep(w) \/ ScanGlitch(w) => work[w].pc = "handling"
  BY DEF ScanStep, BeginScan, ReadObject, RunScanners, MakeReleaseDir, MovePayload, Repath,
     ConcludeScan, FailScan, FailClosed, ScanGlitch, At
<1>2. OutcomeStep(w) => work[w].pc \in {"returned", "raised", "deadletter"}
  BY DEF OutcomeStep, Settled, Complete, Retry, GiveUp, Fail, ClaimDeadLetter, CondemnDeadLetter,
     DeadLetterDone
<1>3. DeadLetterGlitch(w) => work[w].pc = "deadletter"
  BY DEF DeadLetterGlitch, DeadLetterDone
<1>4. LeaseStep(w) => UNCHANGED <<scan, work>>
  BY DEF LeaseStep, Heartbeat, LeaseLost, inboundVars
<1>5. WorkerDies(w) => work'[w].pc = "dead"
  BY DEF WorkerDies, ThreadDies, Thread
<1>6. Take(w) => work[w].pc = "idle"
  BY DEF Take, Claim
<1>7. QED
  BY <1>1, <1>2, <1>3, <1>4, <1>5, <1>6

\* Threads that go on know that their object does not wait.
LEMMA SeenKept ==
  ASSUME Actors, QueueInv, TypeOK, SystemNext, Threads', boot.pc # "serving", glitches' = glitches,
         NEW v \in Workers, SeenOk(v)
  PROVE  SeenOk(v)'
<1> SUFFICES ASSUME \/ work'[v].pc \in {"returned", "raised"}
                    \/ scan'[v].pc \in ScanPcs \ {"begin"}
             PROVE  row'[ObjectOf(v)'].state # "pending_scan"
  BY DEF SeenOk
<1>0. /\ [Next]_queueVars
      /\ scan \in [Workers -> Locals] /\ work \in [Workers -> Thread] /\ glitches \in Nat
      /\ SystemTypeOK
  BY StepUsesQueue, ServiceTypes, GlitchesGrow DEF Actors, TypeOK
<1>1. work'[v].pc \in {"handling", "returned", "raised"}
  BY DEF Threads, ThreadOk
<1>2. CASE Crash /\ Forget
  BY <1>1, <1>2 DEF Crash, IdleThread
<1>3. CASE ~(Crash /\ Forget)
  <2>1. work[v].pc # "idle"
    <3>1. ASSUME work[v].pc = "idle"
          PROVE  FALSE
      <4>1. work'[v].pc = "handling" /\ work'[v].pc # work[v].pc
        BY <1>0, <1>1, <3>1, ThreadsKeepJobs
      <4>2. PICK w \in Workers : \/ Take(w) \/ ScanStep(w) \/ OutcomeStep(w) \/ ScanGlitch(w)
                                 \/ DeadLetterGlitch(w) \/ LeaseStep(w) \/ WorkerDies(w)
        BY <1>3, <4>1, OtherSteps
      <4>3. w = v
        BY <4>1, <4>2, OwnThread DEF Alone
      <4>4. Take(v)
        BY <1>0, <3>1, <4>1, <4>2, <4>3, StepsFrom
      <4>5. scan'[v].pc = "begin"
        BY <1>0, <4>4 DEF Take, Goto, Locals
      <4>6. QED
        BY <4>1, <4>5
    <3>2. QED
      BY <3>1
  <2>2. /\ work[v].pc \in {"handling", "returned", "raised", "deadletter"}
        /\ work'[v].job = work[v].job
    BY <1>0, <1>1, <2>1, ThreadsKeepJobs
  <2>3. PICK o \in Objects : o = ObjectOf(v)
    BY <2>2, HandlerObject
  <2>4. ObjectOf(v)' = o
    <3>1. PICK i \in JobIds : i = work[v].job /\ jobs[i].state # "absent"
      BY <2>2, HandlerObject
    <3>2. jobs'[i].obj = jobs[i].obj
      BY <1>0, <3>1, RowsKeepObjects
    <3>3. QED
      BY <2>2, <2>3, <3>1, <3>2 DEF ObjectOf
  <2>5. row[o].state # "pending_scan" => row'[o].state # "pending_scan"
    BY StatesMove DEF StateMoves, Serving
  <2>6. CASE work[v].pc \in {"returned", "raised"} \/ scan[v].pc \in ScanPcs \ {"begin"}
    BY <2>3, <2>4, <2>5, <2>6 DEF SeenOk
  <2>7. CASE ~(work[v].pc \in {"returned", "raised"} \/ scan[v].pc \in ScanPcs \ {"begin"})
    <3>1. UNCHANGED <<scan, work>> => FALSE
      BY <2>7
    <3>2. PICK w \in Workers : \/ Take(w) \/ ScanStep(w) \/ OutcomeStep(w) \/ ScanGlitch(w)
                               \/ DeadLetterGlitch(w) \/ LeaseStep(w) \/ WorkerDies(w)
      BY <1>3, <3>1, OtherSteps
    <3>3. w = v
      BY <2>7, <3>2, OwnThread DEF Alone
    <3>4. CASE BeginScan(v)
      <4>1. CASE CanMove(o, "scanning")
        <5>1. Transition(o, "scanning")
          BY <2>3, <3>4, <4>1 DEF BeginScan
        <5>2. row'[o].state = "scanning"
          BY <1>0, <5>1, TransitionTyped
        <5>3. QED
          BY <2>4, <5>2
      <4>2. CASE ~CanMove(o, "scanning")
        <5>1. row[o].state # "pending_scan"
          BY <4>2 DEF CanMove, ALLOWED_TRANSITIONS
        <5>2. QED
          BY <2>4, <2>5, <5>1
      <4>3. QED
        BY <4>1, <4>2
    <3>5. ~ScanGlitch(v) /\ ~DeadLetterGlitch(v)
      BY <1>0 DEF ScanGlitch, DeadLetterGlitch, Glitch
    <3>6. CASE work[v].pc = "deadletter"
      <4>1. OutcomeStep(v)
        <5>1. work' # work
          BY <1>1, <3>6
        <5>2. work'[v].pc # "dead"
          BY <1>1
        <5>3. ~WorkerDies(v)
          BY <1>0, <5>2, StepsFrom
        <5>4. ~Take(v) /\ ~ScanStep(v) /\ ~LeaseStep(v)
          BY <1>0, <3>6, <5>1, StepsFrom
        <5>5. QED
          BY <3>2, <3>3, <3>5, <5>3, <5>4
      <4>2. work' = work \/ work' = [work EXCEPT ![v] = IdleThread]
        BY <3>6, <4>1 DEF OutcomeStep, Settled, Complete, Retry, GiveUp, Fail, ClaimDeadLetter,
           CondemnDeadLetter, DeadLetterDone, queueVars
      <4>3. work'[v].pc \in {"deadletter", "idle"}
        BY <1>0, <3>6, <4>2 DEF IdleThread
      <4>4. QED
        BY <1>1, <4>3
    <3>7. CASE work[v].pc = "handling" /\ ~BeginScan(v)
      <4>1. scan[v].pc = "begin"
        BY <2>7, <3>7 DEF Actors, Threads, ThreadOk
      <4>2. LeaseStep(v) \/ ScanStep(v)
        <5>1. ~WorkerDies(v)
          BY <1>0, <1>1, StepsFrom
        <5>2. ~Take(v) /\ ~OutcomeStep(v)
          BY <1>0, <3>7, StepsFrom
        <5>3. QED
          BY <3>2, <3>3, <3>5, <5>1, <5>2
      <4>3. ~ScanStep(v)
        BY <3>7, <4>1 DEF ScanStep, ReadObject, RunScanners, MakeReleaseDir, MovePayload, Repath,
           ConcludeScan, FailScan, FailClosed, At
      <4>4. QED
        BY <1>0, <3>1, <4>2, <4>3, StepsFrom
    <3>8. QED
      BY <2>2, <2>7, <3>4, <3>6, <3>7
  <2>8. QED
    BY <2>6, <2>7
<1>4. QED
  BY <1>2, <1>3

\* While recovery resubmits, no pending object drops out of the queue.
LEMMA QueuedKept ==
  ASSUME Actors, QueueInv, TypeOK, SystemNext, boot.pc = "resubmit", boot'.pc = "resubmit",
         \A w \in Workers : SeenOk(w), NEW o \in Objects, QueuedOk(o)
  PROVE  QueuedOk(o)'
<1> SUFFICES ASSUME row'[o].state = "pending_scan", o \notin boot'.todo
             PROVE  \E i \in JobIds : Active(i)' /\ jobs'[i].obj = o
  BY DEF QueuedOk
<1>0. [Next]_queueVars /\ boot \in Boots /\ row[o].state = "pending_scan"
  BY StepUsesQueue, StatesMove, ServiceTypes DEF StateMoves, Serving, Actors
<1>1. CASE o \notin boot.todo
  <2>1. PICK i \in JobIds : Active(i) /\ jobs[i].obj = o
    BY <1>0, <1>1 DEF QueuedOk
  <2>2. ASSUME NEW w \in Workers, work[w].pc \in {"returned", "raised"}, work[w].job = i
        PROVE  FALSE
    BY <1>0, <2>1, <2>2 DEF SeenOk, ObjectOf
  <2>3. Active(i)'
    BY <1>0, <2>1, <2>2, RowsStayActive
  <2>4. jobs[i].state # "absent"
    BY <2>1 DEF Active
  <2>5. jobs'[i].obj = o
    BY <1>0, <2>1, <2>4, RowsKeepObjects
  <2>6. QED
    BY <2>3, <2>5
<1>2. CASE o \in boot.todo
  <2>1. boot' # boot
    BY <1>2
  <2>2. BootStep
    BY <2>1, SameBoot DEF SystemCrash, Forget, Down
  <2>3. Resubmit(o)
    BY <1>0, <1>2, <2>2 DEF BootStep, Harden, StartQueue, StartRecovery, RecoverScanning,
       RecoveryRaises, StartResubmitting, Resubmit, StartServing, Forget, Down, Serving, Boots
  <2>4. Submit(o)
    BY <2>3 DEF Resubmit
  <2>5. QED
    BY <2>4, SubmittedIsActive
<1>3. QED
  BY <1>1, <1>2

\* What recovery has seen and queued lasts until it ends.
LEMMA RecoveryKept ==
  ASSUME Whereabouts, Whereabouts', QueueInv, TypeOK, SystemNext, Recovery
  PROVE  Recovery'
<1> SUFFICES ASSUME glitches' = 0, boot'.pc # "serving"
             PROVE  /\ \A w \in Workers : SeenOk(w)'
                    /\ boot'.pc = "resubmit" => \A o \in Objects : QueuedOk(o)'
  BY DEF Recovery
<1>0. /\ Actors /\ Threads' /\ glitches = 0
      /\ boot \in Boots /\ row \in [Objects -> [state: States, path: Places]]
  BY GlitchesGrow, ServiceTypes DEF Whereabouts, Actors
<1>1. CASE boot.pc = "serving"
  <2>1. boot'.pc = "down" /\ Crash /\ Forget
    BY <1>0, <1>1, SameBoot DEF BootStep, SystemCrash, Harden, StartQueue, StartRecovery,
       RecoverScanning, RecoveryRaises, StartResubmitting, Resubmit, StartServing, Forget, Down
  <2>2. \A w \in Workers : SeenOk(w)'
    BY <2>1 DEF SeenOk, Crash, Forget, NoScan, ScanPcs, IdleThread
  <2>3. QED
    BY <2>1, <2>2
<1>2. CASE boot.pc # "serving"
  <2>1. \A w \in Workers : SeenOk(w)'
    BY <1>0, <1>2, SeenKept DEF Recovery
  <2>2. ASSUME boot'.pc = "resubmit", NEW o \in Objects
        PROVE  QueuedOk(o)'
    <3>1. CASE boot.pc = "resubmit"
      BY <1>0, <1>2, <2>2, <3>1, QueuedKept DEF Recovery
    <3>2. CASE boot.pc # "resubmit"
      <4>1. StartResubmitting
        BY <1>0, <2>2, <3>2, SameBoot DEF BootStep, SystemCrash, Harden, StartQueue, StartRecovery,
           RecoverScanning, RecoveryRaises, StartResubmitting, Resubmit, StartServing, Forget, Down,
           Serving, Boots
      <4>2. boot'.todo = {p \in Objects : row[p].state = "pending_scan"} /\ row' = row
        BY <4>1 DEF StartResubmitting, objectVars
      <4>3. QED
        BY <4>2 DEF QueuedOk
    <3>3. QED
      BY <3>1, <3>2
  <2>3. QED
    BY <2>1, <2>2
<1>3. QED
  BY <1>1, <1>2

\* Recovery forgets no pending object, although the workers run while it works: when the
\* service begins to serve, each has a job.
THEOREM RecoveryIsComplete == SystemSpec => RecoveryForgetsNothing
<1>1. SystemSpec => [](TypeOK /\ QueueInv)
  BY ServiceUsesQueue, TypeCorrect, QueueInvariant, PTL
<1>2. SystemInit => Recovery
  BY DEF SystemInit, Serving, Recovery
<1>3. ASSUME Recovery, Whereabouts, Whereabouts', QueueInv, TypeOK, [SystemNext]_systemVars
      PROVE  Recovery'
  <2>1. CASE UNCHANGED systemVars
    <3>1. UNCHANGED systemVars => Recovery'
      BY <1>3 DEF systemVars, Recovery, SeenOk, QueuedOk, ObjectOf, Active
    <3>2. QED
      BY <2>1, <3>1
  <2>2. QED
    BY <1>3, <2>1, RecoveryKept
<1>4. ASSUME Recovery, Whereabouts, [SystemNext]_systemVars,
             boot.pc = "resubmit", boot' = Serving, glitches = 0,
             NEW o \in Objects, row[o].state = "pending_scan"
      PROVE  HasJob(o)
  <2>1. boot \in Boots /\ boot' # boot
    BY <1>4, ServiceTypes DEF Whereabouts, Actors, Serving
  <2>2. StartServing
    BY <1>4, <2>1, SameBoot DEF systemVars, BootStep, SystemCrash, Harden, StartQueue, StartRecovery,
       RecoverScanning, RecoveryRaises, StartResubmitting, Resubmit, StartServing, Forget, Down,
       Serving, Boots
  <2>3. QueuedOk(o) /\ boot.todo = {}
    BY <1>4, <2>2 DEF Recovery, StartServing
  <2>4. QED
    BY <1>4, <2>3 DEF QueuedOk, HasJob
<1>5. SystemSpec => []Recovery
  BY <1>1, <1>2, <1>3, PayloadsAreTracked, PTL DEF SystemSpec
<1>6. Recovery /\ Whereabouts /\ [SystemNext]_systemVars
        => [(boot.pc = "resubmit" /\ boot' = Serving /\ glitches = 0) =>
              \A o \in Objects : row[o].state = "pending_scan" => HasJob(o)]_systemVars
  BY <1>4
<1>7. QED
  BY <1>5, <1>6, PayloadsAreTracked, PTL DEF SystemSpec, RecoveryForgetsNothing
==============================================================================
