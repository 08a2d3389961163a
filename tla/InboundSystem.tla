---------------------------- MODULE InboundSystem ----------------------------
(***************************************************************************)
(* The inbound object service (src/src/sfss/service.py) on top of the scan *)
(* queue: uploads, scans, administrator actions, the maintenance sweep,    *)
(* crashes and the start-up sequence of main() (src/src/sfss/server.py).   *)
(*                                                                         *)
(* row[o] is the objects row (its state and where storage_path points),    *)
(* file[o] the directory the payload really is in, relDir[o] whether the   *)
(* release directory of the object exists.  A transition is one            *)
(* transaction guarded by the state it leaves; moving a file and updating  *)
(* storage_path are two steps, and so are unlinking it and clearing the    *)
(* path.  The clock appears as due[o] (expires_at has passed) and stale[o] *)
(* (no transition for longer than a timeout or grace period).              *)
(***************************************************************************)
EXTENDS JobQueue

CONSTANTS MaxTroubles,  \* bound of the model: crashes, dead threads, lost leases and
                        \* exceptions together; MaxFaults beyond it are left for
                        \* main() exiting on a recovery that raises
          MaxSubmits,   \* bound of the model: requests about to submit one object
          KeptRows      \* bound of the model: how many of the MaxJobs rows rescans
                        \* leave for recovery

ASSUME SystemConstants == MaxTroubles \in Nat /\ MaxSubmits \in Nat /\ KeptRows \in Nat

VARIABLES row, file, relDir, due, stale,
          scan,      \* the locals of scan_object / fail_scan_job, per worker thread
          submits,   \* how many requests changed a state and have yet to submit
          mt,        \* the maintenance sweep
          boot,      \* the start-up sequence
          glitches

objectVars  == <<row, file, relDir, due, stale>>
inboundVars == <<row, file, relDir, due, stale, scan, submits, mt, boot, glitches>>
systemVars  == <<jobs, nextId, work, up, faults,
                 row, file, relDir, due, stale, scan, submits, mt, boot, glitches>>

\* Mutant: an object may expire in the middle of its scan.
ExpiringScans ==
  [absent       |-> {},
   pending_scan |-> {"scanning", "expired"},
   scanning     |-> {"quarantined", "released", "rejected", "expired"},
   quarantined  |-> {"pending_scan", "expired"},
   released     |-> {"expired"},
   rejected     |-> {"expired"},
   expired      |-> {}]

ALLOWED_TRANSITIONS ==
  [absent       |-> {},
   pending_scan |-> {"scanning", "expired"},
   scanning     |-> {"quarantined", "released", "rejected"},
   quarantined  |-> {"pending_scan", "expired"},
   released     |-> {"expired"},
   rejected     |-> {"expired"},
   expired      |-> {}]

Places == {"none", "isolation", "released"}   \* "none" as a path: storage_path ''

NoScan  == [pc |-> "none", path |-> "none", target |-> "none"]
NoPaths == [o \in Objects |-> "none"]
NoSweep == [pc |-> "idle", todo |-> {}, paths |-> NoPaths, current |-> NoObject,
            seen |-> "absent"]
Serving == [pc |-> "serving", todo |-> {}]
Down    == [pc |-> "down", todo |-> {}]

ObjectOf(w) == jobs[work[w].job].obj

SystemInit ==
  /\ Init
  /\ row = [o \in Objects |-> [state |-> "absent", path |-> "none"]]
  /\ file = [o \in Objects |-> "none"]
  /\ relDir = [o \in Objects |-> FALSE]
  /\ due = [o \in Objects |-> FALSE]
  /\ stale = [o \in Objects |-> FALSE]
  /\ scan = [w \in Workers |-> NoScan]
  /\ submits = [o \in Objects |-> 0]
  /\ mt = NoSweep
  /\ boot = Serving
  /\ glitches = 0

------------------------------------------------------------------------------
(* transition(): UPDATE ... WHERE id=? AND state=?, with its audit event.  *)

CanMove(o, s) == s \in ALLOWED_TRANSITIONS[row[o].state]

Transition(o, s) ==
  /\ CanMove(o, s)
  /\ row' = [row EXCEPT ![o].state = s]
  /\ stale' = [stale EXCEPT ![o] = FALSE]

------------------------------------------------------------------------------
(* Requests.                                                               *)

\* upload(): payload written and row inserted; the job is submitted afterwards.
Upload(o) ==
  /\ boot = Serving
  /\ row[o].state = "absent"
  /\ row' = [row EXCEPT ![o] = [state |-> "pending_scan", path |-> "isolation"]]
  /\ file' = [file EXCEPT ![o] = "isolation"]
  /\ submits' = [submits EXCEPT ![o] = @ + 1]
  /\ UNCHANGED <<queueVars, relDir, due, stale, scan, mt, boot, glitches>>

Rescan(o) ==
  /\ boot = Serving
  /\ submits[o] < MaxSubmits
  /\ nextId + KeptRows <= MaxJobs
  /\ row[o].state = "quarantined"
  /\ Transition(o, "pending_scan")
  /\ submits' = [submits EXCEPT ![o] = @ + 1]
  /\ UNCHANGED <<queueVars, file, relDir, due, scan, mt, boot, glitches>>

\* The call of queue.submit at the end of either.
SubmitScan(o) ==
  /\ boot = Serving
  /\ submits[o] > 0
  /\ Submit(o)
  /\ submits' = [submits EXCEPT ![o] = @ - 1]
  /\ UNCHANGED <<objectVars, scan, mt, boot, glitches>>

\* expire_object(), and object_for_download() on an object that is due.
Expire(o) ==
  /\ boot = Serving
  /\ Transition(o, "expired")
  /\ UNCHANGED <<queueVars, file, relDir, due, scan, submits, mt, boot, glitches>>

------------------------------------------------------------------------------
(* scan_object(), in a worker thread.                                      *)

At(w, pc) == work[w].pc = "handling" /\ scan[w].pc = pc
Goto(w, pc) == scan' = [scan EXCEPT ![w].pc = pc]
Conclude(w, t) == scan' = [scan EXCEPT ![w].pc = "conclude", ![w].target = t]

Returns(w) == HandlerReturns(w) /\ scan' = [scan EXCEPT ![w] = NoScan]
Raises(w)  == HandlerRaises(w) /\ scan' = [scan EXCEPT ![w] = NoScan]

Take(w) ==
  /\ Claim(w)
  /\ Goto(w, "begin")
  /\ UNCHANGED <<objectVars, submits, mt, boot, glitches>>

\* An object that is not pending is a duplicate delivery and ignored.
BeginScan(w) ==
  /\ At(w, "begin")
  /\ IF CanMove(ObjectOf(w), "scanning")
     THEN /\ Transition(ObjectOf(w), "scanning")
          /\ Goto(w, "read")
          /\ UNCHANGED queueVars
     ELSE /\ Returns(w)
          /\ UNCHANGED <<row, stale>>
  /\ UNCHANGED <<file, relDir, due, submits, mt, boot, glitches>>

\* The row is read, the runtime policy may refuse, the payload is rehashed.
ReadObject(w) ==
  /\ At(w, "read")
  /\ \/ /\ file[ObjectOf(w)] = row[ObjectOf(w)].path
        /\ row[ObjectOf(w)].path # "none"
        /\ scan' = [scan EXCEPT ![w].pc = "scan", ![w].path = row[ObjectOf(w)].path]
     \/ Conclude(w, "quarantined")
  /\ UNCHANGED <<queueVars, objectVars, submits, mt, boot, glitches>>

\* The scanners report and the payload is rehashed; a payload of unknown or
\* conflicting type counts as not clean.
RunScanners(w) ==
  /\ At(w, "scan")
  /\ \/ Conclude(w, "rejected")
     \/ Conclude(w, "quarantined")
     \/ file[ObjectOf(w)] = scan[w].path /\ Goto(w, "mkdir")
  /\ UNCHANGED <<queueVars, objectVars, submits, mt, boot, glitches>>

\* Mutant: mkdir(exist_ok=True).
ReuseReleaseDir(w) ==
  /\ At(w, "mkdir")
  /\ Goto(w, "move")
  /\ relDir' = [relDir EXCEPT ![ObjectOf(w)] = TRUE]
  /\ UNCHANGED <<queueVars, row, file, due, stale, submits, mt, boot, glitches>>

\* released_dir.mkdir() raises if the directory is there already.
MakeReleaseDir(w) ==
  /\ At(w, "mkdir")
  /\ IF relDir[ObjectOf(w)]
     THEN Goto(w, "except") /\ UNCHANGED relDir
     ELSE Goto(w, "move") /\ relDir' = [relDir EXCEPT ![ObjectOf(w)] = TRUE]
  /\ UNCHANGED <<queueVars, row, file, due, stale, submits, mt, boot, glitches>>

\* os.replace() raises if the payload is gone.
MovePayload(w) ==
  /\ At(w, "move")
  /\ IF file[ObjectOf(w)] = scan[w].path
     THEN Goto(w, "repath") /\ file' = [file EXCEPT ![ObjectOf(w)] = "released"]
     ELSE Goto(w, "except") /\ UNCHANGED file
  /\ UNCHANGED <<queueVars, row, relDir, due, stale, submits, mt, boot, glitches>>

\* UPDATE objects SET storage_path=? WHERE id=?, whatever the state is by now.
Repath(w) ==
  /\ At(w, "repath")
  /\ row' = [row EXCEPT ![ObjectOf(w)].path = "released"]
  /\ Conclude(w, "released")
  /\ UNCHANGED <<queueVars, file, relDir, due, stale, submits, mt, boot, glitches>>

\* Sealing needs the payload in place; then the verdict is recorded, if the
\* object is still being scanned.
ConcludeScan(w) ==
  /\ At(w, "conclude")
  /\ LET o == ObjectOf(w)  t == scan[w].target IN
     IF CanMove(o, t) /\ (t = "released" => file[o] = "released")
     THEN Transition(o, t) /\ Returns(w)
     ELSE Goto(w, "except") /\ UNCHANGED <<queueVars, row, stale>>
  /\ UNCHANGED <<file, relDir, due, submits, mt, boot, glitches>>

\* The exception handler reads the state ...
FailScan(w) ==
  /\ At(w, "except")
  /\ IF row[ObjectOf(w)].state = "scanning"
     THEN Goto(w, "failclosed") /\ UNCHANGED queueVars
     ELSE Returns(w)
  /\ UNCHANGED <<objectVars, submits, mt, boot, glitches>>

\* ... and quarantines, or raises if the object has moved on in between.
FailClosed(w) ==
  /\ At(w, "failclosed")
  /\ IF CanMove(ObjectOf(w), "quarantined")
     THEN Transition(ObjectOf(w), "quarantined") /\ Returns(w)
     ELSE Raises(w) /\ UNCHANGED <<row, stale>>
  /\ UNCHANGED <<file, relDir, due, submits, mt, boot, glitches>>

------------------------------------------------------------------------------
(* The outcome of the job, and fail_scan_job() as its dead-letter handler. *)

Settled(w) ==
  /\ Complete(w) \/ Retry(w)
  /\ UNCHANGED inboundVars

GiveUp(w) ==
  /\ Fail(w)
  /\ scan' = [scan EXCEPT ![w].pc = IF work'[w].pc = "deadletter" THEN "claim" ELSE "none"]
  /\ UNCHANGED <<objectVars, submits, mt, boot, glitches>>

\* A pending object is moved to 'scanning' first.
ClaimDeadLetter(w) ==
  /\ work[w].pc = "deadletter" /\ scan[w].pc = "claim"
  /\ IF row[ObjectOf(w)].state = "pending_scan"
     THEN Transition(ObjectOf(w), "scanning")
     ELSE UNCHANGED <<row, stale>>
  /\ Goto(w, "condemn")
  /\ UNCHANGED <<queueVars, file, relDir, due, submits, mt, boot, glitches>>

CondemnDeadLetter(w) ==
  /\ scan[w].pc = "condemn"
  /\ IF row[ObjectOf(w)].state = "scanning"
     THEN Transition(ObjectOf(w), "quarantined")
     ELSE UNCHANGED <<row, stale>>
  /\ DeadLetterDone(w)
  /\ scan' = [scan EXCEPT ![w] = NoScan]
  /\ UNCHANGED <<file, relDir, due, submits, mt, boot, glitches>>

------------------------------------------------------------------------------
(* Exceptions out of the database, the file system or a scanner.           *)

Calm == faults + glitches < MaxTroubles
Glitch == Calm /\ glitches' = glitches + 1

\* Before the first transition, and in the exception handler itself, they leave
\* the handler and the queue retries; in between they reach the handler.
ScanGlitch(w) ==
  /\ Glitch
  /\ work[w].pc = "handling"
  /\ IF scan[w].pc \in {"begin", "except", "failclosed"}
     THEN Raises(w)
     ELSE Goto(w, "except") /\ UNCHANGED queueVars
  /\ UNCHANGED <<objectVars, submits, mt, boot>>

\* Swallowed by the queue.
DeadLetterGlitch(w) ==
  /\ Glitch
  /\ DeadLetterDone(w)
  /\ scan' = [scan EXCEPT ![w] = NoScan]
  /\ UNCHANGED <<objectVars, submits, mt, boot>>

\* Submitting fails: the request answers 500 after its transition committed.
SubmitGlitch(o) ==
  /\ Glitch
  /\ boot = Serving
  /\ submits[o] > 0
  /\ submits' = [submits EXCEPT ![o] = @ - 1]
  /\ UNCHANGED <<queueVars, objectVars, scan, mt, boot>>

\* The maintenance thread logs the exception and waits for its next turn.
SweepGlitch ==
  /\ Glitch
  /\ mt # NoSweep
  /\ mt' = NoSweep
  /\ UNCHANGED <<queueVars, objectVars, scan, submits, boot>>

------------------------------------------------------------------------------
(* run_maintenance(): three sweeps over rows read beforehand.  A transition *)
(* that is no longer allowed raises and ends the whole run.                *)

Sweep(pc, S) == [NoSweep EXCEPT !.pc = pc, !.todo = S]
Swept(o) == [mt EXCEPT !.todo = @ \ {o}]

\* Mutant: rejected objects are kept for ever.
StartExpiringSome ==
  /\ boot = Serving
  /\ mt.pc = "idle"
  /\ mt' = Sweep("expire", {o \in Objects : /\ due[o]
                                            /\ row[o].state # "rejected"
                                            /\ CanMove(o, "expired")})
  /\ UNCHANGED <<queueVars, objectVars, scan, submits, boot, glitches>>

StartExpiring ==
  /\ boot = Serving
  /\ mt.pc = "idle"
  /\ mt' = Sweep("expire", {o \in Objects : due[o] /\ CanMove(o, "expired")})
  /\ UNCHANGED <<queueVars, objectVars, scan, submits, boot, glitches>>

\* Several states may expire, so what transition() read may be out of date when
\* it writes: WHERE state=? then fails although the new state may expire as well.
ReadDue(o) ==
  /\ mt.pc = "expire" /\ o \in mt.todo
  /\ mt' = IF CanMove(o, "expired")
           THEN [Swept(o) EXCEPT !.pc = "expiring", !.current = o, !.seen = row[o].state]
           ELSE NoSweep
  /\ UNCHANGED <<queueVars, objectVars, scan, submits, boot, glitches>>

ExpireDue ==
  /\ mt.pc = "expiring"
  /\ IF row[mt.current].state = mt.seen
     THEN Transition(mt.current, "expired") /\ mt' = Sweep("expire", mt.todo)
     ELSE mt' = NoSweep /\ UNCHANGED <<row, stale>>
  /\ UNCHANGED <<queueVars, file, relDir, due, scan, submits, boot, glitches>>

\* Mutant: no scan ever times out.
NoTimeouts ==
  /\ mt.pc = "expire" /\ mt.todo = {}
  /\ mt' = Sweep("timeout", {})
  /\ UNCHANGED <<queueVars, objectVars, scan, submits, boot, glitches>>

StartTimeouts ==
  /\ mt.pc = "expire" /\ mt.todo = {}
  /\ mt' = Sweep("timeout", {o \in Objects : row[o].state = "scanning" /\ stale[o]})
  /\ UNCHANGED <<queueVars, objectVars, scan, submits, boot, glitches>>

TimeOutScan(o) ==
  /\ mt.pc = "timeout" /\ o \in mt.todo
  /\ IF CanMove(o, "quarantined")
     THEN Transition(o, "quarantined") /\ mt' = Swept(o)
     ELSE mt' = NoSweep /\ UNCHANGED <<row, stale>>
  /\ UNCHANGED <<queueVars, file, relDir, due, scan, submits, boot, glitches>>

StartPurge ==
  /\ mt.pc = "timeout" /\ mt.todo = {}
  /\ mt' = [Sweep("purge", {o \in Objects : /\ row[o].state = "expired"
                                            /\ stale[o]
                                            /\ row[o].path # "none"})
              EXCEPT !.paths = [o \in Objects |-> row[o].path]]
  /\ UNCHANGED <<queueVars, objectVars, scan, submits, boot, glitches>>

\* _purge_payload(): the file at the path read above, and its directory.
PurgePayload(o) ==
  /\ mt.pc = "purge" /\ o \in mt.todo
  /\ file' = [file EXCEPT ![o] = IF @ = mt.paths[o] THEN "none" ELSE @]
  /\ relDir' = [relDir EXCEPT ![o] = @ /\ mt.paths[o] # "released"]
  /\ mt' = [mt EXCEPT !.pc = "clear", !.current = o]
  /\ UNCHANGED <<queueVars, row, due, stale, scan, submits, boot, glitches>>

\* UPDATE objects SET storage_path='' WHERE id=?
ClearPath ==
  /\ mt.pc = "clear"
  /\ row' = [row EXCEPT ![mt.current].path = "none"]
  /\ mt' = [Swept(mt.current) EXCEPT !.pc = "purge", !.current = NoObject]
  /\ UNCHANGED <<queueVars, file, relDir, due, stale, scan, submits, boot, glitches>>

\* queue.purge_completed() closes the run.
EndSweep ==
  /\ mt.pc = "purge" /\ mt.todo = {}
  /\ PurgeCompleted \/ UNCHANGED queueVars
  /\ mt' = NoSweep
  /\ UNCHANGED <<objectVars, scan, submits, boot, glitches>>

------------------------------------------------------------------------------
(* Time.                                                                   *)

BecomesDue(o) ==
  /\ row[o].state # "absent" /\ ~due[o]
  /\ due' = [due EXCEPT ![o] = TRUE]
  /\ UNCHANGED <<queueVars, row, file, relDir, stale, scan, submits, mt, boot, glitches>>

BecomesStale(o) ==
  /\ row[o].state \in {"scanning", "expired"} /\ ~stale[o]
  /\ stale' = [stale EXCEPT ![o] = TRUE]
  /\ UNCHANGED <<queueVars, row, file, relDir, due, scan, submits, mt, boot, glitches>>

QueueTime(i) ==
  /\ BackoffElapses(i) \/ LeaseLapses(i)
  /\ UNCHANGED inboundVars

LeaseStep(w) ==
  /\ Heartbeat(w) \/ (Calm /\ LeaseLost(w))
  /\ UNCHANGED inboundVars

WorkerDies(w) ==
  /\ Calm
  /\ ThreadDies(w)
  /\ UNCHANGED inboundVars

------------------------------------------------------------------------------
(* Crash and start-up.                                                     *)

\* Rows and files survive; threads, requests and the sweep do not.
Forget == /\ scan' = [w \in Workers |-> NoScan]
          /\ submits' = [o \in Objects |-> 0]
          /\ mt' = NoSweep
          /\ boot' = Down

SystemCrash ==
  /\ Calm
  /\ Crash
  /\ Forget
  /\ UNCHANGED <<objectVars, glitches>>

\* Mutant: missing payloads are skipped.
HardenLeniently ==
  /\ boot.pc = "down"
  /\ boot' = [boot EXCEPT !.pc = "hardened"]
  /\ UNCHANGED <<queueVars, objectVars, scan, submits, mt, glitches>>

\* harden_existing_storage_permissions(): every path that is set must have its
\* payload, or main() exits.
Harden ==
  /\ boot.pc = "down"
  /\ boot' = [boot EXCEPT !.pc =
                IF \A o \in Objects : row[o].path # "none" => file[o] = row[o].path
                THEN "hardened" ELSE "refused"]
  /\ UNCHANGED <<queueVars, objectVars, scan, submits, mt, glitches>>

\* queue.start(): the workers run from here on.
StartQueue ==
  /\ boot.pc = "hardened"
  /\ Start
  /\ boot' = [boot EXCEPT !.pc = "started"]
  /\ UNCHANGED <<objectVars, scan, submits, mt, glitches>>

\* recover_interrupted_jobs(): the scanning rows, then the pending rows.
StartRecovery ==
  /\ boot.pc = "started"
  /\ boot' = [pc |-> "recover", todo |-> {o \in Objects : row[o].state = "scanning"}]
  /\ UNCHANGED <<queueVars, objectVars, scan, submits, mt, glitches>>

RecoverScanning(o) ==
  /\ boot.pc = "recover" /\ o \in boot.todo
  /\ Transition(o, "quarantined")
  /\ boot' = [boot EXCEPT !.todo = @ \ {o}]
  /\ UNCHANGED <<queueVars, file, relDir, due, scan, submits, mt, glitches>>

\* The transition raises out of main() if a worker was faster.  At most one such
\* exit per object follows a crash, so MaxFaults = MaxTroubles + Cardinality(Objects)
\* hides none.
RecoveryRaises(o) ==
  /\ boot.pc = "recover" /\ o \in boot.todo
  /\ ~CanMove(o, "quarantined")
  /\ Crash
  /\ Forget
  /\ UNCHANGED <<objectVars, glitches>>

StartResubmitting ==
  /\ boot.pc = "recover" /\ boot.todo = {}
  /\ boot' = [pc |-> "resubmit", todo |-> {o \in Objects : row[o].state = "pending_scan"}]
  /\ UNCHANGED <<queueVars, objectVars, scan, submits, mt, glitches>>

\* Mutant: the pending rows are counted, not submitted.
ResubmitSkipped(o) ==
  /\ boot.pc = "resubmit" /\ o \in boot.todo
  /\ boot' = [boot EXCEPT !.todo = @ \ {o}]
  /\ UNCHANGED <<queueVars, objectVars, scan, submits, mt, glitches>>

Resubmit(o) ==
  /\ boot.pc = "resubmit" /\ o \in boot.todo
  /\ Submit(o)
  /\ boot' = [boot EXCEPT !.todo = @ \ {o}]
  /\ UNCHANGED <<objectVars, scan, submits, mt, glitches>>

StartServing ==
  /\ boot.pc = "resubmit" /\ boot.todo = {}
  /\ boot' = Serving
  /\ UNCHANGED <<queueVars, objectVars, scan, submits, mt, glitches>>

------------------------------------------------------------------------------

ScanStep(w) ==
  \/ BeginScan(w) \/ ReadObject(w) \/ RunScanners(w) \/ MakeReleaseDir(w) \/ MovePayload(w)
  \/ Repath(w) \/ ConcludeScan(w) \/ FailScan(w) \/ FailClosed(w)

OutcomeStep(w) == Settled(w) \/ GiveUp(w) \/ ClaimDeadLetter(w) \/ CondemnDeadLetter(w)

SweepStep == \/ StartExpiring \/ ExpireDue \/ StartTimeouts \/ StartPurge \/ ClearPath \/ EndSweep
             \/ \E o \in Objects : ReadDue(o) \/ TimeOutScan(o) \/ PurgePayload(o)

BootStep == \/ Harden \/ StartQueue \/ StartRecovery \/ StartResubmitting \/ StartServing
            \/ \E o \in Objects : RecoverScanning(o) \/ RecoveryRaises(o) \/ Resubmit(o)

SystemNext ==
  \/ \E o \in Objects : \/ Upload(o) \/ Rescan(o) \/ SubmitScan(o) \/ SubmitGlitch(o)
                        \/ Expire(o) \/ BecomesDue(o) \/ BecomesStale(o)
  \/ \E w \in Workers : \/ Take(w) \/ ScanStep(w) \/ OutcomeStep(w)
                        \/ ScanGlitch(w) \/ DeadLetterGlitch(w)
                        \/ LeaseStep(w) \/ WorkerDies(w)
  \/ \E i \in JobIds : QueueTime(i)
  \/ SweepStep \/ SweepGlitch \/ BootStep \/ SystemCrash

SystemSpec == SystemInit /\ [][SystemNext]_systemVars

\* Live threads are scheduled, the sweep comes round, a stopped service is
\* started, time passes; requests, faults and exceptions need not happen.
SystemFairness ==
  /\ \A w \in Workers : /\ WF_systemVars(Take(w))
                        /\ WF_systemVars(ScanStep(w))
                        /\ WF_systemVars(OutcomeStep(w))
  /\ \A o \in Objects : /\ WF_systemVars(SubmitScan(o))
                        /\ WF_systemVars(BecomesDue(o))
                        /\ WF_systemVars(BecomesStale(o))
  /\ \A i \in JobIds : WF_systemVars(QueueTime(i))
  /\ WF_systemVars(SweepStep)
  /\ WF_systemVars(BootStep)

FairSystemSpec == SystemSpec /\ SystemFairness

------------------------------------------------------------------------------
(* Properties.                                                             *)

SystemTypeOK ==
  /\ TypeOK
  /\ row \in [Objects -> [state: DOMAIN ALLOWED_TRANSITIONS, path: Places]]
  /\ file \in [Objects -> Places]
  /\ relDir \in [Objects -> BOOLEAN]
  /\ due \in [Objects -> BOOLEAN]
  /\ stale \in [Objects -> BOOLEAN]
  /\ scan \in [Workers ->
       [pc: {"none", "begin", "read", "scan", "mkdir", "move", "repath", "conclude",
             "except", "failclosed", "claim", "condemn"},
        path: Places, target: {"none", "released", "quarantined", "rejected"}]]
  /\ submits \in [Objects -> 0..(MaxSubmits + 1)]
  /\ mt \in [pc: {"idle", "expire", "expiring", "timeout", "purge", "clear"},
             todo: SUBSET Objects, paths: [Objects -> Places],
             current: Objects \cup {NoObject}, seen: DOMAIN ALLOWED_TRANSITIONS]
  /\ boot \in [pc: {"serving", "down", "hardened", "refused", "started", "recover",
                    "resubmit"},
               todo: SUBSET Objects]
  /\ glitches \in 0..MaxTroubles

ObjectStates == [o \in Objects |-> row[o].state]

LC == INSTANCE ObjectLifecycle WITH state <- ObjectStates, payload <- file

\* Through duplicate deliveries, lost leases, timeouts, recovery and dead letters
\* an object only moves along its life cycle, is released only with its payload in
\* the release area, and loses its payload only after it expired.
ImplementsLifecycle == LC!Spec

\* What downloads rely on: a released object has its payload where its row says,
\* and that is the release area.
ReleasedIsServable ==
  \A o \in Objects : row[o].state = "released" => row[o].path = "released"
                                                  /\ file[o] = "released"

\* Unless storage raised an error, a process that runs knows where every payload
\* is: row and file disagree only while one thread is between the two steps that
\* change them, also when timeouts, lost leases and purges overlap with scans.
PayloadsAccountedFor ==
  (up /\ glitches = 0) =>
    \A o \in Objects :
      (row[o].path # "none" /\ file[o] # row[o].path) =>
        \/ \E w \in Workers : At(w, "repath") /\ ObjectOf(w) = o
        \/ mt.pc = "clear" /\ mt.current = o

\* Where a payload is, while scans, lost leases, timeouts, purges, crashes and a failing
\* file system overlap: the state keeps its type, what is released can be served, and
\* row and file disagree only for a step of one thread, or after storage failed.
SystemInv == SystemTypeOK /\ ReleasedIsServable /\ PayloadsAccountedFor

\* "State transition checks independently prevent a duplicate release" (jobs.py)
\* when two workers hold the same job: creating the release directory admits one.
\* One exception: of three scans that lost their leases one has released the object and it
\* has expired; the sweep fails between unlinking the payload and clearing its path, and the
\* repeated purge takes away the directory a late scan has just made.  Then there is no
\* payload left to move.
OneReleaserAtATime ==
  \A v, w \in Workers :
    (/\ v # w
     /\ scan[v].pc \in {"move", "repath"}
     /\ scan[w].pc \in {"move", "repath"}
     /\ ObjectOf(v) = ObjectOf(w)) =>
       /\ glitches > 0 /\ row[ObjectOf(v)].state = "expired"
       /\ file[ObjectOf(v)] = "none"

HasJob(o) == \/ \E i \in JobIds : Active(i) /\ jobs[i].obj = o
             \/ \E w \in Workers : work[w].pc = "deadletter" /\ ObjectOf(w) = o

\* Recovery forgets no pending object, although the workers run while it works:
\* when the service begins to serve, each has a job or is being dead-lettered.
RecoveryForgetsNothing ==
  [][(boot.pc = "resubmit" /\ boot' = Serving /\ glitches = 0) =>
       \A o \in Objects : row[o].state = "pending_scan" => HasJob(o)]_systemVars

\* A scan that hangs, dies or loses its worker is ended by the sweep or by
\* recovery ("stale scans fail closed", README), unless start-up is refused.
ScansEnd ==
  \A o \in Objects :
    (row[o].state = "scanning") ~> (row[o].state # "scanning" \/ boot.pc = "refused")

\* An object past its retention expires, whatever it is going through.
DueObjectsExpire ==
  \A o \in Objects : due[o] ~> (row[o].state = "expired" \/ boot.pc = "refused")

\* A claim of the console that does not hold.

\* src/src/sfss/web/app.js:249: the console reports the rescan as submitted.
PendingObjectsHaveAJob ==
  (boot = Serving /\ glitches = 0) =>
    \A o \in Objects : row[o].state = "pending_scan" => submits[o] > 0 \/ HasJob(o)
==============================================================================
