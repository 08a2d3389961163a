------------------------------- MODULE Outbound -------------------------------
(***************************************************************************)
(* The outbound (red to green) transfer service of src/src/sfss/service.py *)
(* with its approval provider (approvals.py), the callbacks of the relay   *)
(* (server.py), the maintenance sweep, crashes and start-up.               *)
(*                                                                         *)
(* row[t] is the outbound_transfers row, file[t] where its payload really  *)
(* is, greenDir[t] whether its directory in the green buffer exists.       *)
(* outbound_transition is one guarded transaction; every step across the   *)
(* file system stands alone, so do reads whose result is used later.       *)
(*                                                                         *)
(* The clock is late[t]: the deadline of the state the transfer is in has  *)
(* passed (scan timeout, approval deadline, download deadline, retention   *)
(* or purge grace, see Overdue and the sweeps).  Jobs reach the workers    *)
(* through JobQueue, of which only this is used: a pending transfer may be *)
(* claimed by any worker.                                                  *)
(***************************************************************************)
EXTENDS Naturals, FiniteSets

CONSTANTS Transfers,
          Workers,        \* scan worker threads
          Requests,       \* request threads that decide or deliver callbacks
          Sweeper,        \* the maintenance thread
          Persons,        \* the human approvers of the portal
          RelayUsers,     \* those whose decisions the approval relay delivers
          Nobody,         \* approval_actor NULL
          RowHasProject,  \* does an outbound_transfers row have the project_id
                          \* that approvals.py:48 reads?  Not in this schema.
          MaxFaults,      \* bound of the model: crashes and glitches together
          MaxGlitches     \* bound of the model: glitches, which are exceptions out of
                          \* storage, a scanner or the database

\* Each relay event carries one decision of one person on one transfer: the body an
\* event_id is bound to by its stored hash.
Events == [by: RelayUsers, on: Transfers, approves: BOOLEAN]
ASSUME OutboundConstants ==
  /\ Sweeper \notin Requests
  /\ Nobody \notin Persons
  /\ (Persons \cup {Nobody}) \cap Events = {}
  /\ RowHasProject \in BOOLEAN
  /\ MaxFaults \in Nat /\ MaxGlitches \in Nat

VARIABLES policy,    \* the outbound_policy row; permits: enabled, classification allowed
          row, file, greenDir, late,
          relay,     \* the transfers the approval relay was ever asked about
          scanner,   \* the locals of scan_outbound, per worker
          caller,    \* the locals of decisions, callbacks and releases, per thread
          events,    \* approval_callback_events.outcome
          mt,        \* the maintenance sweep
          boot,      \* the start-up sequence
          crashes, glitches

vars == <<policy, row, file, greenDir, late, relay,
          scanner, caller, events, mt, boot, crashes, glitches>>
rowVars   == <<row, late>>
diskVars  == <<file, greenDir>>
worldVars == <<policy, relay>>

OUTBOUND_TRANSITIONS ==
  [absent            |-> {},
   pending_scan      |-> {"scanning", "expired"},
   scanning          |-> {"quarantined", "classified"},
   quarantined       |-> {"pending_scan", "expired"},
   classified        |-> {"pending_approval", "quarantined"},
   pending_approval  |-> {"approved", "approval_rejected", "expired"},
   approved          |-> {"released_to_green", "expired"},
   approval_rejected |-> {"expired"},
   released_to_green |-> {"expired"},
   expired           |-> {}]

Providers == {"local", "wecom"}
Places    == {"none", "isolation", "green"}
Callers   == Requests \cup {Sweeper}

\* approval_actor: a human approver, or wecom:<actor>:<event_id>.
Deciders == Persons \cup Events

NoRow   == [state |-> "absent", path |-> "none", provider |-> "local",
            approval |-> "none", actor |-> Nobody]
Idle    == [pc |-> "idle", on |-> "none", provider |-> "none"]
NoCall  == [pc |-> "idle", on |-> "none", event |-> Nobody, src |-> "none"]
NoPaths == [t \in Transfers |-> "none"]
NoSweep == [pc |-> "idle", todo |-> {}, paths |-> NoPaths, current |-> "none",
            seen |-> "absent"]
Serving == [pc |-> "serving", todo |-> {}]

Init ==
  /\ policy = [permits |-> TRUE, provider |-> "local"]
  /\ row = [t \in Transfers |-> NoRow]
  /\ file = [t \in Transfers |-> "none"]
  /\ greenDir = [t \in Transfers |-> FALSE]
  /\ late = [t \in Transfers |-> FALSE]
  /\ relay = {}
  /\ scanner = [w \in Workers |-> Idle]
  /\ caller = [c \in Callers |-> NoCall]
  /\ events = [e \in Events |-> "none"]
  /\ mt = NoSweep
  /\ boot = Serving
  /\ crashes = 0 /\ glitches = 0

------------------------------------------------------------------------------
(* outbound_transition(): UPDATE ... WHERE id=? AND state=?, with its audit *)
(* event.                                                                  *)

CanMove(t, s) == s \in OUTBOUND_TRANSITIONS[row[t].state]

Moved(t, s) == [row EXCEPT ![t].state = s]

Punctual(t) == late' = [late EXCEPT ![t] = FALSE]

Transition(t, s) ==
  /\ CanMove(t, s)
  /\ row' = Moved(t, s)
  /\ Punctual(t)

------------------------------------------------------------------------------
(* Requests that are one transaction.                                      *)

SetPolicy(p) ==
  /\ boot = Serving
  /\ policy' = p
  /\ UNCHANGED <<rowVars, diskVars, relay, scanner, caller, events, mt, boot, crashes, glitches>>

\* upload_outbound(): the provider is the one of the policy at upload.
Upload(t) ==
  /\ boot = Serving
  /\ policy.permits
  /\ row[t].state = "absent"
  /\ row' = [row EXCEPT ![t] = [NoRow EXCEPT !.state = "pending_scan", !.path = "isolation",
                                             !.provider = policy.provider]]
  /\ file' = [file EXCEPT ![t] = "isolation"]
  /\ UNCHANGED <<worldVars, greenDir, late, scanner, caller, events, mt, boot, crashes, glitches>>

Rescan(t) ==
  /\ boot = Serving
  /\ row[t].state = "quarantined"
  /\ Transition(t, "pending_scan")
  /\ UNCHANGED <<worldVars, diskVars, scanner, caller, events, mt, boot, crashes, glitches>>

\* expire_outbound() by an administrator; outbound_for_download() past the deadline
\* or with a payload that is no longer intact.
Expire(t) ==
  /\ boot = Serving
  /\ Transition(t, "expired")
  /\ UNCHANGED <<worldVars, diskVars, scanner, caller, events, mt, boot, crashes, glitches>>

------------------------------------------------------------------------------
(* scan_outbound(), in a worker thread.                                    *)

ScanAt(w, pc) == scanner[w].pc = pc
ScanGoto(w, pc) == scanner' = [scanner EXCEPT ![w].pc = pc]
ScanEnds(w) == scanner' = [scanner EXCEPT ![w] = Idle]
Scanned(w) == scanner[w].on

\* A transfer that is not pending is a duplicate delivery and ignored.
BeginScan(w, t) ==
  /\ boot.pc \in {"started", "recover", "serving"}
  /\ ScanAt(w, "idle")
  /\ row[t].state = "pending_scan"
  /\ Transition(t, "scanning")
  /\ scanner' = [scanner EXCEPT ![w] = [Idle EXCEPT !.pc = "judge", !.on = t]]
  /\ UNCHANGED <<worldVars, diskVars, caller, events, mt, boot, crashes, glitches>>

\* Payload, scanners, classifier and policy have to agree; the provider that will
\* be asked is that of the policy read here, not that of the row.
Judge(w) ==
  /\ ScanAt(w, "judge")
  /\ \/ /\ policy.permits
        /\ file[Scanned(w)] = "isolation" /\ row[Scanned(w)].path = "isolation"
        /\ scanner' = [scanner EXCEPT ![w].pc = "classify", ![w].provider = policy.provider]
     \/ ScanGoto(w, "hold")
  /\ UNCHANGED <<worldVars, rowVars, diskVars, caller, events, mt, boot, crashes, glitches>>

Hold(w) ==
  /\ ScanAt(w, "hold")
  /\ IF CanMove(Scanned(w), "quarantined")
     THEN Transition(Scanned(w), "quarantined") /\ ScanEnds(w)
     ELSE ScanGoto(w, "except") /\ UNCHANGED rowVars
  /\ UNCHANGED <<worldVars, diskVars, caller, events, mt, boot, crashes, glitches>>

Classify(w) ==
  /\ ScanAt(w, "classify")
  /\ IF CanMove(Scanned(w), "classified")
     THEN Transition(Scanned(w), "classified") /\ ScanGoto(w, "create")
     ELSE ScanGoto(w, "except") /\ UNCHANGED rowVars
  /\ UNCHANGED <<worldVars, diskVars, caller, events, mt, boot, crashes, glitches>>

\* provider.create(): local needs nothing; wecom reads project_id from the row, then
\* asks the relay, whose answer may be no, or lost.
CreateApproval(w) ==
  /\ ScanAt(w, "create")
  /\ \/ scanner[w].provider = "local" /\ ScanGoto(w, "submit") /\ UNCHANGED relay
     \/ /\ scanner[w].provider = "wecom" /\ ~RowHasProject
        /\ ScanGoto(w, "uncreated")
        /\ UNCHANGED relay
     \/ /\ scanner[w].provider = "wecom" /\ RowHasProject
        /\ relay' = relay \cup {Scanned(w)}
        /\ ScanGoto(w, "submit") \/ ScanGoto(w, "uncreated")
  /\ UNCHANGED <<policy, rowVars, diskVars, caller, events, mt, boot, crashes, glitches>>

\* The approval id and the approval deadline come with the transition.
SubmitApproval(w) ==
  /\ ScanAt(w, "submit")
  /\ IF CanMove(Scanned(w), "pending_approval")
     THEN /\ row' = [row EXCEPT ![Scanned(w)].state = "pending_approval",
                                ![Scanned(w)].approval = scanner[w].provider]
          /\ Punctual(Scanned(w))
          /\ ScanEnds(w)
     ELSE ScanGoto(w, "except") /\ UNCHANGED rowVars
  /\ UNCHANGED <<worldVars, diskVars, caller, events, mt, boot, crashes, glitches>>

\* The exception handler reads the state ...
FailScan(w) ==
  /\ scanner[w].pc \in {"except", "uncreated"}
  /\ IF row[Scanned(w)].state \in {"scanning", "classified"}
     THEN ScanGoto(w, "failclosed") ELSE ScanEnds(w)
  /\ UNCHANGED <<worldVars, rowVars, diskVars, caller, events, mt, boot, crashes, glitches>>

\* ... and quarantines, or raises if the transfer has moved on in between.
FailClosed(w) ==
  /\ ScanAt(w, "failclosed")
  /\ IF CanMove(Scanned(w), "quarantined")
     THEN Transition(Scanned(w), "quarantined")
     ELSE UNCHANGED rowVars
  /\ ScanEnds(w)
  /\ UNCHANGED <<worldVars, diskVars, caller, events, mt, boot, crashes, glitches>>

FaultLeft == crashes + glitches < MaxFaults

Glitch == /\ FaultLeft /\ glitches < MaxGlitches
          /\ glitches' = glitches + 1
          /\ UNCHANGED crashes

\* An exception; out of the handler itself it leaves the transfer as it is.
ScanGlitch(w) ==
  /\ Glitch
  /\ \/ /\ scanner[w].pc \in {"judge", "hold", "classify", "create", "submit"}
        /\ ScanGoto(w, "except")
     \/ scanner[w].pc \in {"except", "uncreated", "failclosed"} /\ ScanEnds(w)
  /\ UNCHANGED <<worldVars, rowVars, diskVars, caller, events, mt, boot>>

\* The queue gives a job up: fail_scan_job() claims a pending transfer ...
DeadLetter(w, t) ==
  /\ Glitch
  /\ boot.pc \in {"started", "recover", "serving"}
  /\ ScanAt(w, "idle")
  /\ row[t].state # "absent"
  /\ IF row[t].state = "pending_scan" THEN Transition(t, "scanning") ELSE UNCHANGED rowVars
  /\ scanner' = [scanner EXCEPT ![w] = [Idle EXCEPT !.pc = "except", !.on = t]]
  /\ UNCHANGED <<worldVars, diskVars, caller, events, mt, boot>>

------------------------------------------------------------------------------
(* decide_outbound(), process_approval_callback() and                       *)
(* release_approved_outbound(): c is a request thread, or the maintenance   *)
(* thread retrying a release.                                               *)

CallAt(c, pc) == caller[c].pc = pc
CallGoto(c, pc) == caller' = [caller EXCEPT ![c].pc = pc]
Target(c) == caller[c].on

\* The call returns ("done"), raises a ServiceError ("refused") or something else
\* ("raised").  A callback then records its outcome, the sweep reacts, and a
\* decision just answers.
CallEnds(c, how) ==
  caller' = [caller EXCEPT ![c] =
    IF @.event \in Events
    THEN [@ EXCEPT !.pc = IF how = "done" THEN "processed" ELSE "error"]
    ELSE IF c = Sweeper THEN [@ EXCEPT !.pc = how] ELSE NoCall]

PolicyAllows(t) == policy.permits /\ policy.provider = row[t].provider

\* What a decision on a pending transfer does next.
Course(t, approves) ==
  IF late[t] THEN "lapse" ELSE IF approves THEN "verify" ELSE "reject"

Decide(c, t) ==
  /\ boot = Serving
  /\ caller[c] = NoCall
  /\ row[t].state = "pending_approval"
  /\ row[t].provider = "local"
  /\ PolicyAllows(t)
  /\ \E approves \in BOOLEAN, person \in Persons :
       caller' = [caller EXCEPT ![c] = [NoCall EXCEPT !.pc = Course(t, approves), !.on = t,
                                                      !.event = person]]
  /\ UNCHANGED <<worldVars, rowVars, diskVars, scanner, events, mt, boot, crashes, glitches>>

\* The relay delivers an event, for the first time or again, while earlier
\* deliveries may still be at work: a processed event is a duplicate.
Callback(c, e) ==
  /\ boot = Serving
  /\ caller[c] = NoCall
  /\ row[e.on].approval = "wecom" /\ row[e.on].provider = "wecom"
  /\ events[e] # "processed"
  /\ events' = [events EXCEPT ![e] = IF @ = "none" THEN "processing" ELSE @]
  /\ caller' = [caller EXCEPT ![c] = [NoCall EXCEPT !.pc = "dispatch", !.on = e.on, !.event = e]]
  /\ UNCHANGED <<worldVars, rowVars, diskVars, scanner, mt, boot, crashes, glitches>>

\* Mutant: a decision that comes too late counts as processed.
DispatchLoosely(c) ==
  /\ CallAt(c, "dispatch")
  /\ LET t == Target(c)  s == row[t].state  e == caller[c].event IN
     \/ s = "approved" /\ e.approves /\ CallGoto(c, "release")
     \/ s = "pending_approval" /\ PolicyAllows(t) /\ CallGoto(c, Course(t, e.approves))
     \/ s \notin {"approved", "pending_approval"} /\ CallEnds(c, "done")
  /\ UNCHANGED <<worldVars, rowVars, diskVars, scanner, events, mt, boot, crashes, glitches>>

\* The event meets whatever the transfer has become.
Dispatch(c) ==
  /\ CallAt(c, "dispatch")
  /\ LET t == Target(c)  s == row[t].state  e == caller[c].event IN
     \/ s = "approved" /\ e.approves /\ CallGoto(c, "release")
     \/ /\ <<s, e.approves>> \in {<<"released_to_green", TRUE>>, <<"approval_rejected", FALSE>>}
        /\ CallEnds(c, IF row[t].actor = e THEN "done" ELSE "refused")
     \/ /\ s = "pending_approval" /\ PolicyAllows(t)
        /\ CallGoto(c, Course(t, e.approves))
     \/ /\ <<s, e.approves>> \notin {<<"approved", TRUE>>, <<"released_to_green", TRUE>>,
                                     <<"approval_rejected", FALSE>>}
        /\ ~(s = "pending_approval" /\ PolicyAllows(t))
        /\ CallEnds(c, "refused")
  /\ UNCHANGED <<worldVars, rowVars, diskVars, scanner, events, mt, boot, crashes, glitches>>

\* outbound_transition(.., "expired") after the call read state s: it takes the
\* transfer as it is by then, or raises when that changed under its hands.
ExpireFrom(c, s, then, by) ==
  LET t == Target(c) IN
  \/ /\ CanMove(t, "expired")
     /\ row' = [Moved(t, "expired") EXCEPT ![t].actor = IF by = Nobody THEN @ ELSE by]
     /\ Punctual(t)
     /\ CallEnds(c, then)
  \/ row[t].state # s /\ CallEnds(c, "raised") /\ UNCHANGED rowVars

\* The approval deadline had passed.
Lapse(c) ==
  /\ CallAt(c, "lapse")
  /\ ExpireFrom(c, "pending_approval", "refused", Nobody)
  /\ UNCHANGED <<worldVars, diskVars, scanner, events, mt, boot, crashes, glitches>>

Reject(c) ==
  /\ CallAt(c, "reject")
  /\ LET t == Target(c) IN
     IF CanMove(t, "approval_rejected")
     THEN /\ row' = [row EXCEPT ![t].state = "approval_rejected",
                                ![t].actor = caller[c].event]
          /\ Punctual(t)
          /\ CallEnds(c, "done")
     ELSE CallEnds(c, "raised") /\ UNCHANGED rowVars
  /\ UNCHANGED <<worldVars, diskVars, scanner, events, mt, boot, crashes, glitches>>

\* The payload is rehashed at the path that was read with the pending transfer.
Verify(c) ==
  /\ CallAt(c, "verify")
  /\ CallGoto(c, IF file[Target(c)] = "isolation" THEN "approve" ELSE "condemn")
  /\ UNCHANGED <<worldVars, rowVars, diskVars, scanner, events, mt, boot, crashes, glitches>>

\* "integrity verification failed before approval"
Condemn(c) ==
  /\ CallAt(c, "condemn")
  /\ ExpireFrom(c, "pending_approval", "refused", caller[c].event)
  /\ UNCHANGED <<worldVars, diskVars, scanner, events, mt, boot, crashes, glitches>>

\* Mutant: WHERE id=? alone.
ApproveUnguarded(c) ==
  /\ CallAt(c, "approve")
  /\ row' = [row EXCEPT ![Target(c)].state = "approved", ![Target(c)].actor = caller[c].event]
  /\ Punctual(Target(c))
  /\ CallGoto(c, "release")
  /\ UNCHANGED <<worldVars, diskVars, scanner, events, mt, boot, crashes, glitches>>

\* The decision is durable before the payload moves.
Approve(c) ==
  /\ CallAt(c, "approve")
  /\ LET t == Target(c) IN
     IF CanMove(t, "approved")
     THEN /\ row' = [row EXCEPT ![t].state = "approved", ![t].actor = caller[c].event]
          /\ Punctual(t)
          /\ CallGoto(c, "release")
     ELSE CallEnds(c, "raised") /\ UNCHANGED rowVars
  /\ UNCHANGED <<worldVars, diskVars, scanner, events, mt, boot, crashes, glitches>>

\* release_approved_outbound(): only an approved transfer the policy still allows,
\* into a directory that may exist from an earlier attempt.  Left out: the gate of a
\* production service, require_runtime_acceptance(), which lets all calls pass elsewhere.
Release(c) ==
  /\ CallAt(c, "release")
  /\ LET t == Target(c) IN
     \/ row[t].state = "released_to_green" /\ CallEnds(c, "done") /\ UNCHANGED greenDir
     \/ /\ row[t].state \notin {"approved", "released_to_green"}
        /\ CallEnds(c, "refused")
        /\ UNCHANGED greenDir
     \/ /\ row[t].state = "approved" /\ ~PolicyAllows(t)
        /\ CallGoto(c, "revoke")
        /\ UNCHANGED greenDir
     \/ /\ row[t].state = "approved" /\ PolicyAllows(t)
        /\ greenDir' = [greenDir EXCEPT ![t] = TRUE]
        /\ caller' = [caller EXCEPT ![c].pc = "locate", ![c].src = row[t].path]
  /\ UNCHANGED <<worldVars, rowVars, file, scanner, events, mt, boot, crashes, glitches>>

\* Mutant: the call raises without revoking the approval.
RevokeForgotten(c) ==
  /\ CallAt(c, "revoke")
  /\ CallEnds(c, "raised")
  /\ UNCHANGED <<worldVars, rowVars, diskVars, scanner, events, mt, boot, crashes, glitches>>

Revoke(c) ==
  /\ CallAt(c, "revoke")
  /\ ExpireFrom(c, "approved", "refused", Nobody)
  /\ UNCHANGED <<worldVars, diskVars, scanner, events, mt, boot, crashes, glitches>>

\* target.exists(): an intact payload already in the buffer is taken over.
Locate(c) ==
  /\ CallAt(c, "locate")
  /\ CallGoto(c, IF caller[c].src = "green" THEN "seal"
                 ELSE IF file[Target(c)] = "green" THEN "repath" ELSE "move")
  /\ UNCHANGED <<worldVars, rowVars, diskVars, scanner, events, mt, boot, crashes, glitches>>

Move(c) ==
  /\ CallAt(c, "move")
  /\ LET t == Target(c) IN
     IF file[t] = "isolation" /\ greenDir[t]
     THEN file' = [file EXCEPT ![t] = "green"] /\ CallGoto(c, "repath")
     ELSE CallGoto(c, "cleanup") /\ UNCHANGED file
  /\ UNCHANGED <<worldVars, rowVars, greenDir, scanner, events, mt, boot, crashes, glitches>>

\* After a failed move: if not target.exists() ...
CleanUp(c) ==
  /\ CallAt(c, "cleanup")
  /\ IF file[Target(c)] = "green" THEN CallEnds(c, "refused") ELSE CallGoto(c, "rmtree")
  /\ UNCHANGED <<worldVars, rowVars, diskVars, scanner, events, mt, boot, crashes, glitches>>

\* ... shutil.rmtree(target_dir).
RemoveDir(c) ==
  /\ CallAt(c, "rmtree")
  /\ greenDir' = [greenDir EXCEPT ![Target(c)] = FALSE]
  /\ file' = [file EXCEPT ![Target(c)] = IF @ = "green" THEN "none" ELSE @]
  /\ CallEnds(c, "refused")
  /\ UNCHANGED <<worldVars, rowVars, scanner, events, mt, boot, crashes, glitches>>

\* Mutant: storage_path is left as it was.
RepathForgotten(c) ==
  /\ CallAt(c, "repath")
  /\ CallGoto(c, "seal")
  /\ UNCHANGED <<worldVars, rowVars, diskVars, scanner, events, mt, boot, crashes, glitches>>

\* UPDATE .. SET storage_path=?,updated_at=? WHERE id=? AND state='approved'; nobody
\* looks at how many rows that changed.
Repath(c) ==
  /\ CallAt(c, "repath")
  /\ LET t == Target(c) IN
     IF row[t].state = "approved"
     THEN row' = [row EXCEPT ![t].path = "green"]
     ELSE UNCHANGED row
  /\ CallGoto(c, "seal")
  /\ UNCHANGED <<worldVars, late, diskVars, scanner, events, mt, boot, crashes, glitches>>

Seal(c) ==
  /\ CallAt(c, "seal")
  /\ IF file[Target(c)] = "green" THEN CallGoto(c, "settle") ELSE CallEnds(c, "raised")
  /\ UNCHANGED <<worldVars, rowVars, diskVars, scanner, events, mt, boot, crashes, glitches>>

\* The last transition, with the download deadline.
Settle(c) ==
  /\ CallAt(c, "settle")
  /\ LET t == Target(c) IN
     IF CanMove(t, "released_to_green")
     THEN Transition(t, "released_to_green") /\ CallEnds(c, "done")
     ELSE CallEnds(c, "raised") /\ UNCHANGED rowVars
  /\ UNCHANGED <<worldVars, diskVars, scanner, events, mt, boot, crashes, glitches>>

\* An exception: inside the try around the move it leads to the clean-up.
CallGlitch(c) ==
  /\ Glitch
  /\ \/ caller[c].pc \in {"locate", "move"} /\ CallGoto(c, "cleanup")
     \/ /\ caller[c].pc \in {"dispatch", "lapse", "reject", "verify", "condemn", "approve",
                             "release", "revoke", "repath", "seal", "settle"}
        /\ CallEnds(c, "raised")
  /\ UNCHANGED <<worldVars, rowVars, diskVars, scanner, events, mt, boot>>

MarkEvent(c) ==
  /\ caller[c].pc \in {"processed", "error"}
  /\ events' = [events EXCEPT ![caller[c].event] = caller[c].pc]
  /\ caller' = [caller EXCEPT ![c] = NoCall]
  /\ UNCHANGED <<worldVars, rowVars, diskVars, scanner, mt, boot, crashes, glitches>>

------------------------------------------------------------------------------
(* run_maintenance(), the outbound part.                                    *)

Sweep(pc, S) == [NoSweep EXCEPT !.pc = pc, !.todo = S]
Swept(t) == [mt EXCEPT !.todo = @ \ {t}]

\* A transition in two halves: what was read, and the guarded write.
ReadFor(t, s, pc) ==
  mt' = IF CanMove(t, s)
        THEN [Swept(t) EXCEPT !.pc = pc, !.current = t, !.seen = row[t].state]
        ELSE NoSweep

WriteRead(s, pc) ==
  IF row[mt.current].state = mt.seen
  THEN Transition(mt.current, s) /\ mt' = Sweep(pc, mt.todo)
  ELSE mt' = NoSweep /\ UNCHANGED rowVars

\* Mutant: the sweep looks for scans only.
StartTimeoutsOfScans ==
  /\ boot = Serving
  /\ mt.pc = "idle"
  /\ mt' = Sweep("timeout", {t \in Transfers : row[t].state = "scanning" /\ late[t]})
  /\ UNCHANGED <<worldVars, rowVars, diskVars, scanner, caller, events, boot, crashes, glitches>>

StartTimeouts ==
  /\ boot = Serving
  /\ mt.pc = "idle"
  /\ mt' = Sweep("timeout", {t \in Transfers : /\ row[t].state \in {"scanning", "classified"}
                                               /\ late[t]})
  /\ UNCHANGED <<worldVars, rowVars, diskVars, scanner, caller, events, boot, crashes, glitches>>

ReadStuck(t) ==
  /\ mt.pc = "timeout" /\ t \in mt.todo
  /\ ReadFor(t, "quarantined", "timing out")
  /\ UNCHANGED <<worldVars, rowVars, diskVars, scanner, caller, events, boot, crashes, glitches>>

TimeOutScan ==
  /\ mt.pc = "timing out"
  /\ WriteRead("quarantined", "timeout")
  /\ UNCHANGED <<worldVars, diskVars, scanner, caller, events, boot, crashes, glitches>>

StartReleases ==
  /\ mt.pc = "timeout" /\ mt.todo = {}
  /\ mt' = Sweep("release", {t \in Transfers : row[t].state = "approved"})
  /\ UNCHANGED <<worldVars, rowVars, diskVars, scanner, caller, events, boot, crashes, glitches>>

RetryRelease(t) ==
  /\ mt.pc = "release" /\ t \in mt.todo
  /\ caller[Sweeper] = NoCall
  /\ caller' = [caller EXCEPT ![Sweeper] = [NoCall EXCEPT !.pc = "release", !.on = t]]
  /\ mt' = Swept(t)
  /\ UNCHANGED <<worldVars, rowVars, diskVars, scanner, events, boot, crashes, glitches>>

\* except ServiceError: anything else ends the run.
ReleaseRetried ==
  /\ caller[Sweeper].pc \in {"done", "refused", "raised"}
  /\ mt' = IF caller[Sweeper].pc = "raised" THEN NoSweep ELSE mt
  /\ caller' = [caller EXCEPT ![Sweeper] = NoCall]
  /\ UNCHANGED <<worldVars, rowVars, diskVars, scanner, events, boot, crashes, glitches>>

\* Neither a transfer being scanned nor one already expired.
Overdue(t) == late[t] /\ row[t].state \notin {"absent", "scanning", "classified", "expired"}

StartExpiring ==
  /\ mt.pc = "release" /\ mt.todo = {}
  /\ caller[Sweeper] = NoCall
  /\ mt' = Sweep("expire", {t \in Transfers : Overdue(t)})
  /\ UNCHANGED <<worldVars, rowVars, diskVars, scanner, caller, events, boot, crashes, glitches>>

\* expire_outbound() takes the transfer as it finds it, whatever it was due for.
ReadDue(t) ==
  /\ mt.pc = "expire" /\ t \in mt.todo
  /\ IF row[t].state = "expired" THEN mt' = Swept(t) ELSE ReadFor(t, "expired", "expiring")
  /\ UNCHANGED <<worldVars, rowVars, diskVars, scanner, caller, events, boot, crashes, glitches>>

ExpireDue ==
  /\ mt.pc = "expiring"
  /\ WriteRead("expired", "expire")
  /\ UNCHANGED <<worldVars, diskVars, scanner, caller, events, boot, crashes, glitches>>

StartPurge ==
  /\ mt.pc = "expire" /\ mt.todo = {}
  /\ mt' = [Sweep("purge", {t \in Transfers : /\ row[t].state = "expired" /\ late[t]
                                              /\ row[t].path # "none"})
              EXCEPT !.paths = [t \in Transfers |-> row[t].path]]
  /\ UNCHANGED <<worldVars, rowVars, diskVars, scanner, caller, events, boot, crashes, glitches>>

PurgePayload(t) ==
  /\ mt.pc = "purge" /\ t \in mt.todo
  /\ file' = [file EXCEPT ![t] = IF @ = mt.paths[t] THEN "none" ELSE @]
  /\ greenDir' = [greenDir EXCEPT ![t] = @ /\ mt.paths[t] # "green"]
  /\ mt' = [mt EXCEPT !.pc = "clear", !.current = t]
  /\ UNCHANGED <<worldVars, rowVars, scanner, caller, events, boot, crashes, glitches>>

ClearPath ==
  /\ mt.pc = "clear"
  /\ row' = [row EXCEPT ![mt.current].path = "none"]
  /\ mt' = [Swept(mt.current) EXCEPT !.pc = "purge", !.current = "none"]
  /\ UNCHANGED <<worldVars, late, diskVars, scanner, caller, events, boot, crashes, glitches>>

EndSweep ==
  /\ mt.pc = "purge" /\ mt.todo = {}
  /\ mt' = NoSweep
  /\ UNCHANGED <<worldVars, rowVars, diskVars, scanner, caller, events, boot, crashes, glitches>>

------------------------------------------------------------------------------
(* Time, crashes and start-up.                                              *)

BecomesLate(t) ==
  /\ row[t].state # "absent" /\ ~late[t]
  /\ late' = [late EXCEPT ![t] = TRUE]
  /\ UNCHANGED <<worldVars, row, diskVars, scanner, caller, events, mt, boot, crashes, glitches>>

Forget ==
  /\ scanner' = [w \in Workers |-> Idle]
  /\ caller' = [c \in Callers |-> NoCall]
  /\ mt' = NoSweep
  /\ boot' = [pc |-> "down", todo |-> {}]

Crash ==
  /\ FaultLeft
  /\ crashes' = crashes + 1
  /\ boot.pc \notin {"down", "refused"}
  /\ Forget
  /\ UNCHANGED <<worldVars, rowVars, diskVars, events, glitches>>

\* harden_existing_storage_permissions(), then queue.start().
Harden ==
  /\ boot.pc = "down"
  /\ boot' = [boot EXCEPT !.pc =
                IF \A t \in Transfers : row[t].path # "none" => file[t] = row[t].path
                THEN "started" ELSE "refused"]
  /\ UNCHANGED <<worldVars, rowVars, diskVars, scanner, caller, events, mt, crashes, glitches>>

StartRecovery ==
  /\ boot.pc = "started"
  /\ boot' = [pc |-> "recover",
              todo |-> {t \in Transfers : row[t].state \in {"scanning", "classified"}}]
  /\ UNCHANGED <<worldVars, rowVars, diskVars, scanner, caller, events, mt, crashes, glitches>>

\* Pending transfers are submitted again; JobQueue takes it from there.
Recover(t) ==
  /\ boot.pc = "recover" /\ t \in boot.todo
  /\ Transition(t, "quarantined")
  /\ boot' = [boot EXCEPT !.todo = @ \ {t}]
  /\ UNCHANGED <<worldVars, diskVars, scanner, caller, events, mt, crashes, glitches>>

RecoveryRaises(t) ==
  /\ boot.pc = "recover" /\ t \in boot.todo
  /\ ~CanMove(t, "quarantined")
  /\ Forget
  /\ UNCHANGED <<worldVars, rowVars, diskVars, events, crashes, glitches>>

StartServing ==
  /\ boot.pc = "recover" /\ boot.todo = {}
  /\ boot' = Serving
  /\ UNCHANGED <<worldVars, rowVars, diskVars, scanner, caller, events, mt, crashes, glitches>>

------------------------------------------------------------------------------

ScanStep(w) == \/ Judge(w) \/ Hold(w) \/ Classify(w) \/ CreateApproval(w) \/ SubmitApproval(w)
               \/ FailScan(w) \/ FailClosed(w)

DecisionStep(c) == \/ Dispatch(c) \/ Lapse(c) \/ Reject(c) \/ Verify(c) \/ Condemn(c)
                   \/ Approve(c) \/ MarkEvent(c)

ReleaseStep(c) == \/ Release(c) \/ Revoke(c) \/ Locate(c) \/ Move(c) \/ CleanUp(c)
                  \/ RemoveDir(c) \/ Repath(c) \/ Seal(c) \/ Settle(c)

SweepStep == \/ StartTimeouts \/ TimeOutScan \/ StartReleases \/ ReleaseRetried
             \/ StartExpiring \/ ExpireDue \/ StartPurge \/ ClearPath \/ EndSweep
             \/ \E t \in Transfers : \/ ReadStuck(t) \/ RetryRelease(t) \/ ReadDue(t)
                                     \/ PurgePayload(t)

BootStep == \/ Harden \/ StartRecovery \/ StartServing
            \/ \E t \in Transfers : Recover(t) \/ RecoveryRaises(t)

Next ==
  \/ \E p \in [permits: BOOLEAN, provider: Providers] : SetPolicy(p)
  \/ \E t \in Transfers : \/ Upload(t) \/ Rescan(t) \/ Expire(t)
                          \/ BecomesLate(t)
  \/ \E w \in Workers : \/ ScanStep(w) \/ ScanGlitch(w)
                        \/ \E t \in Transfers : BeginScan(w, t) \/ DeadLetter(w, t)
  \/ \E c \in Requests : \/ \E t \in Transfers : Decide(c, t)
                         \/ \E e \in Events : Callback(c, e)
                         \/ DecisionStep(c)
  \/ \E c \in Callers : ReleaseStep(c) \/ CallGlitch(c)
  \/ SweepStep \/ BootStep \/ Crash

Spec == Init /\ [][Next]_vars

\* Threads are scheduled, the sweep comes round, a stopped service is started, time
\* passes; requests, callbacks and faults need not happen.
Fairness ==
  /\ \A w \in Workers : WF_vars(ScanStep(w))
  /\ \A c \in Requests : WF_vars(DecisionStep(c))
  /\ \A c \in Callers : WF_vars(ReleaseStep(c))
  /\ \A t \in Transfers : WF_vars(BecomesLate(t))
  /\ WF_vars(SweepStep)
  /\ WF_vars(BootStep)

FairSpec == Spec /\ Fairness

------------------------------------------------------------------------------
(* Properties.                                                              *)

TypeOK ==
  /\ policy \in [permits: BOOLEAN, provider: Providers]
  /\ row \in [Transfers -> [state: DOMAIN OUTBOUND_TRANSITIONS, path: Places,
                            provider: Providers, approval: Providers \cup {"none"},
                            actor: Deciders \cup {Nobody}]]
  /\ file \in [Transfers -> Places]
  /\ greenDir \in [Transfers -> BOOLEAN]
  /\ late \in [Transfers -> BOOLEAN]
  /\ relay \in SUBSET Transfers
  /\ scanner \in [Workers ->
       [pc: {"idle", "judge", "hold", "classify", "create", "submit", "uncreated",
             "except", "failclosed"},
        on: Transfers \cup {"none"}, provider: Providers \cup {"none"}]]
  /\ caller \in [Callers ->
       [pc: {"idle", "dispatch", "lapse", "reject", "verify", "condemn", "approve",
             "release", "revoke", "locate", "move", "cleanup", "rmtree", "repath", "seal",
             "settle", "processed", "error", "done", "refused", "raised"},
        on: Transfers \cup {"none"}, event: Deciders \cup {Nobody}, src: Places]]
  /\ events \in [Events -> {"none", "processing", "processed", "error"}]
  /\ mt \in [pc: {"idle", "timeout", "timing out", "release", "expire", "expiring", "purge",
                  "clear"},
             todo: SUBSET Transfers, paths: [Transfers -> Places],
             current: Transfers \cup {"none"}, seen: DOMAIN OUTBOUND_TRANSITIONS]
  /\ boot \in [pc: {"serving", "down", "refused", "started", "recover"},
               todo: SUBSET Transfers]
  /\ crashes \in 0..MaxFaults /\ glitches \in 0..MaxGlitches

TransferStates == [t \in Transfers |-> row[t].state]
TransferActors == [t \in Transfers |-> row[t].actor]

LC == INSTANCE TransferLifecycle
        WITH state   <- TransferStates,
             payload <- file,
             decider <- TransferActors,
             Lossy   <- MaxGlitches > 0

ImplementsLifecycle == LC!Spec

\* What downloads rely on: a released transfer has its payload where its row says,
\* and that is the green buffer, unless an exception made the clean-up of a competing
\* release remove it.
ReleasedIsServable ==
  \A t \in Transfers :
    row[t].state = "released_to_green" =>
      /\ row[t].path = "green"
      /\ file[t] = "green" \/ (glitches > 0 /\ file[t] = "none")

\* What is released stays servable while decisions, callbacks, retries of the release,
\* expiries and purges meet it, and the state keeps its type.
TransferInv == TypeOK /\ ReleasedIsServable

\* An event recorded as processed has had its effect, and a different decision has
\* not: concurrent deliveries, retries after an error and restarts included.
ProcessedEventsTakeEffect ==
  \A e \in Events :
    events[e] = "processed" =>
      row[e.on].state \in (IF e.approves THEN {"released_to_green", "expired"}
                           ELSE {"approval_rejected", "expired"})

\* "A restart or timeout in the intermediate classified window explicitly
\* quarantines the transfer instead of leaving it stranded."
ClassifiedSettles ==
  \A t \in Transfers :
    (row[t].state \in {"scanning", "classified"}) ~>
      (row[t].state \notin {"scanning", "classified"} \/ boot.pc = "refused")

\* Unless storage raised an error, an approved transfer is promoted or expires: the
\* sweep takes up what a crash or a competing release left behind.
ApprovedSettles ==
  \A t \in Transfers :
    (row[t].state = "approved") ~>
      (row[t].state # "approved" \/ boot.pc = "refused" \/ glitches > 0)

\* The remaining properties are claims of the documentation that do not hold.

\* README.md:187: modification is what expires a payload under approval.  A second
\* decision finds the payload already moved and expires a transfer the first has
\* approved or released.
OnlyPendingTransfersAreCondemned ==
  [][\A c \in Requests :
       LET t == Target(c) IN
       (CallAt(c, "condemn") /\ ~CallAt(c, "condemn")' /\ row'[t].state # row[t].state)
         => row[t].state = "pending_approval"]_vars

\* docs/THREAT_MODEL.md:49: maintenance retries promotion after crashes; so an
\* interrupted promotion is no reason to refuse to start.
InterruptedPromotionsAreRetried ==
  boot.pc = "refused" => \A t \in Transfers : row[t].state # "approved"

\* docs/APPROVAL_RELAY_PROTOCOL.md: a submission is a POST to the relay; it fails on
\* the relay's answer, not before.
SubmissionsReachTheRelay ==
  \A w \in Workers : ScanAt(w, "uncreated") => Scanned(w) \in relay
==============================================================================
