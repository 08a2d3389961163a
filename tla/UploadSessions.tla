------------------------------ MODULE UploadSessions ------------------------------
(***************************************************************************)
(* Multipart upload sessions (src/src/sfss/service.py): parts staged on    *)
(* disk and recorded in the database, completion into a registered object, *)
(* cancellation, expiry by the maintenance sweep, and recovery.            *)
(*                                                                         *)
(* A call is a request thread, the maintenance thread or, at start-up, the *)
(* main thread.  Everything after the per-upload lock is taken is inside;  *)
(* the lock object is the one the dictionary _upload_locks held when the   *)
(* call asked (lock[u] counts how often it was popped).  A part's content  *)
(* is the version of the file it was read from; a digest identifies it.    *)
(***************************************************************************)
EXTENDS Naturals, FiniteSets

CONSTANTS Uploads,     \* upload sessions
          Parts,       \* part numbers of the upload plan
          Versions,    \* versions of the client's file
          Original,    \* the version it had when the session was created
          NoContent,   \* no part, no file, no expected digest
          Clients,     \* request threads
          Sweeper,     \* the maintenance thread
          Main,        \* the main thread, during recovery
          MaxIds,      \* bound of the model: object ids drawn for one upload
          MaxFaults    \* bound of the model: crashes and glitches (exceptions out of
                       \* storage or the database) together

ASSUME UploadConstants ==
  /\ NoContent \notin Versions /\ Original \in Versions
  /\ Sweeper \notin Clients /\ Main \notin Clients /\ Main # Sweeper
  /\ MaxIds \in Nat \ {0} /\ MaxFaults \in Nat

VARIABLES sess,      \* the upload_sessions rows
          record,    \* the upload_parts rows: the content each part is recorded with
          object,    \* the rows registered for the upload, by object id
          queued,    \* object ids whose scan was submitted
          stage,     \* the staging directory
          iso,       \* the directories in isolation, by object id
          due,       \* expires_at has passed
          lock, call, sweep, boot, crashes, glitches

vars == <<sess, record, object, queued, stage, iso, due, lock, call, sweep, boot,
          crashes, glitches>>

Ids      == 1..MaxIds
Callers  == Clients \cup {Sweeper, Main}
Content  == Versions \cup {NoContent}
Active   == {"uploading", "completing"}
Terminal == {"completed", "cancelled", "expired"}

NoParts  == [p \in Parts |-> NoContent]
NoStage  == [dir |-> FALSE, parts |-> NoParts, assembled |-> FALSE]
NoIso    == [dir |-> FALSE, file |-> NoParts]
NoCall   == [pc |-> "idle", op |-> "none", on |-> "none", gen |-> 0,
             part |-> "none", content |-> NoContent, file |-> NoParts]

Init ==
  /\ sess = [u \in Uploads |-> [state |-> "absent", id |-> 0, expected |-> NoContent]]
  /\ record = [u \in Uploads |-> NoParts]
  /\ object = [u \in Uploads |-> [i \in Ids |-> "none"]]
  /\ queued = [u \in Uploads |-> {}]
  /\ stage = [u \in Uploads |-> NoStage]
  /\ iso = [u \in Uploads |-> [i \in Ids |-> NoIso]]
  /\ due = [u \in Uploads |-> FALSE]
  /\ lock = [u \in Uploads |-> 0]
  /\ call = [c \in Callers |-> NoCall]
  /\ sweep = {}
  /\ boot = [pc |-> "serving", todo |-> {}]
  /\ crashes = 0 /\ glitches = 0

rowVars   == <<sess, record, object, queued>>
diskVars  == <<stage, iso>>
faultVars == <<crashes, glitches>>
elseVars  == <<due, sweep, boot, crashes, glitches>>

Serving == boot.pc = "serving"

At(c, pc)   == call[c].pc = pc
Goto(c, pc) == call' = [call EXCEPT ![c].pc = pc]
Upload(c)   == call[c].on
Object(c)   == sess[Upload(c)].id      \* object_id of the session
Ends(c)     == call' = [call EXCEPT ![c] = NoCall]

\* _upload_lock(): the call has looked up the lock object and waits for it.
Waits(op, u) == [NoCall EXCEPT !.pc = "wait", !.op = op, !.on = u, !.gen = lock[u]]

Inside(c) == call[c].pc \notin {"idle", "create", "receive", "wait"}

------------------------------------------------------------------------------
(* create_upload_session(): the staging directory, then the row.           *)

CreateDir(c, u) ==
  /\ Serving
  /\ call[c] = NoCall
  /\ sess[u].state = "absent" /\ ~stage[u].dir
  /\ stage' = [stage EXCEPT ![u].dir = TRUE]
  /\ call' = [call EXCEPT ![c] = [NoCall EXCEPT !.pc = "create", !.on = u]]
  /\ UNCHANGED <<rowVars, iso, lock, elseVars>>

CreateRow(c) ==
  /\ At(c, "create")
  /\ \E v \in {Original, NoContent} :
       sess' = [sess EXCEPT ![Upload(c)] = [state |-> "uploading", id |-> 0, expected |-> v]]
  /\ Ends(c)
  /\ UNCHANGED <<record, object, queued, diskVars, lock, elseVars>>

------------------------------------------------------------------------------
(* The lock of an upload.                                                  *)

\* Mutant: every call waits for a lock of its own.
TakeOwnLock(c) ==
  /\ At(c, "wait")
  /\ Goto(c, call[c].op)
  /\ UNCHANGED <<rowVars, diskVars, lock, elseVars>>

TakeLock(c) ==
  /\ At(c, "wait")
  /\ \A d \in Callers : (Inside(d) /\ Upload(d) = Upload(c)) => call[d].gen # call[c].gen
  /\ Goto(c, call[c].op)
  /\ UNCHANGED <<rowVars, diskVars, lock, elseVars>>

------------------------------------------------------------------------------
(* put_upload_part(): the stream is received before the lock is taken.     *)

Writable(u) == sess[u].state = "uploading" /\ ~due[u]

BeginPut(c, u) ==
  /\ Serving
  /\ call[c] = NoCall
  /\ Writable(u)
  /\ \E p \in Parts, v \in Versions :
       call' = [call EXCEPT ![c] = [NoCall EXCEPT !.pc = "receive", !.op = "put", !.on = u,
                                                    !.part = p, !.content = v]]
  /\ UNCHANGED <<rowVars, diskVars, lock, elseVars>>

Received(c) ==
  /\ At(c, "receive")
  /\ call' = [call EXCEPT ![c].pc = "wait", ![c].gen = lock[Upload(c)]]
  /\ UNCHANGED <<rowVars, diskVars, lock, elseVars>>

\* The session is read again; owner, role and policy may refuse by now.
MovePart(c) ==
  /\ At(c, "put")
  /\ \/ /\ Writable(Upload(c))
        /\ stage' = [stage EXCEPT ![Upload(c)].parts[call[c].part] = call[c].content]
        /\ Goto(c, "commit")
     \/ Ends(c) /\ UNCHANGED stage
  /\ UNCHANGED <<rowVars, iso, lock, elseVars>>

\* The part row and the session, in one transaction that needs the session row.
CommitPart(c) ==
  /\ At(c, "commit")
  /\ record' = IF sess[Upload(c)].state = "uploading"
               THEN [record EXCEPT ![Upload(c)][call[c].part] = call[c].content]
               ELSE record
  /\ Ends(c)
  /\ UNCHANGED <<sess, object, queued, diskVars, lock, elseVars>>

------------------------------------------------------------------------------
(* complete_upload_session().                                              *)

Registered(u) == sess[u].id # 0 /\ object[u][sess[u].id] # "none"

BeginCall(c, op, u) ==
  /\ Serving
  /\ call[c] = NoCall
  /\ sess[u].state # "absent"
  /\ call' = [call EXCEPT ![c] = Waits(op, u)]
  /\ UNCHANGED <<rowVars, diskVars, lock, elseVars>>

\* An object registered by an earlier attempt is bound to its session.
Rebind(c) ==
  /\ At(c, "complete")
  /\ sess[Upload(c)].state # "completed"
  /\ Registered(Upload(c))
  /\ call' = [call EXCEPT ![c].pc = "finalize", ![c].op = "rebind"]
  /\ UNCHANGED <<rowVars, diskVars, lock, elseVars>>

\* Mutant: every attempt draws a new object id.
ClaimAnew(c) ==
  /\ At(c, "complete")
  /\ LET u == Upload(c) IN
     /\ sess[u].state = "uploading"
     /\ \A p \in Parts : record[u][p] # NoContent
     /\ sess[u].id < MaxIds
     /\ sess' = [sess EXCEPT ![u].state = "completing", ![u].id = @ + 1]
  /\ Goto(c, "assemble")
  /\ UNCHANGED <<record, object, queued, diskVars, lock, elseVars>>

\* A complete session is claimed, with the object id of an earlier attempt if any.
Claim(c) ==
  /\ At(c, "complete")
  /\ LET u == Upload(c) IN
     /\ sess[u].state = "uploading" /\ ~Registered(u)
     /\ \A p \in Parts : record[u][p] # NoContent
     /\ sess' = [sess EXCEPT ![u].state = "completing", ![u].id = IF @ = 0 THEN 1 ELSE @]
  /\ Goto(c, "assemble")
  /\ UNCHANGED <<record, object, queued, diskVars, lock, elseVars>>

\* Already completed, closed, being completed, incomplete, or the caller is no longer
\* permitted: users are disabled and policies change meanwhile.
Decline(c) ==
  /\ At(c, "complete")
  /\ Ends(c)
  /\ UNCHANGED <<rowVars, diskVars, lock, elseVars>>

\* assembled.tmp is created, filled from the part files, and checked against the
\* expected digest if there is one.
Assemble(c) ==
  /\ At(c, "assemble")
  /\ LET u == Upload(c)
         whole == \A p \in Parts : stage[u].parts[p] # NoContent
         right == sess[u].expected # NoContent =>
                    \A p \in Parts : stage[u].parts[p] = sess[u].expected
     IN IF ~stage[u].assembled /\ whole /\ right
        THEN call' = [call EXCEPT ![c].pc = "register", ![c].file = stage[u].parts]
        ELSE Goto(c, "undo")
  /\ stage' = [stage EXCEPT ![Upload(c)].assembled = TRUE]
  /\ UNCHANGED <<rowVars, iso, lock, elseVars>>

\* The outbound policy may refuse, and mkdir raises on a directory left behind.
MakeTarget(c) ==
  /\ At(c, "register")
  /\ LET u == Upload(c) IN
     \/ /\ ~iso[u][Object(c)].dir
        /\ iso' = [iso EXCEPT ![u][Object(c)].dir = TRUE]
        /\ Goto(c, "move")
     \/ Goto(c, "undo") /\ UNCHANGED iso
  /\ UNCHANGED <<rowVars, stage, lock, elseVars>>

MoveAssembled(c) ==
  /\ At(c, "move")
  /\ iso' = [iso EXCEPT ![Upload(c)][Object(c)].file = call[c].file]
  /\ stage' = [stage EXCEPT ![Upload(c)].assembled = FALSE]
  /\ Goto(c, "insert")
  /\ UNCHANGED <<rowVars, lock, elseVars>>

\* The objects or outbound_transfers row, with its audit event.
Register(c) ==
  /\ At(c, "insert")
  /\ object' = [object EXCEPT ![Upload(c)][Object(c)] = "pending"]
  /\ Goto(c, "finalize")
  /\ UNCHANGED <<sess, record, queued, diskVars, lock, elseVars>>

\* An exception out of the call: the first completion has a handler, binding an
\* object again has none.
Raises(c) == IF call[c].op = "complete" THEN Goto(c, "undo") ELSE Ends(c)

\* _finalize_upload_session(): the row ...
Finalize(c) ==
  /\ At(c, "finalize")
  /\ IF sess[Upload(c)].state \in Active \cup {"completed"}
     THEN /\ sess' = [sess EXCEPT ![Upload(c)].state = "completed"]
          /\ Goto(c, "wipe")
     ELSE Raises(c) /\ UNCHANGED sess
  /\ UNCHANGED <<record, object, queued, diskVars, lock, elseVars>>

\* Still receiving, outside the lock, into a temporary file of the staging directory.
Receiving(d, u) == At(d, "receive") /\ Upload(d) = u

\* ... the staging directory, which rmtree leaves behind, emptied, if a part being
\* received creates its temporary file meanwhile ...
WipeStage(c) ==
  /\ At(c, "wipe")
  /\ \E left \in BOOLEAN :
       /\ left => \E d \in Clients : Receiving(d, Upload(c))
       /\ stage' = [stage EXCEPT ![Upload(c)] = [NoStage EXCEPT !.dir = left]]
  /\ Goto(c, "delete")
  /\ UNCHANGED <<rowVars, iso, lock, elseVars>>

\* ... and the part rows; the lock is dropped from the dictionary while it is held.
\* Recovery does the same to a session it binds or cleans, and nobody holds locks then.
DeleteParts(c) ==
  /\ At(c, "delete")
  /\ record' = [record EXCEPT ![Upload(c)] = NoParts]
  /\ IF call[c].op \in {"complete", "rebind"} THEN Goto(c, "submit") ELSE Ends(c)
  /\ lock' = IF c = Main THEN lock ELSE [lock EXCEPT ![Upload(c)] = @ + 1]
  /\ UNCHANGED <<sess, object, queued, diskVars, elseVars>>

SubmitScan(c) ==
  /\ At(c, "submit")
  /\ queued' = IF object[Upload(c)][Object(c)] = "pending"
               THEN [queued EXCEPT ![Upload(c)] = @ \cup {Object(c)}]
               ELSE queued
  /\ Ends(c)
  /\ UNCHANGED <<sess, record, object, diskVars, lock, elseVars>>

\* except: UPDATE ... SET state='uploading' WHERE ... state='completing'
Undo(c) ==
  /\ At(c, "undo")
  /\ sess' = [sess EXCEPT ![Upload(c)].state = IF @ = "completing" THEN "uploading" ELSE @]
  /\ Goto(c, "unlink")
  /\ UNCHANGED <<record, object, queued, diskVars, lock, elseVars>>

\* finally: assembled.unlink()
Unlink(c) ==
  /\ At(c, "unlink")
  /\ stage' = [stage EXCEPT ![Upload(c)].assembled = FALSE]
  /\ Ends(c)
  /\ UNCHANGED <<rowVars, iso, lock, elseVars>>

------------------------------------------------------------------------------
(* cancel_upload_session(), and the expiry of run_maintenance().           *)

Cancel(c) ==
  /\ At(c, "cancel")
  /\ IF sess[Upload(c)].state = "uploading"
     THEN /\ sess' = [sess EXCEPT ![Upload(c)].state = "cancelled"]
          /\ Goto(c, "wipe")
     ELSE Ends(c) /\ UNCHANGED sess
  /\ UNCHANGED <<record, object, queued, diskVars, lock, elseVars>>

\* Mutant: only sessions still uploading are looked for.
StartSweepOfUploading ==
  /\ Serving
  /\ sweep = {}
  /\ call[Sweeper] = NoCall
  /\ sweep' = {u \in Uploads : sess[u].state = "uploading" /\ due[u]}
  /\ UNCHANGED <<rowVars, diskVars, due, lock, call, boot, faultVars>>

StartSweep ==
  /\ Serving
  /\ sweep = {}
  /\ call[Sweeper] = NoCall
  /\ sweep' = {u \in Uploads : sess[u].state \in Active /\ due[u]}
  /\ UNCHANGED <<rowVars, diskVars, due, lock, call, boot, faultVars>>

SweepNext ==
  /\ call[Sweeper] = NoCall
  /\ \E u \in sweep : /\ call' = [call EXCEPT ![Sweeper] = Waits("expire", u)]
                      /\ sweep' = sweep \ {u}
  /\ UNCHANGED <<rowVars, diskVars, due, lock, boot, faultVars>>

\* A session closed in the meantime is skipped.
Expire(c) ==
  /\ At(c, "expire")
  /\ IF sess[Upload(c)].state \in Active
     THEN /\ sess' = [sess EXCEPT ![Upload(c)].state = "expired"]
          /\ Goto(c, "wipe")
     ELSE Ends(c) /\ UNCHANGED sess
  /\ UNCHANGED <<record, object, queued, diskVars, lock, elseVars>>

BecomesDue(u) ==
  /\ sess[u].state # "absent" /\ ~due[u]
  /\ due' = [due EXCEPT ![u] = TRUE]
  /\ UNCHANGED <<rowVars, diskVars, lock, call, sweep, boot, faultVars>>

\* A worker takes the submitted scan up.
Scan(u, i) ==
  /\ boot.pc \notin {"down", "refused"}
  /\ i \in queued[u] /\ object[u][i] = "pending"
  /\ object' = [object EXCEPT ![u][i] = "scanned"]
  /\ UNCHANGED <<sess, record, queued, diskVars, lock, call, elseVars>>

------------------------------------------------------------------------------
(* Exceptions, crashes and start-up.                                       *)

FaultLeft == crashes + glitches < MaxFaults

\* Where each step raises to.  The row of a session or an object is written or not;
\* create and register remove the directory they made when the row fails.
Glitch(c) ==
  /\ FaultLeft
  /\ glitches' = glitches + 1
  /\ \/ /\ call[c].pc \in {"create", "put", "commit", "cancel", "expire", "unlink"}
        /\ Ends(c)
     \/ call[c].pc = "undo" /\ Goto(c, "unlink")
     \/ /\ call[c].pc \in {"complete", "assemble", "register", "move", "insert", "finalize",
                           "delete", "submit"}
        /\ IF At(c, "complete") THEN Ends(c) ELSE Raises(c)
  /\ stage' = IF At(c, "create") THEN [stage EXCEPT ![Upload(c)] = NoStage] ELSE stage
  /\ iso' = IF At(c, "insert") THEN [iso EXCEPT ![Upload(c)][Object(c)] = NoIso] ELSE iso
  /\ sweep' = IF c = Sweeper THEN {} ELSE sweep
  /\ UNCHANGED <<rowVars, due, lock, boot, crashes>>

\* Recovery that raises ends main() as well.
Crash ==
  /\ FaultLeft
  /\ crashes' = crashes + 1
  /\ boot.pc \notin {"down", "refused"}
  /\ call' = [c \in Callers |-> NoCall]
  /\ lock' = [u \in Uploads |-> 0]
  /\ sweep' = {}
  /\ boot' = [pc |-> "down", todo |-> {}]
  /\ UNCHANGED <<rowVars, diskVars, due, glitches>>

Closed == {u \in Uploads : sess[u].state \in Terminal}

\* Mutant: the staged parts are not rehashed.
HardenLeniently ==
  /\ boot.pc = "down"
  /\ record' = [u \in Uploads |-> IF u \in Closed THEN NoParts ELSE record[u]]
  /\ boot' = [pc |-> "completing", todo |-> {u \in Uploads : sess[u].state = "completing"}]
  /\ UNCHANGED <<sess, object, queued, diskVars, due, lock, call, sweep, faultVars>>

\* harden_existing_storage_permissions(): a recorded part whose file is not the one
\* recorded stops the start.  Then recover_interrupted_jobs(), its first query.
Harden ==
  /\ boot.pc = "down"
  /\ record' = [u \in Uploads |-> IF u \in Closed THEN NoParts ELSE record[u]]
  /\ boot' = IF \A u \in Uploads, p \in Parts :
                  (sess[u].state \in Active /\ record[u][p] # NoContent)
                    => stage[u].parts[p] = record[u][p]
             THEN [pc |-> "completing", todo |-> {u \in Uploads : sess[u].state = "completing"}]
             ELSE [pc |-> "refused", todo |-> {}]
  /\ UNCHANGED <<sess, object, queued, diskVars, due, lock, call, sweep, faultVars>>

\* Mutant: every interrupted completion is taken back.
RecoverByReset ==
  /\ boot.pc = "completing"
  /\ call[Main] = NoCall
  /\ \E u \in boot.todo :
       /\ call' = [call EXCEPT ![Main] =
                     [NoCall EXCEPT !.op = "recover", !.on = u, !.pc = "tidy"]]
       /\ boot' = [boot EXCEPT !.todo = @ \ {u}]
  /\ UNCHANGED <<rowVars, diskVars, due, lock, sweep, faultVars>>

\* A completion that got as far as its object is finalized; any other is taken back.
RecoverCompleting ==
  /\ boot.pc = "completing"
  /\ call[Main] = NoCall
  /\ \E u \in boot.todo :
       /\ call' = [call EXCEPT ![Main] =
                     [NoCall EXCEPT !.op = "recover", !.on = u,
                                    !.pc = IF Registered(u) THEN "finalize" ELSE "orphan"]]
       /\ boot' = [boot EXCEPT !.todo = @ \ {u}]
  /\ UNCHANGED <<rowVars, diskVars, due, lock, sweep, faultVars>>

\* Mutant: the target of the interrupted attempt stays in isolation.
OrphanKept(c) ==
  /\ At(c, "orphan")
  /\ Goto(c, "tidy")
  /\ UNCHANGED <<rowVars, diskVars, lock, elseVars>>

RemoveOrphan(c) ==
  /\ At(c, "orphan")
  /\ iso' = IF Object(c) = 0 THEN iso ELSE [iso EXCEPT ![Upload(c)][Object(c)] = NoIso]
  /\ Goto(c, "tidy")
  /\ UNCHANGED <<rowVars, stage, lock, elseVars>>

\* assembled.unlink(missing_ok=True)
RemoveAssembled(c) ==
  /\ At(c, "tidy")
  /\ stage' = [stage EXCEPT ![Upload(c)].assembled = FALSE]
  /\ Goto(c, "reset")
  /\ UNCHANGED <<rowVars, iso, lock, elseVars>>

Reset(c) ==
  /\ At(c, "reset")
  /\ sess' = [sess EXCEPT ![Upload(c)].state = "uploading"]
  /\ Ends(c)
  /\ UNCHANGED <<record, object, queued, diskVars, lock, elseVars>>

\* Mutant: closed sessions are left to the purge.
SkipClosed ==
  /\ boot = [pc |-> "completing", todo |-> {}]
  /\ call[Main] = NoCall
  /\ boot' = [pc |-> "closed", todo |-> {}]
  /\ UNCHANGED <<rowVars, diskVars, due, lock, call, sweep, faultVars>>

\* The second query.
StartCleaning ==
  /\ boot = [pc |-> "completing", todo |-> {}]
  /\ call[Main] = NoCall
  /\ boot' = [pc |-> "closed", todo |-> Closed]
  /\ UNCHANGED <<rowVars, diskVars, due, lock, call, sweep, faultVars>>

CleanClosed ==
  /\ boot.pc = "closed"
  /\ call[Main] = NoCall
  /\ \E u \in boot.todo :
       /\ call' = [call EXCEPT ![Main] = [NoCall EXCEPT !.op = "clean", !.on = u, !.pc = "wipe"]]
       /\ boot' = [boot EXCEPT !.todo = @ \ {u}]
  /\ UNCHANGED <<rowVars, diskVars, due, lock, sweep, faultVars>>

\* Mutant: pending objects are left to their upload calls.
StartServingOnly ==
  /\ boot = [pc |-> "closed", todo |-> {}]
  /\ call[Main] = NoCall
  /\ boot' = [pc |-> "serving", todo |-> {}]
  /\ UNCHANGED <<rowVars, diskVars, due, lock, call, sweep, faultVars>>

\* Every pending object is submitted, and the service serves.
Resubmit ==
  /\ boot = [pc |-> "closed", todo |-> {}]
  /\ call[Main] = NoCall
  /\ queued' = [u \in Uploads |-> queued[u] \cup {i \in Ids : object[u][i] = "pending"}]
  /\ boot' = [pc |-> "serving", todo |-> {}]
  /\ UNCHANGED <<sess, record, object, diskVars, due, lock, call, sweep, faultVars>>

------------------------------------------------------------------------------

CallStep(c) ==
  \/ CreateRow(c) \/ Received(c) \/ MovePart(c) \/ CommitPart(c)
  \/ Rebind(c) \/ Claim(c) \/ Decline(c) \/ Assemble(c) \/ MakeTarget(c) \/ MoveAssembled(c)
  \/ Register(c) \/ Finalize(c) \/ WipeStage(c) \/ DeleteParts(c) \/ SubmitScan(c)
  \/ Undo(c) \/ Unlink(c) \/ Cancel(c) \/ Expire(c) \/ RemoveOrphan(c)
  \/ RemoveAssembled(c) \/ Reset(c)

SweepStep == StartSweep \/ SweepNext

BootStep == \/ Harden \/ RecoverCompleting \/ StartCleaning \/ CleanClosed \/ Resubmit

Next ==
  \/ \E c \in Clients, u \in Uploads : \/ CreateDir(c, u) \/ BeginPut(c, u)
                                       \/ BeginCall(c, "complete", u)
                                       \/ BeginCall(c, "cancel", u)
  \/ \E c \in Callers : CallStep(c) \/ TakeLock(c)
  \/ \E c \in Callers \ {Main} : Glitch(c)
  \/ \E u \in Uploads : BecomesDue(u) \/ \E i \in Ids : Scan(u, i)
  \/ SweepStep \/ BootStep \/ Crash

Spec == Init /\ [][Next]_vars

\* Threads are scheduled, the sweep comes round and gets hold of a lock that is free
\* again and again, time passes, a stopped service is started; requests and faults
\* need not happen.
Fairness ==
  /\ \A c \in Callers : WF_vars(CallStep(c)) /\ WF_vars(TakeLock(c))
  /\ SF_vars(TakeLock(Sweeper))
  /\ \A u \in Uploads : WF_vars(BecomesDue(u))
  /\ WF_vars(SweepStep)
  /\ WF_vars(BootStep)

FairSpec == Spec /\ Fairness

------------------------------------------------------------------------------
(* Properties.                                                             *)

TypeOK ==
  /\ sess \in [Uploads -> [state: {"absent"} \cup Active \cup Terminal, id: Ids \cup {0},
                           expected: Content]]
  /\ record \in [Uploads -> [Parts -> Content]]
  /\ object \in [Uploads -> [Ids -> {"none", "pending", "scanned"}]]
  /\ queued \in [Uploads -> SUBSET Ids]
  /\ stage \in [Uploads -> [dir: BOOLEAN, parts: [Parts -> Content], assembled: BOOLEAN]]
  /\ iso \in [Uploads -> [Ids -> [dir: BOOLEAN, file: [Parts -> Content]]]]
  /\ due \in [Uploads -> BOOLEAN]
  /\ lock \in [Uploads -> 0..1]
  /\ call \in [Callers ->
       [pc: {"idle", "create", "receive", "wait", "put", "commit", "complete", "assemble",
             "register", "move", "insert", "finalize", "wipe", "delete", "submit", "undo",
             "unlink", "cancel", "expire", "orphan", "tidy", "reset"},
        op: {"none", "put", "complete", "rebind", "cancel", "expire", "recover", "clean"},
        on: Uploads \cup {"none"}, gen: 0..1, part: Parts \cup {"none"}, content: Content,
        file: [Parts -> Content]]]
  /\ sweep \in SUBSET Uploads
  /\ boot \in [pc: {"serving", "down", "refused", "completing", "closed"}, todo: SUBSET Uploads]
  /\ crashes \in 0..MaxFaults /\ glitches \in 0..MaxFaults

\* Dropping the lock from the dictionary while others wait for it lets two calls in
\* at once only when the session is closed for good.
OneCallAtATime ==
  \A c, d \in Callers :
    (c # d /\ Inside(c) /\ Inside(d) /\ Upload(c) = Upload(d))
      => sess[Upload(c)].state \in Terminal

\* The locks do their work for every call and restart, and the state keeps its type.
SessionInv == TypeOK /\ OneCallAtATime

\* "Recovery binds an already registered object back to its original session ...
\* preventing duplicate objects" (docs/THREAT_MODEL.md), and whatever parts were sent
\* again while the upload was completed, retried or recovered, what is registered is
\* gap-free and has the digest promised at the start: the service is an UploadLifecycle.
\* The parts of a closed session are out of the client's sight.
Reported(u)    == IF sess[u].state \in Active THEN record[u] ELSE NoParts
ObjectFiles(u) == {iso[u][i].file : i \in {j \in Ids : object[u][j] # "none"}}

Lifecycle == INSTANCE UploadLifecycle WITH
  state    <- [u \in Uploads |-> sess[u].state],
  expected <- [u \in Uploads |-> sess[u].expected],
  parts    <- [u \in Uploads |-> Reported(u)],
  object   <- [u \in Uploads |-> ObjectFiles(u)]

ImplementsLifecycle == Lifecycle!Spec

\* The parts reported to a client that resumes are the ones on disk, crashes between
\* moving a part and recording it included.
PartsOnRecord ==
  (Serving /\ glitches = 0) =>
    \A u \in Uploads, p \in Parts :
      (sess[u].state \in Active /\ record[u][p] # NoContent) =>
        \/ stage[u].parts[p] = record[u][p]
        \/ \E c \in Clients : At(c, "commit") /\ Upload(c) = u /\ call[c].part = p

\* Nothing is left in isolation that no object row knows: a directory without a row
\* belongs to a completion still at work, whatever was interrupted before.
NoOrphanTargets ==
  (Serving /\ glitches = 0) =>
    \A u \in Uploads, i \in Ids :
      (iso[u][i].dir /\ object[u][i] = "none") =>
        \E c \in Clients : Inside(c) /\ Upload(c) = u /\ sess[u].state = "completing"

\* A closed session keeps neither part files nor part rows: late parts, crashes and
\* restarts leave no staged bytes that nobody accounts for.
StagingReclaimed ==
  (Serving /\ glitches = 0) =>
    \A u \in Closed :
      (\A c \in Callers : ~(Inside(c) /\ Upload(c) = u)) =>
        stage[u].parts = NoParts /\ ~stage[u].assembled /\ record[u] = NoParts

\* "The upload session is durably finalized, and only then is scanning enqueued"
\* (README.md): restarts between the two included.  A finalization that fails is
\* another matter: its session is reopened although its object is registered.
EnqueuedOnlyAfterFinalized ==
  glitches = 0 => \A u \in Uploads : queued[u] # {} => sess[u].state = "completed"

\* No session stays open past its life time, and none is stranded in 'completing'.
DueSessionsClose ==
  \A u \in Uploads :
    due[u] ~> (sess[u].state \in Terminal \/ boot.pc = "refused")

\* A registered object is scanned in the end, although the session is finalized
\* between the two and the process may die there.
RegisteredIsEnqueued ==
  \A u \in Uploads, i \in Ids :
    (object[u][i] = "pending") ~> (i \in queued[u] \/ boot.pc = "refused" \/ glitches > 0)

==============================================================================
