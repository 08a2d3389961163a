# A TLA+ model of the SFSS core

SFSS moves files between two network zones. Inbound, a file uploaded in the
green zone is scanned and can be downloaded in the red zone; outbound, a file
uploaded in the red zone is scanned, classified, approved by a person or by an
approval relay, and released to the green zone. One Python process per
deployment does the work: an HTTP server with a thread per request, worker
threads that take scan jobs from a table in SQLite, a maintenance thread, and a
start-up sequence that repairs what a dead process left behind. The database and
the file system are updated in separate steps, and nearly every defence of the
code is about what happens between two such steps.

The modules here describe that core as state machines. TLC checks them on small
instances; TLAPS proves the safety properties of the queue, the inbound and outbound
services, upload sessions, the identity store, the audit trail, backup, restore and exports,
and the agent for every instance.
`PROJECT.json` maps every definition to the lines it stands for and lists
runs, mutants, findings, hazards and theorems.

    tlc -workers 2 -config MCInbound.cfg MCInbound.tla     one run
    tlapm JobQueueProofs.tla                               one module of proofs

## 1. Inventory

Sources are under `src/src/sfss/`.

| component | state | operations | hard behaviour | what makes it correct |
|---|---|---|---|---|
| Durable scan queue, `jobs.py` | `scan_jobs` rows: state, attempts, `available_at`, `lease_until`, `lease_owner` | submit, claim, heartbeat, complete, retry or fail, dead letter, start, purge | several workers, leases that run out under a live worker, threads that die, crashes | no object handled twice at a time without a fault; no row left running with nobody; attempts counted; given up only at the limit; dead-lettered once; every job ends |
| Inbound objects, `service.py` 877-1046 | `objects` rows, payload files, release directories | upload, scan, rescan, expire, sweep, dead letter | two workers on one object after a lost lease, the sweep overtaking a scan, crash between moving a payload and recording it | life cycle; a released object is where its row says; row and file disagree only for a step; scans end; due objects expire |
| Outbound transfers and approval, `service.py` 570-875, `approvals.py` | `outbound_transfers`, `outbound_policy`, `approval_callback_events`, payload files, green buffer | policy, upload, scan, classify, decide, callback, release, retry, expire | concurrent decisions and callbacks, repeated and contradictory events, a policy that changes, release interrupted or competing | one durable decision before a payload crosses; processed events took effect; no transfer stranded |
| Upload sessions, `service.py` 140-508 | `upload_sessions`, `upload_parts`, staging and isolation directories, `_upload_locks`, `_upload_session_lock` | create (with admission), put part, complete, cancel, expire, recover | lock objects dropped while awaited, parts arriving late, crash at any step of a completion, space reserved while parts arrive and sessions close | at most one object, and a whole one; staging and isolation accounted for; limits and safety reserve kept; sessions close; registered objects are scanned |
| Accounts, sessions, tokens, `auth.py`, routes in `server.py` | `users`, `local_accounts`, `auth_sessions`, `service_tokens`, `failed_logins` in memory | login (local, LDAP, break-glass), request, logout, account and service identity changes, revocations, token issue | a login racing a reset or a disable, a token issued while its owner is disabled, concurrent attempts, a start with the other backend | no session on a replaced password; revocation is final; cap on sessions; tokens die with their owner; attempts bounded |
| Directory synchronisation, `ldap_sync.py` | the `ldap_synced` and `enabled` columns | run | reads first, writes later, against concurrent changes | disables no administrator, creates no second principal |
| Maintenance, `service.py` 1151-1250 | none of its own | one run of all parts in order | rows read once and acted on later; an exception ends the run | every deadline is eventually acted on |
| Start-up and recovery, `server.py` 1449-1691, `service.py` 1093-1142, 1267-1323 | none of its own | refuse, harden, start the queue, recover, serve | the queue's workers run while recovery does; a recovery that raises ends the process | nothing pending is forgotten; interrupted work is taken up or failed closed |
| Store and audit chain, `db.py` | all tables; `audit_events` and `audit_chain`; `Store._lock` | transaction, audited change, append, verification | writers from many threads, transactions rolled back or cut off, a verification that reads twice without a transaction | one chain that never forks; a change is committed with exactly one event; an alarm has a cause |
| Operations commands, `operations.py` | `service.lock`, backup archive and its manifest, scratch and restored directory | initialize, verify, backup, restore, export, verify an export | the archive is copied file by file; any command is killed between two steps; a restored directory is rebased row by row | a completed backup restores; the service only ever works on a whole directory; a spliced export is refused |
| Command-line agent, `agent.py` | state file of an upload; partial file, output and manifest of a download | upload, download, each resumed by running it again | the source is edited, a run is killed anywhere, a request is executed after the run that sent it is gone, files are names bound to inodes | what is reported is the file; it is uploaded once; what was delivered stays intact; commands end |
| HTTP front end, `server.py` | request threads, zones, the failures of logins | routing, ranges, login and administration | requests overlap | its operations are part of `Identities`, `UploadSessions` and the agent's modules; the rest in section 7 |
| Scanners and classifiers | none | verdict of a payload | failures and time-outs | a nondeterministic verdict |
| Configuration, browser portals, deployment | settings | | | not modelled; see section 7 |

Interaction: request threads change `objects`, `outbound_transfers` and
`upload_sessions` and then call `queue.submit`; a worker claims a row and calls
`scan_object` or `scan_outbound`; a job given up calls `fail_scan_job`; maintenance
calls the same transitions as the requests; start-up calls the queue's `start` before
recovery. They share no locks except the per-upload locks and SQLite's write lock:
everything else rests on guarded updates (`UPDATE ... WHERE id=? AND state=?`).
A guarded update with its audit event is one transaction, hence one atomic step
(`AuditTrail` looks inside that step, and its theorems justify the abstraction); every
read that is used later, every file operation and every thread's local variables are
separate.

The commands of `operations.py` exclude the service by the runtime lock and otherwise meet it
only through the data directory; the agent meets it only through its API, which is why
its module sees the server as `UploadLifecycle`, the specification `UploadSessions` is shown
to implement.

## 2. Modules

| module | models | composed with |
|---|---|---|
| `WorkQueue` | what a queue promises: accepted jobs are tried, end once, are forgotten only when ended | implemented by `JobQueue` |
| `JobQueue` | `SQLiteJobQueue`: rows, leases, worker threads, faults | |
| `JobQueueProofs` | its theorems | extends `JobQueue`, `TLAPS` |
| `ObjectLifecycle` | what an object may go through, and where its payload is meanwhile | implemented by `InboundSystem` |
| `InboundSystem` | inbound requests, `scan_object` step by step, dead letters, sweep, crashes, start-up | extends `JobQueue`: the workers of the queue are the scanning threads |
| `InboundProofs` | its theorems: its use of the queue, its payloads, its refinement, its recovery | extends `InboundSystem`, `JobQueueProofs` |
| `TransferLifecycle` | what a transfer may go through; whose decision stands; when a payload may be in the green buffer | implemented by `Outbound` |
| `Outbound`, `MCOutbound` | policy, `scan_outbound`, decisions, callbacks, release, sweep, crashes, start-up | |
| `OutboundProofs` | the theorems of `Outbound` | extends `Outbound`, `TLAPS` |
| `UploadLifecycle` | what an upload promises its client: at most one object, gap-free, with the announced digest | implemented by `UploadSessions`, used by `AgentUpload` |
| `UploadSessions` | sessions, parts, the lock, completion, sweep, recovery | |
| `UploadProofs` | the theorems of `UploadSessions` and `StagingQuota` | extends both, `FiniteSetTheorems`, `WellFoundedInduction`, `TLAPS` |
| `StagingQuota` | admission of sessions against limits and disk space | |
| `Identities`, `MCIdentities` | accounts, sessions, tokens, logins, synchronisation, restarts | |
| `IdentitiesProofs` | its theorems | extends `Identities`, `FiniteSetTheorems`, `WellFoundedInduction`, `TLAPS` |
| `AuditTrail` | audited transactions statement by statement, the chain, its verification | |
| `AuditTrailProofs` | its theorems | extends `AuditTrail`, `TLAPS` |
| `Custody` | the data directory under service, backup, restore and switch-over; exports | extends `AuditTrail`: the writers are the service's |
| `CustodyProofs` | its theorems | extends `Custody`, `AuditTrailProofs` |
| `AgentUpload` | the agent's upload against the server, run after run | instantiates `UploadLifecycle` as the server |
| `AgentDownload` | the agent's download: inodes and their names | |
| `AgentProofs` | the theorems of both | extends both, `FiniteSetTheorems`, `TLAPS` |

Three modules only put components side by side for a run: `MCInbound` (one object, or the
whole data directory), `MCUploads` (the contents of one upload, or the space of several) and
`MCRetries` (the queue, the agent's upload, or its download). The components share no variable
there; a variable `view`, chosen at the start, says which of them moves, so that their
states add up instead of multiplying. Nothing is lost: no guard of one reads the other. Where
components do interact the specification itself composes them (`InboundSystem`, `Custody`,
`AgentUpload`).

Conventions. A record per thread holds its program counter and the locals it still
uses; an action is the code up to the next point another thread can intervene.
Time is never a number: a flag says that a deadline has passed, and an action that may
happen at any moment sets it (`due`, `stale`, `late`, `ready`, `live`, `lapsed`). A
*fault* is a crash, a dead thread or a lost lease; a *glitch* is an exception out
of storage, a scanner or the database at a point where the code lets one through. Both
are counted against a bound. Definitions marked `Mutant` are plausible defects of
the definition that follows them; no specification uses them.

**JobQueue.** `jobs[i]` is a row; `work[w]` a thread. `Submit` is `INSERT OR IGNORE`
under the unique index over queued and running rows. `Claim` takes the oldest row
that is due or whose lease is over. `Complete`, `Retry` and `Fail` are the three
outcomes, each guarded by `Holds`, the `WHERE` clause with `lease_owner`. `LeaseLost`
is a heartbeat that cannot reach the database, `ThreadDies` an exception `_worker` does
not catch, `Crash` and `Start` the end and `start()` of the process.

**InboundSystem.** `row`, `file` and `relDir` are the row, the place of the payload and
the release directory. `BeginScan` ... `ConcludeScan` follow `scan_object`: transition,
read and rehash, scan, `mkdir`, `os.replace`, `storage_path`, conclude; `FailScan` and
`FailClosed` are its exception handler, `ClaimDeadLetter` and `CondemnDeadLetter`
`fail_scan_job`. `mt` is the sweep: each part reads its rows and then acts on them one by
one, and ends when a transition raises (`SweepGlitch`, or a row that moved on). `boot`
is `main()`: storage check, queue start, recovery of scanning rows, resubmission, serving.

**Outbound.** As above with `scan_outbound`, the decision of a person (`Decide`) or of the
relay (`Callback`, `Dispatch`, `MarkEvent`), and `release_approved_outbound` from `Locate`
to `Settle`. Several requests and the sweep may be inside the same release.

**UploadSessions.** `lock[u]` counts how often the lock object was dropped from
`_upload_locks`; a call waits for the object it found, so `TakeLock` only excludes
calls of the same generation. `stage` and `iso` are the directories, with the version of
every part. `Claim` binds an object id, `Assemble` concatenates and verifies, `Register`
inserts the object, `Finalize`, `WipeStage`, `DeleteParts` and `SubmitScan` follow;
`Undo` is the exception handler.

**Identities.** `users` joins `users` and `local_accounts`. A login is
`Admit` (failures counted), one of the `Verify` actions, `Issue` (one transaction: guarded
insertion and eviction) and the counting of its outcome. `Present` reads a session, and `Touch`
or `RevokeRefused` writes to it afterwards. `UpdateUser` is `mutate_account`, with its
revocations in the same step. `SyncRead` and `SyncApply` are the two ends of a
synchronisation, `Restart` a start with either backend.

**StagingQuota.** Space is counted in parts. `Ask`, `SumReserved` and `Insert` are
`create_upload_session` under its lock: the limits and the sum of what has been received,
the sum of what was promised, the check and the row. Meanwhile parts are cleared, written
and placed, and sessions are claimed, assembled, abandoned, registered, closed and wiped.

**AuditTrail.** `txn[w]` is a thread's transaction: `Enter` (the lock), `Mutate`,
`InsertEvent`, `LinkEvent` and `Commit` follow `execute_audited` and `_append_audit`;
`RollBack` may happen at any of them. A digest is what it was computed from, the tickets of
all events up to its own. `ReadEvents` and `CountChain` are the two reads of
`verify_audit_chain`.

**Custody.** `runtime` is who holds the runtime lock (`service.lock`): the service or a backup; a
restore holds none. `BeginBackup`, `Copy`, `WriteManifest`; `Unpack`, `Replace`, `Rebase`,
`EndRestore`. `astray` are the changes whose rows still name the scratch directory. `SwitchOver`
is the operator who loses the data directory, or finds that no start takes it, and points
the service to the restored one, finished or not; `StartService` checks the payloads as
`harden_existing_storage_permissions` does; `ToolDies` kills any command anywhere.

**AgentUpload.** `run` is the running command, `note` the state file, `net` and `posts` the
parts and completions on their way, which outlive the run that sent them. `Ask`
resumes, starts over or finds the session completed; `SendPart` and `SendComplete` check
the identity of the file as the code does; `Edit` changes it at any time.

**AgentDownload.** A file is an inode; `part` and `out` are names bound to one. `Fetch`,
`WriteBlock`, `EndOfBody`, `Verify`, then `Replace` or `Link` and `DropPart`, `Seal`,
`Describe`. `FetchDies` kills the run anywhere and leaves everything as it is.

## 3. Runs

Bounds are chosen so that each thing the properties are about happens: two threads
where two can collide, one object or name where objects do not interact (their rows,
files and locks are disjoint), two faults where one is recovered from and the
second hits the recovery. `-coverage` shows every action taken in some run.

| run | question | bounds | distinct states |
|---|---|---|---|
| `queue` (`MCRetries`) | queue: does it exclude, end and implement `WorkQueue`? upload: is the file reported, once, in the end? download: does what is delivered stay intact, and does it end? | 2 objects, 2 workers, 2 attempts, 2 rows, 2 faults; 4 sessions, 2 parts, 2 contents, 1 edit, 2 mishaps; 3 objects (two of one block, one of two), 2 commands, 2 deaths, 4 inodes | 433 thousand |
| `inbound` (`MCInbound`) | object: is it always in its life cycle and its payload where the row says? directory: is the trail one history, does a backup restore, is a served directory whole, is an accepted export a history? | 1 object, 2 workers, 1 attempt, 1 trouble (a fault or an exception); 2 writers, 4 transactions, 1 command killed | 1.2 million |
| `inbound_live` | does every scan end and every due object expire? | 1 object, 1 worker, 2 attempts, 2 troubles | 734 thousand |
| `outbound` (`MCOutbound`) | does a payload cross only on one decision, and is an event ever reported without its effect? | 1 transfer, 1 worker, 2 request threads, 2 approvers, 1 relay user, 2 events | 1.1 million |
| `outbound_live` | is what is released servable, and is anything stranded? | 1 request thread, 1 approver, 1 crash or 1 exception | 500 thousand |
| `uploads` (`MCUploads`) | sessions: does an upload implement `UploadLifecycle`, with no orphans and no late parts? admission: are limits and safety reserve kept? | 2 parts in 2 versions, 2 clients, 2 object ids, 2 faults; 3 sessions of 1 or 2 parts, 2 owners with at most 2 sessions and 2 parts each, 2 creating threads, a disk of 5 parts with 1 in reserve, 1 part in flight | 843 thousand |
| `uploads_live` | does every session close and every registered object reach the queue? | 1 part, 1 fault | 156 thousand |
| `identities` | does anything outlive what it was issued on? | 1 name, 2 logins, 2 passwords, 2 sessions with a cap of 1, 1 token, limit of 1 failure | 1.1 million |

Deadlock is checked in no run: the systems really stop, when start-up is refused, when
every session is closed, when a command has succeeded, or when every bounded counter is used
up. That nothing is left waiting is what the liveness properties say.

Symmetry is used for the threads in `MCInbound`, `MCOutbound`, `MCUploads` and
`MCIdentities`. None of them checks liveness.

Why these bounds suffice, where they are tight:

- One object, transfer or name is enough where no guard reads another one's row. The queue,
  whose claim does, has two objects; admission, whose sums do, three sessions.
- `FailureLimit = 1` and `MaxPerUser = 1` put the limit where two logins meet it; a disk of
  5 parts is one on which two sessions of two parts no longer fit in the worst case.
- A third worker adds nothing to the races between two which the properties of the queue are
  about: the proofs cover any number. With three workers and an exception
  `OneReleaserAtATime` needs its exception (section 4), which two workers do not reach; TLC
  finds it with three, and the theorem is about any number.
- Two attempts in `inbound_live` let a job be tried again whose object an exception left in
  `scanning`: that attempt is ignored as a duplicate, and only the sweep ends the scan.
- Four transactions let one be rolled back, one be backed up, one be lost with the directory
  and one follow the restore under the id of the one that was lost; that is the
  splice `AcceptedExportsAreHistories` is about.
- One edit and two mishaps let a run find a session of another content, and be killed while
  it recovers; four sessions are one for each time a run can start over.
- Two commands make one download meet what another left; two deaths put one into the
  recovery of the other. Short objects have one block so that a partial file of one is
  a complete file of the wrong object; the long one can be resumed in the middle.
- `MCOutbound` has no faults: they are the subject of `outbound_live`, since both threads and
  faults together are too many states. With an exception in a release that competes with
  another, the clean-up can remove the payload the other has just moved (hazard at
  `service.py:836`); `TransferInv` and `TransferLifecycle` name that loss (`glitches > 0`,
  `Lossy`). The theorems cover threads and faults together, in any number.

The runs that end in a violation are the findings of section 5.

### Fairness

Liveness assumes what the program's scheduling gives: threads that are alive run (weak
fairness of each thread's steps), time passes (weak fairness of the flags), the maintenance
thread runs again after each interval (weak fairness of the sweep) and a stopped service
is started again. `UploadSessions` also assumes strong fairness of the sweep's
`TakeLock`: requests that keep coming must not keep the lock from the maintenance thread
for ever. Every such property exempts a start-up that is refused: then a person has to act.

For the agent, `AgentFairness` and `DownFairness` assume that a command which failed is given
again, that a running command goes on, and that the server executes what it was sent. The
script or person around the agent does the first; nothing in the agent repeats a
command, so a user who gives up is outside these properties. No fairness is
assumed of kills, lost answers or edits; their number is bounded in the model. Nothing
is assumed about people, relays or the absence of faults elsewhere.

## 4. What the runs show

*Queue.* Until a lease is lost, a thread dies or the process crashes, no object is handled
twice at once (`ExclusiveHandling`). With any faults, a worker that lost its row to another
neither completes, requeues nor fails it, and no row is taken over before its lease has run
out (`OnlyTheOwnerFinishes`); every job ends as long as a thread is left (`JobsFinish`).
`JobQueue` implements `WorkQueue`, which does not see dead letters; that a row is dead-lettered
once is proved only (`RetriesAccounted`).

*Inbound.* Duplicate deliveries, timeouts, recovery and dead letters keep to
`ObjectLifecycle`; what is released can be served, and row and file disagree only while a
thread is between the two steps that change them (`SystemInv`); `mkdir` of
the release directory is what admits one releaser of any number of workers
(`OneReleaserAtATime`), as the docstring of `jobs.py` hints. There is one way past it: the
object was released and has expired, the sweep raised between unlinking the payload and
clearing its path, and the purge that repeats this takes away a directory a late scan has
just made. Then no payload is left to move. Recovery runs beside the workers and still forgets no pending object
(`RecoveryForgetsNothing`).

*Outbound.* A payload crosses into the green buffer only after a decision, which stands until
the transfer expires (`ImplementsLifecycle`). It can be overruled in one way: a second approver
who finds the payload gone expires the transfer in his own name (`Overrule`, the finding
`second_decision`). What is released can be served unless an exception made a competing
clean-up remove it (`TransferInv`); an event reported as processed had its effect, in any
order and repetition (`ProcessedEventsTakeEffect`); classified and approved transfers settle.

*Uploads.* A popped lock object lets two calls in at once only when the session is closed
(`SessionInv`); crashes at any step leave no second object and no unfinished one
(`ImplementsLifecycle`), no orphan in isolation and no staged part unaccounted for. A session
is finalized before its scan is submitted (`EnqueuedOnlyAfterFinalized`), unless an exception
made the finalization itself fail: the premise of the property says so, and the hazard at
`service.py:433` tells what happens then.

*Admission.* Concurrent creations never pass the limits of a user, and what was admitted never
uses up the safety reserve (`AdmissionHolds`), with one exception. The sums of received and of
promised bytes are two queries (`service.py:238-247`) and the lock keeps out
other creations, not sessions that close. A session that closes between the two still counts as
received and no longer as promised, and too little is reserved. The variable `torn` marks
such an admission and the property exempts the reserve after it; without the exemption TLC
finds the reserve used up, which is not the conservative accounting of `README.md:60` of the
repository. Every part checks the free space again, so what follows is a refused part.

*Audit trail.* Whatever is rolled back or cut off, ids are consecutive and every event continues
the chain (`TrailIntact`); a change and its event are committed together or not at all
(`EveryChangeIsLogged`). `verify_audit_chain` on a running service reads twice without a
transaction (`db.py:328-332`), so an event committed in between looks like a broken
chain; `AlarmsAreRaces` says that nothing else does.

*Backup and restore.* Because a backup has the runtime lock, database, payloads and the head
in the manifest are of one moment (`BackupsRestore`). A restore holds no lock
on its target, and a directory whose restore was killed after `os.replace`, or is still
rewriting rows, looks complete but names the scratch directory. The operator may start the
service there at any moment; what keeps it from working on half a directory is the check of
a start, and that a restore only ever puts rows right, so that once all are right none is left
to rewrite under a running service (`ServedDirectoryIsWhole`). After a switch to a restored directory the ids of
the lost events are given out again; an export spliced from before and after is refused by
its hashes, a truncated one only if the head was kept (`AcceptedExportsAreHistories`).

*Agent.* An upload reports an object with the content the file had when the run began
(`ReportedIsTheFile`), also when session, parts or the completion itself are the work of
earlier runs. Runs that are killed, lose answers, or find their session cancelled or expired
do not upload it twice (`UploadedOnce`). The agent does upload again when an earlier run had
finished with the file, and when the session of the state file is still completing, has
an object already without being completed, or cannot be asked for: `agent.py:228-235` then
makes a new session, although the earlier completion may yet succeed. The variable `again`
names exactly these runs. What a download delivers stays what it
was delivered as (`DeliveredIsIntact`), with one exception: a run killed between `os.link` and
`unlink` (`agent.py:363-365`) leaves one inode under both names, and the next run
writes into the file that was delivered (`aliased`). Commands end (`UploadsEnd`, `DownloadsEnd`),
but a download does not get past a partial file of another object or one that is
read-only (`Stuck`): it is verified, refused, and kept. That is also where a run without
`--overwrite` is left that died after its own link.

*Identities.* Binding the insertion to the verified password closes the race
between a login and a reset (`NoStaleCredential`); an account an administrator disabled, or
a start with the other backend, leaves no live session to come back
(`NoSessionOutlivesItsGrounds`); a token cannot be issued past the disabling of
its owner; concurrent attempts exceed the failure limit by at most one less than their
number (`FailuresBounded`). A *synchronisation* that disables an account revokes
nothing, so a session from before works again when a later synchronisation enables the
account; the README of the repository (line 169) leaves that to the deployment, and the
property speaks of administrators and starts.

## 5. Disagreements found

| run | what |
|---|---|
| `rescan_dropped` | A rescan requested while the worker of the previous scan has yet to close its row is ignored by the unique index; the object stays pending without a job. |
| `second_decision` | The second of two decisions finds the payload moved by the first and expires a transfer that is approved or released, although nothing was modified. |
| `interrupted_release` | A crash between moving an approved payload and recording its path makes the storage check refuse the next start; the promised retry never runs. |
| `relay_row` | The WeCom provider reads a column outbound rows do not have; nothing is ever sent to the relay. |

The main outbound runs therefore set `RowHasProject` to TRUE, as the rows of
`tests/test_approvals.py` have it: otherwise the relay's side of the model would never be
reached.

Behaviours that are no disagreement with a particular promise, or that a property has to
exempt, are told where the property is: the torn sums of an admission, the alarm of an
unlocked verification, the link of a killed download and the partial files no run gets past
(section 4), the directory an interrupted release leaves (hazard at `service.py:1009`).

## 6. Proofs

`JobQueueProofs` proves, from `QueueConstants` alone (a positive number of attempts,
`NoWorker` no worker), for any sets of objects and workers and any bounds:

- `TypeCorrect`: `TypeOK`.
- `QueueInvariant`: `QueueInv`, the inductive invariant. `OwnersAgree` ties a running
  row to the thread its owner names and to that thread's count of attempts; without it a
  retry could not be related to the row. `OneActiveRow` is the unique index.
  `FaultFree` says that without a fault busy threads own their rows. `AttemptsSpare`
  says that a row that can be claimed once more has an attempt or a fault to spare: it is
  what makes the bound on attempts inductive, because a claim that follows a lost
  lease adds an attempt without a retry. One lemma per operation shows that it is kept.
- `NeverTwiceAtOnce`, `NoOrphanedRow`, `RetriesAccounted`, `StaleWorkersEndNothing`: the
  safety properties of the queue, those of the run and what only the proofs claim: no
  running row without a worker, attempts counted exactly, jobs given up only at the limit and
  dead-lettered once. The last of the four is an action property: `OwnerStep` shows for each of
  the three outcomes that the thread whose step it is owns the row, `TakeOverStep` that a claim
  finds the lease run out.
- `QueueRefinement`: initial states map to initial states and each step to a step of
  `WorkQueue` or a stutter. `Invisible` and `OneRowVisible` say what a change of rows looks
  like through the mapping.

`InboundProofs` carries these to the service that uses the queue. `ServiceUsesQueue`
(`SystemSpec => Spec`) shows that every step of `InboundSystem`, a request, a step of a scan,
its outcome, an exception, a fault, the sweep or the start-up, is a step of `JobQueue` or leaves
its variables alone, group by group of `SystemNext`; `ScansExclude`, `StaleScansEndNothing` and
`ServiceKeepsJobs` follow from the theorems about the queue. Then, from
`QueueConstants` and `SystemConstants`, it turns to the objects:

- `PayloadsAreTracked`: `Whereabouts`, the inductive invariant, in layers. `Actors` says who works
  for whom: `ThreadOk` ties the locals of a scan to the thread's place in the queue's protocol,
  `JobOk` a job to an object that exists, `BootOk` the sweep and the workers to start-up.
  `Payloads` is about each object on its own: where the payload may be (`PlaceOk`), what the
  purge has yet to do (`PurgeOk`), what each step of a release finds (`ReleaserOk`), and that two
  threads are past `mkdir` only in the exception above (`PairOk`). `Running`
  (with `Accounted`) and `Hardened` say that row and file agree without storage errors. Most
  steps do not touch a payload; `QuietRule` is one lemma for them, so that only `mkdir`, the move,
  the new path, the purge and the exception handlers are argued one by one.
- `ReleasedPayloadsAreThere` and `OneReleaser` are consequences of it.
- `ObjectRefinement`: every step maps to a step of `ObjectLifecycle` or a stutter. What it takes
  is `OnlyFromIsolation`: the payload is moved once.
- `RecoveryIsComplete`: `Recovery` adds what start-up rests on while the workers already run.
  `SeenOk`: a thread past its first transition has seen that its object does not wait any
  more, so a job that ends leaves nothing pending behind; `QueuedOk`: what recovery has dealt
  with has a job.

`UploadProofs`, from `SessionConstants` (no content is `NoContent`; callers are distinct), for any
numbers of uploads, parts, contents, clients, ids and faults:

- `Invariance`: `Inv`. Its first half, `Inductive`, holds whatever happens: who may be where
  (`RoleOk`), what each step of a call finds (`CallOk`), the lock (`LockInv`), the session with
  its object (`UploadOk`) and start-up (`BootInv`). Its second half, `Undisturbed`, holds as long
  as no step has raised, and says who answers for what is unfinished: for an object without a
  completed session, a directory without an object, a part without a file, and the
  staging of a closed session there is always a call, or a recovery still to come.
- `LocalStep` is the rule behind the lemmas of the steps: a call either is alone at its upload, by
  the lock, or its step leaves what the others rely on (`Relied`), so each step answers for
  its own call and upload only. Crash, start-up and recovery are argued on their own.
- `LocksHold`, `ReportedPartsAreOnDisk`, `IsolationAccounted`, `ClosedSessionsAreReclaimed` and
  `ScansFollowFinalization` are consequences; `ImplementsUploadLifecycle` maps each step.

and, from `QuotaConstants` (finitely many tickets, sizes of at least one part, a reserve no larger
than the disk), for any disk, limits, sizes and users:

- `AdmissionsFit`: `QuotaInv`. The property speaks of the space that is free now; it is inductive
  only in terms of what every session may still grow to (`Needs`, twice the size of an open one):
  unless `torn`, all of that fits on the disk beside the reserve and what is already kept. While a
  creation is under way, `AdmissionOk` says that the sums it has read err on the safe side
  of the sums as they now stand, though parts arrive and sessions move on between the two queries.
  `SpaceRule` is the rule for the steps of one session.
- The sums rest on lemmas about `SumFunctionOnSet` (`TotalUnfolds`, `TotalsCompare`, `TotalMoves`
  and others). Each is an induction over the subsets of a finite set, put as an argument
  about a smallest subset for which the lemma fails (`SmallestSet`): a family of subsets is a set, so
  that no operator parameter is needed.

`OutboundProofs`, from `OutboundConstants` (no name is `Nobody`, persons are no events), for any
numbers of transfers, workers, threads, people, events, crashes and exceptions:

- `TransfersAreTracked`: `Inv`. Nothing locks a transfer, and several calls and the sweep may be
  inside one release. What makes that safe is that each of them relies on facts no step
  of anybody takes back: `Onward` lists them (a decision once taken stays one; expired stays
  expired; a payload that has left isolation does not return; the path to the green
  buffer stays while the transfer lives). `StepKeepsInv` is the rule: a step shows that its
  transfer goes onward and answers for its own thread. `RowOk` relates row, payload and decider,
  and `CallerOk` says what each point of a call knows: its role, the meaning of its event, that
  there is a decision to make, and what a release finds *as long as the transfer has not
  expired*. Without that premise it would not be inductive: the sweep may expire and
  purge a transfer in the middle of a release.
- `ReleasedTransfersAreServable` and `ProcessedEventsAreEffective` are consequences.
- `OutboundImplementsLifecycle`: each step maps to one of `TransferLifecycle` or a stutter, with
  `Lossy` standing for a bound on exceptions above zero.

`IdentitiesProofs` proves every property of the `identities` run from `IdentityConstants`
alone (no name is `NoName`, finitely many request threads, positive limits), for any
numbers of names, threads, passwords, sessions and tokens:

- `IdentityInvariant`: `IdentityInv`, the inductive invariant. `SessionsGrounded` and
  `TokensGrounded` say what each live session and token rests on; `LoginsGrounded` that a
  login in flight has a name and, with the local backend, a password an account has. The
  last is needed because a start sets a password where there is none: no session may rest
  on that. `Keeps` is what most steps do to an account; `CredentialStep`,
  `HandlerStep`, `LoginMoves` and `AccountStep` are the shapes of a step, and each action
  is shown to have one of them. `Issue` and `Restart` are argued on their own.
- `TypeCorrect`, `CurrentCredentials`, `RevokedForGood`, `TokensRevoked`: consequences.
- `SessionsCapped`: only an insertion makes a session live (`OnlyLoginsAddSessions`), and
  what its eviction leaves is within the cap (`EvictionCaps`): the oldest of too many
  would have at least `MaxPerUser` newer ones and so be evicted. That there is an oldest
  one is `OldestSession`, from the well-foundedness of the natural numbers.
- `FailuresCapped`: failures and logins in flight only grow together by an admission,
  which happens below the limit.

`AuditTrailProofs`, from `TrailConstants` (no thread is `NoWriter`; a bound), for any number of
threads and transactions:

- `TrailInvariant`: `TrailInv`. The argument is the lock: `Guarded` says that a thread inside a
  transaction has it, and that the next id and the newest digest it has read are still those
  of the trail. `Sound` is the trail itself, as an operator on five values so that
  `CustodyProofs` can say it of an archive too; `SoundWithOneMore` is the commit.
- `TrailStaysIntact`, `ChangesAreLogged`, `AlarmsExplained` follow; the last from
  `CheckerBehind`: the first read can only have seen less than the trail.

`CustodyProofs`, from the same constants:

- `CustodyInvariant`: `CustodyInv` extends `TrailInv`. `Copying` is what the runtime lock gives a
  backup: what has been copied is still what is there. `PayloadsFirst`, a payload is on disk
  before its row, is why the archive has all of them; `Quiet`, that nothing of the service
  outlives its hold of the lock; `ArchiveWhole`, `Restoring` and `TargetIsACopy` carry it
  through the restore. `LeftIsAstray`, a row a restore has yet to rewrite is astray, and
  `NoneAstrayInUse`, none is while the service runs, follow the restored directory
  through a switch-over in the middle of its restore.
- `CompletedBackupsRestore`, `OnlyWholeDirectoriesAreServed`, and `TrailOutlivesRestores`: the
  trail is intact also after a switch to a restored directory.
- `NoSplicedExport`: an export that is accepted is a history. A digest is what it was computed
  from, so equal digests have equal pasts; of the lines in which a spliced export differs
  from the trail its last line comes from, there would be a largest, and the line after it
  agrees although its digest stands on the differing one. That there is a largest is the
  well-foundedness of the numbers, applied to their distance from the end. `PastIsAnExport`
  is what a switch-over preserves: the trail given up was sound too.

`AgentProofs`, from `AgentConstants` and `DownloadConstants`, for any numbers of sessions, parts,
objects, edits, commands, kills and lost answers:

- `ReportsAreTrue`: `UploadInv` says that run, state file and reports each rest on a session
  made for their digest (`Backed`), and that a completed one has an object, of that
  digest. `ServerKeeps` is what they need of the server: `Advances`, and whole objects.
- `UploadsHappenOnce`: `OnceInv`. A session is *in play* when it has an object, is completing
  or completed, or it is open and a request to complete it is on its way, for then it may get
  an object without any run; a request to a session that is closed comes too late. `Sole` is the theorem for sessions in play. It is inductive only with
  `InPlayIsNoted` (of a file runs may still begin for, the state file names the session in
  play), `RunNoted` (it is the one the run works on), `NoneInPlay` (a run makes a session only
  if there is none) and `IdentsAgree` (identities grow and stand for one content each, so that
  a state file for this identity is one for this content). The steps that bring nothing into
  play are one lemma, `QuietStep`; each of the others has its own.
- `DeliveriesStayIntact`: `DownInv`. `NamesApart` says that a partial file is never a delivered
  one but between link and unlink, and `RunKnows` what each point of a run knows;
  `WritesPreserve` and `DeliveryPreserves` are the two steps that matter.

Only model-checked: all liveness properties (fairness and ENABLED are beyond the prover). Every
other property of the passing runs is stated by a theorem. The four properties of section 5 are
refuted by TLC, not proved.

## 7. Not modelled

- *HTTP front end*: routing, zone headers, request framing. What changes state
  goes through the operations modelled. The semaphore that bounds request threads and the
  rate limiter refuse a request before it has changed anything.
- *Scanners, classifiers, configuration*: stateless; their answers are choices of
  `RunScanners`, `Judge` and the refusals.
- *Production differences*: the models follow the development mode where the two differ in
  storage checks. Production also refuses a released file whose mode is not 0400, refuses
  single-shot uploads, refuses starts on a number of database contents, and promotes no
  transfer while `require_runtime_acceptance()` reports drift (`service.py:817`).
- *Starts with one workflow enabled*: they check the tables of that workflow only
  (`service.py:1099`); `Custody` has both enabled.
- *Outbound*: the table of callback nonces; the leases of the queue, whose part is
  played by "a pending transfer may be claimed by any worker".
- *Uploads*: the staging directory a creation that dies before its row leaves behind, and the
  isolation directory of an upload that does; the empty directory that `rmtree` leaves when
  a part is received meanwhile; limits that change while sessions are open.
- *Identities*: the zone a session is bound to, static development tokens, the approver
  role, the configuration of the synchronisation, an administrator whose own account
  changes during a request. One name is checked, so a statement that touched another
  name's rows would go unseen; the theorems hold for any number of names.
- *Maintenance*: an exception in one part ends the whole run; this is modelled within
  a part, not from one part to another. The start-up's own maintenance run is covered by
  sweeps that may begin as soon as the service serves.
- *Store*: schema migrations, the triggers that make the trail append-only, housekeeping that
  writes no event.
- *Operations commands*: preflight, the release manifest and the fingerprint of the
  configuration, which only read.
- *Agent*: checks of its arguments, TLS and tokens; two agents at once on one output or one
  state file; a file whose content changes without a change of its identity.
- *Portals, deployment*: user interface and configuration of other programs.

## 8. Plan

1. Done: `JobQueue`, `InboundSystem`, `Outbound`, `UploadSessions`, `Identities`,
   `StagingQuota`, `AuditTrail`, `Custody`, `AgentUpload` and `AgentDownload`, each with its runs;
   `WorkQueue`, `ObjectLifecycle`, `TransferLifecycle` and `UploadLifecycle` as what they
   implement; proofs of every safety property the passing runs check.
2. Maintenance as one thread: the parts of a run one after the other, with an exception in one
   that skips the rest (`service.py:1151-1250`).
3. Outbound over `JobQueue` instead of a claim by anyone, as `InboundSystem` has it; the
   nonces of callbacks.
4. The request semaphore and the limiter, with a client that retries.
