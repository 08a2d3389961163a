------------------------------- MODULE StagingQuota -------------------------------
(***************************************************************************)
(* Admission of upload sessions (src/src/sfss/service.py): the limits per  *)
(* user and the disk space kept free whatever the admitted sessions do.    *)
(*                                                                         *)
(* Space is counted in parts of one size.  A part being received is first  *)
(* cleared (the free space was looked at), then on disk in a temporary     *)
(* file; a session has files parts in place, all of them recorded.  The    *)
(* module is about space only: UploadSessions has the contents, the locks  *)
(* of single uploads, failures and restarts.                               *)
(***************************************************************************)
EXTENDS Naturals, Integers, FiniteSets, Functions

CONSTANTS Tickets,      \* upload ids, drawn in order
          Owners,
          Admitters,    \* request threads that create sessions
          Sizes,        \* total_size, in parts
          Capacity,     \* of the disk
          MinFree,      \* min_free_bytes
          ActiveLimit,  \* max_active_uploads_per_user
          StagedLimit,  \* max_staged_bytes_per_user
          MaxInFlight   \* bound of the model: parts being received at once

ASSUME QuotaConstants ==
  /\ Tickets \subseteq Nat /\ IsFiniteSet(Tickets)
  /\ Sizes \subseteq Nat \ {0} /\ Capacity \in Nat /\ MinFree \in 0..Capacity
  /\ ActiveLimit \in Nat /\ StagedLimit \in Nat /\ MaxInFlight \in Nat

VARIABLES staged,   \* per upload: its row and what its staging directory takes
          kept,     \* space of the objects that completed uploads became
          admit,    \* per thread: where it is in create_upload_session(), what it read
          torn      \* a session closed between the two sums of an admission

quotaVars == <<staged, kept, admit, torn>>

NoTicket == [state |-> "absent", owner |-> "none", size |-> 0,
             files |-> 0, cleared |-> 0, temps |-> 0, assembled |-> FALSE]
NoAdmission == [pc |-> "idle", owner |-> "none", size |-> 0, received |-> 0, reserved |-> 0]

QuotaInit ==
  /\ staged = [t \in Tickets |-> NoTicket]
  /\ kept = 0
  /\ admit = [a \in Admitters |-> NoAdmission]
  /\ torn = FALSE

Open   == {t \in Tickets : staged[t].state \in {"uploading", "completing"}}
OpenOf(o) == {t \in Open : staged[t].owner = o}

Total(S, f) == SumFunctionOnSet(f, S)
Size     == [t \in Tickets |-> staged[t].size]
Files    == [t \in Tickets |-> staged[t].files]
InFlight == [t \in Tickets |-> staged[t].cleared + staged[t].temps]
Bytes    == [t \in Tickets |-> staged[t].files + staged[t].temps
                                + (IF staged[t].assembled THEN staged[t].size ELSE 0)]

\* shutil.disk_usage().free
Free == Capacity - kept - Total(Tickets, Bytes)

\* require_storage_capacity()
Fits(n) == Free - n >= MinFree

------------------------------------------------------------------------------
(* create_upload_session(), under _upload_session_lock.  Each sum is a     *)
(* query of its own, and uploads go on meanwhile.                          *)

WithinLimits(o, n) ==
  /\ Cardinality(OpenOf(o)) < ActiveLimit
  /\ Total(OpenOf(o), Size) + n <= StagedLimit

\* Mutant: the limits are looked at before the lock is taken.
AskUnlocked(a) ==
  /\ admit[a].pc = "idle"
  /\ \E o \in Owners, n \in Sizes :
       /\ WithinLimits(o, n)
       /\ admit' = [admit EXCEPT ![a] = [pc |-> "sum", owner |-> o, size |-> n,
                                         received |-> Total(Open, Files), reserved |-> 0]]
  /\ UNCHANGED <<staged, kept, torn>>

Ask(a) ==
  /\ \A b \in Admitters : admit[b].pc = "idle"
  /\ \E o \in Owners, n \in Sizes :
       /\ WithinLimits(o, n)
       /\ admit' = [admit EXCEPT ![a] = [pc |-> "sum", owner |-> o, size |-> n,
                                         received |-> Total(Open, Files), reserved |-> 0]]
  /\ UNCHANGED <<staged, kept, torn>>

SumReserved(a) ==
  /\ admit[a].pc = "sum"
  /\ admit' = [admit EXCEPT ![a].pc = "insert", ![a].reserved = Total(Open, Size)]
  /\ UNCHANGED <<staged, kept, torn>>

\* All remaining parts arrive and every active upload is assembled at the same time.
WorstCase(a) == (2 * admit[a].reserved - admit[a].received) + 2 * admit[a].size

\* Nothing is written but an empty directory when the space is refused (507).
Insert(a, t) ==
  /\ admit[a].pc = "insert"
  /\ staged[t].state = "absent"
  /\ \A s \in Tickets : s < t => staged[s].state # "absent"
  /\ staged' = IF Fits(WorstCase(a))
               THEN [staged EXCEPT ![t] = [NoTicket EXCEPT !.state = "uploading",
                                             !.owner = admit[a].owner, !.size = admit[a].size]]
               ELSE staged
  /\ admit' = [admit EXCEPT ![a] = NoAdmission]
  /\ UNCHANGED <<kept, torn>>

------------------------------------------------------------------------------
(* The space an admitted upload takes.                                     *)

\* A part, sent for the first time or again.
ClearPart(t) ==
  /\ staged[t].state = "uploading"
  /\ Fits(1)
  /\ Total(Tickets, InFlight) < MaxInFlight
  /\ staged' = [staged EXCEPT ![t].cleared = @ + 1]
  /\ UNCHANGED <<kept, admit, torn>>

WritePart(t) ==
  /\ staged[t].cleared > 0
  /\ staged' = [staged EXCEPT ![t].cleared = @ - 1, ![t].temps = @ + 1]
  /\ UNCHANGED <<kept, admit, torn>>

\* It is put in place, over an earlier copy or not, or refused and deleted.
PlacePart(t) ==
  /\ staged[t].temps > 0
  /\ \E n \in {staged[t].files, staged[t].files + 1} :
       /\ n # staged[t].files => staged[t].state = "uploading" /\ n <= staged[t].size
       /\ staged' = [staged EXCEPT ![t].temps = @ - 1, ![t].files = n]
  /\ UNCHANGED <<kept, admit, torn>>

ClaimStaged(t) ==
  /\ staged[t].state = "uploading"
  /\ staged[t].files = staged[t].size
  /\ Fits(staged[t].size)
  /\ staged' = [staged EXCEPT ![t].state = "completing"]
  /\ UNCHANGED <<kept, admit, torn>>

AssembleStaged(t) ==
  /\ staged[t].state = "completing" /\ ~staged[t].assembled
  /\ staged' = [staged EXCEPT ![t].assembled = TRUE]
  /\ UNCHANGED <<kept, admit, torn>>

\* The digest is wrong, or registering fails.
AbandonStaged(t) ==
  /\ staged[t].state = "completing"
  /\ staged' = [staged EXCEPT ![t].state = "uploading", ![t].assembled = FALSE]
  /\ UNCHANGED <<kept, admit, torn>>

\* Nobody looks at the row of a closed session again, but its files stay for a while.
Shuts(t) ==
  /\ staged' = [staged EXCEPT ![t].state = "closed", ![t].owner = "none", ![t].size = 0,
                               ![t].assembled = FALSE]
  /\ torn' = (torn \/ \E a \in Admitters : admit[a].pc = "sum")
  /\ UNCHANGED admit

\* The assembled file moves to isolation and the session is finalized ...
RegisterStaged(t) ==
  /\ staged[t].state = "completing" /\ staged[t].assembled
  /\ kept' = kept + staged[t].size
  /\ Shuts(t)

\* ... or it is cancelled or expires ...
CloseStaged(t) ==
  /\ staged[t].state = "uploading"
  /\ Shuts(t)
  /\ UNCHANGED kept

\* ... and its parts are deleted.  A temporary file still open keeps its space.
WipeStaged(t) ==
  /\ staged[t].state = "closed"
  /\ staged' = [staged EXCEPT ![t].files = 0]
  /\ UNCHANGED <<kept, admit, torn>>

QuotaNext ==
  \/ \E a \in Admitters : Ask(a) \/ SumReserved(a) \/ \E t \in Tickets : Insert(a, t)
  \/ \E t \in Tickets : \/ ClearPart(t) \/ WritePart(t) \/ PlacePart(t) \/ ClaimStaged(t)
                        \/ AssembleStaged(t) \/ AbandonStaged(t) \/ RegisterStaged(t)
                        \/ CloseStaged(t) \/ WipeStaged(t)

QuotaSpec == QuotaInit /\ [][QuotaNext]_quotaVars

------------------------------------------------------------------------------
(* Properties.                                                             *)

\* Temporary files nobody reserved: of a part sent again over a full session, or still
\* being received when the session was closed.
Excess(t) ==
  IF t \in Open
  THEN IF staged[t].files + staged[t].temps > staged[t].size
       THEN staged[t].files + staged[t].temps - staged[t].size ELSE 0
  ELSE staged[t].temps
Unreserved == [t \in Tickets |-> Excess(t)]

\* Concurrent creations never get a user past the limits of active sessions and of
\* staged bytes, although each limit is read before the row that counts is inserted.
\* And "multipart admission conservatively accounts for outstanding parts and the
\* temporary full-size assembly copy" (README.md): the safety reserve is never used up by
\* what was admitted, short of the temporary files above.  An admission whose two sums saw
\* a session close between them may reserve too little: the closed session counts as
\* received and no longer as reserved.
AdmissionHolds ==
  /\ \A o \in Owners : /\ Cardinality(OpenOf(o)) <= ActiveLimit
                       /\ Total(OpenOf(o), Size) <= StagedLimit
  /\ torn \/ Free + Total(Tickets, Unreserved) >= MinFree
==============================================================================
