---------------------------------- MODULE Custody ----------------------------------
(***************************************************************************)
(* The data directory between the service and the offline commands of      *)
(* src/src/sfss/operations.py: who may have it open, backup into an        *)
(* archive, restore into a new directory, and export of the audit trail.   *)
(*                                                                         *)
(* A change that was committed under a ticket registered one payload,      *)
(* which was on disk before.  A restore moves a directory whose rows name  *)
(* the place it was moved from; those still to be put right are astray.    *)
(* No lock keeps the service off a directory that is being restored.       *)
(***************************************************************************)
EXTENDS AuditTrail, SequencesExt

CONSTANTS MaxToolDeaths   \* bound of the model: commands that fail or are killed

ASSUME CustodyConstants == MaxToolDeaths \in Nat

VARIABLES runtime,   \* who holds runtime.lock: "service", "backup" or nobody
          files,     \* payloads in the data directory
          astray,    \* changes whose rows there name a path outside it
          archive,   \* the backup
          target,    \* the directory a backup is restored into
          tool,      \* the command at work
          past,      \* the trail of a data directory that was given up
          toolDeaths

custodyVars == <<trailVars, runtime, files, astray, archive, target, tool, past, toolDeaths>>
dataVars    == <<trailVars, files, astray, past>>

Nowhere   == [state |-> "absent", events |-> <<>>, chain |-> <<>>, applied |-> {},
              files |-> {}, astray |-> {}, head |-> Genesis]
IdleTool  == [pc |-> "idle", todo |-> {}, head |-> Genesis]

CustodyInit ==
  /\ TrailInit
  /\ runtime = "nobody" /\ files = {} /\ astray = {}
  /\ archive = Nowhere /\ target = Nowhere
  /\ tool = IdleTool /\ past = <<>> /\ toolDeaths = 0

------------------------------------------------------------------------------
(* What verify_data requires of a directory, and verify_audit_export of lines. *)

\* Mutant: a payload is looked for where it should be, not where its row says it is.
FoundByName(d, n) == n \in d.files

Found(d, n) == n \in d.files /\ n \notin d.astray

PayloadsFound(d) == \A n \in d.applied : Found(d, n)

Verified(d) == Linked(d.events, d.chain) /\ PayloadsFound(d)

Data == [Nowhere EXCEPT !.events = events, !.chain = chain, !.applied = applied,
                        !.files = files, !.astray = astray]

\* An export has the rows of the trail, one a line.
ExportOf(es, c) == [i \in 1..Len(es) |-> [id |-> es[i].id, of |-> es[i].of,
                                          prev |-> c[i].prev, hash |-> c[i].hash]]

\* Mutant: the ids alone are compared.
Numbered(lines) == \A i \in 1..Len(lines) : lines[i].id = i

Accepted(lines) ==
  \A i \in 1..Len(lines) :
    /\ lines[i].id = i
    /\ lines[i].prev = IF i = 1 THEN Genesis ELSE lines[i - 1].hash
    /\ lines[i].hash = Append(lines[i].prev, lines[i].of)

------------------------------------------------------------------------------
(* The service.                                                            *)

\* A start checks that every payload is where its row says (both workflows are enabled: a
\* start with one checks the table of that one).  It does so row by row, but as a restore
\* at work only puts rows right, this is to check them all at the last moment.
StartService ==
  /\ runtime = "nobody" /\ PayloadsFound(Data)
  /\ runtime' = "service"
  /\ UNCHANGED <<dataVars, archive, target, tool, toolDeaths>>

Serve ==
  /\ runtime = "service"
  /\ \/ /\ \E w \in Writers : WriterStep(w)
        /\ files' = files \cup {txn[w].ticket : w \in {v \in Writers : Step(v, "mutate")}}
     \/ (ReadEvents \/ CountChain) /\ UNCHANGED files
  /\ UNCHANGED <<runtime, astray, archive, target, tool, past, toolDeaths>>

\* It stops or dies; the operating system drops the lock.
StopService ==
  /\ runtime = "service"
  /\ TrailCrash
  /\ runtime' = "nobody"
  /\ UNCHANGED <<files, astray, archive, target, tool, past, toolDeaths>>

------------------------------------------------------------------------------
(* Backup.                                                                 *)

\* Mutant: the data directory is read whoever has it open.
BackupUnlocked ==
  /\ tool.pc = "idle" /\ archive.state = "absent"
  /\ Verified(Data)
  /\ archive' = [Nowhere EXCEPT !.state = "partial"]
  /\ tool' = [pc |-> "copy", todo |-> {"database", "payloads"}, head |-> HeadOf(chain)]
  /\ UNCHANGED <<dataVars, runtime, target, toolDeaths>>

BeginBackup ==
  /\ tool.pc = "idle" /\ archive.state = "absent"
  /\ runtime = "nobody" /\ Verified(Data)
  /\ runtime' = "backup"
  /\ archive' = [Nowhere EXCEPT !.state = "partial"]
  /\ tool' = [pc |-> "copy", todo |-> {"database", "payloads"}, head |-> HeadOf(chain)]
  /\ UNCHANGED <<dataVars, target, toolDeaths>>

\* The directory is copied file by file, in whatever order its entries come.
Copy(part) ==
  /\ tool.pc = "copy" /\ part \in tool.todo
  /\ tool' = [tool EXCEPT !.todo = @ \ {part}]
  /\ archive' = IF part = "payloads" THEN [archive EXCEPT !.files = files]
                ELSE [archive EXCEPT !.events = events, !.chain = chain, !.applied = applied,
                                     !.astray = astray]
  /\ UNCHANGED <<dataVars, runtime, target, toolDeaths>>

\* The manifest comes last: an archive that was cut short has none.
WriteManifest ==
  /\ tool.pc = "copy" /\ tool.todo = {}
  /\ archive' = [archive EXCEPT !.state = "complete", !.head = tool.head]
  /\ tool' = IdleTool
  /\ runtime' = IF runtime = "backup" THEN "nobody" ELSE runtime
  /\ UNCHANGED <<dataVars, target, toolDeaths>>

------------------------------------------------------------------------------
(* Restore.                                                                *)

\* The archive is unpacked, rebased and verified in the scratch directory, out of sight.
Unpack ==
  /\ tool.pc = "idle"
  /\ target.state = "absent" /\ archive.state = "complete"
  /\ Verified(archive) /\ HeadOf(archive.chain) = archive.head
  /\ tool' = [IdleTool EXCEPT !.pc = "replace"]
  /\ UNCHANGED <<dataVars, runtime, archive, target, toolDeaths>>

\* os.replace puts the directory in its place, where no row of it points yet.
Replace ==
  /\ tool.pc = "replace"
  /\ target' = [archive EXCEPT !.state = "restored", !.astray = archive.applied]
  /\ tool' = [IdleTool EXCEPT !.pc = "rebase", !.todo = archive.applied]
  /\ UNCHANGED <<dataVars, runtime, archive, toolDeaths>>

\* One statement and one transaction for each row, also when the service has been pointed
\* to the directory meanwhile.
Rebase(n) ==
  /\ tool.pc = "rebase" /\ n \in tool.todo
  /\ \/ /\ target.state = "restored"
        /\ target' = [target EXCEPT !.astray = @ \ {n}] /\ UNCHANGED astray
     \/ /\ target.state = "absent"
        /\ astray' = astray \ {n} /\ UNCHANGED target
  /\ tool' = [tool EXCEPT !.todo = @ \ {n}]
  /\ UNCHANGED <<trailVars, files, past, runtime, archive, toolDeaths>>

EndRestore ==
  /\ tool.pc = "rebase" /\ tool.todo = {}
  /\ tool' = IdleTool
  /\ UNCHANGED <<dataVars, runtime, archive, target, toolDeaths>>

\* An exception makes backup remove its output; a kill does not.
ToolDies ==
  /\ tool.pc # "idle" /\ toolDeaths < MaxToolDeaths
  /\ toolDeaths' = toolDeaths + 1
  /\ tool' = IdleTool
  /\ runtime' = IF runtime = "backup" THEN "nobody" ELSE runtime
  /\ archive' \in IF tool.pc = "copy" THEN {archive, Nowhere} ELSE {archive}
  /\ UNCHANGED <<dataVars, target>>

\* The operator clears away what cannot be used, which both commands refuse to replace.
ClearAway ==
  /\ tool.pc = "idle"
  /\ \/ /\ archive.state = "partial"
        /\ archive' = Nowhere /\ UNCHANGED target
     \/ /\ target.state = "restored" /\ ~Verified(target)
        /\ target' = Nowhere /\ UNCHANGED archive
  /\ UNCHANGED <<dataVars, runtime, tool, toolDeaths>>

\* The data directory is lost, or is a restored one that no start takes; the operator
\* points the service to the restored directory, which nothing marks as unfinished.
SwitchOver ==
  /\ runtime = "nobody" /\ target.state = "restored"
  /\ past = <<>> \/ ~PayloadsFound(Data)
  /\ past' = IF past = <<>> THEN ExportOf(events, chain) ELSE past
  /\ events' = target.events /\ chain' = target.chain /\ applied' = target.applied
  /\ files' = target.files /\ astray' = target.astray
  /\ target' = Nowhere
  /\ UNCHANGED <<plain, tickets, storeLock, txn, checker, runtime, archive, tool, toolDeaths>>

ToolStep == \/ BeginBackup \/ WriteManifest \/ Unpack \/ Replace \/ EndRestore
            \/ \E part \in {"database", "payloads"} : Copy(part)
            \/ \E n \in 1..MaxTickets : Rebase(n)

CustodyNext == StartService \/ Serve \/ StopService \/ ToolStep \/ ToolDies
               \/ ClearAway \/ SwitchOver

CustodySpec == CustodyInit /\ [][CustodyNext]_custodyVars

------------------------------------------------------------------------------
(* Properties.                                                             *)

\* A backup that was completed can be restored: its database, its payloads and the head in
\* its manifest are of one moment, although they were copied one after the other.
BackupsRestore ==
  archive.state = "complete" =>
    Verified(archive) /\ HeadOf(archive.chain) = archive.head

\* A restore holds no lock on its target and leaves no mark that it is unfinished, so the
\* service may be started there while rows still name the scratch directory, or after the
\* restore died.  Nevertheless the service only ever works on a directory all of whose
\* payloads are where their rows say, and of which no restore has a row left to rewrite.
ServedDirectoryIsWhole ==
  runtime = "service" =>
    /\ PayloadsFound(Data)
    /\ tool.pc = "rebase" /\ target.state = "absent" => tool.todo = {}

\* An export that verify_audit_export accepts is one history from its start: one spliced
\* from the trails before and after a restore is refused, whatever its ids.  Only a tail
\* may be missing, and not under a head that was kept elsewhere.
AcceptedExportsAreHistories ==
  LET now   == ExportOf(events, chain)
      lines == {now[i] : i \in 1..Len(now)} \cup {past[i] : i \in 1..Len(past)}
  IN \A s \in {now, past} : \A k \in 0..Len(s) : \A e \in [1..k -> lines] :
       Accepted(e) => /\ IsPrefix(e, now) \/ IsPrefix(e, past)
                      /\ HeadOf(e) = HeadOf(chain) => e = now
==============================================================================
