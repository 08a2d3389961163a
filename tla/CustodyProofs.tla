------------------------------ MODULE CustodyProofs ------------------------------
(***************************************************************************)
(* Theorems about the custody of the data directory: through any number of *)
(* runs of the service, backups, restores and switches to a restored       *)
(* directory, each cut off anywhere.                                       *)
(*                                                                         *)
(* The invariant follows one sound trail with its payloads through its     *)
(* copies: the service's directory, the archive once its manifest is       *)
(* written, the target of a restore, and the directory again.  Exports     *)
(* rest on the chain: the digest in a line fixes every line before it.     *)
(***************************************************************************)
EXTENDS Custody, AuditTrailProofs, WellFoundedInduction

Dir   == [state: {"absent", "partial", "complete", "restored"},
          events: Seq(Event), chain: Seq(Link), applied: SUBSET Nat, files: SUBSET Nat,
          astray: SUBSET Nat, head: Seq(Nat)]

CustodyTypeOK ==
  /\ runtime \in {"service", "backup", "nobody"}
  /\ files \in SUBSET Nat /\ astray \in SUBSET Nat
  /\ archive \in Dir /\ target \in Dir
  /\ tool \in [pc: {"idle", "copy", "replace", "rebase"},
               todo: SUBSET ({"database", "payloads"} \cup Nat), head: Seq(Nat)]

\* A payload is on disk before the change that records it is committed.
PayloadsFirst ==
  /\ applied \subseteq files
  /\ \A w \in Writers :
       Step(w, "insert") \/ Step(w, "link") \/ Step(w, "commit")
         => txn[w].ticket \in plain \cup files

\* Nothing of the service outlives its hold on the runtime lock.
Quiet ==
  runtime # "service" => /\ \A w \in Writers : Step(w, "out")
                         /\ checker = Checked

\* What has been copied is still what is there, because the backup has the lock.
Copying ==
  tool.pc = "copy" =>
    /\ runtime = "backup" /\ archive.state = "partial"
    /\ tool.head = HeadOf(chain)
    /\ archive.astray = {}
    /\ "database" \notin tool.todo => /\ archive.events = events /\ archive.chain = chain
                                      /\ archive.applied = applied
    /\ "payloads" \notin tool.todo => archive.files = files

ArchiveWhole ==
  archive.state = "complete" =>
    /\ Sound(archive.events, archive.chain, archive.applied, plain, tickets)
    /\ archive.applied \subseteq archive.files /\ archive.astray = {}
    /\ HeadOf(archive.chain) = archive.head

Restoring == tool.pc \in {"replace", "rebase"} => archive.state = "complete"

TargetIsACopy ==
  target.state = "restored" =>
    /\ archive.state = "complete"
    /\ target.events = archive.events /\ target.chain = archive.chain
    /\ target.applied = archive.applied /\ target.files = archive.files
    /\ target.astray \subseteq target.applied

\* A row that names a path outside is one the start looks at, so whoever got in, or is to
\* copy what was verified, has none of them.
NoneAstrayInUse ==
  /\ astray \subseteq applied
  /\ runtime # "nobody" => astray = {}

\* What a restore has left to rewrite is still astray, wherever the directory is by now.
LeftIsAstray ==
  tool.pc = "rebase" =>
    tool.todo \subseteq IF target.state = "restored" THEN target.astray ELSE astray

CustodyInv ==
  /\ TrailInv /\ CustodyTypeOK
  /\ PayloadsFirst /\ Quiet /\ Copying /\ ArchiveWhole /\ Restoring /\ TargetIsACopy
  /\ NoneAstrayInUse /\ LeftIsAstray

LEMMA ConstantsTyped ==
  /\ Nowhere \in Dir /\ Nowhere.state = "absent"
  /\ [Nowhere EXCEPT !.state = "partial"] \in Dir
  /\ [Nowhere EXCEPT !.state = "partial"].state = "partial"
  /\ [Nowhere EXCEPT !.state = "partial"].astray = {}
  /\ IdleTool \in [pc: {"idle", "copy", "replace", "rebase"},
                   todo: SUBSET ({"database", "payloads"} \cup Nat), head: Seq(Nat)]
  /\ IdleTool.pc = "idle"
<1>1. <<>> \in Seq(Event) /\ <<>> \in Seq(Link) /\ <<>> \in Seq(Nat)
  OBVIOUS
<1>2. Nowhere \in Dir /\ Nowhere.state = "absent"
  BY <1>1 DEF Nowhere, Dir, Genesis
<1>3. [Nowhere EXCEPT !.state = "partial"] \in Dir
      /\ [Nowhere EXCEPT !.state = "partial"].state = "partial"
      /\ [Nowhere EXCEPT !.state = "partial"].astray = {}
  BY <1>2 DEF Nowhere, Dir
<1>4. QED
  BY <1>1, <1>2, <1>3 DEF IdleTool, Genesis

LEMMA CustodyStarts == CustodyInit => CustodyInv
<1> SUFFICES ASSUME CustodyInit
             PROVE  CustodyInv
  OBVIOUS
<1> USE DEF CustodyInit
<1>1. TrailInv
  BY TrailStarts
<1>2. CustodyTypeOK
  BY ConstantsTyped DEF CustodyTypeOK
<1>3. PayloadsFirst /\ Quiet
  BY DEF TrailInit, PayloadsFirst, Quiet, Step, NoTxn
<1>4. Copying /\ ArchiveWhole /\ Restoring /\ TargetIsACopy
  BY ConstantsTyped DEF Copying, ArchiveWhole, Restoring, TargetIsACopy
<1>5. NoneAstrayInUse /\ LeftIsAstray
  BY ConstantsTyped DEF TrailInit, NoneAstrayInUse, LeftIsAstray
<1>6. QED
  BY <1>1, <1>2, <1>3, <1>4, <1>5 DEF CustodyInv

------------------------------------------------------------------------------
(* The service.                                                            *)

\* The sound archive stays so while tickets are drawn.
LEMMA ArchiveStays ==
  ASSUME CustodyInv, UNCHANGED archive,
         \/ UNCHANGED <<plain, tickets>>
         \/ tickets' = tickets + 1 /\ plain' \in {plain, plain \cup {tickets + 1}}
  PROVE  ArchiveWhole'
<1>1. CASE UNCHANGED <<plain, tickets>>
  BY <1>1 DEF CustodyInv, ArchiveWhole
<1>2. CASE tickets' = tickets + 1 /\ plain' \in {plain, plain \cup {tickets + 1}}
  <2> SUFFICES ASSUME archive.state = "complete"
               PROVE  Sound(archive.events, archive.chain, archive.applied, plain', tickets')
    BY DEF CustodyInv, ArchiveWhole
  <2>1. Sound(archive.events, archive.chain, archive.applied, plain, tickets)
    BY DEF CustodyInv, ArchiveWhole
  <2>2. tickets \in Nat /\ plain \in SUBSET (1..tickets)
    BY DEF CustodyInv, TrailInv, TrailTypeOK
  <2>3. QED
    BY <1>2, <2>1, <2>2, SoundWithMoreTickets
<1>3. QED
  BY <1>1, <1>2

LEMMA ServePreserves ==
  ASSUME CustodyInv, Serve
  PROVE  CustodyInv'
<1> USE DEF Serve
<1> TrailInv
  BY DEF CustodyInv
<1>1. TrailInv'
  BY WriterPreserves, CheckPreserves
<1>2. \/ UNCHANGED <<plain, tickets>>
      \/ tickets' = tickets + 1 /\ plain' \in {plain, plain \cup {tickets + 1}}
  BY DEF WriterStep, Enter, Mutate, RollBack, InsertEvent, LinkEvent, Commit, ReadEvents,
         CountChain
<1>3. CustodyTypeOK'
  <2>1. {txn[v].ticket : v \in {u \in Writers : Step(u, "mutate")}} \subseteq Nat
    BY DEF TrailInv, TrailTypeOK, Txn
  <2>2. files' \in SUBSET Nat
    BY <2>1 DEF CustodyInv, CustodyTypeOK
  <2>3. QED
    BY <2>2 DEF CustodyInv, CustodyTypeOK
<1>4. PayloadsFirst'
  <2>1. CASE ReadEvents \/ CountChain
    BY <2>1 DEF ReadEvents, CountChain, tableVars, CustodyInv, PayloadsFirst, Step
  <2>2. ASSUME NEW w \in Writers, WriterStep(w),
               files' = files \cup {txn[v].ticket : v \in {u \in Writers : Step(u, "mutate")}}
        PROVE  PayloadsFirst'
    <3>1. ASSUME NEW v \in Writers, v # w
          PROVE  txn'[v] = txn[v]
      BY <2>2, <3>1 DEF WriterStep, Enter, Mutate, RollBack, InsertEvent, LinkEvent, Commit,
                        Leave, TrailInv, TrailTypeOK
    <3>2. plain \subseteq plain' /\ files \subseteq files'
      BY <1>2, <2>2
    <3>3. CASE \E mutates \in BOOLEAN : Enter(w, mutates)
      <4>1. PICK mutates \in BOOLEAN : Enter(w, mutates)
        BY <3>3
      <4>2. /\ txn'[w].ticket = tickets + 1
            /\ txn'[w].step = IF mutates THEN "mutate" ELSE "insert"
        BY <4>1 DEF Enter, TrailInv, TrailTypeOK, NoTxn
      <4>3. applied' = applied
        BY <4>1 DEF Enter, tableVars
      <4>4. QED
        BY <3>1, <3>2, <4>1, <4>2, <4>3 DEF Enter, CustodyInv, PayloadsFirst, Step
    <3>4. CASE RollBack(w)
      <4>1. txn'[w].step = "out" /\ applied' = applied
        BY <3>4 DEF RollBack, Leave, tableVars, TrailInv, TrailTypeOK, NoTxn
      <4>2. QED
        BY <3>1, <3>2, <4>1 DEF CustodyInv, PayloadsFirst, Step
    <3>5. CASE Mutate(w) \/ InsertEvent(w) \/ LinkEvent(w)
      <4>1. txn'[w].ticket = txn[w].ticket /\ applied' = applied
        BY <3>5 DEF Mutate, InsertEvent, LinkEvent, tableVars, TrailInv, TrailTypeOK, Txn
      <4>2. txn[w].ticket \in plain \cup files'
        BY <2>2, <3>2, <3>5 DEF Mutate, InsertEvent, LinkEvent, CustodyInv, PayloadsFirst, Step
      <4>3. QED
        BY <3>1, <3>2, <4>1, <4>2 DEF CustodyInv, PayloadsFirst, Step
    <3>6. CASE Commit(w)
      <4>1. txn'[w].step = "out"
        BY <3>6 DEF Commit, Leave, TrailInv, TrailTypeOK, NoTxn
      <4>2. applied' \subseteq files'
        BY <3>2, <3>6 DEF Commit, CustodyInv, PayloadsFirst
      <4>3. QED
        BY <3>1, <3>2, <4>1, <4>2 DEF CustodyInv, PayloadsFirst, Step
    <3>7. QED
      BY <2>2, <3>3, <3>4, <3>5, <3>6 DEF WriterStep
  <2>3. QED
    BY <2>1, <2>2
<1>5. ArchiveWhole'
  BY <1>2, ArchiveStays
<1>6. Quiet' /\ Copying' /\ Restoring' /\ TargetIsACopy'
  BY DEF CustodyInv, Quiet, Copying, Restoring, TargetIsACopy
<1>7. NoneAstrayInUse' /\ LeftIsAstray'
  BY DEF CustodyInv, NoneAstrayInUse, LeftIsAstray
<1>8. QED
  BY <1>1, <1>3, <1>4, <1>5, <1>6, <1>7 DEF CustodyInv

LEMMA DataIsTheDirectory ==
  /\ Data.events = events /\ Data.chain = chain /\ Data.applied = applied
  /\ Data.files = files /\ Data.astray = astray
BY DEF Data, Nowhere

LEMMA StartStopPreserve ==
  ASSUME CustodyInv, StartService \/ StopService
  PROVE  CustodyInv'
<1> TrailInv
  BY DEF CustodyInv
<1>1. CASE StartService
  <2> USE <1>1 DEF StartService, dataVars, trailVars
  <2>1. TrailInv'
    BY TrailStutters
  <2>2. CustodyTypeOK' /\ PayloadsFirst' /\ Quiet'
    BY DEF CustodyInv, CustodyTypeOK, PayloadsFirst, Quiet, Step
  <2>3. Copying' /\ ArchiveWhole' /\ Restoring' /\ TargetIsACopy'
    BY DEF CustodyInv, Copying, ArchiveWhole, Restoring, TargetIsACopy
  <2>4. NoneAstrayInUse' /\ LeftIsAstray'
    <3>1. \A n \in applied : n \notin astray
      BY DataIsTheDirectory DEF PayloadsFound, Found
    <3>2. astray = {}
      BY <3>1 DEF CustodyInv, NoneAstrayInUse
    <3>3. QED
      BY <3>2 DEF CustodyInv, NoneAstrayInUse, LeftIsAstray
  <2>5. QED
    BY <2>1, <2>2, <2>3, <2>4 DEF CustodyInv
<1>2. CASE StopService
  <2> USE <1>2 DEF StopService
  <2>1. TrailInv'
    BY CrashPreserves
  <2>2. CustodyTypeOK' /\ PayloadsFirst' /\ Quiet'
    BY DEF CustodyInv, CustodyTypeOK, PayloadsFirst, Quiet, Step, TrailCrash, tableVars, NoTxn
  <2>3. Copying' /\ ArchiveWhole' /\ Restoring' /\ TargetIsACopy'
    BY DEF CustodyInv, Copying, ArchiveWhole, Restoring, TargetIsACopy, TrailCrash, tableVars
  <2>4. NoneAstrayInUse' /\ LeftIsAstray'
    BY DEF CustodyInv, NoneAstrayInUse, LeftIsAstray, TrailCrash, tableVars
  <2>5. QED
    BY <2>1, <2>2, <2>3, <2>4 DEF CustodyInv
<1>3. QED
  BY <1>1, <1>2

------------------------------------------------------------------------------
(* The commands.                                                           *)

\* A command that leaves the service's directory alone keeps what is said of it.
LEMMA DataStays ==
  ASSUME CustodyInv, UNCHANGED <<trailVars, files>>, runtime' = "service" => runtime = "service",
         runtime = "service" => runtime' = "service"
  PROVE  TrailInv' /\ PayloadsFirst' /\ Quiet'
<1> USE DEF trailVars
<1>1. TrailInv'
  BY TrailStutters DEF CustodyInv
<1>2. QED
  BY <1>1 DEF CustodyInv, PayloadsFirst, Quiet, Step

LEMMA BackupPreserves ==
  ASSUME CustodyInv,
         BeginBackup \/ WriteManifest \/ \E part \in {"database", "payloads"} : Copy(part)
  PROVE  CustodyInv'
<1>1. HeadOf(chain) \in Seq(Nat)
  BY HeadTyped DEF CustodyInv, TrailInv, Sound
<1>2. UNCHANGED dataVars
  BY DEF BeginBackup, WriteManifest, Copy
<1>3. CASE BeginBackup
  <2> USE <1>3 DEF BeginBackup
  <2>1. TrailInv' /\ PayloadsFirst' /\ Quiet'
    BY <1>2, DataStays DEF dataVars
  <2>2. CustodyTypeOK'
    BY <1>1, <1>2, ConstantsTyped DEF CustodyInv, CustodyTypeOK, dataVars
  <2>3. Copying'
    BY <1>2, ConstantsTyped DEF Copying, HeadOf, dataVars, trailVars
  <2>4. ArchiveWhole' /\ Restoring' /\ TargetIsACopy'
    BY ConstantsTyped DEF CustodyInv, ArchiveWhole, Restoring, TargetIsACopy
  <2>5. NoneAstrayInUse' /\ LeftIsAstray'
    <3>1. \A n \in applied : n \notin astray
      BY DataIsTheDirectory DEF Verified, PayloadsFound, Found
    <3>2. astray = {}
      BY <3>1 DEF CustodyInv, NoneAstrayInUse
    <3>3. QED
      BY <1>2, <3>2 DEF NoneAstrayInUse, LeftIsAstray, dataVars, trailVars
  <2>6. QED
    BY <2>1, <2>2, <2>3, <2>4, <2>5 DEF CustodyInv
<1>4. ASSUME NEW part \in {"database", "payloads"}, Copy(part)
      PROVE  CustodyInv'
  <2> USE <1>4 DEF Copy
  <2>1. TrailInv' /\ PayloadsFirst' /\ Quiet'
    BY <1>2, DataStays DEF dataVars
  <2>2. /\ archive' \in Dir /\ archive'.state = "partial" /\ archive'.astray = {}
        /\ part = "payloads" => /\ archive'.files = files
                                /\ archive'.events = archive.events
                                /\ archive'.chain = archive.chain
                                /\ archive'.applied = archive.applied
        /\ part = "database" => /\ archive'.files = archive.files
                                /\ archive'.events = events
                                /\ archive'.chain = chain
                                /\ archive'.applied = applied
    <3>1. /\ archive \in Dir /\ archive.state = "partial" /\ files \in SUBSET Nat
          /\ events \in Seq(Event) /\ chain \in Seq(Link)
          /\ archive.astray = {} /\ astray = {}
      BY DEF CustodyInv, CustodyTypeOK, Copying, NoneAstrayInUse, TrailInv, Sound
    <3>2. applied \in SUBSET Nat
      BY DEF CustodyInv, CustodyTypeOK, PayloadsFirst
    <3>3. CASE part = "payloads"
      BY <3>1, <3>3 DEF Dir
    <3>4. CASE part = "database"
      BY <3>1, <3>2, <3>4 DEF Dir
    <3>5. QED
      BY <3>3, <3>4
  <2>3. /\ tool' \in [pc: {"idle", "copy", "replace", "rebase"},
                      todo: SUBSET ({"database", "payloads"} \cup Nat), head: Seq(Nat)]
        /\ tool'.pc = "copy" /\ tool'.head = tool.head /\ tool'.todo = tool.todo \ {part}
    BY DEF CustodyInv, CustodyTypeOK
  <2>4. CustodyTypeOK'
    BY <1>2, <2>2, <2>3 DEF CustodyInv, CustodyTypeOK, dataVars
  <2>5. Copying'
    BY <1>2, <2>2, <2>3 DEF CustodyInv, Copying, HeadOf, dataVars, trailVars
  <2>6. ArchiveWhole' /\ Restoring' /\ TargetIsACopy'
    BY <2>2, <2>3 DEF CustodyInv, Copying, ArchiveWhole, Restoring, TargetIsACopy
  <2>7. NoneAstrayInUse' /\ LeftIsAstray'
    BY <1>2, <2>3 DEF CustodyInv, NoneAstrayInUse, LeftIsAstray, dataVars, trailVars
  <2>8. QED
    BY <2>1, <2>4, <2>5, <2>6, <2>7 DEF CustodyInv
<1>5. CASE WriteManifest
  <2> USE <1>5 DEF WriteManifest
  <2>1. TrailInv' /\ PayloadsFirst' /\ Quiet'
    BY <1>2, DataStays DEF CustodyInv, Copying, dataVars
  <2>2. /\ archive' \in Dir /\ archive'.state = "complete" /\ archive'.head = tool.head
        /\ archive'.events = archive.events /\ archive'.chain = archive.chain
        /\ archive'.applied = archive.applied /\ archive'.files = archive.files
        /\ archive'.astray = archive.astray
    BY DEF CustodyInv, CustodyTypeOK, Dir
  <2>3. CustodyTypeOK'
    BY <1>2, <2>2, ConstantsTyped DEF CustodyInv, CustodyTypeOK, dataVars
  <2>4. ArchiveWhole'
    <3>1. /\ archive'.events = events /\ archive'.chain = chain
          /\ archive'.applied = applied /\ archive'.files = files
          /\ archive'.head = HeadOf(chain) /\ archive'.astray = {}
      BY <2>2 DEF CustodyInv, Copying
    <3>2. Sound(events, chain, applied, plain', tickets') /\ applied \subseteq files
      BY <1>2 DEF CustodyInv, TrailInv, PayloadsFirst, dataVars, trailVars
    <3>3. QED
      BY <3>1, <3>2 DEF ArchiveWhole, HeadOf
  <2>5. Copying' /\ Restoring' /\ TargetIsACopy'
    BY ConstantsTyped DEF CustodyInv, Copying, Restoring, TargetIsACopy
  <2>6. NoneAstrayInUse' /\ LeftIsAstray'
    BY <1>2, ConstantsTyped DEF CustodyInv, NoneAstrayInUse, LeftIsAstray, dataVars, trailVars
  <2>7. QED
    BY <2>1, <2>3, <2>4, <2>5, <2>6 DEF CustodyInv
<1>6. QED
  BY <1>3, <1>4, <1>5

LEMMA RestorePreserves ==
  ASSUME CustodyInv,
         Unpack \/ Replace \/ EndRestore \/ \E n \in 1..MaxTickets : Rebase(n)
  PROVE  CustodyInv'
<1>1. UNCHANGED <<trailVars, files, past, runtime, archive>>
  BY DEF Unpack, Replace, EndRestore, Rebase, dataVars
<1>2. TrailInv' /\ PayloadsFirst' /\ Quiet'
  BY <1>1, DataStays
<1>3. ArchiveWhole'
  BY <1>1, ArchiveStays DEF trailVars
<1>4. /\ tool' \in [pc: {"idle", "copy", "replace", "rebase"},
                    todo: SUBSET ({"database", "payloads"} \cup Nat), head: Seq(Nat)]
      /\ tool'.pc # "copy"
      /\ tool'.pc \in {"replace", "rebase"} => archive.state = "complete"
  <2> DEFINE Tools == [pc: {"idle", "copy", "replace", "rebase"},
                       todo: SUBSET ({"database", "payloads"} \cup Nat), head: Seq(Nat)]
  <2>1. IdleTool \in Tools /\ tool \in Tools /\ archive.applied \in SUBSET Nat
    BY ConstantsTyped DEF CustodyInv, CustodyTypeOK, Dir
  <2>2. CASE Unpack
    BY <2>1, <2>2 DEF Unpack
  <2>3. CASE Replace
    BY <2>1, <2>3 DEF Replace, CustodyInv, Restoring
  <2>4. CASE EndRestore
    BY <2>4, ConstantsTyped DEF EndRestore
  <2>5. ASSUME NEW n \in 1..MaxTickets, Rebase(n)
        PROVE  tool' \in Tools /\ tool'.pc = "rebase" /\ archive.state = "complete"
    BY <2>1, <2>5 DEF Rebase, CustodyInv, Restoring
  <2>6. QED
    BY <2>2, <2>3, <2>4, <2>5
<1>5. target' \in Dir /\ TargetIsACopy'
  <2>1. CASE UNCHANGED target
    BY <1>1, <2>1 DEF CustodyInv, CustodyTypeOK, TargetIsACopy
  <2>2. CASE Replace
    <3>1. archive \in Dir /\ archive.state = "complete"
      BY <2>2 DEF Replace, CustodyInv, CustodyTypeOK, Restoring
    <3>2. target' = [archive EXCEPT !.state = "restored", !.astray = archive.applied]
      BY <2>2 DEF Replace
    <3>3. QED
      BY <1>1, <3>1, <3>2 DEF TargetIsACopy, Dir
  <2>3. ASSUME NEW n \in 1..MaxTickets, Rebase(n), target.state = "restored"
        PROVE  target' \in Dir /\ TargetIsACopy'
    <3>1. target \in Dir /\ target' = [target EXCEPT !.astray = @ \ {n}]
      BY <2>3 DEF Rebase, CustodyInv, CustodyTypeOK
    <3>2. target' \in Dir
      BY <3>1 DEF Dir
    <3>3. QED
      BY <1>1, <3>1, <3>2 DEF CustodyInv, TargetIsACopy, Dir
  <2>4. QED
    BY <2>1, <2>2, <2>3 DEF Unpack, EndRestore, Rebase
<1>6. astray' \subseteq astray
  BY DEF Unpack, Replace, EndRestore, Rebase, dataVars
<1>7. CustodyTypeOK' /\ Copying' /\ Restoring'
  BY <1>1, <1>4, <1>5, <1>6 DEF CustodyInv, CustodyTypeOK, Copying, Restoring
<1>8. NoneAstrayInUse'
  BY <1>1, <1>6 DEF CustodyInv, NoneAstrayInUse, trailVars
<1>9. LeftIsAstray'
  <2>1. CASE Unpack \/ EndRestore
    BY <2>1, ConstantsTyped DEF Unpack, EndRestore, LeftIsAstray
  <2>2. CASE Replace
    <3>1. archive \in Dir
      BY DEF CustodyInv, CustodyTypeOK
    <3>2. target'.state = "restored" /\ target'.astray = archive.applied
      BY <2>2, <3>1 DEF Replace, Dir
    <3>3. tool'.todo = archive.applied
      BY <2>2 DEF Replace, IdleTool
    <3>4. QED
      BY <3>2, <3>3 DEF LeftIsAstray
  <2>3. ASSUME NEW n \in 1..MaxTickets, Rebase(n)
        PROVE  LeftIsAstray'
    <3>1. tool'.todo = tool.todo \ {n} /\ tool.pc = "rebase"
      BY <2>3 DEF Rebase, CustodyInv, CustodyTypeOK
    <3>2. CASE target.state = "restored"
      <4>1. target'.state = "restored" /\ target'.astray = target.astray \ {n}
        BY <2>3, <3>2 DEF Rebase, CustodyInv, CustodyTypeOK, Dir
      <4>2. QED
        BY <3>1, <3>2, <4>1 DEF CustodyInv, LeftIsAstray
    <3>3. CASE target.state # "restored"
      <4>1. target' = target /\ astray' = astray \ {n}
        BY <2>3, <3>3 DEF Rebase
      <4>2. QED
        BY <3>1, <3>3, <4>1 DEF CustodyInv, LeftIsAstray
    <3>4. QED
      BY <3>2, <3>3
  <2>4. QED
    BY <2>1, <2>2, <2>3
<1>10. QED
  BY <1>2, <1>3, <1>5, <1>7, <1>8, <1>9 DEF CustodyInv

\* Commands cut off, and what the operator does about it.
LEMMA CleanUpPreserves ==
  ASSUME CustodyInv, ToolDies \/ ClearAway
  PROVE  CustodyInv'
<1> USE ConstantsTyped DEF ToolDies, ClearAway
<1>1. UNCHANGED dataVars /\ tool'.pc = "idle"
  OBVIOUS
<1>2. TrailInv' /\ PayloadsFirst' /\ Quiet'
  BY <1>1, DataStays DEF dataVars
<1>3. CustodyTypeOK'
  BY <1>1 DEF CustodyInv, CustodyTypeOK, dataVars
<1>4. archive' = archive \/ (archive' = Nowhere /\ archive.state = "partial")
  BY DEF CustodyInv, Copying
<1>5. ArchiveWhole'
  <2>1. CASE archive' = archive
    BY <1>1, <2>1, ArchiveStays DEF dataVars, trailVars
  <2>2. CASE archive' = Nowhere
    BY <2>2 DEF ArchiveWhole
  <2>3. QED
    BY <1>4, <2>1, <2>2
<1>6. TargetIsACopy'
  BY <1>4 DEF CustodyInv, TargetIsACopy
<1>7. Copying' /\ Restoring' /\ LeftIsAstray'
  BY <1>1 DEF Copying, Restoring, LeftIsAstray
<1>8. NoneAstrayInUse'
  BY <1>1 DEF CustodyInv, NoneAstrayInUse, dataVars, trailVars
<1>9. QED
  BY <1>2, <1>3, <1>5, <1>6, <1>7, <1>8 DEF CustodyInv

\* The service goes on with the restored directory, which is the archive of a sound trail.
LEMMA SwitchPreserves ==
  ASSUME CustodyInv, SwitchOver
  PROVE  CustodyInv'
<1> USE DEF SwitchOver
<1>1. /\ Sound(events', chain', applied', plain', tickets')
      /\ applied' \subseteq files'
  BY DEF CustodyInv, TargetIsACopy, ArchiveWhole
<1>2. \A w \in Writers : Step(w, "out")'
  BY DEF CustodyInv, Quiet, Step
<1>3. checker' = Checked
  BY DEF CustodyInv, Quiet
<1>4. TrailInv'
  <2>1. TrailTypeOK'
    BY DEF CustodyInv, TrailInv, TrailTypeOK
  <2>2. Sound(events, chain, applied, plain, tickets)'
    BY <1>1 DEF Sound, Linked
  <2>3. (\A w \in Writers : Guarded(w))' /\ CheckerBehind'
    BY <1>2, <1>3 DEF Guarded, CheckerBehind, Checked
  <2>4. QED
    BY <2>1, <2>2, <2>3 DEF TrailInv
<1>5. PayloadsFirst' /\ Quiet'
  BY <1>1, <1>2, <1>3 DEF PayloadsFirst, Quiet, Step
<1>6. CustodyTypeOK'
  BY ConstantsTyped DEF CustodyInv, CustodyTypeOK, Dir
<1>7. ArchiveWhole'
  BY ArchiveStays
<1>8. Copying' /\ Restoring' /\ TargetIsACopy'
  BY ConstantsTyped DEF CustodyInv, Copying, Restoring, TargetIsACopy
<1>9. NoneAstrayInUse' /\ LeftIsAstray'
  BY ConstantsTyped DEF CustodyInv, TargetIsACopy, NoneAstrayInUse, LeftIsAstray
<1>10. QED
  BY <1>4, <1>5, <1>6, <1>7, <1>8, <1>9 DEF CustodyInv

LEMMA CustodyStutters ==
  ASSUME CustodyInv, UNCHANGED custodyVars
  PROVE  CustodyInv'
<1> USE DEF custodyVars
<1>1. UNCHANGED dataVars
  BY DEF dataVars
<1>2. TrailInv' /\ PayloadsFirst' /\ Quiet'
  BY <1>1, DataStays DEF dataVars
<1>3. ArchiveWhole'
  BY ArchiveStays DEF trailVars
<1>4. /\ CustodyTypeOK' /\ Copying' /\ Restoring' /\ TargetIsACopy'
      /\ NoneAstrayInUse' /\ LeftIsAstray'
  BY DEF CustodyInv, CustodyTypeOK, Copying, HeadOf, Restoring, TargetIsACopy,
         NoneAstrayInUse, LeftIsAstray, trailVars
<1>5. QED
  BY <1>2, <1>3, <1>4 DEF CustodyInv

\* The inductive invariant.
THEOREM CustodyInvariant == CustodySpec => []CustodyInv
<1>1. CustodyInv /\ [CustodyNext]_custodyVars => CustodyInv'
  BY ServePreserves, StartStopPreserve, BackupPreserves, RestorePreserves, CleanUpPreserves,
     SwitchPreserves, CustodyStutters DEF CustodyNext, ToolStep
<1>2. QED
  BY <1>1, CustodyStarts, PTL DEF CustodySpec

------------------------------------------------------------------------------

\* A backup that was completed can be restored: its database, its payloads and the head in
\* its manifest are of one moment, although they were copied one after the other.
THEOREM CompletedBackupsRestore == CustodySpec => []BackupsRestore
<1>1. CustodyInv => BackupsRestore
  BY DEF CustodyInv, ArchiveWhole, Sound, BackupsRestore, Verified, PayloadsFound, Found
<1>2. QED
  BY <1>1, CustodyInvariant, PTL

\* However a restore is ordered or cut off, and whenever the directory is switched to, the
\* service only ever works on a directory all of whose payloads are where their rows say,
\* and of which no restore has a row left to rewrite.
THEOREM OnlyWholeDirectoriesAreServed == CustodySpec => []ServedDirectoryIsWhole
<1>1. CustodyInv => ServedDirectoryIsWhole
  <2> SUFFICES ASSUME CustodyInv, runtime = "service"
               PROVE  /\ PayloadsFound(Data)
                      /\ tool.pc = "rebase" /\ target.state = "absent" => tool.todo = {}
    BY DEF ServedDirectoryIsWhole
  <2>1. astray = {}
    BY DEF CustodyInv, NoneAstrayInUse
  <2>2. PayloadsFound(Data)
    BY <2>1, DataIsTheDirectory DEF CustodyInv, PayloadsFirst, PayloadsFound, Found
  <2>3. ASSUME tool.pc = "rebase", target.state = "absent"
        PROVE  tool.todo = {}
    BY <2>1, <2>3 DEF CustodyInv, LeftIsAstray
  <2>4. QED
    BY <2>2, <2>3
<1>2. QED
  BY <1>1, CustodyInvariant, PTL

\* The trail stays sound through backups and restores too: no change without its event, no
\* gap or fork, and no alarm over a sound trail.
THEOREM TrailOutlivesRestores ==
  CustodySpec => [](TrailIntact /\ EveryChangeIsLogged /\ AlarmsAreRaces)
<1>1. CustodyInv => TrailIntact /\ EveryChangeIsLogged /\ AlarmsAreRaces
  BY InvariantImplies DEF CustodyInv
<1>2. QED
  BY <1>1, CustodyInvariant, PTL

------------------------------------------------------------------------------
(* Exports.                                                                *)

Line == [id: Nat, of: Nat, prev: Seq(Nat), hash: Seq(Nat)]

LEMMA SmallestNumber ==
  ASSUME NEW S \in SUBSET Nat, S # {}
  PROVE  \E m \in S : \A k \in S : m <= k
<1>1. IsWellFoundedOn(OpToRel(<, Nat), Nat)
  BY NatLessThanWellFounded
<1>2. PICK m \in S : \A k \in S : <<k, m>> \notin OpToRel(<, Nat)
  BY <1>1, WFMin
<1>3. \A k \in S : ~(k < m)
  BY <1>2 DEF OpToRel
<1>4. QED
  BY <1>3

LEMMA LargestNumber ==
  ASSUME NEW n \in Nat, NEW S \in SUBSET (1..n), S # {}
  PROVE  \E m \in S : \A k \in S : k <= m
<1> DEFINE Below == {n - k : k \in S}
<1>1. Below \in SUBSET Nat /\ Below # {}
  <2>1. \A k \in S : k \in Nat /\ n - k \in Nat
    OBVIOUS
  <2>2. PICK k \in S : TRUE
    OBVIOUS
  <2>3. n - k \in Below
    BY <2>2
  <2>4. QED
    BY <2>1, <2>3
<1> HIDE DEF Below
<1>2. PICK d \in Below : \A b \in Below : d <= b
  BY <1>1, SmallestNumber
<1>3. PICK m \in S : d = n - m
  BY DEF Below
<1>4. \A k \in S : n - k \in Below
  BY DEF Below
<1>5. QED
  BY <1>2, <1>3, <1>4

LEMMA LastAppended ==
  ASSUME NEW a \in Seq(Nat), NEW x \in Nat
  PROVE  /\ Len(Append(a, x)) = Len(a) + 1 /\ Append(a, x)[Len(a) + 1] = x
         /\ Len(a) \in Nat /\ \A i \in 1..Len(a) : Append(a, x)[i] = a[i]
OBVIOUS

LEMMA SameAppended ==
  ASSUME NEW a \in Seq(Nat), NEW b \in Seq(Nat), NEW x \in Nat, NEW y \in Nat,
         Append(a, x) = Append(b, y)
  PROVE  a = b /\ x = y
<1>1. PICK p : p = Append(a, x)
  OBVIOUS
<1>2. /\ Len(p) = Len(a) + 1 /\ p[Len(a) + 1] = x
      /\ Len(a) \in Nat /\ \A i \in 1..Len(a) : p[i] = a[i]
  BY <1>1, LastAppended
<1>3. /\ Len(p) = Len(b) + 1 /\ p[Len(b) + 1] = y
      /\ Len(b) \in Nat /\ \A i \in 1..Len(b) : p[i] = b[i]
  BY <1>1, LastAppended
<1>4. Len(a) = Len(b)
  BY <1>2, <1>3
<1>5. x = y /\ \A i \in 1..Len(a) : a[i] = b[i]
  BY <1>2, <1>3, <1>4
<1>6. QED
  BY <1>4, <1>5, SeqEqual

\* Two accepted exports that have a digest in common have all the lines up to it in common.
LEMMA DigestFixesThePast ==
  ASSUME NEW s \in Seq(Line), NEW t \in Seq(Line), Accepted(s), Accepted(t),
         NEW k \in Nat, k <= Len(s), k <= Len(t), k # 0 => s[k].hash = t[k].hash
  PROVE  \A i \in 1..k : s[i] = t[i]
<1>1. ASSUME NEW i \in 1..k, s[i].hash = t[i].hash
      PROVE  s[i] = t[i] /\ (i # 1 => s[i - 1].hash = t[i - 1].hash)
  <2>1. /\ i \in 1..Len(s) /\ i \in 1..Len(t) /\ s[i] \in Line /\ t[i] \in Line
        /\ i # 1 => i - 1 \in 1..Len(s) /\ i - 1 \in 1..Len(t)
    OBVIOUS
  <2>2. /\ s[i].hash = Append(s[i].prev, s[i].of) /\ t[i].hash = Append(t[i].prev, t[i].of)
        /\ s[i].id = i /\ t[i].id = i
        /\ i # 1 => s[i].prev = s[i - 1].hash /\ t[i].prev = t[i - 1].hash
    BY <2>1 DEF Accepted
  <2>3. s[i].prev = t[i].prev /\ s[i].of = t[i].of
    <3>1. /\ s[i].prev \in Seq(Nat) /\ s[i].of \in Nat
          /\ t[i].prev \in Seq(Nat) /\ t[i].of \in Nat
      BY <2>1 DEF Line
    <3>2. PICK a \in Seq(Nat), b \in Seq(Nat), x \in Nat, y \in Nat :
            a = s[i].prev /\ b = t[i].prev /\ x = s[i].of /\ y = t[i].of
      BY <3>1
    <3>3. Append(a, x) = Append(b, y)
      BY <1>1, <2>2, <3>2
    <3>4. a = b /\ x = y
      BY <3>3, SameAppended
    <3>5. QED
      BY <3>2, <3>4
  <2>4. s[i] = t[i]
    <3>1. /\ s[i] = [id |-> s[i].id, of |-> s[i].of, prev |-> s[i].prev, hash |-> s[i].hash]
          /\ t[i] = [id |-> t[i].id, of |-> t[i].of, prev |-> t[i].prev, hash |-> t[i].hash]
      BY <2>1 DEF Line
    <3>2. s[i].id = t[i].id
      BY <2>2
    <3>3. QED
      BY <1>1, <2>3, <3>1, <3>2, Zenon
  <2>5. QED
    BY <2>2, <2>3, <2>4
<1> DEFINE Differ == {i \in 1..k : s[i].hash # t[i].hash}
<1>2. ASSUME Differ # {}
      PROVE  FALSE
  <2>1. PICK m \in Differ : \A j \in Differ : j <= m
    BY <1>2, LargestNumber
  <2>2. m \in 1..k /\ m # k /\ m + 1 \in 1..k
    BY <2>1
  <2>3. s[m + 1].hash = t[m + 1].hash
    BY <2>1, <2>2
  <2>4. s[m + 1 - 1].hash = t[m + 1 - 1].hash
    BY <1>1, <2>2, <2>3
  <2>5. QED
    BY <2>1, <2>2, <2>4
<1>3. QED
  BY <1>1, <1>2

\* A digest tells how many lines it stands for.
LEMMA DigestCounts ==
  ASSUME NEW s \in Seq(Line), Accepted(s)
  PROVE  /\ \A i \in 1..Len(s) : Len(s[i].hash) = i
         /\ Len(HeadOf(s)) = Len(s)
<1> DEFINE Wrong == {i \in 1..Len(s) : Len(s[i].hash) # i}
<1>1. ASSUME Wrong # {}
      PROVE  FALSE
  <2>1. PICK m \in Wrong : \A j \in Wrong : m <= j
    <3>1. Wrong \in SUBSET Nat
      OBVIOUS
    <3>2. QED
      BY <1>1, <3>1, SmallestNumber
  <2>2. m \in 1..Len(s) /\ s[m] \in Line
    BY <2>1
  <2>3. /\ s[m].hash = Append(s[m].prev, s[m].of)
        /\ s[m].prev = IF m = 1 THEN Genesis ELSE s[m - 1].hash
    BY <2>2 DEF Accepted
  <2>4. Len(s[m].hash) = Len(s[m].prev) + 1
    BY <2>2, <2>3, AppendProperties DEF Line
  <2>5. Len(s[m].prev) = m - 1
    <3>1. CASE m = 1
      BY <2>3, <3>1 DEF Genesis
    <3>2. CASE m # 1
      BY <2>1, <2>2, <2>3, <3>2
    <3>3. QED
      BY <3>1, <3>2
  <2>6. QED
    BY <2>1, <2>2, <2>4, <2>5
<1>2. \A i \in 1..Len(s) : Len(s[i].hash) = i
  BY <1>1
<1>3. Len(HeadOf(s)) = Len(s)
  <2>1. CASE s = <<>>
    BY <2>1 DEF HeadOf, Genesis
  <2>2. CASE s # <<>>
    <3>1. Len(s) \in 1..Len(s)
      BY <2>2
    <3>2. QED
      BY <1>2, <2>2, <3>1 DEF HeadOf
  <2>3. QED
    BY <2>1, <2>2
<1>4. QED
  BY <1>2, <1>3

\* The export of a sound trail is accepted, under the head of the trail.
LEMMA SoundTrailsExport ==
  ASSUME NEW es, NEW c, NEW ap, NEW pl, NEW n \in Nat, Sound(es, c, ap, pl, n)
  PROVE  /\ ExportOf(es, c) \in Seq(Line) /\ Len(ExportOf(es, c)) = Len(es)
         /\ Accepted(ExportOf(es, c))
         /\ HeadOf(ExportOf(es, c)) = HeadOf(c)
<1> DEFINE x == ExportOf(es, c)
<1>1. es \in Seq(Event) /\ c \in Seq(Link) /\ Len(es) \in Nat /\ Len(c) = Len(es)
  BY DEF Sound, Linked
<1>2. x = [i \in 1..Len(es) |-> [id |-> es[i].id, of |-> es[i].of,
                                 prev |-> c[i].prev, hash |-> c[i].hash]]
  BY DEF ExportOf
<1> HIDE DEF x
<1>3. ASSUME NEW i \in 1..Len(es)
      PROVE  [id |-> es[i].id, of |-> es[i].of, prev |-> c[i].prev, hash |-> c[i].hash] \in Line
  <2>1. es[i] \in Event /\ c[i] \in Link
    BY <1>1
  <2>2. QED
    BY <2>1 DEF Event, Link, Line
<1>4. x \in [1..Len(es) -> Line]
  BY <1>2, <1>3
<1>5. x \in Seq(Line) /\ Len(x) = Len(es)
  BY <1>1, <1>4, SeqDef, LenProperties
<1>6. Accepted(x)
  <2> SUFFICES ASSUME NEW i \in 1..Len(x)
               PROVE  /\ x[i].id = i
                      /\ x[i].prev = IF i = 1 THEN Genesis ELSE x[i - 1].hash
                      /\ x[i].hash = Append(x[i].prev, x[i].of)
    BY DEF Accepted
  <2>1. i \in 1..Len(es) /\ (i # 1 => i - 1 \in 1..Len(es))
    BY <1>1, <1>5
  <2>2. QED
    BY <1>1, <1>2, <2>1 DEF Sound, Linked
<1>7. HeadOf(x) = HeadOf(c)
  <2>1. CASE Len(es) = 0
    BY <1>1, <1>5, <2>1, EmptySeq DEF HeadOf
  <2>2. CASE Len(es) # 0
    <3>1. Len(es) \in 1..Len(es) /\ x # <<>> /\ c # <<>>
      BY <1>1, <1>5, <2>2
    <3>2. QED
      BY <1>1, <1>2, <1>5, <3>1 DEF HeadOf
  <2>3. QED
    BY <2>1, <2>2
<1>8. QED
  BY <1>5, <1>6, <1>7 DEF x

LEMMA AgreeingIsPrefix ==
  ASSUME NEW s \in Seq(Line), NEW t \in Seq(Line), Len(s) <= Len(t),
         \A i \in 1..Len(s) : s[i] = t[i]
  PROVE  IsPrefix(s, t) /\ (Len(s) = Len(t) => s = t)
<1>1. Len(s) \in Nat /\ Len(t) \in Nat
  BY LenProperties
<1>2. \A i \in 1..Len(s) : s[i] \in Line /\ t[i] \in Line
  BY <1>1
<1>3. SubSeq(s, 1, Len(s)) = s
  BY SubSeqFull
<1>4. /\ SubSeq(t, 1, Len(s)) \in Seq(Line) /\ Len(SubSeq(t, 1, Len(s))) = Len(s)
      /\ \A i \in 1..Len(s) : SubSeq(t, 1, Len(s))[i] = t[i]
  BY <1>1, <1>2, SubSeqProperties
<1>5. SubSeq(t, 1, Len(s)) = s
  BY <1>1, <1>4, SeqEqual
<1>6. QED
  BY <1>1, <1>3, <1>5, SeqEqual DEF IsPrefix

\* The trail of a directory that was given up was sound.
PastIsAnExport == past \in Seq(Line) /\ Accepted(past)

LEMMA ExportsStay ==
  ASSUME CustodyInv, PastIsAnExport, [CustodyNext]_custodyVars
  PROVE  PastIsAnExport'
<1>1. CASE SwitchOver
  <2>1. past' = ExportOf(events, chain) \/ past' = past
    BY <1>1 DEF SwitchOver
  <2>2. tickets \in Nat /\ Sound(events, chain, applied, plain, tickets)
    BY TrailConstants DEF CustodyInv, TrailInv, TrailTypeOK
  <2>3. ExportOf(events, chain) \in Seq(Line) /\ Accepted(ExportOf(events, chain))
    BY <2>2, SoundTrailsExport
  <2>4. QED
    BY <2>1, <2>3 DEF PastIsAnExport, Accepted
<1>2. CASE ~SwitchOver
  <2>1. past' = past
    BY <1>2 DEF CustodyNext, custodyVars, StartService, Serve, StopService, ToolStep, BeginBackup,
       WriteManifest, Unpack, Replace, EndRestore, Copy, Rebase, ToolDies, ClearAway, dataVars
  <2>2. QED
    BY <2>1 DEF PastIsAnExport, Accepted
<1>3. QED
  BY <1>1, <1>2

LEMMA HistoriesAreAccepted ==
  ASSUME CustodyInv, PastIsAnExport
  PROVE  AcceptedExportsAreHistories
<1> DEFINE now   == ExportOf(events, chain)
           lines == {now[i] : i \in 1..Len(now)} \cup {past[i] : i \in 1..Len(past)}
<1>1. /\ now \in Seq(Line) /\ Accepted(now) /\ HeadOf(now) = HeadOf(chain)
      /\ past \in Seq(Line) /\ Accepted(past)
  <2>1. tickets \in Nat /\ Sound(events, chain, applied, plain, tickets)
    BY TrailConstants DEF CustodyInv, TrailInv, TrailTypeOK
  <2>2. QED
    BY <2>1, SoundTrailsExport DEF PastIsAnExport
<1> HIDE DEF now
<1>2. Len(now) \in Nat /\ Len(past) \in Nat
  BY <1>1
<1>3. lines \subseteq Line
  BY <1>1
<1>4. ASSUME NEW s \in {now, past}, NEW k \in 0..Len(s), NEW e \in [1..k -> lines],
             Accepted(e)
      PROVE  /\ IsPrefix(e, now) \/ IsPrefix(e, past)
             /\ HeadOf(e) = HeadOf(chain) => e = now
  <2>1. e \in Seq(Line) /\ Len(e) = k /\ k \in Nat
    <3>1. k \in Nat /\ e \in [1..k -> Line]
      BY <1>2, <1>3, <1>4
    <3>2. QED
      BY <3>1, SeqDef
  <2>2. ASSUME NEW t \in Seq(Line), Accepted(t), NEW j \in 1..Len(t), k # 0, e[k] = t[j]
        PROVE  IsPrefix(e, t)
    <3>1. k \in 1..Len(e) /\ e[k].id = k /\ t[j].id = j
      BY <1>4, <2>1, <2>2 DEF Accepted
    <3>2. j = k /\ k <= Len(t) /\ e[k].hash = t[k].hash
      BY <2>2, <3>1
    <3>3. \A i \in 1..k : e[i] = t[i]
      BY <1>4, <2>1, <2>2, <3>2, DigestFixesThePast
    <3>4. QED
      BY <2>1, <2>2, <3>2, <3>3, AgreeingIsPrefix
  <2>3. IsPrefix(e, now) \/ IsPrefix(e, past)
    <3>1. CASE k = 0
      <4>1. Len(e) <= Len(now) /\ \A i \in 1..Len(e) : e[i] = now[i]
        BY <1>2, <2>1, <3>1
      <4>2. QED
        BY <1>1, <2>1, <4>1, AgreeingIsPrefix
    <3>2. CASE k # 0
      <4>1. e[k] \in lines
        BY <1>2, <1>4, <3>2
      <4>2. CASE \E j \in 1..Len(now) : e[k] = now[j]
        BY <1>1, <2>2, <3>2, <4>2
      <4>3. CASE \E j \in 1..Len(past) : e[k] = past[j]
        BY <1>1, <2>2, <3>2, <4>3
      <4>4. QED
        BY <4>1, <4>2, <4>3
    <3>3. QED
      BY <3>1, <3>2
  <2>4. ASSUME HeadOf(e) = HeadOf(chain)
        PROVE  e = now
    <3>1. k = Len(now)
      BY <1>1, <1>4, <2>1, <2>4, DigestCounts
    <3>2. k # 0 => e[k].hash = now[k].hash
      <4>1. CASE k = 0
        BY <4>1
      <4>2. CASE k # 0
        <5>1. e # <<>> /\ now # <<>>
          BY <2>1, <3>1, <4>2
        <5>2. QED
          BY <1>1, <2>1, <2>4, <3>1, <5>1 DEF HeadOf
      <4>3. QED
        BY <4>1, <4>2
    <3>3. \A i \in 1..k : e[i] = now[i]
      BY <1>1, <1>2, <1>4, <2>1, <3>1, <3>2, DigestFixesThePast
    <3>4. QED
      BY <1>1, <2>1, <3>1, <3>3, SeqEqual
  <2>5. QED
    BY <2>3, <2>4
<1>5. QED
  BY <1>4 DEF AcceptedExportsAreHistories, now

\* An export that verify_audit_export accepts is one history from its start: one spliced
\* from the trails before and after a restore is refused, whatever its ids.  Only a tail
\* may be missing, and not under a head that was kept elsewhere.
THEOREM NoSplicedExport == CustodySpec => []AcceptedExportsAreHistories
<1>1. CustodyInit => PastIsAnExport
  BY DEF CustodyInit, PastIsAnExport, Accepted
<1>2. CustodyInv /\ PastIsAnExport /\ [CustodyNext]_custodyVars => PastIsAnExport'
  BY ExportsStay
<1>3. CustodyInv /\ PastIsAnExport => AcceptedExportsAreHistories
  BY HistoriesAreAccepted
<1>4. QED
  BY <1>1, <1>2, <1>3, CustodyInvariant, PTL DEF CustodySpec
==============================================================================
