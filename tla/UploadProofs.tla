------------------------------ MODULE UploadProofs ------------------------------
(***************************************************************************)
(* The upload service for every number of uploads, parts, versions,        *)
(* request threads and faults: the inductive invariant behind the          *)
(* properties of UploadSessions, and its refinement of UploadLifecycle;    *)
(* then, for every disk and all limits, the admission of StagingQuota.     *)
(*                                                                         *)
(* Most steps are of one call at one upload.  LocalStep is the rule for    *)
(* them: by the lock either the call is alone at its upload, or the step   *)
(* leaves what the others rely on; so each step answers for its own call   *)
(* and its own upload only.                                                *)
(***************************************************************************)
EXTENDS UploadSessions, StagingQuota, FiniteSetTheorems, WellFoundedInduction, TLAPS

------------------------------------------------------------------------------
(* The inductive invariant.                                                *)

Bare(u)    == \A i \in Ids : object[u][i] = "none"
Promise(u) == IF sess[u].expected = NoContent
              THEN [Parts -> Versions]
              ELSE {[p \in Parts |-> sess[u].expected]} \cap [Parts -> Versions]

\* Who may be where, and for which operation.
RoleOk(c) ==
  LET k == call[c] IN
  /\ k.pc # "idle" => k.on \in Uploads
  /\ k.op = "put" => k.part \in Parts /\ k.content \in Versions
  /\ k.pc = "create" => k.op = "none"
  /\ k.pc \in {"receive", "put", "commit"} => k.op = "put"
  /\ k.pc = "wait" => k.op \in {"put", "complete", "cancel", "expire"}
  /\ k.pc \in {"complete", "assemble", "register", "move", "insert", "undo", "unlink"}
       => k.op = "complete"
  /\ k.pc = "submit" => k.op \in {"complete", "rebind"}
  /\ k.pc = "finalize" => k.op \in {"complete", "rebind", "recover"}
  /\ k.pc \in {"wipe", "delete"}
       => k.op \in {"complete", "rebind", "cancel", "expire", "recover", "clean"}
  /\ k.pc = "cancel" => k.op = "cancel"
  /\ k.pc = "expire" => k.op = "expire"
  /\ k.pc \in {"orphan", "tidy", "reset"} => k.op = "recover"
  /\ k.pc # "idle" => /\ c = Main <=> k.op \in {"recover", "clean"}
                      /\ c = Sweeper <=> k.op = "expire"

\* What each step of a call finds.
CallOk(c) ==
  LET u == Upload(c) IN
  /\ ~At(c, "idle") => call[c].gen <= lock[u]
  /\ At(c, "create") => sess[u].state = "absent" /\ stage[u].dir
  /\ call[c].pc \notin {"idle", "create"} => sess[u].state # "absent"
  /\ At(c, "commit") => /\ sess[u].state = "uploading"
                        /\ stage[u].parts[call[c].part] = call[c].content
  /\ call[c].pc \in {"assemble", "register", "move", "insert"}
       => sess[u].state = "completing" /\ sess[u].id # 0 /\ Bare(u)
  /\ call[c].pc \in {"register", "move", "insert"} => call[c].file \in Promise(u)
  /\ At(c, "insert") => iso[u][Object(c)].file = call[c].file
  /\ At(c, "finalize") => /\ Registered(u) /\ sess[u].state # "completed"
                          /\ call[c].op # "rebind" => sess[u].state = "completing"
  /\ call[c].pc \in {"wipe", "delete"}
       => /\ sess[u].state \in Terminal /\ lock[u] = 0
          /\ call[c].op \in {"complete", "rebind"} => sess[u].state = "completed"
  /\ At(c, "delete") => stage[u].parts = NoParts /\ ~stage[u].assembled
  /\ At(c, "submit") => sess[u].state = "completed"
  /\ call[c].pc \in {"orphan", "tidy", "reset"} => sess[u].state = "completing" /\ Bare(u)

\* One call at a time holds the lock object it asked for, and creates a session.
LockInv ==
  \A c, d \in Callers :
    (Upload(c) = Upload(d) /\ c # d) =>
      /\ ~(Inside(c) /\ Inside(d) /\ call[c].gen = call[d].gen)
      /\ ~(At(c, "create") /\ At(d, "create"))

\* A session has at most one object, under the id it drew, and the object is the file
\* that was promised; its lock is dropped only when it is closed.
UploadOk(u) ==
  /\ lock[u] = 1 => sess[u].state \in Terminal
  /\ sess[u].state = "absent" => record[u] = NoParts /\ sess[u].id = 0
  /\ sess[u].state = "completing" => sess[u].id # 0
  /\ sess[u].state = "completed" => Registered(u)
  /\ sess[u].expected # NoContent => sess[u].expected \in Versions
  /\ \A i \in Ids : /\ iso[u][i].dir => i = sess[u].id
                    /\ object[u][i] # "none" => /\ i = sess[u].id
                                                /\ iso[u][i].file \in Promise(u)

\* The main thread works alone, with every lock back in its first state.
BootInv ==
  /\ ~Serving => /\ \A c \in Callers \ {Main} : At(c, "idle")
                 /\ \A u \in Uploads : lock[u] = 0
                 /\ sweep = {}
  /\ \A u \in sweep : sess[u].state # "absent"
  /\ \A u \in boot.todo : /\ boot.pc = "completing" => sess[u].state = "completing"
                          /\ boot.pc = "closed" => sess[u].state \in Terminal
                          /\ ~At(Main, "idle") => Upload(Main) # u
  /\ ~At(Main, "idle") =>
       boot.pc = IF call[Main].op = "recover" THEN "completing" ELSE "closed"

Inductive == /\ TypeOK /\ LockInv /\ BootInv
             /\ \A c \in Callers : RoleOk(c) /\ CallOk(c)
             /\ \A u \in Uploads : UploadOk(u)

------------------------------------------------------------------------------
(* As long as no step raised.                                              *)

\* Recovery still has the completion of u ahead of it, or is at the given step of it.
Ahead(u, pc) == \/ boot.pc \in {"down", "refused"}
                \/ boot.pc = "completing" /\ (u \in boot.todo
                                              \/ (At(Main, pc) /\ Upload(Main) = u))

\* A registered object belongs to a completed session, or to a completion that is
\* about to finalize it, now or in recovery.
ObjectFinalized(u) ==
  /\ ~Bare(u) => \/ sess[u].state = "completed"
                 \/ /\ sess[u].state = "completing"
                    /\ \/ \E c \in Clients : At(c, "finalize") /\ Upload(c) = u
                       \/ Ahead(u, "finalize")
  /\ queued[u] # {} => sess[u].state = "completed"

\* So does a target in isolation that has no row yet.
TargetsAccounted(u) ==
  \A i \in Ids :
    (iso[u][i].dir /\ object[u][i] = "none") =>
      /\ sess[u].state = "completing"
      /\ \/ \E c \in Clients : call[c].pc \in {"move", "insert"} /\ Upload(c) = u
         \/ Ahead(u, "orphan")

\* The parts on record are the parts on disk, but for one being committed.
PartsKept(u) ==
  boot.pc \notin {"down", "refused"} =>
    \A p \in Parts :
      (sess[u].state \in Active /\ record[u][p] # NoContent) =>
        \/ stage[u].parts[p] = record[u][p]
        \/ \E c \in Clients : At(c, "commit") /\ Upload(c) = u /\ call[c].part = p

\* A closed session is swept, or somebody is going to sweep it.
ClosedSwept(u) ==
  sess[u].state \in Terminal =>
    \/ stage[u].parts = NoParts /\ ~stage[u].assembled /\ record[u] = NoParts
    \/ \E c \in Callers : call[c].pc \in {"wipe", "delete"} /\ Upload(c) = u
    \/ boot.pc \in {"down", "refused", "completing"}
    \/ boot.pc = "closed" /\ u \in boot.todo

UndisturbedOk(u) ==
  /\ ObjectFinalized(u) /\ TargetsAccounted(u)
  /\ PartsKept(u) /\ ClosedSwept(u)

Undisturbed == glitches = 0 => \A u \in Uploads : UndisturbedOk(u)

Inv == Inductive /\ Undisturbed

------------------------------------------------------------------------------
(* The state's rows.                                                       *)

SessRow  == [state: {"absent"} \cup Active \cup Terminal, id: Ids \cup {0}, expected: Content]
StageRow == [dir: BOOLEAN, parts: [Parts -> Content], assembled: BOOLEAN]
IsoRow   == [dir: BOOLEAN, file: [Parts -> Content]]
Pcs      == {"idle", "create", "receive", "wait", "put", "commit", "complete", "assemble",
             "register", "move", "insert", "finalize", "wipe", "delete", "submit", "undo",
             "unlink", "cancel", "expire", "orphan", "tidy", "reset"}
Ops      == {"none", "put", "complete", "rebind", "cancel", "expire", "recover", "clean"}
CallRow  == [pc: Pcs, op: Ops, on: Uploads \cup {"none"}, gen: 0..1,
             part: Parts \cup {"none"}, content: Content, file: [Parts -> Content]]

Rows == /\ sess \in [Uploads -> SessRow]
        /\ record \in [Uploads -> [Parts -> Content]]
        /\ object \in [Uploads -> [Ids -> {"none", "pending", "scanned"}]]
        /\ queued \in [Uploads -> SUBSET Ids]
        /\ stage \in [Uploads -> StageRow]
        /\ iso \in [Uploads -> [Ids -> IsoRow]]
        /\ due \in [Uploads -> BOOLEAN]
        /\ lock \in [Uploads -> 0..1]
        /\ call \in [Callers -> CallRow]
        /\ sweep \in SUBSET Uploads
        /\ boot \in [pc: {"serving", "down", "refused", "completing", "closed"},
                     todo: SUBSET Uploads]
        /\ crashes \in 0..MaxFaults /\ glitches \in 0..MaxFaults

\* TypeOK, with the rows named.
LEMMA RowsAreTypes == TypeOK <=> Rows
BY DEF TypeOK, Rows, SessRow, StageRow, IsoRow, CallRow, Pcs, Ops

LEMMA RowsAreTypesNext == TypeOK' <=> Rows'
BY DEF TypeOK, Rows, SessRow, StageRow, IsoRow, CallRow, Pcs, Ops

LEMMA Threads ==
  /\ Main \in Callers /\ Sweeper \in Callers /\ Main # Sweeper
  /\ Clients \subseteq Callers
  /\ \A c \in Callers : c \in Clients <=> (c # Main /\ c # Sweeper)
BY UploadConstants DEF Callers

------------------------------------------------------------------------------
(* A step of one call at one upload.                                       *)

Same(u) == /\ sess'[u] = sess[u] /\ record'[u] = record[u] /\ object'[u] = object[u]
           /\ queued'[u] = queued[u] /\ stage'[u] = stage[u] /\ iso'[u] = iso[u]
           /\ lock'[u] = lock[u]

\* Nothing else moves: no other call, no other upload, not the main thread's work list.
Local(c, u) ==
  /\ \A d \in Callers \ {c} : call'[d] = call[d]
  /\ \A v \in Uploads \ {u} : Same(v)
  /\ sweep' \subseteq sweep /\ boot' = boot
  /\ glitches' = 0 => glitches = 0
  /\ At(c, "idle") \/ Upload(c) = u
  /\ At(c, "idle")' \/ Upload(c)' = u
  /\ sess[u].state # "absent" => sess'[u].state # "absent"
  /\ lock'[u] \in {lock[u], lock[u] + 1}

\* No other call is at work on the upload of this one.
Alone(c, u) == \A d \in Callers \ {c} : Upload(d) = u => ~Inside(d) /\ ~At(d, "create")

\* What the other calls at work on an upload rely on.
Relied(u) == /\ sess'[u] = sess[u] /\ object'[u] = object[u] /\ iso'[u] = iso[u]
             /\ lock'[u] = lock[u]
             /\ stage'[u].parts = stage[u].parts /\ stage'[u].dir = stage[u].dir
             /\ stage'[u].assembled => stage[u].assembled

\* The call stays inside, or finds the lock it asked for free.
Locked(c, u) ==
  /\ Inside(c)' => /\ call'[c].gen = call[c].gen
                   /\ Inside(c) \/ \A d \in Callers \ {c} :
                        (Inside(d) /\ Upload(d) = u) => call[d].gen # call[c].gen
                   /\ ~At(c, "idle")
  /\ At(c, "create")' => /\ ~Inside(c)' 
                         /\ \A d \in Callers : Upload(d) = u => ~At(d, "create")

\* Requests and the sweep work while the service serves; the main thread works alone.
InTurn(c, u) ==
  IF c = Main
  THEN /\ lock' = lock /\ ~At(Main, "idle")
       /\ At(Main, "idle")' \/ call'[Main].op = call[Main].op
  ELSE Serving

\* A step of one call at one upload keeps the invariant if the call and the upload keep
\* their parts of it: others are elsewhere, or rely on what the step leaves alone.
LEMMA LocalStep ==
  ASSUME Inductive, NEW c \in Callers, NEW u \in Uploads, Local(c, u), Locked(c, u), InTurn(c, u),
         Alone(c, u) \/ Relied(u),
         TypeOK', RoleOk(c)', CallOk(c)', UploadOk(u)'
  PROVE  Inductive'
<1>1. ASSUME NEW d \in Callers, d # c
      PROVE  RoleOk(d)' /\ CallOk(d)'
  <2>1. call'[d] = call[d] /\ RoleOk(d) /\ CallOk(d)
    BY <1>1 DEF Local, Inductive
  <2>2. RoleOk(d)'
    BY <2>1 DEF RoleOk
  <2>3. CASE At(d, "idle")
    <3>1. call'[d].pc = "idle"
      BY <2>1, <2>3 DEF At
    <3>2. QED
      BY <2>2, <3>1 DEF CallOk, At
  <2>4. CASE ~At(d, "idle") /\ Upload(d) # u
    <3>1. Upload(d) \in Uploads
      BY <2>1, <2>4 DEF RoleOk, At, Upload
    <3>2. Same(Upload(d)) /\ Upload(d)' = Upload(d)
      BY <3>1, <2>4, <2>1 DEF Local, Upload
    <3>3. QED
      BY <2>1, <2>2, <3>2 DEF CallOk, Same, At, Bare, Promise, Registered, Object, Upload
  <2>5. CASE ~At(d, "idle") /\ Upload(d) = u /\ Relied(u)
    BY <2>1, <2>2, <2>5 DEF CallOk, Relied, At, Bare, Promise, Registered, Object, Upload
  <2>6. CASE ~At(d, "idle") /\ Upload(d) = u /\ Alone(c, u)
    <3>1. call[d].pc \in {"receive", "wait"}
      BY <1>1, <2>6 DEF Alone, Inside, At, Upload
    <3>2. call[d].gen \in 0..1 /\ lock[u] \in 0..1
      BY RowsAreTypes DEF Inductive, Rows, CallRow
    <3>3. QED
      BY <2>1, <2>2, <2>6, <3>1, <3>2 DEF CallOk, Local, At, Upload
  <2>7. QED
    BY <2>3, <2>4, <2>5, <2>6
<1>2. ASSUME NEW v \in Uploads, v # u
      PROVE  UploadOk(v)'
  <2>1. Same(v) /\ UploadOk(v)
    BY <1>2 DEF Local, Inductive
  <2>2. QED
    BY <2>1 DEF UploadOk, Same, Bare, Promise, Registered
<1>3. LockInv'
  <2>1. SUFFICES ASSUME NEW a \in Callers, NEW b \in Callers, Upload(a)' = Upload(b)', a # b
                 PROVE  /\ ~(Inside(a)' /\ Inside(b)' /\ call'[a].gen = call'[b].gen)
                        /\ ~(At(a, "create")' /\ At(b, "create")')
    BY DEF LockInv
  <2>2. CASE a # c /\ b # c
    BY <2>1, <2>2 DEF Inductive, LockInv, Local, Inside, At, Upload
  <2>3. ASSUME NEW d \in Callers, d # c, Upload(c)' = Upload(d)'
        PROVE  /\ ~(Inside(c)' /\ Inside(d)' /\ call'[c].gen = call'[d].gen)
               /\ ~(At(c, "create")' /\ At(d, "create")')
    <3>1. call'[d] = call[d]
      BY <2>3 DEF Local
    <3>2. ASSUME Inside(c)', Inside(d)', call'[c].gen = call'[d].gen
          PROVE  FALSE
      <4>1. Upload(c) = u /\ Upload(d) = u /\ Inside(d) /\ call[d].gen = call[c].gen
        BY <3>1, <3>2, <2>3 DEF Local, Locked, Inside, At, Upload
      <4>2. Inside(c)
        BY <2>3, <3>2, <4>1 DEF Locked
      <4>3. QED
        BY <4>1, <4>2, <2>3 DEF Inductive, LockInv
    <3>3. ASSUME At(c, "create")', At(d, "create")'
          PROVE  FALSE
      BY <3>1, <3>3, <2>3 DEF Local, Locked, At, Upload
    <3>4. QED
      BY <3>2, <3>3
  <2>4. QED
    BY <2>1, <2>2, <2>3
<1>4. BootInv'
  <2>1. CASE c # Main
    <3>1. \A v \in sweep' : sess'[v].state # "absent"
      BY RowsAreTypes DEF Inductive, Rows, BootInv, Local, Same
    <3>2. Serving /\ boot' = boot /\ call'[Main] = call[Main]
      BY <2>1, Threads DEF Local, InTurn
    <3>3. QED
      BY <3>1, <3>2 DEF Inductive, BootInv, Serving, At
  <2>2. CASE c = Main
    <3>1. /\ boot' = boot /\ lock' = lock /\ sweep' \subseteq sweep
          /\ \A d \in Callers \ {Main} : call'[d] = call[d]
      BY <2>2 DEF Local, InTurn
    <3>2. ~At(Main, "idle") /\ Upload(Main) = u /\ u \notin boot.todo
      <4>1. ~At(Main, "idle") /\ Upload(Main) = u
        BY <2>2 DEF InTurn, Local, At
      <4>2. \A v \in boot.todo : Upload(Main) # v
        BY <4>1 DEF Inductive, BootInv
      <4>3. QED
        BY <4>1, <4>2
    <3>3. boot.todo \subseteq Uploads
      BY RowsAreTypes DEF Inductive, Rows
    <3>4. \A v \in boot.todo : sess'[v] = sess[v]
      BY <3>2, <3>3 DEF Local, Same
    <3>5. \A v \in sweep' : sess'[v].state # "absent"
      BY RowsAreTypes DEF Inductive, Rows, BootInv, Local, Same
    <3>6. QED
      BY <2>2, <3>1, <3>2, <3>4, <3>5, Threads
         DEF Inductive, BootInv, Local, InTurn, Serving, At, Same, Upload
  <2>3. QED
    BY <2>1, <2>2
<1>5. QED
  BY <1>1, <1>2, <1>3, <1>4 DEF Inductive

\* The same of what holds as long as no step raised.
LEMMA LocalUndisturbed ==
  ASSUME Undisturbed, NEW c \in Callers, NEW u \in Uploads, Local(c, u),
         glitches' = 0 => UndisturbedOk(u)'
  PROVE  Undisturbed'
<1>1. SUFFICES ASSUME glitches' = 0, NEW v \in Uploads, v # u
               PROVE  UndisturbedOk(v)'
  BY DEF Undisturbed
<1>2. UndisturbedOk(v) /\ Same(v) /\ boot' = boot
  BY <1>1 DEF Undisturbed, Local
<1>3. ASSUME NEW d \in Callers, ~At(d, "idle"), Upload(d) = v
      PROVE  call'[d] = call[d]
  BY <1>1, <1>3 DEF Local
<1>4. \A pc \in Pcs \ {"idle"} : Ahead(v, pc) => Ahead(v, pc)'
  BY <1>2, <1>3, Threads DEF Ahead, At, Upload
<1>5. ObjectFinalized(v)'
  <2>1. ASSUME NEW d \in Clients, At(d, "finalize"), Upload(d) = v
        PROVE  At(d, "finalize")' /\ Upload(d)' = v
    BY <2>1, <1>3, Threads DEF At, Upload, Callers
  <2>2. Ahead(v, "finalize") => Ahead(v, "finalize")'
    BY <1>4 DEF Pcs
  <2>3. QED
    BY <1>2, <2>1, <2>2 DEF UndisturbedOk, ObjectFinalized, Same, Bare
<1>6. TargetsAccounted(v)'
  <2>1. ASSUME NEW d \in Clients, call[d].pc \in {"move", "insert"}, Upload(d) = v
        PROVE  call'[d].pc \in {"move", "insert"} /\ Upload(d)' = v
    BY <2>1, <1>3, Threads DEF At, Upload, Callers
  <2>2. Ahead(v, "orphan") => Ahead(v, "orphan")'
    BY <1>4 DEF Pcs
  <2>3. QED
    BY <1>2, <2>1, <2>2 DEF UndisturbedOk, TargetsAccounted, Same
<1>7. PartsKept(v)'
  <2>1. ASSUME NEW d \in Clients, At(d, "commit"), Upload(d) = v
        PROVE  At(d, "commit")' /\ Upload(d)' = v /\ call'[d].part = call[d].part
    BY <2>1, <1>3, Threads DEF At, Upload, Callers
  <2>2. QED
    BY <1>2, <2>1 DEF UndisturbedOk, PartsKept, Same
<1>8. ClosedSwept(v)'
  <2>1. ASSUME NEW d \in Callers, call[d].pc \in {"wipe", "delete"}, Upload(d) = v
        PROVE  call'[d].pc \in {"wipe", "delete"} /\ Upload(d)' = v
    BY <2>1, <1>3, Threads DEF At, Upload
  <2>2. QED
    BY <1>2, <2>1 DEF UndisturbedOk, ClosedSwept, Same
<1>9. QED
  BY <1>5, <1>6, <1>7, <1>8 DEF UndisturbedOk

\* The rule for a step of a call.
LEMMA StepKeepsInv ==
  ASSUME Inv, NEW c \in Callers, NEW u \in Uploads, Local(c, u), Locked(c, u), InTurn(c, u),
         Alone(c, u) \/ Relied(u),
         TypeOK', RoleOk(c)', CallOk(c)', UploadOk(u)',
         (glitches' = 0 /\ UndisturbedOk(u)) => UndisturbedOk(u)'
  PROVE  Inv'
<1>1. Inductive'
  BY LocalStep DEF Inv
<1>2. glitches' = 0 => UndisturbedOk(u)
  BY DEF Inv, Undisturbed, Local
<1>3. QED
  BY <1>1, <1>2, LocalUndisturbed DEF Inv

\* A step that only moves its call along keeps what holds of the upload.
LEMMA PureStep ==
  ASSUME Inv, NEW c \in Callers, NEW u \in Uploads, c # Main, Serving,
         UNCHANGED <<rowVars, diskVars, lock, due, boot, crashes>>,
         sweep' \in SUBSET sweep,
         glitches' \in 0..MaxFaults, glitches' = 0 => glitches = 0,
         call' \in [Callers -> CallRow], \A d \in Callers \ {c} : call'[d] = call[d],
         At(c, "idle") \/ Upload(c) = u,
         At(c, "idle")' \/ Upload(c)' = u,
         Locked(c, u), RoleOk(c)', CallOk(c)',
         glitches' # 0
           \/ call[c].pc \notin {"commit", "move", "insert", "finalize", "wipe", "delete"}
  PROVE  Inv'
<1>1. /\ sess' = sess /\ record' = record /\ object' = object /\ queued' = queued
      /\ stage' = stage /\ iso' = iso /\ lock' = lock /\ due' = due /\ boot' = boot
      /\ crashes' = crashes
  BY DEF rowVars, diskVars
<1>2. Rows /\ UploadOk(u)
  BY RowsAreTypes DEF Inv, Inductive
<1>3. TypeOK'
  BY <1>1, <1>2, RowsAreTypesNext DEF Rows
<1>4. Local(c, u) /\ InTurn(c, u) /\ Relied(u)
  BY <1>1, <1>2 DEF Local, Same, InTurn, Relied, Rows
<1>5. UploadOk(u)'
  BY <1>1, <1>2 DEF UploadOk, Bare, Promise, Registered
<1>6. ASSUME glitches' = 0, UndisturbedOk(u)
      PROVE  UndisturbedOk(u)'
  <2>1. \A d \in Callers :
          call[d].pc \in {"commit", "move", "insert", "finalize", "wipe", "delete"}
            => call'[d] = call[d]
    BY <1>6
  <2>2. ObjectFinalized(u)'
    BY <1>1, <1>6, <2>1, Threads
       DEF UndisturbedOk, ObjectFinalized, Ahead, At, Upload, Bare, Serving
  <2>3. TargetsAccounted(u)'
    BY <1>1, <1>6, <2>1, Threads DEF UndisturbedOk, TargetsAccounted, Ahead, At, Upload, Serving
  <2>4. PartsKept(u)' /\ ClosedSwept(u)'
    BY <1>1, <1>6, <2>1, Threads DEF UndisturbedOk, PartsKept, ClosedSwept, At, Upload
  <2>5. QED
    BY <2>2, <2>3, <2>4 DEF UndisturbedOk
<1>7. QED
  BY <1>3, <1>4, <1>5, <1>6, StepKeepsInv

------------------------------------------------------------------------------
(* The steps of a call.                                                    *)

\* What holds of a call that is under way.
LEMMA AtWork ==
  ASSUME Inductive, NEW c \in Callers, NEW u \in Uploads, Upload(c) = u, ~At(c, "idle")
  PROVE  /\ Rows /\ RoleOk(c) /\ CallOk(c) /\ UploadOk(u)
         /\ c = Main => /\ call[c].op \in {"recover", "clean"} /\ lock[u] = 0
                        /\ u \notin boot.todo
                        /\ boot.pc = IF call[c].op = "recover" THEN "completing" ELSE "closed"
         /\ c # Main => Serving /\ call[c].op \notin {"recover", "clean"}
         /\ c \in Clients <=> (c # Main /\ c # Sweeper)
<1>1. Rows /\ RoleOk(c) /\ CallOk(c) /\ UploadOk(u)
  BY RowsAreTypes DEF Inductive
<1>2. ASSUME c = Main
      PROVE  /\ call[c].op \in {"recover", "clean"} /\ u \notin boot.todo
             /\ boot.pc = IF call[c].op = "recover" THEN "completing" ELSE "closed"
  <2>1. call[c].op \in {"recover", "clean"}
    BY <1>1, <1>2 DEF RoleOk, At
  <2>2. QED
    BY <2>1, <1>2 DEF Inductive, BootInv, At, Upload
<1>3. ASSUME c = Main
      PROVE  lock[u] = 0
  BY <1>2, <1>3 DEF Inductive, BootInv, Serving
<1>4. ASSUME c # Main
      PROVE  Serving /\ call[c].op \notin {"recover", "clean"}
  BY <1>1, <1>4, Threads DEF Inductive, BootInv, RoleOk, At
<1>5. QED
  BY <1>1, <1>2, <1>3, <1>4, Threads

\* Until its session is closed, a call inside has the upload for itself.
LEMMA AloneInside ==
  ASSUME Inductive, NEW c \in Callers, NEW u \in Uploads, Upload(c) = u, Inside(c),
         sess[u].state \notin Terminal \/ call[c].pc \in {"wipe", "delete"}
  PROVE  Alone(c, u) /\ lock[u] = 0 /\ call[c].gen = 0
<1>1. Rows /\ CallOk(c) /\ UploadOk(u)
  BY RowsAreTypes DEF Inductive
<1>2. lock[u] = 0
  BY <1>1 DEF Rows, UploadOk, CallOk, Upload
<1>3. \A d \in Callers : (Upload(d) = u /\ ~At(d, "idle")) => call[d].gen = 0
  BY <1>1, <1>2 DEF Rows, CallRow, Inductive, CallOk, Upload
<1>4. \A d \in Callers : Upload(d) = u => ~At(d, "create")
  BY <1>1 DEF Inductive, CallOk, Inside, At, Upload
<1>5. QED
  BY <1>2, <1>3, <1>4 DEF Inductive, LockInv, Alone, Inside, At

\* What Goto and Ends leave of the calls.
LEMMA GotoFrame ==
  ASSUME Rows, NEW c \in Callers, NEW pc \in Pcs, Goto(c, pc)
  PROVE  /\ call' \in [Callers -> CallRow]
         /\ \A d \in Callers \ {c} : call'[d] = call[d]
         /\ call'[c].pc = pc /\ call'[c].op = call[c].op /\ call'[c].on = call[c].on
         /\ call'[c].gen = call[c].gen /\ call'[c].part = call[c].part
         /\ call'[c].content = call[c].content /\ call'[c].file = call[c].file
BY DEF Goto, CallRow, Rows

LEMMA EndsFrame ==
  ASSUME Rows, NEW c \in Callers, Ends(c)
  PROVE  /\ call' \in [Callers -> CallRow]
         /\ \A d \in Callers \ {c} : call'[d] = call[d]
         /\ call'[c].pc = "idle" /\ call'[c].op = "none"
BY DEF Ends, CallRow, NoCall, Pcs, Ops, NoParts, Content, Rows

\* A request's call.
LEMMA Request ==
  ASSUME Inv, NEW c \in Callers, NEW u \in Uploads, Upload(c) = u,
         call[c].pc \in {"create", "receive", "put", "commit", "complete", "assemble", "register",
                         "move", "insert", "submit", "undo", "unlink", "cancel"}
  PROVE  /\ Rows /\ RoleOk(c) /\ CallOk(c) /\ UploadOk(u) /\ Serving
         /\ c \in Clients /\ c # Main /\ c # Sweeper
<1>1. Rows /\ RoleOk(c) /\ CallOk(c) /\ UploadOk(u)
  BY RowsAreTypes DEF Inv, Inductive
<1>2. c # Main /\ c # Sweeper
  BY <1>1 DEF RoleOk
<1>3. QED
  BY <1>1, <1>2, AtWork, Threads DEF Inv, At

LEMMA ReceivedStep ==
  ASSUME Inv, NEW c \in Callers, NEW u \in Uploads, Upload(c) = u, Received(c)
  PROVE  Inv'
<1>1. Rows /\ RoleOk(c) /\ CallOk(c) /\ Serving /\ c # Main /\ c # Sweeper /\ call[c].pc = "receive"
  BY Request DEF Received, At
<1>2. /\ call' \in [Callers -> CallRow]
      /\ \A d \in Callers \ {c} : call'[d] = call[d]
      /\ call'[c].pc = "wait" /\ call'[c].op = call[c].op /\ call'[c].on = u
      /\ call'[c].gen = lock[u] /\ call'[c].part = call[c].part
      /\ call'[c].content = call[c].content
  <2>1. call[c] \in CallRow /\ lock[u] \in 0..1
    BY <1>1 DEF Rows
  <2>2. call' = [call EXCEPT ![c] = [call[c] EXCEPT !.pc = "wait", !.gen = lock[u]]]
    BY <1>1 DEF Received, Rows
  <2>3. [call[c] EXCEPT !.pc = "wait", !.gen = lock[u]] \in CallRow
    BY <2>1 DEF CallRow, Pcs
  <2>4. QED
    BY <1>1, <2>1, <2>2, <2>3 DEF CallRow, Rows, Upload
<1>3. RoleOk(c)' /\ Locked(c, u)
  BY <1>1, <1>2 DEF RoleOk, Locked, Inside, At
<1>4. CallOk(c)'
  <2>1. lock'[u] \in 0..1 /\ lock' = lock /\ sess' = sess
    BY <1>1 DEF Rows, Received, rowVars
  <2>2. QED
    BY <1>1, <1>2, <2>1 DEF CallOk, At, Upload
<1>5. QED
  BY <1>1, <1>2, <1>3, <1>4, PureStep DEF Received, At, Upload, elseVars, faultVars, Rows

\* The lock goes to one of those that wait for it.
LEMMA TakeLockStep ==
  ASSUME Inv, NEW c \in Callers, NEW u \in Uploads, Upload(c) = u, TakeLock(c)
  PROVE  Inv'
<1>1. /\ Rows /\ RoleOk(c) /\ CallOk(c) /\ call[c].pc = "wait"
      /\ c # Main /\ Serving /\ call[c].op \in {"put", "complete", "cancel", "expire"}
  <2>1. ~At(c, "idle") /\ Inductive /\ call[c].pc = "wait"
    BY DEF TakeLock, At, Inv
  <2>2. Rows /\ RoleOk(c) /\ CallOk(c) /\ (c # Main => Serving)
    BY <2>1, AtWork
  <2>3. QED
    BY <2>1, <2>2 DEF RoleOk
<1>2. /\ call' \in [Callers -> CallRow]
      /\ \A d \in Callers \ {c} : call'[d] = call[d]
      /\ call'[c].pc = call[c].op /\ call'[c].op = call[c].op /\ call'[c].on = u
      /\ call'[c].gen = call[c].gen /\ call'[c].part = call[c].part
      /\ call'[c].content = call[c].content
  BY <1>1, GotoFrame DEF TakeLock, Pcs, Upload
<1>3. RoleOk(c)'
  BY <1>1, <1>2 DEF RoleOk
<1>4. Locked(c, u)
  BY <1>1, <1>2 DEF Locked, TakeLock, Inside, At, Upload
<1>5. CallOk(c)'
  BY <1>1, <1>2 DEF CallOk, At, Upload, TakeLock, rowVars
<1>6. QED
  BY <1>1, <1>2, <1>3, <1>4, <1>5, PureStep DEF TakeLock, At, Upload, elseVars, Rows

\* A call that ends without further ado.
LEMMA EndsStep ==
  ASSUME Inv, NEW c \in Callers, NEW u \in Uploads, Upload(c) = u, c # Main, Serving, Ends(c),
         UNCHANGED <<rowVars, diskVars, lock, elseVars>>,
         call[c].pc \in {"put", "complete", "cancel", "expire"}
  PROVE  Inv'
<1>1. Rows /\ RoleOk(c)
  BY RowsAreTypes DEF Inv, Inductive
<1>2. /\ call' \in [Callers -> CallRow]
      /\ \A d \in Callers \ {c} : call'[d] = call[d]
      /\ call'[c].pc = "idle" /\ call'[c].op = "none"
  BY <1>1, EndsFrame
<1>3. RoleOk(c)' /\ CallOk(c)'
  BY <1>2 DEF RoleOk, CallOk, At
<1>4. Locked(c, u)
  BY <1>2 DEF Locked, Inside, At
<1>5. QED
  BY <1>1, <1>2, <1>3, <1>4, PureStep DEF At, elseVars, Rows

LEMMA RebindStep ==
  ASSUME Inv, NEW c \in Callers, NEW u \in Uploads, Upload(c) = u, Rebind(c)
  PROVE  Inv'
<1>1. /\ Rows /\ RoleOk(c) /\ CallOk(c) /\ Serving /\ c # Main /\ c # Sweeper
      /\ call[c].pc = "complete"
  BY Request DEF Rebind, At
<1>2. /\ call' \in [Callers -> CallRow]
      /\ \A d \in Callers \ {c} : call'[d] = call[d]
      /\ call'[c].pc = "finalize" /\ call'[c].op = "rebind" /\ call'[c].on = u
      /\ call'[c].gen = call[c].gen
  <2>1. call' = [call EXCEPT ![c] = [call[c] EXCEPT !.pc = "finalize", !.op = "rebind"]]
    BY <1>1 DEF Rebind, Rows
  <2>2. [call[c] EXCEPT !.pc = "finalize", !.op = "rebind"] \in CallRow
    <3>1. call[c] \in CallRow
      BY <1>1 DEF Rows
    <3>2. QED
      BY <3>1 DEF CallRow, Pcs, Ops
  <2>3. QED
    BY <1>1, <2>1, <2>2 DEF CallRow, Rows, Upload
<1>3. RoleOk(c)' /\ Locked(c, u)
  BY <1>1, <1>2 DEF RoleOk, Locked, Inside, At
<1>4. CallOk(c)'
  BY <1>1, <1>2 DEF CallOk, At, Upload, Rebind, rowVars, Registered
<1>5. QED
  BY <1>1, <1>2, <1>3, <1>4, PureStep DEF Rebind, At, Upload, elseVars, Rows

LEMMA DeclineStep ==
  ASSUME Inv, NEW c \in Callers, NEW u \in Uploads, Upload(c) = u, Decline(c)
  PROVE  Inv'
BY Request, EndsStep DEF Decline, At

------------------------------------------------------------------------------
(* Requests, and the sweep's.                                              *)

LEMMA NoCallRow ==
  /\ NoCall \in CallRow /\ NoCall.pc = "idle" /\ NoCall.op = "none" /\ NoCall.gen = 0
BY DEF NoCall, CallRow, Pcs, Ops, NoParts, Content

\* A directory that is not there yet: nobody else creates the session.
LEMMA CreateDirStep ==
  ASSUME Inv, NEW c \in Callers, NEW u \in Uploads, c \in Clients, CreateDir(c, u)
  PROVE  Inv'
<1>1. /\ Rows /\ UploadOk(u) /\ Serving /\ c # Main /\ c # Sweeper /\ call[c] = NoCall
      /\ call[c].pc = "idle" /\ sess[u].state = "absent" /\ ~stage[u].dir
  BY RowsAreTypes, Threads DEF Inv, Inductive, CreateDir, NoCall
<1>2. /\ sess' = sess /\ record' = record /\ object' = object /\ queued' = queued
      /\ iso' = iso /\ lock' = lock /\ due' = due /\ sweep' = sweep /\ boot' = boot
      /\ crashes' = crashes /\ glitches' = glitches
  BY DEF CreateDir, rowVars, elseVars
<1>3. /\ call' \in [Callers -> CallRow]
      /\ \A d \in Callers \ {c} : call'[d] = call[d]
      /\ call'[c].pc = "create" /\ call'[c].op = "none" /\ call'[c].on = u /\ call'[c].gen = 0
  <2>1. [NoCall EXCEPT !.pc = "create", !.on = u] \in CallRow
    BY NoCallRow DEF CallRow, Pcs
  <2>2. QED
    BY <1>1, <2>1, NoCallRow DEF CreateDir, Rows
<1>4. /\ stage' \in [Uploads -> StageRow] /\ stage'[u].dir
      /\ stage'[u].parts = stage[u].parts /\ stage'[u].assembled = stage[u].assembled
      /\ \A v \in Uploads \ {u} : stage'[v] = stage[v]
  BY <1>1 DEF CreateDir, StageRow, Rows
<1>5. TypeOK'
  BY <1>1, <1>2, <1>3, <1>4, RowsAreTypesNext DEF Rows
<1>6. \A d \in Callers : Upload(d) = u => ~Inside(d) /\ ~At(d, "create")
  BY <1>1 DEF Inv, Inductive, CallOk, Inside, At, Upload
<1>7. Local(c, u) /\ Locked(c, u) /\ InTurn(c, u) /\ Alone(c, u)
  BY <1>1, <1>2, <1>3, <1>4, <1>6
     DEF Local, Same, Locked, InTurn, Alone, Inside, At, Upload, Rows
<1>8. RoleOk(c)'
  BY <1>1, <1>3 DEF RoleOk
<1>9. CallOk(c)'
  <2>1. lock'[u] \in 0..1
    BY <1>1, <1>2 DEF Rows
  <2>2. QED
    BY <1>1, <1>2, <1>3, <1>4, <2>1 DEF CallOk, At, Upload
<1>10. UploadOk(u)'
  BY <1>1, <1>2 DEF UploadOk, Bare, Promise, Registered
<1>11. ASSUME UndisturbedOk(u)
       PROVE  UndisturbedOk(u)'
  <2>1. ObjectFinalized(u)' /\ TargetsAccounted(u)'
    BY <1>1, <1>2, <1>11 DEF UndisturbedOk, ObjectFinalized, TargetsAccounted, Bare
  <2>2. PartsKept(u)' /\ ClosedSwept(u)'
    BY <1>1, <1>2 DEF PartsKept, ClosedSwept, Active, Terminal
  <2>3. QED
    BY <2>1, <2>2 DEF UndisturbedOk
<1>12. QED
  BY <1>5, <1>7, <1>8, <1>9, <1>10, <1>11, StepKeepsInv

LEMMA CreateRowStep ==
  ASSUME Inv, NEW c \in Callers, NEW u \in Uploads, Upload(c) = u, CreateRow(c)
  PROVE  Inv'
<1>1. /\ Rows /\ UploadOk(u) /\ Serving /\ c # Main /\ call[c].pc = "create" /\ ~Inside(c)
      /\ sess[u].state = "absent"
  BY Request DEF CreateRow, At, CallOk, Upload, Inside
<1>2. /\ record' = record /\ object' = object /\ queued' = queued /\ stage' = stage
      /\ iso' = iso /\ lock' = lock /\ due' = due /\ sweep' = sweep /\ boot' = boot
      /\ crashes' = crashes /\ glitches' = glitches
  BY DEF CreateRow, diskVars, elseVars
<1>3. /\ call' \in [Callers -> CallRow]
      /\ \A d \in Callers \ {c} : call'[d] = call[d]
      /\ call'[c].pc = "idle" /\ call'[c].op = "none"
  BY <1>1, EndsFrame DEF CreateRow
<1>4. PICK w \in {Original, NoContent} :
        sess' = [sess EXCEPT ![u] = [state |-> "uploading", id |-> 0, expected |-> w]]
  BY DEF CreateRow
<1>5. /\ sess' \in [Uploads -> SessRow]
      /\ sess'[u].state = "uploading" /\ sess'[u].id = 0 /\ sess'[u].expected = w
      /\ \A v \in Uploads \ {u} : sess'[v] = sess[v]
  <2>1. [state |-> "uploading", id |-> 0, expected |-> w] \in SessRow
    BY UploadConstants DEF SessRow, Active, Content
  <2>2. QED
    BY <1>1, <1>4, <2>1 DEF Rows
<1>6. TypeOK'
  BY <1>1, <1>2, <1>3, <1>5, RowsAreTypesNext DEF Rows
<1>7. Alone(c, u)
  BY <1>1 DEF Inv, Inductive, LockInv, CallOk, Alone, Inside, At, Upload
<1>8. Local(c, u) /\ Locked(c, u) /\ InTurn(c, u)
  BY <1>1, <1>2, <1>3, <1>5 DEF Local, Same, Locked, InTurn, Inside, At, Upload, Rows
<1>9. RoleOk(c)' /\ CallOk(c)'
  BY <1>3 DEF RoleOk, CallOk, At
<1>10. Bare(u) /\ \A i \in Ids : ~iso[u][i].dir
  BY <1>1 DEF UploadOk, Bare, Ids
<1>11. UploadOk(u)'
  BY <1>1, <1>2, <1>5, <1>10, UploadConstants DEF UploadOk, Bare, Rows, Terminal
<1>12. ASSUME UndisturbedOk(u)
       PROVE  UndisturbedOk(u)'
  <2>1. ObjectFinalized(u)' /\ TargetsAccounted(u)'
    BY <1>1, <1>2, <1>10, <1>12 DEF UndisturbedOk, ObjectFinalized, TargetsAccounted, Bare
  <2>2. \A p \in Parts : record'[u][p] = NoContent
    BY <1>1, <1>2 DEF UploadOk, NoParts
  <2>3. PartsKept(u)' /\ ClosedSwept(u)'
    BY <1>5, <2>2 DEF PartsKept, ClosedSwept, Terminal
  <2>4. QED
    BY <2>1, <2>3 DEF UndisturbedOk
<1>13. QED
  BY <1>6, <1>7, <1>8, <1>9, <1>11, <1>12, StepKeepsInv

\* A call that starts receives a part or waits for the lock.
LEMMA BeginStep ==
  ASSUME Inv, NEW c \in Callers, NEW u \in Uploads, Serving, c # Main, call[c] = NoCall,
         sess[u].state # "absent",
         UNCHANGED <<rowVars, diskVars, lock, due, boot, faultVars>>, sweep' \subseteq sweep,
         NEW k \in CallRow, call' = [call EXCEPT ![c] = k],
         k.pc \in {"receive", "wait"}, k.on = u, k.gen \in {0, lock[u]}, RoleOk(c)'
  PROVE  Inv'
<1>1. Rows /\ call[c].pc = "idle"
  BY RowsAreTypes DEF Inv, Inductive, NoCall
<1>2. /\ call' \in [Callers -> CallRow]
      /\ \A d \in Callers \ {c} : call'[d] = call[d]
      /\ call'[c] = k
  BY <1>1 DEF Rows
<1>3. lock'[u] \in 0..1 /\ lock' = lock /\ sess' = sess /\ glitches' = glitches
  BY <1>1 DEF Rows, rowVars, faultVars
<1>4. CallOk(c)'
  BY <1>2, <1>3 DEF CallOk, At, Upload
<1>5. Locked(c, u)
  BY <1>2 DEF Locked, Inside, At
<1>6. sweep' \in SUBSET sweep /\ glitches' \in 0..MaxFaults /\ UNCHANGED crashes
  BY <1>1, <1>3 DEF Rows, faultVars
<1>7. QED
  BY <1>1, <1>2, <1>3, <1>4, <1>5, <1>6, PureStep DEF At, Upload

LEMMA BeginPutStep ==
  ASSUME Inv, NEW c \in Clients, NEW u \in Uploads, BeginPut(c, u)
  PROVE  Inv'
<1>1. /\ c \in Callers /\ c # Main /\ c # Sweeper /\ Serving /\ call[c] = NoCall
      /\ sess[u].state = "uploading"
  BY Threads DEF BeginPut, Writable
<1>2. PICK p \in Parts, w \in Versions :
        call' = [call EXCEPT ![c] = [NoCall EXCEPT !.pc = "receive", !.op = "put", !.on = u,
                                                   !.part = p, !.content = w]]
  BY DEF BeginPut
<1>3. PICK k : k = [NoCall EXCEPT !.pc = "receive", !.op = "put", !.on = u,
                                  !.part = p, !.content = w]
  OBVIOUS
<1>4. /\ k \in CallRow /\ k.pc = "receive" /\ k.op = "put" /\ k.on = u /\ k.gen = 0
      /\ k.part = p /\ k.content = w
  BY <1>3, NoCallRow DEF CallRow, Pcs, Ops, Content
<1>5. Rows /\ call' = [call EXCEPT ![c] = k]
  BY <1>2, <1>3, RowsAreTypes DEF Inv, Inductive
<1>6. RoleOk(c)'
  BY <1>1, <1>4, <1>5 DEF RoleOk, Rows
<1>7. QED
  BY <1>1, <1>4, <1>5, <1>6, BeginStep DEF BeginPut, elseVars, faultVars

LEMMA WaitsRow ==
  ASSUME Rows, NEW u \in Uploads, NEW op \in {"complete", "cancel", "expire"}
  PROVE  /\ Waits(op, u) \in CallRow /\ Waits(op, u).pc = "wait" /\ Waits(op, u).op = op
         /\ Waits(op, u).on = u /\ Waits(op, u).gen = lock[u]
<1>1. lock[u] \in 0..1
  BY DEF Rows
<1>2. QED
  BY <1>1 DEF Waits, NoCall, CallRow, Pcs, Ops, NoParts, Content

LEMMA BeginCallStep ==
  ASSUME Inv, NEW c \in Clients, NEW u \in Uploads, NEW op \in {"complete", "cancel"},
         BeginCall(c, op, u)
  PROVE  Inv'
<1>1. /\ c \in Callers /\ c # Main /\ c # Sweeper /\ Serving /\ call[c] = NoCall
      /\ sess[u].state # "absent" /\ call' = [call EXCEPT ![c] = Waits(op, u)]
  BY Threads DEF BeginCall
<1>2. Rows
  BY RowsAreTypes DEF Inv, Inductive
<1>3. PICK k \in CallRow : /\ k = Waits(op, u) /\ k.pc = "wait" /\ k.op = op
                           /\ k.on = u /\ k.gen = lock[u]
  BY <1>2, WaitsRow
<1>4. call' = [call EXCEPT ![c] = k] /\ call'[c] = k
  BY <1>1, <1>2, <1>3 DEF Rows
<1>5. RoleOk(c)'
  BY <1>1, <1>3, <1>4 DEF RoleOk
<1>6. QED
  BY <1>1, <1>3, <1>4, <1>5, BeginStep DEF BeginCall, elseVars, faultVars

LEMMA SweepNextStep ==
  ASSUME Inv, SweepNext
  PROVE  Inv'
<1>1. PICK u \in sweep : /\ call' = [call EXCEPT ![Sweeper] = Waits("expire", u)]
                         /\ sweep' = sweep \ {u}
  BY DEF SweepNext
<1>2. Rows /\ u \in Uploads /\ Serving /\ sess[u].state # "absent" /\ call[Sweeper] = NoCall
  BY RowsAreTypes DEF Inv, Inductive, BootInv, SweepNext, Rows
<1>3. PICK k \in CallRow : /\ k = Waits("expire", u) /\ k.pc = "wait" /\ k.op = "expire"
                           /\ k.on = u /\ k.gen = lock[u]
  BY <1>2, WaitsRow
<1>4. call' = [call EXCEPT ![Sweeper] = k] /\ call'[Sweeper] = k
  BY <1>1, <1>2, <1>3, Threads DEF Rows
<1>5. RoleOk(Sweeper)'
  BY <1>2, <1>3, <1>4, Threads DEF RoleOk
<1>6. QED
  BY <1>1, <1>2, <1>3, <1>4, <1>5, Threads, BeginStep DEF SweepNext, faultVars

------------------------------------------------------------------------------
(* Parts, and the completion up to the object row.                         *)

\* The part on disk may be ahead of its record, by this call alone.
LEMMA MovePartStep ==
  ASSUME Inv, NEW c \in Callers, NEW u \in Uploads, Upload(c) = u, MovePart(c)
  PROVE  Inv'
<1>1. /\ Inductive /\ Rows /\ RoleOk(c) /\ CallOk(c) /\ UploadOk(u) /\ call[c].pc = "put"
      /\ call[c].op = "put" /\ call[c].part \in Parts /\ call[c].content \in Versions
      /\ c \in Clients /\ c # Main /\ Serving
  <2>1. At(c, "put") /\ Inductive
    BY DEF MovePart, Inv
  <2>2. call[c].op = "put" /\ RoleOk(c)
    BY <2>1, AtWork DEF RoleOk, At
  <2>3. c # Main /\ c # Sweeper
    BY <2>1, <2>2, Threads DEF RoleOk, At
  <2>4. QED
    BY <2>1, <2>2, <2>3, AtWork DEF At, RoleOk
<1>2. /\ sess' = sess /\ record' = record /\ object' = object /\ queued' = queued
      /\ iso' = iso /\ lock' = lock /\ due' = due /\ sweep' = sweep /\ boot' = boot
      /\ crashes' = crashes /\ glitches' = glitches
  BY DEF MovePart, rowVars, elseVars
<1>3. CASE /\ Writable(u) /\ Goto(c, "commit")
           /\ stage' = [stage EXCEPT ![u].parts[call[c].part] = call[c].content]
  <2>1. /\ call' \in [Callers -> CallRow]
        /\ \A d \in Callers \ {c} : call'[d] = call[d]
        /\ call'[c].pc = "commit" /\ call'[c].op = "put" /\ call'[c].on = u
        /\ call'[c].gen = call[c].gen /\ call'[c].part = call[c].part
        /\ call'[c].content = call[c].content
    BY <1>1, <1>3, GotoFrame DEF Pcs, Upload
  <2>2. /\ stage' \in [Uploads -> StageRow]
        /\ \A v \in Uploads \ {u} : stage'[v] = stage[v]
        /\ stage'[u].parts[call[c].part] = call[c].content
        /\ \A p \in Parts \ {call[c].part} : stage'[u].parts[p] = stage[u].parts[p]
    <3>1. stage \in [Uploads -> StageRow] /\ call[c].part \in Parts /\ call[c].content \in Content
      BY <1>1 DEF Rows, Content
    <3>2. QED
      BY <1>3, <3>1 DEF StageRow
  <2>3. sess[u].state = "uploading" /\ Alone(c, u) /\ lock[u] = 0
    BY <1>1, <1>3, AloneInside DEF Writable, Inside, Terminal
  <2>4. TypeOK'
    BY <1>1, <1>2, <2>1, <2>2, RowsAreTypesNext DEF Rows
  <2>5. Local(c, u) /\ Locked(c, u) /\ InTurn(c, u)
    BY <1>1, <1>2, <2>1, <2>2 DEF Local, Same, Locked, InTurn, Inside, At, Upload, Rows
  <2>6. RoleOk(c)'
    BY <1>1, <2>1, Threads DEF RoleOk
  <2>7. CallOk(c)'
    BY <1>1, <1>2, <2>1, <2>2, <2>3 DEF CallOk, At, Upload
  <2>8. UploadOk(u)'
    BY <1>1, <1>2 DEF UploadOk, Bare, Promise, Registered
  <2>9. ASSUME UndisturbedOk(u)
        PROVE  UndisturbedOk(u)'
    <3>1. ObjectFinalized(u)' /\ TargetsAccounted(u)'
      BY <1>1, <1>2, <2>1, <2>3, <2>9
         DEF UndisturbedOk, ObjectFinalized, TargetsAccounted, Ahead, Alone, At, Upload, Bare,
             Serving, Terminal, Inside
    <3>2. PartsKept(u)'
      BY <1>1, <1>2, <2>1, <2>2, <2>9, Threads DEF UndisturbedOk, PartsKept, At, Upload
    <3>3. ClosedSwept(u)'
      BY <1>2, <2>3 DEF ClosedSwept, Terminal
    <3>4. QED
      BY <3>1, <3>2, <3>3 DEF UndisturbedOk
  <2>10. QED
    BY <1>1, <1>2, <2>3, <2>4, <2>5, <2>6, <2>7, <2>8, <2>9, LocalStep, LocalUndisturbed
       DEF Inv, Undisturbed
<1>4. CASE Ends(c) /\ stage' = stage
  <2>1. /\ call' \in [Callers -> CallRow]
        /\ \A d \in Callers \ {c} : call'[d] = call[d]
        /\ call'[c].pc = "idle" /\ call'[c].op = "none"
    BY <1>1, <1>4, EndsFrame
  <2>4. TypeOK'
    BY <1>1, <1>2, <1>4, <2>1, RowsAreTypesNext DEF Rows
  <2>5. Local(c, u) /\ Locked(c, u) /\ InTurn(c, u) /\ Relied(u)
    BY <1>1, <1>2, <1>4, <2>1 DEF Local, Same, Locked, InTurn, Inside, At, Upload, Rows, Relied
  <2>6. RoleOk(c)' /\ CallOk(c)'
    BY <2>1 DEF RoleOk, CallOk, At
  <2>8. UploadOk(u)'
    BY <1>1, <1>2 DEF UploadOk, Bare, Promise, Registered
  <2>9. ASSUME UndisturbedOk(u)
        PROVE  UndisturbedOk(u)'
    <3>1. ObjectFinalized(u)' /\ TargetsAccounted(u)'
      BY <1>1, <1>2, <2>1, <2>9, Threads
         DEF UndisturbedOk, ObjectFinalized, TargetsAccounted, Ahead, At, Upload, Bare, Serving
    <3>2. PartsKept(u)' /\ ClosedSwept(u)'
      BY <1>1, <1>2, <1>4, <2>1, <2>9, Threads
         DEF UndisturbedOk, PartsKept, ClosedSwept, At, Upload
    <3>4. QED
      BY <3>1, <3>2 DEF UndisturbedOk
  <2>10. QED
    BY <1>1, <1>2, <2>4, <2>5, <2>6, <2>8, <2>9, LocalStep, LocalUndisturbed DEF Inv, Undisturbed
<1>5. QED
  BY <1>3, <1>4 DEF MovePart

\* The part on disk is now the part on record.
LEMMA CommitPartStep ==
  ASSUME Inv, NEW c \in Callers, NEW u \in Uploads, Upload(c) = u, CommitPart(c)
  PROVE  Inv'
<1>1. /\ Rows /\ RoleOk(c) /\ UploadOk(u) /\ Serving /\ c # Main /\ call[c].pc = "commit"
      /\ call[c].part \in Parts /\ call[c].content \in Versions
      /\ sess[u].state = "uploading"
      /\ stage[u].parts[call[c].part] = call[c].content
  <2>1. call[c].pc = "commit"
    BY DEF CommitPart, At
  <2>2. Rows /\ RoleOk(c) /\ CallOk(c) /\ UploadOk(u) /\ Serving /\ c # Main
    BY <2>1, Request
  <2>3. QED
    BY <2>1, <2>2 DEF RoleOk, CallOk, At, Upload
<1>2. /\ sess' = sess /\ object' = object /\ queued' = queued /\ stage' = stage
      /\ iso' = iso /\ lock' = lock /\ due' = due /\ sweep' = sweep /\ boot' = boot
      /\ crashes' = crashes /\ glitches' = glitches
  BY DEF CommitPart, diskVars, elseVars
<1>3. /\ call' \in [Callers -> CallRow]
      /\ \A d \in Callers \ {c} : call'[d] = call[d]
      /\ call'[c].pc = "idle" /\ call'[c].op = "none"
  BY <1>1, EndsFrame DEF CommitPart
<1>4. /\ record' \in [Uploads -> [Parts -> Content]]
      /\ \A v \in Uploads \ {u} : record'[v] = record[v]
      /\ record'[u][call[c].part] = call[c].content
      /\ \A p \in Parts \ {call[c].part} : record'[u][p] = record[u][p]
  <2>1. record' = [record EXCEPT ![u][call[c].part] = call[c].content]
    BY <1>1 DEF CommitPart
  <2>2. record \in [Uploads -> [Parts -> Content]] /\ call[c].content \in Content
    BY <1>1 DEF Rows, Content
  <2>3. QED
    BY <1>1, <2>1, <2>2
<1>5. TypeOK'
  BY <1>1, <1>2, <1>3, <1>4, RowsAreTypesNext DEF Rows
<1>6. Local(c, u) /\ Locked(c, u) /\ InTurn(c, u) /\ Relied(u)
  BY <1>1, <1>2, <1>3, <1>4
     DEF Local, Same, Locked, InTurn, Relied, Inside, At, Upload, Rows
<1>7. RoleOk(c)' /\ CallOk(c)'
  BY <1>3 DEF RoleOk, CallOk, At
<1>8. UploadOk(u)'
  BY <1>1, <1>2 DEF UploadOk, Bare, Promise, Registered
<1>9. ASSUME UndisturbedOk(u)
      PROVE  UndisturbedOk(u)'
  <2>1. ObjectFinalized(u)' /\ TargetsAccounted(u)'
    BY <1>1, <1>2, <1>3, <1>9, Threads
       DEF UndisturbedOk, ObjectFinalized, TargetsAccounted, Ahead, Bare, At, Upload, Serving
  <2>2. PartsKept(u)' /\ ClosedSwept(u)'
    BY <1>1, <1>2, <1>3, <1>4, <1>9, Threads
       DEF UndisturbedOk, PartsKept, ClosedSwept, At, Upload, Terminal
  <2>3. QED
    BY <2>1, <2>2 DEF UndisturbedOk
<1>10. QED
  BY <1>5, <1>6, <1>7, <1>8, <1>9, StepKeepsInv

\* The session was never registered, so the object id is free, drawn before or not.
LEMMA ClaimStep ==
  ASSUME Inv, NEW c \in Callers, NEW u \in Uploads, Upload(c) = u, Claim(c)
  PROVE  Inv'
<1>1. /\ Rows /\ RoleOk(c) /\ CallOk(c) /\ UploadOk(u) /\ Serving /\ c # Main /\ c # Sweeper
      /\ call[c].pc = "complete" /\ Inside(c) /\ sess[u].state = "uploading"
  BY Request DEF Claim, At, Inside
<1>2. /\ record' = record /\ object' = object /\ queued' = queued /\ stage' = stage
      /\ iso' = iso /\ lock' = lock /\ due' = due /\ sweep' = sweep /\ boot' = boot
      /\ crashes' = crashes /\ glitches' = glitches
  BY DEF Claim, diskVars, elseVars
<1>3. /\ call' \in [Callers -> CallRow]
      /\ \A d \in Callers \ {c} : call'[d] = call[d]
      /\ call'[c].pc = "assemble" /\ call'[c].op = call[c].op /\ call'[c].on = u
      /\ call'[c].gen = call[c].gen
  BY <1>1, GotoFrame DEF Claim, Pcs, Upload
<1>4. Bare(u)
  BY <1>1 DEF Claim, Registered, UploadOk, Bare, Ids, Rows
<1>5. /\ sess' \in [Uploads -> SessRow]
      /\ sess'[u].state = "completing" /\ sess'[u].id # 0
      /\ sess[u].id # 0 => sess'[u].id = sess[u].id
      /\ sess'[u].expected = sess[u].expected
      /\ \A v \in Uploads \ {u} : sess'[v] = sess[v]
  <2>1. sess' = [sess EXCEPT ![u].state = "completing", ![u].id = IF @ = 0 THEN 1 ELSE @]
    BY DEF Claim
  <2>2. 1 \in Ids /\ sess \in [Uploads -> SessRow] /\ sess[u] \in SessRow
    BY <1>1, UploadConstants DEF Ids, Rows
  <2>3. PICK r : r = [sess[u] EXCEPT !.state = "completing",
                                     !.id = IF sess[u].id = 0 THEN 1 ELSE sess[u].id]
    OBVIOUS
  <2>4. /\ r \in SessRow /\ r.state = "completing" /\ r.id # 0
        /\ sess[u].id # 0 => r.id = sess[u].id
        /\ r.expected = sess[u].expected
    <3>1. PICK i \in Ids \cup {0} : i = sess[u].id
      BY <2>2 DEF SessRow
    <3>2. PICK j : j = IF i = 0 THEN 1 ELSE i
      OBVIOUS
    <3>3. j \in Ids \cup {0} /\ j # 0 /\ (i # 0 => j = i)
      BY <2>2, <3>2
    <3>4. r = [sess[u] EXCEPT !.state = "completing", !.id = j]
      BY <2>3, <3>1, <3>2
    <3>5. QED
      BY <2>2, <3>1, <3>3, <3>4 DEF SessRow, Active
  <2>5. sess' = [sess EXCEPT ![u] = r]
    BY <2>1, <2>2, <2>3
  <2>6. QED
    BY <2>2, <2>4, <2>5
<1>6. TypeOK'
  BY <1>1, <1>2, <1>3, <1>5, RowsAreTypesNext DEF Rows
<1>7. Alone(c, u) /\ lock[u] = 0
  BY <1>1, AloneInside DEF Inv, Terminal
<1>8. Local(c, u) /\ Locked(c, u) /\ InTurn(c, u)
  BY <1>1, <1>2, <1>3, <1>5 DEF Local, Same, Locked, InTurn, Inside, At, Upload, Rows
<1>9. RoleOk(c)'
  BY <1>1, <1>3 DEF RoleOk
<1>10. CallOk(c)'
  BY <1>1, <1>2, <1>3, <1>4, <1>5, <1>7 DEF CallOk, At, Upload, Bare
<1>11. \A i \in Ids : ~iso[u][i].dir \/ (i = sess[u].id /\ i # 0)
  BY <1>1 DEF UploadOk, Ids
<1>12. UploadOk(u)'
  BY <1>1, <1>2, <1>4, <1>5, <1>7, <1>11 DEF UploadOk, Bare, Terminal
<1>13. ASSUME UndisturbedOk(u)
       PROVE  UndisturbedOk(u)'
  <2>1. ObjectFinalized(u)' /\ TargetsAccounted(u)'
    BY <1>1, <1>2, <1>4, <1>13 DEF UndisturbedOk, ObjectFinalized, TargetsAccounted, Bare
  <2>2. PartsKept(u)' /\ ClosedSwept(u)'
    BY <1>1, <1>2, <1>3, <1>5, <1>13, Threads
       DEF UndisturbedOk, PartsKept, ClosedSwept, At, Upload, Terminal, Active
  <2>3. QED
    BY <2>1, <2>2 DEF UndisturbedOk
<1>14. QED
  BY <1>6, <1>7, <1>8, <1>9, <1>10, <1>12, <1>13, StepKeepsInv

\* What is assembled is what was promised, or the attempt is taken back.
LEMMA AssembleStep ==
  ASSUME Inv, NEW c \in Callers, NEW u \in Uploads, Upload(c) = u, Assemble(c)
  PROVE  Inv'
<1>1. /\ Rows /\ RoleOk(c) /\ CallOk(c) /\ UploadOk(u) /\ Serving /\ c # Main /\ c # Sweeper
      /\ call[c].pc = "assemble" /\ Inside(c) /\ sess[u].state = "completing"
      /\ sess[u].id # 0 /\ Bare(u)
  BY Request DEF Assemble, At, Inside, CallOk, Upload
<1>2. /\ sess' = sess /\ record' = record /\ object' = object /\ queued' = queued
      /\ iso' = iso /\ lock' = lock /\ due' = due /\ sweep' = sweep /\ boot' = boot
      /\ crashes' = crashes /\ glitches' = glitches
  BY DEF Assemble, rowVars, elseVars
<1>3. /\ call' \in [Callers -> CallRow]
      /\ \A d \in Callers \ {c} : call'[d] = call[d]
      /\ call'[c].pc \in {"register", "undo"} /\ call'[c].op = call[c].op /\ call'[c].on = u
      /\ call'[c].gen = call[c].gen
      /\ call'[c].pc = "register" => call'[c].file \in Promise(u)
  <2>1. CASE Goto(c, "undo")
    BY <1>1, <2>1, GotoFrame DEF Pcs, Upload
  <2>2. CASE ~Goto(c, "undo")
    <3>1. /\ call' = [call EXCEPT ![c].pc = "register", ![c].file = stage[u].parts]
          /\ \A p \in Parts : stage[u].parts[p] # NoContent
          /\ sess[u].expected # NoContent =>
               \A p \in Parts : stage[u].parts[p] = sess[u].expected
      BY <2>2 DEF Assemble
    <3>2. call[c] \in CallRow /\ stage[u].parts \in [Parts -> Content]
      BY <1>1 DEF Rows, StageRow
    <3>3. call' = [call EXCEPT ![c] = [call[c] EXCEPT !.pc = "register", !.file = stage[u].parts]]
      BY <1>1, <3>1 DEF Rows
    <3>4. [call[c] EXCEPT !.pc = "register", !.file = stage[u].parts] \in CallRow
      BY <3>2 DEF CallRow, Pcs
    <3>5. stage[u].parts \in [Parts -> Versions]
      BY <3>1, <3>2 DEF Content
    <3>6. stage[u].parts \in Promise(u)
      <4>1. CASE sess[u].expected = NoContent
        BY <3>5, <4>1 DEF Promise
      <4>2. CASE sess[u].expected # NoContent
        <5>1. stage[u].parts = [p \in Parts |-> sess[u].expected]
          BY <3>1, <3>5, <4>2
        <5>2. QED
          BY <3>5, <4>2, <5>1 DEF Promise
      <4>3. QED
        BY <4>1, <4>2
    <3>7. QED
      BY <1>1, <3>2, <3>3, <3>4, <3>6 DEF CallRow, Rows, Upload
  <2>3. QED
    BY <2>1, <2>2
<1>4. /\ stage' \in [Uploads -> StageRow]
      /\ stage'[u].parts = stage[u].parts
      /\ \A v \in Uploads \ {u} : stage'[v] = stage[v]
  <2>1. stage \in [Uploads -> StageRow] /\ stage' = [stage EXCEPT ![u].assembled = TRUE]
    BY <1>1 DEF Rows, Assemble
  <2>2. QED
    BY <2>1 DEF StageRow
<1>5. TypeOK'
  BY <1>1, <1>2, <1>3, <1>4, RowsAreTypesNext DEF Rows
<1>6. Alone(c, u) /\ lock[u] = 0
  BY <1>1, AloneInside DEF Inv, Terminal
<1>7. Local(c, u) /\ Locked(c, u) /\ InTurn(c, u)
  BY <1>1, <1>2, <1>3, <1>4 DEF Local, Same, Locked, InTurn, Inside, At, Upload, Rows
<1>8. RoleOk(c)'
  BY <1>1, <1>3 DEF RoleOk
<1>9. Promise(u)' = Promise(u)
  BY <1>2 DEF Promise
<1>10. CallOk(c)'
  BY <1>1, <1>2, <1>3, <1>6, <1>9 DEF CallOk, At, Upload, Bare
<1>11. UploadOk(u)'
  BY <1>1, <1>2 DEF UploadOk, Bare, Promise, Registered
<1>12. ASSUME UndisturbedOk(u)
       PROVE  UndisturbedOk(u)'
  <2>1. ObjectFinalized(u)' /\ TargetsAccounted(u)'
    BY <1>1, <1>2, <1>3, <1>12, Threads
       DEF UndisturbedOk, ObjectFinalized, TargetsAccounted, Ahead, Bare, At, Upload, Serving
  <2>2. PartsKept(u)' /\ ClosedSwept(u)'
    BY <1>1, <1>2, <1>3, <1>4, <1>12, Threads
       DEF UndisturbedOk, PartsKept, ClosedSwept, At, Upload, Terminal
  <2>3. QED
    BY <2>1, <2>2 DEF UndisturbedOk
<1>13. QED
  BY <1>5, <1>6, <1>7, <1>8, <1>10, <1>11, <1>12, StepKeepsInv

\* The directory made in isolation is that of the object id of the session.
LEMMA MakeTargetStep ==
  ASSUME Inv, NEW c \in Callers, NEW u \in Uploads, Upload(c) = u, MakeTarget(c)
  PROVE  Inv'
<1>1. /\ Rows /\ RoleOk(c) /\ CallOk(c) /\ UploadOk(u) /\ Serving /\ c # Main /\ c # Sweeper
      /\ c \in Clients /\ call[c].pc = "register" /\ Inside(c) /\ sess[u].state = "completing"
      /\ sess[u].id # 0 /\ Bare(u) /\ call[c].file \in Promise(u)
  BY Request DEF MakeTarget, At, Inside, CallOk, Upload
<1>2. /\ sess' = sess /\ record' = record /\ object' = object /\ queued' = queued
      /\ stage' = stage /\ lock' = lock /\ due' = due /\ sweep' = sweep /\ boot' = boot
      /\ crashes' = crashes /\ glitches' = glitches
  BY DEF MakeTarget, rowVars, elseVars
<1>3. /\ call' \in [Callers -> CallRow]
      /\ \A d \in Callers \ {c} : call'[d] = call[d]
      /\ call'[c].pc \in {"move", "undo"} /\ call'[c].op = call[c].op /\ call'[c].on = u
      /\ call'[c].gen = call[c].gen /\ call'[c].file = call[c].file
      /\ iso' = iso \/ call'[c].pc = "move"
  BY <1>1, GotoFrame DEF MakeTarget, Pcs, Upload
<1>4. /\ iso' \in [Uploads -> [Ids -> IsoRow]]
      /\ \A v \in Uploads \ {u} : iso'[v] = iso[v]
      /\ \A i \in Ids : /\ iso'[u][i].file = iso[u][i].file
                        /\ iso'[u][i].dir => iso[u][i].dir \/ i = sess[u].id
      /\ call'[c].pc = "undo" => iso' = iso
  <2>1. iso \in [Uploads -> [Ids -> IsoRow]] /\ sess[u].id \in Ids
    BY <1>1 DEF Rows, SessRow
  <2>2. CASE iso' = [iso EXCEPT ![u][sess[u].id].dir = TRUE] /\ Goto(c, "move")
    <3>1. call'[c].pc = "move"
      BY <1>1, <2>2, GotoFrame DEF Pcs
    <3>2. PICK j : j = sess[u].id
      OBVIOUS
    <3>3. j \in Ids /\ iso[u][j] \in IsoRow /\ iso' = [iso EXCEPT ![u][j].dir = TRUE]
      BY <2>1, <2>2, <3>2
    <3>4. PICK r : r = [iso[u][j] EXCEPT !.dir = TRUE]
      OBVIOUS
    <3>5. r \in IsoRow /\ r.file = iso[u][j].file
      BY <3>3, <3>4 DEF IsoRow
    <3>6. iso' = [iso EXCEPT ![u] = [iso[u] EXCEPT ![j] = r]]
      BY <2>1, <3>3, <3>4
    <3>7. QED
      BY <2>1, <3>1, <3>2, <3>3, <3>5, <3>6
  <2>3. CASE iso' = iso
    BY <2>1, <2>3
  <2>4. QED
    BY <1>1, <2>2, <2>3 DEF MakeTarget, Object, Upload
<1>5. TypeOK'
  BY <1>1, <1>2, <1>3, <1>4, RowsAreTypesNext DEF Rows
<1>6. Alone(c, u) /\ lock[u] = 0
  BY <1>1, AloneInside DEF Inv, Terminal
<1>7. Local(c, u) /\ Locked(c, u) /\ InTurn(c, u)
  BY <1>1, <1>2, <1>3, <1>4 DEF Local, Same, Locked, InTurn, Inside, At, Upload, Rows
<1>8. RoleOk(c)'
  BY <1>1, <1>3 DEF RoleOk
<1>9. Promise(u)' = Promise(u)
  BY <1>2 DEF Promise
<1>10. CallOk(c)'
  BY <1>1, <1>2, <1>3, <1>6, <1>9 DEF CallOk, At, Upload, Bare
<1>11. UploadOk(u)'
  BY <1>1, <1>2, <1>4 DEF UploadOk, Bare, Promise, Registered
<1>12. ASSUME UndisturbedOk(u)
       PROVE  UndisturbedOk(u)'
  <2>1. ObjectFinalized(u)'
    BY <1>1, <1>2, <1>12 DEF UndisturbedOk, ObjectFinalized, Bare
  <2>2. TargetsAccounted(u)'
    <3>1. CASE call'[c].pc = "move"
      BY <1>1, <1>2, <1>3, <3>1 DEF TargetsAccounted, Upload
    <3>2. CASE call'[c].pc = "undo"
      BY <1>1, <1>2, <1>3, <1>4, <1>12, <3>2, Threads
         DEF UndisturbedOk, TargetsAccounted, Ahead, At, Upload, Serving
    <3>3. QED
      BY <1>3, <3>1, <3>2
  <2>3. PartsKept(u)' /\ ClosedSwept(u)'
    BY <1>1, <1>2, <1>3, <1>12, Threads
       DEF UndisturbedOk, PartsKept, ClosedSwept, At, Upload, Terminal
  <2>4. QED
    BY <2>1, <2>2, <2>3 DEF UndisturbedOk
<1>13. QED
  BY <1>5, <1>6, <1>7, <1>8, <1>10, <1>11, <1>12, StepKeepsInv

\* What setting a state, dropping assembled.tmp or filling a target leaves of the rows.
LEMMA StateFrame ==
  ASSUME Rows, NEW u \in Uploads, NEW st \in Active \cup Terminal,
         sess' = [sess EXCEPT ![u].state = st]
  PROVE  /\ sess' \in [Uploads -> SessRow]
         /\ sess'[u].state = st /\ sess'[u].id = sess[u].id
         /\ sess'[u].expected = sess[u].expected
         /\ \A v \in Uploads \ {u} : sess'[v] = sess[v]
BY DEF Rows, SessRow

LEMMA AssembledFrame ==
  ASSUME Rows, NEW u \in Uploads, stage' = [stage EXCEPT ![u].assembled = FALSE]
  PROVE  /\ stage' \in [Uploads -> StageRow]
         /\ stage'[u].parts = stage[u].parts /\ stage'[u].dir = stage[u].dir
         /\ ~stage'[u].assembled
         /\ \A v \in Uploads \ {u} : stage'[v] = stage[v]
BY DEF Rows, StageRow

\* The payload is in isolation before its row.
LEMMA MoveAssembledStep ==
  ASSUME Inv, NEW c \in Callers, NEW u \in Uploads, Upload(c) = u, MoveAssembled(c)
  PROVE  Inv'
<1>1. /\ Rows /\ RoleOk(c) /\ CallOk(c) /\ UploadOk(u) /\ Serving /\ c # Main /\ c # Sweeper
      /\ c \in Clients /\ call[c].pc = "move" /\ Inside(c) /\ sess[u].state = "completing"
      /\ sess[u].id # 0 /\ Bare(u) /\ call[c].file \in Promise(u)
  BY Request DEF MoveAssembled, At, Inside, CallOk, Upload
<1>2. /\ sess' = sess /\ record' = record /\ object' = object /\ queued' = queued
      /\ lock' = lock /\ due' = due /\ sweep' = sweep /\ boot' = boot
      /\ crashes' = crashes /\ glitches' = glitches
  BY DEF MoveAssembled, rowVars, elseVars
<1>3. /\ call' \in [Callers -> CallRow]
      /\ \A d \in Callers \ {c} : call'[d] = call[d]
      /\ call'[c].pc = "insert" /\ call'[c].op = call[c].op /\ call'[c].on = u
      /\ call'[c].gen = call[c].gen /\ call'[c].file = call[c].file
  BY <1>1, GotoFrame DEF MoveAssembled, Pcs, Upload
<1>4. /\ iso' \in [Uploads -> [Ids -> IsoRow]]
      /\ \A v \in Uploads \ {u} : iso'[v] = iso[v]
      /\ \A i \in Ids : iso'[u][i].dir = iso[u][i].dir
      /\ iso'[u][sess[u].id].file = call[c].file
  <2>1. iso \in [Uploads -> [Ids -> IsoRow]] /\ sess[u].id \in Ids
        /\ call[c].file \in [Parts -> Content]
    BY <1>1 DEF Rows, SessRow, CallRow
  <2>2. PICK j : j = sess[u].id
    OBVIOUS
  <2>3. PICK f : f = call[c].file
    OBVIOUS
  <2>4. j \in Ids /\ iso[u][j] \in IsoRow /\ iso' = [iso EXCEPT ![u][j].file = f]
    BY <1>1, <2>1, <2>2, <2>3 DEF MoveAssembled, Object, Upload
  <2>5. PICK r : r = [iso[u][j] EXCEPT !.file = f]
    OBVIOUS
  <2>6. r \in IsoRow /\ r.file = f /\ r.dir = iso[u][j].dir
    BY <2>1, <2>3, <2>4, <2>5 DEF IsoRow
  <2>7. iso' = [iso EXCEPT ![u] = [iso[u] EXCEPT ![j] = r]]
    BY <2>1, <2>4, <2>5
  <2>8. QED
    BY <2>1, <2>2, <2>3, <2>4, <2>6, <2>7
<1>5. /\ stage' \in [Uploads -> StageRow]
      /\ stage'[u].parts = stage[u].parts
      /\ \A v \in Uploads \ {u} : stage'[v] = stage[v]
  BY <1>1, AssembledFrame DEF MoveAssembled, Upload
<1>6. TypeOK'
  BY <1>1, <1>2, <1>3, <1>4, <1>5, RowsAreTypesNext DEF Rows
<1>7. Alone(c, u) /\ lock[u] = 0
  BY <1>1, AloneInside DEF Inv, Terminal
<1>8. Local(c, u) /\ Locked(c, u) /\ InTurn(c, u)
  BY <1>1, <1>2, <1>3, <1>4, <1>5 DEF Local, Same, Locked, InTurn, Inside, At, Upload, Rows
<1>9. RoleOk(c)'
  BY <1>1, <1>3 DEF RoleOk
<1>10. Promise(u)' = Promise(u)
  BY <1>2 DEF Promise
<1>11. CallOk(c)'
  BY <1>1, <1>2, <1>3, <1>4, <1>7, <1>10 DEF CallOk, At, Upload, Bare, Object
<1>12. UploadOk(u)'
  BY <1>1, <1>2, <1>4 DEF UploadOk, Bare, Promise, Registered
<1>13. ASSUME UndisturbedOk(u)
       PROVE  UndisturbedOk(u)'
  <2>1. ObjectFinalized(u)'
    BY <1>1, <1>2, <1>13 DEF UndisturbedOk, ObjectFinalized, Bare
  <2>2. TargetsAccounted(u)'
    BY <1>1, <1>2, <1>3 DEF TargetsAccounted, Upload
  <2>3. PartsKept(u)' /\ ClosedSwept(u)'
    BY <1>1, <1>2, <1>3, <1>5, <1>13, Threads
       DEF UndisturbedOk, PartsKept, ClosedSwept, At, Upload, Terminal
  <2>4. QED
    BY <2>1, <2>2, <2>3 DEF UndisturbedOk
<1>14. QED
  BY <1>6, <1>7, <1>8, <1>9, <1>11, <1>12, <1>13, StepKeepsInv

\* The row is there before the session is finalized.
LEMMA RegisterStep ==
  ASSUME Inv, NEW c \in Callers, NEW u \in Uploads, Upload(c) = u, Register(c)
  PROVE  Inv'
<1>1. /\ Rows /\ RoleOk(c) /\ CallOk(c) /\ UploadOk(u) /\ Serving /\ c # Main /\ c # Sweeper
      /\ c \in Clients /\ call[c].pc = "insert" /\ Inside(c) /\ sess[u].state = "completing"
      /\ sess[u].id # 0 /\ Bare(u) /\ iso[u][sess[u].id].file \in Promise(u)
      /\ call[c].op = "complete"
  BY Request DEF Register, At, Inside, CallOk, RoleOk, Upload, Object
<1>2. /\ sess' = sess /\ record' = record /\ queued' = queued /\ stage' = stage
      /\ iso' = iso /\ lock' = lock /\ due' = due /\ sweep' = sweep /\ boot' = boot
      /\ crashes' = crashes /\ glitches' = glitches
  BY DEF Register, diskVars, elseVars
<1>3. /\ call' \in [Callers -> CallRow]
      /\ \A d \in Callers \ {c} : call'[d] = call[d]
      /\ call'[c].pc = "finalize" /\ call'[c].op = call[c].op /\ call'[c].on = u
      /\ call'[c].gen = call[c].gen
  BY <1>1, GotoFrame DEF Register, Pcs, Upload
<1>4. /\ object' \in [Uploads -> [Ids -> {"none", "pending", "scanned"}]]
      /\ \A v \in Uploads \ {u} : object'[v] = object[v]
      /\ object'[u][sess[u].id] = "pending"
      /\ \A i \in Ids \ {sess[u].id} : object'[u][i] = object[u][i]
  <2>1. /\ object \in [Uploads -> [Ids -> {"none", "pending", "scanned"}]] /\ sess[u].id \in Ids
        /\ object' = [object EXCEPT ![u][sess[u].id] = "pending"]
    BY <1>1 DEF Rows, SessRow, Register, Object, Upload
  <2>2. QED
    BY <2>1
<1>5. TypeOK'
  BY <1>1, <1>2, <1>3, <1>4, RowsAreTypesNext DEF Rows
<1>6. Alone(c, u) /\ lock[u] = 0
  BY <1>1, AloneInside DEF Inv, Terminal
<1>7. Local(c, u) /\ Locked(c, u) /\ InTurn(c, u)
  BY <1>1, <1>2, <1>3, <1>4 DEF Local, Same, Locked, InTurn, Inside, At, Upload, Rows
<1>8. RoleOk(c)'
  BY <1>1, <1>3 DEF RoleOk
<1>9. Promise(u)' = Promise(u)
  BY <1>2 DEF Promise
<1>10. CallOk(c)'
  BY <1>1, <1>2, <1>3, <1>4, <1>6 DEF CallOk, At, Upload, Registered
<1>11. UploadOk(u)'
  BY <1>1, <1>2, <1>4, <1>9 DEF UploadOk, Bare, Registered
<1>12. ASSUME UndisturbedOk(u)
       PROVE  UndisturbedOk(u)'
  <2>1. ObjectFinalized(u)'
    BY <1>1, <1>2, <1>3, <1>12 DEF UndisturbedOk, ObjectFinalized, At, Upload
  <2>2. TargetsAccounted(u)'
    BY <1>1, <1>2, <1>4 DEF TargetsAccounted, UploadOk
  <2>3. PartsKept(u)' /\ ClosedSwept(u)'
    BY <1>1, <1>2, <1>3, <1>12, Threads
       DEF UndisturbedOk, PartsKept, ClosedSwept, At, Upload, Terminal
  <2>4. QED
    BY <2>1, <2>2, <2>3 DEF UndisturbedOk
<1>13. QED
  BY <1>5, <1>6, <1>7, <1>8, <1>10, <1>11, <1>12, StepKeepsInv

\* The session is completed, and its staging is still to be swept.
LEMMA FinalizeStep ==
  ASSUME Inv, NEW c \in Callers, NEW u \in Uploads, Upload(c) = u, Finalize(c)
  PROVE  Inv'
<1>1. /\ Rows /\ RoleOk(c) /\ CallOk(c) /\ UploadOk(u) /\ call[c].pc = "finalize" /\ Inside(c)
      /\ Registered(u) /\ sess[u].state # "completed"
      /\ call[c].op # "rebind" => sess[u].state = "completing"
      /\ call[c].op \in {"complete", "rebind", "recover"}
      /\ c # Main => Serving
  BY AtWork DEF Inv, Finalize, At, Inside, CallOk, RoleOk, Upload
<1>2. /\ record' = record /\ object' = object /\ queued' = queued /\ stage' = stage
      /\ iso' = iso /\ lock' = lock /\ due' = due /\ sweep' = sweep /\ boot' = boot
      /\ crashes' = crashes /\ glitches' = glitches
  BY DEF Finalize, diskVars, elseVars
<1>3. CASE sess[u].state \in Active
  <2>1. sess' = [sess EXCEPT ![u].state = "completed"] /\ Goto(c, "wipe")
    BY <1>3 DEF Finalize, Upload
  <2>2. /\ call' \in [Callers -> CallRow]
        /\ \A d \in Callers \ {c} : call'[d] = call[d]
        /\ call'[c].pc = "wipe" /\ call'[c].op = call[c].op /\ call'[c].on = u
        /\ call'[c].gen = call[c].gen
    BY <1>1, <2>1, GotoFrame DEF Pcs, Upload
  <2>3. /\ sess' \in [Uploads -> SessRow]
        /\ sess'[u].state = "completed" /\ sess'[u].id = sess[u].id
        /\ sess'[u].expected = sess[u].expected
        /\ \A v \in Uploads \ {u} : sess'[v] = sess[v]
    BY <1>1, <2>1, StateFrame DEF Terminal
  <2>4. TypeOK'
    BY <1>1, <1>2, <2>2, <2>3, RowsAreTypesNext DEF Rows
  <2>5. Alone(c, u) /\ lock[u] = 0 /\ call[c].gen = 0
    BY <1>1, <1>3, AloneInside DEF Inv, Active, Terminal
  <2>6. Local(c, u) /\ Locked(c, u) /\ InTurn(c, u)
    BY <1>1, <1>2, <2>2, <2>3 DEF Local, Same, Locked, InTurn, Inside, At, Upload, Rows
  <2>7. RoleOk(c)'
    BY <1>1, <2>2 DEF RoleOk
  <2>8. CallOk(c)'
    BY <1>2, <2>2, <2>3, <2>5 DEF CallOk, At, Upload, Terminal
  <2>9. Promise(u)' = Promise(u)
    BY <2>3 DEF Promise
  <2>10. UploadOk(u)'
    BY <1>1, <1>2, <2>3, <2>5, <2>9 DEF UploadOk, Registered
  <2>11. UndisturbedOk(u)'
    <3>1. ObjectFinalized(u)' /\ TargetsAccounted(u)'
      BY <1>1, <1>2, <2>3 DEF ObjectFinalized, TargetsAccounted, UploadOk, Registered
    <3>2. PartsKept(u)' /\ ClosedSwept(u)'
      BY <2>2, <2>3 DEF PartsKept, ClosedSwept, Active, Upload
    <3>3. QED
      BY <3>1, <3>2 DEF UndisturbedOk
  <2>12. QED
    BY <2>4, <2>5, <2>6, <2>7, <2>8, <2>10, <2>11, StepKeepsInv
<1>4. CASE sess[u].state \notin Active
  <2>1. call[c].op = "rebind" /\ c # Main /\ Serving /\ sess' = sess /\ Ends(c)
    BY <1>1, <1>4 DEF Finalize, Raises, Upload, Active, RoleOk
  <2>2. /\ call' \in [Callers -> CallRow]
        /\ \A d \in Callers \ {c} : call'[d] = call[d]
        /\ call'[c].pc = "idle" /\ call'[c].op = "none"
    BY <1>1, <2>1, EndsFrame
  <2>3. glitches # 0
    BY <1>1, <1>4 DEF Inv, Undisturbed, UndisturbedOk, ObjectFinalized, Bare, Registered,
                      Active, Rows, SessRow
  <2>4. RoleOk(c)' /\ CallOk(c)' /\ Locked(c, u)
    BY <2>2 DEF RoleOk, CallOk, Locked, Inside, At
  <2>5. UNCHANGED <<rowVars, diskVars, lock, due, boot, crashes>>
    BY <1>2, <2>1 DEF rowVars, diskVars
  <2>6. sweep' \in SUBSET sweep /\ glitches' \in 0..MaxFaults
    BY <1>1, <1>2 DEF Rows
  <2>7. QED
    BY <1>2, <2>1, <2>2, <2>3, <2>4, <2>5, <2>6, PureStep DEF At
<1>5. QED
  BY <1>3, <1>4

------------------------------------------------------------------------------
(* Closing a session, and taking a completion back.                        *)

LEMMA WipeStageStep ==
  ASSUME Inv, NEW c \in Callers, NEW u \in Uploads, Upload(c) = u, WipeStage(c)
  PROVE  Inv'
<1>1. /\ Rows /\ RoleOk(c) /\ CallOk(c) /\ UploadOk(u) /\ call[c].pc = "wipe" /\ Inside(c)
      /\ sess[u].state \in Terminal
      /\ call[c].op \in {"complete", "rebind"} => sess[u].state = "completed"
      /\ c # Main => Serving
  BY AtWork DEF Inv, WipeStage, At, Inside, CallOk, Upload
<1>2. /\ sess' = sess /\ record' = record /\ object' = object /\ queued' = queued
      /\ iso' = iso /\ lock' = lock /\ due' = due /\ sweep' = sweep /\ boot' = boot
      /\ crashes' = crashes /\ glitches' = glitches
  BY DEF WipeStage, rowVars, elseVars
<1>3. /\ call' \in [Callers -> CallRow]
      /\ \A d \in Callers \ {c} : call'[d] = call[d]
      /\ call'[c].pc = "delete" /\ call'[c].op = call[c].op /\ call'[c].on = u
      /\ call'[c].gen = call[c].gen
  BY <1>1, GotoFrame DEF WipeStage, Pcs, Upload
<1>4. /\ stage' \in [Uploads -> StageRow]
      /\ stage'[u].parts = NoParts /\ ~stage'[u].assembled
      /\ \A v \in Uploads \ {u} : stage'[v] = stage[v]
  <2>1. PICK left \in BOOLEAN : stage' = [stage EXCEPT ![u] = [NoStage EXCEPT !.dir = left]]
    BY DEF WipeStage
  <2>2. PICK r : r = [NoStage EXCEPT !.dir = left]
    OBVIOUS
  <2>3. r \in StageRow /\ r.parts = NoParts /\ ~r.assembled
    BY <2>2 DEF NoStage, StageRow, NoParts, Content
  <2>4. QED
    BY <1>1, <2>1, <2>2, <2>3 DEF Rows
<1>5. TypeOK'
  BY <1>1, <1>2, <1>3, <1>4, RowsAreTypesNext DEF Rows
<1>6. Alone(c, u) /\ lock[u] = 0 /\ call[c].gen = 0
  BY <1>1, AloneInside DEF Inv
<1>7. Local(c, u) /\ Locked(c, u) /\ InTurn(c, u)
  BY <1>1, <1>2, <1>3, <1>4 DEF Local, Same, Locked, InTurn, Inside, At, Upload, Rows
<1>8. RoleOk(c)'
  BY <1>1, <1>3 DEF RoleOk
<1>9. CallOk(c)'
  BY <1>1, <1>2, <1>3, <1>4, <1>6 DEF CallOk, At, Upload, Terminal
<1>10. UploadOk(u)'
  BY <1>1, <1>2 DEF UploadOk, Bare, Promise, Registered
<1>11. ASSUME UndisturbedOk(u)
       PROVE  UndisturbedOk(u)'
  <2>1. ObjectFinalized(u)' /\ TargetsAccounted(u)'
    BY <1>1, <1>2, <1>11, Threads
       DEF UndisturbedOk, ObjectFinalized, TargetsAccounted, Bare, Terminal
  <2>2. PartsKept(u)' /\ ClosedSwept(u)'
    BY <1>1, <1>2, <1>3 DEF PartsKept, ClosedSwept, Active, Terminal, Upload
  <2>3. QED
    BY <2>1, <2>2 DEF UndisturbedOk
<1>12. QED
  BY <1>5, <1>6, <1>7, <1>8, <1>9, <1>10, <1>11, StepKeepsInv

\* The lock is dropped: those who ask from now on get another, and find the session closed.
LEMMA DeletePartsStep ==
  ASSUME Inv, NEW c \in Callers, NEW u \in Uploads, Upload(c) = u, DeleteParts(c)
  PROVE  Inv'
<1>1. /\ Rows /\ RoleOk(c) /\ CallOk(c) /\ UploadOk(u) /\ call[c].pc = "delete" /\ Inside(c)
      /\ sess[u].state \in Terminal
      /\ call[c].op \in {"complete", "rebind"} => sess[u].state = "completed"
      /\ stage[u].parts = NoParts /\ ~stage[u].assembled
      /\ c # Main => Serving
      /\ c = Main => call[c].op \in {"recover", "clean"}
  BY AtWork DEF Inv, DeleteParts, At, Inside, CallOk, Upload
<1>2. /\ sess' = sess /\ object' = object /\ queued' = queued /\ stage' = stage
      /\ iso' = iso /\ due' = due /\ sweep' = sweep /\ boot' = boot
      /\ crashes' = crashes /\ glitches' = glitches
  BY DEF DeleteParts, diskVars, elseVars
<1>3. /\ call' \in [Callers -> CallRow]
      /\ \A d \in Callers \ {c} : call'[d] = call[d]
      /\ call'[c].pc \in {"submit", "idle"}
      /\ call'[c].pc = "submit" =>
           /\ call'[c].op = call[c].op /\ call'[c].on = u /\ call'[c].gen = call[c].gen
           /\ call[c].op \in {"complete", "rebind"}
      /\ call'[c].pc = "idle" => call'[c].op = "none"
  <2>1. CASE call[c].op \in {"complete", "rebind"}
    BY <1>1, <2>1, GotoFrame DEF DeleteParts, Pcs, Upload
  <2>2. CASE call[c].op \notin {"complete", "rebind"}
    BY <1>1, <2>2, EndsFrame DEF DeleteParts
  <2>3. QED
    BY <2>1, <2>2
<1>4. /\ record' \in [Uploads -> [Parts -> Content]]
      /\ record'[u] = NoParts
      /\ \A v \in Uploads \ {u} : record'[v] = record[v]
  BY <1>1 DEF DeleteParts, Rows, Upload, NoParts, Content
<1>5. Alone(c, u) /\ lock[u] = 0 /\ call[c].gen = 0
  BY <1>1, AloneInside DEF Inv
<1>6. /\ lock' \in [Uploads -> 0..1]
      /\ lock'[u] \in {0, 1}
      /\ c = Main => lock' = lock
      /\ \A v \in Uploads \ {u} : lock'[v] = lock[v]
  <2>1. CASE c = Main
    BY <1>1, <1>5, <2>1 DEF DeleteParts, Rows
  <2>2. CASE c # Main
    <3>1. lock' = [lock EXCEPT ![u] = 1] /\ lock \in [Uploads -> 0..1]
      BY <1>1, <1>5, <2>2 DEF DeleteParts, Upload, Rows
    <3>2. QED
      BY <2>2, <3>1
  <2>3. QED
    BY <2>1, <2>2
<1>7. TypeOK'
  BY <1>1, <1>2, <1>3, <1>4, <1>6, RowsAreTypesNext DEF Rows
<1>8. Local(c, u) /\ Locked(c, u)
  BY <1>1, <1>2, <1>3, <1>4, <1>5, <1>6 DEF Local, Same, Locked, Inside, At, Upload
<1>9. InTurn(c, u)
  BY <1>1, <1>3, <1>6 DEF InTurn, At
<1>10. RoleOk(c)'
  BY <1>1, <1>3 DEF RoleOk
<1>11. CallOk(c)'
  BY <1>1, <1>2, <1>3, <1>5, <1>6 DEF CallOk, At, Upload, Terminal
<1>12. UploadOk(u)'
  BY <1>1, <1>2, <1>4 DEF UploadOk, Bare, Promise, Registered, Terminal
<1>13. ASSUME UndisturbedOk(u)
       PROVE  UndisturbedOk(u)'
  <2>1. ObjectFinalized(u)' /\ TargetsAccounted(u)'
    BY <1>1, <1>2, <1>13, Threads
       DEF UndisturbedOk, ObjectFinalized, TargetsAccounted, Bare, Terminal
  <2>2. PartsKept(u)' /\ ClosedSwept(u)'
    BY <1>1, <1>2, <1>4 DEF PartsKept, ClosedSwept, Active, Terminal
  <2>3. QED
    BY <2>1, <2>2 DEF UndisturbedOk
<1>14. QED
  BY <1>5, <1>7, <1>8, <1>9, <1>10, <1>11, <1>12, <1>13, StepKeepsInv

LEMMA SubmitScanStep ==
  ASSUME Inv, NEW c \in Callers, NEW u \in Uploads, Upload(c) = u, SubmitScan(c)
  PROVE  Inv'
<1>1. /\ Rows /\ RoleOk(c) /\ CallOk(c) /\ UploadOk(u) /\ Serving /\ c # Main /\ c # Sweeper
      /\ call[c].pc = "submit" /\ sess[u].state = "completed" /\ Registered(u)
  BY Request DEF SubmitScan, At, CallOk, UploadOk, Upload
<1>2. /\ sess' = sess /\ record' = record /\ object' = object /\ stage' = stage
      /\ iso' = iso /\ lock' = lock /\ due' = due /\ sweep' = sweep /\ boot' = boot
      /\ crashes' = crashes /\ glitches' = glitches
  BY DEF SubmitScan, diskVars, elseVars
<1>3. /\ call' \in [Callers -> CallRow]
      /\ \A d \in Callers \ {c} : call'[d] = call[d]
      /\ call'[c].pc = "idle" /\ call'[c].op = "none"
  BY <1>1, EndsFrame DEF SubmitScan
<1>4. /\ queued' \in [Uploads -> SUBSET Ids]
      /\ \A v \in Uploads \ {u} : queued'[v] = queued[v]
  <2>1. sess[u].id \in Ids /\ queued \in [Uploads -> SUBSET Ids]
    BY <1>1 DEF Rows, SessRow, Registered
  <2>2. CASE queued' = [queued EXCEPT ![u] = @ \cup {sess[u].id}]
    BY <2>1, <2>2
  <2>3. CASE queued' = queued
    BY <2>1, <2>3
  <2>4. QED
    BY <2>2, <2>3 DEF SubmitScan, Object, Upload
<1>5. TypeOK'
  BY <1>1, <1>2, <1>3, <1>4, RowsAreTypesNext DEF Rows
<1>6. Local(c, u) /\ Locked(c, u) /\ InTurn(c, u) /\ Relied(u)
  BY <1>1, <1>2, <1>3, <1>4
     DEF Local, Same, Locked, InTurn, Relied, Inside, At, Upload, Rows
<1>7. RoleOk(c)' /\ CallOk(c)'
  BY <1>3 DEF RoleOk, CallOk, At
<1>8. UploadOk(u)'
  BY <1>1, <1>2 DEF UploadOk, Bare, Promise, Registered
<1>9. ASSUME UndisturbedOk(u)
      PROVE  UndisturbedOk(u)'
  <2>1. ObjectFinalized(u)' /\ TargetsAccounted(u)'
    BY <1>1, <1>2, <1>9, Threads DEF UndisturbedOk, ObjectFinalized, TargetsAccounted
  <2>2. PartsKept(u)' /\ ClosedSwept(u)'
    BY <1>1, <1>2, <1>3, <1>9, Threads
       DEF UndisturbedOk, PartsKept, ClosedSwept, At, Upload, Active
  <2>3. QED
    BY <2>1, <2>2 DEF UndisturbedOk
<1>10. QED
  BY <1>5, <1>6, <1>7, <1>8, <1>9, StepKeepsInv

\* Without an exception nobody gets here once the object is registered.
LEMMA UndoStep ==
  ASSUME Inv, NEW c \in Callers, NEW u \in Uploads, Upload(c) = u, Undo(c)
  PROVE  Inv'
<1>1. /\ Rows /\ RoleOk(c) /\ CallOk(c) /\ UploadOk(u) /\ Serving /\ c # Main /\ c # Sweeper
      /\ call[c].pc = "undo" /\ Inside(c) /\ sess[u].state # "absent"
  BY Request DEF Undo, At, Inside, CallOk, Upload
<1>2. /\ record' = record /\ object' = object /\ queued' = queued /\ stage' = stage
      /\ iso' = iso /\ lock' = lock /\ due' = due /\ sweep' = sweep /\ boot' = boot
      /\ crashes' = crashes /\ glitches' = glitches
  BY DEF Undo, diskVars, elseVars
<1>3. /\ call' \in [Callers -> CallRow]
      /\ \A d \in Callers \ {c} : call'[d] = call[d]
      /\ call'[c].pc = "unlink" /\ call'[c].op = call[c].op /\ call'[c].on = u
      /\ call'[c].gen = call[c].gen
  BY <1>1, GotoFrame DEF Undo, Pcs, Upload
<1>4. RoleOk(c)'
  BY <1>1, <1>3 DEF RoleOk
<1>5. CASE sess[u].state = "completing"
  <2>1. /\ sess' \in [Uploads -> SessRow]
        /\ sess'[u].state = "uploading" /\ sess'[u].id = sess[u].id
        /\ sess'[u].expected = sess[u].expected
        /\ \A v \in Uploads \ {u} : sess'[v] = sess[v]
    <3>1. sess' = [sess EXCEPT ![u].state = "uploading"]
      BY <1>5 DEF Undo, Upload
    <3>2. QED
      BY <1>1, <3>1, StateFrame DEF Active
  <2>2. TypeOK'
    BY <1>1, <1>2, <1>3, <2>1, RowsAreTypesNext DEF Rows
  <2>3. Alone(c, u) /\ lock[u] = 0 /\ call[c].gen = 0
    BY <1>1, <1>5, AloneInside DEF Inv, Terminal
  <2>4. Local(c, u) /\ Locked(c, u) /\ InTurn(c, u)
    BY <1>1, <1>2, <1>3, <2>1 DEF Local, Same, Locked, InTurn, Inside, At, Upload, Rows
  <2>5. CallOk(c)'
    BY <1>2, <1>3, <2>1, <2>3 DEF CallOk, At, Upload
  <2>6. Promise(u)' = Promise(u)
    BY <2>1 DEF Promise
  <2>7. UploadOk(u)'
    BY <1>1, <1>2, <2>1, <2>3, <2>6 DEF UploadOk
  <2>8. ASSUME UndisturbedOk(u)
        PROVE  UndisturbedOk(u)'
    <3>1. \A d \in Callers \ {c} : Upload(d) = u => ~Inside(d)
      BY <2>3 DEF Alone
    <3>2. Bare(u) /\ queued[u] = {} /\ \A i \in Ids : ~iso[u][i].dir
      BY <1>1, <1>5, <2>8, <3>1, Threads
         DEF UndisturbedOk, ObjectFinalized, TargetsAccounted, Ahead, Bare, At, Inside, Serving
    <3>3. ObjectFinalized(u)' /\ TargetsAccounted(u)'
      BY <1>2, <1>5, <2>8, <3>2
         DEF UndisturbedOk, ObjectFinalized, TargetsAccounted, Bare
    <3>4. PartsKept(u)' /\ ClosedSwept(u)'
      BY <1>1, <1>2, <1>3, <1>5, <2>1, <2>8, Threads
         DEF UndisturbedOk, PartsKept, ClosedSwept, At, Upload, Active, Terminal
    <3>5. QED
      BY <3>3, <3>4 DEF UndisturbedOk
  <2>9. QED
    BY <1>4, <2>2, <2>3, <2>4, <2>5, <2>7, <2>8, StepKeepsInv
<1>6. CASE sess[u].state # "completing"
  <2>1. sess' = sess
    BY <1>1, <1>6 DEF Undo, Upload, Rows, SessRow
  <2>2. CallOk(c)' /\ Locked(c, u)
    BY <1>1, <1>2, <1>3, <2>1 DEF CallOk, Locked, Inside, At, Upload
  <2>3. UNCHANGED <<rowVars, diskVars, lock, due, boot, crashes>>
    BY <1>2, <2>1 DEF rowVars, diskVars
  <2>4. sweep' \in SUBSET sweep /\ glitches' \in 0..MaxFaults
    BY <1>1, <1>2 DEF Rows
  <2>5. QED
    BY <1>1, <1>2, <1>3, <1>4, <2>2, <2>3, <2>4, PureStep DEF At, Upload
<1>7. QED
  BY <1>5, <1>6

LEMMA UnlinkStep ==
  ASSUME Inv, NEW c \in Callers, NEW u \in Uploads, Upload(c) = u, Unlink(c)
  PROVE  Inv'
<1>1. /\ Rows /\ RoleOk(c) /\ CallOk(c) /\ UploadOk(u) /\ Serving /\ c # Main /\ c # Sweeper
      /\ call[c].pc = "unlink"
  BY Request DEF Unlink, At
<1>2. /\ sess' = sess /\ record' = record /\ object' = object /\ queued' = queued
      /\ iso' = iso /\ lock' = lock /\ due' = due /\ sweep' = sweep /\ boot' = boot
      /\ crashes' = crashes /\ glitches' = glitches
  BY DEF Unlink, rowVars, elseVars
<1>3. /\ call' \in [Callers -> CallRow]
      /\ \A d \in Callers \ {c} : call'[d] = call[d]
      /\ call'[c].pc = "idle" /\ call'[c].op = "none"
  BY <1>1, EndsFrame DEF Unlink
<1>4. /\ stage' \in [Uploads -> StageRow]
      /\ stage'[u].parts = stage[u].parts /\ stage'[u].dir = stage[u].dir
      /\ ~stage'[u].assembled
      /\ \A v \in Uploads \ {u} : stage'[v] = stage[v]
  BY <1>1, AssembledFrame DEF Unlink, Upload
<1>5. TypeOK'
  BY <1>1, <1>2, <1>3, <1>4, RowsAreTypesNext DEF Rows
<1>6. Local(c, u) /\ Locked(c, u) /\ InTurn(c, u) /\ Relied(u)
  BY <1>1, <1>2, <1>3, <1>4
     DEF Local, Same, Locked, InTurn, Relied, Inside, At, Upload, Rows
<1>7. RoleOk(c)' /\ CallOk(c)'
  BY <1>3 DEF RoleOk, CallOk, At
<1>8. UploadOk(u)'
  BY <1>1, <1>2 DEF UploadOk, Bare, Promise, Registered
<1>9. ASSUME UndisturbedOk(u)
      PROVE  UndisturbedOk(u)'
  <2>1. ObjectFinalized(u)' /\ TargetsAccounted(u)'
    BY <1>1, <1>2, <1>3, <1>9, Threads
       DEF UndisturbedOk, ObjectFinalized, TargetsAccounted, Ahead, Bare, At, Upload, Serving
  <2>2. PartsKept(u)' /\ ClosedSwept(u)'
    BY <1>1, <1>2, <1>3, <1>4, <1>9, Threads
       DEF UndisturbedOk, PartsKept, ClosedSwept, At, Upload
  <2>3. QED
    BY <2>1, <2>2 DEF UndisturbedOk
<1>10. QED
  BY <1>5, <1>6, <1>7, <1>8, <1>9, StepKeepsInv

\* Closing a session that nobody else is at work on.
LEMMA CloseStep ==
  ASSUME Inv, NEW c \in Callers, NEW u \in Uploads, Upload(c) = u, c # Main, Serving,
         call[c].pc \in {"cancel", "expire"}, sess[u].state \in Active,
         NEW st \in {"cancelled", "expired"}, sess' = [sess EXCEPT ![u].state = st],
         Goto(c, "wipe"),
         UNCHANGED <<record, object, queued, diskVars, lock, elseVars>>
  PROVE  Inv'
<1>1. Rows /\ RoleOk(c) /\ CallOk(c) /\ UploadOk(u) /\ Inside(c)
  BY RowsAreTypes DEF Inv, Inductive, Inside
<1>2. /\ record' = record /\ object' = object /\ queued' = queued /\ stage' = stage
      /\ iso' = iso /\ lock' = lock /\ due' = due /\ sweep' = sweep /\ boot' = boot
      /\ crashes' = crashes /\ glitches' = glitches
  BY DEF diskVars, elseVars
<1>3. /\ call' \in [Callers -> CallRow]
      /\ \A d \in Callers \ {c} : call'[d] = call[d]
      /\ call'[c].pc = "wipe" /\ call'[c].op = call[c].op /\ call'[c].on = u
      /\ call'[c].gen = call[c].gen
  BY <1>1, GotoFrame DEF Pcs, Upload
<1>4. /\ sess' \in [Uploads -> SessRow]
      /\ sess'[u].state = st /\ sess'[u].id = sess[u].id
      /\ sess'[u].expected = sess[u].expected
      /\ \A v \in Uploads \ {u} : sess'[v] = sess[v]
  BY <1>1, StateFrame DEF Terminal
<1>5. TypeOK'
  BY <1>1, <1>2, <1>3, <1>4, RowsAreTypesNext DEF Rows
<1>6. Alone(c, u) /\ lock[u] = 0 /\ call[c].gen = 0
  BY <1>1, AloneInside DEF Inv, Active, Terminal
<1>7. Local(c, u) /\ Locked(c, u) /\ InTurn(c, u)
  BY <1>1, <1>2, <1>3, <1>4 DEF Local, Same, Locked, InTurn, Inside, At, Upload, Rows
<1>8. RoleOk(c)'
  BY <1>1, <1>3 DEF RoleOk
<1>9. CallOk(c)'
  <2>1. call[c].op \in {"cancel", "expire"}
    BY <1>1 DEF RoleOk
  <2>2. QED
    BY <1>2, <1>3, <1>4, <1>6, <2>1 DEF CallOk, At, Upload, Terminal
<1>10. Promise(u)' = Promise(u)
  BY <1>4 DEF Promise
<1>11. UploadOk(u)'
  BY <1>1, <1>2, <1>4, <1>6, <1>10 DEF UploadOk
<1>12. ASSUME UndisturbedOk(u)
       PROVE  UndisturbedOk(u)'
  <2>1. \A d \in Callers \ {c} : Upload(d) = u => ~Inside(d)
    BY <1>6 DEF Alone
  <2>2. Bare(u) /\ queued[u] = {} /\ \A i \in Ids : ~iso[u][i].dir
    BY <1>1, <1>12, <2>1, Threads
       DEF UndisturbedOk, ObjectFinalized, TargetsAccounted, Ahead, Bare, At, Inside, Serving,
           Active
  <2>3. ObjectFinalized(u)' /\ TargetsAccounted(u)'
    BY <1>2, <1>12, <2>2 DEF UndisturbedOk, ObjectFinalized, TargetsAccounted, Bare, Active
  <2>4. PartsKept(u)' /\ ClosedSwept(u)'
    BY <1>3, <1>4 DEF PartsKept, ClosedSwept, Upload, Active
  <2>5. QED
    BY <2>3, <2>4 DEF UndisturbedOk
<1>13. QED
  BY <1>5, <1>6, <1>7, <1>8, <1>9, <1>11, <1>12, StepKeepsInv

LEMMA CancelStep ==
  ASSUME Inv, NEW c \in Callers, NEW u \in Uploads, Upload(c) = u, Cancel(c)
  PROVE  Inv'
<1>1. Serving /\ c # Main /\ call[c].pc = "cancel"
  BY Request DEF Cancel, At
<1>2. CASE sess[u].state = "uploading"
  BY <1>1, <1>2, CloseStep DEF Cancel, Active, Upload
<1>3. CASE sess[u].state # "uploading"
  BY <1>1, <1>3, EndsStep DEF Cancel, Upload, rowVars
<1>4. QED
  BY <1>2, <1>3

LEMMA ExpireStep ==
  ASSUME Inv, NEW c \in Callers, NEW u \in Uploads, Upload(c) = u, Expire(c)
  PROVE  Inv'
<1>1. Serving /\ c # Main /\ call[c].pc = "expire"
  BY AtWork DEF Inv, Expire, At, RoleOk
<1>2. CASE sess[u].state \in Active
  BY <1>1, <1>2, CloseStep DEF Expire, Upload
<1>3. CASE sess[u].state \notin Active
  BY <1>1, <1>3, EndsStep DEF Expire, Upload, rowVars
<1>4. QED
  BY <1>2, <1>3

------------------------------------------------------------------------------
(* Recovery of an interrupted completion.                                  *)

\* The main thread at a session whose completion got no object.
LEMMA Recovering ==
  ASSUME Inv, NEW c \in Callers, NEW u \in Uploads, Upload(c) = u,
         call[c].pc \in {"orphan", "tidy", "reset"}
  PROVE  /\ Rows /\ RoleOk(c) /\ CallOk(c) /\ UploadOk(u) /\ Inside(c)
         /\ c = Main /\ boot.pc = "completing" /\ u \notin boot.todo
         /\ call[c].op = "recover" /\ sess[u].state = "completing" /\ sess[u].id \in Ids
         /\ Bare(u) /\ Alone(c, u) /\ lock[u] = 0
<1>1. Rows /\ RoleOk(c) /\ CallOk(c) /\ UploadOk(u)
  BY RowsAreTypes DEF Inv, Inductive
<1>2. c = Main /\ call[c].op = "recover"
  BY <1>1 DEF RoleOk
<1>3. sess[u].state = "completing" /\ Bare(u)
  BY <1>1 DEF CallOk, Upload
<1>4. sess[u].id \in Ids
  BY <1>1, <1>3 DEF UploadOk, Rows, SessRow
<1>5. Alone(c, u) /\ lock[u] = 0 /\ Inside(c)
  BY <1>3, AloneInside DEF Inv, Inside, Terminal
<1>6. boot.pc = "completing" /\ u \notin boot.todo
  BY <1>2, AtWork DEF Inv, At
<1>7. QED
  BY <1>1, <1>2, <1>3, <1>4, <1>5, <1>6

LEMMA RemoveOrphanStep ==
  ASSUME Inv, NEW c \in Callers, NEW u \in Uploads, Upload(c) = u, RemoveOrphan(c)
  PROVE  Inv'
<1>1. /\ Rows /\ RoleOk(c) /\ CallOk(c) /\ UploadOk(u) /\ Inside(c) /\ call[c].pc = "orphan"
      /\ c = Main /\ boot.pc = "completing" /\ u \notin boot.todo
      /\ call[c].op = "recover" /\ sess[u].state = "completing" /\ sess[u].id \in Ids
      /\ Bare(u) /\ Alone(c, u) /\ lock[u] = 0
  BY Recovering DEF RemoveOrphan, At
<1>2. /\ sess' = sess /\ record' = record /\ object' = object /\ queued' = queued
      /\ stage' = stage /\ lock' = lock /\ due' = due /\ sweep' = sweep /\ boot' = boot
      /\ crashes' = crashes /\ glitches' = glitches
  BY DEF RemoveOrphan, rowVars, elseVars
<1>3. /\ call' \in [Callers -> CallRow]
      /\ \A d \in Callers \ {c} : call'[d] = call[d]
      /\ call'[c].pc = "tidy" /\ call'[c].op = call[c].op /\ call'[c].on = u
      /\ call'[c].gen = call[c].gen
  BY <1>1, GotoFrame DEF RemoveOrphan, Pcs, Upload
<1>4. /\ iso' \in [Uploads -> [Ids -> IsoRow]]
      /\ \A v \in Uploads \ {u} : iso'[v] = iso[v]
      /\ \A i \in Ids : iso'[u][i].dir => iso[u][i].dir /\ i # sess[u].id
  <2>1. PICK j : j = sess[u].id
    OBVIOUS
  <2>2. iso' = [iso EXCEPT ![u][j] = NoIso] /\ iso \in [Uploads -> [Ids -> IsoRow]] /\ j \in Ids
    BY <1>1, <2>1 DEF RemoveOrphan, Object, Upload, Rows, Ids
  <2>3. NoIso \in IsoRow /\ ~NoIso.dir
    BY DEF NoIso, IsoRow, NoParts, Content
  <2>4. QED
    BY <2>1, <2>2, <2>3
<1>5. TypeOK'
  BY <1>1, <1>2, <1>3, <1>4, RowsAreTypesNext DEF Rows
<1>6. Local(c, u) /\ Locked(c, u) /\ InTurn(c, u)
  BY <1>1, <1>2, <1>3, <1>4 DEF Local, Same, Locked, InTurn, Inside, At, Upload, Rows
<1>7. RoleOk(c)'
  BY <1>1, <1>3, Threads DEF RoleOk
<1>8. CallOk(c)'
  BY <1>1, <1>2, <1>3 DEF CallOk, At, Upload, Bare
<1>9. UploadOk(u)'
  BY <1>1, <1>2, <1>4 DEF UploadOk, Bare, Promise
<1>10. ASSUME UndisturbedOk(u)
       PROVE  UndisturbedOk(u)'
  <2>1. ObjectFinalized(u)'
    BY <1>1, <1>2, <1>10 DEF UndisturbedOk, ObjectFinalized, Bare
  <2>2. TargetsAccounted(u)'
    BY <1>1, <1>4 DEF TargetsAccounted, UploadOk
  <2>3. PartsKept(u)' /\ ClosedSwept(u)'
    BY <1>1, <1>2, <1>3, <1>10, Threads
       DEF UndisturbedOk, PartsKept, ClosedSwept, At, Upload, Terminal
  <2>4. QED
    BY <2>1, <2>2, <2>3 DEF UndisturbedOk
<1>11. QED
  BY <1>1, <1>5, <1>6, <1>7, <1>8, <1>9, <1>10, StepKeepsInv

LEMMA RemoveAssembledStep ==
  ASSUME Inv, NEW c \in Callers, NEW u \in Uploads, Upload(c) = u, RemoveAssembled(c)
  PROVE  Inv'
<1>1. /\ Rows /\ RoleOk(c) /\ CallOk(c) /\ UploadOk(u) /\ Inside(c) /\ call[c].pc = "tidy"
      /\ c = Main /\ boot.pc = "completing" /\ u \notin boot.todo
      /\ call[c].op = "recover" /\ sess[u].state = "completing" /\ sess[u].id \in Ids
      /\ Bare(u) /\ Alone(c, u) /\ lock[u] = 0
  BY Recovering DEF RemoveAssembled, At
<1>2. /\ sess' = sess /\ record' = record /\ object' = object /\ queued' = queued
      /\ iso' = iso /\ lock' = lock /\ due' = due /\ sweep' = sweep /\ boot' = boot
      /\ crashes' = crashes /\ glitches' = glitches
  BY DEF RemoveAssembled, rowVars, elseVars
<1>3. /\ call' \in [Callers -> CallRow]
      /\ \A d \in Callers \ {c} : call'[d] = call[d]
      /\ call'[c].pc = "reset" /\ call'[c].op = call[c].op /\ call'[c].on = u
      /\ call'[c].gen = call[c].gen
  BY <1>1, GotoFrame DEF RemoveAssembled, Pcs, Upload
<1>4. /\ stage' \in [Uploads -> StageRow]
      /\ stage'[u].parts = stage[u].parts
      /\ \A v \in Uploads \ {u} : stage'[v] = stage[v]
  BY <1>1, AssembledFrame DEF RemoveAssembled, Upload
<1>5. TypeOK'
  BY <1>1, <1>2, <1>3, <1>4, RowsAreTypesNext DEF Rows
<1>6. Local(c, u) /\ Locked(c, u) /\ InTurn(c, u)
  BY <1>1, <1>2, <1>3, <1>4 DEF Local, Same, Locked, InTurn, Inside, At, Upload, Rows
<1>7. RoleOk(c)'
  BY <1>1, <1>3, Threads DEF RoleOk
<1>8. CallOk(c)'
  BY <1>1, <1>2, <1>3 DEF CallOk, At, Upload, Bare
<1>9. UploadOk(u)'
  BY <1>1, <1>2 DEF UploadOk, Bare, Promise, Registered
<1>10. ASSUME UndisturbedOk(u)
       PROVE  UndisturbedOk(u)'
  <2>1. ObjectFinalized(u)' /\ TargetsAccounted(u)'
    BY <1>1, <1>2, <1>3, <1>10, Threads
       DEF UndisturbedOk, ObjectFinalized, TargetsAccounted, Ahead, Bare, At, Upload
  <2>2. PartsKept(u)' /\ ClosedSwept(u)'
    BY <1>1, <1>2, <1>3, <1>4, <1>10, Threads
       DEF UndisturbedOk, PartsKept, ClosedSwept, At, Upload, Terminal
  <2>3. QED
    BY <2>1, <2>2 DEF UndisturbedOk
<1>11. QED
  BY <1>1, <1>5, <1>6, <1>7, <1>8, <1>9, <1>10, StepKeepsInv

LEMMA ResetStep ==
  ASSUME Inv, NEW c \in Callers, NEW u \in Uploads, Upload(c) = u, Reset(c)
  PROVE  Inv'
<1>1. /\ Rows /\ RoleOk(c) /\ CallOk(c) /\ UploadOk(u) /\ Inside(c) /\ call[c].pc = "reset"
      /\ c = Main /\ boot.pc = "completing" /\ u \notin boot.todo
      /\ call[c].op = "recover" /\ sess[u].state = "completing" /\ sess[u].id \in Ids
      /\ Bare(u) /\ Alone(c, u) /\ lock[u] = 0
  BY Recovering DEF Reset, At
<1>2. /\ record' = record /\ object' = object /\ queued' = queued /\ stage' = stage
      /\ iso' = iso /\ lock' = lock /\ due' = due /\ sweep' = sweep /\ boot' = boot
      /\ crashes' = crashes /\ glitches' = glitches
  BY DEF Reset, diskVars, elseVars
<1>3. /\ call' \in [Callers -> CallRow]
      /\ \A d \in Callers \ {c} : call'[d] = call[d]
      /\ call'[c].pc = "idle" /\ call'[c].op = "none"
  BY <1>1, EndsFrame DEF Reset
<1>4. /\ sess' \in [Uploads -> SessRow]
      /\ sess'[u].state = "uploading" /\ sess'[u].id = sess[u].id
      /\ sess'[u].expected = sess[u].expected
      /\ \A v \in Uploads \ {u} : sess'[v] = sess[v]
  BY <1>1, StateFrame DEF Reset, Upload, Active
<1>5. TypeOK'
  BY <1>1, <1>2, <1>3, <1>4, RowsAreTypesNext DEF Rows
<1>6. Local(c, u) /\ Locked(c, u) /\ InTurn(c, u)
  BY <1>1, <1>2, <1>3, <1>4 DEF Local, Same, Locked, InTurn, Inside, At, Upload, Rows
<1>7. RoleOk(c)' /\ CallOk(c)'
  BY <1>3 DEF RoleOk, CallOk, At
<1>8. Promise(u)' = Promise(u)
  BY <1>4 DEF Promise
<1>9. UploadOk(u)'
  BY <1>1, <1>2, <1>4, <1>8 DEF UploadOk
<1>10. ASSUME UndisturbedOk(u)
       PROVE  UndisturbedOk(u)'
  <2>1. \A d \in Callers \ {c} : Upload(d) = u => ~Inside(d)
    BY <1>1 DEF Alone
  <2>2. queued[u] = {} /\ \A i \in Ids : ~iso[u][i].dir
    BY <1>1, <1>10, <2>1, Threads
       DEF UndisturbedOk, ObjectFinalized, TargetsAccounted, Ahead, Bare, At, Inside
  <2>3. ObjectFinalized(u)' /\ TargetsAccounted(u)'
    BY <1>1, <1>2, <2>2 DEF ObjectFinalized, TargetsAccounted, Bare
  <2>4. PartsKept(u)' /\ ClosedSwept(u)'
    BY <1>1, <1>2, <1>3, <1>4, <1>10, Threads
       DEF UndisturbedOk, PartsKept, ClosedSwept, At, Upload, Active, Terminal
  <2>5. QED
    BY <2>3, <2>4 DEF UndisturbedOk
<1>11. QED
  BY <1>1, <1>5, <1>6, <1>7, <1>9, <1>10, StepKeepsInv

------------------------------------------------------------------------------
(* Exceptions.                                                             *)

\* An exception, at any step that may raise.
LEMMA GlitchStep ==
  ASSUME Inv, NEW c \in Callers, NEW u \in Uploads, Upload(c) = u, c # Main, Glitch(c)
  PROVE  Inv'
<1>1. /\ Rows /\ RoleOk(c) /\ CallOk(c) /\ UploadOk(u) /\ Serving
      /\ call[c].pc \notin {"idle", "receive", "wait", "wipe"}
  <2>1. call[c].pc \notin {"idle", "receive", "wait", "wipe"}
    BY DEF Glitch
  <2>2. QED
    BY <2>1, AtWork DEF Inv, At
<1>2. /\ sess' = sess /\ record' = record /\ object' = object /\ queued' = queued
      /\ lock' = lock /\ due' = due /\ boot' = boot /\ crashes' = crashes
      /\ sweep' \subseteq sweep
  BY DEF Glitch, rowVars
<1>3. glitches' \in 0..MaxFaults /\ glitches' # 0
  BY <1>1, UploadConstants DEF Glitch, FaultLeft, Rows
<1>4. /\ call' \in [Callers -> CallRow]
      /\ \A d \in Callers \ {c} : call'[d] = call[d]
      /\ \/ call'[c].pc = "idle" /\ call'[c].op = "none"
         \/ /\ call'[c].pc \in {"undo", "unlink"} /\ call[c].op = "complete" /\ Inside(c)
            /\ call'[c].op = call[c].op /\ call'[c].on = u /\ call'[c].gen = call[c].gen
  <2>1. CASE Ends(c)
    BY <1>1, <2>1, EndsFrame
  <2>2. CASE At(c, "undo") /\ Goto(c, "unlink")
    BY <1>1, <2>2, GotoFrame DEF Pcs, Upload, RoleOk, At, Inside
  <2>3. CASE call[c].op = "complete" /\ Goto(c, "undo") /\ ~At(c, "create")
    BY <1>1, <2>3, GotoFrame DEF Pcs, Upload, At, Inside
  <2>4. QED
    BY <2>1, <2>2, <2>3 DEF Glitch, Raises, At
<1>5. RoleOk(c)'
  BY <1>1, <1>4 DEF RoleOk
<1>6. CallOk(c)'
  BY <1>1, <1>2, <1>4 DEF CallOk, At, Upload, Inside
<1>7. Locked(c, u) /\ InTurn(c, u)
  BY <1>1, <1>4 DEF Locked, InTurn, Inside, At
<1>8. CASE At(c, "create")
  <2>1. iso' = iso /\ stage' = [stage EXCEPT ![u] = NoStage]
    BY <1>8 DEF Glitch, At, Upload
  <2>2. /\ stage' \in [Uploads -> StageRow]
        /\ \A v \in Uploads \ {u} : stage'[v] = stage[v]
    <3>1. NoStage \in StageRow
      BY DEF NoStage, StageRow, NoParts, Content
    <3>2. QED
      BY <1>1, <2>1, <3>1 DEF Rows
  <2>3. TypeOK'
    BY <1>1, <1>2, <1>3, <1>4, <2>1, <2>2, RowsAreTypesNext DEF Rows
  <2>4. Alone(c, u)
    BY <1>1, <1>8 DEF Inv, Inductive, LockInv, CallOk, Alone, Inside, At, Upload
  <2>5. Local(c, u)
    BY <1>1, <1>2, <1>3, <1>4, <2>1, <2>2 DEF Local, Same, At, Upload
  <2>6. UploadOk(u)'
    BY <1>1, <1>2, <2>1 DEF UploadOk, Bare, Promise, Registered
  <2>7. QED
    BY <1>3, <1>5, <1>6, <1>7, <2>3, <2>4, <2>5, <2>6, StepKeepsInv
<1>9. CASE At(c, "insert")
  <2>1. stage' = stage /\ iso' = [iso EXCEPT ![u][sess[u].id] = NoIso]
    BY <1>9 DEF Glitch, At, Upload, Object
  <2>2. /\ sess[u].state = "completing" /\ sess[u].id \in Ids /\ Bare(u) /\ Inside(c)
    BY <1>1, <1>9 DEF CallOk, At, Upload, Rows, SessRow, Inside
  <2>3. /\ iso' \in [Uploads -> [Ids -> IsoRow]]
        /\ \A v \in Uploads \ {u} : iso'[v] = iso[v]
        /\ \A i \in Ids : iso'[u][i].dir => iso[u][i].dir
    <3>1. PICK j : j = sess[u].id
      OBVIOUS
    <3>2. /\ iso' = [iso EXCEPT ![u][j] = NoIso] /\ iso \in [Uploads -> [Ids -> IsoRow]]
          /\ j \in Ids
      BY <1>1, <2>1, <2>2, <3>1 DEF Rows
    <3>3. NoIso \in IsoRow /\ ~NoIso.dir
      BY DEF NoIso, IsoRow, NoParts, Content
    <3>4. QED
      BY <3>2, <3>3
  <2>4. TypeOK'
    BY <1>1, <1>2, <1>3, <1>4, <2>1, <2>3, RowsAreTypesNext DEF Rows
  <2>5. Alone(c, u)
    BY <2>2, AloneInside DEF Inv, Terminal
  <2>6. Local(c, u)
    BY <1>1, <1>2, <1>3, <1>4, <2>1, <2>3 DEF Local, Same, At, Upload
  <2>7. UploadOk(u)'
    BY <1>1, <1>2, <2>2, <2>3 DEF UploadOk, Bare, Promise, Registered
  <2>8. QED
    BY <1>3, <1>5, <1>6, <1>7, <2>4, <2>5, <2>6, <2>7, StepKeepsInv
<1>10. CASE ~At(c, "create") /\ ~At(c, "insert")
  <2>1. UNCHANGED <<rowVars, diskVars, lock, due, boot, crashes>>
    BY <1>2, <1>10 DEF Glitch, rowVars, diskVars
  <2>2. sweep' \in SUBSET sweep /\ (At(c, "idle") \/ Upload(c) = u)
        /\ (At(c, "idle")' \/ Upload(c)' = u)
    BY <1>2, <1>4 DEF At, Upload
  <2>3. QED
    BY <1>1, <1>3, <1>4, <1>5, <1>6, <1>7, <2>1, <2>2, PureStep
<1>11. QED
  BY <1>8, <1>9, <1>10

------------------------------------------------------------------------------
(* Time, scans, the start of a sweep.                                      *)

LEMMA BecomesDueStep ==
  ASSUME Inv, NEW u \in Uploads, BecomesDue(u)
  PROVE  Inv'
<1>1. /\ sess' = sess /\ record' = record /\ object' = object /\ queued' = queued
      /\ stage' = stage /\ iso' = iso /\ lock' = lock /\ call' = call /\ sweep' = sweep
      /\ boot' = boot /\ crashes' = crashes /\ glitches' = glitches
      /\ due' = [due EXCEPT ![u] = TRUE]
  BY DEF BecomesDue, rowVars, diskVars, faultVars
<1>2. Rows
  BY RowsAreTypes DEF Inv, Inductive
<1>3. due' \in [Uploads -> BOOLEAN]
  BY <1>1, <1>2 DEF Rows
<1>4. TypeOK'
  BY <1>1, <1>2, <1>3, RowsAreTypesNext DEF Rows
<1>5. ASSUME NEW c \in Callers
      PROVE  RoleOk(c)' /\ CallOk(c)'
  <2>1. RoleOk(c) /\ CallOk(c)
    BY DEF Inv, Inductive
  <2>2. RoleOk(c)'
    BY <1>1, <2>1 DEF RoleOk
  <2>3. CallOk(c)'
    BY <1>1, <2>1 DEF CallOk, At, Upload, Object, Bare, Promise, Registered
  <2>4. QED
    BY <2>2, <2>3
<1>6. \A v \in Uploads : UploadOk(v)'
  BY <1>1 DEF Inv, Inductive, UploadOk, Bare, Promise, Registered
<1>7. LockInv' /\ BootInv'
  BY <1>1 DEF Inv, Inductive, LockInv, BootInv, Inside, At, Upload, Serving
<1>8. Undisturbed'
  BY <1>1 DEF Inv, Undisturbed, UndisturbedOk, ObjectFinalized, TargetsAccounted, PartsKept,
              ClosedSwept, Ahead, Bare, At, Upload
<1>9. QED
  BY <1>4, <1>5, <1>6, <1>7, <1>8 DEF Inv, Inductive

LEMMA StartSweepStep ==
  ASSUME Inv, StartSweep
  PROVE  Inv'
<1>1. /\ sess' = sess /\ record' = record /\ object' = object /\ queued' = queued
      /\ stage' = stage /\ iso' = iso /\ lock' = lock /\ call' = call /\ due' = due
      /\ boot' = boot /\ crashes' = crashes /\ glitches' = glitches
      /\ sweep' = {u \in Uploads : sess[u].state \in Active /\ due[u]} /\ Serving
  BY DEF StartSweep, rowVars, diskVars, faultVars
<1>2. Rows
  BY RowsAreTypes DEF Inv, Inductive
<1>3. TypeOK'
  BY <1>1, <1>2, RowsAreTypesNext DEF Rows
<1>4. ASSUME NEW c \in Callers
      PROVE  RoleOk(c)' /\ CallOk(c)'
  <2>1. RoleOk(c) /\ CallOk(c)
    BY DEF Inv, Inductive
  <2>2. RoleOk(c)'
    BY <1>1, <2>1 DEF RoleOk
  <2>3. CallOk(c)'
    BY <1>1, <2>1 DEF CallOk, At, Upload, Object, Bare, Promise, Registered
  <2>4. QED
    BY <2>2, <2>3
<1>5. \A v \in Uploads : UploadOk(v)'
  BY <1>1 DEF Inv, Inductive, UploadOk, Bare, Promise, Registered
<1>6. LockInv' /\ BootInv'
  BY <1>1 DEF Inv, Inductive, LockInv, BootInv, Inside, At, Upload, Serving, Active
<1>7. Undisturbed'
  BY <1>1 DEF Inv, Undisturbed, UndisturbedOk, ObjectFinalized, TargetsAccounted, PartsKept,
              ClosedSwept, Ahead, Bare, At, Upload
<1>8. QED
  BY <1>3, <1>4, <1>5, <1>6, <1>7 DEF Inv, Inductive

LEMMA ScanStep ==
  ASSUME Inv, NEW u \in Uploads, NEW i \in Ids, Scan(u, i)
  PROVE  Inv'
<1>1. /\ sess' = sess /\ record' = record /\ queued' = queued /\ stage' = stage /\ iso' = iso
      /\ lock' = lock /\ call' = call /\ due' = due /\ sweep' = sweep /\ boot' = boot
      /\ crashes' = crashes /\ glitches' = glitches
      /\ object' = [object EXCEPT ![u][i] = "scanned"] /\ object[u][i] = "pending"
  BY DEF Scan, diskVars, elseVars
<1>2. Rows
  BY RowsAreTypes DEF Inv, Inductive
<1>3. /\ object' \in [Uploads -> [Ids -> {"none", "pending", "scanned"}]]
      /\ \A v \in Uploads, j \in Ids : object'[v][j] = "none" <=> object[v][j] = "none"
  BY <1>1, <1>2 DEF Rows
<1>4. TypeOK'
  BY <1>1, <1>2, <1>3, RowsAreTypesNext DEF Rows
<1>5. \A v \in Uploads : /\ Bare(v)' <=> Bare(v)
                         /\ Registered(v)' <=> Registered(v)
                         /\ Promise(v)' = Promise(v)
  <2>1. \A v \in Uploads : sess[v].id # 0 => sess[v].id \in Ids
    BY <1>2 DEF Rows, SessRow
  <2>2. QED
    BY <1>1, <1>3, <2>1 DEF Bare, Registered, Promise
<1>6. ASSUME NEW c \in Callers
      PROVE  RoleOk(c)' /\ CallOk(c)'
  <2>1. RoleOk(c) /\ CallOk(c)
    BY DEF Inv, Inductive
  <2>2. call[c].pc # "idle" => Upload(c) \in Uploads
    BY <2>1 DEF RoleOk, Upload
  <2>3. RoleOk(c)'
    BY <1>1, <2>1 DEF RoleOk
  <2>4. CallOk(c)'
    BY <1>1, <1>5, <2>1, <2>2 DEF CallOk, At, Upload, Object
  <2>5. QED
    BY <2>3, <2>4
<1>7. ASSUME NEW v \in Uploads
      PROVE  UploadOk(v)'
  <2>1. UploadOk(v)
    BY DEF Inv, Inductive
  <2>2. QED
    BY <1>1, <1>3, <1>5, <2>1 DEF UploadOk
<1>8. LockInv' /\ BootInv'
  BY <1>1 DEF Inv, Inductive, LockInv, BootInv, Inside, At, Upload, Serving
<1>9. ASSUME glitches = 0, NEW v \in Uploads
      PROVE  UndisturbedOk(v)'
  <2>1. UndisturbedOk(v)
    BY <1>9 DEF Inv, Undisturbed
  <2>2. ObjectFinalized(v)' /\ TargetsAccounted(v)'
    BY <1>1, <1>3, <1>5, <2>1
       DEF UndisturbedOk, ObjectFinalized, TargetsAccounted, Ahead, At, Upload
  <2>3. PartsKept(v)' /\ ClosedSwept(v)'
    BY <1>1, <2>1 DEF UndisturbedOk, PartsKept, ClosedSwept, At, Upload
  <2>4. QED
    BY <2>2, <2>3 DEF UndisturbedOk
<1>10. QED
  BY <1>1, <1>4, <1>6, <1>7, <1>8, <1>9 DEF Inv, Inductive, Undisturbed

------------------------------------------------------------------------------
(* Crashes and start-up.                                                   *)

\* Nothing but the disk and the database is left, and every lock is new.
LEMMA CrashStep ==
  ASSUME Inv, Crash
  PROVE  Inv'
<1>1. /\ sess' = sess /\ record' = record /\ object' = object /\ queued' = queued
      /\ stage' = stage /\ iso' = iso /\ due' = due /\ glitches' = glitches /\ sweep' = {}
      /\ boot' = [pc |-> "down", todo |-> {}]
      /\ call' = [c \in Callers |-> NoCall] /\ lock' = [u \in Uploads |-> 0]
  BY DEF Crash, rowVars, diskVars
<1>2. Rows /\ crashes' \in 0..MaxFaults
  BY RowsAreTypes, UploadConstants DEF Inv, Inductive, Crash, FaultLeft, Rows
<1>3. boot'.pc = "down" /\ boot'.todo = {} /\ \A c \in Callers : call'[c] = NoCall
  BY <1>1
<1>4. TypeOK'
  BY <1>1, <1>2, NoCallRow, RowsAreTypesNext DEF Rows
<1>5. \A c \in Callers : call'[c].pc = "idle" /\ call'[c].op = "none"
  BY <1>3, NoCallRow
<1>6. \A c \in Callers : RoleOk(c)' /\ CallOk(c)'
  BY <1>5 DEF RoleOk, CallOk, At
<1>7. ASSUME NEW v \in Uploads
      PROVE  UploadOk(v)'
  <2>1. UploadOk(v) /\ lock'[v] = 0
    BY <1>1 DEF Inv, Inductive
  <2>2. QED
    BY <1>1, <2>1 DEF UploadOk, Bare, Promise, Registered
<1>8. LockInv' /\ BootInv'
  BY <1>1, <1>3, <1>5, Threads DEF LockInv, BootInv, Inside, At, Serving
<1>9. ASSUME glitches = 0, NEW v \in Uploads
      PROVE  UndisturbedOk(v)'
  BY <1>1, <1>3, <1>9
     DEF Inv, Undisturbed, UndisturbedOk, ObjectFinalized, TargetsAccounted, PartsKept,
         ClosedSwept, Ahead, Bare
<1>10. QED
  BY <1>1, <1>4, <1>6, <1>7, <1>8, <1>9 DEF Inv, Inductive, Undisturbed

\* The main thread between two steps of its own: nobody else is there.
LEMMA BootTurn ==
  ASSUME Inv, ~Serving, At(Main, "idle")
  PROVE  /\ Rows
         /\ \A c \in Callers : call[c].pc = "idle" /\ RoleOk(c) /\ CallOk(c)
         /\ \A u \in Uploads : lock[u] = 0 /\ UploadOk(u)
         /\ sweep = {}
         /\ \A u \in boot.todo : /\ boot.pc = "completing" => sess[u].state = "completing"
                                 /\ boot.pc = "closed" => sess[u].state \in Terminal
         /\ glitches = 0 => \A u \in Uploads : UndisturbedOk(u)
BY RowsAreTypes DEF Inv, Inductive, BootInv, Undisturbed, At

\* Recorded parts that are not on disk stop the start; the part rows of closed sessions go.
LEMMA HardenStep ==
  ASSUME Inv, Harden
  PROVE  Inv'
<1>1. ~Serving /\ At(Main, "idle") /\ boot.pc = "down"
  BY DEF Inv, Inductive, BootInv, Harden, Serving
<1>2. /\ Rows
      /\ \A c \in Callers : call[c].pc = "idle" /\ RoleOk(c) /\ CallOk(c)
      /\ \A u \in Uploads : lock[u] = 0 /\ UploadOk(u)
      /\ sweep = {}
      /\ glitches = 0 => \A u \in Uploads : UndisturbedOk(u)
  BY <1>1, BootTurn
<1>3. /\ sess' = sess /\ object' = object /\ queued' = queued /\ stage' = stage /\ iso' = iso
      /\ due' = due /\ lock' = lock /\ call' = call /\ sweep' = sweep
      /\ crashes' = crashes /\ glitches' = glitches
  BY DEF Harden, diskVars, faultVars
<1>4. /\ record' \in [Uploads -> [Parts -> Content]]
      /\ \A u \in Uploads : record'[u] = IF sess[u].state \in Terminal THEN NoParts ELSE record[u]
  BY <1>2 DEF Harden, Closed, Rows, NoParts, Content
<1>5. \/ /\ boot' = [pc |-> "completing", todo |-> {u \in Uploads : sess[u].state = "completing"}]
         /\ \A u \in Uploads, p \in Parts : (sess[u].state \in Active /\ record[u][p] # NoContent)
                                              => stage[u].parts[p] = record[u][p]
      \/ boot' = [pc |-> "refused", todo |-> {}]
  BY DEF Harden
<1>6. /\ boot'.pc \in {"completing", "refused"}
      /\ boot'.todo \subseteq {u \in Uploads : sess[u].state = "completing"}
      /\ boot'.pc = "completing" => boot'.todo = {u \in Uploads : sess[u].state = "completing"}
      /\ boot' \in [pc: {"serving", "down", "refused", "completing", "closed"},
                    todo: SUBSET Uploads]
  BY <1>5
<1>7. TypeOK'
  BY <1>2, <1>3, <1>4, <1>6, RowsAreTypesNext DEF Rows
<1>8. ASSUME NEW c \in Callers
      PROVE  RoleOk(c)' /\ CallOk(c)'
  BY <1>2, <1>3 DEF RoleOk, CallOk, At
<1>9. ASSUME NEW v \in Uploads
      PROVE  UploadOk(v)'
  BY <1>2, <1>3, <1>4 DEF UploadOk, Bare, Promise, Registered, Terminal
<1>10. LockInv' /\ BootInv'
  BY <1>1, <1>2, <1>3, <1>6, Threads DEF LockInv, BootInv, Inside, At, Serving
<1>11. ASSUME glitches = 0, NEW v \in Uploads
       PROVE  UndisturbedOk(v)'
  <2>1. UndisturbedOk(v)
    BY <1>2, <1>11
  <2>2. ObjectFinalized(v)' /\ TargetsAccounted(v)'
    BY <1>3, <1>6, <2>1 DEF UndisturbedOk, ObjectFinalized, TargetsAccounted, Ahead, Bare
  <2>3. PartsKept(v)' /\ ClosedSwept(v)'
    BY <1>3, <1>4, <1>5, <1>6 DEF PartsKept, ClosedSwept, Active, Terminal
  <2>4. QED
    BY <2>2, <2>3 DEF UndisturbedOk
<1>12. QED
  BY <1>3, <1>7, <1>8, <1>9, <1>10, <1>11 DEF Inv, Inductive, Undisturbed

\* The main thread takes up a session of its list.
LEMMA TakeUpStep ==
  ASSUME Inv, ~Serving, At(Main, "idle"), NEW u \in boot.todo, u \in Uploads,
         NEW k \in CallRow, k.on = u, k.gen = 0,
         \/ /\ boot.pc = "completing" /\ k.op = "recover"
            /\ \/ k.pc = "finalize" /\ Registered(u)
               \/ k.pc = "orphan" /\ ~Registered(u)
         \/ boot.pc = "closed" /\ k.op = "clean" /\ k.pc = "wipe",
         call' = [call EXCEPT ![Main] = k], boot' = [boot EXCEPT !.todo = @ \ {u}],
         UNCHANGED <<rowVars, diskVars, due, lock, sweep, faultVars>>
  PROVE  Inv'
<1>1. /\ Rows
      /\ \A c \in Callers : call[c].pc = "idle" /\ RoleOk(c) /\ CallOk(c)
      /\ \A v \in Uploads : lock[v] = 0 /\ UploadOk(v)
      /\ sweep = {}
      /\ \A v \in boot.todo : /\ boot.pc = "completing" => sess[v].state = "completing"
                              /\ boot.pc = "closed" => sess[v].state \in Terminal
      /\ glitches = 0 => \A v \in Uploads : UndisturbedOk(v)
  BY BootTurn
<1>2. /\ sess' = sess /\ record' = record /\ object' = object /\ queued' = queued
      /\ stage' = stage /\ iso' = iso /\ lock' = lock /\ due' = due /\ sweep' = sweep
      /\ crashes' = crashes /\ glitches' = glitches
  BY DEF rowVars, diskVars, faultVars
<1>3. /\ boot'.pc = boot.pc /\ boot'.todo = boot.todo \ {u}
      /\ boot' \in [pc: {"serving", "down", "refused", "completing", "closed"},
                    todo: SUBSET Uploads]
  BY <1>1 DEF Rows
<1>4. /\ call' \in [Callers -> CallRow] /\ call'[Main] = k
      /\ \A d \in Callers \ {Main} : call'[d] = call[d]
  BY <1>1, Threads DEF Rows
<1>5. TypeOK'
  BY <1>1, <1>2, <1>3, <1>4, RowsAreTypesNext DEF Rows
<1>6. Registered(u) \/ ~(boot.pc = "completing") \/ Bare(u)
  BY <1>1 DEF UploadOk, Registered, Bare
<1>7. RoleOk(Main)'
  BY <1>4, Threads DEF RoleOk
<1>8. CallOk(Main)'
  <2>1. lock'[u] = 0 /\ sess'[u] = sess[u]
    BY <1>1, <1>2
  <2>2. CASE boot.pc = "completing"
    BY <1>1, <1>2, <1>4, <1>6, <2>1, <2>2 DEF CallOk, At, Upload, Registered, Bare
  <2>3. CASE boot.pc = "closed"
    BY <1>1, <1>2, <1>4, <2>1, <2>3 DEF CallOk, At, Upload, Terminal
  <2>4. QED
    BY <2>2, <2>3
<1>9. ASSUME NEW c \in Callers, c # Main
      PROVE  RoleOk(c)' /\ CallOk(c)'
  BY <1>1, <1>4, <1>9 DEF RoleOk, CallOk, At
<1>10. ASSUME NEW v \in Uploads
       PROVE  UploadOk(v)'
  BY <1>1, <1>2 DEF UploadOk, Bare, Promise, Registered
<1>11. LockInv'
  BY <1>1, <1>4 DEF LockInv, Inside, At
<1>12. BootInv'
  BY <1>1, <1>2, <1>3, <1>4 DEF BootInv, Serving, At, Upload
<1>13. ASSUME glitches = 0, NEW v \in Uploads
       PROVE  UndisturbedOk(v)'
  <2>1. UndisturbedOk(v) /\ UploadOk(v) /\ UploadOk(u)
    BY <1>1, <1>13
  <2>2. \A c \in Callers : call[c].pc = "idle"
    BY <1>1
  <2>3. ObjectFinalized(v)'
    BY <1>2, <1>3, <1>4, <1>6, <2>1, <2>2, Threads
       DEF UndisturbedOk, ObjectFinalized, Ahead, Bare, At, Upload
  <2>4. TargetsAccounted(v)'
    BY <1>2, <1>3, <1>4, <2>1, <2>2, Threads
       DEF UndisturbedOk, UploadOk, TargetsAccounted, Ahead, At, Upload, Registered
  <2>5. PartsKept(v)'
    BY <1>2, <1>3, <2>1, <2>2, Threads DEF UndisturbedOk, PartsKept, At
  <2>6. ClosedSwept(v)'
    BY <1>2, <1>3, <1>4, <2>1, <2>2, Threads DEF UndisturbedOk, ClosedSwept, Upload
  <2>7. QED
    BY <2>3, <2>4, <2>5, <2>6 DEF UndisturbedOk
<1>14. QED
  BY <1>2, <1>5, <1>7, <1>8, <1>9, <1>10, <1>11, <1>12, <1>13 DEF Inv, Inductive, Undisturbed

\* The object row decides what becomes of an interrupted completion.
LEMMA RecoverCompletingStep ==
  ASSUME Inv, RecoverCompleting
  PROVE  Inv'
<1>1. PICK u \in boot.todo :
        /\ call' = [call EXCEPT ![Main] =
                      [NoCall EXCEPT !.op = "recover", !.on = u,
                                     !.pc = IF Registered(u) THEN "finalize" ELSE "orphan"]]
        /\ boot' = [boot EXCEPT !.todo = @ \ {u}]
  BY DEF RecoverCompleting
<1>2. u \in Uploads /\ ~Serving /\ At(Main, "idle") /\ boot.pc = "completing"
  BY RowsAreTypes, NoCallRow DEF RecoverCompleting, Inv, Inductive, Rows, Serving, At
<1>3. PICK pc \in {"finalize", "orphan"} : pc = IF Registered(u) THEN "finalize" ELSE "orphan"
  OBVIOUS
<1>4. PICK k : k = [NoCall EXCEPT !.op = "recover", !.on = u, !.pc = pc]
  OBVIOUS
<1>5. k \in CallRow /\ k.op = "recover" /\ k.on = u /\ k.pc = pc /\ k.gen = 0
  BY <1>2, <1>3, <1>4, NoCallRow DEF CallRow, Pcs, Ops
<1>6. call' = [call EXCEPT ![Main] = k]
  BY <1>1, <1>3, <1>4
<1>7. UNCHANGED <<rowVars, diskVars, due, lock, sweep, faultVars>>
  BY DEF RecoverCompleting
<1>8. (k.pc = "finalize" /\ Registered(u)) \/ (k.pc = "orphan" /\ ~Registered(u))
  BY <1>3, <1>5
<1>9. QED
  BY <1>1, <1>2, <1>5, <1>6, <1>7, <1>8, TakeUpStep

LEMMA CleanClosedStep ==
  ASSUME Inv, CleanClosed
  PROVE  Inv'
<1>1. PICK u \in boot.todo :
        /\ call' = [call EXCEPT ![Main] = [NoCall EXCEPT !.op = "clean", !.on = u, !.pc = "wipe"]]
        /\ boot' = [boot EXCEPT !.todo = @ \ {u}]
  BY DEF CleanClosed
<1>2. u \in Uploads /\ ~Serving /\ At(Main, "idle") /\ boot.pc = "closed"
  BY RowsAreTypes, NoCallRow DEF CleanClosed, Inv, Inductive, Rows, Serving, At
<1>3. PICK k : k = [NoCall EXCEPT !.op = "clean", !.on = u, !.pc = "wipe"]
  OBVIOUS
<1>4. k \in CallRow /\ k.op = "clean" /\ k.on = u /\ k.pc = "wipe" /\ k.gen = 0
  BY <1>2, <1>3, NoCallRow DEF CallRow, Pcs, Ops
<1>5. call' = [call EXCEPT ![Main] = k]
  BY <1>1, <1>3
<1>6. UNCHANGED <<rowVars, diskVars, due, lock, sweep, faultVars>>
  BY DEF CleanClosed
<1>7. QED
  BY <1>1, <1>2, <1>4, <1>5, <1>6, TakeUpStep

\* No session is left in 'completing' when the second query runs.
LEMMA StartCleaningStep ==
  ASSUME Inv, StartCleaning
  PROVE  Inv'
<1>1. /\ ~Serving /\ At(Main, "idle") /\ boot.pc = "completing" /\ boot.todo = {}
  BY NoCallRow DEF StartCleaning, Serving, At
<1>2. /\ Rows
      /\ \A c \in Callers : call[c].pc = "idle" /\ RoleOk(c) /\ CallOk(c)
      /\ \A v \in Uploads : lock[v] = 0 /\ UploadOk(v)
      /\ sweep = {}
      /\ glitches = 0 => \A v \in Uploads : UndisturbedOk(v)
  BY <1>1, BootTurn
<1>3. /\ sess' = sess /\ record' = record /\ object' = object /\ queued' = queued
      /\ stage' = stage /\ iso' = iso /\ lock' = lock /\ due' = due /\ sweep' = sweep
      /\ call' = call /\ crashes' = crashes /\ glitches' = glitches
      /\ boot' = [pc |-> "closed", todo |-> Closed]
  BY DEF StartCleaning, rowVars, diskVars, faultVars
<1>4. TypeOK'
  BY <1>2, <1>3, RowsAreTypesNext DEF Rows, Closed
<1>5. ASSUME NEW c \in Callers
      PROVE  RoleOk(c)' /\ CallOk(c)'
  BY <1>2, <1>3 DEF RoleOk, CallOk, At
<1>6. ASSUME NEW v \in Uploads
      PROVE  UploadOk(v)'
  BY <1>2, <1>3 DEF UploadOk, Bare, Promise, Registered
<1>7. LockInv' /\ BootInv'
  BY <1>1, <1>2, <1>3, Threads DEF LockInv, BootInv, Inside, At, Serving, Closed
<1>8. ASSUME glitches = 0, NEW v \in Uploads
      PROVE  UndisturbedOk(v)'
  <2>1. UndisturbedOk(v) /\ \A c \in Callers : call[c].pc = "idle"
    BY <1>2, <1>8
  <2>2. ObjectFinalized(v)' /\ TargetsAccounted(v)'
    BY <1>1, <1>3, <2>1, Threads
       DEF UndisturbedOk, ObjectFinalized, TargetsAccounted, Ahead, Bare, At
  <2>3. PartsKept(v)' /\ ClosedSwept(v)'
    BY <1>1, <1>3, <2>1, Threads DEF UndisturbedOk, PartsKept, ClosedSwept, At, Closed
  <2>4. QED
    BY <2>2, <2>3 DEF UndisturbedOk
<1>9. QED
  BY <1>3, <1>4, <1>5, <1>6, <1>7, <1>8 DEF Inv, Inductive, Undisturbed

\* Every registered object has a completed session by now.
LEMMA ResubmitStep ==
  ASSUME Inv, Resubmit
  PROVE  Inv'
<1>1. /\ ~Serving /\ At(Main, "idle") /\ boot.pc = "closed" /\ boot.todo = {}
  BY NoCallRow DEF Resubmit, Serving, At
<1>2. /\ Rows
      /\ \A c \in Callers : call[c].pc = "idle" /\ RoleOk(c) /\ CallOk(c)
      /\ \A v \in Uploads : lock[v] = 0 /\ UploadOk(v)
      /\ sweep = {}
      /\ glitches = 0 => \A v \in Uploads : UndisturbedOk(v)
  BY <1>1, BootTurn
<1>3. /\ sess' = sess /\ record' = record /\ object' = object /\ stage' = stage /\ iso' = iso
      /\ lock' = lock /\ due' = due /\ sweep' = sweep /\ call' = call
      /\ crashes' = crashes /\ glitches' = glitches
      /\ boot' = [pc |-> "serving", todo |-> {}]
      /\ queued' = [u \in Uploads |-> queued[u] \cup {i \in Ids : object[u][i] = "pending"}]
  BY DEF Resubmit, diskVars, faultVars
<1>4. TypeOK'
  BY <1>2, <1>3, RowsAreTypesNext DEF Rows
<1>5. ASSUME NEW c \in Callers
      PROVE  RoleOk(c)' /\ CallOk(c)'
  BY <1>2, <1>3 DEF RoleOk, CallOk, At
<1>6. ASSUME NEW v \in Uploads
      PROVE  UploadOk(v)'
  BY <1>2, <1>3 DEF UploadOk, Bare, Promise, Registered
<1>7. LockInv' /\ BootInv'
  BY <1>2, <1>3, Threads DEF LockInv, BootInv, Inside, At, Serving
<1>8. ASSUME glitches = 0, NEW v \in Uploads
      PROVE  UndisturbedOk(v)'
  <2>1. UndisturbedOk(v) /\ \A c \in Callers : call[c].pc = "idle"
    BY <1>2, <1>8
  <2>2. ~Bare(v) => sess[v].state = "completed"
    BY <1>1, <2>1, Threads DEF UndisturbedOk, ObjectFinalized, Ahead, At
  <2>3. queued'[v] # {} => queued[v] # {} \/ ~Bare(v)
    BY <1>3 DEF Bare
  <2>4. ObjectFinalized(v)'
    BY <1>3, <2>1, <2>2, <2>3 DEF UndisturbedOk, ObjectFinalized, Bare
  <2>5. TargetsAccounted(v)'
    BY <1>1, <1>3, <2>1, Threads DEF UndisturbedOk, TargetsAccounted, Ahead
  <2>6. PartsKept(v)' /\ ClosedSwept(v)'
    BY <1>1, <1>3, <2>1, Threads DEF UndisturbedOk, PartsKept, ClosedSwept, At
  <2>7. QED
    BY <2>4, <2>5, <2>6 DEF UndisturbedOk
<1>9. QED
  BY <1>3, <1>4, <1>5, <1>6, <1>7, <1>8 DEF Inv, Inductive, Undisturbed

------------------------------------------------------------------------------
(* The invariant holds in every state.                                     *)

LEMMA InitInv == Init => Inv
<1> SUFFICES ASSUME Init
             PROVE  Inv
  OBVIOUS
<1>1. /\ sess = [u \in Uploads |-> [state |-> "absent", id |-> 0, expected |-> NoContent]]
      /\ record = [u \in Uploads |-> NoParts]
      /\ object = [u \in Uploads |-> [i \in Ids |-> "none"]]
      /\ queued = [u \in Uploads |-> {}]
      /\ stage = [u \in Uploads |-> NoStage]
      /\ iso = [u \in Uploads |-> [i \in Ids |-> NoIso]]
      /\ due = [u \in Uploads |-> FALSE]
      /\ lock = [u \in Uploads |-> 0]
      /\ call = [c \in Callers |-> NoCall]
      /\ sweep = {} /\ boot = [pc |-> "serving", todo |-> {}]
      /\ crashes = 0 /\ glitches = 0
  BY DEF Init
<1>2. /\ NoParts \in [Parts -> Content] /\ NoStage \in StageRow /\ NoIso \in IsoRow
      /\ 0 \in 0..MaxFaults
      /\ [state |-> "absent", id |-> 0, expected |-> NoContent] \in SessRow
  BY UploadConstants DEF NoParts, NoStage, NoIso, StageRow, IsoRow, SessRow, Content
<1>3. TypeOK
  BY <1>1, <1>2, NoCallRow, RowsAreTypes DEF Rows
<1>4. ASSUME NEW c \in Callers
      PROVE  RoleOk(c) /\ CallOk(c) /\ ~Inside(c) /\ ~At(c, "create") /\ At(c, "idle")
  <2>1. call[c].pc = "idle" /\ call[c].op = "none"
    BY <1>1, NoCallRow
  <2>2. QED
    BY <2>1 DEF RoleOk, CallOk, Inside, At
<1>5. LockInv /\ BootInv
  BY <1>1, <1>4, Threads DEF LockInv, BootInv, Serving
<1>6. \A u \in Uploads : UploadOk(u) /\ UndisturbedOk(u)
  BY <1>1 DEF UploadOk, UndisturbedOk, ObjectFinalized, TargetsAccounted, PartsKept, ClosedSwept,
              Bare, NoIso, Terminal, Active
<1>7. QED
  BY <1>3, <1>4, <1>5, <1>6 DEF Inv, Inductive, Undisturbed

LEMMA IdleInv ==
  ASSUME Inv, UNCHANGED vars
  PROVE  Inv'
<1>1. /\ sess' = sess /\ record' = record /\ object' = object /\ queued' = queued
      /\ stage' = stage /\ iso' = iso /\ lock' = lock /\ call' = call /\ sweep' = sweep
      /\ boot' = boot /\ crashes' = crashes /\ glitches' = glitches /\ due' = due
  BY DEF vars
<1>2. TypeOK'
  BY <1>1, RowsAreTypes, RowsAreTypesNext DEF Inv, Inductive, Rows
<1>3. ASSUME NEW c \in Callers
      PROVE  RoleOk(c)' /\ CallOk(c)'
  <2>1. RoleOk(c) /\ CallOk(c)
    BY DEF Inv, Inductive
  <2>2. RoleOk(c)'
    BY <1>1, <2>1 DEF RoleOk
  <2>3. CallOk(c)'
    BY <1>1, <2>1 DEF CallOk, At, Upload, Object, Bare, Promise, Registered
  <2>4. QED
    BY <2>2, <2>3
<1>4. \A v \in Uploads : UploadOk(v)'
  BY <1>1 DEF Inv, Inductive, UploadOk, Bare, Promise, Registered
<1>5. LockInv' /\ BootInv'
  BY <1>1 DEF Inv, Inductive, LockInv, BootInv, Inside, At, Upload, Serving
<1>6. Undisturbed'
  BY <1>1 DEF Inv, Undisturbed, UndisturbedOk, ObjectFinalized, TargetsAccounted, PartsKept,
              ClosedSwept, Ahead, Bare, At, Upload
<1>7. QED
  BY <1>2, <1>3, <1>4, <1>5, <1>6 DEF Inv, Inductive

\* A call that is under way is at work on an upload.
LEMMA OnUpload ==
  ASSUME Inductive, NEW c \in Callers, CallStep(c) \/ TakeLock(c) \/ (Glitch(c) /\ c # Main)
  PROVE  Upload(c) \in Uploads
<1>1. RoleOk(c)
  BY DEF Inductive
<1>2. call[c].pc # "idle"
  <2>1. CASE TakeLock(c)
    BY <2>1 DEF TakeLock, At
  <2>2. CASE Glitch(c)
    BY <2>2 DEF Glitch, At
  <2>3. CASE CallStep(c)
    BY <2>3 DEF CallStep, CreateRow, Received, MovePart, CommitPart, Rebind, Claim, Decline,
                Assemble, MakeTarget, MoveAssembled, Register, Finalize, WipeStage, DeleteParts,
                SubmitScan, Undo, Unlink, Cancel, Expire, RemoveOrphan, RemoveAssembled, Reset, At
  <2>4. QED
    BY <2>1, <2>2, <2>3
<1>3. QED
  BY <1>1, <1>2 DEF RoleOk, Upload

LEMMA CallStepInv ==
  ASSUME Inv, NEW c \in Callers, CallStep(c)
  PROVE  Inv'
<1>1. PICK u \in Uploads : Upload(c) = u
  BY OnUpload DEF Inv
<1>2. CASE CreateRow(c)
  BY <1>1, <1>2, CreateRowStep
<1>3. CASE Received(c)
  BY <1>1, <1>3, ReceivedStep
<1>4. CASE MovePart(c)
  BY <1>1, <1>4, MovePartStep
<1>5. CASE CommitPart(c)
  BY <1>1, <1>5, CommitPartStep
<1>6. CASE Rebind(c)
  BY <1>1, <1>6, RebindStep
<1>7. CASE Claim(c)
  BY <1>1, <1>7, ClaimStep
<1>8. CASE Decline(c)
  BY <1>1, <1>8, DeclineStep
<1>9. CASE Assemble(c)
  BY <1>1, <1>9, AssembleStep
<1>10. CASE MakeTarget(c)
  BY <1>1, <1>10, MakeTargetStep
<1>11. CASE MoveAssembled(c)
  BY <1>1, <1>11, MoveAssembledStep
<1>12. CASE Register(c)
  BY <1>1, <1>12, RegisterStep
<1>13. CASE Finalize(c)
  BY <1>1, <1>13, FinalizeStep
<1>14. CASE WipeStage(c)
  BY <1>1, <1>14, WipeStageStep
<1>15. CASE DeleteParts(c)
  BY <1>1, <1>15, DeletePartsStep
<1>16. CASE SubmitScan(c)
  BY <1>1, <1>16, SubmitScanStep
<1>17. CASE Undo(c)
  BY <1>1, <1>17, UndoStep
<1>18. CASE Unlink(c)
  BY <1>1, <1>18, UnlinkStep
<1>19. CASE Cancel(c)
  BY <1>1, <1>19, CancelStep
<1>20. CASE Expire(c)
  BY <1>1, <1>20, ExpireStep
<1>21. CASE RemoveOrphan(c)
  BY <1>1, <1>21, RemoveOrphanStep
<1>22. CASE RemoveAssembled(c)
  BY <1>1, <1>22, RemoveAssembledStep
<1>23. CASE Reset(c)
  BY <1>1, <1>23, ResetStep
<1>24. QED
  BY <1>2, <1>3, <1>4, <1>5, <1>6, <1>7, <1>8, <1>9, <1>10, <1>11, <1>12, <1>13, <1>14, <1>15,
     <1>16, <1>17, <1>18, <1>19, <1>20, <1>21, <1>22, <1>23 DEF CallStep

LEMMA NextInv == Inv /\ [Next]_vars => Inv'
<1> SUFFICES ASSUME Inv, [Next]_vars
             PROVE  Inv'
  OBVIOUS
<1>1. CASE UNCHANGED vars
  BY <1>1, IdleInv
<1>2. ASSUME NEW c \in Clients, NEW u \in Uploads,
             \/ CreateDir(c, u) \/ BeginPut(c, u)
             \/ BeginCall(c, "complete", u) \/ BeginCall(c, "cancel", u)
      PROVE  Inv'
  BY <1>2, Threads, CreateDirStep, BeginPutStep, BeginCallStep
<1>3. ASSUME NEW c \in Callers, CallStep(c) \/ TakeLock(c)
      PROVE  Inv'
  <2>1. PICK u \in Uploads : Upload(c) = u
    BY <1>3, OnUpload DEF Inv
  <2>2. QED
    BY <1>3, <2>1, CallStepInv, TakeLockStep
<1>4. ASSUME NEW c \in Callers \ {Main}, Glitch(c)
      PROVE  Inv'
  <2>1. PICK u \in Uploads : Upload(c) = u
    BY <1>4, OnUpload DEF Inv
  <2>2. QED
    BY <1>4, <2>1, GlitchStep
<1>5. ASSUME NEW u \in Uploads, BecomesDue(u) \/ \E i \in Ids : Scan(u, i)
      PROVE  Inv'
  BY <1>5, BecomesDueStep, ScanStep
<1>6. CASE SweepStep
  BY <1>6, StartSweepStep, SweepNextStep DEF SweepStep
<1>7. CASE BootStep
  BY <1>7, HardenStep, RecoverCompletingStep, StartCleaningStep, CleanClosedStep, ResubmitStep
     DEF BootStep
<1>8. CASE Crash
  BY <1>8, CrashStep
<1>9. QED
  BY <1>1, <1>2, <1>3, <1>4, <1>5, <1>6, <1>7, <1>8 DEF Next

\* Requests, the sweep, scans, crashes, exceptions and recovery keep the invariant,
\* whatever their order and number.
THEOREM Invariance == Spec => []Inv
<1>1. Init => Inv
  BY InitInv
<1>2. Inv /\ [Next]_vars => Inv'
  BY NextInv
<1>3. QED
  BY <1>1, <1>2, PTL DEF Spec

------------------------------------------------------------------------------
(* What the invariant says of the service.                                 *)

\* Dropping the lock from the dictionary while others wait for it lets two calls in at
\* once only when the session is closed for good, through every restart.
THEOREM LocksHold == Spec => []SessionInv
<1>1. Inv => SessionInv
  <2> SUFFICES ASSUME Inv
               PROVE  SessionInv
    OBVIOUS
  <2>1. ASSUME NEW c \in Callers, NEW d \in Callers, c # d, Inside(c), Inside(d),
               Upload(c) = Upload(d), sess[Upload(c)].state \notin Terminal
        PROVE  FALSE
    <3>1. RoleOk(c)
      BY DEF Inv, Inductive
    <3>2. Upload(c) \in Uploads
      BY <2>1, <3>1 DEF RoleOk, Inside, Upload
    <3>3. PICK u \in Uploads : Upload(c) = u
      BY <3>2
    <3>4. Alone(c, u)
      BY <2>1, <3>3, AloneInside DEF Inv
    <3>5. QED
      BY <2>1, <3>3, <3>4 DEF Alone
  <2>2. OneCallAtATime
    BY <2>1 DEF OneCallAtATime
  <2>3. QED
    BY <2>2 DEF SessionInv, Inv, Inductive
<1>2. QED
  BY <1>1, Invariance, PTL

\* The parts reported to a client that resumes are the ones on disk, or one of them is
\* just being recorded, crashes between moving a part and recording it included.
THEOREM ReportedPartsAreOnDisk == Spec => []PartsOnRecord
<1>1. Inv => PartsOnRecord
  BY DEF Inv, Undisturbed, UndisturbedOk, PartsKept, PartsOnRecord, Serving
<1>2. QED
  BY <1>1, Invariance, PTL

\* Nothing is left in isolation that no object row knows, whatever was interrupted before.
THEOREM IsolationAccounted == Spec => []NoOrphanTargets
<1>1. Inv => NoOrphanTargets
  <2> SUFFICES ASSUME Inv, Serving, glitches = 0, NEW u \in Uploads, NEW i \in Ids,
                      iso[u][i].dir, object[u][i] = "none"
               PROVE  \E c \in Clients : /\ Inside(c) /\ Upload(c) = u
                                         /\ sess[u].state = "completing"
    BY DEF NoOrphanTargets
  <2>1. TargetsAccounted(u)
    BY DEF Inv, Undisturbed, UndisturbedOk
  <2>2. ~Ahead(u, "orphan")
    BY DEF Ahead, Serving
  <2>3. PICK c \in Clients : call[c].pc \in {"move", "insert"} /\ Upload(c) = u
    BY <2>1, <2>2 DEF TargetsAccounted
  <2>4. sess[u].state = "completing"
    BY <2>1 DEF TargetsAccounted
  <2>5. QED
    BY <2>3, <2>4 DEF Inside
<1>2. QED
  BY <1>1, Invariance, PTL

\* A closed session nobody is at work on keeps neither part files nor part rows: late
\* parts, crashes and restarts leave no staged bytes that nobody accounts for.
THEOREM ClosedSessionsAreReclaimed == Spec => []StagingReclaimed
<1>1. Inv => StagingReclaimed
  <2> SUFFICES ASSUME Inv, Serving, glitches = 0, NEW u \in Closed,
                      \A c \in Callers : ~(Inside(c) /\ Upload(c) = u)
               PROVE  stage[u].parts = NoParts /\ ~stage[u].assembled /\ record[u] = NoParts
    BY DEF StagingReclaimed
  <2>1. u \in Uploads /\ sess[u].state \in Terminal
    BY DEF Closed
  <2>2. ClosedSwept(u)
    BY <2>1 DEF Inv, Undisturbed, UndisturbedOk
  <2>3. QED
    BY <2>1, <2>2 DEF ClosedSwept, Inside, Serving
<1>2. QED
  BY <1>1, Invariance, PTL

\* A scan is submitted only for a session that is durably finalized, whatever is cut off.
THEOREM ScansFollowFinalization == Spec => []EnqueuedOnlyAfterFinalized
<1>1. Inv => EnqueuedOnlyAfterFinalized
  BY DEF Inv, Undisturbed, UndisturbedOk, ObjectFinalized, EnqueuedOnlyAfterFinalized
<1>2. QED
  BY <1>1, Invariance, PTL

------------------------------------------------------------------------------
(* The service implements the life cycle of an upload.                     *)

\* Only the upload u is seen to change.
Shows(u) == \A v \in Uploads \ {u} : /\ sess'[v] = sess[v]
                                     /\ Reported(v)' = Reported(v)
                                     /\ ObjectFiles(v)' = ObjectFiles(v)

\* The abstract variables change at u alone.
LEMMA ShownAt ==
  ASSUME NEW u \in Uploads, Shows(u)
  PROVE  /\ [v \in Uploads |-> sess'[v].state]
              = [[v \in Uploads |-> sess[v].state] EXCEPT ![u] = sess'[u].state]
         /\ [v \in Uploads |-> sess'[v].expected]
              = [[v \in Uploads |-> sess[v].expected] EXCEPT ![u] = sess'[u].expected]
         /\ [v \in Uploads |-> Reported(v)']
              = [[v \in Uploads |-> Reported(v)] EXCEPT ![u] = Reported(u)']
         /\ [v \in Uploads |-> ObjectFiles(v)']
              = [[v \in Uploads |-> ObjectFiles(v)] EXCEPT ![u] = ObjectFiles(u)']
         /\ sess'[u].expected = sess[u].expected
              => [v \in Uploads |-> sess'[v].expected] = [v \in Uploads |-> sess[v].expected]
         /\ Reported(u)' = Reported(u)
              => [v \in Uploads |-> Reported(v)'] = [v \in Uploads |-> Reported(v)]
         /\ ObjectFiles(u)' = ObjectFiles(u)
              => [v \in Uploads |-> ObjectFiles(v)'] = [v \in Uploads |-> ObjectFiles(v)]
BY DEF Shows

LEMMA NothingShows ==
  ASSUME \A v \in Uploads : /\ sess'[v].state = sess[v].state
                            /\ sess'[v].expected = sess[v].expected
                            /\ Reported(v)' = Reported(v)
                            /\ ObjectFiles(v)' = ObjectFiles(v)
  PROVE  UNCHANGED Lifecycle!vars
BY DEF Lifecycle!vars

\* A step that touches neither the rows nor isolation.
LEMMA OutOfSight ==
  ASSUME UNCHANGED <<sess, record, object, iso>>
  PROVE  UNCHANGED Lifecycle!vars
BY NothingShows DEF Reported, ObjectFiles

\* An upload without an object has no files, and one with an object has that file.
LEMMA FilesOf ==
  ASSUME Inductive, NEW u \in Uploads
  PROVE  /\ Bare(u) <=> ObjectFiles(u) = {}
         /\ Registered(u) => ObjectFiles(u) = {iso[u][sess[u].id].file}
         /\ ~Registered(u) => Bare(u)
<1>1. Rows /\ UploadOk(u)
  BY RowsAreTypes DEF Inductive
<1>2. Bare(u) <=> ObjectFiles(u) = {}
  BY DEF Bare, ObjectFiles
<1>3. \A i \in Ids : object[u][i] # "none" => i = sess[u].id
  BY <1>1 DEF UploadOk
<1>4. ~Registered(u) => Bare(u)
  BY <1>3 DEF Registered, Bare, Ids
<1>5. ASSUME Registered(u)
      PROVE  ObjectFiles(u) = {iso[u][sess[u].id].file}
  <2>1. sess[u].id \in Ids /\ object[u][sess[u].id] # "none"
    BY <1>1, <1>5 DEF Registered, Rows, SessRow
  <2>2. {j \in Ids : object[u][j] # "none"} = {sess[u].id}
    BY <1>3, <2>1
  <2>3. QED
    BY <2>2 DEF ObjectFiles
<1>6. QED
  BY <1>2, <1>4, <1>5

\* The steps a client sees: opening the session, ...
LEMMA ShowsCreateRow ==
  ASSUME Inv, NEW c \in Callers, NEW u \in Uploads, Upload(c) = u, CreateRow(c)
  PROVE  Lifecycle!Next
<1>1. Rows /\ UploadOk(u) /\ sess[u].state = "absent"
  BY RowsAreTypes DEF Inv, Inductive, CreateRow, CallOk
<1>2. PICK d \in {Original, NoContent} :
        sess' = [sess EXCEPT ![u] = [state |-> "uploading", id |-> 0, expected |-> d]]
  BY DEF CreateRow
<1>3. UNCHANGED <<record, object, iso>> /\ d \in Versions \cup {NoContent}
  BY UploadConstants DEF CreateRow, diskVars
<1>4. Shows(u) /\ sess'[u].state = "uploading" /\ sess'[u].expected = d
  BY <1>1, <1>2, <1>3 DEF Shows, Rows, Reported, ObjectFiles
<1>5. Reported(u)' = Reported(u) /\ ObjectFiles(u)' = ObjectFiles(u)
  BY <1>1, <1>3, <1>4 DEF Reported, ObjectFiles, UploadOk, Active
<1>6. Lifecycle!Open(u, d)
  BY <1>1, <1>4, <1>5, ShownAt DEF Lifecycle!Open
<1>7. QED
  BY <1>3, <1>6 DEF Lifecycle!Next

\* ... a part that is reported from now on, ...
LEMMA ShowsCommitPart ==
  ASSUME Inv, NEW c \in Callers, NEW u \in Uploads, Upload(c) = u, CommitPart(c)
  PROVE  Lifecycle!Next
<1>1. /\ Rows /\ sess[u].state = "uploading" /\ call[c].part \in Parts
      /\ call[c].content \in Versions
  BY RowsAreTypes DEF Inv, Inductive, CommitPart, CallOk, RoleOk, At
<1>2. PICK p \in Parts, v \in Versions : p = call[c].part /\ v = call[c].content
  BY <1>1
<1>3. record' = [record EXCEPT ![u][p] = v] /\ UNCHANGED <<sess, object, iso>>
  BY <1>1, <1>2 DEF CommitPart, diskVars
<1>4. Shows(u) /\ ObjectFiles(u)' = ObjectFiles(u)
  BY <1>1, <1>3 DEF Shows, Rows, Reported, ObjectFiles
<1>5. Reported(u)' = [Reported(u) EXCEPT ![p] = v]
  BY <1>1, <1>3 DEF Reported, Active, Rows
<1>6. Lifecycle!Receive(u, p, v)
  BY <1>1, <1>3, <1>4, <1>5, ShownAt DEF Lifecycle!Receive
<1>7. QED
  BY <1>6 DEF Lifecycle!Next

\* ... the claim of a whole upload that has no object, ...
LEMMA ShowsClaim ==
  ASSUME Inv, NEW c \in Callers, NEW u \in Uploads, Upload(c) = u, Claim(c)
  PROVE  Lifecycle!Next
<1>1. /\ Rows /\ sess[u].state = "uploading" /\ ~Registered(u)
      /\ \A p \in Parts : record[u][p] # NoContent
      /\ sess' = [sess EXCEPT ![u].state = "completing", ![u].id = IF @ = 0 THEN 1 ELSE @]
      /\ UNCHANGED <<record, object, iso>>
  BY RowsAreTypes DEF Inv, Inductive, Claim, diskVars
<1>2. /\ Shows(u) /\ sess'[u].state = "completing" /\ sess'[u].expected = sess[u].expected
      /\ Reported(u)' = Reported(u) /\ ObjectFiles(u)' = ObjectFiles(u)
  BY <1>1 DEF Shows, Rows, SessRow, Reported, ObjectFiles, Active
<1>3. ObjectFiles(u) = {}
  BY <1>1, FilesOf DEF Inv
<1>4. Reported(u) \in Lifecycle!Whole
  <2>1. record[u] \in [Parts -> Versions]
    BY <1>1 DEF Rows, Content
  <2>2. QED
    BY <1>1, <2>1 DEF Reported, Active, Lifecycle!Whole
<1>5. Lifecycle!Begin(u)
  BY <1>1, <1>2, <1>3, <1>4, ShownAt DEF Lifecycle!Begin
<1>6. QED
  BY <1>5 DEF Lifecycle!Next

\* ... its object, with the promised file, ...
LEMMA ShowsRegister ==
  ASSUME Inv, NEW c \in Callers, NEW u \in Uploads, Upload(c) = u, Register(c)
  PROVE  Lifecycle!Next
<1>1. /\ Rows /\ CallOk(c) /\ call[c].pc = "insert"
      /\ object' = [object EXCEPT ![u][sess[u].id] = "pending"]
      /\ UNCHANGED <<sess, record, iso>>
  BY RowsAreTypes DEF Inv, Inductive, Register, Object, Upload, diskVars, At
<1>2. PICK i \in Ids : i = sess[u].id
  BY <1>1 DEF CallOk, Rows, SessRow
<1>3. PICK f : f = call[c].file
  OBVIOUS
<1>4. /\ sess[u].state = "completing" /\ Bare(u) /\ f \in Promise(u)
      /\ iso[u][i].file = f
  BY <1>1, <1>2, <1>3 DEF CallOk, At, Object
<1>5. Shows(u) /\ Reported(u)' = Reported(u)
  BY <1>1 DEF Shows, Rows, Reported, ObjectFiles
<1>6. ObjectFiles(u) = {}
  BY <1>4, FilesOf DEF Inv
<1>7. ObjectFiles(u)' = {f}
  <2>1. {j \in Ids : object'[u][j] # "none"} = {i}
    BY <1>1, <1>2, <1>4 DEF Bare, Rows
  <2>2. QED
    BY <1>1, <1>4, <2>1 DEF ObjectFiles
<1>8. /\ f \in [Parts -> Versions]
      /\ sess[u].expected # NoContent => f = [p \in Parts |-> sess[u].expected]
  BY <1>4 DEF Promise
<1>9. Lifecycle!Register(u, f)
  BY <1>1, <1>4, <1>5, <1>6, <1>7, <1>8, ShownAt DEF Lifecycle!Register
<1>10. QED
  BY <1>8, <1>9 DEF Lifecycle!Next, Lifecycle!Whole

\* Closing a session takes its parts out of sight.
LEMMA ShowsShut ==
  ASSUME Rows, NEW u \in Uploads, sess[u].state \in Active, NEW st \in Terminal,
         sess' = [sess EXCEPT ![u].state = st], UNCHANGED <<record, object, iso>>
  PROVE  Lifecycle!Shut(u, st)
<1>1. /\ Shows(u) /\ sess'[u].state = st /\ sess'[u].expected = sess[u].expected
      /\ ObjectFiles(u)' = ObjectFiles(u)
  BY DEF Shows, Rows, SessRow, Reported, ObjectFiles
<1>2. Reported(u)' = NoParts
  BY <1>1 DEF Reported, Active, Terminal
<1>3. Lifecycle!NoParts = NoParts
  BY DEF Lifecycle!NoParts, NoParts
<1>4. QED
  BY <1>1, <1>2, <1>3, ShownAt DEF Lifecycle!Shut

\* ... the end of the session that has one, ...
LEMMA ShowsFinalize ==
  ASSUME Inv, NEW c \in Callers, NEW u \in Uploads, Upload(c) = u, Finalize(c)
  PROVE  Lifecycle!Next \/ UNCHANGED Lifecycle!vars
<1>1. /\ Rows /\ Registered(u) /\ sess[u].state # "completed"
      /\ UNCHANGED <<record, object, iso>>
  BY RowsAreTypes DEF Inv, Inductive, Finalize, CallOk, diskVars
<1>2. CASE sess[u].state \in Active
  <2>1. sess' = [sess EXCEPT ![u].state = "completed"]
    BY <1>2 DEF Finalize
  <2>2. Lifecycle!Shut(u, "completed")
    BY <1>1, <1>2, <2>1, ShowsShut DEF Terminal
  <2>3. ObjectFiles(u) # {}
    BY <1>1, FilesOf DEF Inv
  <2>4. Lifecycle!Finish(u)
    BY <1>2, <2>2, <2>3 DEF Lifecycle!Finish, Active
  <2>5. QED
    BY <2>4 DEF Lifecycle!Next
<1>3. CASE sess[u].state \notin Active
  BY <1>1, <1>3, OutOfSight DEF Finalize
<1>4. QED
  BY <1>2, <1>3

\* ... its cancellation or expiry, ...
LEMMA ShowsClose ==
  ASSUME Inv, NEW c \in Callers, NEW u \in Uploads, Upload(c) = u, Cancel(c) \/ Expire(c)
  PROVE  Lifecycle!Next \/ UNCHANGED Lifecycle!vars
<1>1. Rows /\ UNCHANGED <<record, object, iso>>
  BY RowsAreTypes DEF Inv, Inductive, Cancel, Expire, diskVars
<1>2. CASE sess' = sess
  BY <1>1, <1>2, OutOfSight
<1>3. CASE sess[u].state = "uploading" /\ sess' = [sess EXCEPT ![u].state = "cancelled"]
  <2>1. Lifecycle!Shut(u, "cancelled")
    BY <1>1, <1>3, ShowsShut DEF Terminal, Active
  <2>2. QED
    BY <1>3, <2>1 DEF Lifecycle!Close, Lifecycle!Next
<1>4. CASE sess[u].state \in Active /\ sess' = [sess EXCEPT ![u].state = "expired"]
  <2>1. Lifecycle!Shut(u, "expired")
    BY <1>1, <1>4, ShowsShut DEF Terminal
  <2>2. QED
    BY <1>4, <2>1 DEF Lifecycle!Close, Lifecycle!Next, Active
<1>5. QED
  BY <1>2, <1>3, <1>4 DEF Cancel, Expire

\* ... and the return of a completion that failed or was interrupted.
LEMMA ShowsReopen ==
  ASSUME Inv, NEW c \in Callers, NEW u \in Uploads, Upload(c) = u, Undo(c) \/ Reset(c)
  PROVE  Lifecycle!Next \/ UNCHANGED Lifecycle!vars
<1>1. Rows /\ UNCHANGED <<record, object, iso>>
  BY RowsAreTypes DEF Inv, Inductive, Undo, Reset, diskVars
<1>2. At(c, "reset") => sess[u].state = "completing"
  BY DEF Inv, Inductive, CallOk, At
<1>3. CASE sess[u].state = "completing"
  <2>1. sess' = [sess EXCEPT ![u].state = "uploading"]
    BY <1>1, <1>3 DEF Undo, Reset, Rows
  <2>2. /\ Shows(u) /\ sess'[u].state = "uploading" /\ sess'[u].expected = sess[u].expected
        /\ Reported(u)' = Reported(u) /\ ObjectFiles(u)' = ObjectFiles(u)
    BY <1>1, <1>3, <2>1 DEF Shows, Rows, SessRow, Reported, ObjectFiles, Active
  <2>3. Lifecycle!Reopen(u)
    BY <1>3, <2>2, ShownAt DEF Lifecycle!Reopen
  <2>4. QED
    BY <2>3 DEF Lifecycle!Next
<1>4. CASE sess[u].state # "completing"
  <2>1. Undo(c)
    BY <1>2, <1>4 DEF Reset
  <2>2. \A v \in Uploads : sess'[v] = sess[v]
    BY <1>1, <1>4, <2>1 DEF Undo, Rows, SessRow
  <2>3. QED
    BY <1>1, <2>2, NothingShows DEF Reported, ObjectFiles
<1>5. QED
  BY <1>3, <1>4

\* Only targets without an object row change in isolation, or objects that are scanned.
LEMMA FilesStay ==
  ASSUME Inv, NEW u \in Uploads, UNCHANGED <<sess, record>>,
         \A v \in Uploads \ {u} : object'[v] = object[v] /\ iso'[v] = iso[v],
         \/ \A i \in Ids : /\ object'[u][i] = "none" <=> object[u][i] = "none"
                           /\ iso'[u][i].file = iso[u][i].file
         \/ Bare(u) /\ Bare(u)'
  PROVE  UNCHANGED Lifecycle!vars
<1>1. ObjectFiles(u)' = ObjectFiles(u)
  <2>1. CASE Bare(u) /\ Bare(u)'
    BY <2>1 DEF Bare, ObjectFiles
  <2>2. CASE \A i \in Ids : /\ object'[u][i] = "none" <=> object[u][i] = "none"
                            /\ iso'[u][i].file = iso[u][i].file
    BY <2>2 DEF ObjectFiles
  <2>3. QED
    BY <2>1, <2>2
<1>2. QED
  BY <1>1, NothingShows DEF Reported, ObjectFiles

\* Targets in isolation are not seen before their row, nor when they are removed.
LEMMA ShowsNoTarget ==
  ASSUME Inv, NEW c \in Callers, NEW u \in Uploads, Upload(c) = u,
         \/ MakeTarget(c) \/ MoveAssembled(c) \/ RemoveOrphan(c) \/ Glitch(c)
  PROVE  UNCHANGED Lifecycle!vars
<1>1. Rows /\ CallOk(c)
  BY RowsAreTypes DEF Inv, Inductive
<1>2. UNCHANGED <<sess, record, object>>
  BY DEF MakeTarget, MoveAssembled, RemoveOrphan, Glitch, rowVars
<1>3. iso' = iso \/ Bare(u)
  BY <1>1 DEF MakeTarget, MoveAssembled, RemoveOrphan, Glitch, CallOk, At
<1>4. \A v \in Uploads \ {u} : iso'[v] = iso[v]
  BY <1>1 DEF MakeTarget, MoveAssembled, RemoveOrphan, Glitch, Rows
<1>5. CASE iso' = iso
  BY <1>2, <1>5, OutOfSight
<1>6. CASE Bare(u)
  <2>1. Bare(u)'
    BY <1>2, <1>6 DEF Bare
  <2>2. QED
    BY <1>2, <1>4, <1>6, <2>1, FilesStay
<1>7. QED
  BY <1>3, <1>5, <1>6

\* The part rows of a closed session.
LEMMA ShowsNoDeletion ==
  ASSUME Inv, UNCHANGED <<sess, object, iso>>,
         \A v \in Uploads : record'[v] = record[v] \/ sess[v].state \in Terminal
  PROVE  UNCHANGED Lifecycle!vars
BY NothingShows DEF Reported, ObjectFiles, Active, Terminal

LEMMA ShowsScan ==
  ASSUME Inv, NEW u \in Uploads, NEW i \in Ids, Scan(u, i)
  PROVE  UNCHANGED Lifecycle!vars
<1>1. /\ UNCHANGED <<sess, record, iso>> /\ object[u][i] = "pending"
      /\ object' = [object EXCEPT ![u][i] = "scanned"]
  BY DEF Scan, diskVars
<1>2. Rows
  BY RowsAreTypes DEF Inv, Inductive
<1>3. \A v \in Uploads \ {u} : object'[v] = object[v]
  BY <1>1, <1>2 DEF Rows
<1>4. \A j \in Ids : object'[u][j] = "none" <=> object[u][j] = "none"
  BY <1>1, <1>2 DEF Rows
<1>5. QED
  BY <1>1, <1>3, <1>4, FilesStay

LEMMA ShowsCallStep ==
  ASSUME Inv, NEW c \in Callers, CallStep(c)
  PROVE  Lifecycle!Next \/ UNCHANGED Lifecycle!vars
<1>1. PICK u \in Uploads : Upload(c) = u
  BY OnUpload DEF Inv
<1>2. CASE CreateRow(c) \/ CommitPart(c) \/ Claim(c) \/ Register(c)
  BY <1>1, <1>2, ShowsCreateRow, ShowsCommitPart, ShowsClaim, ShowsRegister
<1>3. CASE Finalize(c)
  BY <1>1, <1>3, ShowsFinalize
<1>4. CASE Cancel(c) \/ Expire(c)
  BY <1>1, <1>4, ShowsClose
<1>5. CASE Undo(c) \/ Reset(c)
  BY <1>1, <1>5, ShowsReopen
<1>6. CASE MakeTarget(c) \/ MoveAssembled(c) \/ RemoveOrphan(c)
  BY <1>1, <1>6, ShowsNoTarget
<1>7. CASE DeleteParts(c)
  <2>1. Rows /\ sess[u].state \in Terminal
    BY <1>1, <1>7, RowsAreTypes DEF Inv, Inductive, CallOk, DeleteParts, At
  <2>2. \A v \in Uploads : record'[v] = record[v] \/ sess[v].state \in Terminal
    BY <1>1, <1>7, <2>1 DEF DeleteParts, Rows
  <2>3. QED
    BY <1>7, <2>2, ShowsNoDeletion DEF DeleteParts, diskVars
<1>8. CASE \/ Received(c) \/ MovePart(c) \/ Rebind(c) \/ Decline(c) \/ Assemble(c)
           \/ WipeStage(c) \/ SubmitScan(c) \/ Unlink(c) \/ RemoveAssembled(c)
  BY <1>8, OutOfSight DEF Received, MovePart, Rebind, Decline, Assemble, WipeStage, SubmitScan,
     Unlink, RemoveAssembled, rowVars, diskVars
<1>9. QED
  BY <1>2, <1>3, <1>4, <1>5, <1>6, <1>7, <1>8 DEF CallStep

\* Every step is one of the life cycle, or is not seen.
LEMMA ShowsStep ==
  ASSUME Inv, [Next]_vars
  PROVE  [Lifecycle!Next]_Lifecycle!vars
<1>1. CASE UNCHANGED vars
  BY <1>1, OutOfSight DEF vars
<1>2. ASSUME NEW c \in Clients, NEW u \in Uploads,
             \/ CreateDir(c, u) \/ BeginPut(c, u)
             \/ BeginCall(c, "complete", u) \/ BeginCall(c, "cancel", u)
      PROVE  UNCHANGED Lifecycle!vars
  BY <1>2, OutOfSight DEF CreateDir, BeginPut, BeginCall, rowVars, diskVars
<1>3. ASSUME NEW c \in Callers, CallStep(c)
      PROVE  Lifecycle!Next \/ UNCHANGED Lifecycle!vars
  BY <1>3, ShowsCallStep
<1>4. ASSUME NEW c \in Callers, TakeLock(c)
      PROVE  UNCHANGED Lifecycle!vars
  BY <1>4, OutOfSight DEF TakeLock, rowVars, diskVars
<1>5. ASSUME NEW c \in Callers \ {Main}, Glitch(c)
      PROVE  UNCHANGED Lifecycle!vars
  <2>1. PICK u \in Uploads : Upload(c) = u
    BY <1>5, OnUpload DEF Inv
  <2>2. QED
    BY <1>5, <2>1, ShowsNoTarget
<1>6. ASSUME NEW u \in Uploads, BecomesDue(u) \/ \E i \in Ids : Scan(u, i)
      PROVE  UNCHANGED Lifecycle!vars
  <2>1. CASE BecomesDue(u)
    BY <2>1, OutOfSight DEF BecomesDue, rowVars, diskVars
  <2>2. QED
    BY <1>6, <2>1, ShowsScan
<1>7. CASE SweepStep \/ Crash
  BY <1>7, OutOfSight DEF SweepStep, StartSweep, SweepNext, Crash, rowVars, diskVars
<1>8. CASE Harden
  <2>1. Rows
    BY RowsAreTypes DEF Inv, Inductive
  <2>2. \A v \in Uploads : record'[v] = record[v] \/ sess[v].state \in Terminal
    BY <1>8, <2>1 DEF Harden, Closed, Rows
  <2>3. QED
    BY <1>8, <2>2, ShowsNoDeletion DEF Harden, diskVars
<1>9. CASE RecoverCompleting \/ StartCleaning \/ CleanClosed \/ Resubmit
  BY <1>9, OutOfSight
     DEF RecoverCompleting, StartCleaning, CleanClosed, Resubmit, rowVars, diskVars
<1>10. QED
  BY <1>1, <1>2, <1>3, <1>4, <1>5, <1>6, <1>7, <1>8, <1>9 DEF Next, BootStep

\* Whatever is sent again, retried, interrupted or recovered, an upload becomes at most one
\* object, gap-free and with the digest announced at the start; its session is completed only
\* with that object registered, and a completion that failed is taken back.
THEOREM ImplementsUploadLifecycle == Spec => ImplementsLifecycle
<1>1. Init => Lifecycle!Init
  <2> SUFFICES ASSUME Init
               PROVE  Lifecycle!Init
    OBVIOUS
  <2>1. \A u \in Uploads : /\ sess[u].state = "absent" /\ sess[u].expected = NoContent
                           /\ Reported(u) = NoParts /\ ObjectFiles(u) = {}
    BY DEF Init, Reported, ObjectFiles, Active
  <2>2. QED
    BY <2>1 DEF Lifecycle!Init, Lifecycle!NoParts, NoParts
<1>2. Inv /\ [Next]_vars => [Lifecycle!Next]_Lifecycle!vars
  BY ShowsStep
<1>3. QED
  BY <1>1, <1>2, Invariance, PTL DEF Spec, ImplementsLifecycle, Lifecycle!Spec

------------------------------------------------------------------------------
(* Sums.  What SumFunctionOnSet says of a finite set, by induction over    *)
(* its subsets: a family of subsets is a set, and of the bad ones, if any, *)
(* one is smallest.                                                        *)

\* Of any family of subsets of a finite set there is one with no smaller one below it.
LEMMA SmallestSet ==
  ASSUME NEW S, IsFiniteSet(S), NEW Bad \in SUBSET (SUBSET S), Bad # {}
  PROVE  \E T \in Bad : \A U \in SUBSET T : U # T => U \notin Bad
<1>1. IsWellFoundedOn(StrictSubsetOrdering(S), SUBSET S)
  BY FS_StrictSubsetOrderingWellFounded, FS_FiniteSubsetsOfFinite
<1>2. PICK T \in Bad : \A U \in Bad : <<U, T>> \notin StrictSubsetOrdering(S)
  BY <1>1, WFMin
<1>3. ASSUME NEW U \in SUBSET T, U # T, U \in Bad
      PROVE  FALSE
  <2>1. <<U, T>> \in StrictSubsetOrdering(S)
    BY <1>3 DEF StrictSubsetOrdering
  <2>2. QED
    BY <1>2, <1>3, <2>1
<1>4. QED
  BY <1>3

\* One of the elements left, and what a function on subsets of S must be to add up f.
Some(s) == CHOOSE x \in s : TRUE
Adds(g, f, D) == g = [s \in D |-> IF s = {} THEN 0 ELSE f[Some(s)] + g[s \ {Some(s)}]]
AddsOf(f, S) == CHOOSE g : Adds(g, f, SUBSET S)

LEMMA TotalUnfolds ==
  ASSUME NEW S, NEW f
  PROVE  Total(S, f) = AddsOf(f, S)[S]
BY DEF Total, SumFunctionOnSet, FoldFunctionOnSet, MapThenFoldSet, AddsOf, Adds, Some

\* Such a function exists: extend it from the sets one element smaller.
Sized(S, n) == {s \in SUBSET S : Cardinality(s) <= n}

LEMMA SizedSets ==
  ASSUME NEW S, IsFiniteSet(S), NEW n \in Nat, NEW s \in Sized(S, n), s # {}
  PROVE  /\ s \ {Some(s)} \in Sized(S, n) /\ n # 0
         /\ s \ {Some(s)} \in Sized(S, n - 1)
<1>1. IsFiniteSet(s) /\ Cardinality(s) \in Nat /\ Cardinality(s) <= n
  BY FS_Subset, FS_CardinalityType DEF Sized
<1>2. Some(s) \in s
  BY DEF Some
<1>3. Cardinality(s \ {Some(s)}) = Cardinality(s) - 1
  BY <1>1, <1>2, FS_RemoveElement
<1>4. Cardinality(s) # 0
  BY <1>1, FS_EmptySet
<1>5. QED
  BY <1>1, <1>3, <1>4 DEF Sized

LEMMA AdderExists ==
  ASSUME NEW S, IsFiniteSet(S), NEW f
  PROVE  \E g : Adds(g, f, SUBSET S)
<1> DEFINE Step(g, s) == IF s = {} THEN 0 ELSE f[Some(s)] + g[s \ {Some(s)}]
           Goes(n) == \E g : g = [s \in Sized(S, n) |-> Step(g, s)]
           Bad == {n \in Nat : ~Goes(n)}
<1>1. Goes(0)
  <2> DEFINE h == [s \in Sized(S, 0) |-> 0]
  <2>1. \A s \in Sized(S, 0) : s = {}
    BY SizedSets
  <2>2. h = [s \in Sized(S, 0) |-> Step(h, s)]
    BY <2>1
  <2>3. QED
    BY <2>2
<1>2. ASSUME NEW n \in Nat, Goes(n)
      PROVE  Goes(n + 1)
  <2>1. PICK g : g = [s \in Sized(S, n) |-> Step(g, s)]
    BY <1>2
  <2> DEFINE h == [s \in Sized(S, n + 1) |-> Step(g, s)]
  <2>2. \A s \in Sized(S, n + 1) : s # {} => s \ {Some(s)} \in Sized(S, n)
    BY SizedSets
  <2>3. \A s \in Sized(S, n) : s \in Sized(S, n + 1)
    <3> SUFFICES ASSUME NEW s \in Sized(S, n)
                 PROVE  s \in Sized(S, n + 1)
      OBVIOUS
    <3>1. Cardinality(s) \in Nat /\ Cardinality(s) <= n /\ s \in SUBSET S
      BY FS_Subset, FS_CardinalityType DEF Sized
    <3>2. QED
      BY <3>1 DEF Sized
  <2>4. \A s \in Sized(S, n) : h[s] = g[s]
    <3> SUFFICES ASSUME NEW s \in Sized(S, n)
                 PROVE  h[s] = g[s]
      OBVIOUS
    <3> HIDE DEF Step
    <3>1. g[s] = Step(g, s)
      BY <2>1
    <3>2. QED
      BY <2>3, <3>1
  <2>5. \A s \in Sized(S, n + 1) : Step(h, s) = Step(g, s)
    <3> HIDE DEF h
    <3> QED
      BY <2>2, <2>4
  <2>6. h = [s \in Sized(S, n + 1) |-> Step(h, s)]
    <3> HIDE DEF Step
    <3> QED
      BY <2>5
  <2>7. QED
    BY <2>6
<1> HIDE DEF Goes
<1>3. \A n \in Nat : Goes(n)
  <2>1. SUFFICES ASSUME Bad # {}
                 PROVE  FALSE
    BY <2>1
  <2>2. PICK m \in Bad : \A k \in Bad : <<k, m>> \notin OpToRel(<, Nat)
    BY <2>1, NatLessThanWellFounded, WFMin
  <2>3. \A k \in Bad : ~(k < m)
    BY <2>2 DEF OpToRel
  <2>4. m # 0 /\ m \in Nat
    BY <1>1, <2>2
  <2>5. m - 1 \in Nat /\ m - 1 < m /\ m = (m - 1) + 1
    BY <2>4
  <2>6. Goes(m - 1)
    BY <2>3, <2>5
  <2>7. Goes((m - 1) + 1)
    BY <1>2, <2>5, <2>6
  <2>8. QED
    BY <2>2, <2>5, <2>7
<1>4. Cardinality(S) \in Nat
  BY FS_CardinalityType
<1>5. Sized(S, Cardinality(S)) = SUBSET S
  BY FS_Subset DEF Sized
<1>6. QED
  BY <1>3, <1>4, <1>5 DEF Goes, Adds

LEMMA AddsOfAddsUp ==
  ASSUME NEW S, IsFiniteSet(S), NEW f
  PROVE  \A s \in SUBSET S :
           AddsOf(f, S)[s] = IF s = {} THEN 0
                             ELSE f[Some(s)] + AddsOf(f, S)[s \ {Some(s)}]
<1>1. Adds(AddsOf(f, S), f, SUBSET S)
  BY AdderExists DEF AddsOf
<1>2. QED
  BY <1>1 DEF Adds

\* The total of a part does not depend on the whole it is taken from.
LEMMA TotalOfPart ==
  ASSUME NEW S, IsFiniteSet(S), NEW f, NEW T \in SUBSET S
  PROVE  AddsOf(f, S)[T] = Total(T, f)
<1> DEFINE Bad == {U \in SUBSET T : AddsOf(f, S)[U] # AddsOf(f, T)[U]}
<1>1. IsFiniteSet(T)
  BY FS_Subset
<1>2. ASSUME Bad # {}
      PROVE  FALSE
  <2>0. Bad \in SUBSET (SUBSET T)
    OBVIOUS
  <2>1. PICK U \in Bad : \A V \in SUBSET U : V # U => V \notin Bad
    <3> HIDE DEF Bad
    <3> QED
      BY <1>1, <1>2, <2>0, SmallestSet
  <2>2. U \in SUBSET T /\ U \in SUBSET S
    BY <2>1
  <2>3. AddsOf(f, S)[{}] = 0 /\ AddsOf(f, T)[{}] = 0
    BY <1>1, AddsOfAddsUp
  <2>4. U # {}
    BY <2>1, <2>3
  <2>5. Some(U) \in U
    BY <2>4 DEF Some
  <2>6. AddsOf(f, S)[U \ {Some(U)}] = AddsOf(f, T)[U \ {Some(U)}]
    BY <2>1, <2>2, <2>5
  <2>7. /\ AddsOf(f, S)[U] = f[Some(U)] + AddsOf(f, S)[U \ {Some(U)}]
        /\ AddsOf(f, T)[U] = f[Some(U)] + AddsOf(f, T)[U \ {Some(U)}]
    BY <1>1, <2>2, <2>4, AddsOfAddsUp
  <2>8. QED
    BY <2>1, <2>6, <2>7
<1>3. AddsOf(f, S)[T] = AddsOf(f, T)[T]
  BY <1>2
<1>4. QED
  BY <1>3, TotalUnfolds


LEMMA TotalOfEmpty ==
  ASSUME NEW f
  PROVE  Total({}, f) = 0
BY AddsOfAddsUp, TotalUnfolds, FS_EmptySet

LEMMA TotalOfOneMore ==
  ASSUME NEW S, IsFiniteSet(S), S # {}, NEW f
  PROVE  Some(S) \in S /\ Total(S, f) = f[Some(S)] + Total(S \ {Some(S)}, f)
<1>1. Some(S) \in S
  BY DEF Some
<1>2. AddsOf(f, S)[S] = f[Some(S)] + AddsOf(f, S)[S \ {Some(S)}]
  BY AddsOfAddsUp
<1>3. AddsOf(f, S)[S \ {Some(S)}] = Total(S \ {Some(S)}, f)
  BY TotalOfPart
<1>4. QED
  BY <1>1, <1>2, <1>3, TotalUnfolds

\* Totals are numbers, and it does not matter which element is added last.
LEMMA TotalIsInt ==
  ASSUME NEW S, IsFiniteSet(S), NEW f, \A x \in S : f[x] \in Int
  PROVE  Total(S, f) \in Int
<1> DEFINE Bad == {T \in SUBSET S : Total(T, f) \notin Int}
<1>1. ASSUME Bad # {}
      PROVE  FALSE
  <2>0. Bad \in SUBSET (SUBSET S)
    OBVIOUS
  <2>1. PICK T \in Bad : \A U \in SUBSET T : U # T => U \notin Bad
    <3> HIDE DEF Bad
    <3> QED
      BY <1>1, <2>0, SmallestSet
  <2>2. T \in SUBSET S /\ IsFiniteSet(T)
    BY <2>1, FS_Subset
  <2>5. T # {}
    BY <2>1, TotalOfEmpty
  <2>3. Some(T) \in T /\ Total(T, f) = f[Some(T)] + Total(T \ {Some(T)}, f)
    BY <2>2, <2>5, TotalOfOneMore
  <2>4. QED
    BY <2>1, <2>3
<1>2. QED
  BY <1>1

LEMMA TotalWithout ==
  ASSUME NEW S, IsFiniteSet(S), NEW f, \A x \in S : f[x] \in Int, NEW x \in S
  PROVE  Total(S, f) = f[x] + Total(S \ {x}, f)
<1> DEFINE Bad == {T \in SUBSET S : \E y \in T : Total(T, f) # f[y] + Total(T \ {y}, f)}
<1>1. ASSUME Bad # {}
      PROVE  FALSE
  <2>0. Bad \in SUBSET (SUBSET S)
    OBVIOUS
  <2>1. PICK T \in Bad : \A U \in SUBSET T : U # T => U \notin Bad
    <3> HIDE DEF Bad
    <3> QED
      BY <1>1, <2>0, SmallestSet
  <2>2. PICK y \in T : Total(T, f) # f[y] + Total(T \ {y}, f)
    BY <2>1
  <2> DEFINE p == Some(T)
             R == T \ {p, y}
  <2>3. IsFiniteSet(T) /\ IsFiniteSet(T \ {y}) /\ T \in SUBSET S
    BY <2>1, FS_Subset
  <2>4. p \in T /\ Total(T, f) = f[p] + Total(T \ {p}, f)
    BY <2>2, <2>3, TotalOfOneMore
  <2> HIDE DEF p
  <2>5. p # y
    BY <2>2, <2>4
  <2>6. Total(T \ {p}, f) = f[y] + Total((T \ {p}) \ {y}, f)
    BY <2>1, <2>2, <2>4, <2>5
  <2>7. Total(T \ {y}, f) = f[p] + Total((T \ {y}) \ {p}, f)
    BY <2>1, <2>2, <2>4, <2>5
  <2>8. /\ Total((T \ {p}) \ {y}, f) = Total(R, f) /\ Total((T \ {y}) \ {p}, f) = Total(R, f)
        /\ R \in SUBSET S
    <3>1. (T \ {p}) \ {y} = R /\ (T \ {y}) \ {p} = R /\ R \in SUBSET S
      BY <2>3
    <3>2. QED
      BY <3>1
  <2>9. Total(R, f) \in Int /\ f[p] \in Int /\ f[y] \in Int
    BY <2>2, <2>3, <2>4, <2>8, FS_Subset, TotalIsInt
  <2> HIDE DEF R
  <2>10. QED
    BY <2>2, <2>4, <2>6, <2>7, <2>8, <2>9
<1>2. QED
  BY <1>1

LEMMA TotalOfZeros ==
  ASSUME NEW S, IsFiniteSet(S), NEW f, \A x \in S : f[x] = 0
  PROVE  Total(S, f) = 0
<1> DEFINE Bad == {T \in SUBSET S : Total(T, f) # 0}
<1>1. ASSUME Bad # {}
      PROVE  FALSE
  <2>0. Bad \in SUBSET (SUBSET S)
    OBVIOUS
  <2>1. PICK T \in Bad : \A U \in SUBSET T : U # T => U \notin Bad
    <3> HIDE DEF Bad
    <3> QED
      BY <1>1, <2>0, SmallestSet
  <2>2. T \in SUBSET S /\ IsFiniteSet(T)
    BY <2>1, FS_Subset
  <2>3. T # {}
    BY <2>1, TotalOfEmpty
  <2>4. Some(T) \in T /\ Total(T, f) = f[Some(T)] + Total(T \ {Some(T)}, f)
    BY <2>2, <2>3, TotalOfOneMore
  <2>5. QED
    BY <2>1, <2>4
<1>2. QED
  BY <1>1

\* Totals compare as what is added up does.
LEMMA TotalsCompare ==
  ASSUME NEW S, IsFiniteSet(S), NEW f, NEW e, NEW g, NEW h,
         \A x \in S : /\ f[x] \in Int /\ e[x] \in Int /\ g[x] \in Int /\ h[x] \in Int
                      /\ f[x] + e[x] <= g[x] + h[x]
  PROVE  Total(S, f) + Total(S, e) <= Total(S, g) + Total(S, h)
<1> DEFINE Bad == {T \in SUBSET S : ~(Total(T, f) + Total(T, e) <= Total(T, g) + Total(T, h))}
<1>1. ASSUME Bad # {}
      PROVE  FALSE
  <2>0. Bad \in SUBSET (SUBSET S)
    OBVIOUS
  <2>1. PICK T \in Bad : \A U \in SUBSET T : U # T => U \notin Bad
    <3> HIDE DEF Bad
    <3> QED
      BY <1>1, <2>0, SmallestSet
  <2>2. T \in SUBSET S /\ IsFiniteSet(T)
    BY <2>1, FS_Subset
  <2>3. PICK x \in T : TRUE
    <3>1. Total({}, f) = 0 /\ Total({}, e) = 0 /\ Total({}, g) = 0 /\ Total({}, h) = 0
      BY TotalOfEmpty
    <3>2. Total({}, f) + Total({}, e) <= Total({}, g) + Total({}, h)
      BY <3>1
    <3>3. T # {}
      BY <2>1, <3>2
    <3>4. QED
      BY <3>3
  <2> DEFINE U == T \ {x}
  <2>4. /\ Total(T, f) = f[x] + Total(U, f) /\ Total(T, e) = e[x] + Total(U, e)
        /\ Total(T, g) = g[x] + Total(U, g) /\ Total(T, h) = h[x] + Total(U, h)
    BY <2>2, <2>3, TotalWithout
  <2>5. U \in SUBSET S /\ IsFiniteSet(U)
    BY <2>2, FS_Subset
  <2>6. /\ Total(U, f) \in Int /\ Total(U, e) \in Int
        /\ Total(U, g) \in Int /\ Total(U, h) \in Int
    BY <2>5, TotalIsInt
  <2>7. Total(U, f) + Total(U, e) <= Total(U, g) + Total(U, h)
    BY <2>1, <2>3
  <2> HIDE DEF U
  <2>8. QED
    BY <2>1, <2>2, <2>3, <2>4, <2>6, <2>7
<1>2. QED
  BY <1>1

LEMMA TotalsAgree ==
  ASSUME NEW S, IsFiniteSet(S), NEW f, NEW g, \A x \in S : f[x] \in Int /\ f[x] = g[x]
  PROVE  Total(S, f) = Total(S, g)
<1> DEFINE zero == [x \in S |-> 0]
<1>1. Total(S, zero) = 0
  BY TotalOfZeros
<1>2. Total(S, f) \in Int /\ Total(S, g) \in Int
  BY TotalIsInt
<1>3. Total(S, f) + Total(S, zero) <= Total(S, g) + Total(S, zero)
  <2>1. \A x \in S : /\ f[x] \in Int /\ g[x] \in Int /\ zero[x] \in Int
                     /\ f[x] + zero[x] <= g[x] + zero[x]
    OBVIOUS
  <2> HIDE DEF zero
  <2>2. QED
    BY <2>1, TotalsCompare
<1>4. Total(S, g) + Total(S, zero) <= Total(S, f) + Total(S, zero)
  <2>1. \A x \in S : /\ f[x] \in Int /\ g[x] \in Int /\ zero[x] \in Int
                     /\ g[x] + zero[x] <= f[x] + zero[x]
    OBVIOUS
  <2> HIDE DEF zero
  <2>2. QED
    BY <2>1, TotalsCompare
<1> HIDE DEF zero
<1>5. QED
  BY <1>1, <1>2, <1>3, <1>4

\* A step at one element moves a total by what it changes there.
LEMMA TotalMoves ==
  ASSUME NEW S, IsFiniteSet(S), NEW f, NEW g, NEW x \in S,
         \A y \in S : f[y] \in Int /\ g[y] \in Int /\ (y # x => f[y] = g[y])
  PROVE  Total(S, g) = Total(S, f) - f[x] + g[x]
<1>1. IsFiniteSet(S \ {x})
  BY FS_Subset
<1>2. Total(S \ {x}, f) = Total(S \ {x}, g)
  BY <1>1, TotalsAgree
<1>3. Total(S, f) = f[x] + Total(S \ {x}, f) /\ Total(S, g) = g[x] + Total(S \ {x}, g)
  BY TotalWithout
<1>4. Total(S \ {x}, f) \in Int /\ f[x] \in Int /\ g[x] \in Int
  BY <1>1, TotalIsInt
<1>5. QED
  BY <1>2, <1>3, <1>4

\* The total over a part is the total over the whole of what counts only there.
Within(U, S, f) == [x \in S |-> IF x \in U THEN f[x] ELSE 0]

LEMMA TotalWithin ==
  ASSUME NEW S, IsFiniteSet(S), NEW f, \A x \in S : f[x] \in Int, NEW U \in SUBSET S
  PROVE  Total(U, f) = Total(S, Within(U, S, f))
<1> DEFINE m   == Within(U, S, f)
           Bad == {T \in SUBSET S : Total(T \cap U, f) # Total(T, m)}
<1>0. \A x \in S : m[x] \in Int /\ m[x] = IF x \in U THEN f[x] ELSE 0
  BY DEF Within
<1> HIDE DEF m
<1>1. ASSUME Bad # {}
      PROVE  FALSE
  <2>0. Bad \in SUBSET (SUBSET S)
    OBVIOUS
  <2>1. PICK T \in Bad : \A V \in SUBSET T : V # T => V \notin Bad
    <3> HIDE DEF Bad
    <3> QED
      BY <1>1, <2>0, SmallestSet
  <2>2. T \in SUBSET S /\ IsFiniteSet(T) /\ IsFiniteSet(T \cap U)
    BY <2>1, FS_Subset
  <2>3. PICK x \in T : TRUE
    <3>1. Total({}, f) = 0 /\ Total({}, m) = 0 /\ {} \cap U = {}
      BY TotalOfEmpty
    <3>2. T # {}
      BY <2>1, <3>1
    <3>3. QED
      BY <3>2
  <2>4. Total(T, m) = m[x] + Total(T \ {x}, m)
    BY <1>0, <2>2, <2>3, TotalWithout
  <2>5. Total((T \ {x}) \cap U, f) = Total(T \ {x}, m)
    BY <2>1, <2>2, <2>3
  <2>6. CASE x \in U
    <3>1. Total(T \cap U, f) = f[x] + Total((T \cap U) \ {x}, f)
      BY <2>2, <2>3, <2>6, TotalWithout
    <3>2. (T \cap U) \ {x} = (T \ {x}) \cap U
      OBVIOUS
    <3>3. m[x] = f[x]
      BY <1>0, <2>2, <2>3, <2>6
    <3>4. QED
      BY <2>1, <2>4, <2>5, <3>1, <3>2, <3>3
  <2>7. CASE x \notin U
    <3>1. T \cap U = (T \ {x}) \cap U
      BY <2>7
    <3>2. m[x] = 0
      BY <1>0, <2>2, <2>3, <2>7
    <3>3. Total(T \ {x}, m) \in Int
      BY <1>0, <2>2, FS_Subset, TotalIsInt
    <3>4. QED
      BY <2>1, <2>4, <2>5, <3>1, <3>2, <3>3
  <2>8. QED
    BY <2>6, <2>7
<1>2. S \cap U = U
  OBVIOUS
<1>3. Total(S \cap U, f) = Total(S, m)
  BY <1>1
<1>4. QED
  BY <1>2, <1>3 DEF m

\* A larger part, of no less, has no smaller total.
LEMMA TotalsGrow ==
  ASSUME NEW S, IsFiniteSet(S), NEW f, NEW g, NEW U \in SUBSET S, NEW V \in SUBSET S,
         \A x \in S : f[x] \in Nat /\ g[x] \in Nat /\ (x \in U => x \in V /\ f[x] <= g[x])
  PROVE  Total(U, f) <= Total(V, g)
<1> DEFINE zero == [x \in S |-> 0]
           p    == Within(U, S, f)
           q    == Within(V, S, g)
<1>1. Total(U, f) = Total(S, p) /\ Total(V, g) = Total(S, q) /\ Total(S, zero) = 0
  BY TotalWithin, TotalOfZeros
<1>2. \A x \in S : /\ p[x] \in Int /\ q[x] \in Int /\ zero[x] \in Int
                   /\ p[x] + zero[x] <= q[x] + zero[x]
  BY DEF Within
<1> HIDE DEF zero, p, q
<1>3. Total(S, p) \in Int /\ Total(S, q) \in Int
  BY <1>2, TotalIsInt
<1>4. Total(S, p) + Total(S, zero) <= Total(S, q) + Total(S, zero)
  BY <1>2, TotalsCompare
<1>5. QED
  BY <1>1, <1>3, <1>4

------------------------------------------------------------------------------
(* The admission of sessions.                                              *)

StagedRow == [state: {"absent", "uploading", "completing", "closed"}, owner: Owners \cup {"none"},
              size: Nat, files: Nat, cleared: Nat, temps: Nat, assembled: BOOLEAN]
AdmitRow  == [pc: {"idle", "sum", "insert"}, owner: Owners \cup {"none"}, size: Nat,
              received: Int, reserved: Int]

QuotaTyped == /\ staged \in [Tickets -> StagedRow]
              /\ kept \in Nat
              /\ admit \in [Admitters -> AdmitRow]
              /\ torn \in BOOLEAN

IsOpen(r) == r.state \in {"uploading", "completing"}

\* Only an open session has a size, and its parts are within it.
StagedOk(r) ==
  /\ IsOpen(r) => r.files <= r.size
  /\ ~IsOpen(r) => r.size = 0
  /\ r.state = "absent" => r.files = 0 /\ r.cleared = 0 /\ r.temps = 0
  /\ r.assembled => r.state = "completing"

\* What a session may grow to, and how much of that is still to come.
Need(r) == IF IsOpen(r) THEN 2 * r.size ELSE r.files
Rest(r)  == IF IsOpen(r) THEN 2 * r.size - r.files ELSE 0
Needs == [t \in Tickets |-> Need(staged[t])]
Rests  == [t \in Tickets |-> Rest(staged[t])]

Admitting(a) == admit[a].pc # "idle"

\* What create_upload_session() has read errs on the safe side, as long as no session closes
\* between its two sums.
AdmissionOk(a) ==
  /\ Admitting(a) => /\ admit[a].owner \in Owners /\ admit[a].size \in Sizes
                     /\ WithinLimits(admit[a].owner, admit[a].size)
  /\ ~torn /\ admit[a].pc = "sum" => admit[a].received <= Total(Open, Files)
  /\ ~torn /\ admit[a].pc = "insert" =>
       Total(Tickets, Rests) <= 2 * admit[a].reserved - admit[a].received

LimitsKept ==
  \A o \in Owners : /\ Cardinality(OpenOf(o)) <= ActiveLimit
                    /\ Total(OpenOf(o), Size) <= StagedLimit

\* Whatever the sessions grow to, the reserve stays free.
NeedsFit == torn \/ MinFree + Total(Tickets, Needs) <= Capacity - kept

QuotaInv == /\ QuotaTyped
            /\ \A t \in Tickets : StagedOk(staged[t])
            /\ \A a \in Admitters : AdmissionOk(a)
            /\ \A a, b \in Admitters : Admitting(a) /\ Admitting(b) => a = b
            /\ LimitsKept /\ NeedsFit

\* A step of one session that claims no more, be it while it grows or when it closes.
SpaceStep(t) ==
  /\ staged' \in [Tickets -> StagedRow] /\ kept' \in Nat /\ torn' \in BOOLEAN
  /\ StagedOk(staged'[t])
  /\ \A s \in Tickets \ {t} : staged'[s] = staged[s]
  /\ torn => torn'
  /\ admit' = admit
  /\ IsOpen(staged'[t]) => /\ IsOpen(staged[t]) /\ staged'[t].owner = staged[t].owner
                           /\ staged'[t].size = staged[t].size
  /\ Rest(staged'[t]) <= Rest(staged[t])
  /\ kept' + Need(staged'[t]) <= kept + Need(staged[t])
  /\ IsOpen(staged[t]) /\ (\E a \in Admitters : admit[a].pc = "sum") =>
       torn' \/ (IsOpen(staged'[t]) /\ staged[t].files <= staged'[t].files)

LEMMA OpenSessions ==
  /\ Open = {t \in Tickets : IsOpen(staged[t])}
  /\ Open \subseteq Tickets /\ IsFiniteSet(Open) /\ IsFiniteSet(Tickets)
  /\ \A o : OpenOf(o) \subseteq Open /\ IsFiniteSet(OpenOf(o)) /\ Cardinality(OpenOf(o)) \in Nat
<1>1. Open = {t \in Tickets : IsOpen(staged[t])} /\ Open \subseteq Tickets
  BY DEF Open, IsOpen
<1>2. IsFiniteSet(Open) /\ IsFiniteSet(Tickets)
  BY <1>1, QuotaConstants, FS_Subset
<1>3. ASSUME NEW o
      PROVE  OpenOf(o) \subseteq Open /\ IsFiniteSet(OpenOf(o)) /\ Cardinality(OpenOf(o)) \in Nat
  <2>1. OpenOf(o) \subseteq Open
    BY DEF OpenOf
  <2>2. QED
    BY <1>2, <2>1, FS_Subset, FS_CardinalityType
<1>4. QED
  BY <1>1, <1>2, <1>3

\* What is added up are numbers.
Countable == QuotaTyped /\ \A t \in Tickets : StagedOk(staged[t])
Counted ==
  /\ \A t \in Tickets : /\ Size[t] = staged[t].size /\ Size[t] \in Nat
                        /\ Files[t] = staged[t].files /\ Files[t] \in Nat
                        /\ Needs[t] = Need(staged[t]) /\ Needs[t] \in Nat
                        /\ Rests[t] = Rest(staged[t]) /\ Rests[t] \in Nat
  /\ Total(Tickets, Needs) \in Int /\ Total(Tickets, Rests) \in Int
  /\ \A U \in SUBSET Tickets : Total(U, Size) \in Int /\ Total(U, Files) \in Int

LEMMA RowsCount == Countable => Counted
<1> SUFFICES ASSUME Countable
             PROVE  Counted
  OBVIOUS
<1>1. \A t \in Tickets : /\ staged[t] \in StagedRow
                         /\ staged[t].size \in Nat /\ staged[t].files \in Nat
  BY DEF Countable, QuotaTyped, StagedRow
<1>2. \A t \in Tickets : /\ Size[t] = staged[t].size /\ Size[t] \in Nat
                         /\ Files[t] = staged[t].files /\ Files[t] \in Nat
  BY <1>1 DEF Size, Files
<1>3. \A t \in Tickets : Needs[t] = Need(staged[t]) /\ Needs[t] \in Nat
  BY <1>1 DEF Needs, Need
<1>4. \A t \in Tickets : Rests[t] = Rest(staged[t]) /\ Rests[t] \in Nat
  BY <1>1 DEF Countable, Rests, Rest, StagedOk
<1>5. Total(Tickets, Needs) \in Int /\ Total(Tickets, Rests) \in Int
  BY <1>3, <1>4, OpenSessions, TotalIsInt
<1>6. ASSUME NEW U \in SUBSET Tickets
      PROVE  Total(U, Size) \in Int /\ Total(U, Files) \in Int
  <2>1. IsFiniteSet(U) /\ \A t \in U : Size[t] \in Int /\ Files[t] \in Int
    BY <1>2, OpenSessions, FS_Subset
  <2>2. QED
    BY <2>1, TotalIsInt
<1>7. QED
  BY <1>2, <1>3, <1>4, <1>5, <1>6 DEF Counted

\* While sessions only close, a user who is within the limits stays so.
LEMMA LimitsStay ==
  ASSUME QuotaTyped, QuotaTyped', \A t \in Tickets : StagedOk(staged[t]) /\ StagedOk(staged[t])',
         \A t \in Tickets : IsOpen(staged'[t]) => /\ IsOpen(staged[t])
                                                  /\ staged'[t].owner = staged[t].owner
                                                  /\ staged'[t].size = staged[t].size
  PROVE  \A o : /\ Cardinality(OpenOf(o))' <= Cardinality(OpenOf(o))
                /\ Total(OpenOf(o), Size)' <= Total(OpenOf(o), Size)
<1> SUFFICES ASSUME NEW o
             PROVE  /\ Cardinality(OpenOf(o)') <= Cardinality(OpenOf(o))
                    /\ Total(OpenOf(o)', Size') <= Total(OpenOf(o), Size)
  BY DEF Total
<1>1. OpenOf(o)' \subseteq OpenOf(o) /\ OpenOf(o) \subseteq Tickets
  BY DEF OpenOf, Open, IsOpen
<1>2. Cardinality(OpenOf(o)') <= Cardinality(OpenOf(o))
  BY <1>1, OpenSessions, FS_Subset
<1>3. \A t \in Tickets : /\ Size[t] = staged[t].size /\ Size[t] \in Nat
                         /\ Size'[t] = staged'[t].size /\ Size'[t] \in Nat
  BY DEF Size, QuotaTyped, StagedRow
<1>4. \A t \in Tickets : t \in OpenOf(o)' => t \in OpenOf(o) /\ Size'[t] <= Size[t]
  BY <1>1, <1>3 DEF OpenOf, Open, IsOpen
<1>5. IsFiniteSet(Tickets) /\ OpenOf(o)' \in SUBSET Tickets /\ OpenOf(o) \in SUBSET Tickets
  BY <1>1, OpenSessions
<1>6. Total(OpenOf(o)', Size') <= Total(OpenOf(o), Size)
  BY <1>3, <1>4, <1>5, TotalsGrow
<1>7. QED
  BY <1>2, <1>6

LEMMA SpaceRule ==
  ASSUME QuotaInv, NEW t \in Tickets, SpaceStep(t)
  PROVE  QuotaInv'
<1> DEFINE r == staged[t]
           q == staged'[t]
<1>1. QuotaTyped'
  BY DEF QuotaInv, QuotaTyped, SpaceStep
<1>2. \A s \in Tickets : StagedOk(staged[s])'
  BY DEF QuotaInv, SpaceStep, StagedOk, IsOpen
<1>3. \A s \in Tickets : IsOpen(staged'[s]) => /\ IsOpen(staged[s])
                                               /\ staged'[s].owner = staged[s].owner
                                               /\ staged'[s].size = staged[s].size
  BY DEF SpaceStep
<1>4. \A o : /\ Cardinality(OpenOf(o))' <= Cardinality(OpenOf(o))
             /\ Total(OpenOf(o), Size)' <= Total(OpenOf(o), Size)
  BY <1>1, <1>2, <1>3, LimitsStay DEF QuotaInv
<1>5. Countable /\ Countable'
  BY <1>1, <1>2 DEF QuotaInv, Countable
<1>6. Counted
  BY <1>5, RowsCount
<1>7. Counted'
  BY <1>5, RowsCount, PTL
<1>8. IsFiniteSet(Tickets)
  BY OpenSessions
<1>9. /\ Total(Tickets, Needs') = Total(Tickets, Needs) - Need(r) + Need(q)
      /\ Total(Tickets, Rests') <= Total(Tickets, Rests)
  <2>1. \A s \in Tickets : /\ Needs[s] \in Int /\ Needs'[s] \in Int
                           /\ (s # t => Needs[s] = Needs'[s])
    BY <1>6, <1>7 DEF Counted, SpaceStep
  <2>2. \A s \in Tickets : /\ Rests[s] \in Int /\ Rests'[s] \in Int
                           /\ (s # t => Rests[s] = Rests'[s])
    BY <1>6, <1>7 DEF Counted, SpaceStep
  <2>3. Total(Tickets, Needs') = Total(Tickets, Needs) - Needs[t] + Needs'[t]
    BY <1>8, <2>1, TotalMoves
  <2>4. Total(Tickets, Rests') = Total(Tickets, Rests) - Rests[t] + Rests'[t]
    BY <1>8, <2>2, TotalMoves
  <2>5. Rests'[t] <= Rests[t] /\ Needs[t] = Need(r) /\ Needs'[t] = Need(q)
    BY <1>6, <1>7 DEF Counted, SpaceStep
  <2>6. Total(Tickets, Rests) \in Int
    BY <1>6 DEF Counted
  <2>7. QED
    BY <2>2, <2>3, <2>4, <2>5, <2>6
<1>10. NeedsFit'
  <2>1. kept' + Need(q) <= kept + Need(r) /\ (torn => torn')
    BY DEF SpaceStep
  <2>2. torn \/ MinFree + Total(Tickets, Needs) <= Capacity - kept
    BY DEF QuotaInv, NeedsFit
  <2>3. kept \in Nat /\ kept' \in Nat /\ Need(q) \in Nat /\ Need(r) \in Nat
    BY <1>1, <1>5, <1>6, <1>7 DEF Countable, Counted, QuotaTyped
  <2>4. MinFree \in Nat /\ Capacity \in Nat
    BY QuotaConstants
  <2>5. torn' \/ MinFree + Total(Tickets, Needs') <= Capacity - kept'
    BY <1>6, <1>7, <1>9, <2>1, <2>2, <2>3, <2>4 DEF Counted
  <2>6. QED
    BY <2>5 DEF NeedsFit, Total
<1>11. LimitsKept'
  <2> SUFFICES ASSUME NEW o \in Owners
               PROVE  /\ Cardinality(OpenOf(o))' <= ActiveLimit
                      /\ Total(OpenOf(o), Size)' <= StagedLimit
    BY DEF LimitsKept
  <2>1. Cardinality(OpenOf(o)) <= ActiveLimit /\ Total(OpenOf(o), Size) <= StagedLimit
    BY DEF QuotaInv, LimitsKept
  <2>2. /\ Cardinality(OpenOf(o)) \in Nat /\ Cardinality(OpenOf(o)') \in Nat
        /\ Total(OpenOf(o), Size) \in Int /\ Total(OpenOf(o)', Size') \in Int
    <3>1. OpenOf(o) \in SUBSET Tickets /\ OpenOf(o)' \in SUBSET Tickets
      BY DEF OpenOf, Open
    <3>2. QED
      BY <1>6, <1>7, <1>8, <3>1, FS_Subset, FS_CardinalityType DEF Counted
  <2>3. /\ Cardinality(OpenOf(o)') <= Cardinality(OpenOf(o))
        /\ Total(OpenOf(o)', Size') <= Total(OpenOf(o), Size)
    BY <1>4 DEF Total
  <2>4. ActiveLimit \in Nat /\ StagedLimit \in Nat
    BY QuotaConstants
  <2>5. Cardinality(OpenOf(o)') <= ActiveLimit /\ Total(OpenOf(o)', Size') <= StagedLimit
    BY <2>1, <2>2, <2>3, <2>4
  <2>6. QED
    BY <2>5 DEF Total
<1>12. ASSUME NEW a \in Admitters
       PROVE  AdmissionOk(a)'
  <2> DEFINE o == admit[a].owner
             n == admit[a].size
  <2>1. admit' = admit /\ AdmissionOk(a) /\ admit[a] \in AdmitRow
    BY DEF QuotaInv, QuotaTyped, SpaceStep
  <2>2. n \in Nat /\ admit[a].received \in Int /\ admit[a].reserved \in Int
    BY <2>1 DEF AdmitRow
  <2>3. OpenOf(o) \in SUBSET Tickets /\ OpenOf(o)' \in SUBSET Tickets
        /\ Open \in SUBSET Tickets /\ Open' \in SUBSET Tickets
    BY DEF OpenOf, Open
  <2>4. ASSUME Admitting(a)
        PROVE  WithinLimits(o, n)'
    <3>1. Cardinality(OpenOf(o)) < ActiveLimit /\ Total(OpenOf(o), Size) + n <= StagedLimit
      BY <2>1, <2>4 DEF AdmissionOk, WithinLimits
    <3>2. /\ Cardinality(OpenOf(o)) \in Nat /\ Cardinality(OpenOf(o)') \in Nat
          /\ Total(OpenOf(o), Size) \in Int /\ Total(OpenOf(o)', Size') \in Int
      BY <1>6, <1>7, <1>8, <2>3, FS_Subset, FS_CardinalityType DEF Counted
    <3>3. /\ Cardinality(OpenOf(o)') <= Cardinality(OpenOf(o))
          /\ Total(OpenOf(o)', Size') <= Total(OpenOf(o), Size)
      BY <1>4, <2>1 DEF Total
    <3>4. ActiveLimit \in Nat /\ StagedLimit \in Nat
      BY QuotaConstants
    <3>5. Cardinality(OpenOf(o)') < ActiveLimit /\ Total(OpenOf(o)', Size') + n <= StagedLimit
      BY <2>2, <3>1, <3>2, <3>3, <3>4
    <3>6. QED
      BY <2>1, <3>5 DEF WithinLimits, Total
  <2>5. ASSUME ~torn', admit[a].pc = "sum"
        PROVE  admit[a].received <= Total(Open', Files')
    <3>1. ~torn
      BY <2>5 DEF SpaceStep
    <3>2. admit[a].received <= Total(Open, Files)
      BY <2>1, <2>5, <3>1 DEF AdmissionOk
    <3>3. \A s \in Tickets : /\ Files[s] \in Nat /\ Files'[s] \in Nat
                             /\ (s \in Open => s \in Open' /\ Files[s] <= Files'[s])
      BY <1>6, <1>7, <2>5 DEF Counted, SpaceStep, Open, IsOpen
    <3>4. Total(Open, Files) <= Total(Open', Files')
      BY <1>8, <2>3, <3>3, TotalsGrow
    <3>5. Total(Open, Files) \in Int /\ Total(Open', Files') \in Int
      BY <1>6, <1>7, <2>3 DEF Counted
    <3>6. QED
      BY <2>2, <3>2, <3>4, <3>5
  <2>6. ASSUME ~torn', admit[a].pc = "insert"
        PROVE  Total(Tickets, Rests') <= 2 * admit[a].reserved - admit[a].received
    <3>1. Total(Tickets, Rests) <= 2 * admit[a].reserved - admit[a].received
      BY <2>1, <2>6 DEF AdmissionOk, SpaceStep
    <3>2. QED
      BY <1>6, <1>7, <1>9, <2>2, <3>1 DEF Counted
  <2>7. QED
    BY <2>1, <2>4, <2>5, <2>6 DEF AdmissionOk, Admitting, Total
<1>13. \A a, b \in Admitters : Admitting(a)' /\ Admitting(b)' => a = b
  BY DEF QuotaInv, SpaceStep, Admitting
<1>14. QED
  BY <1>1, <1>2, <1>10, <1>11, <1>12, <1>13 DEF QuotaInv

\* The steps of an open or closed session.
LEMMA SpaceSteps ==
  ASSUME QuotaInv, NEW t \in Tickets,
         \/ ClearPart(t) \/ WritePart(t) \/ PlacePart(t) \/ ClaimStaged(t) \/ AssembleStaged(t)
         \/ AbandonStaged(t) \/ RegisterStaged(t) \/ CloseStaged(t) \/ WipeStaged(t)
  PROVE  SpaceStep(t)
<1> DEFINE r == staged[t]
<1>1. /\ staged \in [Tickets -> StagedRow] /\ kept \in Nat /\ torn \in BOOLEAN
      /\ r \in StagedRow /\ StagedOk(r)
      /\ r.size \in Nat /\ r.files \in Nat /\ r.cleared \in Nat /\ r.temps \in Nat
  BY DEF QuotaInv, QuotaTyped, StagedRow
<1>2. CASE ClearPart(t)
  BY <1>1, <1>2 DEF ClearPart, SpaceStep, StagedRow, StagedOk, IsOpen, Need, Rest
<1>3. CASE WritePart(t)
  BY <1>1, <1>3 DEF WritePart, SpaceStep, StagedRow, StagedOk, IsOpen, Need, Rest
<1>4. CASE PlacePart(t)
  BY <1>1, <1>4 DEF PlacePart, SpaceStep, StagedRow, StagedOk, IsOpen, Need, Rest
<1>5. CASE ClaimStaged(t)
  BY <1>1, <1>5 DEF ClaimStaged, SpaceStep, StagedRow, StagedOk, IsOpen, Need, Rest
<1>6. CASE AssembleStaged(t)
  <2>1. /\ staged' \in [Tickets -> StagedRow]
        /\ staged'[t] = [r EXCEPT !.assembled = TRUE]
        /\ \A s \in Tickets \ {t} : staged'[s] = staged[s]
    BY <1>1, <1>6 DEF AssembleStaged, StagedRow
  <2>2. /\ StagedOk(staged'[t]) /\ Rest(staged'[t]) <= Rest(r) /\ Need(staged'[t]) <= Need(r)
    BY <1>1, <1>6, <2>1 DEF AssembleStaged, StagedRow, StagedOk, IsOpen, Need, Rest
  <2>3. QED
    BY <1>1, <1>6, <2>1, <2>2 DEF AssembleStaged, SpaceStep, StagedRow, IsOpen, Need
<1>7. CASE AbandonStaged(t)
  <2>1. /\ staged' \in [Tickets -> StagedRow]
        /\ staged'[t] = [r EXCEPT !.state = "uploading", !.assembled = FALSE]
        /\ \A s \in Tickets \ {t} : staged'[s] = staged[s]
    BY <1>1, <1>7 DEF AbandonStaged, StagedRow
  <2>2. /\ StagedOk(staged'[t]) /\ Rest(staged'[t]) <= Rest(r) /\ Need(staged'[t]) <= Need(r)
    BY <1>1, <1>7, <2>1 DEF AbandonStaged, StagedRow, StagedOk, IsOpen, Need, Rest
  <2>3. QED
    BY <1>1, <1>7, <2>1, <2>2 DEF AbandonStaged, SpaceStep, StagedRow, IsOpen, Need
<1>8. CASE RegisterStaged(t)
  BY <1>1, <1>8 DEF RegisterStaged, Shuts, SpaceStep, StagedRow, StagedOk, IsOpen, Need, Rest
<1>9. CASE CloseStaged(t)
  <2>1. /\ staged' \in [Tickets -> StagedRow]
        /\ staged'[t] = [r EXCEPT !.state = "closed", !.owner = "none", !.size = 0,
                             !.assembled = FALSE]
        /\ \A s \in Tickets \ {t} : staged'[s] = staged[s]
    BY <1>1, <1>9 DEF CloseStaged, Shuts, StagedRow
  <2>2. /\ StagedOk(staged'[t]) /\ Rest(staged'[t]) <= Rest(r) /\ Need(staged'[t]) <= Need(r)
    BY <1>1, <1>9, <2>1 DEF CloseStaged, StagedRow, StagedOk, IsOpen, Need, Rest
  <2>3. /\ torn' \in BOOLEAN /\ (torn => torn') /\ admit' = admit /\ kept' = kept
        /\ (\E a \in Admitters : admit[a].pc = "sum") => torn'
    BY <1>1, <1>9 DEF CloseStaged, Shuts
  <2>4. ~IsOpen(staged'[t])
    BY <2>1 DEF IsOpen
  <2>5. kept' + Need(staged'[t]) <= kept + Need(staged[t])
    <3>1. Need(staged'[t]) \in Nat /\ Need(r) \in Nat
      BY <1>1, <2>1 DEF Need, StagedRow
    <3>2. QED
      BY <1>1, <2>2, <2>3, <3>1
  <2>6. QED
    BY <1>1, <2>1, <2>2, <2>3, <2>4, <2>5 DEF SpaceStep
<1>10. CASE WipeStaged(t)
  BY <1>1, <1>10 DEF WipeStaged, SpaceStep, StagedRow, StagedOk, IsOpen, Need, Rest
<1>11. QED
  BY <1>2, <1>3, <1>4, <1>5, <1>6, <1>7, <1>8, <1>9, <1>10

\* An admission reads while the sessions stay as they are.
LEMMA AskKeepsInv ==
  ASSUME QuotaInv, NEW a \in Admitters, Ask(a)
  PROVE  QuotaInv'
<1>1. /\ UNCHANGED <<staged, kept, torn>> /\ \A b \in Admitters : ~Admitting(b)
      /\ admit \in [Admitters -> AdmitRow]
  BY DEF Ask, QuotaInv, QuotaTyped, Admitting
<1>2. PICK o \in Owners, n \in Sizes :
        /\ WithinLimits(o, n)
        /\ admit' = [admit EXCEPT ![a] = [pc |-> "sum", owner |-> o, size |-> n,
                                          received |-> Total(Open, Files), reserved |-> 0]]
  BY DEF Ask
<1>3. Open \in SUBSET Tickets /\ Total(Open, Files) \in Int
  BY OpenSessions, RowsCount DEF QuotaInv, Countable, Counted
<1>4. admit' \in [Admitters -> AdmitRow] /\ \A b \in Admitters \ {a} : admit'[b] = admit[b]
  BY <1>1, <1>2, <1>3, QuotaConstants DEF AdmitRow
<1>5. /\ Open' = Open /\ Files' = Files /\ Size' = Size /\ Needs' = Needs /\ Rests' = Rests
      /\ \A p : OpenOf(p)' = OpenOf(p)
  BY <1>1 DEF Open, OpenOf, Files, Size, Needs, Rests
<1>6. ASSUME NEW b \in Admitters
      PROVE  AdmissionOk(b)'
  <2>1. CASE b = a
    <3>1. /\ admit'[a].pc = "sum" /\ admit'[a].owner = o /\ admit'[a].size = n
          /\ admit'[a].received = Total(Open, Files)
      BY <1>1, <1>2
    <3>2. QED
      BY <1>2, <1>3, <1>5, <2>1, <3>1 DEF AdmissionOk, Admitting, WithinLimits, Total
  <2>2. CASE b # a
    BY <1>1, <1>4, <2>2 DEF AdmissionOk, Admitting
  <2>3. QED
    BY <2>1, <2>2
<1>7. LimitsKept' /\ NeedsFit'
  BY <1>1, <1>5 DEF QuotaInv, LimitsKept, NeedsFit, Total
<1>8. QED
  BY <1>1, <1>4, <1>6, <1>7 DEF QuotaInv, QuotaTyped, Admitting

LEMMA SumKeepsInv ==
  ASSUME QuotaInv, NEW a \in Admitters, SumReserved(a)
  PROVE  QuotaInv'
<1>1. /\ UNCHANGED <<staged, kept, torn>> /\ admit[a].pc = "sum"
      /\ admit' = [admit EXCEPT ![a].pc = "insert", ![a].reserved = Total(Open, Size)]
      /\ admit \in [Admitters -> AdmitRow] /\ AdmissionOk(a)
  BY DEF SumReserved, QuotaInv, QuotaTyped
<1>2. Counted /\ Open \in SUBSET Tickets /\ IsFiniteSet(Tickets)
  BY OpenSessions, RowsCount DEF QuotaInv, Countable
<1>3. /\ Total(Open, Size) \in Int /\ Total(Open, Files) \in Int
      /\ Total(Tickets, Rests) \in Int /\ admit[a].received \in Int
  BY <1>1, <1>2 DEF Counted, AdmitRow
<1>4. admit' \in [Admitters -> AdmitRow] /\ \A b \in Admitters \ {a} : admit'[b] = admit[b]
  BY <1>1, <1>3 DEF AdmitRow
<1>5. /\ Open' = Open /\ Files' = Files /\ Size' = Size /\ Needs' = Needs /\ Rests' = Rests
      /\ \A p : OpenOf(p)' = OpenOf(p)
  BY <1>1 DEF Open, OpenOf, Files, Size, Needs, Rests
<1>6. Total(Tickets, Rests) + Total(Open, Files) <= Total(Open, Size) + Total(Open, Size)
  <2> DEFINE f == Within(Open, Tickets, Files)
             g == Within(Open, Tickets, Size)
  <2>1. /\ \A t \in Tickets : Size[t] \in Int /\ Files[t] \in Int
        /\ Total(Open, Files) = Total(Tickets, f) /\ Total(Open, Size) = Total(Tickets, g)
    <3>1. \A t \in Tickets : Size[t] \in Int /\ Files[t] \in Int
      BY <1>2 DEF Counted
    <3>2. QED
      BY <1>2, <3>1, TotalWithin
  <2>2. \A t \in Tickets : /\ f[t] = (IF t \in Open THEN staged[t].files ELSE 0)
                           /\ g[t] = (IF t \in Open THEN staged[t].size ELSE 0)
                           /\ Rests[t] = (IF t \in Open THEN 2 * staged[t].size - staged[t].files
                                          ELSE 0)
                           /\ staged[t].files \in Int /\ staged[t].size \in Int
    BY <1>2 DEF Counted, Within, Rest, Open, IsOpen
  <2> HIDE DEF f, g
  <2>3. \A t \in Tickets : /\ f[t] \in Int /\ g[t] \in Int /\ Rests[t] \in Int
                           /\ Rests[t] + f[t] <= g[t] + g[t]
    BY <2>2
  <2>4. Total(Tickets, Rests) + Total(Tickets, f) <= Total(Tickets, g) + Total(Tickets, g)
    BY <1>2, <2>3, TotalsCompare
  <2>5. QED
    BY <2>1, <2>4
<1>7. ASSUME NEW b \in Admitters
      PROVE  AdmissionOk(b)'
  <2>1. CASE b = a
    <3>1. /\ admit'[a].pc = "insert" /\ admit'[a].owner = admit[a].owner
          /\ admit'[a].size = admit[a].size /\ admit'[a].received = admit[a].received
          /\ admit'[a].reserved = Total(Open, Size)
      BY <1>1 DEF AdmitRow
    <3>2. /\ admit[a].owner \in Owners /\ admit[a].size \in Sizes
          /\ WithinLimits(admit[a].owner, admit[a].size)
          /\ ~torn => admit[a].received <= Total(Open, Files)
      BY <1>1 DEF AdmissionOk, Admitting
    <3>3. ~torn => Total(Tickets, Rests) <= 2 * Total(Open, Size) - admit[a].received
      BY <1>3, <1>6, <3>2
    <3>4. WithinLimits(admit[a].owner, admit[a].size)'
      BY <1>5, <3>1, <3>2 DEF WithinLimits, Total
    <3>5. QED
      BY <1>1, <1>5, <2>1, <3>1, <3>2, <3>3, <3>4 DEF AdmissionOk, Admitting, Total
  <2>2. CASE b # a
    <3>1. AdmissionOk(b) /\ admit'[b] = admit[b]
      BY <1>4, <2>2 DEF QuotaInv
    <3>2. QED
      BY <1>1, <1>5, <3>1 DEF AdmissionOk, Admitting, WithinLimits, Total
  <2>3. QED
    BY <2>1, <2>2
<1>8. LimitsKept' /\ NeedsFit'
  BY <1>1, <1>5 DEF QuotaInv, LimitsKept, NeedsFit, Total
<1>9. \A b, c \in Admitters : Admitting(b)' /\ Admitting(c)' => b = c
  BY <1>1, <1>4 DEF QuotaInv, Admitting
<1>10. QED
  BY <1>1, <1>4, <1>7, <1>8, <1>9 DEF QuotaInv, QuotaTyped

\* The row of a new session: its reserve was checked against all that may still come.
LEMMA InsertKeepsInv ==
  ASSUME QuotaInv, NEW a \in Admitters, NEW t \in Tickets, Insert(a, t)
  PROVE  QuotaInv'
<1> DEFINE o   == admit[a].owner
           n   == admit[a].size
           new == [NoTicket EXCEPT !.state = "uploading", !.owner = o, !.size = n]
<1>1. /\ admit[a].pc = "insert" /\ staged[t].state = "absent" /\ UNCHANGED <<kept, torn>>
      /\ admit' = [admit EXCEPT ![a] = NoAdmission]
      /\ staged' = IF Fits(WorstCase(a)) THEN [staged EXCEPT ![t] = new] ELSE staged
  BY DEF Insert
<1>2. /\ QuotaTyped /\ AdmissionOk(a) /\ Counted /\ IsFiniteSet(Tickets)
      /\ staged \in [Tickets -> StagedRow] /\ admit \in [Admitters -> AdmitRow]
      /\ \A s \in Tickets : StagedOk(staged[s])
  BY OpenSessions, RowsCount DEF QuotaInv, QuotaTyped, Countable
<1>3. /\ o \in Owners /\ n \in Sizes /\ n \in Nat /\ WithinLimits(o, n)
      /\ admit[a].received \in Int /\ admit[a].reserved \in Int
  BY <1>1, <1>2, QuotaConstants DEF AdmissionOk, Admitting, AdmitRow
<1>4. /\ admit' \in [Admitters -> AdmitRow]
      /\ \A b \in Admitters : ~Admitting(b)'
  <2>1. NoAdmission \in AdmitRow
    BY DEF NoAdmission, AdmitRow
  <2>2. \A b \in Admitters \ {a} : ~Admitting(b)
    BY <1>1 DEF QuotaInv, Admitting
  <2>3. QED
    BY <1>1, <1>2, <2>1, <2>2 DEF Admitting, NoAdmission
<1>5. \A b \in Admitters : AdmissionOk(b)'
  BY <1>4 DEF AdmissionOk, Admitting
<1>6. CASE ~Fits(WorstCase(a))
  <2>1. UNCHANGED <<staged, kept, torn>>
    BY <1>1, <1>6
  <2>2. /\ Open' = Open /\ Size' = Size /\ Needs' = Needs /\ \A p : OpenOf(p)' = OpenOf(p)
    BY <2>1 DEF Open, OpenOf, Size, Needs
  <2>3. LimitsKept' /\ NeedsFit'
    BY <2>1, <2>2 DEF QuotaInv, LimitsKept, NeedsFit, Total
  <2>4. QED
    BY <1>2, <1>4, <1>5, <2>1, <2>3 DEF QuotaInv, QuotaTyped
<1>7. CASE Fits(WorstCase(a))
  <2>1. /\ staged' \in [Tickets -> StagedRow] /\ staged'[t] = new
        /\ \A s \in Tickets \ {t} : staged'[s] = staged[s]
        /\ new.state = "uploading" /\ new.owner = o /\ new.size = n /\ new.files = 0
        /\ ~new.assembled
    <3>1. new \in StagedRow
      BY <1>3 DEF NoTicket, StagedRow
    <3>2. QED
      BY <1>1, <1>2, <1>7, <3>1 DEF NoTicket
  <2>2. QuotaTyped' /\ \A s \in Tickets : StagedOk(staged[s])'
    <3>1. ASSUME NEW s \in Tickets
          PROVE  StagedOk(staged'[s])
      <4>1. CASE s = t
        <5>1. StagedOk(new)
          BY <1>3, <2>1 DEF StagedOk, IsOpen
        <5>2. QED
          BY <2>1, <4>1, <5>1
      <4>2. CASE s # t
        BY <1>2, <2>1, <4>2
      <4>3. QED
        BY <4>1, <4>2
    <3>2. QED
      BY <1>1, <1>2, <1>4, <2>1, <3>1 DEF QuotaTyped
  <2>3. Countable' /\ Counted'
    <3>1. Countable'
      BY <2>2 DEF Countable
    <3>2. QED
      BY <3>1, RowsCount, PTL
  <2>4. NeedsFit'
    <3> SUFFICES ASSUME ~torn
                 PROVE  MinFree + Total(Tickets, Needs') <= Capacity - kept
      BY <1>1 DEF NeedsFit, Total
    <3>1. Total(Tickets, Needs') = Total(Tickets, Needs) - Needs[t] + Needs'[t]
      <4>1. \A s \in Tickets : /\ Needs[s] \in Int /\ Needs'[s] \in Int
                               /\ (s # t => Needs[s] = Needs'[s])
        BY <1>2, <2>1, <2>3 DEF Counted
      <4>2. QED
        BY <1>2, <4>1, TotalMoves
    <3>2. Needs[t] = 0 /\ Needs'[t] = 2 * n
      BY <1>1, <1>2, <2>1, <2>3 DEF Counted, StagedOk, Need, IsOpen
    <3>3. Total(Tickets, Needs) <= Total(Tickets, Bytes) + Total(Tickets, Rests)
      <4> DEFINE zero == [s \in Tickets |-> 0]
      <4>1. Total(Tickets, zero) = 0
        BY <1>2, TotalOfZeros
      <4>2. \A s \in Tickets : /\ Needs[s] \in Int /\ zero[s] \in Int /\ Bytes[s] \in Int
                               /\ Rests[s] \in Int
                               /\ Needs[s] + zero[s] <= Bytes[s] + Rests[s]
        <5> SUFFICES ASSUME NEW s \in Tickets
                     PROVE  /\ Needs[s] \in Int /\ Bytes[s] \in Int /\ Rests[s] \in Int
                            /\ Needs[s] <= Bytes[s] + Rests[s]
          OBVIOUS
        <5>1. /\ staged[s].files \in Nat /\ staged[s].temps \in Nat /\ staged[s].size \in Nat
          BY <1>2 DEF StagedRow
        <5>2. Bytes[s] \in Int /\ Bytes[s] >= staged[s].files
          BY <5>1 DEF Bytes
        <5>3. /\ Needs[s] = Need(staged[s]) /\ Rests[s] = Rest(staged[s])
              /\ Needs[s] \in Int /\ Rests[s] \in Int
          BY <1>2 DEF Counted
        <5>4. QED
          BY <5>1, <5>2, <5>3 DEF Need, Rest
      <4> HIDE DEF zero
      <4>3. Total(Tickets, Needs) + Total(Tickets, zero)
              <= Total(Tickets, Bytes) + Total(Tickets, Rests)
        BY <1>2, <4>2, TotalsCompare
      <4>4. Total(Tickets, Needs) \in Int
        BY <1>2 DEF Counted
      <4>5. QED
        BY <4>1, <4>3, <4>4
    <3>4. Total(Tickets, Rests) <= 2 * admit[a].reserved - admit[a].received
      BY <1>1, <1>2 DEF AdmissionOk
    <3>5. /\ Capacity - kept - Total(Tickets, Bytes)
               - ((2 * admit[a].reserved - admit[a].received) + 2 * n) >= MinFree
      BY <1>7 DEF Fits, Free, WorstCase
    <3>6. /\ Total(Tickets, Needs) \in Int /\ Total(Tickets, Rests) \in Int
          /\ Total(Tickets, Bytes) \in Int
          /\ kept \in Int /\ Capacity \in Int /\ MinFree \in Int
      <4>1. \A s \in Tickets : Bytes[s] \in Int
        BY <1>2 DEF Bytes, StagedRow
      <4>2. Total(Tickets, Bytes) \in Int
        BY <1>2, <4>1, TotalIsInt
      <4>3. Total(Tickets, Needs) \in Int /\ Total(Tickets, Rests) \in Int
        BY <1>2 DEF Counted
      <4>4. kept \in Int /\ Capacity \in Int /\ MinFree \in Int
        BY <1>2, QuotaConstants DEF QuotaTyped
      <4>5. QED
        BY <4>2, <4>3, <4>4
    <3>7. QED
      BY <1>3, <3>1, <3>2, <3>3, <3>4, <3>5, <3>6
  <2>5. LimitsKept'
    <3> SUFFICES ASSUME NEW p \in Owners
                 PROVE  /\ Cardinality(OpenOf(p)') <= ActiveLimit
                        /\ Total(OpenOf(p)', Size') <= StagedLimit
      BY DEF LimitsKept, Total
    <3>1. /\ OpenOf(p) \in SUBSET Tickets /\ IsFiniteSet(OpenOf(p)) /\ t \notin OpenOf(p)
          /\ Cardinality(OpenOf(p)) \in Nat /\ Total(OpenOf(p), Size) \in Int
      BY <1>1, <1>2, OpenSessions DEF OpenOf, Open, Counted
    <3>2. OpenOf(p)' = IF p = o THEN OpenOf(p) \cup {t} ELSE OpenOf(p)
      BY <1>1, <2>1 DEF OpenOf, Open
    <3>3. Total(OpenOf(p), Size') = Total(OpenOf(p), Size)
      <4>1. \A s \in OpenOf(p) : Size[s] \in Int /\ Size[s] = Size'[s]
        BY <1>2, <2>1, <2>3, <3>1 DEF Counted
      <4>2. QED
        BY <3>1, <4>1, TotalsAgree
    <3>4. Cardinality(OpenOf(p)) <= ActiveLimit /\ Total(OpenOf(p), Size) <= StagedLimit
      BY DEF QuotaInv, LimitsKept
    <3>5. CASE p # o
      BY <3>2, <3>3, <3>4, <3>5
    <3>6. CASE p = o
      <4> DEFINE U == OpenOf(p) \cup {t}
      <4>1. Cardinality(U) = Cardinality(OpenOf(p)) + 1 /\ IsFiniteSet(U)
        BY <3>1, FS_AddElement
      <4>2. Total(U, Size') = Size'[t] + Total(U \ {t}, Size')
        <5>1. \A s \in U : Size'[s] \in Int
          BY <2>3, <3>1 DEF Counted
        <5>2. QED
          BY <4>1, <5>1, TotalWithout
      <4>3. U \ {t} = OpenOf(p) /\ Size'[t] = n
        BY <2>1, <2>3, <3>1 DEF Counted
      <4>4. Cardinality(OpenOf(p)) < ActiveLimit /\ Total(OpenOf(p), Size) + n <= StagedLimit
        BY <1>3, <3>6 DEF WithinLimits
      <4>5. OpenOf(p)' = U
        BY <3>2, <3>6
      <4> HIDE DEF U
      <4>6. Total(U, Size') = n + Total(OpenOf(p), Size)
        BY <3>3, <4>2, <4>3
      <4>7. Cardinality(U) <= ActiveLimit /\ Total(U, Size') <= StagedLimit
        <5>1. ActiveLimit \in Nat /\ StagedLimit \in Nat
          BY QuotaConstants
        <5>2. QED
          BY <1>3, <3>1, <4>1, <4>4, <4>6, <5>1
      <4>8. QED
        BY <4>5, <4>7
    <3>7. QED
      BY <3>5, <3>6
  <2>6. QED
    BY <1>4, <1>5, <2>2, <2>4, <2>5 DEF QuotaInv
<1>8. QED
  BY <1>6, <1>7

LEMMA InitQuotaInv == QuotaInit => QuotaInv
<1> SUFFICES ASSUME QuotaInit
             PROVE  QuotaInv
  OBVIOUS
<1>1. /\ staged = [t \in Tickets |-> NoTicket] /\ kept = 0 /\ torn = FALSE
      /\ admit = [a \in Admitters |-> NoAdmission]
  BY DEF QuotaInit
<1>2. NoTicket \in StagedRow /\ NoAdmission \in AdmitRow /\ StagedOk(NoTicket)
  BY DEF NoTicket, StagedRow, NoAdmission, AdmitRow, StagedOk, IsOpen
<1>3. QuotaTyped /\ \A t \in Tickets : StagedOk(staged[t])
  BY <1>1, <1>2 DEF QuotaTyped
<1>4. \A a \in Admitters : ~Admitting(a) /\ AdmissionOk(a)
  BY <1>1 DEF Admitting, AdmissionOk, NoAdmission
<1>5. LimitsKept
  <2>1. \A o : OpenOf(o) = {}
    BY <1>1 DEF OpenOf, Open, NoTicket
  <2>2. QED
    BY <2>1, TotalOfEmpty, FS_EmptySet, QuotaConstants DEF LimitsKept
<1>6. NeedsFit
  <2>1. \A t \in Tickets : Needs[t] = 0
    BY <1>1 DEF Needs, Need, NoTicket, IsOpen
  <2>2. Total(Tickets, Needs) = 0
    BY <2>1, OpenSessions, TotalOfZeros
  <2>3. QED
    BY <1>1, <2>2, QuotaConstants DEF NeedsFit
<1>7. QED
  BY <1>3, <1>4, <1>5, <1>6 DEF QuotaInv

LEMMA NextQuotaInv == QuotaInv /\ [QuotaNext]_quotaVars => QuotaInv'
<1> SUFFICES ASSUME QuotaInv, [QuotaNext]_quotaVars
             PROVE  QuotaInv'
  OBVIOUS
<1>1. CASE UNCHANGED quotaVars
  BY <1>1 DEF quotaVars, QuotaInv, QuotaTyped, Admitting, AdmissionOk, WithinLimits, LimitsKept,
     NeedsFit, Total, Needs, Rests, Open, OpenOf, Size, Files
<1>2. CASE \E a \in Admitters : Ask(a) \/ SumReserved(a) \/ \E t \in Tickets : Insert(a, t)
  BY <1>2, AskKeepsInv, SumKeepsInv, InsertKeepsInv
<1>3. CASE \E t \in Tickets : \/ ClearPart(t) \/ WritePart(t) \/ PlacePart(t) \/ ClaimStaged(t)
                              \/ AssembleStaged(t) \/ AbandonStaged(t) \/ RegisterStaged(t)
                              \/ CloseStaged(t) \/ WipeStaged(t)
  BY <1>3, SpaceSteps, SpaceRule
<1>4. QED
  BY <1>1, <1>2, <1>3 DEF QuotaNext

LEMMA NeedsSuffice == QuotaInv => AdmissionHolds
<1> SUFFICES ASSUME QuotaInv, ~torn
             PROVE  Free + Total(Tickets, Unreserved) >= MinFree
  BY DEF QuotaInv, LimitsKept, AdmissionHolds
<1> DEFINE zero == [t \in Tickets |-> 0]
<1>1. /\ staged \in [Tickets -> StagedRow] /\ \A t \in Tickets : StagedOk(staged[t])
      /\ Counted /\ IsFiniteSet(Tickets) /\ kept \in Nat
  BY OpenSessions, RowsCount DEF QuotaInv, QuotaTyped, Countable
<1>2. Total(Tickets, zero) = 0
  BY <1>1, TotalOfZeros
<1>3. \A t \in Tickets : /\ Bytes[t] \in Int /\ zero[t] \in Int /\ Needs[t] \in Int
                         /\ Unreserved[t] \in Int
                         /\ Bytes[t] + zero[t] <= Needs[t] + Unreserved[t]
  <2> SUFFICES ASSUME NEW t \in Tickets
               PROVE  /\ Bytes[t] \in Int /\ Needs[t] \in Int /\ Unreserved[t] \in Int
                      /\ Bytes[t] <= Needs[t] + Unreserved[t]
    OBVIOUS
  <2>1. /\ staged[t].files \in Nat /\ staged[t].temps \in Nat /\ staged[t].size \in Nat
        /\ StagedOk(staged[t])
    BY <1>1 DEF StagedRow
  <2>2. /\ Bytes[t] = staged[t].files + staged[t].temps
                      + (IF staged[t].assembled THEN staged[t].size ELSE 0)
        /\ Unreserved[t] = Excess(t) /\ Needs[t] = Need(staged[t])
    BY <1>1 DEF Bytes, Unreserved, Counted
  <2>3. Excess(t) = IF IsOpen(staged[t])
                    THEN IF staged[t].files + staged[t].temps > staged[t].size
                         THEN staged[t].files + staged[t].temps - staged[t].size ELSE 0
                    ELSE staged[t].temps
    BY DEF Excess, Open, IsOpen
  <2>4. CASE IsOpen(staged[t])
    BY <2>1, <2>2, <2>3, <2>4 DEF Need
  <2>5. CASE ~IsOpen(staged[t])
    <3>1. ~staged[t].assembled
      BY <2>1, <2>5 DEF StagedOk, IsOpen
    <3>2. QED
      BY <2>1, <2>2, <2>3, <2>5, <3>1 DEF Need
  <2>6. QED
    BY <2>4, <2>5
<1> HIDE DEF zero
<1>4. /\ Total(Tickets, Bytes) + Total(Tickets, zero)
           <= Total(Tickets, Needs) + Total(Tickets, Unreserved)
      /\ Total(Tickets, Bytes) \in Int /\ Total(Tickets, Needs) \in Int
      /\ Total(Tickets, Unreserved) \in Int
  BY <1>1, <1>3, TotalsCompare, TotalIsInt
<1>5. MinFree + Total(Tickets, Needs) <= Capacity - kept
  BY DEF QuotaInv, NeedsFit
<1>6. MinFree \in Int /\ Capacity \in Int
  BY QuotaConstants
<1>7. QED
  BY <1>1, <1>2, <1>4, <1>5, <1>6 DEF Free

\* Concurrent creations of sessions never pass the limits of a user, and what they admitted
\* never uses up the safety reserve, unless a session closed between the two sums of an
\* admission: create_upload_session() reads them under a lock other creations respect.
THEOREM AdmissionsFit == QuotaSpec => []AdmissionHolds
<1>1. QuotaInit => QuotaInv
  BY InitQuotaInv
<1>2. QuotaInv /\ [QuotaNext]_quotaVars => QuotaInv'
  BY NextQuotaInv
<1>3. QuotaInv => AdmissionHolds
  BY NeedsSuffice
<1>4. QED
  BY <1>1, <1>2, <1>3, PTL DEF QuotaSpec
==============================================================================
