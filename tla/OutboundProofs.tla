----------------------------- MODULE OutboundProofs -----------------------------
(***************************************************************************)
(* The outbound service for every number of transfers, workers, request    *)
(* threads, people and events, with any faults: the inductive invariant    *)
(* behind the properties of Outbound, and its refinement of                *)
(* TransferLifecycle.                                                      *)
(*                                                                         *)
(* Nothing locks a transfer, and several calls may be inside one release.  *)
(* What makes that safe is that each of them relies on facts that no step  *)
(* of anybody takes back; Onward lists them.  So a step has to show that   *)
(* its transfer goes onward, and to answer for its own thread only.        *)
(***************************************************************************)
EXTENDS Outbound, TLAPS

------------------------------------------------------------------------------
(* The inductive invariant.                                                *)

Undecided  == {"absent", "pending_scan", "scanning", "quarantined", "classified",
               "pending_approval"}
Decided    == {"approved", "approval_rejected", "released_to_green"}
Approvable == {"approved", "released_to_green", "expired"}
Decidable  == {"pending_approval", "approval_rejected"} \cup Approvable

Alive(t) == row[t].state # "expired"

\* In the green buffer, unless an exception made a clean-up remove it.
InBuffer(t) == file[t] = "green" \/ (glitches > 0 /\ file[t] = "none")

\* A row, its payload and its decider agree.
RowOk(t) ==
  /\ row[t].state \in Undecided => row[t].actor = Nobody
  /\ row[t].state \in Decided => row[t].actor \in Deciders
  /\ row[t].state \notin Approvable \cup {"absent"} => file[t] = "isolation"
  /\ row[t].state \notin {"absent", "expired"} => row[t].path # "none"
  /\ row[t].state = "absent" => row[t].path = "none"
  /\ Alive(t) /\ row[t].path = "green" => InBuffer(t)
  /\ row[t].state = "released_to_green" => row[t].path = "green"
  /\ row[t].state = "approved" /\ glitches = 0 => file[t] # "none"

HasEffect(e) ==
  row[e.on].state \in (IF e.approves THEN {"released_to_green", "expired"}
                       ELSE {"approval_rejected", "expired"})

Deciding  == {"lapse", "reject", "verify", "condemn", "approve"}
Releasing == {"release", "revoke", "locate", "move", "cleanup", "rmtree", "repath", "seal",
              "settle"}
Working   == {"dispatch"} \cup Deciding \cup Releasing
Ended     == {"done", "refused", "raised"}

\* Who may be where, and for which transfer.
RoleOk(c) ==
  /\ c = Sweeper => /\ caller[c].event = Nobody
                    /\ caller[c].pc \in {"idle"} \cup Releasing \cup Ended
  /\ c # Sweeper => /\ caller[c].pc \notin Ended
                    /\ ~CallAt(c, "idle") => caller[c].event \in Deciders
  /\ caller[c].pc \in Working => /\ Target(c) \in Transfers
                                 /\ caller[c].event \in Events =>
                                      caller[c].event.on = Target(c)
  /\ caller[c].pc \in {"dispatch", "processed", "error"} => caller[c].event \in Events

\* A call follows the decision its event carries, and reports what is so.
MeaningOk(c) ==
  /\ CallAt(c, "processed") => HasEffect(caller[c].event)
  /\ caller[c].event \in Events =>
       /\ CallAt(c, "reject") => ~caller[c].event.approves
       /\ caller[c].pc \in {"verify", "condemn", "approve"} \cup Releasing =>
            caller[c].event.approves

\* A decision is about a transfer that was pending; one that finds the payload gone is
\* late.
DecisionOk(c) ==
  /\ caller[c].pc \in Deciding => row[Target(c)].state \in Decidable
  /\ CallAt(c, "condemn") => row[Target(c)].state \in Approvable /\ file[Target(c)] # "isolation"

\* What each step of a release finds, as long as the transfer has not expired.
ReleaseOk(c) ==
  LET t == Target(c) IN
  /\ caller[c].pc \in Releasing => row[t].state \in Approvable /\ row[t].actor \in Deciders
  /\ CallAt(c, "locate") => caller[c].src \in {"isolation", "green"}
  /\ CallAt(c, "locate") /\ Alive(t) /\ caller[c].src = "green" => row[t].path = "green"
  /\ caller[c].pc \in {"locate", "move"} /\ Alive(t) /\ glitches = 0 => greenDir[t]
  /\ CallAt(c, "cleanup") /\ Alive(t) /\ glitches = 0 => file[t] = "green"
  /\ CallAt(c, "rmtree") /\ glitches = 0 => ~Alive(t)
  /\ CallAt(c, "repath") /\ Alive(t) => InBuffer(t)
  /\ caller[c].pc \in {"seal", "settle"} /\ Alive(t) => row[t].path = "green"

CallerOk(c) == RoleOk(c) /\ MeaningOk(c) /\ DecisionOk(c) /\ ReleaseOk(c)

ScannerOk(w) == ~ScanAt(w, "idle") => Scanned(w) \in Transfers

\* What the sweep releases was approved; what it purges has expired, and stays so.
MtOk ==
  /\ mt.pc = "release" => \A t \in mt.todo : /\ row[t].state \in Approvable
                                            /\ row[t].actor \in Deciders
  /\ mt.pc \in {"timing out", "expiring", "clear"} => mt.current \in Transfers
  /\ mt.pc \in {"purge", "clear"} => \A t \in mt.todo : ~Alive(t)
  /\ mt.pc = "clear" => ~Alive(mt.current)

Inv == /\ TypeOK
       /\ \A t \in Transfers : RowOk(t)
       /\ \A c \in Callers : CallerOk(c)
       /\ \A w \in Workers : ScannerOk(w)
       /\ MtOk
       /\ ProcessedEventsTakeEffect

------------------------------------------------------------------------------
(* The state's rows.                                                       *)

States  == {"absent", "pending_scan", "scanning", "quarantined", "classified",
            "pending_approval", "approved", "approval_rejected", "released_to_green",
            "expired"}
Row     == [state: States, path: Places, provider: Providers,
            approval: Providers \cup {"none"}, actor: Deciders \cup {Nobody}]
ScanPcs == {"idle", "judge", "hold", "classify", "create", "submit", "uncreated", "except",
            "failclosed"}
Scanner == [pc: ScanPcs, on: Transfers \cup {"none"}, provider: Providers \cup {"none"}]
Pcs     == {"idle", "dispatch", "lapse", "reject", "verify", "condemn", "approve",
            "release", "revoke", "locate", "move", "cleanup", "rmtree", "repath", "seal",
            "settle", "processed", "error", "done", "refused", "raised"}
Call    == [pc: Pcs, on: Transfers \cup {"none"}, event: Deciders \cup {Nobody}, src: Places]
Mt      == [pc: {"idle", "timeout", "timing out", "release", "expire", "expiring", "purge",
                 "clear"},
            todo: SUBSET Transfers, paths: [Transfers -> Places],
            current: Transfers \cup {"none"}, seen: States]

Rows == /\ policy \in [permits: BOOLEAN, provider: Providers]
        /\ row \in [Transfers -> Row]
        /\ file \in [Transfers -> Places]
        /\ greenDir \in [Transfers -> BOOLEAN]
        /\ late \in [Transfers -> BOOLEAN]
        /\ relay \in SUBSET Transfers
        /\ scanner \in [Workers -> Scanner]
        /\ caller \in [Callers -> Call]
        /\ events \in [Events -> {"none", "processing", "processed", "error"}]
        /\ mt \in Mt
        /\ boot \in [pc: {"serving", "down", "refused", "started", "recover"},
                     todo: SUBSET Transfers]
        /\ crashes \in 0..MaxFaults /\ glitches \in 0..MaxGlitches

LEMMA StatesAre == DOMAIN OUTBOUND_TRANSITIONS = States
BY DEF OUTBOUND_TRANSITIONS, States

\* TypeOK, with the rows named.
LEMMA RowsAreTypes == TypeOK <=> Rows
BY StatesAre DEF TypeOK, Rows, Row, Scanner, ScanPcs, Call, Pcs, Mt

LEMMA RowsAreTypesNext == TypeOK' <=> Rows'
BY StatesAre DEF TypeOK, Rows, Row, Scanner, ScanPcs, Call, Pcs, Mt

\* The published pipeline, state by state.
LEMMA Pipeline ==
  /\ OUTBOUND_TRANSITIONS["absent"] = {}
  /\ OUTBOUND_TRANSITIONS["pending_scan"] = {"scanning", "expired"}
  /\ OUTBOUND_TRANSITIONS["scanning"] = {"quarantined", "classified"}
  /\ OUTBOUND_TRANSITIONS["quarantined"] = {"pending_scan", "expired"}
  /\ OUTBOUND_TRANSITIONS["classified"] = {"pending_approval", "quarantined"}
  /\ OUTBOUND_TRANSITIONS["pending_approval"] = {"approved", "approval_rejected", "expired"}
  /\ OUTBOUND_TRANSITIONS["approved"] = {"released_to_green", "expired"}
  /\ OUTBOUND_TRANSITIONS["approval_rejected"] = {"expired"}
  /\ OUTBOUND_TRANSITIONS["released_to_green"] = {"expired"}
  /\ OUTBOUND_TRANSITIONS["expired"] = {}
BY DEF OUTBOUND_TRANSITIONS

\* Nobody is not a decider, and people are not events.
LEMMA NobodyDecides ==
  Nobody \notin Deciders /\ \A p \in Persons : p \notin Events
BY OutboundConstants DEF Deciders

------------------------------------------------------------------------------
(* What no step takes back.                                                *)

Onward(t) ==
  /\ row[t].state \in Decidable => row'[t].state \in Decidable
  /\ row[t].state \in Approvable => row'[t].state \in Approvable
  /\ row[t].state \in {"released_to_green", "expired"} =>
       row'[t].state \in {"released_to_green", "expired"}
  /\ row[t].state \in {"approval_rejected", "expired"} =>
       row'[t].state \in {"approval_rejected", "expired"}
  /\ row[t].state = "expired" => row'[t].state = "expired"
  /\ row[t].actor \in Deciders => row'[t].actor \in Deciders
  /\ Alive(t)' /\ row[t].path = "green" => row'[t].path = "green"
  /\ row[t].state \in Approvable =>
       /\ file[t] # "isolation" => file'[t] # "isolation"
       /\ Alive(t)' /\ InBuffer(t) => InBuffer(t)'
       /\ Alive(t)' /\ glitches' = 0 /\ file[t] = "green" => file'[t] = "green"
       /\ Alive(t)' /\ glitches' = 0 /\ greenDir[t] => greenDir'[t]

Progress == /\ \A t \in Transfers : Onward(t)
            /\ glitches' = 0 => glitches = 0

\* A processed event keeps its effect.
LEMMA EffectLasts ==
  ASSUME Progress, NEW e \in Events, HasEffect(e)
  PROVE  HasEffect(e)'
BY DEF Progress, Onward, HasEffect, Events

\* What a call relies on lasts while others move.
LEMMA CallerKept ==
  ASSUME Progress, NEW c \in Callers, CallerOk(c), caller'[c] = caller[c]
  PROVE  CallerOk(c)'
<1>1. RoleOk(c)'
  BY DEF CallerOk, RoleOk, CallAt, Target
<1>2. MeaningOk(c)'
  <2>1. ASSUME CallAt(c, "processed")
        PROVE  HasEffect(caller[c].event)'
    BY <2>1, EffectLasts DEF CallerOk, RoleOk, MeaningOk, CallAt
  <2>2. QED
    BY <2>1 DEF CallerOk, MeaningOk, CallAt, HasEffect
<1>3. ASSUME caller[c].pc \in Working
      PROVE  Onward(Target(c)) /\ Target(c)' = Target(c)
  BY <1>3 DEF CallerOk, RoleOk, Progress, Target
<1>4. DecisionOk(c)'
  BY <1>3 DEF CallerOk, DecisionOk, CallAt, Onward, Working, Deciding
<1>5. ReleaseOk(c)'
  <2>1. SUFFICES ASSUME caller[c].pc \in Releasing
                 PROVE  ReleaseOk(c)'
    BY DEF ReleaseOk, CallAt, Releasing
  <2>2. PICK t \in Transfers : t = Target(c) /\ Target(c)' = t /\ Onward(t)
    BY <1>3, <2>1 DEF Working, CallerOk, RoleOk
  <2>3. /\ row[t].state \in Approvable /\ row[t].actor \in Deciders
        /\ row'[t].state \in Approvable /\ row'[t].actor \in Deciders
        /\ Alive(t)' => Alive(t)
        /\ glitches' = 0 => glitches = 0
    BY <2>1, <2>2 DEF CallerOk, ReleaseOk, Onward, Alive, Progress
  <2>4. CASE caller[c].pc \in {"release", "revoke"}
    BY <2>2, <2>3, <2>4 DEF ReleaseOk, CallAt
  <2>5. CASE caller[c].pc \in {"locate", "move"}
    BY <2>2, <2>3, <2>5 DEF CallerOk, ReleaseOk, CallAt, Onward
  <2>6. CASE caller[c].pc \in {"cleanup", "rmtree"}
    BY <2>2, <2>3, <2>6 DEF CallerOk, ReleaseOk, CallAt, Onward
  <2>7. CASE caller[c].pc \in {"repath", "seal", "settle"}
    BY <2>2, <2>3, <2>7 DEF CallerOk, ReleaseOk, CallAt, Onward
  <2>8. QED
    BY <2>1, <2>4, <2>5, <2>6, <2>7 DEF Releasing
<1>6. QED
  BY <1>1, <1>2, <1>4, <1>5 DEF CallerOk

\* So does what the sweep relies on.
LEMMA MtKept ==
  ASSUME Progress, TypeOK, MtOk, mt' = mt
  PROVE  MtOk'
<1>1. mt.todo \subseteq Transfers
  BY RowsAreTypes DEF Rows, Mt
<1>2. QED
  BY <1>1 DEF MtOk, Progress, Onward, Alive

\* A step that goes onward keeps the invariant if its own thread keeps its part of it.
LEMMA StepKeepsInv ==
  ASSUME Inv, Progress, TypeOK', \A t \in Transfers : RowOk(t)',
         \A c \in Callers : caller'[c] = caller[c] \/ CallerOk(c)',
         \A w \in Workers : scanner'[w] = scanner[w] \/ ScannerOk(w)',
         mt' = mt \/ MtOk',
         \A e \in Events : \/ events'[e] # "processed"
                           \/ events'[e] = events[e]
                           \/ HasEffect(e)'
  PROVE  Inv'
<1>1. \A c \in Callers : CallerOk(c)'
  BY CallerKept DEF Inv
<1>2. \A w \in Workers : ScannerOk(w)'
  BY DEF Inv, ScannerOk, ScanAt, Scanned
<1>3. MtOk'
  BY MtKept DEF Inv
<1>4. ASSUME NEW e \in Events, events'[e] = "processed"
      PROVE  HasEffect(e)'
  <2>1. CASE events'[e] = events[e]
    BY <1>4, <2>1, EffectLasts DEF Inv, ProcessedEventsTakeEffect, HasEffect
  <2>2. QED
    BY <1>4, <2>1
<1>5. ProcessedEventsTakeEffect'
  BY <1>4 DEF ProcessedEventsTakeEffect, HasEffect
<1>6. QED
  BY <1>1, <1>2, <1>3, <1>5 DEF Inv

------------------------------------------------------------------------------
(* The three kinds of steps: of a row, of a payload, and of neither.       *)

Counted == glitches' \in Nat /\ glitches' >= glitches

LEMMA GlitchesCounted == TypeOK => glitches \in Nat
BY OutboundConstants, RowsAreTypes DEF Rows

LEMMA NotCounting ==
  ASSUME TypeOK, glitches' = glitches
  PROVE  Counted
BY GlitchesCounted DEF Counted

\* Rows and payloads stay.
LEMMA Still ==
  ASSUME Inv, UNCHANGED <<row, file, greenDir>>, Counted
  PROVE  Progress /\ \A t \in Transfers : RowOk(t)'
<1>1. glitches \in Nat /\ glitches' \in Nat /\ glitches' >= glitches
  BY GlitchesCounted DEF Inv, Counted
<1>2. (glitches' = 0 => glitches = 0) /\ (glitches > 0 => glitches' > 0)
  BY <1>1
<1>3. \A t \in Transfers : InBuffer(t) => InBuffer(t)'
  BY <1>2 DEF InBuffer
<1>4. Progress
  BY <1>2, <1>3 DEF Progress, Onward
<1>5. \A t \in Transfers : RowOk(t)'
  BY <1>2, <1>3 DEF Inv, RowOk, Alive
<1>6. QED
  BY <1>4, <1>5

\* The row of one transfer goes on along the pipeline.
Passes(t) ==
  /\ \A u \in Transfers \ {t} : row'[u] = row[u]
  /\ UNCHANGED <<file, greenDir>>
  /\ row'[t].state \in OUTBOUND_TRANSITIONS[row[t].state]
  /\ row'[t].path = row[t].path
  /\ \/ /\ row'[t].actor = row[t].actor
        /\ row'[t].state \notin {"approved", "approval_rejected"}
     \/ /\ row'[t].actor \in Deciders
        /\ row'[t].state \in {"approved", "approval_rejected", "expired"}
  /\ row'[t].state = "released_to_green" => row[t].path = "green"

\* The edges of the published pipeline.
LEMMA Edges ==
  ASSUME TypeOK, NEW t \in Transfers, Passes(t)
  PROVE  <<row[t].state, row'[t].state>> \in
           {<<"pending_scan", "scanning">>, <<"pending_scan", "expired">>,
           <<"scanning", "quarantined">>, <<"scanning", "classified">>,
           <<"quarantined", "pending_scan">>, <<"quarantined", "expired">>,
           <<"classified", "pending_approval">>, <<"classified", "quarantined">>,
           <<"pending_approval", "approved">>, <<"pending_approval", "approval_rejected">>,
           <<"pending_approval", "expired">>, <<"approved", "released_to_green">>,
           <<"approved", "expired">>, <<"approval_rejected", "expired">>,
           <<"released_to_green", "expired">>}
<1>1. row[t].state \in States /\ row'[t].state \in OUTBOUND_TRANSITIONS[row[t].state]
  BY RowsAreTypes DEF Rows, Row, Passes
<1>2. QED
  BY <1>1, Pipeline DEF States

LEMMA PassesStep ==
  ASSUME Inv, NEW t \in Transfers, Passes(t), Counted
  PROVE  Progress /\ \A u \in Transfers : RowOk(u)'
<1>1. glitches \in Nat /\ glitches' \in Nat /\ glitches' >= glitches
  BY GlitchesCounted DEF Inv, Counted
<1>2. (glitches' = 0 => glitches = 0) /\ (glitches > 0 => glitches' > 0)
  BY <1>1
<1>3. \A u \in Transfers : InBuffer(u) => InBuffer(u)'
  BY <1>2 DEF InBuffer, Passes
<1>5. <<row[t].state, row'[t].state>> \in
        {<<"pending_scan", "scanning">>, <<"pending_scan", "expired">>,
        <<"scanning", "quarantined">>, <<"scanning", "classified">>,
        <<"quarantined", "pending_scan">>, <<"quarantined", "expired">>,
        <<"classified", "pending_approval">>, <<"classified", "quarantined">>,
        <<"pending_approval", "approved">>, <<"pending_approval", "approval_rejected">>,
        <<"pending_approval", "expired">>, <<"approved", "released_to_green">>,
        <<"approved", "expired">>, <<"approval_rejected", "expired">>,
        <<"released_to_green", "expired">>}
  BY Edges DEF Inv
<1>6. Onward(t)
  BY <1>2, <1>3, <1>5 DEF Onward, Decidable, Approvable, Passes, Alive
<1>7. RowOk(t)'
  <2>1. RowOk(t)
    BY DEF Inv
  <2>2. /\ row'[t].state \in Undecided => row'[t].actor = Nobody
        /\ row'[t].state \in Decided => row'[t].actor \in Deciders
    BY <1>5, <2>1 DEF RowOk, Passes, Undecided, Decided
  <2>3. /\ row'[t].state \notin Approvable \cup {"absent"} => file'[t] = "isolation"
        /\ row'[t].state \notin {"absent", "expired"} => row'[t].path # "none"
        /\ row'[t].state = "absent" => row'[t].path = "none"
    BY <1>5, <2>1 DEF RowOk, Passes, Approvable
  <2>4. /\ Alive(t)' /\ row'[t].path = "green" => InBuffer(t)'
        /\ row'[t].state = "released_to_green" => row'[t].path = "green"
        /\ row'[t].state = "approved" /\ glitches' = 0 => file'[t] # "none"
    BY <1>2, <1>3, <1>5, <2>1 DEF RowOk, Passes, Approvable, Alive
  <2>5. QED
    BY <2>2, <2>3, <2>4 DEF RowOk
<1>8. ASSUME NEW u \in Transfers, u # t
      PROVE  Onward(u) /\ RowOk(u)'
  <2>1. row'[u] = row[u] /\ file' = file /\ greenDir' = greenDir
    BY <1>8 DEF Passes
  <2>2. Onward(u)
    BY <1>2, <1>3, <2>1 DEF Onward
  <2>3. RowOk(u)'
    BY <1>2, <1>3, <2>1 DEF Inv, RowOk, Alive
  <2>4. QED
    BY <2>2, <2>3
<1>9. QED
  BY <1>2, <1>6, <1>7, <1>8 DEF Progress

\* One payload or its directory changes, or the path on its row, or a row begins.
Carried(t) ==
  /\ \A u \in Transfers \ {t} : /\ row'[u] = row[u] /\ file'[u] = file[u]
                                /\ greenDir'[u] = greenDir[u]
  /\ glitches' = glitches

LEMMA CarriedStep ==
  ASSUME Inv, NEW t \in Transfers, Carried(t), Onward(t), RowOk(t)'
  PROVE  Progress /\ \A u \in Transfers : RowOk(u)'
<1>1. ASSUME NEW u \in Transfers, u # t
      PROVE  Onward(u) /\ RowOk(u)'
  <2>1. /\ row'[u] = row[u] /\ file'[u] = file[u] /\ greenDir'[u] = greenDir[u]
        /\ glitches' = glitches
    BY <1>1 DEF Carried
  <2>2. Onward(u)
    BY <2>1 DEF Onward, InBuffer
  <2>3. RowOk(u)'
    BY <2>1 DEF Inv, RowOk, Alive, InBuffer
  <2>4. QED
    BY <2>2, <2>3
<1>2. QED
  BY <1>1 DEF Progress, Carried

------------------------------------------------------------------------------
(* Steps of a call.                                                        *)

LEMMA GotoFrame ==
  ASSUME TypeOK, NEW c \in Callers, NEW pc \in Pcs, CallGoto(c, pc)
  PROVE  /\ caller' \in [Callers -> Call]
         /\ \A d \in Callers \ {c} : caller'[d] = caller[d]
         /\ caller'[c].pc = pc /\ caller'[c].on = caller[c].on
         /\ caller'[c].event = caller[c].event /\ caller'[c].src = caller[c].src
<1>1. caller \in [Callers -> Call]
  BY RowsAreTypes DEF Rows
<1>2. caller' = [caller EXCEPT ![c] = [caller[c] EXCEPT !.pc = pc]]
  BY DEF CallGoto
<1>3. caller[c] \in Call
  BY <1>1
<1>4. [caller[c] EXCEPT !.pc = pc] \in Call
  BY <1>3 DEF Call
<1>5. caller'[c] = [caller[c] EXCEPT !.pc = pc]
  BY <1>1, <1>2
<1>6. QED
  BY <1>1, <1>2, <1>3, <1>4, <1>5 DEF Call

\* A call that ends says "done" only with its event's effect behind it.
LEMMA EndsFrame ==
  ASSUME TypeOK, NEW c \in Callers, CallerOk(c), caller[c].pc \in Working, NEW how \in Ended,
         CallEnds(c, how),
         \A e \in Events : how = "done" /\ caller[c].event = e => HasEffect(e)'
  PROVE  /\ caller' \in [Callers -> Call]
         /\ \A d \in Callers \ {c} : caller'[d] = caller[d]
         /\ CallerOk(c)'
<1>1. caller \in [Callers -> Call] /\ caller[c] \in Call
  BY RowsAreTypes DEF Rows
<1>2. NoCall \in Call
  BY DEF NoCall, Call, Pcs, Places
<1>3. CASE caller[c].event \in Events
  <2>1. PICK pc \in {"processed", "error"} : /\ pc = "processed" <=> how = "done"
                                             /\ caller' = [caller EXCEPT ![c] = [caller[c] EXCEPT !.pc = pc]]
    BY <1>1, <1>3 DEF CallEnds
  <2>2. [caller[c] EXCEPT !.pc = pc] \in Call
    BY <1>1, <2>1 DEF Call, Pcs
  <2>3. caller'[c] = [caller[c] EXCEPT !.pc = pc]
    BY <1>1, <2>1
  <2>4. caller'[c].pc = pc /\ caller'[c].event = caller[c].event
    BY <1>1, <2>2, <2>3 DEF Call
  <2>5. c # Sweeper
    BY <1>3, NobodyDecides DEF CallerOk, RoleOk, Deciders
  <2>6. RoleOk(c)'
    BY <1>3, <2>1, <2>4, <2>5 DEF RoleOk, CallAt, Ended, Working, Deciding, Releasing, Deciders
  <2>7. MeaningOk(c)'
    <3>1. PICK e \in Events : e = caller[c].event
      BY <1>3
    <3>2. CallAt(c, "processed")' => HasEffect(e)'
      BY <2>1, <2>4, <3>1 DEF CallAt
    <3>3. caller'[c].event = e
      BY <2>4, <3>1
    <3>4. CallAt(c, "processed")' => HasEffect(caller[c].event)'
      BY <3>2, <3>3 DEF HasEffect
    <3>5. QED
      BY <2>1, <2>4, <3>4 DEF MeaningOk, CallAt, Releasing
  <2>8. DecisionOk(c)' /\ ReleaseOk(c)'
    BY <2>1, <2>4 DEF DecisionOk, ReleaseOk, CallAt, Deciding, Releasing
  <2>9. QED
    BY <1>1, <2>1, <2>2, <2>6, <2>7, <2>8 DEF CallerOk
<1>4. CASE caller[c].event \notin Events /\ c = Sweeper
  <2>1. caller' = [caller EXCEPT ![c] = [caller[c] EXCEPT !.pc = how]]
    BY <1>1, <1>4 DEF CallEnds
  <2>2. [caller[c] EXCEPT !.pc = how] \in Call
    BY <1>1 DEF Call, Pcs, Ended
  <2>3. caller'[c] = [caller[c] EXCEPT !.pc = how]
    BY <1>1, <2>1
  <2>4. caller'[c].pc = how /\ caller'[c].event = caller[c].event
    BY <1>1, <2>2, <2>3 DEF Call
  <2>5. CallerOk(c)'
    BY <1>4, <2>4 DEF CallerOk, RoleOk, MeaningOk, DecisionOk, ReleaseOk, CallAt, Ended, Working,
                      Deciding, Releasing
  <2>6. QED
    BY <1>1, <2>1, <2>2, <2>5
<1>5. CASE caller[c].event \notin Events /\ c # Sweeper
  <2>1. caller' = [caller EXCEPT ![c] = NoCall]
    BY <1>1, <1>5 DEF CallEnds
  <2>2. caller'[c] = NoCall
    BY <1>1, <2>1
  <2>3. caller'[c].pc = "idle" /\ caller'[c].event = Nobody
    BY <2>2 DEF NoCall
  <2>4. CallerOk(c)'
    BY <1>5, <2>3, NobodyDecides
       DEF CallerOk, RoleOk, MeaningOk, DecisionOk, ReleaseOk, CallAt, Ended, Working, Deciding,
           Releasing, Deciders
  <2>5. QED
    BY <1>1, <1>2, <2>1, <2>4
<1>6. QED
  BY <1>3, <1>4, <1>5

\* A step of a call that goes onward keeps the invariant.
LEMMA CallStepInv ==
  ASSUME Inv, Progress, \A t \in Transfers : RowOk(t)', NEW c \in Callers, CallerOk(c)',
         \A d \in Callers \ {c} : caller'[d] = caller[d],
         caller' \in [Callers -> Call], row' \in [Transfers -> Row],
         file' \in [Transfers -> Places], greenDir' \in [Transfers -> BOOLEAN],
         late' \in [Transfers -> BOOLEAN], glitches' \in 0..MaxGlitches,
         UNCHANGED <<worldVars, scanner, events, mt, boot, crashes>>
  PROVE  Inv'
<1>1. TypeOK'
  BY RowsAreTypes, RowsAreTypesNext DEF Inv, Rows, worldVars
<1>2. QED
  BY <1>1, StepKeepsInv

\* A call that only goes to its next step.
LEMMA GotoStep ==
  ASSUME Inv, NEW c \in Callers, NEW pc \in Pcs, CallGoto(c, pc), CallerOk(c)',
         UNCHANGED <<worldVars, rowVars, diskVars, scanner, events, mt, boot, crashes, glitches>>
  PROVE  Inv'
<1>1. Progress /\ \A t \in Transfers : RowOk(t)'
  BY Still, GlitchesCounted DEF Inv, Counted, rowVars, diskVars
<1>2. QED
  BY <1>1, CallStepInv, GotoFrame, RowsAreTypes DEF Inv, Rows, rowVars, diskVars

\* A call that only ends.
LEMMA EndsStep ==
  ASSUME Inv, NEW c \in Callers, caller[c].pc \in Working, NEW how \in Ended, CallEnds(c, how),
         \A e \in Events : how = "done" /\ caller[c].event = e => HasEffect(e),
         UNCHANGED <<worldVars, rowVars, diskVars, scanner, events, mt, boot, crashes>>,
         glitches' \in 0..MaxGlitches, Counted
  PROVE  Inv'
<1>1. Progress /\ \A t \in Transfers : RowOk(t)'
  BY Still DEF rowVars, diskVars
<1>2. \A e \in Events : how = "done" /\ caller[c].event = e => HasEffect(e)'
  BY <1>1, EffectLasts
<1>3. /\ caller' \in [Callers -> Call]
      /\ \A d \in Callers \ {c} : caller'[d] = caller[d]
      /\ CallerOk(c)'
  BY <1>2, EndsFrame DEF Inv
<1>4. QED
  BY <1>1, <1>3, CallStepInv, RowsAreTypes DEF Inv, Rows, rowVars, diskVars

\* Where a working call stands.
LEMMA AtWork ==
  ASSUME Inv, NEW c \in Callers, caller[c].pc \in Working
  PROVE  /\ Target(c) \in Transfers /\ row[Target(c)] \in Row
         /\ caller[c] \in Call /\ caller[c].event \in Deciders \cup {Nobody}
         /\ \A e \in Events : e = caller[c].event => e.on = Target(c)
BY RowsAreTypes DEF Inv, Rows, CallerOk, RoleOk, Call

\* A decision is somebody's.
LEMMA DeciderKnown ==
  ASSUME Inv, NEW c \in Callers, caller[c].pc \in {"dispatch"} \cup Deciding
  PROVE  c # Sweeper /\ caller[c].event \in Deciders
BY DEF Inv, CallerOk, RoleOk, CallAt, Deciding, Releasing, Ended

\* A call that takes up a pending transfer.
LEMMA CourseOk ==
  ASSUME Inv, NEW c \in Callers, c # Sweeper, NEW t \in Transfers,
         row'[t].state = "pending_approval", row' = row,
         NEW approves \in BOOLEAN, caller'[c].pc = Course(t, approves),
         caller'[c].on = t, caller'[c].event \in Deciders,
         \A e \in Events : caller'[c].event = e => e.on = t /\ e.approves = approves
  PROVE  CallerOk(c)'
<1>1. caller'[c].pc \in {"lapse", "verify", "reject"}
  BY DEF Course
<1>2. /\ caller'[c].pc = "verify" => approves
      /\ caller'[c].pc = "reject" => ~approves
  BY DEF Course
<1>3. RoleOk(c)' /\ MeaningOk(c)'
  BY <1>1, <1>2 DEF RoleOk, MeaningOk, CallAt, Ended, Working, Deciding, Releasing, Target
<1>4. DecisionOk(c)' /\ ReleaseOk(c)'
  BY <1>1 DEF DecisionOk, ReleaseOk, CallAt, Deciding, Releasing, Decidable, Target
<1>5. QED
  BY <1>3, <1>4 DEF CallerOk

LEMMA DecideStep ==
  ASSUME Inv, NEW c \in Requests, NEW t \in Transfers, Decide(c, t)
  PROVE  Inv'
<1>1. PICK approves \in BOOLEAN, person \in Persons :
        caller' = [caller EXCEPT ![c] = [NoCall EXCEPT !.pc = Course(t, approves), !.on = t,
                                                       !.event = person]]
  BY DEF Decide
<1>2. c \in Callers /\ c # Sweeper /\ person \in Deciders /\ person \notin Events
  BY OutboundConstants, NobodyDecides DEF Callers, Deciders
<1>3. caller \in [Callers -> Call]
  BY RowsAreTypes DEF Inv, Rows
<1>4. PICK pc \in Pcs : pc = Course(t, approves)
  BY DEF Course, Pcs
<1>5. PICK call : call = [NoCall EXCEPT !.pc = pc, !.on = t, !.event = person]
  OBVIOUS
<1>6. call \in Call /\ call.pc = pc /\ call.on = t /\ call.event = person
  BY <1>2, <1>5 DEF NoCall, Call, Places
<1>7. caller' \in [Callers -> Call] /\ caller'[c] = call
      /\ \A d \in Callers \ {c} : caller'[d] = caller[d]
  BY <1>1, <1>2, <1>3, <1>4, <1>5, <1>6
<1>8. UNCHANGED <<worldVars, rowVars, diskVars, scanner, events, mt, boot, crashes, glitches>>
      /\ row[t].state = "pending_approval"
  BY DEF Decide
<1>9. CallerOk(c)'
  BY <1>2, <1>4, <1>6, <1>7, <1>8, CourseOk DEF rowVars
<1>10. Progress /\ \A u \in Transfers : RowOk(u)'
  BY <1>8, Still, GlitchesCounted DEF Inv, Counted, rowVars, diskVars
<1>11. QED
  BY <1>2, <1>7, <1>8, <1>9, <1>10, CallStepInv, RowsAreTypes DEF Inv, Rows, rowVars, diskVars

LEMMA CallbackStep ==
  ASSUME Inv, NEW c \in Requests, NEW e \in Events, Callback(c, e)
  PROVE  Inv'
<1>1. /\ caller' = [caller EXCEPT ![c] = [NoCall EXCEPT !.pc = "dispatch", !.on = e.on, !.event = e]]
      /\ events' = [events EXCEPT ![e] = IF @ = "none" THEN "processing" ELSE @]
      /\ UNCHANGED <<worldVars, rowVars, diskVars, scanner, mt, boot, crashes, glitches>>
  BY DEF Callback
<1>2. c \in Callers /\ c # Sweeper /\ e \in Deciders /\ e.on \in Transfers
  BY OutboundConstants DEF Callers, Deciders, Events
<1>3. /\ caller \in [Callers -> Call]
      /\ events \in [Events -> {"none", "processing", "processed", "error"}]
  BY RowsAreTypes DEF Inv, Rows
<1>4. PICK t \in Transfers : t = e.on
  BY <1>2
<1>5. PICK call : call = [NoCall EXCEPT !.pc = "dispatch", !.on = t, !.event = e]
  OBVIOUS
<1>6. call \in Call /\ call.pc = "dispatch" /\ call.on = t /\ call.event = e
  BY <1>2, <1>5 DEF NoCall, Call, Pcs, Places
<1>7. caller' \in [Callers -> Call] /\ caller'[c] = call
      /\ \A d \in Callers \ {c} : caller'[d] = caller[d]
  BY <1>1, <1>2, <1>3, <1>4, <1>5, <1>6
<1>8. CallerOk(c)'
  BY <1>2, <1>4, <1>6, <1>7 DEF CallerOk, RoleOk, MeaningOk, DecisionOk, ReleaseOk, CallAt, Ended, Working,
                    Deciding, Releasing, Target
<1>9. Progress /\ \A u \in Transfers : RowOk(u)'
  BY <1>1, Still, GlitchesCounted DEF Inv, Counted, rowVars, diskVars
<1>10. /\ events' \in [Events -> {"none", "processing", "processed", "error"}]
       /\ \A f \in Events : events'[f] # "processed" \/ events'[f] = events[f]
  BY <1>1, <1>3
<1>11. TypeOK'
  BY <1>1, <1>7, <1>10, RowsAreTypes, RowsAreTypesNext
     DEF Inv, Rows, worldVars, rowVars, diskVars
<1>12. QED
  BY <1>1, <1>7, <1>8, <1>9, <1>10, <1>11, StepKeepsInv

LEMMA DispatchStep ==
  ASSUME Inv, NEW c \in Requests, Dispatch(c)
  PROVE  Inv'
<1>1. c \in Callers /\ CallAt(c, "dispatch") /\ caller[c].pc \in Working
      /\ caller[c].pc \in {"dispatch"} \cup Deciding
  BY DEF Dispatch, Callers, CallAt, Working
<1>2. PICK t \in Transfers : t = Target(c)
  BY <1>1, AtWork
<1>3. PICK e \in Events : e = caller[c].event
  BY <1>1 DEF Inv, CallerOk, RoleOk, CallAt
<1>4. e.on = t /\ e.approves \in BOOLEAN /\ c # Sweeper /\ e \in Deciders
  BY <1>1, <1>2, <1>3, AtWork, DeciderKnown DEF Events, Deciders
<1>5. UNCHANGED <<worldVars, rowVars, diskVars, scanner, events, mt, boot, crashes, glitches>>
  BY DEF Dispatch
<1>6. CASE row[t].state = "approved" /\ e.approves /\ CallGoto(c, "release")
  <2>1. /\ caller'[c].pc = "release" /\ caller'[c].on = t /\ caller'[c].event = e
    BY <1>1, <1>2, <1>3, <1>6, GotoFrame DEF Inv, Pcs, Target
  <2>2. row[t].actor \in Deciders /\ row' = row
    BY <1>5, <1>6 DEF Inv, RowOk, Decided, rowVars
  <2>3. CallerOk(c)'
    BY <1>4, <1>6, <2>1, <2>2
       DEF CallerOk, RoleOk, MeaningOk, DecisionOk, ReleaseOk, CallAt, Ended, Working,
           Deciding, Releasing, Target, Approvable
  <2>4. QED
    BY <1>1, <1>5, <1>6, <2>3, GotoStep DEF Pcs
<1>7. CASE /\ <<row[t].state, e.approves>> \in {<<"released_to_green", TRUE>>,
                                                 <<"approval_rejected", FALSE>>}
           /\ CallEnds(c, IF row[t].actor = e THEN "done" ELSE "refused")
  <2>1. HasEffect(e)
    BY <1>4, <1>7 DEF HasEffect
  <2>2. PICK how \in Ended : CallEnds(c, how)
    BY <1>7 DEF Ended
  <2>3. QED
    BY <1>1, <1>3, <1>5, <2>1, <2>2, EndsStep, GlitchesCounted, RowsAreTypes
       DEF Inv, Counted, Rows
<1>8. CASE row[t].state = "pending_approval" /\ CallGoto(c, Course(t, e.approves))
  <2>1. Course(t, e.approves) \in Pcs
    BY DEF Course, Pcs
  <2>2. /\ caller'[c].pc = Course(t, e.approves) /\ caller'[c].on = t /\ caller'[c].event = e
    BY <1>1, <1>2, <1>3, <1>8, <2>1, GotoFrame DEF Inv, Target
  <2>3. CallerOk(c)'
    BY <1>1, <1>4, <1>5, <1>8, <2>2, CourseOk DEF rowVars
  <2>4. QED
    BY <1>1, <1>5, <1>8, <2>1, <2>3, GotoStep
<1>9. CASE CallEnds(c, "refused")
  BY <1>1, <1>5, <1>9, EndsStep, GlitchesCounted, RowsAreTypes DEF Inv, Counted, Rows, Ended
<1>10. QED
  BY <1>2, <1>3, <1>6, <1>7, <1>8, <1>9 DEF Dispatch

\* The row a transition leaves, whatever it writes besides the state.
LEMMA RowFrame ==
  ASSUME TypeOK, NEW t \in Transfers, NEW s \in States, NEW a \in Deciders \cup {Nobody},
         row' = [row EXCEPT ![t].state = s, ![t].actor = a]
  PROVE  /\ row' \in [Transfers -> Row]
         /\ \A u \in Transfers \ {t} : row'[u] = row[u]
         /\ row'[t].state = s /\ row'[t].actor = a /\ row'[t].path = row[t].path
<1>1. row \in [Transfers -> Row] /\ row[t] \in Row
  BY RowsAreTypes DEF Rows
<1>2. PICK r : r = [row[t] EXCEPT !.state = s, !.actor = a]
  OBVIOUS
<1>3. r \in Row /\ r.state = s /\ r.actor = a /\ r.path = row[t].path
  BY <1>1, <1>2 DEF Row
<1>4. row' = [row EXCEPT ![t] = r]
  BY <1>1, <1>2
<1>5. QED
  BY <1>1, <1>3, <1>4

LEMMA MovedFrame ==
  ASSUME TypeOK, NEW t \in Transfers, NEW s \in States, row' = Moved(t, s)
  PROVE  /\ row' \in [Transfers -> Row]
         /\ \A u \in Transfers \ {t} : row'[u] = row[u]
         /\ row'[t].state = s /\ row'[t].actor = row[t].actor /\ row'[t].path = row[t].path
<1>1. row \in [Transfers -> Row] /\ row[t] \in Row
  BY RowsAreTypes DEF Rows
<1>2. PICK r : r = [row[t] EXCEPT !.state = s]
  OBVIOUS
<1>3. r \in Row /\ r.state = s /\ r.actor = row[t].actor /\ r.path = row[t].path
  BY <1>1, <1>2 DEF Row
<1>4. row' = [row EXCEPT ![t] = r]
  BY <1>1, <1>2 DEF Moved
<1>5. QED
  BY <1>1, <1>3, <1>4

LEMMA PunctualFrame ==
  ASSUME TypeOK, NEW t \in Transfers, Punctual(t)
  PROVE  late' \in [Transfers -> BOOLEAN]
BY RowsAreTypes DEF Rows, Punctual

\* A decision of a call, approved or rejected.
LEMMA DecidedStep ==
  ASSUME Inv, NEW c \in Callers, caller[c].pc \in Deciding, NEW t \in Transfers, t = Target(c),
         NEW s \in {"approved", "approval_rejected"}, CanMove(t, s),
         row' = [row EXCEPT ![t].state = s, ![t].actor = caller[c].event],
         Punctual(t), UNCHANGED <<diskVars, glitches>>
  PROVE  /\ Progress /\ \A u \in Transfers : RowOk(u)'
         /\ row' \in [Transfers -> Row] /\ late' \in [Transfers -> BOOLEAN]
         /\ row'[t].state = s /\ row'[t].actor \in Deciders
<1>1. caller[c].event \in Deciders /\ s \in States
  BY DeciderKnown DEF States
<1>2. PICK a \in Deciders : a = caller[c].event
  BY <1>1
<1>3. row' = [row EXCEPT ![t].state = s, ![t].actor = a]
  BY <1>2
<1>4. /\ row' \in [Transfers -> Row]
      /\ \A u \in Transfers \ {t} : row'[u] = row[u]
      /\ row'[t].state = s /\ row'[t].actor = a /\ row'[t].path = row[t].path
  BY <1>1, <1>3, RowFrame DEF Inv
<1>5. Passes(t)
  BY <1>4 DEF Passes, CanMove, diskVars
<1>6. QED
  BY <1>2, <1>4, <1>5, PassesStep, PunctualFrame, GlitchesCounted DEF Inv, Counted

\* The row an expiry leaves, in somebody's name or nobody's.
LEMMA ExpiredFrame ==
  ASSUME TypeOK, NEW t \in Transfers, NEW by \in Deciders \cup {Nobody},
         row' = [Moved(t, "expired") EXCEPT ![t].actor = IF by = Nobody THEN @ ELSE by]
  PROVE  /\ row' \in [Transfers -> Row]
         /\ \A u \in Transfers \ {t} : row'[u] = row[u]
         /\ row'[t].state = "expired" /\ row'[t].path = row[t].path
         /\ row'[t].actor = IF by = Nobody THEN row[t].actor ELSE by
<1>1. row \in [Transfers -> Row] /\ row[t] \in Row
  BY RowsAreTypes DEF Rows
<1>2. PICK a \in Deciders \cup {Nobody} : a = IF by = Nobody THEN row[t].actor ELSE by
  BY <1>1 DEF Row
<1>3. PICK m : m = [row[t] EXCEPT !.state = "expired"]
  OBVIOUS
<1>4. m.actor = row[t].actor
  BY <1>1, <1>3 DEF Row
<1>5. Moved(t, "expired") = [row EXCEPT ![t] = m]
  BY <1>1, <1>3 DEF Moved
<1>6. PICK r : r = [m EXCEPT !.actor = a]
  OBVIOUS
<1>7. r \in Row /\ r.state = "expired" /\ r.path = row[t].path /\ r.actor = a
  BY <1>1, <1>3, <1>6 DEF Row, States
<1>8. row' = [row EXCEPT ![t] = r]
  BY <1>1, <1>2, <1>4, <1>5, <1>6
<1>9. QED
  BY <1>1, <1>2, <1>7, <1>8

\* A call that expires its transfer, in somebody's name or nobody's.
LEMMA ExpireFromStep ==
  ASSUME Inv, NEW c \in Callers, caller[c].pc \in Working, NEW s, NEW then \in Ended \ {"done"},
         NEW by \in Deciders \cup {Nobody}, ExpireFrom(c, s, then, by),
         UNCHANGED <<worldVars, diskVars, scanner, events, mt, boot, crashes, glitches>>
  PROVE  Inv'
<1>1. PICK t \in Transfers : t = Target(c)
  BY AtWork
<1>2. CASE CallEnds(c, "raised") /\ UNCHANGED rowVars
  BY <1>2, EndsStep, GlitchesCounted, RowsAreTypes DEF Inv, Counted, Rows, Ended
<1>3. CASE /\ CanMove(t, "expired")
           /\ row' = [Moved(t, "expired") EXCEPT ![t].actor = IF by = Nobody THEN @ ELSE by]
           /\ Punctual(t)
           /\ CallEnds(c, then)
  <2>4. /\ row' \in [Transfers -> Row]
        /\ \A u \in Transfers \ {t} : row'[u] = row[u]
        /\ row'[t].state = "expired" /\ row'[t].path = row[t].path
        /\ row'[t].actor = IF by = Nobody THEN row[t].actor ELSE by
    BY <1>3, ExpiredFrame DEF Inv
  <2>5. Passes(t)
    BY <1>3, <2>4 DEF Passes, CanMove, diskVars
  <2>6. Progress /\ \A u \in Transfers : RowOk(u)'
    BY <2>5, PassesStep, GlitchesCounted DEF Inv, Counted
  <2>7. /\ caller' \in [Callers -> Call]
        /\ \A d \in Callers \ {c} : caller'[d] = caller[d]
        /\ CallerOk(c)'
    BY <1>3, EndsFrame DEF Inv
  <2>8. QED
    BY <1>3, <2>4, <2>6, <2>7, CallStepInv, PunctualFrame, RowsAreTypes DEF Inv, Rows, diskVars
<1>4. QED
  BY <1>1, <1>2, <1>3 DEF ExpireFrom

LEMMA LapseStep ==
  ASSUME Inv, NEW c \in Callers, Lapse(c)
  PROVE  Inv'
BY ExpireFromStep DEF Lapse, CallAt, Working, Deciding, Ended

LEMMA RevokeStep ==
  ASSUME Inv, NEW c \in Callers, Revoke(c)
  PROVE  Inv'
BY ExpireFromStep DEF Revoke, CallAt, Working, Releasing, Ended

LEMMA CondemnStep ==
  ASSUME Inv, NEW c \in Callers, Condemn(c)
  PROVE  Inv'
<1>1. PICK by \in Deciders : by = caller[c].event
  BY DeciderKnown DEF Condemn, CallAt, Deciding
<1>2. QED
  BY <1>1, ExpireFromStep DEF Condemn, CallAt, Working, Deciding, Ended

LEMMA RejectStep ==
  ASSUME Inv, NEW c \in Callers, Reject(c)
  PROVE  Inv'
<1>1. CallAt(c, "reject") /\ caller[c].pc \in Deciding /\ caller[c].pc \in Working
      /\ UNCHANGED <<worldVars, diskVars, scanner, events, mt, boot, crashes, glitches>>
  BY DEF Reject, CallAt, Deciding, Working
<1>2. PICK t \in Transfers : t = Target(c)
  BY <1>1, AtWork
<1>3. CASE CanMove(t, "approval_rejected")
  <2>1. row' = [row EXCEPT ![t].state = "approval_rejected", ![t].actor = caller[c].event]
        /\ Punctual(t) /\ CallEnds(c, "done")
    BY <1>2, <1>3 DEF Reject
  <2>2. /\ Progress /\ \A u \in Transfers : RowOk(u)'
        /\ row' \in [Transfers -> Row] /\ late' \in [Transfers -> BOOLEAN]
        /\ row'[t].state = "approval_rejected"
    BY <1>1, <1>2, <1>3, <2>1, DecidedStep
  <2>3. \A e \in Events : caller[c].event = e => HasEffect(e)'
    <3>1. ASSUME NEW e \in Events, caller[c].event = e
          PROVE  HasEffect(e)'
      <4>1. e.on = t /\ ~e.approves
        BY <1>1, <1>2, <3>1, AtWork DEF Inv, CallerOk, MeaningOk
      <4>2. QED
        BY <2>2, <4>1 DEF HasEffect
    <3>2. QED
      BY <3>1
  <2>4. /\ caller' \in [Callers -> Call]
        /\ \A d \in Callers \ {c} : caller'[d] = caller[d]
        /\ CallerOk(c)'
    BY <1>1, <2>1, <2>3, EndsFrame DEF Inv, Ended
  <2>5. QED
    BY <1>1, <2>2, <2>4, CallStepInv, RowsAreTypes DEF Inv, Rows, diskVars
<1>4. CASE ~CanMove(t, "approval_rejected")
  <2>1. CallEnds(c, "raised") /\ UNCHANGED rowVars
    BY <1>2, <1>4 DEF Reject
  <2>2. QED
    BY <1>1, <2>1, EndsStep, GlitchesCounted, RowsAreTypes DEF Inv, Counted, Rows, Ended
<1>5. QED
  BY <1>3, <1>4

LEMMA ApproveStep ==
  ASSUME Inv, NEW c \in Callers, Approve(c)
  PROVE  Inv'
<1>1. CallAt(c, "approve") /\ caller[c].pc \in Deciding /\ caller[c].pc \in Working
      /\ UNCHANGED <<worldVars, diskVars, scanner, events, mt, boot, crashes, glitches>>
  BY DEF Approve, CallAt, Deciding, Working
<1>2. PICK t \in Transfers : t = Target(c)
  BY <1>1, AtWork
<1>3. CASE CanMove(t, "approved")
  <2>1. row' = [row EXCEPT ![t].state = "approved", ![t].actor = caller[c].event]
        /\ Punctual(t) /\ CallGoto(c, "release")
    BY <1>2, <1>3 DEF Approve
  <2>2. /\ Progress /\ \A u \in Transfers : RowOk(u)'
        /\ row' \in [Transfers -> Row] /\ late' \in [Transfers -> BOOLEAN]
        /\ row'[t].state = "approved" /\ row'[t].actor \in Deciders
    BY <1>1, <1>2, <1>3, <2>1, DecidedStep
  <2>3. /\ caller' \in [Callers -> Call]
        /\ \A d \in Callers \ {c} : caller'[d] = caller[d]
        /\ caller'[c].pc = "release" /\ caller'[c].on = t
        /\ caller'[c].event = caller[c].event
    BY <1>2, <2>1, GotoFrame DEF Inv, Pcs, Target
  <2>4. RoleOk(c)' /\ MeaningOk(c)'
    BY <1>1, <1>2, <2>3, AtWork, DeciderKnown
       DEF Inv, CallerOk, RoleOk, MeaningOk, CallAt, Ended, Working, Deciding, Releasing, Target
  <2>5. DecisionOk(c)' /\ ReleaseOk(c)'
    BY <2>2, <2>3 DEF DecisionOk, ReleaseOk, CallAt, Deciding, Target, Approvable
  <2>6. QED
    BY <1>1, <2>2, <2>3, <2>4, <2>5, CallStepInv, RowsAreTypes DEF Inv, Rows, diskVars, CallerOk
<1>4. CASE ~CanMove(t, "approved")
  <2>1. CallEnds(c, "raised") /\ UNCHANGED rowVars
    BY <1>2, <1>4 DEF Approve
  <2>2. QED
    BY <1>1, <2>1, EndsStep, GlitchesCounted, RowsAreTypes DEF Inv, Counted, Rows, Ended
<1>5. QED
  BY <1>3, <1>4

LEMMA VerifyStep ==
  ASSUME Inv, NEW c \in Callers, Verify(c)
  PROVE  Inv'
<1>1. CallAt(c, "verify") /\ caller[c].pc \in Deciding /\ caller[c].pc \in Working
      /\ UNCHANGED <<worldVars, rowVars, diskVars, scanner, events, mt, boot, crashes, glitches>>
  BY DEF Verify, CallAt, Deciding, Working
<1>2. PICK t \in Transfers : t = Target(c)
  BY <1>1, AtWork
<1>3. PICK pc \in {"approve", "condemn"} :
        /\ pc = IF file[t] = "isolation" THEN "approve" ELSE "condemn"
        /\ CallGoto(c, pc)
  BY <1>2 DEF Verify
<1>4. pc \in Pcs
  BY <1>3 DEF Pcs
<1>5. caller'[c].pc = pc /\ caller'[c].on = t /\ caller'[c].event = caller[c].event
  BY <1>2, <1>3, <1>4, GotoFrame DEF Inv, Target
<1>6. RoleOk(c)' /\ MeaningOk(c)'
  BY <1>1, <1>2, <1>3, <1>5, AtWork, DeciderKnown
     DEF Inv, CallerOk, RoleOk, MeaningOk, CallAt, Ended, Working, Deciding, Releasing, Target
<1>7. row[t].state \in Decidable /\ RowOk(t)
  BY <1>1, <1>2 DEF Inv, CallerOk, DecisionOk
<1>8. file[t] # "isolation" => row[t].state \in Approvable
  BY <1>7 DEF RowOk, Decidable, Approvable
<1>9. DecisionOk(c)' /\ ReleaseOk(c)'
  BY <1>1, <1>3, <1>5, <1>7, <1>8
     DEF DecisionOk, ReleaseOk, CallAt, Deciding, Releasing, Target, rowVars, diskVars
<1>10. QED
  BY <1>1, <1>3, <1>4, <1>6, <1>9, GotoStep DEF CallerOk

LEMMA MarkEventStep ==
  ASSUME Inv, NEW c \in Callers, MarkEvent(c)
  PROVE  Inv'
<1>1. /\ caller[c].pc \in {"processed", "error"}
      /\ events' = [events EXCEPT ![caller[c].event] = caller[c].pc]
      /\ caller' = [caller EXCEPT ![c] = NoCall]
      /\ UNCHANGED <<worldVars, rowVars, diskVars, scanner, mt, boot, crashes, glitches>>
  BY DEF MarkEvent
<1>2. PICK e \in Events : e = caller[c].event
  BY <1>1 DEF Inv, CallerOk, RoleOk
<1>3. /\ caller \in [Callers -> Call] /\ NoCall \in Call
      /\ events \in [Events -> {"none", "processing", "processed", "error"}]
  BY RowsAreTypes DEF Inv, Rows, NoCall, Call, Pcs, Places
<1>4. /\ caller' \in [Callers -> Call] /\ caller'[c] = NoCall
      /\ \A d \in Callers \ {c} : caller'[d] = caller[d]
  BY <1>1, <1>3
<1>5. CallerOk(c)'
  BY <1>4, NobodyDecides
     DEF NoCall, CallerOk, RoleOk, MeaningOk, DecisionOk, ReleaseOk, CallAt, Ended, Working,
         Deciding, Releasing, Deciders
<1>6. Progress /\ \A u \in Transfers : RowOk(u)'
  BY <1>1, Still, GlitchesCounted DEF Inv, Counted, rowVars, diskVars
<1>7. /\ events' \in [Events -> {"none", "processing", "processed", "error"}]
      /\ \A f \in Events \ {e} : events'[f] = events[f]
      /\ events'[e] = caller[c].pc
  BY <1>1, <1>2, <1>3
<1>8. caller[c].pc = "processed" => HasEffect(e)'
  BY <1>2, <1>6, EffectLasts DEF Inv, CallerOk, MeaningOk, CallAt
<1>9. TypeOK'
  BY <1>1, <1>4, <1>7, RowsAreTypes, RowsAreTypesNext
     DEF Inv, Rows, worldVars, rowVars, diskVars
<1>10. \A f \in Events : events'[f] # "processed" \/ events'[f] = events[f] \/ HasEffect(f)'
  <2>1. ASSUME NEW f \in Events
        PROVE  events'[f] # "processed" \/ events'[f] = events[f] \/ HasEffect(f)'
    <3>1. CASE f = e
      BY <1>7, <1>8, <3>1
    <3>2. CASE f # e
      BY <1>7, <3>2
    <3>3. QED
      BY <3>1, <3>2
  <2>2. QED
    BY <2>1
<1>11. QED
  BY <1>1, <1>4, <1>5, <1>6, <1>9, <1>10, StepKeepsInv

------------------------------------------------------------------------------
(* Steps of a release.                                                     *)

\* A call inside a release and its transfer.
LEMMA InRelease ==
  ASSUME Inv, NEW c \in Callers, caller[c].pc \in Releasing, NEW t \in Transfers, t = Target(c)
  PROVE  /\ row[t].state \in Approvable /\ row[t].actor \in Deciders
         /\ RowOk(t) /\ ReleaseOk(c) /\ caller[c].pc \in Working
BY DEF Inv, CallerOk, ReleaseOk, Working

\* From one step of a release to the next.
LEMMA ReleaseGoesOn ==
  ASSUME Inv, NEW c \in Callers, caller[c].pc \in Releasing,
         NEW t \in Transfers, t = Target(c), NEW pc \in Releasing,
         caller'[c].pc = pc, caller'[c].on = t, caller'[c].event = caller[c].event,
         row'[t].state \in Approvable, row'[t].actor \in Deciders,
         pc = "locate" => caller'[c].src \in {"isolation", "green"},
         (pc = "locate" /\ Alive(t)' /\ caller'[c].src = "green") => row'[t].path = "green",
         (pc \in {"locate", "move"} /\ Alive(t)' /\ glitches' = 0) => greenDir'[t],
         (pc = "cleanup" /\ Alive(t)' /\ glitches' = 0) => file'[t] = "green",
         (pc = "rmtree" /\ glitches' = 0) => ~Alive(t)',
         (pc = "repath" /\ Alive(t)') => InBuffer(t)',
         (pc \in {"seal", "settle"} /\ Alive(t)') => row'[t].path = "green"
  PROVE  CallerOk(c)'
<1>1. RoleOk(c)'
  BY AtWork DEF Inv, CallerOk, RoleOk, CallAt, Ended, Working, Deciding, Releasing, Target
<1>2. MeaningOk(c)'
  BY DEF Inv, CallerOk, MeaningOk, CallAt, Deciding, Releasing, Target
<1>3. DecisionOk(c)'
  BY DEF DecisionOk, CallAt, Deciding, Releasing
<1>4. ReleaseOk(c)'
  BY DEF ReleaseOk, CallAt, Target
<1>5. QED
  BY <1>1, <1>2, <1>3, <1>4 DEF CallerOk

LEMMA ReleaseStepInv ==
  ASSUME Inv, NEW c \in Callers, Release(c)
  PROVE  Inv'
<1>1. CallAt(c, "release") /\ caller[c].pc \in Releasing /\ caller[c].pc \in Working
      /\ UNCHANGED <<worldVars, rowVars, file, scanner, events, mt, boot, crashes, glitches>>
  BY DEF Release, CallAt, Releasing, Working
<1>2. PICK t \in Transfers : t = Target(c)
  BY <1>1, AtWork
<1>3. row[t].state \in Approvable /\ row[t].actor \in Deciders /\ RowOk(t)
  BY <1>1, <1>2, InRelease
<1>4. CASE row[t].state = "released_to_green" /\ CallEnds(c, "done") /\ UNCHANGED greenDir
  <2>1. \A e \in Events : caller[c].event = e => HasEffect(e)
    <3>1. ASSUME NEW e \in Events, caller[c].event = e
          PROVE  HasEffect(e)
      <4>1. e.on = t /\ e.approves
        BY <1>1, <1>2, <3>1, AtWork DEF Inv, CallerOk, MeaningOk
      <4>2. QED
        BY <1>4, <4>1 DEF HasEffect
    <3>2. QED
      BY <3>1
  <2>2. QED
    BY <1>1, <1>4, <2>1, EndsStep, GlitchesCounted, RowsAreTypes
       DEF Inv, Counted, Rows, Ended, diskVars
<1>5. CASE CallEnds(c, "refused") /\ UNCHANGED greenDir
  BY <1>1, <1>5, EndsStep, GlitchesCounted, RowsAreTypes
     DEF Inv, Counted, Rows, Ended, diskVars
<1>6. CASE CallGoto(c, "revoke") /\ UNCHANGED greenDir
  <2>1. /\ caller'[c].pc = "revoke" /\ caller'[c].on = t /\ caller'[c].event = caller[c].event
    BY <1>2, <1>6, GotoFrame DEF Inv, Pcs, Target
  <2>2. CallerOk(c)'
    BY <1>1, <1>2, <1>3, <2>1, ReleaseGoesOn DEF Releasing, rowVars
  <2>3. QED
    BY <1>1, <1>6, <2>2, GotoStep DEF Pcs, diskVars
<1>7. CASE /\ row[t].state = "approved"
           /\ greenDir' = [greenDir EXCEPT ![t] = TRUE]
           /\ caller' = [caller EXCEPT ![c].pc = "locate", ![c].src = row[t].path]
  <2>1. /\ caller \in [Callers -> Call] /\ caller[c] \in Call
        /\ row[t] \in Row /\ greenDir \in [Transfers -> BOOLEAN]
    BY RowsAreTypes DEF Inv, Rows
  <2>2. PICK src \in Places : src = row[t].path
    BY <2>1 DEF Row
  <2>3. PICK k : k = [caller[c] EXCEPT !.pc = "locate", !.src = src]
    OBVIOUS
  <2>4. /\ k \in Call /\ k.pc = "locate" /\ k.src = src /\ k.on = caller[c].on
        /\ k.event = caller[c].event
    BY <2>1, <2>2, <2>3 DEF Call, Pcs
  <2>5. caller' = [caller EXCEPT ![c] = k]
    BY <1>7, <2>1, <2>2, <2>3
  <2>6. /\ caller' \in [Callers -> Call] /\ caller'[c] = k
        /\ \A d \in Callers \ {c} : caller'[d] = caller[d]
    BY <2>1, <2>4, <2>5
  <2>7. greenDir' \in [Transfers -> BOOLEAN] /\ greenDir'[t]
        /\ \A u \in Transfers \ {t} : greenDir'[u] = greenDir[u]
    BY <1>7, <2>1
  <2>8. src \in {"isolation", "green"}
    BY <1>3, <1>7, <2>2 DEF RowOk, Places
  <2>9. CallerOk(c)'
    BY <1>1, <1>2, <1>3, <2>2, <2>4, <2>6, <2>7, <2>8, ReleaseGoesOn
       DEF Releasing, rowVars, Target
  <2>10. Onward(t) /\ RowOk(t)'
    BY <1>1, <1>3, <2>7 DEF Onward, RowOk, Alive, InBuffer, rowVars
  <2>11. Carried(t)
    BY <1>1, <2>7 DEF Carried, rowVars
  <2>12. Progress /\ \A u \in Transfers : RowOk(u)'
    BY <2>10, <2>11, CarriedStep
  <2>13. QED
    BY <1>1, <2>6, <2>7, <2>9, <2>12, CallStepInv, RowsAreTypes DEF Inv, Rows, rowVars
<1>8. QED
  BY <1>2, <1>4, <1>5, <1>6, <1>7 DEF Release

LEMMA LocateStep ==
  ASSUME Inv, NEW c \in Callers, Locate(c)
  PROVE  Inv'
<1>1. CallAt(c, "locate") /\ caller[c].pc \in Releasing /\ caller[c].pc \in Working
      /\ UNCHANGED <<worldVars, rowVars, diskVars, scanner, events, mt, boot, crashes, glitches>>
  BY DEF Locate, CallAt, Releasing, Working
<1>2. PICK t \in Transfers : t = Target(c)
  BY <1>1, AtWork
<1>3. /\ row[t].state \in Approvable /\ row[t].actor \in Deciders /\ ReleaseOk(c)
  BY <1>1, <1>2, InRelease
<1>4. PICK pc \in {"seal", "repath", "move"} :
        /\ CallGoto(c, pc)
        /\ pc = "seal" => caller[c].src = "green"
        /\ pc = "repath" => file[t] = "green"
  BY <1>2 DEF Locate
<1>5. pc \in Pcs /\ pc \in Releasing
  BY <1>4 DEF Pcs, Releasing
<1>6. caller'[c].pc = pc /\ caller'[c].on = t /\ caller'[c].event = caller[c].event
  BY <1>2, <1>4, <1>5, GotoFrame DEF Inv, Target
<1>7. /\ pc = "move" /\ Alive(t)' /\ glitches' = 0 => greenDir'[t]
      /\ pc = "repath" /\ Alive(t)' => InBuffer(t)'
      /\ pc = "seal" /\ Alive(t)' => row'[t].path = "green"
  BY <1>1, <1>2, <1>3, <1>4 DEF ReleaseOk, CallAt, Alive, InBuffer, rowVars, diskVars
<1>8. CallerOk(c)'
  BY <1>1, <1>2, <1>3, <1>4, <1>5, <1>6, <1>7, ReleaseGoesOn DEF rowVars
<1>9. QED
  BY <1>1, <1>4, <1>5, <1>8, GotoStep

LEMMA MoveStep ==
  ASSUME Inv, NEW c \in Callers, Move(c)
  PROVE  Inv'
<1>1. CallAt(c, "move") /\ caller[c].pc \in Releasing /\ caller[c].pc \in Working
      /\ UNCHANGED <<worldVars, rowVars, greenDir, scanner, events, mt, boot, crashes, glitches>>
  BY DEF Move, CallAt, Releasing, Working
<1>2. PICK t \in Transfers : t = Target(c)
  BY <1>1, AtWork
<1>3. /\ row[t].state \in Approvable /\ row[t].actor \in Deciders /\ ReleaseOk(c) /\ RowOk(t)
  BY <1>1, <1>2, InRelease
<1>4. file \in [Transfers -> Places]
  BY RowsAreTypes DEF Inv, Rows
<1>5. CASE file[t] = "isolation" /\ greenDir[t]
  <2>1. file' = [file EXCEPT ![t] = "green"] /\ CallGoto(c, "repath")
    BY <1>2, <1>5 DEF Move
  <2>2. file' \in [Transfers -> Places] /\ file'[t] = "green"
        /\ \A u \in Transfers \ {t} : file'[u] = file[u]
    BY <1>4, <2>1 DEF Places
  <2>3. /\ caller' \in [Callers -> Call]
        /\ \A d \in Callers \ {c} : caller'[d] = caller[d]
        /\ caller'[c].pc = "repath" /\ caller'[c].on = t
        /\ caller'[c].event = caller[c].event
    BY <1>2, <2>1, GotoFrame DEF Inv, Pcs, Target
  <2>4. CallerOk(c)'
    BY <1>1, <1>2, <1>3, <2>2, <2>3, ReleaseGoesOn DEF Releasing, rowVars, InBuffer
  <2>5. Onward(t) /\ RowOk(t)'
    BY <1>1, <1>3, <2>2 DEF Onward, RowOk, Alive, InBuffer, rowVars
  <2>6. Progress /\ \A u \in Transfers : RowOk(u)'
    BY <1>1, <2>2, <2>5, CarriedStep DEF Carried, rowVars
  <2>7. QED
    BY <1>1, <2>2, <2>3, <2>4, <2>6, CallStepInv, RowsAreTypes DEF Inv, Rows, rowVars
<1>6. CASE ~(file[t] = "isolation" /\ greenDir[t])
  <2>1. CallGoto(c, "cleanup") /\ UNCHANGED file
    BY <1>2, <1>6 DEF Move
  <2>2. /\ caller'[c].pc = "cleanup" /\ caller'[c].on = t
        /\ caller'[c].event = caller[c].event
    BY <1>2, <2>1, GotoFrame DEF Inv, Pcs, Target
  <2>3. Alive(t) /\ glitches = 0 => file[t] = "green"
    <3>1. SUFFICES ASSUME Alive(t), glitches = 0
                   PROVE  file[t] = "green"
      OBVIOUS
    <3>2. file[t] # "isolation"
      BY <1>1, <1>2, <1>3, <1>6, <3>1 DEF ReleaseOk, CallAt
    <3>3. file[t] # "none"
      BY <1>3, <3>1 DEF RowOk, Alive, Approvable, InBuffer
    <3>4. QED
      BY <1>4, <3>2, <3>3 DEF Places
  <2>4. CallerOk(c)'
    BY <1>1, <1>2, <1>3, <2>1, <2>2, <2>3, ReleaseGoesOn DEF Releasing, rowVars, Alive
  <2>5. QED
    BY <1>1, <2>1, <2>4, GotoStep DEF Pcs, diskVars
<1>7. QED
  BY <1>5, <1>6

LEMMA CleanUpStep ==
  ASSUME Inv, NEW c \in Callers, CleanUp(c)
  PROVE  Inv'
<1>1. CallAt(c, "cleanup") /\ caller[c].pc \in Releasing /\ caller[c].pc \in Working
      /\ UNCHANGED <<worldVars, rowVars, diskVars, scanner, events, mt, boot, crashes, glitches>>
  BY DEF CleanUp, CallAt, Releasing, Working
<1>2. PICK t \in Transfers : t = Target(c)
  BY <1>1, AtWork
<1>3. /\ row[t].state \in Approvable /\ row[t].actor \in Deciders /\ ReleaseOk(c)
  BY <1>1, <1>2, InRelease
<1>4. CASE CallEnds(c, "refused")
  BY <1>1, <1>4, EndsStep, GlitchesCounted, RowsAreTypes DEF Inv, Counted, Rows, Ended
<1>5. CASE file[t] # "green" /\ CallGoto(c, "rmtree")
  <2>1. caller'[c].pc = "rmtree" /\ caller'[c].on = t /\ caller'[c].event = caller[c].event
    BY <1>2, <1>5, GotoFrame DEF Inv, Pcs, Target
  <2>2. glitches = 0 => ~Alive(t)
    BY <1>1, <1>2, <1>3, <1>5 DEF ReleaseOk, CallAt
  <2>3. CallerOk(c)'
    BY <1>1, <1>2, <1>3, <2>1, <2>2, ReleaseGoesOn DEF Releasing, rowVars, Alive
  <2>4. QED
    BY <1>1, <1>5, <2>3, GotoStep DEF Pcs
<1>6. QED
  BY <1>2, <1>4, <1>5 DEF CleanUp

LEMMA RemoveDirStep ==
  ASSUME Inv, NEW c \in Callers, RemoveDir(c)
  PROVE  Inv'
<1>1. /\ CallAt(c, "rmtree") /\ caller[c].pc \in Releasing /\ caller[c].pc \in Working
      /\ CallEnds(c, "refused")
      /\ UNCHANGED <<worldVars, rowVars, scanner, events, mt, boot, crashes, glitches>>
  BY DEF RemoveDir, CallAt, Releasing, Working
<1>2. PICK t \in Transfers : t = Target(c)
  BY <1>1, AtWork
<1>3. row[t].state \in Approvable /\ ReleaseOk(c) /\ RowOk(t)
  BY <1>1, <1>2, InRelease
<1>4. /\ file \in [Transfers -> Places] /\ greenDir \in [Transfers -> BOOLEAN]
      /\ glitches \in Nat
  BY RowsAreTypes, GlitchesCounted DEF Inv, Rows
<1>5. /\ greenDir' = [greenDir EXCEPT ![t] = FALSE]
      /\ file' = [file EXCEPT ![t] = IF @ = "green" THEN "none" ELSE @]
  BY <1>2 DEF RemoveDir
<1>6. /\ greenDir' \in [Transfers -> BOOLEAN] /\ file' \in [Transfers -> Places]
      /\ \A u \in Transfers \ {t} : file'[u] = file[u] /\ greenDir'[u] = greenDir[u]
      /\ file'[t] = IF file[t] = "green" THEN "none" ELSE file[t]
  BY <1>4, <1>5 DEF Places
<1>7. Alive(t) => glitches > 0
  BY <1>1, <1>2, <1>3, <1>4 DEF ReleaseOk, CallAt
<1>8. glitches' = glitches /\ row' = row /\ (Alive(t)' <=> Alive(t))
  BY <1>1 DEF rowVars, Alive
<1>9. (Alive(t) /\ InBuffer(t)) => InBuffer(t)'
  BY <1>6, <1>7, <1>8 DEF InBuffer
<1>10. Onward(t)
  BY <1>3, <1>4, <1>6, <1>7, <1>8, <1>9 DEF Onward
<1>11. RowOk(t)'
  BY <1>3, <1>4, <1>6, <1>7, <1>8, <1>9 DEF RowOk, Alive
<1>12. Progress /\ \A u \in Transfers : RowOk(u)'
  BY <1>6, <1>8, <1>10, <1>11, CarriedStep DEF Carried
<1>13. /\ caller' \in [Callers -> Call]
       /\ \A d \in Callers \ {c} : caller'[d] = caller[d]
       /\ CallerOk(c)'
  BY <1>1, EndsFrame DEF Inv, Ended
<1>14. QED
  BY <1>1, <1>6, <1>12, <1>13, CallStepInv, RowsAreTypes DEF Inv, Rows, rowVars

LEMMA RepathStep ==
  ASSUME Inv, NEW c \in Callers, Repath(c)
  PROVE  Inv'
<1>1. /\ CallAt(c, "repath") /\ caller[c].pc \in Releasing /\ caller[c].pc \in Working
      /\ CallGoto(c, "seal")
      /\ UNCHANGED <<worldVars, late, diskVars, scanner, events, mt, boot, crashes, glitches>>
  BY DEF Repath, CallAt, Releasing, Working
<1>2. PICK t \in Transfers : t = Target(c)
  BY <1>1, AtWork
<1>3. row[t].state \in Approvable /\ row[t].actor \in Deciders /\ ReleaseOk(c) /\ RowOk(t)
  BY <1>1, <1>2, InRelease
<1>4. /\ caller' \in [Callers -> Call]
      /\ \A d \in Callers \ {c} : caller'[d] = caller[d]
      /\ caller'[c].pc = "seal" /\ caller'[c].on = t
      /\ caller'[c].event = caller[c].event
  BY <1>1, <1>2, GotoFrame DEF Inv, Pcs, Target
<1>5. Alive(t) => InBuffer(t)
  BY <1>1, <1>2, <1>3 DEF ReleaseOk, CallAt
<1>6. CASE row[t].state = "approved"
  <2>1. row' = [row EXCEPT ![t].path = "green"]
    BY <1>2, <1>6 DEF Repath
  <2>2. row \in [Transfers -> Row] /\ row[t] \in Row
    BY RowsAreTypes DEF Inv, Rows
  <2>3. PICK r : r = [row[t] EXCEPT !.path = "green"]
    OBVIOUS
  <2>4. r \in Row /\ r.path = "green" /\ r.state = row[t].state /\ r.actor = row[t].actor
    BY <2>2, <2>3 DEF Row, Places
  <2>5. row' = [row EXCEPT ![t] = r]
    BY <2>1, <2>2, <2>3
  <2>6. /\ row' \in [Transfers -> Row] /\ row'[t] = r
        /\ \A u \in Transfers \ {t} : row'[u] = row[u]
    BY <2>2, <2>4, <2>5
  <2>7. Onward(t) /\ RowOk(t)'
    BY <1>1, <1>3, <1>5, <1>6, <2>4, <2>6 DEF Onward, RowOk, Alive, InBuffer, diskVars
  <2>8. Progress /\ \A u \in Transfers : RowOk(u)'
    BY <1>1, <2>6, <2>7, CarriedStep DEF Carried, diskVars
  <2>9. CallerOk(c)'
    BY <1>1, <1>2, <1>3, <1>4, <2>4, <2>6, ReleaseGoesOn DEF Releasing
  <2>10. QED
    BY <1>1, <1>4, <2>6, <2>8, <2>9, CallStepInv, RowsAreTypes DEF Inv, Rows, diskVars
<1>7. CASE row[t].state # "approved"
  <2>1. UNCHANGED row
    BY <1>2, <1>7 DEF Repath
  <2>2. Alive(t) => row[t].path = "green"
    BY <1>3, <1>7 DEF Alive, Approvable, RowOk
  <2>3. CallerOk(c)'
    BY <1>1, <1>2, <1>3, <1>4, <2>1, <2>2, ReleaseGoesOn DEF Releasing, Alive
  <2>4. QED
    BY <1>1, <2>1, <2>3, GotoStep DEF Pcs, rowVars
<1>8. QED
  BY <1>6, <1>7

LEMMA SealStep ==
  ASSUME Inv, NEW c \in Callers, Seal(c)
  PROVE  Inv'
<1>1. CallAt(c, "seal") /\ caller[c].pc \in Releasing /\ caller[c].pc \in Working
      /\ UNCHANGED <<worldVars, rowVars, diskVars, scanner, events, mt, boot, crashes, glitches>>
  BY DEF Seal, CallAt, Releasing, Working
<1>2. PICK t \in Transfers : t = Target(c)
  BY <1>1, AtWork
<1>3. /\ row[t].state \in Approvable /\ row[t].actor \in Deciders /\ ReleaseOk(c)
  BY <1>1, <1>2, InRelease
<1>4. CASE CallEnds(c, "raised")
  BY <1>1, <1>4, EndsStep, GlitchesCounted, RowsAreTypes DEF Inv, Counted, Rows, Ended
<1>5. CASE CallGoto(c, "settle")
  <2>1. caller'[c].pc = "settle" /\ caller'[c].on = t /\ caller'[c].event = caller[c].event
    BY <1>2, <1>5, GotoFrame DEF Inv, Pcs, Target
  <2>2. Alive(t) => row[t].path = "green"
    BY <1>1, <1>2, <1>3 DEF ReleaseOk, CallAt
  <2>3. CallerOk(c)'
    BY <1>1, <1>2, <1>3, <2>1, <2>2, ReleaseGoesOn DEF Releasing, rowVars, Alive
  <2>4. QED
    BY <1>1, <1>5, <2>3, GotoStep DEF Pcs
<1>6. QED
  BY <1>4, <1>5 DEF Seal

LEMMA SettleStep ==
  ASSUME Inv, NEW c \in Callers, Settle(c)
  PROVE  Inv'
<1>1. CallAt(c, "settle") /\ caller[c].pc \in Releasing /\ caller[c].pc \in Working
      /\ UNCHANGED <<worldVars, diskVars, scanner, events, mt, boot, crashes, glitches>>
  BY DEF Settle, CallAt, Releasing, Working
<1>2. PICK t \in Transfers : t = Target(c)
  BY <1>1, AtWork
<1>3. /\ row[t].state \in Approvable /\ ReleaseOk(c)
  BY <1>1, <1>2, InRelease
<1>4. CASE CanMove(t, "released_to_green")
  <2>1. /\ row' = Moved(t, "released_to_green") /\ Punctual(t) /\ CallEnds(c, "done")
    BY <1>2, <1>4 DEF Settle, Transition
  <2>2. /\ row' \in [Transfers -> Row] /\ late' \in [Transfers -> BOOLEAN]
        /\ \A u \in Transfers \ {t} : row'[u] = row[u]
        /\ row'[t].state = "released_to_green" /\ row'[t].actor = row[t].actor
        /\ row'[t].path = row[t].path
    BY <2>1, MovedFrame, PunctualFrame DEF Inv, States
  <2>3. row[t].path = "green"
    <3>1. Alive(t)
      BY <1>4, Pipeline DEF CanMove, Alive
    <3>2. QED
      BY <1>1, <1>2, <1>3, <3>1 DEF ReleaseOk, CallAt
  <2>4. Passes(t)
    BY <1>1, <1>4, <2>2, <2>3 DEF Passes, CanMove, diskVars
  <2>5. Progress /\ \A u \in Transfers : RowOk(u)'
    BY <1>1, <2>4, PassesStep, GlitchesCounted DEF Inv, Counted
  <2>6. \A e \in Events : caller[c].event = e => HasEffect(e)'
    <3>1. ASSUME NEW e \in Events, caller[c].event = e
          PROVE  HasEffect(e)'
      <4>1. e.on = t /\ e.approves
        BY <1>1, <1>2, <3>1, AtWork DEF Inv, CallerOk, MeaningOk
      <4>2. QED
        BY <2>2, <4>1 DEF HasEffect
    <3>2. QED
      BY <3>1
  <2>7. /\ caller' \in [Callers -> Call]
        /\ \A d \in Callers \ {c} : caller'[d] = caller[d]
        /\ CallerOk(c)'
    BY <1>1, <2>1, <2>6, EndsFrame DEF Inv, Ended
  <2>8. QED
    BY <1>1, <2>2, <2>5, <2>7, CallStepInv, RowsAreTypes DEF Inv, Rows, diskVars
<1>5. CASE ~CanMove(t, "released_to_green")
  <2>1. CallEnds(c, "raised") /\ UNCHANGED rowVars
    BY <1>2, <1>5 DEF Settle
  <2>2. QED
    BY <1>1, <2>1, EndsStep, GlitchesCounted, RowsAreTypes DEF Inv, Counted, Rows, Ended
<1>6. QED
  BY <1>4, <1>5

\* A glitch is counted within its bound.
LEMMA GlitchFrame ==
  ASSUME TypeOK, Glitch
  PROVE  Counted /\ glitches' \in 0..MaxGlitches /\ glitches' > 0 /\ crashes' = crashes
<1>1. glitches \in 0..MaxGlitches /\ MaxGlitches \in Nat
  BY OutboundConstants, RowsAreTypes DEF Rows
<1>2. QED
  BY <1>1 DEF Glitch, Counted

LEMMA CallGlitchStep ==
  ASSUME Inv, NEW c \in Callers, CallGlitch(c)
  PROVE  Inv'
<1>1. /\ Counted /\ glitches' \in 0..MaxGlitches /\ glitches' > 0 /\ crashes' = crashes
      /\ UNCHANGED <<worldVars, rowVars, diskVars, scanner, events, mt, boot>>
  BY GlitchFrame DEF CallGlitch, Inv
<1>2. CASE caller[c].pc \in {"locate", "move"} /\ CallGoto(c, "cleanup")
  <2>1. caller[c].pc \in Releasing /\ caller[c].pc \in Working
    BY <1>2 DEF Releasing, Working
  <2>2. PICK t \in Transfers : t = Target(c)
    BY <2>1, AtWork
  <2>3. row[t].state \in Approvable /\ row[t].actor \in Deciders
    BY <2>1, <2>2, InRelease
  <2>4. /\ caller' \in [Callers -> Call]
        /\ \A d \in Callers \ {c} : caller'[d] = caller[d]
        /\ caller'[c].pc = "cleanup" /\ caller'[c].on = t
        /\ caller'[c].event = caller[c].event
    BY <1>2, <2>2, GotoFrame DEF Inv, Pcs, Target
  <2>5. ~(glitches' = 0) /\ row' = row
    BY <1>1 DEF rowVars
  <2>6. CallerOk(c)'
    BY <2>1, <2>2, <2>3, <2>4, <2>5, ReleaseGoesOn DEF Releasing
  <2>7. Progress /\ \A u \in Transfers : RowOk(u)'
    BY <1>1, Still DEF rowVars, diskVars
  <2>8. QED
    BY <1>1, <2>4, <2>6, <2>7, CallStepInv, RowsAreTypes DEF Inv, Rows, rowVars, diskVars
<1>3. CASE caller[c].pc \in Working /\ CallEnds(c, "raised")
  BY <1>1, <1>3, EndsStep DEF Ended
<1>4. QED
  BY <1>2, <1>3 DEF CallGlitch, Working, Deciding, Releasing

------------------------------------------------------------------------------
(* Requests that are one transaction.                                      *)

\* A transition that is neither a decision nor a release.
LEMMA TransitionStep ==
  ASSUME Inv, NEW t \in Transfers, NEW s \in States \ Decided, Transition(t, s),
         UNCHANGED diskVars, Counted
  PROVE  /\ Progress /\ \A u \in Transfers : RowOk(u)'
         /\ row' \in [Transfers -> Row] /\ late' \in [Transfers -> BOOLEAN]
         /\ row'[t].state = s
<1>1. /\ row' \in [Transfers -> Row] /\ late' \in [Transfers -> BOOLEAN]
      /\ \A u \in Transfers \ {t} : row'[u] = row[u]
      /\ row'[t].state = s /\ row'[t].actor = row[t].actor /\ row'[t].path = row[t].path
  BY MovedFrame, PunctualFrame DEF Inv, Transition
<1>2. Passes(t)
  BY <1>1 DEF Passes, Transition, CanMove, diskVars, Decided
<1>3. QED
  BY <1>1, <1>2, PassesStep

\* A step that leaves the threads alone.
LEMMA RequestStepInv ==
  ASSUME Inv, Progress, \A t \in Transfers : RowOk(t)',
         policy' \in [permits: BOOLEAN, provider: Providers],
         row' \in [Transfers -> Row], file' \in [Transfers -> Places],
         late' \in [Transfers -> BOOLEAN],
         UNCHANGED <<relay, greenDir, scanner, caller, events, mt, boot, crashes, glitches>>
  PROVE  Inv'
<1>1. TypeOK'
  BY RowsAreTypes, RowsAreTypesNext DEF Inv, Rows
<1>2. QED
  BY <1>1, StepKeepsInv

LEMMA SetPolicyStep ==
  ASSUME Inv, NEW p \in [permits: BOOLEAN, provider: Providers], SetPolicy(p)
  PROVE  Inv'
<1>1. Progress /\ \A t \in Transfers : RowOk(t)'
  BY Still, GlitchesCounted DEF Inv, Counted, SetPolicy, rowVars, diskVars
<1>2. QED
  BY <1>1, RequestStepInv, RowsAreTypes DEF Inv, Rows, SetPolicy, rowVars, diskVars

LEMMA UploadStep ==
  ASSUME Inv, NEW t \in Transfers, Upload(t)
  PROVE  Inv'
<1>1. /\ row[t].state = "absent"
      /\ row' = [row EXCEPT ![t] = [NoRow EXCEPT !.state = "pending_scan", !.path = "isolation",
                                                 !.provider = policy.provider]]
      /\ file' = [file EXCEPT ![t] = "isolation"]
      /\ UNCHANGED <<worldVars, greenDir, late, scanner, caller, events, mt, boot, crashes, glitches>>
  BY DEF Upload
<1>2. /\ row \in [Transfers -> Row] /\ file \in [Transfers -> Places]
      /\ policy.provider \in Providers
  BY RowsAreTypes DEF Inv, Rows
<1>3. PICK p \in Providers : p = policy.provider
  BY <1>2
<1>4. PICK r : r = [NoRow EXCEPT !.state = "pending_scan", !.path = "isolation", !.provider = p]
  OBVIOUS
<1>5. /\ r \in Row /\ r.state = "pending_scan" /\ r.path = "isolation" /\ r.actor = Nobody
  BY <1>3, <1>4 DEF NoRow, Row, States, Places
<1>6. /\ row' \in [Transfers -> Row] /\ row'[t] = r
      /\ \A u \in Transfers \ {t} : row'[u] = row[u]
  BY <1>1, <1>2, <1>3, <1>4, <1>5
<1>7. /\ file' \in [Transfers -> Places] /\ file'[t] = "isolation"
      /\ \A u \in Transfers \ {t} : file'[u] = file[u]
  BY <1>1, <1>2 DEF Places
<1>8. RowOk(t)
  BY DEF Inv
<1>9. Onward(t)
  BY <1>1, <1>5, <1>6, <1>8, NobodyDecides
     DEF Onward, RowOk, Undecided, Decidable, Approvable, Alive
<1>10. RowOk(t)'
  BY <1>5, <1>6, <1>7 DEF RowOk, Undecided, Decided, Approvable
<1>11. Progress /\ \A u \in Transfers : RowOk(u)'
  BY <1>1, <1>6, <1>7, <1>9, <1>10, CarriedStep DEF Carried
<1>12. QED
  BY <1>1, <1>6, <1>7, <1>11, RequestStepInv, RowsAreTypes DEF Inv, Rows, worldVars

LEMMA RescanStep ==
  ASSUME Inv, NEW t \in Transfers, Rescan(t)
  PROVE  Inv'
<1>1. /\ Progress /\ \A u \in Transfers : RowOk(u)'
      /\ row' \in [Transfers -> Row] /\ late' \in [Transfers -> BOOLEAN]
  BY TransitionStep, GlitchesCounted DEF Inv, Counted, Rescan, States, Decided
<1>2. QED
  BY <1>1, RequestStepInv, RowsAreTypes DEF Inv, Rows, Rescan, worldVars, diskVars

LEMMA ExpireStep ==
  ASSUME Inv, NEW t \in Transfers, Expire(t)
  PROVE  Inv'
<1>1. /\ Progress /\ \A u \in Transfers : RowOk(u)'
      /\ row' \in [Transfers -> Row] /\ late' \in [Transfers -> BOOLEAN]
  BY TransitionStep, GlitchesCounted DEF Inv, Counted, Expire, States, Decided
<1>2. QED
  BY <1>1, RequestStepInv, RowsAreTypes DEF Inv, Rows, Expire, worldVars, diskVars

LEMMA BecomesLateStep ==
  ASSUME Inv, NEW t \in Transfers, BecomesLate(t)
  PROVE  Inv'
<1>1. Progress /\ \A u \in Transfers : RowOk(u)'
  BY Still, GlitchesCounted DEF Inv, Counted, BecomesLate, diskVars
<1>2. late' \in [Transfers -> BOOLEAN]
  BY RowsAreTypes DEF Inv, Rows, BecomesLate
<1>3. QED
  BY <1>1, <1>2, RequestStepInv, RowsAreTypes DEF Inv, Rows, BecomesLate, worldVars, diskVars

------------------------------------------------------------------------------
(* Steps of a scan.                                                        *)

LEMMA ScanGotoFrame ==
  ASSUME TypeOK, NEW w \in Workers, NEW pc \in ScanPcs, ScanGoto(w, pc)
  PROVE  /\ scanner' \in [Workers -> Scanner]
         /\ \A v \in Workers \ {w} : scanner'[v] = scanner[v]
         /\ scanner'[w].on = scanner[w].on
<1>1. scanner \in [Workers -> Scanner] /\ scanner[w] \in Scanner
  BY RowsAreTypes DEF Rows
<1>2. PICK k : k = [scanner[w] EXCEPT !.pc = pc]
  OBVIOUS
<1>3. k \in Scanner /\ k.on = scanner[w].on
  BY <1>1, <1>2 DEF Scanner
<1>4. scanner' = [scanner EXCEPT ![w] = k]
  BY <1>1, <1>2 DEF ScanGoto
<1>5. QED
  BY <1>1, <1>3, <1>4

LEMMA ScanEndsFrame ==
  ASSUME TypeOK, NEW w \in Workers, ScanEnds(w)
  PROVE  /\ scanner' \in [Workers -> Scanner]
         /\ \A v \in Workers \ {w} : scanner'[v] = scanner[v]
         /\ ScannerOk(w)'
BY RowsAreTypes DEF Rows, ScanEnds, Idle, Scanner, ScanPcs, ScannerOk, ScanAt

\* A worker that takes up a transfer.
LEMMA ScanBeginsFrame ==
  ASSUME TypeOK, NEW w \in Workers, NEW t \in Transfers, NEW pc \in ScanPcs,
         scanner' = [scanner EXCEPT ![w] = [Idle EXCEPT !.pc = pc, !.on = t]]
  PROVE  /\ scanner' \in [Workers -> Scanner]
         /\ \A v \in Workers \ {w} : scanner'[v] = scanner[v]
         /\ ScannerOk(w)'
<1>1. scanner \in [Workers -> Scanner]
  BY RowsAreTypes DEF Rows
<1>2. PICK k : k = [Idle EXCEPT !.pc = pc, !.on = t]
  OBVIOUS
<1>3. k \in Scanner /\ k.on = t
  BY <1>2 DEF Scanner, Idle
<1>4. scanner' = [scanner EXCEPT ![w] = k]
  BY <1>2
<1>5. QED
  BY <1>1, <1>3, <1>4 DEF ScannerOk, Scanned

\* A step of one scan, with or without a transition.
LEMMA ScanStepInv ==
  ASSUME Inv, Progress, \A t \in Transfers : RowOk(t)', NEW w \in Workers, ScannerOk(w)',
         scanner' \in [Workers -> Scanner],
         \A v \in Workers \ {w} : scanner'[v] = scanner[v],
         row' \in [Transfers -> Row], late' \in [Transfers -> BOOLEAN],
         relay' \in SUBSET Transfers, glitches' \in 0..MaxGlitches,
         UNCHANGED <<policy, diskVars, caller, events, mt, boot, crashes>>
  PROVE  Inv'
<1>1. TypeOK'
  BY RowsAreTypes, RowsAreTypesNext DEF Inv, Rows, diskVars
<1>2. QED
  BY <1>1, StepKeepsInv

\* A scan that goes on or ends without a transition.
LEMMA ScanIdles ==
  ASSUME Inv, NEW w \in Workers, scanner[w].pc # "idle",
         (\E pc \in ScanPcs : ScanGoto(w, pc)) \/ ScanEnds(w),
         relay' \in SUBSET Transfers, glitches' \in 0..MaxGlitches, Counted,
         UNCHANGED <<policy, rowVars, diskVars, caller, events, mt, boot, crashes>>
  PROVE  Inv'
<1>1. Progress /\ \A t \in Transfers : RowOk(t)'
  BY Still DEF rowVars, diskVars
<1>2. Scanned(w) \in Transfers
  BY DEF Inv, ScannerOk, ScanAt
<1>3. /\ scanner' \in [Workers -> Scanner]
      /\ \A v \in Workers \ {w} : scanner'[v] = scanner[v]
      /\ ScannerOk(w)'
  BY <1>2, ScanGotoFrame, ScanEndsFrame DEF Inv, ScannerOk, Scanned
<1>4. QED
  BY <1>1, <1>3, ScanStepInv, RowsAreTypes DEF Inv, Rows, rowVars

\* A scan that goes on or ends with a transition.
LEMMA ScanMoves ==
  ASSUME Inv, NEW w \in Workers, scanner[w].pc # "idle", NEW s \in States \ Decided,
         Transition(Scanned(w), s), (\E pc \in ScanPcs : ScanGoto(w, pc)) \/ ScanEnds(w),
         UNCHANGED <<worldVars, diskVars, caller, events, mt, boot, crashes, glitches>>
  PROVE  Inv'
<1>1. PICK t \in Transfers : t = Scanned(w)
  BY DEF Inv, ScannerOk, ScanAt
<1>2. Transition(t, s) /\ UNCHANGED diskVars /\ Counted
  BY <1>1, GlitchesCounted DEF Inv, Counted
<1>3. /\ Progress /\ \A u \in Transfers : RowOk(u)'
      /\ row' \in [Transfers -> Row] /\ late' \in [Transfers -> BOOLEAN]
  BY <1>2, TransitionStep
<1>4. /\ scanner' \in [Workers -> Scanner]
      /\ \A v \in Workers \ {w} : scanner'[v] = scanner[v]
      /\ ScannerOk(w)'
  BY <1>1, ScanGotoFrame, ScanEndsFrame DEF Inv, ScannerOk, Scanned
<1>5. QED
  BY <1>3, <1>4, ScanStepInv, RowsAreTypes DEF Inv, Rows, worldVars

LEMMA BeginScanStep ==
  ASSUME Inv, NEW w \in Workers, NEW t \in Transfers, BeginScan(w, t)
  PROVE  Inv'
<1>1. /\ Progress /\ \A u \in Transfers : RowOk(u)'
      /\ row' \in [Transfers -> Row] /\ late' \in [Transfers -> BOOLEAN]
  BY TransitionStep, GlitchesCounted DEF Inv, Counted, BeginScan, States, Decided
<1>2. /\ scanner' \in [Workers -> Scanner]
      /\ \A v \in Workers \ {w} : scanner'[v] = scanner[v]
      /\ ScannerOk(w)'
  BY ScanBeginsFrame DEF Inv, BeginScan, ScanPcs
<1>3. QED
  BY <1>1, <1>2, ScanStepInv, RowsAreTypes DEF Inv, Rows, BeginScan, worldVars

LEMMA JudgeStep ==
  ASSUME Inv, NEW w \in Workers, Judge(w)
  PROVE  Inv'
<1>1. /\ scanner[w].pc # "idle"
      /\ UNCHANGED <<worldVars, rowVars, diskVars, caller, events, mt, boot, crashes, glitches>>
  BY DEF Judge, ScanAt
<1>2. CASE ScanGoto(w, "hold")
  BY <1>1, <1>2, ScanIdles, RowsAreTypes, GlitchesCounted
     DEF Inv, Rows, ScanPcs, Counted, worldVars
<1>3. CASE scanner' = [scanner EXCEPT ![w].pc = "classify", ![w].provider = policy.provider]
  <2>1. /\ scanner \in [Workers -> Scanner] /\ scanner[w] \in Scanner
        /\ policy.provider \in Providers
    BY RowsAreTypes DEF Inv, Rows
  <2>2. PICK p \in Providers : p = policy.provider
    BY <2>1
  <2>3. PICK k : k = [scanner[w] EXCEPT !.pc = "classify", !.provider = p]
    OBVIOUS
  <2>4. k \in Scanner /\ k.on = scanner[w].on
    BY <2>1, <2>2, <2>3 DEF Scanner, ScanPcs
  <2>5. scanner' = [scanner EXCEPT ![w] = k]
    BY <1>3, <2>1, <2>2, <2>3
  <2>6. /\ scanner' \in [Workers -> Scanner] /\ scanner'[w] = k
        /\ \A v \in Workers \ {w} : scanner'[v] = scanner[v]
    BY <2>1, <2>4, <2>5
  <2>7. ScannerOk(w)'
    BY <1>1, <2>4, <2>6 DEF Inv, ScannerOk, ScanAt, Scanned
  <2>8. Progress /\ \A t \in Transfers : RowOk(t)'
    BY <1>1, Still, GlitchesCounted DEF Inv, Counted, rowVars, diskVars
  <2>9. QED
    BY <1>1, <2>6, <2>7, <2>8, ScanStepInv, RowsAreTypes DEF Inv, Rows, worldVars, rowVars
<1>4. QED
  BY <1>2, <1>3 DEF Judge

LEMMA HoldStep ==
  ASSUME Inv, NEW w \in Workers, Hold(w)
  PROVE  Inv'
<1>1. CASE CanMove(Scanned(w), "quarantined")
  BY <1>1, ScanMoves DEF Hold, ScanAt, States, Decided
<1>2. CASE ~CanMove(Scanned(w), "quarantined")
  BY <1>2, ScanIdles, RowsAreTypes, GlitchesCounted
     DEF Inv, Rows, Hold, ScanAt, ScanPcs, Counted, worldVars
<1>3. QED
  BY <1>1, <1>2

LEMMA ClassifyStep ==
  ASSUME Inv, NEW w \in Workers, Classify(w)
  PROVE  Inv'
<1>1. CASE CanMove(Scanned(w), "classified")
  BY <1>1, ScanMoves DEF Classify, ScanAt, ScanPcs, States, Decided
<1>2. CASE ~CanMove(Scanned(w), "classified")
  BY <1>2, ScanIdles, RowsAreTypes, GlitchesCounted
     DEF Inv, Rows, Classify, ScanAt, ScanPcs, Counted, worldVars
<1>3. QED
  BY <1>1, <1>2

LEMMA CreateApprovalStep ==
  ASSUME Inv, NEW w \in Workers, CreateApproval(w)
  PROVE  Inv'
<1>1. /\ scanner[w].pc # "idle" /\ \E pc \in ScanPcs : ScanGoto(w, pc)
      /\ UNCHANGED <<policy, rowVars, diskVars, caller, events, mt, boot, crashes, glitches>>
  BY DEF CreateApproval, ScanAt, ScanPcs
<1>2. Scanned(w) \in Transfers
  BY <1>1 DEF Inv, ScannerOk, ScanAt
<1>3. relay' \in SUBSET Transfers
  BY <1>2, RowsAreTypes DEF Inv, Rows, CreateApproval
<1>4. QED
  BY <1>1, <1>3, ScanIdles, RowsAreTypes, GlitchesCounted DEF Inv, Rows, Counted

LEMMA SubmitApprovalStep ==
  ASSUME Inv, NEW w \in Workers, SubmitApproval(w)
  PROVE  Inv'
<1>1. /\ scanner[w].pc # "idle"
      /\ UNCHANGED <<worldVars, diskVars, caller, events, mt, boot, crashes, glitches>>
  BY DEF SubmitApproval, ScanAt
<1>2. PICK t \in Transfers : t = Scanned(w)
  BY <1>1 DEF Inv, ScannerOk, ScanAt
<1>3. CASE ~CanMove(t, "pending_approval")
  BY <1>1, <1>2, <1>3, ScanIdles, RowsAreTypes, GlitchesCounted
     DEF Inv, Rows, SubmitApproval, ScanPcs, Counted, worldVars
<1>4. CASE CanMove(t, "pending_approval")
  <2>1. /\ row' = [row EXCEPT ![t].state = "pending_approval",
                              ![t].approval = scanner[w].provider]
        /\ Punctual(t) /\ ScanEnds(w)
    BY <1>2, <1>4 DEF SubmitApproval
  <2>2. /\ row \in [Transfers -> Row] /\ row[t] \in Row
        /\ scanner[w].provider \in Providers \cup {"none"}
    BY RowsAreTypes DEF Inv, Rows, Scanner
  <2>3. PICK p \in Providers \cup {"none"} : p = scanner[w].provider
    BY <2>2
  <2>4. PICK r : r = [row[t] EXCEPT !.state = "pending_approval", !.approval = p]
    OBVIOUS
  <2>5. /\ r \in Row /\ r.state = "pending_approval" /\ r.actor = row[t].actor
        /\ r.path = row[t].path
    BY <2>2, <2>3, <2>4 DEF Row, States
  <2>6. row' = [row EXCEPT ![t] = r]
    BY <2>1, <2>2, <2>3, <2>4
  <2>7. /\ row' \in [Transfers -> Row] /\ row'[t] = r
        /\ \A u \in Transfers \ {t} : row'[u] = row[u]
    BY <2>2, <2>5, <2>6
  <2>8. Passes(t)
    BY <1>1, <1>4, <2>5, <2>7 DEF Passes, CanMove, diskVars
  <2>9. Progress /\ \A u \in Transfers : RowOk(u)'
    BY <1>1, <2>8, PassesStep, GlitchesCounted DEF Inv, Counted
  <2>10. late' \in [Transfers -> BOOLEAN]
    BY <2>1, PunctualFrame DEF Inv
  <2>11. QED
    BY <1>1, <2>1, <2>7, <2>9, <2>10, ScanEndsFrame, ScanStepInv, RowsAreTypes
       DEF Inv, Rows, worldVars
<1>5. QED
  BY <1>3, <1>4

LEMMA FailScanStep ==
  ASSUME Inv, NEW w \in Workers, FailScan(w)
  PROVE  Inv'
<1>1. /\ scanner[w].pc # "idle"
      /\ (\E pc \in ScanPcs : ScanGoto(w, pc)) \/ ScanEnds(w)
      /\ UNCHANGED <<worldVars, rowVars, diskVars, caller, events, mt, boot, crashes, glitches>>
  BY DEF FailScan, ScanPcs
<1>2. QED
  BY <1>1, ScanIdles, RowsAreTypes, GlitchesCounted DEF Inv, Rows, Counted, worldVars

LEMMA FailClosedStep ==
  ASSUME Inv, NEW w \in Workers, FailClosed(w)
  PROVE  Inv'
<1>1. CASE CanMove(Scanned(w), "quarantined")
  BY <1>1, ScanMoves DEF FailClosed, ScanAt, States, Decided
<1>2. CASE ~CanMove(Scanned(w), "quarantined")
  BY <1>2, ScanIdles, RowsAreTypes, GlitchesCounted
     DEF Inv, Rows, FailClosed, ScanAt, Counted, worldVars
<1>3. QED
  BY <1>1, <1>2

LEMMA ScanGlitchStep ==
  ASSUME Inv, NEW w \in Workers, ScanGlitch(w)
  PROVE  Inv'
<1>1. /\ scanner[w].pc # "idle"
      /\ (\E pc \in ScanPcs : ScanGoto(w, pc)) \/ ScanEnds(w)
  BY DEF ScanGlitch, ScanPcs
<1>2. Counted /\ glitches' \in 0..MaxGlitches /\ crashes' = crashes
  BY GlitchFrame DEF Inv, ScanGlitch
<1>3. UNCHANGED <<worldVars, rowVars, diskVars, caller, events, mt, boot>>
  BY DEF ScanGlitch
<1>4. QED
  BY <1>1, <1>2, <1>3, ScanIdles, RowsAreTypes DEF Inv, Rows, worldVars

LEMMA DeadLetterStep ==
  ASSUME Inv, NEW w \in Workers, NEW t \in Transfers, DeadLetter(w, t)
  PROVE  Inv'
<1>1. Counted /\ glitches' \in 0..MaxGlitches /\ crashes' = crashes
  BY GlitchFrame DEF Inv, DeadLetter
<1>2. /\ scanner' \in [Workers -> Scanner]
      /\ \A v \in Workers \ {w} : scanner'[v] = scanner[v]
      /\ ScannerOk(w)'
  BY ScanBeginsFrame DEF Inv, DeadLetter, ScanPcs
<1>3. UNCHANGED <<worldVars, diskVars, caller, events, mt, boot>>
  BY DEF DeadLetter
<1>4. CASE row[t].state = "pending_scan"
  <2>1. /\ Progress /\ \A u \in Transfers : RowOk(u)'
        /\ row' \in [Transfers -> Row] /\ late' \in [Transfers -> BOOLEAN]
    BY <1>1, <1>3, <1>4, TransitionStep DEF DeadLetter, States, Decided
  <2>2. QED
    BY <1>1, <1>2, <1>3, <2>1, ScanStepInv, RowsAreTypes DEF Inv, Rows, worldVars
<1>5. CASE row[t].state # "pending_scan"
  <2>1. UNCHANGED rowVars
    BY <1>5 DEF DeadLetter
  <2>2. Progress /\ \A u \in Transfers : RowOk(u)'
    BY <1>1, <1>3, <2>1, Still DEF rowVars, diskVars
  <2>3. QED
    BY <1>1, <1>2, <1>3, <2>1, <2>2, ScanStepInv, RowsAreTypes DEF Inv, Rows, worldVars, rowVars
<1>6. QED
  BY <1>4, <1>5

------------------------------------------------------------------------------
(* Steps of the sweep.                                                     *)

SweepPcs == {"idle", "timeout", "timing out", "release", "expire", "expiring", "purge", "clear"}

LEMMA SweepFrame ==
  ASSUME NEW pc \in SweepPcs, NEW S \in SUBSET Transfers
  PROVE  /\ Sweep(pc, S) \in Mt /\ Sweep(pc, S).pc = pc /\ Sweep(pc, S).todo = S
         /\ NoSweep \in Mt /\ NoSweep.pc = "idle"
BY DEF Sweep, NoSweep, NoPaths, Mt, SweepPcs, States, Places

LEMMA SweptFrame ==
  ASSUME TypeOK, NEW t \in Transfers
  PROVE  /\ Swept(t) \in Mt /\ Swept(t).pc = mt.pc /\ Swept(t).todo = mt.todo \ {t}
         /\ Swept(t).current = mt.current
<1>1. mt \in Mt
  BY RowsAreTypes DEF Rows
<1>2. PICK m : m = Swept(t)
  OBVIOUS
<1>3. m = [mt EXCEPT !.todo = mt.todo \ {t}]
  BY <1>1, <1>2 DEF Swept, Mt
<1>4. m \in Mt /\ m.pc = mt.pc /\ m.todo = mt.todo \ {t} /\ m.current = mt.current
  BY <1>1, <1>3 DEF Mt
<1>5. QED
  BY <1>2, <1>4

\* A step of the sweep, perhaps with a transition or a call.
LEMMA SweepStepInv ==
  ASSUME Inv, Progress, \A t \in Transfers : RowOk(t)', mt' \in Mt, MtOk',
         row' \in [Transfers -> Row], late' \in [Transfers -> BOOLEAN],
         file' \in [Transfers -> Places], greenDir' \in [Transfers -> BOOLEAN],
         UNCHANGED <<worldVars, scanner, caller, events, boot, crashes, glitches>>
  PROVE  Inv'
<1>1. TypeOK'
  BY RowsAreTypes, RowsAreTypesNext DEF Inv, Rows, worldVars
<1>2. QED
  BY <1>1, StepKeepsInv

\* Only the sweep moves.
SweepOnly == UNCHANGED <<worldVars, rowVars, diskVars, scanner, caller, events, boot, crashes,
                         glitches>>

LEMMA SweepOnlyInv ==
  ASSUME Inv, SweepOnly, mt' \in Mt, MtOk'
  PROVE  Inv'
<1>1. UNCHANGED <<worldVars, row, late, file, greenDir, scanner, caller, events, boot, crashes,
                  glitches>>
  BY DEF SweepOnly, rowVars, diskVars
<1>2. Progress /\ \A t \in Transfers : RowOk(t)'
  BY <1>1, Still, GlitchesCounted DEF Inv, Counted
<1>3. QED
  BY <1>1, <1>2, SweepStepInv, RowsAreTypes DEF Inv, Rows

\* A new list of transfers, read from the rows as they are.
LEMMA Listing ==
  ASSUME Inv, SweepOnly, NEW pc \in {"idle", "timeout", "expire"},
         NEW S \in SUBSET Transfers, mt' = Sweep(pc, S) \/ mt' = NoSweep
  PROVE  Inv'
<1>1. pc \in SweepPcs
  BY DEF SweepPcs
<1>2. /\ Sweep(pc, S) \in Mt /\ NoSweep \in Mt
      /\ Sweep(pc, S).pc = pc /\ NoSweep.pc = "idle"
  BY <1>1, SweepFrame
<1>3. mt' \in Mt /\ mt'.pc \in {"idle", "timeout", "expire"}
  BY <1>2
<1>4. MtOk'
  BY <1>3 DEF MtOk
<1>5. QED
  BY <1>3, <1>4, SweepOnlyInv

LEMMA StartTimeoutsStep ==
  ASSUME Inv, StartTimeouts
  PROVE  Inv'
<1>1. PICK S \in SUBSET Transfers : mt' = Sweep("timeout", S)
  BY DEF StartTimeouts
<1>2. QED
  BY <1>1, Listing DEF StartTimeouts, SweepOnly

LEMMA StartReleasesStep ==
  ASSUME Inv, StartReleases
  PROVE  Inv'
<1>1. PICK S \in SUBSET Transfers : /\ S = {t \in Transfers : row[t].state = "approved"}
                                   /\ mt' = Sweep("release", S)
  BY DEF StartReleases
<1>2. SweepOnly
  BY DEF StartReleases, SweepOnly
<1>3. \A t \in S : row[t].state \in Approvable /\ row[t].actor \in Deciders
  BY <1>1 DEF Inv, RowOk, Decided, Approvable
<1>4. /\ Sweep("release", S) \in Mt /\ Sweep("release", S).pc = "release"
      /\ Sweep("release", S).todo = S
  BY <1>1, SweepFrame DEF SweepPcs
<1>5. mt' \in Mt /\ mt'.pc = "release" /\ mt'.todo = S
  BY <1>1, <1>4
<1>6. row' = row
  BY <1>2 DEF SweepOnly, rowVars
<1>7. MtOk'
  BY <1>3, <1>5, <1>6 DEF MtOk
<1>8. QED
  BY <1>2, <1>5, <1>7, SweepOnlyInv

LEMMA StartExpiringStep ==
  ASSUME Inv, StartExpiring
  PROVE  Inv'
<1>1. PICK S \in SUBSET Transfers : mt' = Sweep("expire", S)
  BY DEF StartExpiring
<1>2. QED
  BY <1>1, Listing DEF StartExpiring, SweepOnly

LEMMA EndSweepStep ==
  ASSUME Inv, EndSweep
  PROVE  Inv'
BY Listing DEF EndSweep, SweepOnly

\* What a transition in two halves has read.
LEMMA Reading ==
  ASSUME Inv, SweepOnly, NEW t \in Transfers, NEW s, NEW pc \in {"timing out", "expiring"},
         ReadFor(t, s, pc) \/ (mt.pc = "expire" /\ mt' = Swept(t))
  PROVE  Inv'
<1>1. CASE mt' = NoSweep
  BY <1>1, Listing
<1>2. CASE mt.pc = "expire" /\ mt' = Swept(t)
  <2>1. mt' \in Mt /\ mt'.pc = "expire"
    BY <1>2, SweptFrame DEF Inv
  <2>2. MtOk'
    BY <2>1 DEF MtOk
  <2>3. QED
    BY <2>1, <2>2, SweepOnlyInv
<1>3. CASE mt' = [Swept(t) EXCEPT !.pc = pc, !.current = t, !.seen = row[t].state]
  <2>1. PICK m \in Mt : m = Swept(t)
    BY SweptFrame DEF Inv
  <2>2. PICK seen \in States : seen = row[t].state
    BY RowsAreTypes DEF Inv, Rows, Row
  <2>3. mt' = [m EXCEPT !.pc = pc, !.current = t, !.seen = seen]
    BY <1>3, <2>1, <2>2
  <2>4. mt' \in Mt /\ mt'.pc = pc /\ mt'.current = t
    BY <2>3 DEF Mt
  <2>5. MtOk'
    BY <2>4 DEF MtOk
  <2>6. QED
    BY <2>4, <2>5, SweepOnlyInv
<1>4. QED
  BY <1>1, <1>2, <1>3 DEF ReadFor

\* ... and writes.
LEMMA Writing ==
  ASSUME Inv, NEW s \in {"quarantined", "expired"}, NEW pc \in {"timeout", "expire"},
         mt.pc \in {"timing out", "expiring"}, WriteRead(s, pc),
         UNCHANGED <<worldVars, diskVars, scanner, caller, events, boot, crashes, glitches>>
  PROVE  Inv'
<1>1. PICK t \in Transfers : t = mt.current
  BY DEF Inv, MtOk
<1>2. CASE mt' = NoSweep /\ UNCHANGED rowVars
  <2>1. SweepOnly
    BY <1>2 DEF SweepOnly
  <2>2. QED
    BY <1>2, <2>1, Listing
<1>3. CASE Transition(t, s) /\ mt' = Sweep(pc, mt.todo)
  <2>1. s \in States \ Decided /\ pc \in SweepPcs
    BY DEF States, Decided, SweepPcs
  <2>2. Transition(t, s) /\ Counted /\ UNCHANGED diskVars
    BY <1>3, NotCounting DEF Inv
  <2>3. /\ Progress /\ \A u \in Transfers : RowOk(u)'
        /\ row' \in [Transfers -> Row] /\ late' \in [Transfers -> BOOLEAN]
    BY <2>1, <2>2, TransitionStep
  <2>4. PICK S \in SUBSET Transfers : S = mt.todo
    BY RowsAreTypes DEF Inv, Rows, Mt
  <2>5. Sweep(pc, S) \in Mt /\ Sweep(pc, S).pc = pc
    BY <2>1, SweepFrame
  <2>6. mt' \in Mt /\ mt'.pc = pc
    BY <1>3, <2>4, <2>5
  <2>7. MtOk'
    BY <2>6 DEF MtOk
  <2>8. QED
    BY <2>3, <2>6, <2>7, SweepStepInv, RowsAreTypes DEF Inv, Rows, diskVars
<1>4. QED
  BY <1>1, <1>2, <1>3 DEF WriteRead

LEMMA ReadStuckStep ==
  ASSUME Inv, NEW t \in Transfers, ReadStuck(t)
  PROVE  Inv'
BY Reading DEF ReadStuck, SweepOnly

LEMMA ReadDueStep ==
  ASSUME Inv, NEW t \in Transfers, ReadDue(t)
  PROVE  Inv'
<1>1. ReadFor(t, "expired", "expiring") \/ (mt.pc = "expire" /\ mt' = Swept(t))
  BY DEF ReadDue
<1>2. QED
  BY <1>1, Reading DEF ReadDue, SweepOnly

LEMMA TimeOutScanStep ==
  ASSUME Inv, TimeOutScan
  PROVE  Inv'
BY Writing DEF TimeOutScan

LEMMA ExpireDueStep ==
  ASSUME Inv, ExpireDue
  PROVE  Inv'
BY Writing DEF ExpireDue

\* The maintenance thread calls release_approved_outbound().
LEMMA RetryReleaseStep ==
  ASSUME Inv, NEW t \in Transfers, RetryRelease(t)
  PROVE  Inv'
<1>1. /\ mt.pc = "release" /\ t \in mt.todo /\ mt' = Swept(t)
      /\ caller' = [caller EXCEPT ![Sweeper] = [NoCall EXCEPT !.pc = "release", !.on = t]]
      /\ UNCHANGED <<worldVars, row, late, file, greenDir, scanner, events, boot, crashes, glitches>>
  BY DEF RetryRelease, rowVars, diskVars
<1>2. Sweeper \in Callers /\ caller \in [Callers -> Call]
  BY RowsAreTypes DEF Inv, Rows, Callers
<1>3. PICK k : k = [NoCall EXCEPT !.pc = "release", !.on = t]
  OBVIOUS
<1>4. /\ k \in Call /\ k.pc = "release" /\ k.on = t /\ k.event = Nobody
  BY <1>3 DEF NoCall, Call, Pcs, Places
<1>5. /\ caller' \in [Callers -> Call] /\ caller'[Sweeper] = k
      /\ \A d \in Callers \ {Sweeper} : caller'[d] = caller[d]
  BY <1>1, <1>2, <1>3, <1>4
<1>6. row[t].state \in Approvable /\ row[t].actor \in Deciders
  BY <1>1 DEF Inv, MtOk
<1>7. CallerOk(Sweeper)'
  BY <1>1, <1>4, <1>5, <1>6, NobodyDecides
     DEF CallerOk, RoleOk, MeaningOk, DecisionOk, ReleaseOk, CallAt, Ended, Working, Deciding,
         Releasing, Target, Deciders
<1>8. mt' \in Mt /\ mt'.pc = "release" /\ mt'.todo = mt.todo \ {t}
  BY <1>1, SweptFrame DEF Inv
<1>9. MtOk'
  BY <1>1, <1>8 DEF Inv, MtOk
<1>10. Progress /\ \A u \in Transfers : RowOk(u)'
  BY <1>1, Still, NotCounting DEF Inv
<1>11. TypeOK'
  BY <1>1, <1>5, <1>8, RowsAreTypes, RowsAreTypesNext DEF Inv, Rows, worldVars
<1>12. QED
  BY <1>1, <1>5, <1>7, <1>9, <1>10, <1>11, StepKeepsInv

LEMMA ReleaseRetriedStep ==
  ASSUME Inv, ReleaseRetried
  PROVE  Inv'
<1>1. /\ caller' = [caller EXCEPT ![Sweeper] = NoCall]
      /\ mt' = NoSweep \/ mt' = mt
      /\ UNCHANGED <<worldVars, row, late, file, greenDir, scanner, events, boot, crashes, glitches>>
  BY DEF ReleaseRetried, rowVars, diskVars
<1>2. /\ Sweeper \in Callers /\ caller \in [Callers -> Call] /\ NoCall \in Call
      /\ mt \in Mt
  BY RowsAreTypes DEF Inv, Rows, Callers, NoCall, Call, Pcs, Places
<1>3. /\ caller' \in [Callers -> Call] /\ caller'[Sweeper] = NoCall
      /\ \A d \in Callers \ {Sweeper} : caller'[d] = caller[d]
  BY <1>1, <1>2
<1>4. CallerOk(Sweeper)'
  BY <1>3, NobodyDecides
     DEF NoCall, CallerOk, RoleOk, MeaningOk, DecisionOk, ReleaseOk, CallAt, Ended, Working,
         Deciding, Releasing, Deciders
<1>5. NoSweep \in Mt /\ NoSweep.pc = "idle"
  BY DEF NoSweep, NoPaths, Mt, States, Places
<1>6. mt' \in Mt /\ (mt' = mt \/ MtOk')
  BY <1>1, <1>2, <1>5 DEF MtOk
<1>7. Progress /\ \A u \in Transfers : RowOk(u)'
  BY <1>1, Still, NotCounting DEF Inv
<1>8. TypeOK'
  BY <1>1, <1>3, <1>6, RowsAreTypes, RowsAreTypesNext DEF Inv, Rows, worldVars
<1>9. QED
  BY <1>1, <1>3, <1>4, <1>6, <1>7, <1>8, StepKeepsInv

LEMMA StartPurgeStep ==
  ASSUME Inv, StartPurge
  PROVE  Inv'
<1>1. SweepOnly
  BY DEF StartPurge, SweepOnly
<1>2. PICK S \in SUBSET Transfers :
        /\ S = {t \in Transfers : row[t].state = "expired" /\ late[t] /\ row[t].path # "none"}
        /\ mt' = [Sweep("purge", S) EXCEPT !.paths = [t \in Transfers |-> row[t].path]]
  BY DEF StartPurge
<1>3. PICK P \in [Transfers -> Places] : P = [t \in Transfers |-> row[t].path]
  BY RowsAreTypes DEF Inv, Rows, Row
<1>4. PICK m \in Mt : m = Sweep("purge", S) /\ m.pc = "purge" /\ m.todo = S
  <2>1. "purge" \in SweepPcs
    BY DEF SweepPcs
  <2>2. PICK m : m = Sweep("purge", S)
    OBVIOUS
  <2>3. m \in Mt /\ m.pc = "purge" /\ m.todo = S
    BY <2>1, <2>2, SweepFrame
  <2>4. QED
    BY <2>2, <2>3
<1>5. mt' = [m EXCEPT !.paths = P]
  BY <1>2, <1>3, <1>4
<1>6. mt' \in Mt /\ mt'.pc = "purge" /\ mt'.todo = S
  BY <1>4, <1>5 DEF Mt
<1>7. \A t \in S : row[t].state = "expired"
  BY <1>2
<1>8. row' = row
  BY <1>1 DEF SweepOnly, rowVars
<1>9. MtOk'
  BY <1>6, <1>7, <1>8 DEF MtOk, Alive
<1>10. QED
  BY <1>1, <1>6, <1>9, SweepOnlyInv

LEMMA PurgePayloadStep ==
  ASSUME Inv, NEW t \in Transfers, PurgePayload(t)
  PROVE  Inv'
<1>1. /\ mt.pc = "purge" /\ t \in mt.todo
      /\ file' = [file EXCEPT ![t] = IF @ = mt.paths[t] THEN "none" ELSE @]
      /\ greenDir' = [greenDir EXCEPT ![t] = @ /\ mt.paths[t] # "green"]
      /\ mt' = [mt EXCEPT !.pc = "clear", !.current = t]
      /\ UNCHANGED <<worldVars, row, late, scanner, caller, events, boot, crashes, glitches>>
  BY DEF PurgePayload, rowVars
<1>2. /\ file \in [Transfers -> Places] /\ greenDir \in [Transfers -> BOOLEAN] /\ mt \in Mt
  BY RowsAreTypes DEF Inv, Rows
<1>3. /\ file' \in [Transfers -> Places] /\ greenDir' \in [Transfers -> BOOLEAN]
      /\ \A u \in Transfers \ {t} : file'[u] = file[u] /\ greenDir'[u] = greenDir[u]
      /\ file'[t] \in {file[t], "none"}
  BY <1>1, <1>2 DEF Places
<1>4. row[t].state = "expired" /\ \A u \in mt.todo : row[u].state = "expired"
  BY <1>1 DEF Inv, MtOk, Alive
<1>5. Onward(t)
  BY <1>1, <1>3, <1>4 DEF Onward, Alive
<1>6. RowOk(t)'
  BY <1>1, <1>3, <1>4 DEF RowOk, Alive, Undecided, Decided, Approvable
<1>7. Progress /\ \A u \in Transfers : RowOk(u)'
  BY <1>1, <1>3, <1>5, <1>6, CarriedStep DEF Carried
<1>8. mt' \in Mt /\ mt'.pc = "clear" /\ mt'.current = t /\ mt'.todo = mt.todo
  BY <1>1, <1>2 DEF Mt
<1>9. MtOk'
  BY <1>1, <1>4, <1>8 DEF MtOk, Alive
<1>10. QED
  BY <1>1, <1>3, <1>7, <1>8, <1>9, SweepStepInv, RowsAreTypes DEF Inv, Rows

LEMMA ClearPathStep ==
  ASSUME Inv, ClearPath
  PROVE  Inv'
<1>1. PICK t \in Transfers : t = mt.current /\ ~Alive(t)
  BY DEF Inv, MtOk, ClearPath
<1>2. /\ mt.pc = "clear"
      /\ row' = [row EXCEPT ![t].path = "none"]
      /\ mt' = [Swept(t) EXCEPT !.pc = "purge", !.current = "none"]
      /\ UNCHANGED <<worldVars, late, file, greenDir, scanner, caller, events, boot, crashes, glitches>>
  BY <1>1 DEF ClearPath, diskVars
<1>3. row \in [Transfers -> Row] /\ row[t] \in Row /\ mt.todo \in SUBSET Transfers
  BY RowsAreTypes DEF Inv, Rows, Mt
<1>4. PICK r : r = [row[t] EXCEPT !.path = "none"]
  OBVIOUS
<1>5. r \in Row /\ r.state = row[t].state /\ r.actor = row[t].actor
  BY <1>3, <1>4 DEF Row, Places
<1>6. row' = [row EXCEPT ![t] = r]
  BY <1>2, <1>3, <1>4
<1>7. /\ row' \in [Transfers -> Row] /\ row'[t] = r
      /\ \A u \in Transfers \ {t} : row'[u] = row[u]
  BY <1>3, <1>5, <1>6
<1>8. Onward(t)
  BY <1>1, <1>2, <1>5, <1>7 DEF Onward, Alive, InBuffer
<1>9. RowOk(t)'
  BY <1>1, <1>5, <1>7 DEF RowOk, Alive, Undecided, Decided, Approvable
<1>10. Progress /\ \A u \in Transfers : RowOk(u)'
  BY <1>2, <1>7, <1>8, <1>9, CarriedStep DEF Carried
<1>11. PICK m \in Mt : m = Swept(t) /\ m.todo = mt.todo \ {t}
  BY SweptFrame DEF Inv
<1>12. mt' = [m EXCEPT !.pc = "purge", !.current = "none"]
  BY <1>2, <1>11
<1>13. mt' \in Mt /\ mt'.pc = "purge" /\ mt'.todo = mt.todo \ {t}
  BY <1>11, <1>12 DEF Mt
<1>14. \A u \in mt.todo : ~Alive(u)
  BY <1>2 DEF Inv, MtOk
<1>15. MtOk'
  BY <1>3, <1>7, <1>13, <1>14 DEF MtOk, Alive
<1>16. QED
  BY <1>2, <1>7, <1>10, <1>13, <1>15, SweepStepInv, RowsAreTypes DEF Inv, Rows

------------------------------------------------------------------------------
(* Crashes and start-up.                                                   *)

LEMMA ForgetStep ==
  ASSUME Inv, Forget, crashes' \in 0..MaxFaults,
         UNCHANGED <<worldVars, rowVars, diskVars, events, glitches>>
  PROVE  Inv'
<1>1. UNCHANGED <<policy, relay, row, late, file, greenDir, events, glitches>>
  BY DEF worldVars, rowVars, diskVars
<1>2. /\ scanner' \in [Workers -> Scanner] /\ \A w \in Workers : ScannerOk(w)'
  BY DEF Forget, Idle, Scanner, ScanPcs, ScannerOk, ScanAt
<1>3. NoCall \in Call /\ NoCall.pc = "idle" /\ NoCall.event = Nobody
  BY DEF NoCall, Call, Pcs, Places
<1>4. caller' \in [Callers -> Call] /\ \A c \in Callers : caller'[c] = NoCall
  BY <1>3 DEF Forget
<1>5. \A c \in Callers : CallerOk(c)'
  BY <1>3, <1>4, NobodyDecides
     DEF CallerOk, RoleOk, MeaningOk, DecisionOk, ReleaseOk, CallAt, Ended, Working,
         Deciding, Releasing, Deciders
<1>6. mt' \in Mt /\ mt'.pc = "idle"
  BY DEF Forget, NoSweep, NoPaths, Mt, States, Places
<1>7. MtOk'
  BY <1>6 DEF MtOk
<1>8. boot' \in [pc: {"serving", "down", "refused", "started", "recover"},
                 todo: SUBSET Transfers]
  BY DEF Forget
<1>9. Progress /\ \A u \in Transfers : RowOk(u)'
  BY <1>1, Still, NotCounting DEF Inv
<1>10. TypeOK'
  BY <1>1, <1>2, <1>4, <1>6, <1>8, RowsAreTypes, RowsAreTypesNext DEF Inv, Rows
<1>11. QED
  BY <1>1, <1>2, <1>5, <1>7, <1>9, <1>10, StepKeepsInv

LEMMA CrashStep ==
  ASSUME Inv, Crash
  PROVE  Inv'
<1>1. crashes \in 0..MaxFaults /\ glitches \in Nat /\ MaxFaults \in Nat
  BY OutboundConstants, RowsAreTypes, GlitchesCounted DEF Inv, Rows
<1>2. crashes' \in 0..MaxFaults
  BY <1>1 DEF Crash, FaultLeft
<1>3. QED
  BY <1>2, ForgetStep DEF Crash

\* A step of start-up, perhaps with a transition.
LEMMA BootStepInv ==
  ASSUME Inv, Progress, \A t \in Transfers : RowOk(t)',
         row' \in [Transfers -> Row], late' \in [Transfers -> BOOLEAN],
         boot' \in [pc: {"serving", "down", "refused", "started", "recover"},
                    todo: SUBSET Transfers],
         UNCHANGED <<worldVars, diskVars, scanner, caller, events, mt, crashes, glitches>>
  PROVE  Inv'
<1>1. TypeOK'
  BY RowsAreTypes, RowsAreTypesNext DEF Inv, Rows, worldVars, diskVars
<1>2. QED
  BY <1>1, StepKeepsInv

LEMMA BootStepKeepsInv ==
  ASSUME Inv, BootStep
  PROVE  Inv'
<1>1. boot \in [pc: {"serving", "down", "refused", "started", "recover"},
                todo: SUBSET Transfers]
  BY RowsAreTypes DEF Inv, Rows
<1>2. CASE Harden \/ StartRecovery \/ StartServing
  <2>1. UNCHANGED <<worldVars, row, late, file, greenDir, scanner, caller, events, mt, crashes,
                    glitches>>
    BY <1>2 DEF Harden, StartRecovery, StartServing, rowVars, diskVars
  <2>2. boot' \in [pc: {"serving", "down", "refused", "started", "recover"},
                   todo: SUBSET Transfers]
    <3>1. CASE Harden
      <4>1. PICK pc \in {"started", "refused"} : boot' = [boot EXCEPT !.pc = pc]
        BY <3>1 DEF Harden
      <4>2. QED
        BY <1>1, <4>1
    <3>2. CASE StartRecovery
      <4>1. PICK S \in SUBSET Transfers : boot' = [pc |-> "recover", todo |-> S]
        BY <3>2 DEF StartRecovery
      <4>2. QED
        BY <4>1
    <3>3. CASE StartServing
      BY <3>3 DEF StartServing, Serving
    <3>4. QED
      BY <1>2, <3>1, <3>2, <3>3
  <2>3. Progress /\ \A u \in Transfers : RowOk(u)'
    BY <2>1, Still, NotCounting DEF Inv
  <2>4. QED
    BY <2>1, <2>2, <2>3, BootStepInv, RowsAreTypes DEF Inv, Rows, diskVars
<1>3. ASSUME NEW t \in Transfers, Recover(t)
      PROVE  Inv'
  <2>1. /\ Transition(t, "quarantined") /\ boot' = [boot EXCEPT !.todo = @ \ {t}]
        /\ UNCHANGED <<worldVars, diskVars, scanner, caller, events, mt, crashes, glitches>>
    BY <1>3 DEF Recover
  <2>2. /\ Progress /\ \A u \in Transfers : RowOk(u)'
        /\ row' \in [Transfers -> Row] /\ late' \in [Transfers -> BOOLEAN]
    BY <2>1, TransitionStep, NotCounting DEF Inv, States, Decided
  <2>3. boot' \in [pc: {"serving", "down", "refused", "started", "recover"},
                   todo: SUBSET Transfers]
    BY <1>1, <2>1
  <2>4. QED
    BY <2>1, <2>2, <2>3, BootStepInv
<1>4. ASSUME NEW t \in Transfers, RecoveryRaises(t)
      PROVE  Inv'
  BY <1>4, ForgetStep, RowsAreTypes DEF RecoveryRaises, Inv, Rows
<1>5. QED
  BY <1>2, <1>3, <1>4 DEF BootStep

------------------------------------------------------------------------------
(* The invariant.                                                          *)

LEMMA InitInv == Init => Inv
<1>1. SUFFICES ASSUME Init
               PROVE  Inv
  OBVIOUS
<1>2. /\ NoRow \in Row /\ NoRow.state = "absent" /\ NoRow.path = "none" /\ NoRow.actor = Nobody
      /\ NoCall \in Call /\ NoCall.pc = "idle" /\ NoCall.event = Nobody
      /\ Idle \in Scanner /\ Idle.pc = "idle"
      /\ NoSweep \in Mt /\ NoSweep.pc = "idle"
  BY DEF NoRow, Row, States, Places, Providers, NoCall, Call, Pcs, Idle, Scanner, ScanPcs,
         NoSweep, NoPaths, Mt
<1>3. /\ row \in [Transfers -> Row] /\ \A t \in Transfers : row[t] = NoRow
      /\ caller \in [Callers -> Call] /\ \A c \in Callers : caller[c] = NoCall
      /\ scanner \in [Workers -> Scanner] /\ \A w \in Workers : scanner[w] = Idle
      /\ mt \in Mt /\ mt.pc = "idle"
  BY <1>1, <1>2 DEF Init
<1>4. /\ policy \in [permits: BOOLEAN, provider: Providers]
      /\ file \in [Transfers -> Places]
      /\ greenDir \in [Transfers -> BOOLEAN] /\ late \in [Transfers -> BOOLEAN]
      /\ relay \in SUBSET Transfers
      /\ events \in [Events -> {"none", "processing", "processed", "error"}]
      /\ boot \in [pc: {"serving", "down", "refused", "started", "recover"},
                   todo: SUBSET Transfers]
      /\ crashes \in 0..MaxFaults /\ glitches \in 0..MaxGlitches
  BY <1>1, OutboundConstants DEF Init, Serving, Providers, Places
<1>5. TypeOK
  BY <1>3, <1>4, RowsAreTypes DEF Rows
<1>6. \A t \in Transfers : RowOk(t)
  BY <1>2, <1>3 DEF RowOk, Alive, Undecided, Decided, Approvable
<1>7. \A c \in Callers : CallerOk(c)
  BY <1>2, <1>3, NobodyDecides
     DEF CallerOk, RoleOk, MeaningOk, DecisionOk, ReleaseOk, CallAt, Ended, Working,
         Deciding, Releasing, Deciders
<1>8. \A w \in Workers : ScannerOk(w)
  BY <1>2, <1>3 DEF ScannerOk, ScanAt
<1>9. MtOk
  BY <1>3 DEF MtOk
<1>10. ProcessedEventsTakeEffect
  BY <1>1 DEF Init, ProcessedEventsTakeEffect
<1>11. QED
  BY <1>5, <1>6, <1>7, <1>8, <1>9, <1>10 DEF Inv

LEMMA ScanStepKeepsInv ==
  ASSUME Inv, NEW w \in Workers, ScanStep(w)
  PROVE  Inv'
BY JudgeStep, HoldStep, ClassifyStep, CreateApprovalStep, SubmitApprovalStep, FailScanStep,
   FailClosedStep DEF ScanStep

LEMMA DecisionStepKeepsInv ==
  ASSUME Inv, NEW c \in Requests, DecisionStep(c)
  PROVE  Inv'
<1>1. c \in Callers
  BY DEF Callers
<1>2. QED
  BY <1>1, DispatchStep, LapseStep, RejectStep, VerifyStep, CondemnStep, ApproveStep,
     MarkEventStep DEF DecisionStep

LEMMA ReleaseStepKeepsInv ==
  ASSUME Inv, NEW c \in Callers, ReleaseStep(c)
  PROVE  Inv'
BY ReleaseStepInv, RevokeStep, LocateStep, MoveStep, CleanUpStep, RemoveDirStep, RepathStep,
   SealStep, SettleStep DEF ReleaseStep

LEMMA SweepStepKeepsInv ==
  ASSUME Inv, SweepStep
  PROVE  Inv'
<1>1. CASE StartTimeouts \/ TimeOutScan \/ StartReleases \/ ReleaseRetried
  BY <1>1, StartTimeoutsStep, TimeOutScanStep, StartReleasesStep, ReleaseRetriedStep
<1>2. CASE StartExpiring \/ ExpireDue \/ StartPurge \/ ClearPath \/ EndSweep
  BY <1>2, StartExpiringStep, ExpireDueStep, StartPurgeStep, ClearPathStep, EndSweepStep
<1>3. ASSUME NEW t \in Transfers,
             ReadStuck(t) \/ RetryRelease(t) \/ ReadDue(t) \/ PurgePayload(t)
      PROVE  Inv'
  BY <1>3, ReadStuckStep, RetryReleaseStep, ReadDueStep, PurgePayloadStep
<1>4. QED
  BY <1>1, <1>2, <1>3 DEF SweepStep

LEMMA NextInv == Inv /\ [Next]_vars => Inv'
<1>1. SUFFICES ASSUME Inv, [Next]_vars
               PROVE  Inv'
  OBVIOUS
<1>2. ASSUME NEW p \in [permits: BOOLEAN, provider: Providers], SetPolicy(p)
      PROVE  Inv'
  BY <1>1, <1>2, SetPolicyStep
<1>3. ASSUME NEW t \in Transfers, Upload(t) \/ Rescan(t) \/ Expire(t) \/ BecomesLate(t)
      PROVE  Inv'
  BY <1>1, <1>3, UploadStep, RescanStep, ExpireStep, BecomesLateStep
<1>4. ASSUME NEW w \in Workers, ScanStep(w) \/ ScanGlitch(w)
      PROVE  Inv'
  BY <1>1, <1>4, ScanStepKeepsInv, ScanGlitchStep
<1>5. ASSUME NEW w \in Workers, NEW t \in Transfers, BeginScan(w, t) \/ DeadLetter(w, t)
      PROVE  Inv'
  BY <1>1, <1>5, BeginScanStep, DeadLetterStep
<1>6. ASSUME NEW c \in Requests, NEW t \in Transfers, Decide(c, t)
      PROVE  Inv'
  BY <1>1, <1>6, DecideStep
<1>7. ASSUME NEW c \in Requests, NEW e \in Events, Callback(c, e)
      PROVE  Inv'
  BY <1>1, <1>7, CallbackStep
<1>8. ASSUME NEW c \in Requests, DecisionStep(c)
      PROVE  Inv'
  BY <1>1, <1>8, DecisionStepKeepsInv
<1>9. ASSUME NEW c \in Callers, ReleaseStep(c) \/ CallGlitch(c)
      PROVE  Inv'
  BY <1>1, <1>9, ReleaseStepKeepsInv, CallGlitchStep
<1>10. CASE SweepStep \/ BootStep \/ Crash
  BY <1>1, <1>10, SweepStepKeepsInv, BootStepKeepsInv, CrashStep
<1>11. CASE UNCHANGED vars
  <2>1. UNCHANGED <<policy, row, file, greenDir, late, relay, scanner, caller, events, mt, boot,
                    crashes, glitches>>
    BY <1>11 DEF vars
  <2>2. Progress /\ \A t \in Transfers : RowOk(t)'
    BY <1>1, <2>1, Still, NotCounting DEF Inv
  <2>3. TypeOK'
    BY <1>1, <2>1, RowsAreTypes, RowsAreTypesNext DEF Inv, Rows
  <2>4. QED
    BY <1>1, <2>1, <2>2, <2>3, StepKeepsInv
<1>12. QED
  BY <1>1, <1>2, <1>3, <1>4, <1>5, <1>6, <1>7, <1>8, <1>9, <1>10, <1>11 DEF Next

\* Rows, payloads, deciders, calls and the sweep agree in every state: the inductive
\* invariant, for every number of transfers, threads, people and faults.
THEOREM TransfersAreTracked == Spec => []Inv
BY InitInv, NextInv, PTL DEF Spec

\* A released transfer stays servable, with its payload where its row says, whatever
\* decisions, callbacks, retries, expiries, purges and crashes meet it
\* (release_approved_outbound and whoever else runs then).
THEOREM ReleasedTransfersAreServable == Spec => []TransferInv
<1>1. Inv => TransferInv
  BY DEF Inv, RowOk, Alive, InBuffer, TransferInv, ReleasedIsServable
<1>2. QED
  BY <1>1, TransfersAreTracked, PTL

\* An approval event recorded as processed has had its effect, and a different decision
\* has not (process_approval_callback: redeliveries, concurrent ones, restarts).
THEOREM ProcessedEventsAreEffective == Spec => []ProcessedEventsTakeEffect
<1>1. Inv => ProcessedEventsTakeEffect
  BY DEF Inv
<1>2. QED
  BY <1>1, TransfersAreTracked, PTL

------------------------------------------------------------------------------
(* Refinement of TransferLifecycle.                                        *)

\* States, deciders and payloads stay.
LEMMA Unmoved ==
  ASSUME \A t \in Transfers : row'[t].state = row[t].state /\ row'[t].actor = row[t].actor,
         file' = file
  PROVE  UNCHANGED LC!vars
BY DEF TransferStates, TransferActors, LC!vars

\* One row changes: what that is for the abstract state.
LEMMA MappedRow ==
  ASSUME NEW t \in Transfers, \A u \in Transfers \ {t} : row'[u] = row[u]
  PROVE  /\ TransferStates[t] = row[t].state /\ TransferActors[t] = row[t].actor
         /\ TransferStates' = [TransferStates EXCEPT ![t] = row'[t].state]
         /\ TransferActors' = [TransferActors EXCEPT ![t] = row'[t].actor]
         /\ row'[t].actor = row[t].actor => TransferActors' = TransferActors
BY DEF TransferStates, TransferActors

\* Nobody's decision: the pipeline of the scan, a release or an expiry.
LEMMA PassesMaps ==
  ASSUME Inv, NEW t \in Transfers, Passes(t), row'[t].actor = row[t].actor
  PROVE  LC!Next
<1>1. PICK from, to : /\ from = row[t].state /\ to = row'[t].state
  OBVIOUS
<1>2. /\ TransferStates[t] = from
      /\ TransferStates' = [TransferStates EXCEPT ![t] = to]
      /\ UNCHANGED <<file, TransferActors>>
  BY <1>1, MappedRow DEF Passes
<1>3. LC!Change(t, from, to)
  BY <1>2 DEF LC!Change
<1>4. RowOk(t) /\ glitches \in 0..MaxGlitches
  BY RowsAreTypes DEF Inv, Rows
<1>5. CASE to = "expired"
  <2>1. LC!Expire(t)
    BY <1>1, <1>3, <1>5, Edges DEF Inv, LC!Expire
  <2>2. QED
    BY <2>1 DEF LC!Next
<1>6. CASE to = "released_to_green"
  <2>1. from = "approved" /\ row[t].path = "green"
    BY <1>1, <1>6, Edges DEF Inv, Passes
  <2>2. InBuffer(t)
    BY <1>1, <1>4, <2>1 DEF RowOk, Alive
  <2>3. file[t] = "green" \/ (MaxGlitches > 0 /\ file[t] = "none")
    BY <1>4, <2>2, OutboundConstants DEF InBuffer
  <2>4. LC!Release(t)
    BY <1>3, <1>6, <2>1, <2>3 DEF LC!Release
  <2>5. QED
    BY <2>4 DEF LC!Next
<1>7. CASE to \in {"approved", "approval_rejected"}
  <2>1. from = "pending_approval"
    BY <1>1, <1>7, Edges DEF Inv
  <2>2. row[t].actor = Nobody /\ row'[t].actor \in Deciders
    BY <1>1, <1>4, <1>7, <2>1 DEF RowOk, Undecided, Passes
  <2>3. QED
    BY <2>2, NobodyDecides
<1>8. CASE to \notin {"expired", "released_to_green", "approved", "approval_rejected"}
  <2>1. <<from, to>> \in {<<"pending_scan", "scanning">>, <<"scanning", "quarantined">>,
                          <<"scanning", "classified">>, <<"quarantined", "pending_scan">>,
                          <<"classified", "pending_approval">>, <<"classified", "quarantined">>}
    BY <1>1, <1>8, Edges DEF Inv
  <2>2. LC!Scan(t)
    BY <1>3, <2>1 DEF LC!Scan
  <2>3. QED
    BY <2>2 DEF LC!Next
<1>9. QED
  BY <1>5, <1>6, <1>7, <1>8

\* A guarded transition that is neither a decision nor a release.
LEMMA TransitionMaps ==
  ASSUME Inv, NEW t \in Transfers, NEW s \in States \ Decided, Transition(t, s),
         UNCHANGED diskVars
  PROVE  LC!Next
<1>1. /\ \A u \in Transfers \ {t} : row'[u] = row[u]
      /\ row'[t].state = s /\ row'[t].actor = row[t].actor /\ row'[t].path = row[t].path
  BY MovedFrame DEF Inv, Transition
<1>2. Passes(t)
  BY <1>1 DEF Passes, Transition, CanMove, diskVars, Decided
<1>3. QED
  BY <1>1, <1>2, PassesMaps

\* A decision is taken once, on a pending transfer.
LEMMA DecidedMaps ==
  ASSUME Inv, NEW c \in Callers, caller[c].pc \in Deciding, NEW t \in Transfers,
         NEW s \in {"approved", "approval_rejected"}, CanMove(t, s),
         row' = [row EXCEPT ![t].state = s, ![t].actor = caller[c].event],
         UNCHANGED diskVars
  PROVE  LC!Next
<1>1. PICK d \in Deciders : d = caller[c].event
  BY DeciderKnown
<1>2. row' = [row EXCEPT ![t].state = s, ![t].actor = d]
  BY <1>1
<1>3. /\ \A u \in Transfers \ {t} : row'[u] = row[u]
      /\ row'[t].state = s /\ row'[t].actor = d
  BY <1>2, RowFrame DEF Inv, States
<1>4. row[t].state = "pending_approval"
  <2>1. row[t].state \in States
    BY RowsAreTypes DEF Inv, Rows, Row
  <2>2. QED
    BY <2>1, Pipeline DEF CanMove, States
<1>5. row[t].actor = Nobody
  BY <1>4 DEF Inv, RowOk, Undecided
<1>6. /\ TransferStates[t] = "pending_approval" /\ TransferActors[t] = Nobody
      /\ TransferStates' = [TransferStates EXCEPT ![t] = s]
      /\ TransferActors' = [TransferActors EXCEPT ![t] = d]
      /\ file' = file
  BY <1>3, <1>4, <1>5, MappedRow DEF diskVars
<1>7. LC!Decide(t)
  BY <1>6 DEF LC!Decide
<1>8. QED
  BY <1>7 DEF LC!Next

\* An expiry in nobody's name, by a call.
LEMMA ExpireFromMaps ==
  ASSUME Inv, NEW c \in Callers, caller[c].pc \in Working, NEW s, NEW then,
         ExpireFrom(c, s, then, Nobody), UNCHANGED diskVars
  PROVE  LC!Next \/ UNCHANGED LC!vars
<1>1. PICK t \in Transfers : t = Target(c)
  BY AtWork
<1>2. CASE UNCHANGED rowVars
  BY <1>2, Unmoved DEF rowVars, diskVars
<1>3. CASE /\ CanMove(t, "expired")
           /\ row' = [Moved(t, "expired") EXCEPT ![t].actor = IF Nobody = Nobody THEN @ ELSE Nobody]
  <2>1. /\ \A u \in Transfers \ {t} : row'[u] = row[u]
        /\ row'[t].state = "expired" /\ row'[t].path = row[t].path
        /\ row'[t].actor = row[t].actor
    BY <1>3, ExpiredFrame DEF Inv
  <2>2. Passes(t)
    BY <1>3, <2>1 DEF Passes, CanMove, diskVars
  <2>3. QED
    BY <2>1, <2>2, PassesMaps
<1>4. QED
  BY <1>1, <1>2, <1>3 DEF ExpireFrom

\* An approver whom the other one overtook expires what was decided.
LEMMA CondemnMaps ==
  ASSUME Inv, NEW c \in Callers, Condemn(c)
  PROVE  LC!Next \/ UNCHANGED LC!vars
<1>1. caller[c].pc \in Deciding /\ caller[c].pc \in Working /\ UNCHANGED diskVars
      /\ ExpireFrom(c, "pending_approval", "refused", caller[c].event)
  BY DEF Condemn, CallAt, Deciding, Working
<1>2. PICK t \in Transfers : t = Target(c)
  BY <1>1, AtWork
<1>3. PICK d \in Deciders : d = caller[c].event
  BY <1>1, DeciderKnown
<1>4. CASE UNCHANGED rowVars
  BY <1>1, <1>4, Unmoved DEF rowVars, diskVars
<1>5. CASE /\ CanMove(t, "expired")
           /\ row' = [Moved(t, "expired") EXCEPT ![t].actor = IF d = Nobody THEN @ ELSE d]
  <2>1. /\ \A u \in Transfers \ {t} : row'[u] = row[u]
        /\ row'[t].state = "expired" /\ row'[t].actor = d
    BY <1>5, ExpiredFrame, NobodyDecides DEF Inv
  <2>2. row[t].state \in Approvable /\ file[t] # "isolation"
    BY <1>2 DEF Inv, CallerOk, DecisionOk, Condemn
  <2>3. row[t].state # "expired"
    BY <1>5, Pipeline DEF CanMove
  <2>4. /\ TransferStates[t] \in {"approved", "released_to_green"}
        /\ TransferStates' = [TransferStates EXCEPT ![t] = "expired"]
        /\ TransferActors' = [TransferActors EXCEPT ![t] = d]
        /\ file' = file
    BY <1>1, <2>1, <2>2, <2>3, MappedRow DEF diskVars, Approvable
  <2>5. LC!Overrule(t)
    BY <2>2, <2>4 DEF LC!Overrule
  <2>6. QED
    BY <2>5 DEF LC!Next
<1>6. QED
  BY <1>1, <1>2, <1>3, <1>4, <1>5 DEF ExpireFrom

\* The payload of one transfer moves or goes.
LEMMA MappedFile ==
  ASSUME NEW t \in Transfers, TypeOK, file' \in [Transfers -> Places],
         \A u \in Transfers \ {t} : file'[u] = file[u], row' = row
  PROVE  /\ file' = [file EXCEPT ![t] = file'[t]]
         /\ UNCHANGED <<TransferStates, TransferActors>>
         /\ TransferStates[t] = row[t].state /\ TransferActors[t] = row[t].actor
<1>1. file \in [Transfers -> Places]
  BY RowsAreTypes DEF Rows
<1>2. file' = [file EXCEPT ![t] = file'[t]]
  BY <1>1
<1>3. QED
  BY <1>2 DEF TransferStates, TransferActors

LEMMA UploadMaps ==
  ASSUME Inv, NEW t \in Transfers, Upload(t)
  PROVE  LC!Next
<1>1. /\ row[t].state = "absent"
      /\ row' = [row EXCEPT ![t] = [NoRow EXCEPT !.state = "pending_scan", !.path = "isolation",
                                                 !.provider = policy.provider]]
      /\ file' = [file EXCEPT ![t] = "isolation"]
  BY DEF Upload
<1>2. row \in [Transfers -> Row]
  BY RowsAreTypes DEF Inv, Rows
<1>3. PICK r : r = [NoRow EXCEPT !.state = "pending_scan", !.path = "isolation",
                                 !.provider = policy.provider]
  OBVIOUS
<1>4. r.state = "pending_scan" /\ r.actor = Nobody
  BY <1>3 DEF NoRow
<1>5. row'[t] = r /\ \A u \in Transfers \ {t} : row'[u] = row[u]
  BY <1>1, <1>2, <1>3
<1>6. row[t].actor = Nobody
  BY <1>1 DEF Inv, RowOk, Undecided
<1>7. /\ TransferStates[t] = "absent"
      /\ TransferStates' = [TransferStates EXCEPT ![t] = "pending_scan"]
      /\ TransferActors' = TransferActors
  BY <1>1, <1>4, <1>5, <1>6, MappedRow
<1>8. LC!Register(t)
  BY <1>1, <1>7 DEF LC!Register
<1>9. QED
  BY <1>8 DEF LC!Next

\* A payload is promoted on a decision, for a transfer that may have expired since.
LEMMA MoveMaps ==
  ASSUME Inv, NEW c \in Callers, Move(c)
  PROVE  LC!Next \/ UNCHANGED LC!vars
<1>1. caller[c].pc \in Releasing /\ caller[c].pc \in Working /\ UNCHANGED row
  BY DEF Move, CallAt, Releasing, Working, rowVars
<1>2. PICK t \in Transfers : t = Target(c)
  BY <1>1, AtWork
<1>3. row[t].state \in Approvable /\ row[t].actor \in Deciders /\ RowOk(t)
  BY <1>1, <1>2, InRelease
<1>4. CASE UNCHANGED file
  BY <1>1, <1>4, Unmoved
<1>5. CASE file[t] = "isolation" /\ file' = [file EXCEPT ![t] = "green"]
  <2>1. /\ file' \in [Transfers -> Places] /\ \A u \in Transfers \ {t} : file'[u] = file[u]
        /\ file'[t] = "green"
    BY <1>5, RowsAreTypes DEF Inv, Rows, Places
  <2>2. row[t].state # "released_to_green"
    BY <1>3, <1>5 DEF RowOk, Alive, InBuffer
  <2>3. row[t].actor # Nobody
    BY <1>3, NobodyDecides
  <2>4. LC!Promote(t)
    BY <1>1, <1>3, <1>5, <2>1, <2>2, <2>3, MappedFile DEF Inv, LC!Promote, Approvable
  <2>5. QED
    BY <2>4 DEF LC!Next
<1>6. QED
  BY <1>2, <1>4, <1>5 DEF Move

\* A clean-up loses the payload of a transfer that is alive only after an exception.
LEMMA RemoveDirMaps ==
  ASSUME Inv, NEW c \in Callers, RemoveDir(c)
  PROVE  LC!Next \/ UNCHANGED LC!vars
<1>1. /\ CallAt(c, "rmtree") /\ caller[c].pc \in Releasing /\ caller[c].pc \in Working
      /\ UNCHANGED row
  BY DEF RemoveDir, CallAt, Releasing, Working, rowVars
<1>2. PICK t \in Transfers : t = Target(c)
  BY <1>1, AtWork
<1>3. ReleaseOk(c) /\ file \in [Transfers -> Places] /\ glitches \in 0..MaxGlitches
  BY <1>1, <1>2, InRelease, RowsAreTypes DEF Inv, Rows
<1>4. /\ file' \in [Transfers -> Places] /\ \A u \in Transfers \ {t} : file'[u] = file[u]
      /\ file'[t] = IF file[t] = "green" THEN "none" ELSE file[t]
  BY <1>2, <1>3 DEF RemoveDir, Places
<1>5. /\ file' = [file EXCEPT ![t] = file'[t]]
      /\ UNCHANGED <<TransferStates, TransferActors>>
      /\ TransferStates[t] = row[t].state
  BY <1>1, <1>4, MappedFile DEF Inv
<1>6. CASE file[t] # "green"
  <2>1. file' = file
    BY <1>3, <1>4, <1>6
  <2>2. QED
    BY <1>1, <2>1, Unmoved
<1>7. CASE file[t] = "green" /\ Alive(t)
  <2>1. glitches # 0
    BY <1>1, <1>2, <1>3, <1>7 DEF ReleaseOk
  <2>2. MaxGlitches > 0
    BY <1>3, <2>1, OutboundConstants
  <2>3. LC!Lose(t)
    BY <1>4, <1>5, <1>7, <2>2 DEF LC!Lose
  <2>4. QED
    BY <2>3 DEF LC!Next
<1>8. CASE file[t] = "green" /\ ~Alive(t)
  <2>1. LC!Discard(t)
    BY <1>4, <1>5, <1>8 DEF LC!Discard, Alive
  <2>2. QED
    BY <2>1 DEF LC!Next
<1>9. QED
  BY <1>6, <1>7, <1>8

LEMMA PurgePayloadMaps ==
  ASSUME Inv, NEW t \in Transfers, PurgePayload(t)
  PROVE  LC!Next \/ UNCHANGED LC!vars
<1>1. /\ mt.pc = "purge" /\ t \in mt.todo
      /\ file' = [file EXCEPT ![t] = IF @ = mt.paths[t] THEN "none" ELSE @]
      /\ UNCHANGED row
  BY DEF PurgePayload, rowVars
<1>2. file \in [Transfers -> Places]
  BY RowsAreTypes DEF Inv, Rows
<1>3. /\ file' \in [Transfers -> Places] /\ \A u \in Transfers \ {t} : file'[u] = file[u]
      /\ file'[t] \in {file[t], "none"}
  BY <1>1, <1>2 DEF Places
<1>4. row[t].state = "expired"
  BY <1>1 DEF Inv, MtOk, Alive
<1>5. /\ file' = [file EXCEPT ![t] = file'[t]]
      /\ UNCHANGED <<TransferStates, TransferActors>>
      /\ TransferStates[t] = row[t].state
  BY <1>1, <1>3, MappedFile DEF Inv
<1>6. CASE file'[t] = "none"
  <2>1. LC!Discard(t)
    BY <1>4, <1>5, <1>6 DEF LC!Discard
  <2>2. QED
    BY <2>1 DEF LC!Next
<1>7. CASE file'[t] = file[t]
  <2>1. file' = file
    BY <1>2, <1>3, <1>7
  <2>2. QED
    BY <1>1, <2>1, Unmoved
<1>8. QED
  BY <1>3, <1>6, <1>7

\* The path on a row is of no concern to the abstract state.
LEMMA RepathMaps ==
  ASSUME Inv, NEW c \in Callers, Repath(c)
  PROVE  UNCHANGED LC!vars
<1>1. caller[c].pc \in Working /\ UNCHANGED diskVars
  BY DEF Repath, CallAt, Releasing, Working
<1>2. PICK t \in Transfers : t = Target(c)
  BY <1>1, AtWork
<1>3. row \in [Transfers -> Row] /\ row[t] \in Row
  BY RowsAreTypes DEF Inv, Rows
<1>4. PICK r : r = [row[t] EXCEPT !.path = "green"]
  OBVIOUS
<1>5. r.state = row[t].state /\ r.actor = row[t].actor
  BY <1>3, <1>4 DEF Row
<1>6. row' = row \/ row' = [row EXCEPT ![t] = r]
  BY <1>2, <1>3, <1>4 DEF Repath
<1>7. \A u \in Transfers : row'[u].state = row[u].state /\ row'[u].actor = row[u].actor
  BY <1>3, <1>5, <1>6
<1>8. QED
  BY <1>1, <1>7, Unmoved DEF diskVars

LEMMA ClearPathMaps ==
  ASSUME Inv, ClearPath
  PROVE  UNCHANGED LC!vars
<1>1. PICK t \in Transfers : t = mt.current
  BY DEF Inv, MtOk, ClearPath
<1>2. row' = [row EXCEPT ![t].path = "none"] /\ file' = file
  BY <1>1 DEF ClearPath, diskVars
<1>3. row \in [Transfers -> Row] /\ row[t] \in Row
  BY RowsAreTypes DEF Inv, Rows
<1>4. PICK r : r = [row[t] EXCEPT !.path = "none"]
  OBVIOUS
<1>5. r.state = row[t].state /\ r.actor = row[t].actor
  BY <1>3, <1>4 DEF Row
<1>6. row' = [row EXCEPT ![t] = r]
  BY <1>2, <1>3, <1>4
<1>7. \A u \in Transfers : row'[u].state = row[u].state /\ row'[u].actor = row[u].actor
  BY <1>3, <1>5, <1>6
<1>8. QED
  BY <1>2, <1>7, Unmoved

LEMMA SettleMaps ==
  ASSUME Inv, NEW c \in Callers, Settle(c)
  PROVE  LC!Next \/ UNCHANGED LC!vars
<1>1. /\ CallAt(c, "settle") /\ caller[c].pc \in Releasing /\ caller[c].pc \in Working
      /\ UNCHANGED diskVars
  BY DEF Settle, CallAt, Releasing, Working
<1>2. PICK t \in Transfers : t = Target(c)
  BY <1>1, AtWork
<1>3. CASE UNCHANGED rowVars
  BY <1>1, <1>3, Unmoved DEF rowVars, diskVars
<1>4. CASE CanMove(t, "released_to_green") /\ Transition(t, "released_to_green")
  <2>1. /\ \A u \in Transfers \ {t} : row'[u] = row[u]
        /\ row'[t].state = "released_to_green" /\ row'[t].actor = row[t].actor
        /\ row'[t].path = row[t].path
    BY <1>4, MovedFrame DEF Inv, States, Transition
  <2>2. Alive(t) /\ ReleaseOk(c)
    BY <1>1, <1>2, <1>4, Pipeline, InRelease DEF CanMove, Alive
  <2>3. row[t].path = "green"
    BY <1>1, <1>2, <2>2 DEF ReleaseOk, CallAt
  <2>4. Passes(t)
    BY <1>1, <1>4, <2>1, <2>3 DEF Passes, CanMove, diskVars
  <2>5. QED
    BY <2>1, <2>4, PassesMaps
<1>5. QED
  BY <1>2, <1>3, <1>4 DEF Settle

\* The approval's provider is of no concern either.
LEMMA SubmitApprovalMaps ==
  ASSUME Inv, NEW w \in Workers, SubmitApproval(w)
  PROVE  LC!Next \/ UNCHANGED LC!vars
<1>1. PICK t \in Transfers : t = Scanned(w)
  BY DEF Inv, ScannerOk, ScanAt, SubmitApproval
<1>2. UNCHANGED diskVars
  BY DEF SubmitApproval
<1>3. CASE UNCHANGED rowVars
  BY <1>2, <1>3, Unmoved DEF rowVars, diskVars
<1>4. CASE /\ CanMove(t, "pending_approval")
           /\ row' = [row EXCEPT ![t].state = "pending_approval",
                                 ![t].approval = scanner[w].provider]
  <2>1. row \in [Transfers -> Row] /\ row[t] \in Row
    BY RowsAreTypes DEF Inv, Rows
  <2>2. PICK r : r = [row[t] EXCEPT !.state = "pending_approval", !.approval = scanner[w].provider]
    OBVIOUS
  <2>3. r.state = "pending_approval" /\ r.actor = row[t].actor /\ r.path = row[t].path
    BY <2>1, <2>2 DEF Row
  <2>4. row' = [row EXCEPT ![t] = r]
    BY <1>4, <2>1, <2>2
  <2>5. row'[t] = r /\ \A u \in Transfers \ {t} : row'[u] = row[u]
    BY <2>1, <2>4
  <2>6. Passes(t)
    BY <1>2, <1>4, <2>3, <2>5 DEF Passes, CanMove, diskVars
  <2>7. QED
    BY <2>3, <2>5, <2>6, PassesMaps
<1>5. QED
  BY <1>1, <1>3, <1>4 DEF SubmitApproval

\* Neither a row nor a payload is written.
LEMMA QuietMaps ==
  ASSUME UNCHANGED <<row, file>>
  PROVE  UNCHANGED LC!vars
BY Unmoved

LEMMA ScanStepMaps ==
  ASSUME Inv, NEW w \in Workers, ScanStep(w) \/ ScanGlitch(w)
  PROVE  LC!Next \/ UNCHANGED LC!vars
<1>1. CASE Judge(w) \/ CreateApproval(w) \/ FailScan(w) \/ ScanGlitch(w)
  <2>1. UNCHANGED <<row, file>>
    BY <1>1 DEF Judge, CreateApproval, FailScan, ScanGlitch, rowVars, diskVars
  <2>2. QED
    BY <2>1, QuietMaps
<1>2. CASE Hold(w) \/ Classify(w) \/ FailClosed(w)
  <2>1. PICK t \in Transfers : t = Scanned(w)
    BY <1>2 DEF Inv, ScannerOk, ScanAt, Hold, Classify, FailClosed
  <2>2. /\ \/ UNCHANGED rowVars
           \/ \E s \in {"quarantined", "classified"} : Transition(t, s)
        /\ UNCHANGED diskVars
    BY <1>2, <2>1 DEF Hold, Classify, FailClosed
  <2>3. {"quarantined", "classified"} \subseteq States \ Decided
    BY DEF States, Decided
  <2>4. QED
    BY <2>2, <2>3, TransitionMaps, QuietMaps DEF rowVars, diskVars
<1>3. CASE SubmitApproval(w)
  BY <1>3, SubmitApprovalMaps
<1>4. QED
  BY <1>1, <1>2, <1>3 DEF ScanStep

LEMMA WorkerMaps ==
  ASSUME Inv, NEW w \in Workers, NEW t \in Transfers, BeginScan(w, t) \/ DeadLetter(w, t)
  PROVE  LC!Next \/ UNCHANGED LC!vars
<1>1. /\ UNCHANGED rowVars \/ Transition(t, "scanning")
      /\ UNCHANGED diskVars
  BY DEF BeginScan, DeadLetter
<1>2. "scanning" \in States \ Decided
  BY DEF States, Decided
<1>3. QED
  BY <1>1, <1>2, TransitionMaps, QuietMaps DEF rowVars, diskVars

LEMMA DecisionMaps ==
  ASSUME Inv, NEW c \in Callers, DecisionStep(c)
  PROVE  LC!Next \/ UNCHANGED LC!vars
<1>1. CASE Dispatch(c) \/ Verify(c) \/ MarkEvent(c)
  <2>1. UNCHANGED <<row, file>>
    BY <1>1 DEF Dispatch, Verify, MarkEvent, rowVars, diskVars
  <2>2. QED
    BY <2>1, QuietMaps
<1>2. CASE Lapse(c)
  BY <1>2, ExpireFromMaps DEF Lapse, CallAt, Working, Deciding
<1>3. CASE Reject(c) \/ Approve(c)
  <2>1. caller[c].pc \in Deciding /\ caller[c].pc \in Working /\ UNCHANGED diskVars
    BY <1>3 DEF Reject, Approve, CallAt, Deciding, Working
  <2>2. PICK t \in Transfers : t = Target(c)
    BY <2>1, AtWork
  <2>3. \/ UNCHANGED rowVars
        \/ \E s \in {"approved", "approval_rejected"} :
             /\ CanMove(t, s)
             /\ row' = [row EXCEPT ![t].state = s, ![t].actor = caller[c].event]
    BY <1>3, <2>2 DEF Reject, Approve
  <2>4. QED
    BY <2>1, <2>3, DecidedMaps, QuietMaps DEF rowVars, diskVars
<1>4. CASE Condemn(c)
  BY <1>4, CondemnMaps
<1>5. QED
  BY <1>1, <1>2, <1>3, <1>4 DEF DecisionStep

LEMMA ReleaseMaps ==
  ASSUME Inv, NEW c \in Callers, ReleaseStep(c)
  PROVE  LC!Next \/ UNCHANGED LC!vars
<1>1. CASE Release(c) \/ Locate(c) \/ CleanUp(c) \/ Seal(c)
  <2>1. UNCHANGED <<row, file>>
    BY <1>1 DEF Release, Locate, CleanUp, Seal, rowVars, diskVars
  <2>2. QED
    BY <2>1, QuietMaps
<1>2. CASE Revoke(c)
  BY <1>2, ExpireFromMaps DEF Revoke, CallAt, Working, Releasing
<1>3. CASE Move(c) \/ RemoveDir(c) \/ Repath(c) \/ Settle(c)
  BY <1>3, MoveMaps, RemoveDirMaps, RepathMaps, SettleMaps
<1>4. QED
  BY <1>1, <1>2, <1>3 DEF ReleaseStep

LEMMA SweepMaps ==
  ASSUME Inv, SweepStep
  PROVE  LC!Next \/ UNCHANGED LC!vars
<1>1. CASE \/ StartTimeouts \/ StartReleases \/ ReleaseRetried \/ StartExpiring
           \/ StartPurge \/ EndSweep
  <2>1. UNCHANGED <<row, file>>
    BY <1>1 DEF StartTimeouts, StartReleases, ReleaseRetried, StartExpiring, StartPurge,
                EndSweep, rowVars, diskVars
  <2>2. QED
    BY <2>1, QuietMaps
<1>2. CASE TimeOutScan \/ ExpireDue
  <2>1. PICK t \in Transfers : t = mt.current
    BY <1>2 DEF Inv, MtOk, TimeOutScan, ExpireDue
  <2>2. /\ \/ UNCHANGED rowVars
           \/ \E s \in {"quarantined", "expired"} : Transition(t, s)
        /\ UNCHANGED diskVars
    BY <1>2, <2>1 DEF TimeOutScan, ExpireDue, WriteRead
  <2>3. {"quarantined", "expired"} \subseteq States \ Decided
    BY DEF States, Decided
  <2>4. QED
    BY <2>2, <2>3, TransitionMaps, QuietMaps DEF rowVars, diskVars
<1>3. CASE ClearPath
  BY <1>3, ClearPathMaps
<1>4. ASSUME NEW t \in Transfers, ReadStuck(t) \/ RetryRelease(t) \/ ReadDue(t)
      PROVE  UNCHANGED LC!vars
  <2>1. UNCHANGED <<row, file>>
    BY <1>4 DEF ReadStuck, RetryRelease, ReadDue, rowVars, diskVars
  <2>2. QED
    BY <2>1, QuietMaps
<1>5. ASSUME NEW t \in Transfers, PurgePayload(t)
      PROVE  LC!Next \/ UNCHANGED LC!vars
  BY <1>5, PurgePayloadMaps
<1>6. QED
  BY <1>1, <1>2, <1>3, <1>4, <1>5 DEF SweepStep

LEMMA BootMaps ==
  ASSUME Inv, BootStep \/ Crash
  PROVE  LC!Next \/ UNCHANGED LC!vars
<1>1. CASE Harden \/ StartRecovery \/ StartServing \/ Crash
  <2>1. UNCHANGED <<row, file>>
    BY <1>1 DEF Harden, StartRecovery, StartServing, Crash, rowVars, diskVars
  <2>2. QED
    BY <2>1, QuietMaps
<1>2. ASSUME NEW t \in Transfers, Recover(t)
      PROVE  LC!Next
  <2>1. "quarantined" \in States \ Decided
    BY DEF States, Decided
  <2>2. QED
    BY <1>2, <2>1, TransitionMaps DEF Recover
<1>3. ASSUME NEW t \in Transfers, RecoveryRaises(t)
      PROVE  UNCHANGED LC!vars
  <2>1. UNCHANGED <<row, file>>
    BY <1>3 DEF RecoveryRaises, rowVars, diskVars
  <2>2. QED
    BY <2>1, QuietMaps
<1>4. QED
  BY <1>1, <1>2, <1>3 DEF BootStep

LEMMA StepMaps == Inv /\ [Next]_vars => LC!Next \/ UNCHANGED LC!vars
<1>1. SUFFICES ASSUME Inv, [Next]_vars
               PROVE  LC!Next \/ UNCHANGED LC!vars
  OBVIOUS
<1>2. ASSUME NEW p \in [permits: BOOLEAN, provider: Providers], SetPolicy(p)
      PROVE  UNCHANGED LC!vars
  <2>1. UNCHANGED <<row, file>>
    BY <1>2 DEF SetPolicy, rowVars, diskVars
  <2>2. QED
    BY <2>1, QuietMaps
<1>3. ASSUME NEW t \in Transfers, Upload(t)
      PROVE  LC!Next
  BY <1>1, <1>3, UploadMaps
<1>4. ASSUME NEW t \in Transfers, Rescan(t) \/ Expire(t)
      PROVE  LC!Next
  <2>1. /\ \E s \in {"pending_scan", "expired"} : Transition(t, s)
        /\ UNCHANGED diskVars
    BY <1>4 DEF Rescan, Expire
  <2>2. {"pending_scan", "expired"} \subseteq States \ Decided
    BY DEF States, Decided
  <2>3. QED
    BY <1>1, <2>1, <2>2, TransitionMaps
<1>5. ASSUME NEW t \in Transfers, BecomesLate(t)
      PROVE  UNCHANGED LC!vars
  <2>1. UNCHANGED <<row, file>>
    BY <1>5 DEF BecomesLate, diskVars
  <2>2. QED
    BY <2>1, QuietMaps
<1>6. ASSUME NEW w \in Workers, ScanStep(w) \/ ScanGlitch(w)
      PROVE  LC!Next \/ UNCHANGED LC!vars
  BY <1>1, <1>6, ScanStepMaps
<1>7. ASSUME NEW w \in Workers, NEW t \in Transfers, BeginScan(w, t) \/ DeadLetter(w, t)
      PROVE  LC!Next \/ UNCHANGED LC!vars
  BY <1>1, <1>7, WorkerMaps
<1>8. ASSUME NEW c \in Requests,
             \/ \E t \in Transfers : Decide(c, t)
             \/ \E e \in Events : Callback(c, e)
      PROVE  UNCHANGED LC!vars
  <2>1. UNCHANGED <<row, file>>
    BY <1>8 DEF Decide, Callback, rowVars, diskVars
  <2>2. QED
    BY <2>1, QuietMaps
<1>9. ASSUME NEW c \in Requests, DecisionStep(c)
      PROVE  LC!Next \/ UNCHANGED LC!vars
  BY <1>1, <1>9, DecisionMaps DEF Callers
<1>10. ASSUME NEW c \in Callers, ReleaseStep(c)
       PROVE  LC!Next \/ UNCHANGED LC!vars
  BY <1>1, <1>10, ReleaseMaps
<1>11. ASSUME NEW c \in Callers, CallGlitch(c)
       PROVE  UNCHANGED LC!vars
  <2>1. UNCHANGED <<row, file>>
    BY <1>11 DEF CallGlitch, rowVars, diskVars
  <2>2. QED
    BY <2>1, QuietMaps
<1>12. CASE SweepStep \/ BootStep \/ Crash
  BY <1>1, <1>12, SweepMaps, BootMaps
<1>13. CASE UNCHANGED vars
  <2>1. UNCHANGED <<row, file>>
    BY <1>13 DEF vars
  <2>2. QED
    BY <2>1, QuietMaps
<1>14. QED
  BY <1>1, <1>2, <1>3, <1>4, <1>5, <1>6, <1>7, <1>8, <1>9, <1>10, <1>11, <1>12, <1>13 DEF Next

\* The outbound service implements TransferLifecycle: states only move along the
\* published pipeline, payloads cross on a durable decision only, decisions stand until
\* the transfer expires, and only an exception loses a payload before that.
THEOREM OutboundImplementsLifecycle == Spec => ImplementsLifecycle
<1>1. Init => LC!Init
  BY DEF Init, NoRow, TransferStates, TransferActors, LC!Init
<1>2. Inv /\ [Next]_vars => [LC!Next]_LC!vars
  BY StepMaps
<1>3. QED
  BY <1>1, <1>2, TransfersAreTracked, PTL DEF Spec, ImplementsLifecycle, LC!Spec
==============================================================================
