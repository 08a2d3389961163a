---------------------------- MODULE AuditTrailProofs ----------------------------
(***************************************************************************)
(* Theorems about the audit trail, for any number of threads and           *)
(* transactions.                                                           *)
(*                                                                         *)
(* They rest on the lock: whoever is inside a transaction has it, so what  *)
(* the transaction read of the trail (the next id, the newest digest) is   *)
(* still true when it commits.                                             *)
(***************************************************************************)
EXTENDS AuditTrail, SequenceTheorems, TLAPS

Event == [id: Nat, of: Nat]
Link  == [id: Nat, prev: Seq(Nat), hash: Seq(Nat)]
Txn   == [step: {"out", "mutate", "insert", "link", "commit"},
          ticket: Nat, event: Nat, link: Seq(Nat)]

\* What is true of a trail es, c and the changes ap it tells of, when n tickets have been
\* drawn and those in pl only log.
Sound(es, c, ap, pl, n) ==
  /\ es \in Seq(Event) /\ c \in Seq(Link)
  /\ \A i \in 1..Len(es) : es[i].id = i /\ es[i].of \in 1..n
  /\ Linked(es, c)
  /\ ap = {es[i].of : i \in 1..Len(es)} \ pl
  /\ \A i, j \in 1..Len(es) : es[i].of = es[j].of => i = j

TrailTypeOK ==
  /\ plain \in SUBSET (1..tickets) /\ tickets \in 0..MaxTickets
  /\ storeLock \in Writers \cup {NoWriter}
  /\ txn \in [Writers -> Txn]
  /\ checker \in [step: {"idle", "count"}, seen: Nat, raised: BOOLEAN]

\* The lock, and what it keeps true of the transaction that holds it.
Guarded(w) ==
  ~Step(w, "out") =>
    /\ storeLock = w
    /\ txn[w].ticket \in 1..tickets
    /\ \A i \in 1..Len(events) : events[i].of # txn[w].ticket
    /\ Step(w, "mutate") => txn[w].ticket \notin plain
    /\ Step(w, "link") \/ Step(w, "commit") => txn[w].event = Len(events) + 1
    /\ Step(w, "commit") => txn[w].link = HeadOf(chain)

CheckerBehind ==
  /\ checker.step = "count" => checker.seen <= Len(events)
  /\ checker.raised => checker.seen < Len(events)

TrailInv ==
  /\ TrailTypeOK
  /\ Sound(events, chain, applied, plain, tickets)
  /\ \A w \in Writers : Guarded(w)
  /\ CheckerBehind

LEMMA TrailStarts == TrailInit => TrailInv
<1> SUFFICES ASSUME TrailInit
             PROVE  TrailInv
  OBVIOUS
<1> USE TrailConstants DEF TrailInit
<1>1. TrailTypeOK
  BY DEF TrailTypeOK, NoTxn, Txn, Genesis, Checked
<1>2. Sound(events, chain, applied, plain, tickets)
  BY DEF Sound, Linked, Event, Link
<1>3. \A w \in Writers : Guarded(w)
  BY DEF Guarded, Step, NoTxn
<1>4. CheckerBehind
  BY DEF CheckerBehind, Checked
<1>5. QED
  BY <1>1, <1>2, <1>3, <1>4 DEF TrailInv

\* A trail stays sound when another ticket is drawn.
LEMMA SoundWithMoreTickets ==
  ASSUME NEW es, NEW c, NEW ap, NEW n \in Nat, NEW pl \in SUBSET (1..n),
         NEW pl2 \in {pl, pl \cup {n + 1}},
         Sound(es, c, ap, pl, n)
  PROVE  Sound(es, c, ap, pl2, n + 1)
<1>1. \A i \in 1..Len(es) : es[i].of \in 1..(n + 1) /\ es[i].of # n + 1
  BY DEF Sound
<1>2. {es[i].of : i \in 1..Len(es)} \ pl2 = {es[i].of : i \in 1..Len(es)} \ pl
  BY <1>1
<1>3. QED
  BY <1>1, <1>2 DEF Sound

\* The newest digest is one.
LEMMA HeadTyped ==
  ASSUME NEW c \in Seq(Link)
  PROVE  HeadOf(c) \in Seq(Nat)
<1>1. CASE c = <<>>
  BY <1>1 DEF HeadOf, Genesis
<1>2. CASE c # <<>>
  <2>1. Len(c) \in 1..Len(c)
    BY <1>2
  <2>2. c[Len(c)] \in Link
    BY <2>1
  <2>3. QED
    BY <1>2, <2>2 DEF HeadOf, Link
<1>3. QED
  BY <1>1, <1>2

\* A trail stays sound when the next event is appended under a fresh ticket.
LEMMA SoundWithOneMore ==
  ASSUME NEW es, NEW c, NEW ap, NEW pl, NEW n \in Nat, NEW t \in 1..n,
         Sound(es, c, ap, pl, n),
         \A i \in 1..Len(es) : es[i].of # t
  PROVE  Sound(Append(es, [id |-> Len(es) + 1, of |-> t]),
               Append(c, [id |-> Len(es) + 1, prev |-> HeadOf(c), hash |-> Append(HeadOf(c), t)]),
               IF t \in pl THEN ap ELSE ap \cup {t}, pl, n)
<1> DEFINE e   == [id |-> Len(es) + 1, of |-> t]
           l   == [id |-> Len(es) + 1, prev |-> HeadOf(c), hash |-> Append(HeadOf(c), t)]
           es2 == Append(es, e)
           c2  == Append(c, l)
           ap2 == IF t \in pl THEN ap ELSE ap \cup {t}
<1>1. es \in Seq(Event) /\ c \in Seq(Link) /\ Len(es) \in Nat /\ Len(c) = Len(es)
  BY DEF Sound, Linked
<1>2. e \in Event /\ l \in Link
  BY <1>1, HeadTyped DEF Event, Link
<1>3. /\ es2 \in Seq(Event) /\ Len(es2) = Len(es) + 1
      /\ es2[Len(es) + 1] = e
      /\ \A i \in 1..Len(es) : es2[i] = es[i]
  BY <1>1, <1>2
<1>4. /\ c2 \in Seq(Link) /\ Len(c2) = Len(c) + 1
      /\ c2[Len(c) + 1] = l
      /\ \A i \in 1..Len(c) : c2[i] = c[i]
  BY <1>1, <1>2
<1> HIDE DEF es2, c2
<1>0. \A i \in 1..Len(es2) : i \in 1..Len(es) \/ i = Len(es) + 1
  BY <1>1, <1>3
<1>5. \A i \in 1..Len(es2) : es2[i].id = i /\ es2[i].of \in 1..n
  <2> TAKE i \in 1..Len(es2)
  <2>1. CASE i \in 1..Len(es)
    BY <2>1, <1>3 DEF Sound
  <2>2. CASE i = Len(es) + 1
    BY <2>2, <1>3
  <2>3. QED
    BY <2>1, <2>2, <1>0
<1>6. Linked(es2, c2)
  <2>1. Len(es2) = Len(c2)
    BY <1>1, <1>3, <1>4
  <2>2. ASSUME NEW i \in 1..Len(c)
        PROVE  /\ c2[i].id = es2[i].id
               /\ c2[i].prev = IF i = 1 THEN Genesis ELSE c2[i - 1].hash
               /\ c2[i].hash = Append(c2[i].prev, es2[i].of)
    <3>0. i \in 1..Len(es) /\ (i # 1 => i - 1 \in 1..Len(c))
      BY <1>1
    <3>1. c2[i] = c[i] /\ es2[i] = es[i] /\ (i # 1 => c2[i - 1] = c[i - 1])
      BY <3>0, <1>3, <1>4
    <3>2. QED
      BY <3>1 DEF Sound, Linked
  <2>3. l.prev = IF Len(c) + 1 = 1 THEN Genesis ELSE c2[Len(c)].hash
    <3>1. CASE c = <<>>
      BY <3>1 DEF HeadOf
    <3>2. CASE c # <<>>
      <4>1. Len(c) \in 1..Len(c)
        BY <3>2, <1>1
      <4>2. QED
        BY <4>1, <3>2, <1>4 DEF HeadOf
    <3>3. QED
      BY <3>1, <3>2
  <2>4. ASSUME NEW i \in 1..Len(c2), i = Len(c) + 1
        PROVE  /\ c2[i].id = es2[i].id
               /\ c2[i].prev = IF i = 1 THEN Genesis ELSE c2[i - 1].hash
               /\ c2[i].hash = Append(c2[i].prev, es2[i].of)
    <3>1. c2[i] = l /\ es2[i] = e /\ i - 1 = Len(c)
      BY <2>4, <1>1, <1>3, <1>4
    <3>2. QED
      BY <3>1, <2>3, <2>4
  <2>5. QED
    BY <2>1, <2>2, <2>4, <1>1, <1>4 DEF Linked
<1>7. ap2 = {es2[i].of : i \in 1..Len(es2)} \ pl
  <2>1. {es2[i].of : i \in 1..Len(es2)} = {es[i].of : i \in 1..Len(es)} \cup {t}
    <3>1. ASSUME NEW i \in 1..Len(es2)
          PROVE  es2[i].of \in {es[j].of : j \in 1..Len(es)} \cup {t}
      <4>1. CASE i \in 1..Len(es)
        BY <4>1, <1>3
      <4>2. CASE i = Len(es) + 1
        BY <4>2, <1>3
      <4>3. QED
        BY <4>1, <4>2, <1>1, <1>3
    <3>2. ASSUME NEW i \in 1..Len(es)
          PROVE  es[i].of \in {es2[j].of : j \in 1..Len(es2)}
      BY <1>1, <1>3
    <3>3. t \in {es2[j].of : j \in 1..Len(es2)}
      BY <1>1, <1>3
    <3>4. QED
      BY <3>1, <3>2, <3>3
  <2>2. QED
    BY <2>1 DEF Sound
<1>8. \A i, j \in 1..Len(es2) : es2[i].of = es2[j].of => i = j
  <2> TAKE i, j \in 1..Len(es2)
  <2>1. CASE i \in 1..Len(es) /\ j \in 1..Len(es)
    BY <2>1, <1>3 DEF Sound
  <2>2. CASE i = Len(es) + 1 /\ j \in 1..Len(es)
    BY <2>2, <1>3
  <2>3. CASE j = Len(es) + 1 /\ i \in 1..Len(es)
    BY <2>3, <1>3
  <2>4. QED
    BY <2>1, <2>2, <2>3, <1>1, <1>3
<1>9. Sound(es2, c2, ap2, pl, n)
  BY <1>3, <1>4, <1>5, <1>6, <1>7, <1>8 DEF Sound
<1>10. QED
  BY <1>9 DEF es2, c2

\* Only the thread that takes the step, which has the lock, can be inside a transaction.
LEMMA OthersAreOut ==
  ASSUME TrailInv, NEW w \in Writers, storeLock \in {w, NoWriter},
         NEW v \in Writers, v # w
  PROVE  Step(v, "out")
BY TrailConstants DEF TrailInv, Guarded

\* A transaction begins.
LEMMA EnterPreserves ==
  ASSUME TrailInv, NEW w \in Writers, NEW mutates \in BOOLEAN, Enter(w, mutates)
  PROVE  TrailInv'
<1> USE DEF Enter, tableVars
<1>1. TrailTypeOK'
  <2>1. /\ tickets' \in 0..MaxTickets /\ plain' \in SUBSET (1..tickets')
        /\ tickets + 1 \in Nat
    BY TrailConstants DEF TrailInv, TrailTypeOK
  <2>2. [NoTxn EXCEPT !.step = IF mutates THEN "mutate" ELSE "insert", !.ticket = tickets + 1]
          \in Txn
    <3>1. NoTxn \in Txn
      BY DEF NoTxn, Genesis, Txn
    <3>2. ASSUME NEW s \in {"mutate", "insert"}
          PROVE  [NoTxn EXCEPT !.step = s, !.ticket = tickets + 1] \in Txn
      BY <2>1, <3>1 DEF Txn
    <3>3. QED
      BY <3>2
  <2>3. txn' \in [Writers -> Txn]
    BY <2>2 DEF TrailInv, TrailTypeOK
  <2>4. QED
    BY <2>1, <2>3 DEF TrailInv, TrailTypeOK
<1>2. Sound(events, chain, applied, plain, tickets)'
  BY SoundWithMoreTickets DEF TrailInv, TrailTypeOK
<1>3. ASSUME NEW v \in Writers
      PROVE  Guarded(v)'
  <2>1. CASE v = w
    <3>1. /\ txn'[w].ticket = tickets + 1
          /\ txn'[w].step = IF mutates THEN "mutate" ELSE "insert"
      BY DEF TrailInv, TrailTypeOK, NoTxn
    <3>2. \A i \in 1..Len(events) : events[i].of # tickets + 1
      BY DEF TrailInv, TrailTypeOK, Sound
    <3>3. QED
      BY <2>1, <3>1, <3>2 DEF Guarded, Step, TrailInv, TrailTypeOK
  <2>2. CASE v # w
    BY <2>2, OthersAreOut DEF Guarded, Step, TrailInv, TrailTypeOK
  <2>3. QED
    BY <2>1, <2>2
<1>4. CheckerBehind'
  BY DEF TrailInv, CheckerBehind
<1>5. QED
  BY <1>1, <1>2, <1>3, <1>4 DEF TrailInv

\* It ends without a trace.
LEMMA RollBackPreserves ==
  ASSUME TrailInv, NEW w \in Writers, RollBack(w)
  PROVE  TrailInv'
<1> USE DEF RollBack, Leave, tableVars
<1>1. TrailTypeOK'
  BY DEF TrailInv, TrailTypeOK, NoTxn, Genesis, Txn
<1>2. Sound(events, chain, applied, plain, tickets)'
  BY DEF TrailInv
<1>3. ASSUME NEW v \in Writers
      PROVE  Guarded(v)'
  <2>1. storeLock = w
    BY DEF TrailInv, Guarded
  <2>2. Step(v, "out")'
    BY <2>1, OthersAreOut DEF Step, TrailInv, TrailTypeOK, NoTxn
  <2>3. QED
    BY <2>2 DEF Guarded
<1>4. CheckerBehind'
  BY DEF TrailInv, CheckerBehind
<1>5. QED
  BY <1>1, <1>2, <1>3, <1>4 DEF TrailInv

\* Its statements, before the last.
LEMMA StatementPreserves ==
  ASSUME TrailInv, NEW w \in Writers, Mutate(w) \/ InsertEvent(w) \/ LinkEvent(w)
  PROVE  TrailInv'
<1> USE DEF Mutate, InsertEvent, LinkEvent, tableVars
<1>1. Len(events) \in Nat /\ HeadOf(chain) \in Seq(Nat)
  BY HeadTyped DEF TrailInv, Sound
<1>2. TrailTypeOK'
  <2>1. /\ [txn[w] EXCEPT !.step = "insert"] \in Txn
        /\ [txn[w] EXCEPT !.step = "link", !.event = Len(events) + 1] \in Txn
        /\ [txn[w] EXCEPT !.step = "commit", !.link = HeadOf(chain)] \in Txn
    <3>1. /\ txn[w] \in Txn
          /\ Len(events) + 1 \in Nat
      BY <1>1 DEF TrailInv, TrailTypeOK
    <3>2. [txn[w] EXCEPT !.step = "insert"] \in Txn
      BY <3>1 DEF Txn
    <3>3. [txn[w] EXCEPT !.step = "link", !.event = Len(events) + 1] \in Txn
      BY <3>1 DEF Txn
    <3>4. [txn[w] EXCEPT !.step = "commit", !.link = HeadOf(chain)] \in Txn
      BY <3>1, <1>1 DEF Txn
    <3>5. QED
      BY <3>2, <3>3, <3>4
  <2>2. txn' \in [Writers -> Txn]
    BY <2>1 DEF TrailInv, TrailTypeOK
  <2>3. QED
    BY <2>2 DEF TrailInv, TrailTypeOK
<1>3. Sound(events, chain, applied, plain, tickets)'
  BY DEF TrailInv
<1>4. ASSUME NEW v \in Writers
      PROVE  Guarded(v)'
  <2>1. storeLock = w
    BY DEF TrailInv, Guarded, Step
  <2>2. CASE v = w
    <3>1. /\ txn'[w].ticket = txn[w].ticket
          /\ \/ txn[w].step = "mutate" /\ txn'[w].step = "insert"
             \/ /\ txn[w].step = "insert" /\ txn'[w].step = "link"
                /\ txn'[w].event = Len(events) + 1
             \/ /\ txn[w].step = "link" /\ txn'[w].step = "commit"
                /\ txn'[w].event = txn[w].event /\ txn'[w].link = HeadOf(chain)
      BY DEF TrailInv, TrailTypeOK, Txn, Step
    <3>2. QED
      BY <2>1, <2>2, <3>1 DEF TrailInv, Guarded, Step, HeadOf
  <2>3. CASE v # w
    BY <2>1, <2>3, OthersAreOut DEF Guarded, Step, TrailInv, TrailTypeOK
  <2>4. QED
    BY <2>2, <2>3
<1>5. CheckerBehind'
  BY DEF TrailInv, CheckerBehind
<1>6. QED
  BY <1>2, <1>3, <1>4, <1>5 DEF TrailInv

\* It commits: what it read when it inserted its event is what is there now.
LEMMA CommitPreserves ==
  ASSUME TrailInv, NEW w \in Writers, Commit(w)
  PROVE  TrailInv'
<1> USE DEF Commit, Leave
<1>1. /\ txn[w].event = Len(events) + 1 /\ txn[w].link = HeadOf(chain)
      /\ txn[w].ticket \in 1..tickets
      /\ \A i \in 1..Len(events) : events[i].of # txn[w].ticket
      /\ storeLock = w
  BY DEF TrailInv, Guarded, Step
<1>2. TrailTypeOK'
  BY DEF TrailInv, TrailTypeOK, NoTxn, Genesis, Txn
<1>3. Sound(events, chain, applied, plain, tickets)'
  <2> DEFINE t == txn[w].ticket
             n == Len(events) + 1
  <2>1. /\ events' = Append(events, [id |-> n, of |-> t])
        /\ chain' = Append(chain, [id |-> n, prev |-> HeadOf(chain),
                                   hash |-> Append(HeadOf(chain), t)])
        /\ applied' = (IF t \in plain THEN applied ELSE applied \cup {t})
        /\ plain' = plain /\ tickets' = tickets /\ tickets \in Nat
    BY <1>1 DEF TrailInv, TrailTypeOK
  <2>2. Sound(events, chain, applied, plain, tickets)
    BY DEF TrailInv
  <2>3. Sound(Append(events, [id |-> n, of |-> t]),
              Append(chain, [id |-> n, prev |-> HeadOf(chain), hash |-> Append(HeadOf(chain), t)]),
              IF t \in plain THEN applied ELSE applied \cup {t}, plain, tickets)
    BY <1>1, <2>1, <2>2, SoundWithOneMore
  <2>4. Sound(events', chain', applied', plain', tickets')
    BY <2>1, <2>3
  <2>5. QED
    BY <2>4 DEF Sound, Linked
<1>4. ASSUME NEW v \in Writers
      PROVE  Guarded(v)'
  <2>1. Step(v, "out")'
    BY <1>1, OthersAreOut DEF Step, TrailInv, TrailTypeOK, NoTxn
  <2>2. QED
    BY <2>1 DEF Guarded
<1>5. CheckerBehind'
  <2>1. events \in Seq(Event) /\ [id |-> txn[w].event, of |-> txn[w].ticket] \in Event
    BY <1>1 DEF TrailInv, TrailTypeOK, Sound, Event
  <2>2. Len(events') = Len(events) + 1 /\ Len(events) \in Nat
    BY <2>1
  <2>3. QED
    BY <2>2 DEF TrailInv, TrailTypeOK, CheckerBehind
<1>6. QED
  BY <1>2, <1>3, <1>4, <1>5 DEF TrailInv

LEMMA WriterPreserves ==
  ASSUME TrailInv, NEW w \in Writers, WriterStep(w)
  PROVE  TrailInv'
BY EnterPreserves, RollBackPreserves, StatementPreserves, CommitPreserves DEF WriterStep

\* The reader has no lock: it may fall behind, but a sound trail never alarms it otherwise.
LEMMA CheckPreserves ==
  ASSUME TrailInv, ReadEvents \/ CountChain
  PROVE  TrailInv'
<1> USE DEF ReadEvents, CountChain, tableVars, Checked
<1>1. Len(events) \in Nat /\ Len(chain) = Len(events) /\ Linked(events, chain)
  BY DEF TrailInv, Sound, Linked
<1>2. TrailTypeOK'
  BY <1>1 DEF TrailInv, TrailTypeOK
<1>3. Sound(events, chain, applied, plain, tickets)' /\ \A v \in Writers : Guarded(v)'
  BY DEF TrailInv, Guarded, Step
<1>4. CheckerBehind'
  <2>1. CASE ReadEvents
    BY <1>1, <2>1 DEF CheckerBehind
  <2>2. CASE CountChain
    <3>1. /\ checker.seen \in Nat /\ checker.seen <= Len(events)
          /\ checker \in [step: {"idle", "count"}, seen: Nat, raised: BOOLEAN]
      BY <2>2 DEF TrailInv, TrailTypeOK, CheckerBehind
    <3>2. /\ checker'.step = "idle" /\ checker'.seen = checker.seen
          /\ checker'.raised => Len(chain) # checker.seen \/ ~Linked(events, chain)
      BY <2>2, <3>1
    <3>3. QED
      BY <1>1, <2>2, <3>1, <3>2 DEF CheckerBehind
  <2>3. QED
    BY <2>1, <2>2
<1>5. QED
  BY <1>2, <1>3, <1>4 DEF TrailInv

LEMMA CrashPreserves ==
  ASSUME TrailInv, TrailCrash
  PROVE  TrailInv'
<1> USE DEF TrailCrash, tableVars, Checked
<1>1. TrailTypeOK'
  BY DEF TrailInv, TrailTypeOK, NoTxn, Genesis, Txn
<1>2. Sound(events, chain, applied, plain, tickets)' /\ \A v \in Writers : Guarded(v)'
  BY DEF TrailInv, Guarded, Step, NoTxn
<1>3. CheckerBehind'
  BY DEF CheckerBehind
<1>4. QED
  BY <1>1, <1>2, <1>3 DEF TrailInv

\* A step that leaves all of this alone.
LEMMA TrailStutters ==
  ASSUME TrailInv, UNCHANGED trailVars
  PROVE  TrailInv'
BY DEF trailVars, TrailInv, TrailTypeOK, Guarded, Step, CheckerBehind

\* The inductive invariant.
THEOREM TrailInvariant == TrailSpec => []TrailInv
<1>1. TrailInv /\ [TrailNext]_trailVars => TrailInv'
  BY WriterPreserves, CheckPreserves, CrashPreserves, TrailStutters DEF TrailNext
<1>2. QED
  BY <1>1, TrailStarts, PTL DEF TrailSpec

LEMMA InvariantImplies ==
  ASSUME TrailInv
  PROVE  TrailIntact /\ EveryChangeIsLogged /\ AlarmsAreRaces
BY DEF TrailInv, Sound, TrailTypeOK, CheckerBehind, TrailIntact, EveryChangeIsLogged,
       AlarmsAreRaces

\* Concurrent writers, transactions that are rolled back and crashes leave no gap, fork or
\* loose end in the trail.
THEOREM TrailStaysIntact == TrailSpec => []TrailIntact
BY TrailInvariant, InvariantImplies, PTL

\* A change is committed with exactly one event that tells of it, or not at all.
THEOREM ChangesAreLogged == TrailSpec => []EveryChangeIsLogged
BY TrailInvariant, InvariantImplies, PTL

\* The check of a running service, which reads twice without the lock, never raises over a
\* sound trail but because an event was committed between its reads.
THEOREM AlarmsExplained == TrailSpec => []AlarmsAreRaces
BY TrailInvariant, InvariantImplies, PTL
==============================================================================
