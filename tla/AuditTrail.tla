-------------------------------- MODULE AuditTrail --------------------------------
(***************************************************************************)
(* Store (src/src/sfss/db.py): changes of state and the audit events that  *)
(* record them, each event chained to the one before by a digest.          *)
(*                                                                         *)
(* A digest stands for what it was computed from, here the tickets of all  *)
(* the events up to its own.  Thread w holds Store._lock for as long as    *)
(* its transaction; what it inserts becomes visible when it commits.       *)
(* Changes that log nothing (execute, transaction) are left out.           *)
(***************************************************************************)
EXTENDS Naturals, Sequences

CONSTANTS Writers,      \* threads that change the store
          NoWriter,
          MaxTickets    \* bound of the model: transactions begun

ASSUME TrailConstants == NoWriter \notin Writers /\ MaxTickets \in Nat

VARIABLES events,     \* audit_events
          chain,      \* audit_chain
          applied,    \* the changes committed, by ticket
          plain,      \* the tickets that only log, a denial say
          tickets,
          storeLock,
          txn,        \* the transaction of each thread
          checker     \* an administrator's request that verifies the chain

trailVars == <<events, chain, applied, plain, tickets, storeLock, txn, checker>>
tableVars   == <<events, chain, applied>>

Genesis == <<>>
NoTxn   == [step |-> "out", ticket |-> 0, event |-> 0, link |-> Genesis]
Checked == [step |-> "idle", seen |-> 0, raised |-> FALSE]

TrailInit ==
  /\ events = <<>> /\ chain = <<>>
  /\ applied = {} /\ plain = {} /\ tickets = 0
  /\ storeLock = NoWriter
  /\ txn = [w \in Writers |-> NoTxn]
  /\ checker = Checked

\* Mutant: the oldest row of the chain is taken for the newest.
OldestHash(c) == IF c = <<>> THEN Genesis ELSE c[1].hash

HeadOf(c) == IF c = <<>> THEN Genesis ELSE c[Len(c)].hash

------------------------------------------------------------------------------
(* Writers.                                                                *)

Step(w, s) == txn[w].step = s

\* Mutant: the lock is not taken, and the database admits both transactions.
EnterUnlocked(w, mutates) ==
  /\ Step(w, "out") /\ tickets < MaxTickets
  /\ tickets' = tickets + 1
  /\ plain' = IF mutates THEN plain ELSE plain \cup {tickets + 1}
  /\ storeLock' = w
  /\ txn' = [txn EXCEPT ![w] = [NoTxn EXCEPT !.step = IF mutates THEN "mutate" ELSE "insert",
                                             !.ticket = tickets + 1]]
  /\ UNCHANGED <<tableVars, checker>>

Enter(w, mutates) ==
  /\ Step(w, "out") /\ tickets < MaxTickets
  /\ storeLock = NoWriter
  /\ tickets' = tickets + 1
  /\ plain' = IF mutates THEN plain ELSE plain \cup {tickets + 1}
  /\ storeLock' = w
  /\ txn' = [txn EXCEPT ![w] = [NoTxn EXCEPT !.step = IF mutates THEN "mutate" ELSE "insert",
                                             !.ticket = tickets + 1]]
  /\ UNCHANGED <<tableVars, checker>>

Leave(w) == txn' = [txn EXCEPT ![w] = NoTxn] /\ storeLock' = NoWriter

\* Mutant: the change is a transaction of its own, its event follows in another.
MutateAndCommit(w) ==
  /\ Step(w, "mutate")
  /\ txn' = [txn EXCEPT ![w].step = "insert"]
  /\ applied' = applied \cup {txn[w].ticket}
  /\ UNCHANGED <<events, chain, plain, tickets, storeLock, checker>>

Mutate(w) ==
  /\ Step(w, "mutate")
  /\ txn' = [txn EXCEPT ![w].step = "insert"]
  /\ UNCHANGED <<tableVars, plain, tickets, storeLock, checker>>

\* The change matches no row, or not the rows it must; or a statement fails.
RollBack(w) ==
  /\ ~Step(w, "out")
  /\ Leave(w)
  /\ UNCHANGED <<tableVars, plain, tickets, checker>>

\* The next AUTOINCREMENT value; a transaction that is rolled back gives it back.
InsertEvent(w) ==
  /\ Step(w, "insert")
  /\ txn' = [txn EXCEPT ![w].step = "link", ![w].event = Len(events) + 1]
  /\ UNCHANGED <<tableVars, plain, tickets, storeLock, checker>>

LinkEvent(w) ==
  /\ Step(w, "link")
  /\ txn' = [txn EXCEPT ![w].step = "commit", ![w].link = HeadOf(chain)]
  /\ UNCHANGED <<tableVars, plain, tickets, storeLock, checker>>

Commit(w) ==
  /\ Step(w, "commit")
  /\ LET t == txn[w]
     IN /\ events' = Append(events, [id |-> t.event, of |-> t.ticket])
        /\ chain' = Append(chain, [id |-> t.event, prev |-> t.link,
                                   hash |-> Append(t.link, t.ticket)])
        /\ applied' = IF t.ticket \in plain THEN applied ELSE applied \cup {t.ticket}
  /\ Leave(w)
  /\ UNCHANGED <<plain, tickets, checker>>

TrailCrash ==
  /\ txn' = [w \in Writers |-> NoTxn]
  /\ storeLock' = NoWriter
  /\ checker' = Checked
  /\ UNCHANGED <<tableVars, plain, tickets>>

------------------------------------------------------------------------------
(* The check, which takes no lock and reads twice.                         *)

\* What verify_audit_chain compares, row by row, in any copy of the two tables.
Linked(es, c) ==
  /\ Len(es) = Len(c)
  /\ \A i \in 1..Len(c) :
       /\ c[i].id = es[i].id
       /\ c[i].prev = IF i = 1 THEN Genesis ELSE c[i - 1].hash
       /\ c[i].hash = Append(c[i].prev, es[i].of)

ReadEvents ==
  /\ checker.step = "idle"
  /\ checker' = [Checked EXCEPT !.step = "count", !.seen = Len(events)]
  /\ UNCHANGED <<tableVars, plain, tickets, storeLock, txn>>

CountChain ==
  /\ checker.step = "count"
  /\ checker' = [checker EXCEPT !.step = "idle",
                   !.raised = Len(chain) # checker.seen \/ ~Linked(events, chain)]
  /\ UNCHANGED <<tableVars, plain, tickets, storeLock, txn>>

WriterStep(w) == \/ Mutate(w) \/ RollBack(w) \/ InsertEvent(w) \/ LinkEvent(w) \/ Commit(w)
                 \/ \E mutates \in BOOLEAN : Enter(w, mutates)

TrailNext == \/ \E w \in Writers : WriterStep(w)
             \/ ReadEvents \/ CountChain \/ TrailCrash

TrailSpec == TrailInit /\ [][TrailNext]_trailVars

------------------------------------------------------------------------------
(* Properties.                                                             *)

\* Concurrent writers, transactions that are rolled back and crashes leave no gap, fork
\* or loose end in the trail: ids are consecutive (an export is checked for that), each
\* event has its row of the chain, and each row continues the one before.
TrailIntact ==
  /\ \A i \in 1..Len(events) : events[i].id = i
  /\ Linked(events, chain)

\* A change is committed with the one event that tells of it, or not at all.
EveryChangeIsLogged ==
  /\ applied = {events[i].of : i \in 1..Len(events)} \ plain
  /\ \A i, j \in 1..Len(events) : events[i].of = events[j].of => i = j

\* The check of a running service raises only because an event was committed between its
\* two reads ("audit chain record count mismatch", db.py:334), never over a broken trail.
AlarmsAreRaces == checker.raised => Len(events) > checker.seen
==============================================================================
