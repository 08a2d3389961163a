------------------------------ MODULE WorkQueue ------------------------------
(***************************************************************************)
(* What the durable scan queue promises its callers, without leases,       *)
(* workers, heartbeats or restarts: a submitted job is remembered until it *)
(* has been tried, it ends exactly once, and it is given up only after     *)
(* MaxAttempts tries.  JobQueue is shown to implement this module.         *)
(***************************************************************************)
EXTENDS Naturals

CONSTANTS Objects, JobIds, MaxAttempts

VARIABLES status,   \* status[i]: where job i is in its life
          subject,  \* subject[i]: the object job i scans
          tries     \* tries[i]: how often job i was handed to a worker

vars == <<status, subject, tries>>

NoObject == "none"

Init == /\ status = [i \in JobIds |-> "absent"]
        /\ subject = [i \in JobIds |-> NoObject]
        /\ tries = [i \in JobIds |-> 0]

\* A submission creates a job only if the object has none that is unfinished.
Accept(i, o) ==
  /\ status[i] = "absent"
  /\ \A k \in JobIds : subject[k] = o => status[k] # "active"
  /\ status' = [status EXCEPT ![i] = "active"]
  /\ subject' = [subject EXCEPT ![i] = o]
  /\ UNCHANGED tries

Try(i) ==
  /\ status[i] = "active"
  /\ tries' = [tries EXCEPT ![i] = @ + 1]
  /\ UNCHANGED <<status, subject>>

\* A job ends once: completed after a try, failed after MaxAttempts of them.
Finish(i) ==
  /\ status[i] = "active"
  /\ \/ tries[i] >= 1 /\ status' = [status EXCEPT ![i] = "completed"]
     \/ tries[i] >= MaxAttempts /\ status' = [status EXCEPT ![i] = "failed"]
  /\ UNCHANGED <<subject, tries>>

\* Only finished jobs are forgotten, and their ids are not used again.
Forget(S) ==
  /\ \A i \in S : status[i] \in {"completed", "failed"}
  /\ status' = [i \in JobIds |-> IF i \in S THEN "purged" ELSE status[i]]
  /\ UNCHANGED <<subject, tries>>

Next == \/ \E i \in JobIds, o \in Objects : Accept(i, o)
        \/ \E i \in JobIds : Try(i) \/ Finish(i)
        \/ \E S \in SUBSET JobIds : Forget(S)

Spec == Init /\ [][Next]_vars
==============================================================================
