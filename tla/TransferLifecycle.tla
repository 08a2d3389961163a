-------------------------- MODULE TransferLifecycle --------------------------
(***************************************************************************)
(* What the outbound service promises about a red-to-green transfer: its   *)
(* state only moves along the published pipeline; its payload crosses into *)
(* the green buffer only on a durable approval; a decision is taken once   *)
(* and stands until the transfer expires; it is released only with its     *)
(* payload in the buffer; and the payload is given up only after the       *)
(* transfer expired.                                                       *)
(***************************************************************************)
CONSTANTS Transfers,
          Deciders,   \* who an approval or a rejection can come from
          Nobody,
          Lossy       \* may an exception out of storage lose a promoted payload?

VARIABLES state, payload, decider

vars == <<state, payload, decider>>

Init == /\ state = [t \in Transfers |-> "absent"]
        /\ payload = [t \in Transfers |-> "none"]
        /\ decider = [t \in Transfers |-> Nobody]

Register(t) ==
  /\ state[t] = "absent"
  /\ state' = [state EXCEPT ![t] = "pending_scan"]
  /\ payload' = [payload EXCEPT ![t] = "isolation"]
  /\ UNCHANGED decider

Change(t, from, to) ==
  /\ state[t] = from
  /\ state' = [state EXCEPT ![t] = to]
  /\ UNCHANGED <<payload, decider>>

Scan(t) == \/ Change(t, "pending_scan", "scanning")
           \/ Change(t, "scanning", "classified")
           \/ Change(t, "classified", "pending_approval")
           \/ \E s \in {"scanning", "classified"} : Change(t, s, "quarantined")
           \/ Change(t, "quarantined", "pending_scan")

Decide(t) ==
  /\ state[t] = "pending_approval"
  /\ decider[t] = Nobody
  /\ \E s \in {"approved", "approval_rejected"} : state' = [state EXCEPT ![t] = s]
  /\ \E d \in Deciders : decider' = [decider EXCEPT ![t] = d]
  /\ UNCHANGED payload

\* Somebody who was approving as well finds the payload promoted, takes that for a
\* modification and expires the transfer in his own name.
Overrule(t) ==
  /\ state[t] \in {"approved", "released_to_green"}
  /\ payload[t] # "isolation"
  /\ state' = [state EXCEPT ![t] = "expired"]
  /\ \E d \in Deciders : decider' = [decider EXCEPT ![t] = d]
  /\ UNCHANGED payload

Promote(t) ==
  /\ payload[t] = "isolation"
  /\ decider[t] # Nobody
  /\ state[t] \in {"approved", "expired"}
  /\ payload' = [payload EXCEPT ![t] = "green"]
  /\ UNCHANGED <<state, decider>>

Release(t) ==
  /\ payload[t] = "green" \/ (Lossy /\ payload[t] = "none")
  /\ Change(t, "approved", "released_to_green")

Expire(t) == \E s \in {"pending_scan", "quarantined", "pending_approval", "approved",
                       "approval_rejected", "released_to_green"} : Change(t, s, "expired")

Discard(t) ==
  /\ state[t] = "expired"
  /\ payload' = [payload EXCEPT ![t] = "none"]
  /\ UNCHANGED <<state, decider>>

Lose(t) ==
  /\ Lossy
  /\ payload[t] = "green"
  /\ payload' = [payload EXCEPT ![t] = "none"]
  /\ UNCHANGED <<state, decider>>

Next == \E t \in Transfers : \/ Register(t) \/ Scan(t) \/ Decide(t) \/ Overrule(t)
                             \/ Promote(t) \/ Release(t) \/ Expire(t) \/ Discard(t)
                             \/ Lose(t)

Spec == Init /\ [][Next]_vars
==============================================================================
