--------------------------- MODULE ObjectLifecycle ---------------------------
(***************************************************************************)
(* What the inbound service promises about an object, whatever queue,      *)
(* scanner threads, maintenance sweeps and restarts do underneath: its     *)
(* state only moves along the published life cycle, it is released only    *)
(* when its payload stands in the release area, and the payload is given   *)
(* up only after it expired.                                               *)
(***************************************************************************)
CONSTANT Objects

VARIABLES state, payload

vars == <<state, payload>>

Init == /\ state = [o \in Objects |-> "absent"]
        /\ payload = [o \in Objects |-> "none"]

Register(o) ==
  /\ state[o] = "absent"
  /\ state' = [state EXCEPT ![o] = "pending_scan"]
  /\ payload' = [payload EXCEPT ![o] = "isolation"]

Change(o, from, to) ==
  /\ state[o] = from
  /\ state' = [state EXCEPT ![o] = to]
  /\ UNCHANGED payload

BeginScan(o) == Change(o, "pending_scan", "scanning")
Hold(o)      == Change(o, "scanning", "quarantined")
Reject(o)    == Change(o, "scanning", "rejected")
Release(o)   == payload[o] = "released" /\ Change(o, "scanning", "released")
Rescan(o)    == Change(o, "quarantined", "pending_scan")
Expire(o)    == \E s \in {"pending_scan", "quarantined", "released", "rejected"} :
                  Change(o, s, "expired")

\* A scan that found nothing moves the payload out of isolation, once.
Promote(o) ==
  /\ payload[o] = "isolation"
  /\ payload' = [payload EXCEPT ![o] = "released"]
  /\ UNCHANGED state

Discard(o) ==
  /\ state[o] = "expired"
  /\ payload' = [payload EXCEPT ![o] = "none"]
  /\ UNCHANGED state

Next == \E o \in Objects :
          \/ Register(o) \/ BeginScan(o) \/ Hold(o) \/ Reject(o) \/ Release(o)
          \/ Rescan(o) \/ Expire(o) \/ Promote(o) \/ Discard(o)

Spec == Init /\ [][Next]_vars
==============================================================================
