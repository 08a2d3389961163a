----------------------------- MODULE UploadLifecycle -----------------------------
(***************************************************************************)
(* What the service promises the client of a multipart upload: parts are   *)
(* taken while the session is open; an upload becomes at most one object,  *)
(* gap-free and with the digest announced at the start; the session is     *)
(* completed only once that object is registered; and a failed or          *)
(* interrupted completion is taken back, never forgotten.                  *)
(***************************************************************************)
CONSTANTS Uploads,
          Parts,
          Versions,    \* what a part may hold; a whole file has one version throughout
          NoContent

VARIABLES state,
          expected,    \* the digest announced, or NoContent
          parts,       \* the parts reported to a client that resumes
          object       \* the files of the objects registered for the upload

vars == <<state, expected, parts, object>>

NoParts == [p \in Parts |-> NoContent]
Whole   == [Parts -> Versions]

Init == /\ state = [u \in Uploads |-> "absent"]
        /\ expected = [u \in Uploads |-> NoContent]
        /\ parts = [u \in Uploads |-> NoParts]
        /\ object = [u \in Uploads |-> {}]

Open(u, digest) ==
  /\ state[u] = "absent"
  /\ state' = [state EXCEPT ![u] = "uploading"]
  /\ expected' = [expected EXCEPT ![u] = digest]
  /\ UNCHANGED <<parts, object>>

Receive(u, p, v) ==
  /\ state[u] = "uploading"
  /\ parts' = [parts EXCEPT ![u][p] = v]
  /\ UNCHANGED <<state, expected, object>>

Begin(u) ==
  /\ state[u] = "uploading"
  /\ object[u] = {}
  /\ parts[u] \in Whole
  /\ state' = [state EXCEPT ![u] = "completing"]
  /\ UNCHANGED <<expected, parts, object>>

Register(u, file) ==
  /\ state[u] = "completing"
  /\ object[u] = {}
  /\ expected[u] # NoContent => file = [p \in Parts |-> expected[u]]
  /\ object' = [object EXCEPT ![u] = {file}]
  /\ UNCHANGED <<state, expected, parts>>

\* The parts go with the session.
Shut(u, s) ==
  /\ state' = [state EXCEPT ![u] = s]
  /\ parts' = [parts EXCEPT ![u] = NoParts]
  /\ UNCHANGED <<expected, object>>

Finish(u) == state[u] \in {"uploading", "completing"} /\ object[u] # {} /\ Shut(u, "completed")

Close(u) == \/ state[u] = "uploading" /\ Shut(u, "cancelled")
            \/ state[u] \in {"uploading", "completing"} /\ Shut(u, "expired")

Reopen(u) ==
  /\ state[u] = "completing"
  /\ state' = [state EXCEPT ![u] = "uploading"]
  /\ UNCHANGED <<expected, parts, object>>

Next == \E u \in Uploads :
  \/ \E d \in Versions \cup {NoContent} : Open(u, d)
  \/ \E p \in Parts, v \in Versions : Receive(u, p, v)
  \/ \E f \in Whole : Register(u, f)
  \/ Begin(u) \/ Finish(u) \/ Close(u) \/ Reopen(u)

Spec == Init /\ [][Next]_vars
==============================================================================
