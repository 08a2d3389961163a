------------------------------- MODULE AgentUpload --------------------------------
(***************************************************************************)
(* The upload command of the transfer agent (src/src/sfss/agent.py): runs  *)
(* of one command line, one after the other, each resuming from the state  *)
(* file what an earlier one left on the server.                            *)
(*                                                                         *)
(* The server is UploadLifecycle, which UploadSessions implements.  A      *)
(* request may be executed after the run that sent it is gone (net), and   *)
(* its answer may be lost: the run then ends as if it had been killed.     *)
(* The file has an identity (device, inode, size, mtime, ctime) that every *)
(* edit changes, and a content; a digest stands for the content.           *)
(***************************************************************************)
EXTENDS Naturals, FiniteSets

CONSTANTS Sessions,     \* upload ids the server draws
          Chunks,       \* part numbers
          Contents,     \* of the source file
          NoNote,       \* no state file; no session yet
          NoChunk,      \* a part that has not arrived
          MaxEdits,     \* bounds of the model: edits of the source file,
          MaxMishaps    \* runs killed, answers lost, sessions closed or reopened

ASSUME AgentConstants ==
  /\ NoNote \notin Sessions /\ NoChunk \notin Contents /\ Contents # {}
  /\ NoNote \notin [ident : Nat, digest : Contents, on : Sessions]
  /\ MaxEdits \in Nat /\ MaxMishaps \in Nat
  /\ Cardinality(Sessions) > MaxEdits + MaxMishaps   \* the server never runs out of them

VARIABLES sState, sDigest, sParts, sObject,   \* the server
          source,    \* the file: its identity (0: no such file yet) and its content
          note,      \* the state file
          run,       \* the running command
          net,       \* parts on their way
          posts,     \* sessions a request to complete is on its way for
          madeFor,   \* the file each session was created for
          reported,  \* records printed by runs that succeeded
          again,     \* identities a run finished with, or gave up for a session that
                     \* has an object or may get one, or that could not be asked for
          mishaps

serverVars == <<sState, sDigest, sParts, sObject>>
agentVars  == <<serverVars, source, note, run, net, posts, madeFor, reported, again, mishaps>>

Server == INSTANCE UploadLifecycle WITH
  Uploads <- Sessions, Parts <- Chunks, Versions <- Contents, NoContent <- NoChunk,
  state <- sState, expected <- sDigest, parts <- sParts, object <- sObject

NoRun == [pc |-> "idle", ident |-> 0, digest |-> NoChunk, on |-> NoNote, todo |-> {}]

AgentInit ==
  /\ Server!Init
  /\ source = [ident |-> 0, content |-> CHOOSE c \in Contents : TRUE]
  /\ note = NoNote
  /\ run = NoRun
  /\ net = {} /\ posts = {}
  /\ madeFor = [u \in Sessions |-> 0]
  /\ reported = {}
  /\ again = {}
  /\ mishaps = 0

RunAt(pc)   == run.pc = pc
RunGoto(pc) == run' = [run EXCEPT !.pc = pc]
RunEnds     == run' = NoRun
Unchanged   == source.ident = run.ident       \* file_identity(source) == identity
Mishap      == mishaps < MaxMishaps /\ mishaps' = mishaps + 1
Missing(u)  == {p \in Chunks : sParts[u][p] = NoChunk}

\* Closed without an object: a request to complete it that is still on its way is refused.
Barren(u)   == sState[u] \in {"cancelled", "expired"} /\ sObject[u] = {}

------------------------------------------------------------------------------
(* The runs.                                                               *)

\* The whole file is hashed; a change meanwhile is noticed and ends the run.  Nobody runs
\* the command again once it has reported the file.
Hash ==
  /\ RunAt("idle") /\ source.ident # 0
  /\ \A r \in reported : r.ident # source.ident
  /\ run' = [NoRun EXCEPT !.pc = "ask", !.ident = source.ident, !.digest = source.content]
  /\ UNCHANGED <<serverVars, source, note, net, posts, madeFor, reported, again, mishaps>>

\* Mutant: the state file is trusted whatever file it was written for.
NoteExists == note # NoNote

\* The state file was written for this file; its session is asked for.
NoteFits == note # NoNote /\ note.ident = run.ident /\ note.digest = run.digest

\* Mutant: any session the server still knows is resumed.
NotCompleted(u) == sState[u] # "completed"

Resumable(u) == sState[u] = "uploading"

\* Whatever goes wrong with it, the run starts over with a new session.
Ask ==
  /\ RunAt("ask")
  /\ \/ /\ NoteFits /\ sState[note.on] = "completed"
        /\ run' = [run EXCEPT !.pc = "finish", !.on = note.on]
        /\ UNCHANGED <<again, mishaps>>
     \/ /\ NoteFits /\ Resumable(note.on)
        /\ run' = [run EXCEPT !.pc = "send", !.on = note.on, !.todo = Missing(note.on)]
        /\ UNCHANGED <<again, mishaps>>
     \/ /\ NoteFits => ~Resumable(note.on) /\ sState[note.on] # "completed"
        /\ RunGoto("create")
        /\ again' = IF NoteFits /\ ~Barren(note.on) THEN again \cup {run.ident} ELSE again
        /\ UNCHANGED mishaps
     \/ /\ NoteFits /\ Mishap
        /\ RunGoto("create")
        /\ again' = again \cup {run.ident}
  /\ UNCHANGED <<serverVars, source, note, net, posts, madeFor, reported>>

\* The ids of sessions are fresh, and otherwise all alike.
Create ==
  /\ RunAt("create")
  /\ \E u \in Sessions : sState[u] = "absent"
  /\ LET u == CHOOSE v \in Sessions : sState[v] = "absent"
     IN /\ Server!Open(u, run.digest)
        /\ madeFor' = [madeFor EXCEPT ![u] = run.ident]
        /\ run' = [run EXCEPT !.pc = "save", !.on = u]
  /\ UNCHANGED <<source, note, net, posts, reported, again, mishaps>>

\* Mutant: the session is not noted before it is complete.
SaveLater ==
  /\ RunAt("save")
  /\ run' = [run EXCEPT !.pc = "send", !.todo = Chunks]
  /\ UNCHANGED <<serverVars, source, note, net, posts, madeFor, reported, again, mishaps>>

SaveNote ==
  /\ RunAt("save")
  /\ note' = [ident |-> run.ident, digest |-> run.digest, on |-> run.on]
  /\ run' = [run EXCEPT !.pc = "send", !.todo = Chunks]
  /\ UNCHANGED <<serverVars, source, net, posts, madeFor, reported, again, mishaps>>

\* Parts are sent in parallel.  The file is checked around the hashing and the sending
\* of each; the server refuses a part whose digest is not the one announced with it.
SendPart(p) ==
  /\ RunAt("send") /\ p \in run.todo
  /\ [on |-> run.on, part |-> p, content |-> run.digest] \notin net
  /\ IF Unchanged
     THEN net' = net \cup {[on |-> run.on, part |-> p, content |-> run.digest]} /\ UNCHANGED run
     ELSE RunEnds /\ UNCHANGED net
  /\ UNCHANGED <<serverVars, source, note, posts, madeFor, reported, again, mishaps>>

SendComplete ==
  /\ RunAt("send") /\ run.todo = {}
  /\ IF Unchanged
     THEN RunGoto("complete") /\ posts' = posts \cup {run.on}
     ELSE RunEnds /\ UNCHANGED posts
  /\ UNCHANGED <<serverVars, source, note, net, madeFor, reported, again, mishaps>>

\* The answer: the record of a completed session, or an error.
Answered ==
  /\ RunAt("await") /\ sState[run.on] # "completing"
  /\ IF sState[run.on] = "completed" THEN RunGoto("finish") ELSE RunEnds
  /\ UNCHANGED <<serverVars, source, note, net, posts, madeFor, reported, again, mishaps>>

Forget ==
  /\ RunAt("finish")
  /\ note' = NoNote
  /\ again' = again \cup {run.ident}
  /\ RunGoto("report")
  /\ UNCHANGED <<serverVars, source, net, posts, madeFor, reported, mishaps>>

Report ==
  /\ RunAt("report")
  /\ reported' = reported \cup {[ident |-> run.ident, digest |-> run.digest, on |-> run.on]}
  /\ RunEnds
  /\ UNCHANGED <<serverVars, source, note, net, posts, madeFor, again, mishaps>>

------------------------------------------------------------------------------
(* The server and the world.                                               *)

\* A part arrives, whether or not its run still waits for the answer.
Arrive(m) ==
  /\ m \in net
  /\ net' = net \ {m}
  /\ IF sState[m.on] = "uploading"
     THEN Server!Receive(m.on, m.part, m.content) ELSE UNCHANGED serverVars
  /\ run' = IF RunAt("send") /\ run.on = m.on
            THEN IF sState[m.on] = "uploading" THEN [run EXCEPT !.todo = @ \ {m.part}] ELSE NoRun
            ELSE run
  /\ UNCHANGED <<source, note, posts, madeFor, reported, again, mishaps>>

\* So does a request to complete, which binds a registered object to a session that was
\* reopened, and which is refused while another is at work or once the session is closed.
CompletionArrives(u) ==
  /\ u \in posts
  /\ posts' = posts \ {u}
  /\ LET waits == RunAt("complete") /\ run.on = u
     IN \/ /\ sState[u] = "uploading"
           /\ Server!Begin(u) \/ Server!Finish(u)
           /\ run' = IF waits THEN [run EXCEPT !.pc = "await"] ELSE run
        \/ /\ sState[u] = "completed"
           /\ run' = IF waits THEN [run EXCEPT !.pc = "await"] ELSE run
           /\ UNCHANGED serverVars
        \/ /\ sState[u] \notin {"uploading", "completed"}
           /\ run' = IF waits THEN NoRun ELSE run
           /\ UNCHANGED serverVars
  /\ UNCHANGED <<source, note, net, madeFor, reported, again, mishaps>>

CompletionProceeds(u) ==
  /\ sState[u] = "completing"
  /\ Server!Register(u, [p \in Chunks |-> sDigest[u]]) \/ Server!Finish(u)
  /\ UNCHANGED <<source, note, run, net, posts, madeFor, reported, again, mishaps>>

\* A completion fails or is interrupted; a session is cancelled or expires.
ServerTurns(u) ==
  /\ Mishap
  /\ Server!Reopen(u) \/ Server!Close(u)
  /\ UNCHANGED <<source, note, run, net, posts, madeFor, reported, again>>

\* The run is killed, or a request or its answer is lost: nothing is undone.
RunDies ==
  /\ Mishap
  /\ ~RunAt("idle")
  /\ RunEnds
  /\ net' \in SUBSET net /\ posts' \in SUBSET posts
  /\ UNCHANGED <<serverVars, source, note, madeFor, reported, again>>

\* The file is written, or written again; perhaps what it says is what it said.
Edit ==
  /\ source.ident <= MaxEdits
  /\ \E c \in Contents : source' = [ident |-> source.ident + 1, content |-> c]
  /\ UNCHANGED <<serverVars, note, run, net, posts, madeFor, reported, again, mishaps>>

RunStep == \/ Hash \/ Ask \/ Create \/ SaveNote \/ SendComplete \/ Answered \/ Forget \/ Report
           \/ \E p \in Chunks : SendPart(p)

ServerStep == \/ \E m \in net : Arrive(m)
              \/ \E u \in Sessions : CompletionArrives(u) \/ CompletionProceeds(u)

AgentNext == RunStep \/ ServerStep \/ RunDies \/ Edit \/ \E u \in Sessions : ServerTurns(u)

AgentSpec == AgentInit /\ [][AgentNext]_agentVars

\* The command is run again until it succeeds, and the server answers.
AgentFairness == WF_agentVars(RunStep) /\ WF_agentVars(ServerStep)

------------------------------------------------------------------------------
(* Properties.                                                             *)

\* What a run prints is an object with the content the file had when the run began,
\* although session, parts and even the completion may be the work of earlier runs, and
\* the file may have been edited at any time.
ReportedIsTheFile ==
  \A r \in reported : sObject[r.on] = {[p \in Chunks |-> r.digest]}

\* Runs that are killed, lose answers, find the file changed or find their session
\* cancelled or expired do not upload it twice ("recovered without duplicate upload",
\* tests/test_agent.py:143).  There are two objects of one file only after a run that
\* finished with it, or that made a new session although that of the state file was still
\* completing, had an object already, or could not be asked for: the agent does so in all
\* three cases (agent.py:228, agent.py:235).
UploadedOnce ==
  \A i \in 1..(MaxEdits + 1) \ again :
    Cardinality({u \in Sessions : madeFor[u] = i /\ sObject[u] # {}}) <= 1

\* Once the file is left alone it is uploaded and reported, whatever earlier runs left
\* behind on either side (edits come to an end, at MaxEdits).
UploadsEnd == source.ident # 0 ~> \E r \in reported : r.ident = source.ident
==============================================================================
