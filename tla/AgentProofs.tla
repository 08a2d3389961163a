------------------------------- MODULE AgentProofs -------------------------------
(***************************************************************************)
(* Theorems about the agent's commands, for any number of sessions, parts, *)
(* objects, edits, commands, kills and lost answers.                       *)
(***************************************************************************)
EXTENDS AgentUpload, AgentDownload, FiniteSetTheorems, TLAPS

------------------------------------------------------------------------------
(* Upload: what is reported is the file.                                   *)

\* The shape of the variables.
UploadShapes ==
  /\ sState = [u \in Sessions |-> sState[u]]
  /\ sDigest = [u \in Sessions |-> sDigest[u]]
  /\ sObject = [u \in Sessions |-> sObject[u]]
  /\ madeFor = [u \in Sessions |-> madeFor[u]]
  /\ run = [pc |-> run.pc, ident |-> run.ident, digest |-> run.digest,
            on |-> run.on, todo |-> run.todo]

\* The server made u for a file of this digest.
Backed(u, d) == u \in Sessions /\ sState[u] # "absent" /\ sDigest[u] = d

ObjectsAreWhole ==
  \A u \in Sessions :
    /\ sState[u] = "absent" => sObject[u] = {}
    /\ sState[u] = "completed" => sObject[u] # {}
    /\ sObject[u] # {} => sObject[u] = {[p \in Chunks |-> sDigest[u]]}

RunBacked ==
  /\ run.pc \in {"save", "send", "complete", "await", "finish", "report"}
       => Backed(run.on, run.digest)
  /\ run.pc \in {"finish", "report"} => sState[run.on] = "completed"

NoteBacked == note # NoNote => Backed(note.on, note.digest)

ReportsBacked == \A r \in reported : Backed(r.on, r.digest) /\ sState[r.on] = "completed"

UploadInv == UploadShapes /\ ObjectsAreWhole /\ RunBacked /\ NoteBacked /\ ReportsBacked

LEMMA UploadStarts == AgentInit => UploadInv
BY DEF AgentInit, Server!Init, UploadInv, UploadShapes, ObjectsAreWhole, RunBacked, NoteBacked,
       ReportsBacked, NoRun

\* What the server does to a session keeps what others rest on: only an absent session is
\* given a digest, and a completed one stays.
Advances ==
  \A u \in Sessions : sState[u] # "absent" =>
    /\ sState'[u] # "absent" /\ sDigest'[u] = sDigest[u]
    /\ sState[u] = "completed" => sState'[u] = "completed"

ServerSound ==
  /\ sState' = [u \in Sessions |-> sState'[u]]
  /\ sDigest' = [u \in Sessions |-> sDigest'[u]]
  /\ sObject' = [u \in Sessions |-> sObject'[u]]
  /\ ObjectsAreWhole'
  /\ Advances

LEMMA ServerKeeps ==
  ASSUME UploadShapes, ObjectsAreWhole, NEW u \in Sessions, NEW d, NEW p, NEW v,
         \/ Server!Open(u, d) \/ Server!Receive(u, p, v) \/ Server!Begin(u)
         \/ Server!Register(u, [c \in Chunks |-> sDigest[u]])
         \/ Server!Finish(u) \/ Server!Close(u) \/ Server!Reopen(u)
         \/ UNCHANGED serverVars
  PROVE  ServerSound
<1> USE DEF UploadShapes, ObjectsAreWhole, ServerSound, Advances
<1>1. CASE Server!Open(u, d)
  BY <1>1 DEF Server!Open
<1>2. CASE Server!Receive(u, p, v)
  BY <1>2 DEF Server!Receive
<1>3. CASE Server!Begin(u)
  BY <1>3 DEF Server!Begin
<1>4. CASE Server!Register(u, [c \in Chunks |-> sDigest[u]])
  BY <1>4 DEF Server!Register
<1>5. CASE Server!Finish(u)
  BY <1>5 DEF Server!Finish, Server!Shut
<1>6. CASE Server!Close(u)
  BY <1>6 DEF Server!Close, Server!Shut
<1>7. CASE Server!Reopen(u)
  BY <1>7 DEF Server!Reopen
<1>8. CASE UNCHANGED serverVars
  BY <1>8 DEF serverVars
<1>9. QED
  BY <1>1, <1>2, <1>3, <1>4, <1>5, <1>6, <1>7, <1>8

\* A step of the server alone.
LEMMA ServerStepsKeep ==
  ASSUME UploadInv, ServerSound, UNCHANGED <<note, reported, madeFor>>,
         \/ UNCHANGED run
         \/ run' = NoRun
         \/ \E x : run' = [run EXCEPT !.todo = x]
         \/ run.pc = "complete" /\ run' = [run EXCEPT !.pc = "await"]
  PROVE  UploadInv'
<1> USE DEF UploadInv, UploadShapes, ServerSound
<1>1. UploadShapes'
  BY DEF NoRun
<1>2. RunBacked'
  BY DEF RunBacked, Backed, Advances, NoRun
<1>3. NoteBacked' /\ ReportsBacked'
  BY DEF NoteBacked, ReportsBacked, Backed, Advances
<1>4. QED
  BY <1>1, <1>2, <1>3

LEMMA UploadPreserves == UploadInv /\ [AgentNext]_agentVars => UploadInv'
<1> SUFFICES ASSUME UploadInv, [AgentNext]_agentVars
             PROVE  UploadInv'
  OBVIOUS
<1>0. UploadShapes /\ ObjectsAreWhole
  BY DEF UploadInv
<1> DEFINE Local == /\ UNCHANGED <<serverVars, madeFor>>
                    /\ UploadShapes' /\ RunBacked' /\ NoteBacked' /\ ReportsBacked'
<1>1. Local => UploadInv'
  BY <1>0 DEF UploadInv, serverVars, ObjectsAreWhole
<1>2. CASE Hash
  <2>1. Local
    BY <1>2 DEF UploadInv, Hash, serverVars, UploadShapes, RunBacked, NoteBacked, ReportsBacked,
       Backed, NoRun, RunAt
  <2>2. QED
    BY <2>1, <1>1
<1>3. CASE Ask
  <2>1. Local
    BY <1>3 DEF UploadInv, Ask, NoteFits, Resumable, serverVars, UploadShapes, RunBacked,
       NoteBacked, ReportsBacked, Backed, RunAt, RunGoto
  <2>2. QED
    BY <2>1, <1>1
<1>4. CASE Create
  <2> DEFINE u == CHOOSE v \in Sessions : sState[v] = "absent"
  <2>1. u \in Sessions /\ sState[u] = "absent"
    BY <1>4 DEF Create
  <2>2. /\ Server!Open(u, run.digest)
        /\ madeFor' = [madeFor EXCEPT ![u] = run.ident]
        /\ run' = [run EXCEPT !.pc = "save", !.on = u]
        /\ UNCHANGED <<note, reported>>
    BY <1>4 DEF Create
  <2> HIDE DEF u
  <2>3. ServerSound
    BY <1>0, <2>1, <2>2, ServerKeeps
  <2>4. sState'[u] = "uploading" /\ sDigest'[u] = run.digest
    BY <1>0, <2>1, <2>2 DEF Server!Open, UploadShapes
  <2>5. UploadShapes'
    BY <1>0, <2>2, <2>3 DEF UploadShapes, ServerSound
  <2>6. RunBacked'
    BY <1>0, <2>1, <2>2, <2>4 DEF RunBacked, Backed, UploadShapes
  <2>7. NoteBacked' /\ ReportsBacked'
    BY <2>2, <2>3 DEF UploadInv, NoteBacked, ReportsBacked, Backed, ServerSound, Advances
  <2>8. QED
    BY <2>3, <2>5, <2>6, <2>7 DEF UploadInv, ServerSound
<1>5. CASE SaveNote
  <2>1. Local
    BY <1>5 DEF UploadInv, SaveNote, serverVars, UploadShapes, RunBacked,
       NoteBacked, ReportsBacked, Backed, RunAt
  <2>2. QED
    BY <2>1, <1>1
<1>6. CASE SendComplete \/ \E p \in Chunks : SendPart(p)
  <2>1. /\ UNCHANGED <<serverVars, note, madeFor, reported>>
        /\ run' \in {run, [run EXCEPT !.pc = "complete"], NoRun}
        /\ run.pc = "send"
    BY <1>6 DEF SendComplete, SendPart, RunAt, RunGoto, RunEnds
  <2>2. UploadShapes' /\ RunBacked'
    BY <1>0, <2>1 DEF UploadInv, UploadShapes, RunBacked, Backed, NoRun, serverVars
  <2>3. NoteBacked' /\ ReportsBacked'
    BY <2>1 DEF UploadInv, NoteBacked, ReportsBacked, Backed, serverVars
  <2>4. QED
    BY <2>1, <2>2, <2>3, <1>1
<1>7. CASE Answered \/ Forget \/ Report
  <2>1. Local
    BY <1>7 DEF UploadInv, Answered, Forget, Report, serverVars, UploadShapes, RunBacked,
       NoteBacked, ReportsBacked, Backed, RunAt, RunGoto, RunEnds, NoRun
  <2>2. QED
    BY <2>1, <1>1
<1>8. CASE RunDies \/ Edit
  <2>1. Local
    BY <1>8 DEF UploadInv, RunDies, Edit, serverVars, UploadShapes, RunBacked,
       NoteBacked, ReportsBacked, Backed, RunEnds, NoRun
  <2>2. QED
    BY <2>1, <1>1
<1>9. ASSUME NEW m \in net, Arrive(m)
      PROVE  UploadInv'
  <2>1. CASE sState[m.on] = "uploading"
    <3>1. m.on \in Sessions => ServerSound
      BY <1>0, <1>9, <2>1, ServerKeeps DEF Arrive
    <3>2. m.on \notin Sessions => UNCHANGED <<sState, sDigest, sObject>>
      BY <1>0, <1>9, <2>1 DEF Arrive, Server!Receive
    <3>3. ServerSound
      BY <1>0, <3>1, <3>2 DEF ServerSound, UploadShapes, ObjectsAreWhole, Advances
    <3>4. QED
      BY <1>9, <3>3, ServerStepsKeep DEF Arrive
  <2>2. CASE sState[m.on] # "uploading"
    <3>1. UNCHANGED serverVars
      BY <1>9, <2>2 DEF Arrive
    <3>2. ServerSound
      BY <1>0, <3>1 DEF serverVars, ServerSound, UploadShapes, ObjectsAreWhole, Advances
    <3>3. QED
      BY <1>9, <3>2, ServerStepsKeep DEF Arrive
  <2>3. QED
    BY <2>1, <2>2
<1>10. ASSUME NEW u \in Sessions,
              CompletionArrives(u) \/ CompletionProceeds(u) \/ ServerTurns(u)
       PROVE  UploadInv'
  <2>1. ServerSound
    BY <1>0, <1>10, ServerKeeps DEF CompletionArrives, CompletionProceeds, ServerTurns
  <2>2. /\ UNCHANGED <<note, reported, madeFor>>
        /\ \/ UNCHANGED run
           \/ run' = NoRun
           \/ run.pc = "complete" /\ run' = [run EXCEPT !.pc = "await"]
    BY <1>10 DEF CompletionArrives, CompletionProceeds, ServerTurns, RunAt
  <2>3. QED
    BY <2>1, <2>2, ServerStepsKeep
<1>11. CASE UNCHANGED agentVars
  BY <1>11 DEF agentVars, serverVars, UploadInv, UploadShapes, ObjectsAreWhole, RunBacked,
     NoteBacked, ReportsBacked, Backed
<1>12. QED
  BY <1>2, <1>3, <1>4, <1>5, <1>6, <1>7, <1>8, <1>9, <1>10, <1>11 DEF AgentNext, RunStep, ServerStep

\* A run reports an object with the content its file had when it began, whatever earlier
\* runs, edits of the file and lost answers have left behind on either side.
THEOREM ReportsAreTrue == AgentSpec => []ReportedIsTheFile
<1>1. UploadInv => ReportedIsTheFile
  BY DEF UploadInv, ReportsBacked, Backed, ObjectsAreWhole, ReportedIsTheFile
<1>2. QED
  BY <1>1, UploadStarts, UploadPreserves, PTL DEF AgentSpec

------------------------------------------------------------------------------
(* Upload: a file is uploaded once.                                        *)

\* A session that may have an object or may still get one without a run that works on it.
InPlay(u) == \/ sObject[u] # {}
             \/ sState[u] \in {"completing", "completed"}
             \/ u \in posts /\ sState[u] \notin {"cancelled", "expired"}

\* A file that runs may still be begun or at work for.
Live(i) == i = source.ident \/ (run.pc # "idle" /\ i = run.ident)

Noted(u) == note # NoNote /\ note.on = u /\ note.ident = madeFor[u]

\* Identities only grow, and stand for one content each.
IdentsAgree ==
  /\ source.ident \in Nat /\ source.content \in Contents
  /\ \A u \in Sessions : madeFor[u] \in Nat /\ madeFor[u] <= source.ident
  /\ note # NoNote =>
       /\ note.ident \in Nat /\ note.ident <= source.ident
       /\ note.ident = source.ident => note.digest = source.content
       /\ note.on \in Sessions /\ madeFor[note.on] = note.ident
  /\ run.pc # "idle" =>
       /\ run.ident \in Nat /\ run.ident <= source.ident /\ run.digest \in Contents
       /\ run.ident = source.ident => run.digest = source.content
       /\ \A u \in Sessions : madeFor[u] <= run.ident
       /\ note # NoNote => /\ note.ident <= run.ident
                           /\ note.ident = run.ident => note.digest = run.digest

PostsKnown == \A u \in posts : u \in Sessions /\ sState[u] # "absent"

\* The state file knows the session that matters of each file that matters ...
InPlayIsNoted ==
  \A u \in Sessions : InPlay(u) /\ madeFor[u] \notin again /\ Live(madeFor[u]) => Noted(u)

\* ... which is the one a run works on ...
RunNoted ==
  /\ run.pc \in {"save", "send", "complete", "await", "finish"} => madeFor[run.on] = run.ident
  /\ run.pc \in {"send", "complete", "await", "finish"} /\ run.ident \notin again => Noted(run.on)

\* ... and a run makes a session only for a file that has none in play.
NoneInPlay ==
  run.pc \in {"create", "save"} /\ run.ident \notin again =>
    \A u \in Sessions : madeFor[u] = run.ident => ~InPlay(u)

Sole ==
  \A u, v \in Sessions :
    madeFor[u] = madeFor[v] /\ madeFor[u] \notin again /\ InPlay(u) /\ InPlay(v) => u = v

OnceInv == /\ UploadInv /\ IdentsAgree /\ PostsKnown
           /\ InPlayIsNoted /\ RunNoted /\ NoneInPlay /\ Sole

LEMMA OnceStarts == AgentInit => OnceInv
<1> SUFFICES ASSUME AgentInit
             PROVE  OnceInv
  OBVIOUS
<1>1. \A u \in Sessions : ~InPlay(u)
  BY DEF AgentInit, Server!Init, InPlay
<1>2. QED
  BY <1>1, UploadStarts, AgentConstants DEF AgentInit, OnceInv, IdentsAgree, PostsKnown, InPlayIsNoted, RunNoted,
     NoneInPlay, Sole, NoRun

\* Steps that bring no session into play and start nothing.
LEMMA QuietStep ==
  ASSUME OnceInv, UploadInv',
         UNCHANGED <<source, note, madeFor, again>>,
         \A v \in Sessions : InPlay(v)' => InPlay(v),
         posts' \subseteq posts,
         Advances,
         \/ run'.pc = "idle"
         \/ /\ run'.ident = run.ident /\ run'.digest = run.digest /\ run'.on = run.on
            /\ \/ run'.pc = run.pc
               \/ {run.pc, run'.pc} \subseteq {"send", "complete", "await", "finish"}
  PROVE  OnceInv'
<1> USE DEF OnceInv
<1>1. IdentsAgree'
  BY DEF IdentsAgree
<1>2. PostsKnown'
  BY DEF PostsKnown, Advances
<1>3. \A i : Live(i)' => Live(i)
  BY DEF Live
<1>4. \A u : Noted(u)' = Noted(u)
  BY DEF Noted
<1>5. InPlayIsNoted' /\ Sole'
  BY <1>3, <1>4 DEF InPlayIsNoted, Sole
<1>6. RunNoted'
  BY <1>4 DEF RunNoted
<1>7. NoneInPlay'
  BY DEF NoneInPlay
<1>8. QED
  BY <1>1, <1>2, <1>5, <1>6, <1>7

\* What the server does to one session brings no other into play, nor this one unless it
\* was asked to complete it.
LEMMA ServerIsQuiet ==
  ASSUME UploadShapes, NEW u \in Sessions, NEW p, NEW v,
         \/ /\ u \in posts /\ posts' = posts \ {u}
            /\ Server!Begin(u) \/ Server!Finish(u) \/ UNCHANGED serverVars
         \/ /\ UNCHANGED posts
            /\ \/ Server!Receive(u, p, v) \/ Server!Close(u) \/ Server!Reopen(u)
               \/ Server!Register(u, [c \in Chunks |-> sDigest[u]])
               \/ sState[u] = "completing" /\ Server!Finish(u)
  PROVE  \A w \in Sessions : InPlay(w)' => InPlay(w)
<1> USE DEF UploadShapes, InPlay
<1>1. CASE u \in posts /\ posts' = posts \ {u} /\ (Server!Begin(u) \/ Server!Finish(u))
  BY <1>1 DEF Server!Begin, Server!Finish, Server!Shut
<1>2. CASE posts' = posts \ {u} /\ UNCHANGED serverVars
  BY <1>2 DEF serverVars
<1>3. CASE UNCHANGED posts /\ Server!Receive(u, p, v)
  BY <1>3 DEF Server!Receive
<1>4. CASE UNCHANGED posts /\ (Server!Close(u) \/ Server!Reopen(u))
  BY <1>4 DEF Server!Close, Server!Reopen, Server!Shut
<1>5. CASE UNCHANGED posts /\ Server!Register(u, [c \in Chunks |-> sDigest[u]])
  BY <1>5 DEF Server!Register
<1>6. CASE UNCHANGED posts /\ sState[u] = "completing" /\ Server!Finish(u)
  BY <1>6 DEF Server!Finish, Server!Shut
<1>7. QED
  BY <1>1, <1>2, <1>3, <1>4, <1>5, <1>6

\* The steps of a run that are not quiet.
LEMMA HashKeepsOnce ==
  ASSUME OnceInv, UploadInv', Hash
  PROVE  OnceInv'
<1> USE DEF OnceInv, Hash, RunAt, NoRun, serverVars
<1>1. /\ UNCHANGED <<sObject, sState, posts, madeFor, note, again, source>>
      /\ run.pc = "idle" /\ run'.pc = "ask"
      /\ run'.ident = source.ident /\ run'.digest = source.content
  OBVIOUS
<1>2. IdentsAgree'
  BY <1>1 DEF IdentsAgree
<1>3. \A i : Live(i)' => Live(i)
  BY <1>1 DEF Live
<1>4. PostsKnown' /\ InPlayIsNoted' /\ Sole'
  BY <1>1, <1>3 DEF PostsKnown, InPlayIsNoted, Sole, InPlay, Noted
<1>5. RunNoted' /\ NoneInPlay'
  BY <1>1 DEF RunNoted, NoneInPlay
<1>6. QED
  BY <1>2, <1>4, <1>5

LEMMA AskKeepsOnce ==
  ASSUME OnceInv, UploadInv', Ask
  PROVE  OnceInv'
<1> USE DEF OnceInv, serverVars
<1>1. /\ UNCHANGED <<sObject, sState, posts, madeFor, note, source>>
      /\ run.pc = "ask" /\ run'.ident = run.ident /\ run'.digest = run.digest
      /\ again \subseteq again'
  BY DEF Ask, RunAt, RunGoto, UploadInv, UploadShapes
<1>2. \/ run'.pc \in {"send", "finish"} /\ run'.on = note.on /\ NoteFits
      \/ /\ run'.pc = "create"
         /\ NoteFits => run.ident \in again' \/ ~InPlay(note.on)
  BY DEF Ask, Barren, InPlay, RunAt, RunGoto, UploadInv, UploadShapes
<1>3. IdentsAgree'
  BY <1>1, <1>2 DEF IdentsAgree
<1>4. \A i : Live(i)' => Live(i)
  BY <1>1 DEF Live
<1>5. PostsKnown' /\ InPlayIsNoted' /\ Sole'
  BY <1>1, <1>4 DEF PostsKnown, InPlayIsNoted, Sole, InPlay, Noted
<1>6. RunNoted'
  BY <1>1, <1>2 DEF RunNoted, NoteFits, Noted, IdentsAgree
<1>7. NoneInPlay'
  <2> SUFFICES ASSUME run'.pc = "create", run.ident \notin again', NEW u \in Sessions,
                      madeFor[u] = run.ident, InPlay(u)
               PROVE  FALSE
    BY <1>1, <1>2 DEF NoneInPlay, InPlay
  <2>1. Noted(u)
    BY <1>1 DEF InPlayIsNoted, Live
  <2>2. NoteFits /\ note.on = u
    BY <1>1, <2>1 DEF NoteFits, Noted, IdentsAgree
  <2>3. QED
    BY <1>2, <2>2
<1>8. QED
  BY <1>3, <1>5, <1>6, <1>7

LEMMA CreateKeepsOnce ==
  ASSUME OnceInv, UploadInv', Create
  PROVE  OnceInv'
<1> USE DEF OnceInv
<1> DEFINE open == CHOOSE v \in Sessions : sState[v] = "absent"
<1>0. /\ open \in Sessions /\ sState[open] = "absent"
      /\ Server!Open(open, run.digest)
      /\ madeFor' = [madeFor EXCEPT ![open] = run.ident]
      /\ run' = [run EXCEPT !.pc = "save", !.on = open]
      /\ UNCHANGED <<posts, note, source, again>> /\ run.pc = "create"
  BY DEF Create, RunAt
<1> HIDE DEF open
<1>2. PICK u \in Sessions :
        /\ sState[u] = "absent"
        /\ Server!Open(u, run.digest)
        /\ madeFor' = [madeFor EXCEPT ![u] = run.ident]
        /\ run' = [run EXCEPT !.pc = "save", !.on = u]
        /\ UNCHANGED <<posts, note, source, again>> /\ run.pc = "create"
  BY <1>0
<1>1. sObject[u] = {} /\ u \notin posts
  BY <1>2 DEF UploadInv, ObjectsAreWhole, PostsKnown
<1>3. /\ run'.pc = "save" /\ run'.on = u /\ run'.ident = run.ident /\ run'.digest = run.digest
      /\ madeFor'[u] = run.ident /\ \A v \in Sessions \ {u} : madeFor'[v] = madeFor[v]
      /\ sState'[u] = "uploading" /\ \A v \in Sessions \ {u} : sState'[v] = sState[v]
      /\ UNCHANGED sObject
  BY <1>1, <1>2 DEF Server!Open, UploadInv, UploadShapes
<1>4. ~InPlay(u)' /\ \A v \in Sessions \ {u} : InPlay(v)' => InPlay(v)
  BY <1>1, <1>2, <1>3 DEF InPlay
<1>5. note # NoNote => note.on # u
  BY <1>2 DEF UploadInv, NoteBacked, Backed
<1>6. IdentsAgree'
  BY <1>1, <1>2, <1>3, <1>5 DEF IdentsAgree
<1>7. PostsKnown'
  BY <1>2, <1>3 DEF PostsKnown
<1>8. InPlayIsNoted'
  BY <1>2, <1>3, <1>4 DEF InPlayIsNoted, Noted, Live
<1>9. Sole'
  BY <1>2, <1>3, <1>4 DEF Sole
<1>10. NoneInPlay' /\ RunNoted'
  BY <1>1, <1>2, <1>3, <1>4 DEF NoneInPlay, RunNoted
<1>11. QED
  BY <1>6, <1>7, <1>8, <1>9, <1>10

LEMMA SaveKeepsOnce ==
  ASSUME OnceInv, UploadInv', SaveNote
  PROVE  OnceInv'
<1> USE DEF OnceInv
<1>1. /\ UNCHANGED <<sObject, sState, posts, madeFor, source, again>>
      /\ note' = [ident |-> run.ident, digest |-> run.digest, on |-> run.on]
      /\ run.pc = "save" /\ run'.pc = "send"
      /\ run'.ident = run.ident /\ run'.digest = run.digest /\ run'.on = run.on
  BY DEF SaveNote, RunAt, serverVars, UploadInv, UploadShapes
<1>2. run.on \in Sessions /\ madeFor[run.on] = run.ident
  BY <1>1 DEF UploadInv, RunBacked, Backed, RunNoted
<1>3. IdentsAgree'
  BY <1>1, <1>2 DEF IdentsAgree
<1>4. PostsKnown' /\ Sole' /\ NoneInPlay'
  BY <1>1 DEF PostsKnown, Sole, NoneInPlay, InPlay
<1>5. InPlayIsNoted'
  <2> SUFFICES ASSUME NEW v \in Sessions, InPlay(v), madeFor[v] \notin again, Live(madeFor[v])
               PROVE  FALSE
    BY <1>1 DEF InPlayIsNoted, InPlay, Live
  <2>1. madeFor[v] # run.ident
    BY <1>1 DEF NoneInPlay
  <2>2. madeFor[v] = source.ident
    BY <2>1 DEF Live
  <2>3. QED
    BY <1>1, <2>1, <2>2 DEF IdentsAgree
<1>6. note' # NoNote
  BY <1>1, <1>2, AgentConstants DEF IdentsAgree
<1>7. RunNoted'
  BY <1>1, <1>2, <1>6 DEF RunNoted, Noted
<1>8. QED
  BY <1>3, <1>4, <1>5, <1>7

LEMMA SendCompleteKeepsOnce ==
  ASSUME OnceInv, UploadInv', SendComplete, Unchanged
  PROVE  OnceInv'
<1> USE DEF OnceInv
<1>1. /\ UNCHANGED <<sObject, sState, madeFor, note, source, again>>
      /\ posts' = posts \cup {run.on} /\ source.ident = run.ident
      /\ run.pc = "send" /\ run'.pc = "complete"
      /\ run'.ident = run.ident /\ run'.digest = run.digest /\ run'.on = run.on
  BY DEF SendComplete, Unchanged, RunAt, RunGoto, serverVars, UploadInv, UploadShapes
<1>2. /\ run.on \in Sessions /\ sState[run.on] # "absent" /\ madeFor[run.on] = run.ident
      /\ run.ident \notin again => Noted(run.on)
  BY <1>1 DEF UploadInv, RunBacked, Backed, RunNoted
<1>3. /\ \A v \in Sessions : InPlay(v)' => InPlay(v) \/ v = run.on
      /\ \A v : Noted(v)' <=> Noted(v)
      /\ \A i : Live(i)' => Live(i)
  BY <1>1 DEF InPlay, Noted, Live
<1>4. IdentsAgree' /\ PostsKnown' /\ NoneInPlay' /\ RunNoted'
  BY <1>1, <1>2, <1>3 DEF IdentsAgree, PostsKnown, NoneInPlay, RunNoted
<1>5. InPlayIsNoted'
  BY <1>1, <1>2, <1>3 DEF InPlayIsNoted
<1>6. Sole'
  <2> SUFFICES ASSUME NEW v \in Sessions, InPlay(v), madeFor[v] = run.ident,
                      run.ident \notin again
               PROVE  v = run.on
    BY <1>1, <1>2, <1>3 DEF Sole
  <2>1. Noted(v)
    BY <1>1 DEF InPlayIsNoted, Live
  <2>2. QED
    BY <1>2, <2>1 DEF Noted
<1>7. QED
  BY <1>4, <1>5, <1>6

LEMMA ForgetKeepsOnce ==
  ASSUME OnceInv, UploadInv', Forget
  PROVE  OnceInv'
<1> USE DEF OnceInv
<1>1. /\ UNCHANGED <<sObject, sState, posts, madeFor, source>>
      /\ note' = NoNote /\ again' = again \cup {run.ident}
      /\ run.pc = "finish" /\ run'.pc = "report"
      /\ run'.ident = run.ident /\ run'.digest = run.digest
  BY DEF Forget, RunAt, RunGoto, serverVars, UploadInv, UploadShapes
<1>2. IdentsAgree' /\ PostsKnown' /\ NoneInPlay' /\ RunNoted'
  BY <1>1 DEF IdentsAgree, PostsKnown, NoneInPlay, RunNoted
<1>3. Sole'
  BY <1>1 DEF Sole, InPlay
<1>4. InPlayIsNoted'
  <2> SUFFICES ASSUME NEW v \in Sessions, InPlay(v), madeFor[v] \notin again,
                      madeFor[v] # run.ident, madeFor[v] = source.ident
               PROVE  FALSE
    BY <1>1 DEF InPlayIsNoted, InPlay, Live
  <2>1. QED
    BY <1>1 DEF IdentsAgree
<1>5. QED
  BY <1>2, <1>3, <1>4

LEMMA EditKeepsOnce ==
  ASSUME OnceInv, UploadInv', Edit
  PROVE  OnceInv'
<1> USE DEF OnceInv
<1>1. /\ UNCHANGED <<sObject, sState, posts, madeFor, note, run, again>>
      /\ source'.ident = source.ident + 1 /\ source'.content \in Contents
  BY DEF Edit, serverVars
<1>2. IdentsAgree'
  BY <1>1 DEF IdentsAgree
<1>3. PostsKnown' /\ NoneInPlay' /\ RunNoted' /\ Sole'
  BY <1>1 DEF PostsKnown, NoneInPlay, RunNoted, Sole, InPlay, Noted
<1>4. \A u \in Sessions : madeFor[u] # source'.ident
  BY <1>1 DEF IdentsAgree
<1>5. InPlayIsNoted'
  BY <1>1, <1>4 DEF InPlayIsNoted, InPlay, Live, Noted
<1>6. QED
  BY <1>2, <1>3, <1>5

LEMMA OncePreserves == OnceInv /\ [AgentNext]_agentVars => OnceInv'
<1> SUFFICES ASSUME OnceInv, [AgentNext]_agentVars
             PROVE  OnceInv'
  OBVIOUS
<1>1. UploadInv' /\ UploadInv /\ UploadShapes /\ ObjectsAreWhole
  BY UploadPreserves DEF OnceInv, UploadInv
<1>2. UNCHANGED <<sState, sDigest, sObject>> => Advances
  BY DEF Advances
<1>3. CASE Hash \/ Ask \/ Create \/ SaveNote \/ Forget \/ Edit
  BY <1>1, <1>3, HashKeepsOnce, AskKeepsOnce, CreateKeepsOnce, SaveKeepsOnce, ForgetKeepsOnce,
     EditKeepsOnce
<1>4. CASE SendComplete /\ Unchanged
  BY <1>1, <1>4, SendCompleteKeepsOnce
<1>5. CASE \/ SendComplete /\ ~Unchanged
           \/ \E p \in Chunks : SendPart(p)
           \/ Answered \/ Report \/ RunDies
           \/ UNCHANGED agentVars
  <2>1. /\ UNCHANGED <<source, note, madeFor, again, sState, sDigest, sObject>>
        /\ posts' \subseteq posts
        /\ \/ run' = NoRun
           \/ UNCHANGED run
           \/ run.pc = "await" /\ run' = [run EXCEPT !.pc = "finish"]
    BY <1>5 DEF SendComplete, SendPart, Answered, Report, RunDies, agentVars, serverVars, RunAt,
       RunGoto, RunEnds
  <2>2. \A v \in Sessions : InPlay(v)' => InPlay(v)
    BY <2>1 DEF InPlay
  <2>3. QED
    BY <1>1, <1>2, <2>1, <2>2, QuietStep DEF NoRun, UploadShapes
<1>6. ASSUME NEW m \in net, Arrive(m)
      PROVE  OnceInv'
  <2>1. UNCHANGED <<source, note, madeFor, again, posts, sState, sDigest, sObject>>
    BY <1>6 DEF Arrive, Server!Receive, serverVars
  <2>2. run' \in {run, NoRun} \/ \E x : run' = [run EXCEPT !.todo = x]
    BY <1>6 DEF Arrive
  <2>3. \A v \in Sessions : InPlay(v)' => InPlay(v)
    BY <2>1 DEF InPlay
  <2>4. QED
    BY <1>1, <1>2, <2>1, <2>2, <2>3, QuietStep DEF NoRun, UploadShapes
<1>7. ASSUME NEW u \in Sessions,
             CompletionArrives(u) \/ CompletionProceeds(u) \/ ServerTurns(u)
      PROVE  OnceInv'
  <2>1. ServerSound
    BY <1>1, <1>7, ServerKeeps DEF CompletionArrives, CompletionProceeds, ServerTurns
  <2>2. /\ UNCHANGED <<source, note, madeFor, again>> /\ posts' \subseteq posts
        /\ \/ UNCHANGED run
           \/ run' = NoRun
           \/ run.pc = "complete" /\ run' = [run EXCEPT !.pc = "await"]
    BY <1>7 DEF CompletionArrives, CompletionProceeds, ServerTurns, RunAt
  <2>3. \A v \in Sessions : InPlay(v)' => InPlay(v)
    BY <1>1, <1>7, ServerIsQuiet DEF CompletionArrives, CompletionProceeds, ServerTurns
  <2>4. QED
    BY <1>1, <2>1, <2>2, <2>3, QuietStep DEF NoRun, UploadShapes, ServerSound
<1>8. QED
  BY <1>3, <1>4, <1>5, <1>6, <1>7 DEF AgentNext, RunStep, ServerStep

LEMMA AtMostOne ==
  ASSUME NEW S, \A x, y \in S : x = y
  PROVE  Cardinality(S) <= 1
<1>1. CASE S = {}
  BY <1>1, FS_EmptySet
<1>2. CASE S # {}
  <2>1. PICK x \in S : S = {x}
    BY <1>2
  <2>2. QED
    BY <2>1, FS_Singleton
<1>3. QED
  BY <1>1, <1>2

\* No file is uploaded twice by runs that are killed, lose answers, are outlived by their
\* own requests or find their session cancelled or expired.  A second object needs a run
\* that finished with the file, or one that gave up a session which was still completing,
\* had an object, or could not be asked for: those the agent does upload again.
THEOREM UploadsHappenOnce == AgentSpec => []UploadedOnce
<1>1. ASSUME OnceInv, NEW i \in (1..(MaxEdits + 1)) \ again
      PROVE  Cardinality({u \in Sessions : madeFor[u] = i /\ sObject[u] # {}}) <= 1
  BY <1>1, AtMostOne DEF OnceInv, Sole, InPlay
<1>2. OnceInv => UploadedOnce
  BY <1>1 DEF UploadedOnce
<1>3. QED
  BY <1>2, OnceStarts, OncePreserves, PTL DEF AgentSpec

------------------------------------------------------------------------------
(* Download: what is delivered is intact.                                  *)

DownShapes ==
  /\ content = [i \in Inodes |-> content[i]]
  /\ delivered = [i \in Inodes |-> delivered[i]]
  /\ part \in Inodes \cup {NoFile} /\ out \in Inodes \cup {NoFile}

DeliveredWhole ==
  \A i \in Inodes \ aliased : delivered[i] # NoRemote => content[i] = Whole(delivered[i])

\* An output was delivered; a partial file never, but for the moment between link and
\* unlink, and for what a death in that moment leaves.
NamesApart ==
  /\ out # NoFile => delivered[out] # NoRemote
  /\ part # NoFile /\ delivered[part] # NoRemote => part \in aliased \/ fetch = "unlink"

\* What each point of a run knows.
RunKnows ==
  /\ fetch # "idle" => want.object # NoRemote /\ ~printed
  /\ fetch \in {"write", "verify", "replace", "link", "unlink"} => part # NoFile
  /\ fetch \in {"replace", "link"} => content[part] = Whole(want.object)
  /\ fetch = "unlink" => out = part
  /\ fetch \in {"unlink", "seal", "describe"} => out # NoFile /\ delivered[out] = want.object

PrintedIsThere ==
  printed => /\ manifest = want.object
             /\ out # NoFile => delivered[out] = want.object

DownInv == DownShapes /\ DeliveredWhole /\ NamesApart /\ RunKnows /\ PrintedIsThere

LEMMA DownStarts == DownInit => DownInv
BY DEF DownInit, DownInv, DownShapes, DeliveredWhole, NamesApart, RunKnows, PrintedIsThere, NoFile

LEMMA WholeIsNotEmpty ==
  ASSUME NEW o
  PROVE  Len(Whole(o)) > 0
BY DEF Whole

\* Writing to a partial file reaches nothing that was delivered.
LEMMA WritesPreserve ==
  ASSUME DownInv, fetch \in {"fetch", "write"}, part' \in Inodes, fetch' = "write",
         delivered[part'] = NoRemote \/ part' = part,
         content' = [i \in Inodes |-> content'[i]],
         \A i \in Inodes \ {part'} : content'[i] = content[i],
         UNCHANGED <<askVars, sealed, out, manifest, pastVars>>
  PROVE  DownInv'
<1> USE DEF DownInv, askVars, pastVars, NoFile, Inodes
<1>1. DownShapes'
  BY DEF DownShapes
<1>2. delivered[part'] # NoRemote => part' \in aliased
  BY DEF NamesApart
<1>3. DeliveredWhole'
  BY <1>2 DEF DeliveredWhole, Whole
<1>4. NamesApart' /\ RunKnows' /\ PrintedIsThere'
  BY <1>2 DEF NamesApart, RunKnows, PrintedIsThere
<1>5. QED
  BY <1>1, <1>3, <1>4

\* The object asked for is delivered as the inode of the partial file.
LEMMA DeliveryPreserves ==
  ASSUME DownInv, Replace \/ Link
  PROVE  DownInv'
<1> USE DEF DownInv, Replace, Link, Delivered, askVars, NoFile
<1>1. /\ part \in Inodes /\ out' = part /\ want.object # NoRemote
      /\ delivered' = [delivered EXCEPT ![part] = want.object]
      /\ content[part] = Whole(want.object)
      /\ UNCHANGED <<content, want, printed, manifest, aliased>>
      /\ ~printed
  BY DEF DownShapes, RunKnows
<1>2. DownShapes' /\ delivered'[part] = want.object
  BY <1>1 DEF DownShapes
<1>3. DeliveredWhole'
  BY <1>1, <1>2 DEF DownShapes, DeliveredWhole, Whole
<1>4. part' = NoFile \/ (part' = part /\ (part \in aliased \/ fetch' = "unlink"))
  <2>1. CASE Replace
    <3>1. out = part => delivered[part] # NoRemote
      BY <1>1 DEF NamesApart, Inodes
    <3>2. out = part => part \in aliased
      BY <1>1, <2>1, <3>1 DEF NamesApart, Inodes
    <3>3. QED
      BY <2>1, <3>2
  <2>2. CASE Link
    BY <2>2
  <2>3. QED
    BY <2>1, <2>2
<1>5. NamesApart' /\ RunKnows' /\ PrintedIsThere'
  BY <1>1, <1>2, <1>4 DEF NamesApart, RunKnows, PrintedIsThere
<1>6. QED
  BY <1>2, <1>3, <1>5

LEMMA DownPreserves == DownInv /\ [DownNext]_downVars => DownInv'
<1> SUFFICES ASSUME DownInv, [DownNext]_downVars
             PROVE  DownInv'
  OBVIOUS
<1> USE DEF DownInv, askVars, fileVars, pastVars
<1>1. ASSUME NEW o \in RemoteObjects, NEW over \in BOOLEAN, Command(o, over)
      PROVE  DownInv'
  BY <1>1 DEF Command, DownShapes, DeliveredWhole, NamesApart, RunKnows, PrintedIsThere, Whole
<1>2. CASE TakeAway
  BY <1>2 DEF TakeAway, DownShapes, DeliveredWhole, NamesApart, RunKnows, PrintedIsThere, Whole
<1>3. CASE BeginRun
  <2>1. fetch' \in {"fetch", "verify"} /\ (fetch' = "verify" => part # NoFile)
    BY <1>3, WholeIsNotEmpty DEF BeginRun, FirstStep, Offset
  <2>2. QED
    BY <1>3, <2>1 DEF BeginRun, DownShapes, DeliveredWhole, NamesApart, RunKnows,
       PrintedIsThere, Whole
<1>4. CASE Fetch
  <2>1. CASE fetch' = "idle"
    BY <1>4, <2>1 DEF Fetch, DownShapes, DeliveredWhole, NamesApart, RunKnows,
       PrintedIsThere, Whole
  <2>2. CASE fetch' # "idle" /\ part = NoFile
    <3>1. part' \in NotCreated /\ UNCHANGED content /\ fetch' = "write"
      BY <1>4, <2>2 DEF Fetch
    <3>2. QED
      BY <1>4, <3>1, WritesPreserve DEF Fetch, NotCreated, DownShapes
  <2>3. CASE fetch' # "idle" /\ part # NoFile
    <3>1. /\ content' \in {content, [content EXCEPT ![part] = <<>>]}
          /\ UNCHANGED part /\ fetch' = "write" /\ fetch = "fetch" /\ part \in Inodes
      BY <1>4, <2>3 DEF Fetch, DownShapes
    <3>2. /\ content' = [i \in Inodes |-> content'[i]]
          /\ \A i \in Inodes \ {part'} : content'[i] = content[i]
      BY <3>1 DEF DownShapes
    <3>3. QED
      BY <1>4, <3>1, <3>2, WritesPreserve DEF Fetch
  <2>4. QED
    BY <2>1, <2>2, <2>3
<1>5. CASE WriteBlock
  <2>1. part \in Inodes
    BY <1>5 DEF WriteBlock, RunKnows, DownShapes
  <2>2. /\ content' = [i \in Inodes |-> content'[i]]
        /\ \A i \in Inodes \ {part} : content'[i] = content[i]
    BY <1>5 DEF WriteBlock, DownShapes
  <2>3. QED
    BY <1>5, <2>1, <2>2, WritesPreserve DEF WriteBlock
<1>6. CASE EndOfBody
  BY <1>6 DEF EndOfBody, DownShapes, DeliveredWhole, NamesApart, RunKnows, PrintedIsThere, Whole
<1>7. CASE Verify
  BY <1>7 DEF Verify, Verified, DownShapes, DeliveredWhole, NamesApart, RunKnows,
     PrintedIsThere, Whole
<1>8. CASE Replace \/ Link
  BY <1>8, DeliveryPreserves
<1>9. CASE DropPart \/ Seal \/ Describe
  BY <1>9 DEF DropPart, Seal, Describe, DownShapes, DeliveredWhole, NamesApart, RunKnows,
     PrintedIsThere, Whole
<1>10. CASE FetchDies
  BY <1>10 DEF FetchDies, DownShapes, DeliveredWhole, NamesApart, RunKnows, PrintedIsThere, Whole
<1>11. CASE UNCHANGED downVars
  BY <1>11 DEF downVars, DownShapes, DeliveredWhole, NamesApart, RunKnows, PrintedIsThere, Whole
<1>12. QED
  BY <1>1, <1>2, <1>3, <1>4, <1>5, <1>6, <1>7, <1>8, <1>9, <1>10, <1>11 DEF DownNext, FetchStep

\* Nothing written later reaches what was delivered, whatever runs died and whatever they
\* left, but for a death between link and unlink; and success means that output and
\* manifest are those of the object asked for.
THEOREM DeliveriesStayIntact == DownSpec => []DeliveredIsIntact
<1>1. DownInv => DeliveredIsIntact
  BY DEF DownInv, DeliveredWhole, PrintedIsThere, DeliveredIsIntact
<1>2. QED
  BY <1>1, DownStarts, DownPreserves, PTL DEF DownSpec
==============================================================================
