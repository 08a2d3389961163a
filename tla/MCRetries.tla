-------------------------------- MODULE MCRetries ---------------------------------
(* What is tried again until it ends: the jobs of the queue, the uploads and the    *)
(* downloads of the agent.  The three share no variable here; a behaviour keeps to  *)
(* one of them (see MCUploads), and in the others the start of a component is a     *)
(* state in which its fairness asks for nothing.                                    *)
EXTENDS JobQueue, AgentUpload, AgentDownload

VARIABLE view

mcVars == <<queueVars, agentVars, downVars, view>>

MCInit == Init /\ AgentInit /\ DownInit /\ view \in {"queue", "upload", "download"}

MCNext == /\ \/ view = "queue"    /\ Next      /\ UNCHANGED <<agentVars, downVars>>
             \/ view = "upload"   /\ AgentNext /\ UNCHANGED <<queueVars, downVars>>
             \/ view = "download" /\ DownNext  /\ UNCHANGED <<queueVars, agentVars>>
          /\ UNCHANGED view

MCSpec == MCInit /\ [][MCNext]_mcVars /\ Fairness /\ AgentFairness /\ DownFairness
==============================================================================
