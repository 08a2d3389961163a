-------------------------------- MODULE MCUploads ---------------------------------
(* The contents of one upload, and the space of several: two views of the same      *)
(* service that share no variable here.  A behaviour keeps to one of them, so that  *)
(* their states add up instead of multiplying.                                      *)
EXTENDS UploadSessions, StagingQuota, TLC

VARIABLE view

mcVars == <<vars, quotaVars, view>>

MCInit == Init /\ QuotaInit /\ view \in {"sessions", "admission"}

MCNext == \/ view = "sessions" /\ Next /\ UNCHANGED <<quotaVars, view>>
          \/ view = "admission" /\ QuotaNext /\ UNCHANGED <<vars, view>>

MCSpec == MCInit /\ [][MCNext]_mcVars

Symmetry == Permutations(Clients) \cup Permutations(Parts)
==============================================================================
