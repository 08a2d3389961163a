-------------------------------- MODULE MCInbound ---------------------------------
(* Where payloads are: through the life of one object, and through backup and       *)
(* restore of the whole data directory.  A behaviour keeps to one of these views,   *)
(* which share no variable here.                                                    *)
EXTENDS InboundSystem, Custody, TLC

VARIABLE view

mcVars == <<systemVars, custodyVars, view>>

MCInit == SystemInit /\ CustodyInit /\ view \in {"object", "directory"}

MCNext == \/ view = "object" /\ SystemNext /\ UNCHANGED <<custodyVars, view>>
          \/ view = "directory" /\ CustodyNext /\ UNCHANGED <<systemVars, view>>

MCSpec == MCInit /\ [][MCNext]_mcVars

Symmetry == Permutations(Workers) \cup Permutations(Writers)
==============================================================================
