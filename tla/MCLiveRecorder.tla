--------------------------- MODULE MCLiveRecorder --------------------------
(***************************************************************************)
(* Instances of LiveRecorder.  MCLiveRecorder.cfg is two symbols, two      *)
(* settings and two restarts; MCLostMonth.cfg one symbol restarted twice,  *)
(* and MCMonthRevisited.cfg two symbols and no restart.                    *)
(***************************************************************************)
EXTENDS LiveRecorder

MCRuns == 0..MaxRestarts

(* Symbols and settings are only compared, so any two may change places.   *)
MCAlike == Permutations(Symbols) \cup Permutations(Configs)
============================================================================
