-------------------------------- MODULE MCRuns --------------------------------
(* The model-checked instance of Runs.                                     *)
EXTENDS Runs

(* One run to start while the other is watched or cancelled.               *)
MCRun == {"r1", "r2"}
===============================================================================
