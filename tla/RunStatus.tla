------------------------------ MODULE RunStatus ------------------------------
(***************************************************************************)
(* The runs of a server and their statuses (client/models/status.py), as   *)
(* Runs starts and cancels them and UnfinishedRuns sweeps over them.       *)
(***************************************************************************)

CONSTANTS Run,    \* the ids the server may give to runs
          NoRun

ASSUME RunStatusAssumption == NoRun \notin Run

VARIABLE status   \* server: r |-> MaskingRunStatus of run r, "none" before

Cancellable == {"queued", "running", "validating"}
Unfinished == Cancellable \cup {"cancelling"}
Ended == {"finished", "finished_with_warnings", "cancelled", "failed"}

StatusOK == status \in [Run -> {"none"} \cup Unfinished \cup Ended]
NoRuns == status = [r \in Run |-> "none"]

(* Where a run may go: it does not come back from a final state, and a     *)
(* cancelling run ends.                                                    *)
Successors(s) ==
    IF s = "none" THEN {"queued"}
    ELSE IF s \in Ended THEN {}
    ELSE IF s = "cancelling" THEN Ended
    ELSE (Unfinished \cup Ended) \ {"queued", s}

(* Run r goes to status s.                                                 *)
Moves(r, s) == status' = [status EXCEPT ![r] = s]
=============================================================================
