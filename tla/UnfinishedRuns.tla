--------------------------- MODULE UnfinishedRuns ---------------------------
(***************************************************************************)
(* get_unfinished_runs of client/runs.py: four requests, one per status,   *)
(* each for one run at most, whose answers are gathered in a dictionary    *)
(* keyed by connection, while runs are started, cancelled and moved on by  *)
(* others between any two of the requests.                                 *)
(***************************************************************************)
EXTENDS Naturals, Sequences, RunStatus

CONSTANTS Conn,   \* the connections
          NoConn

ASSUME UnfinishedRunsAssumption == NoConn \notin Conn

VARIABLES source,   \* server: r |-> its source connection
          dest,     \* server: r |-> its destination connection or NoConn
          sweep,    \* the index of the status to query next, 0 outside
          found,    \* the dictionary: connection |-> run
          quiet,    \* history: no run changed since the sweep began
          live      \* history: the runs unfinished at some time since then

sweepVars == <<status, source, dest, sweep, found, quiet, live>>

(* The operators named M_... are faults a change of this code could bring  *)
(* in; each property is shown to notice one of them.                       *)
M_NotValidating == <<"queued", "running", "cancelling">>

(* The statuses the method asks for, in its order.                         *)
SweptStatuses == <<"queued", "running", "validating", "cancelling">>
Done == Len(SweptStatuses) + 1

(* Types, and that a run is filed under its own connections only           *)
(* (unfinished_runs[connection.name]).                                     *)
SweepTypeOK ==
    /\ StatusOK
    /\ source \in [Run -> Conn]
    /\ dest \in [Run -> Conn \cup {NoConn}]
    /\ sweep \in 0..Done
    /\ found \in [Conn -> Run \cup {NoRun}]
    /\ quiet \in BOOLEAN
    /\ live \subseteq Run
    /\ \A k \in Conn : found[k] # NoRun => k \in {source[found[k]], dest[found[k]]}

SweepInit ==
    /\ NoRuns
    /\ source \in [Run -> Conn]
    /\ dest \in [Run -> Conn \cup {NoConn}]
    /\ sweep = 0
    /\ found = [k \in Conn |-> NoRun]
    /\ quiet = TRUE
    /\ live = {}

-----------------------------------------------------------------------------
BeginSweep ==
    /\ sweep = 0
    /\ sweep' = 1
    /\ found' = [k \in Conn |-> NoRun]
    /\ quiet' = TRUE
    /\ live' = {r \in Run : status[r] \in Unfinished}
    /\ UNCHANGED <<status, source, dest>>

M_AnyRun(s) == {r \in Run : status[r] # "none"}

(* The runs the server may answer with: one of those in the status asked   *)
(* for, since the client sends limit 1.                                    *)
Answers(s) == {r \in Run : status[r] = s}

(* The connections a record names, once _collapse_flat_connection_fields   *)
(* has paired their ids with their names: an empty name of a destination   *)
(* is none.                                                                *)
Named(r) == {source[r]} \cup (IF dest[r] = NoConn THEN {} ELSE {dest[r]})

M_FiledUnderNone(r) == [k \in Conn \cup {NoConn} |->
    IF k \in {source[r], dest[r]} THEN r
    ELSE IF k \in DOMAIN found THEN found[k] ELSE NoRun]

(* The dictionary with run r filed under its connections.                  *)
Filed(r) == [k \in Conn |-> IF k \in Named(r) THEN r ELSE found[k]]

SweepQuery ==
    /\ sweep \in DOMAIN SweptStatuses
    /\ LET runs == Answers(SweptStatuses[sweep])
       IN  IF runs = {} THEN UNCHANGED found
           ELSE \E r \in runs : found' = Filed(r)
    /\ sweep' = sweep + 1
    /\ UNCHANGED <<status, source, dest, quiet, live>>

(* The caller drops the dictionary, or a request raises midway and with it *)
(* the sweep, whatever it had gathered.                                    *)
EndSweep ==
    /\ sweep # 0
    /\ sweep' = 0
    /\ UNCHANGED <<status, source, dest, found, quiet, live>>

-----------------------------------------------------------------------------
(* Everybody else: a run is started, moves on, is cancelled or ends.       *)
RunMoves(r) ==
    /\ \E s \in Successors(status[r]) :
          /\ Moves(r, s)
          /\ live' = IF s \in Unfinished THEN live \cup {r} ELSE live
    /\ quiet' = FALSE
    /\ UNCHANGED <<source, dest, sweep, found>>

-----------------------------------------------------------------------------
SweepNext ==
    \/ BeginSweep \/ SweepQuery \/ EndSweep
    \/ \E r \in Run : RunMoves(r)

SweepSpec == SweepInit /\ [][SweepNext]_sweepVars

-----------------------------------------------------------------------------
(* Every run the sweep reports was unfinished at some time during it       *)
(* (get_unfinished_runs, run_status).                                      *)
SweepReportsLiveRuns ==
    sweep # 0 => \A k \in Conn : found[k] \in live \cup {NoRun}

Unshared(r) ==
    \A q \in Run \ {r} : status[q] \in Unfinished =>
        /\ status[q] # status[r]
        /\ {source[q], dest[q]} \cap {source[r], dest[r]} \cap Conn = {}

(* While no run moves, the sweep reports every unfinished run that shares  *)
(* neither its status nor a connection with another                        *)
(* (get_unfinished_runs).                                                  *)
QuietSweepComplete ==
    sweep = Done /\ quiet => \A r \in Run :
        status[r] \in Unfinished /\ Unshared(r) => found[source[r]] = r

(* runs.py:67 says that the DM instance is queried for unfinished runs; of *)
(* two unfinished runs in one status only one is asked for, even when      *)
(* nothing moves.                                                          *)
QuietSweepReportsAll ==
    sweep = Done /\ quiet => \A r \in Run :
        status[r] \in Unfinished => found[source[r]] # NoRun
=============================================================================
