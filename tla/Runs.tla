-------------------------------- MODULE Runs --------------------------------
(***************************************************************************)
(* Masking and discovery runs: starting them, watching one and cancelling  *)
(* one (client/runs.py, the start_* methods of client/discovery.py,        *)
(* client/models/status.py), and the requests that start them              *)
(* (client/models/runs.py, client/models/discovery.py), while the server's *)
(* workers move the runs on.                                               *)
(*                                                                         *)
(* Each of these calls makes one request and is one step: what it owes its *)
(* caller is ApiCall.  What the caller learns may be stale at once.        *)
(***************************************************************************)
EXTENDS Naturals, RunStatus

VARIABLES worksOn,  \* server: r |-> the choice it was started with
          asked,    \* history: the choice the caller put in the last request
          start,    \* what the last start_* call returned or raised
          created,  \* history: the run that call created, or NoRun
          answered, \* history: the status that call was answered with
          watched,  \* the run the caller polls with get_run_info, or NoRun
          cancel    \* the last cancel_run: its run and what it came to

startVars == <<worksOn, asked, start, created, answered>>
vars == <<status, startVars, watched, cancel>>

M_FinalStates == {"finished", "cancelled", "failed"}

(* MaskingRunStatus.get_final_states.                                      *)
FinalStates == {"finished", "finished_with_warnings", "cancelled", "failed"}

StartOutcomes == {"none", "requestError", "started", "invalidLibrary", "invalidRuleset",
                  "configNotFound", "invalidConfig", "failedToStart",
                  "attributeError", "decodeError", "transportError"}
(* How a reference is given in a request: left out, None, an object that   *)
(* was never saved and has no id, or the id of a saved one.                *)
Refs == {"absent", "null", "unsaved", "id"}

CancelOutcomes == {"none", "cancelling", "notCancellable", "notReady",
                   "apiError", "transportError"}

(* Types, and that a start call returns exactly on the answer 201          *)
(* (start_masking_run and its siblings).                                   *)
TypeOK ==
    /\ StatusOK
    /\ worksOn \in [Run -> {"default", "id"}]
    /\ asked \in Refs
    /\ start \in StartOutcomes
    /\ created \in Run \cup {NoRun}
    /\ answered \in {0, 201, 400, 500, 502}
    /\ watched \in Run \cup {NoRun}
    /\ cancel \in [run : Run \cup {NoRun}, outcome : CancelOutcomes]
    /\ start = "started" <=> answered = 201

Init ==
    /\ NoRuns
    /\ worksOn = [r \in Run |-> "default"]
    /\ asked = "absent"
    /\ start = "none"
    /\ created = NoRun
    /\ answered = 0
    /\ watched = NoRun
    /\ cancel = [run |-> NoRun, outcome |-> "none"]

-----------------------------------------------------------------------------
(* The request.                                                            *)

Kinds == {"masking", "discovery", "fromConfig"}

(* The references of a request: its connection, its ruleset, and the       *)
(* choice the server makes a default of: the destination of a masking run, *)
(* which otherwise masks its source in place, and the discovery_config of  *)
(* a discovery run.                                                        *)
Requests(k) ==
    [connection : Refs,
     ruleset : IF k = "masking" THEN Refs ELSE {"absent"},
     choice : Refs]

M_NoIdIsNone(v) == IF v = "unsaved" THEN "null" ELSE v

(* unwrap_connection_id and its siblings: an object gives its id, and one  *)
(* without an id is an error.                                              *)
Unwrapped(v) == IF v = "unsaved" THEN "error" ELSE v

(* The choices a kind of request takes: a destination may be left out, a   *)
(* keyword-driven discovery takes no discovery_config, not even None, and  *)
(* a discovery from a config must be given one or None.                    *)
Choices(k) ==
    IF k = "masking" THEN {"absent", "null", "id"}
    ELSE IF k = "discovery" THEN {"absent"}
    ELSE {"null", "id"}

(* The request q can be built.                                             *)
WellFormed(k, q) ==
    /\ Unwrapped(q.connection) = "id"
    /\ k = "masking" => Unwrapped(q.ruleset) = "id"
    /\ Unwrapped(q.choice) \in Choices(k)

(* The choice that is sent: None is left out of the request, but for a     *)
(* discovery_config.                                                       *)
SentChoice(k, q) ==
    IF Unwrapped(q.choice) = "id" THEN "id"
    ELSE IF k = "fromConfig" THEN "null" ELSE "absent"

-----------------------------------------------------------------------------
(* Starting a run: start_masking_run, start_schema_discovery_run and its   *)
(* file-data twin, and the two ..._from_config methods.                    *)

(* What an answer to kind k with choice w carries, as far as the client    *)
(* tells it apart: the new run; the "ruleset" errors of a masking run,     *)
(* about a library, about the ruleset, not understood, or not even a text; *)
(* the "discovery_config" errors, when a config was named or the field is      *)
(* missing; any other JSON; no body; a page of the proxy.                  *)
Bodies(k, w, s) ==
    IF s = 201 THEN {"run"}
    ELSE IF s = 400 THEN
        IF k = "masking" THEN {"library", "ruleset", "unparseable", "notText", "json"}
        ELSE IF k = "discovery" \/ w = "null" THEN {"json"}
        ELSE IF w = "absent" THEN {"configInvalid"}
        ELSE {"configMissing", "configInvalid", "json"}
    ELSE {"json", "none", "html"}

(* response.json() raises; an empty body is excused unless a discovery run *)
(* is started without a saved config.                                      *)
NotJson(k, b) == b = "html" \/ (b = "none" /\ k = "discovery")

(* The operators named M_... are faults a change of this code could bring  *)
(* in; each property is shown to notice one of them.                       *)
M_StartedUnlessError(k, s, b) ==
    IF NotJson(k, b) THEN "decodeError"
    ELSE IF b = "library" THEN "invalidLibrary"
    ELSE IF b = "ruleset" THEN "invalidRuleset"
    ELSE IF b = "configMissing" THEN "configNotFound"
    ELSE IF b = "configInvalid" THEN "invalidConfig"
    ELSE IF b = "notText" THEN "attributeError"
    ELSE IF b = "unparseable" THEN "failedToStart"
    ELSE "started"

(* What the client makes of an answer with status s and body b, which it   *)
(* decodes before it looks at the status.                                  *)
StartVerdict(k, s, b) ==
    IF NotJson(k, b) THEN "decodeError"
    ELSE IF s = 201 THEN "started"
    ELSE IF b = "library" THEN "invalidLibrary"
    ELSE IF b = "ruleset" THEN "invalidRuleset"
    ELSE IF b = "configMissing" THEN "configNotFound"
    ELSE IF b = "configInvalid" THEN "invalidConfig"
    ELSE IF b = "notText" THEN "attributeError"
    ELSE "failedToStart"

(* The request is not built: nothing is sent.                              *)
RejectRequest(k, q) ==
    /\ ~WellFormed(k, q)
    /\ asked' = q.choice
    /\ start' = "requestError"
    /\ created' = NoRun
    /\ answered' = 0
    /\ UNCHANGED <<status, worksOn, watched, cancel>>

(* The server creates run r or it does not; the answer says so unless it   *)
(* is the answer of a failing server or proxy, or is lost.                 *)
StartRun(k, q, r) ==
    LET w == SentChoice(k, q) IN
    /\ WellFormed(k, q)
    /\ status[r] = "none"
    /\ asked' = q.choice
    /\ \/ /\ \E s \in {201, 400, 500, 502} : \E b \in Bodies(k, w, s) :
                /\ start' = StartVerdict(k, s, b)
                /\ answered' = s
       \/ /\ start' = "transportError"
          /\ answered' = 0
    /\ \/ /\ answered' \in {0, 201, 500, 502}
          /\ Moves(r, "queued")
          /\ worksOn' = [worksOn EXCEPT ![r] = IF w = "id" THEN w ELSE "default"]
          /\ created' = r
       \/ /\ answered' \in {0, 400, 500, 502}
          /\ created' = NoRun
          /\ UNCHANGED <<status, worksOn>>
    /\ UNCHANGED <<watched, cancel>>

-----------------------------------------------------------------------------
(* Watching a run until it is in a final state, and cancelling one.        *)

Watch(r) ==
    /\ watched = NoRun
    /\ status[r] # "none"
    /\ watched' = r
    /\ UNCHANGED <<status, startVars, cancel>>

(* get_run_info and is_in_final_state; the caller polls until it is.       *)
Poll ==
    /\ watched # NoRun
    /\ status[watched] \in FinalStates
    /\ watched' = NoRun
    /\ UNCHANGED <<status, startVars, cancel>>

M_AnyErrorNotCancellable(s) ==
    IF s >= 400 THEN "notCancellable" ELSE "cancelling"

(* cancel_run: 400 is the server's RunLifecycleError.                      *)
CancelVerdict(s) ==
    IF s = 400 THEN "notCancellable"
    ELSE IF s = 502 THEN "notReady"
    ELSE IF s = 500 THEN "apiError" ELSE "cancelling"

(* A run that can be cancelled starts to cancel and the server says so,    *)
(* or fails before or after; one that cannot is left alone.                *)
CancelRun(r) ==
    /\ status[r] # "none"
    /\ \/ /\ status[r] \in Cancellable
          /\ Moves(r, "cancelling")
          /\ \E s \in {200, 500, 502} :
                cancel' = [run |-> r, outcome |-> CancelVerdict(s)]
       \/ /\ \E s \in (IF status[r] \in Cancellable THEN {} ELSE {400})
                          \cup {500, 502} :
                cancel' = [run |-> r, outcome |-> CancelVerdict(s)]
          /\ UNCHANGED status
       \/ /\ cancel' = [run |-> r, outcome |-> "transportError"]
          /\ \/ status[r] \in Cancellable /\ Moves(r, "cancelling")
             \/ UNCHANGED status
    /\ UNCHANGED <<startVars, watched>>

-----------------------------------------------------------------------------
(* The server's workers: whatever a run does, it does not come back from a *)
(* final state, and once it is cancelling it ends.                         *)
Progress(r) ==
    /\ \/ status[r] \in {"queued", "validating"} /\ Moves(r, "running")
       \/ status[r] \in {"queued", "running"} /\ Moves(r, "validating")
    /\ UNCHANGED <<startVars, watched, cancel>>

End(r) ==
    /\ \/ status[r] \in {"running", "validating"}
          /\ \E s \in Ended \ {"cancelled"} : Moves(r, s)
       \/ status[r] = "cancelling" /\ \E s \in Ended : Moves(r, s)
    /\ UNCHANGED <<startVars, watched, cancel>>

-----------------------------------------------------------------------------
Next ==
    \/ \E k \in Kinds : \E q \in Requests(k) :
            RejectRequest(k, q) \/ \E r \in Run : StartRun(k, q, r)
    \/ \E r \in Run : Watch(r) \/ CancelRun(r)
    \/ Poll
    \/ \E r \in Run : Progress(r) \/ End(r)

Spec == Init /\ [][Next]_vars

(* The workers get every run ended, and the caller goes on polling.        *)
FairSpec ==
    /\ Spec
    /\ WF_vars(Poll)
    /\ \A r \in Run : WF_vars(Progress(r)) /\ WF_vars(End(r))

-----------------------------------------------------------------------------
(* The caller who is told that a run started has one, and the caller who   *)
(* is told why the server refused it has none.  A run that exists is kept  *)
(* from its caller only by a failure of the transport, or of the server or *)
(* its proxy while they answer: any other answer that could not be decoded *)
(* or understood is that of a refusal (start_masking_run,                  *)
(* start_schema_discovery_run, _start_discovery_run_from_config).          *)
StartVerdictFits ==
    /\ start = "started" => created # NoRun
    /\ start \in {"invalidLibrary", "invalidRuleset", "configNotFound",
                  "invalidConfig", "attributeError"} => created = NoRun
    /\ created # NoRun => start \in {"started", "transportError"} \/ answered >= 500

(* exceptions.py:29 says that FailedToStartError is raised when the run is *)
(* not created; it is also raised for a server or proxy that failed after  *)
(* it was, whose 502 no other call reports in this way                     *)
(* (_raise_for_status): who tries again has two runs.                      *)
FailedToStartMeansNoRun == start = "failedToStart" => created = NoRun

(* A default is taken only by the caller who asked for it: a run masks its *)
(* source in place, or discovers with the built-in options, only if no     *)
(* destination or config was put in the request, never because the object  *)
(* that was put there had no id; and who put none in it is not told that   *)
(* it is wrong (unwrap_connection_id, unwrap_discovery_config_id,          *)
(* _start_discovery_run_from_config).                                      *)
DefaultsOnlyIfAsked ==
    /\ created # NoRun => \/ worksOn[created] = "id" /\ asked = "id"
                          \/ worksOn[created] = "default" /\ asked \in {"absent", "null"}
    /\ start \in {"configNotFound", "invalidConfig"} => asked = "id"

(* A run whose cancellation was granted never runs again, and one that     *)
(* could not be cancelled never becomes cancellable (cancel_run).          *)
CancelVerdictFits ==
    cancel.outcome \in {"cancelling", "notCancellable"}
        => status[cancel.run] \notin Cancellable

(* Polling a run until it is in a final state ends, however it ends        *)
(* (MaskingRunStatus.get_final_states).                                    *)
WatchEnds == watched # NoRun ~> watched = NoRun
=============================================================================
