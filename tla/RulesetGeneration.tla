-------------------------- MODULE RulesetGeneration --------------------------
(***************************************************************************)
(* Asynchronous ruleset generation on one connection: several clients      *)
(* start generations, poll the task and fetch the rulesets                 *)
(* (client/discovery.py), while the server's worker runs the task.         *)
(*                                                                         *)
(* The server keeps one task per connection; a newly started generation    *)
(* takes its place.  A call of a client is one step here: what it owes its *)
(* caller is ApiCall, so it is answered, or raises with its effect or      *)
(* without.  get_generated_rulesets makes two calls and is two steps: what *)
(* it learnt of the status may be stale when it downloads.                 *)
(***************************************************************************)
EXTENDS Naturals, FiniteSets

CONSTANTS Client,   \* the clients that work on this connection
          Endings,  \* how a generation may end
          MaxJobs   \* bound on the generations started

AllEndings == {"finished", "finished_with_warnings", "failed"}

ASSUME RulesetGenerationAssumption ==
    /\ Endings \subseteq AllEndings
    /\ MaxJobs \in Nat

VARIABLES jobs,     \* server: how many generations were ever started
          status,   \* server: AsyncRulesetGenerationTaskStatus of the task
          empty,    \* server: the task ended without any ruleset
          pc,       \* c |-> where client c is: "polling" until the status is
                    \*   final, or "awaiting" the status finished
          outcome,  \* c |-> what its last call returned or raised
          got,      \* c |-> the job whose rulesets it was given, 0 for none
          mine,     \* history: c |-> the job its last start call asked for
                    \*   and was told had started
          seen      \* history: c |-> the job whose status its retrieval read

serverVars == <<jobs, status, empty>>
vars == <<jobs, status, empty, pc, outcome, got, mine, seen>>

Statuses == AllEndings \cup {"none", "queued", "running"}
Outcomes == {"none", "started", "refused", "invalidSelection", "transportError", "waiting",
             "final", "noStatus", "failed", "inProgress", "noRulesets", "rulesets"}

(* Types, and that a client to whom rulesets are returned has been given   *)
(* some: the list is never empty (get_generated_rulesets).                 *)
TypeOK ==
    /\ jobs \in 0..MaxJobs
    /\ status \in Statuses
    /\ empty \in BOOLEAN
    /\ pc \in [Client -> {"idle", "polling", "awaiting", "retrieve", "download"}]
    /\ outcome \in [Client -> Outcomes]
    /\ got \in [Client -> 0..jobs]
    /\ mine \in [Client -> 0..jobs]
    /\ seen \in [Client -> 0..jobs]
    /\ \A c \in Client : got[c] # 0 <=> outcome[c] = "rulesets"

Init ==
    /\ jobs = 0
    /\ status = "none"
    /\ empty = FALSE
    /\ pc = [c \in Client |-> "idle"]
    /\ outcome = [c \in Client |-> "none"]
    /\ got = [c \in Client |-> 0]
    /\ mine = [c \in Client |-> 0]
    /\ seen = [c \in Client |-> 0]

(* Client c goes on at p with result o of its last call.                   *)
Becomes(c, p, o) ==
    /\ pc' = [pc EXCEPT ![c] = p]
    /\ outcome' = [outcome EXCEPT ![c] = o]

-----------------------------------------------------------------------------
(* The calls of a client.                                                  *)

(* start_async_ruleset_generation or ..._from_csv is answered with         *)
(* success: a new task takes the place of the old one.  The caller polls   *)
(* it, in one way or the other.                                            *)
Start(c) ==
    /\ pc[c] = "idle"
    /\ jobs < MaxJobs
    /\ jobs' = jobs + 1
    /\ status' = "queued"
    /\ empty' = FALSE
    /\ \E p \in {"polling", "awaiting"} : Becomes(c, p, "started")
    /\ got' = [got EXCEPT ![c] = 0]
    /\ mine' = [mine EXCEPT ![c] = jobs']
    /\ UNCHANGED seen

(* The server starts the task but the answer is lost.                      *)
StartLost(c) ==
    /\ pc[c] = "idle"
    /\ jobs < MaxJobs
    /\ jobs' = jobs + 1
    /\ status' = "queued"
    /\ empty' = FALSE
    /\ Becomes(c, "idle", "transportError")
    /\ got' = [got EXCEPT ![c] = 0]
    /\ UNCHANGED <<mine, seen>>

(* The operators named M_... are faults a change of this code could bring  *)
(* in; each property is shown to notice one of them.                       *)
M_RefusalIgnored(c) ==
    /\ pc[c] = "idle"
    /\ Becomes(c, "polling", "started")
    /\ got' = [got EXCEPT ![c] = 0]
    /\ mine' = [mine EXCEPT ![c] = jobs + 1]
    /\ UNCHANGED <<serverVars, seen>>

(* The server refuses, for instance while a task is active: make_request   *)
(* raises.                                                                 *)
StartRefused(c) ==
    /\ pc[c] = "idle"
    /\ Becomes(c, "idle", "refused")
    /\ got' = [got EXCEPT ![c] = 0]
    /\ UNCHANGED <<serverVars, mine, seen>>

(* start_async_ruleset_generation raises before it makes a request: the    *)
(* selected data is missing or of another type, or a selection of files    *)
(* has no locators or no files.                                            *)
SelectionRejected(c) ==
    /\ pc[c] = "idle"
    /\ Becomes(c, "idle", "invalidSelection")
    /\ got' = [got EXCEPT ![c] = 0]
    /\ UNCHANGED <<serverVars, mine, seen>>

M_FinalStates == {"finished"}

(* AsyncRulesetGenerationTaskStatus.get_final_states.                      *)
FinalStates == {"finished", "failed"}

(* One turn of a loop around get_async_ruleset_generation_task_status that *)
(* goes on once the status is_in_final_state.                              *)
Poll(c) ==
    /\ pc[c] = "polling"
    /\ status # "none"
    /\ IF status \in FinalStates THEN Becomes(c, "retrieve", "final")
       ELSE Becomes(c, "polling", "waiting")
    /\ UNCHANGED <<serverVars, got, mine, seen>>

(* One turn of the loop that the docstrings of the start methods ask for:  *)
(* until the status is `finished`.                                         *)
Await(c) ==
    /\ pc[c] = "awaiting"
    /\ status # "none"
    /\ IF status = "finished" THEN Becomes(c, "retrieve", "final")
       ELSE Becomes(c, "awaiting", "waiting")
    /\ UNCHANGED <<serverVars, got, mine, seen>>

(* The caller asks for the rulesets without polling first.                 *)
Retrieve(c) ==
    /\ pc[c] \in {"idle", "polling", "awaiting"}
    /\ Becomes(c, "retrieve", "none")
    /\ got' = [got EXCEPT ![c] = 0]
    /\ UNCHANGED <<serverVars, mine, seen>>

M_DownloadUnlessFailed(c) ==
    /\ pc[c] = "retrieve"
    /\ IF status = "none" THEN Becomes(c, "idle", "noStatus")
       ELSE IF status = "failed" THEN Becomes(c, "idle", "failed")
       ELSE Becomes(c, "download", outcome[c])
    /\ seen' = [seen EXCEPT ![c] = jobs]
    /\ UNCHANGED <<serverVars, got, mine>>

(* get_generated_rulesets, the status call.                                *)
CheckStatus(c) ==
    /\ pc[c] = "retrieve"
    /\ IF status = "none" THEN Becomes(c, "idle", "noStatus")
       ELSE IF status = "failed" THEN Becomes(c, "idle", "failed")
       ELSE IF status = "finished" THEN Becomes(c, "download", outcome[c])
       ELSE Becomes(c, "idle", "inProgress")
    /\ seen' = [seen EXCEPT ![c] = jobs]
    /\ UNCHANGED <<serverVars, got, mine>>

M_EmptyArchiveReturned(c) ==
    /\ pc[c] = "download"
    /\ IF status = "finished"
       THEN /\ Becomes(c, "idle", "rulesets")
            /\ got' = [got EXCEPT ![c] = IF empty THEN 0 ELSE jobs]
       ELSE /\ Becomes(c, "idle", "noRulesets")
            /\ UNCHANGED got
    /\ UNCHANGED <<serverVars, mine, seen>>

(* get_generated_rulesets, the download: the archive of the task that is   *)
(* there now, or the record of the task, which carries the ruleset when    *)
(* the task has finished.  Neither of them names the generation.           *)
Download(c) ==
    /\ pc[c] = "download"
    /\ IF status = "finished" /\ ~empty
       THEN /\ Becomes(c, "idle", "rulesets")
            /\ got' = [got EXCEPT ![c] = jobs]
       ELSE /\ Becomes(c, "idle", "noRulesets")
            /\ UNCHANGED got
    /\ UNCHANGED <<serverVars, mine, seen>>

(* Any of these calls raises; nothing it does changes the server.          *)
CallFails(c) ==
    /\ pc[c] # "idle"
    /\ Becomes(c, "idle", "transportError")
    /\ UNCHANGED <<serverVars, got, mine, seen>>

-----------------------------------------------------------------------------
(* The server's worker.                                                    *)

RunTask ==
    /\ status = "queued"
    /\ status' = "running"
    /\ UNCHANGED <<jobs, empty, pc, outcome, got, mine, seen>>

EndTask ==
    /\ status = "running"
    /\ status' \in Endings
    /\ empty' \in BOOLEAN
    /\ UNCHANGED <<jobs, pc, outcome, got, mine, seen>>

-----------------------------------------------------------------------------
CallStep(c) == Poll(c) \/ Await(c) \/ CheckStatus(c) \/ Download(c)

Worker == RunTask \/ EndTask

Next ==
    \/ \E c \in Client : \/ Start(c) \/ StartLost(c) \/ StartRefused(c)
                         \/ SelectionRejected(c)
                         \/ Retrieve(c) \/ CallStep(c) \/ CallFails(c)
    \/ Worker

Spec == Init /\ [][Next]_vars

(* The worker ends every task, and a client that polls goes on polling.    *)
FairSpec ==
    /\ Spec
    /\ WF_vars(Worker)
    /\ \A c \in Client : WF_vars(CallStep(c))

-----------------------------------------------------------------------------
(* A client is never given the rulesets of a generation older than the one *)
(* it was told had started: a refused or lost start must be heard of.  And *)
(* they are those of the generation whose status it read, unless another   *)
(* was started since (start_async_ruleset_generation,                      *)
(* get_generated_rulesets).                                                *)
OwnRulesets ==
    \A c \in Client : got[c] # 0 =>
        /\ got[c] >= mine[c]
        /\ seen[c] = jobs => got[c] = seen[c]

(* A client that is told that a generation is finished but has no rulesets *)
(* is told the truth, unless another generation was started since it read  *)
(* the status (get_generated_rulesets, the status check before the         *)
(* download).                                                              *)
NoRulesetsIsTrue ==
    \A c \in Client : outcome[c] = "noRulesets" /\ seen[c] = jobs =>
        status = "finished" /\ empty

(* Every generation that is polled lets go of whoever polls it, or another *)
(* takes its place.  A loop on is_in_final_state is held for ever only by  *)
(* one that finished with warnings, the loop of the docstrings also by one *)
(* that failed (get_async_ruleset_generation_task_status,                  *)
(* get_final_states, start_async_ruleset_generation).  That nobody takes   *)
(* its place again and again is not promised.                              *)
PollingEndsUnlessWarned ==
    \A c \in Client, j \in 1..MaxJobs :
        /\ pc[c] = "polling" /\ jobs = j ~>
              pc[c] # "polling" \/ jobs # j \/ status = "finished_with_warnings"
        /\ pc[c] = "awaiting" /\ jobs = j ~>
              \/ pc[c] # "awaiting" \/ jobs # j
              \/ status \in {"finished_with_warnings", "failed"}

(* status.py:70 says that get_final_states returns the statuses of a       *)
(* generation that has completed, successfully or otherwise; one that      *)
(* finished with warnings is polled for ever.                              *)
PollingEnds == \A c \in Client : pc[c] = "polling" ~> pc[c] # "polling"
==============================================================================
