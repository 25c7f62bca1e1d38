------------------------ MODULE RulesetGenerationProofs ------------------------
(***************************************************************************)
(* Theorems of RulesetGeneration, for any clients and any number of        *)
(* generations.  The invariants need what ties a download to the status    *)
(* read before it: as long as no other generation has been started, the    *)
(* task that was finished still is.                                        *)
(***************************************************************************)
EXTENDS RulesetGeneration, TLAPS

Control ==
    /\ status # "none" => jobs # 0
    /\ \A c \in Client :
          /\ pc[c] # "idle" => got[c] = 0 /\ outcome[c] # "noRulesets"
          /\ pc[c] = "download" /\ seen[c] = jobs => status = "finished"

IInv == TypeOK /\ OwnRulesets /\ NoRulesetsIsTrue /\ Control

LEMMA InitInv == Init => IInv
  <1> SUFFICES ASSUME Init PROVE IInv
    OBVIOUS
  <1>1. empty \in BOOLEAN
    BY Zenon DEF Init
  <1>2. QED
    BY <1>1, RulesetGenerationAssumption
    DEF Init, IInv, TypeOK, OwnRulesets, NoRulesetsIsTrue, Control, Statuses, Outcomes

(* A generation is started, and its caller told or not.                    *)
LEMMA StartKeepsInv ==
    ASSUME NEW c \in Client, IInv, Start(c) \/ StartLost(c)
    PROVE  IInv'
  <1> USE RulesetGenerationAssumption
  <1>1. empty' \in BOOLEAN
    BY Zenon DEF Start, StartLost
  <1>2. CASE Start(c)
    BY <1>1, <1>2
    DEF Start, Becomes, IInv, TypeOK, OwnRulesets, NoRulesetsIsTrue, Control,
        Statuses, Outcomes
  <1>3. CASE StartLost(c)
    BY <1>1, <1>3
    DEF StartLost, Becomes, IInv, TypeOK, OwnRulesets, NoRulesetsIsTrue, Control,
        Statuses, Outcomes
  <1>4. QED
    BY <1>2, <1>3

(* Calls that change nothing on the server and fetch nothing.              *)
LEMMA CallsKeepInv ==
    ASSUME NEW c \in Client, IInv,
           \/ StartRefused(c) \/ SelectionRejected(c) \/ Retrieve(c)
           \/ Poll(c) \/ Await(c) \/ CallFails(c)
    PROVE  IInv'
  <1> USE RulesetGenerationAssumption
      DEF Becomes, IInv, TypeOK, OwnRulesets, NoRulesetsIsTrue, Control,
          Statuses, Outcomes, serverVars
  <1>1. CASE StartRefused(c)
    BY <1>1 DEF StartRefused
  <1>2. CASE SelectionRejected(c)
    BY <1>2 DEF SelectionRejected
  <1>3. CASE Retrieve(c)
    BY <1>3 DEF Retrieve
  <1>4. CASE Poll(c)
    BY <1>4 DEF Poll
  <1>5. CASE CallFails(c)
    BY <1>5 DEF CallFails
  <1>6. CASE Await(c)
    BY <1>6 DEF Await
  <1>7. QED
    BY <1>1, <1>2, <1>3, <1>4, <1>5, <1>6

(* The two steps of get_generated_rulesets.                                *)
LEMMA FetchKeepsInv ==
    ASSUME NEW c \in Client, IInv, CheckStatus(c) \/ Download(c)
    PROVE  IInv'
  <1> USE RulesetGenerationAssumption
      DEF Becomes, IInv, TypeOK, OwnRulesets, NoRulesetsIsTrue, Control,
          Statuses, Outcomes, serverVars
  <1>1. CASE CheckStatus(c)
    BY <1>1 DEF CheckStatus
  <1>2. CASE Download(c) /\ status = "finished" /\ ~empty
    BY <1>2 DEF Download
  <1>3. CASE Download(c) /\ ~(status = "finished" /\ ~empty)
    BY <1>3 DEF Download
  <1>4. QED
    BY <1>1, <1>2, <1>3

(* The worker: a task that is finished is left alone.                      *)
LEMMA WorkerKeepsInv ==
    ASSUME IInv, Worker
    PROVE  IInv'
  BY RulesetGenerationAssumption
  DEF Worker, RunTask, EndTask, AllEndings, IInv, TypeOK, OwnRulesets,
      NoRulesetsIsTrue, Control, Statuses, Outcomes

LEMMA StepInv == IInv /\ [Next]_vars => IInv'
  <1> SUFFICES ASSUME IInv, [Next]_vars PROVE IInv'
    OBVIOUS
  <1>1. CASE \E c \in Client : Start(c) \/ StartLost(c)
    BY <1>1, StartKeepsInv
  <1>2. CASE \E c \in Client : \/ StartRefused(c) \/ SelectionRejected(c)
                               \/ Retrieve(c) \/ Poll(c) \/ Await(c)
                               \/ CallFails(c)
    BY <1>2, CallsKeepInv
  <1>3. CASE \E c \in Client : CheckStatus(c) \/ Download(c)
    BY <1>3, FetchKeepsInv
  <1>4. CASE Worker
    BY <1>4, WorkerKeepsInv
  <1>5. CASE UNCHANGED vars
    BY <1>5 DEF vars, IInv, TypeOK, OwnRulesets, NoRulesetsIsTrue, Control
  <1>6. QED
    BY <1>1, <1>2, <1>3, <1>4, <1>5 DEF Next, CallStep

(* The inductive invariant holds in every reachable state.                 *)
THEOREM InvariantHolds == Spec => []IInv
  BY InitInv, StepInv, PTL DEF Spec

(* Every reachable state is well typed, and a client to whom rulesets are  *)
(* returned has been given some (get_generated_rulesets).                  *)
THEOREM TypeCorrect == Spec => []TypeOK
  <1>1. IInv => TypeOK
    BY DEF IInv
  <1>2. QED
    BY InvariantHolds, <1>1, PTL

(* However many clients start generations on the connection, none is given *)
(* rulesets older than the generation it was told had started, or others   *)
(* than those whose status it read, unless a new one was started since     *)
(* (start_async_ruleset_generation, get_generated_rulesets).               *)
THEOREM RulesetsAreOwn == Spec => []OwnRulesets
  <1>1. IInv => OwnRulesets
    BY DEF IInv
  <1>2. QED
    BY InvariantHolds, <1>1, PTL

(* A client that is told of no rulesets is told the truth, unless a new    *)
(* generation was started since it read the status                         *)
(* (get_generated_rulesets).                                               *)
THEOREM NoRulesetsTrue == Spec => []NoRulesetsIsTrue
  <1>1. IInv => NoRulesetsIsTrue
    BY DEF IInv
  <1>2. QED
    BY InvariantHolds, <1>1, PTL
================================================================================
