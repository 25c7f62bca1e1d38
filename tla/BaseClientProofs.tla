-------------------------- MODULE BaseClientProofs --------------------------
(***************************************************************************)
(* Proofs, for every set of tokens and of error statuses, that the client  *)
(* of BaseClient keeps its safety properties and implements ApiCall.       *)
(***************************************************************************)
EXTENDS BaseClient, TLAPS

(* What an answer means for the request it answers: success is one         *)
(* application, a client error none (Applications, the server's side of    *)
(* make_request).                                                          *)
LEMMA ApplicationsOfAnswer ==
    ASSUME NEW s \in Statuses, NEW e \in Applications(s)
    PROVE  /\ s \in Nat /\ s # 0
           /\ e \in {0, 1}
           /\ s = 200 => e = 1
           /\ s # 200 /\ s < 500 => e = 0
BY BaseClientAssumption DEF Statuses, Applications

(* A request that carries a token is answered 401 exactly when the server  *)
(* does not accept the token (Replies).                                    *)
LEMMA RepliesAreStatuses ==
    /\ Replies \subseteq Statuses
    /\ call.auth = "token" =>
          \A s \in Replies : s = 401 <=> token \notin valid
BY BaseClientAssumption DEF Replies, Statuses

(* The initial states satisfy the inductive invariant.                     *)
LEMMA InitInv == Init => BaseClientInv
BY DEF Init, BaseClientInv, TypeOK, AtMostOnce, WholeBodyDelivered,
       ContentInv, FaultFreeCallSucceeds, SendInv, RetryInv, CheckInv, InRetry,
       Calls

(* Every step of the client and of the server preserves it.                *)
LEMMA StepInv == BaseClientInv /\ [Next]_vars => BaseClientInv'
<1> SUFFICES ASSUME BaseClientInv, [Next]_vars PROVE BaseClientInv'
  OBVIOUS
<1> USE DEF BaseClientInv, TypeOK, AtMostOnce, WholeBodyDelivered,
            ContentInv, FaultFreeCallSucceeds, SendInv, RetryInv, CheckInv,
            InRetry
<1>1. ASSUME NEW c \in Calls, MakeRequest(c) PROVE BaseClientInv'
  BY <1>1 DEF MakeRequest
<1>2. CASE Exchange
  <2>a. PICK s \in Replies : \E e \in Applications(s) :
           /\ status' = s
           /\ effects' = effects + e
           /\ pc' = AfterAnswer(s)
           /\ faults' = IF s = 200 \/ (s = 401 /\ call.auth = "token")
                        THEN faults ELSE faults \cup {"answer"}
    BY <1>2 DEF Exchange
  <2>1. PICK e \in Applications(s) :
           /\ status' = s
           /\ effects' = effects + e
           /\ pc' = AfterAnswer(s)
           /\ faults' = IF s = 200 \/ (s = 401 /\ call.auth = "token")
                        THEN faults ELSE faults \cup {"answer"}
    BY <2>a
  <2>2. /\ s \in Statuses /\ s # 0 /\ effects = 0 /\ e \in {0, 1}
        /\ s = 200 => e = 1
        /\ s # 200 /\ s < 500 => e = 0
    BY <1>2, RepliesAreStatuses, ApplicationsOfAnswer DEF Exchange
  <2>3. pc' \in {"authenticate", "check"} /\ outcome' = "none"
    BY <1>2, <2>1 DEF Exchange, AfterAnswer
  <2>4. TypeOK'
    BY <1>2, <2>1, <2>2 DEF Exchange, AfterAnswer, NeedsReauth, Received,
                            HandleRead
  <2>5. WholeBodyDelivered' /\ ContentInv'
    BY <1>2 DEF Exchange, Received
  <2>6. RetryInv'
    BY <1>2, <2>1, <2>2, BaseClientAssumption
    DEF Exchange, AfterAnswer, NeedsReauth, Applications
  <2>7. CheckInv'
    <3>1. s = 401 /\ call.auth = "token" /\ pc' = "check" => faults # {}
      BY <1>2, <2>1, RepliesAreStatuses DEF Exchange, AfterAnswer, NeedsReauth
    <3>2. effects' = e
      BY <2>1, <2>2
    <3>3. pc' = "check" => (faults' = {} => status' = 200)
      BY <2>1, <3>1
    <3> QED BY <2>1, <2>2, <2>3, <3>2, <3>3
  <2> QED BY <2>1, <2>2, <2>3, <2>4, <2>5, <2>6, <2>7
<1>3. CASE LoseExchange
  <2>1. effects' \in {0, 1}
    BY <1>3, RepliesAreStatuses, ApplicationsOfAnswer DEF LoseExchange
  <2>2. WholeBodyDelivered' /\ ContentInv'
    <3>1. bodies' \in {bodies, bodies \cup {content}}
      BY <1>3 DEF LoseExchange, Received
    <3>2. UNCHANGED <<call, content>>
      BY <1>3 DEF LoseExchange
    <3> QED BY <3>1, <3>2
  <2>3. pc' = "idle" /\ outcome' = "transportError" /\ faults' # {}
    BY <1>3 DEF LoseExchange
  <2>4. TypeOK'
    <3>1. bodies' \subseteq {"whole", "empty"}
      <4>1. Received \subseteq {"whole", "empty"}
        BY DEF Received
      <4> QED BY <1>3, <4>1 DEF LoseExchange
    <3>2. /\ outcome' \in Outcomes /\ effects' \in Nat
          /\ pc' = "idle" /\ pos' = "end" /\ handle' \in {"start", "end"}
          /\ faults' = faults \cup {"transport"}
          /\ UNCHANGED <<login, token, call, status, content, valid>>
      BY <1>3, <2>1 DEF LoseExchange, Outcomes, HandleRead
    <3> QED BY <3>1, <3>2
  <2>5. AtMostOnce'
    BY <2>1
  <2> QED BY <2>2, <2>3, <2>4, <2>5
<1>4. CASE Authenticate
  BY <1>4 DEF Authenticate, TakeToken, uploadVars
<1>5. CASE AuthenticateFails
  BY <1>5 DEF AuthenticateFails, Outcomes, uploadVars
<1>6. CASE Rewind
  BY <1>6 DEF Rewind, Outcomes, Calls
<1>7. CASE Return
  <2>1. Verdict \in {"ok", "raw", "absent", "notReady", "apiError"}
    BY DEF Verdict
  <2>2. status = 200 => \/ Verdict = "ok"
                        \/ Verdict = "raw"
    BY DEF Verdict
  <2> QED BY <1>7, <2>1, <2>2 DEF Return, Outcomes, uploadVars
<1>8. CASE ExplicitAuthenticate
  BY <1>8 DEF ExplicitAuthenticate, TakeToken, uploadVars
<1>9. ASSUME NEW t \in Token, Revoke(t) PROVE BaseClientInv'
  BY <1>9 DEF Revoke, clientVars, uploadVars
<1>10. ASSUME NEW t \in Token, Grant(t) PROVE BaseClientInv'
  BY <1>10 DEF Grant, clientVars, uploadVars
<1>11. CASE Prepare
  BY <1>11 DEF Prepare, Prepared, Outcomes
<1>12. CASE OpenHandle
  BY <1>12 DEF OpenHandle, serverVars
<1>13. CASE UNCHANGED vars
  BY <1>13 DEF vars
<1> QED
  BY <1>1, <1>2, <1>3, <1>4, <1>5, <1>6, <1>7, <1>8, <1>9, <1>10,
     <1>11, <1>12, <1>13
  DEF Next, ClientStep

(* The inductive invariant holds in every reachable state.                 *)
THEOREM Invariance == Spec => []BaseClientInv
BY InitInv, StepInv, PTL DEF Spec

(* Types, and that only an authorized call is ever replayed.               *)
THEOREM TypeCorrect == Spec => []TypeOK
BY Invariance, PTL DEF BaseClientInv

(* The server carries the request of a call out at most once.              *)
THEOREM CallAppliedAtMostOnce == Spec => []AtMostOnce
BY Invariance, PTL DEF BaseClientInv

(* No attempt sends a stream that another has consumed, but for a text     *)
(* handle or pipe that the caller did not open anew.                       *)
THEOREM UploadsAreWhole == Spec => []WholeBodyDelivered
BY Invariance, PTL DEF BaseClientInv

(* An expired or missing token alone never fails a call.                   *)
THEOREM ExpiryIsInvisible == Spec => []FaultFreeCallSucceeds
BY Invariance, PTL DEF BaseClientInv

(* An anonymous call never logs in: the cached token outlives it.          *)
THEOREM AnonymousCallKeepsToken == Spec => AnonymousKeepsToken
<1>1. BaseClientInv /\ [Next]_vars =>
         [pc # "idle" /\ call.auth = "none" => UNCHANGED token]_vars
  <2> SUFFICES ASSUME BaseClientInv, Next, pc # "idle", call.auth = "none"
               PROVE  UNCHANGED token
    BY DEF vars
  <2>1. pc # "authenticate"
    BY DEF BaseClientInv, TypeOK, InRetry
  <2> QED
    BY <2>1 DEF Next, ClientStep, MakeRequest, Prepare, Exchange,
                LoseExchange, Authenticate, AuthenticateFails, Rewind, Return,
                ExplicitAuthenticate, OpenHandle, Revoke, Grant, clientVars
<1> QED BY <1>1, Invariance, PTL DEF Spec, AnonymousKeepsToken

-----------------------------------------------------------------------------
(* The client implements ApiCall.                                          *)

(* The initial states are initial states of ApiCall.                       *)
LEMMA InitImplements == Init => Api!ApiInit
BY DEF Init, Api!ApiInit, ResultOf

(* Every step is a step of ApiCall or leaves its variables alone.          *)
LEMMA StepImplements ==
    BaseClientInv /\ [Next]_vars => [Api!ApiNext]_(Api!apiVars)
<1> SUFFICES ASSUME BaseClientInv, [Next]_vars
             PROVE  Api!ApiNext \/ UNCHANGED Api!apiVars
  OBVIOUS
<1> USE DEF BaseClientInv, Api!apiVars
<1>1. ASSUME NEW c \in Calls, MakeRequest(c) PROVE Api!Begin
  BY <1>1 DEF MakeRequest, Api!Begin, ResultOf
<1>2. CASE Exchange
  <2>1. pc # "idle" /\ outcome = "none" /\ effects = 0
    BY <1>2 DEF Exchange, SendInv, RetryInv, InRetry
  <2>2. pc' # "idle" /\ outcome' = "none"
    BY <1>2, <2>1 DEF Exchange, AfterAnswer
  <2>3. effects' \in {0, 1}
    BY <1>2, <2>1, RepliesAreStatuses, ApplicationsOfAnswer DEF Exchange
  <2> QED BY <2>1, <2>2, <2>3 DEF Api!Apply, Api!ApiNext, ResultOf
<1>3. CASE LoseExchange
  <2>1. pc # "idle" /\ outcome = "none" /\ effects = 0
    BY <1>3 DEF LoseExchange, SendInv, RetryInv, InRetry
  <2>2. effects' \in {0, 1}
    BY <1>3, <2>1, RepliesAreStatuses, ApplicationsOfAnswer DEF LoseExchange
  <2>3. ResultOf' = "unknown" /\ pc' = "idle"
    BY <1>3 DEF LoseExchange, ResultOf
  <2> QED BY <2>1, <2>2, <2>3 DEF Api!Lose, Api!ApiNext
<1>4. CASE Authenticate
  BY <1>4 DEF Authenticate, ResultOf
<1>5. CASE AuthenticateFails
  <2>1. pc # "idle" /\ effects = 0 /\ effects' = 0 /\ pc' = "idle"
    BY <1>5 DEF AuthenticateFails, RetryInv, InRetry
  <2>2. ResultOf' \in {"refused", "unknown"}
    BY <1>5 DEF AuthenticateFails, ResultOf
  <2> QED BY <2>1, <2>2 DEF Api!Finish, Api!ApiNext
<1>6. CASE Rewind
  <2>1. CASE pc' = "idle"
    BY <1>6, <2>1 DEF Rewind, RetryInv, InRetry, ResultOf,
                      Api!Finish, Api!ApiNext
  <2>2. CASE pc' # "idle"
    BY <1>6, <2>2 DEF Rewind, ResultOf
  <2> QED BY <2>1, <2>2
<1>7. CASE Return
  <2>1. pc = "check" /\ pc' = "idle" /\ effects' = effects /\ status' = status
    BY <1>7 DEF Return
  <2>2. effects \in {0, 1} /\ status \in Nat /\ status # 0
    BY <2>1, BaseClientAssumption DEF CheckInv, TypeOK, AtMostOnce, Statuses
  <2>3. ResultOf' = "done" => effects = 1
    BY <1>7, <2>1, <2>2 DEF Return, ResultOf, Verdict, CheckInv
  <2>4. ResultOf' \in {"absent", "refused"} => effects = 0
    BY <1>7, <2>1, <2>2 DEF Return, ResultOf, Verdict, CheckInv
  <2>5. ResultOf' \in {"done", "absent", "refused", "unknown"}
    BY <1>7, <2>1 DEF Return, ResultOf, Verdict
  <2> QED BY <2>1, <2>3, <2>4, <2>5 DEF Api!Finish, Api!ApiNext
<1>8. CASE ExplicitAuthenticate
  BY <1>8 DEF ExplicitAuthenticate, ResultOf
<1>9. ASSUME NEW t \in Token, Revoke(t) \/ Grant(t)
      PROVE  UNCHANGED Api!apiVars
  BY <1>9 DEF Revoke, Grant, clientVars, ResultOf
<1>10. CASE Prepare
  <2>1. CASE pc' = "idle"
    BY <1>10, <2>1 DEF Prepare, SendInv, ResultOf, Api!Finish, Api!ApiNext
  <2>2. CASE pc' # "idle"
    BY <1>10, <2>2 DEF Prepare, ResultOf
  <2> QED BY <2>1, <2>2
<1>11. CASE OpenHandle
  BY <1>11 DEF OpenHandle, serverVars, ResultOf
<1>12. CASE UNCHANGED vars
  BY <1>12 DEF vars, ResultOf
<1> QED
  BY <1>1, <1>2, <1>3, <1>4, <1>5, <1>6, <1>7, <1>8, <1>9, <1>10, <1>11, <1>12
  DEF Next, ClientStep, Api!ApiNext

(* Whatever tokens and errors there are, a caller of make_request may rely *)
(* on ApiCall.                                                             *)
THEOREM ApiCallImplemented == Spec => ImplementsApiCall
BY InitImplements, StepImplements, Invariance, PTL
DEF Spec, ImplementsApiCall, Api!ApiSpec
=============================================================================
