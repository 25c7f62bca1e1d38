--------------------------- MODULE IfmClientProofs ---------------------------
(***************************************************************************)
(* Proofs, for every set of tokens and of error statuses, that the client  *)
(* of IfmClient keeps its safety properties and implements ApiCall.        *)
(***************************************************************************)
EXTENDS IfmClient, TLAPS

(* What an answer means for the request it answers (Applications, the      *)
(* service's side of _make_request).                                       *)
LEMMA ApplicationsOfAnswer ==
    ASSUME NEW s \in Statuses, NEW e \in Applications(s)
    PROVE  /\ s \in Nat /\ s # 0
           /\ e \in {0, 1}
           /\ s = 200 => e = 1
           /\ s # 200 /\ s < 500 => e = 0
BY IfmClientAssumption DEF Statuses, Applications

(* A request is answered 401 exactly when its access token is not accepted *)
(* (Replies).                                                              *)
LEMMA RepliesAreStatuses ==
    /\ Replies \subseteq Statuses
    /\ \A s \in Replies : s = 401 <=> access \notin validAccess
BY IfmClientAssumption DEF Replies, Statuses

(* The place of the call after a first 401 (_refresh_or_reauth).           *)
LEMMA RenewalPlace ==
    /\ Renewal \in {"refresh", "relogin"}
    /\ Renewal = "refresh" <=> login # "source" /\ refresh # NoToken
BY DEF Renewal

(* The initial states satisfy the inductive invariant.                     *)
LEMMA InitInv == Init => IfmClientInv
BY DEF Init, IfmClientInv, TypeOK, AtMostOnce, FaultFreeCallSucceeds,
       RequestsCarryToken, NoNeedlessLogin, EarlyInv, CheckInv, TokenInv,
       Contents

(* Every step of the client and of the servers preserves it.               *)
LEMMA StepInv == IfmClientInv /\ [Next]_vars => IfmClientInv'
<1> SUFFICES ASSUME IfmClientInv, [Next]_vars PROVE IfmClientInv'
  OBVIOUS
<1> USE DEF IfmClientInv, TypeOK, AtMostOnce, FaultFreeCallSucceeds,
            RequestsCarryToken, NoNeedlessLogin, EarlyInv, CheckInv, TokenInv
<1>1. ASSUME NEW c \in {"plan", "mask"}, MakeRequest(c) PROVE IfmClientInv'
  BY <1>1 DEF MakeRequest, FirstStep, Contents
<1>2. CASE Exchange
  <2>1. PICK s \in Replies : \E e \in Applications(s) :
           /\ status' = s
           /\ content' \in ContentsOf(s)
           /\ effects' = effects + e
           /\ pc' = AfterAnswer(s)
           /\ faults' = IF s \in {200, 401}
                        THEN faults ELSE faults \cup {"answer"}
    BY <1>2 DEF Exchange
  <2>2. PICK e \in Applications(s) : effects' = effects + e
    BY <2>1
  <2>3. /\ s \in Statuses /\ s # 0 /\ effects = 0 /\ e \in {0, 1}
        /\ effects' = e
        /\ s = 200 => e = 1
        /\ s # 200 /\ s < 500 => e = 0
    BY <1>2, <2>2, RepliesAreStatuses, ApplicationsOfAnswer DEF Exchange
  <2>4. /\ pc' \in {"refresh", "relogin", "check"}
        /\ pc' = "refresh" => login = "password" /\ refresh # NoToken
        /\ pc' = "relogin" /\ refresh # NoToken => login = "source"
        /\ pc' # "check" => pc = "send" /\ s = 401
    BY <1>2, <2>1, RenewalPlace DEF Exchange, AfterAnswer, Renewal
  <2>5. /\ content' \in Contents /\ content' \in ContentsOf(s)
    BY <2>1 DEF ContentsOf, Contents
  <2>6. s = 401 /\ pc' = "check" => faults # {}
    BY <1>2, <2>1, RepliesAreStatuses, RenewalPlace DEF Exchange, AfterAnswer
  <2>7. TypeOK'
    BY <1>2, <2>1, <2>3, <2>4, <2>5 DEF Exchange
  <2>8. EarlyInv'
    <3>1. pc' # "check" => faults' = faults /\ effects' = 0
      BY <2>1, <2>3, <2>4
    <3> QED BY <1>2, <2>4, <3>1 DEF Exchange
  <2>9. CheckInv'
    <3>1. pc' = "check" => (faults' = {} => status' = 200)
      BY <2>1, <2>6
    <3> QED BY <2>1, <2>3, <2>5, <3>1
  <2>10. TokenInv' /\ RequestsCarryToken' /\ NoNeedlessLogin'
    BY <1>2, <2>4 DEF Exchange
  <2> QED BY <2>3, <2>4, <2>7, <2>8, <2>9, <2>10
<1>3. CASE LoseExchange
  <2>1. effects' \in {0, 1}
    BY <1>3, RepliesAreStatuses, ApplicationsOfAnswer DEF LoseExchange
  <2>2. /\ pc' = "idle" /\ outcome' = "transportError"
        /\ faults' = faults \cup {"transport"}
        /\ UNCHANGED <<login, access, refresh, call, status, content,
                       validAccess, validRefresh>>
    BY <1>3 DEF LoseExchange
  <2>3. TypeOK' /\ AtMostOnce'
    BY <2>1, <2>2 DEF Outcomes
  <2> QED BY <2>2, <2>3
<1>4. CASE Refresh
  BY <1>4, IfmClientAssumption DEF Refresh, AfterToken
<1>5. CASE RefreshRefused
  BY <1>5 DEF RefreshRefused
<1>6. CASE Authenticate
  <2>1. PICK a \in Token, r \in Token \cup {NoToken} :
           /\ TakeTokens(a, r)
           /\ faults' = IF a \in validAccess' THEN faults
                        ELSE faults \cup {"source"}
    BY <1>6 DEF Authenticate
  <2>2. /\ pc' \in {"send", "resend"} /\ outcome' = "none"
        /\ access' = a /\ refresh' = r /\ access' # NoToken
        /\ faults' = {} => access' \in validAccess'
        /\ pc' = "send" => faults' \subseteq {"source"}
        /\ UNCHANGED <<login, call, status, content, outcome, effects>>
    BY <1>6, <2>1, IfmClientAssumption DEF Authenticate, AfterToken, TakeTokens
  <2>3. /\ validAccess' \subseteq Token /\ validRefresh' \subseteq Token
        /\ NoToken \notin validRefresh'
        /\ login = "source" => refresh' = NoToken
    BY <2>1, IfmClientAssumption DEF TakeTokens
  <2>4. faults' \subseteq {"answer", "transport", "login", "source", "revoked"}
    BY <2>1
  <2>5. effects = 0
    BY <1>6 DEF Authenticate
  <2> QED BY <2>2, <2>3, <2>4, <2>5
<1>7. CASE AuthenticateFails
  BY <1>7 DEF AuthenticateFails, Outcomes
<1>8. CASE Return
  <2>1. Verdict \in {"ok", "softFailure", "notReady", "apiError", "decodeError"}
    BY DEF Verdict
  <2>2. status = 200 /\ content \in ContentsOf(status) => Verdict = "ok"
    BY DEF Verdict, ContentsOf
  <2> QED BY <1>8, <2>1, <2>2 DEF Return, Outcomes
<1>9. CASE ExplicitAuthenticate
  <2>1. PICK a \in Token, r \in Token \cup {NoToken} : TakeTokens(a, r)
    BY <1>9 DEF ExplicitAuthenticate
  <2>2. /\ validAccess' \subseteq Token /\ validRefresh' \subseteq Token
        /\ NoToken \notin validRefresh'
        /\ access' = a /\ refresh' = r
        /\ login = "source" => refresh' = NoToken
    BY <2>1, IfmClientAssumption DEF TakeTokens
  <2> QED BY <1>9, <2>2 DEF ExplicitAuthenticate
<1>10. ASSUME NEW t \in Token, ExpireAccess(t) PROVE IfmClientInv'
  BY <1>10 DEF ExpireAccess, clientVars
<1>11. ASSUME NEW t \in Token, ExpireRefresh(t) PROVE IfmClientInv'
  BY <1>11 DEF ExpireRefresh, clientVars
<1>12. ASSUME NEW t \in Token, Grant(t) PROVE IfmClientInv'
  BY <1>12 DEF Grant, clientVars
<1>13. CASE UNCHANGED vars
  BY <1>13 DEF vars
<1> QED
  BY <1>1, <1>2, <1>3, <1>4, <1>5, <1>6, <1>7, <1>8, <1>9, <1>10, <1>11,
     <1>12, <1>13
  DEF Next, ClientStep

(* The inductive invariant holds in every reachable state.                 *)
THEOREM Invariance == Spec => []IfmClientInv
BY InitInv, StepInv, PTL DEF Spec

(* Types, and that the refresh endpoint is only called with a token.       *)
THEOREM TypeCorrect == Spec => []TypeOK
BY Invariance, PTL DEF IfmClientInv

(* The IFM service carries the request of a call out at most once.         *)
THEOREM CallAppliedAtMostOnce == Spec => []AtMostOnce
BY Invariance, PTL DEF IfmClientInv

(* Expired tokens alone never fail a call.                                 *)
THEOREM ExpiryIsInvisible == Spec => []FaultFreeCallSucceeds
BY Invariance, PTL DEF IfmClientInv

(* No request goes out without an access token.                            *)
THEOREM AllRequestsCarryToken == Spec => []RequestsCarryToken
BY Invariance, PTL DEF IfmClientInv

(* A call opens no login session while its refresh token would do.         *)
THEOREM LoginsAreNeeded == Spec => []NoNeedlessLogin
BY Invariance, PTL DEF IfmClientInv

-----------------------------------------------------------------------------
(* The client implements ApiCall.                                          *)

(* The initial states are initial states of ApiCall.                       *)
LEMMA InitImplements == Init => Api!ApiInit
BY DEF Init, Api!ApiInit, ResultOf

(* Every step is a step of ApiCall or leaves its variables alone.          *)
LEMMA StepImplements ==
    IfmClientInv /\ [Next]_vars => [Api!ApiNext]_(Api!apiVars)
<1> SUFFICES ASSUME IfmClientInv, [Next]_vars
             PROVE  Api!ApiNext \/ UNCHANGED Api!apiVars
  OBVIOUS
<1> USE DEF IfmClientInv, Api!apiVars
<1>1. ASSUME NEW c \in {"plan", "mask"}, MakeRequest(c) PROVE Api!Begin
  BY <1>1 DEF MakeRequest, FirstStep, Api!Begin, ResultOf
<1>2. CASE Exchange
  <2>1. pc # "idle" /\ outcome = "none" /\ effects = 0
    BY <1>2 DEF Exchange, EarlyInv
  <2>2. pc' # "idle" /\ outcome' = "none"
    BY <1>2, <2>1, RenewalPlace DEF Exchange, AfterAnswer
  <2>3. effects' \in {0, 1}
    BY <1>2, <2>1, RepliesAreStatuses, ApplicationsOfAnswer DEF Exchange
  <2> QED BY <2>1, <2>2, <2>3 DEF Api!Apply, Api!ApiNext, ResultOf
<1>3. CASE LoseExchange
  <2>1. pc # "idle" /\ effects = 0
    BY <1>3 DEF LoseExchange, EarlyInv
  <2>2. effects' \in {0, 1}
    BY <1>3, <2>1, RepliesAreStatuses, ApplicationsOfAnswer DEF LoseExchange
  <2>3. ResultOf' = "unknown" /\ pc' = "idle"
    BY <1>3 DEF LoseExchange, ResultOf
  <2> QED BY <2>1, <2>2, <2>3 DEF Api!Lose, Api!ApiNext
<1>4. CASE Refresh \/ RefreshRefused \/ Authenticate
  BY <1>4 DEF Refresh, RefreshRefused, Authenticate, AfterToken, ResultOf
<1>5. CASE AuthenticateFails
  <2>1. pc # "idle" /\ effects = 0 /\ effects' = 0 /\ pc' = "idle"
    BY <1>5 DEF AuthenticateFails, EarlyInv
  <2>2. ResultOf' = "refused"
    BY <1>5 DEF AuthenticateFails, ResultOf
  <2> QED BY <2>1, <2>2 DEF Api!Finish, Api!ApiNext
<1>6. CASE Return
  <2>1. pc = "check" /\ pc' = "idle" /\ effects' = effects /\ status' = status
    BY <1>6 DEF Return
  <2>2. effects \in {0, 1} /\ status \in Nat /\ status # 0
    BY <2>1, IfmClientAssumption DEF CheckInv, TypeOK, AtMostOnce, Statuses
  <2>3. ResultOf' = "done" => effects = 1
    BY <1>6, <2>1, <2>2 DEF Return, ResultOf, Verdict, CheckInv
  <2>4. ResultOf' = "refused" => effects = 0
    <3>1. content \in ContentsOf(status)
      BY <2>1 DEF CheckInv
    <3> QED BY <1>6, <2>1, <2>2, <3>1
            DEF Return, ResultOf, Verdict, CheckInv, ContentsOf
  <2>5. ResultOf' \in {"done", "refused", "unknown"}
    BY <1>6, <2>1 DEF Return, ResultOf, Verdict
  <2> QED BY <2>1, <2>3, <2>4, <2>5 DEF Api!Finish, Api!ApiNext
<1>7. CASE ExplicitAuthenticate
  BY <1>7 DEF ExplicitAuthenticate, ResultOf
<1>8. ASSUME NEW t \in Token, ExpireAccess(t) \/ ExpireRefresh(t) \/ Grant(t)
      PROVE  UNCHANGED Api!apiVars
  BY <1>8 DEF ExpireAccess, ExpireRefresh, Grant, clientVars, ResultOf
<1>9. CASE UNCHANGED vars
  BY <1>9 DEF vars, ResultOf
<1> QED
  BY <1>1, <1>2, <1>3, <1>4, <1>5, <1>6, <1>7, <1>8, <1>9
  DEF Next, ClientStep, Api!ApiNext

(* Whatever tokens and errors there are, a caller of the IFM client may    *)
(* rely on ApiCall.                                                        *)
THEOREM ApiCallImplemented == Spec => ImplementsApiCall
BY InitImplements, StepImplements, Invariance, PTL
DEF Spec, ImplementsApiCall, Api!ApiSpec
==============================================================================
