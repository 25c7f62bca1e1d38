------------------------------ MODULE IfmClient ------------------------------
(***************************************************************************)
(* One DataMasqueIfmClient, the thread that calls it, the admin server     *)
(* that issues its tokens and the IFM service that it calls: client/ifm.py.*)
(*                                                                         *)
(* Unlike DataMasqueClient it logs in before its first request, and        *)
(* holds two tokens: the access token every request carries and the        *)
(* refresh token that buys a new access token.  On a 401 it refreshes, or  *)
(* logs in when it has no refresh token or the refresh is refused, and     *)
(* sends the request once more.  Both kinds of token may expire between    *)
(* any two steps, and any exchange may be refused, fail or be lost.        *)
(*                                                                         *)
(* 200 stands for every status below 400.  A token that no client holds is *)
(* as good as a new one.                                                   *)
(***************************************************************************)
EXTENDS Naturals

CONSTANTS Token,    \* the tokens the admin server may issue
          NoToken,  \* the class attributes access_token = refresh_token = ""
          Errors    \* the error statuses the servers answer, 401 apart

ASSUME IfmClientAssumption ==
    /\ NoToken \notin Token
    /\ Errors \subseteq (400..599) \ {401}

VARIABLES login,    \* how the client logs in: "password" or "source"
          access,   \* self.access_token
          refresh,  \* self.refresh_token
          pc,       \* where the call is in _make_request or in mask
          call,     \* "plan" (verify_token, the plan methods) or "mask"
          status,   \* status of the last answer the call looked at, 0 if none
          content,  \* what that answer carries
          outcome,  \* what the last call returned or raised
          validAccess,   \* IFM: the access tokens it accepts
          validRefresh,  \* admin server: the refresh tokens it accepts
          effects,  \* IFM: how often it carried this call's request out
          faults    \* history: what went wrong around this call

clientVars == <<login, access, refresh, pc, call, status, content, outcome>>
vars == <<login, access, refresh, pc, call, status, content, outcome,
          validAccess, validRefresh, effects, faults>>

Statuses == {200, 401} \cup Errors
Outcomes == {"ok", "softFailure", "notReady", "apiError", "decodeError",
             "authError", "sourceError", "transportError"}

(* "result" is a whole IfmMaskResult, "json" any other JSON object, "html" *)
(* a page of a proxy, "none" an empty body.                                *)
Contents == {"result", "json", "html", "none"}

(* Types, and that the refresh endpoint is only called with a refresh      *)
(* token (ifm.py, _refresh_or_reauth).                                     *)
TypeOK ==
    /\ login \in {"password", "source"}
    /\ access \in Token \cup {NoToken}
    /\ refresh \in Token \cup {NoToken}
    /\ pc \in {"idle", "login", "send", "refresh", "relogin", "resend", "check"}
    /\ call \in {"plan", "mask"}
    /\ status \in Statuses \cup {0}
    /\ content \in Contents
    /\ outcome \in Outcomes \cup {"none"}
    /\ validAccess \subseteq Token
    /\ validRefresh \subseteq Token
    /\ effects \in Nat
    /\ faults \subseteq {"answer", "transport", "login", "source", "revoked"}
    /\ pc = "refresh" => refresh # NoToken

Init ==
    /\ login \in {"password", "source"}
    /\ access = NoToken
    /\ refresh = NoToken
    /\ pc = "idle"
    /\ call = "plan"
    /\ status = 0
    /\ content = "none"
    /\ outcome = "none"
    /\ validAccess \in SUBSET Token
    /\ validRefresh = {}
    /\ effects = 0
    /\ faults = {}

-----------------------------------------------------------------------------
(* The IFM service's side of an exchange.                                  *)

Replies == IF access \in validAccess THEN Statuses \ {401} ELSE {401}

(* A client error was refused; a server error may strike after the work.   *)
Applications(s) ==
    IF s = 200 THEN {1} ELSE IF s < 500 THEN {0} ELSE {0, 1}

(* Success carries JSON, a 400 of the service a mask result or an error,   *)
(* anything else may come from the proxy in front of it.                   *)
ContentsOf(s) ==
    IF s = 200 THEN {"result"}
    ELSE IF s = 400 THEN {"result", "json"}
    ELSE {"json", "html", "none"}

-----------------------------------------------------------------------------
(* _make_request.                                                          *)

(* The first step of a call: a client that has no token logs in first.     *)
FirstStep == IF access = NoToken THEN "login" ELSE "send"

MakeRequest(c) ==
    /\ pc = "idle"
    /\ pc' = FirstStep
    /\ call' = c
    /\ status' = 0
    /\ content' = "none"
    /\ outcome' = "none"
    /\ effects' = 0
    /\ faults' = {}
    /\ UNCHANGED <<login, access, refresh, validAccess, validRefresh>>

(* The operators named M_... are faults a change of this code could bring  *)
(* in; each property is shown to notice one of them.                       *)
M_AlwaysRelogin == "relogin"
M_RefreshWithoutToken == IF login = "source" THEN "relogin" ELSE "refresh"

(* _refresh_or_reauth: the refresh token is used when there is one.        *)
Renewal ==
    IF login = "source" \/ refresh = NoToken THEN "relogin" ELSE "refresh"

M_ReplayForever(s) == IF s = 401 THEN Renewal ELSE "check"

(* A first answer of 401 renews the access token, any other is final.      *)
AfterAnswer(s) == IF pc = "send" /\ s = 401 THEN Renewal ELSE "check"

Exchange ==
    /\ pc \in {"send", "resend"}
    /\ \E s \in Replies : \E e \in Applications(s) :
          /\ status' = s
          /\ content' \in ContentsOf(s)
          /\ effects' = effects + e
          /\ pc' = AfterAnswer(s)
          /\ faults' = IF s \in {200, 401}
                       THEN faults ELSE faults \cup {"answer"}
    /\ UNCHANGED <<login, access, refresh, call, outcome,
                   validAccess, validRefresh>>

(* The request, the refresh or the login never arrives, or its answer.     *)
LoseExchange ==
    /\ \/ pc \in {"send", "resend"} /\ UNCHANGED effects
       \/ pc \in {"send", "resend"}
          /\ \E s \in Replies : \E e \in Applications(s) : effects' = effects + e
       \/ pc = "refresh" /\ UNCHANGED effects
       \/ pc \in {"login", "relogin"} /\ login = "password" /\ UNCHANGED effects
    /\ pc' = "idle"
    /\ outcome' = "transportError"
    /\ faults' = faults \cup {"transport"}
    /\ UNCHANGED <<login, access, refresh, call, status, content,
                   validAccess, validRefresh>>

(* The step that follows a token that was just obtained.                   *)
AfterToken == IF pc = "login" THEN "send" ELSE "resend"

M_RefreshAnswerDropped ==
    /\ pc = "refresh"
    /\ refresh \in validRefresh
    /\ \E t \in Token \ {access, refresh} : validAccess' = validAccess \cup {t}
    /\ pc' = AfterToken
    /\ UNCHANGED <<login, access, refresh, call, status, content, outcome,
                   validRefresh, effects, faults>>

(* The refresh token buys a new access token.                              *)
Refresh ==
    /\ pc = "refresh"
    /\ refresh \in validRefresh
    /\ \E t \in Token \ {access, refresh} :
          /\ access' = t
          /\ validAccess' = validAccess \cup {t}
    /\ pc' = AfterToken
    /\ UNCHANGED <<login, refresh, call, status, content, outcome,
                   validRefresh, effects, faults>>

(* The refresh is refused, because the refresh token expired or because    *)
(* the admin server is in trouble: fall back to a full login.              *)
RefreshRefused ==
    /\ pc = "refresh"
    /\ faults' = IF refresh \in validRefresh THEN faults \cup {"login"} ELSE faults
    /\ pc' = "relogin"
    /\ UNCHANGED <<login, access, refresh, call, status, content, outcome,
                   validAccess, validRefresh, effects>>

(* authenticate() with access token a and refresh token r, which the       *)
(* admin server may leave out of its answer.  A token_source hands out     *)
(* what it has, which the service may no longer accept.                    *)
TakeTokens(a, r) ==
    /\ access' = a
    /\ refresh' = r
    /\ \/ /\ login = "password"
          /\ a # r
          /\ a \in validAccess \/ a \notin {access, refresh}
          /\ r \in validRefresh \cup {NoToken} \/ r \notin {access, refresh}
          /\ validAccess' = validAccess \cup {a}
          /\ validRefresh' = (validRefresh \cup {r}) \ {NoToken}
       \/ /\ login = "source"
          /\ r = NoToken
          /\ UNCHANGED <<validAccess, validRefresh>>

Authenticate ==
    /\ pc \in {"login", "relogin"}
    /\ \E a \in Token, r \in Token \cup {NoToken} :
          /\ TakeTokens(a, r)
          /\ faults' = IF a \in validAccess' THEN faults
                       ELSE faults \cup {"source"}
    /\ pc' = AfterToken
    /\ UNCHANGED <<login, call, status, content, outcome, effects>>

(* authenticate() raises IfmAuthError, or what the token_source raises.    *)
AuthenticateFails ==
    /\ pc \in {"login", "relogin"}
    /\ pc' = "idle"
    /\ outcome' = IF login = "password" THEN "authError" ELSE "sourceError"
    /\ faults' = faults \cup {"login"}
    /\ UNCHANGED <<login, access, refresh, call, status, content,
                   validAccess, validRefresh, effects>>

M_ErrorsAreResults ==
    IF call = "mask" /\ content = "html" THEN "decodeError"
    ELSE IF status = 200 \/ call = "mask" THEN "ok"
    ELSE IF status = 502 THEN "notReady"
    ELSE "apiError"

(* The status check of _make_request, and mask, which decodes the answer   *)
(* before it looks at the status.                                          *)
Verdict ==
    IF call = "mask" /\ content = "html" THEN "decodeError"
    ELSE IF status = 200 THEN "ok"
    ELSE IF call = "mask" /\ status = 400 /\ content = "result" THEN "softFailure"
    ELSE IF status = 502 THEN "notReady"
    ELSE "apiError"

Return ==
    /\ pc = "check"
    /\ outcome' = Verdict
    /\ pc' = "idle"
    /\ UNCHANGED <<login, access, refresh, call, status, content,
                   validAccess, validRefresh, effects, faults>>

(* The caller may log in without a request.                                *)
ExplicitAuthenticate ==
    /\ pc = "idle"
    /\ \E a \in Token, r \in Token \cup {NoToken} : TakeTokens(a, r)
    /\ UNCHANGED <<login, pc, call, status, content, outcome, effects, faults>>

-----------------------------------------------------------------------------
(* The servers on their own: a token expires, or a source is given one.    *)

ExpireAccess(t) ==
    /\ t \in validAccess
    /\ validAccess' = validAccess \ {t}
    /\ faults' = IF pc = "resend" /\ t = access
                 THEN faults \cup {"revoked"} ELSE faults
    /\ UNCHANGED <<clientVars, validRefresh, effects>>

ExpireRefresh(t) ==
    /\ t \in validRefresh
    /\ validRefresh' = validRefresh \ {t}
    /\ UNCHANGED <<clientVars, validAccess, effects, faults>>

Grant(t) ==
    /\ t \in Token \ (validAccess \cup {access, refresh})
    /\ validAccess' = validAccess \cup {t}
    /\ UNCHANGED <<clientVars, validRefresh, effects, faults>>

-----------------------------------------------------------------------------
ClientStep == \/ Exchange \/ LoseExchange
              \/ Refresh \/ RefreshRefused
              \/ Authenticate \/ AuthenticateFails
              \/ Return

Next ==
    \/ \E c \in {"plan", "mask"} : MakeRequest(c)
    \/ ClientStep
    \/ ExplicitAuthenticate
    \/ \E t \in Token : ExpireAccess(t) \/ ExpireRefresh(t) \/ Grant(t)

Spec == Init /\ [][Next]_vars

(* The calling thread keeps running, and every exchange is answered or     *)
(* breaks: the session sets no timeout.  Nothing is assumed of when tokens *)
(* expire.                                                                 *)
FairSpec == Spec /\ WF_vars(ClientStep)

-----------------------------------------------------------------------------
(* However tokens expire, the IFM service carries the request of one call  *)
(* out at most once (_make_request replays only what was answered 401).    *)
AtMostOnce == effects <= 1

(* Expired access and refresh tokens, in any combination, are invisible to *)
(* the caller: when no exchange fails and no new token dies before its     *)
(* first use, the call succeeds (_make_request, _refresh_or_reauth).       *)
FaultFreeCallSucceeds ==
    pc = "idle" /\ outcome # "none" /\ faults = {} => outcome = "ok"

(* No request goes out without an access token (_make_request, the login   *)
(* before the first send).                                                 *)
RequestsCarryToken == pc \in {"send", "resend"} => access # NoToken

(* A call opens a new login session to replay its request only when its    *)
(* refresh token is of no use any more (_refresh_or_reauth).               *)
NoNeedlessLogin ==
    pc = "relogin" /\ faults = {} => refresh \notin validRefresh

(* Every call returns or raises after at most one replay, even when tokens *)
(* expire as fast as they are issued (_make_request).                      *)
CallReturns == pc # "idle" ~> pc = "idle"

(* What the caller learns of a finished call in the terms of ApiCall.      *)
ResultOf ==
    IF outcome = "none" THEN "none"
    ELSE IF outcome \in {"authError", "sourceError"} THEN "refused"
    ELSE IF outcome = "ok" THEN "done"
    ELSE IF outcome = "transportError" \/ status >= 500 THEN "unknown"
    ELSE "refused"

Api == INSTANCE ApiCall WITH
           phase <- IF pc = "idle" THEN "idle" ELSE "calling",
           result <- ResultOf,
           applied <- effects

(* The IFM client keeps what ApiCall promises, mask included: a result     *)
(* with success means the plan was executed exactly once, a soft failure   *)
(* or a client error that it was not (_make_request, mask).                *)
ImplementsApiCall == Api!ApiSpec

-----------------------------------------------------------------------------
(* The inductive invariant behind the safety properties, by the place of   *)
(* the call.                                                               *)

EarlyInv ==
    /\ pc # "idle" => outcome = "none"
    /\ pc \notin {"idle", "check"} => effects = 0
    /\ pc \in {"login", "send", "refresh"} => faults \subseteq {"source"}
    /\ pc = "resend" /\ faults = {} => access \in validAccess

CheckInv ==
    pc = "check" => /\ status # 0
                    /\ status = 200 => effects = 1
                    /\ status # 200 /\ status < 500 => effects = 0
                    /\ faults = {} => status = 200
                    /\ content \in ContentsOf(status)

TokenInv ==
    /\ NoToken \notin validRefresh
    /\ login = "source" => refresh = NoToken
    /\ pc = "refresh" => login = "password"
    /\ pc \in {"refresh", "relogin"} => access # NoToken

IfmClientInv ==
    /\ TypeOK
    /\ AtMostOnce
    /\ FaultFreeCallSucceeds
    /\ RequestsCarryToken
    /\ NoNeedlessLogin
    /\ EarlyInv
    /\ CheckInv
    /\ TokenInv
==============================================================================
