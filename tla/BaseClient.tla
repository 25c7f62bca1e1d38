----------------------------- MODULE BaseClient -----------------------------
(***************************************************************************)
(* One DataMasqueClient, the thread that calls it, and the admin server    *)
(* behind it: BaseClient of client/base.py.                                *)
(*                                                                         *)
(* Every method of the client goes through make_request: send the request; *)
(* on a 401 answer to an authorized request log in again, rewind the files *)
(* it uploads and send it once more; then turn the status of the answer    *)
(* into a return or an exception.  `pc' is the place of the calling thread *)
(* in that handler.  The methods that upload make a stream of what their   *)
(* caller gives them first; a handle of his outlives the call, and so does *)
(* its position.  The server may revoke or issue tokens between any two of *)
(* its steps, may refuse or fail any request, and may be unreachable       *)
(* before or after it has carried a request out.                           *)
(*                                                                         *)
(* 200 stands for every status below 400.  Token values are opaque: a key  *)
(* that no client holds is as good as a new one.                           *)
(***************************************************************************)
EXTENDS Naturals

CONSTANTS Token,    \* the keys the server may issue
          NoToken,  \* the class attribute token = ""
          Errors    \* the error statuses the server answers, 401 apart

ASSUME BaseClientAssumption ==
    /\ NoToken \notin Token
    /\ Errors \subseteq (400..599) \ {401}

VARIABLES login,    \* how the client gets a token: "password" or "source"
          token,    \* self.token
          pc,       \* where the call is in make_request, "idle" outside it
          call,     \* the parameters of the call under way, or of the last
          status,   \* status of the last answer the call looked at, 0 if none
          outcome,  \* what the last call returned or raised
          handle,   \* position of the handle the caller uploads from
          content,  \* what the stream the call uploads holds
          pos,      \* position of that stream
          valid,    \* server: the keys it accepts
          effects,  \* server: how often it carried this call's request out
          bodies,   \* server: the uploads it received for this call
          faults    \* history: what went wrong around this call

uploadVars == <<handle, content, pos>>
clientVars == <<login, token, pc, call, status, outcome, uploadVars>>
serverVars == <<valid, effects, bodies>>
vars == <<login, token, pc, call, status, outcome, handle, content, pos,
          valid, effects, bodies, faults>>

(* auth is requires_authorization.  mode is require_status_check ("check"  *)
(* or "raw"), or _delete_if_exists, which looks at the raw answer itself.  *)
(* The body is a path, bytes or a str ("bytes"), a text or a binary handle,*)
(* or a BufferedIOBase without seek, such as a pipe.                       *)
Calls == {c \in [auth : {"token", "none"},
                 mode : {"check", "raw", "delete"},
                 body : {"none", "bytes", "text", "binary", "pipe"}] :
             c.mode = "delete" => c.auth = "token" /\ c.body = "none"}

Statuses == {200, 401} \cup Errors
Outcomes == {"ok", "raw", "absent", "notReady", "apiError", "loginError",
             "sourceError", "transportError", "seekError"}

InRetry == pc \in {"authenticate", "rewind", "resend"}

(* Types, and that only an authorized call is ever replayed (base.py,      *)
(* make_request: a 401 without a token is the server's answer to anonymous *)
(* access, not an expired login).                                          *)
TypeOK ==
    /\ login \in {"password", "source"}
    /\ token \in Token \cup {NoToken}
    /\ pc \in {"idle", "prepare", "send", "authenticate", "rewind", "resend",
              "check"}
    /\ call \in Calls
    /\ status \in Statuses \cup {0}
    /\ outcome \in Outcomes \cup {"none"}
    /\ handle \in {"start", "end"}
    /\ content \in {"whole", "empty"}
    /\ pos \in {"start", "end"}
    /\ valid \subseteq Token
    /\ effects \in Nat
    /\ bodies \subseteq {"whole", "empty"}
    /\ faults \subseteq {"answer", "transport", "login", "source", "revoked"}
    /\ InRetry => call.auth = "token"

Init ==
    /\ login \in {"password", "source"}
    /\ token = NoToken
    /\ pc = "idle"
    /\ call \in {[auth |-> "none", mode |-> "check", body |-> "none"]}
    /\ status = 0
    /\ outcome = "none"
    /\ handle = "start"
    /\ content = "whole"
    /\ pos = "start"
    /\ valid \in SUBSET Token
    /\ effects = 0
    /\ bodies = {}
    /\ faults = {}

-----------------------------------------------------------------------------
(* The server's side of an exchange.                                       *)

(* The statuses the server may give the request the client sends now.  It  *)
(* answers 401 to a token it does not accept, and to an anonymous request  *)
(* where anonymous access is closed.                                       *)
Replies ==
    IF call.auth = "none" THEN Statuses
    ELSE IF token \in valid THEN Statuses \ {401}
    ELSE {401}

(* A client error was refused; a server error may strike after the work.   *)
Applications(s) ==
    IF s = 200 THEN {1} ELSE IF s < 500 THEN {0} ELSE {0, 1}

(* The upload the server reads: requests encodes from the position of the  *)
(* stream to its end.                                                      *)
Received ==
    IF call.body = "none" THEN bodies
    ELSE bodies \cup {IF pos = "start" THEN content ELSE "empty"}

(* The position of the caller's handle once the stream has been read: a    *)
(* text handle was read before.                                            *)
HandleRead == IF call.body \in {"binary", "pipe"} THEN "end" ELSE handle

-----------------------------------------------------------------------------
(* make_request.                                                           *)

MakeRequest(c) ==
    /\ pc = "idle"
    /\ pc' = IF c.body = "none" THEN "send" ELSE "prepare"
    /\ call' = c
    /\ status' = 0
    /\ outcome' = "none"
    /\ content' = "whole"
    /\ pos' = "start"
    /\ effects' = 0
    /\ bodies' = {}
    /\ faults' = {}
    /\ UNCHANGED <<login, token, handle, valid>>

(* What the stream holds that is made of the caller's source: a text       *)
(* handle is read from where it is, and a pipe cannot be read again; bytes *)
(* are wrapped anew, and a binary handle is rewound.                       *)
Prepared ==
    IF call.body \in {"text", "pipe"} /\ handle = "end" THEN "empty" ELSE "whole"

(* The part of upload_file, upload_license_file and                        *)
(* start_async_ruleset_generation_from_csv before make_request.  The first *)
(* two rewind any stream; the third leaves a pipe as it is.                *)
Prepare ==
    /\ pc = "prepare"
    /\ \/ /\ pc' = "send"
          /\ content' = Prepared
          /\ handle' = IF call.body = "text" THEN "end" ELSE handle
          /\ UNCHANGED outcome
       \/ /\ call.body = "pipe"
          /\ pc' = "idle"
          /\ outcome' = "seekError"
          /\ UNCHANGED <<content, handle>>
    /\ UNCHANGED <<login, token, call, status, pos, valid, effects, bodies, faults>>

(* The operators named M_... are faults a change of this code could bring  *)
(* in; each property is shown to notice one of them.                       *)
M_ReauthAnonymous(s) == s = 401
M_ReauthOnServerError(s) == s \in {401, 500} /\ call.auth = "token"

(* The answer that makes the client log in again and replay the request.   *)
NeedsReauth(s) == s = 401 /\ call.auth = "token"

M_AfterAnswerAgain(s) == IF NeedsReauth(s) THEN "authenticate" ELSE "check"
M_AfterAnswerNever(s) == "check"

(* Only the first answer is ever replayed.                                 *)
AfterAnswer(s) ==
    IF pc = "send" /\ NeedsReauth(s) THEN "authenticate" ELSE "check"

(* send() is answered.                                                     *)
Exchange ==
    /\ pc \in {"send", "resend"}
    /\ \E s \in Replies : \E e \in Applications(s) :
          /\ status' = s
          /\ effects' = effects + e
          /\ pc' = AfterAnswer(s)
          /\ faults' = IF s = 200 \/ (s = 401 /\ call.auth = "token")
                       THEN faults ELSE faults \cup {"answer"}
    /\ bodies' = Received
    /\ pos' = "end"
    /\ handle' = HandleRead
    /\ UNCHANGED <<login, token, call, outcome, content, valid>>

(* send() raises a RequestException: the request never arrived, or it was  *)
(* served and the answer never did.                                        *)
LoseExchange ==
    /\ pc \in {"send", "resend"}
    /\ \/ UNCHANGED <<effects, bodies>>
       \/ /\ \E s \in Replies : \E e \in Applications(s) : effects' = effects + e
          /\ bodies' = Received
    /\ pc' = "idle"
    /\ outcome' = "transportError"
    /\ pos' = "end"
    /\ handle' = HandleRead
    /\ faults' = faults \cup {"transport"}
    /\ UNCHANGED <<login, token, call, status, content, valid>>

(* authenticate() succeeds with key t.  A login answers a key that is      *)
(* valid from now on, an old one or a new one; a token_source hands out    *)
(* what it has, which the server may no longer accept.                     *)
TakeToken(t) ==
    /\ token' = t
    /\ \/ /\ login = "password"
          /\ t \in valid \/ t # token
          /\ valid' = valid \cup {t}
       \/ /\ login = "source"
          /\ UNCHANGED valid

Authenticate ==
    /\ pc = "authenticate"
    /\ \E t \in Token :
          /\ TakeToken(t)
          /\ faults' = IF t \in valid' THEN faults ELSE faults \cup {"source"}
    /\ pc' = "rewind"
    /\ UNCHANGED <<login, call, status, outcome, uploadVars, effects, bodies>>

(* authenticate() raises: the login is refused, it cannot be reached, or   *)
(* the token_source raises.  The exception leaves make_request.            *)
AuthenticateFails ==
    /\ pc = "authenticate"
    /\ pc' = "idle"
    /\ \/ /\ login = "password"
          /\ status' \in Statuses \ {200}
          /\ outcome' = "loginError"
       \/ /\ login = "password"
          /\ outcome' = "transportError"
          /\ UNCHANGED status
       \/ /\ login = "source"
          /\ outcome' = "sourceError"
          /\ UNCHANGED status
    /\ faults' = faults \cup {"login"}
    /\ UNCHANGED <<login, token, call, uploadVars, valid, effects, bodies>>

M_NoRewind ==
    /\ pc = "rewind"
    /\ pc' = "resend"
    /\ UNCHANGED <<login, token, call, status, outcome, uploadVars,
                   valid, effects, bodies, faults>>

(* f.content.seek(0) for every file, before the request is sent again.     *)
Rewind ==
    /\ pc = "rewind"
    /\ \/ /\ call.body = "pipe"
          /\ pc' = "idle"
          /\ outcome' = "seekError"
          /\ UNCHANGED pos
       \/ /\ call.body # "pipe"
          /\ pc' = "resend"
          /\ pos' = "start"
          /\ UNCHANGED outcome
    /\ UNCHANGED <<login, token, call, status, handle, content,
                   valid, effects, bodies, faults>>

M_DeleteForgivesErrors ==
    IF call.mode = "raw" THEN "raw"
    ELSE IF status < 400 THEN "ok"
    ELSE IF call.mode = "delete" THEN "absent"
    ELSE IF status = 502 THEN "notReady"
    ELSE "apiError"

(* _raise_for_status and _delete_if_exists.                                *)
Verdict ==
    IF call.mode = "raw" THEN "raw"
    ELSE IF status < 400 THEN "ok"
    ELSE IF status = 404 /\ call.mode = "delete" THEN "absent"
    ELSE IF status = 502 THEN "notReady"
    ELSE "apiError"

Return ==
    /\ pc = "check"
    /\ outcome' = Verdict
    /\ pc' = "idle"
    /\ UNCHANGED <<login, token, call, status, uploadVars,
                   valid, effects, bodies, faults>>

(* The caller may log in without a request; nothing but the tokens change. *)
ExplicitAuthenticate ==
    /\ pc = "idle"
    /\ \E t \in Token : TakeToken(t)
    /\ UNCHANGED <<login, pc, call, status, outcome, uploadVars,
                   effects, bodies, faults>>

(* Between two calls he may open his file anew.                            *)
OpenHandle ==
    /\ pc = "idle"
    /\ handle' = "start"
    /\ UNCHANGED <<login, token, pc, call, status, outcome, content, pos,
                   serverVars, faults>>

-----------------------------------------------------------------------------
(* The server on its own: a key expires, or another session is given one.  *)

Revoke(t) ==
    /\ t \in valid
    /\ valid' = valid \ {t}
    /\ faults' = IF pc \in {"rewind", "resend"} /\ t = token
                 THEN faults \cup {"revoked"} ELSE faults
    /\ UNCHANGED <<clientVars, effects, bodies>>

Grant(t) ==
    /\ t \in Token \ (valid \cup {token})
    /\ valid' = valid \cup {t}
    /\ UNCHANGED <<clientVars, effects, bodies, faults>>

-----------------------------------------------------------------------------
ClientStep == \/ Prepare \/ Exchange \/ LoseExchange
              \/ Authenticate \/ AuthenticateFails
              \/ Rewind \/ Return

Next ==
    \/ \E c \in Calls : MakeRequest(c)
    \/ ClientStep
    \/ ExplicitAuthenticate \/ OpenHandle
    \/ \E t \in Token : Revoke(t) \/ Grant(t)

Spec == Init /\ [][Next]_vars

(* The calling thread keeps running, and every exchange is answered or     *)
(* breaks: the session sets no timeout, so this is what the code relies on *)
(* the transport for.  Nothing is assumed of when the server revokes keys. *)
FairSpec == Spec /\ WF_vars(ClientStep)

-----------------------------------------------------------------------------
(* However often tokens expire and requests are replayed, the server       *)
(* carries the request of one call out at most once (make_request replays  *)
(* only what was answered 401).                                            *)
AtMostOnce == effects <= 1

(* Neither the replay nor a call that repeats a failed upload sends a      *)
(* stream that an earlier attempt has consumed (make_request and the       *)
(* upload methods, seek(0)).  The exception is a text handle or a pipe     *)
(* that the caller passes a second time without opening it anew: of that   *)
(* the server gets what is left, nothing (read_file_or_content).           *)
WholeBodyDelivered ==
    "empty" \in bodies => call.body \in {"text", "pipe"} /\ content = "empty"

(* A call whose token had expired, or was never fetched, succeeds all the  *)
(* same when the login works and the server has nothing against the        *)
(* request: token expiry is invisible to the caller (make_request).  A     *)
(* pipe, which cannot be rewound, is the exception.                        *)
FaultFreeCallSucceeds ==
    pc = "idle" /\ outcome # "none" /\ faults = {} /\ call.body # "pipe"
        => \/ outcome = "ok"
           \/ outcome = "raw" /\ status = 200

(* A 401 answer to an anonymous call (healthcheck, admin_install, the      *)
(* login itself) reaches the caller as it is: no login is attempted and    *)
(* the cached token is left alone (make_request, requires_authorization).  *)
AnonymousKeepsToken ==
    [][pc # "idle" /\ call.auth = "none" => UNCHANGED token]_vars

(* Every call returns or raises after at most one replay, even when the    *)
(* server revokes every key as soon as it issues it (make_request).        *)
CallReturns == pc # "idle" ~> pc = "idle"

(* What the caller learns of a finished call in the terms of ApiCall.      *)
ResultOf ==
    IF outcome \in {"none", "absent"} THEN outcome
    ELSE IF outcome \in {"loginError", "sourceError", "seekError"} THEN "refused"
    ELSE IF outcome = "transportError" \/ status >= 500 THEN "unknown"
    ELSE IF status = 200 THEN "done" ELSE "refused"

Api == INSTANCE ApiCall WITH
           phase <- IF pc = "idle" THEN "idle" ELSE "calling",
           result <- ResultOf,
           applied <- effects

(* The client keeps what ApiCall promises: an answer of success means the  *)
(* request was carried out exactly once, a refusal or an absent object     *)
(* that it was not, and only a server error or a broken transport leaves   *)
(* the caller in doubt (make_request, _raise_for_status,                   *)
(* _delete_if_exists).                                                     *)
ImplementsApiCall == Api!ApiSpec

-----------------------------------------------------------------------------
(* The inductive invariant behind the safety properties, by the place of   *)
(* the call.                                                               *)

SendInv ==
    pc \in {"prepare", "send"} =>
        /\ outcome = "none"
        /\ effects = 0
        /\ bodies = {}
        /\ pos = "start"
        /\ faults = {}

(* Only a text handle or a pipe is ever found at its end.                  *)
ContentInv == content = "empty" => call.body \in {"text", "pipe"}

RetryInv ==
    /\ InRetry => outcome = "none" /\ effects = 0
    /\ pc = "authenticate" => faults = {}
    /\ pc \in {"rewind", "resend"} /\ faults = {} => token \in valid
    /\ pc = "resend" => pos = "start"

CheckInv ==
    pc = "check" => /\ outcome = "none"
                    /\ status # 0
                    /\ status = 200 => effects = 1
                    /\ status # 200 /\ status < 500 => effects = 0
                    /\ faults = {} => status = 200

BaseClientInv ==
    /\ TypeOK
    /\ AtMostOnce
    /\ WholeBodyDelivered
    /\ ContentInv
    /\ FaultFreeCallSucceeds
    /\ SendInv
    /\ RetryInv
    /\ CheckInv

=============================================================================
