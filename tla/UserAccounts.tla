---------------------------- MODULE UserAccounts ----------------------------
(***************************************************************************)
(* The account of one username, and several clients that create it, change *)
(* it and its password, reset the password and delete it                   *)
(* (client/users.py).                                                      *)
(*                                                                         *)
(* create_or_update_user makes two requests when it is given a new         *)
(* password: one for the account, one that proves the old password and     *)
(* sets the new one.  Either may be refused, lost, or undone by another    *)
(* client in between.  Each request is one step: what it owes its caller   *)
(* is ApiCall.  The server keeps usernames unique, so there is one account *)
(* at most; one that is deleted and created again has another id.  The     *)
(* client makes the temporary password of a new account itself, which is   *)
(* PasswordGeneration; that of a reset comes from the server.              *)
(***************************************************************************)
EXTENDS PasswordGeneration

CONSTANTS Client,      \* the clients
          Password,    \* passwords: chosen by callers, generated by the
                       \*   client or made by the server
          NoPassword,
          MaxId        \* bound on the accounts created

ASSUME UserAccountsAssumption ==
    /\ NoPassword \notin Password
    /\ MaxId \in Nat

VARIABLES current,   \* server: the id of the account, 0 when there is none
          password,  \* server: its password
          active,    \* server: whether it is active
          last,      \* server: the last id it gave
          pc,        \* c |-> where client c is
          user,      \* c |-> its User object: id (0 for None) and password
          new,       \* c |-> new_password of its call
          target,    \* c |-> the id a delete by username has listed
          outcome,   \* c |-> what its last call returned or raised
          agreed     \* history: c |-> c was told the password, and since then
                     \*   no answer to c was lost and nobody else changed it

serverVars == <<current, password, active, last>>
vars == <<current, password, active, last, pc, user, new, target, outcome, agreed>>

Outcomes == {"none", "stored", "reset", "deleted", "refused", "failed", "userError"}

(* Types, and that a password is only ever sent for an account that has an *)
(* id (create_or_update_user, user.id = resp["id"]).                       *)
TypeOK ==
    /\ current \in 0..last
    /\ password \in Password \cup {NoPassword}
    /\ active \in BOOLEAN
    /\ last \in 0..MaxId
    /\ pc \in [Client -> {"idle", "create", "update", "password", "reset",
                          "list", "delete"}]
    /\ user \in [Client -> [id : 0..last, password : Password \cup {NoPassword}]]
    /\ new \in [Client -> Password \cup {NoPassword}]
    /\ target \in [Client -> 0..last]
    /\ outcome \in [Client -> Outcomes]
    /\ agreed \in [Client -> BOOLEAN]
    /\ \A c \in Client : pc[c] = "password" => user[c].id # 0

Init ==
    /\ current = 0
    /\ password = NoPassword
    /\ active = FALSE
    /\ last = 0
    /\ pc = [c \in Client |-> "idle"]
    /\ user = [c \in Client |-> [id |-> 0, password |-> NoPassword]]
    /\ new = [c \in Client |-> NoPassword]
    /\ target = [c \in Client |-> 0]
    /\ outcome = [c \in Client |-> "none"]
    /\ agreed = [c \in Client |-> FALSE]

-----------------------------------------------------------------------------
(* The call of client c goes on at p, or ends with outcome o.              *)
Continues(c, p) == pc' = [pc EXCEPT ![c] = p] /\ UNCHANGED outcome
Ends(c, o) ==
    /\ pc' = [pc EXCEPT ![c] = "idle"]
    /\ outcome' = [outcome EXCEPT ![c] = o]

(* Client c is told of its change of the password, or it is not.           *)
Told(c) == agreed' = [d \in Client |-> d = c]
Unheard == agreed' = [d \in Client |-> FALSE]

NothingDone == UNCHANGED <<serverVars, user, agreed>>

-----------------------------------------------------------------------------
(* The caller.                                                             *)

(* The caller makes a User of his own, or takes one from list_users, and   *)
(* may put the password in that he believes is right.                      *)
TakeUser(c) ==
    /\ pc[c] = "idle"
    /\ \E i \in {0} \cup (IF active THEN {current} ELSE {}) :
       \E p \in Password \cup {NoPassword} :
          user' = [user EXCEPT ![c] = [id |-> i, password |-> p]]
    /\ agreed' = [agreed EXCEPT ![c] = FALSE]
    /\ outcome' = [outcome EXCEPT ![c] = "none"]
    /\ UNCHANGED <<serverVars, pc, new, target>>

(* create_or_update_user: the roles are checked, and the id decides.       *)
CreateOrUpdate(c, p) ==
    /\ pc[c] = "idle"
    /\ new' = [new EXCEPT ![c] = p]
    /\ \/ Ends(c, "userError")
       \/ /\ pc' = [pc EXCEPT ![c] = IF user[c].id = 0 THEN "create" ELSE "update"]
          /\ outcome' = [outcome EXCEPT ![c] = "none"]
    /\ UNCHANGED <<target, agreed, serverVars, user>>

(* reset_password_for_user: the user must have been created.               *)
ResetPassword(c) ==
    /\ pc[c] = "idle"
    /\ IF user[c].id = 0 THEN Ends(c, "userError")
       ELSE /\ pc' = [pc EXCEPT ![c] = "reset"]
            /\ outcome' = [outcome EXCEPT ![c] = "none"]
    /\ UNCHANGED <<serverVars, user, new, target, agreed>>

(* delete_user_by_username_if_exists.                                      *)
DeleteByUsername(c) ==
    /\ pc[c] = "idle"
    /\ pc' = [pc EXCEPT ![c] = "list"]
    /\ outcome' = [outcome EXCEPT ![c] = "none"]
    /\ UNCHANGED <<serverVars, user, new, target, agreed>>

-----------------------------------------------------------------------------
(* The requests of create_or_update_user.                                  *)

(* The operators named M_... are faults a change of this code could bring  *)
(* in; each property is shown to notice one of them.                       *)
M_CreatedIsEnough(c) == IF pc[c] = "create" THEN "idle" ELSE "password"

(* Where the call goes on once the account is there.                       *)
AfterAccount(c) == IF new[c] = NoPassword THEN "idle" ELSE "password"

AccountDone(c) ==
    IF AfterAccount(c) = "idle" THEN Ends(c, "stored") ELSE Continues(c, AfterAccount(c))

(* What generate_password may return of them.                              *)
Generated == Password \cap Drafts[Length]

M_IdNotKept(c, t) == [user EXCEPT ![c].password = t]

(* The object after the answer to its creation: the id of the answer and   *)
(* the temporary password that was sent.                                   *)
UserCreated(c, t) == [user EXCEPT ![c] = [id |-> last', password |-> t]]

(* POST with a password t from generate_password, which no other request   *)
(* uses.  A username that is taken is refused.                             *)
Create(c) ==
    /\ pc[c] = "create"
    /\ IF current # 0
       THEN Ends(c, "refused") /\ NothingDone
       ELSE /\ last < MaxId
            /\ last' = last + 1
            /\ current' = last'
            /\ active' = TRUE
            /\ \E t \in Generated :
                  /\ password' = t
                  /\ \/ user' = UserCreated(c, t) /\ Told(c) /\ AccountDone(c)
                     \/ UNCHANGED user /\ Unheard /\ Ends(c, "failed")
    /\ UNCHANGED <<new, target>>

(* PATCH of the account; what it changes there is not modelled.            *)
Update(c) ==
    /\ pc[c] = "update"
    /\ IF user[c].id = current THEN AccountDone(c) ELSE Ends(c, "refused")
    /\ NothingDone
    /\ UNCHANGED <<new, target>>

M_RemembersAnyway(c, ok) == [user EXCEPT ![c].password = new[c]]

(* The object after the server has set the new password, or refused to.    *)
UserAfterChange(c, ok) ==
    IF ok THEN [user EXCEPT ![c].password = new[c]] ELSE user

(* PATCH with the old and the new password: the server checks the old one, *)
(* and may find fault with the new one.                                    *)
ChangePassword(c) ==
    /\ pc[c] = "password"
    /\ \/ /\ user[c].id = current /\ user[c].password = password
          /\ password' = new[c]
          /\ \/ user' = UserAfterChange(c, TRUE) /\ Told(c) /\ Ends(c, "stored")
             \/ UNCHANGED user /\ Unheard /\ Ends(c, "failed")
          /\ UNCHANGED <<current, active, last>>
       \/ /\ user' = UserAfterChange(c, FALSE)
          /\ Ends(c, "refused")
          /\ UNCHANGED <<serverVars, agreed>>
    /\ UNCHANGED <<new, target>>

-----------------------------------------------------------------------------
(* The requests of reset_password_for_user and of the deletes.             *)

(* POST: the server makes password t and answers with it.                  *)
Reset(c) ==
    /\ pc[c] = "reset"
    /\ IF user[c].id # current
       THEN Ends(c, "refused") /\ NothingDone
       ELSE /\ \E t \in Password :
                  /\ password' = t
                  /\ \/ /\ user' = [user EXCEPT ![c].password = t]
                        /\ Told(c) /\ Ends(c, "reset")
                     \/ UNCHANGED user /\ Unheard /\ Ends(c, "failed")
            /\ UNCHANGED <<current, active, last>>
    /\ UNCHANGED <<new, target>>

(* list_users leaves inactive accounts out.                                *)
List(c) ==
    /\ pc[c] = "list"
    /\ IF active
       THEN target' = [target EXCEPT ![c] = current] /\ Continues(c, "delete")
       ELSE UNCHANGED target /\ Ends(c, "deleted")
    /\ NothingDone
    /\ UNCHANGED new

(* delete_user_by_id_if_exists; an account that is gone counts as deleted. *)
Delete(c) ==
    /\ pc[c] = "delete"
    /\ IF target[c] = current
       THEN /\ current' = 0
            /\ password' = NoPassword
            /\ active' = FALSE
            /\ Unheard
       ELSE UNCHANGED <<current, password, active, agreed>>
    /\ \E o \in {"deleted", "failed"} : Ends(c, o)
    /\ UNCHANGED <<last, user, new, target>>

(* A request raises without having had an effect.                          *)
RequestFails(c) ==
    /\ pc[c] # "idle"
    /\ Ends(c, "failed")
    /\ NothingDone
    /\ UNCHANGED <<new, target>>

(* Somebody deactivates the account.                                       *)
Deactivate ==
    /\ active
    /\ active' = FALSE
    /\ UNCHANGED <<current, password, last, pc, user, new, target, outcome, agreed>>

-----------------------------------------------------------------------------
Next ==
    \/ \E c \in Client :
          \/ TakeUser(c) \/ ResetPassword(c) \/ DeleteByUsername(c)
          \/ \E p \in Password \cup {NoPassword} : CreateOrUpdate(c, p)
          \/ Create(c) \/ Update(c) \/ ChangePassword(c)
          \/ Reset(c) \/ List(c) \/ Delete(c) \/ RequestFails(c)
    \/ Deactivate

Spec == Init /\ [][Next]_vars

-----------------------------------------------------------------------------
(* The caller is never locked out by an exception: once the object holds   *)
(* the password of the account, it goes on holding it through every        *)
(* refused or failed request, so that a retry can prove it; only an answer *)
(* that is lost or another client can part the two (create_or_update_user, *)
(* reset_password_for_user: user.password is assigned after the request).  *)
PasswordKept ==
    \A c \in Client : agreed[c] =>
        user[c].id = current /\ user[c].password = password

(* When create_or_update_user returns, the password the caller asked for   *)
(* is the one in the object and, unless somebody changed it since, the one *)
(* on the server, for a new account as for an old one.                     *)
NewPasswordSet ==
    \A c \in Client : outcome[c] = "stored" /\ new[c] # NoPassword =>
        /\ user[c].password = new[c]
        /\ agreed[c] => password = new[c]

(* No account ever starts with a password that has a repetition or a       *)
(* sequence of three, whoever creates it and however often, although the   *)
(* loop of generate_password compares the last three characters only and   *)
(* keeps what it has (users.py:38).  Those of callers and of the server    *)
(* are not held to this.                                                   *)
AccountsStartStrong ==
    [][current' \notin {0, current} => Strong(password')]_vars
=============================================================================
