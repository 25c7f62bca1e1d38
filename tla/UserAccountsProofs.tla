-------------------------- MODULE UserAccountsProofs --------------------------
(***************************************************************************)
(* Theorems of UserAccounts, for any clients and passwords.  The           *)
(* invariants are inductive together with two facts about the control: a   *)
(* call that is under way has not reported anything yet, and only an       *)
(* account with an id is updated.  The theorems of PasswordGeneration are  *)
(* for any length and alphabet: what the loop of generate_password can     *)
(* arrive at is shown by induction over the length of the draft.  They     *)
(* give what is said of the password that an account starts with.          *)
(***************************************************************************)
EXTENDS UserAccounts, FiniteSetTheorems, SequenceTheorems, TLAPS

Control ==
    \A c \in Client : /\ pc[c] # "idle" => outcome[c] = "none"
                      /\ pc[c] = "update" => user[c].id # 0

(* TypeOK falls into the truth values, which only some provers handle, and *)
(* the rest.                                                               *)
Flags == active \in BOOLEAN /\ agreed \in [Client -> BOOLEAN]

Values ==
    /\ current \in 0..last
    /\ password \in Password \cup {NoPassword}
    /\ last \in 0..MaxId
    /\ pc \in [Client -> {"idle", "create", "update", "password", "reset",
                          "list", "delete"}]
    /\ user \in [Client -> [id : 0..last, password : Password \cup {NoPassword}]]
    /\ new \in [Client -> Password \cup {NoPassword}]
    /\ target \in [Client -> 0..last]
    /\ outcome \in [Client -> Outcomes]
    /\ \A c \in Client : pc[c] = "password" => user[c].id # 0

VInv == Values /\ PasswordKept /\ NewPasswordSet /\ Control

IInv == Flags /\ VInv

LEMMA TypeParts == TypeOK <=> Flags /\ Values
  BY DEF TypeOK, Flags, Values

LEMMA InitInv == Init => IInv
  <1> SUFFICES ASSUME Init PROVE IInv
    OBVIOUS
  <1>1. Flags
    BY Zenon DEF Init, Flags
  <1>2. Values
    BY UserAccountsAssumption DEF Init, Values, Outcomes
  <1>3. PasswordKept /\ NewPasswordSet /\ Control
    BY DEF Init, PasswordKept, NewPasswordSet, Control
  <1>4. QED
    BY <1>1, <1>2, <1>3 DEF IInv, VInv

(* Who is told of a change, as the invariants use it.                      *)
LEMMA OnlyTold ==
    ASSUME NEW c \in Client, Told(c)
    PROVE  \A d \in Client : agreed'[d] => d = c
  BY Zenon DEF Told

LEMMA NobodyTold ==
    ASSUME Unheard
    PROVE  \A d \in Client : ~agreed'[d]
  BY Zenon DEF Unheard

(* Every step keeps the truth values.                                      *)
LEMMA FlagsKept == Flags /\ [Next]_vars => Flags'
  <1> SUFFICES ASSUME Flags, [Next]_vars PROVE Flags'
    OBVIOUS
  <1>1. ASSUME NEW c \in Client, Told(c) PROVE agreed' \in [Client -> BOOLEAN]
    BY <1>1, Zenon DEF Told
  <1>2. ASSUME Unheard PROVE agreed' \in [Client -> BOOLEAN]
    BY <1>2, Zenon DEF Unheard
  <1>3. active' = active \/ active' = TRUE \/ active' = FALSE
    BY DEF Next, vars, serverVars, NothingDone, TakeUser, CreateOrUpdate,
       ResetPassword, DeleteByUsername, Create, Update, ChangePassword, Reset,
       List, Delete, RequestFails, Deactivate
  <1>4. \/ UNCHANGED agreed \/ Unheard
        \/ \E c \in Client : Told(c) \/ agreed' = [agreed EXCEPT ![c] = FALSE]
    BY DEF Next, vars, serverVars, NothingDone, TakeUser, CreateOrUpdate,
       ResetPassword, DeleteByUsername, Create, Update, ChangePassword, Reset,
       List, Delete, RequestFails, Deactivate
  <1>5. ASSUME NEW c \in Client, agreed' = [agreed EXCEPT ![c] = FALSE]
        PROVE  agreed' \in [Client -> BOOLEAN]
    BY <1>5, Zenon DEF Flags
  <1>6. agreed' \in [Client -> BOOLEAN]
    BY <1>1, <1>2, <1>4, <1>5, Zenon DEF Flags
  <1>7. QED
    BY <1>3, <1>6, Zenon DEF Flags

(* The calls begin: nothing but the control moves.                         *)
LEMMA CallersKeepInv ==
    ASSUME NEW c \in Client, NEW p \in Password \cup {NoPassword}, Flags, VInv,
           TakeUser(c) \/ CreateOrUpdate(c, p) \/ ResetPassword(c) \/ DeleteByUsername(c)
    PROVE  VInv'
  <1> USE UserAccountsAssumption
      DEF Flags, VInv, Control, Values, PasswordKept, NewPasswordSet,
          Outcomes, serverVars, Ends
  <1>1. CASE TakeUser(c)
    BY <1>1 DEF TakeUser
  <1>2. CASE CreateOrUpdate(c, p)
    <2>1. /\ new' = [new EXCEPT ![c] = p]
          /\ UNCHANGED <<target, agreed, serverVars, user>>
      BY <1>2 DEF CreateOrUpdate
    <2>2. CASE Ends(c, "userError")
      BY <2>1, <2>2
    <2>3. CASE /\ pc' = [pc EXCEPT ![c] = IF user[c].id = 0 THEN "create" ELSE "update"]
               /\ outcome' = [outcome EXCEPT ![c] = "none"]
      BY <2>1, <2>3
    <2>4. QED
      BY <1>2, <2>2, <2>3 DEF CreateOrUpdate
  <1>3. CASE ResetPassword(c)
    BY <1>3 DEF ResetPassword
  <1>4. CASE DeleteByUsername(c)
    BY <1>4 DEF DeleteByUsername
  <1>5. QED
    BY <1>1, <1>2, <1>3, <1>4

(* The account is created with a temporary password.                       *)
LEMMA CreateKeepsInv ==
    ASSUME NEW c \in Client, Flags, VInv, Create(c)
    PROVE  VInv'
  <1> USE UserAccountsAssumption
      DEF Flags, VInv, Control, Values, PasswordKept, NewPasswordSet,
          Outcomes, serverVars, Ends, Continues, NothingDone
  <1>1. CASE current # 0
    <2>1. /\ Ends(c, "refused")
          /\ UNCHANGED <<serverVars, user, agreed, new, target>>
      BY <1>1 DEF Create
    <2>2. QED
      BY <2>1
  <1>2. CASE current = 0
    <2>1. PICK t \in Password :
             /\ password' = t
             /\ \/ user' = UserCreated(c, t) /\ Told(c) /\ AccountDone(c)
                \/ UNCHANGED user /\ Unheard /\ Ends(c, "failed")
      BY <1>2 DEF Create, Generated
    <2>2. /\ last < MaxId /\ last' = last + 1 /\ current' = last' /\ active' = TRUE
          /\ pc[c] = "create" /\ UNCHANGED <<new, target>>
      BY <1>2 DEF Create
    <2>3. CASE user' = UserCreated(c, t) /\ Told(c) /\ AccountDone(c)
      <3>1. /\ \A d \in Client : agreed'[d] => d = c
            /\ user' = [user EXCEPT ![c] = [id |-> last', password |-> t]]
            /\ user'[c].id # 0
        BY <2>2, <2>3, OnlyTold DEF UserCreated
      <3>2. CASE new[c] = NoPassword
        <4>1. Ends(c, "stored")
          BY <2>3, <3>2 DEF AccountDone, AfterAccount
        <4>2. QED
          BY <2>1, <2>2, <3>1, <3>2, <4>1
      <3>3. CASE new[c] # NoPassword
        <4>1. Continues(c, "password")
          BY <2>3, <3>3 DEF AccountDone, AfterAccount
        <4>2. QED
          BY <2>1, <2>2, <3>1, <3>3, <4>1
      <3>4. QED
        BY <3>2, <3>3
    <2>4. CASE UNCHANGED user /\ Unheard /\ Ends(c, "failed")
      BY <2>1, <2>2, <2>4, NobodyTold
    <2>5. QED
      BY <2>1, <2>3, <2>4
  <1>3. QED
    BY <1>1, <1>2

LEMMA UpdateKeepsInv ==
    ASSUME NEW c \in Client, Flags, VInv, Update(c)
    PROVE  VInv'
  <1> USE UserAccountsAssumption
      DEF Flags, VInv, Control, Values, PasswordKept, NewPasswordSet,
          Outcomes, serverVars, Ends, Continues, NothingDone
  <1>1. pc[c] = "update" /\ UNCHANGED <<serverVars, user, agreed, new, target>>
    BY DEF Update
  <1>2. CASE Ends(c, "refused")
    BY <1>1, <1>2
  <1>3. CASE new[c] = NoPassword /\ Ends(c, "stored")
    BY <1>1, <1>3
  <1>4. CASE user[c].id = current /\ Continues(c, "password")
    BY <1>1, <1>4
  <1>5. QED
    BY <1>2, <1>3, <1>4 DEF Update, AccountDone, AfterAccount

(* The object takes the new password only when the server has taken it.    *)
LEMMA ChangePasswordKeepsInv ==
    ASSUME NEW c \in Client, Flags, VInv, ChangePassword(c)
    PROVE  VInv'
  <1> USE UserAccountsAssumption
      DEF Flags, VInv, Control, Values, PasswordKept, NewPasswordSet,
          Outcomes, serverVars, Ends, UserAfterChange
  <1>1. CASE /\ user[c].id = current /\ user[c].password = password
             /\ password' = new[c]
             /\ user' = UserAfterChange(c, TRUE) /\ Told(c) /\ Ends(c, "stored")
             /\ UNCHANGED <<current, active, last, new, target>>
    BY <1>1, OnlyTold DEF ChangePassword
  <1>2. CASE /\ password' = new[c]
             /\ UNCHANGED user /\ Unheard /\ Ends(c, "failed")
             /\ UNCHANGED <<current, active, last, new, target>>
    BY <1>2, NobodyTold
  <1>3. CASE /\ user' = UserAfterChange(c, FALSE)
             /\ Ends(c, "refused")
             /\ UNCHANGED <<serverVars, agreed, new, target>>
    BY <1>3
  <1>4. QED
    BY <1>1, <1>2, <1>3 DEF ChangePassword

(* A temporary password is set and, if the answer arrives, kept.           *)
LEMMA ResetKeepsInv ==
    ASSUME NEW c \in Client, Flags, VInv, Reset(c)
    PROVE  VInv'
  <1> USE UserAccountsAssumption
      DEF Flags, VInv, Control, Values, PasswordKept, NewPasswordSet,
          Outcomes, serverVars, Ends, NothingDone
  <1>1. CASE user[c].id # current
    <2>1. /\ Ends(c, "refused")
          /\ UNCHANGED <<serverVars, user, agreed, new, target>>
      BY <1>1 DEF Reset
    <2>2. QED
      BY <2>1
  <1>2. CASE user[c].id = current
    <2>1. PICK t \in Password :
             /\ password' = t
             /\ \/ /\ user' = [user EXCEPT ![c].password = t]
                   /\ Told(c) /\ Ends(c, "reset")
                \/ UNCHANGED user /\ Unheard /\ Ends(c, "failed")
      BY <1>2 DEF Reset
    <2>2. pc[c] = "reset" /\ UNCHANGED <<current, active, last, new, target>>
      BY <1>2 DEF Reset
    <2>3. CASE /\ user' = [user EXCEPT ![c].password = t]
               /\ Told(c) /\ Ends(c, "reset")
      BY <1>2, <2>1, <2>2, <2>3, OnlyTold
    <2>4. CASE UNCHANGED user /\ Unheard /\ Ends(c, "failed")
      BY <2>1, <2>2, <2>4, NobodyTold
    <2>5. QED
      BY <2>1, <2>3, <2>4
  <1>3. QED
    BY <1>1, <1>2

(* The account is listed and deleted, a request fails, or somebody         *)
(* deactivates the account.                                                *)
LEMMA OthersKeepInv ==
    ASSUME Flags, VInv,
           \/ \E c \in Client : List(c) \/ Delete(c) \/ RequestFails(c)
           \/ Deactivate
           \/ UNCHANGED vars
    PROVE  VInv'
  <1> USE UserAccountsAssumption
      DEF Flags, VInv, Control, Values, PasswordKept, NewPasswordSet,
          Outcomes, serverVars, Ends, Continues, NothingDone
  <1>1. ASSUME NEW c \in Client, List(c) PROVE VInv'
    BY <1>1 DEF List
  <1>2. ASSUME NEW c \in Client, Delete(c) PROVE VInv'
    BY <1>2, NobodyTold DEF Delete
  <1>3. ASSUME NEW c \in Client, RequestFails(c) PROVE VInv'
    BY <1>3 DEF RequestFails
  <1>4. CASE Deactivate
    BY <1>4 DEF Deactivate
  <1>5. CASE UNCHANGED vars
    BY <1>5 DEF vars
  <1>6. QED
    BY <1>1, <1>2, <1>3, <1>4, <1>5

LEMMA StepInv == IInv /\ [Next]_vars => IInv'
  <1> SUFFICES ASSUME IInv, [Next]_vars PROVE IInv'
    OBVIOUS
  <1>1. CASE \E c \in Client : \/ TakeUser(c) \/ ResetPassword(c) \/ DeleteByUsername(c)
                               \/ \E p \in Password \cup {NoPassword} : CreateOrUpdate(c, p)
    BY <1>1, CallersKeepInv, FlagsKept DEF IInv
  <1>2. CASE \E c \in Client : Create(c) \/ Update(c) \/ ChangePassword(c) \/ Reset(c)
    BY <1>2, CreateKeepsInv, UpdateKeepsInv, ChangePasswordKeepsInv, ResetKeepsInv,
       FlagsKept DEF IInv
  <1>3. QED
    BY <1>1, <1>2, OthersKeepInv, FlagsKept DEF Next, IInv

(* The inductive invariant holds in every reachable state.                 *)
THEOREM InvariantHolds == Spec => []IInv
  BY InitInv, StepInv, PTL DEF Spec

(* Every reachable state is well typed, and a password is only ever sent   *)
(* for an account that has an id (create_or_update_user).                  *)
THEOREM TypeCorrect == Spec => []TypeOK
  <1>1. IInv => TypeOK
    BY TypeParts DEF IInv, VInv
  <1>2. QED
    BY InvariantHolds, <1>1, PTL

(* No exception locks the caller out: an object that holds the password of *)
(* the account goes on holding it until an answer is lost or another       *)
(* client changes it (create_or_update_user, reset_password_for_user).     *)
THEOREM CallerKeepsPassword == Spec => []PasswordKept
  <1>1. IInv => PasswordKept
    BY DEF IInv, VInv
  <1>2. QED
    BY InvariantHolds, <1>1, PTL

(* A call that returns has set the password it was given                   *)
(* (create_or_update_user).                                                *)
THEOREM ReturnedPasswordIsSet == Spec => []NewPasswordSet
  <1>1. IInv => NewPasswordSet
    BY DEF IInv, VInv
  <1>2. QED
    BY InvariantHolds, <1>1, PTL

-----------------------------------------------------------------------------
(* The generated passwords.  The set of drafts of n characters is computed *)
(* by a recursive function of n; the strong passwords of each length solve *)
(* its equation, and by induction nothing else does.                       *)

(* Induction over the numbers, in the form of sets.                        *)
LEMMA SetInduction ==
    ASSUME NEW T, 1 \in T, \A n \in Nat \ {0} : n \in T => n + 1 \in T
    PROVE  \A n \in Nat \ {0} : n \in T
  <1> DEFINE bad == {1..n : n \in (Nat \ {0}) \ T}
  <1> SUFFICES ASSUME NEW m \in Nat \ {0}, m \notin T PROVE FALSE
    OBVIOUS
  <1>1. bad \subseteq FiniteSubsetsOf(Nat)
    <2>1. \A n \in Nat : IsFiniteSet(1..n)
      BY FS_Interval
    <2>2. QED
      BY <2>1 DEF FiniteSubsetsOf
  <1>2. bad # {}
    OBVIOUS
  <1>3. IsWellFoundedOn(StrictSubsetOrdering(Nat), FiniteSubsetsOf(Nat))
    BY FS_StrictSubsetOrderingWellFounded
  <1>4. PICK x \in bad : \A y \in bad : ~(<<y, x>> \in StrictSubsetOrdering(Nat))
    <2> HIDE DEF bad
    <2> QED BY <1>1, <1>2, <1>3, WFMin
  <1>5. PICK n \in (Nat \ {0}) \ T : x = 1..n
    BY <1>4
  <1>6. n - 1 \in (Nat \ {0}) \ T
    BY <1>5
  <1>7. 1..(n - 1) \in bad
    BY <1>6
  <1>8. <<1..(n - 1), x>> \in StrictSubsetOrdering(Nat)
    <2>1. 1..(n - 1) \subseteq 1..n /\ n \in 1..n /\ n \notin 1..(n-1)
      BY <1>5
    <2>2. 1..(n - 1) \in SUBSET Nat /\ 1..n \in SUBSET Nat
      BY <1>5
    <2>3. 1..(n - 1) # 1..n
      BY <2>1
    <2>4. QED
      BY <2>1, <2>2, <2>3, <1>5, Zenon DEF StrictSubsetOrdering
  <1>9. QED
    BY <1>4, <1>7, <1>8

(* Looking at the last three characters is enough: a character that is     *)
(* accepted keeps a strong draft strong in every place.                    *)
THEOREM AcceptedStaysStrong ==
    ASSUME NEW d \in Seq(Nat), NEW ch \in Nat, Strong(d), Accepts(d, ch)
    PROVE  Strong(Append(d, ch))
  <1> DEFINE p == Append(d, ch)
  <1>1. /\ p \in Seq(Nat) /\ Len(p) = Len(d) + 1 /\ Len(d) \in Nat
        /\ \A i \in 1..Len(d) : p[i] = d[i] /\ d[i] \in Nat
        /\ p[Len(d) + 1] = ch
    OBVIOUS
  <1> SUFFICES ASSUME NEW i \in 1..Len(p), i + 2 <= Len(p)
               PROVE  /\ ~(p[i] = p[i + 1] /\ p[i + 1] = p[i + 2])
                      /\ ~(p[i + 1] = p[i] + 1 /\ p[i + 2] = p[i + 1] + 1)
                      /\ ~(p[i] = p[i + 1] + 1 /\ p[i + 1] = p[i + 2] + 1)
    BY DEF Strong
  <1>2. i \in 1..Len(d) /\ i + 1 \in 1..Len(d)
    BY <1>1
  <1>3. CASE i + 2 <= Len(d)
    <2>1. i + 2 \in 1..Len(d)
      BY <1>1, <1>2, <1>3
    <2>2. p[i] = d[i] /\ p[i + 1] = d[i + 1] /\ p[i + 2] = d[i + 2]
      BY <1>1, <1>2, <2>1
    <2> QED BY <1>2, <1>3, <2>2 DEF Strong
  <1>4. CASE i + 1 = Len(d)
    <2>1. Len(d) >= 2 /\ i = Len(d) - 1 /\ i + 2 = Len(d) + 1
      BY <1>1, <1>2, <1>4
    <2>2. p[i] = d[Len(d) - 1] /\ p[i + 1] = d[Len(d)] /\ p[i + 2] = ch
      BY <1>1, <1>2, <1>4, <2>1
    <2> QED BY <1>1, <1>2, <2>1, <2>2 DEF Accepts, IsSequential
  <1> QED BY <1>1, <1>2, <1>3, <1>4

(* The loop never gets stuck: of any two characters one is accepted, for a *)
(* draft rules out one character at most.                                  *)
THEOREM SomeCharacterAccepted ==
    ASSUME NEW d \in Seq(Nat)
    PROVE  \E ch \in Char : Accepts(d, ch)
  <1>1. PICK a \in Char, b \in Char : a # b
    BY PasswordGenerationAssumption
  <1>2. a \in Nat /\ b \in Nat
    BY PasswordGenerationAssumption
  <1>3. CASE Len(d) < 2
    BY <1>1, <1>3 DEF Accepts
  <1>4. CASE Len(d) >= 2
    <2>1. d[Len(d)] \in Nat /\ d[Len(d) - 1] \in Nat
      BY <1>4
    <2> QED BY <1>1, <1>2, <2>1 DEF Accepts, IsSequential
  <1> QED BY <1>3, <1>4

(* The drafts of one character, the drafts one character longer than those *)
(* of S, and the passwords the docstring asks for.                         *)
First == {<<ch>> : ch \in Char}
Extended(S) == UNION {{Append(d, ch) : ch \in {x \in Char : Accepts(d, x)}} : d \in S}
StrongOnes(n) == {p \in [1..n -> Char] : Strong(p)}

LEMMA FirstStrongOnes == First = StrongOnes(1)
  <1>1. ASSUME NEW ch \in Char PROVE <<ch>> \in StrongOnes(1)
    BY DEF StrongOnes, Strong
  <1>2. ASSUME NEW p \in StrongOnes(1) PROVE p \in First
    <2>1. p \in [1..1 -> Char]
      BY DEF StrongOnes
    <2>2. p = <<p[1]>> /\ p[1] \in Char
      BY <2>1
    <2>3. QED
      BY <2>2 DEF First
  <1>3. QED
    BY <1>1, <1>2 DEF First

(* A strong password is an accepted extension of a strong draft.           *)
LEMMA StrongIsExtension ==
    ASSUME NEW n \in Nat, n >= 2, NEW p \in StrongOnes(n)
    PROVE  \E d \in StrongOnes(n - 1) : \E ch \in Char :
              Accepts(d, ch) /\ p = Append(d, ch)
  <1> DEFINE d == [i \in 1..(n - 1) |-> p[i]]
             ch == p[n]
  <1>1. p \in [1..n -> Char] /\ Strong(p) /\ Char \subseteq Nat
    BY PasswordGenerationAssumption DEF StrongOnes
  <1>2. d \in [1..(n - 1) -> Char] /\ ch \in Char
    BY <1>1
  <1>3. d \in Seq(Char) /\ Len(d) = n - 1 /\ p \in Seq(Char) /\ Len(p) = n
    BY <1>1, <1>2
  <1>4. \A i \in 1..(n - 1) : d[i] = p[i]
    OBVIOUS
  <1> HIDE DEF d
  <1>5. p = Append(d, ch)
    BY <1>1, <1>2, <1>3, <1>4
  <1>6. Strong(d)
    <2> SUFFICES ASSUME NEW i \in 1..Len(d), i + 2 <= Len(d)
                 PROVE  /\ ~(d[i] = d[i + 1] /\ d[i + 1] = d[i + 2])
                        /\ ~(d[i + 1] = d[i] + 1 /\ d[i + 2] = d[i + 1] + 1)
                        /\ ~(d[i] = d[i + 1] + 1 /\ d[i + 1] = d[i + 2] + 1)
      BY DEF Strong
    <2>1. d[i] = p[i] /\ d[i + 1] = p[i + 1] /\ d[i + 2] = p[i + 2]
      BY <1>3, <1>4
    <2>2. i \in 1..Len(p) /\ i + 2 <= Len(p)
      BY <1>3
    <2>3. QED
      BY <1>1, <2>1, <2>2 DEF Strong
  <1>7. Accepts(d, ch)
    <2> SUFFICES ASSUME Len(d) >= 2
                 PROVE  LET y == d[Len(d)]
                            x == d[Len(d) - 1]
                        IN ~(ch = y /\ y = x) /\ ~IsSequential(x, y, ch)
      BY DEF Accepts
    <2> DEFINE j == n - 2
    <2>0. /\ j \in 1..(n - 1) /\ j + 1 \in 1..(n - 1) /\ j + 2 = n
          /\ Len(d) = j + 1 /\ Len(d) - 1 = j
      BY <1>3
    <2> HIDE DEF j
    <2>1. /\ d[Len(d)] = p[j + 1] /\ d[Len(d) - 1] = p[j] /\ ch = p[j + 2]
          /\ j \in 1..Len(p) /\ j + 2 <= Len(p)
          /\ p[j] \in Nat /\ p[j + 1] \in Nat /\ p[j + 2] \in Nat
      <3>1. j \in 1..n /\ j + 1 \in 1..n /\ j + 2 \in 1..n
        BY <2>0
      <3>2. p[j] \in Char /\ p[j + 1] \in Char /\ p[j + 2] \in Char
        BY <1>1, <3>1
      <3>3. p[j] \in Nat /\ p[j + 1] \in Nat /\ p[j + 2] \in Nat
        BY <1>1, <3>2
      <3>4. d[Len(d)] = p[j + 1] /\ d[Len(d) - 1] = p[j] /\ ch = p[j + 2]
        BY <1>4, <2>0
      <3>5. QED
        BY <1>3, <2>0, <3>3, <3>4
    <2>2. /\ ~(p[j] = p[j + 1] /\ p[j + 1] = p[j + 2])
          /\ ~(p[j + 1] = p[j] + 1 /\ p[j + 2] = p[j + 1] + 1)
          /\ ~(p[j] = p[j + 1] + 1 /\ p[j + 1] = p[j + 2] + 1)
      BY <1>1, <2>1 DEF Strong
    <2>3. QED
      BY <2>1, <2>2 DEF IsSequential
  <1>8. QED
    BY <1>2, <1>5, <1>6, <1>7 DEF StrongOnes

(* A draft of m characters, one character longer.                          *)
LEMMA Longer ==
    ASSUME NEW m \in Nat, NEW d \in [1..m -> Char], NEW ch \in Char
    PROVE  /\ d \in Seq(Nat) /\ Len(d) = m /\ ch \in Nat
           /\ Append(d, ch) \in [1..(m + 1) -> Char]
  <1>1. Char \subseteq Nat
    BY PasswordGenerationAssumption
  <1>2. d \in Seq(Char) /\ Len(d) = m
    OBVIOUS
  <1>3. d \in Seq(Nat)
    BY <1>1, <1>2, SeqMonotonic
  <1>4. Append(d, ch) \in Seq(Char) /\ Len(Append(d, ch)) = m + 1
    BY <1>2
  <1>5. Append(d, ch) \in [1..(m + 1) -> Char]
    BY <1>4, LenProperties
  <1>6. QED
    BY <1>1, <1>2, <1>3, <1>5

LEMMA ExtendedStrongOnes ==
    ASSUME NEW n \in Nat, n >= 2
    PROVE  StrongOnes(n) = Extended(StrongOnes(n - 1))
  <1>1. ASSUME NEW d \in StrongOnes(n - 1), NEW ch \in Char, Accepts(d, ch)
        PROVE  Append(d, ch) \in StrongOnes(n)
    <2>1. d \in [1..(n - 1) -> Char] /\ Strong(d) /\ n - 1 \in Nat /\ (n - 1) + 1 = n
      BY DEF StrongOnes
    <2>2. d \in Seq(Nat) /\ ch \in Nat /\ Append(d, ch) \in [1..n -> Char]
      BY <2>1, Longer
    <2>3. QED
      BY <1>1, <2>1, <2>2, AcceptedStaysStrong DEF StrongOnes
  <1> DEFINE After(d) == {Append(d, ch) : ch \in {x \in Char : Accepts(d, x)}}
  <1>2. \A d, q : q \in After(d) <=> \E ch \in Char : Accepts(d, ch) /\ q = Append(d, ch)
    OBVIOUS
  <1> HIDE DEF After
  <1>3. ASSUME NEW q \in Extended(StrongOnes(n - 1)) PROVE q \in StrongOnes(n)
    <2>1. PICK d \in StrongOnes(n - 1) : q \in After(d)
      BY DEF Extended, After
    <2>2. PICK ch \in Char : Accepts(d, ch) /\ q = Append(d, ch)
      BY <1>2, <2>1
    <2>3. QED
      BY <1>1, <2>2
  <1>4. ASSUME NEW q \in StrongOnes(n) PROVE q \in Extended(StrongOnes(n - 1))
    <2>1. PICK d \in StrongOnes(n - 1) : q \in After(d)
      BY <1>2, StrongIsExtension
    <2>2. QED
      BY <2>1 DEF Extended, After
  <1>5. QED
    BY <1>3, <1>4

LEMMA DraftsDef ==
    Drafts = [n \in Nat |-> IF n <= 1 THEN First ELSE Extended(Drafts[n - 1])]
  <1> DEFINE F == [n \in Nat |-> IF n <= 1 THEN First ELSE StrongOnes(n)]
  <1>1. ASSUME NEW n \in Nat
        PROVE  F[n] = IF n <= 1 THEN First ELSE Extended(F[n - 1])
    <2>1. CASE n <= 1
      BY <2>1
    <2>2. CASE n > 1
      <3>1. n - 1 \in Nat /\ n >= 2
        BY <2>2
      <3>2. F[n - 1] = StrongOnes(n - 1)
        BY <3>1, FirstStrongOnes
      <3>3. QED
        BY <2>2, <3>1, <3>2, ExtendedStrongOnes
    <2>3. QED
      BY <2>1, <2>2
  <1>2. F = [n \in Nat |-> IF n <= 1 THEN First ELSE Extended(F[n - 1])]
    BY <1>1
  <1> HIDE DEF F
  <1>3. \E f : f = [n \in Nat |-> IF n <= 1 THEN First ELSE Extended(f[n - 1])]
    BY <1>2
  <1>4. Drafts = CHOOSE f : f = [n \in Nat |-> IF n <= 1 THEN First ELSE Extended(f[n - 1])]
    BY DEF Drafts, First, Extended
  <1>5. QED
    BY <1>3, <1>4

LEMMA DraftsAreStrong ==
    \A n \in Nat \ {0} : Drafts[n] = StrongOnes(n)
  <1> DEFINE T == {n \in Nat \ {0} : Drafts[n] = StrongOnes(n)}
  <1>1. 1 \in T
    BY DraftsDef, FirstStrongOnes
  <1>2. ASSUME NEW n \in Nat \ {0}, n \in T PROVE n + 1 \in T
    <2>1. Drafts[n + 1] = Extended(Drafts[(n + 1) - 1]) /\ (n + 1) - 1 = n
      BY DraftsDef
    <2>2. QED
      BY <1>2, <2>1, ExtendedStrongOnes
  <1> HIDE DEF T
  <1>3. \A n \in Nat \ {0} : n \in T
    BY <1>1, <1>2, SetInduction
  <1>4. QED
    BY <1>3 DEF T

(* The passwords generate_password can return are the strong ones of its   *)
(* length, all of them, and its loop is never stuck, for any alphabet of   *)
(* two characters or more and any length.                                  *)
THEOREM StrongOnesGenerated ==
    /\ Drafts[Length] = {p \in [1..Length -> Char] : Strong(p)}
    /\ \A n \in 1..Length : \A d \in Drafts[n] : \E ch \in Char : Accepts(d, ch)
  <1>1. Length \in Nat \ {0}
    BY PasswordGenerationAssumption
  <1>2. Drafts[Length] = {p \in [1..Length -> Char] : Strong(p)}
    BY <1>1, DraftsAreStrong DEF StrongOnes
  <1>3. ASSUME NEW n \in 1..Length, NEW d \in Drafts[n]
        PROVE  \E ch \in Char : Accepts(d, ch)
    <2>1. n \in Nat \ {0}
      BY <1>1
    <2>2. d \in [1..n -> Char]
      BY <2>1, DraftsAreStrong DEF StrongOnes
    <2>3. d \in Seq(Nat)
      BY <1>1, <2>1, <2>2, PasswordGenerationAssumption, Longer
    <2>4. QED
      BY <2>3, SomeCharacterAccepted
  <1>4. QED
    BY <1>2, <1>3

(* Only a creation gives the account of this username another id, and it   *)
(* takes a generated password: every account starts with a strong one,     *)
(* whatever the clients do (create_or_update_user, users.py:38).           *)
THEOREM NewAccountsStartStrong == Spec => AccountsStartStrong
  <1>1. ASSUME [Next]_vars, current' \notin {0, current} PROVE Strong(password')
    <2>1. PICK c \in Client : Create(c)
      BY <1>1 DEF Next, vars, serverVars, NothingDone, TakeUser, CreateOrUpdate,
         ResetPassword, DeleteByUsername, Update, ChangePassword, Reset, List,
         Delete, RequestFails, Deactivate
    <2>2. password' \in Generated
      BY <1>1, <2>1 DEF Create, NothingDone, serverVars
    <2>3. QED
      BY <2>2, StrongOnesGenerated DEF Generated
  <1>2. [Next]_vars => [current' \notin {0, current} => Strong(password')]_vars
    BY <1>1
  <1>3. QED
    BY <1>2, PTL DEF Spec, AccountsStartStrong
===============================================================================
