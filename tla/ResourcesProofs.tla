--------------------------- MODULE ResourcesProofs ---------------------------
(***************************************************************************)
(* Theorems of Resources, for any clients, any names and any number of     *)
(* resources.  What a client found by its lookup stays true until somebody *)
(* else changes the store, and whether somebody did is what stale says.    *)
(***************************************************************************)
EXTENDS Resources, TLAPS

(* Ids are given in order and never again.                                 *)
Fresh == \A i \in Ids : i > last => store[i] = NoName

(* An operation that has not ended has no outcome, and each request is     *)
(* part of some operations only.                                           *)
Underway(c) ==
    /\ pc[c] # "idle" => outcome[c] = "none"
    /\ pc[c] = "lookup" /\ op[c] = "put" => kind # "ruleset"
    /\ pc[c] = "lookup" /\ op[c] = "get" => kind \in {"library", "config", "file"}
    /\ pc[c] = "lookup" /\ op[c] = "delete" => kind # "file"
    /\ pc[c] = "fetch" => op[c] \in {"put", "get"} /\ kind \in {"library", "config"}
    /\ pc[c] = "write" => op[c] = "put"
    /\ pc[c] = "delete" => op[c] = "delete"

(* What the lookup of client c has found, ahead of each request.           *)
Fetching(c) ==
    pc[c] = "fetch" => \E i \in Ids :
        /\ targets[c] = {i}
        /\ ~stale[c] => store[i] = object[c].name

Creating(c) ==
    targets[c] = {} /\ (~stale[c] /\ kind # "ruleset" => Matches(c) = {})
Updating(c) ==
    \E i \in Ids :
        /\ targets[c] = {i} /\ kind \in {"library", "config", "connection"}
        /\ kind \in {"library", "config"} => i = object[c].id
        /\ ~stale[c] => \/ store[i] = object[c].name
                        \/ kind = "connection" /\ i = object[c].id /\ Matches(c) = {}
Writing(c) == pc[c] = "write" => Creating(c) \/ Updating(c)

Deleting(c) ==
    pc[c] = "delete" =>
        IF kind = "file"
        THEN /\ targets[c] \subseteq {object[c].id}
             /\ ~stale[c] => object[c].id \in targets[c] \/ store[object[c].id] = NoName
        ELSE ~stale[c] => targets[c] = Matches(c)

(* The object of a file being deleted, or just deleted, has an id.         *)
HasId(c) ==
    kind = "file" /\ (pc[c] = "delete" \/ (op[c] = "delete" /\ outcome[c] = "deleted"))
        => object[c].id \in Ids

(* What ObjectNamesItsResource and DeleteByNameComplete say of a client.    *)
OwnsIt(c) ==
    op[c] = "put" /\ outcome[c] = "stored" =>
        object[c].id # 0 /\ object[c].id = written[c]
AllGone(c) ==
    op[c] = "delete" /\ outcome[c] = "deleted" /\ ~stale[c] =>
        IF kind = "file" THEN store[object[c].id] = NoName ELSE Matches(c) = {}

ClientInv(c) ==
    /\ Underway(c) /\ Fetching(c) /\ Writing(c) /\ Deleting(c)
    /\ HasId(c) /\ OwnsIt(c) /\ AllGone(c)

(* TypeOK in two parts: the truth values, and all else.                    *)
Flags == unique \in BOOLEAN /\ stale \in [Client -> BOOLEAN] /\ raced \in BOOLEAN
Values ==
    /\ kind \in Kinds
    /\ store \in [Ids -> Name \cup {NoName}]
    /\ last \in 0..MaxId
    /\ pc \in [Client -> {"idle", "lookup", "fetch", "write", "delete"}]
    /\ op \in [Client -> {"none", "put", "get", "delete"}]
    /\ object \in [Client -> [name : Name, id : 0..MaxId]]
    /\ targets \in [Client -> SUBSET Ids]
    /\ outcome \in [Client -> Outcomes]
    /\ written \in [Client -> 0..MaxId]
    /\ \A c \in Client : op[c] = "delete" => outcome[c] # "notFound"

VInv == Values /\ Fresh /\ NamesStayUnique /\ \A c \in Client : ClientInv(c)
IInv == Flags /\ VInv

(* The step of client c leaves the other clients where they are, and if it *)
(* changes the store, then what they looked up is stale.                   *)
Others(c) ==
    \A d \in Client \ {c} :
        /\ pc'[d] = pc[d] /\ op'[d] = op[d] /\ object'[d] = object[d]
        /\ targets'[d] = targets[d] /\ outcome'[d] = outcome[d]
        /\ written'[d] = written[d]
        /\ ~stale'[d] => ~stale[d] /\ store' = store

-----------------------------------------------------------------------------
LEMMA TypeParts == TypeOK <=> Flags /\ Values
  BY DEF TypeOK, Flags, Values

LEMMA InitInv == Init => IInv
  <1> SUFFICES ASSUME Init PROVE IInv
    OBVIOUS
  <1>1. Flags
    BY Zenon DEF Init, Flags
  <1>2. Values
    BY ResourcesAssumption DEF Init, Values, Outcomes
  <1>3. Fresh /\ NamesStayUnique /\ \A c \in Client : ClientInv(c)
    BY DEF Init, Fresh, NamesStayUnique, ClientInv, Underway, Fetching, Writing,
       Deleting, HasId, OwnsIt, AllGone
  <1>4. QED
    BY <1>1, <1>2, <1>3 DEF IInv, VInv

(* A change of the store by client c, and a step that makes none.          *)
LEMMA ChangeIsNoticed ==
    ASSUME NEW c \in Client, NEW s, Changes(c, s)
    PROVE  /\ \A d \in Client \ {c} : ~stale'[d] => ~stale[d] /\ store' = store
           /\ ~stale'[c] => ~stale[c]
           /\ ~raced' => ~raced /\ ~stale[c]
           /\ stale' \in [Client -> BOOLEAN] /\ raced' \in BOOLEAN
           /\ store' = s
  BY Zenon DEF Changes

LEMMA LooksAgain ==
    ASSUME Flags, NEW c \in Client, stale' = [stale EXCEPT ![c] = FALSE]
    PROVE  /\ \A d \in Client \ {c} : ~stale'[d] => ~stale[d]
           /\ stale' \in [Client -> BOOLEAN]
  BY Zenon DEF Flags

LEMMA FlagsKept == Flags /\ [Next]_vars => Flags'
  <1> SUFFICES ASSUME Flags, [Next]_vars PROVE Flags'
    OBVIOUS
  <1>1. /\ unique' = unique
        /\ \/ UNCHANGED <<stale, raced>>
           \/ \E c \in Client : \/ \E s : Changes(c, s)
                                \/ raced' = raced /\ stale' = [stale EXCEPT ![c] = FALSE]
    BY DEF Next, vars, serverVars, Begin, DeleteFile, Rename, Lookup, LookupFile,
       Fetch, Create, Update, ListForDelete, DeleteNext, RequestFails, Unchanged
  <1>2. QED
    BY <1>1, ChangeIsNoticed, LooksAgain, Zenon DEF Flags

(* An object that is given the id of a resource.                           *)
LEMMA SetsId ==
    ASSUME Values, NEW c \in Client, NEW i \in Ids,
           object' = [object EXCEPT ![c].id = i]
    PROVE  /\ object'[c].name = object[c].name /\ object'[c].id = i
           /\ \A d \in Client \ {c} : object'[d] = object[d]
           /\ object' \in [Client -> [name : Name, id : 0..MaxId]]
  <1>1. object \in [Client -> [name : Name, id : 0..MaxId]] /\ i \in 0..MaxId
    BY ResourcesAssumption DEF Values, Ids
  <1>2. QED
    BY <1>1

(* What a client knows outlasts the steps of the others.                   *)
LEMMA OthersKept ==
    ASSUME VInv, NEW c \in Client, kind' = kind, Others(c)
    PROVE  \A d \in Client \ {c} : ClientInv(d)'
  <1> SUFFICES ASSUME NEW d \in Client \ {c} PROVE ClientInv(d)'
    OBVIOUS
  <1>1. ClientInv(d)
    BY DEF VInv
  <1>2. /\ pc'[d] = pc[d] /\ op'[d] = op[d] /\ object'[d] = object[d]
        /\ targets'[d] = targets[d] /\ outcome'[d] = outcome[d]
        /\ written'[d] = written[d]
        /\ ~stale'[d] => ~stale[d] /\ store' = store
    BY DEF Others
  <1>3. ~stale'[d] => Matches(d)' = Matches(d)
    BY <1>2 DEF Matches, Named
  <1>4. Underway(d)' /\ HasId(d)' /\ OwnsIt(d)'
    BY <1>1, <1>2 DEF ClientInv, Underway, HasId, OwnsIt
  <1>5. Fetching(d)'
    BY <1>1, <1>2 DEF ClientInv, Fetching
  <1>6. Writing(d)'
    BY <1>1, <1>2, <1>3 DEF ClientInv, Writing, Creating, Updating
  <1>7. Deleting(d)' /\ AllGone(d)'
    BY <1>1, <1>2, <1>3 DEF ClientInv, Deleting, AllGone
  <1>8. QED
    BY <1>4, <1>5, <1>6, <1>7 DEF ClientInv

LEMMA StepDone ==
    ASSUME VInv, NEW c \in Client, kind' = kind, Others(c), ClientInv(c)',
           Values', Fresh', NamesStayUnique'
    PROVE  VInv'
  BY OthersKept DEF VInv

LEMMA StoreKept ==
    ASSUME VInv, UNCHANGED <<store, last, raced>>
    PROVE  Fresh' /\ NamesStayUnique'
  BY DEF VInv, Fresh, NamesStayUnique

-----------------------------------------------------------------------------
(* The operations begin, and the object is renamed between them.           *)
LEMMA BeginKeeps ==
    ASSUME IInv, NEW c \in Client, NEW o \in {"put", "get", "delete"}, Begin(c, o)
    PROVE  VInv'
  <1>1. VInv /\ Values /\ Flags
    BY DEF IInv, VInv
  <1>2. /\ pc[c] = "idle"
        /\ o = "get" => kind \in {"library", "config", "file"}
        /\ o = "delete" => kind # "file"
        /\ pc' = [pc EXCEPT ![c] =
                     IF o = "put" /\ kind = "ruleset" THEN "write" ELSE "lookup"]
        /\ op' = [op EXCEPT ![c] = o]
        /\ targets' = [targets EXCEPT ![c] = {}]
        /\ outcome' = [outcome EXCEPT ![c] = "none"]
        /\ written' = [written EXCEPT ![c] = 0]
        /\ stale' = [stale EXCEPT ![c] = FALSE]
        /\ UNCHANGED <<kind, unique, store, last, object, raced>>
    BY DEF Begin, serverVars
  <1>3. Others(c)
    BY <1>1, <1>2, LooksAgain DEF Others, Values
  <1>4. ClientInv(c)'
    BY <1>1, <1>2 DEF Values, ClientInv, Underway, Fetching, Writing, Creating,
       Deleting, HasId, OwnsIt, AllGone
  <1>5. Values'
    BY <1>1, <1>2, ResourcesAssumption DEF Values, Outcomes
  <1>6. QED
    BY <1>1, <1>2, <1>3, <1>4, <1>5, StoreKept, StepDone

LEMMA DeleteFileKeeps ==
    ASSUME IInv, NEW c \in Client, DeleteFile(c)
    PROVE  VInv'
  <1>1. VInv /\ Values /\ Flags
    BY DEF IInv, VInv
  <1>2. /\ pc[c] = "idle" /\ kind = "file"
        /\ op' = [op EXCEPT ![c] = "delete"]
        /\ \/ /\ outcome' = [outcome EXCEPT ![c] = "refused"]
              /\ UNCHANGED <<pc, targets>>
           \/ /\ object[c].id # 0
              /\ pc' = [pc EXCEPT ![c] = "delete"]
              /\ targets' = [targets EXCEPT ![c] = {object[c].id}]
              /\ outcome' = [outcome EXCEPT ![c] = "none"]
        /\ written' = [written EXCEPT ![c] = 0]
        /\ stale' = [stale EXCEPT ![c] = FALSE]
        /\ UNCHANGED <<kind, unique, store, last, object, raced>>
    BY DEF DeleteFile, serverVars
  <1>3. Others(c)
    BY <1>1, <1>2, LooksAgain DEF Others, Values
  <1>4. object[c].id # 0 => object[c].id \in Ids
    BY <1>1, ResourcesAssumption DEF Values, Ids
  <1>5. ClientInv(c)'
    BY <1>1, <1>2, <1>4 DEF Values, ClientInv, Underway, Fetching, Writing,
       Deleting, HasId, OwnsIt, AllGone
  <1>6. Values'
    <2>1. \E r \in {"refused", "none"} : outcome' = [outcome EXCEPT ![c] = r]
      BY <1>2
    <2>2. outcome' \in [Client -> Outcomes] /\ outcome'[c] # "notFound"
      BY <1>1, <2>1 DEF Values, Outcomes
    <2>3. /\ pc' \in [Client -> {"idle", "lookup", "fetch", "write", "delete"}]
          /\ targets' \in [Client -> SUBSET Ids]
      BY <1>1, <1>2, <1>4 DEF Values
    <2>4. /\ op' \in [Client -> {"none", "put", "get", "delete"}]
          /\ written' \in [Client -> 0..MaxId]
      BY <1>1, <1>2, ResourcesAssumption DEF Values
    <2>5. \A d \in Client : op'[d] = "delete" => outcome'[d] # "notFound"
      BY <1>1, <1>2, <2>1, <2>2 DEF Values
    <2>6. QED
      BY <1>1, <1>2, <2>2, <2>3, <2>4, <2>5 DEF Values
  <1>7. QED
    BY <1>1, <1>2, <1>3, <1>5, <1>6, StoreKept, StepDone

LEMMA RenameKeeps ==
    ASSUME IInv, NEW c \in Client, NEW n \in Name, Rename(c, n)
    PROVE  VInv'
  <1>1. VInv /\ Values /\ Flags
    BY DEF IInv, VInv
  <1>2. PICK i \in {0, object[c].id} : object' = [object EXCEPT ![c] = [name |-> n, id |-> i]]
    BY DEF Rename
  <1>3. /\ pc[c] = "idle"
        /\ outcome' = [outcome EXCEPT ![c] = "none"]
        /\ UNCHANGED <<kind, unique, store, last, pc, op, targets, written, stale, raced>>
    BY DEF Rename, serverVars
  <1>4. Others(c)
    BY <1>1, <1>2, <1>3 DEF Others, Values
  <1>5. ClientInv(c)'
    BY <1>1, <1>2, <1>3 DEF Values, ClientInv, Underway, Fetching, Writing,
       Deleting, HasId, OwnsIt, AllGone
  <1>6. Values'
    BY <1>1, <1>2, <1>3, ResourcesAssumption DEF Values, Outcomes
  <1>7. QED
    BY <1>1, <1>3, <1>4, <1>5, <1>6, StoreKept, StepDone

-----------------------------------------------------------------------------
(* The lookups.                                                            *)
LEMMA LookupFileKeeps ==
    ASSUME IInv, NEW c \in Client, LookupFile(c)
    PROVE  VInv'
  <1>1. VInv /\ Values /\ Flags /\ ClientInv(c)
    BY DEF IInv, VInv
  <1>2. PICK o \in {"present", "found"} :
           /\ pc' = [pc EXCEPT ![c] = "idle"]
           /\ outcome' = [outcome EXCEPT ![c] = o]
    BY DEF LookupFile, Ends
  <1>3. /\ pc[c] = "lookup" /\ op[c] \in {"put", "get"}
        /\ stale' = [stale EXCEPT ![c] = FALSE]
        /\ UNCHANGED <<kind, unique, store, last, op, object, targets, written, raced>>
    BY DEF LookupFile, serverVars
  <1>4. Others(c)
    BY <1>1, <1>2, <1>3, LooksAgain DEF Others, Values
  <1>5. ClientInv(c)'
    BY <1>1, <1>2, <1>3 DEF Values, ClientInv, Underway, Fetching, Writing,
       Deleting, HasId, OwnsIt, AllGone
  <1>6. Values'
    BY <1>1, <1>2, <1>3 DEF Values, Outcomes
  <1>7. QED
    BY <1>1, <1>3, <1>4, <1>5, <1>6, StoreKept, StepDone

LEMMA LookupKeeps ==
    ASSUME IInv, NEW c \in Client, Lookup(c)
    PROVE  VInv'
  <1>1. VInv /\ Values /\ Flags /\ ClientInv(c)
    BY DEF IInv, VInv
  <1>2. /\ pc[c] = "lookup" /\ op[c] \in {"put", "get"}
        /\ outcome[c] = "none"
        /\ stale' = [stale EXCEPT ![c] = FALSE]
        /\ UNCHANGED <<kind, unique, store, last, op, written, raced>>
    BY <1>1 DEF Lookup, serverVars, ClientInv, Underway
  <1>3. CASE /\ Matches(c) = {} /\ op[c] = "get"
             /\ pc' = [pc EXCEPT ![c] = "idle"]
             /\ outcome' = [outcome EXCEPT ![c] = "absent"]
             /\ UNCHANGED <<targets, object>>
    <2>1. Others(c)
      BY <1>1, <1>2, <1>3, LooksAgain DEF Others, Values
    <2>2. ClientInv(c)'
      BY <1>1, <1>2, <1>3 DEF Values, ClientInv, Underway, Fetching, Writing,
         Deleting, HasId, OwnsIt, AllGone
    <2>3. Values'
      BY <1>1, <1>2, <1>3 DEF Values, Outcomes
    <2>4. QED
      BY <1>1, <1>2, <2>1, <2>2, <2>3, StoreKept, StepDone
  <1>4. CASE /\ Matches(c) = {} /\ op[c] = "put"
             /\ targets' = [targets EXCEPT ![c] =
                    IF kind = "connection" THEN {object[c].id} \ {0} ELSE {}]
             /\ pc' = [pc EXCEPT ![c] = "write"]
             /\ UNCHANGED <<object, outcome>>
    <2>1. Others(c)
      BY <1>1, <1>2, <1>4, LooksAgain DEF Others, Values
    <2>2. object[c].id # 0 => object[c].id \in Ids
      BY <1>1, ResourcesAssumption DEF Values, Ids
    <2>3. Matches(c)' = {}
      BY <1>2, <1>4 DEF Matches, Named
    <2>4. \/ targets'[c] = {}
          \/ kind = "connection" /\ object[c].id \in Ids /\ targets'[c] = {object[c].id}
      BY <1>1, <1>4, <2>2 DEF Values
    <2>5. Writing(c)'
      BY <1>2, <1>4, <2>3, <2>4 DEF Writing, Creating, Updating
    <2>6. ClientInv(c)'
      BY <1>1, <1>2, <1>4, <2>5 DEF Values, ClientInv, Underway, Fetching,
         Deleting, HasId, OwnsIt, AllGone
    <2>7. Values'
      BY <1>1, <1>2, <1>4, <2>2 DEF Values, Outcomes
    <2>8. QED
      BY <1>1, <1>2, <2>1, <2>6, <2>7, StoreKept, StepDone
  <1>5. CASE \E i \in Matches(c) :
             /\ kind # "file"
             /\ targets' = [targets EXCEPT ![c] = {i}]
             /\ pc' = [pc EXCEPT ![c] =
                    IF kind = "library" \/ op[c] = "get" THEN "fetch" ELSE "write"]
             /\ object' = IF op[c] = "put" /\ kind = "config"
                          THEN [object EXCEPT ![c].id = IdAfterLookup(c, i)]
                          ELSE object
             /\ UNCHANGED outcome
    <2>1. PICK i \in Matches(c) :
             /\ kind # "file"
             /\ targets' = [targets EXCEPT ![c] = {i}]
             /\ pc' = [pc EXCEPT ![c] =
                    IF kind = "library" \/ op[c] = "get" THEN "fetch" ELSE "write"]
             /\ object' = IF op[c] = "put" /\ kind = "config"
                          THEN [object EXCEPT ![c].id = i]
                          ELSE object
             /\ outcome' = outcome
      BY <1>5 DEF IdAfterLookup
    <2>2. i \in Ids /\ store[i] = object[c].name
      BY DEF Matches, Named
    <2>3. /\ object'[c].name = object[c].name
          /\ \A d \in Client \ {c} : object'[d] = object[d]
          /\ op[c] = "put" /\ kind = "config" => object'[c].id = i
          /\ object' \in [Client -> [name : Name, id : 0..MaxId]]
      BY <1>1, <2>1, <2>2, ResourcesAssumption DEF Values, Ids
    <2>4. Others(c)
      BY <1>1, <1>2, <2>1, <2>3, LooksAgain DEF Others, Values
    <2>5. /\ targets'[c] = {i} /\ op'[c] = op[c] /\ outcome'[c] = "none"
          /\ pc'[c] = IF kind = "library" \/ op[c] = "get" THEN "fetch" ELSE "write"
          /\ store'[i] = object'[c].name /\ kind' = kind
      BY <1>1, <1>2, <2>1, <2>2, <2>3 DEF Values
    <2>6. kind # "ruleset" /\ (op[c] = "get" => kind \in {"library", "config"})
      BY <1>1, <1>2, <2>1 DEF ClientInv, Underway
    <2>7. Underway(c)' /\ HasId(c)' /\ OwnsIt(c)' /\ AllGone(c)' /\ Deleting(c)'
      BY <1>1, <1>2, <2>1, <2>5, <2>6
      DEF Values, Underway, HasId, OwnsIt, AllGone, Deleting
    <2>8. Fetching(c)'
      BY <2>2, <2>5 DEF Fetching
    <2>9. Writing(c)'
      <3>1. pc'[c] = "write" => op[c] = "put" /\ kind \in {"config", "connection"}
        BY <1>1, <1>2, <2>1, <2>5, <2>6 DEF Values, Kinds
      <3>2. QED
        BY <2>2, <2>3, <2>5, <3>1 DEF Writing, Updating
    <2>10. Values'
      BY <1>1, <1>2, <2>1, <2>2, <2>3 DEF Values
    <2>11. QED
      BY <1>1, <1>2, <2>4, <2>7, <2>8, <2>9, <2>10, StoreKept, StepDone DEF ClientInv
  <1>6. QED
    BY <1>3, <1>4, <1>5 DEF Lookup, Ends

LEMMA ListForDeleteKeeps ==
    ASSUME IInv, NEW c \in Client, ListForDelete(c)
    PROVE  VInv'
  <1>1. VInv /\ Values /\ Flags /\ ClientInv(c)
    BY DEF IInv, VInv
  <1>2. /\ pc[c] = "lookup" /\ op[c] = "delete" /\ outcome[c] = "none"
        /\ targets' = [targets EXCEPT ![c] = Matches(c)]
        /\ pc' = [pc EXCEPT ![c] = "delete"]
        /\ stale' = [stale EXCEPT ![c] = FALSE]
        /\ UNCHANGED <<kind, unique, store, last, op, object, outcome, written, raced>>
    BY <1>1 DEF ListForDelete, serverVars, ClientInv, Underway
  <1>3. Others(c)
    BY <1>1, <1>2, LooksAgain DEF Others, Values
  <1>4. kind # "file"
    BY <1>1, <1>2 DEF ClientInv, Underway
  <1>5. Deleting(c)' /\ HasId(c)'
    <2>1. targets'[c] = Matches(c) /\ Matches(c)' = Matches(c)
      BY <1>1, <1>2 DEF Values, Matches, Named
    <2>2. QED
      BY <1>2, <1>4, <2>1 DEF Deleting, HasId
  <1>6. ClientInv(c)'
    BY <1>1, <1>2, <1>5 DEF Values, ClientInv, Underway, Fetching, Writing, OwnsIt, AllGone
  <1>7. Values'
    <2>1. Matches(c) \subseteq Ids
      BY DEF Matches, Named
    <2>2. QED
      BY <1>1, <1>2, <2>1 DEF Values
  <1>8. QED
    BY <1>1, <1>2, <1>3, <1>6, <1>7, StoreKept, StepDone

(* A request that has no effect ends the operation without success.        *)
LEMMA EndsBadly ==
    ASSUME IInv, NEW c \in Client, NEW o \in {"notFound", "refused", "failed", "found"},
           Ends(c, o), Unchanged,
           o = "notFound" => op[c] # "delete", o = "found" => op[c] # "delete",
           UNCHANGED <<kind, unique, op, object, targets, written>>
    PROVE  VInv'
  <1>1. VInv /\ Values /\ Flags /\ ClientInv(c)
    BY DEF IInv, VInv
  <1>2. /\ pc' = [pc EXCEPT ![c] = "idle"]
        /\ outcome' = [outcome EXCEPT ![c] = o]
        /\ UNCHANGED <<store, last, stale, raced>>
    BY DEF Ends, Unchanged
  <1>3. Others(c)
    BY <1>1, <1>2 DEF Others, Values
  <1>4. ClientInv(c)'
    BY <1>1, <1>2 DEF Values, ClientInv, Underway, Fetching, Writing,
       Deleting, HasId, OwnsIt, AllGone
  <1>5. Values'
    BY <1>1, <1>2 DEF Values, Outcomes
  <1>6. QED
    BY <1>1, <1>2, <1>3, <1>4, <1>5, StoreKept, StepDone

LEMMA RequestFailsKeeps ==
    ASSUME IInv, NEW c \in Client, RequestFails(c)
    PROVE  VInv'
  BY EndsBadly DEF RequestFails

-----------------------------------------------------------------------------
(* The requests by id.                                                     *)
LEMMA FetchKeeps ==
    ASSUME IInv, NEW c \in Client, Fetch(c)
    PROVE  VInv'
  <1>1. VInv /\ Values /\ Flags /\ ClientInv(c)
    BY DEF IInv, VInv
  <1>2. /\ pc[c] = "fetch" /\ outcome[c] = "none"
        /\ op[c] \in {"put", "get"} /\ kind \in {"library", "config"}
        /\ Unchanged
        /\ UNCHANGED <<kind, unique, op, targets, written>>
    BY <1>1 DEF Fetch, ClientInv, Underway
  <1>3. PICK i \in targets[c] :
          \/ /\ store[i] = NoName
             /\ Ends(c, "notFound")
             /\ UNCHANGED object
          \/ /\ store[i] # NoName /\ op[c] = "get"
             /\ Ends(c, "found")
             /\ UNCHANGED object
          \/ /\ store[i] # NoName /\ op[c] = "put"
             /\ pc' = [pc EXCEPT ![c] = "write"]
             /\ object' = [object EXCEPT ![c].id = i]
             /\ UNCHANGED outcome
    BY DEF Fetch, IdAfterLookup
  <1>4. CASE UNCHANGED object /\ (Ends(c, "notFound") \/ Ends(c, "found"))
    BY <1>2, <1>4, EndsBadly
  <1>5. CASE /\ op[c] = "put"
             /\ pc' = [pc EXCEPT ![c] = "write"]
             /\ object' = [object EXCEPT ![c].id = i]
             /\ UNCHANGED outcome
    <2>1. i \in Ids /\ targets[c] = {i} /\ (~stale[c] => store[i] = object[c].name)
      BY <1>1, <1>2, <1>3 DEF ClientInv, Fetching
    <2>2. UNCHANGED <<store, last, stale, raced>>
      BY <1>2 DEF Unchanged
    <2>3. /\ object'[c].name = object[c].name /\ object'[c].id = i
          /\ \A d \in Client \ {c} : object'[d] = object[d]
          /\ object' \in [Client -> [name : Name, id : 0..MaxId]]
      BY <1>1, <1>5, <2>1, SetsId
    <2>4. Others(c)
      BY <1>1, <1>2, <1>5, <2>2, <2>3 DEF Others, Values
    <2>5. Writing(c)'
      BY <1>2, <2>1, <2>2, <2>3 DEF Writing, Updating
    <2>6. pc'[c] = "write"
      BY <1>1, <1>5 DEF Values
    <2>7. ClientInv(c)'
      BY <1>2, <1>5, <2>5, <2>6
      DEF ClientInv, Underway, Fetching, Deleting, HasId, OwnsIt, AllGone
    <2>8. Values'
      BY <1>1, <1>2, <1>5, <2>2, <2>3 DEF Values
    <2>9. QED
      BY <1>1, <1>2, <2>2, <2>4, <2>7, <2>8, StoreKept, StepDone
  <1>6. QED
    BY <1>3, <1>4, <1>5

(* The deletion of one target, and the end of the deletion.                *)
LEMMA DeleteNextKeeps ==
    ASSUME IInv, NEW c \in Client, DeleteNext(c)
    PROVE  VInv'
  <1>1. VInv /\ Values /\ Flags /\ ClientInv(c)
    BY DEF IInv, VInv
  <1>2. /\ pc[c] = "delete" /\ outcome[c] = "none" /\ op[c] = "delete"
        /\ UNCHANGED <<kind, unique, op, object, written>>
    BY <1>1 DEF DeleteNext, ClientInv, Underway
  <1>3. kind = "file" => object[c].id \in Ids
    BY <1>1, <1>2 DEF ClientInv, HasId
  <1>4. CASE \E i \in targets[c] :
             /\ Changes(c, [store EXCEPT ![i] = NoName])
             /\ targets' = [targets EXCEPT ![c] = @ \ {i}]
             /\ UNCHANGED <<pc, outcome, last>>
    <2>1. PICK i \in targets[c] :
             /\ Changes(c, [store EXCEPT ![i] = NoName])
             /\ targets' = [targets EXCEPT ![c] = @ \ {i}]
             /\ UNCHANGED <<pc, outcome, last>>
      BY <1>4
    <2>2. i \in Ids /\ store \in [Ids -> Name \cup {NoName}]
      BY <1>1 DEF Values
    <2>3. /\ store' = [store EXCEPT ![i] = NoName]
          /\ \A d \in Client \ {c} : ~stale'[d] => ~stale[d] /\ store' = store
          /\ ~stale'[c] => ~stale[c]
          /\ ~raced' => ~raced /\ ~stale[c]
      BY <2>1, ChangeIsNoticed
    <2>4. \A j \in Ids : store'[j] = IF j = i THEN NoName ELSE store[j]
      BY <2>2, <2>3
    <2>5. Others(c)
      BY <1>1, <1>2, <2>1, <2>3 DEF Others, Values
    <2>6. targets'[c] = targets[c] \ {i}
      BY <1>1, <2>1 DEF Values
    <2>7. Deleting(c)'
      <3>1. CASE kind = "file"
        BY <1>1, <1>2, <1>3, <2>3, <2>4, <2>6, <3>1 DEF ClientInv, Deleting
      <3>2. CASE kind # "file"
        <4>1. object[c].name # NoName
          BY <1>1, ResourcesAssumption DEF Values
        <4>2. Matches(c)' = Matches(c) \ {i}
          BY <1>2, <2>4, <4>1 DEF Matches, Named
        <4>3. QED
          BY <1>1, <1>2, <2>3, <2>6, <3>2, <4>2 DEF ClientInv, Deleting
      <3>3. QED
        BY <3>1, <3>2
    <2>8. ClientInv(c)'
      BY <1>2, <1>3, <2>1, <2>7
      DEF ClientInv, Underway, Fetching, Writing, HasId, OwnsIt, AllGone
    <2>9. Fresh' /\ NamesStayUnique'
      BY <1>1, <2>1, <2>3, <2>4 DEF VInv, Fresh, NamesStayUnique
    <2>10. Values'
      BY <1>1, <1>2, <2>1, <2>2, <2>3 DEF Values
    <2>11. QED
      BY <1>1, <1>2, <2>5, <2>8, <2>9, <2>10, StepDone
  <1>5. CASE targets[c] = {} /\ Ends(c, "deleted") /\ Unchanged /\ UNCHANGED targets
    <2>1. /\ targets[c] = {}
          /\ pc' = [pc EXCEPT ![c] = "idle"]
          /\ outcome' = [outcome EXCEPT ![c] = "deleted"]
          /\ UNCHANGED <<store, last, stale, raced, targets>>
      BY <1>5 DEF Ends, Unchanged
    <2>2. Others(c)
      BY <1>1, <1>2, <2>1 DEF Others, Values
    <2>3. AllGone(c)'
      <3>1. Matches(c)' = Matches(c)
        BY <1>2, <2>1 DEF Matches, Named
      <3>2. ~stale[c] => IF kind = "file" THEN store[object[c].id] = NoName
                                          ELSE Matches(c) = {}
        BY <1>1, <1>2, <2>1 DEF ClientInv, Deleting
      <3>3. QED
        BY <1>2, <2>1, <3>1, <3>2 DEF AllGone
    <2>4. pc'[c] = "idle" /\ op'[c] = "delete"
      BY <1>1, <1>2, <2>1 DEF Values
    <2>5. ClientInv(c)'
      BY <1>2, <1>3, <2>3, <2>4
      DEF ClientInv, Underway, Fetching, Writing, Deleting, HasId, OwnsIt
    <2>6. Values'
      BY <1>1, <1>2, <2>1 DEF Values, Outcomes
    <2>7. QED
      BY <1>1, <1>2, <2>1, <2>2, <2>5, <2>6, StoreKept, StepDone
  <1>6. QED
    BY <1>4, <1>5 DEF DeleteNext

-----------------------------------------------------------------------------
(* The writes.  Whichever resource was written is the one the object names.*)
LEMMA Written ==
    ASSUME Values, NEW c \in Client, ClientInv(c), pc[c] = "write", NEW i \in Ids,
           WriteEnds(c, i), IdAfterWrite(c, i) = i, UNCHANGED <<kind, op, targets>>
    PROVE  /\ ClientInv(c)'
           /\ \A d \in Client \ {c} :
                 /\ pc'[d] = pc[d] /\ object'[d] = object[d]
                 /\ outcome'[d] = outcome[d] /\ written'[d] = written[d]
           /\ pc' \in [Client -> {"idle", "lookup", "fetch", "write", "delete"}]
           /\ object' \in [Client -> [name : Name, id : 0..MaxId]]
           /\ outcome' \in [Client -> Outcomes]
           /\ written' \in [Client -> 0..MaxId]
           /\ \A d \in Client : op'[d] = "delete" => outcome'[d] # "notFound"
  <1>1. op[c] = "put"
    BY DEF ClientInv, Underway
  <1>2. written' = [written EXCEPT ![c] = i] /\ pc' = [pc EXCEPT ![c] = "idle"]
    BY DEF WriteEnds, Ends
  <1>3. \/ /\ outcome' = [outcome EXCEPT ![c] = "stored"]
           /\ object' = [object EXCEPT ![c].id = i]
        \/ outcome' = [outcome EXCEPT ![c] = "failed"] /\ object' = object
    BY DEF WriteEnds, Ends
  <1>4. /\ \A d \in Client \ {c} : object'[d] = object[d]
        /\ object' \in [Client -> [name : Name, id : 0..MaxId]]
        /\ outcome'[c] = "stored" => object'[c].id = i
    <2>1. CASE object' = [object EXCEPT ![c].id = i]
      BY <2>1, SetsId
    <2>2. CASE outcome' = [outcome EXCEPT ![c] = "failed"] /\ object' = object
      BY <2>2 DEF Values
    <2>3. QED
      BY <1>3, <2>1, <2>2
  <1>5. \E o \in {"stored", "failed"} : outcome' = [outcome EXCEPT ![c] = o]
    BY <1>3
  <1>6. /\ \A d \in Client \ {c} : pc'[d] = pc[d] /\ outcome'[d] = outcome[d]
                                   /\ written'[d] = written[d]
        /\ pc'[c] = "idle" /\ written'[c] = i /\ outcome'[c] \in {"stored", "failed"}
    BY <1>2, <1>5 DEF Values
  <1>7. /\ pc' \in [Client -> {"idle", "lookup", "fetch", "write", "delete"}]
        /\ outcome' \in [Client -> Outcomes]
        /\ written' \in [Client -> 0..MaxId]
        /\ \A d \in Client : op'[d] = "delete" => outcome'[d] # "notFound"
    BY <1>2, <1>5, <1>6, ResourcesAssumption DEF Values, Outcomes, Ids
  <1>8. ClientInv(c)'
    <2>1. i # 0
      BY ResourcesAssumption DEF Ids
    <2>2. QED
      BY <1>1, <1>4, <1>6, <2>1
      DEF ClientInv, Underway, Fetching, Writing, Deleting, HasId, OwnsIt, AllGone
  <1>9. QED
    BY <1>4, <1>6, <1>7, <1>8

(* While its lookup is true, a client updates a resource that has the name *)
(* of its object or one that is given it when no other has it.             *)
LEMMA UpdateIsNamed ==
    ASSUME VInv, NEW c \in Client, pc[c] = "write", ~stale[c],
           NEW i \in UpdateTargets(c) \cap Ids
    PROVE  \/ store[i] = object[c].name
           \/ /\ kind = "connection" /\ i = object[c].id
              /\ \A j \in Ids : store[j] # object[c].name
  <1>1. Creating(c) \/ Updating(c)
    BY DEF VInv, ClientInv, Writing
  <1>2. CASE kind = "ruleset"
    BY <1>2 DEF UpdateTargets, Matches, Named
  <1>3. CASE kind # "ruleset"
    <2>1. targets[c] # {}
      BY <1>3 DEF UpdateTargets
    <2>2. PICK j \in Ids :
             /\ targets[c] = {j} /\ kind \in {"library", "config", "connection"}
             /\ kind \in {"library", "config"} => j = object[c].id
             /\ \/ store[j] = object[c].name
                \/ kind = "connection" /\ j = object[c].id /\ Matches(c) = {}
      BY <1>1, <2>1 DEF Creating, Updating
    <2>3. i = j
      BY <2>2 DEF UpdateTargets
    <2>4. QED
      BY <2>2, <2>3 DEF Matches, Named
  <1>4. QED
    BY <1>2, <1>3

LEMMA CreateKeeps ==
    ASSUME IInv, NEW c \in Client, Create(c)
    PROVE  VInv'
  <1>1. VInv /\ Values /\ Flags /\ ClientInv(c)
    BY DEF IInv, VInv
  <1>2. /\ pc[c] = "write" /\ targets[c] = {}
        /\ kind = "ruleset" => Matches(c) = {}
        /\ UNCHANGED <<kind, unique, op, targets>>
    BY DEF Create
  <1>3. CASE Ends(c, "refused") /\ Unchanged /\ UNCHANGED <<object, written>>
    BY <1>2, <1>3, EndsBadly
  <1>4. CASE /\ last < MaxId
             /\ last' = last + 1
             /\ Changes(c, [store EXCEPT ![last'] = object[c].name])
             /\ WriteEnds(c, last')
    <2> DEFINE n == object[c].name
    <2>1. /\ last' \in Ids /\ last' = last + 1 /\ last' \in 0..MaxId /\ last \in Nat
          /\ store \in [Ids -> Name \cup {NoName}] /\ n \in Name
      BY <1>1, <1>4, ResourcesAssumption DEF Values, Ids
    <2>2. /\ store' = [store EXCEPT ![last'] = n]
          /\ \A d \in Client \ {c} : ~stale'[d] => ~stale[d] /\ store' = store
          /\ ~raced' => ~raced /\ ~stale[c]
      BY <1>4, ChangeIsNoticed
    <2>3. \A j \in Ids : store'[j] = IF j = last' THEN n ELSE store[j]
      BY <2>1, <2>2
    <2>4. IdAfterWrite(c, last') = last'
      BY <1>2 DEF IdAfterWrite
    <2>5. Others(c)
      BY <1>1, <1>2, <1>4, <2>1, <2>2, <2>4, Written DEF Others
    <2>6. Fresh'
      <3>1. \A j \in Ids : j > last + 1 => j > last /\ j # last + 1
        BY <2>1 DEF Ids
      <3>2. QED
        BY <1>1, <2>1, <2>3, <3>1 DEF VInv, Fresh
    <2>7. NamesStayUnique'
      <3> SUFFICES ASSUME ~raced' PROVE NamesStayUnique'
        BY DEF NamesStayUnique
      <3>1. ~raced /\ Matches(c) = {}
        BY <1>1, <1>2, <2>2 DEF ClientInv, Writing, Creating, Updating
      <3>2. \A j \in Ids : store[j] # n
        BY <3>1 DEF Matches, Named
      <3>3. QED
        BY <1>1, <2>3, <3>1, <3>2 DEF VInv, NamesStayUnique
    <2>8. Values'
      <3>1. store' \in [Ids -> Name \cup {NoName}]
        BY <2>1, <2>2
      <3>2. /\ op' \in [Client -> {"none", "put", "get", "delete"}]
            /\ targets' \in [Client -> SUBSET Ids] /\ kind' \in Kinds
        BY <1>1, <1>2 DEF Values
      <3>3. QED
        BY <1>1, <1>2, <1>4, <2>1, <2>4, <3>1, <3>2, Written DEF Values
    <2>9. ClientInv(c)'
      BY <1>1, <1>2, <1>4, <2>1, <2>4, Written
    <2>10. QED
      BY <1>1, <1>2, <2>5, <2>6, <2>7, <2>8, <2>9, StepDone
  <1>5. QED
    BY <1>3, <1>4 DEF Create

LEMMA UpdateKeeps ==
    ASSUME IInv, NEW c \in Client, Update(c)
    PROVE  VInv'
  <1>1. VInv /\ Values /\ Flags /\ ClientInv(c)
    BY DEF IInv, VInv
  <1>2. /\ pc[c] = "write" /\ op[c] = "put"
        /\ UNCHANGED <<kind, unique, op, targets>>
    BY <1>1 DEF Update, ClientInv, Underway
  <1>3. PICK i \in UpdateTargets(c) \cap Ids :
          IF store[i] = NoName \/ Taken(object[c].name, i)
          THEN /\ Ends(c, IF store[i] = NoName THEN "notFound" ELSE "refused")
               /\ Unchanged
               /\ UNCHANGED <<object, written>>
          ELSE /\ Changes(c, [store EXCEPT ![i] = object[c].name])
               /\ WriteEnds(c, i)
               /\ UNCHANGED last
    BY DEF Update
  <1>4. CASE store[i] = NoName \/ Taken(object[c].name, i)
    <2>1. PICK o \in {"notFound", "refused"} : Ends(c, o)
      BY <1>3, <1>4
    <2>2. Unchanged /\ UNCHANGED <<object, written>>
      BY <1>3, <1>4
    <2>3. QED
      BY <1>2, <2>1, <2>2, EndsBadly
  <1>5. CASE ~(store[i] = NoName \/ Taken(object[c].name, i))
    <2> DEFINE n == object[c].name
    <2>1. /\ store[i] # NoName /\ i \in Ids
          /\ Changes(c, [store EXCEPT ![i] = n]) /\ WriteEnds(c, i) /\ last' = last
          /\ store \in [Ids -> Name \cup {NoName}] /\ n \in Name
      BY <1>1, <1>3, <1>5 DEF Values
    <2>2. /\ store' = [store EXCEPT ![i] = n]
          /\ \A d \in Client \ {c} : ~stale'[d] => ~stale[d] /\ store' = store
          /\ ~raced' => ~raced /\ ~stale[c]
      BY <2>1, ChangeIsNoticed
    <2>3. \A j \in Ids : store'[j] = IF j = i THEN n ELSE store[j]
      BY <2>1, <2>2
    <2>4. IdAfterWrite(c, i) = i
      BY <1>3 DEF IdAfterWrite, UpdateTargets
    <2>5. Others(c)
      BY <1>1, <1>2, <2>1, <2>2, <2>4, Written DEF Others
    <2>6. Fresh'
      BY <1>1, <2>1, <2>3 DEF VInv, Fresh
    <2>7. NamesStayUnique'
      <3> SUFFICES ASSUME ~raced' PROVE NamesStayUnique'
        BY DEF NamesStayUnique
      <3>1. ~raced /\ (store[i] = n \/ \A j \in Ids : store[j] # n)
        BY <1>1, <1>2, <1>3, <2>2, UpdateIsNamed
      <3>2. QED
        BY <1>1, <2>1, <2>3, <3>1 DEF VInv, NamesStayUnique
    <2>8. Values'
      <3>1. store' \in [Ids -> Name \cup {NoName}]
        BY <2>1, <2>2
      <3>2. /\ op' \in [Client -> {"none", "put", "get", "delete"}]
            /\ targets' \in [Client -> SUBSET Ids] /\ kind' \in Kinds
        BY <1>1, <1>2 DEF Values
      <3>3. QED
        BY <1>1, <1>2, <2>1, <2>4, <3>1, <3>2, Written DEF Values
    <2>9. ClientInv(c)'
      BY <1>1, <1>2, <2>1, <2>4, Written
    <2>10. QED
      BY <1>1, <1>2, <2>5, <2>6, <2>7, <2>8, <2>9, StepDone
  <1>6. QED
    BY <1>4, <1>5

LEMMA StepInv == IInv /\ [Next]_vars => IInv'
  <1> SUFFICES ASSUME IInv, [Next]_vars PROVE IInv'
    OBVIOUS
  <1>1. Flags'
    BY FlagsKept DEF IInv
  <1>2. ASSUME UNCHANGED vars PROVE VInv'
    BY <1>2 DEF vars, serverVars, IInv, VInv, Values, Fresh, NamesStayUnique,
       ClientInv, Underway, Fetching, Writing, Creating, Updating, Deleting,
       HasId, OwnsIt, AllGone, Matches, Named
  <1>3. VInv'
    BY <1>2, BeginKeeps, DeleteFileKeeps, RenameKeeps, LookupKeeps,
       LookupFileKeeps, FetchKeeps, CreateKeeps, UpdateKeeps,
       ListForDeleteKeeps, DeleteNextKeeps, RequestFailsKeeps DEF Next
  <1>4. QED
    BY <1>1, <1>3 DEF IInv

(* The inductive invariant holds in every reachable state.                 *)
THEOREM InvariantHolds == Spec => []IInv
  BY InitInv, StepInv, PTL DEF Spec

-----------------------------------------------------------------------------
(* Every reachable state is well typed, and no delete is ever told that    *)
(* what it deletes is missing (_delete_if_exists).                         *)
THEOREM TypeCorrect == Spec => []TypeOK
  <1>1. IInv => TypeOK
    BY TypeParts DEF IInv, VInv
  <1>2. QED
    BY InvariantHolds, <1>1, PTL

(* Any number of clients that create, update, rename, retry and delete     *)
(* never make two resources of one name, on a server that would let them,  *)
(* unless one wrote on the strength of a stale lookup                      *)
(* (create_or_update_..., upload_file_if_not_exists).                      *)
THEOREM NamesUnique == Spec => []NamesStayUnique
  <1>1. IInv => NamesStayUnique
    BY DEF IInv, VInv
  <1>2. QED
    BY InvariantHolds, <1>1, PTL

(* The id in the object of a create_or_update_... that returned is that of *)
(* the resource it wrote, whatever id the object carried before.           *)
THEOREM ObjectsNameTheirResources == Spec => []ObjectNamesItsResource
  <1>1. IInv => ObjectNamesItsResource
    BY DEF IInv, VInv, ClientInv, OwnsIt, ObjectNamesItsResource
  <1>2. QED
    BY InvariantHolds, <1>1, PTL

(* A deletion by name that nobody disturbs is complete, however many       *)
(* resources have the name (delete_..._by_name_if_exists).                 *)
THEOREM DeletesByNameComplete == Spec => []DeleteByNameComplete
  <1>1. IInv => DeleteByNameComplete
    BY DEF IInv, VInv, ClientInv, AllGone, Matches, DeleteByNameComplete
  <1>2. QED
    BY InvariantHolds, <1>1, PTL

(* What a client may change of the store while its lookup is true.         *)
MayTouch(c, i) ==
    \/ store[i] \in {NoName, object[c].name}
    \/ kind \in {"connection", "file"} /\ i = object[c].id

LEMMA CreateTouches ==
    ASSUME IInv, NEW c \in Client, Create(c)
    PROVE  \A i \in Ids : store'[i] # store[i] => MayTouch(c, i)
  <1>1. CASE Unchanged
    BY <1>1 DEF Unchanged
  <1>2. CASE /\ last < MaxId /\ last' = last + 1
             /\ Changes(c, [store EXCEPT ![last'] = object[c].name])
    <2>1. last' \in Ids /\ last' > last
      BY <1>2, ResourcesAssumption DEF IInv, VInv, Values, Ids
    <2>2. store[last'] = NoName /\ store \in [Ids -> Name \cup {NoName}]
      BY <2>1 DEF IInv, VInv, Fresh, Values
    <2>3. store' = [store EXCEPT ![last'] = object[c].name]
      BY <1>2, ChangeIsNoticed
    <2>4. QED
      BY <2>1, <2>2, <2>3 DEF MayTouch
  <1>3. QED
    BY <1>1, <1>2 DEF Create

LEMMA UpdateTouches ==
    ASSUME IInv, NEW c \in Client, Update(c), ~stale[c]
    PROVE  \A i \in Ids : store'[i] # store[i] => MayTouch(c, i)
  <1>1. CASE Unchanged
    BY <1>1 DEF Unchanged
  <1>2. CASE \E i \in UpdateTargets(c) \cap Ids :
                Changes(c, [store EXCEPT ![i] = object[c].name])
    <2>1. PICK i \in UpdateTargets(c) \cap Ids :
                Changes(c, [store EXCEPT ![i] = object[c].name])
      BY <1>2
    <2>2. store' = [store EXCEPT ![i] = object[c].name]
      BY <2>1, ChangeIsNoticed
    <2>3. pc[c] = "write" /\ VInv /\ store \in [Ids -> Name \cup {NoName}]
      BY DEF Update, IInv, VInv, Values
    <2>4. MayTouch(c, i)
      BY <2>3, UpdateIsNamed DEF MayTouch
    <2>5. QED
      BY <2>2, <2>3, <2>4
  <1>3. QED
    BY <1>1, <1>2 DEF Update

LEMMA DeleteTouches ==
    ASSUME IInv, NEW c \in Client, DeleteNext(c), ~stale[c]
    PROVE  \A i \in Ids : store'[i] # store[i] => MayTouch(c, i)
  <1>1. CASE Unchanged
    BY <1>1 DEF Unchanged
  <1>2. CASE \E i \in targets[c] : Changes(c, [store EXCEPT ![i] = NoName])
    <2>1. PICK i \in targets[c] : Changes(c, [store EXCEPT ![i] = NoName])
      BY <1>2
    <2>2. store' = [store EXCEPT ![i] = NoName] /\ store \in [Ids -> Name \cup {NoName}]
      BY <2>1, ChangeIsNoticed DEF IInv, VInv, Values
    <2>3. Deleting(c) /\ pc[c] = "delete"
      BY DEF DeleteNext, IInv, VInv, ClientInv
    <2>4. MayTouch(c, i)
      BY <2>1, <2>3 DEF Deleting, MayTouch, Matches, Named
    <2>5. QED
      BY <2>2, <2>4
  <1>3. QED
    BY <1>1, <1>2 DEF DeleteNext

(* An operation whose lookup is still true changes no resource but those   *)
(* of the object's name and, for a connection or a file, its own id, step  *)
(* by step through all its requests (create_or_update_...,                 *)
(* delete_..._by_name_if_exists, delete_file_if_exists).                   *)
THEOREM OnlyNamedAreTouched == Spec => OnlyNamedTouched
  <1> DEFINE Touches ==
          \A c \in Client : Acts(c) /\ ~stale[c] =>
              \A i \in Ids : store'[i] # store[i] => MayTouch(c, i)
  <1>1. IInv /\ [Next]_vars => [Touches]_vars
    <2> SUFFICES ASSUME IInv, Next, NEW c \in Client, Acts(c), ~stale[c],
                        NEW i \in Ids, store'[i] # store[i]
                 PROVE  MayTouch(c, i)
      OBVIOUS
    <2>1. PICK d \in Client : Create(d) \/ Update(d) \/ DeleteNext(d)
      BY DEF Next, Begin, DeleteFile, Rename, Lookup, LookupFile, Fetch,
         ListForDelete, RequestFails, Unchanged, serverVars
    <2>2. d = c
      <3>1. pc'[c] # pc[c] \/ targets'[c] # targets[c]
        BY DEF Acts
      <3>2. \A e \in Client \ {d} : pc'[e] = pc[e] /\ targets'[e] = targets[e]
        BY <2>1 DEF Create, Update, DeleteNext, WriteEnds, Ends, IInv, VInv, Values
      <3>3. QED
        BY <3>1, <3>2
    <2>3. QED
      BY <2>1, <2>2, CreateTouches, UpdateTouches, DeleteTouches
  <1>2. [Touches]_vars => [\A c \in Client : Acts(c) /\ ~stale[c] =>
                              \A i \in Ids : store'[i] # store[i] =>
                                \/ store[i] \in {NoName, object[c].name}
                                \/ kind \in {"connection", "file"} /\ i = object[c].id]_vars
    BY DEF MayTouch
  <1>3. QED
    BY InvariantHolds, <1>1, <1>2, PTL DEF Spec, OnlyNamedTouched
==============================================================================
