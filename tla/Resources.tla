------------------------------ MODULE Resources ------------------------------
(***************************************************************************)
(* Named resources of the admin server, and several clients that create,   *)
(* update, look up and delete them by name: ruleset libraries, discovery   *)
(* configs, connections, rulesets and files (client/ruleset_libraries.py,  *)
(* discovery_configs.py, connections.py, rulesets.py, files.py).           *)
(*                                                                         *)
(* Only rulesets are upserted by the server.  For the others               *)
(* create_or_update_... and delete_..._by_name_if_exists look the name up  *)
(* and then act on the id they found: two or three requests, each a step   *)
(* here, between which the other clients act.  A file is only ever         *)
(* uploaded under a name that is free, and deleted by its id.  What a      *)
(* request owes its caller is ApiCall.                                     *)
(***************************************************************************)
EXTENDS Naturals, FiniteSets

CONSTANTS Client,  \* the clients
          Name,    \* the names (with namespace or type) of resources
          NoName,
          MaxId    \* bound on the resources created; ids are 1..MaxId

ASSUME ResourcesAssumption == NoName \notin Name /\ MaxId \in Nat

VARIABLES kind,     \* the kind of resource
          unique,   \* server: whether it refuses a name that is taken
          store,    \* server: id |-> the name of that resource, or NoName
          last,     \* server: the last id it gave
          pc,       \* c |-> where client c is
          op,       \* c |-> the operation under way or the last
          object,   \* c |-> its local object: name and id (0 for None)
          targets,  \* c |-> the ids it still has to act on
          outcome,  \* c |-> what its last operation returned or raised
          written,  \* history: c |-> the id its last operation wrote
          stale,    \* history: c |-> the store changed since c looked it up
          raced     \* history: a client wrote on the strength of a stale look

serverVars == <<store, last>>
vars == <<kind, unique, store, last, pc, op, object, targets, outcome,
          written, stale, raced>>

Ids == 1..MaxId
Named(n) == {i \in Ids : store[i] = n}
Kinds == {"library", "config", "connection", "ruleset", "file"}
Outcomes == {"none", "stored", "present", "found", "absent", "deleted",
             "notFound", "refused", "failed"}

(* Types, and that a delete is never told that what it deletes is missing  *)
(* (_delete_if_exists in every delete_..._if_exists).                      *)
TypeOK ==
    /\ kind \in Kinds
    /\ unique \in BOOLEAN
    /\ store \in [Ids -> Name \cup {NoName}]
    /\ last \in 0..MaxId
    /\ pc \in [Client -> {"idle", "lookup", "fetch", "write", "delete"}]
    /\ op \in [Client -> {"none", "put", "get", "delete"}]
    /\ object \in [Client -> [name : Name, id : 0..MaxId]]
    /\ targets \in [Client -> SUBSET Ids]
    /\ outcome \in [Client -> Outcomes]
    /\ written \in [Client -> 0..MaxId]
    /\ stale \in [Client -> BOOLEAN]
    /\ raced \in BOOLEAN
    /\ \A c \in Client : op[c] = "delete" => outcome[c] # "notFound"

Init ==
    /\ kind \in Kinds
    /\ unique \in BOOLEAN
    /\ store = [i \in Ids |-> NoName]
    /\ last = 0
    /\ pc = [c \in Client |-> "idle"]
    /\ op = [c \in Client |-> "none"]
    /\ object \in [Client -> [name : Name, id : {0}]]
    /\ targets = [c \in Client |-> {}]
    /\ outcome = [c \in Client |-> "none"]
    /\ written = [c \in Client |-> 0]
    /\ stale = [c \in Client |-> FALSE]
    /\ raced = FALSE

(* The operation of client c ends with o.                                  *)
Ends(c, o) ==
    /\ pc' = [pc EXCEPT ![c] = "idle"]
    /\ outcome' = [outcome EXCEPT ![c] = o]

(* Client c changes the store to s: what the others looked up is stale.    *)
Changes(c, s) ==
    /\ store' = s
    /\ stale' = [d \in Client |-> stale[d] \/ (d # c /\ s # store)]
    /\ raced' = (raced \/ stale[c])

Unchanged == UNCHANGED <<store, last, stale, raced>>

-----------------------------------------------------------------------------
(* A client starts an operation on its object.  Rulesets go straight to    *)
(* the upsert and have no lookup by name; nor have connections.            *)
Begin(c, o) ==
    /\ pc[c] = "idle"
    /\ o = "get" => kind \in {"library", "config", "file"}
    /\ o = "delete" => kind # "file"
    /\ pc' = [pc EXCEPT ![c] =
                 IF o = "put" /\ kind = "ruleset" THEN "write" ELSE "lookup"]
    /\ op' = [op EXCEPT ![c] = o]
    /\ targets' = [targets EXCEPT ![c] = {}]
    /\ outcome' = [outcome EXCEPT ![c] = "none"]
    /\ written' = [written EXCEPT ![c] = 0]
    /\ stale' = [stale EXCEPT ![c] = FALSE]
    /\ UNCHANGED <<kind, unique, serverVars, object, raced>>

(* delete_file_if_exists, for the id its DataMasqueFile carries.           *)
DeleteFile(c) ==
    /\ pc[c] = "idle" /\ kind = "file"
    /\ op' = [op EXCEPT ![c] = "delete"]
    /\ \/ /\ object[c].id = 0
          /\ outcome' = [outcome EXCEPT ![c] = "refused"]
          /\ UNCHANGED <<pc, targets>>
       \/ /\ object[c].id # 0
          /\ pc' = [pc EXCEPT ![c] = "delete"]
          /\ targets' = [targets EXCEPT ![c] = {object[c].id}]
          /\ outcome' = [outcome EXCEPT ![c] = "none"]
    /\ written' = [written EXCEPT ![c] = 0]
    /\ stale' = [stale EXCEPT ![c] = FALSE]
    /\ UNCHANGED <<kind, unique, serverVars, object, raced>>

(* Between operations the caller may rename its object, or build a new one.*)
Rename(c, n) ==
    /\ pc[c] = "idle"
    /\ \E i \in {0, object[c].id} : object' = [object EXCEPT ![c] = [name |-> n, id |-> i]]
    /\ outcome' = [outcome EXCEPT ![c] = "none"]
    /\ UNCHANGED <<kind, unique, serverVars, pc, op, targets, written, stale, raced>>

(* The operators named M_... are faults a change of this code could bring  *)
(* in; each property is shown to notice one of them.                       *)
M_MatchesIfKnown(c) == IF object[c].id = 0 THEN {} ELSE Named(object[c].name)
M_MatchesOne(c) ==
    {i \in Named(object[c].name) : \A j \in Named(object[c].name) : i <= j}

(* The ids that carry the object's name: name_exact, or a list filtered by *)
(* name.                                                                   *)
Matches(c) == Named(object[c].name)

M_LookupKeepsId(c, i) == object[c].id

(* The id a library or config carries after a lookup that found i.         *)
IdAfterLookup(c, i) == i

(* The lookup by name of create_or_update_... and get_..._by_name: one     *)
(* match, or none.  A connection without a match keeps its own id.         *)
Lookup(c) ==
    /\ pc[c] = "lookup" /\ op[c] \in {"put", "get"}
    /\ \/ /\ Matches(c) = {} /\ op[c] = "get"
          /\ Ends(c, "absent")
          /\ UNCHANGED <<targets, object>>
       \/ /\ Matches(c) = {} /\ op[c] = "put"
          /\ targets' = [targets EXCEPT ![c] =
                 IF kind = "connection" THEN {object[c].id} \ {0} ELSE {}]
          /\ pc' = [pc EXCEPT ![c] = "write"]
          /\ UNCHANGED <<object, outcome>>
       \/ \E i \in Matches(c) :
             /\ kind # "file"
             /\ targets' = [targets EXCEPT ![c] = {i}]
             /\ pc' = [pc EXCEPT ![c] =
                    IF kind = "library" \/ op[c] = "get" THEN "fetch" ELSE "write"]
             /\ object' = IF op[c] = "put" /\ kind = "config"
                          THEN [object EXCEPT ![c].id = IdAfterLookup(c, i)]
                          ELSE object
             /\ UNCHANGED outcome
    /\ stale' = [stale EXCEPT ![c] = FALSE]
    /\ UNCHANGED <<kind, unique, serverVars, op, written, raced>>

(* get_file_of_type_by_name finds a file: it is returned, or not uploaded  *)
(* again.  Without one upload_file_if_not_exists goes on to the write.     *)
LookupFile(c) ==
    /\ pc[c] = "lookup" /\ op[c] \in {"put", "get"} /\ kind = "file"
    /\ Matches(c) # {}
    /\ Ends(c, IF op[c] = "put" THEN "present" ELSE "found")
    /\ stale' = [stale EXCEPT ![c] = FALSE]
    /\ UNCHANGED <<kind, unique, serverVars, op, object, targets, written, raced>>

(* get_ruleset_library or get_discovery_config for the id that was found.  *)
Fetch(c) ==
    /\ pc[c] = "fetch"
    /\ \E i \in targets[c] :
          \/ /\ store[i] = NoName
             /\ Ends(c, "notFound")
             /\ UNCHANGED object
          \/ /\ store[i] # NoName /\ op[c] = "get"
             /\ Ends(c, "found")
             /\ UNCHANGED object
          \/ /\ store[i] # NoName /\ op[c] = "put"
             /\ pc' = [pc EXCEPT ![c] = "write"]
             /\ object' = [object EXCEPT ![c].id = IdAfterLookup(c, i)]
             /\ UNCHANGED outcome
    /\ Unchanged
    /\ UNCHANGED <<kind, unique, op, targets, written>>

Taken(n, i) == unique /\ Named(n) \ {i} # {}

M_KeepsItsId(c, i) == IF object[c].id = 0 THEN i ELSE object[c].id

(* The id the object carries after the write of i.  The update of a        *)
(* library or config leaves it alone.                                      *)
IdAfterWrite(c, i) ==
    IF kind \in {"library", "config"} /\ targets[c] # {} THEN object[c].id ELSE i

(* The write gets an answer of success, or takes effect unheard.           *)
WriteEnds(c, i) ==
    /\ written' = [written EXCEPT ![c] = i]
    /\ \/ /\ Ends(c, "stored")
          /\ object' = [object EXCEPT ![c].id = IdAfterWrite(c, i)]
       \/ Ends(c, "failed") /\ UNCHANGED object

(* POST: a new resource with the object's name.                            *)
Create(c) ==
    /\ pc[c] = "write" /\ targets[c] = {}
    /\ kind = "ruleset" => Matches(c) = {}
    /\ IF Taken(object[c].name, 0)
       THEN /\ Ends(c, "refused")
            /\ Unchanged
            /\ UNCHANGED <<object, written>>
       ELSE /\ last < MaxId
            /\ last' = last + 1
            /\ Changes(c, [store EXCEPT ![last'] = object[c].name])
            /\ WriteEnds(c, last')
    /\ UNCHANGED <<kind, unique, op, targets>>

(* The resource that is overwritten: the id a library or config carries    *)
(* since the lookup, the id chosen for a connection; the server's upsert   *)
(* of a ruleset looks the name up as it writes.                            *)
UpdateTargets(c) ==
    IF kind = "ruleset" THEN Matches(c)
    ELSE IF targets[c] = {} THEN {}
    ELSE IF kind = "connection" THEN targets[c]
    ELSE {object[c].id}

(* PUT to that resource.                                                   *)
Update(c) ==
    /\ pc[c] = "write"
    /\ \E i \in UpdateTargets(c) \cap Ids :
          IF store[i] = NoName \/ Taken(object[c].name, i)
          THEN /\ Ends(c, IF store[i] = NoName THEN "notFound" ELSE "refused")
               /\ Unchanged
               /\ UNCHANGED <<object, written>>
          ELSE /\ Changes(c, [store EXCEPT ![i] = object[c].name])
               /\ WriteEnds(c, i)
               /\ UNCHANGED last
    /\ UNCHANGED <<kind, unique, op, targets>>

(* delete_..._by_name_if_exists lists the resources and filters by name.   *)
ListForDelete(c) ==
    /\ pc[c] = "lookup" /\ op[c] = "delete"
    /\ targets' = [targets EXCEPT ![c] = Matches(c)]
    /\ pc' = [pc EXCEPT ![c] = "delete"]
    /\ stale' = [stale EXCEPT ![c] = FALSE]
    /\ UNCHANGED <<kind, unique, serverVars, op, object, outcome, written, raced>>

M_DeleteRaisesNotFound(c) ==
    /\ pc[c] = "delete"
    /\ \/ \E i \in targets[c] :
             /\ store[i] # NoName
             /\ Changes(c, [store EXCEPT ![i] = NoName])
             /\ targets' = [targets EXCEPT ![c] = @ \ {i}]
             /\ UNCHANGED <<pc, outcome, last>>
       \/ /\ \E i \in targets[c] : store[i] = NoName
          /\ Ends(c, "notFound")
          /\ Unchanged /\ UNCHANGED targets
       \/ /\ targets[c] = {}
          /\ Ends(c, "deleted")
          /\ Unchanged /\ UNCHANGED targets
    /\ UNCHANGED <<kind, unique, op, object, written>>

(* delete_..._by_id_if_exists for every match; a 404 counts as done.       *)
DeleteNext(c) ==
    /\ pc[c] = "delete"
    /\ \/ \E i \in targets[c] :
             /\ Changes(c, [store EXCEPT ![i] = NoName])
             /\ targets' = [targets EXCEPT ![c] = @ \ {i}]
             /\ UNCHANGED <<pc, outcome, last>>
       \/ /\ targets[c] = {}
          /\ Ends(c, "deleted")
          /\ Unchanged /\ UNCHANGED targets
    /\ UNCHANGED <<kind, unique, op, object, written>>

(* A request is refused for another reason (a library in use), or raises  *)
(* without having had an effect.                                           *)
RequestFails(c) ==
    /\ pc[c] # "idle"
    /\ Ends(c, "failed")
    /\ Unchanged
    /\ UNCHANGED <<kind, unique, op, object, targets, written>>

-----------------------------------------------------------------------------
Next ==
    \E c \in Client :
        \/ \E o \in {"put", "get", "delete"} : Begin(c, o)
        \/ DeleteFile(c)
        \/ \E n \in Name : Rename(c, n)
        \/ Lookup(c) \/ LookupFile(c) \/ Fetch(c) \/ Create(c) \/ Update(c)
        \/ ListForDelete(c) \/ DeleteNext(c)
        \/ RequestFails(c)

Spec == Init /\ [][Next]_vars

-----------------------------------------------------------------------------
(* Even on a server that lets names be taken twice, create_or_update_...   *)
(* and upload_file_if_not_exists never make a second resource of one name, *)
(* however often they are retried after lost answers and however the       *)
(* object is renamed, unless a client wrote after another had changed what *)
(* it looked up.                                                           *)
NamesStayUnique ==
    ~raced => \A i, j \in Ids :
        store[i] # NoName /\ store[i] = store[j] => i = j

(* A client whose create_or_update_... returned holds in its object the id *)
(* of the very resource it wrote (create_or_update_connection,             *)
(* create_or_update_ruleset_library, create_or_update_discovery_config).   *)
ObjectNamesItsResource ==
    \A c \in Client : op[c] = "put" /\ outcome[c] = "stored" =>
        object[c].id # 0 /\ object[c].id = written[c]

(* delete_..._by_name_if_exists leaves no resource of that name behind     *)
(* unless the store changed while it was deleting, not even where names    *)
(* are taken twice; delete_file_if_exists leaves no file of its id.        *)
DeleteByNameComplete ==
    \A c \in Client : op[c] = "delete" /\ outcome[c] = "deleted" /\ ~stale[c]
        => IF kind = "file" THEN store[object[c].id] = NoName
           ELSE Named(object[c].name) = {}

(* In this step client c writes, deletes one of its targets or gives up.   *)
Acts(c) ==
    /\ pc[c] \in {"write", "delete"}
    /\ pc'[c] # pc[c] \/ targets'[c] # targets[c]

(* A write or delete based on a lookup that is still true touches only the *)
(* resources of the object's name and, for a connection or a file, its own *)
(* id: no operation by name hits somebody else's resource.                 *)
OnlyNamedTouched ==
    [][\A c \in Client :
          Acts(c) /\ ~stale[c] =>
             \A i \in Ids : store'[i] # store[i] =>
                \/ store[i] \in {NoName, object[c].name}
                \/ kind \in {"connection", "file"} /\ i = object[c].id]_vars
==============================================================================
