-------------------------- MODULE ConnectionModels --------------------------
(***************************************************************************)
(* One connection of the admin server, the object a caller holds of it,    *)
(* and the way between the two: validate_connection and the validators and *)
(* serializers of models/connection.py, under list_connections and         *)
(* create_or_update_connection (client/connections.py).                    *)
(*                                                                         *)
(* A write sends the whole object, so whatever the models lose, rename or  *)
(* make up on the way changes the server's record behind the caller's      *)
(* back.  Meanwhile others change the record too.                          *)
(*                                                                         *)
(* Of the many fields those stand here that some class treats in a way of  *)
(* its own: "option" is engine_options, or tls, direct_connection,         *)
(* replica_set and user of MongoDB; "s3_bucket_name" also is               *)
(* s3_redshift_iam_role; "preset" is any field for which a class has a     *)
(* default that is not false: dynamo_append_suffix, dynamo_replace_tables  *)
(* and dynamo_default_sse of DynamoDB, port and auth_source of MongoDB;    *)
(* "version" is any field that a class does not declare and carries all    *)
(* the same (extra="allow"); "db_type" also is the type of a file          *)
(* connection.  None is a null as well as an absent key (of a preset only  *)
(* the latter), Blank any other value that is false, such as "" or {}.     *)
(*                                                                         *)
(* A connection has one secret here.  Snowflake's may be a password, or    *)
(* one that the validators do not know: "passphrase" is                    *)
(* snowflake_private_key_passphrase and                                    *)
(* snowflake_azure_connection_string.  They are independent of each other  *)
(* in a connection that has several.  The names, ids and races of          *)
(* create_or_update_connection are those of Resources.                     *)
(***************************************************************************)
EXTENDS Naturals

CONSTANTS Value,   \* values of fields
          Secret,  \* passwords, tokens and connection strings
          None, Blank,
          Std      \* the value a model gives a field itself: the version
                   \*   "1.0", the suffix "-MASKED", the port 27017

VARIABLES kind,      \* the type of the connection
          keyed,     \* whether its secret is Snowflake's "passphrase"
          replaces,  \* server: whether a PUT resets the fields it leaves out
          takesBack, \* server: whether it takes an encrypted secret in a
                     \*   request for the secret it encrypts
          stored,    \* server: the record, its secret in the clear
          object,    \* the caller's object: its class and its fields
          chosen,    \* history: the secret the caller has put in the object
          saved      \* the last call was a write that returned, and nothing
                     \*   was changed since

setup == <<kind, keyed, replaces, takesBack>>
vars == <<setup, stored, object, chosen, saved>>

(* mariadb and oracle are like mysql and postgres here, db2_luw, db2i,     *)
(* informix and databricks_lakebase like mssql.                            *)
Sql == {"postgres", "mysql", "mssql", "mssql_linked", "redshift"}
Passworded == Sql \cup {"snowflake", "mongodb"}
Files == {"s3_connection", "azure_blob_connection", "mounted_share_connection"}
Kinds == Passworded \cup {"dynamo_db", "databricks"} \cup Files

ASSUME ConnectionModelsAssumption ==
    /\ None # Blank /\ None # Std /\ Blank # Std
    /\ {None, Blank, Std} \cap (Value \cup Secret \cup Kinds) = {}

Attributes == {"schema", "data_encoding", "s3_bucket_name", "option",
               "linked_server", "preset", "version"}
Secrets == {"password", "dbpassword", "password_encrypted", "passphrase",
            "passphrase_encrypted", "access_token", "access_token_encrypted",
            "connection_string", "connection_string_encrypted"}
Keys == Attributes \cup Secrets \cup {"db_type", "database_type"}

False(v) == v \in {None, Blank}
Same(v, w) == v = w \/ (False(v) /\ False(w))
NoFields == [k \in Keys |-> None]
NoObject == [class |-> "none", fields |-> NoFields]
NoRecord == [a \in Attributes \cup {"db_type", "secret"} |-> None]

(* What the server shows of secret s.                                      *)
Encrypted(s) == [encrypts |-> s]

-----------------------------------------------------------------------------
(* The models.                                                             *)

(* FILE_TYPE_MAP and DB_TYPE_MAP, for the type a payload gives.            *)
ClassOf(type) ==
    IF type \in {"mssql_linked", "snowflake", "mongodb", "dynamo_db", "databricks"} \cup Files
    THEN type ELSE "Database"

IsSql(class) == class \in {"Database", "mssql_linked"}

M_StripsEncryptedOnly(class) ==
    IF IsSql(class) \/ class \in {"snowflake", "mongodb", "dynamo_db"}
    THEN {"password_encrypted"}
    ELSE {"access_token_encrypted", "connection_string_encrypted"}

(* What the validators that run before a class's own remove.  Nothing      *)
(* removes what Snowflake's other secrets are shown as.                    *)
Stripped(class) ==
    IF IsSql(class) \/ class \in {"snowflake", "mongodb", "dynamo_db"}
    THEN {"password_encrypted", "dbpassword"}
    ELSE IF class = "databricks" THEN {"access_token_encrypted"}
    ELSE IF class = "azure_blob_connection" THEN {"connection_string_encrypted"}
    ELSE {}

M_EngineNotMapped(p) ==
    [p EXCEPT !.schema = IF p.db_type = "mysql" THEN None ELSE @]

(* The further normalisation of a SQL connection's payload.                *)
Normalized(p) ==
    LET engine == IF p.database_type # None THEN p.database_type ELSE p.db_type
    IN [p EXCEPT !.schema = IF engine = "mysql" THEN None ELSE @,
                 !.database_type = engine,
                 !.db_type = None]

(* The fields for which a class has a default that is not false.           *)
Defaulted(class) ==
    IF class \in {"dynamo_db", "mongodb"} THEN {"preset"}
    ELSE IF class = "databricks" THEN {"version"} ELSE {}

(* The fields of the object, and what is left of the payload itself: the   *)
(* validators change the caller's dictionary in place.                     *)
Incoming(class, p) ==
    LET q == [k \in Keys |->
                 IF k \in Stripped(class) THEN None
                 ELSE IF k \in Defaulted(class) /\ p[k] = None THEN Std ELSE p[k]]
    IN IF IsSql(class) THEN Normalized(q) ELSE q

(* validate_connection.                                                    *)
Validated(p) ==
    LET class == ClassOf(p.db_type)
    IN [class |-> class, fields |-> Incoming(class, p)]

M_EncodingForMysqlOnly(f) ==
    IF f.database_type = "mysql" THEN f.data_encoding ELSE None

(* The serializers: keys are renamed, left out and filled in, class by     *)
(* class.  An undeclared dbpassword would be sent as it is.                *)
PasswordSent(f) ==
    IF f.password = None THEN f.dbpassword ELSE f.password
SchemaSent(f) == IF f.schema = None THEN Blank ELSE f.schema
OptionSent(f) == IF False(f.option) THEN None ELSE f.option
EncodingSent(f) ==
    IF f.database_type \in {"mysql", "postgres"} THEN f.data_encoding ELSE None

DumpedSql(f) ==
    [f EXCEPT !.password = None,
              !.dbpassword = PasswordSent(f),
              !.database_type = None,
              !.db_type = f.database_type,
              !.schema = IF f.database_type = "mysql" THEN Blank ELSE SchemaSent(f),
              !.data_encoding = EncodingSent(f),
              !.s3_bucket_name = IF f.database_type = "redshift" THEN @ ELSE None,
              !.option = OptionSent(f)]

DumpedSnowflake(f) ==
    [f EXCEPT !.password = None,
              !.dbpassword = PasswordSent(f),
              !.schema = SchemaSent(f)]

DumpedMongo(f) ==
    [f EXCEPT !.password = None,
              !.dbpassword = IF f.password = Blank THEN @ ELSE PasswordSent(f),
              !.option = OptionSent(f)]

DumpedDynamo(f) ==
    [f EXCEPT !.password = IF @ = None THEN Blank ELSE @,
              !.schema = SchemaSent(f)]

Dumped(o) ==
    IF IsSql(o.class) THEN DumpedSql(o.fields)
    ELSE IF o.class = "snowflake" THEN DumpedSnowflake(o.fields)
    ELSE IF o.class = "mongodb" THEN DumpedMongo(o.fields)
    ELSE IF o.class = "dynamo_db" THEN DumpedDynamo(o.fields)
    ELSE o.fields

M_VersionWins(o) == [Dumped(o) EXCEPT !.version = Std]

(* What create_or_update_connection sends for object o.                    *)
Request(o) ==
    [Dumped(o) EXCEPT !.version = IF @ = None THEN Std ELSE @]

-----------------------------------------------------------------------------
(* The server.                                                             *)

(* The fields that mean something for a kind of connection.                *)
Applicable ==
    {"version"} \cup
    (IF kind \in {"mysql", "mongodb", "dynamo_db"} \cup Files THEN {} ELSE {"schema"}) \cup
    (IF kind \in {"mysql", "postgres"} THEN {"data_encoding"} ELSE {}) \cup
    (IF kind \in {"redshift", "snowflake", "dynamo_db"} THEN {"s3_bucket_name"} ELSE {}) \cup
    (IF kind \in Sql \cup {"mongodb"} THEN {"option"} ELSE {}) \cup
    (IF kind \in {"dynamo_db", "mongodb"} THEN {"preset"} ELSE {}) \cup
    (IF kind = "mssql_linked" THEN {"linked_server"} ELSE {})

(* The key of the secret in the object, in a request, and the keys it may  *)
(* come back under.                                                        *)
SecretField ==
    IF keyed THEN "passphrase"
    ELSE IF kind \in Passworded THEN "password"
    ELSE IF kind = "databricks" THEN "access_token" ELSE "connection_string"
SecretSent == IF kind \in Passworded /\ ~keyed THEN "dbpassword" ELSE SecretField
SecretShown ==
    IF keyed THEN {"passphrase_encrypted"}
    ELSE IF kind \in Passworded THEN {"password_encrypted", "dbpassword"}
    ELSE IF kind = "databricks" THEN {"access_token_encrypted"}
    ELSE {"connection_string_encrypted"}
HasSecret == kind \in Passworded \cup {"databricks", "azure_blob_connection"}

(* The values a field may have on the server.                              *)
ValuesOf(a) ==
    IF a \in {"schema", "option"} THEN {Blank} \cup Value
    ELSE IF a = "version" THEN {Std} \cup Value
    ELSE IF a = "preset" THEN {None, Blank, Std} \cup Value
    ELSE {None} \cup Value

(* The payload of the connection in a list, its secret encrypted under the *)
(* keys of shown.                                                          *)
Listed(shown) ==
    [k \in Keys |->
        IF k \in Attributes \cup {"db_type"} THEN stored[k]
        ELSE IF k \in shown /\ ~False(stored.secret) THEN Encrypted(stored.secret)
        ELSE None]

(* The secret after a POST or PUT of p: the one in the clear wins, and one *)
(* that is left out is always kept.                                        *)
SecretAfter(p) ==
    IF HasSecret /\ p[SecretSent] # None THEN p[SecretSent]
    ELSE IF takesBack /\ p.passphrase_encrypted # None THEN p.passphrase_encrypted.encrypts
    ELSE stored.secret

(* The record.  Other fields that a PUT leaves out are reset or kept.      *)
RecordAfter(p) ==
    [k \in DOMAIN stored |->
        IF k = "secret" THEN SecretAfter(p)
        ELSE IF k = "db_type" THEN p.db_type
        ELSE IF k \notin Applicable \cup {"schema"} THEN None
        ELSE IF p[k] = None /\ ~replaces THEN stored[k]
        ELSE p[k]]

-----------------------------------------------------------------------------
(* Types, and that neither end ever holds a connection of another type     *)
(* than it is, not even after a payload was validated twice                *)
(* (_normalize_incoming, _serialize).                                      *)
TypeOK ==
    /\ kind \in Kinds
    /\ keyed \in BOOLEAN /\ replaces \in BOOLEAN /\ takesBack \in BOOLEAN
    /\ keyed => kind = "snowflake"
    /\ takesBack => keyed
    /\ DOMAIN stored = DOMAIN NoRecord
    /\ stored = NoRecord \/ stored.db_type = kind
    /\ object = NoObject \/
          kind = IF IsSql(object.class) THEN object.fields.database_type
                 ELSE object.fields.db_type
    /\ chosen \in Secret \cup {None, Blank}
    /\ saved \in BOOLEAN

Init ==
    /\ kind \in Kinds
    /\ keyed \in (IF kind = "snowflake" THEN BOOLEAN ELSE {FALSE})
    /\ replaces \in BOOLEAN
    /\ takesBack \in (IF keyed THEN BOOLEAN ELSE {FALSE})
    /\ stored = NoRecord
    /\ object = NoObject
    /\ chosen = None
    /\ saved = FALSE

(* list_connections, of which the caller takes this connection.  He may    *)
(* have validated the payload once before.                                 *)
Read ==
    /\ stored # NoRecord
    /\ \E shown \in SUBSET SecretShown :
          \/ object' = Validated(Listed(shown))
          \/ object' = Validated(Validated(Listed(shown)).fields)
    /\ chosen' = None
    /\ saved' = FALSE
    /\ UNCHANGED <<setup, stored>>

(* The caller makes an object of the class of this kind, which runs the    *)
(* same validators.                                                        *)
Build ==
    /\ object' = Validated([NoFields EXCEPT !.db_type = kind])
    /\ chosen' = None
    /\ saved' = FALSE
    /\ UNCHANGED <<setup, stored>>

(* He sets a field that the class declares, the encoding of a SQL          *)
(* connection also where it means nothing; to None where it may be.        *)
Edit ==
    /\ object # NoObject
    /\ \E a \in (Applicable \ (IF kind = "databricks" THEN {} ELSE {"version"}))
                   \cup (IF kind \in Sql THEN {"data_encoding"} ELSE {}) :
       \E v \in {IF a \in Defaulted(object.class) THEN Blank ELSE None} \cup Value :
          object' = [object EXCEPT !.fields[a] = v]
    /\ saved' = FALSE
    /\ UNCHANGED <<setup, stored, chosen>>

SetSecret ==
    /\ object # NoObject /\ HasSecret
    /\ \E s \in Secret \cup {None, Blank} :
          /\ object' = [object EXCEPT !.fields[SecretField] = s]
          /\ chosen' = s
    /\ saved' = FALSE
    /\ UNCHANGED <<setup, stored>>

(* create_or_update_connection: the request takes effect, and is answered  *)
(* or not.                                                                 *)
Write ==
    /\ object # NoObject
    /\ UNCHANGED <<setup, object, chosen>>
    /\ saved' \in BOOLEAN
    /\ stored' = RecordAfter(Request(object))

(* It raises without effect: refused, lost on its way, or because the list *)
(* that comes before it holds some connection, of whatever name, of a type *)
(* that validate_connection does not know.                                 *)
WriteFails ==
    /\ object # NoObject
    /\ saved' = FALSE
    /\ UNCHANGED <<setup, stored, object, chosen>>

(* Somebody else makes the connection, or changes a field or its secret.   *)
ChangeElsewhere ==
    /\ \/ \E a \in Applicable : \E v \in ValuesOf(a) : stored' = [stored EXCEPT ![a] = v]
       \/ HasSecret /\ \E s \in Secret : stored' = [stored EXCEPT !.secret = s]
       \/ kind = "mysql" /\ stored' = [stored EXCEPT !.schema = Blank]
    /\ stored # NoRecord
    /\ saved' = FALSE
    /\ UNCHANGED <<setup, object, chosen>>

CreateElsewhere ==
    /\ stored = NoRecord
    /\ \E v \in {Std} \cup Value : \E s \in IF HasSecret THEN Secret ELSE {None} :
          stored' = [NoRecord EXCEPT !.db_type = kind, !.version = v, !.secret = s]
    /\ saved' = FALSE
    /\ UNCHANGED <<setup, object, chosen>>

Next == \/ Read \/ Build \/ Edit \/ SetSecret \/ Write \/ WriteFails
        \/ ChangeElsewhere \/ CreateElsewhere

Spec == Init /\ [][Next]_vars

-----------------------------------------------------------------------------
(* What the caller would read now.                                         *)
ReadBack == Validated(Listed(SecretShown)).fields

(* A field that the record lacks is written with the default of the class: *)
(* who reads the record sees the default, and not that it is missing.      *)
FilledIn(a) ==
    a \in Defaulted(object.class) /\ stored[a] = None /\ stored'[a] = Std

(* A write changes no field in which the object agrees with a fresh read   *)
(* of the record, except that it fills in what the record lacked and the   *)
(* class has a default for.  Whatever else the models drop, rename and     *)
(* make up on the way is without effect, also on fields they do not        *)
(* declare (_serialize, extra="allow", create_or_update_connection; the    *)
(* defaults of DynamoConnectionConfig and MongoConnectionConfig).          *)
NothingElseChanges ==
    [][Write /\ stored # NoRecord =>
          \A a \in Applicable :
             object.fields[a] = ReadBack[a] =>
                Same(stored'[a], stored[a]) \/ FilledIn(a)]_vars

(* The secret of this connection that the object shows encrypted, when it  *)
(* was read from a list, is sent back and put in place of the present one. *)
RolledBack ==
    /\ keyed /\ takesBack /\ chosen = None
    /\ object.fields.passphrase_encrypted = Encrypted(stored'.secret)

(* A write leaves the secret as it is, or sets it to what the caller has   *)
(* put in the object himself: ciphertext from the server is not written    *)
(* back as a secret, and one that was changed since is not rolled back     *)
(* (list_connections; the validators that strip what is encrypted).        *)
(* Snowflake's passphrase and Azure connection string are the exception:   *)
(* their ciphertext is sent back, and it is up to the server to ignore it. *)
SecretsFromCallers ==
    [][Write => stored'.secret \in {stored.secret, chosen} \/ RolledBack]_vars

(* After a write that returned, every field that means something for the   *)
(* connection and every secret the caller chose is on the server as the    *)
(* object has it, so a fresh read shows it: no class withholds a field its *)
(* engine needs.  On a server that keeps what a PUT leaves out this takes  *)
(* a value that is not false: the rest is not sent (_serialize).           *)
WrittenIsReadBack ==
    saved =>
        /\ \A a \in Applicable :
              (replaces /\ a # "version") \/ ~False(object.fields[a]) =>
                 Same(ReadBack[a], object.fields[a])
        /\ ~False(chosen) => stored.secret = chosen
=============================================================================
