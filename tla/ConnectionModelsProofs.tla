------------------------ MODULE ConnectionModelsProofs ------------------------
(***************************************************************************)
(* Theorems of ConnectionModels, for any values and secrets.  The argument *)
(* is first one about the object alone: however it was made, it is of a    *)
(* class that serves its kind of connection, holds the secret the caller   *)
(* chose and nothing else that could be sent in its place.  From it        *)
(* follows what each field of the record is after a write, and that it     *)
(* stays so until something is changed.                                    *)
(***************************************************************************)
EXTENDS ConnectionModels, TLAPS

ShowsPassphrase(f) ==
    f.passphrase_encrypted = None \/ \E s : f.passphrase_encrypted = Encrypted(s)

Fits(o) ==
    /\ o = [class |-> o.class, fields |-> o.fields]
    /\ o.fields = [k \in Keys |-> o.fields[k]]
    /\ kind \in Sql => IsSql(o.class) /\ o.fields.database_type = kind
                       /\ o.fields.db_type = None
    /\ kind \notin Sql => o.class = kind /\ o.fields.db_type = kind
    /\ kind \in Passworded => o.fields.dbpassword = None
    /\ ShowsPassphrase(o.fields)
    /\ \A a \in Defaulted(o.class) : o.fields[a] # None

HoldsSecret(o, s) == HasSecret => o.fields[SecretField] = s

ObjectInv ==
    \/ object = NoObject
    \/ Fits(object) /\ HoldsSecret(object, chosen)

SetupInv ==
    /\ kind \in Kinds
    /\ keyed => kind = "snowflake"
    /\ takesBack => keyed

StoredInv ==
    /\ DOMAIN stored = DOMAIN NoRecord
    /\ stored = NoRecord \/ stored.db_type = kind

IInv == TypeOK /\ ObjectInv

(* The classes there are.                                                  *)
LEMMA Classes ==
    ASSUME SetupInv
    PROVE  /\ kind \in Sql => IsSql(ClassOf(kind))
           /\ kind \notin Sql => ClassOf(kind) = kind /\ ~IsSql(kind)
           /\ ClassOf(None) = "Database"
           /\ SecretField \in Keys /\ SecretSent \in Keys
           /\ kind # None
           /\ kind \in Kinds
  BY ConnectionModelsAssumption
  DEF SetupInv, Kinds, Passworded, Sql, Files, ClassOf, IsSql, SecretField, SecretSent,
      Keys, Attributes, Secrets

(* A payload that is validated makes an object that fits, whether it comes *)
(* from the server or went through a validation before.                    *)
LEMMA ValidatedFits ==
    ASSUME SetupInv,
           NEW p, p = [k \in Keys |-> p[k]],
           \/ p.db_type = kind /\ p.database_type = None
           \/ kind \in Sql /\ p.db_type = None /\ p.database_type = kind,
           HasSecret => p[SecretField] = None,
           ShowsPassphrase(p)
    PROVE  /\ Fits(Validated(p)) /\ HoldsSecret(Validated(p), None)
  <1> DEFINE c == ClassOf(p.db_type)
             q == [k \in Keys |->
                      IF k \in Stripped(c) THEN None
                      ELSE IF k \in Defaulted(c) /\ p[k] = None THEN Std ELSE p[k]]
             f == Incoming(c, p)
  <1>1. Validated(p) = [class |-> c, fields |-> f]
    BY DEF Validated
  <1>2. /\ kind \in Sql => IsSql(c)
        /\ kind \notin Sql => c = kind /\ ~IsSql(c)
    BY Classes DEF ClassOf, IsSql
  <1>3. /\ Stripped(c) \cap {"db_type", "database_type", "schema"} = {}
        /\ Defaulted(c) \subseteq {"preset", "version"}
        /\ SecretField \in Secrets /\ SecretField \notin {"preset", "version"}
    BY DEF Stripped, Defaulted, SecretField, Secrets
  <1>4. /\ q.db_type = p.db_type /\ q.database_type = p.database_type
        /\ kind \in Passworded => q.dbpassword = None
        /\ HasSecret => q[SecretField] = None
        /\ q.passphrase_encrypted = p.passphrase_encrypted
        /\ \A a \in Defaulted(c) : q[a] # None
        /\ q = [k \in Keys |-> q[k]]
    <2>1. kind \in Passworded => "dbpassword" \in Stripped(c)
      BY <1>2 DEF Passworded, Stripped, Sql
    <2>2. /\ "db_type" \in Keys /\ "database_type" \in Keys /\ "dbpassword" \in Keys
          /\ "passphrase_encrypted" \in Keys /\ "preset" \in Keys /\ "version" \in Keys
          /\ None # Std
      BY ConnectionModelsAssumption DEF Keys, Secrets, Attributes
    <2>4. "passphrase_encrypted" \notin Stripped(c) /\ Stripped(c) \cap Defaulted(c) = {}
      BY DEF Stripped, Defaulted
    <2> HIDE DEF c
    <2>3. QED
      BY <1>3, <2>1, <2>2, <2>4, Classes
  <1>5. /\ f = [k \in Keys |-> f[k]]
        /\ kind \in Sql => f.database_type = kind /\ f.db_type = None
        /\ kind \notin Sql => f.db_type = kind
        /\ kind \in Passworded => f.dbpassword = None
        /\ HasSecret => f[SecretField] = None
        /\ ShowsPassphrase(f)
        /\ \A a \in Defaulted(c) : f[a] # None
    <2>1. CASE kind \in Sql
      <3>1. f = Normalized(q)
        BY <1>2, <2>1 DEF Incoming
      <3>2. SecretField = "password"
        BY <2>1 DEF SetupInv, Sql, SecretField, Passworded
      <3>4. Defaulted(c) = {}
        BY <1>2, <2>1 DEF Defaulted, IsSql
      <3> HIDE DEF c, q, f
      <3>3. QED
        BY <1>4, <2>1, <3>1, <3>2, <3>4, Classes
        DEF Normalized, Keys, Secrets, Attributes, Passworded, ShowsPassphrase
    <2>2. CASE kind \notin Sql
      <3>1. f = q
        BY <1>2, <2>2 DEF Incoming
      <3> HIDE DEF c, q, f
      <3>2. QED
        BY <1>4, <2>2, <3>1 DEF ShowsPassphrase
    <2>3. QED
      BY <2>1, <2>2
  <1> HIDE DEF c, q, f
  <1>6. QED
    BY <1>1, <1>2, <1>5 DEF Fits, HoldsSecret

(* A read, of a payload that is validated once or twice.                   *)
LEMMA ReadFits ==
    ASSUME SetupInv, StoredInv, stored # NoRecord,
           NEW shown \in SUBSET SecretShown
    PROVE  LET o == Validated(Listed(shown))
               oo == Validated(o.fields)
           IN  Fits(o) /\ HoldsSecret(o, None) /\ Fits(oo) /\ HoldsSecret(oo, None)
  <1> DEFINE p == Listed(shown)
             o == Validated(p)
  <1>1. /\ p = [k \in Keys |-> p[k]]
        /\ p.db_type = kind /\ p.database_type = None
        /\ HasSecret => p[SecretField] = None
        /\ ShowsPassphrase(p)
    <2>1. /\ "db_type" \in Keys /\ "database_type" \in Keys
          /\ "database_type" \notin Attributes \cup {"db_type"}
          /\ "database_type" \notin SecretShown
          /\ SecretField \notin Attributes \cup {"db_type"} \cup SecretShown
          /\ "passphrase_encrypted" \in Keys
          /\ "passphrase_encrypted" \notin Attributes \cup {"db_type"}
      BY DEF Keys, Secrets, Attributes, SecretShown, SecretField
    <2>2. QED
      BY <2>1, Classes DEF Listed, StoredInv, ShowsPassphrase
  <1>2. Fits(o) /\ HoldsSecret(o, None)
    <2> HIDE DEF p
    <2>1. QED
      BY <1>1, ValidatedFits
  <1> HIDE DEF p, o
  <1>3. /\ o.fields = [k \in Keys |-> o.fields[k]]
        /\ \/ o.fields.db_type = kind /\ o.fields.database_type = None
           \/ kind \in Sql /\ o.fields.db_type = None /\ o.fields.database_type = kind
        /\ HasSecret => o.fields[SecretField] = None
        /\ ShowsPassphrase(o.fields)
    <2>1. kind \notin Sql => o.fields = Incoming(ClassOf(kind), p) /\ p.database_type = None
      BY <1>1 DEF o, Validated
    <2>2. kind \notin Sql => o.fields.database_type = None
      <3>1. "database_type" \notin Defaulted(ClassOf(kind)) /\ "database_type" \in Keys
        BY DEF Defaulted, Keys
      <3>2. QED
        BY <1>1, <2>1, <3>1, Classes DEF Incoming
    <2>3. QED
      BY <1>2, <2>2 DEF Fits, HoldsSecret
  <1>4. Fits(Validated(o.fields)) /\ HoldsSecret(Validated(o.fields), None)
    BY <1>3, ValidatedFits
  <1>5. QED
    BY <1>2, <1>4 DEF o, p

(* An object the caller makes, and one he sets a field or the secret of.   *)
LEMMA BuildFits ==
    ASSUME SetupInv, Build
    PROVE  Fits(object') /\ HoldsSecret(object', None)
  <1> DEFINE p == [NoFields EXCEPT !.db_type = kind]
  <1>1. /\ p = [k \in Keys |-> p[k]]
        /\ p.db_type = kind /\ p.database_type = None
        /\ p[SecretField] = None
        /\ ShowsPassphrase(p)
    <2>1. /\ "db_type" \in Keys /\ "database_type" \in Keys
          /\ "passphrase_encrypted" \in Keys
          /\ SecretField \in Keys /\ SecretField # "db_type"
      BY Classes DEF Keys, Secrets, SecretField
    <2>2. QED
      BY <2>1 DEF NoFields, ShowsPassphrase
  <1>2. object' = Validated(p)
    BY DEF Build
  <1> HIDE DEF p
  <1>3. QED
    BY <1>1, <1>2, ValidatedFits

LEMMA EditFits ==
    ASSUME SetupInv, Fits(object), HoldsSecret(object, chosen),
           NEW a \in Attributes, NEW v, a \in Defaulted(object.class) => v # None,
           object' = [object EXCEPT !.fields[a] = v]
    PROVE  Fits(object') /\ HoldsSecret(object', chosen)
  <1>1. /\ a \in Keys
        /\ a \notin {"db_type", "database_type", "dbpassword", "passphrase_encrypted", SecretField}
        /\ Defaulted(object.class) \subseteq Keys
    BY DEF Keys, Attributes, SecretField, Defaulted
  <1>2. /\ object'.class = object.class
        /\ object'.fields = [object.fields EXCEPT ![a] = v]
        /\ object' = [class |-> object'.class, fields |-> object'.fields]
    BY DEF Fits
  <1>3. /\ ShowsPassphrase(object'.fields)
        /\ \A b \in Defaulted(object'.class) : object'.fields[b] # None
    BY <1>1, <1>2 DEF Fits, ShowsPassphrase
  <1>4. QED
    BY <1>1, <1>2, <1>3 DEF Fits, HoldsSecret

LEMMA SetSecretFits ==
    ASSUME SetupInv, Fits(object), NEW s,
           object' = [object EXCEPT !.fields[SecretField] = s]
    PROVE  Fits(object') /\ HoldsSecret(object', s)
  <1>1. /\ SecretField \in Keys
        /\ SecretField \notin {"db_type", "database_type", "dbpassword", "passphrase_encrypted"}
        /\ SecretField \notin Defaulted(object.class)
    BY Classes DEF SecretField, Defaulted
  <1>2. /\ object'.class = object.class
        /\ object'.fields = [object.fields EXCEPT ![SecretField] = s]
        /\ object' = [class |-> object'.class, fields |-> object'.fields]
    BY DEF Fits
  <1>3. /\ ShowsPassphrase(object'.fields)
        /\ \A b \in Defaulted(object'.class) : object'.fields[b] # None
    BY <1>1, <1>2 DEF Fits, ShowsPassphrase
  <1>4. QED
    BY <1>1, <1>2, <1>3 DEF Fits, HoldsSecret

(* What a write sends: the type of the connection, and as its secret the   *)
(* one the object holds or none.                                           *)
LEMMA RequestIsTrue ==
    ASSUME SetupInv, Fits(object), HoldsSecret(object, chosen)
    PROVE  /\ Request(object).db_type = kind
           /\ HasSecret => Request(object)[SecretSent] \in {None, chosen}
           /\ HasSecret /\ ~False(chosen) => Request(object)[SecretSent] = chosen
  <1> DEFINE f == object.fields
             d == Dumped(object)
  <1>1. f = [k \in Keys |-> f[k]]
    BY DEF Fits
  <1>2. CASE kind \in Sql
    <2>1. d = DumpedSql(f) /\ SecretSent = "dbpassword" /\ SecretField = "password"
      BY <1>2 DEF SetupInv, Sql, Dumped, Fits, SecretSent, SecretField, Passworded
    <2>2. /\ f.database_type = kind
          /\ f.dbpassword = None
          /\ HasSecret /\ f.password = chosen
      BY <1>2, <2>1 DEF Fits, HoldsSecret, HasSecret, Passworded
    <2>3. /\ d.db_type = kind /\ d.dbpassword \in {None, chosen} /\ DOMAIN d = Keys
          /\ ~False(chosen) => d.dbpassword = chosen
      <3> HIDE DEF f, d
      <3>1. QED
        BY <1>1, <2>1, <2>2 DEF DumpedSql, PasswordSent, False, Keys, Secrets
    <2> HIDE DEF f, d
    <2>4. QED
      BY <2>1, <2>3 DEF Request, d
  <1>3. CASE kind \notin Sql
    <2>1. object.class = kind /\ ~IsSql(kind) /\ f.db_type = kind
      BY <1>3, Classes DEF Fits
    <2>2. CASE kind \in {"snowflake", "mongodb"} /\ ~keyed
      <3>1. /\ SecretSent = "dbpassword" /\ SecretField = "password"
            /\ f.dbpassword = None /\ f.password = chosen
        BY <2>2 DEF Fits, HoldsSecret, HasSecret, Passworded, SecretSent, SecretField
      <3>2. /\ d.db_type = kind /\ d.dbpassword \in {None, chosen}
            /\ ~False(chosen) => d.dbpassword = chosen
        <4>1. d = DumpedSnowflake(f) \/ d = DumpedMongo(f)
          BY <2>1, <2>2 DEF Dumped
        <4> HIDE DEF f, d
        <4>2. QED
          BY <1>1, <2>1, <3>1, <4>1
          DEF DumpedSnowflake, DumpedMongo, PasswordSent, False, Keys, Secrets
      <3> HIDE DEF f, d
      <3>3. QED
        BY <3>1, <3>2 DEF Request, d
    <2>3. CASE kind = "dynamo_db"
      <3>1. d = DumpedDynamo(f) /\ ~HasSecret
        BY <2>1, <2>3 DEF Dumped, HasSecret, Passworded, Sql
      <3>2. d.db_type = kind
        <4> HIDE DEF f, d
        <4>1. QED
          BY <1>1, <2>1, <3>1 DEF DumpedDynamo
      <3> HIDE DEF f, d
      <3>3. QED
        BY <3>1, <3>2 DEF Request, d
    <2>4. CASE kind \notin {"snowflake", "mongodb", "dynamo_db"}
      <3>1. d = f
        BY <2>1, <2>4 DEF Dumped
      <3>2. HasSecret => SecretSent = SecretField /\ SecretSent # "version"
                         /\ f[SecretSent] = chosen
        BY <1>3, <2>4 DEF HoldsSecret, SecretSent, SecretField, Passworded
      <3>3. "db_type" \in Keys /\ SecretSent \in Keys
        BY Classes DEF Keys
      <3> HIDE DEF f, d
      <3>4. QED
        BY <1>1, <2>1, <3>1, <3>2, <3>3 DEF Request, d
    <2>6. CASE keyed
      <3>1. /\ SecretSent = "passphrase" /\ f.passphrase = chosen
            /\ d = DumpedSnowflake(f)
        BY <2>1, <2>6 DEF SetupInv, HoldsSecret, HasSecret, Passworded, SecretSent,
           SecretField, Dumped
      <3> HIDE DEF f, d
      <3>2. QED
        BY <1>1, <2>1, <3>1 DEF Request, d, DumpedSnowflake, Keys, Secrets
    <2>5. QED
      BY <2>2, <2>3, <2>4, <2>6
  <1>4. QED
    BY <1>2, <1>3

(* Snowflake's other secret and what it is shown as are sent unchanged.    *)
LEMMA SnowflakeSendsBack ==
    ASSUME SetupInv, Fits(object), keyed
    PROVE  LET f == object.fields
               p == Request(object)
           IN  /\ kind = "snowflake"
               /\ p.passphrase = f.passphrase
               /\ p.passphrase_encrypted = f.passphrase_encrypted
  <1> DEFINE f == object.fields
             d == Dumped(object)
  <1>1. kind = "snowflake"
    BY DEF SetupInv
  <1>2. f = [k \in Keys |-> f[k]] /\ d = DumpedSnowflake(f)
    BY <1>1, Classes DEF Fits, Dumped, Sql, IsSql
  <1>3. Request(object) = [d EXCEPT !.version = IF @ = None THEN Std ELSE @]
    BY DEF Request
  <1> HIDE DEF f, d
  <1>4. QED
    BY <1>1, <1>2, <1>3 DEF DumpedSnowflake, Keys, Secrets, f

LEMMA InitInv == Init => IInv
  <1> SUFFICES ASSUME Init PROVE IInv
    OBVIOUS
  <1>1. saved \in BOOLEAN
    BY Zenon DEF Init
  <1>2. /\ kind \in Kinds
        /\ keyed \in (IF kind = "snowflake" THEN BOOLEAN ELSE {FALSE})
        /\ replaces \in BOOLEAN
        /\ takesBack \in (IF keyed THEN BOOLEAN ELSE {FALSE})
    BY DEF Init
  <1>5. /\ keyed \in BOOLEAN /\ (keyed => kind = "snowflake")
        /\ takesBack \in BOOLEAN /\ (takesBack => keyed)
    BY <1>2, Zenon
  <1>3. stored = NoRecord /\ object = NoObject /\ chosen = None
    BY DEF Init
  <1>4. QED
    BY <1>1, <1>2, <1>3, <1>5, Zenon DEF IInv, TypeOK, ObjectInv

(* What kind of connection it is, and of server, never changes.            *)
LEMMA SetupStays ==
    ASSUME Next
    PROVE  setup' = setup
  BY DEF Next, Read, Build, Edit, SetSecret, Write, WriteFails,
     ChangeElsewhere, CreateElsewhere

LEMMA SameSetup ==
    ASSUME setup' = setup
    PROVE  /\ kind' = kind /\ (keyed' <=> keyed) /\ (replaces' <=> replaces)
           /\ (takesBack' <=> takesBack)
           /\ SecretField' = SecretField /\ (HasSecret' <=> HasSecret)
           /\ Applicable' = Applicable
  <1>1. kind' = kind /\ keyed' = keyed /\ replaces' = replaces /\ takesBack' = takesBack
    BY DEF setup
  <1>2. SecretField' = SecretField
    BY <1>1, Zenon DEF SecretField
  <1>3. QED
    BY <1>1, <1>2 DEF HasSecret, Applicable

(* The caller's object, step by step.                                      *)
LEMMA ObjectKept ==
    ASSUME IInv, Next
    PROVE  /\ ObjectInv'
           /\ chosen' \in Secret \cup {None, Blank}
           /\ setup' = setup
  <1>1. SetupInv /\ StoredInv /\ chosen \in Secret \cup {None, Blank}
    BY DEF IInv, TypeOK, SetupInv, StoredInv
  <1>2. setup' = setup
    BY SetupStays
  <1>3. \A o, s : Fits(o) /\ HoldsSecret(o, s) /\ object' = o /\ chosen' = s => ObjectInv'
    BY <1>2, SameSetup DEF ObjectInv, Fits, HoldsSecret
  <1>4. CASE Read
    <2>1. PICK shown \in SUBSET SecretShown :
             \/ object' = Validated(Listed(shown))
             \/ object' = Validated(Validated(Listed(shown)).fields)
      BY <1>4 DEF Read
    <2>2. chosen' = None /\ stored # NoRecord
      BY <1>4 DEF Read
    <2>3. QED
      BY <1>1, <1>2, <1>3, <2>1, <2>2, ReadFits
  <1>5. CASE Build
    <2>1. chosen' = None
      BY <1>5 DEF Build
    <2>2. QED
      BY <1>1, <1>2, <1>3, <1>5, <2>1, BuildFits
  <1>6. CASE Edit
    <2>1. PICK a, v :
             /\ a \in Attributes /\ object' = [object EXCEPT !.fields[a] = v]
             /\ a \in Defaulted(object.class) => v # None
      <3>1. PICK a \in (Applicable \ (IF kind = "databricks" THEN {} ELSE {"version"}))
                           \cup (IF kind \in Sql THEN {"data_encoding"} ELSE {}) :
               \E v \in {IF a \in Defaulted(object.class) THEN Blank ELSE None} \cup Value :
                  object' = [object EXCEPT !.fields[a] = v]
        BY <1>6 DEF Edit
      <3>2. a \in Attributes
        BY DEF Applicable, Attributes
      <3>3. PICK v \in {IF a \in Defaulted(object.class) THEN Blank ELSE None} \cup Value :
               object' = [object EXCEPT !.fields[a] = v]
        BY <3>1
      <3>4. a \in Defaulted(object.class) => v # None
        BY <3>3, ConnectionModelsAssumption
      <3>5. QED
        BY <3>2, <3>3, <3>4
    <2>2. Fits(object) /\ HoldsSecret(object, chosen) /\ chosen' = chosen
      BY <1>6 DEF Edit, IInv, ObjectInv
    <2>3. QED
      BY <1>1, <1>2, <1>3, <2>1, <2>2, EditFits
  <1>7. CASE SetSecret
    <2>1. PICK s \in Secret \cup {None, Blank} :
             object' = [object EXCEPT !.fields[SecretField] = s] /\ chosen' = s
      BY <1>7 DEF SetSecret
    <2>2. Fits(object)
      BY <1>7 DEF SetSecret, IInv, ObjectInv
    <2>3. QED
      BY <1>1, <1>2, <1>3, <2>1, <2>2, SetSecretFits
  <1>8. CASE Write \/ WriteFails \/ ChangeElsewhere \/ CreateElsewhere
    <2>1. object' = object /\ chosen' = chosen
      BY <1>8 DEF Write, WriteFails, ChangeElsewhere, CreateElsewhere
    <2>2. QED
      BY <1>1, <1>2, <2>1, SameSetup
      DEF IInv, ObjectInv, Fits, HoldsSecret
  <1>9. QED
    BY <1>4, <1>5, <1>6, <1>7, <1>8 DEF Next

(* The server's record stays one of this kind of connection.               *)
LEMMA StoredKept ==
    ASSUME IInv, Next
    PROVE  StoredInv'
  <1>1. /\ SetupInv /\ DOMAIN stored = DOMAIN NoRecord
        /\ "db_type" \in DOMAIN NoRecord
        /\ stored = NoRecord \/ stored.db_type = kind
    BY DEF IInv, TypeOK, NoRecord, SetupInv
  <1>2. DOMAIN NoRecord' = DOMAIN NoRecord
    BY DEF NoRecord
  <1>3. kind' = kind
    BY SetupStays, SameSetup
  <1>4. CASE Write
    <2>1. Fits(object) /\ HoldsSecret(object, chosen)
      BY <1>4 DEF Write, IInv, ObjectInv
    <2>2. stored' = RecordAfter(Request(object)) /\ Request(object).db_type = kind
      BY <1>1, <1>4, <2>1, RequestIsTrue DEF Write
    <2>3. DOMAIN stored' = DOMAIN stored /\ stored'.db_type = kind
      BY <1>1, <2>2 DEF RecordAfter
    <2>4. QED
      BY <1>1, <1>2, <1>3, <2>3 DEF StoredInv
  <1>5. CASE ChangeElsewhere
    <2>1. PICK k, v : /\ k \in Attributes \cup {"secret"}
                        /\ stored' = [stored EXCEPT ![k] = v]
      BY <1>5 DEF ChangeElsewhere, Applicable, Attributes
    <2>2. stored # NoRecord /\ k # "db_type"
      BY <1>5, <2>1 DEF ChangeElsewhere, Attributes
    <2>3. QED
      BY <1>1, <1>2, <1>3, <2>1, <2>2 DEF StoredInv
  <1>6. CASE CreateElsewhere
    <2>1. PICK v, s : stored' = [NoRecord EXCEPT !.db_type = kind, !.version = v, !.secret = s]
      BY <1>6 DEF CreateElsewhere
    <2>2. QED
      BY <1>1, <1>2, <1>3, <2>1 DEF StoredInv, NoRecord
  <1>7. CASE Read \/ Build \/ Edit \/ SetSecret \/ WriteFails
    <2>1. stored' = stored
      BY <1>7 DEF Read, Build, Edit, SetSecret, WriteFails
    <2>2. QED
      BY <1>1, <1>2, <1>3, <2>1 DEF StoredInv
  <1>8. QED
    BY <1>4, <1>5, <1>6, <1>7 DEF Next

LEMMA StepInv == IInv /\ [Next]_vars => IInv'
  <1> SUFFICES ASSUME IInv, [Next]_vars PROVE IInv'
    OBVIOUS
  <1>1. CASE Next
    <2>1. ObjectInv' /\ chosen' \in Secret \cup {None, Blank} /\ StoredInv'
      BY <1>1, ObjectKept, StoredKept
    <2>5. SetupInv /\ kind' = kind /\ keyed' = keyed
          /\ replaces' = replaces /\ takesBack' = takesBack
      BY <1>1, SetupStays DEF setup, IInv, TypeOK, SetupInv
    <2>6. /\ kind' \in Kinds
          /\ keyed' \in BOOLEAN /\ replaces' \in BOOLEAN /\ takesBack' \in BOOLEAN
          /\ keyed' => kind' = "snowflake"
          /\ takesBack' => keyed'
      BY <2>5, Zenon DEF IInv, TypeOK
    <2>2. saved' \in BOOLEAN
      <3>1. saved' \in BOOLEAN \/ saved' = FALSE
        BY <1>1 DEF Next, Read, Build, Edit, SetSecret, Write, WriteFails,
           ChangeElsewhere, CreateElsewhere
      <3>2. QED
        BY <3>1, Zenon
    <2>3. object' = NoObject' \/
             kind' = IF IsSql(object'.class) THEN object'.fields.database_type
                     ELSE object'.fields.db_type
      <3>2. kind' \notin Sql => ~IsSql(kind')
        BY <2>5, Classes
      <3>3. QED
        BY <2>1, <3>2 DEF ObjectInv, Fits
    <2>4. QED
      BY <2>1, <2>2, <2>3, <2>6 DEF IInv, TypeOK, StoredInv
  <1>2. CASE UNCHANGED vars
    BY <1>2 DEF vars, setup, IInv, TypeOK, ObjectInv, Fits, HoldsSecret, HasSecret, SecretField
  <1>3. QED
    BY <1>1, <1>2

(* The inductive invariant holds in every reachable state.                 *)
THEOREM InvariantHolds == Spec => []IInv
  BY InitInv, StepInv, PTL DEF Spec

(* Neither the record nor the object ever becomes a connection of another  *)
(* type, for any values of the fields (_normalize_incoming, _serialize).   *)
THEOREM TypeCorrect == Spec => []TypeOK
  <1>1. IInv => TypeOK
    BY DEF IInv
  <1>2. QED
    BY InvariantHolds, <1>1, PTL

(* No write sets a secret that the caller did not choose, since what the   *)
(* server showed of it is stripped; but where nothing strips it, as with   *)
(* Snowflake's passphrase, a server that takes it back gets an earlier     *)
(* secret of the connection, and nothing else (validate_connection,        *)
(* create_or_update_connection).                                           *)
THEOREM SecretsAreCallers == Spec => SecretsFromCallers
  <1> DEFINE p == Request(object)
  <1>1. IInv /\ [Next]_vars =>
           [Write => stored'.secret \in {stored.secret, chosen} \/ RolledBack]_vars
    <2> SUFFICES ASSUME IInv, Write
                 PROVE  stored'.secret \in {stored.secret, chosen} \/ RolledBack
      OBVIOUS
    <2>1. SetupInv /\ "secret" \in DOMAIN stored
      BY DEF IInv, TypeOK, NoRecord, SetupInv
    <2>2. Fits(object) /\ HoldsSecret(object, chosen)
      BY DEF Write, IInv, ObjectInv
    <2>3. stored'.secret = SecretAfter(p)
      BY <2>1 DEF Write, RecordAfter
    <2>4. HasSecret => p[SecretSent] \in {None, chosen}
      BY <2>1, <2>2, RequestIsTrue
    <2>5. CASE HasSecret /\ p[SecretSent] # None
      BY <2>3, <2>4, <2>5 DEF SecretAfter
    <2>6. CASE /\ ~(HasSecret /\ p[SecretSent] # None)
               /\ takesBack /\ p.passphrase_encrypted # None
      <3>1. keyed /\ kind = "snowflake" /\ p.passphrase = object.fields.passphrase
            /\ p.passphrase_encrypted = object.fields.passphrase_encrypted
        BY <2>1, <2>2, <2>6, SnowflakeSendsBack DEF SetupInv
      <3>2. chosen = None
        BY <2>2, <2>6, <3>1
        DEF HasSecret, Passworded, HoldsSecret, SecretField, SecretSent
      <3>3. p.passphrase_encrypted = Encrypted(stored'.secret)
        <4>1. \E s : p.passphrase_encrypted = Encrypted(s)
          BY <2>6, <3>1, <2>2 DEF Fits, ShowsPassphrase
        <4>2. QED
          BY <2>3, <2>6, <4>1 DEF SecretAfter, Encrypted
      <3>4. QED
        BY <2>6, <3>1, <3>2, <3>3 DEF RolledBack
    <2>7. CASE /\ ~(HasSecret /\ p[SecretSent] # None)
               /\ ~(takesBack /\ p.passphrase_encrypted # None)
      BY <2>3, <2>7 DEF SecretAfter
    <2>8. QED
      BY <2>5, <2>6, <2>7
  <1>2. QED
    BY InvariantHolds, <1>1, PTL DEF Spec, SecretsFromCallers

-----------------------------------------------------------------------------
(* What a write leaves on the server.  A record always has a version, so a *)
(* write that fills one in never replaces a missing one; while saved       *)
(* holds, the record has what the object has, and where the class would    *)
(* hide a missing field behind its default, exactly that.                  *)
Versioned ==
    /\ stored # NoRecord => stored.version # None
    /\ ~False(chosen) => HasSecret

Landed ==
    saved =>
        /\ stored # NoRecord /\ object # NoObject
        /\ \A a \in Applicable :
              (replaces /\ a # "version") \/ ~False(object.fields[a]) =>
                 /\ Same(stored[a], object.fields[a])
                 /\ a \in Defaulted(object.class) => stored[a] = object.fields[a]
        /\ ~False(chosen) => stored.secret = chosen

WInv == IInv /\ Versioned /\ Landed

(* A validation keeps every attribute, but for the schema where the engine *)
(* has none, and fills in what is missing and has a default.               *)
Filled(class, a, v) == IF a \in Defaulted(class) /\ v = None THEN Std ELSE v

LEMMA ValidatedKeeps ==
    ASSUME NEW p, p = [k \in Keys |-> p[k]], NEW a \in Attributes,
           a = "schema" => p.db_type # "mysql" /\ p.database_type # "mysql"
    PROVE  /\ Validated(p).fields[a] = Filled(ClassOf(p.db_type), a, p[a])
           /\ Validated(p).fields = [k \in Keys |-> Validated(p).fields[k]]
  <1> DEFINE c == ClassOf(p.db_type)
             q == [k \in Keys |->
                      IF k \in Stripped(c) THEN None
                      ELSE IF k \in Defaulted(c) /\ p[k] = None THEN Std ELSE p[k]]
  <1>1. Stripped(c) \cap (Attributes \cup {"db_type", "database_type"}) = {}
    BY DEF Stripped, Attributes
  <1>7. Defaulted(c) \subseteq Attributes \ {"schema"}
    BY DEF Defaulted, Attributes
  <1>2. a \in Keys /\ "db_type" \in Keys /\ "database_type" \in Keys
        /\ a # "db_type" /\ a # "database_type"
    BY DEF Keys, Attributes
  <1>3. Validated(p).fields = IF IsSql(c) THEN Normalized(q) ELSE q
    BY DEF Validated, Incoming
  <1> HIDE DEF c
  <1>4. q[a] = Filled(c, a, p[a]) /\ q.db_type = p.db_type
        /\ q.database_type = p.database_type /\ q = [k \in Keys |-> q[k]]
    <2>1. "db_type" \notin Attributes /\ "database_type" \notin Attributes
      BY DEF Attributes
    <2>2. QED
      BY <1>1, <1>2, <1>7, <2>1 DEF Filled
  <1> HIDE DEF q
  <1>5. Normalized(q)[a] = q[a] /\ Normalized(q) = [k \in Keys |-> Normalized(q)[k]]
    BY <1>2, <1>4 DEF Normalized
  <1>6. QED
    BY <1>3, <1>4, <1>5 DEF c

LEMMA SchemaMeansSomething ==
    ASSUME SetupInv, NEW a \in Applicable
    PROVE  a \in Attributes /\ (a = "schema" => kind # "mysql")
  BY DEF Applicable, Attributes

(* What a read shows of a field is what the record holds, or the default.  *)
LEMMA ReadsBack ==
    ASSUME SetupInv, StoredInv, stored # NoRecord, NEW a \in Applicable
    PROVE  ReadBack[a] = Filled(ClassOf(kind), a, stored[a])
  <1> DEFINE p == Listed(SecretShown)
  <1>1. a \in Attributes /\ (a = "schema" => kind # "mysql")
    BY SchemaMeansSomething
  <1>2. "db_type" \in Keys /\ "database_type" \in Keys /\ a \in Keys
        /\ "database_type" \notin Attributes \cup {"db_type"} \cup SecretShown
    BY <1>1 DEF Keys, Attributes, SecretShown
  <1>3. p = [k \in Keys |-> p[k]] /\ p[a] = stored[a]
        /\ p.db_type = kind /\ p.database_type = None
    BY <1>1, <1>2 DEF Listed, StoredInv
  <1>4. None # "mysql"
    BY ConnectionModelsAssumption DEF Kinds, Passworded, Sql
  <1> HIDE DEF p
  <1>5. Validated(p).fields[a] = Filled(ClassOf(kind), a, p[a])
    BY <1>1, <1>3, <1>4, ValidatedKeeps
  <1>6. QED
    BY <1>3, <1>5 DEF ReadBack, p

(* The defaults an object's class has are those of its kind.               *)
LEMMA SameDefaults ==
    ASSUME SetupInv, Fits(object)
    PROVE  Defaulted(object.class) = Defaulted(ClassOf(kind))
           /\ Defaulted(object.class) \subseteq {"version", "preset"}
  BY Classes DEF Fits, Defaulted, IsSql

(* What a write sends of a field: its value, unless that is false, and     *)
(* then one that is as well; but always a version.                         *)
Carries(d, f, a) ==
    /\ ~False(f[a]) => d[a] = f[a]
    /\ False(f[a]) => False(d[a])
    /\ a \in {"version", "preset"} => d[a] = f[a]

LEMMA DumpCarries ==
    ASSUME SetupInv, Fits(object), NEW a \in Applicable
    PROVE  Carries(Dumped(object), object.fields, a) /\ DOMAIN Dumped(object) = Keys
  <1> DEFINE f == object.fields
             d == Dumped(object)
  <1> SUFFICES Carries(d, f, a) /\ DOMAIN d = Keys
    OBVIOUS
  <1>1. f = [k \in Keys |-> f[k]] /\ None # Blank
    BY ConnectionModelsAssumption DEF Fits
  <1>2. Attributes \subseteq Keys /\ a \in Attributes
    BY SchemaMeansSomething DEF Keys
  <1>3. CASE kind \in Sql
    <2>1. d = DumpedSql(f) /\ f.database_type = kind
      BY <1>3 DEF Dumped, Fits
    <2>2. /\ a = "schema" => kind # "mysql"
          /\ a = "data_encoding" => kind \in {"mysql", "postgres"}
          /\ a = "s3_bucket_name" => kind = "redshift"
      BY <1>3 DEF Applicable, Sql, Files
    <2> HIDE DEF f, d
    <2>3. QED
      BY <1>1, <1>2, <2>1, <2>2
      DEF Carries, DumpedSql, SchemaSent, OptionSent, EncodingSent, False,
          Attributes, Keys, Secrets
  <1>4. CASE kind = "snowflake"
    <2>1. d = DumpedSnowflake(f)
      BY <1>4, Classes DEF Dumped, Fits, Sql, IsSql
    <2> HIDE DEF f, d
    <2>2. QED
      BY <1>1, <1>2, <2>1
      DEF Carries, DumpedSnowflake, SchemaSent, False, Attributes, Keys, Secrets
  <1>5. CASE kind = "mongodb"
    <2>1. d = DumpedMongo(f)
      BY <1>5, Classes DEF Dumped, Fits, Sql, IsSql
    <2> HIDE DEF f, d
    <2>2. QED
      BY <1>1, <1>2, <2>1
      DEF Carries, DumpedMongo, OptionSent, False, Attributes, Keys, Secrets
  <1>6. CASE kind = "dynamo_db"
    <2>1. d = DumpedDynamo(f) /\ a # "schema"
      BY <1>6, Classes DEF Dumped, Fits, Sql, IsSql, Applicable
    <2> HIDE DEF f, d
    <2>2. QED
      BY <1>1, <1>2, <2>1
      DEF Carries, DumpedDynamo, False, Attributes, Keys, Secrets
  <1>7. CASE kind \notin Sql \cup {"snowflake", "mongodb", "dynamo_db"}
    <2>1. d = f
      BY <1>7, Classes DEF Dumped, Fits
    <2> HIDE DEF f, d
    <2>2. QED
      BY <1>1, <1>2, <2>1 DEF Carries, Attributes
  <1>8. QED
    BY <1>3, <1>4, <1>5, <1>6, <1>7

LEMMA RequestCarries ==
    ASSUME SetupInv, Fits(object), NEW a \in Applicable
    PROVE  LET f == object.fields
               p == Request(object)
           IN  /\ ~False(f[a]) => p[a] = f[a]
               /\ False(f[a]) /\ a # "version" => False(p[a])
               /\ a \in {"version", "preset"} /\ f[a] # None => p[a] = f[a]
               /\ a = "version" /\ f[a] = None => p[a] = Std
  <1> DEFINE f == object.fields
             d == Dumped(object)
             p == Request(object)
  <1>1. Carries(d, f, a) /\ DOMAIN d = Keys /\ "version" \in Keys /\ a \in Keys
    BY DumpCarries, SchemaMeansSomething DEF Keys, Attributes
  <1>2. p = [d EXCEPT !.version = IF @ = None THEN Std ELSE @]
    BY DEF Request
  <1> HIDE DEF f, d, p
  <1>3. p[a] = IF a = "version" /\ d[a] = None THEN Std ELSE d[a]
    BY <1>1, <1>2
  <1>4. /\ ~False(f[a]) => p[a] = f[a]
        /\ False(f[a]) /\ a # "version" => False(p[a])
        /\ a \in {"version", "preset"} /\ f[a] # None => p[a] = f[a]
        /\ a = "version" /\ f[a] = None => p[a] = Std
    BY <1>1, <1>3 DEF Carries, False
  <1>5. QED
    BY <1>4 DEF f, p

(* The record after a write, field by field.                               *)
LEMMA RecordTakes ==
    ASSUME SetupInv, Fits(object), StoredInv, NEW a \in Applicable,
           stored' = RecordAfter(Request(object))
    PROVE  LET f == object.fields
           IN  /\ ~False(f[a]) => stored'[a] = f[a]
               /\ False(f[a]) /\ a # "version" =>
                     \/ False(stored'[a])
                     \/ ~replaces /\ stored'[a] = stored[a]
               /\ a \in {"version", "preset"} /\ f[a] # None => stored'[a] = f[a]
               /\ a = "version" /\ f[a] = None => stored'[a] = Std
  <1> DEFINE p == Request(object)
             f == object.fields
  <1>1. /\ a \in DOMAIN stored /\ a \notin {"secret", "db_type"}
    BY SchemaMeansSomething DEF StoredInv, NoRecord, Attributes
  <1>2. stored'[a] = IF p[a] = None /\ ~replaces THEN stored[a] ELSE p[a]
    BY <1>1 DEF RecordAfter
  <1>3. /\ ~False(f[a]) => p[a] = f[a]
        /\ False(f[a]) /\ a # "version" => False(p[a])
        /\ a \in {"version", "preset"} /\ f[a] # None => p[a] = f[a]
        /\ a = "version" /\ f[a] = None => p[a] = Std
    BY RequestCarries
  <1>4. Std # None
    BY ConnectionModelsAssumption
  <1> HIDE DEF p, f
  <1>5. QED
    BY <1>2, <1>3, <1>4 DEF False, f

-----------------------------------------------------------------------------
LEMMA WInvInit == Init => WInv
  <1> SUFFICES ASSUME Init PROVE WInv
    OBVIOUS
  <1>1. ~saved
    BY Zenon DEF Init
  <1>2. stored = NoRecord /\ object = NoObject /\ chosen = None
    BY DEF Init
  <1>3. QED
    BY <1>1, <1>2, InitInv DEF WInv, Versioned, Landed, False

LEMMA VersionedKept ==
    ASSUME IInv, Versioned, Next
    PROVE  Versioned'
  <1>1. /\ SetupInv /\ StoredInv /\ (HasSecret' <=> HasSecret)
        /\ None # Blank /\ Std # Blank /\ Std # None
        /\ \A v \in Value : v # None
    BY SetupStays, SameSetup, ConnectionModelsAssumption
    DEF IInv, TypeOK, StoredInv, SetupInv
  <1>2. ASSUME ~False(chosen')
        PROVE  HasSecret'
    <2>1. chosen' = None \/ chosen' = chosen \/ HasSecret
      BY DEF Next, Read, Build, Edit, SetSecret, Write, WriteFails,
         ChangeElsewhere, CreateElsewhere
    <2>2. QED
      BY <1>1, <1>2, <2>1 DEF Versioned, False
  <1>3. CASE Read \/ Build \/ Edit \/ SetSecret \/ WriteFails
    <2>1. stored' = stored
      BY <1>3 DEF Read, Build, Edit, SetSecret, WriteFails
    <2>2. QED
      BY <1>2, <2>1 DEF Versioned, NoRecord
  <1>4. CASE Write
    <2>1. Fits(object) /\ stored' = RecordAfter(Request(object)) /\ "version" \in Applicable
      BY <1>4 DEF Write, IInv, ObjectInv, Applicable
    <2>2. stored'.version # None
      BY <1>1, <2>1, RecordTakes
    <2>3. QED
      BY <1>2, <2>2 DEF Versioned
  <1>5. CASE ChangeElsewhere
    <2>1. stored # NoRecord
      BY <1>5 DEF ChangeElsewhere
    <2>2. PICK k, v : /\ stored' = [stored EXCEPT ![k] = v]
                      /\ k = "version" => v \in {Std} \cup Value
      BY <1>5 DEF ChangeElsewhere, ValuesOf
    <2>3. "version" \in DOMAIN stored
      BY <1>1 DEF StoredInv, NoRecord, Attributes
    <2>4. stored'.version # None
      BY <1>1, <2>1, <2>2, <2>3 DEF Versioned
    <2>5. QED
      BY <1>2, <2>4 DEF Versioned
  <1>6. CASE CreateElsewhere
    <2>1. PICK v, s : /\ stored' = [NoRecord EXCEPT !.db_type = kind, !.version = v,
                                                     !.secret = s]
                      /\ v \in {Std} \cup Value
      BY <1>6 DEF CreateElsewhere
    <2>2. stored'.version = v
      BY <2>1 DEF NoRecord, Attributes
    <2>3. QED
      BY <1>1, <1>2, <2>1, <2>2 DEF Versioned
  <1>7. QED
    BY <1>3, <1>4, <1>5, <1>6 DEF Next

LEMMA LandedKept ==
    ASSUME IInv, Versioned, Next
    PROVE  Landed'
  <1>1. CASE Write
    <2>1. /\ SetupInv /\ StoredInv /\ Fits(object) /\ HoldsSecret(object, chosen)
          /\ stored' = RecordAfter(Request(object))
          /\ object' = object /\ chosen' = chosen /\ object # NoObject
      BY <1>1 DEF Write, IInv, TypeOK, StoredInv, SetupInv, ObjectInv
    <2>2. stored' # NoRecord'
      <3>1. "db_type" \in DOMAIN stored /\ NoRecord.db_type = None /\ kind # None
        BY <2>1, Classes DEF StoredInv, NoRecord
      <3>2. stored'.db_type = kind
        BY <2>1, <3>1, RequestIsTrue DEF RecordAfter
      <3>3. NoRecord' = NoRecord
        BY DEF NoRecord
      <3>4. QED
        BY <3>1, <3>2, <3>3
    <2>3. ASSUME NEW a \in Applicable, (replaces /\ a # "version") \/ ~False(object.fields[a])
          PROVE  /\ Same(stored'[a], object.fields[a])
                 /\ a \in Defaulted(object.class) => stored'[a] = object.fields[a]
      <3>4. a \in Defaulted(object.class) => stored'[a] = object.fields[a]
        BY <2>1, SameDefaults, RecordTakes DEF Fits
      <3>1. CASE ~False(object.fields[a])
        BY <2>1, <3>1, <3>4, RecordTakes DEF Same
      <3>2. CASE replaces /\ a # "version" /\ False(object.fields[a])
        <4>1. RecordAfter(Request(object))[a] = Request(object)[a]
          <5>1. a \in DOMAIN stored /\ a \notin {"secret", "db_type"}
            BY <2>1, SchemaMeansSomething DEF StoredInv, NoRecord, Attributes
          <5>2. QED
            BY <3>2, <5>1 DEF RecordAfter
        <4>2. False(Request(object)[a])
          BY <2>1, <3>2, RequestCarries
        <4>3. QED
          BY <2>1, <3>2, <3>4, <4>1, <4>2 DEF Same
      <3>3. QED
        BY <2>3, <3>1, <3>2
    <2>4. ~False(chosen) => stored'.secret = chosen
      <3>1. ASSUME ~False(chosen)
            PROVE  HasSecret /\ Request(object)[SecretSent] = chosen /\ chosen # None
        BY <2>1, <3>1, RequestIsTrue DEF Versioned, False
      <3>2. "secret" \in DOMAIN stored
        BY <2>1 DEF StoredInv, NoRecord
      <3>3. QED
        BY <2>1, <3>1, <3>2 DEF RecordAfter, SecretAfter
    <2>5. Applicable' = Applicable /\ (replaces' <=> replaces)
      BY SetupStays, SameSetup
    <2>6. QED
      BY <2>1, <2>2, <2>3, <2>4, <2>5 DEF Landed
  <1>2. CASE \/ Read \/ Build \/ Edit \/ SetSecret
             \/ WriteFails \/ ChangeElsewhere \/ CreateElsewhere
    <2>1. saved' = FALSE
      BY <1>2 DEF Read, Build, Edit, SetSecret, WriteFails, ChangeElsewhere, CreateElsewhere
    <2>2. QED
      BY <2>1 DEF Landed
  <1>3. QED
    BY <1>1, <1>2 DEF Next

LEMMA WInvStep == WInv /\ [Next]_vars => WInv'
  <1> SUFFICES ASSUME WInv, [Next]_vars PROVE WInv'
    OBVIOUS
  <1>1. CASE Next
    BY <1>1, StepInv, VersionedKept, LandedKept DEF WInv
  <1>2. CASE UNCHANGED vars
    <2>1. IInv'
      BY <1>2, StepInv DEF WInv
    <2>2. Versioned' /\ Landed'
      <3>1. /\ (HasSecret' <=> HasSecret) /\ Applicable' = Applicable
            /\ (replaces' <=> replaces)
        BY <1>2, SameSetup DEF vars
      <3>2. QED
        BY <1>2, <3>1 DEF vars, WInv, Versioned, Landed, NoRecord
    <2>3. QED
      BY <2>1, <2>2 DEF WInv
  <1>3. QED
    BY <1>1, <1>2

(* So does the invariant on what a write leaves.                           *)
THEOREM WInvHolds == Spec => []WInv
  BY WInvInit, WInvStep, PTL DEF Spec

(* After a write that returned, a fresh read shows every field of the      *)
(* object that means something for the connection, whatever the values and *)
(* whatever the class renames, drops and fills in on the way, and the      *)
(* server has the secret the caller chose (_serialize,                     *)
(* create_or_update_connection).                                           *)
THEOREM WritesAreReadBack == Spec => []WrittenIsReadBack
  <1>1. WInv => WrittenIsReadBack
    <2> SUFFICES ASSUME WInv, saved PROVE WrittenIsReadBack
      BY DEF WrittenIsReadBack
    <2>1. SetupInv /\ StoredInv /\ stored # NoRecord
      BY DEF WInv, IInv, TypeOK, StoredInv, SetupInv, Landed
    <2>4. Fits(object)
      BY DEF WInv, IInv, ObjectInv, Landed
    <2>2. ASSUME NEW a \in Applicable,
                 (replaces /\ a # "version") \/ ~False(object.fields[a])
          PROVE  Same(ReadBack[a], object.fields[a])
      <3>1. ReadBack[a] = Filled(ClassOf(kind), a, stored[a])
        BY <2>1, ReadsBack
      <3>2. QED
        BY <2>1, <2>2, <2>4, <3>1, SameDefaults DEF WInv, Landed, Filled, Fits
    <2>3. QED
      BY <2>2 DEF WInv, Landed, WrittenIsReadBack
  <1>2. QED
    BY WInvHolds, <1>1, PTL

(* A write leaves every field alone in which the object agrees with what a *)
(* read shows of the record, on a server that resets what a PUT leaves out *)
(* and on one that keeps it, or it writes the default of a class where the *)
(* record has nothing (_serialize, the defaults of DynamoConnectionConfig  *)
(* and MongoConnectionConfig, create_or_update_connection).                *)
THEOREM NothingElseIsChanged == Spec => NothingElseChanges
  <1> DEFINE Kept == Write /\ stored # NoRecord =>
                 \A a \in Applicable :
                    object.fields[a] = ReadBack[a] =>
                       Same(stored'[a], stored[a]) \/ FilledIn(a)
  <1>1. WInv /\ [Next]_vars => [Kept]_vars
    <2> SUFFICES ASSUME WInv, Write, stored # NoRecord, NEW a \in Applicable,
                        object.fields[a] = ReadBack[a]
                 PROVE  Same(stored'[a], stored[a]) \/ FilledIn(a)
      OBVIOUS
    <2>1. /\ SetupInv /\ StoredInv /\ Fits(object)
          /\ stored' = RecordAfter(Request(object))
      BY DEF WInv, IInv, TypeOK, StoredInv, SetupInv, ObjectInv, Write
    <2>2. object.fields[a] = Filled(ClassOf(kind), a, stored[a])
      BY <2>1, ReadsBack
    <2>3. a = "version" => stored[a] # None
      BY DEF WInv, Versioned
    <2>4. CASE a \in Defaulted(object.class) /\ stored[a] = None
      <3>1. object.fields[a] = Std /\ ~False(Std)
        BY <2>1, <2>2, <2>4, SameDefaults, ConnectionModelsAssumption DEF Filled, False
      <3>2. stored'[a] = Std
        BY <2>1, <3>1, RecordTakes
      <3>3. QED
        BY <2>4, <3>2 DEF FilledIn
    <2>5. CASE ~(a \in Defaulted(object.class) /\ stored[a] = None)
      <3>1. object.fields[a] = stored[a]
        BY <2>1, <2>2, <2>5, SameDefaults DEF Filled
      <3>2. QED
        BY <2>1, <2>3, <3>1, RecordTakes DEF Same
    <2>6. QED
      BY <2>4, <2>5
  <1>2. QED
    BY WInvHolds, <1>1, PTL DEF Spec, NothingElseChanges
=============================================================================
