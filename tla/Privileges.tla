------------------------------ MODULE Privileges ------------------------------
(***************************************************************************)
(* One user's privileges on the databases, schemas and objects of a        *)
(* RisingWave cluster: what a catalog's acl column says, as acl_parser.go  *)
(* reads it, and what privilege_diff.go and syncPrivileges make of a       *)
(* snapshot of it and the grants of a spec. Operators only; the module     *)
(* PrivilegeSync runs them.                                                *)
(*                                                                         *)
(* The seven types of objects go through the same code in syncPrivileges   *)
(* and differ in their letters only. The user has one entry in an acl, and *)
(* grant options, which are read and never compared, are left out.         *)
(***************************************************************************)
CONSTANTS
    Databases,      \* databases of the cluster
    Schemas,        \* schema names
    Kinds,          \* types of objects
    Names,          \* object names
    Letters,        \* letters other clients grant or revoke
    NoDatabase      \* "", no target database

ObjectKinds ==
    {"TABLE", "VIEW", "MATERIALIZED VIEW", "SOURCE", "SINK", "SECRET",
     "FUNCTION"}

ASSUME PrivilegesAssumption ==
    /\ Kinds \subseteq ObjectKinds
    /\ "*" \notin Names
    /\ NoDatabase \notin Databases

-------------------------------------------------------------------------------
(* What privileges can be on. A statement names a schema or an object, but *)
(* not the database it is in: that is the current one of its session.      *)

Database(d) == [db |-> d, on |-> <<"DATABASE", d>>]

Schema(d, s) == [db |-> d, on |-> <<"SCHEMA", s>>]

Object(d, k, s, n) == [db |-> d, on |-> <<k, s, n>>]

DatabaseItems == {Database(d) : d \in Databases}

SchemaItems == {Schema(d, s) : d \in Databases, s \in Schemas}

ObjectItems ==
    {Object(d, k, s, n) : d \in Databases, k \in Kinds, s \in Schemas,
                          n \in Names}

Securables == DatabaseItems \cup SchemaItems \cup ObjectItems

\* A spec may also name all objects of a type in a schema.
Wildcards ==
    {Object(d, k, s, "*") : d \in Databases, k \in Kinds, s \in Schemas}

Kind(o) == o.on[1]

SchemaOf(o) == Schema(o.db, o.on[2])

WildcardOf(o) == Object(o.db, o.on[1], o.on[2], "*")

-------------------------------------------------------------------------------
(* ParseACL and the MapCharTo... functions. *)

MapCharToTablePrivilege ==
    [r |-> "SELECT", a |-> "INSERT", w |-> "UPDATE", d |-> "DELETE",
     D |-> "TRUNCATE", x |-> "REFERENCES", t |-> "TRIGGER"]

MapCharToDatabasePrivilege == [c |-> "CONNECT", C |-> "CREATE"]

MapCharToSchemaPrivilege == [U |-> "USAGE", C |-> "CREATE"]

MapCharToSourcePrivilege == [r |-> "SELECT"]

MapCharToSinkPrivilege == [r |-> "SELECT"]

MapCharToSecretPrivilege == [U |-> "USAGE"]

MapCharToFunctionPrivilege == [X |-> "EXECUTE"]

MapChar(kind) ==
    CASE kind = "DATABASE" -> MapCharToDatabasePrivilege
      [] kind = "SCHEMA"   -> MapCharToSchemaPrivilege
      [] kind = "SOURCE"   -> MapCharToSourcePrivilege
      [] kind = "SINK"     -> MapCharToSinkPrivilege
      [] kind = "SECRET"   -> MapCharToSecretPrivilege
      [] kind = "FUNCTION" -> MapCharToFunctionPrivilege
      [] OTHER             -> MapCharToTablePrivilege

PrivilegeTypes ==
    {"SELECT", "INSERT", "UPDATE", "DELETE", "TRUNCATE", "REFERENCES",
     "TRIGGER", "CONNECT", "CREATE", "USAGE", "EXECUTE"}

AnyLetter ==
    Letters \cup UNION {DOMAIN MapChar(k) :
                          k \in ObjectKinds \cup {"DATABASE", "SCHEMA"}}

PrivilegesOf(kind) == {MapChar(kind)[c] : c \in DOMAIN MapChar(kind)}

\* Mutant: a letter without a meaning is the privilege "".
ParseACLKeepsUnknown(letters, kind) ==
    {IF c \in DOMAIN MapChar(kind) THEN MapChar(kind)[c] ELSE "" :
       c \in letters}

\* The letters of an entry as privileges: a letter that has no meaning for
\* this kind is passed over.
ParseACL(letters, kind) ==
    {MapChar(kind)[c] : c \in letters \cap DOMAIN MapChar(kind)}

\* What RisingWave writes for the privileges of a statement.
LettersFor(privs, kind) ==
    {c \in DOMAIN MapChar(kind) :
        "ALL" \in privs \/ MapChar(kind)[c] \in privs}

-------------------------------------------------------------------------------
(* Specs and statements. *)

\* spec.grants: what it names, with the privileges it gives there. Schemas
\* are nested in databases and objects in schemas. RisingWave refuses others
\* than the privileges of the kind.
IsGrantSpec(g) ==
    /\ DOMAIN g \subseteq Securables \cup Wildcards
    /\ \A o \in DOMAIN g : g[o] \subseteq PrivilegesOf(Kind(o)) \cup {"ALL"}
    /\ \A o \in DOMAIN g \ DatabaseItems : Database(o.db) \in DOMAIN g
    /\ \A o \in DOMAIN g \ (DatabaseItems \cup SchemaItems) :
         SchemaOf(o) \in DOMAIN g

Statement(verb, privs, on) == [verb |-> verb, privs |-> privs, on |-> on]

Statements ==
    [verb: {"GRANT", "REVOKE"}, privs: SUBSET (PrivilegeTypes \cup {"ALL"}),
     on: {o.on : o \in Securables \cup Wildcards}]

\* statementsByDB has the statements on schemas and objects under their
\* database, globalStatements those on databases.
Group(o) == IF o \in DatabaseItems THEN NoDatabase ELSE o.db

Entry(o, verb, privs) ==
    [group |-> Group(o), stmt |-> Statement(verb, privs, o.on)]

Entries == [group: Databases \cup {NoDatabase}, stmt: Statements]

-------------------------------------------------------------------------------
(* The difference of a snapshot and the grants g of a spec. The snapshot   *)
(* has no privileges where it has no entry; a wildcard never has one.      *)

findObjectPrivilege(snapshot, o) ==
    IF o \in Securables THEN snapshot[o] ELSE {}

\* Mutant: everything the spec names is granted again.
CalculateDiffBlindly(snapshot, g, o) == {Entry(o, "GRANT", g[o])}

\* CalculateDatabaseDiff, CalculateSchemaDiff and CalculateObjectDiff.
CalculateDiff(snapshot, g, o) ==
    LET actual == findObjectPrivilege(snapshot, o)
    IN  {Entry(o, "GRANT", p) : p \in {g[o] \ actual} \ {{}}}
          \cup {Entry(o, "REVOKE", p) : p \in {actual \ g[o]} \ {{}}}

\* Mutant: objects a wildcard covers are orphans too.
OrphanObjectsDespiteWildcards(snapshot, g) ==
    {o \in ObjectItems \ DOMAIN g :
        /\ SchemaOf(o) \in DOMAIN g
        /\ snapshot[o] # {}}

\* Objects the user has privileges on that a schema of the spec does not name.
OrphanObjects(snapshot, g) ==
    {o \in ObjectItems \ DOMAIN g :
        /\ SchemaOf(o) \in DOMAIN g
        /\ WildcardOf(o) \notin DOMAIN g
        /\ snapshot[SchemaOf(o)] # {}
        /\ snapshot[o] # {}}

\* Mutant: databases the spec does not name are not looked at.
NoOrphanDatabases(snapshot, g) == {}

OrphanDatabases(snapshot, g) ==
    {o \in DatabaseItems \ DOMAIN g : snapshot[o] # {}}

\* The statements of one call.
PrivilegeChanges(snapshot, g) ==
    (UNION {CalculateDiff(snapshot, g, o) : o \in DOMAIN g})
      \cup {Entry(o, "REVOKE", {"ALL"}) :
              o \in OrphanObjects(snapshot, g) \cup OrphanDatabases(snapshot, g)}

\* What a statement is about when the session's current database is d.
Targets(on, d) ==
    CASE on[1] = "DATABASE" -> {o \in DatabaseItems : o.on = on}
      [] on[1] = "SCHEMA"   -> {o \in SchemaItems : o.on = on /\ o.db = d}
      [] OTHER ->
           {o \in ObjectItems : o.db = d /\ on \in {o.on, WildcardOf(o).on}}

\* The acl after a statement on these targets.
Apply(stmt, targets, acl) ==
    [o \in Securables |->
        IF o \notin targets THEN acl[o]
        ELSE IF stmt.verb = "GRANT"
             THEN acl[o] \cup LettersFor(stmt.privs, Kind(o))
             ELSE IF "ALL" \in stmt.privs THEN {}
                  ELSE acl[o] \ LettersFor(stmt.privs, Kind(o))]

-------------------------------------------------------------------------------
(* What the grants of a spec ask for: the reference properties use. *)

\* By name or by wildcard.
Naming(g, o) == DOMAIN g \cap {o, WildcardOf(o)}

\* The letters g wants the user to have on o.
Wanted(g, o) ==
    UNION {LettersFor(g[x], Kind(o)) :
             x \in IF o \in ObjectItems THEN Naming(g, o)
                   ELSE DOMAIN g \cap {o}}

===============================================================================
