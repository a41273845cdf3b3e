----------------------------- MODULE PrivilegeSync -----------------------------
(***************************************************************************)
(* syncPrivileges (internal/controller/risingwaveuser_controller.go) with  *)
(* the snapshot it starts from (internal/rwclient/privilege_snapshot.go):  *)
(* the calls one RisingWaveUser's reconciler makes, one after the other,   *)
(* every query and every statement a step of its own.                      *)
(*                                                                         *)
(* They run on whichever session of the *sql.DB is free, in that session's *)
(* current database. Meanwhile a user edits the grants, other clients      *)
(* change privileges, objects and sessions, requests fail and the operator *)
(* is restarted.                                                           *)
(***************************************************************************)
EXTENDS Privileges, Naturals

CONSTANTS
    Default,        \* "dev", the database a new session is connected to
    Sessions,       \* connections of the *sql.DB
    GrantSpecs,     \* grants a user may write into the spec
    NoGrants,       \* spec.grants left out
    Later,          \* objects that other clients have yet to create
    MaxEdits,       \* bound on the user's edits
    MaxFaults,      \* bound on failed or refused requests and on crashes
    MaxDrift        \* bound on what other clients of RisingWave do

ASSUME SyncAssumption ==
    /\ Default \in Databases
    /\ \A g \in GrantSpecs : IsGrantSpec(g)
    /\ NoGrants \notin GrantSpecs /\ Later \subseteq ObjectItems
    /\ MaxEdits \in Nat /\ MaxFaults \in Nat /\ MaxDrift \in Nat

VARIABLES
    acl,        \* securable -> letters the user has there
    present,    \* the schemas and objects that exist, and the databases
    sessions,   \* session -> its current database
    grants,     \* spec.grants of the resource
    pc,         \* where the call is
    local,      \* the grants this call works on
    snapshot,   \* securable -> privileges the snapshot has for it
    unlisted,   \* databases of the snapshot whose schemas are not yet read
    unread,     \* schemas and types of objects still to be read
    planned,    \* statementsByDB and globalStatements
    pending,    \* those not yet executed
    current,    \* the statement being executed
    currentDB,  \* the database the last successful USE went to
    edits, faults, drift,
    disturbed   \* history: something interfered with this call

callVars == <<local, snapshot, unlisted, unread, planned, pending, current,
              currentDB>>

clusterVars == <<acl, present, sessions>>

vars == <<clusterVars, grants, pc, callVars, edits, faults, drift, disturbed>>

NoStatement == Statement("GRANT", {}, <<>>)

Empty == [o \in Securables |-> {}]

Init ==
    /\ acl = Empty
    /\ present = Securables \ Later
    /\ sessions = [s \in Sessions |-> Default]
    /\ grants = NoGrants
    /\ pc = "idle"
    /\ local = NoGrants
    /\ snapshot = Empty
    /\ unlisted = {} /\ unread = {}
    /\ planned = {} /\ pending = {}
    /\ current = NoStatement
    /\ currentDB = NoDatabase
    /\ edits = 0 /\ faults = 0 /\ drift = 0
    /\ disturbed = FALSE

Fault == faults < MaxFaults /\ faults' = faults + 1

\* The call is over, for good or with FailedToGrant; its variables are gone.
Return ==
    /\ pc' = "idle"
    /\ local' = NoGrants
    /\ snapshot' = Empty
    /\ unlisted' = {} /\ unread' = {}
    /\ planned' = {} /\ pending' = {}
    /\ current' = NoStatement
    /\ currentDB' = NoDatabase

-------------------------------------------------------------------------------
(* The snapshot. *)

\* The reconcile comes back every period and calls syncPrivileges unless the
\* spec has no grants.
Start ==
    /\ pc = "idle" /\ grants # NoGrants
    /\ pc' = "databases"
    /\ local' = grants
    /\ disturbed' = FALSE
    /\ UNCHANGED <<clusterVars, grants, snapshot, unlisted, unread, planned,
                   pending, current, currentDB, edits, faults, drift>>

\* How a query ends: with all its rows, or with those read before the
\* connection broke, as nothing looks at rows.Err after the loop over
\* rows.Next. An error of the query itself is Fail.
Reads(rows, all) ==
    \/ rows = all /\ UNCHANGED faults
    \/ rows # all /\ Fault

\* A request fails with an error the call does not swallow.
Fail ==
    /\ Fault
    /\ Return
    /\ UNCHANGED <<clusterVars, grants, edits, drift, disturbed>>

\* The snapshot with entries for these items as they are in database here.
Recorded(items, here) ==
    [o \in Securables |->
        IF o \in items THEN ParseACL(acl[[o EXCEPT !.db = here]], Kind(o))
        ELSE snapshot[o]]

fetchDatabasePrivileges ==
    /\ pc = "databases"
    /\ \/ /\ LET all == {d \in Databases : acl[Database(d)] # {}}
             IN  \E dbs \in SUBSET all :
                   /\ Reads(dbs, all)
                   /\ snapshot' =
                        [o \in Securables |->
                           IF \E d \in dbs : o = Database(d)
                           THEN ParseACL(acl[o], "DATABASE") ELSE {}]
                   /\ unlisted' = dbs
          /\ pc' = "schemas"
          /\ UNCHANGED <<clusterVars, grants, local, unread, planned, pending,
                         current, currentDB, edits, drift, disturbed>>
       \/ Fail

\* For a database of the snapshot, the schemas of the session's database.
fetchSchemaPrivs ==
    /\ pc = "schemas" /\ unread = {}
    /\ \E d \in unlisted, s \in Sessions :
         \/ /\ LET here == sessions[s]
                   all == {n \in Schemas :
                             ParseACL(acl[Schema(here, n)], "SCHEMA") # {}}
               IN  \E names \in SUBSET all :
                     /\ Reads(names, all)
                     /\ snapshot' =
                          Recorded({Schema(d, n) : n \in names}, here)
                     /\ unread' = [db: {d}, kind: Kinds, schema: names]
            /\ unlisted' = unlisted \ {d}
            /\ UNCHANGED <<clusterVars, grants, pc, local, planned, pending,
                           current, currentDB, edits, drift, disturbed>>
         \/ Fail

\* fetchTablePrivs, fetchViewPrivs, ...: the objects of one type in a schema
\* of that name in the session's database.
fetchObjectPrivsCustom ==
    /\ pc = "schemas"
    /\ \E q \in unread, s \in Sessions :
         \/ /\ LET here == sessions[s]
                   all == {n \in Names :
                             acl[Object(here, q.kind, q.schema, n)] # {}}
               IN  \E names \in SUBSET all :
                     /\ Reads(names, all)
                     /\ snapshot' =
                          Recorded({Object(q.db, q.kind, q.schema, n) :
                                      n \in names}, here)
            /\ unread' = unread \ {q}
            /\ UNCHANGED <<clusterVars, grants, pc, local, unlisted, planned,
                           pending, current, currentDB, edits, drift,
                           disturbed>>
         \/ Fail

-------------------------------------------------------------------------------
(* The statements. *)

Plan ==
    /\ pc = "schemas" /\ unlisted = {} /\ unread = {}
    /\ planned' = PrivilegeChanges(snapshot, local)
    /\ pending' = planned'
    /\ pc' = "next"
    /\ UNCHANGED <<clusterVars, grants, local, snapshot, unlisted, unread,
                   current, currentDB, edits, faults, drift, disturbed>>

\* Mutant: the statements are not sorted.
NextUnsorted == pending

\* The sort puts REVOKEs before GRANTs; the order among each depends on the
\* names, so that any may be next.
NextEntries ==
    LET revokes == {e \in pending : e.stmt.verb = "REVOKE"}
    IN  IF revokes # {} THEN revokes ELSE pending

\* The database of a statement is looked up by the statement's text in a map
\* without order: of equal statements for two databases, any may be found.
TargetDBs(stmt) ==
    LET groups == {e.group : e \in {f \in planned : f.stmt = stmt}}
                    \ {NoDatabase}
    IN  IF groups = {} THEN {NoDatabase} ELSE groups

\* The next statement needs no USE.
NextStatement ==
    /\ pc = "next"
    /\ \E e \in NextEntries :
         /\ TargetDBs(e.stmt) \cap {NoDatabase, currentDB} # {}
         /\ pending' = pending \ {e}
         /\ current' = e.stmt
    /\ pc' = "execute"
    /\ UNCHANGED <<clusterVars, grants, local, snapshot, unlisted, unread,
                   planned, currentDB, edits, faults, drift, disturbed>>

\* USE moves one session. If it fails the statement is executed all the same.
SwitchDatabase ==
    /\ pc = "next"
    /\ \E e \in NextEntries :
         /\ pending' = pending \ {e}
         /\ current' = e.stmt
         /\ \E t \in TargetDBs(e.stmt) \ {NoDatabase, currentDB} :
              \/ /\ \E s \in Sessions :
                      sessions' = [sessions EXCEPT ![s] = t]
                 /\ \/ currentDB' = t /\ UNCHANGED <<faults, disturbed>>
                    \/ Fault /\ disturbed' = TRUE /\ UNCHANGED currentDB
              \/ /\ Fault /\ disturbed' = TRUE
                 /\ UNCHANGED <<sessions, currentDB>>
    /\ pc' = "execute"
    /\ UNCHANGED <<acl, present, grants, local, snapshot, unlisted, unread,
                   planned, edits, drift>>

\* Errors that say "does not exist" (the schema or object), "not found" or
\* "must be owner" are taken for success. Others end the call, whether the
\* statement took effect or not.
ExecuteStatement ==
    /\ pc = "execute"
    /\ \E s \in Sessions :
         LET targets == Targets(current.on, sessions[s]) \cap present
         IN  \/ /\ acl' = Apply(current, targets, acl)
                /\ \/ /\ pc' = "next"
                      /\ current' = NoStatement
                      /\ UNCHANGED <<local, snapshot, unlisted, unread,
                                     planned, pending, currentDB, faults>>
                   \/ Fault /\ Return
                /\ UNCHANGED disturbed
             \/ /\ Fault
                /\ \/ /\ pc' = "next"
                      /\ current' = NoStatement
                      /\ UNCHANGED <<local, snapshot, unlisted, unread,
                                     planned, pending, currentDB>>
                   \/ Return
                /\ disturbed' = TRUE
                /\ UNCHANGED acl
    /\ UNCHANGED <<present, sessions, grants, edits, drift>>

\* All statements are through: PrivilegesSynced.
Synced == pc = "next" /\ pending = {}

Finish ==
    /\ Synced
    /\ Return
    /\ UNCHANGED <<clusterVars, grants, edits, faults, drift, disturbed>>

syncPrivileges ==
    \/ Start
    \/ fetchDatabasePrivileges \/ fetchSchemaPrivs \/ fetchObjectPrivsCustom
    \/ Plan \/ NextStatement \/ SwitchDatabase \/ ExecuteStatement
    \/ Finish

-------------------------------------------------------------------------------
(* Everything around the call. *)

EditGrants ==
    /\ edits < MaxEdits /\ edits' = edits + 1
    /\ grants' \in (GrantSpecs \cup {NoGrants}) \ {grants}
    /\ UNCHANGED <<clusterVars, pc, callVars, faults, drift, disturbed>>

\* A restarted operator has new sessions.
Crash ==
    /\ Fault
    /\ Return
    /\ sessions' = [s \in Sessions |-> Default]
    /\ UNCHANGED <<acl, present, grants, edits, drift, disturbed>>

Drift ==
    /\ drift < MaxDrift /\ drift' = drift + 1
    /\ disturbed' = TRUE
    /\ UNCHANGED <<grants, pc, callVars, edits, faults>>

\* Somebody else grants or revokes a privilege of the user.
OtherGrant ==
    /\ Drift
    /\ \E o \in present, c \in Letters :
         \/ acl' = [acl EXCEPT ![o] = @ \cup {c}]
         \/ acl' = [acl EXCEPT ![o] = @ \ {c}]
    /\ UNCHANGED <<present, sessions>>

\* What goes when a schema or an object is dropped.
Within(o) ==
    {o} \cup IF o \in SchemaItems
             THEN {x \in ObjectItems : SchemaOf(x) = o} ELSE {}

OtherDrop ==
    /\ Drift
    /\ \E o \in present \ DatabaseItems :
         /\ present' = present \ Within(o)
         /\ acl' = [x \in Securables |-> IF x \in Within(o) THEN {} ELSE acl[x]]
    /\ UNCHANGED sessions

OtherCreate ==
    /\ Drift
    /\ \E o \in Securables \ present :
         /\ o \in ObjectItems => SchemaOf(o) \in present
         /\ present' = present \cup {o}
    /\ UNCHANGED <<acl, sessions>>

\* Another worker's USE, or a new session in place of an old one.
OtherUse ==
    /\ Drift
    /\ \E s \in Sessions, d \in Databases :
         sessions' = [sessions EXCEPT ![s] = d]
    /\ UNCHANGED <<acl, present>>

OtherClients == OtherGrant \/ OtherDrop \/ OtherCreate \/ OtherUse

Next == syncPrivileges \/ EditGrants \/ Crash \/ OtherClients

Spec == Init /\ [][Next]_vars

\* The reconciler is called again and again, and its requests end.
Fairness == WF_vars(syncPrivileges)

FairSpec == Spec /\ Fairness

-------------------------------------------------------------------------------
(* Properties. *)

TypeOK ==
    /\ acl \in [Securables -> SUBSET AnyLetter]
    /\ present \subseteq Securables
    /\ sessions \in [Sessions -> Databases]
    /\ grants \in GrantSpecs \cup {NoGrants}
    /\ pc \in {"idle", "databases", "schemas", "next", "execute"}
    /\ local \in GrantSpecs \cup {NoGrants}
    /\ pc # "idle" => local # NoGrants
    /\ snapshot \in [Securables -> SUBSET PrivilegeTypes]
    /\ unlisted \subseteq Databases
    /\ unread \subseteq [db: Databases, kind: Kinds, schema: Schemas]
    /\ planned \subseteq Entries
    /\ pending \subseteq planned
    /\ current \in Statements \cup {NoStatement}
    /\ currentDB \in Databases \cup {NoDatabase}
    /\ edits \in 0..MaxEdits /\ faults \in 0..MaxFaults
    /\ drift \in 0..MaxDrift
    /\ disturbed \in BOOLEAN

Granted(g) == \A o \in present : Wanted(g, o) \subseteq acl[o]

\* A call that nothing interfered with, even one whose snapshot lacked rows,
\* ends in PrivilegesSynced with every privilege of the spec granted, those
\* its own REVOKEs took away included.
CompleteMeansGranted ==
    [][Synced /\ pc' = "idle" /\ faults' = faults /\ ~disturbed
         => Granted(local)]_vars

\* No ALL, and no object named that a wildcard covers as well.
Plain(g) ==
    /\ \A o \in DOMAIN g : "ALL" \notin g[o]
    /\ \A o \in ObjectItems \cap DOMAIN g : WildcardOf(o) \notin DOMAIN g

\* A statement of the operator gives the user nothing the spec does not ask
\* for, and takes nothing away that a plain spec asks for, not even for a
\* moment and however wrong the snapshot is.
StepsTowardsSpec ==
    [][pc = "execute" /\ drift' = drift =>
         \A o \in Securables :
             /\ acl'[o] \ acl[o] \subseteq Wanted(local, o)
             /\ Plain(local) => acl[o] \cap Wanted(local, o) \subseteq acl'[o]
      ]_vars

\* What the snapshot is sure to show when the spec is granted: databases; the
\* schemas of a database the user has privileges on; and the objects of a
\* schema the user has privileges on.
Seen(g, o) ==
    \/ o \in DatabaseItems
    \/ /\ o \in DOMAIN g \cap SchemaItems
       /\ g[Database(o.db)] # {}
    \/ /\ o \in ObjectItems
       /\ SchemaOf(o) \in DOMAIN g
       /\ g[Database(o.db)] # {} /\ g[SchemaOf(o)] # {}
       /\ o \in DOMAIN g \/ WildcardOf(o) \notin DOMAIN g

Tidy(g) ==
    \A o \in present :
        Seen(g, o) => ParseACL(acl[o] \ Wanted(g, o), Kind(o)) = {}

\* Once edits, faults and other clients stop, the user has, between any two
\* calls, all privileges of the spec and no other where the snapshot looks.
EventuallySynced ==
    <>[](pc = "idle" /\ grants # NoGrants => Granted(grants) /\ Tidy(grants))

\* A spec whose every entry the snapshot can show to be granted.
Settled(g) ==
    /\ Plain(g)
    /\ DOMAIN g \subseteq present
    /\ \A o \in DOMAIN g \ ObjectItems : g[o] # {}

\* For such a spec there is nothing left to do in the end.
EventuallyQuiet ==
    <>[](grants # NoGrants /\ Settled(grants) => planned = {})

===============================================================================
