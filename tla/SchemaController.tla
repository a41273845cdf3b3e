--------------------------- MODULE SchemaController ---------------------------
(***************************************************************************)
(* RisingWaveSchemaReconciler.Reconcile                                    *)
(* (internal/controller/risingwaveschema_controller.go): one               *)
(* RisingWaveSchema and the schemas of a RisingWave cluster's databases.   *)
(*                                                                         *)
(* A schema statement acts on the current database of the session it runs  *)
(* on, and USE sets that of one session. The *sql.DB of the connection     *)
(* pool has several sessions (DefaultMaxOpenConns) and is shared with the  *)
(* other controllers' workers, so that each statement runs on whichever    *)
(* session the others leave free.                                          *)
(***************************************************************************)
EXTENDS Reconciler

CONSTANTS
    Databases,      \* databases of the cluster
    Default,        \* "dev", the database a new session is connected to
    Names,          \* schema names
    Public,         \* "public", the schema every database is created with
    Specs,          \* specs and annotations a user may write
    Annotations,
    Owners,         \* RisingWave users a spec may name as owner
    NoOwner,        \* spec.owner left empty
    Admin,          \* the user the operator connects as
    Absent,         \* a schema that does not exist
    Sessions,       \* connections of the *sql.DB
    MaxStrays       \* bound on statements that run in another database

AnySpec == [name: Names, database: Databases, owner: Owners \cup {NoOwner}]

AnyAnnotations ==
    [policy: {"none", "abandon", "delete"}, paused: BOOLEAN]

ASSUME SchemaAssumption ==
    /\ Default \in Databases /\ Public \in Names
    /\ Specs \subseteq AnySpec /\ Annotations \subseteq AnyAnnotations
    /\ NoOwner \notin Owners /\ Admin \notin Owners /\ Absent \notin Owners
    /\ NoOwner # Admin /\ Absent # Admin
    /\ MaxStrays \in Nat \ {0}    \* else a stray could not be counted

VARIABLES
    catalog,    \* <<database, name>> -> owner, or Absent
    sessions,   \* session -> its current database
    createdBy,  \* history: uid of the resource whose reconcile created it
    strays      \* number of statements run in another database than meant

vars == <<kubeVars, pc, catalog, sessions, createdBy, strays>>

Schemas == Databases \X Names

Reasons ==
    {"", "Completed", "FailedToGetSecret", "ConnectionFailed",
     "FailedToFinalize", "FailedToCreateSchema", "FailedToUpdateOwner"}

Statuses ==
    [reason: Reasons, observedGeneration: Nat, schemaCreated: BOOLEAN]

NoStatus ==
    [reason |-> "", observedGeneration |-> 0, schemaCreated |-> FALSE]

Object == Objects(AnySpec, AnyAnnotations, Statuses)

Steps ==
    {"idle", "creds", "connect", "finalizer", "drop", "dropSchema",
     "finalizeFailed", "removeFinalizer", "use", "check", "create", "owner",
     "alter", "report", "ready"}

Init ==
    /\ \E s \in Specs :
         api = [exists |-> FALSE, rv |-> 0, uid |-> 0, gen |-> 0, spec |-> s,
                annot |-> [policy |-> "none", paused |-> FALSE],
                deleting |-> FALSE, finalizer |-> FALSE, held |-> FALSE,
                status |-> NoStatus]
    /\ cache = api /\ local = api
    /\ watch = {}
    /\ queued = FALSE
    /\ edits = 0 /\ faults = 0
    /\ catalog = [n \in Schemas |-> IF n[2] = Public THEN Admin ELSE Absent]
    /\ sessions = [s \in Sessions |-> Default]
    /\ createdBy = [n \in Schemas |-> 0]
    /\ strays = 0
    /\ pc = "idle"

-------------------------------------------------------------------------------
(* Statements. *)

sqlVars == <<catalog, sessions, createdBy, strays>>

\* USE: one session moves to the database of the spec.
Use ==
    \E s \in Sessions :
        sessions' = [sessions EXCEPT ![s] = local.spec.database]

\* A statement on session s is about the schema that is called so there.
Here(s) == <<sessions[s], local.spec.name>>

\* The session the USE went to may be busy. Once that has happened MaxStrays
\* times, it is free unless others have moved it.
RunOn(s) ==
    \/ sessions[s] = local.spec.database /\ UNCHANGED strays
    \/ /\ sessions[s] # local.spec.database
       /\ \/ strays < MaxStrays /\ strays' = strays + 1
          \/ /\ \A r \in Sessions : sessions[r] # local.spec.database
             /\ strays = MaxStrays /\ UNCHANGED strays

-------------------------------------------------------------------------------
(* Steps 1 to 4: fetch, connect, handle the finalizer. *)

Fetch == FetchResource /\ UNCHANGED sqlVars

resolveAdminCredentials == ResolveCredentials /\ UNCHANGED sqlVars

Connect == GetConnection /\ UNCHANGED sqlVars

\* Mutant: the finalizer is not stored before the schema is created.
AddNoFinalizer ==
    /\ pc = "finalizer" /\ ~local.deleting
    /\ Goto("use")
    /\ UNCHANGED <<api, watch, cache, local, edits, faults, sqlVars>>

AddFinalizer == StoreFinalizer("use") /\ UNCHANGED sqlVars

\* Mutant: public is a schema like any other.
FinalizePublic ==
    /\ ChooseFinalization(local.annot.policy = "delete")
    /\ UNCHANGED sqlVars

\* Only the explicit policy "delete" makes finalization drop the schema, and
\* nothing makes it drop public.
Finalize ==
    /\ ChooseFinalization(/\ local.annot.policy = "delete"
                          /\ local.spec.name # Public)
    /\ UNCHANGED sqlVars

UseToDrop ==
    /\ pc = "drop"
    /\ \/ /\ Use
          /\ \/ Goto("dropSchema") /\ UNCHANGED faults
             \/ Fault /\ Goto("finalizeFailed")
       \/ Fault /\ Goto("finalizeFailed") /\ UNCHANGED sessions
    /\ UNCHANGED <<api, watch, cache, local, edits, catalog, createdBy,
                   strays>>

\* Mutant: an error of DROP SCHEMA is logged and ignored.
DropSchemaOrNot ==
    /\ pc = "dropSchema"
    /\ \E s \in Sessions :
         /\ RunOn(s)
         /\ \/ /\ catalog' = [catalog EXCEPT ![Here(s)] = Absent]
               /\ createdBy' = [createdBy EXCEPT ![Here(s)] = 0]
               /\ UNCHANGED faults
            \/ Fault /\ UNCHANGED <<catalog, createdBy>>
    /\ Goto("removeFinalizer")
    /\ UNCHANGED <<api, watch, cache, local, edits, sessions>>

\* DROP SCHEMA IF EXISTS ... CASCADE.
DropSchema ==
    /\ pc = "dropSchema"
    /\ \E s \in Sessions :
         /\ RunOn(s)
         /\ \/ /\ catalog' = [catalog EXCEPT ![Here(s)] = Absent]
               /\ createdBy' = [createdBy EXCEPT ![Here(s)] = 0]
               /\ \/ Goto("removeFinalizer") /\ UNCHANGED faults
                  \/ Fault /\ Goto("finalizeFailed")
            \/ /\ Fault /\ Goto("finalizeFailed")
               /\ UNCHANGED <<catalog, createdBy>>
    /\ UNCHANGED <<api, watch, cache, local, edits, sessions>>

OnFailure == ReportFinalization /\ UNCHANGED sqlVars

removeFinalizer == ReleaseFinalizer /\ UNCHANGED sqlVars

-------------------------------------------------------------------------------
(* Steps 5 to 8: create the schema, set its owner, report Ready. *)

UseDatabase ==
    /\ pc = "use"
    /\ \/ /\ Use
          /\ \/ Goto("check") /\ UNCHANGED <<local, faults>>
             \/ Fault /\ Fail("FailedToCreateSchema")
       \/ Fault /\ Fail("FailedToCreateSchema") /\ UNCHANGED sessions
    /\ UNCHANGED <<api, watch, cache, edits, catalog, createdBy, strays>>

CheckSchemaExists ==
    /\ pc = "check"
    /\ \E s \in Sessions :
         /\ RunOn(s)
         /\ \/ /\ catalog[Here(s)] = Absent
               /\ Goto("create") /\ UNCHANGED <<local, faults>>
            \/ /\ catalog[Here(s)] # Absent
               /\ local' = [local EXCEPT !.status.schemaCreated = TRUE]
               /\ Goto("owner") /\ UNCHANGED faults
            \/ Fault /\ Requeue /\ UNCHANGED local
    /\ UNCHANGED <<api, watch, cache, edits, catalog, sessions, createdBy>>

\* CREATE SCHEMA, AUTHORIZATION the owner if there is one.
CreateSchema ==
    /\ pc = "create"
    /\ \E s \in Sessions :
         /\ RunOn(s)
         /\ \/ /\ catalog[Here(s)] = Absent
               /\ catalog' = [catalog EXCEPT ![Here(s)] =
                     IF local.spec.owner = NoOwner THEN Admin
                     ELSE local.spec.owner]
               /\ createdBy' = [createdBy EXCEPT ![Here(s)] = local.uid]
               /\ \/ /\ local' = [local EXCEPT !.status.schemaCreated = TRUE]
                     /\ Goto("owner") /\ UNCHANGED faults
                  \/ Fault /\ Fail("FailedToCreateSchema")
            \/ /\ \/ catalog[Here(s)] # Absent /\ UNCHANGED faults
                  \/ Fault
               /\ Fail("FailedToCreateSchema")
               /\ UNCHANGED <<catalog, createdBy>>
    /\ UNCHANGED <<api, watch, cache, edits, sessions>>

\* Mutant: an empty spec.owner is taken for an owner.
GetAnySchemaOwner ==
    /\ pc = "owner"
    /\ \E s \in Sessions :
         /\ RunOn(s)
         /\ catalog[Here(s)] # Absent
         /\ Goto(IF local.spec.owner = catalog[Here(s)] THEN "ready"
                 ELSE "alter")
    /\ UNCHANGED <<api, watch, cache, local, edits, faults, catalog, sessions,
                   createdBy>>

\* Step 7 up to the comparison of the owners.
GetSchemaOwner ==
    /\ pc = "owner"
    /\ \/ /\ local.spec.owner = NoOwner
          /\ Goto("ready") /\ UNCHANGED <<local, faults, strays>>
       \/ /\ local.spec.owner # NoOwner
          /\ \E s \in Sessions :
               /\ RunOn(s)
               /\ \/ /\ catalog[Here(s)] # Absent
                     /\ Goto(IF catalog[Here(s)] = local.spec.owner
                             THEN "ready" ELSE "alter")
                     /\ UNCHANGED <<local, faults>>
                  \/ /\ \/ catalog[Here(s)] = Absent /\ UNCHANGED faults
                        \/ Fault
                     /\ Fail("FailedToUpdateOwner")
    /\ UNCHANGED <<api, watch, cache, edits, catalog, sessions, createdBy>>

\* Mutant: a refused ALTER SCHEMA does not end the call.
AlterSchemaOwnerOrNot ==
    /\ pc = "alter"
    /\ \E s \in Sessions :
         /\ RunOn(s)
         /\ \/ /\ catalog[Here(s)] # Absent
               /\ catalog' = [catalog EXCEPT ![Here(s)] = local.spec.owner]
               /\ UNCHANGED faults
            \/ Fault /\ UNCHANGED catalog
    /\ Goto("ready")
    /\ UNCHANGED <<api, watch, cache, local, edits, sessions, createdBy>>

\* ALTER SCHEMA ... OWNER TO.
AlterSchemaOwner ==
    /\ pc = "alter"
    /\ \E s \in Sessions :
         /\ RunOn(s)
         /\ \/ /\ catalog[Here(s)] # Absent
               /\ catalog' = [catalog EXCEPT ![Here(s)] = local.spec.owner]
               /\ \/ Goto("ready") /\ UNCHANGED <<local, faults>>
                  \/ Fault /\ Fail("FailedToUpdateOwner")
            \/ /\ \/ catalog[Here(s)] = Absent /\ UNCHANGED faults
                  \/ Fault
               /\ Fail("FailedToUpdateOwner")
               /\ UNCHANGED catalog
    /\ UNCHANGED <<api, watch, cache, edits, sessions, createdBy>>

ReportFailure == WriteFailure /\ UNCHANGED sqlVars

\* Mutant: no RequeueAfter once the resource is Ready.
ReportReadyOnce ==
    /\ pc = "ready"
    /\ StatusUpdate([local.status EXCEPT !.reason = "Completed",
                                         !.observedGeneration = local.gen])
    /\ Done
    /\ UNCHANGED <<cache, local, edits, sqlVars>>

ReportReady == WriteReady /\ UNCHANGED sqlVars

Reconcile ==
    \/ Fetch \/ resolveAdminCredentials \/ Connect
    \/ AddFinalizer \/ Finalize \/ UseToDrop \/ DropSchema \/ OnFailure
    \/ removeFinalizer
    \/ UseDatabase \/ CheckSchemaExists \/ CreateSchema
    \/ GetSchemaOwner \/ AlterSchemaOwner
    \/ ReportFailure \/ ReportReady

-------------------------------------------------------------------------------
(* Everything around the worker. *)

\* The operator process dies and is started again, with new sessions.
Crash ==
    /\ Fault
    /\ Relist
    /\ pc' = "idle"
    /\ sessions' = [s \in Sessions |-> Default]
    /\ UNCHANGED <<catalog, createdBy, strays>>

Deliveries == Deliver /\ UNCHANGED <<pc, sqlVars>>

UserWrite ==
    /\ \/ Create(Specs, Annotations, NoStatus)
       \/ EditSpec(Specs)
       \/ Annotate(Annotations)
       \/ Delete
       \/ Release
    /\ UNCHANGED <<pc, sqlVars>>

\* Another worker moves a session by its own USE, or the session has reached
\* DefaultConnMaxLifetime and a new one takes its place. Each counts as a
\* fault.
OtherUse ==
    /\ Fault
    /\ \E s \in Sessions, d \in Databases :
         sessions' = [sessions EXCEPT ![s] = d]
    /\ UNCHANGED <<api, watch, cache, queued, local, edits, pc, catalog,
                   createdBy, strays>>

Next == Reconcile \/ Deliveries \/ UserWrite \/ Crash \/ OtherUse

\* As for the databases. Nothing is fair about which session is free.
Fairness ==
    /\ WF_vars(Reconcile)
    /\ WF_vars(Deliveries)
    /\ WF_vars(Release /\ UNCHANGED <<pc, sqlVars>>)

Spec == Init /\ [][Next]_vars

FairSpec == Spec /\ Fairness

-------------------------------------------------------------------------------
(* Properties. *)

TypeOK ==
    /\ api \in Object /\ cache \in Object /\ local \in Object
    /\ watch \subseteq Object
    /\ queued \in BOOLEAN
    /\ edits \in 0..MaxEdits /\ faults \in 0..MaxFaults
    /\ catalog \in [Schemas -> Owners \cup {Admin, Absent}]
    /\ sessions \in [Sessions -> Databases]
    /\ createdBy \in [Schemas -> Nat]
    /\ strays \in 0..MaxStrays
    /\ pc \in Steps

\* A schema a reconcile created, in whichever database, belongs to a resource
\* that, until it is deleted, has the finalizer stored.
CreatedHasFinalizer ==
    \A n \in Schemas :
        createdBy[n] # 0 /\ createdBy[n] = api.uid
            => ~api.exists \/ api.deleting \/ api.finalizer

Wanted == <<api.spec.database, api.spec.name>>

AsSpecified ==
    /\ catalog[Wanted] # Absent
    /\ api.spec.owner \in {NoOwner, catalog[Wanted]}

\* Ready for the current generation means the database of the spec has the
\* schema with the owner of the spec: sessions mixed up are the only way to
\* a wrong Ready.
ReadyIsTruthful == Ready /\ strays = 0 => AsSpecified

\* The operator never drops public, in any database, on any session.
PublicStays == \A d \in Databases : catalog[<<d, Public>>] # Absent

\* When the finalizer goes away under policy "delete", the schema is gone,
\* if no statement strayed.
FinalizedMeansDropped ==
    [][api.finalizer /\ ~api'.finalizer /\ api.annot.policy = "delete"
        /\ api.spec.name # Public /\ strays = 0
            => catalog[Wanted] = Absent]_vars

Converged ==
    api.exists /\ ~api.annot.paused =>
        ~api.deleting /\ Ready /\ AsSpecified

\* Once users, faults and other workers' use of the sessions stop, an unpaused
\* resource is finalized and gone or Ready with the schema as specified, and
\* stays so, whatever statements strayed before.
EventuallyConverged == <>[]Converged

-------------------------------------------------------------------------------
(* The life of the resource, as ResourceLifecycle describes it.            *)

Made == IF api.exists THEN {n \in Schemas : createdBy[n] = api.uid} ELSE {}

Lifecycle ==
    INSTANCE ResourceLifecycle WITH
        Things <- Schemas, stage <- Stage, made <- Made,
        wanted <- Wanted, keeps <- api.annot.policy # "delete" \/ api.spec.name = Public,
        others <- strays > 0

\* Wherever its statements run, the reconciler creates a schema for a resource
\* with a stored finalizer only and drops one for a resource being deleted
\* only; it gives the finalizer up last, unless a statement strayed.
ImplementsLifecycle == Lifecycle!Spec

-------------------------------------------------------------------------------
(* What a comment says and the code does not do. *)

\* risingwaveschema_controller.go:284, "Explicit delete requested - switch to
\* database and drop schema": what is dropped is in the database of the spec.
DropsInDatabase ==
    [][\A n \in Schemas :
         catalog[n] # Absent /\ catalog'[n] = Absent
            => n[1] = local.spec.database]_vars

===============================================================================
