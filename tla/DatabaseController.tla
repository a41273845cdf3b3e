-------------------------- MODULE DatabaseController --------------------------
(***************************************************************************)
(* RisingWaveDatabaseReconciler.Reconcile                                  *)
(* (internal/controller/risingwavedatabase_controller.go) with             *)
(* utils.HandleFinalizer, run by the one worker of its controller against  *)
(* a lagging informer cache, an API server with optimistic concurrency and *)
(* a RisingWave cluster. Each request to one of them is one step, so a     *)
(* user edit, a cache delivery, a crash or somebody else's SQL may come    *)
(* between any two.                                                        *)
(***************************************************************************)
EXTENDS Reconciler

CONSTANTS
    Names,      \* database names
    Owners,     \* RisingWave users a spec may name as owner
    NoOwner,    \* spec.owner left empty
    Admin,      \* the user the operator connects as
    Absent,     \* catalog entry of a database that does not exist
    MaxDrift    \* bound on changes made in RisingWave behind the operator

ASSUME OwnersAssumption ==
    /\ NoOwner \notin Owners /\ Admin \notin Owners /\ Absent \notin Owners
    /\ NoOwner # Admin /\ Absent # Admin /\ MaxDrift \in Nat

VARIABLES
    catalog,    \* name -> owner in rw_catalog.rw_databases, or Absent
    drift,      \* number of changes made behind the operator
    createdBy,  \* history: uid of the resource whose reconcile created it
    asked       \* history: names whose removal a user asked for

vars == <<kubeVars, catalog, pc, drift, createdBy, asked>>

Specs == [name: Names, owner: Owners \cup {NoOwner}]

Policies == {"none", "abandon", "delete"}

Annotations == [policy: Policies, paused: BOOLEAN]

Reasons ==
    {"", "Completed", "FailedToGetSecret", "ConnectionFailed",
     "FailedToFinalize", "FailedToCreateDatabase", "FailedToUpdateOwner"}

\* Phase is Ready exactly when the reason is Completed.
Statuses ==
    [reason: Reasons, observedGeneration: Nat, databaseCreated: BOOLEAN]

NoStatus ==
    [reason |-> "", observedGeneration |-> 0, databaseCreated |-> FALSE]

Object == Objects(Specs, Annotations, Statuses)

Steps ==
    {"idle", "creds", "connect", "finalizer", "drop", "finalizeFailed",
     "removeFinalizer", "check", "create", "owner", "alter", "report",
     "ready"}

Init ==
    /\ \E s \in Specs :
         api = [exists |-> FALSE, rv |-> 0, uid |-> 0, gen |-> 0, spec |-> s,
                annot |-> [policy |-> "none", paused |-> FALSE],
                deleting |-> FALSE, finalizer |-> FALSE, held |-> FALSE,
                status |-> NoStatus]
    /\ cache = api /\ local = api
    /\ watch = {}
    /\ queued = FALSE
    /\ edits = 0 /\ faults = 0 /\ drift = 0
    /\ catalog = [n \in Names |-> Absent]
    /\ createdBy = [n \in Names |-> 0]
    /\ asked = {}
    /\ pc = "idle"

-------------------------------------------------------------------------------
(* Steps 1 to 4: fetch, connect, handle the finalizer. *)

ghosts == <<drift, createdBy, asked>>

Fetch == FetchResource /\ UNCHANGED <<catalog, ghosts>>

resolveAdminCredentials == ResolveCredentials /\ UNCHANGED <<catalog, ghosts>>

Connect == GetConnection /\ UNCHANGED <<catalog, ghosts>>

\* Mutant: the finalizer is not stored before the database is created.
AddNoFinalizer ==
    /\ pc = "finalizer" /\ ~local.deleting
    /\ Goto("check")
    /\ UNCHANGED <<api, watch, cache, local, edits, faults, catalog, ghosts>>

AddFinalizer == StoreFinalizer("check") /\ UNCHANGED <<catalog, ghosts>>

\* Mutant: everything that is not abandoned is dropped.
FinalizeByDefault ==
    /\ ChooseFinalization(local.annot.policy # "abandon")
    /\ UNCHANGED <<catalog, ghosts>>

\* Mutant: the deletion timestamp is not looked at.
FinalizeAlways ==
    \/ /\ ChooseFinalization(local.annot.policy = "delete")
       /\ UNCHANGED <<catalog, ghosts>>
    \/ /\ pc = "finalizer" /\ local.finalizer /\ local.annot.policy = "delete"
       /\ Goto("drop")
       /\ UNCHANGED <<api, watch, cache, local, edits, faults, catalog, ghosts>>

\* Only the explicit policy "delete" makes finalization drop the database.
Finalize ==
    /\ ChooseFinalization(local.annot.policy = "delete")
    /\ UNCHANGED <<catalog, ghosts>>

\* Mutant: an error of DROP DATABASE is logged and ignored.
DropDatabaseOrNot ==
    /\ pc = "drop"
    /\ \/ /\ catalog' = [catalog EXCEPT ![local.spec.name] = Absent]
          /\ createdBy' = [createdBy EXCEPT ![local.spec.name] = 0]
          /\ UNCHANGED faults
       \/ Fault /\ UNCHANGED <<catalog, createdBy>>
    /\ Goto("removeFinalizer")
    /\ UNCHANGED <<api, watch, cache, local, edits, drift, asked>>

\* DROP DATABASE IF EXISTS of finalizeRisingWaveDatabase; when it fails the
\* statement may have been executed all the same.
DropDatabase ==
    /\ pc = "drop"
    /\ \/ /\ catalog' = [catalog EXCEPT ![local.spec.name] = Absent]
          /\ createdBy' = [createdBy EXCEPT ![local.spec.name] = 0]
          /\ \/ Goto("removeFinalizer") /\ UNCHANGED faults
             \/ Fault /\ Goto("finalizeFailed")
       \/ /\ Fault /\ Goto("finalizeFailed")
          /\ UNCHANGED <<catalog, createdBy>>
    /\ UNCHANGED <<api, watch, cache, local, edits, drift, asked>>

OnFailure == ReportFinalization /\ UNCHANGED <<catalog, ghosts>>

removeFinalizer == ReleaseFinalizer /\ UNCHANGED <<catalog, ghosts>>

-------------------------------------------------------------------------------
(* Steps 5 to 7: create the database, set its owner, report Ready. *)

CheckDatabaseExists ==
    /\ pc = "check"
    /\ \/ /\ catalog[local.spec.name] = Absent
          /\ Goto("create") /\ UNCHANGED <<local, faults>>
       \/ /\ catalog[local.spec.name] # Absent
          /\ local' = [local EXCEPT !.status.databaseCreated = TRUE]
          /\ Goto("owner") /\ UNCHANGED faults
       \/ Fault /\ Requeue /\ UNCHANGED local
    /\ UNCHANGED <<api, watch, cache, edits, catalog, ghosts>>

\* CREATE DATABASE: fails if somebody else has created it since the check,
\* and may be executed although its answer is lost.
CreateDatabase ==
    LET n == local.spec.name IN
    /\ pc = "create"
    /\ \/ /\ catalog[n] = Absent
          /\ catalog' = [catalog EXCEPT ![n] = Admin]
          /\ createdBy' = [createdBy EXCEPT ![n] = local.uid]
          /\ \/ /\ local' = [local EXCEPT !.status.databaseCreated = TRUE]
                /\ Goto("owner") /\ UNCHANGED faults
             \/ Fault /\ Fail("FailedToCreateDatabase")
       \/ /\ \/ catalog[n] # Absent /\ UNCHANGED faults
             \/ Fault
          /\ Fail("FailedToCreateDatabase")
          /\ UNCHANGED <<catalog, createdBy>>
    /\ UNCHANGED <<api, watch, cache, edits, drift, asked>>

\* Mutant: an empty spec.owner is taken for an owner.
GetAnyDatabaseOwner ==
    LET owner == catalog[local.spec.name] IN
    /\ pc = "owner" /\ owner # Absent
    /\ Goto(IF local.spec.owner = owner THEN "ready" ELSE "alter")
    /\ UNCHANGED <<api, watch, cache, local, edits, faults, catalog, ghosts>>

\* Step 6 up to the comparison of the owners.
GetDatabaseOwner ==
    LET owner == catalog[local.spec.name] IN
    /\ pc = "owner"
    /\ \/ /\ local.spec.owner \in {NoOwner, owner}
          /\ Goto("ready") /\ UNCHANGED <<local, faults>>
       \/ /\ local.spec.owner \notin {NoOwner, owner} /\ owner # Absent
          /\ Goto("alter") /\ UNCHANGED <<local, faults>>
       \/ /\ local.spec.owner # NoOwner
          /\ \/ owner = Absent /\ UNCHANGED faults
             \/ Fault
          /\ Fail("FailedToUpdateOwner")
    /\ UNCHANGED <<api, watch, cache, edits, catalog, ghosts>>

\* Mutant: a refused ALTER DATABASE does not end the call.
AlterDatabaseOwnerOrNot ==
    LET n == local.spec.name IN
    /\ pc = "alter"
    /\ \/ /\ catalog[n] # Absent
          /\ catalog' = [catalog EXCEPT ![n] = local.spec.owner]
          /\ UNCHANGED faults
       \/ Fault /\ UNCHANGED catalog
    /\ Goto("ready")
    /\ UNCHANGED <<api, watch, cache, local, edits, ghosts>>

\* ALTER DATABASE ... OWNER TO.
AlterDatabaseOwner ==
    LET n == local.spec.name IN
    /\ pc = "alter"
    /\ \/ /\ catalog[n] # Absent
          /\ catalog' = [catalog EXCEPT ![n] = local.spec.owner]
          /\ \/ Goto("ready") /\ UNCHANGED <<local, faults>>
             \/ Fault /\ Fail("FailedToUpdateOwner")
       \/ /\ \/ catalog[n] = Absent /\ UNCHANGED faults
             \/ Fault
          /\ Fail("FailedToUpdateOwner")
          /\ UNCHANGED catalog
    /\ UNCHANGED <<api, watch, cache, edits, ghosts>>

ReportFailure == WriteFailure /\ UNCHANGED <<catalog, ghosts>>

\* Mutant: no RequeueAfter once the resource is Ready.
ReportReadyOnce ==
    /\ pc = "ready"
    /\ StatusUpdate([local.status EXCEPT !.reason = "Completed",
                                         !.observedGeneration = local.gen])
    /\ Done
    /\ UNCHANGED <<cache, local, edits, catalog, ghosts>>

ReportReady == WriteReady /\ UNCHANGED <<catalog, ghosts>>

Reconcile ==
    \/ Fetch \/ resolveAdminCredentials \/ Connect
    \/ AddFinalizer \/ Finalize \/ DropDatabase \/ OnFailure
    \/ removeFinalizer
    \/ CheckDatabaseExists \/ CreateDatabase
    \/ GetDatabaseOwner \/ AlterDatabaseOwner
    \/ ReportFailure \/ ReportReady

-------------------------------------------------------------------------------
(* Everything around the worker. *)

\* The operator process dies and is started again.
Crash ==
    /\ Fault
    /\ Relist
    /\ pc' = "idle"
    /\ UNCHANGED <<catalog, ghosts>>

Deliveries ==
    Deliver /\ UNCHANGED <<catalog, pc, ghosts>>

UserWrite ==
    /\ \/ Create(Specs, Annotations, NoStatus)
       \/ EditSpec(Specs)
       \/ Annotate(Annotations)
       \/ Delete
       \/ Release
    /\ asked' = IF api'.deleting /\ api'.annot.policy = "delete"
                THEN asked \cup {api'.spec.name} ELSE asked
    /\ UNCHANGED <<catalog, pc, drift, createdBy>>

\* Somebody creates, drops or reassigns a database behind the operator.
Drift ==
    /\ drift < MaxDrift /\ drift' = drift + 1
    /\ \E n \in Names, o \in Owners \cup {Admin, Absent} :
         /\ catalog[n] # o
         /\ catalog' = [catalog EXCEPT ![n] = o]
         /\ createdBy' = [createdBy EXCEPT ![n] =
                            IF Absent \in {o, catalog[n]} THEN 0 ELSE @]
    /\ UNCHANGED <<kubeVars, pc, asked>>

Next == Reconcile \/ Deliveries \/ UserWrite \/ Crash \/ Drift

\* The worker takes a queued key and its calls return (client-go and lib/pq
\* time out); the informer's watch is reconnected until it delivers; the
\* other finalizer's owner does its work. Users and faults owe nothing.
Fairness ==
    /\ WF_vars(Reconcile)
    /\ WF_vars(Deliveries)
    /\ WF_vars(Release /\ UNCHANGED <<catalog, pc, ghosts>>)

Spec == Init /\ [][Next]_vars

FairSpec == Spec /\ Fairness

-------------------------------------------------------------------------------
(* Properties. *)

TypeOK ==
    /\ api \in Object /\ cache \in Object /\ local \in Object
    /\ watch \subseteq Object
    /\ queued \in BOOLEAN
    /\ edits \in 0..MaxEdits /\ faults \in 0..MaxFaults /\ drift \in 0..MaxDrift
    /\ catalog \in [Names -> Owners \cup {Admin, Absent}]
    /\ createdBy \in [Names -> Nat]
    /\ asked \subseteq Names
    /\ pc \in Steps

\* A database a reconcile created belongs to a resource that, until it is
\* deleted, has the finalizer stored: it cannot vanish without finalization.
CreatedHasFinalizer ==
    \A n \in Names :
        createdBy[n] # 0 /\ createdBy[n] = api.uid
            => \/ ~api.exists
               \/ api.deleting
               \/ api.finalizer

AsSpecified ==
    /\ catalog[api.spec.name] # Absent
    /\ api.spec.owner \in {NoOwner, catalog[api.spec.name]}

\* Ready for the current generation means RisingWave has the database with
\* the owner the spec asks for, unless somebody changed it there.
ReadyIsTruthful == drift = 0 /\ Ready => AsSpecified

\* The operator drops nothing a user did not ask to be removed: some stored
\* version of the resource was deleted with policy "delete" for that name.
DropOnlyIfAsked ==
    [][\A n \in Names :
         catalog[n] # Absent /\ catalog'[n] = Absent /\ drift' = drift
            => n \in asked]_vars

\* A late or repeated finalization never drops the database that the
\* resource now stored under this name created and still wants.
NeverDropLive ==
    [][\A n \in Names :
         catalog[n] # Absent /\ catalog'[n] = Absent /\ drift' = drift
            => ~( /\ api.exists /\ ~api.deleting
                  /\ createdBy[n] = api.uid )]_vars

\* When the finalizer goes away under policy "delete", the database is gone,
\* unless somebody has changed databases behind the operator.
FinalizedMeansDropped ==
    [][api.finalizer /\ ~api'.finalizer /\ api'.uid = api.uid
        /\ api.annot.policy = "delete" /\ drift = 0
            => catalog[api.spec.name] = Absent]_vars

Converged ==
    api.exists /\ ~api.annot.paused =>
        ~api.deleting /\ Ready /\ AsSpecified

\* Once users, faults and drift stop, an unpaused resource is finalized and
\* gone or Ready with RisingWave as specified, and stays so.
EventuallyConverged == <>[]Converged

-------------------------------------------------------------------------------
(* The life of the resource, as ResourceLifecycle describes it.            *)

Made == IF api.exists THEN {n \in Names : createdBy[n] = api.uid} ELSE {}

Lifecycle ==
    INSTANCE ResourceLifecycle WITH
        Things <- Names, stage <- Stage, made <- Made,
        wanted <- api.spec.name, keeps <- api.annot.policy # "delete",
        others <- drift > 0

\* Whatever the cache, lost answers and crashes do, the reconciler creates a
\* database for a resource with a stored finalizer only, drops one for a
\* resource being deleted only, and gives the finalizer up in the end only.
ImplementsLifecycle == Lifecycle!Spec

===============================================================================
