---------------------------- MODULE UserController ----------------------------
(***************************************************************************)
(* RisingWaveUserReconciler.Reconcile                                      *)
(* (internal/controller/risingwaveuser_controller.go): one RisingWaveUser, *)
(* the Secret risingwave-user-<resource> that keeps the generated password *)
(* and is read through a lagging cache, and the users of a RisingWave      *)
(* cluster. A password lives in three places: the Secret, RisingWave and   *)
(* the variable password of the running call.                              *)
(*                                                                         *)
(* Passwords that are no longer stored anywhere may be generated again, so *)
(* that no run is too long for the model. The privileges syncPrivileges    *)
(* reconciles are left out: here it succeeds or it fails.                  *)
(***************************************************************************)
EXTENDS Reconciler

CONSTANTS
    Names,          \* names of RisingWave users
    Permissions,    \* user-level permissions: SUPERUSER, CREATEDB, ...
    Specs,          \* specs and annotations a user may write
    Annotations,
    Passwords,      \* what GenerateRandomPassword may return
    Given,          \* the password in the Secret spec.password.secretRef names
    None,           \* no password, no Secret
    Absent,         \* a user that does not exist
    MaxRotations,   \* bound on requests to rotate the password
    MaxStale,       \* bound on calls that begin with an outdated Secret cached
    MaxDrift        \* bound on changes made behind the operator

\* "managed": the operator generates the password; "secretRef": it reads it
\* from the user's Secret; "external": OAuth or LDAP.
AnySpec ==
    [name: Names, auth: {"managed", "secretRef", "external"},
     permissions: SUBSET Permissions]

AnyAnnotations ==
    [policy: {"none", "abandon", "delete"}, rotate: BOOLEAN, paused: BOOLEAN]

NoAnnotations == [policy |-> "none", rotate |-> FALSE, paused |-> FALSE]

AnyPassword == Passwords \cup {Given, None}

User == [password: AnyPassword, permissions: SUBSET Permissions]

ASSUME UserAssumption ==
    /\ Specs \subseteq AnySpec /\ Annotations \subseteq AnyAnnotations
    /\ Given \notin Passwords /\ None \notin Passwords \cup {Given}
    /\ Absent \notin User
    /\ MaxRotations \in Nat /\ MaxStale \in Nat /\ MaxDrift \in Nat

VARIABLES
    users,          \* name -> password and permissions, or Absent
    secret,         \* password in the managed Secret, or None
    secretCache,    \* what r.Get returns for it
    secretSynced,   \* whether that is the stored version
    password,       \* local variable of Reconcile
    rotations,      \* number of requests to rotate the password
    stale,          \* number of calls begun with an outdated Secret cached
    drift,          \* number of changes made behind the operator
    createdBy,      \* history: uid of the resource whose reconcile created it
    altered,        \* history: users whose password ALTER USER has set
    created         \* history: the running call has created its user

secretVars == <<secret, secretCache, secretSynced>>

ghosts == <<rotations, stale, drift, createdBy, altered, created>>

vars == <<kubeVars, pc, users, secretVars, password, ghosts>>

Reasons ==
    {"", "Completed", "FailedToGetSecret", "ConnectionFailed",
     "FailedToFinalize", "FailedToCreateUser", "FailedToUpdatePassword",
     "FailedToGrant", "FailedToCreateSecret"}

Statuses ==
    [reason: Reasons, observedGeneration: Nat, userCreated: BOOLEAN]

NoStatus ==
    [reason |-> "", observedGeneration |-> 0, userCreated |-> FALSE]

Object == Objects(AnySpec, AnyAnnotations, Statuses)

Steps ==
    {"idle", "creds", "connect", "finalizer", "drop", "finalizeFailed",
     "removeFinalizer", "password", "check", "create", "alterPassword",
     "permissions", "privileges", "secret", "unannotate", "report", "ready"}

Init ==
    /\ \E s \in Specs :
         api = [exists |-> FALSE, rv |-> 0, uid |-> 0, gen |-> 0, spec |-> s,
                annot |-> NoAnnotations, deleting |-> FALSE,
                finalizer |-> FALSE, held |-> FALSE, status |-> NoStatus]
    /\ cache = api /\ local = api
    /\ watch = {}
    /\ queued = FALSE
    /\ edits = 0 /\ faults = 0
    /\ drift = 0 /\ rotations = 0 /\ stale = 0
    /\ users = [n \in Names |-> Absent]
    /\ secret = None /\ secretCache = None /\ secretSynced = TRUE
    /\ password = None
    /\ createdBy = [n \in Names |-> 0]
    /\ altered = {} /\ created = FALSE
    /\ pc = "idle"

Exists(n) == users[n] # Absent

-------------------------------------------------------------------------------
(* Steps 1 to 4: fetch, connect, handle the finalizer. *)

\* Calls are seconds apart and a delivery takes milliseconds, so that only
\* some calls begin before the Secret the last one wrote is in the cache.
Fetch ==
    /\ FetchResource
    /\ IF secretSynced THEN UNCHANGED stale
       ELSE stale < MaxStale /\ stale' = stale + 1
    /\ created' = FALSE
    /\ UNCHANGED <<users, secretVars, password, rotations, drift, createdBy,
                   altered>>

resolveAdminCredentials ==
    ResolveCredentials /\ UNCHANGED <<users, secretVars, password, ghosts>>

Connect == GetConnection /\ UNCHANGED <<users, secretVars, password, ghosts>>

\* Mutant: the finalizer is not stored before the user is created.
AddNoFinalizer ==
    /\ pc = "finalizer" /\ ~local.deleting
    /\ Goto("password")
    /\ UNCHANGED <<api, watch, cache, local, edits, faults, users, secretVars,
                   password, ghosts>>

AddFinalizer ==
    /\ StoreFinalizer("password")
    /\ UNCHANGED <<users, secretVars, password, ghosts>>

\* Mutant: the deletion timestamp is not looked at.
FinalizeAlways ==
    /\ pc = "finalizer" /\ local.finalizer /\ local.status.userCreated
    /\ Goto("drop")
    /\ UNCHANGED <<api, watch, cache, local, edits, faults, users, secretVars,
                   password, ghosts>>

\* Unless the policy is "abandon", the user is dropped if the status says it
\* was created.
Finalize ==
    /\ ChooseFinalization(/\ local.annot.policy # "abandon"
                          /\ local.status.userCreated)
    /\ UNCHANGED <<users, secretVars, password, ghosts>>

\* DROP USER IF EXISTS; when it fails it may have been executed all the same.
DropUser ==
    /\ pc = "drop"
    /\ \/ /\ users' = [users EXCEPT ![local.spec.name] = Absent]
          /\ createdBy' = [createdBy EXCEPT ![local.spec.name] = 0]
          /\ altered' = altered \ {local.spec.name}
          /\ \/ Goto("removeFinalizer") /\ UNCHANGED faults
             \/ Fault /\ Goto("finalizeFailed")
       \/ /\ Fault /\ Goto("finalizeFailed")
          /\ UNCHANGED <<users, createdBy, altered>>
    /\ UNCHANGED <<api, watch, cache, local, edits, secretVars, password,
                   rotations, stale, drift, created>>

OnFailure ==
    ReportFinalization /\ UNCHANGED <<users, secretVars, password, ghosts>>

removeFinalizer ==
    ReleaseFinalizer /\ UNCHANGED <<users, secretVars, password, ghosts>>

-------------------------------------------------------------------------------
(* Steps 5 to 7: password, user, permissions. *)

IsPasswordAuth == local.spec.auth # "external"

Generated ==
    {p \in Passwords :
        /\ p \notin {secret, secretCache, password}
        /\ \A n \in Names : Exists(n) => users[n].password # p}

\* What resolveUserPassword may return: the password of the Secret, as far
\* as the cache knows it, unless it is to be replaced.
resolveUserPassword(rotate) ==
    IF local.spec.auth = "secretRef" THEN {Given}
    ELSE IF secretCache # None /\ ~rotate THEN {secretCache}
    ELSE Generated

ResolvePassword ==
    /\ pc = "password"
    /\ \/ /\ IF IsPasswordAuth
             THEN password' \in resolveUserPassword(local.annot.rotate)
             ELSE UNCHANGED password
          /\ Goto("check") /\ UNCHANGED <<local, faults>>
       \/ /\ local.spec.auth = "secretRef"
          /\ Fault /\ Fail("FailedToGetSecret")
          /\ UNCHANGED password
    /\ UNCHANGED <<api, watch, cache, edits, users, secretVars, ghosts>>

checkUserExists ==
    /\ pc = "check"
    /\ \/ /\ ~Exists(local.spec.name)
          /\ Goto("create") /\ UNCHANGED <<local, faults, password>>
       \/ /\ Exists(local.spec.name)
          /\ local' = [local EXCEPT !.status.userCreated = TRUE]
          /\ Goto(IF local.annot.rotate /\ IsPasswordAuth
                  THEN "alterPassword" ELSE "permissions")
          /\ UNCHANGED <<faults, password>>
       \/ Fault /\ Requeue /\ password' = None /\ UNCHANGED local
    /\ UNCHANGED <<api, watch, cache, edits, users, secretVars, ghosts>>

\* The users CREATE USER may create: the statement resolves the password once
\* more, never rotating it. The placeholder password of OAuth and LDAP users
\* counts as None, and only users with a password get their permissions here.
buildCreateUserSQL ==
    IF IsPasswordAuth
    THEN [password: resolveUserPassword(FALSE),
          permissions: {local.spec.permissions}]
    ELSE [password: {None}, permissions: {{}}]

\* CREATE USER fails if somebody else has created the user since the check.
CreateUser ==
    LET n == local.spec.name IN
    /\ pc = "create"
    /\ \/ /\ ~Exists(n)
          /\ \E u \in buildCreateUserSQL : users' = [users EXCEPT ![n] = u]
          /\ createdBy' = [createdBy EXCEPT ![n] = local.uid]
          /\ created' = TRUE
          /\ \/ /\ local' = [local EXCEPT !.status.userCreated = TRUE]
                /\ Goto("permissions") /\ UNCHANGED faults
             \/ Fault /\ Fail("FailedToCreateUser")
       \/ /\ \/ Exists(n) /\ UNCHANGED faults
             \/ Fault
          /\ Fail("FailedToCreateUser")
          /\ UNCHANGED <<users, createdBy, created>>
    /\ UNCHANGED <<api, watch, cache, edits, secretVars, password,
                   rotations, stale, drift, altered>>

\* Mutant: an error of ALTER USER ... PASSWORD does not end the call.
AlterPasswordOrNot ==
    /\ pc = "alterPassword"
    /\ \/ /\ Exists(local.spec.name)
          /\ users' = [users EXCEPT ![local.spec.name].password = password]
          /\ altered' = altered \cup {local.spec.name}
       \/ UNCHANGED <<users, altered>>
    /\ Goto("permissions")
    /\ UNCHANGED <<api, watch, cache, local, edits, faults, secretVars,
                   password, rotations, stale, drift, createdBy, created>>

\* An ALTER USER in step now that makes u of the user; next comes after it.
AlterUser(now, u, next, reason) ==
    LET n == local.spec.name IN
    /\ pc = now
    /\ \/ /\ Exists(n)
          /\ users' = [users EXCEPT ![n] = u]
          /\ altered' = IF now = "alterPassword" THEN altered \cup {n}
                        ELSE altered
          /\ \/ Goto(next) /\ UNCHANGED <<local, faults>>
             \/ Fault /\ Fail(reason)
       \/ /\ \/ ~Exists(n) /\ UNCHANGED faults
             \/ Fault
          /\ Fail(reason)
          /\ UNCHANGED <<users, altered>>
    /\ UNCHANGED <<api, watch, cache, edits, secretVars, password,
                   rotations, stale, drift, createdBy, created>>

AlterPassword ==
    AlterUser("alterPassword",
              [users[local.spec.name] EXCEPT !.password = password],
              "permissions", "FailedToUpdatePassword")

\* Mutant: the permissions of a user that exists are left as they are.
AlterNoPermissions ==
    /\ pc = "permissions"
    /\ Goto("privileges")
    /\ UNCHANGED <<api, watch, cache, local, edits, faults, users, secretVars,
                   password, ghosts>>

\* ALTER USER names permissions to add. Without any it is not executed.
AlterPermissions ==
    \/ /\ local.spec.permissions # {}
       /\ AlterUser("permissions",
                    [users[local.spec.name] EXCEPT
                        !.permissions = @ \cup local.spec.permissions],
                    "privileges", "FailedToGrant")
    \/ /\ pc = "permissions" /\ local.spec.permissions = {}
       /\ Goto("privileges")
       /\ UNCHANGED <<api, watch, cache, local, edits, faults, users,
                      secretVars, password, ghosts>>

-------------------------------------------------------------------------------
(* Steps 8 to 11: privileges, Secret, annotation, status. *)

AfterSecret == IF local.annot.rotate THEN "unannotate" ELSE "ready"

syncPrivileges ==
    /\ Attempt("privileges",
               IF local.spec.auth = "managed" THEN "secret" ELSE AfterSecret,
               "FailedToGrant")
    /\ UNCHANGED <<users, secretVars, password, ghosts>>

\* Mutant: a Secret that changed meanwhile is reported by a reason of its own.
ensureSecretOddly ==
    /\ pc = "secret"
    /\ IF secretSynced
       THEN /\ secret' = password /\ secretSynced' = (secret = password)
            /\ Goto(AfterSecret) /\ UNCHANGED local
       ELSE Fail("Conflict") /\ UNCHANGED <<secret, secretSynced>>
    /\ UNCHANGED <<api, watch, cache, edits, faults, users, secretCache,
                   password, ghosts>>

\* Mutant: a refused write of the Secret does not end the call.
ensureSecretOrNot ==
    /\ pc = "secret"
    /\ \/ /\ secretSynced
          /\ secret' = password
          /\ secretSynced' = (secret = password)
       \/ UNCHANGED <<secret, secretSynced>>
    /\ Goto(AfterSecret)
    /\ UNCHANGED <<api, watch, cache, local, edits, faults, users, secretCache,
                   password, ghosts>>

\* Create is refused if there is a Secret the cache does not know of; Update
\* carries the cached resourceVersion. Writing what is stored is no event.
ensureCredentialSecret ==
    LET accepted == IF secretCache = None THEN secret = None
                    ELSE secretSynced
    IN
    /\ pc = "secret"
    /\ \/ /\ accepted
          /\ secret' = password
          /\ secretSynced' = (secretSynced /\ secret = password)
          /\ \/ Goto(AfterSecret) /\ UNCHANGED <<local, faults>>
             \/ Fault /\ Fail("FailedToCreateSecret")
       \/ /\ \/ ~accepted /\ UNCHANGED faults
             \/ Fault
          /\ Fail("FailedToCreateSecret")
          /\ UNCHANGED <<secret, secretSynced>>
    /\ UNCHANGED <<api, watch, cache, edits, users, secretCache, password,
                   ghosts>>

\* A JSON merge patch, which carries no resourceVersion. When rotate-password
\* is the only annotation of local, the patch is annotations: null. The
\* answer overwrites local but for the fields its JSON omits. An error is
\* logged and ignored.
RemoveRotateAnnotation ==
    LET left == IF local.annot.policy = "none" THEN NoAnnotations
                ELSE [api.annot EXCEPT !.rotate = FALSE]
    IN
    /\ pc = "unannotate"
    /\ Goto("ready")
    /\ \/ /\ api.exists
          /\ Write([api EXCEPT !.annot = left])
          /\ \/ /\ local' = [api' EXCEPT !.status.userCreated =
                                @ \/ local.status.userCreated]
                /\ UNCHANGED faults
             \/ Fault /\ UNCHANGED local
       \/ /\ \/ ~api.exists /\ UNCHANGED faults
             \/ Fault
          /\ UNCHANGED <<api, watch, local>>
    /\ UNCHANGED <<cache, edits, users, secretVars, password, ghosts>>

ReportFailure ==
    WriteFailure /\ password' = None /\ UNCHANGED <<users, secretVars, ghosts>>

\* Mutant: a status that could not be written is not tried again.
ReportReadyOnce ==
    /\ pc = "ready"
    /\ StatusUpdate([local.status EXCEPT !.reason = "Completed",
                                         !.observedGeneration = local.gen])
    /\ Done /\ password' = None
    /\ UNCHANGED <<cache, local, edits, users, secretVars, ghosts>>

ReportReady ==
    WriteReady /\ password' = None /\ UNCHANGED <<users, secretVars, ghosts>>

Reconcile ==
    \/ Fetch \/ resolveAdminCredentials \/ Connect
    \/ AddFinalizer \/ Finalize \/ DropUser \/ OnFailure \/ removeFinalizer
    \/ ResolvePassword \/ checkUserExists \/ CreateUser \/ AlterPassword
    \/ AlterPermissions \/ syncPrivileges
    \/ ensureCredentialSecret \/ RemoveRotateAnnotation
    \/ ReportFailure \/ ReportReady

-------------------------------------------------------------------------------
(* Everything around the worker. *)

\* The operator process dies and is started again.
Crash ==
    /\ Fault
    /\ Relist
    /\ secretCache' = secret /\ secretSynced' = TRUE
    /\ pc' = "idle" /\ password' = None
    /\ UNCHANGED <<users, secret, ghosts>>

Deliveries ==
    Deliver /\ UNCHANGED <<users, secretVars, password, pc, ghosts>>

\* Nothing reconciles the resource when its Secret changes.
DeliverSecret ==
    /\ ~secretSynced
    /\ secretCache' = secret /\ secretSynced' = TRUE
    /\ UNCHANGED <<kubeVars, users, secret, password, pc, ghosts>>

UserWrite ==
    /\ \/ Create(Specs, Annotations, NoStatus)
       \/ EditSpec(Specs)
       \/ Annotate(Annotations)
       \/ Delete
       \/ Release
    /\ rotations' = IF api'.annot.rotate /\ ~(api.exists /\ api.annot.rotate)
                    THEN rotations + 1 ELSE rotations
    /\ rotations' <= MaxRotations
    /\ UNCHANGED <<users, secretVars, password, pc, stale, drift, createdBy,
                   altered, created>>

DeleteSecret ==
    /\ secret # None
    /\ Edit
    /\ secret' = None /\ secretSynced' = FALSE
    /\ UNCHANGED <<api, watch, cache, queued, local, faults, users,
                   secretCache, password, pc, ghosts>>

\* Somebody creates or drops a user behind the operator.
Drift ==
    /\ drift < MaxDrift /\ drift' = drift + 1
    /\ \E n \in Names, p \in SUBSET Permissions :
         users' = [users EXCEPT ![n] =
                     IF Exists(n) THEN Absent
                     ELSE [password |-> None, permissions |-> p]]
    /\ createdBy' = [n \in Names |->
                       IF users'[n] = users[n] THEN createdBy[n] ELSE 0]
    /\ altered' = {n \in altered : users'[n] = users[n]}
    /\ UNCHANGED <<kubeVars, secretVars, password, pc, rotations, stale,
                   created>>

Next ==
    \/ Reconcile
    \/ Deliveries \/ DeliverSecret
    \/ UserWrite \/ DeleteSecret
    \/ Crash \/ Drift

\* The worker takes a queued key and its calls return; the informers' watches
\* are reconnected until they deliver; the other finalizer's owner does its
\* work. Users and faults owe nothing.
Fairness ==
    /\ WF_vars(Reconcile)
    /\ WF_vars(Deliveries)
    /\ WF_vars(DeliverSecret)
    /\ WF_vars(Release /\ UNCHANGED <<users, secretVars, password, pc, ghosts>>)

Spec == Init /\ [][Next]_vars

FairSpec == Spec /\ Fairness

-------------------------------------------------------------------------------
(* Properties. *)

TypeOK ==
    /\ api \in Object /\ cache \in Object /\ local \in Object
    /\ watch \subseteq Object
    /\ queued \in BOOLEAN
    /\ edits \in 0..MaxEdits /\ faults \in 0..MaxFaults
    /\ drift \in 0..MaxDrift /\ rotations \in 0..MaxRotations
    /\ stale \in 0..MaxStale
    /\ users \in [Names -> User \cup {Absent}]
    /\ {secret, secretCache, password} \subseteq AnyPassword
    /\ secretSynced \in BOOLEAN
    /\ createdBy \in [Names -> Nat]
    /\ altered \subseteq Names /\ created \in BOOLEAN
    /\ pc \in Steps

\* A user a reconcile created belongs to a resource that, until it is
\* deleted, has the finalizer stored.
CreatedHasFinalizer ==
    \A n \in Names :
        createdBy[n] # 0 /\ createdBy[n] = api.uid
            => ~api.exists \/ api.deleting \/ api.finalizer

Applied ==
    /\ Exists(api.spec.name)
    /\ api.spec.permissions \subseteq users[api.spec.name].permissions

\* Ready for the current generation means RisingWave has the user with at
\* least the permissions of the spec, unless somebody changed it there or
\* the patch that ends a rotation has brought a newer generation.
ReadyIsTruthful == drift = 0 /\ rotations = 0 /\ Ready => Applied

\* A call that is about to remove the rotate-password annotation has stored
\* its password in the Secret, unless somebody deleted that, and if it found
\* the user there, has set it in RisingWave too. Not so a call that creates the
\* user: RisingWave gets another password and the annotation goes all the same
\* (see SecretHasPassword).
RotationReachesBoth ==
    pc = "unannotate" /\ local.spec.auth = "managed"
    => /\ secret \in {password, None}
       /\ drift = 0 /\ ~created
            => users[local.spec.name].password = password

\* A late or repeated finalization never drops the user that the resource
\* now stored under this name created and still wants.
NeverDropLive ==
    [][\A n \in Names :
         Exists(n) /\ ~Exists(n)' /\ drift' = drift
            => ~( /\ api.exists /\ ~api.deleting
                  /\ createdBy[n] = api.uid )]_vars

Converged ==
    api.exists /\ ~api.annot.paused =>
        /\ ~api.deleting /\ ~api.annot.rotate
        /\ Ready /\ Applied
        /\ api.spec.auth = "managed" => secret # None

\* Once users, faults and drift stop, an unpaused resource is finalized and
\* gone, or Ready with its user, its permissions and its Secret in place and
\* no rotation left to do, and stays so.
EventuallyConverged == <>[]Converged

-------------------------------------------------------------------------------
(* The life of the resource, as ResourceLifecycle describes it.            *)

Made == IF api.exists THEN {n \in Names : createdBy[n] = api.uid} ELSE {}

\* Finalize trusts a status that may not say that the user was created (see
\* FinalizedMeansDropped): any user may outlive its resource.
Lifecycle ==
    INSTANCE ResourceLifecycle WITH
        Things <- Names, stage <- Stage, made <- Made,
        wanted <- api.spec.name, keeps <- TRUE, others <- drift > 0

\* The reconciler creates users for a resource with a stored finalizer only
\* and drops one for a resource being deleted only, whatever Secrets,
\* rotations and refused writes come in between.
ImplementsLifecycle == Lifecycle!Spec

-------------------------------------------------------------------------------
(* What the documentation and the comments say and the code does not do.   *)

\* docs/getting-started.md:123, the operator "can generate a secure random
\* password and store it in a Kubernetes secret": with no call running and no
\* rotation asked for, the password there opens RisingWave.
SecretHasPassword ==
    /\ drift = 0 /\ pc = "idle"
    /\ Ready /\ ~api.annot.rotate
    /\ api.spec.auth = "managed" /\ secret # None
    /\ Exists(api.spec.name)
    => users[api.spec.name].password = secret

\* The same, docs/getting-started.md:123, once a password has been rotated:
\* whatever the rotation met, the Secret and RisingWave agree in the end.
RotatedSecretHasPassword ==
    <>[](/\ drift = 0
         /\ api.exists /\ ~api.deleting /\ ~api.annot.paused
         /\ api.spec.auth = "managed" /\ api.spec.name \in altered
         /\ secret # None
         => users[api.spec.name].password = secret)

\* risingwaveuser_controller.go:381, "finalizeRisingWaveUser drops the user
\* from RisingWave": unless it is to be abandoned, a user the resource's
\* reconcile created is gone when the finalizer is.
FinalizedMeansDropped ==
    [][api.finalizer /\ ~api'.finalizer /\ api.annot.policy # "abandon"
         => createdBy[api.spec.name] # api.uid]_vars

===============================================================================
