# A TLA+ model of risingwave-resource-operator

The operator reconciles three kinds of Kubernetes resources, `RisingWaveDatabase`,
`RisingWaveSchema` and `RisingWaveUser`, with the databases, schemas and users of
RisingWave clusters. This directory holds TLA+ modules of its reconcilers, of the
synchronisation of privileges and of the connection pool, the TLC configurations
that check them on small instances, and TLAPS proofs about all of them. Paths
below are relative to the repository; `controller/` is `internal/controller/`, `rwclient/` is
`internal/rwclient/`.

## 1. The system and its parts

| Part | State | Operations | Correct when |
|---|---|---|---|
| Database reconciler, `controller/risingwavedatabase_controller.go` | none of its own; the resource (spec, annotations, finalizer, status) at the API server, the database in RisingWave | `Reconcile`, `finalizeRisingWaveDatabase` | what it created is finalized; it drops nothing unasked; Ready is true; it converges |
| Schema reconciler, `controller/risingwaveschema_controller.go` | the same, and the current database of every session | `Reconcile`, `finalizeRisingWaveSchema` | the same, in the database of the spec; `public` stays |
| User reconciler, `controller/risingwaveuser_controller.go` | the same, the managed Secret, the local password | `Reconcile`, `ensureCredentialSecret`, `syncPrivileges`, `finalizeRisingWaveUser` | the same; Secret and RisingWave have one password (they may not, section 3); a rotation is done once it is taken for done |
| Finalizers, `internal/utils/finalizer.go` | the resource's finalizer list | `HandleFinalizer`, `removeFinalizer` | stored before anything is created, removed last |
| Connection pool, `rwclient/pool.go` | `sync.Map` from clusters to `*sql.DB`, last use of each | `Get`, `Remove`, `healthCheck`, `cleanupStaleConnections`, `Close` | no closed or stale handle stays in it |
| Privilege synchronisation, `rwclient/privilege_snapshot.go`, `privilege_diff.go`, `db_snapshot.go` | a snapshot per call | snapshot, diff, ordered REVOKE and GRANT | the grants of the spec are there, the others gone |
| ACL parser, `rwclient/acl_parser.go` | none | parsing `acl` columns | inverse of RisingWave's format |
| SQL builder and client, `rwclient/sql_builder.go`, `database_client.go` | none | text of statements, single queries | quoting; one statement each |
| Password generator, constants, metrics, API types, `cmd/main.go`, `config/` | none, or counters | | |

**How they interact.** `cmd/main.go` starts a manager with three controllers, one
worker each, and one `Pool`. A `Reconcile` call reads the resource (and Secrets)
from the informers' *caches*, writes through the API server, and talks to
RisingWave on a `*sql.DB` from `Pool.Get`. Finalizations end in `Pool.Remove`,
which closes the handle under the other controllers' calls. The health checker
is a goroutine of its own. Users of Kubernetes and other clients of RisingWave
change everything at any time.

**What is hard.** Nothing but the resource's status records progress, it is
written last, and by an Update that a concurrent edit makes fail. Every read may
be stale. Every request may fail before or after it took effect. The process may
stop between any two requests. The pool has no lock over its compound operations,
and a statement's effect depends on the session it happens to get.
`PROJECT.json` lists these hazards one by one, each at its line, with the
properties that would catch it going wrong.

## 2. The modules

```
CustomResource        one custom resource: API server, watch, cache, work queue
  Reconciler          the steps the three Reconcile methods share, HandleFinalizer
    DatabaseController   <- DatabaseControllerProofs  <- MCDatabaseController
    SchemaController     <- SchemaControllerProofs    <- MCSchemaController
    UserController       <- UserControllerProofs      <- MCUserController
    ReconcilerProofs     lemmas about CustomResource and Reconciler
ResourceLifecycle     what the three controllers implement
                         <- ResourceLifecycleProofs
Privileges            operators: ACLs, differences of grants, statements
  PrivilegeSync          <- PrivilegeSyncProofs       <- MCPrivilegeSync
ConnectionPool           <- ConnectionPoolProofs      <- MCConnectionPool
```

**CustomResource** has the stored object `api` with its `resourceVersion`, uid and
generation; `watch`, the versions not yet delivered; `cache`, what `r.Get` returns;
`queued`, whether the key is in the work queue; and `local`, the copy of the running
call. `Write` bumps the resourceVersion unless nothing changes, and `Current` is the
optimistic concurrency check of `Update` and `Status().Update`. A delivery may
skip versions (a relist) and never goes back. `held` is a finalizer of somebody
else, so that a resource can outlive the operator's own finalizer.

**Reconciler** adds `pc`, the next request of the one worker, and the shared steps.
Each request to the API server or RisingWave is one step that can succeed, fail, or
take effect and be reported as failed; the code between two requests is part of
the step before. `Goto`, `Done`, `Requeue` and `Fail` are the ways a step ends:
next step, `ctrl.Result{}`, a `RequeueAfter` or error, and an error path that first
writes a `NotReady` status. `Stage` is how far the stored resource is in its life.

**DatabaseController** follows `Reconcile` and `finalizeRisingWaveDatabase` line by
line: `CheckDatabaseExists`, `CreateDatabase`, `GetDatabaseOwner`,
`AlterDatabaseOwner`, `ReportReady`, `Finalize`, `DropDatabase`. `catalog` maps
names to owners. `Drift` is another client of RisingWave. `createdBy` and
`asked` are history variables that only properties read.

**SchemaController** has the same shape and two things of its own: the catalog is
per database, and `sessions` is the current database of each session of the
`*sql.DB`. `RunOn(s)` picks the session of a statement. It is one in the
right database, or, `MaxStrays` times, any. `OtherUse` is a `USE` of another
worker or a session replaced after `connMaxLifetime`. It is modelled as external
that RisingWave resolves a schema name, and reads `rw_schemas`, in the session's
current database; `USE` exists in the code for that reason.

**UserController** adds the managed Secret (`secret`), its cache (`secretCache`,
`secretSynced`) and the local `password`. `resolveUserPassword` is called twice, as
in the code: by `ResolvePassword`, and once more while `CREATE USER` is built.
`ensureCredentialSecret` reads the cached Secret again. `RemoveRotateAnnotation` is
the merge patch at :269-:276, without a resourceVersion, with its answer decoded over
the local copy. Of `syncPrivileges` only success and failure matter to these
variables; what it does to the privileges is the next module's.

**Privileges** has the pure part of privilege synchronisation. `ParseACL` is
`acl_parser.go` with its tables of letters, on the letters of the user's entry;
`CalculateDiff` is the three functions of `privilege_diff.go`; `OrphanObjects` and
`OrphanDatabases` are the loops of `syncPrivileges` over what the snapshot has and
the spec does not; `PrivilegeChanges` puts the statements of a call together, each
under its database. A statement names a schema or object without its database, so
`Targets` resolves it in the current database of a session, and `Apply` is what
RisingWave does with it; both are external. `Wanted` is the reference: the letters
a spec asks for on one thing, by name or by wildcard.

**PrivilegeSync** runs them: `Start`, one step per query of the snapshot
(`fetchDatabasePrivileges`, `fetchSchemaPrivs`, `fetchObjectPrivsCustom`), `Plan`,
and per statement `NextStatement` or `SwitchDatabase` (a `USE`) and
`ExecuteStatement`. Every one picks a free session, as database/sql does. A
query may end early without an error (`Reads`: `rows.Err` is never looked at) or
fail; a statement may fail with an error that is swallowed or returned, and may have
taken effect all the same; a failed `USE` is only logged. Between the steps a user
edits the grants, the operator restarts, and other clients grant, revoke, create,
drop and move sessions.

**ResourceLifecycle** is the abstract specification: a resource is declared,
guarded by its finalizer, leaving, released; things are made for it only while it is
guarded or leaving, withdrawn only while it is leaving, and the finalizer goes when
the thing is gone or may stay. Each controller has an instance of it:

| | `stage` | `made` | `wanted` | `keeps` | `others` |
|---|---|---|---|---|---|
| database | `Stage` | names with `createdBy` = the resource's uid | `api.spec.name` | policy is not `delete` | `drift > 0` |
| schema | `Stage` | the same, for (database, name) | database and name of the spec | policy is not `delete`, or `public` | `strays > 0` |
| user | `Stage` | the same | `api.spec.name` | always (see `user_leak`) | `drift > 0` |

and the property `ImplementsLifecycle` is the specification of that instance.

**ConnectionPool** has one step per map access, ping, `Open` and `Close` of `Get`,
`Remove`, `healthCheck` and `cleanupStaleConnections`, for any number of
reconcilers and the health checker. A ping may fail on a healthy handle.

## 3. The runs

| Run | Question | Result |
|---|---|---|
| `db_safety` | two names, three writes, one fault: `CreatedHasFinalizer`, `ReadyIsTruthful`, `DropOnlyIfAsked`, `NeverDropLive`, `FinalizedMeansDropped`, `ImplementsLifecycle` | hold |
| `db_liveness` | one fault and one foreign change: `EventuallyConverged` | holds |
| `schema` | two databases, two sessions, one stray statement, one fault: `CreatedHasFinalizer`, `ReadyIsTruthful`, `PublicStays`, `FinalizedMeansDropped`, `ImplementsLifecycle`, `EventuallyConverged` | hold |
| `user_safety` | three writes, one rotation, one call with an outdated Secret cache, one foreign change: `CreatedHasFinalizer`, `ReadyIsTruthful`, `RotationReachesBoth`, `NeverDropLive`, `ImplementsLifecycle` | hold |
| `user_liveness` | all ways to authenticate, pause, rotation, one fault: `EventuallyConverged` and the two safety properties a crash could break | hold |
| `privileges` | one database, five shapes of grants, two edits, one fault or crash, one act of another client: `CompleteMeansGranted`, `StepsTowardsSpec`, `EventuallySynced`, `EventuallyQuiet` | hold |
| `pool` | two reconcilers and the health checker on one key: `ClosedIsLeaving`, `PrivateUntilStored`, `ClosedHandlesLeave`, `StaleHandlesLeave` | hold |
| `user_first_password` | does the Secret hold the user's password? | no |
| `user_late_rotation` | and after a rotation, in the end? | no |
| `user_leak` | is a created user dropped by finalization? | no |
| `schema_sessions` | is the schema dropped in its own database? | no |
| `privileges_databases` | does the user get the grants in two databases? | no |

Each passing run of a module also checks its `TypeOK`, `db_liveness` and
`user_liveness` excepted.

**What the passing runs show.** `CreatedHasFinalizer` and `FinalizedMeansDropped`
are the two halves of "nothing leaks": a database this resource's call created
cannot lose its resource without a finalization, and the finalization does not end
early, whatever answer gets lost. `ImplementsLifecycle` says both and more, for all
three controllers in the same words. `NeverDropLive` is the hazard of a finalization
from a stale cache after the resource was deleted and created again.
`ReadyIsTruthful` relates a status written from an old copy to the catalog of now.
For users it is stated without rotations (see the divergences). `RotationReachesBoth`
says what a call has done when it comes to removing the rotate annotation: its
password is in the Secret, and, if it found the user, in RisingWave. It is not
stated of a call that creates the user, for which it is false (`SecretHasPassword`
below), nor does it say anything of a call that rotates once more after the annotation
has gone (`RotatedSecretHasPassword`). `EventuallyConverged`
is stated as stability (`<>[]`): after the last disturbance the resource becomes and
stays as specified or gone. The schema version shows more: even after statements
ran in the wrong database, the 60-second requeue repairs the *wanted* schema. It
does not remove what was created in the wrong place.

Of the privileges, `CompleteMeansGranted` is about one call: if it reports success,
started from whatever snapshot, everything the spec asks for is granted, what its own
REVOKEs took away included; it needs the sort that puts them first.
`StepsTowardsSpec` is about one statement: a wrong snapshot can make the operator do
too little and never harm, unless the spec mixes ALL or a wildcard with names.
`EventuallySynced` is the purpose of it all, and `EventuallyQuiet` that the
operator comes to rest: for specs it can recognise as granted the difference becomes
and stays empty.

**What the violated properties show.** Each quotes a sentence of the repository.
- `SecretHasPassword`: on the plain first reconcile, without any fault,
  `buildCreateUserSQL` (:926) resolves the password a second time and, the Secret
  not existing yet, generates another one. The user cannot log in with the Secret.
  The same happens, and is lost for good, when the resource that creates the user has
  `rotate-password` set: :153 resolves a new password, :926 resolves again without
  rotating (another new one, or that of a Secret left from before), :253 stores the
  first and :276 removes the annotation. With `Annotations <- OnlyRotate` in the
  run's configuration TLC finds this variant instead.
- `RotatedSecretHasPassword`: the call after a rotation may still see the
  annotation in its cache, rotate again, and stop before the Secret is
  written; the annotation is gone from the API server, so nothing tries again.
- `FinalizedMeansDropped` (users): `Status.UserCreated` is stored last, and
  finalization trusts it (:385).
- `DropsInDatabase`: `USE` and `DROP SCHEMA ... CASCADE` are two statements
  on a pool of sessions.
- `EventuallySynced` on two databases: the snapshot reads the schemas of the
  session's current database for every database it lists (privilege_snapshot.go:95),
  so that what is granted in one passes for granted in the other.

**Every property has a mutant**: an operator of the module, marked `Mutant`,
that changes one definition the way a plausible bug would (a dropped finalizer step,
an ignored error, a missing requeue, a policy not looked at, statements not sorted).
With the mutant in place TLC finds the property violated under the run's own
configuration.

### Bounds

- `MaxEdits`: users' writes. Two give create and delete, or create and edit;
  three give delete and re-create under a stale cache, or an edit and a
  deletion during one call. `MaxFaults`: one fault at any request, or one crash. It is
  spent anywhere, so that every single error path of the code is taken, and after
  each the whole recovery is explored.
- `MaxDrift`, `MaxRotations`: one foreign change, one rotation request, at any time.
- `MaxStale`: calls that begin before the Secret the last one wrote is in the
  cache. One in `user_safety`, zero where the run has a fault as well.
- `MaxStrays`: statements that run in another database. One suffices for each property
  to meet a stray (`schema_sessions` has two, the `CREATE` and the `DROP`);
  `OtherUse` counts as a fault.
- Two sessions in `SchemaController`: the one the `USE` went to and another. Three
  handles and two reconcilers on one key: one handle in the map, and one in each
  worker's hand. Keys do not interact (`Filed` in the proofs), so one is enough for TLC.
- Generated passwords, and handles out of the program's reach, are recycled,
  so that behaviours are not cut short by the size of these sets. Three passwords leave
  a fresh one beside those of Secret, cache and RisingWave that a run tells apart; four
  give the same states.
- `MCPrivileges.cfg`: one schema, two tables, the second of which others create later,
  and letters of which one (`T`) has no meaning. The five specs are a table by
  name, a wildcard, both, ALL on a table of a schema without privileges, and nothing.
  Two edits: any of these replaced by any other while a call runs. One
  database, where all sessions are alike and one is enough: with two the properties
  fail, which `privileges_databases` shows with no fault at all. Types of objects differ
  in their letters only.
- Resource versions, uids and generations are bounded through the budgets. No
  run has a state constraint.
- `CHECK_DEADLOCK FALSE` in the controllers' runs and those of privileges: with the
  budgets spent and the resource gone, or its grants left out, the model rightly stops.
  The pool never stops, and is checked.

### Fairness

Safety runs use `Spec`, without fairness. `FairSpec` of a controller has weak
fairness of the worker as a whole (controller-runtime's worker takes a queued key,
and every request ends by its context, the client's or the operating system's time-out),
of the informers' deliveries (reflectors reconnect and relist), and of the owner
of the other finalizer. Nothing is fair about users, faults, drift, other workers'
`USE` or which session is free: they may happen or not, and stop only because they are
bounded. A worker step that can both fail and succeed is not owed success:
failures run out with `MaxFaults`. `user_late_rotation` is checked under `FairSpec`, so
its counterexample is no mere halt. `PrivilegeSync` has weak fairness of
`syncPrivileges`: a Ready resource is requeued every period and a failed call at once
(`UserController` models this part), so the call is made again and again. The pool's
`FairSpec` has weak fairness for each worker once it is in `Get` or `Remove`, and for
the health checker, whose ticker never stops; nobody has to call `Get`.

## 4. The proofs

All theorems hold for every value of the constants that meets the assumptions named in
the modules: budgets are naturals, special values are distinct from proper ones, a
spec's grants are well formed; `MaxStrays` is at least one, and `Absent` is no user.
TLC evaluates these assumptions in every run.

| Module | Theorems |
|---|---|
| `DatabaseControllerProofs` | `TypeCorrect`, `CreatedIsFinalized`, `ReadyTellsTheTruth`, `DropsAreAsked`, `LiveDatabasesStay`, `FinalizedIsDropped`, `DatabaseImplementsLifecycle` |
| `SchemaControllerProofs` | `TypeCorrect`, `CreatedIsFinalized`, `PublicIsKept`, `FinalizedIsDropped`, `ReadyTellsTheTruth`, `SchemaImplementsLifecycle` |
| `UserControllerProofs` | `TypeCorrect`, `CreatedIsFinalized`, `RotationIsComplete`, `ReadyTellsTheTruth`, `LiveUsersStay`, `UserImplementsLifecycle` |
| `ResourceLifecycleProofs` | `LifecycleTypeCorrect`, `NothingIsUnguarded` |
| `PrivilegeSyncProofs` | `TypeCorrect`, `StatementsTowardsSpec`, `CompleteCallsGrant` |
| `ConnectionPoolProofs` | `TypeCorrect`, `NoDeadEntries`, `NewHandlesPrivate` |

**Controllers.** None of the safety properties is inductive: each says something of the
stored resource, while the worker acts on a copy that may be older. What a copy can
be is the same for all three controllers and is proved once, in `ReconcilerProofs`, whose
`KubeInv` is invariant under any worker whose steps are `WorkerStep`s, whatever its
specs, annotations and statuses:
- `VersionsInOrder`: every version in flight (`watch`, `cache`, `local`) *precedes*
  the stored one (`Precedes`: the same life implies deletion is final, the finalizer
  leaves only with deletion, equal generations have equal specs), and the cache
  precedes what is still on the watch;
- `WorkerBehind`, `RemovesFromDeleted`: what the worker's copy is allowed to be;
- `ReleasedIsKnown`: once the stored resource is released nobody takes it for one that
  is guarded;
- `ReportsHonest`, `StatusesTold`: no status is ahead of its generation, a failure is not
  reported as Completed, and a resourceVersion tells statuses apart;
- `UidGiven`, `GoneIsUnguarded`.

A controller's proof shows each action to be a `WorkerStep`, a `UserStep` or an
`OtherStep`, takes `KubeInv'` from there, and adds what its own `IInv` needs:
- in all three, `WorkerKnows`: what each `pc` implies of the copy;
  `CreationsKnown`: nothing was created by a life newer than the cache knows;
  `CreationsStay` and `ReleasedIsDropped`, which the refinement needs (below);
- database: `DeletesAsked`, `CatalogKnown`; schema: `DropsKnown`, `CatalogKnown`;
- user: `PasswordIsNew` and `SecretIsNew`, the two facts a rotation hands from step to
  step: from `permissions` on RisingWave has the call's password, unless the call
  has `created` the user (a history variable, reset by `Fetch`), and from
  `unannotate` on the Secret has it; `UsersKnown`, `DropsKnown`, `RotationsCounted`.

*Ready tells the truth.* `ReadyIsTruthful` speaks of a status that is written several
steps after the statements, from a copy that may be stale, and of a catalog that a later
call may change again. The proofs rest on `ReadyIsKnown` (`ReconcilerProofs`): a call
about to report Ready is not ahead of the cache, and once the stored resource is Ready for
its generation neither the cache nor the worker holds an older one, whose statements
could undo what is reported. `ReadyMeansCurrent` and `ReadyAppears` are the two directions
in which the controllers use it: only `ReportReady` over the stored version makes the
resource Ready, and a worker that executes a statement while it is Ready has the stored
spec. For users `ReadyIsKnown` itself fails once the patch that ends a rotation
has brought the local copy a newer generation, so that the invariant has it under
`rotations = 0` (`NothingOvertakes`), as the property has.

*The refinement.* `DatabaseImplementsLifecycle`, `SchemaImplementsLifecycle` and
`UserImplementsLifecycle` map every action to an abstract one (a user's write
to `Declare`, `Amend` or `Retire`, `AddFinalizer` to `Guard`, `CREATE` to `Provide`,
`DROP` to `Withdraw`, the last `Update` to `Release`, the other owner to `LetGo`) or to a
stutter. They share the case analysis: `LifeMoves` (`ResourceLifecycleProofs`) says that
moving things as `ThingsMove` allows, or the resource as `StageMoves` allows, is a
step of the lifecycle, and `KubeStepStage` and `StageTellsLife` (`ReconcilerProofs`) which
way a write to the resource moves `Stage`. What is left to a controller is that a
statement meets a stage in which it is allowed. For `DROP` this takes
`ReleasedIsDropped`: a finalization may be repeated from an old copy after the finalizer
went, and then finds nothing to drop. With `NothingIsUnguarded` each gives: nothing
is made for a resource whose finalizer is not stored.

**Privileges.** Every planned statement is a change of one of three forms
(`IsChange`): a GRANT of privileges the spec has there, a REVOKE of ones it does
not have, a REVOKE of ALL where it names nothing. With one database a statement meets
the thing it was planned for or, from a wildcard, the objects the wildcard covers
(`TargetsShape`), so that `ChangeStep` compares letters with what is wanted there.
The invariant ties the statement in execution to the plan and the plan to snapshot and
grants.

`CompleteCallsGrant` follows one call from its first query to its last statement
(`CallParts`). The snapshot of an undisturbed call shows only what is there
(`SnapshotIsTrue`), though rows may be missing. So whatever is wanted is granted already
or a GRANT of it is planned (`PlanCovers`; a privilege has one letter, `LettersDiffer`). It
stays so until the end (`WantedComes`): what a REVOKE takes away although the spec
asks for it, by ALL or by a wildcard, a planned GRANT gives back (`RevokedIsGranted`), and
that GRANT is still to come, as no GRANT runs before the last REVOKE
(`RevokesFirst`; the sort in the code). When nothing is pending, all is granted.

`Databases = {Default}` is an assumption of these two theorems: with two
databases the statements are false, as the session decides.

**Pool.** `IInv` adds `Filed` (a thread that holds a handle which is in the map works on
that entry's key, and no handle is filed twice), `JanitorClosesDeleted` (what the
health checker is about to close is out of the map) and `HoldsHandle`.

**Only model-checked**: all liveness properties (`EventuallyConverged`,
`EventuallySynced`, `EventuallyQuiet`, `ClosedHandlesLeave`, `StaleHandlesLeave`), which
fairness and ENABLED put out of the prover's reach. Every safety property of a passing
run has a theorem. The strengthened invariants were checked by TLC on small instances
before they were proved; the runs keep the properties only.

## 5. What is not modelled, and divergences seen on the way

Not modelled: SQL text and quoting (statements are taken by their effect); how an acl is
split into entries, and grant options; `Pool.Close`, which nothing calls; credentials
in the pool; the length of periods and time-outs; start-up, and several
replicas without `--leader-elect`; the password generator, metrics, API registration
and manifests. `Pool.Remove` in a finalization is modelled in `ConnectionPool` and
left out of the controllers, where its effect on others, a statement failing half-way,
is a `Fault`. Errors of cached reads other than a missing Secret or resource do not
occur and are left out or are a `Fault`. The databases of `SchemaController` are there
for good: one that is missing shows only as a failing statement. `PrivilegeSync`
reads the spec as it is stored, not a copy from a lagging cache.

Observed and not made into a run:
- Users are dropped without a deletion policy (`risingwaveuser_controller.go:385`,
  `finalizer.go:96`), while README.md:242 calls `abandon` the default.
- A call that began before the last written Secret was in the cache reads it twice
  (:355, :947-:974). With its delivery between the two, the second read's
  resourceVersion lets a freshly generated password overwrite the stored one, without
  a rotation.
- If `rotate-password` is the only annotation of the copy, the merge patch (:267-:276) is
  `annotations: null` and erases what a user has added since.
- The answer to that patch brings a newer generation into the local copy, so Ready may
  be reported for a spec this call did not apply; the next requeue applies it.
- A spec with ALL, or with a wildcard beside a named object, has privileges revoked and
  granted again in every call. `withGrantOption` is not compared. Grants that were
  removed together with their schema, or with all of `spec.grants`, or that are on
  objects of a database the spec no longer names, are never revoked, against
  docs/getting-started.md:276-280.
- A `USE` that fails is only logged (:843), and `currentDB` remembers a database, not the
  session that is in it: with two databases a statement may change privileges in the
  other one even if the snapshot was right.
- `PrivilegesSynced` is never reset when a later synchronisation fails. Errors that
  contain "does not exist", "not found" or "must be owner" pass for success (:856-:863).
  An acl with several grantors for one user is read as one entry.
- `BuildGrantStatements`, `BuildRevokeStatements` and `ListUserSchemas` are not used.
- `Get` takes a handle whose ping failed out of the map without closing it
  (pool.go:192), and of two Gets that both miss the later `Store` replaces the
  earlier's handle (:219). Neither is closed by the program, against "Closes connections
  when not in use" (docs/developer-guide.md:30). database/sql's idle limits end their TCP
  connections all the same.
- `cleanupStaleConnections` may close a handle that `Get` has just handed out, or delete
  the entry of another (pool.go:282): the check and the deletion are not atomic.
- The pool's key has no credentials: a changed admin password is noticed only once
  new sessions are opened.
- The managed Secret is never deleted, permissions are never taken away, the
  `SecretNotFound` reason of README.md:94 does not exist in the code, and a resource
  whose cluster cannot be reached or that is paused cannot be deleted.

## 6. Plan

1. *Done*: the modules of section 2, the lifecycle as a refinement, proofs for every
   component.
2. *Done*: a theorem for every safety property of the passing runs, and the three
   refinements, all on `ReconcilerProofs`.
3. Proofs: the safety halves of the liveness properties (a state in which a controller is
   `Converged`, or a settled spec granted, is left by disturbances only; the difference
   of a granted, settled spec is empty), so that what is left to TLC is progress alone.
4. The pool composed with the controllers' calls, with credentials, so that
   `Pool.Remove` under a running call is a step and not a fault.
