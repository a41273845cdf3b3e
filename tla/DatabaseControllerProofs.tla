----------------------- MODULE DatabaseControllerProofs -----------------------
(***************************************************************************)
(* Proofs about DatabaseController for any number of database names and    *)
(* owners and any budget of edits, faults and drift.                       *)
(*                                                                         *)
(* None of the safety properties is inductive: they speak of the stored    *)
(* resource, while the worker acts on a copy that may be older. What ties  *)
(* the two together is ReconcilerProofs'; here it is shown that every step *)
(* is one of the steps it speaks of, and what the steps do in RisingWave.  *)
(***************************************************************************)
EXTENDS DatabaseController, ReconcilerProofs

CatalogTypeOK ==
    /\ catalog \in [Names -> Owners \cup {Admin, Absent}]
    /\ createdBy \in [Names -> Nat]
    /\ asked \subseteq Names
    /\ drift \in 0..MaxDrift
    /\ pc \in Steps

\* The steps of a call that has stored the finalizer.
Providing == pc \in {"check", "create", "owner", "alter"}

\* Finalizing this version of the resource drops its database.
WantsDropped(v) == v.finalizer /\ v.annot.policy = "delete"

\* What the worker knows of the copy it holds at each step.
WorkerKnows ==
    /\ Providing => local.finalizer /\ ~local.deleting
    /\ pc = "drop" => local.deleting /\ WantsDropped(local)
    /\ pc = "alter" => local.spec.owner # NoOwner

\* Every version that is being deleted under policy "delete" was asked for.
DeletesAsked ==
    \A v \in Versions \cup {api} :
        v.deleting /\ v.annot.policy = "delete" => v.spec.name \in asked

\* Creations are not newer than what the cache and the worker know of.
CreationsKnown ==
    \A n \in Names :
        createdBy[n] <= cache.uid /\ (Holding => createdBy[n] <= local.uid)

\* What the worker knows of RisingWave while nobody changes it behind it.
CatalogKnown ==
    LET n == local.spec.name IN
    drift = 0 =>
        /\ pc = "removeFinalizer" /\ local.annot.policy = "delete"
             => catalog[n] = Absent
        /\ pc \in {"owner", "alter", "ready"} => catalog[n] # Absent
        /\ pc = "ready" => local.spec.owner \in {NoOwner, catalog[n]}

\* What a reconcile has created, and nobody has dropped, is there.
CreationsStay == \A n \in Names : createdBy[n] # 0 => catalog[n] # Absent

\* Once the resource is released, what any version of it still in the system
\* wants dropped has been dropped, unless others have interfered.
ReleasedIsDropped ==
    Released /\ drift = 0 =>
        \A v \in watch \cup {cache} \cup (IF Holding THEN {local} ELSE {}) :
            v.uid = api.uid /\ WantsDropped(v) =>
                createdBy[v.spec.name] # api.uid

IInv ==
    /\ KubeInv(Specs, Annotations, Statuses)
    /\ CatalogTypeOK
    /\ WorkerKnows
    /\ DeletesAsked
    /\ CreationsKnown
    /\ CreatedHasFinalizer
    /\ CatalogKnown
    /\ ReadyIsKnown
    /\ ReadyIsTruthful
    /\ CreationsStay
    /\ ReleasedIsDropped

-------------------------------------------------------------------------------
(* Every step is a step of the Kubernetes side. *)

LEMMA DatabaseStatuses == NoStatus \in Statuses /\ StatusesClosed(Statuses)
<1>1. NoStatus \in Statuses
  BY DEF NoStatus, Statuses, Reasons
<1>2. ASSUME NEW s \in Statuses,
             NEW r \in {"FailedToGetSecret", "ConnectionFailed",
                        "FailedToFinalize"}
      PROVE  LET t == WithReason(s, r) IN
             /\ t \in Statuses /\ t.reason = r
             /\ t.observedGeneration = s.observedGeneration
  BY DEF Statuses, Reasons, WithReason
<1>3. ASSUME NEW s \in Statuses, NEW g \in Nat
      PROVE  LET t == [s EXCEPT !.reason = "Completed",
                                !.observedGeneration = g] IN
             t \in Statuses /\ t.observedGeneration = g
  BY DEF Statuses, Reasons
<1>4. \A s \in Statuses : s.observedGeneration \in Nat
  BY DEF Statuses
<1>. QED  BY <1>1, <1>2, <1>3, <1>4 DEF StatusesClosed

LEMMA LocalType ==
    ASSUME IInv
    PROVE  /\ local \in Objects(Specs, Annotations, Statuses)
           /\ local.status \in Statuses /\ queued \in BOOLEAN
           /\ local.spec.name \in Names /\ local.uid \in Nat
           /\ local.spec.owner \in Owners \cup {NoOwner}
BY DEF IInv, KubeInv, KubeTypeOK, Objects, Specs

\* The statements only change the status of the worker's copy.
LEMMA StatementStep ==
    ASSUME IInv,
           \/ DropDatabase \/ CheckDatabaseExists \/ CreateDatabase
           \/ GetDatabaseOwner \/ AlterDatabaseOwner
    PROVE  /\ WorkerStep(Annotations, Statuses)
           /\ UNCHANGED <<api, watch, cache>>
           /\ Holding
           /\ pc' = "ready" => local' = local
           /\ local'.uid = local.uid /\ local'.spec = local.spec
           /\ local'.annot = local.annot /\ local'.deleting = local.deleting
           /\ local'.finalizer = local.finalizer
<1>1. /\ UNCHANGED <<api, watch, cache, edits>>
      /\ queued' \in {queued, TRUE} /\ (Fault \/ UNCHANGED faults)
  BY DEF DropDatabase, CheckDatabaseExists, CreateDatabase, GetDatabaseOwner,
         AlterDatabaseOwner, ghosts, Goto, Fail, Requeue
<1>2. /\ pc \notin {"idle", "report", "ready"} /\ (Providing \/ pc = "drop")
      /\ pc' = "removeFinalizer" => pc = "drop"
      /\ pc' = "ready" => Providing /\ local' = local
      /\ pc = "drop" => local' = local
  BY DEF DropDatabase, CheckDatabaseExists, CreateDatabase, GetDatabaseOwner,
         AlterDatabaseOwner, Goto, Fail, Requeue, Providing
<1>3. \/ local' = local /\ pc' # "report"
      \/ /\ pc' = "report"
         /\ \E r \in {"FailedToCreateDatabase", "FailedToUpdateOwner"} :
              local' = [local EXCEPT !.status.reason = r]
      \/ /\ pc' # "report"
         /\ local' = [local EXCEPT !.status.databaseCreated = TRUE]
  BY DEF DropDatabase, CheckDatabaseExists, CreateDatabase, GetDatabaseOwner,
         AlterDatabaseOwner, Goto, Fail, Requeue
<1>4. /\ pc' = "report" => local'.status.reason # "Completed"
      /\ \/ local' = local
         \/ \E s \in Statuses :
              /\ s.observedGeneration = local.status.observedGeneration
              /\ local' = [local EXCEPT !.status = s]
  <2>. DEFINE Same(s) ==
         /\ s \in Statuses
         /\ s.observedGeneration = local.status.observedGeneration
  <2>1. /\ Same([local.status EXCEPT !.databaseCreated = TRUE])
        /\ \A r \in {"FailedToCreateDatabase", "FailedToUpdateOwner"} :
             Same([local.status EXCEPT !.reason = r])
    BY LocalType DEF Statuses, Reasons
  <2>2. ASSUME NEW r \in {"FailedToCreateDatabase", "FailedToUpdateOwner"},
               local' = [local EXCEPT !.status.reason = r]
        PROVE  /\ local'.status.reason # "Completed"
               /\ \E s : Same(s) /\ local' = [local EXCEPT !.status = s]
    <3>1. local' = [local EXCEPT !.status = [local.status EXCEPT !.reason = r]]
      BY <2>2
    <3>2. local'.status.reason = r
      BY <2>2, LocalType DEF Objects, Statuses
    <3>. QED  BY <2>1, <3>1, <3>2
  <2>3. CASE /\ pc' # "report"
             /\ local' = [local EXCEPT !.status.databaseCreated = TRUE]
    <3>1. local' = [local EXCEPT !.status =
                      [local.status EXCEPT !.databaseCreated = TRUE]]
      BY <2>3
    <3>. QED  BY <2>1, <2>3, <3>1
  <2>4. CASE local' = local /\ pc' # "report"
    BY <2>4
  <2>. QED  BY <1>3, <2>2, <2>3, <2>4
<1>5. Works(Statuses)
  <2>1. pc' = "removeFinalizer" => local.deleting
    BY <1>2 DEF IInv, WorkerKnows
  <2>2. pc' = "ready" => ~local.deleting
    BY <1>2 DEF IInv, WorkerKnows
  <2>3. local' = local \/ ~local.deleting
    BY <1>2 DEF IInv, WorkerKnows
  <2>. QED  BY <1>1, <1>2, <1>4, <2>1, <2>2, <2>3 DEF Works, Holding
<1>6. /\ local'.uid = local.uid /\ local'.spec = local.spec
      /\ local'.annot = local.annot /\ local'.deleting = local.deleting
      /\ local'.finalizer = local.finalizer
  BY <1>4, LocalType DEF Objects
<1>7. WorkerStep(Annotations, Statuses)
  BY <1>1, <1>5, LocalType DEF WorkerStep
<1>. QED  BY <1>1, <1>2, <1>6, <1>7 DEF Holding

LEMMA ReconcileStep ==
    ASSUME IInv, Reconcile
    PROVE  WorkerStep(Annotations, Statuses)
<1>0. KubeInv(Specs, Annotations, Statuses) /\ StatusesClosed(Statuses)
  BY DatabaseStatuses DEF IInv
<1>1. CASE Fetch
  BY <1>0, <1>1, FetchStep DEF Fetch
<1>2. CASE resolveAdminCredentials \/ Connect
  BY <1>0, <1>2, ConnectStep DEF resolveAdminCredentials, Connect
<1>3. CASE AddFinalizer
  <2>1. StoreFinalizer("check")
    BY <1>3 DEF AddFinalizer
  <2>2. "check" \notin {"removeFinalizer", "report", "ready"}
    OBVIOUS
  <2>. QED  BY <1>0, <2>1, <2>2, FinalizerStep
<1>4. CASE Finalize
  <2>. DEFINE drops == local.annot.policy = "delete"
  <2>1. ChooseFinalization(drops)
    BY <1>4 DEF Finalize
  <2>2. "check" \notin {"removeFinalizer", "report", "ready"}
    OBVIOUS
  <2>. QED  BY <1>0, <2>1, <2>2, FinalizerStep
<1>5. CASE removeFinalizer
  <2>1. ReleaseFinalizer
    BY <1>5 DEF removeFinalizer
  <2>2. "check" \notin {"removeFinalizer", "report", "ready"}
    OBVIOUS
  <2>. QED  BY <1>0, <2>1, <2>2, FinalizerStep
<1>6. CASE OnFailure \/ ReportFailure \/ ReportReady
  BY <1>0, <1>6, ReportStep DEF OnFailure, ReportFailure, ReportReady
<1>. QED
  BY <1>1, <1>2, <1>3, <1>4, <1>5, <1>6, StatementStep DEF Reconcile

LEMMA StepKube ==
    ASSUME IInv, [Next]_vars
    PROVE  /\ KubeStep(Specs, Annotations, Statuses)
           /\ KubeInv(Specs, Annotations, Statuses)'
<1>1. KubeStep(Specs, Annotations, Statuses)
  <2>1. CASE Reconcile
    BY <2>1, ReconcileStep DEF KubeStep
  <2>2. CASE UserWrite
    <3>1. /\ NoStatus \in Statuses /\ pc' = pc
          /\ NoStatus.observedGeneration = 0 /\ NoStatus.reason # "Completed"
      BY <2>2, DatabaseStatuses DEF UserWrite, NoStatus
    <3>. QED  BY <2>2, <3>1 DEF UserWrite, UserStep, KubeStep
  <2>3. CASE Deliveries
    BY <2>3 DEF Deliveries, OtherStep, KubeStep
  <2>4. CASE Crash
    BY <2>4 DEF Crash, OtherStep, KubeStep
  <2>5. CASE Drift
    BY <2>5 DEF Drift, kubeVars, OtherStep, KubeStep
  <2>6. CASE UNCHANGED vars
    BY <2>6 DEF vars, kubeVars, OtherStep, KubeStep
  <2>. QED  BY <2>1, <2>2, <2>3, <2>4, <2>5, <2>6 DEF Next
<1>. QED  BY <1>1, KubeStepInv, DatabaseStatuses DEF IInv

-------------------------------------------------------------------------------
(* RisingWave. *)

\* What the three statements that change databases do, and others may.
LEMMA CatalogStep ==
    ASSUME IInv, [Next]_vars
    PROVE  LET n == local.spec.name IN
           \/ UNCHANGED <<catalog, createdBy, drift>>
           \/ /\ pc = "drop" /\ UNCHANGED drift
              /\ catalog' = [catalog EXCEPT ![n] = Absent]
              /\ createdBy' = [createdBy EXCEPT ![n] = 0]
           \/ /\ pc = "create" /\ UNCHANGED drift /\ catalog[n] = Absent
              /\ catalog' = [catalog EXCEPT ![n] = Admin]
              /\ createdBy' = [createdBy EXCEPT ![n] = local.uid]
           \/ /\ pc = "alter" /\ UNCHANGED <<drift, createdBy>>
              /\ catalog[n] # Absent /\ local.spec.owner \in Owners
              /\ catalog' = [catalog EXCEPT ![n] = local.spec.owner]
           \/ Drift
<1>1. CASE DropDatabase
  BY <1>1 DEF DropDatabase
<1>2. CASE CreateDatabase
  BY <1>2 DEF CreateDatabase
<1>3. CASE AlterDatabaseOwner
  <2>1. local.spec.owner \in Owners
    BY <1>3, LocalType DEF AlterDatabaseOwner, IInv, WorkerKnows
  <2>. QED  BY <1>3, <2>1 DEF AlterDatabaseOwner, ghosts
<1>4. CASE ~(DropDatabase \/ CreateDatabase \/ AlterDatabaseOwner \/ Drift)
  BY <1>4
     DEF Next, Reconcile, Fetch, resolveAdminCredentials, Connect,
         AddFinalizer, Finalize, OnFailure, removeFinalizer,
         CheckDatabaseExists, GetDatabaseOwner, ReportFailure, ReportReady,
         Deliveries, UserWrite, Crash, vars, ghosts
<1>. QED  BY <1>1, <1>2, <1>3, <1>4

LEMMA StepCatalogType ==
    ASSUME IInv, [Next]_vars
    PROVE  CatalogTypeOK'
<1>1. /\ catalog' \in [Names -> Owners \cup {Admin, Absent}]
      /\ createdBy' \in [Names -> Nat] /\ drift' \in 0..MaxDrift
  <2>1. CASE Drift
    <3>1. /\ catalog' \in [Names -> Owners \cup {Admin, Absent}]
          /\ createdBy' \in [Names -> Nat]
      BY <2>1 DEF Drift, IInv, CatalogTypeOK
    <3>2. drift' \in 0..MaxDrift
      BY <2>1, OwnersAssumption DEF Drift, IInv, CatalogTypeOK
    <3>. QED  BY <3>1, <3>2
  <2>2. CASE ~Drift
    BY <2>2, CatalogStep, LocalType DEF IInv, CatalogTypeOK
  <2>. QED  BY <2>1, <2>2
<1>2. asked' \subseteq Names
  <2>1. api'.spec.name \in Names
    BY StepKube DEF KubeInv, KubeTypeOK, Objects, Specs
  <2>2. asked' \in {asked, asked \cup {api'.spec.name}}
    BY DEF Next, Reconcile, Fetch, resolveAdminCredentials, Connect,
           AddFinalizer, Finalize, DropDatabase, OnFailure, removeFinalizer,
           CheckDatabaseExists, CreateDatabase, GetDatabaseOwner,
           AlterDatabaseOwner, ReportFailure, ReportReady, Deliveries,
           UserWrite, Crash, Drift, vars, ghosts
  <2>. QED  BY <2>1, <2>2 DEF IInv, CatalogTypeOK
<1>3. pc' = pc \/ pc' \in Steps
  BY DEF Next, Reconcile, Fetch, resolveAdminCredentials, Connect,
         AddFinalizer, Finalize, DropDatabase, OnFailure, removeFinalizer,
         CheckDatabaseExists, CreateDatabase, GetDatabaseOwner,
         AlterDatabaseOwner, ReportFailure, ReportReady, Deliveries,
         UserWrite, Crash, Drift, vars, Steps, FetchResource,
         ResolveCredentials, GetConnection, Attempt, StoreFinalizer,
         ChooseFinalization, ReleaseFinalizer, ReportFinalization,
         WriteFailure, WriteReady, Goto, Done, Requeue, Fail
<1>. QED  BY <1>1, <1>2, <1>3 DEF IInv, CatalogTypeOK

\* Foreign changes are counted.
LEMMA DriftGrows ==
    ASSUME IInv, [Next]_vars, drift' = 0
    PROVE  drift = 0 /\ ~Drift
<1>1. drift \in Nat
  BY DEF IInv, CatalogTypeOK
<1>2. ~Drift
  BY <1>1 DEF Drift
<1>. QED  BY <1>2, CatalogStep

\* Storing the finalizer leaves the worker with a copy that has it.
LEMMA AddFinalizerKnows ==
    ASSUME IInv, AddFinalizer, pc' = "check"
    PROVE  local'.finalizer /\ ~local'.deleting
<1>1. Holding' /\ pc' # "creds" /\ ~local.deleting
  BY DEF AddFinalizer, StoreFinalizer, Holding
<1>2. /\ local'.deleting = local.deleting
      /\ local'.finalizer = local.finalizer \/ (local' = api' /\ api'.finalizer)
  BY <1>1, StepKube, HeldCopy DEF Next, Reconcile, IInv
<1>3. CASE local.finalizer
  BY <1>1, <1>2, <1>3
<1>4. CASE local' = api' /\ Write([api EXCEPT !.finalizer = TRUE])
  <2>. DEFINE o == [api EXCEPT !.finalizer = TRUE]
  <2>1. o \in Objects(Specs, Annotations, Statuses) /\ o.finalizer
    BY DEF IInv, KubeInv, KubeTypeOK, Objects
  <2>2. Write(o)
    BY <1>4
  <2>. HIDE DEF o
  <2>. QED  BY <1>1, <1>2, <1>4, <2>1, <2>2, WriteEffect DEF SameVersion
<1>. QED  BY <1>3, <1>4 DEF AddFinalizer, StoreFinalizer, Requeue

\* Steps that leave the worker where it is.
LEMMA AsideStep ==
    ASSUME IInv, [Next]_vars, ~Reconcile, ~Crash
    PROVE  UNCHANGED <<local, pc>> /\ (Drift \/ UNCHANGED catalog)
BY DEF Next, Deliveries, Deliver, UserWrite, Create, EditSpec, Annotate,
       Delete, Release, Drift, vars, kubeVars, ghosts

LEMMA StepKnows ==
    ASSUME IInv, [Next]_vars
    PROVE  WorkerKnows'
<1>1. CASE \/ DropDatabase \/ CheckDatabaseExists \/ CreateDatabase
           \/ GetDatabaseOwner \/ AlterDatabaseOwner
  <2>1. /\ local'.uid = local.uid /\ local'.spec = local.spec
        /\ local'.annot = local.annot /\ local'.deleting = local.deleting
        /\ local'.finalizer = local.finalizer
    BY <1>1, StatementStep
  <2>2. /\ Providing' => Providing
        /\ pc' # "drop"
        /\ pc' = "alter" => local.spec.owner # NoOwner
    BY <1>1
       DEF DropDatabase, CheckDatabaseExists, CreateDatabase,
           GetDatabaseOwner, AlterDatabaseOwner, Goto, Fail, Requeue, Providing
  <2>. QED  BY <2>1, <2>2 DEF IInv, WorkerKnows
<1>2. CASE AddFinalizer
  <2>1. pc' \in {"check", "idle"}
    BY <1>2 DEF AddFinalizer, StoreFinalizer, Goto, Requeue
  <2>. QED  BY <1>2, <2>1, AddFinalizerKnows DEF WorkerKnows, Providing
<1>3. CASE Finalize
  BY <1>3 DEF Finalize, ChooseFinalization, Goto, Done, WorkerKnows, Providing,
              WantsDropped
<1>4. CASE \/ Fetch \/ resolveAdminCredentials \/ Connect \/ OnFailure
           \/ removeFinalizer \/ ReportFailure \/ ReportReady \/ Crash
  <2>1. pc' \in {"idle", "creds", "connect", "finalizer", "report"}
    BY <1>4
       DEF Fetch, resolveAdminCredentials, Connect, OnFailure,
           removeFinalizer, ReportFailure, ReportReady, Crash, FetchResource,
           ResolveCredentials, GetConnection, Attempt, ReleaseFinalizer,
           ReportFinalization, WriteFailure, WriteReady, Goto, Done, Requeue,
           Fail
  <2>. QED  BY <2>1 DEF WorkerKnows, Providing
<1>5. CASE ~Reconcile /\ ~Crash
  BY <1>5, AsideStep DEF IInv, WorkerKnows, Providing, WantsDropped
<1>. QED  BY <1>1, <1>2, <1>3, <1>4, <1>5 DEF Reconcile

\* The database reconciler patches nothing.
LEMMA NothingPatched ==
    ASSUME IInv, [Next]_vars, Patches(Annotations, Statuses)
    PROVE  UNCHANGED <<api, local>>
<1>1. pc' = "ready" /\ Holding
  BY DEF Patches
<1>2. CASE \/ DropDatabase \/ CheckDatabaseExists \/ CreateDatabase
           \/ GetDatabaseOwner \/ AlterDatabaseOwner
  BY <1>1, <1>2, StatementStep
<1>3. CASE AddFinalizer
  BY <1>1, <1>3 DEF AddFinalizer, StoreFinalizer, Goto, Requeue
<1>4. CASE \/ Fetch \/ resolveAdminCredentials \/ Connect \/ Finalize
           \/ OnFailure \/ removeFinalizer \/ ReportFailure \/ ReportReady
           \/ Crash
  BY <1>1, <1>4
     DEF Fetch, resolveAdminCredentials, Connect, Finalize, OnFailure,
         removeFinalizer, ReportFailure, ReportReady, Crash, FetchResource,
         ResolveCredentials, GetConnection, Attempt, ChooseFinalization,
         ReportFinalization, ReleaseFinalizer, WriteFailure, WriteReady, Goto,
         Done, Requeue, Fail
<1>5. CASE ~Reconcile /\ ~Crash
  BY <1>1, <1>5, AsideStep DEF Holding
<1>. QED  BY <1>2, <1>3, <1>4, <1>5 DEF Reconcile

\* Only a user decides that a resource is deleted and with which policy.
LEMMA StepDeletesAsked ==
    ASSUME IInv, [Next]_vars
    PROVE  DeletesAsked'
<1>. DEFINE Asked(v) ==
         v.deleting /\ v.annot.policy = "delete" => v.spec.name \in asked'
<1>. SUFFICES ASSUME NEW v \in Versions' \cup {api'} PROVE Asked(v)
  BY DEF DeletesAsked
<1>0. /\ KubeInv(Specs, Annotations, Statuses)
      /\ KubeStep(Specs, Annotations, Statuses)
  BY StepKube DEF IInv
<1>1. asked \subseteq asked'
  BY DEF Next, Reconcile, Fetch, resolveAdminCredentials, Connect,
         AddFinalizer, Finalize, DropDatabase, OnFailure, removeFinalizer,
         CheckDatabaseExists, CreateDatabase, GetDatabaseOwner,
         AlterDatabaseOwner, ReportFailure, ReportReady, Deliveries,
         UserWrite, Crash, Drift, vars, ghosts
<1>2. \A w \in Versions \cup {api} : Asked(w)
  BY <1>1 DEF IInv, DeletesAsked
<1>3. Asked(api')
  <2>1. CASE Reconcile
    <3>1. WorkerStep(Annotations, Statuses)
      BY <2>1, ReconcileStep
    <3>2. /\ api'.annot = api.annot /\ api'.deleting = api.deleting
          /\ api'.spec = api.spec
      BY <1>0, <3>1, WorkerStepEffect, NothingPatched
    <3>. QED  BY <1>2, <3>2
  <2>2. CASE UserWrite
    BY <2>2 DEF UserWrite
  <2>3. CASE ~Reconcile /\ ~UserWrite
    <3>1. api' = api
      BY <2>3 DEF Next, Deliveries, Deliver, Crash, Relist, Drift, vars,
                  kubeVars
    <3>. QED  BY <1>2, <3>1
  <2>. QED  BY <2>1, <2>2, <2>3
<1>4. Asked(local')
  BY <1>0, <1>2, <1>3, NextCopy DEF Versions
<1>5. v \in watch \cup {cache, api, api', local'}
  BY <1>0, WatchMovesOn, CacheMovesOn DEF Versions
<1>. QED  BY <1>2, <1>3, <1>4, <1>5 DEF Versions

\* An entry stays, is cleared, or is the worker's own.
LEMMA CreationsGrow ==
    ASSUME IInv, [Next]_vars, NEW n \in Names
    PROVE  \/ createdBy'[n] = createdBy[n]
           \/ createdBy'[n] = 0
           \/ pc = "create" /\ createdBy'[n] = local.uid
<1>1. CASE Drift
  BY <1>1 DEF Drift, IInv, CatalogTypeOK
<1>2. CASE ~Drift
  BY <1>2, CatalogStep, LocalType DEF IInv, CatalogTypeOK
<1>. QED  BY <1>1, <1>2

LEMMA StepCreationsKnown ==
    ASSUME IInv, [Next]_vars
    PROVE  CreationsKnown'
<1>. SUFFICES ASSUME NEW n \in Names
              PROVE  /\ createdBy'[n] <= cache'.uid
                     /\ Holding' => createdBy'[n] <= local'.uid
  BY DEF CreationsKnown
<1>1. /\ cache'.uid \in Nat /\ local'.uid \in Nat /\ createdBy[n] \in Nat
      /\ local.uid \in Nat
  BY StepKube DEF IInv, KubeInv, KubeTypeOK, Objects, CatalogTypeOK
<1>2. CASE createdBy'[n] = createdBy[n]
  BY <1>1, <1>2, StepKube, KnownStays DEF IInv, CreationsKnown
<1>3. CASE createdBy'[n] = 0
  BY <1>1, <1>3
<1>4. CASE pc = "create" /\ createdBy'[n] = local.uid
  <2>1. Holding /\ local.uid <= cache.uid
    BY <1>4 DEF Holding, IInv, KubeInv, WorkerBehind
  <2>. QED  BY <1>1, <1>4, <2>1, StepKube, KnownStays DEF IInv
<1>. QED  BY <1>2, <1>3, <1>4, CreationsGrow

LEMMA StepCreatedHasFinalizer ==
    ASSUME IInv, [Next]_vars
    PROVE  CreatedHasFinalizer'
<1>. SUFFICES ASSUME NEW n \in Names, createdBy'[n] # 0,
                     createdBy'[n] = api'.uid
              PROVE  ~api'.exists \/ api'.deleting \/ api'.finalizer
  BY DEF CreatedHasFinalizer
<1>. DEFINE u == createdBy'[n]
<1>1. /\ api.uid \in Nat /\ cache.uid \in Nat /\ local.uid \in Nat
      /\ createdBy[n] \in Nat
      /\ cache.uid <= api.uid /\ local.uid <= api.uid
  BY DEF IInv, KubeInv, KubeTypeOK, Objects, CatalogTypeOK, VersionsInOrder,
         Versions, Precedes
<1>2. CASE u = createdBy[n]
  <2>1. u <= api.uid /\ u \in Nat
    BY <1>1, <1>2 DEF IInv, CreationsKnown
  <2>2. u = api.uid => ~api.exists \/ api.deleting \/ api.finalizer
    BY <1>2 DEF IInv, CreatedHasFinalizer
  <2>. HIDE DEF u
  <2>3. u = api'.uid
    BY DEF u
  <2>. QED  BY <2>1, <2>2, <2>3, StepKube, GuardStays DEF IInv
<1>3. CASE pc = "create" /\ u = local.uid
  <2>1. u <= api.uid /\ u \in Nat
    BY <1>1, <1>3
  <2>2. u = api.uid => ~api.exists \/ api.deleting \/ api.finalizer
    BY <1>3, HeldMeansGuarded DEF IInv, WorkerKnows, Providing, Holding
  <2>. HIDE DEF u
  <2>3. u = api'.uid
    BY DEF u
  <2>. QED  BY <2>1, <2>2, <2>3, StepKube, GuardStays DEF IInv
<1>. QED  BY <1>2, <1>3, CreationsGrow

LEMMA StepCatalogKnown ==
    ASSUME IInv, [Next]_vars
    PROVE  CatalogKnown'
<1>. DEFINE n == local.spec.name
<1>. SUFFICES ASSUME drift' = 0,
                     pc' \in {"removeFinalizer", "owner", "alter", "ready"}
              PROVE  /\ pc' = "removeFinalizer" /\ local'.annot.policy = "delete"
                          => catalog'[n'] = Absent
                     /\ pc' # "removeFinalizer" => catalog'[n'] # Absent
                     /\ pc' = "ready"
                          => local'.spec.owner \in {NoOwner, catalog'[n']}
  BY DEF CatalogKnown
<1>1. drift = 0 /\ ~Drift
  BY DriftGrows
<1>2. /\ n \in Names /\ catalog \in [Names -> Owners \cup {Admin, Absent}]
      /\ Absent \notin Owners \cup {Admin}
  BY LocalType, OwnersAssumption DEF IInv, CatalogTypeOK
<1>3. CASE DropDatabase
  <2>1. /\ pc' = "removeFinalizer" /\ local' = local
        /\ catalog' = [catalog EXCEPT ![n] = Absent]
    BY <1>3 DEF DropDatabase, Goto
  <2>. QED  BY <1>2, <2>1
<1>4. CASE CheckDatabaseExists \/ CreateDatabase
  <2>1. local'.spec = local.spec
    BY <1>4, StatementStep
  <2>2. pc' = "owner" /\ catalog'[n] # Absent
    BY <1>2, <1>4 DEF CheckDatabaseExists, CreateDatabase, Goto, Fail, Requeue
  <2>. QED  BY <2>1, <2>2
<1>5. CASE GetDatabaseOwner
  <2>1. /\ local' = local /\ catalog' = catalog /\ catalog[n] # Absent
        /\ pc' \in {"alter", "ready"}
        /\ pc' = "ready" => local.spec.owner \in {NoOwner, catalog[n]}
    BY <1>1, <1>5 DEF GetDatabaseOwner, Goto, Fail, IInv, CatalogKnown
  <2>. QED  BY <2>1
<1>6. CASE AlterDatabaseOwner
  <2>1. /\ local' = local /\ pc' = "ready"
        /\ catalog' = [catalog EXCEPT ![n] = local.spec.owner]
    BY <1>6 DEF AlterDatabaseOwner, Goto, Fail
  <2>2. local.spec.owner \in Owners
    BY <1>6, LocalType DEF AlterDatabaseOwner, IInv, WorkerKnows
  <2>. QED  BY <1>2, <2>1, <2>2
<1>7. CASE Finalize
  BY <1>7 DEF Finalize, ChooseFinalization, Goto, Done
<1>8. CASE \/ Fetch \/ resolveAdminCredentials \/ Connect \/ AddFinalizer
           \/ OnFailure \/ removeFinalizer \/ ReportFailure \/ ReportReady
           \/ Crash
  BY <1>8
     DEF Fetch, resolveAdminCredentials, Connect, AddFinalizer, OnFailure,
         removeFinalizer, ReportFailure, ReportReady, Crash, FetchResource,
         ResolveCredentials, GetConnection, Attempt, StoreFinalizer,
         ReportFinalization, ReleaseFinalizer, WriteFailure, WriteReady, Goto,
         Done, Requeue, Fail
<1>9. CASE ~Reconcile /\ ~Crash
  BY <1>1, <1>9, AsideStep DEF IInv, CatalogKnown
<1>. QED  BY <1>3, <1>4, <1>5, <1>6, <1>7, <1>8, <1>9 DEF Reconcile

-------------------------------------------------------------------------------
(* Ready. *)

LEMMA StepReadyIsKnown ==
    ASSUME IInv, [Next]_vars
    PROVE  ReadyIsKnown'
<1>1. Patches(Annotations, Statuses) => local' = local
  BY NothingPatched
<1>. QED  BY <1>1, StepKube, DatabaseStatuses, KubeStepReady DEF IInv

LEMMA StepReadyIsTruthful ==
    ASSUME IInv, [Next]_vars
    PROVE  ReadyIsTruthful'
<1>. SUFFICES ASSUME Ready', drift' = 0
              PROVE  AsSpecified'
  BY DEF ReadyIsTruthful
<1>0. /\ KubeInv(Specs, Annotations, Statuses)
      /\ KubeStep(Specs, Annotations, Statuses)
      /\ StatusesClosed(Statuses) /\ drift = 0 /\ ~Drift
  BY StepKube, DatabaseStatuses, DriftGrows DEF IInv
<1>1. /\ Ready \/ (Reports(Statuses) /\ pc = "ready")
      /\ api'.spec = api.spec
  BY <1>0, ReadyAppears
<1>2. CASE Reports(Statuses) /\ pc = "ready"
  <2>1. local.spec = api.spec
    BY <1>0, <1>2, ReportsEffect DEF SameVersion
  <2>2. catalog' = catalog
    BY <1>0, <1>2, CatalogStep
  <2>. QED
    BY <1>0, <1>1, <1>2, <2>1, <2>2 DEF IInv, CatalogKnown, AsSpecified
<1>3. CASE Ready
  <2>1. AsSpecified
    BY <1>0, <1>3 DEF IInv, ReadyIsTruthful
  <2>2. pc # "idle" => local.spec = api.spec /\ ~local.deleting
    BY <1>0, <1>3, ReadyMeansCurrent DEF IInv
  <2>3. pc # "drop" /\ (pc = "create" => catalog[local.spec.name] # Absent)
    BY <2>1, <2>2 DEF IInv, WorkerKnows, AsSpecified
  <2>4. CASE catalog' = catalog
    BY <1>1, <2>1, <2>4 DEF AsSpecified
  <2>5. CASE /\ pc = "alter" /\ local.spec.owner \in Owners
             /\ catalog' = [catalog EXCEPT ![local.spec.name] = local.spec.owner]
    <3>1. local.spec = api.spec /\ Absent \notin Owners
      BY <2>2, <2>5, OwnersAssumption
    <3>2. catalog'[api.spec.name] = api.spec.owner
      BY <2>5, <3>1, LocalType DEF IInv, CatalogTypeOK
    <3>. QED  BY <1>1, <2>5, <3>1, <3>2 DEF AsSpecified
  <2>. QED  BY <1>0, <2>3, <2>4, <2>5, CatalogStep
<1>. QED  BY <1>1, <1>2, <1>3

-------------------------------------------------------------------------------
(* What is dropped when. *)

LEMMA StepCreationsStay ==
    ASSUME IInv, [Next]_vars
    PROVE  CreationsStay'
<1>. SUFFICES ASSUME NEW n \in Names, createdBy'[n] # 0
              PROVE  catalog'[n] # Absent
  BY DEF CreationsStay
<1>1. createdBy[n] # 0 => catalog[n] # Absent
  BY DEF IInv, CreationsStay
<1>2. Absent \notin Owners \cup {Admin}
  BY OwnersAssumption
<1>3. CASE Drift
  BY <1>1, <1>3 DEF Drift, IInv, CatalogTypeOK
<1>4. CASE ~Drift
  BY <1>1, <1>2, <1>4, CatalogStep, LocalType DEF IInv, CatalogTypeOK
<1>. QED  BY <1>3, <1>4

\* A worker that creates does so for a life that is not over, unless that
\* life is not the stored one.
LEMMA NotReleased ==
    ASSUME IInv, pc = "create", local.uid = api.uid
    PROVE  ~Released
<1>1. Holding /\ local.finalizer /\ ~local.deleting
  BY DEF Holding, IInv, WorkerKnows, Providing
<1>. QED  BY <1>1, HeldMeansGuarded DEF IInv, Released

\* Statements change nothing about the stored resource.
LEMMA StatementsAside ==
    ASSUME IInv, [Next]_vars
    PROVE  UNCHANGED <<createdBy, drift>> \/ api' = api
BY DEF Next, Reconcile, Fetch, resolveAdminCredentials, Connect,
       AddFinalizer, Finalize, DropDatabase, OnFailure, removeFinalizer,
       CheckDatabaseExists, CreateDatabase, GetDatabaseOwner,
       AlterDatabaseOwner, ReportFailure, ReportReady, Deliveries, UserWrite,
       Crash, Drift, vars, kubeVars, ghosts

LEMMA StepReleasedIsDropped ==
    ASSUME IInv, [Next]_vars
    PROVE  ReleasedIsDropped'
<1>. SUFFICES ASSUME Released', drift' = 0,
                     NEW v \in watch' \cup {cache'}
                               \cup (IF Holding' THEN {local'} ELSE {}),
                     v.uid = api'.uid, WantsDropped(v)
              PROVE  createdBy'[v.spec.name] # api'.uid
  BY DEF ReleasedIsDropped, Released, WantsDropped
<1>. DEFINE n == v.spec.name
<1>0. /\ KubeInv(Specs, Annotations, Statuses)
      /\ KubeInv(Specs, Annotations, Statuses)'
      /\ KubeStep(Specs, Annotations, Statuses)
      /\ drift = 0 /\ v.finalizer
  BY StepKube, DriftGrows DEF IInv, WantsDropped
<1>1. /\ api'.uid = api.uid /\ ~api'.finalizer
      /\ \/ Released
         \/ Releases /\ WorkerStep(Annotations, Statuses)
         \/ Retired /\ ~api.finalizer
              /\ UserStep(Specs, Annotations, Statuses)
  BY <1>0, ReleasedAppears DEF Released
<1>2. v \in watch \cup {cache, api} \/ (Holding' /\ v = local')
  BY <1>0, <1>1, WatchMovesOn, CacheMovesOn
<1>3. n \in Names
  <2>1. v \in Objects(Specs, Annotations, Statuses)
    BY <1>0 DEF KubeInv, KubeTypeOK
  <2>. QED  BY <2>1 DEF Objects, Specs
<1>4. api.exists /\ api.uid # 0
  <2>1. api.exists
    BY <1>0, <1>1, EverybodyKnows DEF Released, Releases, Retired
  <2>. QED  BY <1>0, <2>1 DEF KubeInv, UidGiven
<1>5. createdBy[n] # api.uid
  <2>1. CASE Released
    <3>1. CASE v \in watch \cup {cache, api}
      BY <1>0, <1>1, <2>1, <3>1 DEF IInv, ReleasedIsDropped, Released
    <3>2. CASE Holding' /\ v = local'
      <4>1. CASE local' = cache
        BY <1>0, <1>1, <2>1, <3>2, <4>1 DEF IInv, ReleasedIsDropped, Released
      <4>2. CASE /\ Holding
                 /\ local'.uid = local.uid
                 /\ local'.finalizer = local.finalizer
                 /\ local'.spec = local.spec /\ local'.annot = local.annot
        BY <1>0, <1>1, <2>1, <3>2, <4>2
           DEF IInv, ReleasedIsDropped, Released, WantsDropped
      <4>. QED  BY <1>0, <1>1, <3>2, <4>1, <4>2, HeldCopy
    <3>. QED  BY <1>2, <3>1, <3>2
  <2>2. CASE Releases /\ WorkerStep(Annotations, Statuses)
    <3>1. pc = "removeFinalizer" /\ Current /\ ~Holding'
      BY <2>2 DEF Releases, Holding
    <3>2. \A w \in Versions : SameVersion(w, api)
      BY <1>0, <3>1, EverybodyKnows
    <3>3. SameVersion(v, local)
      BY <1>2, <3>1, <3>2 DEF Versions, SameVersion
    <3>4. catalog[n] = Absent
      BY <1>0, <3>1, <3>3 DEF IInv, CatalogKnown, SameVersion, WantsDropped
    <3>. QED  BY <1>3, <1>4, <3>4 DEF IInv, CreationsStay
  <2>3. CASE Retired /\ ~api.finalizer
               /\ UserStep(Specs, Annotations, Statuses)
    <3>1. api.exists /\ ~api.deleting /\ ~api.finalizer
      BY <2>3 DEF Retired
    <3>2. \A m \in Names : createdBy[m] # 0 => createdBy[m] # api.uid
      BY <3>1 DEF IInv, CreatedHasFinalizer
    <3>. QED  BY <1>3, <1>4, <3>2
  <2>. QED  BY <1>1, <2>1, <2>2, <2>3
<1>6. ~(pc = "create" /\ createdBy'[n] = local.uid /\ local.uid = api.uid)
      \/ UNCHANGED createdBy
  <2>1. CASE Released
    BY <2>1, NotReleased
  <2>2. CASE Releases
    BY <2>2 DEF Releases
  <2>3. CASE UserStep(Specs, Annotations, Statuses) /\ Retired
    <3>1. api' # api
      BY <2>3 DEF Retired
    <3>. QED  BY <3>1, StatementsAside
  <2>. QED  BY <1>1, <2>1, <2>2, <2>3
<1>. QED  BY <1>1, <1>3, <1>4, <1>5, <1>6, CreationsGrow

-------------------------------------------------------------------------------
(* The inductive invariant. *)

LEMMA InitInvariant == Init => IInv
<1>. SUFFICES ASSUME Init PROVE IInv
  OBVIOUS
<1>1. PICK s \in Specs :
        api = [exists |-> FALSE, rv |-> 0, uid |-> 0, gen |-> 0, spec |-> s,
               annot |-> [policy |-> "none", paused |-> FALSE],
               deleting |-> FALSE, finalizer |-> FALSE, held |-> FALSE,
               status |-> NoStatus]
  BY DEF Init
<1>2. api \in Objects(Specs, Annotations, Statuses) /\ ~api.exists
      /\ ~api.finalizer /\ api.uid = 0 /\ api.status.observedGeneration = 0
  <2>1. /\ NoStatus \in Statuses
        /\ [policy |-> "none", paused |-> FALSE] \in Annotations
    BY DatabaseStatuses DEF Annotations, Policies
  <2>. QED  BY <1>1, <2>1 DEF Objects, NoStatus
<1>3. KubeInv(Specs, Annotations, Statuses)
  BY <1>2, KubeInitInv DEF Init
<1>4. CatalogTypeOK
  <2>1. drift \in 0..MaxDrift
    BY OwnersAssumption DEF Init
  <2>2. /\ catalog \in [Names -> Owners \cup {Admin, Absent}]
        /\ createdBy \in [Names -> Nat] /\ asked \subseteq Names /\ pc \in Steps
    BY DEF Init, Steps
  <2>. QED  BY <2>1, <2>2 DEF CatalogTypeOK
<1>5. CreationsKnown /\ CreatedHasFinalizer /\ CreationsStay
  BY <1>2, <1>3
     DEF Init, CreationsKnown, CreatedHasFinalizer, CreationsStay, KubeInv,
         KubeTypeOK, Objects
<1>6. DeletesAsked
  <2>1. Versions \cup {api} = {api}
    BY DEF Init, Versions
  <2>. QED  BY <1>1, <2>1 DEF DeletesAsked
<1>7. WorkerKnows /\ CatalogKnown /\ ReleasedIsDropped
  BY <1>2 DEF Init, WorkerKnows, Providing, CatalogKnown, ReleasedIsDropped,
              Released
<1>8. ReadyIsKnown /\ ReadyIsTruthful
  BY <1>2 DEF Init, ReadyIsKnown, ReadyIsTruthful, Ready
<1>. QED  BY <1>3, <1>4, <1>5, <1>6, <1>7, <1>8 DEF IInv

LEMMA StepInvariant == IInv /\ [Next]_vars => IInv'
<1>. SUFFICES ASSUME IInv, [Next]_vars PROVE IInv'
  OBVIOUS
<1>1. KubeInv(Specs, Annotations, Statuses)' /\ CatalogTypeOK'
  BY StepKube, StepCatalogType
<1>2. WorkerKnows' /\ DeletesAsked' /\ CatalogKnown'
  BY StepKnows, StepDeletesAsked, StepCatalogKnown
<1>3. CreationsKnown' /\ CreatedHasFinalizer' /\ CreationsStay'
  BY StepCreationsKnown, StepCreatedHasFinalizer, StepCreationsStay
<1>4. ReadyIsKnown' /\ ReadyIsTruthful' /\ ReleasedIsDropped'
  BY StepReadyIsKnown, StepReadyIsTruthful, StepReleasedIsDropped
<1>. QED  BY <1>1, <1>2, <1>3, <1>4 DEF IInv

LEMMA Invariant == Spec => []IInv
BY InitInvariant, StepInvariant, PTL DEF Spec

-------------------------------------------------------------------------------
(* The theorems. *)

\* Every variable keeps its type, for all budgets and all sets of names.
THEOREM TypeCorrect == Spec => []TypeOK
<1>1. IInv => TypeOK
  BY DEF IInv, KubeInv, KubeTypeOK, CatalogTypeOK, TypeOK, Object
<1>. QED  BY <1>1, Invariant, PTL

\* A database that a Reconcile call created is covered by a stored finalizer:
\* AddFinalizer comes before CREATE DATABASE, and no later or stale write
\* takes the finalizer away before deletion.
THEOREM CreatedIsFinalized == Spec => []CreatedHasFinalizer
<1>1. IInv => CreatedHasFinalizer
  BY DEF IInv
<1>. QED  BY <1>1, Invariant, PTL

\* Phase Ready with the current generation observed tells the truth about
\* RisingWave, although the status is written several steps after the
\* statements and from a copy that may be stale.
THEOREM ReadyTellsTheTruth == Spec => []ReadyIsTruthful
<1>1. IInv => ReadyIsTruthful
  BY DEF IInv
<1>. QED  BY <1>1, Invariant, PTL

\* Among the steps that are not drift only the finalization removes a
\* database, and only the one its copy of the resource names.
LEMMA OnlyFinalizationDrops ==
    ASSUME IInv, [Next]_vars, NEW n \in Names,
           catalog[n] # Absent, catalog'[n] = Absent, drift' = drift
    PROVE  pc = "drop" /\ n = local.spec.name
<1>1. ~Drift
  BY DEF Drift, IInv, CatalogTypeOK
<1>2. Absent \notin Owners \cup {Admin}
  BY OwnersAssumption
<1>. QED  BY <1>1, <1>2, CatalogStep, LocalType DEF IInv, CatalogTypeOK

\* The operator drops a database only when a stored version of a resource of
\* that name was deleted with the policy "delete": finalization from a stale
\* copy, repeated after a lost answer or after a restart, included.
THEOREM DropsAreAsked == Spec => DropOnlyIfAsked
<1>. DEFINE A == \A n \in Names :
                   catalog[n] # Absent /\ catalog'[n] = Absent
                     /\ drift' = drift => n \in asked
<1>1. IInv /\ [Next]_vars => A
  <2>. SUFFICES ASSUME IInv, [Next]_vars, NEW n \in Names,
                       catalog[n] # Absent, catalog'[n] = Absent,
                       drift' = drift
                PROVE  n \in asked
    OBVIOUS
  <2>1. pc = "drop" /\ n = local.spec.name
    BY OnlyFinalizationDrops
  <2>2. local.deleting /\ local.annot.policy = "delete"
    BY <2>1 DEF IInv, WorkerKnows, WantsDropped
  <2>. QED  BY <2>1, <2>2 DEF IInv, DeletesAsked, Versions
<1>2. IInv /\ [Next]_vars => [A]_vars
  BY <1>1
<1>. QED  BY <1>2, Invariant, PTL DEF Spec, DropOnlyIfAsked

\* No finalization, however late, drops a database that the resource stored
\* now created and still wants: the copy a worker finalizes from is deleted,
\* so it is of an earlier life of the resource, and what that life's
\* successor creates is created from a copy at least as new as it.
THEOREM LiveDatabasesStay == Spec => NeverDropLive
<1>. DEFINE A == \A n \in Names :
                   catalog[n] # Absent /\ catalog'[n] = Absent
                     /\ drift' = drift
                   => ~(/\ api.exists /\ ~api.deleting
                        /\ createdBy[n] = api.uid)
<1>1. IInv /\ [Next]_vars => A
  <2>. SUFFICES ASSUME IInv, [Next]_vars, NEW n \in Names,
                       catalog[n] # Absent, catalog'[n] = Absent,
                       drift' = drift, api.exists, ~api.deleting,
                       createdBy[n] = api.uid
                PROVE  FALSE
    OBVIOUS
  <2>1. pc = "drop" /\ n = local.spec.name
    BY OnlyFinalizationDrops
  <2>2. local.deleting /\ createdBy[n] <= local.uid
    BY <2>1 DEF Holding, IInv, WorkerKnows, CreationsKnown
  <2>3. Precedes(local, api) /\ local.uid \in Nat /\ api.uid \in Nat
    BY DEF IInv, KubeInv, VersionsInOrder, Versions, KubeTypeOK, Objects
  <2>4. local.uid = api.uid
    BY <2>2, <2>3 DEF Precedes
  <2>. QED  BY <2>2, <2>3, <2>4 DEF Precedes, SameLife
<1>2. IInv /\ [Next]_vars => [A]_vars
  BY <1>1
<1>. QED  BY <1>2, Invariant, PTL DEF Spec, NeverDropLive

\* A resource is not let go under the policy "delete" before its database is
\* gone, unless somebody else interferes in RisingWave.
THEOREM FinalizedIsDropped == Spec => FinalizedMeansDropped
<1>. DEFINE A == /\ api.finalizer /\ ~api'.finalizer /\ api'.uid = api.uid
                 /\ api.annot.policy = "delete" /\ drift = 0
                 => catalog[api.spec.name] = Absent
<1>1. IInv /\ [Next]_vars => A
  <2>. SUFFICES ASSUME IInv, [Next]_vars, api.finalizer, ~api'.finalizer,
                       api.annot.policy = "delete", drift = 0
                PROVE  catalog[api.spec.name] = Absent
    OBVIOUS
  <2>1. /\ KubeInv(Specs, Annotations, Statuses)
        /\ KubeStep(Specs, Annotations, Statuses)
    BY StepKube DEF IInv
  <2>2. api.exists
    BY <2>1 DEF KubeInv, GoneIsUnguarded
  <2>3. pc = "removeFinalizer" /\ Current
    BY <2>1, <2>2, WorkerStepEffect, UserStepEffect
       DEF KubeStep, OtherStep, Deliver, Relist, Releases, Declared, Amended,
           Retired, LetGone
  <2>4. SameVersion(local, api)
    BY <2>1, <2>3, CurrentMeansSame DEF KubeInv
  <2>. QED  BY <2>3, <2>4 DEF IInv, CatalogKnown, SameVersion
<1>2. IInv /\ [Next]_vars => [A]_vars
  BY <1>1
<1>. QED  BY <1>2, Invariant, PTL DEF Spec, FinalizedMeansDropped

-------------------------------------------------------------------------------
(* The reconciler implements ResourceLifecycle. *)

Keeps == api.annot.policy # "delete"

Drifted == drift > 0

LP ==
    INSTANCE ResourceLifecycleProofs WITH
        Things <- Names, stage <- Stage, made <- Made,
        wanted <- api.spec.name, keeps <- Keeps, others <- Drifted

LEMMA MapType == IInv => LP!TypeOK /\ LP!NothingUnguarded
<1>. SUFFICES ASSUME IInv PROVE LP!TypeOK /\ LP!NothingUnguarded
  OBVIOUS
<1>1. api.spec.name \in Names /\ Keeps \in BOOLEAN /\ Drifted \in BOOLEAN
  BY DEF IInv, KubeInv, KubeTypeOK, Objects, Specs, Keeps, Drifted
<1>2. Made \subseteq Names /\ Stage \in LP!Stages
  BY DEF Made, Stage, LP!Stages, IInv, KubeInv, KubeTypeOK, Objects
<1>3. ASSUME Stage \in {"absent", "declared"} PROVE Made = {}
  <2>1. ~api.exists \/ (~api.deleting /\ ~api.finalizer)
    BY <1>3 DEF Stage, IInv, KubeInv, KubeTypeOK, Objects
  <2>2. api.exists => api.uid # 0
    BY DEF IInv, KubeInv, UidGiven
  <2>. QED  BY <2>1, <2>2 DEF Made, IInv, CreatedHasFinalizer
<1>. QED  BY <1>1, <1>2, <1>3 DEF LP!TypeOK, LP!NothingUnguarded

\* How a statement, or a foreign change, changes what is made.
LEMMA MadeStep ==
    ASSUME IInv, [Next]_vars, api' = api
    PROVE  \/ Made' = Made
           \/ /\ Stage \in {"guarded", "leaving"}
              /\ \E n \in Names \ Made : Made' = Made \cup {n}
           \/ /\ Stage = "leaving" \/ drift' > 0
              /\ \E n \in Made : Made' = Made \ {n}
           \/ drift' > 0 /\ Made' \subseteq Made
<1>. DEFINE n == local.spec.name
<1>0. /\ api.exists \in BOOLEAN /\ api.deleting \in BOOLEAN
      /\ api.finalizer \in BOOLEAN /\ api.uid \in Nat /\ local.uid \in Nat
      /\ drift \in Nat /\ drift' \in Nat /\ local.uid <= api.uid
      /\ createdBy \in [Names -> Nat] /\ n \in Names
  BY StepCatalogType, LocalType
     DEF IInv, KubeInv, KubeTypeOK, Objects, CatalogTypeOK, VersionsInOrder,
         Versions, Precedes
<1>1. CASE ~api.exists
  BY <1>1 DEF Made
<1>2. CASE api.exists /\ UNCHANGED createdBy
  BY <1>2 DEF Made
<1>3. CASE api.exists /\ Drift
  <2>1. drift' > 0
    BY <1>0, <1>3 DEF Drift
  <2>2. \A m \in Names : createdBy'[m] \in {createdBy[m], 0}
    BY <1>3 DEF Drift, IInv, CatalogTypeOK
  <2>3. api.uid # 0
    BY <1>3 DEF IInv, KubeInv, UidGiven
  <2>. QED  BY <1>3, <2>1, <2>2, <2>3 DEF Made
<1>4. ASSUME api.exists, pc = "drop", drift' = drift,
             createdBy' = [createdBy EXCEPT ![n] = 0],
             Made' # Made
      PROVE  /\ Stage = "leaving" \/ drift' > 0
             /\ \E m \in Made : Made' = Made \ {m}
  <2>1. api.uid # 0
    BY <1>4 DEF IInv, KubeInv, UidGiven
  <2>2. Made' = Made \ {n}
    BY <1>0, <1>4, <2>1 DEF Made
  <2>3. n \in Made /\ createdBy[n] = api.uid
    <3>1. n \in Made
      BY <1>4, <2>2
    <3>. QED  BY <1>4, <3>1 DEF Made
  <2>4. ASSUME drift = 0 PROVE Stage = "leaving"
    <3>1. Holding /\ local.deleting /\ WantsDropped(local)
      BY <1>4 DEF Holding, IInv, WorkerKnows
    <3>2. local.uid = api.uid
      BY <1>0, <2>1, <2>3, <3>1 DEF IInv, CreationsKnown
    <3>3. api.deleting
      BY <3>1, <3>2, <1>4
         DEF IInv, KubeInv, VersionsInOrder, Versions, Precedes, SameLife
    <3>4. api.finalizer
      BY <1>4, <2>3, <2>4, <3>1, <3>2, <3>3
         DEF IInv, ReleasedIsDropped, Released
    <3>. QED  BY <1>4, <3>3, <3>4 DEF Stage
  <2>. QED  BY <1>0, <1>4, <2>2, <2>3, <2>4
<1>5. ASSUME api.exists, pc = "create", catalog[n] = Absent,
             createdBy' = [createdBy EXCEPT ![n] = local.uid],
             Made' # Made
      PROVE  /\ Stage \in {"guarded", "leaving"}
             /\ \E m \in Names \ Made : Made' = Made \cup {m}
  <2>1. n \notin Made
    <3>1. createdBy[n] = 0 /\ api.uid # 0
      BY <1>0, <1>5 DEF IInv, CreationsStay, KubeInv, UidGiven
    <3>. QED  BY <1>5, <3>1 DEF Made
  <2>2. local.uid = api.uid /\ Made' = Made \cup {n}
    BY <1>0, <1>5, <2>1 DEF Made
  <2>3. api.finalizer
    <3>1. Holding /\ local.finalizer /\ ~local.deleting
      BY <1>5 DEF Holding, IInv, WorkerKnows, Providing
    <3>. QED  BY <1>5, <2>2, <3>1, HeldMeansGuarded DEF IInv
  <2>. QED  BY <1>0, <1>5, <2>1, <2>2, <2>3 DEF Stage
<1>. QED  BY <1>1, <1>2, <1>3, <1>4, <1>5, CatalogStep

LEMMA LifecycleInit == Init => Lifecycle!Init
<1>. SUFFICES ASSUME Init PROVE Lifecycle!Init
  OBVIOUS
<1>1. IInv
  BY InitInvariant
<1>2. ~api.exists /\ drift = 0
  BY DEF Init
<1>3. Stage = "absent" /\ Made = {} /\ (drift > 0) = FALSE
  BY <1>2 DEF Stage, Made
<1>. QED  BY <1>1, <1>3, MapType DEF Lifecycle!Init, Keeps, LP!TypeOK

\* The finalizer goes when what the resource stands for is gone, may stay, or
\* others have interfered.
LEMMA ReleasedLast ==
    ASSUME IInv, pc = "removeFinalizer", Current
    PROVE  Keeps \/ api.spec.name \notin Made \/ Drifted
<1>. SUFFICES ASSUME ~Keeps, ~Drifted PROVE api.spec.name \notin Made
  OBVIOUS
<1>1. drift = 0
  BY DEF Drifted, IInv, CatalogTypeOK
<1>2. SameVersion(local, api)
  BY CurrentMeansSame DEF IInv, KubeInv
<1>3. catalog[api.spec.name] = Absent
  BY <1>1, <1>2 DEF IInv, CatalogKnown, SameVersion, Keeps
<1>4. createdBy[api.spec.name] = 0 /\ api.uid # 0
  BY <1>3, MapType
     DEF LP!TypeOK, IInv, CreationsStay, Current, KubeInv, UidGiven
<1>. QED  BY <1>4 DEF Made

LEMMA LifecycleStep ==
    IInv /\ [Next]_vars => [Lifecycle!Next]_(Lifecycle!lifecycleVars)
<1>. SUFFICES ASSUME IInv, [Next]_vars
              PROVE  [Lifecycle!Next]_(Lifecycle!lifecycleVars)
  OBVIOUS
<1>0. /\ KubeInv(Specs, Annotations, Statuses)
      /\ KubeStep(Specs, Annotations, Statuses)
      /\ IInv'
  BY StepKube, StepInvariant DEF IInv
<1>1. LP!TypeOK /\ LP!NothingUnguarded /\ LP!TypeOK'
  BY <1>0, MapType, PTL
<1>. SUFFICES LP!ThingsMove \/ LP!StageMoves
  <2>1. ASSUME LP!ThingsMove \/ LP!StageMoves
        PROVE  [LP!Next]_(LP!lifecycleVars)
    BY <1>1, <2>1, LP!LifeMoves
  <2>. QED
    BY <2>1
       DEF LP!Next, LP!lifecycleVars, LP!Declare, LP!Amend, LP!Retire,
           LP!Guard, LP!Provide, LP!Withdraw, LP!Release, LP!LetGo,
           LP!Interfere, Lifecycle!Next, Lifecycle!lifecycleVars,
           Lifecycle!Declare, Lifecycle!Amend, Lifecycle!Retire,
           Lifecycle!Guard, Lifecycle!Provide, Lifecycle!Withdraw,
           Lifecycle!Release, Lifecycle!LetGo, Lifecycle!Interfere, Keeps,
           Drifted
<1>2. CASE api' = api
  <2>1. Stage' = Stage /\ api'.spec.name = api.spec.name /\ Keeps' = Keeps
    BY <1>2 DEF Stage, Keeps
  <2>2. drift \in Nat /\ drift' \in Nat /\ (drift' = 0 => drift = 0)
    BY <1>0, DriftGrows DEF IInv, CatalogTypeOK
  <2>3. (Drifted => Drifted') /\ (drift' > 0 => Drifted')
    BY <2>2 DEF Drifted
  <2>. QED  BY <1>2, <2>1, <2>3, MadeStep DEF LP!ThingsMove
<1>3. CASE UNCHANGED <<createdBy, drift>>
  <2>1. api'.exists /\ ~api'.deleting /\ ~api'.finalizer
          => \A n \in Names : createdBy[n] # api'.uid
    BY <1>0, <1>3 DEF IInv, CreatedHasFinalizer, KubeInv, UidGiven
  <2>2. Made' = IF Stage' \in {"absent", "declared"} THEN {} ELSE Made
    BY <1>0, <1>3, <2>1, StageTellsLife DEF Made
  <2>3. SameWishes => api'.spec.name = api.spec.name /\ Keeps' = Keeps
    BY DEF SameWishes, Keeps
  <2>4. Drifted' = Drifted /\ (Stage = "absent" => ~api.exists)
    BY <1>0, <1>3, StageTellsLife DEF Drifted
  <2>. QED
    BY <1>0, <2>2, <2>3, <2>4, KubeStepStage, ReleasedLast
       DEF StageStep, LP!StageMoves
<1>. QED  BY <1>2, <1>3, StatementsAside

\* The database reconciler keeps ResourceLifecycle's promise: it creates only
\* for a resource whose finalizer is stored, drops only for one being deleted,
\* and lets go of a resource under policy "delete" only once its database is
\* gone, foreign changes apart.
THEOREM DatabaseImplementsLifecycle == Spec => ImplementsLifecycle
<1>1. Init => Lifecycle!Init
  BY LifecycleInit
<1>2. IInv /\ [Next]_vars => [Lifecycle!Next]_(Lifecycle!lifecycleVars)
  BY LifecycleStep
<1>. QED
  BY <1>1, <1>2, Invariant, PTL DEF Spec, ImplementsLifecycle, Lifecycle!Spec

===============================================================================
