------------------------ MODULE SchemaControllerProofs ------------------------
(***************************************************************************)
(* Proofs about SchemaController for any databases, schema names, owners,  *)
(* sessions and specs, and any budget of edits, faults and strays.         *)
(*                                                                         *)
(* What concerns the Kubernetes side only is ReconcilerProofs': here it is *)
(* shown that every step is one of the steps it speaks of, and what the    *)
(* steps do in RisingWave.                                                 *)
(***************************************************************************)
EXTENDS SchemaController, ReconcilerProofs

SqlTypeOK ==
    /\ catalog \in [Schemas -> Owners \cup {Admin, Absent}]
    /\ sessions \in [Sessions -> Databases]
    /\ createdBy \in [Schemas -> Nat]
    /\ strays \in 0..MaxStrays
    /\ pc \in Steps

\* What the worker knows of the copy it holds at each step.
WorkerKnows ==
    /\ pc \in {"use", "check", "create", "owner", "alter"}
         => local.finalizer /\ ~local.deleting
    /\ pc \in {"drop", "dropSchema"}
         => /\ local.deleting /\ local.finalizer
            /\ local.annot.policy = "delete" /\ local.spec.name # Public
    /\ pc = "alter" => local.spec.owner # NoOwner

\* Creations are not newer than what the cache and the worker know of.
CreationsKnown ==
    \A n \in Schemas :
        createdBy[n] <= cache.uid /\ (Holding => createdBy[n] <= local.uid)

\* While no statement has strayed, what was to be dropped is gone when the
\* finalizer is about to go.
DropsKnown ==
    /\ pc = "removeFinalizer" /\ local.annot.policy = "delete"
    /\ local.spec.name # Public /\ strays = 0
    => catalog[<<local.spec.database, local.spec.name>>] = Absent

\* What a reconcile has created, and no reconcile has dropped, is there.
CreationsStay == \A n \in Schemas : createdBy[n] # 0 => catalog[n] # Absent

\* The schema a version of the resource wants dropped.
WantsDropped(v) ==
    v.finalizer /\ v.annot.policy = "delete" /\ v.spec.name # Public

\* Once the resource is released, what any version of it still in the system
\* wants dropped has been dropped, as long as no statement has strayed.
ReleasedIsDropped ==
    api.exists /\ api.deleting /\ ~api.finalizer /\ strays = 0 =>
        \A v \in watch \cup {cache} \cup (IF Holding THEN {local} ELSE {}) :
            v.uid = api.uid /\ WantsDropped(v) =>
                createdBy[<<v.spec.database, v.spec.name>>] # api.uid

\* The worker about to report Ready has seen or made the schema and its owner.
CatalogKnown ==
    LET n == <<local.spec.database, local.spec.name>> IN
    strays = 0 =>
        /\ pc \in {"owner", "alter", "ready"} => catalog[n] # Absent
        /\ pc = "ready" => local.spec.owner \in {NoOwner, catalog[n]}

IInv ==
    /\ KubeInv(AnySpec, AnyAnnotations, Statuses)
    /\ SqlTypeOK
    /\ WorkerKnows
    /\ CreationsKnown
    /\ CreatedHasFinalizer
    /\ PublicStays
    /\ DropsKnown
    /\ CreationsStay
    /\ ReleasedIsDropped
    /\ ReadyIsKnown
    /\ CatalogKnown
    /\ ReadyIsTruthful

-------------------------------------------------------------------------------
(* Every step is a step of the Kubernetes side. *)

LEMMA SchemaStatuses == NoStatus \in Statuses /\ StatusesClosed(Statuses)
<1>1. NoStatus \in Statuses
  BY DEF NoStatus, Statuses, Reasons
<1>2. ASSUME NEW s \in Statuses,
             NEW r \in {"FailedToGetSecret", "ConnectionFailed",
                        "FailedToFinalize"}
      PROVE  LET t == WithReason(s, r) IN
             /\ t \in Statuses /\ t.reason = r
             /\ t.observedGeneration = s.observedGeneration
  BY DEF Statuses, Reasons, WithReason
<1>3. ASSUME NEW s \in Statuses, NEW g \in Nat
      PROVE  LET t == [s EXCEPT !.reason = "Completed",
                                !.observedGeneration = g] IN
             t \in Statuses /\ t.observedGeneration = g
  BY DEF Statuses, Reasons
<1>4. \A s \in Statuses : s.observedGeneration \in Nat
  BY DEF Statuses
<1>. QED  BY <1>1, <1>2, <1>3, <1>4 DEF StatusesClosed

\* The statements only change the status of the worker's copy.
LEMMA StatementStep ==
    ASSUME IInv,
           UseToDrop \/ DropSchema \/ UseDatabase \/ CheckSchemaExists
             \/ CreateSchema \/ GetSchemaOwner \/ AlterSchemaOwner
    PROVE  /\ WorkerStep(AnyAnnotations, Statuses)
           /\ UNCHANGED <<api, watch, cache>>
           /\ Holding
           /\ pc' = "ready" => local' = local
           /\ local'.uid = local.uid /\ local'.spec = local.spec
           /\ local'.annot = local.annot /\ local'.deleting = local.deleting
           /\ local'.finalizer = local.finalizer
<1>1. /\ local \in Objects(AnySpec, AnyAnnotations, Statuses)
      /\ local.status \in Statuses /\ queued \in BOOLEAN
  BY DEF IInv, KubeInv, KubeTypeOK, Objects
<1>2. /\ UNCHANGED <<api, watch, cache, edits>>
      /\ queued' \in {queued, TRUE} /\ (Fault \/ UNCHANGED faults)
  BY DEF UseToDrop, DropSchema, UseDatabase, CheckSchemaExists, CreateSchema,
         GetSchemaOwner, AlterSchemaOwner, Goto, Fail, Requeue
<1>3. /\ pc \notin {"idle", "report", "ready"}
      /\ pc' = "removeFinalizer" => pc = "dropSchema"
      /\ pc' = "ready" => pc \in {"owner", "alter"} /\ local' = local
      /\ pc \in {"drop", "dropSchema"} => local' = local
  BY DEF UseToDrop, DropSchema, UseDatabase, CheckSchemaExists, CreateSchema,
         GetSchemaOwner, AlterSchemaOwner, Goto, Fail, Requeue
<1>4. \/ local' = local /\ pc' # "report"
      \/ /\ pc' = "report"
         /\ \E r \in {"FailedToCreateSchema", "FailedToUpdateOwner"} :
              local' = [local EXCEPT !.status.reason = r]
      \/ /\ pc' # "report"
         /\ local' = [local EXCEPT !.status.schemaCreated = TRUE]
  BY DEF UseToDrop, DropSchema, UseDatabase, CheckSchemaExists, CreateSchema,
         GetSchemaOwner, AlterSchemaOwner, Goto, Fail, Requeue
<1>5. /\ pc' = "report" => local'.status.reason # "Completed"
      /\ \/ local' = local
         \/ \E s \in Statuses :
              /\ s.observedGeneration = local.status.observedGeneration
              /\ local' = [local EXCEPT !.status = s]
  <2>. DEFINE Same(s) ==
         /\ s \in Statuses
         /\ s.observedGeneration = local.status.observedGeneration
  <2>1. /\ Same([local.status EXCEPT !.schemaCreated = TRUE])
        /\ \A r \in {"FailedToCreateSchema", "FailedToUpdateOwner"} :
             Same([local.status EXCEPT !.reason = r])
    BY <1>1 DEF Statuses, Reasons
  <2>2. ASSUME NEW r \in {"FailedToCreateSchema", "FailedToUpdateOwner"},
               local' = [local EXCEPT !.status.reason = r]
        PROVE  /\ local'.status.reason # "Completed"
               /\ \E s : Same(s) /\ local' = [local EXCEPT !.status = s]
    <3>1. local' = [local EXCEPT !.status = [local.status EXCEPT !.reason = r]]
      BY <2>2
    <3>2. local'.status.reason = r
      BY <1>1, <2>2 DEF Objects, Statuses
    <3>. QED  BY <2>1, <3>1, <3>2
  <2>3. CASE /\ pc' # "report"
             /\ local' = [local EXCEPT !.status.schemaCreated = TRUE]
    <3>1. local' = [local EXCEPT !.status =
                      [local.status EXCEPT !.schemaCreated = TRUE]]
      BY <2>3
    <3>. QED  BY <2>1, <2>3, <3>1
  <2>4. CASE local' = local /\ pc' # "report"
    BY <2>4
  <2>. QED  BY <1>4, <2>2, <2>3, <2>4
<1>6. Works(Statuses)
  <2>1. pc' = "removeFinalizer" => local.deleting
    BY <1>3 DEF IInv, WorkerKnows
  <2>2. pc' = "ready" => ~local.deleting
    BY <1>3 DEF IInv, WorkerKnows
  <2>3. local' = local \/ ~local.deleting
    <3>1. pc \in {"drop", "dropSchema", "use", "check", "create", "owner",
                  "alter"}
      BY DEF UseToDrop, DropSchema, UseDatabase, CheckSchemaExists,
             CreateSchema, GetSchemaOwner, AlterSchemaOwner
    <3>. QED  BY <1>3, <3>1 DEF IInv, WorkerKnows
  <2>. QED  BY <1>2, <1>3, <1>5, <2>1, <2>2, <2>3 DEF Works, Holding
<1>7. /\ local'.uid = local.uid /\ local'.spec = local.spec
      /\ local'.annot = local.annot /\ local'.deleting = local.deleting
      /\ local'.finalizer = local.finalizer
  BY <1>1, <1>5 DEF Objects
<1>8. WorkerStep(AnyAnnotations, Statuses)
  BY <1>1, <1>2, <1>6 DEF WorkerStep
<1>. QED  BY <1>2, <1>3, <1>7, <1>8 DEF Holding

LEMMA ReconcileStep ==
    ASSUME IInv, Reconcile
    PROVE  WorkerStep(AnyAnnotations, Statuses)
<1>0. KubeInv(AnySpec, AnyAnnotations, Statuses) /\ StatusesClosed(Statuses)
  BY SchemaStatuses DEF IInv
<1>1. CASE Fetch
  BY <1>0, <1>1, FetchStep DEF Fetch
<1>2. CASE resolveAdminCredentials \/ Connect
  BY <1>0, <1>2, ConnectStep DEF resolveAdminCredentials, Connect
<1>3. CASE AddFinalizer
  <2>1. StoreFinalizer("use")
    BY <1>3 DEF AddFinalizer
  <2>2. "use" \notin {"removeFinalizer", "report", "ready"}
    OBVIOUS
  <2>. QED  BY <1>0, <2>1, <2>2, FinalizerStep
<1>4. CASE Finalize
  <2>. DEFINE drops == local.annot.policy = "delete" /\ local.spec.name # Public
  <2>1. ChooseFinalization(drops)
    BY <1>4 DEF Finalize
  <2>2. "use" \notin {"removeFinalizer", "report", "ready"}
    OBVIOUS
  <2>. QED  BY <1>0, <2>1, <2>2, FinalizerStep
<1>5. CASE removeFinalizer
  <2>1. ReleaseFinalizer
    BY <1>5 DEF removeFinalizer
  <2>2. "use" \notin {"removeFinalizer", "report", "ready"}
    OBVIOUS
  <2>. QED  BY <1>0, <2>1, <2>2, FinalizerStep
<1>6. CASE OnFailure \/ ReportFailure \/ ReportReady
  BY <1>0, <1>6, ReportStep DEF OnFailure, ReportFailure, ReportReady
<1>. QED
  BY <1>1, <1>2, <1>3, <1>4, <1>5, <1>6, StatementStep DEF Reconcile

LEMMA StepKube ==
    ASSUME IInv, [Next]_vars
    PROVE  /\ KubeStep(AnySpec, AnyAnnotations, Statuses)
           /\ KubeInv(AnySpec, AnyAnnotations, Statuses)'
<1>1. KubeStep(AnySpec, AnyAnnotations, Statuses)
  <2>1. CASE Reconcile
    BY <2>1, ReconcileStep DEF KubeStep
  <2>2. CASE UserWrite
    <3>1. /\ Specs \subseteq AnySpec /\ Annotations \subseteq AnyAnnotations
          /\ NoStatus \in Statuses /\ pc' = pc
          /\ NoStatus.observedGeneration = 0 /\ NoStatus.reason # "Completed"
      BY <2>2, SchemaAssumption, SchemaStatuses DEF UserWrite, NoStatus
    <3>2. Create(Specs, Annotations, NoStatus)
            => Create(AnySpec, AnyAnnotations, NoStatus)
      BY <3>1 DEF Create
    <3>3. EditSpec(Specs) => EditSpec(AnySpec)
      BY <3>1 DEF EditSpec
    <3>4. Annotate(Annotations) => Annotate(AnyAnnotations)
      BY <3>1 DEF Annotate
    <3>. QED  BY <2>2, <3>1, <3>2, <3>3, <3>4 DEF UserWrite, UserStep, KubeStep
  <2>3. CASE Deliveries
    BY <2>3 DEF Deliveries, OtherStep, KubeStep
  <2>4. CASE Crash
    BY <2>4 DEF Crash, OtherStep, KubeStep
  <2>5. CASE OtherUse
    BY <2>5 DEF OtherUse, OtherStep, KubeStep
  <2>6. CASE UNCHANGED vars
    BY <2>6 DEF vars, kubeVars, OtherStep, KubeStep
  <2>. QED  BY <2>1, <2>2, <2>3, <2>4, <2>5, <2>6 DEF Next
<1>. QED  BY <1>1, KubeStepInv, SchemaStatuses DEF IInv

-------------------------------------------------------------------------------
(* RisingWave. *)

\* A statement is about the schema of that name in some session's database.
LEMMA HereType ==
    ASSUME IInv, NEW s \in Sessions
    PROVE  /\ Here(s) \in Schemas /\ Here(s) = <<sessions[s], local.spec.name>>
           /\ Here(s)[2] = local.spec.name
           /\ local.spec.database \in Databases /\ local.spec.name \in Names
           /\ local.spec.owner \in Owners \cup {NoOwner} /\ local.uid \in Nat
<1>1. /\ local.spec.database \in Databases /\ local.spec.name \in Names
      /\ local.spec.owner \in Owners \cup {NoOwner} /\ local.uid \in Nat
  BY DEF IInv, KubeInv, KubeTypeOK, Objects, AnySpec
<1>. QED  BY <1>1 DEF Here, Schemas, IInv, SqlTypeOK

LEMMA StraysType ==
    ASSUME IInv, NEW s \in Sessions, RunOn(s)
    PROVE  strays' \in 0..MaxStrays
BY SchemaAssumption DEF RunOn, IInv, SqlTypeOK

\* What the three statements that change schemas do to one of them.
LEMMA CatalogStep ==
    ASSUME IInv, [Next]_vars
    PROVE  \/ UNCHANGED <<catalog, createdBy>>
           \/ \E s \in Sessions :
                /\ pc = "dropSchema" /\ RunOn(s)
                /\ catalog' = [catalog EXCEPT ![Here(s)] = Absent]
                /\ createdBy' = [createdBy EXCEPT ![Here(s)] = 0]
           \/ \E s \in Sessions, o \in Owners \cup {Admin} :
                /\ pc = "create" /\ RunOn(s)
                /\ catalog[Here(s)] = Absent
                /\ catalog' = [catalog EXCEPT ![Here(s)] = o]
                /\ createdBy' = [createdBy EXCEPT ![Here(s)] = local.uid]
           \/ \E s \in Sessions, o \in Owners \cup {Admin} :
                /\ pc = "alter" /\ RunOn(s) /\ o = local.spec.owner
                /\ catalog[Here(s)] # Absent
                /\ catalog' = [catalog EXCEPT ![Here(s)] = o]
                /\ UNCHANGED createdBy
<1>0. local.spec.owner \in Owners \cup {NoOwner}
  BY DEF IInv, KubeInv, KubeTypeOK, Objects, AnySpec
<1>1. CASE DropSchema
  BY <1>1 DEF DropSchema
<1>2. CASE CreateSchema
  <2>1. (IF local.spec.owner = NoOwner THEN Admin ELSE local.spec.owner)
          \in Owners \cup {Admin}
    BY <1>0
  <2>. QED  BY <1>2, <2>1 DEF CreateSchema
<1>3. CASE AlterSchemaOwner
  <2>1. local.spec.owner \in Owners \cup {Admin}
    BY <1>0, <1>3 DEF AlterSchemaOwner, IInv, WorkerKnows
  <2>. QED  BY <1>3, <2>1 DEF AlterSchemaOwner
<1>4. CASE ~(DropSchema \/ CreateSchema \/ AlterSchemaOwner)
  BY <1>4
     DEF Next, Reconcile, Fetch, resolveAdminCredentials, Connect,
         AddFinalizer, Finalize, UseToDrop, OnFailure, removeFinalizer,
         UseDatabase, CheckSchemaExists, GetSchemaOwner, ReportFailure,
         ReportReady, Deliveries, UserWrite, Crash, OtherUse, vars, sqlVars
<1>. QED  BY <1>1, <1>2, <1>3, <1>4

LEMMA StepSqlType ==
    ASSUME IInv, [Next]_vars
    PROVE  SqlTypeOK'
<1>1. /\ catalog' \in [Schemas -> Owners \cup {Admin, Absent}]
      /\ createdBy' \in [Schemas -> Nat]
  BY CatalogStep, HereType DEF IInv, SqlTypeOK
<1>2. sessions' \in [Sessions -> Databases]
  <2>1. local.spec.database \in Databases /\ Default \in Databases
    BY SchemaAssumption DEF IInv, KubeInv, KubeTypeOK, Objects, AnySpec
  <2>2. \/ UNCHANGED sessions
        \/ Use
        \/ sessions' = [s \in Sessions |-> Default]
        \/ \E s \in Sessions, d \in Databases :
             sessions' = [sessions EXCEPT ![s] = d]
    BY DEF Next, Reconcile, Fetch, resolveAdminCredentials, Connect,
           AddFinalizer, Finalize, UseToDrop, DropSchema, OnFailure,
           removeFinalizer, UseDatabase, CheckSchemaExists, CreateSchema,
           GetSchemaOwner, AlterSchemaOwner, ReportFailure, ReportReady,
           Deliveries, UserWrite, Crash, OtherUse, vars, sqlVars
  <2>. QED  BY <2>1, <2>2 DEF Use, IInv, SqlTypeOK
<1>3. strays' \in 0..MaxStrays
  <2>1. UNCHANGED strays \/ \E s \in Sessions : RunOn(s)
    BY DEF Next, Reconcile, Fetch, resolveAdminCredentials, Connect,
           AddFinalizer, Finalize, UseToDrop, DropSchema, OnFailure,
           removeFinalizer, UseDatabase, CheckSchemaExists, CreateSchema,
           GetSchemaOwner, AlterSchemaOwner, ReportFailure, ReportReady,
           Deliveries, UserWrite, Crash, OtherUse, vars, sqlVars
  <2>. QED  BY <2>1, StraysType DEF IInv, SqlTypeOK
<1>4. pc' \in Steps
  <2>1. pc' = pc \/ pc' \in Steps
    BY DEF Next, Reconcile, Fetch, resolveAdminCredentials, Connect,
           AddFinalizer, Finalize, UseToDrop, DropSchema, OnFailure,
           removeFinalizer, UseDatabase, CheckSchemaExists, CreateSchema,
           GetSchemaOwner, AlterSchemaOwner, ReportFailure, ReportReady,
           Deliveries, UserWrite, Crash, OtherUse, vars, Steps,
           FetchResource, ResolveCredentials, GetConnection, Attempt,
           StoreFinalizer, ChooseFinalization, ReleaseFinalizer,
           ReportFinalization, WriteFailure, WriteReady, Goto, Done, Requeue,
           Fail
  <2>. QED  BY <2>1 DEF IInv, SqlTypeOK
<1>. QED  BY <1>1, <1>2, <1>3, <1>4 DEF SqlTypeOK

\* Storing the finalizer leaves the worker with a copy that has it.
LEMMA AddFinalizerKnows ==
    ASSUME IInv, AddFinalizer, pc' = "use"
    PROVE  local'.finalizer /\ ~local'.deleting
<1>1. Holding' /\ pc' # "creds" /\ ~local.deleting
  BY DEF AddFinalizer, StoreFinalizer, Holding
<1>2. /\ local'.deleting = local.deleting
      /\ local'.finalizer = local.finalizer \/ (local' = api' /\ api'.finalizer)
  BY <1>1, StepKube, HeldCopy DEF Next, Reconcile, IInv
<1>3. CASE local.finalizer
  BY <1>1, <1>2, <1>3
<1>4. CASE local' = api' /\ Write([api EXCEPT !.finalizer = TRUE])
  <2>. DEFINE o == [api EXCEPT !.finalizer = TRUE]
  <2>1. o \in Objects(AnySpec, AnyAnnotations, Statuses) /\ o.finalizer
    BY DEF IInv, KubeInv, KubeTypeOK, Objects
  <2>2. Write(o)
    BY <1>4
  <2>. HIDE DEF o
  <2>. QED  BY <1>1, <1>2, <1>4, <2>1, <2>2, WriteEffect DEF SameVersion
<1>. QED  BY <1>3, <1>4 DEF AddFinalizer, StoreFinalizer, Requeue

LEMMA StepKnows ==
    ASSUME IInv, [Next]_vars
    PROVE  WorkerKnows'
<1>1. CASE \/ UseToDrop \/ DropSchema \/ UseDatabase \/ CheckSchemaExists
           \/ CreateSchema \/ GetSchemaOwner \/ AlterSchemaOwner
  <2>1. /\ local'.uid = local.uid /\ local'.spec = local.spec
        /\ local'.annot = local.annot /\ local'.deleting = local.deleting
        /\ local'.finalizer = local.finalizer
    BY <1>1, StatementStep
  <2>2. /\ pc' \in {"use", "check", "create", "owner", "alter"}
             => pc \in {"use", "check", "create", "owner", "alter"}
        /\ pc' \in {"drop", "dropSchema"} => pc \in {"drop", "dropSchema"}
        /\ pc' = "alter" => local.spec.owner # NoOwner
    BY <1>1
       DEF UseToDrop, DropSchema, UseDatabase, CheckSchemaExists,
           CreateSchema, GetSchemaOwner, AlterSchemaOwner, Goto, Fail, Requeue
  <2>. QED  BY <2>1, <2>2 DEF IInv, WorkerKnows
<1>2. CASE AddFinalizer
  <2>1. pc' \in {"use", "idle"}
    BY <1>2 DEF AddFinalizer, StoreFinalizer, Goto, Requeue
  <2>. QED  BY <1>2, <2>1, AddFinalizerKnows DEF WorkerKnows
<1>3. CASE Finalize
  BY <1>3 DEF Finalize, ChooseFinalization, Goto, Done, WorkerKnows
<1>4. CASE \/ Fetch \/ resolveAdminCredentials \/ Connect \/ OnFailure
           \/ removeFinalizer \/ ReportFailure \/ ReportReady \/ Crash
  <2>1. pc' \in {"idle", "creds", "connect", "finalizer", "report"}
    BY <1>4
       DEF Fetch, resolveAdminCredentials, Connect, OnFailure,
           removeFinalizer, ReportFailure, ReportReady, Crash, FetchResource,
           ResolveCredentials, GetConnection, Attempt, ReleaseFinalizer,
           ReportFinalization, WriteFailure, WriteReady, Goto, Done, Requeue,
           Fail
  <2>. QED  BY <2>1 DEF WorkerKnows
<1>5. CASE Deliveries \/ UserWrite \/ OtherUse \/ UNCHANGED vars
  <2>1. UNCHANGED <<local, pc>>
    BY <1>5 DEF Deliveries, Deliver, UserWrite, Create, EditSpec, Annotate,
                Delete, Release, OtherUse, vars, kubeVars
  <2>. QED  BY <2>1 DEF IInv, WorkerKnows
<1>. QED  BY <1>1, <1>2, <1>3, <1>4, <1>5 DEF Next, Reconcile

\* An entry stays, is cleared, or is the worker's own.
LEMMA CreationsGrow ==
    ASSUME IInv, [Next]_vars, NEW n \in Schemas
    PROVE  \/ createdBy'[n] = createdBy[n]
           \/ createdBy'[n] = 0
           \/ pc = "create" /\ createdBy'[n] = local.uid
BY CatalogStep, HereType DEF IInv, SqlTypeOK

LEMMA StepCreationsKnown ==
    ASSUME IInv, [Next]_vars
    PROVE  CreationsKnown'
<1>. SUFFICES ASSUME NEW n \in Schemas
              PROVE  /\ createdBy'[n] <= cache'.uid
                     /\ Holding' => createdBy'[n] <= local'.uid
  BY DEF CreationsKnown
<1>1. /\ cache'.uid \in Nat /\ local'.uid \in Nat /\ createdBy[n] \in Nat
      /\ local.uid \in Nat
  BY StepKube DEF IInv, KubeInv, KubeTypeOK, Objects, SqlTypeOK
<1>2. CASE createdBy'[n] = createdBy[n]
  BY <1>1, <1>2, StepKube, KnownStays DEF IInv, CreationsKnown
<1>3. CASE createdBy'[n] = 0
  BY <1>1, <1>3
<1>4. CASE pc = "create" /\ createdBy'[n] = local.uid
  <2>1. Holding /\ local.uid <= cache.uid
    BY <1>4 DEF Holding, IInv, KubeInv, WorkerBehind
  <2>. QED  BY <1>1, <1>4, <2>1, StepKube, KnownStays DEF IInv
<1>. QED  BY <1>2, <1>3, <1>4, CreationsGrow

LEMMA StepCreatedHasFinalizer ==
    ASSUME IInv, [Next]_vars
    PROVE  CreatedHasFinalizer'
<1>. SUFFICES ASSUME NEW n \in Schemas, createdBy'[n] # 0,
                     createdBy'[n] = api'.uid
              PROVE  ~api'.exists \/ api'.deleting \/ api'.finalizer
  BY DEF CreatedHasFinalizer
<1>. DEFINE u == createdBy'[n]
<1>1. /\ api.uid \in Nat /\ cache.uid \in Nat /\ local.uid \in Nat
      /\ createdBy[n] \in Nat
      /\ cache.uid <= api.uid /\ local.uid <= api.uid
  BY DEF IInv, KubeInv, KubeTypeOK, Objects, SqlTypeOK, VersionsInOrder,
         Versions, Precedes
<1>2. CASE u = createdBy[n]
  <2>1. u <= api.uid /\ u \in Nat
    BY <1>1, <1>2 DEF IInv, CreationsKnown
  <2>2. u = api.uid => ~api.exists \/ api.deleting \/ api.finalizer
    BY <1>2 DEF IInv, CreatedHasFinalizer
  <2>. HIDE DEF u
  <2>3. u = api'.uid
    BY DEF u
  <2>. QED  BY <2>1, <2>2, <2>3, StepKube, GuardStays DEF IInv
<1>3. CASE pc = "create" /\ u = local.uid
  <2>1. u <= api.uid /\ u \in Nat
    BY <1>1, <1>3
  <2>2. u = api.uid => ~api.exists \/ api.deleting \/ api.finalizer
    BY <1>3, HeldMeansGuarded DEF IInv, WorkerKnows, Holding
  <2>. HIDE DEF u
  <2>3. u = api'.uid
    BY DEF u
  <2>. QED  BY <2>1, <2>2, <2>3, StepKube, GuardStays DEF IInv
<1>. QED  BY <1>2, <1>3, CreationsGrow

LEMMA StepPublic ==
    ASSUME IInv, [Next]_vars
    PROVE  PublicStays'
<1>. SUFFICES ASSUME NEW d \in Databases PROVE catalog'[<<d, Public>>] # Absent
  BY DEF PublicStays
<1>1. <<d, Public>> \in Schemas /\ catalog[<<d, Public>>] # Absent
  BY SchemaAssumption DEF IInv, PublicStays, Schemas
<1>2. Absent \notin Owners \cup {Admin}
  BY SchemaAssumption
<1>3. ASSUME NEW s \in Sessions, pc = "dropSchema",
             catalog' = [catalog EXCEPT ![Here(s)] = Absent]
      PROVE  catalog'[<<d, Public>>] # Absent
  <2>1. Here(s) # <<d, Public>>
    <3>1. Here(s)[2] # Public
      BY <1>3, HereType DEF IInv, WorkerKnows
    <3>. QED  BY <3>1
  <2>. QED  BY <1>1, <1>3, <2>1, HereType DEF IInv, SqlTypeOK
<1>4. ASSUME NEW s \in Sessions, NEW o \in Owners \cup {Admin},
             catalog' = [catalog EXCEPT ![Here(s)] = o]
      PROVE  catalog'[<<d, Public>>] # Absent
  BY <1>1, <1>2, <1>4, HereType DEF IInv, SqlTypeOK
<1>. QED  BY <1>1, <1>3, <1>4, CatalogStep

\* A statement that did not stray ran in the database of the spec.
LEMMA NotStrayed ==
    ASSUME IInv, NEW s \in Sessions, RunOn(s), strays' = 0
    PROVE  strays = 0 /\ sessions[s] = local.spec.database
<1>1. strays \in 0..MaxStrays /\ MaxStrays \in Nat \ {0}
  BY SchemaAssumption DEF IInv, SqlTypeOK
<1>2. strays # MaxStrays \/ strays' # strays
  BY <1>1
<1>3. strays' # strays + 1
  BY <1>1
<1>. QED  BY <1>2, <1>3 DEF RunOn

\* The count of strays changes with a statement, and only grows.
LEMMA StraysStep ==
    ASSUME IInv, [Next]_vars
    PROVE  /\ UNCHANGED strays \/ \E s \in Sessions : RunOn(s)
           /\ strays' = 0 => strays = 0
           /\ UNCHANGED strays \/ api' = api
<1>1. \/ UNCHANGED strays
      \/ (\E s \in Sessions : RunOn(s)) /\ api' = api
  BY DEF Next, Reconcile, Fetch, resolveAdminCredentials, Connect,
         AddFinalizer, Finalize, UseToDrop, DropSchema, OnFailure,
         removeFinalizer, UseDatabase, CheckSchemaExists, CreateSchema,
         GetSchemaOwner, AlterSchemaOwner, ReportFailure, ReportReady,
         Deliveries, UserWrite, Crash, OtherUse, vars, sqlVars
<1>. QED  BY <1>1, NotStrayed

LEMMA StepDropsKnown ==
    ASSUME IInv, [Next]_vars
    PROVE  DropsKnown'
<1>. SUFFICES ASSUME pc' = "removeFinalizer", local'.annot.policy = "delete",
                     local'.spec.name # Public, strays' = 0
              PROVE  catalog'[<<local'.spec.database, local'.spec.name>>] = Absent
  BY DEF DropsKnown
<1>1. strays = 0
  BY StraysStep
<1>2. CASE DropSchema
  <2>1. PICK s \in Sessions : /\ RunOn(s)
                              /\ catalog' = [catalog EXCEPT ![Here(s)] = Absent]
    BY <1>2 DEF DropSchema, Goto
  <2>2. local' = local
    BY <1>2 DEF DropSchema
  <2>3. Here(s) = <<local.spec.database, local.spec.name>>
    BY <2>1, NotStrayed, HereType
  <2>. QED  BY <2>1, <2>2, <2>3, HereType DEF IInv, SqlTypeOK
<1>3. CASE Finalize
  BY <1>3 DEF Finalize, ChooseFinalization, Goto, Done
<1>4. CASE \/ UseToDrop \/ UseDatabase \/ CheckSchemaExists \/ CreateSchema
           \/ GetSchemaOwner \/ AlterSchemaOwner \/ Fetch
           \/ resolveAdminCredentials \/ Connect \/ AddFinalizer \/ OnFailure
           \/ removeFinalizer \/ ReportFailure \/ ReportReady \/ Crash
  BY <1>4
     DEF UseToDrop, UseDatabase, CheckSchemaExists, CreateSchema,
         GetSchemaOwner, AlterSchemaOwner, Fetch, resolveAdminCredentials,
         Connect, AddFinalizer, OnFailure, removeFinalizer, ReportFailure,
         ReportReady, Crash, FetchResource, ResolveCredentials, GetConnection,
         Attempt, StoreFinalizer, ReleaseFinalizer, ReportFinalization,
         WriteFailure, WriteReady, Goto, Done, Requeue, Fail
<1>5. CASE Deliveries \/ UserWrite \/ OtherUse \/ UNCHANGED vars
  <2>1. UNCHANGED <<local, pc, catalog>>
    BY <1>5 DEF Deliveries, Deliver, UserWrite, Create, EditSpec, Annotate,
                Delete, Release, OtherUse, vars, kubeVars, sqlVars
  <2>. QED  BY <1>1, <2>1 DEF IInv, DropsKnown
<1>. QED  BY <1>2, <1>3, <1>4, <1>5 DEF Next, Reconcile

LEMMA StepCreationsStay ==
    ASSUME IInv, [Next]_vars
    PROVE  CreationsStay'
<1>. SUFFICES ASSUME NEW n \in Schemas, createdBy'[n] # 0
              PROVE  catalog'[n] # Absent
  BY DEF CreationsStay
<1>1. createdBy[n] # 0 => catalog[n] # Absent
  BY DEF IInv, CreationsStay
<1>2. Absent \notin Owners \cup {Admin}
  BY SchemaAssumption
<1>. QED  BY <1>1, <1>2, CatalogStep, HereType DEF IInv, SqlTypeOK

\* A worker that creates does so for a life that is not over, unless that
\* life is not the stored one.
LEMMA NotReleased ==
    ASSUME IInv, pc = "create", local.uid = api.uid
    PROVE  ~Released
<1>1. Holding /\ local.finalizer /\ ~local.deleting
  BY DEF Holding, IInv, WorkerKnows
<1>. QED  BY <1>1, HeldMeansGuarded DEF IInv, Released

LEMMA StepReleasedIsDropped ==
    ASSUME IInv, [Next]_vars
    PROVE  ReleasedIsDropped'
<1>. SUFFICES ASSUME Released', strays' = 0,
                     NEW v \in watch' \cup {cache'}
                               \cup (IF Holding' THEN {local'} ELSE {}),
                     v.uid = api'.uid, WantsDropped(v)
              PROVE  createdBy'[<<v.spec.database, v.spec.name>>] # api'.uid
  BY DEF ReleasedIsDropped, Released, WantsDropped
<1>. DEFINE n == <<v.spec.database, v.spec.name>>
<1>0. /\ KubeInv(AnySpec, AnyAnnotations, Statuses)
      /\ KubeInv(AnySpec, AnyAnnotations, Statuses)'
      /\ KubeStep(AnySpec, AnyAnnotations, Statuses)
      /\ strays = 0 /\ v.finalizer
  BY StepKube, StraysStep DEF IInv, WantsDropped
<1>1. /\ api'.uid = api.uid /\ ~api'.finalizer
      /\ \/ Released
         \/ Releases /\ WorkerStep(AnyAnnotations, Statuses)
         \/ Retired /\ ~api.finalizer
              /\ UserStep(AnySpec, AnyAnnotations, Statuses)
  BY <1>0, ReleasedAppears DEF Released
<1>2. v \in watch \cup {cache, api} \/ (Holding' /\ v = local')
  BY <1>0, <1>1, WatchMovesOn, CacheMovesOn
<1>3. n \in Schemas
  <2>1. v \in Objects(AnySpec, AnyAnnotations, Statuses)
    BY <1>0 DEF KubeInv, KubeTypeOK
  <2>. QED  BY <2>1 DEF Objects, AnySpec, Schemas
<1>4. api.exists /\ api.uid # 0
  <2>1. api.exists
    BY <1>0, <1>1, EverybodyKnows DEF Released, Releases, Retired
  <2>. QED  BY <1>0, <2>1 DEF KubeInv, UidGiven
<1>5. createdBy[n] # api.uid
  <2>1. CASE Released
    <3>1. CASE v \in watch \cup {cache, api}
      BY <1>0, <1>1, <2>1, <3>1 DEF IInv, ReleasedIsDropped, Released
    <3>2. CASE Holding' /\ v = local'
      <4>1. CASE local' = cache
        BY <1>0, <1>1, <2>1, <3>2, <4>1 DEF IInv, ReleasedIsDropped, Released
      <4>2. CASE /\ Holding
                 /\ local'.uid = local.uid
                 /\ local'.finalizer = local.finalizer
                 /\ local'.spec = local.spec /\ local'.annot = local.annot
        BY <1>0, <1>1, <2>1, <3>2, <4>2
           DEF IInv, ReleasedIsDropped, Released, WantsDropped
      <4>. QED  BY <1>0, <1>1, <3>2, <4>1, <4>2, HeldCopy
    <3>. QED  BY <1>2, <3>1, <3>2
  <2>2. CASE Releases /\ WorkerStep(AnyAnnotations, Statuses)
    <3>1. pc = "removeFinalizer" /\ Current /\ ~Holding'
      BY <2>2 DEF Releases, Holding
    <3>2. \A w \in Versions : SameVersion(w, api)
      BY <1>0, <3>1, EverybodyKnows
    <3>3. SameVersion(v, local)
      BY <1>2, <3>1, <3>2 DEF Versions, SameVersion
    <3>4. catalog[n] = Absent
      BY <1>0, <3>1, <3>3 DEF IInv, DropsKnown, SameVersion, WantsDropped
    <3>. QED  BY <1>3, <1>4, <3>4 DEF IInv, CreationsStay
  <2>3. CASE Retired /\ ~api.finalizer
               /\ UserStep(AnySpec, AnyAnnotations, Statuses)
    <3>1. api.exists /\ ~api.deleting /\ ~api.finalizer
      BY <2>3 DEF Retired
    <3>2. \A m \in Schemas : createdBy[m] # 0 => createdBy[m] # api.uid
      BY <3>1 DEF IInv, CreatedHasFinalizer
    <3>. QED  BY <1>3, <1>4, <3>2
  <2>. QED  BY <1>1, <2>1, <2>2, <2>3
<1>6. ~(pc = "create" /\ createdBy'[n] = local.uid /\ local.uid = api.uid)
      \/ UNCHANGED createdBy
  <2>1. CASE Released
    BY <2>1, NotReleased
  <2>2. CASE Releases
    BY <2>2 DEF Releases
  <2>3. CASE UserStep(AnySpec, AnyAnnotations, Statuses) /\ Retired
    <3>1. api' # api
      BY <2>3 DEF Retired
    <3>. QED
      BY <3>1
         DEF Next, Reconcile, Fetch, resolveAdminCredentials, Connect,
             AddFinalizer, Finalize, UseToDrop, DropSchema, OnFailure,
             removeFinalizer, UseDatabase, CheckSchemaExists, CreateSchema,
             GetSchemaOwner, AlterSchemaOwner, ReportFailure, ReportReady,
             Deliveries, UserWrite, Crash, OtherUse, vars, sqlVars
  <2>. QED  BY <1>1, <2>1, <2>2, <2>3
<1>. QED  BY <1>1, <1>3, <1>4, <1>5, <1>6, CreationsGrow

-------------------------------------------------------------------------------
(* Ready. *)

\* While no statement strays, each of them is about the schema of the spec.
LEMMA CatalogMoves ==
    ASSUME IInv, [Next]_vars, strays' = 0
    PROVE  LET n == <<local.spec.database, local.spec.name>> IN
           /\ strays = 0
           /\ \/ catalog' = catalog
              \/ pc = "dropSchema" /\ catalog' = [catalog EXCEPT ![n] = Absent]
              \/ /\ pc = "create" /\ catalog[n] = Absent
                 /\ \E o \in Owners \cup {Admin} :
                      catalog' = [catalog EXCEPT ![n] = o]
              \/ /\ pc = "alter" /\ local.spec.owner \in Owners \cup {Admin}
                 /\ catalog' = [catalog EXCEPT ![n] = local.spec.owner]
<1>1. strays = 0
  BY StraysStep
<1>2. \A s \in Sessions :
        RunOn(s) => Here(s) = <<local.spec.database, local.spec.name>>
  BY NotStrayed, HereType
<1>. QED  BY <1>1, <1>2, CatalogStep

LEMMA StepReadyIsKnown ==
    ASSUME IInv, [Next]_vars
    PROVE  ReadyIsKnown'
<1>1. Patches(AnyAnnotations, Statuses) => local' = local
  <2>1. SUFFICES ASSUME pc' = "ready", Holding PROVE local' = local
    BY DEF Patches
  <2>2. CASE \/ UseToDrop \/ DropSchema \/ UseDatabase \/ CheckSchemaExists
             \/ CreateSchema \/ GetSchemaOwner \/ AlterSchemaOwner
    BY <2>1, <2>2, StatementStep
  <2>3. CASE AddFinalizer
    BY <2>1, <2>3 DEF AddFinalizer, StoreFinalizer, Goto, Requeue
  <2>. QED
    BY <2>1, <2>2, <2>3
       DEF Next, Reconcile, Fetch, resolveAdminCredentials, Connect, Finalize,
           OnFailure, removeFinalizer, ReportFailure, ReportReady, Crash,
           Deliveries, Deliver, UserWrite, Create, EditSpec, Annotate, Delete,
           Release, OtherUse, vars, kubeVars, FetchResource,
           ResolveCredentials, GetConnection, Attempt, ChooseFinalization,
           ReportFinalization, ReleaseFinalizer, WriteFailure, WriteReady,
           Goto, Done, Requeue, Fail
<1>. QED  BY <1>1, StepKube, SchemaStatuses, KubeStepReady DEF IInv

LEMMA StepCatalogKnown ==
    ASSUME IInv, [Next]_vars
    PROVE  CatalogKnown'
<1>. DEFINE n == <<local.spec.database, local.spec.name>>
<1>. SUFFICES ASSUME strays' = 0, pc' \in {"owner", "alter", "ready"}
              PROVE  /\ catalog'[n'] # Absent
                     /\ pc' = "ready"
                          => local'.spec.owner \in {NoOwner, catalog'[n']}
  BY DEF CatalogKnown
<1>1. /\ catalog \in [Schemas -> Owners \cup {Admin, Absent}]
      /\ n \in Schemas /\ strays = 0
      /\ \A s \in Sessions : RunOn(s) => Here(s) = n
  BY HereType, NotStrayed, StraysStep
     DEF IInv, SqlTypeOK, KubeInv, KubeTypeOK, Objects, AnySpec, Schemas
<1>2. Absent \notin Owners \cup {Admin}
  BY SchemaAssumption
<1>3. CASE CheckSchemaExists \/ GetSchemaOwner
  <2>1. local'.spec = local.spec /\ catalog' = catalog
    BY <1>3, StatementStep DEF CheckSchemaExists, GetSchemaOwner
  <2>2. catalog[n] # Absent
    <3>1. CASE CheckSchemaExists
      BY <1>1, <3>1 DEF CheckSchemaExists, Goto, Requeue
    <3>2. CASE GetSchemaOwner
      BY <1>1, <3>2 DEF GetSchemaOwner, IInv, CatalogKnown
    <3>. QED  BY <1>3, <3>1, <3>2
  <2>3. pc' = "ready" => local.spec.owner \in {NoOwner, catalog[n]}
    BY <1>1, <1>3 DEF CheckSchemaExists, GetSchemaOwner, Goto, Requeue, Fail
  <2>. QED  BY <2>1, <2>2, <2>3
<1>4. CASE CreateSchema
  <2>1. local'.spec = local.spec /\ pc' = "owner" /\ catalog' # catalog
    <3>1. local'.spec = local.spec
      BY <1>4, StatementStep
    <3>2. pc' = "owner"
      BY <1>4 DEF CreateSchema, Goto, Fail
    <3>3. PICK s \in Sessions :
            /\ catalog[Here(s)] = Absent
            /\ catalog' = [catalog EXCEPT ![Here(s)] =
                 IF local.spec.owner = NoOwner THEN Admin ELSE local.spec.owner]
      BY <1>4, <3>2 DEF CreateSchema, Fail, Goto
    <3>4. catalog' # catalog
      BY <1>1, <1>2, <3>3, HereType DEF IInv, WorkerKnows
    <3>. QED  BY <3>1, <3>2, <3>4
  <2>2. \E o \in Owners \cup {Admin} : catalog' = [catalog EXCEPT ![n] = o]
    BY <1>4, <2>1, CatalogMoves DEF CreateSchema
  <2>. QED  BY <1>1, <1>2, <2>1, <2>2
<1>5. CASE AlterSchemaOwner
  <2>1. local'.spec = local.spec /\ pc' = "ready"
    BY <1>5, StatementStep DEF AlterSchemaOwner, Goto, Fail
  <2>2. /\ local.spec.owner \in Owners \cup {Admin}
        /\ catalog' = [catalog EXCEPT ![n] = local.spec.owner]
    <3>1. local.spec.owner \in Owners \cup {Admin}
      BY <1>5, HereType
         DEF AlterSchemaOwner, IInv, WorkerKnows, KubeInv, KubeTypeOK, Objects,
             AnySpec
    <3>2. \E s \in Sessions :
            RunOn(s) /\ catalog' = [catalog EXCEPT ![Here(s)] = local.spec.owner]
      BY <1>5, <2>1 DEF AlterSchemaOwner, Goto, Fail
    <3>. QED  BY <1>1, <3>1, <3>2
  <2>. QED  BY <1>1, <1>2, <2>1, <2>2
<1>6. CASE Deliveries \/ UserWrite \/ OtherUse \/ UNCHANGED vars
  <2>1. UNCHANGED <<local, pc, catalog>>
    BY <1>6 DEF Deliveries, Deliver, UserWrite, Create, EditSpec, Annotate,
                Delete, Release, OtherUse, vars, kubeVars, sqlVars
  <2>. QED  BY <1>1, <2>1 DEF IInv, CatalogKnown
<1>7. CASE \/ UseToDrop \/ DropSchema \/ UseDatabase \/ Fetch
           \/ resolveAdminCredentials \/ Connect \/ AddFinalizer \/ Finalize
           \/ OnFailure \/ removeFinalizer \/ ReportFailure \/ ReportReady
           \/ Crash
  BY <1>7
     DEF UseToDrop, DropSchema, UseDatabase, Fetch, resolveAdminCredentials,
         Connect, AddFinalizer, Finalize, OnFailure, removeFinalizer,
         ReportFailure, ReportReady, Crash, FetchResource, ResolveCredentials,
         GetConnection, Attempt, StoreFinalizer, ChooseFinalization,
         ReportFinalization, ReleaseFinalizer, WriteFailure, WriteReady, Goto,
         Done, Requeue, Fail
<1>. QED  BY <1>3, <1>4, <1>5, <1>6, <1>7 DEF Next, Reconcile

LEMMA StepReadyIsTruthful ==
    ASSUME IInv, [Next]_vars
    PROVE  ReadyIsTruthful'
<1>. SUFFICES ASSUME Ready', strays' = 0
              PROVE  AsSpecified'
  BY DEF ReadyIsTruthful
<1>0. /\ KubeInv(AnySpec, AnyAnnotations, Statuses)
      /\ KubeStep(AnySpec, AnyAnnotations, Statuses)
      /\ StatusesClosed(Statuses) /\ strays = 0
  BY StepKube, SchemaStatuses, StraysStep DEF IInv
<1>1. /\ Ready \/ (Reports(Statuses) /\ pc = "ready")
      /\ api'.spec = api.spec
  BY <1>0, ReadyAppears
<1>2. CASE Reports(Statuses) /\ pc = "ready"
  <2>1. local.spec = api.spec
    BY <1>0, <1>2, ReportsEffect DEF SameVersion
  <2>2. catalog' = catalog
    BY <1>2, CatalogMoves
  <2>. QED
    BY <1>0, <1>1, <1>2, <2>1, <2>2
       DEF IInv, CatalogKnown, AsSpecified, Wanted
<1>3. CASE Ready
  <2>1. AsSpecified
    BY <1>0, <1>3 DEF IInv, ReadyIsTruthful
  <2>2. pc # "idle" => local.spec = api.spec /\ ~local.deleting
    BY <1>0, <1>3, ReadyMeansCurrent DEF IInv
  <2>3. pc # "dropSchema"
    BY <2>2 DEF IInv, WorkerKnows
  <2>4. CASE catalog' = catalog
    BY <1>1, <2>1, <2>4 DEF AsSpecified, Wanted
  <2>5. pc # "create" \/ catalog[<<local.spec.database, local.spec.name>>] # Absent
    BY <2>1, <2>2 DEF AsSpecified, Wanted
  <2>6. CASE /\ pc = "alter" /\ local.spec.owner \in Owners \cup {Admin}
             /\ catalog' = [catalog EXCEPT ![Wanted] = local.spec.owner]
    <3>1. local.spec = api.spec /\ Absent \notin Owners \cup {Admin}
      BY <2>2, <2>6, SchemaAssumption
    <3>2. Wanted \in Schemas /\ catalog \in [Schemas -> Owners \cup {Admin, Absent}]
      BY DEF IInv, SqlTypeOK, KubeInv, KubeTypeOK, Objects, AnySpec, Wanted,
             Schemas
    <3>3. catalog'[Wanted] = api.spec.owner /\ api.spec.owner # Absent
      BY <2>6, <3>1, <3>2
    <3>4. Wanted' = Wanted
      BY <1>1 DEF Wanted
    <3>. QED  BY <1>1, <3>3, <3>4 DEF AsSpecified
  <2>. QED  BY <2>2, <2>3, <2>4, <2>5, <2>6, CatalogMoves DEF Wanted
<1>. QED  BY <1>1, <1>2, <1>3

-------------------------------------------------------------------------------
(* The inductive invariant. *)

LEMMA InitInvariant == Init => IInv
<1>. SUFFICES ASSUME Init PROVE IInv
  OBVIOUS
<1>1. PICK s \in Specs :
        api = [exists |-> FALSE, rv |-> 0, uid |-> 0, gen |-> 0, spec |-> s,
               annot |-> [policy |-> "none", paused |-> FALSE],
               deleting |-> FALSE, finalizer |-> FALSE, held |-> FALSE,
               status |-> NoStatus]
  BY DEF Init
<1>2. api \in Objects(AnySpec, AnyAnnotations, Statuses) /\ ~api.exists
      /\ ~api.finalizer /\ api.uid = 0 /\ api.status.observedGeneration = 0
  <2>1. /\ s \in AnySpec /\ NoStatus \in Statuses
        /\ [policy |-> "none", paused |-> FALSE] \in AnyAnnotations
    BY SchemaAssumption, SchemaStatuses DEF AnyAnnotations
  <2>. QED  BY <1>1, <2>1 DEF Objects, NoStatus
<1>3. KubeInv(AnySpec, AnyAnnotations, Statuses)
  BY <1>2, KubeInitInv DEF Init
<1>4. SqlTypeOK
  <2>1. strays \in 0..MaxStrays
    BY SchemaAssumption DEF Init
  <2>2. sessions \in [Sessions -> Databases] /\ pc \in Steps
    BY SchemaAssumption DEF Init, Steps
  <2>3. /\ catalog \in [Schemas -> Owners \cup {Admin, Absent}]
        /\ createdBy \in [Schemas -> Nat]
    BY DEF Init
  <2>. QED  BY <2>1, <2>2, <2>3 DEF SqlTypeOK
<1>5. CreationsKnown /\ CreatedHasFinalizer /\ CreationsStay
  BY <1>2, <1>3
     DEF Init, CreationsKnown, CreatedHasFinalizer, CreationsStay, KubeInv,
         KubeTypeOK, Objects
<1>6. PublicStays
  <2>1. \A d \in Databases : <<d, Public>> \in Schemas
    BY SchemaAssumption DEF Schemas
  <2>. QED  BY <2>1, SchemaAssumption DEF Init, PublicStays
<1>7. WorkerKnows /\ DropsKnown /\ ReleasedIsDropped
  BY <1>2 DEF Init, WorkerKnows, DropsKnown, ReleasedIsDropped
<1>8. ReadyIsKnown /\ CatalogKnown /\ ReadyIsTruthful
  BY <1>2 DEF Init, ReadyIsKnown, CatalogKnown, ReadyIsTruthful, Ready
<1>. QED  BY <1>3, <1>4, <1>5, <1>6, <1>7, <1>8 DEF IInv

LEMMA StepInvariant == IInv /\ [Next]_vars => IInv'
<1>. SUFFICES ASSUME IInv, [Next]_vars PROVE IInv'
  OBVIOUS
<1>1. KubeInv(AnySpec, AnyAnnotations, Statuses)' /\ SqlTypeOK'
  BY StepKube, StepSqlType
<1>2. WorkerKnows' /\ CreationsKnown' /\ DropsKnown'
  BY StepKnows, StepCreationsKnown, StepDropsKnown
<1>3. CreatedHasFinalizer' /\ PublicStays'
  BY StepCreatedHasFinalizer, StepPublic
<1>4. CreationsStay' /\ ReleasedIsDropped'
  BY StepCreationsStay, StepReleasedIsDropped
<1>5. ReadyIsKnown' /\ CatalogKnown' /\ ReadyIsTruthful'
  BY StepReadyIsKnown, StepCatalogKnown, StepReadyIsTruthful
<1>. QED  BY <1>1, <1>2, <1>3, <1>4, <1>5 DEF IInv

LEMMA Invariant == Spec => []IInv
BY InitInvariant, StepInvariant, PTL DEF Spec

-------------------------------------------------------------------------------
(* The theorems. *)

\* The state always has the types the reconciler's code gives it, whatever the
\* sizes of the cluster, the session pool and the budgets.
THEOREM TypeCorrect == Spec => []TypeOK
<1>1. IInv => TypeOK
  BY DEF IInv, KubeInv, KubeTypeOK, SqlTypeOK, TypeOK, Object
<1>. QED  BY <1>1, Invariant, PTL

\* A schema that a reconcile created, in the database of the spec or by a
\* stray statement in another, belongs to a resource that has the finalizer
\* stored until it is deleted: nothing is created that finalization forgets.
THEOREM CreatedIsFinalized == Spec => []CreatedHasFinalizer
<1>1. IInv => CreatedHasFinalizer
  BY DEF IInv
<1>. QED  BY <1>1, Invariant, PTL

\* While no statement has run in another database than meant, a resource that
\* says Ready for its stored generation has its schema, with the owner of its
\* spec: a call that began with an older spec can neither report nor undo it,
\* whatever edits, lost answers and crashes come in between.
THEOREM ReadyTellsTheTruth == Spec => []ReadyIsTruthful
<1>1. IInv => ReadyIsTruthful
  BY DEF IInv
<1>. QED  BY <1>1, Invariant, PTL

\* No reconcile drops public in any database, on whichever session its DROP
\* SCHEMA runs.
THEOREM PublicIsKept == Spec => []PublicStays
<1>1. IInv => PublicStays
  BY DEF IInv
<1>. QED  BY <1>1, Invariant, PTL

\* Under policy "delete" the finalizer is only removed once the schema is
\* gone, if no statement strayed: the stored resource is the worker's copy
\* when it goes, and the call has dropped what that copy names.
THEOREM FinalizedIsDropped == Spec => FinalizedMeansDropped
<1>. DEFINE A == api.finalizer /\ ~api'.finalizer
                   /\ api.annot.policy = "delete"
                   /\ api.spec.name # Public /\ strays = 0
                     => catalog[Wanted] = Absent
<1>1. IInv /\ [Next]_vars => A
  <2>. SUFFICES ASSUME IInv, [Next]_vars, api.finalizer, ~api'.finalizer,
                       api.annot.policy = "delete", api.spec.name # Public,
                       strays = 0
                PROVE  catalog[Wanted] = Absent
    OBVIOUS
  <2>1. /\ KubeInv(AnySpec, AnyAnnotations, Statuses)
        /\ KubeStep(AnySpec, AnyAnnotations, Statuses)
    BY StepKube DEF IInv
  <2>2. api.exists
    BY <2>1 DEF KubeInv, GoneIsUnguarded
  <2>3. pc = "removeFinalizer" /\ Current
    BY <2>1, <2>2, WorkerStepEffect, UserStepEffect
       DEF KubeStep, OtherStep, Deliver, Relist, Releases, Declared, Amended,
           Retired, LetGone
  <2>4. SameVersion(local, api)
    BY <2>1, <2>3, CurrentMeansSame DEF KubeInv
  <2>. QED  BY <2>3, <2>4 DEF IInv, DropsKnown, SameVersion, Wanted
<1>2. IInv /\ [Next]_vars => [A]_vars
  BY <1>1
<1>. QED  BY <1>2, Invariant, PTL DEF Spec, FinalizedMeansDropped

-------------------------------------------------------------------------------
(* The reconciler implements ResourceLifecycle. *)

Keeps == api.annot.policy # "delete" \/ api.spec.name = Public

Strayed == strays > 0

LP ==
    INSTANCE ResourceLifecycleProofs WITH
        Things <- Schemas, stage <- Stage, made <- Made,
        wanted <- Wanted, keeps <- Keeps, others <- Strayed

LEMMA MapType == IInv => LP!TypeOK /\ LP!NothingUnguarded
<1>. SUFFICES ASSUME IInv PROVE LP!TypeOK /\ LP!NothingUnguarded
  OBVIOUS
<1>1. Wanted \in Schemas /\ Keeps \in BOOLEAN /\ Strayed \in BOOLEAN
  BY DEF IInv, KubeInv, KubeTypeOK, Objects, AnySpec, Wanted, Schemas, Keeps,
         Strayed
<1>2. Made \subseteq Schemas /\ Stage \in LP!Stages
  BY DEF Made, Stage, LP!Stages, IInv, KubeInv, KubeTypeOK, Objects
<1>3. ASSUME Stage \in {"absent", "declared"} PROVE Made = {}
  <2>1. ~api.exists \/ (~api.deleting /\ ~api.finalizer)
    BY <1>3 DEF Stage, IInv, KubeInv, KubeTypeOK, Objects
  <2>2. api.exists => api.uid # 0
    BY DEF IInv, KubeInv, UidGiven
  <2>. QED  BY <2>1, <2>2 DEF Made, IInv, CreatedHasFinalizer
<1>. QED  BY <1>1, <1>2, <1>3 DEF LP!TypeOK, LP!NothingUnguarded

\* Statements change nothing about the stored resource.
LEMMA StatementsAside ==
    ASSUME IInv, [Next]_vars
    PROVE  UNCHANGED <<createdBy, strays>> \/ api' = api
BY DEF Next, Reconcile, Fetch, resolveAdminCredentials, Connect, AddFinalizer,
       Finalize, UseToDrop, DropSchema, OnFailure, removeFinalizer,
       UseDatabase, CheckSchemaExists, CreateSchema, GetSchemaOwner,
       AlterSchemaOwner, ReportFailure, ReportReady, Deliveries, UserWrite,
       Crash, OtherUse, vars, sqlVars

\* How a statement changes what is made.
LEMMA MadeStep ==
    ASSUME IInv, [Next]_vars, api' = api
    PROVE  \/ Made' = Made
           \/ /\ Stage \in {"guarded", "leaving"}
              /\ \E n \in Schemas \ Made : Made' = Made \cup {n}
           \/ /\ Stage = "leaving" \/ strays' > 0
              /\ \E n \in Made : Made' = Made \ {n}
<1>0. /\ api.exists \in BOOLEAN /\ api.deleting \in BOOLEAN
      /\ api.finalizer \in BOOLEAN /\ api.uid \in Nat /\ local.uid \in Nat
      /\ strays' \in Nat /\ local.uid <= api.uid
  BY StepSqlType
     DEF IInv, KubeInv, KubeTypeOK, Objects, SqlTypeOK, VersionsInOrder,
         Versions, Precedes
<1>1. CASE ~api.exists
  BY <1>1 DEF Made
<1>2. CASE api.exists /\ UNCHANGED createdBy
  BY <1>2 DEF Made
<1>3. ASSUME api.exists, NEW s \in Sessions, pc = "dropSchema", RunOn(s),
             createdBy' = [createdBy EXCEPT ![Here(s)] = 0],
             Made' # Made
      PROVE  /\ Stage = "leaving" \/ strays' > 0
             /\ \E n \in Made : Made' = Made \ {n}
  <2>1. /\ api.uid # 0 /\ createdBy \in [Schemas -> Nat]
        /\ Here(s) \in Schemas
    BY <1>3, HereType DEF IInv, KubeInv, UidGiven, SqlTypeOK
  <2>2. Made' = Made \ {Here(s)}
    BY <1>3, <2>1 DEF Made
  <2>3. Here(s) \in Made /\ createdBy[Here(s)] = api.uid
    <3>1. Here(s) \in Made
      BY <1>3, <2>2
    <3>. QED  BY <1>3, <3>1 DEF Made
  <2>4. ASSUME strays' = 0 PROVE Stage = "leaving"
    <3>1. strays = 0 /\ Here(s) = <<local.spec.database, local.spec.name>>
      BY <1>3, <2>4, NotStrayed, HereType
    <3>2. Holding /\ local.deleting /\ WantsDropped(local)
      BY <1>3 DEF Holding, IInv, WorkerKnows, WantsDropped
    <3>3. local.uid = api.uid
      BY <1>0, <2>1, <2>3, <3>2 DEF IInv, CreationsKnown
    <3>4. api.deleting
      BY <3>2, <3>3
         DEF IInv, KubeInv, VersionsInOrder, Versions, Precedes, SameLife
    <3>5. api.finalizer
      BY <1>3, <2>3, <3>1, <3>2, <3>3, <3>4 DEF IInv, ReleasedIsDropped
    <3>. QED  BY <1>3, <3>4, <3>5 DEF Stage
  <2>. QED  BY <1>0, <2>2, <2>3, <2>4
<1>4. ASSUME api.exists, NEW s \in Sessions, pc = "create",
             catalog[Here(s)] = Absent,
             createdBy' = [createdBy EXCEPT ![Here(s)] = local.uid],
             Made' # Made
      PROVE  /\ Stage \in {"guarded", "leaving"}
             /\ \E n \in Schemas \ Made : Made' = Made \cup {n}
  <2>1. /\ createdBy \in [Schemas -> Nat] /\ Here(s) \in Schemas
    BY <1>4, HereType DEF IInv, SqlTypeOK
  <2>2. Here(s) \notin Made
    <3>1. createdBy[Here(s)] = 0 /\ api.uid # 0
      BY <1>4, <2>1 DEF IInv, CreationsStay, KubeInv, UidGiven
    <3>. QED  BY <1>4, <3>1 DEF Made
  <2>3. local.uid = api.uid /\ Made' = Made \cup {Here(s)}
    BY <1>4, <2>1, <2>2 DEF Made
  <2>4. api.finalizer
    <3>1. Holding /\ local.finalizer /\ ~local.deleting
      BY <1>4 DEF Holding, IInv, WorkerKnows
    <3>. QED  BY <1>4, <2>3, <3>1, HeldMeansGuarded DEF IInv
  <2>. QED  BY <1>0, <1>4, <2>1, <2>2, <2>3, <2>4 DEF Stage
<1>. QED  BY <1>0, <1>1, <1>2, <1>3, <1>4, CatalogStep

LEMMA LifecycleInit == Init => Lifecycle!Init
<1>. SUFFICES ASSUME Init PROVE Lifecycle!Init
  OBVIOUS
<1>1. IInv
  BY InitInvariant
<1>2. ~api.exists /\ strays = 0
  BY DEF Init
<1>3. Stage = "absent" /\ Made = {} /\ (strays > 0) = FALSE
  BY <1>2 DEF Stage, Made
<1>. QED  BY <1>1, <1>3, MapType DEF Lifecycle!Init, Keeps, LP!TypeOK

\* The finalizer goes when what the resource stands for is gone, may stay, or
\* may have been missed by a stray statement.
LEMMA ReleasedLast ==
    ASSUME IInv, pc = "removeFinalizer", Current
    PROVE  Keeps \/ Wanted \notin Made \/ Strayed
<1>. SUFFICES ASSUME ~Keeps, ~Strayed PROVE Wanted \notin Made
  OBVIOUS
<1>1. strays = 0
  BY DEF Strayed, IInv, SqlTypeOK
<1>2. SameVersion(local, api)
  BY CurrentMeansSame DEF IInv, KubeInv
<1>3. catalog[Wanted] = Absent
  BY <1>1, <1>2 DEF IInv, DropsKnown, SameVersion, Wanted, Keeps
<1>4. createdBy[Wanted] = 0 /\ api.uid # 0
  BY <1>3, MapType
     DEF LP!TypeOK, IInv, CreationsStay, Current, KubeInv, UidGiven
<1>. QED  BY <1>4 DEF Made

LEMMA LifecycleStep ==
    IInv /\ [Next]_vars => [Lifecycle!Next]_(Lifecycle!lifecycleVars)
<1>. SUFFICES ASSUME IInv, [Next]_vars
              PROVE  [Lifecycle!Next]_(Lifecycle!lifecycleVars)
  OBVIOUS
<1>0. /\ KubeInv(AnySpec, AnyAnnotations, Statuses)
      /\ KubeStep(AnySpec, AnyAnnotations, Statuses)
      /\ IInv'
  BY StepKube, StepInvariant DEF IInv
<1>1. LP!TypeOK /\ LP!NothingUnguarded /\ LP!TypeOK'
  BY <1>0, MapType, PTL
<1>. SUFFICES LP!ThingsMove \/ LP!StageMoves
  <2>1. ASSUME LP!ThingsMove \/ LP!StageMoves
        PROVE  [LP!Next]_(LP!lifecycleVars)
    BY <1>1, <2>1, LP!LifeMoves
  <2>. QED
    BY <2>1
       DEF LP!Next, LP!lifecycleVars, LP!Declare, LP!Amend, LP!Retire,
           LP!Guard, LP!Provide, LP!Withdraw, LP!Release, LP!LetGo,
           LP!Interfere, Lifecycle!Next, Lifecycle!lifecycleVars,
           Lifecycle!Declare, Lifecycle!Amend, Lifecycle!Retire,
           Lifecycle!Guard, Lifecycle!Provide, Lifecycle!Withdraw,
           Lifecycle!Release, Lifecycle!LetGo, Lifecycle!Interfere, Keeps,
           Strayed
<1>2. CASE api' = api
  <2>1. Stage' = Stage /\ Wanted' = Wanted /\ Keeps' = Keeps
    BY <1>2 DEF Stage, Wanted, Keeps
  <2>2. strays \in Nat /\ strays' \in Nat /\ (strays' = 0 => strays = 0)
    BY <1>0, StraysStep DEF IInv, SqlTypeOK
  <2>3. (Strayed => Strayed') /\ (strays' > 0 => Strayed')
    BY <2>2 DEF Strayed
  <2>. QED  BY <1>2, <2>1, <2>3, MadeStep DEF LP!ThingsMove
<1>3. CASE UNCHANGED <<createdBy, strays>>
  <2>1. api'.exists /\ ~api'.deleting /\ ~api'.finalizer
          => \A n \in Schemas : createdBy[n] # api'.uid
    BY <1>0, <1>3 DEF IInv, CreatedHasFinalizer, KubeInv, UidGiven
  <2>2. Made' = IF Stage' \in {"absent", "declared"} THEN {} ELSE Made
    BY <1>0, <1>3, <2>1, StageTellsLife DEF Made
  <2>3. SameWishes => Wanted' = Wanted /\ Keeps' = Keeps
    BY DEF SameWishes, Wanted, Keeps
  <2>4. Strayed' = Strayed /\ (Stage = "absent" => ~api.exists)
    BY <1>0, <1>3, StageTellsLife DEF Strayed
  <2>. QED
    BY <1>0, <2>2, <2>3, <2>4, KubeStepStage, ReleasedLast
       DEF StageStep, LP!StageMoves
<1>. QED  BY <1>2, <1>3, StatementsAside

\* Wherever its statements run, the schema reconciler keeps ResourceLifecycle's
\* promise: it creates only for a resource whose finalizer is stored, drops only
\* for one being deleted, and lets go of a resource whose schema must go only
\* once it is gone, with the exception of what a stray statement did.
THEOREM SchemaImplementsLifecycle == Spec => ImplementsLifecycle
<1>1. Init => Lifecycle!Init
  BY LifecycleInit
<1>2. IInv /\ [Next]_vars => [Lifecycle!Next]_(Lifecycle!lifecycleVars)
  BY LifecycleStep
<1>. QED
  BY <1>1, <1>2, Invariant, PTL DEF Spec, ImplementsLifecycle, Lifecycle!Spec

===============================================================================
