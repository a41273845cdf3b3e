------------------------- MODULE UserControllerProofs -------------------------
(***************************************************************************)
(* Proofs about UserController for any names, permissions, passwords and   *)
(* specs, and any budget of edits, faults, rotations and foreign changes.  *)
(*                                                                         *)
(* What concerns the Kubernetes side only is ReconcilerProofs'.            *)
(***************************************************************************)
EXTENDS UserController, ReconcilerProofs

UserTypeOK ==
    /\ drift \in 0..MaxDrift /\ rotations \in 0..MaxRotations
    /\ stale \in 0..MaxStale
    /\ users \in [Names -> User \cup {Absent}]
    /\ secret \in AnyPassword /\ secretCache \in AnyPassword
    /\ password \in AnyPassword
    /\ secretSynced \in BOOLEAN
    /\ createdBy \in [Names -> Nat]
    /\ altered \subseteq Names /\ created \in BOOLEAN
    /\ pc \in Steps

\* The steps of a call that has stored the finalizer.
Providing ==
    pc \in {"password", "check", "create", "alterPassword", "permissions",
            "privileges", "secret", "unannotate"}

\* Finalizing this version of the resource drops its user.
WantsDropped(v) ==
    v.finalizer /\ v.annot.policy # "abandon" /\ v.status.userCreated

\* What the worker knows of the copy it holds at each step.
WorkerKnows ==
    /\ Providing => local.finalizer /\ ~local.deleting
    /\ pc = "drop" => local.deleting /\ WantsDropped(local)
    /\ pc = "unannotate" => local.annot.rotate
    /\ pc = "alterPassword" => IsPasswordAuth

\* Creations are not newer than what the cache and the worker know of.
CreationsKnown ==
    \A n \in Names :
        createdBy[n] <= cache.uid /\ (Holding => createdBy[n] <= local.uid)

\* A call that rotates has, from "permissions" on, altered the password to its
\* own, unless it has created the user.
PasswordIsNew ==
    /\ drift = 0
    /\ local.annot.rotate /\ IsPasswordAuth
    /\ pc \in {"permissions", "privileges", "secret", "unannotate"}
    /\ ~created
    => users[local.spec.name].password = password

\* The Secret is written before the annotation goes.
SecretIsNew ==
    pc = "unannotate" /\ local.spec.auth = "managed"
        => secret \in {password, None}

\* No version of the resource asks for a rotation that was not counted.
RotationsCounted ==
    rotations = 0 => \A v \in Versions \cup {api} : ~v.annot.rotate

\* Without rotations, no answer of a patch overtakes the call's own copy.
NothingOvertakes == rotations = 0 => ReadyIsKnown

\* The worker that comes to these steps has seen or made the user, and from
\* "privileges" on has granted it what its copy says.
UsersKnown ==
    LET n == local.spec.name IN
    drift = 0 /\ rotations = 0 =>
        /\ pc \in {"permissions", "privileges", "secret", "ready"} => Exists(n)
        /\ pc \in {"privileges", "secret", "ready"}
             => local.spec.permissions \subseteq users[n].permissions

\* What a reconcile has created, and nobody has dropped, is there.
CreationsStay == \A n \in Names : createdBy[n] # 0 => Exists(n)

\* Without foreign changes, what the copy wants dropped is gone when the
\* finalizer is about to go.
DropsKnown ==
    /\ pc = "removeFinalizer" /\ local.annot.policy # "abandon"
    /\ local.status.userCreated /\ drift = 0
    => ~Exists(local.spec.name)

\* Once the resource is released, what any version of it that can still be
\* finalized wants dropped has been dropped. (A call about to report a failure
\* finalizes nothing any more.)
ReleasedIsDropped ==
    Released /\ drift = 0 =>
        \A v \in watch \cup {cache}
                \cup (IF Holding /\ pc # "report" THEN {local} ELSE {}) :
            v.uid = api.uid /\ WantsDropped(v) =>
                createdBy[v.spec.name] # api.uid

IInv ==
    /\ KubeInv(AnySpec, AnyAnnotations, Statuses)
    /\ UserTypeOK
    /\ WorkerKnows
    /\ CreationsKnown
    /\ CreatedHasFinalizer
    /\ PasswordIsNew
    /\ SecretIsNew
    /\ RotationsCounted
    /\ NothingOvertakes
    /\ UsersKnown
    /\ ReadyIsTruthful
    /\ CreationsStay
    /\ DropsKnown
    /\ ReleasedIsDropped

-------------------------------------------------------------------------------
(* Every step is a step of the Kubernetes side. *)

LEMMA UserStatuses == NoStatus \in Statuses /\ StatusesClosed(Statuses)
<1>1. NoStatus \in Statuses
  BY DEF NoStatus, Statuses, Reasons
<1>2. ASSUME NEW s \in Statuses,
             NEW r \in {"FailedToGetSecret", "ConnectionFailed",
                        "FailedToFinalize"}
      PROVE  LET t == WithReason(s, r) IN
             /\ t \in Statuses /\ t.reason = r
             /\ t.observedGeneration = s.observedGeneration
  BY DEF Statuses, Reasons, WithReason
<1>3. ASSUME NEW s \in Statuses, NEW g \in Nat
      PROVE  LET t == [s EXCEPT !.reason = "Completed",
                                !.observedGeneration = g] IN
             t \in Statuses /\ t.observedGeneration = g
  BY DEF Statuses, Reasons
<1>4. \A s \in Statuses : s.observedGeneration \in Nat
  BY DEF Statuses
<1>. QED  BY <1>1, <1>2, <1>3, <1>4 DEF StatusesClosed

LEMMA LocalType ==
    ASSUME IInv
    PROVE  /\ local \in Objects(AnySpec, AnyAnnotations, Statuses)
           /\ local.status \in Statuses /\ queued \in BOOLEAN
           /\ local.spec.name \in Names /\ local.uid \in Nat
           /\ local.spec.permissions \subseteq Permissions
           /\ local.annot \in AnyAnnotations
BY DEF IInv, KubeInv, KubeTypeOK, Objects, AnySpec

\* These steps only change the status of the worker's copy.
LEMMA StatementStep ==
    ASSUME IInv,
           \/ DropUser \/ ResolvePassword \/ checkUserExists \/ CreateUser
           \/ AlterPassword \/ AlterPermissions \/ syncPrivileges
           \/ ensureCredentialSecret
    PROVE  /\ WorkerStep(AnyAnnotations, Statuses)
           /\ UNCHANGED <<api, watch, cache>>
           /\ Holding
           /\ pc' = "ready" => local' = local
           /\ local'.uid = local.uid /\ local'.spec = local.spec
           /\ local'.annot = local.annot /\ local'.deleting = local.deleting
           /\ local'.finalizer = local.finalizer
<1>1. /\ UNCHANGED <<api, watch, cache, edits>>
      /\ queued' \in {queued, TRUE} /\ (Fault \/ UNCHANGED faults)
  BY DEF DropUser, ResolvePassword, checkUserExists, CreateUser, AlterPassword,
         AlterPermissions, AlterUser, syncPrivileges, Attempt,
         ensureCredentialSecret, Goto, Fail, Requeue
<1>2. /\ pc \notin {"idle", "report", "ready"} /\ (Providing \/ pc = "drop")
      /\ pc' = "removeFinalizer" => pc = "drop"
      /\ pc' = "ready" => Providing /\ local' = local
      /\ pc = "drop" => local' = local
  BY DEF DropUser, ResolvePassword, checkUserExists, CreateUser, AlterPassword,
         AlterPermissions, AlterUser, syncPrivileges, Attempt, AfterSecret,
         ensureCredentialSecret, Goto, Fail, Requeue, Providing
<1>3. \/ local' = local /\ pc' # "report"
      \/ /\ pc' = "report"
         /\ \E r \in Reasons \ {"Completed"} :
              local' = [local EXCEPT !.status.reason = r]
      \/ /\ pc' # "report"
         /\ local' = [local EXCEPT !.status.userCreated = TRUE]
  BY DEF DropUser, ResolvePassword, checkUserExists, CreateUser, AlterPassword,
         AlterPermissions, AlterUser, syncPrivileges, Attempt, AfterSecret,
         ensureCredentialSecret, Goto, Fail, Requeue, Reasons
<1>4. /\ pc' = "report" => local'.status.reason # "Completed"
      /\ \/ local' = local
         \/ \E s \in Statuses :
              /\ s.observedGeneration = local.status.observedGeneration
              /\ local' = [local EXCEPT !.status = s]
  <2>. DEFINE Same(s) ==
         /\ s \in Statuses
         /\ s.observedGeneration = local.status.observedGeneration
  <2>1. /\ Same([local.status EXCEPT !.userCreated = TRUE])
        /\ \A r \in Reasons : Same([local.status EXCEPT !.reason = r])
    BY LocalType DEF Statuses
  <2>2. ASSUME NEW r \in Reasons \ {"Completed"},
               local' = [local EXCEPT !.status.reason = r]
        PROVE  /\ local'.status.reason # "Completed"
               /\ \E s : Same(s) /\ local' = [local EXCEPT !.status = s]
    <3>1. local' = [local EXCEPT !.status = [local.status EXCEPT !.reason = r]]
      BY <2>2
    <3>2. local'.status.reason = r
      BY <2>2, LocalType DEF Objects, Statuses
    <3>. QED  BY <2>1, <3>1, <3>2
  <2>3. CASE /\ pc' # "report"
             /\ local' = [local EXCEPT !.status.userCreated = TRUE]
    <3>1. local' = [local EXCEPT !.status =
                      [local.status EXCEPT !.userCreated = TRUE]]
      BY <2>3
    <3>. QED  BY <2>1, <2>3, <3>1
  <2>4. CASE local' = local /\ pc' # "report"
    BY <2>4
  <2>. QED  BY <1>3, <2>2, <2>3, <2>4
<1>5. Works(Statuses)
  <2>1. pc' = "removeFinalizer" => local.deleting
    BY <1>2 DEF IInv, WorkerKnows
  <2>2. pc' = "ready" => ~local.deleting
    BY <1>2 DEF IInv, WorkerKnows
  <2>3. local' = local \/ ~local.deleting
    BY <1>2 DEF IInv, WorkerKnows
  <2>. QED  BY <1>1, <1>2, <1>4, <2>1, <2>2, <2>3 DEF Works, Holding
<1>6. /\ local'.uid = local.uid /\ local'.spec = local.spec
      /\ local'.annot = local.annot /\ local'.deleting = local.deleting
      /\ local'.finalizer = local.finalizer
  BY <1>4, LocalType DEF Objects
<1>7. WorkerStep(AnyAnnotations, Statuses)
  BY <1>1, <1>5, LocalType DEF WorkerStep
<1>. QED  BY <1>1, <1>2, <1>6, <1>7 DEF Holding

\* The patch changes nothing but the annotations of what is stored.
LEMMA UnannotateStep ==
    ASSUME IInv, RemoveRotateAnnotation
    PROVE  WorkerStep(AnyAnnotations, Statuses)
<1>. DEFINE left == IF local.annot.policy = "none" THEN NoAnnotations
                    ELSE [api.annot EXCEPT !.rotate = FALSE]
<1>1. left \in AnyAnnotations
  BY DEF IInv, KubeInv, KubeTypeOK, Objects, AnyAnnotations, NoAnnotations
<1>. HIDE DEF left
<1>2. /\ pc = "unannotate" /\ pc' = "ready" /\ queued' = queued
      /\ UNCHANGED <<cache, edits>> /\ (Fault \/ UNCHANGED faults)
      /\ \/ /\ api.exists
            /\ Write([api EXCEPT !.annot = left])
            /\ \/ local' = [api' EXCEPT !.status.userCreated =
                                @ \/ local.status.userCreated]
               \/ UNCHANGED local
         \/ UNCHANGED <<api, watch, local>>
  BY DEF RemoveRotateAnnotation, Goto, left
<1>3. Holding /\ pc # "report" /\ ~local.deleting
  BY <1>2 DEF Holding, IInv, WorkerKnows, Providing
<1>4. CASE UNCHANGED <<api, watch, local>>
  <2>1. Works(Statuses)
    BY <1>2, <1>3, <1>4 DEF Works
  <2>. QED  BY <1>2, <2>1, LocalType DEF WorkerStep
<1>5. CASE /\ api.exists
           /\ Write([api EXCEPT !.annot = left])
           /\ \/ local' = [api' EXCEPT !.status.userCreated =
                               @ \/ local.status.userCreated]
              \/ UNCHANGED local
  <2>1. api' \in Objects(AnySpec, AnyAnnotations, Statuses)
    <3>1. [api EXCEPT !.annot = left]
            \in Objects(AnySpec, AnyAnnotations, Statuses)
      BY <1>1 DEF IInv, KubeInv, KubeTypeOK, Objects
    <3>. QED  BY <1>5, <3>1, WriteType DEF IInv, KubeInv
  <2>2. \/ local' = local
        \/ \E s \in Statuses :
             /\ s.observedGeneration = api'.status.observedGeneration
             /\ local' = [api' EXCEPT !.status = s]
    <3>. DEFINE s == [api'.status EXCEPT !.userCreated =
                        @ \/ local.status.userCreated]
    <3>1. /\ s \in Statuses
          /\ s.observedGeneration = api'.status.observedGeneration
      BY <2>1, LocalType DEF Objects, Statuses
    <3>2. local' = local \/ local' = [api' EXCEPT !.status = s]
      BY <1>5
    <3>. QED  BY <3>1, <3>2
  <2>3. Patches(AnyAnnotations, Statuses)
    BY <1>1, <1>2, <1>3, <1>5, <2>2 DEF Patches
  <2>. QED  BY <1>2, <2>3, LocalType DEF WorkerStep
<1>. QED  BY <1>2, <1>4, <1>5

LEMMA ReconcileStep ==
    ASSUME IInv, Reconcile
    PROVE  WorkerStep(AnyAnnotations, Statuses)
<1>0. KubeInv(AnySpec, AnyAnnotations, Statuses) /\ StatusesClosed(Statuses)
  BY UserStatuses DEF IInv
<1>1. CASE Fetch
  BY <1>0, <1>1, FetchStep DEF Fetch
<1>2. CASE resolveAdminCredentials \/ Connect
  BY <1>0, <1>2, ConnectStep DEF resolveAdminCredentials, Connect
<1>3. CASE AddFinalizer
  <2>1. StoreFinalizer("password")
    BY <1>3 DEF AddFinalizer
  <2>2. "password" \notin {"removeFinalizer", "report", "ready"}
    OBVIOUS
  <2>. QED  BY <1>0, <2>1, <2>2, FinalizerStep
<1>4. CASE Finalize
  <2>. DEFINE drops == /\ local.annot.policy # "abandon"
                       /\ local.status.userCreated
  <2>1. ChooseFinalization(drops)
    BY <1>4 DEF Finalize
  <2>2. "password" \notin {"removeFinalizer", "report", "ready"}
    OBVIOUS
  <2>. QED  BY <1>0, <2>1, <2>2, FinalizerStep
<1>5. CASE removeFinalizer
  <2>1. ReleaseFinalizer
    BY <1>5 DEF removeFinalizer
  <2>2. "password" \notin {"removeFinalizer", "report", "ready"}
    OBVIOUS
  <2>. QED  BY <1>0, <2>1, <2>2, FinalizerStep
<1>6. CASE OnFailure \/ ReportFailure \/ ReportReady
  BY <1>0, <1>6, ReportStep DEF OnFailure, ReportFailure, ReportReady
<1>. QED
  BY <1>1, <1>2, <1>3, <1>4, <1>5, <1>6, StatementStep, UnannotateStep
     DEF Reconcile

LEMMA StepKube ==
    ASSUME IInv, [Next]_vars
    PROVE  /\ KubeStep(AnySpec, AnyAnnotations, Statuses)
           /\ KubeInv(AnySpec, AnyAnnotations, Statuses)'
<1>1. KubeStep(AnySpec, AnyAnnotations, Statuses)
  <2>1. CASE Reconcile
    BY <2>1, ReconcileStep DEF KubeStep
  <2>2. CASE UserWrite
    <3>1. /\ Specs \subseteq AnySpec /\ Annotations \subseteq AnyAnnotations
          /\ NoStatus \in Statuses /\ pc' = pc
          /\ NoStatus.observedGeneration = 0 /\ NoStatus.reason # "Completed"
      BY <2>2, UserAssumption, UserStatuses DEF UserWrite, NoStatus
    <3>2. Create(Specs, Annotations, NoStatus)
            => Create(AnySpec, AnyAnnotations, NoStatus)
      BY <3>1 DEF Create
    <3>3. EditSpec(Specs) => EditSpec(AnySpec)
      BY <3>1 DEF EditSpec
    <3>4. Annotate(Annotations) => Annotate(AnyAnnotations)
      BY <3>1 DEF Annotate
    <3>. QED  BY <2>2, <3>1, <3>2, <3>3, <3>4 DEF UserWrite, UserStep, KubeStep
  <2>3. CASE Deliveries
    BY <2>3 DEF Deliveries, OtherStep, KubeStep
  <2>4. CASE Crash
    BY <2>4 DEF Crash, OtherStep, KubeStep
  <2>5. CASE DeleteSecret
    BY <2>5 DEF DeleteSecret, OtherStep, KubeStep
  <2>6. CASE DeliverSecret \/ Drift
    BY <2>6 DEF DeliverSecret, Drift, kubeVars, OtherStep, KubeStep
  <2>7. CASE UNCHANGED vars
    BY <2>7 DEF vars, kubeVars, OtherStep, KubeStep
  <2>. QED  BY <2>1, <2>2, <2>3, <2>4, <2>5, <2>6, <2>7 DEF Next
<1>. QED  BY <1>1, KubeStepInv, UserStatuses DEF IInv

-------------------------------------------------------------------------------
(* RisingWave. *)

LEMMA CreatedUserType ==
    ASSUME IInv
    PROVE  /\ buildCreateUserSQL \subseteq User
           /\ \A r \in BOOLEAN : resolveUserPassword(r) \subseteq AnyPassword
<1>1. Generated \subseteq AnyPassword /\ secretCache \in AnyPassword
  BY DEF Generated, AnyPassword, IInv, UserTypeOK
<1>2. \A r \in BOOLEAN : resolveUserPassword(r) \subseteq AnyPassword
  BY <1>1 DEF resolveUserPassword, AnyPassword
<1>3. resolveUserPassword(FALSE) \subseteq AnyPassword /\ None \in AnyPassword
  BY <1>2 DEF AnyPassword
<1>. QED  BY <1>2, <1>3, LocalType DEF buildCreateUserSQL, User

\* What a step does to the users: statements of the worker, and foreign
\* changes.
LEMMA UsersStep ==
    ASSUME IInv, [Next]_vars
    PROVE  \/ UNCHANGED <<users, createdBy, altered, drift>>
           \/ /\ pc = "drop" /\ UNCHANGED drift
              /\ users' = [users EXCEPT ![local.spec.name] = Absent]
              /\ createdBy' = [createdBy EXCEPT ![local.spec.name] = 0]
              /\ altered' = altered \ {local.spec.name}
           \/ \E u \in User :
                /\ pc = "create" /\ UNCHANGED <<altered, drift>>
                /\ ~Exists(local.spec.name)
                /\ users' = [users EXCEPT ![local.spec.name] = u]
                /\ createdBy' = [createdBy EXCEPT ![local.spec.name] = local.uid]
           \/ \E u \in User :
                /\ pc = "alterPassword" /\ UNCHANGED <<createdBy, drift>>
                /\ Exists(local.spec.name)
                /\ users' = [users EXCEPT ![local.spec.name] = u]
                /\ u.password = password
                /\ u.permissions = users[local.spec.name].permissions
                /\ altered' = altered \cup {local.spec.name}
           \/ \E u \in User :
                /\ pc = "permissions" /\ UNCHANGED <<createdBy, altered, drift>>
                /\ Exists(local.spec.name)
                /\ users' = [users EXCEPT ![local.spec.name] = u]
                /\ u.password = users[local.spec.name].password
                /\ u.permissions = users[local.spec.name].permissions
                                     \cup local.spec.permissions
           \/ Drift
<1>. DEFINE n == local.spec.name
<1>0. /\ n \in Names /\ users \in [Names -> User \cup {Absent}]
      /\ password \in AnyPassword /\ local.spec.permissions \subseteq Permissions
  BY LocalType DEF IInv, UserTypeOK
<1>1. CASE DropUser
  BY <1>1 DEF DropUser
<1>2. CASE CreateUser
  <2>1. CASE UNCHANGED <<users, createdBy>>
    BY <1>2, <2>1 DEF CreateUser
  <2>2. ASSUME NEW u \in buildCreateUserSQL,
               users' = [users EXCEPT ![local.spec.name] = u],
               ~Exists(local.spec.name),
               createdBy' = [createdBy EXCEPT ![local.spec.name] = local.uid]
        PROVE  \E w \in User :
                /\ pc = "create" /\ UNCHANGED <<altered, drift>>
                /\ ~Exists(local.spec.name)
                /\ users' = [users EXCEPT ![local.spec.name] = w]
                /\ createdBy' = [createdBy EXCEPT ![local.spec.name] = local.uid]
    BY <1>2, <2>2, CreatedUserType DEF CreateUser
  <2>. QED  BY <1>2, <2>1, <2>2 DEF CreateUser
<1>3. CASE AlterPassword
  <2>. DEFINE u == [users[n] EXCEPT !.password = password]
  <2>1. Exists(n) => /\ u \in User /\ u.password = password
                     /\ u.permissions = users[n].permissions
    BY <1>0 DEF Exists, User
  <2>2. AlterUser("alterPassword", u, "permissions", "FailedToUpdatePassword")
    BY <1>3 DEF AlterPassword
  <2>. HIDE DEF u
  <2>. QED  BY <2>1, <2>2 DEF AlterUser
<1>4. CASE AlterPermissions
  <2>. DEFINE u == [users[n] EXCEPT !.permissions =
                      @ \cup local.spec.permissions]
  <2>1. Exists(n) => /\ u \in User /\ u.password = users[n].password
                     /\ u.permissions = users[n].permissions
                                          \cup local.spec.permissions
    BY <1>0 DEF Exists, User
  <2>2. \/ AlterUser("permissions", u, "privileges", "FailedToGrant")
        \/ UNCHANGED <<users, createdBy, altered, drift>>
    BY <1>4 DEF AlterPermissions, ghosts
  <2>. HIDE DEF u
  <2>. QED  BY <2>1, <2>2 DEF AlterUser
<1>5. CASE ~(DropUser \/ CreateUser \/ AlterPassword \/ AlterPermissions \/ Drift)
  <2>1. UNCHANGED <<users, createdBy, altered, drift>>
    BY <1>5
       DEF Next, Reconcile, Fetch, resolveAdminCredentials, Connect,
           AddFinalizer, Finalize, OnFailure, removeFinalizer, ResolvePassword,
           checkUserExists, syncPrivileges, ensureCredentialSecret,
           RemoveRotateAnnotation, ReportFailure, ReportReady, Deliveries,
           DeliverSecret, UserWrite, DeleteSecret, Crash, vars, ghosts
  <2>. QED  BY <2>1
<1>. QED  BY <1>1, <1>2, <1>3, <1>4, <1>5

\* Requests to rotate are counted.
LEMMA RotationsGrow ==
    ASSUME IInv, [Next]_vars
    PROVE  /\ \/ rotations' = rotations
              \/ rotations' = rotations + 1 /\ rotations' <= MaxRotations
           /\ rotations' = 0 => rotations = 0
<1>1. \/ rotations' = rotations
      \/ rotations' = rotations + 1 /\ rotations' <= MaxRotations
  BY DEF Next, Reconcile, Fetch, resolveAdminCredentials, Connect,
         AddFinalizer, Finalize, DropUser, OnFailure, removeFinalizer,
         ResolvePassword, checkUserExists, CreateUser, AlterPassword,
         AlterPermissions, AlterUser, syncPrivileges,
         ensureCredentialSecret, RemoveRotateAnnotation, ReportFailure,
         ReportReady, Deliveries, DeliverSecret, UserWrite, DeleteSecret,
         Crash, Drift, vars, secretVars, ghosts
<1>2. rotations \in Nat
  BY DEF IInv, UserTypeOK
<1>. QED  BY <1>1, <1>2

LEMMA StepUserType ==
    ASSUME IInv, [Next]_vars
    PROVE  UserTypeOK'
<1>0. local.spec.name \in Names /\ local.uid \in Nat
  BY LocalType
<1>1. /\ users' \in [Names -> User \cup {Absent}]
      /\ createdBy' \in [Names -> Nat] /\ altered' \subseteq Names
      /\ drift' \in 0..MaxDrift
  <2>1. CASE Drift
    <3>1. \A p \in SUBSET Permissions :
            [password |-> None, permissions |-> p] \in User
      BY DEF User, AnyPassword
    <3>2. users' \in [Names -> User \cup {Absent}]
      BY <2>1, <3>1 DEF Drift, IInv, UserTypeOK
    <3>3. createdBy' \in [Names -> Nat] /\ altered' \subseteq Names
      BY <2>1 DEF Drift, IInv, UserTypeOK
    <3>4. drift' \in 0..MaxDrift
      BY <2>1, UserAssumption DEF Drift, IInv, UserTypeOK
    <3>. QED  BY <3>2, <3>3, <3>4
  <2>2. CASE ~Drift
    BY <1>0, <2>2, UsersStep DEF IInv, UserTypeOK
  <2>. QED  BY <2>1, <2>2
<1>2. \/ rotations' = rotations
      \/ rotations' = rotations + 1 /\ rotations' <= MaxRotations
  BY RotationsGrow
<1>3. stale' = stale \/ (stale < MaxStale /\ stale' = stale + 1)
  BY DEF Next, Reconcile, Fetch, resolveAdminCredentials, Connect,
         AddFinalizer, Finalize, DropUser, OnFailure, removeFinalizer,
         ResolvePassword, checkUserExists, CreateUser, AlterPassword,
         AlterPermissions, AlterUser, syncPrivileges,
         ensureCredentialSecret, RemoveRotateAnnotation, ReportFailure,
         ReportReady, Deliveries, DeliverSecret, UserWrite, DeleteSecret,
         Crash, Drift, vars, secretVars, ghosts
<1>4. rotations' \in 0..MaxRotations /\ stale' \in 0..MaxStale
  BY <1>2, <1>3, UserAssumption DEF IInv, UserTypeOK
<1>5. /\ secret' \in {secret, password, None}
      /\ secretCache' \in {secretCache, secret}
      /\ secretSynced' \in BOOLEAN
  BY DEF Next, Reconcile, Fetch, resolveAdminCredentials, Connect,
         AddFinalizer, Finalize, DropUser, OnFailure, removeFinalizer,
         ResolvePassword, checkUserExists, CreateUser, AlterPassword,
         AlterPermissions, AlterUser, syncPrivileges,
         ensureCredentialSecret, RemoveRotateAnnotation, ReportFailure,
         ReportReady, Deliveries, DeliverSecret, UserWrite, DeleteSecret,
         Crash, Drift, vars, secretVars, ghosts, IInv, UserTypeOK
<1>6. \/ password' \in {password, None}
      \/ \E r \in BOOLEAN : password' \in resolveUserPassword(r)
  <2>1. local.annot.rotate \in BOOLEAN
    BY LocalType DEF AnyAnnotations
  <2>. QED
    BY <2>1
       DEF Next, Reconcile, Fetch, resolveAdminCredentials, Connect,
             AddFinalizer, Finalize, DropUser, OnFailure, removeFinalizer,
             ResolvePassword, checkUserExists, CreateUser, AlterPassword,
             AlterPermissions, AlterUser, syncPrivileges,
             ensureCredentialSecret, RemoveRotateAnnotation, ReportFailure,
             ReportReady, Deliveries, DeliverSecret, UserWrite, DeleteSecret,
             Crash, Drift, vars, secretVars, ghosts
<1>7. /\ secret' \in AnyPassword /\ secretCache' \in AnyPassword
      /\ password' \in AnyPassword
  BY <1>5, <1>6, CreatedUserType DEF IInv, UserTypeOK, AnyPassword
<1>8. created' \in BOOLEAN
  BY DEF Next, Reconcile, Fetch, resolveAdminCredentials, Connect,
         AddFinalizer, Finalize, DropUser, OnFailure, removeFinalizer,
         ResolvePassword, checkUserExists, CreateUser, AlterPassword,
         AlterPermissions, AlterUser, syncPrivileges,
         ensureCredentialSecret, RemoveRotateAnnotation, ReportFailure,
         ReportReady, Deliveries, DeliverSecret, UserWrite, DeleteSecret,
         Crash, Drift, vars, secretVars, ghosts, IInv, UserTypeOK
<1>9. pc' = pc \/ pc' \in Steps
  BY DEF Next, Reconcile, Fetch, resolveAdminCredentials, Connect,
         AddFinalizer, Finalize, DropUser, OnFailure, removeFinalizer,
         ResolvePassword, checkUserExists, CreateUser, AlterPassword,
         AlterPermissions, AlterUser, syncPrivileges,
         ensureCredentialSecret, RemoveRotateAnnotation, ReportFailure,
         ReportReady, Deliveries, DeliverSecret, UserWrite, DeleteSecret,
         Crash, Drift, vars, secretVars, ghosts, Steps, FetchResource, ResolveCredentials, GetConnection, Attempt,
         StoreFinalizer, ChooseFinalization, ReleaseFinalizer, AfterSecret,
         ReportFinalization, WriteFailure, WriteReady, Goto, Done, Requeue, Fail
<1>. QED  BY <1>1, <1>4, <1>5, <1>7, <1>8, <1>9 DEF IInv, UserTypeOK

\* Storing the finalizer leaves the worker with a copy that has it.
LEMMA AddFinalizerKnows ==
    ASSUME IInv, AddFinalizer, pc' = "password"
    PROVE  local'.finalizer /\ ~local'.deleting
<1>1. Holding' /\ pc' # "creds" /\ ~local.deleting
  BY DEF AddFinalizer, StoreFinalizer, Holding
<1>2. /\ local'.deleting = local.deleting
      /\ local'.finalizer = local.finalizer \/ (local' = api' /\ api'.finalizer)
  BY <1>1, StepKube, HeldCopy DEF Next, Reconcile, IInv
<1>3. CASE local.finalizer
  BY <1>1, <1>2, <1>3
<1>4. CASE local' = api' /\ Write([api EXCEPT !.finalizer = TRUE])
  <2>. DEFINE o == [api EXCEPT !.finalizer = TRUE]
  <2>1. o \in Objects(AnySpec, AnyAnnotations, Statuses) /\ o.finalizer
    BY DEF IInv, KubeInv, KubeTypeOK, Objects
  <2>2. Write(o)
    BY <1>4
  <2>. HIDE DEF o
  <2>. QED  BY <1>1, <1>2, <1>4, <2>1, <2>2, WriteEffect DEF SameVersion
<1>. QED  BY <1>3, <1>4 DEF AddFinalizer, StoreFinalizer, Requeue

LEMMA StepKnows ==
    ASSUME IInv, [Next]_vars
    PROVE  WorkerKnows'
<1>1. CASE \/ DropUser \/ ResolvePassword \/ checkUserExists \/ CreateUser
           \/ AlterPassword \/ AlterPermissions \/ syncPrivileges
           \/ ensureCredentialSecret
  <2>1. /\ local'.uid = local.uid /\ local'.spec = local.spec
        /\ local'.annot = local.annot /\ local'.deleting = local.deleting
        /\ local'.finalizer = local.finalizer
    BY <1>1, StatementStep
  <2>2. /\ Providing' => Providing
        /\ pc' # "drop"
        /\ pc' = "unannotate" => local.annot.rotate
        /\ pc' = "alterPassword" => IsPasswordAuth
    BY <1>1
       DEF DropUser, ResolvePassword, checkUserExists, CreateUser,
           AlterPassword, AlterPermissions, AlterUser, syncPrivileges, Attempt,
           AfterSecret, ensureCredentialSecret, Goto, Fail, Requeue, Providing
  <2>. QED  BY <2>1, <2>2 DEF IInv, WorkerKnows, IsPasswordAuth
<1>2. CASE AddFinalizer
  <2>1. pc' \in {"password", "idle"}
    BY <1>2 DEF AddFinalizer, StoreFinalizer, Goto, Requeue
  <2>. QED  BY <1>2, <2>1, AddFinalizerKnows DEF WorkerKnows, Providing
<1>3. CASE Finalize
  BY <1>3 DEF Finalize, ChooseFinalization, Goto, Done, WorkerKnows, Providing,
              WantsDropped
<1>4. CASE \/ Fetch \/ resolveAdminCredentials \/ Connect \/ OnFailure
           \/ removeFinalizer \/ RemoveRotateAnnotation
           \/ ReportFailure \/ ReportReady \/ Crash
  <2>1. pc' \in {"idle", "creds", "connect", "finalizer", "report", "ready"}
    BY <1>4
       DEF Fetch, resolveAdminCredentials, Connect, OnFailure,
           removeFinalizer, RemoveRotateAnnotation, ReportFailure, ReportReady,
           Crash, FetchResource, ResolveCredentials, GetConnection, Attempt,
           ReleaseFinalizer, ReportFinalization, WriteFailure, WriteReady,
           Goto, Done, Requeue, Fail
  <2>. QED  BY <2>1 DEF WorkerKnows, Providing
<1>5. CASE \/ Deliveries \/ DeliverSecret \/ UserWrite \/ DeleteSecret \/ Drift
           \/ UNCHANGED vars
  <2>1. UNCHANGED <<local, pc>>
    BY <1>5 DEF Deliveries, Deliver, DeliverSecret, UserWrite, Create,
                EditSpec, Annotate, Delete, Release, DeleteSecret, Drift, vars,
                kubeVars
  <2>. QED
    BY <2>1 DEF IInv, WorkerKnows, Providing, IsPasswordAuth, WantsDropped
<1>. QED  BY <1>1, <1>2, <1>3, <1>4, <1>5 DEF Next, Reconcile

\* An entry stays, is cleared, or is the worker's own.
LEMMA CreationsGrow ==
    ASSUME IInv, [Next]_vars, NEW n \in Names
    PROVE  \/ createdBy'[n] = createdBy[n]
           \/ createdBy'[n] = 0
           \/ pc = "create" /\ createdBy'[n] = local.uid
<1>1. CASE Drift
  BY <1>1 DEF Drift
<1>2. CASE ~Drift
  BY <1>2, UsersStep, LocalType DEF IInv, UserTypeOK
<1>. QED  BY <1>1, <1>2

LEMMA StepCreationsKnown ==
    ASSUME IInv, [Next]_vars
    PROVE  CreationsKnown'
<1>. SUFFICES ASSUME NEW n \in Names
              PROVE  /\ createdBy'[n] <= cache'.uid
                     /\ Holding' => createdBy'[n] <= local'.uid
  BY DEF CreationsKnown
<1>1. /\ cache'.uid \in Nat /\ local'.uid \in Nat /\ createdBy[n] \in Nat
      /\ local.uid \in Nat
  BY StepKube DEF IInv, KubeInv, KubeTypeOK, Objects, UserTypeOK
<1>2. CASE createdBy'[n] = createdBy[n]
  BY <1>1, <1>2, StepKube, KnownStays DEF IInv, CreationsKnown
<1>3. CASE createdBy'[n] = 0
  BY <1>1, <1>3
<1>4. CASE pc = "create" /\ createdBy'[n] = local.uid
  <2>1. Holding /\ local.uid <= cache.uid
    BY <1>4 DEF Holding, IInv, KubeInv, WorkerBehind
  <2>. QED  BY <1>1, <1>4, <2>1, StepKube, KnownStays DEF IInv
<1>. QED  BY <1>2, <1>3, <1>4, CreationsGrow

LEMMA StepCreatedHasFinalizer ==
    ASSUME IInv, [Next]_vars
    PROVE  CreatedHasFinalizer'
<1>. SUFFICES ASSUME NEW n \in Names, createdBy'[n] # 0,
                     createdBy'[n] = api'.uid
              PROVE  ~api'.exists \/ api'.deleting \/ api'.finalizer
  BY DEF CreatedHasFinalizer
<1>. DEFINE u == createdBy'[n]
<1>1. /\ api.uid \in Nat /\ cache.uid \in Nat /\ local.uid \in Nat
      /\ createdBy[n] \in Nat
      /\ cache.uid <= api.uid /\ local.uid <= api.uid
  BY DEF IInv, KubeInv, KubeTypeOK, Objects, UserTypeOK, VersionsInOrder,
         Versions, Precedes
<1>2. CASE u = createdBy[n]
  <2>1. u <= api.uid /\ u \in Nat
    BY <1>1, <1>2 DEF IInv, CreationsKnown
  <2>2. u = api.uid => ~api.exists \/ api.deleting \/ api.finalizer
    BY <1>2 DEF IInv, CreatedHasFinalizer
  <2>. HIDE DEF u
  <2>3. u = api'.uid
    BY DEF u
  <2>. QED  BY <2>1, <2>2, <2>3, StepKube, GuardStays DEF IInv
<1>3. CASE pc = "create" /\ u = local.uid
  <2>1. u <= api.uid /\ u \in Nat
    BY <1>1, <1>3
  <2>2. u = api.uid => ~api.exists \/ api.deleting \/ api.finalizer
    BY <1>3, HeldMeansGuarded DEF IInv, WorkerKnows, Providing, Holding
  <2>. HIDE DEF u
  <2>3. u = api'.uid
    BY DEF u
  <2>. QED  BY <2>1, <2>2, <2>3, StepKube, GuardStays DEF IInv
<1>. QED  BY <1>2, <1>3, CreationsGrow

\* Foreign changes are counted.
LEMMA DriftGrows ==
    ASSUME IInv, [Next]_vars, drift' = 0
    PROVE  drift = 0 /\ ~Drift
<1>1. drift \in Nat
  BY DEF IInv, UserTypeOK
<1>2. ~Drift
  BY <1>1 DEF Drift
<1>. QED  BY <1>2, UsersStep

\* Steps that leave the worker where it is.
LEMMA AsideStep ==
    ASSUME IInv, [Next]_vars, ~Reconcile, ~Crash, ~Drift
    PROVE  /\ UNCHANGED <<local, pc, users, created, password>>
           /\ secret' \in {secret, None}
BY DEF Next, Deliveries, Deliver, DeliverSecret, UserWrite, Create, EditSpec,
       Annotate, Delete, Release, DeleteSecret, vars, kubeVars, secretVars,
       ghosts

LEMMA StepPasswordIsNew ==
    ASSUME IInv, [Next]_vars
    PROVE  PasswordIsNew'
<1>. DEFINE n == local.spec.name
<1>. SUFFICES ASSUME drift' = 0, local'.annot.rotate, IsPasswordAuth',
                     pc' \in {"permissions", "privileges", "secret",
                              "unannotate"},
                     ~created'
              PROVE  users'[local'.spec.name].password = password'
  BY DEF PasswordIsNew
<1>1. drift = 0 /\ ~Drift
  BY DriftGrows
<1>2. n \in Names /\ users \in [Names -> User \cup {Absent}]
  BY LocalType DEF IInv, UserTypeOK
<1>3. CASE \/ DropUser \/ ResolvePassword \/ checkUserExists \/ CreateUser
           \/ AlterPassword \/ AlterPermissions \/ syncPrivileges
           \/ ensureCredentialSecret
  <2>1. local'.spec = local.spec /\ local'.annot = local.annot
    BY <1>3, StatementStep
  <2>2. local.annot.rotate /\ IsPasswordAuth
    BY <2>1 DEF IsPasswordAuth
  <2>3. CASE CreateUser
    BY <2>3 DEF CreateUser, Fail, Goto
  <2>4. CASE AlterPassword
    <3>1. /\ pc = "alterPassword" /\ password' = password
          /\ pc' = "report" \/ \E u \in User :
               users' = [users EXCEPT ![n] = u] /\ u.password = password
      <4>1. pc = "alterPassword" /\ password' = password
        BY <2>4 DEF AlterPassword, AlterUser
      <4>2. CASE Exists(n)
        <5>. DEFINE u == [users[n] EXCEPT !.password = password]
        <5>1. u \in User /\ u.password = password
          BY <1>2, <4>2 DEF Exists, User, IInv, UserTypeOK
        <5>2. AlterUser("alterPassword", u, "permissions",
                        "FailedToUpdatePassword")
          BY <2>4 DEF AlterPassword
        <5>. HIDE DEF u
        <5>3. users' = [users EXCEPT ![n] = u] \/ pc' = "report"
          BY <5>2 DEF AlterUser, Fail, Goto
        <5>. QED  BY <4>1, <5>1, <5>3
      <4>3. CASE ~Exists(n)
        BY <2>4, <4>1, <4>3 DEF AlterPassword, AlterUser, Fail, Goto
      <4>. QED  BY <4>2, <4>3
    <3>. QED  BY <1>2, <2>1, <3>1
  <2>5. CASE AlterPermissions
    <3>1. pc = "permissions" /\ UNCHANGED <<password, created>>
      BY <2>5 DEF AlterPermissions, AlterUser, ghosts
    <3>2. users[n].password = password
      BY <1>1, <2>2, <3>1 DEF IInv, PasswordIsNew
    <3>3. users'[n].password = users[n].password
      BY <1>1, <1>2, <3>1, UsersStep
    <3>. QED  BY <2>1, <3>1, <3>2, <3>3
  <2>6. CASE syncPrivileges \/ ensureCredentialSecret
    <3>1. /\ pc \in {"privileges", "secret"}
          /\ UNCHANGED <<users, password, created>>
      BY <2>6 DEF syncPrivileges, Attempt, ensureCredentialSecret, ghosts,
                  secretVars
    <3>. QED  BY <1>1, <2>1, <2>2, <3>1 DEF IInv, PasswordIsNew
  <2>7. CASE DropUser \/ ResolvePassword \/ checkUserExists
    BY <2>2, <2>7 DEF DropUser, ResolvePassword, checkUserExists, Goto, Fail,
                      Requeue
  <2>. QED  BY <1>3, <2>3, <2>4, <2>5, <2>6, <2>7
<1>4. CASE \/ Fetch \/ resolveAdminCredentials \/ Connect \/ AddFinalizer
           \/ Finalize \/ OnFailure \/ removeFinalizer
           \/ RemoveRotateAnnotation \/ ReportFailure \/ ReportReady \/ Crash
  BY <1>4
     DEF Fetch, resolveAdminCredentials, Connect, AddFinalizer, Finalize,
         OnFailure, removeFinalizer, RemoveRotateAnnotation, ReportFailure,
         ReportReady, Crash, FetchResource, ResolveCredentials, GetConnection,
         Attempt, StoreFinalizer, ChooseFinalization, ReleaseFinalizer,
         ReportFinalization, WriteFailure, WriteReady, Goto, Done, Requeue,
         Fail
<1>5. CASE ~Reconcile /\ ~Crash
  BY <1>1, <1>5, AsideStep DEF IInv, PasswordIsNew, IsPasswordAuth
<1>. QED  BY <1>3, <1>4, <1>5 DEF Reconcile

LEMMA StepSecretIsNew ==
    ASSUME IInv, [Next]_vars
    PROVE  SecretIsNew'
<1>. SUFFICES ASSUME pc' = "unannotate", local'.spec.auth = "managed"
              PROVE  secret' \in {password', None}
  BY DEF SecretIsNew
<1>1. CASE syncPrivileges \/ ensureCredentialSecret
  <2>1. local'.spec = local.spec
    BY <1>1, StatementStep
  <2>2. CASE syncPrivileges
    BY <2>1, <2>2 DEF syncPrivileges, Attempt, Goto, Fail
  <2>3. CASE ensureCredentialSecret
    BY <2>3 DEF ensureCredentialSecret, Goto, Fail
  <2>. QED  BY <1>1, <2>2, <2>3
<1>2. CASE \/ DropUser \/ ResolvePassword \/ checkUserExists \/ CreateUser
           \/ AlterPassword \/ AlterPermissions
           \/ Fetch \/ resolveAdminCredentials \/ Connect \/ AddFinalizer
           \/ Finalize \/ OnFailure \/ removeFinalizer
           \/ RemoveRotateAnnotation \/ ReportFailure \/ ReportReady \/ Crash
  BY <1>2
     DEF DropUser, ResolvePassword, checkUserExists, CreateUser, AlterPassword,
         AlterPermissions, AlterUser,
         Fetch, resolveAdminCredentials, Connect, AddFinalizer, Finalize,
         OnFailure, removeFinalizer, RemoveRotateAnnotation, ReportFailure,
         ReportReady, Crash, FetchResource, ResolveCredentials, GetConnection,
         Attempt, StoreFinalizer, ChooseFinalization, ReleaseFinalizer,
         ReportFinalization, WriteFailure, WriteReady, Goto, Done, Requeue,
         Fail
<1>3. CASE Drift
  BY <1>3 DEF Drift, kubeVars, secretVars, IInv, SecretIsNew
<1>4. CASE ~Reconcile /\ ~Crash /\ ~Drift
  BY <1>4, AsideStep DEF IInv, SecretIsNew
<1>. QED  BY <1>1, <1>2, <1>3, <1>4 DEF Reconcile

-------------------------------------------------------------------------------
(* Ready. *)

\* The patch of the annotations belongs to a rotation.
LEMMA NothingPatched ==
    ASSUME IInv, [Next]_vars, rotations = 0,
           Patches(AnyAnnotations, Statuses)
    PROVE  UNCHANGED <<api, local>>
<1>1. pc' = "ready" /\ Holding
  BY DEF Patches
<1>2. CASE \/ DropUser \/ ResolvePassword \/ checkUserExists \/ CreateUser
           \/ AlterPassword \/ AlterPermissions \/ syncPrivileges
           \/ ensureCredentialSecret
  BY <1>1, <1>2, StatementStep
<1>3. CASE RemoveRotateAnnotation
  BY <1>3 DEF RemoveRotateAnnotation, IInv, WorkerKnows, RotationsCounted,
              Versions
<1>4. CASE AddFinalizer
  BY <1>1, <1>4 DEF AddFinalizer, StoreFinalizer, Goto, Requeue
<1>5. CASE \/ Fetch \/ resolveAdminCredentials \/ Connect \/ Finalize
           \/ OnFailure \/ removeFinalizer \/ ReportFailure \/ ReportReady
           \/ Crash
  BY <1>1, <1>5
     DEF Fetch, resolveAdminCredentials, Connect, Finalize, OnFailure,
         removeFinalizer, ReportFailure, ReportReady, Crash, FetchResource,
         ResolveCredentials, GetConnection, Attempt, ChooseFinalization,
         ReportFinalization, ReleaseFinalizer, WriteFailure, WriteReady, Goto,
         Done, Requeue, Fail
<1>6. CASE \/ Deliveries \/ DeliverSecret \/ UserWrite \/ DeleteSecret \/ Drift
           \/ UNCHANGED vars
  <2>1. pc' = pc
    BY <1>6 DEF Deliveries, DeliverSecret, UserWrite, DeleteSecret, Drift, vars
  <2>. QED  BY <1>1, <2>1 DEF Holding
<1>. QED  BY <1>2, <1>3, <1>4, <1>5, <1>6 DEF Next, Reconcile

LEMMA StepRotationsCounted ==
    ASSUME IInv, [Next]_vars
    PROVE  RotationsCounted'
<1>. SUFFICES ASSUME rotations' = 0, NEW v \in Versions' \cup {api'}
              PROVE  ~v.annot.rotate
  BY DEF RotationsCounted
<1>0. /\ KubeInv(AnySpec, AnyAnnotations, Statuses)
      /\ KubeStep(AnySpec, AnyAnnotations, Statuses)
      /\ rotations = 0
  BY StepKube, RotationsGrow DEF IInv
<1>1. \A w \in Versions \cup {api} : ~w.annot.rotate
  BY <1>0 DEF IInv, RotationsCounted
<1>2. ~api'.annot.rotate
  <2>1. CASE Reconcile
    <3>1. WorkerStep(AnyAnnotations, Statuses)
      BY <2>1, ReconcileStep
    <3>2. api'.annot = api.annot
      BY <1>0, <3>1, WorkerStepEffect, NothingPatched
    <3>. QED  BY <1>1, <3>2
  <2>2. CASE UserWrite
    BY <1>0, <1>1, <2>2 DEF UserWrite
  <2>3. CASE ~Reconcile /\ ~UserWrite
    <3>1. api' = api
      BY <2>3 DEF Next, Deliveries, Deliver, DeliverSecret, DeleteSecret,
                  Crash, Relist, Drift, vars, kubeVars
    <3>. QED  BY <1>1, <3>1
  <2>. QED  BY <2>1, <2>2, <2>3
<1>3. ~local'.annot.rotate
  BY <1>0, <1>1, <1>2, NextCopy DEF Versions
<1>4. v \in watch \cup {cache, api, api', local'}
  BY <1>0, WatchMovesOn, CacheMovesOn DEF Versions
<1>. QED  BY <1>1, <1>2, <1>3, <1>4 DEF Versions

LEMMA StepNothingOvertakes ==
    ASSUME IInv, [Next]_vars
    PROVE  NothingOvertakes'
<1>. SUFFICES ASSUME rotations' = 0 PROVE ReadyIsKnown'
  BY DEF NothingOvertakes
<1>1. /\ KubeInv(AnySpec, AnyAnnotations, Statuses)
      /\ KubeStep(AnySpec, AnyAnnotations, Statuses)
      /\ StatusesClosed(Statuses) /\ rotations = 0 /\ ReadyIsKnown
  BY StepKube, UserStatuses, RotationsGrow DEF IInv, NothingOvertakes
<1>2. Patches(AnyAnnotations, Statuses) => local' = local
  BY <1>1, NothingPatched
<1>. QED  BY <1>1, <1>2, KubeStepReady

LEMMA StepUsersKnown ==
    ASSUME IInv, [Next]_vars
    PROVE  UsersKnown'
<1>. DEFINE n == local.spec.name
<1>. SUFFICES ASSUME drift' = 0, rotations' = 0,
                     pc' \in {"permissions", "privileges", "secret", "ready"}
              PROVE  /\ users'[n'] # Absent
                     /\ pc' # "permissions"
                          => local'.spec.permissions
                               \subseteq users'[n'].permissions
  BY DEF UsersKnown, Exists
<1>1. drift = 0 /\ rotations = 0 /\ ~Drift /\ ~local.annot.rotate
  BY DriftGrows, RotationsGrow DEF IInv, RotationsCounted, Versions
<1>2. /\ n \in Names /\ users \in [Names -> User \cup {Absent}]
      /\ Absent \notin User
  BY LocalType, UserAssumption DEF IInv, UserTypeOK
<1>3. CASE \/ DropUser \/ ResolvePassword \/ checkUserExists \/ CreateUser
           \/ AlterPassword \/ AlterPermissions \/ syncPrivileges
           \/ ensureCredentialSecret
  <2>1. local'.spec = local.spec
    BY <1>3, StatementStep
  <2>2. CASE DropUser \/ ResolvePassword
    BY <2>2 DEF DropUser, ResolvePassword, Goto, Fail
  <2>3. CASE checkUserExists
    <3>1. pc' = "permissions" /\ users' = users /\ Exists(n)
      BY <2>3 DEF checkUserExists, Goto, Requeue
    <3>. QED  BY <2>1, <3>1 DEF Exists
  <2>4. CASE CreateUser \/ AlterPassword
    <3>1. pc' = "permissions"
      BY <2>4 DEF CreateUser, AlterPassword, AlterUser, Goto, Fail
    <3>2. Exists(n) \/ users' # users
      <4>1. CASE CreateUser
        <5>1. PICK u \in buildCreateUserSQL : users' = [users EXCEPT ![n] = u]
          BY <3>1, <4>1 DEF CreateUser, Goto, Fail
        <5>2. users'[n] # Absent
          BY <1>2, <5>1, CreatedUserType
        <5>. QED  BY <5>2 DEF Exists
      <4>2. CASE AlterPassword
        BY <3>1, <4>2 DEF AlterPassword, AlterUser, Goto, Fail
      <4>. QED  BY <2>4, <4>1, <4>2
    <3>3. pc # "drop"
      BY <2>4 DEF CreateUser, AlterPassword, AlterUser
    <3>4. users'[n] # Absent
      BY <1>1, <1>2, <3>2, <3>3, UsersStep DEF Exists
    <3>. QED  BY <2>1, <3>1, <3>4
  <2>5. CASE AlterPermissions
    <3>1. pc = "permissions" /\ pc' = "privileges" /\ Exists(n)
      BY <1>1, <2>5 DEF AlterPermissions, AlterUser, Goto, Fail, IInv,
                        UsersKnown
    <3>2. CASE local.spec.permissions = {}
      <4>1. users'[n] # Absent
        BY <1>1, <1>2, <3>1, UsersStep DEF Exists
      <4>. QED  BY <2>1, <3>2, <4>1
    <3>3. CASE local.spec.permissions # {}
      <4>. DEFINE u == [users[n] EXCEPT !.permissions =
                          @ \cup local.spec.permissions]
      <4>1. u \in User /\ local.spec.permissions \subseteq u.permissions
        BY <1>2, <3>1, LocalType DEF Exists, User
      <4>2. AlterUser("permissions", u, "privileges", "FailedToGrant")
        BY <2>5, <3>3 DEF AlterPermissions
      <4>. HIDE DEF u
      <4>3. users' = [users EXCEPT ![n] = u]
        BY <3>1, <4>2 DEF AlterUser, Fail, Goto
      <4>. QED  BY <1>2, <2>1, <4>1, <4>3
    <3>. QED  BY <3>2, <3>3
  <2>6. CASE syncPrivileges \/ ensureCredentialSecret
    <3>1. pc \in {"privileges", "secret"} /\ users' = users
      BY <2>6 DEF syncPrivileges, Attempt, ensureCredentialSecret
    <3>. QED  BY <1>1, <2>1, <3>1 DEF IInv, UsersKnown, Exists
  <2>. QED  BY <1>3, <2>2, <2>3, <2>4, <2>5, <2>6
<1>4. CASE RemoveRotateAnnotation
  BY <1>1, <1>4 DEF RemoveRotateAnnotation, IInv, WorkerKnows
<1>5. CASE \/ Fetch \/ resolveAdminCredentials \/ Connect \/ AddFinalizer
           \/ Finalize \/ OnFailure \/ removeFinalizer
           \/ ReportFailure \/ ReportReady \/ Crash
  BY <1>5
     DEF Fetch, resolveAdminCredentials, Connect, AddFinalizer, Finalize,
         OnFailure, removeFinalizer, ReportFailure, ReportReady, Crash,
         FetchResource, ResolveCredentials, GetConnection, Attempt,
         StoreFinalizer, ChooseFinalization, ReleaseFinalizer,
         ReportFinalization, WriteFailure, WriteReady, Goto, Done, Requeue,
         Fail
<1>6. CASE ~Reconcile /\ ~Crash
  BY <1>1, <1>6, AsideStep DEF IInv, UsersKnown, Exists
<1>. QED  BY <1>3, <1>4, <1>5, <1>6 DEF Reconcile

LEMMA StepReadyIsTruthful ==
    ASSUME IInv, [Next]_vars
    PROVE  ReadyIsTruthful'
<1>. SUFFICES ASSUME Ready', drift' = 0, rotations' = 0
              PROVE  Applied'
  BY DEF ReadyIsTruthful
<1>0. /\ KubeInv(AnySpec, AnyAnnotations, Statuses)
      /\ KubeStep(AnySpec, AnyAnnotations, Statuses)
      /\ StatusesClosed(Statuses) /\ ReadyIsKnown
      /\ drift = 0 /\ ~Drift /\ rotations = 0
  BY StepKube, UserStatuses, DriftGrows, RotationsGrow
     DEF IInv, NothingOvertakes
<1>1. /\ Ready \/ (Reports(Statuses) /\ pc = "ready")
      /\ api'.spec = api.spec
  BY <1>0, ReadyAppears
<1>2. CASE Reports(Statuses) /\ pc = "ready"
  <2>1. local.spec = api.spec
    BY <1>0, <1>2, ReportsEffect DEF SameVersion
  <2>2. users' = users
    BY <1>0, <1>2, UsersStep
  <2>. QED
    BY <1>0, <1>1, <1>2, <2>1, <2>2 DEF IInv, UsersKnown, Applied, Exists
<1>3. CASE Ready
  <2>1. Applied
    BY <1>0, <1>3 DEF IInv, ReadyIsTruthful
  <2>2. pc # "idle" => local.spec = api.spec /\ ~local.deleting
    BY <1>0, <1>3, ReadyMeansCurrent
  <2>3. pc # "drop" /\ (pc = "create" => Exists(local.spec.name))
    BY <2>1, <2>2 DEF IInv, WorkerKnows, Applied
  <2>4. CASE users' = users
    BY <1>1, <2>1, <2>4 DEF Applied, Exists
  <2>5. ASSUME NEW u \in User, pc \in {"alterPassword", "permissions"},
               users' = [users EXCEPT ![local.spec.name] = u],
               users[local.spec.name].permissions \subseteq u.permissions
        PROVE  Applied'
    <3>1. local.spec.name = api.spec.name
      BY <2>2, <2>5
    <3>2. users'[api.spec.name] = u /\ Absent \notin User
      BY <2>5, <3>1, LocalType, UserAssumption DEF IInv, UserTypeOK
    <3>3. /\ users'[api'.spec.name] # Absent
          /\ api'.spec.permissions \subseteq users'[api'.spec.name].permissions
      BY <1>1, <2>1, <2>5, <3>1, <3>2 DEF Applied
    <3>. QED  BY <3>3 DEF Applied, Exists
  <2>. QED  BY <1>0, <2>3, <2>4, <2>5, UsersStep
<1>. QED  BY <1>1, <1>2, <1>3

-------------------------------------------------------------------------------
(* What is dropped when. *)

LEMMA StepCreationsStay ==
    ASSUME IInv, [Next]_vars
    PROVE  CreationsStay'
<1>. SUFFICES ASSUME NEW n \in Names, createdBy'[n] # 0
              PROVE  users'[n] # Absent
  BY DEF CreationsStay, Exists
<1>1. createdBy[n] # 0 => users[n] # Absent
  BY DEF IInv, CreationsStay, Exists
<1>2. Absent \notin User
  BY UserAssumption
<1>3. CASE Drift
  BY <1>1, <1>3 DEF Drift
<1>4. CASE ~Drift
  BY <1>1, <1>2, <1>4, UsersStep, LocalType DEF IInv, UserTypeOK
<1>. QED  BY <1>3, <1>4

LEMMA StepDropsKnown ==
    ASSUME IInv, [Next]_vars
    PROVE  DropsKnown'
<1>. SUFFICES ASSUME pc' = "removeFinalizer", drift' = 0,
                     local'.annot.policy # "abandon",
                     local'.status.userCreated
              PROVE  users'[local'.spec.name] = Absent
  BY DEF DropsKnown, Exists
<1>1. drift = 0 /\ ~Drift
  BY DriftGrows
<1>2. CASE DropUser
  <2>1. local' = local /\ users' = [users EXCEPT ![local.spec.name] = Absent]
    BY <1>2 DEF DropUser, Goto, Fault
  <2>. QED  BY <2>1, LocalType DEF IInv, UserTypeOK
<1>3. CASE Finalize
  BY <1>3 DEF Finalize, ChooseFinalization, Goto, Done
<1>4. CASE \/ ResolvePassword \/ checkUserExists \/ CreateUser
           \/ AlterPassword \/ AlterPermissions \/ syncPrivileges
           \/ ensureCredentialSecret \/ Fetch \/ resolveAdminCredentials
           \/ Connect \/ AddFinalizer \/ OnFailure \/ removeFinalizer
           \/ RemoveRotateAnnotation \/ ReportFailure \/ ReportReady \/ Crash
  BY <1>4
     DEF ResolvePassword, checkUserExists, CreateUser, AlterPassword,
         AlterPermissions, AlterUser, syncPrivileges, ensureCredentialSecret,
         AfterSecret, Fetch, resolveAdminCredentials, Connect, AddFinalizer,
         OnFailure, removeFinalizer, RemoveRotateAnnotation, ReportFailure,
         ReportReady, Crash, FetchResource, ResolveCredentials, GetConnection,
         Attempt, StoreFinalizer, ReleaseFinalizer, ReportFinalization,
         WriteFailure, WriteReady, Goto, Done, Requeue, Fail
<1>5. CASE ~Reconcile /\ ~Crash
  BY <1>1, <1>5, AsideStep DEF IInv, DropsKnown, Exists
<1>. QED  BY <1>2, <1>3, <1>4, <1>5 DEF Reconcile

\* A worker that creates does so for a life that is not over, unless that
\* life is not the stored one.
LEMMA NotReleased ==
    ASSUME IInv, pc = "create", local.uid = api.uid
    PROVE  ~Released
<1>1. Holding /\ local.finalizer /\ ~local.deleting
  BY DEF Holding, IInv, WorkerKnows, Providing
<1>. QED  BY <1>1, HeldMeansGuarded DEF IInv, Released

\* Statements change nothing about the stored resource.
LEMMA StatementsAside ==
    ASSUME IInv, [Next]_vars
    PROVE  UNCHANGED <<createdBy, drift>> \/ api' = api
BY DEF Next, Reconcile, Fetch, resolveAdminCredentials, Connect,
       AddFinalizer, Finalize, DropUser, OnFailure, removeFinalizer,
       ResolvePassword, checkUserExists, CreateUser, AlterPassword,
       AlterPermissions, AlterUser, syncPrivileges, ensureCredentialSecret,
       RemoveRotateAnnotation, ReportFailure, ReportReady, Deliveries,
       DeliverSecret, UserWrite, DeleteSecret, Crash, Drift, vars, kubeVars,
       ghosts

LEMMA StepReleasedIsDropped ==
    ASSUME IInv, [Next]_vars
    PROVE  ReleasedIsDropped'
<1>. SUFFICES ASSUME Released', drift' = 0,
                     NEW v \in watch' \cup {cache'}
                               \cup (IF Holding' /\ pc' # "report"
                                     THEN {local'} ELSE {}),
                     v.uid = api'.uid, WantsDropped(v)
              PROVE  createdBy'[v.spec.name] # api'.uid
  BY DEF ReleasedIsDropped, Released, WantsDropped
<1>. DEFINE n == v.spec.name
<1>0. /\ KubeInv(AnySpec, AnyAnnotations, Statuses)
      /\ KubeInv(AnySpec, AnyAnnotations, Statuses)'
      /\ KubeStep(AnySpec, AnyAnnotations, Statuses)
      /\ drift = 0 /\ v.finalizer
  BY StepKube, DriftGrows DEF IInv, WantsDropped
<1>1. /\ api'.uid = api.uid /\ ~api'.finalizer
      /\ \/ Released
         \/ Releases /\ WorkerStep(AnyAnnotations, Statuses)
         \/ Retired /\ ~api.finalizer
              /\ UserStep(AnySpec, AnyAnnotations, Statuses)
  BY <1>0, ReleasedAppears DEF Released
<1>2. \/ v \in watch \cup {cache, api}
      \/ Holding' /\ pc' # "report" /\ v = local'
  BY <1>0, <1>1, WatchMovesOn, CacheMovesOn
<1>3. n \in Names
  <2>1. v \in Objects(AnySpec, AnyAnnotations, Statuses)
    BY <1>0 DEF KubeInv, KubeTypeOK
  <2>. QED  BY <2>1 DEF Objects, AnySpec
<1>4. api.exists /\ api.uid # 0
  <2>1. api.exists
    BY <1>0, <1>1, EverybodyKnows DEF Released, Releases, Retired
  <2>. QED  BY <1>0, <2>1 DEF KubeInv, UidGiven
<1>5. createdBy[n] # api.uid
  <2>1. CASE Released
    <3>1. CASE v \in watch \cup {cache, api}
      BY <1>0, <1>1, <2>1, <3>1 DEF IInv, ReleasedIsDropped, Released
    <3>2. CASE Holding' /\ pc' # "report" /\ v = local'
      <4>1. CASE local' = cache
        BY <1>0, <1>1, <2>1, <3>2, <4>1 DEF IInv, ReleasedIsDropped, Released
      <4>2. CASE Holding /\ local' = local /\ pc # "report"
        BY <1>0, <1>1, <2>1, <3>2, <4>2 DEF IInv, ReleasedIsDropped
      <4>3. CASE /\ Holding /\ ~local.deleting
                 /\ local'.uid = local.uid
                 /\ local'.finalizer = local.finalizer
        BY <1>0, <1>1, <2>1, <3>2, <4>3
           DEF KubeInv, ReleasedIsKnown, Released
      <4>. QED  BY <1>0, <1>1, <3>2, <4>1, <4>2, <4>3, HeldCopy
    <3>. QED  BY <1>2, <3>1, <3>2
  <2>2. CASE Releases /\ WorkerStep(AnyAnnotations, Statuses)
    <3>1. pc = "removeFinalizer" /\ Current /\ ~Holding'
      BY <2>2 DEF Releases, Holding
    <3>2. \A w \in Versions : SameVersion(w, api) /\ w.status = local.status
      BY <1>0, <3>1, EverybodyKnows
    <3>3. v \in Versions
      <4>1. cache' = cache
        BY <2>2 DEF WorkerStep
      <4>. QED  BY <1>0, <1>1, <3>1, <4>1, WatchMovesOn DEF Versions
    <3>4. SameVersion(v, local) /\ v.status = local.status
      BY <3>2, <3>3 DEF Versions, SameVersion
    <3>5. ~Exists(n)
      BY <1>0, <3>1, <3>4 DEF IInv, DropsKnown, SameVersion, WantsDropped
    <3>. QED  BY <1>3, <1>4, <3>5 DEF IInv, CreationsStay
  <2>3. CASE Retired /\ ~api.finalizer
               /\ UserStep(AnySpec, AnyAnnotations, Statuses)
    <3>1. api.exists /\ ~api.deleting /\ ~api.finalizer
      BY <2>3 DEF Retired
    <3>2. \A m \in Names : createdBy[m] # 0 => createdBy[m] # api.uid
      BY <3>1 DEF IInv, CreatedHasFinalizer
    <3>. QED  BY <1>3, <1>4, <3>2
  <2>. QED  BY <1>1, <2>1, <2>2, <2>3
<1>6. ~(pc = "create" /\ createdBy'[n] = local.uid /\ local.uid = api.uid)
      \/ UNCHANGED createdBy
  <2>1. CASE Released
    BY <2>1, NotReleased
  <2>2. CASE Releases
    BY <2>2 DEF Releases
  <2>3. CASE UserStep(AnySpec, AnyAnnotations, Statuses) /\ Retired
    <3>1. api' # api
      BY <2>3 DEF Retired
    <3>. QED  BY <3>1, StatementsAside
  <2>. QED  BY <1>1, <2>1, <2>2, <2>3
<1>. QED  BY <1>1, <1>3, <1>4, <1>5, <1>6, CreationsGrow

-------------------------------------------------------------------------------
(* The inductive invariant. *)

LEMMA InitInvariant == Init => IInv
<1>. SUFFICES ASSUME Init PROVE IInv
  OBVIOUS
<1>1. PICK s \in Specs :
        api = [exists |-> FALSE, rv |-> 0, uid |-> 0, gen |-> 0, spec |-> s,
               annot |-> NoAnnotations, deleting |-> FALSE,
               finalizer |-> FALSE, held |-> FALSE, status |-> NoStatus]
  BY DEF Init
<1>2. api \in Objects(AnySpec, AnyAnnotations, Statuses) /\ ~api.exists
      /\ ~api.finalizer /\ api.uid = 0 /\ api.status.observedGeneration = 0
  <2>1. /\ s \in AnySpec /\ NoStatus \in Statuses
        /\ NoAnnotations \in AnyAnnotations
    BY UserAssumption, UserStatuses DEF AnyAnnotations, NoAnnotations
  <2>. QED  BY <1>1, <2>1 DEF Objects, NoStatus
<1>3. KubeInv(AnySpec, AnyAnnotations, Statuses)
  BY <1>2, KubeInitInv DEF Init
<1>4. UserTypeOK
  <2>1. drift \in 0..MaxDrift /\ rotations \in 0..MaxRotations
        /\ stale \in 0..MaxStale
    BY UserAssumption DEF Init
  <2>2. /\ secret \in AnyPassword /\ secretCache \in AnyPassword
        /\ password \in AnyPassword /\ secretSynced \in BOOLEAN
        /\ pc \in Steps
    BY DEF Init, AnyPassword, Steps
  <2>3. /\ users \in [Names -> User \cup {Absent}]
        /\ createdBy \in [Names -> Nat] /\ altered \subseteq Names
        /\ created \in BOOLEAN
    BY DEF Init
  <2>. QED  BY <2>1, <2>2, <2>3 DEF UserTypeOK
<1>5. CreationsKnown /\ CreatedHasFinalizer
  BY <1>2, <1>3
     DEF Init, CreationsKnown, CreatedHasFinalizer, KubeInv, KubeTypeOK, Objects
<1>6. WorkerKnows /\ PasswordIsNew /\ SecretIsNew
  BY DEF Init, WorkerKnows, Providing, PasswordIsNew, SecretIsNew
<1>7. RotationsCounted
  <2>1. Versions \cup {api} = {api}
    BY DEF Init, Versions
  <2>. QED  BY <1>1, <2>1 DEF RotationsCounted, NoAnnotations
<1>8. NothingOvertakes /\ UsersKnown /\ ReadyIsTruthful
  BY <1>2 DEF Init, NothingOvertakes, ReadyIsKnown, UsersKnown,
              ReadyIsTruthful, Ready
<1>9. CreationsStay /\ DropsKnown /\ ReleasedIsDropped
  BY <1>2 DEF Init, CreationsStay, DropsKnown, ReleasedIsDropped, Released
<1>. QED  BY <1>3, <1>4, <1>5, <1>6, <1>7, <1>8, <1>9 DEF IInv

LEMMA StepInvariant == IInv /\ [Next]_vars => IInv'
<1>. SUFFICES ASSUME IInv, [Next]_vars PROVE IInv'
  OBVIOUS
<1>1. KubeInv(AnySpec, AnyAnnotations, Statuses)' /\ UserTypeOK'
  BY StepKube, StepUserType
<1>2. WorkerKnows' /\ CreationsKnown' /\ CreatedHasFinalizer'
  BY StepKnows, StepCreationsKnown, StepCreatedHasFinalizer
<1>3. PasswordIsNew' /\ SecretIsNew'
  BY StepPasswordIsNew, StepSecretIsNew
<1>4. RotationsCounted' /\ NothingOvertakes'
  BY StepRotationsCounted, StepNothingOvertakes
<1>5. UsersKnown' /\ ReadyIsTruthful'
  BY StepUsersKnown, StepReadyIsTruthful
<1>6. CreationsStay' /\ DropsKnown' /\ ReleasedIsDropped'
  BY StepCreationsStay, StepDropsKnown, StepReleasedIsDropped
<1>. QED  BY <1>1, <1>2, <1>3, <1>4, <1>5, <1>6 DEF IInv

LEMMA Invariant == Spec => []IInv
BY InitInvariant, StepInvariant, PTL DEF Spec

-------------------------------------------------------------------------------
(* The theorems. *)

\* Every variable of the user controller keeps its type, whatever the numbers
\* of names, passwords and permissions and the budgets.
THEOREM TypeCorrect == Spec => []TypeOK
<1>1. IInv => TypeOK
  BY DEF IInv, KubeInv, KubeTypeOK, UserTypeOK, TypeOK, Object
<1>. QED  BY <1>1, Invariant, PTL

\* A user that a reconcile created belongs to a resource that has the
\* finalizer stored until it is deleted.
THEOREM CreatedIsFinalized == Spec => []CreatedHasFinalizer
<1>1. IInv => CreatedHasFinalizer
  BY DEF IInv
<1>. QED  BY <1>1, Invariant, PTL

\* A call that comes to removing the rotate-password annotation has its new
\* password in the Secret, if nobody deleted that; and, if it found the user
\* and nobody changed users behind the operator, in RisingWave as well,
\* whatever faults, conflicts and outdated caches it met. Nothing is said of
\* the password RisingWave has after a call that created the user.
THEOREM RotationIsComplete == Spec => []RotationReachesBoth
<1>1. IInv => RotationReachesBoth
  BY DEF IInv, RotationReachesBoth, WorkerKnows, PasswordIsNew, SecretIsNew,
         IsPasswordAuth
<1>. QED  BY <1>1, Invariant, PTL

\* As long as nobody has asked for a rotation, or changed users behind the
\* operator, a resource that says Ready for its stored generation has its user
\* with at least the permissions of its spec: a call that began with an older
\* spec can neither report nor undo it, whatever is lost or crashes.
THEOREM ReadyTellsTheTruth == Spec => []ReadyIsTruthful
<1>1. IInv => ReadyIsTruthful
  BY DEF IInv
<1>. QED  BY <1>1, Invariant, PTL

\* The operator drops no user that the resource now stored created and still
\* wants: a call that drops holds a deleted copy, and of the stored life only
\* if that is being deleted.
THEOREM LiveUsersStay == Spec => NeverDropLive
<1>. DEFINE A == \A n \in Names :
                   Exists(n) /\ ~Exists(n)' /\ drift' = drift
                     => ~(/\ api.exists /\ ~api.deleting
                          /\ createdBy[n] = api.uid)
<1>1. IInv /\ [Next]_vars => A
  <2>. SUFFICES ASSUME IInv, [Next]_vars, NEW n \in Names,
                       users[n] # Absent, users'[n] = Absent, drift' = drift,
                       api.exists, ~api.deleting, createdBy[n] = api.uid
                PROVE  FALSE
    BY DEF Exists
  <2>1. drift \in Nat /\ Absent \notin User
    BY UserAssumption DEF IInv, UserTypeOK
  <2>2. pc = "drop"
    <3>1. ~Drift
      BY <2>1 DEF Drift
    <3>. QED  BY <2>1, <3>1, UsersStep, LocalType DEF IInv, UserTypeOK
  <2>3. Holding /\ local.deleting
    BY <2>2 DEF Holding, IInv, WorkerKnows
  <2>4. local.uid = api.uid
    <3>1. createdBy[n] <= local.uid /\ local.uid <= api.uid
      BY <2>3 DEF IInv, CreationsKnown, KubeInv, VersionsInOrder, Versions,
                  Precedes
    <3>2. local.uid \in Nat /\ api.uid \in Nat
      BY DEF IInv, KubeInv, KubeTypeOK, Objects
    <3>. QED  BY <3>1, <3>2
  <2>. QED
    BY <2>3, <2>4
       DEF IInv, KubeInv, VersionsInOrder, Versions, Precedes, SameLife
<1>2. IInv /\ [Next]_vars => [A]_vars
  BY <1>1
<1>. QED  BY <1>2, Invariant, PTL DEF Spec, NeverDropLive

-------------------------------------------------------------------------------
(* The reconciler implements ResourceLifecycle. *)

Drifted == drift > 0

LP ==
    INSTANCE ResourceLifecycleProofs WITH
        Things <- Names, stage <- Stage, made <- Made,
        wanted <- api.spec.name, keeps <- TRUE, others <- Drifted

LEMMA MapType == IInv => LP!TypeOK /\ LP!NothingUnguarded
<1>. SUFFICES ASSUME IInv PROVE LP!TypeOK /\ LP!NothingUnguarded
  OBVIOUS
<1>1. api.spec.name \in Names /\ Drifted \in BOOLEAN
  BY DEF IInv, KubeInv, KubeTypeOK, Objects, AnySpec, Drifted
<1>2. Made \subseteq Names /\ Stage \in LP!Stages
  BY DEF Made, Stage, LP!Stages, IInv, KubeInv, KubeTypeOK, Objects
<1>3. ASSUME Stage \in {"absent", "declared"} PROVE Made = {}
  <2>1. ~api.exists \/ (~api.deleting /\ ~api.finalizer)
    BY <1>3 DEF Stage, IInv, KubeInv, KubeTypeOK, Objects
  <2>2. api.exists => api.uid # 0
    BY DEF IInv, KubeInv, UidGiven
  <2>. QED  BY <2>1, <2>2 DEF Made, IInv, CreatedHasFinalizer
<1>. QED  BY <1>1, <1>2, <1>3 DEF LP!TypeOK, LP!NothingUnguarded

\* How a statement, or a foreign change, changes what is made.
LEMMA MadeStep ==
    ASSUME IInv, [Next]_vars, api' = api
    PROVE  \/ Made' = Made
           \/ /\ Stage \in {"guarded", "leaving"}
              /\ \E n \in Names \ Made : Made' = Made \cup {n}
           \/ /\ Stage = "leaving" \/ drift' > 0
              /\ \E n \in Made : Made' = Made \ {n}
           \/ drift' > 0 /\ Made' \subseteq Made
<1>. DEFINE n == local.spec.name
<1>0. /\ api.exists \in BOOLEAN /\ api.deleting \in BOOLEAN
      /\ api.finalizer \in BOOLEAN /\ api.uid \in Nat /\ local.uid \in Nat
      /\ drift \in Nat /\ drift' \in Nat /\ local.uid <= api.uid
      /\ createdBy \in [Names -> Nat] /\ n \in Names
  BY StepUserType, LocalType
     DEF IInv, KubeInv, KubeTypeOK, Objects, UserTypeOK, VersionsInOrder,
         Versions, Precedes
<1>1. CASE ~api.exists
  BY <1>1 DEF Made
<1>2. CASE api.exists /\ UNCHANGED createdBy
  BY <1>2 DEF Made
<1>3. CASE api.exists /\ Drift
  <2>1. drift' > 0
    BY <1>0, <1>3 DEF Drift
  <2>2. \A m \in Names : createdBy'[m] \in {createdBy[m], 0}
    BY <1>3 DEF Drift
  <2>3. api.uid # 0
    BY <1>3 DEF IInv, KubeInv, UidGiven
  <2>. QED  BY <1>3, <2>1, <2>2, <2>3 DEF Made
<1>4. ASSUME api.exists, pc = "drop", drift' = drift,
             createdBy' = [createdBy EXCEPT ![n] = 0],
             Made' # Made
      PROVE  /\ Stage = "leaving" \/ drift' > 0
             /\ \E m \in Made : Made' = Made \ {m}
  <2>1. api.uid # 0
    BY <1>4 DEF IInv, KubeInv, UidGiven
  <2>2. Made' = Made \ {n}
    BY <1>0, <1>4, <2>1 DEF Made
  <2>3. n \in Made /\ createdBy[n] = api.uid
    <3>1. n \in Made
      BY <1>4, <2>2
    <3>. QED  BY <1>4, <3>1 DEF Made
  <2>4. ASSUME drift = 0 PROVE Stage = "leaving"
    <3>1. Holding /\ pc # "report" /\ local.deleting /\ WantsDropped(local)
      BY <1>4 DEF Holding, IInv, WorkerKnows
    <3>2. local.uid = api.uid
      BY <1>0, <2>1, <2>3, <3>1 DEF IInv, CreationsKnown
    <3>3. api.deleting
      BY <3>1, <3>2, <1>4
         DEF IInv, KubeInv, VersionsInOrder, Versions, Precedes, SameLife
    <3>4. api.finalizer
      BY <1>4, <2>3, <2>4, <3>1, <3>2, <3>3
         DEF IInv, ReleasedIsDropped, Released
    <3>. QED  BY <1>4, <3>3, <3>4 DEF Stage
  <2>. QED  BY <1>0, <1>4, <2>2, <2>3, <2>4
<1>5. ASSUME api.exists, pc = "create", ~Exists(n),
             createdBy' = [createdBy EXCEPT ![n] = local.uid],
             Made' # Made
      PROVE  /\ Stage \in {"guarded", "leaving"}
             /\ \E m \in Names \ Made : Made' = Made \cup {m}
  <2>1. n \notin Made
    <3>1. createdBy[n] = 0 /\ api.uid # 0
      BY <1>0, <1>5 DEF IInv, CreationsStay, KubeInv, UidGiven
    <3>. QED  BY <1>5, <3>1 DEF Made
  <2>2. local.uid = api.uid /\ Made' = Made \cup {n}
    BY <1>0, <1>5, <2>1 DEF Made
  <2>3. api.finalizer
    <3>1. Holding /\ local.finalizer /\ ~local.deleting
      BY <1>5 DEF Holding, IInv, WorkerKnows, Providing
    <3>. QED  BY <1>5, <2>2, <3>1, HeldMeansGuarded DEF IInv
  <2>. QED  BY <1>0, <1>5, <2>1, <2>2, <2>3 DEF Stage
<1>. QED  BY <1>1, <1>2, <1>3, <1>4, <1>5, UsersStep

LEMMA LifecycleInit == Init => Lifecycle!Init
<1>. SUFFICES ASSUME Init PROVE Lifecycle!Init
  OBVIOUS
<1>1. IInv
  BY InitInvariant
<1>2. ~api.exists /\ drift = 0
  BY DEF Init
<1>3. Stage = "absent" /\ Made = {} /\ (drift > 0) = FALSE
  BY <1>2 DEF Stage, Made
<1>. QED  BY <1>1, <1>3, MapType DEF Lifecycle!Init, LP!TypeOK

LEMMA LifecycleStep ==
    IInv /\ [Next]_vars => [Lifecycle!Next]_(Lifecycle!lifecycleVars)
<1>. SUFFICES ASSUME IInv, [Next]_vars
              PROVE  [Lifecycle!Next]_(Lifecycle!lifecycleVars)
  OBVIOUS
<1>0. /\ KubeInv(AnySpec, AnyAnnotations, Statuses)
      /\ KubeStep(AnySpec, AnyAnnotations, Statuses)
      /\ IInv'
  BY StepKube, StepInvariant DEF IInv
<1>1. LP!TypeOK /\ LP!NothingUnguarded /\ LP!TypeOK'
  BY <1>0, MapType, PTL
<1>. SUFFICES LP!ThingsMove \/ LP!StageMoves
  <2>1. ASSUME LP!ThingsMove \/ LP!StageMoves
        PROVE  [LP!Next]_(LP!lifecycleVars)
    BY <1>1, <2>1, LP!LifeMoves
  <2>. QED
    BY <2>1
       DEF LP!Next, LP!lifecycleVars, LP!Declare, LP!Amend, LP!Retire,
           LP!Guard, LP!Provide, LP!Withdraw, LP!Release, LP!LetGo,
           LP!Interfere, Lifecycle!Next, Lifecycle!lifecycleVars,
           Lifecycle!Declare, Lifecycle!Amend, Lifecycle!Retire,
           Lifecycle!Guard, Lifecycle!Provide, Lifecycle!Withdraw,
           Lifecycle!Release, Lifecycle!LetGo, Lifecycle!Interfere, Drifted
<1>2. CASE api' = api
  <2>1. Stage' = Stage /\ api'.spec.name = api.spec.name
    BY <1>2 DEF Stage
  <2>2. drift \in Nat /\ drift' \in Nat /\ (drift' = 0 => drift = 0)
    BY <1>0, DriftGrows DEF IInv, UserTypeOK
  <2>3. (Drifted => Drifted') /\ (drift' > 0 => Drifted')
    BY <2>2 DEF Drifted
  <2>. QED  BY <1>2, <2>1, <2>3, MadeStep DEF LP!ThingsMove
<1>3. CASE UNCHANGED <<createdBy, drift>>
  <2>1. api'.exists /\ ~api'.deleting /\ ~api'.finalizer
          => \A n \in Names : createdBy[n] # api'.uid
    BY <1>0, <1>3 DEF IInv, CreatedHasFinalizer, KubeInv, UidGiven
  <2>2. Made' = IF Stage' \in {"absent", "declared"} THEN {} ELSE Made
    BY <1>0, <1>3, <2>1, StageTellsLife DEF Made
  <2>3. SameWishes => api'.spec.name = api.spec.name
    BY DEF SameWishes
  <2>4. Drifted' = Drifted /\ (Stage = "absent" => ~api.exists)
    BY <1>0, <1>3, StageTellsLife DEF Drifted
  <2>. QED
    BY <1>0, <2>2, <2>3, <2>4, KubeStepStage DEF StageStep, LP!StageMoves
<1>. QED  BY <1>2, <1>3, StatementsAside

\* The user reconciler keeps ResourceLifecycle's promise, whatever Secrets,
\* rotations and refused writes come in between: it creates a user only for a
\* resource whose finalizer is stored and, foreign changes apart, drops one
\* only for a resource being deleted. A user may outlive its resource.
THEOREM UserImplementsLifecycle == Spec => ImplementsLifecycle
<1>1. Init => Lifecycle!Init
  BY LifecycleInit
<1>2. IInv /\ [Next]_vars => [Lifecycle!Next]_(Lifecycle!lifecycleVars)
  BY LifecycleStep
<1>. QED
  BY <1>1, <1>2, Invariant, PTL DEF Spec, ImplementsLifecycle, Lifecycle!Spec

===============================================================================
