--------------------------- MODULE ReconcilerProofs ---------------------------
(***************************************************************************)
(* What the three controllers have in common, proved once: the Kubernetes  *)
(* side of a resource under any worker that touches it as WorkerStep says, *)
(* whatever its specs S, annotations A and statuses T are.                 *)
(*                                                                         *)
(* The properties speak of the stored resource, while the worker acts on a *)
(* copy that may be older. Precedes orders the versions of the resource    *)
(* (cache, undelivered, worker's copy, stored); it is transitive, and no   *)
(* step stores a version that does not follow the stored one, so every     *)
(* version in the system stays behind the stored one whatever is written.  *)
(***************************************************************************)
EXTENDS Reconciler, TLAPS

\* Version w is v itself, up to the status, or was stored after it.
SameVersion(v, w) ==
    /\ v.exists = w.exists /\ v.uid = w.uid /\ v.gen = w.gen
    /\ v.spec = w.spec /\ v.annot = w.annot /\ v.deleting = w.deleting
    /\ v.finalizer = w.finalizer /\ v.held = w.held

\* A later version of the same object: deletion is final, a finalizer goes
\* only with deletion, and the generation tells specs apart.
SameLife(v, w) ==
    /\ v.gen <= w.gen
    /\ v.gen = w.gen => v.spec = w.spec /\ v.deleting = w.deleting
    /\ v.deleting => w.deleting
    /\ ~v.exists => ~w.exists
    /\ v.finalizer => ~w.exists \/ w.deleting \/ w.finalizer

Precedes(v, w) ==
    /\ v.rv <= w.rv
    /\ v.rv = w.rv => SameVersion(v, w)
    /\ v.uid <= w.uid
    /\ v.uid = w.uid => SameLife(v, w)

Versions == watch \cup {cache, local}

\* Everything in flight is behind the stored version, in order.
VersionsInOrder ==
    /\ \A v \in Versions : Precedes(v, api)
    /\ \A v \in watch : Precedes(cache, v)
    /\ \A v, w \in watch : v.rv < w.rv => Precedes(v, w)

\* Steps in which the worker still holds the copy it fetched. (After a patch
\* it holds the answer, which may be newer than the cache.)
Holding == pc \notin {"idle", "ready"}

\* That copy is not newer than the cache, but for the finalizer the worker has
\* just stored in a resource that is not being deleted.
WorkerBehind ==
    Holding => /\ local.uid <= cache.uid
               /\ local.uid = cache.uid => local.gen <= cache.gen
               /\ local.deleting => local.rv <= cache.rv

\* The finalizer is taken away from a deleted resource only.
RemovesFromDeleted == pc = "removeFinalizer" => local.deleting

\* Once the stored resource is deleted and without finalizer, nobody takes it
\* for one that is guarded: neither the cache, now or later, nor the worker.
ReleasedIsKnown ==
    api.exists /\ api.deleting /\ ~api.finalizer =>
        \A v \in watch \cup {cache} \cup (IF Holding THEN {local} ELSE {}) :
            v.uid = api.uid /\ v.finalizer => v.deleting

\* No status is ahead of its generation.
Observed(v) == v.status.observedGeneration <= v.gen

\* A report of a failure does not say Completed.
ReportsHonest ==
    /\ \A v \in Versions \cup {api} : Observed(v)
    /\ pc = "report" => local.status.reason # "Completed"

\* A resourceVersion tells statuses apart too, and the copy of a deleted
\* resource has the status it was fetched with until a failure is reported.
StatusesTold ==
    /\ \A v, w \in watch \cup {cache, api} : v.rv = w.rv => v.status = w.status
    /\ Holding /\ pc # "report" /\ local.deleting =>
         \A v \in watch \cup {cache, api} :
             v.rv = local.rv => v.status = local.status

\* Uid 0 is nobody's: what no reconcile created is recorded as created by 0.
UidGiven == api.exists => api.uid # 0

\* An object goes when its last finalizer has gone.
GoneIsUnguarded == api.finalizer => api.exists

KubeTypeOK(S, A, T) ==
    /\ api \in Objects(S, A, T) /\ cache \in Objects(S, A, T)
    /\ local \in Objects(S, A, T)
    /\ watch \subseteq Objects(S, A, T)
    /\ queued \in BOOLEAN
    /\ edits \in 0..MaxEdits /\ faults \in 0..MaxFaults

KubeInv(S, A, T) ==
    /\ KubeTypeOK(S, A, T)
    /\ VersionsInOrder
    /\ WorkerBehind
    /\ RemovesFromDeleted
    /\ ReleasedIsKnown
    /\ ReportsHonest
    /\ StatusesTold
    /\ UidGiven
    /\ GoneIsUnguarded

\* A status with this reason in it.
WithReason(s, r) == [s EXCEPT !.reason = r]

\* What a controller has to show of its statuses T.
StatusesClosed(T) ==
    \A s \in T :
        /\ s.observedGeneration \in Nat
        /\ \A r \in {"FailedToGetSecret", "ConnectionFailed",
                    "FailedToFinalize"} :
             LET t == WithReason(s, r) IN
             /\ t \in T /\ t.reason = r
             /\ t.observedGeneration = s.observedGeneration
        /\ \A g \in Nat :
             LET t == [s EXCEPT !.reason = "Completed",
                                !.observedGeneration = g] IN
             t \in T /\ t.observedGeneration = g

-------------------------------------------------------------------------------
(* What steps do to the Kubernetes side.                                   *)

\* The steps of a call that write nothing.
Fetches ==
    /\ pc = "idle" /\ pc' \in {"idle", "creds"}
    /\ local' \in {local, cache} /\ (pc' # "idle" => local' = cache)
    /\ UNCHANGED <<api, watch>>

Works(T) ==
    /\ (Holding /\ pc # "report") \/ (pc \in {"report", "ready"} /\ pc' = "idle")
    /\ pc' = "removeFinalizer" => local.deleting
    /\ pc' = "ready" => ~local.deleting
    /\ pc' = "report" => local'.status.reason # "Completed"
    /\ \/ local' = local
       \/ /\ local.deleting => pc' \in {"idle", "report"}
          /\ \E s \in T :
               /\ s.observedGeneration = local.status.observedGeneration
               /\ local' = [local EXCEPT !.status = s]
    /\ UNCHANGED <<api, watch>>

\* The steps that write.
Reports(T) ==
    /\ pc # "idle" /\ pc' = "idle"
    /\ Current
    /\ \E s \in T :
         /\ s.observedGeneration \in {local.status.observedGeneration, local.gen}
         /\ s.reason = "Completed" => pc = "ready"
         /\ Write([api EXCEPT !.status = s])
    /\ UNCHANGED local

Guards ==
    /\ pc = "finalizer" /\ pc' \notin {"removeFinalizer", "report", "ready"}
    /\ ~local.deleting /\ Current
    /\ Write([api EXCEPT !.finalizer = TRUE])
    /\ local' = api' \/ (local' = local /\ pc' = "idle")

Releases ==
    /\ pc = "removeFinalizer" /\ pc' = "idle"
    /\ Current
    /\ Write(Collected([api EXCEPT !.finalizer = FALSE]))
    /\ UNCHANGED local

Patches(A, T) ==
    /\ Holding /\ pc' = "ready"
    /\ api.exists /\ ~local.deleting
    /\ \E a \in A : Write([api EXCEPT !.annot = a])
    /\ \/ local' = local
       \/ \E s \in T :
            /\ s.observedGeneration = api'.status.observedGeneration
            /\ local' = [api' EXCEPT !.status = s]

WorkerStep(A, T) ==
    /\ Fetches \/ Works(T) \/ Reports(T) \/ Guards \/ Releases \/ Patches(A, T)
    /\ queued' \in BOOLEAN
    /\ Fault \/ UNCHANGED faults
    /\ UNCHANGED <<cache, edits>>

\* Everybody else's. A step may also be none of the resource's business.
UserStep(S, A, T) ==
    /\ \/ \E t \in T :
            /\ t.observedGeneration = 0 /\ t.reason # "Completed"
            /\ Create(S, A, t)
       \/ EditSpec(S) \/ Annotate(A) \/ Delete \/ Release
    /\ UNCHANGED pc

OtherStep ==
    \/ Deliver /\ UNCHANGED pc
    \/ Fault /\ Relist /\ pc' = "idle"
    \/ /\ Fault \/ UNCHANGED faults
       /\ Edit \/ UNCHANGED edits
       /\ UNCHANGED <<api, watch, cache, queued, local, pc>>

KubeStep(S, A, T) == WorkerStep(A, T) \/ UserStep(S, A, T) \/ OtherStep

-------------------------------------------------------------------------------
(* Type correctness. *)

LEMMA WriteType ==
    ASSUME NEW S, NEW A, NEW T, KubeTypeOK(S, A, T),
           NEW o \in Objects(S, A, T), Write(o)
    PROVE  api' \in Objects(S, A, T) /\ watch' \subseteq Objects(S, A, T)
<1>1. CASE o = api
  BY <1>1 DEF Write, KubeTypeOK
<1>2. CASE o # api
  <2>1. api' = [o EXCEPT !.rv = api.rv + 1] /\ watch' = watch \cup {api'}
    BY <1>2 DEF Write
  <2>2. api' \in Objects(S, A, T)
    BY <2>1 DEF Objects, KubeTypeOK
  <2>. QED  BY <2>1, <2>2 DEF KubeTypeOK
<1>. QED  BY <1>1, <1>2

LEMMA CollectedType ==
    ASSUME NEW S, NEW A, NEW T, NEW o \in Objects(S, A, T)
    PROVE  Collected(o) \in Objects(S, A, T)
BY DEF Collected, Objects

LEMMA FaultType ==
    ASSUME faults \in 0..MaxFaults, Fault \/ UNCHANGED faults
    PROVE  faults' \in 0..MaxFaults
BY BudgetsAssumption DEF Fault

LEMMA EditType ==
    ASSUME edits \in 0..MaxEdits, Edit \/ UNCHANGED edits
    PROVE  edits' \in 0..MaxEdits
BY BudgetsAssumption DEF Edit

LEMMA WorkerStepType ==
    ASSUME NEW S, NEW A, NEW T, KubeTypeOK(S, A, T), WorkerStep(A, T)
    PROVE  KubeTypeOK(S, A, T)'
<1>. DEFINE O == Objects(S, A, T)
<1>1. /\ api \in O /\ local \in O /\ cache \in O /\ watch \subseteq O
      /\ UNCHANGED <<cache, edits>> /\ queued' \in BOOLEAN
      /\ faults' \in 0..MaxFaults /\ edits \in 0..MaxEdits
  BY FaultType DEF KubeTypeOK, WorkerStep
<1>2. \A v \in O, s \in T : [v EXCEPT !.status = s] \in O
  BY DEF Objects
<1>3. /\ [api EXCEPT !.finalizer = TRUE] \in O
      /\ [api EXCEPT !.finalizer = FALSE] \in O
      /\ \A a \in A : [api EXCEPT !.annot = a] \in O
  BY <1>1 DEF Objects
<1>. SUFFICES api' \in O /\ watch' \subseteq O /\ local' \in O
  BY <1>1 DEF KubeTypeOK
<1>4. CASE Fetches
  BY <1>1, <1>4 DEF Fetches
<1>5. CASE Works(T)
  BY <1>1, <1>2, <1>5 DEF Works
<1>6. CASE Reports(T)
  BY <1>1, <1>2, <1>6, WriteType DEF Reports
<1>7. CASE Guards
  <2>1. api' \in O /\ watch' \subseteq O
    BY <1>3, <1>7, WriteType DEF Guards
  <2>. QED  BY <1>1, <1>7, <2>1 DEF Guards
<1>8. CASE Releases
  BY <1>1, <1>3, <1>8, WriteType, CollectedType DEF Releases
<1>9. CASE Patches(A, T)
  <2>1. api' \in O /\ watch' \subseteq O
    BY <1>3, <1>9, WriteType DEF Patches
  <2>. QED  BY <1>1, <1>2, <1>9, <2>1 DEF Patches
<1>. QED  BY <1>4, <1>5, <1>6, <1>7, <1>8, <1>9 DEF WorkerStep

LEMMA UserStepType ==
    ASSUME NEW S, NEW A, NEW T, KubeTypeOK(S, A, T), UserStep(S, A, T)
    PROVE  KubeTypeOK(S, A, T)'
<1>. DEFINE O == Objects(S, A, T)
<1>1. /\ api \in O /\ api.uid + 1 \in Nat /\ api.gen + 1 \in Nat
  BY DEF KubeTypeOK, Objects
<1>2. UNCHANGED <<cache, queued, local, faults>>
  BY DEF UserStep, Create, EditSpec, Annotate, Delete, Release
<1>3. edits' \in 0..MaxEdits
  <2>1. Edit \/ UNCHANGED edits
    BY DEF UserStep, Create, EditSpec, Annotate, Delete, Release
  <2>. QED  BY <2>1, EditType DEF KubeTypeOK
<1>4. api' \in O /\ watch' \subseteq O
  <2>1. ASSUME NEW t \in T, Create(S, A, t)
        PROVE  api' \in O /\ watch' \subseteq O
    <3>1. PICK s \in S, a \in A, h \in BOOLEAN :
            Write([api EXCEPT !.exists = TRUE, !.uid = @ + 1, !.gen = 1,
                              !.spec = s, !.annot = a, !.deleting = FALSE,
                              !.finalizer = FALSE, !.held = h,
                              !.status = t])
      BY <2>1 DEF Create
    <3>2. [api EXCEPT !.exists = TRUE, !.uid = @ + 1, !.gen = 1,
                      !.spec = s, !.annot = a, !.deleting = FALSE,
                      !.finalizer = FALSE, !.held = h, !.status = t] \in O
      BY <1>1 DEF Objects
    <3>. QED  BY <3>1, <3>2, WriteType
  <2>2. CASE EditSpec(S)
    <3>1. PICK s \in S : Write([api EXCEPT !.spec = s, !.gen = @ + 1])
      BY <2>2 DEF EditSpec
    <3>2. [api EXCEPT !.spec = s, !.gen = @ + 1] \in O
      BY <1>1 DEF Objects
    <3>. QED  BY <3>1, <3>2, WriteType
  <2>3. CASE Annotate(A)
    <3>1. PICK a \in A : Write([api EXCEPT !.annot = a])
      BY <2>3 DEF Annotate
    <3>2. [api EXCEPT !.annot = a] \in O
      BY <1>1 DEF Objects
    <3>. QED  BY <3>1, <3>2, WriteType
  <2>4. CASE Delete
    <3>1. [api EXCEPT !.deleting = TRUE, !.gen = @ + 1] \in O
      BY <1>1 DEF Objects
    <3>. QED  BY <2>4, <3>1, CollectedType, WriteType DEF Delete
  <2>5. CASE Release
    <3>1. [api EXCEPT !.held = FALSE] \in O
      BY <1>1 DEF Objects
    <3>. QED  BY <2>5, <3>1, CollectedType, WriteType DEF Release
  <2>. QED  BY <2>1, <2>2, <2>3, <2>4, <2>5 DEF UserStep
<1>. QED  BY <1>2, <1>3, <1>4 DEF KubeTypeOK

LEMMA OtherStepType ==
    ASSUME NEW S, NEW A, NEW T, KubeTypeOK(S, A, T), OtherStep
    PROVE  KubeTypeOK(S, A, T)'
<1>1. CASE Deliver
  BY <1>1 DEF Deliver, KubeTypeOK
<1>2. CASE Fault /\ Relist
  <2>1. api.exists \in BOOLEAN
    BY DEF KubeTypeOK, Objects
  <2>. QED  BY <1>2, <2>1, FaultType DEF Relist, KubeTypeOK
<1>3. CASE /\ Fault \/ UNCHANGED faults
           /\ Edit \/ UNCHANGED edits
           /\ UNCHANGED <<api, watch, cache, queued, local>>
  BY <1>3, FaultType, EditType DEF KubeTypeOK
<1>. QED  BY <1>1, <1>2, <1>3 DEF OtherStep

LEMMA KubeStepType ==
    ASSUME NEW S, NEW A, NEW T, KubeTypeOK(S, A, T), KubeStep(S, A, T)
    PROVE  KubeTypeOK(S, A, T)'
BY WorkerStepType, UserStepType, OtherStepType DEF KubeStep

-------------------------------------------------------------------------------
(* The order of versions. *)

LEMMA PrecedesReflexive ==
    ASSUME NEW S, NEW A, NEW T, NEW v \in Objects(S, A, T)
    PROVE  Precedes(v, v)
BY DEF Precedes, SameVersion, SameLife, Objects

LEMMA PrecedesTransitive ==
    ASSUME NEW S, NEW A, NEW T,
           NEW u \in Objects(S, A, T), NEW v \in Objects(S, A, T),
           NEW w \in Objects(S, A, T), Precedes(u, v), Precedes(v, w)
    PROVE  Precedes(u, w)
<1>1. /\ u.rv \in Nat /\ v.rv \in Nat /\ w.rv \in Nat
      /\ u.uid \in Nat /\ v.uid \in Nat /\ w.uid \in Nat
      /\ u.gen \in Nat /\ v.gen \in Nat /\ w.gen \in Nat
  BY DEF Objects
<1>2. u.rv <= w.rv /\ u.uid <= w.uid
  BY <1>1 DEF Precedes
<1>3. ASSUME u.rv = w.rv PROVE SameVersion(u, w)
  BY <1>1, <1>3 DEF Precedes, SameVersion
<1>4. ASSUME u.uid = w.uid PROVE SameLife(u, w)
  BY <1>1, <1>4 DEF Precedes, SameLife
<1>. QED  BY <1>2, <1>3, <1>4 DEF Precedes

\* Storing a version that follows the stored one keeps everything in order.
LEMMA WriteInOrder ==
    ASSUME NEW S, NEW A, NEW T, KubeTypeOK(S, A, T), VersionsInOrder,
           NEW o \in Objects(S, A, T), Write(o),
           api.uid <= api'.uid, api.uid = api'.uid => SameLife(api, api'),
           UNCHANGED cache,
           \/ local' = local
           \/ local'.rv = api'.rv /\ SameVersion(local', api')
    PROVE  VersionsInOrder'
<1>0. /\ api \in Objects(S, A, T) /\ watch \subseteq Objects(S, A, T)
      /\ cache \in Objects(S, A, T) /\ local \in Objects(S, A, T)
  BY DEF KubeTypeOK
<1>1. api' \in Objects(S, A, T) /\ watch' \subseteq Objects(S, A, T)
  BY WriteType
<1>2. Precedes(api, api')
  <2>1. CASE o = api
    <3>1. api' = api
      BY <2>1 DEF Write
    <3>. QED  BY <1>0, <3>1, PrecedesReflexive
  <2>2. CASE o # api
    <3>1. api' = [o EXCEPT !.rv = api.rv + 1]
      BY <2>2 DEF Write
    <3>2. api.rv \in Nat
      BY <1>0 DEF Objects
    <3>3. api'.rv = api.rv + 1
      BY <3>1 DEF Objects
    <3>. QED  BY <3>2, <3>3 DEF Precedes
  <2>. QED  BY <2>1, <2>2
<1>3. watch' = watch \/ (watch' = watch \cup {api'} /\ api'.rv = api.rv + 1)
  BY DEF Write, Objects
<1>4. \A v \in Versions \cup {api} : Precedes(v, api')
  <2>1. ASSUME NEW v \in Versions PROVE Precedes(v, api')
    <3>1. v \in Objects(S, A, T) /\ Precedes(v, api)
      BY <1>0, <2>1 DEF Versions, VersionsInOrder
    <3>. QED  BY <1>0, <1>1, <1>2, <3>1, PrecedesTransitive
  <2>. QED  BY <1>2, <2>1
<1>5. \A v \in Versions' : Precedes(v, api')
  <2>1. Precedes(api', api')
    BY <1>1, PrecedesReflexive
  <2>2. Precedes(local', api')
    <3>1. CASE local' = local
      BY <1>4, <3>1 DEF Versions
    <3>2. CASE local'.rv = api'.rv /\ SameVersion(local', api')
      BY <2>1, <3>2 DEF Precedes, SameVersion, SameLife
    <3>. QED  BY <3>1, <3>2
  <2>. QED  BY <1>3, <1>4, <2>1, <2>2 DEF Versions
<1>6. \A v \in watch' : Precedes(cache, v)
  BY <1>3, <1>4 DEF VersionsInOrder, Versions
<1>7. ASSUME NEW v \in watch', NEW w \in watch', v.rv < w.rv
      PROVE  Precedes(v, w)
  <2>1. CASE v \in watch /\ w \in watch
    BY <1>7, <2>1 DEF VersionsInOrder
  <2>2. CASE w \notin watch
    <3>1. w = api'
      BY <1>3, <2>2
    <3>. QED  BY <1>5, <3>1 DEF Versions
  <2>3. CASE v \notin watch /\ w \in watch
    <3>1. v.rv = api.rv + 1 /\ w.rv <= api.rv
      BY <1>3, <2>3 DEF VersionsInOrder, Versions, Precedes
    <3>2. api.rv \in Nat /\ w.rv \in Nat
      BY <1>0, <2>3 DEF Objects
    <3>. QED  BY <1>7, <3>1, <3>2
  <2>. QED  BY <2>1, <2>2, <2>3
<1>. QED  BY <1>5, <1>6, <1>7 DEF VersionsInOrder, Versions

\* A worker's copy with the stored resourceVersion is the stored version.
LEMMA CurrentMeansSame ==
    ASSUME VersionsInOrder, Current
    PROVE  SameVersion(local, api)
BY DEF VersionsInOrder, Versions, Precedes, Current

\* Precedes does not look at the status.
LEMMA StatusKeepsOrder ==
    ASSUME VersionsInOrder, UNCHANGED <<api, watch, cache>>,
           local'.rv = local.rv, SameVersion(local', local)
    PROVE  VersionsInOrder'
<1>1. Precedes(local', api)
  BY DEF VersionsInOrder, Versions, Precedes, SameVersion, SameLife
<1>. QED  BY <1>1 DEF VersionsInOrder, Versions

\* Once the deletion was current for the worker, nothing older is in flight.
LEMMA EverybodyKnows ==
    ASSUME NEW S, NEW A, NEW T, KubeInv(S, A, T),
           pc = "removeFinalizer", Current
    PROVE  /\ api.exists /\ api.deleting
           /\ \A v \in Versions :
                SameVersion(v, api) /\ v.status = local.status
<1>1. SameVersion(local, api) /\ local.rv = api.rv /\ api.exists
  BY CurrentMeansSame DEF KubeInv, Current
<1>2. local.deleting /\ local.rv <= cache.rv
  BY DEF KubeInv, RemovesFromDeleted, WorkerBehind, Holding
<1>3. \A v \in Versions : v.rv \in Nat
  BY DEF KubeInv, KubeTypeOK, Versions, Objects
<1>4. cache.rv = api.rv
  <2>1. cache.rv <= api.rv /\ api.rv \in Nat /\ cache.rv \in Nat
    BY <1>3 DEF KubeInv, KubeTypeOK, VersionsInOrder, Versions, Precedes,
                Objects
  <2>. QED  BY <1>1, <1>2, <2>1
<1>5. \A v \in Versions : v.rv = api.rv
  <2>1. ASSUME NEW v \in watch PROVE v.rv = api.rv
    <3>1. cache.rv <= v.rv /\ v.rv <= api.rv
      BY <2>1 DEF KubeInv, VersionsInOrder, Versions, Precedes
    <3>2. v.rv \in Nat /\ api.rv \in Nat
      BY <2>1 DEF KubeInv, KubeTypeOK, Objects
    <3>. QED  BY <1>4, <3>1, <3>2
  <2>. QED  BY <1>1, <1>4, <2>1 DEF Versions
<1>6. \A v \in Versions : SameVersion(v, api)
  BY <1>5 DEF KubeInv, VersionsInOrder, Precedes
<1>7. \A v \in Versions : v.status = local.status
  BY <1>1, <1>2, <1>5 DEF KubeInv, StatusesTold, Versions, Holding
<1>. QED  BY <1>1, <1>2, <1>6, <1>7 DEF SameVersion

-------------------------------------------------------------------------------
(* What a write changes. *)

LEMMA WriteEffect ==
    ASSUME NEW S, NEW A, NEW T, NEW o \in Objects(S, A, T), Write(o)
    PROVE  /\ SameVersion(o, api') /\ api'.status = o.status
           /\ watch' \subseteq watch \cup {api'}
           /\ api' = api \/ api'.rv = api.rv + 1
BY DEF Write, SameVersion, Objects

\* The worker leaves what the user decided alone, but for the annotations.
LEMMA WorkerStepEffect ==
    ASSUME NEW S, NEW A, NEW T, KubeInv(S, A, T), WorkerStep(A, T)
    PROVE  /\ api'.uid = api.uid /\ api'.gen = api.gen
           /\ api'.spec = api.spec /\ api'.deleting = api.deleting
           /\ api'.held = api.held
           /\ \/ api'.annot = api.annot
              \/ /\ Patches(A, T) /\ api.exists /\ api'.exists
                 /\ api'.finalizer = api.finalizer
           /\ \/ api'.exists = api.exists /\ api'.finalizer = api.finalizer
              \/ /\ api.exists /\ api'.exists /\ ~api.deleting
                 /\ api'.finalizer
              \/ Releases /\ api.exists /\ api.deleting /\ ~api'.finalizer
           /\ api'.status = api.status \/ Reports(T)
           /\ \E o \in Objects(S, A, T) : Write(o)
           /\ cache' = cache
<1>. DEFINE O == Objects(S, A, T)
<1>1. /\ api \in O /\ watch \subseteq O /\ cache' = cache
  BY DEF KubeInv, KubeTypeOK, WorkerStep
<1>2. CASE UNCHANGED <<api, watch>>
  BY <1>1, <1>2 DEF Write
<1>3. CASE Reports(T)
  <2>1. PICK s \in T : Write([api EXCEPT !.status = s])
    BY <1>3 DEF Reports
  <2>. DEFINE o == [api EXCEPT !.status = s]
  <2>2. /\ o \in O /\ SameVersion(api, o)
    BY <1>1 DEF Objects, SameVersion
  <2>. HIDE DEF o
  <2>3. SameVersion(o, api') /\ \E p \in O : Write(p)
    BY <2>1, <2>2, WriteEffect DEF o
  <2>. QED  BY <1>1, <1>3, <2>2, <2>3 DEF SameVersion
<1>4. CASE Guards
  <2>. DEFINE o == [api EXCEPT !.finalizer = TRUE]
  <2>1. ~api.deleting /\ api.exists
    BY <1>4, CurrentMeansSame DEF Guards, SameVersion, KubeInv, Current
  <2>2. /\ o \in O
        /\ o.exists = api.exists /\ o.uid = api.uid /\ o.gen = api.gen
        /\ o.spec = api.spec /\ o.annot = api.annot /\ o.held = api.held
        /\ o.deleting = api.deleting /\ o.finalizer
        /\ o.status = api.status
    BY <1>1 DEF Objects
  <2>3. Write(o)
    BY <1>4 DEF Guards
  <2>. HIDE DEF o
  <2>4. /\ SameVersion(o, api') /\ api'.status = o.status
        /\ \E p \in O : Write(p)
    BY <2>2, <2>3, WriteEffect
  <2>. QED  BY <1>1, <2>1, <2>2, <2>4 DEF SameVersion
<1>5. CASE Releases
  <2>. DEFINE o == Collected([api EXCEPT !.finalizer = FALSE])
  <2>1. api.deleting /\ api.exists
    BY <1>5, EverybodyKnows DEF Releases
  <2>2. /\ o \in O
        /\ o.uid = api.uid /\ o.gen = api.gen
        /\ o.spec = api.spec /\ o.annot = api.annot /\ o.held = api.held
        /\ o.deleting = api.deleting /\ ~o.finalizer
        /\ o.status = api.status
    BY <1>1 DEF Objects, Collected
  <2>3. Write(o)
    BY <1>5 DEF Releases
  <2>. HIDE DEF o
  <2>4. /\ SameVersion(o, api') /\ api'.status = o.status
        /\ \E p \in O : Write(p)
    BY <2>2, <2>3, WriteEffect
  <2>. QED  BY <1>1, <1>5, <2>1, <2>2, <2>4 DEF SameVersion
<1>6. CASE Patches(A, T)
  <2>1. PICK a \in A : Write([api EXCEPT !.annot = a])
    BY <1>6 DEF Patches
  <2>. DEFINE o == [api EXCEPT !.annot = a]
  <2>2. /\ o \in O
        /\ o.exists = api.exists /\ o.uid = api.uid /\ o.gen = api.gen
        /\ o.spec = api.spec /\ o.finalizer = api.finalizer
        /\ o.held = api.held /\ o.deleting = api.deleting
        /\ o.status = api.status
    BY <1>1 DEF Objects
  <2>. HIDE DEF o
  <2>3. /\ SameVersion(o, api') /\ api'.status = o.status
        /\ \E p \in O : Write(p)
    <3>1. Write(o)
      BY <2>1 DEF o
    <3>. QED  BY <2>2, <3>1, WriteEffect
  <2>. QED  BY <1>1, <1>6, <2>2, <2>3 DEF SameVersion, Patches
<1>. QED
  BY <1>2, <1>3, <1>4, <1>5, <1>6 DEF WorkerStep, Fetches, Works

\* What the steps of the user, and of who holds the resource, come to.
Declared ==
    /\ ~api.exists /\ api'.exists /\ api'.uid = api.uid + 1
    /\ ~api'.deleting /\ ~api'.finalizer
    /\ api'.status.observedGeneration = 0 /\ api'.status.reason # "Completed"

Amended ==
    /\ api.exists /\ api'.exists /\ api'.uid = api.uid
    /\ api'.deleting = api.deleting /\ api'.finalizer = api.finalizer
    /\ api.gen <= api'.gen /\ (api.gen = api'.gen => api'.spec = api.spec)
    /\ api'.status = api.status

Retired ==
    /\ api.exists /\ ~api.deleting /\ api'.uid = api.uid
    /\ api'.deleting /\ api'.finalizer = api.finalizer
    /\ api'.exists = (api.finalizer \/ api.held)
    /\ api'.spec = api.spec /\ api'.annot = api.annot
    /\ api'.gen = api.gen + 1 /\ api'.status = api.status

LetGone ==
    /\ api.exists /\ api.deleting /\ api'.uid = api.uid
    /\ api'.deleting /\ api'.finalizer = api.finalizer
    /\ api'.exists = api.finalizer
    /\ api'.spec = api.spec /\ api'.annot = api.annot /\ api'.gen = api.gen
    /\ api'.status = api.status

LEMMA UserStepEffect ==
    ASSUME NEW S, NEW A, NEW T, KubeInv(S, A, T), UserStep(S, A, T)
    PROVE  /\ Declared \/ Amended \/ Retired \/ LetGone
           /\ \E o \in Objects(S, A, T) : Write(o)
           /\ UNCHANGED <<cache, local, pc>>
<1>. DEFINE O == Objects(S, A, T)
<1>1. /\ api \in O /\ api.uid \in Nat /\ api.gen \in Nat
      /\ api.uid + 1 \in Nat /\ api.gen + 1 \in Nat
  BY DEF KubeInv, KubeTypeOK, Objects
<1>2. UNCHANGED <<cache, local, pc>>
  BY DEF UserStep, Create, EditSpec, Annotate, Delete, Release
<1>3. ASSUME NEW t \in T, Create(S, A, t),
             t.observedGeneration = 0, t.reason # "Completed"
      PROVE  Declared /\ \E o \in O : Write(o)
  <2>1. PICK s \in S, a \in A, h \in BOOLEAN :
          Write([api EXCEPT !.exists = TRUE, !.uid = @ + 1, !.gen = 1,
                            !.spec = s, !.annot = a, !.deleting = FALSE,
                            !.finalizer = FALSE, !.held = h, !.status = t])
    BY <1>3 DEF Create
  <2>. DEFINE o == [api EXCEPT !.exists = TRUE, !.uid = @ + 1, !.gen = 1,
                               !.spec = s, !.annot = a, !.deleting = FALSE,
                               !.finalizer = FALSE, !.held = h, !.status = t]
  <2>2. /\ o \in O /\ o.exists /\ o.uid = api.uid + 1
        /\ ~o.deleting /\ ~o.finalizer /\ o.status = t
    BY <1>1 DEF Objects
  <2>. HIDE DEF o
  <2>3. /\ SameVersion(o, api') /\ api'.status = o.status
        /\ \E p \in O : Write(p)
    <3>1. Write(o)
      BY <2>1 DEF o
    <3>. QED  BY <2>2, <3>1, WriteEffect
  <2>4. ~api.exists
    BY <1>3 DEF Create
  <2>. QED  BY <1>3, <2>2, <2>3, <2>4 DEF SameVersion, Declared
<1>4. CASE EditSpec(S)
  <2>1. PICK s \in S : Write([api EXCEPT !.spec = s, !.gen = @ + 1])
    BY <1>4 DEF EditSpec
  <2>. DEFINE o == [api EXCEPT !.spec = s, !.gen = @ + 1]
  <2>2. /\ o \in O /\ o.exists = api.exists /\ o.uid = api.uid
        /\ o.deleting = api.deleting /\ o.finalizer = api.finalizer
        /\ o.gen = api.gen + 1 /\ o.status = api.status
    BY <1>1 DEF Objects
  <2>. HIDE DEF o
  <2>3. /\ SameVersion(o, api') /\ api'.status = o.status
        /\ \E p \in O : Write(p)
    <3>1. Write(o)
      BY <2>1 DEF o
    <3>. QED  BY <2>2, <3>1, WriteEffect
  <2>4. api.exists
    BY <1>4 DEF EditSpec
  <2>5. api'.exists /\ api'.uid = api.uid
    BY <2>2, <2>3, <2>4 DEF SameVersion
  <2>6. api'.deleting = api.deleting /\ api'.finalizer = api.finalizer
    BY <2>2, <2>3 DEF SameVersion
  <2>7. api.gen <= api'.gen /\ (api.gen = api'.gen => api'.spec = api.spec)
    BY <1>1, <2>2, <2>3 DEF SameVersion
  <2>. QED  BY <1>2, <2>2, <2>3, <2>4, <2>5, <2>6, <2>7 DEF Amended
<1>5. CASE Annotate(A)
  <2>1. PICK a \in A : Write([api EXCEPT !.annot = a])
    BY <1>5 DEF Annotate
  <2>. DEFINE o == [api EXCEPT !.annot = a]
  <2>2. /\ o \in O /\ o.exists = api.exists /\ o.uid = api.uid
        /\ o.deleting = api.deleting /\ o.finalizer = api.finalizer
        /\ o.gen = api.gen /\ o.spec = api.spec /\ o.status = api.status
    BY <1>1 DEF Objects
  <2>. HIDE DEF o
  <2>3. /\ SameVersion(o, api') /\ api'.status = o.status
        /\ \E p \in O : Write(p)
    <3>1. Write(o)
      BY <2>1 DEF o
    <3>. QED  BY <2>2, <3>1, WriteEffect
  <2>4. api.exists
    BY <1>5 DEF Annotate
  <2>5. api'.exists /\ api'.uid = api.uid
    BY <2>2, <2>3, <2>4 DEF SameVersion
  <2>6. api'.deleting = api.deleting /\ api'.finalizer = api.finalizer
    BY <2>2, <2>3 DEF SameVersion
  <2>7. api.gen <= api'.gen /\ (api.gen = api'.gen => api'.spec = api.spec)
    BY <1>1, <2>2, <2>3 DEF SameVersion
  <2>. QED  BY <1>2, <2>2, <2>3, <2>4, <2>5, <2>6, <2>7 DEF Amended
<1>6. CASE Delete
  <2>. DEFINE o == Collected([api EXCEPT !.deleting = TRUE, !.gen = @ + 1])
  <2>1. /\ o \in O /\ o.uid = api.uid /\ o.deleting
        /\ o.finalizer = api.finalizer
        /\ o.exists = (api.finalizer \/ api.held)
        /\ o.spec = api.spec /\ o.annot = api.annot /\ o.gen = api.gen + 1
        /\ o.status = api.status
    BY <1>1 DEF Objects, Collected
  <2>2. Write(o)
    BY <1>6 DEF Delete
  <2>. HIDE DEF o
  <2>3. /\ SameVersion(o, api') /\ api'.status = o.status
        /\ \E p \in O : Write(p)
    BY <2>1, <2>2, WriteEffect
  <2>4. api.exists /\ ~api.deleting
    BY <1>6 DEF Delete
  <2>. QED  BY <1>1, <1>2, <2>1, <2>3, <2>4 DEF SameVersion, Retired
<1>7. CASE Release
  <2>. DEFINE o == Collected([api EXCEPT !.held = FALSE])
  <2>1. /\ o \in O /\ o.uid = api.uid /\ o.deleting = api.deleting
        /\ o.finalizer = api.finalizer
        /\ o.exists = ~(api.deleting /\ ~api.finalizer)
        /\ o.spec = api.spec /\ o.annot = api.annot /\ o.gen = api.gen
        /\ o.status = api.status
    BY <1>1 DEF Objects, Collected
  <2>2. Write(o)
    BY <1>7 DEF Release
  <2>. HIDE DEF o
  <2>3. /\ SameVersion(o, api') /\ api'.status = o.status
        /\ \E p \in O : Write(p)
    BY <2>1, <2>2, WriteEffect
  <2>4. api.finalizer \in BOOLEAN /\ api.exists /\ api.deleting
    BY <1>1, <1>7 DEF Objects, Release
  <2>. QED  BY <1>1, <1>2, <2>1, <2>3, <2>4 DEF SameVersion, LetGone
<1>. QED  BY <1>2, <1>3, <1>4, <1>5, <1>6, <1>7 DEF UserStep

\* What is stored next follows what is stored now.
LEMMA KubeStepFollows ==
    ASSUME NEW S, NEW A, NEW T, KubeInv(S, A, T), KubeStep(S, A, T)
    PROVE  /\ api.uid <= api'.uid
           /\ api.uid = api'.uid => SameLife(api, api')
<1>1. api.uid \in Nat /\ api.gen \in Nat /\ api.uid + 1 # api.uid
  BY DEF KubeInv, KubeTypeOK, Objects
<1>2. CASE WorkerStep(A, T)
  BY <1>1, <1>2, WorkerStepEffect DEF SameLife
<1>3. CASE UserStep(S, A, T)
  <2>1. Declared \/ Amended \/ Retired \/ LetGone
    BY <1>3, UserStepEffect
  <2>2. api.finalizer \in BOOLEAN /\ api.held \in BOOLEAN
    BY DEF KubeInv, KubeTypeOK, Objects
  <2>3. CASE Declared
    BY <1>1, <2>3 DEF Declared
  <2>4. CASE Amended
    BY <1>1, <2>4 DEF Amended, SameLife
  <2>5. CASE Retired
    <3>1. api.gen <= api'.gen /\ api.gen # api'.gen
      BY <1>1, <2>5 DEF Retired
    <3>2. api'.uid = api.uid /\ api.exists /\ api'.deleting
      BY <2>5 DEF Retired
    <3>3. SameLife(api, api')
      BY <3>1, <3>2 DEF SameLife
    <3>. QED  BY <1>1, <3>2, <3>3
  <2>6. CASE LetGone
    BY <1>1, <2>6 DEF LetGone, SameLife
  <2>. QED  BY <2>1, <2>3, <2>4, <2>5, <2>6
<1>4. CASE OtherStep
  <2>1. api' = api
    BY <1>4 DEF OtherStep, Deliver, Relist
  <2>. QED  BY <1>1, <2>1 DEF SameLife
<1>. QED  BY <1>2, <1>3, <1>4 DEF KubeStep

LEMMA UserStepOrder ==
    ASSUME NEW S, NEW A, NEW T, KubeInv(S, A, T), UserStep(S, A, T)
    PROVE  VersionsInOrder'
<1>1. PICK o \in Objects(S, A, T) : Write(o)
  BY UserStepEffect
<1>2. UNCHANGED <<cache, local>>
  BY UserStepEffect
<1>3. api.uid <= api'.uid /\ (api.uid = api'.uid => SameLife(api, api'))
  BY KubeStepFollows DEF KubeStep
<1>. QED  BY <1>1, <1>2, <1>3, WriteInOrder DEF KubeInv

LEMMA WorkerStepOrder ==
    ASSUME NEW S, NEW A, NEW T, KubeInv(S, A, T), WorkerStep(A, T)
    PROVE  VersionsInOrder'
<1>. DEFINE O == Objects(S, A, T)
<1>1. PICK o \in O : Write(o)
  BY WorkerStepEffect
<1>2. api.uid <= api'.uid /\ (api.uid = api'.uid => SameLife(api, api'))
  BY KubeStepFollows DEF KubeStep
<1>3. cache' = cache /\ api \in O /\ local \in O /\ VersionsInOrder
  BY DEF WorkerStep, KubeInv, KubeTypeOK
<1>4. CASE Fetches
  BY <1>3, <1>4 DEF Fetches, VersionsInOrder, Versions
<1>5. CASE Works(T)
  <2>1. CASE local' = local
    BY <1>3, <1>5, <2>1 DEF Works, VersionsInOrder, Versions
  <2>2. ASSUME NEW s \in T, local' = [local EXCEPT !.status = s]
        PROVE  VersionsInOrder'
    <3>1. local'.rv = local.rv /\ SameVersion(local', local)
      BY <1>3, <2>2 DEF Objects, SameVersion
    <3>. QED  BY <1>3, <1>5, <3>1, StatusKeepsOrder DEF Works
  <2>. QED  BY <1>5, <2>1, <2>2 DEF Works
<1>6. CASE Reports(T) \/ Guards \/ Releases
  <2>1. \/ local' = local
        \/ local'.rv = api'.rv /\ SameVersion(local', api')
    BY <1>6 DEF Reports, Guards, Releases, SameVersion
  <2>. QED  BY <1>1, <1>2, <1>3, <2>1, WriteInOrder DEF KubeInv
<1>7. CASE Patches(A, T)
  \* The local copy becomes what is stored, up to its status.
  <2>1. CASE local' = local
    BY <1>1, <1>2, <1>3, <2>1, WriteInOrder DEF KubeInv
  <2>2. ASSUME NEW s \in T, local' = [api' EXCEPT !.status = s]
        PROVE  VersionsInOrder'
    <3>1. api' \in O
      BY <1>1, WriteType DEF KubeInv
    <3>2. local'.rv = api'.rv /\ SameVersion(local', api')
      BY <2>2, <3>1 DEF Objects, SameVersion
    <3>. QED  BY <1>1, <1>2, <1>3, <3>2, WriteInOrder DEF KubeInv
  <2>. QED  BY <1>7, <2>1, <2>2 DEF Patches
<1>. QED  BY <1>4, <1>5, <1>6, <1>7 DEF WorkerStep

LEMMA KubeStepOrder ==
    ASSUME NEW S, NEW A, NEW T, KubeInv(S, A, T), KubeStep(S, A, T)
    PROVE  VersionsInOrder'
<1>1. CASE OtherStep
  <2>1. CASE Deliver
    <3>1. PICK v \in watch : cache' = v /\ watch' = {w \in watch : w.rv > v.rv}
      BY <2>1 DEF Deliver
    <3>2. UNCHANGED <<api, local>>
      BY <2>1 DEF Deliver
    <3>3. \A w \in watch : w.rv > v.rv <=> v.rv < w.rv
      BY DEF KubeInv, KubeTypeOK, Objects
    <3>. QED  BY <3>1, <3>2, <3>3 DEF KubeInv, VersionsInOrder, Versions
  <2>2. CASE Relist
    <3>1. Precedes(api, api)
      BY PrecedesReflexive DEF KubeInv, KubeTypeOK
    <3>. QED
      BY <2>2, <3>1 DEF Relist, KubeInv, VersionsInOrder, Versions
  <2>3. CASE UNCHANGED <<api, watch, cache, local>>
    BY <2>3 DEF KubeInv, VersionsInOrder, Versions
  <2>. QED  BY <1>1, <2>1, <2>2, <2>3 DEF OtherStep
<1>. QED  BY <1>1, WorkerStepOrder, UserStepOrder DEF KubeStep

-------------------------------------------------------------------------------
(* What the worker and the cache know. *)

\* A step keeps the identity of the copy the worker holds, or fetches it.
LEMMA HeldCopy ==
    ASSUME NEW S, NEW A, NEW T, KubeInv(S, A, T), KubeStep(S, A, T), Holding'
    PROVE  /\ cache'.uid \in Nat /\ local'.uid \in Nat /\ cache'.rv \in Nat
           /\ cache'.gen \in Nat /\ local'.gen \in Nat /\ local'.rv \in Nat
           /\ \/ local' = cache /\ cache' = cache /\ pc' = "creds"
              \/ /\ Holding
                 /\ local'.uid = local.uid /\ local'.gen = local.gen
                 /\ local'.deleting = local.deleting
                 /\ local'.rv = local.rv \/ ~local.deleting
                 /\ \/ local'.finalizer = local.finalizer
                    \/ ~local.deleting /\ local' = api' /\ api'.finalizer
                 /\ local'.spec = local.spec /\ local'.annot = local.annot
                 /\ \/ pc' = "report" \/ ~local.deleting
                    \/ local' = local /\ pc # "report"
<1>. DEFINE O == Objects(S, A, T)
<1>1. /\ api \in O /\ local \in O /\ cache \in O
      /\ api' \in O /\ local' \in O /\ cache' \in O
  BY KubeStepType DEF KubeInv, KubeTypeOK
<1>2. CASE WorkerStep(A, T)
  <2>1. cache' = cache
    BY <1>2 DEF WorkerStep
  <2>2. CASE Fetches
    BY <1>1, <2>1, <2>2 DEF Fetches, Holding, Objects
  <2>3. CASE Works(T)
    <3>1. Holding
      BY <2>3 DEF Works, Holding
    <3>2. /\ local'.uid = local.uid /\ local'.gen = local.gen
          /\ local'.deleting = local.deleting /\ local'.rv = local.rv
          /\ local'.finalizer = local.finalizer
          /\ local'.spec = local.spec /\ local'.annot = local.annot
      BY <1>1, <2>3 DEF Works, Objects
    <3>3. pc' = "report" \/ ~local.deleting \/ (local' = local /\ pc # "report")
      BY <2>3 DEF Works, Holding
    <3>. QED  BY <1>1, <3>1, <3>2, <3>3 DEF Objects
  <2>4. CASE Guards
    <3>1. Holding /\ ~local.deleting
      BY <2>4 DEF Guards, Holding
    <3>2. SameVersion(local, api)
      BY <2>4, CurrentMeansSame DEF Guards, KubeInv
    <3>3. /\ api'.uid = api.uid /\ api'.gen = api.gen
          /\ api'.deleting = api.deleting /\ api'.spec = api.spec
      BY <1>2, WorkerStepEffect
    <3>4. api'.annot = api.annot
      <4>1. ~Patches(A, T)
        BY <2>4 DEF Guards, Patches, Holding
      <4>. QED  BY <1>2, <4>1, WorkerStepEffect
    <3>5. local' = api'
      BY <2>4 DEF Guards, Holding
    <3>6. /\ local'.uid = local.uid /\ local'.gen = local.gen
          /\ local'.deleting = local.deleting
          /\ local'.spec = local.spec /\ local'.annot = local.annot
      BY <3>2, <3>3, <3>4, <3>5 DEF SameVersion
    <3>7. api'.finalizer
      <4>. DEFINE o == [api EXCEPT !.finalizer = TRUE]
      <4>1. o \in O /\ o.finalizer
        BY <1>1 DEF Objects
      <4>2. Write(o)
        BY <2>4 DEF Guards
      <4>. HIDE DEF o
      <4>. QED  BY <4>1, <4>2, WriteEffect DEF SameVersion
    <3>. QED  BY <1>1, <3>1, <3>5, <3>6, <3>7 DEF Objects
  <2>5. ~(Reports(T) \/ Releases \/ Patches(A, T))
    BY DEF Reports, Releases, Patches, Holding
  <2>. QED  BY <1>2, <2>2, <2>3, <2>4, <2>5 DEF WorkerStep
<1>3. CASE UserStep(S, A, T)
  <2>1. UNCHANGED <<local, pc>>
    BY <1>3, UserStepEffect
  <2>. QED  BY <1>1, <2>1 DEF Objects, Holding
<1>4. CASE OtherStep
  <2>1. UNCHANGED <<local, pc>>
    BY <1>4 DEF OtherStep, Holding, Deliver
  <2>. QED  BY <1>1, <2>1 DEF Objects, Holding
<1>. QED  BY <1>2, <1>3, <1>4 DEF KubeStep

\* The cache only moves on.
LEMMA CacheMovesOn ==
    ASSUME NEW S, NEW A, NEW T, KubeInv(S, A, T), KubeStep(S, A, T)
    PROVE  Precedes(cache, cache') /\ cache' \in watch \cup {cache, api}
<1>1. Precedes(cache, cache)
  BY PrecedesReflexive DEF KubeInv, KubeTypeOK
<1>2. CASE cache' = cache
  BY <1>1, <1>2
<1>3. CASE Deliver
  BY <1>3 DEF Deliver, KubeInv, VersionsInOrder
<1>4. CASE Relist
  BY <1>4 DEF Relist, KubeInv, VersionsInOrder, Versions
<1>5. UserStep(S, A, T) => cache' = cache
  BY UserStepEffect
<1>. QED
  BY <1>2, <1>3, <1>4, <1>5 DEF KubeStep, WorkerStep, OtherStep

LEMMA KubeStepWorkerBehind ==
    ASSUME NEW S, NEW A, NEW T, KubeInv(S, A, T), KubeStep(S, A, T)
    PROVE  WorkerBehind'
<1>. SUFFICES ASSUME Holding'
              PROVE  /\ local'.uid <= cache'.uid
                     /\ local'.uid = cache'.uid => local'.gen <= cache'.gen
                     /\ local'.deleting => local'.rv <= cache'.rv
  BY DEF WorkerBehind
<1>1. /\ cache'.uid \in Nat /\ local'.uid \in Nat /\ cache'.rv \in Nat
      /\ cache'.gen \in Nat /\ local'.gen \in Nat /\ local'.rv \in Nat
  BY HeldCopy
<1>2. cache.uid \in Nat /\ cache.gen \in Nat /\ cache.rv \in Nat
  BY DEF KubeInv, KubeTypeOK, Objects
<1>3. Precedes(cache, cache')
  BY CacheMovesOn
<1>4. CASE local' = cache /\ cache' = cache
  BY <1>1, <1>4
<1>5. CASE /\ Holding
           /\ local'.uid = local.uid /\ local'.gen = local.gen
           /\ local'.deleting = local.deleting
           /\ local'.rv = local.rv \/ ~local.deleting
  <2>1. /\ local.uid <= cache.uid
        /\ local.uid = cache.uid => local.gen <= cache.gen
        /\ local.deleting => local.rv <= cache.rv
    BY <1>5 DEF KubeInv, WorkerBehind
  <2>2. /\ cache.uid <= cache'.uid /\ cache.rv <= cache'.rv
        /\ cache.uid = cache'.uid => cache.gen <= cache'.gen
    BY <1>3 DEF Precedes, SameLife
  <2>3. local'.uid <= cache'.uid
    BY <1>1, <1>2, <1>5, <2>1, <2>2
  <2>4. local'.uid = cache'.uid => local'.gen <= cache'.gen
    BY <1>1, <1>2, <1>5, <2>1, <2>2
  <2>5. local'.deleting => local'.rv <= cache'.rv
    BY <1>1, <1>2, <1>5, <2>1, <2>2
  <2>. QED  BY <2>3, <2>4, <2>5
<1>. QED  BY <1>4, <1>5, HeldCopy

LEMMA KubeStepRemoves ==
    ASSUME NEW S, NEW A, NEW T, KubeInv(S, A, T), KubeStep(S, A, T)
    PROVE  RemovesFromDeleted'
<1>. SUFFICES ASSUME pc' = "removeFinalizer" PROVE local'.deleting
  BY DEF RemovesFromDeleted
<1>1. Holding /\ local'.deleting = local.deleting
  <2>1. Holding' /\ pc' # "creds"
    BY DEF Holding
  <2>. QED  BY <2>1, HeldCopy
<1>2. CASE pc = "removeFinalizer"
  BY <1>1, <1>2 DEF KubeInv, RemovesFromDeleted
<1>3. CASE pc # pc'
  <2>1. Works(T)
    BY <1>3 DEF KubeStep, WorkerStep, UserStep, OtherStep, Fetches, Reports,
                Guards, Releases, Patches
  <2>. QED  BY <1>1, <2>1 DEF Works
<1>. QED  BY <1>2, <1>3

LEMMA KubeStepUid ==
    ASSUME NEW S, NEW A, NEW T, KubeInv(S, A, T), KubeStep(S, A, T)
    PROVE  UidGiven'
<1>1. api.uid \in Nat /\ api.uid + 1 # 0
  BY DEF KubeInv, KubeTypeOK, Objects
<1>2. CASE WorkerStep(A, T)
  BY <1>2, WorkerStepEffect DEF KubeInv, UidGiven
<1>3. CASE UserStep(S, A, T)
  BY <1>1, <1>3, UserStepEffect
     DEF KubeInv, UidGiven, Declared, Amended, Retired, LetGone
<1>4. CASE OtherStep
  BY <1>4 DEF OtherStep, Deliver, Relist, KubeInv, UidGiven
<1>. QED  BY <1>2, <1>3, <1>4 DEF KubeStep

LEMMA KubeStepGone ==
    ASSUME NEW S, NEW A, NEW T, KubeInv(S, A, T), KubeStep(S, A, T)
    PROVE  GoneIsUnguarded'
<1>1. CASE WorkerStep(A, T)
  BY <1>1, WorkerStepEffect DEF KubeInv, GoneIsUnguarded
<1>2. CASE UserStep(S, A, T)
  BY <1>2, UserStepEffect
     DEF KubeInv, GoneIsUnguarded, Declared, Amended, Retired, LetGone
<1>3. CASE OtherStep
  BY <1>3 DEF OtherStep, Deliver, Relist, KubeInv, GoneIsUnguarded
<1>. QED  BY <1>1, <1>2, <1>3 DEF KubeStep

Released == api.exists /\ api.deleting /\ ~api.finalizer

\* A resource is released by the worker, or deleted without ever having had
\* the finalizer.
LEMMA ReleasedAppears ==
    ASSUME NEW S, NEW A, NEW T, KubeInv(S, A, T), KubeStep(S, A, T), Released'
    PROVE  /\ api'.uid = api.uid
           /\ \/ Released
              \/ Releases /\ WorkerStep(A, T)
              \/ Retired /\ ~api.finalizer /\ UserStep(S, A, T)
<1>1. CASE WorkerStep(A, T)
  BY <1>1, WorkerStepEffect DEF Released
<1>2. CASE UserStep(S, A, T)
  BY <1>2, UserStepEffect DEF Released, Declared, Amended, Retired, LetGone
<1>3. CASE OtherStep
  BY <1>3 DEF OtherStep, Deliver, Relist, Released
<1>. QED  BY <1>1, <1>2, <1>3 DEF KubeStep

LEMMA WatchMovesOn ==
    ASSUME NEW S, NEW A, NEW T, KubeInv(S, A, T), KubeStep(S, A, T)
    PROVE  watch' \subseteq watch \cup {api'}
<1>1. CASE \E o \in Objects(S, A, T) : Write(o)
  BY <1>1, WriteEffect
<1>2. CASE OtherStep
  BY <1>2 DEF OtherStep, Deliver, Relist
<1>. QED  BY <1>1, <1>2, WorkerStepEffect, UserStepEffect DEF KubeStep

LEMMA KubeStepReleasedIsKnown ==
    ASSUME NEW S, NEW A, NEW T, KubeInv(S, A, T), KubeStep(S, A, T)
    PROVE  ReleasedIsKnown'
<1>. SUFFICES ASSUME Released',
                     NEW v \in watch' \cup {cache'}
                               \cup (IF Holding' THEN {local'} ELSE {}),
                     v.uid = api'.uid, v.finalizer
              PROVE  v.deleting
  BY DEF ReleasedIsKnown, Released
<1>1. /\ api'.uid = api.uid /\ ~api'.finalizer
      /\ \/ Released
         \/ Releases /\ WorkerStep(A, T)
         \/ Retired /\ ~api.finalizer /\ UserStep(S, A, T)
  BY ReleasedAppears DEF Released
<1>2. v \in watch \cup {cache, api} \/ (Holding' /\ v = local')
  BY <1>1, WatchMovesOn, CacheMovesOn
<1>3. CASE Released
  <2>1. CASE v \in watch \cup {cache, api}
    BY <1>1, <1>3, <2>1 DEF KubeInv, ReleasedIsKnown, Released
  <2>2. CASE Holding' /\ v = local'
    <3>1. CASE local' = cache
      BY <1>1, <1>3, <2>2, <3>1 DEF KubeInv, ReleasedIsKnown, Released
    <3>2. CASE /\ Holding
               /\ local'.uid = local.uid /\ local'.deleting = local.deleting
               /\ local'.finalizer = local.finalizer
      BY <1>1, <1>3, <2>2, <3>2 DEF KubeInv, ReleasedIsKnown, Released
    <3>. QED  BY <1>1, <2>2, <3>1, <3>2, HeldCopy
  <2>. QED  BY <1>2, <2>1, <2>2
<1>4. CASE Releases /\ WorkerStep(A, T)
  <2>1. pc = "removeFinalizer" /\ Current /\ ~Holding'
    BY <1>4 DEF Releases, Holding
  <2>2. api.deleting /\ \A w \in Versions : SameVersion(w, api)
    BY <2>1, EverybodyKnows
  <2>. QED  BY <1>2, <2>1, <2>2 DEF Versions, SameVersion
<1>5. CASE Retired /\ ~api.finalizer /\ UserStep(S, A, T)
  <2>1. api.exists /\ ~api.deleting /\ ~api.finalizer
    BY <1>5 DEF Retired
  <2>2. local' = local
    BY <1>5, UserStepEffect
  <2>3. v \in Versions \/ v = api
    BY <1>2, <2>2 DEF Versions
  <2>. QED  BY <1>1, <2>1, <2>3 DEF KubeInv, VersionsInOrder, Precedes, SameLife
<1>. QED  BY <1>1, <1>3, <1>4, <1>5

-------------------------------------------------------------------------------
(* What the statuses say. *)

\* What the worker holds next: what it held, fetched or was answered, up to
\* the rest of the status.
LEMMA NextCopy ==
    ASSUME NEW S, NEW A, NEW T, KubeInv(S, A, T), KubeStep(S, A, T)
    PROVE  \E v \in {local, cache, api'} :
             /\ local'.gen = v.gen /\ local'.annot = v.annot
             /\ local'.spec = v.spec /\ local'.deleting = v.deleting
             /\ local'.status.observedGeneration = v.status.observedGeneration
<1>1. local \in Objects(S, A, T) /\ api' \in Objects(S, A, T)
  BY KubeStepType DEF KubeInv, KubeTypeOK
<1>2. CASE local' \in {local, cache, api'}
  BY <1>2
<1>3. ASSUME NEW s \in T, NEW v \in {local, api'},
             s.observedGeneration = v.status.observedGeneration,
             local' = [v EXCEPT !.status = s]
      PROVE  /\ local'.gen = v.gen /\ local'.annot = v.annot
             /\ local'.spec = v.spec /\ local'.deleting = v.deleting
             /\ local'.status.observedGeneration = v.status.observedGeneration
  BY <1>1, <1>3 DEF Objects
<1>4. CASE Works(T) \/ Patches(A, T)
  BY <1>2, <1>3, <1>4 DEF Works, Patches
<1>5. UserStep(S, A, T) => local' = local
  BY UserStepEffect
<1>. QED
  BY <1>2, <1>4, <1>5
     DEF KubeStep, WorkerStep, Fetches, Reports, Guards, Releases, OtherStep,
         Deliver, Relist

\* Status().Update stores what the worker's step says, over the version it
\* was made from.
LEMMA ReportsEffect ==
    ASSUME NEW S, NEW A, NEW T, KubeInv(S, A, T), Reports(T)
    PROVE  /\ SameVersion(local, api) /\ SameVersion(api, api')
           /\ pc # "idle" /\ pc' = "idle" /\ Current
           /\ api'.status \in T
           /\ api'.status.observedGeneration
                \in {local.status.observedGeneration, local.gen}
           /\ api'.status.reason = "Completed" => pc = "ready"
<1>1. PICK s \in T :
        /\ s.observedGeneration \in {local.status.observedGeneration, local.gen}
        /\ s.reason = "Completed" => pc = "ready"
        /\ Write([api EXCEPT !.status = s])
  BY DEF Reports
<1>. DEFINE o == [api EXCEPT !.status = s]
<1>2. o \in Objects(S, A, T) /\ SameVersion(api, o) /\ o.status = s
  BY DEF KubeInv, KubeTypeOK, Objects, SameVersion
<1>. HIDE DEF o
<1>3. SameVersion(o, api') /\ api'.status = s
  <2>1. Write(o)
    BY <1>1 DEF o
  <2>. QED  BY <1>2, <2>1, WriteEffect
<1>4. SameVersion(local, api)
  BY CurrentMeansSame DEF Reports, KubeInv
<1>. QED  BY <1>1, <1>2, <1>3, <1>4 DEF Reports, SameVersion

LEMMA KubeStepHonest ==
    ASSUME NEW S, NEW A, NEW T, KubeInv(S, A, T), KubeStep(S, A, T),
           StatusesClosed(T)
    PROVE  ReportsHonest'
<1>. DEFINE O == Objects(S, A, T)
<1>1. /\ api \in O /\ local \in O /\ cache \in O /\ watch \subseteq O
      /\ api' \in O /\ local' \in O
  BY KubeStepType DEF KubeInv, KubeTypeOK
<1>2. \A v \in O : v.gen \in Nat /\ v.status.observedGeneration \in Nat
  BY DEF Objects, StatusesClosed
<1>3. \A v \in watch \cup {cache, local, api} : Observed(v)
  BY DEF KubeInv, ReportsHonest, Versions
<1>4. Observed(api')
  <2>1. /\ api.gen \in Nat /\ api'.gen \in Nat
        /\ api.status.observedGeneration \in Nat
        /\ api'.status.observedGeneration \in Nat
        /\ api.status.observedGeneration <= api.gen
    BY <1>1, <1>2, <1>3 DEF Observed
  <2>2. CASE api'.status = api.status /\ api.gen <= api'.gen
    BY <2>1, <2>2 DEF Observed
  <2>3. CASE WorkerStep(A, T) /\ Reports(T)
    <3>1. /\ api'.gen = local.gen
          /\ api'.status.observedGeneration
               \in {local.status.observedGeneration, local.gen}
      BY <2>3, ReportsEffect DEF SameVersion
    <3>2. local.status.observedGeneration <= local.gen
      BY <1>3 DEF Observed
    <3>. QED  BY <2>1, <3>1, <3>2 DEF Observed
  <2>4. CASE Declared
    BY <2>1, <2>4 DEF Declared, Observed
  <2>5. CASE WorkerStep(A, T)
    <3>1. api'.gen = api.gen /\ (api'.status = api.status \/ Reports(T))
      BY <2>5, WorkerStepEffect
    <3>2. api.gen <= api'.gen
      BY <2>1, <3>1
    <3>. QED  BY <2>2, <2>3, <2>5, <3>1, <3>2
  <2>6. CASE UserStep(S, A, T)
    <3>1. Declared \/ Amended \/ Retired \/ LetGone
      BY <2>6, UserStepEffect
    <3>2. CASE Amended \/ Retired \/ LetGone
      <4>1. api.gen <= api'.gen
        BY <2>1, <3>2 DEF Amended, Retired, LetGone
      <4>2. api'.status = api.status
        BY <3>2 DEF Amended, Retired, LetGone
      <4>. QED  BY <2>2, <4>1, <4>2
    <3>. QED  BY <2>4, <3>1, <3>2
  <2>7. CASE OtherStep
    <3>1. api' = api
      BY <2>7 DEF OtherStep, Deliver, Relist
    <3>2. api.gen <= api'.gen
      BY <2>1, <3>1
    <3>. QED  BY <2>2, <3>1, <3>2
  <2>. QED  BY <2>5, <2>6, <2>7 DEF KubeStep
<1>5. Observed(local')
  BY <1>3, <1>4, NextCopy DEF Observed
<1>6. \A v \in (Versions \cup {api})' : Observed(v)
  <2>1. watch' \cup {cache'} \subseteq watch \cup {cache, api, api'}
    BY WatchMovesOn, CacheMovesOn
  <2>. QED  BY <1>3, <1>4, <1>5, <2>1 DEF Versions
<1>7. ASSUME pc' = "report" PROVE local'.status.reason # "Completed"
  <2>1. CASE pc = "report" /\ local' = local
    BY <2>1 DEF KubeInv, ReportsHonest
  <2>2. CASE Works(T)
    BY <1>7, <2>2 DEF Works
  <2>3. UserStep(S, A, T) => local' = local /\ pc' = pc
    BY UserStepEffect
  <2>. QED
    BY <1>7, <2>1, <2>2, <2>3
       DEF KubeStep, WorkerStep, Fetches, Reports, Guards, Releases, Patches,
           OtherStep, Deliver
<1>. QED  BY <1>6, <1>7 DEF ReportsHonest

\* What is stored anew has a resourceVersion no earlier version has.
LEMMA NewVersion ==
    ASSUME NEW S, NEW A, NEW T, KubeInv(S, A, T), KubeStep(S, A, T)
    PROVE  api' = api \/ \A v \in Versions \cup {api} : v.rv # api'.rv
<1>1. api' = api \/ api'.rv = api.rv + 1
  <2>1. CASE \E o \in Objects(S, A, T) : Write(o)
    BY <2>1, WriteEffect
  <2>2. OtherStep => api' = api
    BY DEF OtherStep, Deliver, Relist
  <2>. QED  BY <2>1, <2>2, WorkerStepEffect, UserStepEffect DEF KubeStep
<1>2. \A v \in Versions \cup {api} : v.rv \in Nat
  BY DEF KubeInv, KubeTypeOK, Versions, Objects
<1>3. \A v \in Versions : v.rv <= api.rv
  BY DEF KubeInv, VersionsInOrder, Precedes
<1>. QED  BY <1>1, <1>2, <1>3

LEMMA KubeStepStatuses ==
    ASSUME NEW S, NEW A, NEW T, KubeInv(S, A, T), KubeStep(S, A, T)
    PROVE  StatusesTold'
<1>. DEFINE V == watch \cup {cache, api}
<1>1. (watch \cup {cache, api})' \subseteq V \cup {api'}
  BY WatchMovesOn, CacheMovesOn
<1>2. \A v, w \in V : v.rv = w.rv => v.status = w.status
  BY DEF KubeInv, StatusesTold
<1>3. api' = api \/ \A v \in V \cup {local} : v.rv # api'.rv
  BY NewVersion DEF Versions
<1>4. \A v, w \in (watch \cup {cache, api})' :
        v.rv = w.rv => v.status = w.status
  BY <1>1, <1>2, <1>3
<1>5. ASSUME Holding', pc' # "report", local'.deleting,
             NEW v \in (watch \cup {cache, api})', v.rv = local'.rv
      PROVE  v.status = local'.status
  <2>1. CASE local' = cache
    BY <1>1, <1>2, <1>3, <1>5, <2>1
  <2>2. CASE /\ Holding /\ local.deleting
             /\ local' = local /\ pc # "report"
    BY <1>1, <1>3, <1>5, <2>2 DEF KubeInv, StatusesTold
  <2>. QED  BY <1>5, <2>1, <2>2, HeldCopy
<1>. QED  BY <1>4, <1>5 DEF StatusesTold

-------------------------------------------------------------------------------
(* The invariant of the Kubernetes side. *)

LEMMA KubeInitInv ==
    ASSUME NEW S, NEW A, NEW T, api \in Objects(S, A, T), ~api.exists,
           ~api.finalizer,
           cache = api, local = api, watch = {}, queued = FALSE,
           edits = 0, faults = 0, pc = "idle",
           api.status.observedGeneration = 0
    PROVE  KubeInv(S, A, T)
<1>1. KubeTypeOK(S, A, T)
  <2>1. edits \in 0..MaxEdits /\ faults \in 0..MaxFaults
    BY BudgetsAssumption
  <2>2. queued \in BOOLEAN
    OBVIOUS
  <2>. QED  BY <2>1, <2>2 DEF KubeTypeOK
<1>2. VersionsInOrder
  <2>1. Precedes(api, api)
    BY PrecedesReflexive
  <2>. QED  BY <2>1 DEF VersionsInOrder, Versions
<1>3. ReportsHonest /\ StatusesTold
  <2>1. api.gen \in Nat
    BY DEF Objects
  <2>. QED
    BY <2>1 DEF ReportsHonest, StatusesTold, Observed, Versions, Holding
<1>. QED
  BY <1>1, <1>2, <1>3
     DEF KubeInv, WorkerBehind, Holding, RemovesFromDeleted, ReleasedIsKnown,
         UidGiven, GoneIsUnguarded

LEMMA KubeStepInv ==
    ASSUME NEW S, NEW A, NEW T, KubeInv(S, A, T), KubeStep(S, A, T),
           StatusesClosed(T)
    PROVE  KubeInv(S, A, T)'
<1>1. KubeTypeOK(S, A, T)'
  BY KubeStepType DEF KubeInv
<1>2. VersionsInOrder' /\ WorkerBehind' /\ RemovesFromDeleted'
  BY KubeStepOrder, KubeStepWorkerBehind, KubeStepRemoves
<1>3. ReleasedIsKnown' /\ UidGiven' /\ GoneIsUnguarded'
  BY KubeStepReleasedIsKnown, KubeStepUid, KubeStepGone
<1>4. ReportsHonest' /\ StatusesTold'
  BY KubeStepHonest, KubeStepStatuses
<1>. QED  BY <1>1, <1>2, <1>3, <1>4 DEF KubeInv

-------------------------------------------------------------------------------
(* What follows for a controller. *)

\* What was created for uid u, which the cache and the worker know of, stays
\* known to them.
LEMMA KnownStays ==
    ASSUME NEW S, NEW A, NEW T, KubeInv(S, A, T), KubeStep(S, A, T),
           NEW u \in Nat, u <= cache.uid, Holding => u <= local.uid
    PROVE  u <= cache'.uid /\ (Holding' => u <= local'.uid)
<1>1. cache.uid \in Nat /\ cache'.uid \in Nat
  BY KubeStepType DEF KubeInv, KubeTypeOK, Objects
<1>2. cache.uid <= cache'.uid
  BY CacheMovesOn DEF Precedes
<1>. QED  BY <1>1, <1>2, HeldCopy

\* While the life u of the resource lasts, a stored finalizer stays stored.
LEMMA GuardStays ==
    ASSUME NEW S, NEW A, NEW T, KubeInv(S, A, T), KubeStep(S, A, T),
           NEW u \in Nat, u <= api.uid,
           u = api.uid => ~api.exists \/ api.deleting \/ api.finalizer,
           u = api'.uid
    PROVE  ~api'.exists \/ api'.deleting \/ api'.finalizer
<1>1. api.uid \in Nat /\ u # api.uid + 1
  BY DEF KubeInv, KubeTypeOK, Objects
<1>2. CASE WorkerStep(A, T)
  BY <1>2, WorkerStepEffect
<1>3. CASE UserStep(S, A, T)
  BY <1>1, <1>3, UserStepEffect DEF Declared, Amended, Retired, LetGone
<1>4. CASE OtherStep
  BY <1>4 DEF OtherStep, Deliver, Relist
<1>. QED  BY <1>2, <1>3, <1>4 DEF KubeStep

\* A copy with the finalizer, not being deleted, means that the life it is
\* of, if it lasts, is guarded or being finalized: what the worker creates
\* from such a copy cannot escape finalization.
LEMMA HeldMeansGuarded ==
    ASSUME NEW S, NEW A, NEW T, KubeInv(S, A, T), Holding,
           local.finalizer, ~local.deleting, local.uid = api.uid, api.exists
    PROVE  api.finalizer
<1>1. api.deleting \/ api.finalizer
  BY DEF KubeInv, VersionsInOrder, Versions, Precedes, SameLife
<1>. QED  BY <1>1 DEF KubeInv, ReleasedIsKnown

-------------------------------------------------------------------------------
(* The steps all controllers share are worker's steps.                     *)

LEMMA FetchStep ==
    ASSUME NEW S, NEW A, NEW T, KubeInv(S, A, T), FetchResource
    PROVE  WorkerStep(A, T)
<1>1. queued' \in BOOLEAN /\ (Fault \/ UNCHANGED faults)
  BY DEF FetchResource, Requeue
<1>2. Fetches
  BY DEF FetchResource, Requeue, Fetches
<1>. QED  BY <1>1, <1>2 DEF WorkerStep, FetchResource

LEMMA ConnectStep ==
    ASSUME NEW S, NEW A, NEW T, KubeInv(S, A, T), StatusesClosed(T),
           ResolveCredentials \/ GetConnection
    PROVE  WorkerStep(A, T)
<1>1. local.status \in T /\ queued \in BOOLEAN
  BY DEF KubeInv, KubeTypeOK, Objects
<1>2. /\ pc \in {"creds", "connect"} /\ pc' \in {"connect", "finalizer", "report"}
      /\ queued' = queued /\ (Fault \/ UNCHANGED faults)
      /\ UNCHANGED <<api, watch, cache, edits>>
      /\ \/ local' = local /\ pc' # "report"
         \/ \E r \in {"FailedToGetSecret", "ConnectionFailed"} :
              local' = [local EXCEPT !.status.reason = r] /\ pc' = "report"
  BY DEF ResolveCredentials, GetConnection, Attempt, Goto, Fail
<1>3. CASE local' = local /\ pc' # "report"
  BY <1>1, <1>2, <1>3 DEF WorkerStep, Works, Holding
<1>4. ASSUME NEW r \in {"FailedToGetSecret", "ConnectionFailed"},
             local' = [local EXCEPT !.status.reason = r], pc' = "report"
      PROVE  WorkerStep(A, T)
  <2>. DEFINE s == WithReason(local.status, r)
  <2>. HIDE DEF s
  <2>1. /\ s \in T /\ s.reason = r
        /\ s.observedGeneration = local.status.observedGeneration
    <3>1. r \in {"FailedToGetSecret", "ConnectionFailed", "FailedToFinalize"}
      OBVIOUS
    <3>2. \A t \in T :
            /\ WithReason(t, r) \in T /\ WithReason(t, r).reason = r
            /\ WithReason(t, r).observedGeneration = t.observedGeneration
      BY <3>1, Zenon DEF StatusesClosed
    <3>. QED  BY <1>1, <3>2, Zenon DEF s
  <2>2. local' = [local EXCEPT !.status = s]
    BY <1>4 DEF s, WithReason
  <2>3. local'.status = s
    BY <2>2 DEF KubeInv, KubeTypeOK, Objects
  <2>4. Works(T)
    BY <1>2, <1>4, <2>1, <2>2, <2>3 DEF Works, Holding
  <2>. QED  BY <1>1, <1>2, <2>4 DEF WorkerStep
<1>. QED  BY <1>2, <1>3, <1>4

LEMMA FinalizerStep ==
    ASSUME NEW S, NEW A, NEW T, KubeInv(S, A, T),
           NEW next, next \notin {"removeFinalizer", "report", "ready"},
           NEW drops,
           StoreFinalizer(next) \/ ChooseFinalization(drops)
             \/ ReleaseFinalizer
    PROVE  WorkerStep(A, T)
<1>1. queued \in BOOLEAN
  BY DEF KubeInv, KubeTypeOK
<1>2. /\ queued' \in BOOLEAN /\ (Fault \/ UNCHANGED faults)
      /\ UNCHANGED <<cache, edits>>
  BY <1>1 DEF StoreFinalizer, ChooseFinalization, ReleaseFinalizer, Goto, Done,
              Requeue
<1>3. Works(T) \/ Guards \/ Releases
  <2>1. CASE StoreFinalizer(next)
    <3>1. CASE UNCHANGED <<api, watch, local>>
      BY <2>1, <3>1 DEF StoreFinalizer, Works, Holding, Goto, Requeue
    <3>2. CASE /\ ~local.finalizer /\ Current
               /\ Write([api EXCEPT !.finalizer = TRUE])
               /\ \/ local' = api' /\ Goto(next)
                  \/ Requeue /\ UNCHANGED local
      BY <2>1, <3>2 DEF StoreFinalizer, Guards, Goto, Requeue
    <3>. QED  BY <2>1, <3>1, <3>2 DEF StoreFinalizer
  <2>2. CASE ChooseFinalization(drops)
    BY <2>2 DEF ChooseFinalization, Works, Holding, Goto, Done
  <2>3. CASE ReleaseFinalizer
    <3>1. CASE UNCHANGED <<api, watch>>
      BY <2>3, <3>1 DEF ReleaseFinalizer, Works, Holding, Done, Requeue
    <3>2. CASE Current /\ Write(Collected([api EXCEPT !.finalizer = FALSE]))
      BY <2>3, <3>2 DEF ReleaseFinalizer, Releases, Done, Requeue
    <3>. QED  BY <2>3, <3>1, <3>2 DEF ReleaseFinalizer
  <2>. QED  BY <2>1, <2>2, <2>3
<1>. QED  BY <1>2, <1>3 DEF WorkerStep

LEMMA ReportStep ==
    ASSUME NEW S, NEW A, NEW T, KubeInv(S, A, T), StatusesClosed(T),
           ReportFinalization \/ WriteFailure \/ WriteReady
    PROVE  WorkerStep(A, T)
<1>. DEFINE Says(s) ==
       /\ s \in T
       /\ s.observedGeneration \in {local.status.observedGeneration, local.gen}
       /\ s.reason = "Completed" => pc = "ready"
<1>0. local.status \in T /\ local.gen \in Nat
  BY DEF KubeInv, KubeTypeOK, Objects
<1>1. /\ Says(WithReason(local.status, "FailedToFinalize"))
      /\ pc = "report" => Says(local.status)
      /\ pc = "ready" => Says([local.status EXCEPT !.reason = "Completed",
                                         !.observedGeneration = local.gen])
  <2>1. Says(WithReason(local.status, "FailedToFinalize"))
    BY <1>0 DEF StatusesClosed
  <2>2. pc = "report" => Says(local.status)
    BY <1>0 DEF KubeInv, ReportsHonest
  <2>3. pc = "ready" => Says([local.status EXCEPT !.reason = "Completed",
                                         !.observedGeneration = local.gen])
    BY <1>0 DEF StatusesClosed
  <2>. QED  BY <2>1, <2>2, <2>3
<1>2. /\ pc \in {"finalizeFailed", "report", "ready"} /\ pc' = "idle"
      /\ queued' = TRUE /\ UNCHANGED <<cache, local, edits>>
      /\ \E s \in T : Says(s) /\ StatusUpdate(s)
  <2>. HIDE DEF Says
  <2>1. \A s : Says(s) => s \in T
    BY DEF Says
  <2>. QED
    BY <1>1, <2>1 DEF ReportFinalization, WriteFailure, WriteReady, Requeue,
                      WithReason
<1>3. PICK s \in T : Says(s) /\ StatusUpdate(s)
  BY <1>2
<1>4. CASE UNCHANGED <<api, watch>>
  <2>1. Works(T)
    BY <1>2, <1>4 DEF Works, Holding
  <2>. QED  BY <1>2, <1>3, <2>1 DEF WorkerStep, StatusUpdate
<1>5. CASE Current /\ Write([api EXCEPT !.status = s]) /\ UNCHANGED faults
  <2>1. Reports(T)
    BY <1>2, <1>3, <1>5 DEF Reports
  <2>. QED  BY <1>2, <1>5, <2>1 DEF WorkerStep
<1>. QED  BY <1>3, <1>4, <1>5 DEF StatusUpdate

-------------------------------------------------------------------------------
(* Ready. *)

\* Until a patch has brought the worker a copy newer than the one it fetched,
\* a call about to report Ready is not ahead of the cache; and once the stored
\* resource is Ready, neither the cache nor the worker holds an older
\* generation, whose spec could undo it.
ReadyIsKnown ==
    /\ pc = "ready" => /\ ~local.deleting
                       /\ local.uid <= cache.uid
                       /\ local.uid = cache.uid => local.gen <= cache.gen
    /\ Ready => /\ ~api.deleting
                /\ cache.uid = api.uid /\ cache.gen = api.gen
                /\ pc # "idle" => local.uid = api.uid /\ local.gen = api.gen

\* Only the last step of a Reconcile call over the stored version makes the
\* resource Ready; every change of what the user wants unmakes it.
LEMMA ReadyAppears ==
    ASSUME NEW S, NEW A, NEW T, KubeInv(S, A, T), KubeStep(S, A, T),
           StatusesClosed(T), Ready'
    PROVE  /\ Ready \/ (Reports(T) /\ WorkerStep(A, T) /\ pc = "ready")
           /\ api'.uid = api.uid /\ api'.gen = api.gen
           /\ api'.spec = api.spec /\ api'.deleting = api.deleting
           /\ api.exists
<1>1. /\ api.status.observedGeneration # api.gen + 1
      /\ api.status.observedGeneration <= api.gen
      /\ api.gen \in Nat /\ api'.gen \in Nat
  <2>1. api.gen \in Nat /\ api.status \in T /\ api'.gen \in Nat
    BY KubeStepType DEF KubeInv, KubeTypeOK, Objects
  <2>2. api.status.observedGeneration \in Nat
    BY <2>1 DEF StatusesClosed
  <2>3. api.status.observedGeneration <= api.gen
    BY DEF KubeInv, ReportsHonest, Observed
  <2>. QED  BY <2>1, <2>2, <2>3
<1>2. CASE WorkerStep(A, T)
  <2>1. /\ api'.uid = api.uid /\ api'.gen = api.gen
        /\ api'.spec = api.spec /\ api'.deleting = api.deleting
        /\ api'.status = api.status \/ Reports(T)
        /\ api.exists
    BY <1>2, WorkerStepEffect DEF Ready
  <2>2. CASE api'.status = api.status
    BY <2>1, <2>2 DEF Ready
  <2>3. CASE Reports(T)
    BY <1>2, <2>1, <2>3, ReportsEffect DEF Ready
  <2>. QED  BY <2>1, <2>2, <2>3
<1>3. CASE UserStep(S, A, T)
  <2>1. Declared \/ Amended \/ Retired \/ LetGone
    BY <1>3, UserStepEffect
  <2>2. ~Declared
    BY DEF Declared, Ready
  <2>3. ~Retired
    BY <1>1 DEF Retired, Ready
  <2>4. CASE Amended
    <3>1. api.gen <= api'.gen /\ api'.gen <= api.gen
      BY <1>1, <2>4 DEF Amended, Ready
    <3>2. api'.gen = api.gen
      BY <1>1, <3>1
    <3>. QED  BY <2>4, <3>2 DEF Amended, Ready
  <2>5. CASE LetGone
    BY <2>5 DEF LetGone, Ready
  <2>. QED  BY <2>1, <2>2, <2>3, <2>4, <2>5
<1>4. CASE OtherStep
  BY <1>4 DEF OtherStep, Deliver, Relist, Ready
<1>. QED  BY <1>2, <1>3, <1>4 DEF KubeStep

\* How the worker comes to its last step without the answer of a patch.
LEMMA ReadyCopy ==
    ASSUME NEW S, NEW A, NEW T, KubeInv(S, A, T), KubeStep(S, A, T),
           Patches(A, T) => local' = local, pc' # "idle"
    PROVE  \/ local' = cache /\ pc' = "creds"
           \/ /\ pc # "idle"
              /\ local'.uid = local.uid /\ local'.gen = local.gen
              /\ local'.deleting = local.deleting
              /\ pc' = "ready"
                   => pc = "ready" \/ (Holding /\ ~local.deleting)
<1>1. CASE pc' = "ready"
  <2>1. CASE Works(T)
    <3>1. /\ local'.uid = local.uid /\ local'.gen = local.gen
          /\ local'.deleting = local.deleting
      BY <2>1 DEF Works, KubeInv, KubeTypeOK, Objects
    <3>. QED  BY <1>1, <2>1, <3>1 DEF Works, Holding
  <2>2. UserStep(S, A, T) => local' = local /\ pc' = pc
    BY UserStepEffect
  <2>3. CASE Patches(A, T)
    BY <2>3 DEF Patches, Holding
  <2>. QED
    BY <1>1, <2>1, <2>2, <2>3 DEF KubeStep, WorkerStep, Fetches, Reports, Guards,
                            Releases, OtherStep, Deliver
<1>2. CASE pc' # "ready"
  BY <1>2, HeldCopy DEF Holding
<1>. QED  BY <1>1, <1>2

LEMMA KubeStepReady ==
    ASSUME NEW S, NEW A, NEW T, KubeInv(S, A, T), KubeStep(S, A, T),
           StatusesClosed(T), Patches(A, T) => local' = local, ReadyIsKnown
    PROVE  ReadyIsKnown'
<1>1. /\ api.uid \in Nat /\ cache.uid \in Nat /\ local.uid \in Nat
      /\ api.gen \in Nat /\ cache.gen \in Nat /\ local.gen \in Nat
      /\ cache'.uid \in Nat /\ local'.uid \in Nat
      /\ cache'.gen \in Nat /\ local'.gen \in Nat
  BY KubeStepType DEF KubeInv, KubeTypeOK, Objects
<1>2. /\ cache.uid <= cache'.uid
      /\ cache.uid = cache'.uid => cache.gen <= cache'.gen
  BY CacheMovesOn DEF Precedes, SameLife
<1>3. ASSUME pc' = "ready"
      PROVE  /\ ~local'.deleting
             /\ local'.uid <= cache'.uid
             /\ local'.uid = cache'.uid => local'.gen <= cache'.gen
  <2>1. /\ local'.uid = local.uid /\ local'.gen = local.gen
        /\ local'.deleting = local.deleting
        /\ pc = "ready" \/ (Holding /\ ~local.deleting)
    BY <1>3, ReadyCopy
  <2>2. /\ ~local.deleting
        /\ local.uid <= cache.uid
        /\ local.uid = cache.uid => local.gen <= cache.gen
    BY <2>1 DEF ReadyIsKnown, KubeInv, WorkerBehind
  <2>3. local'.uid <= cache'.uid
    BY <1>1, <1>2, <2>1, <2>2
  <2>4. local'.uid = cache'.uid => local'.gen <= cache'.gen
    BY <1>1, <1>2, <2>1, <2>2
  <2>. QED  BY <2>1, <2>2, <2>3, <2>4
<1>4. ASSUME Ready'
      PROVE  /\ ~api'.deleting
             /\ cache'.uid = api'.uid /\ cache'.gen = api'.gen
             /\ pc' # "idle" => local'.uid = api'.uid /\ local'.gen = api'.gen
  <2>1. /\ Ready \/ (Reports(T) /\ WorkerStep(A, T) /\ pc = "ready")
        /\ api'.uid = api.uid /\ api'.gen = api.gen
        /\ api'.deleting = api.deleting
    BY <1>4, ReadyAppears
  <2>2. CASE Reports(T) /\ WorkerStep(A, T) /\ pc = "ready"
    <3>1. SameVersion(local, api) /\ pc' = "idle" /\ cache' = cache
      BY <2>2, ReportsEffect DEF WorkerStep
    <3>2. /\ ~api.deleting
          /\ api.uid <= cache.uid
          /\ api.uid = cache.uid => api.gen <= cache.gen
      BY <2>2, <3>1 DEF ReadyIsKnown, SameVersion
    <3>3. cache.uid <= api.uid /\ (cache.uid = api.uid => cache.gen <= api.gen)
      BY DEF KubeInv, VersionsInOrder, Versions, Precedes, SameLife
    <3>4. cache.uid = api.uid
      BY <1>1, <3>2, <3>3
    <3>5. cache.gen = api.gen
      BY <1>1, <3>2, <3>3, <3>4
    <3>. QED  BY <2>1, <3>1, <3>2, <3>4, <3>5
  <2>3. CASE Ready
    <3>1. /\ ~api.deleting
          /\ cache.uid = api.uid /\ cache.gen = api.gen
          /\ pc # "idle" => local.uid = api.uid /\ local.gen = api.gen
      BY <2>3 DEF ReadyIsKnown
    <3>2. cache' \in watch \cup {cache, api}
      BY CacheMovesOn
    <3>3. /\ cache'.uid <= api.uid
          /\ cache'.uid = api.uid => cache'.gen <= api.gen
      BY <1>1, <3>1, <3>2
         DEF KubeInv, VersionsInOrder, Versions, Precedes, SameLife
    <3>4. cache'.uid = api.uid
      BY <1>1, <1>2, <3>1, <3>3
    <3>5. cache'.gen = api.gen
      BY <1>1, <1>2, <3>1, <3>3, <3>4
    <3>6. pc' # "idle" => local'.uid = api'.uid /\ local'.gen = api'.gen
      BY <2>1, <3>1, ReadyCopy
    <3>. QED  BY <2>1, <3>1, <3>4, <3>5, <3>6
  <2>. QED  BY <2>1, <2>2, <2>3
<1>. QED  BY <1>3, <1>4 DEF ReadyIsKnown

\* While the resource is Ready, a call that is running works on its spec.
LEMMA ReadyMeansCurrent ==
    ASSUME NEW S, NEW A, NEW T, KubeInv(S, A, T), ReadyIsKnown, Ready,
           pc # "idle"
    PROVE  local.spec = api.spec /\ ~local.deleting /\ ~api.deleting
<1>1. local.uid = api.uid /\ local.gen = api.gen /\ ~api.deleting
  BY DEF ReadyIsKnown
<1>. QED
  BY <1>1 DEF KubeInv, VersionsInOrder, Versions, Precedes, SameLife

-------------------------------------------------------------------------------
(* The life of the resource. *)

SameWishes == api'.spec = api.spec /\ api'.annot = api.annot

\* How the stage may change in a step, and what does not change with it.
StageStep ==
    \/ /\ Stage' = Stage /\ api'.uid = api.uid /\ api'.exists = api.exists
       /\ ~api.exists => SameWishes
    \/ Stage = "absent" /\ Stage' = "declared" /\ api'.uid = api.uid + 1
    \/ /\ api'.uid = api.uid /\ SameWishes
       /\ \/ Stage = "declared" /\ Stage' \in {"guarded", "released", "absent"}
          \/ Stage = "guarded" /\ Stage' = "leaving"
          \/ /\ Stage = "leaving" /\ Stage' \in {"released", "absent"}
             /\ pc = "removeFinalizer" /\ Current
          \/ Stage = "released" /\ Stage' = "absent"

StageOf(exists, deleting, finalizer) ==
    IF ~exists THEN "absent"
    ELSE IF deleting THEN IF finalizer THEN "leaving" ELSE "released"
    ELSE IF finalizer THEN "guarded" ELSE "declared"

LEMMA KubeStepStage ==
    ASSUME NEW S, NEW A, NEW T, KubeInv(S, A, T), KubeStep(S, A, T)
    PROVE  StageStep
<1>1. /\ Stage = StageOf(api.exists, api.deleting, api.finalizer)
      /\ Stage' = StageOf(api'.exists, api'.deleting, api'.finalizer)
  BY DEF Stage, StageOf
<1>2. /\ api.exists \in BOOLEAN /\ api.deleting \in BOOLEAN
      /\ api.finalizer \in BOOLEAN /\ api.held \in BOOLEAN
      /\ api'.exists \in BOOLEAN /\ api'.deleting \in BOOLEAN
      /\ api'.finalizer \in BOOLEAN
  BY KubeStepType DEF KubeInv, KubeTypeOK, Objects
<1>3. CASE WorkerStep(A, T)
  <2>1. /\ api'.uid = api.uid /\ api'.spec = api.spec
        /\ api'.deleting = api.deleting
    BY <1>3, WorkerStepEffect
  <2>2. CASE api'.exists = api.exists /\ api'.finalizer = api.finalizer
    <3>1. ~api.exists => api'.annot = api.annot
      BY <1>3, WorkerStepEffect
    <3>2. Stage' = Stage
      BY <1>1, <2>1, <2>2
    <3>. QED  BY <2>1, <2>2, <3>1, <3>2 DEF StageStep, SameWishes
  <2>3. CASE /\ ~(api'.exists = api.exists /\ api'.finalizer = api.finalizer)
             /\ api.exists /\ api'.exists /\ ~api.deleting /\ api'.finalizer
    <3>1. SameWishes
      BY <1>3, <2>1, <2>3, WorkerStepEffect DEF SameWishes
    <3>2. Stage = "declared" /\ Stage' = "guarded"
      BY <1>1, <1>2, <2>1, <2>3 DEF StageOf
    <3>. QED  BY <2>1, <3>1, <3>2 DEF StageStep
  <2>4. CASE /\ ~(api'.exists = api.exists /\ api'.finalizer = api.finalizer)
             /\ Releases /\ api.exists /\ api.deleting /\ ~api'.finalizer
    <3>1. SameWishes
      BY <1>3, <2>1, <2>4, WorkerStepEffect DEF SameWishes
    <3>2. /\ Stage = IF api.finalizer THEN "leaving" ELSE "released"
          /\ Stage' = IF api'.exists THEN "released" ELSE "absent"
          /\ api.finalizer \/ ~api'.exists
      BY <1>1, <1>2, <2>1, <2>4 DEF StageOf
    <3>. QED  BY <2>1, <2>4, <3>1, <3>2 DEF StageStep, Releases
  <2>. QED  BY <1>3, <2>2, <2>3, <2>4, WorkerStepEffect
<1>4. CASE UserStep(S, A, T)
  <2>1. CASE Declared
    <3>1. Stage = "absent" /\ Stage' = "declared"
      BY <1>1, <2>1 DEF StageOf, Declared
    <3>. QED  BY <2>1, <3>1 DEF StageStep, Declared
  <2>2. CASE Amended
    <3>1. Stage' = Stage
      BY <1>1, <1>2, <2>2 DEF StageOf, Amended
    <3>. QED  BY <1>2, <2>2, <3>1 DEF StageStep, Amended
  <2>3. CASE Retired
    <3>1. /\ Stage = IF api.finalizer THEN "guarded" ELSE "declared"
          /\ Stage' = IF api.finalizer THEN "leaving"
                      ELSE IF api.held THEN "released" ELSE "absent"
      BY <1>1, <1>2, <2>3 DEF StageOf, Retired
    <3>. QED  BY <2>3, <3>1 DEF StageStep, SameWishes, Retired
  <2>4. CASE LetGone
    <3>1. /\ Stage = IF api.finalizer THEN "leaving" ELSE "released"
          /\ Stage' = IF api.finalizer THEN "leaving" ELSE "absent"
          /\ api.finalizer => api'.exists = api.exists
      BY <1>1, <1>2, <2>4 DEF StageOf, LetGone
    <3>. QED  BY <2>4, <3>1 DEF StageStep, SameWishes, LetGone
  <2>. QED  BY <1>4, <2>1, <2>2, <2>3, <2>4, UserStepEffect
<1>5. CASE OtherStep
  <2>1. api' = api
    BY <1>5 DEF OtherStep, Deliver, Relist
  <2>. QED  BY <1>1, <2>1 DEF StageStep, SameWishes
<1>. QED  BY <1>3, <1>4, <1>5 DEF KubeStep

\* A stage tells whether the life goes on: it has ended, has just begun without
\* the finalizer, or is the one it was.
LEMMA StageTellsLife ==
    ASSUME NEW S, NEW A, NEW T, KubeInv(S, A, T), KubeStep(S, A, T)
    PROVE  /\ Stage = "absent" => ~api.exists
           /\ \/ Stage' = "absent" /\ ~api'.exists
              \/ /\ Stage' = "declared"
                 /\ api'.exists /\ ~api'.deleting /\ ~api'.finalizer
              \/ /\ Stage' \notin {"absent", "declared"}
                 /\ api.exists /\ api'.exists /\ api'.uid = api.uid
<1>1. /\ api'.exists \in BOOLEAN /\ api'.deleting \in BOOLEAN
      /\ api'.finalizer \in BOOLEAN /\ api.exists \in BOOLEAN
      /\ api.deleting \in BOOLEAN
  BY KubeStepType DEF KubeInv, KubeTypeOK, Objects
<1>2. Stage = "absent" => ~api.exists
  BY <1>1 DEF Stage
<1>3. CASE Stage' = "absent"
  <2>1. ~api'.exists
    BY <1>1, <1>3 DEF Stage
  <2>. QED  BY <1>2, <1>3, <2>1
<1>4. CASE Stage' = "declared"
  <2>1. api'.exists /\ ~api'.deleting /\ ~api'.finalizer
    BY <1>1, <1>4 DEF Stage
  <2>. QED  BY <1>2, <1>4, <2>1
<1>5. CASE Stage' \notin {"absent", "declared"}
  <2>1. api'.exists
    BY <1>1, <1>5 DEF Stage
  <2>2. api'.uid = api.uid /\ Stage # "absent"
    BY <1>5, KubeStepStage DEF StageStep
  <2>3. api.exists
    BY <1>1, <2>2 DEF Stage
  <2>. QED  BY <1>2, <1>5, <2>1, <2>2, <2>3
<1>. QED  BY <1>3, <1>4, <1>5

===============================================================================
