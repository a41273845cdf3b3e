---------------------------- MODULE CustomResource ----------------------------
(***************************************************************************)
(* The Kubernetes side of one custom resource, as the reconcilers in       *)
(* internal/controller see it through the controller-runtime client:       *)
(*   api     the version stored by the API server; every effective write   *)
(*           gets the next resourceVersion;                                *)
(*   watch   the stored versions the informer has not delivered yet;       *)
(*   cache   the version the informer last delivered, which is what        *)
(*           r.Get returns;                                                *)
(*   queued  whether the resource's key waits in the work queue;           *)
(*   local   the copy the running Reconcile call works on (rwDB, rwUser).  *)
(* A user creates, edits, annotates and deletes the resource at any time,  *)
(* at most MaxEdits times; requests fail at most MaxFaults times.          *)
(***************************************************************************)
EXTENDS Naturals

CONSTANTS
    MaxEdits,   \* bound on the user's writes to the resource
    MaxFaults   \* bound on failed requests, failed statements and crashes

ASSUME BudgetsAssumption == MaxEdits \in Nat /\ MaxFaults \in Nat

VARIABLES api, watch, cache, queued, local, edits, faults

\* What a user or a worker can write: everything the resource consists of.
\* "held" stands for a finalizer owned by somebody else.
Objects(Specs, Annotations, Statuses) ==
    [exists: BOOLEAN, rv: Nat, uid: Nat, gen: Nat, spec: Specs,
     annot: Annotations, deleting: BOOLEAN, finalizer: BOOLEAN,
     held: BOOLEAN, status: Statuses]

-------------------------------------------------------------------------------
(* The API server. *)

\* A write that changes nothing keeps the resourceVersion and raises no event.
Write(o) ==
    IF o = api THEN UNCHANGED <<api, watch>>
    ELSE /\ api' = [o EXCEPT !.rv = api.rv + 1]
         /\ watch' = watch \cup {api'}

\* Optimistic concurrency: an Update carries the resourceVersion of the copy
\* it was made from and is refused unless that is still the stored one.
Current == api.exists /\ local.rv = api.rv

\* A deleted object disappears with its last finalizer.
Collected(o) ==
    [o EXCEPT !.exists = ~(o.deleting /\ ~o.finalizer /\ ~o.held)]

Fault == faults < MaxFaults /\ faults' = faults + 1

\* Status().Update(local with status s), in places where the caller returns
\* and requeues whatever the outcome: written, refused, or lost on the way.
StatusUpdate(s) ==
    \/ Current /\ Write([api EXCEPT !.status = s]) /\ UNCHANGED faults
    \/ ~Current /\ UNCHANGED <<api, watch, faults>>
    \/ Fault /\ UNCHANGED <<api, watch>>

-------------------------------------------------------------------------------
(* The user. *)

Edit == edits < MaxEdits /\ edits' = edits + 1

Create(specs, annots, status) ==
    /\ ~api.exists
    /\ Edit
    /\ \E s \in specs, a \in annots, h \in BOOLEAN :
         Write([api EXCEPT !.exists = TRUE, !.uid = @ + 1, !.gen = 1,
                           !.spec = s, !.annot = a, !.deleting = FALSE,
                           !.finalizer = FALSE, !.held = h,
                           !.status = status])
    /\ UNCHANGED <<cache, queued, local, faults>>

EditSpec(specs) ==
    /\ api.exists
    /\ Edit
    /\ \E s \in specs \ {api.spec} :
         Write([api EXCEPT !.spec = s, !.gen = @ + 1])
    /\ UNCHANGED <<cache, queued, local, faults>>

Annotate(annots) ==
    /\ api.exists
    /\ Edit
    /\ \E a \in annots \ {api.annot} : Write([api EXCEPT !.annot = a])
    /\ UNCHANGED <<cache, queued, local, faults>>

\* Deleting a resource that still has a finalizer only marks it.
Delete ==
    /\ api.exists /\ ~api.deleting
    /\ Edit
    /\ Write(Collected([api EXCEPT !.deleting = TRUE, !.gen = @ + 1]))
    /\ UNCHANGED <<cache, queued, local, faults>>

\* The other finalizer's owner lets go of a deleted resource.
Release ==
    /\ api.exists /\ api.deleting /\ api.held
    /\ Write(Collected([api EXCEPT !.held = FALSE]))
    /\ UNCHANGED <<cache, queued, local, edits, faults>>

-------------------------------------------------------------------------------
(* The informer. Versions arrive in order; a relist may skip some. Every   *)
(* delivery puts the key on the work queue (For() without predicates).     *)
Deliver ==
    \E v \in watch :
        /\ cache' = v
        /\ watch' = {w \in watch : w.rv > v.rv}
        /\ queued' = TRUE
        /\ UNCHANGED <<api, local, edits, faults>>

\* A restarted operator lists the resource before its worker starts.
Relist ==
    /\ cache' = api
    /\ watch' = {}
    /\ queued' = api.exists
    /\ UNCHANGED <<api, local, edits>>

\* How far the stored resource is in its life: see ResourceLifecycle.
Stage ==
    CASE ~api.exists                   -> "absent"
      [] api.exists /\ ~api.deleting   ->
           IF api.finalizer THEN "guarded" ELSE "declared"
      [] api.exists /\ api.deleting    ->
           IF api.finalizer THEN "leaving" ELSE "released"

kubeVars == <<api, watch, cache, queued, local, edits, faults>>

===============================================================================
