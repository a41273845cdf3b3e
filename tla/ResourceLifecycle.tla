--------------------------- MODULE ResourceLifecycle ---------------------------
(***************************************************************************)
(* What the operator promises about the life of one custom resource and    *)
(* what its reconciles create in RisingWave, whatever happens in between:  *)
(* a reconcile creates things only for a resource whose finalizer is       *)
(* stored, takes them away only from one that is being deleted, and lets   *)
(* go of a resource only when the thing it stands for is gone or may stay. *)
(* The controllers' modules implement this one; caches, versions, requests *)
(* and errors are theirs.                                                  *)
(***************************************************************************)
CONSTANT Things     \* what a resource can stand for: databases, schemas, users

VARIABLES
    stage,      \* how far the resource is in its life
    made,       \* the things this resource's reconciles created and left
    wanted,     \* the thing the resource stands for
    keeps,      \* whether that thing may outlive the resource
    others      \* whether somebody else has interfered in RisingWave

lifecycleVars == <<stage, made, wanted, keeps, others>>

\* "declared": stored without the operator's finalizer; "guarded": with it;
\* "leaving": being deleted with it; "released": being deleted without it, as
\* long as somebody else's finalizer holds the resource.
Stages == {"absent", "declared", "guarded", "leaving", "released"}

TypeOK ==
    /\ stage \in Stages
    /\ made \in SUBSET Things
    /\ wanted \in Things
    /\ keeps \in BOOLEAN /\ others \in BOOLEAN

Init ==
    /\ stage = "absent"
    /\ made = {}
    /\ wanted \in Things
    /\ keeps \in BOOLEAN
    /\ others = FALSE

-------------------------------------------------------------------------------
(* The user of the resource. *)

Declare ==
    /\ stage = "absent"
    /\ stage' = "declared"
    /\ wanted' \in Things /\ keeps' \in BOOLEAN
    /\ UNCHANGED <<made, others>>

\* The user may change the thing the resource stands for: things made before
\* stay made.
Amend ==
    /\ stage # "absent"
    /\ wanted' \in Things /\ keeps' \in BOOLEAN
    /\ UNCHANGED <<stage, made, others>>

Retire ==
    /\ \/ stage = "guarded" /\ stage' = "leaving" /\ UNCHANGED made
       \/ stage = "declared" /\ stage' \in {"released", "absent"} /\ made = {}
          /\ UNCHANGED made
    /\ UNCHANGED <<wanted, keeps, others>>

-------------------------------------------------------------------------------
(* The operator. *)

Guard ==
    /\ stage = "declared"
    /\ stage' = "guarded"
    /\ UNCHANGED <<made, wanted, keeps, others>>

\* A call that began before the deletion may still create something, and may
\* be misled by others while it does.
Provide ==
    /\ stage \in {"guarded", "leaving"}
    /\ \E t \in Things \ made : made' = made \cup {t}
    /\ others' \in BOOLEAN /\ (others => others')
    /\ UNCHANGED <<stage, wanted, keeps>>

Withdraw ==
    /\ stage = "leaving" \/ others
    /\ \E t \in made : made' = made \ {t}
    /\ UNCHANGED <<stage, wanted, keeps, others>>

\* The finalizer goes, and with it the resource unless somebody holds it.
Release ==
    /\ stage = "leaving"
    /\ keeps \/ wanted \notin made \/ others
    /\ \/ stage' = "released" /\ UNCHANGED made
       \/ stage' = "absent" /\ made' = {}
    /\ UNCHANGED <<wanted, keeps, others>>

-------------------------------------------------------------------------------
(* Everybody else. *)

LetGo ==
    /\ stage = "released"
    /\ stage' = "absent" /\ made' = {}
    /\ UNCHANGED <<wanted, keeps, others>>

\* Somebody changes the cluster behind the operator's back.
Interfere ==
    /\ others' = TRUE
    /\ made' \subseteq made
    /\ UNCHANGED <<stage, wanted, keeps>>

Next ==
    \/ Declare \/ Amend \/ Retire
    \/ Guard \/ Provide \/ Withdraw \/ Release
    \/ LetGo \/ Interfere

Spec == Init /\ [][Next]_lifecycleVars

\* What is made belongs to a resource that is guarded or on its way out.
NothingUnguarded == stage \in {"absent", "declared"} => made = {}

===============================================================================
