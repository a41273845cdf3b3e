------------------------------ MODULE Reconciler ------------------------------
(***************************************************************************)
(* What the Reconcile methods of the three controllers have in common:     *)
(* fetching the resource, connecting, utils.HandleFinalizer, and reporting *)
(* the outcome in the status. One worker runs a controller's Reconcile     *)
(* calls for a resource, one at a time; pc is where it is. Each request to *)
(* the API server or to RisingWave is one step of it. A controller's       *)
(* module conjoins what a step leaves alone of its own variables.          *)
(***************************************************************************)
EXTENDS CustomResource

VARIABLE pc

-------------------------------------------------------------------------------
(* How a Reconcile call ends. *)

\* return ctrl.Result{}, nil: only a new event runs the key again.
Done == pc' = "idle" /\ UNCHANGED queued

\* A non-nil error or a RequeueAfter: the key comes back by itself.
Requeue == pc' = "idle" /\ queued' = TRUE

Goto(step) == pc' = step /\ UNCHANGED queued

\* Set Phase NotReady and the reason; the status is written in step "report".
Fail(reason) ==
    /\ local' = [local EXCEPT !.status.reason = reason]
    /\ Goto("report")

-------------------------------------------------------------------------------
(* Steps 1 to 3: fetch the resource, find the credentials, connect. *)

FetchResource ==
    /\ pc = "idle" /\ queued
    /\ \/ /\ queued' = FALSE
          /\ local' = cache
          /\ pc' = IF cache.exists /\ ~cache.annot.paused THEN "creds"
                   ELSE "idle"
          /\ UNCHANGED faults
       \/ Fault /\ Requeue /\ UNCHANGED local
    /\ UNCHANGED <<api, watch, cache, edits>>

\* A step that succeeds or ends the call with a NotReady status.
Attempt(step, next, reason) ==
    /\ pc = step
    /\ \/ Goto(next) /\ UNCHANGED <<local, faults>>
       \/ Fault /\ Fail(reason)
    /\ UNCHANGED <<api, watch, cache, edits>>

ResolveCredentials == Attempt("creds", "connect", "FailedToGetSecret")

GetConnection == Attempt("connect", "finalizer", "ConnectionFailed")

-------------------------------------------------------------------------------
(* Step 4: utils.HandleFinalizer. *)

\* The resource is not being deleted: make sure the finalizer is stored
\* before anything is created in RisingWave.
StoreFinalizer(next) ==
    /\ pc = "finalizer" /\ ~local.deleting
    /\ \/ /\ local.finalizer
          /\ Goto(next)
          /\ UNCHANGED <<api, watch, local, faults>>
       \/ /\ ~local.finalizer /\ Current
          /\ Write([api EXCEPT !.finalizer = TRUE])
          /\ \/ local' = api' /\ Goto(next) /\ UNCHANGED faults
             \/ Fault /\ Requeue /\ UNCHANGED local  \* the answer got lost
       \/ /\ ~local.finalizer
          /\ \/ ~Current /\ UNCHANGED faults
             \/ Fault
          /\ Requeue
          /\ UNCHANGED <<api, watch, local>>
    /\ UNCHANGED <<cache, edits>>

\* The resource is being deleted: it is finalized by step "drop" first if
\* its RisingWave object must go.
ChooseFinalization(drops) ==
    /\ pc = "finalizer" /\ local.deleting
    /\ \/ ~local.finalizer /\ Done
       \/ local.finalizer /\ drops /\ Goto("drop")
       \/ local.finalizer /\ ~drops /\ Goto("removeFinalizer")
    /\ UNCHANGED <<api, watch, cache, local, edits, faults>>

\* OnFailure: report, then return the finalization error.
ReportFinalization ==
    /\ pc = "finalizeFailed"
    /\ StatusUpdate([local.status EXCEPT !.reason = "FailedToFinalize"])
    /\ Requeue
    /\ UNCHANGED <<cache, local, edits>>

ReleaseFinalizer ==
    /\ pc = "removeFinalizer"
    /\ \/ /\ Current
          /\ Write(Collected([api EXCEPT !.finalizer = FALSE]))
          /\ \/ Done /\ UNCHANGED faults
             \/ Fault /\ Requeue                     \* the answer got lost
       \/ /\ \/ ~Current /\ UNCHANGED faults
             \/ Fault
          /\ Requeue
          /\ UNCHANGED <<api, watch>>
    /\ UNCHANGED <<cache, local, edits>>

-------------------------------------------------------------------------------
(* Reporting. *)

\* The Status().Update of every error path, followed by a requeue.
WriteFailure ==
    /\ pc = "report"
    /\ StatusUpdate(local.status)
    /\ Requeue
    /\ UNCHANGED <<cache, local, edits>>

WriteReady ==
    /\ pc = "ready"
    /\ StatusUpdate([local.status EXCEPT !.reason = "Completed",
                                         !.observedGeneration = local.gen])
    /\ Requeue
    /\ UNCHANGED <<cache, local, edits>>

\* What a user reads in the status: Phase Ready for the stored generation.
Ready ==
    /\ api.exists
    /\ api.status.reason = "Completed"
    /\ api.status.observedGeneration = api.gen

===============================================================================
