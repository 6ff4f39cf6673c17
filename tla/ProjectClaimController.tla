----------------------- MODULE ProjectClaimController -----------------------
(***************************************************************************)
(* The ProjectClaim controller: Reconcile, ReconcileHandler and the        *)
(* operations of ProjectClaimAdapter.  The worker cw works on one claim at *)
(* a time, on its own copy of it.  Its pc is the operation that it is      *)
(* about to perform; operations that have nothing to do for this copy are  *)
(* passed over, since skipping reads nothing but the copy.                 *)
(*                                                                         *)
(* Fake claims (annotation managed.openshift.com/fake) are in FakeClaim.   *)
(*                                                                         *)
(* A definition marked "Variant" is not part of the model: it is the next  *)
(* definition with a fault in it, which the properties have to notice.     *)
(***************************************************************************)
EXTENDS OperatorState

ClaimSteps ==
  {"idle", "Deletion", "CCSSecretFinalizerDeleted", "ClaimFinalizerDeleted",
   "Validated", "Initialized", "RegionSupported", "StatePending",
   "ReferenceExists", "ReferenceLink", "Finalizer", "CCSSecretFinalizer",
   "StatePendingProject", "Condition"}

ClaimWorker ==
  [pc : ClaimSteps, key : Claims \cup {Nil}, obj : ProjectClaim, out : Outcome]

IdleClaimWorker ==
  [pc |-> "idle", key |-> Nil, obj |-> NoClaim, out |-> "stop"]

-----------------------------------------------------------------------------
(* The order of the operations.                                            *)

\* EnsureProjectClaimState(Pending) has something to do.
NeedsPending(o) == o.state \in {"", "Error"}

\* Variant: whatever the state is.
NeedsPendingProjectAgain(o) == o.state # "PendingProject"

\* EnsureProjectClaimState(PendingProject) has something to do.
NeedsPendingProject(o) == o.state = "Pending"

\* The first operation of ReconcileHandler that acts on copy o.
FirstClaimOperation(o) ==
  IF o.deleting THEN "Deletion"
  ELSE IF ~o.valid THEN "Validated"
  ELSE IF ~o.inited THEN "Initialized"
  ELSE "RegionSupported"

\* The operation after EnsureCCSSecretFinalizer.
AfterSecretFinalizer(o) ==
  IF NeedsPendingProject(o) THEN "StatePendingProject" ELSE "Condition"

\* Variant: the claim gets no finalizer.
AfterReferenceExistsNoFinalizer(c, o) ==
  IF ~o.link THEN "ReferenceLink"
  ELSE IF c \in CCS THEN "CCSSecretFinalizer"
  ELSE AfterSecretFinalizer(o)

\* Variant: the customer's Secret gets no finalizer.
AfterReferenceExistsNoSecretFinalizer(c, o) ==
  IF ~o.link THEN "ReferenceLink"
  ELSE IF ~o.finalizer THEN "Finalizer"
  ELSE AfterSecretFinalizer(o)

\* The operation after EnsureProjectReferenceExists.
AfterReferenceExists(c, o) ==
  IF ~o.link THEN "ReferenceLink"
  ELSE IF ~o.finalizer THEN "Finalizer"
  ELSE IF c \in CCS THEN "CCSSecretFinalizer"
  ELSE AfterSecretFinalizer(o)

\* The chain goes on with operation pc.
ClaimGoto(pc, o) == cw' = [cw EXCEPT !.pc = pc, !.obj = o]

\* The chain ends with this outcome and Reconcile sets the Error condition.
ClaimFinish(out, o) == cw' = [cw EXCEPT !.pc = "Condition", !.obj = o, !.out = out]

-----------------------------------------------------------------------------
(* Reconcile.                                                              *)

\* Reconcile takes claim c off the queue and gets it from the cache.  A claim
\* that is not found is dropped.
StartClaim(c) ==
  /\ cw.pc = "idle"
  /\ c \in claimQ
  /\ CanReadClaim(c)
  /\ claimQ' = claimQ \ {c}
  /\ IF claimCache[c].exists
     THEN /\ cw' = [pc |-> FirstClaimOperation(claimCache[c]), key |-> c,
                    obj |-> claimCache[c], out |-> "stop"]
          /\ claimCur' = [claimCur EXCEPT ![c] =
                            IF "cache" \in @ THEN @ \cup {"claimCtl"} ELSE @]
     ELSE UNCHANGED <<cw, claimCur>>
  /\ UNCHANGED <<claim, refObjs, caches, refQ, secrets, cloud, world, rw>>

\* SetProjectClaimCondition(ConditionError, ...), whose result is ignored,
\* and the return from Reconcile: controller-runtime requeues the claim if
\* the result asks for it.
ErrorCondition(o, out) ==
  [o EXCEPT !.error = IF out = "error" THEN "True" ELSE "Resolved",
            !.inited = TRUE]

ErrorConditionDue(o, out) == out = "error" \/ o.error = "True"

FinishClaim ==
  LET c == cw.key
  IN  /\ cw.pc = "Condition"
      /\ IF ErrorConditionDue(cw.obj, cw.out)
         THEN \E touched \in BOOLEAN :
              \E w \in Replies("claimCtl", claim[c], claimCur[c],
                               ClaimStatusUpdate(ErrorCondition(cw.obj, cw.out), claim[c]),
                               touched) :
                /\ claim' = [claim EXCEPT ![c] = w.obj]
                /\ claimCur' = [claimCur EXCEPT ![c] = w.cur \ {"claimCtl"}]
         ELSE /\ claimCur' = [claimCur EXCEPT ![c] = @ \ {"claimCtl"}]
              /\ UNCHANGED claim
      /\ claimQ' = IF Requeued(cw.out) THEN claimQ \cup {c} ELSE claimQ
      /\ cw' = IdleClaimWorker
      /\ UNCHANGED <<refObjs, caches, refQ, secrets, cloud, world, rw>>

-----------------------------------------------------------------------------
(* Deletion.                                                               *)

\* FinalizeProjectClaim: while the reference is there, delete it and come back
\* in five seconds.
FinalizeReference ==
  LET r == RefName(cw.key)
  IN  /\ cw.pc = "Deletion"
      /\ CanFindRef(r)
      /\ refCache[r].exists
      /\ \/ /\ ref[r].exists
            /\ ref' = [ref EXCEPT ![r] = Deleted(@, NoRef)]
            /\ refCur' = [refCur EXCEPT ![r] = IF ref[r].deleting THEN @ ELSE {}]
            /\ \/ ClaimFinish("after", cw.obj)
               \/ Faulty("replyLost") /\ ClaimFinish("error", cw.obj)
         \/ /\ ~ref[r].exists \/ Faulty("apiError")
            /\ ClaimFinish("error", cw.obj)
            /\ UNCHANGED refObjs
      /\ UNCHANGED <<claimObjs, caches, queues, secrets, cloud, world, rw>>

\* FinalizeProjectClaim: the reference is gone, so the finalizers go too.
FinalizeWithoutReference ==
  LET r == RefName(cw.key)
  IN  /\ cw.pc = "Deletion"
      /\ CanFindRef(r)
      /\ ~refCache[r].exists
      /\ ClaimGoto(IF cw.key \in CCS THEN "CCSSecretFinalizerDeleted"
                   ELSE "ClaimFinalizerDeleted", cw.obj)
      /\ UNCHANGED <<claimObjs, refObjs, caches, queues, secrets, cloud, world, rw>>

EnsureCCSSecretFinalizerDeleted ==
  LET c == cw.key
      s == ccsSecret[c]
  IN  /\ cw.pc = "CCSSecretFinalizerDeleted"
      /\ \/ /\ ccsSecret' = [ccsSecret EXCEPT ![c] =
                               IF s.deleting THEN [s EXCEPT !.exists = FALSE, !.deleting = FALSE,
                                                            !.finalizer = FALSE]
                               ELSE [s EXCEPT !.finalizer = FALSE]]
            /\ \/ ClaimGoto("ClaimFinalizerDeleted", cw.obj)
               \/ s.finalizer /\ Faulty("replyLost") /\ ClaimFinish("error", cw.obj)
         \/ /\ s.finalizer /\ Faulty("apiError")
            /\ ClaimFinish("error", cw.obj)
            /\ UNCHANGED ccsSecret
      /\ UNCHANGED <<claimObjs, refObjs, caches, queues, secret, cloud, world, rw>>

EnsureProjectClaimFinalizerDeleted ==
  LET c == cw.key
      edited == [cw.obj EXCEPT !.finalizer = FALSE]
  IN  /\ cw.pc = "ClaimFinalizerDeleted"
      /\ IF cw.obj.finalizer
         THEN \E ok \in BOOLEAN :
                /\ UpdateClaim("claimCtl", c, edited, ok)
                /\ ClaimFinish(ErrorOrStop(ok), edited)
         ELSE ClaimFinish("stop", cw.obj) /\ UNCHANGED claimObjs
      /\ UNCHANGED <<refObjs, caches, queues, secrets, cloud, world, rw>>

-----------------------------------------------------------------------------
(* Setting up.                                                             *)

\* A write of the claim's spec that ends the chain, or of its status.
SaveClaim(edited) ==
  \E ok \in BOOLEAN :
    /\ UpdateClaim("claimCtl", cw.key, edited, ok)
    /\ ClaimFinish(ErrorOrStop(ok),
                   Answer(ok, ClaimUpdate(edited, claim[cw.key]), edited))

SaveClaimStatus(edited, touched) ==
  \E ok \in BOOLEAN :
    /\ UpdateClaimStatus("claimCtl", cw.key, edited, touched, ok)
    /\ ClaimFinish(ErrorOrStop(ok), edited)

\* EnsureProjectClaimValidated, for a claim that is not valid.
EnsureProjectClaimValidated ==
  /\ cw.pc = "Validated"
  /\ SaveClaimStatus([cw.obj EXCEPT !.state = "Error"], FALSE)
  /\ UNCHANGED <<refObjs, caches, queues, secrets, cloud, world, rw>>

EnsureProjectClaimInitialized ==
  /\ cw.pc = "Initialized"
  /\ SaveClaimStatus([cw.obj EXCEPT !.inited = TRUE], FALSE)
  /\ UNCHANGED <<refObjs, caches, queues, secrets, cloud, world, rw>>

IsRegionSupported(c) == c \in CCS \/ c \notin disabled

\* EnsureRegionSupported.  The state is edited in memory; it is stored only if
\* the condition of type Invalid has to be written.
EnsureRegionSupported ==
  LET c == cw.key
      recovered == [cw.obj EXCEPT !.state = IF @ = "Error" THEN "Pending" ELSE @]
  IN  /\ cw.pc = "RegionSupported"
      /\ \/ /\ ~IsRegionSupported(c)
            /\ \E touched \in BOOLEAN :
                 SaveClaimStatus([cw.obj EXCEPT !.state = "Error", !.invalid = "True"],
                                 touched)
         \/ /\ IsRegionSupported(c)
            /\ cw.obj.invalid = "True"
            /\ SaveClaimStatus([recovered EXCEPT !.invalid = "Resolved"], FALSE)
         \/ /\ IsRegionSupported(c)
            /\ cw.obj.invalid # "True"
            /\ ClaimGoto(IF NeedsPending(recovered) THEN "StatePending"
                         ELSE "ReferenceExists", recovered)
            /\ UNCHANGED claimObjs
      /\ UNCHANGED <<refObjs, caches, queues, secrets, cloud, world, rw>>

EnsureProjectClaimStatePending ==
  /\ cw.pc = "StatePending"
  /\ SaveClaimStatus([cw.obj EXCEPT !.state = "Pending"], FALSE)
  /\ UNCHANGED <<refObjs, caches, queues, secrets, cloud, world, rw>>

\* newMatchingProjectReference
NewMatchingProjectReference(c) ==
  [NoRef EXCEPT !.exists = TRUE, !.owner = c,
                !.projectID = IF c \in CCS THEN CCSProject[c] ELSE Nil]

\* EnsureProjectReferenceExists.  Create fails if there is a reference of that
\* name already, whoever it belongs to.
EnsureProjectReferenceExists ==
  LET c == cw.key
      r == RefName(c)
      next == AfterReferenceExists(c, cw.obj)
  IN  /\ cw.pc = "ReferenceExists"
      /\ CanFindRef(r)
      /\ \/ /\ refCache[r].exists
            /\ ClaimGoto(next, cw.obj)
            /\ UNCHANGED refObjs
         \/ /\ ~refCache[r].exists
            /\ ~ref[r].exists
            /\ ref' = [ref EXCEPT ![r] = NewMatchingProjectReference(c)]
            /\ refCur' = [refCur EXCEPT ![r] = {}]
            /\ \/ ClaimGoto(next, cw.obj)
               \/ Faulty("replyLost") /\ ClaimFinish("error", cw.obj)
         \/ /\ ~refCache[r].exists
            /\ ref[r].exists \/ Faulty("apiError")
            /\ ClaimFinish("error", cw.obj)
            /\ UNCHANGED refObjs
      /\ UNCHANGED <<claimObjs, caches, queues, secrets, cloud, world, rw>>

EnsureProjectReferenceLink ==
  /\ cw.pc = "ReferenceLink"
  /\ SaveClaim([cw.obj EXCEPT !.link = TRUE])
  /\ UNCHANGED <<refObjs, caches, queues, secrets, cloud, world, rw>>

EnsureFinalizer ==
  /\ cw.pc = "Finalizer"
  /\ SaveClaim([cw.obj EXCEPT !.finalizer = TRUE])
  /\ UNCHANGED <<refObjs, caches, queues, secrets, cloud, world, rw>>

\* EnsureCCSSecretFinalizer, whose chain goes on after it.
EnsureCCSSecretFinalizer ==
  LET c == cw.key
      s == ccsSecret[c]
  IN  /\ cw.pc = "CCSSecretFinalizer"
      /\ \/ /\ s.exists
            /\ ccsSecret' = [ccsSecret EXCEPT ![c].finalizer = TRUE]
            /\ \/ ClaimGoto(AfterSecretFinalizer(cw.obj), cw.obj)
               \/ ~s.finalizer /\ Faulty("replyLost") /\ ClaimFinish("error", cw.obj)
         \/ /\ ~s.exists \/ (~s.finalizer /\ Faulty("apiError"))
            /\ ClaimFinish("error", cw.obj)
            /\ UNCHANGED ccsSecret
      /\ UNCHANGED <<claimObjs, refObjs, caches, queues, secret, cloud, world, rw>>

EnsureProjectClaimStatePendingProject ==
  /\ cw.pc = "StatePendingProject"
  /\ SaveClaimStatus([cw.obj EXCEPT !.state = "PendingProject"], FALSE)
  /\ UNCHANGED <<refObjs, caches, queues, secrets, cloud, world, rw>>

-----------------------------------------------------------------------------
\* A step of a reconcile that is under way.
ClaimStep ==
  \/ FinalizeReference
  \/ FinalizeWithoutReference
  \/ EnsureCCSSecretFinalizerDeleted
  \/ EnsureProjectClaimFinalizerDeleted
  \/ EnsureProjectClaimValidated
  \/ EnsureProjectClaimInitialized
  \/ EnsureRegionSupported
  \/ EnsureProjectClaimStatePending
  \/ EnsureProjectReferenceExists
  \/ EnsureProjectReferenceLink
  \/ EnsureFinalizer
  \/ EnsureCCSSecretFinalizer
  \/ EnsureProjectClaimStatePendingProject
  \/ FinishClaim
=============================================================================
