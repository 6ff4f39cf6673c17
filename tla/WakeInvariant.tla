--------------------------- MODULE WakeInvariant ---------------------------
(***************************************************************************)
(* The inductive invariant behind the theorem of WakeProofs: whatever is   *)
(* not done is in a queue, on its way to one, or in the hands of a worker  *)
(* that will see to it (NoLostWakeup).                                     *)
(***************************************************************************)
EXTENDS ProvisionInvariant

\* The conditions under which no wake-up is lost: the API server stores the
\* conditions that the workers write, and no claim is rejected.  The reference
\* of a claim that was rejected and is accepted again is not woken up.
WakeupsAreReliable == {"apiError", "config", "edit"} \cap Faults = {}

-----------------------------------------------------------------------------
(* Who looks at an object next.                                            *)

\* The object is in the work queue of its controller, or the informer has yet
\* to deliver an event that puts it there.
ClaimStirred(c) == "cache" \notin claimCur[c] \/ c \in claimQ
RefStirred(r) == "cache" \notin refCur[r] \/ r \in refQ

\* A worker whose copy is not the stored version will be told of it.
StaleIsStirred ==
  /\ cw.pc # "idle" => "claimCtl" \in claimCur[cw.key] \/ ClaimStirred(cw.key)
  /\ rw.pc # "idle" => "refCtl" \in refCur[rw.key] \/ RefStirred(rw.key)

\* A claim needs no reconcile while its reference is worked on, nor when all is
\* done; the reference needs none when its claim is Ready.
ClaimSettled(c) == ~claim[c].deleting /\ claim[c].state \in {"PendingProject", "Ready"}
RefSettled(r) == Live(ref[r]) /\ claim[ref[r].owner].state = "Ready"

\* Requeue() is dropped, but what the condition changes in the stored version
\* has the same effect.
ConditionStirs ==
  /\ rw.out = "now" /\ rw.ref.compute = "True"
  /\ ref[rw.key].compute # "True" \/ ref[rw.key].error # "Resolved"

\* Whoever still has to look at a claim will: there is an entry or an event for
\* it, a worker that is not done or comes back, or nothing to do but wait.
ClaimAwake(c) ==
  claim[c].exists =>
    \/ ClaimStirred(c)
    \/ BusyWith(c) /\ (cw.pc # "Condition" \/ Requeued(cw.out))
    \/ ClaimSettled(c)

\* The same for a reference.
RefAwake(r) ==
  ref[r].exists =>
    \/ RefStirred(r)
    \/ /\ rw.pc # "idle" /\ rw.key = r
       /\ rw.pc # "Condition" \/ Requeued(rw.out) \/ ConditionStirs
    \/ RefSettled(r)

-----------------------------------------------------------------------------
(* Why a write that ends a chain without an error changes something.       *)

\* An operation acts on a copy that lacks what it writes.
ClaimStepIsDue ==
  /\ cw.pc \notin {"idle", "Condition"} => cw.out = "stop"
  /\ cw.pc = "Validated" => ~cw.obj.valid
  /\ cw.pc = "Initialized" => ~cw.obj.inited
  /\ cw.pc = "ReferenceLink" => ~cw.obj.link
  /\ cw.pc = "Finalizer" => ~cw.obj.finalizer
  /\ cw.pc \in {"ReferenceExists", "CCSSecretFinalizer"} => ~NeedsPending(cw.obj)

\* The operations before the reference is Ready.
BeforeReady ==
  SetUpSteps \cup {"StatusCreating", "ProjectID", "ServiceAccountName", "FinalizerAdded"}

\* The same for references; the steps that make a claim Ready also know of its
\* zones.
RefStepIsDue ==
  /\ rw.pc \notin {"idle", "Condition"} => rw.out = "stop"
  /\ rw.pc = "Initialized" => ~rw.ref.inited
  /\ rw.pc = "StatusCreating" => rw.ref.state # "Creating"
  /\ rw.pc = "ServiceAccountName" => ~rw.ref.saName
  /\ rw.pc = "FinalizerAdded" => ~rw.ref.finalizer
  /\ rw.pc \in BeforeReady => ~rw.ref.deleting /\ rw.ref.state # "Ready"
  /\ rw.pc \in ClaimReadySteps =>
       ~rw.ref.deleting /\ rw.ref.state = "Ready" /\ rw.ref.inited
  /\ rw.pc = "AvailabilityZones" => ~rw.claim.zones
  /\ rw.pc \in {"ClaimProjectID", "ClaimReady"} => rw.claim.zones

\* No claim is invalid or in a region that is not supported, and none goes to
\* state Error.
NothingRejected ==
  /\ disabled = {}
  /\ \A c \in Claims : claim[c].valid /\ claim[c].state # "Error"
  /\ cw.pc = "Condition" /\ Current(claim[cw.key], claimCur[cw.key], "claimCtl") =>
       cw.obj.state # "Error"

\* A project that is on its way out has no reference that works on it.
InactiveIsGoing ==
  /\ \A id \in ProjectIDs \ CCSProjectIDs :
       project[id].life = "DELETE_REQUESTED" =>
         /\ id \in issued
         /\ \A r \in Refs : ref[r].exists /\ ref[r].projectID = id => ref[r].deleting
  /\ rw.pc \in DeletionSteps /\ ref[rw.key].exists =>
       ref[rw.key].deleting \/ ref[rw.key].projectID \in CCSProjectIDs \cup {Nil}

\* A claim is Ready only with its zones.  A cache that shows it as Ready is
\* right, or behind a claim that was deleted and created again, which no worker
\* has begun to set up.
ReadyIsSeen(c) ==
  /\ claim[c].state = "Ready" => claim[c].zones
  /\ claimCache[c].state = "Ready" => claim[c].state = "Ready" \/ ~Engaged(claim[c])
  /\ BusyWith(c) /\ Current(claim[c], claimCur[c], "claimCtl") /\ claimCache[c].state = "Ready" =>
       claim[c].state = "Ready"

\* That the Compute API is ready is in the status before the claim has its
\* zones only if the claim could not be updated, which is an error.
ComputeIsNoted ==
  /\ \A r \in Refs :
       /\ ref[r].compute # "none" => ref[r].state = "Ready" /\ ref[r].inited
       /\ Live(ref[r]) /\ ref[r].compute = "True" /\ ~claim[ref[r].owner].zones =>
            ref[r].error = "True"
  /\ rw.pc = "Condition" /\ Current(ref[rw.key], refCur[rw.key], "refCtl") =>
       /\ rw.ref.compute # "none" => rw.ref.state = "Ready" /\ rw.ref.inited
       /\ Live(ref[rw.key]) /\ rw.ref.compute = "True" /\ ~claim[rw.ref.owner].zones =>
            rw.out = "error"

\* Nothing that is left to be done is forgotten.
WakeInv ==
  /\ StaleIsStirred
  /\ ClaimStepIsDue
  /\ RefStepIsDue
  /\ NothingRejected
  /\ InactiveIsGoing
  /\ \A c \in Claims : ReadyIsSeen(c) /\ ClaimAwake(c)
  /\ ComputeIsNoted
  /\ \A r \in Refs : RefAwake(r)
=============================================================================
