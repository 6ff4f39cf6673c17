--------------------------- MODULE ClaimInvariant ---------------------------
(***************************************************************************)
(* The inductive invariants behind the theorems of ClaimProofs: what the   *)
(* copies of a claim say about it (ReadyIsKept), whose reference is whose  *)
(* (LinkedReferenceIsOwn), and why a claim outlives the finalizer of its   *)
(* reference (FinalizedReferenceHasClaim).                                 *)
(***************************************************************************)
EXTENDS TrackingInvariant

-----------------------------------------------------------------------------
(* The copies of claims.                                                   *)

\* The steps of EnsureProjectClaimReady, which write the claim.
ClaimReadySteps == {"AvailabilityZones", "ClaimProjectID", "ClaimReady"}

\* A holder of the stored version has that version.  EnsureRegionSupported may
\* have taken the copy of a claim in state Error back to Pending in memory.
ClaimCopiesAgree ==
  /\ \A c \in Claims :
       /\ "cache" \in claimCur[c] => claimCache[c] = claim[c]
       /\ "claimCtl" \in claimCur[c] => cw.pc # "idle" /\ cw.key = c
       /\ "refCtl" \in claimCur[c] => rw.pc # "idle" /\ rw.ref.owner = c
       /\ ~claim[c].exists => claim[c] = NoClaim
       /\ claim[c].deleting => claim[c].finalizer
  /\ cw.pc \notin {"idle", "Condition"} /\ Current(claim[cw.key], claimCur[cw.key], "claimCtl") =>
       \/ cw.obj = claim[cw.key]
       \/ /\ claim[cw.key].state = "Error"
          /\ cw.obj = [claim[cw.key] EXCEPT !.state = "Pending"]
  /\ rw.pc \in ClaimReadySteps /\ Current(claim[rw.ref.owner], claimCur[rw.ref.owner], "refCtl") =>
       rw.claim = claim[rw.ref.owner]

DeletingClaimSteps == {"Deletion", "CCSSecretFinalizerDeleted", "ClaimFinalizerDeleted"}

\* What ReconcileHandler established about the copy before it came to this step.
ClaimStepMatchesCopy ==
  /\ cw.pc \in DeletingClaimSteps => cw.obj.deleting
  /\ cw.pc \in ClaimSteps \ (DeletingClaimSteps \cup {"idle", "Condition"}) => ~cw.obj.deleting
  /\ cw.pc = "StatePending" => cw.obj.state = ""
  /\ cw.pc = "Finalizer" => cw.obj.link
  /\ cw.pc \in {"CCSSecretFinalizer", "StatePendingProject"} => cw.obj.finalizer
  /\ cw.pc = "StatePendingProject" => cw.obj.state = "Pending"

\* A claim waits for its project only once it has the finalizer, and the copy
\* that is left for the Error condition does not undo a state: it is stored
\* with the state that was edited in memory.
StatesMatch ==
  /\ \A c \in Claims :
       /\ claim[c].state = "PendingProject" => claim[c].finalizer
       /\ claimCache[c].state = "PendingProject" => claimCache[c].finalizer
  /\ cw.pc = "Condition" /\ Current(claim[cw.key], claimCur[cw.key], "claimCtl") =>
       /\ cw.obj.state = "PendingProject" => claim[cw.key].finalizer
       /\ claim[cw.key].state = "Ready" => cw.obj.state \in {"Ready", "Error"}

\* What a worker believes of a claim that it may still write is true, so that
\* no write of a copy undoes what the other controller or a user stored.
ClaimCopyInv == ClaimCopiesAgree /\ ClaimStepMatchesCopy /\ StatesMatch

-----------------------------------------------------------------------------
(* The references and their owners.                                        *)

\* A reference has the name that its owner gives it.
NamedAfterOwner ==
  /\ \A r \in Refs : /\ ref[r].exists => RefName(ref[r].owner) = r
                     /\ refCache[r].exists => RefName(refCache[r].owner) = r
  /\ rw.pc # "idle" => RefName(rw.ref.owner) = rw.key

\* The same of references; a copy with the deletion timestamp is the only one
\* that EnsureDeletionProcessed works on.
ReferenceCopyInv ==
  /\ CopiesAgree
  /\ rw.pc \in DeletionSteps => rw.ref.deleting
  /\ NamedAfterOwner

-----------------------------------------------------------------------------
(* A claim and its reference.                                              *)

\* No two claims share a reference.  It is false for a-b/c and a/b-c.
NamesAreDistinct == \A c, d \in Claims : RefName(c) = RefName(d) => c = d

\* Caches that are behind, or references deleted by hand, but not both.
DeletionsAreSeen == ~({"cacheLag", "refDeleted"} \subseteq Faults)

BusyWith(c) == cw.pc # "idle" /\ cw.key = c

\* The operator has put something into the claim's spec or finalizers.
Engaged(o) == o.exists /\ (o.link \/ o.finalizer)

\* The cache knows that c is being deleted, and so does the worker.
Going(c) ==
  /\ claim[c].deleting /\ claimCache[c].deleting
  /\ BusyWith(c) => cw.obj.deleting

\* A claim c that was deleted is gone with its reference; there may be a new
\* one, which no worker has seen.
Past(c) ==
  /\ ~ref[RefName(c)].exists /\ ~refCache[RefName(c)].exists
  /\ ~Engaged(claim[c])
  /\ BusyWith(c) => cw.obj.deleting

\* While nobody else deletes references: a reference goes only after the cache
\* has shown that its claim is being deleted, and what a copy that is behind
\* says about a deletion is not about a later claim of the same name.
DeletionSeen(c) ==
  LET r == RefName(c)
  IN  /\ \/ ref[r].exists /\ ref[r].deleting
         \/ ~ref[r].exists /\ (refCache[r].exists \/ Engaged(claim[c]))
         => Going(c)
      /\ claimCache[c].deleting => claim[c].deleting \/ Past(c)
      /\ BusyWith(c) /\ cw.obj.deleting =>
           (claim[c].deleting /\ claimCache[c].deleting) \/ Past(c)
      /\ claim[c].finalizer /\ ref[r].exists => refCache[r].exists
      /\ claimCache[c].finalizer /\ ~claimCache[c].deleting => claim[c].finalizer

\* The worker comes to these steps only after it has seen that the reference
\* is there, or that it is not.
WorkerHasSeen(c) ==
  LET r == RefName(c)
  IN  BusyWith(c) =>
        /\ cw.pc \in {"ReferenceLink", "Finalizer"} => ref[r].exists
        /\ cw.pc = "Finalizer" /\ Current(claim[c], claimCur[c], "claimCtl") =>
             refCache[r].exists
        /\ cw.pc \in {"CCSSecretFinalizerDeleted", "ClaimFinalizerDeleted"} =>
             ~refCache[r].exists

\* The claim loses its finalizer only when there is no reference, and the
\* reference gets its own only while the claim has one.
HeldInv ==
  /\ FinalizedReferenceHasClaim
  /\ cw.pc \in {"CCSSecretFinalizerDeleted", "ClaimFinalizerDeleted"} =>
       ~ref[RefName(cw.key)].exists
  /\ rw.pc = "FinalizerAdded" /\ Current(ref[rw.key], refCur[rw.key], "refCtl") =>
       claim[rw.ref.owner].finalizer
  /\ "refDeleted" \notin Faults => \A c \in Claims : DeletionSeen(c) /\ WorkerHasSeen(c)
=============================================================================
