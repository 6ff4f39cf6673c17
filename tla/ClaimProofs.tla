---------------------------- MODULE ClaimProofs ----------------------------
(***************************************************************************)
(* The theorems about claims and the references made for them:             *)
(*   - ReadyIsKept, from what the copies of a claim say about it;          *)
(*   - LinkedReferenceIsOwn, if no two claims share a reference's name;    *)
(*   - FinalizedReferenceHasClaim, if moreover references are not deleted  *)
(*     by hand while caches are behind.                                    *)
(* The invariants are those of ClaimInvariant.  The proofs first say what  *)
(* one step can do to a worker, to a claim and to a reference, and derive  *)
(* every invariant from that.                                              *)
(***************************************************************************)
EXTENDS ClaimInvariant, TrackingProofs

\* What a caller is told to be stored is stored.
LEMMA AcceptedIsStored ==
  ASSUME NEW h, NEW old, NEW cur, NEW new, NEW touched \in BOOLEAN,
         NEW w \in Replies(h, old, cur, new, touched), w.ok
  PROVE  w.obj = new
  <1> DEFINE changed == touched \/ new # old
             stored == [ok |-> TRUE, obj |-> new, cur |-> IF changed THEN {h} ELSE cur]
             refused == [ok |-> FALSE, obj |-> old, cur |-> cur]
             lost == [ok |-> FALSE, obj |-> new, cur |-> IF changed THEN {} ELSE cur]
  <1>1. w = stored \/ w = refused \/ w = lost
    BY Zenon DEF Replies
  <1>2. stored.obj = new /\ refused.ok = FALSE /\ lost.obj = new
    OBVIOUS
  <1> HIDE DEF stored, refused, lost
  <1> QED BY <1>1, <1>2

-----------------------------------------------------------------------------
(* The worker of the ProjectReference controller.                          *)

\* What a step does to the worker.  Its copy of the reference changes only when
\* the chain ends, and never in its owner.  No step but StartReference leads
\* to EnsureFinalizerAdded or into the cleanup.
RefWorkerMoves ==
  /\ rw'.key = rw.key /\ rw'.ref.owner = rw.ref.owner
  /\ rw'.pc \notin {"idle", "FinalizerAdded"}
  /\ rw'.pc # "Condition" => rw'.ref = rw.ref
  /\ rw'.pc \in DeletionSteps => rw.pc \in DeletionSteps
  /\ rw'.pc \in ClaimReadySteps => EnsureClaimProjectIDSet

\* The chain goes on with an operation that is not the first one of its kind.
LEMMA GotoMoves ==
  ASSUME TypeInv, rw.pc # "idle", NEW pc, RefGoto(pc),
         pc \notin ClaimReadySteps \cup {"idle", "FinalizerAdded"},
         pc \in DeletionSteps => rw.pc \in DeletionSteps
  PROVE  RefWorkerMoves
  BY ReferenceParts DEF RefGoto, RefWorkerMoves, ReferenceWorker

\* The chain ends.
LEMMA FinishMoves ==
  ASSUME TypeInv, rw.pc # "idle", NEW out, NEW o, RefFinish(out, o),
         o.owner = rw.ref.owner
  PROVE  RefWorkerMoves
  BY ReferenceParts DEF RefFinish, RefWorkerMoves, ReferenceWorker, DeletionSteps, ClaimReadySteps

\* The chain fails.
LEMMA FailsMoves ==
  ASSUME TypeInv, rw.pc # "idle", RefFails
  PROVE  RefWorkerMoves
  BY FinishMoves DEF RefFails

\* client.Update answers with the owner of the copy, unless it was the last
\* write of a reference that is being deleted.
LEMMA RefUpdateOwner ==
  ASSUME NEW o \in ProjectReference, NEW old \in ProjectReference, ~o.deleting
  PROVE  RefUpdate(o, old).owner = o.owner
  BY DEF RefUpdate, Collected, ProjectReference

\* The operations that write the reference.
LEMMA RefWritersMove ==
  ASSUME TypeInv,
         \/ EnsureProjectReferenceInitialized \/ EnsureProjectReferenceStatusCreating
         \/ EnsureServiceAccountName \/ EnsureFinalizerAdded \/ EnsureStateReady
         \/ ProjectInactive \/ ClearProjectID \/ EnsureFinalizerDeleted
         \/ EnsureProjectID \/ HandleAvailabilityZonesError
  PROVE  RefWorkerMoves
  <1>1. rw.pc # "idle"
    BY DEF EnsureProjectReferenceInitialized, EnsureProjectReferenceStatusCreating,
           EnsureServiceAccountName, EnsureFinalizerAdded, EnsureStateReady,
           ProjectInactive, ClearProjectID, EnsureFinalizerDeleted, EnsureProjectID,
           HandleAvailabilityZonesError
  <1> DEFINE Edit(o) == /\ o \in ProjectReference /\ o.owner = rw.ref.owner
                        /\ o.deleting = rw.ref.deleting
             Status(o) == \E out : RefFinish(out, o)
             Answered(o) == \E ok \in BOOLEAN : \E out :
                              RefFinish(out, Answer(ok, RefUpdate(o, ref[rw.key]), o))
  <1>2. /\ Edit([rw.ref EXCEPT !.inited = TRUE]) /\ Edit([rw.ref EXCEPT !.state = "Creating"])
        /\ Edit([rw.ref EXCEPT !.saName = TRUE]) /\ Edit([rw.ref EXCEPT !.finalizer = TRUE])
        /\ Edit([rw.ref EXCEPT !.state = "Ready"]) /\ Edit([rw.ref EXCEPT !.state = "Error"])
        /\ Edit([rw.ref EXCEPT !.projectID = Nil]) /\ Edit([rw.ref EXCEPT !.finalizer = FALSE])
        /\ \A id \in ProjectIDs : Edit([rw.ref EXCEPT !.projectID = id])
        /\ Edit([rw.ref EXCEPT !.compute = "False"])
    BY <1>1, ReferenceParts DEF ProjectReference, ReferenceState, MaybeID
  <1>3. ASSUME NEW o, Edit(o), Status(o)
        PROVE  RefWorkerMoves
    BY <1>1, <1>3, FinishMoves
  <1>4. ASSUME NEW o, Edit(o), ~rw.ref.deleting, Answered(o)
        PROVE  RefWorkerMoves
    <2>1. PICK ok \in BOOLEAN : \E out : RefFinish(out, Answer(ok, RefUpdate(o, ref[rw.key]), o))
      BY <1>4
    <2>2. RefUpdate(o, ref[rw.key]).owner = o.owner
      BY <1>1, <1>4, ReferenceParts, RefUpdateOwner
    <2>3. Answer(ok, RefUpdate(o, ref[rw.key]), o).owner = rw.ref.owner
      BY <1>4, <2>2 DEF Answer
    <2> QED BY <1>1, <2>1, <2>3, FinishMoves
  <1> HIDE DEF Edit, Status, Answered
  <1>5. CASE EnsureProjectReferenceInitialized
    BY <1>2, <1>3, <1>5 DEF EnsureProjectReferenceInitialized, SaveRefStatus, Status
  <1>6. CASE EnsureProjectReferenceStatusCreating
    BY <1>2, <1>3, <1>6 DEF EnsureProjectReferenceStatusCreating, SaveRefStatus, Status
  <1>7. CASE EnsureStateReady
    BY <1>2, <1>3, <1>7 DEF EnsureStateReady, SaveRefStatus, Status
  <1>8. CASE ProjectInactive
    BY <1>2, <1>3, <1>8 DEF ProjectInactive, SaveRefStatus, Status
  <1>9. CASE EnsureServiceAccountName
    <2>1. ~rw.ref.deleting
      BY <1>9 DEF EnsureServiceAccountName, TypeInv, KeysOK
    <2> QED BY <1>2, <1>4, <1>9, <2>1 DEF EnsureServiceAccountName, SaveRef, Answered
  <1>10. CASE EnsureFinalizerAdded
    <2>1. ~rw.ref.deleting
      BY <1>10 DEF EnsureFinalizerAdded, TypeInv, KeysOK
    <2> QED BY <1>2, <1>4, <1>10, <2>1 DEF EnsureFinalizerAdded, SaveRef, Answered
  <1>11. CASE ClearProjectID
    <2>1. ~rw.ref.deleting
      BY <1>11 DEF ClearProjectID, TypeInv, KeysOK
    <2> QED BY <1>2, <1>4, <1>11, <2>1 DEF ClearProjectID, Answered
  <1>12. CASE EnsureProjectID
    <2>1. ~rw.ref.deleting
      BY <1>12 DEF EnsureProjectID, TypeInv, KeysOK
    <2> QED BY <1>1, <1>2, <1>4, <1>12, <2>1, FailsMoves DEF EnsureProjectID, SaveRef, Answered
  <1>13. CASE EnsureFinalizerDeleted
    BY <1>2, <1>3, <1>13 DEF EnsureFinalizerDeleted, Status
  <1>14. CASE HandleAvailabilityZonesError
    BY <1>1, <1>2, <1>3, <1>14, FailsMoves DEF HandleAvailabilityZonesError, Status
  <1> QED BY <1>5, <1>6, <1>7, <1>8, <1>9, <1>10, <1>11, <1>12, <1>13, <1>14

\* The operations that write the claim.
LEMMA ClaimReadyMoves ==
  ASSUME TypeInv,
         \/ EnsureClaimAvailabilityZonesSet \/ EnsureClaimProjectIDSet \/ EnsureProjectClaimReady
  PROVE  RefWorkerMoves
  <1>1. rw.pc # "idle"
    BY DEF EnsureClaimAvailabilityZonesSet, EnsureClaimProjectIDSet, EnsureProjectClaimReady
  <1>2. [rw.ref EXCEPT !.compute = "True"].owner = rw.ref.owner
    BY ReferenceParts DEF ProjectReference
  <1>3. CASE EnsureClaimAvailabilityZonesSet
    BY <1>1, <1>2, <1>3, FinishMoves DEF EnsureClaimAvailabilityZonesSet
  <1>4. CASE EnsureProjectClaimReady
    BY <1>1, <1>4, FinishMoves DEF EnsureProjectClaimReady
  <1>5. CASE EnsureClaimProjectIDSet
    <2>1. CASE RefFails
      BY <1>1, <2>1, FailsMoves
    <2>2. CASE \E cl : rw' = [rw EXCEPT !.pc = "ClaimReady", !.claim = cl]
      BY <1>5, <2>2, ReferenceParts DEF RefWorkerMoves, ReferenceWorker, DeletionSteps
    <2> QED BY <1>5, <2>1, <2>2 DEF EnsureClaimProjectIDSet
  <1> QED BY <1>3, <1>4, <1>5

\* The calls to GCP and the Secret.
LEMMA CloudMoves ==
  ASSUME TypeInv,
         \/ DeletePolicy \/ DeleteServiceAccount \/ DeleteProject \/ DeleteConsoleAccess
         \/ DeleteCredentials \/ ListProjectsFails \/ ProjectFound \/ ProjectMissing
         \/ ConfigureBillingAPI \/ ConfigureAPIS \/ ConfigureServiceAccount \/ SetIAMPolicy
         \/ CreateKey \/ CreateSecret \/ SetConsoleAccess
  PROVE  RefWorkerMoves /\ UNCHANGED <<claimObjs, refObjs>>
  <1> DEFINE Goes(pc) == /\ pc \notin ClaimReadySteps \cup {"idle", "FinalizerAdded"}
                         /\ pc \in DeletionSteps => rw.pc \in DeletionSteps
  <1>1. /\ rw.pc # "idle"
        /\ UNCHANGED <<claimObjs, refObjs>>
    BY DEF DeletePolicy, DeleteServiceAccount, DeleteProject, DeleteConsoleAccess,
           DeleteCredentials, ListProjectsFails, ProjectFound, ProjectMissing,
           ConfigureBillingAPI, ConfigureAPIS, ConfigureServiceAccount, SetIAMPolicy,
           CreateKey, CreateSecret, SetConsoleAccess
  <1>2. \A pc \in {"ClearProjectID", "Billing", "APIs", "ServiceAccount", "Policy",
                   "Credentials", "CreateSecret", "ConsoleAccess", "StateReady"} : Goes(pc)
    BY DEF DeletionSteps, ClaimReadySteps
  <1>3. rw.pc \in DeletionSteps => \A pc \in DeletionSteps \cup {"Condition"} : Goes(pc)
    BY DEF DeletionSteps, ClaimReadySteps
  <1>4. \/ \E pc : Goes(pc) /\ RefGoto(pc)
        \/ RefFails
        \/ RefFinish("after", rw.ref)
    <2> HIDE DEF Goes
    <2>1. CASE ListProjectsFails \/ ProjectFound \/ ProjectMissing
      BY <1>2, <2>1 DEF ListProjectsFails, ProjectFound, ProjectMissing
    <2>2. CASE ConfigureBillingAPI \/ ConfigureAPIS \/ ConfigureServiceAccount \/ SetIAMPolicy
               \/ SetConsoleAccess
      BY <1>2, <2>2 DEF ConfigureBillingAPI, ConfigureAPIS, ConfigureServiceAccount,
                        SetIAMPolicy, SetConsoleAccess, Configure
    <2>3. CASE CreateKey \/ CreateSecret
      BY <1>2, <2>3 DEF CreateKey, CreateSecret, AfterCredentials
    <2>4. CASE DeletePolicy \/ DeleteServiceAccount \/ DeleteProject \/ DeleteConsoleAccess
      <3>1. rw.pc \in DeletionSteps
        BY <2>4 DEF DeletePolicy, DeleteServiceAccount, DeleteProject, DeleteConsoleAccess,
                    DeletionSteps
      <3>2. {"DeleteServiceAccount", "DeleteConsoleAccess", "DeleteProject",
             "DeleteCredentials"} \subseteq DeletionSteps
        BY DEF DeletionSteps
      <3> QED BY <1>3, <2>4, <3>1, <3>2
              DEF DeletePolicy, DeleteServiceAccount, DeleteProject, DeleteConsoleAccess,
                  Configure, AfterServiceAccount
    <2>5. CASE DeleteCredentials
      BY <1>3, <2>5 DEF DeleteCredentials, AfterDeleteCredentials, DeletionSteps
    <2> QED BY <2>1, <2>2, <2>3, <2>4, <2>5
  <1>5. RefWorkerMoves
    <2>1. CASE \E pc : Goes(pc) /\ RefGoto(pc)
      BY <1>1, <2>1, GotoMoves
    <2>2. CASE RefFails \/ RefFinish("after", rw.ref)
      BY <1>1, <2>2, FailsMoves, FinishMoves
    <2> QED BY <1>4, <2>1, <2>2
  <1> QED BY <1>1, <1>5

\* Every step of a reconcile that is under way.
LEMMA ReferenceStepMoves ==
  ASSUME TypeInv, ReferenceStep
  PROVE  rw.pc # "idle" /\ (FinishReference \/ RefWorkerMoves)
  <1>1. rw.pc # "idle"
    BY DEF ReferenceStep, EnsureProjectReferenceInitialized,
           EnsureProjectReferenceStatusCreating, EnsureServiceAccountName,
           EnsureFinalizerAdded, EnsureStateReady, ProjectInactive, ClearProjectID,
           EnsureFinalizerDeleted, EnsureProjectID, HandleAvailabilityZonesError,
           EnsureClaimAvailabilityZonesSet, EnsureClaimProjectIDSet, EnsureProjectClaimReady,
           DeletePolicy, DeleteServiceAccount, DeleteProject, DeleteConsoleAccess,
           DeleteCredentials, ListProjectsFails, ProjectFound, ProjectMissing,
           ConfigureBillingAPI, ConfigureAPIS, ConfigureServiceAccount, SetIAMPolicy,
           CreateKey, CreateSecret, SetConsoleAccess, FinishReference
  <1>2. FinishReference \/ RefWorkerMoves
    BY RefWritersMove, ClaimReadyMoves, CloudMoves DEF ReferenceStep
  <1> QED BY <1>1, <1>2

-----------------------------------------------------------------------------
(* What a step can do to a claim.                                          *)

\* The claim stays, and holders of its version may go.
ClaimKept(c) ==
  claim'[c] = claim[c] /\ claimCur'[c] \subseteq claimCur[c] /\ claimCache'[c] = claimCache[c]

\* A worker reads the version in the cache.
ClaimRead(c, h) ==
  /\ claim'[c] = claim[c] /\ claimCache'[c] = claimCache[c]
  /\ "cache" \in claimCur[c] /\ claimCur'[c] = claimCur[c] \cup {h}

\* Two claims agree on what the operator and the API server decide by.
SameClaim(o, p) ==
  /\ o.exists = p.exists /\ o.deleting = p.deleting
  /\ o.finalizer = p.finalizer /\ o.link = p.link

\* The reference controller writes zones, project ID or state.
ClaimFilled(c) ==
  /\ rw.pc \in ClaimReadySteps /\ c = rw.ref.owner
  /\ Current(claim[c], claimCur[c], "refCtl")
  /\ SameClaim(claim'[c], claim[c])
  /\ claim'[c].state \in {claim[c].state, "Ready"}
  /\ claimCur'[c] \subseteq {"refCtl"} /\ claimCache'[c] = claimCache[c]

\* The ProjectClaim controller writes the claim and is done with its chain.
ClaimStored(c) ==
  /\ cw.pc # "idle" /\ c = cw.key /\ Current(claim[c], claimCur[c], "claimCtl")
  /\ cw'.pc \in {"idle", "Condition"}
  /\ claimCur'[c] \subseteq {"claimCtl"} /\ claimCache'[c] = claimCache[c]
  /\ \/ /\ SameClaim(claim'[c], claim[c])
        /\ claim'[c].state = IF cw'.pc = "idle" THEN cw.obj.state ELSE cw'.obj.state
        /\ cw'.pc = "idle" => cw.pc = "Condition"
     \/ /\ cw.pc = "ReferenceLink" /\ claim'[c].exists /\ ~claim'[c].deleting
        /\ claim'[c].finalizer = claim[c].finalizer /\ claim'[c].link
        /\ claim'[c].state = claim[c].state /\ cw'.pc = "Condition"
     \/ /\ cw.pc = "Finalizer" /\ claim'[c].exists /\ ~claim'[c].deleting
        /\ claim'[c].finalizer /\ claim'[c].link = claim[c].link
        /\ claim'[c].state = claim[c].state /\ cw'.pc = "Condition"
     \/ /\ cw.pc = "ClaimFinalizerDeleted" /\ claim'[c] = NoClaim /\ cw'.pc = "Condition"

\* The user creates, deletes or edits the claim.
ClaimChangedByUser(c) ==
  /\ claimCur'[c] = {} /\ claimCache'[c] = claimCache[c]
  /\ \/ /\ ~claim[c].exists /\ claim'[c].exists /\ ~claim'[c].deleting
        /\ ~claim'[c].finalizer /\ ~claim'[c].link /\ claim'[c].state = ""
     \/ /\ claim[c].exists /\ ~claim[c].deleting /\ claim[c].finalizer
        /\ claim'[c].exists /\ claim'[c].deleting /\ claim'[c].finalizer
        /\ claim'[c].link = claim[c].link /\ claim'[c].state = claim[c].state
     \/ /\ claim[c].exists /\ ~claim[c].finalizer /\ claim'[c] = NoClaim
     \/ /\ claim[c].exists /\ SameClaim(claim'[c], claim[c])
        /\ claim'[c].state = claim[c].state

\* What TypeInv says of the claims.
LEMMA ClaimObjects ==
  ASSUME TypeInv
  PROVE  /\ claim \in [Claims -> ProjectClaim] /\ claimCache \in [Claims -> ProjectClaim]
         /\ claimCur \in [Claims -> ClaimHolders]
         /\ cw \in ClaimWorker /\ cw.obj \in ProjectClaim
         /\ cw.pc # "idle" => cw.key \in Claims
  BY DEF TypeInv, TypeOK, KeysOK, ClaimHolders, ClaimWorker

\* What client.Update stores for a claim.
LEMMA ClaimUpdateFields ==
  ASSUME NEW o \in ProjectClaim, NEW old \in ProjectClaim
  PROVE  /\ ~(o.deleting /\ ~o.finalizer) =>
              SameClaim(ClaimUpdate(o, old), o) /\ ClaimUpdate(o, old).state = old.state
         /\ o.deleting /\ ~o.finalizer => ClaimUpdate(o, old) = NoClaim
  BY DEF ClaimUpdate, Collected, ProjectClaim, SameClaim

\* What client.Status().Update stores for a claim.
LEMMA ClaimStatusFields ==
  ASSUME NEW o, NEW old \in ProjectClaim
  PROVE  SameClaim(ClaimStatusUpdate(o, old), old) /\ ClaimStatusUpdate(o, old).state = o.state
  BY DEF ClaimStatusUpdate, ProjectClaim, SameClaim

\* A write of claim c by holder h leaves it alone or stores new.
Stores(h, c, new) ==
  /\ \A d \in Claims : d # c => claim'[d] = claim[d] /\ claimCur'[d] = claimCur[d]
  /\ \/ claim'[c] = claim[c] /\ claimCur'[c] = claimCur[c]
     \/ /\ Current(claim[c], claimCur[c], h)
        /\ claim'[c] = new /\ claimCur'[c] \subseteq {h}

\* So does what the API server answers to it.
LEMMA ReplyStores ==
  ASSUME TypeInv, NEW h, NEW c \in Claims, NEW new, NEW t \in BOOLEAN,
         NEW w \in Replies(h, claim[c], claimCur[c], new, t),
         claim' = [claim EXCEPT ![c] = w.obj],
         claimCur' = [claimCur EXCEPT ![c] = w.cur]
  PROVE  Stores(h, c, new)
  <1>1. claim \in [Claims -> ProjectClaim] /\ claimCur \in [Claims -> ClaimHolders]
    BY ClaimObjects
  <1>2. \/ w.obj = claim[c] /\ w.cur = claimCur[c]
        \/ Current(claim[c], claimCur[c], h) /\ w.obj = new /\ w.cur \subseteq {h}
    BY RepliesFacts
  <1>3. claim'[c] = w.obj /\ claimCur'[c] = w.cur
    BY <1>1
  <1> QED BY <1>1, <1>2, <1>3 DEF Stores

\* client.Update of a claim.
LEMMA UpdateClaimStores ==
  ASSUME TypeInv, NEW h, NEW c \in Claims, NEW o, NEW ok \in BOOLEAN,
         UpdateClaim(h, c, o, ok)
  PROVE  /\ Stores(h, c, ClaimUpdate(o, claim[c]))
         /\ ok => claim'[c] = ClaimUpdate(o, claim[c])
  <1> DEFINE new == ClaimUpdate(o, claim[c])
  <1>1. PICK w \in Replies(h, claim[c], claimCur[c], new, FALSE) :
           /\ w.ok = ok
           /\ claim' = [claim EXCEPT ![c] = w.obj]
           /\ claimCur' = [claimCur EXCEPT ![c] = w.cur]
    BY DEF UpdateClaim
  <1> HIDE DEF new
  <1>2. ok => w.obj = new
    BY <1>1, AcceptedIsStored
  <1>3. claim'[c] = w.obj
    BY <1>1, ClaimObjects
  <1>4. Stores(h, c, new)
    BY <1>1, ReplyStores
  <1> QED BY <1>2, <1>3, <1>4 DEF new

\* client.Status().Update of a claim.
LEMMA UpdateClaimStatusStores ==
  ASSUME TypeInv, NEW h, NEW c \in Claims, NEW o, NEW t \in BOOLEAN, NEW ok,
         UpdateClaimStatus(h, c, o, t, ok)
  PROVE  Stores(h, c, ClaimStatusUpdate(o, claim[c]))
  <1> DEFINE new == ClaimStatusUpdate(o, claim[c])
  <1>1. CASE o.inited
    <2>1. PICK w \in Replies(h, claim[c], claimCur[c], new, t) :
             /\ claim' = [claim EXCEPT ![c] = w.obj]
             /\ claimCur' = [claimCur EXCEPT ![c] = w.cur]
      BY <1>1 DEF UpdateClaimStatus
    <2> HIDE DEF new
    <2>2. Stores(h, c, new)
      BY <2>1, ReplyStores
    <2> QED BY <2>2 DEF new
  <1>2. CASE ~o.inited
    BY <1>2 DEF UpdateClaimStatus, claimObjs, Stores
  <1> QED BY <1>1, <1>2

\* What a step of the reference controller does to a claim.
LEMMA ReferenceStepClaims ==
  ASSUME TypeInv, ClaimCopyInv, ReferenceStep, NEW c \in Claims
  PROVE  /\ ClaimKept(c) \/ ClaimFilled(c)
         /\ rw'.pc \in ClaimReadySteps /\ c = rw.ref.owner => rw'.claim = claim'[c]
         /\ rw'.pc = "idle" => "refCtl" \notin claimCur'[c]
         /\ UNCHANGED <<claimCache, cw>>
  <1>1. UNCHANGED <<claimCache, cw>>
    BY DEF ReferenceStep, EnsureProjectReferenceInitialized,
           EnsureProjectReferenceStatusCreating, EnsureServiceAccountName,
           EnsureFinalizerAdded, EnsureStateReady, ProjectInactive, ClearProjectID,
           EnsureFinalizerDeleted, EnsureProjectID, HandleAvailabilityZonesError,
           EnsureClaimAvailabilityZonesSet, EnsureClaimProjectIDSet, EnsureProjectClaimReady,
           DeletePolicy, DeleteServiceAccount, DeleteProject, DeleteConsoleAccess,
           DeleteCredentials, ListProjectsFails, ProjectFound, ProjectMissing,
           ConfigureBillingAPI, ConfigureAPIS, ConfigureServiceAccount, SetIAMPolicy,
           CreateKey, CreateSecret, SetConsoleAccess, FinishReference, caches
  <1>2. /\ claim \in [Claims -> ProjectClaim] /\ claimCur \in [Claims -> ClaimHolders]
        /\ rw \in ReferenceWorker /\ rw.claim \in ProjectClaim
        /\ rw.pc # "idle" => rw.ref.owner \in Claims
    BY ReferenceParts
  <1>3. CASE FinishReference
    <2>1. /\ claim' = claim /\ rw' = IdleReferenceWorker
          /\ claimCur' = [claimCur EXCEPT ![rw.ref.owner] = @ \ {"refCtl"}]
          /\ rw.ref.owner \in Claims
      BY <1>2, <1>3 DEF FinishReference
    <2>2. rw'.pc = "idle"
      BY <2>1 DEF IdleReferenceWorker
    <2>3. "refCtl" \in claimCur[c] => rw.ref.owner = c
      BY DEF ClaimCopyInv, ClaimCopiesAgree
    <2> QED BY <1>1, <1>2, <2>1, <2>2, <2>3 DEF ClaimKept, ClaimReadySteps
  <1>4. CASE \/ EnsureClaimAvailabilityZonesSet \/ EnsureClaimProjectIDSet
             \/ EnsureProjectClaimReady
    <2> DEFINE k == rw.ref.owner
    <2>1. rw.pc \in ClaimReadySteps /\ k \in Claims
      BY <1>2, <1>4 DEF EnsureClaimAvailabilityZonesSet, EnsureClaimProjectIDSet,
                        EnsureProjectClaimReady, ClaimReadySteps
    <2>2. Current(claim[k], claimCur[k], "refCtl") =>
            rw.claim = claim[k] /\ (rw.claim.deleting => rw.claim.finalizer)
      BY <2>1 DEF ClaimCopyInv, ClaimCopiesAgree
    <2>3. /\ [rw.claim EXCEPT !.zones = TRUE] \in ProjectClaim
          /\ [rw.claim EXCEPT !.projectID = rw.ref.projectID] \in ProjectClaim
          /\ SameClaim([rw.claim EXCEPT !.zones = TRUE], rw.claim)
          /\ SameClaim([rw.claim EXCEPT !.projectID = rw.ref.projectID], rw.claim)
          /\ [rw.claim EXCEPT !.state = "Ready"].state = "Ready"
      BY <1>2, ReferenceParts DEF ProjectClaim, ProjectReference, SameClaim
    <2>4. ASSUME NEW o \in ProjectClaim, SameClaim(o, rw.claim), NEW ok \in BOOLEAN,
                 UpdateClaim("refCtl", k, o, ok)
          PROVE  ClaimKept(c) \/ ClaimFilled(c)
      <3>1. Current(claim[k], claimCur[k], "refCtl") =>
              /\ SameClaim(ClaimUpdate(o, claim[k]), claim[k])
              /\ ClaimUpdate(o, claim[k]).state = claim[k].state
        BY <1>2, <2>1, <2>2, <2>4, ClaimUpdateFields DEF SameClaim
      <3>2. Stores("refCtl", k, ClaimUpdate(o, claim[k]))
        BY <2>1, <2>4, UpdateClaimStores
      <3> HIDE DEF k
      <3>3. CASE c # k
        BY <1>1, <3>2, <3>3 DEF ClaimKept, Stores
      <3>4. CASE c = k
        BY <1>1, <2>1, <3>1, <3>2, <3>4 DEF ClaimKept, ClaimFilled, k, Stores
      <3> QED BY <3>3, <3>4
    <2>5. CASE EnsureProjectClaimReady
      <3> DEFINE o == [rw.claim EXCEPT !.state = "Ready"]
      <3>1. PICK ok \in BOOLEAN : UpdateClaimStatus("refCtl", k, o, FALSE, ok)
        BY <2>5 DEF EnsureProjectClaimReady
      <3>2. SameClaim(ClaimStatusUpdate(o, claim[k]), claim[k])
            /\ ClaimStatusUpdate(o, claim[k]).state = "Ready"
        BY <1>2, <2>1, <2>3, ClaimStatusFields
      <3>3. Stores("refCtl", k, ClaimStatusUpdate(o, claim[k]))
        BY <2>1, <3>1, UpdateClaimStatusStores
      <3> HIDE DEF k, o
      <3>4. ClaimKept(c) \/ ClaimFilled(c)
        <4>1. CASE c # k
          BY <1>1, <3>3, <4>1 DEF ClaimKept, Stores
        <4>2. CASE c = k
          BY <1>1, <2>1, <3>2, <3>3, <4>2 DEF ClaimKept, ClaimFilled, k, Stores
        <4> QED BY <4>1, <4>2
      <3>5. rw'.pc = "Condition"
        BY <1>2, <2>5 DEF EnsureProjectClaimReady, RefFinish, ReferenceWorker
      <3> QED BY <1>1, <3>4, <3>5 DEF ClaimReadySteps
    <2>6. CASE EnsureClaimAvailabilityZonesSet
      <3>1. PICK ok \in BOOLEAN : UpdateClaim("refCtl", k, [rw.claim EXCEPT !.zones = TRUE], ok)
        BY <2>6 DEF EnsureClaimAvailabilityZonesSet
      <3>2. rw'.pc = "Condition"
        BY <1>2, <2>6 DEF EnsureClaimAvailabilityZonesSet, RefFinish, ReferenceWorker
      <3> QED BY <1>1, <2>3, <2>4, <3>1, <3>2 DEF ClaimReadySteps
    <2>7. CASE EnsureClaimProjectIDSet
      <3> DEFINE o == [rw.claim EXCEPT !.projectID = rw.ref.projectID]
      <3>1. PICK ok \in BOOLEAN :
              /\ UpdateClaim("refCtl", k, o, ok)
              /\ IF ok THEN rw' = [rw EXCEPT !.pc = "ClaimReady",
                                             !.claim = ClaimUpdate(o, claim[k])]
                 ELSE RefFails
        BY <2>7 DEF EnsureClaimProjectIDSet
      <3>2. ClaimKept(c) \/ ClaimFilled(c)
        BY <2>3, <2>4, <3>1
      <3> HIDE DEF k, o
      <3>3. UpdateClaim("refCtl", k, o, ok) /\ k \in Claims
        BY <2>1, <3>1
      <3>4. /\ Stores("refCtl", k, ClaimUpdate(o, claim[k]))
            /\ ok => claim'[k] = ClaimUpdate(o, claim[k])
        BY <3>3, UpdateClaimStores, Zenon
      <3>5. ok => rw'.claim = ClaimUpdate(o, claim[k]) /\ rw'.pc = "ClaimReady"
        BY <1>2, <3>1 DEF ReferenceWorker
      <3>6. ~ok => rw'.pc = "Condition"
        BY <1>2, <3>1 DEF RefFails, RefFinish, ReferenceWorker
      <3> QED BY <1>1, <3>2, <3>4, <3>5, <3>6 DEF ClaimReadySteps, k
    <2> QED BY <1>4, <2>5, <2>6, <2>7
  <1>5. CASE ~FinishReference /\ UNCHANGED claimObjs
    <2>1. RefWorkerMoves
      BY <1>5, ReferenceStepMoves
    <2>2. ~EnsureClaimProjectIDSet =>
             rw'.pc \notin ClaimReadySteps /\ rw'.pc # "idle"
      BY <2>1 DEF RefWorkerMoves
    <2> QED BY <1>1, <1>4, <1>5, <2>2 DEF ClaimKept, claimObjs
  <1>6. \/ FinishReference \/ UNCHANGED claimObjs
        \/ EnsureClaimAvailabilityZonesSet \/ EnsureClaimProjectIDSet \/ EnsureProjectClaimReady
    BY CloudMoves
       DEF ReferenceStep, EnsureProjectReferenceInitialized,
           EnsureProjectReferenceStatusCreating, EnsureServiceAccountName,
           EnsureFinalizerAdded, EnsureStateReady, ProjectInactive, ClearProjectID,
           EnsureFinalizerDeleted, EnsureProjectID, HandleAvailabilityZonesError
  <1> QED BY <1>3, <1>4, <1>5, <1>6

-----------------------------------------------------------------------------
(* The worker of the ProjectClaim controller.                              *)

\* The state that the copy may have when the chain ends.
EditedState(st) ==
  \/ st \in {cw.obj.state, claim[cw.key].state, "Error"}
  \/ st = "Pending" /\ cw.obj.state \in {"", "Error"}
  \/ st = "PendingProject" /\ cw.obj.state = "Pending" /\ cw.obj.finalizer

\* What a step of a reconcile that is under way does to the worker.
ClaimWorkerMoves ==
  /\ cw.pc \notin {"idle", "Condition"}
  /\ cw'.key = cw.key /\ cw'.pc # "idle"
  /\ cw'.obj.deleting = cw.obj.deleting
  /\ cw'.pc = "Condition" => EditedState(cw'.obj.state)
  /\ cw'.pc # "Condition" =>
       /\ UNCHANGED claimObjs
       /\ \/ cw'.obj = cw.obj
          \/ cw.obj.state = "Error" /\ cw'.obj = [cw.obj EXCEPT !.state = "Pending"]
  /\ ClaimStepMatchesCopy'

\* The chain ends.
LEMMA ClaimFinishMoves ==
  ASSUME TypeInv, cw.pc \notin {"idle", "Condition"}, NEW out, NEW o, ClaimFinish(out, o),
         o.deleting = cw.obj.deleting, EditedState(o.state)
  PROVE  ClaimWorkerMoves /\ cw'.pc = "Condition" /\ cw'.obj = o
  <1>1. cw'.key = cw.key /\ cw'.pc = "Condition" /\ cw'.obj = o
    BY ClaimObjects DEF ClaimFinish, ClaimWorker
  <1>2. ClaimStepMatchesCopy'
    BY <1>1 DEF ClaimStepMatchesCopy, DeletingClaimSteps
  <1> QED BY <1>1, <1>2 DEF ClaimWorkerMoves

\* The chain goes on, or ends without an outcome of its own.
LEMMA ClaimGotoMoves ==
  ASSUME TypeInv, cw.pc \notin {"idle", "Condition"}, NEW pc \in ClaimSteps \ {"idle"}, NEW o,
         ClaimGoto(pc, o), UNCHANGED claimObjs,
         o.deleting = cw.obj.deleting,
         \/ o = cw.obj
         \/ cw.obj.state = "Error" /\ o = [cw.obj EXCEPT !.state = "Pending"] /\ o.state = "Pending",
         pc \in DeletingClaimSteps => o.deleting,
         pc \notin DeletingClaimSteps /\ pc # "Condition" => ~o.deleting,
         pc = "StatePending" => o.state = "",
         pc = "Finalizer" => o.link,
         pc \in {"CCSSecretFinalizer", "StatePendingProject"} => o.finalizer,
         pc = "StatePendingProject" => o.state = "Pending"
  PROVE  ClaimWorkerMoves
  <1>1. cw'.key = cw.key /\ cw'.pc = pc /\ cw'.obj = o
    BY ClaimObjects DEF ClaimGoto, ClaimWorker
  <1>2. ClaimStepMatchesCopy'
    BY <1>1 DEF ClaimStepMatchesCopy, DeletingClaimSteps
  <1>3. EditedState(o.state)
    BY DEF EditedState
  <1> QED BY <1>1, <1>2, <1>3 DEF ClaimWorkerMoves

\* The operations that write the status of the claim.
LEMMA SaveStatusMoves ==
  ASSUME TypeInv, cw.pc \notin {"idle", "Condition"}, NEW o, NEW t \in BOOLEAN,
         SaveClaimStatus(o, t), o.deleting = cw.obj.deleting, EditedState(o.state),
         UNCHANGED claimCache
  PROVE  ClaimWorkerMoves /\ \A c \in Claims : ClaimKept(c) \/ ClaimStored(c)
  <1> DEFINE k == cw.key
             new == ClaimStatusUpdate(o, claim[k])
  <1>1. PICK ok \in BOOLEAN : /\ UpdateClaimStatus("claimCtl", k, o, t, ok)
                              /\ ClaimFinish(ErrorOrStop(ok), o)
    BY DEF SaveClaimStatus
  <1>2. k \in Claims /\ claim[k] \in ProjectClaim
    BY ClaimObjects
  <1>3. ClaimWorkerMoves /\ cw'.pc = "Condition" /\ cw'.obj = o
    BY <1>1, ClaimFinishMoves
  <1>4. SameClaim(new, claim[k]) /\ new.state = o.state
    BY <1>2, ClaimStatusFields
  <1>5. Stores("claimCtl", k, new)
    BY <1>1, <1>2, UpdateClaimStatusStores
  <1> HIDE DEF new
  <1>6. ASSUME NEW c \in Claims
        PROVE  ClaimKept(c) \/ ClaimStored(c)
    BY <1>3, <1>4, <1>5 DEF ClaimKept, ClaimStored, Stores
  <1> QED BY <1>3, <1>6

\* EnsureProjectReferenceLink and EnsureFinalizer.
LEMMA SaveSpecMoves ==
  ASSUME TypeInv, ClaimCopyInv, EnsureProjectReferenceLink \/ EnsureFinalizer
  PROVE  ClaimWorkerMoves /\ \A c \in Claims : ClaimKept(c) \/ ClaimStored(c)
  <1> DEFINE k == cw.key
  <1>1. /\ cw.pc \in {"ReferenceLink", "Finalizer"} /\ UNCHANGED claimCache
        /\ cw.pc \notin {"idle", "Condition"} /\ ~cw.obj.deleting
    BY DEF EnsureProjectReferenceLink, EnsureFinalizer, caches, ClaimCopyInv,
           ClaimStepMatchesCopy, ClaimSteps, DeletingClaimSteps
  <1>2. k \in Claims /\ claim[k] \in ProjectClaim /\ cw.obj \in ProjectClaim
    BY <1>1, ClaimObjects
  <1>3. PICK o \in ProjectClaim :
          /\ SaveClaim(o)
          /\ o.exists = cw.obj.exists /\ ~o.deleting /\ o.state = cw.obj.state
          /\ \/ /\ cw.pc = "ReferenceLink"
                /\ o.link /\ o.finalizer = cw.obj.finalizer
             \/ /\ cw.pc = "Finalizer"
                /\ o.finalizer /\ o.link = cw.obj.link
    <2>1. CASE EnsureProjectReferenceLink
      <3> DEFINE o == [cw.obj EXCEPT !.link = TRUE]
      <3>1. /\ o \in ProjectClaim /\ o.exists = cw.obj.exists /\ ~o.deleting
            /\ o.link /\ o.finalizer = cw.obj.finalizer /\ o.state = cw.obj.state
        BY <1>1, <1>2 DEF ProjectClaim
      <3> QED BY <2>1, <3>1 DEF EnsureProjectReferenceLink
    <2>2. CASE EnsureFinalizer
      <3> DEFINE o == [cw.obj EXCEPT !.finalizer = TRUE]
      <3>1. /\ o \in ProjectClaim /\ o.exists = cw.obj.exists /\ ~o.deleting
            /\ o.finalizer /\ o.link = cw.obj.link /\ o.state = cw.obj.state
        BY <1>1, <1>2 DEF ProjectClaim
      <3> QED BY <2>2, <3>1 DEF EnsureFinalizer
    <2> QED BY <2>1, <2>2
  <1> DEFINE new == ClaimUpdate(o, claim[k])
  <1>4. PICK ok \in BOOLEAN : /\ UpdateClaim("claimCtl", k, o, ok)
                              /\ ClaimFinish(ErrorOrStop(ok), Answer(ok, new, o))
    BY <1>3 DEF SaveClaim
  <1>5. SameClaim(new, o) /\ new.state = claim[k].state
    BY <1>2, <1>3, ClaimUpdateFields
  <1>6. Stores("claimCtl", k, new)
    BY <1>2, <1>4, UpdateClaimStores
  <1> HIDE DEF new
  <1>7. /\ Answer(ok, new, o).deleting = cw.obj.deleting
        /\ EditedState(Answer(ok, new, o).state)
    BY <1>1, <1>2, <1>3, <1>5 DEF Answer, EditedState, SameClaim, ProjectClaim
  <1>8. ClaimWorkerMoves /\ cw'.pc = "Condition"
    BY <1>1, <1>4, <1>7, ClaimFinishMoves
  <1>9. Current(claim[k], claimCur[k], "claimCtl") =>
           claim[k].finalizer = cw.obj.finalizer /\ claim[k].link = cw.obj.link
           /\ claim[k].exists /\ cw.obj.exists
    <2>1. CASE cw.obj = claim[k]
      BY <2>1 DEF Current
    <2>2. CASE cw.obj = [claim[k] EXCEPT !.state = "Pending"]
      BY <1>2, <2>2 DEF Current, ProjectClaim
    <2> QED BY <1>1, <2>1, <2>2 DEF ClaimCopyInv, ClaimCopiesAgree
  <1>10. ASSUME NEW c \in Claims
         PROVE  ClaimKept(c) \/ ClaimStored(c)
    BY <1>1, <1>3, <1>5, <1>6, <1>8, <1>9 DEF ClaimKept, ClaimStored, Stores, SameClaim
  <1> QED BY <1>8, <1>10

\* EnsureProjectClaimFinalizerDeleted.
LEMMA ClaimFinalizerDeletedMoves ==
  ASSUME TypeInv, ClaimCopyInv, EnsureProjectClaimFinalizerDeleted
  PROVE  ClaimWorkerMoves /\ \A c \in Claims : ClaimKept(c) \/ ClaimStored(c)
  <1> DEFINE k == cw.key
             o == [cw.obj EXCEPT !.finalizer = FALSE]
             new == ClaimUpdate(o, claim[k])
  <1>1. /\ cw.pc = "ClaimFinalizerDeleted" /\ UNCHANGED claimCache /\ cw.obj.deleting
    BY DEF EnsureProjectClaimFinalizerDeleted, caches, ClaimCopyInv, ClaimStepMatchesCopy,
           DeletingClaimSteps
  <1>2. k \in Claims /\ claim[k] \in ProjectClaim /\ cw.obj \in ProjectClaim
    BY <1>1, ClaimObjects
  <1>3. /\ o \in ProjectClaim /\ o.deleting = cw.obj.deleting /\ ~o.finalizer
        /\ o.state = cw.obj.state
    BY <1>2 DEF ProjectClaim
  <1>4. EditedState(cw.obj.state)
    BY DEF EditedState
  <1>5. CASE cw.obj.finalizer
    <2>1. PICK ok \in BOOLEAN : /\ UpdateClaim("claimCtl", k, o, ok)
                                /\ ClaimFinish(ErrorOrStop(ok), o)
      BY <1>5 DEF EnsureProjectClaimFinalizerDeleted
    <2> HIDE DEF o
    <2>2. new = NoClaim
      BY <1>1, <1>2, <1>3, ClaimUpdateFields
    <2>3. Stores("claimCtl", k, new)
      BY <1>2, <2>1, UpdateClaimStores
    <2>4. ClaimWorkerMoves /\ cw'.pc = "Condition"
      BY <1>1, <1>3, <1>4, <2>1, ClaimFinishMoves
    <2> HIDE DEF new
    <2>5. ASSUME NEW c \in Claims
          PROVE  ClaimKept(c) \/ ClaimStored(c)
      BY <1>1, <2>2, <2>3, <2>4 DEF ClaimKept, ClaimStored, Stores
    <2> QED BY <2>4, <2>5
  <1>6. CASE ~cw.obj.finalizer
    <2>1. ClaimFinish("stop", cw.obj) /\ UNCHANGED claimObjs
      BY <1>6 DEF EnsureProjectClaimFinalizerDeleted
    <2>2. ClaimWorkerMoves
      BY <1>1, <1>4, <2>1, ClaimFinishMoves
    <2> QED BY <1>1, <2>1, <2>2 DEF ClaimKept, claimObjs
  <1> QED BY <1>5, <1>6

\* The other operations that write the status.
LEMMA StatusWritersMove ==
  ASSUME TypeInv, ClaimCopyInv,
         \/ EnsureProjectClaimValidated \/ EnsureProjectClaimInitialized
         \/ EnsureProjectClaimStatePending \/ EnsureProjectClaimStatePendingProject
  PROVE  ClaimWorkerMoves /\ \A c \in Claims : ClaimKept(c) \/ ClaimStored(c)
  <1>1. /\ cw.pc \in {"Validated", "Initialized", "StatePending", "StatePendingProject"}
        /\ UNCHANGED claimCache /\ cw.obj \in ProjectClaim
    BY ClaimObjects DEF EnsureProjectClaimValidated, EnsureProjectClaimInitialized,
       EnsureProjectClaimStatePending, EnsureProjectClaimStatePendingProject, caches
  <1>2. PICK o : /\ SaveClaimStatus(o, FALSE) /\ o.deleting = cw.obj.deleting
                 /\ EditedState(o.state)
    <2>1. CASE EnsureProjectClaimValidated
      <3> DEFINE o == [cw.obj EXCEPT !.state = "Error"]
      <3>1. o.deleting = cw.obj.deleting /\ EditedState(o.state)
        BY <1>1 DEF ProjectClaim, EditedState
      <3> QED BY <2>1, <3>1 DEF EnsureProjectClaimValidated
    <2>2. CASE EnsureProjectClaimInitialized
      <3> DEFINE o == [cw.obj EXCEPT !.inited = TRUE]
      <3>1. o.deleting = cw.obj.deleting /\ EditedState(o.state)
        BY <1>1 DEF ProjectClaim, EditedState
      <3> QED BY <2>2, <3>1 DEF EnsureProjectClaimInitialized
    <2>3. CASE EnsureProjectClaimStatePending
      <3> DEFINE o == [cw.obj EXCEPT !.state = "Pending"]
      <3>1. cw.obj.state = ""
        BY <2>3 DEF EnsureProjectClaimStatePending, ClaimCopyInv, ClaimStepMatchesCopy
      <3>2. o.deleting = cw.obj.deleting /\ EditedState(o.state)
        BY <1>1, <3>1 DEF ProjectClaim, EditedState
      <3> QED BY <2>3, <3>2 DEF EnsureProjectClaimStatePending
    <2>4. CASE EnsureProjectClaimStatePendingProject
      <3> DEFINE o == [cw.obj EXCEPT !.state = "PendingProject"]
      <3>1. cw.obj.state = "Pending" /\ cw.obj.finalizer
        BY <2>4 DEF EnsureProjectClaimStatePendingProject, ClaimCopyInv, ClaimStepMatchesCopy
      <3>2. o.deleting = cw.obj.deleting /\ EditedState(o.state)
        BY <1>1, <3>1 DEF ProjectClaim, EditedState
      <3> QED BY <2>4, <3>2 DEF EnsureProjectClaimStatePendingProject
    <2> QED BY <2>1, <2>2, <2>3, <2>4
  <1> QED BY <1>1, <1>2, SaveStatusMoves

\* EnsureRegionSupported.
LEMMA RegionSupportedMoves ==
  ASSUME TypeInv, ClaimCopyInv, EnsureRegionSupported
  PROVE  ClaimWorkerMoves /\ \A c \in Claims : ClaimKept(c) \/ ClaimStored(c)
  <1> DEFINE recovered == [cw.obj EXCEPT !.state = IF @ = "Error" THEN "Pending" ELSE @]
             refused == [cw.obj EXCEPT !.state = "Error", !.invalid = "True"]
             resolved == [recovered EXCEPT !.invalid = "Resolved"]
  <1>1. /\ cw.pc = "RegionSupported" /\ UNCHANGED claimCache /\ cw.obj \in ProjectClaim
        /\ ~cw.obj.deleting
    BY ClaimObjects DEF EnsureRegionSupported, caches, ClaimCopyInv, ClaimStepMatchesCopy,
       ClaimSteps, DeletingClaimSteps
  <1>2. /\ recovered.deleting = cw.obj.deleting /\ recovered \in ProjectClaim
        /\ recovered.state # "Error"
        /\ IF cw.obj.state = "Error"
           THEN recovered = [cw.obj EXCEPT !.state = "Pending"] /\ recovered.state = "Pending"
           ELSE recovered = cw.obj
    BY <1>1 DEF ProjectClaim, ClaimStatus
  <1>3. refused.deleting = cw.obj.deleting /\ EditedState(refused.state)
    BY <1>1 DEF ProjectClaim, EditedState
  <1>4. resolved.deleting = cw.obj.deleting /\ EditedState(resolved.state)
    BY <1>1 DEF ProjectClaim, EditedState
  <1>5. \/ \E t \in BOOLEAN : SaveClaimStatus(refused, t)
        \/ SaveClaimStatus(resolved, FALSE)
        \/ /\ ClaimGoto(IF NeedsPending(recovered) THEN "StatePending"
                        ELSE "ReferenceExists", recovered)
           /\ UNCHANGED claimObjs
    BY DEF EnsureRegionSupported
  <1> HIDE DEF recovered, refused, resolved
  <1>6. CASE \E t \in BOOLEAN : SaveClaimStatus(refused, t)
    BY <1>1, <1>3, <1>6, SaveStatusMoves
  <1>7. CASE SaveClaimStatus(resolved, FALSE)
    BY <1>1, <1>4, <1>7, SaveStatusMoves
  <1>8. CASE /\ ClaimGoto(IF NeedsPending(recovered) THEN "StatePending"
                          ELSE "ReferenceExists", recovered)
             /\ UNCHANGED claimObjs
    <2> DEFINE pc == IF NeedsPending(recovered) THEN "StatePending" ELSE "ReferenceExists"
    <2>1. /\ pc \in ClaimSteps \ {"idle"} /\ pc \notin DeletingClaimSteps
          /\ pc = "StatePending" => recovered.state = ""
          /\ pc \notin {"Finalizer", "CCSSecretFinalizer", "StatePendingProject"}
      BY <1>2 DEF ClaimSteps, DeletingClaimSteps, NeedsPending
    <2>2. ClaimGoto(pc, recovered)
      BY <1>8
    <2> HIDE DEF pc
    <2>3. ClaimWorkerMoves
      BY <1>1, <1>2, <1>8, <2>1, <2>2, ClaimGotoMoves
    <2> QED BY <1>1, <1>8, <2>3 DEF ClaimKept, claimObjs
  <1> QED BY <1>5, <1>6, <1>7, <1>8

\* The operations that leave the claim alone.
LEMMA OtherOperationsMove ==
  ASSUME TypeInv, ClaimCopyInv,
         \/ FinalizeReference \/ FinalizeWithoutReference \/ EnsureCCSSecretFinalizerDeleted
         \/ EnsureProjectReferenceExists \/ EnsureCCSSecretFinalizer
  PROVE  ClaimWorkerMoves /\ \A c \in Claims : ClaimKept(c) \/ ClaimStored(c)
  <1> DEFINE o == cw.obj
  <1>1. /\ UNCHANGED <<claimObjs, claimCache>> /\ cw.pc \notin {"idle", "Condition"}
        /\ cw.pc \in {"Deletion", "CCSSecretFinalizerDeleted", "ReferenceExists",
                      "CCSSecretFinalizer"}
    BY DEF FinalizeReference, FinalizeWithoutReference, EnsureCCSSecretFinalizerDeleted,
           EnsureProjectReferenceExists, EnsureCCSSecretFinalizer, caches
  <1>2. EditedState(o.state)
    BY DEF EditedState
  <1>3. /\ cw.pc \in DeletingClaimSteps => o.deleting
        /\ cw.pc \notin DeletingClaimSteps => ~o.deleting
        /\ cw.pc = "CCSSecretFinalizer" => o.finalizer
    BY <1>1 DEF ClaimCopyInv, ClaimStepMatchesCopy, ClaimSteps, DeletingClaimSteps
  <1>4. \/ \E out : ClaimFinish(out, o)
        \/ \E pc : ClaimGoto(pc, o) /\
             \/ pc \in {"CCSSecretFinalizerDeleted", "ClaimFinalizerDeleted"}
                  /\ cw.pc \in {"Deletion", "CCSSecretFinalizerDeleted"}
             \/ pc = AfterReferenceExists(cw.key, o) /\ cw.pc = "ReferenceExists"
             \/ pc = AfterSecretFinalizer(o) /\ cw.pc = "CCSSecretFinalizer"
    BY DEF FinalizeReference, FinalizeWithoutReference, EnsureCCSSecretFinalizerDeleted,
           EnsureProjectReferenceExists, EnsureCCSSecretFinalizer
  <1>5. CASE \E out : ClaimFinish(out, o)
    <2>1. ClaimWorkerMoves
      BY <1>1, <1>2, <1>5, ClaimFinishMoves
    <2> QED BY <1>1, <2>1 DEF ClaimKept, claimObjs
  <1>6. ASSUME NEW pc, ClaimGoto(pc, o),
             \/ pc \in {"CCSSecretFinalizerDeleted", "ClaimFinalizerDeleted"}
                  /\ cw.pc \in {"Deletion", "CCSSecretFinalizerDeleted"}
             \/ pc = AfterReferenceExists(cw.key, o) /\ cw.pc = "ReferenceExists"
             \/ pc = AfterSecretFinalizer(o) /\ cw.pc = "CCSSecretFinalizer"
        PROVE  ClaimWorkerMoves /\ \A c \in Claims : ClaimKept(c) \/ ClaimStored(c)
    <2>1. /\ pc \in ClaimSteps \ {"idle"}
          /\ pc \in DeletingClaimSteps => o.deleting
          /\ pc \notin DeletingClaimSteps /\ pc # "Condition" => ~o.deleting
          /\ pc # "StatePending"
          /\ pc = "Finalizer" => o.link
          /\ pc \in {"CCSSecretFinalizer", "StatePendingProject"} => o.finalizer
          /\ pc = "StatePendingProject" => o.state = "Pending"
      BY <1>3, <1>6 DEF AfterReferenceExists, AfterSecretFinalizer, NeedsPendingProject,
                        ClaimSteps, DeletingClaimSteps
    <2>2. ClaimWorkerMoves
      BY <1>1, <1>6, <2>1, ClaimGotoMoves
    <2> QED BY <1>1, <2>2 DEF ClaimKept, claimObjs
  <1> QED BY <1>4, <1>5, <1>6

\* The end of a reconcile.
ClaimWorkerRests ==
  /\ cw'.pc = "idle" /\ cw.pc # "idle"
  /\ \A c \in Claims : "claimCtl" \notin claimCur'[c]

\* FinishClaim.
LEMMA FinishClaimMoves ==
  ASSUME TypeInv, ClaimCopyInv, FinishClaim
  PROVE  ClaimWorkerRests /\ \A c \in Claims : ClaimKept(c) \/ ClaimStored(c)
  <1> DEFINE k == cw.key
             o == ErrorCondition(cw.obj, cw.out)
             new == ClaimStatusUpdate(o, claim[k])
  <1>1. /\ cw.pc = "Condition" /\ UNCHANGED claimCache /\ cw' = IdleClaimWorker
    BY DEF FinishClaim, caches
  <1>2. /\ k \in Claims /\ claim[k] \in ProjectClaim /\ cw.obj \in ProjectClaim
        /\ claim \in [Claims -> ProjectClaim] /\ claimCur \in [Claims -> ClaimHolders]
    BY <1>1, ClaimObjects
  <1>3. cw'.pc = "idle"
    BY <1>1 DEF IdleClaimWorker
  <1>4. SameClaim(new, claim[k]) /\ new.state = cw.obj.state
    <2>1. o.state = cw.obj.state
      BY <1>2 DEF ErrorCondition, ProjectClaim
    <2> HIDE DEF o
    <2> QED BY <1>2, <2>1, ClaimStatusFields
  <1> HIDE DEF o, new
  <1>5. /\ \A d \in Claims : d # k => claim'[d] = claim[d] /\ claimCur'[d] = claimCur[d]
        /\ "claimCtl" \notin claimCur'[k]
        /\ \/ claim'[k] = claim[k] /\ claimCur'[k] \subseteq claimCur[k]
           \/ /\ Current(claim[k], claimCur[k], "claimCtl")
              /\ claim'[k] = new /\ claimCur'[k] \subseteq {"claimCtl"}
    <2>1. CASE ErrorConditionDue(cw.obj, cw.out)
      <3>1. PICK touched \in BOOLEAN : \E w \in Replies("claimCtl", claim[k], claimCur[k], new, touched) :
                /\ claim' = [claim EXCEPT ![k] = w.obj]
                /\ claimCur' = [claimCur EXCEPT ![k] = w.cur \ {"claimCtl"}]
        BY <2>1 DEF FinishClaim, new, o
      <3>2. PICK w \in Replies("claimCtl", claim[k], claimCur[k], new, touched) :
                /\ claim' = [claim EXCEPT ![k] = w.obj]
                /\ claimCur' = [claimCur EXCEPT ![k] = w.cur \ {"claimCtl"}]
        BY <3>1
      <3>3. \/ w.obj = claim[k] /\ w.cur = claimCur[k]
            \/ Current(claim[k], claimCur[k], "claimCtl") /\ w.obj = new /\ w.cur \subseteq {"claimCtl"}
        BY RepliesFacts
      <3> QED BY <1>2, <3>2, <3>3
    <2>2. CASE ~ErrorConditionDue(cw.obj, cw.out)
      BY <1>2, <2>2 DEF FinishClaim
    <2> QED BY <2>1, <2>2
  <1>6. ClaimWorkerRests
    BY <1>1, <1>3, <1>5 DEF ClaimWorkerRests, ClaimCopyInv, ClaimCopiesAgree
  <1>7. ASSUME NEW c \in Claims
        PROVE  ClaimKept(c) \/ ClaimStored(c)
    BY <1>1, <1>3, <1>4, <1>5 DEF ClaimKept, ClaimStored
  <1> QED BY <1>6, <1>7

\* Every step of a reconcile of a claim.
LEMMA ClaimStepMoves ==
  ASSUME TypeInv, ClaimCopyInv, ClaimStep
  PROVE  /\ ClaimWorkerMoves \/ ClaimWorkerRests
         /\ \A c \in Claims : ClaimKept(c) \/ ClaimStored(c)
         /\ UNCHANGED <<caches, rw>>
  <1>1. UNCHANGED <<caches, rw>>
    BY DEF ClaimStep, FinalizeReference, FinalizeWithoutReference,
           EnsureCCSSecretFinalizerDeleted, EnsureProjectClaimFinalizerDeleted,
           EnsureProjectClaimValidated, EnsureProjectClaimInitialized, EnsureRegionSupported,
           EnsureProjectClaimStatePending, EnsureProjectReferenceExists,
           EnsureProjectReferenceLink, EnsureFinalizer, EnsureCCSSecretFinalizer,
           EnsureProjectClaimStatePendingProject, FinishClaim
  <1> QED BY <1>1, OtherOperationsMove, ClaimFinalizerDeletedMoves, StatusWritersMove,
             RegionSupportedMoves, SaveSpecMoves, FinishClaimMoves DEF ClaimStep

\* Where a reconcile begins, with the copy of the cache.
ClaimWorkerStarts(c) ==
  /\ cw.pc = "idle" /\ cw'.key = c
  /\ claimCache[c].exists /\ cw'.obj = claimCache[c]
  /\ cw'.pc \in {"Deletion", "Validated", "Initialized", "RegionSupported"}
  /\ ClaimStepMatchesCopy'

\* StartClaim.
LEMMA StartClaimMoves ==
  ASSUME TypeInv, NEW c \in Claims, StartClaim(c)
  PROVE  /\ UNCHANGED <<claim, caches, refObjs, rw>>
         /\ \A d \in Claims : d # c => claimCur'[d] = claimCur[d]
         /\ \/ UNCHANGED cw /\ claimCur'[c] = claimCur[c]
            \/ /\ ClaimWorkerStarts(c)
               /\ claimCur'[c] = claimCur[c] \/ ClaimRead(c, "claimCtl")
  <1> DEFINE o == claimCache[c]
  <1>1. UNCHANGED <<claim, caches, refObjs, rw>> /\ cw.pc = "idle"
    BY DEF StartClaim
  <1>2. claimCur \in [Claims -> ClaimHolders] /\ o \in ProjectClaim
    BY ClaimObjects
  <1>3. CASE ~o.exists
    BY <1>1, <1>3 DEF StartClaim
  <1>4. CASE o.exists
    <2>1. /\ cw' = [pc |-> FirstClaimOperation(o), key |-> c, obj |-> o, out |-> "stop"]
          /\ claimCur' = [claimCur EXCEPT ![c] =
                            IF "cache" \in @ THEN @ \cup {"claimCtl"} ELSE @]
      BY <1>4 DEF StartClaim
    <2>2. cw'.pc = FirstClaimOperation(o) /\ cw'.key = c /\ cw'.obj = o
      BY <2>1
    <2> HIDE DEF o
    <2>3. /\ cw'.pc \in {"Deletion", "Validated", "Initialized", "RegionSupported"}
          /\ cw'.pc = "Deletion" <=> cw'.obj.deleting
      BY <1>2, <2>2 DEF FirstClaimOperation, ProjectClaim
    <2>4. ClaimStepMatchesCopy'
      BY <2>3 DEF ClaimStepMatchesCopy, DeletingClaimSteps
    <2>5. ClaimWorkerStarts(c)
      BY <1>1, <1>4, <2>2, <2>3, <2>4 DEF ClaimWorkerStarts, o
    <2>6. claimCur'[c] = claimCur[c] \/ ClaimRead(c, "claimCtl")
      BY <1>1, <1>2, <2>1 DEF ClaimRead, caches
    <2> QED BY <1>1, <1>2, <2>1, <2>5, <2>6
  <1> QED BY <1>3, <1>4

\* Where a reconcile of a reference begins, with the copies of the caches.
RefWorkerStarts(r) ==
  LET o == refCache[r]
      cl == claimCache[refCache[r].owner]
  IN  /\ rw.pc = "idle" /\ rw'.key = r /\ o.exists /\ CanReadRef(r)
      /\ CanReadClaim(o.owner) /\ cl.exists
      /\ rw'.ref = o /\ rw'.claim = cl
      /\ rw'.pc = FirstOperation(o, cl)

\* StartReference.
LEMMA StartReferenceMoves ==
  ASSUME TypeInv, NEW r \in Refs, StartReference(r)
  PROVE  /\ UNCHANGED <<claim, ref, caches, cw>>
         /\ \/ UNCHANGED <<rw, claimCur, refCur>>
            \/ /\ RefWorkerStarts(r)
               /\ \A c \in Claims :
                    \/ claimCur'[c] = claimCur[c]
                    \/ c = refCache[r].owner /\ ClaimRead(c, "refCtl")
               /\ \A s \in Refs :
                    \/ refCur'[s] = refCur[s]
                    \/ s = r /\ "cache" \in refCur[r] /\ refCur'[r] = refCur[r] \cup {"refCtl"}
  <1> DEFINE o == refCache[r]
             cl == claimCache[o.owner]
  <1>1. UNCHANGED <<claim, ref, caches, cw>> /\ rw.pc = "idle" /\ CanReadRef(r)
    BY DEF StartReference
  <1>2. /\ claimCur \in [Claims -> ClaimHolders] /\ refCur \in [Refs -> RefHolders]
        /\ o.exists => o.owner \in Claims
    BY ReferenceParts DEF TypeInv, KeysOK
  <1>3. CASE UNCHANGED <<rw, claimCur, refCur>>
    BY <1>1, <1>3
  <1>4. CASE /\ o.exists /\ CanReadClaim(o.owner) /\ cl.exists
             /\ rw' = [pc |-> FirstOperation(o, cl), key |-> r, ref |-> o,
                       claim |-> cl, out |-> FirstOutcome(o, cl)]
             /\ refCur' = [refCur EXCEPT ![r] = IF "cache" \in @ THEN @ \cup {"refCtl"} ELSE @]
             /\ claimCur' = [claimCur EXCEPT ![o.owner] =
                               IF "cache" \in @ THEN @ \cup {"refCtl"} ELSE @]
    <2>1. rw'.pc = FirstOperation(o, cl) /\ rw'.key = r /\ rw'.ref = o /\ rw'.claim = cl
      BY <1>4
    <2>2. RefWorkerStarts(r)
      BY <1>1, <1>4, <2>1 DEF RefWorkerStarts
    <2>3. \A c \in Claims : \/ claimCur'[c] = claimCur[c]
                            \/ c = o.owner /\ ClaimRead(c, "refCtl")
      BY <1>1, <1>2, <1>4 DEF ClaimRead, caches
    <2>4. \A s \in Refs :
            \/ refCur'[s] = refCur[s]
            \/ s = r /\ "cache" \in refCur[r] /\ refCur'[r] = refCur[r] \cup {"refCtl"}
      BY <1>2, <1>4
    <2> QED BY <1>1, <2>2, <2>3, <2>4
  <1>5. \/ UNCHANGED <<rw, claimCur, refCur>>
        \/ /\ o.exists /\ CanReadClaim(o.owner) /\ cl.exists
           /\ rw' = [pc |-> FirstOperation(o, cl), key |-> r, ref |-> o,
                     claim |-> cl, out |-> FirstOutcome(o, cl)]
           /\ refCur' = [refCur EXCEPT ![r] = IF "cache" \in @ THEN @ \cup {"refCtl"} ELSE @]
           /\ claimCur' = [claimCur EXCEPT ![o.owner] =
                             IF "cache" \in @ THEN @ \cup {"refCtl"} ELSE @]
    BY DEF StartReference, CanBuildAdapter
  <1> QED BY <1>3, <1>4, <1>5

\* The user.
LEMMA UserMoves ==
  ASSUME TypeInv, ClaimCopyInv, NEW c \in Claims,
         CreateClaim(c) \/ DeleteClaim(c) \/ EditClaim(c)
  PROVE  /\ UNCHANGED <<refObjs, caches, workers>>
         /\ \A d \in Claims : d # c => claim'[d] = claim[d] /\ claimCur'[d] = claimCur[d]
         /\ ClaimChangedByUser(c)
  <1>1. /\ claim \in [Claims -> ProjectClaim] /\ claimCur \in [Claims -> ClaimHolders]
        /\ claim[c] \in ProjectClaim
    BY ClaimObjects
  <1>2. UNCHANGED <<refObjs, caches, workers>> /\ UNCHANGED claimCache
    BY DEF CreateClaim, DeleteClaim, EditClaim, caches
  <1>3. CASE CreateClaim(c)
    <2>1. PICK v \in BOOLEAN :
             claim' = [claim EXCEPT ![c] = [NoClaim EXCEPT !.exists = TRUE, !.valid = v]]
      BY <1>3 DEF CreateClaim
    <2> DEFINE o == [NoClaim EXCEPT !.exists = TRUE, !.valid = v]
    <2>2. o.exists /\ ~o.deleting /\ ~o.finalizer /\ ~o.link /\ o.state = ""
      BY DEF NoClaim
    <2> HIDE DEF o
    <2>3. claim' = [claim EXCEPT ![c] = o] /\ claimCur' = [claimCur EXCEPT ![c] = {}]
          /\ ~claim[c].exists
      BY <1>3, <2>1 DEF CreateClaim, o
    <2> QED BY <1>1, <1>2, <2>2, <2>3 DEF ClaimChangedByUser
  <1>4. CASE EditClaim(c)
    <2> DEFINE o == [claim[c] EXCEPT !.valid = ~@]
    <2>1. SameClaim(o, claim[c]) /\ o.state = claim[c].state
      BY <1>1 DEF SameClaim, ProjectClaim
    <2>2. /\ claim' = [claim EXCEPT ![c] = o] /\ claimCur' = [claimCur EXCEPT ![c] = {}]
          /\ claim[c].exists
      BY <1>1, <1>4 DEF EditClaim
    <2> HIDE DEF o
    <2> QED BY <1>1, <1>2, <2>1, <2>2 DEF ClaimChangedByUser
  <1>5. CASE DeleteClaim(c)
    <2> DEFINE o == Deleted(claim[c], NoClaim)
    <2>1. /\ claim' = [claim EXCEPT ![c] = o] /\ claimCur' = [claimCur EXCEPT ![c] = {}]
          /\ claim[c].exists /\ ~claim[c].deleting
      BY <1>1, <1>5 DEF DeleteClaim
    <2>2. IF claim[c].finalizer
          THEN /\ o.exists = claim[c].exists /\ o.deleting /\ o.finalizer
               /\ o.link = claim[c].link /\ o.state = claim[c].state
          ELSE o = NoClaim
      BY <1>1 DEF Deleted, Collected, ProjectClaim
    <2> HIDE DEF o
    <2> QED BY <1>1, <1>2, <2>1, <2>2 DEF ClaimChangedByUser
  <1> QED BY <1>2, <1>3, <1>4, <1>5

-----------------------------------------------------------------------------
(* ClaimCopyInv is inductive.                                              *)

\* At first there are no claims.
LEMMA InitClaimCopy == Init => ClaimCopyInv
  <1> SUFFICES ASSUME Init PROVE ClaimCopyInv OBVIOUS
  <1>1. /\ \A c \in Claims : claim[c] = NoClaim /\ claimCache[c] = NoClaim /\ claimCur[c] = {"cache"}
        /\ cw = IdleClaimWorker /\ rw = IdleReferenceWorker
    BY DEF Init
  <1>2. /\ cw.pc = "idle" /\ rw.pc = "idle" /\ ~NoClaim.deleting
        /\ NoClaim.state # "PendingProject"
    BY <1>1 DEF IdleClaimWorker, IdleReferenceWorker, NoClaim
  <1>3. ClaimCopiesAgree
    BY <1>1, <1>2 DEF ClaimCopiesAgree, ClaimReadySteps
  <1>4. ClaimStepMatchesCopy
    BY <1>2 DEF ClaimStepMatchesCopy, DeletingClaimSteps
  <1>5. StatesMatch
    BY <1>1, <1>2 DEF StatesMatch
  <1> QED BY <1>3, <1>4, <1>5 DEF ClaimCopyInv

\* It depends on these variables only.
LEMMA ClaimCopyFrame ==
  ASSUME ClaimCopyInv, UNCHANGED <<claimObjs, claimCache, cw, rw>>
  PROVE  ClaimCopyInv'
  BY DEF ClaimCopyInv, ClaimCopiesAgree, ClaimStepMatchesCopy, StatesMatch, Current, claimObjs

\* The reference controller keeps it: a claim that it fills in is not one the
\* other worker can write any more.
LEMMA ReferenceStepClaimCopy ==
  ASSUME TypeInv, ClaimCopyInv, ReferenceStep
  PROVE  ClaimCopyInv'
  <1>1. /\ \A c \in Claims : ClaimKept(c) \/ ClaimFilled(c)
        /\ \A c \in Claims : rw'.pc \in ClaimReadySteps /\ c = rw.ref.owner => rw'.claim = claim'[c]
        /\ \A c \in Claims : rw'.pc = "idle" => "refCtl" \notin claimCur'[c]
    BY ReferenceStepClaims
  <1>2. cw' = cw
    <2>1. Claims # {} => cw' = cw
      BY ReferenceStepClaims
    <2>2. rw.ref.owner \in Claims
      BY ReferenceStepMoves, ReferenceParts
    <2> QED BY <2>1, <2>2
  <1>3. rw.pc # "idle" /\ (rw'.pc = "idle" \/ RefWorkerMoves)
    <2>1. FinishReference => rw'.pc = "idle"
      BY DEF FinishReference, IdleReferenceWorker
    <2> QED BY <2>1, ReferenceStepMoves
  <1>4. /\ \A c \in Claims : claimCur[c] \in ClaimHolders
        /\ cw.pc # "idle" => cw.key \in Claims
        /\ rw.ref.owner \in Claims
    BY <1>3, ClaimObjects, ReferenceParts
  <1>5. ClaimCopiesAgree'
    <2>1. ASSUME NEW c \in Claims
          PROVE  /\ "cache" \in claimCur'[c] => claimCache'[c] = claim'[c]
                 /\ "claimCtl" \in claimCur'[c] => cw'.pc # "idle" /\ cw'.key = c
                 /\ "refCtl" \in claimCur'[c] => rw'.pc # "idle" /\ rw'.ref.owner = c
                 /\ ~claim'[c].exists => claim'[c] = NoClaim
                 /\ claim'[c].deleting => claim'[c].finalizer
      BY <1>1, <1>2, <1>3 DEF ClaimCopyInv, ClaimCopiesAgree, ClaimKept, ClaimFilled,
                              SameClaim, RefWorkerMoves, Current
    <2>2. \A c \in Claims : "claimCtl" \in claimCur'[c] => claim'[c] = claim[c] /\ "claimCtl" \in claimCur[c]
      BY <1>1 DEF ClaimKept, ClaimFilled
    <2>3. cw'.pc \notin {"idle", "Condition"} /\ Current(claim'[cw'.key], claimCur'[cw'.key], "claimCtl") =>
            \/ cw'.obj = claim'[cw'.key]
            \/ /\ claim'[cw'.key].state = "Error"
               /\ cw'.obj = [claim'[cw'.key] EXCEPT !.state = "Pending"]
      BY <1>2, <1>4, <2>2 DEF ClaimCopyInv, ClaimCopiesAgree, Current
    <2>4. rw'.pc \in ClaimReadySteps => rw'.claim = claim'[rw'.ref.owner]
      <3>1. rw'.pc \in ClaimReadySteps => rw'.ref.owner = rw.ref.owner
        BY <1>3 DEF RefWorkerMoves, ClaimReadySteps
      <3> QED BY <1>1, <1>4, <3>1
    <2> QED BY <2>1, <2>3, <2>4 DEF ClaimCopiesAgree
  <1>6. ClaimStepMatchesCopy'
    BY <1>2 DEF ClaimCopyInv, ClaimStepMatchesCopy
  <1>7. StatesMatch'
    <2>1. ASSUME NEW c \in Claims
          PROVE  /\ claim'[c].state = "PendingProject" => claim'[c].finalizer
                 /\ claimCache'[c].state = "PendingProject" => claimCache'[c].finalizer
      BY <1>1 DEF ClaimCopyInv, StatesMatch, ClaimKept, ClaimFilled, SameClaim
    <2>2. \A c \in Claims : "claimCtl" \in claimCur'[c] => claim'[c] = claim[c] /\ "claimCtl" \in claimCur[c]
      BY <1>1 DEF ClaimKept, ClaimFilled
    <2>3. cw'.pc = "Condition" /\ Current(claim'[cw'.key], claimCur'[cw'.key], "claimCtl") =>
            /\ cw'.obj.state = "PendingProject" => claim'[cw'.key].finalizer
            /\ claim'[cw'.key].state = "Ready" => cw'.obj.state \in {"Ready", "Error"}
      BY <1>2, <1>4, <2>2 DEF ClaimCopyInv, StatesMatch, Current
    <2> QED BY <2>1, <2>3 DEF StatesMatch
  <1> QED BY <1>5, <1>6, <1>7 DEF ClaimCopyInv

\* What the worker has when it holds the stored version: the fields of the
\* claim, and its state unless that is Error.
LEMMA CurrentCopy ==
  ASSUME TypeInv, ClaimCopyInv, cw.pc \notin {"idle", "Condition"},
         Current(claim[cw.key], claimCur[cw.key], "claimCtl")
  PROVE  /\ cw.key \in Claims /\ SameClaim(cw.obj, claim[cw.key])
         /\ \/ cw.obj.state = claim[cw.key].state
            \/ claim[cw.key].state = "Error" /\ cw.obj.state = "Pending"
  <1>1. cw.key \in Claims /\ claim[cw.key] \in ProjectClaim
    BY ClaimObjects
  <1>2. CASE cw.obj = claim[cw.key]
    BY <1>1, <1>2 DEF SameClaim
  <1>3. CASE /\ claim[cw.key].state = "Error"
             /\ cw.obj = [claim[cw.key] EXCEPT !.state = "Pending"]
    BY <1>1, <1>3 DEF SameClaim, ProjectClaim
  <1> QED BY <1>2, <1>3 DEF ClaimCopyInv, ClaimCopiesAgree

\* The claim controller keeps it.
LEMMA ClaimStepClaimCopy ==
  ASSUME TypeInv, ClaimCopyInv, ClaimStep
  PROVE  ClaimCopyInv'
  <1> DEFINE k == cw.key
             Now == Current(claim[k], claimCur[k], "claimCtl")
  <1>1. /\ ClaimWorkerMoves \/ ClaimWorkerRests
        /\ \A c \in Claims : ClaimKept(c) \/ ClaimStored(c)
        /\ UNCHANGED <<claimCache, rw>>
    BY ClaimStepMoves DEF caches
  <1>2. /\ \A c \in Claims : claimCur[c] \in ClaimHolders /\ claim[c] \in ProjectClaim
        /\ k \in Claims /\ rw.pc # "idle" => rw.ref.owner \in Claims
        /\ k \in Claims
    BY <1>1, ClaimObjects, ReferenceParts DEF ClaimWorkerMoves, ClaimWorkerRests
  <1>3. ASSUME NEW c \in Claims
        PROVE  /\ "cache" \in claimCur'[c] => claimCache'[c] = claim'[c]
               /\ "refCtl" \in claimCur'[c] => /\ rw'.pc # "idle" /\ rw'.ref.owner = c
                                               /\ claim'[c] = claim[c] /\ "refCtl" \in claimCur[c]
               /\ ~claim'[c].exists => claim'[c] = NoClaim
               /\ claim'[c].deleting => claim'[c].finalizer
    <2>1. ~NoClaim.deleting
      BY DEF NoClaim
    <2> QED BY <1>1, <2>1 DEF ClaimCopyInv, ClaimCopiesAgree, ClaimKept, ClaimStored, SameClaim, Current
  <1>4. \A c \in Claims : "claimCtl" \in claimCur'[c] => cw'.pc # "idle" /\ cw'.key = c
    BY <1>1 DEF ClaimCopyInv, ClaimCopiesAgree, ClaimKept, ClaimStored, ClaimWorkerMoves,
                ClaimWorkerRests
  <1>5. rw'.pc \in ClaimReadySteps /\ Current(claim'[rw'.ref.owner], claimCur'[rw'.ref.owner], "refCtl") =>
          rw'.claim = claim'[rw'.ref.owner]
    BY <1>1, <1>2, <1>3 DEF ClaimCopyInv, ClaimCopiesAgree, Current, ClaimReadySteps
  <1>6. cw'.pc \notin {"idle", "Condition"} /\ Current(claim'[cw'.key], claimCur'[cw'.key], "claimCtl") =>
          \/ cw'.obj = claim'[cw'.key]
          \/ /\ claim'[cw'.key].state = "Error"
             /\ cw'.obj = [claim'[cw'.key] EXCEPT !.state = "Pending"]
    <2> SUFFICES ASSUME cw'.pc \notin {"idle", "Condition"},
                        Current(claim'[cw'.key], claimCur'[cw'.key], "claimCtl")
                 PROVE  \/ cw'.obj = claim'[cw'.key]
                        \/ /\ claim'[cw'.key].state = "Error"
                           /\ cw'.obj = [claim'[cw'.key] EXCEPT !.state = "Pending"]
      OBVIOUS
    <2>1. /\ cw.pc \notin {"idle", "Condition"} /\ cw'.key = k /\ UNCHANGED claimObjs
          /\ \/ cw'.obj = cw.obj
             \/ cw.obj.state = "Error" /\ cw'.obj = [cw.obj EXCEPT !.state = "Pending"]
      BY <1>1 DEF ClaimWorkerMoves, ClaimWorkerRests
    <2>2. Now
      BY <2>1 DEF claimObjs
    <2>3. \/ cw.obj = claim[k]
          \/ claim[k].state = "Error" /\ cw.obj = [claim[k] EXCEPT !.state = "Pending"]
      BY <2>1, <2>2 DEF ClaimCopyInv, ClaimCopiesAgree
    <2>4. [claim[k] EXCEPT !.state = "Pending"].state # "Error"
      BY <1>2 DEF ProjectClaim
    <2> QED BY <2>1, <2>3, <2>4 DEF claimObjs
  <1>7. ClaimCopiesAgree'
    BY <1>3, <1>4, <1>5, <1>6 DEF ClaimCopiesAgree
  <1>8. ClaimStepMatchesCopy'
    BY <1>1 DEF ClaimWorkerMoves, ClaimWorkerRests, ClaimStepMatchesCopy, DeletingClaimSteps
  <1>9. Now =>
          /\ SameClaim(claim'[k], claim[k]) /\ cw'.pc = "idle" /\ claim'[k].state = "PendingProject" =>
                claim'[k].finalizer
          /\ cw'.pc = "Condition" =>
               /\ cw'.obj.state = "PendingProject" => claim[k].finalizer
               /\ claim[k].state = "Ready" => cw'.obj.state \in {"Ready", "Error"}
    <2> SUFFICES ASSUME Now
                 PROVE  /\ SameClaim(claim'[k], claim[k]) /\ cw'.pc = "idle" /\ claim'[k].state = "PendingProject" =>
                              claim'[k].finalizer
                        /\ cw'.pc = "Condition" =>
                             /\ cw'.obj.state = "PendingProject" => claim[k].finalizer
                             /\ claim[k].state = "Ready" => cw'.obj.state \in {"Ready", "Error"}
      OBVIOUS
    <2>1. CASE cw'.pc = "Condition"
      <3>1. EditedState(cw'.obj.state) /\ cw.pc \notin {"idle", "Condition"}
        BY <1>1, <2>1 DEF ClaimWorkerMoves, ClaimWorkerRests
      <3>2. /\ SameClaim(cw.obj, claim[k])
            /\ \/ cw.obj.state = claim[k].state
               \/ claim[k].state = "Error" /\ cw.obj.state = "Pending"
        BY <3>1, CurrentCopy, Zenon
      <3> QED BY <1>2, <2>1, <3>1, <3>2
              DEF EditedState, SameClaim, ClaimCopyInv, StatesMatch
    <2>2. CASE cw'.pc = "idle"
      <3>1. ClaimKept(k) \/ (ClaimStored(k) /\ (SameClaim(claim'[k], claim[k]) =>
               cw.pc = "Condition" /\ claim'[k].state = cw.obj.state))
        BY <1>1, <1>2, <2>2 DEF ClaimStored
      <3> QED BY <1>2, <2>2, <3>1 DEF ClaimKept, SameClaim, ClaimCopyInv, StatesMatch
    <2> QED BY <2>1, <2>2
  <1>10. \A c \in Claims : /\ claim'[c].state = "PendingProject" => claim'[c].finalizer
                           /\ claimCache'[c].state = "PendingProject" => claimCache'[c].finalizer
    <2> SUFFICES ASSUME NEW c \in Claims
                 PROVE  claim'[c].state = "PendingProject" => claim'[c].finalizer
      BY <1>1 DEF ClaimCopyInv, StatesMatch
    <2>1. CASE ClaimKept(c)
      BY <2>1 DEF ClaimKept, ClaimCopyInv, StatesMatch
    <2>2. CASE ClaimStored(c)
      <3>1. NoClaim.state # "PendingProject"
        BY DEF NoClaim
      <3>2. Now /\ c = k
        BY <2>2 DEF ClaimStored
      <3>3. claim[c].state = "PendingProject" => claim[c].finalizer
        BY DEF ClaimCopyInv, StatesMatch
      <3> HIDE DEF Now
      <3> QED BY <1>9, <2>2, <3>1, <3>2, <3>3 DEF ClaimStored, SameClaim
    <2> QED BY <1>1, <2>1, <2>2
  <1>11. cw'.pc = "Condition" /\ Current(claim'[cw'.key], claimCur'[cw'.key], "claimCtl") =>
           /\ cw'.obj.state = "PendingProject" => claim'[cw'.key].finalizer
           /\ claim'[cw'.key].state = "Ready" => cw'.obj.state \in {"Ready", "Error"}
    <2> SUFFICES ASSUME cw'.pc = "Condition",
                        Current(claim'[cw'.key], claimCur'[cw'.key], "claimCtl")
                 PROVE  /\ cw'.obj.state = "PendingProject" => claim'[cw'.key].finalizer
                        /\ claim'[cw'.key].state = "Ready" => cw'.obj.state \in {"Ready", "Error"}
      OBVIOUS
    <2>1. cw'.key = k
      BY <1>1 DEF ClaimWorkerMoves, ClaimWorkerRests
    <2>2. CASE ClaimKept(k)
      BY <1>9, <2>1, <2>2 DEF ClaimKept, Current
    <2>3. CASE ClaimStored(k)
      <3>1. ~NoClaim.exists
        BY DEF NoClaim
      <3>2. claim'[k].exists
        BY <2>1 DEF Current
      <3>3. Now
        BY <2>3 DEF ClaimStored
      <3> HIDE DEF Now
      <3> QED BY <1>9, <2>1, <2>3, <3>1, <3>2, <3>3 DEF ClaimStored, SameClaim
    <2> QED BY <1>1, <1>2, <2>2, <2>3
  <1>12. StatesMatch'
    BY <1>10, <1>11 DEF StatesMatch
  <1> QED BY <1>7, <1>8, <1>12 DEF ClaimCopyInv

\* The beginnings of reconciles keep it: the copy is that of the cache.
LEMMA StartsClaimCopy ==
  ASSUME TypeInv, ClaimCopyInv,
         (\E c \in Claims : StartClaim(c)) \/ (\E r \in Refs : StartReference(r))
  PROVE  ClaimCopyInv'
  <1>1. /\ \A c \in Claims : claimCur[c] \in ClaimHolders
        /\ cw.pc # "idle" => cw.key \in Claims
        /\ rw.pc # "idle" => rw.ref.owner \in Claims
    BY ClaimObjects, ReferenceParts
  <1>2. ASSUME NEW c \in Claims, StartClaim(c)
        PROVE  ClaimCopyInv'
    <2>1. /\ UNCHANGED <<claim, claimCache, rw>>
          /\ \A d \in Claims : d # c => claimCur'[d] = claimCur[d]
          /\ \/ UNCHANGED cw /\ claimCur'[c] = claimCur[c]
             \/ ClaimWorkerStarts(c) /\ (claimCur'[c] = claimCur[c] \/ ClaimRead(c, "claimCtl"))
      BY <1>2, StartClaimMoves DEF caches
    <2>2. ClaimCopiesAgree'
      BY <1>1, <2>1 DEF ClaimCopyInv, ClaimCopiesAgree, ClaimWorkerStarts, ClaimRead, Current,
                        ClaimReadySteps
    <2>3. ClaimStepMatchesCopy'
      BY <2>1 DEF ClaimCopyInv, ClaimStepMatchesCopy, ClaimWorkerStarts
    <2>4. StatesMatch'
      BY <1>1, <2>1 DEF ClaimCopyInv, StatesMatch, ClaimWorkerStarts, ClaimRead, Current
    <2> QED BY <2>2, <2>3, <2>4 DEF ClaimCopyInv
  <1>3. ASSUME NEW r \in Refs, StartReference(r)
        PROVE  ClaimCopyInv'
    <2>1. /\ UNCHANGED <<claim, claimCache, cw>>
          /\ \/ UNCHANGED <<rw, claimCur>>
             \/ /\ RefWorkerStarts(r)
                /\ \A c \in Claims :
                     \/ claimCur'[c] = claimCur[c]
                     \/ c = refCache[r].owner /\ ClaimRead(c, "refCtl")
      BY <1>3, StartReferenceMoves DEF caches
    <2>2. CASE UNCHANGED <<rw, claimCur>>
      BY <2>1, <2>2, ClaimCopyFrame DEF claimObjs
    <2>3. CASE /\ RefWorkerStarts(r)
               /\ \A c \in Claims :
                    \/ claimCur'[c] = claimCur[c]
                    \/ c = refCache[r].owner /\ ClaimRead(c, "refCtl")
      <3>1. /\ rw.pc = "idle" /\ refCache[r].owner \in Claims
            /\ rw'.ref.owner = refCache[r].owner /\ rw'.claim = claimCache[refCache[r].owner]
            /\ rw'.pc # "idle"
        BY <2>3 DEF RefWorkerStarts, FirstOperation, SetUpOperation, ClaimReadyOperation,
                    AfterFinalizerAdded, TypeInv, KeysOK
      <3>2. \A c \in Claims :
              /\ "claimCtl" \in claimCur'[c] <=> "claimCtl" \in claimCur[c]
              /\ "cache" \in claimCur'[c] <=> "cache" \in claimCur[c]
              /\ "refCtl" \in claimCur'[c] => c = refCache[r].owner /\ "cache" \in claimCur[c]
        BY <1>1, <2>3, <3>1 DEF ClaimRead, ClaimCopyInv, ClaimCopiesAgree
      <3>3. ClaimCopiesAgree'
        BY <1>1, <2>1, <3>1, <3>2 DEF ClaimCopyInv, ClaimCopiesAgree, Current
      <3>4. ClaimStepMatchesCopy'
        BY <2>1 DEF ClaimCopyInv, ClaimStepMatchesCopy
      <3>5. StatesMatch'
        BY <1>1, <2>1, <3>2 DEF ClaimCopyInv, StatesMatch, Current
      <3> QED BY <3>3, <3>4, <3>5 DEF ClaimCopyInv
    <2> QED BY <2>1, <2>2, <2>3
  <1> QED BY <1>2, <1>3

\* The informers, restarts and users keep it.
LEMMA OutsideClaimCopy ==
  ASSUME TypeInv, ClaimCopyInv,
         \/ \E c \in Claims : SyncClaim(c) \/ CreateClaim(c) \/ DeleteClaim(c) \/ EditClaim(c)
         \/ Crash
  PROVE  ClaimCopyInv'
  <1>1. /\ \A c \in Claims : claimCur[c] \in ClaimHolders /\ claim[c] \in ProjectClaim
        /\ cw.pc # "idle" => cw.key \in Claims
        /\ rw.pc # "idle" => rw.ref.owner \in Claims
        /\ claim \in [Claims -> ProjectClaim] /\ claimCache \in [Claims -> ProjectClaim]
        /\ claimCur \in [Claims -> ClaimHolders]
    BY ClaimObjects, ReferenceParts
  <1>2. ASSUME NEW c \in Claims, SyncClaim(c)
        PROVE  ClaimCopyInv'
    <2>1. /\ claim' = claim /\ cw' = cw /\ rw' = rw
          /\ \A d \in Claims : d # c => claimCur'[d] = claimCur[d] /\ claimCache'[d] = claimCache[d]
          /\ claimCur'[c] = claimCur[c] \cup {"cache"} /\ claimCache'[c] = claim[c]
      BY <1>1, <1>2 DEF SyncClaim, workers
    <2>2. ClaimCopiesAgree'
      BY <1>1, <2>1 DEF ClaimCopyInv, ClaimCopiesAgree, Current, ClaimReadySteps
    <2>3. ClaimStepMatchesCopy'
      BY <2>1 DEF ClaimCopyInv, ClaimStepMatchesCopy
    <2>4. StatesMatch'
      BY <1>1, <2>1 DEF ClaimCopyInv, StatesMatch, Current
    <2> QED BY <2>2, <2>3, <2>4 DEF ClaimCopyInv
  <1>3. ASSUME NEW c \in Claims, CreateClaim(c) \/ DeleteClaim(c) \/ EditClaim(c)
        PROVE  ClaimCopyInv'
    <2>1. /\ cw' = cw /\ rw' = rw /\ claimCache' = claimCache
          /\ \A d \in Claims : d # c => claim'[d] = claim[d] /\ claimCur'[d] = claimCur[d]
          /\ ClaimChangedByUser(c)
      BY <1>3, UserMoves DEF workers, caches
    <2>2. ~NoClaim.deleting /\ NoClaim.state # "PendingProject"
      BY DEF NoClaim
    <2>3. ASSUME NEW d \in Claims
          PROVE  /\ claimCur'[d] \subseteq claimCur[d]
                 /\ claim'[d] = claim[d] \/ claimCur'[d] = {}
                 /\ ~claim'[d].exists => claim'[d] = NoClaim
                 /\ claim'[d].deleting => claim'[d].finalizer
                 /\ claim'[d].state = "PendingProject" => claim'[d].finalizer
      <3>1. CASE d # c
        BY <2>1, <3>1 DEF ClaimCopyInv, ClaimCopiesAgree, StatesMatch
      <3>2. /\ claim[d].deleting => claim[d].finalizer
            /\ claim[d].state = "PendingProject" => claim[d].finalizer
        BY DEF ClaimCopyInv, ClaimCopiesAgree, StatesMatch
      <3>3. CASE d = c
        BY <2>1, <2>2, <3>2, <3>3 DEF ClaimChangedByUser, SameClaim
      <3> QED BY <3>1, <3>3
    <2>4. ClaimCopiesAgree'
      BY <1>1, <2>1, <2>3 DEF ClaimCopyInv, ClaimCopiesAgree, Current, ClaimReadySteps
    <2>5. ClaimStepMatchesCopy'
      BY <2>1 DEF ClaimCopyInv, ClaimStepMatchesCopy
    <2>6. StatesMatch'
      BY <1>1, <2>1, <2>3 DEF ClaimCopyInv, StatesMatch, Current
    <2> QED BY <2>4, <2>5, <2>6 DEF ClaimCopyInv
  <1>4. CASE Crash
    <2>1. /\ claim' = claim /\ claimCache' = claim /\ cw'.pc = "idle" /\ rw'.pc = "idle"
          /\ \A c \in Claims : claimCur'[c] = {"cache"}
      BY <1>4 DEF Crash, IdleClaimWorker, IdleReferenceWorker
    <2>2. ClaimCopiesAgree'
      BY <2>1 DEF ClaimCopyInv, ClaimCopiesAgree, ClaimReadySteps
    <2>3. ClaimStepMatchesCopy'
      BY <2>1 DEF ClaimStepMatchesCopy, DeletingClaimSteps
    <2>4. StatesMatch'
      BY <2>1 DEF ClaimCopyInv, StatesMatch
    <2> QED BY <2>2, <2>3, <2>4 DEF ClaimCopyInv
  <1> QED BY <1>2, <1>3, <1>4

\* The steps that have nothing to do with claims and workers.
LEMMA OtherSteps ==
  ASSUME \/ \E c \in Claims : SyncSecret(c) \/ SetRegion(c) \/ SetCCSSecret(c)
         \/ \E id \in ProjectIDs : AdminDeletesProject(id)
         \/ Resync \/ Stabilise \/ UNCHANGED vars
  PROVE  UNCHANGED <<claimObjs, claimCache, refObjs, refCache, workers>>
  BY DEF SyncSecret, SetRegion, SetCCSSecret, AdminDeletesProject, Resync, Stabilise, vars, caches

\* ClaimCopyInv is inductive relative to TypeInv.
LEMMA ClaimCopyInductive == TypeInv /\ ClaimCopyInv /\ [Next]_vars => ClaimCopyInv'
  <1> SUFFICES ASSUME TypeInv, ClaimCopyInv, [Next]_vars PROVE ClaimCopyInv' OBVIOUS
  <1>1. CASE ClaimStep
    BY <1>1, ClaimStepClaimCopy
  <1>2. CASE ReferenceStep
    BY <1>2, ReferenceStepClaimCopy
  <1>3. CASE Manager
    <2>1. ASSUME NEW r \in Refs, SyncRef(r)
          PROVE  UNCHANGED <<claimObjs, claimCache, workers>>
      BY <2>1 DEF SyncRef
    <2> QED BY <1>3, <2>1, StartsClaimCopy, OutsideClaimCopy, OtherSteps, ClaimCopyFrame
            DEF Manager, workers
  <1>4. CASE Environment
    <2>1. ASSUME NEW r \in Refs, AdminDeletesReference(r)
          PROVE  UNCHANGED <<claimObjs, claimCache, workers>>
      BY <2>1 DEF AdminDeletesReference, caches
    <2> QED BY <1>4, <2>1, OutsideClaimCopy, OtherSteps, ClaimCopyFrame DEF Environment, workers
  <1>5. CASE UNCHANGED vars
    BY <1>5, OtherSteps, ClaimCopyFrame DEF workers
  <1> QED BY <1>1, <1>2, <1>3, <1>4, <1>5 DEF Next

\* In every reachable state, whatever fails or lags: a worker that holds the
\* stored version of a claim has it as it is stored, but for a state Error that
\* EnsureRegionSupported has edited, and acts on what this version allows.
THEOREM ClaimCopies == Spec => []ClaimCopyInv
  BY InitTypeInv, TypeInvInductive, InitClaimCopy, ClaimCopyInductive, PTL DEF Spec

\* One step keeps a Ready claim Ready, unless it takes it to Error.
LEMMA ReadyStep ==
  ASSUME TypeInv, ClaimCopyInv, Next, NEW c \in Claims,
         claim[c].state = "Ready", claim'[c].exists
  PROVE  claim'[c].state \in {"Ready", "Error"}
  <1>1. ~NoClaim.exists
    BY DEF NoClaim
  <1>2. claim[c].exists
    <2>1. NoClaim.state # "Ready"
      BY DEF NoClaim
    <2> QED BY <2>1 DEF ClaimCopyInv, ClaimCopiesAgree
  <1>3. CASE ClaimStep
    <2>1. ClaimKept(c) \/ ClaimStored(c)
      BY <1>3, ClaimStepMoves
    <2>2. CASE ClaimStored(c)
      <3>1. /\ cw.key = c /\ cw.pc # "idle" /\ Current(claim[c], claimCur[c], "claimCtl")
            /\ claim'[c] # NoClaim
        BY <1>1, <2>2 DEF ClaimStored
      <3>2. CASE cw'.pc = "idle"
        <4>1. cw.pc = "Condition" /\ claim'[c].state = cw.obj.state
          BY <2>2, <3>1, <3>2 DEF ClaimStored
        <4> QED BY <3>1, <4>1 DEF ClaimCopyInv, StatesMatch
      <3>3. CASE cw'.pc = "Condition"
        <4>1. EditedState(cw'.obj.state) /\ cw.pc \notin {"idle", "Condition"}
          BY <1>3, <3>3, ClaimStepMoves DEF ClaimWorkerMoves, ClaimWorkerRests
        <4>2. cw.obj.state = "Ready"
          BY <3>1, <4>1, CurrentCopy
        <4>3. cw'.obj.state \in {"Ready", "Error"}
          BY <3>1, <4>1, <4>2 DEF EditedState
        <4> QED BY <2>2, <3>1, <3>3, <4>3 DEF ClaimStored
      <3> QED BY <2>2, <3>2, <3>3 DEF ClaimStored
    <2> QED BY <2>1, <2>2 DEF ClaimKept
  <1>4. CASE ReferenceStep
    BY <1>4, ReferenceStepClaims DEF ClaimKept, ClaimFilled
  <1>5. ASSUME NEW d \in Claims, CreateClaim(d) \/ DeleteClaim(d) \/ EditClaim(d)
        PROVE  claim'[c].state \in {"Ready", "Error"}
    BY <1>1, <1>2, <1>5, UserMoves DEF ClaimChangedByUser
  <1>6. CASE Manager
    <2>1. claim' = claim
      BY <1>6 DEF Manager, StartClaim, SyncClaim, SyncSecret, StartReference, SyncRef, Resync,
                  Crash, claimObjs
    <2> QED BY <2>1
  <1>7. ASSUME NEW r \in Refs, AdminDeletesReference(r)
        PROVE  claim' = claim
    BY <1>7 DEF AdminDeletesReference, claimObjs
  <1> QED BY <1>3, <1>4, <1>5, <1>6, <1>7, OtherSteps DEF Next, Environment, claimObjs

\* A claim that is Ready leaves that state only for Error, or with the claim:
\* whatever the two workers read before, however far the caches are behind and
\* whichever write fails or is lost, no write takes it back to an earlier state.
THEOREM ReadyClaimsStayReady == Spec => ReadyIsKept
  <1> DEFINE Keeps == \A c \in Claims : claim[c].state = "Ready" /\ claim'[c].exists =>
                        claim'[c].state \in {"Ready", "Error"}
  <1>1. TypeInv /\ ClaimCopyInv /\ [Next]_vars => [Keeps]_vars
    BY ReadyStep
  <1>2. Spec => []TypeInv
    BY KeysCorrect
  <1>3. Spec => []ClaimCopyInv
    BY ClaimCopies
  <1> QED BY <1>1, <1>2, <1>3, PTL DEF Spec, ReadyIsKept

-----------------------------------------------------------------------------
(* What a step can do to a reference.                                      *)

\* The reference stays, and holders of its version may go.
RefKept(r) == ref'[r] = ref[r] /\ refCur'[r] \subseteq refCur[r]

\* Two references agree on what decides whether they stay and whose they are.
SameRef(o, p) ==
  /\ o.exists = p.exists /\ o.deleting = p.deleting
  /\ o.finalizer = p.finalizer /\ o.owner = p.owner

\* The worker writes its reference and is done with its chain.
RefWritten(r) ==
  /\ r = rw.key /\ rw.pc # "idle" /\ Current(ref[r], refCur[r], "refCtl")
  /\ rw'.pc \in {"idle", "Condition"} /\ refCur'[r] \subseteq {"refCtl"}
  /\ \/ SameRef(ref'[r], ref[r])
     \/ /\ rw.pc = "FinalizerAdded" /\ ref'[r].exists /\ ~ref'[r].deleting
        /\ ref'[r].finalizer /\ ref'[r].owner = ref[r].owner
        /\ ref[r].owner = rw.ref.owner
     \/ rw.pc = "FinalizerDeleted" /\ ref[r].deleting /\ ref'[r] = NoRef

\* client.Delete, by the ProjectClaim controller or by hand.
RefDeleted(r) ==
  /\ ref[r].exists
  /\ ref'[r] = Deleted(ref[r], NoRef)
  /\ refCur'[r] = {} \/ (ref[r].deleting /\ refCur'[r] = refCur[r])

\* EnsureProjectReferenceExists.
RefCreated(r) ==
  /\ cw.pc = "ReferenceExists" /\ r = RefName(cw.key)
  /\ ~ref[r].exists /\ ~refCache[r].exists
  /\ ref'[r] = NewMatchingProjectReference(cw.key) /\ refCur'[r] = {}

\* The write of the worker's reference leaves it alone or stores new.
RefStores(new) ==
  /\ \A s \in Refs : s # rw.key => ref'[s] = ref[s] /\ refCur'[s] = refCur[s]
  /\ \/ ref'[rw.key] = ref[rw.key] /\ refCur'[rw.key] \subseteq refCur[rw.key]
     \/ /\ Current(ref[rw.key], refCur[rw.key], "refCtl")
        /\ ref'[rw.key] = new /\ refCur'[rw.key] \subseteq {"refCtl"}

\* So does what the API server answers to it.
LEMMA RefReplyStores ==
  ASSUME TypeInv, rw.pc # "idle", NEW new, NEW t \in BOOLEAN,
         NEW w \in Replies("refCtl", ref[rw.key], refCur[rw.key], new, t),
         ref' = [ref EXCEPT ![rw.key] = w.obj],
         \/ refCur' = [refCur EXCEPT ![rw.key] = w.cur]
         \/ refCur' = [refCur EXCEPT ![rw.key] = w.cur \ {"refCtl"}]
  PROVE  RefStores(new)
  <1> DEFINE r == rw.key
  <1>1. ref \in [Refs -> ProjectReference] /\ refCur \in [Refs -> RefHolders] /\ r \in Refs
    BY ReferenceParts
  <1>2. \/ w.obj = ref[r] /\ w.cur = refCur[r]
        \/ Current(ref[r], refCur[r], "refCtl") /\ w.obj = new /\ w.cur \subseteq {"refCtl"}
    BY RepliesFacts
  <1>3. ref'[r] = w.obj /\ (refCur'[r] = w.cur \/ refCur'[r] = w.cur \ {"refCtl"})
    BY <1>1
  <1> QED BY <1>1, <1>2, <1>3 DEF RefStores

\* client.Update and client.Status().Update of a reference.
LEMMA UpdateRefStores ==
  ASSUME TypeInv, rw.pc # "idle", NEW o, NEW t \in BOOLEAN, NEW ok
  PROVE  /\ UpdateRef(rw.key, o, ok) => RefStores(RefUpdate(o, ref[rw.key]))
         /\ UpdateRefStatus(rw.key, o, t, ok) => RefStores(RefStatusUpdate(o, ref[rw.key]))
  <1>1. ASSUME UpdateRef(rw.key, o, ok)
        PROVE  RefStores(RefUpdate(o, ref[rw.key]))
    <2> DEFINE new == RefUpdate(o, ref[rw.key])
    <2>1. PICK w \in Replies("refCtl", ref[rw.key], refCur[rw.key], new, FALSE) :
             /\ ref' = [ref EXCEPT ![rw.key] = w.obj]
             /\ refCur' = [refCur EXCEPT ![rw.key] = w.cur]
      BY <1>1 DEF UpdateRef
    <2> HIDE DEF new
    <2>2. RefStores(new)
      BY <2>1, RefReplyStores
    <2> QED BY <2>2 DEF new
  <1>2. ASSUME UpdateRefStatus(rw.key, o, t, ok)
        PROVE  RefStores(RefStatusUpdate(o, ref[rw.key]))
    <2> DEFINE new == RefStatusUpdate(o, ref[rw.key])
    <2>1. PICK w \in Replies("refCtl", ref[rw.key], refCur[rw.key], new, t) :
             /\ ref' = [ref EXCEPT ![rw.key] = w.obj]
             /\ refCur' = [refCur EXCEPT ![rw.key] = w.cur]
      BY <1>2 DEF UpdateRefStatus
    <2> HIDE DEF new
    <2>2. RefStores(new)
      BY <2>1, RefReplyStores
    <2> QED BY <2>2 DEF new
  <1> QED BY <1>1, <1>2

\* What client.Update stores for a reference.
LEMMA RefUpdateFields ==
  ASSUME NEW o \in ProjectReference, NEW old \in ProjectReference
  PROVE  /\ ~(o.deleting /\ ~o.finalizer) => SameRef(RefUpdate(o, old), o)
         /\ o.deleting /\ ~o.finalizer => RefUpdate(o, old) = NoRef
  BY DEF RefUpdate, Collected, ProjectReference, SameRef

\* The writes of the status.
LEMMA StatusWritesKeep ==
  ASSUME TypeInv, rw.pc # "idle", NEW o, RefStores(RefStatusUpdate(o, ref[rw.key])),
         rw'.pc \in {"idle", "Condition"}, NEW r \in Refs
  PROVE  RefKept(r) \/ RefWritten(r)
  <1> DEFINE new == RefStatusUpdate(o, ref[rw.key])
  <1>1. rw.key \in Refs /\ ref[rw.key] \in ProjectReference
    BY ReferenceParts
  <1>2. SameRef(new, ref[rw.key])
    BY <1>1 DEF RefStatusUpdate, ProjectReference, SameRef
  <1> HIDE DEF new
  <1>3. RefStores(new)
    BY DEF new
  <1> QED BY <1>1, <1>2, <1>3 DEF RefStores, RefKept, RefWritten

\* The writes of the spec and of the finalizers.
LEMMA SpecWritesKeep ==
  ASSUME TypeInv, ReferenceCopyInv, rw.pc \notin {"idle", "Condition"},
         NEW o \in ProjectReference, RefStores(RefUpdate(o, ref[rw.key])),
         rw'.pc = "Condition", NEW r \in Refs,
         \/ SameRef(o, rw.ref)
         \/ /\ rw.pc = "FinalizerAdded" /\ o.finalizer /\ o.exists = rw.ref.exists
            /\ ~o.deleting /\ o.owner = rw.ref.owner
         \/ /\ rw.pc = "FinalizerDeleted" /\ ~o.finalizer /\ o.deleting /\ rw.ref.deleting
  PROVE  RefKept(r) \/ RefWritten(r)
  <1> DEFINE old == ref[rw.key]
             new == RefUpdate(o, old)
  <1>1. rw.key \in Refs /\ old \in ProjectReference
    BY ReferenceParts
  <1>2. Current(old, refCur[rw.key], "refCtl") =>
          rw.ref = old /\ old.exists /\ (old.deleting => old.finalizer)
    BY <1>1 DEF ReferenceCopyInv, CopiesAgree, Current
  <1>3. /\ ~(o.deleting /\ ~o.finalizer) => SameRef(new, o)
        /\ o.deleting /\ ~o.finalizer => new = NoRef
    BY <1>1, RefUpdateFields
  <1> HIDE DEF new
  <1>4. RefStores(new)
    BY DEF new
  <1>5. CASE r # rw.key
    BY <1>4, <1>5 DEF RefStores, RefKept
  <1>6. CASE r = rw.key /\ ref'[r] = old /\ refCur'[r] \subseteq refCur[r]
    BY <1>6 DEF RefKept
  <1>7. CASE /\ r = rw.key /\ Current(old, refCur[r], "refCtl")
             /\ ref'[r] = new /\ refCur'[r] \subseteq {"refCtl"}
    <2>1. \/ SameRef(new, old)
          \/ /\ rw.pc = "FinalizerAdded" /\ new.exists /\ ~new.deleting
             /\ new.finalizer /\ new.owner = old.owner /\ old.owner = rw.ref.owner
          \/ rw.pc = "FinalizerDeleted" /\ old.deleting /\ new = NoRef
      BY <1>2, <1>3, <1>7 DEF SameRef
    <2> QED BY <1>7, <2>1 DEF RefWritten
  <1> QED BY <1>1, <1>4, <1>5, <1>6, <1>7 DEF RefStores

\* What a step of the reference controller does to a reference.
LEMMA ReferenceStepRefs ==
  ASSUME TypeInv, ReferenceCopyInv, ReferenceStep, NEW r \in Refs
  PROVE  /\ RefKept(r) \/ RefWritten(r)
         /\ rw'.pc = "idle" => "refCtl" \notin refCur'[r]
         /\ UNCHANGED <<refCache, cw>>
  <1>1. UNCHANGED <<refCache, cw>>
    BY DEF ReferenceStep, EnsureProjectReferenceInitialized,
           EnsureProjectReferenceStatusCreating, EnsureServiceAccountName,
           EnsureFinalizerAdded, EnsureStateReady, ProjectInactive, ClearProjectID,
           EnsureFinalizerDeleted, EnsureProjectID, HandleAvailabilityZonesError,
           EnsureClaimAvailabilityZonesSet, EnsureClaimProjectIDSet, EnsureProjectClaimReady,
           DeletePolicy, DeleteServiceAccount, DeleteProject, DeleteConsoleAccess,
           DeleteCredentials, ListProjectsFails, ProjectFound, ProjectMissing,
           ConfigureBillingAPI, ConfigureAPIS, ConfigureServiceAccount, SetIAMPolicy,
           CreateKey, CreateSecret, SetConsoleAccess, FinishReference, caches
  <1>2. /\ ref \in [Refs -> ProjectReference] /\ refCur \in [Refs -> RefHolders]
        /\ rw \in ReferenceWorker /\ rw.ref \in ProjectReference
        /\ rw.pc # "idle" /\ rw.key \in Refs
    BY ReferenceParts, ReferenceStepMoves
  <1>3. CASE FinishReference
    <2> DEFINE new == RefStatusUpdate(ReferenceCondition(rw.ref, rw.out), ref[rw.key])
    <2>1. rw'.pc = "idle"
      BY <1>3 DEF FinishReference, IdleReferenceWorker
    <2>2. RefStores(new) /\ "refCtl" \notin refCur'[rw.key]
      <3>1. CASE ReferenceConditionDue(rw.ref, rw.out)
        <4>1. PICK touched \in BOOLEAN :
                \E w \in Replies("refCtl", ref[rw.key], refCur[rw.key], new, touched) :
                  /\ ref' = [ref EXCEPT ![rw.key] = w.obj]
                  /\ refCur' = [refCur EXCEPT ![rw.key] = w.cur \ {"refCtl"}]
          BY <1>3, <3>1 DEF FinishReference
        <4> HIDE DEF new
        <4>2. RefStores(new)
          BY <1>2, <4>1, RefReplyStores
        <4>3. "refCtl" \notin refCur'[rw.key]
          BY <1>2, <4>1
        <4> QED BY <4>2, <4>3
      <3>2. CASE ~ReferenceConditionDue(rw.ref, rw.out)
        BY <1>2, <1>3, <3>2 DEF FinishReference, RefStores
      <3> QED BY <3>1, <3>2
    <2>3. RefKept(r) \/ RefWritten(r)
      BY <1>2, <2>1, <2>2, StatusWritesKeep
    <2>4. "refCtl" \notin refCur'[r]
      BY <2>2 DEF ReferenceCopyInv, CopiesAgree, RefStores
    <2> QED BY <1>1, <2>3, <2>4
  <1>4. CASE ~FinishReference /\ UNCHANGED refObjs
    BY <1>1, <1>4, ReferenceStepMoves DEF RefKept, refObjs, RefWorkerMoves
  <1>5. CASE /\ rw.pc \notin {"idle", "Condition"}
             /\ \E o : \E t \in BOOLEAN, ok \in BOOLEAN : \E out :
                  UpdateRefStatus(rw.key, o, t, ok) /\ RefFinish(out, o)
    <2>1. rw'.pc = "Condition"
      BY <1>2, <1>5 DEF RefFinish, ReferenceWorker
    <2> QED BY <1>1, <1>2, <1>5, <2>1, UpdateRefStores, StatusWritesKeep
  <1> DEFINE Updated(o) == \E ok \in BOOLEAN : \E out, p :
                             UpdateRef(rw.key, o, ok) /\ RefFinish(out, p)
  <1>6. ASSUME rw.pc \notin {"idle", "Condition"},
               NEW o \in ProjectReference, Updated(o),
               \/ SameRef(o, rw.ref)
               \/ /\ rw.pc = "FinalizerAdded" /\ o.finalizer /\ o.exists = rw.ref.exists
                  /\ ~o.deleting /\ o.owner = rw.ref.owner
               \/ /\ rw.pc = "FinalizerDeleted" /\ ~o.finalizer /\ o.deleting /\ rw.ref.deleting
        PROVE  /\ RefKept(r) \/ RefWritten(r)
               /\ rw'.pc = "Condition"
    <2>1. rw'.pc = "Condition"
      BY <1>2, <1>6 DEF RefFinish, ReferenceWorker
    <2>2. RefStores(RefUpdate(o, ref[rw.key]))
      BY <1>2, <1>6, UpdateRefStores
    <2> QED BY <1>6, <2>1, <2>2, SpecWritesKeep
  <1>7. /\ SameRef([rw.ref EXCEPT !.saName = TRUE], rw.ref)
        /\ [rw.ref EXCEPT !.saName = TRUE] \in ProjectReference
        /\ SameRef([rw.ref EXCEPT !.projectID = Nil], rw.ref)
        /\ [rw.ref EXCEPT !.projectID = Nil] \in ProjectReference
        /\ \A id \in ProjectIDs : /\ SameRef([rw.ref EXCEPT !.projectID = id], rw.ref)
                                  /\ [rw.ref EXCEPT !.projectID = id] \in ProjectReference
    BY <1>2 DEF SameRef, ProjectReference, MaybeID
  <1> HIDE DEF Updated
  <1>8. CASE EnsureServiceAccountName \/ ClearProjectID
    <2>1. /\ rw.pc \notin {"idle", "Condition"}
          /\ \/ Updated([rw.ref EXCEPT !.saName = TRUE])
             \/ Updated([rw.ref EXCEPT !.projectID = Nil])
      BY <1>8 DEF EnsureServiceAccountName, ClearProjectID, SaveRef, Updated
    <2> QED BY <1>1, <1>6, <1>7, <2>1
  <1>9. CASE EnsureProjectID
    <2>1. CASE UNCHANGED refObjs
      BY <1>4, <1>9, <2>1 DEF EnsureProjectID, FinishReference
    <2>2. CASE \E id \in ProjectIDs : SaveRef([rw.ref EXCEPT !.projectID = id])
      <3>1. PICK id \in ProjectIDs : Updated([rw.ref EXCEPT !.projectID = id])
        BY <2>2 DEF SaveRef, Updated
      <3>2. rw.pc \notin {"idle", "Condition"}
        BY <1>9 DEF EnsureProjectID
      <3> QED BY <1>1, <1>6, <1>7, <3>1, <3>2
    <2> QED BY <1>9, <2>1, <2>2 DEF EnsureProjectID
  <1>10. CASE EnsureFinalizerAdded
    <2> DEFINE o == [rw.ref EXCEPT !.finalizer = TRUE]
    <2>1. rw.pc = "FinalizerAdded" /\ Updated(o)
      BY <1>10 DEF EnsureFinalizerAdded, SaveRef, Updated
    <2>2. ~rw.ref.deleting
      BY <2>1 DEF TypeInv, KeysOK
    <2>3. /\ o \in ProjectReference /\ o.finalizer /\ o.exists = rw.ref.exists
          /\ ~o.deleting /\ o.owner = rw.ref.owner
      BY <1>2, <2>2 DEF ProjectReference
    <2> HIDE DEF o
    <2> QED BY <1>1, <1>6, <2>1, <2>3
  <1>11. CASE EnsureFinalizerDeleted
    <2> DEFINE o == [rw.ref EXCEPT !.finalizer = FALSE]
    <2>1. rw.pc = "FinalizerDeleted" /\ Updated(o)
      BY <1>11 DEF EnsureFinalizerDeleted, Updated
    <2>2. rw.ref.deleting
      BY <2>1 DEF ReferenceCopyInv, DeletionSteps
    <2>3. o \in ProjectReference /\ ~o.finalizer /\ o.deleting
      BY <1>2, <2>2 DEF ProjectReference
    <2> HIDE DEF o
    <2> QED BY <1>1, <1>6, <2>1, <2>2, <2>3
  <1>12. CASE \/ EnsureProjectReferenceInitialized \/ EnsureProjectReferenceStatusCreating
              \/ EnsureStateReady \/ ProjectInactive
    <2>1. rw.pc \notin {"idle", "Condition"}
      BY <1>12 DEF EnsureProjectReferenceInitialized, EnsureProjectReferenceStatusCreating,
                   EnsureStateReady, ProjectInactive
    <2>2. \E o : \E t \in BOOLEAN, ok \in BOOLEAN : \E out :
            UpdateRefStatus(rw.key, o, t, ok) /\ RefFinish(out, o)
      BY <1>12 DEF EnsureProjectReferenceInitialized, EnsureProjectReferenceStatusCreating,
                   EnsureStateReady, ProjectInactive, SaveRefStatus
    <2> QED BY <1>5, <2>1, <2>2
  <1>13. CASE HandleAvailabilityZonesError
    <2>1. rw.pc \notin {"idle", "Condition"} /\ ~FinishReference
      BY <1>13 DEF HandleAvailabilityZonesError, FinishReference
    <2>2. \/ UNCHANGED refObjs
          \/ \E o : \E t \in BOOLEAN, ok \in BOOLEAN : \E out :
                UpdateRefStatus(rw.key, o, t, ok) /\ RefFinish(out, o)
      BY <1>13 DEF HandleAvailabilityZonesError
    <2> QED BY <1>4, <1>5, <2>1, <2>2
  <1>14. CASE \/ EnsureClaimAvailabilityZonesSet \/ EnsureClaimProjectIDSet
              \/ EnsureProjectClaimReady
    BY <1>4, <1>14 DEF EnsureClaimAvailabilityZonesSet, EnsureClaimProjectIDSet,
                       EnsureProjectClaimReady, FinishReference
  <1> QED BY <1>3, <1>4, <1>8, <1>9, <1>10, <1>11, <1>12, <1>13, <1>14, CloudMoves
          DEF ReferenceStep

-----------------------------------------------------------------------------
(* The copies of references.                                               *)

\* An API server that is asked to delete a reference.
LEMMA DeletedRef ==
  ASSUME NEW o \in ProjectReference
  PROVE  \/ Deleted(o, NoRef) = NoRef /\ ~o.finalizer
         \/ /\ o.finalizer /\ Deleted(o, NoRef).finalizer /\ Deleted(o, NoRef).deleting
            /\ Deleted(o, NoRef).exists = o.exists /\ Deleted(o, NoRef).owner = o.owner
  BY DEF Deleted, Collected, ProjectReference

\* Only FinishReference follows a chain that has ended.
LEMMA ConditionFinishes ==
  ASSUME ReferenceStep, rw.pc = "Condition"
  PROVE  FinishReference
  BY DEF ReferenceStep, EnsureProjectReferenceInitialized,
         EnsureProjectReferenceStatusCreating, EnsureServiceAccountName,
         EnsureFinalizerAdded, EnsureStateReady, ProjectInactive, ClearProjectID,
         EnsureFinalizerDeleted, EnsureProjectID, HandleAvailabilityZonesError,
         EnsureClaimAvailabilityZonesSet, EnsureClaimProjectIDSet, EnsureProjectClaimReady,
         DeletePolicy, DeleteServiceAccount, DeleteProject, DeleteConsoleAccess,
         DeleteCredentials, ListProjectsFails, ProjectFound, ProjectMissing,
         ConfigureBillingAPI, ConfigureAPIS, ConfigureServiceAccount, SetIAMPolicy,
         CreateKey, CreateSecret, SetConsoleAccess

\* The worker of the claim controller is busy in every step of a reconcile.
LEMMA ClaimStepBusy ==
  ASSUME ClaimStep
  PROVE  cw.pc # "idle"
  BY DEF ClaimStep, FinalizeReference, FinalizeWithoutReference,
         EnsureCCSSecretFinalizerDeleted, EnsureProjectClaimFinalizerDeleted,
         EnsureProjectClaimValidated, EnsureProjectClaimInitialized, EnsureRegionSupported,
         EnsureProjectClaimStatePending, EnsureProjectReferenceExists,
         EnsureProjectReferenceLink, EnsureFinalizer, EnsureCCSSecretFinalizer,
         EnsureProjectClaimStatePendingProject, FinishClaim

\* The claim's worker deletes its reference.
RefDeletedByClaim(r) ==
  /\ cw.pc = "Deletion" /\ r = RefName(cw.key) /\ refCache[r].exists
  /\ RefDeleted(r)

\* What a step of the claim controller does to a reference.
LEMMA ClaimStepRefs ==
  ASSUME TypeInv, ClaimStep, NEW r \in Refs
  PROVE  /\ RefKept(r) \/ RefDeletedByClaim(r) \/ RefCreated(r)
         /\ UNCHANGED <<refCache, rw>>
  <1>1. ref \in [Refs -> ProjectReference] /\ refCur \in [Refs -> RefHolders]
    BY DEF TypeInv, TypeOK, RefHolders
  <1>2. UNCHANGED <<refCache, rw>>
    BY DEF ClaimStep, FinalizeReference, FinalizeWithoutReference,
           EnsureCCSSecretFinalizerDeleted, EnsureProjectClaimFinalizerDeleted,
           EnsureProjectClaimValidated, EnsureProjectClaimInitialized, EnsureRegionSupported,
           EnsureProjectClaimStatePending, EnsureProjectReferenceExists,
           EnsureProjectReferenceLink, EnsureFinalizer, EnsureCCSSecretFinalizer,
           EnsureProjectClaimStatePendingProject, FinishClaim, caches
  <1>3. CASE UNCHANGED refObjs
    BY <1>2, <1>3 DEF RefKept, refObjs
  <1>4. CASE FinalizeReference /\ ~UNCHANGED refObjs
    <2> DEFINE k == RefName(cw.key)
    <2>1. /\ cw.pc = "Deletion" /\ refCache[k].exists /\ ref[k].exists
          /\ ref' = [ref EXCEPT ![k] = Deleted(ref[k], NoRef)]
          /\ refCur' = [refCur EXCEPT ![k] = IF ref[k].deleting THEN refCur[k] ELSE {}]
      BY <1>4 DEF FinalizeReference
    <2> HIDE DEF k
    <2>2. CASE r = k
      BY <1>1, <1>2, <2>1, <2>2 DEF RefDeletedByClaim, RefDeleted, k
    <2>3. CASE r # k
      BY <1>1, <1>2, <2>1, <2>3 DEF RefKept
    <2> QED BY <2>2, <2>3
  <1>5. CASE EnsureProjectReferenceExists /\ ~UNCHANGED refObjs
    <2> DEFINE k == RefName(cw.key)
    <2>1. /\ cw.pc = "ReferenceExists" /\ ~refCache[k].exists /\ ~ref[k].exists
          /\ ref' = [ref EXCEPT ![k] = NewMatchingProjectReference(cw.key)]
          /\ refCur' = [refCur EXCEPT ![k] = {}]
      BY <1>5 DEF EnsureProjectReferenceExists
    <2> HIDE DEF k
    <2>2. CASE r = k
      BY <1>1, <1>2, <2>1, <2>2 DEF RefCreated, k
    <2>3. CASE r # k
      BY <1>1, <1>2, <2>1, <2>3 DEF RefKept
    <2> QED BY <2>2, <2>3
  <1>6. FinalizeReference \/ EnsureProjectReferenceExists \/ UNCHANGED refObjs
    BY DEF ClaimStep, FinalizeWithoutReference,
           EnsureCCSSecretFinalizerDeleted, EnsureProjectClaimFinalizerDeleted,
           EnsureProjectClaimValidated, EnsureProjectClaimInitialized, EnsureRegionSupported,
           EnsureProjectClaimStatePending, EnsureProjectReferenceLink, EnsureFinalizer,
           EnsureCCSSecretFinalizer, EnsureProjectClaimStatePendingProject, FinishClaim
  <1> QED BY <1>3, <1>4, <1>5, <1>6

\* A new reference.
LEMMA NewReferenceFields ==
  ASSUME NEW c \in Claims
  PROVE  LET o == NewMatchingProjectReference(c)
         IN  o.exists /\ ~o.deleting /\ ~o.finalizer /\ o.owner = c
  BY DEF NewMatchingProjectReference, NoRef

\* The initial state.
LEMMA InitReferenceCopy == Init => ReferenceCopyInv
  <1> SUFFICES ASSUME Init PROVE ReferenceCopyInv OBVIOUS
  <1>1. ~NoRef.exists /\ ~NoRef.deleting
    BY DEF NoRef
  <1>2. /\ \A r \in Refs : ref[r] = NoRef /\ refCache[r] = NoRef /\ refCur[r] = {"cache"}
        /\ rw.pc = "idle"
    BY DEF Init, IdleReferenceWorker
  <1>3. CopiesAgree
    BY <1>1, <1>2 DEF CopiesAgree
  <1>4. NamedAfterOwner
    BY <1>1, <1>2 DEF NamedAfterOwner
  <1> QED BY <1>2, <1>3, <1>4 DEF ReferenceCopyInv, DeletionSteps

\* The copy of a reference that keeps its version, or whose version nobody
\* holds any more, and that stays with its owner.
RefMovesOn(r) ==
  /\ RefKept(r) \/ refCur'[r] = {}
  /\ ref'[r].deleting => ref'[r].finalizer
  /\ ref'[r].exists => RefName(ref'[r].owner) = r

\* It is enough for the invariant if the workers and the cache stay.
LEMMA ReferenceCopyFrame ==
  ASSUME TypeInv, ReferenceCopyInv, UNCHANGED <<refCache, rw>>,
         \A r \in Refs : RefMovesOn(r)
  PROVE  ReferenceCopyInv'
  <1>1. rw.pc # "idle" => rw.key \in Refs
    BY ReferenceParts
  <1>2. CopiesAgree'
    BY <1>1 DEF ReferenceCopyInv, CopiesAgree, RefMovesOn, RefKept, Current
  <1>3. NamedAfterOwner'
    BY DEF ReferenceCopyInv, NamedAfterOwner, RefMovesOn
  <1> QED BY <1>2, <1>3 DEF ReferenceCopyInv

\* A deletion moves a reference on.
LEMMA DeletionMovesOn ==
  ASSUME TypeInv, ReferenceCopyInv, NEW r \in Refs, RefDeleted(r)
  PROVE  RefMovesOn(r)
  <1>1. ref[r] \in ProjectReference
    BY DEF TypeInv, TypeOK
  <1>2. /\ ref[r].deleting => ref[r].finalizer
        /\ RefName(ref[r].owner) = r
    BY DEF ReferenceCopyInv, CopiesAgree, NamedAfterOwner, RefDeleted
  <1>3. ref[r].deleting => Deleted(ref[r], NoRef) = ref[r]
    BY <1>1, <1>2 DEF Deleted, Collected, ProjectReference
  <1>4. ~NoRef.exists /\ ~NoRef.deleting
    BY DEF NoRef
  <1> QED BY <1>1, <1>2, <1>3, <1>4, DeletedRef DEF RefDeleted, RefMovesOn, RefKept

\* A reference that is kept.
LEMMA KeptMovesOn ==
  ASSUME TypeInv, ReferenceCopyInv, NEW r \in Refs, RefKept(r)
  PROVE  RefMovesOn(r)
  BY DEF ReferenceCopyInv, CopiesAgree, NamedAfterOwner, RefKept, RefMovesOn

\* The steps of the claim controller keep the invariant.
LEMMA ClaimStepReferenceCopy ==
  ASSUME TypeInv, ReferenceCopyInv, ClaimStep
  PROVE  ReferenceCopyInv'
  <1>1. ASSUME NEW r \in Refs
        PROVE  RefMovesOn(r)
    <2>1. CASE RefCreated(r)
      <3>1. cw.key \in Claims
        BY <2>1, ClaimObjects DEF RefCreated
      <3> QED BY <2>1, <3>1, NewReferenceFields DEF RefCreated, RefMovesOn
    <2> QED BY <2>1, ClaimStepRefs, DeletionMovesOn, KeptMovesOn DEF RefDeletedByClaim
  <1>2. Refs # {}
    BY ClaimStepBusy, ClaimObjects DEF Refs
  <1> QED BY <1>1, <1>2, ClaimStepRefs, ReferenceCopyFrame

\* The steps of the reference controller keep it.
LEMMA ReferenceStepReferenceCopy ==
  ASSUME TypeInv, ReferenceCopyInv, ReferenceStep
  PROVE  ReferenceCopyInv'
  <1> DEFINE k == rw.key
  <1>1. k \in Refs /\ rw.pc # "idle"
    BY ReferenceStepMoves, ReferenceParts
  <1>2. /\ \A r \in Refs : /\ RefKept(r) \/ RefWritten(r)
                           /\ rw'.pc = "idle" => "refCtl" \notin refCur'[r]
        /\ refCache' = refCache
    BY <1>1, ReferenceStepRefs
  <1>3. \/ rw'.pc = "idle"
        \/ RefWorkerMoves /\ rw.pc # "Condition"
    BY ReferenceStepMoves, ConditionFinishes DEF FinishReference, IdleReferenceWorker
  <1>4. ~NoRef.exists /\ ~NoRef.deleting
    BY DEF NoRef
  <1>5. ASSUME NEW r \in Refs
        PROVE  /\ "cache" \in refCur'[r] => refCache'[r] = ref'[r]
               /\ "refCtl" \in refCur'[r] => rw'.pc # "idle" /\ rw'.key = r
               /\ ref'[r].deleting => ref'[r].finalizer
               /\ ref'[r].exists => RefName(ref'[r].owner) = r
    <2>1. /\ "cache" \in refCur[r] => refCache[r] = ref[r]
          /\ "refCtl" \in refCur[r] => k = r
          /\ ref[r].deleting => ref[r].finalizer
          /\ ref[r].exists => RefName(ref[r].owner) = r
      BY DEF ReferenceCopyInv, CopiesAgree, NamedAfterOwner
    <2>2. rw'.pc = "idle" \/ rw'.key = k
      BY <1>3 DEF RefWorkerMoves
    <2>3. CASE RefKept(r)
      BY <1>2, <1>3, <2>1, <2>2, <2>3 DEF RefKept, RefWorkerMoves
    <2>4. CASE RefWritten(r)
      BY <1>2, <1>3, <1>4, <2>1, <2>2, <2>4 DEF RefWritten, SameRef, Current
    <2> QED BY <1>2, <2>3, <2>4
  <1>6. rw'.pc \notin {"idle", "Condition"} /\ Current(ref'[rw'.key], refCur'[rw'.key], "refCtl") =>
          rw'.ref = ref'[rw'.key]
    <2> SUFFICES ASSUME rw'.pc \notin {"idle", "Condition"},
                        Current(ref'[rw'.key], refCur'[rw'.key], "refCtl")
                 PROVE  rw'.ref = ref'[rw'.key]
      OBVIOUS
    <2>1. rw'.key = k /\ rw'.ref = rw.ref /\ rw.pc # "Condition"
      BY <1>3 DEF RefWorkerMoves
    <2>2. RefKept(k)
      BY <1>1, <1>2 DEF RefWritten
    <2> QED BY <1>1, <2>1, <2>2 DEF ReferenceCopyInv, CopiesAgree, RefKept, Current
  <1>7. rw'.pc \in DeletionSteps => rw'.ref.deleting
    BY <1>3 DEF ReferenceCopyInv, RefWorkerMoves, DeletionSteps
  <1>8. rw'.pc # "idle" => RefName(rw'.ref.owner) = rw'.key
    BY <1>1, <1>3 DEF ReferenceCopyInv, NamedAfterOwner, RefWorkerMoves
  <1>9. CopiesAgree'
    BY <1>5, <1>6 DEF CopiesAgree
  <1>10. NamedAfterOwner'
    BY <1>2, <1>5, <1>8 DEF ReferenceCopyInv, NamedAfterOwner
  <1> QED BY <1>7, <1>9, <1>10 DEF ReferenceCopyInv

\* The first operation of a reconcile.
LEMMA FirstOperationFacts ==
  ASSUME NEW o, NEW cl
  PROVE  /\ FirstOperation(o, cl) \in DeletionSteps => o.deleting
         /\ FirstOperation(o, cl) # "idle"
         /\ FirstOperation(o, cl) = "FinalizerAdded" =>
              ~o.deleting /\ cl.state = "PendingProject"
  <1>1. SetUpOperation(o) \in {"StatusCreating", "ProjectID", "ServiceAccountName",
                              "FinalizerAdded", "APIs", "CreateProject"}
    BY DEF SetUpOperation, AfterFinalizerAdded
  <1>2. ClaimReadyOperation(cl) \in {"AvailabilityZones", "ClaimProjectID", "ClaimReady"}
    BY DEF ClaimReadyOperation
  <1>3. CASE ~o.inited
    BY <1>3 DEF FirstOperation, DeletionSteps
  <1>4. CASE o.inited /\ o.deleting
    BY <1>4 DEF FirstOperation, DeletionSteps
  <1>5. CASE o.inited /\ ~o.deleting
    BY <1>1, <1>2, <1>5 DEF FirstOperation, DeletionSteps
  <1> QED BY <1>3, <1>4, <1>5

\* The beginning of a reconcile keeps it.
LEMMA StartReferenceCopy ==
  ASSUME TypeInv, ReferenceCopyInv, NEW r \in Refs, StartReference(r)
  PROVE  ReferenceCopyInv'
  <1>1. /\ ref' = ref /\ refCache' = refCache
        /\ \/ UNCHANGED <<rw, refCur>>
           \/ /\ RefWorkerStarts(r)
              /\ \A s \in Refs :
                    \/ refCur'[s] = refCur[s]
                    \/ s = r /\ "cache" \in refCur[r] /\ refCur'[r] = refCur[r] \cup {"refCtl"}
    BY StartReferenceMoves DEF caches
  <1>2. CASE UNCHANGED <<rw, refCur>>
    BY <1>1, <1>2, ReferenceCopyFrame, KeptMovesOn DEF RefKept
  <1>3. CASE /\ RefWorkerStarts(r)
             /\ \A s \in Refs :
                    \/ refCur'[s] = refCur[s]
                    \/ s = r /\ "cache" \in refCur[r] /\ refCur'[r] = refCur[r] \cup {"refCtl"}
    <2>1. /\ rw.pc = "idle" /\ rw'.key = r /\ rw'.ref = refCache[r] /\ refCache[r].exists
          /\ rw'.pc # "idle"
          /\ rw'.pc \in DeletionSteps => rw'.ref.deleting
      BY <1>3, FirstOperationFacts DEF RefWorkerStarts
    <2>2. /\ \A s \in Refs : "refCtl" \notin refCur[s]
          /\ \A s \in Refs : "cache" \in refCur'[s] <=> "cache" \in refCur[s]
          /\ "refCtl" \in refCur'[r] => "cache" \in refCur[r]
          /\ \A s \in Refs : "refCtl" \in refCur'[s] => s = r
      BY <1>3, <2>1 DEF ReferenceCopyInv, CopiesAgree
    <2>3. CopiesAgree'
      BY <1>1, <2>1, <2>2 DEF ReferenceCopyInv, CopiesAgree, Current
    <2>4. NamedAfterOwner'
      BY <1>1, <2>1 DEF ReferenceCopyInv, NamedAfterOwner
    <2> QED BY <2>1, <2>3, <2>4 DEF ReferenceCopyInv
  <1> QED BY <1>1, <1>2, <1>3

\* The informers, restarts and administrators keep it.
LEMMA OutsideReferenceCopy ==
  ASSUME TypeInv, ReferenceCopyInv,
         (\E r \in Refs : SyncRef(r) \/ AdminDeletesReference(r)) \/ Crash
  PROVE  ReferenceCopyInv'
  <1>1. /\ ref \in [Refs -> ProjectReference] /\ refCur \in [Refs -> RefHolders]
        /\ refCache \in [Refs -> ProjectReference]
        /\ rw.pc # "idle" => rw.key \in Refs
    BY ReferenceParts DEF TypeInv, TypeOK, RefHolders
  <1>2. ASSUME NEW r \in Refs, SyncRef(r)
        PROVE  ReferenceCopyInv'
    <2>1. /\ ref' = ref /\ rw' = rw
          /\ \A s \in Refs : s # r => refCur'[s] = refCur[s] /\ refCache'[s] = refCache[s]
          /\ refCur'[r] = refCur[r] \cup {"cache"} /\ refCache'[r] = ref[r]
      BY <1>1, <1>2 DEF SyncRef, workers
    <2>2. CopiesAgree'
      BY <1>1, <2>1 DEF ReferenceCopyInv, CopiesAgree, Current
    <2>3. NamedAfterOwner'
      BY <2>1 DEF ReferenceCopyInv, NamedAfterOwner
    <2> QED BY <2>1, <2>2, <2>3 DEF ReferenceCopyInv
  <1>3. ASSUME NEW r \in Refs, AdminDeletesReference(r)
        PROVE  ReferenceCopyInv'
    <2>1. /\ UNCHANGED <<refCache, rw>> /\ RefDeleted(r)
          /\ \A s \in Refs : s # r => RefKept(s)
      BY <1>1, <1>3 DEF AdminDeletesReference, RefDeleted, RefKept, caches, workers
    <2> QED BY <2>1, ReferenceCopyFrame, DeletionMovesOn, KeptMovesOn
  <1>4. CASE Crash
    <2>1. /\ ref' = ref /\ refCache' = ref /\ rw'.pc = "idle"
          /\ \A r \in Refs : refCur'[r] = {"cache"}
      BY <1>4 DEF Crash, IdleReferenceWorker
    <2>2. CopiesAgree'
      BY <2>1 DEF ReferenceCopyInv, CopiesAgree
    <2>3. NamedAfterOwner'
      BY <2>1 DEF ReferenceCopyInv, NamedAfterOwner
    <2> QED BY <2>1, <2>2, <2>3 DEF ReferenceCopyInv, DeletionSteps
  <1> QED BY <1>2, <1>3, <1>4

\* The steps that have nothing to do with references.
LEMMA NoReferenceSteps ==
  ASSUME NEW c \in Claims,
         StartClaim(c) \/ SyncClaim(c) \/ CreateClaim(c) \/ DeleteClaim(c) \/ EditClaim(c)
  PROVE  UNCHANGED <<refObjs, refCache, rw>>
  <1>1. CASE StartClaim(c)
    BY <1>1 DEF StartClaim, caches
  <1>2. CASE SyncClaim(c)
    BY <1>2 DEF SyncClaim, workers
  <1>3. CASE CreateClaim(c) \/ DeleteClaim(c) \/ EditClaim(c)
    <2>1. UNCHANGED <<refObjs, caches, workers>>
      BY <1>3 DEF CreateClaim, DeleteClaim, EditClaim
    <2> QED BY <2>1 DEF caches, workers
  <1> QED BY <1>1, <1>2, <1>3

\* ReferenceCopyInv is inductive relative to TypeInv.
LEMMA ReferenceCopyInductive == TypeInv /\ ReferenceCopyInv /\ [Next]_vars => ReferenceCopyInv'
  <1> SUFFICES ASSUME TypeInv, ReferenceCopyInv, [Next]_vars PROVE ReferenceCopyInv' OBVIOUS
  <1>1. ASSUME UNCHANGED <<refObjs, refCache, rw>>
        PROVE  ReferenceCopyInv'
    BY <1>1, ReferenceCopyFrame, KeptMovesOn DEF RefKept, refObjs
  <1>2. CASE ClaimStep
    BY <1>2, ClaimStepReferenceCopy
  <1>3. CASE ReferenceStep
    BY <1>3, ReferenceStepReferenceCopy
  <1>4. CASE Manager
    BY <1>1, <1>4, StartReferenceCopy, OutsideReferenceCopy, NoReferenceSteps, OtherSteps
       DEF Manager, workers
  <1>5. CASE Environment
    BY <1>1, <1>5, OutsideReferenceCopy, NoReferenceSteps, OtherSteps DEF Environment, workers
  <1>6. CASE UNCHANGED vars
    BY <1>1, <1>6, OtherSteps DEF workers
  <1> QED BY <1>2, <1>3, <1>4, <1>5, <1>6 DEF Next

\* In every reachable state: the worker that holds the stored version of a
\* reference has it as it is stored, only a copy that is being deleted is
\* cleaned up, and every copy names the owner it was made for.
THEOREM ReferenceCopies == Spec => []ReferenceCopyInv
  BY InitTypeInv, TypeInvInductive, InitReferenceCopy, ReferenceCopyInductive, PTL DEF Spec

\* A linked reference belongs to the claim that is linked to it, in every
\* instance where namespace and name joined with a dash tell claims apart:
\* RefName is all that ties the two together, in every step that writes one.
THEOREM LinksLeadHome ==
  ASSUME NamesAreDistinct
  PROVE  Spec => []LinkedReferenceIsOwn
  <1>1. TypeInv /\ ReferenceCopyInv => LinkedReferenceIsOwn
    <2> SUFFICES ASSUME TypeInv, ReferenceCopyInv, NEW c \in Claims, ref[RefName(c)].exists
                 PROVE  ref[RefName(c)].owner = c
      BY DEF LinkedReferenceIsOwn
    <2>1. RefName(c) \in Refs
      BY DEF Refs
    <2> QED BY <2>1 DEF NamesAreDistinct, TypeInv, KeysOK, ReferenceCopyInv, NamedAfterOwner
  <1>2. Spec => []TypeInv
    BY KeysCorrect
  <1>3. Spec => []ReferenceCopyInv
    BY ReferenceCopies
  <1> QED BY <1>1, <1>2, <1>3, PTL

-----------------------------------------------------------------------------
(* A claim and its reference.                                              *)

\* HeldInv as it is for one claim.
PairInv(c) ==
  LET r == RefName(c)
  IN  /\ ref[r].exists /\ ref[r].finalizer => claim[c].finalizer
      /\ BusyWith(c) /\ cw.pc \in {"CCSSecretFinalizerDeleted", "ClaimFinalizerDeleted"} =>
           ~ref[r].exists
      /\ rw.pc = "FinalizerAdded" /\ rw.key = r /\ Current(ref[r], refCur[r], "refCtl") =>
           claim[c].finalizer
      /\ "refDeleted" \notin Faults => DeletionSeen(c) /\ WorkerHasSeen(c)

\* HeldInv, claim by claim.
LEMMA HeldByPairs ==
  ASSUME NamesAreDistinct, TypeInv, ClaimCopyInv, ReferenceCopyInv
  PROVE  HeldInv <=> \A c \in Claims : PairInv(c)
  <1>1. /\ cw.pc # "idle" => cw.key \in Claims
        /\ rw.pc # "idle" => rw.ref.owner \in Claims /\ RefName(rw.ref.owner) = rw.key
        /\ \A r \in Refs : ref[r].exists => ref[r].owner \in Claims /\ RefName(ref[r].owner) = r
        /\ \A c \in Claims : RefName(c) \in Refs
    BY DEF TypeInv, KeysOK, ReferenceCopyInv, NamedAfterOwner, Refs
  <1>2. \A c \in Claims : claim[c].finalizer => claim[c].exists
    <2>1. ~NoClaim.finalizer
      BY DEF NoClaim
    <2> QED BY <2>1 DEF ClaimCopyInv, ClaimCopiesAgree
  <1>3. \A c, d \in Claims : RefName(c) = RefName(d) => c = d
    BY DEF NamesAreDistinct
  <1> HIDE DEF DeletionSeen, WorkerHasSeen
  <1>4. ASSUME HeldInv, NEW c \in Claims
        PROVE  PairInv(c)
    <2>1. ref[RefName(c)].exists => ref[RefName(c)].owner = c
      BY <1>1, <1>3
    <2>2. rw.pc # "idle" /\ rw.key = RefName(c) => rw.ref.owner = c
      BY <1>1, <1>3
    <2> QED BY <1>1, <1>4, <2>1, <2>2 DEF HeldInv, FinalizedReferenceHasClaim, PairInv, BusyWith
  <1>5. ASSUME \A c \in Claims : PairInv(c)
        PROVE  HeldInv
    <2>1. FinalizedReferenceHasClaim
      BY <1>1, <1>2, <1>5 DEF PairInv, FinalizedReferenceHasClaim
    <2>2. cw.pc \in {"CCSSecretFinalizerDeleted", "ClaimFinalizerDeleted"} =>
            ~ref[RefName(cw.key)].exists
      BY <1>1, <1>5 DEF PairInv, BusyWith
    <2>3. rw.pc = "FinalizerAdded" /\ Current(ref[rw.key], refCur[rw.key], "refCtl") =>
            claim[rw.ref.owner].finalizer
      BY <1>1, <1>5 DEF PairInv
    <2>4. "refDeleted" \notin Faults => \A c \in Claims : DeletionSeen(c) /\ WorkerHasSeen(c)
      BY <1>5 DEF PairInv
    <2> QED BY <2>1, <2>2, <2>3, <2>4 DEF HeldInv
  <1> QED BY <1>4, <1>5

\* The same as one formula, and for the next state.
LEMMA HeldAsPairs ==
  ASSUME NamesAreDistinct
  PROVE  TypeInv /\ ClaimCopyInv /\ ReferenceCopyInv =>
           (HeldInv <=> \A c \in Claims : PairInv(c))
  BY HeldByPairs

\* The same after a step.
LEMMA HeldByPairsNext ==
  ASSUME NamesAreDistinct
  PROVE  (TypeInv /\ ClaimCopyInv /\ ReferenceCopyInv =>
            (HeldInv <=> \A c \in Claims : PairInv(c)))'
  BY HeldAsPairs, PTL

\* The initial state: nothing is there.
LEMMA InitPair ==
  ASSUME Init, NEW c \in Claims
  PROVE  PairInv(c)
  <1>1. /\ claim[c] = NoClaim /\ claimCache[c] = NoClaim
        /\ ref[RefName(c)] = NoRef /\ refCache[RefName(c)] = NoRef
        /\ cw.pc = "idle" /\ rw.pc = "idle"
    BY DEF Init, Refs, IdleClaimWorker, IdleReferenceWorker
  <1>2. /\ ~NoClaim.exists /\ ~NoClaim.deleting /\ ~NoClaim.finalizer
        /\ ~NoRef.exists
    BY DEF NoClaim, NoRef
  <1> QED BY <1>1, <1>2 DEF PairInv, DeletionSeen, WorkerHasSeen, Engaged, BusyWith

\* What ClaimCopyInv says of one claim.
LEMMA CopyFacts ==
  ASSUME TypeInv, ClaimCopyInv, NEW c \in Claims
  PROVE  /\ claim[c].deleting => claim[c].finalizer
         /\ claim[c].finalizer \/ claim[c].link => claim[c].exists
         /\ BusyWith(c) /\ cw.pc \in DeletingClaimSteps => cw.obj.deleting
         /\ BusyWith(c) /\ cw.pc \in {"ReferenceExists", "ReferenceLink", "Finalizer"} =>
              ~cw.obj.deleting
  <1>1. ~NoClaim.finalizer /\ ~NoClaim.link
    BY DEF NoClaim
  <1> QED BY <1>1 DEF ClaimCopyInv, ClaimCopiesAgree, ClaimStepMatchesCopy, ClaimSteps,
                      DeletingClaimSteps

\* The worker of the claim controller goes on with c, stops or never had it.
WorkerStays(c) ==
  (BusyWith(c))' => BusyWith(c) /\ cw'.obj.deleting = cw.obj.deleting

\* Steps that change neither finalizers nor deletions of c and its reference.
LEMMA PairStays ==
  ASSUME NEW c \in Claims, PairInv(c),
         SameClaim(claim'[c], claim[c]), claimCache'[c] = claimCache[c],
         SameRef(ref'[RefName(c)], ref[RefName(c)]),
         refCache'[RefName(c)] = refCache[RefName(c)],
         WorkerStays(c),
         "refDeleted" \notin Faults => (WorkerHasSeen(c))',
         (BusyWith(c))' /\ cw'.pc \in {"CCSSecretFinalizerDeleted", "ClaimFinalizerDeleted"} =>
           ~ref[RefName(c)].exists,
         \/ rw' = rw /\ refCur'[RefName(c)] \subseteq refCur[RefName(c)]
         \/ rw'.pc # "FinalizerAdded"
  PROVE  (PairInv(c))'
  <1> DEFINE r == RefName(c)
  <1>1. "refDeleted" \notin Faults => (DeletionSeen(c))'
    <2> SUFFICES ASSUME DeletionSeen(c)
                 PROVE  (DeletionSeen(c))'
      BY DEF PairInv
    <2>1. Engaged(claim'[c]) <=> Engaged(claim[c])
      BY DEF Engaged, SameClaim
    <2>2. Going(c) => (Going(c))'
      BY DEF Going, WorkerStays, SameClaim
    <2>3. Past(c) => (Past(c))'
      BY <2>1 DEF Past, WorkerStays, SameRef
    <2> QED BY <2>1, <2>2, <2>3 DEF DeletionSeen, WorkerStays, SameClaim, SameRef
  <1>2. rw'.pc = "FinalizerAdded" /\ rw'.key = r /\ Current(ref'[r], refCur'[r], "refCtl") =>
          claim'[c].finalizer
    BY DEF PairInv, Current, SameClaim, SameRef
  <1> QED BY <1>1, <1>2 DEF PairInv, SameClaim, SameRef

\* How the worker of the claim controller comes to the steps that rely on the
\* reference being there or not.
LEMMA ClaimStepLeads ==
  ASSUME TypeInv, ClaimStep
  PROVE  /\ cw'.pc \in {"CCSSecretFinalizerDeleted", "ClaimFinalizerDeleted"} =>
              \/ /\ cw.pc = "Deletion" /\ CanFindRef(RefName(cw.key))
                 /\ ~refCache[RefName(cw.key)].exists
              \/ cw.pc = "CCSSecretFinalizerDeleted"
         /\ cw'.pc \in {"ReferenceLink", "Finalizer"} =>
              /\ cw.pc = "ReferenceExists"
              /\ refCache[RefName(cw.key)].exists \/ RefCreated(RefName(cw.key))
  <1>1. cw \in ClaimWorker /\ cw.key \in Claims
    BY ClaimStepBusy, ClaimObjects
  <1>2. ASSUME NEW out, NEW o, ClaimFinish(out, o)
        PROVE  cw'.pc = "Condition"
    BY <1>1, <1>2 DEF ClaimFinish, ClaimWorker
  <1>3. ASSUME NEW pc, NEW o, ClaimGoto(pc, o)
        PROVE  cw'.pc = pc
    BY <1>1, <1>3 DEF ClaimGoto, ClaimWorker
  <1>4. CASE \/ FinalizeReference \/ EnsureProjectClaimFinalizerDeleted
             \/ EnsureProjectClaimValidated \/ EnsureProjectClaimInitialized
             \/ EnsureProjectClaimStatePending \/ EnsureProjectReferenceLink
             \/ EnsureFinalizer \/ EnsureProjectClaimStatePendingProject
    <2>1. \E out, o : ClaimFinish(out, o)
      BY <1>4 DEF FinalizeReference, EnsureProjectClaimFinalizerDeleted,
         EnsureProjectClaimValidated, EnsureProjectClaimInitialized,
         EnsureProjectClaimStatePending, EnsureProjectReferenceLink,
         EnsureFinalizer, EnsureProjectClaimStatePendingProject, SaveClaim, SaveClaimStatus
    <2> QED BY <1>2, <2>1
  <1>5. CASE FinalizeWithoutReference
    BY <1>3, <1>5 DEF FinalizeWithoutReference
  <1>6. CASE EnsureCCSSecretFinalizerDeleted
    BY <1>2, <1>3, <1>6 DEF EnsureCCSSecretFinalizerDeleted
  <1>7. CASE EnsureRegionSupported
    <2>1. (\E out, o : ClaimFinish(out, o)) \/
          \E o : ClaimGoto(IF NeedsPending(o) THEN "StatePending" ELSE "ReferenceExists", o)
      BY <1>7 DEF EnsureRegionSupported, SaveClaimStatus
    <2> QED BY <1>2, <1>3, <2>1
  <1>8. CASE EnsureCCSSecretFinalizer
    <2>1. (\E out, o : ClaimFinish(out, o)) \/ ClaimGoto(AfterSecretFinalizer(cw.obj), cw.obj)
      BY <1>8 DEF EnsureCCSSecretFinalizer
    <2>2. AfterSecretFinalizer(cw.obj) \in {"StatePendingProject", "Condition"}
      BY DEF AfterSecretFinalizer
    <2> QED BY <1>2, <1>3, <2>1, <2>2
  <1>9. CASE EnsureProjectReferenceExists
    <2> DEFINE k == RefName(cw.key)
               pc == AfterReferenceExists(cw.key, cw.obj)
    <2>1. cw.pc = "ReferenceExists" /\ k \in Refs
      BY <1>1, <1>9 DEF EnsureProjectReferenceExists, Refs
    <2>2. pc \in {"ReferenceLink", "Finalizer", "CCSSecretFinalizer", "StatePendingProject",
                  "Condition"}
      BY DEF AfterReferenceExists, AfterSecretFinalizer
    <2>3. \/ \E out, o : ClaimFinish(out, o)
          \/ ClaimGoto(pc, cw.obj) /\ refCache[k].exists
          \/ /\ ClaimGoto(pc, cw.obj) /\ ~refCache[k].exists /\ ~ref[k].exists
             /\ ref' = [ref EXCEPT ![k] = NewMatchingProjectReference(cw.key)]
             /\ refCur' = [refCur EXCEPT ![k] = {}]
      BY <1>9 DEF EnsureProjectReferenceExists
    <2> HIDE DEF pc
    <2>4. CASE /\ ClaimGoto(pc, cw.obj) /\ ~refCache[k].exists /\ ~ref[k].exists
               /\ ref' = [ref EXCEPT ![k] = NewMatchingProjectReference(cw.key)]
               /\ refCur' = [refCur EXCEPT ![k] = {}]
      <3>1. RefCreated(k)
        BY <2>1, <2>4 DEF RefCreated, TypeInv, TypeOK
      <3> QED BY <1>3, <2>1, <2>2, <2>4, <3>1
    <2> QED BY <1>2, <1>3, <2>1, <2>2, <2>3, <2>4
  <1>10. CASE FinishClaim
    BY <1>10 DEF FinishClaim, IdleClaimWorker
  <1> QED BY <1>4, <1>5, <1>6, <1>7, <1>8, <1>9, <1>10 DEF ClaimStep

\* A step of the claim controller that is not about c.
LEMMA OtherClaimPair ==
  ASSUME NamesAreDistinct, TypeInv, ClaimCopyInv, ClaimStep,
         NEW c \in Claims, c # cw.key, PairInv(c)
  PROVE  (PairInv(c))'
  <1>1. cw.pc # "idle" /\ cw.key \in Claims /\ RefName(c) \in Refs
    BY ClaimStepBusy, ClaimObjects DEF Refs
  <1>2. RefName(c) # RefName(cw.key)
    BY <1>1 DEF NamesAreDistinct
  <1>3. /\ ClaimWorkerMoves \/ ClaimWorkerRests
        /\ ClaimKept(c)
        /\ UNCHANGED <<caches, rw>>
    BY ClaimStepMoves DEF ClaimStored
  <1>4. RefKept(RefName(c))
    BY <1>1, <1>2, ClaimStepRefs DEF RefDeletedByClaim, RefCreated
  <1>5. (~BusyWith(c))'
    BY <1>3 DEF BusyWith, ClaimWorkerMoves, ClaimWorkerRests
  <1>6. WorkerStays(c) /\ (WorkerHasSeen(c))'
    BY <1>5 DEF WorkerStays, WorkerHasSeen
  <1>7. SameClaim(claim'[c], claim[c]) /\ SameRef(ref'[RefName(c)], ref[RefName(c)])
        /\ claimCache'[c] = claimCache[c] /\ refCache'[RefName(c)] = refCache[RefName(c)]
    BY <1>3, <1>4 DEF ClaimKept, RefKept, SameClaim, SameRef, caches
  <1> QED BY <1>3, <1>4, <1>5, <1>6, <1>7, PairStays DEF RefKept

\* What every step of the worker that is busy with c has in common.
StepOfClaim(c) ==
  /\ cw.key = c /\ BusyWith(c) /\ WorkerStays(c)
  /\ claimCache'[c] = claimCache[c] /\ refCache'[RefName(c)] = refCache[RefName(c)]
  /\ rw' = rw
  /\ (BusyWith(c))' /\ cw'.pc \in {"CCSSecretFinalizerDeleted", "ClaimFinalizerDeleted"} =>
       \/ cw.pc = "Deletion" /\ CanFindRef(RefName(c)) /\ ~refCache[RefName(c)].exists
       \/ cw.pc = "CCSSecretFinalizerDeleted"
  /\ (BusyWith(c))' /\ cw'.pc \in {"ReferenceLink", "Finalizer"} =>
       /\ cw.pc = "ReferenceExists"
       /\ refCache[RefName(c)].exists \/ RefCreated(RefName(c))
  /\ (BusyWith(c))' /\ cw'.pc = "Finalizer" => cw.obj.link

\* It is what ClaimStepMoves and ClaimStepLeads say.
LEMMA ClaimStepOfClaim ==
  ASSUME TypeInv, ClaimCopyInv, ClaimStep
  PROVE  cw.key \in Claims /\ StepOfClaim(cw.key)
  <1> DEFINE c == cw.key
  <1>1. cw.pc # "idle" /\ c \in Claims /\ cw.obj \in ProjectClaim
    BY ClaimStepBusy, ClaimObjects
  <1>2. (ClaimWorkerMoves \/ ClaimWorkerRests) /\ UNCHANGED <<caches, rw>>
    BY ClaimStepMoves
  <1>3. BusyWith(c) /\ WorkerStays(c)
    BY <1>1, <1>2 DEF BusyWith, WorkerStays, ClaimWorkerMoves, ClaimWorkerRests
  <1>4. cw'.pc = "Finalizer" => cw.obj.link
    <2>1. [cw.obj EXCEPT !.state = "Pending"].link = cw.obj.link
      BY <1>1 DEF ProjectClaim
    <2> QED BY <1>2, <2>1 DEF ClaimWorkerMoves, ClaimWorkerRests, ClaimStepMatchesCopy
  <1>5. claimCache' = claimCache /\ refCache' = refCache /\ rw' = rw
    BY <1>2 DEF caches
  <1> QED BY <1>1, <1>3, <1>4, <1>5, ClaimStepLeads DEF StepOfClaim

\* Nothing changes but where the worker is.
LEMMA PairGoesOn ==
  ASSUME DeletionsAreSeen, TypeInv, ClaimCopyInv, NEW c \in Claims, PairInv(c), StepOfClaim(c),
         SameClaim(claim'[c], claim[c]), RefKept(RefName(c)), ~RefCreated(RefName(c))
  PROVE  (PairInv(c))'
  <1> DEFINE r == RefName(c)
  <1>1. /\ claim[c].deleting => claim[c].finalizer
        /\ cw.pc = "Deletion" => cw.obj.deleting
        /\ cw.pc = "ReferenceExists" => ~cw.obj.deleting
    BY CopyFacts DEF StepOfClaim, DeletingClaimSteps
  <1>2. (BusyWith(c))' /\ cw'.pc \in {"CCSSecretFinalizerDeleted", "ClaimFinalizerDeleted"} =>
          ~ref[r].exists
    <2> SUFFICES ASSUME cw.pc = "Deletion", CanFindRef(r), ~refCache[r].exists
                 PROVE  ~ref[r].exists
      BY DEF StepOfClaim, PairInv
    <2>1. CASE "cacheLag" \notin Faults
      BY <2>1 DEF CanFindRef
    <2>2. CASE "refDeleted" \notin Faults
      BY <1>1, <2>2 DEF PairInv, DeletionSeen, Past, StepOfClaim
    <2> QED BY <2>1, <2>2 DEF DeletionsAreSeen
  <1>3. "refDeleted" \notin Faults => (WorkerHasSeen(c))'
    <2> SUFFICES ASSUME DeletionSeen(c), WorkerHasSeen(c), (BusyWith(c))'
                 PROVE  (WorkerHasSeen(c))'
      BY DEF PairInv, WorkerHasSeen
    <2>1. cw'.pc \in {"ReferenceLink", "Finalizer"} =>
            cw.pc = "ReferenceExists" /\ refCache[r].exists
      BY DEF StepOfClaim
    <2>2. cw'.pc \in {"ReferenceLink", "Finalizer"} => ref[r].exists
      BY <1>1, <2>1 DEF DeletionSeen, Going, StepOfClaim
    <2>3. cw'.pc \in {"CCSSecretFinalizerDeleted", "ClaimFinalizerDeleted"} => ~refCache[r].exists
      BY DEF StepOfClaim, WorkerHasSeen
    <2> QED BY <2>1, <2>2, <2>3 DEF WorkerHasSeen, StepOfClaim, RefKept
  <1>4. SameRef(ref'[r], ref[r])
    BY DEF RefKept, SameRef
  <1> QED BY <1>2, <1>3, <1>4, PairStays DEF StepOfClaim, RefKept

\* FinalizeProjectClaim deletes the reference: the claim is being deleted and
\* the cache knows.
LEMMA PairReferenceDeleted ==
  ASSUME TypeInv, ClaimCopyInv, NEW c \in Claims, PairInv(c), StepOfClaim(c),
         SameClaim(claim'[c], claim[c]), RefDeletedByClaim(RefName(c))
  PROVE  (PairInv(c))'
  <1> DEFINE r == RefName(c)
  <1>1. cw.pc = "Deletion" /\ cw.obj.deleting /\ refCache[r].exists /\ ref[r].exists
    BY CopyFacts DEF StepOfClaim, DeletingClaimSteps, RefDeletedByClaim, RefDeleted
  <1>2. /\ ref'[r].exists /\ ref'[r].finalizer => ref[r].finalizer
        /\ refCur'[r] \subseteq refCur[r]
    <2>1. ref[r] \in ProjectReference /\ ~NoRef.exists
      BY DEF TypeInv, TypeOK, Refs, NoRef
    <2> QED BY <2>1, DeletedRef DEF RefDeletedByClaim, RefDeleted
  <1>3. (BusyWith(c))' => cw'.pc \notin {"CCSSecretFinalizerDeleted", "ClaimFinalizerDeleted",
                                        "ReferenceLink", "Finalizer"}
    BY <1>1 DEF StepOfClaim
  <1>4. "refDeleted" \notin Faults => (DeletionSeen(c))' /\ (WorkerHasSeen(c))'
    <2> SUFFICES ASSUME DeletionSeen(c)
                 PROVE  (DeletionSeen(c))' /\ (WorkerHasSeen(c))'
      BY DEF PairInv
    <2>1. claim[c].deleting /\ claimCache[c].deleting
      BY <1>1 DEF DeletionSeen, Past, StepOfClaim
    <2>2. (Going(c))'
      BY <1>1, <2>1 DEF Going, StepOfClaim, WorkerStays, SameClaim
    <2>3. (DeletionSeen(c))'
      BY <1>1, <2>1, <2>2 DEF DeletionSeen, Going, StepOfClaim, SameClaim
    <2>4. (WorkerHasSeen(c))'
      BY <1>3 DEF WorkerHasSeen
    <2> QED BY <2>3, <2>4
  <1>5. rw.pc = "FinalizerAdded" /\ rw.key = r /\ Current(ref'[r], refCur'[r], "refCtl") =>
          claim'[c].finalizer
    BY <1>1, <1>2 DEF PairInv, Current, SameClaim
  <1> QED BY <1>1, <1>2, <1>3, <1>4, <1>5 DEF PairInv, SameClaim, StepOfClaim

\* EnsureProjectReferenceExists: the claim has neither link nor finalizer yet,
\* or its deletion would have been seen.
LEMMA PairReferenceCreated ==
  ASSUME TypeInv, ClaimCopyInv, NEW c \in Claims, PairInv(c), StepOfClaim(c),
         SameClaim(claim'[c], claim[c]), RefCreated(RefName(c)),
         Current(claim'[c], claimCur'[c], "claimCtl") => Current(claim[c], claimCur[c], "claimCtl")
  PROVE  (PairInv(c))'
  <1> DEFINE r == RefName(c)
  <1>1. cw.pc = "ReferenceExists" /\ ~cw.obj.deleting /\ ~refCache[r].exists /\ ~ref[r].exists
    BY CopyFacts DEF StepOfClaim, RefCreated
  <1>2. ref'[r].exists /\ ~ref'[r].deleting /\ ~ref'[r].finalizer /\ refCur'[r] = {}
    BY NewReferenceFields DEF RefCreated, StepOfClaim
  <1>3. (BusyWith(c))' => cw'.pc \notin {"CCSSecretFinalizerDeleted", "ClaimFinalizerDeleted"}
    BY <1>1 DEF StepOfClaim
  <1>4. "refDeleted" \notin Faults => (DeletionSeen(c))' /\ (WorkerHasSeen(c))'
    <2> SUFFICES ASSUME DeletionSeen(c)
                 PROVE  (DeletionSeen(c))' /\ (WorkerHasSeen(c))'
      BY DEF PairInv
    <2>1. ~claim[c].finalizer /\ ~claim[c].link
      BY <1>1, CopyFacts DEF DeletionSeen, Going, Engaged, StepOfClaim
    <2>2. ~Past(c)
      BY <1>1 DEF Past, StepOfClaim
    <2>3. (DeletionSeen(c))'
      BY <1>1, <1>2, <2>1, <2>2 DEF DeletionSeen, StepOfClaim, WorkerStays, SameClaim
    <2>4. (BusyWith(c))' /\ cw'.pc = "Finalizer" => ~Current(claim'[c], claimCur'[c], "claimCtl")
      <3>1. Current(claim[c], claimCur[c], "claimCtl") => SameClaim(cw.obj, claim[c])
        BY <1>1, CurrentCopy DEF StepOfClaim
      <3> QED BY <2>1, <3>1 DEF StepOfClaim, SameClaim
    <2>5. (WorkerHasSeen(c))'
      BY <1>2, <1>3, <2>4 DEF WorkerHasSeen
    <2> QED BY <2>3, <2>5
  <1> QED BY <1>2, <1>3, <1>4 DEF PairInv, Current

\* EnsureProjectReferenceLink and EnsureFinalizer.
LEMMA PairLinked ==
  ASSUME TypeInv, ClaimCopyInv, NEW c \in Claims, PairInv(c), StepOfClaim(c), RefKept(RefName(c)),
         Current(claim[c], claimCur[c], "claimCtl"), cw'.pc = "Condition",
         claim'[c].exists, ~claim'[c].deleting,
         \/ cw.pc = "ReferenceLink" /\ claim'[c].finalizer = claim[c].finalizer
         \/ cw.pc = "Finalizer" /\ claim'[c].finalizer
  PROVE  (PairInv(c))'
  <1> DEFINE r == RefName(c)
  <1>1. ~cw.obj.deleting
    BY CopyFacts DEF StepOfClaim
  <1>2. ~claim[c].deleting
    <2>1. SameClaim(cw.obj, claim[c])
      BY CurrentCopy DEF StepOfClaim
    <2> QED BY <1>1, <2>1 DEF SameClaim
  <1>3. "refDeleted" \notin Faults => (DeletionSeen(c))' /\ (WorkerHasSeen(c))'
    <2> SUFFICES ASSUME DeletionSeen(c), WorkerHasSeen(c)
                 PROVE  (DeletionSeen(c))' /\ (WorkerHasSeen(c))'
      BY DEF PairInv
    <2>1. ref[r].exists /\ (claim'[c].finalizer => refCache[r].exists)
      BY DEF WorkerHasSeen, DeletionSeen, StepOfClaim
    <2>2. ~ref[r].deleting /\ ~claimCache[c].deleting
      BY <1>1, <1>2, <2>1 DEF DeletionSeen, Going, Past
    <2>3. (DeletionSeen(c))'
      BY <1>1, <2>1, <2>2 DEF DeletionSeen, StepOfClaim, WorkerStays, RefKept
    <2>4. (WorkerHasSeen(c))'
      BY DEF WorkerHasSeen
    <2> QED BY <2>3, <2>4
  <1> QED BY <1>3 DEF PairInv, StepOfClaim, RefKept, Current

\* EnsureProjectClaimFinalizerDeleted: claim and reference are gone.
LEMMA PairGone ==
  ASSUME TypeInv, ClaimCopyInv, ReferenceCopyInv, NEW c \in Claims, PairInv(c), StepOfClaim(c),
         RefKept(RefName(c)), Current(claim[c], claimCur[c], "claimCtl"),
         cw.pc = "ClaimFinalizerDeleted", cw'.pc = "Condition", claim'[c] = NoClaim
  PROVE  (PairInv(c))'
  <1> DEFINE r == RefName(c)
  <1>1. cw.obj.deleting /\ ~ref[r].exists
    BY CopyFacts DEF StepOfClaim, DeletingClaimSteps, PairInv
  <1>2. claim[c].finalizer /\ claim[c].exists
    <2>1. SameClaim(cw.obj, claim[c])
      BY CurrentCopy DEF StepOfClaim
    <2> QED BY <1>1, <2>1, CopyFacts DEF SameClaim, Current
  <1>3. ~NoClaim.exists /\ ~NoClaim.deleting /\ ~NoClaim.finalizer
    BY DEF NoClaim
  <1>4. "refDeleted" \notin Faults => (DeletionSeen(c))' /\ (WorkerHasSeen(c))'
    <2> SUFFICES ASSUME DeletionSeen(c), WorkerHasSeen(c)
                 PROVE  (DeletionSeen(c))' /\ (WorkerHasSeen(c))'
      BY DEF PairInv
    <2>1. ~refCache[r].exists /\ claimCache[c].deleting
      BY <1>1, <1>2 DEF WorkerHasSeen, DeletionSeen, Going, Engaged, StepOfClaim
    <2>2. (Past(c))'
      BY <1>1, <1>3, <2>1 DEF Past, Engaged, StepOfClaim, WorkerStays, RefKept
    <2>3. (DeletionSeen(c))'
      BY <1>1, <1>3, <2>1, <2>2 DEF DeletionSeen, Engaged, StepOfClaim, RefKept
    <2>4. (WorkerHasSeen(c))'
      BY DEF WorkerHasSeen
    <2> QED BY <2>3, <2>4
  <1> QED BY <1>1, <1>4 DEF PairInv, StepOfClaim, RefKept, Current

\* The steps of the claim controller keep the pairs.
LEMMA ClaimStepPair ==
  ASSUME NamesAreDistinct, DeletionsAreSeen, TypeInv, ClaimCopyInv, ReferenceCopyInv,
         ClaimStep, NEW c \in Claims, PairInv(c)
  PROVE  (PairInv(c))'
  <1>1. CASE c # cw.key
    BY <1>1, OtherClaimPair
  <1>2. CASE c = cw.key
    <2>1. StepOfClaim(c) /\ RefName(c) \in Refs
      BY <1>2, ClaimStepOfClaim DEF Refs
    <2>2. ClaimKept(c) \/ ClaimStored(c)
      BY ClaimStepMoves
    <2>3. RefKept(RefName(c)) \/ RefDeletedByClaim(RefName(c)) \/ RefCreated(RefName(c))
      BY <2>1, ClaimStepRefs
    <2>4. ClaimKept(c) => SameClaim(claim'[c], claim[c])
      BY DEF ClaimKept, SameClaim
    <2>5. Current(claim'[c], claimCur'[c], "claimCtl") => Current(claim[c], claimCur[c], "claimCtl")
      BY <2>2 DEF ClaimKept, ClaimStored, Current
    <2>6. CASE SameClaim(claim'[c], claim[c])
      BY <2>1, <2>3, <2>5, <2>6, PairGoesOn, PairReferenceDeleted, PairReferenceCreated
    <2>7. CASE ~SameClaim(claim'[c], claim[c])
      <3>1. /\ ClaimStored(c) /\ Current(claim[c], claimCur[c], "claimCtl")
            /\ cw'.pc = "Condition" /\ cw.pc \in {"ReferenceLink", "Finalizer", "ClaimFinalizerDeleted"}
        BY <2>2, <2>4, <2>7 DEF ClaimStored
      <3>2. RefKept(RefName(c))
        BY <2>3, <3>1 DEF RefDeletedByClaim, RefCreated
      <3>3. \/ /\ claim'[c].exists /\ ~claim'[c].deleting
               /\ \/ cw.pc = "ReferenceLink" /\ claim'[c].finalizer = claim[c].finalizer
                  \/ cw.pc = "Finalizer" /\ claim'[c].finalizer
            \/ cw.pc = "ClaimFinalizerDeleted" /\ claim'[c] = NoClaim
        BY <2>7, <3>1 DEF ClaimStored
      <3> QED BY <2>1, <3>1, <3>2, <3>3, PairLinked, PairGone
    <2> QED BY <2>6, <2>7
  <1> QED BY <1>1, <1>2

\* The steps of the reference controller keep the pairs: it adds its finalizer
\* only while the claim has one, and what it cleans up is going.
LEMMA ReferenceStepPair ==
  ASSUME TypeInv, ClaimCopyInv, ReferenceCopyInv, ReferenceStep, NEW c \in Claims, PairInv(c)
  PROVE  (PairInv(c))'
  <1> DEFINE r == RefName(c)
  <1>1. r \in Refs /\ rw.pc # "idle"
    BY ReferenceStepMoves DEF Refs
  <1>2. /\ RefKept(r) \/ RefWritten(r)
        /\ UNCHANGED <<refCache, cw>>
    BY <1>1, ReferenceStepRefs
  <1>3. /\ claimCache'[c] = claimCache[c] /\ SameClaim(claim'[c], claim[c])
        /\ "claimCtl" \in claimCur'[c] => "claimCtl" \in claimCur[c]
    BY ReferenceStepClaims DEF ClaimKept, ClaimFilled, SameClaim
  <1>4. rw'.pc # "FinalizerAdded"
    BY ReferenceStepMoves DEF RefWorkerMoves, FinishReference, IdleReferenceWorker
  <1>5. WorkerStays(c) /\ ((BusyWith(c))' <=> BusyWith(c))
    BY <1>2 DEF WorkerStays, BusyWith
  <1>6. CASE ref'[r].exists = ref[r].exists /\ ref'[r].deleting = ref[r].deleting
             /\ (ref'[r].finalizer => ref[r].finalizer \/ claim[c].finalizer)
    <2>1. "refDeleted" \notin Faults => (DeletionSeen(c))' /\ (WorkerHasSeen(c))'
      <3> SUFFICES ASSUME DeletionSeen(c), WorkerHasSeen(c)
                   PROVE  (DeletionSeen(c))' /\ (WorkerHasSeen(c))'
        BY DEF PairInv
      <3>1. Engaged(claim'[c]) <=> Engaged(claim[c])
        BY <1>3 DEF Engaged, SameClaim
      <3>2. (Going(c) => (Going(c))') /\ (Past(c) => (Past(c))')
        BY <1>2, <1>3, <1>5, <1>6, <3>1 DEF Going, Past, SameClaim
      <3>3. (DeletionSeen(c))'
        BY <1>2, <1>3, <1>5, <1>6, <3>1, <3>2 DEF DeletionSeen, SameClaim
      <3>4. (WorkerHasSeen(c))'
        BY <1>2, <1>3, <1>5, <1>6 DEF WorkerHasSeen, Current, SameClaim
      <3> QED BY <3>3, <3>4
    <2> QED BY <1>2, <1>3, <1>4, <1>5, <1>6, <2>1 DEF PairInv, SameClaim
  <1>7. CASE RefKept(r) \/ SameRef(ref'[r], ref[r])
    BY <1>6, <1>7 DEF RefKept, SameRef
  <1>8. CASE /\ r = rw.key /\ Current(ref[r], refCur[r], "refCtl") /\ rw.pc = "FinalizerAdded"
             /\ ref'[r].exists /\ ~ref'[r].deleting
    <2>1. ref[r].exists /\ ~ref[r].deleting
      BY <1>8 DEF Current, ReferenceCopyInv, CopiesAgree, TypeInv, KeysOK
    <2>2. claim[c].finalizer
      BY <1>8 DEF PairInv
    <2>3. ref[r] \in ProjectReference /\ ref'[r] \in ProjectReference
      <3>1. TypeInv'
        BY TypeInvInductive DEF Next
      <3> QED BY <1>1, <3>1 DEF TypeInv, TypeOK
    <2> QED BY <1>6, <1>8, <2>1, <2>2, <2>3 DEF ProjectReference
  <1>9. CASE ref[r].exists /\ ref[r].deleting /\ ref'[r] = NoRef
    <2>1. ~NoRef.exists
      BY DEF NoRef
    <2>2. "refDeleted" \notin Faults => (DeletionSeen(c))' /\ (WorkerHasSeen(c))'
      <3> SUFFICES ASSUME DeletionSeen(c), WorkerHasSeen(c)
                   PROVE  (DeletionSeen(c))' /\ (WorkerHasSeen(c))'
        BY DEF PairInv
      <3>1. Going(c)
        BY <1>9 DEF DeletionSeen
      <3>2. (Going(c))'
        BY <1>2, <1>3, <1>5, <3>1 DEF Going, SameClaim
      <3>3. (DeletionSeen(c))'
        BY <1>2, <1>3, <1>5, <1>9, <2>1, <3>1, <3>2 DEF DeletionSeen, Going, SameClaim
      <3>4. BusyWith(c) => cw.pc \notin {"ReferenceLink", "Finalizer"}
        BY <3>1, CopyFacts DEF Going
      <3>5. (WorkerHasSeen(c))'
        BY <1>2, <1>5, <3>4 DEF WorkerHasSeen
      <3> QED BY <3>3, <3>5
    <2> QED BY <1>2, <1>4, <1>9, <2>1, <2>2 DEF PairInv
  <1> QED BY <1>2, <1>7, <1>8, <1>9 DEF RefWritten, Current

\* A reconcile of a claim begins with what the cache has.
LEMMA StartClaimPair ==
  ASSUME TypeInv, NEW d \in Claims, StartClaim(d), NEW c \in Claims, PairInv(c)
  PROVE  (PairInv(c))'
  <1> DEFINE r == RefName(c)
  <1>1. /\ claim' = claim /\ claimCache' = claimCache /\ refCache' = refCache
        /\ ref' = ref /\ refCur' = refCur /\ rw' = rw
        /\ UNCHANGED cw \/ ClaimWorkerStarts(d)
        /\ claimCur'[c] = claimCur[c] \/ ClaimWorkerStarts(d)
    BY StartClaimMoves DEF caches, refObjs
  <1>2. /\ (BusyWith(c))' =>
             \/ BusyWith(c) /\ UNCHANGED cw /\ claimCur'[c] = claimCur[c]
             \/ /\ ~BusyWith(c) /\ cw'.obj.deleting = claimCache[c].deleting
                /\ cw'.pc \in {"Deletion", "Validated", "Initialized", "RegionSupported"}
    BY <1>1 DEF BusyWith, ClaimWorkerStarts
  <1>3. "refDeleted" \notin Faults => (DeletionSeen(c))' /\ (WorkerHasSeen(c))'
    <2> SUFFICES ASSUME DeletionSeen(c), WorkerHasSeen(c)
                 PROVE  (DeletionSeen(c))' /\ (WorkerHasSeen(c))'
      BY DEF PairInv
    <2>1. Going(c) => (Going(c))'
      BY <1>1, <1>2 DEF Going
    <2>2. Past(c) /\ ((BusyWith(c))' => BusyWith(c) \/ claimCache[c].deleting) => (Past(c))'
      BY <1>1, <1>2 DEF Past
    <2>3. (DeletionSeen(c))'
      BY <1>1, <1>2, <2>1, <2>2 DEF DeletionSeen
    <2>4. (WorkerHasSeen(c))'
      BY <1>1, <1>2 DEF WorkerHasSeen
    <2> QED BY <2>3, <2>4
  <1> QED BY <1>1, <1>2, <1>3 DEF PairInv

\* A reconcile of a reference begins with what the caches have: a claim that
\* waits for its project still has its finalizer, or its reference is gone.
LEMMA StartReferencePair ==
  ASSUME NamesAreDistinct, DeletionsAreSeen, TypeInv, ClaimCopyInv, ReferenceCopyInv,
         NEW s \in Refs, StartReference(s), NEW c \in Claims, PairInv(c)
  PROVE  (PairInv(c))'
  <1> DEFINE r == RefName(c)
  <1>1. /\ claim' = claim /\ claimCache' = claimCache /\ refCache' = refCache
        /\ ref' = ref /\ cw' = cw
        /\ r \in Refs
    BY StartReferenceMoves DEF caches, Refs
  <1>2. "claimCtl" \in claimCur'[c] => "claimCtl" \in claimCur[c]
    BY StartReferenceMoves DEF ClaimRead
  <1>3. "refDeleted" \notin Faults => (DeletionSeen(c))' /\ (WorkerHasSeen(c))'
    BY <1>1, <1>2 DEF PairInv, DeletionSeen, WorkerHasSeen, Going, Past, BusyWith, Current
  <1>4. rw'.pc = "FinalizerAdded" /\ rw'.key = r /\ Current(ref'[r], refCur'[r], "refCtl") =>
          claim[c].finalizer
    <2> SUFFICES ASSUME rw'.pc = "FinalizerAdded", rw'.key = r,
                        Current(ref'[r], refCur'[r], "refCtl")
                 PROVE  claim[c].finalizer
      OBVIOUS
    <2>1. CASE UNCHANGED <<rw, claimCur, refCur>>
      BY <1>1, <2>1 DEF PairInv
    <2>2. CASE RefWorkerStarts(s)
      <3> DEFINE cl == claimCache[refCache[s].owner]
      <3>1. /\ s = r /\ refCache[r].exists /\ CanReadClaim(refCache[r].owner)
            /\ rw'.pc = FirstOperation(refCache[r], cl)
        BY <2>2 DEF RefWorkerStarts
      <3>2. refCache[r].owner = c
        BY <1>1, <3>1 DEF NamesAreDistinct, ReferenceCopyInv, NamedAfterOwner, TypeInv, KeysOK
      <3>3. claimCache[c].state = "PendingProject" /\ ref[r].exists
        BY <1>1, <3>1, <3>2, FirstOperationFacts DEF Current
      <3>4. claimCache[c].finalizer
        BY <3>3 DEF ClaimCopyInv, StatesMatch
      <3>5. CASE "cacheLag" \notin Faults
        BY <3>1, <3>2, <3>4, <3>5 DEF CanReadClaim, ClaimCopyInv, ClaimCopiesAgree
      <3>6. CASE "refDeleted" \notin Faults
        BY <3>3, <3>4, <3>6, CopyFacts DEF PairInv, DeletionSeen, Past
      <3> QED BY <3>5, <3>6 DEF DeletionsAreSeen
    <2> QED BY <2>1, <2>2, StartReferenceMoves
  <1> QED BY <1>1, <1>3, <1>4 DEF PairInv, BusyWith

\* The informers and restarts.
LEMMA SyncPair ==
  ASSUME TypeInv, ClaimCopyInv, NEW c \in Claims, PairInv(c),
         \/ \E d \in Claims : SyncClaim(d)
         \/ \E s \in Refs : SyncRef(s)
         \/ Crash
  PROVE  (PairInv(c))'
  <1> DEFINE r == RefName(c)
  <1>1. /\ r \in Refs
        /\ claimCache \in [Claims -> ProjectClaim] /\ claimCur \in [Claims -> ClaimHolders]
        /\ refCache \in [Refs -> ProjectReference] /\ refCur \in [Refs -> RefHolders]
    BY ClaimObjects, ReferenceParts DEF TypeInv, TypeOK, Refs
  <1>2. claim[c].deleting => claim[c].finalizer
    BY CopyFacts
  <1>3. ASSUME NEW d \in Claims, SyncClaim(d)
        PROVE  (PairInv(c))'
    <2>1. /\ claim' = claim /\ refCache' = refCache /\ ref' = ref /\ refCur' = refCur
          /\ cw' = cw /\ rw' = rw
          /\ "claimCtl" \in claimCur'[c] => "claimCtl" \in claimCur[c]
          /\ claimCache'[c] = claimCache[c] \/ claimCache'[c] = claim[c]
      BY <1>1, <1>3 DEF SyncClaim, refObjs, workers
    <2>2. "refDeleted" \notin Faults => (DeletionSeen(c))' /\ (WorkerHasSeen(c))'
      <3> SUFFICES ASSUME DeletionSeen(c), WorkerHasSeen(c)
                   PROVE  (DeletionSeen(c))' /\ (WorkerHasSeen(c))'
        BY DEF PairInv
      <3>1. (Going(c) => (Going(c))') /\ (Past(c) => (Past(c))')
            /\ ((BusyWith(c))' <=> BusyWith(c))
        BY <2>1 DEF Going, Past, BusyWith
      <3>2. (DeletionSeen(c))'
        BY <2>1, <3>1 DEF DeletionSeen
      <3>3. (WorkerHasSeen(c))'
        BY <2>1, <3>1 DEF WorkerHasSeen, Current
      <3> QED BY <3>2, <3>3
    <2> QED BY <2>1, <2>2 DEF PairInv, BusyWith
  <1>4. ASSUME NEW s \in Refs, SyncRef(s)
        PROVE  (PairInv(c))'
    <2>1. /\ claim' = claim /\ claimCur' = claimCur /\ claimCache' = claimCache /\ ref' = ref
          /\ cw' = cw /\ rw' = rw
          /\ "refCtl" \in refCur'[r] => "refCtl" \in refCur[r]
          /\ refCache'[r] = refCache[r] \/ refCache'[r] = ref[r]
      BY <1>1, <1>4 DEF SyncRef, claimObjs, workers
    <2>2. "refDeleted" \notin Faults => (DeletionSeen(c))' /\ (WorkerHasSeen(c))'
      <3> SUFFICES ASSUME DeletionSeen(c), WorkerHasSeen(c)
                   PROVE  (DeletionSeen(c))' /\ (WorkerHasSeen(c))'
        BY DEF PairInv
      <3>1. (Going(c) => (Going(c))') /\ (Past(c) => (Past(c))')
            /\ ((BusyWith(c))' <=> BusyWith(c))
        BY <2>1 DEF Going, Past, BusyWith
      <3>2. (DeletionSeen(c))'
        BY <2>1, <3>1 DEF DeletionSeen
      <3>3. (WorkerHasSeen(c))'
        BY <2>1, <3>1 DEF WorkerHasSeen, Current, PairInv
      <3> QED BY <3>2, <3>3
    <2> QED BY <2>1, <2>2 DEF PairInv, BusyWith, Current
  <1>5. CASE Crash
    <2>1. /\ claim' = claim /\ claimCache' = claim /\ refCache' = ref /\ ref' = ref
          /\ cw'.pc = "idle" /\ rw'.pc = "idle"
      BY <1>5 DEF Crash, IdleClaimWorker, IdleReferenceWorker
    <2>2. "refDeleted" \notin Faults => (DeletionSeen(c))' /\ (WorkerHasSeen(c))'
      BY <2>1 DEF PairInv, DeletionSeen, WorkerHasSeen, Going, BusyWith
    <2> QED BY <2>1, <2>2 DEF PairInv, BusyWith
  <1> QED BY <1>3, <1>4, <1>5

\* The user: a claim with a finalizer stays, and a new one begins with nothing.
LEMMA UserPair ==
  ASSUME TypeInv, ClaimCopyInv, NEW d \in Claims,
         CreateClaim(d) \/ DeleteClaim(d) \/ EditClaim(d), NEW c \in Claims, PairInv(c)
  PROVE  (PairInv(c))'
  <1> DEFINE r == RefName(c)
  <1>1. /\ claimCache' = claimCache /\ refCache' = refCache
        /\ ref' = ref /\ refCur' = refCur /\ cw' = cw /\ rw' = rw
        /\ \/ claim'[c] = claim[c] /\ claimCur'[c] = claimCur[c]
           \/ ClaimChangedByUser(c)
    BY UserMoves DEF caches, refObjs, workers
  <1>2. /\ claim[c].deleting => claim[c].finalizer
        /\ claim[c].finalizer \/ claim[c].link => claim[c].exists
    BY CopyFacts
  <1>3. ~NoClaim.exists /\ ~NoClaim.deleting /\ ~NoClaim.finalizer
    BY DEF NoClaim
  <1>4. (BusyWith(c))' <=> BusyWith(c)
    BY <1>1 DEF BusyWith
  <1>5. claim'[c].finalizer <=> claim[c].finalizer
    BY <1>1, <1>2, <1>3 DEF ClaimChangedByUser, SameClaim
  <1>6. "claimCtl" \in claimCur'[c] =>  claim'[c] = claim[c] /\ "claimCtl" \in claimCur[c]
    BY <1>1 DEF ClaimChangedByUser
  <1>7. "refDeleted" \notin Faults => (DeletionSeen(c))' /\ (WorkerHasSeen(c))'
    <2> SUFFICES ASSUME DeletionSeen(c), WorkerHasSeen(c)
                 PROVE  (DeletionSeen(c))' /\ (WorkerHasSeen(c))'
      BY DEF PairInv
    <2>1. Engaged(claim'[c]) => Engaged(claim[c])
      BY <1>1, <1>3 DEF Engaged, ClaimChangedByUser, SameClaim
    <2>2. claim[c].deleting => claim'[c].deleting
      BY <1>1, <1>2 DEF ClaimChangedByUser, SameClaim
    <2>3. (Going(c) => (Going(c))') /\ (Past(c) => (Past(c))')
      BY <1>1, <1>4, <2>1, <2>2 DEF Going, Past
    <2>4. (DeletionSeen(c))'
      BY <1>1, <1>4, <1>5, <2>1, <2>2, <2>3 DEF DeletionSeen
    <2>5. (WorkerHasSeen(c))'
      BY <1>1, <1>4, <1>6 DEF WorkerHasSeen, Current
    <2> QED BY <2>4, <2>5
  <1> QED BY <1>1, <1>4, <1>5, <1>7 DEF PairInv

\* A reference deleted by hand takes nothing from the claim.
LEMMA AdminPair ==
  ASSUME TypeInv, NEW s \in Refs, AdminDeletesReference(s), NEW c \in Claims, PairInv(c)
  PROVE  (PairInv(c))'
  <1> DEFINE r == RefName(c)
  <1>1. "refDeleted" \in Faults /\ r \in Refs /\ ref \in [Refs -> ProjectReference]
        /\ refCur \in [Refs -> RefHolders] /\ ref[r] \in ProjectReference
    BY DEF AdminDeletesReference, Faulty, Refs, TypeInv, TypeOK, RefHolders
  <1>2. /\ claim' = claim /\ cw' = cw /\ rw' = rw
        /\ \/ ref'[r] = ref[r] /\ refCur'[r] = refCur[r]
           \/ ref'[r] = Deleted(ref[r], NoRef) /\ refCur'[r] = {} /\ ref[r].exists
    BY <1>1 DEF AdminDeletesReference, claimObjs, workers
  <1>3. ~NoRef.exists
    BY DEF NoRef
  <1>4. ref'[r].exists => ref[r].exists /\ (ref'[r].finalizer => ref[r].finalizer)
    BY <1>1, <1>2, <1>3, DeletedRef
  <1> QED BY <1>1, <1>2, <1>4 DEF PairInv, BusyWith, Current

\* HeldInv is inductive relative to TypeInv and the invariants of the copies.
LEMMA HeldInductive ==
  ASSUME NamesAreDistinct, DeletionsAreSeen
  PROVE  TypeInv /\ ClaimCopyInv /\ ReferenceCopyInv /\ HeldInv /\ [Next]_vars
           /\ TypeInv' /\ ClaimCopyInv' /\ ReferenceCopyInv' => HeldInv'
  <1> SUFFICES ASSUME TypeInv, ClaimCopyInv, ReferenceCopyInv, HeldInv, [Next]_vars,
                      TypeInv', ClaimCopyInv', ReferenceCopyInv'
               PROVE  HeldInv'
    OBVIOUS
  <1>1. ASSUME NEW c \in Claims
        PROVE  (PairInv(c))'
    <2>1. PairInv(c)
      BY HeldByPairs
    <2>2. ASSUME UNCHANGED <<claimObjs, claimCache, refObjs, refCache, workers>>
          PROVE  (PairInv(c))'
      <3>1. /\ claim' = claim /\ claimCur' = claimCur /\ claimCache' = claimCache
            /\ ref' = ref /\ refCur' = refCur /\ refCache' = refCache /\ cw' = cw /\ rw' = rw
        BY <2>2 DEF claimObjs, refObjs, workers
      <3> QED BY <2>1, <3>1 DEF PairInv, DeletionSeen, WorkerHasSeen, Going, Past, BusyWith
    <2>3. CASE ClaimStep
      BY <2>1, <2>3, ClaimStepPair
    <2>4. CASE ReferenceStep
      BY <2>1, <2>4, ReferenceStepPair
    <2>5. CASE Manager
      BY <2>1, <2>2, <2>5, StartClaimPair, StartReferencePair, SyncPair, OtherSteps DEF Manager
    <2>6. CASE Environment
      BY <2>1, <2>2, <2>6, UserPair, AdminPair, OtherSteps DEF Environment
    <2>7. CASE UNCHANGED vars
      BY <2>2, <2>7, OtherSteps
    <2> QED BY <2>3, <2>4, <2>5, <2>6, <2>7 DEF Next
  <1>2. (\A c \in Claims : PairInv(c))'
    BY <1>1
  <1> QED BY <1>2, HeldByPairsNext

\* The claim of a reference with finalizer, the worker that removes the claim's
\* finalizer and the one that adds the reference's: in every reachable state
\* they agree, if no two claims share a name and the caches are not behind
\* while references are deleted by hand.
THEOREM ReferencesAreHeld ==
  ASSUME NamesAreDistinct, DeletionsAreSeen
  PROVE  Spec => []HeldInv
  <1>1. Init => HeldInv
    <2> SUFFICES ASSUME Init PROVE HeldInv OBVIOUS
    <2>1. TypeInv /\ ClaimCopyInv /\ ReferenceCopyInv
      BY InitTypeInv, InitClaimCopy, InitReferenceCopy
    <2> QED BY <2>1, InitPair, HeldByPairs
  <1>2. TypeInv /\ ClaimCopyInv /\ ReferenceCopyInv /\ HeldInv /\ [Next]_vars
          /\ TypeInv' /\ ClaimCopyInv' /\ ReferenceCopyInv' => HeldInv'
    BY HeldInductive
  <1>3. Spec => []TypeInv
    BY KeysCorrect
  <1>4. Spec => []ClaimCopyInv
    BY ClaimCopies
  <1>5. Spec => []ReferenceCopyInv
    BY ReferenceCopies
  <1> QED BY <1>1, <1>2, <1>3, <1>4, <1>5, PTL DEF Spec

\* A reference that owns GCP resources never loses the claim without which
\* NewReferenceAdapter fails: whatever the two controllers interleave, whatever
\* fails, is lost or is restarted, as long as caches that are behind and
\* references deleted by hand do not come together.
THEOREM FinalizedReferencesHaveClaims ==
  ASSUME NamesAreDistinct, DeletionsAreSeen
  PROVE  Spec => []FinalizedReferenceHasClaim
  <1>1. HeldInv => FinalizedReferenceHasClaim
    BY DEF HeldInv
  <1>2. Spec => []HeldInv
    BY ReferencesAreHeld
  <1> QED BY <1>1, <1>2, PTL
=============================================================================
