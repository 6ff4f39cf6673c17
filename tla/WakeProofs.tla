----------------------------- MODULE WakeProofs -----------------------------
(***************************************************************************)
(* No wake-up is lost (NoLostWakeup): the operator comes to rest only when *)
(* every claim is Ready.  The invariants are those of WakeInvariant.       *)
(***************************************************************************)
EXTENDS ProvisionProofs, WakeInvariant

-----------------------------------------------------------------------------
(* The holders of the stored version of a claim.                           *)

\* What the holders of claim c are after a write by h, or without one.
HoldersAfter(h, c) ==
  \/ claim'[c] = claim[c] /\ claimCur'[c] = claimCur[c]
  \/ claimCur'[c] \subseteq {h}

\* A write of a claim makes the writer the only holder, if anyone.
LEMMA WritesMoveHolders ==
  ASSUME TypeInv, NEW h, NEW k \in Claims, NEW o, NEW t \in BOOLEAN, NEW ok \in BOOLEAN,
         UpdateClaim(h, k, o, ok) \/ UpdateClaimStatus(h, k, o, t, ok), NEW c \in Claims
  PROVE  HoldersAfter(h, c)
  <1>1. Stores(h, k, ClaimUpdate(o, claim[k])) \/ Stores(h, k, ClaimStatusUpdate(o, claim[k]))
    BY UpdateClaimStores, UpdateClaimStatusStores
  <1> QED BY <1>1 DEF Stores, HoldersAfter

\* An operation of the ProjectClaim controller leaves the holders of a claim
\* alone, or its write makes the worker the only one.
LEMMA ClaimStepHolders ==
  ASSUME TypeInv, ClaimStep, ~FinishClaim, NEW c \in Claims
  PROVE  HoldersAfter("claimCtl", c)
  <1>1. cw.pc # "idle" => cw.key \in Claims
    BY DEF TypeInv, KeysOK
  <1>2. ASSUME cw.pc # "idle", NEW o, NEW t \in BOOLEAN, SaveClaim(o) \/ SaveClaimStatus(o, t)
        PROVE  HoldersAfter("claimCtl", c)
    BY <1>1, <1>2, WritesMoveHolders DEF SaveClaim, SaveClaimStatus
  <1>3. CASE \/ EnsureProjectClaimValidated \/ EnsureProjectClaimInitialized
             \/ EnsureProjectClaimStatePending \/ EnsureProjectReferenceLink
             \/ EnsureFinalizer \/ EnsureProjectClaimStatePendingProject
    BY <1>2, <1>3 DEF EnsureProjectClaimValidated, EnsureProjectClaimInitialized,
         EnsureProjectClaimStatePending, EnsureProjectReferenceLink, EnsureFinalizer,
         EnsureProjectClaimStatePendingProject
  <1>4. CASE EnsureRegionSupported
    BY <1>2, <1>4 DEF EnsureRegionSupported, claimObjs, HoldersAfter
  <1>5. CASE EnsureProjectClaimFinalizerDeleted
    BY <1>1, <1>5, WritesMoveHolders DEF EnsureProjectClaimFinalizerDeleted, claimObjs, HoldersAfter
  <1>6. CASE \/ FinalizeReference \/ FinalizeWithoutReference \/ EnsureCCSSecretFinalizerDeleted
             \/ EnsureProjectReferenceExists \/ EnsureCCSSecretFinalizer
    BY <1>6 DEF FinalizeReference, FinalizeWithoutReference, EnsureCCSSecretFinalizerDeleted,
         EnsureProjectReferenceExists, EnsureCCSSecretFinalizer, claimObjs, HoldersAfter
  <1> QED BY <1>3, <1>4, <1>5, <1>6 DEF ClaimStep

\* A write of the claim's status stores or refuses; the worker then lets go.
LEMMA FinishClaimHolders ==
  ASSUME TypeInv, FinishClaim, NEW c \in Claims
  PROVE  \/ "cache" \notin claimCur'[c]
         \/ claim'[c] = claim[c] /\ ("cache" \in claimCur'[c] => "cache" \in claimCur[c])
  <1> DEFINE k == cw.key
  <1>1. k \in Claims /\ claim \in [Claims -> ProjectClaim] /\ claimCur \in [Claims -> ClaimHolders]
    BY ClaimObjects DEF FinishClaim
  <1>2. CASE ~ErrorConditionDue(cw.obj, cw.out)
    BY <1>1, <1>2 DEF FinishClaim
  <1>3. CASE ErrorConditionDue(cw.obj, cw.out)
    <2> DEFINE new == ClaimStatusUpdate(ErrorCondition(cw.obj, cw.out), claim[k])
    <2>1. PICK t \in BOOLEAN : \E w \in Replies("claimCtl", claim[k], claimCur[k], new, t) :
            /\ claim' = [claim EXCEPT ![k] = w.obj]
            /\ claimCur' = [claimCur EXCEPT ![k] = w.cur \ {"claimCtl"}]
      BY <1>3 DEF FinishClaim
    <2>2. PICK w \in Replies("claimCtl", claim[k], claimCur[k], new, t) :
            /\ claim' = [claim EXCEPT ![k] = w.obj]
            /\ claimCur' = [claimCur EXCEPT ![k] = w.cur \ {"claimCtl"}]
      BY <2>1
    <2> HIDE DEF new, k
    <2>3. \/ w.obj = claim[k] /\ w.cur = claimCur[k]
          \/ w.cur = {"claimCtl"} \/ w.cur = {}
      BY <2>2, RepliesFacts
    <2> QED BY <1>1, <2>2, <2>3
  <1> QED BY <1>2, <1>3

\* A step of the ProjectReference controller leaves the holders of a claim
\* alone but for its own worker, or its write makes that worker the only one.
LEMMA ReferenceStepHolders ==
  ASSUME TypeInv, ReferenceStep, NEW c \in Claims
  PROVE  \/ claimCur'[c] \subseteq {"refCtl"}
         \/ /\ claim'[c] = claim[c]
            /\ claimCur'[c] = claimCur[c] \/ claimCur'[c] = claimCur[c] \ {"refCtl"}
  <1>1. /\ rw.pc # "idle" => rw.ref.owner \in Claims
        /\ claimCur \in [Claims -> ClaimHolders]
    BY ReferenceParts
  <1>2. CASE FinishReference
    BY <1>1, <1>2 DEF FinishReference
  <1>3. CASE EnsureClaimAvailabilityZonesSet \/ EnsureClaimProjectIDSet \/ EnsureProjectClaimReady
    <2>1. HoldersAfter("refCtl", c)
      BY <1>1, <1>3, WritesMoveHolders DEF EnsureClaimAvailabilityZonesSet,
           EnsureClaimProjectIDSet, EnsureProjectClaimReady
    <2> QED BY <2>1 DEF HoldersAfter
  <1>4. CASE UNCHANGED claimObjs
    BY <1>4 DEF claimObjs
  <1>5. \/ FinishReference \/ UNCHANGED claimObjs
        \/ EnsureClaimAvailabilityZonesSet \/ EnsureClaimProjectIDSet \/ EnsureProjectClaimReady
    BY CloudMoves
       DEF ReferenceStep, EnsureProjectReferenceInitialized,
           EnsureProjectReferenceStatusCreating, EnsureServiceAccountName,
           EnsureFinalizerAdded, EnsureStateReady, ProjectInactive, ClearProjectID,
           EnsureFinalizerDeleted, EnsureProjectID, HandleAvailabilityZonesError
  <1> QED BY <1>2, <1>3, <1>4, <1>5

\* Nobody but StartClaim takes a claim off the queue, and only a restart
\* forgets the workers.
LEMMA StepClaimQueue ==
  ASSUME [Next]_vars, ~Crash
  PROVE  /\ \A c \in Claims : c \in claimQ => c \in claimQ' \/ StartClaim(c)
         /\ ClaimStep \/ (\E c \in Claims : StartClaim(c)) \/ cw' = cw
  <1>1. CASE ClaimStep
    BY <1>1, Zenon DEF ClaimStep, FinalizeReference, FinalizeWithoutReference,
         EnsureCCSSecretFinalizerDeleted, EnsureProjectClaimFinalizerDeleted,
         EnsureProjectClaimValidated, EnsureProjectClaimInitialized, EnsureRegionSupported,
         EnsureProjectClaimStatePending, EnsureProjectReferenceExists,
         EnsureProjectReferenceLink, EnsureFinalizer, EnsureCCSSecretFinalizer,
         EnsureProjectClaimStatePendingProject, FinishClaim, queues
  <1>2. CASE ReferenceStep
    BY <1>2, Zenon DEF ReferenceStep, EnsureProjectReferenceInitialized,
           EnsureProjectReferenceStatusCreating, EnsureServiceAccountName,
           EnsureFinalizerAdded, EnsureStateReady, ProjectInactive, ClearProjectID,
           EnsureFinalizerDeleted, EnsureProjectID, HandleAvailabilityZonesError,
           EnsureClaimAvailabilityZonesSet, EnsureClaimProjectIDSet, EnsureProjectClaimReady,
           DeletePolicy, DeleteServiceAccount, DeleteProject, DeleteConsoleAccess,
           DeleteCredentials, ListProjectsFails, ProjectFound, ProjectMissing,
           ConfigureBillingAPI, ConfigureAPIS, ConfigureServiceAccount, SetIAMPolicy,
           CreateKey, CreateSecret, SetConsoleAccess, FinishReference, queues
  <1>3. CASE Manager
    BY <1>3 DEF Manager, StartClaim, SyncClaim, SyncSecret, StartReference, SyncRef, Resync,
         queues, workers
  <1>4. CASE Environment \/ UNCHANGED vars
    BY <1>4, Zenon DEF Environment, CreateClaim, DeleteClaim, EditClaim, SetRegion, SetCCSSecret,
         AdminDeletesProject, AdminDeletesReference, Stabilise, vars, queues, workers
  <1> QED BY <1>1, <1>2, <1>3, <1>4 DEF Next

\* What one step does to claim c: it is changed, or the cache stays behind, or
\* it is as before, and who was to look at it still is.
ClaimMoves(c) ==
  \/ "cache" \notin claimCur'[c]
  \/ /\ claim'[c] = claim[c]
     /\ "cache" \in claimCur[c] \/ c \in claimQ'
     /\ "claimCtl" \in claimCur[c] => "claimCtl" \in claimCur'[c] \/ cw'.pc = "idle"

\* Every step but a restart does that to every claim.
LEMMA StepMovesClaim ==
  ASSUME TypeInv, ClaimCopyInv, [Next]_vars, ~Crash, NEW c \in Claims
  PROVE  ClaimMoves(c)
  <1>1. CASE ClaimStep /\ ~FinishClaim
    BY <1>1, ClaimStepHolders DEF HoldersAfter, ClaimMoves
  <1>2. CASE FinishClaim
    BY <1>2, FinishClaimHolders DEF ClaimMoves, FinishClaim, IdleClaimWorker
  <1>3. CASE ReferenceStep
    BY <1>3, ReferenceStepHolders DEF ClaimMoves
  <1>4. CASE \E d \in Claims : StartClaim(d)
    BY <1>4, StartClaimMoves DEF ClaimMoves, ClaimRead
  <1>5. CASE \E r \in Refs : StartReference(r)
    BY <1>5, StartReferenceMoves DEF ClaimMoves, ClaimRead
  <1>6. CASE \E d \in Claims : SyncClaim(d)
    <2>1. claimCur \in [Claims -> ClaimHolders]
      BY ClaimObjects
    <2> QED BY <1>6, <2>1 DEF SyncClaim, ClaimMoves
  <1>7. CASE \E d \in Claims : CreateClaim(d) \/ DeleteClaim(d) \/ EditClaim(d)
    BY <1>7, UserMoves DEF ClaimMoves, ClaimChangedByUser
  <1>8. CASE UNCHANGED claimObjs
    BY <1>8 DEF claimObjs, ClaimMoves
  <1>9. CASE Manager
    BY <1>4, <1>5, <1>6, <1>8, <1>9 DEF Manager, SyncSecret, SyncRef, Resync
  <1>10. CASE Environment \/ UNCHANGED vars
    BY <1>7, <1>8, <1>10 DEF Environment, SetRegion, SetCCSSecret, AdminDeletesProject,
         AdminDeletesReference, Stabilise, vars
  <1> QED BY <1>1, <1>2, <1>3, <1>9, <1>10 DEF Next

-----------------------------------------------------------------------------
(* The same for references.                                                *)

RefHoldersAfter(r) ==
  \/ ref'[r] = ref[r] /\ refCur'[r] = refCur[r]
  \/ refCur'[r] \subseteq {"refCtl"}

\* A write of a reference makes the worker the only holder, if anyone.
LEMMA RefWritesMoveHolders ==
  ASSUME TypeInv, rw.pc # "idle", NEW o, NEW t \in BOOLEAN, NEW ok,
         UpdateRef(rw.key, o, ok) \/ UpdateRefStatus(rw.key, o, t, ok), NEW r \in Refs
  PROVE  RefHoldersAfter(r)
  <1> DEFINE k == rw.key
  <1>1. k \in Refs /\ ref \in [Refs -> ProjectReference] /\ refCur \in [Refs -> RefHolders]
    BY ReferenceParts
  <1>2. ASSUME NEW new, NEW u \in BOOLEAN,
               \E w \in Replies("refCtl", ref[k], refCur[k], new, u) :
                 ref' = [ref EXCEPT ![k] = w.obj] /\ refCur' = [refCur EXCEPT ![k] = w.cur]
        PROVE  RefHoldersAfter(r)
    <2> HIDE DEF k
    <2>1. PICK w \in Replies("refCtl", ref[k], refCur[k], new, u) :
            ref' = [ref EXCEPT ![k] = w.obj] /\ refCur' = [refCur EXCEPT ![k] = w.cur]
      BY <1>2
    <2>2. \/ w.obj = ref[k] /\ w.cur = refCur[k]
          \/ w.cur = {"refCtl"} \/ w.cur = {}
      BY <2>1, RepliesFacts
    <2> QED BY <1>1, <2>1, <2>2 DEF RefHoldersAfter
  <1>3. CASE UpdateRef(k, o, ok)
    BY <1>2, <1>3 DEF UpdateRef
  <1>4. CASE UpdateRefStatus(k, o, t, ok)
    BY <1>2, <1>4 DEF UpdateRefStatus
  <1> QED BY <1>3, <1>4

\* An operation of the ProjectReference controller leaves the holders of a
\* reference alone, or its write makes the worker the only one.
LEMMA ReferenceStepRefHolders ==
  ASSUME TypeInv, ReferenceStep, ~FinishReference, NEW r \in Refs
  PROVE  RefHoldersAfter(r)
  <1>1. rw.pc # "idle"
    BY ReferenceStepMoves
  <1>2. ASSUME NEW o, SaveRef(o) \/ SaveRefStatus(o)
        PROVE  RefHoldersAfter(r)
    BY <1>1, <1>2, RefWritesMoveHolders DEF SaveRef, SaveRefStatus
  <1>3. UNCHANGED refObjs => RefHoldersAfter(r)
    BY DEF refObjs, RefHoldersAfter
  <1>4. CASE \/ EnsureProjectReferenceInitialized \/ EnsureProjectReferenceStatusCreating
             \/ EnsureServiceAccountName \/ EnsureFinalizerAdded \/ EnsureStateReady
             \/ ProjectInactive
    BY <1>2, <1>4 DEF EnsureProjectReferenceInitialized, EnsureProjectReferenceStatusCreating,
         EnsureServiceAccountName, EnsureFinalizerAdded, EnsureStateReady, ProjectInactive
  <1>5. CASE EnsureProjectID
    BY <1>2, <1>3, <1>5 DEF EnsureProjectID, refObjs
  <1>6. CASE ClearProjectID \/ EnsureFinalizerDeleted \/ HandleAvailabilityZonesError
    BY <1>1, <1>3, <1>6, RefWritesMoveHolders
       DEF ClearProjectID, EnsureFinalizerDeleted, HandleAvailabilityZonesError
  <1>7. CASE EnsureClaimAvailabilityZonesSet \/ EnsureClaimProjectIDSet \/ EnsureProjectClaimReady
    BY <1>3, <1>7 DEF EnsureClaimAvailabilityZonesSet, EnsureClaimProjectIDSet,
         EnsureProjectClaimReady
  <1>8. CASE \/ DeletePolicy \/ DeleteServiceAccount \/ DeleteProject \/ DeleteConsoleAccess
             \/ DeleteCredentials \/ ListProjectsFails \/ ProjectFound \/ ProjectMissing
             \/ ConfigureBillingAPI \/ ConfigureAPIS \/ ConfigureServiceAccount \/ SetIAMPolicy
             \/ CreateKey \/ CreateSecret \/ SetConsoleAccess
    BY <1>3, <1>8, CloudMoves
  <1> QED BY <1>4, <1>5, <1>6, <1>7, <1>8 DEF ReferenceStep

\* FinishReference writes the status or not; the worker then lets go.
LEMMA FinishReferenceHolders ==
  ASSUME TypeInv, FinishReference, NEW r \in Refs
  PROVE  \/ "cache" \notin refCur'[r]
         \/ ref'[r] = ref[r] /\ ("cache" \in refCur'[r] => "cache" \in refCur[r])
  <1> DEFINE k == rw.key
  <1>1. k \in Refs /\ ref \in [Refs -> ProjectReference] /\ refCur \in [Refs -> RefHolders]
    BY ReferenceParts DEF FinishReference
  <1>2. CASE ~ReferenceConditionDue(rw.ref, rw.out)
    BY <1>1, <1>2 DEF FinishReference
  <1>3. CASE ReferenceConditionDue(rw.ref, rw.out)
    <2> DEFINE new == RefStatusUpdate(ReferenceCondition(rw.ref, rw.out), ref[k])
    <2>1. PICK t \in BOOLEAN : \E w \in Replies("refCtl", ref[k], refCur[k], new, t) :
            /\ ref' = [ref EXCEPT ![k] = w.obj]
            /\ refCur' = [refCur EXCEPT ![k] = w.cur \ {"refCtl"}]
      BY <1>3 DEF FinishReference
    <2>2. PICK w \in Replies("refCtl", ref[k], refCur[k], new, t) :
            /\ ref' = [ref EXCEPT ![k] = w.obj]
            /\ refCur' = [refCur EXCEPT ![k] = w.cur \ {"refCtl"}]
      BY <2>1
    <2> HIDE DEF new, k
    <2>3. \/ w.obj = ref[k] /\ w.cur = refCur[k]
          \/ w.cur = {"refCtl"} \/ w.cur = {}
      BY <2>2, RepliesFacts
    <2> QED BY <1>1, <2>2, <2>3
  <1> QED BY <1>2, <1>3

\* The ProjectClaim controller leaves a reference as it is, or makes or deletes
\* it, and then nobody holds the stored version.
LEMMA ClaimStepRefHolders ==
  ASSUME TypeInv, ReferenceCopyInv, ClaimStep, NEW r \in Refs
  PROVE  (ref'[r] = ref[r] /\ refCur'[r] = refCur[r]) \/ refCur'[r] = {}
  <1>1. UNCHANGED refObjs \/ FinalizeReference \/ EnsureProjectReferenceExists
    BY DEF ClaimStep, FinalizeWithoutReference,
         EnsureCCSSecretFinalizerDeleted, EnsureProjectClaimFinalizerDeleted,
         EnsureProjectClaimValidated, EnsureProjectClaimInitialized, EnsureRegionSupported,
         EnsureProjectClaimStatePending,
         EnsureProjectReferenceLink, EnsureFinalizer, EnsureCCSSecretFinalizer,
         EnsureProjectClaimStatePendingProject, FinishClaim
  <1>2. /\ ref \in [Refs -> ProjectReference] /\ refCur \in [Refs -> RefHolders]
        /\ cw.pc # "idle" => cw.key \in Claims /\ RefName(cw.key) \in Refs
    BY ReferenceParts, ClaimParts
  <1>3. CASE FinalizeReference
    <2> DEFINE k == RefName(cw.key)
    <2>1. CASE /\ ref[k].exists /\ ref' = [ref EXCEPT ![k] = Deleted(@, NoRef)]
               /\ refCur' = [refCur EXCEPT ![k] = IF ref[k].deleting THEN @ ELSE {}]
      <3>1. k \in Refs
        BY <1>2, <1>3 DEF FinalizeReference
      <3> HIDE DEF k
      <3>2. CASE r # k
        BY <1>2, <2>1, <3>1, <3>2
      <3>3. CASE r = k
        <4>1. RefDeleted(r)
          BY <1>2, <2>1, <3>1, <3>3 DEF RefDeleted
        <4>2. RefKept(r) \/ refCur'[r] = {}
          BY <4>1, DeletionMovesOn DEF RefMovesOn
        <4> QED BY <1>2, <2>1, <3>1, <3>3, <4>2 DEF RefKept
      <3> QED BY <3>2, <3>3
    <2>2. CASE UNCHANGED refObjs
      BY <2>2 DEF refObjs
    <2> QED BY <1>3, <2>1, <2>2 DEF FinalizeReference
  <1>4. CASE EnsureProjectReferenceExists
    BY <1>2, <1>4 DEF EnsureProjectReferenceExists, refObjs
  <1> QED BY <1>1, <1>3, <1>4 DEF refObjs

\* Nobody but StartReference takes a reference off the queue, and only a restart
\* forgets the worker.
LEMMA StepRefQueue ==
  ASSUME [Next]_vars, ~Crash
  PROVE  /\ \A r \in Refs : r \in refQ => r \in refQ' \/ StartReference(r)
         /\ ReferenceStep \/ (\E r \in Refs : StartReference(r)) \/ rw' = rw
  <1>1. CASE ClaimStep
    BY <1>1, Zenon DEF ClaimStep, FinalizeReference, FinalizeWithoutReference,
         EnsureCCSSecretFinalizerDeleted, EnsureProjectClaimFinalizerDeleted,
         EnsureProjectClaimValidated, EnsureProjectClaimInitialized, EnsureRegionSupported,
         EnsureProjectClaimStatePending, EnsureProjectReferenceExists,
         EnsureProjectReferenceLink, EnsureFinalizer, EnsureCCSSecretFinalizer,
         EnsureProjectClaimStatePendingProject, FinishClaim, queues
  <1>2. CASE ReferenceStep /\ ~FinishReference
    BY <1>2, Zenon DEF ReferenceStep, EnsureProjectReferenceInitialized,
           EnsureProjectReferenceStatusCreating, EnsureServiceAccountName,
           EnsureFinalizerAdded, EnsureStateReady, ProjectInactive, ClearProjectID,
           EnsureFinalizerDeleted, EnsureProjectID, HandleAvailabilityZonesError,
           EnsureClaimAvailabilityZonesSet, EnsureClaimProjectIDSet, EnsureProjectClaimReady,
           DeletePolicy, DeleteServiceAccount, DeleteProject, DeleteConsoleAccess,
           DeleteCredentials, ListProjectsFails, ProjectFound, ProjectMissing,
           ConfigureBillingAPI, ConfigureAPIS, ConfigureServiceAccount, SetIAMPolicy,
           CreateKey, CreateSecret, SetConsoleAccess, queues
  <1>3. CASE FinishReference
    BY <1>3 DEF FinishReference, ReferenceStep
  <1>4. CASE Manager
    BY <1>4 DEF Manager, StartClaim, SyncClaim, SyncSecret, StartReference, SyncRef, Resync,
         queues, workers
  <1>5. CASE Environment \/ UNCHANGED vars
    BY <1>5, Zenon DEF Environment, CreateClaim, DeleteClaim, EditClaim, SetRegion, SetCCSSecret,
         AdminDeletesProject, AdminDeletesReference, Stabilise, vars, queues, workers
  <1> QED BY <1>1, <1>2, <1>3, <1>4, <1>5 DEF Next

\* What one step does to reference r: it is changed, or the cache stays behind,
\* or it is as before, and who was to look at it still is.
RefMoves(r) ==
  \/ "cache" \notin refCur'[r]
  \/ /\ ref'[r] = ref[r]
     /\ "cache" \in refCur[r] \/ r \in refQ'
     /\ "refCtl" \in refCur[r] => "refCtl" \in refCur'[r] \/ rw'.pc = "idle"

\* Every step but a restart does that to every reference.
LEMMA StepMovesRef ==
  ASSUME TypeInv, ReferenceCopyInv, [Next]_vars, ~Crash, NEW r \in Refs
  PROVE  RefMoves(r)
  <1>1. CASE ReferenceStep /\ ~FinishReference
    BY <1>1, ReferenceStepRefHolders DEF RefHoldersAfter, RefMoves
  <1>2. CASE FinishReference
    BY <1>2, FinishReferenceHolders DEF RefMoves, FinishReference, IdleReferenceWorker
  <1>3. CASE ClaimStep
    BY <1>3, ClaimStepRefHolders DEF RefMoves
  <1>4. CASE \E s \in Refs : StartReference(s)
    BY <1>4, StartReferenceMoves DEF RefMoves
  <1>5. refCur \in [Refs -> RefHolders]
    BY ReferenceParts
  <1>6. CASE \E s \in Refs : SyncRef(s)
    BY <1>5, <1>6 DEF SyncRef, RefMoves
  <1>7. CASE \E s \in Refs : AdminDeletesReference(s)
    BY <1>5, <1>7 DEF AdminDeletesReference, RefMoves
  <1>8. CASE UNCHANGED refObjs
    BY <1>8 DEF refObjs, RefMoves
  <1>9. CASE Manager
    BY <1>4, <1>6, <1>8, <1>9 DEF Manager, StartClaim, SyncClaim, SyncSecret, Resync
  <1>10. CASE Environment \/ UNCHANGED vars
    BY <1>7, <1>8, <1>10, Zenon DEF Environment, CreateClaim, DeleteClaim, EditClaim, SetRegion,
         SetCCSSecret, AdminDeletesProject, Stabilise, vars
  <1> QED BY <1>1, <1>2, <1>3, <1>9, <1>10 DEF Next

-----------------------------------------------------------------------------
(* Whoever has an old copy will be told.                                   *)

\* No step but a restart takes the event or the queue entry of a claim away,
\* except the one that hands it to the worker.
LEMMA ClaimStaysStirred ==
  ASSUME TypeInv, ClaimCopyInv, [Next]_vars, ~Crash, NEW c \in Claims, ClaimStirred(c)
  PROVE  (ClaimStirred(c))' \/ (StartClaim(c) /\ "cache" \in claimCur[c])
  <1>1. ClaimMoves(c)
    BY StepMovesClaim
  <1>2. c \in claimQ => c \in claimQ' \/ StartClaim(c)
    BY StepClaimQueue
  <1> QED BY <1>1, <1>2 DEF ClaimMoves, ClaimStirred

\* The same for a reference.
LEMMA RefStaysStirred ==
  ASSUME TypeInv, ReferenceCopyInv, [Next]_vars, ~Crash, NEW r \in Refs, RefStirred(r)
  PROVE  (RefStirred(r))' \/ (StartReference(r) /\ "cache" \in refCur[r])
  <1>1. RefMoves(r)
    BY StepMovesRef
  <1>2. r \in refQ => r \in refQ' \/ StartReference(r)
    BY StepRefQueue
  <1> QED BY <1>1, <1>2 DEF RefMoves, RefStirred

\* A worker that starts has the stored version, or the cache is behind.
LEMMA StartedIsCurrent ==
  ASSUME TypeInv
  PROVE  /\ \A c \in Claims : StartClaim(c) /\ cw'.pc # "idle" =>
              /\ cw'.key = c
              /\ IF "cache" \in claimCur[c] THEN "claimCtl" \in claimCur'[c]
                 ELSE "cache" \notin claimCur'[c]
         /\ \A r \in Refs : StartReference(r) /\ rw'.pc # "idle" =>
              /\ rw'.key = r
              /\ IF "cache" \in refCur[r] THEN "refCtl" \in refCur'[r]
                 ELSE "cache" \notin refCur'[r]
  <1>1. /\ claimCur \in [Claims -> ClaimHolders] /\ refCur \in [Refs -> RefHolders]
    BY ReferenceParts
  <1>2. ASSUME NEW c \in Claims, StartClaim(c), cw'.pc # "idle"
        PROVE  /\ cw'.key = c
               /\ IF "cache" \in claimCur[c] THEN "claimCtl" \in claimCur'[c]
                  ELSE "cache" \notin claimCur'[c]
    BY <1>1, <1>2 DEF StartClaim
  <1>3. ASSUME NEW r \in Refs, StartReference(r), rw'.pc # "idle"
        PROVE  /\ rw'.key = r
               /\ IF "cache" \in refCur[r] THEN "refCtl" \in refCur'[r]
                  ELSE "cache" \notin refCur'[r]
    BY <1>1, <1>3 DEF StartReference
  <1> QED BY <1>2, <1>3

\* The worker of the claims is told of what it has not seen.
LEMMA StaleClaimStep ==
  ASSUME TypeInv, ClaimCopyInv, StaleIsStirred, [Next]_vars, cw'.pc # "idle"
  PROVE  "claimCtl" \in claimCur'[cw'.key] \/ (ClaimStirred(cw.key))'
  <1>1. ~Crash
    BY DEF Crash, IdleClaimWorker
  <1>2. CASE \E c \in Claims : StartClaim(c)
    BY <1>2, StartedIsCurrent DEF ClaimStirred
  <1>3. CASE cw.pc # "idle" /\ cw'.key = cw.key
    <2> DEFINE k == cw.key
    <2>1. k \in Claims
      BY <1>3, ClaimObjects
    <2>2. ClaimMoves(k)
      BY <1>1, <2>1, StepMovesClaim
    <2>3. ~StartClaim(k)
      BY <1>3 DEF StartClaim
    <2>4. ClaimStirred(k) => "cache" \notin claimCur'[k] \/ k \in claimQ'
      BY <1>1, <2>1, <2>3, ClaimStaysStirred DEF ClaimStirred
    <2>5. "claimCtl" \in claimCur[k] => "claimCtl" \in claimCur'[k] \/ "cache" \notin claimCur'[k]
      BY <2>2 DEF ClaimMoves
    <2>6. "claimCtl" \in claimCur[k] \/ ClaimStirred(k)
      BY <1>3 DEF StaleIsStirred
    <2> QED BY <1>3, <2>4, <2>5, <2>6 DEF ClaimStirred
  <1>4. CASE ClaimStep
    BY <1>3, <1>4, ClaimStepMoves, ClaimStepBusy DEF ClaimWorkerMoves, ClaimWorkerRests
  <1>5. CASE cw' = cw
    BY <1>3, <1>5
  <1> QED BY <1>1, <1>2, <1>4, <1>5, StepClaimQueue

\* So is the worker of the references.
LEMMA StaleRefStep ==
  ASSUME TypeInv, ReferenceCopyInv, StaleIsStirred, [Next]_vars, rw'.pc # "idle"
  PROVE  "refCtl" \in refCur'[rw'.key] \/ (RefStirred(rw.key))'
  <1>1. ~Crash
    BY DEF Crash, IdleReferenceWorker
  <1>2. CASE \E r \in Refs : StartReference(r)
    BY <1>2, StartedIsCurrent DEF RefStirred
  <1>3. CASE rw.pc # "idle" /\ rw'.key = rw.key
    <2> DEFINE k == rw.key
    <2>1. k \in Refs
      BY <1>3, ReferenceParts
    <2>2. RefMoves(k)
      BY <1>1, <2>1, StepMovesRef
    <2>3. ~StartReference(k)
      BY <1>3 DEF StartReference
    <2>4. RefStirred(k) => "cache" \notin refCur'[k] \/ k \in refQ'
      BY <1>1, <2>1, <2>3, RefStaysStirred DEF RefStirred
    <2>5. "refCtl" \in refCur[k] => "refCtl" \in refCur'[k] \/ "cache" \notin refCur'[k]
      BY <2>2 DEF RefMoves
    <2>6. "refCtl" \in refCur[k] \/ RefStirred(k)
      BY <1>3 DEF StaleIsStirred
    <2> QED BY <1>3, <2>4, <2>5, <2>6 DEF RefStirred
  <1>4. CASE ReferenceStep
    BY <1>3, <1>4, ReferenceStepMoves DEF RefWorkerMoves, FinishReference, IdleReferenceWorker
  <1>5. CASE rw' = rw
    BY <1>3, <1>5
  <1> QED BY <1>1, <1>2, <1>4, <1>5, StepRefQueue

\* A worker whose copy is old will be told, after every step.
LEMMA StaleStep ==
  ASSUME TypeInv, ClaimCopyInv, ReferenceCopyInv, StaleIsStirred, [Next]_vars
  PROVE  StaleIsStirred'
  BY StaleClaimStep, StaleRefStep DEF StaleIsStirred

-----------------------------------------------------------------------------
(* An operation acts on a copy that lacks what it writes.                  *)

\* What ClaimGoto and ClaimFinish leave of the worker.
LEMMA ClaimWorkerAfter ==
  ASSUME TypeInv, NEW pc, NEW o, NEW out
  PROVE  /\ ClaimGoto(pc, o) =>
              cw'.pc = pc /\ cw'.obj = o /\ cw'.out = cw.out /\ cw'.key = cw.key
         /\ ClaimFinish(out, o) =>
              cw'.pc = "Condition" /\ cw'.obj = o /\ cw'.out = out /\ cw'.key = cw.key
  <1>1. cw \in ClaimWorker
    BY ClaimObjects
  <1> QED BY <1>1 DEF ClaimGoto, ClaimFinish, ClaimWorker

\* The order of the operations is that of the fields they look at.
LEMMA ClaimOrder ==
  ASSUME NEW c, NEW o
  PROVE  /\ FirstClaimOperation(o) \in {"Deletion", "Validated", "Initialized", "RegionSupported"}
         /\ FirstClaimOperation(o) = "Initialized" => ~o.inited
         /\ FirstClaimOperation(o) = "Validated" => ~o.valid
         /\ AfterSecretFinalizer(o) = "StatePendingProject" \/
              (AfterSecretFinalizer(o) = "Condition" /\ ~NeedsPendingProject(o))
         /\ \/ AfterReferenceExists(c, o) = "ReferenceLink" /\ ~o.link
            \/ AfterReferenceExists(c, o) = "Finalizer" /\ ~o.finalizer
            \/ AfterReferenceExists(c, o) = "CCSSecretFinalizer"
            \/ AfterReferenceExists(c, o) = AfterSecretFinalizer(o)
  BY DEF FirstClaimOperation, AfterSecretFinalizer, AfterReferenceExists

\* The invariant along the chain of operations of a claim.
LEMMA ClaimDueStep ==
  ASSUME TypeInv, ClaimStepIsDue, [Next]_vars
  PROVE  ClaimStepIsDue'
  <1>1. CASE cw'.pc \in {"idle", "Condition"}
    BY <1>1 DEF ClaimStepIsDue
  <1>2. CASE cw' = cw
    <2>1. NeedsPending(cw.obj)' = NeedsPending(cw.obj)
      BY <1>2, Zenon DEF NeedsPending
    <2> QED BY <1>2, <2>1, Zenon DEF ClaimStepIsDue
  <1>3. ASSUME NEW c \in Claims, StartClaim(c)
        PROVE  ClaimStepIsDue'
    <2>1. CASE claimCache[c].exists
      <3> DEFINE o == claimCache[c]
      <3>1. cw'.pc = FirstClaimOperation(o) /\ cw'.obj = o /\ cw'.out = "stop"
        BY <1>3, <2>1 DEF StartClaim
      <3> HIDE DEF o
      <3>2. /\ cw'.pc \in {"Deletion", "Validated", "Initialized", "RegionSupported"}
            /\ cw'.pc = "Validated" => ~o.valid
            /\ cw'.pc = "Initialized" => ~o.inited
        BY <3>1, ClaimOrder
      <3> QED BY <3>1, <3>2 DEF ClaimStepIsDue
    <2>2. CASE ~claimCache[c].exists
      BY <1>2, <1>3, <2>2 DEF StartClaim
    <2> QED BY <2>1, <2>2
  <1>4. CASE ClaimStep
    <2>1. cw.pc # "idle"
      BY <1>4, ClaimStepBusy
    <2>2. \A out, o : ClaimFinish(out, o) => cw'.pc = "Condition"
      BY ClaimWorkerAfter
    <2>3. CASE FinalizeWithoutReference \/ EnsureCCSSecretFinalizerDeleted
      <3>1. \/ cw'.pc = "Condition"
            \/ ClaimGoto("CCSSecretFinalizerDeleted", cw.obj)
            \/ ClaimGoto("ClaimFinalizerDeleted", cw.obj)
        BY <2>2, <2>3 DEF FinalizeWithoutReference, EnsureCCSSecretFinalizerDeleted
      <3>2. cw.out = "stop"
        BY <2>3 DEF FinalizeWithoutReference, EnsureCCSSecretFinalizerDeleted, ClaimStepIsDue
      <3> QED BY <1>1, <3>1, <3>2, ClaimWorkerAfter DEF ClaimStepIsDue
    <2>4. CASE EnsureRegionSupported
      <3> DEFINE o == [cw.obj EXCEPT !.state = IF @ = "Error" THEN "Pending" ELSE @]
      <3>1. \/ cw'.pc = "Condition"
            \/ ClaimGoto(IF NeedsPending(o) THEN "StatePending" ELSE "ReferenceExists", o)
        BY <2>2, <2>4 DEF EnsureRegionSupported, SaveClaimStatus
      <3>2. cw.out = "stop"
        BY <2>4 DEF EnsureRegionSupported, ClaimStepIsDue
      <3> HIDE DEF o
      <3>3. CASE ClaimGoto("StatePending", o)
        BY <3>2, <3>3, ClaimWorkerAfter DEF ClaimStepIsDue
      <3>4. CASE ClaimGoto("ReferenceExists", o) /\ ~NeedsPending(o)
        <4>1. cw'.pc = "ReferenceExists" /\ cw'.obj = o /\ cw'.out = "stop"
          BY <3>2, <3>4, ClaimWorkerAfter
        <4>2. ~NeedsPending(cw.obj)'
          BY <3>4, <4>1, Zenon DEF NeedsPending
        <4> QED BY <4>1, <4>2 DEF ClaimStepIsDue
      <3> QED BY <1>1, <3>1, <3>3, <3>4
    <2>5. CASE EnsureProjectReferenceExists \/ EnsureCCSSecretFinalizer
      <3> DEFINE o == cw.obj
                 pc == cw'.pc
      <3>1. \/ cw'.pc = "Condition"
            \/ ClaimGoto(AfterReferenceExists(cw.key, o), o)
            \/ ClaimGoto(AfterSecretFinalizer(o), o)
        BY <2>2, <2>5 DEF EnsureProjectReferenceExists, EnsureCCSSecretFinalizer
      <3>2. cw.out = "stop" /\ ~NeedsPending(o)
        BY <2>5 DEF EnsureProjectReferenceExists, EnsureCCSSecretFinalizer, ClaimStepIsDue
      <3> HIDE DEF o, pc
      <3>3. CASE ClaimGoto(AfterReferenceExists(cw.key, o), o) \/ ClaimGoto(AfterSecretFinalizer(o), o)
        <4>1. /\ cw'.obj = o /\ cw'.out = "stop"
              /\ pc = AfterReferenceExists(cw.key, o) \/ pc = AfterSecretFinalizer(o)
          BY <3>2, <3>3, ClaimWorkerAfter DEF pc
        <4>2. \/ pc = "ReferenceLink" /\ ~o.link
              \/ pc = "Finalizer" /\ ~o.finalizer
              \/ pc = "CCSSecretFinalizer"
              \/ pc = AfterSecretFinalizer(o)
          BY <4>1, ClaimOrder
        <4>3. \/ pc = "ReferenceLink" /\ ~o.link
              \/ pc = "Finalizer" /\ ~o.finalizer
              \/ pc \in {"CCSSecretFinalizer", "StatePendingProject", "Condition"}
          BY <4>2, ClaimOrder
        <4>4. ~NeedsPending(cw.obj)'
          BY <3>2, <4>1, Zenon DEF NeedsPending
        <4> QED BY <4>1, <4>3, <4>4 DEF ClaimStepIsDue, pc
      <3> QED BY <1>1, <3>1, <3>3
    <2>6. CASE FinishClaim
      BY <1>1, <2>6 DEF FinishClaim, IdleClaimWorker
    <2>7. CASE \/ FinalizeReference \/ EnsureProjectClaimFinalizerDeleted
               \/ EnsureProjectClaimValidated \/ EnsureProjectClaimInitialized
               \/ EnsureProjectClaimStatePending \/ EnsureProjectReferenceLink
               \/ EnsureFinalizer \/ EnsureProjectClaimStatePendingProject
      BY <1>1, <2>2, <2>7 DEF FinalizeReference, EnsureProjectClaimFinalizerDeleted,
           EnsureProjectClaimValidated, EnsureProjectClaimInitialized,
           EnsureProjectClaimStatePending, EnsureProjectReferenceLink, EnsureFinalizer,
           EnsureProjectClaimStatePendingProject, SaveClaim, SaveClaimStatus
    <2> QED BY <1>4, <2>3, <2>4, <2>5, <2>6, <2>7 DEF ClaimStep
  <1>5. CASE Crash
    BY <1>1, <1>5 DEF Crash, IdleClaimWorker
  <1> QED BY <1>2, <1>3, <1>4, <1>5, StepClaimQueue

\* The three ways in which a write may end.
Accepted(h, old, cur, new, touched, w) ==
  /\ Current(old, cur, h) /\ w.ok /\ w.obj = new
  /\ w.cur = IF touched \/ new # old THEN {h} ELSE cur
Refused(h, old, cur, w) ==
  /\ ~Current(old, cur, h) \/ "apiError" \in Faults
  /\ ~w.ok /\ w.obj = old /\ w.cur = cur
AnswerLost(h, old, cur, new, touched, w) ==
  /\ Current(old, cur, h) /\ ~w.ok /\ w.obj = new
  /\ w.cur = IF touched \/ new # old THEN {} ELSE cur

\* The API server answers in one of these ways.
LEMMA ReplyKinds ==
  ASSUME NEW h, NEW old, NEW cur, NEW new, NEW touched \in BOOLEAN,
         NEW w \in Replies(h, old, cur, new, touched)
  PROVE  \/ Accepted(h, old, cur, new, touched, w)
         \/ Refused(h, old, cur, w)
         \/ AnswerLost(h, old, cur, new, touched, w)
  <1> DEFINE changed == touched \/ new # old
             stored == [ok |-> TRUE, obj |-> new, cur |-> IF changed THEN {h} ELSE cur]
             refused == [ok |-> FALSE, obj |-> old, cur |-> cur]
             lost == [ok |-> FALSE, obj |-> new, cur |-> IF changed THEN {} ELSE cur]
  <1>1. \/ w = stored /\ Current(old, cur, h)
        \/ w = refused /\ (~Current(old, cur, h) \/ "apiError" \in Faults)
        \/ w = lost /\ Current(old, cur, h)
    BY Zenon DEF Replies, Faulty
  <1>2. /\ stored.ok /\ stored.obj = new /\ stored.cur = IF changed THEN {h} ELSE cur
        /\ ~refused.ok /\ refused.obj = old /\ refused.cur = cur
        /\ ~lost.ok /\ lost.obj = new /\ lost.cur = IF changed THEN {} ELSE cur
    OBVIOUS
  <1> HIDE DEF stored, refused, lost
  <1> QED BY <1>1, <1>2 DEF Accepted, Refused, AnswerLost

\* A step of the worker that does not end the chain keeps the outcome.
LEMMA OutcomeKept ==
  ASSUME TypeInv, ReferenceStep, rw'.pc \notin {"idle", "Condition"}
  PROVE  rw'.out = rw.out
  <1>1. \A out, o : RefFinish(out, o) => rw'.pc = "Condition"
    BY ReferenceParts DEF RefFinish, ReferenceWorker
  <1>2. ~RefFails
    BY <1>1 DEF RefFails
  <1>3. \A pc : RefGoto(pc) => rw'.out = rw.out
    BY ReferenceParts DEF RefGoto, ReferenceWorker
  <1>4. \A p, pc : Configure(p, pc) => rw'.out = rw.out
    BY <1>2, <1>3 DEF Configure
  <1>5. CASE EnsureClaimProjectIDSet
    <2>1. CASE \E cl : rw' = [rw EXCEPT !.pc = "ClaimReady", !.claim = cl]
      BY <2>1, ReferenceParts DEF ReferenceWorker
    <2> QED BY <1>2, <1>5, <2>1 DEF EnsureClaimProjectIDSet
  <1>6. CASE ConfigureBillingAPI \/ ConfigureAPIS \/ SetIAMPolicy \/ SetConsoleAccess
             \/ DeleteServiceAccount \/ DeleteConsoleAccess
    BY <1>4, <1>6 DEF ConfigureBillingAPI, ConfigureAPIS, SetIAMPolicy, SetConsoleAccess,
         DeleteServiceAccount, DeleteConsoleAccess
  <1>7. CASE ConfigureServiceAccount \/ DeletePolicy \/ DeleteProject \/ DeleteCredentials
    BY <1>1, <1>2, <1>3, <1>4, <1>7
       DEF ConfigureServiceAccount, DeletePolicy, DeleteProject, DeleteCredentials
  <1>8. CASE ListProjectsFails \/ ProjectFound \/ ProjectMissing \/ CreateKey \/ CreateSecret
    BY <1>1, <1>2, <1>3, <1>8
       DEF ListProjectsFails, ProjectFound, ProjectMissing, CreateKey, CreateSecret
  <1> QED BY <1>5, <1>6, <1>7, <1>8, WritersEnd DEF ReferenceStep

\* What the first operation says about the copies.
LEMMA FirstOperationIsDue ==
  ASSUME NEW o, NEW cl
  PROVE  LET pc == FirstOperation(o, cl)
         IN  /\ pc # "Condition" => FirstOutcome(o, cl) = "stop"
             /\ pc = "Initialized" => ~o.inited
             /\ pc = "StatusCreating" => o.state # "Creating"
             /\ pc = "ServiceAccountName" => ~o.saName
             /\ pc = "FinalizerAdded" => ~o.finalizer
             /\ pc \in BeforeReady => ~o.deleting /\ o.state # "Ready"
             /\ pc \in ClaimReadySteps => ~o.deleting /\ o.state = "Ready" /\ o.inited
             /\ pc = "AvailabilityZones" => ~cl.zones
             /\ pc \in {"ClaimProjectID", "ClaimReady"} => cl.zones
  BY DEF FirstOperation, FirstOutcome, ClaimReadyOperation, SetUpOperation, AfterFinalizerAdded,
         SetUpSteps, ClaimReadySteps, BeforeReady

\* Setting the project ID of a claim leaves its zones alone.
LEMMA ZonesStay ==
  ASSUME TypeInv, ClaimCopyInv, ReferenceStep, rw'.pc = "ClaimReady", rw.claim.zones
  PROVE  rw'.claim.zones
  <1> DEFINE c == rw.ref.owner
             e == [rw.claim EXCEPT !.projectID = rw.ref.projectID]
             new == ClaimUpdate(e, claim[c])
  <1>1. EnsureClaimProjectIDSet
    BY ReferenceStepMoves DEF RefWorkerMoves, ClaimReadySteps, FinishReference, IdleReferenceWorker
  <1>2. RefFails => rw'.pc = "Condition"
    BY ReferenceParts DEF RefFinish, RefFails, ReferenceWorker
  <1>3. rw' = [rw EXCEPT !.pc = "ClaimReady", !.claim = new] /\ UpdateClaim("refCtl", c, e, TRUE)
    BY <1>1, <1>2 DEF EnsureClaimProjectIDSet
  <1>4. rw'.claim = new
    BY <1>3, ReferenceParts DEF ReferenceWorker
  <1>5. PICK w \in Replies("refCtl", claim[c], claimCur[c], new, FALSE) : w.ok
    BY <1>3 DEF UpdateClaim
  <1>6. Current(claim[c], claimCur[c], "refCtl")
    <2> HIDE DEF new, c
    <2> QED BY <1>5, ReplyKinds DEF Accepted, Refused, AnswerLost
  <1>7. rw.claim = claim[c] /\ c \in Claims
    BY <1>1, <1>6, ReferenceParts DEF ClaimCopyInv, ClaimCopiesAgree, ClaimReadySteps,
         EnsureClaimProjectIDSet
  <1>8. /\ e \in ProjectClaim /\ e.zones /\ e.deleting = rw.claim.deleting
        /\ e.finalizer = rw.claim.finalizer
    BY ReferenceParts DEF ProjectClaim, ProjectReference
  <1>9. ~(e.deleting /\ ~e.finalizer)
    BY <1>7, <1>8 DEF ClaimCopyInv, ClaimCopiesAgree
  <1> HIDE DEF e
  <1>10. new.zones = e.zones
    BY <1>7, <1>8, <1>9, ReferenceParts, StoredFields DEF SameFields
  <1> QED BY <1>4, <1>8, <1>10

\* The invariant along the chain of operations of a reference.
LEMMA RefDueStep ==
  ASSUME TypeInv, ClaimCopyInv, RefStepIsDue, [Next]_vars
  PROVE  RefStepIsDue'
  <1>1. CASE rw'.pc \in {"idle", "Condition"}
    BY <1>1 DEF RefStepIsDue, BeforeReady, SetUpSteps, ClaimReadySteps
  <1>2. CASE rw' = rw
    BY <1>2 DEF RefStepIsDue
  <1>3. ASSUME NEW r \in Refs, StartReference(r)
        PROVE  RefStepIsDue'
    <2> DEFINE o == refCache[r]
               cl == claimCache[o.owner]
    <2>1. CASE rw' = [pc |-> FirstOperation(o, cl), key |-> r, ref |-> o, claim |-> cl,
                      out |-> FirstOutcome(o, cl)]
      <3>1. /\ rw'.pc = FirstOperation(o, cl) /\ rw'.ref = o /\ rw'.claim = cl
            /\ rw'.out = FirstOutcome(o, cl)
        BY <2>1
      <3> HIDE DEF o, cl
      <3> QED BY <3>1, FirstOperationIsDue DEF RefStepIsDue
    <2> QED BY <1>2, <1>3, <2>1 DEF StartReference
  <1>4. CASE ReferenceStep /\ rw'.pc \notin {"idle", "Condition"}
    <2>1. /\ rw.pc # "idle" /\ rw'.out = rw.out /\ LeadsTo(rw.pc, rw'.pc, rw.ref)
      BY <1>4, OutcomeKept, ReferenceStepMoves, ReferenceStepLeads
    <2>2. rw'.ref = rw.ref
      BY <1>4, ReferenceStepMoves DEF RefWorkerMoves, FinishReference, IdleReferenceWorker
    <2>3. rw.pc # "Condition"
      BY <2>1 DEF LeadsTo
    <2>4. rw.out = "stop"
      BY <2>1, <2>3 DEF RefStepIsDue
    <2>5. CASE rw'.pc = "ClaimReady"
      <3>1. rw.pc = "ClaimProjectID"
        BY <2>1, <2>5 DEF LeadsTo, AfterCredentials, AfterServiceAccount
      <3>2. rw.claim.zones /\ ~rw.ref.deleting /\ rw.ref.state = "Ready" /\ rw.ref.inited
        BY <3>1 DEF RefStepIsDue, ClaimReadySteps
      <3>3. rw'.claim.zones
        BY <1>4, <2>5, <3>2, ZonesStay
      <3> QED BY <2>1, <2>2, <2>4, <2>5, <3>2, <3>3 DEF RefStepIsDue, BeforeReady, SetUpSteps
    <2>6. CASE rw'.pc \in SetUpSteps
      <3>1. ~rw.ref.deleting /\ rw.ref.state # "Ready"
        BY <1>4, <2>6, SetUpStays DEF RefStepIsDue, BeforeReady
      <3> QED BY <2>1, <2>2, <2>4, <2>6, <3>1 DEF RefStepIsDue, SetUpSteps, ClaimReadySteps
    <2>7. CASE rw'.pc \in DeletionSteps
      BY <2>1, <2>4, <2>7
         DEF RefStepIsDue, DeletionSteps, BeforeReady, SetUpSteps, ClaimReadySteps
    <2>8. rw'.pc = "ClaimReady" \/ rw'.pc \in SetUpSteps \cup DeletionSteps
      BY <2>1 DEF LeadsTo, AfterCredentials, AfterServiceAccount, SetUpSteps, DeletionSteps
    <2> QED BY <2>5, <2>6, <2>7, <2>8
  <1>5. CASE Crash
    BY <1>1, <1>5 DEF Crash, IdleReferenceWorker
  <1> QED BY <1>1, <1>2, <1>3, <1>4, <1>5, StepRefQueue

-----------------------------------------------------------------------------
(* No claim is rejected.                                                   *)

\* A claim that nobody has worked on, or none.
Fresh(o) ==
  /\ o.valid /\ ~o.deleting /\ ~Engaged(o)
  /\ o.state \notin {"PendingProject", "Ready", "Error"}

\* What a user who does not edit claims does to claim c.
UserDoes(c) ==
  \/ claim'[c] = claim[c] /\ claimCur'[c] = claimCur[c]
  \/ claimCur'[c] = {} /\ Fresh(claim'[c]) /\ (claim[c].exists => ~claim'[c].exists)
  \/ /\ claimCur'[c] = {} /\ claim[c].exists /\ claim'[c].exists
     /\ claim'[c].deleting /\ Engaged(claim[c])
     /\ claim'[c].valid = claim[c].valid /\ claim'[c].zones = claim[c].zones
     /\ claim'[c].state = claim[c].state

\* An absent claim.
LEMMA NoClaimIsFresh == Fresh(NoClaim) /\ ~NoClaim.exists
  BY DEF Fresh, NoClaim, Engaged

\* What users do, without edits.
LEMMA UsersDo ==
  ASSUME WakeupsAreReliable, TypeInv, NEW d \in Claims,
         CreateClaim(d) \/ DeleteClaim(d) \/ EditClaim(d), NEW c \in Claims
  PROVE  UserDoes(c)
  <1>1. /\ claim \in [Claims -> ProjectClaim] /\ claimCur \in [Claims -> ClaimHolders]
        /\ claim[d] \in ProjectClaim
    BY ClaimObjects
  <1>2. claimCur' = [claimCur EXCEPT ![d] = {}]
    BY DEF CreateClaim, DeleteClaim, EditClaim
  <1>3. "edit" \notin Faults
    BY DEF WakeupsAreReliable
  <1>4. ~EditClaim(d)
    BY <1>3 DEF EditClaim, Faulty
  <1>5. CASE CreateClaim(d)
    <2> DEFINE o == [NoClaim EXCEPT !.exists = TRUE, !.valid = TRUE]
    <2>1. claim' = [claim EXCEPT ![d] = o] /\ ~claim[d].exists
      BY <1>3, <1>5 DEF CreateClaim
    <2>2. Fresh(o)
      BY DEF NoClaim, Fresh, Engaged
    <2> HIDE DEF o
    <2> QED BY <1>1, <1>2, <2>1, <2>2 DEF UserDoes
  <1>6. CASE DeleteClaim(d)
    <2> DEFINE o == Deleted(claim[d], NoClaim)
    <2>1. claim' = [claim EXCEPT ![d] = o] /\ claim[d].exists
      BY <1>1, <1>6 DEF DeleteClaim
    <2>2. \/ o = NoClaim
          \/ /\ o.exists = claim[d].exists /\ o.deleting /\ claim[d].finalizer
             /\ o.valid = claim[d].valid /\ o.zones = claim[d].zones /\ o.state = claim[d].state
      BY <1>1 DEF Deleted, Collected, ProjectClaim
    <2> HIDE DEF o
    <2> QED BY <1>1, <1>2, <2>1, <2>2, NoClaimIsFresh DEF UserDoes, Engaged
  <1> QED BY <1>4, <1>5, <1>6

\* No region is disabled.
LEMMA RegionsStay ==
  ASSUME WakeupsAreReliable, [Next]_vars
  PROVE  disabled' = disabled
  <1>1. "config" \notin Faults
    BY DEF WakeupsAreReliable
  <1>2. CASE ClaimStep
    BY <1>2, Zenon DEF ClaimStep, FinalizeReference, FinalizeWithoutReference,
         EnsureCCSSecretFinalizerDeleted, EnsureProjectClaimFinalizerDeleted,
         EnsureProjectClaimValidated, EnsureProjectClaimInitialized, EnsureRegionSupported,
         EnsureProjectClaimStatePending, EnsureProjectReferenceExists,
         EnsureProjectReferenceLink, EnsureFinalizer, EnsureCCSSecretFinalizer,
         EnsureProjectClaimStatePendingProject, FinishClaim, world
  <1>3. CASE ReferenceStep
    BY <1>3, Zenon DEF ReferenceStep, EnsureProjectReferenceInitialized,
           EnsureProjectReferenceStatusCreating, EnsureServiceAccountName,
           EnsureFinalizerAdded, EnsureStateReady, ProjectInactive, ClearProjectID,
           EnsureFinalizerDeleted, EnsureProjectID, HandleAvailabilityZonesError,
           EnsureClaimAvailabilityZonesSet, EnsureClaimProjectIDSet, EnsureProjectClaimReady,
           DeletePolicy, DeleteServiceAccount, DeleteProject, DeleteConsoleAccess,
           DeleteCredentials, ListProjectsFails, ProjectFound, ProjectMissing,
           ConfigureBillingAPI, ConfigureAPIS, ConfigureServiceAccount, SetIAMPolicy,
           CreateKey, CreateSecret, SetConsoleAccess, FinishReference, world
  <1>4. CASE Manager
    BY <1>4 DEF Manager, StartClaim, SyncClaim, SyncSecret, StartReference, SyncRef, Resync,
         Crash, world
  <1>5. CASE Environment \/ UNCHANGED vars
    BY <1>1, <1>5, Zenon DEF Environment, CreateClaim, DeleteClaim, EditClaim, SetRegion,
         SetCCSSecret, AdminDeletesProject, AdminDeletesReference, Stabilise, vars, world, Faulty
  <1> QED BY <1>2, <1>3, <1>4, <1>5 DEF Next

\* A current copy is of a claim that is valid and not in state Error.
LEMMA CurrentIsAccepted ==
  ASSUME TypeInv, ClaimCopyInv, NothingRejected, cw.pc \notin {"idle", "Condition"},
         Current(claim[cw.key], claimCur[cw.key], "claimCtl")
  PROVE  /\ cw.key \in Claims /\ cw.obj = claim[cw.key]
         /\ cw.obj.valid /\ cw.obj.state # "Error" /\ IsRegionSupported(cw.key)
  <1>1. cw.key \in Claims
    BY ClaimObjects
  <1>2. cw.obj = claim[cw.key]
    BY <1>1 DEF ClaimCopyInv, ClaimCopiesAgree, NothingRejected
  <1> QED BY <1>1, <1>2 DEF NothingRejected, IsRegionSupported

\* No operation takes a current copy to state Error.
LEMMA NoErrorState ==
  ASSUME TypeInv, ClaimCopyInv, ClaimStepIsDue, NothingRejected, ClaimStep,
         Current(claim[cw.key], claimCur[cw.key], "claimCtl"), cw'.pc = "Condition"
  PROVE  cw'.obj.state # "Error"
  <1>1. cw \in ClaimWorker /\ cw.key \in Claims /\ cw.obj \in ProjectClaim /\ claim[cw.key] \in ProjectClaim
    BY ClaimStepBusy, ClaimParts
  <1>2. ~FinishClaim
    BY DEF FinishClaim, IdleClaimWorker
  <1>3. cw.pc \notin {"idle", "Condition"}
    BY ClaimStepMoves DEF ClaimWorkerMoves, ClaimWorkerRests
  <1>4. cw.obj.valid /\ cw.obj.state # "Error" /\ IsRegionSupported(cw.key) /\ claim[cw.key].state # "Error"
    BY <1>3, CurrentIsAccepted
  <1>5. ASSUME NEW o, NEW t, SaveClaimStatus(o, t)
        PROVE  cw'.obj = o
    BY <1>5, ClaimWorkerAfter DEF SaveClaimStatus
  <1>6. CASE \/ FinalizeReference \/ FinalizeWithoutReference \/ EnsureCCSSecretFinalizerDeleted
             \/ EnsureProjectReferenceExists \/ EnsureCCSSecretFinalizer
    <2>1. (\E out : ClaimFinish(out, cw.obj)) \/ (\E pc : ClaimGoto(pc, cw.obj))
      BY <1>6 DEF FinalizeReference, FinalizeWithoutReference, EnsureCCSSecretFinalizerDeleted,
                  EnsureProjectReferenceExists, EnsureCCSSecretFinalizer
    <2> QED BY <1>4, <2>1, ClaimWorkerAfter
  <1>7. CASE EnsureProjectClaimFinalizerDeleted
    <2>1. [cw.obj EXCEPT !.finalizer = FALSE].state = cw.obj.state
      BY <1>1 DEF ProjectClaim
    <2> QED BY <1>4, <1>7, <2>1, ClaimWorkerAfter DEF EnsureProjectClaimFinalizerDeleted
  <1>8. ~EnsureProjectClaimValidated
    BY <1>4 DEF EnsureProjectClaimValidated, ClaimStepIsDue
  <1>9. CASE \/ EnsureProjectClaimInitialized \/ EnsureProjectClaimStatePending
             \/ EnsureProjectClaimStatePendingProject
    <2>1. /\ [cw.obj EXCEPT !.state = "Pending"].state = "Pending"
          /\ [cw.obj EXCEPT !.state = "PendingProject"].state = "PendingProject"
          /\ [cw.obj EXCEPT !.inited = TRUE].state = cw.obj.state
      BY <1>1 DEF ProjectClaim
    <2> QED BY <1>4, <1>5, <1>9, <2>1 DEF EnsureProjectClaimInitialized,
              EnsureProjectClaimStatePending, EnsureProjectClaimStatePendingProject
  <1>10. CASE EnsureRegionSupported
    <2> DEFINE recovered == [cw.obj EXCEPT !.state = IF @ = "Error" THEN "Pending" ELSE @]
    <2>1. /\ recovered.state = cw.obj.state
          /\ [recovered EXCEPT !.invalid = "Resolved"].state = recovered.state
      BY <1>1, <1>4 DEF ProjectClaim
    <2>2. cw'.obj \in {recovered, [recovered EXCEPT !.invalid = "Resolved"]}
      BY <1>4, <1>5, <1>10, ClaimWorkerAfter DEF EnsureRegionSupported
    <2> HIDE DEF recovered
    <2> QED BY <1>4, <2>1, <2>2
  <1>11. CASE EnsureProjectReferenceLink \/ EnsureFinalizer
    <2>1. PICK o \in {[cw.obj EXCEPT !.link = TRUE], [cw.obj EXCEPT !.finalizer = TRUE]} :
             SaveClaim(o)
      BY <1>11 DEF EnsureProjectReferenceLink, EnsureFinalizer
    <2>2. o \in ProjectClaim /\ o.state = cw.obj.state
      BY <1>1, <2>1 DEF ProjectClaim
    <2>3. ClaimUpdate(o, claim[cw.key]).state # "Error"
      BY <1>1, <1>4, <2>2, ClaimUpdateFields, NoClaimIsFresh DEF Fresh
    <2>4. cw'.obj \in {ClaimUpdate(o, claim[cw.key]), o}
      BY <2>1, ClaimWorkerAfter DEF SaveClaim, Answer
    <2> QED BY <1>4, <2>2, <2>3, <2>4
  <1> QED BY <1>2, <1>6, <1>7, <1>8, <1>9, <1>10, <1>11 DEF ClaimStep

\* A claim that is accepted stays accepted.
LEMMA NothingRejectedStep ==
  ASSUME WakeupsAreReliable, ProvisioningIsReliable, TypeInv, ClaimCopyInv, ClaimStepIsDue,
         NothingRejected, [Next]_vars
  PROVE  NothingRejected'
  <1> DEFINE Ok(c) ==
        /\ claim'[c].valid /\ claim'[c].state # "Error"
        /\ cw'.pc = "Condition" /\ cw'.key = c /\ Current(claim'[c], claimCur'[c], "claimCtl") =>
             cw'.obj.state # "Error"
  <1>1. disabled' = {}
    BY RegionsStay DEF NothingRejected
  <1>2. cw'.pc # "idle" => cw'.key \in Claims
    BY TypeInvInductive DEF TypeInv, KeysOK
  <1>3. ASSUME NEW c \in Claims PROVE Ok(c)
    <2>1. claim[c].valid /\ claim[c].state # "Error"
      BY DEF NothingRejected
    <2>2. CASE ClaimStep
      <3>1. /\ ClaimWorkerMoves \/ ClaimWorkerRests
            /\ ClaimKept(c) \/ ClaimStored(c)
            /\ KeepsFields(c)
        BY <2>2, ClaimStepMoves, ClaimStepFields
      <3>2. claim'[c].valid
        BY <2>1, <3>1, NoClaimIsFresh DEF KeepsFields, SameFields, Fresh
      <3>3. /\ cw'.pc = "Condition" /\ cw'.key = c => cw.key = c
            /\ cw'.pc \notin {"idle", "Condition"} => UNCHANGED claimObjs
        BY <3>1 DEF ClaimWorkerMoves, ClaimWorkerRests
      <3>4. cw'.pc = "Condition" /\ cw.key = c /\ Current(claim[c], claimCur[c], "claimCtl") =>
              cw'.obj.state # "Error"
        BY <2>2, NoErrorState
      <3>5. CASE ClaimKept(c)
        BY <2>1, <3>2, <3>3, <3>4, <3>5 DEF ClaimKept, Current
      <3>6. CASE ClaimStored(c)
        <4>1. c = cw.key /\ Current(claim[c], claimCur[c], "claimCtl")
          BY <3>6 DEF ClaimStored
        <4>2. cw.pc = "Condition" => cw.obj.state # "Error"
          BY <4>1 DEF NothingRejected
        <4>3. claim'[c].state # "Error"
          BY <2>1, <3>4, <3>6, <4>1, <4>2, NoClaimIsFresh DEF ClaimStored, Fresh
        <4> QED BY <3>2, <3>4, <4>1, <4>3
      <3> QED BY <3>1, <3>5, <3>6
    <2>3. CASE ReferenceStep
      <3>1. /\ ClaimKept(c) \/ Filled(c)
            /\ ClaimKept(c) \/ ClaimFilled(c)
            /\ cw' = cw
        BY <2>3, ReferenceStepFills, ReferenceStepClaims
      <3>2. claim'[c].valid /\ claim'[c].state # "Error"
        BY <2>1, <3>1 DEF ClaimKept, Filled, ClaimFilled
      <3>3. Current(claim'[c], claimCur'[c], "claimCtl") =>
              claim'[c] = claim[c] /\ Current(claim[c], claimCur[c], "claimCtl")
        BY <3>1 DEF ClaimKept, ClaimFilled, Current
      <3> QED BY <3>1, <3>2, <3>3 DEF NothingRejected
    <2>4. ASSUME NEW d \in Claims, CreateClaim(d) \/ DeleteClaim(d) \/ EditClaim(d)
          PROVE  Ok(c)
      <3>1. cw' = cw /\ UserDoes(c)
        BY <2>4, UserMoves, UsersDo DEF workers
      <3> QED BY <2>1, <3>1 DEF UserDoes, Fresh, Current, NothingRejected
    <2>5. ASSUME NEW d \in Claims, StartClaim(d)
          PROVE  Ok(c)
      <3>1. /\ UNCHANGED claim
            /\ cw'.pc # "Condition" \/ (cw' = cw /\ claimCur'[c] = claimCur[c])
        BY <2>5, StartClaimMoves DEF ClaimWorkerStarts
      <3> QED BY <2>1, <3>1 DEF NothingRejected
    <2>6. ASSUME NEW s \in Refs, StartReference(s)
          PROVE  Ok(c)
      <3>1. UNCHANGED <<claim, cw>> /\ claimCur'[c] \subseteq claimCur[c] \cup {"refCtl"}
        BY <2>6, StartReferenceMoves DEF ClaimRead
      <3> QED BY <2>1, <3>1 DEF NothingRejected, Current
    <2>7. ASSUME NEW d \in Claims, SyncClaim(d)
          PROVE  Ok(c)
      <3>1. UNCHANGED <<claim, cw>> /\ claimCur'[c] \subseteq claimCur[c] \cup {"cache"}
        BY <2>7, ClaimObjects DEF SyncClaim, workers, ClaimHolders
      <3> QED BY <2>1, <3>1 DEF NothingRejected, Current
    <2>8. CASE Crash
      BY <2>1, <2>8 DEF Crash, IdleClaimWorker
    <2>9. CASE UNCHANGED <<claimObjs, workers>>
      BY <2>1, <2>9 DEF claimObjs, workers, NothingRejected
    <2> QED BY <2>2, <2>3, <2>4, <2>5, <2>6, <2>7, <2>8, <2>9, ClaimStepKinds
  <1> QED BY <1>1, <1>2, <1>3 DEF NothingRejected

-----------------------------------------------------------------------------
(* What a cache that shows a claim as Ready stands for.                    *)

\* A claim that is Ready has its zones.
LEMMA ReadyHasZones ==
  ASSUME WakeupsAreReliable, ProvisioningIsReliable, TypeInv, ClaimCopyInv, RefStepIsDue,
         NEW c \in Claims, ClaimTellsTruth(c), claim[c].state = "Ready" => claim[c].zones,
         [Next]_vars, claim'[c].state = "Ready"
  PROVE  claim'[c].zones
  <1>1. CASE claim'[c] = claim[c]
    BY <1>1
  <1>2. CASE ClaimStep
    <2>1. KeepsFields(c) /\ claim[c].state = "Ready"
      BY <1>2, ClaimStepFields, ClaimStepReadies
    <2> QED BY <2>1, NoClaimIsFresh DEF KeepsFields, SameFields, Fresh
  <1>3. CASE ReferenceStep
    <2>1. CASE Filled(c)
      <3>1. CASE rw.pc = "ClaimReady"
        <4>1. rw.claim = claim[c]
          BY <2>1, <3>1 DEF Filled, ClaimCopyInv, ClaimCopiesAgree, ClaimReadySteps
        <4>2. claim[c].zones
          BY <3>1, <4>1 DEF RefStepIsDue
        <4> QED BY <2>1, <3>1, <4>2 DEF Filled
      <3> QED BY <2>1, <3>1 DEF Filled
    <2> QED BY <1>1, <1>3, <2>1, ReferenceStepFills DEF ClaimKept
  <1>4. ASSUME NEW d \in Claims, CreateClaim(d) \/ DeleteClaim(d) \/ EditClaim(d)
        PROVE  claim'[c].zones
    <2>1. UserDoes(c)
      BY <1>4, UsersDo
    <2> QED BY <2>1 DEF UserDoes, Fresh
  <1>5. CASE \/ \E d \in Claims : StartClaim(d) \/ SyncClaim(d)
             \/ \E s \in Refs : StartReference(s)
             \/ Crash \/ UNCHANGED claimObjs
    BY <1>1, <1>5 DEF StartClaim, SyncClaim, StartReference, Crash, claimObjs
  <1> QED BY <1>2, <1>3, <1>4, <1>5, ClaimStepKinds

\* A claim that is Ready and stays is Ready.
LEMMA ReadyStays ==
  ASSUME TypeInv, ClaimCopyInv, [Next]_vars, NothingRejected', NEW c \in Claims,
         claim[c].state = "Ready", claim'[c].exists
  PROVE  claim'[c].state = "Ready"
  <1>1. CASE Next
    BY <1>1, ReadyStep DEF NothingRejected
  <1>2. CASE UNCHANGED vars
    BY <1>2 DEF vars, claimObjs
  <1> QED BY <1>1, <1>2

\* What a step other than the informer's leaves of a claim that the cache shows
\* as Ready.
LEMMA SeenStays ==
  ASSUME TypeInv, ClaimCopyInv, [Next]_vars, NothingRejected', NEW c \in Claims,
         ReadyIsSeen(c), claimCache'[c] = claimCache[c], claimCache[c].state = "Ready",
         Engaged(claim'[c]) => Engaged(claim[c]) \/ (BusyWith(c) /\ Current(claim[c], claimCur[c], "claimCtl"))
  PROVE  claim'[c].state = "Ready" \/ ~Engaged(claim'[c])
  <1>1. CASE claim[c].state = "Ready" /\ claim'[c].exists
    BY <1>1, ReadyStays
  <1> QED BY <1>1 DEF ReadyIsSeen, Engaged

\* A claim that a cache shows as Ready is Ready, unless it is a later one.
LEMMA ReadySeenStep ==
  ASSUME WakeupsAreReliable, ProvisioningIsReliable, TypeInv, ClaimCopyInv, RefStepIsDue,
         NEW c \in Claims, ClaimTellsTruth(c), ReadyIsSeen(c), [Next]_vars, NothingRejected'
  PROVE  (ReadyIsSeen(c))'
  <1>1. claim'[c].state = "Ready" => claim'[c].zones
    BY ReadyHasZones DEF ReadyIsSeen
  <1>2. CASE claimCache'[c] = claim'[c]
    BY <1>1, <1>2 DEF ReadyIsSeen
  <1>3. ASSUME claimCache'[c] = claimCache[c],
               Engaged(claim'[c]) =>
                 Engaged(claim[c]) \/ (BusyWith(c) /\ Current(claim[c], claimCur[c], "claimCtl")),
               (BusyWith(c))' /\ Current(claim'[c], claimCur'[c], "claimCtl") =>
                 \/ claimCache[c] = claim[c]
                 \/ BusyWith(c) /\ Current(claim[c], claimCur[c], "claimCtl")
        PROVE  (ReadyIsSeen(c))'
    <2>1. claimCache[c].state = "Ready" => claim'[c].state = "Ready" \/ ~Engaged(claim'[c])
      BY <1>3, SeenStays
    <2>2. (BusyWith(c))' /\ Current(claim'[c], claimCur'[c], "claimCtl") /\ claimCache[c].state = "Ready" =>
            claim'[c].state = "Ready"
      BY <1>3, ReadyStays DEF ReadyIsSeen, Current
    <2> QED BY <1>1, <1>3, <2>1, <2>2 DEF ReadyIsSeen, Engaged
  <1>4. CASE ClaimStep
    <2>1. /\ ClaimWorkerMoves \/ ClaimWorkerRests
          /\ ClaimKept(c) \/ ClaimStored(c)
      BY <1>4, ClaimStepMoves
    <2>2. (BusyWith(c))' => BusyWith(c)
      BY <2>1 DEF ClaimWorkerMoves, ClaimWorkerRests, BusyWith
    <2> QED BY <1>3, <2>1, <2>2 DEF ClaimKept, ClaimStored, Current, BusyWith
  <1>5. CASE ReferenceStep
    <2>1. /\ ClaimKept(c) \/ ClaimFilled(c)
          /\ cw' = cw
      BY <1>5, ReferenceStepClaims
    <2> QED BY <1>3, <2>1 DEF ClaimKept, ClaimFilled, Current, BusyWith, Engaged, SameClaim
  <1>6. ASSUME NEW d \in Claims, CreateClaim(d) \/ DeleteClaim(d) \/ EditClaim(d)
        PROVE  (ReadyIsSeen(c))'
    <2>1. cw' = cw /\ UserDoes(c) /\ claimCache'[c] = claimCache[c]
      BY <1>6, UserMoves, UsersDo DEF workers, caches
    <2> QED BY <1>3, <2>1 DEF UserDoes, Fresh, Current, BusyWith
  <1>7. ASSUME NEW d \in Claims, StartClaim(d)
        PROVE  (ReadyIsSeen(c))'
    <2>1. /\ UNCHANGED claim /\ claimCache'[c] = claimCache[c]
          /\ \/ cw' = cw /\ claimCur'[c] = claimCur[c]
             \/ cw.pc = "idle" /\ (claimCur'[c] = claimCur[c] \/ "cache" \in claimCur[c])
      BY <1>7, StartClaimMoves DEF ClaimWorkerStarts, ClaimRead, caches
    <2>2. /\ "cache" \in claimCur[c] => claimCache[c] = claim[c]
          /\ "claimCtl" \in claimCur[c] => cw.pc # "idle"
      BY DEF ClaimCopyInv, ClaimCopiesAgree
    <2> QED BY <1>3, <2>1, <2>2 DEF Current, BusyWith
  <1>8. ASSUME NEW s \in Refs, StartReference(s)
        PROVE  (ReadyIsSeen(c))'
    <2>1. /\ UNCHANGED <<claim, cw>> /\ claimCur'[c] \subseteq claimCur[c] \cup {"refCtl"}
          /\ claimCache'[c] = claimCache[c]
      BY <1>8, StartReferenceMoves DEF ClaimRead, caches
    <2> QED BY <1>3, <2>1 DEF Current, BusyWith
  <1>9. ASSUME NEW d \in Claims, SyncClaim(d)
        PROVE  (ReadyIsSeen(c))'
    <2>1. /\ UNCHANGED <<claim, cw>> /\ claimCur'[c] \subseteq claimCur[c] \cup {"cache"}
          /\ claimCache'[c] = claimCache[c] \/ claimCache'[c] = claim'[c]
      BY <1>9, ClaimObjects DEF SyncClaim, workers, ClaimHolders
    <2> QED BY <1>2, <1>3, <2>1 DEF Current, BusyWith
  <1>10. CASE Crash
    BY <1>2, <1>10 DEF Crash
  <1>11. CASE UNCHANGED <<claimObjs, claimCache, workers>>
    BY <1>3, <1>11 DEF claimObjs, workers, BusyWith
  <1>12. UNCHANGED <<claimObjs, secret, workers>> /\ ~(\E d \in Claims : SyncClaim(d)) /\ ~Crash =>
           claimCache' = claimCache
    <2>1. CASE ClaimStep
      BY <2>1, ClaimStepMoves DEF caches
    <2>2. CASE ReferenceStep
      BY <2>2, ReferenceStepClaims
    <2>3. CASE Manager \/ Environment \/ UNCHANGED vars
      BY <2>3, Zenon DEF Manager, StartClaim, SyncSecret, StartReference, SyncRef, Resync, Environment,
         CreateClaim, DeleteClaim, EditClaim, SetRegion, SetCCSSecret,
         AdminDeletesProject, AdminDeletesReference, Stabilise, vars, caches
    <2> QED BY <2>1, <2>2, <2>3 DEF Next
  <1> QED BY <1>4, <1>5, <1>6, <1>7, <1>8, <1>9, <1>10, <1>11, <1>12, ClaimStepKinds

-----------------------------------------------------------------------------
(* A project that is on its way out.                                       *)

\* Only deleteProject takes a project to DELETE_REQUESTED.
LEMMA LifeEnds ==
  ASSUME TypeInv, ReferenceStep, NEW id \in ProjectIDs,
         project'[id].life = "DELETE_REQUESTED", project[id].life # "DELETE_REQUESTED"
  PROVE  DeleteProject /\ id = rw.ref.projectID
  <1>1. id = rw.ref.projectID
    BY OthersUntouched
  <1>2. ASSUME UNCHANGED project PROVE FALSE
    BY <1>2
  <1>3. project \in [ProjectIDs -> Project] /\ project[id] \in Project
    BY ReferenceParts
  <1>4. ASSUME NEW q, NEW pc, Configure(q, pc), q.life = project[id].life PROVE FALSE
    BY <1>1, <1>4, ConfigureLife
  <1>5. CASE \/ ConfigureBillingAPI \/ ConfigureAPIS \/ ConfigureServiceAccount \/ SetIAMPolicy
             \/ SetConsoleAccess \/ DeleteServiceAccount \/ DeleteConsoleAccess \/ DeletePolicy
    <2>1. /\ [project[id] EXCEPT !.billing = TRUE].life = project[id].life
          /\ [project[id] EXCEPT !.apis = TRUE].life = project[id].life
          /\ [project[id] EXCEPT !.sa = TRUE].life = project[id].life
          /\ [project[id] EXCEPT !.sa = FALSE].life = project[id].life
          /\ [project[id] EXCEPT !.bound = TRUE].life = project[id].life
          /\ [project[id] EXCEPT !.bound = FALSE].life = project[id].life
          /\ [project[id] EXCEPT !.console = TRUE].life = project[id].life
          /\ [project[id] EXCEPT !.console = FALSE].life = project[id].life
      BY <1>3 DEF Project
    <2>2. CASE ConfigureBillingAPI \/ ConfigureAPIS \/ SetIAMPolicy \/ SetConsoleAccess
      BY <1>1, <1>4, <2>1, <2>2 DEF ConfigureBillingAPI, ConfigureAPIS, SetIAMPolicy, SetConsoleAccess
    <2>3. CASE DeleteServiceAccount \/ DeleteConsoleAccess
      BY <1>1, <1>4, <2>1, <2>3 DEF DeleteServiceAccount, DeleteConsoleAccess
    <2>4. CASE ConfigureServiceAccount \/ DeletePolicy
      BY <1>1, <1>2, <1>4, <2>1, <2>4 DEF ConfigureServiceAccount, DeletePolicy
    <2> QED BY <1>5, <2>2, <2>3, <2>4
  <1>6. CASE ProjectMissing
    <2>1. \/ UNCHANGED project
          \/ project' = [project EXCEPT ![id] = IF @.life = "none" THEN [@ EXCEPT !.life = "ACTIVE"] ELSE @]
      BY <1>1, <1>6 DEF ProjectMissing
    <2> QED BY <1>2, <1>3, <2>1 DEF Project
  <1>7. CASE DeleteProject
    BY <1>1, <1>7
  <1>8. CASE \/ DeleteCredentials \/ ListProjectsFails \/ ProjectFound \/ CreateKey \/ CreateSecret
             \/ EnsureClaimProjectIDSet
    BY <1>2, <1>8, Zenon DEF DeleteCredentials, ListProjectsFails, ProjectFound, CreateKey,
         CreateSecret, EnsureClaimProjectIDSet, cloud
  <1> QED BY <1>2, <1>5, <1>6, <1>7, <1>8, WritersEnd DEF ReferenceStep

\* What the ProjectClaim controller does to a reference that is there afterwards.
LEMMA ClaimStepGoing ==
  ASSUME TypeInv, ClaimStep, NEW r \in Refs, ref'[r].exists
  PROVE  \/ /\ ref[r].exists /\ ref'[r].projectID = ref[r].projectID
            /\ ref[r].deleting => ref'[r].deleting
         \/ ref'[r].projectID \in CCSProjectIDs \cup {Nil}
  <1>1. CASE ref[r].exists /\ IDKept(r)
    <2>1. RefKept(r) \/ RefDeleted(r)
      BY <1>1, ClaimStepRefs DEF RefDeletedByClaim, RefCreated
    <2>2. ref[r].deleting => ref'[r].deleting
      <3>1. CASE RefKept(r)
        BY <3>1 DEF RefKept
      <3>2. CASE RefDeleted(r)
        <4>1. ref[r] \in ProjectReference
          BY ReferenceParts
        <4>2. Deleted(ref[r], NoRef).deleting \/ Deleted(ref[r], NoRef) = NoRef
          BY <4>1, DeletedRef
        <4>3. ~NoRef.exists
          BY DEF NoRef
        <4> QED BY <3>2, <4>2, <4>3 DEF RefDeleted
      <3> QED BY <2>1, <3>1, <3>2
    <2> QED BY <1>1, <2>2 DEF IDKept
  <1> QED BY <1>1, ClaimStepIDs

\* References that work on a project keep it.
LEMMA InactiveStep ==
  ASSUME ProvisioningIsReliable, TypeInv, ReferenceCopyInv, UnderFinalizer, IDsAreOwn, NamedOnce,
         InactiveIsGoing, [Next]_vars, TypeInv'
  PROVE  InactiveIsGoing'
  <1> DEFINE Gone(id) == project[id].life = "DELETE_REQUESTED"
             GoingOn(r, id) == ref[r].exists /\ ref[r].projectID = id => ref[r].deleting
             Cleaned == rw.pc \in DeletionSteps /\ ref[rw.key].exists =>
                          ref[rw.key].deleting \/ ref[rw.key].projectID \in CCSProjectIDs \cup {Nil}
  <1>1. ASSUME NEW id \in ProjectIDs \ CCSProjectIDs, (Gone(id))'
        PROVE  id \in issued' /\ \A r \in Refs : (GoingOn(r, id))'
    <2>1. id # Nil /\ id \in ProjectIDs
      BY NilAssumption
    <2>2. CASE ReferenceStep
      <3>1. issued \subseteq issued' /\ rw.key \in Refs
        BY <2>2, ReferenceStepMoves, ReferenceParts, ReferenceStepIDs
      <3>2. CASE Gone(id)
        <4>1. id \in issued /\ \A r \in Refs : GoingOn(r, id)
          BY <1>1, <3>2 DEF InactiveIsGoing
        <4>2. ASSUME NEW r \in Refs, ref'[r].exists, ref'[r].projectID = id
              PROVE  ref'[r].deleting
          <5>1. ref[r].exists /\ (ref[r].deleting => ref'[r].deleting)
            BY <2>2, <4>2, DeletingStays
          <5>2. IDKept(r)
            BY <2>1, <2>2, <4>1, <4>2, ReferenceStepIDs DEF IDWritten
          <5> QED BY <4>1, <4>2, <5>1, <5>2 DEF IDKept
        <4> QED BY <3>1, <4>1, <4>2
      <3>3. CASE ~Gone(id)
        <4>1. DeleteProject /\ id = rw.ref.projectID
          BY <1>1, <2>2, <3>3, LifeEnds
        <4>2. rw.pc = "DeleteProject" /\ UNCHANGED <<refObjs, issued>> /\ rw.key \in Refs
          BY <4>1, ReferenceParts DEF DeleteProject
        <4>3. Names(rw.key, id)
          BY <4>1, <4>2 DEF Names
        <4>4. id \in issued /\ \A s \in Refs : Names(s, id) => rw.key = s
          BY <2>1, <4>2, <4>3 DEF NamedOnce
        <4>5. ref[rw.key].exists /\ ref[rw.key].projectID = id => ref[rw.key].deleting
          BY <2>1, <1>1, <4>2 DEF InactiveIsGoing, DeletionSteps
        <4>6. ASSUME NEW r \in Refs, ref[r].exists, ref[r].projectID = id
              PROVE  ref[r].deleting
          BY <4>4, <4>5, <4>6 DEF Names
        <4> QED BY <4>2, <4>4, <4>6 DEF refObjs
      <3> QED BY <3>2, <3>3
    <2>3. CASE UNCHANGED Resources
      <3>1. id \in issued' /\ \A r \in Refs : GoingOn(r, id)
        BY <1>1, <2>3 DEF InactiveIsGoing, Resources
      <3>2. CASE ClaimStep
        BY <1>1, <2>1, <3>1, <3>2, ClaimStepGoing
      <3>3. CASE UNCHANGED ref
        BY <3>1, <3>3
      <3> QED BY <2>2, <3>2, <3>3, StepKinds, StartReferenceMoves
              DEF SyncRef, Crash, References, refObjs, Refs
    <2> QED BY <2>2, <2>3, StepKinds
  <1>2. Cleaned'
    <2>1. Cleaned
      BY DEF InactiveIsGoing
    <2> SUFFICES ASSUME rw'.pc \in DeletionSteps, ref'[rw'.key].exists
                 PROVE  \/ ref'[rw'.key].deleting
                        \/ ref'[rw'.key].projectID \in CCSProjectIDs \cup {Nil}
      OBVIOUS
    <2>2. rw'.pc # "idle" /\ rw'.pc # "Condition"
      BY DEF DeletionSteps
    <2>3. CASE ReferenceStep
      <3>1. rw.pc \in DeletionSteps /\ rw'.key = rw.key /\ rw.key \in Refs
        BY <2>2, <2>3, ReferenceStepMoves, ReferenceParts
           DEF RefWorkerMoves, FinishReference, IdleReferenceWorker
      <3>2. ref'[rw.key] = ref[rw.key]
        BY <2>2, <2>3, <3>1, ReferenceStepRefs DEF RefKept, RefWritten
      <3> QED BY <2>1, <3>1, <3>2
    <2>4. CASE ClaimStep
      <3>1. rw' = rw /\ rw.key \in Refs
        BY <2>2, <2>4, ClaimStepLeaves, ReferenceParts
      <3> QED BY <2>1, <2>4, <3>1, ClaimStepGoing
    <2>5. ASSUME NEW r \in Refs, StartReference(r)
          PROVE  \/ ref'[rw'.key].deleting
                 \/ ref'[rw'.key].projectID \in CCSProjectIDs \cup {Nil}
      <3>1. UNCHANGED ref /\ (rw' = rw \/ RefWorkerStarts(r))
        BY <2>5, StartReferenceMoves
      <3>2. CASE RefWorkerStarts(r)
        <4>1. refCache[r].exists /\ refCache[r].deleting /\ rw'.key = r
          BY <3>2, FirstOperationKind DEF RefWorkerStarts
        <4> QED BY <3>1, <4>1 DEF UnderFinalizer
      <3> QED BY <2>1, <3>1, <3>2
    <2>6. CASE UNCHANGED <<ref, rw>>
      BY <2>1, <2>6
    <2>7. ~Crash
      BY <2>2 DEF Crash, IdleReferenceWorker
    <2> QED BY <2>3, <2>4, <2>5, <2>6, <2>7, StepKinds DEF SyncRef, workers, References, refObjs
  <1> QED BY <1>1, <1>2 DEF InactiveIsGoing

-----------------------------------------------------------------------------
(* How a chain of operations of a reference ends.                          *)

\* A write of the stored version is applied.
LEMMA CurrentReply ==
  ASSUME NEW h, NEW old, NEW cur, NEW new, NEW touched \in BOOLEAN,
         NEW w \in Replies(h, old, cur, new, touched)
  PROVE  /\ w.ok => Current(old, cur, h) /\ w.obj = new
         /\ WakeupsAreReliable /\ Current(old, cur, h) =>
              w.obj = new /\ (new # old => w.cur \subseteq {h})
  <1>1. \/ Accepted(h, old, cur, new, touched, w) \/ Refused(h, old, cur, w)
        \/ AnswerLost(h, old, cur, new, touched, w)
    BY ReplyKinds
  <1> QED BY <1>1 DEF Accepted, Refused, AnswerLost, WakeupsAreReliable

\* What a write of the stored version of a reference leaves.
RefWrote(new) ==
  /\ ref'[rw.key] = new
  /\ new # ref[rw.key] => refCur'[rw.key] \subseteq {"refCtl"}

\* The two kinds of writes of a reference.
LEMMA CurrentRefWrite ==
  ASSUME WakeupsAreReliable, TypeInv, rw.pc # "idle",
         Current(ref[rw.key], refCur[rw.key], "refCtl"), NEW o, NEW t \in BOOLEAN, NEW ok
  PROVE  /\ UpdateRef(rw.key, o, ok) => RefWrote(RefUpdate(o, ref[rw.key]))
         /\ UpdateRefStatus(rw.key, o, t, ok) => RefWrote(RefStatusUpdate(o, ref[rw.key]))
  <1> DEFINE k == rw.key
  <1>1. k \in Refs /\ ref \in [Refs -> ProjectReference] /\ refCur \in [Refs -> RefHolders]
    BY ReferenceParts
  <1>2. ASSUME NEW new, NEW u \in BOOLEAN,
               \E w \in Replies("refCtl", ref[k], refCur[k], new, u) :
                 ref' = [ref EXCEPT ![k] = w.obj] /\ refCur' = [refCur EXCEPT ![k] = w.cur]
        PROVE  RefWrote(new)
    <2>1. PICK w \in Replies("refCtl", ref[k], refCur[k], new, u) :
            ref' = [ref EXCEPT ![k] = w.obj] /\ refCur' = [refCur EXCEPT ![k] = w.cur]
      BY <1>2
    <2>2. w.obj = new /\ (new # ref[k] => w.cur \subseteq {"refCtl"})
      BY <2>1, CurrentReply
    <2> QED BY <1>1, <2>1, <2>2 DEF RefWrote
  <1>3. UpdateRef(k, o, ok) => RefWrote(RefUpdate(o, ref[k]))
    BY <1>2 DEF UpdateRef
  <1>4. UpdateRefStatus(k, o, t, ok) => RefWrote(RefStatusUpdate(o, ref[k]))
    BY <1>2 DEF UpdateRefStatus
  <1> QED BY <1>3, <1>4

\* What RefGoto and RefFinish leave of the worker.
LEMMA RefWorkerAfter ==
  ASSUME TypeInv, NEW pc, NEW o, NEW out
  PROVE  /\ RefGoto(pc) =>
              /\ rw'.pc = pc /\ rw'.ref = rw.ref /\ rw'.out = rw.out /\ rw'.key = rw.key
              /\ rw'.claim = rw.claim
         /\ RefFinish(out, o) =>
              rw'.pc = "Condition" /\ rw'.ref = o /\ rw'.out = out /\ rw'.key = rw.key
         /\ RefFails =>
              /\ rw'.pc = "Condition" /\ rw'.ref = rw.ref /\ rw'.out = "error"
              /\ rw'.key = rw.key
  <1>1. rw \in ReferenceWorker
    BY ReferenceParts
  <1> QED BY <1>1 DEF RefGoto, RefFinish, RefFails, ReferenceWorker

\* What the writes store in the fields that the invariants are about.
LEMMA StoredRefFields ==
  ASSUME NEW o \in ProjectReference, NEW old \in ProjectReference, NEW any
  PROVE  /\ o.deleting /\ ~o.finalizer => RefUpdate(o, old) = NoRef
         /\ ~(o.deleting /\ ~o.finalizer) =>
              /\ RefUpdate(o, old).compute = old.compute
              /\ RefUpdate(o, old).projectID = o.projectID
              /\ RefUpdate(o, old).saName = o.saName
              /\ RefUpdate(o, old).finalizer = o.finalizer
         /\ RefStatusUpdate(any, old).compute = any.compute
         /\ RefStatusUpdate(any, old).state = any.state
         /\ RefStatusUpdate(any, old).inited = any.inited
         /\ RefStatusUpdate(any, old).error = any.error
  BY DEF RefUpdate, RefStatusUpdate, Collected, ProjectReference

\* An operation failed, or asks for a new try while the project is set up.
EndsAgain ==
  /\ UNCHANGED refObjs /\ rw'.ref = rw.ref
  /\ rw'.out = "error" \/ (rw'.out = "after" /\ rw.pc \in SetUpSteps)

\* The reference was written before it was Ready, or it is gone.
EndsWritten ==
  /\ refCur'[rw.key] \subseteq {"refCtl"} /\ ref'[rw.key].compute = "none"
  /\ ref'[rw.key].exists => rw'.ref.compute = "none"

\* That the Compute API is not ready was noted.
EndsNoted ==
  /\ rw'.out \in {"after", "error"}
  /\ \A o \in {rw'.ref, ref'[rw.key]} : o.compute = "False" /\ o.state = "Ready" /\ o.inited

\* The claim has its zones, or the write of it failed.
EndsZoned ==
  /\ UNCHANGED refObjs
  /\ rw'.ref.compute = "True" /\ rw'.ref.state = "Ready" /\ rw'.ref.inited
  /\ rw.pc = "AvailabilityZones" /\ rw'.ref.owner = rw.ref.owner
  /\ \/ rw'.out = "error"
     \/ /\ rw'.out = "now" /\ claim'[rw.ref.owner].zones
        /\ ~claim[rw.ref.owner].zones

\* The claim is Ready, or the write of it failed.
EndsReady ==
  /\ UNCHANGED refObjs /\ rw'.ref = rw.ref /\ rw.pc = "ClaimReady"
  /\ \/ rw'.out = "error"
     \/ /\ rw'.out = "stop" /\ claim'[rw.ref.owner].state = "Ready"
        /\ claim'[rw.ref.owner].zones

\* The writes of the status before the reference is Ready.
LEMMA StatusEnds ==
  ASSUME WakeupsAreReliable, TypeInv, rw.pc # "idle", ComputeIsNoted, rw.ref = ref[rw.key],
         Current(ref[rw.key], refCur[rw.key], "refCtl"), NEW o, SaveRefStatus(o),
         o.compute = rw.ref.compute, rw.ref.state # "Ready" \/ ~rw.ref.inited,
         o.state # rw.ref.state \/ o.inited # rw.ref.inited
  PROVE  EndsWritten
  <1> DEFINE k == rw.key
             new == RefStatusUpdate(o, ref[k])
  <1>1. k \in Refs /\ ref[k] \in ProjectReference
    BY ReferenceParts
  <1>2. ref[k].compute = "none"
    BY <1>1 DEF ComputeIsNoted
  <1>3. new.compute = o.compute /\ new.state = o.state /\ new.inited = o.inited
    BY <1>1, StoredRefFields
  <1>4. RefWrote(new)
    BY CurrentRefWrite DEF SaveRefStatus
  <1>5. rw'.ref = o
    BY RefWorkerAfter DEF SaveRefStatus
  <1> HIDE DEF new
  <1> QED BY <1>2, <1>3, <1>4, <1>5 DEF EndsWritten, RefWrote

\* The writes of the spec before the reference is Ready.
LEMMA SpecEnds ==
  ASSUME WakeupsAreReliable, TypeInv, rw.pc # "idle", ComputeIsNoted, rw.ref = ref[rw.key],
         Current(ref[rw.key], refCur[rw.key], "refCtl"), NEW o \in ProjectReference, NEW ok,
         UpdateRef(rw.key, o, ok), rw'.ref = o \/ rw'.ref = RefUpdate(o, ref[rw.key]),
         o.compute = rw.ref.compute, rw.ref.state # "Ready", ~o.deleting,
         \/ o.projectID # rw.ref.projectID \/ o.saName # rw.ref.saName
         \/ o.finalizer # rw.ref.finalizer
  PROVE  EndsWritten
  <1> DEFINE k == rw.key
             new == RefUpdate(o, ref[k])
  <1>1. k \in Refs /\ ref[k] \in ProjectReference
    BY ReferenceParts
  <1>2. ref[k].compute = "none"
    BY <1>1 DEF ComputeIsNoted
  <1>3. /\ new.compute = ref[k].compute /\ new.projectID = o.projectID
        /\ new.saName = o.saName /\ new.finalizer = o.finalizer
    BY <1>1, StoredRefFields
  <1>4. RefWrote(new)
    BY CurrentRefWrite
  <1> HIDE DEF new
  <1> QED BY <1>2, <1>3, <1>4 DEF EndsWritten, RefWrote, new

\* The writes of references that end a chain.
LEMMA WritersEndWritten ==
  ASSUME WakeupsAreReliable, TypeInv, ReferenceCopyInv, IDsAreOwn, SetUpSoFar, RefStepIsDue,
         ComputeIsNoted, Current(ref[rw.key], refCur[rw.key], "refCtl"),
         \/ EnsureProjectReferenceInitialized \/ EnsureProjectReferenceStatusCreating
         \/ EnsureServiceAccountName \/ EnsureFinalizerAdded \/ EnsureStateReady
         \/ ClearProjectID \/ EnsureFinalizerDeleted \/ EnsureProjectID
  PROVE  EndsWritten \/ EndsAgain
  <1> DEFINE o == rw.ref
  <1>1. rw.pc \notin {"idle", "Condition"}
    BY DEF EnsureProjectReferenceInitialized, EnsureProjectReferenceStatusCreating,
         EnsureServiceAccountName, EnsureFinalizerAdded, EnsureStateReady, ClearProjectID,
         EnsureFinalizerDeleted, EnsureProjectID
  <1>2. rw.ref = ref[rw.key] /\ o \in ProjectReference /\ rw.key \in Refs
    BY <1>1, ReferenceParts DEF ReferenceCopyInv, CopiesAgree
  <1>3. rw.pc \in BeforeReady => ~o.deleting /\ o.state # "Ready"
    BY DEF RefStepIsDue
  <1>4. CASE EnsureProjectReferenceInitialized
    <2>1. LET e == [o EXCEPT !.inited = TRUE] IN e.compute = o.compute /\ e.inited = TRUE
      BY <1>2 DEF ProjectReference
    <2>2. ~o.inited
      BY <1>4 DEF EnsureProjectReferenceInitialized, RefStepIsDue
    <2> QED BY <1>1, <1>2, <1>4, <2>1, <2>2, StatusEnds DEF EnsureProjectReferenceInitialized
  <1>5. CASE EnsureProjectReferenceStatusCreating
    <2>1. LET e == [o EXCEPT !.state = "Creating"] IN e.compute = o.compute /\ e.state = "Creating"
      BY <1>2 DEF ProjectReference
    <2>2. o.state # "Creating" /\ o.state # "Ready"
      BY <1>3, <1>5 DEF EnsureProjectReferenceStatusCreating, RefStepIsDue, BeforeReady
    <2> QED BY <1>1, <1>2, <1>5, <2>1, <2>2, StatusEnds DEF EnsureProjectReferenceStatusCreating
  <1>6. CASE EnsureStateReady
    <2>1. LET e == [o EXCEPT !.state = "Ready"] IN e.compute = o.compute /\ e.state = "Ready"
      BY <1>2 DEF ProjectReference
    <2>2. o.state # "Ready"
      BY <1>3, <1>6 DEF EnsureStateReady, BeforeReady, SetUpSteps
    <2> QED BY <1>1, <1>2, <1>6, <2>1, <2>2, StatusEnds DEF EnsureStateReady
  <1>7. ASSUME NEW e, SaveRef(e)
        PROVE  \E ok : /\ UpdateRef(rw.key, e, ok)
                       /\ rw'.ref = e \/ rw'.ref = RefUpdate(e, ref[rw.key])
    BY <1>7, RefWorkerAfter DEF SaveRef, Answer
  <1>8. CASE EnsureServiceAccountName
    <2> DEFINE e == [o EXCEPT !.saName = TRUE]
    <2>1. e \in ProjectReference /\ e.compute = o.compute /\ e.saName = TRUE /\ e.deleting = o.deleting
      BY <1>2 DEF ProjectReference
    <2>2. ~o.saName /\ o.state # "Ready" /\ ~o.deleting
      BY <1>3, <1>8 DEF EnsureServiceAccountName, RefStepIsDue, BeforeReady
    <2>3. SaveRef(e)
      BY <1>8 DEF EnsureServiceAccountName
    <2> HIDE DEF e
    <2> QED BY <1>1, <1>2, <1>7, <2>1, <2>2, <2>3, SpecEnds
  <1>9. CASE EnsureFinalizerAdded
    <2> DEFINE e == [o EXCEPT !.finalizer = TRUE]
    <2>1. /\ e \in ProjectReference /\ e.compute = o.compute /\ e.finalizer = TRUE
          /\ e.deleting = o.deleting
      BY <1>2 DEF ProjectReference
    <2>2. ~o.finalizer /\ o.state # "Ready" /\ ~o.deleting
      BY <1>3, <1>9 DEF EnsureFinalizerAdded, RefStepIsDue, BeforeReady
    <2>3. SaveRef(e)
      BY <1>9 DEF EnsureFinalizerAdded
    <2> HIDE DEF e
    <2> QED BY <1>1, <1>2, <1>7, <2>1, <2>2, <2>3, SpecEnds
  <1>10. CASE EnsureProjectID
    <2>1. o.projectID = Nil /\ o.state # "Ready" /\ ~o.deleting
      BY <1>3, <1>10 DEF EnsureProjectID, IDsAreOwn, BeforeReady
    <2>2. ASSUME NEW id \in ProjectIDs, SaveRef([o EXCEPT !.projectID = id])
          PROVE  EndsWritten
      <3> DEFINE e == [o EXCEPT !.projectID = id]
      <3>1. /\ e \in ProjectReference /\ e.compute = o.compute /\ e.projectID = id
            /\ e.deleting = o.deleting
        BY <1>2 DEF ProjectReference, MaybeID
      <3>2. SaveRef(e) /\ id # Nil
        BY <2>2, NilAssumption
      <3> HIDE DEF e
      <3> QED BY <1>1, <1>2, <1>7, <2>1, <3>1, <3>2, SpecEnds
    <2>3. ASSUME RefFails, UNCHANGED refObjs PROVE EndsAgain
      BY <2>3, RefWorkerAfter DEF EndsAgain
    <2> QED BY <1>10, <2>2, <2>3 DEF EnsureProjectID, refObjs
  <1>11. CASE ClearProjectID
    <2> DEFINE e == [o EXCEPT !.projectID = Nil]
    <2>1. /\ e \in ProjectReference /\ e.compute = o.compute /\ e.projectID = Nil
          /\ e.deleting = o.deleting
      BY <1>2 DEF ProjectReference, MaybeID
    <2>2. o.projectID # Nil /\ o.state # "Ready" /\ ~o.deleting
      BY <1>3, <1>11 DEF ClearProjectID, SetUpSoFar, BeforeReady, SetUpSteps
    <2>3. PICK ok \in BOOLEAN : /\ UpdateRef(rw.key, e, ok)
                                /\ rw'.ref = e \/ rw'.ref = RefUpdate(e, ref[rw.key])
      BY <1>11, RefWorkerAfter DEF ClearProjectID, Answer
    <2> HIDE DEF e
    <2> QED BY <1>1, <1>2, <2>1, <2>2, <2>3, SpecEnds
  <1>12. CASE EnsureFinalizerDeleted
    <2> DEFINE e == [o EXCEPT !.finalizer = FALSE]
    <2>1. e \in ProjectReference /\ ~e.finalizer /\ e.deleting = o.deleting
      BY <1>2 DEF ProjectReference
    <2>2. o.deleting
      BY <1>12 DEF EnsureFinalizerDeleted, ReferenceCopyInv, DeletionSteps
    <2>3. PICK ok \in BOOLEAN : UpdateRef(rw.key, e, ok)
      BY <1>12 DEF EnsureFinalizerDeleted
    <2> HIDE DEF e
    <2>4. RefUpdate(e, ref[rw.key]) = NoRef
      BY <1>2, <2>1, <2>2, StoredRefFields
    <2>5. RefWrote(NoRef)
      BY <1>1, <2>3, <2>4, CurrentRefWrite
    <2>6. ~NoRef.exists /\ NoRef.compute = "none"
      BY DEF NoRef
    <2>7. NoRef # ref[rw.key]
      BY <2>6 DEF Current
    <2> QED BY <2>5, <2>6, <2>7 DEF EndsWritten, RefWrote
  <1> QED BY <1>4, <1>5, <1>6, <1>8, <1>9, <1>10, <1>11, <1>12

\* A write of a claim that is accepted.
LEMMA StoredClaim ==
  ASSUME TypeInv, NEW h, NEW c \in Claims, NEW o, NEW t \in BOOLEAN
  PROVE  /\ UpdateClaim(h, c, o, TRUE) =>
              Current(claim[c], claimCur[c], h) /\ claim'[c] = ClaimUpdate(o, claim[c])
         /\ UpdateClaimStatus(h, c, o, t, TRUE) =>
              Current(claim[c], claimCur[c], h) /\ claim'[c] = ClaimStatusUpdate(o, claim[c])
  <1>1. claim \in [Claims -> ProjectClaim]
    BY ClaimObjects
  <1>2. ASSUME NEW new, NEW u \in BOOLEAN,
               \E w \in Replies(h, claim[c], claimCur[c], new, u) :
                 w.ok = TRUE /\ claim' = [claim EXCEPT ![c] = w.obj]
        PROVE  Current(claim[c], claimCur[c], h) /\ claim'[c] = new
    <2>1. PICK w \in Replies(h, claim[c], claimCur[c], new, u) :
            w.ok = TRUE /\ claim' = [claim EXCEPT ![c] = w.obj]
      BY <1>2
    <2>2. Current(claim[c], claimCur[c], h) /\ w.obj = new
      BY <2>1, CurrentReply
    <2> QED BY <1>1, <2>1, <2>2
  <1>3. UpdateClaim(h, c, o, TRUE) =>
          Current(claim[c], claimCur[c], h) /\ claim'[c] = ClaimUpdate(o, claim[c])
    BY <1>2 DEF UpdateClaim
  <1>4. UpdateClaimStatus(h, c, o, t, TRUE) =>
          Current(claim[c], claimCur[c], h) /\ claim'[c] = ClaimStatusUpdate(o, claim[c])
    BY <1>2 DEF UpdateClaimStatus
  <1> QED BY <1>3, <1>4

\* The zones end the chain.
LEMMA ZonesEnd ==
  ASSUME TypeInv, ClaimCopyInv, RefStepIsDue, EnsureClaimAvailabilityZonesSet
  PROVE  EndsZoned
  <1> DEFINE c == rw.ref.owner
             e == [rw.claim EXCEPT !.zones = TRUE]
             noted == [rw.ref EXCEPT !.compute = "True"]
  <1>1. /\ rw.pc = "AvailabilityZones" /\ c \in Claims /\ claim[c] \in ProjectClaim
        /\ rw.ref \in ProjectReference /\ rw.claim \in ProjectClaim
    BY ReferenceParts DEF EnsureClaimAvailabilityZonesSet
  <1>2. ~rw.claim.zones /\ rw.ref.state = "Ready" /\ rw.ref.inited
    BY <1>1 DEF RefStepIsDue, ClaimReadySteps
  <1>3. /\ noted.compute = "True" /\ noted.state = rw.ref.state /\ noted.inited = rw.ref.inited
        /\ noted.owner = rw.ref.owner
    BY <1>1 DEF ProjectReference
  <1>4. PICK ok \in BOOLEAN : /\ UpdateClaim("refCtl", c, e, ok)
                              /\ RefFinish(IF ok THEN "now" ELSE "error", noted)
    BY DEF EnsureClaimAvailabilityZonesSet
  <1>5. rw'.ref = noted /\ rw'.out = IF ok THEN "now" ELSE "error"
    BY <1>4, RefWorkerAfter
  <1>6. CASE ok
    <2>1. Current(claim[c], claimCur[c], "refCtl") /\ claim'[c] = ClaimUpdate(e, claim[c])
      <3> HIDE DEF e, c
      <3> QED BY <1>1, <1>4, <1>6, StoredClaim DEF c
    <2>2. rw.claim = claim[c] /\ (claim[c].deleting => claim[c].finalizer)
      BY <1>1, <2>1 DEF ClaimCopyInv, ClaimCopiesAgree, ClaimReadySteps
    <2>3. /\ e \in ProjectClaim /\ e.zones /\ e.deleting = rw.claim.deleting
          /\ e.finalizer = rw.claim.finalizer
      BY <1>1 DEF ProjectClaim
    <2> HIDE DEF e
    <2>4. claim'[c].zones
      BY <1>1, <2>1, <2>2, <2>3, StoredFields DEF SameFields
    <2> HIDE DEF noted
    <2> QED BY <1>1, <1>2, <1>3, <1>5, <1>6, <2>2, <2>4
            DEF EndsZoned, EnsureClaimAvailabilityZonesSet
  <1>7. CASE ~ok
    <2> HIDE DEF noted, e
    <2> QED BY <1>1, <1>2, <1>3, <1>5, <1>7 DEF EndsZoned, EnsureClaimAvailabilityZonesSet
  <1> QED BY <1>6, <1>7

\* The status of the claim ends the chain.
LEMMA ClaimReadyEnds ==
  ASSUME TypeInv, ClaimCopyInv, RefStepIsDue, EnsureProjectClaimReady
  PROVE  EndsReady
  <1> DEFINE c == rw.ref.owner
             e == [rw.claim EXCEPT !.state = "Ready"]
  <1>1. /\ rw.pc = "ClaimReady" /\ c \in Claims /\ claim[c] \in ProjectClaim
        /\ rw.claim \in ProjectClaim
    BY ReferenceParts DEF EnsureProjectClaimReady
  <1>2. rw.claim.zones
    BY <1>1 DEF RefStepIsDue
  <1>3. PICK ok \in BOOLEAN : /\ UpdateClaimStatus("refCtl", c, e, FALSE, ok)
                              /\ RefFinish(ErrorOrStop(ok), rw.ref)
    BY DEF EnsureProjectClaimReady
  <1>4. rw'.ref = rw.ref /\ rw'.out = ErrorOrStop(ok)
    BY <1>3, RefWorkerAfter
  <1>5. CASE ok
    <2>1. Current(claim[c], claimCur[c], "refCtl") /\ claim'[c] = ClaimStatusUpdate(e, claim[c])
      <3> HIDE DEF e, c
      <3> QED BY <1>1, <1>3, <1>5, StoredClaim DEF c
    <2>2. rw.claim = claim[c]
      BY <1>1, <2>1 DEF ClaimCopyInv, ClaimCopiesAgree, ClaimReadySteps
    <2>3. e.state = "Ready"
      BY <1>1 DEF ProjectClaim
    <2> HIDE DEF e
    <2>4. claim'[c].state = "Ready" /\ claim'[c].zones
      BY <1>1, <1>2, <2>1, <2>2, <2>3, StoredFields, ClaimStatusFields DEF SameFields
    <2> QED BY <1>1, <1>4, <1>5, <2>4 DEF EndsReady, ErrorOrStop, EnsureProjectClaimReady
  <1>6. CASE ~ok
    BY <1>1, <1>4, <1>6 DEF EndsReady, ErrorOrStop, EnsureProjectClaimReady
  <1> QED BY <1>5, <1>6

\* So does an error from the Compute API.
LEMMA ComputeEnds ==
  ASSUME WakeupsAreReliable, TypeInv, ReferenceCopyInv, RefStepIsDue,
         Current(ref[rw.key], refCur[rw.key], "refCtl"), HandleAvailabilityZonesError
  PROVE  EndsNoted \/ EndsAgain
  <1> DEFINE noted == [rw.ref EXCEPT !.compute = "False"]
             new == RefStatusUpdate(noted, ref[rw.key])
  <1>1. /\ rw.pc = "AvailabilityZones" /\ rw.key \in Refs /\ ref[rw.key] \in ProjectReference
        /\ rw.ref \in ProjectReference
    BY ReferenceParts DEF HandleAvailabilityZonesError
  <1>2. rw.ref.state = "Ready" /\ rw.ref.inited
    BY <1>1 DEF RefStepIsDue, ClaimReadySteps
  <1>3. noted.compute = "False" /\ noted.state = rw.ref.state /\ noted.inited = rw.ref.inited
    BY <1>1 DEF ProjectReference
  <1>4. ASSUME NEW ok, NEW t \in BOOLEAN, UpdateRefStatus(rw.key, noted, t, ok)
        PROVE  RefWrote(new)
    <2> HIDE DEF noted
    <2> QED BY <1>1, <1>4, CurrentRefWrite
  <1>5. CASE RefFails /\ UNCHANGED refObjs
    BY <1>5, RefWorkerAfter DEF EndsAgain
  <1>6. ASSUME NEW ok \in BOOLEAN, NEW t \in BOOLEAN, NEW late,
               UpdateRefStatus(rw.key, noted, t, ok),
               RefFinish(IF late \/ ~ok THEN "error" ELSE "after", noted)
        PROVE  EndsNoted
    <2>1. RefWrote(new)
      BY <1>4, <1>6
    <2>2. rw'.ref = noted /\ rw'.out \in {"error", "after"}
      BY <1>6, RefWorkerAfter
    <2> HIDE DEF noted
    <2>3. new.compute = noted.compute /\ new.state = noted.state /\ new.inited = noted.inited
      BY <1>1, StoredRefFields
    <2> HIDE DEF new
    <2> QED BY <1>2, <1>3, <2>1, <2>2, <2>3 DEF EndsNoted, RefWrote
  <1> QED BY <1>5, <1>6 DEF HandleAvailabilityZonesError

\* A call to GCP, or for the Secret, ends the chain only if it fails or is to be
\* tried again.
LEMMA CloudEnds ==
  ASSUME TypeInv, ReferenceCopyInv, Current(ref[rw.key], refCur[rw.key], "refCtl"),
         rw'.pc = "Condition",
         \/ DeletePolicy \/ DeleteServiceAccount \/ DeleteProject \/ DeleteConsoleAccess
         \/ DeleteCredentials \/ ListProjectsFails \/ ProjectFound \/ ProjectMissing
         \/ ConfigureBillingAPI \/ ConfigureAPIS \/ ConfigureServiceAccount \/ SetIAMPolicy
         \/ CreateKey \/ CreateSecret \/ SetConsoleAccess
  PROVE  EndsAgain
  <1>1. UNCHANGED refObjs
    BY CloudMoves
  <1>2. RefFails => EndsAgain
    BY <1>1, RefWorkerAfter DEF EndsAgain
  <1>3. RefFinish("after", rw.ref) /\ rw.pc \in SetUpSteps => EndsAgain
    BY <1>1, RefWorkerAfter DEF EndsAgain
  <1>4. ASSUME NEW pc, RefGoto(pc) PROVE pc = "Condition"
    BY <1>4, RefWorkerAfter
  <1>5. ASSUME NEW p, NEW pc, Configure(p, pc), pc # "Condition" PROVE RefFails
    BY <1>4, <1>5 DEF Configure
  <1>6. AfterServiceAccount(rw.ref) # "Condition" /\ AfterCredentials(rw.ref) # "Condition"
    BY DEF AfterServiceAccount, AfterCredentials
  <1>7. CASE ConfigureBillingAPI \/ ConfigureAPIS \/ SetIAMPolicy \/ SetConsoleAccess
             \/ DeleteServiceAccount \/ DeleteConsoleAccess
    BY <1>2, <1>5, <1>6, <1>7 DEF ConfigureBillingAPI, ConfigureAPIS, SetIAMPolicy,
         SetConsoleAccess, DeleteServiceAccount, DeleteConsoleAccess
  <1>8. CASE ConfigureServiceAccount \/ CreateKey
    BY <1>2, <1>3, <1>4, <1>5, <1>6, <1>8 DEF ConfigureServiceAccount, CreateKey, SetUpSteps
  <1>9. CASE DeletePolicy \/ DeleteProject
    BY <1>2, <1>4, <1>5, <1>6, <1>9 DEF DeletePolicy, DeleteProject
  <1>10. CASE ListProjectsFails \/ ProjectFound \/ ProjectMissing \/ CreateSecret
    BY <1>2, <1>4, <1>6, <1>10 DEF ListProjectsFails, ProjectFound, ProjectMissing, CreateSecret
  <1>11. CASE DeleteCredentials
    <2>1. rw.pc = "DeleteCredentials" /\ rw.key \in Refs
      BY <1>11, ReferenceParts DEF DeleteCredentials
    <2>2. rw.ref = ref[rw.key] /\ rw.ref.deleting
      BY <2>1 DEF ReferenceCopyInv, CopiesAgree, DeletionSteps
    <2>3. rw.ref.finalizer
      BY <2>1, <2>2 DEF ReferenceCopyInv, CopiesAgree
    <2>4. AfterDeleteCredentials(rw.ref) # "Condition"
      BY <2>3 DEF AfterDeleteCredentials
    <2> QED BY <1>2, <1>4, <1>11, <2>4 DEF DeleteCredentials
  <1> QED BY <1>7, <1>8, <1>9, <1>10, <1>11

\* The ways in which a chain of operations on the stored version ends.
LEMMA RefEnds ==
  ASSUME WakeupsAreReliable, TypeInv, ClaimCopyInv, ReferenceCopyInv, IDsAreOwn, SetUpSoFar,
         InactiveIsGoing, RefStepIsDue, ComputeIsNoted,
         ReferenceStep, rw'.pc = "Condition", Current(ref[rw.key], refCur[rw.key], "refCtl")
  PROVE  EndsAgain \/ EndsWritten \/ EndsNoted \/ EndsZoned \/ EndsReady
  <1>1. ~FinishReference
    BY DEF FinishReference, IdleReferenceWorker
  <1>2. CASE ProjectInactive
    <2>1. rw.pc = "CreateProject" /\ rw.key \in Refs /\ rw.ref \in ProjectReference
      BY <1>2, ReferenceParts DEF ProjectInactive
    <2>2. rw.ref = ref[rw.key]
      BY <2>1 DEF ReferenceCopyInv, CopiesAgree
    <2>3. ~rw.ref.deleting
      BY <2>1 DEF RefStepIsDue, BeforeReady, SetUpSteps
    <2>4. rw.ref.projectID \notin CCSProjectIDs /\ rw.ref.projectID # Nil
      BY <2>1 DEF IDsAreOwn, OwnID, SetUpSoFar, SetUpSteps
    <2>5. rw.ref.projectID \in ProjectIDs \ CCSProjectIDs
      BY <2>1, <2>4 DEF ProjectReference, MaybeID
    <2>6. project[rw.ref.projectID].life = "DELETE_REQUESTED"
      BY <1>2 DEF ProjectInactive
    <2>7. ref[rw.key].deleting
      BY <2>1, <2>2, <2>5, <2>6 DEF InactiveIsGoing, Current
    <2> QED BY <2>2, <2>3, <2>7
  <1>3. CASE EnsureClaimProjectIDSet
    <2>1. CASE \E cl : rw' = [rw EXCEPT !.pc = "ClaimReady", !.claim = cl]
      BY <2>1, ReferenceParts DEF ReferenceWorker
    <2> QED BY <1>3, <2>1, RefWorkerAfter DEF EnsureClaimProjectIDSet, EndsAgain
  <1>4. CASE EnsureClaimAvailabilityZonesSet
    BY <1>4, ZonesEnd
  <1>5. CASE EnsureProjectClaimReady
    BY <1>5, ClaimReadyEnds
  <1>6. CASE HandleAvailabilityZonesError
    BY <1>6, ComputeEnds
  <1>7. CASE \/ EnsureProjectReferenceInitialized \/ EnsureProjectReferenceStatusCreating
             \/ EnsureServiceAccountName \/ EnsureFinalizerAdded \/ EnsureStateReady
             \/ ClearProjectID \/ EnsureFinalizerDeleted \/ EnsureProjectID
    BY <1>7, WritersEndWritten
  <1>8. CASE \/ DeletePolicy \/ DeleteServiceAccount \/ DeleteProject \/ DeleteConsoleAccess
             \/ DeleteCredentials \/ ListProjectsFails \/ ProjectFound \/ ProjectMissing
             \/ ConfigureBillingAPI \/ ConfigureAPIS \/ ConfigureServiceAccount \/ SetIAMPolicy
             \/ CreateKey \/ CreateSecret \/ SetConsoleAccess
    BY <1>8, CloudEnds
  <1> QED BY <1>1, <1>2, <1>3, <1>4, <1>5, <1>6, <1>7, <1>8 DEF ReferenceStep

-----------------------------------------------------------------------------
(* What the status of a reference says about the zones of its claim.       *)

\* The zones of a claim that the operator works on are not taken away.
LEMMA ZonesHeld ==
  ASSUME WakeupsAreReliable, ProvisioningIsReliable, TypeInv, ClaimCopyInv, [Next]_vars,
         NEW c \in Claims, claim[c].zones, Engaged(claim'[c])
  PROVE  claim'[c].zones
  <1>1. CASE claim'[c] = claim[c]
    BY <1>1
  <1>2. CASE ClaimStep
    <2>1. KeepsFields(c)
      BY <1>2, ClaimStepFields
    <2> QED BY <2>1, NoClaimIsFresh DEF KeepsFields, SameFields, Engaged
  <1>3. CASE ReferenceStep
    BY <1>1, <1>3, ReferenceStepFills DEF ClaimKept, Filled
  <1>4. ASSUME NEW d \in Claims, CreateClaim(d) \/ DeleteClaim(d) \/ EditClaim(d)
        PROVE  claim'[c].zones
    <2>1. UserDoes(c)
      BY <1>4, UsersDo
    <2> QED BY <2>1 DEF UserDoes, Fresh
  <1>5. CASE \/ \E d \in Claims : StartClaim(d) \/ SyncClaim(d)
             \/ \E s \in Refs : StartReference(s)
             \/ Crash \/ UNCHANGED claimObjs
    BY <1>1, <1>5 DEF StartClaim, SyncClaim, StartReference, Crash, claimObjs
  <1> QED BY <1>2, <1>3, <1>4, <1>5, ClaimStepKinds

\* A reference and the worker's copy of it have the same owner.
LEMMA OwnerIsSame ==
  ASSUME NamesAreDistinct, TypeInv, ReferenceCopyInv, rw.pc # "idle", ref[rw.key].exists
  PROVE  rw.key \in Refs /\ ref[rw.key].owner = rw.ref.owner /\ rw.ref.owner \in Claims
  <1>1. rw.key \in Refs /\ rw.ref.owner \in Claims /\ ref[rw.key].owner \in Claims
    BY DEF TypeInv, KeysOK
  <1>2. RefName(ref[rw.key].owner) = rw.key /\ RefName(rw.ref.owner) = rw.key
    BY <1>1 DEF ReferenceCopyInv, NamedAfterOwner
  <1> QED BY <1>1, <1>2 DEF NamesAreDistinct

\* The owner of a live reference is a claim that the operator works on.
LEMMA LiveHasClaim ==
  ASSUME TypeInv, HeldInv, NEW r \in Refs, Live(ref[r])
  PROVE  ref[r].owner \in Claims /\ Engaged(claim[ref[r].owner])
  BY DEF TypeInv, KeysOK, HeldInv, FinalizedReferenceHasClaim, Live, Engaged

\* The two parts of ComputeIsNoted.
StoredNoted(r) ==
  /\ ref[r].compute # "none" => ref[r].state = "Ready" /\ ref[r].inited
  /\ Live(ref[r]) /\ ref[r].compute = "True" /\ ~claim[ref[r].owner].zones => ref[r].error = "True"
CopyNoted ==
  rw.pc = "Condition" /\ Current(ref[rw.key], refCur[rw.key], "refCtl") =>
    /\ rw.ref.compute # "none" => rw.ref.state = "Ready" /\ rw.ref.inited
    /\ Live(ref[rw.key]) /\ rw.ref.compute = "True" /\ ~claim[rw.ref.owner].zones =>
         rw.out = "error"

\* The zones that a live reference has a claim for stay.
ZonesAreHeld ==
  \A r \in Refs : Live(ref'[r]) =>
    /\ ref'[r].owner \in Claims
    /\ claim[ref'[r].owner].zones => claim'[ref'[r].owner].zones

\* They do in every step.
LEMMA LiveZonesHeld ==
  ASSUME WakeupsAreReliable, ProvisioningIsReliable, TypeInv, ClaimCopyInv, [Next]_vars,
         TypeInv', HeldInv'
  PROVE  ZonesAreHeld
  <1>1. ASSUME NEW r \in Refs, Live(ref'[r])
        PROVE  ref'[r].owner \in Claims /\ Engaged(claim'[ref'[r].owner])
    BY <1>1 DEF TypeInv, KeysOK, HeldInv, FinalizedReferenceHasClaim, Live, Engaged
  <1> QED BY <1>1, ZonesHeld DEF ZonesAreHeld

\* A reference that stays as it is.
LEMMA StoredStaysNoted ==
  ASSUME ZonesAreHeld, NEW r \in Refs, StoredNoted(r), ref'[r] = ref[r]
  PROVE  (StoredNoted(r))'
  BY DEF StoredNoted, ZonesAreHeld, Live

\* A copy that stays as it is.
LEMMA CopyStaysNoted ==
  ASSUME NamesAreDistinct, TypeInv, ReferenceCopyInv, ZonesAreHeld, CopyNoted, UNCHANGED rw,
         rw.pc # "idle" =>
           \/ ref'[rw.key] = ref[rw.key] /\ refCur'[rw.key] \subseteq refCur[rw.key] \cup {"cache"}
           \/ refCur'[rw.key] = {}
  PROVE  CopyNoted'
  <1> SUFFICES ASSUME rw.pc = "Condition", Current(ref'[rw.key], refCur'[rw.key], "refCtl")
               PROVE  /\ rw.ref.compute # "none" => rw.ref.state = "Ready" /\ rw.ref.inited
                      /\ Live(ref'[rw.key]) /\ rw.ref.compute = "True" /\ ~claim'[rw.ref.owner].zones
                           => rw.out = "error"
    BY DEF CopyNoted, Live
  <1>1. ref'[rw.key] = ref[rw.key] /\ Current(ref[rw.key], refCur[rw.key], "refCtl")
    BY DEF Current
  <1>2. ref[rw.key].owner = rw.ref.owner /\ rw.key \in Refs
    BY <1>1, OwnerIsSame DEF Current
  <1>3. Live(ref[rw.key]) /\ claim[rw.ref.owner].zones => claim'[rw.ref.owner].zones
    BY <1>1, <1>2 DEF ZonesAreHeld
  <1> QED BY <1>1, <1>3 DEF CopyNoted

\* The status that FinishReference writes.
Concluded == RefStatusUpdate(ReferenceCondition(rw.ref, rw.out), ref[rw.key])

\* What FinishReference does to the reference: nothing if the copy is old or has
\* no condition.
LEMMA FinishWrites ==
  ASSUME TypeInv, FinishReference
  PROVE  /\ \A s \in Refs : s # rw.key => ref'[s] = ref[s]
         /\ \/ ref'[rw.key] = ref[rw.key]
            \/ Current(ref[rw.key], refCur[rw.key], "refCtl") /\ ref'[rw.key] = Concluded
         /\ /\ WakeupsAreReliable /\ Current(ref[rw.key], refCur[rw.key], "refCtl")
            /\ ReferenceConditionDue(rw.ref, rw.out) /\ Concluded # ref[rw.key]
            => "cache" \notin refCur'[rw.key]
  <1> DEFINE k == rw.key
  <1>1. k \in Refs /\ ref \in [Refs -> ProjectReference] /\ refCur \in [Refs -> RefHolders]
    BY ReferenceParts DEF FinishReference
  <1>2. CASE ~ReferenceConditionDue(rw.ref, rw.out)
    BY <1>2 DEF FinishReference
  <1>3. CASE ReferenceConditionDue(rw.ref, rw.out)
    <2>1. PICK t \in BOOLEAN : \E w \in Replies("refCtl", ref[k], refCur[k], Concluded, t) :
            /\ ref' = [ref EXCEPT ![k] = w.obj]
            /\ refCur' = [refCur EXCEPT ![k] = w.cur \ {"refCtl"}]
      BY <1>3 DEF FinishReference, Concluded
    <2>2. PICK w \in Replies("refCtl", ref[k], refCur[k], Concluded, t) :
            /\ ref' = [ref EXCEPT ![k] = w.obj]
            /\ refCur' = [refCur EXCEPT ![k] = w.cur \ {"refCtl"}]
      BY <2>1
    <2>3. WakeupsAreReliable /\ Current(ref[k], refCur[k], "refCtl") =>
            w.obj = Concluded /\ (Concluded # ref[k] => w.cur \subseteq {"refCtl"})
      BY <2>2, CurrentReply
    <2>4. w.obj = ref[k] \/ (w.obj = Concluded /\ Current(ref[k], refCur[k], "refCtl"))
      <3>1. \/ Accepted("refCtl", ref[k], refCur[k], Concluded, t, w)
            \/ Refused("refCtl", ref[k], refCur[k], w)
            \/ AnswerLost("refCtl", ref[k], refCur[k], Concluded, t, w)
        BY <2>2, ReplyKinds
      <3> QED BY <3>1 DEF Accepted, Refused, AnswerLost
    <2> HIDE DEF k
    <2>5. ref'[k] = w.obj /\ refCur'[k] = w.cur \ {"refCtl"}
      BY <1>1, <2>2
    <2> QED BY <1>1, <2>2, <2>3, <2>4, <2>5 DEF k
  <1> QED BY <1>2, <1>3

\* What the written status says.
LEMMA ConcludedFields ==
  ASSUME TypeInv, rw.pc # "idle"
  PROVE  /\ Concluded.compute = rw.ref.compute /\ Concluded.state = rw.ref.state
         /\ Concluded.inited = rw.ref.inited
         /\ Concluded.error = IF rw.out = "error" THEN "True" ELSE "Resolved"
         /\ SameRef(Concluded, ref[rw.key])
  <1>1. rw.ref \in ProjectReference /\ ref[rw.key] \in ProjectReference
    BY ReferenceParts
  <1> QED BY <1>1 DEF Concluded, RefStatusUpdate, ReferenceCondition, ProjectReference, SameRef

\* The condition that ends a reconcile.
LEMMA FinishNoted ==
  ASSUME NamesAreDistinct, TypeInv, ReferenceCopyInv, ZonesAreHeld, CopyNoted,
         \A r \in Refs : StoredNoted(r), FinishReference
  PROVE  CopyNoted' /\ \A r \in Refs : (StoredNoted(r))'
  <1>1. rw.pc = "Condition" /\ rw'.pc = "idle" /\ UNCHANGED claim
    BY DEF FinishReference, IdleReferenceWorker
  <1>2. CopyNoted'
    BY <1>1 DEF CopyNoted
  <1>3. ASSUME NEW r \in Refs PROVE (StoredNoted(r))'
    <2>1. CASE ref'[r] = ref[r]
      BY <2>1, StoredStaysNoted
    <2>2. CASE /\ r = rw.key /\ Current(ref[r], refCur[r], "refCtl") /\ ref'[r] = Concluded
      <3>1. /\ ref'[r].compute = rw.ref.compute /\ ref'[r].state = rw.ref.state
            /\ ref'[r].inited = rw.ref.inited
            /\ ref'[r].error = IF rw.out = "error" THEN "True" ELSE "Resolved"
            /\ SameRef(ref'[r], ref[r])
        BY <1>1, <2>2, ConcludedFields
      <3>2. ref[r].owner = rw.ref.owner
        BY <1>1, <2>2, OwnerIsSame DEF Current
      <3>3. Live(ref'[r]) <=> Live(ref[r])
        BY <3>1 DEF SameRef, Live
      <3> QED BY <1>1, <2>2, <3>1, <3>2, <3>3 DEF CopyNoted, StoredNoted, SameRef, Live
    <2> QED BY <2>1, <2>2, FinishWrites
  <1> QED BY <1>2, <1>3

\* A step of the ProjectReference controller.
LEMMA ReferenceStepNoted ==
  ASSUME NamesAreDistinct, WakeupsAreReliable, TypeInv, ClaimCopyInv, ReferenceCopyInv,
         IDsAreOwn, SetUpSoFar, InactiveIsGoing, RefStepIsDue, ComputeIsNoted,
         CopyNoted, \A r \in Refs : StoredNoted(r), ZonesAreHeld, ReferenceStep
  PROVE  CopyNoted' /\ \A r \in Refs : (StoredNoted(r))'
  <1> DEFINE k == rw.key
  <1>1. CASE FinishReference
    BY <1>1, FinishNoted
  <1>2. CASE ~FinishReference
    <2>1. /\ k \in Refs /\ rw.pc # "idle" /\ rw'.key = k /\ rw'.pc # "idle"
          /\ rw'.ref.owner = rw.ref.owner
      BY <1>2, ReferenceStepMoves, ReferenceParts DEF RefWorkerMoves
    <2>2. rw.pc # "Condition"
      BY <1>2, ConditionFinishes
    <2>3. \A r \in Refs : RefKept(r) \/ RefWritten(r)
      BY ReferenceStepRefs
    <2>4. \A r \in Refs : r # k => (StoredNoted(r))'
      BY <2>3, StoredStaysNoted DEF RefKept, RefWritten
    <2>5. CASE ~Current(ref[k], refCur[k], "refCtl") \/ rw'.pc # "Condition"
      <3>1. ref'[k] = ref[k] /\ refCur'[k] \subseteq refCur[k]
        BY <2>1, <2>3, <2>5 DEF RefKept, RefWritten
      <3>2. \A r \in Refs : (StoredNoted(r))'
        BY <2>4, <3>1, StoredStaysNoted
      <3>3. CopyNoted'
        BY <2>1, <2>5, <3>1 DEF CopyNoted, Current
      <3> QED BY <3>2, <3>3
    <2>6. CASE Current(ref[k], refCur[k], "refCtl") /\ rw'.pc = "Condition"
      <3>1. EndsAgain \/ EndsWritten \/ EndsNoted \/ EndsZoned \/ EndsReady
        BY <2>6, RefEnds
      <3>2. rw.ref = ref[k]
        BY <2>1, <2>2, <2>6 DEF ReferenceCopyInv, CopiesAgree
      <3>3. CASE UNCHANGED refObjs
        <4>1. \A r \in Refs : (StoredNoted(r))'
          BY <3>3, StoredStaysNoted DEF refObjs
        <4>2. CASE EndsAgain
          <5>1. rw'.ref = rw.ref /\ (rw'.out = "error" \/ rw.pc \in SetUpSteps)
            BY <4>2 DEF EndsAgain
          <5>2. rw.pc \in SetUpSteps => rw.ref.state # "Ready"
            BY DEF RefStepIsDue, BeforeReady
          <5> QED BY <2>1, <2>4, <3>2, <4>1, <5>1, <5>2 DEF CopyNoted, StoredNoted
        <4>3. CASE EndsZoned
          BY <2>1, <2>4, <4>1, <4>3 DEF CopyNoted, EndsZoned
        <4>4. CASE EndsReady
          BY <2>1, <2>4, <3>2, <4>1, <4>4 DEF CopyNoted, EndsReady, StoredNoted
        <4>5. CASE EndsWritten
          BY <2>1, <2>4, <4>1, <4>5 DEF CopyNoted, EndsWritten, Current
        <4>6. CASE EndsNoted
          BY <2>1, <2>4, <4>1, <4>6 DEF CopyNoted, EndsNoted
        <4> QED BY <3>1, <4>2, <4>3, <4>4, <4>5, <4>6
      <3>4. CASE EndsWritten
        BY <2>1, <2>4, <3>4 DEF CopyNoted, EndsWritten, Current, StoredNoted
      <3>5. CASE EndsNoted
        BY <2>1, <2>4, <3>5 DEF CopyNoted, EndsNoted, StoredNoted
      <3> QED BY <3>1, <3>3, <3>4, <3>5 DEF EndsAgain, EndsZoned, EndsReady
    <2> QED BY <2>5, <2>6
  <1> QED BY <1>1, <1>2

\* What deletion leaves of the status.
LEMMA DeletedStatus ==
  ASSUME NEW o \in ProjectReference
  PROVE  /\ ~Live(Deleted(o, NoRef))
         /\ \/ Deleted(o, NoRef) = NoRef
            \/ /\ Deleted(o, NoRef).compute = o.compute /\ Deleted(o, NoRef).state = o.state
               /\ Deleted(o, NoRef).inited = o.inited
  BY DEF Deleted, Collected, NoRef, Live, ProjectReference

\* References without a condition of type ComputeApiReady.
LEMMA NewIsUnnoted ==
  /\ NoRef.compute = "none"
  /\ \A c \in Claims : NewMatchingProjectReference(c).compute = "none"
  BY DEF NoRef, NewMatchingProjectReference

\* A step of the ProjectClaim controller.
LEMMA ClaimStepNoted ==
  ASSUME NamesAreDistinct, TypeInv, ReferenceCopyInv, ZonesAreHeld, CopyNoted,
         \A r \in Refs : StoredNoted(r), ClaimStep
  PROVE  CopyNoted' /\ \A r \in Refs : (StoredNoted(r))'
  <1>1. rw' = rw /\ \A r \in Refs : RefKept(r) \/ RefDeletedByClaim(r) \/ RefCreated(r)
    BY ClaimStepRefs, ClaimStepLeaves
  <1>2. ref \in [Refs -> ProjectReference] /\ cw.key \in Claims
    BY ReferenceParts, ClaimStepBusy, ClaimObjects
  <1>3. ASSUME NEW r \in Refs PROVE (StoredNoted(r))'
    <2>1. CASE RefKept(r)
      BY <2>1, StoredStaysNoted DEF RefKept
    <2>2. CASE RefDeletedByClaim(r)
      <3>1. ref'[r] = Deleted(ref[r], NoRef) /\ ref[r] \in ProjectReference
        BY <1>2, <2>2 DEF RefDeletedByClaim, RefDeleted
      <3>2. ~Live(ref'[r])
        BY <3>1, DeletedStatus
      <3>3. ref'[r].compute = "none" \/
              (ref'[r].compute = ref[r].compute /\ ref'[r].state = ref[r].state
                /\ ref'[r].inited = ref[r].inited)
        BY <3>1, DeletedStatus, NewIsUnnoted
      <3> QED BY <3>2, <3>3 DEF StoredNoted, Live
    <2>3. CASE RefCreated(r)
      BY <1>2, <2>3, NewIsUnnoted DEF RefCreated, StoredNoted
    <2> QED BY <1>1, <2>1, <2>2, <2>3
  <1>4. CopyNoted'
    <2>1. rw.pc # "idle" => rw.key \in Refs
      BY ReferenceParts
    <2>2. rw.pc # "idle" =>
            (ref'[rw.key] = ref[rw.key] /\ refCur'[rw.key] = refCur[rw.key]) \/ refCur'[rw.key] = {}
      BY <2>1, ClaimStepRefHolders
    <2> QED BY <1>1, <2>2, CopyStaysNoted
  <1> QED BY <1>3, <1>4

\* A reference with nothing to do has a claim that is Ready.
LEMMA NothingToDo ==
  ASSUME NEW o, NEW cl, FirstOperation(o, cl) = "Condition", o.state = "Ready"
  PROVE  cl.state = "Ready" /\ ~o.deleting /\ o.inited
  BY DEF FirstOperation, ClaimReadyOperation

\* A worker that starts with the stored version and has nothing to do.
LEMMA StartFinds ==
  ASSUME TypeInv, ReferenceCopyInv, NEW r \in Refs, StartReference(r), rw'.pc = "Condition",
         Current(ref'[rw'.key], refCur'[rw'.key], "refCtl")
  PROVE  /\ rw'.key = r /\ rw'.ref = ref[r] /\ ref[r].exists /\ ref[r].owner \in Claims
         /\ rw'.out = FirstOutcome(ref[r], claimCache[ref[r].owner])
         /\ FirstOperation(ref[r], claimCache[ref[r].owner]) = "Condition"
  <1>1. UNCHANGED ref /\ rw.pc = "idle"
    BY StartReferenceMoves DEF StartReference
  <1>2. /\ RefWorkerStarts(r)
        /\ \A s \in Refs :
             \/ refCur'[s] = refCur[s]
             \/ s = r /\ "cache" \in refCur[r] /\ refCur'[r] = refCur[r] \cup {"refCtl"}
    BY <1>1, StartReferenceMoves
  <1>3. rw'.key = r /\ rw'.ref = refCache[r] /\ refCache[r].exists
    BY <1>2 DEF RefWorkerStarts
  <1>4. "cache" \in refCur[r]
    BY <1>1, <1>2, <1>3 DEF Current, ReferenceCopyInv, CopiesAgree
  <1>5. refCache[r] = ref[r]
    BY <1>4 DEF ReferenceCopyInv, CopiesAgree
  <1>6. ref[r].owner \in Claims
    BY <1>3, <1>5 DEF TypeInv, KeysOK
  <1>7. /\ rw'.out = FirstOutcome(refCache[r], claimCache[refCache[r].owner])
        /\ rw'.pc = FirstOperation(refCache[r], claimCache[refCache[r].owner])
    BY <1>1 DEF StartReference
  <1> QED BY <1>3, <1>5, <1>6, <1>7

\* The start of a reconcile.
LEMMA StartNoted ==
  ASSUME TypeInv, ReferenceCopyInv, HeldInv, ZonesAreHeld, \A c \in Claims : ReadyIsSeen(c),
         \A r \in Refs : StoredNoted(r), NEW s \in Refs, StartReference(s)
  PROVE  CopyNoted' /\ \A r \in Refs : (StoredNoted(r))'
  <1>1. UNCHANGED <<ref, claim>>
    BY StartReferenceMoves
  <1>2. \A r \in Refs : (StoredNoted(r))'
    BY <1>1, StoredStaysNoted
  <1>3. CopyNoted'
    <2> SUFFICES ASSUME rw'.pc = "Condition", Current(ref'[rw'.key], refCur'[rw'.key], "refCtl")
                 PROVE  /\ rw'.ref.compute # "none" => rw'.ref.state = "Ready" /\ rw'.ref.inited
                        /\ Live(ref'[rw'.key]) /\ rw'.ref.compute = "True" =>
                             claim'[rw'.ref.owner].zones
      BY DEF CopyNoted, Live
    <2> DEFINE o == ref[s]
               cl == claimCache[o.owner]
    <2>1. rw'.key = s /\ rw'.ref = o /\ o.owner \in Claims /\ FirstOperation(o, cl) = "Condition"
      BY StartFinds
    <2>2. o.compute # "none" => o.state = "Ready" /\ o.inited
      BY DEF StoredNoted
    <2>3. ASSUME Live(o), o.compute = "True" PROVE claim[o.owner].zones
      <3> HIDE DEF o, cl
      <3>1. cl.state = "Ready"
        BY <2>1, <2>2, <2>3, NothingToDo
      <3>2. Engaged(claim[o.owner])
        BY <2>3, LiveHasClaim DEF o
      <3> QED BY <2>1, <3>1, <3>2 DEF ReadyIsSeen, cl
    <2> QED BY <1>1, <2>1, <2>2, <2>3
  <1> QED BY <1>2, <1>3

\* The status keeps saying what is true of the zones.
LEMMA ComputeStep ==
  ASSUME NamesAreDistinct, WakeupsAreReliable, ProvisioningIsReliable, TypeInv, ClaimCopyInv,
         ReferenceCopyInv, HeldInv, IDsAreOwn, SetUpSoFar, InactiveIsGoing, RefStepIsDue,
         \A c \in Claims : ReadyIsSeen(c), ComputeIsNoted, [Next]_vars, TypeInv', HeldInv'
  PROVE  ComputeIsNoted'
  <1> SUFFICES CopyNoted' /\ \A r \in Refs : (StoredNoted(r))'
    BY DEF ComputeIsNoted, CopyNoted, StoredNoted
  <1>1. CopyNoted /\ \A r \in Refs : StoredNoted(r)
    BY DEF ComputeIsNoted, CopyNoted, StoredNoted
  <1>2. ZonesAreHeld
    BY LiveZonesHeld
  <1>3. CASE ReferenceStep
    BY <1>1, <1>2, <1>3, ReferenceStepNoted
  <1>4. CASE ClaimStep
    BY <1>1, <1>2, <1>4, ClaimStepNoted
  <1>5. CASE \E r \in Refs : StartReference(r)
    BY <1>1, <1>2, <1>5, StartNoted
  <1>6. CASE Crash
    BY <1>1, <1>2, <1>6, StoredStaysNoted DEF Crash, IdleReferenceWorker, CopyNoted
  <1>7. CASE (\E r \in Refs : SyncRef(r)) \/ UNCHANGED References
    <2>1. /\ UNCHANGED <<ref, rw>>
          /\ \A r \in Refs : refCur'[r] \subseteq refCur[r] \cup {"cache"}
      BY <1>7, ReferenceParts DEF SyncRef, References, refObjs, workers, RefHolders
    <2>2. \A r \in Refs : (StoredNoted(r))'
      BY <1>1, <1>2, <2>1, StoredStaysNoted
    <2>3. rw.pc # "idle" => rw.key \in Refs
      BY ReferenceParts
    <2>4. CopyNoted'
      BY <1>1, <1>2, <2>1, <2>3, CopyStaysNoted
    <2> QED BY <2>2, <2>4
  <1> QED BY <1>3, <1>4, <1>5, <1>6, <1>7, StepKinds

-----------------------------------------------------------------------------
(* How a chain of operations of a claim ends.                              *)

\* A write of the stored version of a claim is applied; one without conditions
\* is refused.
LEMMA CurrentClaimWrite ==
  ASSUME WakeupsAreReliable, TypeInv, cw.pc # "idle",
         Current(claim[cw.key], claimCur[cw.key], "claimCtl"), NEW o, NEW t \in BOOLEAN, NEW ok
  PROVE  /\ UpdateClaim("claimCtl", cw.key, o, ok) =>
              claim'[cw.key] = ClaimUpdate(o, claim[cw.key])
         /\ UpdateClaimStatus("claimCtl", cw.key, o, t, ok) =>
              IF o.inited THEN claim'[cw.key] = ClaimStatusUpdate(o, claim[cw.key]) ELSE ~ok
  <1> DEFINE k == cw.key
  <1>1. k \in Claims /\ claim \in [Claims -> ProjectClaim]
    BY ClaimObjects
  <1>2. ASSUME NEW new, NEW u \in BOOLEAN,
               \E w \in Replies("claimCtl", claim[k], claimCur[k], new, u) :
                 claim' = [claim EXCEPT ![k] = w.obj]
        PROVE  claim'[k] = new
    <2>1. PICK w \in Replies("claimCtl", claim[k], claimCur[k], new, u) :
            claim' = [claim EXCEPT ![k] = w.obj]
      BY <1>2
    <2>2. w.obj = new
      BY <2>1, CurrentReply
    <2> QED BY <1>1, <2>1, <2>2
  <1>3. UpdateClaim("claimCtl", k, o, ok) => claim'[k] = ClaimUpdate(o, claim[k])
    BY <1>2 DEF UpdateClaim
  <1>4. UpdateClaimStatus("claimCtl", k, o, t, ok) =>
          IF o.inited THEN claim'[k] = ClaimStatusUpdate(o, claim[k]) ELSE ~ok
    BY <1>2 DEF UpdateClaimStatus
  <1> QED BY <1>3, <1>4

\* The states of a claim with nothing left to do but wait.
LEMMA StatesLeft ==
  ASSUME NEW o \in ProjectClaim, ~NeedsPending(o), ~NeedsPendingProject(o)
  PROVE  o.state \in {"PendingProject", "Ready", "Error"}
  <1>1. o.state \in ClaimStatus
    BY DEF ProjectClaim
  <1> QED BY <1>1, Zenon DEF ClaimStatus, NeedsPending, NeedsPendingProject

\* What the status of a claim becomes.
LEMMA StoredStatus ==
  ASSUME NEW o, NEW old \in ProjectClaim
  PROVE  LET new == ClaimStatusUpdate(o, old)
         IN  new.inited = o.inited /\ new.invalid = o.invalid /\ new.state = o.state
  BY DEF ClaimStatusUpdate, ProjectClaim

\* A write of the status that changes it, or fails.
LEMMA StatusSaved ==
  ASSUME WakeupsAreReliable, TypeInv, cw.pc # "idle",
         Current(claim[cw.key], claimCur[cw.key], "claimCtl"), claim'[cw.key] = claim[cw.key],
         NEW o, NEW t \in BOOLEAN, SaveClaimStatus(o, t),
         \/ o.inited # claim[cw.key].inited \/ o.invalid # claim[cw.key].invalid
         \/ o.state # claim[cw.key].state
  PROVE  Requeued(cw'.out)
  <1>1. PICK ok \in BOOLEAN : /\ UpdateClaimStatus("claimCtl", cw.key, o, t, ok)
                              /\ ClaimFinish(ErrorOrStop(ok), o)
    BY DEF SaveClaimStatus
  <1>2. claim[cw.key] \in ProjectClaim
    BY ClaimObjects
  <1>3. claim[cw.key] # ClaimStatusUpdate(o, claim[cw.key])
    BY <1>2, StoredStatus
  <1>4. ~ok
    BY <1>1, <1>3, CurrentClaimWrite
  <1> QED BY <1>1, <1>4, ClaimWorkerAfter DEF ErrorOrStop, Requeued

\* The last operations of a chain leave nothing to do, or are tried again.
LEMMA ChainDone ==
  ASSUME TypeInv, ClaimCopyInv, ClaimStepIsDue, NothingRejected,
         cw.pc \in {"ReferenceExists", "CCSSecretFinalizer"}, cw'.pc = "Condition",
         Current(claim[cw.key], claimCur[cw.key], "claimCtl"),
         \/ ClaimGoto(AfterReferenceExists(cw.key, cw.obj), cw.obj)
         \/ ClaimGoto(AfterSecretFinalizer(cw.obj), cw.obj)
         \/ ClaimFinish("error", cw.obj)
  PROVE  Requeued(cw'.out) \/ ClaimSettled(cw.key)
  <1> DEFINE o == cw.obj
  <1>1. CASE ClaimFinish("error", o)
    BY <1>1, ClaimWorkerAfter DEF Requeued
  <1>2. CASE ClaimGoto(AfterReferenceExists(cw.key, o), o) \/ ClaimGoto(AfterSecretFinalizer(o), o)
    <2>1. o \in ProjectClaim /\ o = claim[cw.key] /\ o.state # "Error"
      BY CurrentIsAccepted, ClaimObjects
    <2>2. ~NeedsPending(o)
      BY DEF ClaimStepIsDue
    <2>3. ~o.deleting
      BY DEF ClaimCopyInv, ClaimStepMatchesCopy, ClaimSteps, DeletingClaimSteps
    <2> HIDE DEF o
    <2>4. AfterReferenceExists(cw.key, o) = "Condition" \/ AfterSecretFinalizer(o) = "Condition"
      BY <1>2, ClaimWorkerAfter
    <2>5. AfterSecretFinalizer(o) = "Condition"
      BY <2>4, ClaimOrder
    <2>6. ~NeedsPendingProject(o)
      BY <2>5, ClaimOrder
    <2>7. o.state \in {"PendingProject", "Ready"}
      BY <2>1, <2>2, <2>6, StatesLeft
    <2> QED BY <2>1, <2>3, <2>7 DEF ClaimSettled
  <1> QED BY <1>1, <1>2

\* A chain of operations on the stored version of a claim that leaves it as it
\* is comes back, or there is nothing to do but wait.
LEMMA ClaimEnds ==
  ASSUME WakeupsAreReliable, TypeInv, ClaimCopyInv, ClaimStepIsDue, NothingRejected,
         ClaimStep, cw'.pc = "Condition", Current(claim[cw.key], claimCur[cw.key], "claimCtl"),
         claim'[cw.key] = claim[cw.key]
  PROVE  Requeued(cw'.out) \/ ClaimSettled(cw.key)
  <1> DEFINE o == cw.obj
             k == cw.key
  <1>1. cw.pc \notin {"idle", "Condition"}
    BY ClaimStepMoves DEF ClaimWorkerMoves, ClaimWorkerRests
  <1>2. /\ k \in Claims /\ o \in ProjectClaim /\ o = claim[k] /\ claim[k] \in ProjectClaim
        /\ o.valid /\ o.state # "Error" /\ IsRegionSupported(k) /\ o.exists
    BY <1>1, CurrentIsAccepted, ClaimObjects DEF Current
  <1>3. ~FinishClaim
    BY <1>1 DEF FinishClaim
  <1>4. ASSUME NEW out \in {"error", "after"}, ClaimFinish(out, o) PROVE Requeued(cw'.out)
    BY <1>4, ClaimWorkerAfter DEF Requeued
  <1>5. ASSUME NEW pc, ClaimGoto(pc, o) PROVE pc = "Condition"
    BY <1>5, ClaimWorkerAfter
  <1>6. CASE FinalizeReference \/ FinalizeWithoutReference \/ EnsureCCSSecretFinalizerDeleted
    BY <1>4, <1>5, <1>6 DEF FinalizeReference, FinalizeWithoutReference,
         EnsureCCSSecretFinalizerDeleted
  <1>7. CASE EnsureProjectClaimFinalizerDeleted
    <2> DEFINE e == [o EXCEPT !.finalizer = FALSE]
    <2>1. o.deleting /\ o.finalizer
      BY <1>2, <1>7 DEF EnsureProjectClaimFinalizerDeleted, ClaimCopyInv, ClaimStepMatchesCopy,
           DeletingClaimSteps, ClaimCopiesAgree
    <2>2. e \in ProjectClaim /\ e.deleting /\ ~e.finalizer
      BY <1>2, <2>1 DEF ProjectClaim
    <2>3. PICK ok \in BOOLEAN : UpdateClaim("claimCtl", k, e, ok)
      BY <1>7, <2>1 DEF EnsureProjectClaimFinalizerDeleted
    <2> HIDE DEF e
    <2>4. claim'[k] = NoClaim
      BY <1>1, <1>2, <2>2, <2>3, CurrentClaimWrite, ClaimUpdateFields
    <2> QED BY <1>2, <2>4, NoClaimIsFresh
  <1>8. ~EnsureProjectClaimValidated
    BY <1>2 DEF EnsureProjectClaimValidated, ClaimStepIsDue
  <1>9. CASE EnsureProjectClaimInitialized
    <2>1. [o EXCEPT !.inited = TRUE].inited = TRUE
      BY <1>2 DEF ProjectClaim
    <2>2. ~o.inited
      BY <1>9 DEF EnsureProjectClaimInitialized, ClaimStepIsDue
    <2> QED BY <1>1, <1>2, <1>9, <2>1, <2>2, StatusSaved DEF EnsureProjectClaimInitialized
  <1>10. CASE EnsureProjectClaimStatePending
    <2>1. [o EXCEPT !.state = "Pending"].state = "Pending"
      BY <1>2 DEF ProjectClaim
    <2>2. o.state # "Pending"
      BY <1>10, Zenon DEF EnsureProjectClaimStatePending, ClaimCopyInv, ClaimStepMatchesCopy
    <2> QED BY <1>1, <1>2, <1>10, <2>1, <2>2, StatusSaved DEF EnsureProjectClaimStatePending
  <1>11. CASE EnsureProjectClaimStatePendingProject
    <2>1. [o EXCEPT !.state = "PendingProject"].state = "PendingProject"
      BY <1>2 DEF ProjectClaim
    <2>2. o.state # "PendingProject"
      BY <1>11, Zenon DEF EnsureProjectClaimStatePendingProject, ClaimCopyInv, ClaimStepMatchesCopy
    <2> QED BY <1>1, <1>2, <1>11, <2>1, <2>2, StatusSaved DEF EnsureProjectClaimStatePendingProject
  <1>12. CASE EnsureRegionSupported
    <2> DEFINE recovered == [o EXCEPT !.state = IF @ = "Error" THEN "Pending" ELSE @]
               pc == IF NeedsPending(recovered) THEN "StatePending" ELSE "ReferenceExists"
    <2>1. [recovered EXCEPT !.invalid = "Resolved"].invalid = "Resolved"
      BY <1>2 DEF ProjectClaim
    <2>2. \/ o.invalid = "True" /\ SaveClaimStatus([recovered EXCEPT !.invalid = "Resolved"], FALSE)
          \/ ClaimGoto(pc, recovered)
      BY <1>2, <1>12 DEF EnsureRegionSupported
    <2>3. pc # "Condition"
      OBVIOUS
    <2> HIDE DEF recovered, pc
    <2>4. ~ClaimGoto(pc, recovered)
      BY <2>3, ClaimWorkerAfter
    <2> QED BY <1>1, <1>2, <2>1, <2>2, <2>4, StatusSaved
  <1>13. CASE EnsureProjectReferenceExists
    <2>1. \/ ClaimGoto(AfterReferenceExists(k, o), o) \/ ClaimFinish("error", o)
      BY <1>13 DEF EnsureProjectReferenceExists
    <2>2. cw.pc = "ReferenceExists"
      BY <1>13 DEF EnsureProjectReferenceExists
    <2> QED BY <2>1, <2>2, ChainDone
  <1>14. CASE EnsureCCSSecretFinalizer
    <2>1. \/ ClaimGoto(AfterSecretFinalizer(o), o) \/ ClaimFinish("error", o)
      BY <1>14 DEF EnsureCCSSecretFinalizer
    <2>2. cw.pc = "CCSSecretFinalizer"
      BY <1>14 DEF EnsureCCSSecretFinalizer
    <2> QED BY <2>1, <2>2, ChainDone
  <1>15. CASE EnsureProjectReferenceLink \/ EnsureFinalizer
    <2>1. ~o.deleting
      BY <1>15 DEF EnsureProjectReferenceLink, EnsureFinalizer, ClaimCopyInv, ClaimStepMatchesCopy,
           ClaimSteps, DeletingClaimSteps
    <2>2. ASSUME NEW e \in ProjectClaim, ~e.deleting, SaveClaim(e),
                 e.link # o.link \/ e.finalizer # o.finalizer
          PROVE  FALSE
      <3>1. claim'[k] = ClaimUpdate(e, claim[k])
        BY <1>1, <2>2, CurrentClaimWrite DEF SaveClaim
      <3>2. SameClaim(claim'[k], e)
        BY <1>2, <2>2, <3>1, ClaimUpdateFields
      <3> QED BY <1>2, <2>2, <3>2 DEF SameClaim
    <2>3. CASE EnsureProjectReferenceLink
      <3> DEFINE e == [o EXCEPT !.link = TRUE]
      <3>1. e \in ProjectClaim /\ e.link = TRUE /\ e.deleting = o.deleting
        BY <1>2 DEF ProjectClaim
      <3>2. ~o.link /\ SaveClaim(e)
        BY <2>3 DEF EnsureProjectReferenceLink, ClaimStepIsDue
      <3> HIDE DEF e
      <3> QED BY <2>1, <2>2, <3>1, <3>2
    <2>4. CASE EnsureFinalizer
      <3> DEFINE e == [o EXCEPT !.finalizer = TRUE]
      <3>1. e \in ProjectClaim /\ e.finalizer = TRUE /\ e.deleting = o.deleting
        BY <1>2 DEF ProjectClaim
      <3>2. ~o.finalizer /\ SaveClaim(e)
        BY <2>4 DEF EnsureFinalizer, ClaimStepIsDue
      <3> HIDE DEF e
      <3> QED BY <2>1, <2>2, <3>1, <3>2
    <2> QED BY <1>15, <2>3, <2>4
  <1> QED BY <1>3, <1>6, <1>7, <1>8, <1>9, <1>10, <1>11, <1>12, <1>13, <1>14, <1>15 DEF ClaimStep

-----------------------------------------------------------------------------
(* Nothing that is left to be done is forgotten.                           *)

\* A restart puts every claim and every reference into its queue.
LEMMA CrashStirs ==
  ASSUME Crash
  PROVE  /\ \A c \in Claims : claim[c].exists => c \in claimQ'
         /\ \A r \in Refs : ref[r].exists => r \in refQ'
         /\ UNCHANGED <<claim, ref>>
  BY DEF Crash

\* A claim that is taken off the queue by a worker which has the stored version
\* is worked on.
LEMMA StartedClaimIsAwake ==
  ASSUME TypeInv, ClaimCopyInv, NEW c \in Claims, StartClaim(c), "cache" \in claimCur[c],
         claim'[c].exists
  PROVE  (BusyWith(c) /\ cw.pc # "Condition")'
  <1>1. claim' = claim /\ claimCache[c] = claim[c]
    BY DEF StartClaim, ClaimCopyInv, ClaimCopiesAgree
  <1>2. cw' = [pc |-> FirstClaimOperation(claimCache[c]), key |-> c,
               obj |-> claimCache[c], out |-> "stop"]
    BY <1>1 DEF StartClaim
  <1>3. FirstClaimOperation(claimCache[c]) \notin {"idle", "Condition"}
    BY DEF FirstClaimOperation
  <1> QED BY <1>2, <1>3 DEF BusyWith

\* No claim is forgotten.
LEMMA ClaimAwakeStep ==
  ASSUME WakeupsAreReliable, TypeInv, ClaimCopyInv, ClaimStepIsDue, NothingRejected,
         StaleIsStirred, [Next]_vars, NEW c \in Claims, ClaimAwake(c)
  PROVE  (ClaimAwake(c))'
  <1> SUFFICES ASSUME claim'[c].exists, ~(ClaimStirred(c))'
               PROVE  \/ (BusyWith(c) /\ (cw.pc # "Condition" \/ Requeued(cw.out)))'
                      \/ (ClaimSettled(c))'
    BY DEF ClaimAwake
  <1>1. ~Crash
    BY CrashStirs DEF ClaimStirred
  <1>2. CASE ClaimStirred(c)
    BY <1>1, <1>2, ClaimStaysStirred, StartedClaimIsAwake DEF BusyWith
  <1>3. CASE ~ClaimStirred(c)
    <2>1. claim'[c] = claim[c]
      BY <1>1, StepMovesClaim DEF ClaimMoves, ClaimStirred
    <2>2. CASE ClaimSettled(c)
      BY <2>1, <2>2 DEF ClaimSettled
    <2>3. CASE BusyWith(c) /\ (cw.pc # "Condition" \/ Requeued(cw.out))
      <3>1. cw.key = c /\ cw.pc # "idle"
        BY <2>3 DEF BusyWith
      <3>2. CASE cw' = cw
        BY <2>3, <3>2 DEF BusyWith
      <3>3. ~FinishClaim
        BY <2>3, <3>1 DEF FinishClaim, ClaimStirred
      <3>4. CASE ClaimStep /\ cw'.pc = "Condition"
        <4>1. Current(claim[cw.key], claimCur[cw.key], "claimCtl")
          BY <1>3, <2>1, <3>1 DEF StaleIsStirred, Current
        <4>2. Requeued(cw'.out) \/ ClaimSettled(c)
          BY <2>1, <3>1, <3>4, <4>1, ClaimEnds
        <4>3. cw'.key = cw.key
          BY <3>3, <3>4, ClaimStepMoves DEF ClaimWorkerMoves, ClaimWorkerRests, FinishClaim
        <4> QED BY <2>1, <3>1, <3>4, <4>2, <4>3 DEF BusyWith, ClaimSettled
      <3>5. CASE ClaimStep /\ cw'.pc # "Condition"
        <4>1. cw'.key = cw.key /\ cw'.pc # "idle"
          BY <3>3, <3>5, OtherOperationsMove, ClaimFinalizerDeletedMoves, StatusWritersMove,
             RegionSupportedMoves, SaveSpecMoves DEF ClaimStep, ClaimWorkerMoves
        <4> QED BY <3>1, <3>5, <4>1 DEF BusyWith
      <3>6. ~(\E d \in Claims : StartClaim(d))
        BY <3>1 DEF StartClaim
      <3> QED BY <1>1, <3>2, <3>4, <3>5, <3>6, StepClaimQueue
    <2> QED BY <1>3, <2>1, <2>2, <2>3 DEF ClaimAwake
  <1> QED BY <1>2, <1>3

\* A reference that is Ready and is not being deleted holds its finalizer: its
\* Secret is there.
LEMMA ReadyIsLive ==
  ASSUME TypeInv, ReferenceCopyInv, \A c \in Claims : CleanupPending(c),
         \A c \in Claims : ReadyReferenceHasSecret(c),
         NEW r \in Refs, ref[r].exists, ~ref[r].deleting, ref[r].state = "Ready"
  PROVE  Live(ref[r])
  <1> DEFINE c == ref[r].owner
  <1>1. c \in Claims /\ RefName(c) = r
    BY DEF TypeInv, KeysOK, ReferenceCopyInv, NamedAfterOwner
  <1>2. secret[c] # Nil
    BY <1>1 DEF ReadyReferenceHasSecret
  <1>3. Kept(r)
    BY <1>1, <1>2 DEF CleanupPending
  <1> QED BY <1>3 DEF Kept, Live

\* A reference that is settled remains so unless it is changed.
LEMMA StaysSettled ==
  ASSUME TypeInv, ClaimCopyInv, [Next]_vars, NothingRejected', TypeInv', HeldInv',
         NEW r \in Refs, RefSettled(r), ref'[r] = ref[r]
  PROVE  (RefSettled(r))'
  <1>1. Live(ref'[r]) /\ claim[ref'[r].owner].state = "Ready"
    BY DEF RefSettled
  <1>2. ref'[r].owner \in Claims /\ Engaged(claim'[ref'[r].owner])
    BY <1>1 DEF TypeInv, KeysOK, HeldInv, FinalizedReferenceHasClaim, Live, Engaged
  <1>3. claim'[ref'[r].owner].state = "Ready"
    BY <1>1, <1>2, ReadyStays DEF Engaged
  <1> QED BY <1>1, <1>3 DEF RefSettled, Live

\* A reference that is taken off the queue by a worker which has the stored
\* version is worked on, comes back, or has nothing to wait for.
LEMMA StartedRefIsAwake ==
  ASSUME TypeInv, ReferenceCopyInv, HeldInv, \A c \in Claims : CleanupPending(c),
         \A c \in Claims : ReadyReferenceHasSecret(c), \A c \in Claims : ReadyIsSeen(c),
         NEW r \in Refs, StartReference(r), "cache" \in refCur[r], ref'[r].exists,
         ~(RefStirred(r))'
  PROVE  \/ (rw.pc # "idle" /\ rw.key = r /\ (rw.pc # "Condition" \/ Requeued(rw.out)))'
         \/ (RefSettled(r))'
  <1> DEFINE o == ref[r]
             cl == claimCache[o.owner]
  <1>1. ref' = ref /\ claim' = claim /\ refCache[r] = ref[r] /\ o.exists
    BY StartReferenceMoves DEF ReferenceCopyInv, CopiesAgree
  <1>2. r \notin refQ'
    BY DEF RefStirred
  <1>3. /\ rw' = [pc |-> FirstOperation(o, cl), key |-> r, ref |-> o,
                  claim |-> cl, out |-> FirstOutcome(o, cl)]
    BY <1>1, <1>2 DEF StartReference
  <1> HIDE DEF cl
  <1>4. rw'.pc = FirstOperation(o, cl) /\ rw'.key = r /\ rw'.out = FirstOutcome(o, cl)
    BY <1>3
  <1>5. rw'.pc # "idle"
    BY <1>4, Zenon DEF FirstOperation, ClaimReadyOperation, SetUpOperation, AfterFinalizerAdded
  <1>6. CASE rw'.pc = "Condition" /\ o.state = "Ready"
    <2>1. cl.state = "Ready" /\ ~o.deleting
      BY <1>4, <1>6, NothingToDo
    <2>2. Live(o)
      BY <1>1, <1>6, <2>1, ReadyIsLive
    <2>3. o.owner \in Claims /\ Engaged(claim[o.owner])
      BY <2>2, LiveHasClaim
    <2>4. claim[o.owner].state = "Ready"
      BY <2>1, <2>3 DEF ReadyIsSeen, cl
    <2> QED BY <1>1, <2>2, <2>4 DEF RefSettled
  <1>7. CASE rw'.pc = "Condition" /\ o.state # "Ready"
    <2>1. rw'.out = "after"
      BY <1>4, <1>7 DEF FirstOutcome
    <2> QED BY <1>4, <1>5, <2>1 DEF Requeued
  <1> QED BY <1>4, <1>5, <1>6, <1>7

\* A worker that has ended a chain on the stored version, and what it leaves.
LEMMA EndedRefIsAwake ==
  ASSUME NamesAreDistinct, WakeupsAreReliable, TypeInv, ClaimCopyInv, ReferenceCopyInv,
         IDsAreOwn, SetUpSoFar, \A c \in Claims : CleanupPending(c),
         \A c \in Claims : ReadyReferenceHasSecret(c),
         InactiveIsGoing, RefStepIsDue, ComputeIsNoted,
         ReferenceStep, rw'.pc = "Condition", Current(ref[rw.key], refCur[rw.key], "refCtl"),
         NEW r \in Refs, r = rw.key, ~(RefStirred(r))'
  PROVE  Requeued(rw'.out) \/ ConditionStirs' \/ (RefSettled(r))'
  <1>0. ~FinishReference
    BY DEF FinishReference, IdleReferenceWorker
  <1>1. rw.pc # "idle" /\ rw'.key = r /\ rw.pc # "Condition"
    BY <1>0, ReferenceStepMoves, ConditionFinishes DEF RefWorkerMoves
  <1>2. rw.ref = ref[r] /\ ref[r].exists
    BY <1>1 DEF ReferenceCopyInv, CopiesAgree, Current
  <1>3. EndsAgain \/ EndsWritten \/ EndsNoted \/ EndsZoned \/ EndsReady
    BY RefEnds
  <1>4. CASE EndsAgain \/ EndsNoted
    BY <1>4 DEF EndsAgain, EndsNoted, Requeued
  <1>5. ~EndsWritten
    BY DEF EndsWritten, RefStirred
  <1>6. rw.pc \in ClaimReadySteps => Live(ref[r])
    BY <1>2, ReadyIsLive DEF RefStepIsDue
  <1>7. CASE EndsZoned
    <2>1. rw'.out = "error" => Requeued(rw'.out)
      BY DEF Requeued
    <2>2. ASSUME rw'.out # "error", ref[r].compute = "True" PROVE ref[r].error = "True"
      BY <1>2, <1>6, <1>7, <2>2 DEF EndsZoned, ComputeIsNoted, ClaimReadySteps
    <2> QED BY <1>1, <1>7, <2>1, <2>2 DEF EndsZoned, ConditionStirs, refObjs
  <1>8. CASE EndsReady
    BY <1>2, <1>6, <1>8 DEF EndsReady, Requeued, RefSettled, ClaimReadySteps, refObjs, Live
  <1> QED BY <1>3, <1>4, <1>5, <1>7, <1>8

\* The condition that a worker leaves stirs the reference again, or the result
\* of the reconcile does.
LEMMA FinishedRefIsStirred ==
  ASSUME WakeupsAreReliable, TypeInv, FinishReference, Requeued(rw.out) \/ ConditionStirs,
         Current(ref[rw.key], refCur[rw.key], "refCtl"), NEW r \in Refs, r = rw.key
  PROVE  (RefStirred(r))'
  <1>1. CASE Requeued(rw.out)
    BY <1>1 DEF FinishReference, RefStirred
  <1>2. CASE ConditionStirs
    <2>1. rw.pc # "idle"
      BY DEF FinishReference
    <2>2. Concluded.compute = "True" /\ Concluded.error = "Resolved"
      BY <1>2, <2>1, ConcludedFields DEF ConditionStirs
    <2>3. Concluded # ref[rw.key] /\ ReferenceConditionDue(rw.ref, rw.out)
      BY <1>2, <2>2 DEF ConditionStirs, ReferenceConditionDue
    <2> QED BY <2>3, FinishWrites DEF RefStirred
  <1> QED BY <1>1, <1>2

\* No reference is forgotten.
LEMMA RefAwakeStep ==
  ASSUME NamesAreDistinct, WakeupsAreReliable, TypeInv, ClaimCopyInv, ReferenceCopyInv, HeldInv,
         IDsAreOwn, SetUpSoFar, \A c \in Claims : CleanupPending(c),
         \A c \in Claims : ReadyReferenceHasSecret(c), \A c \in Claims : ReadyIsSeen(c),
         StaleIsStirred, InactiveIsGoing, RefStepIsDue, ComputeIsNoted,
         [Next]_vars, TypeInv', HeldInv', NothingRejected', NEW r \in Refs, RefAwake(r)
  PROVE  (RefAwake(r))'
  <1> DEFINE Handled == \/ /\ rw.pc # "idle" /\ rw.key = r
                           /\ rw.pc # "Condition" \/ Requeued(rw.out) \/ ConditionStirs
                        \/ RefSettled(r)
  <1> SUFFICES ASSUME ref'[r].exists, ~(RefStirred(r))'
               PROVE  Handled'
    BY DEF RefAwake
  <1>1. ~Crash
    BY CrashStirs DEF RefStirred
  <1>2. CASE RefStirred(r)
    BY <1>1, <1>2, RefStaysStirred, StartedRefIsAwake
  <1>3. CASE ~RefStirred(r)
    <2>1. ref'[r] = ref[r]
      BY <1>1, StepMovesRef DEF RefMoves, RefStirred
    <2>2. CASE RefSettled(r)
      BY <2>1, <2>2, StaysSettled
    <2>3. CASE /\ rw.pc # "idle" /\ rw.key = r
               /\ rw.pc # "Condition" \/ Requeued(rw.out) \/ ConditionStirs
      <3>1. Current(ref[rw.key], refCur[rw.key], "refCtl")
        BY <1>3, <2>1, <2>3 DEF StaleIsStirred, Current
      <3>2. CASE rw' = rw
        BY <2>1, <2>3, <3>2 DEF ConditionStirs
      <3>3. ~FinishReference
        BY <2>3, <3>1, FinishedRefIsStirred DEF FinishReference
      <3>4. CASE ReferenceStep
        <4>1. rw'.key = r /\ rw'.pc # "idle"
          BY <2>3, <3>3, <3>4, ReferenceStepMoves DEF RefWorkerMoves
        <4>2. CASE rw'.pc # "Condition"
          BY <4>1, <4>2
        <4>3. CASE rw'.pc = "Condition"
          BY <2>3, <3>1, <3>4, <4>1, <4>3, EndedRefIsAwake
        <4> QED BY <4>2, <4>3
      <3>5. ~(\E s \in Refs : StartReference(s))
        BY <2>3 DEF StartReference
      <3> QED BY <1>1, <3>2, <3>4, <3>5, StepRefQueue
    <2> QED BY <1>3, <2>1, <2>2, <2>3 DEF RefAwake
  <1> QED BY <1>2, <1>3

-----------------------------------------------------------------------------
(* The invariant.                                                          *)

\* At first there is nothing to do.
LEMMA InitWake == Init => WakeInv
  <1> SUFFICES ASSUME Init PROVE WakeInv OBVIOUS
  <1>1. rw.pc = "idle" /\ cw.pc = "idle" /\ disabled = {}
    BY DEF Init, IdleReferenceWorker, IdleClaimWorker
  <1>2. \A r \in Refs : ref[r] = NoRef
    BY DEF Init
  <1>3. \A c \in Claims : claim[c] = NoClaim /\ claimCache[c] = NoClaim
    BY DEF Init
  <1>4. ~NoRef.exists /\ NoRef.compute = "none"
    BY DEF NoRef
  <1>5. ~NoClaim.exists /\ NoClaim.valid /\ NoClaim.state \notin {"Error", "Ready"}
    BY DEF NoClaim
  <1>6. \A id \in ProjectIDs : project[id].life # "DELETE_REQUESTED"
    BY DEF Init, NoProject
  <1>7. StaleIsStirred /\ NothingRejected
    BY <1>1, <1>3, <1>5 DEF StaleIsStirred, NothingRejected
  <1>8. ClaimStepIsDue /\ RefStepIsDue
    BY <1>1 DEF ClaimStepIsDue, RefStepIsDue, BeforeReady, SetUpSteps, ClaimReadySteps
  <1>9. InactiveIsGoing
    BY <1>1, <1>6 DEF InactiveIsGoing, DeletionSteps
  <1>10. \A c \in Claims : ReadyIsSeen(c) /\ ClaimAwake(c)
    BY <1>3, <1>5 DEF ReadyIsSeen, ClaimAwake
  <1>11. ComputeIsNoted /\ \A r \in Refs : RefAwake(r)
    BY <1>1, <1>2, <1>4 DEF ComputeIsNoted, RefAwake, Live
  <1> QED BY <1>7, <1>8, <1>9, <1>10, <1>11 DEF WakeInv

\* Every step of the operator and of those around it keeps the invariant.
LEMMA WakeInductive ==
  ASSUME NamesAreDistinct, ProvisioningIsReliable, WakeupsAreReliable
  PROVE  /\ TypeInv /\ ClaimCopyInv /\ ReferenceCopyInv /\ HeldInv /\ CleanupInv /\ ProvisionInv
         /\ WakeInv /\ [Next]_vars /\ TypeInv' /\ HeldInv'
         => WakeInv'
  <1> SUFFICES ASSUME TypeInv, ClaimCopyInv, ReferenceCopyInv, HeldInv, CleanupInv, ProvisionInv,
                      WakeInv, [Next]_vars, TypeInv', HeldInv'
               PROVE  WakeInv'
    OBVIOUS
  <1>1. UnderFinalizer /\ IDsAreOwn /\ \A c \in Claims : CleanupPending(c)
    BY DEF CleanupInv
  <1>2. /\ NamedOnce /\ SetUpSoFar
        /\ \A c \in Claims : ReadyReferenceHasSecret(c)
        /\ \A c \in Claims : ClaimTellsTruth(c)
    BY DEF ProvisionInv
  <1>3. /\ StaleIsStirred /\ ClaimStepIsDue /\ RefStepIsDue /\ NothingRejected /\ InactiveIsGoing
        /\ \A c \in Claims : ReadyIsSeen(c)
        /\ \A c \in Claims : ClaimAwake(c)
        /\ ComputeIsNoted /\ \A r \in Refs : RefAwake(r)
    BY DEF WakeInv
  <1>4. StaleIsStirred'
    BY <1>3, StaleStep
  <1>5. ClaimStepIsDue'
    BY <1>3, ClaimDueStep
  <1>6. RefStepIsDue'
    BY <1>3, RefDueStep
  <1>7. NothingRejected'
    BY <1>3, NothingRejectedStep
  <1>8. InactiveIsGoing'
    BY <1>1, <1>2, <1>3, InactiveStep
  <1>9. ASSUME NEW c \in Claims PROVE (ReadyIsSeen(c))' /\ (ClaimAwake(c))'
    <2>1. (ReadyIsSeen(c))'
      BY <1>2, <1>3, <1>7, ReadySeenStep
    <2>2. (ClaimAwake(c))'
      BY <1>3, ClaimAwakeStep
    <2> QED BY <2>1, <2>2
  <1>10. ComputeIsNoted'
    BY <1>1, <1>2, <1>3, ComputeStep
  <1>11. ASSUME NEW r \in Refs PROVE (RefAwake(r))'
    BY <1>1, <1>2, <1>3, <1>7, RefAwakeStep
  <1> QED BY <1>4, <1>5, <1>6, <1>7, <1>8, <1>9, <1>10, <1>11 DEF WakeInv

\* Whatever is not done is in a queue, on its way to one, or with a worker that
\* comes back to it: however the controllers, the informers and the users
\* interleave, and whatever GCP refuses or a restart forgets.
THEOREM NothingIsForgotten ==
  ASSUME NamesAreDistinct, ProjectsAreDistinct, CleanupIsReliable, ProvisioningIsReliable,
         WakeupsAreReliable
  PROVE  Spec => []WakeInv
  <1>1. TypeInv /\ ClaimCopyInv /\ ReferenceCopyInv /\ HeldInv /\ CleanupInv /\ ProvisionInv
          /\ WakeInv /\ [Next]_vars /\ TypeInv' /\ HeldInv' => WakeInv'
    BY WakeInductive
  <1>2. Spec => []TypeInv
    BY KeysCorrect
  <1>3. Spec => []ClaimCopyInv
    BY ClaimCopies
  <1>4. Spec => []ReferenceCopyInv
    BY ReferenceCopies
  <1>5. Spec => []HeldInv
    BY DeletionsSeen, ReferencesAreHeld
  <1>6. Spec => []CleanupInv
    BY CleanupIsPending
  <1>7. Spec => []ProvisionInv
    BY ClaimsAreProvisioned
  <1> QED BY <1>1, <1>2, <1>3, <1>4, <1>5, <1>6, <1>7, InitWake, PTL DEF Spec

\* When both workers are idle, the queues empty and the caches up to date, every
\* claim is Ready and none is being deleted: nobody waits for an event that does
\* not come, although Reconcile drops a Requeue() without a delay and neither
\* controller watches the objects of the other.
THEOREM NoWakeupIsLost ==
  ASSUME NamesAreDistinct, ProjectsAreDistinct, CleanupIsReliable, ProvisioningIsReliable,
         WakeupsAreReliable
  PROVE  Spec => []NoLostWakeup
  <1>1. TypeInv /\ ClaimCopyInv /\ ReferenceCopyInv /\ HeldInv /\ WakeInv => NoLostWakeup
    <2> SUFFICES ASSUME TypeInv, ClaimCopyInv, ReferenceCopyInv, HeldInv, WakeInv, Quiescent,
                        NEW c \in Claims, claim[c].exists
                 PROVE  ~claim[c].deleting /\ claim[c].state = "Ready"
      BY DEF NoLostWakeup
    <2> DEFINE r == RefName(c)
    <2>1. cw.pc = "idle" /\ rw.pc = "idle"
      BY DEF Quiescent
    <2>2. ClaimSettled(c)
      BY <2>1 DEF WakeInv, ClaimAwake, ClaimStirred, Quiescent, BusyWith
    <2>3. ASSUME claim[c].state = "PendingProject" PROVE FALSE
      <3>1. r \in Refs
        BY DEF Refs
      <3>2. Engaged(claim[c])
        BY <2>3 DEF Engaged, ClaimCopyInv, StatesMatch
      <3>3. ref[r].exists
        BY <2>2, <3>2 DEF ProvisioningIsReliable, HeldInv, DeletionSeen, Going, ClaimSettled
      <3>4. ref[r].owner = c
        BY <3>1, <3>3 DEF TypeInv, KeysOK, ReferenceCopyInv, NamedAfterOwner, NamesAreDistinct
      <3>5. RefSettled(r)
        BY <2>1, <3>1, <3>3 DEF WakeInv, RefAwake, RefStirred, Quiescent
      <3> QED BY <2>3, <3>4, <3>5 DEF RefSettled
    <2> QED BY <2>2, <2>3 DEF ClaimSettled
  <1>2. Spec => []TypeInv
    BY KeysCorrect
  <1>3. Spec => []ClaimCopyInv
    BY ClaimCopies
  <1>4. Spec => []ReferenceCopyInv
    BY ReferenceCopies
  <1>5. Spec => []HeldInv
    BY DeletionsSeen, ReferencesAreHeld
  <1>6. Spec => []WakeInv
    BY NothingIsForgotten
  <1> QED BY <1>1, <1>2, <1>3, <1>4, <1>5, <1>6, PTL
=============================================================================
