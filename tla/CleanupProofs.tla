--------------------------- MODULE CleanupProofs ---------------------------
(***************************************************************************)
(* What the operator makes for a claim is under the finalizer of the       *)
(* claim's reference until it has been cleaned up (NothingLeftBehind), and *)
(* what it makes in a customer's project also under the finalizer of the   *)
(* customer's Secret (CCSSecretHeld).                                      *)
(***************************************************************************)
EXTENDS ClaimProofs, CleanupInvariant

-----------------------------------------------------------------------------
(* Where a step of the ProjectReference controller leads.                  *)

\* A step that writes the reference or the claim ends the chain, with the
\* exception of EnsureClaimProjectIDSet.
LEMMA WritersEnd ==
  ASSUME TypeInv,
         \/ EnsureProjectReferenceInitialized \/ EnsureProjectReferenceStatusCreating
         \/ EnsureServiceAccountName \/ EnsureFinalizerAdded \/ EnsureStateReady
         \/ ProjectInactive \/ ClearProjectID \/ EnsureFinalizerDeleted
         \/ EnsureProjectID \/ HandleAvailabilityZonesError
         \/ EnsureClaimAvailabilityZonesSet \/ EnsureProjectClaimReady
         \/ FinishReference
  PROVE  rw'.pc \in {"idle", "Condition"} /\ UNCHANGED <<project, secrets>>
  <1>1. \A out, o : RefFinish(out, o) => rw'.pc = "Condition"
    BY ReferenceParts DEF RefFinish, ReferenceWorker
  <1>2. RefFails => rw'.pc = "Condition"
    BY <1>1 DEF RefFails
  <1>3. \A o : SaveRef(o) \/ SaveRefStatus(o) => rw'.pc = "Condition"
    BY <1>1 DEF SaveRef, SaveRefStatus
  <1>4. CASE EnsureProjectReferenceInitialized \/ EnsureProjectReferenceStatusCreating
             \/ EnsureServiceAccountName \/ EnsureFinalizerAdded \/ EnsureStateReady
             \/ ProjectInactive
    BY <1>3, <1>4 DEF EnsureProjectReferenceInitialized, EnsureProjectReferenceStatusCreating,
         EnsureServiceAccountName, EnsureFinalizerAdded, EnsureStateReady, ProjectInactive,
         cloud
  <1>5. CASE EnsureProjectID
    BY <1>2, <1>3, <1>5 DEF EnsureProjectID
  <1>6. CASE ClearProjectID \/ EnsureFinalizerDeleted \/ HandleAvailabilityZonesError
             \/ EnsureClaimAvailabilityZonesSet \/ EnsureProjectClaimReady
    BY <1>1, <1>2, <1>6 DEF ClearProjectID, EnsureFinalizerDeleted,
         HandleAvailabilityZonesError, EnsureClaimAvailabilityZonesSet,
         EnsureProjectClaimReady, cloud
  <1>7. CASE FinishReference
    BY <1>7 DEF FinishReference, IdleReferenceWorker, cloud
  <1> QED BY <1>4, <1>5, <1>6, <1>7

\* The operations that follow each other in a reconcile of reference o.
LeadsTo(a, b, o) ==
  \/ a = "CreateProject" /\ b \in {"Billing", "ClearProjectID"}
  \/ a = "Billing" /\ b = "APIs"
  \/ a = "APIs" /\ b = "ServiceAccount"
  \/ a = "ServiceAccount" /\ b = "Policy"
  \/ a = "Policy" /\ b = "Credentials"
  \/ a = "Credentials" /\ b \in {"CreateSecret", AfterCredentials(o)}
  \/ a = "CreateSecret" /\ b = AfterCredentials(o)
  \/ a = "ConsoleAccess" /\ b = "StateReady"
  \/ a = "ClaimProjectID" /\ b = "ClaimReady"
  \/ a = "DeletePolicy" /\ b \in {"DeleteServiceAccount", AfterServiceAccount(o)}
  \/ a = "DeleteServiceAccount" /\ b = AfterServiceAccount(o)
  \/ a \in {"DeleteProject", "DeleteConsoleAccess"} /\ b = "DeleteCredentials"
  \/ a = "DeleteCredentials" /\ b = "FinalizerDeleted"

\* A step ends the chain or goes on with the next operation.
LEMMA ReferenceStepLeads ==
  ASSUME TypeInv, ReferenceStep
  PROVE  rw'.pc \in {"idle", "Condition"} \/ LeadsTo(rw.pc, rw'.pc, rw.ref)
  <1>1. \A out, o : RefFinish(out, o) => rw'.pc = "Condition"
    BY ReferenceParts DEF RefFinish, ReferenceWorker
  <1>2. RefFails => rw'.pc = "Condition"
    BY <1>1 DEF RefFails
  <1>3. \A pc : RefGoto(pc) => rw'.pc = pc
    BY ReferenceParts DEF RefGoto, ReferenceWorker
  <1>4. \A p, pc : Configure(p, pc) => rw'.pc \in {pc, "Condition"}
    BY <1>2, <1>3 DEF Configure
  <1>5. CASE EnsureClaimProjectIDSet
    <2>1. CASE \E cl : rw' = [rw EXCEPT !.pc = "ClaimReady", !.claim = cl]
      BY <1>5, <2>1, ReferenceParts DEF ReferenceWorker, LeadsTo, EnsureClaimProjectIDSet
    <2> QED BY <1>2, <1>5, <2>1 DEF EnsureClaimProjectIDSet
  <1>6. CASE ConfigureBillingAPI \/ ConfigureAPIS \/ SetIAMPolicy \/ SetConsoleAccess
             \/ DeleteServiceAccount \/ DeleteConsoleAccess
    BY <1>4, <1>6 DEF ConfigureBillingAPI, ConfigureAPIS, SetIAMPolicy, SetConsoleAccess,
         DeleteServiceAccount, DeleteConsoleAccess, LeadsTo
  <1>7. CASE ConfigureServiceAccount
    BY <1>1, <1>4, <1>7 DEF ConfigureServiceAccount, LeadsTo
  <1>8. CASE DeletePolicy
    BY <1>2, <1>3, <1>4, <1>8 DEF DeletePolicy, LeadsTo
  <1>9. CASE DeleteProject \/ DeleteCredentials
    BY <1>2, <1>3, <1>9 DEF DeleteProject, DeleteCredentials, AfterDeleteCredentials, LeadsTo
  <1>10. CASE ListProjectsFails \/ ProjectFound \/ ProjectMissing
    BY <1>2, <1>3, <1>10 DEF ListProjectsFails, ProjectFound, ProjectMissing, LeadsTo
  <1>11. CASE CreateKey \/ CreateSecret
    BY <1>1, <1>2, <1>3, <1>11 DEF CreateKey, CreateSecret, LeadsTo
  <1> QED BY <1>5, <1>6, <1>7, <1>8, <1>9, <1>10, <1>11, WritersEnd DEF ReferenceStep

\* Only the operations that set a project up lead to another of them.
LEMMA SetUpStays ==
  ASSUME TypeInv, ReferenceStep, rw'.pc \in SetUpSteps
  PROVE  rw.pc \in SetUpSteps
  BY ReferenceStepLeads DEF LeadsTo, SetUpSteps, AfterServiceAccount

\* A reconcile begins to set up or to clean up with a copy of its kind.
LEMMA FirstOperationKind ==
  ASSUME NEW o, NEW cl
  PROVE  /\ FirstOperation(o, cl) \in DeletionSteps =>
              FirstOperation(o, cl) = "DeletePolicy" /\ o.deleting
         /\ FirstOperation(o, cl) \in SetUpSteps =>
              /\ FirstOperation(o, cl) = AfterFinalizerAdded(o)
              /\ ~o.deleting /\ o.finalizer /\ o.projectID # Nil
         /\ FirstOperation(o, cl) = "ProjectID" => o.projectID = Nil
  <1>1. ClaimReadyOperation(cl) \in ClaimReadySteps
    BY DEF ClaimReadyOperation, ClaimReadySteps
  <1>2. /\ SetUpOperation(o) \notin DeletionSteps
        /\ SetUpOperation(o) \in SetUpSteps =>
             SetUpOperation(o) = AfterFinalizerAdded(o) /\ o.finalizer /\ o.projectID # Nil
        /\ SetUpOperation(o) = "ProjectID" => o.projectID = Nil
    BY DEF SetUpOperation, AfterFinalizerAdded, SetUpSteps, DeletionSteps
  <1> QED BY <1>1, <1>2 DEF FirstOperation, ClaimReadySteps, SetUpSteps, DeletionSteps

-----------------------------------------------------------------------------
(* What is set up and cleaned up is under the finalizer.                   *)

\* The initial state.
LEMMA InitUnderFinalizer == Init => UnderFinalizer
  <1> SUFFICES ASSUME Init PROVE UnderFinalizer OBVIOUS
  <1>1. ~NoRef.exists
    BY DEF NoRef
  <1>2. rw.pc = "idle" /\ \A r \in Refs : refCache[r] = NoRef
    BY DEF Init, IdleReferenceWorker
  <1>3. "idle" \notin SetUpSteps \cup DeletionSteps
    BY DEF SetUpSteps, DeletionSteps
  <1> QED BY <1>1, <1>2, <1>3 DEF UnderFinalizer, Live

\* A step of others keeps it: a reference with the finalizer stays, and none
\* comes to life or comes back while the cache still has it.
RefHolds(r) ==
  /\ Kept(r) => (Kept(r))'
  /\ ~Live(ref[r]) => ~Live(ref'[r])
  /\ refCache[r].exists /\ (~ref[r].exists \/ ref[r].deleting) =>
       ~ref'[r].exists \/ ref'[r].deleting

\* A step that touches neither the worker nor its cache keeps UnderFinalizer.
LEMMA UnderFinalizerFrame ==
  ASSUME TypeInv, UnderFinalizer, UNCHANGED <<refCache, rw>>,
         \A r \in Refs : RefHolds(r)
  PROVE  UnderFinalizer'
  <1>1. rw.pc \in SetUpSteps \cup DeletionSteps => rw.key \in Refs
    BY ReferenceParts DEF SetUpSteps, DeletionSteps
  <1>2. ASSUME NEW r \in Refs
        PROVE  /\ Live(refCache'[r]) => (Kept(r))'
               /\ refCache'[r].exists /\ refCache'[r].deleting => ~ref'[r].exists \/ ref'[r].deleting
    BY DEF UnderFinalizer, RefHolds
  <1>3. rw'.pc \in SetUpSteps => (Kept(rw.key))'
    BY <1>1 DEF UnderFinalizer, RefHolds, Kept
  <1>4. rw'.pc \in DeletionSteps => ~Live(ref'[rw'.key]) /\ ~Live(refCache'[rw'.key])
    BY <1>1 DEF UnderFinalizer, RefHolds
  <1> QED BY <1>2, <1>3, <1>4 DEF UnderFinalizer, Kept

\* A deletion, a creation and a reference that is kept.
LEMMA HoldsCases ==
  ASSUME TypeInv, ReferenceCopyInv, NEW r \in Refs,
         RefKept(r) \/ RefDeleted(r) \/ (cw.pc # "idle" /\ RefCreated(r))
  PROVE  RefHolds(r)
  <1>1. ref[r] \in ProjectReference /\ ~NoRef.exists
    BY ReferenceParts DEF NoRef
  <1>2. CASE RefKept(r)
    BY <1>2 DEF RefKept, RefHolds, Kept
  <1>3. CASE RefDeleted(r)
    BY <1>1, <1>3, DeletedRef DEF RefDeleted, RefHolds, Kept, Live
  <1>4. CASE cw.pc # "idle" /\ RefCreated(r)
    BY <1>1, <1>4, ClaimObjects, NewReferenceFields DEF RefCreated, RefHolds, Kept, Live
  <1> QED BY <1>2, <1>3, <1>4

\* The steps of the claim controller.
LEMMA ClaimStepUnderFinalizer ==
  ASSUME TypeInv, ReferenceCopyInv, UnderFinalizer, ClaimStep
  PROVE  UnderFinalizer'
  <1>1. ASSUME NEW r \in Refs
        PROVE  RefHolds(r) /\ UNCHANGED <<refCache, rw>>
    BY ClaimStepRefs, ClaimStepBusy, HoldsCases DEF RefDeletedByClaim
  <1>2. UNCHANGED <<refCache, rw>>
    BY ClaimStepBusy, ClaimObjects, ClaimStepRefs DEF Refs
  <1> QED BY <1>1, <1>2, UnderFinalizerFrame

\* The steps of the reference controller.
LEMMA ReferenceStepUnderFinalizer ==
  ASSUME TypeInv, ReferenceCopyInv, UnderFinalizer, ReferenceStep
  PROVE  UnderFinalizer'
  <1>1. rw.pc # "idle" /\ rw.key \in Refs /\ ~NoRef.exists
    BY ReferenceStepMoves, ReferenceParts DEF NoRef
  <1>2. \A r \in Refs : RefKept(r) \/ RefWritten(r)
    BY ReferenceStepRefs
  <1>3. refCache' = refCache
    BY <1>1, ReferenceStepRefs
  <1>4. rw'.pc \notin {"idle", "Condition"} => RefWorkerMoves /\ \A r \in Refs : RefKept(r)
    BY <1>2, ReferenceStepMoves DEF RefWritten, FinishReference, IdleReferenceWorker
  <1>5. ASSUME NEW r \in Refs
        PROVE  /\ Live(refCache'[r]) => (Kept(r))'
               /\ refCache'[r].exists /\ refCache'[r].deleting => ~ref'[r].exists \/ ref'[r].deleting
    <2>1. CASE RefKept(r)
      BY <1>3, <2>1 DEF UnderFinalizer, RefKept, Kept
    <2>2. CASE RefWritten(r)
      <3>1. CASE SameRef(ref'[r], ref[r])
        BY <1>3, <3>1 DEF UnderFinalizer, SameRef, Kept
      <3>2. CASE /\ rw.pc = "FinalizerAdded" /\ ref'[r].exists /\ ~ref'[r].deleting
                 /\ ref'[r].finalizer
        <4>1. refCache[r].exists /\ refCache[r].deleting => ref[r].deleting
          BY <2>2 DEF UnderFinalizer, RefWritten, Current
        <4>2. ~ref[r].deleting
          BY <2>2, <3>2 DEF RefWritten, Current, ReferenceCopyInv, CopiesAgree, TypeInv, KeysOK
        <4> QED BY <1>3, <3>2, <4>1, <4>2 DEF Kept
      <3>3. CASE rw.pc = "FinalizerDeleted" /\ ref'[r] = NoRef
        BY <1>1, <1>3, <2>2, <3>3 DEF UnderFinalizer, RefWritten, DeletionSteps
      <3> QED BY <2>2, <3>1, <3>2, <3>3 DEF RefWritten
    <2> QED BY <1>2, <2>1, <2>2
  <1>6. rw'.pc \in SetUpSteps => (Kept(rw.key))'
    <2> SUFFICES ASSUME rw'.pc \in SetUpSteps PROVE (Kept(rw.key))' OBVIOUS
    <2>1. rw.pc \in SetUpSteps /\ rw'.pc \notin {"idle", "Condition"}
      BY SetUpStays DEF SetUpSteps
    <2>2. rw'.key = rw.key /\ ref'[rw.key] = ref[rw.key]
      BY <1>1, <1>4, <2>1 DEF RefWorkerMoves, RefKept
    <2> QED BY <2>1, <2>2 DEF UnderFinalizer, Kept
  <1>7. rw'.pc \in DeletionSteps => ~Live(ref'[rw'.key]) /\ ~Live(refCache'[rw'.key])
    <2> SUFFICES ASSUME rw'.pc \in DeletionSteps
                 PROVE  ~Live(ref'[rw'.key]) /\ ~Live(refCache'[rw'.key])
      OBVIOUS
    <2>1. rw'.pc \notin {"idle", "Condition"}
      BY DEF DeletionSteps
    <2>2. rw.pc \in DeletionSteps /\ rw'.key = rw.key /\ ref'[rw.key] = ref[rw.key]
      BY <1>1, <1>4, <2>1 DEF RefWorkerMoves, RefKept
    <2> QED BY <1>3, <2>2 DEF UnderFinalizer
  <1> QED BY <1>5, <1>6, <1>7 DEF UnderFinalizer, Kept

\* A reconcile of a reference begins.
LEMMA StartUnderFinalizer ==
  ASSUME TypeInv, UnderFinalizer, NEW r \in Refs, StartReference(r)
  PROVE  UnderFinalizer'
  <1>1. UNCHANGED <<ref, refCache>>
    BY StartReferenceMoves DEF caches
  <1>2. CASE UNCHANGED rw
    BY <1>1, <1>2, UnderFinalizerFrame DEF RefHolds, Kept
  <1>3. CASE RefWorkerStarts(r)
    <2>1. /\ rw'.key = r /\ refCache[r].exists
          /\ rw'.pc = FirstOperation(refCache[r], claimCache[refCache[r].owner])
      BY <1>3 DEF RefWorkerStarts
    <2>2. /\ rw'.pc \in DeletionSteps => refCache[r].deleting
          /\ rw'.pc \in SetUpSteps => ~refCache[r].deleting /\ refCache[r].finalizer
      BY <2>1, FirstOperationKind
    <2>3. rw'.pc \in SetUpSteps => Kept(r)
      BY <2>1, <2>2 DEF UnderFinalizer, Live
    <2>4. rw'.pc \in DeletionSteps => ~Live(ref[r]) /\ ~Live(refCache[r])
      BY <2>1, <2>2 DEF UnderFinalizer, Live
    <2>5. \A s \in Refs : /\ Live(refCache[s]) => Kept(s)
                          /\ refCache[s].exists /\ refCache[s].deleting =>
                               ~ref[s].exists \/ ref[s].deleting
      BY DEF UnderFinalizer
    <2> QED BY <1>1, <2>1, <2>3, <2>4, <2>5 DEF UnderFinalizer, Kept
  <1> QED BY <1>2, <1>3, StartReferenceMoves

\* The informer, a restart and a deletion by hand.
LEMMA OutsideUnderFinalizer ==
  ASSUME TypeInv, ReferenceCopyInv, UnderFinalizer,
         (\E r \in Refs : SyncRef(r) \/ AdminDeletesReference(r)) \/ Crash
  PROVE  UnderFinalizer'
  <1>1. /\ ref \in [Refs -> ProjectReference] /\ refCache \in [Refs -> ProjectReference]
        /\ refCur \in [Refs -> RefHolders]
        /\ rw.pc \in SetUpSteps \cup DeletionSteps => rw.key \in Refs
    BY ReferenceParts DEF TypeInv, TypeOK, SetUpSteps, DeletionSteps
  <1>2. ASSUME NEW r \in Refs, SyncRef(r)
        PROVE  UnderFinalizer'
    <2>1. /\ UNCHANGED <<ref, rw>>
          /\ refCache' = [refCache EXCEPT ![r] = ref[r]]
      BY <1>2 DEF SyncRef, workers
    <2>2. \A s \in Refs : refCache'[s] = ref[s] \/ refCache'[s] = refCache[s]
      BY <1>1, <2>1
    <2>3. ASSUME NEW s \in Refs
          PROVE  /\ Live(refCache'[s]) => Kept(s)
                 /\ refCache'[s].exists /\ refCache'[s].deleting => ~ref[s].exists \/ ref[s].deleting
      BY <2>2 DEF UnderFinalizer, Live, Kept
    <2>4. rw.pc \in DeletionSteps => ~Live(ref[rw.key]) /\ ~Live(refCache'[rw.key])
      BY <1>1, <2>2 DEF UnderFinalizer
    <2>5. rw.pc \in SetUpSteps => Kept(rw.key)
      BY DEF UnderFinalizer
    <2> QED BY <2>1, <2>3, <2>4, <2>5 DEF UnderFinalizer, Kept
  <1>3. ASSUME NEW r \in Refs, AdminDeletesReference(r)
        PROVE  UnderFinalizer'
    <2>1. /\ UNCHANGED <<refCache, rw>>
          /\ ref[r].exists /\ ref' = [ref EXCEPT ![r] = Deleted(@, NoRef)]
          /\ refCur' = [refCur EXCEPT ![r] = {}]
      BY <1>3 DEF AdminDeletesReference, caches, workers
    <2>2. \A s \in Refs : RefKept(s) \/ RefDeleted(s)
      BY <1>1, <2>1 DEF RefKept, RefDeleted
    <2> QED BY <2>1, <2>2, HoldsCases, UnderFinalizerFrame
  <1>4. CASE Crash
    <2>1. UNCHANGED ref /\ refCache' = ref /\ rw'.pc = "idle"
      BY <1>4 DEF Crash, IdleReferenceWorker
    <2>2. "idle" \notin SetUpSteps \cup DeletionSteps
      BY DEF SetUpSteps, DeletionSteps
    <2> QED BY <2>1, <2>2 DEF UnderFinalizer, Live, Kept
  <1> QED BY <1>2, <1>3, <1>4

\* UnderFinalizer is inductive relative to ReferenceCopyInv.
LEMMA UnderFinalizerInductive ==
  TypeInv /\ ReferenceCopyInv /\ UnderFinalizer /\ [Next]_vars => UnderFinalizer'
  <1> SUFFICES ASSUME TypeInv, ReferenceCopyInv, UnderFinalizer, [Next]_vars
               PROVE  UnderFinalizer'
    OBVIOUS
  <1>1. ASSUME UNCHANGED <<refObjs, refCache, rw>>
        PROVE  UnderFinalizer'
    BY <1>1, UnderFinalizerFrame DEF RefHolds, Kept, refObjs
  <1>2. CASE ClaimStep
    BY <1>2, ClaimStepUnderFinalizer
  <1>3. CASE ReferenceStep
    BY <1>3, ReferenceStepUnderFinalizer
  <1>4. CASE Manager
    BY <1>1, <1>4, StartUnderFinalizer, OutsideUnderFinalizer, NoReferenceSteps, OtherSteps
       DEF Manager, workers
  <1>5. CASE Environment
    BY <1>1, <1>5, OutsideUnderFinalizer, NoReferenceSteps, OtherSteps DEF Environment, workers
  <1>6. CASE UNCHANGED vars
    BY <1>1, <1>6, OtherSteps DEF workers
  <1> QED BY <1>2, <1>3, <1>4, <1>5, <1>6 DEF Next

-----------------------------------------------------------------------------
(* Project IDs.                                                            *)

\* The ID of reference r stays, is given up, or is a new one.
IDKept(r) == ref'[r].projectID = ref[r].projectID

IDWritten(r) ==
  /\ r = rw.key /\ Current(ref[r], refCur[r], "refCtl") /\ rw'.pc = "Condition"
  /\ \/ rw.pc = "ClearProjectID" /\ ref'[r].projectID = Nil
     \/ /\ rw.pc = "ProjectID"
        /\ ref'[r].projectID \in ProjectIDs \ issued
        /\ issued' = issued \cup {ref'[r].projectID}

\* What a write of the spec or the status stores as the ID.
LEMMA StoredID ==
  ASSUME NEW o \in ProjectReference, NEW old \in ProjectReference, NEW any
  PROVE  /\ ~(o.deleting /\ ~o.finalizer) => RefUpdate(o, old).projectID = o.projectID
         /\ o.deleting /\ ~o.finalizer => RefUpdate(o, old) = NoRef
         /\ RefStatusUpdate(any, old).projectID = old.projectID
  BY DEF RefUpdate, RefStatusUpdate, Collected, ProjectReference

\* A write of the status keeps the ID.
LEMMA StatusKeepsID ==
  ASSUME TypeInv, rw.pc # "idle", NEW o, RefStores(RefStatusUpdate(o, ref[rw.key])),
         NEW r \in Refs
  PROVE  IDKept(r)
  <1>1. ref[rw.key] \in ProjectReference
    BY ReferenceParts
  <1>2. RefStatusUpdate(o, ref[rw.key]).projectID = ref[rw.key].projectID
    BY <1>1, StoredID
  <1> QED BY <1>2 DEF RefStores, IDKept

\* A write of the spec that leaves the ID alone keeps it, unless it is the
\* last one.
LEMMA SpecKeepsID ==
  ASSUME TypeInv, ReferenceCopyInv, rw.pc \notin {"idle", "Condition"},
         NEW o \in ProjectReference, o.projectID = rw.ref.projectID,
         RefStores(RefUpdate(o, ref[rw.key])), NEW r \in Refs
  PROVE  IDKept(r) \/ ~ref'[r].exists
  <1>1. ref[rw.key] \in ProjectReference /\ ~NoRef.exists
    BY ReferenceParts DEF NoRef
  <1>2. Current(ref[rw.key], refCur[rw.key], "refCtl") => rw.ref = ref[rw.key]
    BY DEF ReferenceCopyInv, CopiesAgree
  <1>3. \/ RefUpdate(o, ref[rw.key]).projectID = o.projectID
        \/ RefUpdate(o, ref[rw.key]) = NoRef
    BY <1>1, StoredID
  <1> QED BY <1>1, <1>2, <1>3 DEF RefStores, IDKept

\* What the reference controller does to the IDs.
LEMMA ReferenceStepIDs ==
  ASSUME TypeInv, ReferenceCopyInv, ReferenceStep, NEW r \in Refs
  PROVE  /\ IDKept(r) \/ IDWritten(r) \/ ~ref'[r].exists
         /\ issued \subseteq issued'
  <1>1. rw.pc # "idle" /\ rw.key \in Refs /\ rw.ref \in ProjectReference
        /\ ref \in [Refs -> ProjectReference]
    BY ReferenceStepMoves, ReferenceParts
  <1>2. CASE UNCHANGED <<refObjs, issued>>
    BY <1>2 DEF refObjs, IDKept
  <1>3. CASE \/ EnsureProjectReferenceInitialized \/ EnsureProjectReferenceStatusCreating
             \/ EnsureStateReady \/ ProjectInactive
    <2>1. UNCHANGED issued /\ \E o : SaveRefStatus(o)
      BY <1>3 DEF EnsureProjectReferenceInitialized, EnsureProjectReferenceStatusCreating,
                  EnsureStateReady, ProjectInactive, cloud
    <2> QED BY <1>1, <2>1, UpdateRefStores, StatusKeepsID DEF SaveRefStatus
  <1>4. CASE HandleAvailabilityZonesError
    BY <1>1, <1>2, <1>4, UpdateRefStores, StatusKeepsID DEF HandleAvailabilityZonesError, cloud
  <1>5. CASE FinishReference
    <2>1. UNCHANGED issued
      BY <1>5 DEF FinishReference, cloud
    <2>2. CASE UNCHANGED ref
      BY <2>1, <2>2 DEF IDKept
    <2>3. CASE ~UNCHANGED ref
      <3> DEFINE new == RefStatusUpdate(ReferenceCondition(rw.ref, rw.out), ref[rw.key])
      <3>1. PICK touched \in BOOLEAN :
              \E w \in Replies("refCtl", ref[rw.key], refCur[rw.key], new, touched) :
                /\ ref' = [ref EXCEPT ![rw.key] = w.obj]
                /\ refCur' = [refCur EXCEPT ![rw.key] = w.cur \ {"refCtl"}]
        BY <1>5, <2>3 DEF FinishReference
      <3> HIDE DEF new
      <3>2. RefStores(new)
        BY <1>1, <3>1, RefReplyStores
      <3> QED BY <1>1, <2>1, <3>2, StatusKeepsID DEF new
    <2> QED BY <2>2, <2>3
  <1>6. CASE EnsureServiceAccountName \/ EnsureFinalizerAdded \/ EnsureFinalizerDeleted
    <2>1. /\ [rw.ref EXCEPT !.saName = TRUE].projectID = rw.ref.projectID
          /\ [rw.ref EXCEPT !.finalizer = TRUE].projectID = rw.ref.projectID
          /\ [rw.ref EXCEPT !.finalizer = FALSE].projectID = rw.ref.projectID
          /\ [rw.ref EXCEPT !.saName = TRUE] \in ProjectReference
          /\ [rw.ref EXCEPT !.finalizer = TRUE] \in ProjectReference
          /\ [rw.ref EXCEPT !.finalizer = FALSE] \in ProjectReference
      BY <1>1 DEF ProjectReference
    <2>2. /\ UNCHANGED issued /\ rw.pc # "Condition"
          /\ \E o \in ProjectReference : \E ok \in BOOLEAN :
               o.projectID = rw.ref.projectID /\ UpdateRef(rw.key, o, ok)
      BY <1>6, <2>1 DEF EnsureServiceAccountName, EnsureFinalizerAdded, EnsureFinalizerDeleted,
                        SaveRef, cloud
    <2> QED BY <1>1, <2>2, UpdateRefStores, SpecKeepsID
  <1>7. CASE ClearProjectID
    <2> DEFINE o == [rw.ref EXCEPT !.projectID = Nil]
    <2>1. o \in ProjectReference /\ o.projectID = Nil /\ o.deleting = rw.ref.deleting
      BY <1>1 DEF ProjectReference, MaybeID
    <2>2. /\ UNCHANGED issued /\ rw.pc = "ClearProjectID" /\ rw'.pc = "Condition"
          /\ \E ok \in BOOLEAN : UpdateRef(rw.key, o, ok)
      BY <1>1, <1>7, ReferenceParts DEF ClearProjectID, RefFinish, ReferenceWorker, cloud
    <2>3. ~rw.ref.deleting
      BY <2>2 DEF TypeInv, KeysOK
    <2> HIDE DEF o
    <2>4. RefStores(RefUpdate(o, ref[rw.key]))
      BY <1>1, <2>2, UpdateRefStores
    <2>5. RefUpdate(o, ref[rw.key]).projectID = Nil
      BY <1>1, <2>1, <2>3, StoredID
    <2> QED BY <2>2, <2>4, <2>5 DEF RefStores, IDKept, IDWritten
  <1>8. CASE EnsureProjectID
    <2>1. rw.pc = "ProjectID" /\ ~rw.ref.deleting
      BY <1>8 DEF EnsureProjectID, TypeInv, KeysOK
    <2>2. CASE UNCHANGED <<refObjs, issued>>
      BY <1>2, <2>2
    <2>3. ASSUME NEW id \in ProjectIDs \ issued, SaveRef([rw.ref EXCEPT !.projectID = id]),
                 issued' = IF ref'[rw.key].projectID = id THEN issued \cup {id} ELSE issued
          PROVE  (IDKept(r) \/ IDWritten(r)) /\ issued \subseteq issued'
      <3> DEFINE o == [rw.ref EXCEPT !.projectID = id]
      <3>1. o \in ProjectReference /\ o.projectID = id /\ o.deleting = rw.ref.deleting
        BY <1>1 DEF ProjectReference, MaybeID
      <3>2. rw'.pc = "Condition" /\ \E ok \in BOOLEAN : UpdateRef(rw.key, o, ok)
        BY <1>1, <2>3, ReferenceParts DEF SaveRef, RefFinish, ReferenceWorker
      <3> HIDE DEF o
      <3>3. RefStores(RefUpdate(o, ref[rw.key]))
        BY <1>1, <3>2, UpdateRefStores
      <3>4. RefUpdate(o, ref[rw.key]).projectID = id
        BY <1>1, <2>1, <3>1, StoredID
      <3>5. issued \subseteq issued'
        BY <2>3
      <3>6. CASE r # rw.key \/ ref'[r] = ref[r]
        BY <3>3, <3>5, <3>6 DEF RefStores, IDKept
      <3>7. CASE r = rw.key /\ ref'[r] # ref[r]
        <4>1. ref'[r].projectID = id /\ Current(ref[r], refCur[r], "refCtl")
          BY <3>3, <3>4, <3>7 DEF RefStores
        <4> QED BY <2>1, <2>3, <3>2, <3>5, <3>7, <4>1 DEF IDWritten
      <3> QED BY <3>6, <3>7
    <2> QED BY <1>8, <2>2, <2>3 DEF EnsureProjectID
  <1>9. CASE EnsureClaimAvailabilityZonesSet \/ EnsureClaimProjectIDSet \/ EnsureProjectClaimReady
    <2>1. UNCHANGED <<refObjs, issued>>
      BY <1>9 DEF EnsureClaimAvailabilityZonesSet, EnsureClaimProjectIDSet,
                  EnsureProjectClaimReady, cloud
    <2> QED BY <1>2, <2>1
  <1>10. CASE \/ DeletePolicy \/ DeleteServiceAccount \/ DeleteProject \/ DeleteConsoleAccess
              \/ DeleteCredentials \/ ListProjectsFails \/ ProjectFound \/ ProjectMissing
              \/ ConfigureBillingAPI \/ ConfigureAPIS \/ ConfigureServiceAccount \/ SetIAMPolicy
              \/ CreateKey \/ CreateSecret \/ SetConsoleAccess
    <2>1. UNCHANGED <<refObjs, issued>>
      BY <1>10 DEF DeletePolicy, DeleteServiceAccount, DeleteProject, DeleteConsoleAccess,
           DeleteCredentials, ListProjectsFails, ProjectFound, ProjectMissing,
           ConfigureBillingAPI, ConfigureAPIS, ConfigureServiceAccount, SetIAMPolicy,
           CreateKey, CreateSecret, SetConsoleAccess, cloud
    <2> QED BY <1>2, <2>1
  <1> QED BY <1>3, <1>4, <1>5, <1>6, <1>7, <1>8, <1>9, <1>10 DEF ReferenceStep

\* Nil is no project.
LEMMA NilIsNoProject == Nil \notin CCSProjectIDs /\ CCSProjectIDs \subseteq ProjectIDs
  BY CCSAssumption, NilAssumption DEF CCSProjectIDs

\* The initial state.
LEMMA InitIDs == Init => IDsAreOwn
  <1> SUFFICES ASSUME Init PROVE IDsAreOwn OBVIOUS
  <1>1. ~NoRef.exists
    BY DEF NoRef
  <1>2. rw.pc = "idle" /\ \A r \in Refs : ref[r] = NoRef /\ refCache[r] = NoRef
    BY DEF Init, IdleReferenceWorker
  <1>3. issued = CCSProjectIDs
    BY DEF Init
  <1> QED BY <1>1, <1>2, <1>3 DEF IDsAreOwn

\* The reference controller keeps IDsAreOwn.
LEMMA ReferenceStepOwn ==
  ASSUME TypeInv, ReferenceCopyInv, IDsAreOwn, ReferenceStep
  PROVE  IDsAreOwn'
  <1>1. rw.pc # "idle" /\ rw.key \in Refs
    BY ReferenceStepMoves, ReferenceParts
  <1>2. CCSProjectIDs \subseteq issued' /\ refCache' = refCache
    BY <1>1, ReferenceStepIDs, ReferenceStepRefs DEF IDsAreOwn
  <1>3. ASSUME NEW r \in Refs, ref'[r].exists
        PROVE  OwnID(ref'[r])
    <2>1. ref[r].exists /\ ref'[r].owner = ref[r].owner /\ OwnID(ref[r])
      <3>1. ~NoRef.exists
        BY DEF NoRef
      <3>2. RefKept(r) \/ RefWritten(r)
        BY ReferenceStepRefs
      <3> QED BY <1>3, <3>1, <3>2 DEF RefKept, RefWritten, SameRef, Current, IDsAreOwn
    <2>2. CASE IDKept(r)
      BY <2>1, <2>2 DEF IDKept, OwnID, IsCCS
    <2>3. CASE IDWritten(r)
      <3>1. rw.ref = ref[r]
        BY <2>3 DEF IDWritten, ReferenceCopyInv, CopiesAgree
      <3>2. ~IsCCS(ref[r])
        <4>1. CASE rw.pc = "ClearProjectID"
          BY <3>1, <4>1 DEF IDsAreOwn
        <4>2. CASE rw.pc = "ProjectID"
          <5>1. ref[r].projectID = Nil
            BY <3>1, <4>2 DEF IDsAreOwn
          <5>2. IsCCS(ref[r]) => Nil \in CCSProjectIDs
            BY <2>1, <5>1 DEF OwnID, IsCCS, CCSProjectIDs
          <5> QED BY <5>2, NilIsNoProject
        <4> QED BY <2>3, <4>1, <4>2 DEF IDWritten
      <3>3. ref'[r].projectID \notin CCSProjectIDs
        BY <2>3, NilIsNoProject DEF IDWritten, IDsAreOwn
      <3> QED BY <2>1, <3>2, <3>3 DEF OwnID, IsCCS
    <2> QED BY <1>3, <2>2, <2>3, ReferenceStepIDs
  <1>4. ASSUME rw'.pc \notin {"idle", "Condition"}
        PROVE  /\ OwnID(rw'.ref) /\ rw'.pc # "ProjectID"
               /\ rw'.pc \in {"CreateProject", "ClearProjectID", "DeleteProject"} => ~IsCCS(rw'.ref)
               /\ rw'.pc = "DeleteConsoleAccess" => IsCCS(rw'.ref)
    <2>1. RefWorkerMoves /\ rw'.ref = rw.ref /\ rw.pc # "Condition"
      BY <1>4, ReferenceStepMoves, ConditionFinishes
         DEF RefWorkerMoves, FinishReference, IdleReferenceWorker
    <2>2. LeadsTo(rw.pc, rw'.pc, rw.ref)
      BY <1>4, ReferenceStepLeads
    <2>3. /\ rw'.pc \notin {"ProjectID", "CreateProject"}
          /\ rw'.pc = "ClearProjectID" => rw.pc = "CreateProject"
          /\ rw'.pc = "DeleteProject" => ~IsCCS(rw.ref)
          /\ rw'.pc = "DeleteConsoleAccess" => IsCCS(rw.ref)
      BY <2>2 DEF LeadsTo, AfterCredentials, AfterServiceAccount
    <2> QED BY <1>1, <2>1, <2>3 DEF IDsAreOwn
  <1>5. \A r \in Refs : refCache[r].exists => OwnID(refCache[r])
    BY DEF IDsAreOwn
  <1> QED BY <1>2, <1>3, <1>4, <1>5 DEF IDsAreOwn

\* A step that leaves the worker alone, and the references or what they say.
LEMMA OwnFrame ==
  ASSUME IDsAreOwn, UNCHANGED <<rw, refCache, issued>>,
         \A r \in Refs : ref'[r].exists =>
           \/ ref[r].exists /\ ref'[r].owner = ref[r].owner /\ IDKept(r)
           \/ OwnID(ref'[r])
  PROVE  IDsAreOwn'
  <1>1. \A r \in Refs : ref'[r].exists => OwnID(ref'[r])
    BY DEF IDsAreOwn, IDKept, OwnID, IsCCS
  <1>2. \A r \in Refs : refCache[r].exists => OwnID(refCache[r])
    BY DEF IDsAreOwn
  <1> QED BY <1>1, <1>2 DEF IDsAreOwn

\* A deletion keeps the ID.
LEMMA DeletedID ==
  ASSUME NEW o \in ProjectReference
  PROVE  \/ ~Deleted(o, NoRef).exists
         \/ Deleted(o, NoRef).owner = o.owner /\ Deleted(o, NoRef).projectID = o.projectID
  BY DEF Deleted, Collected, ProjectReference, NoRef

\* The claim controller keeps it: a new reference has the customer's ID.
LEMMA ClaimStepOwn ==
  ASSUME TypeInv, IDsAreOwn, ClaimStep
  PROVE  IDsAreOwn'
  <1>1. cw.pc # "idle" /\ cw.key \in Claims /\ RefName(cw.key) \in Refs
    BY ClaimStepBusy, ClaimObjects DEF Refs
  <1>2. UNCHANGED <<rw, refCache>>
    BY <1>1, ClaimStepRefs
  <1>3. UNCHANGED issued
    BY DEF ClaimStep, FinalizeReference, FinalizeWithoutReference,
           EnsureCCSSecretFinalizerDeleted, EnsureProjectClaimFinalizerDeleted,
           EnsureProjectClaimValidated, EnsureProjectClaimInitialized, EnsureRegionSupported,
           EnsureProjectClaimStatePending, EnsureProjectReferenceExists,
           EnsureProjectReferenceLink, EnsureFinalizer, EnsureCCSSecretFinalizer,
           EnsureProjectClaimStatePendingProject, FinishClaim, cloud
  <1>4. OwnID(NewMatchingProjectReference(cw.key))
    <2>1. NewMatchingProjectReference(cw.key).owner = cw.key
      BY <1>1, NewReferenceFields
    <2>2. NewMatchingProjectReference(cw.key).projectID =
            IF cw.key \in CCS THEN CCSProject[cw.key] ELSE Nil
      BY DEF NewMatchingProjectReference, NoRef
    <2> QED BY <2>1, <2>2, NilIsNoProject DEF OwnID, IsCCS
  <1>5. ASSUME NEW r \in Refs, ref'[r].exists
        PROVE  \/ ref[r].exists /\ ref'[r].owner = ref[r].owner /\ IDKept(r)
               \/ OwnID(ref'[r])
    <2>1. CASE RefKept(r)
      BY <1>5, <2>1 DEF RefKept, IDKept
    <2>2. CASE RefDeletedByClaim(r)
      <3>1. ref[r] \in ProjectReference
        BY ReferenceParts
      <3> QED BY <1>5, <2>2, <3>1, DeletedID DEF RefDeletedByClaim, RefDeleted, IDKept
    <2>3. CASE RefCreated(r)
      BY <1>4, <2>3 DEF RefCreated
    <2> QED BY <2>1, <2>2, <2>3, ClaimStepRefs
  <1> QED BY <1>2, <1>3, <1>5, OwnFrame

\* A reconcile of a reference begins.
LEMMA StartOwn ==
  ASSUME TypeInv, IDsAreOwn, NEW r \in Refs, StartReference(r)
  PROVE  IDsAreOwn'
  <1>1. UNCHANGED <<ref, refCache, issued>>
    BY DEF StartReference, caches, cloud
  <1>2. CASE UNCHANGED rw
    BY <1>1, <1>2, OwnFrame DEF IDKept
  <1>3. CASE RefWorkerStarts(r)
    <2> DEFINE o == refCache[r]
    <2>1. /\ rw'.ref = o /\ o.exists
          /\ rw'.pc = FirstOperation(o, claimCache[o.owner])
      BY <1>3 DEF RefWorkerStarts
    <2>2. OwnID(o)
      BY <2>1 DEF IDsAreOwn
    <2> HIDE DEF o
    <2>3. rw'.pc = "ProjectID" => o.projectID = Nil
      BY <2>1, FirstOperationKind
    <2>4. rw'.pc \notin {"DeleteProject", "DeleteConsoleAccess", "ClearProjectID"}
      BY <2>1, FirstOperationKind DEF DeletionSteps, SetUpSteps, AfterFinalizerAdded
    <2>5. rw'.pc = "CreateProject" => ~IsCCS(o)
      BY <2>1, FirstOperationKind DEF SetUpSteps, AfterFinalizerAdded
    <2>6. /\ CCSProjectIDs \subseteq issued
          /\ \A s \in Refs : /\ ref[s].exists => OwnID(ref[s])
                             /\ refCache[s].exists => OwnID(refCache[s])
      BY DEF IDsAreOwn
    <2> QED BY <1>1, <2>1, <2>2, <2>3, <2>4, <2>5, <2>6 DEF IDsAreOwn
  <1> QED BY <1>2, <1>3, StartReferenceMoves

\* The informer, a restart and a deletion by hand.
LEMMA OutsideOwn ==
  ASSUME TypeInv, IDsAreOwn,
         (\E r \in Refs : SyncRef(r) \/ AdminDeletesReference(r)) \/ Crash
  PROVE  IDsAreOwn'
  <1>1. ref \in [Refs -> ProjectReference] /\ refCache \in [Refs -> ProjectReference]
    BY DEF TypeInv, TypeOK
  <1>2. ASSUME NEW r \in Refs, SyncRef(r)
        PROVE  IDsAreOwn'
    <2>1. UNCHANGED <<ref, rw, issued>> /\ refCache' = [refCache EXCEPT ![r] = ref[r]]
      BY <1>2 DEF SyncRef, workers, cloud
    <2>2. \A s \in Refs : refCache'[s] = ref[s] \/ refCache'[s] = refCache[s]
      BY <1>1, <2>1
    <2>3. \A s \in Refs : refCache'[s].exists => OwnID(refCache'[s])
      BY <2>2 DEF IDsAreOwn
    <2> QED BY <2>1, <2>3 DEF IDsAreOwn
  <1>3. ASSUME NEW r \in Refs, AdminDeletesReference(r)
        PROVE  IDsAreOwn'
    <2>1. /\ UNCHANGED <<refCache, rw, issued>>
          /\ ref[r].exists /\ ref' = [ref EXCEPT ![r] = Deleted(@, NoRef)]
      BY <1>3 DEF AdminDeletesReference, caches, workers, cloud
    <2>2. ASSUME NEW s \in Refs, ref'[s].exists
          PROVE  ref[s].exists /\ ref'[s].owner = ref[s].owner /\ IDKept(s)
      BY <1>1, <2>1, <2>2, DeletedID DEF IDKept
    <2> QED BY <2>1, <2>2, OwnFrame
  <1>4. CASE Crash
    <2>1. UNCHANGED <<ref, issued>> /\ refCache' = ref /\ rw'.pc = "idle"
      BY <1>4 DEF Crash, IdleReferenceWorker, cloud
    <2> QED BY <2>1 DEF IDsAreOwn
  <1> QED BY <1>2, <1>3, <1>4

\* No other step of the manager or its environment issues an ID.
LEMMA OutsideIssued ==
  ASSUME Manager \/ Environment \/ UNCHANGED vars
  PROVE  UNCHANGED issued
  <1>1. CASE Manager
    BY <1>1 DEF Manager, StartClaim, SyncClaim, SyncSecret, StartReference, SyncRef, Resync, Crash,
                cloud
  <1>2. CASE Environment
    BY <1>2 DEF Environment, CreateClaim, DeleteClaim, EditClaim, SetRegion, SetCCSSecret,
                AdminDeletesProject, AdminDeletesReference, Stabilise, cloud
  <1>3. CASE UNCHANGED vars
    BY <1>3 DEF vars, cloud
  <1> QED BY <1>1, <1>2, <1>3

\* IDsAreOwn is inductive relative to ReferenceCopyInv.
LEMMA OwnInductive ==
  TypeInv /\ ReferenceCopyInv /\ IDsAreOwn /\ [Next]_vars => IDsAreOwn'
  <1> SUFFICES ASSUME TypeInv, ReferenceCopyInv, IDsAreOwn, [Next]_vars
               PROVE  IDsAreOwn'
    OBVIOUS
  <1>1. ASSUME UNCHANGED <<refObjs, refCache, rw, issued>>
        PROVE  IDsAreOwn'
    BY <1>1, OwnFrame DEF IDKept, refObjs
  <1>2. CASE ClaimStep
    BY <1>2, ClaimStepOwn
  <1>3. CASE ReferenceStep
    BY <1>3, ReferenceStepOwn
  <1>4. CASE Manager
    BY <1>1, <1>4, OutsideIssued, StartOwn, OutsideOwn, NoReferenceSteps, OtherSteps
       DEF Manager, workers
  <1>5. CASE Environment
    BY <1>1, <1>5, OutsideIssued, OutsideOwn, NoReferenceSteps, OtherSteps DEF Environment, workers
  <1>6. CASE UNCHANGED vars
    BY <1>1, <1>6, OutsideIssued, OtherSteps DEF workers
  <1> QED BY <1>2, <1>3, <1>4, <1>5, <1>6 DEF Next

-----------------------------------------------------------------------------
(* What a step of the ProjectReference controller does to the projects and *)
(* the Secrets.                                                            *)

\* A call on the project of the reference takes effect on an active project,
\* or the chain fails.
LEMMA ConfigureEffect ==
  ASSUME TypeInv, rw.pc # "idle", NEW p, NEW pc, Configure(p, pc)
  PROVE  /\ \A id \in ProjectIDs : id # rw.ref.projectID => project'[id] = project[id]
         /\ rw.ref.projectID \in ProjectIDs =>
              \/ /\ project[rw.ref.projectID].life = "ACTIVE"
                 /\ project'[rw.ref.projectID] = p /\ rw'.pc \in {pc, "Condition"}
              \/ /\ project'[rw.ref.projectID] = project[rw.ref.projectID]
                 /\ rw'.pc = "Condition"
  <1>1. RefFails => rw'.pc = "Condition"
    BY ReferenceParts DEF RefFails, RefFinish, ReferenceWorker
  <1>2. RefGoto(pc) => rw'.pc = pc
    BY ReferenceParts DEF RefGoto, ReferenceWorker
  <1> QED BY <1>1, <1>2, ReferenceParts DEF Configure

\* The reconcile of a reference touches no other project and no other Secret.
LEMMA OthersUntouched ==
  ASSUME TypeInv, ReferenceStep
  PROVE  /\ \A id \in ProjectIDs : id # rw.ref.projectID => project'[id] = project[id]
         /\ \A c \in Claims : c # rw.ref.owner => secret'[c] = secret[c]
  <1>1. /\ rw.pc # "idle" /\ project \in [ProjectIDs -> Project]
        /\ secret \in [Claims -> MaybeID]
    BY ReferenceStepMoves, ReferenceParts
  <1>2. CASE UNCHANGED <<project, secret>>
    BY <1>2
  <1>3. CASE ConfigureBillingAPI \/ ConfigureAPIS \/ SetIAMPolicy \/ SetConsoleAccess
             \/ DeleteServiceAccount \/ DeleteConsoleAccess
    BY <1>1, <1>3, ConfigureEffect DEF ConfigureBillingAPI, ConfigureAPIS, SetIAMPolicy,
         SetConsoleAccess, DeleteServiceAccount, DeleteConsoleAccess, secrets
  <1>4. CASE ConfigureServiceAccount \/ DeletePolicy
    BY <1>1, <1>4, ConfigureEffect DEF ConfigureServiceAccount, DeletePolicy, secrets
  <1>5. CASE DeleteProject \/ ProjectMissing
    BY <1>1, <1>5 DEF DeleteProject, ProjectMissing, secrets
  <1>6. CASE DeleteCredentials \/ CreateSecret
    BY <1>1, <1>6 DEF DeleteCredentials, CreateSecret, cloud
  <1>7. CASE ListProjectsFails \/ ProjectFound \/ CreateKey \/ EnsureClaimProjectIDSet
    BY <1>2, <1>7 DEF ListProjectsFails, ProjectFound, CreateKey, EnsureClaimProjectIDSet,
                      secrets, cloud
  <1> QED BY <1>2, <1>3, <1>4, <1>5, <1>6, <1>7, WritersEnd DEF ReferenceStep, secrets

\* A Secret comes only from CreateSecret, and the finalizer goes only when the
\* Secret is gone.
LEMMA SecretSteps ==
  ASSUME TypeInv, CleanupIsReliable, ReferenceStep
  PROVE  /\ \A c \in Claims : secret'[c] # Nil => secret[c] # Nil \/ rw.pc = "CreateSecret"
         /\ rw'.pc = "FinalizerDeleted" => secret'[rw.ref.owner] = Nil
  <1>1. /\ rw.pc # "idle" /\ secret \in [Claims -> MaybeID] /\ rw.ref.owner \in Claims
    BY ReferenceStepMoves, ReferenceParts
  <1>2. CASE rw.pc = "CreateSecret"
    <2>1. rw'.pc # "FinalizerDeleted"
      BY <1>2, ReferenceStepLeads DEF LeadsTo, AfterCredentials
    <2> QED BY <1>2, <2>1
  <1>3. CASE DeleteCredentials
    <2>1. RefFails => rw'.pc = "Condition"
      BY ReferenceParts DEF RefFails, RefFinish, ReferenceWorker
    <2>2. CanReadSecret(rw.ref.owner) /\ "secretLag" \notin Faults
      BY <1>3 DEF DeleteCredentials, CleanupIsReliable
    <2> QED BY <1>1, <1>3, <2>1, <2>2 DEF DeleteCredentials, CanReadSecret
  <1>4. CASE rw.pc \notin {"CreateSecret", "DeleteCredentials"}
    <2>1. UNCHANGED secret
      BY <1>4, WritersEnd
         DEF ReferenceStep, secrets, DeletePolicy, DeleteServiceAccount, DeleteProject,
             DeleteConsoleAccess, DeleteCredentials, ListProjectsFails, ProjectFound,
             ProjectMissing, ConfigureBillingAPI, ConfigureAPIS, ConfigureServiceAccount,
             SetIAMPolicy, CreateKey, CreateSecret, SetConsoleAccess, EnsureClaimProjectIDSet
    <2>2. rw'.pc # "FinalizerDeleted"
      BY <1>4, ReferenceStepLeads DEF LeadsTo, AfterCredentials, AfterServiceAccount
    <2> QED BY <2>1, <2>2
  <1>5. rw.pc = "DeleteCredentials" => DeleteCredentials
    BY DEF ReferenceStep, EnsureProjectReferenceInitialized,
           EnsureProjectReferenceStatusCreating, EnsureServiceAccountName,
           EnsureFinalizerAdded, EnsureStateReady, ProjectInactive, ClearProjectID,
           EnsureFinalizerDeleted, EnsureProjectID, HandleAvailabilityZonesError,
           EnsureClaimAvailabilityZonesSet, EnsureClaimProjectIDSet, EnsureProjectClaimReady,
           DeletePolicy, DeleteServiceAccount, DeleteProject, DeleteConsoleAccess,
           ListProjectsFails, ProjectFound, ProjectMissing,
           ConfigureBillingAPI, ConfigureAPIS, ConfigureServiceAccount, SetIAMPolicy,
           CreateKey, CreateSecret, SetConsoleAccess, FinishReference
  <1> QED BY <1>2, <1>3, <1>4, <1>5

\* What an edit of a project leaves of it.
LEMMA EditedProject ==
  ASSUME NEW p \in Project, NEW b \in BOOLEAN
  PROVE  /\ LET q == [p EXCEPT !.billing = b]
            IN  q.life = p.life /\ q.sa = p.sa /\ q.bound = p.bound /\ q.console = p.console
         /\ LET q == [p EXCEPT !.apis = b]
            IN  q.life = p.life /\ q.sa = p.sa /\ q.bound = p.bound /\ q.console = p.console
         /\ LET q == [p EXCEPT !.sa = b]
            IN  q.life = p.life /\ q.sa = b /\ q.bound = p.bound /\ q.console = p.console
         /\ LET q == [p EXCEPT !.bound = b]
            IN  q.life = p.life /\ q.sa = p.sa /\ q.bound = b /\ q.console = p.console
         /\ LET q == [p EXCEPT !.console = b]
            IN  q.life = p.life /\ q.sa = p.sa /\ q.bound = p.bound /\ q.console = b
  BY DEF Project

\* The steps in the customer's own project keep the order of the cleanup, and
\* only those that set it up add to it.
LEMMA OwnProjectSteps ==
  ASSUME TypeInv, CleanupIsReliable, ReferenceCopyInv, IDsAreOwn, ReferenceStep,
         rw.pc # "Condition", rw.ref.owner \in CCS, CleanedInOrder(rw.ref.owner)
  PROVE  LET p == project[CCSProject[rw.ref.owner]]
             q == project'[CCSProject[rw.ref.owner]]
         IN  /\ Touched(q) => q.life = "ACTIVE"
             /\ q.bound => q.sa
             /\ rw'.pc = "Policy" /\ q.life = "ACTIVE" => q.sa
             /\ rw'.pc = "DeleteServiceAccount" => ~q.bound
             /\ rw'.pc = "DeleteConsoleAccess" => ~q.sa /\ ~q.bound
             /\ rw'.pc \in {"DeleteCredentials", "FinalizerDeleted"} => ~Touched(q)
             /\ Touched(q) => Touched(p) \/ rw.pc \in SetUpSteps
  <1> DEFINE id == CCSProject[rw.ref.owner]
             p == project[id]
             q == project'[id]
  <1>1. /\ rw.pc # "idle" /\ id \in ProjectIDs /\ rw.ref.projectID = id /\ p \in Project
        /\ IsCCS(rw.ref) /\ rw.pc \notin {"CreateProject", "DeleteProject"}
        /\ "accountLate" \notin Faults
    <2>1. rw.pc # "idle" /\ project \in [ProjectIDs -> Project]
      BY ReferenceStepMoves, ReferenceParts
    <2>2. OwnID(rw.ref) /\ IsCCS(rw.ref)
      BY <2>1 DEF IDsAreOwn, IsCCS
    <2> QED BY <2>1, <2>2, CCSAssumption DEF OwnID, IDsAreOwn, CleanupIsReliable
  <1>2. /\ Touched(p) => p.life = "ACTIVE"
        /\ p.bound => p.sa
        /\ rw.pc = "Policy" /\ p.life = "ACTIVE" => p.sa
        /\ rw.pc = "DeleteServiceAccount" => ~p.bound
        /\ rw.pc = "DeleteConsoleAccess" => ~p.sa /\ ~p.bound
        /\ rw.pc \in {"DeleteCredentials", "FinalizerDeleted"} => ~Touched(p)
    BY <1>1 DEF CleanedInOrder
  <1>3. \A e, pc : Configure(e, pc) =>
          \/ p.life = "ACTIVE" /\ q = e /\ rw'.pc \in {pc, "Condition"}
          \/ q = p /\ rw'.pc = "Condition"
    BY <1>1, ConfigureEffect
  <1>4. rw'.pc \in {"idle", "Condition"} \/ LeadsTo(rw.pc, rw'.pc, rw.ref)
    BY ReferenceStepLeads
  <1>5. /\ AfterServiceAccount(rw.ref) = "DeleteConsoleAccess"
        /\ AfterCredentials(rw.ref) = "ConsoleAccess"
    BY <1>1 DEF AfterServiceAccount, AfterCredentials
  <1> DEFINE Goal == /\ Touched(q) => q.life = "ACTIVE"
                     /\ q.bound => q.sa
                     /\ rw'.pc = "Policy" /\ q.life = "ACTIVE" => q.sa
                     /\ rw'.pc = "DeleteServiceAccount" => ~q.bound
                     /\ rw'.pc = "DeleteConsoleAccess" => ~q.sa /\ ~q.bound
                     /\ rw'.pc \in {"DeleteCredentials", "FinalizerDeleted"} => ~Touched(q)
                     /\ Touched(q) => Touched(p) \/ rw.pc \in SetUpSteps
  <1>6. ASSUME q = p, rw'.pc \notin {"Policy", "DeleteServiceAccount", "DeleteConsoleAccess",
                                     "DeleteCredentials", "FinalizerDeleted"}
        PROVE  Goal
    BY <1>2, <1>6
  <1>7. CASE ConfigureBillingAPI \/ ConfigureAPIS
    <2> DEFINE e == [p EXCEPT !.billing = TRUE]
               f == [p EXCEPT !.apis = TRUE]
    <2>1. /\ e.life = p.life /\ e.sa = p.sa /\ e.bound = p.bound /\ e.console = p.console
          /\ f.life = p.life /\ f.sa = p.sa /\ f.bound = p.bound /\ f.console = p.console
      BY <1>1, EditedProject
    <2>2. Configure(e, "APIs") \/ Configure(f, "ServiceAccount")
      BY <1>1, <1>7 DEF ConfigureBillingAPI, ConfigureAPIS
    <2> HIDE DEF e, f
    <2>3. q \in {e, f, p} /\ rw'.pc \in {"APIs", "ServiceAccount", "Condition"}
      BY <1>3, <2>2
    <2> QED BY <1>2, <2>1, <2>3 DEF Touched
  <1>8. CASE ConfigureServiceAccount
    <2> DEFINE e == [p EXCEPT !.sa = TRUE]
    <2>1. e.life = p.life /\ e.sa /\ e.bound = p.bound /\ e.console = p.console
      BY <1>1, EditedProject
    <2>2. \/ Configure(e, "Policy")
          \/ UNCHANGED project /\ RefFinish("after", rw.ref)
      BY <1>1, <1>8 DEF ConfigureServiceAccount
    <2>3. RefFinish("after", rw.ref) => rw'.pc = "Condition"
      BY ReferenceParts DEF RefFinish, ReferenceWorker
    <2>4. rw.pc \in SetUpSteps
      BY <1>8 DEF ConfigureServiceAccount, SetUpSteps
    <2> HIDE DEF e
    <2>5. \/ p.life = "ACTIVE" /\ q = e /\ rw'.pc \in {"Policy", "Condition"}
          \/ q = p /\ rw'.pc = "Condition"
      BY <1>3, <2>2, <2>3
    <2> QED BY <1>2, <2>1, <2>4, <2>5 DEF Touched
  <1>9. CASE SetIAMPolicy
    <2> DEFINE e == [p EXCEPT !.bound = TRUE]
    <2>1. e.life = p.life /\ e.sa = p.sa /\ e.bound /\ e.console = p.console
      BY <1>1, EditedProject
    <2>2. Configure(e, "Credentials") /\ rw.pc = "Policy" /\ rw.pc \in SetUpSteps
      BY <1>1, <1>9 DEF SetIAMPolicy, SetUpSteps
    <2> HIDE DEF e
    <2>3. \/ p.life = "ACTIVE" /\ q = e /\ rw'.pc \in {"Credentials", "Condition"}
          \/ q = p /\ rw'.pc = "Condition"
      BY <1>3, <2>2
    <2> QED BY <1>2, <2>1, <2>2, <2>3 DEF Touched
  <1>10. CASE SetConsoleAccess
    <2> DEFINE e == [p EXCEPT !.console = TRUE]
    <2>1. e.life = p.life /\ e.sa = p.sa /\ e.bound = p.bound
      BY <1>1, EditedProject
    <2>2. Configure(e, "StateReady") /\ rw.pc \in SetUpSteps
      BY <1>1, <1>10 DEF SetConsoleAccess, SetUpSteps
    <2> HIDE DEF e
    <2>3. \/ p.life = "ACTIVE" /\ q = e /\ rw'.pc \in {"StateReady", "Condition"}
          \/ q = p /\ rw'.pc = "Condition"
      BY <1>3, <2>2
    <2> QED BY <1>2, <2>1, <2>2, <2>3 DEF Touched
  <1>11. CASE DeletePolicy
    <2> DEFINE e == [p EXCEPT !.bound = FALSE]
    <2>1. e.life = p.life /\ e.sa = p.sa /\ ~e.bound /\ e.console = p.console
      BY <1>1, EditedProject
    <2>2. /\ RefFails => rw'.pc = "Condition"
          /\ RefGoto("DeleteConsoleAccess") => rw'.pc = "DeleteConsoleAccess"
      BY ReferenceParts DEF RefFails, RefFinish, RefGoto, ReferenceWorker
    <2>3. ~HasServiceAccount(rw.ref) => ~p.sa /\ ~p.bound
      BY <1>1, <1>2, NilAssumption DEF HasServiceAccount, Touched
    <2>4. \/ ~HasServiceAccount(rw.ref) /\ RefGoto("DeleteConsoleAccess") /\ UNCHANGED project
          \/ Configure(e, "DeleteServiceAccount")
          \/ RefFails /\ UNCHANGED project
      BY <1>1, <1>5, <1>11 DEF DeletePolicy, Faulty
    <2> HIDE DEF e
    <2>5. \/ ~p.sa /\ ~p.bound /\ q = p /\ rw'.pc = "DeleteConsoleAccess"
          \/ p.life = "ACTIVE" /\ q = e /\ rw'.pc \in {"DeleteServiceAccount", "Condition"}
          \/ q = p /\ rw'.pc = "Condition"
      BY <1>3, <2>2, <2>3, <2>4
    <2> QED BY <1>2, <2>1, <2>5 DEF Touched
  <1>12. CASE DeleteServiceAccount
    <2> DEFINE e == [p EXCEPT !.sa = FALSE]
    <2>1. e.life = p.life /\ ~e.sa /\ e.bound = p.bound /\ e.console = p.console
      BY <1>1, EditedProject
    <2>2. Configure(e, "DeleteConsoleAccess") /\ rw.pc = "DeleteServiceAccount"
      BY <1>1, <1>5, <1>12 DEF DeleteServiceAccount
    <2> HIDE DEF e
    <2>3. \/ p.life = "ACTIVE" /\ q = e /\ rw'.pc \in {"DeleteConsoleAccess", "Condition"}
          \/ q = p /\ rw'.pc = "Condition"
      BY <1>3, <2>2
    <2> QED BY <1>2, <2>1, <2>2, <2>3 DEF Touched
  <1>13. CASE DeleteConsoleAccess
    <2> DEFINE e == [p EXCEPT !.console = FALSE]
    <2>1. e.life = p.life /\ e.sa = p.sa /\ e.bound = p.bound /\ ~e.console
      BY <1>1, EditedProject
    <2>2. Configure(e, "DeleteCredentials") /\ rw.pc = "DeleteConsoleAccess"
      BY <1>1, <1>13 DEF DeleteConsoleAccess
    <2> HIDE DEF e
    <2>3. \/ p.life = "ACTIVE" /\ q = e /\ rw'.pc \in {"DeleteCredentials", "Condition"}
          \/ q = p /\ rw'.pc = "Condition"
      BY <1>3, <2>2
    <2> QED BY <1>2, <2>1, <2>2, <2>3 DEF Touched
  <1>14. CASE DeleteCredentials
    <2>1. q = p /\ rw.pc = "DeleteCredentials"
      BY <1>14 DEF DeleteCredentials, cloud
    <2>2. rw'.pc \in {"idle", "Condition", "FinalizerDeleted"}
      BY <1>4, <2>1 DEF LeadsTo
    <2> QED BY <1>2, <2>1, <2>2
  <1>15. CASE CreateKey \/ CreateSecret \/ EnsureClaimProjectIDSet
    <2>1. q = p /\ rw.pc \in {"Credentials", "CreateSecret", "ClaimProjectID"}
      BY <1>15 DEF CreateKey, CreateSecret, EnsureClaimProjectIDSet, cloud
    <2>2. rw'.pc \in {"idle", "Condition", "CreateSecret", "ConsoleAccess", "ClaimReady"}
      BY <1>4, <1>5, <2>1 DEF LeadsTo
    <2> QED BY <1>6, <2>1, <2>2
  <1>16. CASE rw'.pc \in {"idle", "Condition"} /\ UNCHANGED project
    BY <1>6, <1>16
  <1>17. ~(ListProjectsFails \/ ProjectFound \/ ProjectMissing \/ DeleteProject)
    BY <1>1 DEF ListProjectsFails, ProjectFound, ProjectMissing, DeleteProject
  <1>18. Goal
    BY <1>7, <1>8, <1>9, <1>10, <1>11, <1>12, <1>13, <1>14, <1>15, <1>16, <1>17, WritersEnd
       DEF ReferenceStep
  <1> QED BY <1>18

-----------------------------------------------------------------------------
(* What there is to clean up is under the finalizer.                       *)

\* The initial state.
LEMMA InitCleanup == Init => CleanupInv
  <1> SUFFICES ASSUME Init PROVE CleanupInv OBVIOUS
  <1>1. rw.pc = "idle" /\ \A c \in Claims : secret[c] = Nil
    BY DEF Init, IdleReferenceWorker
  <1>2. \A id \in ProjectIDs : ~Touched(project[id])
    BY DEF Init, NoProject, Touched
  <1>3. \A c \in CCS : c \in Claims /\ CCSProject[c] \in ProjectIDs
    BY CCSAssumption
  <1>4. \A c \in CCS : CleanedInOrder(c)
    BY <1>1, <1>2, <1>3 DEF CleanedInOrder, Touched
  <1> QED BY <1>1, <1>2, <1>3, <1>4, InitUnderFinalizer, InitIDs DEF CleanupInv, CleanupPending

\* Only EnsureFinalizerDeleted takes the finalizer away.
LEMMA FinalizerLost ==
  ASSUME TypeInv, ReferenceCopyInv, ReferenceStep, NEW r \in Refs, Kept(r)
  PROVE  (Kept(r))' \/ (r = rw.key /\ rw.pc = "FinalizerDeleted")
  BY ReferenceStepRefs DEF RefKept, RefWritten, SameRef, Kept

\* The reference controller keeps CleanupInv.
LEMMA ReferenceStepCleanup ==
  ASSUME TypeInv, ReferenceCopyInv, CleanupIsReliable, NamesAreDistinct, ProjectsAreDistinct,
         CleanupInv, ReferenceStep
  PROVE  /\ \A c \in CCS : (CleanedInOrder(c))'
         /\ rw'.pc = "FinalizerDeleted" => secret'[rw'.ref.owner] = Nil
         /\ \A c \in Claims : (CleanupPending(c))'
  <1> DEFINE own == rw.ref.owner
  <1>1. /\ rw.pc # "idle" /\ rw.key \in Refs /\ own \in Claims /\ rw.key = RefName(own)
        /\ \A c \in Claims : RefName(c) \in Refs
        /\ \A c \in Claims : RefName(c) = rw.key => c = own
    BY ReferenceStepMoves, ReferenceParts
       DEF ReferenceCopyInv, NamedAfterOwner, NamesAreDistinct, Refs
  <1>2. rw'.pc # "idle" => rw'.ref.owner = own
    BY ReferenceStepMoves DEF RefWorkerMoves, FinishReference, IdleReferenceWorker
  <1>3. UnderFinalizer /\ IDsAreOwn /\ UnderFinalizer'
    BY UnderFinalizerInductive DEF CleanupInv, Next
  <1>4. \A c \in CCS : c \in Claims /\ CCSProject[c] \in ProjectIDs /\ CleanedInOrder(c)
    BY CCSAssumption DEF CleanupInv
  <1>5. ASSUME NEW c \in CCS, c # own \/ rw.pc = "Condition"
        PROVE  project'[CCSProject[c]] = project[CCSProject[c]]
    <2>1. CASE rw.pc = "Condition"
      BY <2>1, ConditionFinishes DEF FinishReference, cloud
    <2>2. CASE rw.pc # "Condition" /\ c # own
      <3>1. rw.ref.projectID # CCSProject[c]
        <4>1. OwnID(rw.ref)
          BY <1>1, <1>3, <2>2 DEF IDsAreOwn
        <4>2. CCSProject[c] \in CCSProjectIDs
          BY DEF CCSProjectIDs
        <4> QED BY <2>2, <4>1, <4>2 DEF OwnID, IsCCS, ProjectsAreDistinct
      <3> QED BY <1>4, <3>1, OthersUntouched
    <2> QED BY <1>5, <2>1, <2>2
  <1>6. ASSUME NEW c \in CCS
        PROVE  /\ (CleanedInOrder(c))'
               /\ Touched(project'[CCSProject[c]]) =>
                    \/ Touched(project[CCSProject[c]])
                    \/ c = own /\ rw.pc \in SetUpSteps
    <2>1. CASE c # own
      <3>1. project'[CCSProject[c]] = project[CCSProject[c]]
        BY <1>5, <2>1
      <3>2. rw'.pc # "idle" => rw'.ref.owner # c
        BY <1>2, <2>1
      <3> QED BY <1>4, <3>1, <3>2 DEF CleanedInOrder, Touched
    <2>2. CASE rw.pc = "Condition"
      <3>1. project'[CCSProject[c]] = project[CCSProject[c]]
        BY <1>5, <2>2
      <3>2. rw'.pc = "idle"
        BY <2>2, ConditionFinishes DEF FinishReference, IdleReferenceWorker
      <3> QED BY <1>4, <3>1, <3>2 DEF CleanedInOrder, Touched
    <2>3. CASE c = own /\ rw.pc # "Condition"
      <3>1. own \in CCS /\ CleanedInOrder(own)
        BY <1>4, <2>3
      <3> HIDE DEF own
      <3>2. LET p == project[CCSProject[own]]
                q == project'[CCSProject[own]]
            IN  /\ Touched(q) => q.life = "ACTIVE"
                /\ q.bound => q.sa
                /\ rw'.pc = "Policy" /\ q.life = "ACTIVE" => q.sa
                /\ rw'.pc = "DeleteServiceAccount" => ~q.bound
                /\ rw'.pc = "DeleteConsoleAccess" => ~q.sa /\ ~q.bound
                /\ rw'.pc \in {"DeleteCredentials", "FinalizerDeleted"} => ~Touched(q)
                /\ Touched(q) => Touched(p) \/ rw.pc \in SetUpSteps
        BY <1>3, <2>3, <3>1, OwnProjectSteps DEF own
      <3> QED BY <2>3, <3>2 DEF CleanedInOrder, Touched
    <2> QED BY <2>1, <2>2, <2>3
  <1>7. rw'.pc = "FinalizerDeleted" => secret'[rw'.ref.owner] = Nil
    BY <1>2, SecretSteps
  <1>8. ASSUME NEW c \in Claims
        PROVE  (CleanupPending(c))'
    <2>1. CASE c = own /\ rw.pc \in SetUpSteps
      <3>1. Kept(RefName(c))
        BY <1>1, <1>3, <2>1 DEF UnderFinalizer
      <3>2. (Kept(RefName(c)))'
        BY <1>1, <2>1, <3>1, FinalizerLost DEF SetUpSteps
      <3> QED BY <3>2 DEF CleanupPending, Kept
    <2>2. CASE ~(c = own /\ rw.pc \in SetUpSteps)
      <3>1. secret'[c] # Nil => secret[c] # Nil
        BY <1>1, <2>2, SecretSteps, OthersUntouched DEF SetUpSteps
      <3>2. c \in CCS /\ Touched(project'[CCSProject[c]]) => Touched(project[CCSProject[c]])
        BY <1>6, <2>2
      <3>3. CASE RefName(c) = rw.key /\ rw.pc = "FinalizerDeleted"
        <4>1. secret[c] = Nil /\ c = own
          BY <1>1, <3>3 DEF CleanupInv
        <4>2. c \in CCS => ~Touched(project[CCSProject[c]])
          BY <1>1, <1>4, <3>3, <4>1 DEF CleanedInOrder
        <4> QED BY <3>1, <3>2, <4>1, <4>2 DEF CleanupPending, Touched
      <3>4. CASE ~(RefName(c) = rw.key /\ rw.pc = "FinalizerDeleted")
        <4>1. CleanupPending(c)
          BY DEF CleanupInv
        <4>2. Kept(RefName(c)) => (Kept(RefName(c)))'
          BY <1>1, <3>4, FinalizerLost
        <4> QED BY <3>1, <3>2, <4>1, <4>2 DEF CleanupPending, Touched, Kept
      <3> QED BY <3>3, <3>4
    <2> QED BY <2>1, <2>2
  <1> QED BY <1>6, <1>7, <1>8

\* The other steps add nothing, take no finalizer away and leave the worker,
\* or stop or start it.
CleanupHolds ==
  /\ secret' = secret
  /\ \A id \in ProjectIDs :
       \/ project'[id] = project[id]
       \/ ~Touched(project'[id]) /\ project'[id].life # "ACTIVE"
  /\ \A r \in Refs : Kept(r) => (Kept(r))'
  /\ \/ rw' = rw
     \/ rw'.pc \notin {"Policy", "DeleteServiceAccount", "DeleteConsoleAccess",
                       "DeleteCredentials", "FinalizerDeleted"}

\* A step that makes nothing keeps what is said about leftovers.
LEMMA CleanupFrame ==
  ASSUME TypeInv, CleanupInv, CleanupHolds
  PROVE  /\ \A c \in CCS : (CleanedInOrder(c))'
         /\ rw'.pc = "FinalizerDeleted" => secret'[rw'.ref.owner] = Nil
         /\ \A c \in Claims : (CleanupPending(c))'
  <1>1. \A c \in CCS : c \in Claims /\ CCSProject[c] \in ProjectIDs
    BY CCSAssumption
  <1>2. \A c \in Claims : RefName(c) \in Refs
    BY DEF Refs
  <1>3. ASSUME NEW c \in CCS
        PROVE  (CleanedInOrder(c))' /\ (Touched(project'[CCSProject[c]]) =>
                                          Touched(project[CCSProject[c]]))
    <2>1. CleanedInOrder(c) /\ CCSProject[c] \in ProjectIDs
      BY <1>1 DEF CleanupInv
    <2>2. CASE project'[CCSProject[c]] = project[CCSProject[c]]
      BY <2>1, <2>2 DEF CleanedInOrder, CleanupHolds, Touched
    <2>3. CASE ~Touched(project'[CCSProject[c]]) /\ project'[CCSProject[c]].life # "ACTIVE"
      BY <2>3 DEF CleanedInOrder, Touched
    <2> QED BY <2>1, <2>2, <2>3 DEF CleanupHolds
  <1>4. rw'.pc = "FinalizerDeleted" => secret'[rw'.ref.owner] = Nil
    BY DEF CleanupInv, CleanupHolds
  <1>5. ASSUME NEW c \in Claims
        PROVE  (CleanupPending(c))'
    <2>1. CleanupPending(c) /\ (Kept(RefName(c)) => (Kept(RefName(c)))') /\ secret' = secret
      BY <1>2 DEF CleanupInv, CleanupHolds
    <2> QED BY <1>3, <2>1 DEF CleanupPending, Kept, Touched
  <1> QED BY <1>3, <1>4, <1>5

\* Every other step is one of those.
LEMMA OtherStepsHold ==
  ASSUME TypeInv, ReferenceCopyInv, ClaimStep \/ Manager \/ Environment \/ UNCHANGED vars
  PROVE  CleanupHolds
  <1>1. /\ project \in [ProjectIDs -> Project] /\ ref \in [Refs -> ProjectReference]
        /\ refCur \in [Refs -> RefHolders]
    BY ReferenceParts
  <1>2. CASE UNCHANGED <<secret, project, ref, rw>>
    BY <1>2 DEF CleanupHolds, Kept
  <1>3. CASE ClaimStep
    <2>1. cw.pc # "idle" /\ RefName(cw.key) \in Refs
      BY <1>3, ClaimStepBusy, ClaimObjects DEF Refs
    <2>2. rw' = rw
      BY <1>3, <2>1, ClaimStepRefs
    <2>3. UNCHANGED <<secret, project>>
      BY <1>3 DEF ClaimStep, FinalizeReference, FinalizeWithoutReference,
           EnsureCCSSecretFinalizerDeleted, EnsureProjectClaimFinalizerDeleted,
           EnsureProjectClaimValidated, EnsureProjectClaimInitialized, EnsureRegionSupported,
           EnsureProjectClaimStatePending, EnsureProjectReferenceExists,
           EnsureProjectReferenceLink, EnsureFinalizer, EnsureCCSSecretFinalizer,
           EnsureProjectClaimStatePendingProject, FinishClaim, cloud, secrets
    <2>4. \A r \in Refs : Kept(r) => (Kept(r))'
      BY <1>3, <2>1, ClaimStepRefs, HoldsCases DEF RefDeletedByClaim, RefHolds
    <2> QED BY <2>2, <2>3, <2>4 DEF CleanupHolds
  <1>4. ASSUME NEW r \in Refs, StartReference(r)
        PROVE  CleanupHolds
    <2>1. UNCHANGED <<secret, project, ref>>
      BY <1>4 DEF StartReference, secrets, cloud
    <2>2. CASE UNCHANGED rw
      BY <1>2, <2>1, <2>2
    <2>3. CASE RefWorkerStarts(r)
      <3>1. \E o, cl : rw'.pc = FirstOperation(o, cl)
        BY <2>3 DEF RefWorkerStarts
      <3>2. rw'.pc \notin {"Policy", "DeleteServiceAccount", "DeleteConsoleAccess",
                           "DeleteCredentials", "FinalizerDeleted"}
        BY <3>1, FirstOperationKind DEF DeletionSteps, SetUpSteps, AfterFinalizerAdded
      <3> QED BY <2>1, <3>2 DEF CleanupHolds, Kept
    <2> QED BY <1>4, <2>2, <2>3, StartReferenceMoves
  <1>5. CASE Crash
    <2>1. UNCHANGED <<secret, project, ref>> /\ rw'.pc = "idle"
      BY <1>5 DEF Crash, IdleReferenceWorker, secrets, cloud
    <2> QED BY <2>1 DEF CleanupHolds, Kept
  <1>6. ASSUME NEW id \in ProjectIDs, AdminDeletesProject(id)
        PROVE  CleanupHolds
    <2> DEFINE gone == [NoProject EXCEPT !.life = "DELETE_REQUESTED"]
    <2>1. UNCHANGED <<secret, ref, rw>> /\ project' = [project EXCEPT ![id] = gone]
      BY <1>6 DEF AdminDeletesProject, secrets, refObjs, workers
    <2>2. ~Touched(gone) /\ gone.life # "ACTIVE"
      BY DEF Touched, NoProject
    <2> HIDE DEF gone
    <2> QED BY <1>1, <2>1, <2>2 DEF CleanupHolds, Kept
  <1>7. ASSUME NEW r \in Refs, AdminDeletesReference(r)
        PROVE  CleanupHolds
    <2>1. /\ UNCHANGED <<secret, project, rw>>
          /\ ref[r].exists /\ ref' = [ref EXCEPT ![r] = Deleted(@, NoRef)]
          /\ refCur' = [refCur EXCEPT ![r] = {}]
      BY <1>7 DEF AdminDeletesReference, secrets, cloud, workers
    <2>2. \A s \in Refs : RefKept(s) \/ RefDeleted(s)
      BY <1>1, <2>1 DEF RefKept, RefDeleted
    <2> QED BY <2>1, <2>2, HoldsCases DEF CleanupHolds, RefHolds
  <1>8. CASE \/ \E c \in Claims : StartClaim(c) \/ SyncClaim(c) \/ SyncSecret(c)
             \/ \E r \in Refs : SyncRef(r)
             \/ Resync
    <2>1. UNCHANGED <<secret, project, ref, rw>>
      BY <1>8 DEF StartClaim, SyncClaim, SyncSecret, SyncRef, Resync, secrets, cloud, refObjs,
                  workers
    <2> QED BY <1>2, <2>1
  <1>9. CASE \/ \E c \in Claims : CreateClaim(c) \/ DeleteClaim(c) \/ EditClaim(c) \/ SetRegion(c)
                                  \/ SetCCSSecret(c)
             \/ Stabilise
    <2>1. UNCHANGED <<secret, project, ref, rw>>
      BY <1>9 DEF CreateClaim, DeleteClaim, EditClaim, SetRegion, SetCCSSecret, Stabilise,
                  secrets, cloud, refObjs, workers
    <2> QED BY <1>2, <2>1
  <1>10. CASE UNCHANGED vars
    BY <1>2, <1>10 DEF vars, secrets, cloud, refObjs, workers
  <1> QED BY <1>3, <1>4, <1>5, <1>6, <1>7, <1>8, <1>9, <1>10 DEF Manager, Environment

\* CleanupInv is inductive relative to ReferenceCopyInv.
LEMMA CleanupInductive ==
  ASSUME NamesAreDistinct, ProjectsAreDistinct, CleanupIsReliable
  PROVE  TypeInv /\ ReferenceCopyInv /\ CleanupInv /\ [Next]_vars => CleanupInv'
  <1> SUFFICES ASSUME TypeInv, ReferenceCopyInv, CleanupInv, [Next]_vars
               PROVE  CleanupInv'
    OBVIOUS
  <1>1. UnderFinalizer' /\ IDsAreOwn'
    BY UnderFinalizerInductive, OwnInductive DEF CleanupInv
  <1>2. /\ \A c \in CCS : (CleanedInOrder(c))'
        /\ rw'.pc = "FinalizerDeleted" => secret'[rw'.ref.owner] = Nil
        /\ \A c \in Claims : (CleanupPending(c))'
    <2>1. CASE ReferenceStep
      BY <2>1, ReferenceStepCleanup
    <2>2. CASE ClaimStep \/ Manager \/ Environment \/ UNCHANGED vars
      BY <2>2, OtherStepsHold, CleanupFrame
    <2> QED BY <2>1, <2>2 DEF Next
  <1> QED BY <1>1, <1>2 DEF CleanupInv

\* In every reachable state: whatever the operator has made for a claim, its
\* reference is there and holds the finalizer until it has been cleaned up.
THEOREM CleanupIsPending ==
  ASSUME NamesAreDistinct, ProjectsAreDistinct, CleanupIsReliable
  PROVE  Spec => []CleanupInv
  <1>1. CleanupInv /\ TypeInv /\ ReferenceCopyInv /\ [Next]_vars => CleanupInv'
    BY CleanupInductive
  <1> QED BY <1>1, InitTypeInv, TypeInvInductive, InitReferenceCopy, ReferenceCopyInductive,
             InitCleanup, PTL DEF Spec

\* Once a claim is gone, so are its Secret and, in a customer's project, the
\* service account and the roles: EnsureProjectCleanedUp comes before
\* EnsureFinalizerDeleted, and FinalizeProjectClaim waits for the reference.
\* The assumptions exclude what the code does not guard against: two claims
\* with one reference name or one project, references deleted by hand while
\* the caches are behind, a cache that does not show the Secret, and a service
\* account in a customer's project that is not found.
THEOREM NothingIsLeftBehind ==
  ASSUME NamesAreDistinct, ProjectsAreDistinct, DeletionsAreSeen, CleanupIsReliable
  PROVE  Spec => []NothingLeftBehind
  <1>1. TypeInv /\ ReferenceCopyInv /\ CleanupInv /\ FinalizedReferenceHasClaim =>
          NothingLeftBehind
    <2> SUFFICES ASSUME TypeInv, ReferenceCopyInv, CleanupInv, FinalizedReferenceHasClaim,
                        NEW c \in Claims, ~claim[c].exists
                 PROVE  /\ secret[c] = Nil
                        /\ c \in CCS => ~Touched(project[CCSProject[c]])
      BY DEF NothingLeftBehind, Touched
    <2>1. RefName(c) \in Refs
      BY DEF Refs
    <2>2. ref[RefName(c)].exists => ref[RefName(c)].owner = c
      BY <2>1 DEF TypeInv, KeysOK, ReferenceCopyInv, NamedAfterOwner, NamesAreDistinct
    <2>3. ~Kept(RefName(c))
      BY <2>1, <2>2 DEF Kept, FinalizedReferenceHasClaim
    <2> QED BY <2>3 DEF CleanupInv, CleanupPending
  <1>2. Spec => []TypeInv
    BY KeysCorrect
  <1>3. Spec => []ReferenceCopyInv
    BY ReferenceCopies
  <1>4. Spec => []CleanupInv
    BY CleanupIsPending
  <1>5. Spec => []FinalizedReferenceHasClaim
    BY FinalizedReferencesHaveClaims
  <1> QED BY <1>1, <1>2, <1>3, <1>4, <1>5, PTL

-----------------------------------------------------------------------------
(* The customer's Secret.                                                  *)

\* What DeletionSeen says of a claim whose reference is gone, or whose Secret
\* is about to lose the finalizer.
LEMMA OverFacts ==
  ASSUME TypeInv, ClaimCopyInv, "refDeleted" \notin Faults, NEW c \in Claims, PairInv(c)
  PROVE  /\ Over(c) /\ claim[c].finalizer => claim[c].deleting
         /\ Over(c) /\ BusyWith(c) => cw.obj.deleting
         /\ BusyWith(c) /\ cw.pc = "CCSSecretFinalizerDeleted" => ~ref[RefName(c)].exists
         /\ /\ BusyWith(c) /\ cw.pc = "CCSSecretFinalizerDeleted"
            /\ claim[c].state = "PendingProject" \/ claimCache[c].state = "PendingProject"
            => Over(c)
  <1> DEFINE r == RefName(c)
  <1>1. /\ claim[c].deleting => claim[c].finalizer
        /\ claim[c].finalizer \/ claim[c].link => claim[c].exists
        /\ BusyWith(c) /\ cw.pc = "CCSSecretFinalizerDeleted" => cw.obj.deleting
    BY CopyFacts DEF DeletingClaimSteps
  <1>2. /\ claim[c].state = "PendingProject" => claim[c].finalizer
        /\ claimCache[c].state = "PendingProject" => claimCache[c].finalizer
    BY DEF ClaimCopyInv, StatesMatch
  <1>3. DeletionSeen(c)
    BY DEF PairInv
  <1>4. claim[c].finalizer => Engaged(claim[c])
    BY <1>1 DEF Engaged
  <1>5. /\ ~ref[r].exists /\ Engaged(claim[c]) => Going(c)
        /\ claimCache[c].deleting => claim[c].deleting \/ Past(c)
        /\ BusyWith(c) /\ cw.obj.deleting =>
             (claim[c].deleting /\ claimCache[c].deleting) \/ Past(c)
        /\ claimCache[c].finalizer /\ ~claimCache[c].deleting => claim[c].finalizer
    BY <1>3 DEF DeletionSeen
  <1>6. /\ Past(c) => ~Engaged(claim[c]) /\ (BusyWith(c) => cw.obj.deleting)
        /\ Going(c) => (BusyWith(c) => cw.obj.deleting)
    BY DEF Past, Going
  <1>7. BusyWith(c) /\ cw.pc = "CCSSecretFinalizerDeleted" => ~ref[r].exists
    BY DEF PairInv
  <1> HIDE DEF r
  <1>8. Over(c) /\ claim[c].finalizer => claim[c].deleting
    BY <1>4, <1>5, <1>6 DEF Over
  <1>9. Over(c) /\ BusyWith(c) => cw.obj.deleting
    BY <1>1, <1>4, <1>5, <1>6 DEF Over, r
  <1>10. /\ BusyWith(c) /\ cw.pc = "CCSSecretFinalizerDeleted"
         /\ claim[c].state = "PendingProject" \/ claimCache[c].state = "PendingProject"
         => Over(c)
    BY <1>1, <1>2, <1>4, <1>5, <1>6, <1>7 DEF Over, r
  <1> QED BY <1>7, <1>8, <1>9, <1>10 DEF r

\* The steps of the claim controller that matter to the customer's Secret.
LEMMA ClaimStepSecrets ==
  ASSUME TypeInv, ClaimStep
  PROVE  /\ \A c \in CCS : Held(c) =>
              (Held(c))' \/ (c = cw.key /\ cw.pc = "CCSSecretFinalizerDeleted")
         /\ \A c \in CCS : cw'.pc = "StatePendingProject" /\ c = cw.key => (Held(c))'
  <1>1. /\ cw \in ClaimWorker /\ cw.key \in Claims /\ ccsSecret \in [Claims -> CCSSecret]
        /\ \A c \in CCS : c \in Claims
    BY ClaimStepBusy, ClaimParts, CCSAssumption
  <1>2. ASSUME NEW out, NEW o, ClaimFinish(out, o)
        PROVE  cw'.pc = "Condition"
    BY <1>1, <1>2 DEF ClaimFinish, ClaimWorker
  <1>3. ASSUME NEW pc, NEW o, ClaimGoto(pc, o)
        PROVE  cw'.pc = pc
    BY <1>1, <1>3 DEF ClaimGoto, ClaimWorker
  <1>4. CASE EnsureCCSSecretFinalizer
    <2>1. \/ UNCHANGED ccsSecret
          \/ /\ ccsSecret[cw.key].exists
             /\ ccsSecret' = [ccsSecret EXCEPT ![cw.key].finalizer = TRUE]
      BY <1>4 DEF EnsureCCSSecretFinalizer
    <2>2. \A c \in CCS : Held(c) => (Held(c))'
      BY <1>1, <2>1 DEF Held, CCSSecret
    <2>3. cw'.pc # "Condition" =>
            /\ ccsSecret[cw.key].exists
            /\ ccsSecret' = [ccsSecret EXCEPT ![cw.key].finalizer = TRUE]
      BY <1>2, <1>4 DEF EnsureCCSSecretFinalizer
    <2>4. \A c \in CCS : cw'.pc = "StatePendingProject" /\ c = cw.key => (Held(c))'
      BY <1>1, <2>3 DEF Held, CCSSecret
    <2> QED BY <2>2, <2>4
  <1>5. CASE EnsureCCSSecretFinalizerDeleted
    <2>1. /\ cw.pc = "CCSSecretFinalizerDeleted"
          /\ \A c \in Claims : c # cw.key => ccsSecret'[c] = ccsSecret[c]
      BY <1>1, <1>5 DEF EnsureCCSSecretFinalizerDeleted
    <2>2. cw'.pc \in {"ClaimFinalizerDeleted", "Condition"}
      BY <1>2, <1>3, <1>5 DEF EnsureCCSSecretFinalizerDeleted
    <2> QED BY <1>1, <2>1, <2>2 DEF Held
  <1>6. CASE EnsureProjectReferenceExists
    <2>1. UNCHANGED ccsSecret
      BY <1>6 DEF EnsureProjectReferenceExists, secrets
    <2>2. \/ cw'.pc = "Condition"
          \/ cw'.pc = AfterReferenceExists(cw.key, cw.obj)
      BY <1>2, <1>3, <1>6 DEF EnsureProjectReferenceExists
    <2>3. cw.key \in CCS => AfterReferenceExists(cw.key, cw.obj) # "StatePendingProject"
      BY DEF AfterReferenceExists
    <2> QED BY <2>1, <2>2, <2>3 DEF Held
  <1>7. CASE EnsureRegionSupported
    <2>1. UNCHANGED ccsSecret
      BY <1>7 DEF EnsureRegionSupported, secrets
    <2>2. cw'.pc \in {"Condition", "StatePending", "ReferenceExists"}
      BY <1>2, <1>3, <1>7 DEF EnsureRegionSupported, SaveClaimStatus
    <2> QED BY <2>1, <2>2 DEF Held
  <1>8. CASE FinalizeWithoutReference
    <2>1. cw'.pc \in {"CCSSecretFinalizerDeleted", "ClaimFinalizerDeleted"}
      BY <1>3, <1>8 DEF FinalizeWithoutReference
    <2> QED BY <1>8, <2>1 DEF FinalizeWithoutReference, secrets, Held
  <1>9. CASE FinishClaim
    BY <1>9 DEF FinishClaim, IdleClaimWorker, secrets, Held
  <1>10. CASE \/ FinalizeReference \/ EnsureProjectClaimFinalizerDeleted
              \/ EnsureProjectClaimValidated \/ EnsureProjectClaimInitialized
              \/ EnsureProjectClaimStatePending \/ EnsureProjectReferenceLink
              \/ EnsureFinalizer \/ EnsureProjectClaimStatePendingProject
    <2>1. UNCHANGED ccsSecret /\ \E out, o : ClaimFinish(out, o)
      BY <1>10 DEF FinalizeReference, EnsureProjectClaimFinalizerDeleted,
         EnsureProjectClaimValidated, EnsureProjectClaimInitialized,
         EnsureProjectClaimStatePending, EnsureProjectReferenceLink,
         EnsureFinalizer, EnsureProjectClaimStatePendingProject, SaveClaim, SaveClaimStatus,
         secrets
    <2> QED BY <1>2, <2>1 DEF Held
  <1> QED BY <1>4, <1>5, <1>6, <1>7, <1>8, <1>9, <1>10 DEF ClaimStep

\* A copy gets the state PendingProject only in the operation of that name.
LEMMA PendingProjectSet ==
  ASSUME TypeInv, ClaimCopyInv, ClaimStep, cw'.pc = "Condition",
         cw'.obj.state = "PendingProject"
  PROVE  \/ cw.pc = "StatePendingProject"
         \/ cw.obj.state = "PendingProject"
         \/ claim[cw.key].state = "PendingProject"
  <1>1. cw \in ClaimWorker /\ cw.key \in Claims /\ cw.obj \in ProjectClaim
    BY ClaimStepBusy, ClaimParts
  <1>2. ASSUME NEW out, NEW o, ClaimFinish(out, o)
        PROVE  cw'.obj = o
    BY <1>1, <1>2 DEF ClaimFinish, ClaimWorker
  <1>3. ASSUME NEW pc, NEW o, ClaimGoto(pc, o)
        PROVE  cw'.obj = o /\ cw'.pc = pc
    BY <1>1, <1>3 DEF ClaimGoto, ClaimWorker
  <1>4. ASSUME NEW o, NEW t, SaveClaimStatus(o, t)
        PROVE  cw'.obj = o
    BY <1>2, <1>4 DEF SaveClaimStatus
  <1>5. CASE \/ FinalizeReference \/ FinalizeWithoutReference \/ EnsureCCSSecretFinalizerDeleted
             \/ EnsureProjectReferenceExists \/ EnsureCCSSecretFinalizer
    <2>1. (\E out : ClaimFinish(out, cw.obj)) \/ (\E pc : ClaimGoto(pc, cw.obj))
      BY <1>5 DEF FinalizeReference, FinalizeWithoutReference, EnsureCCSSecretFinalizerDeleted,
                  EnsureProjectReferenceExists, EnsureCCSSecretFinalizer
    <2> QED BY <1>2, <1>3, <2>1
  <1>6. CASE EnsureProjectClaimFinalizerDeleted
    <2>1. [cw.obj EXCEPT !.finalizer = FALSE].state = cw.obj.state
      BY <1>1 DEF ProjectClaim
    <2> QED BY <1>2, <1>6, <2>1 DEF EnsureProjectClaimFinalizerDeleted
  <1>7. CASE \/ EnsureProjectClaimValidated \/ EnsureProjectClaimInitialized
             \/ EnsureProjectClaimStatePending
    <2>1. /\ [cw.obj EXCEPT !.state = "Error"].state = "Error"
          /\ [cw.obj EXCEPT !.state = "Pending"].state = "Pending"
          /\ [cw.obj EXCEPT !.inited = TRUE].state = cw.obj.state
      BY <1>1 DEF ProjectClaim
    <2> QED BY <1>4, <1>7, <2>1 DEF EnsureProjectClaimValidated, EnsureProjectClaimInitialized,
                                    EnsureProjectClaimStatePending
  <1>8. CASE EnsureProjectClaimStatePendingProject
    BY <1>8 DEF EnsureProjectClaimStatePendingProject
  <1>9. CASE EnsureRegionSupported
    <2> DEFINE recovered == [cw.obj EXCEPT !.state = IF @ = "Error" THEN "Pending" ELSE @]
    <2>1. /\ [cw.obj EXCEPT !.state = "Error", !.invalid = "True"].state = "Error"
          /\ recovered.state \in {cw.obj.state, "Pending"}
          /\ [recovered EXCEPT !.invalid = "Resolved"].state = recovered.state
      BY <1>1 DEF ProjectClaim
    <2>2. cw'.obj \in {[cw.obj EXCEPT !.state = "Error", !.invalid = "True"], recovered,
                       [recovered EXCEPT !.invalid = "Resolved"]}
      BY <1>3, <1>4, <1>9 DEF EnsureRegionSupported
    <2> HIDE DEF recovered
    <2> QED BY <2>1, <2>2
  <1>10. CASE EnsureProjectReferenceLink \/ EnsureFinalizer
    <2>1. PICK o \in {[cw.obj EXCEPT !.link = TRUE], [cw.obj EXCEPT !.finalizer = TRUE]} :
             SaveClaim(o)
      BY <1>10 DEF EnsureProjectReferenceLink, EnsureFinalizer
    <2>2. o \in ProjectClaim /\ o.state = cw.obj.state /\ o.deleting = cw.obj.deleting
      BY <1>1, <2>1 DEF ProjectClaim
    <2>3. claim[cw.key] \in ProjectClaim /\ ~cw.obj.deleting
      BY <1>1, <1>10, ClaimObjects
         DEF EnsureProjectReferenceLink, EnsureFinalizer, ClaimCopyInv, ClaimStepMatchesCopy,
             ClaimSteps, DeletingClaimSteps
    <2>4. ClaimUpdate(o, claim[cw.key]).state = claim[cw.key].state
      BY <2>2, <2>3, ClaimUpdateFields
    <2>5. cw'.obj \in {ClaimUpdate(o, claim[cw.key]), o}
      BY <1>2, <2>1 DEF SaveClaim, Answer
    <2> QED BY <2>2, <2>4, <2>5
  <1>11. ~FinishClaim
    BY DEF FinishClaim, IdleClaimWorker
  <1> QED BY <1>5, <1>6, <1>7, <1>8, <1>9, <1>10, <1>11 DEF ClaimStep

\* The claim controller keeps SecretFirst.
LEMMA ClaimStepSecretFirst ==
  ASSUME TypeInv, ClaimCopyInv, "refDeleted" \notin Faults, NamesAreDistinct,
         NEW c \in CCS, PairInv(c), SecretFirst(c), ClaimStep
  PROVE  (SecretFirst(c))'
  <1> DEFINE r == RefName(c)
             Lost == BusyWith(c) /\ cw.pc = "CCSSecretFinalizerDeleted"
             Waits == claim[c].state = "PendingProject" \/ claimCache[c].state = "PendingProject"
  <1>1. /\ c \in Claims /\ r \in Refs /\ cw.pc # "idle" /\ cw.key \in Claims
        /\ claim[c] \in ProjectClaim /\ ref[r] \in ProjectReference
        /\ ~NoRef.exists /\ NoClaim.state = ""
    BY CCSAssumption, ClaimStepBusy, ClaimParts DEF Refs, NoRef, NoClaim
  <1>2. /\ ClaimWorkerMoves \/ ClaimWorkerRests
        /\ ClaimKept(c) \/ ClaimStored(c)
        /\ claimCache' = claimCache /\ rw' = rw
    BY <1>1, ClaimStepMoves DEF caches
  <1>3. RefKept(r) \/ RefDeletedByClaim(r) \/ RefCreated(r)
    BY <1>1, ClaimStepRefs
  <1>4. /\ Over(c) /\ BusyWith(c) => cw.obj.deleting
        /\ Lost => ~ref[r].exists
        /\ Lost /\ Waits => Over(c)
    BY <1>1, OverFacts
  <1>5. Held(c) => (Held(c))' \/ Lost
    BY <1>1, ClaimStepSecrets DEF BusyWith
  <1>6. Over(c) => (Over(c))'
    <2>1. RefCreated(r) => BusyWith(c) /\ ~cw.obj.deleting
      BY <1>1, CopyFacts DEF RefCreated, NamesAreDistinct, BusyWith
    <2>2. RefDeletedByClaim(r) => ref[r].exists
      BY DEF RefDeletedByClaim, RefDeleted
    <2> QED BY <1>2, <1>3, <1>4, <2>1, <2>2 DEF Over, RefKept
  <1>7. Waits => (Held(c))' \/ (Over(c))'
    BY <1>4, <1>5, <1>6 DEF SecretFirst
  <1>8. (BusyWith(c))' => BusyWith(c)
    BY <1>1, <1>2 DEF BusyWith, ClaimWorkerMoves, ClaimWorkerRests
  <1>9. ASSUME cw'.pc = "Condition", BusyWith(c), cw'.obj.state = "PendingProject",
               Current(claim[c], claimCur[c], "claimCtl")
        PROVE  (Held(c))' \/ (Over(c))'
    <2>1. cw.pc \notin {"idle", "Condition"}
      BY <1>2, <1>9 DEF ClaimWorkerMoves, ClaimWorkerRests
    <2>2. CASE cw.pc = "StatePendingProject"
      BY <1>5, <1>9, <2>2 DEF SecretFirst
    <2>3. CASE cw.obj.state = "PendingProject" \/ claim[c].state = "PendingProject"
      <3>1. claim[c].state = "PendingProject"
        BY <1>9, <2>1, <2>3, CurrentCopy DEF BusyWith
      <3> QED BY <1>7, <3>1
    <2> QED BY <1>9, <2>2, <2>3, PendingProjectSet DEF BusyWith
  <1>10. claim'[c].state = "PendingProject" \/ claimCache'[c].state = "PendingProject" =>
           (Held(c))' \/ (Over(c))'
    <2>1. CASE claimCache'[c].state = "PendingProject"
      BY <1>2, <1>7, <2>1
    <2>2. CASE claim'[c].state = claim[c].state
      BY <1>2, <1>7, <2>2
    <2>3. CASE ClaimStored(c) /\ claim'[c].state = "PendingProject" /\ claim'[c].state # claim[c].state
      <3>1. /\ BusyWith(c) /\ Current(claim[c], claimCur[c], "claimCtl")
            /\ claim'[c].state = IF cw'.pc = "idle" THEN cw.obj.state ELSE cw'.obj.state
            /\ cw'.pc = "idle" => cw.pc = "Condition"
            /\ cw'.pc \in {"idle", "Condition"}
        BY <1>1, <2>3 DEF ClaimStored, BusyWith
      <3>2. CASE cw'.pc = "idle"
        <4>1. Held(c) \/ Over(c)
          BY <2>3, <3>1, <3>2 DEF SecretFirst
        <4> QED BY <1>5, <1>6, <3>1, <3>2, <4>1
      <3>3. CASE cw'.pc = "Condition"
        BY <1>9, <2>3, <3>1, <3>3
      <3> QED BY <3>1, <3>2, <3>3
    <2> QED BY <1>2, <2>1, <2>2, <2>3 DEF ClaimKept
  <1>11. (BusyWith(c))' /\ cw'.pc = "StatePendingProject" => (Held(c))'
    BY <1>8, ClaimStepSecrets DEF BusyWith
  <1>12. (BusyWith(c))' /\ cw'.pc = "Condition" /\ Current(claim'[c], claimCur'[c], "claimCtl")
           /\ cw'.obj.state = "PendingProject" => (Held(c))' \/ (Over(c))'
    <2>1. Current(claim'[c], claimCur'[c], "claimCtl") => Current(claim[c], claimCur[c], "claimCtl")
      BY <1>2 DEF ClaimKept, ClaimStored, Current
    <2> QED BY <1>8, <1>9, <2>1
  <1>13. rw'.pc = "FinalizerAdded" /\ rw'.key = r /\ Current(ref'[r], refCur'[r], "refCtl") =>
           (Held(c))'
    <2>1. Current(ref'[r], refCur'[r], "refCtl") => Current(ref[r], refCur[r], "refCtl")
      BY <1>3 DEF RefKept, RefDeletedByClaim, RefDeleted, RefCreated, Current
    <2>2. Current(ref[r], refCur[r], "refCtl") => ~Lost
      BY <1>4 DEF Current
    <2> QED BY <1>2, <1>5, <2>1, <2>2 DEF SecretFirst
  <1>14. (Kept(r))' => (Held(c))'
    <2>1. (Kept(r))' => Kept(r)
      <3>1. ref[r] \in ProjectReference /\ ~NoRef.exists /\ cw.key \in Claims
        BY <1>1, Zenon
      <3>2. CASE RefKept(r)
        BY <3>2 DEF RefKept, Kept
      <3>3. CASE RefDeletedByClaim(r)
        <4>1. ref[r].exists /\ ref'[r] = Deleted(ref[r], NoRef)
          BY <3>3 DEF RefDeletedByClaim, RefDeleted
        <4>2. ref[r].finalizer \/ ref'[r] = NoRef
          BY <3>1, <4>1, DeletedRef
        <4> QED BY <3>1, <4>1, <4>2 DEF Kept
      <3>4. CASE RefCreated(r)
        <4>1. ref'[r] = NewMatchingProjectReference(cw.key)
          BY <3>4 DEF RefCreated
        <4>2. ~NewMatchingProjectReference(cw.key).finalizer
          BY <3>1, NewReferenceFields
        <4> QED BY <4>1, <4>2 DEF Kept
      <3> QED BY <1>3, <3>2, <3>3, <3>4
    <2>2. Kept(r) => ~Lost
      BY <1>4 DEF Kept
    <2> QED BY <1>5, <2>1, <2>2 DEF SecretFirst
  <1> QED BY <1>10, <1>11, <1>12, <1>13, <1>14 DEF SecretFirst

\* What the other steps may do: they leave the claim's worker and the Secret's
\* finalizer alone, let nobody have the stored version who had it not before,
\* and let no claim wait that did not wait.
SecretKeeps(c) ==
  LET r == RefName(c)
  IN  /\ cw' = cw \/ cw'.pc \notin {"StatePendingProject", "Condition"}
      /\ Held(c) => (Held(c))'
      /\ Over(c) /\ claim[c].finalizer => (Over(c))'
      /\ claim'[c].state = "PendingProject" => claim[c].state = "PendingProject"
      /\ \/ claimCache'[c] = claimCache[c] /\ (Over(c) => (Over(c))')
         \/ claimCache'[c] = claim[c]
      /\ Current(claim'[c], claimCur'[c], "claimCtl") /\ cw' = cw =>
           cw.pc = "idle" \/ Current(claim[c], claimCur[c], "claimCtl")
      /\ \/ rw' = rw \/ rw'.pc # "FinalizerAdded" \/ rw'.key # r
         \/ Current(ref'[r], refCur'[r], "refCtl") => (Held(c))'
      /\ Current(ref'[r], refCur'[r], "refCtl") => Current(ref[r], refCur[r], "refCtl") \/ rw' # rw
      /\ (Kept(r))' => Kept(r) \/ Held(c)

\* A step that lets go of no Secret and makes no claim wait keeps SecretFirst.
LEMMA SecretFrame ==
  ASSUME ClaimCopyInv, NEW c \in CCS, SecretFirst(c), SecretKeeps(c)
  PROVE  (SecretFirst(c))'
  <1> DEFINE r == RefName(c)
  <1>1. c \in Claims
    BY CCSAssumption
  <1>2. /\ claim[c].state = "PendingProject" => claim[c].finalizer
        /\ BusyWith(c) /\ cw.pc = "Condition" /\ Current(claim[c], claimCur[c], "claimCtl")
             /\ cw.obj.state = "PendingProject" => claim[c].finalizer
    BY <1>1 DEF ClaimCopyInv, StatesMatch, BusyWith
  <1>3. claim[c].state = "PendingProject" => (Held(c))' \/ (Over(c))'
    BY <1>2 DEF SecretFirst, SecretKeeps
  <1>4. claimCache'[c].state = "PendingProject" => (Held(c))' \/ (Over(c))'
    BY <1>3 DEF SecretFirst, SecretKeeps
  <1>5. claim'[c].state = "PendingProject" => (Held(c))' \/ (Over(c))'
    BY <1>3 DEF SecretKeeps
  <1>6. (BusyWith(c))' /\ cw'.pc = "StatePendingProject" => (Held(c))'
    BY DEF SecretFirst, SecretKeeps, BusyWith
  <1>7. (BusyWith(c))' /\ cw'.pc = "Condition" /\ Current(claim'[c], claimCur'[c], "claimCtl")
           /\ cw'.obj.state = "PendingProject" => (Held(c))' \/ (Over(c))'
    BY <1>2 DEF SecretFirst, SecretKeeps, BusyWith
  <1>8. rw'.pc = "FinalizerAdded" /\ rw'.key = r /\ Current(ref'[r], refCur'[r], "refCtl") =>
           (Held(c))'
    BY DEF SecretFirst, SecretKeeps
  <1>9. (Kept(r))' => (Held(c))'
    BY DEF SecretFirst, SecretKeeps
  <1> QED BY <1>4, <1>5, <1>6, <1>7, <1>8, <1>9 DEF SecretFirst

\* The reference controller: a reference gets its finalizer only under the one
\* of the Secret.
LEMMA ReferenceStepSecretKeeps ==
  ASSUME TypeInv, ClaimCopyInv, ReferenceCopyInv, NEW c \in CCS, SecretFirst(c), ReferenceStep
  PROVE  SecretKeeps(c)
  <1> DEFINE r == RefName(c)
  <1>1. c \in Claims /\ r \in Refs
    BY CCSAssumption DEF Refs
  <1>2. /\ RefKept(r) \/ RefWritten(r)
        /\ cw' = cw
    BY <1>1, ReferenceStepRefs
  <1>3. /\ claimCache'[c] = claimCache[c]
        /\ claim'[c].state \in {claim[c].state, "Ready"}
        /\ Current(claim'[c], claimCur'[c], "claimCtl") => Current(claim[c], claimCur[c], "claimCtl")
    BY <1>1, ReferenceStepClaims DEF ClaimKept, ClaimFilled, SameClaim, Current
  <1>4. rw'.pc # "FinalizerAdded"
    BY ReferenceStepMoves DEF RefWorkerMoves, FinishReference, IdleReferenceWorker
  <1>5. (Held(c))' <=> Held(c)
    <2>1. UNCHANGED ccsSecret
      BY DEF ReferenceStep, EnsureProjectReferenceInitialized, DeletePolicy, DeleteServiceAccount,
             DeleteProject, DeleteConsoleAccess, DeleteCredentials, EnsureFinalizerDeleted,
             EnsureClaimAvailabilityZonesSet, HandleAvailabilityZonesError,
             EnsureClaimProjectIDSet, EnsureProjectClaimReady,
             EnsureProjectReferenceStatusCreating, EnsureProjectID, EnsureServiceAccountName,
             EnsureFinalizerAdded, ListProjectsFails, ProjectFound, ProjectInactive,
             ProjectMissing, ClearProjectID, ConfigureBillingAPI, ConfigureAPIS,
             ConfigureServiceAccount, SetIAMPolicy, CreateKey, CreateSecret, SetConsoleAccess,
             EnsureStateReady, FinishReference, secrets
    <2> QED BY <2>1 DEF Held
  <1>6. /\ ~ref[r].exists => ~ref'[r].exists
        /\ Current(ref'[r], refCur'[r], "refCtl") => Current(ref[r], refCur[r], "refCtl")
    BY <1>2 DEF RefKept, RefWritten, Current
  <1>7. (Kept(r))' => Kept(r) \/ Held(c)
    <2>1. CASE RefKept(r) \/ SameRef(ref'[r], ref[r])
      BY <2>1 DEF RefKept, SameRef, Kept
    <2>2. CASE /\ rw.pc = "FinalizerAdded" /\ rw.key = r
               /\ Current(ref[r], refCur[r], "refCtl")
      BY <2>2 DEF SecretFirst
    <2>3. CASE ref'[r] = NoRef
      <3>1. ~NoRef.exists
        BY DEF NoRef
      <3> QED BY <2>3, <3>1 DEF Kept
    <2> QED BY <1>2, <2>1, <2>2, <2>3 DEF RefWritten
  <1>8. Over(c) => (Over(c))'
    BY <1>3, <1>6 DEF Over
  <1> QED BY <1>2, <1>3, <1>4, <1>5, <1>6, <1>7, <1>8 DEF SecretKeeps

\* A reconcile of a claim begins with an operation before the Secret's.
LEMMA StartClaimSecretKeeps ==
  ASSUME TypeInv, NEW c \in CCS, NEW d \in Claims, StartClaim(d)
  PROVE  SecretKeeps(c)
  <1>1. c \in Claims
    BY CCSAssumption
  <1>2. /\ claim' = claim /\ claimCache' = claimCache /\ ref' = ref /\ refCur' = refCur
        /\ rw' = rw /\ cw.pc = "idle"
        /\ UNCHANGED cw \/ ClaimWorkerStarts(d)
    BY StartClaimMoves DEF caches, refObjs, StartClaim
  <1>3. ccsSecret' = ccsSecret
    BY DEF StartClaim, secrets
  <1>4. cw' = cw \/ cw'.pc \notin {"StatePendingProject", "Condition"}
    BY <1>2 DEF ClaimWorkerStarts
  <1> QED BY <1>2, <1>3, <1>4 DEF SecretKeeps, Held, Over, Kept

\* A reconcile of a reference comes to EnsureFinalizerAdded only if the cache
\* shows a claim that waits.
LEMMA StartReferenceSecretKeeps ==
  ASSUME NamesAreDistinct, TypeInv, ReferenceCopyInv, NEW c \in CCS, SecretFirst(c),
         NEW s \in Refs, StartReference(s)
  PROVE  SecretKeeps(c)
  <1> DEFINE r == RefName(c)
  <1>1. c \in Claims /\ r \in Refs
    BY CCSAssumption DEF Refs
  <1>2. claim' = claim /\ claimCache' = claimCache /\ ref' = ref /\ cw' = cw
    BY StartReferenceMoves DEF caches
  <1>3. ccsSecret' = ccsSecret
    BY DEF StartReference, secrets
  <1>4. "claimCtl" \in claimCur'[c] => "claimCtl" \in claimCur[c]
    BY <1>1, StartReferenceMoves DEF ClaimRead
  <1>5. refCur'[r] = refCur[r] \/ rw' # rw
    <2>1. RefWorkerStarts(s) => rw' # rw
      BY FirstOperationFacts DEF RefWorkerStarts
    <2> QED BY <1>1, <2>1, StartReferenceMoves
  <1>6. \/ rw' = rw \/ rw'.pc # "FinalizerAdded" \/ rw'.key # r
        \/ Current(ref'[r], refCur'[r], "refCtl") => (Held(c))'
    <2> SUFFICES ASSUME RefWorkerStarts(s), rw'.pc = "FinalizerAdded", rw'.key = r,
                        Current(ref'[r], refCur'[r], "refCtl")
                 PROVE  (Held(c))'
      BY StartReferenceMoves
    <2> DEFINE cl == claimCache[refCache[s].owner]
    <2>1. s = r /\ refCache[r].exists /\ rw'.pc = FirstOperation(refCache[r], cl)
      BY DEF RefWorkerStarts
    <2>2. refCache[r].owner = c
      BY <1>1, <2>1 DEF NamesAreDistinct, ReferenceCopyInv, NamedAfterOwner, TypeInv, KeysOK
    <2>3. claimCache[c].state = "PendingProject" /\ ref[r].exists
      BY <1>2, <2>1, <2>2, FirstOperationFacts DEF Current
    <2>4. Held(c)
      BY <2>3 DEF SecretFirst, Over
    <2> QED BY <1>3, <2>4 DEF Held
  <1> QED BY <1>2, <1>3, <1>4, <1>5, <1>6 DEF SecretKeeps, Held, Over, Kept, Current

\* The informers and restarts: a claim that is over goes, and its cache knows.
LEMMA SyncSecretKeeps ==
  ASSUME TypeInv, ClaimCopyInv, "refDeleted" \notin Faults, NEW c \in CCS, PairInv(c),
         \/ \E d \in Claims : SyncClaim(d)
         \/ \E s \in Refs : SyncRef(s)
         \/ Crash
  PROVE  SecretKeeps(c)
  <1> DEFINE r == RefName(c)
  <1>1. /\ c \in Claims /\ r \in Refs
        /\ claimCache \in [Claims -> ProjectClaim] /\ claimCur \in [Claims -> ClaimHolders]
        /\ refCur \in [Refs -> RefHolders]
    BY CCSAssumption, ClaimObjects, ReferenceParts DEF Refs
  <1>2. Over(c) /\ claim[c].finalizer => claim[c].deleting
    BY <1>1, OverFacts
  <1>3. ASSUME NEW d \in Claims, SyncClaim(d)
        PROVE  SecretKeeps(c)
    <2>1. /\ claim' = claim /\ ref' = ref /\ refCur' = refCur /\ cw' = cw /\ rw' = rw
          /\ ccsSecret' = ccsSecret
          /\ "claimCtl" \in claimCur'[c] => "claimCtl" \in claimCur[c]
          /\ claimCache'[c] = claimCache[c] \/ claimCache'[c] = claim[c]
      BY <1>1, <1>3 DEF SyncClaim, refObjs, workers, secrets
    <2> QED BY <1>2, <2>1 DEF SecretKeeps, Held, Over, Kept, Current
  <1>4. ASSUME NEW s \in Refs, SyncRef(s)
        PROVE  SecretKeeps(c)
    <2>1. /\ claim' = claim /\ claimCur' = claimCur /\ claimCache' = claimCache /\ ref' = ref
          /\ cw' = cw /\ rw' = rw /\ ccsSecret' = ccsSecret
          /\ "refCtl" \in refCur'[r] => "refCtl" \in refCur[r]
      BY <1>1, <1>4 DEF SyncRef, claimObjs, workers, secrets
    <2> QED BY <2>1 DEF SecretKeeps, Held, Over, Kept, Current
  <1>5. CASE Crash
    <2>1. /\ claim' = claim /\ claimCache' = claim /\ ref' = ref
          /\ cw'.pc = "idle" /\ rw'.pc = "idle" /\ ccsSecret' = ccsSecret
          /\ claimCur'[c] = {"cache"} /\ refCur'[r] = {"cache"}
      BY <1>1, <1>5 DEF Crash, IdleClaimWorker, IdleReferenceWorker, secrets
    <2> QED BY <1>2, <2>1 DEF SecretKeeps, Held, Over, Kept, Current
  <1> QED BY <1>3, <1>4, <1>5

\* The user, and the customer, whose Secret stays while it has the finalizer.
LEMMA UserSecretKeeps ==
  ASSUME TypeInv, ClaimCopyInv, NEW c \in CCS,
         \/ \E d \in Claims : CreateClaim(d) \/ DeleteClaim(d) \/ EditClaim(d)
         \/ \E d \in Claims : SyncSecret(d) \/ SetRegion(d) \/ SetCCSSecret(d)
         \/ \E id \in ProjectIDs : AdminDeletesProject(id)
         \/ Resync \/ Stabilise \/ UNCHANGED vars
  PROVE  SecretKeeps(c)
  <1>1. c \in Claims /\ ccsSecret \in [Claims -> CCSSecret]
    BY CCSAssumption DEF TypeInv, TypeOK
  <1>2. ASSUME NEW d \in Claims, CreateClaim(d) \/ DeleteClaim(d) \/ EditClaim(d)
        PROVE  SecretKeeps(c)
    <2>1. /\ claimCache' = claimCache /\ ref' = ref /\ refCur' = refCur
          /\ cw' = cw /\ rw' = rw
          /\ \/ claim'[c] = claim[c] /\ claimCur'[c] = claimCur[c]
             \/ ClaimChangedByUser(c)
      BY <1>1, <1>2, UserMoves DEF caches, refObjs, workers
    <2>2. ccsSecret' = ccsSecret
      BY <1>2 DEF CreateClaim, DeleteClaim, EditClaim, secrets
    <2>3. NoClaim.state = ""
      BY DEF NoClaim
    <2>4. claim'[c].state = "PendingProject" => claim[c].state = "PendingProject"
      BY <2>1, <2>3 DEF ClaimChangedByUser
    <2>5. Current(claim'[c], claimCur'[c], "claimCtl") => Current(claim[c], claimCur[c], "claimCtl")
      BY <2>1 DEF ClaimChangedByUser, Current
    <2> QED BY <2>1, <2>2, <2>4, <2>5 DEF SecretKeeps, Held, Over, Kept
  <1>3. ASSUME UNCHANGED <<claimObjs, claimCache, refObjs, refCache, workers>>,
               Held(c) => (Held(c))'
        PROVE  SecretKeeps(c)
    BY <1>3 DEF SecretKeeps, Over, Kept, claimObjs, refObjs, workers
  <1>4. ASSUME NEW d \in Claims, SetCCSSecret(d)
        PROVE  Held(c) => (Held(c))'
    BY <1>1, <1>4 DEF SetCCSSecret, Held, CCSSecret
  <1>5. CASE \/ \E d \in Claims : SyncSecret(d) \/ SetRegion(d)
             \/ \E id \in ProjectIDs : AdminDeletesProject(id)
             \/ Resync \/ Stabilise \/ UNCHANGED vars
    <2>1. UNCHANGED ccsSecret
      BY <1>5 DEF SyncSecret, SetRegion, AdminDeletesProject, Resync, Stabilise, vars, secrets
    <2> QED BY <1>3, <1>5, <2>1, OtherSteps DEF Held
  <1> QED BY <1>2, <1>3, <1>4, <1>5, OtherSteps

\* SecretHeldInv is inductive relative to the invariants of the copies and of
\* the claims and their references.
LEMMA SecretHeldInductive ==
  ASSUME NamesAreDistinct, "refDeleted" \notin Faults
  PROVE  TypeInv /\ ClaimCopyInv /\ ReferenceCopyInv /\ HeldInv /\ SecretHeldInv /\ [Next]_vars
           => SecretHeldInv'
  <1> SUFFICES ASSUME TypeInv, ClaimCopyInv, ReferenceCopyInv, HeldInv, SecretHeldInv,
                      [Next]_vars, NEW c \in CCS
               PROVE  (SecretFirst(c))'
    BY DEF SecretHeldInv
  <1>1. SecretFirst(c)
    BY DEF SecretHeldInv
  <1>2. PairInv(c)
    BY HeldByPairs, CCSAssumption
  <1>3. CASE ClaimStep
    BY <1>1, <1>2, <1>3, ClaimStepSecretFirst
  <1>4. CASE ReferenceStep
    BY <1>1, <1>4, ReferenceStepSecretKeeps, SecretFrame
  <1>5. CASE Manager
    <2>1. SecretKeeps(c)
      BY <1>1, <1>2, <1>5, StartClaimSecretKeeps, StartReferenceSecretKeeps, SyncSecretKeeps,
         UserSecretKeeps DEF Manager
    <2> QED BY <1>1, <2>1, SecretFrame
  <1>6. CASE Environment \/ UNCHANGED vars
    <2>1. \A r \in Refs : ~AdminDeletesReference(r)
      BY DEF AdminDeletesReference, Faulty
    <2>2. SecretKeeps(c)
      BY <1>6, <2>1, UserSecretKeeps DEF Environment
    <2> QED BY <1>1, <2>2, SecretFrame
  <1> QED BY <1>3, <1>4, <1>5, <1>6 DEF Next

\* In every reachable state: a CCS claim waits for its project, and its
\* reference gets a finalizer, only once the customer's Secret has one, and
\* the Secret keeps it as long as the reference has its own.
THEOREM SecretIsFirst ==
  ASSUME NamesAreDistinct, "refDeleted" \notin Faults
  PROVE  Spec => []SecretHeldInv
  <1>1. Init => SecretHeldInv
    <2> SUFFICES ASSUME Init, NEW c \in CCS PROVE SecretFirst(c)
      BY DEF SecretHeldInv
    <2>1. /\ claim[c] = NoClaim /\ claimCache[c] = NoClaim /\ ref[RefName(c)] = NoRef
          /\ cw.pc = "idle" /\ rw.pc = "idle"
      BY CCSAssumption DEF Init, Refs, IdleClaimWorker, IdleReferenceWorker
    <2>2. NoClaim.state = "" /\ ~NoRef.exists
      BY DEF NoClaim, NoRef
    <2> QED BY <2>1, <2>2 DEF SecretFirst, Kept, BusyWith
  <1>2. TypeInv /\ ClaimCopyInv /\ ReferenceCopyInv /\ HeldInv /\ SecretHeldInv /\ [Next]_vars
          => SecretHeldInv'
    BY SecretHeldInductive
  <1>3. Spec => []TypeInv
    BY KeysCorrect
  <1>4. Spec => []ClaimCopyInv
    BY ClaimCopies
  <1>5. Spec => []ReferenceCopyInv
    BY ReferenceCopies
  <1>6. DeletionsAreSeen
    BY DEF DeletionsAreSeen
  <1>7. Spec => []HeldInv
    BY <1>6, ReferencesAreHeld
  <1> QED BY <1>1, <1>2, <1>3, <1>4, <1>5, <1>7, PTL DEF Spec

\* As long as the operator has anything in a customer's project, the finalizer
\* holds the customer's Secret, without which getGcpClient fails and the
\* cleanup could never be done: EnsureCCSSecretFinalizer comes before
\* PendingProject, and FinalizeProjectClaim removes the finalizer only when the
\* reference is gone.  Nobody deletes references by hand, no two customers
\* bring the same project, and a service account that is there is found.
THEOREM CCSSecretIsHeld ==
  ASSUME NamesAreDistinct, ProjectsAreDistinct, CleanupIsReliable, "refDeleted" \notin Faults
  PROVE  Spec => []CCSSecretHeld
  <1>1. CleanupInv /\ SecretHeldInv => CCSSecretHeld
    <2> SUFFICES ASSUME CleanupInv, SecretHeldInv, NEW c \in CCS, Touched(project[CCSProject[c]])
                 PROVE  Held(c)
      BY DEF CCSSecretHeld, Touched, Held
    <2>1. c \in Claims
      BY CCSAssumption
    <2>2. Kept(RefName(c))
      BY <2>1 DEF CleanupInv, CleanupPending
    <2> QED BY <2>2 DEF SecretHeldInv, SecretFirst
  <1>2. Spec => []CleanupInv
    BY CleanupIsPending
  <1>3. Spec => []SecretHeldInv
    BY SecretIsFirst
  <1> QED BY <1>1, <1>2, <1>3, PTL
=============================================================================
