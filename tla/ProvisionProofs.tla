-------------------------- MODULE ProvisionProofs --------------------------
(***************************************************************************)
(* A claim that is Ready is provisioned (ReadyIsProvisioned).  The proof   *)
(* follows the way from the project to the claim: which reference names    *)
(* which project, what the worker has done in it so far, what the Secret,  *)
(* the reference's state and the claim's fields stand for.                 *)
(***************************************************************************)
EXTENDS CleanupProofs, ProvisionInvariant

-----------------------------------------------------------------------------
(* What a step of the ProjectReference controller does.                    *)

\* A step in the set-up takes nothing away from a project.
Improves(p, q) ==
  /\ p.life = "ACTIVE" => q.life = "ACTIVE"
  /\ p.billing => q.billing
  /\ p.apis => q.apis
  /\ p.sa => q.sa
  /\ p.bound => q.bound

\* What each edit of a project leaves of it.
LEMMA EditsImprove ==
  ASSUME NEW p \in Project
  PROVE  /\ Improves(p, p)
         /\ LET q == [p EXCEPT !.life = "ACTIVE"] IN Improves(p, q)
         /\ LET q == [p EXCEPT !.billing = TRUE]
            IN  Improves(p, q) /\ q.life = p.life /\ q.billing
         /\ LET q == [p EXCEPT !.apis = TRUE] IN Improves(p, q) /\ q.life = p.life /\ q.apis
         /\ LET q == [p EXCEPT !.sa = TRUE] IN Improves(p, q) /\ q.life = p.life /\ q.sa
         /\ LET q == [p EXCEPT !.bound = TRUE] IN Improves(p, q) /\ q.life = p.life /\ q.bound
         /\ LET q == [p EXCEPT !.console = TRUE] IN Improves(p, q)
  BY DEF Improves, Project

\* What has been done in project q before operation pc.
DoneBefore(pc, q) ==
  /\ pc = "APIs" => q.life = "ACTIVE" /\ q.billing
  /\ pc = "ServiceAccount" => q.life = "ACTIVE" /\ q.apis
  /\ pc = "Policy" => q.sa
  /\ pc = "Credentials" => q.bound

\* What the steps of the set-up do in the project of the reference.
ProjectAdvances ==
  LET id == rw.ref.projectID
  IN  /\ Improves(project[id], project'[id])
      /\ DoneBefore(rw'.pc, project'[id])
      /\ rw'.pc = "ClearProjectID" => project[id].life = "none" /\ ~IDsAreKept

\* Steps that leave the project alone advance it if nothing is claimed of it.
LEMMA IdleAdvances ==
  ASSUME TypeInv, rw.ref.projectID \in ProjectIDs,
         project'[rw.ref.projectID] = project[rw.ref.projectID],
         rw'.pc \notin {"APIs", "ServiceAccount", "Policy", "Credentials", "ClearProjectID"}
  PROVE  ProjectAdvances
  <1>1. project[rw.ref.projectID] \in Project
    BY ReferenceParts
  <1>2. Improves(project[rw.ref.projectID], project[rw.ref.projectID])
    BY <1>1, EditsImprove
  <1> QED BY <1>2 DEF ProjectAdvances, DoneBefore

\* A request to configure the project takes effect, or ends the reconcile.
LEMMA ConfigureAdvances ==
  ASSUME TypeInv, rw.pc # "idle", rw.ref.projectID \in ProjectIDs,
         NEW e, NEW pc, Configure(e, pc), pc # "ClearProjectID",
         Improves(project[rw.ref.projectID], e),
         project[rw.ref.projectID].life = "ACTIVE" => DoneBefore(pc, e)
  PROVE  ProjectAdvances
  <1>1. \/ /\ project[rw.ref.projectID].life = "ACTIVE"
           /\ project'[rw.ref.projectID] = e /\ rw'.pc \in {pc, "Condition"}
        \/ /\ project'[rw.ref.projectID] = project[rw.ref.projectID]
           /\ rw'.pc = "Condition"
    BY ConfigureEffect
  <1>2. CASE project'[rw.ref.projectID] = project[rw.ref.projectID] /\ rw'.pc = "Condition"
    BY <1>2, IdleAdvances
  <1>3. CASE /\ project[rw.ref.projectID].life = "ACTIVE"
             /\ project'[rw.ref.projectID] = e /\ rw'.pc \in {pc, "Condition"}
    <2>1. DoneBefore("Condition", e)
      BY DEF DoneBefore
    <2>2. DoneBefore(rw'.pc, e) /\ rw'.pc # "ClearProjectID"
      BY <1>3, <2>1
    <2> QED BY <1>3, <2>2 DEF ProjectAdvances
  <1> QED BY <1>1, <1>2, <1>3

\* A creation makes the project active, or leaves it and gives up the ID.
LEMMA ProjectMissingAdvances ==
  ASSUME TypeInv, rw.ref.projectID \in ProjectIDs, ProjectMissing
  PROVE  ProjectAdvances
  <1> DEFINE p == project[rw.ref.projectID]
             q == project'[rw.ref.projectID]
             e == [p EXCEPT !.life = "ACTIVE"]
  <1>1. /\ p \in Project /\ project \in [ProjectIDs -> Project] /\ rw \in ReferenceWorker
        /\ Improves(p, p)
    BY ReferenceParts, EditsImprove
  <1>2. Improves(p, e)
    BY <1>1, EditsImprove
  <1>3. q = e \/ q = p
    BY <1>1 DEF ProjectMissing
  <1>4. \A pc : RefGoto(pc) => rw'.pc = pc
    BY <1>1 DEF RefGoto, ReferenceWorker
  <1>5. \/ RefGoto("Billing")
        \/ RefGoto("ClearProjectID") /\ p.life = "none" /\ (Faulty("createLost") \/ Faulty("createFails"))
    BY DEF ProjectMissing
  <1>6. Faulty("createLost") \/ Faulty("createFails") => ~IDsAreKept
    BY DEF Faulty, IDsAreKept
  <1>7. rw'.pc = "Billing" \/ (rw'.pc = "ClearProjectID" /\ p.life = "none" /\ ~IDsAreKept)
    BY <1>4, <1>5, <1>6
  <1>8. DoneBefore(rw'.pc, q)
    BY <1>7 DEF DoneBefore
  <1>9. Improves(p, q)
    BY <1>1, <1>2, <1>3
  <1>10. rw'.pc = "ClearProjectID" => p.life = "none" /\ ~IDsAreKept
    BY <1>7
  <1> QED BY <1>8, <1>9, <1>10 DEF ProjectAdvances

\* What the calls of EnsureProjectConfigured and configureBillingAPI do.
LEMMA ConfigurersAdvance ==
  ASSUME TypeInv, rw.ref.projectID \in ProjectIDs,
         \/ ConfigureBillingAPI \/ ConfigureAPIS \/ ConfigureServiceAccount
         \/ SetIAMPolicy \/ SetConsoleAccess
  PROVE  ProjectAdvances
  <1> DEFINE p == project[rw.ref.projectID]
  <1>1. p \in Project /\ rw \in ReferenceWorker /\ rw.pc # "idle"
    BY ReferenceParts
       DEF ConfigureBillingAPI, ConfigureAPIS, ConfigureServiceAccount, SetIAMPolicy,
           SetConsoleAccess
  <1>2. CASE ConfigureBillingAPI
    <2> DEFINE e == [p EXCEPT !.billing = TRUE]
    <2>1. Improves(p, e) /\ (p.life = "ACTIVE" => DoneBefore("APIs", e))
      BY <1>1, EditsImprove DEF DoneBefore
    <2>2. Configure(e, "APIs")
      BY <1>2 DEF ConfigureBillingAPI
    <2> HIDE DEF e
    <2> QED BY <1>1, <2>1, <2>2, ConfigureAdvances
  <1>3. CASE ConfigureAPIS
    <2> DEFINE e == [p EXCEPT !.apis = TRUE]
    <2>1. Improves(p, e) /\ (p.life = "ACTIVE" => DoneBefore("ServiceAccount", e))
      BY <1>1, EditsImprove DEF DoneBefore
    <2>2. Configure(e, "ServiceAccount")
      BY <1>3 DEF ConfigureAPIS
    <2> HIDE DEF e
    <2> QED BY <1>1, <2>1, <2>2, ConfigureAdvances
  <1>4. CASE ConfigureServiceAccount
    <2> DEFINE e == [p EXCEPT !.sa = TRUE]
    <2>1. Improves(p, e) /\ DoneBefore("Policy", e)
      BY <1>1, EditsImprove DEF DoneBefore
    <2>2. Configure(e, "Policy") \/ (UNCHANGED project /\ RefFinish("after", rw.ref))
      BY <1>4 DEF ConfigureServiceAccount
    <2> HIDE DEF e
    <2>3. CASE Configure(e, "Policy")
      BY <1>1, <2>1, <2>3, ConfigureAdvances
    <2>4. CASE UNCHANGED project /\ RefFinish("after", rw.ref)
      <3>1. rw'.pc = "Condition"
        BY <1>1, <2>4 DEF RefFinish, ReferenceWorker
      <3> QED BY <2>4, <3>1, IdleAdvances
    <2> QED BY <2>2, <2>3, <2>4
  <1>5. CASE SetIAMPolicy
    <2> DEFINE e == [p EXCEPT !.bound = TRUE]
    <2>1. Improves(p, e) /\ DoneBefore("Credentials", e)
      BY <1>1, EditsImprove DEF DoneBefore
    <2>2. Configure(e, "Credentials")
      BY <1>5 DEF SetIAMPolicy
    <2> HIDE DEF e
    <2> QED BY <1>1, <2>1, <2>2, ConfigureAdvances
  <1>6. CASE SetConsoleAccess
    <2> DEFINE e == [p EXCEPT !.console = TRUE]
    <2>1. Improves(p, e) /\ DoneBefore("StateReady", e)
      BY <1>1, EditsImprove DEF DoneBefore
    <2>2. Configure(e, "StateReady")
      BY <1>6 DEF SetConsoleAccess
    <2> HIDE DEF e
    <2> QED BY <1>1, <2>1, <2>2, ConfigureAdvances
  <1> QED BY <1>2, <1>3, <1>4, <1>5, <1>6

\* No step but those of the cleanup takes anything from the project.
LEMMA SetUpEffect ==
  ASSUME TypeInv, ReferenceStep, rw.ref.projectID \in ProjectIDs, rw.pc \notin DeletionSteps
  PROVE  ProjectAdvances
  <1>1. rw'.pc \in {"idle", "Condition"} \/ LeadsTo(rw.pc, rw'.pc, rw.ref)
    BY ReferenceStepLeads
  <1>2. CASE CreateKey \/ CreateSecret \/ EnsureClaimProjectIDSet
    <2>1. UNCHANGED project /\ rw.pc \in {"Credentials", "CreateSecret", "ClaimProjectID"}
      BY <1>2 DEF CreateKey, CreateSecret, EnsureClaimProjectIDSet, cloud
    <2>2. rw'.pc \notin {"APIs", "ServiceAccount", "Policy", "Credentials", "ClearProjectID"}
      BY <1>1, <2>1 DEF LeadsTo, AfterCredentials
    <2> QED BY <2>1, <2>2, IdleAdvances
  <1>3. CASE ListProjectsFails \/ ProjectFound
    <2>1. UNCHANGED project /\ rw'.pc \in {"Condition", "Billing"}
      BY <1>3, ReferenceParts
         DEF ListProjectsFails, ProjectFound, RefFails, RefFinish, RefGoto, ReferenceWorker, cloud
    <2> QED BY <2>1, IdleAdvances
  <1>4. CASE rw'.pc \in {"idle", "Condition"} /\ UNCHANGED project
    BY <1>4, IdleAdvances
  <1>5. ~(DeletePolicy \/ DeleteServiceAccount \/ DeleteProject \/ DeleteConsoleAccess
          \/ DeleteCredentials)
    BY DEF DeletePolicy, DeleteServiceAccount, DeleteProject, DeleteConsoleAccess,
           DeleteCredentials, DeletionSteps
  <1> QED
    BY <1>2, <1>3, <1>4, <1>5, WritersEnd, ConfigurersAdvance, ProjectMissingAdvances
       DEF ReferenceStep

\* A Secret comes from CreateSecret, for the project of the worker's copy, and
\* goes with DeleteCredentials; nothing else changes with it.
LEMMA SecretChanges ==
  ASSUME TypeInv, ReferenceStep, NEW c \in Claims, secret'[c] # secret[c]
  PROVE  /\ c = rw.ref.owner /\ UNCHANGED <<refObjs, claimObjs, cloud>>
         /\ \/ /\ rw.pc = "CreateSecret"
               /\ secret[c] = Nil /\ secret'[c] = rw.ref.projectID
            \/ rw.pc = "DeleteCredentials" /\ secret'[c] = Nil
  <1>1. secret \in [Claims -> MaybeID] /\ c = rw.ref.owner
    BY ReferenceParts, OthersUntouched
  <1>2. CreateSecret \/ DeleteCredentials
    BY WritersEnd
       DEF ReferenceStep, secrets, DeletePolicy, DeleteServiceAccount, DeleteProject,
           DeleteConsoleAccess, ListProjectsFails, ProjectFound, ProjectMissing,
           ConfigureBillingAPI, ConfigureAPIS, ConfigureServiceAccount, SetIAMPolicy, CreateKey,
           SetConsoleAccess, EnsureClaimProjectIDSet
  <1>3. CASE CreateSecret
    BY <1>1, <1>3 DEF CreateSecret
  <1>4. CASE DeleteCredentials
    BY <1>1, <1>4 DEF DeleteCredentials
  <1> QED BY <1>2, <1>3, <1>4

-----------------------------------------------------------------------------
(* The steps that matter here.                                             *)

\* Users, the claims' informer and the start of a reconcile of a claim do
\* nothing to references, Secrets and projects.
References == <<refObjs, refCache, rw>>
Resources == <<secret, project, issued>>

\* Nor does the claim controller, but for the references.
LEMMA ClaimStepLeaves ==
  ASSUME ClaimStep
  PROVE  UNCHANGED <<refCache, rw>> /\ UNCHANGED Resources
  BY DEF ClaimStep, FinalizeReference, FinalizeWithoutReference,
         EnsureCCSSecretFinalizerDeleted, EnsureProjectClaimFinalizerDeleted,
         EnsureProjectClaimValidated, EnsureProjectClaimInitialized, EnsureRegionSupported,
         EnsureProjectClaimStatePending, EnsureProjectReferenceExists,
         EnsureProjectReferenceLink, EnsureFinalizer, EnsureCCSSecretFinalizer,
         EnsureProjectClaimStatePendingProject, FinishClaim, Resources, caches, secrets, cloud

\* A step of the system is one of these.
LEMMA StepKinds ==
  ASSUME ProvisioningIsReliable, [Next]_vars
  PROVE  \/ ReferenceStep
         \/ ClaimStep /\ UNCHANGED Resources
         \/ (\E r \in Refs : StartReference(r)) /\ UNCHANGED Resources
         \/ (\E r \in Refs : SyncRef(r)) /\ UNCHANGED Resources
         \/ Crash /\ UNCHANGED Resources
         \/ UNCHANGED <<References, Resources>>
  <1>1. ~Faulty("adminDeletes") /\ ~Faulty("refDeleted")
    BY DEF ProvisioningIsReliable, Faulty
  <1>2. ClaimStep => UNCHANGED Resources
    BY ClaimStepLeaves
  <1>3. (\E r \in Refs : StartReference(r) \/ SyncRef(r)) \/ Crash => UNCHANGED Resources
    BY DEF StartReference, SyncRef, Crash, Resources, secrets, cloud
  <1>4. CASE Environment
    BY <1>1, <1>4
       DEF Environment, CreateClaim, DeleteClaim, EditClaim, SetRegion, SetCCSSecret,
           AdminDeletesProject, AdminDeletesReference, Stabilise, References, Resources,
           refObjs, caches, secrets, cloud, workers
  <1>5. CASE Resync \/ \E c \in Claims : StartClaim(c) \/ SyncClaim(c) \/ SyncSecret(c)
    BY <1>5
       DEF Resync, StartClaim, SyncClaim, SyncSecret, References, Resources,
           refObjs, caches, secrets, cloud, workers
  <1>6. CASE UNCHANGED vars
    BY <1>6 DEF vars, References, Resources, refObjs, caches, secrets, cloud, workers
  <1> QED BY <1>2, <1>3, <1>4, <1>5, <1>6 DEF Next, Manager

-----------------------------------------------------------------------------
(* Which reference names which project.                                    *)

\* No two references have the project of a customer.
LEMMA CustomerNames ==
  ASSUME ProjectsAreDistinct
  PROVE  ReferenceCopyInv /\ IDsAreOwn =>
           \A id \in CCSProjectIDs : \A r, s \in Refs : Names(r, id) /\ Names(s, id) => r = s
  <1> SUFFICES ASSUME ReferenceCopyInv, IDsAreOwn, NEW id \in CCSProjectIDs
               PROVE  \A r, s \in Refs : Names(r, id) /\ Names(s, id) => r = s
    OBVIOUS
  <1>1. ASSUME NEW r \in Refs, Names(r, id)
        PROVE  \E c \in CCS : CCSProject[c] = id /\ RefName(c) = r
    <2>1. ASSUME NEW o, OwnID(o), o.projectID = id, RefName(o.owner) = r
          PROVE  \E c \in CCS : CCSProject[c] = id /\ RefName(c) = r
      BY <2>1 DEF OwnID, IsCCS
    <2>2. CASE ref[r].exists /\ ref[r].projectID = id
      BY <2>1, <2>2 DEF IDsAreOwn, ReferenceCopyInv, NamedAfterOwner
    <2>3. CASE refCache[r].exists /\ refCache[r].projectID = id
      BY <2>1, <2>3 DEF IDsAreOwn, ReferenceCopyInv, NamedAfterOwner
    <2>4. CASE rw.pc \notin {"idle", "Condition"} /\ rw.key = r /\ rw.ref.projectID = id
      BY <2>1, <2>4 DEF IDsAreOwn, ReferenceCopyInv, NamedAfterOwner
    <2> QED BY <1>1, <2>2, <2>3, <2>4 DEF Names
  <1>2. ASSUME NEW r \in Refs, NEW s \in Refs, Names(r, id), Names(s, id)
        PROVE  r = s
    <2>1. PICK c \in CCS : CCSProject[c] = id /\ RefName(c) = r
      BY <1>1, <1>2
    <2>2. PICK d \in CCS : CCSProject[d] = id /\ RefName(d) = s
      BY <1>1, <1>2
    <2> QED BY <2>1, <2>2 DEF ProjectsAreDistinct
  <1> QED BY <1>2

\* The same of the next state.
LEMMA CustomerNamesNext ==
  ASSUME ProjectsAreDistinct
  PROVE  (ReferenceCopyInv /\ IDsAreOwn =>
            \A id \in CCSProjectIDs :
              \A r, s \in Refs : Names(r, id) /\ Names(s, id) => r = s)'
  BY CustomerNames, PTL

\* A reference keeps its ID when it is deleted, and a new one has none or the
\* customer's.
LEMMA ClaimStepIDs ==
  ASSUME TypeInv, ClaimStep, NEW r \in Refs, ref'[r].exists
  PROVE  \/ ref[r].exists /\ IDKept(r)
         \/ ref'[r].projectID \in CCSProjectIDs \cup {Nil}
  <1>1. CASE RefKept(r)
    BY <1>1 DEF RefKept, IDKept
  <1>2. CASE RefDeletedByClaim(r)
    <2>1. ref[r] \in ProjectReference
      BY ReferenceParts
    <2> QED BY <1>2, <2>1, DeletedID DEF RefDeletedByClaim, RefDeleted, IDKept
  <1>3. CASE RefCreated(r)
    BY <1>3 DEF RefCreated, NewMatchingProjectReference, NoRef, CCSProjectIDs
  <1> QED BY <1>1, <1>2, <1>3, ClaimStepRefs

\* A reference gets no ID but a new one.
NameKept(r, id) ==
  Names(r, id) \/ (id \notin issued /\ r = rw.key /\ id \in issued')

\* The ID of a reference is one it had, or was not in use.
LEMMA NamesStep ==
  ASSUME ProvisioningIsReliable, TypeInv, ReferenceCopyInv, [Next]_vars,
         NEW r \in Refs, NEW id \in ProjectIDs \ CCSProjectIDs, (Names(r, id))'
  PROVE  NameKept(r, id) /\ issued \subseteq issued'
  <1>1. id # Nil
    BY NilAssumption
  <1>2. CASE ReferenceStep
    <2>1. issued \subseteq issued'
      BY <1>2, ReferenceStepIDs
    <2>2. CASE ref'[r].exists /\ ref'[r].projectID = id
      <3>1. ref[r].exists
        <4>1. ~NoRef.exists
          BY DEF NoRef
        <4> QED BY <1>2, <2>2, <4>1, ReferenceStepRefs DEF RefKept, RefWritten, SameRef, Current
      <3>2. IDKept(r) \/ IDWritten(r)
        BY <1>2, <2>2, ReferenceStepIDs
      <3> QED BY <1>1, <2>1, <2>2, <3>1, <3>2 DEF IDKept, IDWritten, NameKept, Names
    <2>3. CASE refCache'[r].exists /\ refCache'[r].projectID = id
      <3>1. refCache' = refCache
        BY <1>2, ReferenceStepRefs
      <3> QED BY <2>1, <2>3, <3>1 DEF NameKept, Names
    <2>4. CASE rw'.pc \notin {"idle", "Condition"} /\ rw'.key = r /\ rw'.ref.projectID = id
      <3>1. RefWorkerMoves /\ rw.pc \notin {"idle", "Condition"}
        BY <1>2, <2>4, ReferenceStepMoves, ConditionFinishes
           DEF FinishReference, IdleReferenceWorker
      <3> QED BY <2>1, <2>4, <3>1 DEF RefWorkerMoves, NameKept, Names
    <2> QED BY <2>2, <2>3, <2>4 DEF Names
  <1>3. CASE ClaimStep /\ UNCHANGED Resources
    <2>1. UNCHANGED <<refCache, rw, issued>>
      BY <1>3, ClaimStepRefs DEF Resources
    <2>2. ref'[r].exists /\ ref'[r].projectID = id => ref[r].exists /\ ref[r].projectID = id
      BY <1>1, <1>3, ClaimStepIDs DEF IDKept
    <2> QED BY <2>1, <2>2 DEF NameKept, Names
  <1>4. ASSUME NEW s \in Refs, StartReference(s), UNCHANGED Resources
        PROVE  NameKept(r, id) /\ issued \subseteq issued'
    <2>1. UNCHANGED <<ref, refCache, issued>> /\ (UNCHANGED rw \/ RefWorkerStarts(s))
      BY <1>4, StartReferenceMoves DEF caches, Resources
    <2> QED BY <2>1 DEF NameKept, Names, RefWorkerStarts
  <1>5. ASSUME NEW s \in Refs, SyncRef(s), UNCHANGED Resources
        PROVE  NameKept(r, id) /\ issued \subseteq issued'
    <2>1. UNCHANGED <<ref, rw, issued>> /\ refCache'[r] \in {refCache[r], ref[r]}
      BY <1>5 DEF SyncRef, TypeInv, TypeOK, Resources, workers
    <2> QED BY <2>1 DEF NameKept, Names
  <1>6. CASE Crash /\ UNCHANGED Resources
    BY <1>6 DEF Crash, Resources, NameKept, Names, IdleReferenceWorker
  <1>7. CASE UNCHANGED <<References, Resources>>
    BY <1>7 DEF References, Resources, refObjs, NameKept, Names
  <1> QED BY <1>2, <1>3, <1>4, <1>5, <1>6, <1>7, StepKinds

\* Two references never have the same ID.
LEMMA NamedOnceStep ==
  ASSUME ProvisioningIsReliable, ProjectsAreDistinct, TypeInv, ReferenceCopyInv, NamedOnce,
         [Next]_vars, ReferenceCopyInv', IDsAreOwn'
  PROVE  NamedOnce'
  <1> SUFFICES ASSUME NEW id \in ProjectIDs, NEW r \in Refs, (Names(r, id))'
               PROVE  id \in issued' /\ \A s \in Refs : (Names(s, id))' => r = s
    BY DEF NamedOnce
  <1>1. CASE id \in CCSProjectIDs
    BY <1>1, CustomerNamesNext DEF IDsAreOwn
  <1>2. CASE id \notin CCSProjectIDs
    <2>1. NameKept(r, id) /\ issued \subseteq issued'
      BY <1>2, NamesStep
    <2>2. \A s \in Refs : (Names(s, id))' => NameKept(s, id)
      BY <1>2, NamesStep
    <2>3. \A s \in Refs : Names(s, id) => id \in issued
      BY DEF NamedOnce
    <2>4. \A s \in Refs : Names(s, id) /\ Names(r, id) => r = s
      BY DEF NamedOnce
    <2>5. id \in issued'
      BY <2>1, <2>3 DEF NameKept
    <2>6. ASSUME NEW s \in Refs, (Names(s, id))'
          PROVE  r = s
      BY <2>1, <2>2, <2>3, <2>4, <2>6 DEF NameKept
    <2> QED BY <2>5, <2>6
  <1> QED BY <1>1, <1>2

-----------------------------------------------------------------------------
(* The IDs stay with the finalizer.                                        *)

\* What the claim controller does to a reference that is kept: it may mark it.
LEMMA ClaimStepKept ==
  ASSUME TypeInv, ClaimStep, NEW r \in Refs, Kept(r)
  PROVE  /\ (Kept(r))' /\ IDKept(r) /\ ref'[r].state = ref[r].state
         /\ ref[r].deleting => ref'[r].deleting
         /\ RefKept(r) \/ ref'[r].deleting
  <1>1. ref[r] \in ProjectReference
    BY ReferenceParts
  <1>2. Deleted(ref[r], NoRef) = [ref[r] EXCEPT !.deleting = TRUE]
    BY <1>1 DEF Deleted, Collected, Kept, ProjectReference
  <1>3. CASE RefKept(r)
    BY <1>3 DEF RefKept, Kept, IDKept
  <1>4. CASE RefDeletedByClaim(r)
    BY <1>1, <1>2, <1>4 DEF RefDeletedByClaim, RefDeleted, Kept, IDKept, ProjectReference
  <1>5. ~RefCreated(r)
    BY DEF RefCreated, Kept
  <1> QED BY <1>3, <1>4, <1>5, ClaimStepRefs

\* The claim controller gives no finalizer to a reference.
LEMMA ClaimStepKeptBefore ==
  ASSUME TypeInv, ClaimStep, NEW r \in Refs, (Kept(r))'
  PROVE  Kept(r)
  <1>1. CASE RefKept(r)
    BY <1>1 DEF RefKept, Kept
  <1>2. CASE RefDeletedByClaim(r)
    <2>1. ref[r] \in ProjectReference /\ ~NoRef.exists
      BY ReferenceParts DEF NoRef
    <2> QED BY <1>2, <2>1, DeletedRef DEF RefDeletedByClaim, RefDeleted, Kept
  <1>3. ~RefCreated(r)
    <2>1. RefCreated(r) => cw.key \in Claims
      BY ClaimParts DEF RefCreated
    <2> QED BY <2>1, NewReferenceFields DEF RefCreated, Kept
  <1> QED BY <1>1, <1>2, <1>3, ClaimStepRefs

\* The ID of a reference with the finalizer changes only if it is given up.
LEMMA ReferenceStepKeptID ==
  ASSUME TypeInv, ReferenceCopyInv, IDsAreOwn, IDsStay, IDsAreKept, ReferenceStep,
         NEW r \in Refs, (Kept(r))'
  PROVE  /\ ref'[r].projectID # Nil
         /\ Kept(r) => IDKept(r)
  <1>1. ref'[r].exists /\ (IDKept(r) \/ IDWritten(r))
    BY ReferenceStepIDs DEF Kept
  <1>2. ASSUME r = rw.key, rw.pc \notin {"idle", "Condition"}, Current(ref[r], refCur[r], "refCtl")
        PROVE  rw.ref = ref[r]
    BY <1>2 DEF ReferenceCopyInv, CopiesAgree
  <1>3. CASE IDWritten(r)
    <2>1. rw.pc = "ProjectID" /\ ref'[r].projectID \in ProjectIDs /\ rw.ref = ref[r]
      BY <1>2, <1>3 DEF IDWritten, IDsStay
    <2>2. ref[r].projectID = Nil
      BY <2>1 DEF IDsAreOwn
    <2>3. ~Kept(r)
      BY <2>2 DEF IDsStay
    <2> QED BY <2>1, <2>3, NilAssumption
  <1>4. CASE IDKept(r) /\ Kept(r)
    BY <1>4 DEF IDsStay, IDKept
  <1>5. CASE IDKept(r) /\ ~Kept(r)
    <2>1. ~NoRef.exists
      BY DEF NoRef
    <2>2. rw.pc = "FinalizerAdded" /\ r = rw.key /\ Current(ref[r], refCur[r], "refCtl")
      BY <1>5, <2>1, ReferenceStepRefs DEF RefKept, RefWritten, SameRef, Kept
    <2>3. rw.ref = ref[r]
      BY <1>2, <2>2
    <2> QED BY <1>5, <2>2, <2>3 DEF IDsStay, IDKept
  <1> QED BY <1>1, <1>3, <1>4, <1>5

\* What FirstOperation has found out about the copies.
LEMMA FirstOperationFound ==
  ASSUME NEW o, NEW cl
  PROVE  /\ FirstOperation(o, cl) = "FinalizerAdded" => o.projectID # Nil
         /\ FirstOperation(o, cl) \in SetUpSteps =>
              \/ FirstOperation(o, cl) = "APIs" /\ IsCCS(o)
              \/ FirstOperation(o, cl) = "CreateProject"
         /\ FirstOperation(o, cl) \in ClaimReadySteps =>
              /\ o.state = "Ready" /\ ~o.deleting
              /\ FirstOperation(o, cl) \in {"ClaimProjectID", "ClaimReady"} => cl.zones
              /\ FirstOperation(o, cl) = "ClaimReady" => cl.projectID # Nil
  BY DEF FirstOperation, ClaimReadyOperation, SetUpOperation, AfterFinalizerAdded, SetUpSteps,
         ClaimReadySteps

\* The steps of the worker keep the IDs.
LEMMA ReferenceStepIDsStay ==
  ASSUME TypeInv, ReferenceCopyInv, UnderFinalizer, IDsAreOwn, IDsStay, SetUpSoFar,
         ReferenceStep, UnderFinalizer'
  PROVE  IDsStay'
  <1>1. rw'.pc # "FinalizerAdded"
    BY ReferenceStepMoves DEF RefWorkerMoves, FinishReference, IdleReferenceWorker
  <1> SUFFICES ASSUME IDsAreKept
               PROVE  /\ rw'.pc # "ClearProjectID"
                      /\ \A r \in Refs :
                           /\ (Kept(r))' => ref'[r].projectID # Nil
                           /\ Live(refCache'[r]) =>
                                ref'[r].projectID = refCache'[r].projectID
    BY <1>1 DEF IDsStay, IDsAreKept
  <1>2. rw'.pc # "ClearProjectID"
    <2>1. SUFFICES ASSUME rw'.pc = "ClearProjectID" PROVE FALSE
      OBVIOUS
    <2>2. rw.pc = "CreateProject"
      BY <2>1, ReferenceStepLeads DEF LeadsTo, AfterCredentials, AfterServiceAccount
    <2>3. rw.ref.projectID # Nil /\ rw.ref \in ProjectReference
      BY <2>2, ReferenceParts DEF SetUpSoFar, SetUpSteps
    <2>4. rw.ref.projectID \in ProjectIDs /\ rw.pc \notin DeletionSteps
      BY <2>2, <2>3 DEF ProjectReference, MaybeID, DeletionSteps
    <2> QED BY <2>1, <2>4, SetUpEffect DEF ProjectAdvances
  <1>3. ASSUME NEW r \in Refs, Live(refCache'[r])
        PROVE  ref'[r].projectID = refCache'[r].projectID
    <2>1. refCache' = refCache
      BY ReferenceStepRefs
    <2>2. Kept(r) /\ (Kept(r))'
      BY <1>3, <2>1 DEF UnderFinalizer
    <2>3. ref[r].projectID = refCache[r].projectID
      BY <1>3, <2>1 DEF IDsStay
    <2> QED BY <2>1, <2>2, <2>3, ReferenceStepKeptID DEF IDKept
  <1> QED BY <1>2, <1>3, ReferenceStepKeptID

\* So does every other step.
LEMMA IDsStayStep ==
  ASSUME ProvisioningIsReliable, TypeInv, ReferenceCopyInv, UnderFinalizer, IDsAreOwn, IDsStay,
         SetUpSoFar, [Next]_vars, UnderFinalizer'
  PROVE  IDsStay'
  <1>1. CASE ReferenceStep
    BY <1>1, ReferenceStepIDsStay
  <1>2. CASE ClaimStep /\ UNCHANGED Resources
    <2>1. UNCHANGED <<refCache, rw>>
      BY <1>2, ClaimStepLeaves
    <2>2. ASSUME NEW r \in Refs
          PROVE  /\ (Kept(r))' => Kept(r) /\ IDKept(r)
                 /\ Live(refCache[r]) => IDKept(r)
      <3>1. Live(refCache[r]) => Kept(r)
        BY DEF UnderFinalizer
      <3> QED BY <1>2, <3>1, ClaimStepKept, ClaimStepKeptBefore
    <2> QED BY <2>1, <2>2 DEF IDsStay, IDKept, IDsAreKept
  <1>3. ASSUME NEW s \in Refs, StartReference(s)
        PROVE  IDsStay'
    <2>1. UNCHANGED <<ref, refCache>> /\ (UNCHANGED rw \/ RefWorkerStarts(s))
      BY <1>3, StartReferenceMoves DEF caches
    <2>2. \A r \in Refs : (Kept(r))' = Kept(r)
      BY <2>1 DEF Kept
    <2>3. CASE UNCHANGED rw
      BY <2>1, <2>2, <2>3 DEF IDsStay, IDsAreKept
    <2>4. CASE RefWorkerStarts(s)
      <3>1. /\ rw'.pc = "FinalizerAdded" => rw'.ref.projectID # Nil
            /\ rw'.pc # "ClearProjectID"
        BY <2>4, FirstOperationFound DEF RefWorkerStarts, SetUpSteps
      <3> QED BY <2>1, <2>2, <3>1 DEF IDsStay, IDsAreKept
    <2> QED BY <2>1, <2>3, <2>4
  <1>4. ASSUME NEW s \in Refs, SyncRef(s)
        PROVE  IDsStay'
    <2>1. UNCHANGED <<ref, rw>> /\ \A r \in Refs : refCache'[r] \in {refCache[r], ref[r]}
      BY <1>4 DEF SyncRef, TypeInv, TypeOK, workers
    <2>2. \A r \in Refs : (Kept(r))' = Kept(r)
      BY <2>1 DEF Kept
    <2> QED BY <2>1, <2>2 DEF IDsStay, IDsAreKept
  <1>5. CASE Crash
    <2>1. UNCHANGED ref /\ refCache' = ref /\ rw'.pc = "idle"
      BY <1>5 DEF Crash, IdleReferenceWorker
    <2>2. \A r \in Refs : (Kept(r))' = Kept(r)
      BY <2>1 DEF Kept
    <2> QED BY <2>1, <2>2 DEF IDsStay, IDsAreKept
  <1>6. CASE UNCHANGED <<References, Resources>>
    BY <1>6 DEF References, refObjs, IDsStay, IDsAreKept, Kept, Live
  <1> QED BY <1>1, <1>2, <1>3, <1>4, <1>5, <1>6, StepKinds

-----------------------------------------------------------------------------
(* What the worker has done so far.                                        *)

\* What is configured stays so.
LEMMA ConfiguredImproves ==
  ASSUME NEW c, NEW p, NEW q, Improves(p, q)
  PROVE  /\ HasBilling(c, p) => HasBilling(c, q)
         /\ Configured(c, p) => Configured(c, q)
  BY DEF Improves, HasBilling, Configured

\* The call that the worker is about to make.
LEMMA StepByCall ==
  ASSUME ReferenceStep
  PROVE  /\ rw.pc = "Credentials" => CreateKey
         /\ rw.pc = "CreateSecret" => CreateSecret
         /\ rw.pc = "ConsoleAccess" => SetConsoleAccess
         /\ rw.pc = "AvailabilityZones" =>
              EnsureClaimAvailabilityZonesSet \/ HandleAvailabilityZonesError
         /\ rw.pc = "ClaimProjectID" => EnsureClaimProjectIDSet
         /\ rw.pc = "ClaimReady" => EnsureProjectClaimReady
  BY DEF ReferenceStep, EnsureProjectReferenceInitialized, DeletePolicy, DeleteServiceAccount,
         DeleteProject, DeleteConsoleAccess, DeleteCredentials, EnsureFinalizerDeleted,
         EnsureClaimAvailabilityZonesSet, HandleAvailabilityZonesError, EnsureClaimProjectIDSet,
         EnsureProjectClaimReady, EnsureProjectReferenceStatusCreating, EnsureProjectID,
         EnsureServiceAccountName, EnsureFinalizerAdded, ListProjectsFails, ProjectFound,
         ProjectInactive, ProjectMissing, ClearProjectID, ConfigureBillingAPI, ConfigureAPIS,
         ConfigureServiceAccount, SetIAMPolicy, CreateKey, CreateSecret, SetConsoleAccess,
         EnsureStateReady, FinishReference

\* createCredentials goes on only once there is a Secret.
LEMMA SecretBefore ==
  ASSUME TypeInv, CleanupIsReliable, ReferenceStep, rw.pc \in SetUpSteps,
         rw'.pc \in {"ConsoleAccess", "StateReady"}
  PROVE  /\ rw.pc = "Credentials" => secret[rw.ref.owner] # Nil
         /\ rw.pc = "CreateSecret" => secret'[rw.ref.owner] = rw.ref.projectID
         /\ rw.pc \in {"Credentials", "CreateSecret", "ConsoleAccess"}
         /\ rw.pc # "CreateSecret" => UNCHANGED secret
  <1>1. rw.pc \in {"Credentials", "CreateSecret", "ConsoleAccess"}
    BY ReferenceStepLeads DEF LeadsTo, AfterServiceAccount
  <1>2. rw \in ReferenceWorker /\ rw.ref.owner \in Claims /\ secret \in [Claims -> MaybeID]
    BY <1>1, ReferenceParts
  <1>3. CASE rw.pc = "Credentials"
    <2>1. CreateKey
      BY <1>3, StepByCall
    <2>2. UNCHANGED secret /\ CanReadSecret(rw.ref.owner)
      BY <2>1 DEF CreateKey, secrets
    <2>3. secretCache[rw.ref.owner]
      BY <1>2, <2>1 DEF CreateKey, RefGoto, RefFinish, RefFails, ReferenceWorker
    <2> QED BY <1>3, <2>2, <2>3 DEF CanReadSecret, CleanupIsReliable
  <1>4. CASE rw.pc = "CreateSecret"
    <2>1. CreateSecret
      BY <1>4, StepByCall
    <2> QED BY <1>2, <1>4, <2>1 DEF CreateSecret, RefFinish, RefFails, ReferenceWorker
  <1>5. CASE rw.pc = "ConsoleAccess"
    <2>1. SetConsoleAccess
      BY <1>5, StepByCall
    <2> QED BY <1>5, <2>1 DEF SetConsoleAccess, secrets
  <1> QED BY <1>1, <1>3, <1>4, <1>5

\* The worker's steps keep the account of what has been done.
LEMMA ReferenceStepSetUp ==
  ASSUME CleanupIsReliable, TypeInv, ReferenceCopyInv, SetUpSoFar,
         \A c \in Claims : SecretOpensProject(c), ReferenceStep
  PROVE  SetUpSoFar'
  <1> SUFFICES ASSUME rw'.pc \in SetUpSteps
               PROVE  SetUpSoFar'
    BY DEF SetUpSoFar
  <1> DEFINE id == rw.ref.projectID
             c == rw.ref.owner
             p == project[id]
             q == project'[id]
  <1>1. rw.pc \in SetUpSteps
    BY SetUpStays
  <1>2. rw.pc \notin {"idle", "Condition"} \cup DeletionSteps
        /\ rw'.pc \notin {"idle", "Condition"}
    BY <1>1 DEF SetUpSteps, DeletionSteps
  <1>3. /\ c \in Claims /\ rw.key \in Refs /\ rw.ref \in ProjectReference
        /\ RefName(c) = rw.key
    BY <1>2, ReferenceParts DEF ReferenceCopyInv, NamedAfterOwner
  <1>4. rw'.ref = rw.ref /\ rw'.key = rw.key
    BY <1>2, ReferenceStepMoves DEF RefWorkerMoves, FinishReference, IdleReferenceWorker
  <1>5. ~rw.ref.deleting /\ id # Nil /\ id = ref[rw.key].projectID
    BY <1>1 DEF SetUpSoFar
  <1>6. id \in ProjectIDs
    BY <1>3, <1>5 DEF ProjectReference, MaybeID
  <1>7. ref'[rw.key] = ref[rw.key]
    BY <1>2, <1>3, ReferenceStepRefs DEF RefKept, RefWritten
  <1>8. /\ Improves(p, q) /\ DoneBefore(rw'.pc, q)
        /\ rw'.pc = "ClearProjectID" => p.life = "none"
    BY <1>2, <1>6, SetUpEffect DEF ProjectAdvances
  <1>9. LeadsTo(rw.pc, rw'.pc, rw.ref)
    BY <1>2, ReferenceStepLeads
  <1>10. /\ rw.pc \notin {"CreateProject", "ClearProjectID", "Billing"} => HasBilling(c, p)
         /\ rw.pc \in {"ServiceAccount", "Policy"} => p.life = "ACTIVE" /\ p.apis
         /\ rw.pc = "Policy" => p.sa
         /\ rw.pc \in {"Credentials", "CreateSecret", "ConsoleAccess", "StateReady"} =>
              Configured(c, p)
         /\ rw.pc \in {"ConsoleAccess", "StateReady"} => secret[c] = id
    BY <1>1 DEF SetUpSoFar
  <1>11. SecretOpensProject(c)
    BY <1>3
  <1> HIDE DEF p, q, id, c
  <1>12. rw'.pc \notin {"CreateProject", "ClearProjectID", "Billing"} => HasBilling(c, q)
    <2>1. CASE rw.pc = "Billing"
      BY <1>8, <1>9, <2>1 DEF LeadsTo, DoneBefore, HasBilling
    <2>2. CASE rw.pc \notin {"Billing", "CreateProject", "ClearProjectID"}
      BY <1>8, <1>10, <2>2, ConfiguredImproves
    <2>3. CASE rw.pc \in {"CreateProject", "ClearProjectID"}
      BY <1>9, <2>3 DEF LeadsTo
    <2> QED BY <2>1, <2>2, <2>3
  <1>13. rw'.pc \in {"ServiceAccount", "Policy"} => q.life = "ACTIVE" /\ q.apis
    <2>1. rw'.pc = "Policy" => rw.pc = "ServiceAccount"
      BY <1>9 DEF LeadsTo, AfterCredentials, AfterServiceAccount
    <2> QED BY <1>8, <1>10, <2>1 DEF DoneBefore, Improves
  <1>14. rw'.pc = "Policy" => q.sa
    BY <1>8 DEF DoneBefore
  <1>15. rw'.pc \in {"Credentials", "CreateSecret", "ConsoleAccess", "StateReady"} =>
           Configured(c, q)
    <2>1. rw'.pc \in {"Credentials", "CreateSecret", "ConsoleAccess", "StateReady"} =>
            \/ rw.pc = "Policy" /\ rw'.pc = "Credentials"
            \/ rw.pc \in {"Credentials", "CreateSecret", "ConsoleAccess"}
      BY <1>9 DEF LeadsTo, AfterServiceAccount
    <2>2. CASE rw.pc = "Policy" /\ rw'.pc = "Credentials"
      BY <1>8, <1>10, <1>12, <2>2 DEF DoneBefore, Improves, Configured
    <2>3. CASE rw.pc \in {"Credentials", "CreateSecret", "ConsoleAccess"}
      BY <1>8, <1>10, <2>3, ConfiguredImproves
    <2> QED BY <2>1, <2>2, <2>3
  <1>16. rw'.pc \in {"ConsoleAccess", "StateReady"} => secret'[c] = id
    <2>1. SUFFICES ASSUME rw'.pc \in {"ConsoleAccess", "StateReady"} PROVE secret'[c] = id
      OBVIOUS
    <2>2. /\ rw.pc = "Credentials" => secret[c] # Nil
          /\ rw.pc = "CreateSecret" => secret'[c] = id
          /\ rw.pc \in {"Credentials", "CreateSecret", "ConsoleAccess"}
          /\ rw.pc # "CreateSecret" => UNCHANGED secret
      BY <1>1, <2>1, SecretBefore DEF c, id
    <2>3. rw.pc = "Credentials" => secret[c] = id
      BY <1>3, <1>5, <1>11, <2>2 DEF SecretOpensProject
    <2> QED BY <1>10, <2>2, <2>3
  <1>17. rw'.pc = "ClearProjectID" => ref[rw.key].deleting \/ secret'[c] = Nil
    <2>1. SUFFICES ASSUME rw'.pc = "ClearProjectID", ~ref[rw.key].deleting PROVE secret'[c] = Nil
      OBVIOUS
    <2>2. rw.pc = "CreateProject"
      BY <1>9, <2>1 DEF LeadsTo, AfterCredentials, AfterServiceAccount
    <2>3. p.life = "none"
      BY <1>8, <2>1
    <2>4. secret[c] = Nil
      BY <1>3, <1>5, <1>11, <2>1, <2>3 DEF SecretOpensProject, Configured, p
    <2>5. secret'[c] = secret[c]
      BY <1>3, <2>2, SecretChanges DEF c
    <2> QED BY <2>4, <2>5
  <1> QED
    BY <1>4, <1>5, <1>7, <1>12, <1>13, <1>14, <1>15, <1>16, <1>17 DEF SetUpSoFar, p, q, id, c

\* A reconcile begins with the ID that is stored: a cache that may be behind
\* shows no other.
LEMMA StartSetUp ==
  ASSUME ProvisioningIsReliable, TypeInv, ReferenceCopyInv, IDsStay, SetUpSoFar,
         NEW s \in Refs, StartReference(s), UNCHANGED Resources
  PROVE  SetUpSoFar'
  <1>1. UNCHANGED ref /\ (UNCHANGED rw \/ RefWorkerStarts(s))
    BY StartReferenceMoves
  <1>2. CASE UNCHANGED rw
    BY <1>1, <1>2 DEF SetUpSoFar, Resources
  <1>3. CASE RefWorkerStarts(s) /\ rw'.pc \in SetUpSteps
    <2> DEFINE o == refCache[s]
    <2>1. /\ o.exists /\ CanReadRef(s) /\ rw'.ref = o /\ rw'.key = s
          /\ rw'.pc = FirstOperation(o, claimCache[o.owner])
      BY <1>3 DEF RefWorkerStarts
    <2>2. ~o.deleting /\ o.finalizer /\ o.projectID # Nil
      BY <1>3, <2>1, FirstOperationKind
    <2>3. (rw'.pc = "APIs" /\ o.owner \in CCS) \/ rw'.pc = "CreateProject"
      BY <1>3, <2>1, FirstOperationFound DEF IsCCS
    <2>4. o.projectID = ref[s].projectID
      <3>1. CASE "cache" \in refCur[s]
        BY <3>1 DEF ReferenceCopyInv, CopiesAgree
      <3>2. CASE "cacheLag" \in Faults
        <4>1. IDsAreKept
          BY <3>2 DEF ProvisioningIsReliable, IDsAreKept
        <4>2. Live(o)
          BY <2>1, <2>2 DEF Live
        <4> QED BY <4>1, <4>2 DEF IDsStay
      <3> QED BY <2>1, <3>1, <3>2 DEF CanReadRef
    <2> QED BY <1>1, <2>1, <2>2, <2>3, <2>4 DEF SetUpSoFar, HasBilling
  <1> QED BY <1>1, <1>2, <1>3 DEF SetUpSoFar

\* No other step disturbs it: the reference keeps its finalizer and its ID.
LEMMA SetUpSoFarStep ==
  ASSUME ProvisioningIsReliable, CleanupIsReliable, TypeInv, ReferenceCopyInv, UnderFinalizer,
         IDsStay, SetUpSoFar, \A c \in Claims : SecretOpensProject(c), [Next]_vars
  PROVE  SetUpSoFar'
  <1>1. CASE ReferenceStep
    BY <1>1, ReferenceStepSetUp
  <1>2. CASE ClaimStep /\ UNCHANGED Resources
    <2>1. UNCHANGED <<refCache, rw>>
      BY <1>2, ClaimStepLeaves
    <2>2. CASE rw.pc \in SetUpSteps
      <3>1. rw.key \in Refs
        BY <2>2, ReferenceParts DEF SetUpSteps
      <3>2. /\ ref'[rw.key].projectID = ref[rw.key].projectID
            /\ ref[rw.key].deleting => ref'[rw.key].deleting
        BY <1>2, <2>2, <3>1, ClaimStepKept DEF UnderFinalizer, IDKept
      <3> QED BY <1>2, <2>1, <2>2, <3>2 DEF SetUpSoFar, Resources
    <2> QED BY <2>1, <2>2 DEF SetUpSoFar
  <1>3. ASSUME NEW s \in Refs, SyncRef(s), UNCHANGED Resources
        PROVE  SetUpSoFar'
    BY <1>3 DEF SyncRef, workers, Resources, SetUpSoFar
  <1>4. CASE Crash
    BY <1>4 DEF Crash, IdleReferenceWorker, SetUpSoFar, SetUpSteps
  <1>5. CASE UNCHANGED <<References, Resources>>
    BY <1>5 DEF References, Resources, refObjs, SetUpSoFar
  <1> QED BY <1>1, <1>2, <1>3, <1>4, <1>5, StartSetUp, StepKinds

-----------------------------------------------------------------------------
(* What a Secret stands for.                                               *)

\* A reference that is being deleted does not come back.
LEMMA DeletingStays ==
  ASSUME TypeInv, ReferenceCopyInv, ReferenceStep, NEW r \in Refs, ref'[r].exists
  PROVE  ref[r].exists /\ (ref[r].deleting => ref'[r].deleting)
  <1>1. ~NoRef.exists
    BY DEF NoRef
  <1>2. CASE RefKept(r)
    BY <1>2 DEF RefKept
  <1>3. CASE RefWritten(r)
    <2>1. CASE rw.pc = "FinalizerAdded"
      <3>1. rw.ref = ref[r] /\ ref[r].exists
        BY <1>3, <2>1 DEF RefWritten, Current, ReferenceCopyInv, CopiesAgree
      <3>2. ~rw.ref.deleting
        BY <2>1 DEF TypeInv, KeysOK
      <3> QED BY <3>1, <3>2
    <2>2. CASE rw.pc # "FinalizerAdded"
      BY <1>1, <1>3, <2>2 DEF RefWritten, SameRef, Current
    <2> QED BY <2>1, <2>2
  <1> QED BY <1>2, <1>3, ReferenceStepRefs

\* A Secret goes only while its reference is being deleted.
LEMMA SecretGoes ==
  ASSUME NamesAreDistinct, TypeInv, ReferenceCopyInv, UnderFinalizer, ReferenceStep,
         NEW c \in Claims, CleanupPending(c), secret[c] # Nil, secret'[c] # secret[c]
  PROVE  /\ UNCHANGED <<refObjs, claimObjs>> /\ secret'[c] = Nil
         /\ ref[RefName(c)].exists /\ ref[RefName(c)].deleting
  <1>1. /\ c = rw.ref.owner /\ UNCHANGED <<refObjs, claimObjs>>
        /\ rw.pc = "DeleteCredentials" /\ secret'[c] = Nil
    BY SecretChanges
  <1>2. rw.key = RefName(c)
    BY <1>1 DEF ReferenceCopyInv, NamedAfterOwner
  <1>3. ~Live(ref[RefName(c)])
    BY <1>1, <1>2 DEF UnderFinalizer, DeletionSteps
  <1> QED BY <1>1, <1>3 DEF CleanupPending, Kept, Live

\* The project that a Secret opens stays configured until the reference goes:
\* the worker of another reference has another project.
LEMMA ConfiguredStays ==
  ASSUME TypeInv, UnderFinalizer, NamedOnce, ReferenceStep,
         NEW c \in Claims, NEW r \in Refs, Kept(r), ~ref[r].deleting,
         NEW id \in ProjectIDs, ref[r].projectID = id, Configured(c, project[id])
  PROVE  Configured(c, project'[id])
  <1>1. CASE id # rw.ref.projectID
    <2>1. project'[id] = project[id]
      BY <1>1, OthersUntouched
    <2> QED BY <2>1
  <1>2. CASE rw.pc = "Condition"
    <2>1. UNCHANGED project
      BY <1>2, ConditionFinishes, WritersEnd
    <2> QED BY <2>1
  <1>3. CASE id = rw.ref.projectID /\ rw.pc # "Condition"
    <2>1. rw.pc # "idle" /\ rw.key \in Refs
      BY ReferenceStepMoves, ReferenceParts
    <2>2. Names(rw.key, id) /\ Names(r, id)
      BY <1>3, <2>1 DEF Names, Kept
    <2>3. rw.key = r
      BY <2>1, <2>2 DEF NamedOnce
    <2>4. rw.pc \notin DeletionSteps
      BY <2>3 DEF UnderFinalizer, Kept, Live
    <2>5. Improves(project[id], project'[id])
      BY <1>3, <2>4, SetUpEffect DEF ProjectAdvances
    <2> QED BY <2>5, ConfiguredImproves
  <1> QED BY <1>1, <1>2, <1>3

\* The worker's steps keep what a Secret stands for.
LEMMA ReferenceStepSecretOpens ==
  ASSUME NamesAreDistinct, TypeInv, ReferenceCopyInv, UnderFinalizer, IDsAreOwn, NamedOnce,
         SetUpSoFar, NEW c \in Claims, CleanupPending(c), SecretOpensProject(c),
         ReferenceStep, (CleanupPending(c))'
  PROVE  (SecretOpensProject(c))'
  <1> DEFINE r == RefName(c)
  <1> SUFFICES ASSUME secret'[c] # Nil
               PROVE  /\ ref'[r].projectID = secret'[c]
                      /\ ref'[r].deleting \/ Configured(c, project'[secret'[c]])
    BY DEF SecretOpensProject, Configured, HasBilling
  <1>1. r \in Refs /\ secret \in [Claims -> MaybeID]
    BY ReferenceParts DEF Refs
  <1>2. rw.pc # "idle"
    BY ReferenceStepMoves
  <1>3. rw.key = r <=> rw.ref.owner = c
    BY <1>2, ReferenceParts DEF ReferenceCopyInv, NamedAfterOwner, NamesAreDistinct
  <1> HIDE DEF r
  <1>4. CASE secret'[c] = secret[c]
    <2>1. secret[c] # Nil /\ secret[c] \in ProjectIDs
      BY <1>1, <1>4 DEF MaybeID
    <2>2. /\ Kept(r) /\ ref[r].projectID = secret[c]
          /\ ref[r].deleting \/ Configured(c, project[secret[c]])
      BY <2>1 DEF CleanupPending, SecretOpensProject, r
    <2>3. ref'[r].exists
      BY <1>4, <2>1 DEF CleanupPending, Kept, r
    <2>4. ~IDWritten(r)
      <3>1. SUFFICES ASSUME IDWritten(r) PROVE FALSE
        OBVIOUS
      <3>2. rw.key = r /\ rw.ref = ref[r] /\ rw.pc \in {"ClearProjectID", "ProjectID"}
        BY <3>1 DEF IDWritten, ReferenceCopyInv, CopiesAgree
      <3>3. CASE rw.pc = "ClearProjectID"
        <4>1. ~ref[r].deleting /\ (ref[r].deleting \/ secret[c] = Nil)
          BY <1>3, <3>2, <3>3 DEF SetUpSoFar, SetUpSteps
        <4> QED BY <2>1, <4>1
      <3>4. CASE rw.pc = "ProjectID"
        BY <2>1, <2>2, <3>2, <3>4 DEF IDsAreOwn
      <3> QED BY <3>2, <3>3, <3>4
    <2>5. ref'[r].projectID = ref[r].projectID
      BY <1>1, <2>3, <2>4, ReferenceStepIDs DEF IDKept
    <2>6. ref[r].deleting => ref'[r].deleting
      BY <1>1, <2>3, DeletingStays
    <2>7. CASE ~ref[r].deleting
      <3>1. Configured(c, project'[secret[c]])
        BY <1>1, <2>1, <2>2, <2>7, ConfiguredStays
      <3> QED BY <1>4, <2>2, <2>5, <3>1
    <2> QED BY <1>4, <2>2, <2>5, <2>6, <2>7
  <1>5. CASE secret'[c] # secret[c]
    <2>1. /\ c = rw.ref.owner /\ UNCHANGED <<ref, project>>
          /\ rw.pc = "CreateSecret" /\ secret'[c] = rw.ref.projectID
      BY <1>5, SecretChanges DEF refObjs, cloud
    <2>2. /\ rw.ref.projectID = ref[r].projectID
          /\ Configured(c, project[rw.ref.projectID])
      BY <1>3, <2>1 DEF SetUpSoFar, SetUpSteps
    <2> QED BY <2>1, <2>2
  <1> QED BY <1>4, <1>5

\* So does every other step.
LEMMA SecretOpensStep ==
  ASSUME ProvisioningIsReliable, NamesAreDistinct, TypeInv, ReferenceCopyInv, UnderFinalizer,
         IDsAreOwn, NamedOnce, SetUpSoFar, NEW c \in Claims, CleanupPending(c),
         SecretOpensProject(c), [Next]_vars, (CleanupPending(c))'
  PROVE  (SecretOpensProject(c))'
  <1>1. RefName(c) \in Refs
    BY DEF Refs
  <1>2. CASE ReferenceStep
    BY <1>2, ReferenceStepSecretOpens
  <1>3. CASE UNCHANGED Resources /\ UNCHANGED ref
    BY <1>3 DEF Resources, SecretOpensProject, Configured, HasBilling
  <1>4. CASE ClaimStep /\ UNCHANGED Resources
    <2>1. CASE secret[c] # Nil
      <3>1. /\ ref'[RefName(c)].projectID = ref[RefName(c)].projectID
            /\ ref[RefName(c)].deleting => ref'[RefName(c)].deleting
        BY <1>1, <1>4, <2>1, ClaimStepKept DEF CleanupPending, IDKept
      <3> QED BY <1>4, <3>1 DEF Resources, SecretOpensProject, Configured, HasBilling
    <2> QED BY <1>4, <2>1 DEF Resources, SecretOpensProject
  <1>5. (\E r \in Refs : StartReference(r) \/ SyncRef(r)) \/ Crash \/ UNCHANGED References
          => UNCHANGED ref
    BY DEF StartReference, SyncRef, Crash, References, refObjs
  <1> QED BY <1>2, <1>3, <1>4, <1>5, StepKinds

-----------------------------------------------------------------------------
(* What the state of a reference stands for.                               *)

\* The worker sets a reference Ready, or stores a copy that is.
Readied(r) ==
  /\ r = rw.key /\ Current(ref[r], refCur[r], "refCtl")
  /\ rw.pc = "StateReady" \/ rw.ref.state = "Ready"

\* Where the state Ready comes from.
ReadyHasOrigin ==
  /\ \A r \in Refs : ref'[r].state = "Ready" => ref[r].state = "Ready" \/ Readied(r)
  /\ rw'.pc = "Condition" /\ rw'.ref.state = "Ready" =>
       rw.pc = "StateReady" \/ rw.ref.state = "Ready" \/ ref[rw.key].state = "Ready"

\* The state that a write of the spec or of the status leaves.
LEMMA StoredState ==
  ASSUME NEW o \in ProjectReference, NEW old \in ProjectReference, NEW any
  PROVE  /\ RefUpdate(o, old).state = old.state \/ RefUpdate(o, old).state = ""
         /\ RefStatusUpdate(any, old).state = any.state
  BY DEF RefUpdate, RefStatusUpdate, Collected, NoRef, ProjectReference

\* A write of the status.
LEMMA StatusOrigin ==
  ASSUME TypeInv, rw.pc # "idle", NEW o, RefStores(RefStatusUpdate(o, ref[rw.key])),
         o.state = "Ready" => rw.pc = "StateReady" \/ rw.ref.state = "Ready",
         rw'.pc = "idle" \/ rw'.ref = o
  PROVE  ReadyHasOrigin
  <1>1. ref[rw.key] \in ProjectReference
    BY ReferenceParts
  <1>2. RefStatusUpdate(o, ref[rw.key]).state = o.state
    BY <1>1 DEF RefStatusUpdate, ProjectReference
  <1>3. ASSUME NEW r \in Refs, ref'[r].state = "Ready"
        PROVE  ref[r].state = "Ready" \/ Readied(r)
    BY <1>2, <1>3 DEF RefStores, Readied
  <1> QED BY <1>3 DEF ReadyHasOrigin

\* A write of the spec.
LEMMA SpecOrigin ==
  ASSUME TypeInv, rw.pc # "idle", NEW o \in ProjectReference,
         RefStores(RefUpdate(o, ref[rw.key])), o.state = rw.ref.state,
         rw'.ref = o \/ rw'.ref = RefUpdate(o, ref[rw.key])
  PROVE  ReadyHasOrigin
  <1>1. ref[rw.key] \in ProjectReference
    BY ReferenceParts
  <1>2. \/ RefUpdate(o, ref[rw.key]).state = ref[rw.key].state
        \/ RefUpdate(o, ref[rw.key]).state = ""
    BY <1>1, StoredState
  <1>3. ASSUME NEW r \in Refs, ref'[r].state = "Ready"
        PROVE  ref[r].state = "Ready"
    BY <1>2, <1>3 DEF RefStores
  <1> QED BY <1>2, <1>3 DEF ReadyHasOrigin

\* A status that is written and ends the reconcile.
LEMMA SaveStatusOrigin ==
  ASSUME TypeInv, rw.pc # "idle", NEW o, SaveRefStatus(o),
         o.state = "Ready" => rw.pc = "StateReady" \/ rw.ref.state = "Ready"
  PROVE  ReadyHasOrigin
  <1>1. PICK ok \in BOOLEAN : UpdateRefStatus(rw.key, o, FALSE, ok) /\ RefFinish(ErrorOrStop(ok), o)
    BY DEF SaveRefStatus
  <1>2. RefStores(RefStatusUpdate(o, ref[rw.key]))
    BY <1>1, UpdateRefStores
  <1>3. rw'.ref = o
    BY <1>1, ReferenceParts DEF RefFinish, ReferenceWorker
  <1> QED BY <1>2, <1>3, StatusOrigin

\* A spec that is written and ends the reconcile.
LEMMA SaveSpecOrigin ==
  ASSUME TypeInv, rw.pc # "idle", NEW o \in ProjectReference, o.state = rw.ref.state,
         NEW ok, UpdateRef(rw.key, o, ok), NEW out,
         RefFinish(out, o) \/ RefFinish(out, Answer(ok, RefUpdate(o, ref[rw.key]), o))
  PROVE  ReadyHasOrigin
  <1>1. RefStores(RefUpdate(o, ref[rw.key]))
    <2>1. TRUE \in BOOLEAN
      OBVIOUS
    <2> QED BY <2>1, UpdateRefStores
  <1>2. rw'.ref = o \/ rw'.ref = RefUpdate(o, ref[rw.key])
    BY ReferenceParts DEF RefFinish, ReferenceWorker, Answer
  <1> QED BY <1>1, <1>2, SpecOrigin

\* The edits of the copy leave the state.
LEMMA EditsKeepState ==
  ASSUME NEW o \in ProjectReference, NEW id \in MaybeID
  PROVE  /\ [o EXCEPT !.inited = TRUE].state = o.state
         /\ [o EXCEPT !.state = "Creating"].state = "Creating"
         /\ [o EXCEPT !.state = "Error"].state = "Error"
         /\ LET e == [o EXCEPT !.projectID = id] IN e \in ProjectReference /\ e.state = o.state
         /\ LET e == [o EXCEPT !.saName = TRUE] IN e \in ProjectReference /\ e.state = o.state
         /\ LET e == [o EXCEPT !.finalizer = TRUE] IN e \in ProjectReference /\ e.state = o.state
         /\ LET e == [o EXCEPT !.finalizer = FALSE] IN e \in ProjectReference /\ e.state = o.state
         /\ [o EXCEPT !.compute = "True"].state = o.state
         /\ [o EXCEPT !.compute = "False"].state = o.state
  BY DEF ProjectReference

\* The writes of the reference.
LEMMA WritersOrigin ==
  ASSUME TypeInv,
         \/ EnsureProjectReferenceInitialized \/ EnsureProjectReferenceStatusCreating
         \/ EnsureServiceAccountName \/ EnsureFinalizerAdded \/ EnsureStateReady
         \/ ProjectInactive \/ ClearProjectID \/ EnsureFinalizerDeleted
         \/ EnsureProjectID \/ HandleAvailabilityZonesError \/ FinishReference
  PROVE  ReadyHasOrigin
  <1>1. rw.pc # "idle" /\ rw \in ReferenceWorker /\ rw.ref \in ProjectReference
    BY ReferenceParts
       DEF EnsureProjectReferenceInitialized, EnsureProjectReferenceStatusCreating,
           EnsureServiceAccountName, EnsureFinalizerAdded, EnsureStateReady, ProjectInactive,
           ClearProjectID, EnsureFinalizerDeleted, EnsureProjectID,
           HandleAvailabilityZonesError, FinishReference
  <1>2. ProjectIDs \subseteq MaybeID /\ Nil \in MaybeID
    BY DEF MaybeID
  <1>3. ASSUME NEW o \in ProjectReference, o.state = rw.ref.state, SaveRef(o)
        PROVE  ReadyHasOrigin
    BY <1>1, <1>3, SaveSpecOrigin DEF SaveRef
  <1>4. CASE EnsureProjectReferenceInitialized
    <2> DEFINE e == [rw.ref EXCEPT !.inited = TRUE]
    <2>1. SaveRefStatus(e) /\ e.state = rw.ref.state
      BY <1>1, <1>2, <1>4, EditsKeepState DEF EnsureProjectReferenceInitialized
    <2> HIDE DEF e
    <2> QED BY <1>1, <2>1, SaveStatusOrigin
  <1>5. CASE EnsureProjectReferenceStatusCreating
    <2> DEFINE e == [rw.ref EXCEPT !.state = "Creating"]
    <2>1. SaveRefStatus(e) /\ e.state = "Creating"
      BY <1>1, <1>2, <1>5, EditsKeepState DEF EnsureProjectReferenceStatusCreating
    <2> HIDE DEF e
    <2> QED BY <1>1, <2>1, SaveStatusOrigin
  <1>6. CASE ProjectInactive
    <2> DEFINE e == [rw.ref EXCEPT !.state = "Error"]
    <2>1. SaveRefStatus(e) /\ e.state = "Error"
      BY <1>1, <1>2, <1>6, EditsKeepState DEF ProjectInactive
    <2> HIDE DEF e
    <2> QED BY <1>1, <2>1, SaveStatusOrigin
  <1>7. CASE EnsureStateReady
    <2> DEFINE e == [rw.ref EXCEPT !.state = "Ready"]
    <2>1. SaveRefStatus(e) /\ rw.pc = "StateReady"
      BY <1>7 DEF EnsureStateReady
    <2> HIDE DEF e
    <2> QED BY <1>1, <2>1, SaveStatusOrigin
  <1>8. CASE EnsureServiceAccountName
    BY <1>1, <1>2, <1>3, <1>8, EditsKeepState DEF EnsureServiceAccountName
  <1>9. CASE EnsureFinalizerAdded
    BY <1>1, <1>2, <1>3, <1>9, EditsKeepState DEF EnsureFinalizerAdded
  <1>10. CASE ClearProjectID
    <2> DEFINE e == [rw.ref EXCEPT !.projectID = Nil]
    <2>1. e \in ProjectReference /\ e.state = rw.ref.state
      BY <1>1, <1>2, EditsKeepState
    <2>2. PICK ok \in BOOLEAN : /\ UpdateRef(rw.key, e, ok)
                                /\ RefFinish("error", Answer(ok, RefUpdate(e, ref[rw.key]), e))
      BY <1>10 DEF ClearProjectID
    <2> HIDE DEF e
    <2> QED BY <1>1, <2>1, <2>2, SaveSpecOrigin
  <1>11. CASE EnsureFinalizerDeleted
    <2> DEFINE e == [rw.ref EXCEPT !.finalizer = FALSE]
    <2>1. e \in ProjectReference /\ e.state = rw.ref.state
      BY <1>1, <1>2, EditsKeepState
    <2>2. PICK ok \in BOOLEAN : UpdateRef(rw.key, e, ok) /\ RefFinish(ErrorOrStop(ok), e)
      BY <1>11 DEF EnsureFinalizerDeleted
    <2> HIDE DEF e
    <2> QED BY <1>1, <2>1, <2>2, SaveSpecOrigin
  <1>12. CASE EnsureProjectID
    <2>1. CASE \E id \in ProjectIDs \ issued : SaveRef([rw.ref EXCEPT !.projectID = id])
      <3>1. PICK id \in ProjectIDs \ issued : SaveRef([rw.ref EXCEPT !.projectID = id])
        BY <2>1
      <3> DEFINE e == [rw.ref EXCEPT !.projectID = id]
      <3>2. e \in ProjectReference /\ e.state = rw.ref.state /\ SaveRef(e)
        BY <1>1, <1>2, <3>1, EditsKeepState
      <3> HIDE DEF e
      <3> QED BY <1>3, <3>2
    <2>2. CASE RefFails /\ UNCHANGED refObjs
      BY <1>1, <2>2 DEF RefFails, RefFinish, ReferenceWorker, refObjs, ReadyHasOrigin
    <2> QED BY <1>12, <2>1, <2>2 DEF EnsureProjectID, refObjs
  <1>13. CASE HandleAvailabilityZonesError
    <2> DEFINE e == [rw.ref EXCEPT !.compute = "False"]
    <2>1. e.state = rw.ref.state
      BY <1>1, <1>2, EditsKeepState
    <2>2. CASE \E ok, t \in BOOLEAN, out \in Outcome :
                 UpdateRefStatus(rw.key, e, t, ok) /\ RefFinish(out, e)
      <3> HIDE DEF e
      <3>1. PICK ok, t \in BOOLEAN, out \in Outcome :
              UpdateRefStatus(rw.key, e, t, ok) /\ RefFinish(out, e)
        BY <2>2
      <3>2. RefStores(RefStatusUpdate(e, ref[rw.key]))
        BY <1>1, <3>1, UpdateRefStores
      <3>3. rw'.ref = e
        BY <1>1, <3>1 DEF RefFinish, ReferenceWorker
      <3> QED BY <1>1, <2>1, <3>2, <3>3, StatusOrigin
    <2>3. CASE RefFails /\ UNCHANGED refObjs
      BY <1>1, <2>3 DEF RefFails, RefFinish, ReferenceWorker, refObjs, ReadyHasOrigin
    <2> QED BY <1>13, <2>2, <2>3 DEF HandleAvailabilityZonesError, Outcome
  <1>14. CASE FinishReference
    <2> DEFINE e == ReferenceCondition(rw.ref, rw.out)
    <2>1. rw'.pc = "idle"
      BY <1>14 DEF FinishReference, IdleReferenceWorker
    <2>2. e.state = rw.ref.state
      BY <1>1 DEF ReferenceCondition, ProjectReference
    <2> HIDE DEF e
    <2>3. UNCHANGED ref \/ RefStores(RefStatusUpdate(e, ref[rw.key]))
      <3> DEFINE new == RefStatusUpdate(e, ref[rw.key])
      <3>1. \/ UNCHANGED ref
            \/ \E t \in BOOLEAN : \E w \in Replies("refCtl", ref[rw.key], refCur[rw.key], new, t) :
                 /\ ref' = [ref EXCEPT ![rw.key] = w.obj]
                 /\ refCur' = [refCur EXCEPT ![rw.key] = w.cur \ {"refCtl"}]
        BY <1>14 DEF FinishReference, e
      <3> HIDE DEF new
      <3>2. UNCHANGED ref \/ RefStores(new)
        BY <1>1, <3>1, RefReplyStores
      <3> QED BY <3>2 DEF new
    <2>4. CASE UNCHANGED ref
      BY <2>1, <2>4 DEF ReadyHasOrigin
    <2>5. CASE RefStores(RefStatusUpdate(e, ref[rw.key]))
      BY <1>1, <2>1, <2>2, <2>5, StatusOrigin
    <2> QED BY <2>3, <2>4, <2>5
  <1> QED
    BY <1>4, <1>5, <1>6, <1>7, <1>8, <1>9, <1>10, <1>11, <1>12, <1>13, <1>14

\* The other steps leave the references and the worker's copy, or note the
\* condition of type ComputeApiReady in it.
LEMMA ReferenceStepOrigin ==
  ASSUME TypeInv, ReferenceStep
  PROVE  ReadyHasOrigin
  <1>1. rw \in ReferenceWorker /\ rw.ref \in ProjectReference
    BY ReferenceParts
  <1>2. /\ \A pc : RefGoto(pc) => rw'.ref = rw.ref
        /\ \A out : RefFinish(out, rw.ref) => rw'.ref = rw.ref
        /\ RefFails => rw'.ref = rw.ref
    BY <1>1 DEF RefGoto, RefFinish, RefFails, ReferenceWorker
  <1>3. \A p, pc : Configure(p, pc) => rw'.ref = rw.ref
    BY <1>2 DEF Configure
  <1>4. ASSUME UNCHANGED ref, rw'.ref.state = rw.ref.state
        PROVE  ReadyHasOrigin
    BY <1>4 DEF ReadyHasOrigin
  <1>5. CASE \/ DeletePolicy \/ DeleteServiceAccount \/ DeleteProject \/ DeleteConsoleAccess
             \/ DeleteCredentials \/ ListProjectsFails \/ ProjectFound \/ ProjectMissing
             \/ ConfigureBillingAPI \/ ConfigureAPIS \/ ConfigureServiceAccount \/ SetIAMPolicy
             \/ CreateKey \/ CreateSecret \/ SetConsoleAccess
    <2>1. UNCHANGED ref
      BY <1>5, CloudMoves DEF refObjs
    <2>2. rw'.ref = rw.ref
      BY <1>2, <1>3, <1>5
         DEF DeletePolicy, DeleteServiceAccount, DeleteProject, DeleteConsoleAccess,
             DeleteCredentials, ListProjectsFails, ProjectFound, ProjectMissing,
             ConfigureBillingAPI, ConfigureAPIS, ConfigureServiceAccount, SetIAMPolicy,
             CreateKey, CreateSecret, SetConsoleAccess
    <2> QED BY <1>4, <2>1, <2>2
  <1>6. CASE EnsureClaimAvailabilityZonesSet
    <2>1. UNCHANGED ref /\ rw'.ref = [rw.ref EXCEPT !.compute = "True"]
      BY <1>1, <1>6 DEF EnsureClaimAvailabilityZonesSet, RefFinish, ReferenceWorker, refObjs
    <2>2. rw'.ref.state = rw.ref.state
      BY <1>1, <2>1 DEF ProjectReference
    <2> QED BY <1>4, <2>1, <2>2
  <1>7. CASE EnsureClaimProjectIDSet \/ EnsureProjectClaimReady
    <2>1. UNCHANGED ref
      BY <1>7 DEF EnsureClaimProjectIDSet, EnsureProjectClaimReady, refObjs
    <2>2. rw'.ref = rw.ref
      <3>1. CASE EnsureClaimProjectIDSet
        <4>1. \/ \E cl : rw' = [rw EXCEPT !.pc = "ClaimReady", !.claim = cl]
              \/ RefFails
          BY <3>1 DEF EnsureClaimProjectIDSet
        <4> QED BY <1>1, <1>2, <4>1 DEF ReferenceWorker
      <3>2. CASE EnsureProjectClaimReady
        BY <1>2, <3>2 DEF EnsureProjectClaimReady
      <3> QED BY <1>7, <3>1, <3>2
    <2> QED BY <1>4, <2>1, <2>2
  <1> QED BY <1>5, <1>6, <1>7, WritersOrigin DEF ReferenceStep

\* The reference is there, and there is a Secret or a deletion under way.
HasSecret(c) ==
  ref[RefName(c)].exists /\ (ref[RefName(c)].deleting \/ secret[c] # Nil)

\* The worker keeps it so while the reference is there.
LEMMA HasSecretStays ==
  ASSUME NamesAreDistinct, TypeInv, ReferenceCopyInv, UnderFinalizer, ReferenceStep,
         NEW c \in Claims, CleanupPending(c), HasSecret(c), ref'[RefName(c)].exists
  PROVE  ref'[RefName(c)].deleting \/ secret'[c] # Nil
  <1>1. RefName(c) \in Refs
    BY DEF Refs
  <1>2. ref[RefName(c)].deleting => ref'[RefName(c)].deleting
    BY <1>1, DeletingStays
  <1>3. CASE secret[c] # Nil /\ secret'[c] # secret[c]
    BY <1>2, <1>3, SecretGoes
  <1> QED BY <1>2, <1>3 DEF HasSecret

\* The worker makes a reference Ready only once there is a Secret.
LEMMA ReferenceStepReady ==
  ASSUME NamesAreDistinct, TypeInv, ReferenceCopyInv, UnderFinalizer, SetUpSoFar,
         NEW c \in Claims, CleanupPending(c), ReadyReferenceHasSecret(c), ReferenceStep
  PROVE  (ReadyReferenceHasSecret(c))'
  <1> DEFINE r == RefName(c)
             o == refCache[r]
  <1>1. r \in Refs /\ refCache' = refCache /\ rw.pc # "idle"
    BY ReferenceStepRefs, ReferenceStepMoves DEF Refs
  <1>2. ReadyHasOrigin
    BY ReferenceStepOrigin
  <1>3. rw.key = r => rw.ref.owner = c
    BY <1>1, ReferenceParts DEF ReferenceCopyInv, NamedAfterOwner, NamesAreDistinct
  <1>4. /\ ref[r].exists /\ ref[r].state = "Ready" => ref[r].deleting \/ secret[c] # Nil
        /\ o.exists /\ o.state = "Ready" /\ ~o.deleting =>
             \/ secret[c] # Nil /\ secret[c] = o.projectID
             \/ ~ref[r].exists \/ ref[r].deleting
        /\ rw.pc = "Condition" /\ rw.key = r /\ Current(ref[r], refCur[r], "refCtl")
             /\ rw.ref.state = "Ready" => ref[r].deleting \/ secret[c] # Nil
    BY DEF ReadyReferenceHasSecret
  <1>5. ref'[r].exists => ref[r].exists /\ (ref[r].deleting => ref'[r].deleting)
    BY <1>1, DeletingStays
  <1>6. HasSecret(c) /\ ref'[r].exists => ref'[r].deleting \/ secret'[c] # Nil
    BY HasSecretStays
  <1> HIDE DEF r, o
  <1>7. ASSUME rw.key = r, Current(ref[r], refCur[r], "refCtl"),
               rw.pc = "StateReady" \/ rw.ref.state = "Ready"
        PROVE  HasSecret(c)
    <2>1. CASE rw.pc = "StateReady"
      <3>1. secret[rw.ref.owner] = rw.ref.projectID /\ rw.ref.projectID # Nil
        BY <2>1 DEF SetUpSoFar, SetUpSteps
      <3> QED BY <1>3, <1>7, <3>1 DEF HasSecret, Current, r
    <2>2. CASE rw.pc = "Condition" /\ rw.ref.state = "Ready"
      BY <1>4, <1>7, <2>2 DEF HasSecret, Current, r
    <2>3. CASE rw.pc # "Condition" /\ rw.ref.state = "Ready"
      <3>1. rw.ref = ref[r]
        BY <1>1, <1>7, <2>3 DEF ReferenceCopyInv, CopiesAgree
      <3> QED BY <1>4, <1>7, <2>3, <3>1 DEF HasSecret, Current, r
    <2> QED BY <1>7, <2>1, <2>2, <2>3
  <1>8. ref[r].exists /\ ref[r].state = "Ready" => HasSecret(c)
    BY <1>4 DEF HasSecret, r
  <1>9. ref'[r].exists /\ ref'[r].state = "Ready" => ref'[r].deleting \/ secret'[c] # Nil
    BY <1>1, <1>2, <1>5, <1>6, <1>7, <1>8 DEF ReadyHasOrigin, Readied
  <1>10. o.exists /\ o.state = "Ready" /\ ~o.deleting =>
           \/ secret'[c] # Nil /\ secret'[c] = o.projectID
           \/ ~ref'[r].exists \/ ref'[r].deleting
    <2>1. CASE secret[c] # Nil /\ secret'[c] # secret[c]
      <3>1. ref'[r] = ref[r] /\ ref[r].deleting
        BY <2>1, SecretGoes DEF refObjs, r
      <3> QED BY <3>1
    <2> QED BY <1>4, <1>5, <2>1
  <1>11. ASSUME rw'.pc = "Condition", rw'.key = r, Current(ref'[r], refCur'[r], "refCtl"),
                rw'.ref.state = "Ready"
         PROVE  ref'[r].deleting \/ secret'[c] # Nil
    <2>1. rw.key = r /\ ref'[r].exists /\ ref[r].exists
      BY <1>5, <1>11, ReferenceStepMoves
         DEF RefWorkerMoves, Current, FinishReference, IdleReferenceWorker
    <2>2. Current(ref[r], refCur[r], "refCtl")
      BY <1>1, <1>11, <2>1, ReferenceStepRefs DEF RefKept, RefWritten, Current
    <2>3. rw.pc = "StateReady" \/ rw.ref.state = "Ready" \/ ref[r].state = "Ready"
      BY <1>2, <1>11, <2>1 DEF ReadyHasOrigin
    <2> QED BY <1>6, <1>7, <1>8, <2>1, <2>2, <2>3
  <1> QED BY <1>1, <1>9, <1>10, <1>11 DEF ReadyReferenceHasSecret, r, o

\* The claim controller: a new reference is not Ready, and one that it deletes
\* is marked.
LEMMA ClaimStepReady ==
  ASSUME TypeInv, ReferenceCopyInv, NEW c \in Claims, ReadyReferenceHasSecret(c), ClaimStep
  PROVE  (ReadyReferenceHasSecret(c))'
  <1> DEFINE r == RefName(c)
  <1>1. r \in Refs /\ UNCHANGED <<refCache, rw>> /\ UNCHANGED secret
    BY ClaimStepLeaves DEF Refs, Resources
  <1>2. ref[r] \in ProjectReference
    BY <1>1, ReferenceParts
  <1> HIDE DEF r
  <1>3. CASE RefKept(r)
    <2>1. ref'[r] = ref[r]
      BY <1>3 DEF RefKept
    <2>2. Current(ref'[r], refCur'[r], "refCtl") => Current(ref[r], refCur[r], "refCtl")
      BY <1>3 DEF RefKept, Current
    <2> QED BY <1>1, <2>1, <2>2 DEF ReadyReferenceHasSecret, r
  <1>4. CASE RefDeletedByClaim(r)
    <2>1. ref'[r].exists => ref'[r].deleting
      <3>1. ~NoRef.exists
        BY DEF NoRef
      <3> QED BY <1>2, <1>4, <3>1, DeletedRef DEF RefDeletedByClaim, RefDeleted
    <2>2. Current(ref'[r], refCur'[r], "refCtl") => ref'[r].exists
      BY DEF Current
    <2> QED BY <1>1, <2>1, <2>2 DEF ReadyReferenceHasSecret, r
  <1>5. CASE RefCreated(r)
    <2>1. ~refCache[r].exists /\ refCur'[r] = {} /\ ref'[r] = NewMatchingProjectReference(cw.key)
      BY <1>5 DEF RefCreated
    <2>2. ref'[r].state # "Ready"
      BY <2>1 DEF NewMatchingProjectReference, NoRef
    <2>3. ~Current(ref'[r], refCur'[r], "refCtl")
      BY <2>1 DEF Current
    <2> QED BY <1>1, <2>1, <2>2, <2>3 DEF ReadyReferenceHasSecret, r
  <1> QED BY <1>1, <1>3, <1>4, <1>5, ClaimStepRefs

\* A reconcile begins with a copy that is current, or is not written.
LEMMA StartReady ==
  ASSUME TypeInv, ReferenceCopyInv, NEW c \in Claims, ReadyReferenceHasSecret(c),
         NEW s \in Refs, StartReference(s), UNCHANGED Resources
  PROVE  (ReadyReferenceHasSecret(c))'
  <1> DEFINE r == RefName(c)
  <1>1. r \in Refs /\ UNCHANGED <<ref, refCache, secret>>
    BY StartReferenceMoves DEF Refs, caches, Resources
  <1> HIDE DEF r
  <1>2. CASE UNCHANGED <<rw, refCur>>
    BY <1>1, <1>2 DEF ReadyReferenceHasSecret, r
  <1>3. CASE RefWorkerStarts(s) /\ (rw'.pc # "Condition" \/ rw'.key # r)
    BY <1>1, <1>3 DEF ReadyReferenceHasSecret, r
  <1>4. CASE RefWorkerStarts(s) /\ rw'.key = r /\ Current(ref'[r], refCur'[r], "refCtl")
    <2>1. s = r /\ rw.pc = "idle" /\ rw'.ref = refCache[r]
      BY <1>4 DEF RefWorkerStarts
    <2>2. "refCtl" \notin refCur[r]
      BY <1>1, <2>1 DEF ReferenceCopyInv, CopiesAgree
    <2>3. "cache" \in refCur[r]
      BY <1>1, <1>4, <2>1, <2>2, StartReferenceMoves DEF Current, RefWorkerStarts
    <2>4. rw'.ref = ref[r] /\ ref[r].exists
      BY <1>1, <1>4, <2>1, <2>3 DEF ReferenceCopyInv, CopiesAgree, Current
    <2> QED BY <1>1, <2>4 DEF ReadyReferenceHasSecret, r
  <1>5. CASE RefWorkerStarts(s) /\ ~Current(ref'[r], refCur'[r], "refCtl")
    BY <1>1, <1>5 DEF ReadyReferenceHasSecret, r
  <1> QED BY <1>2, <1>3, <1>4, <1>5, StartReferenceMoves

\* The cache gets what is stored, and every other step leaves it all alone.
LEMMA ReadyReferenceStep ==
  ASSUME ProvisioningIsReliable, NamesAreDistinct, TypeInv, ReferenceCopyInv, UnderFinalizer,
         SetUpSoFar, NEW c \in Claims, CleanupPending(c), SecretOpensProject(c),
         ReadyReferenceHasSecret(c), [Next]_vars
  PROVE  (ReadyReferenceHasSecret(c))'
  <1> DEFINE r == RefName(c)
  <1>1. r \in Refs
    BY DEF Refs
  <1> HIDE DEF r
  <1>2. ref[r].exists /\ ref[r].state = "Ready" /\ ~ref[r].deleting =>
          secret[c] # Nil /\ secret[c] = ref[r].projectID
    BY DEF ReadyReferenceHasSecret, SecretOpensProject, r
  <1>3. ASSUME NEW s \in Refs, SyncRef(s), UNCHANGED Resources
        PROVE  (ReadyReferenceHasSecret(c))'
    <2>1. UNCHANGED <<ref, rw, secret>> /\ refCache'[r] \in {refCache[r], ref[r]}
      BY <1>1, <1>3 DEF SyncRef, TypeInv, TypeOK, Resources, workers
    <2>2. Current(ref'[r], refCur'[r], "refCtl") => Current(ref[r], refCur[r], "refCtl")
      BY <1>1, <1>3 DEF SyncRef, TypeInv, TypeOK, Current
    <2> QED BY <1>2, <2>1, <2>2 DEF ReadyReferenceHasSecret, r
  <1>4. CASE Crash /\ UNCHANGED Resources
    <2>1. UNCHANGED <<ref, secret>> /\ refCache' = ref /\ rw'.pc = "idle"
      BY <1>4 DEF Crash, Resources, IdleReferenceWorker
    <2> QED BY <1>2, <2>1 DEF ReadyReferenceHasSecret, r
  <1>5. CASE UNCHANGED <<References, Resources>>
    BY <1>5 DEF References, Resources, refObjs, ReadyReferenceHasSecret
  <1> QED BY <1>3, <1>4, <1>5, ReferenceStepReady, ClaimStepReady, StartReady, StepKinds

-----------------------------------------------------------------------------
(* What is written into a claim.                                           *)

\* The spec fields that EnsureProjectClaimReady fills, the user's and the deletion.
SameFields(n, o) ==
  /\ n.zones = o.zones /\ n.projectID = o.projectID
  /\ n.valid = o.valid /\ n.deleting = o.deleting

\* A write of the status leaves them; one of the spec stores what it has.
LEMMA StoredFields ==
  ASSUME NEW o \in ProjectClaim, NEW old \in ProjectClaim, NEW any
  PROVE  /\ SameFields(ClaimStatusUpdate(any, old), old)
         /\ ~(o.deleting /\ ~o.finalizer) =>
              SameFields(ClaimUpdate(o, old), o) /\ ClaimUpdate(o, old).state = old.state
         /\ o.deleting /\ ~o.finalizer => ClaimUpdate(o, old) = NoClaim
  BY DEF SameFields, ClaimStatusUpdate, ClaimUpdate, Collected, ProjectClaim

\* What the steps of EnsureProjectClaimReady write into claim c.
Filled(c) ==
  LET n == claim'[c]
      o == claim[c]
  IN  /\ c = rw.ref.owner /\ Current(o, claimCur[c], "refCtl")
      /\ claimCur'[c] \subseteq {"refCtl"} /\ n.deleting = o.deleting /\ n.valid = o.valid
      /\ \/ /\ rw.pc = "AvailabilityZones"
            /\ n.zones /\ n.projectID = o.projectID /\ n.state = o.state
         \/ /\ rw.pc = "ClaimProjectID"
            /\ n.zones = o.zones /\ n.projectID = rw.ref.projectID /\ n.state = o.state
         \/ /\ rw.pc = "ClaimReady"
            /\ n.zones = o.zones /\ n.projectID = o.projectID

\* The three writes, with a copy that is current.
LEMMA ClaimWritesFill ==
  ASSUME TypeInv, ClaimCopyInv, ReferenceStep, rw.pc \in ClaimReadySteps,
         NEW c \in Claims, c = rw.ref.owner
  PROVE  (claim'[c] = claim[c] /\ claimCur'[c] = claimCur[c]) \/ Filled(c)
  <1> DEFINE Done == (claim'[c] = claim[c] /\ claimCur'[c] = claimCur[c]) \/ Filled(c)
  <1>1. c \in Claims /\ claim[c] \in ProjectClaim /\ rw.claim \in ProjectClaim
    BY ReferenceParts DEF ClaimReadySteps
  <1>2. Current(claim[c], claimCur[c], "refCtl") =>
          rw.claim = claim[c] /\ ~(claim[c].deleting /\ ~claim[c].finalizer)
    BY <1>1 DEF ClaimCopyInv, ClaimCopiesAgree
  <1>3. rw.ref.projectID \in MaybeID
    BY ReferenceParts DEF ProjectReference
  <1>4. CASE EnsureClaimAvailabilityZonesSet
    <2> DEFINE e == [rw.claim EXCEPT !.zones = TRUE]
    <2>1. PICK ok \in BOOLEAN : UpdateClaim("refCtl", c, e, ok)
      BY <1>4 DEF EnsureClaimAvailabilityZonesSet
    <2>2. /\ e \in ProjectClaim /\ e.zones /\ e.projectID = rw.claim.projectID
          /\ e.deleting = rw.claim.deleting /\ e.finalizer = rw.claim.finalizer
          /\ e.valid = rw.claim.valid /\ rw.pc = "AvailabilityZones"
      BY <1>1, <1>4 DEF ProjectClaim, EnsureClaimAvailabilityZonesSet
    <2> HIDE DEF e
    <2>3. Stores("refCtl", c, ClaimUpdate(e, claim[c]))
      BY <1>1, <2>1, UpdateClaimStores
    <2>4. CASE Current(claim[c], claimCur[c], "refCtl") /\ claim'[c] = ClaimUpdate(e, claim[c])
               /\ claimCur'[c] \subseteq {"refCtl"}
      <3>1. SameFields(claim'[c], e) /\ claim'[c].state = claim[c].state
        BY <1>1, <1>2, <2>2, <2>4, StoredFields
      <3>2. SameFields(rw.claim, claim[c])
        BY <1>2, <2>4 DEF SameFields
      <3> QED BY <2>2, <2>4, <3>1, <3>2 DEF Filled, SameFields
    <2> QED BY <2>3, <2>4 DEF Stores
  <1>5. CASE HandleAvailabilityZonesError
    BY <1>5 DEF HandleAvailabilityZonesError, claimObjs
  <1>6. CASE EnsureClaimProjectIDSet
    <2> DEFINE e == [rw.claim EXCEPT !.projectID = rw.ref.projectID]
    <2>1. PICK ok \in BOOLEAN : UpdateClaim("refCtl", c, e, ok)
      BY <1>6 DEF EnsureClaimProjectIDSet
    <2>2. /\ e \in ProjectClaim /\ e.zones = rw.claim.zones /\ e.projectID = rw.ref.projectID
          /\ e.deleting = rw.claim.deleting /\ e.finalizer = rw.claim.finalizer
          /\ e.valid = rw.claim.valid /\ rw.pc = "ClaimProjectID"
      BY <1>1, <1>3, <1>6 DEF ProjectClaim, EnsureClaimProjectIDSet
    <2> HIDE DEF e
    <2>3. Stores("refCtl", c, ClaimUpdate(e, claim[c]))
      BY <1>1, <2>1, UpdateClaimStores
    <2>4. CASE Current(claim[c], claimCur[c], "refCtl") /\ claim'[c] = ClaimUpdate(e, claim[c])
               /\ claimCur'[c] \subseteq {"refCtl"}
      <3>1. SameFields(claim'[c], e) /\ claim'[c].state = claim[c].state
        BY <1>1, <1>2, <2>2, <2>4, StoredFields
      <3>2. SameFields(rw.claim, claim[c])
        BY <1>2, <2>4 DEF SameFields
      <3> QED BY <2>2, <2>4, <3>1, <3>2 DEF Filled, SameFields
    <2> QED BY <2>3, <2>4 DEF Stores
  <1>7. CASE EnsureProjectClaimReady
    <2> DEFINE e == [rw.claim EXCEPT !.state = "Ready"]
    <2>1. PICK ok \in BOOLEAN : UpdateClaimStatus("refCtl", c, e, FALSE, ok)
      BY <1>7 DEF EnsureProjectClaimReady
    <2>2. rw.pc = "ClaimReady"
      BY <1>7 DEF EnsureProjectClaimReady
    <2> HIDE DEF e
    <2>3. Stores("refCtl", c, ClaimStatusUpdate(e, claim[c]))
      BY <1>1, <2>1, UpdateClaimStatusStores
    <2>4. SameFields(ClaimStatusUpdate(e, claim[c]), claim[c])
      BY <1>1, StoredFields
    <2> QED BY <2>2, <2>3, <2>4 DEF Stores, Filled, SameFields
  <1> QED BY <1>4, <1>5, <1>6, <1>7, StepByCall DEF ClaimReadySteps

\* What a step of the worker does to any claim.
LEMMA ReferenceStepFills ==
  ASSUME TypeInv, ClaimCopyInv, ReferenceStep, NEW c \in Claims
  PROVE  ClaimKept(c) \/ Filled(c)
  <1>1. CASE ClaimFilled(c)
    <2>1. rw.pc \in ClaimReadySteps /\ c = rw.ref.owner /\ claimCache'[c] = claimCache[c]
      BY <1>1 DEF ClaimFilled
    <2>2. (claim'[c] = claim[c] /\ claimCur'[c] = claimCur[c]) \/ Filled(c)
      BY <2>1, ClaimWritesFill
    <2> QED BY <2>1, <2>2 DEF ClaimKept
  <1> QED BY <1>1, ReferenceStepClaims

\* The claim controller leaves the fields, until the claim is gone.
KeepsFields(c) == claim'[c] = NoClaim \/ SameFields(claim'[c], claim[c])

\* The status of the claim has none of the fields.
LEMMA StatusKeepsFields ==
  ASSUME TypeInv, cw.pc # "idle", NEW o, NEW t \in BOOLEAN, NEW c \in Claims,
         SaveClaimStatus(o, t)
  PROVE  KeepsFields(c)
  <1>1. cw.key \in Claims /\ claim[cw.key] \in ProjectClaim
    BY ClaimParts
  <1>2. PICK ok \in BOOLEAN : UpdateClaimStatus("claimCtl", cw.key, o, t, ok)
    BY DEF SaveClaimStatus
  <1>3. Stores("claimCtl", cw.key, ClaimStatusUpdate(o, claim[cw.key]))
    BY <1>1, <1>2, UpdateClaimStatusStores
  <1>4. SameFields(ClaimStatusUpdate(o, claim[cw.key]), claim[cw.key])
    BY <1>1, StoredFields
  <1> QED BY <1>3, <1>4 DEF Stores, KeepsFields, SameFields

\* A current copy has the fields of the claim.
LEMMA CopyHasFields ==
  ASSUME TypeInv, ClaimCopyInv, cw.pc \notin {"idle", "Condition"},
         Current(claim[cw.key], claimCur[cw.key], "claimCtl")
  PROVE  SameFields(cw.obj, claim[cw.key])
  <1>1. claim[cw.key] \in ProjectClaim
    BY ClaimParts
  <1>2. \/ cw.obj = claim[cw.key]
        \/ cw.obj = [claim[cw.key] EXCEPT !.state = "Pending"]
    BY DEF ClaimCopyInv, ClaimCopiesAgree
  <1> QED BY <1>1, <1>2 DEF SameFields, ProjectClaim

\* A write of the claim's spec by its controller.
LEMMA SpecKeepsFields ==
  ASSUME TypeInv, ClaimCopyInv, cw.pc \notin {"idle", "Condition"},
         NEW o \in ProjectClaim, SameFields(o, cw.obj),
         NEW ok \in BOOLEAN, UpdateClaim("claimCtl", cw.key, o, ok), NEW c \in Claims
  PROVE  KeepsFields(c)
  <1>1. cw.key \in Claims /\ claim[cw.key] \in ProjectClaim
    BY ClaimParts
  <1>2. Stores("claimCtl", cw.key, ClaimUpdate(o, claim[cw.key]))
    BY <1>1, UpdateClaimStores
  <1>3. CASE c = cw.key /\ Current(claim[c], claimCur[c], "claimCtl")
             /\ claim'[c] = ClaimUpdate(o, claim[c])
    <2>1. SameFields(o, claim[c])
      BY <1>3, CopyHasFields DEF SameFields
    <2>2. claim'[c] = NoClaim \/ SameFields(claim'[c], o)
      BY <1>1, <1>3, StoredFields
    <2> QED BY <2>1, <2>2 DEF KeepsFields, SameFields
  <1> QED BY <1>2, <1>3 DEF Stores, KeepsFields, SameFields

\* The steps of the claim controller that write the status.
LEMMA StatusWritersKeepFields ==
  ASSUME TypeInv, NEW c \in Claims,
         \/ EnsureProjectClaimValidated \/ EnsureProjectClaimInitialized
         \/ EnsureProjectClaimStatePending \/ EnsureProjectClaimStatePendingProject
         \/ EnsureRegionSupported
  PROVE  KeepsFields(c)
  <1>1. cw.pc # "idle"
    BY DEF EnsureProjectClaimValidated, EnsureProjectClaimInitialized, EnsureRegionSupported,
       EnsureProjectClaimStatePending, EnsureProjectClaimStatePendingProject
  <1>2. (\E o : \E t \in BOOLEAN : SaveClaimStatus(o, t)) \/ UNCHANGED claimObjs
    BY DEF EnsureProjectClaimValidated, EnsureProjectClaimInitialized, EnsureRegionSupported,
       EnsureProjectClaimStatePending, EnsureProjectClaimStatePendingProject
  <1>3. CASE UNCHANGED claimObjs
    BY <1>3 DEF claimObjs, KeepsFields, SameFields
  <1> QED BY <1>1, <1>2, <1>3, StatusKeepsFields

\* The edits of the spec are of other fields.
LEMMA SpecEdits ==
  ASSUME NEW o \in ProjectClaim
  PROVE  /\ LET e == [o EXCEPT !.link = TRUE] IN e \in ProjectClaim /\ SameFields(e, o)
         /\ LET e == [o EXCEPT !.finalizer = TRUE] IN e \in ProjectClaim /\ SameFields(e, o)
         /\ LET e == [o EXCEPT !.finalizer = FALSE] IN e \in ProjectClaim /\ SameFields(e, o)
  BY DEF SameFields, ProjectClaim

\* The steps of the claim controller that write the spec.
LEMMA SpecWritersKeepFields ==
  ASSUME TypeInv, ClaimCopyInv, NEW c \in Claims,
         \/ EnsureProjectReferenceLink \/ EnsureFinalizer \/ EnsureProjectClaimFinalizerDeleted
  PROVE  KeepsFields(c)
  <1>1. /\ cw.pc \notin {"idle", "Condition"} /\ cw.obj \in ProjectClaim
    BY ClaimObjects DEF EnsureProjectReferenceLink, EnsureFinalizer,
       EnsureProjectClaimFinalizerDeleted
  <1> DEFINE e == [cw.obj EXCEPT !.link = TRUE]
             f == [cw.obj EXCEPT !.finalizer = TRUE]
             g == [cw.obj EXCEPT !.finalizer = FALSE]
  <1>2. /\ e \in ProjectClaim /\ SameFields(e, cw.obj)
        /\ f \in ProjectClaim /\ SameFields(f, cw.obj)
        /\ g \in ProjectClaim /\ SameFields(g, cw.obj)
    BY <1>1, SpecEdits
  <1>3. \/ \E ok \in BOOLEAN : UpdateClaim("claimCtl", cw.key, e, ok)
        \/ \E ok \in BOOLEAN : UpdateClaim("claimCtl", cw.key, f, ok)
        \/ \E ok \in BOOLEAN : UpdateClaim("claimCtl", cw.key, g, ok)
        \/ UNCHANGED claimObjs
    BY DEF EnsureProjectReferenceLink, EnsureFinalizer, EnsureProjectClaimFinalizerDeleted,
       SaveClaim
  <1> HIDE DEF e, f, g
  <1>4. CASE UNCHANGED claimObjs
    BY <1>4 DEF claimObjs, KeepsFields, SameFields
  <1> QED BY <1>1, <1>2, <1>3, <1>4, SpecKeepsFields

\* The write of the Error condition.
LEMMA FinishKeepsFields ==
  ASSUME TypeInv, NEW c \in Claims, FinishClaim
  PROVE  KeepsFields(c)
  <1> DEFINE k == cw.key
             o == ErrorCondition(cw.obj, cw.out)
             new == ClaimStatusUpdate(o, claim[k])
  <1>1. cw.pc = "Condition"
    BY DEF FinishClaim
  <1>2. k \in Claims /\ claim[k] \in ProjectClaim /\ claim \in [Claims -> ProjectClaim]
    BY <1>1, ClaimObjects
  <1>3. SameFields(new, claim[k])
    BY <1>2, StoredFields
  <1> HIDE DEF o
  <1>4. CASE ErrorConditionDue(cw.obj, cw.out)
    <2>1. PICK touched \in BOOLEAN :
            \E w \in Replies("claimCtl", claim[k], claimCur[k], new, touched) :
              claim' = [claim EXCEPT ![k] = w.obj]
      BY <1>4 DEF FinishClaim, o
    <2> HIDE DEF new
    <2>2. PICK w \in Replies("claimCtl", claim[k], claimCur[k], new, touched) :
              claim' = [claim EXCEPT ![k] = w.obj]
      BY <2>1
    <2>3. w.obj = claim[k] \/ w.obj = new
      BY RepliesFacts
    <2> QED BY <1>2, <1>3, <2>2, <2>3 DEF KeepsFields, SameFields
  <1>5. CASE ~ErrorConditionDue(cw.obj, cw.out)
    BY <1>5 DEF FinishClaim, KeepsFields, SameFields
  <1> QED BY <1>4, <1>5

\* A step of the claim controller leaves what EnsureProjectClaimReady filled in.
LEMMA ClaimStepFields ==
  ASSUME TypeInv, ClaimCopyInv, ClaimStep, NEW c \in Claims
  PROVE  KeepsFields(c)
  <1>1. CASE \/ FinalizeReference \/ FinalizeWithoutReference
             \/ EnsureCCSSecretFinalizerDeleted
             \/ EnsureProjectReferenceExists \/ EnsureCCSSecretFinalizer
    BY <1>1 DEF FinalizeReference, FinalizeWithoutReference, EnsureCCSSecretFinalizerDeleted,
       EnsureProjectReferenceExists, EnsureCCSSecretFinalizer, claimObjs, KeepsFields, SameFields
  <1> QED BY <1>1, StatusWritersKeepFields, SpecWritersKeepFields, FinishKeepsFields DEF ClaimStep

\* A user makes a claim that is new, deletes it, or leaves these fields.
ClaimByUser(c) ==
  \/ claim'[c] = claim[c] /\ claimCur'[c] = claimCur[c]
  \/ /\ claimCur'[c] = {}
     /\ \/ claim'[c].deleting
        \/ claim'[c].projectID = Nil /\ claim'[c].state = ""
        \/ /\ claim'[c].zones = claim[c].zones /\ claim'[c].projectID = claim[c].projectID
           /\ claim'[c].deleting = claim[c].deleting /\ claim'[c].state = claim[c].state

\* What users do to a claim.
LEMMA UserFields ==
  ASSUME TypeInv, NEW d \in Claims, CreateClaim(d) \/ DeleteClaim(d) \/ EditClaim(d),
         NEW c \in Claims
  PROVE  ClaimByUser(c)
  <1>1. /\ claim \in [Claims -> ProjectClaim] /\ claimCur \in [Claims -> ClaimHolders]
        /\ claim[d] \in ProjectClaim
    BY ClaimObjects
  <1>2. claimCur' = [claimCur EXCEPT ![d] = {}]
    BY DEF CreateClaim, DeleteClaim, EditClaim
  <1>3. CASE CreateClaim(d)
    <2>1. PICK v \in BOOLEAN :
             claim' = [claim EXCEPT ![d] = [NoClaim EXCEPT !.exists = TRUE, !.valid = v]]
      BY <1>3 DEF CreateClaim
    <2> DEFINE o == [NoClaim EXCEPT !.exists = TRUE, !.valid = v]
    <2>2. o.projectID = Nil /\ o.state = ""
      BY DEF NoClaim
    <2> HIDE DEF o
    <2>3. claim' = [claim EXCEPT ![d] = o]
      BY <2>1 DEF o
    <2> QED BY <1>1, <1>2, <2>2, <2>3 DEF ClaimByUser
  <1>4. CASE EditClaim(d)
    <2> DEFINE o == [claim[d] EXCEPT !.valid = ~@]
    <2>1. /\ o.zones = claim[d].zones /\ o.projectID = claim[d].projectID
          /\ o.deleting = claim[d].deleting /\ o.state = claim[d].state
      BY <1>1 DEF ProjectClaim
    <2>2. claim' = [claim EXCEPT ![d] = o]
      BY <1>1, <1>4 DEF EditClaim
    <2> HIDE DEF o
    <2> QED BY <1>1, <1>2, <2>1, <2>2 DEF ClaimByUser
  <1>5. CASE DeleteClaim(d)
    <2> DEFINE o == Deleted(claim[d], NoClaim)
    <2>1. claim' = [claim EXCEPT ![d] = o]
      BY <1>1, <1>5 DEF DeleteClaim
    <2>2. NoClaim.projectID = Nil /\ NoClaim.state = ""
      BY DEF NoClaim
    <2>3. o.deleting \/ o = NoClaim
      BY <1>1 DEF Deleted, Collected, ProjectClaim
    <2> HIDE DEF o
    <2> QED BY <1>1, <1>2, <2>1, <2>2, <2>3 DEF ClaimByUser
  <1> QED BY <1>3, <1>4, <1>5

\* What each kind of step leaves alone of the claims and of what they stand for.
LEMMA ClaimStepKinds ==
  ASSUME ProvisioningIsReliable, [Next]_vars
  PROVE  \/ ReferenceStep
         \/ ClaimStep /\ UNCHANGED secret
         \/ (\E r \in Refs : StartReference(r)) /\ UNCHANGED secret
         \/ (\E c \in Claims : StartClaim(c)) /\ UNCHANGED secret
         \/ (\E c \in Claims : SyncClaim(c)) /\ UNCHANGED secret
         \/ (\E c \in Claims : CreateClaim(c) \/ DeleteClaim(c) \/ EditClaim(c)) /\ UNCHANGED secret
         \/ Crash /\ UNCHANGED secret
         \/ UNCHANGED <<claimObjs, secret, workers>>
  <1>1. CASE ClaimStep
    BY <1>1, ClaimStepLeaves DEF Resources
  <1>2. CASE Manager
    BY <1>2 DEF Manager, StartClaim, StartReference, SyncClaim, SyncSecret, SyncRef, Resync,
       Crash, secrets
  <1>3. CASE Environment
    BY <1>3 DEF Environment, CreateClaim, DeleteClaim, EditClaim, SetRegion, SetCCSSecret,
       AdminDeletesProject, AdminDeletesReference, Stabilise, secrets
  <1>4. CASE UNCHANGED vars
    BY <1>4 DEF vars, secrets
  <1> QED BY <1>1, <1>2, <1>3, <1>4 DEF Next

-----------------------------------------------------------------------------
(* The steps of EnsureProjectClaimReady.                                   *)

\* A reference that is going, or gone while the cache shows it, has a claim
\* that is going.
LEMMA DeletionIsOfClaim ==
  ASSUME NamesAreDistinct, "refDeleted" \notin Faults, TypeInv, ClaimCopyInv, ReferenceCopyInv,
         HeldInv, NEW c \in Claims
  PROVE  /\ ref[RefName(c)].exists /\ ref[RefName(c)].deleting => claim[c].deleting
         /\ ~ref[RefName(c)].exists /\ refCache[RefName(c)].exists => claim[c].deleting
  <1>1. PairInv(c)
    BY HeldByPairs
  <1> QED BY <1>1 DEF PairInv, DeletionSeen, Going

\* The ID is written with zones that are there, and the status is next.
LEMMA ReferenceStepReadyFor ==
  ASSUME TypeInv, ClaimCopyInv, ReferenceStep, NEW c \in Claims, ClaimIsReadyFor(c)
  PROVE  (ClaimIsReadyFor(c))'
  <1> SUFFICES ASSUME rw'.pc \in ClaimReadySteps, rw'.ref.owner = c,
                      Current(claim'[c], claimCur'[c], "refCtl"), ~claim'[c].deleting
               PROVE  /\ secret'[c] # Nil /\ secret'[c] = rw'.ref.projectID
                      /\ claim'[c].zones /\ claim'[c].projectID # Nil
    BY DEF ClaimIsReadyFor
  <1>1. rw.pc = "ClaimProjectID" /\ rw'.pc = "ClaimReady"
    BY ReferenceStepLeads DEF LeadsTo, ClaimReadySteps, AfterCredentials, AfterServiceAccount
  <1>2. EnsureClaimProjectIDSet /\ rw \in ReferenceWorker
    BY <1>1, StepByCall, ReferenceParts
  <1> DEFINE e == [rw.claim EXCEPT !.projectID = rw.ref.projectID]
  <1>3. PICK ok \in BOOLEAN :
          /\ UpdateClaim("refCtl", rw.ref.owner, e, ok)
          /\ IF ok THEN rw' = [rw EXCEPT !.pc = "ClaimReady",
                                         !.claim = ClaimUpdate(e, claim[rw.ref.owner])]
             ELSE RefFails
    BY <1>2 DEF EnsureClaimProjectIDSet
  <1>4. ok /\ rw'.ref = rw.ref
    <2>1. RefFails => rw'.pc = "Condition"
      BY <1>2 DEF RefFails, RefFinish, ReferenceWorker
    <2> HIDE DEF e
    <2>2. ok
      BY <1>1, <1>3, <2>1
    <2> QED BY <1>2, <1>3, <2>2 DEF ReferenceWorker
  <1>5. /\ claim[c] \in ProjectClaim /\ rw.claim \in ProjectClaim /\ rw.ref.owner = c
        /\ rw.ref.projectID \in MaybeID
    BY <1>2, <1>4, ReferenceParts DEF ReferenceWorker, ProjectReference
  <1>6. e \in ProjectClaim /\ e.zones = rw.claim.zones /\ e.projectID = rw.ref.projectID
        /\ e.deleting = rw.claim.deleting
    BY <1>5 DEF ProjectClaim
  <1> HIDE DEF e
  <1>7. claim'[c] = ClaimUpdate(e, claim[c])
    <2>1. UpdateClaim("refCtl", c, e, ok)
      BY <1>3, <1>5
    <2> QED BY <1>4, <2>1, UpdateClaimStores
  <1>8. ~NoClaim.exists /\ claim'[c].exists
    BY DEF NoClaim, Current
  <1>9. SameFields(claim'[c], e)
    BY <1>5, <1>6, <1>7, <1>8, StoredFields
  <1>10. Current(claim[c], claimCur[c], "refCtl")
    <2>1. ClaimKept(c) \/ Filled(c)
      BY ReferenceStepFills
    <2> QED BY <2>1 DEF ClaimKept, Filled, Current
  <1>11. rw.claim = claim[c]
    BY <1>1, <1>5, <1>10 DEF ClaimCopyInv, ClaimCopiesAgree, ClaimReadySteps
  <1>12. ~claim[c].deleting
    BY <1>6, <1>9, <1>11 DEF SameFields
  <1>13. secret[c] # Nil /\ secret[c] = rw.ref.projectID /\ claim[c].zones
    BY <1>1, <1>5, <1>10, <1>12 DEF ClaimIsReadyFor, ClaimReadySteps
  <1>14. UNCHANGED secret
    BY <1>2 DEF EnsureClaimProjectIDSet, secrets
  <1> QED BY <1>4, <1>6, <1>9, <1>11, <1>13, <1>14 DEF SameFields

\* The worker comes to these steps with a reference that is Ready.
LEMMA StartReadyFor ==
  ASSUME NamesAreDistinct, "refDeleted" \notin Faults, TypeInv, ClaimCopyInv, ReferenceCopyInv,
         HeldInv, NEW c \in Claims, ReadyReferenceHasSecret(c), ClaimIsReadyFor(c),
         NEW s \in Refs, StartReference(s), UNCHANGED secret
  PROVE  (ClaimIsReadyFor(c))'
  <1>1. /\ UNCHANGED <<claim, ref>>
        /\ \/ UNCHANGED <<rw, claimCur>>
           \/ RefWorkerStarts(s) /\ (claimCur'[c] = claimCur[c] \/ ClaimRead(c, "refCtl"))
    BY StartReferenceMoves
  <1>2. CASE UNCHANGED <<rw, claimCur>>
    BY <1>1, <1>2 DEF ClaimIsReadyFor
  <1>3. CASE RefWorkerStarts(s) /\ (claimCur'[c] = claimCur[c] \/ ClaimRead(c, "refCtl"))
    <2> SUFFICES ASSUME rw'.pc \in ClaimReadySteps, rw'.ref.owner = c,
                        Current(claim'[c], claimCur'[c], "refCtl"), ~claim'[c].deleting
                 PROVE  /\ secret'[c] # Nil /\ secret'[c] = rw'.ref.projectID
                        /\ rw'.pc \in {"ClaimProjectID", "ClaimReady"} => claim'[c].zones
                        /\ rw'.pc = "ClaimReady" => claim'[c].projectID # Nil
      BY DEF ClaimIsReadyFor
    <2>1. /\ rw.pc = "idle" /\ rw'.ref = refCache[s] /\ refCache[s].exists
          /\ refCache[s].owner = c /\ rw'.pc = FirstOperation(refCache[s], claimCache[c])
      BY <1>3 DEF RefWorkerStarts
    <2>2. s = RefName(c)
      BY <2>1 DEF ReferenceCopyInv, NamedAfterOwner
    <2>3. claimCache[c] = claim[c]
      BY <1>3, <2>1 DEF ClaimCopyInv, ClaimCopiesAgree, ClaimRead, Current
    <2>4. /\ refCache[s].state = "Ready" /\ ~refCache[s].deleting
          /\ rw'.pc \in {"ClaimProjectID", "ClaimReady"} => claim[c].zones
          /\ rw'.pc = "ClaimReady" => claim[c].projectID # Nil
      BY <2>1, <2>3, FirstOperationFound
    <2>5. \/ secret[c] # Nil /\ secret[c] = refCache[s].projectID
          \/ ~ref[s].exists \/ ref[s].deleting
      BY <2>1, <2>2, <2>4 DEF ReadyReferenceHasSecret
    <2>6. ref[s].exists /\ ~ref[s].deleting
      BY <1>1, <2>1, <2>2, DeletionIsOfClaim
    <2> QED BY <1>1, <2>1, <2>4, <2>5, <2>6
  <1> QED BY <1>1, <1>2, <1>3

\* What anything else does to a claim that the worker is about to make Ready.
LEMMA ReadyForStep ==
  ASSUME ProvisioningIsReliable, NamesAreDistinct, TypeInv, ClaimCopyInv, ReferenceCopyInv,
         HeldInv, NEW c \in Claims, ReadyReferenceHasSecret(c), ClaimIsReadyFor(c), [Next]_vars
  PROVE  (ClaimIsReadyFor(c))'
  <1>1. "refDeleted" \notin Faults
    BY DEF ProvisioningIsReliable
  <1>2. CASE ClaimStep /\ UNCHANGED secret
    <2>1. UNCHANGED rw /\ (ClaimKept(c) \/ ClaimStored(c))
      BY <1>2, ClaimStepMoves
    <2> QED BY <1>2, <2>1 DEF ClaimIsReadyFor, ClaimKept, ClaimStored, Current
  <1>3. ASSUME NEW d \in Claims, StartClaim(d), UNCHANGED secret
        PROVE  (ClaimIsReadyFor(c))'
    <2>1. UNCHANGED <<claim, rw>> /\ claimCur'[c] \subseteq claimCur[c] \cup {"claimCtl"}
      BY <1>3, StartClaimMoves DEF ClaimRead
    <2> QED BY <1>3, <2>1 DEF ClaimIsReadyFor, Current
  <1>4. ASSUME NEW d \in Claims, SyncClaim(d), UNCHANGED secret
        PROVE  (ClaimIsReadyFor(c))'
    <2>1. UNCHANGED <<claim, rw>> /\ claimCur'[c] \subseteq claimCur[c] \cup {"cache"}
      BY <1>4, ClaimObjects DEF SyncClaim, workers, ClaimHolders
    <2> QED BY <1>4, <2>1 DEF ClaimIsReadyFor, Current
  <1>5. ASSUME NEW d \in Claims, CreateClaim(d) \/ DeleteClaim(d) \/ EditClaim(d), UNCHANGED secret
        PROVE  (ClaimIsReadyFor(c))'
    <2>1. UNCHANGED rw
      BY <1>5, UserMoves DEF workers
    <2>2. (claim'[c] = claim[c] /\ claimCur'[c] = claimCur[c]) \/ claimCur'[c] = {}
      BY <1>5, UserFields DEF ClaimByUser
    <2> QED BY <1>5, <2>1, <2>2 DEF ClaimIsReadyFor, Current
  <1>6. CASE Crash
    <2>1. rw'.pc = "idle"
      BY <1>6 DEF Crash, IdleReferenceWorker
    <2> QED BY <2>1 DEF ClaimIsReadyFor, ClaimReadySteps
  <1>7. CASE UNCHANGED <<claimObjs, secret, workers>>
    BY <1>7 DEF ClaimIsReadyFor, claimObjs, workers
  <1> QED BY <1>1, <1>2, <1>3, <1>4, <1>5, <1>6, <1>7, ReferenceStepReadyFor, StartReadyFor,
             ClaimStepKinds

-----------------------------------------------------------------------------
(* What a claim tells.                                                     *)

\* The reference controller writes the ID of the project that the Secret opens.
LEMMA ReferenceStepTruth ==
  ASSUME NamesAreDistinct, "refDeleted" \notin Faults, TypeInv, ClaimCopyInv, ReferenceCopyInv,
         HeldInv, UnderFinalizer, ReferenceStep, NEW c \in Claims, CleanupPending(c),
         ClaimIsReadyFor(c), ClaimTellsTruth(c)
  PROVE  (ClaimTellsTruth(c))'
  <1>1. UNCHANGED cw
    BY ReferenceStepClaims
  <1>2. CASE secret'[c] # secret[c]
    <2>1. UNCHANGED claimObjs
      BY <1>2, SecretChanges
    <2>2. claim[c].projectID # Nil => claim[c].deleting
      <3>1. CASE secret[c] = Nil
        BY <3>1 DEF ClaimTellsTruth
      <3>2. CASE secret[c] # Nil
        BY <1>2, <3>2, SecretGoes, DeletionIsOfClaim
      <3> QED BY <3>1, <3>2
    <2> QED BY <1>1, <2>1, <2>2 DEF ClaimTellsTruth, BusyWith, claimObjs
  <1>3. CASE secret'[c] = secret[c] /\ ClaimKept(c)
    BY <1>1, <1>3 DEF ClaimTellsTruth, ClaimKept, BusyWith, Current
  <1>4. CASE secret'[c] = secret[c] /\ Filled(c)
    <2>1. /\ claim'[c].deleting = claim[c].deleting
          /\ "claimCtl" \notin claimCur'[c]
      BY <1>4 DEF Filled
    <2>2. ~claim[c].deleting =>
            /\ secret[c] # Nil /\ secret[c] = rw.ref.projectID
            /\ rw.pc \in {"ClaimProjectID", "ClaimReady"} => claim[c].zones
            /\ rw.pc = "ClaimReady" => claim[c].projectID # Nil
      BY <1>4 DEF Filled, ClaimIsReadyFor, ClaimReadySteps
    <2>3. ~claim'[c].deleting =>
            /\ claim'[c].projectID # Nil => claim'[c].projectID = secret[c]
            /\ claim'[c].state = "Ready" => claim'[c].zones /\ claim'[c].projectID # Nil
      BY <1>4, <2>1, <2>2 DEF Filled, ClaimTellsTruth
    <2> QED BY <1>4, <2>1, <2>3 DEF ClaimTellsTruth, Current
  <1> QED BY <1>2, <1>3, <1>4, ReferenceStepFills

\* The claim controller makes no claim Ready.
LEMMA ClaimStepReadies ==
  ASSUME TypeInv, ClaimCopyInv, ClaimStep, NEW c \in Claims, ClaimTellsTruth(c)
  PROVE  /\ claim'[c].state = "Ready" => claim[c].state = "Ready"
         /\ (BusyWith(c))' /\ cw'.pc = "Condition" /\ Current(claim'[c], claimCur'[c], "claimCtl")
              /\ cw'.obj.state = "Ready" => claim'[c].state = "Ready"
  <1>1. /\ ClaimWorkerMoves \/ ClaimWorkerRests
        /\ ClaimKept(c) \/ ClaimStored(c)
    BY ClaimStepMoves
  <1>2. NoClaim.state # "Ready" /\ ~NoClaim.exists
    BY DEF NoClaim
  <1>3. cw'.pc = "Condition" /\ c = cw.key /\ cw'.obj.state = "Ready"
          /\ Current(claim[c], claimCur[c], "claimCtl") => claim[c].state = "Ready"
    <2> SUFFICES ASSUME cw'.pc = "Condition", c = cw.key, cw'.obj.state = "Ready",
                        Current(claim[c], claimCur[c], "claimCtl")
                 PROVE  claim[c].state = "Ready"
      OBVIOUS
    <2>1. EditedState(cw'.obj.state) /\ cw.pc \notin {"idle", "Condition"}
      BY <1>1 DEF ClaimWorkerMoves, ClaimWorkerRests
    <2>2. \/ cw.obj.state = claim[c].state
          \/ claim[c].state = "Error" /\ cw.obj.state = "Pending"
      BY <2>1, CurrentCopy
    <2> QED BY <2>1, <2>2 DEF EditedState
  <1>4. CASE ClaimKept(c)
    <2>1. (BusyWith(c))' /\ cw'.pc = "Condition" => c = cw.key
      BY <1>1 DEF ClaimWorkerMoves, ClaimWorkerRests, BusyWith
    <2> QED BY <1>3, <1>4, <2>1 DEF ClaimKept, Current
  <1>5. CASE ClaimStored(c)
    <2>1. Current(claim[c], claimCur[c], "claimCtl") /\ c = cw.key /\ cw.pc # "idle"
      BY <1>5 DEF ClaimStored
    <2>2. CASE claim'[c] = NoClaim
      BY <1>2, <2>2 DEF Current
    <2>3. CASE claim'[c].state = claim[c].state
      BY <1>3, <2>1, <2>3
    <2>4. CASE cw'.pc = "Condition" /\ claim'[c].state = cw'.obj.state
      BY <1>3, <2>1, <2>4
    <2>5. CASE cw'.pc = "idle" /\ cw.pc = "Condition" /\ claim'[c].state = cw.obj.state
      BY <2>1, <2>5 DEF ClaimTellsTruth, BusyWith
    <2> QED BY <1>5, <2>2, <2>3, <2>4, <2>5 DEF ClaimStored
  <1> QED BY <1>1, <1>4, <1>5

\* What anything else does to a claim that is Ready or has its ID.
LEMMA TruthStep ==
  ASSUME ProvisioningIsReliable, NamesAreDistinct, TypeInv, ClaimCopyInv, ReferenceCopyInv,
         HeldInv, UnderFinalizer, NEW c \in Claims, CleanupPending(c),
         ClaimIsReadyFor(c), ClaimTellsTruth(c), [Next]_vars
  PROVE  (ClaimTellsTruth(c))'
  <1>1. "refDeleted" \notin Faults
    BY DEF ProvisioningIsReliable
  <1>2. CASE ClaimStep /\ UNCHANGED secret
    <2>1. KeepsFields(c)
      BY <1>2, ClaimStepFields
    <2>2. NoClaim.projectID = Nil /\ NoClaim.state # "Ready"
      BY DEF NoClaim
    <2>3. /\ claim'[c].state = "Ready" => claim[c].state = "Ready"
          /\ (BusyWith(c))' /\ cw'.pc = "Condition"
               /\ Current(claim'[c], claimCur'[c], "claimCtl")
               /\ cw'.obj.state = "Ready" => claim'[c].state = "Ready"
      BY <1>2, ClaimStepReadies
    <2> QED BY <1>2, <2>1, <2>2, <2>3 DEF KeepsFields, SameFields, ClaimTellsTruth
  <1>3. ASSUME NEW d \in Claims, StartClaim(d), UNCHANGED secret
        PROVE  (ClaimTellsTruth(c))'
    <2>1. /\ UNCHANGED claim
          /\ cw'.pc # "Condition" \/ (UNCHANGED cw /\ claimCur'[c] = claimCur[c])
      BY <1>3, StartClaimMoves DEF ClaimWorkerStarts
    <2> QED BY <1>3, <2>1 DEF ClaimTellsTruth, BusyWith
  <1>4. ASSUME NEW d \in Claims, SyncClaim(d), UNCHANGED secret
        PROVE  (ClaimTellsTruth(c))'
    <2>1. UNCHANGED <<claim, cw>> /\ claimCur'[c] \subseteq claimCur[c] \cup {"cache"}
      BY <1>4, ClaimObjects DEF SyncClaim, workers, ClaimHolders
    <2> QED BY <1>4, <2>1 DEF ClaimTellsTruth, BusyWith, Current
  <1>5. ASSUME NEW s \in Refs, StartReference(s), UNCHANGED secret
        PROVE  (ClaimTellsTruth(c))'
    <2>1. UNCHANGED <<claim, cw>> /\ claimCur'[c] \subseteq claimCur[c] \cup {"refCtl"}
      BY <1>5, StartReferenceMoves DEF ClaimRead
    <2> QED BY <1>5, <2>1 DEF ClaimTellsTruth, BusyWith, Current
  <1>6. ASSUME NEW d \in Claims, CreateClaim(d) \/ DeleteClaim(d) \/ EditClaim(d), UNCHANGED secret
        PROVE  (ClaimTellsTruth(c))'
    <2>1. UNCHANGED cw
      BY <1>6, UserMoves DEF workers
    <2>2. ClaimByUser(c)
      BY <1>6, UserFields
    <2>3. CASE claim'[c] = claim[c] /\ claimCur'[c] = claimCur[c]
      BY <1>6, <2>1, <2>3 DEF ClaimTellsTruth, BusyWith
    <2>4. CASE claimCur'[c] = {} /\ claim'[c].deleting
      BY <2>4 DEF ClaimTellsTruth, Current
    <2>5. CASE claimCur'[c] = {} /\ claim'[c].projectID = Nil /\ claim'[c].state = ""
      BY <2>5 DEF ClaimTellsTruth, Current
    <2>6. CASE /\ claimCur'[c] = {} /\ claim'[c].zones = claim[c].zones
               /\ claim'[c].projectID = claim[c].projectID
               /\ claim'[c].deleting = claim[c].deleting /\ claim'[c].state = claim[c].state
      BY <1>6, <2>6 DEF ClaimTellsTruth, Current
    <2> QED BY <2>2, <2>3, <2>4, <2>5, <2>6 DEF ClaimByUser
  <1>7. CASE Crash /\ UNCHANGED secret
    <2>1. UNCHANGED claim /\ cw'.pc = "idle"
      BY <1>7 DEF Crash, IdleClaimWorker
    <2> QED BY <1>7, <2>1 DEF ClaimTellsTruth
  <1>8. CASE UNCHANGED <<claimObjs, secret, workers>>
    BY <1>8 DEF ClaimTellsTruth, BusyWith, claimObjs, workers
  <1> QED BY <1>1, <1>2, <1>3, <1>4, <1>5, <1>6, <1>7, <1>8, ReferenceStepTruth, ClaimStepKinds

-----------------------------------------------------------------------------
(* The invariant and what follows from it.                                 *)

\* At first there is nothing.
LEMMA InitProvision == Init => ProvisionInv
  <1> SUFFICES ASSUME Init PROVE ProvisionInv OBVIOUS
  <1>1. rw.pc = "idle" /\ cw.pc = "idle"
    BY DEF Init, IdleReferenceWorker, IdleClaimWorker
  <1>2. \A r \in Refs : ref[r] = NoRef /\ refCache[r] = NoRef
    BY DEF Init
  <1>3. \A c \in Claims : claim[c] = NoClaim /\ secret[c] = Nil
    BY DEF Init
  <1>4. ~NoRef.exists
    BY DEF NoRef
  <1>5. NoClaim.projectID = Nil /\ NoClaim.state # "Ready"
    BY DEF NoClaim
  <1>6. NamedOnce
    BY <1>1, <1>2, <1>4 DEF NamedOnce, Names
  <1>7. IDsStay
    BY <1>1, <1>2, <1>4 DEF IDsStay, Kept, Live
  <1>8. SetUpSoFar
    BY <1>1 DEF SetUpSoFar, SetUpSteps
  <1>9. ASSUME NEW c \in Claims
        PROVE  /\ SecretOpensProject(c) /\ ReadyReferenceHasSecret(c)
               /\ ClaimIsReadyFor(c) /\ ClaimTellsTruth(c)
    <2>1. RefName(c) \in Refs
      BY DEF Refs
    <2>2. SecretOpensProject(c)
      BY <1>3 DEF SecretOpensProject
    <2>3. ReadyReferenceHasSecret(c)
      BY <1>1, <1>2, <1>4, <2>1 DEF ReadyReferenceHasSecret
    <2>4. ClaimIsReadyFor(c)
      BY <1>1 DEF ClaimIsReadyFor, ClaimReadySteps
    <2>5. ClaimTellsTruth(c)
      BY <1>1, <1>3, <1>5 DEF ClaimTellsTruth
    <2> QED BY <2>2, <2>3, <2>4, <2>5
  <1> QED BY <1>6, <1>7, <1>8, <1>9 DEF ProvisionInv

\* Every step of the operator and of those around it keeps the invariant.
LEMMA ProvisionInductive ==
  ASSUME NamesAreDistinct, ProjectsAreDistinct, CleanupIsReliable, ProvisioningIsReliable
  PROVE  /\ TypeInv /\ ClaimCopyInv /\ ReferenceCopyInv /\ HeldInv /\ CleanupInv /\ ProvisionInv
         /\ [Next]_vars /\ ReferenceCopyInv' /\ CleanupInv'
         => ProvisionInv'
  <1> SUFFICES ASSUME TypeInv, ClaimCopyInv, ReferenceCopyInv, HeldInv, CleanupInv, ProvisionInv,
                      [Next]_vars, ReferenceCopyInv', CleanupInv'
               PROVE  ProvisionInv'
    OBVIOUS
  <1>1. /\ UnderFinalizer /\ IDsAreOwn /\ \A c \in Claims : CleanupPending(c)
        /\ UnderFinalizer' /\ IDsAreOwn' /\ \A c \in Claims : (CleanupPending(c))'
    BY DEF CleanupInv
  <1>2. /\ NamedOnce /\ IDsStay /\ SetUpSoFar
        /\ \A c \in Claims : /\ SecretOpensProject(c) /\ ReadyReferenceHasSecret(c)
                             /\ ClaimIsReadyFor(c) /\ ClaimTellsTruth(c)
    BY DEF ProvisionInv
  <1>3. NamedOnce'
    BY <1>1, <1>2, NamedOnceStep
  <1>4. IDsStay'
    BY <1>1, <1>2, IDsStayStep
  <1>5. SetUpSoFar'
    BY <1>1, <1>2, SetUpSoFarStep
  <1>6. ASSUME NEW c \in Claims
        PROVE  /\ (SecretOpensProject(c))' /\ (ReadyReferenceHasSecret(c))'
               /\ (ClaimIsReadyFor(c))' /\ (ClaimTellsTruth(c))'
    <2>1. /\ CleanupPending(c) /\ (CleanupPending(c))' /\ SecretOpensProject(c)
          /\ ReadyReferenceHasSecret(c) /\ ClaimIsReadyFor(c) /\ ClaimTellsTruth(c)
      BY <1>1, <1>2
    <2>2. (SecretOpensProject(c))'
      BY <1>1, <1>2, <2>1, SecretOpensStep
    <2>3. (ReadyReferenceHasSecret(c))'
      BY <1>1, <1>2, <2>1, ReadyReferenceStep
    <2>4. (ClaimIsReadyFor(c))'
      BY <2>1, ReadyForStep
    <2>5. (ClaimTellsTruth(c))'
      BY <1>1, <2>1, TruthStep
    <2> QED BY <2>2, <2>3, <2>4, <2>5
  <1> QED BY <1>3, <1>4, <1>5, <1>6 DEF ProvisionInv

\* Nobody else deletes references.
LEMMA DeletionsSeen ==
  ASSUME ProvisioningIsReliable
  PROVE  DeletionsAreSeen
  BY DEF ProvisioningIsReliable, DeletionsAreSeen

\* An ID is used by one reference only, a Secret opens the project that the
\* reference of its claim names, that project is configured, and a claim gets
\* the state Ready only when its reference and its Secret are there: whatever
\* the two controllers interleave, whatever fails, is lost or is restarted, and
\* however far the caches of claims and references are behind.
THEOREM ClaimsAreProvisioned ==
  ASSUME NamesAreDistinct, ProjectsAreDistinct, CleanupIsReliable, ProvisioningIsReliable
  PROVE  Spec => []ProvisionInv
  <1>1. TypeInv /\ ClaimCopyInv /\ ReferenceCopyInv /\ HeldInv /\ CleanupInv /\ ProvisionInv
          /\ [Next]_vars /\ ReferenceCopyInv' /\ CleanupInv' => ProvisionInv'
    BY ProvisionInductive
  <1>2. Spec => []TypeInv
    BY KeysCorrect
  <1>3. Spec => []ClaimCopyInv
    BY ClaimCopies
  <1>4. Spec => []ReferenceCopyInv
    BY ReferenceCopies
  <1>5. Spec => []HeldInv
    BY DeletionsSeen, ReferencesAreHeld
  <1>6. Spec => []CleanupInv
    BY CleanupIsPending
  <1> QED BY <1>1, <1>2, <1>3, <1>4, <1>5, <1>6, InitProvision, PTL DEF Spec

\* A claim that is Ready has an active project with the APIs, the service
\* account and its roles and, unless the customer pays, the billing account; a
\* Secret that opens this project; and a reference that holds its finalizer and
\* will delete this project.
THEOREM ReadyClaimsAreProvisioned ==
  ASSUME NamesAreDistinct, ProjectsAreDistinct, CleanupIsReliable, ProvisioningIsReliable
  PROVE  Spec => []ReadyIsProvisioned
  <1>1. TypeInv /\ ClaimCopyInv /\ ReferenceCopyInv /\ HeldInv /\ CleanupInv /\ ProvisionInv
          => ReadyIsProvisioned
    <2> SUFFICES ASSUME TypeInv, ClaimCopyInv, ReferenceCopyInv, HeldInv, CleanupInv,
                        ProvisionInv, NEW c \in Claims,
                        claim[c].exists, ~claim[c].deleting, claim[c].state = "Ready"
                 PROVE  /\ claim[c].zones
                        /\ claim[c].projectID \in ProjectIDs
                        /\ secret[c] = claim[c].projectID
                        /\ LET p == project[claim[c].projectID]
                           IN  p.life = "ACTIVE" /\ p.apis /\ p.sa /\ p.bound
                               /\ (c \in CCS \/ p.billing)
                        /\ ref[RefName(c)].exists /\ ref[RefName(c)].finalizer
                        /\ ref[RefName(c)].projectID = claim[c].projectID
      BY DEF ReadyIsProvisioned
    <2>1. claim[c].zones /\ claim[c].projectID # Nil /\ claim[c].projectID = secret[c]
      BY DEF ProvisionInv, ClaimTellsTruth
    <2>2. claim[c].projectID \in ProjectIDs
      BY <2>1, ClaimObjects DEF ProjectClaim, MaybeID
    <2>3. Kept(RefName(c))
      BY <2>1 DEF CleanupInv, CleanupPending
    <2>4. ~ref[RefName(c)].deleting
      <3>1. "refDeleted" \notin Faults
        BY DEF ProvisioningIsReliable
      <3> QED BY <2>3, <3>1, DeletionIsOfClaim DEF Kept
    <2>5. ref[RefName(c)].projectID = secret[c] /\ Configured(c, project[secret[c]])
      BY <2>1, <2>4 DEF ProvisionInv, SecretOpensProject
    <2> QED BY <2>1, <2>2, <2>3, <2>5 DEF Kept, Configured, HasBilling
  <1>2. Spec => []TypeInv
    BY KeysCorrect
  <1>3. Spec => []ClaimCopyInv
    BY ClaimCopies
  <1>4. Spec => []ReferenceCopyInv
    BY ReferenceCopies
  <1>5. Spec => []HeldInv
    BY DeletionsSeen, ReferencesAreHeld
  <1>6. Spec => []CleanupInv
    BY CleanupIsPending
  <1>7. Spec => []ProvisionInv
    BY ClaimsAreProvisioned
  <1> QED BY <1>1, <1>2, <1>3, <1>4, <1>5, <1>6, <1>7, PTL
=============================================================================
