--------------------- MODULE ProjectReferenceController ---------------------
(***************************************************************************)
(* The ProjectReference controller: Reconcile, ReconcileHandler and the    *)
(* operations of ReferenceAdapter.  The worker rw works on one reference   *)
(* at a time, with its own copies of the reference and of the claim it     *)
(* belongs to.  Its pc is the call that it is about to make.               *)
(*                                                                         *)
(* A GCP call is one step.  The read-modify-write of an IAM policy with    *)
(* its retries is one step too, and so is the list of projects with the    *)
(* call that follows it: nobody but the operator is assumed to create or   *)
(* delete the project with this ID in between.                             *)
(*                                                                         *)
(* A definition marked "Variant" is the next one with a fault in it, as in *)
(* ProjectClaimController.                                                 *)
(***************************************************************************)
EXTENDS OperatorState

DeletionSteps ==
  {"DeletePolicy", "DeleteServiceAccount", "DeleteProject", "DeleteConsoleAccess",
   "DeleteCredentials", "FinalizerDeleted"}

ReferenceSteps ==
  DeletionSteps \cup
  {"idle", "Initialized", "AvailabilityZones", "ClaimProjectID", "ClaimReady",
   "StatusCreating", "ProjectID", "ServiceAccountName", "FinalizerAdded",
   "CreateProject", "ClearProjectID", "Billing", "APIs", "ServiceAccount",
   "Policy", "Credentials", "CreateSecret", "ConsoleAccess", "StateReady",
   "Condition"}

ReferenceWorker ==
  [pc : ReferenceSteps, key : Refs \cup {Nil}, ref : ProjectReference,
   claim : ProjectClaim, out : Outcome]

IdleReferenceWorker ==
  [pc |-> "idle", key |-> Nil, ref |-> NoRef, claim |-> NoClaim, out |-> "stop"]

-----------------------------------------------------------------------------
(* The order of the operations.                                            *)

IsCCS(o) == o.owner \in CCS

\* After the operations that only look at the two copies: CCS references skip
\* EnsureProjectCreated.
AfterFinalizerAdded(o) == IF IsCCS(o) THEN "APIs" ELSE "CreateProject"

\* Variant: the zones are not looked at.
ClaimReadyOperationNoZones(cl) ==
  IF cl.projectID = Nil THEN "ClaimProjectID" ELSE "ClaimReady"

\* EnsureProjectClaimReady, for a reference that is Ready and a claim that is
\* not: zones first, then the ID, then the status.
ClaimReadyOperation(cl) ==
  IF ~cl.zones THEN "AvailabilityZones"
  ELSE IF cl.projectID = Nil THEN "ClaimProjectID"
  ELSE "ClaimReady"

\* Variant: the reference gets no finalizer.
SetUpOperationNoFinalizer(o) ==
  IF o.state = "" THEN "StatusCreating"
  ELSE IF o.projectID = Nil THEN "ProjectID"
  ELSE IF ~o.saName THEN "ServiceAccountName"
  ELSE AfterFinalizerAdded(o)

\* The first operation after VerifyProjectClaimPending that acts.
SetUpOperation(o) ==
  IF o.state = "" THEN "StatusCreating"
  ELSE IF o.projectID = Nil THEN "ProjectID"
  ELSE IF ~o.saName THEN "ServiceAccountName"
  ELSE IF ~o.finalizer THEN "FinalizerAdded"
  ELSE AfterFinalizerAdded(o)

\* Variant: EnsureDeletionProcessed comes last.
FirstOperationDeletionLast(o, cl) ==
  IF ~o.inited THEN "Initialized"
  ELSE IF o.state = "Ready" /\ cl.state = "Ready" THEN "Condition"
  ELSE IF o.state = "Ready" THEN ClaimReadyOperation(cl)
  ELSE IF cl.state # "PendingProject" THEN "Condition"
  ELSE SetUpOperation(o)

\* The first operation of ReconcileHandler that acts.  "Condition": none does,
\* or one only ends the chain.
FirstOperation(o, cl) ==
  IF ~o.inited THEN "Initialized"
  ELSE IF o.deleting THEN "DeletePolicy"
  ELSE IF o.state = "Ready" /\ cl.state = "Ready" THEN "Condition"
  ELSE IF o.state = "Ready" THEN ClaimReadyOperation(cl)
  ELSE IF cl.state # "PendingProject" THEN "Condition"
  ELSE SetUpOperation(o)

\* VerifyProjectClaimPending asks for a new try in five seconds; a claim that
\* is Ready needs nothing any more.
FirstOutcome(o, cl) ==
  IF FirstOperation(o, cl) = "Condition" /\ o.state # "Ready" THEN "after" ELSE "stop"

RefGoto(pc) == rw' = [rw EXCEPT !.pc = pc]

\* The chain ends with this outcome, and o is the reference in memory.
RefFinish(out, o) == rw' = [rw EXCEPT !.pc = "Condition", !.ref = o, !.out = out]

RefFails == RefFinish("error", rw.ref)

-----------------------------------------------------------------------------
(* Reconcile.                                                              *)

\* getGcpClient: the credentials are the customer's, or the operator's own,
\* which are assumed to be there.
HasCredentials(o) == IsCCS(o) => ccsSecret[o.owner].exists

\* NewReferenceAdapter also needs the claim.  ProjectSetup has the config map;
\* here it is assumed to be there.
CanBuildAdapter(o) == HasCredentials(o) /\ claimCache[o.owner].exists

\* Reconcile takes reference r off the queue and gets it and its claim from
\* the cache.  A reference that is not found is dropped.  Without credentials
\* or claim an error is returned, and the reference stays queued.  Validate
\* looks at fields that newMatchingProjectReference copied from a claim that
\* was valid, and passes; reads of the cache fail only with "not found".
StartReference(r) ==
  LET o == refCache[r]
  IN  /\ rw.pc = "idle"
      /\ r \in refQ
      /\ CanReadRef(r)
      /\ IF ~o.exists
         THEN refQ' = refQ \ {r} /\ UNCHANGED <<rw, refCur, claimCur>>
         ELSE /\ CanReadClaim(o.owner)
              /\ IF CanBuildAdapter(o)
                 THEN LET cl == claimCache[o.owner]
                      IN  /\ rw' = [pc |-> FirstOperation(o, cl), key |-> r, ref |-> o,
                                    claim |-> cl, out |-> FirstOutcome(o, cl)]
                          /\ refQ' = refQ \ {r}
                          /\ refCur' = [refCur EXCEPT ![r] =
                                IF "cache" \in @ THEN @ \cup {"refCtl"} ELSE @]
                          /\ claimCur' = [claimCur EXCEPT ![o.owner] =
                                IF "cache" \in @ THEN @ \cup {"refCtl"} ELSE @]
                 ELSE UNCHANGED <<rw, refQ, refCur, claimCur>>
      /\ UNCHANGED <<claim, ref, caches, claimQ, secrets, cloud, world, cw>>

\* SetProjectReferenceCondition, whose result is ignored, and the return from
\* Reconcile.  Unless there is no condition at all, the condition of type
\* Error is written on every reconcile, with a new LastProbeTime.
ReferenceConditionDue(o, out) ==
  out = "error" \/ o.error # "none" \/ o.compute # "none"

ReferenceCondition(o, out) ==
  [o EXCEPT !.error = IF out = "error" THEN "True" ELSE "Resolved"]

FinishReference ==
  LET r == rw.key
      c == rw.ref.owner
  IN  /\ rw.pc = "Condition"
      /\ IF ReferenceConditionDue(rw.ref, rw.out)
         THEN \E touched \in BOOLEAN :
              \E w \in Replies("refCtl", ref[r], refCur[r],
                               RefStatusUpdate(ReferenceCondition(rw.ref, rw.out), ref[r]),
                               touched) :
                /\ ref' = [ref EXCEPT ![r] = w.obj]
                /\ refCur' = [refCur EXCEPT ![r] = w.cur \ {"refCtl"}]
         ELSE /\ refCur' = [refCur EXCEPT ![r] = @ \ {"refCtl"}]
              /\ UNCHANGED ref
      /\ claimCur' = [claimCur EXCEPT ![c] = @ \ {"refCtl"}]
      /\ refQ' = IF Requeued(rw.out) THEN refQ \cup {r} ELSE refQ
      /\ rw' = IdleReferenceWorker
      /\ UNCHANGED <<claim, caches, claimQ, secrets, cloud, world, cw>>

-----------------------------------------------------------------------------
(* Writes of the reference that end the chain.                             *)

SaveRef(edited) ==
  \E ok \in BOOLEAN :
    /\ UpdateRef(rw.key, edited, ok)
    /\ RefFinish(ErrorOrStop(ok), Answer(ok, RefUpdate(edited, ref[rw.key]), edited))
SaveRefStatus(edited) ==
  \E ok \in BOOLEAN :
    /\ UpdateRefStatus(rw.key, edited, FALSE, ok)
    /\ RefFinish(ErrorOrStop(ok), edited)

EnsureProjectReferenceInitialized ==
  /\ rw.pc = "Initialized"
  /\ SaveRefStatus([rw.ref EXCEPT !.inited = TRUE])
  /\ UNCHANGED <<claimObjs, caches, queues, secrets, cloud, world, cw>>

EnsureProjectReferenceStatusCreating ==
  /\ rw.pc = "StatusCreating"
  /\ SaveRefStatus([rw.ref EXCEPT !.state = "Creating"])
  /\ UNCHANGED <<claimObjs, caches, queues, secrets, cloud, world, cw>>

\* EnsureProjectID and UpdateProjectID: GenerateProjectID returns an ID nobody
\* has used.  ProjectIDs bounds how often: once it is used up the call fails.
EnsureProjectID ==
  /\ rw.pc = "ProjectID"
  /\ \/ \E id \in ProjectIDs \ issued :
          /\ SaveRef([rw.ref EXCEPT !.projectID = id])
          /\ issued' = IF ref'[rw.key].projectID = id THEN issued \cup {id} ELSE issued
     \/ /\ ProjectIDs \subseteq issued
        /\ RefFails
        /\ UNCHANGED <<refObjs, issued>>
  /\ UNCHANGED <<claimObjs, caches, queues, secrets, project, world, cw>>

EnsureServiceAccountName ==
  /\ rw.pc = "ServiceAccountName"
  /\ SaveRef([rw.ref EXCEPT !.saName = TRUE])
  /\ UNCHANGED <<claimObjs, caches, queues, secrets, cloud, world, cw>>

EnsureFinalizerAdded ==
  /\ rw.pc = "FinalizerAdded"
  /\ SaveRef([rw.ref EXCEPT !.finalizer = TRUE])
  /\ UNCHANGED <<claimObjs, caches, queues, secrets, cloud, world, cw>>

\* EnsureStateReady
EnsureStateReady ==
  /\ rw.pc = "StateReady"
  /\ SaveRefStatus([rw.ref EXCEPT !.state = "Ready"])
  /\ UNCHANGED <<claimObjs, caches, queues, secrets, cloud, world, cw>>

-----------------------------------------------------------------------------
(* EnsureProjectCreated.                                                   *)

\* getProject looks the ID up in what projects.list returns.
Listed(id) == project[id].life # "none"

\* Variant: the ID is given up whatever went wrong.
ListProjectsFailsClearsID ==
  /\ rw.pc = "CreateProject"
  /\ Faulty("gcpError")
  /\ RefGoto("ClearProjectID")
  /\ UNCHANGED <<claimObjs, refObjs, caches, queues, secrets, cloud, world, cw>>

\* createProject: the projects could not be listed, which says nothing about
\* this one, and the ID is kept.
ListProjectsFails ==
  /\ rw.pc = "CreateProject"
  /\ Faulty("gcpError")
  /\ RefFails
  /\ UNCHANGED <<claimObjs, refObjs, caches, queues, secrets, cloud, world, cw>>

\* createProject: the project is there.
ProjectFound ==
  LET id == rw.ref.projectID
  IN  /\ rw.pc = "CreateProject"
      /\ Listed(id)
      /\ project[id].life = "ACTIVE"
      /\ RefGoto("Billing")
      /\ UNCHANGED <<claimObjs, refObjs, caches, queues, secrets, cloud, world, cw>>

\* createProject returns ErrInactiveProject: the reference goes to state Error.
ProjectInactive ==
  LET id == rw.ref.projectID
  IN  /\ rw.pc = "CreateProject"
      /\ Listed(id)
      /\ project[id].life = "DELETE_REQUESTED"
      /\ SaveRefStatus([rw.ref EXCEPT !.state = "Error"])
      /\ UNCHANGED <<claimObjs, caches, queues, secrets, cloud, world, cw>>

\* createProject: the project is not listed.  CreateProject takes the answer
\* "already exists" for success; after any other error the ID is given up.
\* A creation is refused only while there are IDs left for another try.
ProjectMissing ==
  LET id == rw.ref.projectID
  IN  /\ rw.pc = "CreateProject"
      /\ ~Listed(id) \/ Faulty("listPartial")
      /\ \/ /\ project' = [project EXCEPT ![id] =
                             IF @.life = "none" THEN [@ EXCEPT !.life = "ACTIVE"] ELSE @]
            /\ \/ RefGoto("Billing")
               \/ /\ project[id].life = "none"
                  /\ Faulty("createLost")
                  /\ ProjectIDs \ issued # {}
                  /\ RefGoto("ClearProjectID")
         \/ /\ project[id].life = "none"
            /\ Faulty("createFails")
            /\ ProjectIDs \ issued # {}
            /\ RefGoto("ClearProjectID")
            /\ UNCHANGED project
      /\ UNCHANGED <<claimObjs, refObjs, caches, queues, secrets, issued, world, cw>>

\* clearProjectID.  The reconcile fails whether or not the ID could be cleared.
ClearProjectID ==
  LET edited == [rw.ref EXCEPT !.projectID = Nil]
  IN  /\ rw.pc = "ClearProjectID"
      /\ \E ok \in BOOLEAN :
           /\ UpdateRef(rw.key, edited, ok)
           /\ RefFinish("error", Answer(ok, RefUpdate(edited, ref[rw.key]), edited))
      /\ UNCHANGED <<claimObjs, caches, queues, secrets, cloud, world, cw>>

\* A call on the project that leaves it as p and goes on with operation pc.
\* It fails on a project that is not active; an error may also come from GCP,
\* before or after the call took effect.
Configure(p, pc) ==
  LET id == rw.ref.projectID
  IN  \/ /\ project[id].life = "ACTIVE"
         /\ project' = [project EXCEPT ![id] = p]
         /\ RefGoto(pc) \/ (Faulty("gcpError") /\ RefFails)
      \/ /\ project[id].life # "ACTIVE" \/ Faulty("gcpError")
         /\ RefFails
         /\ UNCHANGED project

\* configureBillingAPI
ConfigureBillingAPI ==
  /\ rw.pc = "Billing"
  /\ Configure([project[rw.ref.projectID] EXCEPT !.billing = TRUE], "APIs")
  /\ UNCHANGED <<claimObjs, refObjs, caches, queues, secrets, issued, world, cw>>

-----------------------------------------------------------------------------
(* EnsureProjectConfigured.                                                *)

\* configureAPIS
ConfigureAPIS ==
  /\ rw.pc = "APIs"
  /\ Configure([project[rw.ref.projectID] EXCEPT !.apis = TRUE], "ServiceAccount")
  /\ UNCHANGED <<claimObjs, refObjs, caches, queues, secrets, issued, world, cw>>

\* configureServiceAccount: get the account, or create it.  When the account
\* cannot be read and cannot be created since it exists, try again later.
ConfigureServiceAccount ==
  LET id == rw.ref.projectID
  IN  /\ rw.pc = "ServiceAccount"
      /\ \/ Configure([project[id] EXCEPT !.sa = TRUE], "Policy")
         \/ /\ project[id].sa
            /\ Faulty("gcpError") \/ Faulty("accountLate")
            /\ RefFinish("after", rw.ref)
            /\ UNCHANGED project
      /\ UNCHANGED <<claimObjs, refObjs, caches, queues, secrets, issued, world, cw>>

\* SetIAMPolicy for the service account
SetIAMPolicy ==
  /\ rw.pc = "Policy"
  /\ Configure([project[rw.ref.projectID] EXCEPT !.bound = TRUE], "Credentials")
  /\ UNCHANGED <<claimObjs, refObjs, caches, queues, secrets, issued, world, cw>>

\* The operation after createCredentials: console access is for CCS only.
AfterCredentials(o) == IF IsCCS(o) THEN "ConsoleAccess" ELSE "StateReady"

\* createCredentials up to the Secret: nothing to do if the cache has it;
\* otherwise the account is read and a key is made for it.
CreateKey ==
  LET c == rw.ref.owner
      id == rw.ref.projectID
  IN  /\ rw.pc = "Credentials"
      /\ CanReadSecret(c)
      /\ \/ /\ secretCache[c]
            /\ RefGoto(AfterCredentials(rw.ref))
         \/ /\ ~secretCache[c]
            /\ project[id].sa
            /\ RefGoto("CreateSecret")
         \/ /\ ~secretCache[c]
            /\ ~project[id].sa \/ Faulty("accountLate")
            /\ RefFinish("after", rw.ref)
         \/ /\ ~secretCache[c]
            /\ Faulty("gcpError")
            /\ RefFails
      /\ UNCHANGED <<claimObjs, refObjs, caches, queues, secrets, cloud, world, cw>>

\* createCredentials: the key is stored, unless there is a Secret of that name.
CreateSecret ==
  LET c == rw.ref.owner
  IN  /\ rw.pc = "CreateSecret"
      /\ \/ /\ secret[c] = Nil
            /\ secret' = [secret EXCEPT ![c] = rw.ref.projectID]
            /\ \/ RefGoto(AfterCredentials(rw.ref))
               \/ Faulty("replyLost") /\ RefFails
         \/ /\ secret[c] # Nil \/ Faulty("apiError")
            /\ RefFails
            /\ UNCHANGED secret
      /\ UNCHANGED <<claimObjs, refObjs, caches, queues, ccsSecret, cloud, world, cw>>

\* SetIAMPolicy for the groups with console access
SetConsoleAccess ==
  /\ rw.pc = "ConsoleAccess"
  /\ Configure([project[rw.ref.projectID] EXCEPT !.console = TRUE], "StateReady")
  /\ UNCHANGED <<claimObjs, refObjs, caches, queues, secrets, issued, world, cw>>

-----------------------------------------------------------------------------
(* EnsureProjectClaimReady.                                                *)

\* ensureClaimAvailabilityZonesSet: the zones could be listed.
EnsureClaimAvailabilityZonesSet ==
  LET c == rw.ref.owner
      edited == [rw.claim EXCEPT !.zones = TRUE]
      noted == [rw.ref EXCEPT !.compute = "True"]
  IN  /\ rw.pc = "AvailabilityZones"
      /\ project[rw.ref.projectID].apis
      /\ \E ok \in BOOLEAN :
           /\ UpdateClaim("refCtl", c, edited, ok)
           /\ RefFinish(IF ok THEN "now" ELSE "error", noted)
      /\ UNCHANGED <<refObjs, caches, queues, secrets, cloud, world, cw>>

\* handleAvailabilityZonesError: the Compute API is not ready, which is noted
\* in the status.  After ten minutes of it, an error is returned as well.
HandleAvailabilityZonesError ==
  LET noted == [rw.ref EXCEPT !.compute = "False"]
  IN  /\ rw.pc = "AvailabilityZones"
      /\ \/ /\ Faulty("computeLate")
            /\ \E ok, touched \in BOOLEAN, late \in {FALSE, rw.ref.compute # "none"} :
                 /\ UpdateRefStatus(rw.key, noted, touched, ok)
                 /\ RefFinish(IF late \/ ~ok THEN "error" ELSE "after", noted)
         \/ /\ ~project[rw.ref.projectID].apis \/ Faulty("gcpError")
            /\ RefFails
            /\ UNCHANGED refObjs
      /\ UNCHANGED <<claimObjs, caches, queues, secrets, cloud, world, cw>>

\* ensureClaimProjectIDSet, and the Update if it set the ID.
EnsureClaimProjectIDSet ==
  LET c == rw.ref.owner
      edited == [rw.claim EXCEPT !.projectID = rw.ref.projectID]
  IN  /\ rw.pc = "ClaimProjectID"
      /\ \E ok \in BOOLEAN :
           /\ UpdateClaim("refCtl", c, edited, ok)
           /\ IF ok
              THEN rw' = [rw EXCEPT !.pc = "ClaimReady",
                                    !.claim = ClaimUpdate(edited, claim[c])]
              ELSE RefFails
      /\ UNCHANGED <<refObjs, caches, queues, secrets, cloud, world, cw>>

\* EnsureProjectClaimReady: the claim's status.
EnsureProjectClaimReady ==
  /\ rw.pc = "ClaimReady"
  /\ \E ok \in BOOLEAN :
       /\ UpdateClaimStatus("refCtl", rw.ref.owner,
                            [rw.claim EXCEPT !.state = "Ready"], FALSE, ok)
       /\ RefFinish(ErrorOrStop(ok), rw.ref)
  /\ UNCHANGED <<refObjs, caches, queues, secrets, cloud, world, cw>>

-----------------------------------------------------------------------------
(* EnsureDeletionProcessed and EnsureProjectCleanedUp.                     *)

\* Variant: the project is left alone.
AfterServiceAccountKeepsProject(o) ==
  IF IsCCS(o) THEN "DeleteConsoleAccess" ELSE "DeleteCredentials"

\* The operation after deleteServiceAccount
AfterServiceAccount(o) == IF IsCCS(o) THEN "DeleteConsoleAccess" ELSE "DeleteProject"

\* GetServiceAccount finds the account of reference o.  A project that is not
\* active, and an empty project ID, have none.
HasServiceAccount(o) ==
  o.projectID # Nil /\ project[o.projectID].life = "ACTIVE" /\ project[o.projectID].sa

\* deleteServiceAccount: find the account and take its roles away.
DeletePolicy ==
  LET o == rw.ref
  IN  /\ rw.pc = "DeletePolicy"
      /\ \/ /\ ~HasServiceAccount(o) \/ Faulty("accountLate")
            /\ RefGoto(AfterServiceAccount(o))
            /\ UNCHANGED project
         \/ /\ HasServiceAccount(o)
            /\ Configure([project[o.projectID] EXCEPT !.bound = FALSE],
                         "DeleteServiceAccount")
         \/ /\ Faulty("gcpError")
            /\ RefFails
            /\ UNCHANGED project
      /\ UNCHANGED <<claimObjs, refObjs, caches, queues, secrets, issued, world, cw>>

DeleteServiceAccount ==
  /\ rw.pc = "DeleteServiceAccount"
  /\ Configure([project[rw.ref.projectID] EXCEPT !.sa = FALSE],
               AfterServiceAccount(rw.ref))
  /\ UNCHANGED <<claimObjs, refObjs, caches, queues, secrets, issued, world, cw>>

\* deleteProject: nothing to do if the project is not listed or is on its way.
DeleteProject ==
  LET id == rw.ref.projectID
      listed == id # Nil /\ Listed(id)
  IN  /\ rw.pc = "DeleteProject"
      /\ \/ /\ ~listed \/ Faulty("listPartial")
            /\ RefGoto("DeleteCredentials")
            /\ UNCHANGED project
         \/ /\ listed
            /\ project[id].life = "DELETE_REQUESTED"
            /\ RefGoto("DeleteCredentials")
            /\ UNCHANGED project
         \/ /\ listed
            /\ project[id].life = "ACTIVE"
            /\ project' = [project EXCEPT ![id] = [NoProject EXCEPT !.life = "DELETE_REQUESTED"]]
            /\ RefGoto("DeleteCredentials") \/ (Faulty("gcpError") /\ RefFails)
         \/ /\ Faulty("gcpError")
            /\ RefFails
            /\ UNCHANGED project
      /\ UNCHANGED <<claimObjs, refObjs, caches, queues, secrets, issued, world, cw>>

\* ensureCCSProjectCleanedUp
DeleteConsoleAccess ==
  /\ rw.pc = "DeleteConsoleAccess"
  /\ Configure([project[rw.ref.projectID] EXCEPT !.console = FALSE], "DeleteCredentials")
  /\ UNCHANGED <<claimObjs, refObjs, caches, queues, secrets, issued, world, cw>>

\* The operation after deleteCredentials: EnsureFinalizerDeleted
AfterDeleteCredentials(o) == IF o.finalizer THEN "FinalizerDeleted" ELSE "Condition"

\* Variant: the Secret is left alone.
DeleteCredentialsNothing ==
  /\ rw.pc = "DeleteCredentials"
  /\ RefGoto(AfterDeleteCredentials(rw.ref))
  /\ UNCHANGED <<claimObjs, refObjs, caches, queues, secrets, cloud, world, cw>>

\* deleteCredentials: the Secret is deleted if the cache has it.
DeleteCredentials ==
  LET c == rw.ref.owner
      next == AfterDeleteCredentials(rw.ref)
  IN  /\ rw.pc = "DeleteCredentials"
      /\ CanReadSecret(c)
      /\ \/ /\ ~secretCache[c]
            /\ RefGoto(next)
            /\ UNCHANGED secret
         \/ /\ secretCache[c]
            /\ secret[c] # Nil
            /\ secret' = [secret EXCEPT ![c] = Nil]
            /\ RefGoto(next) \/ (Faulty("replyLost") /\ RefFails)
         \/ /\ secretCache[c]
            /\ secret[c] = Nil \/ Faulty("apiError")
            /\ RefFails
            /\ UNCHANGED secret
      /\ UNCHANGED <<claimObjs, refObjs, caches, queues, ccsSecret, cloud, world, cw>>

EnsureFinalizerDeleted ==
  LET edited == [rw.ref EXCEPT !.finalizer = FALSE]
  IN  /\ rw.pc = "FinalizerDeleted"
      /\ \E ok \in BOOLEAN :
           /\ UpdateRef(rw.key, edited, ok)
           /\ RefFinish(ErrorOrStop(ok), edited)
      /\ UNCHANGED <<claimObjs, caches, queues, secrets, cloud, world, cw>>

-----------------------------------------------------------------------------
\* A step of a reconcile that is under way.
ReferenceStep ==
  \/ EnsureProjectReferenceInitialized
  \/ DeletePolicy \/ DeleteServiceAccount \/ DeleteProject \/ DeleteConsoleAccess
  \/ DeleteCredentials \/ EnsureFinalizerDeleted
  \/ EnsureClaimAvailabilityZonesSet \/ HandleAvailabilityZonesError
  \/ EnsureClaimProjectIDSet \/ EnsureProjectClaimReady
  \/ EnsureProjectReferenceStatusCreating
  \/ EnsureProjectID
  \/ EnsureServiceAccountName
  \/ EnsureFinalizerAdded
  \/ ListProjectsFails \/ ProjectFound \/ ProjectInactive \/ ProjectMissing
  \/ ClearProjectID
  \/ ConfigureBillingAPI
  \/ ConfigureAPIS \/ ConfigureServiceAccount \/ SetIAMPolicy
  \/ CreateKey \/ CreateSecret \/ SetConsoleAccess
  \/ EnsureStateReady
  \/ FinishReference
=============================================================================
