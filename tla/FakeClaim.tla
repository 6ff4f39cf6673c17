----------------------------- MODULE FakeClaim -----------------------------
(***************************************************************************)
(* Claims with the annotation managed.openshift.com/fake: they get a       *)
(* Secret and a spec that look like those of a real claim, and no project  *)
(* in GCP.  EnsureProjectClaimFakeProcessed handles such a claim alone and *)
(* ends the chain of operations.                                           *)
(*                                                                         *)
(* Both controllers, the API server and the users are those of             *)
(* GcpProjectOperator, and claims are real until someone marks them: the   *)
(* ProjectReference controller does not know the annotation, and may have  *)
(* made the claim Ready before.  Since the spec of a fake claim is renamed *)
(* to another Secret, Secrets are kept by name here, and the three steps   *)
(* of the ProjectReference controller that touch one are restated.  Fake   *)
(* claims are not CCS.                                                     *)
(*                                                                         *)
(* A definition marked "Variant" is the next one with a fault in it, which *)
(* the properties have to notice.                                          *)
(***************************************************************************)
EXTENDS GcpProjectOperator

CONSTANT FakeProjectClaim  \* the ID that the spec of a fake claim gets

ASSUME FakeAssumption == FakeProjectClaim \notin ProjectIDs \cup {Nil} /\ CCS = {}

VARIABLES
  marked,           \* the claims with the annotation
  sameName,         \* the claims that ask for a Secret of their own name
  credentials,      \* the Secrets there are for each claim: "asked", "own"
  credentialsCache  \* the same in the informer cache

fakes == <<marked, sameName, credentials, credentialsCache>>
fakeVars == <<vars, fakes>>

\* spec.GCPCredentialSecret of copy o: UpdateFakeProjectClaimSpecs sets it to
\* the namespace and name of the claim along with the project ID.  The Secret
\* of a claim that is not valid is in another namespace.
SecretName(c, o) ==
  IF o.projectID = FakeProjectClaim \/ (c \in sameName /\ o.valid)
  THEN "own" ELSE "asked"

CanReadCredentials(c) == credentialsCache[c] = credentials[c] \/ "secretLag" \in Faults

-----------------------------------------------------------------------------
(* The order of EnsureProjectClaimFakeProcessed.                           *)

\* After the Secret: the spec, then the state, each followed by a return.
AfterFakeSecret(o) ==
  IF o.projectID # FakeProjectClaim THEN "FakeSpecs"
  ELSE IF o.state # "Ready" THEN "FakeState"
  ELSE "Condition"

\* Variant: the Secret is taken care of only once.
AfterFakeFinalizerOneSecret(o) ==
  IF o.deleting THEN "FakeSecretDeleted"
  ELSE IF ~o.valid THEN "FakeInvalid"
  ELSE IF o.projectID = FakeProjectClaim THEN AfterFakeSecret(o)
  ELSE "FakeSecret"

AfterFakeFinalizer(o) ==
  IF o.deleting THEN "FakeSecretDeleted"
  ELSE IF ~o.valid THEN "FakeInvalid"
  ELSE "FakeSecret"

FirstFakeOperation(o) == IF o.finalizer THEN AfterFakeFinalizer(o) ELSE "FakeFinalizer"

\* Reconcile of a claim that is marked.
StartFake(c) ==
  /\ c \in marked
  /\ claimCache[c].exists
  /\ cw.pc = "idle"
  /\ c \in claimQ
  /\ CanReadClaim(c)
  /\ claimQ' = claimQ \ {c}
  /\ cw' = [pc |-> FirstFakeOperation(claimCache[c]), key |-> c,
            obj |-> claimCache[c], out |-> "stop"]
  /\ claimCur' = [claimCur EXCEPT ![c] =
                    IF "cache" \in @ THEN @ \cup {"claimCtl"} ELSE @]
  /\ UNCHANGED <<claim, refObjs, caches, refQ, secrets, cloud, world, rw, fakes>>

\* EnsureFinalizer, whose request to stop is ignored here.
EnsureFakeFinalizer ==
  LET edited == [cw.obj EXCEPT !.finalizer = TRUE]
      stored == ClaimUpdate(edited, claim[cw.key])
  IN  /\ cw.pc = "FakeFinalizer"
      /\ \E ok \in BOOLEAN :
           /\ UpdateClaim("claimCtl", cw.key, edited, ok)
           /\ IF ok THEN ClaimGoto(AfterFakeFinalizer(stored), stored)
              ELSE ClaimFinish("error", edited)
      /\ UNCHANGED <<refObjs, caches, queues, secrets, cloud, world, rw, fakes>>

-----------------------------------------------------------------------------
(* Deletion.                                                               *)

\* DeleteFakeSecret: a Secret that is not found is an error.
DeleteFakeSecret ==
  LET c == cw.key
      n == SecretName(c, cw.obj)
  IN  /\ cw.pc = "FakeSecretDeleted"
      /\ CanReadCredentials(c)
      /\ \/ /\ n \in credentialsCache[c]
            /\ n \in credentials[c]
            /\ credentials' = [credentials EXCEPT ![c] = @ \ {n}]
            /\ \/ ClaimGoto("FakeDeletion", cw.obj)
               \/ Faulty("replyLost") /\ ClaimFinish("error", cw.obj)
         \/ /\ n \notin credentialsCache[c] \/ n \notin credentials[c] \/ Faulty("apiError")
            /\ ClaimFinish("error", cw.obj)
            /\ UNCHANGED credentials
      /\ UNCHANGED <<claimObjs, refObjs, caches, queues, secrets, cloud, world, rw,
                     marked, sameName, credentialsCache>>

\* Variant: the reference is left to go by itself.
FakeFinalizeReferenceStays ==
  /\ cw.pc = "FakeDeletion"
  /\ CanFindRef(RefName(cw.key))
  /\ refCache[RefName(cw.key)].exists
  /\ ClaimFinish("stop", cw.obj)
  /\ UNCHANGED <<claimObjs, refObjs, caches, queues, secrets, cloud, world, rw, fakes>>

\* EnsureProjectClaimDeletionProcessed with a reference: it is deleted, and the
\* request to come back in five seconds is ignored.
FakeFinalizeReference ==
  LET r == RefName(cw.key)
  IN  /\ cw.pc = "FakeDeletion"
      /\ CanFindRef(r)
      /\ refCache[r].exists
      /\ \/ /\ ref[r].exists
            /\ ref' = [ref EXCEPT ![r] = Deleted(@, NoRef)]
            /\ refCur' = [refCur EXCEPT ![r] = IF ref[r].deleting THEN @ ELSE {}]
            /\ \/ ClaimFinish("stop", cw.obj)
               \/ Faulty("replyLost") /\ ClaimFinish("error", cw.obj)
         \/ /\ ~ref[r].exists \/ Faulty("apiError")
            /\ ClaimFinish("error", cw.obj)
            /\ UNCHANGED refObjs
      /\ UNCHANGED <<claimObjs, caches, queues, secrets, cloud, world, rw, fakes>>

\* Variant: whether there is a reference does not matter.
FakeFinalizeUnchecked ==
  LET edited == [cw.obj EXCEPT !.finalizer = FALSE]
  IN  /\ cw.pc = "FakeDeletion"
      /\ \E ok \in BOOLEAN :
           /\ UpdateClaim("claimCtl", cw.key, edited, ok)
           /\ ClaimFinish(ErrorOrStop(ok), edited)
      /\ UNCHANGED <<refObjs, caches, queues, secrets, cloud, world, rw, fakes>>

\* EnsureProjectClaimDeletionProcessed without a reference.
FakeFinalize ==
  LET edited == [cw.obj EXCEPT !.finalizer = FALSE]
  IN  /\ cw.pc = "FakeDeletion"
      /\ CanFindRef(RefName(cw.key))
      /\ ~refCache[RefName(cw.key)].exists
      /\ \E ok \in BOOLEAN :
           /\ UpdateClaim("claimCtl", cw.key, edited, ok)
           /\ ClaimFinish(ErrorOrStop(ok), edited)
      /\ UNCHANGED <<refObjs, caches, queues, secrets, cloud, world, rw, fakes>>

-----------------------------------------------------------------------------
(* Setting up.                                                             *)

\* Validate fails: the state is set, and nothing else is done.
RejectFake ==
  /\ cw.pc = "FakeInvalid"
  /\ SaveClaimStatus([cw.obj EXCEPT !.state = "Error"], FALSE)
  /\ UNCHANGED <<refObjs, caches, queues, secrets, cloud, world, rw, fakes>>

\* Variant: whether the Secret exists is not looked at.
CreateFakeSecretAlways ==
  LET c == cw.key
      n == SecretName(c, cw.obj)
  IN  /\ cw.pc = "FakeSecret"
      /\ IF n \in credentials[c] THEN ClaimFinish("error", cw.obj)
         ELSE ClaimGoto(AfterFakeSecret(cw.obj), cw.obj)
      /\ credentials' = [credentials EXCEPT ![c] = @ \cup {n}]
      /\ UNCHANGED <<claimObjs, refObjs, caches, queues, secrets, cloud, world, rw,
                     marked, sameName, credentialsCache>>

\* CreateFakeSecret
CreateFakeSecret ==
  LET c == cw.key
      n == SecretName(c, cw.obj)
  IN  /\ cw.pc = "FakeSecret"
      /\ CanReadCredentials(c)
      /\ \/ /\ n \in credentialsCache[c]
            /\ ClaimGoto(AfterFakeSecret(cw.obj), cw.obj)
            /\ UNCHANGED credentials
         \/ /\ n \notin credentialsCache[c]
            /\ n \notin credentials[c]
            /\ credentials' = [credentials EXCEPT ![c] = @ \cup {n}]
            /\ \/ ClaimGoto(AfterFakeSecret(cw.obj), cw.obj)
               \/ Faulty("replyLost") /\ ClaimFinish("error", cw.obj)
         \/ /\ n \notin credentialsCache[c]
            /\ n \in credentials[c] \/ Faulty("apiError")
            /\ ClaimFinish("error", cw.obj)
            /\ UNCHANGED credentials
      /\ UNCHANGED <<claimObjs, refObjs, caches, queues, secrets, cloud, world, rw,
                     marked, sameName, credentialsCache>>

UpdateFakeProjectClaimSpecs ==
  /\ cw.pc = "FakeSpecs"
  /\ SaveClaim([cw.obj EXCEPT !.projectID = FakeProjectClaim, !.zones = TRUE])
  /\ UNCHANGED <<refObjs, caches, queues, secrets, cloud, world, rw, fakes>>

\* UpdateFakeProjectClaimState, which also throws the conditions away.
UpdateFakeProjectClaimState ==
  /\ cw.pc = "FakeState"
  /\ SaveClaimStatus([cw.obj EXCEPT !.inited = TRUE, !.invalid = "none",
                                    !.error = "none", !.state = "Ready"], FALSE)
  /\ UNCHANGED <<refObjs, caches, queues, secrets, cloud, world, rw, fakes>>

-----------------------------------------------------------------------------
(* The ProjectReference controller with Secrets by name: it goes by the    *)
(* spec of the claim that it read.                                         *)

\* createCredentials up to the Secret
CreateKeyByName ==
  LET c == rw.ref.owner
      n == SecretName(c, rw.claim)
      sa == project[rw.ref.projectID].sa
  IN  /\ rw.pc = "Credentials"
      /\ CanReadCredentials(c)
      /\ \/ /\ n \in credentialsCache[c]
            /\ RefGoto("StateReady")
         \/ /\ n \notin credentialsCache[c]
            /\ \/ sa /\ RefGoto("CreateSecret")
               \/ (~sa \/ Faulty("accountLate")) /\ RefFinish("after", rw.ref)
               \/ Faulty("gcpError") /\ RefFails
      /\ UNCHANGED <<claimObjs, refObjs, caches, queues, secrets, cloud, world, cw, fakes>>

\* createCredentials: the Secret
CreateSecretByName ==
  LET c == rw.ref.owner
      n == SecretName(c, rw.claim)
  IN  /\ rw.pc = "CreateSecret"
      /\ \/ /\ n \notin credentials[c]
            /\ credentials' = [credentials EXCEPT ![c] = @ \cup {n}]
            /\ RefGoto("StateReady") \/ (Faulty("replyLost") /\ RefFails)
         \/ /\ n \in credentials[c] \/ Faulty("apiError")
            /\ RefFails
            /\ UNCHANGED credentials
      /\ UNCHANGED <<claimObjs, refObjs, caches, queues, secrets, cloud, world, cw,
                     marked, sameName, credentialsCache>>

\* deleteCredentials
DeleteCredentialsByName ==
  LET c == rw.ref.owner
      n == SecretName(c, rw.claim)
      next == AfterDeleteCredentials(rw.ref)
  IN  /\ rw.pc = "DeleteCredentials"
      /\ CanReadCredentials(c)
      /\ \/ /\ n \notin credentialsCache[c]
            /\ RefGoto(next)
            /\ UNCHANGED credentials
         \/ /\ n \in credentialsCache[c] \cap credentials[c]
            /\ credentials' = [credentials EXCEPT ![c] = @ \ {n}]
            /\ RefGoto(next) \/ (Faulty("replyLost") /\ RefFails)
         \/ /\ n \in credentialsCache[c]
            /\ n \notin credentials[c] \/ Faulty("apiError")
            /\ RefFails
            /\ UNCHANGED credentials
      /\ UNCHANGED <<claimObjs, refObjs, caches, queues, secrets, cloud, world, cw,
                     marked, sameName, credentialsCache>>

ReferenceStepByName ==
  \/ CreateKeyByName \/ CreateSecretByName \/ DeleteCredentialsByName
  \/ /\ rw.pc \notin {"Credentials", "CreateSecret", "DeleteCredentials"}
     /\ ReferenceStep
     /\ UNCHANGED fakes

-----------------------------------------------------------------------------
(* The world around.                                                       *)

\* The user adds the annotation, at once or any time later.
MarkFake(c) ==
  /\ claim[c].exists
  /\ c \notin marked
  /\ marked' = marked \cup {c}
  /\ claimCur' = [claimCur EXCEPT ![c] = {}]
  /\ UNCHANGED <<claim, refObjs, caches, queues, secrets, cloud, world, workers,
                 sameName, credentials, credentialsCache>>

SyncFakeSecret(c) ==
  /\ credentialsCache[c] # credentials[c]
  /\ credentialsCache' = [credentialsCache EXCEPT ![c] = credentials[c]]
  /\ UNCHANGED <<vars, marked, sameName, credentials>>

\* A restart fills the cache of Secrets too.
CrashWithFakes ==
  /\ Crash
  /\ credentialsCache' = credentials
  /\ UNCHANGED <<marked, sameName, credentials>>

-----------------------------------------------------------------------------
\* The operator is started when the user has created the claims, each with a
\* Secret in its own namespace or in another.  They are not created again.
FakeInit ==
  /\ claim \in [Claims -> {[NoClaim EXCEPT !.exists = TRUE, !.valid = v] : v \in BOOLEAN}]
  /\ claimCur = [c \in Claims |-> {"cache"}]
  /\ claimCache = claim
  /\ claimQ = Claims
  /\ ref = [r \in Refs |-> NoRef]
  /\ refCur = [r \in Refs |-> {"cache"}]
  /\ refCache = ref
  /\ refQ = {}
  /\ secret = [c \in Claims |-> Nil]
  /\ secretCache = [c \in Claims |-> FALSE]
  /\ ccsSecret = [c \in Claims |-> [exists |-> FALSE, deleting |-> FALSE,
                                    finalizer |-> FALSE]]
  /\ project = [id \in ProjectIDs |-> NoProject]
  /\ issued = {}
  /\ disabled = {}
  /\ stable = FALSE
  /\ cw = IdleClaimWorker
  /\ rw = IdleReferenceWorker
  /\ marked = {}
  /\ sameName \in SUBSET Claims
  /\ credentials = [c \in Claims |-> {}]
  /\ credentialsCache = [c \in Claims |-> {}]

FakeStep ==
  \/ EnsureFakeFinalizer
  \/ DeleteFakeSecret \/ FakeFinalizeReference \/ FakeFinalize
  \/ RejectFake
  \/ CreateFakeSecret
  \/ UpdateFakeProjectClaimSpecs \/ UpdateFakeProjectClaimState

\* A claim that is not marked, or not there, is reconciled as ever.
StartReal(c) ==
  /\ c \notin marked \/ ~claimCache[c].exists
  /\ StartClaim(c)
  /\ UNCHANGED fakes

FakeNext ==
  \/ FakeStep
  \/ ClaimStep /\ UNCHANGED fakes
  \/ ReferenceStepByName
  \/ CrashWithFakes
  \/ \E c \in Claims :
       \/ StartFake(c) \/ StartReal(c) \/ MarkFake(c) \/ SyncFakeSecret(c)
       \/ (DeleteClaim(c) \/ SyncClaim(c)) /\ UNCHANGED fakes
  \/ \E r \in Refs :
       (StartReference(r) \/ SyncRef(r)) /\ UNCHANGED fakes
  \/ Stabilise /\ UNCHANGED fakes

FakeSpec == FakeInit /\ [][FakeNext]_fakeVars

\* As in GcpProjectOperator: reconciles go on, queued objects are taken and the
\* informers deliver.
FakeFairness ==
  /\ WF_fakeVars(FakeStep \/ (ClaimStep /\ UNCHANGED fakes))
  /\ WF_fakeVars(ReferenceStepByName)
  /\ \A c \in Claims :
       /\ SF_fakeVars(StartFake(c) \/ StartReal(c))
       /\ WF_fakeVars(SyncClaim(c) /\ UNCHANGED fakes)
       /\ WF_fakeVars(SyncFakeSecret(c))
  /\ \A r \in Refs :
       /\ SF_fakeVars(StartReference(r) /\ UNCHANGED fakes)
       /\ WF_fakeVars(SyncRef(r) /\ UNCHANGED fakes)
  /\ WF_fakeVars(Stabilise /\ UNCHANGED fakes)

FakeFairSpec == FakeSpec /\ FakeFairness

-----------------------------------------------------------------------------
\* A claim that is Ready, for real or as a fake, has the Secret that its spec
\* names: an answer that is lost, a restart or the annotation coming between
\* two steps does not make it Ready without.  The one exception: if its
\* reference is Ready, EnsureProjectClaimReady has made or may make it Ready
\* whatever UpdateFakeProjectClaimSpecs has renamed, and the new Secret only
\* comes with the next reconcile.
FakeReadyHasSecret ==
  \A c \in Claims :
    claim[c].exists /\ ~claim[c].deleting /\ claim[c].state = "Ready" =>
      \/ SecretName(c, claim[c]) \in credentials[c]
      \/ /\ c \in marked
         /\ claim[c].projectID = FakeProjectClaim
         /\ ref[RefName(c)].state = "Ready"

\* When a claim goes away, the Secret of its name is gone, and so is a reference
\* with its finalizer if the claim was marked after it got one: what the
\* reference stands for could not be cleaned up without the claim.
FakeLeavesNothing ==
  \A c \in marked :
    ~claim[c].exists => "own" \notin credentials[c] /\ ~ref[RefName(c)].finalizer

\* A valid claim that is marked and stays becomes Ready as a fake: with the
\* spec of one and the Secret that this spec names, also if the claim was
\* Ready for real before, or half way there.
FakeBecomesReady ==
  \A c \in Claims :
    c \in marked /\ claim[c].exists ~>
      \/ /\ claim[c].state = "Ready"
         /\ claim[c].projectID = FakeProjectClaim
         /\ "own" \in credentials[c]
      \/ claim[c].deleting \/ ~claim[c].exists \/ ~claim[c].valid

\* A marked claim that is being deleted and that nobody looks at any more has
\* no Secret of its own left unless its reference is still being cleaned up,
\* and its reference is gone or going: since the request to come back is
\* ignored after FakeFinalizeReference, the claim itself may stay, and then it
\* is all that stays.
FakeStopsOnlyCleanedUp ==
  \A c \in marked :
    LET r == ref[RefName(c)]
    IN  /\ claim[c].deleting
        /\ cw.pc = "idle" /\ c \notin claimQ /\ "cache" \in claimCur[c]
        => /\ r.exists => r.deleting
           /\ SecretName(c, claim[c]) \in credentials[c] => r.exists
=============================================================================
