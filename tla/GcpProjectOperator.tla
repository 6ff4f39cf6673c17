------------------------- MODULE GcpProjectOperator -------------------------
(***************************************************************************)
(* The operator as a whole: the two controllers, the informer caches that  *)
(* feed them, the users and administrators around them, and restarts.      *)
(***************************************************************************)
EXTENDS ProjectClaimController, ProjectReferenceController

CCSProjectIDs == {CCSProject[c] : c \in CCS}

TypeOK ==
  /\ claim \in [Claims -> ProjectClaim]
  /\ claimCur \in [Claims -> SUBSET {"cache", "claimCtl", "refCtl"}]
  /\ claimCache \in [Claims -> ProjectClaim]
  /\ claimQ \subseteq Claims
  /\ ref \in [Refs -> ProjectReference]
  /\ refCur \in [Refs -> SUBSET {"cache", "refCtl"}]
  /\ refCache \in [Refs -> ProjectReference]
  /\ refQ \subseteq Refs
  /\ secret \in [Claims -> MaybeID]
  /\ secretCache \in [Claims -> BOOLEAN]
  /\ ccsSecret \in [Claims -> CCSSecret]
  /\ project \in [ProjectIDs -> Project]
  /\ issued \subseteq ProjectIDs
  /\ disabled \subseteq Claims
  /\ stable \in BOOLEAN
  /\ cw \in ClaimWorker
  /\ rw \in ReferenceWorker

Init ==
  /\ claim = [c \in Claims |-> NoClaim]
  /\ claimCur = [c \in Claims |-> {"cache"}]
  /\ claimCache = claim
  /\ claimQ = {}
  /\ ref = [r \in Refs |-> NoRef]
  /\ refCur = [r \in Refs |-> {"cache"}]
  /\ refCache = ref
  /\ refQ = {}
  /\ secret = [c \in Claims |-> Nil]
  /\ secretCache = [c \in Claims |-> FALSE]
  /\ ccsSecret = [c \in Claims |-> [exists |-> c \in CCS, deleting |-> FALSE,
                                    finalizer |-> FALSE]]
  /\ project = [id \in ProjectIDs |->
                  [NoProject EXCEPT !.life = IF id \in CCSProjectIDs THEN "ACTIVE" ELSE @]]
  /\ issued = CCSProjectIDs
  /\ disabled = {}
  /\ stable = FALSE
  /\ cw = IdleClaimWorker
  /\ rw = IdleReferenceWorker

-----------------------------------------------------------------------------
(* The informers: an event brings the cache up to date and enqueues the    *)
(* object.  Events that follow each other closely are one.                 *)

SyncClaim(c) ==
  /\ "cache" \notin claimCur[c]
  /\ claimCache' = [claimCache EXCEPT ![c] = claim[c]]
  /\ claimCur' = [claimCur EXCEPT ![c] = @ \cup {"cache"}]
  /\ claimQ' = claimQ \cup {c}
  /\ UNCHANGED <<claim, refObjs, refCache, secretCache, refQ, secrets, cloud, world, workers>>

SyncRef(r) ==
  /\ "cache" \notin refCur[r]
  /\ refCache' = [refCache EXCEPT ![r] = ref[r]]
  /\ refCur' = [refCur EXCEPT ![r] = @ \cup {"cache"}]
  /\ refQ' = refQ \cup {r}
  /\ UNCHANGED <<claimObjs, ref, claimCache, secretCache, claimQ, secrets, cloud, world, workers>>

SyncSecret(c) ==
  /\ secretCache[c] # (secret[c] # Nil)
  /\ secretCache' = [secretCache EXCEPT ![c] = secret[c] # Nil]
  /\ UNCHANGED <<claimObjs, refObjs, claimCache, refCache, queues, secrets, cloud, world, workers>>

\* The periodic resync of the informers enqueues every object in the caches.
Resync ==
  /\ "resync" \in Faults
  /\ claimQ' = claimQ \cup {c \in Claims : claimCache[c].exists}
  /\ refQ' = refQ \cup {r \in Refs : refCache[r].exists}
  /\ UNCHANGED <<claimObjs, refObjs, caches, secrets, cloud, world, workers>>

\* The operator is restarted: what its workers had in memory is lost, the
\* caches are filled from the API server and every object is enqueued.
Crash ==
  /\ Faulty("crash")
  /\ cw' = IdleClaimWorker
  /\ rw' = IdleReferenceWorker
  /\ claimCache' = claim
  /\ refCache' = ref
  /\ secretCache' = [c \in Claims |-> secret[c] # Nil]
  /\ claimCur' = [c \in Claims |-> {"cache"}]
  /\ refCur' = [r \in Refs |-> {"cache"}]
  /\ claimQ' = {c \in Claims : claim[c].exists}
  /\ refQ' = {r \in Refs : ref[r].exists}
  /\ UNCHANGED <<claim, ref, secrets, cloud, world>>

-----------------------------------------------------------------------------
(* Users and administrators.                                               *)

\* The user creates a claim.  That there is an unused project ID left bounds
\* how often claims are created again.
CreateClaim(c) ==
  /\ ~claim[c].exists
  /\ c \in CCS \/ ProjectIDs \ issued # {}
  /\ \E v \in IF "edit" \in Faults THEN BOOLEAN ELSE {TRUE} :
       claim' = [claim EXCEPT ![c] = [NoClaim EXCEPT !.exists = TRUE, !.valid = v]]
  /\ claimCur' = [claimCur EXCEPT ![c] = {}]
  /\ UNCHANGED <<refObjs, caches, queues, secrets, cloud, world, workers>>

DeleteClaim(c) ==
  /\ "claimDeleted" \in Faults
  /\ claim[c].exists
  /\ ~claim[c].deleting
  /\ claim' = [claim EXCEPT ![c] = Deleted(@, NoClaim)]
  /\ claimCur' = [claimCur EXCEPT ![c] = {}]
  /\ UNCHANGED <<refObjs, caches, queues, secrets, cloud, world, workers>>

\* The user changes the namespaces of the claim's secret references.
EditClaim(c) ==
  /\ Faulty("edit")
  /\ claim[c].exists
  /\ claim' = [claim EXCEPT ![c].valid = ~@]
  /\ claimCur' = [claimCur EXCEPT ![c] = {}]
  /\ UNCHANGED <<refObjs, caches, queues, secrets, cloud, world, workers>>

\* The region of claim c is disabled or enabled in the config map.
SetRegion(c) ==
  /\ Faulty("config")
  /\ disabled' = IF c \in disabled THEN disabled \ {c} ELSE disabled \cup {c}
  /\ UNCHANGED <<claimObjs, refObjs, caches, queues, secrets, cloud, stable, workers>>

AdminDeletesProject(id) ==
  /\ Faulty("adminDeletes")
  /\ project[id].life = "ACTIVE"
  /\ project' = [project EXCEPT ![id] = [NoProject EXCEPT !.life = "DELETE_REQUESTED"]]
  /\ UNCHANGED <<claimObjs, refObjs, caches, queues, secrets, issued, world, workers>>

AdminDeletesReference(r) ==
  /\ Faulty("refDeleted")
  /\ ref[r].exists
  /\ ~ref[r].deleting
  /\ ref' = [ref EXCEPT ![r] = Deleted(@, NoRef)]
  /\ refCur' = [refCur EXCEPT ![r] = {}]
  /\ UNCHANGED <<claimObjs, caches, queues, secrets, cloud, world, workers>>

\* The customer deletes the CCS Secret, or provides it again.
SetCCSSecret(c) ==
  /\ Faulty("ccsDeleted")
  /\ c \in CCS
  /\ LET s == ccsSecret[c]
     IN  ccsSecret' = [ccsSecret EXCEPT ![c] =
                         IF ~s.exists THEN [s EXCEPT !.exists = TRUE]
                         ELSE IF s.finalizer THEN [s EXCEPT !.deleting = TRUE]
                         ELSE [s EXCEPT !.exists = FALSE]]
  /\ UNCHANGED <<claimObjs, refObjs, caches, queues, secret, cloud, world, workers>>

Stabilise ==
  /\ "stabilises" \in Faults
  /\ stable' = TRUE
  /\ UNCHANGED <<claimObjs, refObjs, caches, queues, secrets, cloud, disabled, workers>>

-----------------------------------------------------------------------------
Environment ==
  \/ \E c \in Claims :
       CreateClaim(c) \/ DeleteClaim(c) \/ EditClaim(c) \/ SetRegion(c) \/ SetCCSSecret(c)
  \/ \E id \in ProjectIDs : AdminDeletesProject(id)
  \/ \E r \in Refs : AdminDeletesReference(r)
  \/ Stabilise

Manager ==
  \/ \E c \in Claims : StartClaim(c) \/ SyncClaim(c) \/ SyncSecret(c)
  \/ \E r \in Refs : StartReference(r) \/ SyncRef(r)
  \/ Resync
  \/ Crash

Next == ClaimStep \/ ReferenceStep \/ Manager \/ Environment

Spec == Init /\ [][Next]_vars

\* A reconcile that has begun goes on; the work queues are first in, first
\* out, so a key that keeps being enqueued is taken; the informers deliver
\* events; the periodic resync, if there is one, comes again and again.
Fairness ==
  /\ WF_vars(ClaimStep) /\ WF_vars(ReferenceStep)
  /\ \A c \in Claims :
       SF_vars(StartClaim(c)) /\ WF_vars(SyncClaim(c)) /\ WF_vars(SyncSecret(c))
  /\ \A r \in Refs : SF_vars(StartReference(r)) /\ WF_vars(SyncRef(r))
  /\ WF_vars(Resync)
  /\ WF_vars(Stabilise)

FairSpec == Spec /\ Fairness

-----------------------------------------------------------------------------
(* Safety.                                                                 *)

\* Every active project that the operator made belongs to a ProjectReference
\* that names it and holds the finalizer: EnsureFinalizerAdded comes before
\* createProject, and deleteProject before EnsureFinalizerDeleted, so that no
\* interleaving leaves a project nobody will delete.
ProjectTracked ==
  \A id \in ProjectIDs \ CCSProjectIDs :
    project[id].life = "ACTIVE" =>
      \E r \in Refs : ref[r].exists /\ ref[r].finalizer /\ ref[r].projectID = id

\* A ProjectReference that owns GCP resources (it holds the finalizer) has a
\* ProjectClaim that waits for it: without the claim NewReferenceAdapter fails
\* and the reference could never be cleaned up.
FinalizedReferenceHasClaim ==
  \A r \in Refs :
    ref[r].exists /\ ref[r].finalizer =>
      claim[ref[r].owner].exists /\ claim[ref[r].owner].finalizer

\* A claim in state Ready is what the README promises: its project is active
\* and configured, the ID and the zones are filled in, and the Secret opens
\* this project and no other.  Its reference will delete that project and no
\* other, also if creations were refused, lost or taken for missing before.
ReadyIsProvisioned ==
  \A c \in Claims :
    claim[c].exists /\ ~claim[c].deleting /\ claim[c].state = "Ready" =>
      /\ claim[c].zones
      /\ claim[c].projectID \in ProjectIDs
      /\ secret[c] = claim[c].projectID
      /\ LET p == project[claim[c].projectID]
         IN  p.life = "ACTIVE" /\ p.apis /\ p.sa /\ p.bound /\ (c \in CCS \/ p.billing)
      /\ ref[RefName(c)].exists /\ ref[RefName(c)].finalizer
      /\ ref[RefName(c)].projectID = claim[c].projectID

\* Once a claim is gone, so are its Secret and, in a project that stays with
\* the customer, the service account and the roles the operator gave.
NothingLeftBehind ==
  \A c \in Claims :
    ~claim[c].exists =>
      /\ secret[c] = Nil
      /\ c \in CCS => LET p == project[CCSProject[c]]
                      IN  ~p.sa /\ ~p.bound /\ ~p.console

\* As long as the operator has something in a customer's project, it holds the
\* customer's Secret by a finalizer: without it the client for the cleanup
\* cannot be built.
CCSSecretHeld ==
  \A c \in CCS :
    LET p == project[CCSProject[c]]
    IN  p.sa \/ p.bound \/ p.console => ccsSecret[c].exists /\ ccsSecret[c].finalizer

\* The reference that a claim is linked to was made for this claim.
LinkedReferenceIsOwn ==
  \A c \in Claims :
    claim[c].link /\ ref[RefName(c)].exists => ref[RefName(c)].owner = c

\* No wake-up is lost: when the queues are empty, the workers idle and the
\* caches up to date, nothing is left to be done for any claim.
Quiescent ==
  /\ cw.pc = "idle" /\ rw.pc = "idle"
  /\ claimQ = {} /\ refQ = {}
  /\ \A c \in Claims : "cache" \in claimCur[c]
  /\ \A r \in Refs : "cache" \in refCur[r]

NoLostWakeup ==
  Quiescent =>
    \A c \in Claims :
      claim[c].exists =>
        /\ ~claim[c].deleting
        /\ claim[c].state = "Ready" \/ ~claim[c].valid \/ ~IsRegionSupported(c)

\* A claim that is Ready leaves that state only for Error: a worker that
\* read it before cannot set it back to an earlier state.
ReadyIsKept ==
  [][\A c \in Claims :
       claim[c].state = "Ready" /\ claim'[c].exists =>
         claim'[c].state \in {"Ready", "Error"}]_vars

-----------------------------------------------------------------------------
(* Liveness, under FairSpec.                                               *)

\* A claim that stays becomes Ready.
ClaimBecomesReady ==
  \A c \in Claims :
    claim[c].exists ~> (claim[c].state = "Ready" \/ claim[c].deleting \/ ~claim[c].exists)

\* A claim that is being deleted goes away.
DeletionCompletes ==
  \A c \in Claims : claim[c].deleting ~> ~claim[c].exists

=============================================================================
