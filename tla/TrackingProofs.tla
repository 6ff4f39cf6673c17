--------------------------- MODULE TrackingProofs ---------------------------
(***************************************************************************)
(* Spec => []TypeOK, by the inductive invariant TypeInv: besides the types *)
(* it says that a busy worker has a key and that references have owners,   *)
(* since the steps look objects up by these.                               *)
(*                                                                         *)
(* CreationIsReliable => (Spec => []ProjectTracked): no interleaving of    *)
(* the two controllers, their caches, restarts, API errors and users       *)
(* leaves an active project that no reference will delete.                 *)
(*                                                                         *)
(* ProjectTracked alone is not inductive.  It rests on what a worker may   *)
(* conclude from a copy that is behind: see TrackingInvariant.             *)
(***************************************************************************)
EXTENDS TrackingInvariant, TLAPS

-----------------------------------------------------------------------------
(* Types and keys.                                                         *)

\* A write leaves the object and its holders alone, or stores the new object
\* for a holder of the version, who is then the only one or, if the answer is
\* lost, not even that.
LEMMA RepliesFacts ==
  \A h, old, cur, new : \A touched \in BOOLEAN :
  \A w \in Replies(h, old, cur, new, touched) :
    /\ w.ok \in BOOLEAN
    /\ \/ w.obj = old /\ w.cur = cur
       \/ /\ Current(old, cur, h) /\ w.obj = new
          /\ w.cur = {h} \/ w.cur = {}
  <1> SUFFICES ASSUME NEW h, NEW old, NEW cur, NEW new, NEW touched \in BOOLEAN,
                      NEW w \in Replies(h, old, cur, new, touched)
               PROVE  /\ w.ok \in BOOLEAN
                      /\ \/ w.obj = old /\ w.cur = cur
                         \/ /\ Current(old, cur, h) /\ w.obj = new
                            /\ w.cur = {h} \/ w.cur = {}
    BY Zenon
  <1> DEFINE changed == touched \/ new # old
             stored == [ok |-> TRUE, obj |-> new, cur |-> IF changed THEN {h} ELSE cur]
             refused == [ok |-> FALSE, obj |-> old, cur |-> cur]
             lost == [ok |-> FALSE, obj |-> new, cur |-> IF changed THEN {} ELSE cur]
  <1>1. \/ w = stored /\ Current(old, cur, h)
        \/ w = refused
        \/ w = lost /\ Current(old, cur, h)
    BY Zenon DEF Replies
  <1>2. stored.ok = TRUE /\ stored.obj = new /\ stored.cur = IF changed THEN {h} ELSE cur
    OBVIOUS
  <1>3. refused.ok = FALSE /\ refused.obj = old /\ refused.cur = cur
    OBVIOUS
  <1>4. lost.ok = FALSE /\ lost.obj = new /\ lost.cur = IF changed THEN {} ELSE cur
    OBVIOUS
  <1>5. ~changed => new = old
    OBVIOUS
  <1> HIDE DEF changed, stored, refused, lost
  <1> QED BY <1>1, <1>2, <1>3, <1>4, <1>5, Zenon

\* What client.Update and client.Status().Update store is an object of the same kind.
LEMMA UpdateTypes ==
  /\ \A o, old \in ProjectClaim :
       ClaimUpdate(o, old) \in ProjectClaim /\ ClaimStatusUpdate(o, old) \in ProjectClaim
  /\ \A o, old \in ProjectReference :
       RefUpdate(o, old) \in ProjectReference /\ RefStatusUpdate(o, old) \in ProjectReference
  <1>1. NoClaim \in ProjectClaim /\ NoRef \in ProjectReference
    BY DEF NoClaim, NoRef, ProjectClaim, ProjectReference, ClaimStatus, ReferenceState,
           Condition, MaybeID
  <1>2. ASSUME NEW o \in ProjectClaim, NEW old \in ProjectClaim
        PROVE  ClaimUpdate(o, old) \in ProjectClaim
    BY <1>1 DEF ClaimUpdate, Collected, ProjectClaim
  <1>3. ASSUME NEW o \in ProjectClaim, NEW old \in ProjectClaim
        PROVE  ClaimStatusUpdate(o, old) \in ProjectClaim
    BY DEF ClaimStatusUpdate, ProjectClaim
  <1>4. ASSUME NEW o \in ProjectReference, NEW old \in ProjectReference
        PROVE  RefUpdate(o, old) \in ProjectReference
    BY <1>1 DEF RefUpdate, Collected, ProjectReference
  <1>5. ASSUME NEW o \in ProjectReference, NEW old \in ProjectReference
        PROVE  RefStatusUpdate(o, old) \in ProjectReference
    BY DEF RefStatusUpdate, ProjectReference
  <1> QED BY <1>2, <1>3, <1>4, <1>5

\* The cluster starts well typed.
LEMMA InitTypeInv == Init => TypeInv
  <1> SUFFICES ASSUME Init PROVE TypeInv OBVIOUS
  <1>1. CCSProjectIDs \subseteq ProjectIDs
    BY CCSAssumption DEF CCSProjectIDs
  <1>2. NoClaim \in ProjectClaim /\ NoRef \in ProjectReference
    BY DEF NoClaim, NoRef, ProjectClaim, ProjectReference, ClaimStatus, ReferenceState,
           Condition, MaybeID
  <1>3. IdleClaimWorker \in ClaimWorker /\ IdleReferenceWorker \in ReferenceWorker
    BY <1>2 DEF IdleClaimWorker, IdleReferenceWorker, ClaimWorker, ReferenceWorker,
                ClaimSteps, ReferenceSteps, Outcome
  <1>4. \A id \in ProjectIDs : project[id] \in Project
    BY DEF Init, Project, NoProject
  <1>5. secretCache \in [Claims -> BOOLEAN] /\ ccsSecret \in [Claims -> CCSSecret]
    BY DEF Init, CCSSecret
  <1>6. project \in [ProjectIDs -> Project]
    BY <1>4 DEF Init
  <1>7. TypeOK
    BY <1>1, <1>2, <1>3, <1>5, <1>6 DEF Init, TypeOK, MaybeID
  <1>8. KeysOK
    BY DEF Init, KeysOK, IdleClaimWorker, IdleReferenceWorker, NoRef
  <1> QED BY <1>7, <1>8 DEF TypeInv

-----------------------------------------------------------------------------
(* The writes.                                                             *)

ClaimHolders == SUBSET {"cache", "claimCtl", "refCtl"}
RefHolders == SUBSET {"cache", "refCtl"}

\* A reference that exists has an owner.
Owned(o) == o.exists => o.owner \in Claims

\* What client.Update and client.Status().Update can store for a claim.
LEMMA ClaimWrite ==
  ASSUME TypeOK, NEW h \in {"claimCtl", "refCtl"}, NEW c \in Claims,
         NEW new \in ProjectClaim, NEW t \in BOOLEAN,
         NEW w \in Replies(h, claim[c], claimCur[c], new, t)
  PROVE  w.obj \in ProjectClaim /\ w.cur \in ClaimHolders
  <1>1. \/ w.obj = claim[c] /\ w.cur = claimCur[c]
        \/ w.obj = new /\ (w.cur = {h} \/ w.cur = {})
    BY RepliesFacts
  <1>2. claim[c] \in ProjectClaim /\ claimCur[c] \in ClaimHolders
    BY DEF TypeOK, ClaimHolders
  <1> QED BY <1>1, <1>2 DEF ClaimHolders

\* The same for a reference.
LEMMA RefWrite ==
  ASSUME TypeInv, NEW r \in Refs, NEW new \in ProjectReference, Owned(new),
         NEW t \in BOOLEAN, NEW w \in Replies("refCtl", ref[r], refCur[r], new, t)
  PROVE  w.obj \in ProjectReference /\ Owned(w.obj) /\ w.cur \in RefHolders
  <1>1. \/ w.obj = ref[r] /\ w.cur = refCur[r]
        \/ w.obj = new /\ (w.cur = {"refCtl"} \/ w.cur = {})
    BY RepliesFacts
  <1>2. ref[r] \in ProjectReference /\ refCur[r] \in RefHolders /\ Owned(ref[r])
    BY DEF TypeInv, TypeOK, KeysOK, RefHolders, Owned
  <1> QED BY <1>1, <1>2 DEF RefHolders

\* Both kinds of writes of a claim, by either controller, keep the types.
LEMMA UpdateClaimType ==
  ASSUME TypeOK, NEW h \in {"claimCtl", "refCtl"}, NEW c \in Claims,
         NEW o \in ProjectClaim, NEW touched \in BOOLEAN, NEW ok,
         UpdateClaim(h, c, o, ok) \/ UpdateClaimStatus(h, c, o, touched, ok)
  PROVE  claim' \in [Claims -> ProjectClaim] /\ claimCur' \in [Claims -> ClaimHolders]
  <1>1. claim[c] \in ProjectClaim /\ claim \in [Claims -> ProjectClaim]
        /\ claimCur \in [Claims -> ClaimHolders]
    BY DEF TypeOK, ClaimHolders
  <1>2. ClaimUpdate(o, claim[c]) \in ProjectClaim /\ ClaimStatusUpdate(o, claim[c]) \in ProjectClaim
    BY <1>1, UpdateTypes
  <1>3. CASE UpdateClaim(h, c, o, ok)
    <2>1. PICK w \in Replies(h, claim[c], claimCur[c], ClaimUpdate(o, claim[c]), FALSE) :
             /\ claim' = [claim EXCEPT ![c] = w.obj]
             /\ claimCur' = [claimCur EXCEPT ![c] = w.cur]
      BY <1>3 DEF UpdateClaim
    <2> QED BY <1>1, <1>2, <2>1, ClaimWrite
  <1>4. CASE UpdateClaimStatus(h, c, o, touched, ok) /\ o.inited
    <2>1. PICK w \in Replies(h, claim[c], claimCur[c], ClaimStatusUpdate(o, claim[c]), touched) :
             /\ claim' = [claim EXCEPT ![c] = w.obj]
             /\ claimCur' = [claimCur EXCEPT ![c] = w.cur]
      BY <1>4 DEF UpdateClaimStatus
    <2> QED BY <1>1, <1>2, <2>1, ClaimWrite
  <1>5. CASE UpdateClaimStatus(h, c, o, touched, ok) /\ ~o.inited
    BY <1>1, <1>5 DEF UpdateClaimStatus, claimObjs
  <1> QED BY <1>3, <1>4, <1>5

\* Both kinds of writes of a reference keep its type and its owner.
LEMMA UpdateRefType ==
  ASSUME TypeInv, NEW r \in Refs, NEW o \in ProjectReference, o.owner \in Claims,
         NEW touched \in BOOLEAN, NEW ok,
         UpdateRef(r, o, ok) \/ UpdateRefStatus(r, o, touched, ok)
  PROVE  /\ ref' \in [Refs -> ProjectReference] /\ refCur' \in [Refs -> RefHolders]
         /\ \A s \in Refs : Owned(ref'[s])
  <1>1. /\ ref[r] \in ProjectReference /\ ref \in [Refs -> ProjectReference]
        /\ refCur \in [Refs -> RefHolders] /\ \A s \in Refs : Owned(ref[s])
    BY DEF TypeInv, TypeOK, KeysOK, RefHolders, Owned
  <1>2. RefUpdate(o, ref[r]) \in ProjectReference /\ RefStatusUpdate(o, ref[r]) \in ProjectReference
    BY <1>1, UpdateTypes
  <1>3. Owned(RefUpdate(o, ref[r])) /\ Owned(RefStatusUpdate(o, ref[r]))
    BY <1>1 DEF Owned, RefUpdate, RefStatusUpdate, Collected, NoRef, ProjectReference
  <1>4. CASE UpdateRef(r, o, ok)
    <2>1. PICK w \in Replies("refCtl", ref[r], refCur[r], RefUpdate(o, ref[r]), FALSE) :
             /\ ref' = [ref EXCEPT ![r] = w.obj]
             /\ refCur' = [refCur EXCEPT ![r] = w.cur]
      BY <1>4 DEF UpdateRef
    <2> QED BY <1>1, <1>2, <1>3, <2>1, RefWrite
  <1>5. CASE UpdateRefStatus(r, o, touched, ok)
    <2>1. PICK w \in Replies("refCtl", ref[r], refCur[r], RefStatusUpdate(o, ref[r]), touched) :
             /\ ref' = [ref EXCEPT ![r] = w.obj]
             /\ refCur' = [refCur EXCEPT ![r] = w.cur]
      BY <1>5 DEF UpdateRefStatus
    <2> QED BY <1>1, <1>2, <1>3, <2>1, RefWrite
  <1> QED BY <1>4, <1>5

-----------------------------------------------------------------------------
(* The worker of the ProjectClaim controller.                              *)

\* What a step of this worker leaves alone: all but the claims, the worker
\* itself and the references.
LEMMA ClaimFrame ==
  ASSUME TypeInv,
         claim' \in [Claims -> ProjectClaim], claimCur' \in [Claims -> ClaimHolders],
         ref' \in [Refs -> ProjectReference], refCur' \in [Refs -> RefHolders],
         \A r \in Refs : Owned(ref'[r]), ccsSecret' \in [Claims -> CCSSecret],
         claimQ' \subseteq Claims,
         cw' \in ClaimWorker, cw'.pc # "idle" => cw'.key \in Claims,
         UNCHANGED <<caches, refQ, secret, cloud, world, rw>>
  PROVE  TypeInv'
  <1>1. TypeOK'
    BY DEF TypeInv, TypeOK, ClaimHolders, RefHolders, caches, cloud, world
  <1>2. KeysOK'
    BY DEF TypeInv, KeysOK, Owned, caches
  <1> QED BY <1>1, <1>2 DEF TypeInv

\* What TypeInv says of the parts this worker reads.
LEMMA ClaimParts ==
  ASSUME TypeInv, cw.pc # "idle"
  PROVE  /\ cw \in ClaimWorker /\ cw.key \in Claims /\ cw.obj \in ProjectClaim
         /\ claim \in [Claims -> ProjectClaim] /\ claimCur \in [Claims -> ClaimHolders]
         /\ ref \in [Refs -> ProjectReference] /\ refCur \in [Refs -> RefHolders]
         /\ \A r \in Refs : Owned(ref[r])
         /\ ccsSecret \in [Claims -> CCSSecret] /\ claimQ \subseteq Claims
         /\ RefName(cw.key) \in Refs
  BY DEF TypeInv, TypeOK, KeysOK, ClaimHolders, RefHolders, Owned, ClaimWorker, Refs

\* Going on to another operation keeps the type of the claim worker.
LEMMA ClaimGotoType ==
  ASSUME TypeInv, cw.pc # "idle", NEW pc \in ClaimSteps, NEW o \in ProjectClaim,
         ClaimGoto(pc, o)
  PROVE  cw' \in ClaimWorker /\ cw'.key \in Claims
  BY ClaimParts DEF ClaimGoto, ClaimWorker

\* So does ending the chain.
LEMMA ClaimFinishType ==
  ASSUME TypeInv, cw.pc # "idle", NEW out \in Outcome, NEW o \in ProjectClaim,
         ClaimFinish(out, o)
  PROVE  cw' \in ClaimWorker /\ cw'.key \in Claims
  BY ClaimParts DEF ClaimFinish, ClaimWorker, ClaimSteps

\* Operations of the claim controller that write the claim and end the chain.
LEMMA SaveClaimType ==
  ASSUME TypeInv, cw.pc # "idle", NEW o \in ProjectClaim, NEW touched \in BOOLEAN,
         SaveClaim(o) \/ SaveClaimStatus(o, touched)
  PROVE  /\ claim' \in [Claims -> ProjectClaim] /\ claimCur' \in [Claims -> ClaimHolders]
         /\ cw' \in ClaimWorker /\ cw'.key \in Claims
  <1>1. TypeOK /\ cw.key \in Claims /\ claim[cw.key] \in ProjectClaim
    BY ClaimParts DEF TypeInv
  <1>2. ClaimUpdate(o, claim[cw.key]) \in ProjectClaim
    BY <1>1, UpdateTypes
  <1>3. \A ok \in BOOLEAN : /\ ErrorOrStop(ok) \in Outcome
                            /\ Answer(ok, ClaimUpdate(o, claim[cw.key]), o) \in ProjectClaim
    BY <1>2 DEF ErrorOrStop, Outcome, Answer
  <1>4. PICK ok \in BOOLEAN :
          /\ \/ UpdateClaim("claimCtl", cw.key, o, ok)
             \/ UpdateClaimStatus("claimCtl", cw.key, o, touched, ok)
          /\ \/ ClaimFinish(ErrorOrStop(ok), Answer(ok, ClaimUpdate(o, claim[cw.key]), o))
             \/ ClaimFinish(ErrorOrStop(ok), o)
    BY DEF SaveClaim, SaveClaimStatus
  <1>5. claim' \in [Claims -> ProjectClaim] /\ claimCur' \in [Claims -> ClaimHolders]
    BY <1>1, <1>4, UpdateClaimType
  <1> QED BY <1>3, <1>4, <1>5, ClaimFinishType

\* The operations that write the claim and end the chain.
LEMMA ClaimWritersType ==
  ASSUME TypeInv,
         \/ EnsureProjectClaimValidated \/ EnsureProjectClaimInitialized
         \/ EnsureProjectClaimStatePending \/ EnsureProjectReferenceLink
         \/ EnsureFinalizer \/ EnsureProjectClaimStatePendingProject
  PROVE  TypeInv'
  <1>1. cw.pc # "idle"
    BY DEF EnsureProjectClaimValidated, EnsureProjectClaimInitialized,
           EnsureProjectClaimStatePending, EnsureProjectReferenceLink,
           EnsureFinalizer, EnsureProjectClaimStatePendingProject
  <1>2. \A st \in ClaimStatus :
          /\ [cw.obj EXCEPT !.state = st] \in ProjectClaim
          /\ [cw.obj EXCEPT !.inited = TRUE] \in ProjectClaim
          /\ [cw.obj EXCEPT !.link = TRUE] \in ProjectClaim
          /\ [cw.obj EXCEPT !.finalizer = TRUE] \in ProjectClaim
    BY <1>1, ClaimParts DEF ProjectClaim
  <1>3. PICK o \in ProjectClaim : SaveClaim(o) \/ SaveClaimStatus(o, FALSE)
    BY <1>2 DEF EnsureProjectClaimValidated, EnsureProjectClaimInitialized,
                EnsureProjectClaimStatePending, EnsureProjectReferenceLink,
                EnsureFinalizer, EnsureProjectClaimStatePendingProject, ClaimStatus
  <1>4. UNCHANGED <<refObjs, caches, queues, secrets, cloud, world, rw>>
    BY DEF EnsureProjectClaimValidated, EnsureProjectClaimInitialized,
           EnsureProjectClaimStatePending, EnsureProjectReferenceLink,
           EnsureFinalizer, EnsureProjectClaimStatePendingProject
  <1>5. /\ claim' \in [Claims -> ProjectClaim] /\ claimCur' \in [Claims -> ClaimHolders]
        /\ cw' \in ClaimWorker /\ cw'.key \in Claims
    BY <1>1, <1>3, SaveClaimType
  <1> QED BY <1>1, <1>4, <1>5, ClaimParts, ClaimFrame DEF refObjs, queues, secrets

\* EnsureRegionSupported keeps the types.
LEMMA RegionSupportedType ==
  ASSUME TypeInv, EnsureRegionSupported
  PROVE  TypeInv'
  <1> DEFINE recovered == [cw.obj EXCEPT !.state = IF @ = "Error" THEN "Pending" ELSE @]
  <1>1. cw.pc # "idle" /\ UNCHANGED <<refObjs, caches, queues, secrets, cloud, world, rw>>
    BY DEF EnsureRegionSupported
  <1>2. /\ recovered \in ProjectClaim
        /\ [cw.obj EXCEPT !.state = "Error", !.invalid = "True"] \in ProjectClaim
        /\ [recovered EXCEPT !.invalid = "Resolved"] \in ProjectClaim
    BY <1>1, ClaimParts DEF ProjectClaim, ClaimStatus, Condition
  <1>3. /\ claim' \in [Claims -> ProjectClaim] /\ claimCur' \in [Claims -> ClaimHolders]
        /\ cw' \in ClaimWorker /\ cw'.key \in Claims
    <2>1. CASE \E touched \in BOOLEAN :
                 SaveClaimStatus([cw.obj EXCEPT !.state = "Error", !.invalid = "True"], touched)
      BY <1>1, <1>2, <2>1, SaveClaimType
    <2>2. CASE SaveClaimStatus([recovered EXCEPT !.invalid = "Resolved"], FALSE)
      BY <1>1, <1>2, <2>2, SaveClaimType
    <2>3. CASE /\ ClaimGoto(IF NeedsPending(recovered) THEN "StatePending"
                            ELSE "ReferenceExists", recovered)
               /\ UNCHANGED claimObjs
      <3>1. cw' \in ClaimWorker /\ cw'.key \in Claims
        BY <1>1, <1>2, <2>3, ClaimGotoType DEF ClaimSteps
      <3> QED BY <1>1, <2>3, <3>1, ClaimParts DEF claimObjs
    <2> QED BY <2>1, <2>2, <2>3 DEF EnsureRegionSupported
  <1> QED BY <1>1, <1>3, ClaimParts, ClaimFrame DEF refObjs, queues, secrets

\* newMatchingProjectReference and client.Delete leave proper references.
LEMMA NewReferenceType ==
  ASSUME NEW c \in Claims
  PROVE  /\ NewMatchingProjectReference(c) \in ProjectReference
         /\ Owned(NewMatchingProjectReference(c))
  BY CCSAssumption DEF NewMatchingProjectReference, NoRef, ProjectReference, Owned,
     MaybeID, Condition, ReferenceState

\* client.Delete leaves an object of the same kind, or none.
LEMMA DeletedTypes ==
  /\ \A o \in ProjectReference :
       /\ Deleted(o, NoRef) \in ProjectReference
       /\ Owned(o) => Owned(Deleted(o, NoRef))
  /\ \A o \in ProjectClaim : Deleted(o, NoClaim) \in ProjectClaim
  <1>1. NoClaim \in ProjectClaim /\ NoRef \in ProjectReference /\ ~NoRef.exists
    BY DEF NoClaim, NoRef, ProjectClaim, ProjectReference, ClaimStatus, ReferenceState,
           Condition, MaybeID
  <1>2. ASSUME NEW o \in ProjectReference
        PROVE  Deleted(o, NoRef) \in ProjectReference
    BY <1>1 DEF Deleted, Collected, ProjectReference
  <1>3. ASSUME NEW o \in ProjectReference, Owned(o)
        PROVE  Owned(Deleted(o, NoRef))
    BY <1>1, <1>3 DEF Deleted, Collected, ProjectReference, Owned
  <1>4. ASSUME NEW o \in ProjectClaim
        PROVE  Deleted(o, NoClaim) \in ProjectClaim
    BY <1>1 DEF Deleted, Collected, ProjectClaim
  <1> QED BY <1>2, <1>3, <1>4

\* EnsureProjectReferenceExists keeps the types: the new reference has an owner.
LEMMA ReferenceExistsType ==
  ASSUME TypeInv, EnsureProjectReferenceExists
  PROVE  TypeInv'
  <1> DEFINE r == RefName(cw.key)
  <1>1. cw.pc # "idle" /\ UNCHANGED <<claimObjs, caches, queues, secrets, cloud, world, rw>>
    BY DEF EnsureProjectReferenceExists
  <1>2. AfterReferenceExists(cw.key, cw.obj) \in ClaimSteps
    BY DEF AfterReferenceExists, AfterSecretFinalizer, ClaimSteps
  <1>3. cw' \in ClaimWorker /\ cw'.key \in Claims
    <2>1. \/ ClaimGoto(AfterReferenceExists(cw.key, cw.obj), cw.obj)
          \/ ClaimFinish("error", cw.obj)
      BY DEF EnsureProjectReferenceExists
    <2> QED BY <1>1, <1>2, <2>1, ClaimParts, ClaimGotoType, ClaimFinishType DEF Outcome
  <1>4. \/ UNCHANGED refObjs
        \/ /\ ref' = [ref EXCEPT ![r] = NewMatchingProjectReference(cw.key)]
           /\ refCur' = [refCur EXCEPT ![r] = {}]
    BY DEF EnsureProjectReferenceExists
  <1>5. /\ ref' \in [Refs -> ProjectReference] /\ refCur' \in [Refs -> RefHolders]
        /\ \A s \in Refs : Owned(ref'[s])
    BY <1>1, <1>4, ClaimParts, NewReferenceType DEF refObjs, RefHolders
  <1> QED BY <1>1, <1>3, <1>5, ClaimParts, ClaimFrame DEF claimObjs, queues, secrets

\* FinalizeProjectClaim keeps the types.
LEMMA FinalizeType ==
  ASSUME TypeInv, FinalizeReference \/ FinalizeWithoutReference
  PROVE  TypeInv'
  <1> DEFINE r == RefName(cw.key)
  <1>1. cw.pc # "idle" /\ UNCHANGED <<claimObjs, caches, queues, secrets, cloud, world, rw>>
    BY DEF FinalizeReference, FinalizeWithoutReference
  <1>2. cw' \in ClaimWorker /\ cw'.key \in Claims
    <2>1. \/ ClaimGoto("CCSSecretFinalizerDeleted", cw.obj)
          \/ ClaimGoto("ClaimFinalizerDeleted", cw.obj)
          \/ ClaimFinish("error", cw.obj)
          \/ ClaimFinish("after", cw.obj)
      BY DEF FinalizeReference, FinalizeWithoutReference
    <2> QED BY <1>1, <2>1, ClaimParts, ClaimGotoType, ClaimFinishType DEF Outcome, ClaimSteps
  <1>3. \/ UNCHANGED refObjs
        \/ /\ ref' = [ref EXCEPT ![r] = Deleted(@, NoRef)]
           /\ refCur' = [refCur EXCEPT ![r] = IF ref[r].deleting THEN @ ELSE {}]
    BY DEF FinalizeReference, FinalizeWithoutReference
  <1>4. /\ ref' \in [Refs -> ProjectReference] /\ refCur' \in [Refs -> RefHolders]
        /\ \A s \in Refs : Owned(ref'[s])
    BY <1>1, <1>3, ClaimParts, DeletedTypes DEF refObjs, RefHolders
  <1> QED BY <1>1, <1>2, <1>4, ClaimParts, ClaimFrame DEF claimObjs, queues, secrets

\* Adding and removing the finalizer of the customer's Secret keeps the types.
LEMMA CCSSecretFinalizerType ==
  ASSUME TypeInv, EnsureCCSSecretFinalizer \/ EnsureCCSSecretFinalizerDeleted
  PROVE  TypeInv'
  <1>1. cw.pc # "idle" /\ UNCHANGED <<claimObjs, refObjs, caches, queues, secret, cloud, world, rw>>
    BY DEF EnsureCCSSecretFinalizer, EnsureCCSSecretFinalizerDeleted
  <1>2. cw' \in ClaimWorker /\ cw'.key \in Claims
    <2>1. AfterSecretFinalizer(cw.obj) \in ClaimSteps
      BY DEF AfterSecretFinalizer, ClaimSteps
    <2>2. \/ ClaimGoto(AfterSecretFinalizer(cw.obj), cw.obj)
          \/ ClaimGoto("ClaimFinalizerDeleted", cw.obj)
          \/ ClaimFinish("error", cw.obj)
      BY DEF EnsureCCSSecretFinalizer, EnsureCCSSecretFinalizerDeleted
    <2> QED BY <1>1, <2>1, <2>2, ClaimParts, ClaimGotoType, ClaimFinishType DEF Outcome, ClaimSteps
  <1>3. ccsSecret' \in [Claims -> CCSSecret]
    <2> DEFINE s == ccsSecret[cw.key]
    <2>1. s \in CCSSecret
      BY <1>1, ClaimParts
    <2>2. /\ [s EXCEPT !.finalizer = TRUE] \in CCSSecret
          /\ [s EXCEPT !.finalizer = FALSE] \in CCSSecret
          /\ [s EXCEPT !.exists = FALSE, !.deleting = FALSE, !.finalizer = FALSE] \in CCSSecret
      BY <2>1 DEF CCSSecret
    <2>3. \/ ccsSecret' = ccsSecret
          \/ ccsSecret' = [ccsSecret EXCEPT ![cw.key] = [s EXCEPT !.finalizer = TRUE]]
          \/ ccsSecret' = [ccsSecret EXCEPT ![cw.key] = [s EXCEPT !.finalizer = FALSE]]
          \/ ccsSecret' = [ccsSecret EXCEPT ![cw.key] =
                [s EXCEPT !.exists = FALSE, !.deleting = FALSE, !.finalizer = FALSE]]
      BY DEF EnsureCCSSecretFinalizer, EnsureCCSSecretFinalizerDeleted
    <2> HIDE DEF s
    <2> QED BY <1>1, <2>2, <2>3, ClaimParts
  <1> QED BY <1>1, <1>2, <1>3, ClaimParts, ClaimFrame DEF claimObjs, refObjs, queues

\* EnsureProjectClaimFinalizerDeleted keeps the types.
LEMMA ClaimFinalizerDeletedType ==
  ASSUME TypeInv, EnsureProjectClaimFinalizerDeleted
  PROVE  TypeInv'
  <1> DEFINE edited == [cw.obj EXCEPT !.finalizer = FALSE]
  <1>1. cw.pc # "idle" /\ UNCHANGED <<refObjs, caches, queues, secrets, cloud, world, rw>>
    BY DEF EnsureProjectClaimFinalizerDeleted
  <1>2. edited \in ProjectClaim /\ TypeOK
    BY <1>1, ClaimParts DEF ProjectClaim, TypeInv
  <1>3. CASE cw.obj.finalizer
    <2>1. PICK ok \in BOOLEAN : /\ UpdateClaim("claimCtl", cw.key, edited, ok)
                                /\ ClaimFinish(ErrorOrStop(ok), edited)
      BY <1>3 DEF EnsureProjectClaimFinalizerDeleted
    <2>2. ErrorOrStop(ok) \in Outcome
      BY DEF ErrorOrStop, Outcome
    <2>3. claim' \in [Claims -> ProjectClaim] /\ claimCur' \in [Claims -> ClaimHolders]
      BY <1>1, <1>2, <2>1, ClaimParts, UpdateClaimType
    <2>4. cw' \in ClaimWorker /\ cw'.key \in Claims
      BY <1>1, <1>2, <2>1, <2>2, ClaimFinishType
    <2> QED BY <1>1, <2>3, <2>4, ClaimParts, ClaimFrame DEF refObjs, queues, secrets
  <1>4. CASE ~cw.obj.finalizer
    <2>1. ClaimFinish("stop", cw.obj) /\ UNCHANGED claimObjs
      BY <1>4 DEF EnsureProjectClaimFinalizerDeleted
    <2>2. cw' \in ClaimWorker /\ cw'.key \in Claims
      BY <1>1, <2>1, ClaimParts, ClaimFinishType DEF Outcome
    <2> QED BY <1>1, <2>1, <2>2, ClaimParts, ClaimFrame DEF refObjs, queues, secrets, claimObjs
  <1> QED BY <1>3, <1>4

\* The end of a reconcile of a claim keeps the types.
LEMMA FinishClaimType ==
  ASSUME TypeInv, FinishClaim
  PROVE  TypeInv'
  <1> DEFINE c == cw.key
             new == ClaimStatusUpdate(ErrorCondition(cw.obj, cw.out), claim[c])
  <1>1. /\ cw.pc # "idle" /\ cw' = IdleClaimWorker
        /\ UNCHANGED <<refObjs, caches, refQ, secrets, cloud, world, rw>>
        /\ claimQ' = IF Requeued(cw.out) THEN claimQ \cup {c} ELSE claimQ
    BY DEF FinishClaim
  <1>2. cw' \in ClaimWorker /\ cw'.pc = "idle"
    <2>1. NoClaim \in ProjectClaim
      BY DEF NoClaim, ProjectClaim, ClaimStatus, Condition, MaybeID
    <2> QED BY <1>1, <2>1 DEF IdleClaimWorker, ClaimWorker, ClaimSteps, Outcome
  <1>3. new \in ProjectClaim
    <2>1. ErrorCondition(cw.obj, cw.out) \in ProjectClaim
      BY <1>1, ClaimParts DEF ErrorCondition, ProjectClaim, Condition
    <2> QED BY <1>1, <2>1, ClaimParts, UpdateTypes
  <1>4. claim' \in [Claims -> ProjectClaim] /\ claimCur' \in [Claims -> ClaimHolders]
    <2>1. CASE ErrorConditionDue(cw.obj, cw.out)
      <3>1. PICK touched \in BOOLEAN : \E w \in Replies("claimCtl", claim[c], claimCur[c], new, touched) :
                /\ claim' = [claim EXCEPT ![c] = w.obj]
                /\ claimCur' = [claimCur EXCEPT ![c] = w.cur \ {"claimCtl"}]
        BY <2>1 DEF FinishClaim
      <3>2. PICK w \in Replies("claimCtl", claim[c], claimCur[c], new, touched) :
                /\ claim' = [claim EXCEPT ![c] = w.obj]
                /\ claimCur' = [claimCur EXCEPT ![c] = w.cur \ {"claimCtl"}]
        BY <3>1
      <3>3. w.obj \in ProjectClaim /\ w.cur \in ClaimHolders
        BY <1>1, <1>3, ClaimParts, ClaimWrite DEF TypeInv
      <3> QED BY <1>1, <3>2, <3>3, ClaimParts DEF ClaimHolders
    <2>2. CASE ~ErrorConditionDue(cw.obj, cw.out)
      BY <1>1, <2>2, ClaimParts DEF FinishClaim, ClaimHolders
    <2> QED BY <2>1, <2>2
  <1> QED BY <1>1, <1>2, <1>4, ClaimParts, ClaimFrame DEF refObjs, secrets

\* The beginning of a reconcile of a claim keeps the types.
LEMMA StartClaimType ==
  ASSUME TypeInv, NEW c \in Claims, StartClaim(c)
  PROVE  TypeInv'
  <1> DEFINE o == claimCache[c]
  <1>1. /\ claim \in [Claims -> ProjectClaim] /\ claimCur \in [Claims -> ClaimHolders]
        /\ ref \in [Refs -> ProjectReference] /\ refCur \in [Refs -> RefHolders]
        /\ \A r \in Refs : Owned(ref[r])
        /\ ccsSecret \in [Claims -> CCSSecret] /\ claimQ \subseteq Claims
        /\ o \in ProjectClaim /\ cw \in ClaimWorker
    BY DEF TypeInv, TypeOK, KeysOK, ClaimHolders, RefHolders, Owned
  <1>2. /\ UNCHANGED <<claim, refObjs, caches, refQ, secrets, cloud, world, rw>>
        /\ claimQ' = claimQ \ {c} /\ cw.pc = "idle"
    BY DEF StartClaim
  <1>3. CASE o.exists
    <2>1. /\ cw' = [pc |-> FirstClaimOperation(o), key |-> c, obj |-> o, out |-> "stop"]
          /\ claimCur' = [claimCur EXCEPT ![c] =
                            IF "cache" \in @ THEN @ \cup {"claimCtl"} ELSE @]
      BY <1>3 DEF StartClaim
    <2>2. cw' \in ClaimWorker /\ cw'.key \in Claims
      BY <1>1, <2>1 DEF ClaimWorker, FirstClaimOperation, ClaimSteps, Outcome
    <2>3. claimCur' \in [Claims -> ClaimHolders]
      BY <1>1, <2>1 DEF ClaimHolders
    <2> QED BY <1>1, <1>2, <2>2, <2>3, ClaimFrame DEF refObjs, secrets
  <1>4. CASE ~o.exists
    <2>1. UNCHANGED <<cw, claimCur>>
      BY <1>4 DEF StartClaim
    <2> QED BY <1>1, <1>2, <2>1, ClaimFrame DEF refObjs, secrets
  <1> QED BY <1>3, <1>4

\* Every step of the claim controller keeps TypeInv.
LEMMA ClaimStepType ==
  ASSUME TypeInv, ClaimStep
  PROVE  TypeInv'
  BY ClaimWritersType, RegionSupportedType, ReferenceExistsType, FinalizeType,
     CCSSecretFinalizerType, ClaimFinalizerDeletedType, FinishClaimType DEF ClaimStep

-----------------------------------------------------------------------------
(* The worker of the ProjectReference controller.                          *)

\* The operations after which the answer of the API server replaces the copy.
SettingUp ==
  {"ProjectID", "ServiceAccountName", "FinalizerAdded", "CreateProject", "ClearProjectID"}

\* What a step of this worker leaves alone.
LEMMA ReferenceFrame ==
  ASSUME TypeInv,
         claim' \in [Claims -> ProjectClaim], claimCur' \in [Claims -> ClaimHolders],
         ref' \in [Refs -> ProjectReference], refCur' \in [Refs -> RefHolders],
         \A r \in Refs : Owned(ref'[r]), secret' \in [Claims -> MaybeID],
         project' \in [ProjectIDs -> Project], issued' \subseteq ProjectIDs,
         refQ' \subseteq Refs, rw' \in ReferenceWorker,
         rw'.pc # "idle" => rw'.key \in Refs /\ rw'.ref.owner \in Claims,
         rw'.pc \in SettingUp => ~rw'.ref.deleting,
         UNCHANGED <<caches, claimQ, ccsSecret, world, cw>>
  PROVE  TypeInv'
  <1>1. TypeOK'
    BY DEF TypeInv, TypeOK, ClaimHolders, RefHolders, caches, world
  <1>2. KeysOK'
    BY DEF TypeInv, KeysOK, Owned, caches, SettingUp
  <1> QED BY <1>1, <1>2 DEF TypeInv

\* The parts of TypeInv that the steps of the reference controller use.
LEMMA ReferenceParts ==
  ASSUME TypeInv
  PROVE  /\ claim \in [Claims -> ProjectClaim] /\ claimCur \in [Claims -> ClaimHolders]
         /\ ref \in [Refs -> ProjectReference] /\ refCur \in [Refs -> RefHolders]
         /\ \A r \in Refs : Owned(ref[r])
         /\ secret \in [Claims -> MaybeID] /\ refQ \subseteq Refs
         /\ project \in [ProjectIDs -> Project] /\ issued \subseteq ProjectIDs
         /\ rw \in ReferenceWorker
         /\ rw.pc # "idle" => rw.key \in Refs /\ rw.ref.owner \in Claims
         /\ rw.ref \in ProjectReference /\ rw.claim \in ProjectClaim
  BY DEF TypeInv, TypeOK, KeysOK, ClaimHolders, RefHolders, Owned, ReferenceWorker

\* Going on to another operation keeps the type of the reference worker.
LEMMA RefGotoType ==
  ASSUME TypeInv, rw.pc # "idle", NEW pc \in ReferenceSteps, RefGoto(pc)
  PROVE  rw' \in ReferenceWorker /\ rw'.key \in Refs /\ rw'.ref.owner \in Claims
  BY ReferenceParts DEF RefGoto, ReferenceWorker

\* So does ending the chain.
LEMMA RefFinishType ==
  ASSUME TypeInv, rw.pc # "idle", NEW out \in Outcome,
         NEW o \in ProjectReference, o.owner \in Claims, RefFinish(out, o)
  PROVE  rw' \in ReferenceWorker /\ rw'.key \in Refs /\ rw'.ref.owner \in Claims
  BY ReferenceParts DEF RefFinish, ReferenceWorker, ReferenceSteps

\* So does failing.
LEMMA RefFailsType ==
  ASSUME TypeInv, rw.pc # "idle", RefFails
  PROVE  rw' \in ReferenceWorker /\ rw'.key \in Refs /\ rw'.ref.owner \in Claims
  BY ReferenceParts, RefFinishType DEF RefFails, Outcome

\* The write of a reference that has been edited to o, and the end of the chain.
LEMMA SaveRefType ==
  ASSUME TypeInv, rw.pc # "idle", NEW o \in ProjectReference, o.owner \in Claims,
         SaveRefStatus(o) \/ (SaveRef(o) /\ ~o.deleting)
  PROVE  /\ ref' \in [Refs -> ProjectReference] /\ refCur' \in [Refs -> RefHolders]
         /\ \A s \in Refs : Owned(ref'[s])
         /\ rw' \in ReferenceWorker /\ rw'.key \in Refs /\ rw'.ref.owner \in Claims
         /\ rw'.pc = "Condition"
  <1>1. rw.key \in Refs /\ ref[rw.key] \in ProjectReference
    BY ReferenceParts
  <1>2. RefUpdate(o, ref[rw.key]) \in ProjectReference
    BY <1>1, UpdateTypes
  <1>3. ~o.deleting => RefUpdate(o, ref[rw.key]).owner \in Claims
    BY <1>1 DEF RefUpdate, Collected, ProjectReference
  <1>4. \A ok \in BOOLEAN : ErrorOrStop(ok) \in Outcome
    BY DEF ErrorOrStop, Outcome
  <1>5. PICK ok \in BOOLEAN :
          \/ /\ UpdateRef(rw.key, o, ok) /\ ~o.deleting
             /\ RefFinish(ErrorOrStop(ok), Answer(ok, RefUpdate(o, ref[rw.key]), o))
          \/ /\ UpdateRefStatus(rw.key, o, FALSE, ok)
             /\ RefFinish(ErrorOrStop(ok), o)
    BY DEF SaveRef, SaveRefStatus
  <1>6. /\ ref' \in [Refs -> ProjectReference] /\ refCur' \in [Refs -> RefHolders]
        /\ \A s \in Refs : Owned(ref'[s])
    BY <1>1, <1>5, UpdateRefType
  <1>7. PICK p \in ProjectReference : p.owner \in Claims /\ RefFinish(ErrorOrStop(ok), p)
    BY <1>2, <1>3, <1>5 DEF Answer
  <1>8. rw'.pc = "Condition"
    BY <1>7, ReferenceParts DEF RefFinish, ReferenceWorker
  <1> QED BY <1>4, <1>6, <1>7, <1>8, RefFinishType

\* The operations that write the reference and end the chain.
LEMMA RefWritersType ==
  ASSUME TypeInv,
         \/ EnsureProjectReferenceInitialized \/ EnsureProjectReferenceStatusCreating
         \/ EnsureServiceAccountName \/ EnsureFinalizerAdded \/ EnsureStateReady
         \/ ProjectInactive
  PROVE  TypeInv'
  <1>1. /\ rw.pc # "idle"
        /\ UNCHANGED <<claimObjs, caches, queues, secrets, cloud, world, cw>>
    BY DEF EnsureProjectReferenceInitialized, EnsureProjectReferenceStatusCreating,
           EnsureServiceAccountName, EnsureFinalizerAdded, EnsureStateReady, ProjectInactive
  <1> DEFINE Good(o) == /\ o \in ProjectReference /\ o.owner \in Claims
                        /\ o.deleting = rw.ref.deleting
  <1>2. /\ Good([rw.ref EXCEPT !.inited = TRUE]) /\ Good([rw.ref EXCEPT !.state = "Creating"])
        /\ Good([rw.ref EXCEPT !.state = "Ready"]) /\ Good([rw.ref EXCEPT !.state = "Error"])
        /\ Good([rw.ref EXCEPT !.saName = TRUE]) /\ Good([rw.ref EXCEPT !.finalizer = TRUE])
    BY <1>1, ReferenceParts DEF ProjectReference, ReferenceState
  <1>3. \/ SaveRefStatus([rw.ref EXCEPT !.inited = TRUE])
        \/ SaveRefStatus([rw.ref EXCEPT !.state = "Creating"])
        \/ SaveRefStatus([rw.ref EXCEPT !.state = "Ready"])
        \/ SaveRefStatus([rw.ref EXCEPT !.state = "Error"])
        \/ SaveRef([rw.ref EXCEPT !.saName = TRUE]) /\ ~rw.ref.deleting
        \/ SaveRef([rw.ref EXCEPT !.finalizer = TRUE]) /\ ~rw.ref.deleting
    BY DEF EnsureProjectReferenceInitialized, EnsureProjectReferenceStatusCreating,
           EnsureServiceAccountName, EnsureFinalizerAdded, EnsureStateReady, ProjectInactive,
           TypeInv, KeysOK
  <1>4. PICK o \in ProjectReference :
          o.owner \in Claims /\ (SaveRefStatus(o) \/ (SaveRef(o) /\ ~o.deleting))
    BY <1>2, <1>3
  <1>5. /\ ref' \in [Refs -> ProjectReference] /\ refCur' \in [Refs -> RefHolders]
        /\ \A s \in Refs : Owned(ref'[s])
        /\ rw' \in ReferenceWorker /\ rw'.key \in Refs /\ rw'.ref.owner \in Claims
        /\ rw'.pc = "Condition"
    BY <1>1, <1>4, SaveRefType
  <1> QED BY <1>1, <1>5, ReferenceParts, ReferenceFrame
          DEF claimObjs, queues, secrets, cloud, SettingUp

\* EnsureProjectID keeps the types: the ID it issues is one of ProjectIDs.
LEMMA ProjectIDType ==
  ASSUME TypeInv, EnsureProjectID
  PROVE  TypeInv'
  <1>1. /\ rw.pc # "idle" /\ ~rw.ref.deleting
        /\ UNCHANGED <<claimObjs, caches, queues, secrets, project, world, cw>>
    BY DEF EnsureProjectID, TypeInv, KeysOK
  <1>2. CASE \E id \in ProjectIDs \ issued :
               /\ SaveRef([rw.ref EXCEPT !.projectID = id])
               /\ issued' = IF ref'[rw.key].projectID = id THEN issued \cup {id} ELSE issued
    <2>1. PICK id \in ProjectIDs \ issued :
               /\ SaveRef([rw.ref EXCEPT !.projectID = id])
               /\ issued' = IF ref'[rw.key].projectID = id THEN issued \cup {id} ELSE issued
      BY <1>2
    <2>2. issued' \subseteq ProjectIDs
      BY <2>1, ReferenceParts
    <2> DEFINE o == [rw.ref EXCEPT !.projectID = id]
    <2>3. o \in ProjectReference /\ o.owner \in Claims /\ ~o.deleting
      BY <1>1, ReferenceParts DEF ProjectReference, MaybeID
    <2>4. SaveRef(o)
      BY <2>1
    <2> HIDE DEF o
    <2>5. /\ ref' \in [Refs -> ProjectReference] /\ refCur' \in [Refs -> RefHolders]
          /\ \A s \in Refs : Owned(ref'[s])
          /\ rw' \in ReferenceWorker /\ rw'.key \in Refs /\ rw'.ref.owner \in Claims
          /\ rw'.pc = "Condition"
      BY <1>1, <2>3, <2>4, SaveRefType
    <2> QED BY <1>1, <2>2, <2>5, ReferenceParts, ReferenceFrame
            DEF claimObjs, queues, secrets, SettingUp
  <1>3. CASE RefFails /\ UNCHANGED <<refObjs, issued>>
    <2>1. rw'.pc = "Condition"
      BY <1>3, ReferenceParts DEF RefFails, RefFinish, ReferenceWorker
    <2> QED BY <1>1, <1>3, <2>1, RefFailsType, ReferenceParts, ReferenceFrame
            DEF claimObjs, refObjs, queues, secrets, SettingUp
  <1> QED BY <1>2, <1>3 DEF EnsureProjectID

\* A step that only calls GCP, or touches the Secret, and goes on or gives up.
LEMMA CloudStepType ==
  ASSUME TypeInv, rw.pc # "idle",
         project' \in [ProjectIDs -> Project], secret' \in [Claims -> MaybeID],
         \/ \E pc \in ReferenceSteps \ SettingUp : RefGoto(pc)
         \/ RefGoto("ClearProjectID") /\ rw.pc = "CreateProject"
         \/ RefFails
         \/ RefFinish("after", rw.ref),
         UNCHANGED <<claimObjs, refObjs, caches, queues, ccsSecret, issued, world, cw>>
  PROVE  TypeInv'
  <1>1. "ClearProjectID" \in ReferenceSteps /\ "after" \in Outcome
    BY DEF ReferenceSteps, Outcome
  <1>2. rw' \in ReferenceWorker /\ rw'.key \in Refs /\ rw'.ref.owner \in Claims
    BY <1>1, ReferenceParts, RefGotoType, RefFailsType, RefFinishType
  <1>3. rw'.pc \in SettingUp => ~rw'.ref.deleting
    <2>1. CASE \E pc \in ReferenceSteps \ SettingUp : RefGoto(pc)
      BY <2>1, ReferenceParts DEF RefGoto, ReferenceWorker
    <2>2. CASE RefGoto("ClearProjectID") /\ rw.pc = "CreateProject"
      <3>1. ~rw.ref.deleting
        BY <2>2 DEF TypeInv, KeysOK
      <3> QED BY <2>2, <3>1, ReferenceParts DEF RefGoto, ReferenceWorker
    <2>3. CASE RefFails \/ RefFinish("after", rw.ref)
      <3>1. rw'.pc = "Condition"
        BY <2>3, ReferenceParts DEF RefFails, RefFinish, ReferenceWorker
      <3> QED BY <3>1 DEF SettingUp
    <2> QED BY <2>1, <2>2, <2>3
  <1> QED BY <1>2, <1>3, ReferenceParts, ReferenceFrame DEF claimObjs, refObjs, queues

\* A GCP call leaves a project, and the worker goes on or fails.
LEMMA ConfigureType ==
  ASSUME TypeInv, NEW p, NEW pc, rw.ref.projectID \in ProjectIDs => p \in Project,
         Configure(p, pc)
  PROVE  project' \in [ProjectIDs -> Project] /\ (RefGoto(pc) \/ RefFails)
  BY ReferenceParts DEF Configure

\* A project keeps its type when one of its parts is set up or taken down.
LEMMA ProjectEdits ==
  ASSUME NEW p \in Project, NEW b \in BOOLEAN
  PROVE  /\ [p EXCEPT !.billing = b] \in Project /\ [p EXCEPT !.apis = b] \in Project
         /\ [p EXCEPT !.sa = b] \in Project /\ [p EXCEPT !.bound = b] \in Project
         /\ [p EXCEPT !.console = b] \in Project /\ [p EXCEPT !.life = "ACTIVE"] \in Project
         /\ [NoProject EXCEPT !.life = "DELETE_REQUESTED"] \in Project
  BY DEF Project, NoProject

\* The operations that configure a project or take the configuration back.
LEMMA ConfigurersType ==
  ASSUME TypeInv,
         \/ ConfigureBillingAPI \/ ConfigureAPIS \/ ConfigureServiceAccount \/ SetIAMPolicy
         \/ SetConsoleAccess \/ DeleteServiceAccount \/ DeleteConsoleAccess
         \/ DeletePolicy
  PROVE  TypeInv'
  <1> DEFINE p == project[rw.ref.projectID]
             Next1 == {"APIs", "ServiceAccount", "Policy", "Credentials", "StateReady",
                       "DeleteCredentials", "DeleteConsoleAccess", "DeleteProject",
                       "DeleteServiceAccount"}
  <1>1. /\ rw.pc # "idle"
        /\ UNCHANGED <<claimObjs, refObjs, caches, queues, secrets, issued, world, cw>>
    BY DEF ConfigureBillingAPI, ConfigureAPIS, ConfigureServiceAccount, SetIAMPolicy,
           SetConsoleAccess, DeleteServiceAccount, DeleteConsoleAccess, DeletePolicy
  <1>2. AfterServiceAccount(rw.ref) \in Next1
    BY DEF AfterServiceAccount
  <1>3. \/ \E pc \in Next1 : \E b \in BOOLEAN :
             \/ Configure([p EXCEPT !.billing = b], pc) \/ Configure([p EXCEPT !.apis = b], pc)
             \/ Configure([p EXCEPT !.sa = b], pc) \/ Configure([p EXCEPT !.bound = b], pc)
             \/ Configure([p EXCEPT !.console = b], pc)
        \/ /\ UNCHANGED project
           /\ RefFails \/ RefFinish("after", rw.ref) \/ \E pc \in Next1 : RefGoto(pc)
    BY <1>2 DEF ConfigureBillingAPI, ConfigureAPIS, ConfigureServiceAccount, SetIAMPolicy,
           SetConsoleAccess, DeleteServiceAccount, DeleteConsoleAccess, DeletePolicy
  <1>4. rw.ref.projectID \in ProjectIDs => p \in Project
    BY ReferenceParts
  <1>5. /\ project' \in [ProjectIDs -> Project]
        /\ RefFails \/ RefFinish("after", rw.ref) \/ \E pc \in Next1 : RefGoto(pc)
    <2>1. CASE \E pc \in Next1 : \E b \in BOOLEAN :
             \/ Configure([p EXCEPT !.billing = b], pc) \/ Configure([p EXCEPT !.apis = b], pc)
             \/ Configure([p EXCEPT !.sa = b], pc) \/ Configure([p EXCEPT !.bound = b], pc)
             \/ Configure([p EXCEPT !.console = b], pc)
      <3>1. PICK pc \in Next1 : \E q :
              (rw.ref.projectID \in ProjectIDs => q \in Project) /\ Configure(q, pc)
        BY <1>4, <2>1, ProjectEdits
      <3> QED BY <3>1, ConfigureType
    <2>2. CASE /\ UNCHANGED project
               /\ RefFails \/ RefFinish("after", rw.ref) \/ \E pc \in Next1 : RefGoto(pc)
      BY <2>2, ReferenceParts
    <2> QED BY <1>3, <2>1, <2>2
  <1>6. Next1 \subseteq ReferenceSteps \ SettingUp
    BY DEF ReferenceSteps, DeletionSteps, SettingUp
  <1>7. secret' \in [Claims -> MaybeID]
    BY <1>1, ReferenceParts DEF secrets
  <1> HIDE DEF Next1
  <1> QED BY <1>1, <1>5, <1>6, <1>7, CloudStepType DEF secrets

\* createProject and deleteProject keep the types.
LEMMA CreateAndDeleteType ==
  ASSUME TypeInv, ListProjectsFails \/ ProjectFound \/ ProjectMissing \/ DeleteProject
  PROVE  TypeInv'
  <1> DEFINE id == rw.ref.projectID
  <1>1. /\ rw.pc # "idle"
        /\ UNCHANGED <<claimObjs, refObjs, caches, queues, secrets, issued, world, cw>>
    BY DEF ListProjectsFails, ProjectFound, ProjectMissing, DeleteProject, cloud
  <1>2. {"Billing", "DeleteCredentials"} \subseteq ReferenceSteps \ SettingUp
    BY DEF ReferenceSteps, DeletionSteps, SettingUp
  <1>3. \/ \E pc \in ReferenceSteps \ SettingUp : RefGoto(pc)
        \/ RefGoto("ClearProjectID") /\ rw.pc = "CreateProject"
        \/ RefFails
    BY <1>2 DEF ListProjectsFails, ProjectFound, ProjectMissing, DeleteProject
  <1>4. project' \in [ProjectIDs -> Project]
    <2>1. \/ project' = project
          \/ project' = [project EXCEPT ![id] =
                           IF @.life = "none" THEN [@ EXCEPT !.life = "ACTIVE"] ELSE @]
          \/ project' = [project EXCEPT ![id] = [NoProject EXCEPT !.life = "DELETE_REQUESTED"]]
      BY DEF ListProjectsFails, ProjectFound, ProjectMissing, DeleteProject, cloud
    <2>2. id \in ProjectIDs => project[id] \in Project
      BY ReferenceParts
    <2>3. /\ id \in ProjectIDs => [project[id] EXCEPT !.life = "ACTIVE"] \in Project
          /\ [NoProject EXCEPT !.life = "DELETE_REQUESTED"] \in Project
      BY <2>2 DEF Project, NoProject
    <2>4. CASE project' = [project EXCEPT ![id] =
                           IF @.life = "none" THEN [@ EXCEPT !.life = "ACTIVE"] ELSE @]
      BY <2>2, <2>3, <2>4, ReferenceParts
    <2>5. CASE project' = [project EXCEPT ![id] = [NoProject EXCEPT !.life = "DELETE_REQUESTED"]]
      BY <2>3, <2>5, ReferenceParts
    <2> QED BY <2>1, <2>4, <2>5, ReferenceParts
  <1>5. secret' \in [Claims -> MaybeID]
    BY <1>1, ReferenceParts DEF secrets
  <1> QED BY <1>1, <1>3, <1>4, <1>5, CloudStepType DEF secrets

\* createCredentials and deleteCredentials keep the types.
LEMMA CredentialsType ==
  ASSUME TypeInv, CreateKey \/ CreateSecret \/ DeleteCredentials
  PROVE  TypeInv'
  <1>1. /\ rw.pc # "idle"
        /\ UNCHANGED <<claimObjs, refObjs, caches, queues, ccsSecret, cloud, world, cw>>
    BY DEF CreateKey, CreateSecret, DeleteCredentials, secrets
  <1>2. {"CreateSecret", "ConsoleAccess", "StateReady", "FinalizerDeleted", "Condition"}
          \subseteq ReferenceSteps \ SettingUp
    BY DEF ReferenceSteps, DeletionSteps, SettingUp
  <1>3. \/ \E pc \in ReferenceSteps \ SettingUp : RefGoto(pc)
        \/ RefFails
        \/ RefFinish("after", rw.ref)
    BY <1>2 DEF CreateKey, CreateSecret, DeleteCredentials, AfterCredentials,
                AfterDeleteCredentials
  <1>4. secret' \in [Claims -> MaybeID]
    <2>1. \/ secret' = secret
          \/ secret' = [secret EXCEPT ![rw.ref.owner] = rw.ref.projectID]
          \/ secret' = [secret EXCEPT ![rw.ref.owner] = Nil]
      BY DEF CreateKey, CreateSecret, DeleteCredentials, secrets
    <2>2. rw.ref.projectID \in MaybeID /\ Nil \in MaybeID
      BY ReferenceParts DEF ProjectReference, MaybeID
    <2> QED BY <2>1, <2>2, ReferenceParts
  <1>5. project' \in [ProjectIDs -> Project] /\ UNCHANGED issued
    BY <1>1, ReferenceParts DEF cloud
  <1> QED BY <1>1, <1>3, <1>4, <1>5, CloudStepType

\* Writes of the reference whose outcome is not RequeueOnErrorOrStop.
LEMMA ClearProjectIDType ==
  ASSUME TypeInv, ClearProjectID
  PROVE  TypeInv'
  <1> DEFINE edited == [rw.ref EXCEPT !.projectID = Nil]
  <1>1. /\ rw.pc # "idle" /\ ~rw.ref.deleting
        /\ UNCHANGED <<claimObjs, caches, queues, secrets, cloud, world, cw>>
    BY DEF ClearProjectID, TypeInv, KeysOK
  <1>2. edited \in ProjectReference /\ edited.owner \in Claims /\ ~edited.deleting
    BY <1>1, ReferenceParts DEF ProjectReference, MaybeID
  <1>3. PICK ok \in BOOLEAN :
          /\ UpdateRef(rw.key, edited, ok)
          /\ RefFinish("error", Answer(ok, RefUpdate(edited, ref[rw.key]), edited))
    BY DEF ClearProjectID
  <1> HIDE DEF edited
  <1>4. rw.key \in Refs /\ ref[rw.key] \in ProjectReference
    BY <1>1, ReferenceParts
  <1>5. RefUpdate(edited, ref[rw.key]) \in ProjectReference
    BY <1>2, <1>4, UpdateTypes
  <1>6. RefUpdate(edited, ref[rw.key]).owner \in Claims
    BY <1>2, <1>4 DEF RefUpdate, Collected, ProjectReference
  <1>7. PICK o \in ProjectReference : o.owner \in Claims /\ RefFinish("error", o)
    BY <1>2, <1>3, <1>5, <1>6 DEF Answer
  <1>8. /\ rw' \in ReferenceWorker /\ rw'.key \in Refs /\ rw'.ref.owner \in Claims
    BY <1>1, <1>7, RefFinishType DEF Outcome
  <1>9. rw'.pc = "Condition"
    BY <1>7, ReferenceParts DEF RefFinish, ReferenceWorker
  <1>10. /\ ref' \in [Refs -> ProjectReference] /\ refCur' \in [Refs -> RefHolders]
         /\ \A s \in Refs : Owned(ref'[s])
    BY <1>2, <1>3, <1>4, UpdateRefType
  <1> QED BY <1>1, <1>8, <1>9, <1>10, ReferenceParts, ReferenceFrame
          DEF claimObjs, queues, secrets, cloud, SettingUp

\* EnsureFinalizerDeleted keeps the types.
LEMMA EnsureFinalizerDeletedType ==
  ASSUME TypeInv, EnsureFinalizerDeleted
  PROVE  TypeInv'
  <1> DEFINE edited == [rw.ref EXCEPT !.finalizer = FALSE]
  <1>1. /\ rw.pc # "idle"
        /\ UNCHANGED <<claimObjs, caches, queues, secrets, cloud, world, cw>>
    BY DEF EnsureFinalizerDeleted
  <1>2. edited \in ProjectReference /\ edited.owner \in Claims
    BY <1>1, ReferenceParts DEF ProjectReference
  <1>3. PICK ok \in BOOLEAN :
          UpdateRef(rw.key, edited, ok) /\ RefFinish(ErrorOrStop(ok), edited)
    BY DEF EnsureFinalizerDeleted
  <1> HIDE DEF edited
  <1>4. /\ rw' \in ReferenceWorker /\ rw'.key \in Refs /\ rw'.ref.owner \in Claims
    BY <1>1, <1>2, <1>3, RefFinishType DEF Outcome, ErrorOrStop
  <1>5. rw'.pc = "Condition"
    BY <1>3, ReferenceParts DEF RefFinish, ReferenceWorker
  <1>6. /\ ref' \in [Refs -> ProjectReference] /\ refCur' \in [Refs -> RefHolders]
        /\ \A s \in Refs : Owned(ref'[s])
    BY <1>1, <1>2, <1>3, ReferenceParts, UpdateRefType
  <1> QED BY <1>1, <1>4, <1>5, <1>6, ReferenceParts, ReferenceFrame
          DEF claimObjs, queues, secrets, cloud, SettingUp

\* handleAvailabilityZonesError keeps the types.
LEMMA HandleAvailabilityZonesErrorType ==
  ASSUME TypeInv, HandleAvailabilityZonesError
  PROVE  TypeInv'
  <1> DEFINE noted == [rw.ref EXCEPT !.compute = "False"]
  <1>1. /\ rw.pc # "idle"
        /\ UNCHANGED <<claimObjs, caches, queues, secrets, cloud, world, cw>>
    BY DEF HandleAvailabilityZonesError
  <1>2. noted \in ProjectReference /\ noted.owner \in Claims
    BY <1>1, ReferenceParts DEF ProjectReference
  <1>3. CASE \E ok, touched \in BOOLEAN, out \in Outcome :
                UpdateRefStatus(rw.key, noted, touched, ok) /\ RefFinish(out, noted)
    <2>1. PICK ok \in BOOLEAN, touched \in BOOLEAN, out \in Outcome :
             UpdateRefStatus(rw.key, noted, touched, ok) /\ RefFinish(out, noted)
      BY <1>3
    <2> HIDE DEF noted
    <2>2. rw' \in ReferenceWorker /\ rw'.key \in Refs /\ rw'.ref.owner \in Claims
      BY <1>1, <1>2, <2>1, RefFinishType
    <2>3. rw'.pc = "Condition"
      BY <2>1, ReferenceParts DEF RefFinish, ReferenceWorker
    <2>4. /\ ref' \in [Refs -> ProjectReference] /\ refCur' \in [Refs -> RefHolders]
          /\ \A s \in Refs : Owned(ref'[s])
      BY <1>1, <1>2, <2>1, ReferenceParts, UpdateRefType
    <2> QED BY <1>1, <2>2, <2>3, <2>4, ReferenceParts, ReferenceFrame
            DEF claimObjs, queues, secrets, cloud, SettingUp
  <1>4. CASE RefFails /\ UNCHANGED refObjs
    <2>1. rw'.pc = "Condition"
      BY <1>4, ReferenceParts DEF RefFails, RefFinish, ReferenceWorker
    <2> QED BY <1>1, <1>4, <2>1, RefFailsType, ReferenceParts, ReferenceFrame
            DEF claimObjs, refObjs, queues, secrets, cloud, SettingUp
  <1>5. "error" \in Outcome /\ "after" \in Outcome
    BY DEF Outcome
  <1> QED BY <1>3, <1>4, <1>5 DEF HandleAvailabilityZonesError

\* The writes of the claim.
LEMMA ClaimReadyType ==
  ASSUME TypeInv,
         \/ EnsureClaimAvailabilityZonesSet \/ EnsureClaimProjectIDSet \/ EnsureProjectClaimReady
  PROVE  TypeInv'
  <1> DEFINE c == rw.ref.owner
  <1>1. /\ rw.pc # "idle" /\ c \in Claims /\ TypeOK
        /\ UNCHANGED <<refObjs, caches, queues, secrets, cloud, world, cw>>
    BY ReferenceParts DEF EnsureClaimAvailabilityZonesSet, EnsureClaimProjectIDSet,
                          EnsureProjectClaimReady, TypeInv
  <1>2. /\ [rw.claim EXCEPT !.zones = TRUE] \in ProjectClaim
        /\ [rw.claim EXCEPT !.projectID = rw.ref.projectID] \in ProjectClaim
        /\ [rw.claim EXCEPT !.state = "Ready"] \in ProjectClaim
    BY ReferenceParts DEF ProjectClaim, ProjectReference, ClaimStatus
  <1>3. PICK o \in ProjectClaim, ok \in BOOLEAN :
           UpdateClaim("refCtl", c, o, ok) \/ UpdateClaimStatus("refCtl", c, o, FALSE, ok)
    BY <1>2 DEF EnsureClaimAvailabilityZonesSet, EnsureClaimProjectIDSet, EnsureProjectClaimReady
  <1>4. claim' \in [Claims -> ProjectClaim] /\ claimCur' \in [Claims -> ClaimHolders]
    BY <1>1, <1>3, UpdateClaimType
  <1>5. /\ rw' \in ReferenceWorker /\ rw'.key \in Refs /\ rw'.ref.owner \in Claims
        /\ rw'.pc \in {"Condition", "ClaimReady"}
    <2>1. CASE \E out \in Outcome, o1 \in ProjectReference :
                 o1.owner \in Claims /\ RefFinish(out, o1)
      <3>1. rw'.pc = "Condition"
        BY <2>1, ReferenceParts DEF RefFinish, ReferenceWorker
      <3> QED BY <1>1, <2>1, <3>1, RefFinishType
    <2>2. CASE RefFails
      <3>1. rw'.pc = "Condition"
        BY <2>2, ReferenceParts DEF RefFails, RefFinish, ReferenceWorker
      <3> QED BY <1>1, <2>2, <3>1, RefFailsType
    <2>3. CASE \E cl \in ProjectClaim : rw' = [rw EXCEPT !.pc = "ClaimReady", !.claim = cl]
      BY <1>1, <2>3, ReferenceParts DEF ReferenceWorker, ReferenceSteps
    <2>4. ClaimUpdate([rw.claim EXCEPT !.projectID = rw.ref.projectID], claim[c]) \in ProjectClaim
      BY <1>1, <1>2, UpdateTypes, ReferenceParts
    <2>5. /\ [rw.ref EXCEPT !.compute = "True"] \in ProjectReference
          /\ [rw.ref EXCEPT !.compute = "True"].owner \in Claims
      BY <1>1, ReferenceParts DEF ProjectReference
    <2>6. /\ "now" \in Outcome /\ "error" \in Outcome
          /\ \A ok1 \in BOOLEAN : ErrorOrStop(ok1) \in Outcome
      BY DEF Outcome, ErrorOrStop
    <2>7. CASE EnsureClaimAvailabilityZonesSet
      BY <2>1, <2>5, <2>6, <2>7 DEF EnsureClaimAvailabilityZonesSet
    <2>8. CASE EnsureClaimProjectIDSet
      BY <2>2, <2>3, <2>4, <2>8 DEF EnsureClaimProjectIDSet
    <2>9. CASE EnsureProjectClaimReady
      BY <1>1, <2>1, <2>6, <2>9, ReferenceParts DEF EnsureProjectClaimReady
    <2> QED BY <2>7, <2>8, <2>9
  <1> QED BY <1>1, <1>4, <1>5, ReferenceParts, ReferenceFrame
          DEF refObjs, queues, secrets, cloud, SettingUp

\* The end of a reconcile of a reference keeps the types.
LEMMA FinishReferenceType ==
  ASSUME TypeInv, FinishReference
  PROVE  TypeInv'
  <1> DEFINE r == rw.key
             new == RefStatusUpdate(ReferenceCondition(rw.ref, rw.out), ref[r])
  <1>1. /\ rw.pc # "idle" /\ rw' = IdleReferenceWorker
        /\ UNCHANGED <<claim, caches, claimQ, secrets, cloud, world, cw>>
        /\ claimCur' = [claimCur EXCEPT ![rw.ref.owner] = @ \ {"refCtl"}]
        /\ refQ' = IF Requeued(rw.out) THEN refQ \cup {r} ELSE refQ
    BY DEF FinishReference
  <1>2. rw' \in ReferenceWorker /\ rw'.pc = "idle"
    <2>1. NoClaim \in ProjectClaim /\ NoRef \in ProjectReference
      BY DEF NoClaim, NoRef, ProjectClaim, ProjectReference, ClaimStatus, ReferenceState,
             Condition, MaybeID
    <2> QED BY <1>1, <2>1 DEF IdleReferenceWorker, ReferenceWorker, ReferenceSteps, Outcome
  <1>3. new \in ProjectReference /\ Owned(new)
    <2>1. ReferenceCondition(rw.ref, rw.out) \in ProjectReference
      BY <1>1, ReferenceParts DEF ReferenceCondition, ProjectReference, Condition
    <2>2. new \in ProjectReference
      BY <1>1, <2>1, ReferenceParts, UpdateTypes
    <2>3. ref[r] \in ProjectReference /\ Owned(ref[r])
      BY <1>1, ReferenceParts
    <2>4. new.exists = ref[r].exists /\ new.owner = ref[r].owner
      BY <2>3 DEF RefStatusUpdate, ProjectReference
    <2> QED BY <2>2, <2>3, <2>4 DEF Owned
  <1>4. claimCur' \in [Claims -> ClaimHolders]
    BY <1>1, ReferenceParts DEF ClaimHolders
  <1>5. /\ ref' \in [Refs -> ProjectReference] /\ refCur' \in [Refs -> RefHolders]
        /\ \A s \in Refs : Owned(ref'[s])
    <2>1. CASE ReferenceConditionDue(rw.ref, rw.out)
      <3>1. PICK touched \in BOOLEAN : \E w \in Replies("refCtl", ref[r], refCur[r], new, touched) :
                /\ ref' = [ref EXCEPT ![r] = w.obj]
                /\ refCur' = [refCur EXCEPT ![r] = w.cur \ {"refCtl"}]
        BY <2>1 DEF FinishReference
      <3>2. PICK w \in Replies("refCtl", ref[r], refCur[r], new, touched) :
                /\ ref' = [ref EXCEPT ![r] = w.obj]
                /\ refCur' = [refCur EXCEPT ![r] = w.cur \ {"refCtl"}]
        BY <3>1
      <3> HIDE DEF new
      <3>3. w.obj \in ProjectReference /\ Owned(w.obj) /\ w.cur \in RefHolders
        BY <1>1, <1>3, ReferenceParts, RefWrite
      <3> QED BY <1>1, <3>2, <3>3, ReferenceParts DEF RefHolders
    <2>2. CASE ~ReferenceConditionDue(rw.ref, rw.out)
      <3>1. refCur' = [refCur EXCEPT ![r] = @ \ {"refCtl"}] /\ UNCHANGED ref
        BY <2>2 DEF FinishReference
      <3> QED BY <1>1, <3>1, ReferenceParts DEF RefHolders
    <2> QED BY <2>1, <2>2
  <1>6. refQ' \subseteq Refs
    BY <1>1, ReferenceParts
  <1> QED BY <1>1, <1>2, <1>4, <1>5, <1>6, ReferenceParts, ReferenceFrame
          DEF secrets, cloud, SettingUp

\* The beginning of a reconcile of a reference: operations that set it up start
\* only from a copy that is not being deleted.
LEMMA StartReferenceType ==
  ASSUME TypeInv, NEW r \in Refs, StartReference(r)
  PROVE  TypeInv'
  <1> DEFINE o == refCache[r]
             cl == claimCache[o.owner]
  <1>1. /\ rw.pc = "idle" /\ UNCHANGED <<claim, ref, caches, claimQ, secrets, cloud, world, cw>>
        /\ refQ' \subseteq refQ
    BY DEF StartReference
  <1>2. o \in ProjectReference /\ Owned(o)
    BY DEF TypeInv, TypeOK, KeysOK, Owned
  <1>3. CASE UNCHANGED <<rw, refCur, claimCur>>
    BY <1>1, <1>3, ReferenceParts, ReferenceFrame DEF secrets, cloud, SettingUp
  <1>4. CASE /\ o.exists
             /\ rw' = [pc |-> FirstOperation(o, cl), key |-> r, ref |-> o,
                       claim |-> cl, out |-> FirstOutcome(o, cl)]
             /\ refCur' = [refCur EXCEPT ![r] =
                             IF "cache" \in @ THEN @ \cup {"refCtl"} ELSE @]
             /\ claimCur' = [claimCur EXCEPT ![o.owner] =
                             IF "cache" \in @ THEN @ \cup {"refCtl"} ELSE @]
    <2>1. o.owner \in Claims
      BY <1>2, <1>4 DEF Owned
    <2>2. cl \in ProjectClaim
      BY <2>1 DEF TypeInv, TypeOK
    <2>3. refCur' \in [Refs -> RefHolders] /\ claimCur' \in [Claims -> ClaimHolders]
      BY <1>4, ReferenceParts DEF RefHolders, ClaimHolders
    <2>4. /\ FirstOperation(o, cl) \in ReferenceSteps /\ FirstOutcome(o, cl) \in Outcome
          /\ FirstOperation(o, cl) \in SettingUp => ~o.deleting
      BY DEF FirstOperation, SetUpOperation, FirstOutcome, ClaimReadyOperation, AfterFinalizerAdded,
             ReferenceSteps, DeletionSteps, Outcome, SettingUp
    <2>5. /\ rw' \in ReferenceWorker /\ rw'.key \in Refs /\ rw'.ref.owner \in Claims
          /\ rw'.pc \in SettingUp => ~rw'.ref.deleting
      BY <1>2, <1>4, <2>1, <2>2, <2>4 DEF ReferenceWorker
    <2> QED BY <1>1, <2>3, <2>5, ReferenceParts, ReferenceFrame DEF secrets, cloud
  <1> QED BY <1>3, <1>4 DEF StartReference

\* Every step of the reference controller keeps TypeInv.
LEMMA ReferenceStepType ==
  ASSUME TypeInv, ReferenceStep
  PROVE  TypeInv'
  BY RefWritersType, ProjectIDType, ConfigurersType, CreateAndDeleteType, CredentialsType,
     ClearProjectIDType, EnsureFinalizerDeletedType, HandleAvailabilityZonesErrorType,
     ClaimReadyType, FinishReferenceType DEF ReferenceStep

-----------------------------------------------------------------------------
(* The manager and the environment.                                        *)

\* The informers, the beginnings of reconciles and restarts keep TypeInv.
LEMMA ManagerType ==
  ASSUME TypeInv, Manager
  PROVE  TypeInv'
  <1>1. ASSUME NEW c \in Claims, SyncClaim(c)
        PROVE  TypeInv'
    <2>1. TypeOK'
      BY <1>1 DEF SyncClaim, TypeInv, TypeOK, refObjs, secrets, cloud, world, workers
    <2> QED BY <1>1, <2>1 DEF SyncClaim, TypeInv, KeysOK, refObjs, workers
  <1>2. ASSUME NEW r \in Refs, SyncRef(r)
        PROVE  TypeInv'
    <2>1. TypeOK'
      BY <1>2 DEF SyncRef, TypeInv, TypeOK, claimObjs, secrets, cloud, world, workers
    <2>2. \A s \in Refs : refCache'[s].exists => refCache'[s].owner \in Claims
      BY <1>2 DEF SyncRef, TypeInv, TypeOK, KeysOK
    <2> QED BY <1>2, <2>1, <2>2 DEF SyncRef, TypeInv, KeysOK, workers
  <1>3. ASSUME NEW c \in Claims, SyncSecret(c)
        PROVE  TypeInv'
    <2>1. TypeOK'
      BY <1>3 DEF SyncSecret, TypeInv, TypeOK, claimObjs, refObjs, queues, secrets, cloud,
                  world, workers
    <2> QED BY <1>3, <2>1 DEF SyncSecret, TypeInv, KeysOK, refObjs, workers
  <1>4. CASE Resync
    <2>1. TypeOK'
      BY <1>4 DEF Resync, TypeInv, TypeOK, claimObjs, refObjs, caches, secrets, cloud,
                  world, workers
    <2> QED BY <1>4, <2>1 DEF Resync, TypeInv, KeysOK, refObjs, caches, workers
  <1>5. CASE Crash
    <2>1. IdleClaimWorker \in ClaimWorker /\ IdleReferenceWorker \in ReferenceWorker
      <3>1. NoClaim \in ProjectClaim /\ NoRef \in ProjectReference
        BY DEF NoClaim, NoRef, ProjectClaim, ProjectReference, ClaimStatus, ReferenceState,
               Condition, MaybeID
      <3> QED BY <3>1 DEF IdleClaimWorker, IdleReferenceWorker, ClaimWorker, ReferenceWorker,
                          ClaimSteps, ReferenceSteps, Outcome
    <2>2. TypeOK'
      BY <1>5, <2>1 DEF Crash, TypeInv, TypeOK, secrets, cloud, world
    <2>3. KeysOK'
      BY <1>5 DEF Crash, TypeInv, KeysOK, IdleClaimWorker, IdleReferenceWorker
    <2> QED BY <2>2, <2>3 DEF TypeInv
  <1> QED BY <1>1, <1>2, <1>3, <1>4, <1>5, StartClaimType, StartReferenceType DEF Manager

\* Users and administrators keep TypeInv.
LEMMA EnvironmentType ==
  ASSUME TypeInv, Environment
  PROVE  TypeInv'
  <1>1. ASSUME NEW c \in Claims, CreateClaim(c) \/ DeleteClaim(c) \/ EditClaim(c)
        PROVE  TypeInv'
    <2>1. \A v \in BOOLEAN : [NoClaim EXCEPT !.exists = TRUE, !.valid = v] \in ProjectClaim
      BY DEF NoClaim, ProjectClaim, ClaimStatus, Condition, MaybeID
    <2>2. claim[c] \in ProjectClaim
      BY DEF TypeInv, TypeOK
    <2>3. Deleted(claim[c], NoClaim) \in ProjectClaim
      BY <2>2, DeletedTypes
    <2>4. [claim[c] EXCEPT !.valid = ~@] \in ProjectClaim
      BY <2>2 DEF ProjectClaim
    <2>5. PICK o \in ProjectClaim : claim' = [claim EXCEPT ![c] = o]
      BY <1>1, <2>1, <2>3, <2>4 DEF CreateClaim, DeleteClaim, EditClaim
    <2>6. /\ claimCur' = [claimCur EXCEPT ![c] = {}]
          /\ UNCHANGED <<refObjs, caches, queues, secrets, cloud, world, workers>>
      BY <1>1 DEF CreateClaim, DeleteClaim, EditClaim
    <2>7. TypeOK'
      BY <2>5, <2>6 DEF TypeInv, TypeOK, refObjs, caches, queues, secrets, cloud, world, workers
    <2> QED BY <2>6, <2>7 DEF TypeInv, KeysOK, refObjs, caches, workers
  <1>2. ASSUME NEW c \in Claims, SetRegion(c)
        PROVE  TypeInv'
    <2>1. TypeOK'
      BY <1>2 DEF SetRegion, TypeInv, TypeOK, claimObjs, refObjs, caches, queues, secrets,
                  cloud, workers
    <2> QED BY <1>2, <2>1 DEF SetRegion, TypeInv, KeysOK, refObjs, caches, workers
  <1>3. ASSUME NEW c \in Claims, SetCCSSecret(c)
        PROVE  TypeInv'
    <2> DEFINE s == ccsSecret[c]
    <2>1. s \in CCSSecret
      BY DEF TypeInv, TypeOK
    <2>2. /\ [s EXCEPT !.exists = TRUE] \in CCSSecret /\ [s EXCEPT !.deleting = TRUE] \in CCSSecret
          /\ [s EXCEPT !.exists = FALSE] \in CCSSecret
      BY <2>1 DEF CCSSecret
    <2>3. PICK t \in CCSSecret : ccsSecret' = [ccsSecret EXCEPT ![c] = t]
      BY <1>3, <2>2 DEF SetCCSSecret
    <2>4. UNCHANGED <<claimObjs, refObjs, caches, queues, secret, cloud, world, workers>>
      BY <1>3 DEF SetCCSSecret
    <2>5. TypeOK'
      BY <2>3, <2>4 DEF TypeInv, TypeOK, claimObjs, refObjs, caches, queues, cloud, world, workers
    <2> QED BY <2>4, <2>5 DEF TypeInv, KeysOK, refObjs, caches, workers
  <1>4. ASSUME NEW id \in ProjectIDs, AdminDeletesProject(id)
        PROVE  TypeInv'
    <2>1. [NoProject EXCEPT !.life = "DELETE_REQUESTED"] \in Project
      BY DEF NoProject, Project
    <2>2. PICK p \in Project : project' = [project EXCEPT ![id] = p]
      BY <1>4, <2>1 DEF AdminDeletesProject
    <2>3. UNCHANGED <<claimObjs, refObjs, caches, queues, secrets, issued, world, workers>>
      BY <1>4 DEF AdminDeletesProject
    <2>4. TypeOK'
      BY <2>2, <2>3 DEF TypeInv, TypeOK, claimObjs, refObjs, caches, queues, secrets, world, workers
    <2> QED BY <2>3, <2>4 DEF TypeInv, KeysOK, refObjs, caches, workers
  <1>5. ASSUME NEW r \in Refs, AdminDeletesReference(r)
        PROVE  TypeInv'
    <2>1. ref[r] \in ProjectReference /\ Owned(ref[r])
      BY DEF TypeInv, TypeOK, KeysOK, Owned
    <2>2. Deleted(ref[r], NoRef) \in ProjectReference /\ Owned(Deleted(ref[r], NoRef))
      BY <2>1, DeletedTypes
    <2>3. PICK o \in ProjectReference : Owned(o) /\ ref' = [ref EXCEPT ![r] = o]
      BY <1>5, <2>2 DEF AdminDeletesReference
    <2>4. /\ refCur' = [refCur EXCEPT ![r] = {}]
          /\ UNCHANGED <<claimObjs, caches, queues, secrets, cloud, world, workers>>
      BY <1>5 DEF AdminDeletesReference
    <2>5. TypeOK'
      BY <2>3, <2>4 DEF TypeInv, TypeOK, claimObjs, caches, queues, secrets, cloud, world, workers
    <2>6. \A s \in Refs : ref'[s].exists => ref'[s].owner \in Claims
      BY <2>3 DEF TypeInv, TypeOK, KeysOK, Owned
    <2> QED BY <2>4, <2>5, <2>6 DEF TypeInv, KeysOK, caches, workers
  <1>6. CASE Stabilise
    <2>1. TypeOK'
      BY <1>6 DEF Stabilise, TypeInv, TypeOK, claimObjs, refObjs, caches, queues, secrets,
                  cloud, workers
    <2> QED BY <1>6, <2>1 DEF Stabilise, TypeInv, KeysOK, refObjs, caches, workers
  <1> QED BY <1>1, <1>2, <1>3, <1>4, <1>5, <1>6 DEF Environment

-----------------------------------------------------------------------------
\* TypeInv is inductive: every handler and every event around the operator
\* keeps it.
LEMMA TypeInvInductive == TypeInv /\ [Next]_vars => TypeInv'
  <1> SUFFICES ASSUME TypeInv, [Next]_vars PROVE TypeInv' OBVIOUS
  <1>1. CASE Next
    BY <1>1, ClaimStepType, ReferenceStepType, ManagerType, EnvironmentType DEF Next
  <1>2. CASE UNCHANGED vars
    <2>1. TypeOK'
      BY <1>2 DEF vars, TypeInv, TypeOK, claimObjs, refObjs, caches, queues, secrets, cloud,
                  world, workers
    <2> QED BY <1>2, <2>1 DEF vars, TypeInv, KeysOK, refObjs, caches, workers
  <1> QED BY <1>1, <1>2

\* The keys, owners and types hold in every reachable state.
THEOREM KeysCorrect == Spec => []TypeInv
  BY InitTypeInv, TypeInvInductive, PTL DEF Spec

\* Every variable keeps its type through every handler, fault, restart and
\* user action: no handler indexes an object that has no owner or key.
THEOREM TypeCorrect == Spec => []TypeOK
  <1>1. TypeInv => TypeOK
    BY DEF TypeInv
  <1> QED BY <1>1, KeysCorrect, PTL

-----------------------------------------------------------------------------
(* Projects and the references that lead to them.                          *)

\* The invariant does not depend on anything but these variables.
LEMMA TrackingFrame ==
  ASSUME TypeInv, TrackingInv, UNCHANGED <<refObjs, refCache, rw, project>>
  PROVE  TrackingInv'
  BY DEF TrackingInv, CopiesAgree, Current, StepMatchesCopy, IDsMatch, IsCCS, CacheTellsTruth, Live,
         WorkerTellsTruth, GoneBeforeForgotten, ProjectTracked, refObjs

\* There are no references and no projects but those of customers at first.
LEMMA InitTracking == Init => TrackingInv
  <1> SUFFICES ASSUME Init PROVE TrackingInv OBVIOUS
  <1>1. /\ \A r \in Refs : ref[r] = NoRef /\ refCache[r] = NoRef /\ refCur[r] = {"cache"}
        /\ rw = IdleReferenceWorker
    BY DEF Init
  <1>2. rw.pc = "idle" /\ ~NoRef.exists /\ ~NoRef.deleting
    BY <1>1 DEF IdleReferenceWorker, NoRef
  <1>3. CopiesAgree
    BY <1>1, <1>2 DEF CopiesAgree
  <1>4. StepMatchesCopy /\ WorkerTellsTruth /\ GoneBeforeForgotten
    BY <1>2 DEF StepMatchesCopy, WorkerTellsTruth, GoneBeforeForgotten, DeletionSteps
  <1>5. IDsMatch /\ CacheTellsTruth
    BY <1>1, <1>2 DEF IDsMatch, CacheTellsTruth, Live
  <1>6. ProjectTracked
    BY DEF ProjectTracked, Init, NoProject
  <1> QED BY <1>3, <1>4, <1>5, <1>6 DEF TrackingInv

-----------------------------------------------------------------------------
(* Deletion and creation of references.                                    *)

\* client.Delete of reference r, by the ProjectClaim controller or by hand.
LEMMA DeleteTracking ==
  ASSUME TypeInv, TrackingInv, NEW r \in Refs,
         ref' = [ref EXCEPT ![r] = Deleted(@, NoRef)],
         \/ refCur' = [refCur EXCEPT ![r] = {}]
         \/ refCur' = refCur /\ ref[r].deleting,
         UNCHANGED <<refCache, rw, project>>
  PROVE  TrackingInv'
  <1>1. /\ ref \in [Refs -> ProjectReference] /\ refCur \in [Refs -> RefHolders]
        /\ rw.pc # "idle" => rw.key \in Refs
    BY DEF TypeInv, TypeOK, KeysOK, RefHolders
  <1>2. ref[r] \in ProjectReference /\ (ref[r].deleting => ref[r].finalizer)
    BY <1>1 DEF TrackingInv, CopiesAgree
  <1>3. ref[r].finalizer => ref'[r] = [ref[r] EXCEPT !.deleting = TRUE]
    BY <1>1, <1>2 DEF Deleted, Collected, ProjectReference
  <1>4. ~ref[r].finalizer => ref'[r] = NoRef
    BY <1>1, <1>2 DEF Deleted, Collected, ProjectReference
  <1>5. ref[r].deleting => ref'[r] = ref[r]
    BY <1>2, <1>3 DEF ProjectReference
  <1>6. /\ ref[r].finalizer => /\ ref'[r].exists = ref[r].exists /\ ref'[r].finalizer
                               /\ ref'[r].projectID = ref[r].projectID
                               /\ ref'[r].owner = ref[r].owner /\ ref'[r].deleting
        /\ ~ref[r].finalizer => ~ref'[r].exists /\ ~ref'[r].deleting
    <2> DEFINE d == [ref[r] EXCEPT !.deleting = TRUE]
    <2>1. /\ d.exists = ref[r].exists /\ d.finalizer = ref[r].finalizer /\ d.deleting
          /\ d.projectID = ref[r].projectID /\ d.owner = ref[r].owner
      BY <1>2 DEF ProjectReference
    <2>2. ~NoRef.exists /\ ~NoRef.deleting
      BY DEF NoRef
    <2>3. ref[r].finalizer => ref'[r] = d
      BY <1>3
    <2> HIDE DEF d
    <2> QED BY <1>4, <2>1, <2>2, <2>3
  <1>7. \A s \in Refs : s # r => ref'[s] = ref[s]
    BY <1>1
  <1>8. \A s \in Refs : refCur'[s] = refCur[s] \/ (s = r /\ refCur'[s] = {})
    BY <1>1
  <1>9. CopiesAgree'
    BY <1>1, <1>5, <1>6, <1>7, <1>8 DEF TrackingInv, CopiesAgree, Current
  <1>10. StepMatchesCopy' /\ GoneBeforeForgotten'
    BY DEF TrackingInv, StepMatchesCopy, GoneBeforeForgotten, IsCCS
  <1>11. IDsMatch'
    BY <1>6, <1>7 DEF TrackingInv, IDsMatch, IsCCS
  <1>12. CacheTellsTruth'
    BY <1>6, <1>7 DEF TrackingInv, CacheTellsTruth, Live
  <1>13. WorkerTellsTruth'
    BY <1>1, <1>6, <1>7 DEF TrackingInv, WorkerTellsTruth, Live, DeletionSteps
  <1>14. ProjectTracked'
    BY <1>6, <1>7 DEF TrackingInv, ProjectTracked
  <1> QED BY <1>9, <1>10, <1>11, <1>12, <1>13, <1>14 DEF TrackingInv

\* EnsureProjectReferenceExists makes a reference where the cache has none.
LEMMA CreateTracking ==
  ASSUME TypeInv, TrackingInv, NEW c \in Claims, NEW r \in Refs,
         ~refCache[r].exists, ~ref[r].exists,
         ref' = [ref EXCEPT ![r] = NewMatchingProjectReference(c)],
         refCur' = [refCur EXCEPT ![r] = {}],
         UNCHANGED <<refCache, rw, project>>
  PROVE  TrackingInv'
  <1>1. /\ ref \in [Refs -> ProjectReference] /\ refCur \in [Refs -> RefHolders]
        /\ rw.pc # "idle" => rw.key \in Refs
    BY DEF TypeInv, TypeOK, KeysOK, RefHolders
  <1>2. /\ ~ref'[r].finalizer /\ ~ref'[r].deleting
        /\ IsCCS(ref'[r]) => ref'[r].projectID \in CCSProjectIDs
    BY <1>1 DEF NewMatchingProjectReference, NoRef, IsCCS, CCSProjectIDs
  <1>3. \A s \in Refs : s # r => ref'[s] = ref[s] /\ refCur'[s] = refCur[s]
    BY <1>1
  <1>4. refCur'[r] = {}
    BY <1>1
  <1>5. CopiesAgree'
    BY <1>1, <1>2, <1>3, <1>4 DEF TrackingInv, CopiesAgree, Current
  <1>6. StepMatchesCopy' /\ GoneBeforeForgotten'
    BY DEF TrackingInv, StepMatchesCopy, GoneBeforeForgotten, IsCCS
  <1>7. IDsMatch'
    BY <1>2, <1>3 DEF TrackingInv, IDsMatch, IsCCS
  <1>8. CacheTellsTruth'
    BY <1>2, <1>3 DEF TrackingInv, CacheTellsTruth, Live
  <1>9. WorkerTellsTruth'
    BY <1>1, <1>2, <1>3 DEF TrackingInv, WorkerTellsTruth, Live, DeletionSteps
  <1>10. ProjectTracked'
    BY <1>3 DEF TrackingInv, ProjectTracked
  <1> QED BY <1>5, <1>6, <1>7, <1>8, <1>9, <1>10 DEF TrackingInv

\* The claim controller touches references only by creating and deleting them.
LEMMA ClaimStepTracking ==
  ASSUME TypeInv, TrackingInv, ClaimStep
  PROVE  TrackingInv'
  <1>1. CASE FinalizeReference
    <2>1. cw.pc # "idle" /\ RefName(cw.key) \in Refs
      BY <1>1, ClaimParts DEF FinalizeReference
    <2>2. UNCHANGED <<refCache, rw, project>>
      BY <1>1 DEF FinalizeReference, caches, cloud
    <2>3. refCur \in [Refs -> RefHolders]
      BY ReferenceParts
    <2>4. \/ UNCHANGED refObjs
          \/ /\ ref' = [ref EXCEPT ![RefName(cw.key)] = Deleted(@, NoRef)]
             /\ \/ refCur' = [refCur EXCEPT ![RefName(cw.key)] = {}]
                \/ refCur' = refCur /\ ref[RefName(cw.key)].deleting
      BY <1>1, <2>1, <2>3 DEF FinalizeReference
    <2> QED BY <2>1, <2>2, <2>4, DeleteTracking, TrackingFrame
  <1>2. CASE EnsureProjectReferenceExists
    <2>1. cw.pc # "idle" /\ cw.key \in Claims /\ RefName(cw.key) \in Refs
      BY <1>2, ClaimParts DEF EnsureProjectReferenceExists
    <2>2. UNCHANGED <<refCache, rw, project>>
      BY <1>2 DEF EnsureProjectReferenceExists, caches, cloud
    <2>3. \/ UNCHANGED refObjs
          \/ /\ ~refCache[RefName(cw.key)].exists /\ ~ref[RefName(cw.key)].exists
             /\ ref' = [ref EXCEPT ![RefName(cw.key)] = NewMatchingProjectReference(cw.key)]
             /\ refCur' = [refCur EXCEPT ![RefName(cw.key)] = {}]
      BY <1>2 DEF EnsureProjectReferenceExists
    <2> QED BY <2>1, <2>2, <2>3, CreateTracking, TrackingFrame
  <1>3. CASE UNCHANGED <<refObjs, caches, cloud, rw>>
    BY <1>3, TrackingFrame DEF caches, cloud
  <1>4. ClaimStep => \/ FinalizeReference \/ EnsureProjectReferenceExists
                     \/ UNCHANGED <<refObjs, caches, cloud, rw>>
    BY DEF ClaimStep, FinalizeWithoutReference, EnsureCCSSecretFinalizerDeleted,
           EnsureProjectClaimFinalizerDeleted, EnsureProjectClaimValidated,
           EnsureProjectClaimInitialized, EnsureRegionSupported, EnsureProjectClaimStatePending,
           EnsureProjectReferenceLink, EnsureFinalizer, EnsureCCSSecretFinalizer,
           EnsureProjectClaimStatePendingProject, FinishClaim
  <1> QED BY <1>1, <1>2, <1>3, <1>4

-----------------------------------------------------------------------------
(* Writes of the reference by the worker.                                  *)

\* What has to be true of an object that the worker stores for its reference.
Harmless(new) ==
  LET old == ref[rw.key]
      cached == refCache[rw.key]
  IN  /\ new.deleting => new.finalizer
      /\ "createFails" \notin Faults /\ new.exists /\ new.finalizer => new.projectID # Nil
      /\ new.exists /\ IsCCS(new) => new.projectID \in CCSProjectIDs
      /\ "createFails" \notin Faults /\ Live(cached) =>
           new.exists /\ new.finalizer /\ new.projectID = cached.projectID
      /\ cached.exists /\ cached.deleting => ~new.exists \/ new.deleting
      /\ \A id \in ProjectIDs \ CCSProjectIDs :
           project[id].life = "ACTIVE" /\ old.exists /\ old.finalizer /\ old.projectID = id =>
             new.exists /\ new.finalizer /\ new.projectID = id

\* After a harmless write the chain ends, or the worker is done.
LEMMA WriteTracking ==
  ASSUME TypeInv, TrackingInv, rw.pc # "idle", NEW new, NEW t \in BOOLEAN,
         NEW w \in Replies("refCtl", ref[rw.key], refCur[rw.key], new, t),
         Current(ref[rw.key], refCur[rw.key], "refCtl") => Harmless(new),
         ref' = [ref EXCEPT ![rw.key] = w.obj],
         \/ /\ refCur' = [refCur EXCEPT ![rw.key] = w.cur]
            /\ rw'.pc = "Condition" /\ rw'.key = rw.key
         \/ /\ refCur' = [refCur EXCEPT ![rw.key] = w.cur \ {"refCtl"}]
            /\ rw'.pc = "idle",
         UNCHANGED <<refCache, project>>
  PROVE  TrackingInv'
  <1> DEFINE r == rw.key
  <1>1. /\ ref \in [Refs -> ProjectReference] /\ refCur \in [Refs -> RefHolders]
        /\ r \in Refs
    BY DEF TypeInv, TypeOK, KeysOK, RefHolders
  <1>2. \/ w.obj = ref[r] /\ w.cur = refCur[r]
        \/ Current(ref[r], refCur[r], "refCtl") /\ w.obj = new /\ w.cur \subseteq {"refCtl"}
    BY RepliesFacts
  <1>3. /\ ref'[r] = w.obj /\ (refCur'[r] = w.cur \/ refCur'[r] = w.cur \ {"refCtl"})
        /\ \A s \in Refs : s # r => ref'[s] = ref[s] /\ refCur'[s] = refCur[s]
    BY <1>1
  <1>4. \/ ref'[r] = ref[r] /\ refCur'[r] \subseteq refCur[r]
        \/ ref'[r] = new /\ Harmless(new) /\ refCur'[r] \subseteq {"refCtl"}
    BY <1>2, <1>3
  <1>5. rw'.pc \in {"idle", "Condition"}
    OBVIOUS
  <1>6. rw'.pc = "idle" => "refCtl" \notin refCur'[r]
    BY <1>1
  <1>7. CopiesAgree'
    <2>1. \A s \in Refs : "cache" \in refCur'[s] => refCache'[s] = ref'[s]
      BY <1>1, <1>3, <1>4 DEF TrackingInv, CopiesAgree
    <2>2. \A s \in Refs : "refCtl" \in refCur'[s] => rw'.pc # "idle" /\ rw'.key = s
      BY <1>1, <1>3, <1>6 DEF TrackingInv, CopiesAgree
    <2>3. \A s \in Refs : ref'[s].deleting => ref'[s].finalizer
      BY <1>1, <1>3, <1>4 DEF TrackingInv, CopiesAgree, Harmless
    <2> QED BY <1>5, <2>1, <2>2, <2>3 DEF CopiesAgree
  <1>8. StepMatchesCopy' /\ GoneBeforeForgotten' /\ WorkerTellsTruth'
    BY <1>5 DEF StepMatchesCopy, GoneBeforeForgotten, WorkerTellsTruth, DeletionSteps
  <1>9. IDsMatch'
    BY <1>1, <1>3, <1>4, <1>5 DEF TrackingInv, IDsMatch, IsCCS, Harmless
  <1>10. CacheTellsTruth'
    BY <1>1, <1>3, <1>4 DEF TrackingInv, CacheTellsTruth, Live, Harmless
  <1>11. ProjectTracked'
    BY <1>1, <1>3, <1>4 DEF TrackingInv, ProjectTracked, Harmless
  <1> QED BY <1>7, <1>8, <1>9, <1>10, <1>11 DEF TrackingInv

\* An object that agrees with the stored one on these fields is harmless.
LEMMA SameIsHarmless ==
  ASSUME TypeInv, TrackingInv, rw.pc # "idle", NEW new,
         \A f \in {"exists", "deleting", "finalizer", "projectID", "owner"} :
           new[f] = ref[rw.key][f]
  PROVE  Harmless(new)
  <1>1. rw.key \in Refs
    BY DEF TypeInv, KeysOK
  <1>2. /\ new.exists = ref[rw.key].exists /\ new.deleting = ref[rw.key].deleting
        /\ new.finalizer = ref[rw.key].finalizer /\ new.owner = ref[rw.key].owner
        /\ new.projectID = ref[rw.key].projectID
    OBVIOUS
  <1> QED BY <1>1, <1>2 DEF Harmless, TrackingInv, CopiesAgree, IDsMatch, IsCCS, CacheTellsTruth

\* client.Status().Update stores no other field.
LEMMA StatusIsHarmless ==
  ASSUME TypeInv, TrackingInv, rw.pc # "idle", NEW o
  PROVE  Harmless(RefStatusUpdate(o, ref[rw.key]))
  <1>1. rw.key \in Refs /\ ref[rw.key] \in ProjectReference
    BY DEF TypeInv, TypeOK, KeysOK
  <1>2. \A f \in {"exists", "deleting", "finalizer", "projectID", "owner"} :
          RefStatusUpdate(o, ref[rw.key])[f] = ref[rw.key][f]
    BY <1>1 DEF RefStatusUpdate, ProjectReference
  <1> QED BY <1>2, SameIsHarmless

\* What a write through client.Update stores when it is accepted: the worker's
\* copy is the stored object, and the status comes from there.
LEMMA UpdateFields ==
  ASSUME TypeInv, NEW o \in ProjectReference, NEW old \in ProjectReference
  PROVE  /\ ~(o.deleting /\ ~o.finalizer) =>
              /\ RefUpdate(o, old).exists = o.exists
              /\ RefUpdate(o, old).deleting = o.deleting
              /\ RefUpdate(o, old).finalizer = o.finalizer
              /\ RefUpdate(o, old).projectID = o.projectID
              /\ RefUpdate(o, old).owner = o.owner
         /\ o.deleting /\ ~o.finalizer => RefUpdate(o, old) = NoRef
  BY DEF RefUpdate, Collected, ProjectReference

\* The four operations that write the spec or the finalizers of a reference.
LEMMA SpecWritesHarmless ==
  ASSUME TypeInv, TrackingInv, Current(ref[rw.key], refCur[rw.key], "refCtl")
  PROVE  /\ rw.pc = "ServiceAccountName" =>
              Harmless(RefUpdate([rw.ref EXCEPT !.saName = TRUE], ref[rw.key]))
         /\ rw.pc = "FinalizerAdded" =>
              Harmless(RefUpdate([rw.ref EXCEPT !.finalizer = TRUE], ref[rw.key]))
         /\ rw.pc = "ProjectID" => \A id \in ProjectIDs :
              Harmless(RefUpdate([rw.ref EXCEPT !.projectID = id], ref[rw.key]))
         /\ rw.pc = "ClearProjectID" =>
              Harmless(RefUpdate([rw.ref EXCEPT !.projectID = Nil], ref[rw.key]))
         /\ rw.pc = "FinalizerDeleted" =>
              Harmless(RefUpdate([rw.ref EXCEPT !.finalizer = FALSE], ref[rw.key]))
  <1> DEFINE old == ref[rw.key]
             Busy == rw.pc \in {"ServiceAccountName", "FinalizerAdded", "ProjectID",
                                "ClearProjectID", "FinalizerDeleted"}
  <1>1. ASSUME Busy
        PROVE  rw.ref = old /\ old \in ProjectReference /\ old.exists /\ rw.key \in Refs
    BY <1>1 DEF TrackingInv, CopiesAgree, Current, TypeInv, TypeOK, KeysOK
  <1>2. ASSUME Busy, rw.pc # "FinalizerDeleted"
        PROVE  ~old.deleting
    BY <1>1, <1>2 DEF TypeInv, KeysOK
  <1>3. ASSUME rw.pc = "ServiceAccountName"
        PROVE  Harmless(RefUpdate([rw.ref EXCEPT !.saName = TRUE], old))
    <2> DEFINE o == [rw.ref EXCEPT !.saName = TRUE]
               new == RefUpdate(o, old)
    <2>1. /\ o \in ProjectReference /\ o.exists = old.exists /\ o.deleting = old.deleting
          /\ o.finalizer = old.finalizer /\ o.projectID = old.projectID /\ o.owner = old.owner
          /\ ~o.deleting
      BY <1>1, <1>2, <1>3 DEF ProjectReference
    <2> HIDE DEF o
    <2>2. \A f \in {"exists", "deleting", "finalizer", "projectID", "owner"} : new[f] = old[f]
      BY <1>1, <1>3, <2>1, UpdateFields
    <2> HIDE DEF new
    <2>3. Harmless(new)
      BY <1>3, <2>2, SameIsHarmless
    <2> QED BY <2>3 DEF new, o
  <1>4. ASSUME rw.pc = "FinalizerAdded"
        PROVE  Harmless(RefUpdate([rw.ref EXCEPT !.finalizer = TRUE], old))
    <2> DEFINE o == [rw.ref EXCEPT !.finalizer = TRUE]
               new == RefUpdate(o, old)
    <2>1. /\ o \in ProjectReference /\ o.exists /\ ~o.deleting
          /\ o.finalizer /\ o.projectID = old.projectID /\ o.owner = old.owner
      BY <1>1, <1>2, <1>4 DEF ProjectReference
    <2> HIDE DEF o
    <2>2. /\ new.exists /\ ~new.deleting /\ new.finalizer
          /\ new.projectID = old.projectID /\ new.owner = old.owner
      BY <1>1, <1>4, <2>1, UpdateFields
    <2> HIDE DEF new
    <2>3. old.projectID # Nil /\ old.exists /\ ~old.deleting /\ rw.key \in Refs
      BY <1>1, <1>2, <1>4 DEF TrackingInv, StepMatchesCopy
    <2>4. Harmless(new)
      BY <2>2, <2>3 DEF Harmless, TrackingInv, IDsMatch, IsCCS, CacheTellsTruth
    <2> QED BY <2>4 DEF new, o
  <1>5. ASSUME rw.pc = "ProjectID", NEW id \in ProjectIDs
        PROVE  Harmless(RefUpdate([rw.ref EXCEPT !.projectID = id], old))
    <2> DEFINE o == [rw.ref EXCEPT !.projectID = id]
               new == RefUpdate(o, old)
    <2>1. /\ o \in ProjectReference /\ o.exists /\ ~o.deleting
          /\ o.finalizer = old.finalizer /\ o.projectID = id /\ o.owner = old.owner
      BY <1>1, <1>2, <1>5 DEF ProjectReference, MaybeID
    <2> HIDE DEF o
    <2>2. /\ new.exists /\ ~new.deleting /\ new.finalizer = old.finalizer
          /\ new.projectID = id /\ new.owner = old.owner
      BY <1>1, <1>5, <2>1, UpdateFields
    <2> HIDE DEF new
    <2>3. /\ old.projectID = Nil /\ old.exists /\ ~old.deleting /\ rw.key \in Refs
          /\ id # Nil /\ Nil \notin CCSProjectIDs
      BY <1>1, <1>2, <1>5, NilAssumption, CCSAssumption
         DEF TrackingInv, StepMatchesCopy, CCSProjectIDs
    <2>4. Harmless(new)
      BY <2>2, <2>3, NilAssumption
         DEF Harmless, TrackingInv, IDsMatch, IsCCS, CacheTellsTruth
    <2> QED BY <2>4 DEF new, o
  <1>6. ASSUME rw.pc = "ClearProjectID"
        PROVE  Harmless(RefUpdate([rw.ref EXCEPT !.projectID = Nil], old))
    <2> DEFINE o == [rw.ref EXCEPT !.projectID = Nil]
               new == RefUpdate(o, old)
    <2>1. /\ o \in ProjectReference /\ o.exists /\ ~o.deleting
          /\ o.finalizer = old.finalizer /\ o.projectID = Nil /\ o.owner = old.owner
      BY <1>1, <1>2, <1>6 DEF ProjectReference, MaybeID
    <2> HIDE DEF o
    <2>2. /\ new.exists /\ ~new.deleting /\ new.finalizer = old.finalizer
          /\ new.projectID = Nil /\ new.owner = old.owner
      BY <1>1, <1>6, <2>1, UpdateFields
    <2> HIDE DEF new
    <2>3. /\ "createFails" \in Faults /\ project[old.projectID].life # "ACTIVE"
          /\ ~IsCCS(old) /\ ~old.deleting /\ old.exists /\ rw.key \in Refs
      BY <1>1, <1>2, <1>6 DEF TrackingInv, StepMatchesCopy, GoneBeforeForgotten
    <2>4. Harmless(new)
      BY <2>2, <2>3 DEF Harmless, TrackingInv, IsCCS, CacheTellsTruth
    <2> QED BY <2>4 DEF new, o
  <1>7. ASSUME rw.pc = "FinalizerDeleted"
        PROVE  Harmless(RefUpdate([rw.ref EXCEPT !.finalizer = FALSE], old))
    <2> DEFINE o == [rw.ref EXCEPT !.finalizer = FALSE]
               new == RefUpdate(o, old)
    <2>1. rw.ref.deleting /\ ~Live(refCache[rw.key])
      BY <1>7 DEF TrackingInv, StepMatchesCopy, WorkerTellsTruth, DeletionSteps
    <2>2. o \in ProjectReference /\ o.deleting /\ ~o.finalizer
      BY <1>1, <1>7, <2>1 DEF ProjectReference
    <2> HIDE DEF o
    <2>3. new = NoRef
      BY <1>1, <1>7, <2>2, UpdateFields
    <2> HIDE DEF new
    <2>4. ~new.exists /\ ~new.deleting /\ ~new.finalizer
      <3>1. ~NoRef.exists /\ ~NoRef.deleting /\ ~NoRef.finalizer
        BY DEF NoRef
      <3> QED BY <2>3, <3>1
    <2>5. \/ IsCCS(old) /\ old.projectID \in CCSProjectIDs
          \/ old.projectID = Nil
          \/ project[old.projectID].life # "ACTIVE"
      BY <1>1, <1>7 DEF TrackingInv, IDsMatch, GoneBeforeForgotten
    <2>6. Harmless(new)
      BY <2>1, <2>4, <2>5, NilAssumption DEF Harmless
    <2> QED BY <2>6 DEF new, o
  <1> QED BY <1>3, <1>4, <1>5, <1>6, <1>7

\* The steps of the worker that write the reference and end the chain.
LEMMA RefWritersTracking ==
  ASSUME TypeInv, TrackingInv,
         \/ EnsureProjectReferenceInitialized \/ EnsureProjectReferenceStatusCreating
         \/ EnsureServiceAccountName \/ EnsureFinalizerAdded \/ EnsureStateReady
         \/ ProjectInactive \/ ClearProjectID \/ EnsureFinalizerDeleted
         \/ \E id \in ProjectIDs : rw.pc = "ProjectID" /\ SaveRef([rw.ref EXCEPT !.projectID = id])
         \/ \E o : \E touched, ok \in BOOLEAN : \E out :
              /\ rw.pc = "AvailabilityZones"
              /\ UpdateRefStatus(rw.key, o, touched, ok) /\ RefFinish(out, o),
         UNCHANGED <<refCache, project>>
  PROVE  TrackingInv'
  <1> DEFINE old == ref[rw.key]
             Stored(new, t) ==
               \E w \in Replies("refCtl", ref[rw.key], refCur[rw.key], new, t) :
                 /\ ref' = [ref EXCEPT ![rw.key] = w.obj]
                 /\ refCur' = [refCur EXCEPT ![rw.key] = w.cur]
  <1>1. rw.pc # "idle"
    BY DEF EnsureProjectReferenceInitialized, EnsureProjectReferenceStatusCreating,
           EnsureServiceAccountName, EnsureFinalizerAdded, EnsureStateReady, ProjectInactive,
           ClearProjectID, EnsureFinalizerDeleted
  <1>2. rw'.pc = "Condition" /\ rw'.key = rw.key
    <2>1. \E out, o : RefFinish(out, o)
      BY DEF EnsureProjectReferenceInitialized, EnsureProjectReferenceStatusCreating,
             EnsureServiceAccountName, EnsureFinalizerAdded, EnsureStateReady, ProjectInactive,
             ClearProjectID, EnsureFinalizerDeleted, SaveRef, SaveRefStatus
    <2> QED BY <2>1, ReferenceParts DEF RefFinish, ReferenceWorker
  <1>3. ASSUME NEW new, NEW t \in BOOLEAN, Stored(new, t),
               Current(old, refCur[rw.key], "refCtl") => Harmless(new)
        PROVE  TrackingInv'
    <2>1. PICK w \in Replies("refCtl", ref[rw.key], refCur[rw.key], new, t) :
             /\ ref' = [ref EXCEPT ![rw.key] = w.obj]
             /\ refCur' = [refCur EXCEPT ![rw.key] = w.cur]
      BY <1>3
    <2> QED BY <1>1, <1>2, <1>3, <2>1, WriteTracking
  <1>4. CASE \E o : \E touched \in BOOLEAN : Stored(RefStatusUpdate(o, old), touched)
    BY <1>1, <1>3, <1>4, StatusIsHarmless
  <1>5. CASE /\ rw.pc = "ServiceAccountName"
             /\ Stored(RefUpdate([rw.ref EXCEPT !.saName = TRUE], old), FALSE)
    BY <1>3, <1>5, SpecWritesHarmless
  <1>6. CASE /\ rw.pc = "FinalizerAdded"
             /\ Stored(RefUpdate([rw.ref EXCEPT !.finalizer = TRUE], old), FALSE)
    BY <1>3, <1>6, SpecWritesHarmless
  <1>7. CASE \E id \in ProjectIDs :
               /\ rw.pc = "ProjectID"
               /\ Stored(RefUpdate([rw.ref EXCEPT !.projectID = id], old), FALSE)
    BY <1>3, <1>7, SpecWritesHarmless
  <1>8. CASE /\ rw.pc = "ClearProjectID"
             /\ Stored(RefUpdate([rw.ref EXCEPT !.projectID = Nil], old), FALSE)
    BY <1>3, <1>8, SpecWritesHarmless
  <1>9. CASE /\ rw.pc = "FinalizerDeleted"
             /\ Stored(RefUpdate([rw.ref EXCEPT !.finalizer = FALSE], old), FALSE)
    BY <1>3, <1>9, SpecWritesHarmless
  <1>10. ASSUME NEW o, NEW ok, UpdateRef(rw.key, o, ok)
         PROVE  Stored(RefUpdate(o, old), FALSE)
    BY <1>10, Zenon DEF UpdateRef
  <1>11. ASSUME NEW o, NEW ok, NEW touched \in BOOLEAN, UpdateRefStatus(rw.key, o, touched, ok)
         PROVE  \E p : \E t \in BOOLEAN : Stored(RefStatusUpdate(p, old), t)
    BY <1>11, Zenon DEF UpdateRefStatus
  <1> HIDE DEF Stored
  <1>12. CASE EnsureServiceAccountName \/ EnsureFinalizerAdded
    BY <1>5, <1>6, <1>10, <1>12 DEF EnsureServiceAccountName, EnsureFinalizerAdded, SaveRef
  <1>13. CASE ClearProjectID \/ EnsureFinalizerDeleted
    BY <1>8, <1>9, <1>10, <1>13 DEF ClearProjectID, EnsureFinalizerDeleted
  <1>14. CASE \E id \in ProjectIDs : rw.pc = "ProjectID" /\ SaveRef([rw.ref EXCEPT !.projectID = id])
    BY <1>7, <1>10, <1>14 DEF SaveRef
  <1>15. CASE \E o : \E touched, ok \in BOOLEAN : UpdateRefStatus(rw.key, o, touched, ok)
    BY <1>4, <1>11, <1>15
  <1>16. ASSUME NEW o, SaveRefStatus(o)
         PROVE  \E p : \E touched, ok \in BOOLEAN : UpdateRefStatus(rw.key, p, touched, ok)
    BY <1>16 DEF SaveRefStatus
  <1>17. CASE \/ EnsureProjectReferenceInitialized \/ EnsureProjectReferenceStatusCreating
              \/ EnsureStateReady \/ ProjectInactive
    <2>1. \E o : SaveRefStatus(o)
      BY <1>17 DEF EnsureProjectReferenceInitialized, EnsureProjectReferenceStatusCreating,
                   EnsureStateReady, ProjectInactive
    <2> QED BY <1>15, <1>16, <2>1
  <1> QED BY <1>12, <1>13, <1>14, <1>15, <1>17

-----------------------------------------------------------------------------
(* Steps of the worker that leave the references alone.                    *)

\* Going on with operation pc keeps what the invariant says about the copy.
Justified(pc) ==
  /\ pc \notin {"ProjectID", "FinalizerAdded", "CreateProject"}
  /\ pc \in DeletionSteps => rw.pc \in DeletionSteps
  /\ pc = "DeleteConsoleAccess" => IsCCS(rw.ref)
  /\ pc = "ClearProjectID" =>
       /\ rw.pc = "CreateProject" /\ "createFails" \in Faults
       /\ project'[rw.ref.projectID].life # "ACTIVE"
  /\ pc \in {"DeleteCredentials", "FinalizerDeleted"} /\ ~IsCCS(rw.ref) /\ rw.ref.projectID # Nil =>
       project'[rw.ref.projectID].life # "ACTIVE"

\* A call to GCP makes no project active but the one CreateProject is for.
LEMMA CloudTracking ==
  ASSUME TypeInv, TrackingInv, rw.pc \notin {"idle", "Condition"},
         UNCHANGED <<refObjs, refCache>>,
         \A id \in ProjectIDs :
           project'[id].life = "ACTIVE" =>
             project[id].life = "ACTIVE" \/ (rw.pc = "CreateProject" /\ id = rw.ref.projectID),
         \/ rw'.pc = "Condition" /\ rw'.key = rw.key
         \/ \E pc \in ReferenceSteps \ {"idle"} : RefGoto(pc) /\ Justified(pc)
         \/ \E cl : rw' = [rw EXCEPT !.pc = "ClaimReady", !.claim = cl]
  PROVE  TrackingInv'
  <1>1. rw.key \in Refs /\ rw \in ReferenceWorker
    BY ReferenceParts
  <1>2. ProjectTracked'
    BY <1>1 DEF TrackingInv, ProjectTracked, WorkerTellsTruth, refObjs
  <1>3. CASE rw'.pc = "Condition" /\ rw'.key = rw.key
    <2>1. CopiesAgree'
      BY <1>3 DEF TrackingInv, CopiesAgree, refObjs
    <2>2. StepMatchesCopy' /\ GoneBeforeForgotten' /\ WorkerTellsTruth'
      BY <1>3 DEF StepMatchesCopy, GoneBeforeForgotten, WorkerTellsTruth, DeletionSteps
    <2>3. IDsMatch' /\ CacheTellsTruth'
      BY <1>3 DEF TrackingInv, IDsMatch, IsCCS, CacheTellsTruth, Live, refObjs
    <2> QED BY <1>2, <2>1, <2>2, <2>3 DEF TrackingInv
  <1>4. ASSUME NEW pc, pc # "idle", Justified(pc), rw'.pc = pc, rw'.key = rw.key, rw'.ref = rw.ref
        PROVE  TrackingInv'
    <2>1. CopiesAgree'
      BY <1>4 DEF TrackingInv, CopiesAgree, Current, refObjs
    <2>2. StepMatchesCopy'
      BY <1>4 DEF TrackingInv, StepMatchesCopy, Justified, IsCCS
    <2>3. GoneBeforeForgotten'
      BY <1>4 DEF GoneBeforeForgotten, Justified, IsCCS
    <2>4. WorkerTellsTruth'
      BY <1>4 DEF TrackingInv, WorkerTellsTruth, Justified, refObjs, Live
    <2>5. IDsMatch' /\ CacheTellsTruth'
      BY <1>4 DEF TrackingInv, IDsMatch, IsCCS, CacheTellsTruth, Live, refObjs
    <2> QED BY <1>2, <2>1, <2>2, <2>3, <2>4, <2>5 DEF TrackingInv
  <1>5. CASE \E pc \in ReferenceSteps \ {"idle"} : RefGoto(pc) /\ Justified(pc)
    <2>1. PICK pc \in ReferenceSteps \ {"idle"} : RefGoto(pc) /\ Justified(pc)
      BY <1>5
    <2>2. rw'.pc = pc /\ rw'.key = rw.key /\ rw'.ref = rw.ref
      BY <1>1, <2>1 DEF RefGoto, ReferenceWorker
    <2> QED BY <1>4, <2>1, <2>2
  <1>6. CASE \E cl : rw' = [rw EXCEPT !.pc = "ClaimReady", !.claim = cl]
    <2>1. rw'.pc = "ClaimReady" /\ rw'.key = rw.key /\ rw'.ref = rw.ref
      BY <1>1, <1>6 DEF ReferenceWorker
    <2>2. Justified("ClaimReady")
      BY DEF Justified, DeletionSteps
    <2> QED BY <1>4, <2>1, <2>2
  <1> QED BY <1>3, <1>5, <1>6

\* A call that configures the project does not change its lifecycleState.
LEMMA ConfigureLife ==
  ASSUME TypeInv, NEW p, NEW pc, Configure(p, pc),
         rw.ref.projectID \in ProjectIDs => p.life = project[rw.ref.projectID].life
  PROVE  /\ \A id \in ProjectIDs : project'[id].life = project[id].life
         /\ RefGoto(pc) \/ RefFails
  BY ReferenceParts DEF Configure

\* RefFails and RefFinish end the chain.
LEMMA FinishEnds ==
  ASSUME TypeInv, RefFails \/ \E out, o : RefFinish(out, o)
  PROVE  rw'.pc = "Condition" /\ rw'.key = rw.key
  BY ReferenceParts DEF RefFails, RefFinish, ReferenceWorker

\* The configuration calls, when a project is set up and when it is cleaned up.
LEMMA ConfigurersTracking ==
  ASSUME TypeInv, TrackingInv,
         \/ ConfigureBillingAPI \/ ConfigureAPIS \/ ConfigureServiceAccount \/ SetIAMPolicy
         \/ SetConsoleAccess \/ DeleteServiceAccount \/ DeleteConsoleAccess
         \/ DeletePolicy
  PROVE  TrackingInv'
  <1> DEFINE p == project[rw.ref.projectID]
             Alive(q) == rw.ref.projectID \in ProjectIDs => q.life = p.life
             Goes(pc) == /\ pc \in ReferenceSteps \ {"idle"} /\ Justified(pc)
                         /\ pc # "ClearProjectID"
  <1>1. /\ rw.pc \notin {"idle", "Condition"} /\ UNCHANGED <<refObjs, refCache>>
    BY DEF ConfigureBillingAPI, ConfigureAPIS, ConfigureServiceAccount, SetIAMPolicy,
           SetConsoleAccess, DeleteServiceAccount, DeleteConsoleAccess, DeletePolicy, caches
  <1>2. \A pc \in {"APIs", "ServiceAccount", "Policy", "Credentials", "StateReady"} : Goes(pc)
    BY DEF Justified, DeletionSteps, ReferenceSteps
  <1>3. rw.pc \in {"DeletePolicy", "DeleteServiceAccount"} =>
          Goes(AfterServiceAccount(rw.ref)) /\ Goes("DeleteServiceAccount")
    BY DEF Justified, DeletionSteps, ReferenceSteps, AfterServiceAccount
  <1>4. rw.pc = "DeleteConsoleAccess" => Goes("DeleteCredentials")
    BY DEF Justified, DeletionSteps, ReferenceSteps, TrackingInv, StepMatchesCopy
  <1>5. \A b : /\ Alive([p EXCEPT !.billing = b]) /\ Alive([p EXCEPT !.apis = b])
               /\ Alive([p EXCEPT !.sa = b]) /\ Alive([p EXCEPT !.bound = b])
               /\ Alive([p EXCEPT !.console = b])
    BY ReferenceParts DEF Project
  <1>6. \/ \E pc, q : Alive(q) /\ Goes(pc) /\ Configure(q, pc)
        \/ /\ UNCHANGED project
           /\ \/ RefFails \/ RefFinish("after", rw.ref)
              \/ \E pc : Goes(pc) /\ RefGoto(pc)
    <2>1. CASE ConfigureBillingAPI \/ ConfigureAPIS \/ SetIAMPolicy \/ SetConsoleAccess
      BY <1>2, <1>5, <2>1 DEF ConfigureBillingAPI, ConfigureAPIS, SetIAMPolicy, SetConsoleAccess
    <2>2. CASE ConfigureServiceAccount
      BY <1>2, <1>5, <2>2 DEF ConfigureServiceAccount
    <2>3. CASE DeleteServiceAccount \/ DeletePolicy
      BY <1>3, <1>5, <2>3 DEF DeleteServiceAccount, DeletePolicy
    <2>4. CASE DeleteConsoleAccess
      BY <1>4, <1>5, <2>4 DEF DeleteConsoleAccess
    <2> QED BY <2>1, <2>2, <2>3, <2>4
  <1>7. /\ \A id \in ProjectIDs : project'[id].life = project[id].life
        /\ \/ RefFails \/ RefFinish("after", rw.ref)
           \/ \E pc : Goes(pc) /\ RefGoto(pc)
    <2>1. CASE \E pc, q : Alive(q) /\ Goes(pc) /\ Configure(q, pc)
      BY <2>1, ConfigureLife
    <2> QED BY <1>6, <2>1
  <1>8. \/ rw'.pc = "Condition" /\ rw'.key = rw.key
        \/ \E pc \in ReferenceSteps \ {"idle"} : RefGoto(pc) /\ Justified(pc)
    BY <1>7, FinishEnds
  <1> QED BY <1>1, <1>7, <1>8, CloudTracking

\* createProject and deleteProject.
LEMMA CreateAndDeleteTracking ==
  ASSUME TypeInv, TrackingInv, CreationIsReliable,
         ListProjectsFails \/ ProjectFound \/ ProjectMissing \/ DeleteProject
  PROVE  TrackingInv'
  <1> DEFINE id == rw.ref.projectID
  <1>1. /\ rw.pc \notin {"idle", "Condition"} /\ UNCHANGED <<refObjs, refCache>>
    BY DEF ListProjectsFails, ProjectFound, ProjectMissing, DeleteProject, caches
  <1>2. project \in [ProjectIDs -> Project]
    BY ReferenceParts
  <1>3. ~Faulty("createLost") /\ ~Faulty("listPartial")
    BY DEF CreationIsReliable, Faulty
  <1>4. Justified("Billing") /\ {"Billing", "DeleteCredentials", "ClearProjectID"} \subseteq ReferenceSteps
    BY DEF Justified, DeletionSteps, ReferenceSteps
  <1>5. CASE ProjectFound
    BY <1>1, <1>4, <1>5, CloudTracking DEF ProjectFound, cloud
  <1>6. CASE ProjectMissing
    <2>1. rw.pc = "CreateProject" /\ id \in ProjectIDs
      BY <1>6, ReferenceParts DEF ProjectMissing, TrackingInv, StepMatchesCopy, ProjectReference,
                                  MaybeID
    <2>2. \A x \in ProjectIDs : project'[x].life = "ACTIVE" => project[x].life = "ACTIVE" \/ x = id
      BY <1>2, <1>6 DEF ProjectMissing
    <2>3. RefGoto("Billing") \/ (RefGoto("ClearProjectID") /\ Justified("ClearProjectID"))
      <3>1. \/ RefGoto("Billing")
            \/ /\ project[id].life = "none" /\ Faulty("createFails")
               /\ RefGoto("ClearProjectID") /\ UNCHANGED project
        BY <1>3, <1>6 DEF ProjectMissing
      <3> QED BY <2>1, <3>1 DEF Justified, Faulty, DeletionSteps
    <2> QED BY <1>1, <1>4, <2>1, <2>2, <2>3, CloudTracking
  <1>7. CASE DeleteProject
    <2>1. \A x \in ProjectIDs : project'[x].life = "ACTIVE" => project[x].life = "ACTIVE"
      <3>1. \/ UNCHANGED project
            \/ project' = [project EXCEPT ![id] = [NoProject EXCEPT !.life = "DELETE_REQUESTED"]]
        BY <1>7 DEF DeleteProject
      <3>2. [NoProject EXCEPT !.life = "DELETE_REQUESTED"].life # "ACTIVE"
        BY DEF NoProject
      <3> QED BY <1>2, <3>1, <3>2
    <2>2. RefFails \/ (RefGoto("DeleteCredentials") /\ Justified("DeleteCredentials"))
      <3>1. id # Nil => id \in ProjectIDs
        BY ReferenceParts DEF ProjectReference, MaybeID
      <3>2. \/ RefFails
            \/ RefGoto("DeleteCredentials") /\ (id # Nil => project'[id].life # "ACTIVE")
        BY <1>2, <1>3, <1>7, <3>1 DEF DeleteProject, Listed, NoProject
      <3> QED BY <1>7, <3>2 DEF Justified, DeletionSteps, DeleteProject
    <2> QED BY <1>1, <1>4, <2>1, <2>2, FinishEnds, CloudTracking
  <1>8. CASE ListProjectsFails
    BY <1>1, <1>4, <1>8, FinishEnds, CloudTracking DEF ListProjectsFails, cloud
  <1> QED BY <1>5, <1>6, <1>7, <1>8

\* createCredentials, deleteCredentials and the writes of the claim.
LEMMA OtherStepsTracking ==
  ASSUME TypeInv, TrackingInv,
         \/ CreateKey \/ CreateSecret \/ DeleteCredentials
         \/ EnsureClaimAvailabilityZonesSet \/ EnsureClaimProjectIDSet \/ EnsureProjectClaimReady
  PROVE  TrackingInv'
  <1>1. /\ rw.pc \notin {"idle", "Condition"} /\ UNCHANGED <<refObjs, refCache, project>>
    BY DEF CreateKey, CreateSecret, DeleteCredentials, EnsureClaimAvailabilityZonesSet,
           EnsureClaimProjectIDSet, EnsureProjectClaimReady, caches, cloud
  <1>2. \A pc \in {"CreateSecret", "ConsoleAccess", "StateReady", "Condition"} :
          pc \in ReferenceSteps \ {"idle"} /\ Justified(pc)
    BY DEF Justified, DeletionSteps, ReferenceSteps
  <1>3. rw.pc = "DeleteCredentials" =>
          "FinalizerDeleted" \in ReferenceSteps \ {"idle"} /\ Justified("FinalizerDeleted")
    BY <1>1 DEF Justified, DeletionSteps, ReferenceSteps, TrackingInv, GoneBeforeForgotten
  <1>4. \/ RefFails \/ \E out, o : RefFinish(out, o)
        \/ \E pc \in ReferenceSteps \ {"idle"} : RefGoto(pc) /\ Justified(pc)
        \/ \E cl : rw' = [rw EXCEPT !.pc = "ClaimReady", !.claim = cl]
    <2>1. CASE CreateKey \/ CreateSecret
      BY <1>2, <2>1 DEF CreateKey, CreateSecret, AfterCredentials
    <2>2. CASE DeleteCredentials
      BY <1>2, <1>3, <2>2 DEF DeleteCredentials, AfterDeleteCredentials
    <2>3. CASE EnsureClaimAvailabilityZonesSet \/ EnsureClaimProjectIDSet \/ EnsureProjectClaimReady
      BY <2>3 DEF EnsureClaimAvailabilityZonesSet, EnsureClaimProjectIDSet, EnsureProjectClaimReady
    <2> QED BY <2>1, <2>2, <2>3
  <1> QED BY <1>1, <1>4, FinishEnds, CloudTracking

-----------------------------------------------------------------------------
(* The beginning and the end of a reconcile.                               *)

\* The condition written at the end of a reconcile changes the status only.
LEMMA FinishReferenceTracking ==
  ASSUME TypeInv, TrackingInv, FinishReference
  PROVE  TrackingInv'
  <1> DEFINE r == rw.key
             new == RefStatusUpdate(ReferenceCondition(rw.ref, rw.out), ref[r])
  <1>1. rw.pc # "idle" /\ rw' = IdleReferenceWorker /\ UNCHANGED <<refCache, project>>
    BY DEF FinishReference, caches, cloud
  <1>2. rw'.pc = "idle"
    BY <1>1 DEF IdleReferenceWorker
  <1>3. CASE ReferenceConditionDue(rw.ref, rw.out)
    <2>1. PICK touched \in BOOLEAN : \E w \in Replies("refCtl", ref[r], refCur[r], new, touched) :
              /\ ref' = [ref EXCEPT ![r] = w.obj]
              /\ refCur' = [refCur EXCEPT ![r] = w.cur \ {"refCtl"}]
      BY <1>3 DEF FinishReference
    <2>2. PICK w \in Replies("refCtl", ref[r], refCur[r], new, touched) :
              /\ ref' = [ref EXCEPT ![r] = w.obj]
              /\ refCur' = [refCur EXCEPT ![r] = w.cur \ {"refCtl"}]
      BY <2>1
    <2>3. Harmless(new)
      BY <1>1, StatusIsHarmless
    <2> HIDE DEF new
    <2> QED BY <1>1, <1>2, <2>2, <2>3, WriteTracking
  <1>4. CASE ~ReferenceConditionDue(rw.ref, rw.out)
    <2>1. refCur' = [refCur EXCEPT ![r] = @ \ {"refCtl"}] /\ UNCHANGED ref
      BY <1>4 DEF FinishReference
    <2>2. r \in Refs /\ refCur \in [Refs -> RefHolders]
      BY <1>1, ReferenceParts
    <2>3. \A s \in Refs : refCur'[s] = IF s = r THEN refCur[s] \ {"refCtl"} ELSE refCur[s]
      BY <2>1, <2>2
    <2>4. CopiesAgree'
      BY <1>1, <1>2, <2>1, <2>2, <2>3 DEF TrackingInv, CopiesAgree
    <2>5. StepMatchesCopy' /\ GoneBeforeForgotten' /\ WorkerTellsTruth'
      BY <1>2 DEF StepMatchesCopy, GoneBeforeForgotten, WorkerTellsTruth, DeletionSteps
    <2>6. IDsMatch' /\ CacheTellsTruth' /\ ProjectTracked'
      BY <1>1, <1>2, <2>1 DEF TrackingInv, IDsMatch, IsCCS, CacheTellsTruth, Live, ProjectTracked
    <2> QED BY <2>4, <2>5, <2>6 DEF TrackingInv
  <1> QED BY <1>3, <1>4

\* What the worker may conclude from the copy it starts with.
LEMMA StartReferenceTracking ==
  ASSUME TypeInv, TrackingInv, CreationIsReliable, NEW r \in Refs, StartReference(r)
  PROVE  TrackingInv'
  <1> DEFINE o == refCache[r]
             pc == FirstOperation(o, claimCache[o.owner])
  <1>1. /\ rw.pc = "idle" /\ CanReadRef(r) /\ UNCHANGED <<ref, refCache, project>>
    BY DEF StartReference, caches, cloud
  <1>2. CASE UNCHANGED <<rw, refCur>>
    BY <1>1, <1>2, TrackingFrame DEF refObjs
  <1>3. CASE /\ o.exists
             /\ rw' = [pc |-> FirstOperation(o, claimCache[o.owner]), key |-> r, ref |-> o,
                       claim |-> claimCache[o.owner],
                       out |-> FirstOutcome(o, claimCache[o.owner])]
             /\ refCur' = [refCur EXCEPT ![r] =
                             IF "cache" \in @ THEN @ \cup {"refCtl"} ELSE @]
    <2>1. rw'.pc = pc /\ rw'.key = r /\ rw'.ref = o
      BY <1>3
    <2>2. /\ pc # "idle" /\ pc # "ClearProjectID"
          /\ pc \in DeletionSteps => o.deleting /\ pc = "DeletePolicy"
          /\ pc = "ProjectID" => o.projectID = Nil
          /\ pc \in {"FinalizerAdded", "CreateProject"} => o.projectID # Nil /\ ~o.deleting
          /\ pc = "CreateProject" => o.finalizer /\ ~IsCCS(o)
      BY DEF FirstOperation, SetUpOperation, ClaimReadyOperation, AfterFinalizerAdded, DeletionSteps
    <2>3. refCur \in [Refs -> RefHolders]
      BY ReferenceParts
    <2> HIDE DEF pc
    <2>4. /\ refCur'[r] = IF "cache" \in refCur[r] THEN refCur[r] \cup {"refCtl"} ELSE refCur[r]
          /\ \A s \in Refs : s # r => refCur'[s] = refCur[s]
      BY <1>3, <2>3
    <2>5. CopiesAgree'
      BY <1>1, <2>1, <2>2, <2>4 DEF TrackingInv, CopiesAgree, Current
    <2>6. StepMatchesCopy' /\ GoneBeforeForgotten'
      BY <2>1, <2>2 DEF StepMatchesCopy, GoneBeforeForgotten, DeletionSteps, IsCCS
    <2>7. IDsMatch' /\ CacheTellsTruth' /\ ProjectTracked'
      BY <1>1, <1>3, <2>1 DEF TrackingInv, IDsMatch, IsCCS, CacheTellsTruth, Live, ProjectTracked
    <2>8. ASSUME pc = "CreateProject"
          PROVE  ref[r].exists /\ ref[r].finalizer /\ ref[r].projectID = o.projectID
      <3>1. Live(o)
        BY <1>3, <2>2, <2>8 DEF Live
      <3>2. CASE "createFails" \in Faults
        <4>1. "cache" \in refCur[r]
          BY <1>1, <3>2 DEF CreationIsReliable, CanReadRef
        <4>2. o = ref[r]
          BY <4>1 DEF TrackingInv, CopiesAgree
        <4> QED BY <3>1, <4>2 DEF Live
      <3>3. CASE "createFails" \notin Faults
        BY <3>1, <3>3 DEF TrackingInv, CacheTellsTruth
      <3> QED BY <3>2, <3>3
    <2>9. ASSUME pc \in DeletionSteps
          PROVE  ~Live(ref[r]) /\ ~Live(o)
      BY <1>3, <2>2, <2>9 DEF TrackingInv, CacheTellsTruth, Live
    <2>10. WorkerTellsTruth'
      BY <1>1, <2>1, <2>8, <2>9 DEF WorkerTellsTruth, Live
    <2> QED BY <2>5, <2>6, <2>7, <2>10 DEF TrackingInv
  <1> QED BY <1>2, <1>3 DEF StartReference

\* Every step of the reference controller keeps TrackingInv.
LEMMA ReferenceStepTracking ==
  ASSUME TypeInv, TrackingInv, CreationIsReliable, ReferenceStep
  PROVE  TrackingInv'
  <1>1. CASE EnsureProjectID
    <2>1. \/ \E id \in ProjectIDs : rw.pc = "ProjectID" /\ SaveRef([rw.ref EXCEPT !.projectID = id])
          \/ rw.pc = "ProjectID" /\ RefFails /\ UNCHANGED refObjs
      BY <1>1 DEF EnsureProjectID
    <2>2. UNCHANGED <<refCache, project>>
      BY <1>1 DEF EnsureProjectID, caches
    <2> QED BY <2>1, <2>2, RefWritersTracking, FinishEnds, CloudTracking
  <1>2. CASE HandleAvailabilityZonesError
    <2>1. \/ \E o : \E touched, ok \in BOOLEAN : \E out :
               /\ rw.pc = "AvailabilityZones"
               /\ UpdateRefStatus(rw.key, o, touched, ok) /\ RefFinish(out, o)
          \/ rw.pc = "AvailabilityZones" /\ RefFails /\ UNCHANGED refObjs
      BY <1>2 DEF HandleAvailabilityZonesError
    <2>2. UNCHANGED <<refCache, project>>
      BY <1>2 DEF HandleAvailabilityZonesError, caches, cloud
    <2> QED BY <2>1, <2>2, RefWritersTracking, FinishEnds, CloudTracking
  <1>3. CASE \/ EnsureProjectReferenceInitialized \/ EnsureProjectReferenceStatusCreating
             \/ EnsureServiceAccountName \/ EnsureFinalizerAdded \/ EnsureStateReady
             \/ ProjectInactive \/ ClearProjectID \/ EnsureFinalizerDeleted
    <2>1. UNCHANGED <<refCache, project>>
      BY <1>3 DEF EnsureProjectReferenceInitialized, EnsureProjectReferenceStatusCreating,
             EnsureServiceAccountName, EnsureFinalizerAdded, EnsureStateReady, ProjectInactive,
             ClearProjectID, EnsureFinalizerDeleted, caches, cloud
    <2> QED BY <1>3, <2>1, RefWritersTracking
  <1> QED BY <1>1, <1>2, <1>3, ConfigurersTracking, CreateAndDeleteTracking, OtherStepsTracking,
             FinishReferenceTracking DEF ReferenceStep

-----------------------------------------------------------------------------
(* The manager and the environment.                                        *)

\* The informers, the beginnings of reconciles and restarts keep TrackingInv.
LEMMA ManagerTracking ==
  ASSUME TypeInv, TrackingInv, CreationIsReliable, Manager
  PROVE  TrackingInv'
  <1>1. ASSUME NEW r \in Refs, SyncRef(r)
        PROVE  TrackingInv'
    <2>1. /\ UNCHANGED <<ref, rw, project>> /\ "cache" \notin refCur[r]
          /\ refCache' = [refCache EXCEPT ![r] = ref[r]]
          /\ refCur' = [refCur EXCEPT ![r] = @ \cup {"cache"}]
      BY <1>1 DEF SyncRef, workers, cloud
    <2>2. refCache \in [Refs -> ProjectReference] /\ refCur \in [Refs -> RefHolders]
          /\ (rw.pc # "idle" => rw.key \in Refs)
      BY DEF TypeInv, TypeOK, KeysOK, RefHolders
    <2>3. /\ refCache'[r] = ref[r] /\ refCur'[r] = refCur[r] \cup {"cache"}
          /\ \A s \in Refs : s # r => refCache'[s] = refCache[s] /\ refCur'[s] = refCur[s]
      BY <2>1, <2>2
    <2>4. CopiesAgree'
      BY <2>1, <2>2, <2>3 DEF TrackingInv, CopiesAgree, Current
    <2>5. StepMatchesCopy' /\ GoneBeforeForgotten' /\ ProjectTracked'
      BY <2>1 DEF TrackingInv, StepMatchesCopy, GoneBeforeForgotten, IsCCS, ProjectTracked
    <2>6. IDsMatch'
      BY <2>1, <2>3 DEF TrackingInv, IDsMatch, IsCCS
    <2>7. CacheTellsTruth'
      BY <2>1, <2>3 DEF TrackingInv, CacheTellsTruth, Live
    <2>8. WorkerTellsTruth'
      BY <2>1, <2>2, <2>3 DEF TrackingInv, WorkerTellsTruth, Live, DeletionSteps
    <2> QED BY <2>4, <2>5, <2>6, <2>7, <2>8 DEF TrackingInv
  <1>2. CASE Crash
    <2>1. /\ rw' = IdleReferenceWorker /\ refCache' = ref /\ UNCHANGED <<ref, project>>
          /\ refCur' = [r \in Refs |-> {"cache"}]
      BY <1>2 DEF Crash, cloud
    <2>2. rw'.pc = "idle"
      BY <2>1 DEF IdleReferenceWorker
    <2>3. CopiesAgree'
      BY <2>1, <2>2 DEF TrackingInv, CopiesAgree
    <2>4. StepMatchesCopy' /\ GoneBeforeForgotten' /\ WorkerTellsTruth'
      BY <2>2 DEF StepMatchesCopy, GoneBeforeForgotten, WorkerTellsTruth, DeletionSteps
    <2>5. IDsMatch' /\ CacheTellsTruth' /\ ProjectTracked'
      BY <2>1, <2>2 DEF TrackingInv, IDsMatch, IsCCS, CacheTellsTruth, Live, ProjectTracked
    <2> QED BY <2>3, <2>4, <2>5 DEF TrackingInv
  <1>3. CASE UNCHANGED <<refObjs, refCache, rw, project>>
    BY <1>3, TrackingFrame
  <1>4. ASSUME NEW c \in Claims, StartClaim(c) \/ SyncClaim(c) \/ SyncSecret(c)
        PROVE  UNCHANGED <<refObjs, refCache, rw, project>>
    BY <1>4 DEF StartClaim, SyncClaim, SyncSecret, caches, cloud, workers
  <1>5. Resync => UNCHANGED <<refObjs, refCache, rw, project>>
    BY DEF Resync, caches, cloud, workers
  <1> QED BY <1>1, <1>2, <1>3, <1>4, <1>5, StartReferenceTracking DEF Manager

\* Users and administrators keep TrackingInv.
LEMMA EnvironmentTracking ==
  ASSUME TypeInv, TrackingInv, Environment
  PROVE  TrackingInv'
  <1>1. ASSUME NEW r \in Refs, AdminDeletesReference(r)
        PROVE  TrackingInv'
    BY <1>1, DeleteTracking DEF AdminDeletesReference, caches, workers, cloud
  <1>2. ASSUME NEW id \in ProjectIDs, AdminDeletesProject(id)
        PROVE  TrackingInv'
    <2>1. /\ UNCHANGED <<refObjs, refCache, rw>>
          /\ project' = [project EXCEPT ![id] = [NoProject EXCEPT !.life = "DELETE_REQUESTED"]]
      BY <1>2 DEF AdminDeletesProject, caches, workers
    <2>2. [NoProject EXCEPT !.life = "DELETE_REQUESTED"].life # "ACTIVE"
      BY DEF NoProject
    <2>3. project \in [ProjectIDs -> Project]
      BY ReferenceParts
    <2>4. \A x \in ProjectIDs : project'[x].life = "ACTIVE" => project[x].life = "ACTIVE"
      BY <2>1, <2>2, <2>3
    <2>5. CopiesAgree' /\ StepMatchesCopy' /\ IDsMatch'
      BY <2>1 DEF TrackingInv, CopiesAgree, Current, StepMatchesCopy, IDsMatch, IsCCS, refObjs
    <2>6. CacheTellsTruth' /\ WorkerTellsTruth'
      BY <2>1 DEF TrackingInv, CacheTellsTruth, WorkerTellsTruth, Live, refObjs
    <2>7. rw.pc = "ClearProjectID" \/ rw.ref.projectID # Nil => rw.ref.projectID \in ProjectIDs
      BY ReferenceParts DEF TrackingInv, StepMatchesCopy, ProjectReference, MaybeID
    <2>8. GoneBeforeForgotten'
      BY <2>1, <2>4, <2>7 DEF TrackingInv, GoneBeforeForgotten, IsCCS
    <2>9. ProjectTracked'
      BY <2>1, <2>4 DEF TrackingInv, ProjectTracked, refObjs
    <2> QED BY <2>5, <2>6, <2>8, <2>9 DEF TrackingInv
  <1>3. ASSUME NEW c \in Claims,
               CreateClaim(c) \/ DeleteClaim(c) \/ EditClaim(c) \/ SetRegion(c) \/ SetCCSSecret(c)
        PROVE  UNCHANGED <<refObjs, refCache, rw, project>>
    BY <1>3 DEF CreateClaim, DeleteClaim, EditClaim, SetRegion, SetCCSSecret, caches, cloud, workers
  <1>4. Stabilise => UNCHANGED <<refObjs, refCache, rw, project>>
    BY DEF Stabilise, caches, cloud, workers
  <1> QED BY <1>1, <1>2, <1>3, <1>4, TrackingFrame DEF Environment

-----------------------------------------------------------------------------
\* TrackingInv is inductive relative to TypeInv.
LEMMA TrackingInductive ==
  CreationIsReliable /\ TypeInv /\ TrackingInv /\ [Next]_vars => TrackingInv'
  <1> SUFFICES ASSUME CreationIsReliable, TypeInv, TrackingInv, [Next]_vars
               PROVE  TrackingInv'
    OBVIOUS
  <1>1. CASE Next
    BY <1>1, ClaimStepTracking, ReferenceStepTracking, ManagerTracking, EnvironmentTracking DEF Next
  <1>2. CASE UNCHANGED vars
    BY <1>2, TrackingFrame DEF vars, caches, cloud, workers
  <1> QED BY <1>1, <1>2

\* What the copies of the caches and of the worker may be taken for, in every
\* reachable state: a holder of the stored version has it, a live copy stands
\* for a reference that still has the finalizer and the ID, a worker that
\* cleans up has no live version behind it, and an ID is given up, or a
\* finalizer removed, only after the project is not active.
THEOREM CopiesCanBeTrusted == ASSUME CreationIsReliable PROVE Spec => []TrackingInv
  <1>1. Init => TypeInv /\ TrackingInv
    BY InitTypeInv, InitTracking
  <1>2. TypeInv /\ TrackingInv /\ [Next]_vars => (TypeInv /\ TrackingInv)'
    BY TypeInvInductive, TrackingInductive
  <1> QED BY <1>1, <1>2, PTL DEF Spec

\* Unless a creation that GCP carried out is reported as failed, projects.list
\* leaves out a project, or clearProjectID meets a cache that is behind, every
\* active project that the operator made belongs to a reference that names it
\* and holds the finalizer, whatever else happens: lagging caches, failing and
\* lost requests, restarts, deletions by users and administrators.
THEOREM ProjectsAreTracked == ASSUME CreationIsReliable PROVE Spec => []ProjectTracked
  <1>1. Spec => []TrackingInv
    BY CopiesCanBeTrusted
  <1>2. TrackingInv => ProjectTracked
    BY DEF TrackingInv
  <1> QED BY <1>1, <1>2, PTL
=============================================================================
