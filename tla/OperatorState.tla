--------------------------- MODULE OperatorState ---------------------------
(***************************************************************************)
(* The state that the controllers of gcp-project-operator share: the       *)
(* ProjectClaims, ProjectReferences and Secrets in the Kubernetes API      *)
(* server, the informer caches and work queues of the manager, the GCP     *)
(* projects, and the one worker each controller has.                       *)
(*                                                                         *)
(* What is abstracted:                                                     *)
(*  - An object is a record with one field per fact the code branches on.  *)
(*    An absent object is a record whose "exists" field is FALSE.          *)
(*  - resourceVersion is not a counter.  claimCur[c] and refCur[r] are the *)
(*    sets of holders (the informer cache, the workers) whose copy is of   *)
(*    the stored version; a write is accepted only from such a holder.     *)
(*  - Kubernetes names are sequences of their dash-separated parts, so     *)
(*    that joining two names with a dash is concatenation.                 *)
(*  - A Secret's payload is the ID of the project its key opens.           *)
(*                                                                         *)
(* A definition marked "Variant" is not part of the model: it is the next  *)
(* definition with a fault in it, which the properties have to notice.     *)
(***************************************************************************)
EXTENDS Sequences

CONSTANTS
  Claims,      \* the names (namespace and name) of the ProjectClaims
  CCS,         \* the claims of customers who bring their own project
  CCSProject,  \* the project each of them brings
  ProjectIDs,  \* the IDs of GCP projects
  Nil,         \* the empty ID, and the key of an idle worker
  Faults       \* what may go wrong in this instance

\* Everything that may disturb the operator.  A run names the ones it allows.
AllFaults ==
  { "cacheLag",     \* a worker may read an informer cache that is behind
    "secretLag",    \* the same, for the cache of Secrets
    "apiError",     \* a request to the API server may fail without effect
    "replyLost",    \* a request may be applied and still return an error
    "gcpError",     \* a GCP call other than project creation may fail
    "createFails",  \* GCP may refuse to create a project
    "createLost",   \* GCP may create a project and the call return an error
    "listPartial",  \* projects.list may not return an existing project
    "accountLate",  \* a service account that was created may not be found yet
    "computeLate",  \* the Compute API may not be usable yet
    "crash",        \* the operator may be restarted
    "resync",       \* the informers replay all the objects
    "claimDeleted", \* the user may delete a ProjectClaim
    "edit",         \* the user may edit the spec of a ProjectClaim
    "config",       \* a region may be disabled or enabled
    "adminDeletes", \* someone may delete a GCP project
    "refDeleted",   \* someone may delete a ProjectReference
    "ccsDeleted",   \* the customer may delete the CCS Secret
    "stabilises" }  \* from some moment on, none of the above happens

ASSUME ClaimsAssumption ==
  Claims \subseteq [ns : Seq(STRING), name : Seq(STRING)]
ASSUME CCSAssumption == CCS \subseteq Claims /\ CCSProject \in [CCS -> ProjectIDs]
ASSUME NilAssumption == Nil \notin ProjectIDs /\ Nil \notin Claims
ASSUME FaultsAssumption == Faults \subseteq AllFaults

VARIABLES
  claim,       \* the stored ProjectClaims
  claimCur,    \* the holders of the stored version of each
  claimCache,  \* the informer cache of ProjectClaims, shared by the controllers
  claimQ,      \* the work queue of the ProjectClaim controller
  ref,         \* the stored ProjectReferences
  refCur,
  refCache,
  refQ,
  secret,      \* the credentials Secret of each claim: the project it opens
  secretCache, \* which of these Secrets the informer cache holds
  ccsSecret,   \* the Secret each CCS customer provides
  project,     \* the projects in GCP
  issued,      \* the IDs that GenerateProjectID has returned, and CCS IDs
  disabled,    \* the claims whose region is in the config map's DisabledRegions
  stable,      \* TRUE once disturbances are over
  cw,          \* the worker of the ProjectClaim controller
  rw           \* the worker of the ProjectReference controller

claimObjs == <<claim, claimCur>>
refObjs == <<ref, refCur>>
caches == <<claimCache, refCache, secretCache>>
queues == <<claimQ, refQ>>
secrets == <<secret, ccsSecret>>
cloud == <<project, issued>>
world == <<disabled, stable>>
workers == <<cw, rw>>
vars == <<claimObjs, refObjs, caches, queues, secrets, cloud, world, workers>>

-----------------------------------------------------------------------------
(* Objects.                                                                *)

MaybeID == ProjectIDs \cup {Nil}

\* Variant: the namespace is not part of the reference's name.
RefNameNoNamespace(c) == c.name

\* newMatchingProjectReference names the reference namespace + "-" + name.
RefName(c) == c.ns \o c.name

Refs == {RefName(c) : c \in Claims}

ClaimStatus == {"", "Pending", "PendingProject", "Ready", "Error"}
ReferenceState == {"", "Creating", "Ready", "Error"}

\* A condition is absent, or was last set with the reason of a failure
\* (status True) or with that reason and "Resolved" (status False).
Condition == {"none", "True", "Resolved"}

\* "valid": the secret references are in the claim's own namespace.
\* "link", "zones", "projectID": the spec fields that the operator fills.
\* "inited": status.conditions is not nil.
\* "invalid", "error": the conditions of types Invalid and Error.
ProjectClaim ==
  [exists : BOOLEAN, deleting : BOOLEAN, finalizer : BOOLEAN,
   valid : BOOLEAN, link : BOOLEAN, zones : BOOLEAN, projectID : MaybeID,
   inited : BOOLEAN, invalid : Condition, error : Condition,
   state : ClaimStatus]

\* "owner": spec.projectClaimCRLink.  "saName": spec.serviceAccountName is set.
\* "compute": the status of the condition of type ComputeApiReady.
ProjectReference ==
  [exists : BOOLEAN, deleting : BOOLEAN, finalizer : BOOLEAN,
   owner : Claims \cup {Nil}, projectID : MaybeID, saName : BOOLEAN,
   inited : BOOLEAN, error : Condition, compute : {"none", "True", "False"},
   state : ReferenceState]

NoClaim ==
  [exists |-> FALSE, deleting |-> FALSE, finalizer |-> FALSE,
   valid |-> TRUE, link |-> FALSE, zones |-> FALSE, projectID |-> Nil,
   inited |-> FALSE, invalid |-> "none", error |-> "none", state |-> ""]

NoRef ==
  [exists |-> FALSE, deleting |-> FALSE, finalizer |-> FALSE,
   owner |-> Nil, projectID |-> Nil, saName |-> FALSE,
   inited |-> FALSE, error |-> "none", compute |-> "none", state |-> ""]

\* A GCP project: its lifecycleState, whether the billing account is linked,
\* GCP has accepted to enable the required APIs, the service account exists,
\* the account has its roles, and the SRE groups have console access.
Project ==
  [life : {"none", "ACTIVE", "DELETE_REQUESTED"}, billing : BOOLEAN,
   apis : BOOLEAN, sa : BOOLEAN, bound : BOOLEAN, console : BOOLEAN]

NoProject ==
  [life |-> "none", billing |-> FALSE, apis |-> FALSE, sa |-> FALSE,
   bound |-> FALSE, console |-> FALSE]

CCSSecret == [exists : BOOLEAN, deleting : BOOLEAN, finalizer : BOOLEAN]

-----------------------------------------------------------------------------
(* Results of an operation (OperationResult and error) as ReconcileHandler  *)
(* turns them into a ctrl.Result.                                          *)

\* "stop": the chain ended and nothing is requeued.  "error": an error is
\* returned.  "after": RequeueAfter with a positive delay.  "now": Requeue().
Outcome == {"stop", "error", "after", "now"}

\* Variant: delays are dropped as well.
RequeuedOnError(out) == out = "error"

\* ReconcileHandler returns ctrl.Result{RequeueAfter: result.RequeueDelay}.
\* Requeue() has no delay, so that result asks controller-runtime for nothing.
Requeued(out) == out \in {"error", "after"}

\* RequeueOnErrorOrStop
ErrorOrStop(ok) == IF ok THEN "stop" ELSE "error"

-----------------------------------------------------------------------------
(* The API server and the caches.                                          *)

Faulty(f) == f \in Faults /\ ~stable

\* The API server removes an object that is being deleted once it has no
\* finalizer left.
Collected(o, none) == IF o.deleting /\ ~o.finalizer THEN none ELSE o

\* Delete: an object without a finalizer goes at once, another one is marked.
Deleted(o, none) == Collected([o EXCEPT !.deleting = TRUE], none)

\* A read of the cache by a worker: without lag, the cache has caught up.
CanReadClaim(c) == "cache" \in claimCur[c] \/ "cacheLag" \in Faults
CanReadRef(r) == "cache" \in refCur[r] \/ "cacheLag" \in Faults
CanFindRef(r) == refCache[r].exists = ref[r].exists \/ "cacheLag" \in Faults
CanReadSecret(c) == secretCache[c] = (secret[c] # Nil) \/ "secretLag" \in Faults

\* Optimistic concurrency: a write is accepted from a holder of the version.
Current(old, cur, h) == old.exists /\ h \in cur

\* What a write of new over old by holder h may lead to: what the caller is
\* told, the object stored and the holders of its version.  "touched" says
\* that a timestamp changed even if no modelled field did: a write that
\* changes nothing keeps the resourceVersion.
Replies(h, old, cur, new, touched) ==
  LET changed == touched \/ new # old
  IN  (IF Current(old, cur, h)
       THEN {[ok |-> TRUE, obj |-> new, cur |-> IF changed THEN {h} ELSE cur]}
       ELSE {}) \cup
      (IF ~Current(old, cur, h) \/ Faulty("apiError")
       THEN {[ok |-> FALSE, obj |-> old, cur |-> cur]}
       ELSE {}) \cup
      (IF Current(old, cur, h) /\ Faulty("replyLost")
       THEN {[ok |-> FALSE, obj |-> new, cur |-> IF changed THEN {} ELSE cur]}
       ELSE {})

\* client.Update of a ProjectClaim or a ProjectReference: the status in the
\* request is ignored.
ClaimUpdate(o, old) ==
  Collected([o EXCEPT !.inited = old.inited, !.invalid = old.invalid,
                      !.error = old.error, !.state = old.state], NoClaim)
RefUpdate(o, old) ==
  Collected([o EXCEPT !.inited = old.inited, !.error = old.error,
                      !.compute = old.compute, !.state = old.state], NoRef)

\* client.Status().Update: only the status in the request is stored.
ClaimStatusUpdate(o, old) ==
  [old EXCEPT !.inited = o.inited, !.invalid = o.invalid, !.error = o.error,
              !.state = o.state]
RefStatusUpdate(o, old) ==
  [old EXCEPT !.inited = o.inited, !.error = o.error, !.compute = o.compute,
              !.state = o.state]

\* client.Update of ProjectClaim c, which a worker h has edited to o.
UpdateClaim(h, c, o, ok) ==
  \E w \in Replies(h, claim[c], claimCur[c], ClaimUpdate(o, claim[c]), FALSE) :
    /\ w.ok = ok
    /\ claim' = [claim EXCEPT ![c] = w.obj]
    /\ claimCur' = [claimCur EXCEPT ![c] = w.cur]

\* client.Status().Update of ProjectClaim c.  The CRD requires conditions, so
\* a status in which they are nil is refused.
UpdateClaimStatus(h, c, o, touched, ok) ==
  IF o.inited
  THEN \E w \in Replies(h, claim[c], claimCur[c],
                        ClaimStatusUpdate(o, claim[c]), touched) :
         /\ w.ok = ok
         /\ claim' = [claim EXCEPT ![c] = w.obj]
         /\ claimCur' = [claimCur EXCEPT ![c] = w.cur]
  ELSE ~ok /\ UNCHANGED claimObjs

\* The same two for the ProjectReference r and the worker of its controller.
UpdateRef(r, o, ok) ==
  \E w \in Replies("refCtl", ref[r], refCur[r], RefUpdate(o, ref[r]), FALSE) :
    /\ w.ok = ok
    /\ ref' = [ref EXCEPT ![r] = w.obj]
    /\ refCur' = [refCur EXCEPT ![r] = w.cur]

UpdateRefStatus(r, o, touched, ok) ==
  \E w \in Replies("refCtl", ref[r], refCur[r], RefStatusUpdate(o, ref[r]), touched) :
    /\ w.ok = ok
    /\ ref' = [ref EXCEPT ![r] = w.obj]
    /\ refCur' = [refCur EXCEPT ![r] = w.cur]

\* What a holder has after it is told that its update was stored: the answer
\* replaces the object in memory.  After an error it keeps its edits.
Answer(ok, stored, edited) == IF ok THEN stored ELSE edited
=============================================================================
