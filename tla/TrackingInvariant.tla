------------------------- MODULE TrackingInvariant -------------------------
(***************************************************************************)
(* The inductive invariants behind the theorems of TrackingProofs: type    *)
(* correctness and ProjectTracked.                                         *)
(***************************************************************************)
EXTENDS GcpProjectOperator

\* A busy worker works on a claim or reference that has a name, every reference
\* there is belongs to a claim, and no copy of one that is being deleted is sent
\* back by the operations that set it up: the answer could be an empty object.
KeysOK ==
  /\ cw.pc # "idle" => cw.key \in Claims
  /\ rw.pc # "idle" => rw.key \in Refs /\ rw.ref.owner \in Claims
  /\ \A r \in Refs : /\ ref[r].exists => ref[r].owner \in Claims
                     /\ refCache[r].exists => refCache[r].owner \in Claims
  /\ rw.pc \in {"ProjectID", "ServiceAccountName", "FinalizerAdded", "CreateProject",
                "ClearProjectID"} => ~rw.ref.deleting

\* Every variable has its type, and the keys that the workers and references
\* hold lead to objects.
TypeInv == TypeOK /\ KeysOK

-----------------------------------------------------------------------------
\* The conditions under which no project is ever lost sight of: a creation that
\* GCP reports as failed has failed, projects.list returns every project, and
\* the ID that clearProjectID gives up is not one that a cache which is behind
\* still shows.
CreationIsReliable ==
  /\ {"createLost", "listPartial"} \cap Faults = {}
  /\ ~({"createFails", "cacheLag"} \subseteq Faults)

\* A reference that holds its finalizer and is not being deleted: the version
\* of it that lets a worker create the project.
Live(o) == o.exists /\ o.finalizer /\ ~o.deleting

\* A holder of the stored version has that version.  Only the worker that is
\* busy with a reference counts as a holder.  What is being deleted still has
\* its finalizer.
CopiesAgree ==
  /\ \A r \in Refs : "cache" \in refCur[r] => refCache[r] = ref[r]
  /\ \A r \in Refs : "refCtl" \in refCur[r] => rw.pc # "idle" /\ rw.key = r
  /\ rw.pc \notin {"idle", "Condition"} /\ Current(ref[rw.key], refCur[rw.key], "refCtl") =>
       rw.ref = ref[rw.key]
  /\ \A r \in Refs : ref[r].deleting => ref[r].finalizer

\* What ReconcileHandler established about the copy before it came to this step.
StepMatchesCopy ==
  /\ rw.pc = "ProjectID" => rw.ref.projectID = Nil
  /\ rw.pc \in {"FinalizerAdded", "CreateProject", "ClearProjectID"} => rw.ref.projectID # Nil
  /\ rw.pc \in {"CreateProject", "ClearProjectID"} => ~IsCCS(rw.ref)
  /\ rw.pc \in DeletionSteps => rw.ref.deleting
  /\ rw.pc = "DeleteConsoleAccess" => IsCCS(rw.ref)

\* The reference of a CCS customer has the customer's project ID.  A reference
\* with the finalizer has a project ID, unless creations are refused.
IDsMatch ==
  /\ \A r \in Refs :
       /\ "createFails" \notin Faults /\ ref[r].exists /\ ref[r].finalizer =>
            ref[r].projectID # Nil
       /\ ref[r].exists /\ IsCCS(ref[r]) => ref[r].projectID \in CCSProjectIDs
       /\ refCache[r].exists /\ IsCCS(refCache[r]) => refCache[r].projectID \in CCSProjectIDs
  /\ rw.pc \notin {"idle", "Condition"} /\ IsCCS(rw.ref) => rw.ref.projectID \in CCSProjectIDs

\* However far the cache is behind, a live copy in it stands for a reference
\* that still has the finalizer and the same ID, unless creations are refused;
\* and one that is being deleted has not come back.
CacheTellsTruth ==
  \A r \in Refs :
    /\ "createFails" \notin Faults /\ Live(refCache[r]) =>
         ref[r].exists /\ ref[r].finalizer /\ ref[r].projectID = refCache[r].projectID
    /\ refCache[r].exists /\ refCache[r].deleting => ~ref[r].exists \/ ref[r].deleting

\* The same for the copy of a worker that is about to create the project; and
\* while a worker cleans up, neither the store nor the cache has a live version.
WorkerTellsTruth ==
  /\ rw.pc = "CreateProject" =>
       /\ ref[rw.key].exists /\ ref[rw.key].finalizer
       /\ ref[rw.key].projectID = rw.ref.projectID
  /\ rw.pc \in DeletionSteps => ~Live(ref[rw.key]) /\ ~Live(refCache[rw.key])

\* An ID is given up only if there is no such project, and after deleteProject
\* the project of the reference is not active any more.
GoneBeforeForgotten ==
  /\ rw.pc = "ClearProjectID" =>
       "createFails" \in Faults /\ project[rw.ref.projectID].life # "ACTIVE"
  /\ rw.pc \in {"DeleteCredentials", "FinalizerDeleted"} /\ ~IsCCS(rw.ref)
       /\ rw.ref.projectID # Nil => project[rw.ref.projectID].life # "ACTIVE"

\* The reasons, taken together, why no reconcile of a reference on a stale copy
\* makes or keeps a project that no stored reference leads back to.
TrackingInv ==
  /\ CopiesAgree
  /\ StepMatchesCopy
  /\ IDsMatch
  /\ CacheTellsTruth
  /\ WorkerTellsTruth
  /\ GoneBeforeForgotten
  /\ ProjectTracked
=============================================================================
