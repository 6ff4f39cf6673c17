------------------------- MODULE ProvisionInvariant -------------------------
(***************************************************************************)
(* The inductive invariant behind the theorem of ProvisionProofs: a claim  *)
(* that is Ready has what the README promises (ReadyIsProvisioned).        *)
(***************************************************************************)
EXTENDS CleanupInvariant

\* The conditions under which the Secret of a claim opens the project that its
\* reference names: nobody else deletes projects or references, and the ID that
\* clearProjectID gives up is not one that a cache which is behind still shows.
ProvisioningIsReliable ==
  /\ {"adminDeletes", "refDeleted"} \cap Faults = {}
  /\ "cacheLag" \in Faults => {"createFails", "createLost"} \cap Faults = {}

\* clearProjectID never runs.
IDsAreKept == {"createFails", "createLost"} \cap Faults = {}

-----------------------------------------------------------------------------
(* Which reference names which project.                                    *)

\* The reference r, the cache's version of it or the worker's has this ID.
Names(r, id) ==
  \/ ref[r].exists /\ ref[r].projectID = id
  \/ refCache[r].exists /\ refCache[r].projectID = id
  \/ rw.pc \notin {"idle", "Condition"} /\ rw.key = r /\ rw.ref.projectID = id

\* An ID is in use once it was issued, and by one reference only.
NamedOnce ==
  \A id \in ProjectIDs : \A r \in Refs :
    Names(r, id) => id \in issued /\ \A s \in Refs : Names(s, id) => r = s

\* An ID that is not given up stays with the finalizer, so that a live copy has
\* the ID that is stored, however far the cache is behind.
IDsStay ==
  /\ rw.pc = "FinalizerAdded" => rw.ref.projectID # Nil
  /\ IDsAreKept =>
       /\ rw.pc # "ClearProjectID"
       /\ \A r \in Refs :
            /\ Kept(r) => ref[r].projectID # Nil
            /\ Live(refCache[r]) => ref[r].projectID = refCache[r].projectID

-----------------------------------------------------------------------------
(* What the worker of the references has done so far.                      *)

HasBilling(c, p) == c \in CCS \/ (p.life = "ACTIVE" /\ p.billing)

\* What EnsureProjectCreated and EnsureProjectConfigured do for claim c.
Configured(c, p) == HasBilling(c, p) /\ p.life = "ACTIVE" /\ p.apis /\ p.sa /\ p.bound

\* Each step finds what the ones before it were to do, in the project that the
\* stored reference names.
SetUpSoFar ==
  LET p == project[rw.ref.projectID]
  IN  rw.pc \in SetUpSteps =>
        /\ ~rw.ref.deleting /\ rw.ref.projectID # Nil
        /\ rw.ref.projectID = ref[rw.key].projectID
        /\ rw.pc \notin {"CreateProject", "ClearProjectID", "Billing"} =>
             HasBilling(rw.ref.owner, p)
        /\ rw.pc \in {"ServiceAccount", "Policy"} => p.life = "ACTIVE" /\ p.apis
        /\ rw.pc = "Policy" => p.sa
        /\ rw.pc \in {"Credentials", "CreateSecret", "ConsoleAccess", "StateReady"} =>
             Configured(rw.ref.owner, p)
        /\ rw.pc \in {"ConsoleAccess", "StateReady"} =>
             secret[rw.ref.owner] = rw.ref.projectID
        /\ rw.pc = "ClearProjectID" => ref[rw.key].deleting \/ secret[rw.ref.owner] = Nil

-----------------------------------------------------------------------------
(* What a Secret, a reference and a claim stand for.                       *)

\* The Secret of claim c opens the project that its reference names; until the
\* reference is being deleted, the project is configured.
SecretOpensProject(c) ==
  LET o == ref[RefName(c)]
  IN  secret[c] # Nil =>
        /\ o.projectID = secret[c]
        /\ o.deleting \/ Configured(c, project[secret[c]])

\* A reference that is Ready has a Secret; so does one that the cache shows as
\* Ready, or one that is left for its condition and may still be stored.
ReadyReferenceHasSecret(c) ==
  LET r == RefName(c)
      o == refCache[r]
  IN  /\ ref[r].exists /\ ref[r].state = "Ready" => ref[r].deleting \/ secret[c] # Nil
      /\ o.exists /\ o.state = "Ready" /\ ~o.deleting =>
           \/ secret[c] # Nil /\ secret[c] = o.projectID
           \/ ~ref[r].exists \/ ref[r].deleting
      /\ rw.pc = "Condition" /\ rw.key = r /\ Current(ref[r], refCur[r], "refCtl")
           /\ rw.ref.state = "Ready" => ref[r].deleting \/ secret[c] # Nil

\* The steps of EnsureProjectClaimReady write what is true of a claim that is
\* still the one that was read.
ClaimIsReadyFor(c) ==
  rw.pc \in ClaimReadySteps /\ rw.ref.owner = c /\ Current(claim[c], claimCur[c], "refCtl")
    /\ ~claim[c].deleting =>
      /\ secret[c] # Nil /\ secret[c] = rw.ref.projectID
      /\ rw.pc \in {"ClaimProjectID", "ClaimReady"} => claim[c].zones
      /\ rw.pc = "ClaimReady" => claim[c].projectID # Nil

\* A claim has the ID of the project that its Secret opens, and is Ready only
\* with the ID and the zones.  No copy makes it Ready again.
ClaimTellsTruth(c) ==
  /\ claim[c].projectID # Nil /\ ~claim[c].deleting => claim[c].projectID = secret[c]
  /\ claim[c].state = "Ready" /\ ~claim[c].deleting =>
       claim[c].zones /\ claim[c].projectID # Nil
  /\ BusyWith(c) /\ cw.pc = "Condition" /\ Current(claim[c], claimCur[c], "claimCtl")
       /\ cw.obj.state = "Ready" => claim[c].state = "Ready"

\* From the first request to GCP to the Ready claim, what the operations of the
\* two controllers have stored so far is true of one and the same project.
ProvisionInv ==
  /\ NamedOnce
  /\ IDsStay
  /\ SetUpSoFar
  /\ \A c \in Claims : /\ SecretOpensProject(c)
                       /\ ReadyReferenceHasSecret(c)
                       /\ ClaimIsReadyFor(c)
                       /\ ClaimTellsTruth(c)
=============================================================================
