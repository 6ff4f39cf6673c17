-------------------------- MODULE CleanupInvariant --------------------------
(***************************************************************************)
(* The inductive invariants behind the theorems of CleanupProofs: the      *)
(* finalizer of a reference outlives what the operator makes for its claim *)
(* (NothingLeftBehind), and the customer's Secret outlives what it makes   *)
(* in the customer's project (CCSSecretHeld).                              *)
(***************************************************************************)
EXTENDS ClaimInvariant

\* Reference r is there and cannot go: it holds the finalizer.
Kept(r) == ref[r].exists /\ ref[r].finalizer

\* The steps of EnsureProjectCreated, EnsureProjectConfigured and
\* EnsureStateReady.
SetUpSteps ==
  {"CreateProject", "ClearProjectID", "Billing", "APIs", "ServiceAccount", "Policy",
   "Credentials", "CreateSecret", "ConsoleAccess", "StateReady"}

\* However far the cache is behind, a live copy stands for a reference that
\* still has its finalizer, and one that is being deleted has not come back:
\* what a worker sets up or cleans up, it does under the finalizer.
UnderFinalizer ==
  /\ \A r \in Refs :
       /\ Live(refCache[r]) => Kept(r)
       /\ refCache[r].exists /\ refCache[r].deleting => ~ref[r].exists \/ ref[r].deleting
  /\ rw.pc \in SetUpSteps => Kept(rw.key)
  /\ rw.pc \in DeletionSteps => ~Live(ref[rw.key]) /\ ~Live(refCache[rw.key])

-----------------------------------------------------------------------------
(* Whose project is whose.                                                 *)

\* No two customers bring the same project.
ProjectsAreDistinct == \A c, d \in CCS : CCSProject[c] = CCSProject[d] => c = d

\* The ID in a reference is the customer's, or none that a customer brought.
OwnID(o) ==
  IF IsCCS(o) THEN o.projectID = CCSProject[o.owner] ELSE o.projectID \notin CCSProjectIDs

\* References, cached ones and the worker's included, have IDs of their own kind,
\* and the steps that make or delete projects are for those of the operator.
IDsAreOwn ==
  /\ CCSProjectIDs \subseteq issued
  /\ \A r \in Refs : /\ ref[r].exists => OwnID(ref[r])
                     /\ refCache[r].exists => OwnID(refCache[r])
  /\ rw.pc \notin {"idle", "Condition"} => OwnID(rw.ref)
  /\ rw.pc = "ProjectID" => rw.ref.projectID = Nil
  /\ rw.pc \in {"CreateProject", "ClearProjectID", "DeleteProject"} => ~IsCCS(rw.ref)
  /\ rw.pc = "DeleteConsoleAccess" => IsCCS(rw.ref)

-----------------------------------------------------------------------------
(* What the operator leaves behind.                                        *)

Touched(p) == p.sa \/ p.bound \/ p.console

\* In the project of customer c the account has its roles only while it is
\* there, since its deletion comes after theirs; each step of the cleanup has
\* something less to find.
CleanedInOrder(c) ==
  LET p == project[CCSProject[c]]
  IN  /\ Touched(p) => p.life = "ACTIVE"
      /\ p.bound => p.sa
      /\ rw.pc # "idle" /\ rw.ref.owner = c =>
           /\ rw.pc = "Policy" /\ p.life = "ACTIVE" => p.sa
           /\ rw.pc = "DeleteServiceAccount" => ~p.bound
           /\ rw.pc = "DeleteConsoleAccess" => ~p.sa /\ ~p.bound
           /\ rw.pc \in {"DeleteCredentials", "FinalizerDeleted"} => ~Touched(p)

\* As long as there is something to clean up for claim c, its reference waits.
CleanupPending(c) ==
  /\ secret[c] # Nil => Kept(RefName(c))
  /\ c \in CCS /\ Touched(project[CCSProject[c]]) => Kept(RefName(c))

\* No cleanup overlooks what is there: the caches of Secrets are up to date,
\* and a service account in a customer's project is found.
CleanupIsReliable ==
  /\ "secretLag" \notin Faults
  /\ "accountLate" \in Faults => CCS = {}

\* Everything that EnsureProjectConfigured makes for a claim is made and removed
\* under the finalizer of the reference, which goes when nothing is left.
CleanupInv ==
  /\ UnderFinalizer
  /\ IDsAreOwn
  /\ \A c \in CCS : CleanedInOrder(c)
  /\ rw.pc = "FinalizerDeleted" => secret[rw.ref.owner] = Nil
  /\ \A c \in Claims : CleanupPending(c)

-----------------------------------------------------------------------------
(* The customer's Secret.                                                  *)

Held(c) == ccsSecret[c].exists /\ ccsSecret[c].finalizer

\* The reference of claim c is gone, and c will go: the cache knows it.
Over(c) == ~ref[RefName(c)].exists /\ claimCache[c].deleting

\* Claim c waits for its project only once the customer's Secret is held, or
\* when all is over; only a claim that waits lets its reference get a finalizer.
SecretFirst(c) ==
  LET r == RefName(c)
  IN  /\ claim[c].state = "PendingProject" \/ claimCache[c].state = "PendingProject" =>
           Held(c) \/ Over(c)
      /\ BusyWith(c) /\ cw.pc = "StatePendingProject" => Held(c)
      /\ BusyWith(c) /\ cw.pc = "Condition" /\ Current(claim[c], claimCur[c], "claimCtl")
           /\ cw.obj.state = "PendingProject" => Held(c) \/ Over(c)
      /\ rw.pc = "FinalizerAdded" /\ rw.key = r /\ Current(ref[r], refCur[r], "refCtl") => Held(c)
      /\ Kept(r) => Held(c)

\* EnsureCCSSecretFinalizer comes before anything that leads to work in the
\* customer's project, and its finalizer stays until that work is undone.
SecretHeldInv == \A c \in CCS : SecretFirst(c)
=============================================================================
