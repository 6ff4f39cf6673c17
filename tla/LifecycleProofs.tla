--------------------------- MODULE LifecycleProofs ---------------------------
(***************************************************************************)
(* The operator implements ClaimLifecycle: every step of the controllers   *)
(* and of those around them is, for whoever looks at the claims only, a    *)
(* step of the abstract specification or none.                             *)
(***************************************************************************)
EXTENDS ProvisionProofs, LifecycleRefinement, FiniteSetTheorems

\* What is seen of the state: the phases, the Secrets and the active projects.
SamePhase(c) == PhaseOf(claim'[c]) = PhaseOf(claim[c])
SameLives == \A id \in ProjectIDs : project'[id].life = project[id].life
SameSecrets == \A c \in Claims : secret'[c] = secret[c]

\* Claim c comes into phase p, and no other claim changes its phase.
PhaseMoves(c, p) ==
  PhaseOf(claim'[c]) = p /\ \A d \in Claims \ {c} : SamePhase(d)

\* The phases in terms of the object.
LEMMA Phases ==
  ASSUME NEW o
  PROVE  /\ PhaseOf(o) = "absent" <=> ~o.exists
         /\ PhaseOf(o) = "releasing" <=> o.exists /\ o.deleting
         /\ PhaseOf(o) = "ready" <=> o.exists /\ ~o.deleting /\ o.state = "Ready"
         /\ PhaseOf(o) = "rejected" <=> o.exists /\ ~o.deleting /\ o.state = "Error"
         /\ PhaseOf(o) \in {"absent", "releasing", "ready", "rejected", "requested"}
  BY DEF PhaseOf

\* The refinement mapping, claim by claim.
LEMMA MappedMoves ==
  ASSUME NEW c \in Claims, NEW p, PhaseMoves(c, p)
  PROVE  Lifecycle!Becomes(c, p)
  <1> DEFINE old == [d \in Claims |-> PhaseOf(claim[d])]
             new == [d \in Claims |-> PhaseOf(claim'[d])]
  <1>1. new = [old EXCEPT ![c] = p]
    BY DEF PhaseMoves, SamePhase
  <1> QED BY <1>1 DEF Lifecycle!Becomes

\* The projects and credentials of the abstract specification stay.
LEMMA MappedKeep ==
  ASSUME SameSecrets, SameLives
  PROVE  Lifecycle!Keep
  <1>1. ActiveProjects' = ActiveProjects
    BY DEF ActiveProjects, SameLives
  <1>2. {d \in Claims : secret'[d] # Nil} = {d \in Claims : secret[d] # Nil}
    BY DEF SameSecrets
  <1> QED BY <1>1, <1>2 DEF Lifecycle!Keep

\* So does all of its state.
LEMMA MappedStays ==
  ASSUME \A c \in Claims : SamePhase(c), SameSecrets, SameLives
  PROVE  UNCHANGED Lifecycle!vars
  <1>1. ActiveProjects' = ActiveProjects
    BY DEF ActiveProjects, SameLives
  <1>2. [d \in Claims |-> PhaseOf(claim'[d])] = [d \in Claims |-> PhaseOf(claim[d])]
    BY DEF SamePhase
  <1>3. {d \in Claims : secret'[d] # Nil} = {d \in Claims : secret[d] # Nil}
    BY DEF SameSecrets
  <1> QED BY <1>1, <1>2, <1>3 DEF Lifecycle!vars

\* Objects that agree in these fields are in one phase.
LEMMA SamePhaseFields ==
  ASSUME NEW c \in Claims, claim'[c].exists = claim[c].exists,
         claim'[c].deleting = claim[c].deleting, claim'[c].state = claim[c].state
  PROVE  SamePhase(c)
  BY DEF SamePhase, PhaseOf

-----------------------------------------------------------------------------
(* There are never more projects than claims.                              *)

AliveClaims == {c \in Claims : claim[c].exists}

\* The claims that are alive are those that exist.
LEMMA MappedAlive == Lifecycle!Alive = AliveClaims
  BY Phases DEF Lifecycle!Alive, AliveClaims

\* A reference that holds its finalizer leads to its claim.
LEMMA KeptHasClaim ==
  ASSUME NamesAreDistinct, TypeInv, ReferenceCopyInv, FinalizedReferenceHasClaim,
         NEW c \in Claims, Kept(RefName(c))
  PROVE  claim[c].exists /\ claim[c].finalizer
  <1>1. RefName(c) \in Refs
    BY DEF Refs
  <1>2. ref[RefName(c)].owner \in Claims
    BY <1>1 DEF TypeInv, KeysOK, Kept
  <1>3. ref[RefName(c)].owner = c
    BY <1>1, <1>2 DEF ReferenceCopyInv, NamedAfterOwner, NamesAreDistinct, Kept
  <1> QED BY <1>1, <1>3 DEF FinalizedReferenceHasClaim, Kept

\* The reference of claim c stands for a project that is active.
HasActive(c) == Kept(RefName(c)) /\ project[ref[RefName(c)].projectID].life = "ACTIVE"

\* A claim whose reference stands for no active project leaves one to spare.
LEMMA OneToSpare ==
  ASSUME IsFiniteSet(Claims), NamesAreDistinct, TypeInv, ReferenceCopyInv,
         FinalizedReferenceHasClaim, ProjectTracked, CCS = {},
         NEW c \in Claims, claim[c].exists, ~HasActive(c)
  PROVE  Cardinality(ActiveProjects) < Cardinality(Lifecycle!Alive)
  <1> DEFINE Of(d, id) == Kept(RefName(d)) /\ ref[RefName(d)].projectID = id
             f == [id \in ActiveProjects |-> CHOOSE d \in Claims : Of(d, id)]
             T == AliveClaims \ {c}
  <1>1. ASSUME NEW id \in ActiveProjects
        PROVE  f[id] \in Claims /\ Of(f[id], id)
    <2>1. PICK r \in Refs : Kept(r) /\ ref[r].projectID = id
      BY DEF ProjectTracked, ActiveProjects, Kept
    <2>2. PICK d \in Claims : r = RefName(d)
      BY DEF Refs
    <2>3. Of(d, id)
      BY <2>1, <2>2
    <2> QED BY <2>3
  <1>2. ASSUME NEW id \in ActiveProjects
        PROVE  f[id] \in T
    <2>1. f[id] \in Claims /\ Of(f[id], id)
      BY <1>1
    <2>2. HasActive(f[id])
      BY <2>1 DEF HasActive, ActiveProjects
    <2>3. claim[f[id]].exists
      BY <2>1, KeptHasClaim
    <2> QED BY <2>1, <2>2, <2>3 DEF AliveClaims
  <1>3. ASSUME NEW id \in ActiveProjects, NEW jd \in ActiveProjects, f[id] = f[jd]
        PROVE  id = jd
    BY <1>1, <1>3
  <1>4. f \in Injection(ActiveProjects, T)
    <2>1. f \in [ActiveProjects -> T]
      BY <1>2
    <2>2. DOMAIN f = ActiveProjects
      OBVIOUS
    <2> HIDE DEF f
    <2> QED BY <1>3, <2>1, <2>2 DEF Injection, IsInjective
  <1>5. IsFiniteSet(AliveClaims)
    BY FS_Subset DEF AliveClaims
  <1>6. IsFiniteSet(T) /\ Cardinality(T) = Cardinality(AliveClaims) - 1
    BY <1>5, FS_RemoveElement DEF AliveClaims
  <1>7. Cardinality(ActiveProjects) <= Cardinality(T) /\ IsFiniteSet(ActiveProjects)
    BY <1>4, <1>6, FS_Injection
  <1>8. Cardinality(ActiveProjects) \in Nat /\ Cardinality(AliveClaims) \in Nat
    BY <1>5, <1>7, FS_CardinalityType
  <1>9. Cardinality(ActiveProjects) < Cardinality(AliveClaims)
    BY <1>6, <1>7, <1>8
  <1> QED BY <1>9, MappedAlive

-----------------------------------------------------------------------------
(* The steps of the abstract specification, seen from below.               *)

\* A claim changes its phase and nothing else is seen.
PhaseStep(c, p) ==
  /\ PhaseMoves(c, p) /\ SameSecrets /\ SameLives
  /\ LET q == PhaseOf(claim[c])
     IN  \/ q = "absent" /\ p = "requested"
         \/ q \in {"requested", "ready"} /\ p = "rejected"
         \/ q = "rejected" /\ p = "requested"
         \/ q \in {"requested", "rejected", "ready"} /\ p = "releasing"
         \/ /\ q \in {"requested", "rejected"} /\ p = "ready"
            /\ secret[c] # Nil /\ ActiveProjects # {}
         \/ /\ q \in {"requested", "rejected", "releasing"} /\ p = "absent"
            /\ secret[c] = Nil
            /\ Cardinality(ActiveProjects) < Cardinality(Lifecycle!Alive)

\* The instance has the operators of FiniteSets under names of its own.
LEMMA MappedCardinality ==
  ASSUME NEW S
  PROVE  Lifecycle!Cardinality(S) = Cardinality(S)
  BY Zenon DEF Lifecycle!Cardinality, Cardinality

\* Each such change is a step of the abstract specification.
LEMMA MappedPhaseStep ==
  ASSUME NEW c \in Claims, NEW p, PhaseStep(c, p)
  PROVE  Lifecycle!Next
  <1> DEFINE q == PhaseOf(claim[c])
  <1>1. Lifecycle!Becomes(c, p) /\ Lifecycle!Keep
    BY MappedMoves, MappedKeep DEF PhaseStep
  <1>2. CASE q = "absent" /\ p = "requested"
    <2>1. Lifecycle!Request(c)
      BY <1>1, <1>2 DEF Lifecycle!Request
    <2> QED BY <2>1 DEF Lifecycle!Next
  <1>3. CASE q \in {"requested", "ready"} /\ p = "rejected"
    <2>1. Lifecycle!Reject(c)
      BY <1>1, <1>3 DEF Lifecycle!Reject
    <2> QED BY <2>1 DEF Lifecycle!Next
  <1>4. CASE q = "rejected" /\ p = "requested"
    <2>1. Lifecycle!Reinstate(c)
      BY <1>1, <1>4 DEF Lifecycle!Reinstate
    <2> QED BY <2>1 DEF Lifecycle!Next
  <1>5. CASE q \in {"requested", "rejected", "ready"} /\ p = "releasing"
    <2>1. Lifecycle!Release(c)
      BY <1>1, <1>5 DEF Lifecycle!Release
    <2> QED BY <2>1 DEF Lifecycle!Next
  <1>6. CASE /\ q \in {"requested", "rejected"} /\ p = "ready"
             /\ secret[c] # Nil /\ ActiveProjects # {}
    <2>1. Lifecycle!Provide(c)
      BY <1>1, <1>6 DEF Lifecycle!Provide
    <2> QED BY <2>1 DEF Lifecycle!Next
  <1>7. CASE /\ q \in {"requested", "rejected", "releasing"} /\ p = "absent"
             /\ secret[c] = Nil
             /\ Cardinality(ActiveProjects) < Cardinality(Lifecycle!Alive)
    <2>1. CASE q = "releasing"
      <3>1. Lifecycle!Gone(c)
        BY <1>1, <1>7, <2>1, MappedCardinality DEF Lifecycle!Gone
      <3> QED BY <3>1 DEF Lifecycle!Next
    <2>2. CASE q # "releasing"
      <3>1. Lifecycle!Withdraw(c)
        BY <1>1, <1>7, <2>2, MappedCardinality DEF Lifecycle!Withdraw
      <3> QED BY <3>1 DEF Lifecycle!Next
    <2> QED BY <2>1, <2>2
  <1> QED BY <1>2, <1>3, <1>4, <1>5, <1>6, <1>7 DEF PhaseStep

\* No claim changes its phase.
SamePhases == \A c \in Claims : SamePhase(c)

\* The Secret of claim c comes, for a claim that is not ready, or goes, for one
\* that is released.
SecretStep(c) ==
  /\ SamePhases /\ SameLives
  /\ \A d \in Claims \ {c} : secret'[d] = secret[d]
  /\ \/ /\ PhaseOf(claim[c]) \in {"requested", "rejected", "releasing"}
        /\ ActiveProjects # {} /\ secret'[c] # Nil
     \/ PhaseOf(claim[c]) = "releasing" /\ secret'[c] = Nil

\* Each is a step of the abstract specification.
LEMMA MappedSecretStep ==
  ASSUME NEW c \in Claims, SecretStep(c)
  PROVE  Lifecycle!Next
  <1> DEFINE old == {d \in Claims : secret[d] # Nil}
             new == {d \in Claims : secret'[d] # Nil}
  <1>1. ActiveProjects' = ActiveProjects
    BY DEF ActiveProjects, SameLives, SecretStep
  <1>2. [d \in Claims |-> PhaseOf(claim'[d])] = [d \in Claims |-> PhaseOf(claim[d])]
    BY DEF SamePhases, SamePhase, SecretStep
  <1>3. CASE /\ PhaseOf(claim[c]) \in {"requested", "rejected", "releasing"}
             /\ ActiveProjects # {} /\ secret'[c] # Nil
    <2>1. new = old \cup {c}
      BY <1>3 DEF SecretStep
    <2>2. Lifecycle!AcquireCredentials(c)
      BY <1>1, <1>2, <1>3, <2>1 DEF Lifecycle!AcquireCredentials
    <2> QED BY <2>2 DEF Lifecycle!Next
  <1>4. CASE PhaseOf(claim[c]) = "releasing" /\ secret'[c] = Nil
    <2>1. new = old \ {c}
      BY <1>4 DEF SecretStep
    <2>2. Lifecycle!GiveBackCredentials(c)
      BY <1>1, <1>2, <1>4, <2>1 DEF Lifecycle!GiveBackCredentials
    <2> QED BY <2>2 DEF Lifecycle!Next
  <1> QED BY <1>3, <1>4 DEF SecretStep

\* The project of claim c becomes active, for a claim that is not ready while
\* there are fewer projects than claims, or goes, for one that is released.
ProjectStep(c, id) ==
  /\ SamePhases /\ SameSecrets
  /\ \A jd \in ProjectIDs \ {id} : project'[jd].life = project[jd].life
  /\ \/ /\ PhaseOf(claim[c]) \in {"requested", "rejected", "releasing"}
        /\ Cardinality(ActiveProjects) < Cardinality(Lifecycle!Alive)
        /\ project'[id].life = "ACTIVE"
     \/ PhaseOf(claim[c]) = "releasing" /\ project'[id].life # "ACTIVE"

\* Each is a step of the abstract specification.
LEMMA MappedProjectStep ==
  ASSUME NEW c \in Claims, NEW id \in ProjectIDs \ CCSProjectIDs, ProjectStep(c, id)
  PROVE  Lifecycle!Next
  <1>1. [d \in Claims |-> PhaseOf(claim'[d])] = [d \in Claims |-> PhaseOf(claim[d])]
    BY DEF SamePhases, SamePhase, ProjectStep
  <1>2. {d \in Claims : secret'[d] # Nil} = {d \in Claims : secret[d] # Nil}
    BY DEF SameSecrets, ProjectStep
  <1>3. CASE /\ PhaseOf(claim[c]) \in {"requested", "rejected", "releasing"}
             /\ Cardinality(ActiveProjects) < Cardinality(Lifecycle!Alive)
             /\ project'[id].life = "ACTIVE"
    <2>1. ActiveProjects' = ActiveProjects \cup {id}
      BY <1>3 DEF ActiveProjects, ProjectStep
    <2>2. Lifecycle!AcquireProject(c, id)
      BY <1>1, <1>2, <1>3, <2>1, MappedCardinality DEF Lifecycle!AcquireProject
    <2> QED BY <2>2 DEF Lifecycle!Next
  <1>4. CASE PhaseOf(claim[c]) = "releasing" /\ project'[id].life # "ACTIVE"
    <2>1. ActiveProjects' = ActiveProjects \ {id}
      BY <1>4 DEF ActiveProjects, ProjectStep
    <2>2. Lifecycle!GiveBackProject(c, id)
      BY <1>1, <1>2, <1>4, <2>1 DEF Lifecycle!GiveBackProject
    <2> QED BY <2>2 DEF Lifecycle!Next
  <1> QED BY <1>3, <1>4 DEF ProjectStep

-----------------------------------------------------------------------------
(* What the invariants say of a claim.                                     *)

LifecycleInv ==
  /\ TypeInv /\ ClaimCopyInv /\ ReferenceCopyInv /\ HeldInv
  /\ CleanupInv /\ ProvisionInv /\ ProjectTracked /\ ReadyIsProvisioned

\* Where the operator makes the projects, and nothing is lost sight of.
OperatorIsReliable ==
  /\ IsFiniteSet(Claims) /\ CCS = {} /\ NamesAreDistinct
  /\ CleanupIsReliable /\ ProvisioningIsReliable /\ CreationIsReliable

\* A claim whose reference does not hold the finalizer has nothing, and leaves
\* a project to spare.
LEMMA NothingHeld ==
  ASSUME OperatorIsReliable, LifecycleInv, NEW c \in Claims,
         claim[c].exists, ~Kept(RefName(c))
  PROVE  /\ secret[c] = Nil
         /\ Cardinality(ActiveProjects) < Cardinality(Lifecycle!Alive)
         /\ PhaseOf(claim[c]) # "ready"
  <1>1. CleanupPending(c)
    BY DEF LifecycleInv, CleanupInv
  <1>2. secret[c] = Nil
    BY <1>1 DEF CleanupPending
  <1>3. ~HasActive(c)
    BY DEF HasActive
  <1>4. FinalizedReferenceHasClaim
    BY DEF LifecycleInv, HeldInv
  <1>5. Cardinality(ActiveProjects) < Cardinality(Lifecycle!Alive)
    BY <1>3, <1>4, OneToSpare DEF LifecycleInv, OperatorIsReliable
  <1>6. PhaseOf(claim[c]) # "ready"
    BY Phases DEF LifecycleInv, ReadyIsProvisioned, Kept
  <1> QED BY <1>2, <1>5, <1>6

\* A claim that is ready has an active project.
LEMMA ReadyHasActive ==
  ASSUME LifecycleInv, NEW c \in Claims, PhaseOf(claim[c]) = "ready"
  PROVE  HasActive(c) /\ secret[c] # Nil
  <1>1. claim[c].exists /\ ~claim[c].deleting /\ claim[c].state = "Ready"
    BY Phases
  <1>2. /\ claim[c].projectID \in ProjectIDs /\ secret[c] = claim[c].projectID
        /\ project[claim[c].projectID].life = "ACTIVE"
        /\ Kept(RefName(c)) /\ ref[RefName(c)].projectID = claim[c].projectID
    BY <1>1 DEF LifecycleInv, ReadyIsProvisioned, Kept
  <1> QED BY <1>2, NilAssumption DEF HasActive

\* A reference that holds its finalizer leads to its claim, and one that is
\* being deleted to a claim that is released.
LEMMA HeldFacts ==
  ASSUME OperatorIsReliable, LifecycleInv, NEW c \in Claims, Kept(RefName(c))
  PROVE  /\ claim[c].exists /\ claim[c].finalizer
         /\ ref[RefName(c)].deleting => PhaseOf(claim[c]) = "releasing"
  <1>1. claim[c].exists /\ claim[c].finalizer
    BY KeptHasClaim DEF OperatorIsReliable, LifecycleInv, HeldInv
  <1>2. "refDeleted" \notin Faults
    BY DEF OperatorIsReliable, ProvisioningIsReliable
  <1>3. ref[RefName(c)].exists /\ ref[RefName(c)].deleting => claim[c].deleting
    BY <1>2, DeletionIsOfClaim DEF OperatorIsReliable, LifecycleInv
  <1> QED BY <1>1, <1>3, Phases DEF Kept

-----------------------------------------------------------------------------
(* The user.                                                               *)

\* What a user does to a claim.
LEMMA UserStepMapped ==
  ASSUME OperatorIsReliable, LifecycleInv, NEW c \in Claims,
         CreateClaim(c) \/ DeleteClaim(c) \/ EditClaim(c)
  PROVE  Lifecycle!Next \/ UNCHANGED Lifecycle!vars
  <1>1. /\ \A d \in Claims : d # c => claim'[d] = claim[d]
        /\ ClaimChangedByUser(c)
    BY UserMoves DEF LifecycleInv
  <1>2. UNCHANGED secret /\ UNCHANGED project
    BY DEF CreateClaim, DeleteClaim, EditClaim, secrets, cloud
  <1>3. SameLives /\ SameSecrets
    BY <1>2 DEF SameLives, SameSecrets
  <1>4. \A d \in Claims \ {c} : SamePhase(d)
    BY <1>1 DEF SamePhase
  <1>5. CASE ~claim[c].exists /\ claim'[c].exists /\ ~claim'[c].deleting /\ claim'[c].state = ""
    <2>1. PhaseOf(claim[c]) = "absent" /\ PhaseOf(claim'[c]) = "requested"
      BY <1>5 DEF PhaseOf
    <2>2. PhaseStep(c, "requested")
      BY <2>1, <1>2, <1>3, <1>4 DEF PhaseStep, PhaseMoves
    <2> QED BY <2>2, MappedPhaseStep
  <1>6. CASE claim[c].exists /\ ~claim[c].deleting /\ claim'[c].exists /\ claim'[c].deleting
    <2>1. PhaseOf(claim[c]) \in {"requested", "rejected", "ready"}
          /\ PhaseOf(claim'[c]) = "releasing"
      BY <1>6, Phases
    <2>2. PhaseStep(c, "releasing")
      BY <2>1, <1>2, <1>3, <1>4 DEF PhaseStep, PhaseMoves
    <2> QED BY <2>2, MappedPhaseStep
  <1>7. CASE claim[c].exists /\ ~claim[c].finalizer /\ claim'[c] = NoClaim
    <2>1. ~Kept(RefName(c))
      BY <1>7, HeldFacts
    <2>2. /\ secret[c] = Nil /\ PhaseOf(claim[c]) # "ready"
          /\ Cardinality(ActiveProjects) < Cardinality(Lifecycle!Alive)
      BY <1>7, <2>1, NothingHeld
    <2>3. PhaseOf(claim[c]) \in {"requested", "rejected", "releasing"}
      BY <1>7, <2>2, Phases
    <2>4. PhaseOf(claim'[c]) = "absent"
      BY <1>7, Phases DEF NoClaim
    <2>5. PhaseStep(c, "absent")
      BY <2>2, <2>3, <2>4, <1>2, <1>3, <1>4 DEF PhaseStep, PhaseMoves
    <2> QED BY <2>5, MappedPhaseStep
  <1>8. CASE SameClaim(claim'[c], claim[c]) /\ claim'[c].state = claim[c].state
    <2>1. SamePhase(c)
      BY <1>8, SamePhaseFields DEF SameClaim
    <2> QED BY <2>1, <1>2, <1>3, <1>4, MappedStays
  <1> QED BY <1>1, <1>5, <1>6, <1>7, <1>8 DEF ClaimChangedByUser

-----------------------------------------------------------------------------
(* The ProjectClaim controller.                                            *)

\* A step of the ProjectClaim controller.
LEMMA ClaimStepMapped ==
  ASSUME OperatorIsReliable, LifecycleInv, ClaimStep
  PROVE  Lifecycle!Next \/ UNCHANGED Lifecycle!vars
  <1>1. /\ \A d \in Claims : ClaimKept(d) \/ ClaimStored(d)
        /\ cw.pc # "idle" /\ cw.key \in Claims
    BY ClaimStepMoves, ClaimStepBusy DEF LifecycleInv, TypeInv, KeysOK
  <1>2. UNCHANGED secret /\ UNCHANGED project
    BY ClaimStepLeaves DEF Resources
  <1>3. SameLives /\ SameSecrets
    BY <1>2 DEF SameLives, SameSecrets
  <1> DEFINE c == cw.key
  <1>4. \A d \in Claims \ {c} : SamePhase(d)
    BY <1>1 DEF SamePhase, ClaimKept, ClaimStored
  <1>5. ASSUME SamePhase(c)
        PROVE  UNCHANGED Lifecycle!vars
    BY <1>5, <1>4, <1>3, <1>2, MappedStays
  <1>6. CASE /\ claim'[c].exists /\ claim[c].exists
             /\ claim'[c].deleting <=> claim[c].deleting
    <2>1. CASE claim[c].deleting \/ claim'[c].state = claim[c].state
      <3>1. SamePhase(c)
        BY <1>6, <2>1 DEF SamePhase, PhaseOf
      <3> QED BY <3>1, <1>5
    <2>2. CASE ~claim[c].deleting /\ claim'[c].state # claim[c].state
      <3>1. claim'[c].state # "Ready"
        BY <2>2, <1>1, ClaimStepReadies DEF LifecycleInv, ProvisionInv
      <3>2. claim[c].state = "Ready" => claim'[c].state = "Error"
        BY <1>1, <1>6, <3>1, ReadyStep DEF LifecycleInv, Next
      <3>3. CASE claim'[c].state = "Error"
        <4>1. PhaseOf(claim'[c]) = "rejected" /\ PhaseOf(claim[c]) \in {"requested", "ready"}
          BY <1>6, <2>2, <3>3, Phases
        <4>2. PhaseStep(c, "rejected")
          BY <4>1, <1>2, <1>3, <1>4 DEF PhaseStep, PhaseMoves
        <4> QED BY <4>2, <1>1, MappedPhaseStep
      <3>4. CASE claim'[c].state # "Error" /\ claim[c].state = "Error"
        <4>1. PhaseOf(claim'[c]) = "requested" /\ PhaseOf(claim[c]) = "rejected"
          BY <1>6, <2>2, <3>1, <3>4 DEF PhaseOf
        <4>2. PhaseStep(c, "requested")
          BY <4>1, <1>2, <1>3, <1>4 DEF PhaseStep, PhaseMoves
        <4> QED BY <4>2, <1>1, MappedPhaseStep
      <3>5. CASE claim'[c].state # "Error" /\ claim[c].state # "Error"
        <4>1. SamePhase(c)
          BY <1>6, <2>2, <3>1, <3>2, <3>5 DEF SamePhase, PhaseOf
        <4> QED BY <4>1, <1>5
      <3> QED BY <3>3, <3>4, <3>5
    <2> QED BY <2>1, <2>2
  <1>7. CASE claim[c].exists /\ claim'[c] = NoClaim /\ cw.pc = "ClaimFinalizerDeleted"
             /\ Current(claim[c], claimCur[c], "claimCtl")
    <2>1. ~ref[RefName(c)].exists
      BY <1>7 DEF LifecycleInv, HeldInv
    <2>2. ~Kept(RefName(c))
      BY <2>1 DEF Kept
    <2>3. /\ secret[c] = Nil /\ PhaseOf(claim[c]) # "ready"
          /\ Cardinality(ActiveProjects) < Cardinality(Lifecycle!Alive)
      BY <1>1, <1>7, <2>2, NothingHeld
    <2>4. PhaseOf(claim[c]) \in {"requested", "rejected", "releasing"}
      BY <1>7, <2>3, Phases
    <2>5. PhaseOf(claim'[c]) = "absent"
      BY <1>7, Phases DEF NoClaim
    <2>6. PhaseStep(c, "absent")
      BY <2>3, <2>4, <2>5, <1>2, <1>3, <1>4 DEF PhaseStep, PhaseMoves
    <2> QED BY <2>6, <1>1, MappedPhaseStep
  <1>8. CASE claim'[c] = claim[c]
    <2>1. SamePhase(c)
      BY <1>8 DEF SamePhase
    <2> QED BY <2>1, <1>5
  <1>9. ClaimKept(c) => claim'[c] = claim[c]
    BY DEF ClaimKept
  <1>10. ClaimStored(c) => claim[c].exists /\ Current(claim[c], claimCur[c], "claimCtl")
    BY DEF ClaimStored, Current
  <1>11. ClaimStored(c) =>
           \/ SameClaim(claim'[c], claim[c])
           \/ cw.pc \in {"ReferenceLink", "Finalizer"} /\ claim'[c].exists /\ ~claim'[c].deleting
           \/ cw.pc = "ClaimFinalizerDeleted" /\ claim'[c] = NoClaim
    BY DEF ClaimStored
  <1>12. ASSUME cw.pc \in {"ReferenceLink", "Finalizer"}, Current(claim[c], claimCur[c], "claimCtl")
         PROVE  ~claim[c].deleting
    <2>1. SameClaim(cw.obj, claim[c])
      BY <1>12, CurrentCopy DEF LifecycleInv
    <2>2. ~cw.obj.deleting
      BY <1>1, <1>12, CopyFacts DEF LifecycleInv, BusyWith
    <2> QED BY <2>1, <2>2 DEF SameClaim
  <1>13. SameClaim(claim'[c], claim[c]) => /\ claim'[c].exists = claim[c].exists
                                           /\ claim'[c].deleting <=> claim[c].deleting
    BY DEF SameClaim
  <1> QED BY <1>1, <1>6, <1>7, <1>8, <1>9, <1>10, <1>11, <1>12, <1>13

-----------------------------------------------------------------------------
(* The ProjectReference controller.                                        *)

\* A project becomes active by createProject, and leaves that state by
\* deleteProject.
LifeMoves ==
  LET id == rw.ref.projectID
  IN  /\ id \in ProjectIDs /\ UNCHANGED <<claimObjs, secret>>
      /\ \A jd \in ProjectIDs \ {id} : project'[jd].life = project[jd].life
      /\ \/ /\ rw.pc = "CreateProject"
            /\ project[id].life # "ACTIVE" /\ project'[id].life = "ACTIVE"
         \/ /\ rw.pc = "DeleteProject"
            /\ project[id].life = "ACTIVE" /\ project'[id].life # "ACTIVE"

\* A call that configures a project leaves it as active as it was.
LEMMA ConfigurersKeepLives ==
  ASSUME TypeInv,
         \/ ConfigureBillingAPI \/ ConfigureAPIS \/ ConfigureServiceAccount \/ SetIAMPolicy
         \/ SetConsoleAccess \/ DeleteServiceAccount \/ DeleteConsoleAccess
         \/ DeletePolicy
  PROVE  SameLives
  <1> DEFINE p == project[rw.ref.projectID]
             Lasts(q) == rw.ref.projectID \in ProjectIDs => q.life = p.life
  <1>1. \A b : /\ Lasts([p EXCEPT !.billing = b]) /\ Lasts([p EXCEPT !.apis = b])
               /\ Lasts([p EXCEPT !.sa = b]) /\ Lasts([p EXCEPT !.bound = b])
               /\ Lasts([p EXCEPT !.console = b])
    BY ReferenceParts DEF Project
  <1>2. (\E pc, q : Lasts(q) /\ Configure(q, pc)) \/ UNCHANGED project
    <2>1. CASE ConfigureBillingAPI \/ ConfigureAPIS \/ SetIAMPolicy \/ SetConsoleAccess
      BY <1>1, <2>1 DEF ConfigureBillingAPI, ConfigureAPIS, SetIAMPolicy, SetConsoleAccess
    <2>2. CASE ConfigureServiceAccount
      BY <1>1, <2>2 DEF ConfigureServiceAccount
    <2>3. CASE DeleteServiceAccount \/ DeletePolicy
      BY <1>1, <2>3 DEF DeleteServiceAccount, DeletePolicy
    <2>4. CASE DeleteConsoleAccess
      BY <1>1, <2>4 DEF DeleteConsoleAccess
    <2> QED BY <2>1, <2>2, <2>3, <2>4
  <1>3. CASE \E pc, q : Lasts(q) /\ Configure(q, pc)
    <2>1. \A id \in ProjectIDs : project'[id].life = project[id].life
      BY <1>3, ConfigureLife
    <2> QED BY <2>1 DEF SameLives
  <1> QED BY <1>2, <1>3 DEF SameLives

\* What any step does to the projects.
LEMMA LifeChanges ==
  ASSUME TypeInv, ReferenceStep
  PROVE  SameLives \/ LifeMoves
  <1>1. project \in [ProjectIDs -> Project]
    BY ReferenceParts
  <1>2. CASE UNCHANGED project
    BY <1>2 DEF SameLives
  <1>3. CASE ProjectMissing
    <2>1. CASE rw.ref.projectID \notin ProjectIDs
      BY <1>1, <1>3, <2>1 DEF ProjectMissing, SameLives
    <2>2. CASE rw.ref.projectID \in ProjectIDs /\ project[rw.ref.projectID].life = "none"
      <3>1. /\ rw.pc = "CreateProject" /\ UNCHANGED <<claimObjs, secret>>
            /\ \A jd \in ProjectIDs \ {rw.ref.projectID} : project'[jd] = project[jd]
            /\ \/ project'[rw.ref.projectID].life = "ACTIVE"
               \/ UNCHANGED project
        BY <1>1, <1>3, <2>2 DEF ProjectMissing, Project, secrets
      <3> QED BY <1>2, <2>2, <3>1 DEF LifeMoves
    <2>3. CASE rw.ref.projectID \in ProjectIDs /\ project[rw.ref.projectID].life # "none"
      <3>1. UNCHANGED project
        BY <1>1, <1>3, <2>3 DEF ProjectMissing
      <3> QED BY <1>2, <3>1
    <2> QED BY <2>1, <2>2, <2>3
  <1>4. CASE DeleteProject
    <2>1. CASE rw.ref.projectID \notin ProjectIDs
      BY <1>1, <1>4, <2>1 DEF DeleteProject, SameLives
    <2>2. CASE rw.ref.projectID \in ProjectIDs
      <3>1. /\ rw.pc = "DeleteProject" /\ UNCHANGED <<claimObjs, secret>>
            /\ \A jd \in ProjectIDs \ {rw.ref.projectID} : project'[jd] = project[jd]
            /\ \/ /\ project[rw.ref.projectID].life = "ACTIVE"
                  /\ project'[rw.ref.projectID].life = "DELETE_REQUESTED"
               \/ UNCHANGED project
        BY <1>1, <1>4, <2>2 DEF DeleteProject, NoProject, secrets
      <3> QED BY <1>2, <2>2, <3>1 DEF LifeMoves
    <2> QED BY <2>1, <2>2
  <1>5. CASE ListProjectsFails \/ ProjectFound \/ CreateKey \/ EnsureClaimProjectIDSet
             \/ DeleteCredentials \/ CreateSecret
    BY <1>2, <1>5 DEF ListProjectsFails, ProjectFound, CreateKey, EnsureClaimProjectIDSet,
                      DeleteCredentials, CreateSecret, cloud
  <1> QED BY <1>2, <1>3, <1>4, <1>5, WritersEnd, ConfigurersKeepLives DEF ReferenceStep

\* The worker's reference is that of the claim it is made for.
LEMMA WorkerOwner ==
  ASSUME LifecycleInv, rw.pc # "idle"
  PROVE  rw.ref.owner \in Claims /\ rw.key = RefName(rw.ref.owner)
  BY DEF LifecycleInv, TypeInv, KeysOK, ReferenceCopyInv, NamedAfterOwner

\* Secrets come and go as the abstract specification allows.
LEMMA SecretStepMapped ==
  ASSUME OperatorIsReliable, LifecycleInv, ReferenceStep, NEW c \in Claims,
         secret'[c] # secret[c]
  PROVE  Lifecycle!Next
  <1>1. /\ c = rw.ref.owner /\ UNCHANGED <<claim, project>>
        /\ \/ /\ rw.pc = "CreateSecret"
              /\ secret[c] = Nil /\ secret'[c] = rw.ref.projectID
           \/ rw.pc = "DeleteCredentials" /\ secret'[c] = Nil
    BY SecretChanges DEF LifecycleInv, claimObjs, cloud
  <1>2. \A d \in Claims \ {c} : secret'[d] = secret[d]
    BY <1>1, OthersUntouched DEF LifecycleInv
  <1>3. SamePhases /\ SameLives
    BY <1>1 DEF SamePhases, SamePhase, SameLives
  <1>4. rw.pc # "idle" /\ rw.key = RefName(c)
    BY <1>1, WorkerOwner
  <1>5. CASE rw.pc = "CreateSecret"
    <2>1. Kept(RefName(c))
      BY <1>4, <1>5 DEF LifecycleInv, CleanupInv, UnderFinalizer, SetUpSteps
    <2>2. claim[c].exists /\ secret[c] = Nil /\ secret'[c] = rw.ref.projectID
      BY <1>1, <1>5, <2>1, HeldFacts
    <2>3. PhaseOf(claim[c]) \in {"requested", "rejected", "releasing"}
      BY <2>2, ReadyHasActive, Phases
    <2>4. Configured(c, project[rw.ref.projectID]) /\ rw.ref.projectID # Nil
      BY <1>1, <1>5 DEF LifecycleInv, ProvisionInv, SetUpSoFar, SetUpSteps
    <2>5. rw.ref.projectID \in ActiveProjects
      <3>1. rw.ref.projectID \in ProjectIDs
        BY <2>4, ReferenceParts DEF LifecycleInv, ProjectReference, MaybeID
      <3>2. CCSProjectIDs = {}
        BY DEF CCSProjectIDs, OperatorIsReliable
      <3> QED BY <2>4, <3>1, <3>2 DEF ActiveProjects, Configured
    <2>6. SecretStep(c)
      BY <1>2, <1>3, <2>2, <2>3, <2>4, <2>5 DEF SecretStep
    <2> QED BY <2>6, MappedSecretStep
  <1>6. CASE rw.pc = "DeleteCredentials"
    <2>1. secret[c] # Nil /\ secret'[c] = Nil
      BY <1>1, <1>6
    <2>2. CleanupPending(c)
      BY DEF LifecycleInv, CleanupInv
    <2>3. Kept(RefName(c))
      BY <2>1, <2>2 DEF CleanupPending
    <2>4. ref[RefName(c)].deleting
      BY <2>1, <2>2, SecretGoes DEF LifecycleInv, CleanupInv, OperatorIsReliable
    <2>5. PhaseOf(claim[c]) = "releasing"
      BY <2>3, <2>4, HeldFacts
    <2>6. SecretStep(c)
      BY <1>2, <1>3, <2>1, <2>5 DEF SecretStep
    <2> QED BY <2>6, MappedSecretStep
  <1> QED BY <1>1, <1>5, <1>6

\* So do projects.
LEMMA ProjectStepMapped ==
  ASSUME OperatorIsReliable, LifecycleInv, ReferenceStep, LifeMoves
  PROVE  Lifecycle!Next
  <1> DEFINE id == rw.ref.projectID
             c == rw.ref.owner
  <1>1. /\ id \in ProjectIDs /\ UNCHANGED <<claim, secret>>
        /\ \A jd \in ProjectIDs \ {id} : project'[jd].life = project[jd].life
        /\ \/ /\ rw.pc = "CreateProject"
              /\ project[id].life # "ACTIVE" /\ project'[id].life = "ACTIVE"
           \/ /\ rw.pc = "DeleteProject"
              /\ project[id].life = "ACTIVE" /\ project'[id].life # "ACTIVE"
    BY DEF LifeMoves, claimObjs
  <1>2. SamePhases /\ SameSecrets
    BY <1>1 DEF SamePhases, SamePhase, SameSecrets
  <1>3. c \in Claims /\ rw.key = RefName(c)
    BY <1>1, WorkerOwner
  <1>4. id \in ProjectIDs \ CCSProjectIDs
    BY <1>1 DEF CCSProjectIDs, OperatorIsReliable
  <1>5. CASE rw.pc = "CreateProject"
    <2>1. Kept(RefName(c))
      BY <1>3, <1>5 DEF LifecycleInv, CleanupInv, UnderFinalizer, SetUpSteps
    <2>2. id = ref[RefName(c)].projectID
      BY <1>3, <1>5 DEF LifecycleInv, ProvisionInv, SetUpSoFar, SetUpSteps
    <2>3. ~HasActive(c)
      BY <1>1, <1>5, <2>2 DEF HasActive
    <2>4. claim[c].exists
      BY <1>3, <2>1, HeldFacts
    <2>5. PhaseOf(claim[c]) \in {"requested", "rejected", "releasing"}
      BY <1>3, <2>3, <2>4, ReadyHasActive, Phases
    <2>6. Cardinality(ActiveProjects) < Cardinality(Lifecycle!Alive)
      BY <1>3, <2>3, <2>4, OneToSpare DEF LifecycleInv, HeldInv, OperatorIsReliable
    <2>7. ProjectStep(c, id)
      BY <1>1, <1>2, <1>5, <2>5, <2>6 DEF ProjectStep
    <2> QED BY <1>3, <1>4, <2>7, MappedProjectStep
  <1>6. CASE rw.pc = "DeleteProject"
    <2>1. PICK r \in Refs : Kept(r) /\ ref[r].projectID = id
      BY <1>1, <1>4, <1>6 DEF LifecycleInv, ProjectTracked, Kept
    <2>2. Names(r, id) /\ Names(rw.key, id) /\ rw.key \in Refs
      BY <1>3, <1>6, <2>1 DEF Names, Kept, Refs
    <2>3. r = rw.key
      BY <1>1, <2>2 DEF LifecycleInv, ProvisionInv, NamedOnce
    <2>4. ref[RefName(c)].deleting /\ Kept(RefName(c))
      BY <1>3, <1>6, <2>1, <2>3
         DEF LifecycleInv, CleanupInv, UnderFinalizer, DeletionSteps, Live, Kept
    <2>5. PhaseOf(claim[c]) = "releasing"
      BY <1>3, <2>4, HeldFacts
    <2>6. ProjectStep(c, id)
      BY <1>1, <1>2, <1>6, <2>5 DEF ProjectStep
    <2> QED BY <1>3, <1>4, <2>6, MappedProjectStep
  <1> QED BY <1>1, <1>5, <1>6

\* A claim that EnsureProjectClaimReady fills in changes its phase only by
\* becoming ready, with a Secret and an active project.
LEMMA FilledStepMapped ==
  ASSUME OperatorIsReliable, LifecycleInv, ReferenceStep, SameLives, SameSecrets,
         NEW c \in Claims, ClaimFilled(c), ~SamePhase(c)
  PROVE  Lifecycle!Next
  <1>1. /\ rw.pc \in ClaimReadySteps /\ c = rw.ref.owner
        /\ Current(claim[c], claimCur[c], "refCtl") /\ claim[c].exists
        /\ claim'[c].exists = claim[c].exists /\ claim'[c].deleting = claim[c].deleting
        /\ claim'[c].state \in {claim[c].state, "Ready"}
    BY DEF ClaimFilled, SameClaim, Current
  <1>2. ~claim[c].deleting /\ claim[c].state # "Ready" /\ claim'[c].state = "Ready"
    BY <1>1 DEF SamePhase, PhaseOf
  <1>3. PhaseOf(claim[c]) \in {"requested", "rejected"} /\ PhaseOf(claim'[c]) = "ready"
    BY <1>1, <1>2, Phases
  <1>4. secret[c] # Nil
    BY <1>1, <1>2 DEF LifecycleInv, ProvisionInv, ClaimIsReadyFor
  <1>5. Kept(RefName(c))
    BY <1>4 DEF LifecycleInv, CleanupInv, CleanupPending
  <1>6. ~ref[RefName(c)].deleting
    BY <1>3, <1>5, HeldFacts
  <1>7. Configured(c, project[secret[c]])
    BY <1>4, <1>6 DEF LifecycleInv, ProvisionInv, SecretOpensProject
  <1>8. secret[c] \in ActiveProjects
    <2>1. secret[c] \in ProjectIDs
      BY <1>4, ReferenceParts DEF LifecycleInv, MaybeID
    <2>2. CCSProjectIDs = {}
      BY DEF CCSProjectIDs, OperatorIsReliable
    <2> QED BY <1>7, <2>1, <2>2 DEF ActiveProjects, Configured
  <1>9. \A d \in Claims \ {c} : SamePhase(d)
    <2>1. \A d \in Claims : ClaimKept(d) \/ ClaimFilled(d)
      BY ReferenceStepClaims DEF LifecycleInv
    <2> QED BY <1>1, <2>1 DEF ClaimKept, ClaimFilled, SamePhase
  <1>10. PhaseStep(c, "ready")
    BY <1>3, <1>4, <1>8, <1>9 DEF PhaseStep, PhaseMoves
  <1> QED BY <1>10, MappedPhaseStep

\* A step of the ProjectReference controller.
LEMMA ReferenceStepMapped ==
  ASSUME OperatorIsReliable, LifecycleInv, ReferenceStep
  PROVE  Lifecycle!Next \/ UNCHANGED Lifecycle!vars
  <1>1. CASE ~SameSecrets
    BY <1>1, SecretStepMapped DEF SameSecrets
  <1>2. CASE ~SameLives
    BY <1>2, LifeChanges, ProjectStepMapped DEF LifecycleInv
  <1>3. CASE SameSecrets /\ SameLives
    <2>1. \A d \in Claims : ClaimKept(d) \/ ClaimFilled(d)
      BY ReferenceStepClaims DEF LifecycleInv
    <2>2. ASSUME NEW c \in Claims, ~SamePhase(c)
          PROVE  ClaimFilled(c)
      BY <2>1, <2>2 DEF ClaimKept, SamePhase
    <2>3. CASE \E c \in Claims : ~SamePhase(c)
      BY <1>3, <2>2, <2>3, FilledStepMapped
    <2> QED BY <1>3, <2>3, MappedStays
  <1> QED BY <1>1, <1>2, <1>3

-----------------------------------------------------------------------------
(* The refinement.                                                         *)

\* Initially no claim is there, nor anything that was made for one.
LEMMA InitMapped ==
  ASSUME CCS = {}, Init
  PROVE  Lifecycle!Init
  <1>1. CCSProjectIDs = {}
    BY DEF CCSProjectIDs
  <1>2. [c \in Claims |-> PhaseOf(claim[c])] = [c \in Claims |-> "absent"]
    BY DEF Init, PhaseOf, NoClaim
  <1>3. ActiveProjects = {}
    BY <1>1 DEF Init, ActiveProjects, NoProject
  <1>4. {c \in Claims : secret[c] # Nil} = {}
    BY DEF Init
  <1> QED BY <1>2, <1>3, <1>4 DEF Lifecycle!Init

\* Whatever else happens is not seen.
LEMMA OtherStepMapped ==
  ASSUME ProvisioningIsReliable, Manager \/ Environment \/ UNCHANGED vars,
         ~\E c \in Claims : CreateClaim(c) \/ DeleteClaim(c) \/ EditClaim(c)
  PROVE  UNCHANGED Lifecycle!vars
  <1>1. ~Faulty("adminDeletes")
    BY DEF ProvisioningIsReliable, Faulty
  <1>2. UNCHANGED <<claim, secret, project>>
    BY <1>1 DEF Manager, Environment, StartClaim, SyncClaim, SyncSecret, StartReference, SyncRef,
                Resync, Crash, SetRegion, SetCCSSecret, AdminDeletesProject,
                AdminDeletesReference, Stabilise, vars, claimObjs, secrets, cloud
  <1>3. SameSecrets /\ SameLives /\ \A c \in Claims : SamePhase(c)
    BY <1>2 DEF SameSecrets, SameLives, SamePhase
  <1> QED BY <1>3, MappedStays

\* Every step of the operator is a step of the abstract specification, or is
\* not seen.
LEMMA StepMapped ==
  ASSUME OperatorIsReliable
  PROVE  LifecycleInv /\ [Next]_vars => [Lifecycle!Next]_(Lifecycle!vars)
  <1> SUFFICES ASSUME LifecycleInv, [Next]_vars
               PROVE  Lifecycle!Next \/ UNCHANGED Lifecycle!vars
    OBVIOUS
  <1>1. CASE ClaimStep
    BY <1>1, ClaimStepMapped
  <1>2. CASE ReferenceStep
    BY <1>2, ReferenceStepMapped
  <1>3. CASE \E c \in Claims : CreateClaim(c) \/ DeleteClaim(c) \/ EditClaim(c)
    BY <1>3, UserStepMapped
  <1>4. CASE /\ Manager \/ Environment \/ UNCHANGED vars
             /\ ~\E c \in Claims : CreateClaim(c) \/ DeleteClaim(c) \/ EditClaim(c)
    BY <1>4, OtherStepMapped DEF OperatorIsReliable
  <1> QED BY <1>1, <1>2, <1>3, <1>4 DEF Next

\* Where the operator makes the projects, the two controllers, call by call and
\* in any order, implement ClaimLifecycle: nothing is taken from a claim that
\* is not being deleted, no claim is Ready without its project and Secret, none
\* goes while something of it is left, and there are never more projects than
\* claims, for any finite number of claims.
THEOREM OperatorImplementsLifecycle ==
  ASSUME IsFiniteSet(Claims), CCS = {}, NamesAreDistinct, CleanupIsReliable,
         ProvisioningIsReliable, CreationIsReliable
  PROVE  Spec => ImplementsLifecycle
  <1>1. OperatorIsReliable
    BY DEF OperatorIsReliable
  <1>2. ProjectsAreDistinct
    BY DEF ProjectsAreDistinct
  <1>3. Spec => []TypeInv
    BY KeysCorrect
  <1>4. Spec => []ClaimCopyInv
    BY ClaimCopies
  <1>5. Spec => []ReferenceCopyInv
    BY ReferenceCopies
  <1>6. Spec => []HeldInv
    BY DeletionsSeen, ReferencesAreHeld
  <1>7. Spec => []CleanupInv
    BY <1>2, CleanupIsPending
  <1>8. Spec => []ProvisionInv
    BY <1>2, ClaimsAreProvisioned
  <1>9. Spec => []ProjectTracked
    BY ProjectsAreTracked
  <1>10. Spec => []ReadyIsProvisioned
    BY <1>2, ReadyClaimsAreProvisioned
  <1>11. Spec => []LifecycleInv
    BY <1>3, <1>4, <1>5, <1>6, <1>7, <1>8, <1>9, <1>10, PTL DEF LifecycleInv
  <1>12. LifecycleInv /\ [Next]_vars => [Lifecycle!Next]_(Lifecycle!vars)
    BY <1>1, StepMapped
  <1>13. Init => Lifecycle!Init
    BY InitMapped
  <1> QED BY <1>11, <1>12, <1>13, PTL DEF Spec, ImplementsLifecycle, Lifecycle!Spec
=============================================================================
