------------------------ MODULE LifecycleRefinement ------------------------
(***************************************************************************)
(* The whole operator implements ClaimLifecycle: the phase of a claim      *)
(* follows from the object in the API server, the projects and credentials *)
(* are those that are really there.                                        *)
(***************************************************************************)
EXTENDS ProvisionInvariant

PhaseOf(o) ==
  IF ~o.exists THEN "absent"
  ELSE IF o.deleting THEN "releasing"
  ELSE IF o.state = "Ready" THEN "ready"
  ELSE IF o.state = "Error" THEN "rejected"
  ELSE "requested"

ActiveProjects == {id \in ProjectIDs \ CCSProjectIDs : project[id].life = "ACTIVE"}

Lifecycle == INSTANCE ClaimLifecycle WITH
  ProjectIDs <- ProjectIDs \ CCSProjectIDs,
  phase <- [c \in Claims |-> PhaseOf(claim[c])],
  projects <- ActiveProjects,
  credentials <- {c \in Claims : secret[c] # Nil}

\* Whatever the two controllers do, call by call and in any order, looks to the
\* user like ClaimLifecycle: nothing is taken from a claim that is not being
\* deleted, no claim is called Ready without its project and Secret, none goes
\* while something of it is left, and no claim ever gets a second project.
ImplementsLifecycle == Lifecycle!Spec
=============================================================================
