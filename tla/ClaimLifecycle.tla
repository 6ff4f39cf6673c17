--------------------------- MODULE ClaimLifecycle ---------------------------
(***************************************************************************)
(* What the operator promises to those who make ProjectClaims, without its *)
(* controllers, references, caches and retries: a claim is given a project *)
(* and credentials before it is called ready, keeps them until it is       *)
(* deleted, and is gone only when they have been taken back.  There are    *)
(* never more projects than claims.                                        *)
(***************************************************************************)
EXTENDS Naturals, FiniteSets

CONSTANTS
  Claims,     \* of customers who do not bring their own project
  ProjectIDs  \* of the projects that the operator makes

VARIABLES
  phase,      \* absent, requested, rejected, ready or releasing, of each claim
  projects,   \* the projects that are active
  credentials \* the claims that have a Secret

vars == <<phase, projects, credentials>>

Alive == {c \in Claims : phase[c] # "absent"}

Init ==
  /\ phase = [c \in Claims |-> "absent"]
  /\ projects = {}
  /\ credentials = {}

Becomes(c, p) == phase' = [phase EXCEPT ![c] = p]
Keep == UNCHANGED <<projects, credentials>>

Request(c) == phase[c] = "absent" /\ Becomes(c, "requested") /\ Keep

\* A claim that is not acceptable, until it is again.
Reject(c) == phase[c] \in {"requested", "ready"} /\ Becomes(c, "rejected") /\ Keep
Reinstate(c) == phase[c] = "rejected" /\ Becomes(c, "requested") /\ Keep

\* A claim that is deleted is released, or goes at once if it has nothing.
Release(c) ==
  /\ phase[c] \in {"requested", "rejected", "ready"}
  /\ Becomes(c, "releasing")
  /\ Keep
Withdraw(c) ==
  /\ phase[c] \in {"requested", "rejected"}
  /\ c \notin credentials
  /\ Cardinality(projects) < Cardinality(Alive)
  /\ Becomes(c, "absent")
  /\ Keep

\* Something is acquired for a claim that is not ready yet, also if its
\* deletion has overtaken that, and given back for one that is released.
AcquireProject(c, id) ==
  /\ phase[c] \in {"requested", "rejected", "releasing"}
  /\ Cardinality(projects) < Cardinality(Alive)
  /\ projects' = projects \cup {id}
  /\ UNCHANGED <<phase, credentials>>
AcquireCredentials(c) ==
  /\ phase[c] \in {"requested", "rejected", "releasing"}
  /\ projects # {}
  /\ credentials' = credentials \cup {c}
  /\ UNCHANGED <<phase, projects>>
GiveBackProject(c, id) ==
  /\ phase[c] = "releasing"
  /\ projects' = projects \ {id}
  /\ UNCHANGED <<phase, credentials>>
GiveBackCredentials(c) ==
  /\ phase[c] = "releasing"
  /\ credentials' = credentials \ {c}
  /\ UNCHANGED <<phase, projects>>

\* EnsureProjectClaimReady does not look at why a claim is not Ready: one that
\* was rejected after its project was made becomes ready as well.
Provide(c) ==
  /\ phase[c] \in {"requested", "rejected"}
  /\ c \in credentials
  /\ projects # {}
  /\ Becomes(c, "ready")
  /\ Keep

Gone(c) ==
  /\ phase[c] = "releasing"
  /\ c \notin credentials
  /\ Cardinality(projects) < Cardinality(Alive)
  /\ Becomes(c, "absent")
  /\ Keep

Next ==
  \E c \in Claims :
    \/ Request(c) \/ Reject(c) \/ Reinstate(c) \/ Provide(c)
    \/ Release(c) \/ Withdraw(c) \/ Gone(c)
    \/ AcquireCredentials(c) \/ GiveBackCredentials(c)
    \/ \E id \in ProjectIDs : AcquireProject(c, id) \/ GiveBackProject(c, id)

Spec == Init /\ [][Next]_vars
=============================================================================
