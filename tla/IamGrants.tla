----------------------------- MODULE IamGrants -----------------------------
(***************************************************************************)
(* What the operator promises about the IAM policy of a GCP project: it    *)
(* gives a member all the roles it is entitled to in one step, or takes    *)
(* all roles of a member away in one step, and nobody else's roles change  *)
(* by it.  Others change their own roles meanwhile.                        *)
(***************************************************************************)

CONSTANTS
  Entitlements,  \* records of a member of the operator and a set of roles
  Others         \* the members the operator has nothing to do with

VARIABLE granted  \* the pairs <<role, member>> that the policy grants

Grant(e) == granted' = granted \cup {<<r, e.member>> : r \in e.roles}

Revoke(m) == granted' = {p \in granted : p[2] # m}

OthersChange ==
  {p \in granted' : p[2] \notin Others} = {p \in granted : p[2] \notin Others}

Next ==
  \/ \E e \in Entitlements : Grant(e) \/ Revoke(e.member)
  \/ OthersChange

\* The operator starts from whatever policy there is.
Spec == [][Next]_granted
=============================================================================
