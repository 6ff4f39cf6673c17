---------------------------- MODULE MCIamPolicy ----------------------------
(***************************************************************************)
(* The instance of IamPolicy that TLC checks: a service account with two   *)
(* roles, a group that is in both lists of the config map, a read-only     *)
(* group, and another member whose roles others change.                    *)
(***************************************************************************)
EXTENDS IamPolicy

CONSTANTS r1, r2, sa, sre, audit, user

ConsoleGroups == <<sre>>
ReadOnlyGroups == <<audit, sre>>

Bind(role, members) == [role |-> role, members |-> members]

\* An empty policy, one with the user, one that a former cleanup left half
\* done, and one that lists a role twice.
SomePolicies ==
  { <<>>,
    <<Bind(r1, {user})>>,
    <<Bind(r2, {sa, sre}), Bind(r1, {user, sa})>>,
    <<Bind(r1, {user}), Bind(r1, {sa, audit})>> }
=============================================================================
