------------------------ MODULE MCGcpProjectOperator ------------------------
(***************************************************************************)
(* The instances of GcpProjectOperator that TLC checks.  A configuration   *)
(* file chooses the claims, the project IDs and the faults.                *)
(***************************************************************************)
EXTENDS LifecycleRefinement, WakeInvariant, TLC

\* One ProjectClaim, a/b.
OneClaim == {[ns |-> <<"a">>, name |-> <<"b">>]}

\* Two claims of the same name in two namespaces, a/b and c/b.
TwoClaims == {[ns |-> <<"a">>, name |-> <<"b">>], [ns |-> <<"c">>, name |-> <<"b">>]}

\* Two claims, a-b/c and a/b-c, whose references have the same name a-b-c.
Shadowed ==
  {[ns |-> <<"a", "b">>, name |-> <<"c">>], [ns |-> <<"a">>, name |-> <<"b", "c">>]}

\* No claim is CCS.
NoClaims == {}
NoCCSProject == [c \in NoClaims |-> Nil]

\* The one claim is CCS, and its customer brings the one project there is.
OwnProject == [c \in OneClaim |-> CHOOSE id \in ProjectIDs : TRUE]

\* Without CCS claims nothing tells one project ID from another.
Interchangeable == Permutations(ProjectIDs)
=============================================================================
