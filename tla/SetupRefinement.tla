-------------------------- MODULE SetupRefinement --------------------------
(***************************************************************************)
(* The calls of ProjectSetup implement the steps of                        *)
(* ProjectReferenceController.  The project there has one Boolean for what *)
(* is done by several calls here: that the configured account is linked,   *)
(* and that all the APIs are accepted.  The operation under way there      *)
(* follows from the call under way here.                                   *)
(***************************************************************************)
EXTENDS ProjectSetup

CONSTANTS
  TheClaim,  \* the claim of the project
  ID,        \* the project's ID
  Nil

ASSUME IDAssumption == ID # Nil

\* While the project is set up one billing account is configured, and it has a
\* name.  An account that was linked before may be another one.
AccountIsFixed ==
  /\ <<>> \notin ConfiguredAccounts
  /\ \A a, b \in ConfiguredAccounts : a = b

\* configureBillingAPI enables an API that is not in OSDRequiredAPIS.
BillingIsApart == BillingAPI \notin RequiredAPIs

\* The operation that the worker is in.  The APIs are configured with the call
\* that asks for the last of them, although a call for one that was not listed
\* may follow.
Operation ==
  CASE w.pc \in {"ListBillingAPIs", "EnableBillingAPI", "BillingInfo", "Unlink", "Link"} ->
         "Billing"
    [] w.pc = "ListAPIs" -> "APIs"
    [] w.pc = "EnableAPI" ->
         IF RequiredAPIs \subseteq gcp.accepted THEN "ServiceAccount" ELSE "APIs"
    [] w.pc \in {"GetAccount", "CreateAccount"} -> "ServiceAccount"
    [] w.pc \in {"Credentials", "CreateKey", "GetKey"} -> "Credentials"
    [] OTHER -> w.pc

TheReference == TheClaim.ns \o TheClaim.name

ReferenceObject ==
  [exists |-> TRUE, deleting |-> FALSE, finalizer |-> TRUE, owner |-> TheClaim,
   projectID |-> ID, saName |-> TRUE, inited |-> TRUE, error |-> "none",
   compute |-> "none", state |-> "Creating"]

ClaimObject ==
  [exists |-> TRUE, deleting |-> FALSE, finalizer |-> TRUE, valid |-> TRUE,
   link |-> TRUE, zones |-> FALSE, projectID |-> Nil, inited |-> TRUE,
   invalid |-> "none", error |-> "none", state |-> "PendingProject"]

ProjectObject ==
  [life |-> "ACTIVE", billing |-> gcp.billing \in ConfiguredAccounts,
   apis |-> RequiredAPIs \subseteq gcp.accepted, sa |-> gcp.account,
   bound |-> gcp.bound, console |-> FALSE]

\* The state of ProjectReferenceController, as far as it is not constant here.
TheWorker ==
  [pc |-> Operation, key |-> TheReference, ref |-> ReferenceObject,
   claim |-> ClaimObject, out |-> w.out]
TheProjects == [id \in {ID} |-> ProjectObject]
TheSecrets == [c \in {TheClaim} |-> IF kube.secret THEN ID ELSE Nil]
CachedSecrets == [c \in {TheClaim} |-> kube.cached]

\* The faults there that stand for those of the calls.
CallFaults == {"gcpError", "apiError", "accountLate", "secretLag"}

Controller == INSTANCE ProjectReferenceController WITH
  Claims <- {TheClaim}, CCS <- {}, CCSProject <- <<>>, ProjectIDs <- {ID},
  Faults <- CallFaults,
  claim <- [c \in {TheClaim} |-> ClaimObject],
  claimCur <- [c \in {TheClaim} |-> {"cache", "refCtl"}],
  claimCache <- [c \in {TheClaim} |-> ClaimObject],
  claimQ <- {},
  ref <- [r \in {TheReference} |-> ReferenceObject],
  refCur <- [r \in {TheReference} |-> {"cache", "refCtl"}],
  refCache <- [r \in {TheReference} |-> ReferenceObject],
  refQ <- {},
  secret <- TheSecrets,
  secretCache <- CachedSecrets,
  ccsSecret <- [c \in {TheClaim} |->
                  [exists |-> FALSE, deleting |-> FALSE, finalizer |-> FALSE]],
  project <- TheProjects,
  issued <- {ID},
  disabled <- {},
  stable <- stable,
  cw <- Nil,
  rw <- TheWorker

\* Too many keys are not among the errors of ProjectReferenceController.
OutOfKeys == w.pc = "CreateKey" /\ gcp.keys >= KeyLimit

\* Every call of the setup, with its retries, pages and lost answers, is a step
\* of ProjectReferenceController or none: what the runs of the whole operator
\* assume of configureBillingAPI, configureAPIS, configureServiceAccount and
\* createCredentials is what the client's loops do.
SetupImplementsController ==
  [][w.pc \in SetupCalls /\ ~OutOfKeys /\ w' # Idle =>
       Controller!ReferenceStep \/ UNCHANGED Controller!vars]_vars
=============================================================================
