----------------------------- MODULE IamPolicy -----------------------------
(***************************************************************************)
(* The IAM policy of one GCP project, as the ProjectReference controller   *)
(* edits it: SetIAMPolicy and DeleteIAMPolicy read the policy, edit the    *)
(* list of bindings and write it back, while others edit the same policy.  *)
(* GCP refuses a write that is not based on the stored version (etag), and *)
(* the operator tries again a few times.                                   *)
(*                                                                         *)
(* In ProjectReferenceController each of these is one step.  Here a step   *)
(* is one call to GCP, and IamGrants says what the steps amount to.        *)
(*                                                                         *)
(* A member is an email with its type, and the order of the members of a   *)
(* binding is left out.  A binding whose last member is removed stays in   *)
(* the list: whether GCP drops it makes no difference to who has which     *)
(* role.                                                                   *)
(*                                                                         *)
(* A definition marked "Variant" is the next one with a fault in it, which *)
(* the properties have to notice.                                          *)
(***************************************************************************)
EXTENDS Naturals, SequencesExt

CONSTANTS
  ServiceAccount,            \* the member the claim's key belongs to
  RequiredRoles,             \* OSDRequiredRoles, with or without shared VPC
  CCSConsoleAccess,          \* groups in the config map, a sequence
  ConsoleAccessRoles,        \* OSDSREConsoleAccessRoles
  CCSReadOnlyConsoleAccess,  \* groups in the config map, a sequence
  ReadOnlyConsoleRoles,      \* OSDReadOnlyConsoleAccessRoles
  Others,                    \* the members that others give roles to
  InitialPolicies,           \* the policies the project may have at first
  Faults                     \* a subset of {"gcpError", "replyLost", "crash"}

ASSUME OthersAssumption ==
  ({ServiceAccount} \cup Range(CCSConsoleAccess) \cup Range(CCSReadOnlyConsoleAccess))
    \cap Others = {}
ASSUME GroupsAssumption ==
  /\ CCSConsoleAccess \in Seq(Range(CCSConsoleAccess))
  /\ CCSReadOnlyConsoleAccess \in Seq(Range(CCSReadOnlyConsoleAccess))
ASSUME RolesAssumption ==
  IsFiniteSet(RequiredRoles) /\ IsFiniteSet(ConsoleAccessRoles) /\ IsFiniteSet(ReadOnlyConsoleRoles)
ASSUME IamFaultsAssumption == Faults \subseteq {"gcpError", "replyLost", "crash"}

VARIABLES
  policy,  \* the stored bindings
  fresh,   \* whether the worker's copy has the etag of the stored policy
  worker,  \* the worker of the ProjectReference controller
  result   \* how its last reconcile ended

vars == <<policy, fresh, worker, result>>

-----------------------------------------------------------------------------
(* Lists of bindings.                                                      *)

\* The pairs <<role, member>> that a list of bindings grants.
Pairs(bindings) ==
  UNION {{<<bindings[i].role, m>> : m \in bindings[i].members} : i \in DOMAIN bindings}

BindingRoles(bindings) == {bindings[i].role : i \in DOMAIN bindings}

\* The first binding of its role: AddOrUpdateBinding strikes a role off the
\* required ones at the first binding that has it.
IsFirst(bindings, i) == \A j \in 1 .. i - 1 : bindings[j].role # bindings[i].role

\* AddOrUpdateBinding: the first binding of each required role gets the member
\* unless it has it, and the roles without a binding get a new one, in the
\* arbitrary order in which Go walks a map.  "Modified" is that the result
\* differs from the argument.
AddOrUpdateBinding(bindings, roles, member) ==
  LET updated == [i \in DOMAIN bindings |->
                    IF bindings[i].role \in roles /\ IsFirst(bindings, i)
                    THEN [bindings[i] EXCEPT !.members = @ \cup {member}]
                    ELSE bindings[i]]
      missing == roles \ BindingRoles(bindings)
  IN  {updated \o [i \in DOMAIN order |-> [role |-> order[i], members |-> {member}]] :
         order \in SetToSeqs(missing)}

\* RemoveOrUpdateBinding: every binding loses the member.
RemoveOrUpdateBinding(bindings, member) ==
  [i \in DOMAIN bindings |-> [bindings[i] EXCEPT !.members = @ \ {member}]]

-----------------------------------------------------------------------------
(* What a reconcile has to do to the policy.                               *)

Task(op, member, roles) == [op |-> op, member |-> member, roles |-> roles]

ForGroups(op, groups, roles) ==
  [i \in DOMAIN groups |-> Task(op, groups[i], roles)]

\* The groups of the config map, those with more access first.
GroupTasks(op, console, readOnly) ==
  ForGroups(op, CCSConsoleAccess, console) \o ForGroups(op, CCSReadOnlyConsoleAccess, readOnly)

\* EnsureProjectConfigured for a CCS project: the service account, then the
\* groups.
ConfigureTasks ==
  <<Task("grant", ServiceAccount, RequiredRoles)>>
    \o GroupTasks("grant", ConsoleAccessRoles, ReadOnlyConsoleRoles)

\* EnsureProjectCleanedUp: deleteServiceAccount, then ensureCCSProjectCleanedUp.
\* The first looks for the account, and returns without an edit of the policy
\* if GCP has none: the roles of the account stay where they are.
GroupCleanUpTasks == GroupTasks("revoke", {}, {})
CleanUpTasks == <<Task("revoke", ServiceAccount, {})>> \o GroupCleanUpTasks

Entitlements ==
  {[member |-> t.member, roles |-> t.roles] : t \in Range(ConfigureTasks)}

\* The bindings that a task may make of these.
Edited(task, bindings) ==
  IF task.op = "grant" THEN AddOrUpdateBinding(bindings, task.roles, task.member)
  ELSE {RemoveOrUpdateBinding(bindings, task.member)}

-----------------------------------------------------------------------------
(* The worker.  "get" and "set" are the calls to GCP it is about to make.  *)

MaxRetries == 3

Idle == [pc |-> "idle", job |-> "none", todo |-> <<>>, copy |-> <<>>, retry |-> 0]

\* The reconcile ends: a task failed, or there is none left.
Finish(res) == worker' = Idle /\ result' = res

\* Without groups in the config map there may be nothing to do.
Begin(job, tasks) ==
  /\ worker.pc = "idle"
  /\ IF tasks = <<>> THEN Finish(job)
     ELSE /\ worker' = [Idle EXCEPT !.pc = "get", !.job = job, !.todo = tasks]
          /\ result' = "none"
  /\ UNCHANGED <<policy, fresh>>

Configure == Begin("configured", ConfigureTasks)
CleanUp == Begin("cleanedUp", CleanUpTasks)
CleanUpWithoutAccount == Begin("groupsCleanedUp", GroupCleanUpTasks)

\* The task is done and the next one starts.
NextTask ==
  IF Len(worker.todo) = 1 THEN Finish(worker.job)
  ELSE /\ worker' = [worker EXCEPT !.pc = "get", !.todo = Tail(@), !.copy = <<>>,
                                   !.retry = 0]
       /\ UNCHANGED result

\* GetIamPolicy and the edit.  Nothing is written if nothing changes.
GetIamPolicy ==
  /\ worker.pc = "get"
  /\ \/ \E b \in Edited(worker.todo[1], policy) :
          IF b = policy
          THEN NextTask /\ UNCHANGED fresh
          ELSE /\ worker' = [worker EXCEPT !.pc = "set", !.copy = b]
               /\ fresh' = TRUE
               /\ UNCHANGED result
     \/ "gcpError" \in Faults /\ Finish("failed") /\ UNCHANGED fresh
  /\ UNCHANGED policy

\* Variant: the write does not carry the etag that was read.
SetIamPolicyWithoutEtag ==
  /\ worker.pc = "set"
  /\ policy' = worker.copy
  /\ fresh' = FALSE
  /\ NextTask

\* SetIamPolicy, accepted.  The answer may be lost.
SetIamPolicy ==
  /\ worker.pc = "set"
  /\ fresh
  /\ policy' = worker.copy
  /\ fresh' = FALSE
  /\ NextTask \/ ("replyLost" \in Faults /\ Finish("failed"))

\* SetIamPolicy, with an error that is not a conflict.
SetIamPolicyFails ==
  /\ worker.pc = "set"
  /\ "gcpError" \in Faults
  /\ Finish("failed")
  /\ UNCHANGED <<policy, fresh>>

\* Variant: the tries are not counted.
ConflictAlwaysRetried ==
  /\ worker.pc = "set"
  /\ ~fresh
  /\ worker' = [worker EXCEPT !.pc = "get", !.copy = <<>>]
  /\ UNCHANGED <<result, policy, fresh>>

\* Variant: one try too many.
ConflictOffByOne ==
  /\ worker.pc = "set"
  /\ ~fresh
  /\ IF worker.retry <= MaxRetries
     THEN /\ worker' = [worker EXCEPT !.pc = "get", !.copy = <<>>, !.retry = @ + 1]
          /\ UNCHANGED result
     ELSE Finish("failed")
  /\ UNCHANGED <<policy, fresh>>

\* Variant: after the last try the conflict is forgotten.
ConflictForgotten ==
  /\ worker.pc = "set"
  /\ ~fresh
  /\ IF worker.retry < MaxRetries
     THEN /\ worker' = [worker EXCEPT !.pc = "get", !.copy = <<>>, !.retry = @ + 1]
          /\ UNCHANGED result
     ELSE NextTask
  /\ UNCHANGED <<policy, fresh>>

\* SetIamPolicy, refused with 409: the loop starts again with a new read, up to
\* three times.
Conflict ==
  /\ worker.pc = "set"
  /\ ~fresh
  /\ IF worker.retry < MaxRetries
     THEN /\ worker' = [worker EXCEPT !.pc = "get", !.copy = <<>>, !.retry = @ + 1]
          /\ UNCHANGED result
     ELSE Finish("failed")
  /\ UNCHANGED <<policy, fresh>>

\* The operator is restarted.
Crash ==
  /\ "crash" \in Faults
  /\ worker.pc # "idle"
  /\ Finish("failed")
  /\ UNCHANGED <<policy, fresh>>

\* Someone gives a role to another member, or takes it away.
OtherWrites(role, m) ==
  /\ \/ /\ <<role, m>> \notin Pairs(policy)
        /\ policy' \in AddOrUpdateBinding(policy, {role}, m)
     \/ /\ <<role, m>> \in Pairs(policy)
        /\ policy' = [i \in DOMAIN policy |->
                        IF policy[i].role = role
                        THEN [policy[i] EXCEPT !.members = @ \ {m}] ELSE policy[i]]
  /\ fresh' = FALSE
  /\ UNCHANGED <<worker, result>>

-----------------------------------------------------------------------------
Roles == RequiredRoles \cup ConsoleAccessRoles \cup ReadOnlyConsoleRoles
Members == {e.member : e \in Entitlements} \cup Others
Binding == [role : Roles, members : SUBSET Members]
Tasks == Range(ConfigureTasks) \cup Range(CleanUpTasks)
Jobs == {"configured", "cleanedUp", "groupsCleanedUp"}

ASSUME InitialPoliciesAssumption == InitialPolicies \subseteq Seq(Binding)

\* The type invariant, with the number of retries and that a busy worker has
\* something to do.
IamTypeOK ==
  /\ policy \in Seq(Binding)
  /\ fresh \in BOOLEAN
  /\ worker \in [pc : {"idle", "get", "set"}, job : {"none"} \cup Jobs,
                todo : Seq(Tasks), copy : Seq(Binding), retry : 0 .. MaxRetries]
  /\ worker.pc # "idle" => worker.todo # <<>>
  /\ result \in {"none", "failed"} \cup Jobs

Init ==
  /\ policy \in InitialPolicies
  /\ fresh = FALSE
  /\ worker = Idle
  /\ result = "none"

WorkerStep == GetIamPolicy \/ SetIamPolicy \/ SetIamPolicyFails \/ Conflict

Next ==
  \/ Configure \/ CleanUp \/ CleanUpWithoutAccount
  \/ WorkerStep
  \/ Crash
  \/ \E role \in Roles, m \in Others : OtherWrites(role, m)

Spec == Init /\ [][Next]_vars

\* A reconcile that has begun goes on.  Others may write at any time.
FairSpec == Spec /\ WF_vars(WorkerStep)

-----------------------------------------------------------------------------
\* The edits of a list of bindings, with all their reads and retries, amount to
\* atomic changes of who has which role: no write of the operator undoes what
\* someone else wrote between its read and its write, and each gives a member
\* all the roles or takes all away.
Grants == INSTANCE IamGrants WITH granted <- Pairs(policy)
ImplementsGrants == Grants!Spec

\* A reconcile that reports success has left every member with the roles it is
\* entitled to, and a cleanup that does has left none, except to a service
\* account that it did not find, however many of the writes before it were
\* refused, lost or cut short.
SuccessMeansDone ==
  /\ result = "configured" =>
       \A e \in Entitlements : \A r \in e.roles : <<r, e.member>> \in Pairs(policy)
  /\ result = "cleanedUp" =>
       \A e \in Entitlements : \A p \in Pairs(policy) : p[2] # e.member
  /\ result = "groupsCleanedUp" =>
       \A e \in Entitlements : \A p \in Pairs(policy) : p[2] = e.member => e.member = ServiceAccount

\* Why these hold.  A task that is no longer on the worker's list is done, and
\* stays done: the tasks of a reconcile never undo one another, and others
\* leave the operator's members alone.  A copy that GCP would accept is the
\* edit of the policy as it is now.
TasksOf(job) ==
  CASE job = "configured" -> ConfigureTasks
    [] job = "cleanedUp" -> CleanUpTasks
    [] job = "groupsCleanedUp" -> GroupCleanUpTasks

Done(task, bindings) ==
  IF task.op = "grant" THEN \A r \in task.roles : <<r, task.member>> \in Pairs(bindings)
  ELSE \A p \in Pairs(bindings) : p[2] # task.member

\* The invariant that SuccessMeansDone and ImplementsGrants rest on.
EditInv ==
  /\ worker.pc # "idle" =>
       /\ result = "none"
       /\ worker.job \in Jobs
       /\ worker.todo \in Seq(Range(TasksOf(worker.job)))
       /\ \A t \in Range(TasksOf(worker.job)) : t \in Range(worker.todo) \/ Done(t, policy)
  /\ worker.pc = "set" /\ fresh => worker.copy \in Edited(worker.todo[1], policy)
  /\ result \in Jobs => \A t \in Range(TasksOf(result)) : Done(t, policy)

\* However often others get in between, a reconcile ends.
EditEnds == worker.pc # "idle" ~> worker.pc = "idle"
=============================================================================
