# A TLA+ model of gcp-project-operator

gcp-project-operator is a Kubernetes operator that provides OpenShift clusters
with GCP projects. A user creates a `ProjectClaim`; the operator creates a
`ProjectReference`, a GCP project with billing, APIs, a service account and its
roles, and a Secret with a key for that account. When the claim is deleted, all
of this has to go. This directory models how the two controllers do that, and
checks and proves that no interleaving, restart, stale cache or failed call
leaves a project that nobody will delete, a claim that is `Ready` and is not, or
one that waits for ever. It also records the cases in which one does.

## 1. Inventory

| Part (source) | State | Operations | Where |
|---|---|---|---|
| ProjectClaim controller (`controllers/projectclaim`) | a copy of one claim, the place in the chain of operations | `Reconcile`, `ReconcileHandler`, eleven `Ensure...` operations, `FinalizeProjectClaim` | `ProjectClaimController` |
| ProjectReference controller (`controllers/projectreference`) | copies of one reference and its claim, the place in the chain | `Reconcile`, `ReconcileHandler`, eleven operations, `EnsureProjectCleanedUp` | `ProjectReferenceController` |
| custom resources (`api/v1alpha1`) | spec, status, finalizers | `Validate` | `OperatorState` |
| operation results (`pkg/util/reconclile_operation.go`) | - | how a result becomes a requeue | `OperatorState` |
| API server, informer caches, work queues (external) | stored objects, caches, queues | get, update, status update, create, delete, watch | `OperatorState`, `GcpProjectOperator` |
| GCP (external) | projects and what is configured in them | list, create, delete, configure | `ProjectReferenceController`, in more detail `ProjectSetup` |
| GCP client (`pkg/gcpclient`) | - | one request, or a loop of requests, each | `ProjectSetup`, `IamPolicy` |
| condition manager (`pkg/condition`) | conditions in a status, with their transition times | set, find, has | `ConditionManager` |
| IAM bindings (`pkg/util/util.go`) | role bindings | add, remove, and the read-modify-write around them | `IamPolicy` |
| config map (`pkg/configmap`) | billing account, folder, disabled regions, console groups | read, validate | `ProjectSetup`; `disabled`; constants of `IamPolicy` |
| fake claims (`projectclaim_fake.go`) | a Secret | an own path through the handler | `FakeClaim` |
| manager (`main.go`) | one worker for each controller | start, restart | `Crash` |

The controllers never call each other. They communicate through the stored
objects: the claim controller creates and deletes references and moves the claim
to `PendingProject`; the reference controller waits for that, sets the project
up, moves the reference to `Ready` and then fills in the claim and makes it
`Ready`. Each controller is woken only by events of its own kind of object, so
whatever one does for the other has to be picked up by polling (`RequeueAfter`)
or by an event that happens to follow.

What is hard here:

* two workers write the same claim, each from a copy that may be stale;
* reads come from informer caches that may be behind, writes are accepted or
  refused by resourceVersion, GCP calls are not protected by either;
* every reconcile is a sequence of calls with effects, and may fail or be cut
  short by a restart after any of them;
* the claim and the reference each have a finalizer, and for customers who bring
  their own project (CCS) so has the customer's Secret; what protects what, and
  when, is a matter of order;
* progress depends on wake-ups that are easy to lose.

`PROJECT.json` lists the hazards, each at its line, with the properties that
would notice it going wrong.

## 2. The modules

    OperatorState                   objects, API server, caches, faults
      ProjectClaimController        the worker cw
      ProjectReferenceController    the worker rw, GCP
        GcpProjectOperator          both, informers, users, restarts; the properties
          TrackingInvariant         inductive invariants of references and projects
            ClaimInvariant          inductive invariants of claims and references
              CleanupInvariant      inductive invariants of what has to be cleaned up
                ProvisionInvariant  inductive invariant of what a Ready claim has
                  LifecycleRefinement     implements ClaimLifecycle
                  WakeInvariant     inductive invariant of who looks at what next
                    MCGcpProjectOperator  the instances for TLC (with LifecycleRefinement)
            TrackingProofs          TypeInv, TypeOK, ProjectTracked
              ClaimProofs           ReadyIsKept, LinkedReferenceIsOwn,
                                    FinalizedReferenceHasClaim (with ClaimInvariant)
                CleanupProofs       NothingLeftBehind, CCSSecretHeld (with CleanupInvariant)
                  ProvisionProofs   ReadyIsProvisioned (with ProvisionInvariant)
                    LifecycleProofs ImplementsLifecycle (with LifecycleRefinement)
                    WakeProofs      NoLostWakeup (with WakeInvariant)
          FakeClaim                 claims marked as fake; MCFakeClaim
    ClaimLifecycle                  what a user sees (abstract)

    IamPolicy                       the IAM policy, call by call; MCIamPolicy
      implements IamGrants          who has which role (abstract)
      IamPolicyProofs               that it does, and SuccessMeansDone

    ConditionManager                lists of conditions
      ProjectSetup                  the setup of a project, call by call
        SetupRefinement             implements ProjectReferenceController; MCProjectSetup
          SetupProofs               its safety properties, and that it does

The first group is the operator as a whole. A call that takes several requests to
GCP is one step in it. The other two take those steps apart, on one project, and show
that their requests amount to the steps: `SetupImplementsController` maps every
request of `ProjectSetup` to a step of `ProjectReferenceController` or to none, and
`ImplementsGrants` does the same for the IAM policy and `IamGrants`. In the other
direction, `ImplementsLifecycle` shows that the whole operator implements a
specification without references, caches or workers.

**Objects.** A claim or reference is a record with one field per fact that the
code branches on: `finalizer`, `deleting` (the deletion timestamp), `link`,
`zones`, `projectID`, `saName`, `inited` (status.conditions is not nil), `state`
and one field per condition type. A condition is absent, set, or "Resolved";
messages and times are left out. A Secret is the ID of the project that its key
opens. Names are sequences of dash-separated parts, so that `namespace + "-" +
name` is concatenation, which is not injective.

**API server.** `claimCur[c]` and `refCur[r]` hold who has the stored version:
the cache, a worker. A write is accepted from a holder only and takes the
version away from all others (`Replies`). `Update` ignores the status in the
request and `Status().Update` everything else; the answer replaces the object in
memory. An object with a deletion timestamp and no finalizer is removed. A
status update that changes nothing but timestamps may or may not make a new
version, as timestamps have a resolution of one second (`touched`).

**Caches and queues.** `SyncClaim`, `SyncRef` and `SyncSecret` bring a cache up
to date and enqueue the object. Without the fault `cacheLag` a worker reads only
what is up to date; with it, anything the cache has shown so far. Queues are
sets, as work queues drop duplicates. controller-runtime runs one worker per
controller here (`SetupWithManager` sets no `MaxConcurrentReconciles`).

**Reconciles.** `StartClaim` and `StartReference` take a key from the queue, read
the cache and go to the first operation that has something to do: the operations
before it look at nothing but the copy. From then on, every call that changes
something is one action, named after the operation in the code. When the chain
ends, `FinishClaim` or `FinishReference` writes the error condition, as
`Reconcile` does, and requeues what the result asks for. In-memory edits that
were never written are part of the copy, and the write of the condition stores
them, as in the code. `Requeue()` becomes `RequeueAfter: 0`, which is no request
at all (`Requeued`).

**GCP.** A project has a lifecycle state and five Booleans: billing, APIs, service
account, roles, console access. `Configure` is a call that sets one of them: it may
succeed, fail, or take effect and fail. Enabling the APIs, linking the billing
account and the read-modify-write of an IAM policy are one step each here, and
listing projects is one step with the call that follows it. With the fault
`accountLate` a service account that exists may not be found yet.

**ProjectSetup.** One reference whose project exists, from `configureBillingAPI` to the
claim being `Ready`; an action is one request. The project has a set of APIs,
a billing account, a service account with its roles and a number of keys.
`services.enable` starts an operation that the client does not wait for: an API is in
`gcp.accepted` once GCP has accepted the request, and that the operation still runs shows in
listings without the API (`listPartial`) and in calls that fail (`computeLate`, `gcpError`). The
loops of the client keep their counters (`gcpAPIRetriesCount`, `KeyTries`), and the
APIs that are still to be enabled are places in the code's list, taken in order.
Account and region names are sequences of their parts, so that `TrimSuffix` and
`Contains` can be modelled by what they do. The status of the reference is a list of
conditions as `ConditionManager` keeps them: instead of `LastTransitionTime` a
condition has the time since then, up to `MaxAge`, and `Tick` lets time pass. The
config map may be absent, incomplete or different on every reconcile.

**IamPolicy.** A policy is a list of bindings, as in the code, with a role that may
occur twice; new bindings are appended in the arbitrary order of a Go map. The etag is
the variable `fresh`: whether the policy the worker read is still the stored one.
A reconcile is a list of members to grant roles to or to remove, in the order of
`EnsureProjectConfigured` and `EnsureProjectCleanedUp`. `deleteServiceAccount` leaves the policy
alone if GCP does not find the account, so a cleanup has that member on its list
(`CleanUp`) or only the groups (`CleanUpWithoutAccount`).

**FakeClaim.** Both controllers, the API server and the users of `GcpProjectOperator`, with an
annotation that a user may add at any moment: before, during and after a real setup. A claim that is
marked takes `StartFake`, any other `StartClaim`; the reference controller does not know the
annotation and goes on. The Secret may be made under the name that was asked for and under the name of
the claim, which the spec gets later, so Secrets are kept by name (`credentials`), and the three steps of the
reference controller that touch one are restated: `CreateKeyByName`,
`CreateSecretByName` and `DeleteCredentialsByName`. The claims are there from the start and are
not created again.

**ClaimLifecycle.** The phase of each claim, the set of active projects and the claims
with credentials. A project belongs to no particular claim in it: what it says is that
there are never more of them than claims, that none is taken from a claim that is not
being deleted, and that a claim goes only if there is none too many without it.

**Faults.** `Faults` names what an instance allows; `AllFaults` describes each.
`Faulty(f)` stops being true after `Stabilise`, which the liveness runs use for
"once the disturbances are over". Users' deletions and the resync go on.

**Variants.** A definition marked "Variant" is the definition after it with one
fault, such as a dropped guard. `PROJECT.json` names, for each property of each
run, a variant under which TLC finds that property violated.

Assumed throughout: the operator's credentials are present, and but for `ProjectSetup` so is
a complete config map; reads of the cache return the object or "not found"; the customer's
Secret is read without lag; two claims do not name the same credentials Secret or
bring the same project; `ProjectReference.Validate`, which looks only at fields
copied from a validated claim, passes; `SharedVPCAccess` adds roles and no control
flow.

## 3. Properties

| Property | What it says |
|---|---|
| `ProjectTracked` | every active project the operator made is named by a reference that holds the finalizer |
| `FinalizedReferenceHasClaim` | a reference with its finalizer has a claim that waits for it; without the claim it could never be reconciled |
| `ReadyIsProvisioned` | a `Ready` claim has zones, ID, an active configured project, and a Secret for that project |
| `NothingLeftBehind` | once a claim is gone, its Secret is, and in a CCS project the account, its roles and the console access |
| `CCSSecretHeld` | as long as something of the operator is in a CCS project, the customer's Secret is held by a finalizer |
| `LinkedReferenceIsOwn` | the reference that a claim is linked to was made for it |
| `NoLostWakeup` | when queues are empty, workers idle and caches up to date, every claim is `Ready`, rejected, or gone |
| `ReadyIsKept` | (action) a claim leaves `Ready` only for `Error` |
| `ClaimBecomesReady`, `DeletionCompletes` | (liveness) what their names say |
| `ImplementsLifecycle` | (refinement) the operator implements `ClaimLifecycle` |
| `ImplementsGrants` | (refinement) the edits of the policy are atomic grants and revocations, and undo nothing that others wrote |
| `SuccessMeansDone` | a reconcile that reports success left every member with its roles, a cleanup with none, except a service account that it did not find |
| `EditEnds` | (liveness) however often others write in between, the loops on the policy end |
| `DoneIsConfigured` | when the claim is told that it is `Ready`, every request of the setup has had its effect, with the configured account and zones of the region |
| `TransitionTimeIsTrue` | the time in `ComputeApiReady`, from which the ten minutes are measured, is that of its last change |
| `SetupImplementsController` | (action) the requests implement the steps of `ProjectReferenceController` |
| `ReconcileEnds`, `SetupCompletes` | (liveness) no loop of the client goes on for ever; once nothing goes wrong the claim becomes `Ready`, as long as a key is left |
| `FakeReadyHasSecret` | a claim that is `Ready`, for real or as a fake, has the Secret that its spec names, except in the window of section 5 |
| `FakeLeavesNothing` | when a fake claim is gone, so are the Secret of its name and a reference with its finalizer |
| `FakeStopsOnlyCleanedUp` | a fake claim that is being deleted and that nobody looks at any more has nothing left to wait for but its reference, which is gone or going |
| `FakeBecomesReady` | (liveness) a valid fake claim becomes `Ready` with the spec of a fake and the Secret that it names |
| `ZonesAreOfRegion` | README.md: the zones of a claim are in its region; violated |

`TypeInv` is the type invariant with the keys of the workers and the owners of
the references, `IamTypeOK` that of `IamPolicy` with the number of tries;
`TrackingInv`, `ClaimCopyInv`, `HeldInv`, `CleanupInv`, `SecretHeldInv`, `ProvisionInv`,
`WakeInv`, `EditInv` and `SetupInv` are the inductive invariants of section 6, which the runs check
as well.

## 4. Runs

One claim is enough for most questions, since claims interact only through the
names of references, the queues and the workers, which `two_claims` looks at.
`ProjectIDs` bounds how often an ID is generated: with two, a creation can be
refused and tried again, and a claim can be deleted and created again with a fresh
project. Queues, caches and copies are finite by construction.

| Run | Faults | Properties | States |
|---|---|---|---|
| `provision` | claimDeleted, createFails, gcpError, crash, computeLate, accountLate | `TypeInv`, `TrackingInv`, `FinalizedReferenceHasClaim`, `ReadyIsProvisioned`, `NothingLeftBehind`, `NoLostWakeup`, `WakeInv`, `ReadyIsKept`, `ImplementsLifecycle` | 0.4 M |
| `stale_cache` | claimDeleted, cacheLag, apiError, replyLost | `ProjectTracked`, `ClaimCopyInv`, `HeldInv` | 2.4 M |
| `ccs` | claimDeleted, ccsDeleted, config, crash, gcpError, resync | `CCSSecretHeld`, `NothingLeftBehind`, `CleanupInv`, `SecretHeldInv` | 2.4 M |
| `outsiders` | edit, adminDeletes, refDeleted | `ProjectTracked`, `FinalizedReferenceHasClaim`, `ReadyIsKept` | 3.9 M |
| `two_claims` | createLost | `LinkedReferenceIsOwn`, `ProvisionInv` | 0.8 M |
| `live` | claimDeleted, listPartial, gcpError, computeLate, crash, stabilises | `ReadyIsProvisioned`, `ClaimBecomesReady`, `DeletionCompletes` | 0.1 M |
| `iam` | gcpError, replyLost, crash | `IamTypeOK`, `SuccessMeansDone`, `EditInv`, `ImplementsGrants`, `EditEnds` | 0.02 M |
| `fake` | claimDeleted, crash, stabilises | `FakeReadyHasSecret`, `FakeLeavesNothing`, `FakeStopsOnlyCleanedUp`, `FakeBecomesReady` | 0.4 M |
| `setup` | all of `AllSetupFaults` | `DoneIsConfigured`, `TransitionTimeIsTrue`, `SetupInv`, `SetupImplementsController`, `ReconcileEnds`, `SetupCompletes` | 0.05 M |

`provision` is the whole life of a claim with failing GCP calls and restarts between
any two calls; `TrackingInv` implies `ProjectTracked`, `HeldInv`
implies `FinalizedReferenceHasClaim`, and `ProvisionInv`, with the invariants before it, `ReadyIsProvisioned`. `stale_cache` has caches that
are behind, refused requests and lost answers; `ccs` a customer's project and Secret,
and periodic resyncs. Its `config` fault disables and enables the region, and what it shows is that
this does nothing to such a claim: `IsRegionSupported` is true for CCS. What it does to
other claims is in no run, as it multiplies their states by eight or more; a rejection by
`Validate`, which writes the same state and condition, is in `outsiders`, and the
theorems on `ProjectTracked`, `ReadyIsKept`, `HeldInv`, `ReadyIsProvisioned` and `ImplementsLifecycle`
allow the fault. (The configuration of `outsiders` with the faults claimDeleted, config, refDeleted and
adminDeletes also passes, with 1.7 M states in a minute, and then the claim may go as well.)
`outsiders` has claims that
become invalid, and projects and references that others delete; no claim is deleted
in it, so `FinalizedReferenceHasClaim` is there about references that are made again. `two_claims` has three
IDs for two claims, so that one creation may be lost; the IDs are interchangeable
(symmetry), the claims are not. `live` asks what becomes of a claim in the end. The
faults are divided so that those that interact are together: what reaches GCP with
restarts, what reaches the API server with stale caches, and what people do with each
other.

`setup` has three APIs, so that one may be enabled, one missing from the list and one
be refused; three keys, so that two can be lost; a limit of two units of time for the ten
minutes, with `MaxAge` beyond it; config maps that are absent, incomplete, and
complete with and without a newline; and a project that may be linked to another billing
account. `iam` has two roles, a group that is in both lists of the config map, another
that is in one, and a user whose roles others change at any moment; four policies to
begin with, among them one that lists a role twice. `fake` has one claim, valid or not, that asks for a
Secret of its own name or of another, and one project ID for what it does before it is marked.

A run is silent about deadlock (`CHECK_DEADLOCK FALSE`) where the operator may come
to rest, with every claim settled: `NoLostWakeup` says that it rests nowhere else.
Where restarts or resyncs go on for ever, deadlock is checked.

**Fairness.** A reconcile that has begun goes on (weak fairness of `ClaimStep` and
`ReferenceStep`); an object that keeps being enqueued is taken (strong fairness:
the queues are first in, first out, and a worker is between reconciles again and
again); informers deliver (weak). Weak fairness of `Stabilise` makes the faults
end, and is what liveness is conditional on. Nothing is assumed of users. The same
holds for `FakeClaim`. In `ProjectSetup` and `IamPolicy` a
reconcile that has begun goes on; `SyncSecret` is strongly fair there, as the model
lets it happen between reconciles only. Nothing is assumed of those who write
the policy or edit the config map, and `Stabilise` is not fair in `ProjectSetup`:
`SetupCompletes` begins with it.

**Violations.** Three runs state what the docs or comments say and find it violated:

* `leak_stale_cache` - after `clearProjectID`, a reconcile on the cached reference,
  which still has the old ID and the finalizer, creates the project under the old ID.
* `dropped_requeue` - `Requeue()` after storing the zones requeues nothing.
* `wrong_zones` - the region of a claim is looked for anywhere in the region of a zone, so
  that europe-west1 gets the zones of europe-west10.

## 5. Limits

These combinations of faults and properties are left out of the passing runs,
because the code does not have the property there. TLC finds each within seconds when
the fault is put into a configuration, or the premise taken out of the property.

| Fault | Property that fails | Why |
|---|---|---|
| `createLost` | `ProjectTracked` | an error of `CreateProject` clears the ID, even if GCP carried the creation out |
| `listPartial` with `claimDeleted` | `ProjectTracked` | `ListProjects` reads one page, and a project on another one counts as deleted |
| `createFails` with `cacheLag` | `ProjectTracked` | the run `leak_stale_cache` |
| `secretLag` with `claimDeleted` | `NothingLeftBehind` | `deleteCredentials` relies on a cache that may not have the Secret yet |
| `Claims <- Shadowed` | `LinkedReferenceIsOwn` | claims `a-b/c` and `a/b-c` share a reference |
| `apiError` | `NoLostWakeup` | the run `dropped_requeue` |
| `config` | `NoLostWakeup` | the config map is not watched |
| `edit` | `NoLostWakeup` | a `Ready` claim that is edited until it is rejected, and back, waits for its project again, and its `Ready` reference is not woken up |
| `adminDeletes` | `NoLostWakeup` | a reference whose project is being deleted goes to state `Error` and waits |
| `refDeleted` | `NoLostWakeup` | a claim in `PendingProject` is not told that its reference is gone |
| `refDeleted` with `cacheLag` and `claimDeleted` | `FinalizedReferenceHasClaim` | a reference deleted by hand and created again can be mistaken for gone |
| `accountLate` with CCS and `claimDeleted` | `NothingLeftBehind` | a cleanup that does not find the account takes it for deleted |
| `claimDeleted` | docs/design.md:19, that the claim stays while its reference exists | the claim gets its finalizer two reconciles after the reference; it may go before, and the reference without finalizer fails for ever |
| marking a claim whose reference is `Ready` | `FakeReadyHasSecret` without its exception | the claim was made `Ready` for real, or is about to be; `UpdateFakeProjectClaimSpecs` renames its Secret to one that only the next reconcile creates |
| marking a claim that has a reference, then deleting it | the claim goes | the request to come back in five seconds is dropped, and nothing else need happen to the claim once its reference is gone |
| `apiError` in `FakeClaim`; a marked claim that `Validate` rejects | a deleted claim goes | a second `DeleteFakeSecret` finds nothing and fails for ever; so does the first for a claim that never got a Secret |
| a fake claim that asks for another Secret than its own | the Secret it asked for is gone too | `UpdateFakeProjectClaimSpecs` changes the name after the Secret was made; nothing remembers the first |
| keys used up | `SetupCompletes` without "a key is left" | nothing deletes the keys whose Secret could not be stored |
| a region that contains another's name | `DoneIsConfigured` | the run `wrong_zones` |

## 6. Proofs

`TrackingProofs` proves `KeysCorrect`, that `TypeInv` is invariant for all
constants that satisfy the assumptions in `OperatorState`, and from it
`TypeCorrect`. `TypeOK` is not inductive alone: that indexing by `rw.key` or
`rw.ref.owner` is defined needs that busy workers have keys and that references
have owners, and the answer to an update could be an empty object if the copy
were being deleted; hence `KeysOK`.

It also proves `ProjectsAreTracked`: under `CreationIsReliable`, `Spec`
implies `[]ProjectTracked`, for any number of claims and IDs and every set of faults
that `CreationIsReliable` allows. That condition excludes what section 5
lists for `ProjectTracked`: no `createLost`, no `listPartial`, not `createFails` together with
`cacheLag`. The argument, conjunct by conjunct of `TrackingInv`:

1. a holder of the stored version has that version, and what is being deleted
   has its finalizer (`CopiesAgree`);
2. the step a worker is at tells what was true of its copy (`StepMatchesCopy`), and
   CCS references have the customer's ID (`IDsMatch`);
3. however stale the cache is, a copy in it that has the finalizer and is not
   being deleted stands for a stored reference with the finalizer and the same ID
   (`CacheTellsTruth`): an ID changes only through `clearProjectID`, and a
   finalizer goes only when the deletion timestamp is set;
4. so a worker that is about to create a project does it for an ID that is stored
   in a reference with the finalizer; and while a worker cleans up, neither the
   store nor the cache has a live copy from which the project could be made again
   (`WorkerTellsTruth`);
5. when the finalizer goes or an ID is given up, the project is not active
   (`GoneBeforeForgotten`).

Each lemma covers a group of actions that change the same variables; the frame lemmas
(`TrackingFrame`, `CloudTracking`, `WriteTracking`) carry the rest.

`ClaimProofs` is about the claims. It has three invariants, each used by the next, and all
of them hold for any number of claims and IDs.

* `ClaimCopyInv` (`ClaimCopies`, under every set of faults). A holder of the stored
  version has that version, or, where `EnsureRegionSupported` edited it in memory, the
  version with `Pending` for `Error`; the step a worker is at tells what was true of its
  copy; and a claim is `PendingProject` only with its finalizer. `ReadyIsKept` follows
  (`ReadyClaimsStayReady`) but does not hold of a step by itself: that
  `EnsureProjectClaimState` finds a claim without state, and not one that became `Ready`
  since it was read, is a matter of who holds the version. The last line of `StatesMatch`, about the
  copy that `Reconcile` writes with the Error condition, is there because that write stores whatever
  was edited in memory.
* `ReferenceCopyInv` (`ReferenceCopies`): the same of references, and that a reference, also
  in a cache or in a worker, has the name that `RefName` gives to its owner. With
  `NamesAreDistinct`, which says that no two claims have the same one, `LinkedReferenceIsOwn` follows
  (`LinksLeadHome`). The condition is false for `a-b/c` and `a/b-c`, and only for such pairs.
* `HeldInv` (`ReferencesAreHeld`), from which `FinalizedReferencesHaveClaims`. Two
  steps could break the property, one of each worker: the claim controller drops the
  claim's finalizer because it found no reference *in its cache*, and the reference
  controller adds the reference's because *its copy of the claim* was `PendingProject`. So at
  the first there must be no stored reference, and at the second the claim must still have its
  finalizer if the write is to succeed. With caches that lag, this needs `DeletionSeen` and
  `WorkerHasSeen`: a reference is deleted only by a claim
  controller that has seen the claim's deletion, hence the cache has it as well (`Going`),
  and what a copy says about a deletion is about this claim and not about an earlier one of the
  same name (`Past`). The proof goes claim by claim (`PairInv`), as different claims have
  different references.

`FinalizedReferencesHaveClaims` assumes `NamesAreDistinct` and `DeletionsAreSeen`: caches may lag, or
references may be deleted by hand, but not both. The second is needed. With `claimDeleted`,
`cacheLag` and `refDeleted` TLC finds a run of 55 states in which a reference is deleted by
hand and made again, the cache of references does not know of the new one, the claim is deleted, and one
worker drops the claim's finalizer while the other, with an old copy of the
claim, gives the new reference its own.

`CleanupProofs` is about what the operator makes for a claim and has to remove again.

* `CleanupInv` (`CleanupIsPending`). Everything that `EnsureProjectConfigured` makes is made and removed
  under the finalizer of the reference. `UnderFinalizer` is what makes that so with caches that lag: a live
  copy in the cache stands for a reference that still has its finalizer, since the finalizer goes
  only after the deletion timestamp is set and a write from an older copy is refused. `CleanedInOrder`
  is needed because the deletion removes the roles first, and the account only if it is found: at each step
  there is something less in the project. `IDsAreOwn` keeps the customers' projects apart from
  the operator's.
  With `HeldInv`, by which a reference with its finalizer has a claim, `NothingLeftBehind`
  follows (`NothingIsLeftBehind`).
* `SecretHeldInv` (`SecretIsFirst`). Only a claim that is `PendingProject` lets its reference get
  a finalizer, and a claim becomes `PendingProject` only once the customer's Secret is held. That is
  an order of two steps of the claim's worker, and a copy of the claim that is left for the condition
  may still be stored after the Secret was let go; `Over` says when: the reference is gone and the
  cache knows that the claim is being deleted. `CCSSecretHeld` follows from both (`CCSSecretIsHeld`).

The assumptions are those of section 5, stated as conditions on `Faults` and the constants:
`NamesAreDistinct`; `ProjectsAreDistinct`, no two customers bring the same project; `CleanupIsReliable`, no
`secretLag`, and no `accountLate` where there are CCS claims; `DeletionsAreSeen` for
`NothingLeftBehind`, and no `refDeleted` for `SecretHeldInv`.

`ProvisionProofs` proves `ReadyIsProvisioned` (`ReadyClaimsAreProvisioned`) from `ProvisionInv`. The claim
is made `Ready` by the reference's worker, which looks at its copy of a reference that says
`Ready`; the Secret, the project and its configuration were made in earlier reconciles, possibly
before a restart. So the invariant follows one project through all of them: an ID is used by one
reference (`NamedOnce`); each step of the setup finds what those before it did, in the project that the
*stored* reference names (`SetUpSoFar`); the Secret opens that project, which is configured
until the reference is being deleted (`SecretOpensProject`); a `Ready` reference, stored, cached, or in
memory and still to be stored, has its Secret (`ReadyReferenceHasSecret`); and what
`EnsureProjectClaimReady` writes is true if the write is accepted (`ClaimIsReadyFor`, `ClaimTellsTruth`).
`ProvisioningIsReliable` excludes projects and references that others delete, and `clearProjectID`
together with `cacheLag`: a cached copy would name the project that was given up, as in the run
`leak_stale_cache`.

`WakeProofs` proves `NoLostWakeup` (`NoWakeupIsLost`) from `WakeInv`, which names for each object who
will look at it next. A claim or reference that exists is in its queue or about to be put there by
an event; or a worker is busy with it and has not come to the end of its chain, or will be requeued;
or it is settled (`ClaimAwake`, `RefAwake`). The last case is what has to be
proved at the end of every chain: `stop` asks for nothing, so the write before it must have changed
the stored object, for an update that changes nothing makes no event. It did, because each
operation runs only on a copy that lacks what it writes (`ClaimStepIsDue`, `RefStepIsDue`) and a worker whose copy
is old will be told of the new one (`StaleIsStirred`). Three ends of chains need more. The `Requeue()`
after the zones are stored is dropped; the condition written next changes the
reference unless it says already that the Compute API is ready and there is no error,
which it does not while the claim lacks its zones (`ComputeIsNoted`). A `Ready` reference that finds its claim `Ready`
in the cache stops for good, so the cache must be right about that (`ReadyIsSeen`): it may
show a claim that was deleted and made again, but not one that the operator has begun to work on. And a
project that is being deleted sends its reference to `Error`, which is the end of it, so no
reference may name such a project unless it is being deleted itself (`InactiveIsGoing`). At rest, a claim in
`PendingProject` has a reference (`HeldInv`), that is settled, and so the claim is `Ready`.
Besides the conditions of `ReadyClaimsAreProvisioned` this assumes `WakeupsAreReliable`, no `apiError`,
`config` or `edit`; section 5 has what goes wrong with each.

`LifecycleProofs` proves `OperatorImplementsLifecycle`: for finitely many claims without CCS, the
operator implements `ClaimLifecycle`. A step of a controller is the one abstract step that its effect
names, or none. Two of the abstract guards count: a project may be created if there are fewer than claims,
and a claim may go if there are not more projects than other claims. The operator counts nothing.
That its steps satisfy them is `TrackingInv` and `HeldInv`: every active project is named by a
reference with its finalizer, an ID by one reference only, and such a reference has a claim of its own, so that
projects map one to one into claims, and at the two steps into the others
(`FS_Injection` of the library is about the cardinality).

`IamPolicyProofs` proves `IamTypeCorrect`, `SuccessIsReal` and `EditsAreAtomic`, for all roles,
groups, initial policies and faults. The inductive invariant is `EditInv`: what is no longer on
the worker's list is done, and a copy with the etag of the stored policy is an edit of *that* policy.
The first needs that the tasks of one reconcile do not undo one another and that others leave the
operator's members alone (`OthersAssumption`); it is what makes "every call succeeded"
imply "everything is done". The second turns an accepted write into one step of
`IamGrants`. The lemmas about `AddOrUpdateBinding` and `RemoveOrUpdateBinding` say what they do to
the set of (role, member) pairs; a policy may list a role twice. `RolesAssumption`
has the roles finite, as Go's lists are: they are put in some order.

`SetupProofs` proves `DoneIsConfigured` and `TransitionTimeIsTrue` of `ProjectSetup` from
`SetupInv`, for every list of APIs, limit of keys, region, set of zones and of config maps. `ProgressInv`
says for each call which effects are behind it; `ReadyInv` carries that through the stored
state, which outlives the reconcile; `ConditionsInv` says of the copy of the status, that the
worker may have edited and failed to write, that its times are true *if it were stored now*, which
`TransitionTimeIsTrue`, speaking of stored conditions only, does not.
`DoneIsConfigured` also needs that the claim's spec has the project ID before its status says `Ready`
(`ClaimInv`): they are two requests, and the first may be accepted and the second fail.
`ReadyMeansConfigured` assumes `ListedZonesAreOfRegion`, which is false for europe-west1 (the run `wrong_zones`).

It also proves `CallsImplementSteps`, that `SetupImplementsController` holds: each request of the setup is
a step of `ProjectReferenceController` or none. An operation there happens with the request that completes
it here, which for the APIs is the one that enables the last of them, although requests for APIs that
`services.list` had left out may follow. An error after a request took effect is the error after the
effect there; an error before that, the error without; and a request that is one of several is nothing at all.
`SetupInv` tells which of these it is: that an account which exists is not found only while
things go wrong, that the Secret is looked for in the cache before a key is made. Two assumptions are needed:
`BillingIsApart`, that the billing API is not in `OSDRequiredAPIS`, which is so in the code, and
`AccountIsFixed`. If the configured billing account is changed, `CreateCloudBillingAccount` unlinks
the one that was linked before it links the other, and in between the project has none: the
operator of the first group has no such step, and the runs on it say nothing about that moment. The
theorem covers every request except one that GCP refuses for too many keys, which
`ProjectReferenceController` does not know of, and a restart, which is an action of `GcpProjectOperator`.

Only model-checked, and why:

* liveness (`ClaimBecomesReady`, `DeletionCompletes`, `EditEnds`, `ReconcileEnds`, `SetupCompletes`,
  `FakeBecomesReady`): it needs fairness and ENABLED, beyond the prover;
* `FakeReadyHasSecret`, `FakeLeavesNothing` and `FakeStopsOnlyCleanedUp`: the worker of `FakeClaim` has steps
  that are not in `ClaimSteps`, so that the lemmas on types and copies would have to be proved again for it.

## 7. Plan

Done: the operator as a whole, its parts in detail, what it implements, and the theorems of
section 6: every safety invariant that the runs check but the three above, the refinements and
the action properties. Next, in this order:

1. the invariants of `FakeClaim`: of copies that hold the stored version, as `ClaimCopyInv`.
2. `OperatorImplementsLifecycle` with CCS claims, whose projects are the customers' and are not counted.

## 8. Not modelled

Texts of errors and logs, metrics, probes and leader election, generated code and
mocks, the build and deployment files, and the maintenance scripts under `hack/`.
`GetProject`, `CreateProjectLabels` and `DeleteServiceAccountKeys` of the GCP client,
which nothing calls. Parsing: the YAML of the config map is there or it is not, and
errors of GCP are told apart as the code does by prefix, without their text. A
config map whose console groups change while CCS projects exist.
