---------------------------- MODULE ProjectSetup ----------------------------
(***************************************************************************)
(* How the ProjectReference controller sets one project up, call by call:  *)
(* EnsureProjectCreated once the project is there (configureBillingAPI),   *)
(* EnsureProjectConfigured, EnsureStateReady and EnsureProjectClaimReady,  *)
(* with the loops of the GCP client (EnableAPI, CreateCloudBillingAccount, *)
(* CreateServiceAccountKey, ListAvailabilityZones), the conditions of the  *)
(* reference and their times, and the config map.                          *)
(*                                                                         *)
(* ProjectReferenceController has one step for each of these, and here it  *)
(* is shown that its steps are what the calls amount to.  The claim is not *)
(* CCS and is not deleted.  SetIAMPolicy is one step: see IamPolicy.       *)
(*                                                                         *)
(* services.enable starts an operation in GCP that EnableAPI does not wait *)
(* for.  What is followed is gcp.accepted, the APIs whose enabling GCP has *)
(* accepted.  That the operation is still running shows in two ways: the   *)
(* API is not listed (listPartial), or not usable (computeLate, gcpError). *)
(*                                                                         *)
(* A definition marked "Variant" is the next one with a fault in it, which *)
(* the properties have to notice.                                          *)
(***************************************************************************)
EXTENDS ConditionManager, FiniteSetsExt

CONSTANTS
  OSDRequiredAPIS,  \* the APIs a cluster needs, a sequence
  BillingAPI,       \* cloudbilling.googleapis.com
  AllZones,         \* the zones of GCP, records of a name and a region
  Region,           \* the claim's region; names are sequences of their parts
  KeyLimit,         \* how many keys a service account may have
  TenMinutes,       \* in units of time
  ConfigMaps,       \* the contents the operator's config map may have
  OtherAccount,     \* a billing account that was configured earlier
  Newline,          \* the end of a line in the config map
  SetupFaults       \* what may go wrong

AllSetupFaults ==
  { "gcpError",     \* a call may fail, before or after it took effect
    "forbidden",    \* EnableAPI may be answered with 403
    "listPartial",  \* services.list may not return all that was accepted
    "accountLate",  \* an account that was created may not be found yet
    "keyLate",      \* the same for a key
    "computeLate",  \* the Compute API may not be usable yet
    "apiError",     \* a request to the API server may fail without effect
    "config",       \* the config map may be edited
    "crash" }       \* the operator may be restarted

ASSUME SetupAssumption ==
  /\ SetupFaults \subseteq AllSetupFaults
  /\ KeyLimit \in Nat /\ TenMinutes \in Nat /\ TenMinutes < MaxAge
  /\ OSDRequiredAPIS \in Seq(Range(OSDRequiredAPIS))

VARIABLES
  gcp,     \* the project in GCP
  kube,    \* the status of the reference, the Secret and what the claim got
  since,   \* history: how long the stored ComputeApiReady has had its status
  config,  \* the operator's config map
  queued,  \* whether the reference is in the work queue
  stable,  \* TRUE once nothing goes wrong any more
  w        \* the worker

vars == <<gcp, kube, since, config, queued, stable, w>>

Faulty(f) == f \in SetupFaults /\ ~stable

RequiredAPIs == {OSDRequiredAPIS[i] : i \in DOMAIN OSDRequiredAPIS}

-----------------------------------------------------------------------------
(* The config map, and the names in it.                                    *)

\* strings.TrimSuffix(billingAccountID, "\n")
Trimmed(name) ==
  IF name # <<>> /\ name[Len(name)] = Newline THEN SubSeq(name, 1, Len(name) - 1) ELSE name

\* strings.Contains
ContainsName(name, part) ==
  \E i \in 1 .. Len(name) - Len(part) + 1 : SubSeq(name, i, i + Len(part) - 1) = part

\* getConfigMap: GetOperatorConfigMap finds it, with the key and as YAML, and
\* ValidateOperatorConfigMap the two values that are needed.
ValidConfigMap(m) == m.found /\ m.billingAccount # <<>> /\ m.parentFolderID # <<>>

ConfiguredAccounts == {Trimmed(m.billingAccount) : m \in {x \in ConfigMaps : ValidConfigMap(x)}}

-----------------------------------------------------------------------------
(* The worker: todo are the APIs still to enable, by their place in the    *)
(* list, retry counts the tries of the call at hand, account is the        *)
(* billing account in OperatorConfig, and state and conditions are the     *)
(* copy of the reference's status.                                         *)

Idle == [pc |-> "idle", todo |-> {}, retry |-> 0, out |-> "stop", account |-> <<>>,
         state |-> "none", conditions |-> <<>>]

At(pc) == [w EXCEPT !.pc = pc, !.retry = 0]
Finished(out) == [At("Condition") EXCEPT !.out = out]

\* A call that leaves the project as g and goes on as the worker next.
Call(g, next) ==
  \/ gcp' = g /\ w' \in {next} \cup (IF Faulty("gcpError") THEN {Finished("error")} ELSE {})
  \/ Faulty("gcpError") /\ w' = Finished("error") /\ UNCHANGED gcp

InGCP == UNCHANGED <<kube, since, config, queued, stable>>

-----------------------------------------------------------------------------
(* Reconcile.                                                              *)

\* The first operation that acts.
FirstCall ==
  IF kube.claimReady THEN "Condition"
  ELSE IF kube.state # "Ready" THEN "ListBillingAPIs"
  ELSE IF kube.zones = {} THEN "Zones"
  ELSE IF ~kube.claimID THEN "ClaimProjectID"
  ELSE "ClaimReady"

\* Reconcile; without a valid config map it fails and is tried again.
Reconcile ==
  /\ w.pc = "idle"
  /\ queued
  /\ ValidConfigMap(config)
  /\ queued' = FALSE
  /\ w' = [Idle EXCEPT !.pc = FirstCall, !.account = Trimmed(config.billingAccount),
                       !.state = kube.state, !.conditions = kube.conditions]
  /\ UNCHANGED <<gcp, kube, since, config, stable>>

\* ListAPIs: what the one page of services.list that is read says is enabled.
\* An API whose enabling has not come to its end is not listed either.
Listings == IF Faulty("listPartial") THEN SUBSET gcp.accepted ELSE {gcp.accepted}

-----------------------------------------------------------------------------
(* configureBillingAPI.                                                    *)

ListBillingAPIs ==
  /\ w.pc = "ListBillingAPIs"
  /\ \E listed \in Listings :
       Call(gcp, At(IF BillingAPI \in listed THEN "BillingInfo" ELSE "EnableBillingAPI"))
  /\ InGCP

gcpAPIRetriesCount == 3

\* Variant: the count of the tries starts again, and never ends them.
EnableAPIForEver(api, next) ==
  \/ Call([gcp EXCEPT !.accepted = @ \cup {api}], next)
  \/ /\ Faulty("forbidden")
     /\ w' = [w EXCEPT !.retry = (@ + 1) % gcpAPIRetriesCount]
     /\ UNCHANGED gcp

\* Variant: when the tries are used up, the API is taken for enabled.
EnableAPIGivesUp(api, next) ==
  \/ Call([gcp EXCEPT !.accepted = @ \cup {api}], next)
  \/ /\ Faulty("forbidden")
     /\ w' = IF w.retry + 1 <= gcpAPIRetriesCount THEN [w EXCEPT !.retry = @ + 1] ELSE next
     /\ UNCHANGED gcp

\* EnableAPI: GCP accepts to enable the API, and its answer, an operation that
\* may take a while, is not looked at.  A 403 is tried again up to three times.
EnableAPI(api, next) ==
  \/ Call([gcp EXCEPT !.accepted = @ \cup {api}], next)
  \/ /\ Faulty("forbidden")
     /\ w' = IF w.retry + 1 <= gcpAPIRetriesCount THEN [w EXCEPT !.retry = @ + 1]
             ELSE Finished("error")
     /\ UNCHANGED gcp

EnableBillingAPI ==
  /\ w.pc = "EnableBillingAPI"
  /\ EnableAPI(BillingAPI, At("BillingInfo"))
  /\ InGCP

\* Variant: an account that is not the configured one is left alone.
AfterBillingInfoAnyAccount == IF gcp.billing = <<>> THEN "Link" ELSE "ListAPIs"

\* CreateCloudBillingAccount after GetBillingInfo: link, or unlink and link.
AfterBillingInfo ==
  IF gcp.billing = <<>> THEN "Link"
  ELSE IF gcp.billing # w.account THEN "Unlink"
  ELSE "ListAPIs"

GetBillingInfo == w.pc = "BillingInfo" /\ Call(gcp, At(AfterBillingInfo)) /\ InGCP

UnlinkBilling == w.pc = "Unlink" /\ Call([gcp EXCEPT !.billing = <<>>], At("Link")) /\ InGCP

LinkBilling ==
  /\ w.pc = "Link"
  /\ Call([gcp EXCEPT !.billing = w.account], At("ListAPIs"))
  /\ InGCP

-----------------------------------------------------------------------------
(* EnsureProjectConfigured.                                                *)

\* configureAPIS: the APIs that are not listed are enabled in their order.
ListAPIs ==
  /\ w.pc = "ListAPIs"
  /\ \E listed \in Listings :
       LET todo == {i \in DOMAIN OSDRequiredAPIS : OSDRequiredAPIS[i] \notin listed}
       IN  Call(gcp, [At(IF todo = {} THEN "GetAccount" ELSE "EnableAPI") EXCEPT !.todo = todo])
  /\ InGCP

EnableNextAPI ==
  LET next == Min(w.todo)
      left == w.todo \ {next}
  IN  /\ w.pc = "EnableAPI"
      /\ EnableAPI(OSDRequiredAPIS[next],
                   [At(IF left = {} THEN "GetAccount" ELSE "EnableAPI") EXCEPT !.todo = left])
      /\ InGCP

\* Variant: the account is not looked for.
GetAccountNever ==
  /\ w.pc = "GetAccount"
  /\ w' = At("CreateAccount")
  /\ UNCHANGED gcp
  /\ InGCP

\* configureServiceAccount: whatever the error of GetServiceAccount is, the
\* account is taken for missing.
GetAccount ==
  /\ w.pc = "GetAccount"
  /\ \/ gcp.account /\ w' = At("Policy")
     \/ /\ ~gcp.account \/ Faulty("accountLate") \/ Faulty("gcpError")
        /\ w' = At("CreateAccount")
  /\ UNCHANGED gcp
  /\ InGCP

\* CreateServiceAccount: an account that exists makes it try again later.
CreateAccount ==
  /\ w.pc = "CreateAccount"
  /\ \/ ~gcp.account /\ Call([gcp EXCEPT !.account = TRUE], At("Policy"))
     \/ gcp.account /\ w' = Finished("after") /\ UNCHANGED gcp
     \/ Faulty("gcpError") /\ w' = Finished("error") /\ UNCHANGED gcp
  /\ InGCP

\* SetIAMPolicy for the service account
SetPolicy ==
  w.pc = "Policy" /\ Call([gcp EXCEPT !.bound = TRUE], At("Credentials")) /\ InGCP

\* createCredentials: nothing to do if the cache has the Secret; otherwise the
\* account is read again, and if it is not found it is tried again later.
GetAccountForKey ==
  /\ w.pc = "Credentials"
  /\ w' \in (IF kube.cached THEN {At("StateReady")}
             ELSE {At("CreateKey")}
                    \cup (IF Faulty("accountLate") THEN {Finished("after")} ELSE {})
                    \cup (IF Faulty("gcpError") THEN {Finished("error")} ELSE {}))
  /\ UNCHANGED gcp
  /\ InGCP

\* CreateServiceAccountKey: a new key, unless there are too many.
CreateKey ==
  /\ w.pc = "CreateKey"
  /\ IF gcp.keys < KeyLimit
     THEN Call([gcp EXCEPT !.keys = @ + 1], At("GetKey"))
     ELSE w' = Finished("error") /\ UNCHANGED gcp
  /\ InGCP

KeyTries == 4

\* CreateServiceAccountKey: four tries to read it back.
GetKey ==
  /\ w.pc = "GetKey"
  /\ \/ w' = At("CreateSecret")
     \/ /\ Faulty("keyLate") \/ Faulty("gcpError")
        /\ w' = IF w.retry + 1 < KeyTries THEN [w EXCEPT !.retry = @ + 1]
                ELSE Finished("error")
  /\ UNCHANGED gcp
  /\ InGCP

\* createCredentials: the key is stored, unless there is a Secret already.
CreateSecret ==
  /\ w.pc = "CreateSecret"
  /\ \/ ~kube.secret /\ kube' = [kube EXCEPT !.secret = TRUE] /\ w' = At("StateReady")
     \/ (kube.secret \/ Faulty("apiError")) /\ w' = Finished("error") /\ UNCHANGED kube
  /\ UNCHANGED <<gcp, since, config, queued, stable>>

-----------------------------------------------------------------------------
(* The status of the reference, and EnsureProjectClaimReady.               *)

\* StatusUpdate with the status of worker v, answered ok or not.  A write that
\* changes the status, be it only a LastProbeTime, enqueues the reference, and
\* so does a result that asks for it.
StatusUpdate(v, again, ok) ==
  LET stored == [kube EXCEPT !.state = v.state, !.conditions = v.conditions]
      Compute(s) == StatusOf(s.conditions, "ComputeApiReady")
  IN  \/ /\ ok
         /\ kube' = stored
         /\ since' = IF Compute(stored) = Compute(kube) THEN since ELSE 0
         /\ queued' \in {queued \/ again \/ stored # kube, TRUE}
      \/ /\ ~ok
         /\ Faulty("apiError")
         /\ queued' = (queued \/ again)
         /\ UNCHANGED <<kube, since>>

\* EnsureStateReady
EnsureStateReady ==
  LET ready == [w EXCEPT !.state = "Ready"]
  IN  /\ w.pc = "StateReady"
      /\ \E ok \in BOOLEAN :
           /\ StatusUpdate(ready, FALSE, ok)
           /\ w' = [ready EXCEPT !.pc = "Condition", !.out = IF ok THEN "stop" ELSE "error"]
      /\ UNCHANGED <<gcp, config, stable>>

\* ListAvailabilityZones
ZonesListed == {z \in AllZones : ContainsName(z.region, Region)}

\* ensureClaimAvailabilityZonesSet: the zones could be listed.  The condition
\* is set in memory only, and is stored with the next StatusUpdate.
EnsureClaimAvailabilityZonesSet ==
  LET noted == [w EXCEPT !.conditions =
                  SetCondition(@, "ComputeApiReady", "True", "QuerySucceeded", "ready")]
  IN  /\ w.pc = "Zones"
      /\ \/ /\ kube' = [kube EXCEPT !.zones = ZonesListed]
            /\ w' = [noted EXCEPT !.pc = "Condition", !.out = "now"]
         \/ /\ Faulty("apiError")
            /\ w' = [noted EXCEPT !.pc = "Condition", !.out = "error"]
            /\ UNCHANGED kube
      /\ UNCHANGED <<gcp, since, config, queued, stable>>

\* handleAvailabilityZonesError: not ready for ten minutes is an error.
HandleAvailabilityZonesError ==
  LET late == /\ HasCondition(w.conditions, "ComputeApiReady")
              /\ AgeOf(w.conditions, "ComputeApiReady") > TenMinutes
      noted == [w EXCEPT !.conditions =
                  SetCondition(@, "ComputeApiReady", "False", "QueryFailed", "not ready")]
  IN  /\ w.pc = "Zones"
      /\ \/ /\ Faulty("computeLate")
            /\ \E ok \in BOOLEAN :
                 /\ StatusUpdate(noted, FALSE, ok)
                 /\ w' = [noted EXCEPT !.pc = "Condition",
                                       !.out = IF late \/ ~ok THEN "error" ELSE "after"]
         \/ /\ Faulty("gcpError")
            /\ w' = Finished("error")
            /\ UNCHANGED <<kube, since, queued>>
      /\ UNCHANGED <<gcp, config, stable>>

\* ensureClaimProjectIDSet, and the Update of the claim's spec.
EnsureClaimProjectIDSet ==
  /\ w.pc = "ClaimProjectID"
  /\ \/ kube' = [kube EXCEPT !.claimID = TRUE] /\ w' = At("ClaimReady")
     \/ Faulty("apiError") /\ w' = Finished("error") /\ UNCHANGED kube
  /\ UNCHANGED <<gcp, since, config, queued, stable>>

\* EnsureProjectClaimReady: the claim's status.
EnsureProjectClaimReady ==
  /\ w.pc = "ClaimReady"
  /\ \/ kube' = [kube EXCEPT !.claimReady = TRUE] /\ w' = Finished("stop")
     \/ Faulty("apiError") /\ w' = Finished("error") /\ UNCHANGED kube
  /\ UNCHANGED <<gcp, since, config, queued, stable>>

\* SetProjectReferenceCondition, whose result is ignored.
ErrorCondition(conditions, out) ==
  IF out = "error" THEN SetCondition(conditions, "Error", "True", "ReconcileError", "failed")
  ELSE IF conditions # <<>>
  THEN SetCondition(conditions, "Error", "False", "ReconcileErrorResolved", "")
  ELSE conditions

\* The end of Reconcile.  Requeue() without a delay enqueues nothing.
FinishReconcile ==
  LET noted == [w EXCEPT !.conditions = ErrorCondition(@, w.out)]
      again == w.out \in {"error", "after"}
  IN  /\ w.pc = "Condition"
      /\ w' = Idle
      /\ IF noted.conditions = <<>>
         THEN queued' = (queued \/ again) /\ UNCHANGED <<kube, since>>
         ELSE \E ok \in BOOLEAN : StatusUpdate(noted, again, ok)
      /\ UNCHANGED <<gcp, config, stable>>

-----------------------------------------------------------------------------
(* The world around it.                                                    *)

Crash ==
  /\ Faulty("crash")
  /\ w' = Idle
  /\ queued' = TRUE
  /\ kube' = [kube EXCEPT !.cached = kube.secret]
  /\ UNCHANGED <<gcp, since, config, stable>>

\* The informer's cache learns of the Secret.  A reconcile reads it once, so it
\* is enough that this happens between reconciles.
SyncSecret ==
  /\ w.pc = "idle"
  /\ kube.cached # kube.secret
  /\ kube' = [kube EXCEPT !.cached = kube.secret]
  /\ UNCHANGED <<gcp, since, config, queued, stable, w>>

EditConfigMap ==
  /\ Faulty("config")
  /\ config' \in ConfigMaps
  /\ UNCHANGED <<gcp, kube, since, queued, stable, w>>

\* A unit of time.  A reconcile takes less than that, and time is told only
\* from the age of a condition.
Tick ==
  /\ w.pc = "idle"
  /\ HasCondition(kube.conditions, "ComputeApiReady")
  /\ since < MaxAge
  /\ since' = Older(since)
  /\ kube' = [kube EXCEPT !.conditions = Aged(@)]
  /\ UNCHANGED <<gcp, config, queued, stable, w>>

\* Nothing goes wrong any more.  Between two reconciles is soon enough: every
\* one of them ends.
Stabilise ==
  /\ w.pc = "idle"
  /\ ValidConfigMap(config)
  /\ stable' = TRUE
  /\ UNCHANGED <<gcp, kube, since, config, queued, w>>

-----------------------------------------------------------------------------
\* The reference is in state Creating and its project was just made, or had
\* been linked to the billing account that was configured before.
Init ==
  /\ gcp \in [accepted : {{}}, billing : {<<>>, OtherAccount}, account : {FALSE},
              bound : {FALSE}, keys : {0}]
  /\ kube = [state |-> "Creating", conditions |-> <<>>, secret |-> FALSE,
             cached |-> FALSE, zones |-> {}, claimID |-> FALSE, claimReady |-> FALSE]
  /\ since = 0
  /\ config \in ConfigMaps
  /\ queued = TRUE
  /\ stable = FALSE
  /\ w = Idle

WorkerStep ==
  \/ ListBillingAPIs \/ EnableBillingAPI \/ GetBillingInfo \/ UnlinkBilling \/ LinkBilling
  \/ ListAPIs \/ EnableNextAPI
  \/ GetAccount \/ CreateAccount \/ SetPolicy
  \/ GetAccountForKey \/ CreateKey \/ GetKey \/ CreateSecret
  \/ EnsureStateReady
  \/ EnsureClaimAvailabilityZonesSet \/ HandleAvailabilityZonesError
  \/ EnsureClaimProjectIDSet \/ EnsureProjectClaimReady
  \/ FinishReconcile

Next == WorkerStep \/ Reconcile \/ Crash \/ SyncSecret \/ EditConfigMap \/ Tick \/ Stabilise

Spec == Init /\ [][Next]_vars

\* A reconcile that has begun goes on, and a reference that stays in the queue
\* is taken; the informers deliver events, which here happens between reconciles.
FairSpec == Spec /\ WF_vars(WorkerStep) /\ WF_vars(Reconcile) /\ SF_vars(SyncSecret)

-----------------------------------------------------------------------------
(* What is checked.                                                        *)

\* README.md: the zones that EnsureProjectClaimReady puts into the claim are
\* zones of the claim's region.
ZonesAreOfRegion == \A z \in kube.zones : z.region = <<"regions/">> \o Region

\* When the claim is told that it is Ready, all the calls of the setup have
\* had their effect: the project is billed to the configured account, GCP has
\* accepted to enable every API, the service account exists, has its roles and
\* a key in the Secret, and the claim has the project's ID and zones.  Any call
\* may have failed, been cut off or answered late on the way.
Configured ==
  /\ gcp.billing \in ConfiguredAccounts
  /\ RequiredAPIs \subseteq gcp.accepted
  /\ gcp.account /\ gcp.bound /\ gcp.keys > 0 /\ kube.secret

DoneIsConfigured ==
  kube.claimReady => Configured /\ kube.claimID /\ kube.zones # {} /\ ZonesAreOfRegion

\* The age of the stored ComputeApiReady is how long it has had its status:
\* handleAvailabilityZonesError decides by it whether ten minutes are over, and
\* neither repeated failures nor writes that fail may move it.
TransitionTimeIsTrue ==
  HasCondition(kube.conditions, "ComputeApiReady") =>
    AgeOf(kube.conditions, "ComputeApiReady") = since

\* FindCondition never makes a second condition of one type.
OneOfEachType(conditions) ==
  \A i, j \in DOMAIN conditions : conditions[i].type = conditions[j].type => i = j

-----------------------------------------------------------------------------
(* Why these hold.                                                         *)

\* The calls that EnsureProjectCreated and EnsureProjectConfigured make.
SetupCalls ==
  {"ListBillingAPIs", "EnableBillingAPI", "BillingInfo", "Unlink", "Link", "ListAPIs",
   "EnableAPI", "GetAccount", "CreateAccount", "Policy", "Credentials", "CreateKey",
   "GetKey", "CreateSecret"}

Texts ==
  {"", "Error", "ComputeApiReady", "True", "False", "QuerySucceeded", "QueryFailed",
   "ReconcileError", "ReconcileErrorResolved", "ready", "not ready", "failed"}

Conditions == Seq([type : Texts, status : Texts, reason : Texts, message : Texts,
                   age : 0 .. MaxAge])

Project == [accepted : SUBSET (RequiredAPIs \cup {BillingAPI}),
            billing : ConfiguredAccounts \cup {<<>>, OtherAccount},
            account : BOOLEAN, bound : BOOLEAN, keys : 0 .. KeyLimit]

Objects == [state : {"Creating", "Ready"}, conditions : Conditions, secret : BOOLEAN,
            cached : BOOLEAN, zones : {{}, ZonesListed}, claimID : BOOLEAN,
            claimReady : BOOLEAN]

Worker == [pc : SetupCalls \cup {"idle", "StateReady", "Zones", "ClaimProjectID", "ClaimReady",
                              "Condition"},
           todo : SUBSET DOMAIN OSDRequiredAPIS, retry : 0 .. KeyTries,
           out : {"stop", "now", "after", "error"},
           account : ConfiguredAccounts \cup {<<>>},
           state : {"none", "Creating", "Ready"}, conditions : Conditions]

\* The type invariant.
SetupTypeOK ==
  /\ gcp \in Project /\ kube \in Objects /\ w \in Worker
  /\ since \in 0 .. MaxAge
  /\ config \in ConfigMaps
  /\ queued \in BOOLEAN /\ stable \in BOOLEAN

\* A list has one condition of each type, and ComputeApiReady has one of the
\* two contents that the controller gives it.
ListIsSound(conditions) ==
  /\ OneOfEachType(conditions)
  /\ \A i \in DOMAIN conditions :
       conditions[i].type = "ComputeApiReady" =>
         \/ /\ conditions[i].status = "True" /\ conditions[i].reason = "QuerySucceeded"
            /\ conditions[i].message = "ready"
         \/ /\ conditions[i].status = "False" /\ conditions[i].reason = "QueryFailed"
            /\ conditions[i].message = "not ready"

\* ComputeApiReady is as old as the one in the stored list, which has had its
\* status for this long, if it has that status too, and is new otherwise: the
\* list may be stored.
AgesAreTrue(conditions, stored, age) ==
  \A i \in DOMAIN conditions :
    conditions[i].type = "ComputeApiReady" =>
      conditions[i].age =
        IF conditions[i].status = StatusOf(stored, "ComputeApiReady") THEN age ELSE 0

MayBeStored(conditions) ==
  ListIsSound(conditions) /\ AgesAreTrue(conditions, kube.conditions, since)

\* The stored list is sound, the copy is the stored list up to the last
\* operation, and after it may still be stored.
ConditionsInv ==
  /\ MayBeStored(kube.conditions)
  /\ w.pc \notin {"idle", "Condition"} => w.conditions = kube.conditions
  /\ w.pc = "Condition" => MayBeStored(w.conditions)

\* What the calls made so far have left behind them, and what those that only
\* read have found.
AfterBilling ==
  {"ListAPIs", "EnableAPI", "GetAccount", "CreateAccount", "Policy", "Credentials",
   "CreateKey", "GetKey", "CreateSecret", "StateReady"}
AfterAPIs == AfterBilling \ {"ListAPIs", "EnableAPI"}
AfterAccount == AfterAPIs \ {"GetAccount", "CreateAccount"}
AfterPolicy == AfterAccount \ {"Policy"}

ProgressInv ==
  /\ w.pc \in AfterBilling => gcp.billing = w.account
  /\ w.pc = "EnableAPI" =>
       /\ w.todo # {}
       /\ RequiredAPIs \subseteq gcp.accepted \cup {OSDRequiredAPIS[i] : i \in w.todo}
  /\ w.pc \in AfterAPIs => RequiredAPIs \subseteq gcp.accepted
  /\ w.pc \in AfterAccount => gcp.account
  /\ w.pc \in AfterPolicy => gcp.bound
  /\ w.pc \in {"GetKey", "CreateSecret"} => gcp.keys > 0
  /\ w.pc = "StateReady" => kube.secret
  /\ kube.cached => kube.secret
  /\ kube.secret => gcp.keys > 0
  /\ w.pc = "Unlink" => gcp.billing # w.account
  /\ w.pc = "CreateAccount" /\ gcp.account => ~stable
  /\ w.pc \in {"CreateKey", "GetKey"} => ~kube.cached

\* Whoever says Ready, the stored reference, the copy or the claim, says so
\* after the whole setup, and no call of the setup is made again then.
ReadyInv ==
  /\ w.pc # "idle" => w.account \in ConfiguredAccounts
  /\ (w.pc = "idle") <=> (w.state = "none")
  /\ w.pc \in SetupCalls \cup {"StateReady"} => w.state = "Creating"
  /\ w.pc \in {"Zones", "ClaimProjectID", "ClaimReady"} => w.state = "Ready"
  /\ w.pc \in {"ClaimProjectID", "ClaimReady"} => kube.zones # {}
  /\ w.pc \notin {"idle", "Condition"} => w.state = kube.state
  /\ kube.state = "Ready" => w.state # "Creating"
  /\ kube.state = "Ready" \/ w.state = "Ready" => Configured
  /\ kube.claimReady => kube.state = "Ready" /\ kube.zones # {}

\* The claim's status is not written before its spec.
ClaimInv == w.pc = "ClaimReady" \/ kube.claimReady => kube.claimID

\* The invariant that DoneIsConfigured and TransitionTimeIsTrue rest on: each
\* call is made after those before it have had their effect, on a status whose
\* times are true.
SetupInv == SetupTypeOK /\ ConditionsInv /\ ProgressInv /\ ReadyInv

-----------------------------------------------------------------------------
\* No loop of the client goes on for ever: every reconcile ends.
ReconcileEnds == (w.pc # "idle") ~> (w.pc = "idle")

\* Once nothing goes wrong the claim becomes Ready, unless the keys whose
\* Secret could not be stored have used up what the account may have.
SetupCompletes ==
  (stable /\ (queued \/ w.pc # "idle") /\ (kube.secret \/ gcp.keys < KeyLimit))
    ~> kube.claimReady
=============================================================================
