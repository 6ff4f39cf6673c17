---------------------------- MODULE SetupProofs ----------------------------
(***************************************************************************)
(* Proofs about ProjectSetup: what the condition manager does to a list of *)
(* conditions, that the age of ComputeApiReady is the time it has had its  *)
(* status, that a claim is Ready only after the whole setup, and that the  *)
(* calls of the setup implement the steps of ProjectReferenceController.   *)
(***************************************************************************)
EXTENDS SetupRefinement, SequenceTheorems, WellFoundedInduction, TLAPS

-----------------------------------------------------------------------------
(* Lists of conditions.                                                    *)

ACondition == [type : Texts, status : Texts, reason : Texts, message : Texts,
               age : 0 .. MaxAge]

\* The youngest and the oldest age are ages.
LEMMA AgeBounds == 0 \in 0 .. MaxAge /\ MaxAge \in 0 .. MaxAge
  BY MaxAgeAssumption

\* A list of conditions is a sequence of conditions.
LEMMA ListElements ==
  ASSUME NEW c \in Conditions
  PROVE  /\ DOMAIN c = 1 .. Len(c) /\ Len(c) \in Nat
         /\ \A i \in DOMAIN c : c[i] \in ACondition
  <1>1. c \in Seq(ACondition)
    BY DEF Conditions, ACondition
  <1> QED  BY <1>1, LenProperties, ElementOfSeq

\* In a list without duplicates, the condition that FindCondition points to is
\* the one of that type.
LEMMA FoundIsThe ==
  ASSUME NEW c \in Conditions, OneOfEachType(c), NEW i \in DOMAIN c
  PROVE  /\ HasCondition(c, c[i].type) /\ FoundAt(c, c[i].type) = i
         /\ StatusOf(c, c[i].type) = c[i].status
         /\ AgeOf(c, c[i].type) = c[i].age
  <1> DEFINE t == c[i].type
  <1>1. DOMAIN c = 1 .. Len(c) /\ Len(c) \in Nat
    BY ListElements
  <1>2. HasCondition(c, t)
    BY DEF HasCondition
  <1>3. \A k \in DOMAIN c : c[k].type = t => k = i
    BY DEF OneOfEachType
  <1>4. c[i].type = t /\ \A j \in 1 .. i - 1 : c[j].type # t
    BY <1>1, <1>3
  <1> HIDE DEF t
  <1>5. FoundAt(c, t) = i
    BY <1>3, <1>4 DEF FoundAt
  <1> QED  BY <1>2, <1>5 DEF StatusOf, AgeOf, t

\* NewCondition makes a condition of its type that has no status yet.
LEMMA NewConditionFacts ==
  ASSUME NEW t \in Texts
  PROVE  /\ NewCondition(t) \in ACondition
         /\ NewCondition(t).type = t /\ NewCondition(t).status = ""
  <1>1. "" \in Texts
    BY DEF Texts
  <1>2. NewCondition(t) \in ACondition
    BY <1>1, AgeBounds DEF NewCondition, ACondition
  <1> QED  BY <1>2 DEF NewCondition

\* FindCondition leaves a list with one condition of each type that has the
\* type, and the conditions that were there are where they were.
LEMMA FindFacts ==
  ASSUME NEW c \in Conditions, OneOfEachType(c), NEW t \in Texts
  PROVE  /\ FindCondition(c, t) \in Conditions /\ OneOfEachType(FindCondition(c, t))
         /\ HasCondition(FindCondition(c, t), t)
         /\ \A i \in DOMAIN c : i \in DOMAIN FindCondition(c, t) /\ FindCondition(c, t)[i] = c[i]
         /\ \A i \in DOMAIN FindCondition(c, t) :
              i \in DOMAIN c \/ (~HasCondition(c, t) /\ FindCondition(c, t)[i] = NewCondition(t))
  <1>1. CASE HasCondition(c, t)
    BY <1>1 DEF FindCondition
  <1>2. CASE ~HasCondition(c, t)
    <2> DEFINE n == Len(c)
               x == NewCondition(t)
               new == Append(c, x)
    <2>1. FindCondition(c, t) = new
      BY <1>2 DEF FindCondition
    <2>2. DOMAIN c = 1 .. n /\ n \in Nat
      BY ListElements
    <2>3. x \in ACondition /\ x.type = t
      BY NewConditionFacts
    <2>4. c \in Seq(ACondition)
      BY DEF Conditions, ACondition
    <2> HIDE DEF x
    <2>5. /\ new \in Seq(ACondition) /\ Len(new) = n + 1
          /\ \A i \in 1 .. n : new[i] = c[i]
          /\ new[n + 1] = x
      BY <2>3, <2>4, AppendProperties
    <2>6. DOMAIN new = 1 .. n + 1
      BY <2>5, LenProperties
    <2> HIDE DEF new, n
    <2>7. \A i \in 1 .. n : c[i].type # t
      BY <1>2, <2>2 DEF HasCondition
    <2>8. \A i \in 1 .. n + 1 : i \in 1 .. n \/ i = n + 1
      BY <2>2
    <2>9. OneOfEachType(new)
      BY <2>2, <2>3, <2>5, <2>6, <2>7, <2>8 DEF OneOfEachType
    <2>10. HasCondition(new, t)
      <3>1. n + 1 \in DOMAIN new
        BY <2>2, <2>6
      <3> QED  BY <3>1, <2>3, <2>5 DEF HasCondition
    <2>11. new \in Conditions
      BY <2>5 DEF Conditions, ACondition
    <2>12. \A i \in DOMAIN c : i \in DOMAIN new /\ new[i] = c[i]
      BY <2>2, <2>5, <2>6
    <2>13. \A i \in DOMAIN new : i \in DOMAIN c \/ new[i] = x
      BY <2>2, <2>5, <2>6, <2>8
    <2> QED  BY <1>2, <2>1, <2>9, <2>10, <2>11, <2>12, <2>13 DEF x
  <1> QED  BY <1>1, <1>2

\* What SetCondition does: it sets the condition of the type, with the age of
\* its last transition, and leaves the others alone.
SetAsTold(c, t, st, rs, msg, new) ==
  /\ new \in Conditions /\ OneOfEachType(new) /\ HasCondition(new, t)
  /\ \A i \in DOMAIN c : i \in DOMAIN new
  /\ \A i \in DOMAIN new : new[i].type # t => i \in DOMAIN c /\ new[i] = c[i]
  /\ \A i \in DOMAIN new : new[i].type = t =>
       /\ new[i].status = st /\ new[i].reason = rs
       /\ msg # "" => new[i].message = msg
       /\ \/ ~HasCondition(c, t) /\ new[i].age = 0
          \/ /\ i \in DOMAIN c /\ c[i].type = t
             /\ new[i].age = IF c[i].message # msg \/ c[i].status # st \/ c[i].reason # rs
                             THEN 0 ELSE c[i].age

\* What SetCondition does to a list, told by its elements.
LEMMA SetFacts ==
  ASSUME NEW c \in Conditions, OneOfEachType(c), NEW t \in Texts, NEW st \in Texts,
         NEW rs \in Texts, NEW msg \in Texts, st # ""
  PROVE  SetAsTold(c, t, st, rs, msg, SetCondition(c, t, st, rs, msg))
  <1> DEFINE list == FindCondition(c, t)
             k == FoundAt(list, t)
             moves == list[k].message # msg \/ list[k].status # st \/ list[k].reason # rs
             x == [type |-> t, status |-> st, reason |-> rs,
                   message |-> IF msg = "" THEN list[k].message ELSE msg,
                   age |-> IF moves THEN 0 ELSE list[k].age]
             new == SetCondition(c, t, st, rs, msg)
  <1>1. /\ list \in Conditions /\ OneOfEachType(list) /\ HasCondition(list, t)
        /\ \A i \in DOMAIN c : i \in DOMAIN list /\ list[i] = c[i]
        /\ \A i \in DOMAIN list :
             i \in DOMAIN c \/ (~HasCondition(c, t) /\ list[i] = NewCondition(t))
    BY FindFacts
  <1>2. new = [list EXCEPT ![k] = x]
    BY DEF SetCondition
  <1> HIDE DEF list, new
  <1>3. k \in DOMAIN list /\ list[k].type = t
    <2>1. PICK i \in DOMAIN list : list[i].type = t
      BY <1>1 DEF HasCondition
    <2> QED  BY <1>1, <2>1, FoundIsThe
  <1>4. list[k] \in ACondition
    BY <1>1, <1>3, ListElements
  <1> HIDE DEF k
  <1>5. x \in ACondition
    <2>1. (IF moves THEN 0 ELSE list[k].age) \in 0 .. MaxAge
      BY <1>4, AgeBounds DEF ACondition
    <2>2. (IF msg = "" THEN list[k].message ELSE msg) \in Texts
      BY <1>4 DEF ACondition
    <2> QED  BY <2>1, <2>2 DEF ACondition
  <1>6. /\ x.type = t /\ x.status = st /\ x.reason = rs /\ (msg # "" => x.message = msg)
        /\ x.age = IF moves THEN 0 ELSE list[k].age
    OBVIOUS
  <1> HIDE DEF x
  <1>7. list \in Seq(ACondition) /\ DOMAIN list = 1 .. Len(list)
    BY <1>1, ListElements DEF Conditions, ACondition
  <1>8. new \in Seq(ACondition) /\ Len(new) = Len(list)
    BY <1>2, <1>3, <1>5, <1>7, ExceptSeq
  <1>9. DOMAIN new = DOMAIN list /\ \A i \in DOMAIN list : new[i] = IF i = k THEN x ELSE list[i]
    BY <1>2, <1>7
  <1>10. \A i \in DOMAIN list : new[i].type = list[i].type
    BY <1>3, <1>6, <1>9
  <1>11. OneOfEachType(new)
    BY <1>1, <1>9, <1>10 DEF OneOfEachType
  <1>12. new \in Conditions
    BY <1>8 DEF Conditions, ACondition
  <1>13. HasCondition(new, t)
    BY <1>3, <1>9, <1>10 DEF HasCondition
  <1>14. ASSUME NEW i \in DOMAIN new, new[i].type # t
         PROVE  i \in DOMAIN c /\ new[i] = c[i]
    <2>1. i # k /\ new[i] = list[i]
      BY <1>3, <1>6, <1>9, <1>14
    <2>2. list[i] # NewCondition(t)
      BY <2>1, <1>14, NewConditionFacts
    <2> QED  BY <2>1, <2>2, <1>1, <1>9
  <1>15. ASSUME NEW i \in DOMAIN new, new[i].type = t
         PROVE  /\ new[i] = x
                /\ \/ ~HasCondition(c, t) /\ new[i].age = 0
                   \/ /\ i \in DOMAIN c /\ c[i].type = t
                      /\ new[i].age = IF \/ c[i].message # msg \/ c[i].status # st
                                         \/ c[i].reason # rs
                                      THEN 0 ELSE c[i].age
    <2>1. i = k /\ i \in DOMAIN list
      BY <1>1, <1>3, <1>9, <1>10, <1>15 DEF OneOfEachType
    <2>2. new[i] = x
      BY <2>1, <1>9
    <2>3. CASE i \in DOMAIN c
      BY <2>1, <2>2, <2>3, <1>1, <1>3, <1>6
    <2>4. CASE i \notin DOMAIN c
      <3>1. ~HasCondition(c, t) /\ list[k].status = ""
        BY <2>1, <2>4, <1>1, NewConditionFacts
      <3> QED  BY <2>2, <3>1, <1>6
    <2> QED  BY <2>2, <2>3, <2>4
  <1>16. \A i \in DOMAIN c : i \in DOMAIN new
    BY <1>1, <1>9
  <1> QED  BY <1>6, <1>11, <1>12, <1>13, <1>14, <1>15, <1>16 DEF new, SetAsTold

\* Noting that the Compute API is ready, or is not, in a copy of the stored
\* list leaves a list that may be stored.
LEMMA NoteCompute ==
  ASSUME NEW c \in Conditions, ListIsSound(c), NEW age, AgesAreTrue(c, c, age),
         NEW st, NEW rs, NEW msg,
         \/ st = "True" /\ rs = "QuerySucceeded" /\ msg = "ready"
         \/ st = "False" /\ rs = "QueryFailed" /\ msg = "not ready"
  PROVE  LET new == SetCondition(c, "ComputeApiReady", st, rs, msg)
         IN  new \in Conditions /\ ListIsSound(new) /\ AgesAreTrue(new, c, age)
  <1> DEFINE t == "ComputeApiReady"
             new == SetCondition(c, t, st, rs, msg)
  <1>1. t \in Texts /\ st \in Texts /\ rs \in Texts /\ msg \in Texts /\ st # "" /\ msg # ""
    BY DEF Texts
  <1>2. OneOfEachType(c)
    BY DEF ListIsSound
  <1>3. /\ new \in Conditions /\ OneOfEachType(new)
        /\ \A i \in DOMAIN new : new[i].type = t =>
             /\ new[i].status = st /\ new[i].reason = rs /\ new[i].message = msg
             /\ \/ ~HasCondition(c, t) /\ new[i].age = 0
                \/ /\ i \in DOMAIN c /\ c[i].type = t
                   /\ new[i].age = IF \/ c[i].message # msg \/ c[i].status # st
                                      \/ c[i].reason # rs
                                   THEN 0 ELSE c[i].age
    <2> HIDE DEF t
    <2>1. SetAsTold(c, t, st, rs, msg, new)
      BY <1>1, <1>2, SetFacts
    <2> HIDE DEF new
    <2> QED  BY <1>1, <2>1 DEF SetAsTold
  <1>4. ListIsSound(new)
    <2> HIDE DEF new
    <2> QED  BY <1>3 DEF ListIsSound
  <1>5. ASSUME NEW i \in DOMAIN new, new[i].type = t
        PROVE  new[i].age = IF new[i].status = StatusOf(c, t) THEN age ELSE 0
    <2>1. CASE ~HasCondition(c, t)
      <3>1. StatusOf(c, t) = "none"
        BY <2>1 DEF StatusOf
      <3>2. new[i].status = st /\ new[i].age = 0
        BY <2>1, <1>3, <1>5 DEF HasCondition
      <3> HIDE DEF new
      <3> QED  BY <3>1, <3>2
    <2>2. CASE HasCondition(c, t)
      <3>1. /\ i \in DOMAIN c /\ c[i].type = t /\ new[i].status = st
            /\ new[i].age = IF c[i].message # msg \/ c[i].status # st \/ c[i].reason # rs
                            THEN 0 ELSE c[i].age
        BY <2>2, <1>3, <1>5
      <3>2. StatusOf(c, t) = c[i].status
        BY <3>1, <1>2, FoundIsThe
      <3>3. c[i].age = age
        BY <3>1, <3>2 DEF AgesAreTrue
      <3>4. \/ c[i].status = "True" /\ c[i].reason = "QuerySucceeded" /\ c[i].message = "ready"
            \/ c[i].status = "False" /\ c[i].reason = "QueryFailed" /\ c[i].message = "not ready"
        BY <3>1 DEF ListIsSound
      <3> HIDE DEF new
      <3> QED  BY <3>1, <3>2, <3>3, <3>4
    <2> QED  BY <2>1, <2>2
  <1>6. AgesAreTrue(new, c, age)
    <2> HIDE DEF new
    <2> QED  BY <1>5 DEF AgesAreTrue
  <1> QED  BY <1>3, <1>4, <1>6

\* The Error condition has nothing to do with ComputeApiReady.
LEMMA NoteError ==
  ASSUME NEW c \in Conditions, ListIsSound(c), NEW stored, NEW age,
         AgesAreTrue(c, stored, age), NEW out
  PROVE  /\ ErrorCondition(c, out) \in Conditions /\ ListIsSound(ErrorCondition(c, out))
         /\ AgesAreTrue(ErrorCondition(c, out), stored, age)
  <1>1. ASSUME NEW st \in Texts, NEW rs \in Texts, NEW msg \in Texts, st # ""
        PROVE  LET new == SetCondition(c, "Error", st, rs, msg)
               IN  new \in Conditions /\ ListIsSound(new) /\ AgesAreTrue(new, stored, age)
    <2> DEFINE new == SetCondition(c, "Error", st, rs, msg)
    <2>1. "Error" \in Texts /\ OneOfEachType(c)
      BY DEF Texts, ListIsSound
    <2>2. /\ new \in Conditions /\ OneOfEachType(new)
          /\ \A i \in DOMAIN new : new[i].type # "Error" => i \in DOMAIN c /\ new[i] = c[i]
      <3>1. SetAsTold(c, "Error", st, rs, msg, new)
        BY <1>1, <2>1, SetFacts
      <3> HIDE DEF new
      <3> QED  BY <3>1 DEF SetAsTold
    <2> HIDE DEF new
    <2>3. \A i \in DOMAIN new : new[i].type = "ComputeApiReady" => i \in DOMAIN c /\ new[i] = c[i]
      BY <2>2
    <2>4. ListIsSound(new)
      BY <2>2, <2>3 DEF ListIsSound
    <2>5. ASSUME NEW i \in DOMAIN new, new[i].type = "ComputeApiReady"
          PROVE  new[i].age = IF new[i].status = StatusOf(stored, "ComputeApiReady")
                              THEN age ELSE 0
      <3>1. i \in DOMAIN c /\ new[i] = c[i] /\ c[i].type = "ComputeApiReady"
        BY <2>3, <2>5
      <3>2. c[i].age = IF c[i].status = StatusOf(stored, "ComputeApiReady") THEN age ELSE 0
        BY <3>1 DEF AgesAreTrue
      <3> QED  BY <3>1, <3>2
    <2>6. AgesAreTrue(new, stored, age)
      BY <2>5 DEF AgesAreTrue
    <2> QED  BY <2>2, <2>4, <2>6 DEF new
  <1>2. {"True", "False", "ReconcileError", "ReconcileErrorResolved", "failed", ""} \subseteq Texts
    BY DEF Texts
  <1>3. CASE out = "error"
    <2>1. ErrorCondition(c, out) = SetCondition(c, "Error", "True", "ReconcileError", "failed")
      BY <1>3 DEF ErrorCondition
    <2> QED  BY <2>1, <1>1, <1>2
  <1>4. CASE out # "error" /\ c # <<>>
    <2>1. ErrorCondition(c, out) =
            SetCondition(c, "Error", "False", "ReconcileErrorResolved", "")
      BY <1>4 DEF ErrorCondition
    <2> QED  BY <2>1, <1>1, <1>2
  <1>5. CASE out # "error" /\ c = <<>>
    BY <1>5 DEF ErrorCondition
  <1> QED  BY <1>3, <1>4, <1>5

\* A list that may be stored is true when it is, and may still be stored when
\* the write fails.
LEMMA StatusUpdateFacts ==
  ASSUME SetupTypeOK, NEW v, v.conditions \in Conditions, MayBeStored(v.conditions),
         MayBeStored(kube.conditions),
         NEW again \in BOOLEAN, NEW ok \in BOOLEAN, StatusUpdate(v, again, ok)
  PROVE  /\ ok => kube' = [kube EXCEPT !.state = v.state, !.conditions = v.conditions]
         /\ ~ok => kube' = kube
         /\ since' \in 0 .. MaxAge /\ queued' \in BOOLEAN
         /\ MayBeStored(kube.conditions)'
         /\ ListIsSound(v.conditions) /\ AgesAreTrue(v.conditions, kube'.conditions, since')
  <1> DEFINE t == "ComputeApiReady"
             c == v.conditions
  <1>1. ListIsSound(c) /\ AgesAreTrue(c, kube.conditions, since)
    BY DEF MayBeStored
  <1>2. CASE ok
    <2> DEFINE stored == [kube EXCEPT !.state = v.state, !.conditions = v.conditions]
    <2>1. /\ kube' = stored
          /\ since' = IF StatusOf(stored.conditions, t) = StatusOf(kube.conditions, t)
                      THEN since ELSE 0
          /\ queued' \in {queued \/ again \/ stored # kube, TRUE}
      BY <1>2 DEF StatusUpdate
    <2>2. stored.conditions = c
      BY DEF SetupTypeOK
    <2> HIDE DEF stored
    <2>3. since' \in 0 .. MaxAge
      BY <2>1, AgeBounds DEF SetupTypeOK
    <2>4. queued' \in BOOLEAN
      BY <2>1 DEF SetupTypeOK
    <2>5. \A i \in DOMAIN c : c[i].type = t => c[i].age = since' /\ StatusOf(c, t) = c[i].status
      <3> SUFFICES ASSUME NEW i \in DOMAIN c, c[i].type = t
                   PROVE  c[i].age = since' /\ StatusOf(c, t) = c[i].status
        OBVIOUS
      <3>1. StatusOf(c, t) = c[i].status
        BY <1>1, FoundIsThe DEF ListIsSound
      <3>2. c[i].age = IF c[i].status = StatusOf(kube.conditions, t) THEN since ELSE 0
        BY <1>1 DEF AgesAreTrue
      <3> QED  BY <3>1, <3>2, <2>1, <2>2
    <2>6. AgesAreTrue(c, c, since')
      BY <2>5 DEF AgesAreTrue
    <2>7. kube'.conditions = c
      BY <2>1, <2>2
    <2> QED  BY <1>1, <1>2, <2>1, <2>3, <2>4, <2>6, <2>7 DEF MayBeStored, stored
  <1>3. CASE ~ok
    <2>1. kube' = kube /\ since' = since /\ queued' = (queued \/ again)
      BY <1>3 DEF StatusUpdate
    <2> QED  BY <1>1, <1>3, <2>1 DEF SetupTypeOK, MayBeStored
  <1> QED  BY <1>2, <1>3

-----------------------------------------------------------------------------
(* The worker's record.                                                    *)

Outs == {"stop", "now", "after", "error"}
PCs == SetupCalls \cup {"idle", "StateReady", "Zones", "ClaimProjectID", "ClaimReady", "Condition"}

\* The fields of v that no call of the setup changes.
Keeps(v) ==
  v \in Worker /\ v.account = w.account /\ v.state = w.state /\ v.conditions = w.conditions

\* The worker that goes on with another call.
LEMMA AtFields ==
  ASSUME w \in Worker, NEW p \in PCs
  PROVE  At(p) \in Worker /\ Keeps(At(p)) /\ At(p).pc = p /\ At(p).todo = w.todo
  <1>1. 0 \in 0 .. KeyTries
    BY DEF KeyTries
  <1> QED  BY <1>1 DEF At, Worker, PCs, Keeps

\* The worker that has finished its chain.
LEMMA FinishedFields ==
  ASSUME w \in Worker, NEW o \in Outs
  PROVE  Keeps(Finished(o)) /\ Finished(o).pc = "Condition" /\ Finished(o).out = o
  <1>1. /\ At("Condition") \in Worker /\ Keeps(At("Condition"))
        /\ At("Condition").pc = "Condition"
    BY AtFields DEF PCs
  <1> QED  BY <1>1 DEF Finished, Worker, Keeps, Outs

\* The worker that tries its call again.
LEMMA RetryFields ==
  ASSUME w \in Worker, w.retry + 1 <= KeyTries
  PROVE  LET v == [w EXCEPT !.retry = @ + 1]
         IN  Keeps(v) /\ v.pc = w.pc /\ v.todo = w.todo
  <1>1. w.retry + 1 \in 0 .. KeyTries
    BY DEF Worker, KeyTries
  <1> QED  BY <1>1 DEF Worker, Keeps

\* A call takes effect and is answered, or fails with or without an effect.
LEMMA CallFacts ==
  ASSUME NEW g, NEW next, Call(g, next)
  PROVE  \/ w' = next /\ gcp' = g
         \/ w' = Finished("error") /\ (gcp' = g \/ gcp' = gcp)
  BY DEF Call

-----------------------------------------------------------------------------
(* The calls of the setup.                                                 *)

\* In the setup nobody says Ready yet, so a call has to keep ProgressInv only.
LEMMA SetupCallKeeps ==
  ASSUME SetupInv, w.pc \in SetupCalls \cup {"StateReady"}, InGCP,
         Keeps(w'), w'.pc \in SetupCalls \cup {"StateReady", "Condition"},
         gcp' \in Project, ProgressInv'
  PROVE  SetupInv'
  <1>1. /\ kube' = kube /\ since' = since /\ config' = config /\ queued' = queued
        /\ stable' = stable /\ w' \in Worker
    BY DEF InGCP, Keeps
  <1>2. SetupTypeOK'
    BY <1>1 DEF SetupInv, SetupTypeOK
  <1>3. /\ w.state = "Creating" /\ kube.state = "Creating" /\ w.conditions = kube.conditions
        /\ ~kube.claimReady /\ w.account \in ConfiguredAccounts /\ w.pc # "idle"
    BY DEF SetupInv, ReadyInv, ConditionsInv, SetupCalls
  <1>4. w'.state = "Creating" /\ w'.conditions = kube.conditions /\ w'.account \in ConfiguredAccounts
    BY <1>3 DEF Keeps
  <1>5. ConditionsInv'
    BY <1>1, <1>4 DEF SetupInv, ConditionsInv, MayBeStored
  <1>6. w'.pc \notin {"idle", "Zones", "ClaimProjectID", "ClaimReady"}
    BY DEF SetupCalls
  <1>7. ReadyInv'
    BY <1>1, <1>3, <1>4, <1>6 DEF ReadyInv
  <1> QED  BY <1>2, <1>5, <1>7 DEF SetupInv

\* What a call may have done that failed: the keys that were made stay.
LEMMA FailedCallKeeps ==
  ASSUME SetupInv, w.pc \in SetupCalls, InGCP, NEW o \in Outs, w' = Finished(o),
         gcp' \in Project, gcp.keys > 0 => gcp'.keys > 0
  PROVE  SetupInv'
  <1>1. Keeps(w') /\ w'.pc = "Condition"
    BY FinishedFields DEF SetupInv, SetupTypeOK
  <1>2. kube' = kube
    BY DEF InGCP
  <1>3. ProgressInv'
    BY <1>1, <1>2 DEF SetupInv, ProgressInv, AfterBilling, AfterAPIs, AfterAccount, AfterPolicy
  <1> QED  BY <1>1, <1>3, SetupCallKeeps

\* So for a call it is enough that its success keeps ProgressInv.
LEMMA CallKeeps ==
  ASSUME SetupInv, w.pc \in SetupCalls, InGCP, NEW g \in Project, gcp.keys > 0 => g.keys > 0,
         NEW next, Keeps(next), next.pc \in SetupCalls \cup {"StateReady", "Condition"},
         Call(g, next), w' = next /\ gcp' = g => ProgressInv'
  PROVE  SetupInv'
  <1>1. CASE w' = next /\ gcp' = g
    <2>1. Keeps(w')
      BY <1>1 DEF Keeps
    <2> QED  BY <1>1, <2>1, SetupCallKeeps
  <1>2. CASE w' = Finished("error") /\ (gcp' = g \/ gcp' = gcp)
    <2>1. gcp' \in Project /\ (gcp.keys > 0 => gcp'.keys > 0)
      BY <1>2 DEF SetupInv, SetupTypeOK
    <2> QED  BY <1>2, <2>1, FailedCallKeeps DEF Outs
  <1> QED  BY <1>1, <1>2, CallFacts

\* An edit of one field of the project.
LEMMA ProjectEdits ==
  ASSUME SetupInv
  PROVE  /\ gcp \in Project
         /\ \A api \in RequiredAPIs \cup {BillingAPI} :
              LET g == [gcp EXCEPT !.accepted = @ \cup {api}]
              IN  /\ g \in Project /\ g.accepted = gcp.accepted \cup {api}
                  /\ g.billing = gcp.billing /\ g.account = gcp.account
                  /\ g.bound = gcp.bound /\ g.keys = gcp.keys
         /\ \A b \in ConfiguredAccounts \cup {<<>>} :
              LET g == [gcp EXCEPT !.billing = b]
              IN  /\ g \in Project /\ g.billing = b /\ g.accepted = gcp.accepted
                  /\ g.account = gcp.account /\ g.bound = gcp.bound /\ g.keys = gcp.keys
         /\ LET g == [gcp EXCEPT !.account = TRUE]
            IN  /\ g \in Project /\ g.account /\ g.billing = gcp.billing
                /\ g.accepted = gcp.accepted /\ g.bound = gcp.bound /\ g.keys = gcp.keys
         /\ LET g == [gcp EXCEPT !.bound = TRUE]
            IN  /\ g \in Project /\ g.bound /\ g.billing = gcp.billing
                /\ g.accepted = gcp.accepted /\ g.account = gcp.account /\ g.keys = gcp.keys
         /\ gcp.keys < KeyLimit =>
              LET g == [gcp EXCEPT !.keys = @ + 1]
              IN  /\ g \in Project /\ g.keys > 0 /\ g.billing = gcp.billing
                  /\ g.accepted = gcp.accepted /\ g.account = gcp.account /\ g.bound = gcp.bound
  <1>1. gcp \in Project
    BY DEF SetupInv, SetupTypeOK
  <1>2. gcp.keys < KeyLimit => gcp.keys + 1 \in 0 .. KeyLimit /\ gcp.keys + 1 > 0
    BY <1>1, SetupAssumption DEF Project
  <1> QED  BY <1>1, <1>2 DEF Project

\* ProgressInv, for the calls before the account is linked.
LEMMA BillingProgress ==
  ASSUME SetupInv, kube' = kube, gcp.keys > 0 => gcp'.keys > 0,
         w'.pc \in {"EnableBillingAPI", "BillingInfo", "Unlink", "Link"},
         w'.pc = "Unlink" => gcp'.billing # w'.account
  PROVE  ProgressInv'
  <1>1. w'.pc \notin AfterBilling
    BY DEF AfterBilling
  <1> QED  BY <1>1 DEF SetupInv, ProgressInv, AfterBilling, AfterAPIs, AfterAccount, AfterPolicy

\* configureBillingAPI lists the APIs.
LEMMA ListBillingKeeps ==
  ASSUME SetupInv, ListBillingAPIs
  PROVE  SetupInv'
  <1>1. w.pc = "ListBillingAPIs" /\ InGCP /\ w \in Worker /\ gcp \in Project
    BY DEF ListBillingAPIs, SetupInv, SetupTypeOK
  <1>2. PICK p \in {"BillingInfo", "EnableBillingAPI"} : Call(gcp, At(p))
    BY DEF ListBillingAPIs
  <1>3. Keeps(At(p)) /\ At(p).pc = p
    BY <1>1, AtFields DEF PCs, SetupCalls
  <1>4. w' = At(p) /\ gcp' = gcp => ProgressInv'
    BY <1>1, <1>3, BillingProgress DEF InGCP
  <1> QED  BY <1>1, <1>2, <1>3, <1>4, CallKeeps DEF SetupCalls

\* EnableAPI, from a call that is not the last to one that may be tried again.
LEMMA EnableKeeps ==
  ASSUME SetupInv, w.pc \in {"EnableBillingAPI", "EnableAPI"}, InGCP,
         NEW api \in RequiredAPIs \cup {BillingAPI}, NEW next, Keeps(next),
         next.pc \in SetupCalls, EnableAPI(api, next),
         w' = next /\ gcp' = [gcp EXCEPT !.accepted = @ \cup {api}] => ProgressInv'
  PROVE  SetupInv'
  <1>1. w \in Worker /\ gcp \in Project /\ w.pc \in SetupCalls
    BY DEF SetupInv, SetupTypeOK, SetupCalls
  <1>2. CASE Call([gcp EXCEPT !.accepted = @ \cup {api}], next)
    <2> DEFINE g == [gcp EXCEPT !.accepted = @ \cup {api}]
    <2>1. g \in Project /\ g.keys = gcp.keys
      BY ProjectEdits
    <2> HIDE DEF g
    <2>2. Call(g, next)
      BY <1>2 DEF g
    <2>3. w' = next /\ gcp' = g => ProgressInv'
      BY DEF g
    <2> QED  BY <1>1, <2>1, <2>2, <2>3, CallKeeps
  <1>3. CASE /\ w' = IF w.retry + 1 <= gcpAPIRetriesCount THEN [w EXCEPT !.retry = @ + 1]
                     ELSE Finished("error")
             /\ UNCHANGED gcp
    <2>1. CASE w.retry + 1 <= gcpAPIRetriesCount
      <3>1. w.retry + 1 <= KeyTries
        BY <1>1, <2>1 DEF gcpAPIRetriesCount, KeyTries, Worker
      <3>2. Keeps(w') /\ w'.pc = w.pc /\ w'.todo = w.todo
        BY <1>1, <1>3, <2>1, <3>1, RetryFields
      <3>3. gcp' = gcp /\ kube' = kube
        BY <1>3 DEF InGCP
      <3>4. ProgressInv'
        BY <3>2, <3>3 DEF SetupInv, ProgressInv, Keeps
      <3> QED  BY <1>1, <3>2, <3>3, <3>4, SetupCallKeeps
    <2>2. CASE ~(w.retry + 1 <= gcpAPIRetriesCount)
      BY <1>1, <1>3, <2>2, FailedCallKeeps DEF Outs
    <2> QED  BY <2>1, <2>2
  <1> QED  BY <1>2, <1>3 DEF EnableAPI

\* configureBillingAPI enables the billing API.
LEMMA EnableBillingKeeps ==
  ASSUME SetupInv, EnableBillingAPI
  PROVE  SetupInv'
  <1>1. /\ w.pc = "EnableBillingAPI" /\ InGCP /\ w \in Worker
        /\ EnableAPI(BillingAPI, At("BillingInfo"))
    BY DEF EnableBillingAPI, SetupInv, SetupTypeOK
  <1>2. Keeps(At("BillingInfo")) /\ At("BillingInfo").pc = "BillingInfo"
    BY <1>1, AtFields DEF PCs, SetupCalls
  <1>3. w' = At("BillingInfo") /\ gcp' = [gcp EXCEPT !.accepted = @ \cup {BillingAPI}]
          => ProgressInv'
    BY <1>1, <1>2, ProjectEdits, BillingProgress DEF InGCP
  <1> QED  BY <1>1, <1>2, <1>3, EnableKeeps DEF SetupCalls

\* ProgressInv, when the configured account is known to be linked.
LEMMA LinkedProgress ==
  ASSUME SetupInv, kube' = kube, gcp.keys > 0 => gcp'.keys > 0,
         w'.pc = "ListAPIs", gcp'.billing = w'.account
  PROVE  ProgressInv'
  <1>1. w'.pc \notin AfterAPIs
    BY DEF AfterBilling, AfterAPIs
  <1> QED  BY <1>1 DEF SetupInv, ProgressInv, AfterAPIs, AfterAccount, AfterPolicy

\* CreateCloudBillingAccount reads which account is linked.
LEMMA BillingInfoKeeps ==
  ASSUME SetupInv, GetBillingInfo
  PROVE  SetupInv'
  <1> DEFINE p == AfterBillingInfo
  <1>1. w.pc = "BillingInfo" /\ InGCP /\ w \in Worker /\ gcp \in Project /\ Call(gcp, At(p))
    BY DEF GetBillingInfo, SetupInv, SetupTypeOK
  <1>2. /\ p \in {"Link", "Unlink", "ListAPIs"}
        /\ (p = "ListAPIs") => gcp.billing = w.account
        /\ (p = "Unlink") => gcp.billing # w.account
    BY DEF AfterBillingInfo
  <1> HIDE DEF p
  <1>3. Keeps(At(p)) /\ At(p).pc = p
    BY <1>1, <1>2, AtFields DEF PCs, SetupCalls
  <1>4. w' = At(p) /\ gcp' = gcp => ProgressInv'
    BY <1>1, <1>2, <1>3, BillingProgress, LinkedProgress DEF InGCP, Keeps
  <1> QED  BY <1>1, <1>2, <1>3, <1>4, CallKeeps DEF SetupCalls

\* CreateCloudBillingAccount unlinks another account.
LEMMA UnlinkKeeps ==
  ASSUME SetupInv, UnlinkBilling
  PROVE  SetupInv'
  <1> DEFINE g == [gcp EXCEPT !.billing = <<>>]
  <1>1. w.pc = "Unlink" /\ InGCP /\ w \in Worker /\ Call(g, At("Link"))
    BY DEF UnlinkBilling, SetupInv, SetupTypeOK
  <1>2. g \in Project /\ g.keys = gcp.keys
    BY ProjectEdits
  <1> HIDE DEF g
  <1>3. Keeps(At("Link")) /\ At("Link").pc = "Link"
    BY <1>1, AtFields DEF PCs, SetupCalls
  <1>4. w' = At("Link") /\ gcp' = g => ProgressInv'
    BY <1>1, <1>2, <1>3, BillingProgress DEF InGCP
  <1> QED  BY <1>1, <1>2, <1>3, <1>4, CallKeeps DEF SetupCalls

\* CreateCloudBillingAccount links the configured account.
LEMMA LinkKeeps ==
  ASSUME SetupInv, LinkBilling
  PROVE  SetupInv'
  <1> DEFINE g == [gcp EXCEPT !.billing = w.account]
  <1>1. w.pc = "Link" /\ InGCP /\ w \in Worker /\ Call(g, At("ListAPIs"))
    BY DEF LinkBilling, SetupInv, SetupTypeOK
  <1>2. g \in Project /\ g.keys = gcp.keys /\ g.billing = w.account
    BY <1>1, ProjectEdits DEF Worker
  <1> HIDE DEF g
  <1>3. Keeps(At("ListAPIs")) /\ At("ListAPIs").pc = "ListAPIs"
    BY <1>1, AtFields DEF PCs, SetupCalls
  <1>4. w' = At("ListAPIs") /\ gcp' = g => ProgressInv'
    BY <1>1, <1>2, <1>3, LinkedProgress DEF InGCP, Keeps
  <1> QED  BY <1>1, <1>2, <1>3, <1>4, CallKeeps DEF SetupCalls

\* configureAPIS lists the APIs: what is not listed is to be enabled.
LEMMA ListAPIsKeeps ==
  ASSUME SetupInv, ListAPIs
  PROVE  SetupInv'
  <1>1. w.pc = "ListAPIs" /\ InGCP /\ w \in Worker /\ gcp \in Project
    BY DEF ListAPIs, SetupInv, SetupTypeOK
  <1>2. PICK listed \in Listings :
          LET todo == {i \in DOMAIN OSDRequiredAPIS : OSDRequiredAPIS[i] \notin listed}
          IN  Call(gcp, [At(IF todo = {} THEN "GetAccount" ELSE "EnableAPI") EXCEPT !.todo = todo])
    BY DEF ListAPIs
  <1> DEFINE todo == {i \in DOMAIN OSDRequiredAPIS : OSDRequiredAPIS[i] \notin listed}
             p == IF todo = {} THEN "GetAccount" ELSE "EnableAPI"
             next == [At(p) EXCEPT !.todo = todo]
  <1>3. Call(gcp, next)
    BY <1>2
  <1>4. listed \subseteq gcp.accepted
    BY DEF Listings
  <1>5. /\ todo \subseteq DOMAIN OSDRequiredAPIS
        /\ RequiredAPIs \subseteq gcp.accepted \cup {OSDRequiredAPIS[i] : i \in todo}
    BY <1>4 DEF RequiredAPIs
  <1>6. p \in {"GetAccount", "EnableAPI"} /\ (p = "GetAccount" <=> todo = {})
    OBVIOUS
  <1> HIDE DEF todo, p
  <1>7. Keeps(next) /\ next.pc = p /\ next.todo = todo
    <2>1. At(p) \in Worker /\ Keeps(At(p)) /\ At(p).pc = p
      BY <1>1, <1>6, AtFields DEF PCs, SetupCalls
    <2> QED  BY <2>1, <1>5 DEF Worker, Keeps
  <1> HIDE DEF next
  <1>8. ASSUME w' = next, gcp' = gcp
        PROVE  ProgressInv'
    <2>1. kube' = kube /\ gcp.billing = w.account
      BY <1>1 DEF InGCP, SetupInv, ProgressInv, AfterBilling
    <2>2. w'.pc \in {"GetAccount", "EnableAPI"} /\ w'.account = w.account
      BY <1>6, <1>7, <1>8 DEF Keeps
    <2>3. w'.pc = "GetAccount" => RequiredAPIs \subseteq gcp.accepted
      BY <1>5, <1>6, <1>7, <1>8
    <2>4. w'.pc = "EnableAPI" =>
            /\ w'.todo # {}
            /\ RequiredAPIs \subseteq gcp.accepted \cup {OSDRequiredAPIS[i] : i \in w'.todo}
      BY <1>5, <1>6, <1>7, <1>8
    <2>5. w'.pc \notin AfterAccount /\ (w'.pc \in AfterAPIs => w'.pc = "GetAccount")
      BY <2>2 DEF AfterBilling, AfterAPIs, AfterAccount
    <2> QED  BY <1>8, <2>1, <2>2, <2>3, <2>4, <2>5 DEF SetupInv, ProgressInv, AfterPolicy
  <1> QED  BY <1>1, <1>3, <1>6, <1>7, <1>8, CallKeeps DEF SetupCalls

\* The API that is next is one of those to enable.
LEMMA TodoHasMin ==
  ASSUME NEW todo \in SUBSET DOMAIN OSDRequiredAPIS, todo # {}
  PROVE  Min(todo) \in todo
  <1>1. DOMAIN OSDRequiredAPIS = 1 .. Len(OSDRequiredAPIS) /\ Len(OSDRequiredAPIS) \in Nat
    BY SetupAssumption, LenProperties
  <1>2. todo \subseteq Nat
    BY <1>1
  <1>3. PICK i \in todo : \A j \in todo : ~(<<j, i>> \in OpToRel(<, Nat))
    BY <1>2, WFMin, NatLessThanWellFounded
  <1>4. \A j \in todo : ~(j < i)
    BY <1>2, <1>3 DEF OpToRel
  <1>5. \A j \in todo : i <= j
    BY <1>2, <1>4
  <1> QED  BY <1>5 DEF Min

\* configureAPIS enables one API.
LEMMA EnableNextKeeps ==
  ASSUME SetupInv, EnableNextAPI
  PROVE  SetupInv'
  <1> DEFINE i == Min(w.todo)
             api == OSDRequiredAPIS[i]
             left == w.todo \ {i}
             p == IF left = {} THEN "GetAccount" ELSE "EnableAPI"
             next == [At(p) EXCEPT !.todo = left]
             g == [gcp EXCEPT !.accepted = @ \cup {api}]
  <1>1. w.pc = "EnableAPI" /\ InGCP /\ w \in Worker /\ gcp \in Project /\ EnableAPI(api, next)
    BY DEF EnableNextAPI, SetupInv, SetupTypeOK
  <1>2. w.todo # {} /\ w.todo \subseteq DOMAIN OSDRequiredAPIS /\ i \in w.todo
    BY <1>1, TodoHasMin DEF SetupInv, ProgressInv, Worker
  <1> HIDE DEF i
  <1>3. api \in RequiredAPIs
    BY <1>2 DEF RequiredAPIs
  <1>4. p \in {"GetAccount", "EnableAPI"} /\ (p = "GetAccount" <=> left = {})
    OBVIOUS
  <1>5. left \subseteq DOMAIN OSDRequiredAPIS
    BY <1>2
  <1>6. RequiredAPIs \subseteq (gcp.accepted \cup {api}) \cup {OSDRequiredAPIS[j] : j \in left}
    BY <1>1 DEF SetupInv, ProgressInv
  <1> HIDE DEF p, left
  <1>7. Keeps(next) /\ next.pc = p /\ next.todo = left
    <2>1. At(p) \in Worker /\ Keeps(At(p)) /\ At(p).pc = p
      BY <1>1, <1>4, AtFields DEF PCs, SetupCalls
    <2> QED  BY <2>1, <1>5 DEF Worker, Keeps
  <1>8. g.accepted = gcp.accepted \cup {api} /\ g.billing = gcp.billing /\ g.keys = gcp.keys
    BY <1>3, ProjectEdits
  <1> HIDE DEF next, api, g
  <1>9. ASSUME w' = next, gcp' = g
        PROVE  ProgressInv'
    <2>1. kube' = kube /\ gcp.billing = w.account
      BY <1>1 DEF InGCP, SetupInv, ProgressInv, AfterBilling
    <2>2. w'.pc \in {"GetAccount", "EnableAPI"} /\ w'.account = w.account
      BY <1>4, <1>7, <1>9 DEF Keeps
    <2>3. w'.pc = "GetAccount" => RequiredAPIs \subseteq gcp'.accepted
      BY <1>4, <1>6, <1>7, <1>8, <1>9
    <2>4. w'.pc = "EnableAPI" =>
            /\ w'.todo # {}
            /\ RequiredAPIs \subseteq gcp'.accepted \cup {OSDRequiredAPIS[j] : j \in w'.todo}
      BY <1>4, <1>6, <1>7, <1>8, <1>9
    <2>5. w'.pc \notin AfterAccount /\ (w'.pc \in AfterAPIs => w'.pc = "GetAccount")
      BY <2>2 DEF AfterBilling, AfterAPIs, AfterAccount
    <2>6. gcp'.billing = w'.account /\ gcp'.keys = gcp.keys
      BY <1>8, <1>9, <2>1, <2>2
    <2> QED  BY <2>1, <2>2, <2>3, <2>4, <2>5, <2>6 DEF SetupInv, ProgressInv, AfterPolicy
  <1> QED  BY <1>1, <1>3, <1>4, <1>7, <1>9, EnableKeeps DEF SetupCalls, g

\* ProgressInv, for the calls after the APIs are enabled.
LEMMA LateProgress ==
  ASSUME SetupInv, w.pc \in AfterAPIs, w'.pc \in AfterAPIs, Keeps(w'), kube' = kube,
         gcp'.billing = gcp.billing, gcp'.accepted = gcp.accepted,
         gcp.keys > 0 => gcp'.keys > 0,
         w'.pc \in AfterAccount => gcp'.account,
         w'.pc \in AfterPolicy => gcp'.bound,
         w'.pc \in {"GetKey", "CreateSecret"} => gcp'.keys > 0,
         w'.pc = "StateReady" => kube.secret,
         w'.pc = "CreateAccount" /\ gcp'.account => ~stable',
         w'.pc \in {"CreateKey", "GetKey"} => ~kube.cached
  PROVE  ProgressInv'
  <1>1. w.pc \in AfterBilling /\ w'.pc \notin {"EnableAPI", "Unlink"}
    BY DEF AfterBilling, AfterAPIs
  <1> QED  BY <1>1 DEF SetupInv, ProgressInv, Keeps

\* The calls that come after the APIs, the account and the policy.
LEMMA Stages ==
  /\ AfterAPIs = {"GetAccount", "CreateAccount", "Policy", "Credentials", "CreateKey", "GetKey",
                  "CreateSecret", "StateReady"}
  /\ AfterAccount = {"Policy", "Credentials", "CreateKey", "GetKey", "CreateSecret", "StateReady"}
  /\ AfterPolicy = {"Credentials", "CreateKey", "GetKey", "CreateSecret", "StateReady"}
  <1>1. AfterAPIs = {"GetAccount", "CreateAccount", "Policy", "Credentials", "CreateKey", "GetKey",
                     "CreateSecret", "StateReady"}
    BY DEF AfterBilling, AfterAPIs
  <1>2. AfterAccount = {"Policy", "Credentials", "CreateKey", "GetKey", "CreateSecret",
                        "StateReady"}
    BY <1>1 DEF AfterAccount
  <1>3. AfterPolicy = {"Credentials", "CreateKey", "GetKey", "CreateSecret", "StateReady"}
    BY <1>2 DEF AfterPolicy
  <1> QED  BY <1>1, <1>2, <1>3

\* configureServiceAccount looks for the account.
LEMMA GetAccountKeeps ==
  ASSUME SetupInv, GetAccount
  PROVE  SetupInv'
  <1>1. w.pc = "GetAccount" /\ InGCP /\ gcp' = gcp /\ w \in Worker /\ gcp \in Project
    BY DEF GetAccount, SetupInv, SetupTypeOK
  <1>2. PICK p \in {"Policy", "CreateAccount"} :
          /\ w' = At(p) /\ (p = "Policy" => gcp.account)
          /\ p = "CreateAccount" /\ gcp.account => ~stable
    BY DEF GetAccount, Faulty
  <1>3. Keeps(w') /\ w'.pc = p
    BY <1>1, <1>2, AtFields DEF PCs, SetupCalls
  <1>4. ProgressInv'
    BY <1>1, <1>2, <1>3, LateProgress, Stages DEF InGCP
  <1> QED  BY <1>1, <1>3, <1>4, SetupCallKeeps DEF SetupCalls

\* configureServiceAccount creates the account.
LEMMA CreateAccountKeeps ==
  ASSUME SetupInv, CreateAccount
  PROVE  SetupInv'
  <1>1. w.pc = "CreateAccount" /\ InGCP /\ w \in Worker /\ gcp \in Project /\ w.pc \in SetupCalls
    BY DEF CreateAccount, SetupInv, SetupTypeOK, SetupCalls
  <1>2. CASE Call([gcp EXCEPT !.account = TRUE], At("Policy"))
    <2> DEFINE g == [gcp EXCEPT !.account = TRUE]
    <2>1. /\ g \in Project /\ g.account /\ g.keys = gcp.keys /\ g.billing = gcp.billing
          /\ g.accepted = gcp.accepted
      BY ProjectEdits
    <2>2. Keeps(At("Policy")) /\ At("Policy").pc = "Policy"
      BY <1>1, AtFields DEF PCs, SetupCalls
    <2>3. Call(g, At("Policy"))
      BY <1>2
    <2> HIDE DEF g
    <2>4. ASSUME w' = At("Policy"), gcp' = g
          PROVE  ProgressInv'
      <3>1. Keeps(w') /\ w'.pc = "Policy" /\ kube' = kube
        BY <1>1, <2>2, <2>4 DEF Keeps, InGCP
      <3> QED  BY <1>1, <2>1, <2>4, <3>1, LateProgress, Stages
    <2> QED  BY <1>1, <2>1, <2>2, <2>3, <2>4, CallKeeps DEF SetupCalls
  <1>3. CASE w' \in {Finished("after"), Finished("error")} /\ UNCHANGED gcp
    BY <1>1, <1>3, FailedCallKeeps DEF Outs
  <1> QED  BY <1>2, <1>3 DEF CreateAccount

\* SetIAMPolicy gives the account its roles.
LEMMA SetPolicyKeeps ==
  ASSUME SetupInv, SetPolicy
  PROVE  SetupInv'
  <1> DEFINE g == [gcp EXCEPT !.bound = TRUE]
  <1>1. w.pc = "Policy" /\ InGCP /\ w \in Worker /\ Call(g, At("Credentials"))
    BY DEF SetPolicy, SetupInv, SetupTypeOK
  <1>2. /\ g \in Project /\ g.bound /\ g.keys = gcp.keys /\ g.billing = gcp.billing
        /\ g.accepted = gcp.accepted /\ g.account = gcp.account
    BY ProjectEdits
  <1> HIDE DEF g
  <1>3. Keeps(At("Credentials")) /\ At("Credentials").pc = "Credentials"
    BY <1>1, AtFields DEF PCs, SetupCalls
  <1>4. gcp.account
    BY <1>1, Stages DEF SetupInv, ProgressInv
  <1>5. ASSUME w' = At("Credentials"), gcp' = g
        PROVE  ProgressInv'
    <2>1. Keeps(w') /\ w'.pc = "Credentials" /\ kube' = kube
      BY <1>1, <1>3, <1>5 DEF Keeps, InGCP
    <2> QED  BY <1>1, <1>2, <1>4, <1>5, <2>1, LateProgress, Stages
  <1> QED  BY <1>1, <1>2, <1>3, <1>5, CallKeeps DEF SetupCalls

\* createCredentials reads the account.
LEMMA AccountForKeyKeeps ==
  ASSUME SetupInv, GetAccountForKey
  PROVE  SetupInv'
  <1>1. /\ w.pc = "Credentials" /\ InGCP /\ gcp' = gcp /\ kube' = kube /\ w \in Worker
        /\ gcp \in Project /\ w.pc \in SetupCalls
    BY DEF GetAccountForKey, SetupInv, SetupTypeOK, InGCP, SetupCalls
  <1>2. \/ kube.cached /\ w' = At("StateReady")
        \/ ~kube.cached /\ w' = At("CreateKey")
        \/ w' \in {Finished("after"), Finished("error")}
    BY DEF GetAccountForKey
  <1>3. gcp.account /\ gcp.bound /\ (kube.cached => kube.secret)
    BY <1>1, Stages DEF SetupInv, ProgressInv
  <1>4. ASSUME NEW p \in {"StateReady", "CreateKey"}, w' = At(p), (p = "StateReady") <=> kube.cached
        PROVE  SetupInv'
    <2>1. Keeps(w') /\ w'.pc = p
      BY <1>1, <1>4, AtFields DEF PCs, SetupCalls
    <2>2. ProgressInv'
      BY <1>1, <1>3, <1>4, <2>1, LateProgress, Stages
    <2> QED  BY <1>1, <2>1, <2>2, SetupCallKeeps DEF SetupCalls
  <1>5. CASE w' \in {Finished("after"), Finished("error")}
    BY <1>1, <1>5, FailedCallKeeps DEF Outs
  <1> QED  BY <1>2, <1>4, <1>5

\* CreateServiceAccountKey makes a key.
LEMMA CreateKeyKeeps ==
  ASSUME SetupInv, CreateKey
  PROVE  SetupInv'
  <1>1. w.pc = "CreateKey" /\ InGCP /\ w \in Worker /\ gcp \in Project /\ w.pc \in SetupCalls
    BY DEF CreateKey, SetupInv, SetupTypeOK, SetupCalls
  <1>2. gcp.account /\ gcp.bound /\ ~kube.cached
    BY <1>1, Stages DEF SetupInv, ProgressInv
  <1>3. CASE gcp.keys < KeyLimit
    <2> DEFINE g == [gcp EXCEPT !.keys = @ + 1]
    <2>1. /\ g \in Project /\ g.keys > 0 /\ g.billing = gcp.billing /\ g.accepted = gcp.accepted
          /\ g.account = gcp.account /\ g.bound = gcp.bound
      BY <1>3, ProjectEdits
    <2>2. Keeps(At("GetKey")) /\ At("GetKey").pc = "GetKey"
      BY <1>1, AtFields DEF PCs, SetupCalls
    <2>3. Call(g, At("GetKey"))
      BY <1>3 DEF CreateKey
    <2> HIDE DEF g
    <2>4. ASSUME w' = At("GetKey"), gcp' = g
          PROVE  ProgressInv'
      <3>1. Keeps(w') /\ w'.pc = "GetKey" /\ kube' = kube
        BY <1>1, <2>2, <2>4 DEF Keeps, InGCP
      <3> QED  BY <1>1, <1>2, <2>1, <2>4, <3>1, LateProgress, Stages
    <2> QED  BY <1>1, <2>1, <2>2, <2>3, <2>4, CallKeeps DEF SetupCalls
  <1>4. CASE ~(gcp.keys < KeyLimit)
    <2>1. w' = Finished("error") /\ gcp' = gcp
      BY <1>4 DEF CreateKey
    <2> QED  BY <1>1, <2>1, FailedCallKeeps DEF Outs
  <1> QED  BY <1>3, <1>4

\* CreateServiceAccountKey reads the key back.
LEMMA GetKeyKeeps ==
  ASSUME SetupInv, GetKey
  PROVE  SetupInv'
  <1>1. /\ w.pc = "GetKey" /\ InGCP /\ gcp' = gcp /\ kube' = kube /\ w \in Worker
        /\ gcp \in Project /\ w.pc \in SetupCalls
    BY DEF GetKey, SetupInv, SetupTypeOK, InGCP, SetupCalls
  <1>2. gcp.account /\ gcp.bound /\ gcp.keys > 0 /\ ~kube.cached
    BY <1>1, Stages DEF SetupInv, ProgressInv
  <1>3. ASSUME Keeps(w'), w'.pc \in {"GetKey", "CreateSecret"}
        PROVE  SetupInv'
    <2>1. ProgressInv'
      BY <1>1, <1>2, <1>3, LateProgress, Stages
    <2> QED  BY <1>1, <1>3, <2>1, SetupCallKeeps DEF SetupCalls
  <1>4. CASE w' = At("CreateSecret")
    BY <1>1, <1>3, <1>4, AtFields DEF PCs, SetupCalls
  <1>5. CASE w.retry + 1 < KeyTries /\ w' = [w EXCEPT !.retry = @ + 1]
    <2>1. w.retry + 1 <= KeyTries
      BY <1>1, <1>5 DEF Worker, KeyTries
    <2> QED  BY <1>1, <1>3, <1>5, <2>1, RetryFields
  <1>6. CASE w' = Finished("error")
    BY <1>1, <1>6, FailedCallKeeps DEF Outs
  <1> QED  BY <1>4, <1>5, <1>6 DEF GetKey

-----------------------------------------------------------------------------
(* The other steps.                                                        *)

\* createCredentials stores the key in the Secret.
LEMMA CreateSecretKeeps ==
  ASSUME SetupInv, CreateSecret
  PROVE  SetupInv'
  <1>1. /\ w.pc = "CreateSecret" /\ w \in Worker /\ gcp \in Project /\ kube \in Objects
        /\ w.pc \in SetupCalls
        /\ gcp' = gcp /\ since' = since /\ config' = config /\ queued' = queued /\ stable' = stable
    BY DEF CreateSecret, SetupInv, SetupTypeOK, SetupCalls
  <1>2. CASE kube' = [kube EXCEPT !.secret = TRUE] /\ w' = At("StateReady")
    <2>1. /\ kube' \in Objects /\ kube'.secret /\ kube'.conditions = kube.conditions
          /\ kube'.state = kube.state /\ kube'.claimReady = kube.claimReady
          /\ kube'.zones = kube.zones /\ kube'.cached = kube.cached
      BY <1>1, <1>2 DEF Objects
    <2>2. Keeps(w') /\ w'.pc = "StateReady"
      BY <1>1, <1>2, AtFields DEF PCs
    <2>3. SetupTypeOK'
      BY <1>1, <2>1, <2>2 DEF SetupInv, SetupTypeOK, Keeps
    <2>4. /\ w.state = "Creating" /\ kube.state = "Creating" /\ w.conditions = kube.conditions
          /\ ~kube.claimReady /\ w.account \in ConfiguredAccounts
      BY <1>1 DEF SetupInv, ReadyInv, ConditionsInv
    <2>5. ConditionsInv'
      BY <1>1, <2>1, <2>2, <2>4 DEF SetupInv, ConditionsInv, MayBeStored, Keeps
    <2>6. ProgressInv'
      <3>1. /\ gcp.billing = w.account /\ RequiredAPIs \subseteq gcp.accepted /\ gcp.account
            /\ gcp.bound /\ gcp.keys > 0
        BY <1>1, Stages DEF SetupInv, ProgressInv, AfterBilling
      <3> QED  BY <1>1, <2>1, <2>2, <3>1 DEF ProgressInv, Keeps
    <2>7. ReadyInv'
      BY <1>1, <2>1, <2>2, <2>4 DEF ReadyInv, Keeps
    <2> QED  BY <2>3, <2>5, <2>6, <2>7 DEF SetupInv
  <1>3. CASE w' = Finished("error") /\ UNCHANGED kube
    <2>1. InGCP
      BY <1>1, <1>3 DEF InGCP
    <2> QED  BY <1>1, <1>3, <2>1, FailedCallKeeps DEF Outs
  <1> QED  BY <1>2, <1>3 DEF CreateSecret

\* What is left of the objects by a write of the status.
LEMMA StatusFields ==
  ASSUME SetupTypeOK, NEW v, v.conditions \in Conditions, v.state \in {"Creating", "Ready"},
         NEW ok \in BOOLEAN,
         ok => kube' = [kube EXCEPT !.state = v.state, !.conditions = v.conditions],
         ~ok => kube' = kube
  PROVE  /\ kube' \in Objects
         /\ kube'.secret = kube.secret /\ kube'.cached = kube.cached
         /\ kube'.zones = kube.zones /\ kube'.claimReady = kube.claimReady
         /\ ok => kube'.state = v.state /\ kube'.conditions = v.conditions
         /\ ~ok => kube'.state = kube.state
  <1>1. kube \in Objects
    BY DEF SetupTypeOK
  <1>2. CASE ok
    BY <1>1, <1>2 DEF Objects
  <1>3. CASE ~ok
    BY <1>1, <1>3
  <1> QED  BY <1>2, <1>3

\* Configured depends on these fields only.
LEMMA ConfiguredFrame ==
  ASSUME Configured, gcp' = gcp, kube'.secret = kube.secret
  PROVE  Configured'
  BY DEF Configured

\* EnsureStateReady.
LEMMA StateReadyKeeps ==
  ASSUME SetupInv, EnsureStateReady
  PROVE  SetupInv'
  <1> DEFINE ready == [w EXCEPT !.state = "Ready"]
  <1>1. w.pc = "StateReady" /\ w \in Worker /\ gcp' = gcp /\ config' = config /\ stable' = stable
    BY DEF EnsureStateReady, SetupInv, SetupTypeOK
  <1>2. PICK ok \in BOOLEAN :
          /\ StatusUpdate(ready, FALSE, ok)
          /\ w' = [ready EXCEPT !.pc = "Condition", !.out = IF ok THEN "stop" ELSE "error"]
    BY DEF EnsureStateReady
  <1>3. /\ ready.state = "Ready" /\ ready.conditions = w.conditions
        /\ w' \in Worker /\ w'.pc = "Condition" /\ w'.state = "Ready"
        /\ w'.conditions = w.conditions /\ w'.account = w.account
    BY <1>1, <1>2 DEF Worker
  <1> HIDE DEF ready
  <1>4. /\ w.conditions = kube.conditions /\ MayBeStored(kube.conditions)
        /\ w.conditions \in Conditions /\ w.account \in ConfiguredAccounts
        /\ kube.state = "Creating" /\ ~kube.claimReady
    BY <1>1 DEF SetupInv, ConditionsInv, Worker, ReadyInv
  <1>5. /\ ok => kube' = [kube EXCEPT !.state = ready.state, !.conditions = ready.conditions]
        /\ ~ok => kube' = kube
        /\ since' \in 0 .. MaxAge /\ queued' \in BOOLEAN
        /\ MayBeStored(kube.conditions)'
        /\ ListIsSound(ready.conditions)
        /\ AgesAreTrue(ready.conditions, kube'.conditions, since')
    BY <1>2, <1>3, <1>4, StatusUpdateFacts DEF SetupInv
  <1>6. /\ kube' \in Objects /\ kube'.secret = kube.secret /\ kube'.cached = kube.cached
        /\ kube'.zones = kube.zones /\ kube'.claimReady = kube.claimReady
    BY <1>3, <1>4, <1>5, StatusFields DEF SetupInv
  <1>7. SetupTypeOK'
    BY <1>1, <1>3, <1>5, <1>6 DEF SetupInv, SetupTypeOK
  <1>8. ConditionsInv'
    BY <1>3, <1>5 DEF ConditionsInv, MayBeStored
  <1>9. /\ gcp.billing = w.account /\ RequiredAPIs \subseteq gcp.accepted /\ gcp.account
        /\ gcp.bound /\ kube.secret /\ gcp.keys > 0 /\ (kube.cached => kube.secret)
    BY <1>1, Stages DEF SetupInv, ProgressInv, AfterBilling
  <1>10. ProgressInv'
    BY <1>1, <1>3, <1>6, <1>9, Stages DEF ProgressInv, AfterBilling
  <1>11. Configured /\ Configured'
    BY <1>1, <1>4, <1>6, <1>9, ConfiguredFrame DEF Configured
  <1>12. ReadyInv'
    BY <1>3, <1>4, <1>6, <1>11, <1>1 DEF ReadyInv, SetupCalls
  <1> QED  BY <1>7, <1>8, <1>10, <1>12 DEF SetupInv

\* After a step to "Condition" that leaves GCP, and what it leaves of the
\* objects, alone.
LEMMA ToConditionKeeps ==
  ASSUME SetupInv, w.pc \in {"Zones", "ClaimProjectID", "ClaimReady"},
         gcp' = gcp, config' = config, stable' = stable,
         since' \in 0 .. MaxAge, queued' \in BOOLEAN,
         w' \in Worker, w'.pc = "Condition", w'.state = w.state, w'.account = w.account,
         kube' \in Objects, kube'.state = kube.state, kube'.secret = kube.secret,
         kube'.cached = kube.cached,
         kube.zones # {} => kube'.zones # {}, kube'.claimReady => kube'.zones # {},
         MayBeStored(kube.conditions)', MayBeStored(w.conditions)'
  PROVE  SetupInv'
  <1>1. SetupTypeOK'
    BY DEF SetupInv, SetupTypeOK
  <1>2. ConditionsInv'
    BY DEF ConditionsInv
  <1>3. ProgressInv'
    BY Stages DEF SetupInv, ProgressInv, AfterBilling
  <1>4. w.state = "Ready" /\ kube.state = "Ready" /\ Configured /\ w.account \in ConfiguredAccounts
    BY DEF SetupInv, ReadyInv
  <1>5. Configured'
    BY <1>4, ConfiguredFrame
  <1>6. ReadyInv'
    BY <1>4, <1>5 DEF ReadyInv, SetupCalls
  <1> QED  BY <1>1, <1>2, <1>3, <1>6 DEF SetupInv

\* ensureClaimAvailabilityZonesSet.
LEMMA ZonesSetKeeps ==
  ASSUME SetupInv, EnsureClaimAvailabilityZonesSet
  PROVE  SetupInv'
  <1> DEFINE new == SetCondition(w.conditions, "ComputeApiReady", "True", "QuerySucceeded", "ready")
             noted == [w EXCEPT !.conditions = new]
  <1>1. /\ w.pc = "Zones" /\ w \in Worker /\ kube \in Objects
        /\ gcp' = gcp /\ since' = since /\ config' = config /\ queued' = queued /\ stable' = stable
    BY DEF EnsureClaimAvailabilityZonesSet, SetupInv, SetupTypeOK
  <1>2. w.conditions = kube.conditions /\ MayBeStored(kube.conditions) /\ w.conditions \in Conditions
    BY <1>1 DEF SetupInv, ConditionsInv, Worker
  <1>3. new \in Conditions /\ MayBeStored(new)
    <2>1. ListIsSound(w.conditions) /\ AgesAreTrue(w.conditions, w.conditions, since)
      BY <1>2 DEF MayBeStored
    <2> QED  BY <1>2, <2>1, NoteCompute DEF MayBeStored
  <1>4. PICK o \in {"now", "error"} :
          /\ w' = [noted EXCEPT !.pc = "Condition", !.out = o]
          /\ kube' = [kube EXCEPT !.zones = ZonesListed] \/ kube' = kube
    BY DEF EnsureClaimAvailabilityZonesSet
  <1> HIDE DEF new
  <1>5. /\ w' \in Worker /\ w'.pc = "Condition" /\ w'.state = w.state /\ w'.account = w.account
        /\ w'.conditions = new
    BY <1>1, <1>3, <1>4 DEF Worker
  <1>6. /\ kube' \in Objects /\ kube'.state = kube.state /\ kube'.conditions = kube.conditions
        /\ kube'.secret = kube.secret /\ kube'.cached = kube.cached
        /\ kube'.claimReady = kube.claimReady /\ kube'.zones \in {kube.zones, ZonesListed}
    BY <1>1, <1>4 DEF Objects
  <1>7. (kube.zones # {} => kube'.zones # {}) /\ (kube'.claimReady => kube'.zones # {})
    BY <1>1, <1>6 DEF SetupInv, ReadyInv, Objects
  <1>8. MayBeStored(kube.conditions)' /\ MayBeStored(w.conditions)'
    BY <1>1, <1>2, <1>3, <1>5, <1>6 DEF MayBeStored
  <1>9. since' \in 0 .. MaxAge /\ queued' \in BOOLEAN
    BY <1>1 DEF SetupInv, SetupTypeOK
  <1> QED  BY <1>1, <1>5, <1>6, <1>7, <1>8, <1>9, ToConditionKeeps

\* handleAvailabilityZonesError.
LEMMA ZonesErrorKeeps ==
  ASSUME SetupInv, HandleAvailabilityZonesError
  PROVE  SetupInv'
  <1> DEFINE new == SetCondition(w.conditions, "ComputeApiReady", "False", "QueryFailed", "not ready")
             noted == [w EXCEPT !.conditions = new]
  <1>1. /\ w.pc = "Zones" /\ w \in Worker /\ kube \in Objects
        /\ gcp' = gcp /\ config' = config /\ stable' = stable
    BY DEF HandleAvailabilityZonesError, SetupInv, SetupTypeOK
  <1>2. /\ w.conditions = kube.conditions /\ MayBeStored(kube.conditions)
        /\ w.conditions \in Conditions /\ w.state = kube.state /\ w.state = "Ready"
        /\ (kube.claimReady => kube.zones # {})
    BY <1>1 DEF SetupInv, ConditionsInv, ReadyInv, Worker
  <1>3. new \in Conditions /\ MayBeStored(new)
    <2>1. ListIsSound(w.conditions) /\ AgesAreTrue(w.conditions, w.conditions, since)
      BY <1>2 DEF MayBeStored
    <2> QED  BY <1>2, <2>1, NoteCompute DEF MayBeStored
  <1>4. CASE \E ok \in BOOLEAN, o \in {"error", "after"} :
               /\ StatusUpdate(noted, FALSE, ok)
               /\ w' = [noted EXCEPT !.pc = "Condition", !.out = o]
    <2>1. PICK ok \in BOOLEAN, o \in {"error", "after"} :
            /\ StatusUpdate(noted, FALSE, ok)
            /\ w' = [noted EXCEPT !.pc = "Condition", !.out = o]
      BY <1>4
    <2> HIDE DEF new
    <2>2. /\ noted.conditions = new /\ noted.state = w.state
          /\ w' \in Worker /\ w'.pc = "Condition" /\ w'.state = w.state /\ w'.account = w.account
          /\ w'.conditions = new
      BY <1>1, <1>3, <2>1 DEF Worker
    <2> HIDE DEF noted
    <2>3. /\ ok => kube' = [kube EXCEPT !.state = noted.state, !.conditions = noted.conditions]
          /\ ~ok => kube' = kube
          /\ since' \in 0 .. MaxAge /\ queued' \in BOOLEAN
          /\ MayBeStored(kube.conditions)'
          /\ ListIsSound(noted.conditions)
          /\ AgesAreTrue(noted.conditions, kube'.conditions, since')
      BY <1>2, <1>3, <2>1, <2>2, StatusUpdateFacts DEF SetupInv
    <2>4. /\ kube' \in Objects /\ kube'.secret = kube.secret /\ kube'.cached = kube.cached
          /\ kube'.zones = kube.zones /\ kube'.claimReady = kube.claimReady
          /\ kube'.state = kube.state
      BY <1>2, <1>3, <2>2, <2>3, StatusFields DEF SetupInv
    <2>5. MayBeStored(w.conditions)'
      BY <2>2, <2>3 DEF MayBeStored
    <2> QED  BY <1>1, <1>2, <2>2, <2>3, <2>4, <2>5, ToConditionKeeps
  <1>5. CASE w' = Finished("error") /\ UNCHANGED <<kube, since, queued>>
    <2>1. Keeps(w') /\ w'.pc = "Condition"
      BY <1>1, <1>5, FinishedFields DEF Outs
    <2>2. MayBeStored(kube.conditions)' /\ MayBeStored(w.conditions)'
      BY <1>2, <1>5, <2>1 DEF MayBeStored, Keeps
    <2>3. since' \in 0 .. MaxAge /\ queued' \in BOOLEAN
      BY <1>5 DEF SetupInv, SetupTypeOK
    <2> QED  BY <1>1, <1>2, <1>5, <2>1, <2>2, <2>3, ToConditionKeeps DEF Keeps
  <1> QED  BY <1>4, <1>5 DEF HandleAvailabilityZonesError

\* ensureClaimProjectIDSet.
LEMMA ClaimIDKeeps ==
  ASSUME SetupInv, EnsureClaimProjectIDSet
  PROVE  SetupInv'
  <1>1. /\ w.pc = "ClaimProjectID" /\ w \in Worker /\ kube \in Objects
        /\ gcp' = gcp /\ since' = since /\ config' = config /\ queued' = queued /\ stable' = stable
    BY DEF EnsureClaimProjectIDSet, SetupInv, SetupTypeOK
  <1>2. /\ w.conditions = kube.conditions /\ MayBeStored(kube.conditions) /\ kube.zones # {}
        /\ w.state = "Ready" /\ kube.state = "Ready" /\ w.account \in ConfiguredAccounts
        /\ Configured
    BY <1>1 DEF SetupInv, ConditionsInv, ReadyInv
  <1>3. since' \in 0 .. MaxAge /\ queued' \in BOOLEAN
    BY <1>1 DEF SetupInv, SetupTypeOK
  <1>4. CASE kube' = [kube EXCEPT !.claimID = TRUE] /\ w' = At("ClaimReady")
    <2>1. Keeps(w') /\ w'.pc = "ClaimReady"
      BY <1>1, <1>4, AtFields DEF PCs
    <2>2. /\ kube' \in Objects /\ kube'.state = kube.state /\ kube'.conditions = kube.conditions
          /\ kube'.secret = kube.secret /\ kube'.cached = kube.cached /\ kube'.zones = kube.zones
          /\ kube'.claimReady = kube.claimReady
      BY <1>1, <1>4 DEF Objects
    <2>3. SetupTypeOK'
      BY <1>1, <1>3, <2>1, <2>2 DEF SetupInv, SetupTypeOK, Keeps
    <2>4. ConditionsInv'
      BY <1>1, <1>2, <2>1, <2>2 DEF ConditionsInv, MayBeStored, Keeps
    <2>5. ProgressInv'
      BY <1>1, <2>1, <2>2, Stages DEF SetupInv, ProgressInv, AfterBilling
    <2>6. Configured'
      BY <1>1, <1>2, <2>2, ConfiguredFrame
    <2>7. ReadyInv'
      BY <1>2, <2>1, <2>2, <2>6 DEF ReadyInv, SetupCalls, Keeps
    <2> QED  BY <2>3, <2>4, <2>5, <2>7 DEF SetupInv
  <1>5. CASE w' = Finished("error") /\ UNCHANGED kube
    <2>1. Keeps(w') /\ w'.pc = "Condition"
      BY <1>1, <1>5, FinishedFields DEF Outs
    <2>2. MayBeStored(kube.conditions)' /\ MayBeStored(w.conditions)'
      BY <1>1, <1>2, <1>5, <2>1 DEF MayBeStored, Keeps
    <2> QED  BY <1>1, <1>2, <1>3, <1>5, <2>1, <2>2, ToConditionKeeps DEF Keeps
  <1> QED  BY <1>4, <1>5 DEF EnsureClaimProjectIDSet

\* EnsureProjectClaimReady.
LEMMA ClaimReadyKeeps ==
  ASSUME SetupInv, EnsureProjectClaimReady
  PROVE  SetupInv'
  <1>1. /\ w.pc = "ClaimReady" /\ w \in Worker /\ kube \in Objects
        /\ gcp' = gcp /\ since' = since /\ config' = config /\ queued' = queued /\ stable' = stable
    BY DEF EnsureProjectClaimReady, SetupInv, SetupTypeOK
  <1>2. w.conditions = kube.conditions /\ MayBeStored(kube.conditions) /\ kube.zones # {}
    BY <1>1 DEF SetupInv, ConditionsInv, ReadyInv
  <1>3. PICK o \in Outs : w' = Finished(o)
    BY DEF EnsureProjectClaimReady, Outs
  <1>4. Keeps(w') /\ w'.pc = "Condition"
    BY <1>1, <1>3, FinishedFields
  <1>5. /\ kube' \in Objects /\ kube'.state = kube.state /\ kube'.conditions = kube.conditions
        /\ kube'.secret = kube.secret /\ kube'.cached = kube.cached /\ kube'.zones = kube.zones
    BY <1>1 DEF EnsureProjectClaimReady, Objects
  <1>6. MayBeStored(kube.conditions)' /\ MayBeStored(w.conditions)'
    BY <1>1, <1>2, <1>4, <1>5 DEF MayBeStored, Keeps
  <1>7. since' \in 0 .. MaxAge /\ queued' \in BOOLEAN
    BY <1>1 DEF SetupInv, SetupTypeOK
  <1> QED  BY <1>1, <1>2, <1>4, <1>5, <1>6, <1>7, ToConditionKeeps DEF Keeps

\* The idle worker.
LEMMA IdleFields == Idle \in Worker /\ Idle.pc = "idle" /\ Idle.state = "none"
  <1>1. <<>> \in Conditions
    BY EmptySeq DEF Conditions
  <1>2. 0 \in 0 .. KeyTries
    BY DEF KeyTries
  <1> QED  BY <1>1, <1>2 DEF Idle, Worker

\* An idle worker leaves only what is stored to be looked at.
LEMMA IdleKeeps ==
  ASSUME SetupInv, w' \in Worker, w'.pc = "idle", w'.state = "none",
         gcp' = gcp, config' \in ConfigMaps, stable' \in BOOLEAN,
         since' \in 0 .. MaxAge, queued' \in BOOLEAN,
         kube' \in Objects, kube'.secret = kube.secret, kube'.cached => kube'.secret,
         kube'.zones = kube.zones, kube'.claimReady = kube.claimReady,
         kube'.state \in {kube.state, w.state}, kube.state = "Ready" => kube'.state = "Ready",
         MayBeStored(kube.conditions)'
  PROVE  SetupInv'
  <1>1. SetupTypeOK'
    BY DEF SetupInv, SetupTypeOK
  <1>2. ConditionsInv'
    BY DEF ConditionsInv
  <1>3. ProgressInv'
    BY Stages DEF SetupInv, ProgressInv, AfterBilling
  <1>4. kube'.state = "Ready" => Configured'
    BY ConfiguredFrame DEF SetupInv, ReadyInv
  <1>5. ReadyInv'
    BY <1>4 DEF SetupInv, ReadyInv, SetupCalls
  <1> QED  BY <1>1, <1>2, <1>3, <1>5 DEF SetupInv

\* The end of Reconcile stores the conditions.
LEMMA FinishKeeps ==
  ASSUME SetupInv, FinishReconcile
  PROVE  SetupInv'
  <1> DEFINE new == ErrorCondition(w.conditions, w.out)
             noted == [w EXCEPT !.conditions = new]
             again == w.out \in {"error", "after"}
  <1>1. /\ w.pc = "Condition" /\ w \in Worker /\ kube \in Objects /\ w' = Idle
        /\ gcp' = gcp /\ config' = config /\ stable' = stable
        /\ config' \in ConfigMaps /\ stable' \in BOOLEAN
    BY DEF FinishReconcile, SetupInv, SetupTypeOK
  <1>2. /\ MayBeStored(w.conditions) /\ MayBeStored(kube.conditions) /\ w.conditions \in Conditions
        /\ w.state \in {"Creating", "Ready"} /\ (kube.state = "Ready" => w.state = "Ready")
        /\ (kube.cached => kube.secret)
    BY <1>1 DEF SetupInv, ConditionsInv, ReadyInv, ProgressInv, Worker
  <1>3. new \in Conditions /\ MayBeStored(new)
    BY <1>2, NoteError DEF MayBeStored
  <1>4. noted.conditions = new /\ noted.state = w.state
    BY <1>1 DEF Worker
  <1>5. CASE queued' = (queued \/ again) /\ UNCHANGED <<kube, since>>
    <2>1. queued' \in BOOLEAN /\ since' \in 0 .. MaxAge
      BY <1>5 DEF SetupInv, SetupTypeOK
    <2>2. MayBeStored(kube.conditions)'
      BY <1>2, <1>5 DEF MayBeStored
    <2> QED  BY <1>1, <1>2, <1>5, <2>1, <2>2, IdleFields, IdleKeeps
  <1>6. ASSUME NEW ok \in BOOLEAN, StatusUpdate(noted, again, ok)
        PROVE  SetupInv'
    <2>1. again \in BOOLEAN
      OBVIOUS
    <2> HIDE DEF noted, new, again
    <2>2. /\ ok => kube' = [kube EXCEPT !.state = noted.state, !.conditions = noted.conditions]
          /\ ~ok => kube' = kube
          /\ since' \in 0 .. MaxAge /\ queued' \in BOOLEAN
          /\ MayBeStored(kube.conditions)'
      BY <1>2, <1>3, <1>4, <1>6, <2>1, StatusUpdateFacts DEF SetupInv
    <2>3. /\ kube' \in Objects /\ kube'.secret = kube.secret /\ kube'.cached = kube.cached
          /\ kube'.zones = kube.zones /\ kube'.claimReady = kube.claimReady
          /\ ok => kube'.state = w.state
          /\ ~ok => kube'.state = kube.state
      BY <1>2, <1>3, <1>4, <2>2, StatusFields DEF SetupInv
    <2>4. kube'.state \in {kube.state, w.state} /\ (kube.state = "Ready" => kube'.state = "Ready")
      BY <1>2, <2>3
    <2> QED  BY <1>1, <1>2, <2>2, <2>3, <2>4, IdleFields, IdleKeeps
  <1> QED  BY <1>5, <1>6 DEF FinishReconcile

\* Reconcile begins with the stored status.
LEMMA ReconcileKeeps ==
  ASSUME SetupInv, Reconcile
  PROVE  SetupInv'
  <1>1. /\ w.pc = "idle" /\ gcp' = gcp /\ kube' = kube /\ since' = since /\ config' = config
        /\ stable' = stable /\ queued' = FALSE /\ ValidConfigMap(config)
        /\ w' = [Idle EXCEPT !.pc = FirstCall, !.account = Trimmed(config.billingAccount),
                             !.state = kube.state, !.conditions = kube.conditions]
    BY DEF Reconcile
  <1>2. Trimmed(config.billingAccount) \in ConfiguredAccounts
    BY <1>1 DEF ConfiguredAccounts, SetupInv, SetupTypeOK
  <1>3. kube.state \in {"Creating", "Ready"} /\ kube.conditions \in Conditions
    BY DEF SetupInv, SetupTypeOK, Objects
  <1>4. /\ FirstCall \in {"Condition", "ListBillingAPIs", "Zones", "ClaimProjectID", "ClaimReady"}
        /\ FirstCall = "ListBillingAPIs" => kube.state = "Creating"
        /\ FirstCall \in {"Zones", "ClaimProjectID", "ClaimReady"} => kube.state = "Ready"
        /\ FirstCall \in {"ClaimProjectID", "ClaimReady"} => kube.zones # {}
    BY <1>3 DEF FirstCall
  <1>5. /\ w' \in Worker /\ w'.pc = FirstCall /\ w'.account \in ConfiguredAccounts
        /\ w'.state = kube.state /\ w'.conditions = kube.conditions
    <2> HIDE DEF FirstCall, Trimmed
    <2> QED  BY <1>1, <1>2, <1>3, <1>4, IdleFields DEF Worker, SetupCalls
  <1>6. SetupTypeOK'
    BY <1>1, <1>5 DEF SetupInv, SetupTypeOK
  <1>7. ConditionsInv'
    BY <1>1, <1>5 DEF SetupInv, ConditionsInv, MayBeStored
  <1>8. w'.pc \notin AfterBilling
    BY <1>4, <1>5 DEF AfterBilling
  <1>9. ProgressInv'
    BY <1>1, <1>4, <1>5, <1>8 DEF SetupInv, ProgressInv, AfterBilling, AfterAPIs, AfterAccount, AfterPolicy
  <1>10. Configured' = Configured
    BY <1>1 DEF Configured
  <1>11. ReadyInv'
    BY <1>1, <1>3, <1>4, <1>5, <1>10 DEF SetupInv, ReadyInv, SetupCalls
  <1> QED  BY <1>6, <1>7, <1>9, <1>11 DEF SetupInv

\* Time passes for every condition alike.
LEMMA AgedFacts ==
  ASSUME NEW c \in Conditions, ListIsSound(c), NEW age \in 0 .. MaxAge, AgesAreTrue(c, c, age)
  PROVE  /\ Older(age) \in 0 .. MaxAge
         /\ Aged(c) \in Conditions /\ ListIsSound(Aged(c))
         /\ AgesAreTrue(Aged(c), Aged(c), Older(age))
  <1> DEFINE new == Aged(c)
             t == "ComputeApiReady"
  <1>1. \A a \in 0 .. MaxAge : Older(a) \in 0 .. MaxAge
    BY MaxAgeAssumption DEF Older
  <1>2. /\ DOMAIN c = 1 .. Len(c) /\ Len(c) \in Nat
        /\ \A i \in DOMAIN c : c[i] \in ACondition
    BY ListElements
  <1>3. DOMAIN new = DOMAIN c /\ \A i \in DOMAIN c : new[i] = [c[i] EXCEPT !.age = Older(@)]
    BY DEF Aged
  <1> HIDE DEF new
  <1>4. \A i \in DOMAIN c :
          /\ new[i] \in ACondition /\ new[i].type = c[i].type /\ new[i].status = c[i].status
          /\ new[i].reason = c[i].reason /\ new[i].message = c[i].message
          /\ new[i].age = Older(c[i].age)
    <2> HIDE DEF Older
    <2> QED  BY <1>1, <1>2, <1>3 DEF ACondition
  <1>5. new \in Conditions
    <2>1. new \in [1 .. Len(c) -> ACondition]
      BY <1>2, <1>3, <1>4 DEF new, Aged
    <2>2. new \in Seq(ACondition)
      BY <1>2, <2>1
    <2> QED  BY <2>2 DEF Conditions, ACondition
  <1>6. ListIsSound(new)
    <2>1. OneOfEachType(c)
      BY DEF ListIsSound
    <2>2. ASSUME NEW i \in DOMAIN new, NEW j \in DOMAIN new, new[i].type = new[j].type
          PROVE  i = j
      <3>1. c[i].type = c[j].type /\ i \in DOMAIN c /\ j \in DOMAIN c
        BY <2>2, <1>3, <1>4
      <3> QED  BY <2>1, <3>1 DEF OneOfEachType
    <2>3. OneOfEachType(new)
      BY <2>2 DEF OneOfEachType
    <2>4. ASSUME NEW i \in DOMAIN new, new[i].type = t
          PROVE  \/ /\ new[i].status = "True" /\ new[i].reason = "QuerySucceeded"
                    /\ new[i].message = "ready"
                 \/ /\ new[i].status = "False" /\ new[i].reason = "QueryFailed"
                    /\ new[i].message = "not ready"
      <3>1. i \in DOMAIN c /\ c[i].type = t
        BY <2>4, <1>3, <1>4
      <3>2. \/ c[i].status = "True" /\ c[i].reason = "QuerySucceeded" /\ c[i].message = "ready"
            \/ c[i].status = "False" /\ c[i].reason = "QueryFailed" /\ c[i].message = "not ready"
        BY <3>1 DEF ListIsSound
      <3> QED  BY <3>1, <3>2, <1>4
    <2> QED  BY <2>3, <2>4 DEF ListIsSound
  <1>7. ASSUME NEW i \in DOMAIN new, new[i].type = t
        PROVE  new[i].age = IF new[i].status = StatusOf(new, t) THEN Older(age) ELSE 0
    <2>1. StatusOf(new, t) = new[i].status
      BY <1>5, <1>6, <1>7, FoundIsThe DEF ListIsSound
    <2>2. i \in DOMAIN c /\ c[i].type = t
      BY <1>3, <1>4, <1>7
    <2>3. StatusOf(c, t) = c[i].status
      BY <2>2, FoundIsThe DEF ListIsSound
    <2>4. c[i].age = age
      BY <2>2, <2>3 DEF AgesAreTrue
    <2> QED  BY <2>1, <2>2, <2>4, <1>4
  <1>8. AgesAreTrue(new, new, Older(age))
    BY <1>7 DEF AgesAreTrue
  <1> QED  BY <1>1, <1>5, <1>6, <1>8 DEF new

\* What happens around the worker.
LEMMA WorldKeeps ==
  ASSUME SetupInv, Crash \/ SyncSecret \/ EditConfigMap \/ Tick \/ Stabilise
  PROVE  SetupInv'
  <1>1. /\ gcp \in Project /\ kube \in Objects /\ w \in Worker /\ since \in 0 .. MaxAge
        /\ config \in ConfigMaps /\ queued \in BOOLEAN /\ stable \in BOOLEAN
        /\ MayBeStored(kube.conditions) /\ (kube.cached => kube.secret)
        /\ (w.pc = "idle" => w.state = "none")
    BY DEF SetupInv, SetupTypeOK, ConditionsInv, ProgressInv, ReadyInv
  <1> DEFINE new == [kube EXCEPT !.cached = kube.secret]
  <1>2. /\ new \in Objects /\ new.cached = kube.secret /\ new.secret = kube.secret
        /\ new.zones = kube.zones /\ new.claimReady = kube.claimReady
        /\ new.state = kube.state /\ new.conditions = kube.conditions
    BY <1>1 DEF Objects
  <1>3. CASE Crash
    <2>1. /\ w' = Idle /\ queued' = TRUE /\ kube' = new
          /\ gcp' = gcp /\ since' = since /\ config' = config /\ stable' = stable
      BY <1>3 DEF Crash
    <2>2. MayBeStored(kube.conditions)'
      BY <1>1, <1>2, <2>1 DEF MayBeStored
    <2> HIDE DEF new
    <2> QED  BY <1>1, <1>2, <2>1, <2>2, IdleFields, IdleKeeps
  <1>4. CASE SyncSecret
    <2>1. /\ w' = w /\ w.pc = "idle" /\ queued' = queued /\ kube' = new
          /\ gcp' = gcp /\ since' = since /\ config' = config /\ stable' = stable
      BY <1>4 DEF SyncSecret
    <2>2. MayBeStored(kube.conditions)'
      BY <1>1, <1>2, <2>1 DEF MayBeStored
    <2> HIDE DEF new
    <2> QED  BY <1>1, <1>2, <2>1, <2>2, IdleKeeps
  <1>5. CASE EditConfigMap
    <2>1. /\ gcp' = gcp /\ kube' = kube /\ since' = since /\ queued' = queued
          /\ stable' = stable /\ w' = w /\ config' \in ConfigMaps
      BY <1>5 DEF EditConfigMap
    <2> QED
      BY <2>1 DEF SetupInv, SetupTypeOK, ConditionsInv, MayBeStored, ProgressInv, ReadyInv, Configured
  <1>6. CASE Tick
    <2>1. /\ w' = w /\ w.pc = "idle" /\ queued' = queued /\ since' = Older(since)
          /\ kube' = [kube EXCEPT !.conditions = Aged(@)]
          /\ gcp' = gcp /\ config' = config /\ stable' = stable
      BY <1>6 DEF Tick
    <2>2. /\ since' \in 0 .. MaxAge /\ Aged(kube.conditions) \in Conditions
          /\ ListIsSound(Aged(kube.conditions))
          /\ AgesAreTrue(Aged(kube.conditions), Aged(kube.conditions), since')
      <3>1. kube.conditions \in Conditions
        BY <1>1 DEF Objects
      <3> QED  BY <1>1, <2>1, <3>1, AgedFacts DEF MayBeStored
    <2>3. /\ kube' \in Objects /\ kube'.conditions = Aged(kube.conditions)
          /\ kube'.cached = kube.cached /\ kube'.secret = kube.secret
          /\ kube'.zones = kube.zones /\ kube'.claimReady = kube.claimReady
          /\ kube'.state = kube.state
      <3> HIDE DEF Aged
      <3> QED  BY <1>1, <2>1, <2>2 DEF Objects
    <2>4. MayBeStored(kube.conditions)'
      BY <2>2, <2>3 DEF MayBeStored
    <2> QED  BY <1>1, <2>1, <2>2, <2>3, <2>4, IdleKeeps
  <1>7. CASE Stabilise
    <2>1. /\ gcp' = gcp /\ kube' = kube /\ since' = since /\ queued' = queued
          /\ stable' = TRUE /\ w' = w /\ w.pc = "idle" /\ config' = config
      BY <1>7 DEF Stabilise
    <2>2. MayBeStored(kube.conditions)'
      BY <1>1, <2>1 DEF MayBeStored
    <2> QED  BY <1>1, <2>1, <2>2, IdleKeeps
  <1> QED  BY <1>3, <1>4, <1>5, <1>6, <1>7

\* A project that was just made.
LEMMA SetupInit == Init => SetupInv
  <1> SUFFICES ASSUME Init
               PROVE  SetupInv
    OBVIOUS
  <1>1. /\ since = 0 /\ config \in ConfigMaps /\ queued = TRUE /\ stable = FALSE /\ w = Idle
        /\ kube = [state |-> "Creating", conditions |-> <<>>, secret |-> FALSE,
                   cached |-> FALSE, zones |-> {}, claimID |-> FALSE, claimReady |-> FALSE]
    BY DEF Init
  <1>2. gcp \in Project
    <2>1. 0 \in 0 .. KeyLimit
      BY SetupAssumption
    <2>2. gcp \in [accepted : {{}}, billing : {<<>>, OtherAccount}, account : {FALSE},
                   bound : {FALSE}, keys : {0}]
      BY DEF Init
    <2> QED  BY <2>1, <2>2 DEF Project
  <1>3. <<>> \in Conditions /\ DOMAIN <<>> = {}
    BY EmptySeq DEF Conditions
  <1>4. /\ kube \in Objects /\ kube.state = "Creating" /\ kube.conditions = <<>>
        /\ kube.secret = FALSE /\ kube.cached = FALSE /\ kube.claimReady = FALSE
    BY <1>1, <1>3 DEF Objects
  <1>5. SetupTypeOK
    BY <1>1, <1>2, <1>4, AgeBounds, IdleFields DEF SetupTypeOK
  <1>6. MayBeStored(kube.conditions)
    BY <1>3, <1>4 DEF MayBeStored, ListIsSound, OneOfEachType, AgesAreTrue
  <1>7. ConditionsInv
    BY <1>1, <1>6, IdleFields DEF ConditionsInv
  <1>8. ProgressInv
    BY <1>1, <1>4, IdleFields, Stages DEF ProgressInv, AfterBilling
  <1>9. ReadyInv
    BY <1>1, <1>4, IdleFields DEF ReadyInv, SetupCalls
  <1> QED  BY <1>5, <1>7, <1>8, <1>9 DEF SetupInv

\* One step of any actor.
LEMMA SetupStep == SetupInv /\ [Next]_vars => SetupInv'
  <1> SUFFICES ASSUME SetupInv, [Next]_vars
               PROVE  SetupInv'
    OBVIOUS
  <1>1. CASE UNCHANGED vars
    BY <1>1 DEF vars, SetupInv, SetupTypeOK, ConditionsInv, MayBeStored, ProgressInv, ReadyInv,
               Configured
  <1>2. CASE WorkerStep
    BY <1>2, ListBillingKeeps, EnableBillingKeeps, BillingInfoKeeps, UnlinkKeeps, LinkKeeps,
       ListAPIsKeeps, EnableNextKeeps, GetAccountKeeps, CreateAccountKeeps, SetPolicyKeeps,
       AccountForKeyKeeps, CreateKeyKeeps, GetKeyKeeps, CreateSecretKeeps, StateReadyKeeps,
       ZonesSetKeeps, ZonesErrorKeeps, ClaimIDKeeps, ClaimReadyKeeps, FinishKeeps
       DEF WorkerStep
  <1> QED  BY <1>1, <1>2, ReconcileKeeps, WorldKeeps DEF Next

-----------------------------------------------------------------------------
(* The theorems.                                                           *)

\* The conditions, the progress of the setup and who says Ready agree.
THEOREM SetupInvariant == Spec => []SetupInv
  BY SetupInit, SetupStep, PTL DEF Spec

\* One step keeps the order of the claim's spec and its status.  Only the
\* reconcile of a reference that is Ready comes to the claim.
LEMMA ClaimStep ==
  ASSUME SetupInv, SetupInv', ClaimInv, [Next]_vars
  PROVE  ClaimInv'
  <1>1. kube \in Objects /\ kube' \in Objects
    BY DEF SetupInv, SetupTypeOK
  <1>2. w \in Worker /\ w' \in Worker
    BY DEF SetupInv, SetupTypeOK
  <1>3. w'.pc = "ClaimReady" => kube'.state = "Ready"
    BY DEF SetupInv, ReadyInv
  <1> DEFINE same == kube'.claimID = kube.claimID /\ kube'.claimReady = kube.claimReady
  <1>4. ASSUME same, w'.pc # "ClaimReady"
        PROVE  ClaimInv'
    BY <1>4 DEF ClaimInv
  <1>5. CASE kube' = kube /\ w' = w
    BY <1>5 DEF ClaimInv
  <1>6. CASE WorkerStep /\ w.pc \in SetupCalls
    <2>1. kube.state = "Creating"
      BY <1>1, <1>6 DEF SetupInv, ReadyInv, SetupCalls
    <2>2. ~(EnsureStateReady \/ EnsureClaimAvailabilityZonesSet \/ HandleAvailabilityZonesError
            \/ EnsureClaimProjectIDSet \/ EnsureProjectClaimReady \/ FinishReconcile)
      <3>1. w.pc \notin {"StateReady", "Zones", "ClaimProjectID", "ClaimReady", "Condition"}
        BY <1>6 DEF SetupCalls
      <3> QED
        BY <3>1, Zenon DEF EnsureStateReady, EnsureClaimAvailabilityZonesSet,
           HandleAvailabilityZonesError, EnsureClaimProjectIDSet, EnsureProjectClaimReady,
           FinishReconcile
    <2>3. kube' \in {kube, [kube EXCEPT !.secret = TRUE]}
      <3>1. CASE CreateSecret
        BY <3>1 DEF CreateSecret
      <3>2. CASE ~CreateSecret
        <4>1. InGCP
          BY <1>6, <2>2, <3>2, Zenon DEF WorkerStep, ListBillingAPIs, EnableBillingAPI,
             GetBillingInfo, UnlinkBilling, LinkBilling, ListAPIs, EnableNextAPI, GetAccount,
             CreateAccount, SetPolicy, GetAccountForKey, CreateKey, GetKey
        <4> QED  BY <4>1 DEF InGCP
      <3> QED  BY <3>1, <3>2
    <2>4. same /\ kube'.state = kube.state
      BY <1>1, <2>3 DEF Objects
    <2> QED  BY <1>3, <1>4, <2>1, <2>4
  <1>7. CASE EnsureStateReady
    <2>1. w'.pc = "Condition"
      BY <1>2, <1>7 DEF EnsureStateReady, Worker
    <2>2. PICK v, ok : StatusUpdate(v, FALSE, ok)
      BY <1>7, Zenon DEF EnsureStateReady
    <2>3. same
      BY <1>1, <2>2 DEF StatusUpdate, Objects
    <2> QED  BY <1>4, <2>1, <2>3
  <1>8. CASE EnsureClaimAvailabilityZonesSet
    <2>1. w'.pc = "Condition"
      BY <1>2, <1>8 DEF EnsureClaimAvailabilityZonesSet, Worker
    <2>2. same
      BY <1>1, <1>8 DEF EnsureClaimAvailabilityZonesSet, Objects
    <2> QED  BY <1>4, <2>1, <2>2
  <1>9. CASE HandleAvailabilityZonesError
    <2>1. w'.pc = "Condition"
      BY <1>2, <1>9, FinishedFields DEF HandleAvailabilityZonesError, Worker, Outs
    <2>2. \/ \E v, ok : StatusUpdate(v, FALSE, ok)
          \/ kube' = kube
      BY <1>9, Zenon DEF HandleAvailabilityZonesError
    <2>3. same
      BY <1>1, <2>2 DEF StatusUpdate, Objects
    <2> QED  BY <1>4, <2>1, <2>3
  <1>10. CASE FinishReconcile
    <2>1. w'.pc = "idle"
      BY <1>10, IdleFields DEF FinishReconcile
    <2>2. \/ \E v, again, ok : StatusUpdate(v, again, ok)
          \/ kube' = kube
      BY <1>10, Zenon DEF FinishReconcile
    <2>3. same
      BY <1>1, <2>2 DEF StatusUpdate, Objects
    <2> QED  BY <1>4, <2>1, <2>3
  <1>11. CASE EnsureClaimProjectIDSet
    <2>1. CASE kube' = [kube EXCEPT !.claimID = TRUE]
      BY <1>1, <2>1 DEF Objects, ClaimInv
    <2>2. CASE w' = Finished("error") /\ kube' = kube
      BY <1>2, <1>4, <2>2, FinishedFields DEF Outs
    <2> QED  BY <1>11, <2>1, <2>2 DEF EnsureClaimProjectIDSet
  <1>12. CASE EnsureProjectClaimReady
    <2>1. kube.claimID
      BY <1>12 DEF EnsureProjectClaimReady, ClaimInv
    <2>2. kube'.claimID = kube.claimID
      BY <1>1, <1>12 DEF EnsureProjectClaimReady, Objects
    <2> QED  BY <2>1, <2>2 DEF ClaimInv
  <1>13. CASE Reconcile
    <2>1. kube' = kube /\ (w'.pc = "ClaimReady" => FirstCall = "ClaimReady")
      BY <1>13, IdleFields DEF Reconcile, Worker
    <2>2. FirstCall = "ClaimReady" => kube.claimID
      BY <1>1 DEF FirstCall, Objects
    <2> QED  BY <2>1, <2>2 DEF ClaimInv
  <1>14. CASE Crash \/ SyncSecret \/ EditConfigMap \/ Tick \/ Stabilise
    <2>1. same
      BY <1>1, <1>14 DEF Crash, SyncSecret, EditConfigMap, Tick, Stabilise, Objects
    <2>2. w' \in {Idle, w}
      BY <1>14 DEF Crash, SyncSecret, EditConfigMap, Tick, Stabilise
    <2>3. w'.pc = "ClaimReady" => w.pc = "ClaimReady"
      BY <2>2, IdleFields
    <2> QED  BY <2>1, <2>3 DEF ClaimInv
  <1>15. WorkerStep => \/ w.pc \in SetupCalls
                      \/ EnsureStateReady \/ EnsureClaimAvailabilityZonesSet
                      \/ HandleAvailabilityZonesError \/ EnsureClaimProjectIDSet
                      \/ EnsureProjectClaimReady \/ FinishReconcile
    <2>1. ASSUME NEW p, w.pc = p, p \in {"ListBillingAPIs", "EnableBillingAPI", "BillingInfo",
                    "Unlink", "Link", "ListAPIs", "EnableAPI", "GetAccount", "CreateAccount",
                    "Policy", "Credentials", "CreateKey", "GetKey", "CreateSecret"}
          PROVE  w.pc \in SetupCalls
      BY <2>1 DEF SetupCalls
    <2> QED
      BY <2>1, Zenon DEF WorkerStep, ListBillingAPIs, EnableBillingAPI, GetBillingInfo,
         UnlinkBilling, LinkBilling, ListAPIs, EnableNextAPI, GetAccount, CreateAccount,
         SetPolicy, GetAccountForKey, CreateKey, GetKey, CreateSecret
  <1>16. UNCHANGED vars => kube' = kube /\ w' = w
    BY DEF vars
  <1> QED
    BY <1>5, <1>6, <1>7, <1>8, <1>9, <1>10, <1>11, <1>12, <1>13, <1>14, <1>15, <1>16 DEF Next

\* The claim's status is not written before its spec.
LEMMA SpecFirst == Spec => []ClaimInv
  <1>1. Init => ClaimInv
    BY IdleFields DEF Init, ClaimInv
  <1>2. SetupInv /\ SetupInv' /\ ClaimInv /\ [Next]_vars => ClaimInv'
    BY ClaimStep
  <1> QED  BY <1>1, <1>2, SetupInvariant, PTL DEF Spec

\* The age of the stored ComputeApiReady is how long it has had its status.
THEOREM TransitionTimesAreTrue == Spec => []TransitionTimeIsTrue
  <1>1. SetupInv => TransitionTimeIsTrue
    <2> SUFFICES ASSUME SetupInv, HasCondition(kube.conditions, "ComputeApiReady")
                 PROVE  AgeOf(kube.conditions, "ComputeApiReady") = since
      BY DEF TransitionTimeIsTrue
    <2>1. /\ kube.conditions \in Conditions /\ OneOfEachType(kube.conditions)
          /\ AgesAreTrue(kube.conditions, kube.conditions, since)
      BY DEF SetupInv, SetupTypeOK, Objects, ConditionsInv, MayBeStored, ListIsSound
    <2>2. PICK i \in DOMAIN kube.conditions : kube.conditions[i].type = "ComputeApiReady"
      BY DEF HasCondition
    <2>3. /\ StatusOf(kube.conditions, "ComputeApiReady") = kube.conditions[i].status
          /\ AgeOf(kube.conditions, "ComputeApiReady") = kube.conditions[i].age
      BY <2>1, <2>2, FoundIsThe
    <2> QED  BY <2>1, <2>2, <2>3 DEF AgesAreTrue
  <1> QED  BY <1>1, SetupInvariant, PTL

\* The zones that ListAvailabilityZones returns for the claim's region are the
\* zones of that region.  It is false for europe-west1, whose name is part of
\* europe-west10's.
ListedZonesAreOfRegion == \A z \in ZonesListed : z.region = <<"regions/">> \o Region

\* The claim is Ready only after every call of the setup has had its effect.
THEOREM ReadyMeansConfigured ==
  ListedZonesAreOfRegion => (Spec => []DoneIsConfigured)
  <1> SUFFICES ASSUME ListedZonesAreOfRegion
               PROVE  Spec => []DoneIsConfigured
    OBVIOUS
  <1>1. SetupInv /\ ClaimInv => DoneIsConfigured
    BY DEF SetupInv, SetupTypeOK, Objects, ReadyInv, ClaimInv, ListedZonesAreOfRegion,
           DoneIsConfigured, ZonesAreOfRegion
  <1> QED  BY <1>1, SetupInvariant, SpecFirst, PTL

-----------------------------------------------------------------------------
(* The steps of ProjectReferenceController.                                *)

\* What is seen of the state there.
LEMMA TheView ==
  /\ TheWorker.pc = Operation /\ TheWorker.ref = ReferenceObject /\ TheWorker.out = w.out
  /\ ReferenceObject.projectID = ID /\ ReferenceObject.owner = TheClaim
  /\ TheProjects[ID] = ProjectObject
  /\ TheSecrets[TheClaim] = IF kube.secret THEN ID ELSE Nil
  /\ CachedSecrets[TheClaim] = kube.cached
  BY DEF TheWorker, ReferenceObject, TheProjects, TheSecrets, CachedSecrets

\* Operation, with the calls that belong to each.
OperationIs ==
  /\ w.pc \in {"ListBillingAPIs", "EnableBillingAPI", "BillingInfo", "Unlink", "Link"} =>
       Operation = "Billing"
  /\ w.pc = "ListAPIs" => Operation = "APIs"
  /\ w.pc = "EnableAPI" =>
       Operation = IF RequiredAPIs \subseteq gcp.accepted THEN "ServiceAccount" ELSE "APIs"
  /\ w.pc \in {"GetAccount", "CreateAccount"} => Operation = "ServiceAccount"
  /\ w.pc \in {"Credentials", "CreateKey", "GetKey"} => Operation = "Credentials"
  /\ w.pc \in {"Policy", "CreateSecret", "StateReady", "Condition"} => Operation = w.pc

\* Operation, before a step.
LEMMA OperationOf == OperationIs
  BY DEF Operation, OperationIs

\* Operation, after a step.
LEMMA NextOperationOf == OperationIs'
  BY OperationOf, PTL

\* The worker there goes on with pc, or ends the chain.
Goes(pc) == TheWorker' = [TheWorker EXCEPT !.pc = pc]
Ends(out) ==
  TheWorker' = [TheWorker EXCEPT !.pc = "Condition", !.ref = TheWorker.ref, !.out = out]

\* The objects do not change.
LEMMA NextView ==
  /\ ReferenceObject' = ReferenceObject /\ ClaimObject' = ClaimObject
  /\ TheReference' = TheReference
  /\ TheWorker' = [pc |-> Operation', key |-> TheReference, ref |-> ReferenceObject,
                   claim |-> ClaimObject, out |-> w'.out]
  <1>1. /\ ReferenceObject' = ReferenceObject /\ ClaimObject' = ClaimObject
        /\ TheReference' = TheReference
    BY DEF ReferenceObject, ClaimObject, TheReference
  <1> QED BY <1>1 DEF TheWorker

\* The worker there when it goes on.
LEMMA GoesTo ==
  ASSUME w'.out = w.out
  PROVE  Goes(Operation')
  <1> DEFINE x == [TheWorker EXCEPT !.pc = Operation']
             R(pc, out) == [pc : {pc}, key : {TheReference}, ref : {ReferenceObject},
                            claim : {ClaimObject}, out : {out}]
  <1>1. TheWorker \in R(Operation, w.out)
    BY DEF TheWorker
  <1>2. x \in R(Operation', w.out)
    BY <1>1
  <1>3. TheWorker' \in R(Operation', w.out)
    BY NextView
  <1> HIDE DEF x
  <1>4. TheWorker' = x
    BY <1>2, <1>3
  <1> QED BY <1>4 DEF x, Goes

\* The worker there when it ends.
LEMMA EndsWith ==
  ASSUME w \in Worker, NEW out \in Outs, w' = Finished(out)
  PROVE  Ends(out)
  <1>1. w'.pc = "Condition" /\ w'.out = out
    BY FinishedFields
  <1>2. Operation' = "Condition"
    BY <1>1 DEF Operation
  <1> DEFINE x == [TheWorker EXCEPT !.pc = "Condition", !.ref = TheWorker.ref, !.out = out]
             R(pc, o) == [pc : {pc}, key : {TheReference}, ref : {ReferenceObject},
                          claim : {ClaimObject}, out : {o}]
  <1>3. TheWorker \in R(Operation, w.out)
    BY DEF TheWorker
  <1>4. x \in R("Condition", out)
    BY <1>3
  <1>5. TheWorker' \in R("Condition", out)
    BY <1>1, <1>2, NextView
  <1> HIDE DEF x
  <1>6. TheWorker' = x
    BY <1>4, <1>5
  <1> QED BY <1>6 DEF x, Ends

\* A step that nobody sees there.
LEMMA NotSeen ==
  ASSUME w'.out = w.out, Operation' = Operation, ProjectObject' = ProjectObject,
         kube'.secret = kube.secret, kube'.cached = kube.cached, stable' = stable
  PROVE  UNCHANGED Controller!vars
  BY DEF Controller!vars, Controller!claimObjs, Controller!refObjs, Controller!caches,
         Controller!queues, Controller!secrets, Controller!cloud, Controller!world,
         Controller!workers, TheWorker, TheProjects, TheSecrets, CachedSecrets,
         ReferenceObject, ClaimObject, TheReference

\* What a call on the project leaves as it is.
LEMMA CallFrame ==
  ASSUME kube' = kube, stable' = stable
  PROVE  UNCHANGED <<Controller!claimObjs, Controller!refObjs, Controller!caches,
                     Controller!queues, Controller!secrets, Controller!world>>
  BY NextView DEF Controller!claimObjs, Controller!refObjs, Controller!caches,
         Controller!queues, Controller!secrets, Controller!world, TheSecrets, CachedSecrets

\* A call that makes the project e, or fails before or after it has done so.
Calls(e, pc) ==
  /\ kube' = kube /\ stable' = stable
  /\ \/ ProjectObject' = e /\ Goes(pc)
     \/ ~stable /\ Ends("error") /\ ProjectObject' \in {e, ProjectObject}

\* Such a call is one of Configure.
LEMMA CallConfigures ==
  ASSUME NEW e, NEW pc, Calls(e, pc)
  PROVE  Controller!Configure(e, pc)
  <1>1. /\ TheWorker.ref.projectID = ID /\ TheProjects[ID] = ProjectObject
        /\ ProjectObject.life = "ACTIVE"
    BY TheView DEF ProjectObject
  <1>2. /\ TheProjects' = [id \in {ID} |-> ProjectObject']
        /\ ProjectObject' = e => TheProjects' = [TheProjects EXCEPT ![ID] = e]
        /\ ProjectObject' = ProjectObject => TheProjects' = TheProjects
    BY DEF TheProjects
  <1>3. ~stable => Controller!Faulty("gcpError")
    BY DEF Controller!Faulty, CallFaults
  <1>4. CASE ProjectObject' = e /\ Goes(pc)
    BY <1>1, <1>2, <1>4 DEF Controller!Configure, Controller!RefGoto, Goes
  <1>5. CASE ~stable /\ Ends("error") /\ ProjectObject' = e
    BY <1>1, <1>2, <1>3, <1>5 DEF Controller!Configure, Controller!RefFails, Controller!RefFinish, Ends
  <1>6. CASE ~stable /\ Ends("error") /\ ProjectObject' = ProjectObject
    BY <1>1, <1>2, <1>3, <1>6 DEF Controller!Configure, Controller!RefFails, Controller!RefFinish, Ends
  <1> QED BY <1>4, <1>5, <1>6 DEF Calls

\* The four operations that are such calls.
LEMMA CallSteps ==
  ASSUME NEW e, NEW pc, Calls(e, pc),
         \/ Operation = "Billing" /\ pc = "APIs" /\ e = [ProjectObject EXCEPT !.billing = TRUE]
         \/ Operation = "APIs" /\ pc = "ServiceAccount" /\ e = [ProjectObject EXCEPT !.apis = TRUE]
         \/ Operation = "ServiceAccount" /\ pc = "Policy" /\ e = [ProjectObject EXCEPT !.sa = TRUE]
         \/ Operation = "Policy" /\ pc = "Credentials" /\ e = [ProjectObject EXCEPT !.bound = TRUE]
  PROVE  Controller!ReferenceStep
  <1>1. /\ TheWorker.ref.projectID = ID /\ TheProjects[ID] = ProjectObject
        /\ TheWorker.pc = Operation
    BY TheView
  <1>2. Controller!Configure(e, pc)
    BY CallConfigures
  <1>3. UNCHANGED <<Controller!claimObjs, Controller!refObjs, Controller!caches,
                    Controller!queues, Controller!secrets, Controller!world>>
    BY CallFrame DEF Calls
  <1>4. CASE Operation = "Billing" /\ pc = "APIs" /\ e = [ProjectObject EXCEPT !.billing = TRUE]
    <2>1. Controller!ConfigureBillingAPI
      BY <1>1, <1>2, <1>3, <1>4 DEF Controller!ConfigureBillingAPI
    <2> QED BY <2>1 DEF Controller!ReferenceStep
  <1>5. CASE /\ Operation = "APIs" /\ pc = "ServiceAccount"
             /\ e = [ProjectObject EXCEPT !.apis = TRUE]
    <2>1. Controller!ConfigureAPIS
      BY <1>1, <1>2, <1>3, <1>5 DEF Controller!ConfigureAPIS
    <2> QED BY <2>1 DEF Controller!ReferenceStep
  <1>6. CASE /\ Operation = "ServiceAccount" /\ pc = "Policy"
             /\ e = [ProjectObject EXCEPT !.sa = TRUE]
    <2>1. Controller!ConfigureServiceAccount
      BY <1>1, <1>2, <1>3, <1>6 DEF Controller!ConfigureServiceAccount
    <2> QED BY <2>1 DEF Controller!ReferenceStep
  <1>7. CASE /\ Operation = "Policy" /\ pc = "Credentials"
             /\ e = [ProjectObject EXCEPT !.bound = TRUE]
    <2>1. Controller!SetIAMPolicy
      BY <1>1, <1>2, <1>3, <1>7 DEF Controller!SetIAMPolicy
    <2> QED BY <2>1 DEF Controller!ReferenceStep
  <1> QED BY <1>4, <1>5, <1>6, <1>7

\* How a call changes what is seen of the project.
EditOf(op) ==
  IF op = "Billing" THEN [ProjectObject EXCEPT !.billing = TRUE]
  ELSE IF op = "APIs" THEN [ProjectObject EXCEPT !.apis = TRUE]
  ELSE IF op = "ServiceAccount" THEN [ProjectObject EXCEPT !.sa = TRUE]
  ELSE [ProjectObject EXCEPT !.bound = TRUE]

NextOf(op) ==
  IF op = "Billing" THEN "APIs"
  ELSE IF op = "APIs" THEN "ServiceAccount"
  ELSE IF op = "ServiceAccount" THEN "Policy"
  ELSE "Credentials"

CallOperations == {"Billing", "APIs", "ServiceAccount", "Policy"}

\* A call that is not known to have succeeded.
LEMMA FailedCallSteps ==
  ASSUME w \in Worker, InGCP, ~stable, w' = Finished("error"),
         Operation \in CallOperations, ProjectObject' \in {EditOf(Operation), ProjectObject}
  PROVE  Controller!ReferenceStep
  <1>1. Ends("error")
    BY EndsWith DEF Outs
  <1>2. Calls(EditOf(Operation), NextOf(Operation))
    BY <1>1 DEF Calls, InGCP
  <1> QED BY <1>2, CallSteps DEF CallOperations, EditOf, NextOf

\* The last call of an operation.
LEMMA LastCallSteps ==
  ASSUME InGCP, w'.out = w.out, Operation \in CallOperations,
         Operation' = NextOf(Operation), ProjectObject' = EditOf(Operation)
  PROVE  Controller!ReferenceStep
  <1>1. Goes(NextOf(Operation))
    BY GoesTo
  <1>2. Calls(EditOf(Operation), NextOf(Operation))
    BY <1>1 DEF Calls, InGCP
  <1> QED BY <1>2, CallSteps DEF CallOperations, EditOf, NextOf

\* A call that is one of several of its operation.
LEMMA OtherCallSteps ==
  ASSUME InGCP, w'.out = w.out, Operation' = Operation, ProjectObject' = ProjectObject
  PROVE  UNCHANGED Controller!vars
  BY NotSeen DEF InGCP

\* Projects as they are seen, and when two of them are the same.
SeenProject ==
  [life : {"ACTIVE"}, billing : BOOLEAN, apis : BOOLEAN, sa : BOOLEAN, bound : BOOLEAN,
   console : BOOLEAN]

\* Projects with the same fields are the same.
LEMMA SameProject ==
  ASSUME NEW p \in SeenProject, NEW q \in SeenProject,
         p.life = q.life, p.billing = q.billing, p.apis = q.apis, p.sa = q.sa,
         p.bound = q.bound, p.console = q.console
  PROVE  p = q
  BY DEF SeenProject

\* What each edit does.
LEMMA EditsOf ==
  ASSUME ProjectObject \in SeenProject
  PROVE  /\ \A op \in CallOperations :
              EditOf(op) \in SeenProject /\ EditOf(op).console = ProjectObject.console
         /\ LET p == EditOf("Billing")
            IN  /\ p.billing /\ p.apis = ProjectObject.apis /\ p.sa = ProjectObject.sa
                /\ p.bound = ProjectObject.bound
         /\ LET p == EditOf("APIs")
            IN  /\ p.billing = ProjectObject.billing /\ p.apis /\ p.sa = ProjectObject.sa
                /\ p.bound = ProjectObject.bound
         /\ LET p == EditOf("ServiceAccount")
            IN  /\ p.billing = ProjectObject.billing /\ p.apis = ProjectObject.apis /\ p.sa
                /\ p.bound = ProjectObject.bound
         /\ LET p == EditOf("Policy")
            IN  /\ p.billing = ProjectObject.billing /\ p.apis = ProjectObject.apis
                /\ p.sa = ProjectObject.sa /\ p.bound
  BY DEF EditOf, SeenProject, CallOperations

\* What is seen of a project that was edited.
LEMMA NextProject ==
  ASSUME gcp \in Project, gcp' \in Project
  PROVE  /\ /\ gcp'.billing \in ConfiguredAccounts
            /\ RequiredAPIs \subseteq gcp.accepted <=> RequiredAPIs \subseteq gcp'.accepted
            /\ gcp'.account = gcp.account /\ gcp'.bound = gcp.bound
            => ProjectObject' = EditOf("Billing")
         /\ /\ gcp'.billing = gcp.billing
            /\ RequiredAPIs \subseteq gcp'.accepted
            /\ gcp'.account = gcp.account /\ gcp'.bound = gcp.bound
            => ProjectObject' = EditOf("APIs")
         /\ /\ gcp'.billing = gcp.billing /\ gcp'.accepted = gcp.accepted
            /\ gcp'.account /\ gcp'.bound = gcp.bound
            => ProjectObject' = EditOf("ServiceAccount")
         /\ /\ gcp'.billing = gcp.billing /\ gcp'.accepted = gcp.accepted
            /\ gcp'.account = gcp.account /\ gcp'.bound
            => ProjectObject' = EditOf("Policy")
         /\ /\ gcp'.billing \in ConfiguredAccounts <=> gcp.billing \in ConfiguredAccounts
            /\ RequiredAPIs \subseteq gcp.accepted <=> RequiredAPIs \subseteq gcp'.accepted
            /\ gcp'.account = gcp.account /\ gcp'.bound = gcp.bound
            => ProjectObject' = ProjectObject
  <1>1. /\ gcp.account \in BOOLEAN /\ gcp.bound \in BOOLEAN
        /\ gcp'.account \in BOOLEAN /\ gcp'.bound \in BOOLEAN
    BY DEF Project
  <1>2. RequiredAPIs' = RequiredAPIs /\ ConfiguredAccounts' = ConfiguredAccounts
    BY DEF RequiredAPIs, ConfiguredAccounts, ValidConfigMap, Trimmed
  <1> DEFINE B == gcp.billing \in ConfiguredAccounts
             A == RequiredAPIs \subseteq gcp.accepted
             C == gcp'.billing \in ConfiguredAccounts
             D == RequiredAPIs \subseteq gcp'.accepted
             p == ProjectObject
             q == ProjectObject'
  <1>3. /\ p \in SeenProject /\ (p.billing <=> B) /\ (p.apis <=> A)
        /\ p.sa = gcp.account /\ p.bound = gcp.bound /\ p.console = FALSE
    <2>1. p \in SeenProject
      BY <1>1 DEF ProjectObject, SeenProject
    <2> QED BY <2>1 DEF ProjectObject
  <1>4. /\ q \in SeenProject /\ (q.billing <=> C) /\ (q.apis <=> D)
        /\ q.sa = gcp'.account /\ q.bound = gcp'.bound /\ q.console = FALSE
    <2>1. q \in SeenProject
      BY <1>1, <1>2 DEF ProjectObject, SeenProject
    <2> QED BY <1>2, <2>1 DEF ProjectObject
  <1>5. /\ gcp'.billing = gcp.billing => (B <=> C)
        /\ gcp'.accepted = gcp.accepted => (A <=> D)
    OBVIOUS
  <1> HIDE DEF p, q
  <1>6. ASSUME NEW r \in SeenProject, r.console = FALSE,
               C <=> r.billing, D <=> r.apis, gcp'.account <=> r.sa, gcp'.bound <=> r.bound
        PROVE  q = r
    <2>1. /\ q.billing \in BOOLEAN /\ q.apis \in BOOLEAN /\ q.sa \in BOOLEAN /\ q.bound \in BOOLEAN
          /\ q.life = r.life /\ r.billing \in BOOLEAN /\ r.apis \in BOOLEAN /\ r.sa \in BOOLEAN /\ r.bound \in BOOLEAN
      BY <1>4, <1>6 DEF SeenProject
    <2>2. q.billing = r.billing /\ q.apis = r.apis /\ q.sa = r.sa /\ q.bound = r.bound
      BY <1>4, <1>6, <2>1
    <2> QED BY <1>4, <1>6, <2>1, <2>2, SameProject
  <1> DEFINE b == EditOf("Billing")
             a == EditOf("APIs")
             s == EditOf("ServiceAccount")
             r == EditOf("Policy")
  <1>7. /\ b \in SeenProject /\ b.console = FALSE /\ b.billing /\ b.apis = p.apis
        /\ b.sa = p.sa /\ b.bound = p.bound
        /\ a \in SeenProject /\ a.console = FALSE /\ a.billing = p.billing /\ a.apis
        /\ a.sa = p.sa /\ a.bound = p.bound
        /\ s \in SeenProject /\ s.console = FALSE /\ s.billing = p.billing
        /\ s.apis = p.apis /\ s.sa /\ s.bound = p.bound
        /\ r \in SeenProject /\ r.console = FALSE /\ r.billing = p.billing
        /\ r.apis = p.apis /\ r.sa = p.sa /\ r.bound
    BY <1>3, EditsOf DEF p, CallOperations
  <1> HIDE DEF a, b, s, r, A, B, C, D
  <1>8. C /\ (A <=> D) /\ gcp'.account = gcp.account /\ gcp'.bound = gcp.bound => q = b
    BY <1>3, <1>6, <1>7
  <1>9. /\ (B <=> C) /\ D /\ gcp'.account = gcp.account /\ gcp'.bound = gcp.bound => q = a
        /\ (B <=> C) /\ (A <=> D) /\ gcp'.account /\ gcp'.bound = gcp.bound => q = s
        /\ (B <=> C) /\ (A <=> D) /\ gcp'.account = gcp.account /\ gcp'.bound => q = r
    BY <1>3, <1>6, <1>7
  <1>10. (B <=> C) /\ (A <=> D) /\ gcp'.account = gcp.account /\ gcp'.bound = gcp.bound => q = p
    BY <1>3, <1>6
  <1> QED BY <1>5, <1>8, <1>9, <1>10 DEF p, q, a, b, s, r, A, B, C, D

-----------------------------------------------------------------------------
(* Each call is a step there, or none.                                     *)

StepSeen == Controller!ReferenceStep \/ UNCHANGED Controller!vars

\* A call, with what makes it fail.
LEMMA CallEffect ==
  ASSUME NEW g, NEW next, Call(g, next)
  PROVE  \/ w' = next /\ gcp' = g
         \/ w' = Finished("error") /\ ~stable /\ (gcp' = g \/ gcp' = gcp)
  BY DEF Call, Faulty

\* EnableAPI, with its retries.
LEMMA EnableEffect ==
  ASSUME NEW api, NEW next, EnableAPI(api, next)
  PROVE  LET g == [gcp EXCEPT !.accepted = @ \cup {api}]
         IN  \/ w' = next /\ gcp' = g
             \/ w' = [w EXCEPT !.retry = @ + 1] /\ gcp' = gcp
             \/ w' = Finished("error") /\ ~stable /\ (gcp' = g \/ gcp' = gcp)
  BY CallEffect DEF EnableAPI, Faulty

\* The worker after a call that ends nothing.
LEMMA GoneOn ==
  ASSUME w \in Worker
  PROVE  /\ \A p \in PCs : At(p).pc = p /\ At(p).out = w.out
         /\ \A v : v = [w EXCEPT !.retry = @ + 1] => v.pc = w.pc /\ v.out = w.out
         /\ \A p \in PCs : \A t : LET v == [At(p) EXCEPT !.todo = t] IN v.pc = p /\ v.out = w.out
  BY DEF At, Worker

\* A call that only reads, in an operation that goes on.
LEMMA ReadSeen ==
  ASSUME SetupInv, InGCP, gcp' = gcp, Operation \in CallOperations,
         \/ w'.out = w.out /\ Operation' = Operation
         \/ w' = Finished("error") /\ ~stable
  PROVE  StepSeen
  <1>1. w \in Worker /\ gcp \in Project
    BY DEF SetupInv, SetupTypeOK
  <1>2. ProjectObject' = ProjectObject
    BY <1>1, NextProject
  <1> QED BY <1>1, <1>2, OtherCallSteps, FailedCallSteps DEF StepSeen

\* configureBillingAPI lists the APIs, which nobody sees.
LEMMA ListBillingSeen ==
  ASSUME SetupInv, ListBillingAPIs
  PROVE  StepSeen
  <1>1. w.pc = "ListBillingAPIs" /\ InGCP /\ w \in Worker
    BY DEF ListBillingAPIs, SetupInv, SetupTypeOK
  <1>2. PICK p \in {"BillingInfo", "EnableBillingAPI"} : Call(gcp, At(p))
    BY DEF ListBillingAPIs
  <1>3. gcp' = gcp /\ (w' = At(p) \/ (w' = Finished("error") /\ ~stable))
    BY <1>2, CallEffect
  <1>4. Operation = "Billing"
    BY <1>1, OperationOf DEF OperationIs
  <1>5. CASE w' = At(p)
    <2>1. w'.out = w.out /\ w'.pc = p
      BY <1>1, <1>2, <1>5, GoneOn DEF PCs, SetupCalls
    <2>2. Operation' = "Billing"
      BY <1>2, <2>1, NextOperationOf DEF OperationIs
    <2> QED BY <1>1, <1>3, <1>4, <2>1, <2>2, ReadSeen DEF CallOperations
  <1> QED BY <1>1, <1>3, <1>4, <1>5, ReadSeen DEF CallOperations

\* It enables an API that is not a required one, which nobody sees.
LEMMA EnableBillingSeen ==
  ASSUME SetupInv, BillingIsApart, EnableBillingAPI
  PROVE  StepSeen
  <1> DEFINE g == [gcp EXCEPT !.accepted = @ \cup {BillingAPI}]
  <1>1. /\ w.pc = "EnableBillingAPI" /\ InGCP /\ w \in Worker /\ gcp \in Project
        /\ EnableAPI(BillingAPI, At("BillingInfo"))
    BY DEF EnableBillingAPI, SetupInv, SetupTypeOK
  <1>2. /\ g \in Project /\ g.accepted = gcp.accepted \cup {BillingAPI}
        /\ g.billing = gcp.billing /\ g.account = gcp.account /\ g.bound = gcp.bound
    BY ProjectEdits
  <1>3. \/ w' = At("BillingInfo") /\ gcp' = g
        \/ w' = [w EXCEPT !.retry = @ + 1] /\ gcp' = gcp
        \/ w' = Finished("error") /\ ~stable /\ (gcp' = g \/ gcp' = gcp)
    BY <1>1, EnableEffect
  <1> HIDE DEF g
  <1>4. Operation = "Billing"
    BY <1>1, OperationOf DEF OperationIs
  <1>5. ProjectObject' = ProjectObject
    <2>1. gcp' \in Project
      BY <1>1, <1>2, <1>3
    <2>2. RequiredAPIs \subseteq gcp.accepted <=> RequiredAPIs \subseteq gcp'.accepted
      BY <1>2, <1>3 DEF BillingIsApart
    <2> QED BY <1>1, <1>2, <1>3, <2>1, <2>2, NextProject
  <1>6. CASE w' = Finished("error") /\ ~stable
    BY <1>1, <1>4, <1>5, <1>6, FailedCallSteps DEF StepSeen, CallOperations
  <1>7. CASE w' = At("BillingInfo") \/ w' = [w EXCEPT !.retry = @ + 1]
    <2>1. w'.out = w.out /\ w'.pc \in {"BillingInfo", "EnableBillingAPI"}
      BY <1>1, <1>7, GoneOn DEF PCs, SetupCalls
    <2>2. Operation' = "Billing"
      BY <2>1, NextOperationOf DEF OperationIs
    <2> QED BY <1>1, <1>4, <1>5, <2>1, <2>2, OtherCallSteps DEF StepSeen
  <1> QED BY <1>3, <1>6, <1>7

\* The account that the worker has is the configured one.
LEMMA TheAccount ==
  ASSUME SetupInv, w.pc \in SetupCalls
  PROVE  w.account \in ConfiguredAccounts
  BY DEF SetupInv, ReadyInv, SetupCalls

\* The configured account is linked already, or goes on to be.
LEMMA BillingInfoSeen ==
  ASSUME SetupInv, GetBillingInfo
  PROVE  StepSeen
  <1> DEFINE p == AfterBillingInfo
  <1>1. /\ w.pc = "BillingInfo" /\ InGCP /\ w \in Worker /\ gcp \in Project
        /\ Call(gcp, At(p)) /\ w.pc \in SetupCalls
    BY DEF GetBillingInfo, SetupInv, SetupTypeOK, SetupCalls
  <1>2. p \in {"Link", "Unlink", "ListAPIs"} /\ (p = "ListAPIs" => gcp.billing = w.account)
    BY DEF AfterBillingInfo
  <1> HIDE DEF p
  <1>3. gcp' = gcp /\ (w' = At(p) \/ (w' = Finished("error") /\ ~stable))
    BY <1>1, CallEffect
  <1>4. Operation = "Billing"
    BY <1>1, OperationOf DEF OperationIs
  <1>5. ASSUME w' = At(p)
        PROVE  w'.out = w.out /\ w'.pc = p
    BY <1>1, <1>2, <1>5, GoneOn DEF PCs, SetupCalls
  <1>6. CASE w' = At(p) /\ p \in {"Link", "Unlink"}
    <2>1. Operation' = "Billing"
      BY <1>5, <1>6, NextOperationOf DEF OperationIs
    <2> QED BY <1>1, <1>3, <1>4, <1>5, <1>6, <2>1, ReadSeen DEF CallOperations
  <1>7. CASE w' = At(p) /\ p = "ListAPIs"
    <2>1. Operation' = "APIs"
      BY <1>5, <1>7, NextOperationOf DEF OperationIs
    <2>2. ProjectObject' = EditOf("Billing")
      BY <1>1, <1>2, <1>3, <1>7, TheAccount, NextProject
    <2> QED BY <1>1, <1>4, <1>5, <1>7, <2>1, <2>2, LastCallSteps DEF StepSeen, CallOperations, NextOf
  <1> QED BY <1>1, <1>2, <1>3, <1>4, <1>6, <1>7, ReadSeen DEF CallOperations

\* The account that is unlinked is not the configured one.
LEMMA UnlinkSeen ==
  ASSUME SetupInv, AccountIsFixed, UnlinkBilling
  PROVE  StepSeen
  <1> DEFINE g == [gcp EXCEPT !.billing = <<>>]
  <1>1. /\ w.pc = "Unlink" /\ InGCP /\ w \in Worker /\ gcp \in Project
        /\ Call(g, At("Link")) /\ w.pc \in SetupCalls
    BY DEF UnlinkBilling, SetupInv, SetupTypeOK, SetupCalls
  <1>2. /\ g \in Project /\ g.billing = <<>> /\ g.accepted = gcp.accepted
        /\ g.account = gcp.account /\ g.bound = gcp.bound
    BY <1>1 DEF Project
  <1> HIDE DEF g
  <1>3. gcp.billing \notin ConfiguredAccounts /\ g.billing \notin ConfiguredAccounts
    BY <1>1, <1>2, TheAccount DEF AccountIsFixed, SetupInv, ProgressInv
  <1>4. \/ w' = At("Link") /\ gcp' = g
        \/ w' = Finished("error") /\ ~stable /\ (gcp' = g \/ gcp' = gcp)
    BY <1>1, CallEffect
  <1>5. ProjectObject' = ProjectObject
    <2>1. gcp' \in Project /\ (gcp' = g \/ gcp' = gcp)
      BY <1>1, <1>2, <1>4
    <2>2. CASE gcp' = gcp
      BY <1>1, <2>2, NextProject
    <2>3. CASE gcp' = g
      BY <1>1, <1>2, <1>3, <2>3, NextProject
    <2> QED BY <2>1, <2>2, <2>3
  <1>6. Operation = "Billing"
    BY <1>1, OperationOf DEF OperationIs
  <1>7. CASE w' = At("Link")
    <2>1. w'.out = w.out /\ w'.pc = "Link"
      BY <1>1, <1>7, GoneOn DEF PCs, SetupCalls
    <2>2. Operation' = "Billing"
      BY <2>1, NextOperationOf DEF OperationIs
    <2> QED BY <1>1, <1>5, <1>6, <2>1, <2>2, OtherCallSteps DEF StepSeen
  <1>8. CASE w' = Finished("error") /\ ~stable
    BY <1>1, <1>5, <1>6, <1>8, FailedCallSteps DEF StepSeen, CallOperations
  <1> QED BY <1>4, <1>7, <1>8

\* A call that completes its operation.
LEMMA LastCallSeen ==
  ASSUME SetupInv, InGCP, NEW op \in CallOperations, Operation = op,
         NEW g \in Project, NEW next \in PCs, Call(g, At(next)),
         gcp' = g => ProjectObject' = EditOf(op),
         w'.pc = next => Operation' = NextOf(op)
  PROVE  StepSeen
  <1>1. w \in Worker /\ gcp \in Project
    BY DEF SetupInv, SetupTypeOK
  <1>2. \/ w' = At(next) /\ gcp' = g
        \/ w' = Finished("error") /\ ~stable /\ (gcp' = g \/ gcp' = gcp)
    BY CallEffect
  <1>3. CASE w' = At(next) /\ gcp' = g
    <2>1. w'.out = w.out /\ w'.pc = next
      BY <1>1, <1>3, GoneOn
    <2> QED BY <1>3, <2>1, LastCallSteps DEF StepSeen
  <1>4. CASE w' = Finished("error") /\ ~stable /\ (gcp' = g \/ gcp' = gcp)
    <2>1. gcp' = gcp => ProjectObject' = ProjectObject
      BY <1>1, NextProject
    <2> QED BY <1>1, <1>4, <2>1, FailedCallSteps DEF StepSeen
  <1> QED BY <1>2, <1>3, <1>4

\* The call that links the account completes configureBillingAPI.
LEMMA LinkSeen ==
  ASSUME SetupInv, LinkBilling
  PROVE  StepSeen
  <1> DEFINE g == [gcp EXCEPT !.billing = w.account]
  <1>1. /\ w.pc = "Link" /\ InGCP /\ gcp \in Project
        /\ Call(g, At("ListAPIs")) /\ w.pc \in SetupCalls
    BY DEF LinkBilling, SetupInv, SetupTypeOK, SetupCalls
  <1>2. /\ g \in Project /\ g.billing \in ConfiguredAccounts /\ g.accepted = gcp.accepted
        /\ g.account = gcp.account /\ g.bound = gcp.bound
    BY <1>1, TheAccount DEF Project
  <1> HIDE DEF g
  <1>3. Operation = "Billing"
    BY <1>1, OperationOf DEF OperationIs
  <1>4. gcp' = g => ProjectObject' = EditOf("Billing")
    BY <1>1, <1>2, NextProject
  <1>5. w'.pc = "ListAPIs" => Operation' = NextOf("Billing")
    BY NextOperationOf DEF OperationIs, NextOf
  <1> QED BY <1>1, <1>2, <1>3, <1>4, <1>5, LastCallSeen DEF CallOperations, PCs, SetupCalls

\* SetIAMPolicy is one call.
LEMMA SetPolicySeen ==
  ASSUME SetupInv, SetPolicy
  PROVE  StepSeen
  <1> DEFINE g == [gcp EXCEPT !.bound = TRUE]
  <1>1. w.pc = "Policy" /\ InGCP /\ gcp \in Project /\ Call(g, At("Credentials"))
    BY DEF SetPolicy, SetupInv, SetupTypeOK
  <1>2. /\ g \in Project /\ g.billing = gcp.billing /\ g.accepted = gcp.accepted
        /\ g.account = gcp.account /\ g.bound
    BY <1>1 DEF Project
  <1> HIDE DEF g
  <1>3. Operation = "Policy"
    BY <1>1, OperationOf DEF OperationIs
  <1>4. gcp' = g => ProjectObject' = EditOf("Policy")
    BY <1>1, <1>2, NextProject
  <1>5. w'.pc = "Credentials" => Operation' = NextOf("Policy")
    BY NextOperationOf DEF OperationIs, NextOf
  <1> QED BY <1>1, <1>2, <1>3, <1>4, <1>5, LastCallSeen DEF CallOperations, PCs, SetupCalls

\* A call of configureAPIS: it enables what was enabled before and perhaps more.
LEMMA APICallSeen ==
  ASSUME SetupInv, SetupInv', InGCP, w.pc \in {"ListAPIs", "EnableAPI"},
         gcp.accepted \subseteq gcp'.accepted, gcp'.billing = gcp.billing,
         gcp'.account = gcp.account, gcp'.bound = gcp.bound,
         \/ w'.out = w.out /\ w'.pc \in {"GetAccount", "EnableAPI"}
         \/ w' = Finished("error") /\ ~stable
  PROVE  StepSeen
  <1>1. w \in Worker /\ gcp \in Project /\ gcp' \in Project
    <2>1. gcp' \in Project' /\ Project' = Project
      BY DEF SetupInv, SetupTypeOK, Project, RequiredAPIs, ConfiguredAccounts,
             ValidConfigMap, Trimmed
    <2> QED BY <2>1 DEF SetupInv, SetupTypeOK
  <1>2. RequiredAPIs' = RequiredAPIs
    BY DEF RequiredAPIs
  <1> DEFINE all == RequiredAPIs \subseteq gcp.accepted
             allNext == RequiredAPIs \subseteq gcp'.accepted
  <1>3. all => allNext
    OBVIOUS
  <1>4. w'.pc = "GetAccount" => allNext
    BY <1>2 DEF SetupInv, ProgressInv, AfterAPIs, AfterBilling
  <1>5. /\ allNext => ProjectObject' = EditOf("APIs")
        /\ (all <=> allNext) => ProjectObject' = ProjectObject
    BY <1>1, NextProject
  <1>6. w'.pc \in {"GetAccount", "EnableAPI"} =>
          Operation' = IF allNext THEN "ServiceAccount" ELSE "APIs"
    BY <1>2, <1>4, NextOperationOf DEF OperationIs
  <1>7. \/ Operation = "APIs"
        \/ Operation = "ServiceAccount" /\ all
    BY OperationOf DEF OperationIs
  <1> HIDE DEF all, allNext
  <1>8. CASE Operation = "ServiceAccount" /\ all
    <2>1. CASE w' = Finished("error") /\ ~stable
      BY <1>1, <1>3, <1>5, <1>8, <2>1, FailedCallSteps DEF StepSeen, CallOperations
    <2>2. CASE w'.out = w.out /\ w'.pc \in {"GetAccount", "EnableAPI"}
      BY <1>3, <1>5, <1>6, <1>8, <2>2, OtherCallSteps DEF StepSeen
    <2> QED BY <2>1, <2>2
  <1>9. CASE Operation = "APIs"
    <2>1. CASE w' = Finished("error") /\ ~stable
      BY <1>1, <1>3, <1>5, <1>9, <2>1, FailedCallSteps DEF StepSeen, CallOperations
    <2>2. CASE w'.out = w.out /\ w'.pc \in {"GetAccount", "EnableAPI"} /\ allNext
      BY <1>5, <1>6, <1>9, <2>2, LastCallSteps DEF StepSeen, CallOperations, NextOf
    <2>3. CASE w'.out = w.out /\ w'.pc \in {"GetAccount", "EnableAPI"} /\ ~allNext
      BY <1>3, <1>5, <1>6, <1>9, <2>3, OtherCallSteps DEF StepSeen
    <2> QED BY <2>1, <2>2, <2>3
  <1> QED BY <1>7, <1>8, <1>9

\* Nothing is left to enable, or something is.
LEMMA ListAPIsSeen ==
  ASSUME SetupInv, ListAPIs
  PROVE  StepSeen
  <1>1. w.pc = "ListAPIs" /\ InGCP /\ w \in Worker /\ SetupInv'
    BY ListAPIsKeeps DEF ListAPIs, SetupInv, SetupTypeOK
  <1>2. PICK p \in {"GetAccount", "EnableAPI"} :
          \E todo : Call(gcp, [At(p) EXCEPT !.todo = todo])
    BY DEF ListAPIs
  <1>3. PICK todo : Call(gcp, [At(p) EXCEPT !.todo = todo])
    BY <1>2
  <1> DEFINE next == [At(p) EXCEPT !.todo = todo]
  <1>4. next.pc = p /\ next.out = w.out
    BY <1>1, GoneOn DEF PCs, SetupCalls
  <1> HIDE DEF next
  <1>5. gcp' = gcp /\ (w' = next \/ (w' = Finished("error") /\ ~stable))
    BY <1>3, CallEffect DEF next
  <1> QED BY <1>1, <1>4, <1>5, APICallSeen

\* The call that enables the last API completes configureAPIS.
LEMMA EnableNextSeen ==
  ASSUME SetupInv, EnableNextAPI
  PROVE  StepSeen
  <1> DEFINE i == Min(w.todo)
             api == OSDRequiredAPIS[i]
             left == w.todo \ {i}
             p == IF left = {} THEN "GetAccount" ELSE "EnableAPI"
             next == [At(p) EXCEPT !.todo = left]
             g == [gcp EXCEPT !.accepted = @ \cup {api}]
  <1>1. /\ w.pc = "EnableAPI" /\ InGCP /\ w \in Worker /\ gcp \in Project
        /\ EnableAPI(api, next) /\ SetupInv'
    BY EnableNextKeeps DEF EnableNextAPI, SetupInv, SetupTypeOK
  <1>2. i \in w.todo /\ w.todo \subseteq DOMAIN OSDRequiredAPIS
    BY <1>1, TodoHasMin DEF SetupInv, ProgressInv, Worker
  <1> HIDE DEF i
  <1>3. api \in RequiredAPIs
    BY <1>2 DEF RequiredAPIs
  <1>4. /\ g.accepted = gcp.accepted \cup {api} /\ g.billing = gcp.billing
        /\ g.account = gcp.account /\ g.bound = gcp.bound
    BY <1>3, ProjectEdits
  <1>5. p \in {"GetAccount", "EnableAPI"}
    OBVIOUS
  <1> HIDE DEF p, left
  <1>6. next.pc = p /\ next.out = w.out
    BY <1>1, <1>5, GoneOn DEF PCs, SetupCalls
  <1> DEFINE again == [w EXCEPT !.retry = @ + 1]
  <1>7. again.pc = "EnableAPI" /\ again.out = w.out
    BY <1>1, GoneOn
  <1>8. \/ w' = next /\ gcp' = g
        \/ w' = again /\ gcp' = gcp
        \/ w' = Finished("error") /\ ~stable /\ (gcp' = g \/ gcp' = gcp)
    BY <1>1, EnableEffect
  <1> HIDE DEF next, again, g
  <1>9. /\ gcp.accepted \subseteq gcp'.accepted /\ gcp'.billing = gcp.billing
        /\ gcp'.account = gcp.account /\ gcp'.bound = gcp.bound
    BY <1>4, <1>8
  <1>10. \/ w'.out = w.out /\ w'.pc \in {"GetAccount", "EnableAPI"}
         \/ w' = Finished("error") /\ ~stable
    BY <1>5, <1>6, <1>7, <1>8
  <1> QED BY <1>1, <1>9, <1>10, APICallSeen

\* The account is found, or is taken for missing.
LEMMA GetAccountSeen ==
  ASSUME SetupInv, GetAccount
  PROVE  StepSeen
  <1>1. w.pc = "GetAccount" /\ InGCP /\ gcp' = gcp /\ w \in Worker /\ gcp \in Project
    BY DEF GetAccount, SetupInv, SetupTypeOK
  <1>2. PICK p \in {"Policy", "CreateAccount"} : w' = At(p) /\ (p = "Policy" => gcp.account)
    BY DEF GetAccount
  <1>3. w'.out = w.out /\ w'.pc = p
    BY <1>1, <1>2, GoneOn DEF PCs, SetupCalls
  <1>4. Operation = "ServiceAccount"
    BY <1>1, OperationOf DEF OperationIs
  <1>5. CASE p = "Policy"
    <2>1. Operation' = "Policy"
      BY <1>3, <1>5, NextOperationOf DEF OperationIs
    <2>2. ProjectObject' = EditOf("ServiceAccount")
      BY <1>1, <1>2, <1>5, NextProject
    <2> QED BY <1>1, <1>3, <1>4, <2>1, <2>2, LastCallSteps DEF StepSeen, CallOperations, NextOf
  <1>6. CASE p = "CreateAccount"
    <2>1. Operation' = "ServiceAccount"
      BY <1>3, <1>6, NextOperationOf DEF OperationIs
    <2> QED BY <1>1, <1>3, <1>4, <2>1, ReadSeen DEF CallOperations
  <1> QED BY <1>2, <1>5, <1>6

\* configureServiceAccount tries again later.
LEMMA LateAccountSteps ==
  ASSUME w \in Worker, gcp \in Project, InGCP, gcp' = gcp, Operation = "ServiceAccount",
         gcp.account, ~stable, w' = Finished("after")
  PROVE  Controller!ReferenceStep
  <1>1. Ends("after")
    BY EndsWith DEF Outs
  <1>2. /\ TheWorker.pc = "ServiceAccount" /\ TheWorker.ref.projectID = ID
        /\ TheProjects[ID] = ProjectObject /\ ProjectObject.sa
    BY TheView DEF ProjectObject
  <1>3. ProjectObject' = ProjectObject
    BY NextProject
  <1>4. TheProjects' = TheProjects
    BY <1>3 DEF TheProjects
  <1>5. Controller!Faulty("accountLate")
    BY DEF Controller!Faulty, CallFaults
  <1>6. UNCHANGED <<Controller!claimObjs, Controller!refObjs, Controller!caches,
                    Controller!queues, Controller!secrets, Controller!world>>
    BY CallFrame DEF InGCP
  <1>7. Controller!ConfigureServiceAccount
    BY <1>1, <1>2, <1>4, <1>5, <1>6
    DEF Controller!ConfigureServiceAccount, Controller!RefFinish, Ends
  <1> QED BY <1>7 DEF Controller!ReferenceStep

\* The account is created, or exists after all.
LEMMA CreateAccountSeen ==
  ASSUME SetupInv, CreateAccount
  PROVE  StepSeen
  <1>1. w.pc = "CreateAccount" /\ InGCP /\ w \in Worker /\ gcp \in Project
    BY DEF CreateAccount, SetupInv, SetupTypeOK
  <1>2. Operation = "ServiceAccount"
    BY <1>1, OperationOf DEF OperationIs
  <1>3. CASE Call([gcp EXCEPT !.account = TRUE], At("Policy"))
    <2> DEFINE g == [gcp EXCEPT !.account = TRUE]
    <2>1. /\ g \in Project /\ g.account /\ g.billing = gcp.billing /\ g.accepted = gcp.accepted
          /\ g.bound = gcp.bound
      BY ProjectEdits
    <2>2. Call(g, At("Policy"))
      BY <1>3
    <2> HIDE DEF g
    <2>3. gcp' = g => ProjectObject' = EditOf("ServiceAccount")
      BY <1>1, <2>1, NextProject
    <2>4. w'.pc = "Policy" => Operation' = NextOf("ServiceAccount")
      BY NextOperationOf DEF OperationIs, NextOf
    <2> QED BY <1>1, <1>2, <2>1, <2>2, <2>3, <2>4, LastCallSeen
            DEF CallOperations, PCs, SetupCalls
  <1>4. CASE gcp.account /\ w' = Finished("after") /\ UNCHANGED gcp
    <2>1. ~stable
      BY <1>1, <1>4 DEF SetupInv, ProgressInv
    <2> QED BY <1>1, <1>2, <1>4, <2>1, LateAccountSteps DEF StepSeen
  <1>5. CASE Faulty("gcpError") /\ w' = Finished("error") /\ UNCHANGED gcp
    BY <1>1, <1>2, <1>5, ReadSeen DEF CallOperations, Faulty
  <1> QED BY <1>3, <1>4, <1>5 DEF CreateAccount

\* createCredentials up to the Secret, with an account that exists.
LEMMA KeySteps ==
  ASSUME InGCP, ProjectObject' = ProjectObject, Operation = "Credentials", gcp.account,
         \/ kube.cached /\ Goes("StateReady")
         \/ ~kube.cached /\ Goes("CreateSecret")
         \/ ~kube.cached /\ ~stable /\ (Ends("after") \/ Ends("error"))
  PROVE  Controller!ReferenceStep
  <1>1. /\ TheWorker.pc = "Credentials" /\ TheWorker.ref.projectID = ID
        /\ TheWorker.ref.owner = TheClaim
        /\ TheProjects[ID] = ProjectObject /\ ProjectObject.sa
        /\ CachedSecrets[TheClaim] = kube.cached
    BY TheView DEF ProjectObject
  <1>2. TheProjects' = TheProjects
    BY DEF TheProjects
  <1>3. Controller!CanReadSecret(TheClaim)
    BY DEF Controller!CanReadSecret, CallFaults
  <1>4. ~stable => Controller!Faulty("accountLate") /\ Controller!Faulty("gcpError")
    BY DEF Controller!Faulty, CallFaults
  <1>5. /\ UNCHANGED <<Controller!claimObjs, Controller!refObjs, Controller!caches,
                       Controller!queues, Controller!secrets, Controller!world>>
        /\ UNCHANGED Controller!cloud
    BY <1>2, CallFrame DEF InGCP, Controller!cloud
  <1>6. Controller!AfterCredentials(TheWorker.ref) = "StateReady"
    BY DEF Controller!AfterCredentials, Controller!IsCCS
  <1>7. CASE kube.cached /\ Goes("StateReady")
    <2>1. Controller!CreateKey
      BY <1>1, <1>3, <1>5, <1>6, <1>7 DEF Controller!CreateKey, Controller!RefGoto, Goes
    <2> QED BY <2>1 DEF Controller!ReferenceStep
  <1>8. CASE ~kube.cached /\ Goes("CreateSecret")
    <2>1. Controller!CreateKey
      BY <1>1, <1>3, <1>5, <1>8 DEF Controller!CreateKey, Controller!RefGoto, Goes
    <2> QED BY <2>1 DEF Controller!ReferenceStep
  <1>9. CASE ~kube.cached /\ ~stable /\ (Ends("after") \/ Ends("error"))
    <2>1. Controller!CreateKey
      BY <1>1, <1>3, <1>4, <1>5, <1>9
      DEF Controller!CreateKey, Controller!RefFails, Controller!RefFinish, Ends
    <2> QED BY <2>1 DEF Controller!ReferenceStep
  <1> QED BY <1>7, <1>8, <1>9

\* The Secret is in the cache, or the account is read.
LEMMA AccountForKeySeen ==
  ASSUME SetupInv, GetAccountForKey
  PROVE  StepSeen
  <1>1. w.pc = "Credentials" /\ InGCP /\ gcp' = gcp /\ w \in Worker /\ gcp \in Project
    BY DEF GetAccountForKey, SetupInv, SetupTypeOK
  <1>2. \/ kube.cached /\ w' = At("StateReady")
        \/ w' = At("CreateKey")
        \/ ~kube.cached /\ ~stable /\ (w' = Finished("after") \/ w' = Finished("error"))
    BY Zenon DEF GetAccountForKey, Faulty
  <1>3. gcp.account
    BY <1>1, Stages DEF SetupInv, ProgressInv
  <1>4. Operation = "Credentials" /\ ProjectObject' = ProjectObject
    BY <1>1, OperationOf, NextProject DEF OperationIs
  <1>5. CASE kube.cached /\ w' = At("StateReady")
    <2>1. w'.out = w.out /\ w'.pc = "StateReady"
      BY <1>1, <1>5, GoneOn DEF PCs
    <2>2. Goes("StateReady")
      BY <2>1, NextOperationOf, GoesTo DEF OperationIs
    <2> QED BY <1>1, <1>3, <1>4, <1>5, <2>2, KeySteps DEF StepSeen
  <1>6. CASE w' = At("CreateKey")
    <2>1. w'.out = w.out /\ w'.pc = "CreateKey"
      BY <1>1, <1>6, GoneOn DEF PCs, SetupCalls
    <2>2. Operation' = "Credentials"
      BY <2>1, NextOperationOf DEF OperationIs
    <2> QED BY <1>1, <1>4, <2>1, <2>2, OtherCallSteps DEF StepSeen
  <1>7. CASE ~kube.cached /\ ~stable /\ (w' = Finished("after") \/ w' = Finished("error"))
    <2>1. Ends("after") \/ Ends("error")
      BY <1>1, <1>7, EndsWith DEF Outs
    <2> QED BY <1>1, <1>3, <1>4, <1>7, <2>1, KeySteps DEF StepSeen
  <1> QED BY <1>2, <1>5, <1>6, <1>7

\* A key alone is not seen, as long as there may be more of them.
LEMMA CreateKeySeen ==
  ASSUME SetupInv, CreateKey, ~OutOfKeys
  PROVE  StepSeen
  <1> DEFINE g == [gcp EXCEPT !.keys = @ + 1]
  <1>1. w.pc = "CreateKey" /\ InGCP /\ w \in Worker /\ gcp \in Project
    BY DEF CreateKey, SetupInv, SetupTypeOK
  <1>2. gcp.account /\ ~kube.cached
    BY <1>1, Stages DEF SetupInv, ProgressInv
  <1>3. gcp.keys < KeyLimit
    BY <1>1, SetupAssumption DEF OutOfKeys, Project
  <1>4. Call(g, At("GetKey"))
    BY <1>3 DEF CreateKey
  <1>5. /\ g \in Project /\ g.billing = gcp.billing /\ g.accepted = gcp.accepted
        /\ g.account = gcp.account /\ g.bound = gcp.bound
    BY <1>3, ProjectEdits
  <1> HIDE DEF g
  <1>6. \/ w' = At("GetKey") /\ gcp' = g
        \/ w' = Finished("error") /\ ~stable /\ (gcp' = g \/ gcp' = gcp)
    BY <1>4, CallEffect
  <1>7. ProjectObject' = ProjectObject
    <2>1. CASE gcp' = gcp
      BY <1>1, <2>1, NextProject
    <2>2. CASE gcp' = g
      BY <1>1, <1>5, <2>2, NextProject
    <2> QED BY <1>6, <2>1, <2>2
  <1>8. Operation = "Credentials"
    BY <1>1, OperationOf DEF OperationIs
  <1>9. CASE w' = At("GetKey")
    <2>1. w'.out = w.out /\ w'.pc = "GetKey"
      BY <1>1, <1>9, GoneOn DEF PCs, SetupCalls
    <2>2. Operation' = "Credentials"
      BY <2>1, NextOperationOf DEF OperationIs
    <2> QED BY <1>1, <1>7, <1>8, <2>1, <2>2, OtherCallSteps DEF StepSeen
  <1>10. CASE w' = Finished("error") /\ ~stable
    <2>1. Ends("error")
      BY <1>1, <1>10, EndsWith DEF Outs
    <2> QED BY <1>1, <1>2, <1>7, <1>8, <1>10, <2>1, KeySteps DEF StepSeen
  <1> QED BY <1>6, <1>9, <1>10

\* The key that was read back completes the step before the Secret.
LEMMA GetKeySeen ==
  ASSUME SetupInv, GetKey
  PROVE  StepSeen
  <1> DEFINE again == [w EXCEPT !.retry = @ + 1]
  <1>1. w.pc = "GetKey" /\ InGCP /\ gcp' = gcp /\ w \in Worker /\ gcp \in Project
    BY DEF GetKey, SetupInv, SetupTypeOK
  <1>2. gcp.account /\ ~kube.cached
    BY <1>1, Stages DEF SetupInv, ProgressInv
  <1>3. Operation = "Credentials" /\ ProjectObject' = ProjectObject
    BY <1>1, OperationOf, NextProject DEF OperationIs
  <1>4. \/ w' = At("CreateSecret")
        \/ w' = again
        \/ w' = Finished("error") /\ ~stable
    BY DEF GetKey, Faulty
  <1>5. CASE w' = At("CreateSecret")
    <2>1. w'.out = w.out /\ w'.pc = "CreateSecret"
      BY <1>1, <1>5, GoneOn DEF PCs, SetupCalls
    <2>2. Goes("CreateSecret")
      BY <2>1, NextOperationOf, GoesTo DEF OperationIs
    <2> QED BY <1>1, <1>2, <1>3, <2>2, KeySteps DEF StepSeen
  <1>6. CASE w' = again
    <2>1. w'.out = w.out /\ w'.pc = "GetKey"
      BY <1>1, <1>6, GoneOn
    <2>2. Operation' = "Credentials"
      BY <2>1, NextOperationOf DEF OperationIs
    <2> QED BY <1>1, <1>3, <2>1, <2>2, OtherCallSteps DEF StepSeen
  <1>7. CASE w' = Finished("error") /\ ~stable
    <2>1. Ends("error")
      BY <1>1, <1>7, EndsWith DEF Outs
    <2> QED BY <1>1, <1>2, <1>3, <1>7, <2>1, KeySteps DEF StepSeen
  <1> QED BY <1>4, <1>5, <1>6, <1>7

\* The Secret is stored, or is there already.
LEMMA CreateSecretSeen ==
  ASSUME SetupInv, CreateSecret
  PROVE  StepSeen
  <1>1. /\ w.pc = "CreateSecret" /\ w \in Worker /\ gcp \in Project /\ kube \in Objects
        /\ gcp' = gcp /\ stable' = stable
    BY DEF CreateSecret, SetupInv, SetupTypeOK
  <1>2. /\ TheWorker.pc = "CreateSecret" /\ TheWorker.ref.projectID = ID
        /\ TheWorker.ref.owner = TheClaim
        /\ TheSecrets[TheClaim] = (IF kube.secret THEN ID ELSE Nil)
    BY <1>1, TheView, OperationOf DEF OperationIs
  <1>3. ProjectObject' = ProjectObject
    BY <1>1, NextProject
  <1>4. ASSUME kube'.cached = kube.cached
        PROVE  UNCHANGED <<Controller!claimObjs, Controller!refObjs, Controller!caches,
                           Controller!queues, Controller!cloud, Controller!world>>
    BY <1>1, <1>3, <1>4, NextView
    DEF Controller!claimObjs, Controller!refObjs, Controller!caches, Controller!queues,
        Controller!cloud, Controller!world, TheProjects, CachedSecrets
  <1>5. Controller!AfterCredentials(TheWorker.ref) = "StateReady"
    BY DEF Controller!AfterCredentials, Controller!IsCCS
  <1>6. CASE ~kube.secret /\ kube' = [kube EXCEPT !.secret = TRUE] /\ w' = At("StateReady")
    <2>1. kube'.secret /\ kube'.cached = kube.cached
      BY <1>1, <1>6 DEF Objects
    <2>2. TheSecrets[TheClaim] = Nil /\ TheSecrets' = [TheSecrets EXCEPT ![TheClaim] = ID]
      BY <1>6, <2>1 DEF TheSecrets
    <2>3. w'.out = w.out /\ w'.pc = "StateReady"
      BY <1>1, <1>6, GoneOn DEF PCs
    <2>4. Goes("StateReady")
      BY <2>3, NextOperationOf, GoesTo DEF OperationIs
    <2>5. Controller!CreateSecret
      BY <1>2, <1>4, <1>5, <2>1, <2>2, <2>4
      DEF Controller!CreateSecret, Controller!RefGoto, Goes
    <2> QED BY <2>5 DEF StepSeen, Controller!ReferenceStep
  <1>7. CASE (kube.secret \/ Faulty("apiError")) /\ w' = Finished("error") /\ UNCHANGED kube
    <2>1. kube.secret => TheSecrets[TheClaim] # Nil
      BY <1>2, IDAssumption
    <2>2. Faulty("apiError") => Controller!Faulty("apiError")
      BY DEF Faulty, Controller!Faulty, CallFaults
    <2>3. Ends("error") /\ TheSecrets' = TheSecrets /\ kube'.cached = kube.cached
      BY <1>1, <1>7, EndsWith DEF Outs, TheSecrets
    <2>4. Controller!CreateSecret
      BY <1>2, <1>4, <1>7, <2>1, <2>2, <2>3
      DEF Controller!CreateSecret, Controller!RefFails, Controller!RefFinish, Ends
    <2> QED BY <2>4 DEF StepSeen, Controller!ReferenceStep
  <1> QED BY <1>6, <1>7 DEF CreateSecret

\* Editing the config map changes nothing that is seen there.
LEMMA EditSeen ==
  ASSUME UNCHANGED <<gcp, kube, stable, w>>
  PROVE  StepSeen
  <1>1. Operation' = Operation /\ ProjectObject' = ProjectObject
    BY DEF Operation, ProjectObject, RequiredAPIs, ConfiguredAccounts, ValidConfigMap, Trimmed
  <1> QED BY <1>1, NotSeen DEF StepSeen

\* A step while a call of the setup is under way.
LEMMA SetupCallSeen ==
  ASSUME AccountIsFixed, BillingIsApart, SetupInv, Next,
         w.pc \in SetupCalls, ~OutOfKeys, w' # Idle
  PROVE  StepSeen
  <1>1. w.pc \notin {"idle", "StateReady", "Zones", "ClaimProjectID", "ClaimReady", "Condition"}
    BY DEF SetupCalls
  <1>2. \/ ListBillingAPIs \/ EnableBillingAPI \/ GetBillingInfo \/ UnlinkBilling \/ LinkBilling
        \/ ListAPIs \/ EnableNextAPI \/ GetAccount \/ CreateAccount \/ SetPolicy
        \/ GetAccountForKey \/ CreateKey \/ GetKey \/ CreateSecret \/ EditConfigMap
    <2>1. ~Crash
      BY DEF Crash
    <2>2. ~(Reconcile \/ SyncSecret \/ Tick \/ Stabilise)
      BY <1>1 DEF Reconcile, SyncSecret, Tick, Stabilise
    <2>3. ~EnsureStateReady
      BY <1>1, Zenon DEF EnsureStateReady
    <2>4. ~(EnsureClaimProjectIDSet \/ EnsureProjectClaimReady \/ FinishReconcile)
      BY <1>1, Zenon DEF EnsureClaimProjectIDSet, EnsureProjectClaimReady, FinishReconcile
    <2>5. ~(EnsureClaimAvailabilityZonesSet \/ HandleAvailabilityZonesError)
      BY <1>1, Zenon DEF EnsureClaimAvailabilityZonesSet, HandleAvailabilityZonesError
    <2> QED BY <2>1, <2>2, <2>3, <2>4, <2>5 DEF Next, WorkerStep
  <1>3. CASE EditConfigMap
    BY <1>3, EditSeen DEF EditConfigMap
  <1> QED
    BY <1>2, <1>3, ListBillingSeen, EnableBillingSeen, BillingInfoSeen, UnlinkSeen, LinkSeen,
       ListAPIsSeen, EnableNextSeen, GetAccountSeen, CreateAccountSeen, SetPolicySeen,
       AccountForKeySeen, CreateKeySeen, GetKeySeen, CreateSecretSeen

\* What the runs of the whole operator take for one step, the client's loops do
\* in any number of calls, for every list of APIs, every limit and every fault,
\* as long as the billing account that is configured stays the same.
THEOREM CallsImplementSteps ==
  AccountIsFixed /\ BillingIsApart => (Spec => SetupImplementsController)
  <1> SUFFICES ASSUME AccountIsFixed, BillingIsApart
               PROVE  Spec => SetupImplementsController
    OBVIOUS
  <1>1. SetupInv /\ [Next]_vars =>
          [w.pc \in SetupCalls /\ ~OutOfKeys /\ w' # Idle =>
             Controller!ReferenceStep \/ UNCHANGED Controller!vars]_vars
    BY SetupCallSeen DEF StepSeen
  <1> QED BY <1>1, SetupInvariant, PTL DEF Spec, SetupImplementsController
=============================================================================
