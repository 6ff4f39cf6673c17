-------------------------- MODULE ConditionManager --------------------------
(***************************************************************************)
(* The conditions in the status of a ProjectClaim or ProjectReference, and *)
(* the three operations of pkg/condition on them.  Instead of the time of  *)
(* its last transition a condition has the age of it, in units of time     *)
(* that the module using this one lets pass.  LastProbeTime is left out:   *)
(* nothing reads it.                                                       *)
(*                                                                         *)
(* A definition marked "Variant" is the next one with a fault in it.       *)
(***************************************************************************)
EXTENDS Naturals, Sequences

CONSTANT MaxAge  \* ages are not told apart from here on

ASSUME MaxAgeAssumption == MaxAge \in Nat

\* A condition that FindCondition appends: its LastTransitionTime is zero.
NewCondition(type) ==
  [type |-> type, status |-> "", reason |-> "", message |-> "", age |-> MaxAge]

HasCondition(conditions, type) == \E i \in DOMAIN conditions : conditions[i].type = type

\* FindCondition, the list it leaves.
FindCondition(conditions, type) ==
  IF HasCondition(conditions, type) THEN conditions
  ELSE Append(conditions, NewCondition(type))

\* FindCondition, where in that list it points to.
FoundAt(conditions, type) ==
  CHOOSE i \in DOMAIN conditions :
    /\ conditions[i].type = type
    /\ \A j \in 1 .. i - 1 : conditions[j].type # type

\* Variant: every call counts as a transition.
SetConditionAlwaysMoves(conditions, type, status, reason, message) ==
  LET list == FindCondition(conditions, type)
      i == FoundAt(list, type)
  IN  [list EXCEPT ![i] = [type |-> type, status |-> status, reason |-> reason,
                           message |-> IF message = "" THEN @.message ELSE message,
                           age |-> 0]]

\* SetCondition: the transition time moves if anything differs, and an empty
\* message differs from the one that is kept.
SetCondition(conditions, type, status, reason, message) ==
  LET list == FindCondition(conditions, type)
      i == FoundAt(list, type)
      moves == \/ list[i].message # message
               \/ list[i].status # status
               \/ list[i].reason # reason
  IN  [list EXCEPT ![i] = [type |-> type, status |-> status, reason |-> reason,
                           message |-> IF message = "" THEN @.message ELSE message,
                           age |-> IF moves THEN 0 ELSE @.age]]

\* What a condition's status is, "none" if there is no such condition.
StatusOf(conditions, type) ==
  IF HasCondition(conditions, type) THEN conditions[FoundAt(conditions, type)].status
  ELSE "none"

AgeOf(conditions, type) == conditions[FoundAt(conditions, type)].age

\* One unit of time passes.
Older(age) == IF age < MaxAge THEN age + 1 ELSE age
Aged(conditions) ==
  [i \in DOMAIN conditions |-> [conditions[i] EXCEPT !.age = Older(@)]]
=============================================================================
