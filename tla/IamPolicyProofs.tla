-------------------------- MODULE IamPolicyProofs --------------------------
(***************************************************************************)
(* Proofs about IamPolicy: what the edits of a list of bindings do to the  *)
(* roles that it grants, that a reconcile that reports success has done    *)
(* all of its tasks, and that the reads, edits and writes implement the    *)
(* atomic grants and revocations of IamGrants.                             *)
(***************************************************************************)
EXTENDS IamPolicy, FiniteSetTheorems, SequenceTheorems, TLAPS

-----------------------------------------------------------------------------
(* Lists of bindings.                                                      *)

\* A list of bindings of any roles and members.
Bindings(R, M) == Seq([role : R, members : SUBSET M])

\* Pairs, read element by element.
LEMMA PairsElements ==
  ASSUME NEW R, NEW M, NEW b \in Bindings(R, M)
  PROVE  /\ DOMAIN b = 1 .. Len(b) /\ Len(b) \in Nat
         /\ \A i \in 1 .. Len(b) : b[i] \in [role : R, members : SUBSET M]
         /\ \A r, m : <<r, m>> \in Pairs(b)
                        <=> \E i \in 1 .. Len(b) : b[i].role = r /\ m \in b[i].members
         /\ \A p \in Pairs(b) : p = <<p[1], p[2]>>
  <1>1. DOMAIN b = 1 .. Len(b) /\ Len(b) \in Nat
    BY LenProperties DEF Bindings
  <1>2. \A i \in 1 .. Len(b) : b[i] \in [role : R, members : SUBSET M]
    BY ElementOfSeq DEF Bindings
  <1>3. \A r, m : <<r, m>> \in Pairs(b)
                    <=> \E i \in 1 .. Len(b) : b[i].role = r /\ m \in b[i].members
    BY <1>1 DEF Pairs
  <1>4. \A p \in Pairs(b) : p = <<p[1], p[2]>>
    BY DEF Pairs
  <1> QED  BY <1>1, <1>2, <1>3, <1>4

\* A role that some binding has, has a first binding.
LEMMA FirstBinding ==
  ASSUME NEW R, NEW M, NEW b \in Bindings(R, M), NEW r \in BindingRoles(b)
  PROVE  \E i \in 1 .. Len(b) : b[i].role = r /\ IsFirst(b, i)
  <1> DEFINE T == {i \in 1 .. Len(b) : b[i].role = r}
  <1>1. DOMAIN b = 1 .. Len(b) /\ Len(b) \in Nat
    BY PairsElements
  <1>2. T \subseteq Nat /\ T # {}
    BY <1>1 DEF BindingRoles
  <1>3. PICK i \in T : \A j \in T : ~(<<j, i>> \in OpToRel(<, Nat))
    BY <1>2, WFMin, NatLessThanWellFounded
  <1>4. \A j \in T : ~(j < i)
    BY <1>2, <1>3 DEF OpToRel
  <1> QED  BY <1>1, <1>4 DEF IsFirst

\* An order of a finite set lists all of it and nothing else.
LEMMA OrderListsAll ==
  ASSUME NEW S, IsFiniteSet(S), NEW order \in SetToSeqs(S)
  PROVE  /\ Cardinality(S) \in Nat
         /\ order \in [1 .. Cardinality(S) -> S]
         /\ \A r \in S : \E i \in 1 .. Cardinality(S) : order[i] = r
  <1> DEFINE n == Cardinality(S)
  <1>1. n \in Nat
    BY FS_CardinalityType
  <1>2. order \in [1 .. n -> S] /\ \A i, j \in 1 .. n : i # j => order[i] # order[j]
    BY DEF SetToSeqs
  <1>3. order \in Injection(1 .. n, S)
    BY <1>2 DEF Injection, IsInjective
  <1>4. IsFiniteSet(1 .. n) /\ Cardinality(1 .. n) = n
    BY <1>1, FS_Interval
  <1>5. order \in Surjection(1 .. n, S)
    BY <1>3, <1>4, FS_Injection
  <1> QED  BY <1>1, <1>2, <1>5 DEF Surjection

\* AddOrUpdateBinding gives the member the roles, all of them, and changes
\* nothing else of what the bindings grant.
LEMMA AddGrants ==
  ASSUME NEW R, NEW M, NEW b \in Bindings(R, M), NEW roles \in SUBSET R,
         IsFiniteSet(roles), NEW m \in M, NEW new \in AddOrUpdateBinding(b, roles, m)
  PROVE  /\ new \in Bindings(R, M)
         /\ Pairs(new) = Pairs(b) \cup {<<r, m>> : r \in roles}
  <1> DEFINE missing == roles \ BindingRoles(b)
             Gets(i) == b[i].role \in roles /\ IsFirst(b, i)
             updated == [i \in DOMAIN b |->
                           IF Gets(i) THEN [b[i] EXCEPT !.members = @ \cup {m}] ELSE b[i]]
             B == [role : R, members : SUBSET M]
             n == Len(b)
             k == Cardinality(missing)
  <1>1. PICK order \in SetToSeqs(missing) :
          new = updated \o [i \in DOMAIN order |-> [role |-> order[i], members |-> {m}]]
    BY DEF AddOrUpdateBinding
  <1> DEFINE added == [i \in DOMAIN order |-> [role |-> order[i], members |-> {m}]]
  <1>2. IsFiniteSet(missing)
    BY FS_Difference
  <1>3. /\ k \in Nat /\ order \in [1 .. k -> missing]
        /\ \A r \in missing : \E i \in 1 .. k : order[i] = r
    <2> HIDE DEF missing
    <2> QED  BY <1>2, OrderListsAll
  <1>4. /\ DOMAIN b = 1 .. n /\ n \in Nat
        /\ \A i \in 1 .. n : b[i] \in B
    BY PairsElements
  <1> HIDE DEF n, k
  <1>5. updated \in Seq(B) /\ Len(updated) = n
    <2>1. updated \in [1 .. n -> B]
      BY <1>4
    <2> HIDE DEF updated, B
    <2> QED  BY <2>1, <1>4
  <1>6. added \in Seq(B) /\ Len(added) = k
    <2>1. added \in [1 .. k -> B]
      BY <1>3
    <2> HIDE DEF added, B
    <2> QED  BY <2>1, <1>3
  <1>7. /\ new \in Seq(B) /\ Len(new) = n + k
        /\ \A i \in 1 .. n : new[i] = updated[i]
        /\ \A i \in 1 .. k : new[n + i] = added[i]
    <2>1. new = updated \o added
      BY <1>1
    <2> HIDE DEF updated, added, B
    <2>2. /\ new \in Seq(B) /\ Len(new) = n + k
          /\ \A i \in 1 .. n + k : new[i] = IF i <= n THEN updated[i] ELSE added[i - n]
      BY <2>1, <1>5, <1>6, ConcatProperties
    <2>3. \A i \in 1 .. k : n + i \in 1 .. n + k /\ ~(n + i <= n) /\ (n + i) - n = i
      BY <1>3, <1>4
    <2>4. \A i \in 1 .. n : i \in 1 .. n + k /\ i <= n
      BY <1>3, <1>4
    <2> QED  BY <2>2, <2>3, <2>4
  <1>8. new \in Bindings(R, M)
    BY <1>7 DEF Bindings
  <1>9. ASSUME NEW r, NEW x
        PROVE  <<r, x>> \in Pairs(new) <=> (<<r, x>> \in Pairs(b) \/ (r \in roles /\ x = m))
    <2>1. <<r, x>> \in Pairs(new) <=> \E i \in 1 .. n + k : new[i].role = r /\ x \in new[i].members
      BY <1>7, <1>8, PairsElements
    <2>2. <<r, x>> \in Pairs(b) <=> \E i \in 1 .. n : b[i].role = r /\ x \in b[i].members
      BY PairsElements DEF n
    <2>3. \A i \in 1 .. n : new[i].role = b[i].role /\ new[i].members = IF Gets(i) THEN b[i].members \cup {m} ELSE b[i].members
      <3> SUFFICES ASSUME NEW i \in 1 .. n
                   PROVE  /\ updated[i].role = b[i].role
                          /\ updated[i].members = IF Gets(i) THEN b[i].members \cup {m} ELSE b[i].members
        BY <1>7
      <3>1. updated[i] = IF Gets(i) THEN [b[i] EXCEPT !.members = @ \cup {m}] ELSE b[i]
        BY <1>4
      <3>2. b[i] \in B
        BY <1>4
      <3> HIDE DEF Gets, updated
      <3> QED  BY <3>1, <3>2
    <2>4. \A i \in 1 .. k : new[n + i].role = order[i] /\ new[n + i].members = {m}
      <3>1. \A i \in 1 .. k : added[i] = [role |-> order[i], members |-> {m}]
        BY <1>3
      <3> HIDE DEF added
      <3>2. \A i \in 1 .. k : new[n + i] = [role |-> order[i], members |-> {m}]
        BY <3>1, <1>7
      <3> SUFFICES ASSUME NEW i \in 1 .. k
                   PROVE  new[n + i].role = order[i] /\ new[n + i].members = {m}
        OBVIOUS
      <3> DEFINE e == new[n + i]
      <3>3. e = [role |-> order[i], members |-> {m}]
        BY <3>2
      <3> HIDE DEF e
      <3>4. e.role = order[i] /\ e.members = {m}
        BY <3>3
      <3> QED  BY <3>4 DEF e
    <2>5. ASSUME <<r, x>> \in Pairs(new)
          PROVE  <<r, x>> \in Pairs(b) \/ (r \in roles /\ x = m)
      <3>1. PICK i \in 1 .. n + k : new[i].role = r /\ x \in new[i].members
        BY <2>1, <2>5
      <3>2. CASE i \in 1 .. n
        BY <3>1, <3>2, <2>2, <2>3
      <3>3. CASE i \notin 1 .. n
        <4>1. i - n \in 1 .. k /\ n + (i - n) = i
          BY <3>3, <1>3, <1>4
        <4> QED  BY <4>1, <3>1, <2>4, <1>3
      <3> QED  BY <3>2, <3>3
    <2>6. ASSUME <<r, x>> \in Pairs(b)
          PROVE  <<r, x>> \in Pairs(new)
      <3>1. PICK i \in 1 .. n : b[i].role = r /\ x \in b[i].members
        BY <2>2, <2>6
      <3>2. i \in 1 .. n + k
        BY <1>3, <1>4
      <3>3. new[i].role = r /\ x \in new[i].members
        BY <3>1, <2>3
      <3> QED  BY <3>2, <3>3, <2>1
    <2>7. ASSUME r \in roles, x = m
          PROVE  <<r, x>> \in Pairs(new)
      <3>1. CASE r \in BindingRoles(b)
        <4>1. PICK i \in 1 .. n : b[i].role = r /\ IsFirst(b, i)
          BY <3>1, FirstBinding DEF n
        <4>2. i \in 1 .. n + k
          BY <1>3, <1>4
        <4>3. new[i].role = r /\ m \in new[i].members
          BY <4>1, <2>3, <2>7
        <4> QED  BY <4>2, <4>3, <2>1, <2>7
      <3>2. CASE r \notin BindingRoles(b)
        <4>1. PICK i \in 1 .. k : order[i] = r
          BY <3>2, <2>7, <1>3
        <4>2. n + i \in 1 .. n + k
          BY <1>3, <1>4
        <4> QED  BY <4>1, <4>2, <2>1, <2>4, <2>7
      <3> QED  BY <3>1, <3>2
    <2> QED  BY <2>5, <2>6, <2>7
  <1>10. \A p \in Pairs(new) \cup Pairs(b) : p = <<p[1], p[2]>>
    BY <1>8, PairsElements
  <1> HIDE DEF missing, updated, added, n, k, B
  <1> QED  BY <1>8, <1>9, <1>10

\* RemoveOrUpdateBinding takes every role of the member away, and nothing else.
LEMMA RemoveRevokes ==
  ASSUME NEW R, NEW M, NEW b \in Bindings(R, M), NEW m
  PROVE  /\ RemoveOrUpdateBinding(b, m) \in Bindings(R, M)
         /\ Pairs(RemoveOrUpdateBinding(b, m)) = {p \in Pairs(b) : p[2] # m}
  <1> DEFINE new == RemoveOrUpdateBinding(b, m)
             B == [role : R, members : SUBSET M]
             n == Len(b)
  <1>1. DOMAIN b = 1 .. n /\ n \in Nat /\ \A i \in 1 .. n : b[i] \in B
    BY PairsElements
  <1>2. new = [i \in 1 .. n |-> [b[i] EXCEPT !.members = @ \ {m}]]
    BY <1>1 DEF RemoveOrUpdateBinding
  <1>3. \A i \in 1 .. n : new[i].role = b[i].role /\ new[i].members = b[i].members \ {m}
    BY <1>1, <1>2
  <1>4. new \in [1 .. n -> B]
    BY <1>1, <1>2
  <1> HIDE DEF new, n, B
  <1>5. new \in Seq(B) /\ Len(new) = n
    BY <1>1, <1>4
  <1>6. new \in Bindings(R, M)
    BY <1>5 DEF Bindings, B
  <1>7. ASSUME NEW r, NEW x
        PROVE  <<r, x>> \in Pairs(new) <=> (<<r, x>> \in Pairs(b) /\ x # m)
    <2>1. <<r, x>> \in Pairs(new) <=> \E i \in 1 .. n : new[i].role = r /\ x \in new[i].members
      BY <1>5, <1>6, PairsElements
    <2>2. <<r, x>> \in Pairs(b) <=> \E i \in 1 .. n : b[i].role = r /\ x \in b[i].members
      BY PairsElements DEF n
    <2> QED  BY <2>1, <2>2, <1>3
  <1>8. \A p \in Pairs(new) \cup Pairs(b) : p = <<p[1], p[2]>>
    BY <1>6, PairsElements
  <1>9. Pairs(new) = {p \in Pairs(b) : p[2] # m}
    BY <1>7, <1>8
  <1> QED  BY <1>6, <1>9 DEF new

\* The bindings after someone else took a role away from a member.
Without(b, r, m) ==
  [i \in DOMAIN b |-> IF b[i].role = r THEN [b[i] EXCEPT !.members = @ \ {m}] ELSE b[i]]

\* That takes away nothing else.
LEMMA OthersWriteTheirs ==
  ASSUME NEW R, NEW M, NEW b \in Bindings(R, M), NEW r, NEW m
  PROVE  Without(b, r, m) \in Bindings(R, M) /\ Pairs(Without(b, r, m)) = Pairs(b) \ {<<r, m>>}
  <1> USE DEF Without
  <1> DEFINE new == Without(b, r, m)
             B == [role : R, members : SUBSET M]
             n == Len(b)
  <1>1. DOMAIN b = 1 .. n /\ n \in Nat /\ \A i \in 1 .. n : b[i] \in B
    BY PairsElements
  <1>2. \A i \in 1 .. n :
          /\ new[i].role = b[i].role
          /\ new[i].members = IF b[i].role = r THEN b[i].members \ {m} ELSE b[i].members
    BY <1>1
  <1>3. new \in [1 .. n -> B]
    BY <1>1
  <1> HIDE DEF Without, new, n, B
  <1>4. new \in Seq(B) /\ Len(new) = n
    BY <1>1, <1>3
  <1>5. new \in Bindings(R, M)
    BY <1>4 DEF Bindings, B
  <1>6. ASSUME NEW s, NEW x
        PROVE  <<s, x>> \in Pairs(new) <=> (<<s, x>> \in Pairs(b) /\ ~(s = r /\ x = m))
    <2>1. <<s, x>> \in Pairs(new) <=> \E i \in 1 .. n : new[i].role = s /\ x \in new[i].members
      BY <1>4, <1>5, PairsElements
    <2>2. <<s, x>> \in Pairs(b) <=> \E i \in 1 .. n : b[i].role = s /\ x \in b[i].members
      BY PairsElements DEF n
    <2> QED  BY <2>1, <2>2, <1>2
  <1>7. \A p \in Pairs(new) \cup Pairs(b) : p = <<p[1], p[2]>>
    BY <1>5, PairsElements
  <1>8. Pairs(new) = Pairs(b) \ {<<r, m>>}
    BY <1>6, <1>7
  <1> QED  BY <1>5, <1>8 DEF new

-----------------------------------------------------------------------------
(* The tasks of a reconcile.                                               *)

\* ForGroups has one task for each group.
LEMMA ForGroupsRange ==
  ASSUME NEW op, NEW roles, NEW groups, groups \in Seq(Range(groups))
  PROVE  LET T == {Task(op, g, roles) : g \in Range(groups)}
         IN  /\ ForGroups(op, groups, roles) \in Seq(T)
             /\ Range(ForGroups(op, groups, roles)) = T
  <1> DEFINE T == {Task(op, g, roles) : g \in Range(groups)}
             s == ForGroups(op, groups, roles)
  <1>1. Len(groups) \in Nat /\ DOMAIN groups = 1 .. Len(groups)
    BY LenProperties
  <1>2. s = [i \in 1 .. Len(groups) |-> Task(op, groups[i], roles)]
    BY <1>1 DEF ForGroups
  <1>3. s \in [1 .. Len(groups) -> T]
    BY <1>1, <1>2 DEF Range
  <1>4. Range(s) = T
    BY <1>1, <1>2 DEF Range
  <1> HIDE DEF s, T
  <1>5. s \in Seq(T)
    BY <1>1, <1>3
  <1> QED  BY <1>4, <1>5 DEF s, T

\* The tasks for the groups, and with the service account's, as sets.
GroupSet(op, console, readOnly) ==
  {Task(op, g, console) : g \in Range(CCSConsoleAccess)}
    \cup {Task(op, g, readOnly) : g \in Range(CCSReadOnlyConsoleAccess)}

TaskSet(op, sa, console, readOnly) ==
  {Task(op, ServiceAccount, sa)} \cup GroupSet(op, console, readOnly)

OperatorMembers ==
  {ServiceAccount} \cup Range(CCSConsoleAccess) \cup Range(CCSReadOnlyConsoleAccess)

\* The tasks for the groups are one for each.
LEMMA GroupTasksRange ==
  ASSUME NEW op, NEW console, NEW readOnly
  PROVE  /\ GroupTasks(op, console, readOnly) \in Seq(GroupSet(op, console, readOnly))
         /\ Range(GroupTasks(op, console, readOnly)) = GroupSet(op, console, readOnly)
  <1> DEFINE T2 == {Task(op, g, console) : g \in Range(CCSConsoleAccess)}
             T3 == {Task(op, g, readOnly) : g \in Range(CCSReadOnlyConsoleAccess)}
             T == T2 \cup T3
             s2 == ForGroups(op, CCSConsoleAccess, console)
             s3 == ForGroups(op, CCSReadOnlyConsoleAccess, readOnly)
             s == s2 \o s3
  <1>1. s2 \in Seq(T2) /\ Range(s2) = T2
    BY ForGroupsRange, GroupsAssumption
  <1>2. s3 \in Seq(T3) /\ Range(s3) = T3
    BY ForGroupsRange, GroupsAssumption
  <1>3. s = GroupTasks(op, console, readOnly) /\ T = GroupSet(op, console, readOnly)
    BY DEF GroupTasks, GroupSet
  <1> HIDE DEF T2, T3, s2, s3
  <1>4. T2 \subseteq T /\ T3 \subseteq T /\ T = T2 \cup T3
    OBVIOUS
  <1> HIDE DEF T
  <1>5. s2 \in Seq(T) /\ s3 \in Seq(T)
    BY <1>1, <1>2, <1>4, SeqMonotonic
  <1>6. s \in Seq(T)
    BY <1>5, ConcatProperties
  <1>7. Range(s) = T
    BY <1>1, <1>2, <1>4, <1>5, RangeConcatenation
  <1> QED  BY <1>3, <1>6, <1>7

\* With the service account's, the tasks are its and one for every group.
LEMMA TasksRange ==
  ASSUME NEW op, NEW sa, NEW console, NEW readOnly
  PROVE  LET s == <<Task(op, ServiceAccount, sa)>> \o GroupTasks(op, console, readOnly)
         IN  /\ s \in Seq(TaskSet(op, sa, console, readOnly)) /\ s # <<>>
             /\ Range(s) = TaskSet(op, sa, console, readOnly)
  <1> DEFINE T1 == {Task(op, ServiceAccount, sa)}
             T2 == GroupSet(op, console, readOnly)
             T == TaskSet(op, sa, console, readOnly)
             s1 == <<Task(op, ServiceAccount, sa)>>
             s2 == GroupTasks(op, console, readOnly)
             s == s1 \o s2
  <1>1. s1 \in Seq(T1) /\ Range(s1) = T1 /\ Len(s1) = 1
    BY DEF Range
  <1>2. s2 \in Seq(T2) /\ Range(s2) = T2
    BY GroupTasksRange
  <1>3. T1 \subseteq T /\ T2 \subseteq T /\ T = T1 \cup T2
    BY DEF TaskSet
  <1> HIDE DEF T1, T2, T, s1, s2
  <1>4. s1 \in Seq(T) /\ s2 \in Seq(T)
    BY <1>1, <1>2, <1>3, SeqMonotonic
  <1>5. Len(s2) \in Nat
    BY <1>4, LenProperties
  <1>6. s \in Seq(T) /\ Len(s) = 1 + Len(s2)
    BY <1>1, <1>4, ConcatProperties
  <1>7. Range(s) = T
    BY <1>1, <1>2, <1>3, <1>4, RangeConcatenation
  <1> HIDE DEF s
  <1>8. s # <<>>
    BY <1>5, <1>6, EmptySeq
  <1> QED  BY <1>6, <1>7, <1>8 DEF s, s1, s2, T

\* Every member of the operator has a task, and no one else has.
LEMMA TaskSetMembers ==
  ASSUME NEW op, NEW sa, NEW console, NEW readOnly
  PROVE  /\ \A t \in TaskSet(op, sa, console, readOnly) :
              /\ t = Task(op, t.member, t.roles) /\ t.op = op
              /\ t.member \in OperatorMembers /\ t.roles \in {sa, console, readOnly}
         /\ \A m \in OperatorMembers :
              \E t \in TaskSet(op, sa, console, readOnly) : t.member = m
  <1>1. \A t \in TaskSet(op, sa, console, readOnly) :
          /\ t = Task(op, t.member, t.roles) /\ t.op = op
          /\ t.member \in OperatorMembers /\ t.roles \in {sa, console, readOnly}
    BY DEF TaskSet, GroupSet, Task, OperatorMembers
  <1>2. ASSUME NEW m \in OperatorMembers
        PROVE  \E t \in TaskSet(op, sa, console, readOnly) : t.member = m
    <2>1. \A r : Task(op, m, r).member = m
      BY DEF Task
    <2>2. \/ Task(op, m, sa) \in TaskSet(op, sa, console, readOnly)
          \/ Task(op, m, console) \in TaskSet(op, sa, console, readOnly)
          \/ Task(op, m, readOnly) \in TaskSet(op, sa, console, readOnly)
      BY DEF TaskSet, GroupSet, OperatorMembers
    <2> QED  BY <2>1, <2>2
  <1> QED  BY <1>1, <1>2

\* What a task is: who it is for, and which roles.
TaskFor(t) ==
  /\ t.op \in {"grant", "revoke"}
  /\ t.member \in Members \ Others
  /\ t.roles \subseteq Roles /\ IsFiniteSet(t.roles)
  /\ \E e \in Entitlements : e.member = t.member /\ (t.op = "grant" => e.roles = t.roles)

\* The tasks of a configuration grant what members are entitled to, those of a
\* cleanup revoke, and every entitled member has one in both, except that the
\* service account has none in a cleanup that does not find it.
LEMMA TaskFacts ==
  /\ \A job \in Jobs :
       /\ TasksOf(job) \in Seq(Range(TasksOf(job)))
       /\ Range(TasksOf(job)) \subseteq Tasks
       /\ \A t, u \in Range(TasksOf(job)) : t.op = u.op
  /\ \A t \in Range(ConfigureTasks) : t.op = "grant"
  /\ \A t \in Range(CleanUpTasks) \cup Range(GroupCleanUpTasks) : t.op = "revoke"
  /\ \A t \in Tasks : TaskFor(t)
  /\ \A e \in Entitlements :
       /\ \E t \in Range(ConfigureTasks) : t.member = e.member /\ t.roles = e.roles
       /\ \E t \in Range(CleanUpTasks) : t.member = e.member
       /\ e.member # ServiceAccount => \E t \in Range(GroupCleanUpTasks) : t.member = e.member
  <1> DEFINE C == TaskSet("grant", RequiredRoles, ConsoleAccessRoles, ReadOnlyConsoleRoles)
             D == TaskSet("revoke", {}, {}, {})
             G == GroupSet("revoke", {}, {})
  <1>1. ConfigureTasks \in Seq(C) /\ Range(ConfigureTasks) = C
    BY TasksRange DEF ConfigureTasks
  <1>2. /\ CleanUpTasks \in Seq(D) /\ Range(CleanUpTasks) = D
        /\ GroupCleanUpTasks \in Seq(G) /\ Range(GroupCleanUpTasks) = G
    BY TasksRange, GroupTasksRange DEF CleanUpTasks, GroupCleanUpTasks
  <1>3. G \subseteq D /\ \A t \in D : t.member # ServiceAccount => t \in G
    BY DEF TaskSet, Task
  <1>4. \A t \in C : t.op = "grant" /\ IsFiniteSet(t.roles) /\ t.roles \subseteq Roles
    BY TaskSetMembers, RolesAssumption DEF Roles
  <1>5. \A t \in D : t.op = "revoke" /\ t.roles = {}
    BY TaskSetMembers
  <1>6. \A t \in C \cup D : t.member \in OperatorMembers /\ t.member \notin Others
    BY TaskSetMembers, OthersAssumption DEF OperatorMembers
  <1>7. \A m \in OperatorMembers : (\E t \in C : t.member = m) /\ (\E t \in D : t.member = m)
    BY TaskSetMembers
  <1> HIDE DEF C, D
  <1>8. ASSUME NEW t \in C
        PROVE  \E e \in Entitlements : e.member = t.member /\ e.roles = t.roles
    <2> DEFINE e == [member |-> t.member, roles |-> t.roles]
    <2>1. e \in Entitlements
      BY <1>1 DEF Entitlements
    <2> QED  BY <2>1
  <1>9. ASSUME NEW e \in Entitlements
        PROVE  \E t \in C : e.member = t.member /\ e.roles = t.roles
    BY <1>1 DEF Entitlements
  <1>10. \A e \in Entitlements : e.member \in Members
    BY DEF Members
  <1>11. \A t \in Tasks : TaskFor(t)
    <2>1. ASSUME NEW t \in C
          PROVE  TaskFor(t)
      BY <1>4, <1>6, <1>8, <1>10 DEF TaskFor
    <2>2. ASSUME NEW t \in D
          PROVE  TaskFor(t)
      <3>1. t.op = "revoke" /\ t.roles = {} /\ t.member \notin Others
        BY <1>5, <1>6
      <3>2. \E e \in Entitlements : e.member = t.member
        BY <1>6, <1>7, <1>8
      <3>3. t.roles \subseteq Roles /\ IsFiniteSet(t.roles)
        BY <3>1, FS_EmptySet
      <3> QED  BY <3>1, <3>2, <3>3, <1>10 DEF TaskFor
    <2> QED  BY <2>1, <2>2, <1>1, <1>2 DEF Tasks
  <1>12. ASSUME NEW e \in Entitlements
         PROVE  /\ \E t \in C : t.member = e.member /\ t.roles = e.roles
                /\ \E t \in D : t.member = e.member
                /\ e.member # ServiceAccount => \E t \in G : t.member = e.member
    BY <1>3, <1>6, <1>7, <1>9
  <1>13. ASSUME NEW job \in Jobs
         PROVE  /\ TasksOf(job) \in Seq(Range(TasksOf(job)))
                /\ Range(TasksOf(job)) \subseteq Tasks
                /\ \A t, u \in Range(TasksOf(job)) : t.op = u.op
    <2> HIDE DEF G
    <2>1. CASE job = "configured"
      <3>1. TasksOf(job) = ConfigureTasks
        BY <2>1 DEF TasksOf
      <3> QED  BY <3>1, <1>1, <1>4 DEF Tasks
    <2>2. CASE job = "cleanedUp"
      <3>1. TasksOf(job) = CleanUpTasks
        BY <2>2 DEF TasksOf
      <3> QED  BY <3>1, <1>2, <1>5 DEF Tasks
    <2>3. CASE job = "groupsCleanedUp"
      <3>1. TasksOf(job) = GroupCleanUpTasks
        BY <2>3 DEF TasksOf
      <3> QED  BY <3>1, <1>2, <1>3, <1>5 DEF Tasks
    <2> QED  BY <2>1, <2>2, <2>3 DEF Jobs
  <1> QED  BY <1>1, <1>2, <1>3, <1>4, <1>5, <1>11, <1>12, <1>13

-----------------------------------------------------------------------------
(* What an edit does to tasks.                                             *)

\* The edit of a task grants the entitlement or revokes everything of the
\* member.  The task is then done, and the others of the same reconcile that
\* were done still are.
LEMMA EditedFacts ==
  ASSUME NEW b \in Seq(Binding), NEW t \in Tasks, NEW new \in Edited(t, b)
  PROVE  /\ new \in Seq(Binding)
         /\ t.op = "grant" => Pairs(new) = Pairs(b) \cup {<<r, t.member>> : r \in t.roles}
         /\ t.op # "grant" => Pairs(new) = {p \in Pairs(b) : p[2] # t.member}
         /\ Done(t, new)
         /\ \A u : Done(u, b) /\ u.op = t.op => Done(u, new)
  <1>1. TaskFor(t)
    BY TaskFacts
  <1>2. b \in Bindings(Roles, Members) /\ Bindings(Roles, Members) = Seq(Binding)
    BY DEF Bindings, Binding
  <1>3. CASE t.op = "grant"
    <2>1. new \in AddOrUpdateBinding(b, t.roles, t.member)
      BY <1>3 DEF Edited
    <2>2. /\ new \in Bindings(Roles, Members)
          /\ Pairs(new) = Pairs(b) \cup {<<r, t.member>> : r \in t.roles}
      <3>1. t.roles \in SUBSET Roles /\ IsFiniteSet(t.roles) /\ t.member \in Members
        BY <1>1 DEF TaskFor
      <3> QED  BY <3>1, <2>1, <1>2, AddGrants
    <2> QED  BY <2>2, <1>2, <1>3 DEF Done
  <1>4. CASE t.op # "grant"
    <2>1. new = RemoveOrUpdateBinding(b, t.member)
      BY <1>4 DEF Edited
    <2>2. new \in Bindings(Roles, Members) /\ Pairs(new) = {p \in Pairs(b) : p[2] # t.member}
      BY <2>1, <1>2, RemoveRevokes
    <2> QED  BY <2>2, <1>2, <1>4 DEF Done
  <1> QED  BY <1>3, <1>4

\* What someone else writes changes the roles of that member only, and leaves
\* done what is done.
LEMMA OtherWritesFacts ==
  ASSUME IamTypeOK, NEW role \in Roles, NEW m \in Others, OtherWrites(role, m)
  PROVE  /\ policy' \in Seq(Binding)
         /\ {p \in Pairs(policy)' : p[2] \notin Others} = {p \in Pairs(policy) : p[2] \notin Others}
         /\ \A t \in Tasks : Done(t, policy) => Done(t, policy')
  <1>1. policy \in Bindings(Roles, Members) /\ Bindings(Roles, Members) = Seq(Binding)
    BY DEF Bindings, Binding, IamTypeOK
  <1>2. policy' \in Bindings(Roles, Members) /\
        (\/ Pairs(policy') = Pairs(policy) \cup {<<role, m>>}
         \/ Pairs(policy') = Pairs(policy) \ {<<role, m>>})
    <2>1. CASE policy' \in AddOrUpdateBinding(policy, {role}, m)
      <3>1. {role} \in SUBSET Roles /\ IsFiniteSet({role}) /\ m \in Members
        BY FS_Singleton DEF Members
      <3>2. /\ policy' \in Bindings(Roles, Members)
            /\ Pairs(policy') = Pairs(policy) \cup {<<r, m>> : r \in {role}}
        BY <2>1, <3>1, <1>1, AddGrants
      <3> QED  BY <3>2
    <2>2. CASE policy' = Without(policy, role, m)
      BY <2>2, <1>1, OthersWriteTheirs
    <2> QED  BY <2>1, <2>2 DEF OtherWrites, Without
  <1>3. ASSUME NEW x, x \notin Others
        PROVE  \A r : <<r, x>> \in Pairs(policy') <=> <<r, x>> \in Pairs(policy)
    BY <1>2, <1>3
  <1>4. \A p \in Pairs(policy) \cup Pairs(policy') : p = <<p[1], p[2]>>
    BY <1>1, <1>2, PairsElements
  <1>5. {p \in Pairs(policy') : p[2] \notin Others} = {p \in Pairs(policy) : p[2] \notin Others}
    BY <1>3, <1>4
  <1>6. ASSUME NEW t \in Tasks, Done(t, policy)
        PROVE  Done(t, policy')
    <2>1. t.member \notin Others
      BY TaskFacts DEF TaskFor
    <2> QED  BY <2>1, <1>3, <1>4, <1>6 DEF Done
  <1> QED  BY <1>1, <1>2, <1>5, <1>6

-----------------------------------------------------------------------------
(* The invariant.                                                          *)

\* The list without its first task.
LEMMA TailFacts ==
  ASSUME NEW S, NEW s \in Seq(S), s # <<>>
  PROVE  /\ s[1] \in S /\ s[1] \in Range(s) /\ Len(s) \in Nat \ {0}
         /\ Tail(s) \in Seq(S)
         /\ Len(s) # 1 => Tail(s) # <<>>
         /\ \A t \in Range(s) : t = s[1] \/ t \in Range(Tail(s))
         /\ Len(s) = 1 => Range(s) = {s[1]}
  <1>1. Len(s) \in Nat \ {0} /\ DOMAIN s = 1 .. Len(s)
    BY EmptySeq, LenProperties
  <1>2. /\ Tail(s) \in Seq(S) /\ Len(Tail(s)) = Len(s) - 1
        /\ \A i \in 1 .. Len(Tail(s)) : Tail(s)[i] = s[i + 1]
    BY <1>1, HeadTailProperties
  <1>3. ASSUME NEW i \in 1 .. Len(s), i # 1
        PROVE  s[i] \in Range(Tail(s))
    <2>1. i - 1 \in 1 .. Len(Tail(s)) /\ (i - 1) + 1 = i
      BY <1>1, <1>2, <1>3
    <2>2. Tail(s)[i - 1] = s[i] /\ i - 1 \in DOMAIN Tail(s)
      BY <2>1, <1>2, LenProperties
    <2> QED  BY <2>2 DEF Range
  <1>4. \A t \in Range(s) : t = s[1] \/ t \in Range(Tail(s))
    BY <1>1, <1>3 DEF Range
  <1>5. Len(s) = 1 => Range(s) = {s[1]}
    BY <1>1 DEF Range
  <1>6. s[1] \in S /\ s[1] \in Range(s)
    BY <1>1, ElementOfSeq DEF Range
  <1>7. Len(s) # 1 => Tail(s) # <<>>
    BY <1>1, <1>2, EmptySeq
  <1> QED  BY <1>1, <1>2, <1>4, <1>5, <1>6, <1>7

\* A busy worker is at a task of its reconcile, and any two of these have the
\* same op.
LEMMA AtTask ==
  ASSUME IamTypeOK, EditInv, worker.pc # "idle"
  PROVE  /\ worker.todo # <<>> /\ worker.todo \in Seq(Range(TasksOf(worker.job)))
         /\ worker.todo[1] \in Tasks /\ worker.todo[1] \in Range(TasksOf(worker.job))
         /\ \A t \in Range(TasksOf(worker.job)) : t.op = worker.todo[1].op
  <1>1. /\ worker.job \in Jobs /\ worker.todo # <<>>
        /\ worker.todo \in Seq(Range(TasksOf(worker.job)))
    BY DEF IamTypeOK, EditInv
  <1>2. worker.todo[1] \in Range(TasksOf(worker.job))
    BY <1>1, TailFacts
  <1> QED  BY <1>1, <1>2, TaskFacts

\* The parts of EditInv.
WorkerAtTask(wk, b, res) ==
  wk.pc # "idle" =>
    /\ res = "none"
    /\ wk.job \in Jobs
    /\ wk.todo \in Seq(Range(TasksOf(wk.job)))
    /\ \A t \in Range(TasksOf(wk.job)) : t \in Range(wk.todo) \/ Done(t, b)

ReportIsTrue(b, res) ==
  res \in Jobs => \A t \in Range(TasksOf(res)) : Done(t, b)

\* The parts of the invariant, and what each of them depends on.
LEMMA EditInvParts ==
  /\ EditInv <=> /\ WorkerAtTask(worker, policy, result)
                 /\ worker.pc = "set" /\ fresh => worker.copy \in Edited(worker.todo[1], policy)
                 /\ ReportIsTrue(policy, result)
  /\ EditInv' <=> /\ WorkerAtTask(worker', policy', result')
                  /\ worker'.pc = "set" /\ fresh'
                       => worker'.copy \in Edited(worker'.todo[1], policy')
                  /\ ReportIsTrue(policy', result')
  BY DEF EditInv, WorkerAtTask, ReportIsTrue

\* An idle worker that reports nothing keeps the invariant.
LEMMA FinishKeeps ==
  ASSUME IamTypeOK, NEW res \in {"failed"} \cup Jobs, Finish(res),
         policy' \in Seq(Binding), fresh' \in BOOLEAN, ReportIsTrue(policy', res)
  PROVE  IamTypeOK' /\ EditInv'
  <1>1. worker' = Idle /\ result' = res
    BY DEF Finish
  <1>2. worker' \in [pc : {"idle", "get", "set"}, job : {"none"} \cup Jobs,
                     todo : Seq(Tasks), copy : Seq(Binding), retry : 0 .. MaxRetries]
    BY <1>1, EmptySeq DEF Idle, MaxRetries
  <1>3. worker'.pc = "idle"
    BY <1>1 DEF Idle
  <1>4. IamTypeOK'
    BY <1>1, <1>2, <1>3 DEF IamTypeOK
  <1>5. EditInv'
    BY <1>1, <1>3, EditInvParts DEF WorkerAtTask
  <1> QED  BY <1>4, <1>5

\* Going on to the next task, or reporting success after the last one, keeps
\* the invariant when the task at hand is done and no other is undone.
LEMMA NextTaskKeeps ==
  ASSUME IamTypeOK, EditInv, worker.pc # "idle", NextTask,
         policy' \in Seq(Binding), fresh' \in BOOLEAN,
         Done(worker.todo[1], policy'),
         \A t \in Range(TasksOf(worker.job)) : Done(t, policy) => Done(t, policy')
  PROVE  IamTypeOK' /\ EditInv'
  <1>1. /\ worker.todo # <<>> /\ worker.todo \in Seq(Range(TasksOf(worker.job)))
        /\ worker.job \in Jobs /\ result = "none"
    BY AtTask DEF EditInv
  <1>2. \A t \in Range(TasksOf(worker.job)) : t \in Range(worker.todo) \/ Done(t, policy')
    BY DEF EditInv
  <1>3. CASE Len(worker.todo) = 1
    <2>1. \A t \in Range(TasksOf(worker.job)) : Done(t, policy')
      BY <1>1, <1>2, <1>3, TailFacts
    <2>2. Finish(worker.job)
      BY <1>3 DEF NextTask
    <2>3. ReportIsTrue(policy', worker.job)
      BY <2>1 DEF ReportIsTrue
    <2> QED  BY <1>1, <2>2, <2>3, FinishKeeps
  <1>4. CASE Len(worker.todo) # 1
    <2>1. /\ worker' = [worker EXCEPT !.pc = "get", !.todo = Tail(@), !.copy = <<>>, !.retry = 0]
          /\ result' = result
      BY <1>4 DEF NextTask
    <2>2. /\ Tail(worker.todo) \in Seq(Range(TasksOf(worker.job))) /\ Tail(worker.todo) # <<>>
          /\ \A t \in Range(worker.todo) : t = worker.todo[1] \/ t \in Range(Tail(worker.todo))
      BY <1>1, <1>4, TailFacts
    <2>3. Tail(worker.todo) \in Seq(Tasks)
      BY <1>1, <2>2, TaskFacts, SeqMonotonic
    <2>4. /\ worker'.pc = "get" /\ worker'.job = worker.job
          /\ worker'.todo = Tail(worker.todo)
          /\ worker' \in [pc : {"idle", "get", "set"}, job : {"none"} \cup Jobs,
                          todo : Seq(Tasks), copy : Seq(Binding), retry : 0 .. MaxRetries]
      <3>1. <<>> \in Seq(Binding) /\ 0 \in 0 .. MaxRetries
        BY EmptySeq DEF MaxRetries
      <3> QED  BY <2>1, <2>3, <3>1 DEF IamTypeOK
    <2>5. IamTypeOK'
      BY <2>1, <2>2, <2>4 DEF IamTypeOK
    <2>6. WorkerAtTask(worker', policy', result')
      BY <1>1, <1>2, <2>1, <2>2, <2>4 DEF WorkerAtTask
    <2>7. ReportIsTrue(policy', result')
      BY <1>1, <2>1 DEF ReportIsTrue, Jobs
    <2> QED  BY <2>4, <2>5, <2>6, <2>7, EditInvParts
  <1> QED  BY <1>3, <1>4

-----------------------------------------------------------------------------
(* The actions.                                                            *)

LEMMA IamInit == Init => IamTypeOK /\ EditInv
  <1> SUFFICES ASSUME Init
               PROVE  IamTypeOK /\ EditInv
    OBVIOUS
  <1>1. worker \in [pc : {"idle", "get", "set"}, job : {"none"} \cup Jobs,
                    todo : Seq(Tasks), copy : Seq(Binding), retry : 0 .. MaxRetries]
    BY EmptySeq DEF Init, Idle, MaxRetries
  <1>2. worker.pc = "idle" /\ result = "none" /\ fresh = FALSE /\ policy \in Seq(Binding)
    BY InitialPoliciesAssumption DEF Init, Idle
  <1> QED  BY <1>1, <1>2 DEF IamTypeOK, EditInv, Jobs

\* A reconcile starts with all the tasks of its job, and ends when there is none.
LEMMA BeginKeeps ==
  ASSUME IamTypeOK, NEW job \in Jobs, Begin(job, TasksOf(job))
  PROVE  IamTypeOK' /\ EditInv'
  <1>1. policy' = policy /\ fresh' = fresh /\ policy' \in Seq(Binding) /\ fresh' \in BOOLEAN
    BY DEF Begin, IamTypeOK
  <1>2. CASE TasksOf(job) = <<>>
    <2>1. Finish(job)
      BY <1>2 DEF Begin
    <2>2. ReportIsTrue(policy', job)
      BY <1>2 DEF ReportIsTrue, Range
    <2> QED  BY <1>1, <2>1, <2>2, FinishKeeps
  <1>3. CASE TasksOf(job) # <<>>
    <2>1. worker' = [Idle EXCEPT !.pc = "get", !.job = job, !.todo = TasksOf(job)] /\ result' = "none"
      BY <1>3 DEF Begin
    <2>2. TasksOf(job) \in Seq(Range(TasksOf(job))) /\ TasksOf(job) \in Seq(Tasks)
      BY TaskFacts, SeqMonotonic
    <2>3. /\ worker' \in [pc : {"idle", "get", "set"}, job : {"none"} \cup Jobs,
                          todo : Seq(Tasks), copy : Seq(Binding), retry : 0 .. MaxRetries]
          /\ worker'.pc = "get" /\ worker'.job = job /\ worker'.todo = TasksOf(job)
      <3>1. <<>> \in Seq(Binding)
        BY EmptySeq
      <3>2. worker' = [pc |-> "get", job |-> job, todo |-> TasksOf(job), copy |-> <<>>, retry |-> 0]
        BY <2>1 DEF Idle
      <3> QED  BY <2>2, <3>1, <3>2 DEF MaxRetries
    <2>4. IamTypeOK'
      BY <1>1, <1>3, <2>1, <2>3 DEF IamTypeOK
    <2>5. WorkerAtTask(worker', policy', result') /\ ReportIsTrue(policy', result')
      BY <2>1, <2>2, <2>3 DEF WorkerAtTask, ReportIsTrue, Jobs
    <2> QED  BY <2>3, <2>4, <2>5, EditInvParts
  <1> QED  BY <1>2, <1>3

\* The policy is read.
LEMMA GetKeeps ==
  ASSUME IamTypeOK, EditInv, GetIamPolicy
  PROVE  IamTypeOK' /\ EditInv'
  <1>1. worker.pc = "get" /\ policy' = policy /\ policy \in Seq(Binding) /\ fresh \in BOOLEAN
    BY DEF GetIamPolicy, IamTypeOK
  <1>2. worker.todo[1] \in Tasks
    BY <1>1, AtTask
  <1>3. ASSUME NEW b \in Edited(worker.todo[1], policy), b = policy, NextTask, UNCHANGED fresh
        PROVE  IamTypeOK' /\ EditInv'
    <2>1. Done(worker.todo[1], policy')
      BY <1>1, <1>2, <1>3, EditedFacts
    <2> QED  BY <1>1, <1>3, <2>1, NextTaskKeeps
  <1>4. ASSUME NEW b \in Edited(worker.todo[1], policy),
               worker' = [worker EXCEPT !.pc = "set", !.copy = b],
               fresh' = TRUE, UNCHANGED result
        PROVE  IamTypeOK' /\ EditInv'
    <2>1. b \in Seq(Binding)
      BY <1>1, <1>2, EditedFacts
    <2>2. /\ worker' \in [pc : {"idle", "get", "set"}, job : {"none"} \cup Jobs,
                          todo : Seq(Tasks), copy : Seq(Binding), retry : 0 .. MaxRetries]
          /\ worker'.pc = "set" /\ worker'.job = worker.job /\ worker'.todo = worker.todo
          /\ worker'.copy = b
      BY <1>4, <2>1 DEF IamTypeOK
    <2>3. IamTypeOK'
      BY <1>1, <1>4, <2>2 DEF IamTypeOK
    <2>4. WorkerAtTask(worker', policy', result') /\ ReportIsTrue(policy', result')
      BY <1>1, <1>4, <2>2, EditInvParts DEF WorkerAtTask
    <2> QED  BY <1>1, <2>2, <2>3, <2>4, EditInvParts
  <1>5. ASSUME Finish("failed"), UNCHANGED fresh
        PROVE  IamTypeOK' /\ EditInv'
    BY <1>1, <1>5, FinishKeeps DEF ReportIsTrue, Jobs
  <1> QED  BY <1>3, <1>4, <1>5 DEF GetIamPolicy

\* An accepted write is the edit of the policy as it is.
LEMMA WriteIsEdit ==
  ASSUME IamTypeOK, EditInv, SetIamPolicy
  PROVE  /\ worker.pc = "set" /\ worker.todo[1] \in Tasks
         /\ policy' \in Edited(worker.todo[1], policy)
  BY AtTask DEF SetIamPolicy, EditInv

\* The policy is written.
LEMMA SetKeeps ==
  ASSUME IamTypeOK, EditInv, SetIamPolicy
  PROVE  IamTypeOK' /\ EditInv'
  <1>1. /\ worker.pc = "set" /\ worker.todo[1] \in Tasks
        /\ policy' \in Edited(worker.todo[1], policy) /\ policy \in Seq(Binding)
    BY WriteIsEdit DEF IamTypeOK
  <1>2. /\ policy' \in Seq(Binding) /\ Done(worker.todo[1], policy')
        /\ \A u : Done(u, policy) /\ u.op = worker.todo[1].op => Done(u, policy')
    BY <1>1, EditedFacts
  <1>3. \A t \in Range(TasksOf(worker.job)) : Done(t, policy) => Done(t, policy')
    BY <1>1, <1>2, AtTask
  <1>4. fresh' \in BOOLEAN
    BY DEF SetIamPolicy
  <1>5. CASE NextTask
    BY <1>1, <1>2, <1>3, <1>4, <1>5, NextTaskKeeps
  <1>6. CASE Finish("failed")
    BY <1>2, <1>4, <1>6, FinishKeeps DEF ReportIsTrue, Jobs
  <1> QED  BY <1>5, <1>6 DEF SetIamPolicy

\* The write is refused since the policy has changed.
LEMMA ConflictKeeps ==
  ASSUME IamTypeOK, EditInv, Conflict
  PROVE  IamTypeOK' /\ EditInv'
  <1>1. /\ worker.pc = "set" /\ policy' = policy /\ fresh' = fresh
        /\ policy' \in Seq(Binding) /\ fresh' \in BOOLEAN
    BY DEF Conflict, IamTypeOK
  <1>2. CASE worker.retry < MaxRetries
    <2>1. /\ worker' = [worker EXCEPT !.pc = "get", !.copy = <<>>, !.retry = @ + 1]
          /\ result' = result
      BY <1>2 DEF Conflict
    <2>2. /\ worker' \in [pc : {"idle", "get", "set"}, job : {"none"} \cup Jobs,
                          todo : Seq(Tasks), copy : Seq(Binding), retry : 0 .. MaxRetries]
          /\ worker'.pc = "get" /\ worker'.job = worker.job /\ worker'.todo = worker.todo
      <3>1. <<>> \in Seq(Binding)
        BY EmptySeq
      <3>2. worker.retry + 1 \in 0 .. MaxRetries
        BY <1>2 DEF IamTypeOK, MaxRetries
      <3> QED  BY <2>1, <3>1, <3>2 DEF IamTypeOK
    <2>3. IamTypeOK'
      BY <1>1, <2>1, <2>2 DEF IamTypeOK
    <2>4. WorkerAtTask(worker', policy', result') /\ ReportIsTrue(policy', result')
      BY <1>1, <2>1, <2>2, EditInvParts DEF WorkerAtTask
    <2> QED  BY <2>2, <2>3, <2>4, EditInvParts
  <1>3. CASE ~(worker.retry < MaxRetries)
    <2>1. Finish("failed")
      BY <1>3 DEF Conflict
    <2> QED  BY <1>1, <2>1, FinishKeeps DEF ReportIsTrue, Jobs
  <1> QED  BY <1>2, <1>3

\* Somebody else writes the policy.
LEMMA OtherWritesKeeps ==
  ASSUME IamTypeOK, EditInv, NEW role \in Roles, NEW m \in Others, OtherWrites(role, m)
  PROVE  IamTypeOK' /\ EditInv'
  <1>1. worker' = worker /\ result' = result /\ fresh' = FALSE
    BY DEF OtherWrites
  <1>2. policy' \in Seq(Binding) /\ \A t \in Tasks : Done(t, policy) => Done(t, policy')
    BY OtherWritesFacts
  <1>3. IamTypeOK'
    BY <1>1, <1>2 DEF IamTypeOK
  <1>4. \A job \in Jobs : \A t \in Range(TasksOf(job)) :
          Done(t, policy) => Done(t, policy')
    BY <1>2, TaskFacts
  <1>5. WorkerAtTask(worker', policy', result')
    BY <1>1, <1>4, EditInvParts DEF WorkerAtTask
  <1>6. ReportIsTrue(policy', result')
    BY <1>1, <1>4, EditInvParts DEF ReportIsTrue
  <1> QED  BY <1>1, <1>3, <1>5, <1>6, EditInvParts

\* One step of any actor.
LEMMA IamStep == IamTypeOK /\ EditInv /\ [Next]_vars => IamTypeOK' /\ EditInv'
  <1> SUFFICES ASSUME IamTypeOK, EditInv, [Next]_vars
               PROVE  IamTypeOK' /\ EditInv'
    OBVIOUS
  <1>1. ASSUME Finish("failed"), UNCHANGED <<policy, fresh>>
        PROVE  IamTypeOK' /\ EditInv'
    <2>1. policy' \in Seq(Binding) /\ fresh' \in BOOLEAN
      BY <1>1 DEF IamTypeOK
    <2> QED  BY <1>1, <2>1, FinishKeeps DEF ReportIsTrue, Jobs
  <1>2. CASE Configure
    <2>1. "configured" \in Jobs /\ TasksOf("configured") = ConfigureTasks
      BY DEF Jobs, TasksOf
    <2> QED  BY <1>2, <2>1, BeginKeeps DEF Configure
  <1>3. CASE CleanUp \/ CleanUpWithoutAccount
    <2>1. /\ "cleanedUp" \in Jobs /\ TasksOf("cleanedUp") = CleanUpTasks
          /\ "groupsCleanedUp" \in Jobs /\ TasksOf("groupsCleanedUp") = GroupCleanUpTasks
      BY DEF Jobs, TasksOf
    <2> QED  BY <1>3, <2>1, BeginKeeps DEF CleanUp, CleanUpWithoutAccount
  <1>4. CASE GetIamPolicy
    BY <1>4, GetKeeps
  <1>5. CASE SetIamPolicy
    BY <1>5, SetKeeps
  <1>6. CASE SetIamPolicyFails
    BY <1>1, <1>6 DEF SetIamPolicyFails
  <1>7. CASE Conflict
    BY <1>7, ConflictKeeps
  <1>8. CASE Crash
    BY <1>1, <1>8 DEF Crash
  <1>9. ASSUME NEW role \in Roles, NEW m \in Others, OtherWrites(role, m)
        PROVE  IamTypeOK' /\ EditInv'
    BY <1>9, OtherWritesKeeps
  <1>10. CASE UNCHANGED vars
    BY <1>10 DEF vars, IamTypeOK, EditInv
  <1> QED
    BY <1>2, <1>3, <1>4, <1>5, <1>6, <1>7, <1>8, <1>9, <1>10 DEF Next, WorkerStep

-----------------------------------------------------------------------------
(* The theorems.                                                           *)

\* The policy stays a list of bindings of known roles, and the tries of an
\* edit stay within MaxRetries.
THEOREM IamTypeCorrect == Spec => []IamTypeOK
  BY IamInit, IamStep, PTL DEF Spec

\* A task off the list is done and stays done, and a copy that GCP would
\* accept is the edit of the policy as it is now.
THEOREM EditInvariant == Spec => []EditInv
  BY IamInit, IamStep, PTL DEF Spec

\* A reconcile that reports success has left every member with its roles, and
\* a cleanup with none, whatever others wrote and whichever calls failed; the
\* roles of a service account that the cleanup did not find may stay.
THEOREM SuccessIsReal == Spec => []SuccessMeansDone
  <1>1. EditInv => SuccessMeansDone
    <2> SUFFICES ASSUME EditInv
                 PROVE  SuccessMeansDone
      OBVIOUS
    <2>1. ASSUME result = "configured", NEW e \in Entitlements, NEW r \in e.roles
          PROVE  <<r, e.member>> \in Pairs(policy)
      <3>1. PICK t \in Range(ConfigureTasks) : t.member = e.member /\ t.roles = e.roles
        BY TaskFacts
      <3>2. Done(t, policy) /\ t.op = "grant"
        BY <2>1, <3>1, TaskFacts DEF EditInv, TasksOf, Jobs
      <3> QED  BY <3>1, <3>2 DEF Done
    <2>2. ASSUME result = "cleanedUp", NEW e \in Entitlements, NEW p \in Pairs(policy)
          PROVE  p[2] # e.member
      <3>1. PICK t \in Range(CleanUpTasks) : t.member = e.member
        BY TaskFacts
      <3>2. Done(t, policy) /\ t.op = "revoke"
        BY <2>2, <3>1, TaskFacts DEF EditInv, TasksOf, Jobs
      <3> QED  BY <3>1, <3>2 DEF Done
    <2>3. ASSUME result = "groupsCleanedUp", NEW e \in Entitlements, NEW p \in Pairs(policy),
                 e.member # ServiceAccount
          PROVE  p[2] # e.member
      <3>1. PICK t \in Range(GroupCleanUpTasks) : t.member = e.member
        BY <2>3, TaskFacts
      <3>2. Done(t, policy) /\ t.op = "revoke"
        BY <2>3, <3>1, TaskFacts DEF EditInv, TasksOf, Jobs
      <3> QED  BY <3>1, <3>2 DEF Done
    <2> QED  BY <2>1, <2>2, <2>3 DEF SuccessMeansDone
  <1> QED  BY <1>1, EditInvariant, PTL

\* Every step of the operator and of others is an atomic change of the roles
\* of one member, or changes nobody's: IamPolicy implements IamGrants.
THEOREM EditsAreAtomic == Spec => ImplementsGrants
  <1>1. ASSUME IamTypeOK, EditInv, [Next]_vars
        PROVE  [Grants!Next]_(Pairs(policy))
    <2>1. CASE SetIamPolicy
      <3> DEFINE t == worker.todo[1]
      <3>1. t \in Tasks /\ policy' \in Edited(t, policy) /\ policy \in Seq(Binding)
        BY <2>1, <1>1, WriteIsEdit DEF IamTypeOK
      <3>2. /\ t.op = "grant" => Pairs(policy') = Pairs(policy) \cup {<<r, t.member>> : r \in t.roles}
            /\ t.op # "grant" => Pairs(policy') = {p \in Pairs(policy) : p[2] # t.member}
        BY <3>1, EditedFacts
      <3>3. PICK e \in Entitlements : e.member = t.member /\ (t.op = "grant" => e.roles = t.roles)
        BY <3>1, TaskFacts DEF TaskFor
      <3> HIDE DEF t
      <3>4. CASE t.op = "grant"
        <4>1. Grants!Grant(e)
          BY <3>2, <3>3, <3>4 DEF Grants!Grant
        <4> QED  BY <4>1 DEF Grants!Next
      <3>5. CASE t.op # "grant"
        <4>1. Grants!Revoke(e.member)
          BY <3>2, <3>3, <3>5 DEF Grants!Revoke
        <4> QED  BY <4>1 DEF Grants!Next
      <3> QED  BY <3>4, <3>5
    <2>2. ASSUME NEW role \in Roles, NEW m \in Others, OtherWrites(role, m)
          PROVE  Grants!Next
      BY <2>2, <1>1, OtherWritesFacts DEF Grants!Next, Grants!OthersChange
    <2>3. ASSUME policy' = policy
          PROVE  UNCHANGED Pairs(policy)
      BY <2>3
    <2> QED
      BY <2>1, <2>2, <2>3, <1>1
         DEF Next, WorkerStep, Configure, CleanUp, CleanUpWithoutAccount, Begin, GetIamPolicy, SetIamPolicyFails,
             Conflict, Crash, vars
  <1> QED
    BY <1>1, IamTypeCorrect, EditInvariant, PTL DEF Spec, ImplementsGrants, Grants!Spec
=============================================================================
