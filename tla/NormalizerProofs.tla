-------------------------- MODULE NormalizerProofs --------------------------
(***************************************************************************)
(* Theorems about Normalizer: for every policy and every response, however *)
(* long, the snapshot built from the result passes its validators, every   *)
(* record is counted once, and the first record of an id decides.          *)
(***************************************************************************)
EXTENDS Normalizer, FiniteSetTheorems, TLAPS

-----------------------------------------------------------------------------
(* Induction over positions, and what the fold of the tasks makes.         *)

\* A set of natural numbers that is not empty has a least one.
LEMMA LeastOf ==
  ASSUME NEW S \in SUBSET Nat, S # {}
  PROVE  \E x \in S : \A y \in S : x <= y
<1> DEFINE R == OpToRel(<, Nat)
<1>1. IsWellFoundedOn(R, Nat)
  BY NatLessThanWellFounded
<1>2. \A x, y \in Nat : y < x => <<y, x>> \in R
  BY DEF OpToRel
<1> HIDE DEF R
<1>3. \E x \in S : \A y \in S : ~ (<<y, x>> \in R)
  BY <1>1, WFMin
<1>4. PICK x \in S : \A y \in S : ~ (<<y, x>> \in R)
  BY <1>3
<1>5. \A y \in S : ~ (y < x)
  BY <1>2, <1>4
<1>6. \A y \in S : x <= y
  BY <1>5
<1> QED BY <1>6

\* Induction for a property that is given as the set of the numbers that have it.
LEMMA SetInduction ==
  ASSUME NEW S, 0 \in S, \A n \in Nat : n \in S => n + 1 \in S
  PROVE  Nat \subseteq S
<1> SUFFICES ASSUME Nat \ S # {} PROVE FALSE
  OBVIOUS
<1>1. PICK x \in Nat \ S : \A y \in Nat \ S : x <= y
  <2> DEFINE T == Nat \ S
  <2>1. T \in SUBSET Nat /\ T # {}
    OBVIOUS
  <2> HIDE DEF T
  <2>2. \E x \in T : \A y \in T : x <= y
    BY <2>1, LeastOf
  <2> QED BY <2>2 DEF T
<1>2. x # 0 /\ x - 1 \in Nat
  OBVIOUS
<1>3. x - 1 \in S
  BY <1>1, <1>2
<1> QED BY <1>2, <1>3

\* Max picks the greatest of a set of positions, and the rest lies below it.
LEMMA MaxInSet ==
  ASSUME NEW k \in Nat, NEW s \in SUBSET (1 .. k), s # {}
  PROVE  Max(s) \in s /\ \A y \in s : Max(s) >= y
<1> DEFINE T == {k - x : x \in s}
<1>1. T \in SUBSET Nat /\ T # {}
  <2>1. \A x \in s : k - x \in Nat
    OBVIOUS
  <2> QED BY <2>1
<1> HIDE DEF T
<1>2. PICK m \in T : \A y \in T : m <= y
  BY <1>1, LeastOf
<1> USE DEF T
<1>3. PICK x \in s : m = k - x
  BY <1>2
<1>4. \A y \in s : k - y \in T
  OBVIOUS
<1>5. \A y \in s : x >= y
  BY <1>2, <1>3, <1>4
<1> QED BY <1>5 DEF Max

LEMMA WithoutMax ==
  ASSUME NEW k \in Nat, NEW s \in SUBSET (1 .. k + 1), s # {}
  PROVE  Max(s) \in 1 .. k + 1 /\ s \ {Max(s)} \in SUBSET (1 .. k)
<1> DEFINE m == Max(s)
<1>1. m \in s /\ \A y \in s : m >= y
  BY MaxInSet, k + 1 \in Nat
<1> HIDE DEF m
<1>2. m \in 1 .. k + 1
  BY <1>1
<1>3. ASSUME NEW y \in s, y # m PROVE y \in 1 .. k
  <2>1. y \in 1 .. k + 1 /\ m >= y
    BY <1>1
  <2> QED BY <2>1, <1>2, <1>3
<1>4. s \ {m} \in SUBSET (1 .. k)
  BY <1>3
<1> QED BY <1>2, <1>4 DEF m

\* FoldLeft is a function over the sets of positions, defined by recursion: a
\* set's value is G of the value without its greatest position and that
\* position. If G stays within A, such a function exists.
Folding(k, A, b, G) ==
  {it \in [SUBSET (1 .. k) -> A] : \A s \in SUBSET (1 .. k) :
     it[s] = IF s = {} THEN b ELSE G[<<it[s \ {Max(s)}], Max(s)>>]}

LEMMA FoldExists ==
  ASSUME NEW A, NEW b \in A, NEW n \in Nat, NEW G \in [A \X (1 .. n) -> A]
  PROVE  \E it : it \in Folding(n, A, b, G)
<1> USE DEF Folding
<1> DEFINE Good(k, it) == it \in Folding(k, A, b, G)
           S == {k \in Nat : k <= n => \E it : Good(k, it)}
<1>1. 0 \in S
  <2> DEFINE it == [s \in SUBSET (1 .. 0) |-> b]
  <2>1. Good(0, it)
    OBVIOUS
  <2> QED BY <2>1
<1>2. ASSUME NEW k \in Nat, k \in S PROVE k + 1 \in S
  <2> SUFFICES ASSUME k + 1 <= n PROVE \E it : Good(k + 1, it)
    <3> HIDE DEF Good
    <3> QED OBVIOUS
  <2>1. PICK old : Good(k, old)
    <3> HIDE DEF Good
    <3>1. k <= n
      OBVIOUS
    <3> QED BY <1>2, <3>1
  <2> DEFINE it == [s \in SUBSET (1 .. k + 1) |->
                      IF s = {} THEN b ELSE G[<<old[s \ {Max(s)}], Max(s)>>]]
  <2>2. ASSUME NEW s \in SUBSET (1 .. k + 1), s # {}
        PROVE  s \ {Max(s)} \in SUBSET (1 .. k) /\ Max(s) \in 1 .. n
    <3>1. Max(s) \in 1 .. k + 1 /\ s \ {Max(s)} \in SUBSET (1 .. k)
      BY <2>2, WithoutMax
    <3> QED BY <3>1
  <2>3. it \in [SUBSET (1 .. k + 1) -> A]
    <3> SUFFICES ASSUME NEW s \in SUBSET (1 .. k + 1), s # {}
                 PROVE  G[<<old[s \ {Max(s)}], Max(s)>>] \in A
      OBVIOUS
    <3>1. old[s \ {Max(s)}] \in A
      BY <2>1, <2>2
    <3> QED BY <3>1, <2>2
  <2>4. \A s \in SUBSET (1 .. k) : it[s] = old[s]
    <3> SUFFICES ASSUME NEW s \in SUBSET (1 .. k) PROVE it[s] = old[s]
      OBVIOUS
    <3>1. s \in SUBSET (1 .. k + 1)
      OBVIOUS
    <3>2. it[s] = IF s = {} THEN b ELSE G[<<old[s \ {Max(s)}], Max(s)>>]
      BY <3>1
    <3> HIDE DEF it
    <3> QED BY <3>2, <2>1
  <2>5. ASSUME NEW s \in SUBSET (1 .. k + 1)
        PROVE  it[s] = IF s = {} THEN b ELSE G[<<it[s \ {Max(s)}], Max(s)>>]
    <3>1. CASE s = {}
      BY <3>1
    <3>2. CASE s # {}
      <4>1. it[s \ {Max(s)}] = old[s \ {Max(s)}]
        BY <3>2, <2>2, <2>4
      <4>2. it[s] = G[<<old[s \ {Max(s)}], Max(s)>>]
        BY <3>2
      <4> HIDE DEF it
      <4> QED BY <3>2, <4>1, <4>2
    <3> QED BY <3>1, <3>2
  <2> HIDE DEF it
  <2>6. Good(k + 1, it)
    BY <2>3, <2>5
  <2> QED BY <2>6
<1> HIDE DEF Good
<1>3. Nat \subseteq S
  <2> HIDE DEF S
  <2> QED BY <1>1, <1>2, SetInduction
<1>4. \E it : Good(n, it)
  BY <1>3
<1> QED BY <1>4 DEF Good

\* Whatever satisfies the equations of such a function has values in A.
LEMMA FoldRange ==
  ASSUME NEW A, NEW b \in A, NEW n \in Nat, NEW G \in [A \X (1 .. n) -> A], NEW it,
         it[{}] = b,
         \A s \in SUBSET (1 .. n) :
            s # {} /\ it[s \ {Max(s)}] \in A => it[s] = G[<<it[s \ {Max(s)}], Max(s)>>]
  PROVE  it[1 .. n] \in A
<1> DEFINE S == {k \in Nat : k <= n => \A s \in SUBSET (1 .. k) : it[s] \in A}
<1>1. 0 \in S
  <2>1. \A s \in SUBSET (1 .. 0) : s = {}
    OBVIOUS
  <2> QED BY <2>1
<1>2. ASSUME NEW k \in Nat, k \in S PROVE k + 1 \in S
  <2> SUFFICES ASSUME k + 1 <= n, NEW s \in SUBSET (1 .. k + 1)
               PROVE  it[s] \in A
    OBVIOUS
  <2> SUFFICES ASSUME s # {} PROVE it[s] \in A
    OBVIOUS
  <2>1. Max(s) \in 1 .. k + 1 /\ s \ {Max(s)} \in SUBSET (1 .. k)
    BY WithoutMax
  <2>2. s \ {Max(s)} \in SUBSET (1 .. k) /\ Max(s) \in 1 .. n
    BY <2>1
  <2>3. it[s \ {Max(s)}] \in A /\ s \in SUBSET (1 .. n)
    BY <1>2, <2>2
  <2>4. it[s] = G[<<it[s \ {Max(s)}], Max(s)>>]
    BY <2>3
  <2> QED BY <2>2, <2>3, <2>4
<1>3. Nat \subseteq S
  <2> HIDE DEF S
  <2> QED BY <1>1, <1>2, SetInduction
<1>4. n \in S
  BY <1>3
<1> QED BY <1>4


\* Adding tasks one by one keeps a list of tasks one.
LEMMA AddTaskFold ==
  ASSUME NEW base \in Seq(Tasks), NEW list \in Seq(Tasks)
  PROVE  FoldLeft(AddTask, base, list) \in Seq(Tasks)
<1> DEFINE A == Seq(Tasks)
           n == Len(list)
           G == [p \in A \X (1 .. n) |-> AddTask(p[1], list[p[2]])]
           Step(it) == [s \in SUBSET (1 .. n) |->
                          IF s = {} THEN base
                          ELSE AddTask(it[s \ {Max(s)}], list[Max(s)])]
           iter == CHOOSE it : it = Step(it)
<1>1. n \in Nat /\ DOMAIN list = 1 .. n
  OBVIOUS
<1>2. \A t \in A, i \in 1 .. n : G[<<t, i>>] = AddTask(t, list[i]) /\ G[<<t, i>>] \in A
  BY DEF AddTask
<1>3. G \in [A \X (1 .. n) -> A]
  BY DEF AddTask
<1>4. FoldLeft(AddTask, base, list) = iter[1 .. n]
  BY <1>1 DEF FoldLeft, MapThenFoldSet
<1>5. PICK it \in [SUBSET (1 .. n) -> A] : \A s \in SUBSET (1 .. n) :
         it[s] = IF s = {} THEN base ELSE G[<<it[s \ {Max(s)}], Max(s)>>]
  <2> HIDE DEF G, A, n
  <2>1. base \in A /\ n \in Nat
    BY <1>1 DEF A
  <2>2. \E it : it \in Folding(n, A, base, G)
    BY <1>3, <2>1, FoldExists
  <2> QED BY <2>2 DEF Folding
<1>6. it = Step(it)
  <2>1. ASSUME NEW s \in SUBSET (1 .. n), s # {}
        PROVE  it[s] = AddTask(it[s \ {Max(s)}], list[Max(s)])
    <3>1. Max(s) \in 1 .. n
      BY <2>1, <1>1, MaxInSet
    <3>2. it[s \ {Max(s)}] \in A
      BY <1>5
    <3> HIDE DEF G, A, n
    <3> QED BY <1>2, <1>5, <2>1, <3>1, <3>2
  <2> HIDE DEF G, A, n
  <2>2. \A s \in SUBSET (1 .. n) : it[s] = Step(it)[s]
    BY <1>5, <2>1
  <2> QED BY <2>2, <1>5
<1>7. iter = Step(iter)
  <2> HIDE DEF Step
  <2> QED BY <1>6
<1> HIDE DEF iter
<1>8. iter[{}] = base
  BY <1>7
<1>9. ASSUME NEW s \in SUBSET (1 .. n), s # {}, iter[s \ {Max(s)}] \in A
      PROVE  iter[s] = G[<<iter[s \ {Max(s)}], Max(s)>>]
  <2>1. iter[s] = AddTask(iter[s \ {Max(s)}], list[Max(s)])
    BY <1>7, <1>9
  <2>2. Max(s) \in 1 .. n
    BY <1>9, <1>1, MaxInSet
  <2> HIDE DEF G, A, n
  <2> QED BY <2>1, <2>2, <1>2, <1>9
<1>10. iter[1 .. n] \in A
  <2> HIDE DEF G, A, n
  <2>1. base \in A /\ n \in Nat
    BY <1>1 DEF A
  <2> QED BY <2>1, <1>3, <1>8, <1>9, FoldRange
<1> QED BY <1>4, <1>10

\* The same for the tasks of one tag after another.
LEMMA AddTasksFold ==
  ASSUME NEW base \in Seq(Tasks), NEW list \in Seq(Tags)
  PROVE  FoldLeft(AddTasks, base, list) \in Seq(Tasks)
<1> DEFINE A == Seq(Tasks)
           n == Len(list)
           G == [p \in A \X (1 .. n) |-> AddTasks(p[1], list[p[2]])]
           Step(it) == [s \in SUBSET (1 .. n) |->
                          IF s = {} THEN base
                          ELSE AddTasks(it[s \ {Max(s)}], list[Max(s)])]
           iter == CHOOSE it : it = Step(it)
<1>1. n \in Nat /\ DOMAIN list = 1 .. n
  OBVIOUS
<1>0. \A t \in A, i \in 1 .. n : AddTasks(t, list[i]) \in A
  <2> TAKE t \in A, i \in 1 .. n
  <2>1. Mapping[list[i]] \in Seq(Tasks)
    BY <1>1, PolicyAssumption
  <2> QED BY <2>1, AddTaskFold DEF AddTasks
<1>2. \A t \in A, i \in 1 .. n : G[<<t, i>>] = AddTasks(t, list[i]) /\ G[<<t, i>>] \in A
  BY <1>0
<1>3. G \in [A \X (1 .. n) -> A]
  <2> HIDE DEF A
  <2> QED BY <1>0
<1>4. FoldLeft(AddTasks, base, list) = iter[1 .. n]
  BY <1>1 DEF FoldLeft, MapThenFoldSet
<1>5. PICK it \in [SUBSET (1 .. n) -> A] : \A s \in SUBSET (1 .. n) :
         it[s] = IF s = {} THEN base ELSE G[<<it[s \ {Max(s)}], Max(s)>>]
  <2> HIDE DEF G, A, n
  <2>1. base \in A /\ n \in Nat
    BY <1>1 DEF A
  <2>2. \E it : it \in Folding(n, A, base, G)
    BY <1>3, <2>1, FoldExists
  <2> QED BY <2>2 DEF Folding
<1>6. it = Step(it)
  <2>1. ASSUME NEW s \in SUBSET (1 .. n), s # {}
        PROVE  it[s] = AddTasks(it[s \ {Max(s)}], list[Max(s)])
    <3>1. Max(s) \in 1 .. n
      BY <2>1, <1>1, MaxInSet
    <3>2. it[s \ {Max(s)}] \in A
      BY <1>5
    <3> HIDE DEF G, A, n
    <3> QED BY <1>2, <1>5, <2>1, <3>1, <3>2
  <2> HIDE DEF G, A, n
  <2>2. \A s \in SUBSET (1 .. n) : it[s] = Step(it)[s]
    BY <1>5, <2>1
  <2> QED BY <2>2, <1>5
<1>7. iter = Step(iter)
  <2> HIDE DEF Step
  <2> QED BY <1>6
<1> HIDE DEF iter
<1>8. iter[{}] = base
  BY <1>7
<1>9. ASSUME NEW s \in SUBSET (1 .. n), s # {}, iter[s \ {Max(s)}] \in A
      PROVE  iter[s] = G[<<iter[s \ {Max(s)}], Max(s)>>]
  <2>1. iter[s] = AddTasks(iter[s \ {Max(s)}], list[Max(s)])
    BY <1>7, <1>9
  <2>2. Max(s) \in 1 .. n
    BY <1>9, <1>1, MaxInSet
  <2> HIDE DEF G, A, n
  <2> QED BY <2>1, <2>2, <1>2, <1>9
<1>10. iter[1 .. n] \in A
  <2> HIDE DEF G, A, n
  <2>1. base \in A /\ n \in Nat
    BY <1>1 DEF A
  <2> QED BY <2>1, <1>3, <1>8, <1>9, FoldRange
<1> QED BY <1>4, <1>10

\* tasks_from_use_cases makes a list of tasks of any list of tags.
LEMMA TasksOfType ==
  ASSUME NEW useCase \in Seq(Tags) PROVE TasksOf(useCase) \in Seq(Tasks)
<1>1. <<>> \in Seq(Tasks)
  OBVIOUS
<1> QED BY <1>1, AddTasksFold DEF TasksOf

LEMMA RecordTypes ==
  ASSUME NEW r \in Records
  PROVE  r.id \in Ids /\ TasksOf(r.useCase) \in Seq(Tasks)
<1>1. r.useCase \in Seq(Tags)
  BY DEF Records, UpTo
<1> QED BY <1>1, TasksOfType DEF Records

-----------------------------------------------------------------------------
(* The loop.                                                                *)

\* The loop keeps its lists balanced, and the id of every family in seen_ids.
LoopInv ==
  /\ models \in Seq(Records)
  /\ done \in 0 .. Len(models)
  /\ families \in Seq(Families)
  /\ exclusions \in Seq(Exclusions)
  /\ done = Len(families) + Len(exclusions)
  /\ \A i \in DOMAIN families : families[i].id \in seen
  /\ Distinct
  /\ SnapshotAccepted

LEMMA LoopInit ==
  ASSUME Init PROVE LoopInv
<1>1. models \in Seq(Records)
  BY PolicyAssumption DEF Init, UpTo
<1> QED
  BY <1>1 DEF Init, LoopInv, Distinct, SnapshotAccepted

\* A turn of the loop looks at a record of the response.
LEMMA RecordType ==
  ASSUME LoopInv, NextRecord
  PROVE  Record \in Records /\ done' \in 0 .. Len(models)'
BY DEF LoopInv, NextRecord, Record

\* An excluded record leaves the families alone and lengthens the exclusions.
LEMMA ExcludeKeeps ==
  ASSUME LoopInv, NextRecord, NEW reason \in Reasons, Exclude(reason),
         seen \subseteq seen'
  PROVE  LoopInv'
<1>1. Record.id \in Ids /\ done' \in 0 .. Len(models)' /\ done' = done + 1
  BY RecordType DEF Records, NextRecord
<1>2. /\ exclusions' \in Seq(Exclusions)
      /\ Len(exclusions') = Len(exclusions) + 1
  <2>1. [id |-> RecordId(reason), reason |-> reason] \in Exclusions
    BY <1>1 DEF Exclusions, RecordId
  <2> QED BY <2>1 DEF LoopInv, Exclude
<1> QED
  BY <1>1, <1>2
  DEF LoopInv, Exclude, NextRecord, Distinct, SnapshotAccepted

LEMMA ExcludedReasons ==
  ASSUME NEW record PROVE Excluded(record) \subseteq Reasons
BY DEF Excluded, Reasons

\* A family is appended under an id that no family has yet.
LEMMA IncludeKeeps ==
  ASSUME LoopInv, Include PROVE LoopInv'
<1> DEFINE family == [id |-> Record.id, tasks |-> TasksOf(Record.useCase)]
<1>1. NextRecord /\ Record.id \notin seen /\ seen' = seen \cup {Record.id}
  BY DEF Include
<1>2. Record \in Records /\ done' \in 0 .. Len(models)' /\ done' = done + 1
  BY <1>1, RecordType DEF NextRecord
<1>3. family \in Families /\ family.id = Record.id
  BY <1>2, RecordTypes DEF Families
<1>4. families' = Append(families, family) /\ exclusions' = exclusions
  BY DEF Include
<1>5. families \in Seq(Families)
  BY DEF LoopInv
<1> HIDE DEF family
<1>6. /\ families' \in Seq(Families)
      /\ Len(families') = Len(families) + 1
      /\ \A i \in DOMAIN families : families'[i] = families[i]
      /\ families'[Len(families) + 1] = family
      /\ DOMAIN families = 1 .. Len(families)
      /\ DOMAIN families' = 1 .. Len(families) + 1
  BY <1>3, <1>4, <1>5
<1>7. \A i \in DOMAIN families' : families'[i].id \in seen'
  <2> TAKE i \in DOMAIN families'
  <2>1. CASE i \in DOMAIN families
    BY <2>1, <1>1, <1>6 DEF LoopInv
  <2>2. CASE i = Len(families) + 1
    BY <2>2, <1>1, <1>3, <1>6
  <2> QED BY <2>1, <2>2, <1>5, <1>6
<1>8. Distinct'
  <2> SUFFICES ASSUME NEW i \in DOMAIN families', NEW j \in DOMAIN families',
                      families'[i].id = families'[j].id
               PROVE  i = j
    BY DEF Distinct
  <2>1. \A k \in DOMAIN families : families'[k].id # Record.id
    BY <1>1, <1>6 DEF LoopInv
  <2>2. CASE i \in DOMAIN families /\ j \in DOMAIN families
    <3>1. families[i].id = families[j].id
      BY <2>2, <1>6
    <3> QED BY <2>2, <3>1 DEF LoopInv, Distinct
  <2>3. CASE i = Len(families) + 1 \/ j = Len(families) + 1
    BY <2>1, <2>3, <1>3, <1>5, <1>6
  <2> QED BY <2>2, <2>3, <1>5, <1>6
<1>9. done' = Len(families') + Len(exclusions')
  BY <1>2, <1>4, <1>5, <1>6 DEF LoopInv
<1>10. models' = models /\ outcome' = outcome
  BY <1>1 DEF NextRecord
<1> QED
  BY <1>2, <1>4, <1>6, <1>7, <1>8, <1>9, <1>10 DEF LoopInv, SnapshotAccepted

LEMMA LoopNext ==
  ASSUME LoopInv, [Next]_vars PROVE LoopInv'
<1>1. CASE Duplicate
  <2>1. Exclude("duplicate_id") /\ NextRecord /\ seen' = seen
    BY <1>1 DEF Duplicate
  <2> QED
    BY <2>1, ExcludeKeeps DEF Reasons
<1>2. CASE Reject
  <2>1. PICK reason \in Excluded(Record) : Exclude(reason)
    BY <1>2 DEF Reject
  <2>2. reason \in Reasons
    BY ExcludedReasons
  <2> QED
    BY <1>2, <2>1, <2>2, ExcludeKeeps DEF Reject
<1>3. CASE Include
  BY <1>3, IncludeKeeps
<1>4. CASE SkipEmpty
  BY <1>4 DEF SkipEmpty, LoopEnds, LoopInv, Distinct, SnapshotAccepted
<1>5. CASE BuildSnapshot
  <2>1. Balanced
    BY <1>5 DEF BuildSnapshot, LoopEnds, LoopInv, Balanced
  <2> QED
    BY <1>5, <2>1
    DEF BuildSnapshot, LoopEnds, LoopInv, Distinct, SnapshotAccepted
<1>6. CASE UNCHANGED vars
  BY <1>6 DEF vars, LoopInv, Distinct, SnapshotAccepted
<1> QED
  BY <1>1, <1>2, <1>3, <1>4, <1>5, <1>6 DEF Next

\* Every variable keeps to its type, for every policy and every response: what
\* families list are tasks, whatever tags the records came with.
THEOREM TypeCorrect == Spec => []TypeOK
<1> DEFINE Rest == rules \in Rules /\ seen \subseteq Ids /\ outcome \in Outcomes
<1>1. Init => Rest
  BY DEF Init, Outcomes
<1>2. ASSUME LoopInv, Rest, [Next]_vars PROVE Rest'
  <2>1. ASSUME NextRecord PROVE Record.id \in Ids
    BY <2>1, <1>2, RecordType DEF Records
  <2>2. CASE Duplicate \/ Reject \/ Include
    BY <2>1, <2>2, <1>2 DEF Duplicate, Reject, Include, NextRecord
  <2>3. CASE SkipEmpty \/ BuildSnapshot
    BY <2>3, <1>2 DEF SkipEmpty, BuildSnapshot, LoopEnds, Outcomes
  <2>4. CASE UNCHANGED vars
    BY <2>4, <1>2 DEF vars
  <2> QED BY <1>2, <2>2, <2>3, <2>4 DEF Next
<1>3. LoopInv /\ Rest => TypeOK
  BY DEF LoopInv, TypeOK
<1> QED
  BY LoopInit, LoopNext, <1>1, <1>2, <1>3, PTL DEF Spec

\* SnapshotMeta and CatalogSnapshot accept what normalise_response returns:
\* sync_catalog never raises when it builds the snapshot.
THEOREM SnapshotAlwaysAccepted == Spec => []SnapshotAccepted
<1>1. LoopInv => SnapshotAccepted
  BY DEF LoopInv
<1> QED
  BY LoopInit, LoopNext, <1>1, PTL DEF Spec

-----------------------------------------------------------------------------
(* Counting.                                                               *)

\* The positions at which an id is told among the first n are finitely many,
\* and one more position adds one if it tells the id.
Extends(longer, list, n) == \A i \in 1 .. n : longer[i] = list[i]
Tells(entry, x) == IF Named(entry.id) = x THEN 1 ELSE 0

LEMMA UnderGrows ==
  ASSUME NEW n \in Nat, NEW list, NEW longer, NEW x, Extends(longer, list, n)
  PROVE  /\ Cardinality(Under(list, x, n)) \in Nat
         /\ Cardinality(Under(longer, x, n)) = Cardinality(Under(list, x, n))
         /\ Cardinality(Under(longer, x, n + 1)) =
              Cardinality(Under(list, x, n)) + Tells(longer[n + 1], x)
<1> DEFINE H == Under(list, x, n)
<1>1. IsFiniteSet(H) /\ Cardinality(H) \in Nat
  <2>1. IsFiniteSet(1 .. n)
    BY FS_Interval
  <2>2. H \in SUBSET (1 .. n)
    BY DEF Under
  <2>3. IsFiniteSet(H)
    BY <2>1, <2>2, FS_Subset
  <2> QED BY <2>3, FS_CardinalityType
<1>2. Under(longer, x, n) = H
  BY DEF Under, Extends
<1>3. CASE Named(longer[n + 1].id) = x
  <2>1. Under(longer, x, n + 1) = H \cup {n + 1} /\ n + 1 \notin H
    BY <1>3 DEF Under, Extends
  <2>2. Cardinality(H \cup {n + 1}) = Cardinality(H) + 1
    <3> HIDE DEF H
    <3> QED BY <1>1, <2>1, FS_AddElement
  <2> QED BY <1>1, <1>2, <1>3, <2>1, <2>2 DEF Tells
<1>4. CASE Named(longer[n + 1].id) # x
  <2>1. Under(longer, x, n + 1) = H
    BY <1>4 DEF Under, Extends
  <2> QED BY <1>1, <1>2, <1>4, <2>1 DEF Tells
<1> QED BY <1>3, <1>4

\* A turn of the loop lengthens one of the two lists, by the id of its record.
LEMMA TurnAppends ==
  ASSUME LoopInv, Next, done' # done
  PROVE  /\ done' = done + 1 /\ models' = models /\ done + 1 \in 1 .. Len(models)
         /\ \/ /\ families' = families
               /\ \E e : Named(e.id) = Named(Record.id) /\ exclusions' = Append(exclusions, e)
            \/ /\ exclusions' = exclusions
               /\ Record.id \notin seen /\ Excluded(Record) = {}
               /\ families' = Append(families,
                    [id |-> Record.id, tasks |-> TasksOf(Record.useCase)])
<1>1. Duplicate \/ Reject \/ Include
  BY DEF Next, SkipEmpty, BuildSnapshot, LoopEnds
<1>2. NextRecord
  BY <1>1 DEF Duplicate, Reject, Include
<1>3. done' = done + 1 /\ models' = models /\ done + 1 \in 1 .. Len(models)
  BY <1>2 DEF NextRecord, LoopInv
<1>4. ASSUME NEW reason, Exclude(reason)
      PROVE  /\ families' = families
             /\ \E e : Named(e.id) = Named(Record.id) /\ exclusions' = Append(exclusions, e)
  <2> DEFINE e == [id |-> RecordId(reason), reason |-> reason]
  <2>1. e.id = RecordId(reason) /\ exclusions' = Append(exclusions, e) /\ families' = families
    BY <1>4 DEF Exclude
  <2>2. Named(RecordId(reason)) = Named(Record.id)
    BY DEF Named, RecordId
  <2> QED BY <2>1, <2>2
<1>5. CASE Duplicate
  BY <1>3, <1>4, <1>5 DEF Duplicate
<1>6. CASE Reject
  BY <1>3, <1>4, <1>6 DEF Reject
<1>7. CASE Include
  BY <1>3, <1>7 DEF Include
<1> QED BY <1>1, <1>5, <1>6, <1>7

LEMMA OnceNext ==
  ASSUME LoopInv, EachRecordOnce, [Next]_vars PROVE EachRecordOnce'
<1>1. CASE done' = done
  <2>1. UNCHANGED <<models, families, exclusions, done>>
    BY <1>1 DEF Next, Duplicate, Reject, Include, NextRecord, SkipEmpty,
                BuildSnapshot, LoopEnds, LoopInv, vars
  <2> QED BY <2>1 DEF EachRecordOnce, Under
<1>2. CASE done' # done
  <2>1. Next
    BY <1>2 DEF vars
  <2>2. /\ models \in Seq(Records) /\ done \in Nat
        /\ families \in Seq(Families)
        /\ exclusions \in Seq(Exclusions)
    BY DEF LoopInv
  <2>3. done' = done + 1 /\ models' = models
    BY <1>2, <2>1, TurnAppends
  <2>0. done' = Len(families') + Len(exclusions')
    BY LoopNext DEF LoopInv
  <2> SUFFICES ASSUME NEW x \in Ids \cup {Placeholder}
               PROVE  Cardinality(Under(models, x, done + 1)) =
                        Cardinality(Under(families', x, Len(families')))
                          + Cardinality(Under(exclusions', x, Len(exclusions')))
    BY <2>0, <2>3 DEF EachRecordOnce
  <2> DEFINE a == Tells(Record, x)
             M == Cardinality(Under(models, x, done))
             F == Cardinality(Under(families, x, Len(families)))
             E == Cardinality(Under(exclusions, x, Len(exclusions)))
  <2>4. M = F + E
    BY DEF EachRecordOnce
  <2>5. /\ M \in Nat
        /\ Cardinality(Under(models, x, done + 1)) = M + a
    BY <2>2, UnderGrows DEF Record, Extends
  <2>6. F \in Nat /\ E \in Nat
    BY <2>2, UnderGrows DEF Extends
  <2>9. a \in Nat
    BY DEF Tells
  <2>7. CASE families' = families
             /\ \E e : Named(e.id) = Named(Record.id) /\ exclusions' = Append(exclusions, e)
    <3>1. PICK e : Named(e.id) = Named(Record.id) /\ exclusions' = Append(exclusions, e)
      BY <2>7
    <3>2. /\ Len(exclusions) \in Nat /\ Len(exclusions') = Len(exclusions) + 1
          /\ \A i \in 1 .. Len(exclusions) : exclusions'[i] = exclusions[i]
          /\ exclusions'[Len(exclusions) + 1] = e
      BY <2>2, <3>1
    <3>3. Cardinality(Under(exclusions', x, Len(exclusions) + 1)) =
            E + Tells(exclusions'[Len(exclusions) + 1], x)
      <4> DEFINE n == Len(exclusions)
                 old == exclusions
                 new == exclusions'
      <4>1. n \in Nat /\ Extends(new, old, n)
        BY <3>2 DEF Extends
      <4> HIDE DEF n, old, new
      <4>2. /\ Cardinality(Under(new, x, n)) = Cardinality(Under(old, x, n))
            /\ Cardinality(Under(new, x, n + 1)) =
                 Cardinality(Under(old, x, n)) + Tells(new[n + 1], x)
        BY <4>1, UnderGrows
      <4> QED BY <4>2 DEF n, old, new
    <3>4. Cardinality(Under(exclusions', x, Len(exclusions'))) = E + a
      BY <3>1, <3>2, <3>3 DEF Tells
    <3>5. Cardinality(Under(families', x, Len(families'))) = F
      BY <2>7
    <3> HIDE DEF a, M, F, E
    <3> QED BY <2>4, <2>5, <2>6, <3>4, <3>5, <2>9
  <2>8. CASE exclusions' = exclusions
             /\ families' = Append(families,
                  [id |-> Record.id, tasks |-> TasksOf(Record.useCase)])
    <3> DEFINE f == [id |-> Record.id, tasks |-> TasksOf(Record.useCase)]
    <3>1. f.id = Record.id /\ families' = Append(families, f)
      BY <2>8
    <3> HIDE DEF f
    <3>2. /\ Len(families) \in Nat /\ Len(families') = Len(families) + 1
          /\ \A i \in 1 .. Len(families) : families'[i] = families[i]
          /\ families'[Len(families) + 1] = f
      BY <2>2, <3>1
    <3>3. Cardinality(Under(families', x, Len(families) + 1)) =
            F + Tells(families'[Len(families) + 1], x)
      <4> DEFINE n == Len(families)
                 old == families
                 new == families'
      <4>1. n \in Nat /\ Extends(new, old, n)
        BY <3>2 DEF Extends
      <4> HIDE DEF n, old, new
      <4>2. /\ Cardinality(Under(new, x, n)) = Cardinality(Under(old, x, n))
            /\ Cardinality(Under(new, x, n + 1)) =
                 Cardinality(Under(old, x, n)) + Tells(new[n + 1], x)
        BY <4>1, UnderGrows
      <4> QED BY <4>2 DEF n, old, new
    <3>4. Cardinality(Under(families', x, Len(families'))) = F + a
      BY <3>1, <3>2, <3>3 DEF Tells
    <3>5. Cardinality(Under(exclusions', x, Len(exclusions'))) = E
      BY <2>8
    <3> HIDE DEF a, M, F, E
    <3> QED BY <2>4, <2>5, <2>6, <3>4, <3>5, <2>9
  <2> QED BY <1>2, <2>1, <2>7, <2>8, TurnAppends
<1> QED BY <1>1, <1>2

\* "Every record in response.models contributes to exactly one of families/
\* exclusions": the two lists add up to what the loop has handled, as a whole
\* and id by id, the empty id and its placeholder taken for one, for every
\* policy and every response.
THEOREM RecordsCountedOnce == Spec => []EachRecordOnce
<1>1. Init => EachRecordOnce
  <2> SUFFICES ASSUME Init, NEW x \in Ids \cup {Placeholder}
               PROVE  Cardinality(Under(models, x, done)) =
                        Cardinality(Under(families, x, Len(families)))
                          + Cardinality(Under(exclusions, x, Len(exclusions)))
    BY DEF EachRecordOnce, Init
  <2>1. done = 0 /\ Len(families) = 0 /\ Len(exclusions) = 0
    BY DEF Init
  <2>2. /\ Under(models, x, 0) = {}
        /\ Under(families, x, 0) = {}
        /\ Under(exclusions, x, 0) = {}
    BY DEF Under
  <2>3. Cardinality({}) = 0
    BY FS_EmptySet
  <2>4. /\ Cardinality(Under(models, x, done)) = 0
        /\ Cardinality(Under(families, x, Len(families))) = 0
        /\ Cardinality(Under(exclusions, x, Len(exclusions))) = 0
    <3>1. /\ Under(models, x, done) = {}
          /\ Under(families, x, Len(families)) = {}
          /\ Under(exclusions, x, Len(exclusions)) = {}
      BY <2>1, <2>2
    <3> QED BY <3>1, <2>3
  <2> QED BY <2>4
<1> QED
  BY <1>1, LoopInit, LoopNext, OnceNext, PTL DEF Spec

-----------------------------------------------------------------------------
(* Which record decides.                                                   *)

\* No record before the i-th has its id.
FirstOfId(i) == \A j \in 1 .. i - 1 : models[j].id # models[i].id

\* The i-th record decides that its id gets into the catalogue, and how.
Admitted(i) == FirstOfId(i) /\ Excluded(models[i]) = {}

FamilyOf(i) == [id |-> models[i].id, tasks |-> TasksOf(models[i].useCase)]

\* The families are those of the first records that are not excluded, and
\* seen_ids holds the ids of all records handled.
FirstInv ==
  /\ seen = {models[i].id : i \in 1 .. done}
  /\ \A k \in DOMAIN families : \E i \in 1 .. done :
        Admitted(i) /\ families[k] = FamilyOf(i)
  /\ \A i \in 1 .. done :
        Admitted(i) => \E k \in DOMAIN families : families[k] = FamilyOf(i)

LEMMA ResponseStays ==
  ASSUME UNCHANGED <<rules, models>>
  PROVE  \A i : (Admitted(i)' <=> Admitted(i)) /\ FamilyOf(i)' = FamilyOf(i)
<1>1. \A i : FirstOfId(i)' <=> FirstOfId(i)
  BY DEF FirstOfId
<1>2. \A i : Excluded(models[i])' = Excluded(models[i])
  BY DEF Excluded
<1>3. \A i : FamilyOf(i)' = FamilyOf(i)
  BY DEF FamilyOf
<1> QED BY <1>1, <1>2, <1>3 DEF Admitted

LEMMA FirstNext ==
  ASSUME LoopInv, FirstInv, [Next]_vars PROVE FirstInv'
<1>1. UNCHANGED <<rules, models>>
  BY DEF Next, Duplicate, Reject, Include, NextRecord, SkipEmpty, BuildSnapshot,
         LoopEnds, vars
<1>2. \A i : (Admitted(i)' <=> Admitted(i)) /\ FamilyOf(i)' = FamilyOf(i)
  BY <1>1, ResponseStays
<1>3. CASE UNCHANGED <<done, seen, families>>
  BY <1>1, <1>2, <1>3 DEF FirstInv
<1>4. ASSUME NextRecord
      PROVE  /\ done \in Nat /\ done' = done + 1
             /\ 1 .. done' = 1 .. done \cup {done + 1}
             /\ FirstOfId(done + 1) <=> Record.id \notin seen
  <2>1. done \in Nat /\ done' = done + 1
    BY <1>4 DEF NextRecord, LoopInv
  <2>2. FirstOfId(done + 1) <=> Record.id \notin seen
    BY <2>1 DEF FirstInv, FirstOfId, Record
  <2> QED BY <2>1, <2>2
<1>5. ASSUME NextRecord, seen' = seen \cup {Record.id}, families' = families,
             ~Admitted(done + 1)
      PROVE  FirstInv'
  <2>1. seen' = {models'[i].id : i \in 1 .. done'}
    BY <1>1, <1>4, <1>5 DEF FirstInv, Record
  <2>2. \A k \in DOMAIN families' : \E i \in 1 .. done' :
          Admitted(i)' /\ families'[k] = FamilyOf(i)'
    BY <1>2, <1>4, <1>5 DEF FirstInv
  <2>3. \A i \in 1 .. done' :
          Admitted(i)' => \E k \in DOMAIN families' : families'[k] = FamilyOf(i)'
    BY <1>2, <1>4, <1>5 DEF FirstInv
  <2> QED BY <2>1, <2>2, <2>3 DEF FirstInv
<1>6. CASE Duplicate
  <2>1. NextRecord /\ Record.id \in seen /\ seen' = seen /\ families' = families
    BY <1>6 DEF Duplicate, Exclude
  <2>2. seen' = seen \cup {Record.id} /\ ~Admitted(done + 1)
    BY <2>1, <1>4 DEF Admitted
  <2> QED BY <2>1, <2>2, <1>5
<1>7. CASE Reject
  <2>1. /\ NextRecord /\ seen' = seen \cup {Record.id} /\ families' = families
        /\ Excluded(Record) # {}
    BY <1>7 DEF Reject, Exclude
  <2>2. ~Admitted(done + 1)
    BY <2>1 DEF Admitted, Record
  <2> QED BY <2>1, <2>2, <1>5
<1>8. CASE Include
  <2> DEFINE f == FamilyOf(done + 1)
  <2>1. /\ NextRecord /\ seen' = seen \cup {Record.id}
        /\ Admitted(done + 1) /\ families' = Append(families, f)
    <3>1. /\ NextRecord /\ seen' = seen \cup {Record.id} /\ Record.id \notin seen
          /\ Excluded(Record) = {} /\ families' = Append(families, f)
      BY <1>8 DEF Include, FamilyOf, Record
    <3> QED BY <3>1, <1>4 DEF Admitted, Record
  <2> HIDE DEF f
  <2>2. /\ Len(families) \in Nat /\ DOMAIN families = 1 .. Len(families)
        /\ DOMAIN families' = 1 .. Len(families) + 1
        /\ \A k \in DOMAIN families : families'[k] = families[k]
        /\ families'[Len(families) + 1] = f
    BY <2>1 DEF LoopInv
  <2>3. \A k \in DOMAIN families' : \E i \in 1 .. done' :
          Admitted(i)' /\ families'[k] = FamilyOf(i)'
    <3> TAKE k \in DOMAIN families'
    <3>1. CASE k \in DOMAIN families
      <4>1. PICK i \in 1 .. done : Admitted(i) /\ families[k] = FamilyOf(i)
        BY <3>1 DEF FirstInv
      <4> QED BY <4>1, <3>1, <2>1, <2>2, <1>2, <1>4
    <3>2. CASE k = Len(families) + 1
      <4>1. families'[k] = FamilyOf(done + 1)
        BY <3>2, <2>2 DEF f
      <4> QED BY <4>1, <2>1, <1>2, <1>4
    <3> QED BY <3>1, <3>2, <2>2
  <2>4. \A i \in 1 .. done' :
          Admitted(i)' => \E k \in DOMAIN families' : families'[k] = FamilyOf(i)'
    <3> SUFFICES ASSUME NEW i \in 1 .. done', Admitted(i)'
                 PROVE  \E k \in DOMAIN families' : families'[k] = FamilyOf(i)'
      OBVIOUS
    <3>1. CASE i \in 1 .. done
      <4>1. PICK k \in DOMAIN families : families[k] = FamilyOf(i)
        BY <3>1, <1>2 DEF FirstInv
      <4>2. FamilyOf(i)' = FamilyOf(i) /\ k \in DOMAIN families'
        BY <2>2, <1>2
      <4> QED BY <4>1, <4>2, <2>2
    <3>2. CASE i = done + 1
      <4>1. families'[Len(families) + 1] = FamilyOf(i)
        BY <3>2, <2>2 DEF f
      <4>2. FamilyOf(i)' = FamilyOf(i) /\ Len(families) + 1 \in DOMAIN families'
        BY <2>2, <1>2
      <4> QED BY <4>1, <4>2
    <3> QED BY <3>1, <3>2, <2>1, <1>4
  <2>5. seen' = {models'[i].id : i \in 1 .. done'}
    BY <2>1, <1>1, <1>4 DEF FirstInv, Record
  <2> QED BY <2>3, <2>4, <2>5 DEF FirstInv
<1>9. CASE SkipEmpty \/ BuildSnapshot \/ UNCHANGED vars
  BY <1>3, <1>9 DEF SkipEmpty, BuildSnapshot, LoopEnds, vars
<1> QED
  BY <1>6, <1>7, <1>8, <1>9 DEF Next

\* Of the records with one id the first decides, also when it is excluded.
THEOREM FirstOneDecides == Spec => []FirstRecordDecides
<1>1. Init => FirstInv
  BY DEF Init, FirstInv
<1>2. ASSUME LoopInv, FirstInv PROVE FirstRecordDecides
  <2> SUFFICES ASSUME NEW x \in Ids
               PROVE  LET first == {i \in Having(models, x, done) :
                                     \A j \in 1 .. i - 1 : models[j].id # x} IN
                      {f.tasks : f \in {g \in ToSet(families) : g.id = x}} =
                        {TasksOf(models[i].useCase) :
                           i \in {k \in first : Excluded(models[k]) = {}}}
    BY DEF FirstRecordDecides
  <2> DEFINE first == {i \in 1 .. done : models[i].id = x /\ FirstOfId(i)}
             L == {f.tasks : f \in {g \in ToSet(families) : g.id = x}}
             R == {TasksOf(models[i].useCase) :
                     i \in {k \in first : Excluded(models[k]) = {}}}
  <2>1. first = {i \in Having(models, x, done) :
                   \A j \in 1 .. i - 1 : models[j].id # x}
    BY DEF Having, FirstOfId
  <2>2. ToSet(families) = {families[k] : k \in DOMAIN families}
    BY DEF ToSet
  <2>3. ASSUME NEW t \in L PROVE t \in R
    <3>1. PICK k \in DOMAIN families : families[k].id = x /\ t = families[k].tasks
      BY <2>2, <2>3
    <3>2. PICK i \in 1 .. done : Admitted(i) /\ families[k] = FamilyOf(i)
      BY <1>2 DEF FirstInv
    <3>3. /\ models[i].id = x /\ t = TasksOf(models[i].useCase)
          /\ FirstOfId(i) /\ Excluded(models[i]) = {}
      BY <3>1, <3>2 DEF FamilyOf, Admitted
    <3> QED BY <3>2, <3>3
  <2>4. ASSUME NEW t \in R PROVE t \in L
    <3>1. PICK i \in first : Excluded(models[i]) = {} /\ t = TasksOf(models[i].useCase)
      BY <2>4
    <3>2. PICK k \in DOMAIN families : families[k] = FamilyOf(i)
      BY <1>2, <3>1 DEF FirstInv, Admitted
    <3>3. families[k].id = x /\ families[k].tasks = t /\ families[k] \in ToSet(families)
      BY <2>2, <3>1, <3>2 DEF FamilyOf
    <3> QED BY <3>3
  <2>5. L = R
    BY <2>3, <2>4
  <2> QED BY <2>1, <2>5
<1> QED
  BY <1>1, <1>2, LoopInit, LoopNext, FirstNext, PTL DEF Spec

-----------------------------------------------------------------------------
(* What is hashed.                                                         *)

\* Any sequence of positions with ranks can be put in order.
Sorts(n, p, R) ==
  p \in Bijection(1 .. n, 1 .. n)
    /\ \A i, j \in 1 .. n : i < j => R[p[i]] <= R[p[j]]

\* One of n + 1 positions has the greatest rank.
LEMMA GreatestRank ==
  ASSUME NEW n \in Nat \ {0}, NEW R \in [1 .. n -> Nat]
  PROVE  \E m \in 1 .. n : \A i \in 1 .. n : R[i] <= R[m]
<1> DEFINE S == {k \in Nat : k + 1 <= n => \E m \in 1 .. k + 1 :
                                             \A i \in 1 .. k + 1 : R[i] <= R[m]}
<1>1. 0 \in S
  BY 1 \in 1 .. 0 + 1
<1>2. ASSUME NEW k \in Nat, k \in S PROVE k + 1 \in S
  <2> SUFFICES ASSUME k + 2 <= n
               PROVE  \E m \in 1 .. k + 2 : \A i \in 1 .. k + 2 : R[i] <= R[m]
    OBVIOUS
  <2>1. PICK m \in 1 .. k + 1 : \A i \in 1 .. k + 1 : R[i] <= R[m]
    BY <1>2
  <2>2. R[m] \in Nat /\ R[k + 2] \in Nat
    OBVIOUS
  <2>3. CASE R[k + 2] <= R[m]
    <3>1. \A i \in 1 .. k + 2 : R[i] <= R[m]
      BY <2>1, <2>3
    <3> QED BY <3>1
  <2>4. CASE R[m] < R[k + 2]
    <3>1. \A i \in 1 .. k + 2 : R[i] <= R[k + 2]
      <4> TAKE i \in 1 .. k + 2
      <4>1. R[i] \in Nat
        OBVIOUS
      <4> QED BY <4>1, <2>1, <2>2, <2>4
    <3> QED BY <3>1
  <2> QED BY <2>2, <2>3, <2>4
<1>3. Nat \subseteq S
  <2> HIDE DEF S
  <2> QED BY <1>1, <1>2, SetInduction
<1>4. n - 1 \in Nat /\ n - 1 + 1 = n
  OBVIOUS
<1>5. n - 1 \in S
  BY <1>3, <1>4
<1>6. \E m \in 1 .. n - 1 + 1 : \A i \in 1 .. n - 1 + 1 : R[i] <= R[m]
  BY <1>4, <1>5
<1> QED BY <1>4, <1>6

\* The greatest goes to the end, the position it leaves is taken by the last,
\* and the rest is sorted.
LEMMA SortOneMore ==
  ASSUME NEW k \in Nat, NEW Q \in [1 .. k + 1 -> Nat],
         \A R \in [1 .. k -> Nat] : \E p : Sorts(k, p, R)
  PROVE  \E p : Sorts(k + 1, p, Q)
<1> DEFINE N == k + 1
           D == 1 .. k
           E == 1 .. k + 1
<1>1. PICK m \in E : \A i \in E : Q[i] <= Q[m]
  <2>1. k + 1 \in Nat \ {0}
    OBVIOUS
  <2>2. \E m \in 1 .. k + 1 : \A i \in 1 .. k + 1 : Q[i] <= Q[m]
    BY <2>1, GreatestRank
  <2> QED BY <2>2
<1>2. /\ E = D \cup {N} /\ N \notin D
      /\ \A i, j \in E : i < j => i \in D
      /\ Q \in [E -> Nat]
  OBVIOUS
<1> DEFINE at == [i \in D |-> IF i = m THEN N ELSE i]
           rest == [i \in D |-> Q[at[i]]]
<1> HIDE DEF N, D, E
<1>3. /\ at \in [D -> E \ {m}]
      /\ \A i, j \in D : at[i] = at[j] => i = j
      /\ \A x \in E \ {m} : \E i \in D : at[i] = x
  <2>1. \A i \in D : at[i] = IF i = m THEN N ELSE i
    OBVIOUS
  <2>2. at \in [D -> E \ {m}]
    BY <1>1, <1>2
  <2>3. ASSUME NEW x \in E \ {m} PROVE \E i \in D : at[i] = x
    <3>1. CASE x = N
      <4>1. m \in D
        BY <1>1, <1>2, <3>1
      <4> QED BY <4>1, <2>1, <3>1
    <3>2. CASE x # N
      <4>1. x \in D
        BY <1>2, <3>2
      <4> QED BY <4>1, <2>1
    <3> QED BY <3>1, <3>2
  <2> HIDE DEF at
  <2>4. \A i, j \in D : at[i] = at[j] => i = j
    BY <2>1, <1>2
  <2> QED BY <2>2, <2>3, <2>4
<1>4. rest \in [D -> Nat] /\ \A i \in D : rest[i] = Q[at[i]]
  BY <1>2, <1>3
<1> HIDE DEF at, rest
<1>5. PICK q : Sorts(k, q, rest)
  <2>1. rest \in [1 .. k -> Nat]
    BY <1>4 DEF D
  <2> QED BY <2>1
<1>6. /\ q \in [D -> D]
      /\ \A i, j \in D : q[i] = q[j] => i = j
      /\ \A x \in D : \E i \in D : q[i] = x
      /\ \A i, j \in D : i < j => rest[q[i]] <= rest[q[j]]
  <2>1. /\ q \in Bijection(D, D)
        /\ \A i, j \in D : i < j => rest[q[i]] <= rest[q[j]]
    BY <1>5 DEF Sorts, D
  <2>2. /\ q \in [D -> D] /\ \A i, j \in DOMAIN q : q[i] = q[j] => i = j
        /\ \A x \in D : \E i \in D : q[i] = x
    BY <2>1 DEF Bijection, Injection, Surjection, IsInjective
  <2> QED BY <2>1, <2>2
<1> DEFINE p == [i \in E |-> IF i = N THEN m ELSE at[q[i]]]
<1>7. p[N] = m
  BY <1>2
<1>8. ASSUME NEW i \in D
      PROVE  i \in E /\ q[i] \in D /\ p[i] = at[q[i]] /\ p[i] \in E /\ p[i] # m
  <2>1. q[i] \in D /\ i \in E /\ i # N
    BY <1>2, <1>6
  <2>2. at[q[i]] \in E \ {m}
    BY <2>1, <1>3
  <2> QED BY <2>1, <2>2
<1>9. p \in [E -> E]
  <2>1. \A i \in E : p[i] \in E
    BY <1>1, <1>2, <1>7, <1>8
  <2> QED BY <2>1
<1> HIDE DEF p
<1>10. ASSUME NEW i \in E, NEW j \in E, p[i] = p[j] PROVE i = j
  <2>1. CASE i \in D /\ j \in D
    <3>1. at[q[i]] = at[q[j]] /\ q[i] \in D /\ q[j] \in D
      BY <2>1, <1>8, <1>10
    <3>2. q[i] = q[j]
      BY <3>1, <1>3
    <3> QED BY <3>2, <2>1, <1>6
  <2>2. CASE i = N \/ j = N
    BY <2>2, <1>2, <1>7, <1>8, <1>10
  <2> QED BY <2>1, <2>2, <1>2
<1>11. ASSUME NEW x \in E PROVE \E i \in E : p[i] = x
  <2>1. CASE x = m
    BY <2>1, <1>2, <1>7
  <2>2. CASE x # m
    <3>1. PICK y \in D : at[y] = x
      BY <2>2, <1>3
    <3>2. PICK i \in D : q[i] = y
      BY <1>6
    <3>3. p[i] = x /\ i \in E
      BY <3>1, <3>2, <1>8
    <3> QED BY <3>3
  <2> QED BY <2>1, <2>2
<1>12. ASSUME NEW i \in E, NEW j \in E, i < j PROVE Q[p[i]] <= Q[p[j]]
  <2>1. i \in D
    BY <1>2, <1>12
  <2>2. CASE j = N
    BY <2>1, <2>2, <1>1, <1>7, <1>8
  <2>3. CASE j \in D
    <3>1. rest[q[i]] <= rest[q[j]]
      BY <2>1, <2>3, <1>6, <1>12
    <3>2. rest[q[i]] = Q[p[i]] /\ rest[q[j]] = Q[p[j]]
      BY <2>1, <2>3, <1>4, <1>8
    <3> QED BY <3>1, <3>2
  <2> QED BY <2>2, <2>3, <1>2
<1>13. p \in Bijection(E, E)
  BY <1>9, <1>10, <1>11 DEF Bijection, Injection, Surjection, IsInjective
<1>14. Sorts(k + 1, p, Q)
  BY <1>12, <1>13 DEF Sorts, E
<1> QED BY <1>14

LEMMA SortingExists ==
  ASSUME NEW n \in Nat, NEW R \in [1 .. n -> Nat]
  PROVE  \E p : Sorts(n, p, R)
<1> DEFINE S == {k \in Nat : \A Q \in [1 .. k -> Nat] : \E p : Sorts(k, p, Q)}
<1>1. 0 \in S
  <2> SUFFICES ASSUME NEW Q \in [1 .. 0 -> Nat] PROVE \E p : Sorts(0, p, Q)
    OBVIOUS
  <2>1. Sorts(0, [i \in 1 .. 0 |-> i], Q)
    BY DEF Sorts, Bijection, Injection, Surjection, IsInjective
  <2> QED BY <2>1
<1>2. ASSUME NEW k \in Nat, k \in S PROVE k + 1 \in S
  <2>1. \A Q \in [1 .. k -> Nat] : \E p : Sorts(k, p, Q)
    BY <1>2
  <2>2. \A Q \in [1 .. k + 1 -> Nat] : \E p : Sorts(k + 1, p, Q)
    BY <2>1, SortOneMore
  <2> QED BY <2>2
<1>3. Nat \subseteq S
  <2> HIDE DEF S
  <2> QED BY <1>1, <1>2, SetInduction
<1> QED BY <1>3

\* Canonical puts a list in order and loses nothing of it.
LEMMA CanonicalSorts ==
  ASSUME NEW list \in Seq(Families)
  PROVE  \E p \in Bijection(DOMAIN list, DOMAIN list) :
           /\ Canonical(list) = [i \in DOMAIN list |-> list[p[i]]]
           /\ InOrder(Canonical(list))
<1> DEFINE n == Len(list)
           R == [i \in 1 .. n |-> Rank[list[i].id]]
<1>1. n \in Nat /\ DOMAIN list = 1 .. n /\ \A i \in 1 .. n : list[i].id \in Ids
  <2>1. n \in Nat /\ DOMAIN list = 1 .. n /\ \A i \in 1 .. n : list[i] \in Families
    OBVIOUS
  <2> QED BY <2>1 DEF Families
<1>2. R \in [1 .. n -> Nat]
  BY <1>1, PolicyAssumption
<1>3. \E p : Sorts(n, p, R)
  <2> HIDE DEF n, R
  <2> QED BY <1>1, <1>2, SortingExists
<1>4. PICK p : Sorts(n, p, R)
  BY <1>3
<1>5. p \in Bijection(1 .. n, 1 .. n) /\ p \in [1 .. n -> 1 .. n]
  BY <1>4 DEF Sorts, Bijection, Injection
<1> DEFINE h == [i \in DOMAIN list |-> list[p[i]]]
<1>6. h \in Permuted(list)
  BY <1>1, <1>5 DEF Permuted
<1>7. InOrder(h)
  <2> SUFFICES ASSUME NEW i \in 1 .. n, NEW j \in 1 .. n, i < j
               PROVE  Rank[h[i].id] <= Rank[h[j].id]
    BY <1>1 DEF InOrder
  <2>1. R[p[i]] <= R[p[j]]
    BY <1>4 DEF Sorts
  <2>2. p[i] \in 1 .. n /\ p[j] \in 1 .. n
    BY <1>5
  <2> QED BY <2>1, <2>2, <1>1
<1> HIDE DEF h
<1>8. Canonical(list) \in Permuted(list) /\ InOrder(Canonical(list))
  BY <1>6, <1>7 DEF Canonical
<1> QED BY <1>8 DEF Permuted

\* A list of families of C whose ids ascend.
Climbs(n, C, g) ==
  g \in [1 .. n -> C]
    /\ \A i, j \in 1 .. n : i < j => Rank[g[i].id] < Rank[g[j].id]

\* Of two such lists neither can have the smaller id where they first differ.
LEMMA NoFirstDifference ==
  ASSUME NEW n \in Nat, NEW C, \A f \in C : Rank[f.id] \in Nat,
         NEW g, NEW h, Climbs(n, C, g), Climbs(n, C, h),
         \A f \in C : \E j \in 1 .. n : h[j] = f,
         NEW i \in 1 .. n, \A j \in 1 .. n : j < i => g[j] = h[j]
  PROVE  ~ (Rank[g[i].id] < Rank[h[i].id])
<1> SUFFICES ASSUME Rank[g[i].id] < Rank[h[i].id] PROVE FALSE
  OBVIOUS
<1>1. g[i] \in C /\ h[i] \in C
  BY DEF Climbs
<1>2. PICK j \in 1 .. n : h[j] = g[i]
  BY <1>1
<1>3. CASE j < i
  <2>1. g[j] = g[i] /\ Rank[g[j].id] < Rank[g[i].id]
    BY <1>2, <1>3 DEF Climbs
  <2> QED BY <2>1, <1>1
<1>4. CASE j = i
  BY <1>1, <1>2, <1>4
<1>5. CASE i < j
  <2>1. Rank[h[i].id] < Rank[g[i].id]
    BY <1>2, <1>5 DEF Climbs
  <2> QED BY <2>1, <1>1
<1> QED BY <1>3, <1>4, <1>5

Enumerates(n, C, g) == Climbs(n, C, g) /\ \A f \in C : \E j \in 1 .. n : g[j] = f

DifferentIds(C) == \A f, g \in C : f.id = g.id => f = g

\* A set of families with different ids has one enumeration that climbs.
LEMMA OneEnumeration ==
  ASSUME NEW n \in Nat, NEW C \in SUBSET Families, DifferentIds(C),
         NEW g, NEW h, Enumerates(n, C, g), Enumerates(n, C, h)
  PROVE  g = h
<1> USE DEF Enumerates, DifferentIds
<1>1. \A f \in C : f.id \in Ids /\ Rank[f.id] \in Nat
  BY PolicyAssumption DEF Families
<1>2. g \in [1 .. n -> C] /\ h \in [1 .. n -> C]
  BY DEF Climbs
<1> SUFFICES ASSUME g # h PROVE FALSE
  OBVIOUS
<1> DEFINE T == {i \in 1 .. n : g[i] # h[i]}
<1>3. T \in SUBSET Nat /\ T # {}
  <2>1. \E i \in 1 .. n : g[i] # h[i]
    BY <1>2
  <2>2. T \in SUBSET Nat
    OBVIOUS
  <2> QED BY <2>1, <2>2
<1>4. PICK i \in T : \A j \in T : i <= j
  <2> HIDE DEF T
  <2> QED BY <1>3, LeastOf
<1>5. i \in 1 .. n /\ g[i] # h[i] /\ \A j \in 1 .. n : j < i => g[j] = h[j]
  BY <1>4
<1>6. g[i] \in C /\ h[i] \in C
  BY <1>2, <1>5
<1>7. Rank[g[i].id] # Rank[h[i].id]
  BY <1>1, <1>5, <1>6, PolicyAssumption
<1>8. ~ (Rank[g[i].id] < Rank[h[i].id])
  BY <1>1, <1>5, NoFirstDifference
<1>9. ~ (Rank[h[i].id] < Rank[g[i].id])
  BY <1>1, <1>5, NoFirstDifference
<1> QED BY <1>1, <1>6, <1>7, <1>8, <1>9

\* When it ends, the loop has handled the whole response.
LEMMA AllHandled ==
  Spec => [](outcome # "running" => done = Len(models))
<1> DEFINE I == outcome # "running" => done = Len(models)
<1>1. Init => I
  BY DEF Init
<1>2. ASSUME I, [Next]_vars PROVE I'
  <2>1. CASE Duplicate \/ Reject \/ Include
    BY <1>2, <2>1 DEF Duplicate, Reject, Include, NextRecord
  <2>2. CASE SkipEmpty \/ BuildSnapshot
    BY <1>2, <2>2 DEF SkipEmpty, BuildSnapshot, LoopEnds
  <2>3. CASE UNCHANGED vars
    BY <1>2, <2>3 DEF vars
  <2> QED BY <1>2, <2>1, <2>2, <2>3 DEF Next
<1> QED
  BY <1>1, <1>2, PTL DEF Spec

\* "so the same catalogue content always yields the same snapshot id": what is
\* hashed is the one ascending enumeration of the content, for every policy and
\* every response in which no two records share an id.
THEOREM HashedInOneOrder == Spec => []ContentOrderFree
<1> DEFINE Handled == outcome # "running" => done = Len(models)
<1>1. ASSUME LoopInv, FirstInv, Handled PROVE ContentOrderFree
  <2> DEFINE C == {[id |-> r.id, tasks |-> TasksOf(r.useCase)] :
                     r \in {r \in ToSet(models) : Excluded(r) = {}}}
             n == Len(families)
             h == Canonical(families)
  <2> SUFFICES ASSUME outcome = "snapshot",
                      \A i, j \in DOMAIN models : models[i].id = models[j].id => i = j
               PROVE  h = Ascending(C)
    BY DEF ContentOrderFree
  <2>1. /\ done = Len(models) /\ models \in Seq(Records) /\ families \in Seq(Families)
        /\ n \in Nat /\ DOMAIN families = 1 .. n /\ DOMAIN models = 1 .. done
    BY <1>1 DEF LoopInv
  <2>2. \A i \in 1 .. done : FirstOfId(i)
    BY <2>1 DEF FirstOfId
  <2>3. ToSet(models) = {models[i] : i \in 1 .. done}
    BY <2>1 DEF ToSet
  <2>4. \A f : f \in C <=> \E i \in 1 .. done : Excluded(models[i]) = {} /\ f = FamilyOf(i)
    BY <2>3 DEF FamilyOf
  <2>5. /\ \A k \in 1 .. n : families[k] \in C
        /\ \A f \in C : \E k \in 1 .. n : families[k] = f
    <3>1. ASSUME NEW k \in 1 .. n PROVE families[k] \in C
      <4>1. PICK i \in 1 .. done : Admitted(i) /\ families[k] = FamilyOf(i)
        BY <1>1, <2>1 DEF FirstInv
      <4> QED BY <4>1, <2>4 DEF Admitted
    <3>2. ASSUME NEW f \in C PROVE \E k \in 1 .. n : families[k] = f
      <4>1. PICK i \in 1 .. done : Excluded(models[i]) = {} /\ f = FamilyOf(i)
        BY <2>4
      <4>2. Admitted(i)
        BY <4>1, <2>2 DEF Admitted
      <4> QED BY <4>1, <4>2, <1>1, <2>1 DEF FirstInv
    <3> QED BY <3>1, <3>2
  <2> HIDE DEF C
  <2>6. C \in SUBSET Families
    BY <2>1, <2>5
  <2>7. \A i, j \in 1 .. n : families[i].id = families[j].id => i = j
    BY <1>1, <2>1 DEF LoopInv, Distinct
  <2>8. \A f, g \in C : f.id = g.id => f = g
    BY <2>5, <2>7
  <2>9. PICK p \in Bijection(1 .. n, 1 .. n) :
          h = [i \in 1 .. n |-> families[p[i]]] /\ InOrder(h)
    BY <2>1, CanonicalSorts
  <2> HIDE DEF n
  <2>10. /\ p \in [1 .. n -> 1 .. n]
         /\ \A i, j \in 1 .. n : p[i] = p[j] => i = j
         /\ \A k \in 1 .. n : \E i \in 1 .. n : p[i] = k
    BY DEF Bijection, Injection, Surjection, IsInjective
  <2> HIDE DEF h
  <2>11. h \in [1 .. n -> C] /\ \A i \in 1 .. n : h[i] = families[p[i]]
    BY <2>5, <2>9, <2>10
  <2>12. ASSUME NEW i \in 1 .. n, NEW j \in 1 .. n, h[i].id = h[j].id PROVE i = j
    <3>1. /\ p[i] \in 1 .. n /\ p[j] \in 1 .. n
          /\ families[p[i]].id = families[p[j]].id
      BY <2>10, <2>11, <2>12
    <3>2. p[i] = p[j]
      BY <2>7, <3>1
    <3> QED BY <2>10, <3>2
  <2>13. Climbs(n, C, h)
    <3>1. \A i, j \in 1 .. n : i < j => Rank[h[i].id] <= Rank[h[j].id]
      BY <2>9, <2>11 DEF InOrder
    <3>2. ASSUME NEW i \in 1 .. n, NEW j \in 1 .. n, i < j
          PROVE  Rank[h[i].id] < Rank[h[j].id]
      <4>1. h[i].id \in Ids /\ h[j].id \in Ids /\ h[i].id # h[j].id
        BY <3>2, <2>6, <2>11, <2>12 DEF Families
      <4> QED BY <3>1, <3>2, <4>1, PolicyAssumption
    <3> QED BY <3>2, <2>11 DEF Climbs
  <2>14. ASSUME NEW f \in C PROVE \E j \in 1 .. n : h[j] = f
    <3>1. PICK k \in 1 .. n : families[k] = f
      BY <2>5
    <3>2. PICK j \in 1 .. n : p[j] = k
      BY <2>10
    <3> QED BY <3>1, <3>2, <2>11
  <2>15. IsFiniteSet(C) /\ Cardinality(C) = n
    <3>1. h \in Bijection(1 .. n, C)
      <4>1. \A i, j \in 1 .. n : h[i] = h[j] => i = j
        BY <2>12
      <4>2. h \in Injection(1 .. n, C)
        BY <4>1, <2>11 DEF Injection, IsInjective
      <4>3. h \in Surjection(1 .. n, C)
        BY <2>11, <2>14 DEF Surjection
      <4> QED BY <4>2, <4>3 DEF Bijection
    <3>2. ExistsBijection(1 .. n, C)
      BY <3>1 DEF ExistsBijection
    <3>3. IsFiniteSet(C)
      BY <3>2, <2>1, FS_NatBijection
    <3> QED BY <3>2, <3>3, <2>1, FS_CountingElements
  <2> DEFINE e == Ascending(C)
  <2>16. Climbs(n, C, e)
    <3>1. \A s : s \in [1 .. n -> C] => DOMAIN s = 1 .. n
      OBVIOUS
    <3>2. e = CHOOSE s \in [1 .. n -> C] :
                \A i, j \in DOMAIN s : i < j => Rank[s[i].id] < Rank[s[j].id]
      BY <2>15 DEF Ascending
    <3>3. \E s \in [1 .. n -> C] :
                \A i, j \in DOMAIN s : i < j => Rank[s[i].id] < Rank[s[j].id]
      BY <3>1, <2>13 DEF Climbs
    <3> HIDE DEF e
    <3>4. e \in [1 .. n -> C]
          /\ \A i, j \in DOMAIN e : i < j => Rank[e[i].id] < Rank[e[j].id]
      BY <3>2, <3>3
    <3> QED BY <3>1, <3>4 DEF Climbs
  <2> HIDE DEF e
  <2>17. \A f \in C : \E j \in 1 .. n : e[j] = f
    <3>1. e \in [1 .. n -> C] /\ \A i, j \in 1 .. n : e[i] = e[j] => i = j
      <4>1. e \in [1 .. n -> C]
        BY <2>16 DEF Climbs
      <4>2. ASSUME NEW i \in 1 .. n, NEW j \in 1 .. n, i < j PROVE e[i] # e[j]
        <5>1. Rank[e[i].id] \in Nat /\ Rank[e[i].id] < Rank[e[j].id]
          BY <4>1, <4>2, <2>6, <2>16, PolicyAssumption DEF Climbs, Families
        <5> QED BY <5>1
      <4>3. \A i, j \in 1 .. n : i < j \/ j < i \/ i = j
        OBVIOUS
      <4> QED BY <4>1, <4>2, <4>3
    <3>2. e \in Injection(1 .. n, C)
      BY <3>1 DEF Injection, IsInjective
    <3>3. Cardinality(1 .. n) = n
      BY <2>1, FS_Interval
    <3>4. e \in Surjection(1 .. n, C)
      BY <3>2, <3>3, <2>15, FS_Injection
    <3> QED BY <3>4 DEF Surjection
  <2>18. h = e
    <3>1. Enumerates(n, C, h) /\ Enumerates(n, C, e) /\ DifferentIds(C)
      BY <2>8, <2>13, <2>14, <2>16, <2>17 DEF Enumerates, DifferentIds
    <3> QED BY <3>1, <2>1, <2>6, OneEnumeration
  <2> QED BY <2>18 DEF e
<1>2. Init => FirstInv
  BY DEF Init, FirstInv
<1> QED
  BY <1>1, <1>2, LoopInit, LoopNext, FirstNext, AllHandled, PTL DEF Spec

=============================================================================
