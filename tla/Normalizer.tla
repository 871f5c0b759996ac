----------------------------- MODULE Normalizer -----------------------------
(***************************************************************************)
(* normalise_response (src/sync/normalizer.py) under a catalog policy      *)
(* (src/sync/catalog_policy.py), and what sync_catalog does with the       *)
(* result: no family, no snapshot; otherwise SnapshotMeta and              *)
(* CatalogSnapshot are built from it, outside every try block.             *)
(*                                                                         *)
(* A record is its id and its useCase tags; of a family the id and the     *)
(* tasks are kept, the descriptive fields are left out.                    *)
(***************************************************************************)
EXTENDS Naturals, FiniteSets, SequencesExt

CONSTANTS
  Ids,         \* record ids
  Blanks,      \* those that are empty or only spaces
  Empty,       \* the empty one
  Placeholder, \* "(empty)"
  Rank,        \* the place of each id in the order of strings
  Tags,        \* external useCase tags
  Tasks,       \* internal tasks
  Mapping,     \* use_case_mapping; a tag it does not list maps to <<>>
  OutOfScope,  \* out_of_scope_tags
  MaxRecords,  \* bound: records in a response
  MaxTags      \* bound: tags of a record

ASSUME PolicyAssumption ==
  /\ Blanks \subseteq Ids /\ Empty \in Blanks
  /\ Rank \in [Ids -> Nat] /\ \A x, y \in Ids : Rank[x] = Rank[y] => x = y
  /\ OutOfScope \subseteq Tags
  /\ Mapping \in [Tags -> Seq(Tasks)]
  /\ MaxRecords \in Nat /\ MaxTags \in Nat

VARIABLES
  rules,       \* validity_rules of the policy
  models,      \* response.models
  done,        \* how many of them the loop has handled
  seen,        \* seen_ids
  families,    \* result.families
  exclusions,  \* result.exclusions
  outcome      \* what sync_catalog makes of the result

vars == <<rules, models, done, seen, families, exclusions, outcome>>

UpTo(n, S) == UNION {[1 .. k -> S] : k \in 0 .. n}

Rules    == [nonEmptyId : BOOLEAN, supportedTask : BOOLEAN]
Records  == [id : Ids, useCase : UpTo(MaxTags, Tags)]
Families == [id : Ids, tasks : Seq(Tasks)]
Reasons  == {"duplicate_id", "empty_id", "out_of_scope", "no_supported_task"}
Exclusions == [id : Ids \cup {Placeholder}, reason : Reasons]
Outcomes == {"running", "empty_catalog", "snapshot", "raised"}

Init ==
  /\ rules \in Rules
  /\ models \in UpTo(MaxRecords, Records)
  /\ done = 0
  /\ seen = {}
  /\ families = <<>>
  /\ exclusions = <<>>
  /\ outcome = "running"

\* tasks_from_use_cases: in the order of the tags, each task once.
AddTask(tasks, task) == IF task \in ToSet(tasks) THEN tasks ELSE Append(tasks, task)
AddTasks(tasks, tag) == FoldLeft(AddTask, tasks, Mapping[tag])
TasksOf(useCase)     == FoldLeft(AddTasks, <<>>, useCase)

\* A slip to catch: any out-of-scope tag excludes, and is given as the reason.
ExcludedByTag(record) == ToSet(record.useCase) \cap OutOfScope

\* normalise_record: the reasons for which it excludes a record, none of
\* them if it makes a family of it.
Excluded(record) ==
  IF rules.nonEmptyId /\ record.id \in Blanks THEN {"empty_id"}
  ELSE IF rules.supportedTask /\ TasksOf(record.useCase) = <<>>
  THEN IF ToSet(record.useCase) \cap OutOfScope # {}
       THEN {"out_of_scope"} ELSE {"no_supported_task"}
  ELSE {}

Record == models[done + 1]

NextRecord ==
  /\ outcome = "running"
  /\ done < Len(models)
  /\ done' = done + 1
  /\ UNCHANGED <<rules, models, outcome>>

\* The exclusion of an empty id has the placeholder for it; that of an id of
\* spaces keeps the id, and so does a later exclusion of the same empty id as
\* a duplicate, or one for another reason.
RecordId(reason) ==
  IF reason = "empty_id" /\ Record.id = Empty THEN Placeholder ELSE Record.id

Exclude(reason) ==
  /\ exclusions' = Append(exclusions, [id |-> RecordId(reason), reason |-> reason])
  /\ UNCHANGED families

\* Slips to catch: forget the duplicate; trust the ids of the response.
DropDuplicate == NextRecord /\ Record.id \in seen /\ UNCHANGED <<seen, families, exclusions>>
KeepDuplicate ==
  /\ NextRecord
  /\ Record.id \in seen
  /\ families' = Append(families, [id |-> Record.id, tasks |-> TasksOf(Record.useCase)])
  /\ UNCHANGED <<seen, exclusions>>

\* An id that an earlier record had, whatever became of that record.
Duplicate ==
  /\ NextRecord
  /\ Record.id \in seen
  /\ Exclude("duplicate_id")
  /\ UNCHANGED seen

\* A slip to catch: only the ids of families count as seen.
RejectUnseen ==
  /\ NextRecord
  /\ Record.id \notin seen
  /\ \E reason \in Excluded(Record) : Exclude(reason)
  /\ UNCHANGED seen

\* The policy excludes the record.
Reject ==
  /\ NextRecord
  /\ Record.id \notin seen
  /\ seen' = seen \cup {Record.id}
  /\ \E reason \in Excluded(Record) : Exclude(reason)

\* The record becomes a family.
Include ==
  /\ NextRecord
  /\ Record.id \notin seen
  /\ seen' = seen \cup {Record.id}
  /\ Excluded(Record) = {}
  /\ families' = Append(families, [id |-> Record.id, tasks |-> TasksOf(Record.useCase)])
  /\ UNCHANGED exclusions

LoopEnds ==
  /\ outcome = "running"
  /\ done = Len(models)
  /\ UNCHANGED <<rules, models, done, seen, families, exclusions>>

\* included_count is zero.
SkipEmpty ==
  /\ LoopEnds
  /\ families = <<>>
  /\ outcome' = "empty_catalog"

\* A slip to catch: the families are hashed as they come.
AsTheyCome(list) == list

\* compute_content_hash: what is hashed, the families sorted by their ids.
InOrder(list) ==
  \A i, j \in DOMAIN list : i < j => Rank[list[i].id] <= Rank[list[j].id]
Permuted(list) ==
  {[i \in DOMAIN list |-> list[p[i]]] : p \in Bijection(DOMAIN list, DOMAIN list)}
Canonical(list) == CHOOSE sorted \in Permuted(list) : InOrder(sorted)

\* The validators of SnapshotMeta and CatalogSnapshot that speak of the
\* lists; the hash is the one they recompute.  Of the rest, constants, the
\* clock and the policy file decide, not the loop.
Balanced == Len(models) = Len(families) + Len(exclusions)
Distinct == \A i, j \in DOMAIN families : families[i].id = families[j].id => i = j

\* The snapshot is built; a validator that fails raises out of sync_catalog.
BuildSnapshot ==
  /\ LoopEnds
  /\ families # <<>>
  /\ outcome' = IF Balanced /\ Distinct THEN "snapshot" ELSE "raised"

Next == Duplicate \/ Reject \/ Include \/ SkipEmpty \/ BuildSnapshot

Spec == Init /\ [][Next]_vars

-----------------------------------------------------------------------------

\* Type invariant: every variable keeps to the values the code gives it.
TypeOK ==
  /\ rules \in Rules
  /\ models \in Seq(Records)
  /\ done \in 0 .. Len(models)
  /\ seen \subseteq Ids
  /\ families \in Seq(Families)
  /\ exclusions \in Seq(Exclusions)
  /\ outcome \in Outcomes

\* "Every record in response.models contributes to exactly one of families/
\* exclusions": at every turn of the loop the two lists together are as long as
\* the part of the response that it has handled, and hold, id by id, as many
\* entries as there were records.  The empty id counts with the placeholder,
\* since its first exclusion and those of its duplicates name it differently.
Named(id) == IF id = Empty THEN Placeholder ELSE id
Under(list, x, n) == {i \in 1 .. n : Named(list[i].id) = x}
EachRecordOnce ==
  /\ done = Len(families) + Len(exclusions)
  /\ \A x \in Ids \cup {Placeholder} :
        Cardinality(Under(models, x, done)) =
          Cardinality(Under(families, x, Len(families)))
            + Cardinality(Under(exclusions, x, Len(exclusions)))

\* The invariants that the models SnapshotMeta and CatalogSnapshot enforce
\* hold of whatever the loop collected: building the snapshot, which no try
\* block guards, never raises, under a policy whose version is not blank.
SnapshotAccepted == outcome # "raised"

\* Of the records with one id the first alone decides whether and with which
\* tasks the id gets into the catalogue.
Having(list, x, n) == {i \in 1 .. n : list[i].id = x}
FirstRecordDecides ==
  \A x \in Ids :
     LET first == {i \in Having(models, x, done) :
                      \A j \in 1 .. i - 1 : models[j].id # x} IN
     {f.tasks : f \in {g \in ToSet(families) : g.id = x}} =
       {TasksOf(models[i].useCase) : i \in {k \in first : Excluded(models[k]) = {}}}

\* "so the same catalogue content always yields the same snapshot id": when no
\* two records share an id, what is hashed depends on which records the
\* response has and not on their order, although the loop collects them in it:
\* it is the one enumeration of the content in which the ids ascend.
Ascending(content) ==
  CHOOSE list \in [1 .. Cardinality(content) -> content] :
    \A i, j \in DOMAIN list : i < j => Rank[list[i].id] < Rank[list[j].id]
ContentOrderFree ==
  LET included == {r \in ToSet(models) : Excluded(r) = {}}
      content  == {[id |-> r.id, tasks |-> TasksOf(r.useCase)] : r \in included} IN
  outcome = "snapshot" /\ (\A i, j \in DOMAIN models : models[i].id = models[j].id => i = j)
     => Canonical(families) = Ascending(content)

=============================================================================
