# Verification of local-model-advisor

TLA+ models of the stateful parts of local-model-advisor, the TLC runs that
check them on small instances, and theorems about them that TLAPS checks for
every instance. Paths are relative to the repository; `src/sync/...` is
abbreviated where no doubt is possible.

## 1. The system

local-model-advisor recommends local language models. It has a synchronisation
side, which downloads a catalogue of models, filters it by a versioned policy and
keeps it on disk as immutable snapshots with a small manifest, and a serving
side, a FastAPI endpoint that takes criteria, ranks families of models and keeps
each conversation in a SQLite row for 24 hours.

| Component | State | Operations | What is hard | What makes it correct |
|---|---|---|---|---|
| catalogue directory (`src/sync/snapshot.py`) | `{id}.json`, `current.json`, their `.tmp` siblings | `write_snapshot`, `update_manifest`, `read_snapshot`, `read_manifest`, `load_active_snapshot` | crashes and failing calls between any two system calls, shared temporary names, readers between two rotations, damage, power loss | names lead to complete documents, snapshots never change, the manifest never dangles, readers get what it names |
| synchronisation (`src/sync/catalog_sync.py`) | the call's own position; the directory | `sync_catalog` | one of several steps failing; overlapping calls; files that are in the way | a failed call changes nothing that was there, a successful one rotates and remembers the fallback, a lost manifest comes back |
| normaliser, policy (`normalizer.py`, `catalog_policy.py`) | `seen_ids`, families, exclusions | `normalise_response`, `normalise_record` | duplicates against exclusions; its result is validated far away, outside any `try` | each record counted once, result accepted by the snapshot validators |
| conversation store (`src/state/conversation_store.py`) | table `conversation_runs` | `guardar`, `cargar`, `eliminar`, `limpiar_expiradas` | each is a transaction of its own; expiry decided on a row read earlier | living rows are not deleted, an answer can be followed up |
| chat endpoint (`src/api/main.py`) | per request: id, criteria | `POST /chat` | FastAPI runs it in a thread pool | the criteria of a conversation never change |
| bootstrap (`src/sync/bootstrap.py`) | `data/catalog_bootstrap.json` and its `.tmp` sibling; the call's position | `promote_snapshot_to_bootstrap`, `load_bootstrap` | the same write protocol; what may be replaced is decided by a look long before the move; the file is in a git tree that others edit | what the call found is replaced only on request, and anything only by what was validated; a failure leaves it as it was |
| recommendation (`recommend_pipeline.py`, `structured_filter.py`, `scorer.py`, `provider.py`) | per call: the candidates, their scores, the answer | `ejecutar_pipeline`, `filtrar_candidatos`, `CanIRunProvider.check`, `calcular_puntuacion`, `ordenar_por_puntuacion` | three-valued compatibility from a service that may not answer; boundary arithmetic under a validator; ties at the cut | every eligible family considered, the answer the best of them in a stable order, scoring never raises |

How they interact: `sync_catalog` calls the normaliser and then the functions of
`snapshot.py`; `promote_snapshot_to_bootstrap` reads a snapshot file; the chat
endpoint calls the pipeline and the store. The pipeline still reads
`data/families_seed.yaml`: nothing in the program calls `load_active_snapshot` or
`sync_catalog` yet, and the repository's README plans a task of the OS scheduler
for the latter. Whether two synchronisations ever overlap is thus up to whoever
calls them; the code takes no lock, so both cases are modelled, and every result
says to which one it applies.

## 2. The modules

```
ActiveCatalog <--- implemented by ---- CatalogSync ---- EXTENDS ---->+
                                                                     | AtomicFile
                                       Bootstrap ------ EXTENDS ---->+
Normalizer          ChatService        Recommend

ActiveCatalogProofs, CatalogSyncProofs <- CatalogFaultProofs <- CatalogSerialProofs,
BootstrapProofs, NormalizerProofs, ChatServiceProofs, RecommendProofs: theorems
MCCatalogSync, MCBootstrap, MCNormalizer, MCChatService, MCRecommend: instances for TLC
```

**AtomicFile** is the write protocol of `snapshot.py` (and of `bootstrap.py`): open
`t.tmp` (creating or truncating it), write, read back and validate, `os.replace`,
and in `finally` unlink whatever `t.tmp` is. One action per system call. `file[t]`
and `temp[t]` are what the two names hold: `Absent`, `Partial`, a document, or
garbage (`Torn`, text that does not validate; `Undecodable`, bytes that are not
UTF-8). A writer's descriptor follows its file through `os.replace` and `unlink`,
hence `fd[p]` says where that file can be reached now (`temp`, `file`, `lost`);
this is what lets a late write of one process land in a file another process has
already published. Two writers in one file leave either's document or a mixture.

**CatalogSync** is `sync_catalog` and `load_active_snapshot` over that protocol. `pc`
follows a call: `FetchFails` / `FetchCatalogue` (lines 99-150), `ProbeExisting` /
`ProbeAbsent` (154-171), `CreateSnapshot` (the second existence test and `mkdir` of
`write_snapshot`), `TryStep` (the protocol), `LeaveSave` (its `finally` and the
caller's `except`), `ReadManifest` (read, compare, start the rotation),
`RotateFails`, `LeaveRotate`. A call ends as its `SyncResult` says, or with `raised`
when an exception leaves it: only `OSError` is caught there. Readers read the
manifest and its two candidates in separate steps. The environment crashes
processes, makes system calls fail, damages files, writes names and data back and
loses power; a cut leaves of each name not written back (`older`) its file, a torn one or
what it led to before, each name for itself. `FaultKinds` says which of these an instance
allows and `MaxFaults` bounds their number. A snapshot id stands for the content hash; the header, which is not
hashed, is a member of `Metas`, so that two documents with one id can differ.

**ActiveCatalog** is what the directory means: a set of published snapshots, the
active id and the previous one. CatalogSync refines it with `published` the set
of snapshot files and the two ids read off the manifest.

**Normalizer** runs the loop of `normalise_response` over every response up to a
bound, under every combination of the two validity rules the code consults
(`require_unique_id` is loaded and never consulted), and then builds the snapshot
as `sync_catalog` does (lines 121-150). `Canonical` is what `compute_content_hash`
hashes: the families sorted by id; a record stands for its id and its tags, and
`Rank` for the order of the ids as strings. `RecordId` is the id an exclusion names:
line 79 writes `record.id or "(empty)"`, so the first exclusion of the empty id names the
placeholder, while an id of spaces is named as it is, and a duplicate of the empty id
(line 136) is named with the empty id again. `EachRecordOnce` counts under `Named`, which
takes the two for one.

**ChatService** runs POST /chat in several threads. Every store operation opens its own
connection, so `cargar` is three steps: the SELECT, the age test, and possibly the
DELETE by id. `Expired` is the test of `cargar`, on dates; `Outdated` that of
`limpiar_expiradas`, on the text of the dates, whose order is that of the dates because
both texts are in UTC. `PipelineFails` and `StoreFails` end a request with a 500. Time is a
counter; a row is its criteria and its age. The history
variables `promise` and `known` record what clients were told.

**Bootstrap** is `promote_snapshot_to_bootstrap` as a second client of AtomicFile, with one
target name. `ReadSource` is lines 74-89 (any content under any stem may be offered),
`ProbeTarget` the refusal at 91 and the `mkdir`, `TryStep` the protocol, `LeavePromotion`
its `finally` and the exception that ends the call. `Ends` says which exceptions become
a `BootstrapError` (`refused`) and which leave as they are (`raised`). `Edit` is
whoever else works in the git tree: the file may be put there, changed or removed at any
moment, also between the look at line 91 and the move at 102, and the history variable
`appeared` remembers that it was put there in that gap. `Edit` waits only while a call
is between its move and its return: that an edit in that instant makes an `ok` stale is
no statement about the code.

**Recommend** is one call of `ejecutar_pipeline`: load the families, filter them one by one
(`Skip`, `Ask`), score and order (`ScoreNext`), cut (`Return`). `Check` is
`CanIRunProvider.check`: a family without a mapping, an HTTP error, a timeout and an answer
that does not parse all give "unknown" without numbers. Sub-scores are in hundredths,
weights in percent, totals in units of 0.0001, to which the code rounds; quotients are
cut where floats keep more digits, so scores that differ by less than a hundredth of a
sub-score coincide here. The code scores all candidates and then calls `sorted`;
a stable descending sort is the insertion of each candidate after all that score at
least as much, and is modelled as that.

Definitions whose comment begins "A slip to catch" are variants of the
definition after them with a plausible mistake. Nothing uses them; substituting
one for that definition must make the property it is listed with fail
(PROJECT.json, "mutants").

## 3. The runs

| Run | Instance | Shows |
|---|---|---|
| sync_serial | 1 writer, 1 reader, 3 ids, 2 headers, 2 crashes or failed calls | complete files, immutable snapshots, two generations that load, right rotation and fallback, failures that lose nothing, readers served, refinement of ActiveCatalog |
| sync_damage | 1 writer, 1 reader, 3 ids, 1 fault of any kind but power loss, fairness | with two generations one still loads, and a reader gets one, however old its manifest; nothing loads under a wrong name; corrupt files are not overwritten; a lost manifest is written anew |
| sync_power | 1 writer, 2 ids, 2 headers, 2 power cuts or crashes | a call that says ok leaves a loadable active snapshot, even over files torn, or renames taken back, earlier |
| sync_concurrent | 2 writers, 2 ids, 1 failed call | the manifest never dangles, no `.tmp` stays |
| normalise | up to 3 records of up to 2 of 3 tags, 3 ids (empty, only spaces, an ordinary one), 4 rule sets | every record counted once, validators satisfied, first record of an id decides, what is hashed does not depend on the order of the records |
| chat_serial | 2 threads, 2 conversations, 2 criteria, TTL 1, clock to 4 | living rows stay, whichever of the two age tests decides, answers can be followed up, criteria never change |
| bootstrap | promotions one after another, 3 ids, 3 crashes, failed calls or edits | a bootstrap that loads keeps loading, is replaced only by what was validated and, unless it appeared after the call looked, only on request; what a call reports is what happened |
| recommend | up to 3 of 4 kinds of families, 6 answers and no answer, 5 requests, topN -1 to 2 | the answer is the best topN in a stable order, zero gets nothing and a negative number no answer, scoring never raises, a lighter model never scores lower |

Runs that end in a violation, each a disagreement between a sentence of the
repository and its code:

| Run | Disagreement |
|---|---|
| sync_torn | two synchronisations of one snapshot share `{id}.json.tmp`; the validated file is truncated before it is moved |
| sync_undecodable | a corrupt file raises `UnicodeDecodeError` instead of returning `None`; the fallback is not tried |
| chat_lost | `cargar` deletes by id on the strength of an old read, and takes a renewed row away |
| recommend_vram | the VRAM fit, by its comment "lower vram_required / available = better", divides by tokens per second: a model that needs less memory can fit worse |

What the passing runs deliberately do not claim, because the code does not do it:

- `FailureKeepsCatalogue` exempts files that were not there before the call: a failed
  manifest update leaves the new snapshot behind, although `sync_catalog` says the
  directory is then "left unchanged".
- `SnapshotsImmutable` is checked and proved for one writer (proved under every fault):
  with two, the same race as in sync_torn overwrites a published file. Bootstrap's
  theorems and its run are about one promotion at a time for the same reason; besides,
  of two promotions without the flag the later move replaces the earlier one's file.
- No property says that a snapshot is durable when the manifest names it, as a
  comment at `catalog_sync.py:184` has it: there is no `fsync`, and after a power
  cut the manifest can name a file that is torn or not there. What holds is `OkMeansLoadable`: the next
  call that says ok leaves a snapshot that loads.
- `FallbackServes` needs damage that leaves text, and two generations: a reader whose only
  snapshot is damaged gets nothing, and one that meets bytes that are not UTF-8 raises.
- `ManifestHeals` is checked for damage that leaves text: bytes that are not UTF-8 in
  `current.json` make `sync_catalog` itself raise, on every call.
- `FirstRecordDecides` is what the loop does: a record that the policy excludes takes
  its id with it, and a later record of that id is a duplicate even if it has a
  supported task.
- `ContentOrderFree` is about the order of the records. The tags and tasks inside one
  family are hashed in the order of the response, so permuted tags are other content.
- No property promises that a conversation goes on under the id given with a
  request for clarification: that id is not stored.
- `ReplacedOnRequest` exempts a bootstrap that others put in place between the look
  (line 91) and the move (102): a promotion without the flag replaces it, although the
  docstring "refuses to replace an existing bootstrap file". Without the exemption TLC
  finds that trace at once: the call finds no file, a checkout brings one, the move
  replaces it. What the look did find is never replaced without the flag.
- `EachRecordOnce` cannot count the empty id and "(empty)" apart: the code names one id in
  two ways.
- `CriteriaStable` is checked with one request of a conversation at a time and proved for
  any overlap. Which of two overlapping answers' rows stays is promised by nothing.
- After a rotation that could not read `current.json` there is no fallback
  (`RotationRemembers` excludes failing reads); no document says otherwise.
- The docstring of `promote_snapshot_to_bootstrap` announces `BootstrapError` for any
  step that fails. A `mkdir` that fails and bytes that are not UTF-8 leave it as
  `OSError` and `UnicodeDecodeError`; `load_bootstrap` raises the latter as well. The
  model has these ends (`raised`, `Undecodable`); no property says otherwise.
- `BestFirst` takes the filter and the weights as the code has them: "Apache 2.0" passes
  for a commercial licence and scores as an unknown one, the scorer asks for the tag
  `code` where the normaliser writes `codigo`, and a family of several tasks is matched
  by its one `pipeline_tag`. `LighterScoresBetter` compares two candidates that differ
  in nothing but the memory they need, because of what recommend_vram shows.

**Bounds.** Three ids are the least with an active snapshot, a fallback and a new
one. Two headers tell two documents of one id apart. Two writers show every
pairwise race: the protocol has no step that needs three. Two faults allow a
fault during the recovery from another; sync_damage has one, since two damaged
generations are more than the code means to survive. Two tags and three records
per response cover multitask records, and a duplicate of a family and of an
exclusion, that of the empty id included; the mapping of the instance has two tags with a common task so that the
dedupe of tasks happens. With TTL 1 and a clock up to 4 a row expires, is replaced,
and expires again. One promoter with three ids and three faults meets a sibling
file left by a crash, in the next promotion an edit, and a failing call in the
one after. In recommend the four kinds of families are one per branch of the filter
and the scorer, the answers lie below, at and above the speed and the 32 GB the
scorer compares with, and three families allow a tie on either side of the cut
after one or two. Where names are interchangeable the runs use symmetry; the one
with a liveness property does not.

**Fairness.** sync_damage runs `FairSpec`: weak fairness of the steps of a call that has
begun, which is straight-line code that waits for nothing, and of starting a call:
the policy asks for a synchronisation every 21 days, and the repository leaves it
to an external scheduler to do so. Nothing is assumed about which ids are fetched.
Without the second assumption nothing would ever be written anew. Fault counters
bound the faults, so faults stop; that is part of the reading of `ManifestHeals`.

**Deadlock** is checked for the CatalogSync and Bootstrap runs. ChatService's instance
has a clock and a supply of ids that end, Normalizer ends with its response and
Recommend with its answer, so their cfgs switch the check off.

## 4. The theorems

All are proved without assumptions beyond the named ASSUMEs of the modules
(names are told apart; a policy maps tags to sequences of tasks) and the
hypotheses stated. "Every fault" is every fault the modules have (sections 2 and 5).

| Theorem | Hypotheses | Says |
|---|---|---|
| `CatalogSyncProofs!TypeCorrect` | none | `[]TypeOK` |
| `CatalogSyncProofs!ManifestNeverDangles` | no "damage", no power cut | `[]ActiveIsPublished`, for any number of overlapping writers and readers |
| `CatalogSyncProofs!AnswersCarryTheirName` | none | `[]LoadSound`, under every fault, files exchanged for one another included |
| `CatalogSyncProofs!NoTemporaryStays` | no process dies | `[]NoTempLeft`, for any number of overlapping writers |
| `CatalogFaultProofs!SnapshotsStay` | one writer | `SnapshotsImmutable`, under every fault |
| `CatalogFaultProofs!SuccessLoads`, `!FailureChangesNothing` | one writer, no "damage" | `OkMeansLoadable`, `FailureKeepsCatalogue`, through power cuts and failing reads |
| `CatalogFaultProofs!SuccessRotates` | the same, no failing read | `RotationRemembers`, through power cuts |
| `CatalogFaultProofs!OneDamageSurvived` | one writer, at most one fault, not a power cut | `[]OneDamageSurvivable` |
| `CatalogFaultProofs!ReadersFallBack` | the same, damage leaves text | `[]FallbackServes`, for any number of readers |
| `CatalogSerialProofs!DirectoryComplete` | one writer; crashes and failed calls only | `[]PublishedComplete` |
| `CatalogSerialProofs!ReadersGetActive` | the same, no failing read | `[]ReaderGetsActive`, for any number of readers |
| `CatalogSerialProofs!SerialRefinement` | the same, no failing read | `ImplementsCatalogue` |
| `CatalogSerialProofs!GenerationsAlwaysLoad` | the same, no failing read | `[]GenerationsLoad` |
| `ActiveCatalogProofs!PointerAlwaysResolves`, `!IdsNameOneDocument` | `NoId` is no id | the abstract promises |
| `ChatServiceProofs!TypeCorrect`, `!CriteriaNeverChange` | none | `[]TypeOK`, `CriteriaStable`, for any overlapping requests |
| `ChatServiceProofs!AnswersStay`, `!OnlyExpiredDeleted` | one request of a conversation at a time | `[]AnswerRemembered`, `LivingRowsStay` |
| `NormalizerProofs!TypeCorrect` | none | `[]TypeOK`, for every policy and every response |
| `NormalizerProofs!SnapshotAlwaysAccepted` | none | `[]SnapshotAccepted` for every policy and every response of any length up to `MaxRecords`, itself arbitrary |
| `NormalizerProofs!RecordsCountedOnce`, `!FirstOneDecides` | none | `[]EachRecordOnce`, `[]FirstRecordDecides`, for the same |
| `NormalizerProofs!HashedInOneOrder` | none | `[]ContentOrderFree`, for the same |
| `BootstrapProofs!TypeCorrect`, `!BootstrapStays`, `!NeverReplacedUnasked`, `!FailureChangesNothing`, `!SuccessInstalls` | one promotion at a time | `[]TypeOK`, `StaysServable`, `ReplacedOnRequest`, `FailureKeepsBootstrap`, `OkInstalls`, under crashes, failing calls and edits at any moment but between a move and its return |
| `RecommendProofs!TypeCorrect`, `!AnswerIsBest`, `!ScoringSafe`, `!LighterNotLower` | none | `[]TypeOK`, `[]BestFirst`, `[]ScoringNeverFails`, `[]LighterScoresBetter`, for every catalogue, every answer of canirun.ai and every number asked for |

*ManifestNeverDangles.* `ActiveIsPublished` is not inductive: between reading the
manifest and moving the new one, the writer carries the two ids in memory. The
invariant `PublishedInv` adds that every manifest anywhere (in a file, in a sibling,
in a writer's payload) names snapshots whose files are there, and that a writer
past the snapshot step has a snapshot file in place. Files only ever come into
being (`Moves`) as long as the machine keeps its power, so this is stable under every other writer's steps; that no
validation is involved is why it survives races that break `PublishedComplete`.

*What one writer knows.* `SiblingInv` says what the sole writer's sibling file holds at
each step: partial while it writes, its own payload from then until the move, and
nothing under the final name of a snapshot before the move. It bears every fault:
damage touches only files that hold a document, and a power cut ends the writer. Hence
the only step of the program that changes the directory is a move of a validated
document (`Publishes`), a snapshot only onto a free name, which is `SnapshotsStay`.

*SuccessLoads, FailureChangesNothing, SuccessRotates* relate the end of a call to its
beginning. `CallInv` carries `before`, the directory as the call found it, through the
call: every snapshot that was there is unchanged, torn ones included, and the manifest
is the one found until the rotation moves. A power cut may tear the files of earlier
calls or take their renames back, but no call outlives it, so what a running call has validated or written is as
it left it. `RotatesInv` adds that a rotation is computed from the manifest the call
found; that needs reads that do not fail: a read error on `current.json` passes for a
missing manifest, and the rotation forgets the fallback.

*OneDamageSurvived* ties the damage done to the fault counter. `OneDamageSurvivable` is
not inductive, since a writer or a reader may hold ids in memory that a manifest will
name, or named, while the fault hits. A snapshot is `Needed` if a manifest anywhere
names it (in the directory, in the writer's payload, in a reader's memory) or if the
writer is past putting it in place. `Spared`: before the fault all needed snapshots
load; after it, of two needed ones, one does. A snapshot becomes needed only when the
writer has just validated or written it, so it loads, and the fault spoils one file. The
one case that takes care is a read error on `current.json`, after which the rotation
starts over without a fallback: then the fault is spent and no file is damaged.
`TwoOf` says that the two generations of a manifest differ, without which surviving one
of them would be surviving none.

*ReadersFallBack* rests on the same invariant because it counts what readers remember as
needed. A reader that turned to the fallback did so because the one fault hit its active
snapshot or its own read; either way the fallback loads and no further read fails.

*The serial theorems.* With crashes and failed calls only, `SerialInv` adds that the
directory is complete. For readers, `ReaderInv` says the snapshot a reader is about to
load is there and complete. For the refinement, `RefinementInv` is `SerialInv` and
`RotationInv`: a snapshot move is `Publish`, a manifest move `Rotate`, every other step a
stutter. *GenerationsAlwaysLoad* is what the refinement is good for: the abstract
catalogue's promise that the pointer names two different published snapshots
(`PointerAlwaysResolves`) is instantiated over the files, and `SerialInv` says that a
file that is there loads.

*AnswersCarryTheirName* and *NoTemporaryStays* hold for overlapping calls too. For the
first, a reader looks for candidates only under the ids of a manifest it has
(`ReaderSound`), and validation compares the id. For the second, every sibling file has
an owner whose `finally` is yet to run (`Owned`), whoever created it; a writer takes up a
new name only when it owns nothing (`Inside`).

*Bootstrap.* `PromotionInv` says what the promoter's sibling file holds at each step and
that until its move the bootstrap is the one it found or one that others have made of
it since. If the call may not replace one, there is none, or `appeared` says that it came
after the look.

*Recommend.* `PipelineInv`: the candidates are, in catalogue order, exactly the families
offered among those handled (`CandidatesInv`); the ranked ones are the first of them in
the order `Ahead` (`RankedInv`), which an insertion keeps because equals stay in front;
the stage tells which is complete (`StageInv`). The weights sum to 100, and each sub-score
lies in 0 .. 100 (`PartTypes`), so totals are scores. `StageInv` also says that no negative
number is answered, and zero before a family is loaded.

*ChatService.* `CriteriaStable` speaks of two states; what makes it true is
`CriteriaInv`: an id no client was given belongs to one request, and of every other
id the row, the requests in flight and the last answer tell the same criteria.
For the other two, `SerialInv` says a request has its conversation to itself, so
the row it is about to delete is still the one it found expired; `OutdatedExpired` that
the sweep's test agrees with that of `cargar`. Without that
hypothesis they are false (run chat_lost).

*Normalizer.* `LoopInv`: records handled = families + exclusions, the ids of the families
are all in `seen_ids`, and no two are equal. `RecordsCountedOnce` counts positions: a turn
adds one to the records of its id, by the name `Named` gives it, and one under the same
name to one of the lists (`UnderGrows`). `FirstOneDecides` adds
`FirstInv`: `seen_ids` holds the ids of all records handled, and the families are those of
the first records of their ids that are not excluded.

`TypeCorrect` and `HashedInOneOrder` need inductions over data. The induction theorems of the
library take an operator, which the provers here cannot instantiate; `SetInduction` is
induction for a *set* of numbers, from the fact that the naturals are well founded, and
the sets are then written down as comprehensions. `FoldExists` and `FoldRange` show from it
that the recursive function inside `FoldLeft` exists and stays within a set its step
function stays within, hence that `TasksOf` yields lists of tasks. `SortingExists` shows
that a list can be put in order; `OneEnumeration` that a set of families with different
ids has one ascending enumeration. Since families never share an id (`Distinct`), what
`compute_content_hash` makes of them is that enumeration, in whatever order the loop
collected them.

Only model-checked: `ManifestHeals`, because the prover has no support for liveness under
fairness. Every other property of a passing run is a theorem.

## 5. What is not modelled

- `TamanoDirectoProvider` keeps no state and is never chosen: a task is one of three, all
  of which `elegir_provider` sends to canirun.ai. Its docstring announces a formula,
  its code says yes to everything;
- the constructor of `CatalogPolicy`, which reads a file once, and those of its helpers
  that nothing in `src/` calls;
- the values of hashes: an id stands for its hash, collisions of the 16 digits
  kept are left out; the flags `unchanged` and `skipped_empty` of a result;
- the serialisation inside `compute_content_hash` (what is hashed and in which order is
  in Normalizer) and the other validators of `SnapshotMeta` (time zone, URL, hash format, a
  policy version that is not blank): constants, the clock and the policy file decide
  these, not the loop. With a blank `politica_version` in the policy, `sync_catalog` raises;
- of `Damage`: a manifest that still validates but names something else, though
  `current.json` has no checksum, and a file that turns up under a name that was free;
- the names, the justifications and the rounding of a score below 0.0001;
- an `unlink` that fails in a `finally` block (the `.tmp` file then stays, whatever the
  code does);
- `updated_at` of the manifest, which nothing reads;
- in ChatService, what the pipeline answers (`candidatos_elegibles`, `historial`): a row is
  its criteria and its age;
- the parsing of YAML and JSON; `GET /health` and `GET /families`, which change nothing.

## 6. Plan

In order of importance; the first six and the proofs of 9 are done.

1. AtomicFile, CatalogSync, ActiveCatalog: directory, faults, readers, refinement.
2. Their proofs: types, the manifest, the serial theorems, the refinement, what one
   call makes of the directory, temporary files, readers.
3. ChatService over the conversation store, and its theorems.
4. Normalizer and its theorems; what is hashed (`Canonical`).
5. Bootstrap as a second client of AtomicFile, and its theorems.
6. Recommend: filter, scorer, ranking, cut; and its theorems.
7. Two promotions at once, and a promotion beside a synchronisation that is still
   writing its source: what is left of Bootstrap's promises.
8. Recommend over the families Normalizer produces, once the program hands them over:
   multitask records, `codigo` against `code`.
9. Proofs: done are the promises of ActiveCatalog carried over to the files, the theorems
   under damage and power cuts, and the two inductions over data of Normalizer. Left is
   what overlapping calls keep: of two promotions or two synchronisations, what each may
   still rely on besides `ManifestNeverDangles` and `NoTemporaryStays`.
