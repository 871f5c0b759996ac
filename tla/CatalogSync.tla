---------------------------- MODULE CatalogSync ----------------------------
(***************************************************************************)
(* sync_catalog (src/sync/catalog_sync.py) over the catalogue directory of *)
(* src/sync/snapshot.py, with load_active_snapshot reading the directory   *)
(* at the same time, and the faults the code speaks of: a process that     *)
(* dies, a system call that fails, a file damaged from outside, a machine  *)
(* that loses power.                                                       *)
(*                                                                         *)
(* A snapshot id stands for the content hash it is cut from; the header of *)
(* a snapshot (timestamp, exclusions) differs from run to run and is kept  *)
(* as a member of Metas.  The directory holds one file per id and the      *)
(* manifest current.json, here the name Current.                           *)
(***************************************************************************)
EXTENDS AtomicFile

CONSTANTS
  Readers,     \* callers of load_active_snapshot
  Ids,         \* snapshot ids
  NoId,        \* None in previous_snapshot_id
  Metas,       \* headers of the snapshots of one id
  Current,     \* the name current.json
  FaultKinds,  \* which of AllFaultKinds may happen
  MaxFaults,   \* bound: how many of them, all together
  Damages      \* what a damaged file may hold

AllFaultKinds == {"crash", "writeerror", "readerror", "damage", "powerloss"}

VARIABLES
  pc,         \* pc[p]: where the call of sync_catalog of p stands
  catalogue,  \* catalogue[p]: the snapshot p fetched and built in memory
  result,     \* result[p]: how the last call of p ended
  before,     \* history, before[p]: the directory when the call of p began
  older,      \* older[t]: what t led to since the kernel last wrote it back
  faults,     \* faults so far
  rpc,        \* rpc[r]: where the call of load_active_snapshot of r stands
  seen,       \* seen[r]: the manifest r read
  loaded      \* loaded[r]: what the last call of r returned

syncVars   == <<pc, catalogue, result, before>>
readerVars == <<rpc, seen, loaded>>
vars == <<file, temp, stage, target, payload, fd, pc, catalogue, result,
          before, older, faults, rpc, seen, loaded>>

Names == Ids \cup {Current}

SnapshotDoc(s, m) == [kind |-> "snapshot", id |-> s, meta |-> m]
ManifestDoc(a, q) == [kind |-> "manifest", active |-> a, previous |-> q]

Snapshots == [kind : {"snapshot"}, id : Ids, meta : Metas]
Manifests == [kind : {"manifest"}, active : Ids, previous : Ids \cup {NoId}]
Contents  == {Absent, Partial, Torn, Undecodable} \cup Snapshots \cup Manifests

\* Names are told apart.  A damaged file is gone, garbage, or another snapshot
\* put under its name.
ASSUME NamesAssumption == Current \notin Ids /\ NoId \notin Names
ASSUME FaultsAssumption ==
  /\ FaultKinds \subseteq AllFaultKinds
  /\ MaxFaults \in Nat
  /\ Damages \subseteq {Absent, Torn, Undecodable} \cup Snapshots

PCs == {"idle", "probe", "create", "saving", "manifest", "rotating"}

Failures == {"fetch_failed", "existing_snapshot_corrupt",
             "snapshot_write_failed", "manifest_update_failed", "raised"}
Results  == Failures \cup {"none", "ok", "crashed"}

\* A slip to catch: any document that validates will do.
ReadableUnderAnyName(c, t) == IsDocument(c)

\* What the readers accept: for current.json a manifest, for a snapshot file
\* a document that validates and names the id it was asked for.
Readable(c, t) ==
  IF t = Current THEN c.kind = "manifest"
                 ELSE c.kind = "snapshot" /\ c.id = t

\* What they answer with None.
Rejected(c, t) == c # Undecodable /\ ~Readable(c, t)

HasManifest == Readable(file[Current], Current)
Sid(p)      == catalogue[p].id

Init ==
  /\ file = [t \in Names |-> Absent]
  /\ temp = [t \in Names |-> Absent]
  /\ stage = [p \in Writers |-> "closed"]
  /\ target = [p \in Writers |-> Current]
  /\ payload = [p \in Writers |-> Absent]
  /\ fd = [p \in Writers |-> "closed"]
  /\ pc = [p \in Writers |-> "idle"]
  /\ catalogue = [p \in Writers |-> Absent]
  /\ result = [p \in Writers |-> "none"]
  /\ before = [p \in Writers |-> [t \in Names |-> Absent]]
  /\ older = [t \in Names |-> {}]
  /\ faults = 0
  /\ rpc = [r \in Readers |-> "idle"]
  /\ seen = [r \in Readers |-> Absent]
  /\ loaded = [r \in Readers |-> Absent]

-----------------------------------------------------------------------------
(* Steps of sync_catalog.                                                  *)

Fault(kind) ==
  /\ kind \in FaultKinds
  /\ faults < MaxFaults
  /\ faults' = faults + 1

\* What reading name t yields: its content, or an OSError, which the readers
\* treat as they treat text that does not parse.
Reads(t, c) ==
  \/ c = file[t] /\ UNCHANGED faults
  \/ file[t] # Absent /\ c = Torn /\ Fault("readerror")

Goto(p, l) ==
  /\ pc' = [pc EXCEPT ![p] = l]
  /\ UNCHANGED <<catalogue, result, before>>

Return(p, r) ==
  /\ pc' = [pc EXCEPT ![p] = "idle"]
  /\ result' = [result EXCEPT ![p] = r]
  /\ catalogue' = [catalogue EXCEPT ![p] = Absent]
  /\ before' = [before EXCEPT ![p] = [t \in Names |-> Absent]]

\* No endpoint, an HTTP error, a response that breaks the contract, nothing
\* importable: the call returns before it touches the directory.
FetchFails(p) ==
  /\ pc[p] = "idle"
  /\ Return(p, "fetch_failed")
  /\ UNCHANGED <<atomicVars, older, faults, readerVars>>

\* The response normalises to a catalogue: its id and header are computed.
FetchCatalogue(p) ==
  /\ pc[p] = "idle"
  /\ \E s \in Ids, m \in Metas :
        catalogue' = [catalogue EXCEPT ![p] = SnapshotDoc(s, m)]
  /\ before' = [before EXCEPT ![p] = file]
  /\ pc' = [pc EXCEPT ![p] = "probe"]
  /\ UNCHANGED <<atomicVars, result, older, faults, readerVars>>

\* A slip to catch: a file that is there is taken for granted.
ProbeUnvalidated(p) ==
  /\ pc[p] = "probe"
  /\ file[Sid(p)] # Absent
  /\ Goto(p, "manifest")
  /\ UNCHANGED <<atomicVars, older, faults, readerVars>>

\* A slip to catch: a file that does not validate is removed and rewritten.
ProbeRepairing(p) ==
  /\ pc[p] = "probe"
  /\ file[Sid(p)] # Absent
  /\ IF Readable(file[Sid(p)], Sid(p))
     THEN Goto(p, "manifest") /\ UNCHANGED file
     ELSE Goto(p, "create") /\ file' = [file EXCEPT ![Sid(p)] = Absent]
  /\ UNCHANGED <<temp, writerVars, older, faults, readerVars>>

\* A slip to catch: an unchanged catalogue needs no look at the manifest.
ProbeReturns(p) ==
  /\ pc[p] = "probe"
  /\ file[Sid(p)] # Absent
  /\ \E c \in Contents :
        /\ Reads(Sid(p), c)
        /\ \/ Readable(c, Sid(p)) /\ Return(p, "ok")
           \/ Rejected(c, Sid(p)) /\ Return(p, "existing_snapshot_corrupt")
           \/ c = Undecodable /\ Return(p, "raised")
  /\ UNCHANGED <<atomicVars, older, readerVars>>

\* The id's file is there: it is validated, and never overwritten.
ProbeExisting(p) ==
  /\ pc[p] = "probe"
  /\ file[Sid(p)] # Absent
  /\ \E c \in Contents :
        /\ Reads(Sid(p), c)
        /\ \/ Readable(c, Sid(p)) /\ Goto(p, "manifest")
           \/ Rejected(c, Sid(p)) /\ Return(p, "existing_snapshot_corrupt")
           \/ c = Undecodable /\ Return(p, "raised")
  /\ UNCHANGED <<atomicVars, older, readerVars>>

\* A slip to catch: the manifest is rewritten before the file is.
ProbeForgotten(p) ==
  /\ pc[p] = "probe"
  /\ file[Sid(p)] = Absent
  /\ Goto(p, "manifest")
  /\ UNCHANGED <<atomicVars, older, faults, readerVars>>

\* The id's file is not there.
ProbeAbsent(p) ==
  /\ pc[p] = "probe"
  /\ file[Sid(p)] = Absent
  /\ Goto(p, "create")
  /\ UNCHANGED <<atomicVars, older, faults, readerVars>>

\* write_snapshot looks again, and returns whatever it finds unvalidated.
CreateSnapshot(p) ==
  /\ pc[p] = "create"
  /\ \/ /\ file[Sid(p)] # Absent
        /\ Goto(p, "manifest")
        /\ UNCHANGED <<atomicVars, faults>>
     \/ /\ file[Sid(p)] = Absent
        /\ BeginWrite(p, Sid(p), catalogue[p])
        /\ Goto(p, "saving")
        /\ UNCHANGED faults
     \/ /\ Fault("writeerror")                \* mkdir fails
        /\ Return(p, "snapshot_write_failed")
        /\ UNCHANGED atomicVars
  /\ UNCHANGED <<older, readerVars>>

\* One step inside the try block of write_snapshot or update_manifest.
TryStep(p) ==
  /\ \/ WriteStep(p) /\ UNCHANGED faults
     \/ TryFails(p) /\ Fault("writeerror")
  /\ older' = IF stage'[p] = "moved" /\ "powerloss" \in FaultKinds
              THEN [older EXCEPT ![target[p]] = @ \cup {file[target[p]]}]
              ELSE older
  /\ UNCHANGED <<syncVars, readerVars>>

\* A slip to catch: the OSError of write_snapshot is logged and forgotten.
LeaveSaveRegardless(p) ==
  /\ pc[p] = "saving"
  /\ RemoveTemp(p)
  /\ Goto(p, "manifest")
  /\ UNCHANGED <<older, faults, readerVars>>

\* The finally block of write_snapshot, and what sync_catalog does then: an
\* OSError is caught, a failed round trip (a ValueError) leaves the call.
LeaveSave(p) ==
  /\ pc[p] = "saving"
  /\ RemoveTemp(p)
  /\ \/ stage[p] = "moved" /\ Goto(p, "manifest")
     \/ stage[p] = "oserror" /\ Return(p, "snapshot_write_failed")
     \/ stage[p] = "invalid" /\ Return(p, "raised")
  /\ UNCHANGED <<older, faults, readerVars>>

\* Slips to catch: rotate always; remember the wrong id; store the manifest.
NeverActive(c, s)   == FALSE
OldPrevious(c)      == IF Readable(c, Current) THEN c.previous ELSE NoId
WholeManifest(c)    == IF Readable(c, Current) THEN c ELSE NoId

\* The manifest names s already.
IsActive(c, s) == Readable(c, Current) /\ c.active = s

\* The id that a rotation hands over to previous_snapshot_id.
RotatedOut(c) == IF Readable(c, Current) THEN c.active ELSE NoId

\* The manifest is read, and rewritten unless it names the snapshot already.
ReadManifest(p) ==
  /\ pc[p] = "manifest"
  /\ \E c \in Contents :
        /\ Reads(Current, c)
        /\ \/ /\ c = Undecodable
              /\ Return(p, "raised")
              /\ UNCHANGED atomicVars
           \/ /\ IsActive(c, Sid(p))
              /\ Return(p, "ok")
              /\ UNCHANGED atomicVars
           \/ /\ c # Undecodable /\ ~IsActive(c, Sid(p))
              /\ BeginWrite(p, Current, ManifestDoc(Sid(p), RotatedOut(c)))
              /\ Goto(p, "rotating")
  /\ UNCHANGED <<older, readerVars>>

\* update_manifest's mkdir fails.
RotateFails(p) ==
  /\ pc[p] = "manifest"
  /\ file[Current] # Undecodable
  /\ ~IsActive(file[Current], Sid(p))
  /\ Fault("writeerror")
  /\ Return(p, "manifest_update_failed")
  /\ UNCHANGED <<atomicVars, older, readerVars>>

\* The finally block of update_manifest and the end of sync_catalog.
LeaveRotate(p) ==
  /\ pc[p] = "rotating"
  /\ RemoveTemp(p)
  /\ \/ stage[p] = "moved" /\ Return(p, "ok")
     \/ stage[p] = "oserror" /\ Return(p, "manifest_update_failed")
     \/ stage[p] = "invalid" /\ Return(p, "raised")
  /\ UNCHANGED <<older, faults, readerVars>>

\* The steps a call takes on its own once it has its catalogue.
SyncStep(p) ==
  \/ ProbeExisting(p) \/ ProbeAbsent(p)
  \/ CreateSnapshot(p) \/ LeaveSave(p)
  \/ ReadManifest(p) \/ RotateFails(p) \/ LeaveRotate(p)
  \/ TryStep(p)

-----------------------------------------------------------------------------
(* Steps of load_active_snapshot.                                          *)

Answer(r, c) ==
  /\ rpc' = [rpc EXCEPT ![r] = "idle"]
  /\ loaded' = [loaded EXCEPT ![r] = c]

\* read_manifest: None without a readable manifest.
LoadManifest(r) ==
  /\ rpc[r] = "idle"
  /\ \E c \in Contents :
        /\ Reads(Current, c)
        /\ seen' = [seen EXCEPT ![r] = c]
        /\ IF Readable(c, Current)
           THEN rpc' = [rpc EXCEPT ![r] = "active"] /\ UNCHANGED loaded
           ELSE Answer(r, IF c = Undecodable THEN c ELSE Absent)
  /\ UNCHANGED <<atomicVars, syncVars, older>>

\* read_snapshot of one candidate: its document ends the call, None moves to
\* the other candidate or ends the call, UnicodeDecodeError leaves it.
TryCandidate(r, s, otherwise) ==
  \E c \in Contents :
     /\ Reads(s, c)
     /\ \/ (Readable(c, s) \/ c = Undecodable) /\ Answer(r, c)
        \/ Rejected(c, s) /\ otherwise

\* A slip to catch: a damaged active snapshot ends the call.
LoadActiveOnly(r) ==
  /\ rpc[r] = "active"
  /\ TryCandidate(r, seen[r].active, Answer(r, Absent))
  /\ UNCHANGED <<atomicVars, syncVars, older, seen>>

LoadActive(r) ==
  /\ rpc[r] = "active"
  /\ TryCandidate(r, seen[r].active,
                  rpc' = [rpc EXCEPT ![r] = "previous"] /\ UNCHANGED loaded)
  /\ UNCHANGED <<atomicVars, syncVars, older, seen>>

LoadPrevious(r) ==
  /\ rpc[r] = "previous"
  /\ IF seen[r].previous = NoId
     THEN Answer(r, Absent) /\ UNCHANGED faults
     ELSE TryCandidate(r, seen[r].previous, Answer(r, Absent))
  /\ UNCHANGED <<atomicVars, syncVars, older, seen>>

ReadStep(r) == LoadActive(r) \/ LoadPrevious(r)

-----------------------------------------------------------------------------
(* The environment.                                                        *)

\* The process of p dies: its descriptor is closed, its sibling file stays.
Crash(p) ==
  /\ pc[p] # "idle"
  /\ Fault("crash")
  /\ Return(p, "crashed")
  /\ stage' = [stage EXCEPT ![p] = "closed"]
  /\ fd' = [fd EXCEPT ![p] = "closed"]
  /\ payload' = [payload EXCEPT ![p] = Absent]
  /\ UNCHANGED <<file, temp, target, older, readerVars>>

\* Bit rot, an editor, a deletion: a file changes behind the program's back.
Damage(t) ==
  /\ Fault("damage")
  /\ IsDocument(file[t])
  /\ \E c \in Damages : file' = [file EXCEPT ![t] = c]
  /\ UNCHANGED <<temp, writerVars, syncVars, older, readerVars>>

\* The kernel writes the name t and its data back.
Writeback(t) ==
  /\ older[t] # {}
  /\ older' = [older EXCEPT ![t] = {}]
  /\ UNCHANGED <<atomicVars, syncVars, faults, readerVars>>

\* What t may lead to after a power cut: its file, whole or torn, or, when its
\* rename did not reach the disk, what it led to before.
AfterCut(t) == IF older[t] = {} THEN {file[t]} ELSE {file[t], Torn} \cup older[t]

\* Every process dies.  Of the names that were not written back each is lost
\* or kept for itself, in no order; a sibling may be there again or be gone.
PowerLoss ==
  /\ Fault("powerloss")
  /\ file' \in {f \in [Names -> UNION {AfterCut(t) : t \in Names}] :
                  \A t \in Names : f[t] \in AfterCut(t)}
  /\ temp' \in {f \in [Names -> {Absent, Torn} \cup {temp[t] : t \in Names}] :
                  \A t \in Names : f[t] \in {Absent, Torn, temp[t]}}
  /\ older' = [t \in Names |-> {}]
  /\ stage' = [p \in Writers |-> "closed"]
  /\ fd' = [p \in Writers |-> "closed"]
  /\ payload' = [p \in Writers |-> Absent]
  /\ pc' = [p \in Writers |-> "idle"]
  /\ catalogue' = [p \in Writers |-> Absent]
  /\ result' = [p \in Writers |-> "crashed"]
  /\ before' = [p \in Writers |-> [t \in Names |-> Absent]]
  /\ rpc' = [r \in Readers |-> "idle"]
  /\ seen' = [r \in Readers |-> Absent]
  /\ loaded' = [r \in Readers |-> Absent]
  /\ UNCHANGED target

Environment ==
  \/ \E p \in Writers : Crash(p)
  \/ \E t \in Names : Damage(t) \/ Writeback(t)
  \/ PowerLoss

Next ==
  \/ \E p \in Writers : FetchFails(p) \/ FetchCatalogue(p) \/ SyncStep(p)
  \/ \E r \in Readers : LoadManifest(r) \/ ReadStep(r)
  \/ Environment

Spec == Init /\ [][Next]_vars

\* A call that has begun runs on, being straight-line code, and whoever
\* schedules the synchronisation (policy: every 21 days) keeps calling it.
Fairness == \A p \in Writers : WF_vars(SyncStep(p)) /\ WF_vars(FetchCatalogue(p))

FairSpec == Spec /\ Fairness

-----------------------------------------------------------------------------
(* What every number of concurrent callers is promised.                    *)

DiskTypes ==
  /\ file \in [Names -> Contents]
  /\ temp \in [Names -> Contents]
  /\ older \in [Names -> SUBSET Contents]

WriterTypes ==
  /\ stage \in [Writers -> Stages]
  /\ target \in [Writers -> Names]
  /\ payload \in [Writers -> {Absent} \cup Snapshots \cup Manifests]
  /\ fd \in [Writers -> Places]

CallTypes ==
  /\ pc \in [Writers -> PCs]
  /\ catalogue \in [Writers -> {Absent} \cup Snapshots]
  /\ result \in [Writers -> Results]
  /\ before \in [Writers -> [Names -> Contents]]

ReaderTypes ==
  /\ rpc \in [Readers -> {"idle", "active", "previous"}]
  /\ seen \in [Readers -> Contents]
  /\ loaded \in [Readers -> Contents]

\* Type invariant: every variable keeps to the values the code gives it.
TypeOK ==
  DiskTypes /\ WriterTypes /\ CallTypes /\ ReaderTypes /\ faults \in 0 .. MaxFaults

\* Whatever interleaving, crash or failed write: the manifest never names a
\* snapshot whose file has not been put in place, as the active one or as
\* the previous one ("6. manifest (only after the snapshot ...)").
ActiveIsPublished ==
  HasManifest => /\ file[file[Current].active] # Absent
                 /\ \/ file[Current].previous = NoId
                    \/ file[file[Current].previous] # Absent

\* "no partial file is left behind": as long as no process dies, once no
\* write is in progress there is no .tmp file, although writers cut, move
\* and unlink each other's.
NoTempLeft ==
  \A t \in Names :
     (\A p \in Writers : target[p] = t => stage[p] = "closed")
        => temp[t] = Absent

\* load_active_snapshot answers with a document under the id the manifest
\* gave it, never with one that was put under a wrong name.
LoadSound ==
  \A r \in Readers :
     rpc[r] = "idle" /\ IsDocument(loaded[r]) /\ seen[r].kind = "manifest"
        => loaded[r].id \in {seen[r].active, seen[r].previous}

-----------------------------------------------------------------------------
(* What one caller at a time is promised.                                  *)

\* A name in the directory leads to nothing or to a complete document that
\* validates: no crash and no failed write shows through os.replace.
PublishedComplete ==
  \A t \in Names : file[t] = Absent \/ Readable(file[t], t)

\* The manifest never names one snapshot twice, nor one that does not load:
\* whatever crashes and fails, the fallback is another generation.
GenerationsLoad ==
  HasManifest =>
    LET a == file[Current].active
        q == file[Current].previous IN
    /\ Readable(file[a], a)
    /\ q # NoId => q # a /\ Readable(file[q], q)

\* "Snapshots are content-addressed and immutable": no call ever changes or
\* removes a snapshot file, a corrupt one included.
SnapshotsImmutable ==
  [][\A s \in Ids :
       file[s] # Absent /\ faults' = faults => file'[s] = file[s]]_vars

\* p's call returns r in this step.
Returns(p, r) == pc[p] # "idle" /\ pc'[p] = "idle" /\ result'[p] = r

\* A successful call leaves its snapshot active and the one that was active
\* when it began as the fallback; it rewrites nothing if it was active.
RotationRemembers ==
  [][\A p \in Writers :
       Returns(p, "ok") =>
         LET old == before[p][Current] IN
         file'[Current] =
            IF Rejected(old, Current) THEN ManifestDoc(Sid(p), NoId)
            ELSE IF old.active = Sid(p) THEN old
            ELSE ManifestDoc(Sid(p), old.active)]_vars

\* A failed call leaves the manifest, and every snapshot that was there, as
\* they were when it began.
FailureKeepsCatalogue ==
  [][\A p \in Writers :
       (\E r \in Failures : Returns(p, r)) =>
          \A t \in Names : before[p][t] # Absent \/ t = Current
                              => file'[t] = before[p][t]]_vars

\* A call that reports success leaves a manifest that names its snapshot and
\* a snapshot file that loads, also after a power cut tore earlier files.
OkMeansLoadable ==
  [][\A p \in Writers :
       Returns(p, "ok") => /\ HasManifest'
                           /\ file'[Current].active = Sid(p)
                           /\ Readable(file'[Sid(p)], Sid(p))]_vars

\* A reader that found a manifest gets the snapshot that manifest calls
\* active, however many rotations happen while it reads.
ReaderGetsActive ==
  \A r \in Readers :
     rpc[r] = "idle" /\ seen[r].kind = "manifest"
        => Readable(loaded[r], seen[r].active)

\* Two generations are kept so that one damaged file is survivable: while
\* the manifest names a previous snapshot, one of the two still loads.
OneDamageSurvivable ==
  HasManifest /\ file[Current].previous # NoId
     => \E s \in {file[Current].active, file[Current].previous} :
           Readable(file[s], s)

\* "If that fails ..., try previous_snapshot_id": after one fault a reader that was given
\* two generations answers with a document, also if its manifest is outdated
\* by the time the fault happens or the call falls back.
FallbackServes ==
  \A r \in Readers :
     rpc[r] = "idle" /\ seen[r].kind = "manifest" /\ seen[r].previous # NoId
        => IsDocument(loaded[r])

\* A manifest that is missing or is no manifest is written anew by a later
\* call, also by one whose snapshot is unchanged: a crash, a failed call or a
\* damaged current.json does not leave the catalogue without one for ever.
ManifestHeals == ~HasManifest ~> HasManifest

-----------------------------------------------------------------------------
(* What the documentation says and the code does not do.                   *)

\* src/sync/snapshot.py, read_snapshot: "a tampered or corrupt file returns
\* None instead of raising".
ReaderNeverRaises ==
  \A r \in Readers :
     rpc[r] = "idle" /\ seen[r].kind = "manifest" => loaded[r] # Undecodable

-----------------------------------------------------------------------------
(* A single caller implements the abstract catalogue.                      *)

Catalogue ==
  INSTANCE ActiveCatalog WITH
    published <- {file[s] : s \in Ids} \ {Absent},
    active    <- IF HasManifest THEN file[Current].active ELSE NoId,
    previous  <- IF HasManifest THEN file[Current].previous ELSE NoId

\* The snapshot files and the manifest change only as the abstract catalogue
\* does: one immutable document per id, then one rotation onto it.
ImplementsCatalogue == Catalogue!Spec

=============================================================================
