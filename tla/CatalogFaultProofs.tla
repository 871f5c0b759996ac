-------------------------- MODULE CatalogFaultProofs --------------------------
(***************************************************************************)
(* Theorems about CatalogSync with one caller of sync_catalog at a time,   *)
(* which is how the program is meant to be run, any number of readers, and *)
(* the faults from outside: files that are damaged, power that fails.      *)
(* Each theorem names those it does not bear.                              *)
(***************************************************************************)
EXTENDS CatalogSyncProofs

\* The hypotheses of this module's theorems.
Serial      == \A p, q \in Writers : p = q
NoDamage    == "damage" \notin FaultKinds
NoReadError == "readerror" \notin FaultKinds

-----------------------------------------------------------------------------
(* What the sole caller knows of its files, under every fault.             *)

\* Where it stands says what its sibling file holds; the name it is about to
\* give to a new snapshot is free, since damage needs a document to damage.
Sibling(p) ==
  /\ stage[p] # "closed" <=> pc[p] \in {"saving", "rotating"}
  /\ pc[p] = "create" => file[Sid(p)] = Absent
  /\ pc[p] = "saving" => target[p] = Sid(p)
  /\ pc[p] = "rotating" => target[p] = Current
  /\ fd[p] = IF stage[p] = "write" THEN "temp" ELSE "closed"
  /\ stage[p] = "write" => temp[target[p]] = Partial
  /\ stage[p] \in {"reread", "replace"} => temp[target[p]] = payload[p]
  /\ stage[p] \in InTry => Readable(payload[p], target[p])
  /\ stage[p] \in InTry /\ pc[p] = "saving" => file[target[p]] = Absent

SiblingInv == TypeInv /\ \A p \in Writers : Sibling(p)

\* The one step of the program that changes the directory: os.replace
\* publishes what the writer validated, a snapshot only under a free name.
Publishes(p) ==
  LET t == target[p] IN
  /\ TryStep(p)
  /\ stage[p] = "replace" /\ stage' = [stage EXCEPT ![p] = "moved"]
  /\ \/ pc[p] = "saving" /\ t = Sid(p) /\ t \in Ids /\ file[t] = Absent
     \/ pc[p] = "rotating" /\ t = Current
  /\ Readable(payload[p], t)
  /\ file' = [file EXCEPT ![t] = payload[p]]

\* The types that the following lemmas need.
LEMMA CallerTypes ==
  ASSUME TypeInv, NEW p \in Writers
  PROVE  /\ file \in [Names -> Contents] /\ temp \in [Names -> Contents]
         /\ stage \in [Writers -> Stages] /\ fd \in [Writers -> Places]
         /\ target \in [Writers -> Names] /\ target[p] \in Names
         /\ payload \in [Writers -> {Absent} \cup Snapshots \cup Manifests]
         /\ pc \in [Writers -> PCs] /\ before \in [Writers -> [Names -> Contents]]
         /\ catalogue \in [Writers -> {Absent} \cup Snapshots]
         /\ result \in [Writers -> Results]
         /\ pc[p] # "idle" => /\ catalogue[p] \in Snapshots
                              /\ Sid(p) \in Ids /\ Sid(p) \in Names
                              /\ Sid(p) # Current
  BY NamesAssumption DEF TypeInv, TypeOK, DiskTypes, WriterTypes, CallTypes,
     InFlight, Snapshots, Sid, Names

\* Inside the try block the call stays where it is, and moves its document
\* or leaves the directory alone.
LEMMA TryMovesOrNot ==
  ASSUME SiblingInv, Serial, NEW p \in Writers, TryStep(p)
  PROVE  /\ UNCHANGED <<pc, before, catalogue, result, target, payload>>
         /\ Sid(p)' = Sid(p)
         /\ stage[p] \in InTry /\ pc[p] \in {"saving", "rotating"}
         /\ Publishes(p) \/ (file' = file /\ stage'[p] # "moved")
<1> USE CallerTypes DEF SiblingInv, Sibling
<1>0. /\ UNCHANGED <<pc, before, catalogue, result, target, payload>>
      /\ Sid(p)' = Sid(p) /\ stage[p] \in InTry
  BY DEF TryStep, WriteStep, OpenTemp, WriteTemp, RereadTemp, ReplaceTemp,
         TryFails, syncVars, Sid, InTry
<1>1. pc[p] \in {"saving", "rotating"}
  BY <1>0 DEF InTry
<1>2. CASE OpenTemp(p) \/ RereadTemp(p) \/ TryFails(p)
  BY <1>0, <1>1, <1>2 DEF OpenTemp, RereadTemp, TryFails
<1>3. CASE WriteTemp(p)
  BY <1>0, <1>1, <1>3 DEF WriteTemp
<1>4. CASE ReplaceTemp(p)
  <2>1. Sid(p) \in Ids
    BY <1>1
  <2> QED BY <1>0, <1>1, <1>4, <2>1 DEF ReplaceTemp, Publishes, InTry
<1> QED BY <1>0, <1>1, <1>2, <1>3, <1>4 DEF TryStep, WriteStep

\* Outside it a call writes to no name of the directory.
LEMMA CallKeepsFiles ==
  ASSUME NEW p \in Writers,
         \/ FetchFails(p) \/ FetchCatalogue(p) \/ ProbeExisting(p)
         \/ ProbeAbsent(p) \/ CreateSnapshot(p) \/ LeaveSave(p)
         \/ ReadManifest(p) \/ RotateFails(p) \/ LeaveRotate(p) \/ Crash(p)
  PROVE  file' = file
  BY DEF FetchFails, FetchCatalogue, ProbeExisting, ProbeAbsent, Crash,
     CreateSnapshot, LeaveSave, ReadManifest, RotateFails, LeaveRotate,
     BeginWrite, RemoveTemp, atomicVars

\* Readers and the kernel change nothing that a call sees.
LEMMA ReaderKeeps ==
  ASSUME NEW r \in Readers, LoadManifest(r) \/ ReadStep(r)
  PROVE  UNCHANGED <<atomicVars, syncVars>>
  BY DEF LoadManifest, ReadStep, LoadActive, LoadPrevious

LEMMA KernelKeeps ==
  ASSUME NEW t \in Names, Writeback(t)
  PROVE  UNCHANGED <<atomicVars, syncVars, readerVars>>
  BY DEF Writeback

\* So the directory changes by a publication or by a fault from outside.
LEMMA FileMoves ==
  ASSUME SiblingInv, Serial, [Next]_vars
  PROVE  \/ file' = file
         \/ \E p \in Writers : Publishes(p)
         \/ \E t \in Names : Damage(t)
         \/ PowerLoss
<1>1. CASE UNCHANGED vars
  BY <1>1 DEF vars
<1>2. ASSUME NEW p \in Writers, TryStep(p)
      PROVE  file' = file \/ Publishes(p)
  BY <1>2, TryMovesOrNot
<1>3. ASSUME NEW r \in Readers, LoadManifest(r) \/ ReadStep(r)
      PROVE  file' = file
  BY <1>3, ReaderKeeps DEF atomicVars
<1>4. ASSUME NEW t \in Names, Writeback(t)
      PROVE  file' = file
  BY <1>4 DEF Writeback, atomicVars
<1> QED
  BY <1>1, <1>2, <1>3, <1>4, CallKeepsFiles DEF Next, SyncStep, Environment

-----------------------------------------------------------------------------
(* The caller's knowledge is inductive.                                    *)

LEMMA SiblingTry ==
  ASSUME SiblingInv, Serial, NEW p \in Writers, TryStep(p)
  PROVE  Sibling(p)'
<1> USE CallerTypes DEF SiblingInv, Sibling
<1>0. /\ UNCHANGED <<pc, catalogue, target, payload>>
      /\ Sid(p)' = Sid(p) /\ pc[p] \in {"saving", "rotating"}
      /\ stage[p] \in InTry
  BY TryMovesOrNot
<1>1. CASE OpenTemp(p)
  BY <1>0, <1>1 DEF OpenTemp, InTry
<1>2. CASE WriteTemp(p)
  <2>1. fd[p] = "temp" /\ temp[target[p]] = Partial
    BY <1>2 DEF WriteTemp
  <2>2. Holders(fd[p], target[p]) = {p}
    BY DEF Holders, Serial
  <2>3. temp' = [temp EXCEPT ![target[p]] = payload[p]] /\ file' = file
    BY <1>2, <2>1, <2>2 DEF WriteTemp, Landing
  <2> QED BY <1>0, <1>2, <2>3 DEF WriteTemp, InTry
<1>3. CASE RereadTemp(p)
  BY <1>0, <1>3 DEF RereadTemp, InTry
<1>4. CASE ReplaceTemp(p)
  <2>1. /\ stage'[p] \in {"moved", "oserror"}
        /\ stage[p] = "replace" /\ fd[p] = "closed"
    BY <1>4 DEF ReplaceTemp
  <2>2. fd'[p] = "closed"
    BY <1>4, <2>1 DEF ReplaceTemp
  <2> QED BY <1>0, <2>1, <2>2 DEF InTry
<1>5. CASE TryFails(p)
  BY <1>0, <1>5 DEF TryFails, InTry
<1> QED BY <1>1, <1>2, <1>3, <1>4, <1>5 DEF TryStep, WriteStep

LEMMA SiblingSync ==
  ASSUME SiblingInv, NEW p \in Writers,
         \/ FetchFails(p) \/ FetchCatalogue(p) \/ ProbeExisting(p)
         \/ ProbeAbsent(p) \/ CreateSnapshot(p) \/ LeaveSave(p)
         \/ ReadManifest(p) \/ RotateFails(p) \/ LeaveRotate(p) \/ Crash(p)
  PROVE  Sibling(p)'
<1> USE CallerTypes DEF SiblingInv, Sibling, Goto, Return, InTry, InFinally, Sid
<1>1. CASE FetchFails(p) \/ FetchCatalogue(p) \/ RotateFails(p)
  BY <1>1 DEF FetchFails, FetchCatalogue, RotateFails, atomicVars
<1>2. CASE ProbeExisting(p)
  BY <1>2 DEF ProbeExisting, atomicVars
<1>3. CASE ProbeAbsent(p)
  BY <1>3 DEF ProbeAbsent, atomicVars
<1>4. CASE CreateSnapshot(p)
  <2>1. Readable(catalogue[p], Sid(p))
    BY <1>4, NamesAssumption
    DEF CreateSnapshot, Snapshots, Readable
  <2>2. CASE UNCHANGED atomicVars /\ pc'[p] \in {"idle", "manifest"}
    BY <1>4, <2>2 DEF CreateSnapshot, atomicVars
  <2>3. CASE /\ file[Sid(p)] = Absent
             /\ BeginWrite(p, Sid(p), catalogue[p])
             /\ Goto(p, "saving")
    BY <1>4, <2>1, <2>3 DEF BeginWrite, CreateSnapshot
  <2> QED BY <1>4, <2>2, <2>3 DEF CreateSnapshot
<1>5. CASE LeaveSave(p) \/ LeaveRotate(p)
  <2>1. stage[p] \notin {"write", "closed"} /\ RemoveTemp(p)
    BY <1>5 DEF LeaveSave, LeaveRotate, RemoveTemp
  <2>2. stage'[p] = "closed" /\ fd'[p] = "closed"
    BY <2>1 DEF RemoveTemp, Close
  <2>3. pc'[p] \in {"idle", "manifest"}
    BY <1>5 DEF LeaveSave, LeaveRotate
  <2> QED BY <2>2, <2>3
<1>6. CASE ReadManifest(p)
  <2>1. CASE UNCHANGED atomicVars /\ pc'[p] = "idle"
    BY <1>6, <2>1 DEF ReadManifest, atomicVars
  <2>2. ASSUME NEW d, Readable(d, Current),
               BeginWrite(p, Current, d), Goto(p, "rotating")
        PROVE  Sibling(p)'
    BY <1>6, <2>2 DEF BeginWrite, ReadManifest
  <2>3. \A c \in Contents :
          Readable(ManifestDoc(Sid(p), RotatedOut(c)), Current)
    BY DEF ManifestDoc, Readable
  <2> QED BY <1>6, <2>1, <2>2, <2>3 DEF ReadManifest
<1>7. CASE Crash(p)
  BY <1>7 DEF Crash
<1> QED BY <1>1, <1>2, <1>3, <1>4, <1>5, <1>6, <1>7

\* A free name stays free when files are damaged.
LEMMA SiblingDamage ==
  ASSUME SiblingInv, NEW t \in Names, Damage(t), NEW p \in Writers
  PROVE  Sibling(p)'
<1>1. \A x \in Names : file[x] = Absent => file'[x] = Absent
  BY CallerTypes DEF SiblingInv, Damage, IsDocument, Absent
<1>2. /\ UNCHANGED <<temp, stage, target, payload, fd, pc, catalogue>>
      /\ Sid(p)' = Sid(p)
  BY DEF Damage, writerVars, syncVars, Sid
<1> QED BY <1>1, <1>2, CallerTypes DEF SiblingInv, Sibling

LEMMA SiblingInit == Init => SiblingInv
  BY InitType DEF Init, SiblingInv, Sibling, InTry

LEMMA SiblingNext ==
  ASSUME Serial
  PROVE  SiblingInv /\ [Next]_vars => SiblingInv'
<1> SUFFICES ASSUME SiblingInv, [Next]_vars PROVE SiblingInv'
  OBVIOUS
<1>1. TypeInv'
  BY NextType DEF SiblingInv
<1>2. \A p \in Writers : Sibling(p)'
  <2>1. ASSUME NEW p \in Writers, TryStep(p)
        PROVE  \A q \in Writers : Sibling(q)'
    BY <2>1, SiblingTry DEF Serial
  <2>2. ASSUME NEW p \in Writers,
               \/ FetchFails(p) \/ FetchCatalogue(p) \/ ProbeExisting(p)
               \/ ProbeAbsent(p) \/ CreateSnapshot(p) \/ LeaveSave(p)
               \/ ReadManifest(p) \/ RotateFails(p) \/ LeaveRotate(p) \/ Crash(p)
        PROVE  \A q \in Writers : Sibling(q)'
    BY <2>2, SiblingSync DEF Serial
  <2>3. CASE UNCHANGED <<atomicVars, syncVars>>
    BY <2>3 DEF atomicVars, syncVars, SiblingInv, Sibling, Sid
  <2>4. CASE PowerLoss
    BY <2>4, <1>1, CallerTypes DEF PowerLoss, Sibling, InTry
  <2>5. CASE UNCHANGED vars
    BY <2>5, <2>3 DEF vars, atomicVars, syncVars
  <2> QED
    BY <2>1, <2>2, <2>3, <2>4, <2>5, ReaderKeeps, KernelKeeps, SiblingDamage
    DEF Next, SyncStep, Environment
<1> QED BY <1>1, <1>2 DEF SiblingInv

LEMMA SiblingAlways ==
  ASSUME Serial
  PROVE  Spec => []SiblingInv
  BY SiblingInit, SiblingNext, PTL DEF Spec

\* Under every fault, damage and power cuts included: no call, failing or
\* not, ever changes or removes a snapshot file, a corrupt one included.
THEOREM SnapshotsStay ==
  ASSUME Serial
  PROVE  Spec => SnapshotsImmutable
<1>1. ASSUME SiblingInv, [Next]_vars,
             NEW s \in Ids, file[s] # Absent, faults' = faults
      PROVE  file'[s] = file[s]
  <2>1. \A kind : ~Fault(kind)
    BY <1>1, FaultsAssumption DEF Fault, SiblingInv, TypeInv, TypeOK
  <2>2. ASSUME NEW p \in Writers, Publishes(p)
        PROVE  file'[s] = file[s]
    BY <1>1, <2>2, NamesAssumption, CallerTypes DEF Publishes, SiblingInv, Names
  <2> QED BY <1>1, <2>1, <2>2, FileMoves DEF Damage, PowerLoss
<1>2. SiblingInv /\ [Next]_vars
        => [\A s \in Ids : file[s] # Absent /\ faults' = faults
                            => file'[s] = file[s]]_vars
  BY <1>1
<1> QED BY <1>2, SiblingAlways, PTL DEF Spec, SnapshotsImmutable

-----------------------------------------------------------------------------
(* What one call makes of the directory it found, while nobody damages it. *)

\* The manifest of the call is in place; the snapshot of the call is.
Rotated(p) == pc[p] = "rotating" /\ stage[p] = "moved"
Stored(p)  == \/ pc[p] \in {"manifest", "rotating"}
              \/ pc[p] = "saving" /\ stage[p] = "moved"

\* While a call runs the directory differs from the one it found by its own
\* snapshot, which it has validated or written itself, and, once the rotation
\* is through, by the manifest.  A power cut ends the call with the process.
CallInv(p) ==
  pc[p] # "idle" =>
    /\ \A s \in Ids : before[p][s] # Absent => file[s] = before[p][s]
    /\ ~Rotated(p) => file[Current] = before[p][Current]
    /\ Stored(p) => Readable(file[Sid(p)], Sid(p))
    /\ pc[p] = "rotating" /\ stage[p] \in InTry => payload[p].active = Sid(p)
    /\ Rotated(p) => HasManifest /\ file[Current].active = Sid(p)

CallsInv == SiblingInv /\ \A p \in Writers : CallInv(p)

\* A slip of the disk aside, what is read is what is there.
LEMMA ReadsDocument ==
  ASSUME NEW t, NEW c, Reads(t, c), IsDocument(c)
  PROVE  c = file[t]
  BY DEF Reads, Torn, IsDocument

LEMMA ReadableDocument ==
  ASSUME NEW c, NEW t, Readable(c, t)
  PROVE  IsDocument(c)
  BY DEF Readable, IsDocument

LEMMA PublishCall ==
  ASSUME CallsInv, NEW p \in Writers, Publishes(p)
  PROVE  CallInv(p)'
<1> USE CallerTypes DEF CallsInv, SiblingInv
<1>1. /\ UNCHANGED <<pc, before, catalogue, payload>> /\ Sid(p)' = Sid(p)
      /\ CallInv(p) /\ ~Rotated(p) /\ stage'[p] = "moved"
  BY DEF Publishes, TryStep, WriteStep, OpenTemp, WriteTemp, RereadTemp,
         ReplaceTemp, TryFails, syncVars, Sid, Rotated
<1>2. CASE /\ pc[p] = "saving" /\ target[p] = Sid(p) /\ Sid(p) \in Ids
           /\ file[Sid(p)] = Absent
  <2>1. /\ file'[Sid(p)] = payload[p] /\ Readable(payload[p], Sid(p))
        /\ \A t \in Names : t # Sid(p) => file'[t] = file[t]
    BY <1>2 DEF Publishes
  <2>2. file'[Current] = file[Current]
    BY <1>2, <2>1, NamesAssumption DEF Names
  <2> QED
    BY <1>1, <1>2, <2>1, <2>2 DEF CallInv, Rotated, Stored, Names
<1>3. CASE pc[p] = "rotating" /\ target[p] = Current
  <2>1. /\ file'[Current] = payload[p] /\ Readable(payload[p], Current)
        /\ \A s \in Ids : file'[s] = file[s]
    BY <1>3, NamesAssumption DEF Publishes, Names
  <2>2. payload[p].active = Sid(p)
    BY <1>1, <1>3 DEF CallInv, Publishes, InTry
  <2>3. Readable(file[Sid(p)], Sid(p)) /\ Sid(p) \in Ids
    BY <1>1, <1>3 DEF CallInv, Stored
  <2> QED
    BY <1>1, <1>3, <2>1, <2>2, <2>3 DEF CallInv, Rotated, Stored, HasManifest, InTry
<1> QED BY <1>2, <1>3 DEF Publishes

LEMMA TryCall ==
  ASSUME CallsInv, Serial, NEW p \in Writers, TryStep(p)
  PROVE  CallInv(p)'
<1>1. CASE Publishes(p)
  BY <1>1, PublishCall
<1>2. CASE file' = file /\ stage'[p] # "moved"
  BY <1>2, TryMovesOrNot DEF CallsInv, CallInv, Rotated, Stored, HasManifest, InTry
<1> QED BY <1>1, <1>2, TryMovesOrNot DEF CallsInv

LEMMA SyncCall ==
  ASSUME CallsInv, NEW p \in Writers,
         \/ FetchFails(p) \/ FetchCatalogue(p) \/ ProbeExisting(p)
         \/ ProbeAbsent(p) \/ CreateSnapshot(p) \/ LeaveSave(p)
         \/ ReadManifest(p) \/ RotateFails(p) \/ LeaveRotate(p) \/ Crash(p)
  PROVE  CallInv(p)'
<1> USE CallerTypes DEF CallsInv, SiblingInv, Goto, Return
<1>0. file' = file
  BY CallKeepsFiles
<1>1. CASE FetchFails(p) \/ RotateFails(p) \/ LeaveRotate(p) \/ Crash(p)
  BY <1>1 DEF FetchFails, RotateFails, LeaveRotate, Crash, CallInv
<1>2. CASE FetchCatalogue(p)
  BY <1>0, <1>2 DEF FetchCatalogue, CallInv, Rotated, Stored, InTry
<1>3. CASE ProbeAbsent(p)
  BY <1>0, <1>3 DEF ProbeAbsent, CallInv, Rotated, Stored
<1>4. CASE ProbeExisting(p)
  <2>1. \A c : Reads(Sid(p), c) /\ Readable(c, Sid(p)) => c = file[Sid(p)]
    BY ReadsDocument, ReadableDocument
  <2> QED
    BY <1>0, <1>4, <2>1 DEF ProbeExisting, CallInv, Rotated, Stored, Sid
<1>5. CASE CreateSnapshot(p)
  <2>1. pc[p] = "create" /\ file[Sid(p)] = Absent
    BY <1>5 DEF CreateSnapshot, Sibling
  <2>2. pc'[p] = "idle" \/ (pc'[p] = "saving" /\ stage'[p] = "open")
    BY <1>5, <2>1 DEF CreateSnapshot, BeginWrite
  <2>3. pc'[p] = "saving" => before' = before /\ Sid(p)' = Sid(p)
    BY <1>5 DEF CreateSnapshot, Sid
  <2> QED BY <1>0, <2>1, <2>2, <2>3 DEF CallInv, Rotated, Stored
<1>6. CASE LeaveSave(p)
  BY <1>0, <1>6 DEF LeaveSave, CallInv, Rotated, Stored, Sid
<1>7. CASE ReadManifest(p)
  <2>1. \/ pc'[p] = "idle"
        \/ /\ pc'[p] = "rotating" /\ stage'[p] = "open"
           /\ payload'[p].active = Sid(p)
    BY <1>7 DEF ReadManifest, BeginWrite, ManifestDoc
  <2>2. pc'[p] = "rotating" => before' = before /\ Sid(p)' = Sid(p)
    BY <1>7 DEF ReadManifest, Sid
  <2>3. pc[p] = "manifest"
    BY <1>7 DEF ReadManifest
  <2> QED BY <1>0, <2>1, <2>2, <2>3 DEF CallInv, Rotated, Stored, HasManifest
<1> QED BY <1>1, <1>2, <1>3, <1>4, <1>5, <1>6, <1>7

LEMMA CallsNext ==
  ASSUME Serial, NoDamage
  PROVE  CallsInv /\ [Next]_vars => CallsInv'
<1> SUFFICES ASSUME CallsInv, [Next]_vars PROVE CallsInv'
  OBVIOUS
<1>1. SiblingInv'
  BY SiblingNext DEF CallsInv
<1>2. \A q \in Writers : CallInv(q)'
  <2>1. ASSUME NEW p \in Writers,
               FetchFails(p) \/ FetchCatalogue(p) \/ SyncStep(p) \/ Crash(p)
        PROVE  \A q \in Writers : CallInv(q)'
    BY <2>1, TryCall, SyncCall DEF SyncStep, Serial
  <2>2. CASE UNCHANGED <<atomicVars, syncVars>>
    BY <2>2 DEF atomicVars, syncVars, CallsInv, CallInv, Rotated, Stored, Sid,
                HasManifest
  <2>3. CASE PowerLoss
    BY <2>3 DEF PowerLoss, CallInv
  <2>4. \A t \in Names : ~Damage(t)
    BY DEF Damage, Fault, NoDamage
  <2>5. CASE UNCHANGED vars
    BY <2>5, <2>2 DEF vars, atomicVars, syncVars
  <2> QED
    BY <2>1, <2>2, <2>3, <2>4, <2>5, ReaderKeeps, KernelKeeps DEF Next, Environment
<1> QED BY <1>1, <1>2 DEF CallsInv

LEMMA CallsAlways ==
  ASSUME Serial, NoDamage
  PROVE  Spec => []CallsInv
<1>1. Init => CallsInv
  BY SiblingInit DEF Init, CallsInv, CallInv
<1> QED BY <1>1, CallsNext, PTL DEF Spec

\* A call returns in a step of its own, which moves no file.
LEMMA ReturningStep ==
  ASSUME SiblingInv, Serial, [Next]_vars, NEW p \in Writers, NEW r,
         Returns(p, r), r # "crashed"
  PROVE  /\ file' = file
         /\ \/ ProbeExisting(p) \/ CreateSnapshot(p) \/ LeaveSave(p)
            \/ ReadManifest(p) \/ RotateFails(p) \/ LeaveRotate(p)
<1>0. /\ pc[p] # "idle" /\ pc'[p] = "idle" /\ result'[p] = r
      /\ result \in [Writers -> Results] /\ pc \in [Writers -> PCs]
  BY CallerTypes DEF Returns, SiblingInv
<1>1. ~UNCHANGED pc
  BY <1>0
<1>2. ~\E q \in Readers : LoadManifest(q) \/ ReadStep(q)
  BY <1>1, ReaderKeeps DEF syncVars
<1>3. ~Environment
  <2>1. \A q \in Writers : ~Crash(q)
    BY <1>0 DEF Crash, Return, Serial
  <2>2. \A t \in Names : ~Damage(t) /\ ~Writeback(t)
    BY <1>1, KernelKeeps DEF Damage, syncVars
  <2>3. ~PowerLoss
    BY <1>0 DEF PowerLoss
  <2> QED BY <2>1, <2>2, <2>3 DEF Environment
<1>4. ~TryStep(p) /\ ~FetchCatalogue(p) /\ ~ProbeAbsent(p) /\ ~FetchFails(p)
  BY <1>0 DEF TryStep, syncVars, FetchCatalogue, FetchFails, ProbeAbsent, Goto
<1>5. \/ ProbeExisting(p) \/ CreateSnapshot(p) \/ LeaveSave(p)
      \/ ReadManifest(p) \/ RotateFails(p) \/ LeaveRotate(p)
  BY <1>1, <1>2, <1>3, <1>4 DEF Next, SyncStep, vars, Serial
<1> QED BY <1>5, CallKeepsFiles

\* A call that says ok found its snapshot active or has just moved its
\* manifest in place; a call that reports a failure has not.
LEMMA OutcomeTold ==
  ASSUME SiblingInv, Serial, [Next]_vars, NEW p \in Writers, NEW r, Returns(p, r)
  PROVE  /\ r = "ok" => \/ Rotated(p)
                        \/ pc[p] = "manifest" /\ IsActive(file[Current], Sid(p))
         /\ r \in Failures => ~Rotated(p)
<1>1. /\ pc[p] # "idle" /\ pc'[p] = "idle" /\ result'[p] = r
      /\ result \in [Writers -> Results] /\ pc \in [Writers -> PCs]
  BY CallerTypes DEF Returns, SiblingInv
<1> USE DEF Goto, Return, Rotated, Failures
<1>2. CASE ProbeExisting(p) \/ CreateSnapshot(p) \/ LeaveSave(p) \/ RotateFails(p)
  BY <1>1, <1>2 DEF ProbeExisting, CreateSnapshot, LeaveSave, RotateFails
<1>3. CASE LeaveRotate(p)
  BY <1>1, <1>3 DEF LeaveRotate
<1>4. CASE ReadManifest(p)
  <2>1. \A c : Reads(Current, c) /\ IsActive(c, Sid(p)) => c = file[Current]
    BY ReadsDocument, ReadableDocument DEF IsActive
  <2> QED BY <1>1, <1>4, <2>1 DEF ReadManifest
<1> QED BY <1>1, <1>2, <1>3, <1>4, ReturningStep

\* One call at a time: success leaves a manifest that names the call's
\* snapshot, and that snapshot loads.  It holds through power cuts that tear
\* files of earlier calls and through reads that fail.
THEOREM SuccessLoads ==
  ASSUME Serial, NoDamage
  PROVE  Spec => OkMeansLoadable
<1>1. ASSUME CallsInv, [Next]_vars, NEW p \in Writers, Returns(p, "ok")
      PROVE  /\ HasManifest' /\ file'[Current].active = Sid(p)
             /\ Readable(file'[Sid(p)], Sid(p))
  <2>1. file' = file /\ CallInv(p) /\ pc[p] # "idle" /\ SiblingInv
    BY <1>1, ReturningStep DEF Returns, CallsInv
  <2>2. CASE Rotated(p)
    BY <2>1, <2>2 DEF CallInv, Rotated, Stored, HasManifest
  <2>3. CASE pc[p] = "manifest" /\ IsActive(file[Current], Sid(p))
    BY <2>1, <2>3 DEF CallInv, Stored, IsActive, HasManifest
  <2> QED BY <1>1, <2>1, <2>2, <2>3, OutcomeTold
<1>2. CallsInv /\ [Next]_vars
        => [\A p \in Writers :
              Returns(p, "ok") => /\ HasManifest'
                                  /\ file'[Current].active = Sid(p)
                                  /\ Readable(file'[Sid(p)], Sid(p))]_vars
  BY <1>1
<1> QED BY <1>2, CallsAlways, PTL DEF Spec, OkMeansLoadable

\* One call at a time: a call that reports a failure leaves the manifest and
\* every snapshot that was there as it found them, torn ones included.
THEOREM FailureChangesNothing ==
  ASSUME Serial, NoDamage
  PROVE  Spec => FailureKeepsCatalogue
<1>1. ASSUME CallsInv, [Next]_vars, NEW p \in Writers,
             NEW r \in Failures, Returns(p, r),
             NEW t \in Names, before[p][t] # Absent \/ t = Current
      PROVE  file'[t] = before[p][t]
  <2>1. file' = file /\ CallInv(p) /\ pc[p] # "idle" /\ ~Rotated(p)
    BY <1>1, ReturningStep, OutcomeTold DEF Returns, CallsInv, Failures
  <2> QED BY <1>1, <2>1 DEF CallInv, Names
<1>2. CallsInv /\ [Next]_vars
        => [\A p \in Writers :
              (\E r \in Failures : Returns(p, r)) =>
                 \A t \in Names : before[p][t] # Absent \/ t = Current
                                     => file'[t] = before[p][t]]_vars
  BY <1>1
<1> QED BY <1>2, CallsAlways, PTL DEF Spec, FailureKeepsCatalogue

-----------------------------------------------------------------------------
(* Which manifest a call leaves, while no read fails.                      *)

\* A rotation is computed from the manifest the call found.
RotatesInv(p) ==
  LET old == before[p][Current]
      new == ManifestDoc(Sid(p), RotatedOut(old)) IN
  pc[p] = "rotating" =>
    /\ old # Undecodable /\ ~IsActive(old, Sid(p))
    /\ stage[p] \in InTry => payload[p] = new
    /\ stage[p] = "moved" => file[Current] = new

RotationInv == CallsInv /\ \A p \in Writers : RotatesInv(p)

LEMMA ReadsFile ==
  ASSUME NoReadError, NEW t, NEW c, Reads(t, c)
  PROVE  c = file[t]
  BY DEF Reads, Fault, NoReadError

LEMMA RotationStep ==
  ASSUME RotationInv, Serial, NoReadError, NEW p \in Writers,
         FetchFails(p) \/ FetchCatalogue(p) \/ SyncStep(p) \/ Crash(p)
  PROVE  RotatesInv(p)'
<1> USE CallerTypes DEF RotationInv, CallsInv, SiblingInv
<1>1. CASE TryStep(p)
  <2>1. /\ UNCHANGED <<pc, before, payload>> /\ Sid(p)' = Sid(p)
        /\ stage[p] \in InTry
        /\ Publishes(p) \/ (file' = file /\ stage'[p] # "moved")
    BY <1>1, TryMovesOrNot
  <2>2. CASE Publishes(p)
    BY <2>1, <2>2 DEF Publishes, RotatesInv, Names, InTry
  <2>3. CASE file' = file /\ stage'[p] # "moved"
    BY <2>1, <2>3 DEF RotatesInv
  <2> QED BY <2>1, <2>2, <2>3
<1>2. CASE ReadManifest(p)
  <2>1. CASE pc'[p] = "rotating"
    <3>1. PICK c \in Contents :
            /\ c = file[Current] /\ c # Undecodable /\ ~IsActive(c, Sid(p))
            /\ BeginWrite(p, Current, ManifestDoc(Sid(p), RotatedOut(c)))
            /\ Goto(p, "rotating")
      BY <1>2, <2>1, ReadsFile DEF ReadManifest, Return
    <3>2. pc[p] = "manifest" /\ file[Current] = before[p][Current]
      BY <1>2 DEF ReadManifest, CallInv, Rotated
    <3>3. /\ payload'[p] = ManifestDoc(Sid(p), RotatedOut(c))
          /\ stage'[p] = "open" /\ before' = before /\ Sid(p)' = Sid(p)
      BY <3>1 DEF BeginWrite, Goto, Sid
    <3> QED BY <3>1, <3>2, <3>3 DEF RotatesInv
  <2> QED BY <2>1 DEF RotatesInv
<1>3. CASE \/ FetchFails(p) \/ FetchCatalogue(p) \/ ProbeExisting(p)
           \/ ProbeAbsent(p) \/ CreateSnapshot(p) \/ LeaveSave(p)
           \/ RotateFails(p) \/ LeaveRotate(p) \/ Crash(p)
  <2>1. pc'[p] # "rotating"
    BY <1>3 DEF FetchFails, FetchCatalogue, ProbeExisting, ProbeAbsent,
       CreateSnapshot, LeaveSave, RotateFails, LeaveRotate, Crash, Goto, Return
  <2> QED BY <2>1 DEF RotatesInv
<1> QED BY <1>1, <1>2, <1>3 DEF SyncStep

LEMMA RotationNext ==
  ASSUME Serial, NoDamage, NoReadError
  PROVE  RotationInv /\ [Next]_vars => RotationInv'
<1> SUFFICES ASSUME RotationInv, [Next]_vars PROVE RotationInv'
  OBVIOUS
<1>1. CallsInv'
  BY CallsNext DEF RotationInv
<1>2. \A q \in Writers : RotatesInv(q)'
  <2>1. ASSUME NEW p \in Writers,
               FetchFails(p) \/ FetchCatalogue(p) \/ SyncStep(p) \/ Crash(p)
        PROVE  \A q \in Writers : RotatesInv(q)'
    BY <2>1, RotationStep DEF Serial
  <2>2. CASE UNCHANGED <<atomicVars, syncVars>>
    BY <2>2 DEF atomicVars, syncVars, RotationInv, RotatesInv, Sid
  <2>3. CASE PowerLoss
    BY <2>3 DEF PowerLoss, RotatesInv
  <2>4. \A t \in Names : ~Damage(t)
    BY DEF Damage, Fault, NoDamage
  <2>5. CASE UNCHANGED vars
    BY <2>5, <2>2 DEF vars, atomicVars, syncVars
  <2> QED
    BY <2>1, <2>2, <2>3, <2>4, <2>5, ReaderKeeps, KernelKeeps DEF Next, Environment
<1> QED BY <1>1, <1>2 DEF RotationInv

LEMMA RotationAlways ==
  ASSUME Serial, NoDamage, NoReadError
  PROVE  Spec => []RotationInv
<1>1. Init => CallsInv
  BY SiblingInit DEF Init, CallsInv, CallInv
<1>2. Init => RotationInv
  BY <1>1 DEF Init, RotationInv, RotatesInv
<1> QED BY <1>2, RotationNext, PTL DEF Spec

\* One call at a time: success leaves its snapshot active and the one that
\* was active before as the fallback, and rewrites nothing needlessly, also
\* over a manifest that a power cut tore.
THEOREM SuccessRotates ==
  ASSUME Serial, NoDamage, NoReadError
  PROVE  Spec => RotationRemembers
<1>1. ASSUME RotationInv, [Next]_vars, NEW p \in Writers, Returns(p, "ok")
      PROVE  LET old == before[p][Current] IN
             file'[Current] =
                IF Rejected(old, Current) THEN ManifestDoc(Sid(p), NoId)
                ELSE IF old.active = Sid(p) THEN old
                ELSE ManifestDoc(Sid(p), old.active)
  <2>1. /\ file' = file /\ CallInv(p) /\ RotatesInv(p)
        /\ pc[p] # "idle" /\ SiblingInv
    BY <1>1, ReturningStep DEF Returns, RotationInv, CallsInv
  <2>2. CASE Rotated(p)
    BY <2>1, <2>2 DEF RotatesInv, Rotated, IsActive, Rejected, RotatedOut
  <2>3. CASE pc[p] = "manifest" /\ IsActive(file[Current], Sid(p))
    BY <2>1, <2>3 DEF CallInv, Rotated, IsActive, Rejected
  <2> QED BY <1>1, <2>1, <2>2, <2>3, OutcomeTold
<1>2. RotationInv /\ [Next]_vars
        => [\A p \in Writers :
              Returns(p, "ok") =>
                LET old == before[p][Current] IN
                file'[Current] =
                   IF Rejected(old, Current) THEN ManifestDoc(Sid(p), NoId)
                   ELSE IF old.active = Sid(p) THEN old
                   ELSE ManifestDoc(Sid(p), old.active)]_vars
  BY <1>1
<1> QED BY <1>2, RotationAlways, PTL DEF Spec, RotationRemembers

-----------------------------------------------------------------------------
(* Two generations survive one fault.                                      *)

\* The hypotheses: one file may be damaged, or one call fail or die.
OneFault    == MaxFaults <= 1
NoPowerLoss == "powerloss" \notin FaultKinds

\* A snapshot is needed if a manifest names it, in the directory, in the
\* memory of the caller or in that of a reader, or if the caller is past
\* putting it in place and will have a manifest name it.
Loads(s)   == Readable(file[s], s)
NamedBy(c) == IF c.kind = "manifest" THEN {c.active, c.previous} ELSE {}
Needed(s)  ==
  \/ s \in NamedBy(file[Current])
  \/ \E p \in Writers : s \in NamedBy(payload[p]) \/ (Stored(p) /\ s = Sid(p))
  \/ \E r \in Readers : rpc[r] # "idle" /\ s \in NamedBy(seen[r])

\* The two generations of a manifest are two snapshots.
TwoOf(c) == c.kind = "manifest" => c.active # c.previous

\* Without a fault every needed snapshot loads, and a fault spoils one.
Spared ==
  /\ faults = 0 => \A s \in Ids : Needed(s) => Loads(s)
  /\ \A s, t \in Ids : Needed(s) /\ Needed(t) => Loads(s) \/ Loads(t) \/ s = t

SurvivalInv ==
  /\ SiblingInv
  /\ Spared
  /\ TwoOf(file[Current])
  /\ \A p \in Writers : TwoOf(payload[p])

\* A snapshot that loads goes on loading, except when it is itself damaged.
LEMMA LoadsStay ==
  ASSUME SiblingInv, Serial, NoPowerLoss, [Next]_vars, NEW s \in Ids, Loads(s)
  PROVE  Loads(s)' \/ Damage(s)
<1> USE CallerTypes DEF SiblingInv
<1>1. file[s] # Absent /\ s # Current /\ s \in Names
  BY NamesAssumption DEF Loads, Readable, Absent, Names
<1>2. CASE file' = file
  BY <1>2 DEF Loads
<1>3. ASSUME NEW p \in Writers, Publishes(p)
      PROVE  file'[s] = file[s]
  BY <1>1, <1>3 DEF Publishes
<1>4. ASSUME NEW t \in Names, Damage(t), t # s
      PROVE  file'[s] = file[s]
  BY <1>1, <1>4 DEF Damage
<1>5. ~PowerLoss
  BY DEF PowerLoss, Fault, NoPowerLoss
<1> QED BY <1>2, <1>3, <1>4, <1>5, FileMoves DEF Loads

\* Only documents name anything, and what is no document names nothing.
LEMMA PlainNames ==
  /\ \A c \in Plain \cup Snapshots : NamedBy(c) = {}
  /\ \A c : NamedBy(c) # {} => IsDocument(c)
  /\ \A c \in Plain \cup Snapshots : TwoOf(c)
  BY Kinds DEF NamedBy, TwoOf, IsDocument, Snapshots

\* What a rotation will name was needed before: the call's own snapshot and
\* the one the manifest names, or None.
LEMMA RotationNames ==
  ASSUME SurvivalInv, NEW p \in Writers, pc[p] = "manifest",
         NEW c, Reads(Current, c), ~IsActive(c, Sid(p)),
         NEW d, d = ManifestDoc(Sid(p), RotatedOut(c))
  PROVE  /\ \A s \in Ids : s \in NamedBy(d) => Needed(s)
         /\ TwoOf(d)
<1>1. Sid(p) \in Ids /\ Sid(p) # NoId
  BY CallerTypes, NamesAssumption DEF SurvivalInv, SiblingInv, Names
<1>2. Stored(p)
  BY DEF Stored
<1>3. CASE Readable(c, Current)
  <2>1. c = file[Current] /\ c.kind = "manifest"
    BY <1>3, ReadsDocument, ReadableDocument DEF Readable
  <2>2. d.active = Sid(p) /\ d.previous = c.active /\ c.active # Sid(p)
    BY <1>3 DEF ManifestDoc, RotatedOut, IsActive
  <2> QED BY <1>2, <2>1, <2>2 DEF NamedBy, Needed, TwoOf
<1>4. CASE ~Readable(c, Current)
  <2>1. d.active = Sid(p) /\ d.previous = NoId
    BY <1>4 DEF ManifestDoc, RotatedOut
  <2> QED BY <1>1, <1>2, <2>1, NamesAssumption DEF NamedBy, Needed, TwoOf, Names
<1> QED BY <1>3, <1>4

\* Who holds what: the directory, the caller, the reader.
HeldByFile(s)      == s \in NamedBy(file[Current])
HeldByCaller(p, s) == s \in NamedBy(payload[p]) \/ (Stored(p) /\ s = Sid(p))
HeldByReader(r, s) == rpc[r] # "idle" /\ s \in NamedBy(seen[r])

LEMMA TryHolds ==
  ASSUME SurvivalInv, Serial, NEW p \in Writers, TryStep(p), NEW s
  PROVE  /\ HeldByFile(s)' => Needed(s)
         /\ s \in Ids /\ HeldByCaller(p, s)' => Needed(s) \/ Loads(s)'
         /\ TwoOf(file[Current])' /\ TwoOf(payload[p])'
<1> USE CallerTypes DEF SurvivalInv, SiblingInv, HeldByFile, HeldByCaller
<1>1. /\ UNCHANGED <<pc, payload>> /\ Sid(p)' = Sid(p)
      /\ stage[p] \in InTry /\ pc[p] \in {"saving", "rotating"}
  BY TryMovesOrNot
<1>2. CASE file' = file /\ stage'[p] # "moved"
  BY <1>1, <1>2 DEF Needed, Stored
<1>3. CASE Publishes(p) /\ pc[p] = "saving"
  <2>1. /\ target[p] = Sid(p) /\ Readable(payload[p], Sid(p))
        /\ file' = [file EXCEPT ![Sid(p)] = payload[p]]
    BY <1>3 DEF Publishes
  <2>2. file'[Current] = file[Current] /\ Loads(Sid(p))'
    BY <1>1, <2>1 DEF Loads, Names
  <2> QED BY <1>1, <2>2 DEF Needed
<1>4. CASE Publishes(p) /\ pc[p] = "rotating"
  <2>1. file'[Current] = payload[p]
    BY <1>4 DEF Publishes, Names
  <2> QED BY <1>1, <1>4, <2>1 DEF Needed, Stored
<1> QED BY <1>1, <1>2, <1>3, <1>4, TryMovesOrNot

LEMMA SyncHolds ==
  ASSUME SurvivalInv, NEW p \in Writers,
         \/ FetchFails(p) \/ FetchCatalogue(p) \/ ProbeExisting(p)
         \/ ProbeAbsent(p) \/ CreateSnapshot(p) \/ LeaveSave(p)
         \/ ReadManifest(p) \/ RotateFails(p) \/ LeaveRotate(p) \/ Crash(p),
         NEW s
  PROVE  /\ s \in Ids /\ HeldByCaller(p, s)' => Needed(s) \/ Loads(s)'
         /\ TwoOf(payload[p])'
<1> USE CallerTypes
    DEF SurvivalInv, SiblingInv, HeldByCaller, Goto, Return
<1>0. /\ file' = file
      /\ s \in NamedBy(payload[p]) \/ (Stored(p) /\ s = Sid(p)) => Needed(s)
      /\ \A c \in Plain \cup Snapshots : NamedBy(c) = {} /\ TwoOf(c)
      /\ Absent \in Plain
  BY CallKeepsFiles, PlainNames DEF Needed, Plain
<1>1. CASE FetchFails(p) \/ RotateFails(p)
  BY <1>0, <1>1 DEF FetchFails, RotateFails, Stored, atomicVars
<1>2. CASE FetchCatalogue(p) \/ ProbeAbsent(p)
  BY <1>0, <1>2 DEF FetchCatalogue, ProbeAbsent, Stored, atomicVars
<1>3. CASE ProbeExisting(p)
  <2>1. \A c : Reads(Sid(p), c) /\ Readable(c, Sid(p)) => c = file[Sid(p)]
    BY ReadsDocument, ReadableDocument
  <2>2. payload' = payload
    BY <1>3 DEF ProbeExisting, atomicVars
  <2>3. Stored(p)' => Loads(Sid(p)) /\ Sid(p)' = Sid(p)
    BY <1>3, <2>1 DEF ProbeExisting, Stored, Loads, Sid
  <2>4. Loads(Sid(p)) /\ Sid(p)' = Sid(p) /\ s = Sid(p)' => Loads(s)'
    BY <1>0 DEF Loads
  <2> QED BY <1>0, <2>2, <2>3, <2>4
<1>4. CASE CreateSnapshot(p)
  <2>1. file[Sid(p)] = Absent /\ pc[p] = "create"
    BY <1>4 DEF CreateSnapshot, Sibling
  <2>2. ~Stored(p)'
    BY <1>4, <2>1 DEF CreateSnapshot, BeginWrite, Stored, atomicVars
  <2>3. payload'[p] \in {payload[p], catalogue[p]} /\ catalogue[p] \in Snapshots
    BY <1>4, <2>1 DEF CreateSnapshot, BeginWrite, atomicVars
  <2> QED BY <1>0, <2>2, <2>3
<1>5. CASE LeaveSave(p) \/ LeaveRotate(p)
  <2>1. payload'[p] = Absent
    BY <1>5 DEF LeaveSave, LeaveRotate, RemoveTemp, Close
  <2>2. Stored(p)' => Stored(p) /\ Sid(p)' = Sid(p)
    BY <1>5 DEF LeaveSave, LeaveRotate, Stored, Sid
  <2> QED BY <1>0, <2>1, <2>2
<1>6. CASE ReadManifest(p)
  <2>1. pc[p] = "manifest" /\ Stored(p)
    BY <1>6 DEF ReadManifest, Stored
  <2>2. CASE UNCHANGED atomicVars /\ pc'[p] = "idle"
    BY <1>0, <2>2 DEF atomicVars, Stored
  <2>3. ASSUME NEW c \in Contents, Reads(Current, c), ~IsActive(c, Sid(p)),
               BeginWrite(p, Current, ManifestDoc(Sid(p), RotatedOut(c))),
               Goto(p, "rotating")
        PROVE  /\ s \in Ids /\ HeldByCaller(p, s)' => Needed(s) \/ Loads(s)'
               /\ TwoOf(payload[p])'
    <3>1. payload'[p] = ManifestDoc(Sid(p), RotatedOut(c)) /\ Sid(p)' = Sid(p)
      BY <2>3 DEF BeginWrite, Sid
    <3> QED BY <1>0, <2>1, <2>3, <3>1, RotationNames
  <2> QED BY <1>6, <2>2, <2>3 DEF ReadManifest
<1>7. CASE Crash(p)
  BY <1>0, <1>7 DEF Crash, Stored
<1> QED BY <1>1, <1>2, <1>3, <1>4, <1>5, <1>6, <1>7

LEMMA ReaderHolds ==
  ASSUME TypeInv, NEW r \in Readers, LoadManifest(r) \/ ReadStep(r), NEW s \in Ids
  PROVE  \A q \in Readers : HeldByReader(q, s)' => Needed(s)
<1> USE DEF TypeInv, TypeOK, ReaderTypes
<1>1. ASSUME NEW q \in Readers, q # r
      PROVE  HeldByReader(q, s)' => Needed(s)
  BY <1>1, ReaderLocal DEF HeldByReader, Needed
<1>2. HeldByReader(r, s)' => Needed(s)
  <2>1. CASE LoadManifest(r)
    <3>1. PICK c \in Contents :
            /\ Reads(Current, c) /\ seen'[r] = c
            /\ rpc'[r] # "idle" => Readable(c, Current)
      BY <2>1 DEF LoadManifest, Answer
    <3>2. rpc'[r] # "idle" => c = file[Current]
      BY <3>1, ReadsDocument, ReadableDocument
    <3> QED BY <3>1, <3>2 DEF HeldByReader, Needed
  <2>2. CASE LoadActive(r)
    BY <2>2 DEF LoadActive, HeldByReader, Needed
  <2>3. CASE LoadPrevious(r)
    BY <2>3 DEF LoadPrevious, HeldByReader, Needed
  <2> QED BY <2>1, <2>2, <2>3 DEF ReadStep
<1> QED BY <1>1, <1>2

\* The steps of a call leave the readers alone.
LEMMA CallerKeeps ==
  ASSUME NEW p \in Writers,
         FetchFails(p) \/ FetchCatalogue(p) \/ SyncStep(p) \/ Crash(p)
  PROVE  UNCHANGED readerVars
  BY DEF SyncStep, FetchFails, FetchCatalogue, ProbeExisting, ProbeAbsent,
     CreateSnapshot, LeaveSave, ReadManifest, RotateFails, LeaveRotate, Crash,
     TryStep

\* No step makes anybody need a snapshot that was not needed before and does
\* not load.
LEMMA NeededMoves ==
  ASSUME SurvivalInv, Serial, NoPowerLoss, [Next]_vars
  PROVE  /\ \A s \in Ids : Needed(s)' => Needed(s) \/ Loads(s)'
         /\ TwoOf(file[Current])' /\ \A p \in Writers : TwoOf(payload[p])'
<1> DEFINE Goal == /\ \A s \in Ids : Needed(s)' => Needed(s) \/ Loads(s)'
                   /\ TwoOf(file[Current])' /\ \A p \in Writers : TwoOf(payload[p])'
<1>1. ASSUME NEW p \in Writers,
             FetchFails(p) \/ FetchCatalogue(p) \/ SyncStep(p) \/ Crash(p)
      PROVE  Goal
  <2>1. \A q \in Writers : q = p
    BY DEF Serial
  <2>2. ASSUME NEW s
        PROVE  /\ HeldByFile(s)' => Needed(s)
               /\ s \in Ids /\ HeldByCaller(p, s)' => Needed(s) \/ Loads(s)'
               /\ TwoOf(file[Current])' /\ TwoOf(payload[p])'
    <3>1. CASE TryStep(p)
      BY <3>1, TryHolds
    <3>2. CASE ~TryStep(p)
      <4>1. file' = file
        BY <1>1, <3>2, CallKeepsFiles DEF SyncStep
      <4>2. /\ s \in Ids /\ HeldByCaller(p, s)' => Needed(s) \/ Loads(s)'
            /\ TwoOf(payload[p])'
        BY <1>1, <3>2, SyncHolds DEF SyncStep
      <4> QED BY <4>1, <4>2 DEF HeldByFile, Needed, SurvivalInv, TwoOf
    <3> QED BY <3>1, <3>2
  <2>3. ASSUME NEW r \in Readers, NEW s, HeldByReader(r, s)'
        PROVE  Needed(s)
    BY <1>1, <2>3, CallerKeeps DEF readerVars, HeldByReader, Needed
  <2>4. ASSUME NEW s \in Ids, Needed(s)'
        PROVE  Needed(s) \/ Loads(s)'
    BY <2>1, <2>2, <2>3, <2>4 DEF Needed, HeldByFile, HeldByCaller, HeldByReader
  <2> QED BY <2>1, <2>2, <2>4
<1>2. ASSUME NEW r \in Readers, LoadManifest(r) \/ ReadStep(r)
      PROVE  Goal
  <2>1. /\ UNCHANGED <<file, payload, pc, stage, catalogue>>
        /\ \A p \in Writers : Sid(p)' = Sid(p) /\ Stored(p)' = Stored(p)
    BY <1>2, ReaderKeeps DEF atomicVars, syncVars, Sid, Stored
  <2>2. \A s \in Ids : Needed(s)' => Needed(s)
    <3>1. TypeInv
      BY DEF SurvivalInv, SiblingInv
    <3>2. ASSUME NEW s \in Ids, Needed(s)' PROVE Needed(s)
      <4>1. \A q \in Readers : HeldByReader(q, s)' => Needed(s)
        BY <1>2, <3>1, ReaderHolds
      <4> QED BY <2>1, <3>2, <4>1 DEF Needed, HeldByReader
    <3> QED BY <3>2
  <2> QED BY <2>1, <2>2 DEF SurvivalInv, TwoOf
<1>3. ASSUME NEW t \in Names, Damage(t)
      PROVE  Goal
  <2>1. /\ UNCHANGED <<payload, pc, stage, catalogue, rpc, seen>>
        /\ \A p \in Writers : Sid(p)' = Sid(p) /\ Stored(p)' = Stored(p)
    BY <1>3 DEF Damage, writerVars, syncVars, readerVars, Sid, Stored
  <2>2. file'[Current] \in {file[Current]} \cup Plain \cup Snapshots
    BY <1>3, FaultsAssumption, CallerTypes
    DEF Damage, Plain, SurvivalInv, SiblingInv, TypeInv, TypeOK, DiskTypes, Names
  <2>3. /\ NamedBy(file'[Current]) \subseteq NamedBy(file[Current])
        /\ TwoOf(file'[Current])
    BY <2>2, PlainNames DEF SurvivalInv
  <2>4. \A s \in Ids : Needed(s)' => Needed(s)
    BY <2>1, <2>3 DEF Needed
  <2> QED BY <2>1, <2>3, <2>4 DEF SurvivalInv, TwoOf
<1>4. CASE UNCHANGED <<atomicVars, syncVars, readerVars>>
  <2>1. /\ UNCHANGED <<file, payload, pc, stage, catalogue, rpc, seen>>
        /\ \A p \in Writers : Sid(p)' = Sid(p) /\ Stored(p)' = Stored(p)
    BY <1>4 DEF atomicVars, syncVars, readerVars, Sid, Stored
  <2> QED BY <2>1 DEF Needed, SurvivalInv, TwoOf
<1>5. ~PowerLoss
  BY DEF PowerLoss, Fault, NoPowerLoss
<1>6. CASE UNCHANGED vars
  BY <1>4, <1>6 DEF vars, atomicVars, syncVars, readerVars
<1> QED
  BY <1>1, <1>2, <1>3, <1>4, <1>5, <1>6, KernelKeeps DEF Next, Environment

\* Faults are counted, and there is room for one.
LEMMA FaultsCount ==
  ASSUME TypeInv, OneFault, [Next]_vars
  PROVE  /\ faults \in {0, 1} /\ faults' \in {0, 1}
         /\ faults = 1 => faults' = 1
         /\ \A t \in Names : Damage(t) => faults = 0 /\ faults' = 1
         /\ \A t, c : Reads(t, c) /\ c # file[t] => faults = 0 /\ faults' = 1
<1>1. faults \in {0, 1} /\ faults' \in {0, 1}
  <2>1. faults \in 0 .. MaxFaults /\ faults' \in 0 .. MaxFaults
    BY NextType DEF TypeInv, TypeOK
  <2> QED BY <2>1, FaultsAssumption DEF OneFault
<1>2. \A kind : Fault(kind) => faults = 0 /\ faults' = 1
  BY <1>1, FaultsAssumption DEF Fault, OneFault
<1>3. faults' = faults \/ (faults = 0 /\ faults' = 1)
  <2>1. ASSUME NEW p \in Writers,
               FetchFails(p) \/ FetchCatalogue(p) \/ SyncStep(p) \/ Crash(p)
        PROVE  faults' = faults \/ (faults = 0 /\ faults' = 1)
    BY <1>2, <2>1 DEF SyncStep, FetchFails, FetchCatalogue, ProbeExisting, ProbeAbsent,
       CreateSnapshot, LeaveSave, ReadManifest, RotateFails, LeaveRotate, Crash,
       TryStep, Reads
  <2>2. ASSUME NEW r \in Readers, LoadManifest(r) \/ ReadStep(r)
        PROVE  faults' = faults \/ (faults = 0 /\ faults' = 1)
    BY <1>2, <2>2 DEF LoadManifest, ReadStep, LoadActive, LoadPrevious,
       TryCandidate, Reads
  <2>3. ASSUME NEW t \in Names, Damage(t) \/ Writeback(t)
        PROVE  faults' = faults \/ (faults = 0 /\ faults' = 1)
    BY <1>2, <2>3 DEF Damage, Writeback
  <2>4. PowerLoss => faults = 0 /\ faults' = 1
    BY <1>2 DEF PowerLoss
  <2> QED BY <2>1, <2>2, <2>3, <2>4 DEF Next, Environment, vars
<1>4. \A t \in Names : Damage(t) => faults = 0 /\ faults' = 1
  BY <1>2 DEF Damage
<1>5. \A t, c : Reads(t, c) /\ c # file[t] => faults = 0 /\ faults' = 1
  BY <1>2 DEF Reads
<1> QED BY <1>1, <1>3, <1>4, <1>5

LEMMA SurvivalNext ==
  ASSUME Serial, OneFault, NoPowerLoss
  PROVE  SurvivalInv /\ [Next]_vars => SurvivalInv'
<1> SUFFICES ASSUME SurvivalInv, [Next]_vars PROVE SurvivalInv'
  OBVIOUS
<1>1. SiblingInv'
  BY SiblingNext DEF SurvivalInv
<1>2. TypeInv /\ SiblingInv
  BY DEF SurvivalInv, SiblingInv
<1>3. Spared'
  <2>1. CASE \E t \in Names : Damage(t)
    <3>1. PICK t \in Names : Damage(t)
      BY <2>1
    <3>2. faults = 0 /\ faults' = 1
      BY <1>2, <3>1, FaultsCount
    <3>3. ASSUME NEW s \in Ids, Needed(s)', ~Loads(s)'
          PROVE  s = t
      <4>1. Loads(s)
        BY <3>2, <3>3, NeededMoves DEF SurvivalInv, Spared
      <4>2. s \in Names /\ (s # t => file'[s] = file[s])
        BY <1>2, <3>1, CallerTypes DEF Damage, TypeInv, TypeOK, DiskTypes, Names
      <4> QED BY <3>3, <4>1, <4>2 DEF Loads
    <3> QED BY <3>2, <3>3 DEF Spared
  <2>2. CASE ~\E t \in Names : Damage(t)
    <3>1. \A s \in Ids : Loads(s) => Loads(s)'
      BY <1>2, <2>2, LoadsStay DEF Names
    <3>2. faults' = 0 => faults = 0
      BY <1>2, FaultsCount
    <3> QED BY <3>1, <3>2, NeededMoves DEF SurvivalInv, Spared
  <2> QED BY <2>1, <2>2
<1> QED BY <1>1, <1>3, NeededMoves DEF SurvivalInv

LEMMA SurvivalInit == Init => SurvivalInv
  BY SiblingInit DEF Init, SurvivalInv, Spared, Needed, NamedBy, TwoOf, Stored,
     Absent, Names

\* One caller at a time: after one fault of any kind but a power cut, in any
\* step of a call, one of the two generations the manifest names still loads.
THEOREM OneDamageSurvived ==
  ASSUME Serial, OneFault, NoPowerLoss
  PROVE  Spec => []OneDamageSurvivable
<1>1. SurvivalInv => OneDamageSurvivable
  <2> SUFFICES ASSUME SurvivalInv, HasManifest, file[Current].previous # NoId
               PROVE  \E s \in {file[Current].active, file[Current].previous} : Loads(s)
    BY DEF OneDamageSurvivable, Loads
  <2>1. file[Current] \in Manifests
    BY ContentKinds
    DEF SurvivalInv, SiblingInv, TypeInv, TypeOK, DiskTypes, HasManifest, Readable, Names
  <2>2. file[Current].active \in Ids /\ file[Current].previous \in Ids
    BY <2>1 DEF Manifests
  <2> QED
    BY <2>1, <2>2 DEF SurvivalInv, Spared, Needed, NamedBy, TwoOf, Manifests
<1> QED BY <1>1, SurvivalInit, SurvivalNext, PTL DEF Spec

-----------------------------------------------------------------------------
(* What readers get after one fault.                                       *)

\* The hypothesis: damage leaves text.  Bytes that are not UTF-8 make the
\* reader raise instead of falling back (run sync_undecodable).
TextStays == Undecodable \notin Damages

\* A reader that falls back has spent the fault: what it falls back on loads.
ReaderServed(r) ==
  /\ rpc[r] # "idle" => seen[r] \in Manifests /\ TwoOf(seen[r])
  /\ rpc[r] = "previous"
       => faults = 1 /\ (seen[r].previous # NoId => Loads(seen[r].previous))
  /\ rpc[r] = "idle" /\ seen[r].kind = "manifest" /\ seen[r].previous # NoId
       => IsDocument(loaded[r])

ServedInv ==
  /\ SurvivalInv
  /\ \A t \in Names : file[t] # Undecodable
  /\ \A r \in Readers : ReaderServed(r)

LEMMA ManifestFields ==
  ASSUME NEW d \in Manifests
  PROVE  /\ d.kind = "manifest" /\ d.active \in Ids
         /\ d.previous \in Ids \cup {NoId}
  BY DEF Manifests

LEMMA DecodableNext ==
  ASSUME SiblingInv, Serial, TextStays, NoPowerLoss, [Next]_vars,
         \A t \in Names : file[t] # Undecodable
  PROVE  \A t \in Names : file'[t] # Undecodable
<1> USE CallerTypes DEF SiblingInv
<1>1. ASSUME NEW p \in Writers, Publishes(p), NEW t \in Names
      PROVE  file'[t] # Undecodable
  <2>1. payload[p] # Undecodable
    BY <1>1 DEF Publishes, Readable, Undecodable
  <2>2. file'[t] \in {file[t], payload[p]}
    BY <1>1 DEF Publishes
  <2> QED BY <2>1, <2>2
<1>2. ASSUME NEW x \in Names, Damage(x), NEW t \in Names
      PROVE  file'[t] # Undecodable
  <2>1. PICK c \in Damages : file' = [file EXCEPT ![x] = c]
    BY <1>2 DEF Damage
  <2>2. c # Undecodable /\ file \in [Names -> Contents]
    BY DEF TextStays, TypeInv, TypeOK, DiskTypes
  <2> QED BY <2>1, <2>2
<1>3. ~PowerLoss
  BY DEF PowerLoss, Fault, NoPowerLoss
<1> QED BY <1>1, <1>2, <1>3, FileMoves

LEMMA ServedStep ==
  ASSUME ServedInv, OneFault, [Next]_vars,
         NEW r \in Readers, LoadManifest(r) \/ ReadStep(r)
  PROVE  ReaderServed(r)'
<1> USE DEF ServedInv, SurvivalInv, SiblingInv, TypeInv, TypeOK, ReaderTypes, ReaderServed
<1>1. file' = file
  BY ReaderKeeps DEF atomicVars
<1>2. TypeInv
  OBVIOUS
<1>3. CASE LoadManifest(r)
  <2>1. PICK c \in Contents :
          /\ Reads(Current, c) /\ seen' = [seen EXCEPT ![r] = c]
          /\ IF Readable(c, Current)
             THEN rpc' = [rpc EXCEPT ![r] = "active"]
             ELSE rpc' = [rpc EXCEPT ![r] = "idle"]
    BY <1>3 DEF LoadManifest, Answer
  <2>2. CASE Readable(c, Current)
    <3>1. c = file[Current] /\ c \in Manifests
      BY <2>1, <2>2, ReadsDocument, ReadableDocument, ContentKinds DEF Readable
    <3>2. rpc'[r] = "active" /\ seen'[r] = c
      BY <2>1, <2>2
    <3> QED BY <3>1, <3>2
  <2>3. CASE ~Readable(c, Current)
    <3>1. rpc'[r] = "idle" /\ seen'[r] = c /\ c.kind # "manifest"
      BY <2>1, <2>3 DEF Readable
    <3> QED BY <3>1
  <2> QED BY <2>2, <2>3
<1>4. CASE LoadActive(r)
  <2> DEFINE a == seen[r].active
             b == seen[r].previous
  <2>0. seen' = seen /\ rpc[r] = "active" /\ seen[r] \in Manifests
    BY <1>4 DEF LoadActive
  <2>1. /\ seen' = seen /\ rpc[r] = "active" /\ seen[r] \in Manifests
        /\ a \in Ids /\ a \in Names /\ b \in Ids \cup {NoId} /\ a # b
    BY <2>0, ManifestFields DEF TwoOf, Names
  <2>2. Needed(a) /\ (b # NoId => Needed(b))
    BY <2>0, ManifestFields DEF Needed, NamedBy
  <2>3. PICK c \in Contents :
          /\ Reads(a, c)
          /\ \/ (Readable(c, a) \/ c = Undecodable) /\ Answer(r, c)
             \/ Rejected(c, a) /\ rpc' = [rpc EXCEPT ![r] = "previous"]
    BY <1>4 DEF LoadActive, TryCandidate
  <2>4. c # Undecodable
    BY <2>1, <2>3 DEF Reads, Torn, Undecodable
  <2>5. CASE Readable(c, a) /\ Answer(r, c)
    BY <2>1, <2>5, ReadableDocument DEF Answer
  <2>6. CASE Rejected(c, a) /\ rpc' = [rpc EXCEPT ![r] = "previous"]
    <3>1. CASE c = file[a]
      <4>1. ~Loads(a)
        BY <2>6, <3>1 DEF Rejected, Loads
      <4>2. faults = 1
        BY <1>2, <2>1, <2>2, <4>1, FaultsCount DEF Spared
      <4>3. b # NoId => Loads(b)
        BY <2>1, <2>2, <4>1 DEF Spared
      <4> QED BY <1>1, <1>2, <2>1, <2>6, <4>2, <4>3, FaultsCount DEF Loads
    <3>2. CASE c # file[a]
      <4>1. faults = 0 /\ faults' = 1
        BY <1>2, <2>3, <3>2, FaultsCount
      <4>2. b # NoId => Loads(b)
        BY <2>1, <2>2, <4>1 DEF Spared
      <4> QED BY <1>1, <2>1, <2>6, <4>1, <4>2 DEF Loads
    <3> QED BY <3>1, <3>2
  <2> QED BY <2>3, <2>4, <2>5, <2>6
<1>5. CASE LoadPrevious(r)
  <2> DEFINE b == seen[r].previous
  <2>1. seen' = seen /\ rpc[r] = "previous" /\ faults = 1
    BY <1>5 DEF LoadPrevious
  <2>2. CASE b = NoId
    BY <1>5, <2>1, <2>2 DEF LoadPrevious, Answer
  <2>3. CASE b # NoId
    <3>1. PICK c \in Contents :
            /\ Reads(b, c)
            /\ \/ (Readable(c, b) \/ c = Undecodable) /\ Answer(r, c)
               \/ Rejected(c, b)
      BY <1>5, <2>3 DEF LoadPrevious, TryCandidate
    <3>2. c = file[b]
      BY <1>2, <2>1, <3>1, FaultsCount
    <3>3. Readable(c, b) /\ Answer(r, c)
      BY <2>1, <2>3, <3>1, <3>2 DEF Loads, Rejected
    <3>4. IsDocument(c)
      BY <3>3, ReadableDocument
    <3> QED BY <2>1, <3>3, <3>4 DEF Answer
  <2> QED BY <2>2, <2>3
<1> QED BY <1>3, <1>4, <1>5 DEF ReadStep

\* Others do not take away what a reader falls back on: the fault is spent.
LEMMA ServedElsewhere ==
  ASSUME ServedInv, Serial, OneFault, NoPowerLoss, [Next]_vars, NEW r \in Readers,
         rpc'[r] = rpc[r], seen'[r] = seen[r], loaded'[r] = loaded[r]
  PROVE  ReaderServed(r)'
<1> USE DEF ServedInv, SurvivalInv, SiblingInv, ReaderServed
<1>1. CASE rpc[r] = "previous" /\ seen[r].previous # NoId
  <2>1. PICK s \in Ids : s = seen[r].previous
    BY <1>1, ManifestFields
  <2>2. s \in Names /\ Loads(s) /\ faults = 1
    BY <1>1, <2>1 DEF Names
  <2>3. Loads(s)'
    BY <2>1, <2>2, LoadsStay, FaultsCount
  <2> QED BY <1>1, <2>1, <2>3, FaultsCount
<1>2. CASE rpc[r] = "previous" /\ seen[r].previous = NoId
  BY <1>2, FaultsCount
<1>3. CASE rpc[r] # "previous"
  BY <1>3
<1> QED BY <1>1, <1>2, <1>3

LEMMA ServedNext ==
  ASSUME Serial, OneFault, NoPowerLoss, TextStays
  PROVE  ServedInv /\ [Next]_vars => ServedInv'
<1> SUFFICES ASSUME ServedInv, [Next]_vars PROVE ServedInv'
  OBVIOUS
<1>1. SurvivalInv' /\ \A t \in Names : file'[t] # Undecodable
  BY SurvivalNext, DecodableNext DEF ServedInv, SurvivalInv
<1>2. \A r \in Readers : ReaderServed(r)'
  <2>1. ASSUME NEW r \in Readers, LoadManifest(r) \/ ReadStep(r)
        PROVE  \A q \in Readers : ReaderServed(q)'
    <3>1. TypeInv
      BY DEF ServedInv, SurvivalInv, SiblingInv
    <3> QED BY <2>1, <3>1, ServedStep, ServedElsewhere, ReaderLocal
  <2>2. CASE UNCHANGED readerVars
    BY <2>2, ServedElsewhere DEF readerVars
  <2>3. ASSUME NEW t \in Names, Damage(t)
        PROVE  UNCHANGED readerVars
    BY <2>3 DEF Damage
  <2>4. ~PowerLoss
    BY DEF PowerLoss, Fault, NoPowerLoss
  <2>5. CASE UNCHANGED vars
    BY <2>2, <2>5 DEF vars, readerVars
  <2> QED
    BY <2>1, <2>2, <2>3, <2>4, <2>5, CallerKeeps, KernelKeeps DEF Next, Environment
<1> QED BY <1>1, <1>2 DEF ServedInv

\* One caller at a time, any number of readers: after one fault that leaves
\* text, in any step of a call or of a read, load_active_snapshot answers
\* with a snapshot whenever the manifest it read named two, although files
\* and manifest may have moved on since.
THEOREM ReadersFallBack ==
  ASSUME Serial, OneFault, NoPowerLoss, TextStays
  PROVE  Spec => []FallbackServes
<1>1. Init => ServedInv
  BY SurvivalInit DEF Init, ServedInv, ReaderServed, Absent, Undecodable
<1>2. ServedInv => FallbackServes
  BY DEF ServedInv, ReaderServed, FallbackServes
<1> QED BY <1>1, <1>2, ServedNext, PTL DEF Spec

=============================================================================
