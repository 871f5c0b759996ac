-------------------------- MODULE CatalogSyncProofs --------------------------
(***************************************************************************)
(* Theorems about CatalogSync, for every set of callers, readers, ids and  *)
(* headers.  TypeCorrect needs no hypothesis; the others name the faults   *)
(* and the number of callers they need.                                    *)
(***************************************************************************)
EXTENDS CatalogSync, TLAPS

USE DEF Names

-----------------------------------------------------------------------------
(* Type correctness.                                                       *)

\* A call that has begun has its snapshot in memory.
InFlight == \A p \in Writers : pc[p] # "idle" => catalogue[p] \in Snapshots

TypeInv == TypeOK /\ InFlight

\* The contents that are no documents.
LEMMA PlainContents == {Absent, Partial, Torn, Undecodable} \subseteq Contents
  BY DEF Contents

\* What a document of some kind is.
LEMMA ContentKinds ==
  ASSUME NEW c \in Contents
  PROVE  /\ c.kind = "manifest" => c \in Manifests
         /\ c.kind = "snapshot" => c \in Snapshots
  BY DEF Contents, Snapshots, Manifests, Absent, Partial, Torn, Undecodable

\* The id a rotation hands over is an id or None.
LEMMA RotatedOutType ==
  ASSUME NEW c \in Contents
  PROVE  RotatedOut(c) \in Ids \cup {NoId}
  BY ContentKinds DEF RotatedOut, Readable, Manifests

\* Whatever bytes end up in a file, they are content.
LEMMA LandingType ==
  ASSUME TypeOK, NEW p \in Writers, NEW x, NEW c \in Landing(p, x)
  PROVE  c \in Contents
  BY DEF Landing, TypeOK, WriterTypes, Contents

LEMMA InitType == Init => TypeInv
  BY FaultsAssumption, PlainContents
  DEF Init, TypeInv, TypeOK, InFlight, DiskTypes, WriterTypes, CallTypes,
      ReaderTypes, Stages, Places, PCs, Results

-----------------------------------------------------------------------------
(* The helpers the actions are built from keep the types.                  *)

LEMMA FaultType ==
  ASSUME TypeInv, NEW kind, Fault(kind)
  PROVE  faults' \in 0 .. MaxFaults
  BY FaultsAssumption DEF Fault, TypeInv, TypeOK

LEMMA ReadsType ==
  ASSUME TypeInv, NEW t, NEW c, Reads(t, c)
  PROVE  faults' \in 0 .. MaxFaults
  BY FaultType DEF Reads, TypeInv, TypeOK

LEMMA GotoType ==
  ASSUME TypeInv, NEW p \in Writers, NEW l \in PCs, pc[p] # "idle", Goto(p, l)
  PROVE  (CallTypes /\ InFlight)'
  BY DEF Goto, TypeInv, TypeOK, CallTypes, InFlight

LEMMA ReturnType ==
  ASSUME TypeInv, NEW p \in Writers, NEW r \in Results, Return(p, r)
  PROVE  (CallTypes /\ InFlight)'
<1>1. [t \in Names |-> Absent] \in [Names -> Contents]
  BY PlainContents
<1> QED BY <1>1 DEF Return, TypeInv, TypeOK, CallTypes, InFlight, PCs

LEMMA BeginType ==
  ASSUME TypeInv, NEW p \in Writers, NEW t \in Names,
         NEW d \in Snapshots \cup Manifests, BeginWrite(p, t, d)
  PROVE  WriterTypes' /\ UNCHANGED diskVars
  BY DEF BeginWrite, TypeInv, TypeOK, WriterTypes, Stages, diskVars

LEMMA RemoveType ==
  ASSUME TypeInv, NEW p \in Writers, RemoveTemp(p)
  PROVE  /\ WriterTypes'
         /\ file' = file
         /\ temp' \in [Names -> Contents]
<1>1. temp' \in [Names -> Contents]
  BY PlainContents DEF RemoveTemp, TypeInv, TypeOK, DiskTypes, WriterTypes
<1>2. fd' \in [Writers -> Places]
  BY DEF RemoveTemp, TypeInv, TypeOK, WriterTypes, Places
<1>3. /\ stage' \in [Writers -> Stages]
      /\ payload' \in [Writers -> {Absent} \cup Snapshots \cup Manifests]
  BY DEF RemoveTemp, Close, TypeInv, TypeOK, WriterTypes, Stages
<1> QED
  BY <1>1, <1>2, <1>3 DEF RemoveTemp, Close, TypeInv, TypeOK, WriterTypes

-----------------------------------------------------------------------------
(* Every step keeps the types.                                             *)

\* Inside a try block only the directory and the writers' state change.
LEMMA TryType ==
  ASSUME TypeInv, NEW p \in Writers, TryStep(p)
  PROVE  TypeInv'
<1> DEFINE Files == file \in [Names -> Contents] /\ temp \in [Names -> Contents]
<1> USE DEF TypeInv, TypeOK, DiskTypes, WriterTypes
<1>1. ASSUME OpenTemp(p) PROVE Files' /\ WriterTypes'
  <2>1. Files'
    BY <1>1, PlainContents DEF OpenTemp
  <2>2. WriterTypes'
    BY <1>1 DEF OpenTemp, Stages, Places
  <2> QED BY <2>1, <2>2
<1>2. ASSUME WriteTemp(p) PROVE Files' /\ WriterTypes'
  <2>1. Files'
    <3>1. CASE fd[p] = "temp" /\ UNCHANGED file
      <4>1. PICK c \in Landing(p, temp[target[p]]) :
                  temp' = [temp EXCEPT ![target[p]] = c]
        BY <1>2, <3>1 DEF WriteTemp
      <4>2. c \in Contents
        BY <4>1, LandingType
      <4> QED BY <3>1, <4>1, <4>2
    <3>2. CASE fd[p] = "file" /\ UNCHANGED temp
      <4>1. PICK c \in Landing(p, file[target[p]]) :
                  file' = [file EXCEPT ![target[p]] = c]
        BY <1>2, <3>2 DEF WriteTemp
      <4>2. c \in Contents
        BY <4>1, LandingType
      <4> QED BY <3>2, <4>1, <4>2
    <3> QED BY <1>2, <3>1, <3>2 DEF WriteTemp
  <2>2. WriterTypes'
    BY <1>2 DEF WriteTemp, Stages, Places
  <2> QED BY <2>1, <2>2
<1>3. ASSUME RereadTemp(p) PROVE Files' /\ WriterTypes'
  <2>1. Files'
    BY <1>3 DEF RereadTemp
  <2>2. WriterTypes'
    BY <1>3 DEF RereadTemp, Stages
  <2> QED BY <2>1, <2>2
<1>4. ASSUME ReplaceTemp(p) PROVE Files' /\ WriterTypes'
  <2>1. Files'
    BY <1>4, PlainContents DEF ReplaceTemp
  <2>2. WriterTypes'
    <3>1. stage' \in [Writers -> Stages]
      BY <1>4 DEF ReplaceTemp, Stages
    <3>2. fd' \in [Writers -> Places]
      BY <1>4 DEF ReplaceTemp, Places
    <3> QED BY <1>4, <3>1, <3>2 DEF ReplaceTemp
  <2> QED BY <2>1, <2>2
<1>5. ASSUME TryFails(p) PROVE Files' /\ WriterTypes'
  <2>1. Files'
    BY <1>5 DEF TryFails
  <2>2. WriterTypes'
    BY <1>5 DEF TryFails, Stages, Places
  <2> QED BY <2>1, <2>2
<1>6. Files' /\ WriterTypes'
  BY <1>1, <1>2, <1>3, <1>4, <1>5 DEF TryStep, WriteStep
<1>7. older' \in [Names -> SUBSET Contents] /\ faults' \in 0 .. MaxFaults
  <2>1. target[p] \in Names /\ file[target[p]] \in Contents
    OBVIOUS
  <2> QED BY <2>1, FaultType DEF TryStep
<1>8. CallTypes' /\ ReaderTypes' /\ InFlight'
  BY DEF TryStep, syncVars, readerVars, CallTypes, ReaderTypes, InFlight
<1> QED BY <1>6, <1>7, <1>8

\* Between them only the caller's own state and the disk may change.
LEMMA SyncType ==
  ASSUME TypeInv, NEW p \in Writers,
         FetchFails(p) \/ FetchCatalogue(p) \/ SyncStep(p)
  PROVE  TypeInv'
<1> USE DEF TypeInv, TypeOK
<1>1. CASE FetchFails(p)
  BY <1>1, ReturnType
  DEF FetchFails, atomicVars, readerVars, DiskTypes, WriterTypes, ReaderTypes,
      Results, Failures
<1>2. CASE FetchCatalogue(p)
  <2>1. CallTypes' /\ InFlight'
    BY <1>2 DEF FetchCatalogue, SnapshotDoc, Snapshots, DiskTypes, CallTypes,
                InFlight, PCs, atomicVars
  <2> QED
    BY <1>2, <2>1 DEF FetchCatalogue, atomicVars, readerVars, DiskTypes,
                      WriterTypes, ReaderTypes
<1>3. CASE ProbeExisting(p)
  <2>1. CallTypes' /\ InFlight'
    BY <1>3, GotoType, ReturnType DEF ProbeExisting, PCs, Results, Failures
  <2>2. faults' \in 0 .. MaxFaults
    BY <1>3, ReadsType DEF ProbeExisting
  <2> QED
    BY <1>3, <2>1, <2>2 DEF ProbeExisting, atomicVars, readerVars, DiskTypes,
                            WriterTypes, ReaderTypes
<1>4. CASE ProbeAbsent(p)
  <2>1. CallTypes' /\ InFlight'
    BY <1>4, GotoType DEF ProbeAbsent, PCs
  <2> QED
    BY <1>4, <2>1 DEF ProbeAbsent, atomicVars, readerVars, DiskTypes,
                      WriterTypes, ReaderTypes
<1>5. CASE CreateSnapshot(p)
  <2>1. CallTypes' /\ InFlight' /\ faults' \in 0 .. MaxFaults
    BY <1>5, GotoType, ReturnType, FaultType
    DEF CreateSnapshot, PCs, Results, Failures
  <2>2. Sid(p) \in Names /\ catalogue[p] \in Snapshots
    BY <1>5 DEF CreateSnapshot, InFlight, Snapshots, Sid, Names
  <2>3. WriterTypes' /\ UNCHANGED diskVars
    BY <1>5, <2>2, BeginType DEF CreateSnapshot, atomicVars, diskVars, WriterTypes
  <2> QED
    BY <1>5, <2>1, <2>3 DEF CreateSnapshot, diskVars, readerVars, DiskTypes,
                            ReaderTypes
<1>6. CASE LeaveSave(p)
  <2>1. CallTypes' /\ InFlight'
    BY <1>6, GotoType, ReturnType DEF LeaveSave, PCs, Results, Failures
  <2> QED
    BY <1>6, <2>1, RemoveType DEF LeaveSave, readerVars, DiskTypes, ReaderTypes
<1>7. CASE ReadManifest(p)
  <2>1. CallTypes' /\ InFlight'
    BY <1>7, GotoType, ReturnType DEF ReadManifest, PCs, Results, Failures
  <2>2. faults' \in 0 .. MaxFaults
    BY <1>7, ReadsType DEF ReadManifest
  <2>3. Sid(p) \in Ids
    BY <1>7 DEF ReadManifest, InFlight, Snapshots, Sid
  <2>4. WriterTypes' /\ UNCHANGED diskVars
    <3>1. PICK c \in Contents :
            \/ UNCHANGED atomicVars
            \/ BeginWrite(p, Current, ManifestDoc(Sid(p), RotatedOut(c)))
      BY <1>7 DEF ReadManifest
    <3>2. ManifestDoc(Sid(p), RotatedOut(c)) \in Manifests
      BY <2>3, RotatedOutType DEF ManifestDoc, Manifests
    <3> QED
      BY <3>1, <3>2, BeginType DEF atomicVars, diskVars, WriterTypes, Names
  <2> QED
    BY <1>7, <2>1, <2>2, <2>4 DEF ReadManifest, diskVars, readerVars, DiskTypes,
                                  ReaderTypes
<1>8. CASE RotateFails(p)
  BY <1>8, ReturnType, FaultType
  DEF RotateFails, atomicVars, readerVars, DiskTypes, WriterTypes, ReaderTypes,
      Results, Failures
<1>9. CASE LeaveRotate(p)
  <2>1. CallTypes' /\ InFlight'
    BY <1>9, ReturnType DEF LeaveRotate, Results, Failures
  <2> QED
    BY <1>9, <2>1, RemoveType DEF LeaveRotate, readerVars, DiskTypes, ReaderTypes
<1>10. CASE TryStep(p)
  BY <1>10, TryType
<1> QED
  BY <1>1, <1>2, <1>3, <1>4, <1>5, <1>6, <1>7, <1>8, <1>9, <1>10 DEF SyncStep

\* A reader changes nothing but its own state.
LEMMA ReaderType ==
  ASSUME TypeInv, NEW r \in Readers, LoadManifest(r) \/ ReadStep(r)
  PROVE  TypeInv'
<1> USE DEF TypeInv, TypeOK, ReaderTypes
<1>1. CASE LoadManifest(r)
  <2>1. PICK c \in Contents :
          /\ Reads(Current, c)
          /\ seen' = [seen EXCEPT ![r] = c]
          /\ \/ rpc' = [rpc EXCEPT ![r] = "active"] /\ UNCHANGED loaded
             \/ Answer(r, c)
             \/ Answer(r, Absent)
    BY <1>1 DEF LoadManifest
  <2>2. ReaderTypes' /\ faults' \in 0 .. MaxFaults
    BY <2>1, ReadsType, PlainContents DEF Answer
  <2> QED
    BY <1>1, <2>2 DEF LoadManifest, atomicVars, syncVars, DiskTypes, WriterTypes,
                      CallTypes, InFlight
<1>2. CASE LoadActive(r)
  <2>1. ReaderTypes' /\ faults' \in 0 .. MaxFaults
    BY <1>2, ReadsType DEF LoadActive, TryCandidate, Answer
  <2> QED
    BY <1>2, <2>1 DEF LoadActive, atomicVars, syncVars, DiskTypes, WriterTypes,
                      CallTypes, InFlight
<1>3. CASE LoadPrevious(r)
  <2>1. ReaderTypes' /\ faults' \in 0 .. MaxFaults
    BY <1>3, ReadsType, PlainContents DEF LoadPrevious, TryCandidate, Answer
  <2> QED
    BY <1>3, <2>1 DEF LoadPrevious, atomicVars, syncVars, DiskTypes, WriterTypes,
                      CallTypes, InFlight
<1> QED BY <1>1, <1>2, <1>3 DEF ReadStep

LEMMA EnvironmentType ==
  ASSUME TypeInv, Environment
  PROVE  TypeInv'
<1> USE DEF TypeInv, TypeOK
<1>1. ASSUME NEW p \in Writers, Crash(p)
      PROVE  TypeInv'
  <2>1. CallTypes' /\ InFlight' /\ faults' \in 0 .. MaxFaults
    BY <1>1, ReturnType, FaultType DEF Crash, Results
  <2> QED
    BY <1>1, <2>1 DEF Crash, readerVars, DiskTypes, WriterTypes, ReaderTypes,
                      Stages, Places
<1>2. ASSUME NEW t \in Names, Damage(t)
      PROVE  TypeInv'
  <2>1. Damages \subseteq Contents
    BY FaultsAssumption DEF Contents
  <2>2. DiskTypes'
    BY <1>2, <2>1 DEF Damage, DiskTypes
  <2> QED
    BY <1>2, FaultType, <2>2 DEF Damage, writerVars, syncVars, readerVars,
       WriterTypes, CallTypes, ReaderTypes, InFlight
<1>3. ASSUME NEW t \in Names, Writeback(t)
      PROVE  TypeInv'
  BY <1>3 DEF Writeback, atomicVars, syncVars, readerVars, DiskTypes,
     WriterTypes, CallTypes, ReaderTypes, InFlight
<1>4. CASE PowerLoss
  <2>1. DiskTypes' /\ faults' \in 0 .. MaxFaults
    <3>1. \A t \in Names : AfterCut(t) \subseteq Contents
      BY PlainContents DEF AfterCut, DiskTypes
    <3>2. \A t \in Names : {Absent, Torn, temp[t]} \subseteq Contents
      BY PlainContents DEF DiskTypes
    <3>3. file' \in [Names -> Contents]
      BY <1>4, <3>1 DEF PowerLoss
    <3>4. temp' \in [Names -> Contents]
      BY <1>4, <3>2 DEF PowerLoss
    <3>5. older' \in [Names -> SUBSET Contents]
      BY <1>4 DEF PowerLoss
    <3> QED BY <1>4, <3>3, <3>4, <3>5, FaultType DEF PowerLoss, DiskTypes
  <2>2. WriterTypes' /\ ReaderTypes'
    BY <1>4, PlainContents DEF PowerLoss, WriterTypes, ReaderTypes, Stages, Places
  <2>3. CallTypes' /\ InFlight'
    BY <1>4, PlainContents DEF PowerLoss, CallTypes, InFlight, PCs, Results
  <2> QED BY <2>1, <2>2, <2>3
<1> QED BY <1>1, <1>2, <1>3, <1>4 DEF Environment

LEMMA NextType == TypeInv /\ [Next]_vars => TypeInv'
<1> SUFFICES ASSUME TypeInv, [Next]_vars PROVE TypeInv'
  OBVIOUS
<1>1. CASE Next
  BY <1>1, SyncType, ReaderType, EnvironmentType DEF Next
<1>2. CASE UNCHANGED vars
  BY <1>2 DEF vars, TypeInv, TypeOK, DiskTypes, WriterTypes, CallTypes,
              ReaderTypes, InFlight
<1> QED BY <1>1, <1>2

\* Under any interleaving and any fault every variable of sync_catalog, of
\* the directory and of the readers keeps to the values the code gives it.
THEOREM TypeCorrect == Spec => []TypeOK
<1>1. Spec => []TypeInv
  BY InitType, NextType, PTL DEF Spec
<1> QED BY <1>1, PTL DEF TypeInv

-----------------------------------------------------------------------------
(* The manifest never dangles, with any number of callers.                 *)

\* If c is a manifest, the snapshots it names have a file in directory f.
Backed(f, c) ==
  c.kind = "manifest" => /\ f[c.active] # Absent
                         /\ c.previous = NoId \/ f[c.previous] # Absent

\* The strengthening: every manifest in the directory, in the sibling file
\* and in the memory of a writer is backed, because a call reaches step 6
\* only once its own snapshot has a file.
WriterInv(p) ==
  /\ Backed(file, payload[p])
  /\ stage[p] \in InTry => payload[p] # Absent
  /\ stage[p] = "moved" => file[target[p]] # Absent
  /\ pc[p] = "saving" => target[p] = Sid(p)
  /\ pc[p] = "manifest" => file[Sid(p)] # Absent

PublishedInv ==
  /\ TypeInv
  /\ Backed(file, file[Current])
  /\ Backed(file, temp[Current])
  /\ \A p \in Writers : WriterInv(p)

\* The contents that are no documents, and those a step could pick up.
Plain == {Absent, Partial, Torn, Undecodable}
Sources(t) == Plain \cup {file[t], temp[t]} \cup {payload[p] : p \in Writers}

LEMMA Kinds ==
  /\ Partial # Absent /\ Torn # Absent /\ Undecodable # Absent
  /\ \A c \in Plain : c.kind # "manifest" /\ c.kind # "snapshot"
  /\ \A c \in Snapshots \cup Manifests : c # Absent
  BY DEF Plain, Absent, Partial, Torn, Undecodable, Snapshots, Manifests

\* Inside a try block the contents move between the names and no name of the
\* directory is lost.
LEMMA TryMoves ==
  ASSUME PublishedInv, NEW p \in Writers, TryStep(p), NEW t \in Names
  PROVE  /\ file'[t] \in Sources(t) /\ temp'[t] \in Sources(t)
         /\ file[t] # Absent => file'[t] # Absent
<1> USE DEF PublishedInv, WriterInv, TypeInv, TypeOK, DiskTypes, WriterTypes,
            Sources, Plain
<1>1. CASE OpenTemp(p)
  BY <1>1 DEF OpenTemp
<1>2. CASE WriteTemp(p)
  <2>1. payload[p] # Absent
    BY <1>2 DEF WriteTemp, InTry
  <2>2. \A c, x : c \in Landing(p, x) => c \in {payload[p], Torn, Undecodable}
    BY DEF Landing
  <2>3. CASE fd[p] = "temp" /\ UNCHANGED file
    BY <1>2, <2>2, <2>3 DEF WriteTemp
  <2>4. CASE fd[p] = "file" /\ UNCHANGED temp
    BY <1>2, <2>1, <2>2, <2>4, Kinds DEF WriteTemp
  <2>5. CASE UNCHANGED <<file, temp>>
    BY <2>5
  <2> QED BY <1>2, <2>3, <2>4, <2>5 DEF WriteTemp
<1>3. CASE RereadTemp(p)
  BY <1>3 DEF RereadTemp
<1>4. CASE ReplaceTemp(p)
  BY <1>4 DEF ReplaceTemp
<1>5. CASE TryFails(p)
  BY <1>5 DEF TryFails
<1> QED BY <1>1, <1>2, <1>3, <1>4, <1>5 DEF TryStep, WriteStep

\* Files and their names change by the program's steps alone.
FilesKept == {"damage", "powerloss"} \cap FaultKinds = {}

\* The same holds of every step, as long as nobody damages a file and the
\* machine keeps its power.
LEMMA Moves ==
  ASSUME PublishedInv, FilesKept, [Next]_vars, NEW t \in Names
  PROVE  /\ file'[t] \in Sources(t) /\ temp'[t] \in Sources(t)
         /\ file[t] # Absent => file'[t] # Absent
<1> USE DEF Sources, Plain
<1>1. ASSUME NEW p \in Writers, TryStep(p)
      PROVE  /\ file'[t] \in Sources(t) /\ temp'[t] \in Sources(t)
             /\ file[t] # Absent => file'[t] # Absent
  BY <1>1, TryMoves
<1>2. ASSUME NEW p \in Writers, LeaveSave(p) \/ LeaveRotate(p)
      PROVE  UNCHANGED file /\ temp'[t] \in {temp[t], Absent}
  BY <1>2 DEF LeaveSave, LeaveRotate, RemoveTemp, Close, PublishedInv, TypeInv,
              TypeOK, DiskTypes
<1>3. ASSUME NEW p \in Writers,
             \/ FetchFails(p) \/ FetchCatalogue(p) \/ ProbeExisting(p)
             \/ ProbeAbsent(p) \/ CreateSnapshot(p) \/ ReadManifest(p)
             \/ RotateFails(p) \/ Crash(p)
      PROVE  UNCHANGED <<file, temp>>
  BY <1>3 DEF FetchFails, FetchCatalogue, ProbeExisting, ProbeAbsent, Crash,
     CreateSnapshot, ReadManifest, RotateFails, BeginWrite, atomicVars
<1>4. ASSUME NEW r \in Readers, LoadManifest(r) \/ ReadStep(r)
      PROVE  UNCHANGED <<file, temp>>
  BY <1>4 DEF LoadManifest, ReadStep, LoadActive, LoadPrevious, atomicVars
<1>5. ASSUME NEW x \in Names, Damage(x) \/ Writeback(x)
      PROVE  UNCHANGED <<file, temp>>
  BY <1>5 DEF Damage, Fault, Writeback, atomicVars, FilesKept
<1>6. ~PowerLoss
  BY DEF PowerLoss, Fault, FilesKept
<1>7. CASE UNCHANGED vars
  BY <1>7 DEF vars
<1> QED
  BY <1>1, <1>2, <1>3, <1>4, <1>5, <1>6, <1>7 DEF Next, SyncStep, Environment

\* So what is backed stays backed, and the directory and the sibling only
\* ever take up backed contents.
LEMMA BackedStays ==
  ASSUME PublishedInv, FilesKept, [Next]_vars,
         NEW c \in Contents, Backed(file, c)
  PROVE  Backed(file', c)
  BY Moves, ContentKinds DEF Backed, Manifests, Names

LEMMA DiskBacked ==
  ASSUME PublishedInv, FilesKept, [Next]_vars
  PROVE  Backed(file, file[Current])' /\ Backed(file, temp[Current])'
<1>1. /\ Current \in Names
      /\ Sources(Current) \subseteq Contents
  BY PlainContents
  DEF Names, Sources, Plain, PublishedInv, TypeInv, TypeOK, DiskTypes,
      WriterTypes, Contents
<1>2. \A c \in Sources(Current) : Backed(file, c)
  BY Kinds DEF Sources, Plain, PublishedInv, WriterInv, Backed
<1>3. file'[Current] \in Sources(Current) /\ temp'[Current] \in Sources(Current)
  BY <1>1, Moves
<1> QED
  BY <1>1, <1>2, <1>3, BackedStays

\* A writer that a step leaves alone keeps its part of the invariant.
LEMMA UntouchedWriter ==
  ASSUME PublishedInv, FilesKept, [Next]_vars, NEW q \in Writers,
         stage'[q] = stage[q], target'[q] = target[q], payload'[q] = payload[q],
         pc'[q] = pc[q], catalogue'[q] = catalogue[q]
  PROVE  WriterInv(q)'
<1>1. payload[q] \in Contents /\ target[q] \in Names
  BY PlainContents DEF PublishedInv, TypeInv, TypeOK, WriterTypes, Contents
<1>2. Backed(file', payload[q])
  BY <1>1, BackedStays DEF PublishedInv, WriterInv
<1>3. pc[q] = "manifest" => Sid(q) \in Names
  BY DEF PublishedInv, TypeInv, InFlight, Snapshots, Sid, Names
<1>4. Sid(q)' = Sid(q)
  BY DEF Sid
<1> QED
  BY <1>1, <1>2, <1>3, <1>4, Moves DEF PublishedInv, WriterInv

\* A call that ends leaves a writer that holds nothing.
LEMMA ClosedWriter ==
  ASSUME NEW q \in Writers, stage'[q] = "closed", payload'[q] = Absent,
         pc'[q] \notin {"saving", "manifest"}
  PROVE  WriterInv(q)'
  BY DEF WriterInv, Backed, Absent, InTry

\* A step of p inside its try block.
LEMMA TryWriter ==
  ASSUME PublishedInv, FilesKept, NEW p \in Writers, TryStep(p)
  PROVE  \A q \in Writers : WriterInv(q)'
<1>0. [Next]_vars
  BY DEF Next, SyncStep
<1>1. /\ target' = target /\ payload' = payload
      /\ pc' = pc /\ catalogue' = catalogue
      /\ \E l \in Stages : stage' = [stage EXCEPT ![p] = l]
      /\ stage[p] \in InTry
  BY DEF TryStep, WriteStep, OpenTemp, WriteTemp, RereadTemp, ReplaceTemp,
         TryFails, syncVars, InTry, Stages
<1>2. stage'[p] = "moved" => file'[target[p]] # Absent
  <2>1. CASE ReplaceTemp(p)
    BY <2>1 DEF ReplaceTemp, PublishedInv, TypeInv, TypeOK, DiskTypes, WriterTypes
  <2>2. CASE OpenTemp(p) \/ WriteTemp(p) \/ RereadTemp(p) \/ TryFails(p)
    BY <2>2 DEF OpenTemp, WriteTemp, RereadTemp, TryFails, PublishedInv, TypeInv,
                TypeOK, WriterTypes
  <2> QED BY <2>1, <2>2 DEF TryStep, WriteStep
<1>3. ASSUME NEW q \in Writers, q # p
      PROVE  WriterInv(q)'
  BY <1>0, <1>1, <1>3, UntouchedWriter DEF PublishedInv, TypeInv, TypeOK, WriterTypes
<1>4. WriterInv(p)'
  <2>1. Backed(file', payload[p])
    <3>1. payload[p] \in Contents
      BY PlainContents DEF PublishedInv, TypeInv, TypeOK, WriterTypes, Contents
    <3> QED BY <1>0, <3>1, BackedStays DEF PublishedInv, WriterInv
  <2>2. payload[p] # Absent
    BY <1>1 DEF PublishedInv, WriterInv
  <2>3. pc[p] = "manifest" => Sid(p) \in Names
    BY DEF PublishedInv, TypeInv, InFlight, Snapshots, Sid, Names
  <2>4. pc[p] = "manifest" => file'[Sid(p)] # Absent
    BY <1>0, <2>3, Moves DEF PublishedInv, WriterInv
  <2> QED
    BY <1>1, <1>2, <2>1, <2>2, <2>4 DEF WriterInv, PublishedInv, Sid
<1> QED BY <1>3, <1>4

\* A step of p between try blocks touches nobody else's state.
LEMMA SyncLocal ==
  ASSUME TypeInv, NEW p \in Writers, NEW q \in Writers, q # p,
         \/ FetchFails(p) \/ FetchCatalogue(p) \/ ProbeExisting(p)
         \/ ProbeAbsent(p) \/ CreateSnapshot(p) \/ LeaveSave(p)
         \/ ReadManifest(p) \/ RotateFails(p) \/ LeaveRotate(p) \/ Crash(p)
  PROVE  /\ stage'[q] = stage[q] /\ target'[q] = target[q]
         /\ payload'[q] = payload[q] /\ pc'[q] = pc[q]
         /\ catalogue'[q] = catalogue[q]
<1> USE DEF TypeInv, TypeOK, WriterTypes, CallTypes, Goto, Return, BeginWrite,
            RemoveTemp, Close, atomicVars
<1>1. CASE FetchFails(p) \/ FetchCatalogue(p) \/ ProbeExisting(p) \/ ProbeAbsent(p)
  BY <1>1 DEF FetchFails, FetchCatalogue, ProbeExisting, ProbeAbsent
<1>2. CASE CreateSnapshot(p)
  BY <1>2 DEF CreateSnapshot
<1>3. CASE LeaveSave(p)
  BY <1>3 DEF LeaveSave
<1>4. CASE ReadManifest(p)
  BY <1>4 DEF ReadManifest
<1>5. CASE RotateFails(p) \/ LeaveRotate(p)
  BY <1>5 DEF RotateFails, LeaveRotate
<1>6. CASE Crash(p)
  BY <1>6 DEF Crash
<1> QED BY <1>1, <1>2, <1>3, <1>4, <1>5, <1>6

\* It keeps p's part of the invariant: step 6 is entered only with a file.
LEMMA SyncWriter ==
  ASSUME PublishedInv, NEW p \in Writers,
         \/ FetchFails(p) \/ FetchCatalogue(p) \/ ProbeExisting(p)
         \/ ProbeAbsent(p) \/ CreateSnapshot(p) \/ LeaveSave(p)
         \/ ReadManifest(p) \/ RotateFails(p) \/ LeaveRotate(p) \/ Crash(p)
  PROVE  WriterInv(p)'
<1> USE DEF PublishedInv, WriterInv, TypeInv, TypeOK, WriterTypes, CallTypes, Sid
<1>1. CASE FetchFails(p) \/ FetchCatalogue(p)
  BY <1>1 DEF FetchFails, FetchCatalogue, Return, atomicVars
<1>2. CASE ProbeExisting(p) \/ ProbeAbsent(p)
  BY <1>2 DEF ProbeExisting, ProbeAbsent, Goto, Return, atomicVars
<1>3. CASE CreateSnapshot(p)
  <2>1. CASE BeginWrite(p, Sid(p), catalogue[p]) /\ Goto(p, "saving")
    <3>1. catalogue[p] \in Snapshots
      BY <1>3 DEF CreateSnapshot, InFlight
    <3>2. catalogue[p].kind # "manifest" /\ catalogue[p] # Absent
      BY <3>1 DEF Snapshots, Absent
    <3> QED BY <2>1, <3>2 DEF BeginWrite, Goto, Backed, InTry
  <2>2. CASE UNCHANGED atomicVars
    BY <1>3, <2>2 DEF CreateSnapshot, Goto, Return, atomicVars, BeginWrite
  <2> QED BY <1>3, <2>1, <2>2 DEF CreateSnapshot
<1>4. CASE LeaveSave(p) \/ LeaveRotate(p)
  BY <1>4 DEF LeaveSave, LeaveRotate, RemoveTemp, Close, Goto, Return, Backed,
              Absent, InTry
<1>5. CASE ReadManifest(p)
  <2>1. CASE UNCHANGED atomicVars /\ pc'[p] = "idle"
    BY <1>5, <2>1 DEF ReadManifest, atomicVars
  <2>2. ASSUME NEW c \in Contents, Reads(Current, c), c # Undecodable,
               BeginWrite(p, Current, ManifestDoc(Sid(p), RotatedOut(c))),
               Goto(p, "rotating")
        PROVE  WriterInv(p)'
    <3>1. file[Sid(p)] # Absent
      BY <1>5 DEF ReadManifest
    <3>2. RotatedOut(c) = NoId \/ file[RotatedOut(c)] # Absent
      BY <2>2 DEF Reads, RotatedOut, Readable, Backed, Torn
    <3>3. Backed(file, ManifestDoc(Sid(p), RotatedOut(c)))
      BY <3>1, <3>2 DEF Backed, ManifestDoc
    <3>4. ManifestDoc(Sid(p), RotatedOut(c)) # Absent
      BY DEF ManifestDoc, Absent
    <3> QED BY <2>2, <3>3, <3>4 DEF BeginWrite, Goto
  <2> QED BY <1>5, <2>1, <2>2 DEF ReadManifest, Return
<1>6. CASE RotateFails(p)
  BY <1>6 DEF RotateFails, Return, atomicVars
<1>7. CASE Crash(p)
  BY <1>7 DEF Crash, Return, Backed, Absent, InTry
<1> QED BY <1>1, <1>2, <1>3, <1>4, <1>5, <1>6, <1>7

LEMMA PublishedInit == Init => PublishedInv
  BY InitType
  DEF Init, PublishedInv, WriterInv, Backed, Absent, InTry, Names

LEMMA PublishedNext ==
  ASSUME FilesKept
  PROVE  PublishedInv /\ [Next]_vars => PublishedInv'
<1> SUFFICES ASSUME PublishedInv, [Next]_vars PROVE PublishedInv'
  OBVIOUS
<1>1. TypeInv'
  BY NextType DEF PublishedInv
<1>2. \A q \in Writers : WriterInv(q)'
  <2>1. ASSUME NEW p \in Writers, TryStep(p)
        PROVE  \A q \in Writers : WriterInv(q)'
    BY <2>1, TryWriter
  <2>2. ASSUME NEW p \in Writers,
               \/ FetchFails(p) \/ FetchCatalogue(p) \/ ProbeExisting(p)
               \/ ProbeAbsent(p) \/ CreateSnapshot(p) \/ LeaveSave(p)
               \/ ReadManifest(p) \/ RotateFails(p) \/ LeaveRotate(p) \/ Crash(p)
        PROVE  \A q \in Writers : WriterInv(q)'
    BY <2>2, SyncLocal, SyncWriter, UntouchedWriter DEF PublishedInv
  <2>3. CASE UNCHANGED <<stage, target, payload, pc, catalogue>>
    BY <2>3, UntouchedWriter
  <2>4. ~PowerLoss
    BY DEF PowerLoss, Fault, FilesKept
  <2>5. ASSUME NEW r \in Readers, LoadManifest(r) \/ ReadStep(r)
        PROVE  UNCHANGED <<stage, target, payload, pc, catalogue>>
    BY <2>5 DEF LoadManifest, ReadStep, LoadActive, LoadPrevious, atomicVars, syncVars
  <2>6. ASSUME NEW x \in Names, Damage(x) \/ Writeback(x)
        PROVE  UNCHANGED <<stage, target, payload, pc, catalogue>>
    BY <2>6 DEF Damage, Writeback, writerVars, atomicVars, syncVars
  <2>7. CASE UNCHANGED vars
    BY <2>7, <2>3 DEF vars
  <2> QED
    BY <2>1, <2>2, <2>3, <2>4, <2>5, <2>6, <2>7 DEF Next, SyncStep, Environment
<1> QED BY <1>1, <1>2, DiskBacked DEF PublishedInv

\* Any number of concurrent calls, crashing and failing anywhere: as long as
\* nobody damages a file and the machine keeps its power, current.json names
\* only snapshots whose files have been put in place.
THEOREM ManifestNeverDangles ==
  ASSUME FilesKept
  PROVE  Spec => []ActiveIsPublished
<1>1. PublishedInv => ActiveIsPublished
  BY DEF PublishedInv, ActiveIsPublished, HasManifest, Readable, Backed
<1>2. Spec => []PublishedInv
  BY PublishedInit, PublishedNext, PTL DEF Spec
<1> QED BY <1>1, <1>2, PTL

-----------------------------------------------------------------------------
(* Readers answer with what the manifest named, under every fault.         *)

\* A reader looks for candidates only when it has a manifest to name them.
ReaderSound(r) ==
  /\ rpc[r] # "idle" => seen[r] \in Manifests
  /\ rpc[r] = "idle" /\ IsDocument(loaded[r]) /\ seen[r].kind = "manifest"
       => loaded[r].id \in {seen[r].active, seen[r].previous}

SoundInv == TypeInv /\ \A r \in Readers : ReaderSound(r)

\* What a candidate yields carries the name it was looked for under.
LEMMA CandidateNamed ==
  ASSUME NEW s \in Ids, NEW c, Readable(c, s) \/ c = Undecodable, IsDocument(c)
  PROVE  c.id = s
  BY NamesAssumption DEF Readable, IsDocument, Undecodable

\* One step of the reader r itself.
LEMMA ReaderSoundStep ==
  ASSUME SoundInv, NEW r \in Readers, LoadManifest(r) \/ ReadStep(r)
  PROVE  ReaderSound(r)'
<1> USE DEF SoundInv, TypeInv, TypeOK, ReaderTypes, ReaderSound
<1>1. CASE LoadManifest(r)
  <2>1. PICK c \in Contents :
          /\ seen' = [seen EXCEPT ![r] = c]
          /\ IF Readable(c, Current)
             THEN rpc' = [rpc EXCEPT ![r] = "active"]
             ELSE Answer(r, IF c = Undecodable THEN c ELSE Absent)
    BY <1>1 DEF LoadManifest
  <2>2. seen'[r] = c
    BY <2>1
  <2>3. CASE Readable(c, Current)
    <3>1. c \in Manifests /\ rpc'[r] = "active"
      BY <2>1, <2>3, ContentKinds DEF Readable
    <3> QED BY <2>2, <3>1
  <2>4. CASE ~Readable(c, Current)
    <3>1. rpc'[r] = "idle" /\ c.kind # "manifest"
      BY <2>1, <2>4 DEF Answer, Readable
    <3> QED BY <2>2, <3>1
  <2> QED BY <2>3, <2>4
<1>2. CASE LoadActive(r)
  <2>1. seen' = seen /\ seen[r] \in Manifests /\ seen[r].active \in Ids
    BY <1>2 DEF LoadActive, Manifests
  <2>2. \/ rpc' = [rpc EXCEPT ![r] = "previous"]
        \/ \E c \in Contents : /\ Readable(c, seen[r].active) \/ c = Undecodable
                               /\ Answer(r, c)
    BY <1>2 DEF LoadActive, TryCandidate
  <2>3. CASE rpc' = [rpc EXCEPT ![r] = "previous"]
    BY <2>1, <2>3
  <2>4. ASSUME NEW c \in Contents, Answer(r, c),
               Readable(c, seen[r].active) \/ c = Undecodable
        PROVE  ReaderSound(r)'
    <3>1. rpc'[r] = "idle" /\ loaded'[r] = c
      BY <2>4 DEF Answer
    <3> QED BY <2>1, <2>4, <3>1, CandidateNamed
  <2> QED BY <2>2, <2>3, <2>4
<1>3. CASE LoadPrevious(r)
  <2>1. /\ seen' = seen /\ seen[r] \in Manifests
        /\ seen[r].previous \in Ids \cup {NoId}
    BY <1>3 DEF LoadPrevious, Manifests
  <2>2. \/ Answer(r, Absent)
        \/ \E c \in Contents : /\ seen[r].previous # NoId
                               /\ Readable(c, seen[r].previous) \/ c = Undecodable
                               /\ Answer(r, c)
    BY <1>3 DEF LoadPrevious, TryCandidate
  <2>3. CASE Answer(r, Absent)
    <3>1. rpc'[r] = "idle" /\ ~IsDocument(loaded'[r])
      BY <2>3 DEF Answer, IsDocument, Absent
    <3> QED BY <3>1
  <2>4. ASSUME NEW c \in Contents, Answer(r, c), seen[r].previous # NoId,
               Readable(c, seen[r].previous) \/ c = Undecodable
        PROVE  ReaderSound(r)'
    <3>1. rpc'[r] = "idle" /\ loaded'[r] = c
      BY <2>4 DEF Answer
    <3> QED BY <2>1, <2>4, <3>1, CandidateNamed
  <2> QED BY <2>2, <2>3, <2>4
<1> QED BY <1>1, <1>2, <1>3 DEF ReadStep

\* It is the only one that the step concerns.
LEMMA ReaderLocal ==
  ASSUME TypeInv, NEW r \in Readers, LoadManifest(r) \/ ReadStep(r),
         NEW q \in Readers, q # r
  PROVE  rpc'[q] = rpc[q] /\ seen'[q] = seen[q] /\ loaded'[q] = loaded[q]
<1> USE DEF TypeInv, TypeOK, ReaderTypes, Answer
<1>1. CASE LoadManifest(r)
  BY <1>1 DEF LoadManifest
<1>2. CASE LoadActive(r)
  BY <1>2 DEF LoadActive, TryCandidate
<1>3. CASE LoadPrevious(r)
  BY <1>3 DEF LoadPrevious, TryCandidate
<1> QED BY <1>1, <1>2, <1>3 DEF ReadStep

LEMMA SoundNext == SoundInv /\ [Next]_vars => SoundInv'
<1> SUFFICES ASSUME SoundInv, [Next]_vars PROVE SoundInv'
  OBVIOUS
<1>1. TypeInv'
  BY NextType DEF SoundInv
<1>2. ASSUME NEW r \in Readers, LoadManifest(r) \/ ReadStep(r)
      PROVE  \A q \in Readers : ReaderSound(q)'
  BY <1>2, ReaderSoundStep, ReaderLocal DEF SoundInv, ReaderSound
<1>3. CASE UNCHANGED readerVars
  BY <1>1, <1>3 DEF readerVars, SoundInv, ReaderSound
<1>4. ASSUME NEW p \in Writers,
             FetchFails(p) \/ FetchCatalogue(p) \/ SyncStep(p) \/ Crash(p)
      PROVE  UNCHANGED readerVars
  BY <1>4 DEF SyncStep, FetchFails, FetchCatalogue, ProbeExisting, ProbeAbsent,
     CreateSnapshot, LeaveSave, ReadManifest, RotateFails, LeaveRotate, Crash,
     TryStep
<1>5. ASSUME NEW x \in Names, Damage(x) \/ Writeback(x)
      PROVE  UNCHANGED readerVars
  BY <1>5 DEF Damage, Writeback
<1>6. CASE PowerLoss
  BY <1>1, <1>6 DEF PowerLoss, SoundInv, ReaderSound, IsDocument, Absent
<1>7. CASE UNCHANGED vars
  BY <1>7, <1>3 DEF vars, readerVars
<1> QED
  BY <1>1, <1>2, <1>3, <1>4, <1>5, <1>6, <1>7 DEF Next, Environment, SoundInv

\* Under any interleaving of any number of callers, readers and faults, files
\* exchanged for one another included: load_active_snapshot answers only with
\* a document that calls itself what the manifest called it.
THEOREM AnswersCarryTheirName == Spec => []LoadSound
<1>1. Init => SoundInv
  BY InitType DEF Init, SoundInv, ReaderSound, IsDocument, Absent
<1>2. SoundInv => LoadSound
  BY DEF SoundInv, ReaderSound, LoadSound
<1> QED BY <1>1, <1>2, SoundNext, PTL DEF Spec

-----------------------------------------------------------------------------
(* No sibling file outlives the writes, with any number of callers.        *)

NobodyDies == FaultKinds \cap {"crash", "powerloss"} = {}

\* A sibling file belongs to somebody whose finally block is yet to run, and
\* who is between the try and the end of the finally is told by pc.
Inside(p) == stage[p] # "closed" <=> pc[p] \in {"saving", "rotating"}
Owned(t)  == temp[t] = Absent \/ \E p \in Writers : target[p] = t /\ stage[p] # "closed"

TempInv ==
  /\ TypeInv
  /\ \A p \in Writers : Inside(p)
  /\ \A t \in Names : Owned(t)

LEMMA TempTry ==
  ASSUME TempInv, NEW p \in Writers, TryStep(p)
  PROVE  (\A q \in Writers : Inside(q)') /\ (\A t \in Names : Owned(t)')
<1> USE DEF TempInv, TypeInv, TypeOK, DiskTypes, WriterTypes
<1>1. /\ UNCHANGED <<pc, target>>
      /\ stage[p] \in InTry
      /\ \E l \in Stages \ {"closed"} : stage' = [stage EXCEPT ![p] = l]
      /\ \A t \in Names : t # target[p] => temp'[t] = temp[t]
  <2>1. CASE OpenTemp(p)
    BY <2>1 DEF TryStep, OpenTemp, InTry, Stages, syncVars
  <2>2. CASE WriteTemp(p)
    BY <2>2 DEF TryStep, WriteTemp, InTry, Stages, syncVars
  <2>3. CASE RereadTemp(p)
    BY <2>3 DEF TryStep, RereadTemp, InTry, Stages, syncVars
  <2>4. CASE ReplaceTemp(p)
    BY <2>4 DEF TryStep, ReplaceTemp, InTry, Stages, syncVars
  <2>5. CASE TryFails(p)
    BY <2>5 DEF TryStep, TryFails, InTry, Stages, syncVars
  <2> QED BY <2>1, <2>2, <2>3, <2>4, <2>5 DEF TryStep, WriteStep
<1>2. \A q \in Writers : stage'[q] # "closed" <=> stage[q] # "closed"
  BY <1>1 DEF InTry
<1>3. \A q \in Writers : Inside(q)'
  BY <1>1, <1>2 DEF Inside
<1>4. ASSUME NEW t \in Names PROVE Owned(t)'
  BY <1>1, <1>2 DEF Owned, InTry
<1> QED BY <1>3, <1>4

\* The finally block takes the sibling with it.
LEMMA TempLeave ==
  ASSUME TempInv, NEW p \in Writers, RemoveTemp(p), NEW l \in PCs \ {"saving", "rotating"},
         pc' = [pc EXCEPT ![p] = l]
  PROVE  (\A q \in Writers : Inside(q)') /\ (\A t \in Names : Owned(t)')
<1> USE DEF TempInv, TypeInv, TypeOK, DiskTypes, WriterTypes, CallTypes
<1>1. /\ temp' = [temp EXCEPT ![target[p]] = Absent]
      /\ stage' = [stage EXCEPT ![p] = "closed"]
      /\ target' = target
  BY DEF RemoveTemp, Close
<1>2. \A q \in Writers : Inside(q)'
  BY <1>1 DEF Inside
<1>3. ASSUME NEW t \in Names PROVE Owned(t)'
  BY <1>1 DEF Owned
<1> QED BY <1>2, <1>3

\* Outside the try block a writer owns nothing, so it may take up a new name.
LEMMA TempBegin ==
  ASSUME TempInv, NEW p \in Writers, NEW t \in Names, NEW d, BeginWrite(p, t, d),
         NEW l \in {"saving", "rotating"}, Goto(p, l),
         pc[p] \notin {"saving", "rotating"}
  PROVE  (\A q \in Writers : Inside(q)') /\ (\A x \in Names : Owned(x)')
<1> USE DEF TempInv, TypeInv, TypeOK, DiskTypes, WriterTypes, CallTypes
<1>1. /\ temp' = temp /\ target' = [target EXCEPT ![p] = t]
      /\ stage' = [stage EXCEPT ![p] = "open"]
      /\ pc' = [pc EXCEPT ![p] = l]
  BY DEF BeginWrite, Goto
<1>2. stage[p] = "closed"
  BY DEF Inside
<1>3. \A q \in Writers : Inside(q)'
  BY <1>1 DEF Inside
<1>4. ASSUME NEW x \in Names PROVE Owned(x)'
  BY <1>1, <1>2 DEF Owned
<1> QED BY <1>3, <1>4

\* Other steps of a call leave the siblings and the protocol alone.
LEMMA TempElsewhere ==
  ASSUME TempInv, NEW p \in Writers, NEW l \in PCs \ {"saving", "rotating"},
         UNCHANGED atomicVars, pc' = [pc EXCEPT ![p] = l],
         pc[p] \notin {"saving", "rotating"}
  PROVE  (\A q \in Writers : Inside(q)') /\ (\A x \in Names : Owned(x)')
  BY DEF TempInv, TypeInv, TypeOK, CallTypes, Inside, Owned, atomicVars

LEMMA TempSync ==
  ASSUME TempInv, NEW p \in Writers,
         \/ FetchFails(p) \/ FetchCatalogue(p) \/ ProbeExisting(p)
         \/ ProbeAbsent(p) \/ CreateSnapshot(p) \/ LeaveSave(p)
         \/ ReadManifest(p) \/ RotateFails(p) \/ LeaveRotate(p)
  PROVE  (\A q \in Writers : Inside(q)') /\ (\A x \in Names : Owned(x)')
<1> USE DEF PCs
<1>1. CASE FetchFails(p) \/ FetchCatalogue(p) \/ RotateFails(p)
  BY <1>1, TempElsewhere DEF FetchFails, FetchCatalogue, RotateFails, Return
<1>2. CASE ProbeExisting(p) \/ ProbeAbsent(p)
  BY <1>2, TempElsewhere DEF ProbeExisting, ProbeAbsent, Goto, Return
<1>3. CASE CreateSnapshot(p)
  <2>1. CASE BeginWrite(p, Sid(p), catalogue[p]) /\ Goto(p, "saving")
    <3>1. Sid(p) \in Names
      BY <1>3 DEF CreateSnapshot, TempInv, TypeInv, InFlight, Snapshots, Sid
    <3> QED BY <1>3, <2>1, <3>1, TempBegin DEF CreateSnapshot
  <2>2. CASE UNCHANGED atomicVars /\ (Goto(p, "manifest") \/ Return(p, "snapshot_write_failed"))
    BY <1>3, <2>2, TempElsewhere DEF CreateSnapshot, Goto, Return
  <2> QED BY <1>3, <2>1, <2>2 DEF CreateSnapshot
<1>4. CASE LeaveSave(p) \/ LeaveRotate(p)
  BY <1>4, TempLeave DEF LeaveSave, LeaveRotate, Goto, Return
<1>5. CASE ReadManifest(p)
  <2>1. ASSUME NEW d, BeginWrite(p, Current, d), Goto(p, "rotating")
        PROVE  (\A q \in Writers : Inside(q)') /\ (\A x \in Names : Owned(x)')
    BY <1>5, <2>1, TempBegin DEF ReadManifest
  <2>2. CASE UNCHANGED atomicVars /\ (Return(p, "raised") \/ Return(p, "ok"))
    BY <1>5, <2>2, TempElsewhere DEF ReadManifest, Return
  <2> QED BY <1>5, <2>1, <2>2 DEF ReadManifest
<1> QED BY <1>1, <1>2, <1>3, <1>4, <1>5

LEMMA TempNext ==
  ASSUME NobodyDies
  PROVE  TempInv /\ [Next]_vars => TempInv'
<1> SUFFICES ASSUME TempInv, [Next]_vars PROVE TempInv'
  OBVIOUS
<1>1. TypeInv'
  BY NextType DEF TempInv
<1>2. CASE UNCHANGED <<temp, stage, target, pc>>
  BY <1>1, <1>2 DEF TempInv, Inside, Owned
<1>3. ASSUME NEW r \in Readers, LoadManifest(r) \/ ReadStep(r)
      PROVE  UNCHANGED <<temp, stage, target, pc>>
  BY <1>3 DEF LoadManifest, ReadStep, LoadActive, LoadPrevious, atomicVars, syncVars
<1>4. ASSUME NEW x \in Names, Damage(x) \/ Writeback(x)
      PROVE  UNCHANGED <<temp, stage, target, pc>>
  BY <1>4 DEF Damage, Writeback, writerVars, atomicVars, syncVars
<1>5. ~PowerLoss /\ \A p \in Writers : ~Crash(p)
  BY DEF PowerLoss, Crash, Fault, NobodyDies
<1>6. CASE UNCHANGED vars
  BY <1>2, <1>6 DEF vars
<1>7. ASSUME NEW p \in Writers,
             FetchFails(p) \/ FetchCatalogue(p) \/ SyncStep(p)
      PROVE  TempInv'
  BY <1>1, <1>7, TempTry, TempSync DEF SyncStep, TempInv
<1> QED BY <1>2, <1>3, <1>4, <1>5, <1>6, <1>7 DEF Next, Environment

\* However calls overlap, cut and unlink each other's temporary files and
\* fail: as long as no process dies in between, no temporary file stays
\* behind once the last of its writers is done.
THEOREM NoTemporaryStays ==
  ASSUME NobodyDies
  PROVE  Spec => []NoTempLeft
<1>1. Init => TempInv
  BY InitType DEF Init, TempInv, Inside, Owned
<1>2. TempInv => NoTempLeft
  BY DEF TempInv, Owned, NoTempLeft
<1> QED BY <1>1, <1>2, TempNext, PTL DEF Spec

=============================================================================
