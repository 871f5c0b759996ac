------------------------- MODULE CatalogSerialProofs -------------------------
(***************************************************************************)
(* Theorems about CatalogSync with one caller of sync_catalog at a time    *)
(* and any number of readers, when nothing worse happens than processes    *)
(* that die and system calls that fail: nobody else writes to the          *)
(* directory and the machine keeps its power.  Then the files implement    *)
(* the abstract catalogue.                                                 *)
(***************************************************************************)
EXTENDS CatalogFaultProofs

ProcessFaults == FaultKinds \subseteq {"crash", "writeerror", "readerror"}

-----------------------------------------------------------------------------
(* The directory is complete.                                              *)

SerialInv == PublishedInv /\ PublishedComplete /\ SiblingInv

\* Only publications change the directory.
LEMMA SerialFile ==
  ASSUME SerialInv, Serial, ProcessFaults, [Next]_vars
  PROVE  file' = file \/ \E p \in Writers : Publishes(p)
  BY FileMoves DEF SerialInv, Damage, PowerLoss, Fault, ProcessFaults

\* So the directory stays complete, and a published snapshot stays as it is.
LEMMA SerialComplete ==
  ASSUME SerialInv, Serial, ProcessFaults, [Next]_vars
  PROVE  /\ PublishedComplete'
         /\ \A s \in Ids : file[s] # Absent => file'[s] = file[s]
<1>1. CASE file' = file
  BY <1>1 DEF SerialInv, PublishedComplete, Readable
<1>2. ASSUME NEW p \in Writers, Publishes(p)
      PROVE  /\ PublishedComplete'
             /\ \A s \in Ids : file[s] # Absent => file'[s] = file[s]
  BY <1>2, NamesAssumption, CallerTypes
  DEF SerialInv, SiblingInv, PublishedComplete, Publishes, Readable, Names
<1> QED BY <1>1, <1>2, SerialFile

LEMMA SerialInit == Init => SerialInv
  BY PublishedInit, SiblingInit DEF Init, SerialInv, PublishedComplete

LEMMA SerialNext ==
  ASSUME Serial, ProcessFaults
  PROVE  SerialInv /\ [Next]_vars => SerialInv'
  BY PublishedNext, SiblingNext, SerialComplete DEF SerialInv, ProcessFaults, FilesKept

LEMMA SerialAlways ==
  ASSUME Serial, ProcessFaults
  PROVE  Spec => []SerialInv
  BY SerialInit, SerialNext, PTL DEF Spec

\* Whatever write fails and wherever a process dies, a name in the catalogue
\* directory leads to nothing or to a complete document that validates.
THEOREM DirectoryComplete ==
  ASSUME Serial, ProcessFaults
  PROVE  Spec => []PublishedComplete
<1>1. SerialInv => PublishedComplete
  BY DEF SerialInv
<1> QED BY <1>1, SerialAlways, PTL

-----------------------------------------------------------------------------
(* Readers, while no read fails.                                           *)

\* The snapshot a reader is about to load stays there, and is the one it
\* answers with; the second candidate is never needed.
ReaderInv(r) ==
  /\ rpc[r] # "previous"
  /\ rpc[r] = "active" => /\ seen[r] \in Manifests
                          /\ Readable(file[seen[r].active], seen[r].active)
  /\ rpc[r] = "idle" /\ seen[r].kind = "manifest"
       => Readable(loaded[r], seen[r].active)

ReadersInv == SerialInv /\ \A r \in Readers : ReaderInv(r)

\* What a manifest calls active can be read.
LEMMA ActiveReadable ==
  ASSUME SerialInv, HasManifest
  PROVE  /\ file[Current] \in Manifests
         /\ Readable(file[file[Current].active], file[Current].active)
<1>1. file[Current] \in Manifests
  BY ContentKinds DEF SerialInv, PublishedInv, TypeInv, TypeOK, DiskTypes, Names,
                      HasManifest, Readable
<1>2. file[Current].active \in Ids /\ file[file[Current].active] # Absent
  BY <1>1 DEF Manifests, SerialInv, PublishedInv, Backed
<1> QED BY <1>1, <1>2 DEF SerialInv, PublishedComplete, Names

LEMMA UntouchedReader ==
  ASSUME ReadersInv, Serial, ProcessFaults, [Next]_vars, NEW r \in Readers,
         rpc'[r] = rpc[r], seen'[r] = seen[r], loaded'[r] = loaded[r]
  PROVE  ReaderInv(r)'
<1>1. CASE rpc[r] = "active"
  <2>1. seen[r].active \in Ids
    BY <1>1 DEF ReadersInv, ReaderInv, Manifests
  <2>2. file[seen[r].active] # Absent
    BY <1>1, <2>1, NamesAssumption DEF ReadersInv, ReaderInv, Readable, Absent
  <2>3. file'[seen[r].active] = file[seen[r].active]
    BY <2>1, <2>2, SerialComplete DEF ReadersInv
  <2> QED BY <1>1, <2>3 DEF ReadersInv, ReaderInv
<1>2. CASE rpc[r] # "active"
  BY <1>2 DEF ReadersInv, ReaderInv
<1> QED BY <1>1, <1>2

LEMMA ReadersNext ==
  ASSUME Serial, ProcessFaults, NoReadError
  PROVE  ReadersInv /\ [Next]_vars => ReadersInv'
<1> SUFFICES ASSUME ReadersInv, [Next]_vars PROVE ReadersInv'
  OBVIOUS
<1>1. SerialInv'
  BY SerialNext DEF ReadersInv
<1>2. ASSUME NEW r \in Readers, LoadManifest(r)
      PROVE  \A q \in Readers : ReaderInv(q)'
  <2>1. file' = file
    BY <1>2 DEF LoadManifest, atomicVars
  <2>2. ASSUME NEW q \in Readers, q # r PROVE ReaderInv(q)'
    BY <1>2, <2>2, UntouchedReader
    DEF LoadManifest, Answer, ReadersInv, SerialInv, PublishedInv, TypeInv, TypeOK,
        ReaderTypes
  <2>3. ReaderInv(r)'
    <3>1. file[Current].kind = "manifest" <=> HasManifest
      BY DEF HasManifest, Readable
    <3>2. seen'[r] = file[Current]
      BY <1>2, ReadsFile
      DEF LoadManifest, ReadersInv, SerialInv, PublishedInv, TypeInv, TypeOK,
          ReaderTypes
    <3>3. rpc'[r] = IF HasManifest THEN "active" ELSE "idle"
      BY <1>2, ReadsFile
      DEF LoadManifest, Answer, HasManifest, ReadersInv, SerialInv, PublishedInv,
          TypeInv, TypeOK, ReaderTypes
    <3> QED
      BY <2>1, <3>1, <3>2, <3>3, ActiveReadable DEF ReaderInv, ReadersInv
  <2> QED BY <2>2, <2>3
<1>3. ASSUME NEW r \in Readers, ReadStep(r)
      PROVE  \A q \in Readers : ReaderInv(q)'
  <2>1. LoadActive(r)
    BY <1>3 DEF ReadStep, LoadPrevious, ReadersInv, ReaderInv
  <2>2. /\ rpc[r] = "active" /\ seen' = seen
        /\ Readable(file[seen[r].active], seen[r].active)
    BY <2>1 DEF LoadActive, ReadersInv, ReaderInv
  <2>3. Answer(r, file[seen[r].active])
    BY <2>1, <2>2, ReadsFile DEF LoadActive, TryCandidate, Rejected
  <2>4. ReaderInv(r)'
    BY <2>2, <2>3
    DEF Answer, ReaderInv, ReadersInv, SerialInv, PublishedInv, TypeInv, TypeOK,
        ReaderTypes
  <2>5. ASSUME NEW q \in Readers, q # r PROVE ReaderInv(q)'
    BY <1>3, <2>2, <2>3, <2>5, UntouchedReader
    DEF Answer, ReadersInv, SerialInv, PublishedInv, TypeInv, TypeOK, ReaderTypes
  <2> QED BY <2>4, <2>5
<1>4. CASE UNCHANGED readerVars
  BY <1>1, <1>4, UntouchedReader DEF readerVars, ReadersInv
<1>5. ASSUME NEW p \in Writers,
             FetchFails(p) \/ FetchCatalogue(p) \/ SyncStep(p) \/ Crash(p)
      PROVE  UNCHANGED readerVars
  BY <1>5 DEF SyncStep, FetchFails, FetchCatalogue, ProbeExisting, ProbeAbsent,
     CreateSnapshot, LeaveSave, ReadManifest, RotateFails, LeaveRotate, Crash,
     TryStep
<1>6. ASSUME NEW x \in Names, Damage(x) \/ Writeback(x) PROVE UNCHANGED readerVars
  BY <1>6 DEF Damage, Writeback, Fault, ProcessFaults
<1>7. ~PowerLoss
  BY DEF PowerLoss, Fault, ProcessFaults
<1>8. CASE UNCHANGED vars
  BY <1>8, <1>4 DEF vars, readerVars
<1> QED
  BY <1>1, <1>2, <1>3, <1>4, <1>5, <1>6, <1>7, <1>8 DEF Next, Environment, ReadersInv

\* A reader that found a manifest answers with the snapshot it calls active,
\* however many rotations, crashes and failed writes happen while it reads.
THEOREM ReadersGetActive ==
  ASSUME Serial, ProcessFaults, NoReadError
  PROVE  Spec => []ReaderGetsActive
<1>1. Init => ReadersInv
  BY SerialInit DEF Init, ReadersInv, ReaderInv, Absent
<1>2. ReadersInv => ReaderGetsActive
  BY DEF ReadersInv, ReaderInv, ReaderGetsActive
<1> QED BY <1>1, <1>2, ReadersNext, PTL DEF Spec

-----------------------------------------------------------------------------
(* One caller implements the abstract catalogue.                           *)

RefinementInv == SerialInv /\ RotationInv

LEMMA RefinementNext ==
  ASSUME Serial, ProcessFaults, NoReadError
  PROVE  RefinementInv /\ [Next]_vars => RefinementInv'
  BY SerialNext, RotationNext DEF RefinementInv, ProcessFaults, NoDamage

\* The abstract state: the snapshots in the directory, and the manifest's ids.
PublishedDocs == {file[s] : s \in Ids} \ {Absent}
ActiveId   == IF HasManifest THEN file[Current].active ELSE NoId
PreviousId == IF HasManifest THEN file[Current].previous ELSE NoId

\* Moving a snapshot in place publishes it.
LEMMA PublishRefines ==
  ASSUME SerialInv, NEW p \in Writers, Publishes(p), pc[p] = "saving"
  PROVE  Catalogue!Next
<1>1. /\ target[p] \in Ids /\ target[p] # Current
      /\ file[target[p]] = Absent
      /\ file' = [file EXCEPT ![target[p]] = payload[p]]
  BY NamesAssumption DEF Publishes
<1>2. payload[p] \in Snapshots /\ payload[p].id = target[p]
  BY <1>1 DEF Publishes, Readable, SerialInv, PublishedInv, TypeInv, TypeOK,
              WriterTypes, Manifests, Absent
<1>3. PICK m \in Metas : payload[p] = SnapshotDoc(target[p], m)
  BY <1>2 DEF Snapshots, SnapshotDoc
<1>4. \A d \in PublishedDocs : d.id # target[p]
  <2>1. \A s \in Ids : file[s] # Absent => file[s].id = s
    BY NamesAssumption DEF SerialInv, PublishedComplete, Readable, Names
  <2> QED BY <1>1, <2>1 DEF PublishedDocs
<1>5. PublishedDocs' = PublishedDocs \cup {payload[p]}
  <2>1. /\ file \in [Names -> Contents] /\ Ids \subseteq Names
        /\ payload[p] # Absent
    BY <1>2, Kinds
    DEF SerialInv, PublishedInv, TypeInv, TypeOK, DiskTypes, Names
  <2>2. \A s \in Ids : file'[s] = IF s = target[p] THEN payload[p] ELSE file[s]
    BY <1>1, <2>1
  <2> QED BY <1>1, <2>1, <2>2 DEF PublishedDocs
<1>6. ActiveId' = ActiveId /\ PreviousId' = PreviousId
  BY <1>1 DEF ActiveId, PreviousId, HasManifest, SerialInv, PublishedInv, TypeInv,
              TypeOK, DiskTypes, Names
<1>7. ASSUME NEW s \in Ids, s = target[p]
      PROVE  Catalogue!Publish(s, m)
  BY <1>3, <1>4, <1>5, <1>6, <1>7
  DEF Catalogue!Publish, SnapshotDoc, PublishedDocs, ActiveId, PreviousId
<1>8. PICK s \in Ids : s = target[p]
  BY <1>1
<1> QED BY <1>7, <1>8 DEF Catalogue!Next

\* Moving a manifest in place rotates.
LEMMA RotateRefines ==
  ASSUME RefinementInv, NEW p \in Writers, Publishes(p), pc[p] = "rotating"
  PROVE  Catalogue!Next
<1>1. /\ target[p] = Current /\ file' = [file EXCEPT ![Current] = payload[p]]
      /\ stage[p] = "replace" /\ CallInv(p) /\ RotatesInv(p)
      /\ file \in [Names -> Contents] /\ Sid(p) \in Ids /\ Sid(p) # Current
  BY CallerTypes DEF Publishes, RefinementInv, RotationInv, CallsInv, SiblingInv
<1>2. /\ payload[p] = ManifestDoc(Sid(p), RotatedOut(file[Current]))
      /\ ~IsActive(file[Current], Sid(p))
  BY <1>1 DEF CallInv, RotatesInv, Rotated, InTry
<1>3. Readable(file[Sid(p)], Sid(p))
  BY <1>1 DEF CallInv, Stored
<1>4. file[Sid(p)] # Absent
  BY <1>1, <1>3 DEF Readable, Absent
<1>5. file[Sid(p)] \in PublishedDocs /\ file[Sid(p)].id = Sid(p)
  BY <1>1, <1>3, <1>4 DEF PublishedDocs, Readable
<1>6. PublishedDocs' = PublishedDocs
  <2>1. \A s \in Ids : file'[s] = file[s]
    BY <1>1, NamesAssumption DEF Names
  <2> QED BY <2>1 DEF PublishedDocs
<1>7. ActiveId' = Sid(p) /\ PreviousId' = ActiveId
  BY <1>1, <1>2
  DEF ActiveId, PreviousId, HasManifest, Readable, ManifestDoc, RotatedOut, Names
<1>8. Sid(p) # ActiveId
  BY <1>1, <1>2, NamesAssumption DEF ActiveId, IsActive, HasManifest, Names
<1>9. Catalogue!Rotate(Sid(p))
  BY <1>5, <1>6, <1>7, <1>8
  DEF Catalogue!Rotate, PublishedDocs, ActiveId, PreviousId
<1> QED BY <1>1, <1>9 DEF Catalogue!Next

LEMMA StepRefines ==
  ASSUME Serial, ProcessFaults, NoReadError, RefinementInv, [Next]_vars
  PROVE  [Catalogue!Next]_<<PublishedDocs, ActiveId, PreviousId>>
<1>1. CASE file' = file
  BY <1>1 DEF PublishedDocs, ActiveId, PreviousId, HasManifest
<1>2. ASSUME NEW p \in Writers, Publishes(p)
      PROVE  Catalogue!Next
  <2>1. CASE pc[p] = "saving"
    BY <1>2, <2>1, PublishRefines DEF RefinementInv
  <2>2. CASE pc[p] = "rotating"
    BY <1>2, <2>2, RotateRefines
  <2> QED BY <1>2, <2>1, <2>2 DEF Publishes
<1> QED BY <1>1, <1>2, SerialFile DEF RefinementInv

\* One caller at a time, crashing and failing anywhere: the files change only
\* as the abstract catalogue does, one immutable document per id and then one
\* rotation onto it that remembers the snapshot it replaces.
THEOREM SerialRefinement ==
  ASSUME Serial, ProcessFaults, NoReadError
  PROVE  Spec => ImplementsCatalogue
<1>1. Init => RefinementInv
  <2>1. Init => CallsInv
    BY SiblingInit DEF Init, CallsInv, CallInv
  <2> QED
    BY SerialInit, <2>1 DEF Init, RefinementInv, RotationInv, RotatesInv
<1>2. Init => Catalogue!Init
  <2>1. Init => \A t \in Names : file[t] = Absent
    BY DEF Init
  <2> QED
    BY <2>1 DEF Catalogue!Init, HasManifest, Readable, Names, Absent
<1>3. RefinementInv /\ [Next]_vars => [Catalogue!Next]_(Catalogue!catalogueVars)
  BY StepRefines
  DEF Catalogue!catalogueVars, PublishedDocs, ActiveId, PreviousId
<1> QED
  BY <1>1, <1>2, <1>3, RefinementNext, PTL
  DEF Spec, ImplementsCatalogue, Catalogue!Spec

-----------------------------------------------------------------------------
(* So the files keep what the abstract catalogue promises.                 *)

Promises ==
  INSTANCE ActiveCatalogProofs WITH
    published <- PublishedDocs, active <- ActiveId, previous <- PreviousId

\* Both instances are the same specification.
LEMMA SameCatalogue ==
  /\ Catalogue!Init => Promises!Init
  /\ [Catalogue!Next]_(Catalogue!catalogueVars)
       => [Promises!Next]_(Promises!catalogueVars)
  BY DEF PublishedDocs, ActiveId, PreviousId,
     Catalogue!Init, Catalogue!Next, Catalogue!Publish, Catalogue!Rotate,
     Catalogue!catalogueVars,
     Promises!Init, Promises!Next, Promises!Publish, Promises!Rotate,
     Promises!catalogueVars

\* What the pointer of the abstract catalogue promises, read off the files.
LEMMA PromiseOnDisk ==
  ASSUME SerialInv, Promises!PointerResolves
  PROVE  GenerationsLoad
<1> SUFFICES ASSUME HasManifest PROVE GenerationsLoad
  BY DEF GenerationsLoad
<1>1. file[Current] \in Manifests
  BY ContentKinds, CallerTypes
  DEF SerialInv, SiblingInv, TypeInv, TypeOK, DiskTypes, Names, HasManifest, Readable
<1>2. ActiveId = file[Current].active /\ PreviousId = file[Current].previous
  BY DEF ActiveId, PreviousId
<1>3. ActiveId \in Ids /\ ActiveId # NoId
  BY <1>1, <1>2, NamesAssumption DEF Manifests, Names
<1>4. \A s \in Ids : (\E d \in PublishedDocs : d.id = s) => Readable(file[s], s)
  BY NamesAssumption
  DEF SerialInv, PublishedComplete, PublishedDocs, Readable, Names
<1>5. PreviousId \in Ids \cup {NoId}
  BY <1>1, <1>2 DEF Manifests
<1>6. /\ Readable(file[ActiveId], ActiveId)
      /\ PreviousId # NoId => /\ PreviousId # ActiveId
                              /\ Readable(file[PreviousId], PreviousId)
  BY <1>3, <1>4, <1>5 DEF Promises!PointerResolves
<1> QED BY <1>2, <1>6 DEF GenerationsLoad

\* Through every crash and every failed call: the generations that the
\* manifest names are two, and both files load, each under its name.  It is
\* the promise of the abstract catalogue, carried over by the refinement.
THEOREM GenerationsAlwaysLoad ==
  ASSUME Serial, ProcessFaults, NoReadError
  PROVE  Spec => []GenerationsLoad
<1>1. Promises!Named
  BY NamesAssumption DEF Promises!Named, Names
<1>2. Promises!Spec => []Promises!PointerResolves
  BY <1>1, Promises!PointerAlwaysResolves
<1>3. Spec => Catalogue!Spec
  BY SerialRefinement DEF ImplementsCatalogue
<1>4. Catalogue!Spec => Promises!Spec
  BY SameCatalogue, PTL DEF Catalogue!Spec, Promises!Spec
<1> QED BY <1>2, <1>3, <1>4, PromiseOnDisk, SerialAlways, PTL

=============================================================================
