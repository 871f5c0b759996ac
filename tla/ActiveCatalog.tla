--------------------------- MODULE ActiveCatalog ---------------------------
(***************************************************************************)
(* What src/sync promises about the catalogue, without files: a growing    *)
(* set of immutable snapshots, one document per id, and a pointer to the   *)
(* active one that remembers the one it replaced (module docstring of      *)
(* src/sync/snapshot.py, src/sync/catalog_sync.py).                        *)
(***************************************************************************)
CONSTANTS Ids, NoId, Metas

VARIABLES
  published,  \* the snapshot documents that can be loaded
  active,     \* the id the manifest calls active, or NoId
  previous    \* the id it calls previous, or NoId

catalogueVars == <<published, active, previous>>

Init ==
  /\ published = {}
  /\ active = NoId
  /\ previous = NoId

\* A snapshot is published once.
Publish(s, m) ==
  /\ \A d \in published : d.id # s
  /\ published' = published \cup {[kind |-> "snapshot", id |-> s, meta |-> m]}
  /\ UNCHANGED <<active, previous>>

\* A published snapshot becomes active, the active one becomes previous.
Rotate(s) ==
  /\ \E d \in published : d.id = s
  /\ s # active
  /\ active' = s
  /\ previous' = active
  /\ UNCHANGED published

Next == \E s \in Ids : (\E m \in Metas : Publish(s, m)) \/ Rotate(s)

Spec == Init /\ [][Next]_catalogueVars

\* The pointer is never dangling: both ids it names can be loaded, and they
\* are two different generations, so that one can stand in for the other
\* (load_active_snapshot falls back from the active to the previous one).
PointerResolves ==
  /\ active # NoId => \E d \in published : d.id = active
  /\ previous # NoId => /\ active # previous
                        /\ \E d \in published : d.id = previous

\* A snapshot id always stands for one document ("content-addressed and
\* immutable"), whichever generations come and go.
OneDocumentPerId == \A d, e \in published : d.id = e.id => d = e

=============================================================================
