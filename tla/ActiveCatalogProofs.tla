------------------------ MODULE ActiveCatalogProofs ------------------------
(***************************************************************************)
(* The promises of the abstract catalogue, for any ids and headers.        *)
(***************************************************************************)
EXTENDS ActiveCatalog, TLAPS

\* The id of no snapshot is no id of a snapshot.
Named == NoId \notin Ids

\* What the promises need to be inductive: documents carry ids, a pointer
\* that is not set leaves the fallback unset.
CatalogueInv ==
  /\ \A d \in published : d.id \in Ids
  /\ active = NoId => previous = NoId
  /\ PointerResolves
  /\ OneDocumentPerId

LEMMA CatalogueInit ==
  ASSUME Init PROVE CatalogueInv
BY DEF Init, CatalogueInv, PointerResolves, OneDocumentPerId

LEMMA CatalogueNext ==
  ASSUME Named, CatalogueInv, [Next]_catalogueVars PROVE CatalogueInv'
<1>1. ASSUME NEW s \in Ids, NEW m \in Metas, Publish(s, m)
      PROVE  CatalogueInv'
  <2> DEFINE new == [kind |-> "snapshot", id |-> s, meta |-> m]
  <2>1. new.id = s /\ published' = published \cup {new}
    BY <1>1 DEF Publish
  <2>2. active' = active /\ previous' = previous
    BY <1>1 DEF Publish
  <2>3. \A d \in published : d.id # s
    BY <1>1 DEF Publish
  <2> HIDE DEF new
  <2>4. PointerResolves'
    BY <2>1, <2>2 DEF CatalogueInv, PointerResolves
  <2>5. OneDocumentPerId'
    BY <2>1, <2>3 DEF CatalogueInv, OneDocumentPerId
  <2> QED
    BY <2>1, <2>2, <2>4, <2>5 DEF CatalogueInv
<1>2. ASSUME NEW s \in Ids, Rotate(s)
      PROVE  CatalogueInv'
  BY <1>2 DEF Named, Rotate, CatalogueInv, PointerResolves, OneDocumentPerId
<1>3. CASE UNCHANGED catalogueVars
  BY <1>3 DEF catalogueVars, CatalogueInv, PointerResolves, OneDocumentPerId
<1> QED
  BY <1>1, <1>2, <1>3 DEF Next

\* The manifest of the abstract catalogue always names published snapshots,
\* two different ones once it has rotated.
THEOREM PointerAlwaysResolves ==
  ASSUME Named PROVE Spec => []PointerResolves
<1>1. CatalogueInv => PointerResolves
  BY DEF CatalogueInv
<1> QED
  BY CatalogueInit, CatalogueNext, <1>1, PTL DEF Spec

\* An id stands for one document for ever.
THEOREM IdsNameOneDocument ==
  ASSUME Named PROVE Spec => []OneDocumentPerId
<1>1. CatalogueInv => OneDocumentPerId
  BY DEF CatalogueInv
<1> QED
  BY CatalogueInit, CatalogueNext, <1>1, PTL DEF Spec

=============================================================================
