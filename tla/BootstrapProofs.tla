-------------------------- MODULE BootstrapProofs --------------------------
(***************************************************************************)
(* Theorems about Bootstrap with one promotion at a time, which may die or *)
(* fail anywhere, while others put a bootstrap there, edit or remove it,   *)
(* also between its look and its move.  With two the shared temporary name *)
(* defeats them, as it does in CatalogSync.                                *)
(***************************************************************************)
EXTENDS Bootstrap, TLAPS

\* The hypothesis of this module's theorems.
Serial == \A p, q \in Writers : p = q

-----------------------------------------------------------------------------
(* The inductive invariant.                                                *)

\* Where the promoter stands says what its sibling file holds, and that the
\* bootstrap is the one its failure has to leave; without the flag that is none,
\* or one that others put there after the look.
Promoting(p) ==
  /\ stage[p] # "closed" <=> pc[p] = "saving"
  /\ pc[p] # "idle" => job[p].doc \in Snapshots
  /\ pc[p] = "saving" => payload[p] = job[p].doc
  /\ fd[p] = IF stage[p] = "write" THEN "temp" ELSE "closed"
  /\ stage[p] = "write" => temp[Target] = Partial
  /\ stage[p] \in {"reread", "replace"} => temp[Target] = payload[p]
  /\ stage[p] = "moved" => Bootstrap = payload[p]
  /\ pc[p] # "idle" /\ stage[p] # "moved" => before[p] = Bootstrap
  /\ pc[p] = "saving" /\ stage[p] # "moved" /\ ~job[p].overwrite /\ ~appeared[p]
        => Bootstrap = Absent
  /\ stage[p] # "invalid"

PromotionInv ==
  /\ TypeOK
  /\ Bootstrap \in Sources
  /\ \A p \in Writers : Promoting(p)

LEMMA PromotionInit == Init => PromotionInv
BY BootstrapAssumption
DEF Init, PromotionInv, TypeOK, Promoting, Contents, Sources, NoJob, Jobs,
    Results, Stages, Places, Bootstrap

\* What a step inside the try block leaves alone, and what it does.
LEMMA TryKeeps ==
  ASSUME NEW p \in Writers, TryStep(p)
  PROVE  UNCHANGED <<target, payload, pc, job, result, before, appeared, loaded>>
BY DEF TryStep, WriteStep, OpenTemp, WriteTemp, RereadTemp, ReplaceTemp,
       TryFails, callVars

\* The steps inside the try block, one writer alone: the types, the promoter's
\* own part of the invariant, and the only change of the bootstrap.
LEMMA TryPromotes ==
  ASSUME PromotionInv, Serial, NEW p \in Writers, TryStep(p)
  PROVE  /\ TypeOK'
         /\ Promoting(p)'
         /\ \/ Bootstrap' = Bootstrap
            \/ /\ Bootstrap' = job[p].doc
               /\ Bootstrap' \in Snapshots
               /\ Bootstrap # Absent => job[p].overwrite \/ appeared[p]
<1> USE DEF PromotionInv, TypeOK, Promoting, Bootstrap
<1>0. UNCHANGED <<target, payload, pc, job, result, before, appeared, loaded>>
  BY TryKeeps
<1>1. target[p] = Target /\ Holders(fd[p], target[p]) = {p} /\ Writers = {p}
  BY DEF Holders, Serial
<1>2. CASE OpenTemp(p) /\ UNCHANGED faults
  BY <1>0, <1>1, <1>2 DEF OpenTemp, Contents, Places, Stages
<1>3. CASE WriteTemp(p) /\ UNCHANGED faults
  <2>1. fd[p] = "temp" /\ temp[Target] = Partial
    BY <1>3 DEF WriteTemp
  <2>2. temp' = [temp EXCEPT ![Target] = payload[p]] /\ file' = file
    BY <1>1, <1>3, <2>1 DEF WriteTemp, Landing
  <2>3. payload[p] \in Contents
    BY DEF Contents, Sources
  <2> QED BY <1>0, <1>1, <1>3, <2>2, <2>3 DEF WriteTemp, Stages, Places
<1>4. CASE RereadTemp(p) /\ UNCHANGED faults
  <2>1. stage[p] = "reread" /\ temp[Target] \in Snapshots
    BY <1>4 DEF RereadTemp
  <2>2. IsDocument(temp[Target]) /\ temp[Target] # Absent
    BY <2>1 DEF IsDocument, Snapshots, Absent
  <2>3. stage' = [stage EXCEPT ![p] = "replace"] /\ UNCHANGED <<file, temp, fd>>
    BY <1>1, <1>4, <2>2 DEF RereadTemp
  <2> QED BY <1>0, <1>1, <1>4, <2>1, <2>3 DEF Stages
<1>5. CASE ReplaceTemp(p) /\ UNCHANGED faults
  <2>1. /\ stage[p] = "replace" /\ fd[p] = "closed"
        /\ temp[Target] = job[p].doc /\ job[p].doc \in Snapshots
    BY <1>5 DEF ReplaceTemp
  <2>2. temp[Target] # Absent
    BY <2>1 DEF Snapshots, Absent
  <2>3. /\ file' = [file EXCEPT ![Target] = temp[Target]]
        /\ temp' = [temp EXCEPT ![Target] = Absent]
        /\ stage' = [stage EXCEPT ![p] = "moved"]
        /\ fd' = fd
    <3>1. fd' = [q \in Writers |-> fd[q]]
      BY <1>1, <1>5, <2>1, <2>2 DEF ReplaceTemp
    <3> QED BY <1>1, <1>5, <2>2, <3>1 DEF ReplaceTemp
  <2>4. Bootstrap # Absent => job[p].overwrite \/ appeared[p]
    BY <2>1
  <2> QED
    BY <1>0, <1>1, <1>5, <2>1, <2>3, <2>4 DEF Contents, Sources, Stages
<1>6. CASE TryFails(p) /\ Fault
  BY <1>0, <1>1, <1>6, BootstrapAssumption
  DEF TryFails, Fault, InTry, Stages, Places
<1> QED
  BY <1>2, <1>3, <1>4, <1>5, <1>6 DEF TryStep, WriteStep

\* The steps of a promotion outside the try block leave the bootstrap alone.
LEMMA CallPromotes ==
  ASSUME PromotionInv, NEW p \in Writers, Writers = {p},
         ReadSource(p) \/ ProbeTarget(p) \/ LeavePromotion(p) \/ Crash(p)
  PROVE  TypeOK' /\ Promoting(p)' /\ Bootstrap' = Bootstrap
<1> USE DEF PromotionInv, TypeOK, Promoting, Bootstrap, Return, Fault
<1>1. CASE ReadSource(p)
  <2>1. pc[p] = "idle" /\ UNCHANGED <<atomicVars, loaded, faults>>
    BY <1>1 DEF ReadSource
  <2>2. ASSUME NEW r \in {"raised", "refused"}, Return(p, r)
        PROVE  TypeOK' /\ Promoting(p)'
    BY <2>1, <2>2 DEF atomicVars, Jobs, NoJob, Sources, Results
  <2>3. ASSUME NEW source \in Sources, NEW stem \in Ids, NEW o \in BOOLEAN,
               Promotable(source, stem),
               pc' = [pc EXCEPT ![p] = "probe"],
               job' = [job EXCEPT ![p] = [doc |-> source, overwrite |-> o]],
               before' = [before EXCEPT ![p] = Bootstrap],
               UNCHANGED <<result, appeared>>
        PROVE  TypeOK' /\ Promoting(p)'
    BY <2>1, <2>3 DEF atomicVars, Promotable, Jobs
  <2> QED BY <1>1, <2>1, <2>2, <2>3 DEF ReadSource, atomicVars
<1>2. CASE ProbeTarget(p)
  <2>0. pc[p] = "probe" /\ loaded' = loaded
    BY <1>2 DEF ProbeTarget
  <2>1. ASSUME NEW r \in {"refused", "raised"}, Return(p, r),
               UNCHANGED atomicVars, faults' \in 0 .. MaxFaults
        PROVE  TypeOK' /\ Promoting(p)' /\ Bootstrap' = Bootstrap
    BY <2>0, <2>1 DEF atomicVars, Jobs, NoJob, Sources, Results
  <2>2. CASE ~InTheWay(p) /\ BeginWrite(p, Target, job[p].doc)
             /\ pc' = [pc EXCEPT ![p] = "saving"]
             /\ UNCHANGED <<job, result, before, appeared, faults>>
    BY <1>2, <2>2 DEF ProbeTarget, InTheWay, BeginWrite, Stages
  <2>3. UNCHANGED faults \/ Fault => faults' \in 0 .. MaxFaults
    BY BootstrapAssumption
  <2> QED BY <1>2, <2>1, <2>2, <2>3 DEF ProbeTarget
<1>3. CASE LeavePromotion(p)
  BY <1>3 DEF LeavePromotion, RemoveTemp, Close, Ends, InFinally, Jobs, NoJob,
     Sources, Contents, Results, Stages, Places
<1>4. CASE Crash(p)
  BY <1>4, BootstrapAssumption
  DEF Crash, Jobs, NoJob, Sources, Results, Stages, Places
<1> QED BY <1>1, <1>2, <1>3, <1>4

LEMMA OthersKeep ==
  ASSUME PromotionInv, LoadBootstrap \/ Edit
  PROVE  PromotionInv'
<1> USE DEF PromotionInv, TypeOK, Promoting, Bootstrap, Fault
<1>1. CASE LoadBootstrap
  BY <1>1, BootstrapAssumption
  DEF LoadBootstrap, Servable, atomicVars, callVars, Sources
<1>2. CASE Edit
  <2>1. PICK c \in Sources :
          /\ file' = [file EXCEPT ![Target] = c]
          /\ before' = [p \in Writers |-> IF pc[p] = "idle" THEN Absent ELSE c]
          /\ appeared' = [p \in Writers |-> pc[p] = "saving" /\ c # Absent]
    BY <1>2 DEF Edit
  <2>2. /\ appeared' \in [Writers -> BOOLEAN]
        /\ \A p \in Writers : pc[p] = "saving" /\ c # Absent => appeared'[p]
    BY <2>1, Zenon
  <2>3. /\ UNCHANGED <<temp, writerVars, pc, job, result, loaded>>
        /\ \A p \in Writers : stage[p] # "moved"
        /\ faults' \in 0 .. MaxFaults
    BY <1>2, BootstrapAssumption DEF Edit
  <2>4. Bootstrap' = c /\ c \in Contents
    BY <2>1 DEF Contents
  <2>5. TypeOK'
    BY <2>1, <2>2, <2>3, <2>4 DEF writerVars, Sources
  <2>6. ASSUME NEW p \in Writers PROVE Promoting(p)'
    BY <2>1, <2>2, <2>3, <2>4 DEF writerVars
  <2> QED BY <2>1, <2>4, <2>5, <2>6
<1> QED BY <1>1, <1>2

LEMMA PromotionNext ==
  ASSUME Serial PROVE PromotionInv /\ [Next]_vars => PromotionInv'
<1> SUFFICES ASSUME PromotionInv, [Next]_vars PROVE PromotionInv'
  OBVIOUS
<1>1. ASSUME NEW p \in Writers, PromoteStep(p) \/ Crash(p)
      PROVE  PromotionInv'
  <2>1. Writers = {p}
    BY DEF Serial
  <2>2. TypeOK' /\ Promoting(p)'
    BY <1>1, <2>1, TryPromotes, CallPromotes DEF PromoteStep
  <2>3. Bootstrap' \in Sources
    BY <1>1, <2>1, TryPromotes, CallPromotes DEF PromoteStep, PromotionInv, Sources
  <2> QED BY <2>1, <2>2, <2>3 DEF PromotionInv
<1>2. CASE LoadBootstrap \/ Edit
  BY <1>2, OthersKeep
<1>3. CASE UNCHANGED vars
  BY <1>3 DEF vars, PromotionInv, TypeOK, Promoting, Bootstrap
<1> QED BY <1>1, <1>2, <1>3 DEF Next

LEMMA PromotionAlways ==
  ASSUME Serial PROVE Spec => []PromotionInv
BY PromotionInit, PromotionNext, PTL DEF Spec

-----------------------------------------------------------------------------
(* The theorems.                                                           *)

\* Every step that others did not take leaves the bootstrap as it is or puts
\* in place a validated snapshot, over another one only on request or where
\* others put that one after the look.
LEMMA BootstrapChanges ==
  ASSUME Serial, PromotionInv, [Next]_vars
  PROVE  \/ Edit
         \/ Bootstrap' = Bootstrap
         \/ /\ Bootstrap' \in Snapshots
            /\ Bootstrap # Absent =>
                  \E p \in Writers : /\ (job[p].overwrite \/ appeared[p])
                                     /\ Bootstrap' = job[p].doc
<1>1. ASSUME NEW p \in Writers, TryStep(p)
      PROVE  \/ Bootstrap' = Bootstrap
             \/ /\ Bootstrap' \in Snapshots
                /\ Bootstrap # Absent =>
                      \E q \in Writers : /\ (job[q].overwrite \/ appeared[q])
                                         /\ Bootstrap' = job[q].doc
  BY <1>1, TryPromotes
<1>2. ASSUME NEW p \in Writers,
             ReadSource(p) \/ ProbeTarget(p) \/ LeavePromotion(p) \/ Crash(p)
      PROVE  Bootstrap' = Bootstrap
  BY <1>2, CallPromotes DEF Serial
<1>3. CASE LoadBootstrap \/ UNCHANGED vars
  BY <1>3 DEF LoadBootstrap, atomicVars, vars, Bootstrap
<1> QED BY <1>1, <1>2, <1>3 DEF Next, PromoteStep

LEMMA EditCounts ==
  ASSUME PromotionInv, Edit PROVE faults' # faults
BY DEF PromotionInv, TypeOK, Edit, Fault

\* With one promotion at a time every variable keeps to its values,
\* whatever fails and whoever edits the file.
THEOREM TypeCorrect ==
  ASSUME Serial PROVE Spec => []TypeOK
<1>1. PromotionInv => TypeOK
  BY DEF PromotionInv
<1> QED BY <1>1, PromotionAlways, PTL

\* Once it holds a document the bootstrap always does, as far as the program
\* has a say, wherever a promotion fails or dies.
THEOREM BootstrapStays ==
  ASSUME Serial PROVE Spec => StaysServable
<1>1. PromotionInv /\ [Next]_vars
        => [Servable /\ faults' = faults => Servable']_vars
  BY BootstrapChanges, EditCounts DEF Servable
<1> QED BY <1>1, PromotionAlways, PTL DEF Spec, StaysServable

\* Whatever others do to the file meanwhile, a promotion without overwrite=True
\* never replaces a bootstrap that was there when it looked: only one that
\* they put there between the look and the move.
THEOREM NeverReplacedUnasked ==
  ASSUME Serial PROVE Spec => ReplacedOnRequest
<1>1. PromotionInv /\ [Next]_vars
        => [Bootstrap # Absent /\ Bootstrap' # Bootstrap /\ faults' = faults
              => \E p \in Writers : /\ (job[p].overwrite \/ appeared[p])
                                    /\ Bootstrap' = job[p].doc]_vars
  BY BootstrapChanges, EditCounts
<1> QED BY <1>1, PromotionAlways, PTL DEF Spec, ReplacedOnRequest

\* Which steps end a call.
LEMMA WhoReturns ==
  ASSUME Serial, PromotionInv, [Next]_vars, NEW p \in Writers, NEW r, Returns(p, r)
  PROVE  ProbeTarget(p) \/ LeavePromotion(p) \/ Crash(p)
<1>1. ASSUME NEW q \in Writers, PromoteStep(q) \/ Crash(q)
      PROVE  ProbeTarget(p) \/ LeavePromotion(p) \/ Crash(p)
  <2>1. q = p
    BY DEF Serial
  <2>2. ~ReadSource(p)
    BY DEF ReadSource, Returns
  <2>3. ~TryStep(p)
    BY TryKeeps DEF Returns
  <2> QED BY <1>1, <2>1, <2>2, <2>3 DEF PromoteStep
<1>2. pc' # pc
  BY DEF Returns
<1>3. ~LoadBootstrap /\ ~Edit /\ ~UNCHANGED vars
  BY <1>2 DEF LoadBootstrap, Edit, callVars, vars
<1> QED BY <1>1, <1>3 DEF Next

\* A promotion that does not succeed leaves the bootstrap as it found it.
THEOREM FailureChangesNothing ==
  ASSUME Serial PROVE Spec => FailureKeepsBootstrap
<1>1. ASSUME PromotionInv, [Next]_vars, NEW p \in Writers,
             NEW r \in {"refused", "raised", "crashed"},
             Returns(p, r), stage[p] # "moved"
      PROVE  Bootstrap' = before[p]
  <2>1. ProbeTarget(p) \/ LeavePromotion(p) \/ Crash(p)
    BY <1>1, WhoReturns
  <2>2. Bootstrap' = Bootstrap
    BY <1>1, <2>1, CallPromotes DEF Serial
  <2>3. before[p] = Bootstrap
    BY <1>1 DEF PromotionInv, Promoting, Returns
  <2> QED BY <2>2, <2>3
<1>2. PromotionInv /\ [Next]_vars
        => [\A p \in Writers, r \in {"refused", "raised", "crashed"} :
               Returns(p, r) /\ stage[p] # "moved" => Bootstrap' = before[p]]_vars
  BY <1>1
<1> QED BY <1>2, PromotionAlways, PTL DEF Spec, FailureKeepsBootstrap

\* A promotion that reports success has put its source's snapshot in place.
THEOREM SuccessInstalls ==
  ASSUME Serial PROVE Spec => OkInstalls
<1>1. ASSUME PromotionInv, [Next]_vars, NEW p \in Writers, Returns(p, "ok")
      PROVE  Bootstrap' = job[p].doc
  <2>1. ProbeTarget(p) \/ LeavePromotion(p) \/ Crash(p)
    BY <1>1, WhoReturns
  <2>2. Bootstrap' = Bootstrap
    BY <1>1, <2>1, CallPromotes DEF Serial
  <2>3. ~ProbeTarget(p) /\ ~Crash(p)
    BY <1>1 DEF ProbeTarget, Crash, Return, Returns, PromotionInv, TypeOK
  <2>4. stage[p] = "moved" /\ pc[p] = "saving"
    BY <1>1, <2>1, <2>3
    DEF LeavePromotion, RemoveTemp, InFinally, Ends, Return, Returns,
        PromotionInv, TypeOK, Promoting
  <2> QED BY <1>1, <2>2, <2>4 DEF PromotionInv, Promoting
<1>2. PromotionInv /\ [Next]_vars
        => [\A p \in Writers : Returns(p, "ok") => Bootstrap' = job[p].doc]_vars
  BY <1>1
<1> QED BY <1>2, PromotionAlways, PTL DEF Spec, OkInstalls

=============================================================================
