----------------------------- MODULE Bootstrap -----------------------------
(***************************************************************************)
(* src/sync/bootstrap.py: promote_snapshot_to_bootstrap, a second client   *)
(* of the write protocol in AtomicFile, with load_bootstrap reading.  The  *)
(* source is a file of the catalogue directory, which the promotion reads  *)
(* once; the only name written is that of the bootstrap file.  A promoter  *)
(* may die, its system calls may fail, and the file, which lives in a git  *)
(* working tree, may be put there, edited or removed by others at any time.*)
(***************************************************************************)
EXTENDS AtomicFile

CONSTANTS
  Ids,        \* snapshot ids, and stems of source files
  Target,     \* the name of the bootstrap file
  MaxFaults   \* bound: crashes, failing calls and edits, all together

ASSUME BootstrapAssumption == MaxFaults \in Nat

VARIABLES
  pc,         \* pc[p]: where the call of promote_snapshot_to_bootstrap of p is
  job,        \* job[p]: the snapshot p promotes, and its overwrite flag
  result,     \* result[p]: how the last call of p ended
  before,     \* history, before[p]: the bootstrap p has to leave if it fails
  appeared,   \* history, appeared[p]: is the bootstrap that is there one that
              \* others put in place after p looked for one?
  loaded,     \* what the last call of load_bootstrap gave
  faults      \* faults so far

callVars == <<pc, job, result, before, appeared>>
vars == <<file, temp, stage, target, payload, fd, pc, job, result, before,
          appeared, loaded, faults>>

Snapshots == [kind : {"snapshot"}, id : Ids]
Sources   == {Absent, Torn, Undecodable} \cup Snapshots
Contents  == {Partial} \cup Sources
NoJob     == [doc |-> Absent, overwrite |-> FALSE]
Jobs      == [doc : {Absent} \cup Snapshots, overwrite : BOOLEAN]
Results   == {"none", "ok", "refused", "raised", "crashed"}

Bootstrap == file[Target]
Servable  == Bootstrap \in Snapshots

Init ==
  /\ file = [t \in {Target} |-> Absent]
  /\ temp = [t \in {Target} |-> Absent]
  /\ stage = [p \in Writers |-> "closed"]
  /\ target = [p \in Writers |-> Target]
  /\ payload = [p \in Writers |-> Absent]
  /\ fd = [p \in Writers |-> "closed"]
  /\ pc = [p \in Writers |-> "idle"]
  /\ job = [p \in Writers |-> NoJob]
  /\ result = [p \in Writers |-> "none"]
  /\ before = [p \in Writers |-> Absent]
  /\ appeared = [p \in Writers |-> FALSE]
  /\ loaded = Absent
  /\ faults = 0

-----------------------------------------------------------------------------

Fault == faults < MaxFaults /\ faults' = faults + 1

Return(p, r) ==
  /\ pc' = [pc EXCEPT ![p] = "idle"]
  /\ job' = [job EXCEPT ![p] = NoJob]
  /\ result' = [result EXCEPT ![p] = r]
  /\ before' = [before EXCEPT ![p] = Absent]
  /\ appeared' = [appeared EXCEPT ![p] = FALSE]

\* A slip to catch: the file name vouches for the content.
ByName(source, stem) == source \notin {Absent, Undecodable}

\* The source validates, and is named after the snapshot in it.
Promotable(source, stem) == source \in Snapshots /\ source.id = stem

\* The source is looked for, read, validated, and its stem compared.  Bytes
\* that are not UTF-8 leave the call as UnicodeDecodeError, the rest is a
\* BootstrapError.
ReadSource(p) ==
  /\ pc[p] = "idle"
  /\ \E source \in Sources, stem \in Ids, overwrite \in BOOLEAN :
        IF Promotable(source, stem)
        THEN /\ pc' = [pc EXCEPT ![p] = "probe"]
             /\ job' = [job EXCEPT ![p] = [doc |-> source, overwrite |-> overwrite]]
             /\ before' = [before EXCEPT ![p] = Bootstrap]
             /\ UNCHANGED <<result, appeared>>
        ELSE Return(p, IF source = Undecodable THEN "raised" ELSE "refused")
  /\ UNCHANGED <<atomicVars, loaded, faults>>

\* A slip to catch: only a bootstrap that still validates is protected.
ServableInTheWay(p) == Servable /\ ~job[p].overwrite

\* target.exists() and not overwrite: any content counts.
InTheWay(p) == Bootstrap # Absent /\ ~job[p].overwrite

\* The refusal, or mkdir, which is outside the try block, and the protocol.
ProbeTarget(p) ==
  /\ pc[p] = "probe"
  /\ \/ InTheWay(p) /\ Return(p, "refused") /\ UNCHANGED <<atomicVars, faults>>
     \/ /\ ~InTheWay(p)
        /\ Fault
        /\ Return(p, "raised")
        /\ UNCHANGED atomicVars
     \/ /\ ~InTheWay(p)
        /\ BeginWrite(p, Target, job[p].doc)
        /\ pc' = [pc EXCEPT ![p] = "saving"]
        /\ UNCHANGED <<job, result, before, appeared, faults>>
  /\ UNCHANGED loaded

\* One step inside the try block.
TryStep(p) ==
  /\ \/ WriteStep(p) /\ UNCHANGED faults
     \/ TryFails(p) /\ Fault
  /\ UNCHANGED <<callVars, loaded>>

\* A slip to catch: a failure inside the try block is logged and forgotten.
EndsWell(s) == {"ok"}

\* What the stage reached makes of the call: OSError and ValidationError turn
\* into BootstrapError, UnicodeDecodeError leaves as it is.
Ends(s) == CASE s = "moved"   -> {"ok"}
             [] s = "oserror" -> {"refused"}
             [] s = "invalid" -> {"refused", "raised"}

\* The finally block and the end of the call.
LeavePromotion(p) ==
  /\ pc[p] = "saving"
  /\ RemoveTemp(p)
  /\ \E r \in Ends(stage[p]) : Return(p, r)
  /\ UNCHANGED <<loaded, faults>>

PromoteStep(p) == ReadSource(p) \/ ProbeTarget(p) \/ TryStep(p) \/ LeavePromotion(p)

\* load_bootstrap: None without a document that validates, or when the read
\* fails; undecodable bytes raise, here the answer Undecodable.
LoadBootstrap ==
  /\ \/ /\ loaded' = IF Servable \/ Bootstrap = Undecodable THEN Bootstrap
                     ELSE Absent
        /\ UNCHANGED faults
     \/ Bootstrap # Absent /\ Fault /\ loaded' = Absent
  /\ UNCHANGED <<atomicVars, callVars>>

\* The process of p dies: its descriptor is closed, its sibling file stays.
Crash(p) ==
  /\ pc[p] # "idle"
  /\ Fault
  /\ Return(p, "crashed")
  /\ stage' = [stage EXCEPT ![p] = "closed"]
  /\ fd' = [fd EXCEPT ![p] = "closed"]
  /\ payload' = [payload EXCEPT ![p] = Absent]
  /\ UNCHANGED <<file, temp, target, loaded>>

\* Others put a bootstrap there, remove it, mangle it in a merge or check out
\* another one, whether there was one or not and wherever a promotion stands;
\* only between a move and the return that follows it this waits.
Edit ==
  /\ Fault
  /\ \A p \in Writers : stage[p] # "moved"
  /\ \E c \in Sources \ {Bootstrap} :
        /\ file' = [file EXCEPT ![Target] = c]
        /\ before' = [p \in Writers |-> IF pc[p] = "idle" THEN Absent ELSE c]
        /\ appeared' = [p \in Writers |-> pc[p] = "saving" /\ c # Absent]
  /\ UNCHANGED <<temp, writerVars, pc, job, result, loaded>>

Next ==
  \/ \E p \in Writers : PromoteStep(p) \/ Crash(p)
  \/ LoadBootstrap
  \/ Edit

Spec == Init /\ [][Next]_vars

-----------------------------------------------------------------------------

\* Type invariant: every variable keeps to the values the code gives it.
TypeOK ==
  /\ file \in [{Target} -> Contents]
  /\ temp \in [{Target} -> Contents]
  /\ stage \in [Writers -> Stages]
  /\ target \in [Writers -> {Target}]
  /\ payload \in [Writers -> {Absent} \cup Snapshots]
  /\ fd \in [Writers -> Places]
  /\ pc \in [Writers -> {"idle", "probe", "saving"}]
  /\ job \in [Writers -> Jobs]
  /\ result \in [Writers -> Results]
  /\ before \in [Writers -> Sources]
  /\ appeared \in [Writers -> BOOLEAN]
  /\ loaded \in Sources
  /\ faults \in 0 .. MaxFaults

\* "Safely promoted": once load_bootstrap answers with a document it goes on
\* doing so, whatever promotions do, fail at or die in; only others can take
\* the document away.
StaysServable == [][Servable /\ faults' = faults => Servable']_vars

Returns(p, r) == pc[p] # "idle" /\ pc'[p] = "idle" /\ result'[p] = r

\* "The bootstrap is not overwritten unless overwrite=True is passed": when
\* the program changes a bootstrap that is there, a mangled one included, it
\* puts in place what a promotion has read and validated, and that promotion
\* has the flag, unless others put the file there after it looked.  Such a
\* file is replaced unasked, and no earlier one ever.
ReplacedOnRequest ==
  [][Bootstrap # Absent /\ Bootstrap' # Bootstrap /\ faults' = faults
        => \E p \in Writers : /\ (job[p].overwrite \/ appeared[p])
                              /\ Bootstrap' = job[p].doc]_vars

\* "left unchanged on failure": a call that does not succeed leaves the
\* bootstrap as it found it, changes made by others aside.
FailureKeepsBootstrap ==
  [][\A p \in Writers, r \in {"refused", "raised", "crashed"} :
       Returns(p, r) /\ stage[p] # "moved" => Bootstrap' = before[p]]_vars

\* A call that reports success has put the snapshot of its source in place,
\* whatever earlier calls left under the temporary name.
OkInstalls ==
  [][\A p \in Writers : Returns(p, "ok") => Bootstrap' = job[p].doc]_vars

=============================================================================
