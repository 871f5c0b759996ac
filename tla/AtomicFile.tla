----------------------------- MODULE AtomicFile -----------------------------
(***************************************************************************)
(* The write protocol that write_snapshot and update_manifest              *)
(* (src/sync/snapshot.py) and promote_snapshot_to_bootstrap                *)
(* (src/sync/bootstrap.py) share: write the whole document to a ".tmp"     *)
(* sibling, read the sibling back and validate it, move it over the target *)
(* with os.replace, and in a finally block unlink whatever the sibling     *)
(* name still holds.                                                       *)
(*                                                                         *)
(* A target and its sibling are two names of one directory.  A file that a *)
(* writer holds open follows os.replace and outlives unlink, so a writer's *)
(* descriptor is modelled by where its file can be reached now.            *)
(***************************************************************************)
EXTENDS Naturals, FiniteSets

CONSTANT Writers        \* the threads of control that run the protocol

VARIABLES
  file,      \* file[t]: what the target name t holds
  temp,      \* temp[t]: what the sibling name t.tmp holds
  stage,     \* stage[p]: the next step of p inside the protocol
  target,    \* target[p]: the name p writes
  payload,   \* payload[p]: the document p writes
  fd         \* fd[p]: where the file that p holds open can be reached

diskVars == <<file, temp>>
writerVars == <<stage, target, payload, fd>>
atomicVars == <<file, temp, stage, target, payload, fd>>

(***************************************************************************)
(* What a name may hold.  Absent: no such file.  Partial: opened for       *)
(* writing and cut to length zero, or a prefix of the document.  Torn:     *)
(* text that is no valid document (mixed writes, bit rot, an edited file). *)
(* Undecodable: bytes that are not UTF-8.  The documents themselves        *)
(* (kinds "snapshot" and "manifest") are the callers'.                     *)
(***************************************************************************)
Absent      == [kind |-> "absent"]
Partial     == [kind |-> "partial"]
Torn        == [kind |-> "torn"]
Undecodable == [kind |-> "undecodable"]

IsDocument(c) == c.kind \in {"snapshot", "manifest"}

Stages == {"closed", "open", "write", "reread", "replace",
           "moved", "oserror", "invalid"}

InTry     == {"open", "write", "reread", "replace"}
InFinally == {"moved", "oserror", "invalid"}
Places    == {"closed", "temp", "file", "lost"}

-----------------------------------------------------------------------------

\* Enter the try block: the document is serialised, nothing is on disk yet.
BeginWrite(p, t, doc) ==
  /\ stage' = [stage EXCEPT ![p] = "open"]
  /\ target' = [target EXCEPT ![p] = t]
  /\ payload' = [payload EXCEPT ![p] = doc]
  /\ UNCHANGED <<file, temp, fd>>

\* A slip to catch: the target is opened instead of its sibling.
OpenFinal(p) ==
  /\ stage[p] = "open"
  /\ file' = [file EXCEPT ![target[p]] = Partial]
  /\ fd' = [fd EXCEPT ![p] = "file"]
  /\ stage' = [stage EXCEPT ![p] = "write"]
  /\ UNCHANGED <<temp, target, payload>>

\* write_text opens the sibling with mode "w": it is created, or cut to
\* length zero if a crashed or a concurrent writer left one.
OpenTemp(p) ==
  /\ stage[p] = "open"
  /\ temp' = [temp EXCEPT ![target[p]] = Partial]
  /\ fd' = [fd EXCEPT ![p] = "temp"]
  /\ stage' = [stage EXCEPT ![p] = "write"]
  /\ UNCHANGED <<file, target, payload>>

\* The writers that hold the file at place x of name t open.
Holders(x, t) == {q \in Writers : fd[q] = x /\ target[q] = t}

\* What p's bytes leave in its file, which holds c now: the document when
\* p alone wrote since the file was cut, otherwise possibly a mixture.
Landing(p, c) ==
  IF c = Partial /\ Holders(fd[p], target[p]) = {p}
  THEN {payload[p]}
  ELSE {payload[p], Torn, Undecodable}

\* The document's bytes reach the open file, wherever its name is by now,
\* and the file is closed.
WriteTemp(p) ==
  /\ stage[p] = "write"
  /\ \/ /\ fd[p] = "temp"
        /\ \E c \in Landing(p, temp[target[p]]) :
              temp' = [temp EXCEPT ![target[p]] = c]
        /\ UNCHANGED file
     \/ /\ fd[p] = "file"
        /\ \E c \in Landing(p, file[target[p]]) :
              file' = [file EXCEPT ![target[p]] = c]
        /\ UNCHANGED temp
     \/ /\ fd[p] = "lost"
        /\ UNCHANGED <<file, temp>>
  /\ fd' = [fd EXCEPT ![p] = "closed"]
  /\ stage' = [stage EXCEPT ![p] = "reread"]
  /\ UNCHANGED <<target, payload>>

\* The sibling is read back by name and validated: FileNotFoundError when
\* the name is gone, a ValueError when the text is no document.
RereadTemp(p) ==
  LET c == temp[target[p]] IN
  /\ stage[p] = "reread"
  /\ \/ c = Absent /\ stage' = [stage EXCEPT ![p] = "oserror"]
     \/ /\ c # Absent /\ ~IsDocument(c)
        /\ stage' = [stage EXCEPT ![p] = "invalid"]
     \/ IsDocument(c) /\ stage' = [stage EXCEPT ![p] = "replace"]
  /\ UNCHANGED <<file, temp, target, payload, fd>>

\* os.replace(temp_path, final_path): the name t now leads to the sibling's
\* file.  Descriptors follow their files.
ReplaceTemp(p) ==
  LET t == target[p] IN
  /\ stage[p] = "replace"
  /\ \/ /\ temp[t] = Absent
        /\ stage' = [stage EXCEPT ![p] = "oserror"]
        /\ UNCHANGED <<file, temp, fd>>
     \/ /\ temp[t] # Absent
        /\ file' = [file EXCEPT ![t] = temp[t]]
        /\ temp' = [temp EXCEPT ![t] = Absent]
        /\ fd' = [q \in Writers |->
                    IF target[q] # t THEN fd[q]
                    ELSE IF fd[q] = "temp" THEN "file"
                    ELSE IF fd[q] = "file" THEN "lost"
                    ELSE fd[q]]
        /\ stage' = [stage EXCEPT ![p] = "moved"]
  /\ UNCHANGED <<target, payload>>

\* Leave the protocol with the names as given.
Close(p) ==
  /\ stage' = [stage EXCEPT ![p] = "closed"]
  /\ payload' = [payload EXCEPT ![p] = Absent]
  /\ UNCHANGED target

\* A slip to catch: the unlink runs only when the move succeeded.
RemoveOnSuccess(p) ==
  /\ stage[p] \in InFinally
  /\ temp' = IF stage[p] = "moved"
             THEN [temp EXCEPT ![target[p]] = Absent] ELSE temp
  /\ Close(p)
  /\ UNCHANGED <<file, fd>>

\* A slip to catch: after a failure the target is unlinked.
RemoveTarget(p) ==
  /\ stage[p] \in InFinally
  /\ file' = IF stage[p] # "moved"
             THEN [file EXCEPT ![target[p]] = Absent] ELSE file
  /\ Close(p)
  /\ UNCHANGED <<temp, fd>>

\* The finally block: unlink the sibling name if anything is there, whoever
\* put it there, and leave the protocol.
RemoveTemp(p) ==
  LET t == target[p] IN
  /\ stage[p] \in InFinally
  /\ temp' = [temp EXCEPT ![t] = Absent]
  /\ fd' = [q \in Writers |-> IF target[q] = t /\ fd[q] = "temp"
                              THEN "lost" ELSE fd[q]]
  /\ Close(p)
  /\ UNCHANGED file

\* A system call inside the try block fails with an OSError: the open file
\* is closed, and the finally block is next.
TryFails(p) ==
  /\ stage[p] \in InTry
  /\ stage' = [stage EXCEPT ![p] = "oserror"]
  /\ fd' = [fd EXCEPT ![p] = "closed"]
  /\ UNCHANGED <<file, temp, target, payload>>

WriteStep(p) ==
  \/ OpenTemp(p)
  \/ WriteTemp(p)
  \/ RereadTemp(p)
  \/ ReplaceTemp(p)

=============================================================================
