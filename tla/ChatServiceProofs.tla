------------------------- MODULE ChatServiceProofs -------------------------
(***************************************************************************)
(* Theorems about ChatService, for any number of threads, conversations    *)
(* and criteria, any TTL and any clock.                                    *)
(***************************************************************************)
EXTENDS ChatService, TLAPS

\* Where a request holds a row it read or a run it will write.
Holding == {"expiry", "eliminar", "check", "pipeline", "guardar"}

\* What each step of the handler may rely on.
RequestInv(t) ==
  /\ pc[t] \notin {"idle", "parse"} => conv[t] \in Conversations
  /\ pc[t] \in {"cargar", "expiry", "eliminar", "parse"} => message[t] # None
  /\ pc[t] \in Holding => local[t] \in Runs
  /\ pc[t] \in {"expiry", "eliminar", "pipeline", "guardar"}
        => local[t].criteria \in Criteria

TypeInv == TypeOK /\ \A t \in Threads : RequestInv(t)

-----------------------------------------------------------------------------
(* Types.                                                                  *)

LEMMA InitType ==
  ASSUME Init PROVE TypeInv
BY TimeAssumption
DEF Init, TypeInv, TypeOK, RequestInv, Holding, PCs

\* The steps of one request keep its own facts and touch no other's.
LEMMA HandlerType ==
  ASSUME TypeInv, NEW t \in Threads, HandlerStep(t) \/ Receive(t)
  PROVE  TypeInv'
<1> USE TimeAssumption, ValuesAssumption
    DEF TypeInv, TypeOK, RequestInv, Holding, PCs, storeVars, threadVars,
        historyVars
<1>1. CASE Receive(t)
  <2>1. PICK c \in {None} \cup known, m \in Messages :
           /\ conv' = [conv EXCEPT ![t] = c]
           /\ asked' = [asked EXCEPT ![t] = c]
           /\ message' = [message EXCEPT ![t] = m]
           /\ Goto(t, IF c = None THEN "parse" ELSE "cargar")
    BY <1>1 DEF Receive
  <2>2. c \in Conversations \cup {None} /\ m # None
    BY DEF Messages
  <2> QED
    BY <1>1, <2>1, <2>2 DEF Receive, Goto
<1>2. CASE Select(t)
  BY <1>2 DEF Select, Goto, Rows, Runs
<1>3. CASE CheckExpiry(t)
  BY <1>3 DEF CheckExpiry, Goto
<1>4. CASE Delete(t)
  BY <1>4 DEF Delete, Goto
<1>5. CASE Parse(t)
  <2>1. CASE Finish(t)
    BY <1>5, <2>1 DEF Parse, Finish
  <2>2. CASE ~Finish(t)
    BY <1>5, <2>2 DEF Parse, Goto, Messages, Runs
  <2> QED BY <2>1, <2>2
<1>6. CASE CheckFields(t)
  <2>1. CASE local[t].criteria = Incomplete
    BY <1>6, <2>1 DEF CheckFields, Finish, Answer
  <2>2. CASE local[t].criteria # Incomplete
    BY <1>6, <2>2 DEF CheckFields, Goto, Runs
  <2> QED BY <2>1, <2>2
<1>7. CASE Compose(t)
  BY <1>7 DEF Compose, Goto, Runs
<1>8. CASE Save(t)
  BY <1>8 DEF Save, Finish, Answer, Rows, Runs
<1>9. CASE StoreFails(t) \/ PipelineFails(t)
  BY <1>9 DEF StoreFails, PipelineFails, Finish
<1> QED
  BY <1>1, <1>2, <1>3, <1>4, <1>5, <1>6, <1>7, <1>8, <1>9 DEF HandlerStep

LEMMA NextType ==
  ASSUME TypeInv, [Next]_vars PROVE TypeInv'
<1> USE TimeAssumption DEF TypeInv, TypeOK, RequestInv
<1>1. CASE Sweep
  BY <1>1 DEF Sweep, threadVars, historyVars
<1>2. CASE Tick
  BY <1>2 DEF Tick, threadVars, historyVars
<1>3. CASE UNCHANGED vars
  BY <1>3 DEF vars
<1> QED
  BY <1>1, <1>2, <1>3, HandlerType DEF Next

\* Every state is well typed.
THEOREM TypeCorrect == Spec => []TypeOK
<1>1. TypeInv => TypeOK
  BY DEF TypeInv
<1> QED
  BY InitType, NextType, <1>1, PTL DEF Spec

-----------------------------------------------------------------------------
(* One conversation, one set of criteria.                                  *)

\* An id that no client was given belongs to one request; of every other id
\* the row, the requests and the last answer tell the same criteria.
CriteriaInv ==
  /\ TypeInv
  /\ \A c \in Conversations : promise[c] # None => c \in known
  /\ \A c \in Conversations :
        rows[c] # None => /\ promise[c] # None
                          /\ rows[c].criteria = promise[c].criteria
  /\ \A t \in Threads :
        pc[t] \in Holding /\ conv[t] \in known
           => /\ promise[conv[t]] # None
              /\ local[t].criteria = promise[conv[t]].criteria
  /\ \A t, u \in Threads :
        t # u /\ conv[t] # None /\ conv[t] = conv[u] => conv[t] \in known

LEMMA CriteriaInit ==
  ASSUME Init PROVE CriteriaInv
BY InitType DEF Init, CriteriaInv, Holding

LEMMA CriteriaHandler ==
  ASSUME CriteriaInv, NEW t \in Threads, HandlerStep(t) \/ Receive(t)
  PROVE  CriteriaInv'
<1>1. TypeInv'
  BY HandlerType DEF CriteriaInv
<1> USE <1>1, ValuesAssumption
    DEF CriteriaInv, TypeInv, TypeOK, RequestInv, Holding, storeVars,
        threadVars, historyVars
<1>2. CASE Receive(t)
  BY <1>2 DEF Receive, Goto
<1>3. CASE Select(t)
  BY <1>3 DEF Select, Goto
<1>4. CASE CheckExpiry(t)
  BY <1>4 DEF CheckExpiry, Goto
<1>5. CASE Delete(t)
  BY <1>5 DEF Delete, Goto
<1>6. CASE Parse(t)
  <2>1. CASE Finish(t)
    BY <1>6, <2>1 DEF Parse, Finish
  <2>2. CASE ~Finish(t)
    BY <1>6, <2>2 DEF Parse, Goto, Fresh
  <2> QED BY <2>1, <2>2
<1>7. CASE CheckFields(t)
  <2>1. CASE local[t].criteria = Incomplete
    BY <1>7, <2>1 DEF CheckFields, Finish, Answer
  <2>2. CASE local[t].criteria # Incomplete
    BY <1>7, <2>2 DEF CheckFields, Goto
  <2> QED BY <2>1, <2>2
<1>8. CASE Compose(t)
  BY <1>8 DEF Compose, Goto, Runs
<1>9. CASE Save(t)
  BY <1>9 DEF Save, Finish, Answer
<1>10. CASE StoreFails(t) \/ PipelineFails(t)
  BY <1>10 DEF StoreFails, PipelineFails, Finish
<1> QED
  BY <1>2, <1>3, <1>4, <1>5, <1>6, <1>7, <1>8, <1>9, <1>10 DEF HandlerStep

LEMMA CriteriaNext ==
  ASSUME CriteriaInv, [Next]_vars PROVE CriteriaInv'
<1>1. TypeInv'
  BY NextType DEF CriteriaInv
<1> USE <1>1 DEF CriteriaInv
<1>2. CASE Sweep
  BY <1>2 DEF Sweep, threadVars, historyVars
<1>3. CASE Tick
  BY <1>3 DEF Tick, threadVars, historyVars
<1>4. CASE UNCHANGED vars
  BY <1>4 DEF vars
<1> QED
  BY <1>2, <1>3, <1>4, CriteriaHandler DEF Next

\* A request changes the row and the promise of its own conversation only,
\* and only when it saves.
LEMMA OnlySaveWrites ==
  ASSUME NEW t \in Threads, HandlerStep(t) \/ Receive(t), ~Save(t)
  PROVE  /\ promise' = promise
         /\ rows' = rows \/ Delete(t)
BY DEF HandlerStep, Receive, Select, CheckExpiry, Delete, Parse, CheckFields,
       Compose, StoreFails, PipelineFails, storeVars, historyVars

LEMMA CriteriaStep ==
  ASSUME CriteriaInv, [Next]_vars,
         NEW c \in Conversations, promise[c] # None
  PROVE  /\ promise'[c].criteria = promise[c].criteria
         /\ rows'[c] # None => rows'[c].criteria = promise[c].criteria
<1> USE DEF CriteriaInv, TypeInv, TypeOK, RequestInv
<1>1. CASE \E t \in Threads : Save(t)
  BY <1>1 DEF Save, Holding
<1>2. CASE \E t \in Threads : Delete(t)
  BY <1>2 DEF Delete, historyVars
<1>3. CASE rows' = rows /\ promise' = promise
  BY <1>3
<1>4. CASE Sweep
  BY <1>4 DEF Sweep, historyVars
<1>5. CASE Tick \/ UNCHANGED vars
  BY <1>3, <1>5 DEF Tick, vars, historyVars
<1> QED
  BY <1>1, <1>2, <1>3, <1>4, <1>5, OnlySaveWrites DEF Next

\* However requests overlap, rows expire and saves fail: every answer under
\* an id and every row of it tell the criteria of its first answer.
THEOREM CriteriaNeverChange == Spec => CriteriaStable
<1>1. CriteriaInv /\ [Next]_vars
        => [\A c \in Conversations :
              promise[c] # None =>
                 /\ promise'[c].criteria = promise[c].criteria
                 /\ rows'[c] # None => rows'[c].criteria = promise[c].criteria]_vars
  BY CriteriaStep
<1> QED
  BY CriteriaInit, CriteriaNext, <1>1, PTL DEF Spec, CriteriaStable

-----------------------------------------------------------------------------
(* One request of a conversation at a time.                                *)

OneAtATime == Overlap = FALSE

\* A request has its conversation to itself, so the row it is about to delete
\* is still the one it found expired; an answer's row is in place until both
\* have outlived the TTL.
SerialInv ==
  /\ TypeInv
  /\ \A t, u \in Threads : t # u /\ conv[t] # None => conv[t] # conv[u]
  /\ \A t \in Threads :
        pc[t] \in {"expiry", "eliminar"} => rows[conv[t]] \in {None, local[t]}
  /\ \A t \in Threads : pc[t] = "eliminar" => Expired(local[t])
  /\ \A c \in Conversations :
        promise[c] # None => \/ rows[c] = promise[c]
                             \/ rows[c] = None /\ Expired(promise[c])

LEMMA SerialInit ==
  ASSUME Init PROVE SerialInv
BY InitType DEF Init, SerialInv

LEMMA SerialHandler ==
  ASSUME SerialInv, OneAtATime, NEW t \in Threads, HandlerStep(t) \/ Receive(t)
  PROVE  SerialInv'
<1>1. TypeInv'
  BY HandlerType DEF SerialInv
<1> USE <1>1, ValuesAssumption
    DEF SerialInv, TypeInv, TypeOK, RequestInv, Holding, storeVars, threadVars,
        historyVars, Expired
<1>2. CASE Receive(t)
  BY <1>2 DEF Receive, Goto, OneAtATime
<1>3. CASE Select(t)
  BY <1>3 DEF Select, Goto
<1>4. CASE CheckExpiry(t)
  BY <1>4 DEF CheckExpiry, Goto
<1>5. CASE Delete(t)
  BY <1>5 DEF Delete, Goto
<1>6. CASE Parse(t)
  <2>1. CASE Finish(t)
    BY <1>6, <2>1 DEF Parse, Finish
  <2>2. CASE ~Finish(t)
    BY <1>6, <2>2 DEF Parse, Goto, Fresh
  <2> QED BY <2>1, <2>2
<1>7. CASE CheckFields(t)
  <2>1. CASE local[t].criteria = Incomplete
    BY <1>7, <2>1 DEF CheckFields, Finish
  <2>2. CASE local[t].criteria # Incomplete
    BY <1>7, <2>2 DEF CheckFields, Goto
  <2> QED BY <2>1, <2>2
<1>8. CASE Compose(t)
  BY <1>8 DEF Compose, Goto
<1>9. CASE Save(t)
  BY <1>9 DEF Save, Finish
<1>10. CASE StoreFails(t) \/ PipelineFails(t)
  BY <1>10 DEF StoreFails, PipelineFails, Finish
<1> QED
  BY <1>2, <1>3, <1>4, <1>5, <1>6, <1>7, <1>8, <1>9, <1>10 DEF HandlerStep

\* The two tests of age agree.
LEMMA OutdatedExpired ==
  ASSUME TypeInv, NEW row \in Rows PROVE Outdated(row) <=> Expired(row)
BY TimeAssumption DEF TypeInv, TypeOK, Rows, Outdated, Expired

\* What the sweep takes has outlived its TTL.
LEMMA SweptExpired ==
  ASSUME TypeInv, Sweep, NEW c \in Conversations
  PROVE  rows'[c] = rows[c] \/ (rows'[c] = None /\ Expired(rows[c]))
<1>1. rows'[c] = rows[c] \/ (rows'[c] = None /\ rows[c] # None /\ Outdated(rows[c]))
  BY DEF Sweep
<1>2. rows[c] # None => rows[c] \in Rows
  BY DEF TypeInv, TypeOK
<1> QED BY <1>1, <1>2, OutdatedExpired

\* Time only adds to an age.
LEMMA AgeGrows ==
  ASSUME TypeInv, Tick, NEW row \in Runs, Expired(row)
  PROVE  Expired(row)'
BY TimeAssumption DEF TypeInv, TypeOK, Tick, Expired, Runs

LEMMA SerialNext ==
  ASSUME SerialInv, OneAtATime, [Next]_vars PROVE SerialInv'
<1>1. TypeInv'
  BY NextType DEF SerialInv
<1>2. CASE Sweep
  <2>1. UNCHANGED <<now, threadVars, historyVars>>
    BY <1>2 DEF Sweep
  <2>2. \A c \in Conversations :
          rows'[c] = rows[c] \/ (rows'[c] = None /\ Expired(rows[c]))
    BY <1>2, SweptExpired DEF SerialInv
  <2>3. \A t \in Threads :
          pc'[t] \in {"expiry", "eliminar"} => rows'[conv'[t]] \in {None, local'[t]}
    BY <2>1, <2>2
    DEF SerialInv, TypeInv, RequestInv, threadVars
  <2>4. \A c \in Conversations :
          promise'[c] # None => \/ rows'[c] = promise'[c]
                                \/ rows'[c] = None /\ Expired(promise[c])'
    BY <2>1, <2>2 DEF SerialInv, historyVars, Expired
  <2> QED
    BY <1>1, <2>1, <2>3, <2>4 DEF SerialInv, threadVars, historyVars, Expired
<1>3. CASE Tick
  <2>1. /\ \A t \in Threads : pc[t] = "eliminar" => local[t] \in Runs
        /\ \A c \in Conversations : promise[c] # None => promise[c] \in Runs
    BY DEF SerialInv, TypeInv, TypeOK, RequestInv, Holding, Rows, Runs
  <2>2. UNCHANGED <<rows, threadVars, historyVars>>
    BY <1>3 DEF Tick
  <2>3. \A t \in Threads : pc'[t] = "eliminar" => Expired(local[t])'
    BY <1>3, <2>1, <2>2, AgeGrows DEF SerialInv, threadVars, Expired
  <2>4. \A c \in Conversations :
          promise'[c] # None => \/ rows'[c] = promise'[c]
                                \/ rows'[c] = None /\ Expired(promise[c])'
    BY <1>3, <2>1, <2>2, AgeGrows DEF SerialInv, historyVars, Expired
  <2> QED
    BY <1>1, <2>2, <2>3, <2>4 DEF SerialInv, threadVars
<1>4. CASE UNCHANGED vars
  BY <1>1, <1>4 DEF SerialInv, vars, Expired
<1> QED
  BY <1>2, <1>3, <1>4, SerialHandler DEF SerialInv, Next

\* With one request of a conversation at a time, a recommendation can be
\* followed up for as long as the TTL says.
THEOREM AnswersStay ==
  ASSUME OneAtATime PROVE Spec => []AnswerRemembered
<1>1. SerialInv => AnswerRemembered
  BY TimeAssumption DEF SerialInv, TypeInv, TypeOK, Rows, AnswerRemembered
<1> QED
  BY SerialInit, SerialNext, <1>1, PTL DEF Spec

LEMMA DeletedRowsExpired ==
  ASSUME SerialInv, [Next]_vars,
         NEW c \in Conversations, rows[c] # None, rows'[c] = None
  PROVE  Expired(rows[c])
<1> USE ValuesAssumption DEF SerialInv, TypeInv, TypeOK, RequestInv
<1>1. CASE \E t \in Threads : Save(t)
  BY <1>1 DEF Save, Holding
<1>2. CASE \E t \in Threads : Delete(t)
  BY <1>2 DEF Delete
<1>3. CASE rows' = rows
  BY <1>3
<1>4. CASE Sweep
  BY <1>4, SweptExpired
<1>5. CASE Tick \/ UNCHANGED vars
  BY <1>3, <1>5 DEF Tick, vars
<1> QED
  BY <1>1, <1>2, <1>3, <1>4, <1>5, OnlySaveWrites DEF Next

\* With one request of a conversation at a time, only rows that have outlived
\* the TTL are deleted.
THEOREM OnlyExpiredDeleted ==
  ASSUME OneAtATime PROVE Spec => LivingRowsStay
<1>1. SerialInv /\ [Next]_vars
        => [\A c \in Conversations :
              rows[c] # None /\ rows'[c] = None => Expired(rows[c])]_vars
  BY DeletedRowsExpired
<1> QED
  BY SerialInit, SerialNext, <1>1, PTL DEF Spec, LivingRowsStay

=============================================================================
