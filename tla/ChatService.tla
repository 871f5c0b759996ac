---------------------------- MODULE ChatService ----------------------------
(***************************************************************************)
(* POST /chat (src/api/main.py) over the SQLite conversation store         *)
(* (src/state/conversation_store.py).  FastAPI runs the handler, a plain   *)
(* def, in a pool of threads; every store operation opens a connection of  *)
(* its own and is one transaction, so threads interleave between them.     *)
(*                                                                         *)
(* Time is counted in ticks.  Criteria stand for the parsed JSON of a      *)
(* first message; the answer of the pipeline follows from them.            *)
(***************************************************************************)
EXTENDS Integers, FiniteSets

CONSTANTS
  Threads,        \* worker threads
  Conversations,  \* conversation ids, in the order uuid4 hands them out
  Criteria,       \* criteria with every mandatory field
  Incomplete,     \* criteria with a mandatory field missing
  Invalid,        \* a message that is no criteria at all
  None,
  TTL,            \* lifetime of a row, in ticks
  MaxTime,        \* bound: the clock stops there
  Overlap         \* may a client overlap requests of one conversation?

\* A run as it stands in the table, and as a request builds it.
Rows == [created : 0 .. MaxTime, criteria : Criteria]
Runs == [created : 0 .. MaxTime, criteria : Criteria \cup {Incomplete}]

ASSUME TimeAssumption == TTL \in Nat /\ MaxTime \in Nat
ASSUME ValuesAssumption ==
  /\ None \notin Conversations \cup Criteria \cup {Incomplete, Invalid}
  /\ None \notin Runs
  /\ Incomplete # Invalid /\ {Incomplete, Invalid} \cap Criteria = {}
  /\ Overlap \in BOOLEAN

VARIABLES
  now,       \* the clock
  rows,      \* rows[c]: the row of c in conversation_runs, or None
  pc,        \* pc[t]: where the request that t handles stands
  asked,     \* asked[t]: the conversation_id of the request, or None
  message,   \* message[t]: its mensaje
  conv,      \* conv[t]: the handler's conversation_id
  local,     \* local[t]: the row cargar read, the run guardar will write
  promise,   \* history, promise[c]: the last recommendation under c
  known      \* history: the ids some client was given

storeVars   == <<now, rows>>
threadVars  == <<pc, asked, message, conv, local>>
historyVars == <<promise, known>>
vars == <<now, rows, pc, asked, message, conv, local, promise, known>>

Messages == Criteria \cup {Incomplete, Invalid}
PCs      == {"idle", "cargar", "expiry", "eliminar", "parse", "check",
             "pipeline", "guardar"}

Init ==
  /\ now = 0
  /\ rows = [c \in Conversations |-> None]
  /\ pc = [t \in Threads |-> "idle"]
  /\ asked = [t \in Threads |-> None]
  /\ message = [t \in Threads |-> None]
  /\ conv = [t \in Threads |-> None]
  /\ local = [t \in Threads |-> None]
  /\ promise = [c \in Conversations |-> None]
  /\ known = {}

\* The test of cargar, on dates: the age against the lifetime.
Expired(row) == now - row.created > TTL

\* A slip to catch: the sweep takes what is just as old as the lifetime.
OutdatedAtBoundary(row) == row.created <= now - TTL

\* The test of limpiar_expiradas, on the text of the dates: that of the row
\* against that of the cutoff.  Both are in UTC, so the texts have the order of
\* the dates, with or without a fraction of a second ("+" is before ".").
Outdated(row) == row.created < now - TTL

-----------------------------------------------------------------------------

Goto(t, l) == pc' = [pc EXCEPT ![t] = l]

\* The request ends: with an answer, or with a 500 when the handler raises.
Finish(t) ==
  /\ pc' = [pc EXCEPT ![t] = "idle"]
  /\ asked' = [asked EXCEPT ![t] = None]
  /\ message' = [message EXCEPT ![t] = None]
  /\ conv' = [conv EXCEPT ![t] = None]
  /\ local' = [local EXCEPT ![t] = None]

\* A slip to catch: the client's message overrides the stored criteria.
SelectOverridden(t) ==
  /\ pc[t] = "cargar"
  /\ local' = [local EXCEPT ![t] =
                 IF rows[conv[t]] # None /\ message[t] \in Criteria
                 THEN [rows[conv[t]] EXCEPT !.criteria = message[t]]
                 ELSE rows[conv[t]]]
  /\ Goto(t, IF rows[conv[t]] = None THEN "parse" ELSE "expiry")
  /\ UNCHANGED <<storeVars, historyVars, asked, message, conv>>

\* A request comes in: the first of a conversation, or a follow-up under an
\* id its client was given.
Receive(t) ==
  /\ pc[t] = "idle"
  /\ \E c \in {None} \cup known, m \in Messages :
        /\ Overlap \/ c = None \/ \A u \in Threads : c \notin {asked[u], conv[u]}
        /\ asked' = [asked EXCEPT ![t] = c]
        /\ conv' = [conv EXCEPT ![t] = c]
        /\ message' = [message EXCEPT ![t] = m]
        /\ Goto(t, IF c = None THEN "parse" ELSE "cargar")
  /\ UNCHANGED <<storeVars, historyVars, local>>

\* cargar: the SELECT.  The connection is closed before the row is looked at.
Select(t) ==
  /\ pc[t] = "cargar"
  /\ local' = [local EXCEPT ![t] = rows[conv[t]]]
  /\ Goto(t, IF rows[conv[t]] = None THEN "parse" ELSE "expiry")
  /\ UNCHANGED <<storeVars, historyVars, asked, message, conv>>

\* cargar: a row that has outlived its TTL counts as absent, a living one
\* yields the criteria of the conversation.
CheckExpiry(t) ==
  /\ pc[t] = "expiry"
  /\ IF Expired(local[t])
     THEN Goto(t, "eliminar") /\ UNCHANGED message
     ELSE Goto(t, "check") /\ message' = [message EXCEPT ![t] = None]
  /\ UNCHANGED <<storeVars, historyVars, asked, conv, local>>

\* cargar: eliminar deletes by id, in a transaction of its own.
Delete(t) ==
  /\ pc[t] = "eliminar"
  /\ rows' = [rows EXCEPT ![conv[t]] = None]
  /\ local' = [local EXCEPT ![t] = None]
  /\ Goto(t, "parse")
  /\ UNCHANGED <<now, historyVars, asked, message, conv>>

\* An id nobody has seen: uuid4 draws no id twice.
Fresh(c) ==
  c \notin known /\ rows[c] = None /\ \A t \in Threads : conv[t] # c

\* No row: the message must be the criteria of a new conversation.
Parse(t) ==
  /\ pc[t] = "parse"
  /\ \/ /\ message[t] = Invalid
        /\ Finish(t)
     \/ /\ message[t] # Invalid
        /\ \E c \in Conversations : Fresh(c) /\ conv' = [conv EXCEPT ![t] = c]
        /\ local' = [local EXCEPT ![t] =
                       [created |-> now, criteria |-> message[t]]]
        /\ message' = [message EXCEPT ![t] = None]
        /\ Goto(t, "check")
        /\ UNCHANGED asked
  /\ UNCHANGED <<storeVars, historyVars>>

\* The client is given conv[t].
Answer(t) == known' = known \cup {conv[t]}

\* campos_faltantes: the answer asks for the missing field, and the id it
\* names is not stored; otherwise the pipeline runs.
CheckFields(t) ==
  /\ pc[t] = "check"
  /\ \/ /\ local[t].criteria = Incomplete
        /\ Answer(t)
        /\ Finish(t)
     \/ /\ local[t].criteria # Incomplete
        /\ Goto(t, "pipeline")
        /\ UNCHANGED <<asked, message, conv, local, known>>
  /\ UNCHANGED <<storeVars, promise>>

\* A slip to catch: the request's raw message is stored.
ComposeRaw(t) ==
  /\ pc[t] = "pipeline"
  /\ local' = [local EXCEPT ![t] = [created |-> now, criteria |-> message[t]]]
  /\ Goto(t, "guardar")
  /\ UNCHANGED <<storeVars, historyVars, asked, message, conv>>

\* The pipeline ends and the run to be stored is built; its age counts from
\* here.
Compose(t) ==
  /\ pc[t] = "pipeline"
  /\ local' = [local EXCEPT ![t].created = now]
  /\ Goto(t, "guardar")
  /\ UNCHANGED <<storeVars, historyVars, asked, message, conv>>

\* An exception leaves the pipeline: a 500, and nothing is stored.
PipelineFails(t) ==
  /\ pc[t] = "pipeline"
  /\ Finish(t)
  /\ UNCHANGED <<storeVars, historyVars>>

\* A slip to catch: INSERT OR IGNORE.
SaveOnce(t) ==
  /\ pc[t] = "guardar"
  /\ rows' = IF rows[conv[t]] = None
             THEN [rows EXCEPT ![conv[t]] = local[t]] ELSE rows
  /\ promise' = [promise EXCEPT ![conv[t]] = local[t]]
  /\ Answer(t)
  /\ Finish(t)
  /\ UNCHANGED now

\* guardar: INSERT OR REPLACE, then the answer goes out.
Save(t) ==
  /\ pc[t] = "guardar"
  /\ rows' = [rows EXCEPT ![conv[t]] = local[t]]
  /\ promise' = [promise EXCEPT ![conv[t]] = local[t]]
  /\ Answer(t)
  /\ Finish(t)
  /\ UNCHANGED now

\* A store operation raises (the database is locked, the disk is full): the
\* request ends with a 500 and the transaction is rolled back.
StoreFails(t) ==
  /\ pc[t] \in {"cargar", "eliminar", "guardar"}
  /\ Finish(t)
  /\ UNCHANGED <<storeVars, historyVars>>

\* limpiar_expiradas, which nothing in the program calls.  A DELETE that waits
\* for the database has an older cutoff and deletes less.
Sweep ==
  /\ \E c \in Conversations : rows[c] # None /\ Outdated(rows[c])
  /\ rows' = [c \in Conversations |->
                IF rows[c] # None /\ Outdated(rows[c]) THEN None ELSE rows[c]]
  /\ UNCHANGED <<now, threadVars, historyVars>>

Tick ==
  /\ now < MaxTime
  /\ now' = now + 1
  /\ UNCHANGED <<rows, threadVars, historyVars>>

HandlerStep(t) ==
  \/ Select(t) \/ CheckExpiry(t) \/ Delete(t)
  \/ Parse(t) \/ CheckFields(t) \/ Compose(t) \/ PipelineFails(t)
  \/ Save(t) \/ StoreFails(t)

Next == (\E t \in Threads : Receive(t) \/ HandlerStep(t)) \/ Sweep \/ Tick

Spec == Init /\ [][Next]_vars

-----------------------------------------------------------------------------

\* Type invariant: every variable keeps to the values the code gives it.
TypeOK ==
  /\ now \in 0 .. MaxTime
  /\ rows \in [Conversations -> Rows \cup {None}]
  /\ pc \in [Threads -> PCs]
  /\ asked \in [Threads -> Conversations \cup {None}]
  /\ message \in [Threads -> Messages \cup {None}]
  /\ conv \in [Threads -> Conversations \cup {None}]
  /\ local \in [Threads -> Runs \cup {None}]
  /\ promise \in [Conversations -> Rows \cup {None}]
  /\ known \subseteq Conversations

\* The criteria of a conversation are those of its first message: whatever
\* requests overlap, rows expire and saves are lost, every answer under an id
\* and every row of it tell the same criteria ("the client only ever sends a
\* conversation_id").
CriteriaStable ==
  [][\A c \in Conversations :
       promise[c] # None =>
          /\ promise'[c].criteria = promise[c].criteria
          /\ rows'[c] # None => rows'[c].criteria = promise[c].criteria]_vars

\* A recommendation given less than the TTL ago can be followed up: the row of
\* its conversation is there and is as young as the answer.
AnswerRemembered ==
  \A c \in Conversations :
     promise[c] # None /\ ~Expired(promise[c])
        => rows[c] # None /\ rows[c].created >= promise[c].created

\* A row is deleted only when it has outlived its TTL: neither eliminar, which
\* cargar calls upon its own test, nor limpiar_expiradas with another takes a
\* living conversation away, at the end of the lifetime either.
LivingRowsStay ==
  [][\A c \in Conversations :
       rows[c] # None /\ rows'[c] = None => Expired(rows[c])]_vars

=============================================================================
