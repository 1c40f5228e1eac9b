---- MODULE IdempotentWrites ----
(***************************************************************************)
(* Workers that run `remember` against one shared store with an            *)
(* operation_id: each builds its event under a fresh id, waits for the     *)
(* write lock with bounded retries, looks its namespace up and writes      *)
(* inside the transaction, and compares what it finds with what it asked   *)
(* for.  A worker may die at any step, also between its commit and its     *)
(* answer; its agent then runs the same command again.  An operator        *)
(* redacts, deletes and moves memories meanwhile.                          *)
(***************************************************************************)
EXTENDS MemoryTables, Naturals, FiniteSets

CONSTANTS
  Workers,
  Settings,      \* the situations to explore: one is chosen at the start
  MaxAttempts,   \* WRITE_RETRY_ATTEMPTS
  Replacements,  \* the ids an operator may supersede a memory with
  Free, None

Answers == [kind : {"ok", "conflict", "refused", "locked"}, id : Ids \cup {NoId}]
Found == [id : Ids, row : Row]

ASSUME WorkersAssumption ==
  /\ \A situation \in Settings :
       /\ situation.request \in [Workers -> {r \in Row : r.op # NoOp /\ r.supersededBy = NoId}]
       /\ situation.moves \subseteq Rings
  /\ MaxAttempts \in Nat \ {0}
  /\ Replacements \subseteq Ids
  /\ Free \notin Workers
  /\ None \notin Answers \cup Found

VARIABLES
  setting,
  db,       \* the committed tables
  lock,     \* the worker whose BEGIN IMMEDIATE succeeded, or Free
  pc,       \* where each worker is
  event,    \* the id its current command generated
  attempts, \* failed attempts of its current command to get the lock
  seen,     \* what its transaction returned: a row it found, or None
  answer,   \* what its last finished command printed
  made,     \* history: the ids written for each namespace
  deleted,  \* history: the ids an operator deleted
  moved     \* history: the ids an operator redacted or moved to another ring

vars == <<setting, db, lock, pc, event, attempts, seen, answer, made, deleted, moved>>

Request == setting.request      \* the row each worker asks for; its operation namespace is in it
OperatorMoves == setting.moves  \* the rings the operator moves memories to

Used == {event[w] : w \in Workers} \cup (UNION {made[o] : o \in Ops}) \cup deleted

TypeOK ==
  /\ db \in Tables
  /\ lock \in Workers \cup {Free}
  /\ pc \in [Workers -> {"idle", "begin", "write", "reply", "done"}]
  /\ event \in [Workers -> Ids \cup {NoId}]
  /\ attempts \in [Workers -> 0 .. MaxAttempts]
  /\ seen \in [Workers -> Found \cup {None}]
  /\ answer \in [Workers -> Answers \cup {None}]
  /\ made \in [Ops -> SUBSET Ids]
  /\ deleted \subseteq Ids
  /\ moved \subseteq Ids

Init ==
  /\ setting \in Settings
  /\ db = EmptyTables
  /\ lock = Free
  /\ pc = [w \in Workers |-> "idle"]
  /\ event = [w \in Workers |-> NoId]
  /\ attempts = [w \in Workers |-> 0]
  /\ seen = [w \in Workers |-> None]
  /\ answer = [w \in Workers |-> None]
  /\ made = [o \in Ops |-> {}]
  /\ deleted = {}
  /\ moved = {}

----

SameWriteIntentByNamespace(existing, requested) == existing.op = requested.op

\* same_write_intent: every field the command set, so not superseded_by.
SameWriteIntent(existing, requested) ==
  [existing EXCEPT !.supersededBy = requested.supersededBy] = requested

Finish(w, kind, id) ==
  /\ pc' = [pc EXCEPT ![w] = "done"]
  /\ answer' = [answer EXCEPT ![w] = [kind |-> kind, id |-> id]]

\* remember: a new event under a generated id.
Start(w) ==
  /\ pc[w] = "idle"
  /\ \E i \in Ids \ Used : event' = [event EXCEPT ![w] = i]
  /\ pc' = [pc EXCEPT ![w] = "begin"]
  /\ attempts' = [attempts EXCEPT ![w] = 0]
  /\ UNCHANGED <<db, lock, seen, answer, made, deleted, moved>>

\* retry_locked: of at most MaxAttempts attempts, one finds the lock free.
Acquire(w) ==
  /\ pc[w] = "begin"
  /\ attempts[w] < MaxAttempts
  /\ lock = Free
  /\ lock' = w
  /\ pc' = [pc EXCEPT ![w] = "write"]
  /\ UNCHANGED <<db, event, attempts, seen, answer, made, deleted, moved>>

\* Mutant of Busy: the last attempt is retried like the others.
BusyOneMore(w) ==
  /\ pc[w] = "begin"
  /\ attempts[w] < MaxAttempts
  /\ lock \notin {Free, w}
  /\ attempts' = [attempts EXCEPT ![w] = @ + 1]
  /\ UNCHANGED <<pc, answer, db, lock, event, seen, made, deleted, moved>>

\* The busy timeout runs out: another attempt, or the error of the last one.
Busy(w) ==
  /\ pc[w] = "begin"
  /\ attempts[w] < MaxAttempts
  /\ lock \notin {Free, w}
  /\ attempts' = [attempts EXCEPT ![w] = @ + 1]
  /\ IF attempts[w] + 1 < MaxAttempts THEN UNCHANGED <<pc, answer>>
     ELSE Finish(w, "locked", NoId)
  /\ UNCHANGED <<db, lock, event, seen, made, deleted, moved>>

\* put_idempotent, from the lookup to the end of its transaction.
PutIdempotent(w) ==
  LET row == Request[w]
      old == Resolve(db, row.op)
  IN  /\ pc[w] = "write"
      /\ lock' = Free
      /\ \/ /\ old # NoId
            /\ seen' = [seen EXCEPT ![w] = [id |-> old, row |-> db.rows[old]]]
            /\ pc' = [pc EXCEPT ![w] = "reply"]
            /\ UNCHANGED <<db, made, answer>>
         \/ /\ old = NoId
            /\ CanPut(db, event[w], row)
            /\ db' = Put(db, event[w], row)
            /\ made' = [made EXCEPT ![row.op] = @ \cup {event[w]}]
            /\ seen' = [seen EXCEPT ![w] = None]
            /\ pc' = [pc EXCEPT ![w] = "reply"]
            /\ UNCHANGED answer
         \/ /\ old = NoId
            /\ ~CanPut(db, event[w], row)
            /\ Finish(w, "refused", NoId)
            /\ UNCHANGED <<db, seen, made>>
      /\ UNCHANGED <<event, attempts, deleted, moved>>

\* Mutant of Reply: a replay prints the id of the event it just generated.
ReplyNewId(w) ==
  /\ pc[w] = "reply"
  /\ seen[w] # None => SameWriteIntent(seen[w].row, Request[w])
  /\ Finish(w, "ok", event[w])
  /\ UNCHANGED <<db, lock, event, attempts, seen, made, deleted, moved>>

\* store_event_idempotently: created, an exact replay, or a conflicting reuse.
Reply(w) ==
  /\ pc[w] = "reply"
  /\ \/ seen[w] = None /\ Finish(w, "ok", event[w])
     \/ /\ seen[w] # None
        /\ SameWriteIntent(seen[w].row, Request[w])
        /\ Finish(w, "ok", seen[w].id)
     \/ /\ seen[w] # None
        /\ ~SameWriteIntent(seen[w].row, Request[w])
        /\ Finish(w, "conflict", NoId)
  /\ UNCHANGED <<db, lock, event, attempts, seen, made, deleted, moved>>

\* The process dies; an open transaction is rolled back with it.
Crash(w) ==
  /\ pc[w] \in {"begin", "write", "reply"}
  /\ Ids \ Used # {}    \* bound: the command can be run again
  /\ pc' = [pc EXCEPT ![w] = "idle"]
  /\ lock' = IF lock = w THEN Free ELSE lock
  /\ UNCHANGED <<db, event, attempts, seen, answer, made, deleted, moved>>

\* The agent lost the answer, or was told the store is locked: it retries.
RunAgain(w) ==
  /\ pc[w] = "done"
  /\ Ids \ Used # {}
  /\ pc' = [pc EXCEPT ![w] = "idle"]
  /\ UNCHANGED <<db, lock, event, attempts, seen, answer, made, deleted, moved>>

----
(* The operator, whose transactions need the lock as well. *)

OperatorRedact(i) ==
  /\ lock = Free
  /\ i \in Present(db)
  /\ db' = Redact(db, {i})
  /\ moved' = moved \cup {i}
  /\ UNCHANGED <<lock, pc, event, attempts, seen, answer, made, deleted>>

OperatorDelete(i) ==
  /\ lock = Free
  /\ i \in Present(db)
  /\ db' = Delete(db, {i})
  /\ deleted' = deleted \cup {i}
  /\ UNCHANGED <<lock, pc, event, attempts, seen, answer, made, moved>>

\* change_ring with the memory's own event type, as the console's promote does.
OperatorPromote(i, ring) ==
  LET row == [db.rows[i] EXCEPT !.ring = ring, !.temporary = @ /\ ring # "heartwood"]
  IN  /\ lock = Free
      /\ i \in Present(db)
      /\ row # db.rows[i]
      /\ CanPut(db, i, row)
      /\ db' = Put(db, i, row)
      /\ moved' = moved \cup {i}
      /\ UNCHANGED <<lock, pc, event, attempts, seen, answer, made, deleted>>

OperatorSupersede(i, new) ==
  /\ lock = Free
  /\ i \in Present(db)
  /\ db' = Supersede(db, i, new)
  /\ UNCHANGED <<lock, pc, event, attempts, seen, answer, made, deleted, moved>>

WorkerStep(w) == Start(w) \/ Acquire(w) \/ Busy(w) \/ PutIdempotent(w) \/ Reply(w)

OperatorStep ==
  \E i \in Ids : \/ OperatorRedact(i) \/ OperatorDelete(i)
                 \/ \E new \in Replacements : OperatorSupersede(i, new)
                 \/ \E ring \in OperatorMoves : OperatorPromote(i, ring)

Next ==
  /\ OperatorStep \/ \E w \in Workers : WorkerStep(w) \/ Crash(w) \/ RunAgain(w)
  /\ UNCHANGED setting

Spec == Init /\ [][Next]_vars

(* A process that is not killed is scheduled: each worker's own steps are  *)
(* weakly fair.  Crashes, reruns and the operator are not.                 *)
FairSpec == Spec /\ \A w \in Workers : WF_vars(WorkerStep(w) /\ UNCHANGED setting)

----
(* However often a command is run, by however many workers, and whatever   *)
(* was redacted or moved in between, its namespace never has two memories  *)
(* in the store.                                                           *)
AtMostOnce == \A o \in Ops : Cardinality(made[o] \ deleted) <= 1

(* A memory id a worker was told about is in the store until it is deleted: *)
(* an answer is never ahead of the commit.                                  *)
AnswersAreDurable ==
  \A w \in Workers : (answer[w] # None /\ answer[w].kind = "ok")
                       => answer[w].id \in Present(db) \cup deleted

(* The lookup foresees every refusal: put_idempotent never fails on the     *)
(* unique index or on a claim that the lookup did not report.               *)
NeverRefused == \A w \in Workers : answer[w] # None => answer[w].kind # "refused"

DifferentRequests(v, w) == Request[v].op = Request[w].op /\ Request[v] # Request[w]

(* A conflict is only reported when the namespace was used for a different  *)
(* write, or its memory was redacted or moved to another ring: superseding  *)
(* it, or deleting it, leaves an exact replay alone.                        *)
ConflictsExplained ==
  \A w \in Workers : (answer[w] # None /\ answer[w].kind = "conflict")
    => \/ \E v \in Workers : DifferentRequests(v, w)
       \/ moved \cap made[Request[w].op] # {}

(* Reusing a namespace for another write fails closed: two different        *)
(* requests are never both told that the one memory is theirs, unless it    *)
(* was moved in between to the ring that the other asks for.                *)
ReuseFailsClosed ==
  \A v, w \in Workers :
    DifferentRequests(v, w) /\ answer[v] # None /\ answer[w] # None
      => \/ ~(answer[v].kind = "ok" /\ answer[w].kind = "ok" /\ answer[v].id = answer[w].id)
         \/ answer[v].id \in moved

(* docs/protocol/memory-event.md: an exact replay of the same write returns *)
(* the existing memory ID.  Stated for a namespace no other request uses    *)
(* and no memory of which was redacted or deleted.                          *)
ExactReplayReturnsMemory ==
  \A w \in Workers : (answer[w] # None /\ answer[w].kind = "conflict")
    => \/ \E v \in Workers : DifferentRequests(v, w)
       \/ \E i \in made[Request[w].op] : i \in db.tombs \cup deleted

(* Every command ends: a worker that runs it is not left waiting for the    *)
(* lock, whose holder may have died.                                        *)
CommandsEnd == \A w \in Workers : (pc[w] = "begin") ~> (pc[w] \in {"idle", "done"})

(* Whatever a worker is told of its memory holds: the id is in the store   *)
(* until it is deleted, and no other request was told that it is its own.  *)
AnswersAreTrue == TypeOK /\ AnswersAreDurable /\ ReuseFailsClosed

(* A command is only refused for a reason it can be told: another write    *)
(* under its namespace, or a memory that was redacted or moved.            *)
RefusalsExplained == NeverRefused /\ ConflictsExplained
====
