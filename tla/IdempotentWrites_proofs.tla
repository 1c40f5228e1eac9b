---- MODULE IdempotentWrites_proofs ----
(***************************************************************************)
(* Proofs about IdempotentWrites, for any number of workers, ids,          *)
(* namespaces and attempts: a namespace never has two memories, answers    *)
(* are true and refusals have a reason.                                    *)
(***************************************************************************)
EXTENDS IdempotentWrites, MemoryTables_proofs, FiniteSetTheorems

\* The lock is held by the worker that is in its transaction, and a generated
\* id is nobody else's until it is written.
LockInv ==
  /\ \A w \in Workers : pc[w] = "write" <=> lock = w
  /\ \A w \in Workers : pc[w] \in {"begin", "write"} =>
       /\ event[w] \in Ids \ (Present(db) \cup deleted)
       /\ \A v \in Workers : v # w => event[v] # event[w]
  /\ \A w \in Workers : pc[w] = "reply" => event[w] \in Ids

\* What was made for a namespace is bound to it until it is deleted, and only a
\* memory that was redacted has it as a claim.
BindingInv ==
  /\ Present(db) \subseteq UNION {made[o] : o \in Ops}
  /\ \A o \in Ops, i \in Ids : BoundTo(db, o, i) => i \in made[o]
  /\ \A o \in Ops : \A i \in made[o] : i \in deleted \/ BoundTo(db, o, i)
  /\ \A o \in Ops : db.claims[o] # NoId => db.claims[o] \in moved

\* A memory nobody moved is the write some worker asked for.
IntentInv ==
  \A i \in Present(db) \ moved : \E v \in Workers : SameWriteIntent(db.rows[i], Request[v])

\* Worker w has been told, or is about to be told, that its memory is i.
Told(w, i) ==
  \/ answer[w] # None /\ answer[w].kind = "ok" /\ answer[w].id = i
  \/ pc[w] = "reply" /\ seen[w] = None /\ event[w] = i
  \/ pc[w] = "reply" /\ seen[w] # None /\ seen[w].id = i /\ SameWriteIntent(seen[w].row, Request[w])

ToldInv ==
  /\ \A w \in Workers, i \in Ids \cup {NoId} : Told(w, i) =>
       /\ i \in Present(db) \cup deleted
       /\ i \in Present(db) \ moved => SameWriteIntent(db.rows[i], Request[w])
       /\ i \notin moved => \A v \in Workers : Told(v, i) => Request[v] = Request[w]
  /\ \A w \in Workers : pc[w] = "reply" /\ seen[w] # None =>
       \/ seen[w].id \in moved \cap made[Request[w].op]
       \/ \E v \in Workers : SameWriteIntent(seen[w].row, Request[v]) /\ Request[v].op = Request[w].op

IInv ==
  /\ TypeOK
  /\ setting \in Settings
  /\ TablesInv(db)
  /\ LockInv
  /\ BindingInv
  /\ IntentInv
  /\ ToldInv
  /\ RefusalsExplained

----
(***************************************************************************)
(* Comparing a stored row with a request.                                  *)
(***************************************************************************)

(* What a worker asks for is a row of a namespace, not yet superseded.      *)
LEMMA RequestRow ==
  ASSUME setting \in Settings, NEW w \in Workers
  PROVE  /\ Request[w] \in Row
         /\ Request[w].op \in Ops
         /\ Request[w].supersededBy = NoId
<1>1. setting.request \in [Workers -> {r \in Row : r.op # NoOp /\ r.supersededBy = NoId}]
  BY WorkersAssumption
<1>2. Request[w] \in {r \in Row : r.op # NoOp /\ r.supersededBy = NoId}
  BY <1>1 DEF Request
<1> QED BY <1>2 DEF Row

(* The comparison compares the namespace, does not see supersession, and    *)
(* takes a fresh write for an exact replay of itself.                       *)
LEMMA IntentFacts ==
  ASSUME setting \in Settings, NEW w \in Workers, NEW x \in Row
  PROVE  /\ SameWriteIntent(x, Request[w]) => x.op = Request[w].op
         /\ SameWriteIntent(x, Request[w])
              => \A new \in Ids : SameWriteIntent([x EXCEPT !.supersededBy = new], Request[w])
         /\ x = Request[w] => SameWriteIntent(x, Request[w])
<1> DEFINE r == Request[w]
<1>1. r \in Row /\ r.supersededBy = NoId
  BY RequestRow
<1> HIDE DEF r
<1>2. SameWriteIntent(x, r) => x.op = r.op
  BY <1>1 DEF SameWriteIntent, Row
<1>3. SameWriteIntent(x, r) => \A new \in Ids : SameWriteIntent([x EXCEPT !.supersededBy = new], r)
  BY <1>1 DEF SameWriteIntent, Row
<1>4. x = r => SameWriteIntent(x, r)
  BY <1>1 DEF SameWriteIntent, Row
<1> QED BY <1>2, <1>3, <1>4 DEF r

(* A row is the write of one request at most.                               *)
LEMMA IntentUnique ==
  ASSUME setting \in Settings, NEW v \in Workers, NEW w \in Workers, NEW x \in Row,
         SameWriteIntent(x, Request[v]), SameWriteIntent(x, Request[w])
  PROVE  Request[v] = Request[w]
<1>1. Request[v].supersededBy = NoId /\ Request[w].supersededBy = NoId
  BY RequestRow
<1> QED BY <1>1 DEF SameWriteIntent

----
(***************************************************************************)
(* The workers' steps outside of a transaction.                            *)
(***************************************************************************)

(* A step that leaves the store alone, tells nobody of a memory he was not  *)
(* about to be told of, and takes nobody into a reply, keeps the bindings,  *)
(* the intents and what was told.                                           *)
LEMMA StoreUntouched ==
  ASSUME IInv, UNCHANGED <<setting, db, made, deleted, moved>>,
         \A w \in Workers, i \in Ids \cup {NoId} : Told(w, i)' => Told(w, i),
         \A w \in Workers : pc'[w] = "reply" => pc[w] = "reply" /\ seen'[w] = seen[w]
  PROVE  /\ setting' \in Settings
         /\ TablesInv(db)'
         /\ BindingInv'
         /\ IntentInv'
         /\ ToldInv'
<1>1. setting' \in Settings
  BY DEF IInv
<1>2. TablesInv(db)'
  BY DEF IInv, TablesInv, TombstonesSealedIn, OperationOwnedOnceIn, SearchMatchesRowsIn
<1>3. BindingInv'
  BY DEF IInv, BindingInv, BoundTo
<1>4. IntentInv'
  BY DEF IInv, IntentInv, Request
<1>5. ToldInv'
  <2>1. Request' = Request
    BY DEF Request
  <2>2. ASSUME NEW w \in Workers, NEW i \in Ids \cup {NoId}, Told(w, i)'
        PROVE  /\ i \in (Present(db) \cup deleted)'
               /\ i \in (Present(db) \ moved)' => SameWriteIntent(db.rows[i], Request[w])'
               /\ (i \notin moved)' => \A v \in Workers : Told(v, i)' => (Request[v] = Request[w])'
    <3>1. Told(w, i)
      BY <2>2
    <3>2. /\ i \in Present(db) \cup deleted
          /\ i \in Present(db) \ moved => SameWriteIntent(db.rows[i], Request[w])
          /\ i \notin moved => \A v \in Workers : Told(v, i) => Request[v] = Request[w]
      BY <3>1 DEF IInv, ToldInv
    <3> QED BY <2>1, <3>2
  <2>3. ASSUME NEW w \in Workers, (pc[w] = "reply" /\ seen[w] # None)'
        PROVE  \/ (seen[w].id \in moved \cap made[Request[w].op])'
               \/ \E v \in Workers : (SameWriteIntent(seen[w].row, Request[v]) /\ Request[v].op = Request[w].op)'
    <3>1. pc[w] = "reply" /\ seen[w] # None /\ seen'[w] = seen[w]
      BY <2>3
    <3>2. \/ seen[w].id \in moved \cap made[Request[w].op]
          \/ \E v \in Workers : SameWriteIntent(seen[w].row, Request[v]) /\ Request[v].op = Request[w].op
      BY <3>1 DEF IInv, ToldInv
    <3> QED BY <2>1, <3>1, <3>2
  <2> QED BY <2>2, <2>3 DEF ToldInv
<1> QED BY <1>1, <1>2, <1>3, <1>4, <1>5

(* A command that starts takes an id nobody has.                            *)
LEMMA StartKeepsInv ==
  ASSUME IInv, UNCHANGED setting, NEW w \in Workers, Start(w)
  PROVE  IInv'
<1> USE DEF Start
<1>1. PICK i \in Ids \ Used : event' = [event EXCEPT ![w] = i]
  OBVIOUS
<1>2. i \notin Present(db) \cup deleted /\ \A v \in Workers : event[v] # i
  <2>1. /\ i \notin {event[v] : v \in Workers}
        /\ i \notin UNION {made[o] : o \in Ops}
        /\ i \notin deleted
    BY <1>1 DEF Used
  <2>2. Present(db) \subseteq UNION {made[o] : o \in Ops}
    BY DEF IInv, BindingInv
  <2> QED BY <2>1, <2>2
<1>3. TypeOK'
  BY <1>1, WorkersAssumption DEF IInv, TypeOK
<1>4. LockInv'
  BY <1>1, <1>2 DEF IInv, LockInv, TypeOK, Present
<1>5. \A v \in Workers : pc'[v] = "reply" => pc[v] = "reply" /\ event'[v] = event[v] /\ seen'[v] = seen[v]
  BY <1>1 DEF IInv, TypeOK
<1>6. \A v \in Workers, j \in Ids \cup {NoId} : Told(v, j)' => Told(v, j)
  BY <1>5 DEF Told, Request
<1>7. RefusalsExplained'
  BY DEF IInv, RefusalsExplained, NeverRefused, ConflictsExplained, DifferentRequests, Request
<1> QED BY <1>3, <1>4, <1>5, <1>6, <1>7, StoreUntouched DEF IInv

(* The lock is taken by one worker, when it is free.                        *)
LEMMA AcquireKeepsInv ==
  ASSUME IInv, UNCHANGED setting, NEW w \in Workers, Acquire(w)
  PROVE  IInv'
<1> USE DEF Acquire
<1>1. TypeOK'
  BY DEF IInv, TypeOK
<1>2. LockInv'
  BY WorkersAssumption DEF IInv, LockInv, TypeOK, Present
<1>3. \A v \in Workers : pc'[v] = "reply" => pc[v] = "reply" /\ seen'[v] = seen[v]
  BY DEF IInv, TypeOK
<1>4. \A v \in Workers, j \in Ids \cup {NoId} : Told(v, j)' => Told(v, j)
  BY <1>3 DEF Told, Request
<1>5. RefusalsExplained'
  BY DEF IInv, RefusalsExplained, NeverRefused, ConflictsExplained, DifferentRequests, Request
<1> QED BY <1>1, <1>2, <1>3, <1>4, <1>5, StoreUntouched DEF IInv

(* An attempt that finds the lock taken tells at most that it is.           *)
LEMMA BusyKeepsInv ==
  ASSUME IInv, UNCHANGED setting, NEW w \in Workers, Busy(w)
  PROVE  IInv'
<1> USE DEF Busy
<1>1. \/ UNCHANGED <<pc, answer>>
      \/ /\ pc' = [pc EXCEPT ![w] = "done"]
         /\ answer' = [answer EXCEPT ![w] = [kind |-> "locked", id |-> NoId]]
  BY DEF Finish
<1>2. [kind |-> "locked", id |-> NoId] \in Answers
  BY DEF Answers
<1>3. TypeOK'
  <2>1. attempts' \in [Workers -> 0 .. MaxAttempts]
    BY WorkersAssumption DEF IInv, TypeOK
  <2> QED BY <1>1, <1>2, <2>1 DEF IInv, TypeOK
<1>4. LockInv'
  BY <1>1 DEF IInv, LockInv, TypeOK, Present
<1>5. \A v \in Workers : pc'[v] = "reply" => pc[v] = "reply" /\ seen'[v] = seen[v]
  BY <1>1 DEF IInv, TypeOK
<1>6. \A v \in Workers : answer'[v] = answer[v] \/ (answer'[v].kind = "locked")
  BY <1>1 DEF IInv, TypeOK
<1>7. \A v \in Workers, j \in Ids \cup {NoId} : Told(v, j)' => Told(v, j)
  BY <1>5, <1>6 DEF Told, Request
<1>8. RefusalsExplained'
  BY <1>6 DEF IInv, RefusalsExplained, NeverRefused, ConflictsExplained, DifferentRequests, Request
<1> QED BY <1>3, <1>4, <1>5, <1>7, <1>8, StoreUntouched DEF IInv

(* What a worker tells is what it was about to tell, and a conflict is      *)
(* another request's write or a memory that was moved.                      *)
LEMMA ReplyKeepsInv ==
  ASSUME IInv, UNCHANGED setting, NEW w \in Workers, Reply(w)
  PROVE  IInv'
<1> DEFINE Says(kind, i) == /\ pc' = [pc EXCEPT ![w] = "done"]
                            /\ answer' = [answer EXCEPT ![w] = [kind |-> kind, id |-> i]]
<1>1. /\ pc[w] = "reply"
      /\ UNCHANGED <<db, lock, event, attempts, seen, made, deleted, moved>>
      /\ \/ seen[w] = None /\ Says("ok", event[w])
         \/ seen[w] # None /\ SameWriteIntent(seen[w].row, Request[w]) /\ Says("ok", seen[w].id)
         \/ seen[w] # None /\ ~SameWriteIntent(seen[w].row, Request[w]) /\ Says("conflict", NoId)
  BY DEF Reply, Finish
<1>2. event[w] \in Ids
  BY <1>1 DEF IInv, LockInv
<1>3. seen[w] # None => seen[w].id \in Ids
  BY DEF IInv, TypeOK, Found
<1>4. TypeOK'
  <2>1. answer' \in [Workers -> Answers \cup {None}]
    BY <1>1, <1>2, <1>3 DEF IInv, TypeOK, Answers
  <2>2. pc' \in [Workers -> {"idle", "begin", "write", "reply", "done"}]
    BY <1>1 DEF IInv, TypeOK
  <2> QED BY <1>1, <2>1, <2>2 DEF IInv, TypeOK
<1>5. LockInv'
  BY <1>1 DEF IInv, LockInv, TypeOK, Present
<1>6. \A v \in Workers : v # w => pc'[v] = pc[v] /\ answer'[v] = answer[v]
  BY <1>1 DEF IInv, TypeOK
<1>7. pc'[w] = "done"
  BY <1>1 DEF IInv, TypeOK
<1>8. \A v \in Workers, j \in Ids \cup {NoId} : Told(v, j)' => Told(v, j)
  <2> SUFFICES ASSUME NEW v \in Workers, NEW j \in Ids \cup {NoId}, Told(v, j)' PROVE Told(v, j)
    OBVIOUS
  <2>1. CASE v # w
    BY <1>1, <1>6, <2>1 DEF Told, Request
  <2>2. CASE v = w
    <3>1. answer'[w].kind = "ok" /\ answer'[w].id = j
      BY <1>7, <2>2 DEF Told
    <3>2. \/ seen[w] = None /\ answer'[w] = [kind |-> "ok", id |-> event[w]]
          \/ seen[w] # None /\ SameWriteIntent(seen[w].row, Request[w]) /\ answer'[w] = [kind |-> "ok", id |-> seen[w].id]
          \/ answer'[w] = [kind |-> "conflict", id |-> NoId]
      BY <1>1 DEF IInv, TypeOK
    <3> QED BY <1>1, <2>2, <3>1, <3>2 DEF Told
  <2> QED BY <2>1, <2>2
<1>9. RefusalsExplained'
  <2>1. \/ answer'[w].kind = "ok"
        \/ answer'[w].kind = "conflict" /\ seen[w] # None /\ ~SameWriteIntent(seen[w].row, Request[w])
    BY <1>1 DEF IInv, TypeOK
  <2>2. ASSUME answer'[w].kind = "conflict"
        PROVE  \/ \E v \in Workers : DifferentRequests(v, w)
               \/ moved \cap made[Request[w].op] # {}
    <3>1. seen[w] # None /\ ~SameWriteIntent(seen[w].row, Request[w])
      BY <2>1, <2>2
    <3>2. \/ seen[w].id \in moved \cap made[Request[w].op]
          \/ \E v \in Workers : SameWriteIntent(seen[w].row, Request[v]) /\ Request[v].op = Request[w].op
      BY <1>1, <3>1 DEF IInv, ToldInv
    <3> QED BY <3>1, <3>2 DEF DifferentRequests
  <2>3. Request' = Request /\ UNCHANGED <<made, moved>>
    BY <1>1 DEF Request
  <2>4. NeverRefused'
    BY <1>6, <2>1 DEF IInv, RefusalsExplained, NeverRefused
  <2>5. ConflictsExplained'
    <3> SUFFICES ASSUME NEW v \in Workers, (answer[v] # None /\ answer[v].kind = "conflict")'
                 PROVE  (\/ \E u \in Workers : DifferentRequests(u, v)
                         \/ moved \cap made[Request[v].op] # {})'
      BY DEF ConflictsExplained
    <3>1. \/ \E u \in Workers : DifferentRequests(u, v)
          \/ moved \cap made[Request[v].op] # {}
      BY <1>6, <2>2 DEF IInv, RefusalsExplained, ConflictsExplained
    <3> QED BY <2>3, <3>1 DEF DifferentRequests
  <2> QED BY <2>4, <2>5 DEF RefusalsExplained
<1> QED BY <1>1, <1>4, <1>5, <1>6, <1>7, <1>8, <1>9, StoreUntouched DEF IInv

(* A worker that dies gives the lock back and takes nothing with it; one    *)
(* that runs its command again has forgotten only its position.             *)
LEMMA RestartKeepsInv ==
  ASSUME IInv, UNCHANGED setting, NEW w \in Workers, Crash(w) \/ RunAgain(w)
  PROVE  IInv'
<1>1. /\ pc' = [pc EXCEPT ![w] = "idle"]
      /\ lock' = IF lock = w THEN Free ELSE lock
      /\ UNCHANGED <<db, event, attempts, seen, answer, made, deleted, moved>>
  BY DEF Crash, RunAgain, IInv, LockInv
<1>2. TypeOK'
  BY <1>1 DEF IInv, TypeOK
<1>3. LockInv'
  BY <1>1, WorkersAssumption DEF IInv, LockInv, TypeOK, Present
<1>4. \A v \in Workers : pc'[v] = "reply" => pc[v] = "reply" /\ seen'[v] = seen[v]
  BY <1>1 DEF IInv, TypeOK
<1>5. \A v \in Workers, j \in Ids \cup {NoId} : Told(v, j)' => Told(v, j)
  BY <1>1, <1>4 DEF Told, Request
<1>6. RefusalsExplained'
  BY <1>1 DEF IInv, RefusalsExplained, NeverRefused, ConflictsExplained, DifferentRequests, Request
<1> QED BY <1>1, <1>2, <1>3, <1>4, <1>5, <1>6, StoreUntouched DEF IInv

----
(***************************************************************************)
(* The transaction of put_idempotent.                                      *)
(***************************************************************************)

(* The lookup reports whatever would make the write fail.                   *)
LEMMA LookupForesees ==
  ASSUME IInv, NEW w \in Workers, pc[w] = "write", Resolve(db, Request[w].op) = NoId
  PROVE  CanPut(db, event[w], Request[w])
<1> DEFINE o == Request[w].op
<1>1. o \in Ops /\ db \in Tables
  BY RequestRow DEF IInv, TypeOK
<1>2. \A i \in Ids : ~BoundTo(db, o, i)
  BY <1>1, ResolveBound, NullsAssumption DEF IInv, TablesInv
<1>3. db.claims[o] = NoId /\ Holders(db, o) = {}
  BY <1>1, <1>2 DEF BoundTo, Tables, Holders, Present
<1>4. event[w] \notin db.tombs
  BY DEF IInv, LockInv, TablesInv, TombstonesSealedIn
<1> QED BY <1>3, <1>4 DEF CanPut

(* An exact replay or a reuse: the worker learns of the memory that its     *)
(* namespace is bound to.                                                   *)
LEMMA FoundKeepsInv ==
  ASSUME IInv, UNCHANGED setting, NEW w \in Workers, pc[w] = "write", lock' = Free,
         NEW old, old = Resolve(db, Request[w].op), old # NoId,
         seen' = [seen EXCEPT ![w] = [id |-> old, row |-> db.rows[old]]],
         pc' = [pc EXCEPT ![w] = "reply"],
         UNCHANGED <<db, event, attempts, answer, made, deleted, moved>>
  PROVE  IInv'
<1> DEFINE r == Request[w]
           x == db.rows[old]
<1>1. r \in Row /\ r.op \in Ops /\ db \in Tables /\ Request' = Request /\ setting \in Settings
  BY RequestRow DEF IInv, TypeOK, Request
<1>2. old \in Present(db) /\ BoundTo(db, r.op, old)
  BY <1>1, ResolveBound DEF IInv, TablesInv, Present
<1>3. old \in Ids /\ x \in Row
  BY <1>1, <1>2, PresentRow
<1>4. old \in made[r.op]
  BY <1>1, <1>2, <1>3 DEF IInv, BindingInv
<1>5. [id |-> old, row |-> x] \in Found
  BY <1>3 DEF Found
<1>6. /\ seen'[w] = [id |-> old, row |-> x]
      /\ seen'[w] # None
      /\ \A v \in Workers : v # w => seen'[v] = seen[v] /\ pc'[v] = pc[v]
      /\ pc'[w] = "reply"
  BY <1>5, WorkersAssumption DEF IInv, TypeOK
<1>7. TypeOK'
  <2>1. seen' \in [Workers -> Found \cup {None}]
    BY <1>5 DEF IInv, TypeOK
  <2>2. pc' \in [Workers -> {"idle", "begin", "write", "reply", "done"}]
    BY DEF IInv, TypeOK
  <2> QED BY <2>1, <2>2 DEF IInv, TypeOK
<1>8. LockInv'
  BY WorkersAssumption DEF IInv, LockInv, TypeOK, Present
<1>9. TablesInv(db)' /\ BindingInv' /\ IntentInv' /\ (setting \in Settings)'
  BY <1>1 DEF IInv, BindingInv, BoundTo, IntentInv, TablesInv, TombstonesSealedIn,
              OperationOwnedOnceIn, SearchMatchesRowsIn
<1>10. \A v \in Workers, j \in Ids \cup {NoId} :
         Told(v, j)' => Told(v, j) \/ (v = w /\ j = old /\ SameWriteIntent(x, r))
  <2> SUFFICES ASSUME NEW v \in Workers, NEW j \in Ids \cup {NoId}, Told(v, j)'
               PROVE  Told(v, j) \/ (v = w /\ j = old /\ SameWriteIntent(x, r))
    OBVIOUS
  <2>1. CASE v # w
    BY <1>1, <1>6, <2>1 DEF Told
  <2>2. CASE v = w
    <3>1. \/ answer[w] # None /\ answer[w].kind = "ok" /\ answer[w].id = j
          \/ seen'[w] # None /\ seen'[w].id = j /\ SameWriteIntent(seen'[w].row, Request[w])
      BY <1>1, <1>6, <2>2 DEF Told
    <3> QED BY <1>6, <2>2, <3>1 DEF Told
  <2> QED BY <2>1, <2>2
<1>11. ASSUME NEW v \in Workers, Told(v, old), old \notin moved
       PROVE  SameWriteIntent(x, Request[v])
  BY <1>2, <1>3, <1>11 DEF IInv, ToldInv
<1>12. ToldInv'
  <2>1. ASSUME NEW v \in Workers, NEW j \in Ids \cup {NoId}, Told(v, j)'
        PROVE  /\ j \in (Present(db) \cup deleted)'
               /\ j \in (Present(db) \ moved)' => SameWriteIntent(db.rows[j], Request[v])'
               /\ (j \notin moved)' => \A u \in Workers : Told(u, j)' => (Request[u] = Request[v])'
    <3>1. j \in Present(db) \cup deleted
      BY <1>2, <1>10, <2>1 DEF IInv, ToldInv
    <3>2. j \in Present(db) \ moved => SameWriteIntent(db.rows[j], Request[v])
      BY <1>10, <2>1 DEF IInv, ToldInv
    <3>3. ASSUME j \notin moved, NEW u \in Workers, Told(u, j)' PROVE Request[u] = Request[v]
      <4>1. CASE Told(u, j) /\ Told(v, j)
        BY <3>3, <4>1 DEF IInv, ToldInv
      <4>2. CASE ~(Told(u, j) /\ Told(v, j))
        <5>1. j = old
          BY <1>10, <2>1, <3>3, <4>2
        <5>2. SameWriteIntent(x, Request[u]) /\ SameWriteIntent(x, Request[v])
          BY <1>10, <1>11, <2>1, <3>3, <5>1
        <5> QED BY <1>1, <1>3, <5>2, IntentUnique
      <4> QED BY <4>1, <4>2
    <3> QED BY <1>1, <3>1, <3>2, <3>3
  <2>2. ASSUME NEW v \in Workers, (pc[v] = "reply" /\ seen[v] # None)'
        PROVE  \/ (seen[v].id \in moved \cap made[Request[v].op])'
               \/ \E u \in Workers : (SameWriteIntent(seen[v].row, Request[u]) /\ Request[u].op = Request[v].op)'
    <3>1. CASE v # w
      BY <1>1, <1>6, <2>2, <3>1 DEF IInv, ToldInv
    <3>2. CASE v = w /\ old \in moved
      BY <1>1, <1>4, <1>6, <3>2
    <3>3. CASE v = w /\ old \notin moved
      <4>1. PICK u \in Workers : SameWriteIntent(x, Request[u])
        BY <1>2, <3>3 DEF IInv, IntentInv
      <4>2. x.op = Request[u].op
        BY <1>1, <1>3, <4>1, IntentFacts
      <4>3. x.op = r.op
        <5>1. db.claims[r.op] # old
          BY <1>1, <1>3, <3>3, NullsAssumption DEF IInv, BindingInv
        <5> QED BY <1>2, <5>1 DEF BoundTo, Holders
      <4>4. SameWriteIntent(seen'[v].row, Request'[u]) /\ Request'[u].op = Request'[v].op
        BY <1>1, <1>6, <3>3, <4>1, <4>2, <4>3
      <4> QED BY <4>4
    <3> QED BY <3>1, <3>2, <3>3
  <2> QED BY <2>1, <2>2 DEF ToldInv
<1>13. RefusalsExplained'
  BY <1>1 DEF IInv, RefusalsExplained, NeverRefused, ConflictsExplained, DifferentRequests
<1> QED BY <1>7, <1>8, <1>9, <1>12, <1>13 DEF IInv

(* A new memory: the worker's id was nobody's, and now the namespace is     *)
(* bound to it.                                                             *)
LEMMA CreatedKeepsInv ==
  ASSUME IInv, UNCHANGED setting, NEW w \in Workers, pc[w] = "write", lock' = Free,
         Resolve(db, Request[w].op) = NoId,
         CanPut(db, event[w], Request[w]),
         db' = Put(db, event[w], Request[w]),
         made' = [made EXCEPT ![Request[w].op] = @ \cup {event[w]}],
         seen' = [seen EXCEPT ![w] = None],
         pc' = [pc EXCEPT ![w] = "reply"],
         UNCHANGED <<event, attempts, answer, deleted, moved>>
  PROVE  IInv'
<1> DEFINE r == Request[w]
           i == event[w]
<1>1. /\ r \in Row /\ r.op \in Ops /\ Request' = Request /\ setting \in Settings
      /\ db \in Tables /\ TablesInv(db)
      /\ CanPut(db, i, r) /\ db' = Put(db, i, r)
  BY RequestRow DEF IInv, TypeOK, Request
<1>2. i \in Ids \ (Present(db) \cup deleted) /\ \A v \in Workers : v # w => event[v] # i
  BY DEF IInv, LockInv
<1>3. /\ seen'[w] = None
      /\ \A v \in Workers : v # w => seen'[v] = seen[v] /\ pc'[v] = pc[v]
      /\ pc'[w] = "reply"
  BY DEF IInv, TypeOK
<1>4. /\ \A o \in Ops : made[o] \subseteq made'[o] /\ made'[o] \subseteq made[o] \cup {i}
      /\ \A o \in Ops : i \in made'[o] => o = r.op \/ i \in made[o]
      /\ i \in made'[r.op]
      /\ made' \in [Ops -> SUBSET Ids]
  BY <1>1, <1>2 DEF IInv, TypeOK
<1> HIDE DEF r, i
<1>5. /\ Put(db, i, r) \in Tables
      /\ Put(db, i, r).rows = [db.rows EXCEPT ![i] = r]
      /\ Put(db, i, r).fts = [db.fts EXCEPT ![i] = <<r.text>>]
      /\ Put(db, i, r).claims = PreserveClaims(db, {i}, r.op)
      /\ Put(db, i, r).tombs = db.tombs
      /\ TablesInv(Put(db, i, r))
  BY SMTT(30), <1>1, <1>2, PutFields, PutKeepsTables
<1>6. Present(db') = Present(db) \cup {i}
  BY <1>1, <1>2, PutRows
<1>7. \A o \in Ops, j \in Ids : BoundTo(db', o, j) <=> BoundTo(db, o, j) \/ (j = i /\ r.op = o)
  BY <1>1, <1>2, PutBinds
<1>8. ASSUME NEW o \in Ops PROVE db'.claims[o] = db.claims[o]
  <2> DEFINE S == {i}
             op == r.op
  <2>1. db'.claims = PreserveClaims(db, S, op)
    BY <1>1, <1>5
  <2>2. /\ op \in Ops \cup {NoOp}
        /\ S \in SUBSET Ids
        /\ Holders(db, o) \cap S = {}
    BY <1>1, <1>2 DEF Holders
  <2> HIDE DEF S, op
  <2>3. \/ /\ o # op
           /\ db.claims[o] = NoId
           /\ PreserveClaims(db, S, op)[o] \in Holders(db, o) \cap S
        \/ /\ o = op \/ db.claims[o] # NoId \/ Holders(db, o) \cap S = {}
           /\ PreserveClaims(db, S, op)[o] = db.claims[o]
    BY <1>1, <2>2, PreserveClaimsValue
  <2> QED BY <2>1, <2>2, <2>3
<1>9. TypeOK'
  <2>1. seen' \in [Workers -> Found \cup {None}] /\ pc' \in [Workers -> {"idle", "begin", "write", "reply", "done"}]
    BY DEF IInv, TypeOK
  <2> QED BY <1>1, <1>4, <1>5, <2>1 DEF IInv, TypeOK
<1>10. LockInv'
  <2>1. \A v \in Workers : pc'[v] = "write" <=> lock' = v
    BY <1>3, WorkersAssumption DEF IInv, LockInv
  <2>2. ASSUME NEW v \in Workers, pc'[v] \in {"begin", "write"}
        PROVE  /\ event[v] \in Ids \ (Present(db') \cup deleted)
               /\ \A u \in Workers : u # v => event[u] # event[v]
    <3>1. v # w /\ pc'[v] = pc[v]
      BY <1>3, <2>2
    <3> QED BY <1>2, <1>6, <2>2, <3>1 DEF IInv, LockInv
  <2>3. \A v \in Workers : pc'[v] = "reply" => event[v] \in Ids
    BY <1>2, <1>3 DEF IInv, LockInv, i
  <2> QED BY <2>1, <2>2, <2>3 DEF LockInv, Present
<1>11. BindingInv'
  <2>1. Present(db') \subseteq UNION {made'[o] : o \in Ops}
    <3>1. Present(db) \subseteq UNION {made[o] : o \in Ops}
      BY DEF IInv, BindingInv
    <3>2. \A j \in Present(db) : \E o \in Ops : j \in made[o]
      BY <3>1
    <3>3. \A j \in Present(db') : \E o \in Ops : j \in made'[o]
      BY <1>1, <1>4, <1>6, <3>2
    <3> QED BY <3>3
  <2>2. \A o \in Ops, j \in Ids : BoundTo(db', o, j) => j \in made'[o]
    BY <1>4, <1>7 DEF IInv, BindingInv
  <2>3. \A o \in Ops : \A j \in made'[o] : j \in deleted \/ BoundTo(db', o, j)
    <3> SUFFICES ASSUME NEW o \in Ops, NEW j \in made'[o] PROVE j \in deleted \/ BoundTo(db', o, j)
      OBVIOUS
    <3>1. j \in Ids
      BY <1>4
    <3>2. CASE j \in made[o]
      BY <1>7, <3>1, <3>2 DEF IInv, BindingInv
    <3>3. CASE j \notin made[o]
      BY <1>4, <1>7, <3>1, <3>3
    <3> QED BY <3>2, <3>3
  <2>4. \A o \in Ops : db'.claims[o] # NoId => db'.claims[o] \in moved
    BY <1>8 DEF IInv, BindingInv
  <2> QED BY <2>1, <2>2, <2>3, <2>4 DEF BindingInv, Present, BoundTo, Holders
<1>12. \A j \in Present(db) : j # i /\ db'.rows[j] = db.rows[j]
  BY <1>1, <1>2, <1>5 DEF Present, Tables
<1>13. db'.rows[i] = r /\ SameWriteIntent(r, r)
  BY <1>1, <1>2, <1>5, IntentFacts DEF Tables, r
<1>14. IntentInv'
  BY <1>1, <1>6, <1>12, <1>13 DEF IInv, IntentInv, r
<1>15. \A v \in Workers, j \in Ids \cup {NoId} : Told(v, j)' => Told(v, j) \/ (v = w /\ j = i)
  BY <1>1, <1>3 DEF Told, i
<1>16. \A v \in Workers : ~Told(v, i)
  BY <1>2 DEF IInv, ToldInv
<1>17. ToldInv'
  <2>1. ASSUME NEW v \in Workers, NEW j \in Ids \cup {NoId}, Told(v, j)'
        PROVE  /\ j \in Present(db') \cup deleted
               /\ j \in Present(db') \ moved => SameWriteIntent(db'.rows[j], Request[v])
               /\ j \notin moved => \A u \in Workers : Told(u, j)' => Request[u] = Request[v]
    <3>1. CASE j = i
      BY <1>6, <1>13, <1>15, <1>16, <2>1, <3>1 DEF r
    <3>2. CASE j # i
      BY <1>6, <1>12, <1>15, <2>1, <3>2 DEF IInv, ToldInv
    <3> QED BY <3>1, <3>2
  <2>2. ASSUME NEW v \in Workers, (pc[v] = "reply" /\ seen[v] # None)'
        PROVE  \/ (seen[v].id \in moved \cap made[Request[v].op])'
               \/ \E u \in Workers : (SameWriteIntent(seen[v].row, Request[u]) /\ Request[u].op = Request[v].op)'
    <3>1. v # w /\ pc[v] = "reply" /\ seen'[v] = seen[v] /\ seen[v] # None
      BY <1>3, <2>2
    <3>2. Request[v].op \in Ops
      BY <1>1, RequestRow
    <3>3. \/ seen[v].id \in moved \cap made[Request[v].op]
          \/ \E u \in Workers : SameWriteIntent(seen[v].row, Request[u]) /\ Request[u].op = Request[v].op
      BY <3>1 DEF IInv, ToldInv
    <3> QED BY <1>1, <1>4, <3>1, <3>2, <3>3
  <2> QED BY <1>1, <2>1, <2>2 DEF ToldInv, Present
<1>18. RefusalsExplained'
  <2>1. NeverRefused'
    BY DEF IInv, RefusalsExplained, NeverRefused
  <2>2. ConflictsExplained'
    <3> SUFFICES ASSUME NEW v \in Workers, (answer[v] # None /\ answer[v].kind = "conflict")'
                 PROVE  (\/ \E u \in Workers : DifferentRequests(u, v)
                         \/ moved \cap made[Request[v].op] # {})'
      BY DEF ConflictsExplained
    <3>1. \/ \E u \in Workers : DifferentRequests(u, v)
          \/ moved \cap made[Request[v].op] # {}
      BY DEF IInv, RefusalsExplained, ConflictsExplained
    <3>2. made[Request[v].op] \subseteq made'[Request[v].op]
      BY <1>1, <1>4, RequestRow
    <3> QED BY <1>1, <3>1, <3>2 DEF DifferentRequests
  <2> QED BY <2>1, <2>2 DEF RefusalsExplained
<1> QED BY <1>1, <1>5, <1>9, <1>10, <1>11, <1>14, <1>17, <1>18
     DEF IInv, TablesInv, TombstonesSealedIn, OperationOwnedOnceIn, SearchMatchesRowsIn

(* put_idempotent keeps the invariant; the write is never refused.          *)
LEMMA PutIdempotentKeepsInv ==
  ASSUME IInv, UNCHANGED setting, NEW w \in Workers, PutIdempotent(w)
  PROVE  IInv'
<1> DEFINE old == Resolve(db, Request[w].op)
<1>1. pc[w] = "write" /\ lock' = Free /\ UNCHANGED <<event, attempts, deleted, moved>>
  BY DEF PutIdempotent
<1>2. CASE old # NoId
  <2>1. /\ seen' = [seen EXCEPT ![w] = [id |-> old, row |-> db.rows[old]]]
        /\ pc' = [pc EXCEPT ![w] = "reply"]
        /\ UNCHANGED <<db, made, answer>>
    BY <1>2 DEF PutIdempotent
  <2> QED BY <1>1, <1>2, <2>1, FoundKeepsInv
<1>3. CASE old = NoId
  <2>1. CanPut(db, event[w], Request[w])
    BY <1>1, <1>3, LookupForesees
  <2>2. /\ db' = Put(db, event[w], Request[w])
        /\ made' = [made EXCEPT ![Request[w].op] = @ \cup {event[w]}]
        /\ seen' = [seen EXCEPT ![w] = None]
        /\ pc' = [pc EXCEPT ![w] = "reply"]
        /\ UNCHANGED answer
    BY <1>3, <2>1 DEF PutIdempotent
  <2> QED BY <1>1, <1>3, <2>1, <2>2, CreatedKeepsInv
<1> QED BY <1>2, <1>3

----
(***************************************************************************)
(* The operator.                                                           *)
(***************************************************************************)

(* A transaction of the operator releases only what it deletes, and leaves  *)
(* the intent of what it does not count as moved.                           *)
LEMMA OperatorKeepsInv ==
  ASSUME IInv, UNCHANGED <<setting, lock, pc, event, attempts, seen, answer, made>>,
         db' \in Tables, TablesInv(db'),
         deleted \subseteq deleted', moved \subseteq moved', moved' \subseteq Ids,
         Present(db') \subseteq Present(db), deleted' \subseteq deleted \cup Present(db),
         Present(db) \subseteq Present(db') \cup deleted',
         \A o \in Ops, i \in Ids : BoundTo(db', o, i) => BoundTo(db, o, i),
         \A o \in Ops, i \in Ids : BoundTo(db, o, i) => BoundTo(db', o, i) \/ i \in deleted',
         \A o \in Ops : db'.claims[o] # NoId => db'.claims[o] \in moved',
         \A i \in Present(db') \ moved', w \in Workers :
           SameWriteIntent(db.rows[i], Request[w]) => SameWriteIntent(db'.rows[i], Request[w])
  PROVE  IInv'
<1>1. Request' = Request /\ setting' \in Settings
  BY DEF IInv, Request
<1>2. TypeOK'
  BY DEF IInv, TypeOK, Present
<1>3. LockInv'
  BY DEF IInv, LockInv, Present
<1>4. BindingInv'
  <2>1. Present(db') \subseteq UNION {made[o] : o \in Ops}
    BY DEF IInv, BindingInv
  <2>2. \A o \in Ops, i \in Ids : BoundTo(db', o, i) => i \in made[o]
    BY DEF IInv, BindingInv
  <2>3. \A o \in Ops : \A i \in made[o] : i \in deleted' \/ BoundTo(db', o, i)
    BY DEF IInv, BindingInv, TypeOK
  <2> QED BY <2>1, <2>2, <2>3 DEF BindingInv, Present, BoundTo, Holders
<1>5. IntentInv'
  <2>1. \A i \in Present(db') \ moved' : \E v \in Workers : SameWriteIntent(db'.rows[i], Request[v])
    BY DEF IInv, IntentInv
  <2> QED BY <1>1, <2>1 DEF IntentInv, Present
<1>6. \A w \in Workers, i \in Ids \cup {NoId} : Told(w, i)' <=> Told(w, i)
  BY <1>1 DEF Told
<1>7. ToldInv'
  <2>1. ASSUME NEW w \in Workers, NEW i \in Ids \cup {NoId}, Told(w, i)'
        PROVE  /\ i \in Present(db') \cup deleted'
               /\ i \in Present(db') \ moved' => SameWriteIntent(db'.rows[i], Request[w])
               /\ i \notin moved' => \A v \in Workers : Told(v, i)' => Request[v] = Request[w]
    BY <1>6, <2>1 DEF IInv, ToldInv
  <2>2. ASSUME NEW w \in Workers, pc[w] = "reply", seen[w] # None
        PROVE  \/ seen[w].id \in moved' \cap made[Request[w].op]
               \/ \E v \in Workers : SameWriteIntent(seen[w].row, Request[v]) /\ Request[v].op = Request[w].op
    BY <2>2 DEF IInv, ToldInv
  <2> QED BY <1>1, <2>1, <2>2 DEF ToldInv, Present
<1>8. RefusalsExplained'
  BY <1>1 DEF IInv, RefusalsExplained, NeverRefused, ConflictsExplained, DifferentRequests
<1> QED BY <1>1, <1>2, <1>3, <1>4, <1>5, <1>7, <1>8
     DEF IInv, TablesInv, TombstonesSealedIn, OperationOwnedOnceIn, SearchMatchesRowsIn

(* A memory that the operator redacts keeps its namespace as a claim.       *)
LEMMA RedactKeepsInv ==
  ASSUME IInv, UNCHANGED setting, NEW i \in Ids, OperatorRedact(i)
  PROVE  IInv'
<1> DEFINE S == {i}
<1>1. /\ db \in Tables /\ TablesInv(db) /\ S \in SUBSET Ids
      /\ db' = Redact(db, S)
      /\ moved' = moved \cup {i} /\ moved \subseteq Ids
      /\ UNCHANGED <<lock, pc, event, attempts, seen, answer, made, deleted>>
  BY DEF IInv, TypeOK, OperatorRedact
<1> HIDE DEF S
<1>2. /\ Redact(db, S) \in Tables
      /\ Present(Redact(db, S)) = Present(db)
      /\ \A o \in Ops : Holders(Redact(db, S), o) = Holders(db, o) \ S
      /\ TablesInv(db) => TablesInv(Redact(db, S))
  BY <1>1, RedactKeepsTables
<1>3. \A o \in Ops, j \in Ids : BoundTo(Redact(db, S), o, j) <=> BoundTo(db, o, j)
  BY <1>1, RedactBinds
<1>4. ASSUME NEW o \in Ops, db'.claims[o] # NoId PROVE db'.claims[o] \in moved'
  <2> DEFINE hit == S \cap Present(db)
  <2>1. hit \in SUBSET Ids /\ db'.claims = PreserveClaims(db, hit, NoOp)
    BY <1>1 DEF Redact, Present
  <2> HIDE DEF hit
  <2>2. \/ /\ o # NoOp
           /\ db.claims[o] = NoId
           /\ PreserveClaims(db, hit, NoOp)[o] \in Holders(db, o) \cap hit
        \/ /\ o = NoOp \/ db.claims[o] # NoId \/ Holders(db, o) \cap hit = {}
           /\ PreserveClaims(db, hit, NoOp)[o] = db.claims[o]
    BY <1>1, <2>1, PreserveClaimsValue
  <2>3. hit \subseteq moved'
    BY <1>1 DEF S, hit
  <2> QED BY <1>1, <1>4, <2>1, <2>2, <2>3 DEF IInv, BindingInv
<1>5. ASSUME NEW j \in Present(db') \ moved' PROVE db'.rows[j] = db.rows[j]
  BY <1>1 DEF S, Redact, Present
<1> QED BY <1>1, <1>2, <1>3, <1>4, <1>5, OperatorKeepsInv

(* A memory that the operator deletes is the only one to lose its binding.  *)
LEMMA DeleteKeepsInv ==
  ASSUME IInv, UNCHANGED setting, NEW i \in Ids, OperatorDelete(i)
  PROVE  IInv'
<1> DEFINE S == {i}
<1>1. /\ db \in Tables /\ TablesInv(db) /\ S \in SUBSET Ids
      /\ db' = Delete(db, S) /\ S \subseteq Present(db)
      /\ deleted' = deleted \cup S /\ moved \subseteq Ids
      /\ UNCHANGED <<lock, pc, event, attempts, seen, answer, made, moved>>
  BY DEF IInv, TypeOK, OperatorDelete
<1> HIDE DEF S
<1>2. /\ Delete(db, S) \in Tables
      /\ Present(Delete(db, S)) = Present(db) \ S
      /\ \A o \in Ops : Holders(Delete(db, S), o) = Holders(db, o) \ S
      /\ TablesInv(db) => TablesInv(Delete(db, S))
  BY <1>1, DeleteKeepsTables
<1>3. \A o \in Ops, j \in Ids : BoundTo(Delete(db, S), o, j) <=> BoundTo(db, o, j) /\ j \notin S
  BY <1>1, DeleteBinds
<1>4. \A o \in Ops : db'.claims[o] # NoId => db'.claims[o] \in moved'
  BY <1>1 DEF IInv, BindingInv, Delete
<1>5. ASSUME NEW j \in Present(db') PROVE db'.rows[j] = db.rows[j]
  BY <1>1 DEF Delete, Present
<1> QED BY <1>1, <1>2, <1>3, <1>4, <1>5, OperatorKeepsInv

(* A memory that the operator moves to another ring keeps its namespace.    *)
LEMMA PromoteKeepsInv ==
  ASSUME IInv, UNCHANGED setting, NEW i \in Ids, NEW ring \in OperatorMoves, OperatorPromote(i, ring)
  PROVE  IInv'
<1> DEFINE r == [db.rows[i] EXCEPT !.ring = ring, !.temporary = @ /\ ring # "heartwood"]
<1>1. /\ db \in Tables /\ TablesInv(db) /\ i \in Present(db)
      /\ CanPut(db, i, r) /\ db' = Put(db, i, r)
      /\ moved' = moved \cup {i} /\ moved \subseteq Ids
      /\ UNCHANGED <<lock, pc, event, attempts, seen, answer, made, deleted>>
  BY DEF IInv, TypeOK, OperatorPromote
<1>2. r \in Row /\ r.op = db.rows[i].op
  <2>1. ring \in Rings
    BY WorkersAssumption DEF IInv, OperatorMoves
  <2>2. db.rows[i] \in Row
    BY <1>1, PresentRow
  <2>3. (db.rows[i].temporary /\ ring # "heartwood") \in BOOLEAN
    OBVIOUS
  <2> QED BY <2>1, <2>2, <2>3 DEF Row
<1> HIDE DEF r
<1>3. /\ Put(db, i, r) \in Tables
      /\ Put(db, i, r).rows = [db.rows EXCEPT ![i] = r]
      /\ Put(db, i, r).fts = [db.fts EXCEPT ![i] = <<r.text>>]
      /\ Put(db, i, r).claims = PreserveClaims(db, {i}, r.op)
      /\ Put(db, i, r).tombs = db.tombs
      /\ TablesInv(Put(db, i, r))
  BY <1>1, <1>2, PutFields, PutKeepsTables
<1>4. Present(Put(db, i, r)) = Present(db) \cup {i}
  BY <1>1, <1>2, PutRows
<1>5. \A o \in Ops, j \in Ids : BoundTo(Put(db, i, r), o, j) <=> BoundTo(db, o, j)
  <2>1. \A o \in Ops, j \in Ids :
          BoundTo(Put(db, i, r), o, j) <=> BoundTo(db, o, j) \/ (j = i /\ r.op = o)
    BY <1>1, <1>2, PutBinds
  <2>2. \A o \in Ops : r.op = o => BoundTo(db, o, i)
    BY <1>1, <1>2 DEF BoundTo, Holders
  <2> QED BY <2>1, <2>2
<1>6. ASSUME NEW o \in Ops, db'.claims[o] # NoId PROVE db'.claims[o] \in moved'
  <2> DEFINE S == {i}
             op == r.op
  <2>1. /\ db'.claims = PreserveClaims(db, S, op)
        /\ op \in Ops \cup {NoOp} /\ S \in SUBSET Ids
    BY <1>1, <1>2, <1>3 DEF Row
  <2>2. S \subseteq moved'
    BY <1>1
  <2> HIDE DEF S, op
  <2>3. \/ /\ o # op
           /\ db.claims[o] = NoId
           /\ PreserveClaims(db, S, op)[o] \in Holders(db, o) \cap S
        \/ /\ o = op \/ db.claims[o] # NoId \/ Holders(db, o) \cap S = {}
           /\ PreserveClaims(db, S, op)[o] = db.claims[o]
    BY <1>1, <2>1, PreserveClaimsValue
  <2> QED BY <1>1, <1>6, <2>1, <2>2, <2>3 DEF IInv, BindingInv
<1>7. ASSUME NEW j \in Present(db') \ moved' PROVE db'.rows[j] = db.rows[j]
  BY <1>1, <1>3 DEF Present, Tables
<1> QED BY <1>1, <1>3, <1>4, <1>5, <1>6, <1>7, OperatorKeepsInv

(* Superseding a memory is not seen by an exact replay.                     *)
LEMMA SupersedeKeepsInv ==
  ASSUME IInv, UNCHANGED setting, NEW i \in Ids, NEW new \in Replacements, OperatorSupersede(i, new)
  PROVE  IInv'
<1> DEFINE S == {i}
<1>1. /\ db \in Tables /\ TablesInv(db) /\ S \in SUBSET Ids /\ new \in Ids
      /\ db' = SupersedeAll(db, S, new)
      /\ setting \in Settings /\ moved \subseteq Ids
      /\ UNCHANGED <<lock, pc, event, attempts, seen, answer, made, deleted, moved>>
  BY WorkersAssumption, SupersedeOne DEF IInv, TypeOK, OperatorSupersede
<1> HIDE DEF S
<1>2. /\ SupersedeAll(db, S, new) \in Tables
      /\ Present(SupersedeAll(db, S, new)) = Present(db)
      /\ \A o \in Ops : Holders(SupersedeAll(db, S, new), o) = Holders(db, o)
      /\ \A j \in Ids : SupersedeAll(db, S, new).rows[j]
           = IF j \in S \cap Present(db) THEN [db.rows[j] EXCEPT !.supersededBy = new] ELSE db.rows[j]
      /\ TablesInv(db) => TablesInv(SupersedeAll(db, S, new))
  BY <1>1, SupersedeKeepsTables
<1>3. \A o \in Ops, j \in Ids : BoundTo(SupersedeAll(db, S, new), o, j) <=> BoundTo(db, o, j)
  BY <1>1, OthersBind
<1>4. db'.claims = db.claims
  BY <1>1 DEF SupersedeAll, Tables
<1>5. ASSUME NEW j \in Present(db'), NEW w \in Workers, SameWriteIntent(db.rows[j], Request[w])
      PROVE  SameWriteIntent(db'.rows[j], Request[w])
  <2>1. j \in Present(db) /\ j \in Ids /\ db.rows[j] \in Row
    BY <1>1, <1>2, PresentRow
  <2>2. SameWriteIntent([db.rows[j] EXCEPT !.supersededBy = new], Request[w])
    BY <1>1, <1>5, <2>1, IntentFacts
  <2> QED BY <1>1, <1>2, <1>5, <2>1, <2>2
<1>6. \A o \in Ops : db'.claims[o] # NoId => db'.claims[o] \in moved'
  BY <1>1, <1>4 DEF IInv, BindingInv
<1> QED BY <1>1, <1>2, <1>3, <1>5, <1>6, OperatorKeepsInv

----
(* The invariant holds of the empty store.                                  *)
LEMMA InitInv == Init => IInv
<1> SUFFICES ASSUME Init PROVE IInv
  OBVIOUS
<1> USE DEF Init
<1>1. /\ db.rows = [i \in Ids |-> Missing]
      /\ db.fts = [i \in Ids |-> <<>>]
      /\ db.claims = [o \in Ops |-> NoId]
      /\ db.tombs = {}
      /\ db \in Tables
  BY DEF EmptyTables, Tables
<1>2. Present(db) = {} /\ \A o \in Ops : Holders(db, o) = {}
  BY <1>1 DEF Present, Holders
<1>3. TypeOK
  BY <1>1, WorkersAssumption DEF TypeOK
<1>4. TablesInv(db)
  BY <1>1, <1>2 DEF TablesInv, TombstonesSealedIn, OperationOwnedOnceIn, SearchMatchesRowsIn
<1>5. LockInv
  BY WorkersAssumption DEF LockInv
<1>6. BindingInv
  BY <1>1, <1>2, NullsAssumption DEF BindingInv, BoundTo
<1>7. IntentInv
  BY <1>2 DEF IntentInv
<1>8. ToldInv
  BY DEF ToldInv, Told
<1>9. RefusalsExplained
  BY DEF RefusalsExplained, NeverRefused, ConflictsExplained
<1> QED BY <1>3, <1>4, <1>5, <1>6, <1>7, <1>8, <1>9 DEF IInv

(* Every step of every process keeps the invariant.                         *)
LEMMA NextKeepsInv == IInv /\ [Next]_vars => IInv'
<1> SUFFICES ASSUME IInv, [Next]_vars PROVE IInv'
  OBVIOUS
<1>1. CASE Next
  <2> USE <1>1
  <2>1. UNCHANGED setting
    BY DEF Next
  <2>2. ASSUME NEW w \in Workers, Start(w) PROVE IInv'
    BY <2>1, <2>2, StartKeepsInv
  <2>3. ASSUME NEW w \in Workers, Acquire(w) PROVE IInv'
    BY <2>1, <2>3, AcquireKeepsInv
  <2>4. ASSUME NEW w \in Workers, Busy(w) PROVE IInv'
    BY <2>1, <2>4, BusyKeepsInv
  <2>5. ASSUME NEW w \in Workers, PutIdempotent(w) PROVE IInv'
    BY <2>1, <2>5, PutIdempotentKeepsInv
  <2>6. ASSUME NEW w \in Workers, Reply(w) PROVE IInv'
    BY <2>1, <2>6, ReplyKeepsInv
  <2>7. ASSUME NEW w \in Workers, Crash(w) \/ RunAgain(w) PROVE IInv'
    BY <2>1, <2>7, RestartKeepsInv
  <2>8. ASSUME NEW i \in Ids, OperatorRedact(i) PROVE IInv'
    BY <2>1, <2>8, RedactKeepsInv
  <2>9. ASSUME NEW i \in Ids, OperatorDelete(i) PROVE IInv'
    BY <2>1, <2>9, DeleteKeepsInv
  <2>10. ASSUME NEW i \in Ids, NEW ring \in OperatorMoves, OperatorPromote(i, ring) PROVE IInv'
    BY <2>1, <2>10, PromoteKeepsInv
  <2>11. ASSUME NEW i \in Ids, NEW new \in Replacements, OperatorSupersede(i, new) PROVE IInv'
    BY <2>1, <2>11, SupersedeKeepsInv
  <2> QED BY <2>2, <2>3, <2>4, <2>5, <2>6, <2>7, <2>8, <2>9, <2>10, <2>11
       DEF Next, WorkerStep, OperatorStep
<1>2. CASE UNCHANGED vars
  <2>1. UNCHANGED <<setting, db, lock, pc, event, attempts, seen, answer, made, deleted, moved>>
    BY <1>2 DEF vars
  <2>2. \A w \in Workers, i \in Ids \cup {NoId} : Told(w, i)' => Told(w, i)
    BY <2>1 DEF Told, Request
  <2>3. TypeOK' /\ LockInv' /\ RefusalsExplained'
    BY <2>1 DEF IInv, TypeOK, LockInv, RefusalsExplained, NeverRefused, ConflictsExplained,
                DifferentRequests, Request, Present
  <2> QED BY <2>1, <2>2, <2>3, StoreUntouched DEF IInv
<1> QED BY <1>1, <1>2

----
(***************************************************************************)
(* The theorems.                                                           *)
(***************************************************************************)

(* The inductive invariant holds in every reachable state.                  *)
THEOREM Invariance == Spec => []IInv
BY InitInv, NextKeepsInv, PTL DEF Spec

(* A namespace never has two memories in the store, however often a command *)
(* is run, by however many workers, whichever of them die in between and    *)
(* whatever the operator redacts, moves or supersedes meanwhile.            *)
THEOREM NamespacesOwnedOnce == Spec => []AtMostOnce
<1>1. IInv => AtMostOnce
  <2> SUFFICES ASSUME IInv, NEW o \in Ops PROVE Cardinality(made[o] \ deleted) <= 1
    BY DEF AtMostOnce
  <2>1. made[o] \in SUBSET Ids
    BY DEF IInv, TypeOK
  <2>2. \A i, j \in made[o] \ deleted : i = j
    BY <2>1, NullsAssumption DEF IInv, BindingInv, BoundTo, TablesInv, OperationOwnedOnceIn
  <2>3. CASE made[o] \ deleted = {}
    BY <2>3, FS_EmptySet
  <2>4. CASE made[o] \ deleted # {}
    <3>1. PICK i : made[o] \ deleted = {i}
      BY <2>2, <2>4
    <3>2. Cardinality({i}) = 1
      BY FS_Singleton
    <3> QED BY <3>1, <3>2
  <2> QED BY <2>3, <2>4
<1> QED BY <1>1, Invariance, PTL

(* What a worker was told of its memory holds: its id is in the store until *)
(* it is deleted, and nobody who asked for something else was told that it  *)
(* is his, unless it was moved.                                             *)
THEOREM AnswersHold == Spec => []AnswersAreTrue
<1>1. IInv => AnswersAreTrue
  <2> SUFFICES ASSUME IInv PROVE AnswersAreTrue
    OBVIOUS
  <2>1. ASSUME NEW w \in Workers, answer[w] # None, answer[w].kind = "ok"
        PROVE  answer[w].id \in Present(db) \cup deleted
    BY <2>1 DEF IInv, ToldInv, Told, TypeOK, Answers
  <2>2. AnswersAreDurable
    BY <2>1 DEF AnswersAreDurable
  <2>3. ReuseFailsClosed
    <3> SUFFICES ASSUME NEW v \in Workers, NEW w \in Workers, DifferentRequests(v, w),
                        answer[v] # None, answer[w] # None,
                        answer[v].kind = "ok", answer[w].kind = "ok", answer[v].id = answer[w].id,
                        answer[v].id \notin moved
                 PROVE  FALSE
      BY DEF ReuseFailsClosed
    <3>1. Told(v, answer[v].id) /\ Told(w, answer[v].id)
      BY DEF Told
    <3>2. answer[v].id \in Ids \cup {NoId}
      BY DEF IInv, TypeOK, Answers
    <3> QED BY <3>1, <3>2 DEF IInv, ToldInv, DifferentRequests
  <2> QED BY <2>2, <2>3 DEF AnswersAreTrue, IInv
<1> QED BY <1>1, Invariance, PTL

(* A worker is refused for a reason it can be told: the lookup foresees     *)
(* whatever would make the write fail, and a conflict is another request's  *)
(* write, or a memory of the namespace that was redacted or moved.          *)
THEOREM RefusalsHaveReasons == Spec => []RefusalsExplained
<1>1. IInv => RefusalsExplained
  BY DEF IInv
<1> QED BY <1>1, Invariance, PTL
====
