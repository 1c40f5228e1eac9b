---- MODULE MemoryStore ----
(***************************************************************************)
(* The SQLite store of one Tree Ring root, as every process that opens it  *)
(* sees it: the memory tables, the write policy, and the one write         *)
(* transaction that BEGIN IMMEDIATE lets be open at a time.                *)
(*                                                                         *)
(* An operation on one memory, a maintenance pass and a policy change run  *)
(* in a transaction nobody else can see into, so each is one action on the *)
(* committed tables, enabled while no transaction is open.  A batch        *)
(* (put_many, import_jsonl) writes one event per step into the open        *)
(* transaction's own tables; commit publishes them, and a refused write, a *)
(* refused batch or the death of the process drops them.                   *)
(***************************************************************************)
EXTENDS MemoryTables, Naturals

CONSTANTS
  Caps,       \* bound: the capabilities the store can ever generate
  Events,     \* the events clients submit
  Batches,    \* the sequences of events clients submit together
  NoCap, NoTxn

ASSUME RequestsAssumption == Events \subseteq Event /\ Batches \subseteq Seq(Events)
ASSUME StoreNullsAssumption == NoCap \notin Caps

VARIABLES
  db,       \* the committed tables
  policy,   \* the store_policy row: mode and (the hash of) the capability
  spent,    \* every capability generated so far
  txn,      \* the open write transaction, or NoTxn
  log       \* what the last transaction appended to authorization_audit, and for whom

vars == <<db, policy, spent, txn, log>>

(* A WriteContext: the actor profile of the process and the capability it  *)
(* presents.  Shared as an actor is a context without a profile.           *)
Contexts == [actor : Agents \cup {Shared}, cap : Caps \cup {NoCap}]

\* A process can only present a capability the store has handed out.
KnownContexts == [actor : Agents \cup {Shared}, cap : spent \cup {NoCap}]

Decisions == {"none", "allowed", "denied"}

Txns == [by : Contexts, decision : Decisions, work : Tables, batch : Seq(Events),
         import : BOOLEAN, replace : BOOLEAN, put : Nat, linked : Nat]

TypeOK ==
  /\ db \in Tables
  /\ policy \in [mode : {"open", "coordinated"}, cap : Caps \cup {NoCap}]
  /\ spent \subseteq Caps
  /\ txn \in Txns \cup {NoTxn}
  /\ log \in [by : Contexts, decision : Decisions]

Init ==
  /\ db = EmptyTables
  /\ policy = [mode |-> "open", cap |-> NoCap]
  /\ spent = {}
  /\ txn = NoTxn
  /\ log = [by |-> [actor |-> Shared, cap |-> NoCap], decision |-> "none"]

----
(* Authorization, evaluated inside the transaction of the write. *)

\* authorize_with_policy
CapabilityDecision(ctx) == IF ctx.cap = policy.cap THEN "allowed" ELSE "denied"

\* authorize_coordinator_action
CoordinatorDecision(ctx) ==
  IF policy.mode = "open" THEN "none" ELSE CapabilityDecision(ctx)

\* unprivileged_create_allowed
UnprivilegedCreateAllowed(ctx, r) ==
  r.owner # Shared /\ r.ring # "heartwood" /\ ctx.actor = r.owner

\* Mutant of CreatesDecision: a create is judged by its event alone.
CreatesDecisionByEvent(ctx, batch) ==
  IF policy.mode = "open" \/ \A k \in DOMAIN batch : UnprivilegedCreateAllowed(ctx, batch[k].row)
  THEN "none" ELSE CapabilityDecision(ctx)

\* authorize_event_creates: a batch is protected by any event that replaces
\* a row, repeats an id of the batch, or is not the actor's own agent memory.
CreatesDecision(ctx, batch) ==
  LET Protected(k) == \/ batch[k].id \in Present(db)
                      \/ \E j \in 1 .. k - 1 : batch[j].id = batch[k].id
                      \/ ~UnprivilegedCreateAllowed(ctx, batch[k].row)
  IN  IF policy.mode = "open" \/ \A k \in DOMAIN batch : ~Protected(k)
      THEN "none" ELSE CapabilityDecision(ctx)

----
(* Committing: the tables change and the decision is audited, or a denial  *)
(* is audited and nothing else changes.  A write that fails rolls its      *)
(* transaction back, audit row included, which is a step without effect.   *)

CanBegin == txn = NoTxn

Commit(ctx, decision, tables) ==
  /\ db' = tables
  /\ log' = [by |-> ctx, decision |-> decision]
  /\ UNCHANGED <<policy, spent, txn>>

Deny(ctx) ==
  /\ log' = [by |-> ctx, decision |-> "denied"]
  /\ UNCHANGED <<db, policy, spent, txn>>

Decide(ctx, decision, ok, tables) ==
  \/ decision = "denied" /\ Deny(ctx)
  \/ decision # "denied" /\ ok /\ Commit(ctx, decision, tables)

----
(* Operations on one memory. *)

PutEvent(ctx, e) ==
  /\ CanBegin
  /\ Decide(ctx, CreatesDecision(ctx, <<e>>), CanPut(db, e.id, e.row), Put(db, e.id, e.row))

\* put_idempotent: a namespace that resolves is answered with its memory,
\* before authorization and without a write.
PutIdempotent(ctx, e) ==
  /\ e.row.op # NoOp => Resolve(db, e.row.op) = NoId
  /\ PutEvent(ctx, e)

SupersedeMemory(ctx, old, new) ==
  /\ CanBegin
  /\ Decide(ctx, CoordinatorDecision(ctx), TRUE, Supersede(db, old, new))

DeleteMemory(ctx, i) ==
  /\ CanBegin
  /\ Decide(ctx, CoordinatorDecision(ctx), TRUE, Delete(db, {i}))

RedactMemory(ctx, i) ==
  /\ CanBegin
  /\ Decide(ctx, CoordinatorDecision(ctx), TRUE, Redact(db, {i}))

\* Mutants of Reringed: a redacted row takes the new event type too; the two
\* string arguments are swapped.
ReringedAlways(i, ring, kind) ==
  [db.rows[i] EXCEPT !.ring = ring, !.kind = kind, !.temporary = @ /\ ring # "heartwood"]

ReringedSwapped(i, ring, kind) ==
  [db.rows[i] EXCEPT !.ring = kind, !.kind = ring]

\* The row change_ring puts back.
Reringed(i, ring, kind) ==
  [db.rows[i] EXCEPT !.ring = ring,
                     !.kind = IF i \in db.tombs THEN @ ELSE kind,
                     !.temporary = @ /\ ring # "heartwood"]

ChangeRing(ctx, i, ring, kind) ==
  /\ CanBegin
  /\ i \in Present(db)
  /\ Decide(ctx, CoordinatorDecision(ctx), CanPut(db, i, Reringed(i, ring, kind)),
            Put(db, i, Reringed(i, ring, kind)))

----
(* Maintenance.  The plan is made inside the transaction: of the rows      *)
(* within the request's filters, the secret ones are redacted and then the *)
(* expired temporary ones deleted, as far as the request applies each.     *)

DeletableWhenExpired == {i \in Present(db) : /\ db.rows[i].temporary
                                             /\ db.rows[i].ring \notin {"scar", "heartwood"}}

SecretRows == {i \in Present(db) : db.rows[i].secret}

\* redactions, deletions: the actions of the plan that the request applies.
Maintain(ctx, redactions, deletions, repair) ==
  /\ CanBegin
  /\ LET scrubbed == Redact(db, redactions)
         pruned   == Delete(scrubbed, deletions)
         decision == IF repair \/ redactions # {} \/ deletions # {}
                     THEN CoordinatorDecision(ctx) ELSE "none"
     IN  Decide(ctx, decision, TRUE, IF repair THEN RebuildFts(pruned) ELSE pruned)

----
(* Batches. *)

Open(ctx, decision, batch, import, replace) ==
  /\ txn' = [by |-> ctx, decision |-> decision, work |-> db, batch |-> batch,
             import |-> import, replace |-> replace, put |-> 0, linked |-> 0]
  /\ UNCHANGED <<db, policy, spent, log>>

BeginBatch(ctx, decision, batch, import, replace) ==
  /\ CanBegin
  /\ \/ decision = "denied" /\ Deny(ctx)
     \/ decision # "denied" /\ Open(ctx, decision, batch, import, replace)

BeginPutMany(ctx, batch) == BeginBatch(ctx, CreatesDecision(ctx, batch), batch, FALSE, TRUE)

BeginImport(ctx, batch, replace) ==
  BeginBatch(ctx, CoordinatorDecision(ctx), batch, TRUE, replace)

\* import_jsonl without replace_existing plans no write for an id that is in
\* the store or earlier in the input.
Skipped(k) ==
  /\ ~txn.replace
  /\ \/ txn.batch[k].id \in Present(db)
     \/ \E j \in 1 .. k - 1 : txn.batch[j].id = txn.batch[k].id

PutNext ==
  /\ txn # NoTxn
  /\ txn.put < Len(txn.batch)
  /\ LET k == txn.put + 1
         e == txn.batch[k]
     IN  \/ /\ Skipped(k)
            /\ txn' = [txn EXCEPT !.put = k]
         \/ /\ ~Skipped(k)
            /\ CanPut(txn.work, e.id, e.row)
            /\ txn' = [txn EXCEPT !.put = k, !.work = Put(txn.work, e.id, e.row)]
  /\ UNCHANGED <<db, policy, spent, log>>

\* Mutant of LinkNext: only memories the import did not write are marked.
LinkNextOldOnly ==
  /\ txn # NoTxn
  /\ txn.import
  /\ txn.put = Len(txn.batch)
  /\ txn.linked < Len(txn.batch)
  /\ LET k == txn.linked + 1
         e == txn.batch[k]
     IN  txn' = [txn EXCEPT !.linked = k,
                            !.work = IF Skipped(k) THEN @
                                     ELSE SupersedeAll(@, e.row.supersedes \cap Present(db), e.id)]
  /\ UNCHANGED <<db, policy, spent, log>>

\* After every write of an import, its events' supersedes lists, in order.
LinkNext ==
  /\ txn # NoTxn
  /\ txn.import
  /\ txn.put = Len(txn.batch)
  /\ txn.linked < Len(txn.batch)
  /\ LET k == txn.linked + 1
         e == txn.batch[k]
     IN  txn' = [txn EXCEPT !.linked = k,
                            !.work = IF Skipped(k) THEN @ ELSE SupersedeAll(@, e.row.supersedes, e.id)]
  /\ UNCHANGED <<db, policy, spent, log>>

CommitBatch ==
  /\ txn # NoTxn
  /\ txn.put = Len(txn.batch)
  /\ txn.import => txn.linked = Len(txn.batch)
  /\ db' = txn.work
  /\ log' = [by |-> txn.by, decision |-> txn.decision]
  /\ txn' = NoTxn
  /\ UNCHANGED <<policy, spent>>

\* A write the tables refuse, an I/O error, or the end of the process.
Rollback ==
  /\ txn # NoTxn
  /\ txn' = NoTxn
  /\ UNCHANGED <<db, policy, spent, log>>

----
(* The policy.  A capability is a fresh random value. *)

EnablePolicy(ctx) ==
  /\ CanBegin
  /\ \/ policy.mode = "coordinated" /\ Deny(ctx)
     \/ /\ policy.mode = "open"
        /\ \E cap \in Caps \ spent :
             /\ policy' = [mode |-> "coordinated", cap |-> cap]
             /\ spent' = spent \cup {cap}
        /\ log' = [by |-> ctx, decision |-> "allowed"]
        /\ UNCHANGED <<db, txn>>

RotateCapability(ctx) ==
  /\ CanBegin
  /\ \/ policy.mode = "open" /\ Deny(ctx)
     \/ policy.mode = "coordinated" /\ CapabilityDecision(ctx) = "denied" /\ Deny(ctx)
     \/ /\ policy.mode = "coordinated"
        /\ CapabilityDecision(ctx) = "allowed"
        /\ \E cap \in Caps \ spent :
             /\ policy' = [policy EXCEPT !.cap = cap]
             /\ spent' = spent \cup {cap}
        /\ log' = [by |-> ctx, decision |-> "allowed"]
        /\ UNCHANGED <<db, txn>>

DisablePolicy(ctx) ==
  /\ CanBegin
  /\ \/ CoordinatorDecision(ctx) = "denied" /\ Deny(ctx)
     \/ /\ CoordinatorDecision(ctx) # "denied"
        /\ policy' = [mode |-> "open", cap |-> NoCap]
        /\ log' = [by |-> ctx, decision |-> CoordinatorDecision(ctx)]
        /\ UNCHANGED <<db, spent, txn>>

----
MemoryStep(ctx) ==
  \/ \E e \in Events : PutEvent(ctx, e) \/ PutIdempotent(ctx, e)
  \/ \E old, new \in Ids : SupersedeMemory(ctx, old, new)
  \/ \E i \in Ids : DeleteMemory(ctx, i) \/ RedactMemory(ctx, i)
  \/ \E i \in Ids, ring \in Rings, kind \in Kinds : ChangeRing(ctx, i, ring, kind)

MaintainStep(ctx) ==
  \E redactions \in SUBSET SecretRows, deletions \in SUBSET DeletableWhenExpired,
     repair \in BOOLEAN : Maintain(ctx, redactions, deletions, repair)

BatchStep(ctx) ==
  \E batch \in Batches : \/ BeginPutMany(ctx, batch)
                         \/ \E replace \in BOOLEAN : BeginImport(ctx, batch, replace)

PolicyStep(ctx) == EnablePolicy(ctx) \/ RotateCapability(ctx) \/ DisablePolicy(ctx)

Next ==
  \/ \E ctx \in KnownContexts :
       MemoryStep(ctx) \/ MaintainStep(ctx) \/ BatchStep(ctx) \/ PolicyStep(ctx)
  \/ PutNext \/ LinkNext \/ CommitBatch \/ Rollback

Spec == Init /\ [][Next]_vars

----
(* Invariants. *)

(* Whatever was written since, a redacted id holds a sanitized row until it *)
(* is deleted (write.rs refuses any other row for a tombstoned id).         *)
TombstonesSealed == TombstonesSealedIn(db)

(* An operation namespace answers to one memory: one active row or one      *)
(* claim, never both, and no claim is left behind by a deleted memory.      *)
OperationOwnedOnce == OperationOwnedOnceIn(db)

(* memory_fts holds exactly one entry per row, with the row's own text, so  *)
(* no search finds a replaced, redacted or deleted content.                 *)
SearchMatchesRows == SearchMatchesRowsIn(db)

(* change_ring, which writes the whole row back, is never refused by the    *)
(* claims and tombstones the row's own history left: a redacted row can     *)
(* still be moved although any other rewrite of it is refused.              *)
RingChangeAccepted ==
  \A i \in Present(db), ring \in Rings, kind \in Kinds : CanPut(db, i, Reringed(i, ring, kind))

----
(* Action properties. *)

(* A namespace that resolves to a memory keeps resolving to it, through     *)
(* replacement, redaction, imports and ring changes, until that memory is   *)
(* deleted: an idempotent write happens at most once.                       *)
OperationStable ==
  [][\A o \in Ops : Resolve(db, o) # NoId =>
       \/ Resolve(db', o) = Resolve(db, o)
       \/ Resolve(db, o) \notin Present(db')]_vars

(* In Coordinated mode every change of the policy, of an existing memory,   *)
(* of a claim or of a tombstone, and every new memory that is shared,       *)
(* heartwood or another agent's, is committed by a context holding the      *)
(* capability in force at the commit, and is audited as allowed.            *)
ProtectedChange ==
  \/ policy' # policy
  \/ db'.tombs # db.tombs
  \/ db'.claims # db.claims
  \/ \E i \in Ids :
       /\ db'.rows[i] # db.rows[i]
       /\ i \notin Present(db) => \/ db'.rows[i].owner # log'.by.actor
                                \/ db'.rows[i].owner = Shared
                                \/ db'.rows[i].ring = "heartwood"

CoordinatorOnly ==
  [][policy.mode = "coordinated" /\ ProtectedChange
       => log'.decision = "allowed" /\ log'.by.cap = policy.cap]_vars

(* A committed import stored each event it did not skip, the last of those  *)
(* with one id, and every memory listed in such an event's supersedes that  *)
(* is in the store is superseded, even one the same import wrote.           *)
Stored(k) ==
  LET e == txn.batch[k]
      Later(j) == j \in k + 1 .. Len(txn.batch) /\ txn.batch[j].id = e.id /\ ~Skipped(j)
  IN  /\ (~\E j \in DOMAIN txn.batch : Later(j)) =>
            db'.rows[e.id] = [e.row EXCEPT !.supersededBy = db'.rows[e.id].supersededBy]
      /\ \A old \in e.row.supersedes \cap Present(db') : db'.rows[old].supersededBy # NoId

ImportWhole ==
  [][CommitBatch /\ txn.import => \A k \in DOMAIN txn.batch : ~Skipped(k) => Stored(k)]_vars

----
(* The promises of MemoryLifecycle, under this reading of the tables. *)

StateOf(d) == [i \in Ids |-> IF i \in d.tombs THEN "redacted"
                             ELSE IF i \in Present(d) THEN "live" ELSE "absent"]

FoundIn(d) == [i \in Ids |-> {d.fts[i][n] : n \in DOMAIN d.fts[i]}]

Lifecycle == INSTANCE MemoryLifecycle
  WITH state <- StateOf(db), found <- FoundIn(db), bound <- [o \in Ops |-> Resolve(db, o)]

(* Every history of the store is one MemoryLifecycle allows.                *)
Promises == Lifecycle!Spec
====
