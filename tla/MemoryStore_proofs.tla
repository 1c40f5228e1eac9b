---- MODULE MemoryStore_proofs ----
(***************************************************************************)
(* Proofs about MemoryStore, for every value of its constants: the         *)
(* inductive invariant, which holds of the committed tables and of those   *)
(* of the open transaction, and what follows from it.                      *)
(***************************************************************************)
EXTENDS MemoryStore, MemoryTables_proofs

(***************************************************************************)
(* The inductive invariant.  The invariants of the committed tables are    *)
(* not inductive alone: a commit publishes the tables of the open          *)
(* transaction, so these must satisfy them too, write by write.            *)
(***************************************************************************)
IInv ==
  /\ TypeOK
  /\ TablesInv(db)
  /\ txn # NoTxn => TablesInv(txn.work)

(* What authorization answers is a decision.                                *)
LEMMA DecisionTypes ==
  ASSUME NEW ctx, NEW batch
  PROVE  /\ CapabilityDecision(ctx) \in Decisions
         /\ CoordinatorDecision(ctx) \in Decisions
         /\ CreatesDecision(ctx, batch) \in Decisions
<1>1. CapabilityDecision(ctx) \in Decisions
  BY DEF CapabilityDecision, Decisions
<1>2. "none" \in Decisions
  BY DEF Decisions
<1> QED BY <1>1, <1>2 DEF CoordinatorDecision, CreatesDecision

(* A step that only appends to the audit log, or also publishes tables      *)
(* that satisfy their invariant, keeps the invariant.                       *)
LEMMA PublishKeepsInv ==
  ASSUME IInv, UNCHANGED <<policy, spent, txn>>, db' \in Tables, TablesInv(db'),
         log' \in [by : Contexts, decision : Decisions]
  PROVE  IInv'
BY DEF IInv, TypeOK, TablesInv, TombstonesSealedIn, OperationOwnedOnceIn, SearchMatchesRowsIn

(* A denied request changes nothing but the audit log.                      *)
LEMMA DenyKeepsInv ==
  ASSUME IInv, NEW ctx \in Contexts, Deny(ctx)
  PROVE  IInv'
<1>1. db' = db /\ UNCHANGED <<policy, spent, txn>>
  BY DEF Deny
<1>2. db' \in Tables /\ TablesInv(db')
  BY <1>1 DEF IInv, TypeOK
<1>3. log' \in [by : Contexts, decision : Decisions]
  BY DEF Deny, Decisions
<1> QED BY <1>1, <1>2, <1>3, PublishKeepsInv

----
(* Operations on one memory. *)

(* put and put_idempotent keep the invariant.                               *)
LEMMA PutEventKeepsInv ==
  ASSUME IInv, NEW ctx \in Contexts, NEW e \in Events, PutEvent(ctx, e)
  PROVE  IInv'
<1>1. e.id \in Ids /\ e.row \in Row
  BY RequestsAssumption DEF Event
<1>2. CASE Deny(ctx)
  BY <1>2, DenyKeepsInv
<1>3. CASE /\ CanPut(db, e.id, e.row)
           /\ Commit(ctx, CreatesDecision(ctx, <<e>>), Put(db, e.id, e.row))
  <2>1. db' = Put(db, e.id, e.row)
    BY <1>3 DEF Commit
  <2>2. db' \in Tables /\ TablesInv(db')
    BY <1>1, <1>3, <2>1, PutFields, PutKeepsTables DEF IInv, TypeOK
  <2>3. log' \in [by : Contexts, decision : Decisions]
    BY <1>3, DecisionTypes DEF Commit
  <2> QED BY <1>3, <2>2, <2>3, PublishKeepsInv DEF Commit
<1> QED BY <1>2, <1>3 DEF PutEvent, Decide

(* supersede keeps the invariant.                                           *)
LEMMA SupersedeMemoryKeepsInv ==
  ASSUME IInv, NEW ctx \in Contexts, NEW old \in Ids, NEW new \in Ids,
         SupersedeMemory(ctx, old, new)
  PROVE  IInv'
<1>1. CASE Deny(ctx)
  BY <1>1, DenyKeepsInv
<1>2. CASE Commit(ctx, CoordinatorDecision(ctx), Supersede(db, old, new))
  <2>1. db' = SupersedeAll(db, {old}, new)
    BY <1>2, SupersedeOne DEF Commit, IInv, TypeOK
  <2>2. db' \in Tables /\ TablesInv(db')
    BY <2>1, SupersedeKeepsTables DEF IInv, TypeOK
  <2>3. log' \in [by : Contexts, decision : Decisions]
    BY <1>2, DecisionTypes DEF Commit
  <2> QED BY <1>2, <2>2, <2>3, PublishKeepsInv DEF Commit
<1> QED BY <1>1, <1>2 DEF SupersedeMemory, Decide

(* delete keeps the invariant.                                              *)
LEMMA DeleteMemoryKeepsInv ==
  ASSUME IInv, NEW ctx \in Contexts, NEW i \in Ids, DeleteMemory(ctx, i)
  PROVE  IInv'
<1>1. CASE Deny(ctx)
  BY <1>1, DenyKeepsInv
<1>2. CASE Commit(ctx, CoordinatorDecision(ctx), Delete(db, {i}))
  <2>1. db' \in Tables /\ TablesInv(db')
    BY <1>2, DeleteKeepsTables DEF Commit, IInv, TypeOK
  <2>2. log' \in [by : Contexts, decision : Decisions]
    BY <1>2, DecisionTypes DEF Commit
  <2> QED BY <1>2, <2>1, <2>2, PublishKeepsInv DEF Commit
<1> QED BY <1>1, <1>2 DEF DeleteMemory, Decide

(* redact keeps the invariant.                                              *)
LEMMA RedactMemoryKeepsInv ==
  ASSUME IInv, NEW ctx \in Contexts, NEW i \in Ids, RedactMemory(ctx, i)
  PROVE  IInv'
<1>1. CASE Deny(ctx)
  BY <1>1, DenyKeepsInv
<1>2. CASE Commit(ctx, CoordinatorDecision(ctx), Redact(db, {i}))
  <2>1. db' \in Tables /\ TablesInv(db')
    BY <1>2, RedactKeepsTables DEF Commit, IInv, TypeOK
  <2>2. log' \in [by : Contexts, decision : Decisions]
    BY <1>2, DecisionTypes DEF Commit
  <2> QED BY <1>2, <2>1, <2>2, PublishKeepsInv DEF Commit
<1> QED BY <1>1, <1>2 DEF RedactMemory, Decide

(* What change_ring writes back is a row, and the tables never refuse it:   *)
(* the row's own claim would contradict the namespace it holds, and a       *)
(* redacted row keeps the event type its tombstone asks for.                *)
LEMMA ReringedAccepted ==
  ASSUME IInv, NEW i \in Present(db), NEW ring \in Rings, NEW kind \in Kinds
  PROVE  Reringed(i, ring, kind) \in Row /\ CanPut(db, i, Reringed(i, ring, kind))
<1> DEFINE r == Reringed(i, ring, kind)
<1>1. db \in Tables /\ i \in Ids /\ db.rows[i] \in Row
  BY PresentRow DEF IInv, TypeOK
<1>2. /\ r \in Row
      /\ r.op = db.rows[i].op
      /\ i \in db.tombs /\ IsSanitizedRedaction(db.rows[i]) => IsSanitizedRedaction(r)
  <2>1. (db.rows[i].temporary /\ ring # "heartwood") \in BOOLEAN
    OBVIOUS
  <2> QED BY <1>1, <2>1 DEF Reringed, Row, IsSanitizedRedaction
<1>3. i \in db.tombs => IsSanitizedRedaction(r)
  BY <1>2 DEF IInv, TablesInv, TombstonesSealedIn
<1>4. r.op # NoOp => db.claims[r.op] = NoId /\ Holders(db, r.op) \subseteq {i}
  <2> HAVE r.op # NoOp
  <2>1. r.op \in Ops
    BY <1>2 DEF Row
  <2>2. i \in Holders(db, r.op)
    BY <1>2 DEF Holders
  <2> QED BY <2>1, <2>2 DEF IInv, TablesInv, OperationOwnedOnceIn
<1> QED BY <1>2, <1>3, <1>4 DEF CanPut

(* change_ring keeps the invariant.                                         *)
LEMMA ChangeRingKeepsInv ==
  ASSUME IInv, NEW ctx \in Contexts, NEW i \in Ids, NEW ring \in Rings, NEW kind \in Kinds,
         ChangeRing(ctx, i, ring, kind)
  PROVE  IInv'
<1>1. CASE Deny(ctx)
  BY <1>1, DenyKeepsInv
<1>2. CASE Commit(ctx, CoordinatorDecision(ctx), Put(db, i, Reringed(i, ring, kind)))
  <2>1. Reringed(i, ring, kind) \in Row /\ CanPut(db, i, Reringed(i, ring, kind))
    BY ReringedAccepted DEF ChangeRing
  <2>2. db' \in Tables /\ TablesInv(db')
    BY <1>2, <2>1, PutFields, PutKeepsTables DEF Commit, IInv, TypeOK
  <2>3. log' \in [by : Contexts, decision : Decisions]
    BY <1>2, DecisionTypes DEF Commit
  <2> QED BY <1>2, <2>2, <2>3, PublishKeepsInv DEF Commit
<1> QED BY <1>1, <1>2 DEF ChangeRing, Decide

----
(* Maintenance. *)

(* A maintenance pass keeps the invariant, whatever it redacts, deletes and *)
(* repairs.                                                                 *)
LEMMA MaintainKeepsInv ==
  ASSUME IInv, NEW ctx \in Contexts, NEW redactions \in SUBSET Ids, NEW deletions \in SUBSET Ids,
         NEW repair \in BOOLEAN, Maintain(ctx, redactions, deletions, repair)
  PROVE  IInv'
<1> DEFINE pruned   == Delete(Redact(db, redactions), deletions)
           decision == IF repair \/ redactions # {} \/ deletions # {}
                       THEN CoordinatorDecision(ctx) ELSE "none"
           result   == IF repair THEN RebuildFts(pruned) ELSE pruned
<1>1. pruned \in Tables /\ TablesInv(pruned)
  BY RedactKeepsTables, DeleteKeepsTables DEF IInv, TypeOK
<1>2. result \in Tables /\ TablesInv(result)
  <2> HIDE DEF pruned
  <2> QED BY <1>1, RebuildKeepsTables
<1>3. decision \in Decisions
  BY DecisionTypes DEF Decisions
<1>4. \/ Deny(ctx)
      \/ Commit(ctx, decision, result)
  BY DEF Maintain, Decide
<1> HIDE DEF pruned, decision, result
<1>5. CASE Deny(ctx)
  BY <1>5, DenyKeepsInv
<1>6. CASE Commit(ctx, decision, result)
  BY <1>2, <1>3, <1>6, PublishKeepsInv DEF Commit
<1> QED BY <1>4, <1>5, <1>6

----
(* Batches. *)

(* A step that only changes the open transaction, to one whose tables       *)
(* satisfy their invariant, keeps the invariant.                            *)
LEMMA WorkKeepsInv ==
  ASSUME IInv, UNCHANGED <<db, policy, spent, log>>, txn' \in Txns, TablesInv(txn'.work)
  PROVE  IInv'
BY DEF IInv, TypeOK, TablesInv, TombstonesSealedIn, OperationOwnedOnceIn, SearchMatchesRowsIn

(* A batch starts on the committed tables.                                  *)
LEMMA BeginBatchKeepsInv ==
  ASSUME IInv, NEW ctx \in Contexts, NEW decision \in Decisions, NEW batch \in Batches,
         NEW import \in BOOLEAN, NEW replace \in BOOLEAN,
         BeginBatch(ctx, decision, batch, import, replace)
  PROVE  IInv'
<1>1. CASE Deny(ctx)
  BY <1>1, DenyKeepsInv
<1>2. CASE Open(ctx, decision, batch, import, replace)
  <2>1. batch \in Seq(Events)
    BY RequestsAssumption
  <2>2. txn' \in Txns /\ txn'.work = db
    BY <1>2, <2>1 DEF Open, Txns, IInv, TypeOK
  <2>3. TablesInv(txn'.work)
    BY <2>2 DEF IInv
  <2> QED BY <1>2, <2>2, <2>3, WorkKeepsInv DEF Open
<1> QED BY <1>1, <1>2 DEF BeginBatch

(* Writing the next event of a batch keeps the invariant.                   *)
LEMMA PutNextKeepsInv ==
  ASSUME IInv, PutNext
  PROVE  IInv'
<1> DEFINE k == txn.put + 1
           e == txn.batch[k]
<1>1. /\ txn \in Txns
      /\ txn.work \in Tables /\ TablesInv(txn.work)
      /\ txn.put \in Nat /\ txn.batch \in Seq(Events) /\ txn.put < Len(txn.batch)
  BY DEF IInv, TypeOK, PutNext, Txns
<1>2. k \in Nat /\ k \in DOMAIN txn.batch
  BY <1>1
<1>3. e \in Events
  BY <1>1, <1>2
<1>4. e.id \in Ids /\ e.row \in Row
  BY <1>3, RequestsAssumption DEF Event
<1>5. UNCHANGED <<db, policy, spent, log>>
  BY DEF PutNext
<1>6. \/ txn' = [txn EXCEPT !.put = k]
      \/ /\ CanPut(txn.work, e.id, e.row)
         /\ txn' = [txn EXCEPT !.put = k, !.work = Put(txn.work, e.id, e.row)]
  BY DEF PutNext
<1> HIDE DEF e, k
<1>7. CASE txn' = [txn EXCEPT !.put = k]
  <2>1. txn' \in Txns /\ txn'.work = txn.work
    BY <1>1, <1>2, <1>7 DEF Txns
  <2> QED BY <1>1, <1>5, <2>1, WorkKeepsInv
<1>8. CASE /\ CanPut(txn.work, e.id, e.row)
           /\ txn' = [txn EXCEPT !.put = k, !.work = Put(txn.work, e.id, e.row)]
  <2>1. Put(txn.work, e.id, e.row) \in Tables /\ TablesInv(Put(txn.work, e.id, e.row))
    BY <1>1, <1>4, <1>8, PutFields, PutKeepsTables
  <2>2. txn' \in Txns /\ txn'.work = Put(txn.work, e.id, e.row)
    BY <1>1, <1>2, <1>8, <2>1 DEF Txns
  <2> QED BY <1>5, <2>1, <2>2, WorkKeepsInv
<1> QED BY <1>6, <1>7, <1>8

(* Marking what an imported event supersedes keeps the invariant.           *)
LEMMA LinkNextKeepsInv ==
  ASSUME IInv, LinkNext
  PROVE  IInv'
<1> DEFINE k == txn.linked + 1
           e == txn.batch[k]
           marked == SupersedeAll(txn.work, e.row.supersedes, e.id)
<1>1. /\ txn \in Txns
      /\ txn.work \in Tables /\ TablesInv(txn.work)
      /\ txn.linked \in Nat /\ txn.batch \in Seq(Events) /\ txn.linked < Len(txn.batch)
  BY DEF IInv, TypeOK, LinkNext, Txns
<1>2. k \in Nat /\ k \in DOMAIN txn.batch
  BY <1>1
<1>3. e \in Events
  BY <1>1, <1>2
<1>4. e.id \in Ids /\ e.row.supersedes \in SUBSET Ids
  BY <1>3, RequestsAssumption DEF Event, Row
<1>5. UNCHANGED <<db, policy, spent, log>>
  BY DEF LinkNext
<1>6. txn' = [txn EXCEPT !.linked = k, !.work = IF Skipped(k) THEN txn.work ELSE marked]
  BY <1>1 DEF LinkNext, Txns
<1>7. marked \in Tables /\ TablesInv(marked)
  <2> HIDE DEF e
  <2> QED BY <1>1, <1>4, SupersedeKeepsTables
<1> HIDE DEF e, k, marked
<1>8. txn' \in Txns /\ txn'.work \in {txn.work, marked}
  BY <1>1, <1>2, <1>6, <1>7 DEF Txns
<1>9. TablesInv(txn'.work)
  BY <1>1, <1>7, <1>8
<1> QED BY <1>5, <1>8, <1>9, WorkKeepsInv

(* A commit publishes the transaction's tables.                             *)
LEMMA CommitBatchKeepsInv ==
  ASSUME IInv, CommitBatch
  PROVE  IInv'
<1>1. /\ txn.work \in Tables /\ TablesInv(txn.work)
      /\ txn.by \in Contexts /\ txn.decision \in Decisions
  BY DEF IInv, TypeOK, CommitBatch, Txns
<1>2. db' = txn.work /\ txn' = NoTxn /\ UNCHANGED <<policy, spent>>
  BY DEF CommitBatch
<1>3. log' \in [by : Contexts, decision : Decisions]
  BY <1>1 DEF CommitBatch
<1>4. TablesInv(db')
  BY <1>1, <1>2
<1>5. TypeOK'
  BY <1>1, <1>2, <1>3 DEF IInv, TypeOK
<1> QED BY <1>2, <1>4, <1>5
     DEF IInv, TablesInv, TombstonesSealedIn, OperationOwnedOnceIn, SearchMatchesRowsIn

(* A rollback leaves the committed tables.                                  *)
LEMMA RollbackKeepsInv ==
  ASSUME IInv, Rollback
  PROVE  IInv'
BY DEF Rollback, IInv, TypeOK, TablesInv, TombstonesSealedIn, OperationOwnedOnceIn,
       SearchMatchesRowsIn

----
(* The policy, and the whole specification. *)

(* Enabling, rotating and disabling the policy leave the tables alone.      *)
LEMMA PolicyStepKeepsInv ==
  ASSUME IInv, NEW ctx \in Contexts, PolicyStep(ctx)
  PROVE  IInv'
<1>1. CASE Deny(ctx)
  BY <1>1, DenyKeepsInv
<1>2. CASE ~Deny(ctx)
  <2>1. UNCHANGED <<db, txn>>
    BY <1>2 DEF PolicyStep, EnablePolicy, RotateCapability, DisablePolicy
  <2>2. /\ policy' \in [mode : {"open", "coordinated"}, cap : Caps \cup {NoCap}]
        /\ spent' \subseteq Caps
    <3>1. CASE EnablePolicy(ctx)
      BY <1>2, <3>1 DEF EnablePolicy, IInv, TypeOK
    <3>2. CASE RotateCapability(ctx)
      BY <1>2, <3>2 DEF RotateCapability, IInv, TypeOK
    <3>3. CASE DisablePolicy(ctx)
      BY <1>2, <3>3 DEF DisablePolicy, IInv, TypeOK
    <3> QED BY <3>1, <3>2, <3>3 DEF PolicyStep
  <2>3. log' \in [by : Contexts, decision : Decisions]
    <3>1. "allowed" \in Decisions
      BY DEF Decisions
    <3> QED BY <1>2, <3>1, DecisionTypes
         DEF PolicyStep, EnablePolicy, RotateCapability, DisablePolicy
  <2> QED BY <2>1, <2>2, <2>3
       DEF IInv, TypeOK, TablesInv, TombstonesSealedIn, OperationOwnedOnceIn, SearchMatchesRowsIn
<1> QED BY <1>1, <1>2

(* The empty store satisfies the invariant.                                 *)
LEMMA InitInv == Init => IInv
<1> SUFFICES ASSUME Init PROVE IInv
  OBVIOUS
<1>1. EmptyTables \in Tables
  <2>1. <<>> \in Seq(Texts \cup {Redacted})
    OBVIOUS
  <2> QED BY <2>1 DEF EmptyTables, Tables
<1>2. TypeOK
  BY <1>1 DEF Init, TypeOK, Contexts, Decisions
<1>3. TablesInv(db)
  BY DEF Init, EmptyTables, TablesInv, TombstonesSealedIn, OperationOwnedOnceIn,
         SearchMatchesRowsIn, Present, Holders
<1> QED BY <1>2, <1>3 DEF IInv, Init

(* Every step keeps the invariant.                                          *)
LEMMA NextKeepsInv == IInv /\ [Next]_vars => IInv'
<1> SUFFICES ASSUME IInv, [Next]_vars PROVE IInv'
  OBVIOUS
<1>1. CASE UNCHANGED vars
  BY <1>1 DEF vars, IInv, TypeOK, TablesInv, TombstonesSealedIn, OperationOwnedOnceIn,
              SearchMatchesRowsIn
<1>2. ASSUME NEW ctx \in KnownContexts,
             MemoryStep(ctx) \/ MaintainStep(ctx) \/ BatchStep(ctx) \/ PolicyStep(ctx)
      PROVE  IInv'
  <2>1. ctx \in Contexts
    BY DEF KnownContexts, Contexts, IInv, TypeOK
  <2>2. CASE MemoryStep(ctx)
    <3>1. ASSUME NEW e \in Events, PutEvent(ctx, e) \/ PutIdempotent(ctx, e) PROVE IInv'
      BY <2>1, <3>1, PutEventKeepsInv DEF PutIdempotent
    <3>2. ASSUME NEW old \in Ids, NEW new \in Ids, SupersedeMemory(ctx, old, new) PROVE IInv'
      BY <2>1, <3>2, SupersedeMemoryKeepsInv
    <3>3. ASSUME NEW i \in Ids, DeleteMemory(ctx, i) PROVE IInv'
      BY <2>1, <3>3, DeleteMemoryKeepsInv
    <3>4. ASSUME NEW i \in Ids, RedactMemory(ctx, i) PROVE IInv'
      BY <2>1, <3>4, RedactMemoryKeepsInv
    <3>5. ASSUME NEW i \in Ids, NEW ring \in Rings, NEW kind \in Kinds,
                 ChangeRing(ctx, i, ring, kind)
          PROVE  IInv'
      BY <2>1, <3>5, ChangeRingKeepsInv
    <3> QED BY <2>2, <3>1, <3>2, <3>3, <3>4, <3>5 DEF MemoryStep
  <2>3. CASE MaintainStep(ctx)
    <3>1. PICK redactions \in SUBSET SecretRows, deletions \in SUBSET DeletableWhenExpired,
               repair \in BOOLEAN : Maintain(ctx, redactions, deletions, repair)
      BY <2>3 DEF MaintainStep
    <3>2. redactions \in SUBSET Ids /\ deletions \in SUBSET Ids
      BY DEF SecretRows, DeletableWhenExpired, Present
    <3> QED BY <2>1, <3>1, <3>2, MaintainKeepsInv
  <2>4. CASE BatchStep(ctx)
    <3>1. ASSUME NEW batch \in Batches, BeginPutMany(ctx, batch) PROVE IInv'
      BY <2>1, <3>1, DecisionTypes, BeginBatchKeepsInv DEF BeginPutMany
    <3>2. ASSUME NEW batch \in Batches, NEW replace \in BOOLEAN, BeginImport(ctx, batch, replace)
          PROVE  IInv'
      BY <2>1, <3>2, DecisionTypes, BeginBatchKeepsInv DEF BeginImport
    <3> QED BY <2>4, <3>1, <3>2 DEF BatchStep
  <2>5. CASE PolicyStep(ctx)
    BY <2>1, <2>5, PolicyStepKeepsInv
  <2> QED BY <1>2, <2>2, <2>3, <2>4, <2>5
<1>3. CASE PutNext
  BY <1>3, PutNextKeepsInv
<1>4. CASE LinkNext
  BY <1>4, LinkNextKeepsInv
<1>5. CASE CommitBatch
  BY <1>5, CommitBatchKeepsInv
<1>6. CASE Rollback
  BY <1>6, RollbackKeepsInv
<1> QED BY <1>1, <1>2, <1>3, <1>4, <1>5, <1>6 DEF Next

(* The inductive invariant holds of every state the store can reach.        *)
THEOREM StoreInvariant == Spec => []IInv
BY InitInv, NextKeepsInv, PTL DEF Spec

(* The variables of the store keep their types.                             *)
THEOREM TypeCorrect == Spec => []TypeOK
<1>1. IInv => TypeOK
  BY DEF IInv
<1> QED BY <1>1, StoreInvariant, PTL

(* Redaction is one way: while an id has a tombstone its row shows nothing, *)
(* whatever batches, imports and replacements were committed since.         *)
THEOREM TombstonesStaySealed == Spec => []TombstonesSealed
<1>1. IInv => TombstonesSealed
  BY DEF IInv, TablesInv, TombstonesSealed
<1> QED BY <1>1, StoreInvariant, PTL

(* An operation namespace answers to at most one memory, so a replay cannot *)
(* be answered with one memory and stored as another.                       *)
THEOREM OperationsOwnedOnce == Spec => []OperationOwnedOnce
<1>1. IInv => OperationOwnedOnce
  BY DEF IInv, TablesInv, OperationOwnedOnce
<1> QED BY <1>1, StoreInvariant, PTL

(* The full-text index holds each row's current text and nothing else.      *)
THEOREM SearchIsExact == Spec => []SearchMatchesRows
<1>1. IInv => SearchMatchesRows
  BY DEF IInv, TablesInv, SearchMatchesRows
<1> QED BY <1>1, StoreInvariant, PTL

(* The tables never refuse the row change_ring writes back.                 *)
THEOREM RingChangesAccepted == Spec => []RingChangeAccepted
<1>1. IInv => RingChangeAccepted
  BY ReringedAccepted DEF RingChangeAccepted
<1> QED BY <1>1, StoreInvariant, PTL

----
(***************************************************************************)
(* The open transaction.  What its commit will publish depends on what the *)
(* steps of the batch have done since it began; nobody else can change the *)
(* policy or the committed tables meanwhile.                               *)
(***************************************************************************)

GrowthInv == txn # NoTxn => Grown(db, txn.work)

\* The decision a batch began with still holds: its capability is the one in
\* force, or each of its events may be created without one.
OwnCreates(batch, ctx) ==
  \A k \in DOMAIN batch : /\ UnprivilegedCreateAllowed(ctx, batch[k].row)
                          /\ batch[k].id \notin Present(db)
                          /\ \A j \in 1 .. k - 1 : batch[j].id # batch[k].id

\* Tables e are tables d and some of the first n events of the batch.
CreatedFrom(d, e, batch, n) ==
  /\ e.claims = d.claims
  /\ e.tombs = d.tombs
  /\ \A i \in Ids : \/ e.rows[i] = d.rows[i]
                    \/ \E k \in 1 .. n : batch[k].id = i /\ e.rows[i] = batch[k].row

AuthorityInv ==
  txn # NoTxn /\ policy.mode = "coordinated" =>
    \/ txn.decision = "allowed" /\ txn.by.cap = policy.cap
    \/ /\ txn.decision = "none"
       /\ ~txn.import
       /\ OwnCreates(txn.batch, txn.by)
       /\ CreatedFrom(db, txn.work, txn.batch, txn.put)

\* What an import has stored so far, and what it has marked as superseded.
StoredSoFar(k) ==
  LET e == txn.batch[k]
  IN  (~\E j \in k + 1 .. txn.put : txn.batch[j].id = e.id /\ ~Skipped(j))
        => txn.work.rows[e.id] = [e.row EXCEPT !.supersededBy = txn.work.rows[e.id].supersededBy]

MarkedSoFar(k) ==
  \A old \in txn.batch[k].row.supersedes \cap Present(txn.work) :
    txn.work.rows[old].supersededBy # NoId

ImportInv ==
  txn # NoTxn =>
    /\ txn.put <= Len(txn.batch)
    /\ txn.linked = 0 \/ txn.put = Len(txn.batch)
    /\ \A k \in 1 .. txn.put : ~Skipped(k) => StoredSoFar(k)
    /\ \A k \in 1 .. txn.linked : ~Skipped(k) => MarkedSoFar(k)

TxnInv == GrowthInv /\ AuthorityInv /\ ImportInv

(* A transaction begins on the committed tables, with a decision that its   *)
(* batch earned.                                                            *)
LEMMA BeginKeepsTxnInv ==
  ASSUME IInv, NEW ctx \in Contexts, NEW batch \in Batches, NEW replace \in BOOLEAN,
         BeginPutMany(ctx, batch) \/ BeginImport(ctx, batch, replace)
  PROVE  TxnInv'
<1>1. CASE Deny(ctx)
  BY <1>1 DEF Deny, BeginPutMany, BeginImport, BeginBatch, CanBegin, TxnInv, GrowthInv,
              AuthorityInv, ImportInv
<1>2. CASE ~Deny(ctx)
  <2>1. PICK decision \in Decisions, import \in BOOLEAN, all \in BOOLEAN :
          /\ decision # "denied"
          /\ Open(ctx, decision, batch, import, all)
          /\ decision = (IF import THEN CoordinatorDecision(ctx) ELSE CreatesDecision(ctx, batch))
    BY <1>2, DecisionTypes DEF BeginPutMany, BeginImport, BeginBatch
  <2>2. /\ UNCHANGED <<db, policy>>
        /\ txn' = [by |-> ctx, decision |-> decision, work |-> db, batch |-> batch,
                   import |-> import, replace |-> all, put |-> 0, linked |-> 0]
    BY <2>1 DEF Open
  <2>3. GrowthInv'
    BY <2>2, GrownItself DEF GrowthInv, IInv, TypeOK, Grown, Present, BoundTo, Holders
  <2>4. AuthorityInv'
    <3> SUFFICES ASSUME policy.mode = "coordinated"
                 PROVE  \/ decision = "allowed" /\ ctx.cap = policy.cap
                        \/ /\ decision = "none"
                           /\ ~import
                           /\ OwnCreates(batch, ctx)
                           /\ CreatedFrom(db, db, batch, 0)
      BY <2>2 DEF AuthorityInv, OwnCreates, CreatedFrom, UnprivilegedCreateAllowed, Present
    <3>1. CreatedFrom(db, db, batch, 0)
      BY DEF CreatedFrom
    <3>2. CASE decision = CapabilityDecision(ctx)
      BY <2>1, <3>2 DEF CapabilityDecision
    <3>3. CASE decision # CapabilityDecision(ctx)
      <4>1. ~import /\ decision = "none"
        BY <2>1, <3>3 DEF CoordinatorDecision, CreatesDecision
      <4>2. OwnCreates(batch, ctx)
        BY <2>1, <3>3, <4>1 DEF CreatesDecision, OwnCreates
      <4> QED BY <3>1, <4>1, <4>2
    <3> QED BY <3>2, <3>3
  <2>5. ImportInv'
    <3>1. batch \in Seq(Events)
      BY RequestsAssumption
    <3>2. Len(batch) \in Nat
      BY <3>1
    <3> QED BY <2>2, <3>2 DEF ImportInv
  <2> QED BY <2>3, <2>4, <2>5 DEF TxnInv
<1> QED BY <1>1, <1>2

(* Writing the next event of a batch: the event is stored, the tables grow, *)
(* and a batch that began without a capability only creates its actor's     *)
(* own memories.                                                            *)
LEMMA PutNextKeepsTxnInv ==
  ASSUME IInv, TxnInv, PutNext
  PROVE  TxnInv'
<1> DEFINE k == txn.put + 1
           e == txn.batch[k]
<1>1. /\ txn \in Txns /\ txn # NoTxn
      /\ txn.work \in Tables /\ TablesInv(txn.work)
      /\ txn.put \in Nat /\ txn.linked \in Nat
      /\ txn.batch \in Seq(Events) /\ txn.put < Len(txn.batch) /\ Len(txn.batch) \in Nat
      /\ db \in Tables
  BY DEF IInv, TypeOK, PutNext, Txns
<1>2. k \in Nat /\ k \in DOMAIN txn.batch
  BY <1>1
<1>3. e \in Events
  BY <1>1, <1>2
<1>4. e.id \in Ids /\ e.row \in Row
  BY <1>3, RequestsAssumption DEF Event
<1>5. UNCHANGED <<db, policy>>
  BY DEF PutNext
<1>6. \/ Skipped(k) /\ txn' = [txn EXCEPT !.put = k]
      \/ /\ ~Skipped(k)
         /\ CanPut(txn.work, e.id, e.row)
         /\ txn' = [txn EXCEPT !.put = k, !.work = Put(txn.work, e.id, e.row)]
  BY DEF PutNext
<1>7. /\ txn'.by = txn.by /\ txn'.decision = txn.decision /\ txn'.batch = txn.batch
      /\ txn'.import = txn.import /\ txn'.replace = txn.replace
      /\ txn'.put = k /\ txn'.linked = txn.linked
      /\ \/ Skipped(k) /\ txn'.work = txn.work
         \/ ~Skipped(k) /\ CanPut(txn.work, e.id, e.row) /\ txn'.work = Put(txn.work, e.id, e.row)
  BY <1>1, <1>6 DEF Txns
<1>8. \A j : Skipped(j)' <=> Skipped(j)
  BY <1>5, <1>7 DEF Skipped, Present
<1> DEFINE work == txn.work
           new == Put(work, e.id, e.row)
<1> HIDE DEF e
<1>9. /\ Put(work, e.id, e.row) \in Tables
      /\ Put(work, e.id, e.row).rows = [work.rows EXCEPT ![e.id] = e.row]
      /\ Put(work, e.id, e.row).fts = [work.fts EXCEPT ![e.id] = <<e.row.text>>]
      /\ Put(work, e.id, e.row).claims = PreserveClaims(work, {e.id}, e.row.op)
      /\ Put(work, e.id, e.row).tombs = work.tombs
  <2> DEFINE i == e.id
             r == e.row
  <2> HIDE DEF i, r, work
  <2>1. i \in Ids /\ r \in Row /\ work \in Tables
    BY <1>1, <1>4 DEF i, r, work
  <2>2. /\ Put(work, i, r) \in Tables
        /\ Put(work, i, r).rows = [work.rows EXCEPT ![i] = r]
        /\ Put(work, i, r).fts = [work.fts EXCEPT ![i] = <<r.text>>]
        /\ Put(work, i, r).claims = PreserveClaims(work, {i}, r.op)
        /\ Put(work, i, r).tombs = work.tombs
    BY <2>1, PutFields
  <2> QED BY <2>2 DEF i, r
<1> HIDE DEF new, work
<1>10. GrowthInv'
  <2>1. Grown(db, txn.work)
    BY <1>1 DEF TxnInv, GrowthInv
  <2>2. Grown(db, txn'.work)
    <3>1. CASE txn'.work = txn.work
      BY <2>1, <3>1
    <3>2. CASE CanPut(txn.work, e.id, e.row) /\ txn'.work = Put(txn.work, e.id, e.row)
      BY <1>1, <1>4, <2>1, <3>2, PutGrows
    <3> QED BY <1>7, <3>1, <3>2
  <2> QED BY <1>5, <2>2 DEF GrowthInv, Grown, Present, BoundTo, Holders
<1>11. AuthorityInv'
  <2> SUFFICES ASSUME policy.mode = "coordinated", txn.decision = "none", ~txn.import,
                      OwnCreates(txn.batch, txn.by),
                      CreatedFrom(db, txn.work, txn.batch, txn.put)
               PROVE  CreatedFrom(db, txn'.work, txn.batch, k)
    BY <1>1, <1>5, <1>7 DEF TxnInv, AuthorityInv, OwnCreates, CreatedFrom,
                            UnprivilegedCreateAllowed, Present
  <2>1. CASE txn'.work = txn.work
    BY <1>1, <2>1 DEF CreatedFrom
  <2>2. CASE txn'.work = Put(txn.work, e.id, e.row)
    <3>1. e.id \notin Present(txn.work)
      <4> SUFFICES ASSUME e.id \in Present(txn.work) PROVE FALSE
        OBVIOUS
      <4>1. e.id \notin Present(db) /\ \A j \in 1 .. txn.put : txn.batch[j].id # e.id
        BY <1>1, <1>2 DEF OwnCreates, e
      <4>2. txn.work.rows[e.id] # db.rows[e.id]
        BY <4>1 DEF Present
      <4> QED BY <1>4, <4>1, <4>2 DEF CreatedFrom
    <3>2. \A o \in Ops : txn'.work.claims[o] = txn.work.claims[o]
      <4> TAKE o \in Ops
      <4> DEFINE S == {e.id}
                 op == e.row.op
      <4>1. /\ op \in Ops \cup {NoOp} /\ S \in SUBSET Ids /\ Holders(work, o) \cap S = {}
            /\ txn'.work.claims = PreserveClaims(work, S, op)
            /\ work \in Tables
        BY <1>1, <1>4, <1>9, <2>2, <3>1 DEF Row, Holders, work
      <4> HIDE DEF S, op
      <4>2. \/ /\ o # op
               /\ work.claims[o] = NoId
               /\ PreserveClaims(work, S, op)[o] \in Holders(work, o) \cap S
            \/ /\ o = op \/ work.claims[o] # NoId \/ Holders(work, o) \cap S = {}
               /\ PreserveClaims(work, S, op)[o] = work.claims[o]
        BY <4>1, PreserveClaimsValue
      <4> QED BY <4>1, <4>2 DEF work
    <3>3. txn'.work.claims = db.claims
      <4>1. txn'.work \in Tables /\ txn.work.claims = db.claims
        BY <1>9, <2>2 DEF CreatedFrom, work
      <4> QED BY <1>1, <3>2, <4>1 DEF Tables
    <3>4. ASSUME NEW i \in Ids
          PROVE  \/ txn'.work.rows[i] = db.rows[i]
                 \/ \E j \in 1 .. k : txn.batch[j].id = i /\ txn'.work.rows[i] = txn.batch[j].row
      <4>1. CASE i = e.id
        <5>1. txn'.work.rows[i] = e.row
          BY <1>1, <1>9, <2>2, <4>1 DEF Tables, work
        <5> QED BY <1>1, <1>2, <4>1, <5>1 DEF e
      <4>2. CASE i # e.id
        <5>1. txn'.work.rows[i] = txn.work.rows[i]
          BY <1>1, <1>9, <2>2, <4>2 DEF Tables, work
        <5> QED BY <1>1, <5>1 DEF CreatedFrom
      <4> QED BY <4>1, <4>2
    <3>5. txn'.work.tombs = db.tombs
      BY <1>9, <2>2 DEF CreatedFrom, work
    <3> QED BY <3>3, <3>4, <3>5 DEF CreatedFrom
  <2> QED BY <1>7, <2>1, <2>2
<1>12. ImportInv'
  <2>1. txn'.put <= Len(txn'.batch) /\ txn'.linked = 0
    BY <1>1, <1>7 DEF TxnInv, ImportInv
  <2>2. ASSUME NEW j \in 1 .. k, ~Skipped(j)
        PROVE  (~\E n \in j + 1 .. k : txn.batch[n].id = txn.batch[j].id /\ ~Skipped(n))
                 => txn'.work.rows[txn.batch[j].id]
                      = [txn.batch[j].row EXCEPT !.supersededBy = txn'.work.rows[txn.batch[j].id].supersededBy]
    <3> SUFFICES ASSUME ~\E n \in j + 1 .. k : txn.batch[n].id = txn.batch[j].id /\ ~Skipped(n)
                 PROVE  txn'.work.rows[txn.batch[j].id]
                          = [txn.batch[j].row EXCEPT !.supersededBy = txn'.work.rows[txn.batch[j].id].supersededBy]
      OBVIOUS
    <3>1. CASE j = k
      <4>1. txn'.work.rows[e.id] = e.row
        BY <1>1, <1>4, <1>7, <1>9, <2>2, <3>1 DEF Tables, work
      <4>2. [e.row EXCEPT !.supersededBy = e.row.supersededBy] = e.row
        BY <1>4 DEF Row
      <4> QED BY <3>1, <4>1, <4>2 DEF e
    <3>2. CASE j # k
      <4>1. j \in 1 .. txn.put
        BY <1>1, <3>2
      <4>2. ~\E n \in j + 1 .. txn.put : txn.batch[n].id = txn.batch[j].id /\ ~Skipped(n)
        BY <1>1
      <4>3. txn.work.rows[txn.batch[j].id]
              = [txn.batch[j].row EXCEPT !.supersededBy = txn.work.rows[txn.batch[j].id].supersededBy]
        BY <1>1, <2>2, <4>1, <4>2 DEF TxnInv, ImportInv, StoredSoFar
      <4>4. txn'.work.rows[txn.batch[j].id] = txn.work.rows[txn.batch[j].id]
        <5>1. CASE Skipped(k)
          BY <1>7, <5>1
        <5>2. CASE ~Skipped(k)
          <6>1. k \in j + 1 .. k
            BY <1>1, <3>2
          <6>2. txn.batch[j].id # e.id
            BY <5>2, <6>1 DEF e
          <6>3. txn'.work.rows = [work.rows EXCEPT ![e.id] = e.row] /\ work.rows = txn.work.rows
            BY <1>7, <1>9, <5>2 DEF work
          <6>4. j \in DOMAIN txn.batch
            BY <1>1, <4>1
          <6>5. txn.batch[j].id \in Ids
            BY <1>1, <6>4, RequestsAssumption DEF Event
          <6> QED BY <1>1, <6>2, <6>3, <6>5 DEF Tables
        <5> QED BY <5>1, <5>2
      <4> QED BY <4>3, <4>4
    <3> QED BY <3>1, <3>2
  <2>3. \A j \in 1 .. txn'.put : ~Skipped(j)' => StoredSoFar(j)'
    BY <1>7, <1>8, <2>2 DEF StoredSoFar
  <2> QED BY <2>1, <2>3 DEF ImportInv
<1> QED BY <1>10, <1>11, <1>12 DEF TxnInv

(* Marking what an import supersedes: a row keeps everything else, and no   *)
(* mark is taken back.                                                      *)
LEMMA LinkNextKeepsTxnInv ==
  ASSUME IInv, TxnInv, LinkNext
  PROVE  TxnInv'
<1> DEFINE k == txn.linked + 1
           e == txn.batch[k]
           S == IF Skipped(k) THEN {} ELSE e.row.supersedes
           work == txn.work
<1>1. /\ txn \in Txns /\ txn # NoTxn
      /\ txn.work \in Tables /\ TablesInv(txn.work)
      /\ txn.put \in Nat /\ txn.linked \in Nat /\ txn.put = Len(txn.batch)
      /\ txn.batch \in Seq(Events) /\ txn.linked < Len(txn.batch) /\ Len(txn.batch) \in Nat
      /\ txn.import
  BY DEF IInv, TypeOK, LinkNext, Txns
<1>2. k \in Nat /\ k \in DOMAIN txn.batch
  BY <1>1
<1>3. e \in Events
  BY <1>1, <1>2
<1>4. e.id \in Ids /\ e.row.supersedes \in SUBSET Ids
  BY <1>3, RequestsAssumption DEF Event, Row
<1>5. UNCHANGED <<db, policy>>
  BY DEF LinkNext
<1>6. txn' = [txn EXCEPT !.linked = k,
                         !.work = IF Skipped(k) THEN work ELSE SupersedeAll(work, e.row.supersedes, e.id)]
  BY <1>1 DEF LinkNext, Txns
<1>7. /\ txn'.by = txn.by /\ txn'.decision = txn.decision /\ txn'.batch = txn.batch
      /\ txn'.import = txn.import /\ txn'.replace = txn.replace
      /\ txn'.put = txn.put /\ txn'.linked = k
      /\ txn'.work = IF Skipped(k) THEN work ELSE SupersedeAll(work, e.row.supersedes, e.id)
  BY <1>1, <1>6 DEF Txns
<1>8. \A j : Skipped(j)' <=> Skipped(j)
  BY <1>5, <1>7 DEF Skipped, Present
<1> DEFINE list == e.row.supersedes
           i == e.id
<1> HIDE DEF e, work, list, i
<1>9. /\ SupersedeAll(work, list, i) \in Tables
      /\ Present(SupersedeAll(work, list, i)) = Present(work)
      /\ \A o \in Ops : Holders(SupersedeAll(work, list, i), o) = Holders(work, o)
      /\ \A j \in Ids : SupersedeAll(work, list, i).rows[j]
           = IF j \in list \cap Present(work) THEN [work.rows[j] EXCEPT !.supersededBy = i] ELSE work.rows[j]
      /\ TablesInv(work) => TablesInv(SupersedeAll(work, list, i))
  BY <1>1, <1>4, SupersedeKeepsTables DEF work, list, i
<1>10. /\ Present(txn'.work) = Present(work)
       /\ \A j \in Ids : txn'.work.rows[j] = IF ~Skipped(k) /\ j \in list \cap Present(work)
                                             THEN [work.rows[j] EXCEPT !.supersededBy = i]
                                             ELSE work.rows[j]
  BY <1>7, <1>9 DEF list, i
<1>11. GrowthInv'
  <2>1. Grown(db, work)
    BY <1>1 DEF TxnInv, GrowthInv, work
  <2>2. Grown(db, SupersedeAll(work, list, i))
    BY <1>1, <1>4, <2>1, SupersedeGrows DEF IInv, TypeOK, work, list, i
  <2>3. Grown(db, txn'.work)
    BY <1>7, <2>1, <2>2 DEF list, i
  <2> QED BY <1>5, <2>3 DEF GrowthInv, Grown, Present, BoundTo, Holders
<1>12. AuthorityInv'
  BY <1>1, <1>5, <1>7 DEF TxnInv, AuthorityInv
<1>13. ImportInv'
  <2>1. ASSUME NEW j \in 1 .. txn.put, ~Skipped(j),
               ~\E n \in j + 1 .. txn.put : txn.batch[n].id = txn.batch[j].id /\ ~Skipped(n)
        PROVE  txn'.work.rows[txn.batch[j].id]
                 = [txn.batch[j].row EXCEPT !.supersededBy = txn'.work.rows[txn.batch[j].id].supersededBy]
    <3>1. work.rows[txn.batch[j].id]
            = [txn.batch[j].row EXCEPT !.supersededBy = work.rows[txn.batch[j].id].supersededBy]
      BY <1>1, <2>1 DEF TxnInv, ImportInv, StoredSoFar, work
    <3>2. txn.batch[j].id \in Ids /\ txn.batch[j].row \in Row
      <4>1. txn.batch[j] \in Events
        BY <1>1
      <4> QED BY <4>1, RequestsAssumption DEF Event
    <3> DEFINE r == txn.batch[j].row
               x == txn.batch[j].id
    <3> HIDE DEF r, x
    <3>3. r \in Row /\ x \in Ids /\ work.rows[x] = [r EXCEPT !.supersededBy = work.rows[x].supersededBy]
      BY <3>1, <3>2 DEF r, x
    <3>4. txn'.work.rows[x] = [r EXCEPT !.supersededBy = txn'.work.rows[x].supersededBy]
      BY <1>10, <3>3 DEF Row
    <3> QED BY <3>4 DEF r, x
  <2>2. ASSUME NEW j \in 1 .. k, ~Skipped(j), NEW old \in txn.batch[j].row.supersedes \cap Present(txn'.work)
        PROVE  txn'.work.rows[old].supersededBy # NoId
    <3>1. old \in Present(work) /\ old \in Ids /\ work.rows[old] \in Row
      BY <1>1, <1>10, PresentRow DEF work
    <3>2. [work.rows[old] EXCEPT !.supersededBy = i].supersededBy = i /\ i # NoId
      BY <1>4, <3>1, NullsAssumption DEF Row, i
    <3>3. CASE j = k
      BY <1>10, <2>2, <3>1, <3>2, <3>3 DEF list, e
    <3>4. CASE j # k
      <4>1. j \in 1 .. txn.linked
        BY <1>1, <3>4
      <4>2. work.rows[old].supersededBy # NoId
        BY <1>1, <2>2, <3>1, <4>1 DEF TxnInv, ImportInv, MarkedSoFar, work
      <4> QED BY <1>10, <3>1, <3>2, <4>2
    <3> QED BY <3>3, <3>4
  <2>3. \A j \in 1 .. txn'.put : ~Skipped(j)' => StoredSoFar(j)'
    BY <1>7, <1>8, <2>1 DEF StoredSoFar
  <2>4. \A j \in 1 .. txn'.linked : ~Skipped(j)' => MarkedSoFar(j)'
    BY <1>7, <1>8, <2>2 DEF MarkedSoFar, Present
  <2> QED BY <1>1, <1>7, <2>3, <2>4 DEF ImportInv
<1> QED BY <1>11, <1>12, <1>13 DEF TxnInv

(* Every step keeps what is known of the open transaction.                  *)
LEMMA NextKeepsTxnInv == IInv /\ TxnInv /\ [Next]_vars => TxnInv'
<1> SUFFICES ASSUME IInv, TxnInv, [Next]_vars PROVE TxnInv'
  OBVIOUS
<1>1. CASE UNCHANGED vars
  <2>1. db' = db /\ policy' = policy /\ txn' = txn
    BY <1>1 DEF vars
  <2>2. GrowthInv'
    BY <2>1 DEF TxnInv, GrowthInv, Grown, BoundTo, Holders, Present
  <2>3. AuthorityInv'
    BY <2>1 DEF TxnInv, AuthorityInv, OwnCreates, CreatedFrom, UnprivilegedCreateAllowed, Present
  <2>4. \A j : /\ Skipped(j)' <=> Skipped(j)
               /\ StoredSoFar(j)' <=> StoredSoFar(j)
               /\ MarkedSoFar(j)' <=> MarkedSoFar(j)
    BY <2>1 DEF Skipped, StoredSoFar, MarkedSoFar, Present
  <2>5. ImportInv'
    BY <2>1, <2>4 DEF TxnInv, ImportInv
  <2> QED
    BY <2>2, <2>3, <2>5 DEF TxnInv
<1>2. CASE txn' = NoTxn
  BY <1>2 DEF TxnInv, GrowthInv, AuthorityInv, ImportInv
<1>3. ASSUME NEW ctx \in KnownContexts,
             MemoryStep(ctx) \/ MaintainStep(ctx) \/ PolicyStep(ctx)
      PROVE  txn' = NoTxn
  <2>1. \A decision, ok, tables : CanBegin /\ Decide(ctx, decision, ok, tables) => txn' = NoTxn
    BY DEF CanBegin, Decide, Deny, Commit
  <2>2. MemoryStep(ctx) => txn' = NoTxn
    BY <2>1 DEF MemoryStep, PutEvent, PutIdempotent, SupersedeMemory, DeleteMemory, RedactMemory, ChangeRing
  <2>3. MaintainStep(ctx) => txn' = NoTxn
    BY <2>1 DEF MaintainStep, Maintain
  <2>4. PolicyStep(ctx) => txn' = NoTxn
    BY DEF PolicyStep, EnablePolicy, RotateCapability, DisablePolicy, Deny, CanBegin
  <2> QED BY <1>3, <2>2, <2>3, <2>4
<1>4. ASSUME NEW ctx \in KnownContexts, BatchStep(ctx) PROVE TxnInv'
  <2>1. ctx \in Contexts
    BY DEF KnownContexts, Contexts, IInv, TypeOK
  <2>2. PICK batch \in Batches, replace \in BOOLEAN :
          BeginPutMany(ctx, batch) \/ BeginImport(ctx, batch, replace)
    BY <1>4 DEF BatchStep
  <2> QED BY <2>1, <2>2, BeginKeepsTxnInv
<1>5. CASE PutNext
  BY <1>5, PutNextKeepsTxnInv
<1>6. CASE LinkNext
  BY <1>6, LinkNextKeepsTxnInv
<1>7. CASE CommitBatch \/ Rollback
  BY <1>2, <1>7 DEF CommitBatch, Rollback
<1> QED BY <1>1, <1>2, <1>3, <1>4, <1>5, <1>6, <1>7 DEF Next

(* What is known of the open transaction holds whenever one is open.        *)
THEOREM TxnInvariant == Spec => []TxnInv
<1>1. Init => TxnInv
  BY DEF Init, TxnInv, GrowthInv, AuthorityInv, ImportInv
<1> QED BY <1>1, NextKeepsTxnInv, StoreInvariant, PTL DEF Spec

(* An import that commits has stored each event it did not skip, and marked *)
(* whatever such an event supersedes.                                       *)
THEOREM ImportsAreWhole == Spec => ImportWhole
<1>1. ASSUME IInv, TxnInv, CommitBatch, txn.import, NEW k \in DOMAIN txn.batch, ~Skipped(k)
      PROVE  Stored(k)
  <2>1. /\ txn \in Txns /\ txn # NoTxn /\ txn.batch \in Seq(Events) /\ Len(txn.batch) \in Nat
        /\ txn.put = Len(txn.batch) /\ txn.linked = Len(txn.batch)
        /\ db' = txn.work
    BY <1>1 DEF IInv, TypeOK, CommitBatch, Txns
  <2>2. k \in 1 .. txn.put /\ k \in 1 .. txn.linked
    BY <2>1
  <2>3. StoredSoFar(k) /\ MarkedSoFar(k)
    BY <1>1, <2>1, <2>2 DEF TxnInv, ImportInv
  <2> QED BY <2>1, <2>3 DEF StoredSoFar, MarkedSoFar, Stored
<1>2. ASSUME IInv, TxnInv, [Next]_vars
      PROVE  [CommitBatch /\ txn.import => \A k \in DOMAIN txn.batch : ~Skipped(k) => Stored(k)]_vars
  BY <1>1, <1>2
<1> QED BY <1>2, StoreInvariant, TxnInvariant, PTL DEF Spec, ImportWhole

----
(***************************************************************************)
(* Coordinated mode.                                                       *)
(***************************************************************************)

Authorized == log'.decision = "allowed" /\ log'.by.cap = policy.cap

(* What asks for the coordinator is denied, or done by the capability in    *)
(* force.                                                                   *)
LEMMA CoordinatorDecides ==
  ASSUME policy.mode = "coordinated", NEW ctx \in Contexts, NEW ok, NEW tables,
         Decide(ctx, CoordinatorDecision(ctx), ok, tables)
  PROVE  UNCHANGED <<db, policy>> \/ Authorized
BY DEF Decide, Deny, Commit, CoordinatorDecision, CapabilityDecision, Authorized

(* An unauthorized write of one event creates a memory of the actor's own.  *)
LEMMA CreateIsProtected ==
  ASSUME IInv, policy.mode = "coordinated", NEW ctx \in Contexts, NEW e \in Events,
         PutEvent(ctx, e), ProtectedChange
  PROVE  Authorized
<1> DEFINE i == e.id
           r == e.row
<1>1. i \in Ids /\ r \in Row /\ db \in Tables
  BY RequestsAssumption DEF Event, IInv, TypeOK
<1>2. CASE Deny(ctx)
  BY <1>2 DEF Deny, ProtectedChange
<1>3. CASE Commit(ctx, CapabilityDecision(ctx), Put(db, i, r)) /\ CapabilityDecision(ctx) # "denied"
  BY <1>3 DEF Commit, CapabilityDecision, Authorized
<1>4. CASE /\ Commit(ctx, "none", Put(db, i, r))
           /\ i \notin Present(db) /\ UnprivilegedCreateAllowed(ctx, r)
  <2>1. db' = Put(db, i, r) /\ log'.by = ctx /\ policy' = policy
    BY <1>4 DEF Commit
  <2> HIDE DEF i, r
  <2>2. /\ Put(db, i, r) \in Tables
        /\ Put(db, i, r).rows = [db.rows EXCEPT ![i] = r]
        /\ Put(db, i, r).fts = [db.fts EXCEPT ![i] = <<r.text>>]
        /\ Put(db, i, r).claims = PreserveClaims(db, {i}, r.op)
        /\ Put(db, i, r).tombs = db.tombs
    BY <1>1, PutFields
  <2>3. \A o \in Ops : PreserveClaims(db, {i}, r.op)[o] = db.claims[o]
    <3> TAKE o \in Ops
    <3> DEFINE S == {i}
               op == r.op
    <3>1. op \in Ops \cup {NoOp} /\ S \in SUBSET Ids /\ Holders(db, o) \cap S = {}
      BY <1>1, <1>4 DEF Row, Holders
    <3> HIDE DEF S, op
    <3>2. \/ /\ o # op
             /\ db.claims[o] = NoId
             /\ PreserveClaims(db, S, op)[o] \in Holders(db, o) \cap S
          \/ /\ o = op \/ db.claims[o] # NoId \/ Holders(db, o) \cap S = {}
             /\ PreserveClaims(db, S, op)[o] = db.claims[o]
      BY <1>1, <3>1, PreserveClaimsValue
    <3>3. PreserveClaims(db, S, op)[o] = db.claims[o]
      BY <3>1, <3>2
    <3> QED BY <3>3 DEF S, op
  <2>4. db'.claims = db.claims
    <3>1. \A o \in Ops : db'.claims[o] = db.claims[o]
      BY <2>1, <2>2, <2>3
    <3>2. db \in Tables /\ db' \in Tables
      BY <1>1, <2>1, <2>2
    <3>3. db.claims \in [Ops -> Ids \cup {NoId}] /\ db'.claims \in [Ops -> Ids \cup {NoId}]
      BY <3>2 DEF Tables
    <3> QED BY <3>1, <3>3
  <2>5. /\ \A j \in Ids : j # i => db'.rows[j] = db.rows[j]
        /\ db'.rows[i] = r
    BY <1>1, <2>1, <2>2 DEF Tables
  <2>6. ~ProtectedChange
    BY <1>4, <2>1, <2>2, <2>4, <2>5 DEF ProtectedChange, UnprivilegedCreateAllowed
  <2> QED BY <2>6
<1>5. \/ Deny(ctx)
      \/ Commit(ctx, CapabilityDecision(ctx), Put(db, i, r)) /\ CapabilityDecision(ctx) # "denied"
      \/ /\ Commit(ctx, "none", Put(db, i, r))
         /\ i \notin Present(db) /\ UnprivilegedCreateAllowed(ctx, r)
  <2>1. \/ CreatesDecision(ctx, <<e>>) = CapabilityDecision(ctx)
        \/ /\ CreatesDecision(ctx, <<e>>) = "none"
           /\ i \notin Present(db) /\ UnprivilegedCreateAllowed(ctx, r)
    <3>1. <<e>>[1] = e /\ 1 \in DOMAIN <<e>>
      OBVIOUS
    <3> QED BY <3>1 DEF CreatesDecision
  <2> QED BY <2>1 DEF PutEvent, Decide
<1> QED BY <1>2, <1>3, <1>4, <1>5

(* A maintenance pass that changes anything is the coordinator's.           *)
LEMMA MaintainIsProtected ==
  ASSUME IInv, policy.mode = "coordinated", NEW ctx \in Contexts,
         NEW redactions \in SUBSET Ids, NEW deletions \in SUBSET Ids, NEW repair \in BOOLEAN,
         Maintain(ctx, redactions, deletions, repair)
  PROVE  UNCHANGED <<db, policy>> \/ Authorized
<1> DEFINE pruned == Delete(Redact(db, redactions), deletions)
           result == IF repair THEN RebuildFts(pruned) ELSE pruned
<1>1. CASE repair \/ redactions # {} \/ deletions # {}
  <2>1. Decide(ctx, CoordinatorDecision(ctx), TRUE, result)
    BY <1>1 DEF Maintain
  <2> HIDE DEF result
  <2> QED BY <2>1, CoordinatorDecides
<1>2. CASE ~(repair \/ redactions # {} \/ deletions # {})
  <2>1. Decide(ctx, "none", TRUE, Delete(Redact(db, {}), {}))
    BY <1>2 DEF Maintain
  <2>2. Delete(Redact(db, {}), {}) = db
    <3>1. db \in Tables /\ SearchMatchesRowsIn(db)
      BY DEF IInv, TypeOK, TablesInv
    <3>2. RebuildFts(db) = db /\ Redact(db, {}) = db /\ Delete(db, {}) = db
      BY <3>1, NothingToDo
    <3> QED BY <3>2
  <2> QED BY <2>1, <2>2 DEF Decide, Deny, Commit
<1> QED BY <1>1, <1>2

(* What a batch publishes is its actor's own new memories, or the           *)
(* coordinator's: neither the policy nor the store changed since it asked.  *)
LEMMA CommitIsProtected ==
  ASSUME IInv, TxnInv, policy.mode = "coordinated", CommitBatch, ProtectedChange
  PROVE  Authorized
<1>1. /\ db' = txn.work /\ txn # NoTxn /\ policy' = policy
      /\ log' = [by |-> txn.by, decision |-> txn.decision]
      /\ txn.batch \in Seq(Events) /\ txn.put = Len(txn.batch)
      /\ txn.put \in Nat
  BY DEF CommitBatch, IInv, TypeOK, Txns
<1>2. CASE txn.decision = "allowed" /\ txn.by.cap = policy.cap
  BY <1>1, <1>2 DEF Authorized
<1>3. CASE OwnCreates(txn.batch, txn.by) /\ CreatedFrom(db, txn.work, txn.batch, txn.put)
  <2>1. ASSUME NEW i \in Ids, db'.rows[i] # db.rows[i]
        PROVE  /\ i \notin Present(db)
               /\ db'.rows[i].owner = txn.by.actor
               /\ db'.rows[i].owner # Shared
               /\ db'.rows[i].ring # "heartwood"
    <3>1. PICK k \in 1 .. txn.put : txn.batch[k].id = i /\ db'.rows[i] = txn.batch[k].row
      BY <1>1, <1>3, <2>1 DEF CreatedFrom
    <3>2. k \in DOMAIN txn.batch
      BY <1>1
    <3> QED BY <1>3, <3>1, <3>2 DEF OwnCreates, UnprivilegedCreateAllowed
  <2>2. db'.tombs = db.tombs /\ db'.claims = db.claims
    BY <1>1, <1>3 DEF CreatedFrom
  <2> QED BY <1>1, <2>1, <2>2 DEF ProtectedChange
<1> QED BY <1>1, <1>2, <1>3 DEF TxnInv, AuthorityInv

(* In Coordinated mode no interleaving of batches and policy changes lets a *)
(* context without the capability in force change what is protected.        *)
THEOREM CoordinatorAlone == Spec => CoordinatorOnly
<1>1. ASSUME IInv, TxnInv, Next, policy.mode = "coordinated", ProtectedChange
      PROVE  Authorized
  <2>1. ASSUME UNCHANGED <<db, policy>> PROVE FALSE
    BY <1>1, <2>1 DEF ProtectedChange
  <2>2. CASE PutNext \/ LinkNext \/ Rollback
    BY <2>1, <2>2 DEF PutNext, LinkNext, Rollback
  <2>3. CASE CommitBatch
    BY <1>1, <2>3, CommitIsProtected
  <2>4. ASSUME NEW ctx \in KnownContexts,
               MemoryStep(ctx) \/ MaintainStep(ctx) \/ BatchStep(ctx) \/ PolicyStep(ctx)
        PROVE  Authorized
    <3>1. ctx \in Contexts
      BY <1>1 DEF KnownContexts, Contexts, IInv, TypeOK
    <3>2. CASE MemoryStep(ctx)
      <4>1. ASSUME NEW e \in Events, PutEvent(ctx, e) \/ PutIdempotent(ctx, e) PROVE Authorized
        BY <1>1, <3>1, <4>1, CreateIsProtected DEF PutIdempotent
      <4>2. ASSUME NEW old \in Ids, NEW new \in Ids, SupersedeMemory(ctx, old, new) PROVE Authorized
        BY <1>1, <2>1, <3>1, <4>2, CoordinatorDecides DEF SupersedeMemory
      <4>3. ASSUME NEW i \in Ids, DeleteMemory(ctx, i) PROVE Authorized
        BY <1>1, <2>1, <3>1, <4>3, CoordinatorDecides DEF DeleteMemory
      <4>4. ASSUME NEW i \in Ids, RedactMemory(ctx, i) PROVE Authorized
        BY <1>1, <2>1, <3>1, <4>4, CoordinatorDecides DEF RedactMemory
      <4>5. ASSUME NEW i \in Ids, NEW ring \in Rings, NEW kind \in Kinds, ChangeRing(ctx, i, ring, kind)
            PROVE  Authorized
        BY <1>1, <2>1, <3>1, <4>5, CoordinatorDecides DEF ChangeRing
      <4> QED BY <3>2, <4>1, <4>2, <4>3, <4>4, <4>5 DEF MemoryStep
    <3>3. CASE MaintainStep(ctx)
      <4>1. PICK redactions \in SUBSET SecretRows, deletions \in SUBSET DeletableWhenExpired,
                 repair \in BOOLEAN : Maintain(ctx, redactions, deletions, repair)
        BY <3>3 DEF MaintainStep
      <4>2. redactions \in SUBSET Ids /\ deletions \in SUBSET Ids
        BY DEF SecretRows, DeletableWhenExpired, Present
      <4> QED BY <1>1, <2>1, <3>1, <4>1, <4>2, MaintainIsProtected
    <3>4. CASE BatchStep(ctx)
      BY <2>1, <3>4 DEF BatchStep, BeginPutMany, BeginImport, BeginBatch, Deny, Open
    <3>5. CASE PolicyStep(ctx)
      BY <1>1, <2>1, <3>5
         DEF PolicyStep, EnablePolicy, RotateCapability, DisablePolicy, Deny, CoordinatorDecision,
             CapabilityDecision, Authorized
    <3> QED BY <2>4, <3>2, <3>3, <3>4, <3>5
  <2> QED BY <1>1, <2>2, <2>3, <2>4 DEF Next
<1>2. ASSUME IInv, TxnInv, [Next]_vars
      PROVE  [policy.mode = "coordinated" /\ ProtectedChange
                => log'.decision = "allowed" /\ log'.by.cap = policy.cap]_vars
  BY <1>1, <1>2 DEF Authorized
<1> QED BY <1>2, StoreInvariant, TxnInvariant, PTL DEF Spec, CoordinatorOnly

----
(***************************************************************************)
(* The promises of MemoryLifecycle.                                        *)
(***************************************************************************)

(* What search shows of an id is its row's text.                            *)
LEMMA FoundValue ==
  ASSUME NEW d \in Tables, SearchMatchesRowsIn(d), NEW i \in Ids
  PROVE  FoundIn(d)[i] = IF i \in Present(d) THEN {d.rows[i].text} ELSE {}
<1>1. FoundIn(d)[i] = {d.fts[i][n] : n \in DOMAIN d.fts[i]}
  BY DEF FoundIn
<1>2. CASE i \in Present(d)
  <2>1. d.fts[i] = <<d.rows[i].text>>
    BY <1>2 DEF SearchMatchesRowsIn, Present
  <2>2. DOMAIN <<d.rows[i].text>> = {1} /\ <<d.rows[i].text>>[1] = d.rows[i].text
    OBVIOUS
  <2> QED BY <1>1, <1>2, <2>1, <2>2
<1>3. CASE i \notin Present(d)
  <2>1. d.fts[i] = <<>>
    BY <1>3 DEF SearchMatchesRowsIn, Present
  <2>2. DOMAIN <<>> = {}
    OBVIOUS
  <2> QED BY <1>1, <1>3, <2>1, <2>2
<1> QED BY <1>2, <1>3

(* Tables that only grew are a Store of the lifecycle: it writes every      *)
(* memory that is there and not redacted.                                   *)
LEMMA GrowthStores ==
  ASSUME db \in Tables, TablesInv(db), db' \in Tables, TablesInv(db'), Grown(db, db')
  PROVE  Lifecycle!Store
<1> DEFINE W == Present(db') \ db'.tombs
           shown == [i \in W |-> db'.rows[i].text]
           fresh == {o \in Ops : Resolve(db, o) = NoId /\ Resolve(db', o) # NoId}
           to == [o \in Ops |-> IF o \in fresh THEN Resolve(db', o) ELSE NoId]
<1>1. /\ db'.tombs = db.tombs /\ Present(db) \subseteq Present(db')
      /\ db.tombs \subseteq Present(db) /\ Present(db') \subseteq Ids
      /\ \A i \in db.tombs : db.rows[i].text = Redacted /\ db'.rows[i].text = Redacted
  BY DEF Grown, TablesInv, TombstonesSealedIn, IsSanitizedRedaction, Present
<1>2. W \in SUBSET {i \in Ids : StateOf(db)[i] # "redacted"}
  BY <1>1 DEF StateOf
<1>3. StateOf(db') = [i \in Ids |-> IF i \in W THEN "live" ELSE StateOf(db)[i]]
  <2>1. ASSUME NEW i \in Ids PROVE StateOf(db')[i] = IF i \in W THEN "live" ELSE StateOf(db)[i]
    BY <1>1 DEF StateOf
  <2> QED BY <2>1 DEF StateOf
<1>4. shown \in [W -> Texts \cup {Redacted}]
  <2>1. ASSUME NEW i \in Present(db') PROVE db'.rows[i].text \in Texts \cup {Redacted}
    <3>1. db'.rows[i] \in Row
      BY PresentRow
    <3> QED BY <3>1 DEF Row
  <2> QED BY <2>1
<1>5. FoundIn(db') = [i \in Ids |-> IF i \in W THEN {shown[i]} ELSE FoundIn(db)[i]]
  <2>1. ASSUME NEW i \in Ids PROVE FoundIn(db')[i] = IF i \in W THEN {shown[i]} ELSE FoundIn(db)[i]
    <3>1. /\ FoundIn(db)[i] = IF i \in Present(db) THEN {db.rows[i].text} ELSE {}
          /\ FoundIn(db')[i] = IF i \in Present(db') THEN {db'.rows[i].text} ELSE {}
      BY FoundValue DEF TablesInv
    <3>2. CASE i \in W
      BY <3>1, <3>2
    <3>3. CASE i \in db.tombs
      BY <1>1, <3>1, <3>3
    <3>4. CASE i \notin Present(db')
      BY <1>1, <3>1, <3>4
    <3> QED BY <1>1, <3>2, <3>3, <3>4
  <2> QED BY <2>1 DEF FoundIn
<1>6. ASSUME NEW o \in Ops
      PROVE  /\ Resolve(db, o) # NoId => Resolve(db', o) = Resolve(db, o)
             /\ o \in fresh => Resolve(db', o) \in W
             /\ Resolve(db, o) \in Ids \cup {NoId} /\ Resolve(db', o) \in Ids \cup {NoId}
  <2>1. /\ Resolve(db, o) \in Ids \cup {NoId}
        /\ \A i \in Ids : Resolve(db, o) = i <=> BoundTo(db, o, i)
    BY ResolveBound DEF TablesInv
  <2>2. /\ Resolve(db', o) \in Ids \cup {NoId}
        /\ \A i \in Ids : Resolve(db', o) = i <=> BoundTo(db', o, i)
        /\ Resolve(db', o) # NoId => Resolve(db', o) \in Present(db')
    BY ResolveBound DEF TablesInv
  <2>3. /\ \A i \in Ids : BoundTo(db, o, i) => BoundTo(db', o, i)
        /\ \A i \in Ids : BoundTo(db', o, i) /\ ~BoundTo(db, o, i) => i \notin db'.tombs
    BY DEF Grown
  <2> QED BY <2>1, <2>2, <2>3, NullsAssumption
<1>7. fresh \in SUBSET {o \in Ops : [x \in Ops |-> Resolve(db, x)][o] = NoId}
  OBVIOUS
<1>8. to \in [Ops -> W \cup {NoId}] /\ \A o \in fresh : to[o] \in W
  BY <1>6
<1>9. [o \in Ops |-> Resolve(db', o)]
        = [o \in Ops |-> IF o \in fresh THEN to[o] ELSE [x \in Ops |-> Resolve(db, x)][o]]
  BY <1>6
<1> HIDE DEF W, shown, fresh, to
<1>10. \E x \in [W -> Texts \cup {Redacted}] :
         FoundIn(db') = [i \in Ids |-> IF i \in W THEN {x[i]} ELSE FoundIn(db)[i]]
  BY <1>4, <1>5
<1>11. \E x \in SUBSET {o \in Ops : [p \in Ops |-> Resolve(db, p)][o] = NoId}, y \in [Ops -> W \cup {NoId}] :
         /\ \A o \in x : y[o] \in W
         /\ [o \in Ops |-> Resolve(db', o)]
              = [o \in Ops |-> IF o \in x THEN y[o] ELSE [p \in Ops |-> Resolve(db, p)][o]]
  BY <1>7, <1>8, <1>9
<1> QED BY <1>2, <1>3, <1>10, <1>11 DEF Lifecycle!Store

(* Redactions and the deletions after them are a Forget of the lifecycle.   *)
LEMMA ForgetForgets ==
  ASSUME db \in Tables, TablesInv(db), NEW R \in SUBSET Ids, NEW D \in SUBSET Ids,
         db' = Delete(Redact(db, R), D)
  PROVE  Lifecycle!Forget
<1> DEFINE e == Redact(db, R)
<1>1. /\ Redact(db, R) \in Tables
      /\ Present(Redact(db, R)) = Present(db)
      /\ \A o \in Ops : Holders(Redact(db, R), o) = Holders(db, o) \ R
      /\ TablesInv(db) => TablesInv(Redact(db, R))
  BY RedactKeepsTables
<1>2. /\ e.tombs = db.tombs \cup (R \cap Present(db))
      /\ \A i \in Ids : e.rows[i] = IF i \in R \cap Present(db) THEN Scrub(db.rows[i]) ELSE db.rows[i]
  BY DEF Redact
<1>3. \A o \in Ops, i \in Ids : BoundTo(e, o, i) <=> BoundTo(db, o, i)
  BY RedactBinds
<1> HIDE DEF e
<1>4. e \in Tables /\ TablesInv(e) /\ Present(e) = Present(db) /\ db' = Delete(e, D)
  BY <1>1 DEF e
<1>5. /\ Delete(e, D) \in Tables
      /\ Present(Delete(e, D)) = Present(e) \ D
      /\ \A o \in Ops : Holders(Delete(e, D), o) = Holders(e, o) \ D
      /\ TablesInv(e) => TablesInv(Delete(e, D))
  BY <1>4, DeleteKeepsTables
<1>6. /\ db'.tombs = e.tombs \ D
      /\ \A i \in Ids : db'.rows[i] = IF i \in D THEN Missing ELSE e.rows[i]
  BY <1>4 DEF Delete
<1>7. \A o \in Ops, i \in Ids : BoundTo(db', o, i) <=> BoundTo(db, o, i) /\ i \notin D
  BY <1>3, <1>4, DeleteBinds
<1>8. \A i \in db.tombs : i \in Present(db) /\ db.rows[i].text = Redacted
  BY DEF TablesInv, TombstonesSealedIn, IsSanitizedRedaction
<1>9. StateOf(db') = [i \in Ids |-> IF i \in D THEN "absent"
                                    ELSE IF i \in R /\ StateOf(db)[i] # "absent" THEN "redacted"
                                    ELSE StateOf(db)[i]]
  <2>1. ASSUME NEW i \in Ids
        PROVE  StateOf(db')[i] = IF i \in D THEN "absent"
                                 ELSE IF i \in R /\ StateOf(db)[i] # "absent" THEN "redacted"
                                 ELSE StateOf(db)[i]
    BY <1>2, <1>4, <1>5, <1>6, <1>8 DEF StateOf
  <2> QED BY <2>1 DEF StateOf
<1>10. FoundIn(db') = [i \in Ids |-> IF i \in D THEN {}
                                     ELSE IF i \in R /\ StateOf(db)[i] # "absent" THEN {Redacted}
                                     ELSE FoundIn(db)[i]]
  <2>1. ASSUME NEW i \in Ids
        PROVE  FoundIn(db')[i] = IF i \in D THEN {}
                                 ELSE IF i \in R /\ StateOf(db)[i] # "absent" THEN {Redacted}
                                 ELSE FoundIn(db)[i]
    <3>1. /\ FoundIn(db)[i] = IF i \in Present(db) THEN {db.rows[i].text} ELSE {}
          /\ FoundIn(db')[i] = IF i \in Present(db') THEN {db'.rows[i].text} ELSE {}
      BY <1>4, <1>5, FoundValue DEF TablesInv
    <3>2. StateOf(db)[i] # "absent" <=> i \in Present(db)
      BY <1>8 DEF StateOf
    <3>3. i \in R \cap Present(db) => Scrub(db.rows[i]).text = Redacted
      <4> HAVE i \in R \cap Present(db)
      <4>1. db.rows[i] \in Row
        BY PresentRow
      <4> QED BY <4>1 DEF Scrub, Row
    <3> QED BY <1>2, <1>4, <1>5, <1>6, <3>1, <3>2, <3>3
  <2> QED BY <2>1 DEF FoundIn
<1>11. [o \in Ops |-> Resolve(db', o)]
         = [o \in Ops |-> IF [x \in Ops |-> Resolve(db, x)][o] \in D THEN NoId
                          ELSE [x \in Ops |-> Resolve(db, x)][o]]
  <2>1. ASSUME NEW o \in Ops
        PROVE  Resolve(db', o) = IF Resolve(db, o) \in D THEN NoId ELSE Resolve(db, o)
    <3>1. /\ Resolve(db, o) \in Ids \cup {NoId}
          /\ \A i \in Ids : Resolve(db, o) = i <=> BoundTo(db, o, i)
      BY ResolveBound DEF TablesInv
    <3>2. /\ Resolve(db', o) \in Ids \cup {NoId}
          /\ \A i \in Ids : Resolve(db', o) = i <=> BoundTo(db', o, i)
      BY <1>4, <1>5, ResolveBound DEF TablesInv
    <3> QED BY <1>7, <3>1, <3>2, NullsAssumption
  <2> QED BY <2>1
<1> QED BY <1>9, <1>10, <1>11 DEF Lifecycle!Forget, Lifecycle!Marked

(* Every step of the store lets the tables grow, or redacts and deletes.    *)
LEMMA StepShape ==
  ASSUME IInv, TxnInv, [Next]_vars
  PROVE  \/ Grown(db, db')
         \/ \E R, D \in SUBSET Ids : db' = Delete(Redact(db, R), D)
<1>1. db \in Tables /\ TablesInv(db) /\ SearchMatchesRowsIn(db)
  BY DEF IInv, TypeOK, TablesInv
<1>2. Redact(db, {}) = db
  BY <1>1, NothingToDo
<1>3. ASSUME UNCHANGED db PROVE Grown(db, db')
  BY <1>1, <1>3, GrownItself
<1>4. CASE UNCHANGED vars
  BY <1>3, <1>4 DEF vars
<1>5. CASE PutNext \/ LinkNext \/ Rollback
  BY <1>3, <1>5 DEF PutNext, LinkNext, Rollback
<1>6. CASE CommitBatch
  BY <1>6 DEF CommitBatch, TxnInv, GrowthInv
<1>7. ASSUME NEW ctx \in KnownContexts,
             MemoryStep(ctx) \/ MaintainStep(ctx) \/ BatchStep(ctx) \/ PolicyStep(ctx)
      PROVE  Grown(db, db') \/ \E R, D \in SUBSET Ids : db' = Delete(Redact(db, R), D)
  <2>1. ASSUME NEW decision, NEW ok, NEW tables, Decide(ctx, decision, ok, tables)
        PROVE  db' = db \/ (ok /\ db' = tables)
    BY <2>1 DEF Decide, Deny, Commit
  <2>2. ASSUME NEW e \in Events, PutEvent(ctx, e) \/ PutIdempotent(ctx, e) PROVE Grown(db, db')
    <3>1. e.id \in Ids /\ e.row \in Row
      BY RequestsAssumption DEF Event
    <3>2. db' = db \/ (CanPut(db, e.id, e.row) /\ db' = Put(db, e.id, e.row))
      BY <2>1, <2>2 DEF PutEvent, PutIdempotent
    <3>3. CASE CanPut(db, e.id, e.row) /\ db' = Put(db, e.id, e.row)
      <4>1. Grown(db, Put(db, e.id, e.row))
        BY <1>1, <3>1, <3>3, GrownItself, PutGrows
      <4> QED BY <3>3, <4>1
    <3> QED BY <1>3, <3>2, <3>3
  <2>3. ASSUME NEW old \in Ids, NEW new \in Ids, SupersedeMemory(ctx, old, new) PROVE Grown(db, db')
    <3>1. db' = db \/ db' = SupersedeAll(db, {old}, new)
      BY <1>1, <2>1, <2>3, SupersedeOne DEF SupersedeMemory
    <3>2. Grown(db, SupersedeAll(db, {old}, new))
      BY <1>1, GrownItself, SupersedeGrows
    <3> QED BY <1>3, <3>1, <3>2
  <2>4. ASSUME NEW i \in Ids, DeleteMemory(ctx, i)
        PROVE  db' = db \/ \E R, D \in SUBSET Ids : db' = Delete(Redact(db, R), D)
    <3>1. db' = db \/ db' = Delete(Redact(db, {}), {i})
      BY <1>2, <2>1, <2>4 DEF DeleteMemory
    <3>2. {} \in SUBSET Ids /\ {i} \in SUBSET Ids
      OBVIOUS
    <3> QED BY <3>1, <3>2
  <2>5. ASSUME NEW i \in Ids, RedactMemory(ctx, i)
        PROVE  db' = db \/ \E R, D \in SUBSET Ids : db' = Delete(Redact(db, R), D)
    <3>1. db' = db \/ db' = Redact(db, {i})
      BY <2>1, <2>5 DEF RedactMemory
    <3>2. /\ Redact(db, {i}) \in Tables
          /\ Present(Redact(db, {i})) = Present(db)
          /\ \A o \in Ops : Holders(Redact(db, {i}), o) = Holders(db, o) \ {i}
          /\ TablesInv(db) => TablesInv(Redact(db, {i}))
      BY <1>1, RedactKeepsTables
    <3>3. SearchMatchesRowsIn(Redact(db, {i}))
      BY <1>1, <3>2 DEF TablesInv
    <3>4. Delete(Redact(db, {i}), {}) = Redact(db, {i})
      BY <3>2, <3>3, NothingToDo
    <3>5. {} \in SUBSET Ids /\ {i} \in SUBSET Ids
      OBVIOUS
    <3> QED BY <3>1, <3>4, <3>5
  <2>6. ASSUME NEW i \in Ids, NEW ring \in Rings, NEW kind \in Kinds, ChangeRing(ctx, i, ring, kind)
        PROVE  Grown(db, db')
    <3> DEFINE r == Reringed(i, ring, kind)
    <3>1. i \in Present(db) /\ (db' = db \/ db' = Put(db, i, r))
      BY <2>1, <2>6 DEF ChangeRing
    <3>2. r \in Row /\ CanPut(db, i, r)
      BY <3>1, ReringedAccepted
    <3> HIDE DEF r
    <3>3. Grown(db, Put(db, i, r))
      BY <1>1, <3>2, GrownItself, PutGrows
    <3> QED BY <1>3, <3>1, <3>3
  <2>7. ASSUME NEW redactions \in SUBSET Ids, NEW deletions \in SUBSET Ids, NEW repair \in BOOLEAN,
               Maintain(ctx, redactions, deletions, repair)
        PROVE  db' = db \/ \E R, D \in SUBSET Ids : db' = Delete(Redact(db, R), D)
    <3> DEFINE pruned == Delete(Redact(db, redactions), deletions)
    <3>1. db' = db \/ db' = (IF repair THEN RebuildFts(pruned) ELSE pruned)
      BY <2>1, <2>7 DEF Maintain
    <3>2. pruned \in Tables /\ TablesInv(pruned)
      BY <1>1, RedactKeepsTables, DeleteKeepsTables
    <3>3. RebuildFts(pruned) = pruned
      <4> HIDE DEF pruned
      <4>1. SearchMatchesRowsIn(pruned)
        BY <3>2 DEF TablesInv
      <4> QED BY <3>2, <4>1, NothingToDo
    <3> QED BY <3>1, <3>3
  <2>8. CASE MemoryStep(ctx)
    BY <1>3, <2>2, <2>3, <2>4, <2>5, <2>6, <2>8 DEF MemoryStep
  <2>9. CASE MaintainStep(ctx)
    <3>1. PICK redactions \in SUBSET SecretRows, deletions \in SUBSET DeletableWhenExpired,
               repair \in BOOLEAN : Maintain(ctx, redactions, deletions, repair)
      BY <2>9 DEF MaintainStep
    <3>2. redactions \in SUBSET Ids /\ deletions \in SUBSET Ids
      BY DEF SecretRows, DeletableWhenExpired, Present
    <3> QED BY <1>3, <2>7, <3>1, <3>2
  <2>10. CASE BatchStep(ctx)
    BY <1>3, <2>10 DEF BatchStep, BeginPutMany, BeginImport, BeginBatch, Deny, Open
  <2>11. CASE PolicyStep(ctx)
    BY <1>3, <2>11 DEF PolicyStep, EnablePolicy, RotateCapability, DisablePolicy, Deny
  <2> QED BY <1>7, <2>8, <2>9, <2>10, <2>11
<1> QED BY <1>4, <1>5, <1>6, <1>7 DEF Next

(* Every history of the store is one the lifecycle allows: a redacted       *)
(* memory never shows more than the marker again, a namespace stays bound   *)
(* until its memory is deleted, and only deletion releases an id.           *)
THEOREM StoreKeepsPromises == Spec => Promises
<1>1. Init => Lifecycle!Init
  <2> SUFFICES ASSUME Init PROVE Lifecycle!Init
    OBVIOUS
  <2>1. /\ \A i \in Ids : db.rows[i] = Missing /\ db.fts[i] = <<>>
        /\ \A o \in Ops : db.claims[o] = NoId
        /\ db.tombs = {}
    BY DEF Init, EmptyTables
  <2>2. Present(db) = {} /\ \A o \in Ops : Holders(db, o) = {}
    BY <2>1 DEF Present, Holders
  <2>3. StateOf(db) = [i \in Ids |-> "absent"]
    BY <2>1, <2>2 DEF StateOf
  <2>4. FoundIn(db) = [i \in Ids |-> {}]
    <3>1. DOMAIN <<>> = {}
      OBVIOUS
    <3> QED BY <2>1, <3>1 DEF FoundIn
  <2>5. [o \in Ops |-> Resolve(db, o)] = [o \in Ops |-> NoId]
    BY <2>1, <2>2 DEF Resolve
  <2> QED BY <2>3, <2>4, <2>5 DEF Lifecycle!Init
<1>2. ASSUME IInv, IInv', TxnInv, [Next]_vars PROVE Lifecycle!Next
  <2>1. db \in Tables /\ TablesInv(db) /\ db' \in Tables /\ TablesInv(db')
    BY <1>2 DEF IInv, TypeOK
  <2>2. CASE Grown(db, db')
    BY <2>1, <2>2, GrowthStores DEF Lifecycle!Next
  <2>3. ASSUME NEW R \in SUBSET Ids, NEW D \in SUBSET Ids, db' = Delete(Redact(db, R), D)
        PROVE  Lifecycle!Next
    BY <2>1, <2>3, ForgetForgets DEF Lifecycle!Next
  <2> QED BY <1>2, <2>2, <2>3, StepShape
<1> QED BY <1>1, <1>2, StoreInvariant, TxnInvariant, PTL DEF Spec, Promises, Lifecycle!Spec

(* A namespace that resolves to a memory keeps resolving to it until that   *)
(* memory is deleted.                                                       *)
THEOREM OperationsStayBound == Spec => OperationStable
<1>1. ASSUME IInv, IInv', TxnInv, [Next]_vars, NEW o \in Ops, Resolve(db, o) # NoId
      PROVE  Resolve(db', o) = Resolve(db, o) \/ Resolve(db, o) \notin Present(db')
  <2>1. db \in Tables /\ TablesInv(db) /\ db' \in Tables /\ TablesInv(db')
    BY <1>1 DEF IInv, TypeOK
  <2>2. /\ Resolve(db, o) \in Ids \cup {NoId}
        /\ \A i \in Ids : Resolve(db, o) = i <=> BoundTo(db, o, i)
    BY <2>1, ResolveBound DEF TablesInv
  <2>3. /\ Resolve(db', o) \in Ids \cup {NoId}
        /\ \A i \in Ids : Resolve(db', o) = i <=> BoundTo(db', o, i)
    BY <2>1, ResolveBound DEF TablesInv
  <2>4. CASE Grown(db, db')
    BY <1>1, <2>2, <2>3, <2>4 DEF Grown
  <2>5. ASSUME NEW R \in SUBSET Ids, NEW D \in SUBSET Ids, db' = Delete(Redact(db, R), D)
        PROVE  Resolve(db', o) = Resolve(db, o) \/ Resolve(db, o) \notin Present(db')
    <3> DEFINE e == Redact(db, R)
    <3>1. e \in Tables
      BY <2>1, RedactKeepsTables
    <3>2. \A i \in Ids : BoundTo(e, o, i) <=> BoundTo(db, o, i)
      BY <2>1, RedactBinds
    <3> HIDE DEF e
    <3>3. \A i \in Ids : BoundTo(Delete(e, D), o, i) <=> BoundTo(e, o, i) /\ i \notin D
      BY <3>1, DeleteBinds
    <3>4. Present(Delete(e, D)) = Present(e) \ D
      BY <3>1, DeleteKeepsTables
    <3>5. db' = Delete(e, D)
      BY <2>5 DEF e
    <3> QED BY <1>1, <2>2, <2>3, <3>2, <3>3, <3>4, <3>5
  <2> QED BY <1>1, <2>4, <2>5, StepShape
<1>2. ASSUME IInv, IInv', TxnInv, [Next]_vars
      PROVE  [\A o \in Ops : Resolve(db, o) # NoId =>
                \/ Resolve(db', o) = Resolve(db, o)
                \/ Resolve(db, o) \notin Present(db')]_vars
  BY <1>1, <1>2
<1> QED BY <1>2, StoreInvariant, TxnInvariant, PTL DEF Spec, OperationStable
====
