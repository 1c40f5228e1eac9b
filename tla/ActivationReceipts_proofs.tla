---- MODULE ActivationReceipts_proofs ----
(***************************************************************************)
(* Proofs about ActivationReceipts, for any number of processes, versions, *)
(* manifests and sessions: receipts prove the contract of the manifest,    *)
(* few are kept, launches are honest and a status misses no proof.         *)
(***************************************************************************)
EXTENDS ActivationReceipts, FiniteSetTheorems, TLAPS

Holding == {"validated", "pruned"}

\* From the recall to the receipt.
Drafted == {"recalled", "context", "spawned"} \cup Holding

\* A process past its second check holds the lock, and what it will write
\* proves the manifest, unless somebody has edited that meanwhile.
HolderInv ==
  \A p \in Procs : pc[p] \in Holding =>
    /\ lock = p
    /\ clean => manifest \in Manifests /\ Usable(manifest, Version[p]) /\ Proves(draft[p], manifest, Version[p])

DraftInv ==
  \A p \in Procs :
    /\ pc[p] \in {"prepared"} \cup Drafted => snapshot[p] \in Manifests
    /\ pc[p] \in Drafted => /\ draft[p] \in Receipt
                            /\ draft[p].worker = Worker[p]
                            /\ Proves(draft[p], snapshot[p], Version[p])

\* Receipts and drafts are told apart by their ids.
IdsInv ==
  /\ runs \in 0 .. MaxRuns
  /\ \A r \in receipts : r.id <= runs
  /\ \A r, s \in receipts : r.id = s.id => r = s
  /\ \A p \in Procs : draft[p] # None => draft[p].id <= runs
  /\ \A p, q \in Procs : draft[p] # None /\ draft[q] # None /\ draft[p].id = draft[q].id => p = q
  /\ \A p \in Procs : pc[p] \in Drafted => \A r \in receipts : r.id # draft[p].id

\* Between pruning and writing there is room for one receipt.
RoomInv ==
  /\ IsFiniteSet(receipts)
  /\ \A p \in Procs : Cardinality(OfWorker(Worker[p])) <= Retention + 1
  /\ \A p \in Procs : pc[p] = "pruned" => Cardinality(OfWorker(Worker[p])) <= Retention

\* What a launch that has met no failure so far has done.
LaunchInv ==
  \A p \in Launchers :
    /\ pc[p] \in {"waiting", "cleanup"} => draft[p] # None
    /\ result[p] = "ok" => pc[p] \in {"idle", "done"}
    /\ pc[p] = "waiting" /\ result[p] = "none" => p \in proved
    /\ pc[p] = "cleanup" /\ result[p] = "none" => p \in proved /\ child[p] = "exited"
    /\ pc[p] = "done" /\ result[p] = "ok" => draft[p] # None

\* A receipt that was there all the time is either found or still to be read.
StatusInv ==
  \A q \in Readers :
    /\ steady[q] \subseteq receipts
    /\ view[q].pc = "reading" => steady[q] \subseteq view[q].names \cup view[q].found

IInv ==
  /\ TypeOK
  /\ HolderInv
  /\ DraftInv
  /\ IdsInv
  /\ ReceiptsProveTheContract
  /\ RoomInv
  /\ LaunchInv
  /\ LaunchHonest
  /\ StatusInv
  /\ StatusMissesNoProof

----
(***************************************************************************)
(* Pruning.  Receipts of different ids are ordered by age and id, so the   *)
(* number of newer ones tells them apart.                                  *)
(***************************************************************************)

(* The age and the id of a receipt are numbers.                             *)
LEMMA ReceiptNumbers ==
  ASSUME NEW r \in Receipt
  PROVE  r.at \in Nat /\ r.id \in Nat
BY ReceiptsAssumption DEF Receipt

(* prune_receipts_locked sorts the receipts: newer is a strict total order  *)
(* of receipts with different ids.                                         *)
LEMMA NewerOrders ==
  ASSUME NEW r \in Receipt, NEW s \in Receipt, NEW t \in Receipt
  PROVE  /\ ~Newer(r, r)
         /\ Newer(t, s) /\ Newer(s, r) => Newer(t, r)
         /\ r.id # s.id => Newer(r, s) \/ Newer(s, r)
BY ReceiptNumbers DEF Newer

(* Pruning to a limit keeps no more receipts of the worker than the limit.  *)
LEMMA KeptBound ==
  ASSUME NEW w, NEW keep \in Nat, IsFiniteSet(receipts), receipts \subseteq Receipt,
         \A r, s \in receipts : r.id = s.id => r = s
  PROVE  IsFiniteSet(Kept(w, keep)) /\ Cardinality(Kept(w, keep)) <= keep
<1> DEFINE retained == {r \in OfWorker(w) : Fresh(r, now)}
           above(r) == {s \in retained : Newer(s, r)}
           f == [r \in Kept(w, keep) |-> Cardinality(above(r))]
<1>1. retained \subseteq receipts /\ Kept(w, keep) \subseteq retained
  BY DEF Kept, OfWorker
<1>2. \A r \in retained : above(r) \in SUBSET receipts
  BY <1>1
<1>3. \A r \in retained : IsFiniteSet(above(r)) /\ Cardinality(above(r)) \in Nat
  BY <1>2, FS_Subset, FS_CardinalityType
<1>4. \A r \in Kept(w, keep) : Cardinality(above(r)) < keep
  BY DEF Kept
<1>5. ASSUME NEW r \in retained, NEW s \in retained, Newer(r, s)
      PROVE  Cardinality(above(r)) < Cardinality(above(s))
  <2>1. above(r) \in SUBSET above(s)
    BY <1>1, <1>5, NewerOrders
  <2>2. r \in above(s) /\ r \notin above(r)
    BY <1>1, <1>5, NewerOrders
  <2>3. Cardinality(above(r)) <= Cardinality(above(s)) /\ Cardinality(above(s)) # Cardinality(above(r))
    BY <2>1, <2>2, <1>3, FS_Subset
  <2> QED
    BY <2>3, <1>3
<1>6. \A r \in Kept(w, keep) : Cardinality(above(r)) \in 0 .. (keep - 1)
  <2>1. ASSUME NEW r \in Kept(w, keep)
        PROVE  Cardinality(above(r)) \in Nat /\ Cardinality(above(r)) < keep
    <3>1. r \in retained
      BY <1>1
    <3> HIDE DEF above, retained
    <3> QED
      BY <1>3, <1>4, <3>1
  <2> HIDE DEF above
  <2> QED
    BY <2>1
<1>7. ASSUME NEW r \in Kept(w, keep), NEW s \in Kept(w, keep), Cardinality(above(r)) = Cardinality(above(s))
      PROVE  r = s
  <2>1. SUFFICES ASSUME r # s PROVE FALSE
    OBVIOUS
  <2>2. r \in Receipt /\ s \in Receipt /\ r \in retained /\ s \in retained /\ r.id # s.id
    BY <2>1, <1>1
  <2>3. Newer(r, s) \/ Newer(s, r)
    BY <2>2, NewerOrders
  <2> HIDE DEF above, retained
  <2> QED
    BY <2>2, <2>3, <1>3, <1>5, <1>7
<1>8. f \in Injection(Kept(w, keep), 0 .. (keep - 1))
  <2> HIDE DEF above
  <2> QED
    BY <1>6, <1>7 DEF Injection, IsInjective
<1>9. IsFiniteSet(0 .. (keep - 1)) /\ Cardinality(0 .. (keep - 1)) = keep
  BY FS_Interval
<1> QED
  BY <1>8, <1>9, FS_Injection
----
(***************************************************************************)
(* The steps of processes, people, the clock and status commands, for each *)
(* part of the invariant.                                                  *)
(***************************************************************************)

(* append_receipt_candidate takes the receipt from the listed to the found,  *)
(* unless it has been removed.                                             *)
LEMMA ReadingOne ==
  ASSUME NEW v \in Readings, NEW r \in v.names
  PROVE  /\ AfterReading(v, r) \in Readings
         /\ v.names \cup v.found \subseteq {r} \cup AfterReading(v, r).names \cup AfterReading(v, r).found
         /\ r \in receipts => r \in AfterReading(v, r).found
         /\ AfterReading(v, r).pc = v.pc
BY DEF Readings, AfterReading

(* Every step keeps every variable in its type. *)
LEMMA TypeStep ==
  ASSUME IInv, [Next]_vars
  PROVE  TypeOK'
<1>1. ASSUME NEW p \in Procs, Load(p)
      PROVE  TypeOK'
  BY <1>1
    DEF IInv, TypeOK, Goto, Fail, SetReceipts, Invalidate, AfterCommit, Readings, Load
<1>2. ASSUME NEW p \in Procs, Prepare(p)
      PROVE  TypeOK'
  BY <1>2
    DEF IInv, TypeOK, Goto, Fail, SetReceipts, Invalidate, AfterCommit, Readings, Prepare
<1>3. ASSUME NEW p \in Procs, Recall(p)
      PROVE  TypeOK'
  <2>1. CASE Goto(p, "done")
    BY <1>3, <2>1 DEF IInv, TypeOK, Goto, Fail, Readings, Recall
  <2>2. CASE Goto(p, "recalled")
    <3> DEFINE d == [id |-> runs', worker |-> Worker[p], version |-> Version[p],
                     print |-> Fingerprint(Version[p], snapshot[p].files),
                     store |-> snapshot[p].store, root |-> snapshot[p].root, at |-> now]
    <3>1. d \in Receipt /\ draft' = [draft EXCEPT ![p] = d]
      BY <1>3, <2>2, ReceiptsAssumption
        DEF IInv, TypeOK, IdsInv, DraftInv, Recall, Goto, Receipt
    <3> HIDE DEF d
    <3> QED
      BY <1>3, <2>2, <3>1 DEF IInv, TypeOK, Goto, Readings, Recall
  <2> QED
    BY <1>3, <2>1, <2>2 DEF Recall
<1>4. ASSUME NEW p \in Procs, WriteContext(p)
      PROVE  TypeOK'
  <2>1. draft[p].id \in 1 .. MaxRuns
    BY <1>4 DEF IInv, DraftInv, Drafted, Receipt, WriteContext
  <2> QED
    BY <1>4, <2>1 DEF IInv, TypeOK, Goto, Fail, WriteContext
<1>5. ASSUME NEW p \in Procs, Spawn(p)
      PROVE  TypeOK'
  BY <1>5
    DEF IInv, TypeOK, Goto, Fail, SetReceipts, Invalidate, AfterCommit, Readings, Spawn
<1>6. ASSUME NEW p \in Procs, Revalidate(p)
      PROVE  TypeOK'
  BY <1>6
    DEF IInv, TypeOK, Goto, Fail, SetReceipts, Invalidate, AfterCommit, Readings,
        Revalidate
<1>7. ASSUME NEW p \in Procs, Prune(p)
      PROVE  TypeOK'
  BY <1>7
    DEF IInv, TypeOK, Goto, Fail, SetReceipts, Invalidate, AfterCommit, Readings, Prune
<1>8. ASSUME NEW p \in Procs, Write(p)
      PROVE  TypeOK'
  BY <1>8
    DEF IInv, TypeOK, Goto, Fail, SetReceipts, Invalidate, AfterCommit, Readings, Write,
        DraftInv, Drafted, Holding
<1>9. ASSUME NEW p \in Procs, Wait(p)
      PROVE  TypeOK'
  BY <1>9
    DEF IInv, TypeOK, Goto, Fail, SetReceipts, Invalidate, AfterCommit, Readings, Wait
<1>10. ASSUME NEW p \in Procs, Cleanup(p)
      PROVE  TypeOK'
  BY <1>10
    DEF IInv, TypeOK, Goto, Fail, SetReceipts, Invalidate, AfterCommit, Readings, Cleanup
<1>11. ASSUME NEW p \in Procs, ChildExits(p)
      PROVE  TypeOK'
  BY <1>11
    DEF IInv, TypeOK, Goto, Fail, SetReceipts, Invalidate, AfterCommit, Readings,
        ChildExits
<1>12. ASSUME NEW p \in Procs, Crash(p)
      PROVE  TypeOK'
  BY <1>12
    DEF IInv, TypeOK, Goto, Fail, SetReceipts, Invalidate, AfterCommit, Readings, Crash
<1>13. ASSUME NEW p \in Procs, RunAgain(p)
      PROVE  TypeOK'
  BY <1>13
    DEF IInv, TypeOK, Goto, Fail, SetReceipts, Invalidate, AfterCommit, Readings, RunAgain
<1>14. ASSUME NEW q \in Readers, ReadManifest(q)
      PROVE  TypeOK'
  <2>1. view' = [view EXCEPT ![q] = [@ EXCEPT !.pc = "manifest", !.manifest = manifest, !.at = now]]
    BY <1>14 DEF ReadManifest
  <2>2. view[q] \in Readings /\ manifest \in Manifests \cup {NoManifest} /\ now \in 0 .. MaxTime
    BY DEF IInv, TypeOK
  <2>3. [view[q] EXCEPT !.pc = "manifest", !.manifest = manifest, !.at = now] \in Readings
    BY <2>2 DEF Readings
  <2>4. view' \in [Readers -> Readings]
    BY <2>1, <2>3 DEF IInv, TypeOK
  <2> QED
    BY <1>14, <2>4 DEF IInv, TypeOK, ReadManifest
<1>15. ASSUME NEW q \in Readers, ListReceipts(q)
      PROVE  TypeOK'
  <2>1. /\ view' = [view EXCEPT ![q] = [@ EXCEPT !.pc = "reading", !.names = receipts, !.found = {}]]
        /\ steady' = [steady EXCEPT ![q] = receipts]
    BY <1>15 DEF ListReceipts
  <2>2. view[q] \in Readings /\ receipts \in SUBSET Receipt
    BY DEF IInv, TypeOK
  <2>3. [view[q] EXCEPT !.pc = "reading", !.names = receipts, !.found = {}] \in Readings
    BY <2>2 DEF Readings
  <2>4. view' \in [Readers -> Readings] /\ steady' \in [Readers -> SUBSET Receipt]
    BY <2>1, <2>2, <2>3 DEF IInv, TypeOK
  <2> QED
    BY <1>15, <2>4 DEF IInv, TypeOK, ListReceipts
<1>16. ASSUME NEW q \in Readers, ReadReceipt(q)
      PROVE  TypeOK'
  <2>1. PICK r \in view[q].names : view' = [view EXCEPT ![q] = AfterReading(view[q], r)]
    BY <1>16 DEF ReadReceipt
  <2>2. AfterReading(view[q], r) \in Readings
    BY ReadingOne DEF IInv, TypeOK
  <2>3. view' \in [Readers -> Readings]
    BY <2>1, <2>2 DEF IInv, TypeOK
  <2> QED
    BY <1>16, <2>3 DEF IInv, TypeOK, ReadReceipt
<1>17. ASSUME NEW q \in Readers, Verdict(q)
      PROVE  TypeOK'
  <2>1. PICK verdict \in {"valid", "unproven"} :
          view' = [view EXCEPT ![q] = [@ EXCEPT !.pc = "done", !.verdict = verdict]]
    BY <1>17 DEF Verdict
  <2>2. view[q] \in Readings
    BY DEF IInv, TypeOK
  <2>3. [view[q] EXCEPT !.pc = "done", !.verdict = verdict] \in Readings
    BY <2>2 DEF Readings
  <2>4. view' \in [Readers -> Readings]
    BY <2>1, <2>3 DEF IInv, TypeOK
  <2> QED
    BY <1>17, <2>4 DEF IInv, TypeOK, Verdict
<1>18. ASSUME EditManifest
      PROVE  TypeOK'
  BY <1>18
    DEF IInv, TypeOK, Goto, Fail, SetReceipts, Invalidate, AfterCommit, Readings,
        EditManifest
<1>19. ASSUME Tick
      PROVE  TypeOK'
  BY <1>19, ReceiptsAssumption
    DEF IInv, TypeOK, Goto, Fail, SetReceipts, Invalidate, AfterCommit, Readings, Tick
<1>20. CASE UNCHANGED vars
  BY <1>20
    DEF IInv, TypeOK, Goto, Fail, SetReceipts, Invalidate, AfterCommit, Readings, vars
<1> QED
  BY <1>1, <1>2, <1>3, <1>4, <1>5, <1>6, <1>7, <1>8, <1>9, <1>10, <1>11, <1>12, <1>13,
    <1>14, <1>15, <1>16, <1>17, <1>18, <1>19, <1>20 DEF Next, Step, StatusStep

(* Only the holder of the lock is past its second check. *)
LEMMA HolderStep ==
  ASSUME IInv, [Next]_vars
  PROVE  HolderInv'
<1>1. ASSUME NEW p \in Procs, Load(p)
      PROVE  HolderInv'
  BY <1>1
    DEF IInv, HolderInv, Holding, TypeOK, Goto, Fail, SetReceipts, Invalidate,
        AfterCommit, Load
<1>2. ASSUME NEW p \in Procs, Prepare(p)
      PROVE  HolderInv'
  BY <1>2, ReceiptsAssumption
    DEF IInv, HolderInv, Holding, TypeOK, Goto, Fail, SetReceipts, Invalidate,
        AfterCommit, Prepare
<1>3. ASSUME NEW p \in Procs, Recall(p)
      PROVE  HolderInv'
  BY <1>3
    DEF IInv, HolderInv, Holding, TypeOK, Goto, Fail, SetReceipts, Invalidate,
        AfterCommit, Recall
<1>4. ASSUME NEW p \in Procs, WriteContext(p)
      PROVE  HolderInv'
  BY <1>4
    DEF IInv, HolderInv, Holding, TypeOK, Goto, Fail, SetReceipts, Invalidate,
        AfterCommit, WriteContext
<1>5. ASSUME NEW p \in Procs, Spawn(p)
      PROVE  HolderInv'
  BY <1>5
    DEF IInv, HolderInv, Holding, TypeOK, Goto, Fail, SetReceipts, Invalidate,
        AfterCommit, Spawn
<1>6. ASSUME NEW p \in Procs, Revalidate(p)
      PROVE  HolderInv'
  <2>1. ASSUME NEW o \in Procs, o # p
        PROVE  pc'[o] = pc[o] /\ pc[o] \notin Holding
    BY <1>6, <2>1, ReceiptsAssumption
      DEF IInv, HolderInv, TypeOK, Revalidate, Goto, AfterCommit
  <2>2. pc'[p] \in Holding => lock' = p /\ manifest' \in Manifests /\ UNCHANGED draft
                             /\ Usable(manifest', Version[p]) /\ manifest' = snapshot[p]
    BY <1>6 DEF IInv, TypeOK, Revalidate, Goto, AfterCommit, Holding
  <2>3. Proves(draft[p], snapshot[p], Version[p])
    BY <1>6 DEF IInv, DraftInv, Drafted, Committing, Revalidate
  <2> QED
    BY <2>1, <2>2, <2>3 DEF HolderInv
<1>7. ASSUME NEW p \in Procs, Prune(p)
      PROVE  HolderInv'
  BY <1>7
    DEF IInv, HolderInv, Holding, TypeOK, Goto, Fail, SetReceipts, Invalidate,
        AfterCommit, Prune
<1>8. ASSUME NEW p \in Procs, Write(p)
      PROVE  HolderInv'
  BY <1>8
    DEF IInv, HolderInv, Holding, TypeOK, Goto, Fail, SetReceipts, Invalidate,
        AfterCommit, Write
<1>9. ASSUME NEW p \in Procs, Wait(p)
      PROVE  HolderInv'
  BY <1>9
    DEF IInv, HolderInv, Holding, TypeOK, Goto, Fail, SetReceipts, Invalidate,
        AfterCommit, Wait
<1>10. ASSUME NEW p \in Procs, Cleanup(p)
      PROVE  HolderInv'
  BY <1>10
    DEF IInv, HolderInv, Holding, TypeOK, Goto, Fail, SetReceipts, Invalidate,
        AfterCommit, Cleanup
<1>11. ASSUME NEW p \in Procs, Crash(p)
      PROVE  HolderInv'
  BY <1>11
    DEF IInv, HolderInv, Holding, TypeOK, Goto, Fail, SetReceipts, Invalidate,
        AfterCommit, Crash
<1>12. ASSUME NEW p \in Procs, RunAgain(p)
      PROVE  HolderInv'
  BY <1>12
    DEF IInv, HolderInv, Holding, TypeOK, Goto, Fail, SetReceipts, Invalidate,
        AfterCommit, RunAgain
<1>13. ASSUME EditManifest
      PROVE  HolderInv'
  BY <1>13
    DEF IInv, HolderInv, Holding, TypeOK, Goto, Fail, SetReceipts, Invalidate,
        AfterCommit, EditManifest
<1>14. CASE
  \/ \E p \in Procs : ChildExits(p)
  \/ \E q \in Readers : ReadManifest(q) \/ ListReceipts(q) \/ ReadReceipt(q) \/ Verdict(q)
  \/ Tick
  \/ UNCHANGED vars
  BY <1>14
    DEF IInv, HolderInv, Holding, TypeOK, Goto, Fail, SetReceipts, Invalidate,
        AfterCommit, vars, ChildExits, ReadManifest, ListReceipts, ReadReceipt, Verdict,
        Tick
<1> QED
  BY <1>1, <1>2, <1>3, <1>4, <1>5, <1>6, <1>7, <1>8, <1>9, <1>10, <1>11, <1>12, <1>13,
    <1>14 DEF Next, Step, StatusStep

(* A draft proves the snapshot it was made from. *)
LEMMA DraftStep ==
  ASSUME IInv, [Next]_vars
  PROVE  DraftInv'
<1>1. ASSUME NEW p \in Procs, Load(p)
      PROVE  DraftInv'
  BY <1>1
    DEF IInv, DraftInv, Drafted, Holding, TypeOK, Goto, Fail, SetReceipts, Invalidate,
        AfterCommit, Load
<1>2. ASSUME NEW p \in Procs, Prepare(p)
      PROVE  DraftInv'
  BY <1>2
    DEF IInv, DraftInv, Drafted, Holding, TypeOK, Goto, Fail, SetReceipts, Invalidate,
        AfterCommit, Prepare
<1>3. ASSUME NEW p \in Procs, Recall(p)
      PROVE  DraftInv'
  BY <1>3, ReceiptsAssumption
    DEF IInv, DraftInv, Drafted, Holding, TypeOK, Goto, Fail, SetReceipts, Invalidate,
        AfterCommit, Recall, IdsInv, Receipt, Proves
<1>4. ASSUME NEW p \in Procs, WriteContext(p)
      PROVE  DraftInv'
  BY <1>4
    DEF IInv, DraftInv, Drafted, Holding, TypeOK, Goto, Fail, SetReceipts, Invalidate,
        AfterCommit, WriteContext
<1>5. ASSUME NEW p \in Procs, Spawn(p)
      PROVE  DraftInv'
  BY <1>5
    DEF IInv, DraftInv, Drafted, Holding, TypeOK, Goto, Fail, SetReceipts, Invalidate,
        AfterCommit, Spawn
<1>6. ASSUME NEW p \in Procs, Revalidate(p)
      PROVE  DraftInv'
  BY <1>6
    DEF IInv, DraftInv, Drafted, Holding, TypeOK, Goto, Fail, SetReceipts, Invalidate,
        AfterCommit, Revalidate, Committing
<1>7. ASSUME NEW p \in Procs, Prune(p)
      PROVE  DraftInv'
  BY <1>7
    DEF IInv, DraftInv, Drafted, Holding, TypeOK, Goto, Fail, SetReceipts, Invalidate,
        AfterCommit, Prune
<1>8. ASSUME NEW p \in Procs, Write(p)
      PROVE  DraftInv'
  BY <1>8
    DEF IInv, DraftInv, Drafted, Holding, TypeOK, Goto, Fail, SetReceipts, Invalidate,
        AfterCommit, Write
<1>9. ASSUME NEW p \in Procs, Wait(p)
      PROVE  DraftInv'
  BY <1>9
    DEF IInv, DraftInv, Drafted, Holding, TypeOK, Goto, Fail, SetReceipts, Invalidate,
        AfterCommit, Wait
<1>10. ASSUME NEW p \in Procs, Cleanup(p)
      PROVE  DraftInv'
  BY <1>10
    DEF IInv, DraftInv, Drafted, Holding, TypeOK, Goto, Fail, SetReceipts, Invalidate,
        AfterCommit, Cleanup
<1>11. ASSUME NEW p \in Procs, Crash(p)
      PROVE  DraftInv'
  BY <1>11
    DEF IInv, DraftInv, Drafted, Holding, TypeOK, Goto, Fail, SetReceipts, Invalidate,
        AfterCommit, Crash
<1>12. ASSUME NEW p \in Procs, RunAgain(p)
      PROVE  DraftInv'
  BY <1>12
    DEF IInv, DraftInv, Drafted, Holding, TypeOK, Goto, Fail, SetReceipts, Invalidate,
        AfterCommit, RunAgain
<1>13. CASE
  \/ \E p \in Procs : ChildExits(p)
  \/ \E q \in Readers : ReadManifest(q) \/ ListReceipts(q) \/ ReadReceipt(q) \/ Verdict(q)
  \/ Tick
  \/ EditManifest
  \/ UNCHANGED vars
  BY <1>13
    DEF IInv, DraftInv, Drafted, Holding, TypeOK, Goto, Fail, SetReceipts, Invalidate,
        AfterCommit, vars, ChildExits, ReadManifest, ListReceipts, ReadReceipt, Verdict,
        Tick, EditManifest
<1> QED
  BY <1>1, <1>2, <1>3, <1>4, <1>5, <1>6, <1>7, <1>8, <1>9, <1>10, <1>11, <1>12, <1>13
    DEF Next, Step, StatusStep

(* Every draft gets an id of its own. *)
LEMMA IdsStep ==
  ASSUME IInv, [Next]_vars
  PROVE  IdsInv'
<1>1. ASSUME NEW p \in Procs, Load(p)
      PROVE  IdsInv'
  BY <1>1
    DEF IInv, IdsInv, DraftInv, Drafted, Holding, TypeOK, Goto, Fail, SetReceipts,
        Invalidate, AfterCommit, Load
<1>2. ASSUME NEW p \in Procs, Prepare(p)
      PROVE  IdsInv'
  BY <1>2
    DEF IInv, IdsInv, DraftInv, Drafted, Holding, TypeOK, Goto, Fail, SetReceipts,
        Invalidate, AfterCommit, Prepare
<1>3. ASSUME NEW p \in Procs, Recall(p)
      PROVE  IdsInv'
  BY <1>3, ReceiptsAssumption, NoneAssumption, ReceiptNumbers
    DEF IInv, IdsInv, DraftInv, Drafted, Holding, TypeOK, Goto, Fail, SetReceipts,
        Invalidate, AfterCommit, Recall
<1>4. ASSUME NEW p \in Procs, WriteContext(p)
      PROVE  IdsInv'
  BY <1>4
    DEF IInv, IdsInv, DraftInv, Drafted, Holding, TypeOK, Goto, Fail, SetReceipts,
        Invalidate, AfterCommit, WriteContext
<1>5. ASSUME NEW p \in Procs, Spawn(p)
      PROVE  IdsInv'
  BY <1>5
    DEF IInv, IdsInv, DraftInv, Drafted, Holding, TypeOK, Goto, Fail, SetReceipts,
        Invalidate, AfterCommit, Spawn
<1>6. ASSUME NEW p \in Procs, Revalidate(p)
      PROVE  IdsInv'
  BY <1>6
    DEF IInv, IdsInv, DraftInv, Drafted, Holding, TypeOK, Goto, Fail, SetReceipts,
        Invalidate, AfterCommit, Revalidate, Committing
<1>7. ASSUME NEW p \in Procs, Prune(p)
      PROVE  IdsInv'
  BY <1>7
    DEF IInv, IdsInv, DraftInv, Drafted, Holding, TypeOK, Goto, Fail, SetReceipts,
        Invalidate, AfterCommit, Prune
<1>8. ASSUME NEW p \in Procs, Write(p)
      PROVE  IdsInv'
  BY <1>8, NoneAssumption
    DEF IInv, IdsInv, DraftInv, Drafted, Holding, TypeOK, Goto, Fail, SetReceipts,
        Invalidate, AfterCommit, Write
<1>9. ASSUME NEW p \in Procs, Wait(p)
      PROVE  IdsInv'
  BY <1>9
    DEF IInv, IdsInv, DraftInv, Drafted, Holding, TypeOK, Goto, Fail, SetReceipts,
        Invalidate, AfterCommit, Wait
<1>10. ASSUME NEW p \in Procs, Cleanup(p)
      PROVE  IdsInv'
  BY <1>10
    DEF IInv, IdsInv, DraftInv, Drafted, Holding, TypeOK, Goto, Fail, SetReceipts,
        Invalidate, AfterCommit, Cleanup
<1>11. ASSUME NEW p \in Procs, Crash(p)
      PROVE  IdsInv'
  BY <1>11
    DEF IInv, IdsInv, DraftInv, Drafted, Holding, TypeOK, Goto, Fail, SetReceipts,
        Invalidate, AfterCommit, Crash
<1>12. ASSUME NEW p \in Procs, RunAgain(p)
      PROVE  IdsInv'
  BY <1>12
    DEF IInv, IdsInv, DraftInv, Drafted, Holding, TypeOK, Goto, Fail, SetReceipts,
        Invalidate, AfterCommit, RunAgain
<1>13. CASE
  \/ \E p \in Procs : ChildExits(p)
  \/ \E q \in Readers : ReadManifest(q) \/ ListReceipts(q) \/ ReadReceipt(q) \/ Verdict(q)
  \/ Tick
  \/ EditManifest
  \/ UNCHANGED vars
  <2>1. ASSUME NEW p \in Procs, ChildExits(p)
        PROVE  UNCHANGED <<runs, receipts, draft, pc>>
    BY <2>1 DEF ChildExits
  <2>2. ASSUME NEW q \in Readers, ReadManifest(q) \/ ListReceipts(q) \/ ReadReceipt(q) \/ Verdict(q)
        PROVE  UNCHANGED <<runs, receipts, draft, pc>>
    BY <2>2 DEF ReadManifest, ListReceipts, ReadReceipt, Verdict
  <2>3. ASSUME Tick \/ EditManifest \/ UNCHANGED vars
        PROVE  UNCHANGED <<runs, receipts, draft, pc>>
    BY <2>3 DEF Tick, EditManifest, vars
  <2>4. UNCHANGED <<runs, receipts, draft, pc>>
    BY <1>13, <2>1, <2>2, <2>3
  <2> QED
    BY <2>4 DEF IInv, IdsInv, Drafted
<1> QED
  BY <1>1, <1>2, <1>3, <1>4, <1>5, <1>6, <1>7, <1>8, <1>9, <1>10, <1>11, <1>12, <1>13
    DEF Next, Step, StatusStep

(* Invalidation leaves the receipts that prove the manifest as it is now.    *)
LEMMA InvalidationProves ==
  ASSUME NEW version, Invalidate(version), UNCHANGED manifest
  PROVE  ReceiptsProveTheContract'
<1>1. ASSUME NEW r \in receipts'
      PROVE  Usable(manifest, version) /\ Proves(r, manifest, version) /\ r.version = version
  BY <1>1 DEF Invalidate, SetReceipts, Proves
<1> QED
  BY <1>1 DEF ReceiptsProveTheContract

(* Receipts keep proving the contract. *)
LEMMA ContractStep ==
  ASSUME IInv, [Next]_vars
  PROVE  ReceiptsProveTheContract'
<1>1. ASSUME NEW p \in Procs, Prepare(p)
      PROVE  ReceiptsProveTheContract'
  <2>1. CASE UNCHANGED <<manifest, receipts, clean>>
    BY <2>1 DEF IInv, ReceiptsProveTheContract
  <2>2. CASE Invalidate(Version[p]) /\ UNCHANGED manifest
    BY <2>2, InvalidationProves
  <2> QED
    BY <1>1, <2>1, <2>2 DEF Prepare
<1>2. ASSUME NEW p \in Procs, Revalidate(p)
      PROVE  ReceiptsProveTheContract'
  <2>1. CASE UNCHANGED <<manifest, receipts, clean>>
    BY <2>1 DEF IInv, ReceiptsProveTheContract
  <2>2. CASE Invalidate(Version[p]) /\ UNCHANGED manifest
    BY <2>2, InvalidationProves
  <2> QED
    BY <1>2, <2>1, <2>2 DEF Revalidate
<1>3. ASSUME NEW p \in Procs, Prune(p)
      PROVE  ReceiptsProveTheContract'
  BY <1>3
    DEF IInv, ReceiptsProveTheContract, TypeOK, Goto, Fail, SetReceipts, Invalidate,
        AfterCommit, Prune
<1>4. ASSUME NEW p \in Procs, Write(p)
      PROVE  ReceiptsProveTheContract'
  BY <1>4
    DEF IInv, ReceiptsProveTheContract, TypeOK, Goto, Fail, SetReceipts, Invalidate,
        AfterCommit, Write, HolderInv, Holding, Proves, Usable
<1>5. ASSUME EditManifest
      PROVE  ReceiptsProveTheContract'
  BY <1>5
    DEF IInv, ReceiptsProveTheContract, TypeOK, Goto, Fail, SetReceipts, Invalidate,
        AfterCommit, EditManifest
<1>6. CASE
  \/ \E p \in Procs : Load(p) \/ Recall(p) \/ WriteContext(p) \/ Spawn(p) \/ Wait(p) \/ Cleanup(p) \/ RunAgain(p) \/ Crash(p) \/ ChildExits(p)
  \/ \E q \in Readers : ReadManifest(q) \/ ListReceipts(q) \/ ReadReceipt(q) \/ Verdict(q)
  \/ Tick
  \/ UNCHANGED vars
  BY ZenonT(40), <1>6
    DEF IInv, ReceiptsProveTheContract, TypeOK, Goto, Fail, SetReceipts, Invalidate,
        AfterCommit, vars, Load, Recall, WriteContext, Spawn, Wait, Cleanup, RunAgain,
        Crash, ChildExits, ReadManifest, ListReceipts, ReadReceipt, Verdict, Tick
<1> QED
  BY <1>1, <1>2, <1>3, <1>4, <1>5, <1>6 DEF Next, Step, StatusStep

(* A launch reports what it met with. *)
LEMMA LaunchStep ==
  ASSUME IInv, [Next]_vars
  PROVE  (LaunchInv /\ LaunchHonest)'
<1>1. ASSUME NEW p \in Procs, Load(p)
      PROVE  (LaunchInv /\ LaunchHonest)'
  BY <1>1, ReceiptsAssumption
    DEF IInv, LaunchInv, LaunchHonest, TypeOK, Goto, Fail, AfterCommit, Load
<1>2. ASSUME NEW p \in Procs, Prepare(p)
      PROVE  (LaunchInv /\ LaunchHonest)'
  BY <1>2, ReceiptsAssumption
    DEF IInv, LaunchInv, LaunchHonest, TypeOK, Goto, Fail, AfterCommit, Prepare
<1>3. ASSUME NEW p \in Procs, Recall(p)
      PROVE  (LaunchInv /\ LaunchHonest)'
  BY <1>3, ReceiptsAssumption, NoneAssumption
    DEF IInv, LaunchInv, LaunchHonest, TypeOK, Goto, Fail, AfterCommit, Recall, DraftInv,
        Drafted, Holding
<1>4. ASSUME NEW p \in Procs, WriteContext(p)
      PROVE  (LaunchInv /\ LaunchHonest)'
  BY <1>4, ReceiptsAssumption, NoneAssumption
    DEF IInv, LaunchInv, LaunchHonest, TypeOK, Goto, Fail, AfterCommit, WriteContext,
        DraftInv, Drafted, Holding, IdsInv
<1>5. ASSUME NEW p \in Procs, Spawn(p)
      PROVE  (LaunchInv /\ LaunchHonest)'
  BY <1>5, ReceiptsAssumption, NoneAssumption
    DEF IInv, LaunchInv, LaunchHonest, TypeOK, Goto, Fail, AfterCommit, Spawn, DraftInv,
        Drafted, Holding
<1>6. ASSUME NEW p \in Procs, Revalidate(p)
      PROVE  (LaunchInv /\ LaunchHonest)'
  BY <1>6, ReceiptsAssumption, NoneAssumption
    DEF IInv, LaunchInv, LaunchHonest, TypeOK, Goto, Fail, AfterCommit, Revalidate,
        Committing, DraftInv, Drafted, Holding
<1>7. ASSUME NEW p \in Procs, Prune(p)
      PROVE  (LaunchInv /\ LaunchHonest)'
  BY <1>7, ReceiptsAssumption, NoneAssumption
    DEF IInv, LaunchInv, LaunchHonest, TypeOK, Goto, Fail, AfterCommit, Prune, DraftInv,
        Drafted, Holding
<1>8. ASSUME NEW p \in Procs, Write(p)
      PROVE  (LaunchInv /\ LaunchHonest)'
  BY <1>8, ReceiptsAssumption, NoneAssumption
    DEF IInv, LaunchInv, LaunchHonest, TypeOK, Goto, Fail, AfterCommit, Write, DraftInv,
        Drafted, Holding
<1>9. ASSUME NEW p \in Procs, Wait(p)
      PROVE  (LaunchInv /\ LaunchHonest)'
  BY <1>9, ReceiptsAssumption
    DEF IInv, LaunchInv, LaunchHonest, TypeOK, Goto, Fail, AfterCommit, Wait
<1>10. ASSUME NEW p \in Procs, Cleanup(p)
      PROVE  (LaunchInv /\ LaunchHonest)'
  BY <1>10, ReceiptsAssumption
    DEF IInv, LaunchInv, LaunchHonest, TypeOK, Goto, Fail, AfterCommit, Cleanup
<1>11. ASSUME NEW p \in Procs, ChildExits(p)
      PROVE  (LaunchInv /\ LaunchHonest)'
  BY <1>11, ReceiptsAssumption
    DEF IInv, LaunchInv, LaunchHonest, TypeOK, Goto, Fail, AfterCommit, ChildExits
<1>12. ASSUME NEW p \in Procs, Crash(p)
      PROVE  (LaunchInv /\ LaunchHonest)'
  BY <1>12, ReceiptsAssumption
    DEF IInv, LaunchInv, LaunchHonest, TypeOK, Goto, Fail, AfterCommit, Crash
<1>13. ASSUME NEW p \in Procs, RunAgain(p)
      PROVE  (LaunchInv /\ LaunchHonest)'
  BY <1>13, ReceiptsAssumption
    DEF IInv, LaunchInv, LaunchHonest, TypeOK, Goto, Fail, AfterCommit, RunAgain
<1>14. CASE
  \/ \E q \in Readers : ReadManifest(q) \/ ListReceipts(q) \/ ReadReceipt(q) \/ Verdict(q)
  \/ Tick
  \/ EditManifest
  \/ UNCHANGED vars
  BY <1>14
    DEF IInv, LaunchInv, LaunchHonest, TypeOK, Goto, Fail, AfterCommit, vars,
        ReadManifest, ListReceipts, ReadReceipt, Verdict, Tick, EditManifest
<1> QED
  BY <1>1, <1>2, <1>3, <1>4, <1>5, <1>6, <1>7, <1>8, <1>9, <1>10, <1>11, <1>12, <1>13,
    <1>14 DEF Next, Step, StatusStep

(* A status command loses sight of no receipt. *)
LEMMA ReadersStep ==
  ASSUME IInv, [Next]_vars
  PROVE  (StatusInv /\ StatusMissesNoProof)'
<1>1. ASSUME NEW p \in Procs, Prepare(p)
      PROVE  (StatusInv /\ StatusMissesNoProof)'
  BY <1>1
    DEF IInv, StatusInv, StatusMissesNoProof, TypeOK, Readings, SetReceipts, Invalidate,
        Matches, Prepare
<1>2. ASSUME NEW p \in Procs, Revalidate(p)
      PROVE  (StatusInv /\ StatusMissesNoProof)'
  BY <1>2
    DEF IInv, StatusInv, StatusMissesNoProof, TypeOK, Readings, SetReceipts, Invalidate,
        Matches, Revalidate
<1>3. ASSUME NEW p \in Procs, Prune(p)
      PROVE  (StatusInv /\ StatusMissesNoProof)'
  BY <1>3
    DEF IInv, StatusInv, StatusMissesNoProof, TypeOK, Readings, SetReceipts, Invalidate,
        Matches, Prune
<1>4. ASSUME NEW p \in Procs, Write(p)
      PROVE  (StatusInv /\ StatusMissesNoProof)'
  BY <1>4
    DEF IInv, StatusInv, StatusMissesNoProof, TypeOK, Readings, SetReceipts, Invalidate,
        Matches, Write
<1>5. ASSUME NEW q \in Readers, ReadManifest(q)
      PROVE  (StatusInv /\ StatusMissesNoProof)'
  BY <1>5
    DEF IInv, StatusInv, StatusMissesNoProof, TypeOK, Readings, SetReceipts, Invalidate,
        Matches, ReadManifest
<1>6. ASSUME NEW q \in Readers, ListReceipts(q)
      PROVE  (StatusInv /\ StatusMissesNoProof)'
  BY <1>6
    DEF IInv, StatusInv, StatusMissesNoProof, TypeOK, Readings, SetReceipts, Invalidate,
        Matches, ListReceipts
<1>7. ASSUME NEW q \in Readers, ReadReceipt(q)
      PROVE  (StatusInv /\ StatusMissesNoProof)'
  <2>1. PICK r \in view[q].names : view' = [view EXCEPT ![q] = AfterReading(view[q], r)]
    BY <1>7 DEF ReadReceipt
  <2>2. view'[q] = AfterReading(view[q], r)
    BY <2>1 DEF IInv, TypeOK
  <2>3. /\ view[q].names \cup view[q].found \subseteq {r} \cup view'[q].names \cup view'[q].found
        /\ r \in receipts => r \in view'[q].found
        /\ view'[q].pc = view[q].pc
    BY <2>2, ReadingOne DEF IInv, TypeOK
  <2>4. view'[q].pc = "reading" /\ view[q].pc = "reading" /\ UNCHANGED <<receipts, steady>>
    BY <1>7, <2>3 DEF ReadReceipt
  <2>5. \A o \in Readers : o # q => view'[o] = view[o]
    BY <2>1 DEF IInv, TypeOK
  <2> QED
    BY <2>3, <2>4, <2>5 DEF IInv, StatusInv, StatusMissesNoProof, Matches
<1>8. ASSUME NEW q \in Readers, Verdict(q)
      PROVE  (StatusInv /\ StatusMissesNoProof)'
  BY <1>8
    DEF IInv, StatusInv, StatusMissesNoProof, TypeOK, Readings, SetReceipts, Invalidate,
        Matches, Verdict
<1>9. CASE
  \/ \E p \in Procs : Load(p) \/ Recall(p) \/ WriteContext(p) \/ Spawn(p) \/ Wait(p) \/ Cleanup(p) \/ RunAgain(p) \/ Crash(p) \/ ChildExits(p)
  \/ Tick
  \/ EditManifest
  \/ UNCHANGED vars
  BY <1>9
    DEF IInv, StatusInv, StatusMissesNoProof, TypeOK, Readings, SetReceipts, Invalidate,
        Matches, vars, Load, Recall, WriteContext, Spawn, Wait, Cleanup, RunAgain, Crash,
        ChildExits, Tick, EditManifest
<1> QED
  BY <1>1, <1>2, <1>3, <1>4, <1>5, <1>6, <1>7, <1>8, <1>9 DEF Next, Step, StatusStep

(* With fewer receipts there is as much room.                               *)
LEMMA FewerReceipts ==
  ASSUME NEW R \in SUBSET receipts, receipts' = R, IsFiniteSet(receipts), NEW w
  PROVE  /\ IsFiniteSet(receipts')
         /\ Cardinality(OfWorker(w)') \in Nat /\ Cardinality(OfWorker(w)) \in Nat
         /\ Cardinality(OfWorker(w)') <= Cardinality(OfWorker(w))
<1>1. OfWorker(w)' \in SUBSET OfWorker(w) /\ OfWorker(w) \in SUBSET receipts
  BY DEF OfWorker
<1>2. IsFiniteSet(OfWorker(w)) /\ IsFiniteSet(OfWorker(w)')
  BY <1>1, FS_Subset
<1> QED
  BY <1>1, <1>2, FS_Subset, FS_CardinalityType

(* A step that only removes receipts, and prunes for nobody, keeps the room. *)
LEMMA LessRoomTaken ==
  ASSUME RoomInv, NEW R \in SUBSET receipts, receipts' = R,
         \A o \in Procs : pc'[o] = "pruned" => pc[o] = "pruned"
  PROVE  RoomInv'
<1>1. ASSUME NEW o \in Procs
      PROVE  /\ Cardinality(OfWorker(Worker[o]))' <= Retention + 1
             /\ pc'[o] = "pruned" => Cardinality(OfWorker(Worker[o]))' <= Retention
  <2>1. /\ Cardinality(OfWorker(Worker[o])') \in Nat /\ Cardinality(OfWorker(Worker[o])) \in Nat
        /\ Cardinality(OfWorker(Worker[o])') <= Cardinality(OfWorker(Worker[o]))
    BY FewerReceipts DEF RoomInv
  <2> QED
    BY <2>1, ReceiptsAssumption DEF RoomInv
<1>2. IsFiniteSet(receipts')
  BY FewerReceipts DEF RoomInv
<1> QED
  BY <1>1, <1>2 DEF RoomInv

(* Two sessions of one worker never keep two receipts too many. *)
LEMMA RoomStep ==
  ASSUME IInv, [Next]_vars
  PROVE  RoomInv'
<1>1. ASSUME NEW p \in Procs, Prepare(p)
      PROVE  RoomInv'
  <2>1. PICK R \in SUBSET receipts : receipts' = R
    BY <1>1 DEF Prepare, Invalidate, SetReceipts
  <2>2. \A o \in Procs : pc'[o] = "pruned" => pc[o] = "pruned"
    BY <1>1 DEF IInv, TypeOK, Prepare, Goto, AfterCommit
  <2> QED
    BY <2>1, <2>2, LessRoomTaken DEF IInv
<1>2. ASSUME NEW p \in Procs, Revalidate(p)
      PROVE  RoomInv'
  <2>1. PICK R \in SUBSET receipts : receipts' = R
    BY <1>2 DEF Revalidate, Invalidate, SetReceipts
  <2>2. \A o \in Procs : pc'[o] = "pruned" => pc[o] = "pruned"
    BY <1>2 DEF IInv, TypeOK, Revalidate, Goto, AfterCommit
  <2> QED
    BY <2>1, <2>2, LessRoomTaken DEF IInv
<1>3. ASSUME NEW p \in Procs, Prune(p)
      PROVE  RoomInv'
  <2>1. PICK R \in SUBSET receipts : receipts' = R
    BY <1>3 DEF Prune, SetReceipts
  <2>2. \A o \in Procs : pc'[o] = "pruned" /\ o # p => pc[o] = "pruned"
    BY <1>3 DEF IInv, TypeOK, Prune, Goto, AfterCommit
  <2>3. CASE pc'[p] # "pruned"
    BY <2>1, <2>2, <2>3, LessRoomTaken DEF IInv
  <2>4. CASE pc'[p] = "pruned"
    <3>1. receipts' = receipts \ Pruned(Worker[p], Retention)
      BY <1>3, <2>4 DEF IInv, TypeOK, Prune, Goto, AfterCommit, SetReceipts
    <3>2. OfWorker(Worker[p])' = Kept(Worker[p], Retention)
      BY <3>1 DEF Pruned, OfWorker, Kept
    <3>3. Cardinality(OfWorker(Worker[p]))' <= Retention
      BY <3>2, KeptBound, ReceiptsAssumption DEF IInv, RoomInv, IdsInv, TypeOK
    <3>4. \A o \in Procs : o # p => pc'[o] # "pruned"
      BY <1>3, <2>2 DEF IInv, HolderInv, Holding, Prune
    <3>5. \A o \in Procs : Cardinality(OfWorker(Worker[o]))' <= Retention + 1
      <4> SUFFICES ASSUME NEW o \in Procs
                   PROVE  Cardinality(OfWorker(Worker[o])') <= Retention + 1
        OBVIOUS
      <4>1. /\ Cardinality(OfWorker(Worker[o])') \in Nat /\ Cardinality(OfWorker(Worker[o])) \in Nat
            /\ Cardinality(OfWorker(Worker[o])') <= Cardinality(OfWorker(Worker[o]))
        BY <2>1, FewerReceipts DEF IInv, RoomInv
      <4> QED
        BY <4>1, ReceiptsAssumption DEF IInv, RoomInv
    <3>6. IsFiniteSet(receipts')
      BY <2>1, FewerReceipts DEF IInv, RoomInv
    <3> QED
      BY <3>3, <3>4, <3>5, <3>6 DEF RoomInv
  <2> QED
    BY <2>3, <2>4
<1>4. ASSUME NEW p \in Procs, Write(p)
      PROVE  RoomInv'
  <2>1. \A o \in Procs : pc'[o] # "pruned"
    BY <1>4 DEF IInv, TypeOK, HolderInv, Holding, Write, Goto, AfterCommit
  <2>2. CASE UNCHANGED receipts
    BY <2>1, <2>2, LessRoomTaken DEF IInv
  <2>3. CASE receipts' = receipts \cup {draft[p]}
    <3>1. IsFiniteSet(receipts')
      BY <2>3, FS_AddElement DEF IInv, RoomInv
    <3>2. ASSUME NEW o \in Procs
          PROVE  Cardinality(OfWorker(Worker[o])') <= Retention + 1
      <4>1. IsFiniteSet(OfWorker(Worker[o])) /\ Cardinality(OfWorker(Worker[o])) \in Nat
        <5>1. OfWorker(Worker[o]) \in SUBSET receipts
          BY DEF OfWorker
        <5> QED
          BY <5>1, FS_Subset, FS_CardinalityType DEF IInv, RoomInv
      <4>2. draft[p].worker = Worker[p]
        BY <1>4 DEF IInv, DraftInv, Drafted, Holding, Write
      <4>3. CASE Worker[o] # Worker[p]
        <5>1. OfWorker(Worker[o])' = OfWorker(Worker[o])
          BY <2>3, <4>2, <4>3 DEF OfWorker
        <5> QED
          BY <5>1 DEF IInv, RoomInv
      <4>4. CASE Worker[o] = Worker[p]
        <5>1. OfWorker(Worker[o])' = OfWorker(Worker[o]) \cup {draft[p]}
          BY <2>3, <4>2, <4>4 DEF OfWorker
        <5>2. Cardinality(OfWorker(Worker[o])) <= Retention
          BY <1>4, <4>4 DEF IInv, RoomInv, Write
        <5>3. Cardinality(OfWorker(Worker[o])') <= Cardinality(OfWorker(Worker[o])) + 1
          BY SMTT(30), <4>1, <5>1, FS_AddElement
        <5>4. Cardinality(OfWorker(Worker[o])') \in Nat
          BY <4>1, <5>1, FS_AddElement, FS_CardinalityType
        <5> QED
          BY <4>1, <5>2, <5>3, <5>4, ReceiptsAssumption
      <4> QED
        BY <4>3, <4>4
    <3> QED
      BY <2>1, <3>1, <3>2 DEF RoomInv
  <2> QED
    BY <1>4, <2>2, <2>3 DEF Write, SetReceipts
<1>5. CASE
  \/ \E p \in Procs : Load(p) \/ Recall(p) \/ WriteContext(p) \/ Spawn(p) \/ Wait(p) \/ Cleanup(p) \/ RunAgain(p) \/ Crash(p) \/ ChildExits(p)
  \/ \E q \in Readers : ReadManifest(q) \/ ListReceipts(q) \/ ReadReceipt(q) \/ Verdict(q)
  \/ Tick
  \/ EditManifest
  \/ UNCHANGED vars
  <2>1. UNCHANGED receipts
    BY <1>5
      DEF vars, Load, Recall, WriteContext, Spawn, Wait, Cleanup, RunAgain, Crash,
          ChildExits, Tick, EditManifest, ReadManifest, ListReceipts, ReadReceipt, Verdict
  <2>2. \A o \in Procs : pc'[o] = "pruned" => pc[o] = "pruned"
    BY ZenonT(40), <1>5
      DEF IInv, TypeOK, Goto, vars, Load, Recall, WriteContext, Spawn, Wait, Cleanup,
          RunAgain, Crash, ChildExits, Tick, EditManifest, ReadManifest, ListReceipts,
          ReadReceipt, Verdict
  <2> QED
    BY <2>1, <2>2, LessRoomTaken DEF IInv
<1> QED
  BY <1>1, <1>2, <1>3, <1>4, <1>5 DEF Next, Step, StatusStep

----
(* At the start nothing has run and there are no receipts.                  *)
LEMMA InitHolds == Init => IInv
<1> SUFFICES ASSUME Init PROVE IInv
  OBVIOUS
<1>1. TypeOK
  BY ReceiptsAssumption DEF Init, TypeOK, Readings
<1>2. HolderInv /\ DraftInv /\ LaunchInv /\ LaunchHonest
  BY ReceiptsAssumption
    DEF Init, HolderInv, DraftInv, Drafted, Holding, LaunchInv, LaunchHonest
<1>3. IdsInv /\ ReceiptsProveTheContract
  BY ReceiptsAssumption DEF Init, IdsInv, Drafted, Holding, ReceiptsProveTheContract
<1>4. RoomInv
  <2>1. \A w : OfWorker(w) = {}
    BY DEF Init, OfWorker
  <2> QED
    BY SMTT(30), <2>1, FS_EmptySet, ReceiptsAssumption DEF Init, RoomInv
<1>5. StatusInv /\ StatusMissesNoProof
  BY DEF Init, StatusInv, StatusMissesNoProof
<1> QED
  BY <1>1, <1>2, <1>3, <1>4, <1>5 DEF IInv

(* The inductive invariant of the receipts: who is past its second check,   *)
(* what drafts and receipts prove, how much room pruning left, what a       *)
(* launch has done so far and what a status command can still find.        *)
THEOREM ReceiptsInvariant == Spec => []IInv
<1>1. ASSUME IInv, [Next]_vars
      PROVE  IInv'
  BY <1>1, TypeStep, HolderStep, DraftStep, IdsStep, ContractStep, RoomStep, LaunchStep,
    ReadersStep DEF IInv
<1> QED
  BY InitHolds, <1>1, PTL DEF Spec

(* Once a preflight has looked at the manifest, and until somebody edits    *)
(* it, every receipt on disk proves its contract.                          *)
THEOREM ReceiptsProve == Spec => []ReceiptsProveTheContract
<1>1. IInv => ReceiptsProveTheContract
  BY DEF IInv
<1> QED
  BY ReceiptsInvariant, <1>1, PTL

(* However many sessions of a worker commit at once, at most one receipt    *)
(* more than the retention limit is kept, and all variables are well typed. *)
THEOREM RetentionHolds == Spec => []RetentionBound
<1>1. IInv => RetentionBound
  BY DEF IInv, RoomInv, RetentionBound
<1> QED
  BY ReceiptsInvariant, <1>1, PTL

(* A launch that reports success saw its harness end, has its receipt and   *)
(* left no private context behind.                                         *)
THEOREM LaunchesAreHonest == Spec => []LaunchHonest
<1>1. IInv => LaunchHonest
  BY DEF IInv
<1> QED
  BY ReceiptsInvariant, <1>1, PTL

(* A status read without the lock misses no receipt that was there from     *)
(* the listing to the verdict.                                             *)
THEOREM StatusIsRight == Spec => []StatusMissesNoProof
<1>1. IInv => StatusMissesNoProof
  BY DEF IInv
<1> QED
  BY ReceiptsInvariant, <1>1, PTL
====
