---- MODULE ActivationReceipts ----
(***************************************************************************)
(* Activation receipts of one harness.  A preflight checks the activation  *)
(* contract under the manifest lock, recalls and renders without it, and   *)
(* checks the contract again under the lock before it writes its receipt.  *)
(* A launcher puts the harness itself between the two.  Processes of       *)
(* different versions of the program run at the same time and may die at   *)
(* any step; people edit or delete the manifest without any lock; a status *)
(* command reads manifest and receipts without the lock.                   *)
(***************************************************************************)
EXTENDS Naturals, FiniteSets

CONSTANTS
  Procs,      \* processes that run preflight
  Launchers,  \* those of them that run it for `launch`
  Readers,    \* processes that run `status`
  Version,    \* the adapter version built into each process
  Worker,     \* the agent profile each preflight process acts for
  Manifests,  \* the contents an edit may give the manifest
  Retention,  \* RECEIPT_RETENTION_PER_WORKER
  MaxAge,     \* RECEIPT_RETENTION_DAYS
  MaxTime,    \* bound: the last instant
  MaxRuns,    \* bound: the preflights that get as far as a receipt
  MaxEdits,   \* bound: the edits of the manifest
  NoManifest, Free, None

ASSUME ReceiptsAssumption ==
  /\ Launchers \subseteq Procs
  /\ Procs \cap Readers = {}
  /\ Free \notin Procs
  /\ Retention \in Nat \ {0}
  /\ {MaxAge, MaxTime, MaxRuns} \subseteq Nat
  /\ NoManifest \notin Manifests

(* A manifest records the store, the project root, the adapter version, the *)
(* digests of the bridge files, the fingerprint of the two, and whether the *)
(* harness is in a state that may run preflight.                            *)
Fingerprint(version, files) == <<version, files>>

Receipt == [id : 1 .. MaxRuns, worker : {Worker[p] : p \in Procs},
            version : {Version[p] : p \in Procs},
            print : {Fingerprint(Version[p], m.files) : p \in Procs, m \in Manifests},
            store : {m.store : m \in Manifests}, root : {m.root : m \in Manifests},
            at : 0 .. MaxTime]

ASSUME NoneAssumption == None \notin Receipt

VARIABLES
  manifest,  \* activation.json, or NoManifest
  receipts,  \* the receipt files
  lock,      \* who holds the flock on the project root
  now,
  pc, supplied, snapshot, draft, result,   \* of each process of Procs
  child,     \* the harness a launcher started
  runtime,   \* the ids of the private context files
  view,      \* what each status reader knows: see Readings
  clean,     \* history: the manifest has been validated since its last edit
  steady,    \* history: the receipts on disk ever since each reader listed them
  proved,    \* history: the launches whose receipt was published for certain
  runs, edits

vars == <<manifest, receipts, lock, now, pc, supplied, snapshot, draft, result, child, runtime,
          view, clean, steady, proved, runs, edits>>

Readings == [pc : {"idle", "manifest", "reading", "done"}, manifest : Manifests \cup {NoManifest},
             at : 0 .. MaxTime, names : SUBSET Receipt, found : SUBSET Receipt,
             verdict : {"none", "valid", "unproven"}]

TypeOK ==
  /\ manifest \in Manifests \cup {NoManifest}
  /\ receipts \subseteq Receipt
  /\ lock \in Procs \cup {Free}
  /\ now \in 0 .. MaxTime
  /\ pc \in [Procs -> {"idle", "loaded", "prepared", "recalled", "context", "spawned",
                       "validated", "pruned", "waiting", "cleanup", "done", "dead"}]
  /\ supplied \in [Procs -> Manifests \cup {NoManifest}]
  /\ snapshot \in [Procs -> Manifests \cup {NoManifest}]
  /\ draft \in [Procs -> Receipt \cup {None}]
  /\ result \in [Procs -> {"none", "ok", "error"}]
  /\ child \in [Procs -> {"none", "running", "exited"}]
  /\ runtime \subseteq 1 .. MaxRuns
  /\ view \in [Readers -> Readings]
  /\ steady \in [Readers -> SUBSET Receipt]
  /\ proved \subseteq Launchers

Init ==
  /\ manifest \in Manifests
  /\ receipts = {}
  /\ lock = Free
  /\ now = 0
  /\ pc = [p \in Procs |-> "idle"]
  /\ supplied = [p \in Procs |-> NoManifest]
  /\ snapshot = [p \in Procs |-> NoManifest]
  /\ draft = [p \in Procs |-> None]
  /\ result = [p \in Procs |-> "none"]
  /\ child = [p \in Procs |-> "none"]
  /\ runtime = {}
  /\ view = [q \in Readers |-> [pc |-> "idle", manifest |-> NoManifest, at |-> 0, names |-> {},
                                found |-> {}, verdict |-> "none"]]
  /\ clean = FALSE
  /\ steady = [q \in Readers |-> {}]
  /\ proved = {}
  /\ runs = 0
  /\ edits = 0

----
(* The contract. *)

\* manifest_matches_registry, eligible_for_preflight and preflight_state.
Usable(m, version) ==
  /\ m.version = version
  /\ m.print = Fingerprint(version, m.files)
  /\ m.ready
  /\ m.root = "here"

\* The receipts that invalidate_receipts_for_adapter_locked keeps.
Proves(r, m, version) ==
  /\ r.version = version
  /\ r.print = Fingerprint(version, m.files)
  /\ r.root = m.root
  /\ r.store = m.store

SetReceipts(R) ==
  /\ receipts' = R
  /\ steady' = [q \in Readers |-> steady[q] \cap R]

(* What both phases do first under the lock: receipts of another contract  *)
(* go, and without a usable contract all of them go.                       *)
Invalidate(version) ==
  /\ SetReceipts(IF Usable(manifest, version) THEN {r \in receipts : Proves(r, manifest, version)} ELSE {})
  /\ clean' = TRUE

Goto(p, label) == pc' = [pc EXCEPT ![p] = label]

Fail(p) == result' = [result EXCEPT ![p] = "error"]

----
(* One preflight. *)

Load(p) ==
  /\ pc[p] = "idle"
  /\ manifest # NoManifest
  /\ Goto(p, "loaded")
  /\ supplied' = [supplied EXCEPT ![p] = manifest]
  /\ result' = [result EXCEPT ![p] = "none"]
  /\ child' = [child EXCEPT ![p] = "none"]
  /\ proved' = proved \ {p}
  /\ UNCHANGED <<manifest, receipts, lock, now, snapshot, draft, runtime, view, clean, steady, runs, edits>>

\* prepare_preflight_contract, from taking the lock to dropping it.
Prepare(p) ==
  /\ pc[p] = "loaded"
  /\ lock = Free
  /\ \/ /\ manifest = NoManifest
        /\ Goto(p, "done") /\ Fail(p)
        /\ UNCHANGED <<receipts, steady, clean, snapshot>>
     \/ /\ manifest # NoManifest
        /\ Invalidate(Version[p])
        /\ IF Usable(manifest, Version[p]) /\ manifest = supplied[p]
           THEN /\ Goto(p, "prepared")
                /\ snapshot' = [snapshot EXCEPT ![p] = manifest]
                /\ UNCHANGED result
           ELSE Goto(p, "done") /\ Fail(p) /\ UNCHANGED snapshot
  /\ UNCHANGED <<manifest, lock, now, supplied, draft, child, runtime, view, proved, runs, edits>>

\* Recall, rendering and the receipt they would prove; or a failure or timeout.
Recall(p) ==
  /\ pc[p] = "prepared"
  /\ \/ /\ runs < MaxRuns
        /\ runs' = runs + 1
        /\ draft' = [draft EXCEPT ![p] =
             [id |-> runs', worker |-> Worker[p], version |-> Version[p],
              print |-> Fingerprint(Version[p], snapshot[p].files),
              store |-> snapshot[p].store, root |-> snapshot[p].root, at |-> now]]
        /\ Goto(p, "recalled")
        /\ UNCHANGED result
     \/ /\ Goto(p, "done") /\ Fail(p)
        /\ UNCHANGED <<runs, draft>>
  /\ UNCHANGED <<manifest, receipts, lock, now, supplied, snapshot, child, runtime, view, clean, steady, proved, edits>>

----
(* The launcher, between the two phases. *)

\* create_runtime_context_file.  A failure removes what it may have left, and
\* a failure of that is reported too.
WriteContext(p) ==
  /\ p \in Launchers
  /\ pc[p] = "recalled"
  /\ \/ Goto(p, "context") /\ runtime' = runtime \cup {draft[p].id} /\ UNCHANGED result
     \/ Goto(p, "done") /\ Fail(p) /\ runtime' \in {runtime, runtime \cup {draft[p].id}}
  /\ UNCHANGED <<manifest, receipts, lock, now, supplied, snapshot, draft, child, view, clean, steady, proved, runs, edits>>

Spawn(p) ==
  /\ pc[p] = "context"
  /\ \/ Goto(p, "spawned") /\ child' = [child EXCEPT ![p] = "running"] /\ UNCHANGED result
     \/ Goto(p, "cleanup") /\ Fail(p) /\ UNCHANGED child
  /\ UNCHANGED <<manifest, receipts, lock, now, supplied, snapshot, draft, runtime, view, clean, steady, proved, runs, edits>>

----
(* commit_receipt, in the three steps a crash can fall between. *)

Committing(p) == pc[p] = IF p \in Launchers THEN "spawned" ELSE "recalled"

\* A launcher waits for its child whatever became of the receipt.
AfterCommit(p) == Goto(p, IF p \in Launchers THEN "waiting" ELSE "done")

\* Mutant of Revalidate: the contract of the first phase is trusted.
RevalidateNothing(p) ==
  /\ Committing(p)
  /\ lock = Free
  /\ lock' = p
  /\ Goto(p, "validated")
  /\ UNCHANGED <<manifest, receipts, now, supplied, snapshot, draft, result, child, runtime, view, clean, steady, proved, runs, edits>>

Revalidate(p) ==
  /\ Committing(p)
  /\ lock = Free
  /\ \/ /\ manifest = NoManifest
        /\ AfterCommit(p) /\ Fail(p)
        /\ UNCHANGED <<lock, receipts, steady, clean>>
     \/ /\ manifest # NoManifest
        /\ Invalidate(Version[p])
        /\ IF Usable(manifest, Version[p]) /\ manifest = supplied[p] /\ manifest = snapshot[p]
           THEN lock' = p /\ Goto(p, "validated") /\ UNCHANGED result
           ELSE AfterCommit(p) /\ Fail(p) /\ UNCHANGED lock
  /\ UNCHANGED <<manifest, now, supplied, snapshot, draft, child, runtime, view, proved, runs, edits>>

OfWorker(w) == {r \in receipts : r.worker = w}

Fresh(r, at) == r.at + MaxAge >= at

Newer(r, s) == r.at > s.at \/ (r.at = s.at /\ r.id > s.id)

\* The receipts of worker w that prune_receipts_locked keeps.
Kept(w, keep) ==
  LET retained == {r \in OfWorker(w) : Fresh(r, now)}
  IN  {r \in retained : Cardinality({s \in retained : Newer(s, r)}) < keep}

Pruned(w, keep) == OfWorker(w) \ Kept(w, keep)

\* Mutant of Prune: one receipt too many is kept.
PruneKeepingOneMore(p) ==
  /\ pc[p] = "validated"
  /\ SetReceipts(receipts \ Pruned(Worker[p], Retention + 1))
  /\ Goto(p, "pruned")
  /\ UNCHANGED <<manifest, lock, now, supplied, snapshot, draft, result, child, runtime, view, clean, proved, runs, edits>>

\* The removals may stop at one that fails; nothing is written then.
Prune(p) ==
  /\ pc[p] = "validated"
  /\ \/ /\ SetReceipts(receipts \ Pruned(Worker[p], Retention))
        /\ Goto(p, "pruned")
        /\ UNCHANGED <<lock, result>>
     \/ /\ \E gone \in SUBSET Pruned(Worker[p], Retention) : SetReceipts(receipts \ gone)
        /\ lock' = Free
        /\ AfterCommit(p) /\ Fail(p)
  /\ UNCHANGED <<manifest, now, supplied, snapshot, draft, child, runtime, view, clean, proved, runs, edits>>

\* write_receipt_locked: published, refused, or published without certainty.
Write(p) ==
  /\ pc[p] = "pruned"
  /\ lock' = Free
  /\ AfterCommit(p)
  /\ \/ SetReceipts(receipts \cup {draft[p]}) /\ Fail(p) /\ UNCHANGED proved
     \/ UNCHANGED <<receipts, steady, proved>> /\ Fail(p)
     \/ /\ SetReceipts(receipts \cup {draft[p]})
        /\ proved' = proved \cup ({p} \cap Launchers)
        /\ result' = IF p \in Launchers THEN result ELSE [result EXCEPT ![p] = "ok"]
  /\ UNCHANGED <<manifest, now, supplied, snapshot, draft, child, runtime, view, clean, runs, edits>>

----
(* The end of a launch. *)

ChildExits(p) ==
  /\ child[p] = "running"
  /\ child' = [child EXCEPT ![p] = "exited"]
  /\ UNCHANGED <<manifest, receipts, lock, now, pc, supplied, snapshot, draft, result, runtime, view, clean, steady, proved, runs, edits>>

\* The child ended with an exit code, or was killed.
Wait(p) ==
  /\ pc[p] = "waiting"
  /\ child[p] = "exited"
  /\ Goto(p, "cleanup")
  /\ Fail(p) \/ UNCHANGED result
  /\ UNCHANGED <<manifest, receipts, lock, now, supplied, snapshot, draft, child, runtime, view, clean, steady, proved, runs, edits>>

\* Mutant of Cleanup: what cleaning up met with is not reported.
CleanupSilently(p) ==
  /\ pc[p] = "cleanup"
  /\ Goto(p, "done")
  /\ result' = [result EXCEPT ![p] = IF @ = "error" THEN "error" ELSE "ok"]
  /\ runtime' = runtime \ {draft[p].id} \/ UNCHANGED runtime
  /\ UNCHANGED <<manifest, receipts, lock, now, supplied, snapshot, draft, child, view, clean, steady, proved, runs, edits>>

\* The context file is removed, or the failure to remove it is reported.
Cleanup(p) ==
  /\ pc[p] = "cleanup"
  /\ Goto(p, "done")
  /\ \/ /\ runtime' = runtime \ {draft[p].id}
        /\ result' = [result EXCEPT ![p] = IF @ = "error" THEN "error" ELSE "ok"]
     \/ UNCHANGED runtime /\ Fail(p)
  /\ UNCHANGED <<manifest, receipts, lock, now, supplied, snapshot, draft, child, view, clean, steady, proved, runs, edits>>

----
(* The rest of the world. *)

\* Mutant of Crash: the lock is a file, which a dead process leaves behind.
CrashLeavingLock(p) ==
  /\ pc[p] \notin {"idle", "done", "dead"}
  /\ Goto(p, "dead")
  /\ UNCHANGED <<lock, manifest, receipts, now, supplied, snapshot, draft, result, child, runtime, view, clean, steady, proved, runs, edits>>

\* A process dies: its flock goes with it, its context file and child stay.
Crash(p) ==
  /\ pc[p] \notin {"idle", "done", "dead"}
  /\ Goto(p, "dead")
  /\ lock' = IF lock = p THEN Free ELSE lock
  /\ UNCHANGED <<manifest, receipts, now, supplied, snapshot, draft, result, child, runtime, view, clean, steady, proved, runs, edits>>

\* Another session of the same agent.
RunAgain(p) ==
  /\ pc[p] \in {"done", "dead"}
  /\ child[p] # "running"
  /\ runs < MaxRuns
  /\ Goto(p, "idle")
  /\ UNCHANGED <<manifest, receipts, lock, now, supplied, snapshot, draft, result, child, runtime, view, clean, steady, proved, runs, edits>>

\* The user edits, restores or deletes the manifest.
EditManifest ==
  /\ edits < MaxEdits
  /\ edits' = edits + 1
  /\ \E m \in (Manifests \cup {NoManifest}) \ {manifest} : manifest' = m
  /\ clean' = FALSE
  /\ UNCHANGED <<receipts, lock, now, pc, supplied, snapshot, draft, result, child, runtime, view, steady, proved, runs>>

Tick ==
  /\ now < MaxTime
  /\ now' = now + 1
  /\ UNCHANGED <<manifest, receipts, lock, pc, supplied, snapshot, draft, result, child, runtime, view, clean, steady, proved, runs, edits>>

----
(* Status: the manifest, then the names of the receipts, then each file.   *)

ReadManifest(q) ==
  /\ view[q].pc = "idle"
  /\ manifest # NoManifest
  /\ Usable([manifest EXCEPT !.ready = TRUE], Version[q])
  /\ view' = [view EXCEPT ![q] = [@ EXCEPT !.pc = "manifest", !.manifest = manifest, !.at = now]]
  /\ UNCHANGED <<manifest, receipts, lock, now, pc, supplied, snapshot, draft, result, child, runtime, clean, steady, proved, runs, edits>>

ListReceipts(q) ==
  /\ view[q].pc = "manifest"
  /\ view' = [view EXCEPT ![q] = [@ EXCEPT !.pc = "reading", !.names = receipts, !.found = {}]]
  /\ steady' = [steady EXCEPT ![q] = receipts]
  /\ UNCHANGED <<manifest, receipts, lock, now, pc, supplied, snapshot, draft, result, child, runtime, clean, proved, runs, edits>>

\* Mutant of ReadReceipt: a file that vanished makes the directory unreadable.
ReadReceiptOrFail(q) ==
  /\ view[q].pc = "reading"
  /\ \E r \in view[q].names :
       view' = [view EXCEPT ![q] =
                  IF r \in receipts THEN [@ EXCEPT !.names = @ \ {r}, !.found = @ \cup {r}]
                  ELSE [@ EXCEPT !.names = {}, !.found = {}]]
  /\ UNCHANGED <<manifest, receipts, lock, now, pc, supplied, snapshot, draft, result, child, runtime, clean, steady, proved, runs, edits>>

\* append_receipt_candidate: a receipt removed since the listing is passed over.
AfterReading(v, r) ==
  [v EXCEPT !.names = @ \ {r}, !.found = IF r \in receipts THEN @ \cup {r} ELSE @]

ReadReceipt(q) ==
  /\ view[q].pc = "reading"
  /\ \E r \in view[q].names : view' = [view EXCEPT ![q] = AfterReading(view[q], r)]
  /\ UNCHANGED <<manifest, receipts, lock, now, pc, supplied, snapshot, draft, result, child, runtime, clean, steady, proved, runs, edits>>

\* receipt_matches, for the manifest and the time the reader started with.
Matches(r, v) == Proves(r, v.manifest, v.manifest.version) /\ r.at <= v.at /\ r.at + MaxAge > v.at

Verdict(q) ==
  /\ view[q].pc = "reading"
  /\ view[q].names = {}
  /\ view' = [view EXCEPT ![q] = [@ EXCEPT !.pc = "done",
       !.verdict = IF \E r \in view[q].found : Matches(r, view[q]) THEN "valid" ELSE "unproven"]]
  /\ UNCHANGED <<manifest, receipts, lock, now, pc, supplied, snapshot, draft, result, child, runtime, clean, steady, proved, runs, edits>>

----
Step(p) ==
  \/ Load(p) \/ Prepare(p) \/ Recall(p) \/ WriteContext(p) \/ Spawn(p)
  \/ Revalidate(p) \/ Prune(p) \/ Write(p) \/ Wait(p) \/ Cleanup(p)

StatusStep(q) == ReadManifest(q) \/ ListReceipts(q) \/ ReadReceipt(q) \/ Verdict(q)

Next ==
  \/ \E p \in Procs : Step(p) \/ ChildExits(p) \/ Crash(p) \/ RunAgain(p)
  \/ \E q \in Readers : StatusStep(q)
  \/ EditManifest \/ Tick

Spec == Init /\ [][Next]_vars

(* A process that is not killed is scheduled, and the harness a launcher   *)
(* started ends some time.  Crashes, sessions, edits and readers are not   *)
(* fair.                                                                   *)
FairSpec == Spec /\ \A p \in Procs : WF_vars(Step(p)) /\ WF_vars(ChildExits(p))

----
(* Once any preflight has looked at the manifest, and until somebody edits *)
(* it, every receipt on disk proves the contract of that manifest, though  *)
(* preflights that started under an older contract are still running: the  *)
(* second check of commit_receipt is what keeps theirs out.                *)
ReceiptsProveTheContract ==
  clean => \A r \in receipts : Usable(manifest, r.version) /\ Proves(r, manifest, r.version)

(* However many preflights of one worker commit at the same time, at most  *)
(* one receipt more than the retention limit is ever kept, and each is     *)
(* well formed.                                                            *)
RetentionBound == TypeOK /\ \A p \in Procs : Cardinality(OfWorker(Worker[p])) <= Retention + 1

(* A launch that reports success started the harness, saw it end, proved   *)
(* its preflight with a receipt and removed its private context: whichever *)
(* of the steps around the running child failed, the launch says so.       *)
LaunchHonest ==
  \A p \in Launchers :
    pc[p] = "done" /\ result[p] = "ok"
      => child[p] = "exited" /\ p \in proved /\ draft[p].id \notin runtime

(* A status read without the lock, while preflights prune and invalidate,  *)
(* misses no proof: if it finds none, no matching receipt was there from   *)
(* the listing to the verdict.                                             *)
StatusMissesNoProof ==
  \A q \in Readers :
    view[q].pc = "done" /\ view[q].verdict = "unproven"
      => \A r \in steady[q] : ~Matches(r, view[q])

(* Every preflight and launch comes to an end or dies: nobody waits for a  *)
(* lock whose holder died.                                                 *)
RunsEnd == \A p \in Procs : (pc[p] = "loaded") ~> (pc[p] \in {"done", "dead"})
====
