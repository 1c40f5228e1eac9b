---- MODULE EvidenceIndex ----
(***************************************************************************)
(* The evidence directory.  Producers (recall-quality, integrations        *)
(* certify) compute their results, then publish payload files and the      *)
(* index under one lock; the certification script replaces metrics.json    *)
(* without it; the console loads index and payloads without it.  Every     *)
(* file is replaced by a rename, so a reader sees whole files.             *)
(*                                                                         *)
(* A record, in the index or a payload, is [run, status, seen]: the run it *)
(* is of, its status, and (as history) what the run judged.                *)
(***************************************************************************)
EXTENDS Judgements

CONSTANTS
  Producers, Kind,   \* the processes, and "recall" or "harness" of each
  Harnesses,         \* CERTIFIED_HARNESS_IDS
  Cases, Recalls,    \* the query set; what recall may return for it
  Sights,            \* what certify may see of a harness
  Indexes,           \* the index earlier runs may have left; Missing or Damaged too
  Plans,             \* the histories explored: [runs, metrics, looks: bounds of the runs
                     \* started, the replacements of metrics.json, the snapshots;
                     \* directories: of the quality run; courses: of the workflow proof]
  Missing, Damaged, Free

ASSUME EvidenceAssumption ==
  /\ Free \notin Producers /\ Missing # Damaged
  /\ Kind \in [Producers -> {"recall", "harness"}]
  /\ Harnesses # {} /\ Harnesses \cap {"metrics", "recall"} = {}

IsList(s) == Len(s) \in Nat /\ DOMAIN s = 1 .. Len(s)

ASSUME JudgedAssumption ==
  /\ IsList(Cases) /\ \A k \in DOMAIN Cases : Cases[k].rank \in Nat \cup {Unnamed}
  /\ \A returned \in Recalls : \A k \in DOMAIN Cases : IsList(returned[k])
  /\ \A sight \in Sights : sight.manifest \in {"missing", "invalid", "unrecorded", "recorded"}

\* Missing is no record.
ASSUME MissingAssumption ==
  Missing \notin [run : Nat, status : {"pass", "skip", "fail", "needs_review"}, seen : Recalls \cup Sights]

VARIABLES
  plan,
  index,     \* evidence-index.json
  files,     \* the payloads: per artifact its record, or Missing
  locked,    \* who holds .evidence-index.lock
  stage, job,\* of each producer
  view,      \* the console's snapshot
  broken,    \* history: the kinds whose last publication stopped half way
  runs, metrics, looks

evidenceVars == <<plan, index, files, locked, stage, job, view, broken, runs, metrics, looks>>

Artifacts(kind) == IF kind = "recall" THEN {"recall"} ELSE Harnesses

\* Where the record of a harness stands; the summary of them all is left out.
EvidenceInit ==
  /\ plan \in Plans
  /\ index \in Indexes
  /\ files = [a \in {"metrics", "recall"} \cup Harnesses |-> Missing]
  /\ locked = Free
  /\ stage = [p \in Producers |-> "idle"]
  /\ job = [p \in Producers |-> Missing]
  /\ view = [at |-> "idle", index |-> Missing, status |-> "missing"]
  /\ broken = {}
  /\ runs = 0
  /\ metrics = 0
  /\ looks = 0

----
(* The index. *)

Known(i) == i \notin {Missing, Damaged}

Statuses(i) == {i.harness[h].status : h \in DOMAIN i.harness}
                 \cup (IF i.recall = Missing THEN {} ELSE {i.recall.status})

\* rollup_index_status
Rollup(i) ==
  IF "fail" \in Statuses(i) THEN "fail"
  ELSE IF "error" \in Statuses(i) THEN "error"
  ELSE IF i.recall # Missing /\ i.recall.status = "needs_review" THEN "needs_review"
  ELSE IF i.cert # Missing THEN i.cert.status
  ELSE IF DOMAIN i.harness = {} /\ i.recall = Missing THEN "missing" ELSE "skip"

\* read_or_create_index
Created == [cert |-> Missing, harness |-> <<>>, recall |-> Missing,
            missing |-> {"harness", "recall_quality"}, overall |-> "missing"]

\* What of an index is not there.
Lacking(i) ==
  {m \in {"harness", "recall_quality"} : IF m = "harness" THEN DOMAIN i.harness = {} ELSE i.recall = Missing}

IsIndex(i) ==
  i = [cert |-> i.cert, harness |-> i.harness, recall |-> i.recall, missing |-> i.missing, overall |-> i.overall]

\* No payload is there at first, so nothing is recorded but harnesses that are
\* certified no longer.
ASSUME IndexesAssumption ==
  \A i \in {j \in Indexes : Known(j)} :
    /\ IsIndex(i)
    /\ i.cert = Missing /\ i.recall = Missing /\ i.missing = Lacking(i)
    /\ DOMAIN i.harness \cap Harnesses = {}
    /\ \A h \in DOMAIN i.harness : i.harness[h].status \in {"pass", "skip", "fail"}
    /\ i.overall # "pass"

\* certification_record_from_metrics: any metrics.json is a pass.
Certified(i) ==
  IF files["metrics"] = Missing THEN i ELSE [i EXCEPT !.cert = files["metrics"]]

\* What publish makes of the index, for either kind of run.
Filled(i, kind, results) ==
  IF kind = "recall"
  THEN [i EXCEPT !.recall = results["recall"],
                 !.missing = (@ \ {"recall_quality", "harness"})
                               \cup (IF DOMAIN i.harness = {} THEN {"harness"} ELSE {})]
  ELSE [i EXCEPT !.harness = [h \in DOMAIN @ \cup Harnesses |-> IF h \in Harnesses THEN results[h] ELSE @[h]],
                 !.missing = (@ \ {"harness"})
                               \cup (IF i.recall = Missing THEN {"recall_quality"} ELSE {})]

Indexed(i, kind, results) ==
  LET filled == Filled(i, kind, results) IN [filled EXCEPT !.overall = Rollup(filled)]

----
(* A producer. *)

Goto(p, at) == stage' = [stage EXCEPT ![p] = at]

Leave(p, at) == Goto(p, at) /\ job' = [job EXCEPT ![p] = Missing]

\* generated_at is taken and the results computed before the lock.
Evaluate(p) ==
  /\ stage[p] = "idle"
  /\ runs < plan.runs
  /\ runs' = runs + 1
  /\ \/ /\ Kind[p] = "recall"
        /\ \E returned \in Recalls :
             job' = [job EXCEPT ![p] =
                       [results |-> [a \in {"recall"} |->
                                       [run |-> runs', status |-> RecallReport(Cases, returned),
                                        seen |-> returned]],
                        work |-> Missing, todo |-> {"recall"}]]
     \/ /\ Kind[p] = "harness"
        /\ \E sight \in [Harnesses -> Sights] :
             job' = [job EXCEPT ![p] =
                       [results |-> [h \in Harnesses |->
                                       [run |-> runs', status |-> ProbeRecord(sight[h]).status,
                                        seen |-> sight[h]]],
                        work |-> Missing, todo |-> Harnesses]]
  /\ Goto(p, "ready")
  /\ UNCHANGED <<plan, looks, index, files, locked, view, broken, metrics>>

\* The lock, and the index as it then is; one that does not parse is an error.
TakeLock(p) ==
  /\ stage[p] = "ready"
  /\ locked = Free
  /\ \/ /\ index = Damaged
        /\ Leave(p, "failed")
        /\ UNCHANGED locked
     \/ /\ index # Damaged
        /\ locked' = p
        /\ job' = [job EXCEPT ![p].work = Certified(IF index = Missing THEN Created ELSE index)]
        /\ Goto(p, "publishing")
  /\ UNCHANGED <<plan, looks, index, files, view, broken, runs, metrics>>

\* A publication that ends here leaves its kind broken once a payload is new.
Abandon(p) ==
  broken' = IF stage[p] = "publishing" /\ job[p].todo # Artifacts(Kind[p])
            THEN broken \cup {Kind[p]} ELSE broken

Unlock(p) == locked' = IF locked = p THEN Free ELSE locked

WritePayload(p) ==
  /\ stage[p] = "publishing"
  /\ \E a \in job[p].todo :
       /\ files' = [files EXCEPT ![a] = job[p].results[a]]
       /\ job' = [job EXCEPT ![p].todo = @ \ {a}]
  /\ UNCHANGED <<plan, looks, index, locked, stage, view, broken, runs, metrics>>

WriteIndex(p) ==
  /\ stage[p] = "publishing"
  /\ job[p].todo = {}
  /\ index' = Indexed(job[p].work, Kind[p], job[p].results)
  /\ broken' = broken \ {Kind[p]}
  /\ Unlock(p)
  /\ Leave(p, "done")
  /\ UNCHANGED <<plan, looks, files, view, runs, metrics>>

\* A directory, lock or file cannot be made or written: the error ends the
\* publication and drops the lock.
PublishFails(p) ==
  /\ stage[p] \in {"ready", "publishing"}
  /\ Abandon(p)
  /\ Unlock(p)
  /\ Leave(p, "failed")
  /\ UNCHANGED <<plan, looks, index, files, view, runs, metrics>>

\* Mutant of Die: a dead process leaves its lock behind.
DieLocked(p) ==
  /\ stage[p] \in {"ready", "publishing"}
  /\ Abandon(p)
  /\ Leave(p, "dead")
  /\ UNCHANGED <<plan, looks, locked, index, files, view, runs, metrics>>

Die(p) ==
  /\ stage[p] \in {"ready", "publishing"}
  /\ Abandon(p)
  /\ Unlock(p)
  /\ Leave(p, "dead")
  /\ UNCHANGED <<plan, looks, index, files, view, runs, metrics>>

\* The next run of the same command.
Again(p) ==
  /\ stage[p] \in {"done", "failed", "dead"}
  /\ runs < plan.runs
  /\ Goto(p, "idle")
  /\ UNCHANGED <<plan, looks, index, files, locked, job, view, broken, runs, metrics>>

----
(* The script's metrics, and the console's snapshot. *)

\* quality: the report of the quality run that the script puts into its metrics.
ReplaceMetrics(quality) ==
  /\ metrics < plan.metrics
  /\ metrics' = metrics + 1
  /\ files' = [files EXCEPT !["metrics"] = [run |-> metrics', status |-> "pass", seen |-> quality]]
  /\ UNCHANGED <<plan, looks, index, locked, stage, job, view, broken, runs>>

See(v) == view' = v

\* load_snapshot: the index, or the failure to read it.
LookAtIndex ==
  /\ view.at = "idle"
  /\ looks < plan.looks
  /\ looks' = looks + 1
  /\ See([at |-> IF index = Missing THEN "absent" ELSE IF index = Damaged THEN "shown" ELSE "certification",
          index |-> index,
          status |-> IF index = Missing THEN "missing" ELSE IF index = Damaged THEN "error" ELSE index.overall])
  /\ UNCHANGED <<plan, index, files, locked, stage, job, broken, runs, metrics>>

\* Without an index: an index that has appeared since is reported as an
\* error; else metrics.json alone is shown, if there is one.
LookAgain ==
  /\ view.at = "absent"
  /\ See([view EXCEPT !.at = "shown",
                      !.status = IF index # Missing THEN "error"
                                 ELSE IF files["metrics"] # Missing THEN "pass" ELSE "missing"])
  /\ UNCHANGED <<plan, looks, index, files, locked, stage, job, broken, runs, metrics>>

LookAtCertification ==
  /\ view.at = "certification"
  /\ See(IF view.index.cert # Missing /\ files["metrics"] = Missing
         THEN [view EXCEPT !.at = "shown", !.status = "error"]
         ELSE [view EXCEPT !.at = "recall"])
  /\ UNCHANGED <<plan, looks, index, files, locked, stage, job, broken, runs, metrics>>

LookAtRecall ==
  /\ view.at = "recall"
  /\ See([view EXCEPT !.at = "shown",
                      !.status = IF view.index.recall # Missing /\ files["recall"] = Missing
                                 THEN "error" ELSE @])
  /\ UNCHANGED <<plan, looks, index, files, locked, stage, job, broken, runs, metrics>>

Forget ==
  /\ view.at = "shown"
  /\ See([at |-> "idle", index |-> Missing, status |-> "missing"])
  /\ UNCHANGED <<plan, looks, index, files, locked, stage, job, broken, runs, metrics>>

----
Work(p) == Evaluate(p) \/ TakeLock(p) \/ WritePayload(p) \/ WriteIndex(p) \/ PublishFails(p)

Look == LookAtIndex \/ LookAgain \/ LookAtCertification \/ LookAtRecall \/ Forget

EvidenceStep ==
  \/ \E p \in Producers : Work(p) \/ Die(p) \/ Again(p)
  \/ Look

----
(* Properties. *)

Recorded(i, a) == IF a = "recall" THEN i.recall ELSE IF a \in DOMAIN i.harness THEN i.harness[a] ELSE Missing

(* publish_indexed_evidence: concurrent producers never leave a record of  *)
(* one run beside the payload of another.  Only a publication that stopped *)
(* half way does, and the next whole one of its kind repairs that.         *)
RecordsDescribePayloads ==
  Known(index) =>
    \A kind \in {"recall", "harness"} \ broken :
      (locked = Free \/ Kind[locked] # kind) =>
        \A a \in Artifacts(kind) : Recorded(index, a) # Missing => Recorded(index, a) = files[a]

(* The index as a whole is never better than what any producer last        *)
(* recorded in it, and it lists as missing exactly what is missing, though *)
(* either kind of producer writes it without knowing of the other.         *)
IndexHonest ==
  Known(index) =>
    /\ index.overall = "pass" => Statuses(index) \subseteq {"pass", "skip"} /\ index.cert # Missing
    /\ index.missing = Lacking(index)

(* A harness is recorded as passing only on a fresh receipt that proves    *)
(* shared activation under this project's manifest and this adapter; a     *)
(* recall run only if every query returned what it had to and nothing that *)
(* is forbidden.                                                           *)
HarnessEarned(record) ==
  record.status = "pass" =>
    /\ record.seen.manifest = "recorded" /\ ContractMatches(record.seen)
    /\ record.seen.receipts = "valid" /\ record.seen.proven = "active"

RecallEarned(record) ==
  record.status = "pass" =>
    \A k \in DOMAIN Cases :
      LET returned == record.seen[k]
      IN  /\ \A id \in Cases[k].forbidden : \A j \in DOMAIN returned : returned[j] # id
          /\ Cases[k].expected # Unnamed =>
               \E j \in DOMAIN returned :
                 returned[j] = Cases[k].expected /\ (Cases[k].rank # Unnamed => j <= Cases[k].rank)

PassIsEarned ==
  Known(index) =>
    /\ \A h \in Harnesses \cap DOMAIN index.harness : HarnessEarned(index.harness[h])
    /\ index.recall # Missing => RecallEarned(index.recall)

(* Whatever is published meanwhile, the console loads the payloads of the  *)
(* index it has read.                                                      *)
SnapshotLoads == view.at = "shown" /\ Known(view.index) => view.status = view.index.overall

(* Every run publishes, fails or dies: nobody waits for the lock of a dead *)
(* producer.                                                               *)
RunsEndInTime == \A p \in Producers : (stage[p] = "ready") ~> (stage[p] \in {"done", "failed", "dead"})

EvidenceConsistent == RecordsDescribePayloads /\ IndexHonest /\ SnapshotLoads

(* Index, payloads and what the console shows of them agree though every   *)
(* run may die between two files, and no run is kept from publishing.      *)
EvidencePublished == []EvidenceConsistent /\ RunsEndInTime
====
