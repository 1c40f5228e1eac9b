---- MODULE Certification_proofs ----
(***************************************************************************)
(* Proofs about Certification, for any producers, harnesses, query sets,   *)
(* directories of scenarios and agents: a pass is earned, index, payloads  *)
(* and console agree, and a workflow proof counts what it has observed.    *)
(* Then about Console, which shows them: the events it reads are those of  *)
(* the stream, what its frames show may be seen, and what it does to the   *)
(* store was on the screen.                                                *)
(***************************************************************************)
EXTENDS Certification, Console, FiniteSetTheorems, SequenceTheorems, WellFoundedInduction, TLAPS

----
(***************************************************************************)
(* Verdicts.                                                               *)
(***************************************************************************)

HarnessRecord == [run : Nat, status : {"pass", "skip", "fail"}, seen : Sights]
RecallRecord == [run : Nat, status : {"pass", "fail", "needs_review"}, seen : Recalls]
MetricsRecord == [run : Nat, status : {"pass"}, seen : [pass : {TRUE}, count : Nat, errors : {0}]]

(* evaluate_query: a query that passes returned nothing forbidden, and what *)
(* it should return within its rank.                                       *)
LEMMA QueryPasses ==
  ASSUME NEW case, NEW returned, IsList(returned), case.rank \in Nat \cup {Unnamed},
         EvaluateQuery(case, returned) = "pass"
  PROVE  /\ \A id \in case.forbidden : \A j \in DOMAIN returned : returned[j] # id
         /\ case.expected # Unnamed =>
              \E j \in DOMAIN returned : returned[j] = case.expected /\ (case.rank # Unnamed => j <= case.rank)
<1>1. ~ForbiddenReturned(case, returned) /\ ExpectedStatus(case, returned) = "pass"
  BY DEF EvaluateQuery
<1>2. \A id \in case.forbidden : \A j \in DOMAIN returned : returned[j] # id
  BY <1>1 DEF ForbiddenReturned
<1>3. ASSUME case.expected # Unnamed
      PROVE  \E j \in DOMAIN returned : returned[j] = case.expected /\ (case.rank # Unnamed => j <= case.rank)
  <2>1. \E j \in DOMAIN returned : returned[j] = case.expected
    BY <1>1, <1>3 DEF ExpectedStatus
  <2> DEFINE j == RankOf(case.expected, returned)
  <2>2. j \in DOMAIN returned /\ returned[j] = case.expected
    BY <2>1 DEF RankOf
  <2>3. ~(case.rank # Unnamed /\ j > case.rank)
    BY <1>1, <1>3, <2>1 DEF ExpectedStatus
  <2>4. j \in Nat
    BY <2>2 DEF IsList
  <2> HIDE DEF j
  <2>5. case.rank # Unnamed => j <= case.rank
    BY <2>3, <2>4
  <2> QED
    BY <2>2, <2>5
<1> QED
  BY <1>2, <1>3

(* report_status: a report that passes has no query that fails or needs     *)
(* review.                                                                 *)
LEMMA ReportPasses ==
  ASSUME NEW statuses, IsFiniteSet(DOMAIN statuses),
         \A k \in DOMAIN statuses : statuses[k] \in {"pass", "fail", "needs_review"},
         ReportStatus(Summarize(statuses)) = "pass"
  PROVE  \A k \in DOMAIN statuses : statuses[k] = "pass"
<1> DEFINE of(s) == {k \in DOMAIN statuses : statuses[k] = s}
<1>1. \A s \in {"fail", "needs_review"} : Cardinality(of(s)) \in Nat /\ ~(Cardinality(of(s)) > 0)
  <2>1. \A s \in {"fail", "needs_review"} : IsFiniteSet(of(s))
    BY FS_Subset
  <2>2. \A s \in {"fail", "needs_review"} : Summarize(statuses)[s] = Cardinality(of(s))
    BY DEF Summarize
  <2>3. \A s \in {"fail", "needs_review"} : ~(Summarize(statuses)[s] > 0)
    BY DEF ReportStatus
  <2> HIDE DEF of
  <2> QED
    BY <2>1, <2>2, <2>3, FS_CardinalityType
<1>2. \A s \in {"fail", "needs_review"} : of(s) = {}
  <2>1. \A s \in {"fail", "needs_review"} : IsFiniteSet(of(s))
    BY FS_Subset
  <2>2. \A s \in {"fail", "needs_review"} : Cardinality(of(s)) = 0
    <3> HIDE DEF of
    <3> QED
      BY <1>1
  <2> HIDE DEF of
  <2> QED
    BY <2>1, <2>2, FS_EmptySet
<1> QED
  BY <1>2

(* run_recall_quality: a report that passes was earned by every query.      *)
LEMMA RecallVerdict ==
  ASSUME NEW returned \in Recalls
  PROVE  /\ RecallReport(Cases, returned) \in {"pass", "fail", "needs_review"}
         /\ \A n : RecallEarned([run |-> n, status |-> RecallReport(Cases, returned), seen |-> returned])
<1> DEFINE statuses == [k \in DOMAIN Cases |-> EvaluateQuery(Cases[k], returned[k])]
<1>1. RecallReport(Cases, returned) = ReportStatus(Summarize(statuses))
  BY DEF RecallReport
<1>2. ReportStatus(Summarize(statuses)) \in {"pass", "fail", "needs_review"}
  BY DEF ReportStatus
<1>3. IsFiniteSet(DOMAIN statuses)
  BY FS_Interval, JudgedAssumption DEF IsList
<1>4. \A k \in DOMAIN statuses : statuses[k] \in {"pass", "fail", "needs_review"}
  BY DEF EvaluateQuery, ExpectedStatus
<1>5. ASSUME NEW n, RecallReport(Cases, returned) = "pass"
      PROVE  RecallEarned([run |-> n, status |-> RecallReport(Cases, returned), seen |-> returned])
  <2>1. \A k \in DOMAIN Cases : EvaluateQuery(Cases[k], returned[k]) = "pass"
    <3>1. \A k \in DOMAIN statuses : statuses[k] = "pass"
      <4> HIDE DEF statuses
      <4> QED
        BY <1>1, <1>3, <1>4, <1>5, ReportPasses
    <3> QED
      BY <3>1
  <2>2. \A k \in DOMAIN Cases : IsList(returned[k]) /\ Cases[k].rank \in Nat \cup {Unnamed}
    BY JudgedAssumption
  <2> QED
    BY <2>1, <2>2, QueryPasses DEF RecallEarned
<1>6. \A n : RecallEarned([run |-> n, status |-> RecallReport(Cases, returned), seen |-> returned])
  BY <1>5 DEF RecallEarned
<1> QED
  BY <1>1, <1>2, <1>6

(* probe_record: a harness that passes was proven.                          *)
LEMMA ProbeVerdict ==
  ASSUME NEW sight \in Sights
  PROVE  /\ ProbeRecord(sight).status \in {"pass", "skip", "fail"}
         /\ \A n : HarnessEarned([run |-> n, status |-> ProbeRecord(sight).status, seen |-> sight])
<1>1. ProbeRecord(sight).status \in {"pass", "skip", "fail"}
  BY DEF ProbeRecord, ReceiptResult, Result
<1>2. ASSUME ProbeRecord(sight).status = "pass"
      PROVE  /\ sight.manifest = "recorded" /\ ContractMatches(sight)
             /\ sight.receipts = "valid" /\ sight.proven = "active"
  BY <1>2, JudgedAssumption DEF ProbeRecord, ReceiptResult, Result
<1> QED
  BY <1>1, <1>2 DEF HarnessEarned

----
(***************************************************************************)
(* The evidence directory.                                                 *)
(***************************************************************************)

Earned(record) == record \in HarnessRecord /\ HarnessEarned(record)
EarnedRecall(record) == record \in RecallRecord /\ RecallEarned(record)

\* Only records that were earned are written to the payloads.
FilesInv ==
  /\ runs \in Nat /\ metrics \in Nat
  /\ files = [a \in {"metrics", "recall"} \cup Harnesses |-> files[a]]
  /\ files["metrics"] # Missing => files["metrics"] \in MetricsRecord
  /\ files["recall"] # Missing => EarnedRecall(files["recall"])

\* What an index holds besides its roll-up; a payload goes with each record.
Sound(i, payloads) ==
  /\ IsIndex(i)
  /\ i.cert # Missing => i.cert \in MetricsRecord /\ payloads["metrics"] # Missing
  /\ i.recall # Missing => EarnedRecall(i.recall) /\ payloads["recall"] # Missing
  /\ \A h \in DOMAIN i.harness : i.harness[h].status \in {"pass", "skip", "fail"}
  /\ \A h \in Harnesses \cap DOMAIN i.harness : Earned(i.harness[h])
  /\ i.missing = Lacking(i)

IndexInv == Known(index) => Sound(index, files)

\* What a producer will publish, and what it has still to write.
Computed(made, at, kind) ==
  /\ made = [results |-> made.results, work |-> made.work, todo |-> made.todo]
  /\ made.todo \subseteq Artifacts(kind)
  /\ kind = "recall" => EarnedRecall(made.results["recall"])
  /\ kind = "harness" => \A h \in Harnesses : Earned(made.results[h])
  /\ at = "ready" => made.todo = Artifacts(kind)

JobInv ==
  \A p \in Producers : stage[p] \in {"ready", "publishing"} => Computed(job[p], stage[p], Kind[p])

\* Whoever holds the lock works on the index as it is.
WorkInv ==
  /\ stage = [p \in Producers |-> stage[p]]
  /\ job = [p \in Producers |-> job[p]]
  /\ \A p \in Producers : locked = p <=> stage[p] = "publishing"
  /\ \A p \in Producers : stage[p] = "publishing" =>
       /\ index # Damaged
       /\ Sound(job[p].work, files)
       /\ \A a \in {"recall"} \cup Harnesses :
            Recorded(job[p].work, a) = (IF index = Missing THEN Missing ELSE Recorded(index, a))
       /\ \A a \in Artifacts(Kind[p]) \ job[p].todo : files[a] = job[p].results[a]
       /\ Kind[p] \notin broken /\ Known(index) =>
            \A a \in job[p].todo : Recorded(index, a) # Missing => Recorded(index, a) = files[a]

\* What the console read of the index, its payloads are still there for.
ViewInv ==
  /\ view = [at |-> view.at, index |-> view.index, status |-> view.status]
  /\ view.at = "absent" => view.index = Missing
  /\ view.at \in {"certification", "recall"} =>
       /\ view.status = view.index.overall
       /\ view.index.cert # Missing => files["metrics"] # Missing
       /\ view.index.recall # Missing => files["recall"] # Missing

EvidenceInv ==
  FilesInv /\ IndexInv /\ JobInv /\ WorkInv /\ ViewInv /\ RecordsDescribePayloads /\ IndexHonest /\ SnapshotLoads

(* Records are not Missing.                                                 *)
LEMMA RecordsAreThere ==
  /\ \A record : Earned(record) \/ EarnedRecall(record) \/ record \in MetricsRecord => record # Missing
BY MissingAssumption, CertificationAssumption
   DEF Earned, EarnedRecall, HarnessRecord, RecallRecord, MetricsRecord

(* rollup_index_status: the roll-up passes only over records that all do,   *)
(* or are skipped, and on a certification.                                 *)
LEMMA RollupHonest ==
  ASSUME NEW i, Rollup(i) = "pass",
         i.recall # Missing => i.recall.status \in {"pass", "fail", "needs_review"},
         \A h \in DOMAIN i.harness : i.harness[h].status \in {"pass", "skip", "fail"}
  PROVE  Statuses(i) \subseteq {"pass", "skip"} /\ i.cert # Missing
<1>1. "fail" \notin Statuses(i) /\ i.cert # Missing
  BY DEF Rollup
<1>2. i.recall # Missing => i.recall.status # "needs_review"
  BY <1>1 DEF Rollup
<1> QED
  BY <1>1, <1>2 DEF Statuses

\* Publishing replaces the records of its own kind and keeps the others.
Replaces(new, i, kind, results) ==
  \A a \in {"recall"} \cup Harnesses :
    Recorded(new, a) = IF a \in Artifacts(kind) THEN results[a] ELSE Recorded(i, a)

(* publish_indexed_evidence: what publish makes of a sound index with       *)
(* earned results is sound, and its roll-up is honest.                     *)
LEMMA IndexedIsSound ==
  ASSUME NEW i, NEW kind \in {"recall", "harness"}, NEW results, NEW payloads, Sound(i, payloads),
         kind = "recall" => EarnedRecall(results["recall"]) /\ payloads["recall"] # Missing,
         kind = "harness" => \A h \in Harnesses : Earned(results[h]),
         NEW new, new = Indexed(i, kind, results)
  PROVE  /\ Sound(new, payloads)
         /\ new.overall = "pass" => Statuses(new) \subseteq {"pass", "skip"} /\ new.cert # Missing
         /\ Replaces(new, i, kind, results)
<1> DEFINE filled == Filled(i, kind, results)
           made == [filled EXCEPT !.overall = Rollup(filled)]
<1>0. made = new
  BY DEF Indexed
<1>1. PICK c, h, r, m, o : i = [cert |-> c, harness |-> h, recall |-> r, missing |-> m, overall |-> o]
  BY DEF Sound, IsIndex
<1>2. CASE kind = "recall"
  <2> DEFINE lacks == (m \ {"recall_quality", "harness"}) \cup (IF DOMAIN h = {} THEN {"harness"} ELSE {})
  <2>1. filled = [cert |-> c, harness |-> h, recall |-> results["recall"], missing |-> lacks, overall |-> o]
    BY <1>1, <1>2 DEF Filled
  <2> HIDE DEF filled
  <2>2. made = [cert |-> c, harness |-> h, recall |-> results["recall"], missing |-> lacks,
                overall |-> Rollup(filled)]
    <3>1. PICK v : v = Rollup(filled)
      OBVIOUS
    <3> HIDE DEF lacks
    <3>2. [filled EXCEPT !.overall = v] =
            [cert |-> c, harness |-> h, recall |-> results["recall"], missing |-> lacks, overall |-> v]
      BY <2>1
    <3> QED
      BY <3>1, <3>2
  <2>3. lacks = Lacking(made)
    BY <1>1, <1>2, <2>2, RecordsAreThere DEF Sound, Lacking
  <2>4. Sound(made, payloads)
    <3> HIDE DEF lacks, made
    <3> QED
      BY <1>1, <1>2, <2>2, <2>3 DEF Sound, IsIndex
  <2>5. made.overall = "pass" => Statuses(made) \subseteq {"pass", "skip"} /\ made.cert # Missing
    <3>1. Statuses(made) = Statuses(filled) /\ made.cert = filled.cert /\ made.overall = Rollup(filled)
      BY <2>1, <2>2 DEF Statuses
    <3>2. filled.recall = results["recall"] /\ filled.harness = i.harness
      BY <1>1, <2>1
    <3> HIDE DEF made
    <3> QED
      BY <1>2, <3>1, <3>2, RollupHonest DEF Sound, EarnedRecall, RecallRecord
  <2>7. \A a \in {"recall"} \cup Harnesses :
          Recorded(made, a) = IF a \in Artifacts(kind) THEN results[a] ELSE Recorded(i, a)
    BY <1>1, <1>2, <2>2, EvidenceAssumption DEF Recorded, Artifacts
  <2> HIDE DEF made
  <2> QED
    BY <1>0, <2>4, <2>5, <2>7 DEF Replaces
<1>3. CASE kind = "harness"
  <2> DEFINE lacks == (m \ {"harness"}) \cup (IF r = Missing THEN {"recall_quality"} ELSE {})
             held == [x \in DOMAIN h \cup Harnesses |-> IF x \in Harnesses THEN results[x] ELSE h[x]]
  <2>1. filled = [cert |-> c, harness |-> held, recall |-> r, missing |-> lacks, overall |-> o]
    BY <1>1, <1>3 DEF Filled
  <2> HIDE DEF filled
  <2>2. made = [cert |-> c, harness |-> held, recall |-> r, missing |-> lacks, overall |-> Rollup(filled)]
    <3>1. PICK v : v = Rollup(filled)
      OBVIOUS
    <3> HIDE DEF lacks, held
    <3>2. [filled EXCEPT !.overall = v] =
            [cert |-> c, harness |-> held, recall |-> r, missing |-> lacks, overall |-> v]
      BY <2>1
    <3> QED
      BY <3>1, <3>2
  <2>3. lacks = Lacking(made)
    <3>1. DOMAIN made.harness # {}
      BY <2>2, EvidenceAssumption
    <3>2. m = Lacking(i) /\ made.recall = i.recall /\ i.recall = r
      BY <1>1, <2>2 DEF Sound
    <3> HIDE DEF made
    <3> QED
      BY <3>1, <3>2 DEF Lacking
  <2>4. \A x \in Harnesses \cap DOMAIN made.harness : Earned(made.harness[x])
    BY <1>3, <2>2
  <2>5. \A x \in DOMAIN made.harness : made.harness[x].status \in {"pass", "skip", "fail"}
    <3>1. \A x \in Harnesses : results[x].status \in {"pass", "skip", "fail"}
      BY <1>3 DEF Earned, HarnessRecord
    <3> QED
      BY <1>1, <2>2, <3>1 DEF Sound
  <2>6. Sound(made, payloads)
    <3> HIDE DEF lacks, held, made
    <3> QED
      BY <1>1, <2>2, <2>3, <2>4, <2>5 DEF Sound, IsIndex
  <2>7. made.overall = "pass" => Statuses(made) \subseteq {"pass", "skip"} /\ made.cert # Missing
    <3>1. Statuses(made) = Statuses(filled) /\ made.cert = filled.cert /\ made.overall = Rollup(filled)
      BY <2>1, <2>2 DEF Statuses
    <3>2. filled.recall = i.recall /\ filled.harness = made.harness
      BY <1>1, <2>1, <2>2
    <3> HIDE DEF made
    <3> QED
      BY <2>5, <3>1, <3>2, RollupHonest DEF Sound, EarnedRecall, RecallRecord
  <2>9. \A a \in {"recall"} \cup Harnesses :
          Recorded(made, a) = IF a \in Artifacts(kind) THEN results[a] ELSE Recorded(i, a)
    BY <1>1, <1>3, <2>2, EvidenceAssumption DEF Recorded, Artifacts
  <2> HIDE DEF made
  <2> QED
    BY <1>0, <2>6, <2>7, <2>9 DEF Replaces
<1> QED
  BY <1>2, <1>3

(* An index stays sound while no payload goes away.                         *)
LEMMA SoundStays ==
  ASSUME NEW i, NEW old, NEW new, Sound(i, old),
         \A a \in {"metrics", "recall"} : old[a] # Missing => new[a] # Missing
  PROVE  Sound(i, new)
BY DEF Sound

(* certification_record_from_metrics changes nothing but the certification. *)
LEMMA CertifiedIsSound ==
  ASSUME FilesInv, NEW i, Sound(i, files)
  PROVE  /\ Sound(Certified(i), files)
         /\ \A a : Recorded(Certified(i), a) = Recorded(i, a)
<1>1. PICK c, h, r, m, o : i = [cert |-> c, harness |-> h, recall |-> r, missing |-> m, overall |-> o]
  BY DEF Sound, IsIndex
<1>2. CASE files["metrics"] = Missing
  BY <1>2 DEF Certified
<1>3. CASE files["metrics"] # Missing
  <2> DEFINE with == [cert |-> files["metrics"], harness |-> h, recall |-> r, missing |-> m, overall |-> o]
  <2>1. Certified(i) = with
    BY <1>1, <1>3 DEF Certified
  <2>2. Sound(with, files)
    BY <1>1, <1>3 DEF Sound, IsIndex, Lacking, FilesInv
  <2>3. \A a : Recorded(with, a) = Recorded(i, a)
    BY <1>1 DEF Recorded
  <2> QED
    BY <2>1, <2>2, <2>3
<1> QED
  BY <1>2, <1>3

(* read_or_create_index: what a producer starts from.                       *)
LEMMA StartIsSound ==
  ASSUME EvidenceInv, index # Damaged, NEW start, start = IF index = Missing THEN Created ELSE index
  PROVE  /\ Sound(start, files)
         /\ \A a : Recorded(start, a) = IF index = Missing THEN Missing ELSE Recorded(index, a)
<1>1. CASE index = Missing
  BY <1>1 DEF Created, Sound, IsIndex, Lacking, Recorded
<1>2. CASE index # Missing
  BY <1>2 DEF EvidenceInv, IndexInv, Known
<1> QED
  BY <1>1, <1>2

(* The artifacts of the two kinds are apart, and none is metrics.json.      *)
LEMMA ArtifactsApart ==
  /\ Artifacts("recall") = {"recall"} /\ Artifacts("harness") = Harnesses
  /\ "recall" \notin Harnesses /\ "metrics" \notin Harnesses
BY EvidenceAssumption DEF Artifacts

----
(* A producer: what does not change for the others.                         *)
Elsewhere(p) ==
  \A q \in Producers \ {p} : stage'[q] = stage[q] /\ job'[q] = job[q]

(* A producer that has written a payload, or read the index, goes on with    *)
(* the results it computed.                                                *)
LEMMA GoesOn ==
  ASSUME NEW made, NEW at, NEW kind, Computed(made, at, kind), NEW work, NEW todo \in SUBSET made.todo,
         NEW next, next = [results |-> made.results, work |-> work, todo |-> todo]
  PROVE  /\ next.results = made.results /\ next.work = work /\ next.todo = todo
         /\ Computed(next, "publishing", kind)
<1>1. next.results = made.results /\ next.work = work /\ next.todo = todo
  OBVIOUS
<1> QED
  BY <1>1 DEF Computed

(* certify_harnesses, run_recall_quality: only results that were observed   *)
(* are taken to the lock.                                                  *)
LEMMA EvaluateStep ==
  ASSUME EvidenceInv, NEW p \in Producers, Evaluate(p)
  PROVE  EvidenceInv'
<1> USE DEF EvidenceInv
<1>1. /\ UNCHANGED <<index, files, locked, view, broken, metrics>> /\ runs' = runs + 1
      /\ stage[p] = "idle" /\ stage' = [stage EXCEPT ![p] = "ready"]
  BY DEF Evaluate, Goto
<1>2. \E work : job' = [job EXCEPT ![p] = work]
  BY DEF Evaluate
<1>3. Elsewhere(p) /\ stage'[p] = "ready"
  BY <1>1, <1>2 DEF Elsewhere, WorkInv
<1>4. FilesInv' /\ IndexInv' /\ ViewInv' /\ RecordsDescribePayloads' /\ IndexHonest' /\ SnapshotLoads'
  BY <1>1
    DEF FilesInv, IndexInv, ViewInv, RecordsDescribePayloads, IndexHonest, SnapshotLoads
<1>5. JobInv'
  <2>1. CASE Kind[p] = "recall"
    <3>1. PICK returned \in Recalls :
            job'[p] = [results |-> [a \in {"recall"} |->
                                      [run |-> runs', status |-> RecallReport(Cases, returned), seen |-> returned]],
                       work |-> Missing, todo |-> {"recall"}]
      BY <2>1 DEF Evaluate, WorkInv
    <3>2. EarnedRecall(job'[p].results["recall"])
      BY <1>1, <3>1, RecallVerdict DEF EarnedRecall, RecallRecord, FilesInv
    <3>3. Computed(job'[p], "ready", Kind[p])
      BY <2>1, <3>1, <3>2, ArtifactsApart DEF Computed
    <3> QED
      BY <1>3, <3>3 DEF JobInv, Elsewhere
  <2>2. CASE Kind[p] = "harness"
    <3>1. PICK sight \in [Harnesses -> Sights] :
            job'[p] = [results |-> [h \in Harnesses |->
                                      [run |-> runs', status |-> ProbeRecord(sight[h]).status, seen |-> sight[h]]],
                       work |-> Missing, todo |-> Harnesses]
      BY <2>2 DEF Evaluate, WorkInv
    <3>2. ASSUME NEW h \in Harnesses PROVE Earned(job'[p].results[h])
      <4>1. job'[p].results[h] = [run |-> runs', status |-> ProbeRecord(sight[h]).status, seen |-> sight[h]]
        BY <3>1
      <4>2. sight[h] \in Sights /\ runs' \in Nat
        BY <1>1 DEF FilesInv
      <4> QED
        BY <4>1, <4>2, ProbeVerdict DEF Earned, HarnessRecord
    <3>3. Computed(job'[p], "ready", Kind[p])
      BY <2>2, <3>1, <3>2, ArtifactsApart DEF Computed
    <3> QED
      BY <1>3, <3>3 DEF JobInv, Elsewhere
  <2> QED
    BY <2>1, <2>2, EvidenceAssumption
<1>6. WorkInv'
  <2>1. stage' = [q \in Producers |-> stage'[q]] /\ job' = [q \in Producers |-> job'[q]]
    BY <1>1, <1>2 DEF WorkInv
  <2>2. \A q \in Producers : stage'[q] = "publishing" => q # p
    BY <1>3
  <2>3. \A q \in Producers : locked' = q <=> stage'[q] = "publishing"
    BY <1>1, <1>3 DEF WorkInv, Elsewhere
  <2> QED
    BY <1>1, <1>3, <2>1, <2>2, <2>3 DEF WorkInv, Elsewhere
<1> QED
  BY <1>4, <1>5, <1>6

(* publish_indexed_evidence: the lock is taken before the index is read.    *)
LEMMA TakeLockStep ==
  ASSUME EvidenceInv, NEW p \in Producers, TakeLock(p)
  PROVE  EvidenceInv'
<1> USE DEF EvidenceInv
<1>1. /\ UNCHANGED <<index, files, view, broken, runs, metrics>>
      /\ stage[p] = "ready" /\ locked = Free
  BY DEF TakeLock
<1>2. FilesInv' /\ IndexInv' /\ ViewInv' /\ IndexHonest' /\ SnapshotLoads'
  BY <1>1 DEF FilesInv, IndexInv, ViewInv, IndexHonest, SnapshotLoads
<1>3. \A q \in Producers : stage[q] # "publishing"
  BY <1>1, EvidenceAssumption DEF WorkInv
<1>4. CASE index = Damaged
  <2>1. /\ stage' = [stage EXCEPT ![p] = "failed"] /\ job' = [job EXCEPT ![p] = Missing] /\ locked' = locked
    BY <1>4 DEF TakeLock, Leave, Goto
  <2>2. Elsewhere(p) /\ stage'[p] = "failed"
    BY <2>1 DEF Elsewhere, WorkInv
  <2>3. JobInv'
    BY <2>2 DEF JobInv, Elsewhere
  <2>4. WorkInv'
    <3>1. \A q \in Producers : stage'[q] # "publishing" /\ locked' # q
      BY <1>1, <1>3, <2>1, <2>2, EvidenceAssumption DEF Elsewhere
    <3> QED
      BY <2>1, <3>1 DEF WorkInv
  <2>5. RecordsDescribePayloads'
    BY <1>1, <2>1 DEF RecordsDescribePayloads
  <2> QED
    BY <1>2, <2>3, <2>4, <2>5
<1>5. CASE index # Damaged
  <2> DEFINE start == IF index = Missing THEN Created ELSE index
             work == Certified(start)
  <2>1. /\ stage' = [stage EXCEPT ![p] = "publishing"] /\ job' = [job EXCEPT ![p].work = work] /\ locked' = p
    BY <1>5 DEF TakeLock, Goto
  <2>2. Sound(work, files) /\ \A a : Recorded(work, a) = IF index = Missing THEN Missing ELSE Recorded(index, a)
    BY <1>5, StartIsSound, CertifiedIsSound
  <2> HIDE DEF work
  <2>3. /\ Elsewhere(p) /\ stage'[p] = "publishing"
        /\ job'[p] = [results |-> job[p].results, work |-> work, todo |-> job[p].todo]
    BY <1>1, <2>1 DEF Elsewhere, WorkInv, JobInv, Computed
  <2>4. /\ job'[p].results = job[p].results /\ job'[p].work = work /\ job'[p].todo = job[p].todo
        /\ Computed(job'[p], "publishing", Kind[p])
    BY <1>1, <2>3, GoesOn DEF JobInv
  <2>7. JobInv'
    BY <2>3, <2>4 DEF JobInv, Elsewhere
  <2>5. WorkInv'
    <3>1. \A q \in Producers : locked' = q <=> stage'[q] = "publishing"
      BY <1>3, <2>1, <2>3 DEF Elsewhere
    <3>2. job'[p].todo = Artifacts(Kind[p]) /\ job'[p].work = work
      BY <1>1, <2>4 DEF JobInv, Computed
    <3>3. Kind[p] \notin broken /\ Known(index) =>
            \A a \in Artifacts(Kind[p]) : Recorded(index, a) # Missing => Recorded(index, a) = files[a]
      BY <1>1, EvidenceAssumption DEF RecordsDescribePayloads
    <3>4. stage' = [q \in Producers |-> stage'[q]] /\ job' = [q \in Producers |-> job'[q]]
      BY <2>1 DEF WorkInv
    <3>5. \A q \in Producers : stage'[q] = "publishing" => q = p
      BY <1>3, <2>3 DEF Elsewhere
    <3> QED
      BY <1>1, <1>5, <2>2, <3>1, <3>2, <3>3, <3>4, <3>5 DEF WorkInv
  <2>6. RecordsDescribePayloads'
    BY <1>1, <2>1 DEF RecordsDescribePayloads
  <2> QED
    BY <1>2, <2>5, <2>6, <2>7
<1> QED
  BY <1>4, <1>5

(* write_json of a payload: it is the producer's own and was earned.        *)
LEMMA WritePayloadStep ==
  ASSUME EvidenceInv, NEW p \in Producers, WritePayload(p)
  PROVE  EvidenceInv'
<1> USE DEF EvidenceInv
<1>1. PICK a \in job[p].todo : /\ files' = [files EXCEPT ![a] = job[p].results[a]]
                               /\ job' = [job EXCEPT ![p].todo = @ \ {a}]
  BY DEF WritePayload
<1>2. UNCHANGED <<index, locked, stage, view, broken, runs, metrics>> /\ stage[p] = "publishing" /\ locked = p
  BY DEF WritePayload, WorkInv
<1>3. a \in Artifacts(Kind[p]) /\ Kind[p] \in {"recall", "harness"}
  BY <1>2, EvidenceAssumption DEF JobInv, Computed
<1>4. /\ Elsewhere(p)
      /\ job'[p] = [results |-> job[p].results, work |-> job[p].work, todo |-> job[p].todo \ {a}]
  BY <1>1, <1>2, SMTT(30) DEF Elsewhere, WorkInv, JobInv, Computed
<1>5. files'[a] = job[p].results[a] /\ \A b \in ({"metrics", "recall"} \cup Harnesses) \ {a} : files'[b] = files[b]
  BY <1>1, <1>3, ArtifactsApart DEF FilesInv
<1>6. (a = "recall" /\ EarnedRecall(files'[a])) \/ (a \in Harnesses /\ Earned(files'[a]))
  BY <1>2, <1>3, <1>5, ArtifactsApart DEF JobInv, Computed
<1>7. a # "metrics" /\ files'["metrics"] = files["metrics"] /\ (files["recall"] # Missing => files'["recall"] # Missing)
  BY <1>5, <1>6, ArtifactsApart, RecordsAreThere
<1>8. FilesInv'
  <2>1. files'["recall"] # Missing => EarnedRecall(files'["recall"])
    BY <1>5, <1>6, ArtifactsApart DEF FilesInv
  <2> QED
    BY <1>1, <1>2, <1>7, <2>1 DEF FilesInv
<1>9. IndexInv'
  BY <1>2, <1>7, SoundStays DEF IndexInv
<1>10. ViewInv' /\ IndexHonest' /\ SnapshotLoads'
  BY <1>2, <1>7 DEF ViewInv, IndexHonest, SnapshotLoads
<1>11. /\ job'[p].results = job[p].results /\ job'[p].work = job[p].work /\ job'[p].todo = job[p].todo \ {a}
      /\ Computed(job'[p], "publishing", Kind[p])
  <2>1. job[p].todo \ {a} \in SUBSET job[p].todo /\ Computed(job[p], stage[p], Kind[p])
    BY <1>2 DEF JobInv
  <2> QED
    BY <1>4, <2>1, GoesOn
<1>12. JobInv'
  BY <1>11, <1>2, <1>4 DEF JobInv, Elsewhere
<1>13. WorkInv'
  <2>1. Sound(job'[p].work, files')
    BY <1>11, <1>2, <1>7, SoundStays DEF WorkInv
  <2>2. \A b \in Artifacts(Kind[p]) \ job'[p].todo : files'[b] = job'[p].results[b]
    BY <1>11, <1>2, <1>3, <1>5, ArtifactsApart DEF WorkInv
  <2>3. \A b \in job'[p].todo : files'[b] = files[b]
    BY <1>11, <1>2, <1>3, <1>5, ArtifactsApart DEF JobInv, Computed
  <2>4. \A q \in Producers : stage'[q] = "publishing" => q = p
    BY <1>2 DEF WorkInv
  <2>5. job' = [q \in Producers |-> job'[q]]
    BY <1>1 DEF WorkInv
  <2> QED
    BY <1>11, <1>2, <2>1, <2>2, <2>3, <2>4, <2>5 DEF WorkInv
<1>14. RecordsDescribePayloads'
  <2>1. ASSUME NEW kind \in {"recall", "harness"}, kind # Kind[p], NEW b \in Artifacts(kind)
        PROVE  files'[b] = files[b]
    BY <1>3, <1>5, <2>1, ArtifactsApart
  <2>2. locked' # Free /\ locked' = p
    BY <1>2, EvidenceAssumption
  <2> QED
    BY <1>2, <2>1, <2>2 DEF RecordsDescribePayloads
<1> QED
  BY <1>8, <1>9, <1>10, <1>12, <1>13, <1>14

(* write_index: the index follows the payloads, under the same lock.        *)
LEMMA WriteIndexStep ==
  ASSUME EvidenceInv, NEW p \in Producers, WriteIndex(p)
  PROVE  EvidenceInv'
<1> USE DEF EvidenceInv
<1>0. PICK kind : kind = Kind[p]
  OBVIOUS
<1>1. /\ UNCHANGED <<files, view, runs, metrics>>
      /\ stage[p] = "publishing" /\ job[p].todo = {} /\ locked = p
      /\ index' = Indexed(job[p].work, kind, job[p].results)
      /\ broken' = broken \ {kind} /\ locked' = Free
      /\ stage' = [stage EXCEPT ![p] = "done"] /\ job' = [job EXCEPT ![p] = Missing]
  BY <1>0 DEF WriteIndex, Unlock, Leave, Goto, WorkInv
<1>2. Elsewhere(p) /\ stage'[p] = "done"
  BY <1>1 DEF Elsewhere, WorkInv
<1>3. kind \in {"recall", "harness"} /\ \A a \in Artifacts(kind) : files[a] = job[p].results[a]
  BY <1>0, <1>1, EvidenceAssumption DEF WorkInv
<1>4. /\ kind = "recall" => EarnedRecall(job[p].results["recall"]) /\ files["recall"] # Missing
      /\ kind = "harness" => \A h \in Harnesses : Earned(job[p].results[h])
  BY <1>0, <1>1, <1>3, ArtifactsApart, RecordsAreThere DEF JobInv, Computed
<1>5. /\ index # Damaged /\ Sound(job[p].work, files)
      /\ \A a \in {"recall"} \cup Harnesses :
           Recorded(job[p].work, a) = IF index = Missing THEN Missing ELSE Recorded(index, a)
  BY <1>1 DEF WorkInv
<1>6. /\ Sound(index', files)
      /\ index'.overall = "pass" => Statuses(index') \subseteq {"pass", "skip"} /\ index'.cert # Missing
      /\ \A a \in {"recall"} \cup Harnesses :
           Recorded(index', a) = IF a \in Artifacts(kind) THEN job[p].results[a] ELSE Recorded(job[p].work, a)
  <2>1. PICK i, results, new : i = job[p].work /\ results = job[p].results /\ new = index'
    OBVIOUS
  <2>2. Sound(i, files) /\ new = Indexed(i, kind, results)
    BY <1>1, <1>5, <2>1
  <2>3. /\ kind = "recall" => EarnedRecall(results["recall"]) /\ files["recall"] # Missing
        /\ kind = "harness" => \A h \in Harnesses : Earned(results[h])
    BY <1>4, <2>1
  <2>4. PICK payloads : payloads = files
    OBVIOUS
  <2>5. Sound(i, payloads) /\ new = Indexed(i, kind, results) /\ kind \in {"recall", "harness"}
    BY <1>3, <2>2, <2>4
  <2>6. kind = "recall" => EarnedRecall(results["recall"]) /\ payloads["recall"] # Missing
    BY <2>3, <2>4
  <2>7. kind = "harness" => \A h \in Harnesses : Earned(results[h])
    BY <2>3
  <2>8. Sound(new, payloads)
    BY <2>5, <2>6, <2>7, IndexedIsSound
  <2>9. new.overall = "pass" => Statuses(new) \subseteq {"pass", "skip"} /\ new.cert # Missing
    BY <2>5, <2>6, <2>7, IndexedIsSound
  <2>10. Replaces(new, i, kind, results)
    BY <2>5, <2>6, <2>7, IndexedIsSound
  <2>11. ASSUME NEW a \in {"recall"} \cup Harnesses
         PROVE  Recorded(new, a) = IF a \in Artifacts(kind) THEN results[a] ELSE Recorded(i, a)
    BY <2>10, <2>11 DEF Replaces
  <2> QED
    BY <2>1, <2>4, <2>8, <2>9, <2>11
<1>7. FilesInv' /\ IndexInv' /\ SnapshotLoads'
  BY <1>1, <1>6 DEF FilesInv, IndexInv, SnapshotLoads
<1>8. IndexHonest'
  BY <1>6 DEF IndexHonest, Sound
<1>9. JobInv'
  BY <1>2 DEF JobInv, Elsewhere
<1>10. WorkInv'
  <2>1. \A q \in Producers : stage'[q] # "publishing" /\ locked' # q
    BY <1>1, <1>2, EvidenceAssumption DEF Elsewhere, WorkInv
  <2>2. stage' = [q \in Producers |-> stage'[q]] /\ job' = [q \in Producers |-> job'[q]]
    BY <1>1 DEF WorkInv
  <2> QED
    BY <2>1, <2>2 DEF WorkInv
<1>11. ViewInv'
  <2>1. UNCHANGED <<files, view>> /\ ViewInv
    BY <1>1
  <2> QED
    BY <2>1 DEF ViewInv
<1>12. RecordsDescribePayloads'
  <2>1. ASSUME NEW other \in {"recall", "harness"}, other \notin broken', NEW a \in Artifacts(other),
               Recorded(index', a) # Missing
        PROVE  Recorded(index', a) = files[a]
    <3>1. a \in {"recall"} \cup Harnesses
      BY ArtifactsApart
    <3>2. CASE other = kind
      BY <1>3, <1>6, <3>1, <3>2
    <3>3. CASE other # kind
      <4>1. a \notin Artifacts(kind) /\ other \notin broken
        BY <1>1, <1>3, <2>1, <3>3, ArtifactsApart
      <4>2. Recorded(index', a) = Recorded(index, a) /\ index # Missing
        BY <1>5, <1>6, <2>1, <3>1, <4>1
      <4>3. locked # Free /\ Kind[locked] # other
        BY <1>0, <1>1, <3>3, EvidenceAssumption
      <4> QED
        BY <1>5, <2>1, <4>1, <4>2, <4>3 DEF RecordsDescribePayloads, Known
    <3> QED
      BY <3>2, <3>3
  <2> QED
    BY <1>1, <2>1 DEF RecordsDescribePayloads
<1> QED
  BY <1>7, <1>8, <1>9, <1>10, <1>11, <1>12

(* An error or a death ends a publication, and the lock with it: what is    *)
(* half way there is known to be broken.                                   *)
LEMMA GiveUpStep ==
  ASSUME EvidenceInv, NEW p \in Producers, PublishFails(p) \/ Die(p)
  PROVE  EvidenceInv'
<1> USE DEF EvidenceInv
<1>1. /\ UNCHANGED <<index, files, view, runs, metrics>>
      /\ stage[p] \in {"ready", "publishing"}
      /\ locked' = IF locked = p THEN Free ELSE locked
      /\ broken' = IF stage[p] = "publishing" /\ job[p].todo # Artifacts(Kind[p])
                   THEN broken \cup {Kind[p]} ELSE broken
  BY DEF PublishFails, Die, Abandon, Unlock
<1>2. PICK at \in {"failed", "dead"} :
        stage' = [stage EXCEPT ![p] = at] /\ job' = [job EXCEPT ![p] = Missing]
  BY DEF PublishFails, Die, Leave, Goto
<1>3. Elsewhere(p) /\ stage'[p] = at
  BY <1>1, <1>2 DEF Elsewhere, WorkInv
<1>4. FilesInv' /\ IndexInv' /\ ViewInv' /\ IndexHonest' /\ SnapshotLoads'
  BY <1>1 DEF FilesInv, IndexInv, ViewInv, IndexHonest, SnapshotLoads
<1>5. JobInv'
  BY <1>2, <1>3 DEF JobInv, Elsewhere
<1>6. WorkInv'
  <2>1. \A q \in Producers : locked' = q <=> stage'[q] = "publishing"
    BY <1>1, <1>2, <1>3, EvidenceAssumption DEF WorkInv, Elsewhere
  <2>2. stage' = [q \in Producers |-> stage'[q]] /\ job' = [q \in Producers |-> job'[q]]
    BY <1>2 DEF WorkInv
  <2>3. ASSUME NEW q \in Producers, stage'[q] = "publishing"
        PROVE  q # p /\ stage[q] = "publishing" /\ job'[q] = job[q] /\ broken' = broken
    <3>1. q # p /\ stage[q] = "publishing" /\ job'[q] = job[q]
      BY <1>3, <1>2, <2>3 DEF Elsewhere
    <3>2. stage[p] # "publishing"
      BY <3>1 DEF WorkInv
    <3> QED
      BY <1>1, <3>1, <3>2
  <2> QED
    BY <1>1, <2>1, <2>2, <2>3 DEF WorkInv
<1>7. RecordsDescribePayloads'
  <2>1. ASSUME NEW kind \in {"recall", "harness"}, kind \notin broken', Known(index),
               locked' = Free \/ Kind[locked'] # kind,
               NEW a \in Artifacts(kind), Recorded(index, a) # Missing
        PROVE  Recorded(index, a) = files[a]
    <3>1. kind \notin broken
      BY <1>1, <2>1
    <3>2. CASE stage[p] = "ready"
      <4>1. locked' = locked
        BY <1>1, <3>2 DEF WorkInv
      <4> QED
        BY <2>1, <3>1, <4>1 DEF RecordsDescribePayloads
    <3>3. CASE stage[p] = "publishing" /\ Kind[p] = kind
      <4>1. job[p].todo = Artifacts(kind)
        BY <1>1, <2>1, <3>3
      <4> QED
        BY <2>1, <3>1, <3>3, <4>1 DEF WorkInv
    <3>4. CASE stage[p] = "publishing" /\ Kind[p] # kind
      <4>1. locked = p
        BY <3>4 DEF WorkInv
      <4> QED
        BY <2>1, <3>1, <3>4, <4>1 DEF RecordsDescribePayloads
    <3> QED
      BY <1>1, <3>2, <3>3, <3>4
  <2> QED
    BY <1>1, <2>1 DEF RecordsDescribePayloads
<1> QED
  BY <1>4, <1>5, <1>6, <1>7

LEMMA AgainStep ==
  ASSUME EvidenceInv, NEW p \in Producers, Again(p)
  PROVE  EvidenceInv'
<1> USE DEF EvidenceInv
<1>1. /\ UNCHANGED <<index, files, locked, job, view, broken, runs, metrics>>
      /\ stage[p] \in {"done", "failed", "dead"} /\ stage' = [stage EXCEPT ![p] = "idle"]
  BY DEF Again, Goto
<1>2. Elsewhere(p) /\ stage'[p] = "idle"
  BY <1>1 DEF Elsewhere, WorkInv
<1>3. FilesInv' /\ IndexInv' /\ ViewInv' /\ RecordsDescribePayloads' /\ IndexHonest' /\ SnapshotLoads'
  BY <1>1
    DEF FilesInv, IndexInv, ViewInv, RecordsDescribePayloads, IndexHonest, SnapshotLoads
<1>4. JobInv'
  BY <1>2 DEF JobInv, Elsewhere
<1>5. WorkInv'
  <2>1. \A q \in Producers : stage'[q] = "publishing" <=> stage[q] = "publishing"
    BY <1>1, <1>2 DEF Elsewhere
  <2>2. stage' = [q \in Producers |-> stage'[q]]
    BY <1>1 DEF WorkInv
  <2> QED
    BY <1>1, <2>1, <2>2 DEF WorkInv
<1> QED
  BY <1>3, <1>4, <1>5

(* certify-tree-ring.sh: metrics.json is replaced without the lock, by the  *)
(* metrics of a quality run that passed.                                   *)
LEMMA ReplaceMetricsStep ==
  ASSUME EvidenceInv, NEW quality \in [pass : {TRUE}, count : Nat, errors : {0}], ReplaceMetrics(quality)
  PROVE  EvidenceInv'
<1> USE DEF EvidenceInv
<1>1. /\ UNCHANGED <<index, locked, stage, job, view, broken, runs>> /\ metrics' = metrics + 1
      /\ files' = [files EXCEPT !["metrics"] = [run |-> metrics', status |-> "pass", seen |-> quality]]
  BY DEF ReplaceMetrics
<1>2. files'["metrics"] \in MetricsRecord /\ files'["metrics"] # Missing
  <2>1. metrics' \in Nat /\ files'["metrics"] = [run |-> metrics', status |-> "pass", seen |-> quality]
    BY <1>1 DEF FilesInv
  <2>2. \A n \in Nat : [run |-> n, status |-> "pass", seen |-> quality] \in MetricsRecord
    BY DEF MetricsRecord
  <2> QED
    BY <2>1, <2>2, RecordsAreThere
<1>3. \A a \in {"recall"} \cup Harnesses : files'[a] = files[a]
  BY <1>1, ArtifactsApart DEF FilesInv
<1>4. FilesInv'
  <2>1. files' = [a \in {"metrics", "recall"} \cup Harnesses |-> files'[a]]
    BY <1>1 DEF FilesInv
  <2>2. metrics' \in Nat /\ runs' \in Nat
    BY <1>1 DEF FilesInv
  <2> QED
    BY <1>2, <1>3, <2>1, <2>2 DEF FilesInv
<1>5. IndexInv'
  <2>1. \A a \in {"metrics", "recall"} : files[a] # Missing => files'[a] # Missing
    BY <1>2, <1>3
  <2>2. Known(index) => Sound(index, files')
    BY <2>1, SoundStays DEF IndexInv
  <2> QED
    BY <1>1, <2>2 DEF IndexInv
<1>6. JobInv' /\ IndexHonest' /\ SnapshotLoads'
  BY <1>1 DEF JobInv, IndexHonest, SnapshotLoads
<1>7. ViewInv'
  BY <1>1, <1>2, <1>3 DEF ViewInv
<1>8. ASSUME NEW kind \in {"recall", "harness"}, NEW a \in Artifacts(kind)
      PROVE  files'[a] = files[a]
  BY <1>3, ArtifactsApart
<1>9. WorkInv'
  <2>1. ASSUME NEW q \in Producers, stage[q] = "publishing"
        PROVE  Sound(job[q].work, files')
    BY <1>2, <1>3, <2>1, SoundStays DEF WorkInv
  <2>2. \A q \in Producers : Kind[q] \in {"recall", "harness"}
    BY EvidenceAssumption
  <2>3. \A q \in Producers : stage[q] = "publishing" => job[q].todo \subseteq Artifacts(Kind[q])
    BY DEF JobInv, Computed
  <2>4. \A q \in Producers : stage[q] = "publishing" => \A a \in Artifacts(Kind[q]) : files'[a] = files[a]
    BY <1>8, <2>2
  <2>5. ASSUME NEW q \in Producers, stage[q] = "publishing"
        PROVE  /\ \A a \in Artifacts(Kind[q]) \ job[q].todo : files'[a] = job[q].results[a]
               /\ Kind[q] \notin broken /\ Known(index) =>
                    \A a \in job[q].todo : Recorded(index, a) # Missing => Recorded(index, a) = files'[a]
    <3>1. \A a \in Artifacts(Kind[q]) : files'[a] = files[a]
      BY <2>4, <2>5
    <3>2. job[q].todo \subseteq Artifacts(Kind[q])
      BY <2>3, <2>5
    <3> QED
      BY <2>5, <3>1, <3>2 DEF WorkInv
  <2>6. UNCHANGED <<index, locked, stage, job, broken>> /\ WorkInv
    BY <1>1
  <2> QED
    BY <2>1, <2>5, <2>6 DEF WorkInv
<1>10. RecordsDescribePayloads'
  BY <1>1, <1>8 DEF RecordsDescribePayloads
<1> QED
  BY <1>4, <1>5, <1>6, <1>7, <1>9, <1>10

(* The console reads the payloads of the index it has read: none goes away. *)
LEMMA LookStep ==
  ASSUME EvidenceInv, Look
  PROVE  EvidenceInv'
<1> USE DEF EvidenceInv
<1>1. UNCHANGED <<index, files, locked, stage, job, broken, runs, metrics>>
  BY DEF Look, LookAtIndex, LookAgain, LookAtCertification, LookAtRecall, Forget
<1>2. /\ FilesInv' /\ IndexInv' /\ JobInv' /\ WorkInv' /\ RecordsDescribePayloads' /\ IndexHonest'
  BY <1>1 DEF FilesInv, IndexInv, JobInv, WorkInv, RecordsDescribePayloads, IndexHonest
<1>3. ViewInv' /\ SnapshotLoads'
  <2>1. CASE LookAtIndex
    <3>1. view' = [at |-> IF index = Missing THEN "absent" ELSE IF index = Damaged THEN "shown" ELSE "certification",
                   index |-> index,
                   status |-> IF index = Missing THEN "missing" ELSE IF index = Damaged THEN "error" ELSE index.overall]
      BY <2>1 DEF LookAtIndex, See
    <3>2. Known(index) => /\ index.cert # Missing => files["metrics"] # Missing
                          /\ index.recall # Missing => files["recall"] # Missing
      BY DEF IndexInv, Sound
    <3> QED
      BY <1>1, <3>1, <3>2 DEF ViewInv, SnapshotLoads, Known
  <2>2. CASE LookAgain
    <3>1. view.at = "absent" /\ view'.at = "shown" /\ view'.index = view.index
          /\ view' = [at |-> view'.at, index |-> view'.index, status |-> view'.status]
      BY <2>2 DEF LookAgain, See, ViewInv
    <3> QED
      BY <3>1 DEF ViewInv, SnapshotLoads, Known
  <2>3. CASE LookAtCertification
    <3>1. view.at = "certification" /\ view'.at = "recall" /\ view'.index = view.index
          /\ view'.status = view.status
          /\ view' = [at |-> view'.at, index |-> view'.index, status |-> view'.status]
      BY <2>3 DEF LookAtCertification, See, ViewInv
    <3> QED
      BY <1>1, <3>1 DEF ViewInv, SnapshotLoads
  <2>4. CASE LookAtRecall
    <3>1. view.at = "recall" /\ view'.at = "shown" /\ view'.index = view.index
          /\ view'.status = view.status
          /\ view' = [at |-> view'.at, index |-> view'.index, status |-> view'.status]
      BY <2>4 DEF LookAtRecall, See, ViewInv
    <3> QED
      BY <1>1, <3>1 DEF ViewInv, SnapshotLoads
  <2>5. CASE Forget
    BY <1>1, <2>5 DEF Forget, See, ViewInv, SnapshotLoads
  <2> QED
    BY <2>1, <2>2, <2>3, <2>4, <2>5 DEF Look
<1> QED
  BY <1>2, <1>3

LEMMA EvidenceStarts == EvidenceInit => EvidenceInv
<1> SUFFICES ASSUME EvidenceInit PROVE EvidenceInv
  OBVIOUS
<1> USE DEF EvidenceInit, EvidenceInv
<1>1. files["metrics"] = Missing /\ files["recall"] = Missing /\ \A h \in Harnesses : files[h] = Missing
  OBVIOUS
<1>2. FilesInv
  BY <1>1 DEF FilesInv
<1>3. Known(index) => /\ IsIndex(index) /\ index.cert = Missing /\ index.recall = Missing
                      /\ index.missing = Lacking(index)
                      /\ DOMAIN index.harness \cap Harnesses = {}
                      /\ \A h \in DOMAIN index.harness : index.harness[h].status \in {"pass", "skip", "fail"}
                      /\ index.overall # "pass"
  BY IndexesAssumption
<1>4. IndexInv
  BY <1>1, <1>3 DEF IndexInv, Sound
<1>5. JobInv /\ ViewInv /\ SnapshotLoads
  BY DEF JobInv, ViewInv, SnapshotLoads
<1>6. WorkInv
  BY EvidenceAssumption DEF WorkInv
<1>7. IndexHonest
  BY <1>3 DEF IndexHonest
<1>8. RecordsDescribePayloads
  BY <1>3, ArtifactsApart DEF RecordsDescribePayloads, Recorded
<1> QED
  BY <1>2, <1>4, <1>5, <1>6, <1>7, <1>8

(* A step of the producers and the console.                                *)
LEMMA EvidenceKeeps == EvidenceInv /\ EvidenceStep => EvidenceInv'
<1> SUFFICES ASSUME EvidenceInv, EvidenceStep PROVE EvidenceInv'
  OBVIOUS
<1>1. ASSUME NEW p \in Producers, Work(p) \/ Die(p) \/ Again(p)
      PROVE  EvidenceInv'
  BY <1>1, EvaluateStep, TakeLockStep, WritePayloadStep, WriteIndexStep, GiveUpStep,
    AgainStep DEF Work
<1> QED
  BY <1>1, LookStep DEF EvidenceStep

LEMMA EvidenceIdle == EvidenceInv /\ UNCHANGED evidenceVars => EvidenceInv'
<1> SUFFICES ASSUME EvidenceInv, UNCHANGED evidenceVars PROVE EvidenceInv'
  OBVIOUS
<1>1. UNCHANGED <<index, files, locked, stage, job, view, broken, runs, metrics>>
  BY DEF evidenceVars
<1>2. /\ FilesInv' /\ IndexInv' /\ JobInv' /\ RecordsDescribePayloads'
      /\ IndexHonest' /\ SnapshotLoads'
  BY <1>1
    DEF EvidenceInv, FilesInv, IndexInv, JobInv, RecordsDescribePayloads, IndexHonest,
        SnapshotLoads
<1>3. WorkInv'
  BY <1>1 DEF EvidenceInv, WorkInv
<1>4. ViewInv'
  BY <1>1 DEF EvidenceInv, ViewInv
<1> QED
  BY <1>2, <1>3, <1>4 DEF EvidenceInv

----
(***************************************************************************)
(* The quality run.                                                        *)
(***************************************************************************)

Verdicts == UNION {{EvaluateScenario(s, recalled) : recalled \in SUBSET Recallable(s)} : s \in In(scenarios)}

\* Every scenario was judged, at least one, and all passed.
AllPassed ==
  /\ stored \in [pass : {TRUE}, count : Nat, errors : {0}]
  /\ Len(reports) = Len(scenarios) /\ reports # <<>>
  /\ \A k \in DOMAIN reports : reports[k].pass

\* A report is what was judged of the scenario at its place, which is valid.
JudgedInv ==
  /\ IsList(scenarios)
  /\ \A k \in DOMAIN scenarios : scenarios[k] = Unparsable \/ IsList(scenarios[k].forbidden)
  /\ reports \in Seq(Verdicts) /\ Len(reports) <= Len(scenarios)
  /\ \A k \in DOMAIN reports :
       /\ scenarios[k] # Unparsable /\ Valid(scenarios[k])
       /\ \E recalled : reports[k] = EvaluateScenario(scenarios[k], recalled)

QualityInv ==
  /\ JudgedInv
  /\ phase = "written" /\ stored.pass => AllPassed
  /\ phase = "passed" => AllPassed

(* evaluate_quality_scenario: a scenario that passes observed something of *)
(* what its category is about, every decision of it was kept, and without  *)
(* a tolerance of its own nothing forbidden came back.                     *)
LEMMA ScenarioPasses ==
  ASSUME NEW s, NEW recalled, Valid(s), IsList(s.forbidden), EvaluateScenario(s, recalled).pass,
         NEW n, n = Observations(s, recalled)
  PROVE  /\ n[Primary(s.category)].of > 0
         /\ s.thresholds["forbidden"] = None => n["forbidden"].held = 0
         /\ n["spam"].held = n["spam"].of
         /\ n["evidence"].held = n["evidence"].of
<1>1. \A d \in In(s.decisions) : DecisionPasses(d, s)
  BY DEF EvaluateScenario
<1>2. \A m \in Metrics : Met(s, m, n[m])
  BY DEF EvaluateScenario
<1>3. Primary(s.category) \in Metrics /\ Primary(s.category) \in Applicable(s)
  BY DEF Valid, Categories, Primary, Metrics
<1>4. n[Primary(s.category)].of > 0
  BY <1>2, <1>3 DEF Met
<1>5. ASSUME s.thresholds["forbidden"] = None
      PROVE  n["forbidden"].held = 0
  <2> DEFINE places == DOMAIN s.forbidden
             back == places \cap Returned(s.forbidden, recalled)
  <2>1. n["forbidden"] = [held |-> Cardinality(back), of |-> Cardinality(places)]
    BY DEF Observations, Metrics, Count
  <2>2. IsFiniteSet(places)
    BY FS_Interval DEF IsList
  <2>3. Cardinality(places) \in Nat /\ Cardinality(back) \in Nat
    BY <2>2, FS_CardinalityType, FS_Subset
  <2>4. CASE s.forbidden = <<>>
    <3>1. back = {}
      BY <2>4
    <3> QED
      BY <2>1, <3>1, FS_EmptySet
  <2>5. CASE s.forbidden # <<>>
    <3>1. "forbidden" \in Metrics /\ "forbidden" \in Applicable(s)
      BY <2>5 DEF Metrics, Applicable
    <3>2. 100 * n["forbidden"].held <= 0 * n["forbidden"].of
      BY <1>2, <1>5, <3>1 DEF Met, Threshold
    <3> HIDE DEF places, back
    <3>3. 100 * Cardinality(back) <= 0 * Cardinality(places)
      BY <2>1, <3>2
    <3> QED
      BY <2>1, <2>3, <3>3
  <2> QED
    BY <2>4, <2>5
<1>6. \A k \in DOMAIN s.decisions : DecisionPasses(s.decisions[k], s)
  BY <1>1 DEF In
<1>7. n["spam"].held = n["spam"].of
  <2> DEFINE places == {k \in DOMAIN s.decisions : s.decisions[k].decision = "reject"}
             passed == {k \in DOMAIN s.decisions : DecisionPasses(s.decisions[k], s)}
  <2>1. n["spam"] = Count(places, passed)
    BY DEF Observations, Metrics
  <2>2. places \cap passed = places
    BY <1>6
  <2> HIDE DEF places, passed
  <2> QED
    BY <2>1, <2>2 DEF Count
<1>8. n["evidence"].held = n["evidence"].of
  <2> DEFINE places == {k \in DOMAIN s.decisions : CandidateOf(s.decisions[k], s).evaluation}
             passed == {k \in DOMAIN s.decisions : DecisionPasses(s.decisions[k], s)}
  <2>1. n["evidence"] = Count(places, passed)
    BY DEF Observations, Metrics
  <2>2. places \cap passed = places
    BY <1>6
  <2> HIDE DEF places, passed
  <2> QED
    BY <2>1, <2>2 DEF Count
<1> QED
  BY <1>4, <1>5, <1>7, <1>8

(* run_quality_scenarios: a summary passes only over reports that all do.  *)
LEMMA RunPasses ==
  ASSUME JudgedInv, NEW errors \in {0, 1}, NEW report, report = Report(SummarizeRun(reports), errors)
  PROVE  report.pass => /\ errors = 0 /\ reports # <<>>
                        /\ \A k \in DOMAIN reports : reports[k].pass
                        /\ report \in [pass : {TRUE}, count : Nat, errors : {0}]
<1>1. Len(reports) \in Nat /\ (reports = <<>> => Len(reports) = 0)
  BY DEF JudgedInv
<1> DEFINE sum == Len(reports) > 0 /\ \A k \in DOMAIN reports : reports[k].pass
<1>2. PICK b \in BOOLEAN : b <=> (sum /\ errors = 0)
  OBVIOUS
<1>3. report = [pass |-> b, count |-> Len(reports), errors |-> errors]
  <2>1. b = (sum /\ errors = 0)
    BY <1>2
  <2> HIDE DEF sum
  <2>2. SummarizeRun(reports).pass = sum /\ SummarizeRun(reports).count = Len(reports)
    BY DEF SummarizeRun, sum
  <2> QED
    BY <2>1, <2>2, Zenon DEF Report
<1>4. report.pass => sum /\ errors = 0 /\ b = TRUE
  <2> HIDE DEF sum
  <2> QED
    BY <1>2, <1>3
<1> QED
  BY <1>1, <1>3, <1>4

LEMMA QualityStarts ==
  ASSUME NEW directory, NEW p \in Plans, directory \in p.directories, QualityInit(directory)
  PROVE  QualityInv
BY CertificationAssumption DEF QualityInit, QualityInv, JudgedInv, IsList

(* Every step of the run keeps it: what is judged is judged in order, and   *)
(* only a report that was read back and passes lets the run succeed.       *)
LEMMA QualityKeeps ==
  ASSUME QualityInv, QualityStep
  PROVE  QualityInv'
<1> USE DEF QualityInv
<1>1. UNCHANGED scenarios
  BY DEF QualityStep, StartQuality, RunScenario, FailRun, FinishRun, VerifyReport
<1>2. ASSUME UNCHANGED reports
      PROVE  JudgedInv'
  BY <1>1, <1>2 DEF JudgedInv, Verdicts
<1>3. CASE StartQuality
  <2>1. reports' = <<>> /\ phase' \in {"running", "failed"}
    BY <1>3 DEF StartQuality
  <2>2. JudgedInv'
    BY <1>1, <2>1 DEF JudgedInv, Verdicts
  <2> QED
    BY <2>1, <2>2
<1>4. CASE RunScenario
  <2> DEFINE s == scenarios[Len(reports) + 1]
  <2>1. /\ UNCHANGED <<phase, stored>> /\ phase = "running" /\ Len(reports) < Len(scenarios)
        /\ s # Unparsable /\ Valid(s)
    BY <1>4 DEF RunScenario
  <2>2. PICK recalled \in SUBSET Recallable(s) : reports' = Append(reports, EvaluateScenario(s, recalled))
    BY <1>4 DEF RunScenario
  <2>3. PICK verdict : verdict = EvaluateScenario(s, recalled)
    OBVIOUS
  <2>4. Len(reports) + 1 \in DOMAIN scenarios
    BY <2>1 DEF JudgedInv, IsList
  <2>5. verdict \in Verdicts
    BY <2>2, <2>3, <2>4 DEF Verdicts, In
  <2>6. /\ reports' \in Seq(Verdicts) /\ Len(reports') = Len(reports) + 1
        /\ \A k \in DOMAIN reports : reports'[k] = reports[k]
        /\ reports'[Len(reports) + 1] = verdict
        /\ DOMAIN reports' = DOMAIN reports \cup {Len(reports) + 1}
    <3> HIDE DEF s
    <3> QED
      BY <2>2, <2>3, <2>5 DEF JudgedInv
  <2>7. Verdicts' = Verdicts
    BY <1>1 DEF Verdicts
  <2>8. Len(reports') <= Len(scenarios)
    BY <2>1, <2>6 DEF JudgedInv, IsList
  <2>9. ASSUME NEW k \in DOMAIN reports'
        PROVE  /\ scenarios[k] # Unparsable /\ Valid(scenarios[k])
               /\ \E r : reports'[k] = EvaluateScenario(scenarios[k], r)
    BY <2>1, <2>3, <2>6, <2>9 DEF JudgedInv
  <2>10. JudgedInv'
    BY <1>1, <2>6, <2>7, <2>8, <2>9 DEF JudgedInv
  <2> QED
    BY <2>1, <2>10
<1>5. CASE FailRun
  <2>1. UNCHANGED reports /\ Write(Report(SummarizeRun(reports), 1))
    BY <1>5 DEF FailRun
  <2>2. PICK report : report = Report(SummarizeRun(reports), 1)
    OBVIOUS
  <2>3. ~report.pass
    BY <2>2, RunPasses
  <2> QED
    BY <1>2, <2>1, <2>2, <2>3 DEF Write
<1>6. CASE FinishRun
  <2> DEFINE errors == IF scenarios = <<>> THEN 1 ELSE 0
  <2>1. UNCHANGED reports /\ Len(reports) = Len(scenarios) /\ Write(Report(SummarizeRun(reports), errors))
    BY <1>6 DEF FinishRun
  <2>2. PICK report : report = Report(SummarizeRun(reports), errors)
    OBVIOUS
  <2>3. errors \in {0, 1}
    OBVIOUS
  <2> HIDE DEF errors
  <2>4. report.pass => /\ reports # <<>> /\ (\A k \in DOMAIN reports : reports[k].pass)
                       /\ report \in [pass : {TRUE}, count : Nat, errors : {0}]
    BY <2>2, <2>3, RunPasses
  <2>5. phase' = "failed" \/ (phase' = "written" /\ stored' = report)
    BY <2>1, <2>2 DEF Write
  <2>6. phase' = "written" /\ stored'.pass => AllPassed'
    BY <1>1, <2>1, <2>4, <2>5 DEF AllPassed
  <2> QED
    BY <1>2, <2>1, <2>5, <2>6
<1>7. CASE VerifyReport
  <2>1. UNCHANGED <<scenarios, reports, stored>> /\ phase = "written"
        /\ phase' \in {IF stored.pass THEN "passed" ELSE "failed", "failed"}
    BY <1>7 DEF VerifyReport
  <2>2. phase' = "passed" => AllPassed
    BY <2>1
  <2>3. AllPassed => AllPassed'
    BY <2>1 DEF AllPassed
  <2> QED
    BY <1>2, <2>1, <2>2, <2>3
<1> QED
  BY <1>3, <1>4, <1>5, <1>6, <1>7 DEF QualityStep

LEMMA QualityIdle ==
  ASSUME QualityInv, UNCHANGED <<scenarios, reports, stored>>, phase' \in {phase, "idle"}
  PROVE  QualityInv'
<1>1. JudgedInv' /\ (AllPassed => AllPassed')
  BY DEF QualityInv, JudgedInv, AllPassed, Verdicts
<1> QED
  BY <1>1 DEF QualityInv

(* A run that succeeds was not vacuous, and what must stay out stayed out. *)
LEMMA SuccessIsEarned == QualityInv => PassIsNeverVacuous /\ StaleAndSpamStayOut
<1> SUFFICES ASSUME QualityInv, phase = "passed" PROVE PassIsNeverVacuous /\ StaleAndSpamStayOut
  BY DEF PassIsNeverVacuous, StaleAndSpamStayOut
<1>1. JudgedInv /\ AllPassed
  BY DEF QualityInv
<1>2. ASSUME NEW k \in DOMAIN reports, NEW n, n = reports[k].observed
      PROVE  /\ reports[k].category = scenarios[k].category /\ reports[k].pass
             /\ n[Primary(reports[k].category)].of > 0
             /\ scenarios[k].thresholds["forbidden"] = None => n["forbidden"].held = 0
             /\ n["spam"].held = n["spam"].of
             /\ n["evidence"].held = n["evidence"].of
  <2>1. PICK s, recalled : s = scenarios[k] /\ reports[k] = EvaluateScenario(s, recalled)
    BY <1>1 DEF JudgedInv
  <2>2. k \in DOMAIN scenarios
    BY <1>1 DEF JudgedInv, IsList
  <2>3. Valid(s) /\ IsList(s.forbidden)
    BY <1>1, <2>1, <2>2 DEF JudgedInv
  <2>4. EvaluateScenario(s, recalled).pass
    BY <1>1, <2>1 DEF AllPassed
  <2>5. reports[k].category = s.category /\ n = Observations(s, recalled)
    BY <1>2, <2>1 DEF EvaluateScenario
  <2>6. /\ n[Primary(s.category)].of > 0
        /\ s.thresholds["forbidden"] = None => n["forbidden"].held = 0
        /\ n["spam"].held = n["spam"].of
        /\ n["evidence"].held = n["evidence"].of
    BY <2>3, <2>4, <2>5, ScenarioPasses
  <2> QED
    BY <2>1, <2>4, <2>5, <2>6
<1> QED
  BY <1>1, <1>2 DEF PassIsNeverVacuous, StaleAndSpamStayOut, AllPassed

----
(***************************************************************************)
(* The workflow proof.                                                     *)
(***************************************************************************)

\* A list of anything.
Listed(s) == s \in Seq(Members(s))

LEMMA AppendLists ==
  ASSUME NEW s, Listed(s), NEW e, NEW r, r = Append(s, e)
  PROVE  /\ Listed(r) /\ Len(r) = Len(s) + 1 /\ Len(s) \in Nat
         /\ DOMAIN s = 1 .. Len(s) /\ DOMAIN r = 1 .. Len(s) + 1
         /\ \A k \in DOMAIN s : r[k] = s[k]
         /\ r[Len(s) + 1] = e
<1>1. s \in Seq(Members(s) \cup {e}) /\ Len(s) \in Nat /\ DOMAIN s = 1 .. Len(s)
  <2>1. PICK M : M = Members(s)
    OBVIOUS
  <2>2. s \in Seq(M)
    BY <2>1 DEF Listed
  <2>3. s \in Seq(M \cup {e})
    BY <2>2
  <2> QED
    BY <2>1, <2>2, <2>3
<1>2. /\ r \in Seq(Members(s) \cup {e}) /\ Len(r) = Len(s) + 1
      /\ \A k \in 1 .. Len(s) : r[k] = s[k]
      /\ r[Len(s) + 1] = e
  BY <1>1, AppendProperties
<1>3. DOMAIN r = 1 .. Len(s) + 1
  BY <1>2
<1>4. \A k \in DOMAIN r : r[k] \in Members(r)
  BY DEF Members
<1>5. r \in Seq(Members(r))
  <2>1. PICK N : N = Members(r)
    OBVIOUS
  <2>2. \A k \in 1 .. Len(r) : r[k] \in N
    BY <1>2, <1>3, <1>4, <2>1
  <2> QED
    BY <1>2, <2>1, <2>2, SeqDef
<1> QED
  BY <1>1, <1>2, <1>3, <1>5 DEF Listed

LEMMA AppendExtends ==
  ASSUME NEW s, Listed(s), NEW e
  PROVE  /\ Listed(Append(s, e)) /\ Len(Append(s, e)) = Len(s) + 1 /\ Len(s) \in Nat
         /\ DOMAIN s = 1 .. Len(s) /\ DOMAIN Append(s, e) = 1 .. Len(s) + 1
         /\ \A k \in DOMAIN s : Append(s, e)[k] = s[k]
         /\ Append(s, e)[Len(s) + 1] = e
BY AppendLists

LEMMA LeastExists ==
  ASSUME NEW T, T \subseteq Nat, T # {}
  PROVE  \E x \in T : \A y \in T : ~(y < x)
<1> DEFINE R == OpToRel(<, Nat)
<1>1. \E x \in T : \A y \in T : ~(<<y, x>> \in R)
  <2>1. IsWellFoundedOn(R, Nat)
    BY Zenon, NatLessThanWellFounded
  <2> HIDE DEF R
  <2> QED
    BY <2>1, WFMin
<1> QED
  BY Zenon, <1>1 DEF OpToRel

(* unique_scenario_id: of one more candidates than there are ids in use,   *)
(* one is free.                                                            *)
LEMMA UniqueIdIsFree ==
  ASSUME NEW name, Listed(name), NEW used, IsFiniteSet(used)
  PROVE  UniqueId(name, used) \notin used
<1> DEFINE Numbered(n) == IF n = 1 THEN name ELSE Append(name, n)
           last == Cardinality(used) + 1
<1>1. Cardinality(used) \in Nat /\ last \in Nat
  BY FS_CardinalityType
<1>2. \A m, n \in Nat \ {0} : Numbered(m) = Numbered(n) => m = n
  <2>1. /\ \A n \in Nat : Len(Append(name, n)) = Len(name) + 1 /\ Append(name, n)[Len(name) + 1] = n
        /\ Len(name) \in Nat
    BY AppendLists
  <2>2. ASSUME NEW m \in Nat \ {0}, NEW n \in Nat \ {0}, Numbered(m) = Numbered(n)
        PROVE  m = n
    <3>1. CASE m # 1 /\ n # 1
      <4>1. Append(name, m) = Append(name, n)
        BY <2>2, <3>1
      <4>2. Append(name, m)[Len(name) + 1] = m /\ Append(name, n)[Len(name) + 1] = n
        BY <2>1
      <4> QED
        BY <4>1, <4>2
    <3>2. CASE m = 1 \/ n = 1
      <4>1. \A k \in Nat : Append(name, k) # name
        BY <2>1
      <4> QED
        BY <2>2, <3>2, <4>1
    <3> QED
      BY <3>1, <3>2
  <2> QED
    BY <2>2
<1>3. \E i \in 1 .. last : Numbered(i) \notin used
  <2> SUFFICES ASSUME \A i \in 1 .. last : Numbered(i) \in used
               PROVE  FALSE
    OBVIOUS
  <2> DEFINE f == [i \in 1 .. last |-> Numbered(i)]
  <2>1. f \in [1 .. last -> used]
    OBVIOUS
  <2>2. IsFiniteSet(1 .. last) /\ Cardinality(1 .. last) = last
    BY <1>1, FS_Interval
  <2>3. Cardinality(used) < Cardinality(1 .. last)
    BY <1>1, <2>2
  <2>4. \E x, y \in 1 .. last : x # y /\ f[x] = f[y]
    <3> HIDE DEF f, last
    <3> QED
      BY <2>1, <2>2, <2>3, FS_PigeonHole
  <2> QED
    BY <1>1, <1>2, <2>4
<1> DEFINE T == {i \in 1 .. last : Numbered(i) \notin used}
<1>4. \E i \in T : \A j \in T : ~(j < i)
  <2>1. T \subseteq Nat /\ T # {}
    BY <1>1, <1>3
  <2> HIDE DEF T
  <2> QED
    BY <2>1, LeastExists
<1>5. \E i \in 1 .. last : Numbered(i) \notin used /\ \A j \in 1 .. i - 1 : ~(Numbered(j) \notin used)
  BY <1>1, <1>4
<1> DEFINE n == CHOOSE i \in 1 .. last : Numbered(i) \notin used /\ \A j \in 1 .. i - 1 : ~(Numbered(j) \notin used)
<1>6. Numbered(n) \notin used
  BY <1>5
<1>7. UniqueId(name, used) = Numbered(n)
  BY DEF UniqueId
<1> QED
  BY <1>6, <1>7

\* In a workspace is what the scenario gave it and what the trial there made.
Owned(kept, place, run) == \A path \in DOMAIN kept : kept[path].by \in {Given, <<run, place>>}

Answered(trial) == trial.response # Nothing /\ Members(trial.response.used) \subseteq trial.context

\* A trial reports what it was told, what its agent said and what its files show.
Observed(trial, place, s, spaces, run) ==
  /\ place \in DOMAIN spaces /\ Owned(spaces[place].files, place, run)
  /\ trial.context \subseteq Visible(s)
  /\ trial.response # Nothing => trial.response.by = <<run, place>>
  /\ trial.status = IF ~Answered(trial) THEN "error"
                    ELSE IF Satisfied(s, spaces[place].files) THEN "pass" ELSE "fail"

DoneInv ==
  /\ IsCourse(course)
  /\ workspaces = [place \in DOMAIN workspaces |-> workspaces[place]]
  /\ Listed(done) /\ Len(done) <= Len(course.directory)
  /\ \A j, k \in DOMAIN done : done[j].id = done[k].id => j = k
  /\ \A k \in DOMAIN done :
       /\ ValidScenario(Scenario(k))
       /\ \A a \in DOMAIN Arms :
            Observed(done[k].trials[a], <<done[k].id, Arms[a]>>, Scenario(k), workspaces, attempt)

\* The scenario under way has an id of its own, and so have its trials.
NowInv ==
  proving = "running" /\ now # Nothing =>
    /\ now = [id |-> now.id, trials |-> now.trials, context |-> now.context,
              response |-> now.response, stage |-> now.stage]
    /\ Len(done) < Len(course.directory) /\ ValidScenario(Current)
    /\ now.id \notin Used
    /\ Listed(now.trials) /\ Len(now.trials) < Len(Arms)
    /\ \A a \in DOMAIN now.trials :
         Observed(now.trials[a], <<now.id, Arms[a]>>, Current, workspaces, attempt)
    /\ now.stage = "execute" =>
         /\ Place \in DOMAIN workspaces /\ workspaces[Place] = Fresh(Current)
         /\ now.context = Nothing \/ now.context \subseteq Visible(Current)
    /\ now.stage = "judge" =>
         /\ Place \in DOMAIN workspaces /\ Owned(workspaces[Place].files, Place, attempt)
         /\ now.context \subseteq Visible(Current)
         /\ now.response # Nothing => now.response.by = <<attempt, Place>>

PublishedInv ==
  proving = "proved" => published = ProofReport /\ Len(done) = Len(course.directory)

ProofInv == DoneInv /\ NowInv /\ PublishedInv

LEMMA ArmsDiffer ==
  /\ DOMAIN Arms = 1 .. 3 /\ Len(Arms) = 3
  /\ \A a, b \in DOMAIN Arms : Arms[a] = Arms[b] => a = b
BY DEF Arms

LEMMA ObservedStays ==
  ASSUME NEW trial, NEW place, NEW s, NEW old, NEW run, Observed(trial, place, s, old, run),
         NEW new, place \in DOMAIN new, new[place] = old[place]
  PROVE  Observed(trial, place, s, new, run)
BY DEF Observed

\* The other workspaces stay as they are.
OthersStay ==
  /\ workspaces' = [place \in DOMAIN workspaces' |-> workspaces'[place]]
  /\ \A place \in DOMAIN workspaces \ {Place} : place \in DOMAIN workspaces' /\ workspaces'[place] = workspaces[place]

(* materialize_workspace, execute: a step of a trial touches no trial that  *)
(* is reported, and none of the same scenario.                             *)
LEMMA ReportedStay ==
  ASSUME ProofInv, proving = "running", now # Nothing, OthersStay, UNCHANGED <<course, attempt, done>>
  PROVE  /\ DoneInv'
         /\ \A a \in DOMAIN now.trials :
              Observed(now.trials[a], <<now.id, Arms[a]>>, Current, workspaces', attempt)
<1>1. \A k \in DOMAIN done : done[k].id # now.id
  BY DEF ProofInv, NowInv, Used
<1>2. DOMAIN now.trials = 1 .. Len(now.trials) /\ Len(now.trials) \in Nat /\ Len(now.trials) < 3
  BY ArmsDiffer DEF ProofInv, NowInv, Listed
<1>3. ASSUME NEW k \in DOMAIN done, NEW a \in DOMAIN Arms
      PROVE  Observed(done[k].trials[a], <<done[k].id, Arms[a]>>, Scenario(k), workspaces', attempt)
  <2>1. Observed(done[k].trials[a], <<done[k].id, Arms[a]>>, Scenario(k), workspaces, attempt)
    BY DEF ProofInv, DoneInv
  <2>2. <<done[k].id, Arms[a]>> \in DOMAIN workspaces \ {Place}
    BY <1>1, <2>1 DEF Observed, Place
  <2> QED
    BY <2>1, <2>2, ObservedStays DEF OthersStay
<1>4. ASSUME NEW a \in DOMAIN now.trials
      PROVE  Observed(now.trials[a], <<now.id, Arms[a]>>, Current, workspaces', attempt)
  <2>1. Observed(now.trials[a], <<now.id, Arms[a]>>, Current, workspaces, attempt)
    BY DEF ProofInv, NowInv
  <2>2. Arms[a] # Arm
    BY <1>2, ArmsDiffer DEF Arm
  <2>3. <<now.id, Arms[a]>> \in DOMAIN workspaces \ {Place}
    BY <2>1, <2>2 DEF Observed, Place
  <2> QED
    BY <2>1, <2>3, ObservedStays DEF OthersStay
<1>5. DoneInv'
  <2>1. \A k \in DOMAIN done : Scenario(k)' = Scenario(k)
    BY DEF Scenario
  <2> QED
    BY <1>3, <2>1 DEF ProofInv, DoneInv, OthersStay
<1> QED
  BY <1>4, <1>5

LEMMA BeginStep ==
  ASSUME ProofInv, Begin
  PROVE  ProofInv'
<1>1. /\ UNCHANGED <<course, attempt, done, workspaces, published>>
      /\ proving = "running" /\ now = Nothing /\ Len(done) < Len(course.directory)
  BY DEF Begin
<1>2. DoneInv'
  BY <1>1 DEF ProofInv, DoneInv, Scenario
<1>3. CASE proving' = "failed"
  BY <1>2, <1>3 DEF ProofInv, NowInv, PublishedInv
<1>4. CASE proving' # "failed"
  <2> DEFINE id == UniqueId(Current.name, Used)
  <2>1. /\ proving' = "running" /\ Current # NotAScenario /\ ValidScenario(Current)
        /\ now' = [id |-> id, trials |-> <<>>, context |-> {}, response |-> Nothing, stage |-> "prepare"]
    BY <1>1, <1>4 DEF Begin
  <2>2. Len(done) \in Nat /\ DOMAIN done = 1 .. Len(done)
    BY DEF ProofInv, DoneInv, Listed
  <2>3. Listed(Current.name)
    <3>1. PICK name : name = Current.name
      OBVIOUS
    <3>2. Len(name) \in Nat /\ name = [n \in 1 .. Len(name) |-> name[n]]
      <4>1. PICK n : n = Len(done) + 1
        OBVIOUS
      <4>2. n \in DOMAIN course.directory /\ course.directory[n] = Current /\ IsCourse(course)
        BY <1>1, <2>2, <4>1 DEF ProofInv, DoneInv, IsCourse, IsList, Current, Scenario
      <4> QED
        BY <2>1, <3>1, <4>2 DEF IsCourse
    <3>3. name \in Seq(Members(name))
      BY <3>2, SeqDef DEF Members
    <3> QED
      BY <3>1, <3>3 DEF Listed
  <2>4. IsFiniteSet(Used)
    <3>1. IsFiniteSet(DOMAIN done)
      BY <2>2, FS_Interval
    <3> DEFINE f == [k \in DOMAIN done |-> done[k].id]
    <3>2. f \in [DOMAIN done -> Used] /\ {f[k] : k \in DOMAIN done} = Used
      BY DEF Used
    <3> HIDE DEF f
    <3>3. f \in Surjection(DOMAIN done, Used)
      BY <3>2 DEF Surjection
    <3> QED
      BY <3>1, <3>3, FS_Surjection
  <2>5. id \notin Used
    BY <2>3, <2>4, UniqueIdIsFree
  <2> HIDE DEF id
  <2>6. Used' = Used /\ Current' = Current
    BY <1>1 DEF Used, Current, Scenario
  <2>7. Listed(now'.trials) /\ Len(now'.trials) < Len(Arms) /\ DOMAIN now'.trials = {}
    BY <2>1, ArmsDiffer DEF Listed
  <2>8. NowInv'
    BY <1>1, <2>1, <2>5, <2>6, <2>7 DEF NowInv
  <2> QED
    BY <1>2, <2>1, <2>8 DEF ProofInv, PublishedInv
<1> QED
  BY <1>3, <1>4

(* materialize_workspace: the trial starts from its scenario alone.        *)
LEMMA MaterializeStep ==
  ASSUME ProofInv, Materialize
  PROVE  ProofInv'
<1>1. /\ UNCHANGED <<course, attempt, done, published>>
      /\ proving = "running" /\ now # Nothing /\ now.stage = "prepare"
  BY DEF Materialize
<1>2. \/ UNCHANGED workspaces
      \/ \E v : workspaces' = Put(workspaces, Place, v)
  BY DEF Materialize
<1>3. OthersStay
  BY <1>2 DEF OthersStay, Put, ProofInv, DoneInv
<1>4. /\ DoneInv'
      /\ \A a \in DOMAIN now.trials :
           Observed(now.trials[a], <<now.id, Arms[a]>>, Current, workspaces', attempt)
  BY <1>1, <1>3, ReportedStay
<1>5. CASE proving' = "failed"
  BY <1>4, <1>5 DEF ProofInv, NowInv, PublishedInv
<1>6. CASE proving' # "failed"
  <2>1. PICK context \in Contexts : now' = [now EXCEPT !.context = context, !.stage = "execute"]
    BY <1>6 DEF Materialize
  <2>2. proving' = proving /\ workspaces' = Put(workspaces, Place, Fresh(Current))
    BY <1>1, <1>6 DEF Materialize
  <2>3. context = Nothing \/ context \subseteq Visible(Current)
    <3>1. Len(now.trials) + 1 \in DOMAIN Arms
      BY <1>1, ArmsDiffer DEF ProofInv, NowInv, Listed
    <3>2. Arm \in {"no_memory", "raw_memory", "tree_ring"}
      BY <3>1 DEF Arm, Arms
    <3> QED
      BY <3>2 DEF Contexts
  <2>4. now' = [id |-> now.id, trials |-> now.trials, context |-> context,
                response |-> now.response, stage |-> "execute"]
    BY <1>1, <2>1 DEF ProofInv, NowInv
  <2>5. Used' = Used /\ Current' = Current /\ Place' = Place
    BY <1>1, <2>4 DEF Used, Current, Scenario, Place, Arm
  <2>6. Place \in DOMAIN workspaces' /\ workspaces'[Place] = Fresh(Current)
    BY <2>2 DEF Put
  <2>7. NowInv'
    BY <1>1, <1>4, <2>2, <2>3, <2>4, <2>5, <2>6 DEF NowInv, ProofInv
  <2> QED
    BY <1>1, <1>4, <2>2, <2>7 DEF ProofInv, PublishedInv
<1> QED
  BY <1>5, <1>6

(* CodexWorkflowAgent::execute: what the agent leaves and says is of this   *)
(* trial, for an old response was removed before it ran.                   *)
LEMMA ExecuteStep ==
  ASSUME ProofInv, Execute
  PROVE  ProofInv'
<1>1. /\ UNCHANGED <<course, attempt, proving, done, published>>
      /\ proving = "running" /\ now # Nothing /\ now.stage = "execute"
  BY DEF Execute
<1>2. /\ Place \in DOMAIN workspaces /\ workspaces[Place] = Fresh(Current)
      /\ now.context = Nothing \/ now.context \subseteq Visible(Current)
  BY <1>1 DEF ProofInv, NowInv
<1>3. Owned(Fresh(Current).files, Place, attempt)
  BY DEF Owned, Fresh
<1> DEFINE Leaves(context, response, left) ==
        /\ now' = [now EXCEPT !.stage = "judge", !.response = response, !.context = context]
        /\ workspaces' = [workspaces EXCEPT ![Place] = left]
        /\ context \subseteq Visible(Current) /\ Owned(left.files, Place, attempt)
        /\ response # Nothing => response.by = <<attempt, Place>>
<1>4. \E context, response, left : Leaves(context, response, left)
  <2>1. CASE now.context = Nothing
    <3>1. now' = [now EXCEPT !.stage = "judge", !.response = Nothing, !.context = {}] /\ UNCHANGED workspaces
      BY <2>1 DEF Execute
    <3>2. workspaces' = [workspaces EXCEPT ![Place] = Fresh(Current)]
      BY <1>2, <3>1 DEF ProofInv, DoneInv
    <3>3. {} \subseteq Visible(Current)
      OBVIOUS
    <3>4. Leaves({}, Nothing, Fresh(Current))
      BY <1>3, <3>1, <3>2, <3>3
    <3> HIDE DEF Leaves
    <3> QED
      BY <3>4
  <2>2. CASE now.context # Nothing
    <3>1. PICK move \in course.moves :
            LET left == After(Prepared(workspaces[Place]), move)
            IN  /\ workspaces' = [workspaces EXCEPT ![Place] = left]
                /\ now' = [now EXCEPT !.stage = "judge",
                                      !.response = IF move.ends /\ left.answer # Nothing /\ ResponseValid(left.answer)
                                                   THEN left.answer ELSE Nothing]
      BY <2>2 DEF Execute
    <3>2. PICK ready : ready = Prepared(workspaces[Place])
      OBVIOUS
    <3>3. ready.files = Fresh(Current).files /\ ready.answer = Nothing
      BY <1>2, <3>2 DEF Prepared, Fresh
    <3>4. PICK left : left = After(ready, move)
      OBVIOUS
    <3>5. Owned(left.files, Place, attempt)
      BY <1>3, <3>3, <3>4 DEF Owned, After
    <3>6. left.answer # Nothing => left.answer.by = <<attempt, Place>>
      BY <3>3, <3>4 DEF After
    <3>7. PICK response \in {left.answer, Nothing} :
            /\ workspaces' = [workspaces EXCEPT ![Place] = left]
            /\ now' = [now EXCEPT !.stage = "judge", !.response = response]
      BY <3>1, <3>2, <3>4
    <3>8. now' = [now EXCEPT !.stage = "judge", !.response = response, !.context = now.context]
      BY <1>1, <3>7 DEF ProofInv, NowInv
    <3>9. Leaves(now.context, response, left)
      BY <1>2, <2>2, <3>5, <3>6, <3>7, <3>8
    <3> HIDE DEF Leaves
    <3> QED
      BY <3>9
  <2> QED
    BY <2>1, <2>2
<1>5. PICK context, response, left : Leaves(context, response, left)
  BY <1>4
<1>6. OthersStay
  BY <1>5 DEF OthersStay, ProofInv, DoneInv
<1>7. /\ DoneInv'
      /\ \A a \in DOMAIN now.trials :
           Observed(now.trials[a], <<now.id, Arms[a]>>, Current, workspaces', attempt)
  BY <1>1, <1>6, ReportedStay
<1>8. now' = [id |-> now.id, trials |-> now.trials, context |-> context,
              response |-> response, stage |-> "judge"]
  BY <1>1, <1>5 DEF ProofInv, NowInv
<1>9. Used' = Used /\ Current' = Current /\ Place' = Place
  BY <1>1, <1>8 DEF Used, Current, Scenario, Place, Arm
<1>10. Place \in DOMAIN workspaces' /\ workspaces'[Place] = left
  BY <1>2, <1>5
<1>11. NowInv'
  BY <1>1, <1>5, <1>7, <1>8, <1>9, <1>10 DEF NowInv, ProofInv
<1> QED
  BY <1>1, <1>7, <1>11 DEF ProofInv, PublishedInv

(* run_trial: the status is what the response and the files show.          *)
LEMMA JudgeStep ==
  ASSUME ProofInv, Judge
  PROVE  ProofInv'
<1>1. /\ UNCHANGED <<course, attempt, proving, workspaces, published>>
      /\ proving = "running" /\ now # Nothing /\ now.stage = "judge"
  BY DEF Judge
<1> DEFINE trial == [context |-> now.context, response |-> now.response, status |-> Status]
<1>2. PICK trials : trials = Append(now.trials, trial)
  OBVIOUS
<1>3. Observed(trial, Place, Current, workspaces, attempt)
  BY <1>1 DEF ProofInv, NowInv, Observed, Answered, Status, Erred
<1> HIDE DEF trial
<1>4. /\ Listed(trials) /\ Len(trials) = Len(now.trials) + 1 /\ Len(now.trials) \in Nat
      /\ DOMAIN now.trials = 1 .. Len(now.trials) /\ DOMAIN trials = 1 .. Len(now.trials) + 1
      /\ \A a \in DOMAIN now.trials : trials[a] = now.trials[a]
      /\ trials[Len(now.trials) + 1] = trial
  <2>1. Listed(now.trials)
    BY <1>1 DEF ProofInv, NowInv
  <2>2. PICK old : old = now.trials
    OBVIOUS
  <2>3. Listed(old) /\ trials = Append(old, trial)
    BY <1>2, <2>1, <2>2
  <2> QED
    BY <2>2, <2>3, AppendExtends
<1>5. \A a \in DOMAIN trials : Observed(trials[a], <<now.id, Arms[a]>>, Current, workspaces, attempt)
  <2>1. Place = <<now.id, Arms[Len(now.trials) + 1]>>
    BY DEF Place, Arm
  <2> QED
    BY <1>1, <1>3, <1>4, <2>1 DEF ProofInv, NowInv
<1>6. Len(now.trials) < 3
  BY <1>1, ArmsDiffer DEF ProofInv, NowInv
<1>7. CASE Len(trials) < Len(Arms)
  <2>1. now' = [now EXCEPT !.trials = trials, !.stage = "prepare"] /\ UNCHANGED done
    BY <1>2, <1>7 DEF Judge, trial
  <2>2. now' = [id |-> now.id, trials |-> trials, context |-> now.context,
                response |-> now.response, stage |-> "prepare"]
    BY <1>1, <2>1 DEF ProofInv, NowInv
  <2>3. Used' = Used /\ Current' = Current /\ DoneInv'
    BY <1>1, <2>1 DEF Used, Current, Scenario, ProofInv, DoneInv
  <2>4. NowInv'
    BY <1>1, <1>4, <1>5, <1>7, <2>1, <2>2, <2>3 DEF NowInv, ProofInv
  <2> QED
    BY <1>1, <2>3, <2>4 DEF ProofInv, PublishedInv
<1>8. CASE ~(Len(trials) < Len(Arms))
  <2>1. PICK report : report = [id |-> now.id, trials |-> trials]
    OBVIOUS
  <2>2. done' = Append(done, report) /\ now' = Nothing
    BY <1>2, <1>8, <2>1 DEF Judge, trial
  <2>3. /\ Listed(done') /\ Len(done') = Len(done) + 1 /\ Len(done) \in Nat
        /\ DOMAIN done = 1 .. Len(done) /\ DOMAIN done' = 1 .. Len(done) + 1
        /\ \A k \in DOMAIN done : done'[k] = done[k]
        /\ done'[Len(done) + 1] = report
    <3>1. Listed(done)
      BY DEF ProofInv, DoneInv
    <3>2. PICK old, new : old = done /\ new = done'
      OBVIOUS
    <3>3. Listed(old) /\ new = Append(old, report)
      BY <2>2, <3>1, <3>2
    <3> QED
      BY <3>2, <3>3, AppendExtends
  <2>4. DOMAIN trials = DOMAIN Arms
    BY <1>4, <1>6, <1>8, ArmsDiffer
  <2>5. \A k \in DOMAIN done : done[k].id # now.id
    BY <1>1 DEF ProofInv, NowInv, Used
  <2>6. ASSUME NEW k \in DOMAIN done'
        PROVE  /\ ValidScenario(Scenario(k))
               /\ \A a \in DOMAIN Arms :
                    Observed(done'[k].trials[a], <<done'[k].id, Arms[a]>>, Scenario(k), workspaces, attempt)
    <3>1. CASE k \in DOMAIN done
      BY <2>3, <3>1 DEF ProofInv, DoneInv
    <3>2. CASE k = Len(done) + 1
      <4>1. Scenario(k) = Current /\ done'[k].trials = trials /\ done'[k].id = now.id
        BY <2>1, <2>3, <3>2 DEF Current
      <4> QED
        BY <1>1, <1>5, <2>4, <4>1 DEF ProofInv, NowInv
    <3> QED
      BY <2>3, <3>1, <3>2
  <2>7. \A j, k \in DOMAIN done' : done'[j].id = done'[k].id => j = k
    BY <2>1, <2>3, <2>5 DEF ProofInv, DoneInv
  <2>8. Len(done') <= Len(course.directory)
    BY <1>1, <2>3 DEF ProofInv, NowInv, DoneInv, IsCourse, IsList
  <2>9. DoneInv'
    <3>1. \A k : Scenario(k)' = Scenario(k)
      BY <1>1 DEF Scenario
    <3> QED
      BY <1>1, <2>3, <2>6, <2>7, <2>8, <3>1 DEF ProofInv, DoneInv
  <2> QED
    BY <1>1, <2>2, <2>9 DEF ProofInv, NowInv, PublishedInv
<1> QED
  BY <1>7, <1>8

LEMMA ProofKeeps == ProofInv /\ ProofStep => ProofInv'
<1> SUFFICES ASSUME ProofInv, ProofStep PROVE ProofInv'
  OBVIOUS
<1>1. CASE StartProof
  <2>1. /\ done' = <<>> /\ now' = Nothing /\ UNCHANGED <<course, workspaces, published>>
        /\ proving' \in {"failed", "running"}
    BY <1>1 DEF StartProof
  <2>2. Listed(done') /\ Len(done') = 0 /\ DOMAIN done' = {}
    BY <2>1 DEF Listed
  <2>3. DoneInv'
    BY <2>1, <2>2 DEF ProofInv, DoneInv, IsCourse, IsList
  <2> QED
    BY <2>1, <2>3 DEF ProofInv, NowInv, PublishedInv
<1>2. CASE Publish
  <2>1. /\ UNCHANGED <<course, attempt, done, now, workspaces>> /\ proving = "running" /\ now = Nothing
        /\ Len(done) = Len(course.directory)
        /\ (published' = ProofReport /\ proving' = "proved") \/ proving' = "failed"
    BY <1>2 DEF Publish
  <2>2. DoneInv' /\ NowInv' /\ ProofReport' = ProofReport
    BY <2>1 DEF ProofInv, DoneInv, NowInv, Scenario, ProofReport, ObservedWin, StatusFor
  <2> QED
    BY <2>1, <2>2 DEF ProofInv, PublishedInv
<1> QED
  BY <1>1, <1>2, BeginStep, MaterializeStep, ExecuteStep, JudgeStep DEF ProofStep

LEMMA ProofIdle == ProofInv /\ UNCHANGED proofVars => ProofInv'
<1> SUFFICES ASSUME ProofInv, UNCHANGED proofVars PROVE ProofInv'
  OBVIOUS
<1>1. UNCHANGED <<course, attempt, proving, done, now, workspaces, published>>
  BY DEF proofVars
<1>2. ProofReport' = ProofReport /\ Current' = Current /\ Place' = Place /\ Used' = Used
  BY <1>1 DEF ProofReport, ObservedWin, StatusFor, Current, Scenario, Place, Arm, Used
<1>3. DoneInv'
  BY <1>1 DEF ProofInv, DoneInv, Scenario
<1>4. NowInv'
  BY <1>1, <1>2 DEF ProofInv, NowInv
<1>5. PublishedInv'
  BY <1>1, <1>2 DEF ProofInv, PublishedInv
<1> QED
  BY <1>3, <1>4, <1>5 DEF ProofInv

LEMMA ProofStarts ==
  ASSUME NEW courses, \A c \in courses : IsCourse(c), ProofInit(courses)
  PROVE  ProofInv
<1>1. Listed(done) /\ Len(done) = 0 /\ DOMAIN done = {}
  BY DEF ProofInit, Listed
<1> QED
  BY <1>1 DEF ProofInit, ProofInv, DoneInv, NowInv, PublishedInv, IsCourse, IsList

(* summarize: what is counted is what the trials show.                     *)
LEMMA TrialsShow ==
  ASSUME ProofInv, NEW k \in DOMAIN done, NEW a \in DOMAIN Arms
  PROVE  LET answers == /\ Trial(k, a).response # Nothing
                        /\ Members(Trial(k, a).response.used) \subseteq Trial(k, a).context
             shows == Satisfied(Scenario(k), Trial(k, a).files)
         IN  /\ StatusFor(done[k], Arms[a]) = "pass" <=> answers /\ shows
             /\ StatusFor(done[k], Arms[a]) = "fail" <=> answers /\ ~shows
<1>1. Observed(done[k].trials[a], <<done[k].id, Arms[a]>>, Scenario(k), workspaces, attempt)
  BY DEF ProofInv, DoneInv
<1>2. StatusFor(done[k], Arms[a]) = done[k].trials[a].status
  BY ArmsDiffer DEF StatusFor
<1> QED
  BY <1>1, <1>2 DEF Observed, Answered, Trial

LEMMA ProofsAreObserved == ProofInv => ProofsObserved
<1> SUFFICES ASSUME ProofInv PROVE ProofsObserved
  OBVIOUS
<1>1. ASSUME NEW k \in DOMAIN done, NEW a \in DOMAIN Arms
      PROVE  Observed(done[k].trials[a], <<done[k].id, Arms[a]>>, Scenario(k), workspaces, attempt)
  BY DEF ProofInv, DoneInv
<1>2. TrialsApart
  <2>1. ASSUME NEW k \in DOMAIN done, NEW a \in DOMAIN Arms, NEW path \in DOMAIN Trial(k, a).files
        PROVE  Trial(k, a).files[path].by \in {Given, <<attempt, <<Trial(k, a).id, Trial(k, a).arm>>>>}
    BY <1>1 DEF Observed, Owned, Trial
  <2> QED
    BY <2>1 DEF ProofInv, DoneInv, TrialsApart, Trials
<1>3. AnswersAreFresh
  <2>1. ASSUME NEW k \in DOMAIN done, NEW a \in DOMAIN Arms
        PROVE  /\ Trial(k, a).response # Nothing =>
                    Trial(k, a).response.by = <<attempt, <<Trial(k, a).id, Trial(k, a).arm>>>>
               /\ \A m \in Members(Scenario(k).seeds) :
                    m.id \in Trial(k, a).context => m.label = "normal" /\ ~m.superseded
    <3>1. \A i, j \in DOMAIN Scenario(k).seeds : Scenario(k).seeds[i].id = Scenario(k).seeds[j].id => i = j
      BY DEF ProofInv, DoneInv, ValidScenario, Distinct
    <3>2. \A id \in Visible(Scenario(k)) : \E j \in DOMAIN Scenario(k).seeds :
            Scenario(k).seeds[j].id = id /\ Scenario(k).seeds[j].label = "normal" /\ ~Scenario(k).seeds[j].superseded
      BY DEF Visible, Members
    <3>3. /\ Trial(k, a).context = done[k].trials[a].context /\ Trial(k, a).response = done[k].trials[a].response
          /\ Trial(k, a).id = done[k].id /\ Trial(k, a).arm = Arms[a]
      BY DEF Trial
    <3>4. /\ Trial(k, a).context \subseteq Visible(Scenario(k))
          /\ Trial(k, a).response # Nothing =>
               Trial(k, a).response.by = <<attempt, <<Trial(k, a).id, Trial(k, a).arm>>>>
      BY <1>1, <3>3 DEF Observed
    <3>5. ASSUME NEW j \in DOMAIN Scenario(k).seeds, Scenario(k).seeds[j].id \in Trial(k, a).context
          PROVE  Scenario(k).seeds[j].label = "normal" /\ ~Scenario(k).seeds[j].superseded
      BY <3>1, <3>2, <3>4, <3>5
    <3> QED
      BY <3>4, <3>5 DEF Members
  <2> QED
    BY <2>1 DEF AnswersAreFresh, Trials
<1>4. WinsAreObserved
  <2> SUFFICES ASSUME proving = "proved" PROVE WinsAreObserved
    BY DEF WinsAreObserved
  <2> DEFINE Answers(k, a) == /\ Trial(k, a).response # Nothing
                              /\ Members(Trial(k, a).response.used) \subseteq Trial(k, a).context
             Solves(k, a) == Satisfied(Scenario(k), Trial(k, a).files)
  <2>1. published = ProofReport /\ DOMAIN done = DOMAIN course.directory
    BY DEF ProofInv, PublishedInv, DoneInv, IsCourse, IsList, Listed
  <2>2. \A k \in DOMAIN done : \A a \in DOMAIN Arms :
          /\ StatusFor(done[k], Arms[a]) = "pass" <=> Answers(k, a) /\ Solves(k, a)
          /\ StatusFor(done[k], Arms[a]) = "fail" <=> Answers(k, a) /\ ~Solves(k, a)
    BY TrialsShow
  <2>3. Arms[3] = "tree_ring" /\ DOMAIN Arms = 1 .. 3 /\ \A a \in {1, 2} : Arms[a] \in {"no_memory", "raw_memory"}
    BY DEF Arms
  <2> HIDE DEF Answers, Solves
  <2>4. published.complete => \A k \in DOMAIN course.directory : Answers(k, 3) /\ Solves(k, 3)
    <3>1. published.complete => \A k \in DOMAIN done : StatusFor(done[k], "tree_ring") = "pass"
      BY <2>1 DEF ProofReport
    <3> QED
      BY <2>1, <2>2, <2>3, <3>1
  <2>5. ASSUME NEW a \in {1, 2}
        PROVE  published.wins[Arms[a]] =
                 Cardinality({k \in DOMAIN course.directory : Answers(k, 3) /\ Solves(k, 3) /\ Answers(k, a) /\ ~Solves(k, a)})
    <3>1. published.wins[Arms[a]] = Cardinality({k \in DOMAIN done : ObservedWin(done[k], Arms[a])})
      BY <2>1, <2>3 DEF ProofReport
    <3>2. \A k \in DOMAIN done : ObservedWin(done[k], Arms[a]) <=> Answers(k, 3) /\ Solves(k, 3) /\ Answers(k, a) /\ ~Solves(k, a)
      BY <2>2, <2>3 DEF ObservedWin
    <3>3. {k \in DOMAIN done : ObservedWin(done[k], Arms[a])} =
            {k \in DOMAIN course.directory : Answers(k, 3) /\ Solves(k, 3) /\ Answers(k, a) /\ ~Solves(k, a)}
      BY <2>1, <3>2
    <3> QED
      BY <3>1, <3>3
  <2> QED
    BY <2>4, <2>5 DEF WinsAreObserved, Answers, Solves
<1> QED
  BY <1>2, <1>3, <1>4 DEF ProofsObserved

----
(***************************************************************************)
(* The theorems.                                                           *)
(***************************************************************************)

CertInv == EvidenceInv /\ QualityInv /\ ProofInv

LEMMA CertStarts == Init => CertInv
<1> SUFFICES ASSUME Init PROVE CertInv
  OBVIOUS
<1>1. plan \in Plans /\ EvidenceInv
  BY EvidenceStarts DEF Init, EvidenceInit
<1>2. PICK directory \in plan.directories : QualityInit(directory)
  BY DEF Init
<1>3. ProofInv
  <2>1. ProofInit(plan.courses) /\ \A c \in plan.courses : IsCourse(c)
    BY <1>1, CertificationAssumption DEF Init
  <2> QED
    BY <2>1, ProofStarts
<1> QED
  BY <1>1, <1>2, <1>3, QualityStarts DEF CertInv

LEMMA CertKeeps == CertInv /\ [Next]_vars => CertInv'
<1> SUFFICES ASSUME CertInv, [Next]_vars PROVE CertInv'
  OBVIOUS
<1> USE DEF CertInv
<1>1. CASE UNCHANGED evidenceVars /\ UNCHANGED qualityVars /\ ([ProofStep]_proofVars)
  BY <1>1, EvidenceIdle, QualityIdle, ProofKeeps, ProofIdle DEF qualityVars
<1>2. CASE EvidenceStep /\ UNCHANGED qualityVars /\ UNCHANGED proofVars
  BY <1>2, EvidenceKeeps, QualityIdle, ProofIdle DEF qualityVars
<1>3. CASE Quality
  BY <1>3, EvidenceIdle, QualityKeeps, ProofIdle DEF Quality
<1>4. CASE PublishMetrics
  <2>1. /\ phase = "passed" /\ ReplaceMetrics(stored) /\ phase' = "idle"
        /\ UNCHANGED <<scenarios, reports, stored>> /\ UNCHANGED proofVars
    BY <1>4 DEF PublishMetrics
  <2>2. stored \in [pass : {TRUE}, count : Nat, errors : {0}]
    BY <2>1 DEF QualityInv, AllPassed
  <2> QED
    BY <2>1, <2>2, ReplaceMetricsStep, QualityIdle, ProofIdle
<1>5. CASE RunScriptAgain
  BY <1>5, EvidenceIdle, QualityIdle, ProofIdle DEF RunScriptAgain
<1> QED
  BY <1>1, <1>2, <1>3, <1>4, <1>5 DEF Next, vars

(* Nothing is certified that was not observed to hold: a harness passes on *)
(* a fresh receipt of shared activation, a recall run by every query, a    *)
(* certification by a quality run that judged every file and was vacuous   *)
(* in none, though producers, script and console interleave and may die.   *)
THEOREM PassesHold == Spec => []PassesAreEarned
<1>1. CertInv => PassesAreEarned
  <2> SUFFICES ASSUME CertInv PROVE PassesAreEarned
    OBVIOUS
  <2>1. Known(index) => Sound(index, files)
    BY DEF CertInv, EvidenceInv, IndexInv
  <2>2. PassIsEarned
    BY <2>1 DEF PassIsEarned, Sound, Earned, EarnedRecall
  <2>3. CertificationEarned
    BY <2>1 DEF CertificationEarned, Sound, MetricsRecord
  <2> QED
    BY <2>2, <2>3, SuccessIsEarned DEF PassesAreEarned, CertInv
<1> QED
  BY <1>1, CertStarts, CertKeeps, PTL DEF Spec

(* Index, payloads and snapshot agree: the safety part of EvidencePublished, *)
(* whose liveness is model-checked.                                        *)
THEOREM EvidenceHolds == Spec => []EvidenceConsistent
<1>1. CertInv => EvidenceConsistent
  BY DEF CertInv, EvidenceInv, EvidenceConsistent
<1> QED
  BY <1>1, CertStarts, CertKeeps, PTL DEF Spec

(* run_workflow_proof: whatever the agents do and however often the proof   *)
(* is run again, its trials are apart, its answers fresh, and the wins it  *)
(* reports are what the files of its own trials show.                      *)
THEOREM ProofsHold == Spec => []ProofsObserved
BY CertStarts, CertKeeps, ProofsAreObserved, PTL DEF Spec, CertInv

----
(***************************************************************************)
(* The stream the console reads.                                           *)
(***************************************************************************)

\* Induction, for a set.
LEMMA StepByStep ==
  ASSUME NEW S, 0 \in S, \A n \in Nat : n \in S => n + 1 \in S
  PROVE  Nat \subseteq S
<1> DEFINE R == OpToRel(<, Nat)
           D == Nat \ S
<1>1. IsWellFoundedOn(R, Nat)
  BY Zenon, NatLessThanWellFounded
<1> SUFFICES ASSUME D # {} PROVE FALSE
  OBVIOUS
<1> HIDE DEF R
<1>2. PICK d \in D : \A e \in D : ~(<<e, d>> \in R)
  <2>1. D \subseteq Nat
    OBVIOUS
  <2> HIDE DEF D
  <2> QED
    BY <1>1, <2>1, WFMin
<1>3. \A e \in D : ~(e < d)
  BY <1>2, Zenon DEF R, OpToRel
<1>4. d \in Nat /\ d # 0 /\ d - 1 \in Nat
  OBVIOUS
<1>5. d - 1 \in S
  BY <1>3, <1>4
<1> QED
  BY <1>4, <1>5

\* One more byte.
Scan(state, b) ==
  IF b # Newline THEN [state EXCEPT !.rest = Append(@, b)]
  ELSE [events |-> state.events \o (IF Reported(state.rest) THEN <<state.rest>> ELSE <<>>), rest |-> <<>>]

Unread == [events |-> <<>>, rest |-> <<>>]

(* Bytes are split one after another. *)
LEMMA SplitSteps ==
  ASSUME NEW T, NEW s \in Seq(T)
  PROVE  \E upto :
           /\ upto[0] = [events |-> <<>>, rest |-> <<>>]
           /\ \A k \in 1 .. Len(s) : upto[k] = Scan(upto[k - 1], s[k])
           /\ Split(s) = upto[Len(s)]
<1> DEFINE Prolong(f, k) == IF k = 0 THEN [events |-> <<>>, rest |-> <<>>] ELSE Scan(f[k - 1], s[k])
           Good == {n \in Nat : \E f : f = [k \in 0 .. n |-> Prolong(f, k)]}
           upto[k \in 0 .. Len(s)] == IF k = 0 THEN [events |-> <<>>, rest |-> <<>>] ELSE Scan(upto[k - 1], s[k])
<1>1. 0 \in Good
  <2> DEFINE f == [k \in 0 .. 0 |-> [events |-> <<>>, rest |-> <<>>]]
  <2>1. f = [k \in 0 .. 0 |-> Prolong(f, k)]
    OBVIOUS
  <2> QED
    BY <2>1
<1>2. ASSUME NEW n \in Nat, n \in Good PROVE n + 1 \in Good
  <2>1. PICK f : f = [k \in 0 .. n |-> Prolong(f, k)]
    BY <1>2
  <2> DEFINE g == [k \in 0 .. n + 1 |-> IF k = n + 1 THEN Prolong(f, n + 1) ELSE f[k]]
  <2>2. ASSUME NEW k \in 0 .. n + 1 PROVE g[k] = Prolong(g, k)
    <3>1. CASE k = 0
      <4>1. f[0] = Prolong(f, 0)
        BY <2>1
      <4> QED
        BY <3>1, <4>1
    <3>2. CASE k # 0
      <4>1. k - 1 \in 0 .. n /\ k - 1 # n + 1
        BY <3>2
      <4>2. g[k - 1] = f[k - 1]
        BY <4>1
      <4>3. g[k] = Prolong(f, k)
        <5>1. CASE k = n + 1
          BY <5>1
        <5>2. CASE k # n + 1
          <6>1. k \in 0 .. n
            BY <5>2
          <6>2. f[k] = Prolong(f, k)
            <7> HIDE DEF Prolong
            <7> QED
              BY <2>1, <6>1
          <6> QED
            BY <5>2, <6>2
        <5> QED
          BY <5>1, <5>2
      <4> HIDE DEF g
      <4> QED
        BY <3>2, <4>2, <4>3
    <3> QED
      BY <3>1, <3>2
  <2>3. g = [k \in 0 .. n + 1 |-> Prolong(g, k)]
    <3>1. g = [k \in 0 .. n + 1 |-> g[k]]
      OBVIOUS
    <3> HIDE DEF g, Prolong
    <3> QED
      BY <2>2, <3>1
  <2> HIDE DEF g, Prolong
  <2> QED
    BY <2>3
<1>3. Nat \subseteq Good
  <2> HIDE DEF Good
  <2> QED
    BY <1>1, <1>2, StepByStep
<1>4. \E f : f = [k \in 0 .. Len(s) |-> Prolong(f, k)]
  <2>1. Len(s) \in Nat
    OBVIOUS
  <2> QED
    BY <1>3, <2>1
<1>5. upto = [k \in 0 .. Len(s) |-> Prolong(upto, k)]
  BY <1>4
<1>6. Split(s) = upto[Len(s)]
  BY DEF Split, Scan
<1> HIDE DEF upto
<1>7. Len(s) \in Nat
  OBVIOUS
<1>8. upto[0] = [events |-> <<>>, rest |-> <<>>]
  BY <1>5, <1>7
<1>9. ASSUME NEW k \in 1 .. Len(s) PROVE upto[k] = Scan(upto[k - 1], s[k])
  <2>1. k \in 0 .. Len(s) /\ k # 0
    BY <1>7
  <2>2. upto[k] = Prolong(upto, k)
    <3> HIDE DEF Prolong
    <3> QED
      BY <1>5, <2>1
  <2> QED
    BY <2>1, <2>2
<1> QED
  BY <1>6, <1>8, <1>9


\* What of some bytes is events and what the rest, in which there is no newline.
SplitOf(T) == [events : Seq(Seq(T)), rest : Seq(T \ {Newline})]

\* What one more byte makes of what was split.
LEMMA ScanIs ==
  ASSUME NEW e, NEW r, NEW b
  PROVE  /\ b # Newline => Scan([events |-> e, rest |-> r], b) = [events |-> e, rest |-> Append(r, b)]
         /\ b = Newline => Scan([events |-> e, rest |-> r], b) =
              [events |-> e \o (IF Reported(r) THEN <<r>> ELSE <<>>), rest |-> <<>>]
BY DEF Scan

LEMMA ScanTyped ==
  ASSUME NEW T, NEW state \in SplitOf(T), NEW b \in T
  PROVE  Scan(state, b) \in SplitOf(T)
<1> DEFINE events == state.events
           rest == state.rest
           U == Seq(T)
           V == T \ {Newline}
<1>1. events \in Seq(U) /\ rest \in Seq(V) /\ state = [events |-> events, rest |-> rest]
  BY DEF SplitOf
<1>2. rest \in U
  <2>1. V \subseteq T /\ rest \in Seq(V)
    BY <1>1
  <2> HIDE DEF V, rest
  <2>2. rest \in Seq(T)
    BY <2>1, SeqMonotonic
  <2> QED
    BY <2>2
<1> HIDE DEF events, rest, U, V
<1>3. CASE b # Newline
  <2>1. Scan(state, b) = [events |-> events, rest |-> Append(rest, b)]
    BY <1>1, <1>3 DEF Scan
  <2>2. b \in V
    BY <1>3 DEF V
  <2>3. Append(rest, b) \in Seq(V)
    BY <1>1, <2>2
  <2> QED
    BY <1>1, <2>1, <2>3, SMTT(30) DEF SplitOf, U, V
<1>4. CASE b = Newline
  <2> DEFINE one == IF Reported(rest) THEN <<rest>> ELSE <<>>
  <2>1. state.events = events /\ state.rest = rest
    BY <1>1
  <2>2. Scan(state, b) = [events |-> events \o one, rest |-> <<>>]
    BY <1>4, <2>1 DEF Scan
  <2>3. one \in Seq(U)
    BY <1>2
  <2> HIDE DEF one
  <2>4. events \o one \in Seq(U) /\ <<>> \in Seq(V)
    BY <1>1, <2>3
  <2> QED
    BY <2>2, <2>4 DEF SplitOf, U, V
<1> QED
  BY <1>3, <1>4

LEMMA SplitAppend ==
  ASSUME NEW T, NEW s \in Seq(T), NEW b \in T
  PROVE  /\ Split(<<>>) = Unread
         /\ Split(Append(s, b)) = Scan(Split(s), b)
<1> DEFINE more == Append(s, b)
           n == Len(s)
           empty == <<>>
<1>0. Split(empty) = Unread
  <2>1. empty \in Seq({}) /\ Len(empty) = 0
    OBVIOUS
  <2> HIDE DEF empty
  <2> QED
    BY <2>1, SplitSteps DEF Unread
<1>1. /\ n \in Nat /\ more \in Seq(T) /\ Len(more) = n + 1 /\ more[n + 1] = b
      /\ \A k \in 1 .. n : more[k] = s[k]
  OBVIOUS
<1>2. PICK few : /\ few[0] = [events |-> <<>>, rest |-> <<>>]
                 /\ \A k \in 1 .. Len(s) : few[k] = Scan(few[k - 1], s[k])
                 /\ Split(s) = few[Len(s)]
  BY SplitSteps
<1> HIDE DEF more
<1>3. PICK many : /\ many[0] = [events |-> <<>>, rest |-> <<>>]
                  /\ \A k \in 1 .. Len(more) : many[k] = Scan(many[k - 1], more[k])
                  /\ Split(more) = many[Len(more)]
  BY <1>1, SplitSteps
<1> DEFINE S == {k \in Nat : k <= n => many[k] = few[k]}
<1>4. 0 \in S
  BY <1>2, <1>3
<1>5. ASSUME NEW k \in Nat, k \in S PROVE k + 1 \in S
  <2> SUFFICES ASSUME k + 1 <= n PROVE many[k + 1] = few[k + 1]
    OBVIOUS
  <2>1. many[k] = few[k] /\ k + 1 \in 1 .. Len(s) /\ k + 1 \in 1 .. Len(more) /\ (k + 1) - 1 = k
    BY <1>1, <1>5
  <2>2. few[k + 1] = Scan(few[k], s[k + 1])
    BY <1>2, <2>1
  <2>3. many[k + 1] = Scan(many[k], more[k + 1])
    BY <1>3, <2>1
  <2>4. more[k + 1] = s[k + 1]
    BY <1>1, <2>1
  <2> QED
    BY <2>1, <2>2, <2>3, <2>4
<1>6. Nat \subseteq S
  <2> HIDE DEF S
  <2> QED
    BY <1>4, <1>5, StepByStep
<1>7. many[n] = few[n]
  BY <1>1, <1>6
<1>8. many[n + 1] = Scan(many[n], b)
  <2>1. n + 1 \in 1 .. Len(more) /\ (n + 1) - 1 = n
    BY <1>1
  <2> QED
    BY <1>1, <1>3, <2>1
<1> QED
  BY <1>0, <1>1, <1>2, <1>3, <1>7, <1>8 DEF more, empty

\* A sequence that is not empty is one byte more than another.
LEMMA LastByte ==
  ASSUME NEW T, NEW n \in Nat, NEW t \in Seq(T), Len(t) = n + 1
  PROVE  \E u \in Seq(T), b \in T : t = Append(u, b) /\ Len(u) = n /\ b = t[n + 1] /\ \A k \in 1 .. n : u[k] = t[k]
<1> DEFINE u == SubSeq(t, 1, n)
           b == t[n + 1]
<1>1. u \in Seq(T) /\ Len(u) = n /\ b \in T /\ \A k \in 1 .. n : u[k] = t[k]
  OBVIOUS
<1>2. t = Append(u, b)
  OBVIOUS
<1> HIDE DEF u
<1> QED
  BY <1>1, <1>2

LEMMA SplitTyped ==
  ASSUME NEW T, NEW s \in Seq(T)
  PROVE  Split(s) \in SplitOf(T)
<1> DEFINE S == {n \in Nat : \A t \in Seq(T) : Len(t) = n => Split(t) \in SplitOf(T)}
<1>1. 0 \in S
  <2> SUFFICES ASSUME NEW t \in Seq(T), Len(t) = 0 PROVE Split(t) \in SplitOf(T)
    OBVIOUS
  <2>1. t \in Seq(T) /\ Len(t) = 0
    OBVIOUS
  <2>2. Split(t) = Unread
    BY <2>1, SplitSteps DEF Unread
  <2> QED
    BY <2>2 DEF Unread, SplitOf
<1>2. ASSUME NEW n \in Nat, n \in S PROVE n + 1 \in S
  <2> SUFFICES ASSUME NEW t \in Seq(T), Len(t) = n + 1 PROVE Split(t) \in SplitOf(T)
    OBVIOUS
  <2>1. PICK u \in Seq(T), b \in T : t = Append(u, b) /\ Len(u) = n
    BY LastByte
  <2>2. Split(u) \in SplitOf(T)
    BY <1>2, <2>1
  <2>3. Split(t) = Scan(Split(u), b)
    BY <2>1, SplitAppend
  <2> QED
    BY <2>2, <2>3, ScanTyped
<1>3. Nat \subseteq S
  <2> HIDE DEF S
  <2> QED
    BY <1>1, <1>2, StepByStep
<1>4. Len(s) \in Nat
  OBVIOUS
<1> QED
  BY <1>3, <1>4

(* Bytes without a newline are all rest.                                   *)
LEMMA SplitPlain ==
  ASSUME NEW T, NEW s \in Seq(T), \A k \in 1 .. Len(s) : s[k] # Newline
  PROVE  Split(s) = [events |-> <<>>, rest |-> s]
<1> DEFINE Plainly(t) == \A k \in 1 .. Len(t) : t[k] # Newline
           S == {n \in Nat : \A t \in Seq(T) : Len(t) = n /\ Plainly(t) => Split(t) = [events |-> <<>>, rest |-> t]}
<1>1. 0 \in S
  <2> SUFFICES ASSUME NEW t \in Seq(T), Len(t) = 0 PROVE Split(t) = [events |-> <<>>, rest |-> t]
    OBVIOUS
  <2>1. Split(t) = Unread
    BY SplitSteps DEF Unread
  <2>2. t = <<>>
    OBVIOUS
  <2> QED
    BY <2>1, <2>2 DEF Unread
<1>2. ASSUME NEW n \in Nat, n \in S PROVE n + 1 \in S
  <2> SUFFICES ASSUME NEW t \in Seq(T), Len(t) = n + 1, Plainly(t) PROVE Split(t) = [events |-> <<>>, rest |-> t]
    OBVIOUS
  <2>1. PICK u \in Seq(T), b \in T : t = Append(u, b) /\ Len(u) = n /\ b = t[n + 1] /\ \A k \in 1 .. n : u[k] = t[k]
    BY LastByte
  <2>2. Plainly(u) /\ b # Newline
    BY <2>1
  <2>3. Split(u) = [events |-> <<>>, rest |-> u]
    <3> HIDE DEF Plainly
    <3> QED
      BY <1>2, <2>1, <2>2
  <2>4. Split(t) = Scan(Split(u), b)
    BY <2>1, SplitAppend
  <2>5. Scan(Split(u), b) = [events |-> <<>>, rest |-> Append(u, b)]
    BY <2>2, <2>3, ScanIs
  <2> QED
    BY <2>1, <2>4, <2>5
<1>3. Nat \subseteq S
  <2> HIDE DEF S
  <2> QED
    BY <1>1, <1>2, StepByStep
<1>4. Len(s) \in Nat /\ Plainly(s)
  OBVIOUS
<1> HIDE DEF Plainly
<1> QED
  BY <1>3, <1>4

\* The parts of what was split.
LEMMA SplitParts ==
  ASSUME NEW T, NEW s \in Seq(T)
  PROVE  /\ Split(s) = [events |-> Split(s).events, rest |-> Split(s).rest]
         /\ Split(s).events \in Seq(Seq(T)) /\ Split(s).rest \in Seq(T)
         /\ \A k \in 1 .. Len(Split(s).rest) : Split(s).rest[k] # Newline
<1>1. Split(s) \in SplitOf(T)
  BY SplitTyped
<1> DEFINE events == Split(s).events
           rest == Split(s).rest
           V == T \ {Newline}
<1>2. Split(s) = [events |-> events, rest |-> rest] /\ events \in Seq(Seq(T)) /\ rest \in Seq(V)
  BY <1>1 DEF SplitOf
<1>3. V \subseteq T /\ Newline \notin V
  OBVIOUS
<1> HIDE DEF rest, V
<1>4. rest \in Seq(T) /\ \A k \in 1 .. Len(rest) : rest[k] \in V
  BY <1>2, <1>3, SeqMonotonic, ElementOfSeq
<1> QED
  BY <1>2, <1>3, <1>4 DEF rest

(* Reading on, from the rest of what was read, comes to the same as reading *)
(* all at once.                                                            *)
LEMMA SplitJoin ==
  ASSUME NEW T, NEW s \in Seq(T), NEW t \in Seq(T)
  PROVE  Split(s \o t) = [events |-> Split(s).events \o Split(Split(s).rest \o t).events,
                          rest |-> Split(Split(s).rest \o t).rest]
<1> DEFINE events == Split(s).events
           rest == Split(s).rest
           Lined == Seq(T)
           S == {n \in Nat : \A u \in Seq(T) : Len(u) = n =>
                   Split(s \o u) = [events |-> events \o Split(rest \o u).events, rest |-> Split(rest \o u).rest]}
<1>1. /\ Split(s) = [events |-> events, rest |-> rest] /\ events \in Seq(Lined) /\ rest \in Seq(T)
      /\ \A k \in 1 .. Len(rest) : rest[k] # Newline
  BY SplitParts
<1> HIDE DEF events, rest, Lined
<1>2. 0 \in S
  <2> SUFFICES ASSUME NEW u \in Seq(T), Len(u) = 0
               PROVE  Split(s \o u) = [events |-> events \o Split(rest \o u).events, rest |-> Split(rest \o u).rest]
    OBVIOUS
  <2>1. u = <<>>
    OBVIOUS
  <2>2. s \o u = s /\ rest \o u = rest /\ events \o <<>> = events
    BY <1>1, <2>1, ConcatEmptySeq
  <2>3. Split(rest).events = <<>> /\ Split(rest).rest = rest
    BY <1>1, SplitPlain
  <2> QED
    BY <1>1, <2>2, <2>3
<1>3. ASSUME NEW n \in Nat, n \in S PROVE n + 1 \in S
  <2> SUFFICES ASSUME NEW u \in Seq(T), Len(u) = n + 1
               PROVE  Split(s \o u) = [events |-> events \o Split(rest \o u).events, rest |-> Split(rest \o u).rest]
    OBVIOUS
  <2>1. PICK v \in Seq(T), b \in T : u = Append(v, b) /\ Len(v) = n /\ b = u[n + 1] /\ \A k \in 1 .. n : v[k] = u[k]
    BY LastByte
  <2> DEFINE all == s \o v
             on == rest \o v
             e == Split(on).events
             r == Split(on).rest
             one == IF Reported(r) THEN <<r>> ELSE <<>>
  <2>2. all \in Seq(T) /\ on \in Seq(T)
    BY <1>1
  <2>3. s \o u = Append(all, b) /\ rest \o u = Append(on, b)
    BY <1>1, <2>1, SMTT(30)
  <2>4. Split(all) = [events |-> events \o e, rest |-> r]
    BY <1>3, <2>1
  <2> HIDE DEF all, on
  <2>5. Split(on) = [events |-> e, rest |-> r] /\ e \in Seq(Lined) /\ r \in Lined
    BY <2>2, SplitParts DEF Lined
  <2>6. Split(Append(all, b)) = Scan([events |-> events \o e, rest |-> r], b)
    BY <2>2, <2>4, SplitAppend
  <2>7. Split(Append(on, b)) = Scan([events |-> e, rest |-> r], b)
    BY <2>2, <2>5, SplitAppend
  <2> HIDE DEF e, r
  <2>8. CASE b # Newline
    <3>1. Split(Append(all, b)) = [events |-> events \o e, rest |-> Append(r, b)]
      BY <2>6, <2>8, ScanIs
    <3>2. Split(Append(on, b)) = [events |-> e, rest |-> Append(r, b)]
      BY <2>7, <2>8, ScanIs
    <3>3. Split(Append(on, b)).events = e /\ Split(Append(on, b)).rest = Append(r, b)
      BY <3>2
    <3> QED
      BY <2>3, <3>1, <3>3
  <2>9. CASE b = Newline
    <3>1. Split(Append(all, b)) = [events |-> (events \o e) \o one, rest |-> <<>>]
      BY <2>6, <2>9, ScanIs
    <3>2. Split(Append(on, b)) = [events |-> e \o one, rest |-> <<>>]
      BY <2>7, <2>9, ScanIs
    <3>3. Split(Append(on, b)).events = e \o one /\ Split(Append(on, b)).rest = <<>>
      BY <3>2
    <3>4. one \in Seq(Lined)
      BY <2>5
    <3> HIDE DEF one
    <3>5. (events \o e) \o one = events \o (e \o one)
      BY <1>1, <2>5, <3>4, ConcatAssociative, SMTT(30)
    <3> QED
      BY <2>3, <3>1, <3>3, <3>5
  <2> QED
    BY <2>8, <2>9
<1>4. Nat \subseteq S
  <2> HIDE DEF S
  <2> QED
    BY <1>2, <1>3, StepByStep
<1>5. Len(t) \in Nat
  OBVIOUS
<1> QED
  BY <1>4, <1>5 DEF events, rest

\* What a reader keeps of the bytes it has read: nothing of a line that is already too long.
Reads(r, s) ==
  LET rest == Split(s).rest
  IN  r = [offset |-> Len(s), pending |-> IF Len(rest) > MaxLineBytes THEN <<>> ELSE rest,
           discarding |-> Len(rest) > MaxLineBytes]

LEMMA FirstIsThere ==
  ASSUME NEW T, NEW s \in Seq(T)
  PROVE  /\ FirstNewline(s) = 0 => \A k \in 1 .. Len(s) : s[k] # Newline
         /\ FirstNewline(s) # 0 => /\ FirstNewline(s) \in 1 .. Len(s) /\ s[FirstNewline(s)] = Newline
                                   /\ \A k \in 1 .. FirstNewline(s) - 1 : s[k] # Newline
<1> DEFINE places == NewlinesIn(s)
<1>1. places = {k \in 1 .. Len(s) : s[k] = Newline} /\ places \subseteq Nat /\ 0 \notin places
  BY DEF NewlinesIn
<1>2. FirstNewline(s) = IF places = {} THEN 0 ELSE Min(places)
  BY DEF FirstNewline
<1> HIDE DEF places
<1>3. CASE places = {}
  BY <1>1, <1>2, <1>3
<1>4. CASE places # {}
  <2>1. PICK x \in places : \A y \in places : ~(y < x)
    BY <1>1, <1>4, LeastExists
  <2>2. \A y \in places : x =< y
    BY <1>1, <2>1
  <2>3. Min(places) \in places /\ \A y \in places : Min(places) =< y
    BY <2>2 DEF Min
  <2> DEFINE m == Min(places)
  <2>4. m \in places /\ \A y \in places : m =< y
    BY <2>3
  <2>5. FirstNewline(s) = m
    BY <1>2, <1>4
  <2> HIDE DEF m
  <2>6. m \in 1 .. Len(s) /\ s[m] = Newline /\ m # 0
    BY <1>1, <2>4
  <2>7. ASSUME NEW k \in 1 .. m - 1 PROVE s[k] # Newline
    <3>1. k \in 1 .. Len(s) /\ ~(m =< k)
      BY <2>6
    <3> QED
      BY <1>1, <2>4, <3>1
  <2> QED
    BY <2>5, <2>6, <2>7
<1> QED
  BY <1>3, <1>4

(* However the bytes are cut into reads, lines that are too long included:  *)
(* the events so far are those of all that was read.                       *)
LEMMA TakeRight ==
  ASSUME NEW T, NEW s \in Seq(T), NEW more \in Seq(T), NEW r, Reads(r, s)
  PROVE  /\ Reads(Take(r, more).reader, s \o more)
         /\ Split(s \o more).events = Split(s).events \o Take(r, more).events
<1> DEFINE rest == Split(s).rest
           events == Split(s).events
           begin == FirstNewline(more)
           long == Len(rest) > MaxLineBytes
           bytes == r.pending \o (IF r.discarding THEN SubSeq(more, begin + 1, Len(more)) ELSE more)
           read == [r EXCEPT !.offset = @ + Len(more)]
           total == Len(s) + Len(more)
<1>1. /\ rest \in Seq(T) /\ events \in Seq(Seq(T)) /\ \A k \in 1 .. Len(rest) : rest[k] # Newline
  BY SplitParts
<1>2. r = [offset |-> Len(s), pending |-> IF long THEN <<>> ELSE rest, discarding |-> long]
  BY DEF Reads
<1>3. Len(s) \in Nat /\ Len(more) \in Nat /\ Len(rest) \in Nat /\ MaxLineBytes \in Nat /\ Len(s \o more) = total
  BY <1>1, StreamAssumption
<1>4. read = [offset |-> total, pending |-> IF long THEN <<>> ELSE rest, discarding |-> long]
  BY <1>2
<1>5. Split(s \o more) = [events |-> events \o Split(rest \o more).events, rest |-> Split(rest \o more).rest]
  BY SplitJoin
<1>6. Split(s \o more).events = events \o Split(rest \o more).events /\ Split(s \o more).rest = Split(rest \o more).rest
  <2> DEFINE all_events == events \o Split(rest \o more).events
             all_rest == Split(rest \o more).rest
  <2>1. Split(s \o more) = [events |-> all_events, rest |-> all_rest]
    BY <1>5
  <2> HIDE DEF all_events, all_rest
  <2>2. Split(s \o more).events = all_events /\ Split(s \o more).rest = all_rest
    BY <2>1
  <2> QED
    BY <2>2 DEF all_events, all_rest
<1>7. Take(r, more) = IF r.discarding /\ begin = 0 THEN [reader |-> read, events |-> <<>>]
                      ELSE [reader |-> Held(read, Split(bytes).rest), events |-> Split(bytes).events]
  BY DEF Take
<1>8. r.discarding = long /\ r.pending = IF long THEN <<>> ELSE rest
  BY <1>2
<1> HIDE DEF rest, events, begin, total, read
<1>9. ASSUME ~(long /\ begin = 0),
             Split(bytes).rest = Split(rest \o more).rest, Split(bytes).events = Split(rest \o more).events
      PROVE  /\ Reads(Take(r, more).reader, s \o more)
             /\ Split(s \o more).events = events \o Take(r, more).events
  <2> DEFINE left_over == Split(bytes).rest
             told == Split(bytes).events
             over == Len(left_over) > MaxLineBytes
             next == Take(r, more)
  <2>1. next = [reader |-> Held(read, left_over), events |-> told]
    BY <1>7, <1>8, <1>9
  <2> HIDE DEF left_over, told, bytes, long, next
  <2>2. next.reader = Held(read, left_over) /\ next.events = told
    BY <2>1
  <2>4. next.reader = [offset |-> total, pending |-> IF over THEN <<>> ELSE left_over, discarding |-> over]
    BY <1>4, <2>2 DEF Held
  <2>5. Split(s \o more).rest = left_over /\ Split(s \o more).events = events \o told
    BY <1>6, <1>9 DEF left_over, told
  <2>6. Reads(next.reader, s \o more)
    BY <1>3, <2>4, <2>5 DEF Reads
  <2> QED
    BY <2>2, <2>5, <2>6 DEF next
<1>10. CASE ~long
  <2>1. bytes = rest \o more
    BY <1>8, <1>10
  <2> HIDE DEF bytes, long
  <2> QED
    BY <1>9, <1>10, <2>1 DEF events
<1>11. CASE long /\ begin = 0
  <2>1. Take(r, more) = [reader |-> read, events |-> <<>>]
    BY <1>7, <1>8, <1>11
  <2>2. Take(r, more).reader = read /\ Take(r, more).events = <<>>
    BY <2>1
  <2> DEFINE on == rest \o more
  <2>3. \A k \in 1 .. Len(more) : more[k] # Newline
    BY <1>11, FirstIsThere DEF begin
  <2>4. on \in Seq(T) /\ Len(on) = Len(rest) + Len(more) /\ \A k \in 1 .. Len(on) : on[k] # Newline
    <3>1. on \in Seq(T) /\ Len(on) = Len(rest) + Len(more)
      BY <1>1
    <3>2. ASSUME NEW k \in 1 .. Len(on) PROVE on[k] # Newline
      <4>1. on[k] = IF k <= Len(rest) THEN rest[k] ELSE more[k - Len(rest)]
        BY <1>1, <3>1
      <4>2. CASE k <= Len(rest)
        BY <1>1, <1>3, <3>1, <4>1, <4>2
      <4>3. CASE k > Len(rest)
        <5>1. k - Len(rest) \in 1 .. Len(more)
          BY <1>3, <3>1, <4>3
        <5> QED
          BY <1>3, <2>3, <4>1, <4>3, <5>1
      <4> QED
        BY <1>3, <3>1, <4>2, <4>3
    <3> QED
      BY <3>1, <3>2
  <2> HIDE DEF on
  <2>5. Split(on) = [events |-> <<>>, rest |-> on]
    BY <2>4, SplitPlain
  <2>6. Split(on).events = <<>> /\ Split(on).rest = on /\ Len(on) > MaxLineBytes
    BY <1>3, <1>11, <2>4, <2>5
  <2>7. events \o <<>> = events
    BY <1>1, ConcatEmptySeq
  <2>8. Split(s \o more).events = events /\ Split(s \o more).rest = on
    BY <1>6, <2>6, <2>7 DEF on
  <2>9. read = [offset |-> total, pending |-> <<>>, discarding |-> TRUE]
    BY <1>4, <1>11
  <2>10. Reads(read, s \o more)
    BY <1>3, <2>6, <2>8, <2>9 DEF Reads
  <2> QED
    BY <2>2, <2>7, <2>8, <2>10 DEF events
<1>12. CASE long /\ begin # 0
  <2>1. /\ begin \in 1 .. Len(more) /\ more[begin] = Newline
        /\ \A k \in 1 .. begin - 1 : more[k] # Newline
    BY <1>12, FirstIsThere DEF begin
  <2> DEFINE end == SubSeq(more, 1, begin - 1)
             after == SubSeq(more, begin + 1, Len(more))
             plain == rest \o end
             line == Append(plain, Newline)
  <2>2. /\ end \in Seq(T) /\ Len(end) = begin - 1 /\ \A k \in 1 .. begin - 1 : end[k] = more[k]
        /\ after \in Seq(T) /\ Len(after) = Len(more) - begin /\ \A k \in 1 .. Len(more) - begin : after[k] = more[begin + k]
        /\ Newline \in T
    BY <2>1, SMTT(30)
  <2>3. bytes = after
    <3>1. bytes = <<>> \o after
      BY <1>8, <1>12
    <3> HIDE DEF bytes, after
    <3> QED
      BY <2>2, <3>1, ConcatEmptySeq
  <2> HIDE DEF bytes, end, after
  <2>4. plain \in Seq(T) /\ Len(plain) = Len(rest) + (begin - 1) /\ \A k \in 1 .. Len(plain) : plain[k] # Newline
    <3>1. plain \in Seq(T) /\ Len(plain) = Len(rest) + (begin - 1)
      <4>1. plain \in Seq(T) /\ Len(plain) = Len(rest) + Len(end)
        BY <1>1, <2>2, ConcatProperties
      <4> HIDE DEF plain
      <4> QED
        BY <2>2, <4>1
    <3>2. ASSUME NEW k \in 1 .. Len(plain) PROVE plain[k] # Newline
      <4>1. plain[k] = IF k <= Len(rest) THEN rest[k] ELSE end[k - Len(rest)]
        BY <1>1, <2>2, <3>1
      <4>2. CASE k <= Len(rest)
        BY <1>1, <1>3, <3>1, <4>1, <4>2
      <4>3. CASE k > Len(rest)
        <5>1. k - Len(rest) \in 1 .. begin - 1
          BY <1>3, <2>1, <3>1, <4>3
        <5> QED
          BY <1>3, <2>1, <2>2, <4>1, <4>3, <5>1
      <4> QED
        BY <1>3, <3>1, <4>2, <4>3
    <3> QED
      BY <3>1, <3>2
  <2> HIDE DEF plain
  <2>5. Split(plain) = [events |-> <<>>, rest |-> plain] /\ ~Reported(plain)
    <3>1. Len(plain) > MaxLineBytes
      BY <1>3, <1>12, <2>1, <2>4
    <3>2. Split(plain) = [events |-> <<>>, rest |-> plain]
      BY <2>4, SplitPlain
    <3>3. Len(plain) \in Nat
      BY <2>4
    <3> QED
      BY <1>3, <3>1, <3>2, <3>3 DEF Reported
  <2>6. Split(line) = [events |-> <<>>, rest |-> <<>>]
    <3>1. Split(line) = Scan([events |-> <<>>, rest |-> plain], Newline)
      BY <2>2, <2>4, <2>5, SplitAppend
    <3>2. Scan([events |-> <<>>, rest |-> plain], Newline) = [events |-> <<>> \o <<>>, rest |-> <<>>]
      BY <2>5, ScanIs
    <3>3. <<>> \o <<>> = <<>>
      OBVIOUS
    <3> QED
      BY <3>1, <3>2, <3>3
  <2>7. line \in Seq(T)
    BY <2>2, <2>4
  <2>8. rest \o more = line \o after
    <3> DEFINE one == rest \o more
               two == line \o after
    <3>1. one \in Seq(T) /\ Len(one) = Len(rest) + Len(more)
      BY <1>1
    <3>2. two \in Seq(T) /\ Len(two) = Len(rest) + Len(more)
      <4>1. Len(line) = Len(rest) + begin
        BY <1>3, <2>1, <2>4
      <4> HIDE DEF line
      <4>2. two \in Seq(T) /\ Len(two) = Len(line) + Len(after)
        BY <2>2, <2>7, ConcatProperties
      <4> HIDE DEF two
      <4> QED
        BY <1>3, <2>1, <2>2, <4>1, <4>2
    <3>3. ASSUME NEW k \in 1 .. Len(one) PROVE one[k] = two[k]
      <4>1. one[k] = IF k <= Len(rest) THEN rest[k] ELSE more[k - Len(rest)]
        BY <1>1, <3>1
      <4>2. two[k] = IF k <= Len(line) THEN line[k] ELSE after[k - Len(line)]
        BY <2>2, <2>7, <3>1, <3>2
      <4>3. Len(line) = Len(rest) + begin /\ line[Len(rest) + begin] = Newline
            /\ \A j \in 1 .. Len(rest) + (begin - 1) : line[j] = plain[j]
        BY <1>3, <2>1, <2>2, <2>4
      <4>4. \A j \in 1 .. Len(rest) + (begin - 1) : plain[j] = IF j <= Len(rest) THEN rest[j] ELSE end[j - Len(rest)]
        BY <1>1, <1>3, <2>2, <2>4 DEF plain
      <4> HIDE DEF one, two, line
      <4>5. CASE k <= Len(rest)
        <5>1. k \in 1 .. Len(rest) + (begin - 1) /\ k <= Len(line)
          BY <1>3, <2>1, <3>1, <4>3, <4>5
        <5> QED
          BY <4>1, <4>2, <4>3, <4>4, <4>5, <5>1
      <4>6. CASE k > Len(rest) /\ k < Len(rest) + begin
        <5>1. k \in 1 .. Len(rest) + (begin - 1) /\ k <= Len(line) /\ ~(k <= Len(rest)) /\ k - Len(rest) \in 1 .. begin - 1
          BY <1>3, <2>1, <3>1, <4>3, <4>6, SMTT(30)
        <5>2. two[k] = end[k - Len(rest)]
          BY <4>2, <4>3, <4>4, <5>1
        <5> QED
          BY <2>2, <4>1, <5>1, <5>2
      <4>7. CASE k = Len(rest) + begin
        <5>1. k <= Len(line) /\ ~(k <= Len(rest)) /\ k - Len(rest) = begin
          BY <1>3, <2>1, <4>3, <4>7
        <5> QED
          BY <2>1, <4>1, <4>2, <4>3, <4>7, <5>1
      <4>8. CASE k > Len(rest) + begin
        <5>1. /\ ~(k <= Len(line)) /\ ~(k <= Len(rest)) /\ k - Len(line) \in 1 .. Len(more) - begin
              /\ begin + (k - Len(line)) = k - Len(rest)
          <6>1. k \in Nat /\ k <= Len(rest) + Len(more) /\ Len(line) = Len(rest) + begin /\ begin \in Nat
            BY <1>3, <2>1, <3>1, <4>3
          <6> QED
            BY <1>3, <4>8, <6>1
        <5> QED
          BY <2>2, <4>1, <4>2, <5>1
      <4>9. Len(one) \in Nat /\ k \in Nat
        BY <3>1, <1>3
      <4> QED
        BY <1>3, <2>1, <4>5, <4>6, <4>7, <4>8, <4>9
    <3> HIDE DEF one, two
    <3>4. one = two
      BY <3>1, <3>2, <3>3, SeqEqual
    <3> QED
      BY <3>4 DEF one, two
  <2> HIDE DEF line
  <2>9. Split(line \o after) = [events |-> <<>> \o Split(<<>> \o after).events, rest |-> Split(<<>> \o after).rest]
    <3>1. Split(line).events = <<>> /\ Split(line).rest = <<>>
      BY <2>6
    <3> QED
      BY <2>2, <2>7, <3>1, SplitJoin
  <2>10. <<>> \o after = after /\ <<>> \o Split(after).events = Split(after).events
    BY <2>2, SplitParts, ConcatEmptySeq
  <2>11. Split(rest \o more).events = Split(bytes).events /\ Split(rest \o more).rest = Split(bytes).rest
    BY <2>3, <2>8, <2>9, <2>10
  <2> HIDE DEF long
  <2> QED
    BY <1>9, <1>12, <2>11 DEF events
<1> QED
  BY <1>10, <1>11, <1>12 DEF events

\* The bytes writers write.
Byte == [line : Nat, pos : Nat, of : Lengths, gen : Nat]
Bytes == {Newline} \cup Byte

IsReader(r) ==
  /\ r = [offset |-> r.offset, pending |-> r.pending, discarding |-> r.discarding]
  /\ r.offset \in Nat /\ r.pending \in Seq(Bytes) /\ r.discarding \in BOOLEAN

\* As long as no rotation was missed the reader is where reading basis leaves it.
StreamInv ==
  /\ file \in Seq(Bytes) /\ rotations \in Nat /\ missed \in BOOLEAN
  /\ IsReader(reader) /\ delivered \in Seq(Seq(Bytes))
  /\ ~missed => /\ basis \in Seq(Bytes) /\ Reads(reader, basis)
                /\ delivered = Split(basis).events

LEMMA TakeTyped ==
  ASSUME NEW r, IsReader(r), NEW more \in Seq(Bytes)
  PROVE  /\ IsReader(Take(r, more).reader) /\ Take(r, more).events \in Seq(Seq(Bytes))
         /\ Take(r, more).reader.offset = r.offset + Len(more)
<1> DEFINE begin == FirstNewline(more)
           bytes == r.pending \o (IF r.discarding THEN SubSeq(more, begin + 1, Len(more)) ELSE more)
           next == r.offset + Len(more)
           read == [r EXCEPT !.offset = @ + Len(more)]
           left_over == Split(bytes).rest
           told == Split(bytes).events
           over == Len(left_over) > MaxLineBytes
           took == Take(r, more)
           old == r.pending
           was == r.discarding
<1>1. r = [offset |-> r.offset, pending |-> old, discarding |-> was] /\ r.offset \in Nat /\ old \in Seq(Bytes) /\ was \in BOOLEAN
  BY DEF IsReader
<1>2. Len(more) \in Nat /\ next \in Nat
  BY <1>1
<1>3. took = IF r.discarding /\ begin = 0 THEN [reader |-> read, events |-> <<>>]
             ELSE [reader |-> Held(read, left_over), events |-> told]
  BY DEF Take
<1>4. SubSeq(more, begin + 1, Len(more)) \in Seq(Bytes)
  <2>1. begin \in Nat
    BY FirstIsThere
  <2>2. begin + 1 \in Int /\ Len(more) \in Int /\ \A i \in begin + 1 .. Len(more) : more[i] \in Bytes
    BY <1>2, <2>1
  <2> HIDE DEF begin
  <2> QED
    BY <2>2, SubSeqProperties
<1>5. bytes \in Seq(Bytes)
  <2> DEFINE rest_of == IF r.discarding THEN SubSeq(more, begin + 1, Len(more)) ELSE more
  <2>1. rest_of \in Seq(Bytes)
    BY <1>4
  <2> HIDE DEF rest_of
  <2>2. r.pending \o rest_of \in Seq(Bytes)
    BY <1>1, <2>1
  <2> QED
    BY <2>2 DEF rest_of
<1> HIDE DEF bytes, old, was, next
<1>6. told \in Seq(Seq(Bytes)) /\ left_over \in Seq(Bytes)
  BY <1>5, SplitParts
<1>7. read = [offset |-> next, pending |-> old, discarding |-> was]
  BY <1>1 DEF next
<1> HIDE DEF read, left_over, told, took
<1>8. CASE r.discarding /\ begin = 0
  <2>1. took.reader = read /\ took.events = <<>>
    BY <1>3, <1>8
  <2>2. read = [offset |-> read.offset, pending |-> read.pending, discarding |-> read.discarding]
        /\ read.offset = next /\ read.pending = old /\ read.discarding = was
    BY <1>7
  <2> QED
    BY <1>1, <1>2, <2>1, <2>2 DEF IsReader, took, next
<1>9. CASE ~(r.discarding /\ begin = 0)
  <2> DEFINE kept == IF over THEN <<>> ELSE left_over
             held == took.reader
  <2>1. took.reader = Held(read, left_over) /\ took.events = told
    BY <1>3, <1>9
  <2>2. held = [offset |-> next, pending |-> kept, discarding |-> over]
    BY <1>7, <2>1 DEF Held
  <2>3. kept \in Seq(Bytes) /\ over \in BOOLEAN
    BY <1>6
  <2> HIDE DEF kept, over, held
  <2>4. held.offset = next /\ held.pending = kept /\ held.discarding = over
    BY <2>2
  <2>5. IsReader(held)
    BY <1>2, <2>2, <2>3, <2>4 DEF IsReader
  <2> QED
    BY <1>6, <2>1, <2>4, <2>5 DEF took, next, held
<1> QED
  BY <1>8, <1>9

LEMMA NothingRead ==
  ASSUME NEW s, s = <<>>
  PROVE  /\ IsReader(FreshReader) /\ Reads(FreshReader, s)
         /\ Split(s).events = <<>> /\ s \in Seq(Bytes)
<1>1. s \in Seq(Bytes) /\ Len(s) = 0 /\ \A k \in 1 .. Len(s) : s[k] # Newline
  OBVIOUS
<1>2. Split(s) = [events |-> <<>>, rest |-> s]
  BY <1>1, SplitPlain
<1> DEFINE rest == Split(s).rest
<1>3. Split(s).events = <<>> /\ rest = <<>> /\ Len(rest) = 0
  BY <1>2
<1>4. Len(rest) > MaxLineBytes <=> FALSE
  BY <1>3, StreamAssumption
<1> HIDE DEF rest
<1>5. Reads(FreshReader, s)
  <2> DEFINE long == Len(rest) > MaxLineBytes
             kept == IF long THEN <<>> ELSE rest
  <2>1. kept = <<>> /\ long = FALSE
    BY <1>3, <1>4
  <2>2. FreshReader = [offset |-> Len(s), pending |-> kept, discarding |-> long]
    BY <1>1, <2>1 DEF FreshReader
  <2> QED
    BY <2>2 DEF Reads, rest
<1>6. IsReader(FreshReader)
  BY DEF IsReader, FreshReader
<1> QED
  BY <1>1, <1>3, <1>5, <1>6

LEMMA StreamStarts == StreamInit => StreamInv
<1> SUFFICES ASSUME StreamInit PROVE StreamInv
  OBVIOUS
<1>1. file = <<>> /\ reader = FreshReader /\ delivered = <<>> /\ basis = <<>> /\ missed = FALSE /\ rotations = 0
  BY DEF StreamInit
<1>2. IsReader(reader) /\ Reads(reader, basis) /\ Split(basis).events = <<>> /\ basis \in Seq(Bytes)
  BY <1>1, NothingRead
<1>3. file \in Seq(Bytes) /\ rotations \in Nat /\ missed \in BOOLEAN /\ delivered \in Seq(Seq(Bytes))
  <2> DEFINE Events == Seq(Bytes)
  <2> HIDE DEF Events
  <2>1. delivered \in Seq(Events)
    BY <1>1
  <2>2. file \in Seq(Bytes) /\ rotations \in Nat
    BY <1>1
  <2>3. missed \in BOOLEAN
    BY <1>1
  <2> QED
    BY <2>1, <2>2, <2>3 DEF Events
<1> QED
  BY <1>1, <1>2, <1>3 DEF StreamInv

LEMMA ReadKeeps ==
  ASSUME StreamInv, ReadNewEvents
  PROVE  StreamInv'
<1> DEFINE from == Reopened
           end == IF Len(file) > from.offset + MaxBatchBytes THEN from.offset + MaxBatchBytes ELSE Len(file)
           more == SubSeq(file, from.offset + 1, end)
           took == Take(from, more)
           same == from = reader
<1>0. /\ file \in Seq(Bytes) /\ rotations \in Nat /\ missed \in BOOLEAN
      /\ IsReader(reader) /\ delivered \in Seq(Seq(Bytes))
  BY DEF StreamInv
<1>1. /\ reader' = took.reader
      /\ delivered' = (IF same THEN delivered ELSE <<>>) \o took.events
      /\ basis' = SubSeq(file, 1, took.reader.offset)
      /\ missed' = (same /\ (missed \/ ~IsPrefix(basis, file)))
      /\ file' = file /\ rotations' = rotations
  BY DEF ReadNewEvents
<1>2. IsReader(from) /\ from.offset \in Nat /\ from.offset <= Len(file) /\ Len(file) \in Nat
  <2>1. reader.offset \in Nat /\ Len(file) \in Nat
    BY <1>0 DEF IsReader
  <2>2. CASE Len(file) < reader.offset
    <3>1. from = FreshReader /\ FreshReader.offset = 0
      BY <2>2 DEF Reopened, FreshReader
    <3> QED
      BY <2>1, <3>1, NothingRead
  <2>3. CASE ~(Len(file) < reader.offset)
    <3>1. from = reader
      BY <2>3 DEF Reopened
    <3> HIDE DEF from
    <3> QED
      BY <1>0, <2>1, <2>3, <3>1
  <2> QED
    BY <2>2, <2>3
<1>3. ~same => from = FreshReader
  BY DEF Reopened
<1> HIDE DEF from
<1>4. end \in Nat /\ from.offset <= end /\ end <= Len(file)
  BY <1>2, StreamAssumption
<1> HIDE DEF end
<1>5. more \in Seq(Bytes) /\ Len(more) = end - from.offset
  <2>1. from.offset + 1 \in Int /\ end \in Int /\ \A i \in from.offset + 1 .. end : file[i] \in Bytes
    BY <1>0, <1>2, <1>4
  <2>2. more \in Seq(Bytes) /\ Len(more) = IF from.offset + 1 <= end THEN end - (from.offset + 1) + 1 ELSE 0
    BY <2>1, SubSeqProperties
  <2> HIDE DEF more
  <2> QED
    BY <1>2, <1>4, <2>2
<1>6. /\ IsReader(took.reader) /\ took.events \in Seq(Seq(Bytes))
      /\ took.reader.offset = from.offset + Len(more)
  <2> HIDE DEF more
  <2> QED
    BY <1>2, <1>5, TakeTyped
<1>7. took.reader.offset = end
  BY <1>2, <1>4, <1>5, <1>6
<1>8. missed' \in BOOLEAN /\ delivered' \in Seq(Seq(Bytes)) /\ IsReader(reader')
  <2> HIDE DEF took, same
  <2>1. missed' \in BOOLEAN
    BY <1>1
  <2> DEFINE before == IF same THEN delivered ELSE <<>>
  <2>2. before \in Seq(Seq(Bytes))
    BY <1>0
  <2> HIDE DEF before
  <2>3. before \o took.events \in Seq(Seq(Bytes))
    BY <1>6, <2>2, ConcatProperties
  <2> QED
    BY <1>1, <1>6, <2>1, <2>3 DEF before
<1>9. ASSUME NEW s \in Seq(Bytes), s = SubSeq(file, 1, from.offset), Reads(from, s)
      PROVE  /\ basis' \in Seq(Bytes) /\ Reads(reader', basis')
             /\ Split(basis').events = Split(s).events \o took.events
  <2>1. s \o more = SubSeq(file, 1, end)
    <3>1. 1 \in 1 .. Len(file) + 1 /\ from.offset \in 1 - 1 .. Len(file) /\ end \in from.offset .. Len(file)
      BY <1>2, <1>4
    <3> QED
      BY <1>0, <1>9, <3>1, ConcatAdjacentSubSeq
  <2>2. s \o more = basis' /\ reader' = took.reader
    BY <1>1, <1>7, <2>1
  <2> HIDE DEF more
  <2>3. s \o more \in Seq(Bytes)
    BY <1>5
  <2>4. Reads(took.reader, s \o more) /\ Split(s \o more).events = Split(s).events \o took.events
    BY <1>5, <1>9, TakeRight
  <2> QED
    BY <2>2, <2>3, <2>4
<1> HIDE DEF more, took, same
<1>10. ASSUME ~missed'
       PROVE  basis' \in Seq(Bytes) /\ Reads(reader', basis') /\ delivered' = Split(basis').events
  <2>1. CASE same
    <3>1. ~missed /\ IsPrefix(basis, file)
      BY <1>0, <1>1, <1>10, <2>1
    <3>2. basis \in Seq(Bytes) /\ Reads(from, basis) /\ delivered = Split(basis).events
      BY <2>1, <3>1 DEF StreamInv, same
    <3>3. from.offset = Len(basis)
      BY <3>2 DEF Reads
    <3>4. basis = SubSeq(file, 1, from.offset)
      <4>1. SubSeq(basis, 1, Len(basis)) = SubSeq(file, 1, Len(basis))
        BY <3>1 DEF IsPrefix
      <4>2. SubSeq(basis, 1, Len(basis)) = basis
        BY <3>2, SubSeqFull
      <4> QED
        BY <3>3, <4>1, <4>2
    <3> QED
      BY <1>1, <1>9, <2>1, <3>2, <3>4
  <2>2. CASE ~same
    <3>1. from = FreshReader /\ from.offset = 0
      BY <1>3, <2>2 DEF FreshReader
    <3> DEFINE s == SubSeq(file, 1, from.offset)
    <3>2. s = <<>>
      BY <3>1, SubSeqEmpty
    <3>5. delivered' = <<>> \o took.events
      BY <1>1, <2>2
    <3> HIDE DEF s
    <3>3. s \in Seq(Bytes) /\ Reads(from, s)
      BY <3>1, <3>2, NothingRead
    <3>4. Split(s).events = <<>>
      BY <3>2, NothingRead
    <3>6. basis' \in Seq(Bytes) /\ Reads(reader', basis') /\ Split(basis').events = Split(s).events \o took.events
      BY <1>9, <3>3 DEF s
    <3> QED
      BY <3>4, <3>5, <3>6
  <2> QED
    BY <2>1, <2>2
<1> QED
  BY <1>0, <1>1, <1>8, <1>10 DEF StreamInv

LEMMA WriteKeeps ==
  ASSUME StreamInv, AppendPart \/ Rotate
  PROVE  StreamInv'
<1>1. UNCHANGED <<reader, delivered, basis, missed>>
  BY DEF AppendPart, Rotate
<1>2. file' \in Seq(Bytes) /\ rotations' \in Nat
  <2>1. CASE Rotate
    BY <2>1 DEF Rotate, StreamInv
  <2>2. CASE AppendPart
    <3> DEFINE line == Cardinality(NewlinesIn(file)) + 1
               open == Split(file).rest
               n == Last(open).of
               begun(m) == Written(line, m)
    <3>1. file \in Seq(Bytes) /\ rotations \in Nat
      BY DEF StreamInv
    <3>2. line \in Nat
      <4>1. IsFiniteSet(1 .. Len(file)) /\ NewlinesIn(file) \subseteq 1 .. Len(file)
        BY <3>1, FS_Interval DEF NewlinesIn
      <4>2. Cardinality(NewlinesIn(file)) \in Nat
        BY <4>1, FS_Subset, FS_CardinalityType
      <4> QED
        BY <4>2
    <3>3. \/ open = <<>> /\ \E m \in Lengths : \E k \in {m, m \div 2} \ {0} : file' = file \o SubSeq(begun(m), 1, k)
          \/ open # <<>> /\ file' = file \o SubSeq(begun(n), Len(open) + 1, n) \o <<Newline>>
      BY <2>2 DEF AppendPart
    <3>4. rotations' = rotations
      BY <2>2 DEF AppendPart
    <3> HIDE DEF line
    <3>5. ASSUME NEW m \in Lengths, NEW j \in Nat \ {0}, NEW k \in Nat, k <= m
          PROVE  SubSeq(begun(m), j, k) \in Seq(Bytes)
      <4>1. m \in Nat
        BY StreamAssumption
      <4>2. ASSUME NEW i \in j .. k PROVE begun(m)[i] \in Bytes
        <5>1. i \in 1 .. m /\ i \in Nat
          BY <4>1, <3>5
        <5>2. begun(m)[i] = [line |-> line, pos |-> i, of |-> m, gen |-> rotations]
          BY <5>1 DEF Written
        <5> QED
          BY <3>1, <3>2, <5>1, <5>2 DEF Bytes, Byte
      <4> HIDE DEF begun
      <4> QED
        BY <4>2, SubSeqProperties
    <3>6. open \in Seq(Bytes) /\ \A k \in 1 .. Len(open) : open[k] # Newline
      BY <3>1, SplitParts
    <3> HIDE DEF open, begun
    <3>7. CASE \E m \in Lengths : \E k \in {m, m \div 2} \ {0} : file' = file \o SubSeq(begun(m), 1, k)
      <4>1. PICK m \in Lengths : \E k \in {m, m \div 2} \ {0} : file' = file \o SubSeq(begun(m), 1, k)
        BY <3>7
      <4>2. PICK k \in {m, m \div 2} : file' = file \o SubSeq(begun(m), 1, k)
        BY <4>1
      <4>3. m \in Nat
        BY StreamAssumption
      <4>4. k \in Nat /\ k <= m
        BY <4>3
      <4> DEFINE one == 1
      <4>5. SubSeq(begun(m), one, k) \in Seq(Bytes)
        <5>1. one \in Nat \ {0}
          OBVIOUS
        <5> HIDE DEF one
        <5> QED
          BY <3>5, <4>4, <5>1
      <4> QED
        BY <3>1, <3>4, <4>2, <4>5, ConcatProperties
    <3>8. CASE open # <<>> /\ file' = file \o SubSeq(begun(n), Len(open) + 1, n) \o <<Newline>>
      <4>1. Len(open) \in Nat \ {0} /\ Last(open) = open[Len(open)]
        BY <3>6, <3>8 DEF Last
      <4>2. open[Len(open)] \in Byte
        BY <3>6, <4>1 DEF Bytes
      <4>3. n \in Lengths
        BY <4>1, <4>2 DEF Byte
      <4> HIDE DEF n
      <4>4. n \in Nat
        BY <4>3, StreamAssumption
      <4> DEFINE added == SubSeq(begun(n), Len(open) + 1, n)
      <4>5. added \in Seq(Bytes)
        <5> DEFINE at == Len(open) + 1
        <5>1. at \in Nat \ {0} /\ n <= n
          BY <4>1, <4>4
        <5> HIDE DEF at
        <5>2. SubSeq(begun(n), at, n) \in Seq(Bytes)
          BY <3>5, <4>3, <4>4, <5>1
        <5> QED
          BY <5>2 DEF at
      <4> HIDE DEF added
      <4>6. file \o added \in Seq(Bytes)
        BY <3>1, <4>5, ConcatProperties
      <4>7. <<Newline>> \in Seq(Bytes)
        BY DEF Bytes
      <4>8. (file \o added) \o <<Newline>> \in Seq(Bytes)
        BY <4>6, <4>7, ConcatProperties
      <4> QED
        BY <3>1, <3>4, <3>8, <4>8 DEF added
    <3> QED
      BY <3>3, <3>7, <3>8
  <2> QED
    BY <2>1, <2>2
<1> QED
  BY <1>1, <1>2 DEF StreamInv, Reads, IsReader

LEMMA StreamIdle == StreamInv /\ UNCHANGED streamVars => StreamInv'
BY DEF StreamInv, streamVars, IsReader, Reads

LEMMA StreamHolds == StreamInv => StreamTypeOK /\ StreamFaithful
BY DEF StreamInv, StreamTypeOK, StreamFaithful, IsReader

----
(***************************************************************************)
(* The console.                                                            *)
(***************************************************************************)

\* What a prompt may hold.
Prompts ==
  [act : Targeted, id : Ids, sens : {"normal", "private"}]
    \cup [act : {"supersede"}, id : Ids, old : Ids, sens : {"normal"}]
    \cup [act : {"consolidate", "export"}, sens : {"normal"}]
    \cup {p \in [act : {"sync"}, preview : Seq(Entry), candidate : Nat, sens : {"normal"}] :
            p.candidate \in 1 .. Len(p.preview)}

Fields(a) ==
  [memories |-> a.memories, results |-> a.results, selected |-> a.selected, query |-> a.query,
   total |-> a.total, sensitive |-> a.sensitive, superseded |-> a.superseded, mode |-> a.mode,
   pending |-> a.pending, status |-> a.status, live |-> a.live, quit |-> a.quit]

\* The events of the stream that are on the screen.
Lives == {s \in Seq(Seq(Bytes)) : Len(s) <= MaxLive}

\* What the console keeps, in whatever mode.
IsApp(a) ==
  /\ a = Fields(a)
  /\ a.memories \in Seq(Entry) /\ a.results \in Seq(Entry) /\ a.selected \in Nat
  /\ a.sensitive \in BOOLEAN /\ a.mode \in {"default", "command", "search"}
  /\ a.pending \in Prompts \cup {Absent} /\ a.live \in Lives

\* A prompt about a memory tells what rows R say of it and the switches let through.
PromptWas(a, R) ==
  a.pending # Absent /\ a.pending.act \in Targeted => Tells(a, a.pending, R)

AllTell(a, s, R) == \A k \in DOMAIN s : Tells(a, s[k], R)

\* What is listed is what rows R say, and browsing lists all of it.
ListIs(a, R) ==
  /\ AllTell(a, VisibleMemories(a), R)
  /\ a.query = "" => \A i \in Matching(a, R) : \E k \in DOMAIN a.memories : a.memories[k].id = i

CursorIn(a) == a.selected = 0 \/ a.selected < Len(VisibleMemories(a))

\* Between keys the lists are those of the last refresh, under the switches of
\* now; a prompt was opened on the frame that was read from the rows asked.
ConsoleInv ==
  /\ situation \in Situations
  /\ {rows, shown, asked} \subseteq [Ids -> Row \cup {Absent}]
  /\ pc \in {"key", "tick"} /\ keys \in Nat
  /\ IsApp(app) /\ PromptWas(app, asked) /\ StreamInv
  /\ pc = "key" =>
       /\ ListIs(app, shown) /\ CursorIn(app) /\ named = Named(app.pending)
       /\ app.pending = Absent => asked = shown

LEMMA Prepended ==
  ASSUME NEW E, NEW e \in E, NEW u \in Seq(E)
  PROVE  /\ 1 \in DOMAIN (<<e>> \o u) /\ (<<e>> \o u)[1] = e
         /\ \A k \in DOMAIN u : k + 1 \in DOMAIN (<<e>> \o u) /\ (<<e>> \o u)[k + 1] = u[k]
<1>1. Len(u) \in Nat /\ DOMAIN u = 1 .. Len(u) /\ Len(<<e>>) = 1 /\ <<e>>[1] = e
  OBVIOUS
<1>2. DOMAIN (<<e>> \o u) = 1 .. 1 + Len(u)
  BY <1>1
<1>3. (<<e>> \o u)[1] = e
  BY <1>1
<1>4. \A k \in DOMAIN u : (<<e>> \o u)[k + 1] = u[k]
  BY <1>1
<1> QED
  BY <1>1, <1>2, <1>3, <1>4

(* Lists hold the rows they are of.                                         *)
LEMMA CachedRows ==
  ASSUME NEW R, NEW S, S \subseteq Ids
  PROVE  /\ Cached(R, S) \in Seq({[id |-> i, sens |-> R[i].sens] : i \in S})
         /\ \A i \in S : \E k \in DOMAIN Cached(R, S) : Cached(R, S)[k].id = i
<1> DEFINE E == {[id |-> i, sens |-> R[i].sens] : i \in S}
           Step(f, i) == IF i = 0 THEN <<>>
                         ELSE IF i \in S THEN <<[id |-> i, sens |-> R[i].sens]>> \o f[i - 1]
                         ELSE f[i - 1]
           Good(n) == \E f : f = [i \in 0 .. n |-> Step(f, i)]
           upto[i \in 0 .. MaxId] ==
             IF i = 0 THEN <<>>
             ELSE IF i \in S THEN <<[id |-> i, sens |-> R[i].sens]>> \o upto[i - 1]
             ELSE upto[i - 1]
<1>0. MaxId \in Nat
  BY SituationsAssumption
<1>1. Good(MaxId)
  <2> DEFINE Bad == {n \in Nat : ~Good(n)}
  <2>1. Bad = {}
    <3> SUFFICES ASSUME Bad # {} PROVE FALSE
      OBVIOUS
    <3>1. PICK n \in Bad : \A m \in Bad : ~(m < n)
      <4>1. Bad \subseteq Nat
        OBVIOUS
      <4> HIDE DEF Bad
      <4> QED
        BY <4>1, LeastExists
    <3>2. n # 0
      <4> DEFINE f == [i \in 0 .. 0 |-> <<>>]
      <4>1. f = [i \in 0 .. 0 |-> Step(f, i)]
        OBVIOUS
      <4> QED
        BY <3>1, <4>1
    <3>3. PICK f : f = [i \in 0 .. n - 1 |-> Step(f, i)]
      <4>1. n - 1 \in Nat /\ n - 1 < n
        BY <3>1, <3>2
      <4> QED
        BY <3>1, <4>1
    <3> DEFINE Value(i) == IF i = n THEN Step(f, n) ELSE f[i]
               g == [i \in 0 .. n |-> Value(i)]
    <3>4. ASSUME NEW i \in 0 .. n PROVE g[i] = Step(g, i)
      <4>1. CASE i = 0
        <5>1. f[0] = Step(f, 0)
          BY <3>1, <3>2, <3>3
        <5> QED
          BY <3>2, <4>1, <5>1
      <4>2. CASE i # 0
        <5>1. i - 1 \in 0 .. n - 1 /\ i - 1 # n
          BY <3>1, <4>2
        <5>2. g[i - 1] = f[i - 1]
          BY <3>1, <5>1
        <5>3. g[i] = Step(f, i)
          <6>1. CASE i = n
            BY <6>1
          <6>2. CASE i # n
            <7>1. i \in 0 .. n - 1
              BY <3>1, <6>2
            <7>2. f[i] = Step(f, i)
              <8> HIDE DEF Step
              <8> QED
                BY <3>3, <7>1
            <7> QED
              BY <6>2, <7>2
          <6> QED
            BY <6>1, <6>2
        <5> HIDE DEF g
        <5> QED
          BY <4>2, <5>2, <5>3
      <4> QED
        BY <4>1, <4>2
    <3>5. g = [i \in 0 .. n |-> Step(g, i)]
      <4>1. g = [i \in 0 .. n |-> g[i]]
        <5> HIDE DEF Value
        <5> QED
          OBVIOUS
      <4> HIDE DEF g, Step
      <4> QED
        BY <3>4, <4>1
    <3> HIDE DEF g, Step
    <3> QED
      BY <3>1, <3>5
  <2> HIDE DEF Good
  <2> QED
    BY <1>0, <2>1
<1>2. upto = [i \in 0 .. MaxId |-> Step(upto, i)]
  BY <1>1, Zenon
<1>3. Cached(R, S) = upto[MaxId]
  BY DEF Cached
<1> HIDE DEF upto
<1>4. \A n \in 0 .. MaxId : upto[n] \in Seq(E)
  <2> DEFINE Bad == {n \in 0 .. MaxId : upto[n] \notin Seq(E)}
  <2> SUFFICES ASSUME Bad # {} PROVE FALSE
    OBVIOUS
  <2>1. PICK n \in Bad : \A m \in Bad : ~(m < n)
    <3>1. Bad \subseteq Nat
      BY <1>0
    <3> HIDE DEF Bad
    <3> QED
      BY <3>1, LeastExists
  <2>2. n \in 0 .. MaxId /\ upto[n] = Step(upto, n)
    <3> HIDE DEF Step
    <3> QED
      BY <1>2, <2>1
  <2>3. CASE n = 0
    <3>1. upto[n] = <<>>
      BY <2>2, <2>3
    <3> HIDE DEF E
    <3>2. <<>> \in Seq(E)
      OBVIOUS
    <3> QED
      BY <2>1, <3>1, <3>2
  <2>4. CASE n # 0
    <3>1. n - 1 \in 0 .. MaxId /\ n - 1 < n
      BY <1>0, <2>2, <2>4
    <3>2. upto[n - 1] \in Seq(E)
      BY <2>1, <3>1
    <3>3. n \in S => <<[id |-> n, sens |-> R[n].sens]>> \o upto[n - 1] \in Seq(E)
      <4> SUFFICES ASSUME n \in S PROVE <<[id |-> n, sens |-> R[n].sens]>> \o upto[n - 1] \in Seq(E)
        OBVIOUS
      <4> DEFINE e == [id |-> n, sens |-> R[n].sens]
      <4>1. e \in E
        OBVIOUS
      <4> HIDE DEF e, E
      <4>2. <<e>> \in Seq(E)
        BY <4>1
      <4>3. <<e>> \o upto[n - 1] \in Seq(E)
        BY <3>2, <4>2
      <4> QED
        BY <4>3 DEF e
    <3> HIDE DEF E
    <3> QED
      BY <2>1, <2>2, <2>4, <3>2, <3>3
  <2> QED
    BY <2>3, <2>4
<1>5. \A n \in 0 .. MaxId : \A i \in S : i <= n => \E k \in DOMAIN upto[n] : upto[n][k].id = i
  <2> DEFINE Has(n) == \A i \in S : i <= n => \E k \in DOMAIN upto[n] : upto[n][k].id = i
             Bad == {n \in 0 .. MaxId : ~Has(n)}
  <2> SUFFICES ASSUME Bad # {} PROVE FALSE
    OBVIOUS
  <2>1. PICK n \in Bad : \A m \in Bad : ~(m < n)
    <3>1. Bad \subseteq Nat
      BY <1>0
    <3> HIDE DEF Bad
    <3> QED
      BY <3>1, LeastExists
  <2>2. n \in 0 .. MaxId /\ upto[n] = Step(upto, n) /\ ~Has(n)
    <3> HIDE DEF Step, Has
    <3> QED
      BY <1>2, <2>1
  <2>3. PICK i \in S : i <= n /\ ~\E k \in DOMAIN upto[n] : upto[n][k].id = i
    BY <2>2
  <2>4. i \in Nat /\ i >= 1 /\ n # 0
    BY <1>0, <2>2, <2>3 DEF Ids
  <2>5. n - 1 \in 0 .. MaxId /\ n - 1 < n
    BY <1>0, <2>2, <2>4
  <2>6. Has(n - 1) /\ upto[n - 1] \in Seq(E)
    <3> HIDE DEF Has
    <3> QED
      BY <1>4, <2>1, <2>5
  <2> DEFINE u == upto[n - 1]
             e == [id |-> n, sens |-> R[n].sens]
  <2>7. CASE n \in S
    <3>1. upto[n] = <<e>> \o u
      BY <2>2, <2>4, <2>7
    <3>2. e \in E /\ u \in Seq(E) /\ e.id = n
      BY <2>6, <2>7
    <3> HIDE DEF u, e, E
    <3>3. /\ 1 \in DOMAIN upto[n] /\ upto[n][1] = e
          /\ \A k \in DOMAIN u : k + 1 \in DOMAIN upto[n] /\ upto[n][k + 1] = u[k]
      BY <3>1, <3>2, Prepended
    <3>4. CASE i = n
      BY <2>3, <3>2, <3>3, <3>4
    <3>5. CASE i # n
      <4>1. i <= n - 1
        BY <2>2, <2>3, <2>4, <3>5
      <4>2. PICK k \in DOMAIN u : u[k].id = i
        BY <2>6, <4>1 DEF u
      <4> QED
        BY <2>3, <3>3, <4>2
    <3> QED
      BY <3>4, <3>5
  <2>8. CASE n \notin S
    <3>1. upto[n] = u
      BY <2>2, <2>4, <2>8
    <3>2. i <= n - 1
      BY <2>2, <2>3, <2>4, <2>8
    <3> HIDE DEF E
    <3>3. \E k \in DOMAIN u : u[k].id = i
      BY <2>6, <3>2
    <3> QED
      BY <2>3, <3>1, <3>3
  <2> QED
    BY <2>7, <2>8
<1>6. \A i \in S : i <= MaxId
  BY <1>0 DEF Ids
<1>7. MaxId \in 0 .. MaxId
  BY <1>0
<1> QED
  BY <1>3, <1>4, <1>5, <1>6, <1>7

LEMMA CachedEntries ==
  ASSUME NEW R \in [Ids -> Row \cup {Absent}], NEW S, S \subseteq {i \in Ids : R[i] # Absent}
  PROVE  /\ Cached(R, S) \in Seq(Entry)
         /\ \A k \in DOMAIN Cached(R, S) :
              Cached(R, S)[k].id \in S /\ Cached(R, S)[k].sens = R[Cached(R, S)[k].id].sens
         /\ \A i \in S : \E k \in DOMAIN Cached(R, S) : Cached(R, S)[k].id = i
<1> DEFINE E == {[id |-> i, sens |-> R[i].sens] : i \in S}
           c == Cached(R, S)
<1>0. S \subseteq Ids
  OBVIOUS
<1>1. c \in Seq(E) /\ \A i \in S : \E k \in DOMAIN c : c[k].id = i
  BY <1>0, CachedRows
<1>2. E \subseteq Entry
  BY DEF Entry, Row
<1>3. \A e \in E : e.id \in S /\ e.sens = R[e.id].sens
  OBVIOUS
<1> HIDE DEF E, c
<1>4. c \in Seq(Entry) /\ \A k \in DOMAIN c : c[k] \in E
  BY <1>1, <1>2
<1> QED
  BY <1>1, <1>3, <1>4 DEF c

\* What a refresh leaves alone.
SameUse(b, a) ==
  /\ b.pending = a.pending /\ b.mode = a.mode
  /\ b.sensitive = a.sensitive /\ b.superseded = a.superseded /\ b.query = a.query

(* What may be listed is up to the two switches and the query.              *)
LEMMA SameMatching ==
  ASSUME NEW a, NEW b, NEW R,
         b.sensitive = a.sensitive, b.superseded = a.superseded, b.query = a.query
  PROVE  Matching(b, R) = Matching(a, R) /\ \A r : Tells(b, r, R) <=> Tells(a, r, R)
<1>1. Matching(b, R) = Matching(a, R)
  BY DEF Matching, Shows
<1> QED
  BY <1>1 DEF Tells

LEMMA VisibleApp ==
  ASSUME NEW a, IsApp(a)
  PROVE  VisibleMemories(a) \in Seq(Entry) /\ Len(VisibleMemories(a)) \in Nat
<1>1. VisibleMemories(a) \in Seq(Entry)
  BY DEF IsApp, VisibleMemories
<1> QED
  BY <1>1

LEMMA ClampedApp ==
  ASSUME NEW a, IsApp(a)
  PROVE  /\ IsApp(Clamped(a)) /\ SameUse(Clamped(a), a) /\ CursorIn(Clamped(a))
         /\ Clamped(a).memories = a.memories /\ Clamped(a).results = a.results
<1> DEFINE n == Len(VisibleMemories(a))
           sel == IF n = 0 THEN 0 ELSE IF a.selected >= n THEN n - 1 ELSE a.selected
<1>1. n \in Nat
  BY VisibleApp
<1>2. sel \in Nat /\ (sel = 0 \/ sel < n)
  BY <1>1 DEF IsApp
<1>3. Clamped(a) = [a EXCEPT !.selected = sel]
  BY DEF Clamped
<1> HIDE DEF sel, n
<1>4. IsApp(Clamped(a)) /\ SameUse(Clamped(a), a) /\ Clamped(a).selected = sel
      /\ Clamped(a).memories = a.memories /\ Clamped(a).results = a.results
  BY <1>2, <1>3 DEF IsApp, SameUse, Fields
<1>5. Len(VisibleMemories(Clamped(a))) = n
  BY <1>4 DEF VisibleMemories, SameUse, n
<1> QED
  BY <1>2, <1>4, <1>5 DEF CursorIn

LEMMA SearchedApp ==
  ASSUME NEW a, IsApp(a), NEW R \in [Ids -> Row \cup {Absent}]
  PROVE  /\ IsApp(Searched(a, R)) /\ SameUse(Searched(a, R), a) /\ CursorIn(Searched(a, R))
         /\ Searched(a, R).memories = a.memories
         /\ a.query # "" => AllTell(a, Searched(a, R).results, R)
<1>1. CASE a.query = ""
  <2> DEFINE b == [a EXCEPT !.results = <<>>, !.selected = 0]
  <2>1. Searched(a, R) = b
    BY <1>1 DEF Searched
  <2> DEFINE c == [a EXCEPT !.results = <<>>]
  <2>2. IsApp(c) /\ SameUse(c, a) /\ c.memories = a.memories
    <3> DEFINE none == <<>>
    <3>1. none \in Seq(Entry)
      OBVIOUS
    <3> HIDE DEF none
    <3> QED
      BY <3>1 DEF none, IsApp, Fields, SameUse
  <2>3. b = [c EXCEPT !.selected = 0]
    OBVIOUS
  <2> HIDE DEF b, c
  <2>4. IsApp(b) /\ SameUse(b, c) /\ b.memories = c.memories /\ b.selected = 0
    BY <2>2, <2>3 DEF IsApp, Fields, SameUse
  <2> QED
    BY <1>1, <2>1, <2>2, <2>4 DEF SameUse, CursorIn
<1>2. CASE a.query # ""
  <2> DEFINE H == {i \in DOMAIN R : R[i] # Absent /\ R[i].hit /\ Shows(a, R[i])}
             hits == Cached(R, H)
             n == Len(hits)
             found == SubSeq(hits, 1, IF n < MaxResults THEN n ELSE MaxResults)
             b == [a EXCEPT !.results = found]
  <2>1. H \subseteq {i \in Ids : R[i] # Absent}
    OBVIOUS
  <2>2. H = Matching(a, R)
    BY <1>2 DEF Matching
  <2> HIDE DEF H
  <2>3. hits \in Seq(Entry) /\ AllTell(a, hits, R)
    <3>1. /\ hits \in Seq(Entry)
          /\ \A k \in DOMAIN hits : hits[k].id \in H /\ hits[k].sens = R[hits[k].id].sens
      BY <2>1, CachedEntries
    <3> HIDE DEF hits
    <3> QED
      BY <2>2, <3>1 DEF AllTell, Tells
  <2> HIDE DEF hits
  <2>4. found \in Seq(Entry) /\ AllTell(a, found, R)
    <3>1. n \in Nat /\ MaxResults \in Nat
      BY <2>3, SituationsAssumption
    <3>2. PICK m \in 0 .. n : found = SubSeq(hits, 1, m)
      BY <3>1
    <3>3. found = [k \in 1 .. m |-> hits[k]]
      BY <2>3, <3>1, <3>2
    <3> HIDE DEF found
    <3>4. \A k \in 1 .. m : k \in DOMAIN hits /\ hits[k] \in Entry
      BY <2>3, <3>1, <3>2
    <3>5. found \in Seq(Entry)
      BY <3>2, <3>3, <3>4, SeqDef
    <3>6. AllTell(a, found, R)
      BY <2>3, <3>3, <3>4 DEF AllTell
    <3> QED
      BY <3>5, <3>6
  <2>5. Searched(a, R) = Clamped(b)
    BY <1>2 DEF Searched, hits, H
  <2> HIDE DEF found
  <2>6. IsApp(b) /\ SameUse(b, a) /\ b.memories = a.memories /\ b.results = found
    <3>1. b = Fields(b)
      BY SMTT(30) DEF IsApp, Fields
    <3>2. b.results = found /\ b.selected = a.selected /\ b.memories = a.memories /\ b.live = a.live /\ SameUse(b, a)
      BY DEF IsApp, Fields, SameUse
    <3> HIDE DEF b
    <3> QED
      BY <2>4, <3>1, <3>2 DEF IsApp, SameUse
  <2> HIDE DEF b
  <2>7. IsApp(Clamped(b)) /\ SameUse(Clamped(b), b) /\ CursorIn(Clamped(b))
        /\ Clamped(b).memories = b.memories /\ Clamped(b).results = b.results
    BY <2>6, ClampedApp
  <2> QED
    BY <1>2, <2>4, <2>5, <2>6, <2>7 DEF SameUse
<1> QED
  BY <1>1, <1>2

\* What a refresh of a over the rows R gives.
FreshView(b, a, R) == IsApp(b) /\ SameUse(b, a) /\ ListIs(b, R) /\ CursorIn(b)

(* A refresh lists what may be shown, as it is stored, and puts the cursor   *)
(* on an entry of the list.                                                  *)
LEMMA RefreshedApp ==
  ASSUME NEW a, IsApp(a), NEW R \in [Ids -> Row \cup {Absent}]
  PROVE  FreshView(Refreshed(a, R), a, R)
<1> DEFINE T == {i \in DOMAIN R : R[i] # Absent}
           S == {i \in T : Shows(a, R[i])}
           found == IF a.query = "" THEN a ELSE Searched(a, R)
           b == [found EXCEPT !.total = Cardinality(T), !.memories = Cached(R, S)]
<1>1. S \subseteq {i \in Ids : R[i] # Absent} /\ (a.query = "" => S = Matching(a, R))
  BY DEF Matching
<1>2. Refreshed(a, R) = Clamped(b)
  BY DEF Refreshed
<1>3. IsApp(found) /\ SameUse(found, a) /\ (a.query # "" => AllTell(a, found.results, R))
  BY SearchedApp DEF SameUse
<1> HIDE DEF S, T, found
<1> DEFINE list == Cached(R, S)
<1>4. /\ list \in Seq(Entry)
      /\ a.query = "" =>
           AllTell(a, list, R) /\ \A i \in Matching(a, R) : \E k \in DOMAIN list : list[k].id = i
  <2>1. /\ list \in Seq(Entry)
        /\ \A k \in DOMAIN list : list[k].id \in S /\ list[k].sens = R[list[k].id].sens
        /\ \A i \in S : \E k \in DOMAIN list : list[k].id = i
    BY <1>1, CachedEntries
  <2> HIDE DEF list
  <2> QED
    BY <1>1, <2>1 DEF AllTell, Tells
<1>5. IsApp(b) /\ SameUse(b, a) /\ b.memories = Cached(R, S) /\ b.results = found.results
  <2> DEFINE n == Cardinality(T)
             c == [found EXCEPT !.total = n]
  <2>1. IsApp(c) /\ SameUse(c, found) /\ c.results = found.results
    <3>0. found = Fields(found)
      BY <1>3 DEF IsApp
    <3> HIDE DEF n
    <3>1. c = Fields(c)
      BY <3>0 DEF Fields
    <3>2. SameUse(c, found)
      BY <3>0 DEF Fields, SameUse
    <3>3. c.results = found.results /\ c.memories = found.memories /\ c.selected = found.selected /\ c.live = found.live
      BY <3>0 DEF Fields
    <3> HIDE DEF c
    <3> QED
      BY <1>3, <3>1, <3>2, <3>3 DEF IsApp, SameUse
  <2>2. b = [c EXCEPT !.memories = Cached(R, S)]
    OBVIOUS
  <2> HIDE DEF b, c
  <2>3. IsApp(b) /\ SameUse(b, c) /\ b.memories = Cached(R, S) /\ b.results = c.results
    BY <1>4, <2>1, <2>2 DEF IsApp, Fields, SameUse
  <2> QED
    BY <1>3, <2>1, <2>3 DEF SameUse
<1> HIDE DEF b
<1>6. IsApp(Clamped(b)) /\ SameUse(Clamped(b), b) /\ CursorIn(Clamped(b))
      /\ Clamped(b).memories = b.memories /\ Clamped(b).results = b.results
  BY <1>5, ClampedApp
<1>7. ListIs(Clamped(b), R)
  <2> DEFINE c == Clamped(b)
  <2>1. /\ c.memories = list /\ c.results = found.results
        /\ c.sensitive = a.sensitive /\ c.superseded = a.superseded /\ c.query = a.query
    BY <1>5, <1>6 DEF SameUse
  <2> HIDE DEF c, list
  <2>2. Matching(c, R) = Matching(a, R) /\ \A r : Tells(c, r, R) <=> Tells(a, r, R)
    BY <2>1, SameMatching
  <2>3. ASSUME a.query = "" PROVE ListIs(c, R)
    BY <1>4, <2>1, <2>2, <2>3 DEF ListIs, AllTell, VisibleMemories
  <2>4. ASSUME a.query # "" PROVE ListIs(c, R)
    BY <1>3, <2>1, <2>2, <2>4 DEF ListIs, AllTell, VisibleMemories
  <2> QED
    BY <2>3, <2>4 DEF c
<1> QED
  BY <1>2, <1>5, <1>6, <1>7 DEF FreshView, SameUse

LEMMA MovedApp ==
  ASSUME NEW a, IsApp(a), NEW delta \in {1, -1}
  PROVE  IsApp(Moved(a, delta)) /\ SameUse(Moved(a, delta), a)
<1> DEFINE n == Len(VisibleMemories(a))
           sel == IF n = 0 THEN 0 ELSE (a.selected + delta + n) % n
<1>1. n \in Nat /\ a.selected \in Nat
  BY VisibleApp DEF IsApp
<1>2. sel \in Nat
  BY <1>1
<1>3. Moved(a, delta) = [a EXCEPT !.selected = sel]
  BY DEF Moved
<1> HIDE DEF sel, n
<1> QED
  BY <1>2, <1>3 DEF IsApp, SameUse, Fields

\* What a prompt and a switch are is left alone, and what is listed.
Kept(b, a) == IsApp(b) /\ b.pending = a.pending /\ b.sensitive = a.sensitive

SameLists(b, a) ==
  /\ b.memories = a.memories /\ b.results = a.results /\ b.selected = a.selected
  /\ b.query = a.query /\ b.superseded = a.superseded

LEMMA Setting ==
  ASSUME NEW a, IsApp(a), NEW v
  PROVE  /\ v \in {"default", "command", "search"} =>
              Kept([a EXCEPT !.mode = v], a) /\ SameLists([a EXCEPT !.mode = v], a)
         /\ Kept([a EXCEPT !.status = v], a) /\ SameLists([a EXCEPT !.status = v], a)
         /\ v \in Lives => Kept([a EXCEPT !.live = v], a) /\ SameLists([a EXCEPT !.live = v], a)
         /\ Kept([a EXCEPT !.query = v], a)
         /\ Kept([a EXCEPT !.quit = v], a)
         /\ Kept([a EXCEPT !.superseded = v], a)
         /\ v \in Seq(Entry) => Kept([a EXCEPT !.results = v], a)
         /\ v \in Nat => Kept([a EXCEPT !.selected = v], a)
<1>0. a = Fields(a)
  BY DEF IsApp
<1>1. v \in {"default", "command", "search"} =>
        Kept([a EXCEPT !.mode = v], a) /\ SameLists([a EXCEPT !.mode = v], a)
  <2> DEFINE b == [a EXCEPT !.mode = v]
  <2>1. b = Fields(b) /\ b.mode = v /\ b.pending = a.pending /\ b.sensitive = a.sensitive /\ b.live = a.live
    BY <1>0 DEF Fields
  <2>2. SameLists(b, a)
    BY <1>0 DEF Fields, SameLists
  <2> HIDE DEF b
  <2>3. v \in {"default", "command", "search"} => Kept(b, a) /\ SameLists(b, a)
    BY <2>1, <2>2 DEF IsApp, Kept, SameLists
  <2> QED
    BY <2>3 DEF b
<1>2. Kept([a EXCEPT !.status = v], a) /\ SameLists([a EXCEPT !.status = v], a)
  <2> DEFINE b == [a EXCEPT !.status = v]
  <2>1. b = Fields(b) /\ b.pending = a.pending /\ b.sensitive = a.sensitive /\ b.mode = a.mode /\ b.live = a.live
    BY <1>0 DEF Fields
  <2>2. b.memories = a.memories /\ b.results = a.results /\ b.selected = a.selected
    BY <1>0 DEF Fields
  <2>3. b.query = a.query /\ b.superseded = a.superseded
    BY <1>0 DEF Fields
  <2> HIDE DEF b
  <2>4. Kept(b, a) /\ SameLists(b, a)
    BY <2>1, <2>2, <2>3 DEF IsApp, Kept, SameLists
  <2> QED
    BY <2>4 DEF b
<1>3. v \in Lives => Kept([a EXCEPT !.live = v], a) /\ SameLists([a EXCEPT !.live = v], a)
  <2> DEFINE b == [a EXCEPT !.live = v]
  <2>1. b = Fields(b) /\ b.pending = a.pending /\ b.sensitive = a.sensitive /\ b.mode = a.mode /\ b.live = v
    BY <1>0 DEF Fields
  <2>2. b.memories = a.memories /\ b.results = a.results /\ b.selected = a.selected
    BY <1>0 DEF Fields
  <2>3. b.query = a.query /\ b.superseded = a.superseded
    BY <1>0 DEF Fields
  <2> HIDE DEF b
  <2>4. v \in Lives => Kept(b, a) /\ SameLists(b, a)
    BY <2>1, <2>2, <2>3 DEF IsApp, Kept, SameLists
  <2> QED
    BY <2>4 DEF b
<1>4. Kept([a EXCEPT !.query = v], a)
  <2> DEFINE b == [a EXCEPT !.query = v]
  <2>1. b = Fields(b) /\ b.pending = a.pending /\ b.sensitive = a.sensitive /\ b.mode = a.mode /\ b.live = a.live
    BY <1>0 DEF Fields
  <2>2. b.memories = a.memories /\ b.results = a.results /\ b.selected = a.selected
    BY <1>0 DEF Fields
  <2> HIDE DEF b
  <2>4. Kept(b, a)
    BY <2>1, <2>2 DEF IsApp, Kept, SameLists
  <2> QED
    BY <2>4 DEF b
<1>5. Kept([a EXCEPT !.quit = v], a)
  <2> DEFINE b == [a EXCEPT !.quit = v]
  <2>1. b = Fields(b) /\ b.pending = a.pending /\ b.sensitive = a.sensitive /\ b.mode = a.mode /\ b.live = a.live
    BY <1>0 DEF Fields
  <2>2. b.memories = a.memories /\ b.results = a.results /\ b.selected = a.selected
    BY <1>0 DEF Fields
  <2> HIDE DEF b
  <2>4. Kept(b, a)
    BY <2>1, <2>2 DEF IsApp, Kept, SameLists
  <2> QED
    BY <2>4 DEF b
<1>6. Kept([a EXCEPT !.superseded = v], a)
  <2> DEFINE b == [a EXCEPT !.superseded = v]
  <2>1. b = Fields(b) /\ b.pending = a.pending /\ b.sensitive = a.sensitive /\ b.mode = a.mode /\ b.live = a.live
    BY <1>0 DEF Fields
  <2>2. b.memories = a.memories /\ b.results = a.results /\ b.selected = a.selected
    BY <1>0 DEF Fields
  <2> HIDE DEF b
  <2>4. Kept(b, a)
    BY <2>1, <2>2 DEF IsApp, Kept, SameLists
  <2> QED
    BY <2>4 DEF b
<1>7. v \in Seq(Entry) => Kept([a EXCEPT !.results = v], a)
  <2> DEFINE b == [a EXCEPT !.results = v]
  <2>1. b = Fields(b) /\ b.pending = a.pending /\ b.sensitive = a.sensitive /\ b.mode = a.mode /\ b.live = a.live
    BY <1>0 DEF Fields
  <2>2. b.memories = a.memories /\ b.results = v /\ b.selected = a.selected
    BY <1>0 DEF Fields
  <2> HIDE DEF b
  <2>3. v \in Seq(Entry) => Kept(b, a)
    BY <2>1, <2>2 DEF IsApp, Kept
  <2> QED
    BY <2>3 DEF b
<1>8. v \in Nat => Kept([a EXCEPT !.selected = v], a)
  <2> DEFINE b == [a EXCEPT !.selected = v]
  <2>1. b = Fields(b) /\ b.pending = a.pending /\ b.sensitive = a.sensitive /\ b.mode = a.mode /\ b.live = a.live
    BY <1>0 DEF Fields
  <2>2. b.memories = a.memories /\ b.selected = v /\ b.results = a.results
    BY <1>0 DEF Fields
  <2> HIDE DEF b
  <2>3. v \in Nat => Kept(b, a)
    BY <2>1, <2>2 DEF IsApp, Kept
  <2> QED
    BY <2>3 DEF b
<1> QED
  BY <1>1, <1>2, <1>3, <1>4, <1>5, <1>6, <1>7, <1>8

LEMMA SettingSwitch ==
  ASSUME NEW a, IsApp(a), NEW v \in BOOLEAN
  PROVE  LET b == [a EXCEPT !.sensitive = v]
         IN  IsApp(b) /\ b.pending = a.pending
<1> DEFINE b == [a EXCEPT !.sensitive = v]
<1>0. a = Fields(a)
  BY DEF IsApp
<1>1. b = Fields(b) /\ b.pending = a.pending /\ b.sensitive = v /\ b.mode = a.mode /\ b.live = a.live
  BY <1>0 DEF Fields
<1>2. b.memories = a.memories /\ b.results = a.results /\ b.selected = a.selected
  BY <1>0 DEF Fields
<1> HIDE DEF b
<1>3. IsApp(b) /\ b.pending = a.pending
  BY <1>1, <1>2 DEF IsApp
<1> QED
  BY <1>3 DEF b

LEMMA SettingPrompt ==
  ASSUME NEW a, IsApp(a), NEW p \in Prompts \cup {Absent}
  PROVE  LET b == [a EXCEPT !.pending = p]
         IN  IsApp(b) /\ b.pending = p /\ b.sensitive = a.sensitive /\ SameLists(b, a)
<1> DEFINE b == [a EXCEPT !.pending = p]
<1>0. a = Fields(a)
  BY DEF IsApp
<1>1. b = Fields(b) /\ b.pending = p /\ b.sensitive = a.sensitive /\ b.mode = a.mode /\ b.live = a.live
  BY <1>0 DEF Fields
<1>2. b.memories = a.memories /\ b.results = a.results /\ b.selected = a.selected
      /\ b.query = a.query /\ b.superseded = a.superseded
  BY <1>0 DEF Fields
<1> HIDE DEF b
<1>3. IsApp(b) /\ b.pending = p /\ b.sensitive = a.sensitive /\ SameLists(b, a)
  BY <1>1, <1>2 DEF IsApp, SameLists
<1> QED
  BY <1>3 DEF b

(* What a key may do: the app stays one, prompts tell what was shown before  *)
(* them, and of the stored memories only those the prompt names change.      *)
KeyStep ==
  /\ IsApp(app') /\ PromptWas(app', asked)
  /\ rows' \in [Ids -> Row \cup {Absent}]
  /\ \A i \in Present : rows'[i] # rows[i] => i \in Named(app.pending)

LEMMA ListsKept ==
  ASSUME NEW a, IsApp(a), NEW R \in [Ids -> Row \cup {Absent}]
  PROVE  Kept(Searched(a, R), a) /\ Kept(Refreshed(a, R), a) /\ Kept(Moved(a, 1), a) /\ Kept(Moved(a, -1), a)
<1>1. Kept(Searched(a, R), a)
  BY SearchedApp DEF Kept, SameUse
<1>2. Kept(Refreshed(a, R), a)
  BY RefreshedApp DEF FreshView, Kept, SameUse
<1>3. Kept(Moved(a, 1), a)
  BY MovedApp DEF Kept, SameUse
<1>4. Kept(Moved(a, -1), a)
  BY MovedApp DEF Kept, SameUse
<1> QED
  BY <1>1, <1>2, <1>3, <1>4

LEMMA KeptTwice ==
  ASSUME NEW a, NEW b, NEW c, Kept(b, a), Kept(c, b)
  PROVE  Kept(c, a)
BY DEF Kept

\* No prompt is open: the switches may move, and nothing stored changes.
LEMMA Unprompted ==
  ASSUME ConsoleInv, UNCHANGED rows, IsApp(app'), app'.pending = Absent
  PROVE  KeyStep
BY DEF ConsoleInv, KeyStep, PromptWas

LEMMA NavigationKeyStep ==
  ASSUME ConsoleInv, app.pending = Absent, NEW key, NavigationKey(key)
  PROVE  KeyStep
<1>0. IsApp(app) /\ rows \in [Ids -> Row \cup {Absent}] /\ UNCHANGED rows
  BY DEF ConsoleInv, NavigationKey
<1>1. CASE key = "i" /\ app' = Searched([app EXCEPT !.sensitive = ~@], rows)
  <2> DEFINE v == ~app.sensitive
             b == [app EXCEPT !.sensitive = v]
  <2>1. v \in BOOLEAN
    OBVIOUS
  <2> HIDE DEF v
  <2>2. IsApp(b) /\ b.pending = Absent
    BY <1>0, <2>1, SettingSwitch
  <2>3. app' = Searched(b, rows)
    BY Zenon, <1>1 DEF v
  <2> HIDE DEF b
  <2>4. Kept(Searched(b, rows), b)
    BY <1>0, <2>2, ListsKept
  <2> QED
    BY <1>0, <2>2, <2>3, <2>4, Unprompted DEF Kept
<1>2. CASE key = "u" /\ app' = Refreshed([app EXCEPT !.superseded = ~@], rows)
  <2> DEFINE v == ~app.superseded
             b == [app EXCEPT !.superseded = v]
  <2> HIDE DEF v
  <2>1. Kept(b, app)
    BY <1>0, Setting
  <2>2. app' = Refreshed(b, rows)
    BY Zenon, <1>2 DEF v
  <2> HIDE DEF b
  <2>3. Kept(Refreshed(b, rows), b)
    BY <1>0, <2>1, ListsKept DEF Kept
  <2> QED
    BY <1>0, <2>1, <2>2, <2>3, Unprompted DEF Kept
<1>3. CASE app' = [app EXCEPT !.quit = TRUE]
  <2> DEFINE v == TRUE
  <2>1. app' = [app EXCEPT !.quit = v]
    BY <1>3
  <2> HIDE DEF v
  <2>2. Kept(app', app)
    BY <1>0, <2>1, Setting
  <2> QED
    BY <1>0, <2>2, Unprompted DEF Kept
<1>4. CASE \E m \in {"default", "command", "search"} : app' = [app EXCEPT !.mode = m]
  <2>0. PICK m \in {"default", "command", "search"} : app' = [app EXCEPT !.mode = m]
    BY <1>4
  <2>1. Kept(app', app)
    BY <1>0, <2>0, Setting
  <2> QED
    BY <1>0, <2>1, Unprompted DEF Kept
<1>5. CASE app' = Moved(app, 1) \/ app' = Moved(app, -1)
  <2>1. Kept(app', app)
    BY <1>0, <1>5, ListsKept
  <2> QED
    BY <1>0, <2>1, Unprompted DEF Kept
<1> QED
  BY <1>1, <1>2, <1>3, <1>4, <1>5 DEF NavigationKey

LEMMA SearchKeyStep ==
  ASSUME ConsoleInv, app.pending = Absent, NEW key, SearchKey(key)
  PROVE  KeyStep
<1>0. IsApp(app) /\ rows \in [Ids -> Row \cup {Absent}] /\ UNCHANGED rows
  BY DEF ConsoleInv, SearchKey
<1>1. CASE app' = [app EXCEPT !.mode = "default"]
  BY <1>0, <1>1, Setting, Unprompted DEF Kept
<1>2. CASE app' = Searched(app, rows) \/ app' = Moved(app, 1) \/ app' = Moved(app, -1)
  <2>1. Kept(app', app)
    BY <1>0, <1>2, ListsKept
  <2> QED
    BY <1>0, <2>1, Unprompted DEF Kept
<1>3. CASE \E q : app' = Searched([app EXCEPT !.query = q], rows)
  <2>1. PICK q : app' = Searched([app EXCEPT !.query = q], rows)
    BY <1>3
  <2> DEFINE b == [app EXCEPT !.query = q]
  <2>2. Kept(b, app)
    BY <1>0, Setting
  <2> HIDE DEF b
  <2>3. Kept(Searched(b, rows), b)
    BY <1>0, <2>2, ListsKept DEF Kept
  <2> QED
    BY <1>0, <2>1, <2>2, <2>3, Unprompted DEF Kept, b
<1> QED
  BY <1>1, <1>2, <1>3 DEF SearchKey

(* What is selected is in the list, and told as the list tells it.           *)
LEMMA SelectedListed ==
  ASSUME NEW a, IsApp(a), NEW R, ListIs(a, R), Selected(a) # Absent
  PROVE  Selected(a) \in Entry /\ Tells(a, Selected(a), R)
<1> DEFINE s == VisibleMemories(a)
           k == a.selected + 1
<1>1. s \in Seq(Entry) /\ a.selected \in Nat
  BY VisibleApp DEF IsApp
<1>2. a.selected < Len(s) /\ Selected(a) = s[k]
  BY DEF Selected
<1>3. \A j \in DOMAIN s : Tells(a, s[j], R)
  BY DEF ListIs, AllTell
<1> HIDE DEF s
<1>4. k \in DOMAIN s
  BY <1>1, <1>2
<1> HIDE DEF k
<1>5. s[k] \in Entry /\ Tells(a, s[k], R)
  BY <1>1, <1>3, <1>4
<1> QED
  BY <1>2, <1>5

\* A prompt that is opened: known, and telling what the frame on screen could show.
Opens(a, p) == p \in Prompts /\ (p.act \in Targeted => Tells(a, p, asked))

LEMMA Opening ==
  ASSUME NEW a, IsApp(a), NEW p, Opens(a, p)
  PROVE  IsApp([a EXCEPT !.pending = p]) /\ PromptWas([a EXCEPT !.pending = p], asked)
<1> DEFINE b == [a EXCEPT !.pending = p]
<1>1. IsApp(b) /\ b.pending = p /\ b.sensitive = a.sensitive /\ SameLists(b, a)
  BY SettingPrompt DEF Opens
<1> HIDE DEF b
<1>2. Tells(b, p, asked) <=> Tells(a, p, asked)
  BY <1>1, SameMatching DEF SameLists
<1>3. PromptWas(b, asked)
  BY <1>1, <1>2 DEF PromptWas, Opens
<1> QED
  BY <1>1, <1>3 DEF b

LEMMA SaysKept ==
  ASSUME NEW a, IsApp(a), NEW what, NEW i
  PROVE  Kept(Says(a, what, i), a) /\ SameLists(Says(a, what, i), a)
<1> DEFINE v == [said |-> what, id |-> i]
<1>1. Says(a, what, i) = [a EXCEPT !.status = v]
  BY DEF Says
<1> HIDE DEF v
<1> QED
  BY <1>1, Setting

LEMMA ExecuteSlashStep ==
  ASSUME ConsoleInv, pc = "key", app.pending = Absent, NEW command, ExecuteSlash(command)
  PROVE  KeyStep
<1> DEFINE a == [app EXCEPT !.mode = "default"]
<1>0. IsApp(app) /\ rows \in [Ids -> Row \cup {Absent}] /\ ListIs(app, asked)
  BY DEF ConsoleInv
<1>1. Kept(a, app) /\ SameLists(a, app)
  BY <1>0, Setting
<1>2. IsApp(a) /\ a.pending = Absent /\ ListIs(a, asked)
  <2> HIDE DEF a
  <2>1. IsApp(a) /\ a.pending = Absent /\ a.sensitive = app.sensitive
    BY <1>1 DEF Kept
  <2>2. a.query = app.query /\ a.superseded = app.superseded
        /\ a.memories = app.memories /\ VisibleMemories(a) = VisibleMemories(app)
    BY <1>1 DEF SameLists, VisibleMemories
  <2>3. Matching(a, asked) = Matching(app, asked) /\ \A r : Tells(a, r, asked) <=> Tells(app, r, asked)
    BY <2>1, <2>2, SameMatching
  <2>4. ListIs(a, asked)
    BY <1>0, <2>2, <2>3 DEF ListIs, AllTell
  <2> QED
    BY <2>1, <2>4
<1>4. ASSUME NEW what, NEW i, app' = Says(a, what, i), UNCHANGED rows PROVE KeyStep
  <2> HIDE DEF a
  <2> QED
    BY <1>2, <1>4, SaysKept, Unprompted DEF Kept
<1>5. ASSUME NEW p, Opens(a, p), app' = [a EXCEPT !.pending = p], UNCHANGED rows PROVE KeyStep
  <2> HIDE DEF a
  <2> QED
    BY <1>0, <1>2, <1>5, Opening DEF KeyStep
<1>6. ASSUME command \in Targeted, app' = PendSelected(a, command), UNCHANGED rows PROVE KeyStep
  <2> HIDE DEF a
  <2>1. CASE Selected(a) = Absent
    BY <1>4, <1>6, <2>1 DEF PendSelected
  <2>2. CASE Selected(a) # Absent
    <3> DEFINE p == [act |-> command, id |-> Selected(a).id, sens |-> Selected(a).sens]
    <3>1. Selected(a) \in Entry /\ Tells(a, Selected(a), asked)
      BY <1>2, <2>2, SelectedListed
    <3>2. p \in [act : Targeted, id : Ids, sens : {"normal", "private"}]
      BY <1>6, <3>1 DEF Entry
    <3>3. app' = [a EXCEPT !.pending = p]
      BY <1>6, <2>2 DEF PendSelected
    <3>4. Opens(a, p)
      <4>1. Tells(a, p, asked)
        BY <3>1 DEF Tells
      <4> QED
        BY <3>2, <4>1 DEF Opens, Prompts
    <3> HIDE DEF p
    <3> QED
      BY <1>5, <1>6, <3>3, <3>4
  <2> QED
    BY <2>1, <2>2
<1>7. ASSUME NEW old \in Ids, app' = PendSupersede(a, old), UNCHANGED rows PROVE KeyStep
  <2> HIDE DEF a
  <2>1. CASE Selected(a) = Absent
    BY <1>4, <1>7, <2>1 DEF PendSupersede
  <2>2. CASE Selected(a) # Absent
    <3> DEFINE p == [act |-> "supersede", id |-> Selected(a).id, old |-> old, sens |-> "normal"]
    <3>1. Selected(a) \in Entry
      BY <1>2, <2>2, SelectedListed
    <3>2. p \in [act : {"supersede"}, id : Ids, old : Ids, sens : {"normal"}]
      BY <3>1 DEF Entry
    <3>3. app' = [a EXCEPT !.pending = p]
      BY <1>7, <2>2 DEF PendSupersede
    <3>4. Opens(a, p)
      BY <3>2 DEF Opens, Prompts, Targeted
    <3> HIDE DEF p
    <3> QED
      BY <1>5, <1>7, <3>3, <3>4
  <2> QED
    BY <2>1, <2>2
<1>8. ASSUME NEW preview \in situation.previews, app' = PendSync(a, preview), UNCHANGED rows PROVE KeyStep
  <2>1. preview \in Seq(Entry)
    BY <1>8, SituationsAssumption DEF ConsoleInv
  <2> HIDE DEF a
  <2>2. CASE preview = <<>>
    <3> DEFINE b == [a EXCEPT !.pending = Absent]
    <3>1. IsApp(b) /\ b.pending = Absent
      BY <1>2, SettingPrompt
    <3>2. app' = Says(b, "nothing to sync", 0)
      BY <1>8, <2>2 DEF PendSync
    <3> HIDE DEF b
    <3>3. Kept(Says(b, "nothing to sync", 0), b)
      BY <3>1, SaysKept
    <3> QED
      BY <1>8, <3>1, <3>2, <3>3, Unprompted DEF Kept
  <2>3. CASE preview # <<>>
    <3> DEFINE p == [act |-> "sync", preview |-> preview, candidate |-> 1, sens |-> "normal"]
    <3>1. Len(preview) \in Nat /\ Len(preview) >= 1
      BY <2>1, <2>3
    <3>2. p \in [act : {"sync"}, preview : Seq(Entry), candidate : Nat, sens : {"normal"}]
          /\ p.candidate \in 1 .. Len(p.preview)
      BY <2>1, <3>1
    <3>3. app' = [a EXCEPT !.pending = p]
      BY <1>8, <2>3 DEF PendSync
    <3>4. Opens(a, p)
      BY <3>2 DEF Opens, Prompts, Targeted
    <3> HIDE DEF p
    <3> QED
      BY <1>5, <1>8, <3>3, <3>4
  <2> QED
    BY <2>2, <2>3
<1>9. ASSUME command \in {"consolidate", "export"}, UNCHANGED rows,
             app' = [a EXCEPT !.pending = [act |-> command, sens |-> "normal"]]
      PROVE  KeyStep
  <2> HIDE DEF a
  <2> DEFINE p == [act |-> command, sens |-> "normal"]
  <2>1. p \in [act : {"consolidate", "export"}, sens : {"normal"}]
    BY <1>9
  <2>2. Opens(a, p)
    BY <2>1 DEF Opens, Prompts, Targeted
  <2>3. app' = [a EXCEPT !.pending = p]
    BY <1>9
  <2> HIDE DEF p
  <2> QED
    BY <1>5, <1>9, <2>2, <2>3
<1>10. ASSUME app' = Searched([a EXCEPT !.mode = "search", !.query = "q"], rows), UNCHANGED rows
       PROVE  KeyStep
  <2> HIDE DEF a
  <2> DEFINE b == [a EXCEPT !.mode = "search"]
             c == [b EXCEPT !.query = "q"]
  <2>1. Kept(b, a)
    BY <1>2, Setting
  <2>2. app' = Searched(c, rows)
    BY <1>10
  <2> HIDE DEF b
  <2>3. Kept(c, b)
    BY <2>1, Setting DEF Kept
  <2> HIDE DEF c
  <2>4. Kept(Searched(c, rows), c)
    BY <1>0, <2>3, ListsKept DEF Kept
  <2> QED
    BY <1>2, <1>10, <2>1, <2>2, <2>3, <2>4, Unprompted DEF Kept
<1>11. ASSUME NEW i \in Ids \ Present, rows' = [rows EXCEPT ![i] = Remembered],
              app' = Refreshed(Says(a, "remembered", i), rows')
       PROVE  KeyStep
  <2> HIDE DEF a
  <2>1. rows' \in [Ids -> Row \cup {Absent}] /\ \A j \in Present : rows'[j] = rows[j]
    <3>1. Remembered \in Row
      BY DEF Remembered, Row
    <3> QED
      BY <1>0, <1>11, <3>1 DEF Present
  <2> DEFINE b == Says(a, "remembered", i)
  <2>2. Kept(b, a)
    BY <1>2, SaysKept
  <2> HIDE DEF b
  <2>3. Kept(Refreshed(b, rows'), b)
    BY <2>1, <2>2, ListsKept DEF Kept
  <2>4. app' = Refreshed(b, rows')
    BY <1>11 DEF b
  <2>5. Kept(app', a)
    BY <2>2, <2>3, <2>4 DEF Kept
  <2> QED
    BY <1>2, <2>1, <2>5 DEF KeyStep, Kept, PromptWas
<1> HIDE DEF a
<1> QED
  BY <1>4, <1>6, <1>7, <1>8, <1>9, <1>10, <1>11 DEF ExecuteSlash, a

LEMMA CommandKeyStep ==
  ASSUME ConsoleInv, pc = "key", app.pending = Absent, NEW key, CommandKey(key)
  PROVE  KeyStep
<1>1. CASE app' = [app EXCEPT !.mode = "default"] /\ UNCHANGED rows
  BY <1>1, Setting, Unprompted DEF Kept, ConsoleInv
<1>2. CASE \E command \in situation.commands : ExecuteSlash(command)
  BY <1>2, ExecuteSlashStep
<1> QED
  BY <1>1, <1>2 DEF CommandKey

LEMMA PromptParts ==
  ASSUME NEW p \in Prompts
  PROVE  /\ p.act \in Targeted \cup {"supersede", "sync", "consolidate", "export"}
         /\ p.act \in Targeted => p.id \in Ids
         /\ p.act = "supersede" => p.old \in Ids
         /\ p.act = "sync" => p.preview \in Seq(Entry) /\ p.candidate \in 1 .. Len(p.preview)
<1>1. CASE p \in [act : Targeted, id : Ids, sens : {"normal", "private"}]
  BY <1>1 DEF Targeted
<1>2. CASE p \in [act : {"supersede"}, id : Ids, old : Ids, sens : {"normal"}]
  BY <1>2 DEF Targeted
<1>3. CASE p \in [act : {"consolidate", "export"}, sens : {"normal"}]
  BY <1>3 DEF Targeted
<1>4. CASE p \in {q \in [act : {"sync"}, preview : Seq(Entry), candidate : Nat, sens : {"normal"}] :
                    q.candidate \in 1 .. Len(q.preview)}
  BY <1>4 DEF Targeted
<1> QED
  BY <1>1, <1>2, <1>3, <1>4 DEF Prompts

\* Rows that differ from the stored ones only where the prompt says so.
Touches(R) ==
  /\ R \in [Ids -> Row \cup {Absent}]
  /\ \A i \in Present : R[i] # rows[i] => i \in Named(app.pending)

LEMMA OneTouched ==
  ASSUME ConsoleInv, NEW i \in Ids, i \in Named(app.pending) \/ i \notin Present, NEW row \in Row \cup {Absent}
  PROVE  Touches([rows EXCEPT ![i] = row])
BY DEF ConsoleInv, Touches, Present

LEMMA NoneTouched ==
  ASSUME ConsoleInv
  PROVE  Touches(rows)
BY DEF ConsoleInv, Touches

LEMMA RowWith ==
  ASSUME NEW row \in Row
  PROVE  /\ \A sens \in {"normal", "private"} : [row EXCEPT !.sens = sens] \in Row
         /\ \A b \in BOOLEAN : [row EXCEPT !.old = b] \in Row /\ [row EXCEPT !.hit = b] \in Row
         /\ \A ring \in {"heartwood", "scar", "seed"} : [row EXCEPT !.ring = ring] \in Row
<1>1. ASSUME NEW sens \in {"normal", "private"} PROVE [row EXCEPT !.sens = sens] \in Row
  BY DEF Row
<1>2. ASSUME NEW b \in BOOLEAN PROVE [row EXCEPT !.old = b] \in Row /\ [row EXCEPT !.hit = b] \in Row
  BY DEF Row
<1>3. ASSUME NEW ring \in {"heartwood", "scar", "seed"} PROVE [row EXCEPT !.ring = ring] \in Row
  BY DEF Row
<1> QED
  BY <1>1, <1>2, <1>3

LEMMA ErasedRow ==
  ASSUME NEW row \in Row
  PROVE  Erased(row) \in Row
<1> DEFINE no == FALSE
           one == [row EXCEPT !.sens = "private"]
           two == [one EXCEPT !.old = no]
           all == [two EXCEPT !.hit = no]
<1>1. no \in BOOLEAN /\ Erased(row) = all
  BY DEF Erased
<1> HIDE DEF no
<1>2. one \in Row
  BY RowWith
<1> HIDE DEF one
<1>3. two \in Row
  BY <1>1, <1>2, RowWith
<1> HIDE DEF two
<1> QED
  BY <1>1, <1>3, RowWith

LEMMA OutcomeTouches ==
  ASSUME ConsoleInv, app.pending \in Prompts, app.pending # Absent,
         app.pending.act \in Targeted \cup {"supersede"}
  PROVE  Touches(Outcome(app).rows)
<1> DEFINE act == app.pending.act
           i == app.pending.id
           old == app.pending.old
<1>0. rows \in [Ids -> Row \cup {Absent}]
  BY DEF ConsoleInv
<1>1. act \in Targeted => i \in Ids /\ i \in Named(app.pending)
  <2>1. act \in Targeted => Named(app.pending) = {i}
    BY DEF Named, Targeted
  <2> QED
    BY <2>1, PromptParts
<1>2. act = "supersede" => old \in Ids /\ old \in Named(app.pending)
  <2>1. act = "supersede" => Named(app.pending) = {old}
    BY DEF Named, Targeted
  <2> QED
    BY <2>1, PromptParts
<1>3. CASE act = "forget"
  <2>1. Outcome(app).rows = [rows EXCEPT ![i] = Absent]
    BY <1>3 DEF Outcome, Target
  <2> QED
    BY <1>1, <1>3, <2>1, OneTouched DEF Targeted
<1>4. CASE act = "redact"
  <2>1. Outcome(app).rows = IF rows[i] = Absent THEN rows ELSE [rows EXCEPT ![i] = Erased(rows[i])]
    BY <1>4 DEF Outcome, Target
  <2>2. i \in Ids /\ i \in Named(app.pending)
    BY <1>1, <1>4 DEF Targeted
  <2>3. rows[i] # Absent => Erased(rows[i]) \in Row
    BY <1>0, <2>2, ErasedRow
  <2>4. rows[i] # Absent => Touches([rows EXCEPT ![i] = Erased(rows[i])])
    BY <2>2, <2>3, OneTouched
  <2> QED
    BY <2>1, <2>4, NoneTouched
<1>5. CASE act \in {"promote", "scar", "seed"}
  <2> DEFINE ring == RingOf(act)
  <2>1. ring \in {"heartwood", "scar", "seed"}
    BY <1>5 DEF RingOf
  <2>2. Outcome(app).rows = IF rows[i] = Absent THEN rows ELSE [rows EXCEPT ![i].ring = ring]
    BY <1>5 DEF Outcome, Target
  <2> HIDE DEF ring
  <2>3. i \in Ids /\ i \in Named(app.pending)
    BY <1>1, <1>5 DEF Targeted
  <2>4. rows[i] # Absent => [rows[i] EXCEPT !.ring = ring] \in Row
    BY <1>0, <2>1, <2>3, RowWith
  <2>5. rows[i] # Absent => Touches([rows EXCEPT ![i] = [rows[i] EXCEPT !.ring = ring]])
    BY <2>3, <2>4, OneTouched
  <2> QED
    BY <2>2, <2>5, NoneTouched
<1>6. CASE act = "supersede"
  <2>1. Outcome(app).rows = IF rows[old] = Absent THEN rows ELSE [rows EXCEPT ![old].old = TRUE]
    BY <1>6 DEF Outcome, Target
  <2>2. rows[old] # Absent => [rows[old] EXCEPT !.old = TRUE] \in Row
    BY <1>0, <1>2, <1>6, RowWith
  <2>3. rows[old] # Absent => Touches([rows EXCEPT ![old] = [rows[old] EXCEPT !.old = TRUE]])
    BY <1>2, <1>6, <2>2, OneTouched
  <2> QED
    BY <2>1, <2>3, NoneTouched
<1> QED
  BY <1>3, <1>4, <1>5, <1>6 DEF Targeted

LEMMA Settled ==
  ASSUME IsApp(app'), app'.pending = Absent, Touches(rows')
  PROVE  KeyStep
BY DEF KeyStep, PromptWas, Touches

LEMMA SyncTouches ==
  ASSUME ConsoleInv, app.pending \in Prompts, app.pending # Absent, app.pending.act = "sync",
         rows' = [i \in Ids |-> LET found == {e \in ToSet(app.pending.preview) : e.id = i}
                                IN  IF found = {} THEN rows[i] ELSE SyncedRow(CHOOSE e \in found : TRUE)]
  PROVE  Touches(rows')
<1> DEFINE s == app.pending.preview
           Found(i) == {e \in ToSet(s) : e.id = i}
<1>1. ToSet(s) \subseteq Entry
  <2>1. s \in Seq(Entry)
    BY PromptParts
  <2> HIDE DEF s
  <2> QED
    BY <2>1 DEF ToSet
<1>2. rows \in [Ids -> Row \cup {Absent}]
  BY DEF ConsoleInv
<1>3. rows' = [i \in Ids |-> IF Found(i) = {} THEN rows[i] ELSE SyncedRow(CHOOSE e \in Found(i) : TRUE)]
  OBVIOUS
<1>4. Named(app.pending) = {e.id : e \in ToSet(s)}
  BY DEF Named, Targeted
<1> HIDE DEF s
<1>5. ASSUME NEW i \in Ids, Found(i) # {} PROVE SyncedRow(CHOOSE e \in Found(i) : TRUE) \in Row
  <2>1. PICK e \in Entry : e = CHOOSE f \in Found(i) : TRUE
    BY <1>1, <1>5
  <2>2. SyncedRow(e) \in Row
    BY DEF SyncedRow, Row, Entry
  <2> HIDE DEF Found
  <2> QED
    BY <2>1, <2>2
<1>6. ASSUME NEW i \in Ids, Found(i) # {} PROVE i \in Named(app.pending)
  BY <1>4, <1>6
<1> HIDE DEF Found
<1>7. rows' \in [Ids -> Row \cup {Absent}]
  BY <1>2, <1>3, <1>5
<1>8. ASSUME NEW i \in Ids, rows'[i] # rows[i] PROVE i \in Named(app.pending)
  BY <1>3, <1>6, <1>8
<1> QED
  BY <1>7, <1>8 DEF Touches, Present

LEMMA ConfirmStep ==
  ASSUME ConsoleInv, app.pending # Absent, Confirm
  PROVE  KeyStep
<1> DEFINE a == [app EXCEPT !.pending = Absent]
           act == app.pending.act
<1>0. IsApp(app) /\ app.pending \in Prompts
  BY DEF ConsoleInv, IsApp
<1>1. IsApp(a) /\ a.pending = Absent
  BY <1>0, SettingPrompt
<1>2. ASSUME NEW what, NEW i, app' = Refreshed(Says(a, what, i), rows'), Touches(rows') PROVE KeyStep
  <2> HIDE DEF a
  <2> DEFINE b == Says(a, what, i)
  <2>1. Kept(b, a)
    BY <1>1, SaysKept
  <2>2. app' = Refreshed(b, rows')
    BY <1>2
  <2> HIDE DEF b
  <2>3. Kept(Refreshed(b, rows'), b)
    BY <1>2, <2>1, ListsKept DEF Kept, Touches
  <2> QED
    BY <1>1, <1>2, <2>1, <2>2, <2>3, Settled DEF Kept
<1>3. CASE app' = Says(a, "failed", 0) /\ UNCHANGED rows
  <2> HIDE DEF a
  <2>1. Kept(app', a)
    BY <1>1, <1>3, SaysKept
  <2> QED
    BY <1>1, <1>3, <2>1, NoneTouched, Settled DEF Kept
<1>4. CASE /\ act \in Targeted \cup {"supersede"}
           /\ rows' = Outcome(app).rows
           /\ app' = Refreshed(Says(a, Outcome(app).said, Outcome(app).id), Outcome(app).rows)
  <2>1. Touches(rows')
    BY <1>0, <1>4, OutcomeTouches
  <2> HIDE DEF a
  <2> QED
    BY <1>2, <1>4, <2>1
<1>5. CASE /\ act = "sync"
           /\ rows' = [i \in Ids |-> LET found == {e \in ToSet(app.pending.preview) : e.id = i}
                                     IN  IF found = {} THEN rows[i] ELSE SyncedRow(CHOOSE e \in found : TRUE)]
           /\ app' = Refreshed([Says(a, "synced", 0) EXCEPT !.query = "", !.results = <<>>,
                                                            !.selected = 0, !.mode = "default"], rows')
  <2>1. Touches(rows')
    BY <1>0, <1>5, SyncTouches
  <2> HIDE DEF a
  <2> DEFINE b == Says(a, "synced", 0)
             c == [b EXCEPT !.query = ""]
             none == <<>>
             d == [c EXCEPT !.results = none]
             e == [d EXCEPT !.selected = 0]
             f == [e EXCEPT !.mode = "default"]
  <2>2. app' = Refreshed(f, rows')
    BY <1>5
  <2>3. none \in Seq(Entry)
    OBVIOUS
  <2> HIDE DEF none
  <2>4. Kept(b, a)
    BY <1>1, SaysKept
  <2> HIDE DEF b
  <2>5. Kept(c, b)
    BY <2>4, Setting DEF Kept
  <2> HIDE DEF c
  <2>6. Kept(d, c)
    BY <2>3, <2>5, Setting DEF Kept
  <2> HIDE DEF d
  <2>7. Kept(e, d)
    BY <2>6, Setting DEF Kept
  <2> HIDE DEF e
  <2>8. Kept(f, e)
    BY <2>7, Setting DEF Kept
  <2> HIDE DEF f
  <2>9. Kept(Refreshed(f, rows'), f)
    BY <2>1, <2>8, ListsKept DEF Kept, Touches
  <2> QED
    BY <1>1, <2>1, <2>2, <2>4, <2>5, <2>6, <2>7, <2>8, <2>9, Settled DEF Kept
<1>6. CASE /\ act = "consolidate"
           /\ \/ UNCHANGED rows
              \/ \E i \in Ids \ Present : rows' = [rows EXCEPT ![i] = [Remembered EXCEPT !.ring = "outer"]]
           /\ app' = Refreshed(Says(a, "consolidated", 0), rows')
  <2> DEFINE new == [Remembered EXCEPT !.ring = "outer"]
  <2>1. new \in Row
    BY DEF Remembered, Row
  <2> HIDE DEF new
  <2>2. Touches(rows')
    <3>1. CASE UNCHANGED rows
      BY <3>1, NoneTouched
    <3>2. CASE \E i \in Ids \ Present : rows' = [rows EXCEPT ![i] = new]
      BY <2>1, <3>2, OneTouched
    <3> QED
      BY <1>6, <3>1, <3>2 DEF new
  <2> HIDE DEF a
  <2> QED
    BY <1>2, <1>6, <2>2
<1>7. CASE act = "export" /\ app' = Refreshed(Says(a, "exported", 0), rows) /\ UNCHANGED rows
  <2>1. Touches(rows')
    BY <1>7, NoneTouched
  <2> HIDE DEF a
  <2> QED
    BY <1>2, <1>7, <2>1
<1> QED
  BY <1>3, <1>4, <1>5, <1>6, <1>7 DEF Confirm

LEMMA PendingKeyStep ==
  ASSUME ConsoleInv, app.pending # Absent, NEW key, PendingKey(key)
  PROVE  KeyStep
<1> DEFINE p == app.pending
<1>0. IsApp(app) /\ p \in Prompts /\ rows \in [Ids -> Row \cup {Absent}]
  BY DEF ConsoleInv, IsApp
<1>1. CASE p.act = "sync" /\ app' = Refreshed([app EXCEPT !.sensitive = ~@], rows) /\ UNCHANGED rows
  <2> DEFINE v == ~app.sensitive
             b == [app EXCEPT !.sensitive = v]
  <2>1. v \in BOOLEAN
    OBVIOUS
  <2> HIDE DEF v
  <2>2. IsApp(b) /\ b.pending = p
    BY <1>0, <2>1, SettingSwitch
  <2>3. app' = Refreshed(b, rows)
    BY Zenon, <1>1 DEF v
  <2> HIDE DEF b
  <2>4. Kept(Refreshed(b, rows), b)
    BY <1>0, <2>2, ListsKept
  <2>5. IsApp(app') /\ app'.pending = p
    BY <2>2, <2>3, <2>4 DEF Kept
  <2>6. PromptWas(app', asked)
    BY <1>1, <2>5 DEF PromptWas, Targeted
  <2> QED
    BY <1>0, <1>1, <2>5, <2>6 DEF KeyStep
<1>2. ASSUME p.act = "sync", NEW k \in 1 .. Len(p.preview), UNCHANGED rows,
             app' = [app EXCEPT !.pending.candidate = k]
      PROVE  KeyStep
  <2> DEFINE q == [p EXCEPT !.candidate = k]
  <2>1. p \in [act : {"sync"}, preview : Seq(Entry), candidate : Nat, sens : {"normal"}]
    BY <1>0, <1>2 DEF Prompts, Targeted
  <2>2. Len(p.preview) \in Nat
    BY <2>1
  <2>3. q \in [act : {"sync"}, preview : Seq(Entry), candidate : Nat, sens : {"normal"}]
        /\ q.candidate = k /\ q.preview = p.preview
    BY <1>2, <2>1, <2>2
  <2>4. app' = [app EXCEPT !.pending = q]
    BY <1>2
  <2> HIDE DEF q
  <2>5. Opens(app, q)
    BY <1>2, <2>3 DEF Opens, Prompts, Targeted
  <2> QED
    BY <1>0, <1>2, <2>4, <2>5, Opening DEF KeyStep
<1>3. CASE p.act = "sync" /\ UNCHANGED rows
           /\ app' = [app EXCEPT !.pending.candidate = IF @ < Len(p.preview) THEN @ + 1 ELSE @]
  <2> DEFINE c == p.candidate
             k == IF c < Len(p.preview) THEN c + 1 ELSE c
  <2>1. c \in 1 .. Len(p.preview) /\ Len(p.preview) \in Nat
    BY <1>0, <1>3, PromptParts
  <2>2. k \in 1 .. Len(p.preview)
    BY <2>1
  <2>3. app' = [app EXCEPT !.pending.candidate = k]
    BY <1>3
  <2> HIDE DEF k
  <2> QED
    BY <1>2, <1>3, <2>2, <2>3
<1>4. CASE p.act = "sync" /\ UNCHANGED rows
           /\ app' = [app EXCEPT !.pending.candidate = IF @ > 1 THEN @ - 1 ELSE @]
  <2> DEFINE c == p.candidate
             k == IF c > 1 THEN c - 1 ELSE c
  <2>1. c \in 1 .. Len(p.preview) /\ Len(p.preview) \in Nat
    BY <1>0, <1>4, PromptParts
  <2>2. k \in 1 .. Len(p.preview)
    BY <2>1
  <2>3. app' = [app EXCEPT !.pending.candidate = k]
    BY <1>4
  <2> HIDE DEF k
  <2> QED
    BY <1>2, <1>4, <2>2, <2>3
<1>5. CASE Confirm
  BY <1>5, ConfirmStep
<1>6. CASE app' = Says([app EXCEPT !.pending = Absent], "cancelled", 0) /\ UNCHANGED rows
  <2> DEFINE a == [app EXCEPT !.pending = Absent]
  <2>1. IsApp(a) /\ a.pending = Absent
    BY <1>0, SettingPrompt
  <2>2. app' = Says(a, "cancelled", 0)
    BY <1>6
  <2> HIDE DEF a
  <2>3. Kept(app', a)
    BY <2>1, <2>2, SaysKept
  <2> QED
    BY <1>6, <2>1, <2>3, NoneTouched, Settled DEF Kept
<1> QED
  BY <1>1, <1>3, <1>4, <1>5, <1>6 DEF PendingKey

LEMMA HandleKeyStep ==
  ASSUME ConsoleInv, pc = "key", NEW key, HandleKey(key)
  PROVE  KeyStep
<1>1. CASE app.pending # Absent
  BY <1>1, PendingKeyStep DEF HandleKey
<1>2. CASE app.pending = Absent
  BY <1>2, CommandKeyStep, SearchKeyStep, NavigationKeyStep DEF HandleKey
<1> QED
  BY <1>1, <1>2

LEMMA ConsoleInvInit ==
  ASSUME ConsoleInit
  PROVE  ConsoleInv
<1> DEFINE a == [memories |-> <<>>, results |-> <<>>, selected |-> 0, query |-> "", total |-> 0,
                 sensitive |-> FALSE, superseded |-> FALSE, mode |-> "default", pending |-> Absent,
                 status |-> [said |-> "", id |-> 0], live |-> <<>>, quit |-> FALSE]
<1>1. situation \in Situations /\ rows \in [Ids -> Row \cup {Absent}]
  BY SituationsAssumption DEF ConsoleInit
<1>2. IsApp(a) /\ a.pending = Absent
  <2>1. a = Fields(a)
    BY DEF Fields
  <2>2. a.memories \in Seq(Entry) /\ a.results \in Seq(Entry)
    OBVIOUS
  <2>3. a.selected \in Nat /\ a.sensitive \in BOOLEAN /\ a.mode = "default" /\ a.pending = Absent
    OBVIOUS
  <2>4. a.live \in Lives
    <3> DEFINE Events == Seq(Bytes)
               none == a.live
    <3>1. none = <<>> /\ 0 <= MaxLive
      BY SituationsAssumption
    <3> HIDE DEF Events, none
    <3>2. none \in Seq(Events) /\ Len(none) <= MaxLive
      BY <3>1
    <3> QED
      BY <3>2 DEF Lives, Events, none
  <2> HIDE DEF a
  <2> QED
    BY <2>1, <2>2, <2>3, <2>4 DEF IsApp
<1>3. app = Refreshed(a, rows) /\ pc = "key" /\ keys = 0 /\ named = {} /\ shown = rows /\ asked = rows
  BY DEF ConsoleInit
<1> HIDE DEF a
<1>4. FreshView(app, a, rows)
  BY <1>1, <1>2, <1>3, RefreshedApp
<1>5. app.pending = Absent /\ IsApp(app) /\ ListIs(app, rows) /\ CursorIn(app)
  BY <1>2, <1>4 DEF FreshView, SameUse
<1>6. PromptWas(app, asked) /\ named = Named(app.pending)
  BY <1>3, <1>5 DEF PromptWas, Named
<1>7. StreamInv
  BY StreamStarts DEF ConsoleInit
<1> QED
  BY <1>1, <1>3, <1>5, <1>6, <1>7 DEF ConsoleInv

LEMMA ConsoleInvKey ==
  ASSUME ConsoleInv, Key
  PROVE  ConsoleInv' /\ (\A i \in Present : rows'[i] # rows[i] => i \in named)
<1>0. /\ pc = "key" /\ pc' = "tick" /\ named = Named(app.pending)
      /\ UNCHANGED <<situation, shown, asked, streamVars>>
  BY DEF Key, ConsoleInv
<1>3. StreamInv'
  BY <1>0, StreamIdle DEF ConsoleInv
<1>1. CASE UNCHANGED <<app, rows, keys>>
  BY <1>0, <1>3, <1>1 DEF ConsoleInv
<1>2. CASE keys' = keys + 1 /\ \E key \in situation.keys : HandleKey(key)
  <2>1. KeyStep
    BY <1>0, <1>2, HandleKeyStep
  <2> QED
    BY <1>0, <1>3, <1>2, <2>1 DEF ConsoleInv, KeyStep
<1> QED
  BY <1>1, <1>2 DEF Key

(* Only the latest events stay on the screen.                               *)
LEMMA LatestLive ==
  ASSUME NEW s \in Lives, NEW more \in Seq(Seq(Bytes))
  PROVE  Latest(s \o more) \in Lives
<1> DEFINE Events == Seq(Bytes)
           all == s \o more
           first == Len(all) - MaxLive + 1
<1> HIDE DEF Events
<1>1. all \in Seq(Events) /\ Len(all) \in Nat /\ MaxLive \in Nat
  <2>1. s \in Seq(Events) /\ more \in Seq(Events)
    BY DEF Lives, Events
  <2> QED
    BY <2>1, SituationsAssumption
<1> HIDE DEF all
<1>2. CASE Len(all) > MaxLive
  <2>1. first \in Nat /\ first >= 1 /\ first \in Int /\ Len(all) - first + 1 = MaxLive
    BY <1>1, <1>2
  <2> HIDE DEF first
  <2>2. \A i \in first .. Len(all) : all[i] \in Events
    BY <1>1, <2>1
  <2> DEFINE latest == SubSeq(all, first, Len(all))
  <2>3. latest \in Seq(Events) /\ Len(latest) = IF first <= Len(all) THEN Len(all) - first + 1 ELSE 0
    BY <1>1, <2>1, <2>2, SubSeqProperties
  <2> HIDE DEF latest
  <2>4. Len(latest) <= MaxLive
    BY <1>1, <2>1, <2>3
  <2>5. Latest(all) = latest
    BY <1>2 DEF Latest, latest, first
  <2> QED
    BY <2>3, <2>4, <2>5 DEF Lives, Events, all
<1>3. CASE ~(Len(all) > MaxLive)
  <2>1. Latest(all) = all /\ Len(all) <= MaxLive
    BY <1>1, <1>3 DEF Latest
  <2> QED
    BY <1>1, <2>1 DEF Lives, Events, all
<1> QED
  BY <1>2, <1>3

LEMMA ConsoleInvTick ==
  ASSUME ConsoleInv, Tick
  PROVE  ConsoleInv'
<1> DEFINE b == Refreshed(app, rows)
<1>0. /\ IsApp(app) /\ PromptWas(app, asked) /\ {rows, asked} \subseteq [Ids -> Row \cup {Absent}]
      /\ pc' = "key" /\ named' = Named(app.pending) /\ UNCHANGED <<situation, rows, keys>>
      /\ shown' = rows /\ asked' = IF app.pending = Absent THEN rows ELSE asked
  BY DEF ConsoleInv, Tick
<1>1. StreamInv'
  BY ReadKeeps DEF ConsoleInv, Tick
<1>2. FreshView(b, app, rows)
  BY <1>0, RefreshedApp
<1>3. Kept(app', b) /\ SameLists(app', b)
  <2> DEFINE first == (IF IsPrefix(delivered, delivered') THEN Len(delivered) ELSE 0) + 1
             last == Len(delivered')
             news == SubSeq(delivered', first, last)
             live == Latest(b.live \o news)
  <2>1. app' = [b EXCEPT !.live = live]
    BY DEF Tick
  <2>2. news \in Seq(Seq(Bytes))
    <3> DEFINE Events == Seq(Bytes)
    <3> HIDE DEF Events
    <3>1. delivered \in Seq(Events) /\ delivered' \in Seq(Events)
      BY <1>1 DEF ConsoleInv, StreamInv, Events
    <3>2. first \in Nat /\ first >= 1 /\ last \in Nat
      BY <3>1
    <3>3. \A i \in first .. last : delivered'[i] \in Events
      BY <3>1, <3>2
    <3> HIDE DEF first, last
    <3>4. news \in Seq(Events)
      BY <3>2, <3>3, SubSeqProperties
    <3> QED
      BY <3>4 DEF Events
  <2>3. b.live \in Lives
    BY <1>2 DEF FreshView, IsApp
  <2> HIDE DEF b, news
  <2>4. live \in Lives
    BY <2>2, <2>3, LatestLive
  <2> HIDE DEF live
  <2> QED
    BY <1>2, <2>1, <2>4, Setting DEF FreshView
<1> HIDE DEF b
<1>4. /\ IsApp(app') /\ app'.pending = app.pending /\ app'.sensitive = app.sensitive
      /\ app'.superseded = app.superseded /\ app'.query = app.query
  BY <1>2, <1>3 DEF FreshView, SameUse, Kept, SameLists
<1>5. /\ VisibleMemories(app') = VisibleMemories(b) /\ app'.selected = b.selected /\ app'.memories = b.memories
      /\ app'.sensitive = b.sensitive /\ app'.superseded = b.superseded /\ app'.query = b.query
  BY <1>3 DEF SameLists, VisibleMemories, Kept
<1>6. ListIs(app', rows) /\ CursorIn(app')
  <2>1. Matching(app', rows) = Matching(b, rows) /\ \A r : Tells(app', r, rows) <=> Tells(b, r, rows)
    BY <1>5, SameMatching
  <2>2. ListIs(app', rows)
    BY <1>2, <1>5, <2>1 DEF FreshView, ListIs, AllTell
  <2> QED
    BY <1>2, <1>5, <2>2 DEF FreshView, CursorIn
<1>7. PromptWas(app', asked')
  <2>1. \A r : Tells(app', r, asked) <=> Tells(app, r, asked)
    BY <1>4, SameMatching
  <2> QED
    BY <1>0, <1>4, <2>1 DEF PromptWas
<1> QED
  BY <1>0, <1>1, <1>4, <1>6, <1>7 DEF ConsoleInv

LEMMA ConsoleInvNext ==
  ASSUME ConsoleInv, [ConsoleNext]_consoleVars
  PROVE  ConsoleInv'
<1>1. CASE Key
  BY <1>1, ConsoleInvKey
<1>2. CASE Tick
  BY <1>2, ConsoleInvTick
<1>3. CASE Client
  <2>1. PICK i \in Ids, row \in situation.clientRows \cup {Absent} : rows' = [rows EXCEPT ![i] = row]
    BY <1>3 DEF Client
  <2>2. row \in Row \cup {Absent}
    BY <2>1, SituationsAssumption DEF ConsoleInv
  <2>3. rows' \in [Ids -> Row \cup {Absent}]
    BY <2>1, <2>2 DEF ConsoleInv
  <2> QED
    BY <1>3, <2>3, StreamIdle DEF Client, ConsoleInv
<1>4. CASE UNCHANGED appVars /\ StreamInv'
  BY <1>4 DEF appVars, ConsoleInv
<1>5. CASE Writer
  BY <1>4, <1>5, WriteKeeps DEF Writer, ConsoleInv
<1>6. CASE UNCHANGED consoleVars
  BY <1>4, <1>6, StreamIdle DEF consoleVars, ConsoleInv
<1> QED
  BY <1>1, <1>2, <1>3, <1>5, <1>6 DEF ConsoleNext

LEMMA ConsoleInvHonest ==
  ASSUME ConsoleInv
  PROVE  FramesHonest
<1>0. IsApp(app)
  BY DEF ConsoleInv
<1>1. TypeOK
  <2>1. {rows, shown, asked} \subseteq [Ids -> Row \cup {Absent}] /\ pc \in {"key", "tick"}
    BY DEF ConsoleInv
  <2>2. app.mode \in {"default", "command", "search"}
    BY <1>0 DEF IsApp
  <2>3. app.pending = Absent \/ app.pending.act \in Targeted \cup {"supersede", "sync", "consolidate", "export"}
    BY <1>0, PromptParts DEF IsApp
  <2>4. \A r \in ToSet(app.memories) \cup ToSet(app.results) : r \in Entry
    BY <1>0 DEF IsApp, ToSet
  <2> QED
    BY <2>1, <2>2, <2>3, <2>4 DEF TypeOK
<1>2. SelectionStands
  <2> SUFFICES ASSUME pc = "key", VisibleMemories(app) # <<>> PROVE app.selected < Len(VisibleMemories(app))
    BY DEF SelectionStands
  <2> DEFINE s == VisibleMemories(app)
  <2>1. s \in Seq(Entry) /\ s # <<>>
    BY <1>0, VisibleApp
  <2>2. CursorIn(app)
    BY DEF ConsoleInv
  <2> HIDE DEF s
  <2>3. 0 < Len(s)
    BY <2>1
  <2> QED
    BY <2>2, <2>3 DEF CursorIn, s
<1>3. PromptAsShown
  BY DEF ConsoleInv, PromptWas, PromptAsShown
<1>4. FrameCurrent
  <2> SUFFICES ASSUME pc = "key"
               PROVE  /\ \A r \in ToSet(VisibleMemories(app)) : Tells(app, r, shown)
                      /\ app.query = "" => Matching(app, shown) \subseteq {r.id : r \in ToSet(app.memories)}
    BY DEF FrameCurrent
  <2>0. ListIs(app, shown)
    BY DEF ConsoleInv
  <2>1. \A r \in ToSet(VisibleMemories(app)) : Tells(app, r, shown)
    BY <2>0 DEF ListIs, AllTell, ToSet
  <2>2. ASSUME app.query = "", NEW i \in Matching(app, shown)
        PROVE  i \in {r.id : r \in ToSet(app.memories)}
    <3>1. PICK k \in DOMAIN app.memories : app.memories[k].id = i
      BY <2>0, <2>2 DEF ListIs
    <3>2. app.memories[k] \in ToSet(app.memories)
      BY DEF ToSet
    <3> QED
      BY <3>1, <3>2
  <2> QED
    BY <2>1, <2>2
<1> QED
  BY <1>1, <1>2, <1>3, <1>4 DEF FramesHonest

(* Every frame lists what the store held when it was read, all of it that   *)
(* may be seen and nothing else; a prompt tells what the frame before it    *)
(* could show of its memory; and commands have a memory to be about, as     *)
(* long as there is one: whatever other programs do between the frames.     *)
THEOREM FramesAreHonest ==
  ConsoleSpec => []FramesHonest
<1>1. ConsoleInit => ConsoleInv
  BY ConsoleInvInit
<1>2. ConsoleInv /\ [ConsoleNext]_consoleVars => ConsoleInv'
  BY ConsoleInvNext
<1>3. ConsoleInv => FramesHonest
  BY ConsoleInvHonest
<1> QED
  BY <1>1, <1>2, <1>3, PTL DEF ConsoleSpec

(* A confirmation changes or removes only memories the prompt on the screen *)
(* named.                                                                   *)
THEOREM ConfirmationsAreMeant ==
  ConsoleSpec => ActsOnWhatWasShown
<1> DEFINE Meant == keys' # keys => \A i \in Present : rows'[i] # rows[i] => i \in named
<1>1. ConsoleInit => ConsoleInv
  BY ConsoleInvInit
<1>2. ConsoleInv /\ [ConsoleNext]_consoleVars => ConsoleInv'
  BY ConsoleInvNext
<1>3. ConsoleInv /\ [ConsoleNext]_consoleVars => [Meant]_consoleVars
  <2> SUFFICES ASSUME ConsoleInv, ConsoleNext, keys' # keys
               PROVE  \A i \in Present : rows'[i] # rows[i] => i \in named
    OBVIOUS
  <2>1. Key
    BY DEF ConsoleNext, Tick, Client, Writer, appVars
  <2> QED
    BY <2>1, ConsoleInvKey
<1> QED
  BY <1>1, <1>2, <1>3, PTL DEF ConsoleSpec, ActsOnWhatWasShown

(* Whatever is written, however a read cuts it, and whenever the file is    *)
(* rotated: as long as no rotation went unnoticed, the events reported are  *)
(* those of the lines read so far, each whole, once and in order, and only  *)
(* the latest stay on the screen.                                          *)
THEOREM StreamIsFaithful ==
  ConsoleSpec => []StreamSafe
<1>1. ConsoleInit => ConsoleInv
  BY ConsoleInvInit
<1>2. ConsoleInv /\ [ConsoleNext]_consoleVars => ConsoleInv'
  BY ConsoleInvNext
<1>3. ConsoleInv => StreamSafe
  BY StreamHolds DEF ConsoleInv, IsApp, Lives, LiveBound, StreamSafe
<1> QED
  BY <1>1, <1>2, <1>3, PTL DEF ConsoleSpec
====
