---- MODULE QualityRun ----
(***************************************************************************)
(* The quality run of a directory of scenario files: each file is parsed,  *)
(* its memories are written to a private store, the prompt is recalled and *)
(* the scenario judged; the first failure ends the run with a report that  *)
(* says so.  The report is written, read back and compared before the run  *)
(* may succeed.                                                            *)
(***************************************************************************)
EXTENDS Quality

CONSTANT Unparsable   \* a file that is no scenario

VARIABLES
  scenarios,   \* the files of the directory
  reports,     \* the scenarios judged so far
  phase,       \* "idle", "running", "written", "passed", "failed"
  stored       \* quality-report.json: [pass, count, errors], or None when unusable

qualityVars == <<scenarios, reports, phase, stored>>

\* directory: its scenario files in order, each a scenario or Unparsable.
QualityInit(directory) ==
  /\ scenarios = directory
  /\ reports = <<>>
  /\ phase = "idle"
  /\ stored = None

\* What recall without sensitive and superseded memories may return: it ranks
\* by relevance, so any of the others; a seed written twice is one memory.
Recallable(s) == {m \in In(s.seeds) : m.label = "normal" /\ ~m.superseded}

Report(summary, errors) == [pass |-> summary.pass /\ errors = 0, count |-> summary.count, errors |-> errors]

\* write_reports: a failure leaves the old file, a torn one or, when only the
\* summary could not be written, the new one.
Write(report) ==
  \/ stored' = report /\ phase' = "written"
  \/ stored' \in {stored, None, report} /\ phase' = "failed"

\* The script removes the output of the previous run; a failure to make the
\* directory ends the run.
StartQuality ==
  /\ phase = "idle"
  /\ stored' = None
  /\ phase' \in {"running", "failed"}
  /\ reports' = <<>>
  /\ UNCHANGED scenarios

\* write_failed_report: the directory or a file cannot be read, a scenario is
\* refused, or its store cannot be opened, seeded or recalled from.
FailRun ==
  /\ phase = "running"
  /\ Write(Report(SummarizeRun(reports), 1))
  /\ UNCHANGED <<scenarios, reports>>

RunScenario ==
  /\ phase = "running"
  /\ Len(reports) < Len(scenarios)
  /\ LET s == scenarios[Len(reports) + 1]
     IN  /\ s # Unparsable /\ Valid(s)
         /\ \E recalled \in SUBSET Recallable(s) : reports' = Append(reports, EvaluateScenario(s, recalled))
  /\ UNCHANGED <<scenarios, phase, stored>>

\* All files are judged; an empty directory is an error.
FinishRun ==
  /\ phase = "running"
  /\ Len(reports) = Len(scenarios)
  /\ Write(Report(SummarizeRun(reports), IF scenarios = <<>> THEN 1 ELSE 0))
  /\ UNCHANGED <<scenarios, reports>>

\* verify_persisted_quality_report: read back, compared, and passing.
VerifyReport ==
  /\ phase = "written"
  /\ phase' \in {IF stored.pass THEN "passed" ELSE "failed", "failed"}
  /\ UNCHANGED <<scenarios, reports, stored>>

QualityStep == StartQuality \/ RunScenario \/ FailRun \/ FinishRun \/ VerifyReport

----
(* A run that succeeds has judged every file of its directory, at least    *)
(* one; every scenario passed, and each by observing what its category is  *)
(* about: a scenario that observes nothing of it never counts as a pass.   *)
PassIsNeverVacuous ==
  phase = "passed" =>
    /\ Len(reports) = Len(scenarios) /\ reports # <<>>
    /\ \A k \in DOMAIN reports :
         /\ reports[k].category = scenarios[k].category
         /\ reports[k].observed[Primary(reports[k].category)].of > 0
         /\ reports[k].pass

(* Unless a scenario grants itself a tolerance, no candidate that should   *)
(* have been rejected was let through and no stale memory came back in a   *)
(* run that succeeds.                                                      *)
StaleAndSpamStayOut ==
  phase = "passed" =>
    \A k \in DOMAIN reports :
      LET n == reports[k].observed
      IN  /\ scenarios[k].thresholds["forbidden"] = None => n["forbidden"].held = 0
          /\ n["spam"].held = n["spam"].of
          /\ n["evidence"].held = n["evidence"].of
====
