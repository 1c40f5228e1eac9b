---- MODULE Certification ----
(***************************************************************************)
(* scripts/certify-tree-ring.sh beside everything else that uses its       *)
(* output directory: the script runs the quality scenarios, replaces       *)
(* metrics.json when they pass, and then runs the two producers, which     *)
(* other people run at the same time.  The workflow proof runs apart from  *)
(* them, over an output directory of its own.                              *)
(***************************************************************************)
EXTENDS EvidenceIndex, QualityRun, WorkflowProof

\* The fixtures of a workflow proof are a list, the name of each a sequence.
IsCourse(c) ==
  /\ IsList(c.directory)
  /\ \A k \in DOMAIN c.directory :
       c.directory[k] = NotAScenario \/
         LET name == c.directory[k].name IN Len(name) \in Nat /\ name = [n \in 1 .. Len(name) |-> name[n]]

\* A directory of scenarios is a list; Missing is no record of metrics either.
ASSUME CertificationAssumption ==
  /\ \A p \in Plans : \A directory \in p.directories :
       /\ IsList(directory)
       /\ \A k \in DOMAIN directory : directory[k] = Unparsable \/ IsList(directory[k].forbidden)
  /\ \A p \in Plans : \A c \in p.courses : IsCourse(c)
  /\ Missing \notin [run : Nat, status : {"pass"}, seen : [pass : {TRUE}, count : Nat, errors : {0}]]

vars == <<evidenceVars, qualityVars, proofVars>>

Init ==
  /\ EvidenceInit
  /\ \E directory \in plan.directories : QualityInit(directory)
  /\ ProofInit(plan.courses)

Quality == QualityStep /\ plan.metrics > 0 /\ UNCHANGED <<evidenceVars, proofVars>>

PublishMetrics ==
  /\ phase = "passed"
  /\ ReplaceMetrics(stored)
  /\ phase' = "idle"
  /\ UNCHANGED <<scenarios, reports, stored, proofVars>>

\* The script is run again after a failure.
RunScriptAgain ==
  /\ phase = "failed"
  /\ metrics < plan.metrics
  /\ phase' = "idle"
  /\ UNCHANGED <<scenarios, reports, stored, evidenceVars, proofVars>>

Next ==
  \/ EvidenceStep /\ UNCHANGED <<qualityVars, proofVars>>
  \/ ProofStep /\ UNCHANGED <<evidenceVars, qualityVars>>
  \/ Quality \/ PublishMetrics \/ RunScriptAgain

(* A producer that is not killed goes on; runs, crashes, the script and    *)
(* the console are not fair.                                               *)
Spec == Init /\ [][Next]_vars
             /\ \A p \in Producers : WF_vars((TakeLock(p) \/ WritePayload(p) \/ WriteIndex(p)) /\ UNCHANGED <<qualityVars, proofVars>>)

----
(* The index certifies only what a quality run that passed stands behind.  *)
CertificationEarned ==
  Known(index) /\ index.cert # Missing => index.cert.seen.pass /\ index.cert.seen.errors = 0

(* Nothing is certified that was not observed to hold: not by a harness,   *)
(* a recall, a quality scenario or the script that publishes its report.   *)
PassesAreEarned == PassIsEarned /\ CertificationEarned /\ PassIsNeverVacuous /\ StaleAndSpamStayOut
====
