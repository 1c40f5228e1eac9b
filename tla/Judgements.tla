---- MODULE Judgements ----
(***************************************************************************)
(* What the two kinds of producer of evidence judge.                       *)
(*                                                                         *)
(* The recall-quality diagnostic: each query of a fixed set is recalled    *)
(* over a private store of fixtures and judged by the memories returned.   *)
(* A case names the memory expected and the rank allowed, either of which  *)
(* it may leave out, and the memories that must not come back.             *)
(*                                                                         *)
(* How certify judges one harness, from what a scan of the machine, the    *)
(* activation manifest and the receipts show of it.  A sight is            *)
(*   [live, installed, state, capability: the scan's;                      *)
(*    manifest: "missing", "invalid", "unrecorded" (no entry for the       *)
(*              harness) or "recorded";                                    *)
(*    root, version, sameCapability: does the manifest's entry match;      *)
(*    recorded: the state of that entry;                                   *)
(*    receipts: "valid", "missing" or "invalid"; proven: the state the     *)
(*              newest matching receipt proves]                            *)
(***************************************************************************)
EXTENDS Naturals, Sequences, FiniteSets

CONSTANT Unnamed   \* an expectation a case leaves out

RankOf(id, returned) == CHOOSE k \in DOMAIN returned : returned[k] = id

\* What the expected memory alone says of a case.
ExpectedStatus(case, returned) ==
  IF case.expected = Unnamed THEN "pass"
  ELSE IF \A k \in DOMAIN returned : returned[k] # case.expected THEN "fail"
  ELSE IF case.rank # Unnamed /\ RankOf(case.expected, returned) > case.rank THEN "needs_review"
  ELSE "pass"

ForbiddenReturned(case, returned) == \E k \in DOMAIN returned : returned[k] \in case.forbidden

EvaluateQuery(case, returned) ==
  IF ForbiddenReturned(case, returned) THEN "fail" ELSE ExpectedStatus(case, returned)

\* summarize: the queries of each status; latencies are left out.
Summarize(statuses) ==
  [s \in {"pass", "fail", "needs_review"} |-> Cardinality({k \in DOMAIN statuses : statuses[k] = s})]

ReportStatus(summary) ==
  IF summary["fail"] > 0 THEN "fail"
  ELSE IF summary["needs_review"] > 0 THEN "needs_review"
  ELSE "pass"

\* run_recall_quality up to publication: recalled[k] is what query k returned.
RecallReport(cases, recalled) ==
  ReportStatus(Summarize([k \in DOMAIN cases |-> EvaluateQuery(cases[k], recalled[k])]))

----
ReceiptStates == {"active", "active_isolated"}

\* configured_state_without_receipt
WithoutReceipt(state) ==
  IF state \in ReceiptStates THEN "configured_awaiting_proof" ELSE state

Result(status, state) == [status |-> status, state |-> state]

\* Mutant of ReceiptResult: a receipt of a private store passes as well.
ReceiptResultAny(sight) ==
  IF sight.receipts = "valid" THEN Result("pass", sight.proven)
  ELSE IF sight.receipts = "missing" THEN Result("skip", WithoutReceipt(sight.recorded))
  ELSE Result("fail", "failed")

\* verify_activation_receipts and what is made of its answer.
ReceiptResult(sight) ==
  IF sight.receipts = "valid"
  THEN Result(IF sight.proven = "active" THEN "pass" ELSE "skip", sight.proven)
  ELSE IF sight.receipts = "missing" THEN Result("skip", WithoutReceipt(sight.recorded))
  ELSE Result("fail", "failed")

ContractMatches(sight) == sight.root /\ sight.version /\ sight.sameCapability

ProbeRecord(sight) ==
  IF sight.live /\ ~sight.installed THEN Result("skip", sight.state)
  ELSE IF sight.manifest \in {"missing", "unrecorded"} THEN Result("skip", WithoutReceipt(sight.state))
  ELSE IF sight.manifest = "invalid" \/ ~ContractMatches(sight) THEN Result("fail", "failed")
  ELSE IF sight.state = "unsupported" THEN Result("skip", "unsupported")
  ELSE ReceiptResult(sight)
====
