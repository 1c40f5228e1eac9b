---- MODULE Quality ----
(***************************************************************************)
(* Quality scenarios: what makes one valid, and how what was recalled for  *)
(* it is judged.  A scenario is                                            *)
(*   [category, prompt: is there one; seeds, candidates: memories;         *)
(*    expected, forbidden: selectors; decisions: [id, decision];           *)
(*    refs: the evidence it accepts; behavior: [required, changed, reached]*)
(*    or None; thresholds: per metric a percentage or None].               *)
(* A selector leaves a field out with None and may give it as Blank.       *)
(***************************************************************************)
EXTENDS Integers, Sequences, FiniteSets

CONSTANTS None, Blank

Metrics == {"constraint", "forbidden", "spam", "evidence", "behavior"}
Categories == {"constraint_recall", "spam_prevention", "stale_truth_suppression",
               "behavior_proof", "evidence_preservation"}

WriteDecisions == {"accept", "reject", "require_evidence", "require_user_confirmation"}

In(seq) == {seq[k] : k \in DOMAIN seq}

Unique(seq) == \A j, k \in DOMAIN seq : seq[j].id = seq[k].id => j = k

----
(* Selectors. *)

ExpectationMatches(sel, m) ==
  /\ sel.id \in {None, m.id}
  /\ sel.ring \in {None, m.ring}
  /\ sel.tag = None \/ sel.tag \in m.tags
  /\ sel.ref \in {None, m.ref}

\* RecallExpectation::validate: some field selects something.
Selective(sel) == {sel.id, sel.ring, sel.tag, sel.ref} \ {None, Blank} # {}

MatchingSeed(sel, memories) == \E m \in In(memories) : ExpectationMatches(sel, m)

----
(* Validation. *)

HasEvaluation(s) == \E c \in In(s.candidates) : c.evaluation

ExpectsReject(s) == \E d \in In(s.decisions) : d.decision = "reject"

\* metric_applicability: the metrics a scenario has observations of.
Applicable(s) ==
  {m \in Metrics : CASE m = "constraint" -> s.expected # <<>>
                     [] m = "forbidden" -> s.forbidden # <<>>
                     [] m = "spam" -> ExpectsReject(s)
                     [] m = "evidence" -> HasEvaluation(s)
                     [] m = "behavior" -> s.behavior # None}

Primary(category) ==
  CASE category = "constraint_recall" -> "constraint"
    [] category = "spam_prevention" -> "spam"
    [] category = "stale_truth_suppression" -> "forbidden"
    [] category = "behavior_proof" -> "behavior"
    [] category = "evidence_preservation" -> "evidence"

\* validate_write_decision_coverage: candidates and decisions, one to one.
DecisionsCover(s) ==
  /\ Unique(s.candidates) /\ Unique(s.decisions)
  /\ {d.id : d \in In(s.decisions)} = {c.id : c \in In(s.candidates)}

ThresholdsValid(s) ==
  \A m \in Metrics : s.thresholds[m] # None => s.thresholds[m] \in 0 .. 100 /\ m \in Applicable(s)

\* QualityScenario::validate; blank names and reasons are left out.
Valid(s) ==
  /\ s.category \in Categories /\ s.prompt
  /\ \A m \in In(s.seeds) \cup In(s.candidates) : m.valid
  /\ \A sel \in In(s.expected) : Selective(sel)
  /\ \A sel \in In(s.forbidden) : Selective(sel) /\ MatchingSeed(sel, s.seeds)
  /\ DecisionsCover(s) /\ \A d \in In(s.decisions) : d.decision \in WriteDecisions
  /\ Blank \notin s.refs
  /\ s.behavior # None => \E m \in In(s.seeds) : m.id = s.behavior.required
  /\ Primary(s.category) \in Applicable(s)
  /\ ThresholdsValid(s)

----
(* Judging. *)

\* classify_write_candidate
Classify(c, refs) ==
  IF c.label = "secret" \/ c.ephemeral \/ c.tags \cap {"transient", "planning-chatter", "scratchpad", "tool-noise"} # {}
  THEN "reject"
  ELSE IF c.evaluation /\ (c.ref = Blank \/ (refs # {} /\ c.ref \notin refs)) THEN "require_evidence"
  ELSE IF c.ring = "heartwood" /\ c.ref = Blank THEN "require_user_confirmation"
  ELSE "accept"

CandidateOf(d, s) == CHOOSE c \in In(s.candidates) : c.id = d.id

DecisionPasses(d, s) == Classify(CandidateOf(d, s), s.refs) = d.decision

BehaviorPasses(s, recalled) ==
  /\ \E m \in recalled : m.id = s.behavior.required
  /\ s.behavior.changed /\ s.behavior.reached

\* The observations of a metric, as how many of how many hold; an observation
\* is the place of its expectation or decision in the scenario.
Count(places, holding) == [held |-> Cardinality(places \cap holding), of |-> Cardinality(places)]

Returned(selectors, recalled) ==
  {k \in DOMAIN selectors : \E m \in recalled : ExpectationMatches(selectors[k], m)}

Observations(s, recalled) ==
  LET passed == {k \in DOMAIN s.decisions : DecisionPasses(s.decisions[k], s)}
  IN  [m \in Metrics |->
         CASE m = "constraint" -> Count(DOMAIN s.expected, Returned(s.expected, recalled))
           [] m = "forbidden" -> Count(DOMAIN s.forbidden, Returned(s.forbidden, recalled))
           [] m = "spam" -> Count({k \in DOMAIN s.decisions : s.decisions[k].decision = "reject"}, passed)
           [] m = "evidence" -> Count({k \in DOMAIN s.decisions : CandidateOf(s.decisions[k], s).evaluation}, passed)
           [] m = "behavior" -> IF s.behavior = None THEN [held |-> 0, of |-> 0]
                                ELSE [held |-> IF BehaviorPasses(s, recalled) THEN 1 ELSE 0, of |-> 1]]

\* The threshold in force: the configured one, else all or nothing.
Threshold(s, m) == IF s.thresholds[m] # None THEN s.thresholds[m] ELSE IF m = "forbidden" THEN 0 ELSE 100

\* minimum_met, maximum_met: 100 * rate against the threshold.
Met(s, m, n) ==
  m \in Applicable(s) \/ s.thresholds[m] # None =>
    /\ n.of > 0
    /\ IF m = "forbidden" THEN 100 * n.held <= Threshold(s, m) * n.of
       ELSE 100 * n.held >= Threshold(s, m) * n.of

\* evaluate_quality_scenario; recalled is the set of memories that came back.
EvaluateScenario(s, recalled) ==
  LET n == Observations(s, recalled)
  IN  [category |-> s.category, observed |-> n,
       pass |-> /\ \A d \in In(s.decisions) : DecisionPasses(d, s)
                /\ \A m \in Metrics : Met(s, m, n[m])]

\* summarize_quality_run: the rates are over all observations of all reports.
SummarizeRun(reports) ==
  [count |-> Len(reports),
   pass |-> Len(reports) > 0 /\ \A k \in DOMAIN reports : reports[k].pass]
====
