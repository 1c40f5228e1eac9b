---- MODULE MCCertification ----
(* Small instance of Certification. *)
EXTENDS Certification, TLC

CONSTANTS r1, r2, c1, h1, h2

TheKinds == r1 :> "recall" @@ r2 :> "recall" @@ c1 :> "harness"

\* One query that expects a memory first, one that forbids another.
TheCases == <<[expected |-> "e", rank |-> 1, forbidden |-> {}],
              [expected |-> Unnamed, rank |-> Unnamed, forbidden |-> {"f"}]>>

TheRecalls == {<<<<"e">>, <<"o">>>>, <<<<"o", "e">>, <<>>>>, <<<<"e">>, <<"o", "f">>>>}

Proven == [live |-> FALSE, installed |-> TRUE, state |-> "configured", manifest |-> "recorded",
           root |-> TRUE, version |-> TRUE, sameCapability |-> TRUE, recorded |-> "active",
           receipts |-> "valid", proven |-> "active"]

TheSights == {Proven, [Proven EXCEPT !.proven = "active_isolated"], [Proven EXCEPT !.root = FALSE]}

Newest == [run |-> 0, status |-> "fail", seen |-> "retired"]
TheIndexes == {Missing, Damaged,
               [cert |-> Missing, harness |-> h2 :> Newest, recall |-> Missing,
                missing |-> {"recall_quality"}, overall |-> "fail"]}

Memory(id, label, superseded) ==
  [id |-> id, ring |-> "cambium", tags |-> {}, ref |-> Blank, label |-> label, superseded |-> superseded,
   ephemeral |-> FALSE, evaluation |-> FALSE, valid |-> TRUE]

NoThresholds == [m \in Metrics |-> None]
Selects(id) == [id |-> id, ring |-> None, tag |-> None, ref |-> None]
Plain(category) ==
  [category |-> category, prompt |-> TRUE, seeds |-> <<>>, candidates |-> <<>>, expected |-> <<>>,
   forbidden |-> <<>>, decisions |-> <<>>, refs |-> {}, behavior |-> None, thresholds |-> NoThresholds]

Stale == [Plain("stale_truth_suppression") EXCEPT
            !.seeds = <<Memory("new", "normal", FALSE), Memory("old", "normal", FALSE)>>,
            !.expected = <<Selects("new")>>, !.forbidden = <<Selects("old")>>]

Spam == [Plain("spam_prevention") EXCEPT
           !.candidates = <<Memory("note", "normal", FALSE)>>,
           !.decisions = <<[id |-> "note", decision |-> "reject"]>>,
           !.thresholds = [NoThresholds EXCEPT !["spam"] = 0]]

Vacuous == [Stale EXCEPT !.category = "behavior_proof"]
\* What the agent of the workflow proof does, and what it is given to do.
Text == [json |-> FALSE, has |-> {"right"}]
Doc == [json |-> TRUE, has |-> {"right"}]
Wrong == [json |-> TRUE, has |-> {"wrong"}]
Out == <<"out", "plan">>
Folder == [kind |-> "directory", content |-> Nothing]
Leaves(kind, content) == <<"out">> :> Folder @@ Out :> [kind |-> kind, content |-> content]
Cites(ids) == [said |-> TRUE, used |-> ids]
TheMoves ==
  {[nodes |-> Leaves("file", Doc), ends |-> TRUE, answer |-> Cites(<<"m1">>)],
   [nodes |-> Leaves("file", Doc), ends |-> TRUE, answer |-> Cites(<<>>)],
   [nodes |-> Leaves("symlink", Doc), ends |-> TRUE, answer |-> Cites(<<>>)],
   [nodes |-> <<>>, ends |-> TRUE, answer |-> Cites(<<>>)],
   [nodes |-> Leaves("file", Wrong), ends |-> FALSE, answer |-> Cites(<<>>)],
   [nodes |-> Leaves("file", Doc), ends |-> TRUE, answer |-> Nothing]}

Seed(id, superseded) == [id |-> id, label |-> "normal", superseded |-> superseded, valid |-> TRUE]
Task(name) ==
  [name |-> name, task |-> "t", seeds |-> <<Seed("m1", FALSE), Seed("m2", TRUE)>>,
   files |-> <<[path |-> <<"notes">>, content |-> Text]>>,
   expected |-> <<[path |-> Out, contains |-> Nothing, fields |-> {"right"}]>>, answer |-> Nothing]

x == <<"x">>
x2 == <<"x", 2>>
Forestalled == [Task(x) EXCEPT !.answer = [said |-> TRUE, used |-> <<>>, by |-> Given]]
Nested == [Task(x) EXCEPT !.files = <<[path |-> <<"notes">>, content |-> Text], [path |-> <<"notes", "a">>, content |-> Text]>>]

NoProof == {[directory |-> <<>>, proofs |-> 0, moves |-> {}]}
TheCourses ==
  {[directory |-> <<Task(x)>>, proofs |-> 2, moves |-> TheMoves],
   [directory |-> <<Forestalled>>, proofs |-> 1, moves |-> TheMoves]} \cup
  {[directory |-> d, proofs |-> 1, moves |-> {m \in TheMoves : m.nodes = <<>>}] :
      d \in {<<Task(x), Task(x2), Task(x)>>, <<Task(x), NotAScenario>>, <<Nested>>, <<>>}}

Plan(n, m, k, ds) == [runs |-> n, metrics |-> m, looks |-> k, directories |-> ds, courses |-> NoProof]
ThePlans ==
  {Plan(3, 0, 0, {<<>>}), Plan(2, 0, 2, {<<>>}), Plan(1, 1, 2, {<<Stale>>}),
   Plan(0, 2, 0, {<<>>, <<Stale, Unparsable>>, <<Stale, Spam>>, <<Vacuous>>}),
   [Plan(0, 0, 0, {<<>>}) EXCEPT !.courses = TheCourses]}
====
