---- MODULE WorkflowProof ----
(***************************************************************************)
(* The workflow proof: an agent is given every scenario of a directory     *)
(* three times, with no memory, with the raw memories and with what Tree   *)
(* Ring recalls, each time in a workspace of its own, and the files it     *)
(* leaves are judged.  An error of the runner ends the run and leaves the  *)
(* report of an earlier run in place.                                      *)
(***************************************************************************)
EXTENDS Workflow, FiniteSets

CONSTANT NotAScenario   \* a file that does not parse

VARIABLES
  course,      \* [directory: the fixtures in order; proofs: bound of the runs;
               \* moves: what the agent may do: [nodes: what it makes of paths,
               \* ends: does it succeed, answer: its response or Nothing]]
  attempt,     \* how many runs were started
  proving,     \* "idle", "running", "proved", "failed"
  done,        \* the scenarios reported in this run: [id, trials]
  now,         \* the scenario under way: [id, trials, context, response, stage], or Nothing
  workspaces,  \* per <<id, arm>>: [files, answer: the response file]
  published    \* workflow-proof-report.json

proofVars == <<course, attempt, proving, done, now, workspaces, published>>

Arms == <<"no_memory", "raw_memory", "tree_ring">>

ProofInit(courses) ==
  /\ course \in courses
  /\ attempt = 0
  /\ proving = "idle"
  /\ done = <<>>
  /\ now = Nothing
  /\ workspaces = <<>>
  /\ published = Nothing

----
Scenario(k) == course.directory[k]
Current == Scenario(Len(done) + 1)
Arm == Arms[Len(now.trials) + 1]
Place == <<now.id, Arm>>

Used == {done[k].id : k \in DOMAIN done}

\* unique_scenario_id: the name, or the first free of name-2, name-3, ...
UniqueId(name, used) ==
  LET Untaken(n) == (IF n = 1 THEN name ELSE Append(name, n)) \notin used
      n == CHOOSE i \in 1 .. Cardinality(used) + 1 : Untaken(i) /\ \A j \in 1 .. i - 1 : ~Untaken(j)
  IN  IF n = 1 THEN name ELSE Append(name, n)

\* visible_seed_memories; recall hides the same ones.
Visible(s) == {m.id : m \in {x \in Members(s.seeds) : x.label = "normal" /\ ~x.superseded}}

\* A file cannot be where another needs a directory.
Materializable(s) ==
  \A f, g \in Members(s.files) : f.path \notin ProperPrefixes(g.path)

\* Whose a file is: the scenario's, or <<run, trial>>.
Given == <<0, <<>>>>

Fresh(s) ==
  [files |-> [path \in UNION {{f.path} \cup ProperPrefixes(f.path) : f \in Members(s.files)} |->
                IF \E f \in Members(s.files) : f.path = path
                THEN [kind |-> "file", by |-> Given,
                      content |-> (CHOOSE f \in Members(s.files) : f.path = path).content]
                ELSE [kind |-> "directory", by |-> Given, content |-> Nothing]],
   answer |-> s.answer]

Put(f, x, v) == [y \in DOMAIN f \cup {x} |-> IF y = x THEN v ELSE f[y]]

----
\* The output directory; an empty fixture directory is an error.
StartProof ==
  /\ proving # "running"
  /\ attempt < course.proofs
  /\ attempt' = attempt + 1
  /\ done' = <<>> /\ now' = Nothing
  /\ proving' \in (IF course.directory = <<>> THEN {"failed"} ELSE {"running", "failed"})
  /\ UNCHANGED <<course, workspaces, published>>

Begin ==
  /\ proving = "running" /\ now = Nothing
  /\ Len(done) < Len(course.directory)
  /\ IF Current = NotAScenario \/ ~ValidScenario(Current)
     THEN proving' = "failed" /\ UNCHANGED now
     ELSE now' = [id |-> UniqueId(Current.name, Used), trials |-> <<>>, context |-> {}, response |-> Nothing, stage |-> "prepare"]
          /\ UNCHANGED proving
  /\ UNCHANGED <<course, attempt, done, workspaces, published>>

\* The context of the arm; recall may choose among the memories or fail.
Contexts == CASE Arm = "no_memory" -> {{}}
              [] Arm = "raw_memory" -> {Visible(Current)}
              [] Arm = "tree_ring" -> (SUBSET Visible(Current)) \cup {Nothing}

\* materialize_workspace; when it fails part of the old or new files are there.
Materialize ==
  /\ proving = "running" /\ now # Nothing /\ now.stage = "prepare"
  /\ \/ /\ Materializable(Current)
        /\ \E context \in Contexts : now' = [now EXCEPT !.context = context, !.stage = "execute"]
        /\ workspaces' = Put(workspaces, Place, Fresh(Current))
        /\ UNCHANGED proving
     \/ /\ proving' = "failed"
        /\ \/ UNCHANGED workspaces
           \/ workspaces' = Put(workspaces, Place, [files |-> <<>>, answer |-> Nothing])
        /\ UNCHANGED now
  /\ UNCHANGED <<course, attempt, done, published>>

\* What execute does before it runs the agent: an old response is removed.
Prepared(workspace) == [workspace EXCEPT !.answer = Nothing]

\* What the agent leaves; all it writes is marked as of this trial.
After(workspace, move) ==
  LET tag == <<attempt, Place>>
  IN  [files |-> [path \in DOMAIN workspace.files \cup DOMAIN move.nodes |->
                    IF path \in DOMAIN move.nodes
                    THEN [kind |-> move.nodes[path].kind, content |-> move.nodes[path].content, by |-> tag]
                    ELSE workspace.files[path]],
       answer |-> IF move.answer = Nothing THEN workspace.answer
                  ELSE [said |-> move.answer.said, used |-> move.answer.used, by |-> tag]]

\* CodexWorkflowAgent::execute: a failed agent, a missing response and one that
\* is not valid are errors.  Without a context the agent is not run at all.
Execute ==
  /\ proving = "running" /\ now # Nothing /\ now.stage = "execute"
  /\ \/ /\ now.context = Nothing
        /\ now' = [now EXCEPT !.stage = "judge", !.response = Nothing, !.context = {}]
        /\ UNCHANGED workspaces
     \/ /\ now.context # Nothing
        /\ \E move \in course.moves :
             LET left == After(Prepared(workspaces[Place]), move)
             IN  /\ workspaces' = [workspaces EXCEPT ![Place] = left]
                 /\ now' = [now EXCEPT !.stage = "judge",
                                       !.response = IF move.ends /\ left.answer # Nothing /\ ResponseValid(left.answer)
                                                    THEN left.answer ELSE Nothing]
  /\ UNCHANGED <<course, attempt, proving, done, published>>

\* Nothing but the given memories may be cited.
Erred == now.response = Nothing \/ ~(Members(now.response.used) \subseteq now.context)

Status == IF Erred THEN "error" ELSE IF Satisfied(Current, workspaces[Place].files) THEN "pass" ELSE "fail"

\* The rest of run_trial; after the third the scenario is reported.
Judge ==
  /\ proving = "running" /\ now # Nothing /\ now.stage = "judge"
  /\ LET trials == Append(now.trials, [context |-> now.context, response |-> now.response, status |-> Status])
     IN  IF Len(trials) < Len(Arms)
         THEN now' = [now EXCEPT !.trials = trials, !.stage = "prepare"] /\ UNCHANGED done
         ELSE done' = Append(done, [id |-> now.id, trials |-> trials]) /\ now' = Nothing
  /\ UNCHANGED <<course, attempt, proving, workspaces, published>>

StatusFor(report, arm) == report.trials[CHOOSE k \in DOMAIN Arms : Arms[k] = arm].status

\* Mutant of ObservedWin: a control that erred counts as beaten.
ObservedWinOverErrors(report, control) ==
  StatusFor(report, "tree_ring") = "pass" /\ StatusFor(report, control) # "pass"

ObservedWin(report, control) ==
  StatusFor(report, "tree_ring") = "pass" /\ StatusFor(report, control) = "fail"

\* summarize
ProofReport ==
  [scenarios |-> Len(done),
   wins |-> [c \in {"no_memory", "raw_memory"} |-> Cardinality({k \in DOMAIN done : ObservedWin(done[k], c)})],
   complete |-> done # <<>> /\ \A k \in DOMAIN done : StatusFor(done[k], "tree_ring") = "pass"]

\* write_reports: a failure leaves the old report, a torn one or the new one.
Publish ==
  /\ proving = "running" /\ now = Nothing
  /\ Len(done) = Len(course.directory)
  /\ \/ published' = ProofReport /\ proving' = "proved"
     \/ published' \in {published, Nothing, ProofReport} /\ proving' = "failed"
  /\ UNCHANGED <<course, attempt, done, now, workspaces>>

ProofStep == StartProof \/ Begin \/ Materialize \/ Execute \/ Judge \/ Publish

----
(* Properties. *)

Trial(k, a) ==
  [id |-> done[k].id, arm |-> Arms[a], files |-> workspaces[<<done[k].id, Arms[a]>>].files,
   context |-> done[k].trials[a].context, response |-> done[k].trials[a].response]

Trials == (DOMAIN done) \X (DOMAIN Arms)

(* run_trial, unique_scenario_id, materialize_workspace: no trial finds     *)
(* what another left: each has a workspace of its own, and all in it comes *)
(* from its scenario or from its own agent in this run.                    *)
TrialsApart ==
  /\ \A j, k \in DOMAIN done : done[j].id = done[k].id => j = k
  /\ \A t \in Trials :
       LET trial == Trial(t[1], t[2])
       IN  \A path \in DOMAIN trial.files :
             trial.files[path].by \in {Given, <<attempt, <<trial.id, trial.arm>>>>}

(* What counts is what the files show: a win is a scenario in which the    *)
(* agent answered in both arms, citing only what it was given, and left    *)
(* the expected files with Tree Ring and not without; and the proof is     *)
(* complete only if it did so in every scenario of the directory.          *)
WinsAreObserved ==
  proving = "proved" =>
    LET Answers(k, a) == /\ Trial(k, a).response # Nothing
                         /\ Members(Trial(k, a).response.used) \subseteq Trial(k, a).context
        Shows(k, a) == Satisfied(Scenario(k), Trial(k, a).files)
    IN  /\ published.complete => \A k \in DOMAIN course.directory : Answers(k, 3) /\ Shows(k, 3)
        /\ \A a \in {1, 2} :
             published.wins[Arms[a]] =
               Cardinality({k \in DOMAIN course.directory : Answers(k, 3) /\ Shows(k, 3) /\ Answers(k, a) /\ ~Shows(k, a)})

(* A response that is reported was given in the trial it is reported for,  *)
(* and no arm was told of superseded or sensitive memories.                *)
AnswersAreFresh ==
  \A t \in Trials :
    LET trial == Trial(t[1], t[2])
    IN  /\ trial.response # Nothing => trial.response.by = <<attempt, <<trial.id, trial.arm>>>>
        /\ \A m \in Members(Scenario(t[1]).seeds) : m.id \in trial.context => m.label = "normal" /\ ~m.superseded

(* A workflow proof counts what its own agents showed in their own trials. *)
ProofsObserved == TrialsApart /\ WinsAreObserved /\ AnswersAreFresh
====
