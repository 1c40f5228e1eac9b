---- MODULE Workflow ----
(***************************************************************************)
(* Workflow scenarios: a task, the memories and files it starts from and   *)
(* the files it should end with.  A path is the sequence of its segments;  *)
(* Foreign stands for a segment that makes it absolute, gives a drive or   *)
(* holds a backslash.  A scenario is                                       *)
(*   [name, task: Empty or not; seeds: memories [id, label, superseded,    *)
(*    valid]; files: [path, content]; expected: [path, contains, fields]]. *)
(* Content is [json: does it parse; has: the texts or fields it holds].    *)
(* A workspace maps the paths in it to [kind, content, by].                *)
(***************************************************************************)
EXTENDS Naturals, Sequences

CONSTANTS Nothing, Empty, Foreign

Members(seq) == {seq[k] : k \in DOMAIN seq}

Distinct(seq) == \A j, k \in DOMAIN seq : seq[j] = seq[k] => j = k

\* canonical_workflow_path: a valid path is its own canonical form.
Canonical(path) == path # <<>> /\ \A k \in DOMAIN path : path[k] \notin {"", ".", "..", Foreign}

\* WorkflowFileExpectation::check_mode; a pointer that is none is Foreign.
CheckValid(e) ==
  \/ e.contains \notin {Nothing, Empty} /\ e.fields = Nothing
  \/ e.contains = Nothing /\ e.fields # Nothing /\ e.fields # {} /\ Foreign \notin e.fields

\* WorkflowScenario::validate
ValidScenario(s) ==
  /\ s.name # Empty /\ s.task # Empty
  /\ s.expected # <<>>
  /\ \A f \in Members(s.files) : Canonical(f.path)
  /\ Distinct([k \in DOMAIN s.files |-> s.files[k].path])
  /\ \A e \in Members(s.expected) : Canonical(e.path) /\ CheckValid(e)
  /\ Distinct(s.expected)
  /\ \A m \in Members(s.seeds) : m.id # Empty /\ m.valid
  /\ Distinct([k \in DOMAIN s.seeds |-> s.seeds[k].id])

\* WorkflowAgentResponse::validate
ResponseValid(answer) == answer.said /\ Empty \notin Members(answer.used) /\ Distinct(answer.used)

ProperPrefixes(path) == {SubSeq(path, 1, k) : k \in 1 .. Len(path) - 1}

\* read_regular_workspace_file: directories are walked and the file opened
\* without following links; a file with a second name is refused.
Readable(workspace, path) ==
  /\ path \in DOMAIN workspace /\ workspace[path].kind = "file"
  /\ \A d \in ProperPrefixes(path) : d \in DOMAIN workspace /\ workspace[d].kind = "directory"

\* evaluate_file_content
ContentPasses(e, content) ==
  IF e.fields = Nothing THEN e.contains \in content.has ELSE content.json /\ e.fields \subseteq content.has

\* evaluate_workspace
Satisfied(s, workspace) ==
  \A e \in Members(s.expected) :
    Readable(workspace, e.path) /\ ContentPasses(e, workspace[e.path].content)
====
