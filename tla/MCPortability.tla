---- MODULE MCPortability ----
(* Small instance of Portability over SourceSync and Consolidation: two    *)
(* notes of two agents, two roots that share the relative names of their   *)
(* files, and files from other stores and older versions.                  *)
EXTENDS Portability

CONSTANTS n1, n2, n3, a1, a2, pA, pB

Note(scope, agent, found) ==
  [NewMemory EXCEPT !.project = pA, !.scope = scope, !.by["agent"] = agent, !.found = found]

Section(slug, text, durable, found) == [slug |-> slug, text |-> text, durable |-> durable, found |-> found]
File(path, sections) == [path |-> path, bad |-> FALSE, sections |-> sections]
Record(words, found) == [path |-> "run", bad |-> FALSE, words |-> words, found |-> found]

Rules == Section("rules", "x", TRUE, "normal")

Tree(agents, recs) == [agents |-> agents, records |-> recs]
Heading == Section("hints", None, FALSE, "normal")
Secret == Section("keys", "z", FALSE, "secret")
TheTrees ==
  pA :> {Tree(<<File("AGENTS", <<Rules>>)>>, <<Record({"deferred"}, "normal")>>),
         Tree(<<File("AGENTS", <<Heading, Rules>>), File("sub/AGENTS", <<Rules, Secret>>)>>,
              <<Record({"promoted", "rejected"}, "normal")>>)}
  @@
  pB :> {Tree(<<File("AGENTS", <<Rules>>)>>, <<>>)}

\* A DOX memory written before fingerprints, by the local project or the other.
BeforeFingerprints == LET f == File("AGENTS", <<Rules>>) IN [DoxRow(pB, f, 1) EXCEPT !.root = None]

\* ... or a note from before the guard knew its secret.
TheBefore == {n1 :> Note("agent", a1, "normal") @@ r :
                r \in {<<>>, <<"dox", "AGENTS", "rules", 1>> :> BeforeFingerprints,
                        n2 :> Note("project", a2, "secret")}}

TheSubmissions == {[id |-> n2, row |-> Note("agent", a2, "normal")],
                   [id |-> n2, row |-> Note("project", a2, "health")]}

Line(id, row) == [id |-> id, row |-> row]
Says(row, verb) == [row EXCEPT !.says = [verb |-> verb, subject |-> "tabs", tags |-> {"style"}]]

\* Two agent memories without an agent.
Anonymous2 == <<Line(n2, Note("agent", None, "normal")), Line(n3, Note("agent", None, "normal"))>>
\* Replacements of a note, of a missing memory and of the writer itself; the
\* second line of n2 counts only when existing ids are replaced.
Rewrites ==
  <<Line(n2, [Says(Note("project", a1, "normal"), "use") EXCEPT !.supersedes = {n1, n3}]),
    Line(n2, [Note("project", a1, "health") EXCEPT !.supersedes = {n2}]),
    Line(n1, Says(Note("project", a1, "normal"), "avoid"))>>

\* A redaction, and a memory that one of another store has superseded.
Remains == <<Line(n1, Redacted(Note("agent", a1, "normal"))),
             Line(n2, [Note("project", a2, "normal") EXCEPT !.supersededBy = n3])>>

Asks(type, agent, force) ==
  [type |-> type, key |-> 1, project |-> None, by |-> [NewMemory.by EXCEPT !["agent"] = agent], force |-> force]

TheRequests == {Asks("daily", None, FALSE), Asks("daily", None, TRUE), Asks("daily", a1, FALSE)}
First == SummaryId(1, {n1})
Swaps == {<<n1, n2>>, <<n2, n1>>}

\* Consolidations of notes alone, syncs alone, a few of both, and files.
Instance(runs, forget, replace, syncs, n) ==
  [runs |-> runs, forget |-> forget, replace |-> replace, syncs |-> syncs, edits |-> n,
   files |-> {}, exports |-> FALSE]

TheBudgets ==
  {Instance(2, {First, n1}, {<<First, n1>>}, {}, 0),
   Instance(0, {<<"dox", "AGENTS", "rules", 1>>}, {}, {<<pA, TRUE>>, <<pA, FALSE>>, <<pB, TRUE>>}, 2),
   Instance(2, {First}, {<<First, n1>>}, {<<pA, TRUE>>}, 1),
   [Instance(1, {}, {}, {}, 0) EXCEPT !.files = {Anonymous2}],
   [Instance(1, {n1, n2}, Swaps, {}, 0) EXCEPT !.files = {Rewrites}],
   [Instance(0, {n1, n2}, Swaps, {}, 0) EXCEPT !.files = {Rewrites, Remains}, !.exports = TRUE],
   [Instance(0, {n1}, {<<<<"dox", "AGENTS", "rules", 1>>, n1>>}, {<<pA, TRUE>>}, 0) EXCEPT !.exports = TRUE]}
====
