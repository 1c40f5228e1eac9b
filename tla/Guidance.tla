---- MODULE Guidance ----
(***************************************************************************)
(* The files init generates for agents, AGENTS.md, SKILL.md and CLI.md,    *)
(* and how a later init refreshes the sections it manages in them.  A text *)
(* is a sequence of blocks <<name, wording>>: a section heading with what  *)
(* follows it, as this program words it (Current) or otherwise.  A heading *)
(* or an anchor is looked for from the top.                                *)
(***************************************************************************)
EXTENDS Integers, Sequences, FiniteSets

CONSTANTS Missing, Current

Docs == {"AGENTS", "SKILL", "CLI"}

Worded(names) == [k \in 1 .. Len(names) |-> <<names[k], Current>>]

\* agent_contract, the bundled skill and CLI_REFERENCE: their sections in order.
AgentContract == Worded(<<"title", "runtime", "bridges", "policy", "capture", "gates", "dox">>)
SkillTemplate == Worded(<<"title", "runtime", "recall", "persistence", "activation", "capture", "gates", "rings",
                          "policy", "updates">>)

CliReference == Worded(<<"title", "runtime", "commands", "policy", "capture", "gates", "safety">>)
Template == [AGENTS |-> AgentContract, SKILL |-> SkillTemplate, CLI |-> CliReference]

\* is_generated_agents_file, is_generated_skill_file, is_generated_cli_file.
Generated(text) == text # <<>> /\ text[1][1] = "title"

\* Where a block of this name is found first, from a place on; 0 if nowhere.
Find(text, name, from) ==
  LET places == {k \in from .. Len(text) : text[k][1] = name} IN
  IF places = {} THEN 0 ELSE CHOOSE k \in places : \A j \in places : k <= j

\* managed_section_range: from the heading to the anchor after it; 0 if none.
ManagedEnd(text, heading, anchor) ==
  LET start == Find(text, heading, 1) IN IF start = 0 THEN 0 ELSE Find(text, anchor, start)

\* extract_section; the preflight section is no part of a template.
Section(doc, heading, anchor) ==
  IF heading = "preflight" THEN <<<<"preflight", Current>>>>
  ELSE SubSeq(Template[doc], Find(Template[doc], heading, 1), ManagedEnd(Template[doc], heading, anchor) - 1)

Spliced(text, start, end, section) ==
  SubSeq(text, 1, start - 1) \o section \o SubSeq(text, end, Len(text))

\* Mutant of Backfilled: a section that is there is left as it is.
BackfilledOnce(doc, text, heading, anchor) ==
  LET before == Find(text, anchor, 1) IN
  IF ~Generated(text) \/ before = 0 \/ Find(text, heading, 1) # 0 THEN text
  ELSE Spliced(text, before, before, Section(doc, heading, anchor))

\* maybe_backfill_generated_file: replaces the range, or inserts the section
\* before the anchor, or leaves a text that has neither.
Backfilled(doc, text, heading, anchor) ==
  LET section == Section(doc, heading, anchor)
      end == ManagedEnd(text, heading, anchor)
      before == Find(text, anchor, 1) IN
  IF ~Generated(text) THEN text
  ELSE IF end # 0 THEN Spliced(text, Find(text, heading, 1), end, section)
  ELSE IF before # 0 THEN Spliced(text, before, before, section)
  ELSE text

\* Which sections ensure_agent_awareness refreshes, in its order; the first
\* three steps also create the file.
Steps ==
  <<<<"AGENTS", "gates", "dox">>, <<"SKILL", "gates", "rings">>, <<"CLI", "gates", "safety">>,
    <<"AGENTS", "runtime", "bridges">>, <<"SKILL", "runtime", "recall">>, <<"SKILL", "persistence", "activation">>,
    <<"CLI", "runtime", "commands">>, <<"AGENTS", "policy", "gates">>, <<"SKILL", "policy", "updates">>,
    <<"CLI", "policy", "gates">>, <<"AGENTS", "capture", "gates">>, <<"AGENTS", "preflight", "gates">>,
    <<"SKILL", "capture", "gates">>, <<"CLI", "capture", "gates">>, <<"SKILL", "preflight", "gates">>,
    <<"CLI", "preflight", "gates">>>>

\* What a step makes of the file it found.
Refreshed(step, text) ==
  IF text = Missing THEN Template[step[1]] ELSE Backfilled(step[1], text, step[2], step[3])

\* All the steps of a run on one file that nobody else touches.
Settled(doc, text) ==
  LET own == SelectSeq(Steps, LAMBDA s : s[1] = doc)
      after[k \in 0 .. Len(own)] == IF k = 0 THEN text ELSE Refreshed(own[k], after[k - 1]) IN
  after[Len(own)]
====
