---- MODULE MCCommandLine ----
(* Small instance of CommandLine. *)
EXTENDS CommandLine

CONSTANTS i1, i2, old, cur1, cur2, new, reader, a, b, u1, u2, lead, helper, outcome1, secret

-----------------------------------------------------------------------------
(* Programs over one store *)

Builds == old :> 2 @@ cur1 :> 3 @@ cur2 :> 3 @@ new :> 4 @@ reader :> 3

\* A new file, a version 2 store, and one with a row nobody can decode.
File(version, r1, r2) == [version |-> version, fence |-> 0, rows |-> i1 :> r1 @@ i2 :> r2, tombs |-> {}]
Files == {File(0, NoRow, NoRow), File(2, "bare", "scrubbed"), File(2, "broken", "bare")}

\* Openings of any programs, or one program that recalls.
TheBudgets == {[opens |-> 5, recalls |-> FALSE], [opens |-> 0, recalls |-> TRUE]}

-----------------------------------------------------------------------------
(* Projects *)

Usual == [d \in Docs |-> Settled(d, Missing)]
With(d, text) == [Usual EXCEPT ![d] = text]
Without(d, names) == SelectSeq(Usual[d], LAMBDA block : block[1] \notin names)

NoEnv == [project |-> {}, home |-> {}, plugin |-> None]
Quiet == [docs |-> Usual, store |-> 3, manifest |-> None, taken |-> {}, env |-> {NoEnv}, inits |-> {a, b}, overlap |-> FALSE,
          edits |-> 0, runs |-> 0, editable |-> {}, places |-> {}, plugins |-> {}]

Plugin(version, yaml, enabled) == [outside |-> TRUE, contract |-> <<version, "0.15.12">>, yaml |-> yaml, enabled |-> enabled]
Plugins == {None, Plugin("3.4.2", "3.4.2", TRUE), Plugin("3.4.2", "3.4.1", TRUE), Plugin("3.4.2", "3.4.2", FALSE),
            [Plugin("3.4.2", "3.4.2", TRUE) EXCEPT !.outside = FALSE]}

\* Two runs and an edit; one run and edits before, in and after it.
Guidances ==
  {[Quiet EXCEPT !.docs = With("AGENTS", Without("AGENTS", {"capture", "preflight"})), !.overlap = TRUE, !.edits = 1,
                 !.editable = {"AGENTS"}, !.places = {2, 5}]}
  \cup
  {[Quiet EXCEPT !.docs = texts, !.inits = {a}, !.edits = 2, !.editable = {d}, !.places = {1, 4, 8}] :
     <<d, texts>> \in {<<"SKILL", [d \in Docs |-> Missing]>>, <<"CLI", With("CLI", Without("CLI", {"policy"}))>>}}

Projects ==
  \* two first runs of init
  {[Quiet EXCEPT !.overlap = TRUE, !.store = 0, !.env = {[NoEnv EXCEPT !.project = {".codex", ".pi"}]}]}
  \cup \* what is there already, and commands meanwhile
  {[Quiet EXCEPT !.inits = {a}, !.store = version, !.taken = there, !.runs = 1,
                 !.env = {[NoEnv EXCEPT !.project = found, !.home = {"goose"}] :
                            found \in {{}, {".codex", ".pi"}, {".codex", ".claude", "CLAUDE.md"}}}] :
     version \in {0, 2, 4},
     there \in {{}, {"AGENTS.md"}, {".claude/settings.json"}, {".tree-ring/activation/agent-zero.json"}}}
  \cup \* a plugin that comes and goes
  {[Quiet EXCEPT !.inits = {a}, !.edits = 2, !.plugins = Plugins, !.env = {[NoEnv EXCEPT !.home = {"pi"}]}]}

TheSetups == Guidances \cup Projects

-----------------------------------------------------------------------------
(* Sessions *)

TheProject == [name |-> "demo", aliased |-> FALSE]
Parents == lead :> NoAgent @@ helper :> lead
TheShelf ==
  {[project |-> TheProject, scope |-> "project", sensitivity |-> Normal, live |-> TRUE, text |-> outcome1,
    who |-> [profile |-> <<>>, workflow |-> <<>>, session |-> <<>>], pair |-> <<"lesson", "scar">>, op |-> NoAgent]}

-----------------------------------------------------------------------------
(* Recalls *)

Kept(indexed, text, ring, label, salience) ==
  [indexed |-> indexed, text |-> text, ring |-> ring, label |-> label, salience |-> salience, live |-> TRUE,
   project |-> "demo", agent |-> None, workflow |-> None, session |-> None, scope |-> "project", kind |-> "lesson",
   confidence |-> 50, age |-> "month", source |-> "manual"]

\* "art" is part of "start"; "ref" is in a source reference only.
Start1 == Kept({"start", "cache"}, {"start", "art", "cache"}, "scar", "normal", 20)
Art == Kept({"art", "ref"}, {"art"}, "cambium", "normal", 90)
Bug == Kept({"bug", "cache", "ref"}, {"bug", "cache"}, "scar", "normal", 50)
Cache == Kept({"cache"}, {"cache"}, "heartwood", "normal", 60)
Diagnosis == Kept({"bug", "art"}, {"bug", "art"}, "outer", "health", 99)
Replaced == [Cache EXCEPT !.live = FALSE, !.salience = 95]
Foreign == [Cache EXCEPT !.project = "other", !.age = "today"]

TheTables == SUBSET {Start1, Art, Bug, Cache, Diagnosis, Replaced, Foreign}

Wide == [project |-> Anything, agent |-> Anything, workflow |-> Anything, session |-> Anything, scope |-> Anything,
         rings |-> Anything, kinds |-> Anything, sensitive |-> FALSE, superseded |-> FALSE, limit |-> 1]

TheAsked ==
  {<<"cache">>, <<"the", "cache", "bug">>, <<"art", "ref">>, <<"rule", "cache">>, <<"the">>, <<"bug", "art", "rule">>}
    \X {Wide, [Wide EXCEPT !.project = "demo", !.limit = 2], [Wide EXCEPT !.sensitive = TRUE, !.rings = {"outer", "scar"}],
        [Wide EXCEPT !.superseded = TRUE, !.scope = "project", !.limit = 2]}

-----------------------------------------------------------------------------
(* Briefs *)

Spaced(text) == [text |-> text, kind |-> "spaced"]
Odd(text) == [text |-> text, kind |-> "odd"]
Secretive(text) == [text |-> text, kind |-> "secret"]
NoFlags == [field \in {} |-> None]
There == Plain("inside")

Stdin(harness, format, input) ==
  [command |-> "stdin", harness |-> harness, format |-> format, flags |-> NoFlags, input |-> input, buried |-> {}]

Claude(session) == Stdin("claude-code", "claude-session-start", [session_id |-> session, cwd |-> There])
Flags(session) ==
  [command |-> "flags", harness |-> "codex", format |-> "json",
   flags |-> [agent_profile |-> Plain("codex"), workflow_id |-> Plain("w"), session_id |-> session]]

Hooked(event, input) == [command |-> "hook", harness |-> "codex", event |-> event, input |-> input]
Pi(hint) ==
  Stdin("pi", "pi-before-agent-start",
        [agent_profile |-> Plain("pi"), workflow_id |-> Plain("w"), session_id |-> Odd("s1"), task_hint |-> hint])

Names == {Plain("s1"), Spaced("s1"), Odd("s1"), Odd("s2"), Secretive("s3")}
Subagent(agent) == [session_id |-> Plain("s1"), cwd |-> There, agent_id |-> agent, agent_type |-> Plain("reviewer")]

TheRequests ==
  {Claude(session) : session \in Names} \cup {Flags(session) : session \in Names}
  \cup {Hooked("SessionStart", [session_id |-> session, cwd |-> There]) : session \in Names}
  \cup {Hooked("SubagentStart", Subagent(agent)) : agent \in {Plain("s1"), Odd("s2")}}
  \cup {Pi(Plain(<<"cache", "bug">>)), Pi(Plain(<<"cache">>)), Pi(Secretive(<<"token">>)), [Pi(Plain(<<>>)) EXCEPT !.harness = "codex"],
        [Claude(Plain("s1")) EXCEPT !.buried = {"token"}],
        [command |-> "launch", input |-> NoFlags], [command |-> "launch", input |-> [task_hint |-> Plain(<<"bug">>)]],
        Stdin("claude-code", "claude-session-start",
              [session_id |-> Plain("s1"), cwd |-> There, task_hint |-> Plain(<<"cache">>)]),
        Hooked("SessionStart", [session_id |-> Plain("s1"), cwd |-> There, task_hint |-> Plain(<<"cache">>)])}

Note(id, scope, from, line, says, ring, salience) ==
  [id |-> id, scope |-> scope, who |-> Identified(from), by |-> RawSession(from), line |-> line, says |-> says,
   ring |-> ring, salience |-> salience, project |-> TheProject, sensitivity |-> Normal, live |-> TRUE,
   indexed |-> {"cache"}, text |-> {"cache"}, confidence |-> 50, age |-> "month", source |-> "manual",
   agent |-> None, workflow |-> None, session |-> None]

TheShelves ==
  SUBSET {Note(1, "session", Claude(Odd("s1")), 2, "plain", "cambium", 90),
          Note(2, "session", Hooked("SessionStart", [session_id |-> Odd("s2"), cwd |-> There]), 1, "plain", "cambium", 40),
          Note(3, "session", Hooked("SubagentStart", Subagent(Odd("s2"))), 1, "plain", "scar", 10),
          Note(4, "project", Flags(Plain("s1")), 3, "plain", "outer", 99),
          Note(5, "project", Flags(Plain("s1")), 1, "secret", "heartwood", 80),
          [Note(6, "agent", Pi(Plain(<<"cache">>)), 2, "plain", "outer", 20) EXCEPT !.indexed = {"bug"}, !.text = {"bug"}],
          Note(7, "workflow", Flags(Odd("s1")), 1, "plain", "heartwood", 5)}
====
