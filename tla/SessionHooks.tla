---- MODULE SessionHooks ----
(***************************************************************************)
(* The sessions of a harness and of its subagents, as the lifecycle hooks  *)
(* see them: a start hook puts a brief of the store into the context, and  *)
(* the first stop hook of a turn blocks, once, with a checkpoint at which  *)
(* the agent may capture up to three memories, in commands of its own that *)
(* can be lost and run again.  The harness and the agent are external: an  *)
(* agent follows the checkpoint's instructions, except that it may mix up  *)
(* its slots, its rings and what is sensitive.                             *)
(***************************************************************************)
EXTENDS Integers, FiniteSets, Sequences

CONSTANTS
  Agents, Parent,  \* agents, and for a subagent the agent that started it
  NoAgent,
  Project,         \* the name of the project directory, as [name, aliased |-> FALSE]
  SafeProjects,    \* names that need no alias
  Shelf,           \* memories the store may hold at the start
  Texts, Secrets,  \* what agents capture, Secrets being sensitive
  Limit,           \* memories in a brief
  Slots,           \* slots that agents give their captures
  Lives, Tries     \* bounds: sessions of each agent; captures and further turns in all

\* What the store holds at the start is from no checkpoint of these sessions.
ASSUME HooksAssumption ==
  Limit \in Nat /\ IsFiniteSet(Shelf) /\ \A m \in Shelf : m.op = NoAgent

VARIABLES
  turn,       \* of each agent: "off", "working", "blocked" or "idle"
  life,        \* of each agent: the session it is in
  active,      \* of each agent: stop_hook_active, as the harness will pass it
  checkpoint,  \* of each agent: the last checkpoint it was given
  tries,       \* captures and further turns so far
  context,     \* of each agent: the brief it started with
  memories,
  issued       \* history, per checkpoint: the identity it was issued for

hookVars == <<turn, life, active, checkpoint, tries, context, memories, issued>>

Normal == "normal"
Shared == {"global", "project", "tool", "eval", "manual", "dox", "revolve"}

\* normalized: an unsafe name is replaced by a fingerprint of it.
Alias(project) == IF project \in SafeProjects THEN project ELSE [project EXCEPT !.aliased = TRUE]

\* parse_lifecycle_hook: a session is its own workflow; a subagent belongs to
\* its parent's, with a profile and a session of its own.
Identity(a) ==
  IF Parent[a] = NoAgent
  THEN [profile |-> <<"harness">>, workflow |-> <<a, life[a]>>, session |-> <<a, life[a]>>]
  ELSE [profile |-> <<"harness", a, life[a]>>, workflow |-> <<Parent[a], life[Parent[a]]>>, session |-> <<a, life[a]>>]

HooksInit ==
  /\ turn = [a \in Agents |-> "off"]
  /\ life = [a \in Agents |-> 0]
  /\ active = [a \in Agents |-> FALSE]
  /\ checkpoint = [a \in Agents |-> 0]
  /\ tries = 0
  /\ context = [a \in Agents |-> {}]
  /\ memories \in SUBSET Shelf
  /\ issued = <<>>

----
(* The brief *)

\* Mutant of Visible: the alias is not looked for.
VisibleByName(m, who) ==
  /\ m.project = Project
  /\ m.sensitivity = Normal /\ m.live
  /\ \/ m.scope \in Shared
     \/ m.scope = "agent" /\ m.who.profile = who.profile
     \/ m.scope = "workflow" /\ m.who.workflow = who.workflow
     \/ m.scope = "session" /\ m.who.session = who.session

\* The predicates of session_candidates; live stands for not superseded, not
\* expired and not redacted.
Visible(m, who) ==
  /\ m.project \in {Project, Alias(Project)}
  /\ m.sensitivity = Normal /\ m.live
  /\ \/ m.scope \in Shared
     \/ m.scope = "agent" /\ m.who.profile = who.profile
     \/ m.scope = "workflow" /\ m.who.workflow = who.workflow
     \/ m.scope = "session" /\ m.who.session = who.session

\* The best of what is visible, as many as fit; the order is left open.
Briefs(who) ==
  LET seen == {m \in memories : Visible(m, who)} IN
  {best \in SUBSET seen : Cardinality(best) = IF Cardinality(seen) < Limit THEN Cardinality(seen) ELSE Limit}

\* SessionStart, or SubagentStart while the parent works; the session has a
\* new id, so that all the hooks of it share the identity computed here.
StartHook(a) ==
  /\ turn[a] = "off" /\ life[a] < Lives
  /\ Parent[a] # NoAgent => turn[Parent[a]] = "working"
  /\ life' = [life EXCEPT ![a] = @ + 1]
  /\ \E brief \in Briefs(Identity(a)') : context' = [context EXCEPT ![a] = brief]
  /\ turn' = [turn EXCEPT ![a] = "working"]
  /\ UNCHANGED <<active, checkpoint, tries, memories, issued>>

----
(* Stops and captures *)

\* Stop and SubagentStop, render_capture_checkpoint.
StopHook(a) ==
  /\ turn[a] = "working"
  /\ IF active[a]
     THEN /\ turn' = [turn EXCEPT ![a] = "idle"] /\ active' = [active EXCEPT ![a] = FALSE]
          /\ UNCHANGED <<checkpoint, issued>>
     ELSE /\ turn' = [turn EXCEPT ![a] = "blocked"]
          /\ issued' = Append(issued, Identity(a))
          /\ checkpoint' = [checkpoint EXCEPT ![a] = Len(issued) + 1]
          /\ UNCHANGED active
  /\ UNCHANGED <<life, tries, context, memories>>

\* The pairs of type and ring that capture accepts.
Pairings ==
  {"preference", "decision"} \X {"cambium"} \cup {"lesson", "correction"} \X {"cambium", "scar"}
    \cup {<<"warning", "scar">>, <<"seed", "seed">>}

Captured(c, slot, text, pair, who) ==
  [project |-> Alias(Project), scope |-> "agent", sensitivity |-> Normal, live |-> TRUE, who |-> who,
   text |-> text, pair |-> pair, op |-> <<c, slot>>]

\* tree-ring capture, whose answer may not arrive: an operation that is bound
\* answers with its memory, or refuses another one.
Capture(a, slot, text, pair) ==
  LET m == Captured(checkpoint[a], slot, text, pair, issued[checkpoint[a]])
      bound == {old \in memories : old.who = m.who /\ old.op = m.op} IN
  /\ turn[a] = "blocked" /\ tries < Tries
  /\ tries' = tries + 1
  /\ IF slot \in 1 .. 3 /\ pair \in Pairings /\ text \notin Secrets /\ bound = {}
     THEN memories' = memories \cup {m} ELSE UNCHANGED memories
  /\ UNCHANGED <<turn, life, active, checkpoint, context, issued>>

\* The agent finishes its response; the harness will say that it was blocked.
Resume(a) ==
  /\ turn[a] = "blocked"
  /\ turn' = [turn EXCEPT ![a] = "working"]
  /\ active' = [active EXCEPT ![a] = TRUE]
  /\ UNCHANGED <<life, checkpoint, tries, context, memories, issued>>

\* Another turn, or the end of the session; its subagents end with it.
Prompt(a) ==
  /\ turn[a] = "idle" /\ tries < Tries
  /\ turn' = [turn EXCEPT ![a] = "working"]
  /\ tries' = tries + 1
  /\ UNCHANGED <<life, active, checkpoint, context, memories, issued>>

End(a) ==
  /\ turn[a] \in {"working", "blocked", "idle"}
  /\ LET ended == {b \in Agents : b = a \/ Parent[b] = a} IN
       /\ turn' = [b \in Agents |-> IF b \in ended THEN "off" ELSE turn[b]]
       /\ active' = [b \in Agents |-> IF b \in ended THEN FALSE ELSE active[b]]
  /\ UNCHANGED <<life, checkpoint, tries, context, memories, issued>>

HooksNext ==
  \E a \in Agents :
    \/ StartHook(a) \/ Resume(a) \/ Prompt(a) \/ End(a)
    \/ StopHook(a)
    \/ \E slot \in Slots, text \in Texts, pair \in {<<"lesson", "scar">>, <<"seed", "seed">>, <<"decision", "heartwood">>} :
         Capture(a, slot, text, pair)

\* The agent ends its answer, and the harness then runs the hook.
HooksFairness == \A a \in Agents : WF_hookVars(Resume(a)) /\ WF_hookVars(StopHook(a))

----
(* Properties *)

Caught(c) == {m \in memories : m.op # NoAgent /\ m.op[1] = c}

(* remember.rs:88: however often its commands are lost and run again, with *)
(* whatever content, a checkpoint adds three memories at most, one for a   *)
(* slot, under the identity of the session that was asked.                 *)
CaptureBound ==
  \A c \in DOMAIN issued :
    /\ Cardinality(Caught(c)) = Cardinality({m.op : m \in Caught(c)})
    /\ \A m \in Caught(c) : m.who = issued[c] /\ m.op[2] \in 1 .. 3

(* What the agents of a harness captured is in the brief that the next     *)
(* session of it starts with, when a brief has room for the whole store:   *)
(* the hooks look for a project under the name they store it under.        *)
CapturesComeBack ==
  [][\A a \in Agents : life'[a] # life[a] /\ Cardinality(memories) <= Limit =>
       {m \in memories : m.op # NoAgent /\ m.who.profile = Identity(a)'.profile} \subseteq context'[a]]_hookVars

(* session_recall.rs: no brief has what a subagent captured, except its    *)
(* own, and a subagent's has nothing that its parent captured.             *)
ContextPrivate ==
  \A a \in Agents : \A m \in context[a] : m.op # NoAgent =>
    LET by == m.who.session[1] IN
    IF Parent[a] = NoAgent THEN Parent[by] = NoAgent ELSE m.who.session = Identity(a).session

(* lifecycle.rs, "active_stop_checkpoint_allows_completion_without_a_loop":*)
(* an agent that was blocked at its stop gets to finish.                   *)
StopsEnd == \A a \in Agents : turn[a] = "blocked" ~> turn[a] \in {"idle", "off"}

(* However sessions, subagents, stops and lost commands interleave, every  *)
(* checkpoint is answered at most once a slot and never blocks for good,   *)
(* and a brief has what its own agents captured and nobody else.           *)
SessionsServed == [](CaptureBound /\ ContextPrivate) /\ CapturesComeBack /\ StopsEnd
====
