---- MODULE PreflightContext ----
(***************************************************************************)
(* The brief that a preflight gives a harness: who the request is taken to *)
(* come from, what of the store that identity sees, and what of it fits.   *)
(* shelf holds the store's memories, brief the last preflight.  A value in *)
(* a request is [text, kind]: "plain" values may be used as they are,      *)
(* "spaced" ones by some commands, "odd" ones (slashes, control            *)
(* characters) by none; "secret" ones look sensitive, "blank" ones are     *)
(* empty, "other" ones no strings.  The receipt of a preflight, and what   *)
(* it takes to be allowed one, is ActivationReceipts.                      *)
(***************************************************************************)
EXTENDS Recall, SessionHooks

CONSTANTS
  Shelves,          \* the sets of memories a store can hold
  Requests,         \* what harnesses ask with, see Identified
  Fresh,            \* the id that a launch makes up
  BriefCandidates,  \* 1024 in the code
  MaxResults,       \* MAX_RESULTS
  Room,             \* MAX_CONTEXT_BYTES, less the header and the footer
  NoBrief

ASSUME BriefAssumption == BriefCandidates \in Nat /\ MaxResults \in 1 .. BriefCandidates /\ Room \in Nat

VARIABLES shelf, brief
briefVars == <<shelf, brief>>

----
(* The request *)

IdFields == {"agent_profile", "workflow_id", "session_id"}
Derived ==
  {"authorization", "bridge_fingerprint", "capability", "capabilities", "coordinator_capability", "harness_id",
   "memory_root", "project_root", "project_root_fingerprint", "receipt", "receipt_id", "state", "store_id", "token",
   "tree_ring_coordinator_token"}

HookForbidden ==
  {"authorization", "capability", "capabilities", "coordinator_capability", "memory_root", "project_root", "store_id",
   "task_hint"}

Has(given, names) == \A n \in names : n \in DOMAIN given /\ given[n].kind \notin {"blank", "other"}
Inside(given) == given.cwd.text = "inside"

\* identity_component_is_safe; a fingerprint is safe.
IdentitySafe(v) == v.kind \in {"plain", "spaced", "print"}

FlagsAccepted(p) ==
  /\ p.harness = "codex" /\ p.format = "json"
  /\ DOMAIN p.flags = IdFields /\ \A n \in IdFields : IdentitySafe(p.flags[n])

StdinAccepted(p) ==
  /\ DOMAIN p.flags = {}
  /\ (DOMAIN p.input \cup p.buried) \cap Derived = {}
  /\ \/ /\ p.harness = "claude-code" /\ p.format = "claude-session-start"
        /\ Has(p.input, {"session_id", "cwd"}) /\ Inside(p.input)
        /\ "agent_type" \in DOMAIN p.input => p.input.agent_type.text = "claude-code"
     \/ /\ p.harness = "pi" /\ p.format = "pi-before-agent-start"
        /\ Has(p.input, IdFields) /\ DOMAIN p.input \subseteq IdFields \cup {"task_hint"}
        /\ "task_hint" \in DOMAIN p.input => p.input.task_hint.kind # "other"
     \/ /\ p.harness = "agent-zero" /\ p.format = "json"
        /\ Has(p.input, IdFields) /\ DOMAIN p.input = IdFields

\* Only the top of a hook's input is looked at.
HookAccepted(p) ==
  /\ p.harness \in {"codex", "claude-code"}
  /\ DOMAIN p.input \cap HookForbidden = {}
  /\ Has(p.input, {"session_id", "cwd"}) /\ Inside(p.input)
  /\ p.event = "SubagentStart" => Has(p.input, {"agent_id", "agent_type"})

Accepted(p) ==
  CASE p.command = "launch" -> TRUE
    [] p.command = "hook" -> HookAccepted(p)
    [] p.command = "flags" -> FlagsAccepted(p)
    [] p.command = "stdin" -> StdinAccepted(p)

\* Mutant of Fingerprinted: every unsafe value becomes the same one.
FingerprintedAlike(v) == [text |-> "unsafe", kind |-> "print"]
Fingerprinted(v) == [v EXCEPT !.kind = "print"]
\* normalize_stdin_identity, and normalized of the lifecycle hooks.
StdinName(v) == IF IdentitySafe(v) THEN v ELSE Fingerprinted(v)
HookName(v) == IF v.kind = "plain" THEN v ELSE Fingerprinted(v)

Plain(text) == [text |-> text, kind |-> "plain"]
Who(profile, workflow, session) == [profile |-> profile, workflow |-> workflow, session |-> session]

\* A profile is a sequence: a subagent's has three parts.
Identified(p) ==
  CASE p.command = "launch" -> Who(<<Plain("claude-code")>>, Plain(Fresh), Plain(Fresh))
    [] p.command = "flags" -> Who(<<p.flags.agent_profile>>, p.flags.workflow_id, p.flags.session_id)
    [] p.command = "stdin" /\ p.harness = "claude-code" ->
         LET session == StdinName(p.input.session_id) IN Who(<<Plain(p.harness)>>, session, session)
    [] p.command = "stdin" /\ p.harness # "claude-code" ->
         Who(<<StdinName(p.input.agent_profile)>>, StdinName(p.input.workflow_id), StdinName(p.input.session_id))
    [] p.command = "hook" /\ p.event = "SessionStart" ->
         LET session == HookName(p.input.session_id) IN Who(<<Plain(p.harness)>>, session, session)
    [] p.command = "hook" /\ p.event = "SubagentStart" ->
         Who(<<Plain(p.harness), HookName(p.input.agent_type), Fingerprinted(p.input.agent_id)>>,
             HookName(p.input.session_id), HookName(p.input.agent_id))

\* Only Pi and launches pass one on.
Hint(p) ==
  IF (p.command = "launch" \/ (p.command = "stdin" /\ p.harness = "pi")) /\ "task_hint" \in DOMAIN p.input
  THEN p.input.task_hint ELSE [text |-> <<>>, kind |-> "blank"]

\* safe_query, as a sequence of terms; none makes a startup brief.
SafeQuery(p) == IF Hint(p).kind \in {"blank", "secret"} THEN <<>> ELSE Hint(p).text

----
(* The brief *)

Searched(S) == INSTANCE Recall WITH table <- S

\* SessionRecallScope has filtered already.
Unfiltered ==
  [project |-> Anything, agent |-> Anything, workflow |-> Anything, session |-> Anything, scope |-> Anything,
   rings |-> Anything, kinds |-> Anything, sensitive |-> TRUE, superseded |-> TRUE]

StartupKey(m) ==
  <<CASE m.ring = "scar" -> 0 [] m.ring = "heartwood" -> 1 [] OTHER -> 2,
    -m.salience, -m.confidence, -Recency[m.age], m.id>>

Before(key, other) == \E k \in DOMAIN key : key[k] < other[k] /\ \A j \in 1 .. k - 1 : key[j] = other[j]

\* Without a query, the first in the order of the statement; with one, any
\* order that full-text search ranks its hits in.
Considered(S, q) ==
  LET hits == IF q = <<>> THEN S ELSE Searched(S)!Hits(q, Unfiltered)
      some == kSubset(Min({BriefCandidates, Cardinality(hits)}), hits)
  IN  {C \in some : q = <<>> => \A m \in C, left \in hits \ C : Before(StartupKey(m), StartupKey(left))}

Worth(m, q) ==
  IF q # <<>> THEN Score(m, q)
  ELSE 25 * m.salience + 25 * m.confidence + 20 * Recency[m.age] + 5 * Authority[m.source]
         + (CASE m.ring = "scar" -> 2000 [] m.ring = "heartwood" -> 1500 [] OTHER -> 0)

\* By score, then by id.
Ahead(m, n, q) == Before(<<-Worth(m, q), m.id>>, <<-Worth(n, q), n.id>>)

\* Sorted and truncated: at each place what just enough others are ahead of.
Results(C, q) ==
  [k \in 1 .. Min({MaxResults, Cardinality(C)}) |-> CHOOSE m \in C : Cardinality({n \in C : Ahead(n, m, q)}) = k - 1]

\* safe_results; line is the length of a memory in the brief.
Fitting(results) ==
  LET fit[k \in 0 .. Len(results)] ==
        IF k = 0 THEN [kept |-> <<>>, room |-> Room]
        ELSE IF results[k].says = "plain" /\ results[k].line <= fit[k - 1].room
        THEN [kept |-> Append(fit[k - 1].kept, results[k]), room |-> fit[k - 1].room - results[k].line]
        ELSE fit[k - 1]
  IN  fit[Len(results)].kept

Brief(p, results) ==
  LET kept == Fitting(results) IN
  [asked |-> p, results |-> results, context |-> kept,
   receipt |-> [who |-> Identified(p), class |-> IF SafeQuery(p) = <<>> THEN "startup_fallback" ELSE "task_hint",
                ids |-> {m.id : m \in Range(kept)}]]

RunPreflight(p) ==
  /\ IF Accepted(p)
     THEN LET seen == {m \in shelf : Visible(m, Identified(p))}
          IN  \E C \in Considered(seen, SafeQuery(p)) : brief' = Brief(p, Results(C, SafeQuery(p)))
     ELSE brief' = NoBrief
  /\ UNCHANGED shelf

BriefInit == shelf \in Shelves /\ brief = NoBrief
BriefNext == \E p \in Requests : RunPreflight(p)

\* The session of a request as the harness calls it.
RawSession(p) ==
  CASE p.command = "launch" -> Fresh
    [] p.command = "flags" -> p.flags.session_id.text
    [] p.command = "stdin" -> p.input.session_id.text
    [] p.command = "hook" -> IF p.event = "SubagentStart" THEN p.input.agent_id.text ELSE p.input.session_id.text

\* A value, if it is a string, has a text and a kind; a hint is split into terms.
IsValue(v) == v = [text |-> v.text, kind |-> v.kind]

ASSUME PreflightsAssumption ==
  \A p \in Requests :
    /\ p.command \in {"launch", "flags", "stdin", "hook"}
    /\ p.command = "hook" => p.event \in {"SessionStart", "SubagentStart"}
    /\ p.command # "flags" => \A n \in DOMAIN p.input : IsValue(p.input[n])
    /\ SafeQuery(p) \in Seq(Range(SafeQuery(p)))

\* A memory of a session was written in one that was given its identity.
ASSUME ShelvesAssumption ==
  \A S \in Shelves :
    /\ IsFiniteSet(S) /\ \A m, n \in S : m.id = n.id => m = n
    /\ \A m \in S :
         /\ m.id \in Int /\ m.line \in Nat /\ m.salience \in Int /\ m.confidence \in Int
         /\ m.age \in DOMAIN Recency /\ m.source \in DOMAIN Authority
         /\ m.scope = "session" =>
              \E p \in Requests : Accepted(p) /\ m.who = Identified(p) /\ m.by = RawSession(p)

----
(* Properties *)

Lines(notes) ==
  LET upto[k \in 0 .. Len(notes)] == IF k = 0 THEN 0 ELSE upto[k - 1] + notes[k].line IN upto[Len(notes)]

(* docs/protocol/harness-activation.md:116: the context is within its      *)
(* limit and in order of relevance; a memory among the best that is safe   *)
(* to show is left out only because it does not fit, and what is left of   *)
(* the room is not enough for it either; the receipt has just what is in.  *)
BriefUsesItsRoom ==
  brief # NoBrief =>
    LET q == SafeQuery(brief.asked) IN
    /\ Lines(brief.context) <= Room
    /\ \A k \in 2 .. Len(brief.context) : Worth(brief.context[k - 1], q) >= Worth(brief.context[k], q)
    /\ \A m \in Range(brief.results) \ Range(brief.context) :
         m.says = "plain" => m.line > Room - Lines(brief.context)
    /\ brief.receipt.ids = {m.id : m \in Range(brief.context)}

(* docs/protocol/harness-activation.md, visibility of a session's memory:  *)
(* whatever a harness calls its sessions, and whichever command asks, a    *)
(* brief has no session memory of a session with another name.             *)
SessionsStayApart ==
  brief # NoBrief => \A m \in Range(brief.context) : m.scope = "session" => m.by = RawSession(brief.asked)

(* docs/protocol/harness-activation.md:425: a sensitive task hint is not   *)
(* searched for, the brief is the one of a request without a hint; and     *)
(* nothing sensitive is in a brief or in the identity that its receipt     *)
(* stores, also of rows that say more than their label does.               *)
NothingSensitiveLeaves ==
  brief # NoBrief =>
    /\ Hint(brief.asked).kind = "secret" =>
         /\ brief.receipt.class = "startup_fallback"
         /\ {m \in shelf : Visible(m, brief.receipt.who)} # {} => brief.results # <<>>
    /\ \A m \in Range(brief.context) : m.says # "secret"
    /\ LET who == brief.receipt.who
       IN  \A value \in Range(who.profile) \cup {who.workflow, who.session} : value.kind # "secret"

(* A brief is as full as its room allows, of its own session, and safe.    *)
BriefHonest == BriefUsesItsRoom /\ SessionsStayApart /\ NothingSensitiveLeaves
====
