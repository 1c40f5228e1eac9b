---- MODULE Harnesses ----
(***************************************************************************)
(* The harness adapters: how a harness is detected, what its plan is, what *)
(* a manifest may record for it, and what its state is reported to be.     *)
(***************************************************************************)
EXTENDS FiniteSets

CONSTANT None

Harnesses == {"codex", "claude-code", "pi", "agent-zero", "hermes", "opencode", "goose"}
Unsupported == {"hermes", "opencode", "goose"}

\* The paths in a project that tell of a harness; each but Agent Zero has one
\* more in the user's home, named here by the harness.
Markers(h) ==
  CASE h = "codex" -> {".codex", "AGENTS.md"}
    [] h = "claude-code" -> {".claude", "CLAUDE.md"}
    [] h = "pi" -> {".pi", "pi.toml"}
    [] h = "agent-zero" -> {}
    [] h = "hermes" -> {".hermes", "hermes.toml"}
    [] h = "opencode" -> {".opencode", "opencode.json", "opencode.toml"}
    [] h = "goose" -> {".goose", "goosehints"}

\* env = [project, home, plugin]: the marker paths in the project, the
\* harnesses with a marker at home, the descriptor of the Agent Zero plugin.
Detected(h, env) ==
  Markers(h) \cap env.project # {} \/ (h # "agent-zero" /\ h \in env.home)

\* Versions of the plugin with the core version each one asks for.
Contracts ==
  {<<"3.1.0", "0.14.0">>, <<"3.2.0", "0.15.3">>, <<"3.3.0", "0.15.3">>, <<"3.3.1", "0.15.3">>,
   <<"3.4.0", "0.15.5">>, <<"3.4.1", "0.15.7">>, <<"3.4.2", "0.15.12">>}

\* read_agent_zero_plugin_manifest, is_compatible: a small regular file outside
\* the project, of a known contract, whose plugin.yaml names the same version.
Verified(plugin) ==
  /\ plugin # None
  /\ plugin.outside
  /\ plugin.contract \in Contracts
  /\ plugin.enabled
  /\ plugin.yaml = plugin.contract[1]

DetectedState(h, env) ==
  CASE h \in Unsupported -> "unsupported"
    [] h = "agent-zero" -> IF Verified(env.plugin) THEN "configured_awaiting_proof" ELSE "needs_plugin"
    [] h = "pi" -> "needs_trust"
    [] OTHER -> "configured_awaiting_proof"

\* The binding of Agent Zero is published, and recorded, as not yet usable.
PlanState(h, env) == IF h = "agent-zero" THEN "needs_plugin" ELSE DetectedState(h, env)

PlanFiles(h) ==
  CASE h = "codex" -> {".agents/skills/tree-ring-memory/SKILL.md", ".codex/hooks.json"}
    [] h = "claude-code" -> {".claude/skills/tree-ring-memory/SKILL.md"}
    [] h = "pi" -> {".agents/skills/tree-ring-memory/SKILL.md", ".pi/extensions/tree-ring-memory.ts"}
    [] h = "agent-zero" -> {".tree-ring/activation/agent-zero.json"}
    [] OTHER -> {}

PlanBlocks(h) ==
  CASE h = "codex" -> {"AGENTS.md"} [] h = "claude-code" -> {".claude/settings.json"} [] OTHER -> {}

PlanPaths(h) == PlanFiles(h) \cup PlanBlocks(h)

\* allowed_owned_file: kept apart from the plans in the source, and older files.
AllowedFile(h, path) ==
  path \in CASE h = "codex" -> {".agents/skills/tree-ring-memory/SKILL.md", ".codex/hooks.json", "AGENTS.md"}
             [] h = "claude-code" -> {".claude/skills/tree-ring-memory/SKILL.md", ".claude/settings.json"}
             [] h = "pi" -> {".agents/skills/tree-ring-memory/SKILL.md", ".pi/extensions/tree-ring-memory.ts"}
             [] h = "agent-zero" -> {".tree-ring/activation/agent-zero.json"}
             [] OTHER -> {}

\* allowed_managed_block.
AllowedBlock(h, path) ==
  path \in CASE h = "codex" -> {"AGENTS.md"} [] h = "claude-code" -> {".claude/settings.json"} [] OTHER -> {}

\* validate_manifest and reject_duplicate_ownership, of what is recorded for
\* each harness: [state, files, blocks].
ValidManifest(harness) ==
  \A h \in DOMAIN harness :
    /\ \A path \in harness[h].files : AllowedFile(h, path)
    /\ \A path \in harness[h].blocks : AllowedBlock(h, path)
    /\ harness[h].files \cap harness[h].blocks = {}

Active == {"active", "active_isolated"}

\* integrations status, of a record (None if there is none) with or without a
\* valid receipt; all records are of the current adapter version.
Status(h, env, recorded, proved) ==
  IF h = "agent-zero"
  THEN IF ~Verified(env.plugin) THEN "needs_plugin"
       ELSE IF recorded # None /\ ~(/\ recorded.state = "needs_plugin"
                                   /\ recorded.files = PlanFiles(h) /\ recorded.blocks = {})
       THEN "needs_user_review"
       ELSE IF recorded # None /\ proved THEN "active" ELSE DetectedState(h, env)
  ELSE IF recorded = None
  THEN IF Detected(h, env) /\ DetectedState(h, env) = "configured_awaiting_proof"
       THEN "needs_user_review" ELSE DetectedState(h, env)
  ELSE IF proved THEN "active"
  ELSE IF recorded.state \in Active THEN "configured_awaiting_proof" ELSE recorded.state

Ready == {"configured_awaiting_proof", "needs_trust"} \cup Active

\* ensure_manifest_preflight_ready.
Eligible(h, recorded, env) ==
  /\ recorded # None
  /\ IF h = "agent-zero" THEN Verified(env.plugin) /\ recorded.state = "needs_plugin"
     ELSE recorded.state \in Ready
====
