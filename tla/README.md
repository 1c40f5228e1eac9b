# Tree Ring Memory: models, checks and proofs

Tree Ring Memory keeps the memories of coding agents in one SQLite store per
project root. Several agents, a human operator and automatic jobs write to one
store at the same time, from separate processes. This directory holds TLA+
models of the parts where that goes wrong in ways a test hardly reaches, the TLC
runs that check them on small instances, and TLAPS proofs of what holds for
every instance.

Run a check with `tlc -config <cfg> <module>`, a proof with
`tlapm MemoryStore_proofs.tla`. `PROJECT.json` lists every run, the source lines
behind every definition, the hazards, and for every property a mutated
definition under which TLC finds it violated.

## The system

| Part | State it keeps | Operations |
|---|---|---|
| memory tables (`sqlite/src/write.rs`, `lifecycle.rs`) | `memories`, `memory_fts`, `operation_claims`, `redaction_tombstones` | put, supersede, redact, delete, rebuild the index |
| store (`sqlite/src/lib.rs`) | the transaction around them | put, put_idempotent, put_many, put_dox_many, import, supersede, delete, redact, change_ring, maintain, consolidate, recall, export |
| write policy (`sqlite/src/policy.rs`) | `store_policy` (mode, hash of the capability), `authorization_audit` | enable, rotate, disable; a decision in every write transaction |
| schema (`sqlite/src/schema.rs`, `migrate`) | `user_version`, triggers that fence writers of older versions | open, migrate |
| search (`core/src/recall.rs`, `sqlite/src/search.rs`, `session_recall.rs`) | none | queries, filters, scores, session views |
| sources (`core/src/dox.rs`, `revolve.rs`) | none: it reads the project's files | collect, preview, sync |
| command actions (`cli/src/actions`, `main.rs`) | none between commands | remember, forget, import, export, recall, maintain, consolidate, audit |
| setup (`cli/src/agent_awareness.rs`, `activation/adapters.rs`) | `AGENTS.md`, `SKILL.md`, `CLI.md`; what is detected of each harness | init, integrations scan and status |
| bridges (`cli/src/activation/bridge.rs`) | files in the harness's directories, the activation manifest | plan, activate, deactivate: creation only, under a file lock |
| activation receipts (`preflight.rs`, `manifest.rs`, `launcher.rs`) | receipt files, contract fingerprints | prepare, recall, commit, prune, invalidate, launch, status |
| hooks (`cli/src/activation/lifecycle.rs`) | none: the harness keeps the turn | session start, stop, subagent start and stop |
| console (`cli/src/tui`) | a cached list of memories, one pending action, an offset into the event stream | search, promote, scar, seed, redact, delete, confirm, refresh, follow the stream |
| evidence (`cli/src/evidence.rs`, `harness_evidence.rs`, `recall_quality.rs`) | the evidence index and its payload files | recall-quality, integrations certify, load |
| proofs of use (`core/src/quality.rs`, `workflow.rs`, `cli/src/workflow_proof.rs`, `certify-tree-ring.sh`) | scenario files, workspaces, reports | validate, judge, run, publish |
| self-update (`cli/src/update.rs`) | the installed program | check, update directly or by Homebrew |

The store is the centre: every other part reads or writes it through the
operations of `lib.rs`, each of which is one `BEGIN IMMEDIATE` transaction that
`retry_locked` retries a bounded number of times. The policy is read inside the
same transaction as the write it judges. Commands, hooks and the console act on
what they read in an earlier transaction, so whatever they show may be stale when
they write. Activation runs beside the store: it publishes files and receipts
that other processes, editors and older versions of the program may change.
Evidence is published beside both, by programs that know nothing of each other
but one lock.

### What is hard, and what correct means

- **Store.** Writers interleave between transactions; a batch is many statements
  of one transaction that may die half way; rows outlive the request that made
  them. Correct: redacted content never comes back, an operation namespace
  belongs to one memory until that memory is deleted, search shows what the rows
  hold, a batch or import is applied whole or not at all.
- **Policy.** The capability changes while writers hold an old one. Correct: in
  Coordinated mode nothing protected changes without the capability in force at
  the commit, whatever a batch hides.
- **Idempotent writes.** A process may die with the lock, or after its commit
  and before its answer, and its agent runs the command again. Correct: one
  memory per namespace, every answer durable, every command ends, and a namespace
  reused for another write is refused.
- **Derived memories.** Consolidation, syncs and imports write memories made from
  others, over a table that clients redact, replace and delete in between.
  Correct: a summary never crosses a partition and is made once per source set, a
  sync is the preview a person confirmed, two projects in one store do not take
  over each other's records, a redaction survives every import, and what is lost
  is reported.
- **Connections.** Programs of several versions share the file, each checks the
  version at another moment, and a recall is interrupted by another thread.
  Correct: the schema only grows, a migrated store is sound whatever old programs
  wrote, a deadline stops its own recall and nothing else.
- **Recall and briefs.** Hidden, foreign and sensitive rows match better than the
  right one; names of sessions are rewritten on some ways in and not on others.
  Correct: what should be found is, the best first; a brief has nothing of
  another session and nothing sensitive.
- **Receipts.** A preflight recalls without the lock and may be overtaken by an
  edit, another version or another session; a launcher starts the harness before
  its receipt exists. Correct: no receipt proves a contract that does not hold,
  retention is bounded, status overlooks no proof, a launch reports every failure.
- **Bridges.** Users edit the same files without the lock; a first run may die
  between its files and its manifest; directories are renamed and linked while a
  command walks them. Correct: nothing that exists is replaced, only what was
  published is claimed, one store id wins, what is reported ready is recorded and
  in place, a repeated init agrees with the first, no call leaves the project.
- **Setup and hooks.** Two inits and an editor write the same guidance; hooks of a
  session and its subagents run in any order and their commands are repeated.
  Correct: what users wrote stays, a second init changes nothing, what is reported
  ready starts, an agent is asked once and is never stopped for good.
- **Console.** Between a prompt and its confirmation lists, selection and store
  move; the stream is cut anywhere and rotated. Correct: only what the prompt named
  is changed, a frame lists what the store held and the switches let through when it
  was read, every line of the stream is told once.
- **Evidence.** Several producers replace index and payloads; each may die between
  two files. Correct: a pass is earned, records describe payloads, the index is
  never better than what was recorded, trials do not see each other.
- **Self-update.** A release is uploaded file by file while updates read it.
  Correct: what is installed is what was released, and "updated" is true.

## The modules

| Module | Models | Kind |
|---|---|---|
| `MemoryTables` | the four tables as one value and the functions of `write.rs` on it | operators |
| `MemoryStore` | every write operation, maintenance, batches, imports, the policy | state machine |
| `MemoryLifecycle` | what the store promises about ids and namespaces | abstract specification |
| `IdempotentWrites` | workers that run `remember`, die and run it again, and an operator | state machine |
| `Consolidation` | partitions, summaries, records, forced replacement, and clients | state machine |
| `SourceSync` | DOX and Revolve files, preview and confirmation; extends `Consolidation` | state machine |
| `Portability` | export, import and audit over both | state machine |
| `StoreConnections` | programs of four versions that open, migrate and write one file | state machine |
| `RecallDeadline` | a recall, its watchdog thread and the connection they share | state machine |
| `Recall` | what a recall answers | functions, checked over bounded tables |
| `PreflightContext` | what a preflight's brief holds, for whom | functions, checked over bounded stores |
| `SessionHooks` | sessions, subagents, stops, captures | state machine |
| `Guidance`, `Harnesses` | the three guidance files; detection, plans and states of harnesses | operators |
| `ProjectSetup` | inits, editors, harnesses and other commands of one project | state machine |
| `SelfUpdate` | releases, uploads, updates | state machine |
| `CommandLine` | setup, update, connections, recall, briefs and hooks, side by side | composition |
| `ActivationReceipts` | preflights, launches and status readers of one harness, and the people who edit its manifest | state machine |
| `BridgePublication` | init, activate and deactivate on bridge files and manifest, and the users of the same files | state machine |
| `ProjectFiles` | `ProjectFs`: how a command reaches one file, system call by system call | state machine |
| `BridgeFiles` | the last two at their two scales | composition |
| `EventStream` | the stream file, its writers and the reader's offset | state machine |
| `Console` | keys, modes, pending actions, frames; extends `EventStream` | state machine |
| `Judgements`, `Quality`, `Workflow` | the judgements: of recalls, harnesses, quality and workflow scenarios | operators |
| `EvidenceIndex` | producers, index, payloads, metrics and the console's reader | state machine |
| `QualityRun`, `WorkflowProof` | a run over a directory of scenarios; trials in workspaces | state machines |
| `Certification` | the certification script beside all of these | composition |
| `MemoryTables_proofs` | what each statement on the tables does, whichever tables they are | proofs |
| `MemoryStore_proofs`, `IdempotentWrites_proofs`, `ActivationReceipts_proofs`, `CommandLine_proofs`, `BridgeFiles_proofs`, `Certification_proofs`, `Portability_proofs` | the inductive invariant of each and what follows from it; `Certification_proofs` is about `Console` too | proofs |
| `MC*` | the rows, requests, files, manifests and scenarios of the runs | instances |

**Compositions.** Parts that share state are composed by EXTENDS: `Portability`
acts on the table of `SourceSync` and `Consolidation`, `Certification` replaces
the metrics of `EvidenceIndex` after a `QualityRun`. Parts that share nothing
while one of them runs are put side by side: the variable `part` (in
`BridgeFiles`, `scale`) says which of them a behaviour is about, and the others
stay in their initial state, so that the product of independent parts is not
explored. The same holds inside a module where the interesting cases need
different bounds: `setting`, `budget`, `plan`, `setup`, `situation` and `task` are
chosen in the initial state and never change. They are named in the module as
bounds and stand for no state of the program.

### MemoryTables

A value `d` has `d.rows`, `d.fts`, `d.claims` and `d.tombs`, one per SQLite table.
A row keeps what the properties tell apart: its searchable text, its operation
namespace, its owner (the agent profile of scope `agent`, else `Shared`), ring,
kind of event, whether it is temporary, whether its sensitivity is secret,
`supersedes` and `superseded_by`. A namespace is the tuple project, workflow,
agent profile, operation id, one model value. The index holds a sequence of
texts for each id, because `memory_fts` has no key: a forgotten `DELETE` would
leave two entries. Operators return the tables after their statements; `CanPut`
is what makes a write fail, by `prepare_memory_write` or by the unique index.
`Redact`, `Delete` and `PreserveClaims` take a set of ids, so that the plan of a
maintenance pass is applied by the same operators.

### MemoryStore

`db` is what is committed. A single operation is one action on `db`: it runs
inside `BEGIN IMMEDIATE`, nobody reads its intermediate states, and if it fails
it leaves nothing. A batch is opened (`BeginPutMany`, `BeginImport`), writes one
event at a time into `txn.work`, and is committed or dropped (`Rollback`: a
refused write, an I/O error or the death of the process at any point). No other
write runs while `txn` is open. `policy` is the `store_policy` row; `spent` holds
every capability generated so far, and a context may present any of them, which
stands for processes that still hold an old one. `log` is the audit row of the
last transaction, with the context it judged; the audit table itself only grows
and is not kept.

Abstractions: the filters and the clock of a maintenance request select any
subset of the rows its plan may act on; a denied request commits only its audit
row; a request that fails validation never begins.

### MemoryLifecycle

Absent, live, redacted; what search finds for an id; the memory a namespace is
bound to. `MemoryStore` implements it under the mapping at the end of the module
(`Promises`): only deletion releases an id or a namespace, and a redacted memory
shows nothing but the marker.

### IdempotentWrites

The lock is a variable here, because who holds it when a process dies matters.
A worker generates an id, waits for the lock at most `MaxAttempts` times, looks
up and writes inside its transaction, and compares what it found with what it
asked for after the transaction is over. `Crash` is possible at every step, and
`RunAgain` repeats the same command under a new id. The operator redacts,
deletes, supersedes and promotes between transactions. `made`, `deleted` and
`moved` are history variables.

### ActivationReceipts

`manifest` is the harness's part of `activation.json`, `receipts` the set of its
receipt files, `lock` the flock on the project root. A preflight process loads
the manifest (`Load`), checks the contract and invalidates receipts under the
lock (`Prepare`), recalls without it (`Recall`), and takes it again to check
everything once more (`Revalidate`), prune and write. The three steps of the
commit are separate because a process may die between them; `Prepare` is one
step, since nobody who respects the lock sees it half done, and what a crash or an
I/O error between its removals leaves is there for the next preflight. A launcher
writes its context file and starts the harness before the commit, then waits and
cleans up. A fingerprint is the pair it hashes. `EditManifest` stands for the
user and for programs that do not take the lock. `ReadManifest`, `ListReceipts`,
`ReadReceipt` and `Verdict` are a status command, one system call at a time; the
directories of several workers are listed at once. `clean`, `steady` and
`proved` are history variables.

### BridgePublication

A file is Tree Ring's part of it (rendered by a version, naming a store where the
file does; altered; with broken markers; or missing) and what the user has
around it. A digest is the content it hashes. `CompleteFile`, `MarkdownFile` and
`SettingsFile` are the three `prepare_` functions; `Prepared` has their outcomes for
the writes of a plan, up to the first that is not ready, and `Batch` adds harness after harness. `DecideInit`,
`DecideActivate` and `DecideDeactivate` say what a command does once it holds the
lock: answer without a change, refuse, or commit. A commit looks at a target
(`Check`) and publishes it with a create-only link (`Link`), one file after
another, then the manifest (`CheckManifest`, `LinkManifest`); every step may meet
an I/O error, and after the first published file the command no longer knows what
it has done. Files are read at one instant in `Prepare`; the commit looks at each
target again. What a user restores is an earlier manifest. `published`,
`disturbed`, `settled`, `base` and `saved` are history variables.

### ProjectFiles, BridgeFiles

`place` is what the project's path names, `tree` what each directory holds. A
program opens the path once, keeps the directory (`root`), locks it, walks down
with one `openat` per name (`Child`, which a link fails), writes a temporary
file, looks whether the name is free, links, unlinks the temporary name and syncs.
`EnsureBinding` is `ensure_root_binding` at each place where a command calls it.
A removal opens what it will remove and unlinks it by name. People rename the
project away and back, put links, files and directories in the place of any
entry. Directories are not moved from one project to another, and only the root
is checked again by the code, which is what `SuccessIsTheProjects` says.
`BridgeFiles` puts the two scales side by side: at the scale of commands a file is
read at one instant, at the scale of calls contents do not matter.

### Consolidation, SourceSync, Portability

One table `rows`, on which all three act. A memory keeps its project, scope and
producers, what the sensitivity guard finds in it and what its label says, its
links and what supersedes it. A consolidation is one transaction: `Candidates`,
`Groups` by partition, `Recorded` for idempotency, and for a forced run the
earlier summaries (`PreviousOutputs`) and which new one takes the place of each
(`Replacements`). `Collect` of `SourceSync` is what a dry run or the console's
preview reads from the files, `Apply` the transaction that follows later, after
files and store changed. `Portability` adds files: `Exported` filters by label,
`Normalised` gives legacy lines their own partitions, `CanImport` and `Imported`
are validation and effect of the whole import. The five audits are functions of
the table (`Findings`).

The code hashes project, path, anchor and text into the id of a synchronised
memory: `DoxId` and `RevolveId` are the tuples of what is hashed, so two ids are the
same when their inputs are, and no hash collides. A legacy line whose producer
names nobody gets a name made from its id; `Named` holds the names that somebody
outside gave, so that such a name can be told from one that a line copied. An id
drawn at random for a summary is no other memory's.

### StoreConnections, RecallDeadline

A build is a schema version; 2 is a program from before the writer protocol, which
checks nothing. A writable open reads the version, configures, reads again and
migrates in a transaction that checks a third time; the steps are separate
because other programs migrate in between. `file.fence` is the protocol the
triggers compare with. The deadline's watchdog is a thread of its own; a statement
may never end, an interrupt strikes whatever the connection runs.

### Recall, PreflightContext, SessionHooks

`Recall` keeps two sets of terms of a memory, those the index has and those the
score looks for, also within words; the order of SQLite's rank is left open where
candidates are cut. `PreflightContext` has the normalization of every value of a
request by each command that takes one, the identity that results, the candidates
visible to it and the greedy filling of the room. In `SessionHooks` the harness
and the agent are external: an agent that was blocked at its stop captures, in
commands that may be lost and repeated, and stops again.

### Guidance, Harnesses, ProjectSetup, SelfUpdate, CommandLine

A guidance file is a sequence of headed blocks, each worded as this program words
it or otherwise, and notes of users. `Harnesses` has detection, plans and what a
manifest may record as functions. `ProjectSetup` runs `init` file by file, so that
two runs and an editor interleave, and every other command with how it opens the
store (`Opening`). In `SelfUpdate` archive and checksum of a release are uploaded
one after the other, and again, while updates download and verify.
`CommandLine` puts `ProjectSetup`, `SelfUpdate`, `StoreConnections` with
`RecallDeadline`, `SessionHooks`, `Recall` and `PreflightContext` side by side.

### EventStream, Console

A stream is a sequence of bytes, each one of some line; the reader keeps offset,
unfinished line and whether it discards. The console's handlers are functions
from its state to its state over the rows as they are at that moment; a turn of
the loop handles a key (`Key`) or refreshes and reads the stream (`Tick`), and
other programs act between the two. The history variables say what the person saw:
`named` holds the memories that the prompt on the screen names, `shown` the rows the
frame on the screen was read from, `asked` those of the last frame without that prompt.
`FrameCurrent` and `PromptAsShown` compare lists and prompts with these rows, and not
with what the console remembers of them. So a list is at most one turn of the loop
behind the store, and a prompt as old as the frame it was opened on: its text is copied
then (`actions.rs`) and drawn until it is answered, also when another program hides or
redacts the memory meanwhile, which the run does. The properties are about lists, not
about the lines that are drawn of one: browsing draws the first twelve, fewer where the
screen is small, while the cursor moves over all (`SelectionStands`).

### Evidence, quality and workflow

`EvidenceIndex` has two kinds of producer that evaluate, take the lock, write
their payloads and then the index, each of which may fail or be the last thing they do; the
console reads index and payloads one after the other. `Judgements` holds
what they judge: recalls and harnesses. `QualityRun` judges a directory of
scenarios (`Quality`) and `Certification` publishes its metrics. `WorkflowProof`
runs each scenario (`Workflow`) three times, with an agent that leaves any of the
files and answers of its `moves`.

## The runs

| Run | What it shows | Bounds |
|---|---|---|
| `store` | seal, single owner, exact index, ring changes, whole imports, refinement of `MemoryLifecycle` | 2 ids, 2 namespaces, 2 rings, Open mode, batches and imports of up to 2 events with rollback |
| `store_policy` | protected changes need the capability in force | 2 ids, 1 agent, 2 capabilities (symmetric) |
| `retries` | at most one memory, true answers, explained refusals, every command ends | 2 workers with one request, or with two under one namespace; 3 ids, 2 attempts |
| `replay` (violation) | an exact replay after a promotion is refused | as `retries` |
| `receipts_launch` | no receipt of another contract survives; a reported success is one; launches end | a launcher of version 1, a preflight of version 2, 6 manifests, 3 runs, 1 edit |
| `receipts_status` | at most one receipt over the limit; an unlocked status finds a proof that stays | limit 1, age 1, 3 instants, 2 preflights (symmetric), 1 reader, 3 runs, 1 edit |
| `bridges` | users keep their files, inits agree, ready means recorded; file calls stay inside and answer the truth | 2 first inits, or init, activation by version 2 and deactivation, 1 edit; or 2 programs call by call, 2 moves |
| `bridges_documented` (violation) | init refuses instead of reporting | inits by versions 1 and 2 over settings of the user |
| `derived` | summaries, syncs, imports, redactions, exports and audits agree on one table | 3 notes of 2 agents, 2 roots, 7 budgets of runs, syncs, edits and files |
| `commands` | versions coexist, deadlines end only their own recall, init is honest and settled, reports change nothing, updates are what was released, sessions are served, recalls and briefs are right | 5 programs of 3 versions with 5 opens; 2 inits; 2 updates of 2 versions; an agent and its helper; every subset of 7 memories for recall and for briefs |
| `console` | frames list what the store held and may be seen, keys hit what the prompt named, the stream is told | 3 memories, 5 keys, 2 steps of others; 3 lines, 1 rotation |
| `certification` | evidence agrees, passes are earned, proofs are observed | 2 recall diagnostics, 1 harness certification, up to 3 runs; scenario directories of up to 3 files; 6 moves of an agent |

A property that is a conjunction has its parts as definitions of their own, each
with the promise it translates; `PROJECT.json` names the whole.

**Bounds.** Two ids and two namespaces are enough for a namespace to move between
rows and back, and for a claim and a holder to meet. Batches of two events contain
every pair: the same id twice, the same namespace twice, a supersedes list whose
target is written before or after. Two capabilities give one rotation, or a
disable and a second enable. Three ids give each worker a first attempt and one
of them a rerun. `Caps` and `Ids` bound the histories; no other counter grows.
The manifests of `receipts_launch` are the ways a contract can differ: other
files, other version, a fingerprint left behind, another project and store, a
state that may not run preflight. Three receipts with a limit of one make
pruning remove one that a reader has listed; `MaxRuns`, `MaxEdits` and `MaxTime`
bound the sessions, the edits and the clock. Two store ids give each of two first
runs its own; the plans of the bridge runs have one path of each kind, one shared
by two harnesses and one that names the store, and a harness without writes. Two
moves take a directory away and put something else in its place.
The budgets of `derived` are the pairs whose interplay the promises are about:
two consolidations with a change between them, two roots that share relative file
names, an edit between preview and confirmation, a file imported over what was
redacted or replaced. Five opens let a program migrate between any two checks of
another. The seven memories of the recalls are one for each reason a row may be
left out or ranked low; a candidate limit of two is less than most of the sets
they form. Five keys open a prompt, move, refresh and confirm. Three runs of the
producers are one of each, or a repetition of one after the death of another.

Deadlock is checked where the program can always go on (the store runs). Elsewhere
ids, sessions or edits run out, which each cfg says.

**Fairness.** `FairSpec` of `IdempotentWrites` makes each worker's own steps weakly
fair: a process that is not killed is scheduled, and a busy wait ends by itself.
Crashes, reruns and the operator have no fairness. `retry_locked` counts
attempts, so nothing stronger is needed for `CommandsEnd`. In
`ActivationReceipts` the harness that a launcher waits for is assumed to end some
time; edits, sessions and status commands are not fair. `RecallFairness` lets the
thread, its watchdog and the clock go on; a statement need not end by itself.
`HooksFairness` says that an agent that was asked ends its answer and that the harness
then runs the hook; captures, prompts and ends of sessions are not fair. The
console's loop polls with a timeout, so `Key` and `Tick` are fair, the person's
choice among keys is not. In `Certification` a producer that is not killed takes
the lock and writes; failures, deaths, the script and readers are not fair.

**The findings.** `same_write_intent` compares a replay with the row as it is now,
so a memory the operator promoted no longer matches the request that made it:
`docs/protocol/memory-event.md` promises the existing id, the command reports a
conflict (`replay`). `init` applies the plans of all harnesses
at once, and one prepared file that would change an existing entry fails it as a
whole: a user's `.claude/settings.json` without Tree Ring's handlers, or unedited
files of an earlier version, keep every harness from being set up, where
`docs/protocol/harness-activation.md` promises `needs-user-review`
(`bridges_documented`); `activate`, for a single harness, keeps the promise.

Smaller differences between text and code, which have no run:

- `commit_receipt` prunes to the limit and then adds its own receipt, so one more
  stays than `docs/protocol/harness-activation.md:83` allows. `RetentionBound` shows
  that it is never more than one, however many sessions commit at once.
- init's "without overwriting existing files" (`README.md:376`) does not hold for text
  that users write inside a managed section, which the next init replaces;
  `NotesSurvive` is about what is outside. It and `InitIsSettled` hold as long as sections
  stand in the order of the template, as every edit of the runs leaves them. Of an `AGENTS.md` whose
  headings somebody moved, such as runtime, gates, dox, bridges, dox, one init removes
  what lies between a heading and its next anchor and only a second one is settled.
- recall and export are called read-only and open the store to write: they create or
  migrate it. `ReportsChangeNothing` is about the commands that do not.
- The audit goes on reporting an expired memory after its advice, to redact it, was
  followed, since redaction keeps the expiry.

### Known and left open

Steps that the models contain, or that were met while modelling, and that no
property is about, because nothing in the repository promises otherwise:

- the capability in force is lost when a process dies between the commit of enable or
  rotate and the line that prints it (`policy.rs:241`);
- supersessions may form a cycle, which hides every member and which no audit reports
  (`lib.rs:738`);
- one row that does not decode keeps the migration, and with it every writer, out
  (`lib.rs:1677`), and one that cannot be rewritten fails a maintenance pass (`lib.rs:1063`);
- a heading inserted above others renames the ids of those below, and their earlier rows
  stay (`dox.rs:255`); a redacted DOX row makes every later sync of its source fail;
- a launcher that dies leaves its private context file (`launcher.rs:142`);
- files of a first run that died are nobody's afterwards (`bridge.rs:2891`), which the
  document says is deliberate;
- a directory below the root that is renamed away after it was opened gets the file
  (`bridge.rs:529`); a receipt replaced between its validation and the unlink by name is
  removed (`bridge.rs:811`);
- unsafe results take up places of a brief before they are taken out, and an id with a
  space is one session for adapter stdin and another for hooks (`preflight.rs:660`, `819`);
- a stop hook that fails blocks the stop each time (`main.rs:764`);
- the index of evidence may go back in time (`recall_quality.rs:93`), keeps harnesses that are
  certified no longer, and one that does not parse is never replaced (`evidence.rs:213`);
- two workflow proofs over one output directory remove each other's workspaces
  (`workflow_proof.rs:375`); workspace files of which one is a directory of the other are
  valid and cannot be made (`workflow.rs:210`);
- a stream that was rotated and has regrown past the old offset looks as if it had only
  grown (`stream.rs:67`);
- a line that ends in `\r\n` and has the longest length allowed is reported or skipped,
  depending on whether a read ends between the two: the `\r` is only stripped from
  complete lines (`stream.rs:92`; the lines of the model end in `\n`);
- a prompt goes on drawing the text it was opened with when another program has hidden,
  redacted or deleted the memory (`render.rs:825`);
- the cursor of the console moves over the whole browsed list, of which the first twelve
  lines are drawn (`render.rs:256`): below them only the details, which a narrow screen
  lacks, and the prompt show what is selected;
- an export may overwrite a file that appears after the check that it is absent
  (`app.rs:494`);
- sections whose anchor is gone are never repaired (`agent_awareness.rs:343`);
- of two direct updates around a release the slower one may put the earlier release back
  (`update.rs:298`).

## The proofs

Every theorem holds for every value of the constants that satisfies the assumptions
the modules name. Nothing is bounded by the sets of the runs: any number of
processes, ids, files, scenarios, any content of the tables. `PROJECT.json` lists the
theorems; this section says on which invariant each rests and why.

All follow one plan. The properties of a run are seldom inductive, because they
speak of the states between which the work happens (a committed table, a written
receipt, a published index) and not of the work. So each module states an invariant
that also says what a process has in hand at each place of its program, proves
that the initial states have it and that every action keeps it, one lemma per
action, and takes the properties from it. Lemmas about operators come first and know
nothing of actions.

**MemoryStore.** A commit publishes the tables of an open transaction, so the
invariant speaks of them too: `IInv` states typing, seal, single owner and exact index
(`TablesInv`) for `db` and for `txn.work`. `MemoryTables_proofs` has a lemma for each of
`Put`, `Supersede`, `Redact`, `Delete`, `RebuildFts` and `SupersedeAll`; those of the actions only say
which operator meets which tables. `TypeOK`, `TombstonesSealed`, `OperationOwnedOnce`, `SearchMatchesRows`
and `RingChangeAccepted` follow. The second invariant, `TxnInv`, is about a batch
under way: its tables only grew (`GrowthInv`), its authority is still the one in force or
each of its events may be created without (`AuthorityInv`), and each event it has
handled is stored and marked (`ImportInv`). From it follow the action properties `ImportWhole`
and `CoordinatorOnly`. `StoreKeepsPromises` is the refinement of `MemoryLifecycle`: every step
of the store is one of its steps or a stutter, and `OperationStable` holds of the abstract module and
therefore here.

**IdempotentWrites.** `IInv` says who holds the lock and that an id not yet written is
nobody else's (`LockInv`), that what was made for a namespace stays bound to it until
deleted (`BindingInv`), that a memory nobody moved is some worker's request
(`IntentInv`), and what every worker was or is about to be told (`ToldInv`). `AtMostOnce`, `AnswersAreTrue` and
`RefusalsExplained` follow for any number of workers, deaths and reruns.

**ActivationReceipts.** A process past its second check holds the lock and its draft
proves the manifest unless somebody edited that (`HolderInv`, `DraftInv`); ids tell receipts
apart (`IdsInv`), which makes "older than" a strict order and pruning leave no more than the limit
(`RoomInv`); `LaunchInv` and `StatusInv` say what a launch without a failure has done and
what a reader has still to read. All four invariants of the two runs are theorems.

**CommandLine.** Its parts share nothing, so each has an invariant of its own.
`ConnectionInv`: who has the store open and how its triggers go with its version, for
`VersionsCoexist`. `WatchdogInv`: nothing but the recall's statements runs while its watchdog
lives, for the safety of `DeadlineKept`. `UpdateInv`: how far an update has come and what it is
after, for `UpdatesHonest`. `CaptureInv`: an operation is bound to one memory, for the safety
of `SessionsServed`. `SetupInv`: what an init has found by each of its steps, what is known
of one that nothing overlapped (`AloneInv`), and that a proved harness stays recorded
(`ProvedInv`), for the last three parts of `InitHonest`. Of the guidance, `WritesKeepTheRest` is
proved of every write of an init, for any text it read: what lies outside the section it
refreshes is still there, the program's wording stands first under the heading if the anchor is
there, and the section's next refresh finds nothing to do. It rests on `TextInv` (edits and torn writes
leave sequences of blocks) and on `RefreshesSettle`: a refresh replaces a range before
which no heading stands and behind which the anchor does (`RangeIsThere`), by a section that
begins with its heading and has no anchor in it (`SectionIs`), so the next refresh finds that
range again (`RangeSettles`, `SplicedAgain`). `ReportsChangeNothing` needs no
invariant, and `RecallAnswers` rests on lemmas about the recall itself: a selection of
the candidates exists and the best of it is among them. `BriefHonest` follows one brief through
its making: a request that is accepted is identified by the session its harness names and by nothing
sensitive (`IdentityIsRight`); the candidates have the ranks from 0 on, one each, by
counting, so the results are in order of worth (`RanksAreTaken`, `ResultsRanked`); and by induction over
them the brief fits, keeps the order and has left out only what did not fit (`FittingRight`).

**BridgeFiles.** `CallsAreSafe` needs to know where a program is: each directory belongs
to one of the projects a path may name, whatever is made inside it, renamed or put back
(`RegionsInv`, which asserts that such an assignment exists), writers have the root
locked (`PlacesInv`), and a program that has published knows it (`AnswerInv`). At the scale of
commands, `NothingIsReplaced` proves that only its user replaces what is in place. What a
command decides is a function of the files and the manifest it finds, so the lemmas on it
come first: what each kind of write comes to, what a plan that is ready claims and
writes (`ReadyPlanIs`), and by induction over the harnesses what a batch does (`BatchComes`). Three invariants
follow the decision to its end. `Typed`: only the holder of the lock commits, to the
store it was supplied with, and a manifest that is there is never committed with files still to
write. `AllHonest`: what the manifest, a copy of it or a commit claims is published or about to be, under
the store's own id. `Agreed`: unless somebody edited, a commit's manifest is still there
as expected, each write of a ready harness is there or still to do, and what was
answered is in place. `UsersKeepTheirFiles` and `ReadyMeansRecorded` follow. That inits agree
with themselves is about two batches, the second over what the first left. A write that was
ready is ready again with the same outcome, and one that was to be reviewed is to be reviewed
again, when it finds its own file, or one that another harness of the batch created
(`ReadyAgain`, `ReviewAgain`); a first batch grows harness by harness, so what it recorded for one
is in its end (`BehindEach`) and nothing else has claimed the file (`FirstClaims`); hence, harness
after harness, the second batch comes to the same manifest, answer and files (`BatchAgain`). A fourth
invariant, `AllSettled`, carries this through time: an init that commits is a first batch of which
some writes are still to do (`Half`), when it ends well its successor would find nothing to
do (`Firm`), and that stays so until an edit. `InitsAgree` follows.

**Certification.** `EvidenceInv` says that payloads were earned, that an index goes with the
payloads (`Sound`), and what a producer in the middle of its publication still has to write
(`WorkInv`), which is what a death between two files leaves behind. `QualityInv`: a report is what was judged of the
scenario at its place. `ProofInv`: every trial done was observed in a workspace that is
its own, for which scenario ids must be unique: `UniqueIdIsFree` shows, by counting,
that the search for a free suffix ends. `PassesAreEarned`, `EvidenceConsistent` and
`ProofsObserved` follow.

**Console**, in `Certification_proofs` beside the evidence it shows. The lemmas
`ClampedApp`, `SearchedApp` and `RefreshedApp` say what each pass over the lists leaves: entries
that say what is stored, all that the switches of now let through and nothing else
(`CachedRows` has both directions), the cursor on an entry.
`ConsoleInv` then says that a prompt is one of those a command opens, that one about a memory
tells what the rows `asked` say of it (no key moves a switch or the query under such a
prompt), and that between a tick and the next key the lists are those of the rows `shown`,
which are `asked` as long as no prompt is open, and `named` is what the open prompt names.
Every handler is shown to keep
the first two and to touch no stored memory but those `Named` (`KeyStep`); the tick
restores the third. `FramesHonest` and `ActsOnWhatWasShown` follow. For the stream,
`SplitJoin` says that splitting two pieces one after the other, the second behind the
rest of the first, comes to the same as splitting them at once; `TakeRight` that the same
is true of a read, also when the reader is skipping a line that is too long, because such a line
tells nothing wherever it is cut. `StreamInv` adds that, unless a rotation was missed, the
reader is where reading all of `basis` leaves it (`Reads`); `StreamSafe`, the safety part of
`StreamTold`, follows.

**Portability.** The invariant is about each row alone (`Sound`): it says what its source says,
its scope names somebody or is its own (`Identity`), and what the guard finds in it is labelled
unless the row is older than the guard (`Guarded`). `TableInv` adds that tombstoned rows
are redacted, `RecordsInv` that a set of sources is recorded once, `FilesInv` that every line
that can be imported is such a row, `SyncInv` that a preview holds what the files of its root said.
Rows being judged alone is what lets one invariant cover consolidation, sync, import
and clients on one table. All five properties of `derived` are theorems; the audit
and the chain of supersessions are recursive functions, which `StepByStep`
(induction over a set of numbers, from well-foundedness) and `Recursion` (a function defined step by
step exists) make provable.

**Assumptions.** Each module names its own. Null values are not ordinary values
(`NullsAssumption`, `StoreNullsAssumption`, `NoneAssumption`, `MissingAssumption`, ...); a plan writes no path twice and
the registry lists no harness twice (`WritesAssumption`, `BridgesAssumption`); requests, batches, manifests,
releases, scenarios and files have the shape their types give them
(`RequestsAssumption`, `PreflightsAssumption`, `ShelvesAssumption`, `WorkersAssumption`, `ReceiptsAssumption`, `ReleasesAssumption`, `SetupsAssumption`, `HooksAssumption`,
`JudgedAssumption`, `CertificationAssumption`, `SituationsAssumption`, ...); a store and the files that
exist at the start were written by the program or by somebody who does not use
names and ids that are made up later (`StoresAssumption`, `SourcesAssumption` and the
`FilesAssumption` of `Portability`). A run of each module evaluates them.

**Only model-checked.** Liveness is out of the prover's reach: `CommandsEnd`, `RunsEnd`, `RecallEnds`,
`StopsEnd`, `StreamCatchesUp` and `RunsEndInTime`. Of the properties of which only the
safety is proved (`DeadlineKept`, `SessionsServed`, `EvidencePublished`, `StreamTold`) the theorem names the parts. Not proved: `NotesSurvive`, `InitIsSettled` and `GuidanceCurrent` of
`InitHonest`. They are about all sixteen refreshes together, for texts whose sections stand in
the order of the template; for other texts they do not hold (see above), and each single
refresh is covered by `WritesKeepTheRest`, which needs no order.

## Not modelled

- Text: which patterns the sensitivity guard finds, how a line becomes terms,
  argument parsing, the wording of reports, summaries and guidance, the JSON of
  exports, manifests and reports. Where a property depends on the outcome (what is
  sensitive, which terms match, whether a line parses) it is a value of the model.
- The order in which SQLite ranks matches: any order is allowed.
- How the capability is generated, hashed and printed; the shape of audit targets.
- The console's layout, colours, ring drawing and animation, how many lines of a list
  are drawn, the text of DOX candidates (left out while sensitive ones are hidden), its
  integration and evidence panes, which only read; the welcome menu.
- Most forms a Revolve record may have, and the size limits of source files.
- Plugins and the site: assets, apart from what `Harnesses` has of a plugin's
  descriptor.

## Plan

What remains is proof: that the refreshes of one init settle together, from an invariant that
says of a text that its sections stand in the order of the template.
