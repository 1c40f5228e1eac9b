---- MODULE ProjectSetup ----
(***************************************************************************)
(* A project and the commands run in it.  init scans for harnesses, writes *)
(* and refreshes the guidance, opens the store, publishes the bridges with *)
(* their manifest (BridgePublication has that step in detail) and reports. *)
(* Users edit the guidance meanwhile; a second init may run; a process may *)
(* die, or fail to write, at any step.  Every other command opens the      *)
(* store in its own way or not at all.                                     *)
(***************************************************************************)
EXTENDS Guidance, Harnesses, TLC

CONSTANTS
  Inits,   \* runs of init
  Setups   \* the situations to explore, with their bounds: one is chosen at the start

VARIABLES
  setup,
  docs,      \* per guidance file: Missing or its text
  root,      \* whether .tree-ring exists
  store,     \* its schema version, 0 without a store
  manifest,  \* None or [by, harness]
  taken,     \* paths a bridge would be published at that exist
  env,       \* markers and plugin
  proved,    \* harnesses with a receipt of this manifest
  pc, step, seen, scanned, expected, reviewed, report, why,  \* of each init
  safe,      \* history, per file: the notes an init keeps
  alone,     \* history: inits that nothing overlapped, nor changed the guidance since
  last,      \* history: the command a step was
  edits, runs

disk == <<docs, root, store, manifest, taken>>
process == <<pc, step, seen, scanned, expected, reviewed, report, why>>
setupVars == <<setup, disk, env, proved, process, safe, alone, last, edits, runs>>

SetupInit ==
  /\ setup \in Setups
  /\ docs = setup.docs
  /\ root = (setup.store # 0 \/ \E d \in Docs : setup.docs[d] # Missing)
  /\ store = setup.store
  /\ manifest = setup.manifest
  /\ taken = setup.taken
  /\ env \in setup.env
  /\ proved = {}
  /\ pc = [p \in Inits |-> "idle"]
  /\ step = [p \in Inits |-> 0]
  /\ seen = [p \in Inits |-> Missing]
  /\ scanned = [p \in Inits |-> {}]
  /\ expected = [p \in Inits |-> None]
  /\ reviewed = [p \in Inits |-> {}]
  /\ report = [p \in Inits |-> None]
  /\ why = [p \in Inits |-> "none"]
  /\ safe = [d \in Docs |-> {}]
  /\ alone = {}
  /\ last = None
  /\ edits = 0 /\ runs = 0

Goto(p, place) == pc' = [pc EXCEPT ![p] = place]
Fail(p, reason) == Goto(p, "failed") /\ why' = [why EXCEPT ![p] = reason]
Running == {p \in Inits : pc[p] \notin {"idle", "done", "failed", "dead"}}
Aside == last' = None /\ UNCHANGED <<setup, env, proved, runs>>

----
(* init *)

Candidates(e) == {h \in Harnesses : Detected(h, e)} \cup {"agent-zero"}

\* plan_init.
Begin(p) ==
  /\ pc[p] = "idle" /\ p \in setup.inits /\ (setup.overlap \/ Running = {})
  /\ scanned' = [scanned EXCEPT ![p] = Candidates(env)]
  /\ Goto(p, "root")
  /\ alone' = IF Running = {} THEN {p} ELSE {}
  /\ Aside /\ UNCHANGED <<disk, step, seen, expected, reviewed, report, why, safe, edits>>

MakeRoot(p) ==
  /\ pc[p] = "root"
  /\ root' = TRUE /\ Goto(p, "guide") /\ step' = [step EXCEPT ![p] = 1]
  /\ Aside /\ UNCHANGED <<docs, store, manifest, taken, seen, scanned, expected, reviewed, report, why, safe, alone, edits>>

\* write_if_missing_or_backfill and maybe_backfill_generated_file, up to the
\* write: nothing to do, or a text to write, made of the one read here.
Inspect(p) ==
  LET s == Steps[step[p]] text == docs[s[1]] IN
  /\ pc[p] = "guide"
  /\ IF text = Missing /\ step[p] > 3
     THEN Fail(p, "io") /\ UNCHANGED <<step, seen>>
     ELSE IF Refreshed(s, text) = text
     THEN /\ step' = [step EXCEPT ![p] = @ + 1]
          /\ Goto(p, IF step[p] = Len(Steps) THEN "store" ELSE "guide")
          /\ UNCHANGED <<seen, why>>
     ELSE seen' = [seen EXCEPT ![p] = text] /\ Goto(p, "write") /\ UNCHANGED <<step, why>>
  /\ Aside /\ UNCHANGED <<disk, scanned, expected, reviewed, report, safe, alone, edits>>

WriteDoc(p) ==
  LET s == Steps[step[p]] IN
  /\ pc[p] = "write"
  /\ docs' = [docs EXCEPT ![s[1]] = Refreshed(s, seen[p])]
  /\ step' = [step EXCEPT ![p] = @ + 1]
  /\ seen' = [seen EXCEPT ![p] = Missing]
  /\ Goto(p, IF step[p] = Len(Steps) THEN "store" ELSE "guide")
  /\ Aside /\ UNCHANGED <<root, store, manifest, taken, scanned, expected, reviewed, report, why, safe, alone, edits>>

\* fs::write fails, or the process dies in it, after it truncated the file.
TearDoc(p) ==
  LET d == Steps[step[p]][1] IN
  /\ pc[p] = "write"
  /\ \E k \in {0, 2} : docs' = [docs EXCEPT ![d] = SubSeq(Refreshed(Steps[step[p]], seen[p]), 1, k)]
  /\ safe' = [safe EXCEPT ![d] = {}]
  /\ Fail(p, "io")
  /\ Aside /\ UNCHANGED <<root, store, manifest, taken, step, seen, scanned, expected, reviewed, report, alone, edits>>

\* write_context, open_with_context: no coordinator token may be blank.
OpenStore(p, blank) ==
  /\ pc[p] = "store"
  /\ IF blank THEN Fail(p, "token") /\ UNCHANGED store
     ELSE IF store > 3 THEN Fail(p, "store") /\ UNCHANGED store
     ELSE store' = 3 /\ Goto(p, "load") /\ UNCHANGED why
  /\ Aside /\ UNCHANGED <<docs, root, manifest, taken, step, seen, scanned, expected, reviewed, report, safe, alone, edits>>

\* load_init_manifest_no_follow.
LoadManifest(p) ==
  /\ pc[p] = "load"
  /\ expected' = [expected EXCEPT ![p] = manifest]
  /\ Goto(p, "bridges")
  /\ Aside /\ UNCHANGED <<disk, step, seen, scanned, reviewed, report, why, safe, alone, edits>>

Recorded(h) ==
  IF manifest = None \/ h \notin DOMAIN manifest.harness THEN None ELSE manifest.harness[h]

Planned(h) == [state |-> PlanState(h, env), files |-> PlanFiles(h), blocks |-> PlanBlocks(h)]

\* apply_bridge_plans_create_only as a whole.
Bridges(p) ==
  LET free == {h \in scanned[p] : PlanPaths(h) \cap taken = {}}
      first == [by |-> p, harness |-> [h \in free |-> Planned(h)]] IN
  /\ pc[p] = "bridges"
  /\ IF manifest # None /\ expected[p] = None
     THEN Fail(p, "identity") /\ UNCHANGED <<manifest, taken, reviewed>>
     ELSE IF /\ "claude-code" \in scanned[p] /\ Recorded("claude-code") = None
             /\ PlanFiles("claude-code") \cap taken = {} /\ PlanBlocks("claude-code") \cap taken # {}
     THEN Fail(p, "settings") /\ UNCHANGED <<manifest, taken, reviewed>>
     ELSE IF manifest # None
     THEN /\ reviewed' = [reviewed EXCEPT ![p] = scanned[p] \ DOMAIN manifest.harness]
          /\ Goto(p, "report") /\ UNCHANGED <<manifest, taken, why>>
     ELSE IF ~ValidManifest(first.harness)
     THEN Fail(p, "manifest") /\ UNCHANGED <<manifest, taken, reviewed>>
     ELSE /\ manifest' = first
          /\ taken' = taken \cup UNION {PlanPaths(h) : h \in free}
          /\ reviewed' = [reviewed EXCEPT ![p] = scanned[p] \ free]
          /\ Goto(p, "report") /\ UNCHANGED why
  /\ Aside /\ UNCHANGED <<docs, root, store, step, seen, scanned, expected, report, safe, alone, edits>>

StatusNow(h) == Status(h, env, Recorded(h), h \in proved)

\* The status, overridden by what needs review, of the harnesses first found.
Report(p) ==
  /\ pc[p] = "report"
  /\ report' = [report EXCEPT ![p] =
       [h \in scanned[p] |-> IF h \in reviewed[p] THEN "needs_user_review" ELSE StatusNow(h)]]
  /\ Goto(p, "done")
  /\ Aside /\ UNCHANGED <<disk, step, seen, scanned, expected, reviewed, why, safe, alone, edits>>

Die(p) ==
  /\ p \in Running
  /\ Goto(p, "dead")
  /\ Aside /\ UNCHANGED <<disk, step, seen, scanned, expected, reviewed, report, why, safe, alone, edits>>

----
(* Users, harnesses and other commands *)

Notes(text) == IF text = Missing THEN {} ELSE {text[k][2] : k \in {k \in DOMAIN text : text[k][1] = "note"}}

\* A user changes a guidance file; a note counts as safe if an init run now
\* would keep it and none is about to write what it read before.
Edit(d, text) ==
  /\ edits < setup.edits
  /\ docs' = [docs EXCEPT ![d] = text]
  /\ safe' = [safe EXCEPT ![d] =
       LET kept == Notes(text) \cap Notes(Settled(d, text)) IN
       IF \E p \in Inits : pc[p] = "write" /\ Steps[step[p]][1] = d THEN @ \cap kept ELSE kept]
  /\ edits' = edits + 1
  /\ alone' = {}
  /\ Aside /\ UNCHANGED <<root, store, manifest, taken, process>>

EditDoc(d) ==
  /\ docs[d] # Missing
  /\ \E k \in setup.places \cap (1 .. Len(docs[d]) + 1) :
       \/ Edit(d, SubSeq(docs[d], 1, k - 1) \o <<<<"note", edits>>>> \o SubSeq(docs[d], k, Len(docs[d])))
       \/ k <= Len(docs[d]) /\ docs[d][k][1] # "note" /\ Edit(d, [docs[d] EXCEPT ![k][2] = "reworded"])
       \/ k <= Len(docs[d]) /\ Edit(d, SubSeq(docs[d], 1, k - 1) \o SubSeq(docs[d], k + 1, Len(docs[d])))

\* The Agent Zero plugin is installed, upgraded, disabled or removed.
ChangePlugin(plugin) ==
  /\ edits < setup.edits /\ plugin # env.plugin
  /\ env' = [env EXCEPT !.plugin = plugin]
  /\ edits' = edits + 1
  /\ alone' = {} /\ last' = None
  /\ UNCHANGED <<setup, disk, proved, process, safe, runs>>

\* integrations hook at the start of a session, and integrations preflight.
HookOutcome(h) ==
  IF ~root THEN "silent"
  ELSE IF ~Eligible(h, Recorded(h), env) \/ store \notin {2, 3} THEN "error" ELSE "context"

Preflight(h) ==
  /\ HookOutcome(h) = "context"
  /\ proved' = proved \cup {h}
  /\ last' = None
  /\ UNCHANGED <<setup, disk, env, process, safe, alone, edits, runs>>

\* How run treats the store for each command.
Reports == {"welcome", "init --dry-run", "update", "scan", "status", "certify", "recall-quality", "policy status",
            "policy audit", "import --dry-run", "audit", "consolidate --dry-run", "maintain", "dox --dry-run",
            "revolve --dry-run"}

Writers == {"remember", "capture", "evidence", "recall", "forget", "export", "import", "consolidate",
            "maintain --apply", "policy enable", "policy rotate", "policy disable", "dox", "revolve", "tui"}

\* Mutant of Opening: maintain prepares for its repairs before it is told to.
OpeningEarly(c) == IF c \in Writers \cup {"maintain"} THEN "writable" ELSE "read-only"
Opening(c) ==
  CASE c \in Writers -> "writable"
    [] c \in {"policy status", "policy audit", "audit", "consolidate --dry-run", "maintain"} -> "read-only"
    [] OTHER -> "none"

\* A writable command creates or migrates the store before it does anything.
Run(c, blank) ==
  /\ runs < setup.runs
  /\ IF Opening(c) = "writable" /\ ~blank /\ store <= 3
     THEN root' = TRUE /\ store' = 3 ELSE UNCHANGED <<root, store>>
  /\ last' = c /\ runs' = runs + 1
  /\ UNCHANGED <<setup, docs, manifest, taken, env, proved, process, safe, alone, edits>>

SetupNext ==
  \/ \E p \in Inits : \/ Begin(p) \/ MakeRoot(p) \/ Inspect(p) \/ WriteDoc(p) \/ TearDoc(p)
                      \/ \E blank \in BOOLEAN : OpenStore(p, blank)
                      \/ LoadManifest(p) \/ Bridges(p) \/ Report(p) \/ Die(p)
  \/ \E d \in setup.editable : EditDoc(d)
  \/ \E plugin \in setup.plugins : ChangePlugin(plugin)
  \/ \E h \in Harnesses : Preflight(h)
  \/ \E c \in Reports \cup Writers, blank \in BOOLEAN : Run(c, blank)

\* None is no report, no record and no manifest; a manifest that is there at the
\* start records harnesses; a guidance file that is there has a text.
ASSUME SetupsAssumption ==
  /\ None \notin Reports
  /\ \A s \in Setups :
       /\ s.store \in Nat
       /\ s.manifest # None => \A h \in DOMAIN s.manifest.harness : s.manifest.harness[h] # None
       /\ DOMAIN s.docs = Docs
       /\ \A d \in Docs : s.docs[d] # Missing => s.docs[d] \in Seq({s.docs[d][k] : k \in DOMAIN s.docs[d]})
  /\ LET plan == [h \in Harnesses |-> [state |-> PlanState(h, None), files |-> PlanFiles(h), blocks |-> PlanBlocks(h)]]
     IN  /\ \A h \in Harnesses : plan[h] # None
         /\ \A p \in Inits, free \in SUBSET Harnesses : [by |-> p, harness |-> [h \in free |-> plan[h]]] # None

----
(* Properties *)

(* agent_awareness.rs:340: what users add to the guidance outside the      *)
(* managed sections is still there after any number of runs, also of two   *)
(* at a time, while sections are only reworded or removed and so stand in  *)
(* the order of the template; only an edit between an init's reading and   *)
(* its writing, or a torn write, loses a note.                             *)
NotesSurvive == \A d \in Docs : safe[d] \subseteq Notes(docs[d])

(* A run that nothing disturbed leaves guidance that the next run finds    *)
(* nothing to change in, whichever sections, in the order of the template, *)
(* it started from.                                                        *)
InitIsSettled == \A p \in alone : pc[p] = "done" => \A d \in Docs : Settled(d, docs[d]) = docs[d]

(* ... and what an agent reads first under each heading that is there is   *)
(* this program's wording, in every generated file in which the section's  *)
(* end can be told.                                                        *)
GuidanceCurrent ==
  \A p \in alone : pc[p] = "done" =>
    \A k \in DOMAIN Steps :
      LET text == docs[Steps[k][1]] at == Find(text, Steps[k][2], 1) IN
      Generated(text) /\ Find(text, Steps[k][3], 1) # 0 /\ at # 0 => text[at][2] = Current

(* What the adapters plan, in any combination of harnesses, is what        *)
(* validate_manifest lets a manifest record; an init on its own meets no   *)
(* manifest but its own.                                                   *)
InitDoesNotBlockItself ==
  \A p \in Inits : why[p] # "manifest" /\ (p \in alone => why[p] # "identity")

(* A harness that init reports as configured can start: its record and the *)
(* store pass the checks of the hook or preflight it will call.            *)
ReportedReadyStarts ==
  \A p \in alone : pc[p] = "done" =>
    \A h \in DOMAIN report[p] : report[p][h] \in Ready => HookOutcome(h) = "context"

(* integrations.rs:158: no status claims activity without a record and a   *)
(* receipt, nor, for Agent Zero, once its plugin is gone or changed.       *)
StatusHonest ==
  \A h \in Harnesses : StatusNow(h) \in Active =>
    Recorded(h) # None /\ h \in proved /\ (h = "agent-zero" => Eligible(h, Recorded(h), env))

(* main.rs:634: no report or dry run creates the root or a store, or       *)
(* migrates one.                                                           *)
ReportsChangeNothing == [][last' \in Reports => UNCHANGED disk]_setupVars

(* init keeps what users wrote, leaves guidance and manifest as its next   *)
(* run wants them, and what it and status report of a harness is so.       *)
InitHonest ==
  /\ NotesSurvive /\ InitIsSettled /\ GuidanceCurrent
  /\ InitDoesNotBlockItself /\ ReportedReadyStarts /\ StatusHonest
====
