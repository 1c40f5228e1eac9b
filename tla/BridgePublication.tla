---- MODULE BridgePublication ----
(***************************************************************************)
(* Publication of bridge files and of the activation manifest.  `init`     *)
(* applies the plans of all harnesses in one batch, `activate` and         *)
(* `deactivate` one plan each.  All of them load the manifest without the  *)
(* lock, prepare and publish under it, and only ever create: a file, a     *)
(* managed block or a manifest that would have to change is left to the    *)
(* user.  Users and other tools edit files and manifest without the lock;  *)
(* a process may die, or meet an I/O error, at any step.                   *)
(***************************************************************************)
EXTENDS Naturals, Sequences, SequencesExt, TLC

CONSTANTS
  Settings,     \* the situations to explore: one is chosen at the start
  Writes,       \* per harness: the sequence of its planned writes [path, kind]
  Bindings,     \* the paths whose content names the store
  Absent, Altered, Broken, Free, None

VARIABLE setting

Procs == DOMAIN setting.command
Command == setting.command      \* per process: "init", "activate" or "deactivate"
Target == setting.target        \* per process: the harness to activate or deactivate
Accept == setting.accept        \* the processes run with --accept-managed-block
Version == setting.version      \* per process: the version of the definitions built into it
Harnesses == setting.harnesses  \* the harnesses with a plan, in the order of their ids
Initial == setting.initial      \* per path: what may be there before Tree Ring was ever run
UserContent == setting.edited   \* per path: what a user may put there
MaxIds == setting.ids           \* bound: the store ids handed out
MaxEdits == setting.edits       \* bound: the edits of users

Paths == DOMAIN Initial

Ids == 0 .. MaxIds

(* Content is Tree Ring's part of a file (rendered by some version, for    *)
(* some store where the file names one; or edited by hand; or with broken  *)
(* markers; or not there) and what is around it: nothing, text in the      *)
(* layout Tree Ring writes, or in another one.                             *)
Block(version, store) == [by |-> version, store |-> store]
Blocks == [by : Nat, store : Nat \cup {None}]
Content == [block : Blocks \cup {None, Altered, Broken}, rest : {"none", "tidy", "untidy"}]

\* What a manifest records: per harness the digests of its files and blocks.
NoRecord == [files |-> <<>>, blocks |-> <<>>, by |-> 0]
NoManifest == [id |-> None, harness |-> <<>>]

IsDigests(d, values) == d \in [DOMAIN d -> values]
IsRecord(r) ==
  /\ r = [files |-> r.files, blocks |-> r.blocks, by |-> r.by]
  /\ IsDigests(r.files, Content) /\ IsDigests(r.blocks, Blocks) /\ r.by \in Nat
IsManifest(m) ==
  /\ m = [id |-> m.id, harness |-> [h \in DOMAIN m.harness |-> m.harness[h]]]
  /\ m.id \in Nat
  /\ \A h \in DOMAIN m.harness : IsRecord(m.harness[h])

\* The plans of adapter_writes: no harness writes a path twice.
ASSUME WritesAssumption ==
  \A h \in DOMAIN Writes :
    /\ Writes[h] \in Seq([path : {w.path : w \in ToSet(Writes[h])}, kind : {"file", "markdown", "settings"}])
    /\ \A j, k \in DOMAIN Writes[h] : Writes[h][j].path = Writes[h][k].path => j = k

\* The registry lists a harness once.
ASSUME BridgesAssumption ==
  \A s \in Settings :
    /\ s.command \in [DOMAIN s.version -> {"init", "activate", "deactivate"}]
    /\ \A p \in DOMAIN s.version : s.version[p] \in Nat \ {0}
    /\ Free \notin DOMAIN s.command
    /\ s.harnesses \in Seq(DOMAIN Writes)
    /\ \A j, k \in DOMAIN s.harnesses : s.harnesses[j] = s.harnesses[k] => j = k
    /\ \A p \in DOMAIN s.command : s.command[p] # "init" => s.target[p] \in ToSet(s.harnesses)
    /\ \A h \in ToSet(s.harnesses) : \A w \in ToSet(Writes[h]) : w.path \in DOMAIN s.initial
    /\ \A path \in DOMAIN s.initial : s.initial[path] \cup s.edited[path] \subseteq Content \cup {Absent}
    /\ s.ids \in Nat

ASSUME NullsAssumption ==
  /\ Absent \notin Content
  /\ None \notin Content
  /\ None \notin Nat
  /\ {None, Altered, Broken} \cap Blocks = {}
  /\ None # Broken

VARIABLES
  content,    \* per path: Absent or its content
  manifest,   \* NoManifest or [id, harness]: what is recorded per harness
  lock,
  pc, supplied, expected, next, todo, applied, answer, result,  \* of each process
  ids,        \* store ids handed out
  published,  \* history: what Tree Ring put at each path
  disturbed,  \* history: the processes during or after whose run users edited
  settled,    \* history: the last successful init, None after an edit
  base,       \* history: settled when each process started
  saved,      \* history: the manifests a user can restore
  edits

disk == <<content, manifest, published, saved>>
local == <<supplied, expected, next, todo, applied, answer>>
past == <<ids, disturbed, settled, base, edits>>
vars == <<content, manifest, lock, pc, supplied, expected, next, todo, applied, answer, result,
          ids, published, disturbed, settled, base, saved, edits, setting>>

TypeOK ==
  /\ content \in [Paths -> Content \cup {Absent}]
  /\ manifest # NoManifest =>
       IsManifest(manifest) /\ manifest.id \in Ids /\ DOMAIN manifest.harness \subseteq ToSet(Harnesses)
  /\ lock \in Procs \cup {Free}
  /\ pc \in [Procs -> {"idle", "loaded", "publish", "link", "manifest", "done", "dead"}]
  /\ \A p \in Procs : pc[p] \in {"loaded", "publish", "link", "manifest"} => supplied[p] # NoManifest
  /\ result \in [Procs -> {"none", "ok", "error", "refused", "indeterminate"}]
  /\ ids \in Ids

Init ==
  /\ setting \in Settings
  /\ content \in {c \in [Paths -> UNION {Initial[path] : path \in Paths}] :
                    \A path \in Paths : c[path] \in Initial[path]}
  /\ manifest = NoManifest
  /\ lock = Free
  /\ pc = [p \in Procs |-> "idle"]
  /\ supplied = [p \in Procs |-> NoManifest]
  /\ expected = [p \in Procs |-> NoManifest]
  /\ next = [p \in Procs |-> NoManifest]
  /\ todo = [p \in Procs |-> <<>>]
  /\ applied = [p \in Procs |-> FALSE]
  /\ answer = [p \in Procs |-> <<>>]
  /\ result = [p \in Procs |-> "none"]
  /\ ids = 0
  /\ published = {}
  /\ disturbed = {}
  /\ settled = None
  /\ base = [p \in Procs |-> None]
  /\ saved = {}
  /\ edits = 0

----
(* Preparing one write, with the file as it is found.  It comes to         *)
(* [verdict, after, own]: what the file must become, and whether the       *)
(* harness will own it as a whole or the block in it.                      *)

Record(h, m) == IF h \in DOMAIN m.harness THEN m.harness[h] ELSE NoRecord

Rendered(path, version, id) == Block(version, IF path \in Bindings THEN id ELSE None)

Mine(block) == [block |-> block, rest |-> "none"]

\* The digests other harnesses have recorded for a path.
OtherOwners(h, path, m) ==
  {m.harness[g].files[path] : g \in {g \in DOMAIN m.harness \ {h} : path \in DOMAIN m.harness[g].files}}

\* The table of prepare_complete_file.
Permitted(c, own, others, want) ==
  \/ c = Absent /\ own = None
  \/ c # Absent /\ own # None /\ c = own /\ \A o \in others : o = own /\ want = own
  \/ c # Absent /\ own = None /\ others # {} /\ \A o \in others : c = o /\ want = o

Ready(after, own) == [verdict |-> "ready", after |-> after, own |-> own]
Review == [verdict |-> "review", after |-> Absent, own |-> "nothing"]
Refused == [verdict |-> "refused", after |-> Absent, own |-> "nothing"]

CompleteFile(c, path, record, others, want) ==
  LET own == IF path \in DOMAIN record.files THEN record.files[path] ELSE None
  IN  IF Permitted(c, own, others, Mine(want)) THEN Ready(Mine(want), "file") ELSE Review

\* A file with a managed block keeps what is around the block.
WithBlock(want, rest) == Ready([block |-> want, rest |-> rest], "block")

MarkdownFile(c, path, record, want, accept) ==
  LET owned == path \in DOMAIN record.files
      recorded == path \in DOMAIN record.blocks
  IN  CASE c = Absent -> IF owned \/ recorded THEN Review ELSE WithBlock(want, "none")
        [] c # Absent /\ owned -> IF c = record.files[path] THEN Ready(Mine(want), "file") ELSE Review
        [] c # Absent /\ ~owned ->
             CASE c.block = Broken -> Refused
               [] c.block = None -> IF accept THEN WithBlock(want, c.rest) ELSE Review
               [] OTHER -> IF recorded /\ c.block # record.blocks[path] THEN Review ELSE WithBlock(want, c.rest)

Legacy(block, want) == block \in Blocks /\ block.by < want.by

Tidied(rest) == IF rest = "none" THEN "none" ELSE "tidy"

\* Handlers are inserted, kept, or replaced if they are those of an earlier version.
SettingsFile(c, path, record, want) ==
  LET owned == path \in DOMAIN record.files
      recorded == path \in DOMAIN record.blocks
      theirs == c.block \in {None, want}
      after == [block |-> want, rest |-> Tidied(c.rest)]
  IN  CASE c = Absent -> IF owned \/ recorded THEN Review ELSE Ready(Mine(want), "file")
        [] c # Absent /\ owned ->
             IF c = record.files[path] /\ (theirs \/ Legacy(c.block, want)) THEN Ready(after, "file") ELSE Review
        [] c # Absent /\ ~owned ->
             IF theirs \/ (recorded /\ Legacy(record.blocks[path], want) /\ Legacy(c.block, want))
             THEN Ready(after, "block") ELSE Review

Outcome(found, h, w, version, accept, m) ==
  LET want == Rendered(w.path, version, m.id)
  IN  CASE w.kind = "file" -> CompleteFile(found[w.path], w.path, Record(h, m), OtherOwners(h, w.path, m), want)
        [] w.kind = "markdown" -> MarkdownFile(found[w.path], w.path, Record(h, m), want, accept)
        [] w.kind = "settings" -> SettingsFile(found[w.path], w.path, Record(h, m), want)

\* Mutant of Own: the digests are not recorded.
OwnNothing(owned, new) == owned

\* upsert_owned_file and upsert_managed_block.
Own(owned, new) ==
  [path \in DOMAIN owned \cup DOMAIN new |-> IF path \in DOMAIN new THEN new[path] ELSE owned[path]]

(* prepare_apply: the writes in order, up to the first that is not ready.  *)
(* No other write of the harness has the path, so each of them finds what  *)
(* was recorded for it before.                                             *)
Prepared(found, h, version, accept, m) ==
  LET writes == Writes[h]
      outcome == [k \in DOMAIN writes |-> Outcome(found, h, writes[k], version, accept, m)]
      stops == {k \in DOMAIN writes : outcome[k].verdict # "ready"}
      first == CHOOSE k \in stops : \A j \in stops : k <= j
      at(path) == CHOOSE k \in DOMAIN writes : writes[k].path = path
      paths(own) == {writes[k].path : k \in {j \in DOMAIN writes : outcome[j].own = own}}
  IN  [verdict |-> IF stops = {} THEN "ready" ELSE outcome[first].verdict,
       files |-> Own(Record(h, m).files, [path \in paths("file") |-> outcome[at(path)].after]),
       blocks |-> Own(Record(h, m).blocks, [path \in paths("block") |-> outcome[at(path)].after.block]),
       writes |-> [k \in DOMAIN writes |-> [path |-> writes[k].path, after |-> outcome[k].after]]]

\* The entries of a sequence that are in a set.
Among(list, set) ==
  LET upto[k \in 0 .. Len(list)] ==
        IF k = 0 THEN <<>> ELSE upto[k - 1] \o (IF list[k] \in set THEN <<list[k]>> ELSE <<>>)
  IN  upto[Len(list)]

Changes(found, writes) == Among(writes, {w \in ToSet(writes) : w.after # found[w.path]})

\* files_require_existing_entry_mutation.
Mutates(found, writes) ==
  \E w \in ToSet(writes) : w.after # found[w.path] /\ (w.after = Absent \/ found[w.path] # Absent)

With(m, h, record) ==
  [id |-> m.id,
   harness |-> [g \in DOMAIN m.harness \cup {h} |-> IF g = h THEN record ELSE m.harness[g]]]

PlanRecord(plan, version) == [files |-> plan.files, blocks |-> plan.blocks, by |-> version]

----
(* The three commands, as what they decide under the lock: [verdict, next, *)
(* writes, answer], where m is the manifest they reconciled.               *)

Decided(verdict, next_, writes, answer_) ==
  [verdict |-> verdict, next |-> next_, writes |-> writes, answer |-> answer_]

\* blocked_activation: a harness without writes is only recorded.
BlockedRecord(h, m, version) == [files |-> Record(h, m).files, blocks |-> Record(h, m).blocks, by |-> version]

\* init never accepts a managed block.
Unattended == FALSE

\* One harness of a batch.
Add(batch, h, found, version) ==
  LET m == batch.next
      plan == Prepared(found, h, version, Unattended, m)
      says(word) == [batch.answer EXCEPT ![h] = word]
      clash == \E w \in ToSet(batch.writes), v \in ToSet(plan.writes) : w.path = v.path /\ w.after # v.after
      new == {v \in ToSet(plan.writes) : \A w \in ToSet(batch.writes) : w.path # v.path}
  IN  CASE batch.verdict = "refused" -> batch
        [] batch.verdict # "refused" /\ Writes[h] = <<>> ->
             Decided("ready", With(m, h, BlockedRecord(h, m, version)), batch.writes, says("blocked"))
        [] batch.verdict # "refused" /\ Writes[h] # <<>> ->
             CASE plan.verdict = "review" -> Decided("ready", m, batch.writes, says("review"))
               [] plan.verdict = "ready" /\ ~clash ->
                    Decided("ready", With(m, h, PlanRecord(plan, version)), batch.writes \o Among(plan.writes, new),
                            says("ready"))
               [] OTHER -> Decided("refused", m, batch.writes, batch.answer)

\* apply_bridge_plans_create_only, up to the decision.
Batch(found, order, version, m) ==
  LET upto[k \in 0 .. Len(order)] ==
        IF k = 0 THEN Decided("ready", m, <<>>, [h \in ToSet(order) |-> "review"])
                 ELSE Add(upto[k - 1], order[k], found, version)
  IN  upto[Len(order)]

\* Mutant of Answers: what could not be recorded is still reported as ready.
AnswersUnreviewed(batch, m) == batch.answer

\* What init says when the manifest is there and would have to change.
Answers(batch, m) ==
  [h \in DOMAIN batch.answer |-> IF Record(h, m) # Record(h, batch.next) THEN "review" ELSE batch.answer[h]]

\* What a batch comes to, with the files as they are found.
Concluded(batch, found, m, there) ==
  LET decision(verdict, answer_) == Decided(verdict, batch.next, batch.writes, answer_)
  IN  CASE batch.verdict = "refused" \/ Mutates(found, batch.writes) -> decision("refused", batch.answer)
        [] OTHER ->
             CASE there /\ batch.next # m -> decision("answer", Answers(batch, m))
               [] there /\ batch.next = m /\ Changes(found, batch.writes) = <<>> -> decision("answer", batch.answer)
               [] OTHER -> decision("commit", batch.answer)

DecideInit(found, order, version, m, there) == Concluded(Batch(found, order, version, m), found, m, there)

\* apply_bridge_plan, up to the decision.
DecideActivate(found, h, version, accept, m, there) ==
  LET plan == Prepared(found, h, version, accept, m)
      blocked == Writes[h] = <<>>
      record == IF blocked THEN BlockedRecord(h, m, version) ELSE PlanRecord(plan, version)
      changed == With(m, h, record)
      word == IF blocked THEN "blocked" ELSE "ready"
      decision(verdict, says) == Decided(verdict, changed, plan.writes, [g \in {h} |-> says])
  IN  CASE plan.verdict = "refused" -> decision("refused", "review")
        [] plan.verdict # "refused" /\ (plan.verdict = "review" \/ Mutates(found, plan.writes)
                                        \/ (there /\ changed # m)) -> decision("answer", "review")
        [] OTHER -> IF ~blocked /\ Changes(found, plan.writes) = <<>> /\ changed = m
                    THEN decision("answer", word) ELSE decision("commit", word)

\* What deactivate_bridge_plan would remove, and what it would go on owning.
DecideDeactivate(found, h, version, m, there) ==
  LET old == Record(h, m)
      here(path) == found[path] # Absent
      same(path) == here(path) /\ found[path] = old.files[path]
      shared(path) == same(path) /\ old.files[path] \in OtherOwners(h, path, m)
      settings(path) == \E w \in ToSet(Writes[h]) : w.path = path /\ w.kind = "settings"
      block(path) == /\ here(path) /\ found[path].block = old.blocks[path]
                     /\ settings(path) => old.blocks[path].by = version
      kept == [files |-> [path \in {q \in DOMAIN old.files : here(q) /\ ~same(q)} |-> old.files[path]],
               blocks |-> [path \in {q \in DOMAIN old.blocks : here(q) /\ ~block(q)} |-> old.blocks[path]],
               by |-> version]
      removals == \/ \E path \in DOMAIN old.files : same(path) /\ ~shared(path)
                  \/ \E path \in DOMAIN old.blocks : block(path)
      decision(verdict, word) == Decided(verdict, With(m, h, kept), <<>>, [g \in {h} |-> word])
  IN  CASE h \notin DOMAIN m.harness -> decision("answer", "none")
        [] h \in DOMAIN m.harness /\ (removals \/ (there /\ With(m, h, kept) # m)) ->
             decision("answer", "review")
        [] OTHER -> decision("commit", IF kept.files = <<>> /\ kept.blocks = <<>> THEN "none" ELSE "review")

Decision(p, m) ==
  LET there == manifest # NoManifest
  IN  CASE Command[p] = "init" -> DecideInit(content, Harnesses, Version[p], m, there)
        [] Command[p] = "activate" -> DecideActivate(content, Target[p], Version[p], p \in Accept, m, there)
        [] Command[p] = "deactivate" -> DecideDeactivate(content, Target[p], Version[p], m, there)

----
(* The steps of a command. *)

Goto(p, label) == pc' = [pc EXCEPT ![p] = label]

Ends(p, how) == Goto(p, "done") /\ result' = [result EXCEPT ![p] = how]

\* Before the lock: the manifest, or for init the first one of a new store.
Load(p) ==
  /\ pc[p] = "idle"
  /\ \/ /\ manifest # NoManifest
        /\ supplied' = [supplied EXCEPT ![p] = manifest]
        /\ Goto(p, "loaded")
        /\ UNCHANGED <<result, ids>>
     \/ /\ manifest = NoManifest /\ Command[p] = "init"
        /\ ids < MaxIds
        /\ ids' = ids + 1
        /\ supplied' = [supplied EXCEPT ![p] = [id |-> ids', harness |-> <<>>]]
        /\ Goto(p, "loaded")
        /\ UNCHANGED result
     \/ /\ manifest = NoManifest /\ Command[p] # "init"
        /\ Ends(p, "error")
        /\ UNCHANGED <<supplied, ids>>
  /\ disturbed' = disturbed \ {p}
  /\ base' = [base EXCEPT ![p] = settled]
  /\ UNCHANGED <<disk, lock, expected, next, todo, applied, answer, settled, edits>>

\* reconcile_manifest.
SameIdentity(p) == manifest # NoManifest => manifest.id = supplied[p].id

Current(p) == IF manifest = NoManifest THEN supplied[p] ELSE manifest

\* An init that succeeded, for the history.
Settle(p, how, answers) ==
  settled' = IF how = "ok" /\ Command[p] = "init" /\ p \notin disturbed
             THEN [by |-> Version[p], answer |-> answers] ELSE settled

\* What is decided under the lock; only a commit keeps it.
Prepare(p) ==
  /\ pc[p] = "loaded"
  /\ lock = Free
  /\ IF ~SameIdentity(p)
     THEN /\ Ends(p, "error")
          /\ UNCHANGED <<lock, expected, next, todo, applied, answer, settled>>
     ELSE \E d \in {Decision(p, Current(p))} :
              /\ answer' = [answer EXCEPT ![p] = d.answer]
              /\ CASE d.verdict = "refused" ->
                        Ends(p, "refused") /\ UNCHANGED <<lock, expected, next, todo, applied, settled>>
                   [] d.verdict = "answer" ->
                        /\ Ends(p, "ok") /\ Settle(p, "ok", d.answer)
                        /\ UNCHANGED <<lock, expected, next, todo, applied>>
                   [] d.verdict = "commit" ->
                        /\ Goto(p, "publish")
                        /\ lock' = p
                        /\ expected' = [expected EXCEPT ![p] = manifest]
                        /\ next' = [next EXCEPT ![p] = d.next]
                        /\ todo' = [todo EXCEPT ![p] = Changes(content, d.writes)]
                        /\ applied' = [applied EXCEPT ![p] = FALSE]
                        /\ UNCHANGED <<result, settled>>
  /\ UNCHANGED <<disk, supplied, ids, disturbed, base, edits>>

\* A commit that fails has changed nothing, or says that it does not know.
Stop(p, some) ==
  /\ Ends(p, IF some THEN "indeterminate" ELSE "error")
  /\ lock' = Free

\* commit_prepared_file up to the last look at the target; or an I/O error.
Check(p) ==
  /\ pc[p] = "publish"
  /\ todo[p] # <<>>
  /\ \/ content[Head(todo[p]).path] = Absent /\ Goto(p, "link") /\ UNCHANGED <<lock, result>>
     \/ Stop(p, applied[p])
  /\ UNCHANGED <<disk, local, past>>

Published(p, w) ==
  /\ content' = [content EXCEPT ![w.path] = w.after]
  /\ published' = published \cup {<<w.path, w.after>>}
  /\ applied' = [applied EXCEPT ![p] = TRUE]

\* Mutant of Link: rename instead of linkat, which replaces what is there.
LinkOver(p) ==
  /\ pc[p] = "link"
  /\ Published(p, Head(todo[p]))
  /\ todo' = [todo EXCEPT ![p] = Tail(@)]
  /\ Goto(p, "publish")
  /\ UNCHANGED <<manifest, saved, lock, result, supplied, expected, next, answer, past>>

\* publish_creation: linkat, then the temporary name and the directory.
Link(p) ==
  /\ pc[p] = "link"
  /\ \/ /\ content[Head(todo[p]).path] = Absent
        /\ Published(p, Head(todo[p]))
        /\ \/ todo' = [todo EXCEPT ![p] = Tail(@)] /\ Goto(p, "publish") /\ UNCHANGED <<lock, result>>
           \/ Stop(p, TRUE) /\ UNCHANGED todo
     \/ Stop(p, applied[p]) /\ UNCHANGED <<content, published, applied, todo>>
  /\ UNCHANGED <<manifest, saved, supplied, expected, next, answer, past>>

Finish(p) ==
  /\ Ends(p, "ok")
  /\ Settle(p, "ok", answer[p])
  /\ lock' = Free

\* persist_manifest up to its last look: nothing to do, or nothing there.
CheckManifest(p) ==
  /\ pc[p] = "publish"
  /\ todo[p] = <<>>
  /\ \/ manifest = expected[p] /\ manifest = next[p] /\ Finish(p)
     \/ /\ manifest = expected[p] /\ manifest = NoManifest
        /\ Goto(p, "manifest")
        /\ UNCHANGED <<lock, result, settled>>
     \/ Stop(p, applied[p]) /\ UNCHANGED settled
  /\ UNCHANGED <<disk, local, ids, disturbed, base, edits>>

LinkManifest(p) ==
  /\ pc[p] = "manifest"
  /\ \/ /\ manifest = NoManifest
        /\ manifest' = next[p]
        /\ saved' = saved \cup {next[p]}
        /\ Finish(p) \/ (Stop(p, TRUE) /\ UNCHANGED settled)
     \/ Stop(p, applied[p]) /\ UNCHANGED <<manifest, saved, settled>>
  /\ UNCHANGED <<content, published, local, ids, disturbed, base, edits>>

----
(* The rest of the world. *)

Working(p) == pc[p] \notin {"idle", "done", "dead"}

\* A process dies: its flock goes with it, what it published stays.
Crash(p) ==
  /\ Working(p)
  /\ Goto(p, "dead")
  /\ lock' = IF lock = p THEN Free ELSE lock
  /\ UNCHANGED <<disk, local, result, past>>

RunAgain(p) ==
  /\ pc[p] \in {"done", "dead"}
  /\ Goto(p, "idle")
  /\ result' = [result EXCEPT ![p] = "none"]
  /\ UNCHANGED <<lock, disk, local, past>>

Edited ==
  /\ edits < MaxEdits
  /\ edits' = edits + 1
  /\ disturbed' = {p \in Procs : pc[p] # "idle"}
  /\ settled' = None
  /\ UNCHANGED <<lock, pc, local, result, published, saved, ids, base>>

EditFile ==
  /\ Edited
  /\ \E path \in Paths : \E c \in UserContent[path] \ {content[path]} : content' = [content EXCEPT ![path] = c]
  /\ UNCHANGED manifest

\* The manifest is deleted, or restored from an earlier copy.
EditManifest ==
  /\ Edited
  /\ manifest' \in (saved \cup {NoManifest}) \ {manifest}
  /\ UNCHANGED content

Step(p) == Load(p) \/ Prepare(p) \/ Check(p) \/ Link(p) \/ CheckManifest(p) \/ LinkManifest(p)

Next ==
  /\ \/ \E p \in Procs : Step(p) \/ Crash(p) \/ RunAgain(p)
     \/ EditFile \/ EditManifest
  /\ UNCHANGED setting

Spec == Init /\ [][Next]_vars

----
(* Whatever happens between the last look and the publication, nothing     *)
(* that is there is replaced or removed by Tree Ring, only by its user.    *)
NothingReplaced ==
  [][edits' = edits => /\ \A path \in Paths : content[path] # Absent => content'[path] = content[path]
                       /\ manifest # NoManifest => manifest' = manifest]_vars

(* The manifest never claims a file that Tree Ring did not put there in    *)
(* just this form, and a file it claims names no other store: not for      *)
(* lookalikes, nor for what a crashed first run for another id left.       *)
OwnershipHonest ==
  manifest # NoManifest =>
    \A h \in DOMAIN manifest.harness : \A path \in DOMAIN manifest.harness[h].files :
      /\ <<path, manifest.harness[h].files[path]>> \in published
      /\ path \in Bindings => manifest.harness[h].files[path].block.store = manifest.id

Succeeded(p) == pc[p] = "done" /\ result[p] = "ok" /\ p \notin disturbed

(* Of several first runs at the same time at most one creates the store's  *)
(* identity; every init that succeeds reports the id of the manifest, as   *)
(* long as no user touches it.                                             *)
StoreIdAgreed ==
  \A p \in Procs : Succeeded(p) /\ Command[p] = "init" => manifest # NoManifest /\ supplied[p].id = manifest.id

\* A write of the plan is in place the way the manifest records it.
InPlace(h, w) ==
  LET record == manifest.harness[h]
  IN  /\ content[w.path] # Absent
      /\ \/ w.path \in DOMAIN record.files /\ content[w.path] = record.files[w.path]
         \/ w.path \in DOMAIN record.blocks /\ content[w.path].block = record.blocks[w.path]

(* A harness that a command reports as ready is recorded with the version  *)
(* of that command, and each of its files is in place: whatever the batch, *)
(* the existing manifest or an earlier failure made of its plan.           *)
ReadyMeansRecorded ==
  \A p \in Procs : Succeeded(p) /\ Command[p] # "deactivate" =>
    \A h \in DOMAIN answer[p] : answer[p][h] = "ready" =>
      /\ manifest # NoManifest
      /\ h \in DOMAIN manifest.harness
      /\ manifest.harness[h].by = Version[p]
      /\ \A w \in ToSet(Writes[h]) : InPlace(h, w)

(* After an init that succeeded, and without edits, another init of the    *)
(* same version succeeds and says the same: what the first one published   *)
(* and recorded is what the second one expects to find.                    *)
InitSettles ==
  \A p \in Procs :
    pc[p] = "done" /\ p \notin disturbed /\ Command[p] = "init" /\ base[p] # None /\ base[p].by = Version[p]
      => result[p] = "ok" /\ answer[p] = base[p].answer

(* docs/protocol/harness-activation.md: an existing bridge that would need *)
(* mutation is preserved and reported as needs-user-review; so no init     *)
(* fails because of one.                                                   *)
ExistingBridgesReported ==
  \A p \in Procs : Command[p] = "init" => result[p] # "refused"

(* What is not Tree Ring's is neither replaced nor claimed, whoever writes *)
(* the same files at the same time and wherever a command dies.            *)
UsersKeepTheirFiles == [](TypeOK /\ OwnershipHonest) /\ NothingReplaced

(* Inits agree: on one store id when several run first, and with           *)
(* themselves when they run again.                                         *)
InitsAgree == StoreIdAgreed /\ InitSettles
====
