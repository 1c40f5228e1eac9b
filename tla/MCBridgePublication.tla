---- MODULE MCBridgePublication ----
(* Small instances of BridgeFiles.  The harnesses have the plans of        *)
(* adapter_writes, one file of each kind: codex and pi share the skill.    *)
EXTENDS BridgeFiles

CONSTANTS p1, p2, p3, f1, f2, home, other, foreign, s1, s2, s3

W(path, kind) == [path |-> path, kind |-> kind]

Plans == "codex" :> <<W("skill", "file"), W("AGENTS", "markdown")>>
      @@ "claude" :> <<W("claude-skill", "file"), W("settings", "settings")>>
      @@ "pi" :> <<W("skill", "file"), W("extension", "file")>>
      @@ "zero" :> <<W("binding", "file")>>
      @@ "goose" :> <<>>

Ours(version, store) == Mine(Block(version, store))
UserText == [block |-> None, rest |-> "tidy"]
AlteredBlock == [block |-> Altered, rest |-> "none"]

Untouched == {Absent}

Before(paths, special) == [path \in paths |-> IF path \in DOMAIN special THEN special[path] ELSE Untouched]
EditsOf(paths, special) == [path \in paths |-> IF path \in DOMAIN special THEN special[path] ELSE {}]

\* Two first runs, over harnesses that share a file and one that names the store.
SharedPaths == {"skill", "AGENTS", "extension", "binding"}
FirstRuns ==
  [command |-> p1 :> "init" @@ p2 :> "init", target |-> p1 :> "none" @@ p2 :> "none",
   accept |-> {}, version |-> p1 :> 1 @@ p2 :> 1, harnesses |-> <<"codex", "pi", "zero">>,
   initial |-> Before(SharedPaths, "AGENTS" :> {Absent, UserText}),
   edited |-> EditsOf(SharedPaths, "skill" :> {Absent, Ours(1, None)} @@ "binding" :> {Absent, Ours(1, 1)}
                                     @@ "AGENTS" :> {[block |-> Block(1, None), rest |-> "tidy"]}),
   ids |-> 2, edits |-> 1]

\* An init, an activation by a newer version and a deactivation, among settings and
\* instructions that users write, with and without our block.
MixedPaths == {"claude-skill", "settings", "skill", "AGENTS"}
Activation ==
  [command |-> p1 :> "init" @@ p2 :> "activate" @@ p3 :> "deactivate",
   target |-> p1 :> "none" @@ p2 :> "codex" @@ p3 :> "claude",
   accept |-> {p2}, version |-> p1 :> 1 @@ p2 :> 2 @@ p3 :> 1, harnesses |-> <<"claude", "codex", "goose">>,
   initial |-> Before(MixedPaths, "settings" :> {Absent, UserText, [block |-> Block(1, None), rest |-> "tidy"]}
                                      @@ "AGENTS" :> {Absent, UserText}),
   edited |-> EditsOf(MixedPaths, "settings" :> {Absent, AlteredBlock, Ours(1, None), [block |-> Broken, rest |-> "untidy"]}
                                    @@ "AGENTS" :> {Absent, AlteredBlock, [block |-> Broken, rest |-> "none"]}),
   ids |-> 1, edits |-> 1]

BothSettings == {FirstRuns, Activation}

\* Init by two versions, one after the other.
UpgradeSettings ==
  {[Activation EXCEPT !.command = p1 :> "init" @@ p2 :> "init", !.target = p1 :> "none" @@ p2 :> "none",
                      !.accept = {}, !.version = p1 :> 1 @@ p2 :> 2, !.ids = 2, !.edits = 0]}

-----------------------------------------------------------------------------
(* One file after another: two first commits of the same files; a commit    *)
(* and a session that removes an old receipt; and readers.                  *)

Does(what, targets) == [does |-> what, targets |-> targets]
Commit == Does("publish", <<<<"sub", "new">>, <<"top">>>>)
Prune == Does("remove", <<<<"sub", "old">>>>)
Status == Does("read", <<<<"sub", "old">>>>)
Listing == Does("list", <<<<"sub">>>>)

TheTasks == {f1 :> Commit @@ f2 :> Commit, f1 :> Commit @@ f2 :> Prune, f1 :> Prune @@ f2 :> Status, f1 :> Commit @@ f2 :> Listing}

Blank == [name \in Names \cup {f1, f2} |-> Nothing]
User == [is |-> "file", of |-> "user"]
Empty == [d \in Dirs |-> IF d = foreign THEN [Blank EXCEPT !["old"] = User] ELSE Blank]
TheTrees ==
  {Empty, [Empty EXCEPT ![home] = [Blank EXCEPT !["sub"] = Real(s1)], ![s1] = [Blank EXCEPT !["old"] = User]]}

TheEntries ==
  "sub" :> {Nothing, LinkTo(foreign), User, Real(s1)} @@ "new" :> {Nothing, User, LinkTo(foreign)}
  @@ "old" :> {Nothing, User, LinkTo(foreign)} @@ "top" :> {User}
====
