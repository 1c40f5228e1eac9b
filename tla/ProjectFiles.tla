---- MODULE ProjectFiles ----
(***************************************************************************)
(* How commands reach the files of a project, system call by system call.  *)
(* A command opens the project's path once and keeps the directory; from   *)
(* there it walks down by one real directory at a time, creates by linking *)
(* a finished temporary file, removes what it has just opened, and looks   *)
(* again and again whether the path still names the directory it holds.    *)
(* Meanwhile people rename, link, create and delete at any of these places.*)
(***************************************************************************)
EXTENDS Naturals, Sequences

CONSTANTS
  Programs,
  Tasks,        \* the situations to explore: what each program does, with which files
  Home, Other,  \* directories that the path of the project may name
  Foreign,      \* a directory that is only ever linked to
  Spare,        \* directories that programs make
  Theirs,       \* directories below the project that people make, rename away and put back
  Trees,        \* what the directories may hold at the start
  UserEntries,  \* per name: what people may put there
  Nothing,
  MaxMoves      \* bound: what people do

Dirs == {Home, Other, Foreign} \cup Spare \cup Theirs

Real(d) == [is |-> "dir", of |-> d]
LinkTo(d) == [is |-> "link", of |-> d]
FileBy(who) == [is |-> "file", of |-> who]
IsA(kind, entry) == entry # Nothing /\ entry.is = kind

Names == DOMAIN UserEntries

\* What may be there before any program has run; people make directories only in the project.
UserEntry ==
  {Nothing} \cup [is : {"dir"}, of : Theirs] \cup [is : {"link"}, of : Dirs]
    \cup [is : {"file"}, of : Programs \cup {"user"}]

\* A removal, a reading or a listing is of one file or directory.
ASSUME FilesAssumption ==
  /\ Nothing \notin Dirs \cup Programs
  /\ Foreign \notin {Home, Other} \cup Spare \cup Theirs
  /\ ({Home, Other} \cup Theirs) \cap Spare = {} /\ {Home, Other} \cap Theirs = {}
  /\ \A name \in Names : UserEntries[name] \subseteq UserEntry
  /\ \A start \in Trees :
       /\ start \in [Dirs -> [Names \cup Programs -> UserEntry]]
       /\ \A d \in Dirs \ {Home} : \A name \in Names \cup Programs : ~IsA("dir", start[d][name])
  /\ \A task \in Tasks : \A p \in Programs :
       /\ task[p].does \in {"publish", "remove", "read", "list"}
       /\ task[p].targets \in Seq(Seq(Names) \ {<<>>}) \ {<<>>}
       /\ task[p].does # "publish" => Len(task[p].targets) = 1

VARIABLES
  task,
  place,  \* what the path of the project names
  tree,   \* per directory: what its names hold; the temporary name of a program is the program
  flocks, \* per directory: the program that has locked it
  at,     \* of each program: its next step
  root,   \* of each program: the directory the path named when it started
  dir,    \* of each program: the directory it has walked to
  left,   \* of each program: its targets, the first one without what is walked already
  made,   \* of each program: whether it knows of a file it has published
  said,   \* of each program: its answer
  linked, \* history: the programs that have published
  bound,  \* history: the programs whose path named their root at or after their last effect
  moves

fileVars == <<task, place, tree, flocks, at, root, dir, left, made, said, linked, bound, moves>>

FilesInit ==
  /\ task \in Tasks
  /\ place = Real(Home)
  /\ tree \in Trees
  /\ flocks = [d \in Dirs |-> Nothing]
  /\ at = [p \in Programs |-> "open"]
  /\ root = [p \in Programs |-> Nothing]
  /\ dir = [p \in Programs |-> Nothing]
  /\ left = [p \in Programs |-> task[p].targets]
  /\ made = [p \in Programs |-> FALSE]
  /\ said = [p \in Programs |-> "none"]
  /\ linked = {} /\ bound = {} /\ moves = 0

Publishes(p) == task[p].does = "publish"
Lists(p) == task[p].does = "list"
Reads(p) == task[p].does = "read" \/ Lists(p)

Name(p) == Head(Head(left[p]))
There(p) == tree[dir[p]][Name(p)]
Holds(d, name, entry) == tree' = [tree EXCEPT ![d][name] = entry]

Goes(p, step) == at' = [at EXCEPT ![p] = step] /\ UNCHANGED <<flocks, said>>

Concludes(p, answer) ==
  /\ at' = [at EXCEPT ![p] = "done"]
  /\ said' = [said EXCEPT ![p] = answer]
  /\ flocks' = [d \in Dirs |-> IF flocks[d] = p THEN Nothing ELSE flocks[d]]

Answer(applied) == IF applied THEN "indeterminate" ELSE "error"
Errs(p) == Concludes(p, Answer(made[p]))

Bound(p) == place = Real(root[p])
Counts(p) == bound' = IF Bound(p) THEN bound \cup {p} ELSE bound \ {p}

----
(* Reaching a directory *)

\* open_project_root_no_follow: a link in the path's last place is refused.
OpenProject(p) ==
  /\ at[p] = "open"
  /\ IF IsA("dir", place)
     THEN /\ root' = [root EXCEPT ![p] = place.of] /\ dir' = [dir EXCEPT ![p] = place.of]
          /\ Goes(p, "opened")
     ELSE Errs(p) /\ UNCHANGED <<root, dir>>
  /\ UNCHANGED <<tree, left, made, linked, bound>>

\* What follows a look at the path that finds the directory there.
CreateOrder == [opened |-> "lock", locked |-> "walk", next |-> "walk", seen |-> "temp"]
RemoveOrder == [opened |-> "lock", locked |-> "walk", seen |-> "reopen"]
ReadOrder == [opened |-> "walk"]
AfterBinding(p) == IF Publishes(p) THEN CreateOrder ELSE IF Reads(p) THEN ReadOrder ELSE RemoveOrder

\* ensure_root_binding, wherever a command calls it; two looks in a row are one.
EnsureBinding(p) ==
  /\ at[p] \in {"opened", "locked", "next", "seen", "final"}
  /\ IF ~Bound(p) THEN Errs(p)
     ELSE IF at[p] = "final" THEN Concludes(p, "ok") ELSE Goes(p, AfterBinding(p)[at[p]])
  /\ UNCHANGED <<tree, root, dir, left, made, linked, bound>>

\* lock_manifest: the directory that is held is locked, whatever the path names now.
Locked(p) == root[p]

LockManifest(p) ==
  /\ at[p] = "lock"
  /\ flocks[Locked(p)] = Nothing
  /\ at' = [at EXCEPT ![p] = "locked"]
  /\ flocks' = [flocks EXCEPT ![Locked(p)] = p]
  /\ UNCHANGED <<tree, root, dir, left, made, said, linked, bound>>

\* Mutant of Child: without O_NOFOLLOW.
ChildFollowed(entry) == IF IsA("dir", entry) \/ IsA("link", entry) THEN {entry.of} ELSE {}

\* open_child_directory: a real directory, never what a link leads to.
Child(entry) == IF IsA("dir", entry) THEN {entry.of} ELSE {}

Descends(p, d) ==
  /\ dir' = [dir EXCEPT ![p] = d]
  /\ left' = [left EXCEPT ![p] = <<Tail(Head(@))>> \o Tail(@)]
  /\ Goes(p, "walk")

\* All directories are walked; a listing walks the last one, too.
Arrived(p) == Len(Head(left[p])) = IF Lists(p) THEN 0 ELSE 1

\* resolve_target_optional, one name at a time.
Walk(p) ==
  /\ at[p] = "walk"
  /\ \/ Arrived(p) /\ Goes(p, "look") /\ UNCHANGED <<dir, left>>
     \/ /\ ~Arrived(p)
        /\ \/ \E d \in Child(There(p)) : Descends(p, d)
           \/ /\ There(p) = Nothing
              /\ IF Publishes(p) THEN Goes(p, "mkdir") ELSE Concludes(p, "absent")
              /\ UNCHANGED <<dir, left>>
           \/ There(p) # Nothing /\ Child(There(p)) = {} /\ Errs(p) /\ UNCHANGED <<dir, left>>
  /\ UNCHANGED <<tree, root, made, linked, bound>>

\* Directories nobody has used yet.
Unused ==
  {d \in Spare : /\ \A p \in Programs : dir[p] # d
                 /\ \A e \in Dirs : \A name \in DOMAIN tree[e] : tree[e][name] # Real(d)
                 /\ \A name \in DOMAIN tree[d] : tree[d][name] = Nothing}

\* create_child_directory: one that is there by now is taken as it is.
MakeDirectory(p) ==
  /\ at[p] = "mkdir"
  /\ Goes(p, "descend")
  /\ IF There(p) = Nothing
     THEN Unused # {} /\ Holds(dir[p], Name(p), Real(CHOOSE d \in Unused : TRUE))
     ELSE UNCHANGED tree
  /\ UNCHANGED <<root, dir, left, made, linked, bound>>

Descend(p) ==
  /\ at[p] = "descend"
  /\ IF Child(There(p)) = {} THEN Errs(p) /\ UNCHANGED <<dir, left>>
     ELSE \E d \in Child(There(p)) : Descends(p, d)
  /\ UNCHANGED <<tree, root, made, linked, bound>>

----
(* Creating, removing and reading *)

\* directory_entries
ListDirectory(p) ==
  /\ at[p] = "look" /\ Lists(p)
  /\ Goes(p, "final")
  /\ Counts(p)
  /\ UNCHANGED <<tree, root, dir, left, made, linked>>

\* snapshot_optional: what is opened must be a regular file.
Look(p) ==
  /\ at[p] \in {"look", "reopen"} /\ ~Lists(p)
  /\ IF There(p) = Nothing THEN IF Publishes(p) THEN Goes(p, "seen") ELSE Concludes(p, "absent")
     ELSE IF Publishes(p) \/ ~IsA("file", There(p)) THEN Errs(p)
     ELSE Goes(p, IF Reads(p) THEN "final" ELSE IF at[p] = "look" THEN "seen" ELSE "unlink")
  /\ IF Reads(p) THEN Counts(p) ELSE UNCHANGED bound
  /\ UNCHANGED <<tree, root, dir, left, made, linked>>

\* publish_creation writes and syncs a temporary file of its own.
WriteTemp(p) ==
  /\ at[p] = "temp"
  /\ Holds(dir[p], p, FileBy(p))
  /\ Goes(p, "absent")
  /\ UNCHANGED <<root, dir, left, made, linked, bound>>

\* An error before publication: the temporary file is removed, if that works.
Cleans(p) == (Holds(dir[p], p, Nothing) \/ UNCHANGED tree) /\ Errs(p)

\* ensure_entry_absent
EnsureAbsent(p) ==
  /\ at[p] = "absent"
  /\ IF There(p) = Nothing THEN Goes(p, "link") /\ UNCHANGED tree ELSE Cleans(p)
  /\ UNCHANGED <<root, dir, left, made, linked, bound>>

\* linkat: what is there by now is not replaced.
LinkFinal(p) ==
  /\ at[p] = "link"
  /\ IF There(p) = Nothing
     THEN Holds(dir[p], Name(p), FileBy(p)) /\ Goes(p, "tidy") /\ linked' = linked \cup {p} /\ Counts(p)
     ELSE Cleans(p) /\ UNCHANGED <<linked, bound>>
  /\ UNCHANGED <<root, dir, left, made>>

\* MutationError::after_publication: an error that says what is published.
Knows(p) == made' = [made EXCEPT ![p] = TRUE]

Tidy(p) ==
  /\ at[p] = "tidy"
  /\ Knows(p)
  /\ \/ Holds(dir[p], p, Nothing) /\ Goes(p, "sync")
     \/ (Holds(dir[p], p, Nothing) \/ UNCHANGED tree) /\ Concludes(p, Answer(made'[p]))
  /\ UNCHANGED <<root, dir, left, linked, bound>>

\* unlinkat, by name: one that has gone meanwhile is as good as removed.
Unlink(p) ==
  /\ at[p] = "unlink"
  /\ IF IsA("dir", There(p)) THEN Errs(p) /\ UNCHANGED <<tree, bound>>
     ELSE Holds(dir[p], Name(p), Nothing) /\ Goes(p, "sync") /\ Counts(p)
  /\ UNCHANGED <<root, dir, left, made, linked>>

\* sync_parent; then the next file of the commit, from the root again.
SyncParent(p) ==
  /\ at[p] = "sync"
  /\ left' = [left EXCEPT ![p] = Tail(@)]
  /\ dir' = [dir EXCEPT ![p] = root[p]]
  /\ Goes(p, IF Len(left[p]) = 1 THEN "final" ELSE "next")
  /\ UNCHANGED <<tree, root, made, linked, bound>>

\* Any call may fail; before publication the temporary file goes.
CallFails(p) ==
  /\ at[p] \in {"walk", "look", "mkdir", "descend", "temp", "absent", "link", "unlink", "sync"}
  /\ IF at[p] \in {"temp", "absent", "link"} THEN Cleans(p) ELSE Errs(p) /\ UNCHANGED tree
  /\ UNCHANGED <<root, dir, left, made, linked, bound>>

----
(* Everybody else *)

Die(p) ==
  /\ at[p] \notin {"open", "done", "dead"}
  /\ at' = [at EXCEPT ![p] = "dead"]
  /\ flocks' = [d \in Dirs |-> IF flocks[d] = p THEN Nothing ELSE flocks[d]]
  /\ UNCHANGED <<tree, root, dir, left, made, said, linked, bound>>

FilesStep(p) ==
  \/ OpenProject(p) \/ EnsureBinding(p) \/ LockManifest(p) \/ Walk(p) \/ MakeDirectory(p) \/ Descend(p)
  \/ ListDirectory(p) \/ Look(p) \/ WriteTemp(p) \/ EnsureAbsent(p) \/ LinkFinal(p) \/ Tidy(p) \/ Unlink(p) \/ SyncParent(p)
  \/ CallFails(p) \/ Die(p)

\* The project is renamed away and back, or another directory or a link takes its place.
MoveProject ==
  /\ place' \in {Real(Home), Real(Other), LinkTo(Foreign), Nothing} \ {place}
  /\ bound' = bound \cup {p \in Programs : place' = Real(root[p])}
  /\ UNCHANGED tree

Reachable == {Home} \cup {d \in Spare \cup Theirs : \E name \in DOMAIN tree[Home] : tree[Home][name] = Real(d)}

\* Anything in the project is created, deleted or put in another's place; directories
\* are not moved from one project to another.
ChangeEntry ==
  /\ \E d \in Reachable : \E name \in DOMAIN UserEntries : \E entry \in UserEntries[name] \ {tree[d][name]} :
       /\ IsA("dir", entry) => d = Home
       /\ Holds(d, name, entry)
  /\ UNCHANGED <<place, bound>>

FilesNext ==
  /\ UNCHANGED task
  /\ \/ \E p \in Programs : FilesStep(p) /\ UNCHANGED <<place, moves>>
     \/ /\ moves < MaxMoves
        /\ moves' = moves + 1
        /\ MoveProject \/ ChangeEntry
        /\ UNCHANGED <<flocks, at, root, dir, left, made, said, linked>>

----
(* Nothing outside the project is listed, read, created or removed: no     *)
(* program walks to a directory that only a link leads to, whatever takes  *)
(* the place of the project or of a directory in it meanwhile.             *)
StaysInside ==
  /\ \A p \in Programs : dir[p] # Foreign
  /\ \E start \in Trees : tree[Foreign] = start[Foreign]

\* A program between its lock and its answer.
Inside(p) == at[p] \notin {"open", "opened", "lock", "done", "dead"} /\ ~Reads(p)

(* "path replacement cannot split concurrent writers" (lock_manifest): two *)
(* programs never work in one directory at a time, although their paths    *)
(* may have named other directories when they took their locks.            *)
WritersNotSplit ==
  \A p, q \in Programs : p # q /\ Inside(p) /\ Inside(q) => dir[p] # dir[q]

(* A command that fails with a plain error, after which the manifest is    *)
(* taken to be as before, has published nothing; one that answers          *)
(* indeterminate has.                                                      *)
ErrorsAreHonest ==
  \A p \in Programs : /\ said[p] = "error" => p \notin linked
                      /\ said[p] = "indeterminate" => p \in linked

(* A command that succeeds has worked on the project: after its last       *)
(* effect, or when it read, the path named the directory it worked in.     *)
SuccessIsTheProjects == \A p \in Programs : said[p] = "ok" => p \in bound

(* Programs that reach files while people move them about stay in the      *)
(* project, never share a directory with another writer, and answer what   *)
(* is true of the project.                                                 *)
CallsAreSafe == StaysInside /\ WritersNotSplit /\ ErrorsAreHonest /\ SuccessIsTheProjects
====
