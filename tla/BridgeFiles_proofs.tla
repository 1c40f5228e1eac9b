---- MODULE BridgeFiles_proofs ----
(***************************************************************************)
(* Proofs about BridgeFiles, at both scales: for any number of programs,   *)
(* files and directories and any moves of people, programs stay in the     *)
(* project, writers are not split, and answers are true; for any number of *)
(* commands, harnesses, files and edits of users, what is recorded is      *)
(* Tree Ring's own, what is reported is recorded, and inits agree.         *)
(***************************************************************************)
EXTENDS BridgeFiles, SequenceTheorems, NaturalsInduction, WellFoundedInduction, TLAPS

Away == {"open", "done", "dead"}

FileTypes ==
  /\ task \in Tasks
  /\ place \in {Real(Home), Real(Other), LinkTo(Foreign), Nothing}
  /\ tree \in [Dirs -> [Names \cup Programs -> UserEntry \cup [is : {"dir"}, of : Spare]]]
  /\ flocks \in [Dirs -> Programs \cup {Nothing}]
  /\ at \in [Programs -> Away \cup {"opened", "lock", "locked", "walk", "mkdir", "descend", "look", "seen", "reopen",
                                     "temp", "absent", "link", "tidy", "unlink", "sync", "next", "final"}]
  /\ root \in [Programs -> Dirs \cup {Nothing}]
  /\ dir \in [Programs -> Dirs \cup {Nothing}]
  /\ left \in [Programs -> Seq(Seq(Names))]
  /\ made \in [Programs -> BOOLEAN]
  /\ said \in [Programs -> {"none", "ok", "error", "indeterminate", "absent"}]

\* Which programs do what.
RoleInv ==
  \A p \in Programs :
    /\ at[p] \in {"mkdir", "descend", "temp", "absent", "link", "tidy", "next"} => Publishes(p)
    /\ at[p] \in {"reopen", "unlink"} => task[p].does = "remove"
    /\ at[p] \in {"lock", "locked", "seen", "sync"} => ~Reads(p)

\* A program that needs a name has one.
TargetsInv ==
  \A p \in Programs : at[p] \notin {"final", "done", "dead"} =>
    /\ left[p] # <<>>
    /\ ~Publishes(p) => Len(left[p]) = 1
    /\ ~Lists(p) => \A k \in DOMAIN left[p] : left[p][k] # <<>>
    /\ at[p] \in {"mkdir", "descend"} => Tail(Head(left[p])) # <<>>

\* Programs work below the directory they opened, and writers have it locked.
PlacesInv ==
  \A p \in Programs :
    /\ dir[p] # Foreign
    /\ at[p] \notin Away => root[p] \in {Home, Other} /\ dir[p] \in Dirs
    /\ Inside(p) => flocks[root[p]] = p

\* Every directory belongs to one of the projects the path may name: what people
\* make to the first one, and what a program makes to the one it works in.
Regions(region) ==
  /\ region[Home] = Home /\ region[Other] = Other
  /\ \A d \in Theirs : region[d] = Home
  /\ \A e \in Dirs : \A name \in Names \cup Programs :
       IsA("dir", tree[e][name]) => region[tree[e][name].of] = region[e]
  /\ \A p \in Programs : at[p] \notin Away => region[dir[p]] = root[p]

RegionsInv == \E region \in [Dirs -> {Home, Other}] : Regions(region)

\* A program that has published knows it, unless it is just about to learn it.
AnswerInv ==
  \A p \in Programs :
    /\ at[p] = "tidy" => p \in linked
    /\ at[p] \notin {"tidy", "dead"} => (made[p] <=> p \in linked)
    /\ said[p] # "none" => at[p] = "done"

\* From the effect on, a path that names the directory has been noticed.
BoundInv == \A p \in Programs : at[p] \in {"tidy", "sync", "final"} /\ Bound(p) => p \in bound

\* Nothing happens in the directory that is only linked to.
ForeignInv == \E start \in Trees : tree[Foreign] = start[Foreign]

IInv ==
  /\ FileTypes
  /\ RoleInv
  /\ TargetsInv
  /\ PlacesInv
  /\ RegionsInv
  /\ AnswerInv
  /\ ErrorsAreHonest
  /\ BoundInv
  /\ SuccessIsTheProjects
  /\ ForeignInv

----
(***************************************************************************)
(* What the sequences of targets and the looks at an entry are.            *)
(***************************************************************************)

(* Walking one name further takes the name from the first target alone.    *)
LEMMA WalkedOn ==
  ASSUME NEW S, NEW s \in Seq(Seq(S)), s # <<>>, Head(s) # <<>>
  PROVE  /\ <<Tail(Head(s))>> \o Tail(s) \in Seq(Seq(S))
         /\ <<Tail(Head(s))>> \o Tail(s) # <<>>
         /\ Len(<<Tail(Head(s))>> \o Tail(s)) = Len(s)
         /\ Head(<<Tail(Head(s))>> \o Tail(s)) = Tail(Head(s))
         /\ \A k \in 1 .. Len(s) :
              (<<Tail(Head(s))>> \o Tail(s))[k] = IF k = 1 THEN Tail(Head(s)) ELSE s[k]
<1> DEFINE first == <<Tail(Head(s))>>
           walked == first \o Tail(s)
<1>1. Len(s) \in Nat \ {0} /\ Head(s) \in Seq(S) /\ Tail(s) \in Seq(Seq(S)) /\ Len(Tail(s)) = Len(s) - 1
  BY HeadTailProperties, EmptySeq
<1>2. Tail(Head(s)) \in Seq(S)
  BY <1>1, HeadTailProperties
<1>3. first \in Seq(Seq(S)) /\ Len(first) = 1 /\ first[1] = Tail(Head(s))
  BY <1>2
<1>4. \A k \in 1 .. Len(Tail(s)) : Tail(s)[k] = s[k + 1]
  BY HeadTailProperties
<1> HIDE DEF first
<1>5. /\ walked \in Seq(Seq(S))
      /\ Len(walked) = Len(s)
      /\ \A k \in 1 .. Len(s) : walked[k] = IF k <= 1 THEN first[k] ELSE Tail(s)[k - 1]
  <2>1. /\ walked \in Seq(Seq(S))
        /\ Len(walked) = Len(first) + Len(Tail(s))
        /\ \A k \in 1 .. Len(first) + Len(Tail(s)) :
             walked[k] = IF k <= Len(first) THEN first[k] ELSE Tail(s)[k - Len(first)]
    BY <1>1, <1>3, ConcatProperties
  <2> HIDE DEF walked
  <2> QED
    BY <2>1, <1>1, <1>3
<1> HIDE DEF walked
<1>6. \A k \in 1 .. Len(s) : walked[k] = IF k = 1 THEN Tail(Head(s)) ELSE s[k]
  <2> SUFFICES ASSUME NEW k \in 1 .. Len(s)
               PROVE  walked[k] = IF k = 1 THEN Tail(Head(s)) ELSE s[k]
    OBVIOUS
  <2>1. CASE k = 1
    BY <2>1, <1>1, <1>3, <1>5
  <2>2. CASE k # 1
    <3>1. k - 1 \in 1 .. Len(Tail(s)) /\ (k - 1) + 1 = k /\ ~(k <= 1)
      BY <2>2, <1>1
    <3> QED
      BY <2>2, <3>1, <1>4, <1>5
  <2> QED
    BY <2>1, <2>2
<1>7. walked # <<>> /\ Head(walked) = walked[1]
  BY <1>1, <1>5, EmptySeq
<1>8. walked[1] = Tail(Head(s))
  <2>1. 1 \in 1 .. Len(s)
    BY <1>1
  <2> QED
    BY <2>1, <1>6
<1>9. /\ walked \in Seq(Seq(S)) /\ walked # <<>> /\ Len(walked) = Len(s) /\ Head(walked) = Tail(Head(s))
      /\ \A k \in 1 .. Len(s) : walked[k] = IF k = 1 THEN Tail(Head(s)) ELSE s[k]
  BY <1>5, <1>6, <1>7, <1>8, Zenon
<1> QED
  BY <1>9, Zenon DEF walked, first

(* What is left after the first target is done.                            *)
LEMMA OneDone ==
  ASSUME NEW S, NEW s \in Seq(S), s # <<>>
  PROVE  /\ Tail(s) \in Seq(S)
         /\ Len(s) # 1 => Tail(s) # <<>>
         /\ \A k \in DOMAIN Tail(s) : k + 1 \in DOMAIN s /\ Tail(s)[k] = s[k + 1]
<1>1. Tail(s) \in Seq(S) /\ Len(Tail(s)) = Len(s) - 1 /\ \A k \in 1 .. Len(Tail(s)) : Tail(s)[k] = s[k + 1]
  BY HeadTailProperties
<1>2. Len(s) \in Nat \ {0} /\ DOMAIN s = 1 .. Len(s) /\ DOMAIN Tail(s) = 1 .. Len(Tail(s))
  BY <1>1, LenProperties, EmptySeq
<1>3. ASSUME Len(s) # 1, Tail(s) = <<>>
      PROVE  FALSE
  <2>1. Len(Tail(s)) = 0
    BY <1>3, EmptySeq
  <2>2. Len(s) - 1 = 0
    BY <1>1, <2>1
  <2>3. \A n \in Nat : n - 1 = 0 => n = 1
    OBVIOUS
  <2> QED
    BY <1>2, <1>3, <2>2, <2>3, Zenon
<1>4. ASSUME NEW k \in 1 .. Len(Tail(s))
      PROVE  k + 1 \in 1 .. Len(s) /\ Tail(s)[k] = s[k + 1]
  BY <1>1, <1>2
<1> QED
  BY <1>1, <1>2, <1>3, <1>4

(* A program that looks at an entry has a name and a directory for it.     *)
Looks(p) ==
  \/ at[p] \in {"mkdir", "descend", "reopen", "temp", "absent", "link", "unlink", "sync"}
  \/ at[p] = "look" /\ ~Lists(p)
  \/ at[p] = "walk" /\ ~Arrived(p)

Entry == UserEntry \cup [is : {"dir"}, of : Spare]

\* The name and the directory that a program is at are names and directories of its project.
LEMMA Named ==
  ASSUME FileTypes, RoleInv, TargetsInv, PlacesInv, NEW p \in Programs, Looks(p)
  PROVE  /\ left[p] \in Seq(Seq(Names)) /\ left[p] # <<>> /\ Head(left[p]) # <<>>
         /\ Head(left[p]) \in Seq(Names)
         /\ Name(p) \in Names /\ dir[p] \in Dirs /\ There(p) \in Entry
<1>1. left[p] \in Seq(Seq(Names)) /\ left[p] # <<>> /\ dir[p] \in Dirs
  BY DEF FileTypes, TargetsInv, PlacesInv, Looks, Away
<1>2. Head(left[p]) \in Seq(Names) /\ Len(left[p]) \in Nat \ {0} /\ DOMAIN left[p] = 1 .. Len(left[p])
  BY <1>1, HeadTailProperties, EmptySeq, LenProperties
<1>3. Head(left[p]) = left[p][1]
  BY <1>1
<1>4. Head(left[p]) # <<>>
  <2>1. CASE Lists(p)
    <3>1. at[p] = "walk" /\ ~Arrived(p)
      BY <2>1, FilesAssumption DEF Looks, RoleInv, Reads, Lists, Publishes
    <3> QED
      BY <3>1, <2>1 DEF Arrived
  <2>2. CASE ~Lists(p)
    BY <1>2, <1>3, <2>2 DEF TargetsInv, Looks
  <2> QED
    BY <2>1, <2>2
<1>5. Name(p) \in Names
  BY <1>2, <1>4, HeadTailProperties DEF Name
<1> QED
  BY <1>1, <1>2, <1>4, <1>5 DEF FileTypes, There, Entry

(* A directory that is walked to is one of the project's, or a made one.   *)
LEMMA ChildIn ==
  ASSUME NEW entry \in Entry, NEW d \in Child(entry)
  PROVE  d \in Theirs \cup Spare /\ d \in Dirs \ {Foreign} /\ entry = Real(d)
BY FilesAssumption DEF Entry, UserEntry, Child, IsA, Real, Dirs

(* Where a program goes after it has looked at the path.                   *)
LEMMA AfterBindingIs ==
  ASSUME RoleInv, NEW p \in Programs, at[p] \in {"opened", "locked", "next", "seen"}
  PROVE  /\ at[p] = "opened" => AfterBinding(p)[at[p]] = IF Reads(p) THEN "walk" ELSE "lock"
         /\ at[p] \in {"locked", "next"} => AfterBinding(p)[at[p]] = "walk"
         /\ at[p] = "seen" => AfterBinding(p)[at[p]] = IF Publishes(p) THEN "temp" ELSE "reopen"
BY DEF RoleInv, AfterBinding, CreateOrder, RemoveOrder, ReadOrder, Publishes, Reads, Lists

(* A directory holds one more entry, or one fewer.                         *)
LEMMA NewEntry ==
  ASSUME FileTypes, NEW d \in Dirs, NEW name \in Names \cup Programs, NEW entry \in Entry, Holds(d, name, entry)
  PROVE  /\ tree' \in [Dirs -> [Names \cup Programs -> Entry]]
         /\ \A e \in Dirs : \A n \in Names \cup Programs :
              tree'[e][n] = IF e = d /\ n = name THEN entry ELSE tree[e][n]
BY DEF FileTypes, Entry, Holds

(* A program that walks one directory further still has its targets.       *)
LEMMA OneStepOn ==
  ASSUME FileTypes, RoleInv, TargetsInv, PlacesInv, NEW p \in Programs, NEW d, Descends(p, d), UNCHANGED task,
         (at[p] = "walk" /\ ~Arrived(p)) \/ at[p] = "descend"
  PROVE  TargetsInv'
<1> DEFINE new == <<Tail(Head(left[p]))>> \o Tail(left[p])
<1>1. /\ left[p] \in Seq(Seq(Names)) /\ left[p] # <<>>
      /\ Head(left[p]) \in Seq(Names) /\ Head(left[p]) # <<>>
  BY Named DEF Looks
<1>2. /\ new \in Seq(Seq(Names)) /\ new # <<>> /\ Len(new) = Len(left[p]) /\ Head(new) = Tail(Head(left[p]))
      /\ \A k \in 1 .. Len(left[p]) : new[k] = IF k = 1 THEN Tail(Head(left[p])) ELSE left[p][k]
  BY <1>1, WalkedOn
<1>3. left' = [left EXCEPT ![p] = new] /\ at' = [at EXCEPT ![p] = "walk"]
  BY DEF Descends, Goes
<1>4. ~Lists(p) => Tail(Head(left[p])) # <<>>
  <2>1. CASE at[p] = "descend"
    BY <2>1 DEF TargetsInv
  <2>2. CASE at[p] = "walk" /\ ~Arrived(p)
    BY <1>1, <2>2, OneDone DEF Arrived
  <2> QED
    BY <2>1, <2>2
<1> HIDE DEF new
<1>5. DOMAIN new = 1 .. Len(left[p]) /\ DOMAIN left[p] = 1 .. Len(left[p])
  BY <1>1, <1>2, LenProperties
<1>6. /\ ~Publishes(p) => Len(new) = 1
      /\ ~Lists(p) => \A k \in DOMAIN new : new[k] # <<>>
  BY <1>2, <1>4, <1>5 DEF TargetsInv
<1> QED
  BY <1>2, <1>3, <1>6 DEF TargetsInv, FileTypes, Publishes, Lists

(* What walking, and looking at the path, can come to.                     *)
LEMMA WalkComesTo ==
  ASSUME NEW p \in Programs, Walk(p) \/ Descend(p)
  PROVE  /\ at[p] \in {"walk", "descend"} /\ UNCHANGED <<tree, root, made, linked, bound>>
         /\ \/ Errs(p)
            \/ Concludes(p, "absent")
            \/ \E step \in {"walk", "look", "mkdir"} : Goes(p, step)
<1>1. CASE Walk(p)
  BY <1>1, Zenon DEF Walk, Descends
<1>2. CASE Descend(p)
  BY <1>2, Zenon DEF Descend, Descends
<1> QED
  BY <1>1, <1>2

\* What looking at the binding of the project comes to.
LEMMA BindingComesTo ==
  ASSUME RoleInv, NEW p \in Programs, EnsureBinding(p)
  PROVE  /\ UNCHANGED <<tree, root, dir, left, made, linked, bound>>
         /\ \/ at[p] \in {"opened", "locked", "next", "seen", "final"} /\ Errs(p)
            \/ at[p] = "final" /\ Bound(p) /\ Concludes(p, "ok")
            \/ /\ at[p] \in {"opened", "locked", "next", "seen"}
               /\ \E step \in {"walk", "lock", "temp", "reopen"} : Goes(p, step)
BY AfterBindingIs DEF EnsureBinding, Away

(* What a program does is of itself; it takes no lock from another one.    *)
Alone(p) ==
  \A q \in Programs \ {p} :
    /\ at'[q] = at[q] /\ root'[q] = root[q] /\ dir'[q] = dir[q]
    /\ made'[q] = made[q] /\ said'[q] = said[q]
    /\ q \in linked' <=> q \in linked
    /\ q \in bound' <=> q \in bound
    /\ \A d \in Dirs : flocks[d] = q => flocks'[d] = q

\* A step of one program leaves the others where they are.
LEMMA AloneStep ==
  ASSUME FileTypes, NEW p \in Programs, FilesStep(p)
  PROVE  Alone(p)
<1> USE DEF Alone, FileTypes, Goes, Concludes, Errs, Cleans, Counts
<1>1. ASSUME OpenProject(p)
      PROVE  Alone(p)
  BY <1>1 DEF OpenProject
<1>2. ASSUME EnsureBinding(p)
      PROVE  Alone(p)
  BY <1>2 DEF EnsureBinding
<1>3. ASSUME LockManifest(p)
      PROVE  Alone(p)
  BY <1>3, FilesAssumption DEF LockManifest
<1>4. ASSUME Walk(p)
      PROVE  Alone(p)
  BY <1>4 DEF Walk, Descends
<1>5. ASSUME MakeDirectory(p)
      PROVE  Alone(p)
  BY <1>5 DEF MakeDirectory
<1>6. ASSUME Descend(p)
      PROVE  Alone(p)
  BY <1>6 DEF Descend, Descends
<1>7. ASSUME ListDirectory(p)
      PROVE  Alone(p)
  BY <1>7 DEF ListDirectory
<1>8. ASSUME Look(p)
      PROVE  Alone(p)
  BY <1>8 DEF Look
<1>9. ASSUME WriteTemp(p)
      PROVE  Alone(p)
  BY <1>9 DEF WriteTemp
<1>10. ASSUME EnsureAbsent(p)
      PROVE  Alone(p)
  BY <1>10 DEF EnsureAbsent
<1>11. ASSUME LinkFinal(p)
      PROVE  Alone(p)
  BY <1>11 DEF LinkFinal
<1>12. ASSUME Tidy(p)
      PROVE  Alone(p)
  BY <1>12 DEF Tidy, Knows
<1>13. ASSUME Unlink(p)
      PROVE  Alone(p)
  BY <1>13 DEF Unlink
<1>14. ASSUME SyncParent(p)
      PROVE  Alone(p)
  BY <1>14 DEF SyncParent
<1>15. ASSUME CallFails(p)
      PROVE  Alone(p)
  BY <1>15 DEF CallFails
<1>16. ASSUME Die(p)
      PROVE  Alone(p)
  BY <1>16 DEF Die
<1> QED
  BY <1>1, <1>2, <1>3, <1>4, <1>5, <1>6, <1>7, <1>8, <1>9, <1>10, <1>11, <1>12, <1>13,
    <1>14, <1>15, <1>16 DEF FilesStep

\* Such a step keeps everybody at the project that its path named.
LEMMA PlacesAlone ==
  ASSUME FileTypes, PlacesInv, NEW p \in Programs, Alone(p), UNCHANGED task,
         dir'[p] # Foreign,
         at'[p] \notin Away => root'[p] \in {Home, Other} /\ dir'[p] \in Dirs,
         Inside(p)' => flocks'[root'[p]] = p
  PROVE  PlacesInv'
<1>1. ASSUME NEW q \in Programs \ {p}
      PROVE  /\ dir'[q] # Foreign
             /\ at'[q] \notin Away => root'[q] \in {Home, Other} /\ dir'[q] \in Dirs
             /\ Inside(q)' => flocks'[root'[q]] = q
  <2>1. at'[q] = at[q] /\ root'[q] = root[q] /\ dir'[q] = dir[q] /\ \A d \in Dirs : flocks[d] = q => flocks'[d] = q
    BY <1>1 DEF Alone
  <2>2. Inside(q)' => Inside(q) /\ root[q] \in Dirs
    BY <2>1 DEF Inside, Reads, Lists, PlacesInv, Away, Dirs
  <2> QED
    BY <2>1, <2>2 DEF PlacesInv
<1> QED
  BY <1>1 DEF PlacesInv

(* A directory that the path names is one of the two it may name.          *)
LEMMA PlaceIs ==
  ASSUME FileTypes, IsA("dir", place)
  PROVE  place.of \in {Home, Other}
BY FilesAssumption DEF FileTypes, IsA, Real, LinkTo, Dirs

\* Every directory that is named was named before.
NoNewDirs == \A e \in Dirs : \A name \in Names \cup Programs :
               IsA("dir", tree'[e][name]) => tree'[e][name] = tree[e][name]

\* A step that names no new directory keeps the two projects apart.
LEMMA RegionsAlone ==
  ASSUME NEW region \in [Dirs -> {Home, Other}], Regions(region), NEW p \in Programs, Alone(p), NoNewDirs,
         at'[p] \notin Away => region[dir'[p]] = root'[p]
  PROVE  RegionsInv'
<1>1. \A e \in Dirs : \A name \in Names \cup Programs :
        IsA("dir", tree'[e][name]) => region[tree'[e][name].of] = region[e]
  BY DEF NoNewDirs, Regions
<1>2. \A q \in Programs : at'[q] \notin Away => region[dir'[q]] = root'[q]
  BY DEF Alone, Regions
<1>3. Regions(region)'
  BY <1>1, <1>2 DEF Regions
<1> QED
  BY <1>3 DEF RegionsInv

\* What is not there, and what anybody writes, is no directory.
LEMMA NotADir == Nothing \in Entry /\ FileBy("user") \in Entry /\ ~IsA("dir", Nothing)
  /\ \A p \in Programs : FileBy(p) \in Entry /\ ~IsA("dir", FileBy(p))
BY DEF Entry, UserEntry, FileBy, IsA

----
(***************************************************************************)
(* The steps of programs and people, for each part of the invariant.       *)
(***************************************************************************)

(* Every step is of a program that takes it. *)
LEMMA RoleStep ==
  ASSUME IInv, [FilesNext]_fileVars
  PROVE  RoleInv'
<1>1. ASSUME NEW p \in Programs, UNCHANGED <<task, place, moves>>,
            OpenProject(p) \/ LockManifest(p) \/ Walk(p) \/ MakeDirectory(p) \/ Descend(p)
      PROVE  RoleInv'
  <2>1. CASE OpenProject(p) \/ LockManifest(p)
    BY ZenonT(40), <1>1, <2>1
      DEF IInv, RoleInv, Publishes, Lists, Reads, FileTypes, Goes, Concludes, Errs, OpenProject, LockManifest
  <2>2. CASE Walk(p)
    BY ZenonT(40), <1>1, <2>2
      DEF IInv, RoleInv, Publishes, Lists, Reads, FileTypes, Goes, Concludes, Errs, Cleans, Walk, Descends, Child
  <2>3. CASE MakeDirectory(p) \/ Descend(p)
    BY ZenonT(40), <1>1, <2>3
      DEF IInv, RoleInv, Publishes, Lists, Reads, FileTypes, Goes, Concludes, Errs, Cleans,
          MakeDirectory, Descend, Descends, Child
  <2> QED
    BY <1>1, <2>1, <2>2, <2>3
<1>2. ASSUME NEW p \in Programs, UNCHANGED <<task, place, moves>>,
            ListDirectory(p) \/ Look(p) \/ WriteTemp(p) \/ EnsureAbsent(p) \/ LinkFinal(p)
      PROVE  RoleInv'
  BY <1>2
    DEF IInv, RoleInv, Publishes, Lists, Reads, FileTypes, Goes, Concludes, Errs, Cleans,
        ListDirectory, Look, WriteTemp, EnsureAbsent, LinkFinal
<1>3. ASSUME NEW p \in Programs, UNCHANGED <<task, place, moves>>,
            Tidy(p) \/ Unlink(p) \/ SyncParent(p) \/ CallFails(p) \/ Die(p)
      PROVE  RoleInv'
  BY <1>3
    DEF IInv, RoleInv, Publishes, Lists, Reads, FileTypes, Goes, Concludes, Errs, Cleans,
        Tidy, Unlink, SyncParent, CallFails, Die, TargetsInv
<1>4. ASSUME NEW p \in Programs, EnsureBinding(p), UNCHANGED <<task, place, moves>>
      PROVE  RoleInv'
  <2>1. CASE Bound(p) /\ at[p] # "final"
    <3>1. /\ at' = [at EXCEPT ![p] = AfterBinding(p)[at[p]]]
          /\ at[p] \in {"opened", "locked", "next", "seen"}
      BY <1>4, <2>1 DEF EnsureBinding, Goes
    <3>2. PICK step : step = AfterBinding(p)[at[p]]
      OBVIOUS
    <3>3. /\ step \in {"walk", "lock", "temp", "reopen"}
          /\ step = "lock" => ~Reads(p)
          /\ step = "temp" => Publishes(p)
          /\ step = "reopen" => task[p].does = "remove"
      BY <3>1, <3>2, AfterBindingIs, FilesAssumption
        DEF IInv, FileTypes, RoleInv, Publishes, Reads, Lists
    <3> QED
      BY <1>4, <3>1, <3>2, <3>3 DEF IInv, RoleInv, Publishes, Reads, Lists, FileTypes
  <2>2. CASE ~Bound(p) \/ at[p] = "final"
    BY <1>4, <2>2
      DEF IInv, RoleInv, Publishes, Reads, Lists, FileTypes, EnsureBinding, Errs,
          Concludes
  <2> QED
    BY <2>1, <2>2
<1>5. CASE
  \/ MoveProject /\ UNCHANGED <<task, tree, flocks, at, root, dir, left, made, said, linked>>
  \/ ChangeEntry /\ UNCHANGED <<task, flocks, at, root, dir, left, made, said, linked>>
  \/ UNCHANGED fileVars
  BY <1>5
    DEF IInv, RoleInv, Publishes, Lists, Reads, FileTypes, Goes, Concludes, Errs, Cleans,
        fileVars, MoveProject, ChangeEntry
<1> QED
  BY <1>1, <1>2, <1>3, <1>4, <1>5
    DEF FilesNext, FilesStep, MoveProject, ChangeEntry, fileVars

(* Every step keeps every variable in its type. *)
LEMMA TypeStep ==
  ASSUME IInv, [FilesNext]_fileVars
  PROVE  FileTypes'
<1>1. ASSUME NEW p \in Programs, LockManifest(p), UNCHANGED <<task, place, moves>>
      PROVE  FileTypes'
  BY <1>1
    DEF IInv, FileTypes, Away, Goes, Concludes, Errs, Answer, LockManifest, Locked,
        PlacesInv, Dirs
<1>2. ASSUME NEW p \in Programs, ListDirectory(p), UNCHANGED <<task, place, moves>>
      PROVE  FileTypes'
  BY <1>2 DEF IInv, FileTypes, Away, Goes, Concludes, Errs, Answer, ListDirectory
<1>3. ASSUME NEW p \in Programs, Look(p), UNCHANGED <<task, place, moves>>
      PROVE  FileTypes'
  BY <1>3 DEF IInv, FileTypes, Away, Goes, Concludes, Errs, Answer, Look
<1>4. ASSUME NEW p \in Programs, Die(p), UNCHANGED <<task, place, moves>>
      PROVE  FileTypes'
  BY <1>4 DEF IInv, FileTypes, Away, Goes, Concludes, Errs, Answer, Die
<1>5. ASSUME NEW p \in Programs, OpenProject(p), UNCHANGED <<task, place, moves>>
      PROVE  FileTypes'
  <2>1. CASE IsA("dir", place)
    <3>1. place.of \in Dirs
      BY <2>1, FilesAssumption DEF IInv, FileTypes, IsA, Real, LinkTo, Dirs
    <3> QED
      BY <1>5, <2>1, <3>1 DEF IInv, FileTypes, OpenProject, Goes
  <2>2. CASE ~IsA("dir", place)
    BY <1>5, <2>2 DEF IInv, FileTypes, Away, Goes, Concludes, Errs, Answer, OpenProject
  <2> QED
    BY <2>1, <2>2
<1>6. ASSUME NEW p \in Programs, EnsureBinding(p), UNCHANGED <<task, place, moves>>
      PROVE  FileTypes'
  <2>1. CASE Bound(p) /\ at[p] # "final"
    <3>1. /\ at' = [at EXCEPT ![p] = AfterBinding(p)[at[p]]]
          /\ AfterBinding(p)[at[p]] \in {"walk", "lock", "temp", "reopen"}
      BY <1>6, <2>1, AfterBindingIs DEF IInv, EnsureBinding, Goes
    <3> QED
      BY <1>6, <2>1, <3>1 DEF IInv, FileTypes, EnsureBinding, Goes
  <2>2. CASE ~Bound(p) \/ at[p] = "final"
    BY <1>6, <2>2 DEF IInv, FileTypes, Away, Goes, Concludes, Errs, Answer, EnsureBinding
  <2> QED
    BY <2>1, <2>2
<1>7. ASSUME NEW p \in Programs, Walk(p), UNCHANGED <<task, place, moves>>
      PROVE  FileTypes'
  <2>1. CASE \E d \in Child(There(p)) : ~Arrived(p) /\ Descends(p, d)
    <3>1. PICK d \in Child(There(p)) : ~Arrived(p) /\ Descends(p, d)
      BY <2>1
    <3>2. /\ left[p] \in Seq(Seq(Names)) /\ left[p] # <<>> /\ Head(left[p]) # <<>>
          /\ There(p) \in Entry
      BY <1>7, <3>1, Named DEF IInv, Looks, Walk
    <3>3. <<Tail(Head(left[p]))>> \o Tail(left[p]) \in Seq(Seq(Names)) /\ d \in Dirs
      BY <3>1, <3>2, WalkedOn, ChildIn
    <3>4. left' \in [Programs -> Seq(Seq(Names))] /\ dir' \in [Programs -> Dirs \cup {Nothing}]
      BY <3>1, <3>3 DEF IInv, FileTypes, Descends
    <3> QED
      BY <1>7, <3>1, <3>4 DEF IInv, FileTypes, Walk, Descends, Goes
  <2>2. CASE ~\E d \in Child(There(p)) : ~Arrived(p) /\ Descends(p, d)
    BY <1>7, <2>2 DEF IInv, FileTypes, Away, Walk, Goes, Concludes, Errs, Answer
  <2> QED
    BY <2>1, <2>2
<1>8. ASSUME NEW p \in Programs, MakeDirectory(p), UNCHANGED <<task, place, moves>>
      PROVE  FileTypes'
  <2>1. Name(p) \in Names /\ dir[p] \in Dirs
    BY <1>8, Named DEF IInv, Looks, MakeDirectory
  <2>2. Unused # {} => Real(CHOOSE d \in Unused : TRUE) \in Entry
    BY DEF Entry, Unused, Real
  <2>3. tree' \in [Dirs -> [Names \cup Programs -> Entry]]
    BY <1>8, <2>1, <2>2, NewEntry DEF IInv, FileTypes, Entry, MakeDirectory
  <2> QED
    BY <1>8, <2>3 DEF IInv, FileTypes, Entry, MakeDirectory, Goes
<1>9. ASSUME NEW p \in Programs, Descend(p), UNCHANGED <<task, place, moves>>
      PROVE  FileTypes'
  <2>1. CASE Child(There(p)) # {}
    <3>1. PICK d \in Child(There(p)) : Descends(p, d)
      BY <1>9, <2>1 DEF Descend
    <3>2. /\ left[p] \in Seq(Seq(Names)) /\ left[p] # <<>> /\ Head(left[p]) # <<>>
          /\ There(p) \in Entry
      BY <1>9, <3>1, Named DEF IInv, Looks, Descend
    <3>3. <<Tail(Head(left[p]))>> \o Tail(left[p]) \in Seq(Seq(Names)) /\ d \in Dirs
      BY <3>1, <3>2, WalkedOn, ChildIn
    <3>4. left' \in [Programs -> Seq(Seq(Names))] /\ dir' \in [Programs -> Dirs \cup {Nothing}]
      BY <3>1, <3>3 DEF IInv, FileTypes, Descends
    <3> QED
      BY <1>9, <3>1, <3>4 DEF IInv, FileTypes, Descend, Descends, Goes
  <2>2. CASE Child(There(p)) = {}
    BY <1>9, <2>2 DEF IInv, FileTypes, Away, Descend, Goes, Concludes, Errs, Answer
  <2> QED
    BY <2>1, <2>2
<1>10. ASSUME NEW p \in Programs, WriteTemp(p), UNCHANGED <<task, place, moves>>
      PROVE  FileTypes'
  <2>1. /\ Name(p) \in Names /\ dir[p] \in Dirs
    BY <1>10, Named DEF IInv, Looks, WriteTemp
  <2>2. Nothing \in Entry /\ FileBy(p) \in Entry
    BY DEF Entry, UserEntry, FileBy
  <2>3. tree' \in [Dirs -> [Names \cup Programs -> Entry]]
    BY <1>10, <2>1, <2>2, NewEntry DEF IInv, FileTypes, Entry, WriteTemp, Cleans
  <2> QED
    BY <1>10, <2>3
      DEF IInv, FileTypes, Away, Entry, WriteTemp, Cleans, Knows, Goes, Concludes, Errs,
          Answer
<1>11. ASSUME NEW p \in Programs, EnsureAbsent(p), UNCHANGED <<task, place, moves>>
      PROVE  FileTypes'
  <2>1. /\ Name(p) \in Names /\ dir[p] \in Dirs
    BY <1>11, Named DEF IInv, Looks, EnsureAbsent
  <2>2. Nothing \in Entry /\ FileBy(p) \in Entry
    BY DEF Entry, UserEntry, FileBy
  <2>3. tree' \in [Dirs -> [Names \cup Programs -> Entry]]
    BY <1>11, <2>1, <2>2, NewEntry DEF IInv, FileTypes, Entry, EnsureAbsent, Cleans
  <2> QED
    BY ZenonT(40), <1>11, <2>3
      DEF IInv, FileTypes, Away, Entry, EnsureAbsent, Cleans, Knows, Goes, Concludes,
          Errs, Answer
<1>12. ASSUME NEW p \in Programs, LinkFinal(p), UNCHANGED <<task, place, moves>>
      PROVE  FileTypes'
  <2>1. /\ Name(p) \in Names /\ dir[p] \in Dirs
    BY <1>12, Named DEF IInv, Looks, LinkFinal
  <2>2. Nothing \in Entry /\ FileBy(p) \in Entry
    BY DEF Entry, UserEntry, FileBy
  <2>3. tree' \in [Dirs -> [Names \cup Programs -> Entry]]
    BY <1>12, <2>1, <2>2, NewEntry DEF IInv, FileTypes, Entry, LinkFinal, Cleans
  <2> QED
    BY ZenonT(40), <1>12, <2>3
      DEF IInv, FileTypes, Away, Entry, LinkFinal, Cleans, Knows, Goes, Concludes, Errs,
          Answer
<1>13. ASSUME NEW p \in Programs, Tidy(p), UNCHANGED <<task, place, moves>>
      PROVE  FileTypes'
  <2>1. dir[p] \in Dirs
    BY <1>13 DEF IInv, PlacesInv, Away, Tidy
  <2>2. Nothing \in Entry
    BY DEF Entry, UserEntry
  <2>3. tree' \in [Dirs -> [Names \cup Programs -> Entry]]
    BY <1>13, <2>1, <2>2, NewEntry DEF IInv, FileTypes, Entry, Tidy, Cleans
  <2> QED
    BY <1>13, <2>3
      DEF IInv, FileTypes, Away, Entry, Tidy, Cleans, Knows, Goes, Concludes, Errs, Answer
<1>14. ASSUME NEW p \in Programs, Unlink(p), UNCHANGED <<task, place, moves>>
      PROVE  FileTypes'
  <2>1. /\ Name(p) \in Names /\ dir[p] \in Dirs
    BY <1>14, Named DEF IInv, Looks, Unlink
  <2>2. Nothing \in Entry /\ FileBy(p) \in Entry
    BY DEF Entry, UserEntry, FileBy
  <2>3. tree' \in [Dirs -> [Names \cup Programs -> Entry]]
    BY <1>14, <2>1, <2>2, NewEntry DEF IInv, FileTypes, Entry, Unlink, Cleans
  <2> QED
    BY ZenonT(40), <1>14, <2>3
      DEF IInv, FileTypes, Away, Entry, Unlink, Cleans, Knows, Goes, Concludes, Errs,
          Answer
<1>15. ASSUME NEW p \in Programs, SyncParent(p), UNCHANGED <<task, place, moves>>
      PROVE  FileTypes'
  <2>1. left[p] \in Seq(Seq(Names)) /\ left[p] # <<>> /\ root[p] \in Dirs \cup {Nothing}
    BY <1>15 DEF IInv, FileTypes, TargetsInv, SyncParent
  <2>2. left' \in [Programs -> Seq(Seq(Names))]
    BY <1>15, <2>1, OneDone DEF IInv, FileTypes, SyncParent
  <2> QED
    BY <1>15, <2>1, <2>2 DEF IInv, FileTypes, SyncParent, Goes
<1>16. ASSUME NEW p \in Programs, CallFails(p), UNCHANGED <<task, place, moves>>
      PROVE  FileTypes'
  <2>1. dir[p] \in Dirs
    BY <1>16 DEF IInv, PlacesInv, Away, CallFails
  <2>2. Nothing \in Entry
    BY DEF Entry, UserEntry
  <2>3. tree' \in [Dirs -> [Names \cup Programs -> Entry]]
    BY <1>16, <2>1, <2>2, NewEntry DEF IInv, FileTypes, Entry, CallFails, Cleans
  <2> QED
    BY ZenonT(40), <1>16, <2>3
      DEF IInv, FileTypes, Away, Entry, CallFails, Cleans, Knows, Goes, Concludes, Errs,
          Answer
<1>17. ASSUME MoveProject, UNCHANGED <<task, tree, flocks, at, root, dir, left, made, said, linked>>
      PROVE  FileTypes'
  BY <1>17 DEF IInv, FileTypes, Away, Goes, Concludes, Errs, Answer, MoveProject
<1>18. ASSUME ChangeEntry, UNCHANGED <<task, flocks, at, root, dir, left, made, said, linked>>
      PROVE  FileTypes'
  <2>0. PICK d \in Reachable, name \in Names : \E entry \in UserEntries[name] : Holds(d, name, entry)
    BY <1>18 DEF ChangeEntry, Names
  <2>1. PICK entry \in UserEntries[name] : Holds(d, name, entry)
    BY <2>0
  <2>2. d \in Dirs /\ entry \in Entry
    BY FilesAssumption DEF Reachable, Dirs, Entry
  <2>3. tree' \in [Dirs -> [Names \cup Programs -> Entry]]
    BY <2>1, <2>2, NewEntry DEF IInv
  <2> QED
    BY <1>18, <2>3 DEF IInv, FileTypes, Entry, ChangeEntry
<1>19. CASE UNCHANGED fileVars
  BY <1>19 DEF IInv, FileTypes, Away, Goes, Concludes, Errs, Answer, fileVars
<1> QED
  BY <1>1, <1>2, <1>3, <1>4, <1>5, <1>6, <1>7, <1>8, <1>9, <1>10, <1>11, <1>12, <1>13,
    <1>14, <1>15, <1>16, <1>17, <1>18, <1>19
      DEF FilesNext, FilesStep, MoveProject, ChangeEntry, fileVars

(* A program that needs a name has one.                                     *)
LEMMA TargetsStep ==
  ASSUME IInv, [FilesNext]_fileVars
  PROVE  TargetsInv'
<1>1. ASSUME NEW p \in Programs, OpenProject(p), UNCHANGED <<task, place, moves>>
      PROVE  TargetsInv'
  BY <1>1
    DEF IInv, TargetsInv, Publishes, Lists, Reads, FileTypes, Goes, Concludes, Errs,
        Answer, OpenProject
<1>2. ASSUME NEW p \in Programs, LockManifest(p), UNCHANGED <<task, place, moves>>
      PROVE  TargetsInv'
  BY <1>2
    DEF IInv, TargetsInv, Publishes, Lists, Reads, FileTypes, Goes, Concludes, Errs,
        Answer, LockManifest
<1>3. ASSUME NEW p \in Programs, MakeDirectory(p), UNCHANGED <<task, place, moves>>
      PROVE  TargetsInv'
  BY <1>3
    DEF IInv, TargetsInv, Publishes, Lists, Reads, FileTypes, Goes, Concludes, Errs,
        Answer, MakeDirectory
<1>4. ASSUME NEW p \in Programs, ListDirectory(p), UNCHANGED <<task, place, moves>>
      PROVE  TargetsInv'
  BY <1>4
    DEF IInv, TargetsInv, Publishes, Lists, Reads, FileTypes, Goes, Concludes, Errs,
        Answer, ListDirectory
<1>5. ASSUME NEW p \in Programs, Look(p), UNCHANGED <<task, place, moves>>
      PROVE  TargetsInv'
  BY ZenonT(40), <1>5
    DEF IInv, TargetsInv, Publishes, Lists, Reads, FileTypes, Goes, Concludes, Errs,
        Answer, Look
<1>6. ASSUME NEW p \in Programs, WriteTemp(p), UNCHANGED <<task, place, moves>>
      PROVE  TargetsInv'
  BY <1>6
    DEF IInv, TargetsInv, Publishes, Lists, Reads, FileTypes, Goes, Concludes, Errs,
        Answer, WriteTemp
<1>7. ASSUME NEW p \in Programs, EnsureAbsent(p), UNCHANGED <<task, place, moves>>
      PROVE  TargetsInv'
  BY <1>7
    DEF IInv, TargetsInv, Publishes, Lists, Reads, FileTypes, Goes, Concludes, Errs,
        Answer, EnsureAbsent, Cleans
<1>8. ASSUME NEW p \in Programs, LinkFinal(p), UNCHANGED <<task, place, moves>>
      PROVE  TargetsInv'
  BY <1>8
    DEF IInv, TargetsInv, Publishes, Lists, Reads, FileTypes, Goes, Concludes, Errs,
        Answer, LinkFinal, Cleans
<1>9. ASSUME NEW p \in Programs, Tidy(p), UNCHANGED <<task, place, moves>>
      PROVE  TargetsInv'
  BY <1>9
    DEF IInv, TargetsInv, Publishes, Lists, Reads, FileTypes, Goes, Concludes, Errs,
        Answer, Tidy
<1>10. ASSUME NEW p \in Programs, Unlink(p), UNCHANGED <<task, place, moves>>
      PROVE  TargetsInv'
  BY <1>10
    DEF IInv, TargetsInv, Publishes, Lists, Reads, FileTypes, Goes, Concludes, Errs,
        Answer, Unlink
<1>11. ASSUME NEW p \in Programs, CallFails(p), UNCHANGED <<task, place, moves>>
      PROVE  TargetsInv'
  BY <1>11
    DEF IInv, TargetsInv, Publishes, Lists, Reads, FileTypes, Goes, Concludes, Errs,
        Answer, CallFails, Cleans
<1>12. ASSUME NEW p \in Programs, Die(p), UNCHANGED <<task, place, moves>>
      PROVE  TargetsInv'
  BY <1>12
    DEF IInv, TargetsInv, Publishes, Lists, Reads, FileTypes, Goes, Concludes, Errs,
        Answer, Die
<1>13. ASSUME NEW p \in Programs, EnsureBinding(p), UNCHANGED <<task, place, moves>>
      PROVE  TargetsInv'
  <2>1. CASE Bound(p) /\ at[p] # "final"
    <3>1. /\ at' = [at EXCEPT ![p] = AfterBinding(p)[at[p]]]
          /\ AfterBinding(p)[at[p]] \in {"walk", "lock", "temp", "reopen"}
      BY <1>13, <2>1, AfterBindingIs DEF IInv, EnsureBinding, Goes
    <3> QED
      BY <1>13, <2>1, <3>1
        DEF IInv, TargetsInv, Publishes, Lists, Reads, FileTypes, EnsureBinding, Goes
  <2>2. CASE ~Bound(p) \/ at[p] = "final"
    BY <1>13, <2>2
      DEF IInv, TargetsInv, Publishes, Lists, Reads, FileTypes, Goes, Concludes, Errs,
          EnsureBinding
  <2> QED
    BY <2>1, <2>2
<1>14. ASSUME NEW p \in Programs, Walk(p), UNCHANGED <<task, place, moves>>
      PROVE  TargetsInv'
  <2>1. CASE \E d \in Child(There(p)) : ~Arrived(p) /\ Descends(p, d)
    <3>1. PICK d \in Child(There(p)) : ~Arrived(p) /\ Descends(p, d)
      BY <2>1
    <3>2. UNCHANGED task /\ at[p] = "walk"
      BY <1>14 DEF Walk
    <3> QED
      BY <3>1, <3>2, OneStepOn DEF IInv
  <2>2. CASE ~\E d \in Child(There(p)) : ~Arrived(p) /\ Descends(p, d)
    <3>1. /\ UNCHANGED <<task, left>> /\ at[p] = "walk"
          /\ \/ Goes(p, "look") \/ Concludes(p, "absent") \/ Errs(p)
             \/ (Goes(p, "mkdir") /\ Publishes(p) /\ ~Arrived(p))
      BY <1>14, <2>2, Zenon DEF Walk
    <3>2. CASE Goes(p, "look") \/ Concludes(p, "absent") \/ Errs(p)
      BY <3>1, <3>2
        DEF IInv, TargetsInv, Publishes, Lists, FileTypes, Goes, Concludes, Errs
    <3>3. CASE Goes(p, "mkdir") /\ Publishes(p) /\ ~Arrived(p)
      <4>1. Head(left[p]) \in Seq(Names) /\ Head(left[p]) # <<>>
        BY <3>1, <3>3, Named DEF IInv, Looks
      <4>2. Tail(Head(left[p])) # <<>>
        BY <3>3, <4>1, OneDone, FilesAssumption DEF Arrived, Lists, Publishes
      <4> QED
        BY <3>1, <3>3, <4>2 DEF IInv, TargetsInv, Publishes, Lists, FileTypes, Goes
    <3> QED
      BY <3>1, <3>2, <3>3
  <2> QED
    BY <2>1, <2>2
<1>15. ASSUME NEW p \in Programs, Descend(p), UNCHANGED <<task, place, moves>>
      PROVE  TargetsInv'
  <2>1. CASE Child(There(p)) # {}
    <3>1. PICK d \in Child(There(p)) : Descends(p, d)
      BY <1>15, <2>1 DEF Descend
    <3>2. UNCHANGED task /\ at[p] = "descend"
      BY <1>15 DEF Descend
    <3> QED
      BY <3>1, <3>2, OneStepOn DEF IInv
  <2>2. CASE Child(There(p)) = {}
    <3>1. Errs(p) /\ UNCHANGED <<task, left>>
      BY <1>15, <2>2, Zenon DEF Descend
    <3> QED
      BY <3>1 DEF IInv, TargetsInv, Publishes, Lists, FileTypes, Concludes, Errs
  <2> QED
    BY <2>1, <2>2
<1>16. ASSUME NEW p \in Programs, SyncParent(p), UNCHANGED <<task, place, moves>>
      PROVE  TargetsInv'
  <2>1. left[p] \in Seq(Seq(Names)) /\ left[p] # <<>>
    BY <1>16 DEF IInv, FileTypes, TargetsInv, SyncParent
  <2>2. /\ Len(left[p]) # 1 => Tail(left[p]) # <<>>
        /\ \A k \in DOMAIN Tail(left[p]) : k + 1 \in DOMAIN left[p] /\ Tail(left[p])[k] = left[p][k + 1]
    BY <2>1, OneDone
  <2>3. Len(left[p]) # 1 => Publishes(p)
    BY <1>16 DEF IInv, TargetsInv, SyncParent
  <2>4. /\ left' = [left EXCEPT ![p] = Tail(left[p])]
        /\ at' = [at EXCEPT ![p] = IF Len(left[p]) = 1 THEN "final" ELSE "next"]
        /\ at[p] = "sync"
    BY <1>16 DEF SyncParent, Goes
  <2>5. ~Lists(p) => \A k \in DOMAIN Tail(left[p]) : Tail(left[p])[k] # <<>>
    BY <2>2, <2>4 DEF IInv, TargetsInv
  <2> QED
    BY <1>16, <2>2, <2>3, <2>4, <2>5 DEF IInv, TargetsInv, FileTypes, Publishes, Lists
<1>17. CASE
  \/ MoveProject /\ UNCHANGED <<task, tree, flocks, at, root, dir, left, made, said, linked>>
  \/ ChangeEntry /\ UNCHANGED <<task, flocks, at, root, dir, left, made, said, linked>>
  \/ UNCHANGED fileVars
  BY <1>17
    DEF IInv, TargetsInv, Publishes, Lists, Reads, FileTypes, Goes, Concludes, Errs,
        Answer, fileVars, MoveProject, ChangeEntry
<1> QED
  BY <1>1, <1>2, <1>3, <1>4, <1>5, <1>6, <1>7, <1>8, <1>9, <1>10, <1>11, <1>12, <1>13,
    <1>14, <1>15, <1>16, <1>17
      DEF FilesNext, FilesStep, MoveProject, ChangeEntry, fileVars

(* Programs stay where they opened, or below; writers have it locked.       *)
LEMMA PlacesStep ==
  ASSUME IInv, [FilesNext]_fileVars
  PROVE  PlacesInv'
<1>1. ASSUME NEW p \in Programs, OpenProject(p), UNCHANGED <<task, place, moves>>
      PROVE  PlacesInv'
  <2>1. Alone(p) /\ UNCHANGED task
    BY <1>1, AloneStep DEF IInv, FilesStep
  <2>2. dir'[p] # Foreign /\ (at'[p] \notin Away => root'[p] \in {Home, Other} /\ dir'[p] \in Dirs)
    BY <1>1, FilesAssumption
      DEF IInv, FileTypes, PlacesInv, Away, Goes, Concludes, Errs, Cleans, OpenProject,
          IsA, Real, LinkTo, Dirs
  <2>3. Inside(p)' => flocks'[root'[p]] = p
    BY <1>1, FilesAssumption
      DEF IInv, FileTypes, RoleInv, PlacesInv, Inside, Away, Publishes, Lists, Reads,
          Goes, Concludes, Errs, Cleans, OpenProject, IsA, Real, LinkTo, Dirs
  <2> QED
    BY <2>1, <2>2, <2>3, PlacesAlone DEF IInv
<1>2. ASSUME NEW p \in Programs, EnsureBinding(p), UNCHANGED <<task, place, moves>>
      PROVE  PlacesInv'
  <2>1. Alone(p) /\ UNCHANGED task
    BY <1>2, AloneStep DEF IInv, FilesStep
  <2>2. dir'[p] # Foreign /\ (at'[p] \notin Away => root'[p] \in {Home, Other} /\ dir'[p] \in Dirs)
    BY <1>2
      DEF IInv, FileTypes, PlacesInv, Away, Goes, Concludes, Errs, Cleans, EnsureBinding
  <2>3. Inside(p)' => flocks'[root'[p]] = p
    <3>1. CASE Bound(p) /\ at[p] # "final"
      <4>1. at'[p] = AfterBinding(p)[at[p]] /\ UNCHANGED <<flocks, root, task>>
            /\ at[p] \in {"opened", "locked", "next", "seen"}
        BY <1>2, <3>1 DEF IInv, FileTypes, EnsureBinding, Goes
      <4>2. at[p] = "opened" => at'[p] = IF Reads(p) THEN "walk" ELSE "lock"
        BY <4>1, AfterBindingIs DEF IInv
      <4> QED
        BY <4>1, <4>2 DEF IInv, PlacesInv, Inside, Reads, Lists
    <3>2. CASE ~(Bound(p) /\ at[p] # "final")
      BY <1>2, <3>2 DEF IInv, FileTypes, Inside, Concludes, Errs, EnsureBinding
    <3> QED
      BY <3>1, <3>2
  <2> QED
    BY <2>1, <2>2, <2>3, PlacesAlone DEF IInv
<1>3. ASSUME NEW p \in Programs, LockManifest(p), UNCHANGED <<task, place, moves>>
      PROVE  PlacesInv'
  <2>1. Alone(p) /\ UNCHANGED task
    BY <1>3, AloneStep DEF IInv, FilesStep
  <2>2. dir'[p] # Foreign /\ (at'[p] \notin Away => root'[p] \in {Home, Other} /\ dir'[p] \in Dirs)
    BY <1>3, FilesAssumption
      DEF IInv, FileTypes, PlacesInv, Away, Goes, Concludes, Errs, Cleans, LockManifest,
          Locked, Dirs
  <2>3. Inside(p)' => flocks'[root'[p]] = p
    BY <1>3, FilesAssumption
      DEF IInv, FileTypes, RoleInv, PlacesInv, Inside, Away, Publishes, Lists, Reads,
          Goes, Concludes, Errs, Cleans, LockManifest, Locked, Dirs
  <2> QED
    BY <2>1, <2>2, <2>3, PlacesAlone DEF IInv
<1>4. ASSUME NEW p \in Programs, Walk(p), UNCHANGED <<task, place, moves>>
      PROVE  PlacesInv'
  <2>1. Alone(p) /\ UNCHANGED <<task, root>> /\ at[p] = "walk"
    BY <1>4, AloneStep DEF IInv, FilesStep, Walk
  <2>2. CASE \E d \in Child(There(p)) : ~Arrived(p) /\ Descends(p, d)
    <3>1. PICK d \in Child(There(p)) : ~Arrived(p) /\ Descends(p, d)
      BY <2>2
    <3>2. There(p) \in Entry
      BY <2>1, <3>1, Named DEF IInv, Looks
    <3>3. d \in Dirs \ {Foreign}
      BY <3>1, <3>2, ChildIn
    <3>4. dir'[p] = d /\ at'[p] = "walk" /\ flocks' = flocks
      BY <3>1 DEF IInv, FileTypes, Descends, Goes
    <3>5. root[p] \in {Home, Other} /\ (Inside(p)' => flocks[root[p]] = p)
      BY <2>1 DEF IInv, PlacesInv, Away, Inside, Reads, Lists
    <3> QED
      BY <2>1, <3>3, <3>4, <3>5, PlacesAlone DEF IInv
  <2>3. CASE ~\E d \in Child(There(p)) : ~Arrived(p) /\ Descends(p, d)
    <3>1. UNCHANGED dir /\ (Goes(p, "look") \/ Goes(p, "mkdir") \/ Concludes(p, "absent") \/ Errs(p))
      BY <1>4, <2>3, Zenon DEF Walk
    <3>2. dir'[p] # Foreign /\ (at'[p] \notin Away => root'[p] \in {Home, Other} /\ dir'[p] \in Dirs)
      BY <2>1, <3>1 DEF IInv, FileTypes, PlacesInv, Away, Goes, Concludes, Errs
    <3>3. Inside(p)' => flocks'[root'[p]] = p
      BY <2>1, <3>1
        DEF IInv, FileTypes, PlacesInv, Inside, Lists, Reads, Goes, Concludes, Errs
    <3> QED
      BY <2>1, <3>2, <3>3, PlacesAlone DEF IInv
  <2> QED
    BY <2>2, <2>3
<1>5. ASSUME NEW p \in Programs, MakeDirectory(p), UNCHANGED <<task, place, moves>>
      PROVE  PlacesInv'
  <2>1. Alone(p) /\ UNCHANGED task
    BY <1>5, AloneStep DEF IInv, FilesStep
  <2>2. dir'[p] # Foreign /\ (at'[p] \notin Away => root'[p] \in {Home, Other} /\ dir'[p] \in Dirs)
    BY <1>5
      DEF IInv, FileTypes, PlacesInv, Away, Goes, Concludes, Errs, Cleans, MakeDirectory
  <2>3. Inside(p)' => flocks'[root'[p]] = p
    BY <1>5
      DEF IInv, FileTypes, RoleInv, PlacesInv, Inside, Away, Publishes, Lists, Reads,
          Goes, Concludes, Errs, Cleans, MakeDirectory
  <2> QED
    BY <2>1, <2>2, <2>3, PlacesAlone DEF IInv
<1>6. ASSUME NEW p \in Programs, Descend(p), UNCHANGED <<task, place, moves>>
      PROVE  PlacesInv'
  <2>1. Alone(p) /\ UNCHANGED <<task, root>> /\ at[p] = "descend"
    BY <1>6, AloneStep DEF IInv, FilesStep, Descend
  <2>2. CASE \E d \in Child(There(p)) : Descends(p, d)
    <3>1. PICK d \in Child(There(p)) : Descends(p, d)
      BY <2>2
    <3>2. There(p) \in Entry
      BY <2>1, <3>1, Named DEF IInv, Looks
    <3>3. d \in Dirs \ {Foreign}
      BY <3>1, <3>2, ChildIn
    <3>4. dir'[p] = d /\ at'[p] = "walk" /\ flocks' = flocks
      BY <3>1 DEF IInv, FileTypes, Descends, Goes
    <3>5. root[p] \in {Home, Other} /\ (Inside(p)' => flocks[root[p]] = p)
      BY <2>1 DEF IInv, PlacesInv, Away, Inside, Reads, Lists
    <3> QED
      BY <2>1, <3>3, <3>4, <3>5, PlacesAlone DEF IInv
  <2>3. CASE ~\E d \in Child(There(p)) : Descends(p, d)
    <3>1. UNCHANGED dir /\ (Goes(p, "look") \/ Goes(p, "mkdir") \/ Concludes(p, "absent") \/ Errs(p))
      BY <1>6, <2>3, Zenon DEF Descend
    <3>2. dir'[p] # Foreign /\ (at'[p] \notin Away => root'[p] \in {Home, Other} /\ dir'[p] \in Dirs)
      BY <2>1, <3>1 DEF IInv, FileTypes, PlacesInv, Away, Goes, Concludes, Errs
    <3>3. Inside(p)' => flocks'[root'[p]] = p
      BY <2>1, <3>1
        DEF IInv, FileTypes, PlacesInv, Inside, Lists, Reads, Goes, Concludes, Errs
    <3> QED
      BY <2>1, <3>2, <3>3, PlacesAlone DEF IInv
  <2> QED
    BY <2>2, <2>3
<1>7. ASSUME NEW p \in Programs, ListDirectory(p), UNCHANGED <<task, place, moves>>
      PROVE  PlacesInv'
  <2>1. Alone(p) /\ UNCHANGED task
    BY <1>7, AloneStep DEF IInv, FilesStep
  <2>2. dir'[p] # Foreign /\ (at'[p] \notin Away => root'[p] \in {Home, Other} /\ dir'[p] \in Dirs)
    BY <1>7
      DEF IInv, FileTypes, PlacesInv, Away, Goes, Concludes, Errs, Cleans, ListDirectory
  <2>3. Inside(p)' => flocks'[root'[p]] = p
    BY <1>7
      DEF IInv, FileTypes, RoleInv, PlacesInv, Inside, Away, Publishes, Lists, Reads,
          Goes, Concludes, Errs, Cleans, ListDirectory
  <2> QED
    BY <2>1, <2>2, <2>3, PlacesAlone DEF IInv
<1>8. ASSUME NEW p \in Programs, Look(p), UNCHANGED <<task, place, moves>>
      PROVE  PlacesInv'
  <2>1. Alone(p) /\ UNCHANGED task
    BY <1>8, AloneStep DEF IInv, FilesStep
  <2>2. dir'[p] # Foreign /\ (at'[p] \notin Away => root'[p] \in {Home, Other} /\ dir'[p] \in Dirs)
    BY <1>8 DEF IInv, FileTypes, PlacesInv, Away, Goes, Concludes, Errs, Cleans, Look
  <2>3. Inside(p)' => flocks'[root'[p]] = p
    BY <1>8
      DEF IInv, FileTypes, RoleInv, PlacesInv, Inside, Away, Publishes, Lists, Reads,
          Goes, Concludes, Errs, Cleans, Look
  <2> QED
    BY <2>1, <2>2, <2>3, PlacesAlone DEF IInv
<1>9. ASSUME NEW p \in Programs, WriteTemp(p), UNCHANGED <<task, place, moves>>
      PROVE  PlacesInv'
  <2>1. Alone(p) /\ UNCHANGED task
    BY <1>9, AloneStep DEF IInv, FilesStep
  <2>2. dir'[p] # Foreign /\ (at'[p] \notin Away => root'[p] \in {Home, Other} /\ dir'[p] \in Dirs)
    BY <1>9 DEF IInv, FileTypes, PlacesInv, Away, Goes, Concludes, Errs, Cleans, WriteTemp
  <2>3. Inside(p)' => flocks'[root'[p]] = p
    BY <1>9
      DEF IInv, FileTypes, RoleInv, PlacesInv, Inside, Away, Publishes, Lists, Reads,
          Goes, Concludes, Errs, Cleans, WriteTemp
  <2> QED
    BY <2>1, <2>2, <2>3, PlacesAlone DEF IInv
<1>10. ASSUME NEW p \in Programs, EnsureAbsent(p), UNCHANGED <<task, place, moves>>
      PROVE  PlacesInv'
  <2>1. Alone(p) /\ UNCHANGED task
    BY <1>10, AloneStep DEF IInv, FilesStep
  <2>2. dir'[p] # Foreign /\ (at'[p] \notin Away => root'[p] \in {Home, Other} /\ dir'[p] \in Dirs)
    BY <1>10
      DEF IInv, FileTypes, PlacesInv, Away, Goes, Concludes, Errs, Cleans, EnsureAbsent
  <2>3. Inside(p)' => flocks'[root'[p]] = p
    BY <1>10
      DEF IInv, FileTypes, RoleInv, PlacesInv, Inside, Away, Publishes, Lists, Reads,
          Goes, Concludes, Errs, Cleans, EnsureAbsent
  <2> QED
    BY <2>1, <2>2, <2>3, PlacesAlone DEF IInv
<1>11. ASSUME NEW p \in Programs, LinkFinal(p), UNCHANGED <<task, place, moves>>
      PROVE  PlacesInv'
  <2>1. Alone(p) /\ UNCHANGED task
    BY <1>11, AloneStep DEF IInv, FilesStep
  <2>2. dir'[p] # Foreign /\ (at'[p] \notin Away => root'[p] \in {Home, Other} /\ dir'[p] \in Dirs)
    BY <1>11
      DEF IInv, FileTypes, PlacesInv, Away, Goes, Concludes, Errs, Cleans, LinkFinal
  <2>3. Inside(p)' => flocks'[root'[p]] = p
    BY <1>11
      DEF IInv, FileTypes, RoleInv, PlacesInv, Inside, Away, Publishes, Lists, Reads,
          Goes, Concludes, Errs, Cleans, LinkFinal
  <2> QED
    BY <2>1, <2>2, <2>3, PlacesAlone DEF IInv
<1>12. ASSUME NEW p \in Programs, Tidy(p), UNCHANGED <<task, place, moves>>
      PROVE  PlacesInv'
  <2>1. Alone(p) /\ UNCHANGED task
    BY <1>12, AloneStep DEF IInv, FilesStep
  <2>2. dir'[p] # Foreign /\ (at'[p] \notin Away => root'[p] \in {Home, Other} /\ dir'[p] \in Dirs)
    BY <1>12 DEF IInv, FileTypes, PlacesInv, Away, Goes, Concludes, Errs, Cleans, Tidy
  <2>3. Inside(p)' => flocks'[root'[p]] = p
    BY <1>12
      DEF IInv, FileTypes, RoleInv, PlacesInv, Inside, Away, Publishes, Lists, Reads,
          Goes, Concludes, Errs, Cleans, Tidy
  <2> QED
    BY <2>1, <2>2, <2>3, PlacesAlone DEF IInv
<1>13. ASSUME NEW p \in Programs, Unlink(p), UNCHANGED <<task, place, moves>>
      PROVE  PlacesInv'
  <2>1. Alone(p) /\ UNCHANGED task
    BY <1>13, AloneStep DEF IInv, FilesStep
  <2>2. dir'[p] # Foreign /\ (at'[p] \notin Away => root'[p] \in {Home, Other} /\ dir'[p] \in Dirs)
    BY <1>13 DEF IInv, FileTypes, PlacesInv, Away, Goes, Concludes, Errs, Cleans, Unlink
  <2>3. Inside(p)' => flocks'[root'[p]] = p
    BY <1>13
      DEF IInv, FileTypes, RoleInv, PlacesInv, Inside, Away, Publishes, Lists, Reads,
          Goes, Concludes, Errs, Cleans, Unlink
  <2> QED
    BY <2>1, <2>2, <2>3, PlacesAlone DEF IInv
<1>14. ASSUME NEW p \in Programs, SyncParent(p), UNCHANGED <<task, place, moves>>
      PROVE  PlacesInv'
  <2>1. Alone(p) /\ UNCHANGED task
    BY <1>14, AloneStep DEF IInv, FilesStep
  <2>2. dir'[p] # Foreign /\ (at'[p] \notin Away => root'[p] \in {Home, Other} /\ dir'[p] \in Dirs)
    BY <1>14, FilesAssumption
      DEF IInv, FileTypes, PlacesInv, Away, Goes, Concludes, Errs, Cleans, SyncParent,
          Dirs
  <2>3. Inside(p)' => flocks'[root'[p]] = p
    BY <1>14, FilesAssumption
      DEF IInv, FileTypes, RoleInv, PlacesInv, Inside, Away, Publishes, Lists, Reads,
          Goes, Concludes, Errs, Cleans, SyncParent, Dirs
  <2> QED
    BY <2>1, <2>2, <2>3, PlacesAlone DEF IInv
<1>15. ASSUME NEW p \in Programs, CallFails(p), UNCHANGED <<task, place, moves>>
      PROVE  PlacesInv'
  <2>1. Alone(p) /\ UNCHANGED task
    BY <1>15, AloneStep DEF IInv, FilesStep
  <2>2. dir'[p] # Foreign /\ (at'[p] \notin Away => root'[p] \in {Home, Other} /\ dir'[p] \in Dirs)
    BY <1>15
      DEF IInv, FileTypes, PlacesInv, Away, Goes, Concludes, Errs, Cleans, CallFails
  <2>3. Inside(p)' => flocks'[root'[p]] = p
    BY <1>15
      DEF IInv, FileTypes, RoleInv, PlacesInv, Inside, Away, Publishes, Lists, Reads,
          Goes, Concludes, Errs, Cleans, CallFails
  <2> QED
    BY <2>1, <2>2, <2>3, PlacesAlone DEF IInv
<1>16. ASSUME NEW p \in Programs, Die(p), UNCHANGED <<task, place, moves>>
      PROVE  PlacesInv'
  <2>1. Alone(p) /\ UNCHANGED task
    BY <1>16, AloneStep DEF IInv, FilesStep
  <2>2. dir'[p] # Foreign /\ (at'[p] \notin Away => root'[p] \in {Home, Other} /\ dir'[p] \in Dirs)
    BY <1>16 DEF IInv, FileTypes, PlacesInv, Away, Goes, Concludes, Errs, Cleans, Die
  <2>3. Inside(p)' => flocks'[root'[p]] = p
    BY <1>16
      DEF IInv, FileTypes, RoleInv, PlacesInv, Inside, Away, Publishes, Lists, Reads,
          Goes, Concludes, Errs, Cleans, Die
  <2> QED
    BY <2>1, <2>2, <2>3, PlacesAlone DEF IInv
<1>17. CASE
  \/ MoveProject /\ UNCHANGED <<task, tree, flocks, at, root, dir, left, made, said, linked>>
  \/ ChangeEntry /\ UNCHANGED <<task, flocks, at, root, dir, left, made, said, linked>>
  \/ UNCHANGED fileVars
  BY <1>17 DEF IInv, PlacesInv, Inside, Reads, Lists, fileVars
<1> QED
  BY <1>1, <1>2, <1>3, <1>4, <1>5, <1>6, <1>7, <1>8, <1>9, <1>10, <1>11, <1>12, <1>13,
    <1>14, <1>15, <1>16, <1>17
      DEF FilesNext, FilesStep, MoveProject, ChangeEntry, fileVars

(* Every directory stays with the project it belongs to.                    *)
LEMMA RegionsStep ==
  ASSUME IInv, [FilesNext]_fileVars
  PROVE  RegionsInv'
<1>1. ASSUME NEW p \in Programs, OpenProject(p), UNCHANGED <<task, place, moves>>
      PROVE  RegionsInv'
  <2>1. Alone(p) /\ at[p] \notin {"done", "dead"}
    BY <1>1, AloneStep DEF IInv, FilesStep, OpenProject
  <2>2. NoNewDirs
    BY <1>1 DEF NoNewDirs, OpenProject
  <2>3. PICK region \in [Dirs -> {Home, Other}] : Regions(region)
    BY DEF IInv, RegionsInv
  <2>4. at'[p] \notin Away => region[dir'[p]] = root'[p]
    BY <1>1, <2>1, <2>3, PlaceIs
      DEF IInv, FileTypes, Regions, Away, Goes, Concludes, Errs, Cleans, OpenProject
  <2> QED
    BY <2>1, <2>2, <2>3, <2>4, RegionsAlone
<1>2. ASSUME NEW p \in Programs, EnsureBinding(p), UNCHANGED <<task, place, moves>>
      PROVE  RegionsInv'
  <2>1. Alone(p) /\ at[p] \notin {"done", "dead"}
    BY <1>2, AloneStep DEF IInv, FilesStep, EnsureBinding
  <2>2. NoNewDirs
    BY <1>2 DEF NoNewDirs, EnsureBinding
  <2>3. PICK region \in [Dirs -> {Home, Other}] : Regions(region)
    BY DEF IInv, RegionsInv
  <2>4. at'[p] \notin Away => region[dir'[p]] = root'[p]
    BY <1>2, <2>1, <2>3
      DEF IInv, FileTypes, Regions, Away, Goes, Concludes, Errs, Cleans, EnsureBinding
  <2> QED
    BY <2>1, <2>2, <2>3, <2>4, RegionsAlone
<1>3. ASSUME NEW p \in Programs, LockManifest(p), UNCHANGED <<task, place, moves>>
      PROVE  RegionsInv'
  <2>1. Alone(p) /\ at[p] \notin {"done", "dead"}
    BY <1>3, AloneStep DEF IInv, FilesStep, LockManifest
  <2>2. NoNewDirs
    BY <1>3 DEF NoNewDirs, LockManifest
  <2>3. PICK region \in [Dirs -> {Home, Other}] : Regions(region)
    BY DEF IInv, RegionsInv
  <2>4. at'[p] \notin Away => region[dir'[p]] = root'[p]
    BY <1>3, <2>1, <2>3
      DEF IInv, FileTypes, Regions, Away, Goes, Concludes, Errs, Cleans, LockManifest
  <2> QED
    BY <2>1, <2>2, <2>3, <2>4, RegionsAlone
<1>4. ASSUME NEW p \in Programs, Walk(p), UNCHANGED <<task, place, moves>>
      PROVE  RegionsInv'
  <2>1. Alone(p) /\ UNCHANGED <<task, tree, root>> /\ at[p] = "walk" /\ NoNewDirs
    BY <1>4, AloneStep DEF IInv, FilesStep, NoNewDirs, Walk
  <2>2. PICK region \in [Dirs -> {Home, Other}] : Regions(region)
    BY DEF IInv, RegionsInv
  <2>3. CASE \E d \in Child(There(p)) : ~Arrived(p) /\ Descends(p, d)
    <3>1. PICK d \in Child(There(p)) : ~Arrived(p) /\ Descends(p, d)
      BY <2>3
    <3>2. There(p) \in Entry /\ dir[p] \in Dirs /\ Name(p) \in Names
      BY <2>1, <3>1, Named DEF IInv, Looks
    <3>3. There(p) = Real(d)
      BY <3>1, <3>2, ChildIn
    <3>4. region[d] = region[dir[p]]
      BY <2>2, <3>1, <3>2, <3>3 DEF Regions, There, Real, Child
    <3>5. dir'[p] = d /\ region[dir[p]] = root[p]
      BY <2>1, <2>2, <3>1 DEF IInv, FileTypes, Descends, Regions, Away
    <3> QED
      BY <2>1, <2>2, <3>4, <3>5, RegionsAlone
  <2>4. CASE ~\E d \in Child(There(p)) : ~Arrived(p) /\ Descends(p, d)
    <3>1. UNCHANGED dir
      BY <1>4, <2>4, Zenon DEF Walk
    <3> QED
      BY <2>1, <2>2, <3>1, RegionsAlone DEF Regions, Away
  <2> QED
    BY <2>3, <2>4
<1>5. ASSUME NEW p \in Programs, MakeDirectory(p), UNCHANGED <<task, place, moves>>
      PROVE  RegionsInv'
  <2>1. /\ Alone(p) /\ at[p] = "mkdir" /\ at'[p] = "descend" /\ UNCHANGED <<task, root, dir>>
    BY <1>5, AloneStep DEF IInv, FileTypes, FilesStep, MakeDirectory, Goes
  <2>2. PICK region \in [Dirs -> {Home, Other}] : Regions(region)
    BY DEF IInv, RegionsInv
  <2>3. Name(p) \in Names /\ dir[p] \in Dirs
    BY <2>1, Named DEF IInv, Looks
  <2>4. region[dir[p]] = root[p]
    BY <2>1, <2>2 DEF Regions, Away
  <2>5. CASE There(p) # Nothing
    <3>1. NoNewDirs
      BY <1>5, <2>5 DEF MakeDirectory, NoNewDirs
    <3> QED
      BY <2>1, <2>2, <2>4, <3>1, RegionsAlone
  <2>6. CASE There(p) = Nothing
    <3>1. PICK d \in Unused : Holds(dir[p], Name(p), Real(d))
      BY <1>5, <2>6 DEF MakeDirectory
    <3>2. /\ d \in Spare /\ d \in Dirs /\ dir[p] # d
          /\ \A q \in Programs : dir[q] # d
          /\ \A e \in Dirs : \A n \in Names \cup Programs : tree[e][n] # Real(d)
          /\ \A n \in Names \cup Programs : tree[d][n] = Nothing
      BY <3>1 DEF Unused, Dirs, IInv, FileTypes
    <3>3. PICK new \in [Dirs -> {Home, Other}] :
            new[d] = region[dir[p]] /\ \A e \in Dirs \ {d} : new[e] = region[e]
      <4>1. [region EXCEPT ![d] = region[dir[p]]] \in [Dirs -> {Home, Other}]
        BY <2>3
      <4> QED
        BY <3>2, <4>1
    <3>4. new[Home] = Home /\ new[Other] = Other /\ \A t \in Theirs : new[t] = Home
      BY <2>2, <3>2, <3>3, FilesAssumption DEF Regions, Dirs
    <3>5. ASSUME NEW e \in Dirs, NEW n \in Names \cup Programs, IsA("dir", tree'[e][n])
          PROVE  new[tree'[e][n].of] = new[e]
      <4>1. Real(d) \in Entry
        BY <3>2 DEF Entry, Real
      <4>2. tree'[e][n] = IF e = dir[p] /\ n = Name(p) THEN Real(d) ELSE tree[e][n]
        BY <2>3, <3>1, <4>1, NewEntry DEF IInv
      <4>3. CASE e = dir[p] /\ n = Name(p)
        BY <2>3, <3>2, <3>3, <4>2, <4>3 DEF Real
      <4>4. CASE ~(e = dir[p] /\ n = Name(p))
        <5>1. tree'[e][n] = tree[e][n] /\ tree[e][n] \in Entry /\ e # d
          BY <3>2, <3>5, <4>2, <4>4 DEF IInv, FileTypes, Entry, IsA
        <5>2. tree[e][n] = Real(tree[e][n].of) /\ tree[e][n].of \in Dirs
          BY <3>5, <5>1 DEF Entry, UserEntry, IsA, Real, Dirs
        <5> QED
          BY <2>2, <3>2, <3>3, <3>5, <5>1, <5>2 DEF Regions
      <4> QED
        BY <4>3, <4>4
    <3>6. ASSUME NEW q \in Programs, at'[q] \notin Away
          PROVE  new[dir'[q]] = root'[q]
      <4>1. at[q] \notin Away /\ dir[q] \in Dirs \ {d} /\ dir'[q] = dir[q] /\ root'[q] = root[q]
        BY <2>1, <3>2, <3>6 DEF Alone, Away, IInv, PlacesInv
      <4> QED
        BY <2>2, <3>3, <4>1 DEF Regions
    <3>7. Regions(new)'
      BY <3>4, <3>5, <3>6 DEF Regions
    <3> QED
      BY <3>3, <3>7 DEF RegionsInv
  <2> QED
    BY <2>5, <2>6
<1>6. ASSUME NEW p \in Programs, Descend(p), UNCHANGED <<task, place, moves>>
      PROVE  RegionsInv'
  <2>1. Alone(p) /\ UNCHANGED <<task, tree, root>> /\ at[p] = "descend" /\ NoNewDirs
    BY <1>6, AloneStep DEF IInv, FilesStep, NoNewDirs, Descend
  <2>2. PICK region \in [Dirs -> {Home, Other}] : Regions(region)
    BY DEF IInv, RegionsInv
  <2>3. CASE \E d \in Child(There(p)) : Descends(p, d)
    <3>1. PICK d \in Child(There(p)) : Descends(p, d)
      BY <2>3
    <3>2. There(p) \in Entry /\ dir[p] \in Dirs /\ Name(p) \in Names
      BY <2>1, <3>1, Named DEF IInv, Looks
    <3>3. There(p) = Real(d)
      BY <3>1, <3>2, ChildIn
    <3>4. region[d] = region[dir[p]]
      BY <2>2, <3>1, <3>2, <3>3 DEF Regions, There, Real, Child
    <3>5. dir'[p] = d /\ region[dir[p]] = root[p]
      BY <2>1, <2>2, <3>1 DEF IInv, FileTypes, Descends, Regions, Away
    <3> QED
      BY <2>1, <2>2, <3>4, <3>5, RegionsAlone
  <2>4. CASE ~\E d \in Child(There(p)) : Descends(p, d)
    <3>1. UNCHANGED dir
      BY <1>6, <2>4, Zenon DEF Descend
    <3> QED
      BY <2>1, <2>2, <3>1, RegionsAlone DEF Regions, Away
  <2> QED
    BY <2>3, <2>4
<1>7. ASSUME NEW p \in Programs, ListDirectory(p), UNCHANGED <<task, place, moves>>
      PROVE  RegionsInv'
  <2>1. Alone(p) /\ at[p] \notin {"done", "dead"}
    BY <1>7, AloneStep DEF IInv, FilesStep, ListDirectory
  <2>2. NoNewDirs
    BY <1>7 DEF NoNewDirs, ListDirectory
  <2>3. PICK region \in [Dirs -> {Home, Other}] : Regions(region)
    BY DEF IInv, RegionsInv
  <2>4. at'[p] \notin Away => region[dir'[p]] = root'[p]
    BY <1>7, <2>1, <2>3
      DEF IInv, FileTypes, Regions, Away, Goes, Concludes, Errs, Cleans, ListDirectory
  <2> QED
    BY <2>1, <2>2, <2>3, <2>4, RegionsAlone
<1>8. ASSUME NEW p \in Programs, Look(p), UNCHANGED <<task, place, moves>>
      PROVE  RegionsInv'
  <2>1. Alone(p) /\ at[p] \notin {"done", "dead"}
    BY <1>8, AloneStep DEF IInv, FilesStep, Look
  <2>2. NoNewDirs
    BY <1>8 DEF NoNewDirs, Look
  <2>3. PICK region \in [Dirs -> {Home, Other}] : Regions(region)
    BY DEF IInv, RegionsInv
  <2>4. at'[p] \notin Away => region[dir'[p]] = root'[p]
    BY <1>8, <2>1, <2>3
      DEF IInv, FileTypes, Regions, Away, Goes, Concludes, Errs, Cleans, Look
  <2> QED
    BY <2>1, <2>2, <2>3, <2>4, RegionsAlone
<1>9. ASSUME NEW p \in Programs, WriteTemp(p), UNCHANGED <<task, place, moves>>
      PROVE  RegionsInv'
  <2>1. Alone(p) /\ at[p] \notin {"done", "dead"}
    BY <1>9, AloneStep DEF IInv, FilesStep, WriteTemp
  <2>2. NoNewDirs
    <3>1. dir[p] \in Dirs /\ (TRUE => Name(p) \in Names)
      BY <1>9, Named DEF IInv, PlacesInv, Away, Looks, WriteTemp
    <3> QED
      BY <1>9, <3>1, NewEntry, NotADir DEF IInv, NoNewDirs, Cleans, WriteTemp
  <2>3. PICK region \in [Dirs -> {Home, Other}] : Regions(region)
    BY DEF IInv, RegionsInv
  <2>4. at'[p] \notin Away => region[dir'[p]] = root'[p]
    BY <1>9, <2>1, <2>3
      DEF IInv, FileTypes, Regions, Away, Goes, Concludes, Errs, Cleans, WriteTemp
  <2> QED
    BY <2>1, <2>2, <2>3, <2>4, RegionsAlone
<1>10. ASSUME NEW p \in Programs, EnsureAbsent(p), UNCHANGED <<task, place, moves>>
      PROVE  RegionsInv'
  <2>1. Alone(p) /\ at[p] \notin {"done", "dead"}
    BY <1>10, AloneStep DEF IInv, FilesStep, EnsureAbsent
  <2>2. NoNewDirs
    <3>1. dir[p] \in Dirs /\ (TRUE => Name(p) \in Names)
      BY <1>10, Named DEF IInv, PlacesInv, Away, Looks, EnsureAbsent
    <3> QED
      BY <1>10, <3>1, NewEntry, NotADir DEF IInv, NoNewDirs, Cleans, EnsureAbsent
  <2>3. PICK region \in [Dirs -> {Home, Other}] : Regions(region)
    BY DEF IInv, RegionsInv
  <2>4. at'[p] \notin Away => region[dir'[p]] = root'[p]
    BY <1>10, <2>1, <2>3
      DEF IInv, FileTypes, Regions, Away, Goes, Concludes, Errs, Cleans, EnsureAbsent
  <2> QED
    BY <2>1, <2>2, <2>3, <2>4, RegionsAlone
<1>11. ASSUME NEW p \in Programs, LinkFinal(p), UNCHANGED <<task, place, moves>>
      PROVE  RegionsInv'
  <2>1. Alone(p) /\ at[p] \notin {"done", "dead"}
    BY <1>11, AloneStep DEF IInv, FilesStep, LinkFinal
  <2>2. NoNewDirs
    <3>1. dir[p] \in Dirs /\ (TRUE => Name(p) \in Names)
      BY <1>11, Named DEF IInv, PlacesInv, Away, Looks, LinkFinal
    <3> QED
      BY <1>11, <3>1, NewEntry, NotADir DEF IInv, NoNewDirs, Cleans, LinkFinal
  <2>3. PICK region \in [Dirs -> {Home, Other}] : Regions(region)
    BY DEF IInv, RegionsInv
  <2>4. at'[p] \notin Away => region[dir'[p]] = root'[p]
    BY <1>11, <2>1, <2>3
      DEF IInv, FileTypes, Regions, Away, Goes, Concludes, Errs, Cleans, LinkFinal
  <2> QED
    BY <2>1, <2>2, <2>3, <2>4, RegionsAlone
<1>12. ASSUME NEW p \in Programs, Tidy(p), UNCHANGED <<task, place, moves>>
      PROVE  RegionsInv'
  <2>1. Alone(p) /\ at[p] \notin {"done", "dead"}
    BY <1>12, AloneStep DEF IInv, FilesStep, Tidy
  <2>2. NoNewDirs
    <3>1. dir[p] \in Dirs /\ (FALSE => Name(p) \in Names)
      BY <1>12, Named DEF IInv, PlacesInv, Away, Looks, Tidy
    <3> QED
      BY <1>12, <3>1, NewEntry, NotADir DEF IInv, NoNewDirs, Cleans, Tidy
  <2>3. PICK region \in [Dirs -> {Home, Other}] : Regions(region)
    BY DEF IInv, RegionsInv
  <2>4. at'[p] \notin Away => region[dir'[p]] = root'[p]
    BY <1>12, <2>1, <2>3
      DEF IInv, FileTypes, Regions, Away, Goes, Concludes, Errs, Cleans, Tidy
  <2> QED
    BY <2>1, <2>2, <2>3, <2>4, RegionsAlone
<1>13. ASSUME NEW p \in Programs, Unlink(p), UNCHANGED <<task, place, moves>>
      PROVE  RegionsInv'
  <2>1. Alone(p) /\ at[p] \notin {"done", "dead"}
    BY <1>13, AloneStep DEF IInv, FilesStep, Unlink
  <2>2. NoNewDirs
    <3>1. dir[p] \in Dirs /\ (TRUE => Name(p) \in Names)
      BY <1>13, Named DEF IInv, PlacesInv, Away, Looks, Unlink
    <3> QED
      BY <1>13, <3>1, NewEntry, NotADir DEF IInv, NoNewDirs, Cleans, Unlink
  <2>3. PICK region \in [Dirs -> {Home, Other}] : Regions(region)
    BY DEF IInv, RegionsInv
  <2>4. at'[p] \notin Away => region[dir'[p]] = root'[p]
    BY <1>13, <2>1, <2>3
      DEF IInv, FileTypes, Regions, Away, Goes, Concludes, Errs, Cleans, Unlink
  <2> QED
    BY <2>1, <2>2, <2>3, <2>4, RegionsAlone
<1>14. ASSUME NEW p \in Programs, SyncParent(p), UNCHANGED <<task, place, moves>>
      PROVE  RegionsInv'
  <2>1. Alone(p) /\ at[p] \notin {"done", "dead"}
    BY <1>14, AloneStep DEF IInv, FilesStep, SyncParent
  <2>2. NoNewDirs
    BY <1>14 DEF NoNewDirs, SyncParent
  <2>3. PICK region \in [Dirs -> {Home, Other}] : Regions(region)
    BY DEF IInv, RegionsInv
  <2>4. at'[p] \notin Away => region[dir'[p]] = root'[p]
    BY <1>14, <2>1, <2>3
      DEF IInv, FileTypes, Regions, Away, Goes, Concludes, Errs, Cleans, SyncParent,
          PlacesInv
  <2> QED
    BY <2>1, <2>2, <2>3, <2>4, RegionsAlone
<1>15. ASSUME NEW p \in Programs, CallFails(p), UNCHANGED <<task, place, moves>>
      PROVE  RegionsInv'
  <2>1. Alone(p) /\ at[p] \notin {"done", "dead"}
    BY <1>15, AloneStep DEF IInv, FilesStep, CallFails
  <2>2. NoNewDirs
    <3>1. dir[p] \in Dirs /\ (FALSE => Name(p) \in Names)
      BY <1>15, Named DEF IInv, PlacesInv, Away, Looks, CallFails
    <3> QED
      BY <1>15, <3>1, NewEntry, NotADir DEF IInv, NoNewDirs, Cleans, CallFails
  <2>3. PICK region \in [Dirs -> {Home, Other}] : Regions(region)
    BY DEF IInv, RegionsInv
  <2>4. at'[p] \notin Away => region[dir'[p]] = root'[p]
    BY <1>15, <2>1, <2>3
      DEF IInv, FileTypes, Regions, Away, Goes, Concludes, Errs, Cleans, CallFails
  <2> QED
    BY <2>1, <2>2, <2>3, <2>4, RegionsAlone
<1>16. ASSUME NEW p \in Programs, Die(p), UNCHANGED <<task, place, moves>>
      PROVE  RegionsInv'
  <2>1. Alone(p) /\ at[p] \notin {"done", "dead"}
    BY <1>16, AloneStep DEF IInv, FilesStep, Die
  <2>2. NoNewDirs
    BY <1>16 DEF NoNewDirs, Die
  <2>3. PICK region \in [Dirs -> {Home, Other}] : Regions(region)
    BY DEF IInv, RegionsInv
  <2>4. at'[p] \notin Away => region[dir'[p]] = root'[p]
    BY <1>16, <2>1, <2>3
      DEF IInv, FileTypes, Regions, Away, Goes, Concludes, Errs, Cleans, Die
  <2> QED
    BY <2>1, <2>2, <2>3, <2>4, RegionsAlone
<1>17. ASSUME ChangeEntry, UNCHANGED <<task, flocks, at, root, dir, left, made, said, linked>>
      PROVE  RegionsInv'
  <2>1. PICK region \in [Dirs -> {Home, Other}] : Regions(region)
    BY DEF IInv, RegionsInv
  <2>2. PICK d \in Reachable, name \in Names :
          \E entry \in UserEntries[name] : (IsA("dir", entry) => d = Home) /\ Holds(d, name, entry)
    BY <1>17 DEF ChangeEntry, Names
  <2>3. PICK entry \in UserEntries[name] : (IsA("dir", entry) => d = Home) /\ Holds(d, name, entry)
    BY <2>2
  <2>4. d \in Dirs /\ entry \in UserEntry
    BY FilesAssumption DEF Reachable, Dirs
  <2>5. \A e \in Dirs : \A n \in Names \cup Programs :
          tree'[e][n] = IF e = d /\ n = name THEN entry ELSE tree[e][n]
    BY <2>3, <2>4, NewEntry DEF IInv, Entry
  <2>6. IsA("dir", entry) => entry.of \in Theirs
    BY <2>4 DEF UserEntry, IsA
  <2>7. \A e \in Dirs : \A n \in Names \cup Programs :
          IsA("dir", tree'[e][n]) => region[tree'[e][n].of] = region[e]
    BY <2>1, <2>3, <2>5, <2>6 DEF Regions
  <2>8. Regions(region)'
    BY <1>17, <2>1, <2>7 DEF Regions
  <2> QED
    BY <2>8 DEF RegionsInv
<1>18. CASE
  \/ MoveProject /\ UNCHANGED <<task, tree, flocks, at, root, dir, left, made, said, linked>>
  \/ UNCHANGED fileVars
  BY <1>18 DEF IInv, RegionsInv, Regions, fileVars
<1> QED
  BY <1>1, <1>2, <1>3, <1>4, <1>5, <1>6, <1>7, <1>8, <1>9, <1>10, <1>11, <1>12, <1>13,
    <1>14, <1>15, <1>16, <1>17, <1>18
      DEF FilesNext, FilesStep, MoveProject, ChangeEntry, fileVars

(* A program that has published knows it, or is just about to learn it.    *)
LEMMA AnswerStep ==
  ASSUME IInv, [FilesNext]_fileVars
  PROVE  AnswerInv'
<1>1. ASSUME NEW p \in Programs, UNCHANGED <<task, place, moves>>,
            OpenProject(p) \/ LockManifest(p) \/ MakeDirectory(p) \/ ListDirectory(p) \/ Look(p)
      PROVE  AnswerInv'
  BY <1>1
    DEF IInv, AnswerInv, FileTypes, Goes, Concludes, Errs, Answer, OpenProject,
        LockManifest, MakeDirectory, ListDirectory, Look
<1>2. ASSUME NEW p \in Programs, UNCHANGED <<task, place, moves>>,
            WriteTemp(p) \/ EnsureAbsent(p) \/ Tidy(p) \/ Unlink(p) \/ SyncParent(p)
      PROVE  AnswerInv'
  BY <1>2
    DEF IInv, AnswerInv, FileTypes, Goes, Concludes, Errs, Answer, WriteTemp,
        EnsureAbsent, Tidy, Unlink, SyncParent, Cleans, Knows
<1>3. ASSUME NEW p \in Programs, UNCHANGED <<task, place, moves>>,
            CallFails(p) \/ Die(p)
      PROVE  AnswerInv'
  <2>1. CASE CallFails(p)
    <3>1. /\ at[p] \notin {"tidy", "dead"}
          /\ at' = [at EXCEPT ![p] = "done"] /\ said' = [said EXCEPT ![p] = Answer(made[p])]
          /\ UNCHANGED <<made, linked>>
      BY <2>1 DEF CallFails, Cleans, Errs, Concludes
    <3>2. AnswerInv /\ DOMAIN at = Programs /\ DOMAIN said = Programs
      BY DEF IInv, FileTypes
    <3> QED
      BY <3>1, <3>2 DEF AnswerInv
  <2>2. CASE Die(p)
    BY ZenonT(40), <1>3, <2>2 DEF IInv, AnswerInv, FileTypes, Goes, Die
  <2> QED
    BY <1>3, <2>1, <2>2
<1>4. ASSUME NEW p \in Programs, EnsureBinding(p), UNCHANGED <<task, place, moves>>
      PROVE  AnswerInv'
  <2>1. /\ UNCHANGED <<root, made, linked, bound>>
        /\ \/ at[p] \in {"opened", "locked", "next", "seen", "final"} /\ Errs(p)
           \/ at[p] = "final" /\ Bound(p) /\ Concludes(p, "ok")
           \/ /\ at[p] \in {"opened", "locked", "next", "seen"}
              /\ \E step \in {"walk", "lock", "temp", "reopen"} : Goes(p, step)
    BY <1>4, BindingComesTo DEF IInv
  <2>2. CASE at[p] \in {"opened", "locked", "next", "seen", "final"} /\ Errs(p)
    BY <1>4, <2>1, <2>2
      DEF IInv, Away, AnswerInv, FileTypes, Goes, Concludes, Errs, Answer
  <2>3. CASE at[p] = "final" /\ Bound(p) /\ Concludes(p, "ok")
    BY <1>4, <2>1, <2>3 DEF IInv, AnswerInv, FileTypes, Goes, Concludes, Errs, Answer
  <2>4. CASE /\ at[p] \in {"opened", "locked", "next", "seen"}
             /\ \E step \in {"walk", "lock", "temp", "reopen"} : Goes(p, step)
    BY <1>4, <2>1, <2>4 DEF IInv, AnswerInv, FileTypes, Goes, Concludes, Errs, Answer
  <2> QED
    BY <2>1, <2>2, <2>3, <2>4
<1>5. ASSUME NEW p \in Programs, Walk(p), UNCHANGED <<task, place, moves>>
      PROVE  AnswerInv'
  <2>1. /\ at[p] \in {"walk", "descend"} /\ UNCHANGED <<root, made, linked, bound>>
        /\ Errs(p) \/ Concludes(p, "absent") \/ \E step \in {"walk", "look", "mkdir"} : Goes(p, step)
    BY <1>5, WalkComesTo
  <2> QED
    BY <1>5, <2>1 DEF IInv, AnswerInv, FileTypes, Goes, Concludes, Errs, Answer
<1>6. ASSUME NEW p \in Programs, Descend(p), UNCHANGED <<task, place, moves>>
      PROVE  AnswerInv'
  <2>1. /\ at[p] \in {"walk", "descend"} /\ UNCHANGED <<root, made, linked, bound>>
        /\ Errs(p) \/ Concludes(p, "absent") \/ \E step \in {"walk", "look", "mkdir"} : Goes(p, step)
    BY <1>6, WalkComesTo
  <2> QED
    BY <1>6, <2>1 DEF IInv, AnswerInv, FileTypes, Goes, Concludes, Errs, Answer
<1>7. ASSUME NEW p \in Programs, LinkFinal(p), UNCHANGED <<task, place, moves>>
      PROVE  AnswerInv'
  <2>1. CASE There(p) = Nothing
    <3>1. /\ said[p] = "none" /\ at' = [at EXCEPT ![p] = "tidy"] /\ linked' = linked \cup {p}
          /\ UNCHANGED <<root, made, said>> /\ Counts(p)
      BY <1>7, <2>1 DEF IInv, LinkFinal, Goes, AnswerInv
    <3> QED
      BY <1>7, <3>1 DEF IInv, AnswerInv, FileTypes, Goes, Concludes, Errs, Answer
  <2>2. CASE There(p) # Nothing
    <3>1. at[p] = "link" /\ Errs(p) /\ UNCHANGED <<root, made, linked, bound>>
      BY <1>7, <2>2 DEF LinkFinal, Cleans
    <3> QED
      BY <1>7, <3>1 DEF IInv, AnswerInv, FileTypes, Goes, Concludes, Errs, Answer
  <2> QED
    BY <2>1, <2>2
<1>8. CASE
  \/ MoveProject /\ UNCHANGED <<task, tree, flocks, at, root, dir, left, made, said, linked>>
  \/ ChangeEntry /\ UNCHANGED <<task, flocks, at, root, dir, left, made, said, linked>>
  \/ UNCHANGED fileVars
  BY <1>8
    DEF IInv, AnswerInv, FileTypes, Goes, Concludes, Errs, Answer, fileVars, MoveProject,
        ChangeEntry
<1> QED
  BY <1>1, <1>2, <1>3, <1>4, <1>5, <1>6, <1>7, <1>8
    DEF FilesNext, FilesStep, MoveProject, ChangeEntry, fileVars

(* Answers say what was published.                                         *)
LEMMA ErrorsStep ==
  ASSUME IInv, [FilesNext]_fileVars
  PROVE  ErrorsAreHonest'
<1>1. ASSUME NEW p \in Programs, UNCHANGED <<task, place, moves>>,
            OpenProject(p) \/ LockManifest(p) \/ MakeDirectory(p) \/ ListDirectory(p) \/ Look(p)
      PROVE  ErrorsAreHonest'
  BY <1>1
    DEF IInv, ErrorsAreHonest, AnswerInv, FileTypes, Goes, Concludes, Errs, Answer,
        OpenProject, LockManifest, MakeDirectory, ListDirectory, Look
<1>2. ASSUME NEW p \in Programs, UNCHANGED <<task, place, moves>>,
            WriteTemp(p) \/ EnsureAbsent(p) \/ Tidy(p) \/ Unlink(p) \/ SyncParent(p)
      PROVE  ErrorsAreHonest'
  BY <1>2
    DEF IInv, ErrorsAreHonest, AnswerInv, FileTypes, Goes, Concludes, Errs, Answer,
        WriteTemp, EnsureAbsent, Tidy, Unlink, SyncParent, Cleans, Knows
<1>3. ASSUME NEW p \in Programs, UNCHANGED <<task, place, moves>>,
            CallFails(p) \/ Die(p)
      PROVE  ErrorsAreHonest'
  BY <1>3
    DEF IInv, ErrorsAreHonest, AnswerInv, FileTypes, Goes, Concludes, Errs, Answer,
        CallFails, Die, Cleans
<1>4. ASSUME NEW p \in Programs, EnsureBinding(p), UNCHANGED <<task, place, moves>>
      PROVE  ErrorsAreHonest'
  <2>1. /\ UNCHANGED <<root, made, linked, bound>>
        /\ \/ at[p] \in {"opened", "locked", "next", "seen", "final"} /\ Errs(p)
           \/ at[p] = "final" /\ Bound(p) /\ Concludes(p, "ok")
           \/ /\ at[p] \in {"opened", "locked", "next", "seen"}
              /\ \E step \in {"walk", "lock", "temp", "reopen"} : Goes(p, step)
    BY <1>4, BindingComesTo DEF IInv
  <2>2. CASE at[p] \in {"opened", "locked", "next", "seen", "final"} /\ Errs(p)
    BY <1>4, <2>1, <2>2
      DEF IInv, Away, ErrorsAreHonest, AnswerInv, FileTypes, Goes, Concludes, Errs, Answer
  <2>3. CASE at[p] = "final" /\ Bound(p) /\ Concludes(p, "ok")
    BY <1>4, <2>1, <2>3
      DEF IInv, ErrorsAreHonest, AnswerInv, FileTypes, Goes, Concludes, Errs, Answer
  <2>4. CASE /\ at[p] \in {"opened", "locked", "next", "seen"}
             /\ \E step \in {"walk", "lock", "temp", "reopen"} : Goes(p, step)
    BY <1>4, <2>1, <2>4
      DEF IInv, ErrorsAreHonest, AnswerInv, FileTypes, Goes, Concludes, Errs, Answer
  <2> QED
    BY <2>1, <2>2, <2>3, <2>4
<1>5. ASSUME NEW p \in Programs, Walk(p), UNCHANGED <<task, place, moves>>
      PROVE  ErrorsAreHonest'
  <2>1. /\ at[p] \in {"walk", "descend"} /\ UNCHANGED <<root, made, linked, bound>>
        /\ Errs(p) \/ Concludes(p, "absent") \/ \E step \in {"walk", "look", "mkdir"} : Goes(p, step)
    BY <1>5, WalkComesTo
  <2> QED
    BY <1>5, <2>1
      DEF IInv, ErrorsAreHonest, AnswerInv, FileTypes, Goes, Concludes, Errs, Answer
<1>6. ASSUME NEW p \in Programs, Descend(p), UNCHANGED <<task, place, moves>>
      PROVE  ErrorsAreHonest'
  <2>1. /\ at[p] \in {"walk", "descend"} /\ UNCHANGED <<root, made, linked, bound>>
        /\ Errs(p) \/ Concludes(p, "absent") \/ \E step \in {"walk", "look", "mkdir"} : Goes(p, step)
    BY <1>6, WalkComesTo
  <2> QED
    BY <1>6, <2>1
      DEF IInv, ErrorsAreHonest, AnswerInv, FileTypes, Goes, Concludes, Errs, Answer
<1>7. ASSUME NEW p \in Programs, LinkFinal(p), UNCHANGED <<task, place, moves>>
      PROVE  ErrorsAreHonest'
  <2>1. CASE There(p) = Nothing
    <3>1. /\ said[p] = "none" /\ at' = [at EXCEPT ![p] = "tidy"] /\ linked' = linked \cup {p}
          /\ UNCHANGED <<root, made, said>> /\ Counts(p)
      BY <1>7, <2>1 DEF IInv, LinkFinal, Goes, AnswerInv
    <3> QED
      BY <1>7, <3>1
        DEF IInv, ErrorsAreHonest, AnswerInv, FileTypes, Goes, Concludes, Errs, Answer
  <2>2. CASE There(p) # Nothing
    <3>1. at[p] = "link" /\ Errs(p) /\ UNCHANGED <<root, made, linked, bound>>
      BY <1>7, <2>2 DEF LinkFinal, Cleans
    <3> QED
      BY <1>7, <3>1
        DEF IInv, ErrorsAreHonest, AnswerInv, FileTypes, Goes, Concludes, Errs, Answer
  <2> QED
    BY <2>1, <2>2
<1>8. CASE
  \/ MoveProject /\ UNCHANGED <<task, tree, flocks, at, root, dir, left, made, said, linked>>
  \/ ChangeEntry /\ UNCHANGED <<task, flocks, at, root, dir, left, made, said, linked>>
  \/ UNCHANGED fileVars
  BY <1>8
    DEF IInv, ErrorsAreHonest, AnswerInv, FileTypes, Goes, Concludes, Errs, Answer,
        fileVars, MoveProject, ChangeEntry
<1> QED
  BY <1>1, <1>2, <1>3, <1>4, <1>5, <1>6, <1>7, <1>8
    DEF FilesNext, FilesStep, MoveProject, ChangeEntry, fileVars

(* A path that names the directory after the effect has been noticed.      *)
LEMMA BoundStep ==
  ASSUME IInv, [FilesNext]_fileVars
  PROVE  BoundInv'
<1>1. ASSUME NEW p \in Programs, UNCHANGED <<task, place, moves>>,
            OpenProject(p) \/ LockManifest(p) \/ MakeDirectory(p) \/ ListDirectory(p) \/ Look(p)
      PROVE  BoundInv'
  BY <1>1
    DEF IInv, BoundInv, Bound, Counts, FileTypes, Goes, Concludes, Errs, Answer,
        OpenProject, LockManifest, MakeDirectory, ListDirectory, Look
<1>2. ASSUME NEW p \in Programs, UNCHANGED <<task, place, moves>>,
            WriteTemp(p) \/ EnsureAbsent(p) \/ Tidy(p) \/ Unlink(p) \/ SyncParent(p)
      PROVE  BoundInv'
  BY <1>2
    DEF IInv, BoundInv, Bound, Counts, FileTypes, Goes, Concludes, Errs, Answer,
        WriteTemp, EnsureAbsent, Tidy, Unlink, SyncParent, Cleans, Knows
<1>3. ASSUME NEW p \in Programs, UNCHANGED <<task, place, moves>>,
            CallFails(p) \/ Die(p)
      PROVE  BoundInv'
  BY <1>3
    DEF IInv, BoundInv, Bound, Counts, FileTypes, Goes, Concludes, Errs, Answer,
        CallFails, Die, Cleans
<1>4. ASSUME NEW p \in Programs, EnsureBinding(p), UNCHANGED <<task, place, moves>>
      PROVE  BoundInv'
  <2>1. /\ UNCHANGED <<root, made, linked, bound>>
        /\ \/ at[p] \in {"opened", "locked", "next", "seen", "final"} /\ Errs(p)
           \/ at[p] = "final" /\ Bound(p) /\ Concludes(p, "ok")
           \/ /\ at[p] \in {"opened", "locked", "next", "seen"}
              /\ \E step \in {"walk", "lock", "temp", "reopen"} : Goes(p, step)
    BY <1>4, BindingComesTo DEF IInv
  <2>2. CASE at[p] \in {"opened", "locked", "next", "seen", "final"} /\ Errs(p)
    BY <1>4, <2>1, <2>2
      DEF IInv, Away, BoundInv, Bound, Counts, FileTypes, Goes, Concludes, Errs, Answer
  <2>3. CASE at[p] = "final" /\ Bound(p) /\ Concludes(p, "ok")
    BY <1>4, <2>1, <2>3
      DEF IInv, BoundInv, Bound, Counts, FileTypes, Goes, Concludes, Errs, Answer
  <2>4. CASE /\ at[p] \in {"opened", "locked", "next", "seen"}
             /\ \E step \in {"walk", "lock", "temp", "reopen"} : Goes(p, step)
    BY <1>4, <2>1, <2>4
      DEF IInv, BoundInv, Bound, Counts, FileTypes, Goes, Concludes, Errs, Answer
  <2> QED
    BY <2>1, <2>2, <2>3, <2>4
<1>5. ASSUME NEW p \in Programs, Walk(p), UNCHANGED <<task, place, moves>>
      PROVE  BoundInv'
  <2>1. /\ at[p] \in {"walk", "descend"} /\ UNCHANGED <<root, made, linked, bound>>
        /\ Errs(p) \/ Concludes(p, "absent") \/ \E step \in {"walk", "look", "mkdir"} : Goes(p, step)
    BY <1>5, WalkComesTo
  <2> QED
    BY <1>5, <2>1
      DEF IInv, BoundInv, Bound, Counts, FileTypes, Goes, Concludes, Errs, Answer
<1>6. ASSUME NEW p \in Programs, Descend(p), UNCHANGED <<task, place, moves>>
      PROVE  BoundInv'
  <2>1. /\ at[p] \in {"walk", "descend"} /\ UNCHANGED <<root, made, linked, bound>>
        /\ Errs(p) \/ Concludes(p, "absent") \/ \E step \in {"walk", "look", "mkdir"} : Goes(p, step)
    BY <1>6, WalkComesTo
  <2> QED
    BY <1>6, <2>1
      DEF IInv, BoundInv, Bound, Counts, FileTypes, Goes, Concludes, Errs, Answer
<1>7. ASSUME NEW p \in Programs, LinkFinal(p), UNCHANGED <<task, place, moves>>
      PROVE  BoundInv'
  <2>1. CASE There(p) = Nothing
    <3>1. /\ said[p] = "none" /\ at' = [at EXCEPT ![p] = "tidy"] /\ linked' = linked \cup {p}
          /\ UNCHANGED <<root, made, said>> /\ Counts(p)
      BY <1>7, <2>1 DEF IInv, LinkFinal, Goes, AnswerInv
    <3> QED
      BY <1>7, <3>1
        DEF IInv, BoundInv, Bound, Counts, FileTypes, Goes, Concludes, Errs, Answer
  <2>2. CASE There(p) # Nothing
    <3>1. at[p] = "link" /\ Errs(p) /\ UNCHANGED <<root, made, linked, bound>>
      BY <1>7, <2>2 DEF LinkFinal, Cleans
    <3> QED
      BY <1>7, <3>1
        DEF IInv, BoundInv, Bound, Counts, FileTypes, Goes, Concludes, Errs, Answer
  <2> QED
    BY <2>1, <2>2
<1>8. ASSUME MoveProject, UNCHANGED <<task, tree, flocks, at, root, dir, left, made, said, linked>>
      PROVE  BoundInv'
  BY <1>8
    DEF IInv, BoundInv, Bound, Counts, FileTypes, Goes, Concludes, Errs, Answer,
        MoveProject
<1>9. CASE
  \/ ChangeEntry /\ UNCHANGED <<task, flocks, at, root, dir, left, made, said, linked>>
  \/ UNCHANGED fileVars
  BY <1>9
    DEF IInv, BoundInv, Bound, Counts, FileTypes, Goes, Concludes, Errs, Answer,
        fileVars, ChangeEntry
<1> QED
  BY <1>1, <1>2, <1>3, <1>4, <1>5, <1>6, <1>7, <1>8, <1>9
    DEF FilesNext, FilesStep, MoveProject, ChangeEntry, fileVars

(* A command that succeeds has worked on the project.                      *)
LEMMA SuccessStep ==
  ASSUME IInv, [FilesNext]_fileVars
  PROVE  SuccessIsTheProjects'
<1>1. ASSUME NEW p \in Programs, UNCHANGED <<task, place, moves>>,
            OpenProject(p) \/ LockManifest(p) \/ MakeDirectory(p) \/ ListDirectory(p) \/ Look(p)
      PROVE  SuccessIsTheProjects'
  BY <1>1
    DEF IInv, SuccessIsTheProjects, AnswerInv, BoundInv, Counts, FileTypes, Goes,
        Concludes, Errs, Answer, OpenProject, LockManifest, MakeDirectory, ListDirectory,
        Look
<1>2. ASSUME NEW p \in Programs, UNCHANGED <<task, place, moves>>,
            WriteTemp(p) \/ EnsureAbsent(p) \/ Tidy(p) \/ Unlink(p) \/ SyncParent(p)
      PROVE  SuccessIsTheProjects'
  BY <1>2
    DEF IInv, SuccessIsTheProjects, AnswerInv, BoundInv, Counts, FileTypes, Goes,
        Concludes, Errs, Answer, WriteTemp, EnsureAbsent, Tidy, Unlink, SyncParent,
        Cleans, Knows
<1>3. ASSUME NEW p \in Programs, UNCHANGED <<task, place, moves>>,
            CallFails(p) \/ Die(p)
      PROVE  SuccessIsTheProjects'
  BY <1>3
    DEF IInv, SuccessIsTheProjects, AnswerInv, BoundInv, Counts, FileTypes, Goes,
        Concludes, Errs, Answer, CallFails, Die, Cleans
<1>4. ASSUME NEW p \in Programs, EnsureBinding(p), UNCHANGED <<task, place, moves>>
      PROVE  SuccessIsTheProjects'
  <2>1. /\ UNCHANGED <<root, made, linked, bound>>
        /\ \/ at[p] \in {"opened", "locked", "next", "seen", "final"} /\ Errs(p)
           \/ at[p] = "final" /\ Bound(p) /\ Concludes(p, "ok")
           \/ /\ at[p] \in {"opened", "locked", "next", "seen"}
              /\ \E step \in {"walk", "lock", "temp", "reopen"} : Goes(p, step)
    BY <1>4, BindingComesTo DEF IInv
  <2>2. CASE at[p] \in {"opened", "locked", "next", "seen", "final"} /\ Errs(p)
    BY <1>4, <2>1, <2>2
      DEF IInv, Away, SuccessIsTheProjects, AnswerInv, BoundInv, Counts, FileTypes, Goes,
          Concludes, Errs, Answer
  <2>3. CASE at[p] = "final" /\ Bound(p) /\ Concludes(p, "ok")
    BY <1>4, <2>1, <2>3
      DEF IInv, SuccessIsTheProjects, AnswerInv, BoundInv, Counts, FileTypes, Goes,
          Concludes, Errs, Answer
  <2>4. CASE /\ at[p] \in {"opened", "locked", "next", "seen"}
             /\ \E step \in {"walk", "lock", "temp", "reopen"} : Goes(p, step)
    BY <1>4, <2>1, <2>4
      DEF IInv, SuccessIsTheProjects, AnswerInv, BoundInv, Counts, FileTypes, Goes,
          Concludes, Errs, Answer
  <2> QED
    BY <2>1, <2>2, <2>3, <2>4
<1>5. ASSUME NEW p \in Programs, Walk(p), UNCHANGED <<task, place, moves>>
      PROVE  SuccessIsTheProjects'
  <2>1. /\ at[p] \in {"walk", "descend"} /\ UNCHANGED <<root, made, linked, bound>>
        /\ Errs(p) \/ Concludes(p, "absent") \/ \E step \in {"walk", "look", "mkdir"} : Goes(p, step)
    BY <1>5, WalkComesTo
  <2> QED
    BY <1>5, <2>1
      DEF IInv, SuccessIsTheProjects, AnswerInv, BoundInv, Counts, FileTypes, Goes,
          Concludes, Errs, Answer
<1>6. ASSUME NEW p \in Programs, Descend(p), UNCHANGED <<task, place, moves>>
      PROVE  SuccessIsTheProjects'
  <2>1. /\ at[p] \in {"walk", "descend"} /\ UNCHANGED <<root, made, linked, bound>>
        /\ Errs(p) \/ Concludes(p, "absent") \/ \E step \in {"walk", "look", "mkdir"} : Goes(p, step)
    BY <1>6, WalkComesTo
  <2> QED
    BY <1>6, <2>1
      DEF IInv, SuccessIsTheProjects, AnswerInv, BoundInv, Counts, FileTypes, Goes,
          Concludes, Errs, Answer
<1>7. ASSUME NEW p \in Programs, LinkFinal(p), UNCHANGED <<task, place, moves>>
      PROVE  SuccessIsTheProjects'
  <2>1. CASE There(p) = Nothing
    <3>1. /\ said[p] = "none" /\ at' = [at EXCEPT ![p] = "tidy"] /\ linked' = linked \cup {p}
          /\ UNCHANGED <<root, made, said>> /\ Counts(p)
      BY <1>7, <2>1 DEF IInv, LinkFinal, Goes, AnswerInv
    <3> QED
      BY <1>7, <3>1
        DEF IInv, SuccessIsTheProjects, AnswerInv, BoundInv, Counts, FileTypes, Goes,
            Concludes, Errs, Answer
  <2>2. CASE There(p) # Nothing
    <3>1. at[p] = "link" /\ Errs(p) /\ UNCHANGED <<root, made, linked, bound>>
      BY <1>7, <2>2 DEF LinkFinal, Cleans
    <3> QED
      BY <1>7, <3>1
        DEF IInv, SuccessIsTheProjects, AnswerInv, BoundInv, Counts, FileTypes, Goes,
            Concludes, Errs, Answer
  <2> QED
    BY <2>1, <2>2
<1>8. ASSUME MoveProject, UNCHANGED <<task, tree, flocks, at, root, dir, left, made, said, linked>>
      PROVE  SuccessIsTheProjects'
  BY <1>8
    DEF IInv, SuccessIsTheProjects, AnswerInv, BoundInv, Counts, FileTypes, Goes,
        Concludes, Errs, Answer, MoveProject
<1>9. CASE
  \/ ChangeEntry /\ UNCHANGED <<task, flocks, at, root, dir, left, made, said, linked>>
  \/ UNCHANGED fileVars
  BY <1>9
    DEF IInv, SuccessIsTheProjects, AnswerInv, BoundInv, Counts, FileTypes, Goes,
        Concludes, Errs, Answer, fileVars, ChangeEntry
<1> QED
  BY <1>1, <1>2, <1>3, <1>4, <1>5, <1>6, <1>7, <1>8, <1>9
    DEF FilesNext, FilesStep, MoveProject, ChangeEntry, fileVars

(* Nothing happens in the directory that is only linked to.                   *)
LEMMA ForeignStep ==
  ASSUME IInv, [FilesNext]_fileVars
  PROVE  ForeignInv'
<1>1. ASSUME NEW p \in Programs, MakeDirectory(p), UNCHANGED <<task, place, moves>>
      PROVE  ForeignInv'
  <2>1. dir[p] \in Dirs \ {Foreign} /\ Foreign \in Dirs
    BY <1>1 DEF IInv, PlacesInv, Away, Dirs, MakeDirectory
  <2> QED
    BY <1>1, <2>1 DEF IInv, ForeignInv, FileTypes, Holds, Cleans, MakeDirectory
<1>2. ASSUME NEW p \in Programs, WriteTemp(p), UNCHANGED <<task, place, moves>>
      PROVE  ForeignInv'
  <2>1. dir[p] \in Dirs \ {Foreign} /\ Foreign \in Dirs
    BY <1>2 DEF IInv, PlacesInv, Away, Dirs, WriteTemp
  <2> QED
    BY <1>2, <2>1 DEF IInv, ForeignInv, FileTypes, Holds, Cleans, WriteTemp
<1>3. ASSUME NEW p \in Programs, EnsureAbsent(p), UNCHANGED <<task, place, moves>>
      PROVE  ForeignInv'
  <2>1. dir[p] \in Dirs \ {Foreign} /\ Foreign \in Dirs
    BY <1>3 DEF IInv, PlacesInv, Away, Dirs, EnsureAbsent
  <2> QED
    BY <1>3, <2>1 DEF IInv, ForeignInv, FileTypes, Holds, Cleans, EnsureAbsent
<1>4. ASSUME NEW p \in Programs, LinkFinal(p), UNCHANGED <<task, place, moves>>
      PROVE  ForeignInv'
  <2>1. dir[p] \in Dirs \ {Foreign} /\ Foreign \in Dirs
    BY <1>4 DEF IInv, PlacesInv, Away, Dirs, LinkFinal
  <2> QED
    BY <1>4, <2>1 DEF IInv, ForeignInv, FileTypes, Holds, Cleans, LinkFinal
<1>5. ASSUME NEW p \in Programs, Tidy(p), UNCHANGED <<task, place, moves>>
      PROVE  ForeignInv'
  <2>1. dir[p] \in Dirs \ {Foreign} /\ Foreign \in Dirs
    BY <1>5 DEF IInv, PlacesInv, Away, Dirs, Tidy
  <2> QED
    BY <1>5, <2>1 DEF IInv, ForeignInv, FileTypes, Holds, Cleans, Tidy
<1>6. ASSUME NEW p \in Programs, Unlink(p), UNCHANGED <<task, place, moves>>
      PROVE  ForeignInv'
  <2>1. dir[p] \in Dirs \ {Foreign} /\ Foreign \in Dirs
    BY <1>6 DEF IInv, PlacesInv, Away, Dirs, Unlink
  <2> QED
    BY <1>6, <2>1 DEF IInv, ForeignInv, FileTypes, Holds, Cleans, Unlink
<1>7. ASSUME NEW p \in Programs, CallFails(p), UNCHANGED <<task, place, moves>>
      PROVE  ForeignInv'
  <2>1. dir[p] \in Dirs \ {Foreign} /\ Foreign \in Dirs
    BY <1>7 DEF IInv, PlacesInv, Away, Dirs, CallFails
  <2> QED
    BY <1>7, <2>1 DEF IInv, ForeignInv, FileTypes, Holds, Cleans, CallFails
<1>8. ASSUME ChangeEntry, UNCHANGED <<task, flocks, at, root, dir, left, made, said, linked>>
      PROVE  ForeignInv'
  <2>1. \A d \in Reachable : d \in Dirs \ {Foreign}
    BY FilesAssumption DEF Reachable, Dirs
  <2> QED
    BY <1>8, <2>1 DEF IInv, ForeignInv, FileTypes, Holds, ChangeEntry
<1>9. CASE
  \/ /\ \E p \in Programs : OpenProject(p) \/ EnsureBinding(p) \/ LockManifest(p) \/ Walk(p) \/ Descend(p) \/ ListDirectory(p) \/ Look(p) \/ SyncParent(p) \/ Die(p)
     /\ UNCHANGED <<task, place, moves>>
  \/ MoveProject /\ UNCHANGED <<task, tree, flocks, at, root, dir, left, made, said, linked>>
  \/ UNCHANGED fileVars
  BY <1>9
    DEF IInv, ForeignInv, fileVars, OpenProject, EnsureBinding, LockManifest, Walk,
        Descend, ListDirectory, Look, SyncParent, Die, MoveProject
<1> QED
  BY <1>1, <1>2, <1>3, <1>4, <1>5, <1>6, <1>7, <1>8, <1>9
    DEF FilesNext, FilesStep, MoveProject, ChangeEntry, fileVars

----
(***************************************************************************)
(* The theorem.                                                            *)
(***************************************************************************)

\* The start is good.
LEMMA InitIsGood ==
  ASSUME FilesInit
  PROVE  IInv
<1> USE DEF FilesInit
<1>1. \A p \in Programs :
        /\ task[p].targets \in Seq(Seq(Names)) /\ task[p].targets # <<>>
        /\ \A k \in DOMAIN task[p].targets : task[p].targets[k] # <<>>
        /\ ~Publishes(p) => Len(task[p].targets) = 1
  <2> TAKE p \in Programs
  <2>1. task[p].targets \in Seq(Seq(Names) \ {<<>>}) /\ task[p].targets # <<>>
    BY FilesAssumption
  <2>2. task[p].targets \in Seq(Seq(Names))
    BY <2>1, SeqMonotonic
  <2>3. DOMAIN task[p].targets = 1 .. Len(task[p].targets)
    BY <2>1, LenProperties
  <2>4. \A k \in DOMAIN task[p].targets : task[p].targets[k] # <<>>
    BY <2>1, <2>3, ElementOfSeq
  <2> QED
    BY <2>1, <2>2, <2>4, FilesAssumption DEF Publishes
<1>2. tree \in [Dirs -> [Names \cup Programs -> UserEntry]]
  BY FilesAssumption
<1>3. FileTypes
  BY <1>1, <1>2 DEF FileTypes, Away
<1>4. RoleInv /\ TargetsInv /\ PlacesInv /\ AnswerInv /\ ErrorsAreHonest /\ BoundInv /\ SuccessIsTheProjects
  BY <1>1, FilesAssumption
    DEF RoleInv, TargetsInv, PlacesInv, AnswerInv, ErrorsAreHonest, BoundInv,
     SuccessIsTheProjects, Away, Inside, Dirs
<1>5. RegionsInv
  <2>1. PICK region \in [Dirs -> {Home, Other}] :
          region = [d \in Dirs |-> IF d \in {Home} \cup Theirs THEN Home ELSE Other]
    OBVIOUS
  <2>2. ASSUME NEW e \in Dirs, NEW name \in Names \cup Programs, IsA("dir", tree[e][name])
        PROVE  region[tree[e][name].of] = region[e]
    <3>1. e = Home /\ tree[e][name] \in UserEntry
      BY <1>2, <2>2, FilesAssumption
    <3>2. tree[e][name].of \in Theirs
      BY <2>2, <3>1 DEF UserEntry, IsA
    <3> QED
      BY <2>1, <3>1, <3>2 DEF Dirs
  <2>3. Regions(region)
    BY <2>1, <2>2, FilesAssumption DEF Regions, Away, Dirs
  <2> QED
    BY <2>3 DEF RegionsInv
<1>6. ForeignInv
  BY DEF ForeignInv
<1> QED
  BY <1>3, <1>4, <1>5, <1>6 DEF IInv

\* Every step keeps it so.
LEMMA StepIsGood ==
  ASSUME IInv, [FilesNext]_fileVars
  PROVE  IInv'
BY TypeStep, RoleStep, TargetsStep, PlacesStep, RegionsStep, AnswerStep, ErrorsStep,
  BoundStep, SuccessStep,
   ForeignStep DEF IInv

\* What is good is safe.
LEMMA GoodIsSafe ==
  ASSUME IInv
  PROVE  CallsAreSafe
<1>1. StaysInside
  BY DEF IInv, PlacesInv, ForeignInv, StaysInside
<1>2. WritersNotSplit
  <2> SUFFICES ASSUME NEW p \in Programs, NEW q \in Programs, p # q, Inside(p), Inside(q), dir[p] = dir[q]
               PROVE  FALSE
    BY DEF WritersNotSplit
  <2>1. at[p] \notin Away /\ at[q] \notin Away
    BY DEF Inside, Away
  <2>2. root[p] = root[q]
    BY <2>1 DEF IInv, RegionsInv, Regions
  <2> QED
    BY <2>2 DEF IInv, PlacesInv
<1> QED
  BY <1>1, <1>2 DEF IInv, CallsAreSafe

(* Whatever takes the place of the project or of a directory in it, and    *)
(* however many commands run: none walks out of the project or through a   *)
(* link, no two writers share a directory, a plain error has published     *)
(* nothing, and success is of the project the path named (bridge.rs:       *)
(* open_project_root_no_follow, ensure_root_binding, lock_manifest,        *)
(* publish_creation, unlinkat).                                            *)
THEOREM CallsKeepSafe == ScaleSpec => []CallsAreSafe
<1>1. ScaleInit => IInv
  BY InitIsGood DEF ScaleInit
<1>2. IInv /\ [ScaleNext]_scaleVars => IInv'
  BY StepIsGood DEF ScaleNext, scaleVars
<1>3. IInv => CallsAreSafe
  BY GoodIsSafe
<1> QED
  BY <1>1, <1>2, <1>3, PTL DEF ScaleSpec

----
(* Whoever publishes, only what is absent at the very moment is linked:    *)
(* nothing that a user or another command has put there since the last     *)
(* look is replaced or removed (publish_creation, persist_manifest).       *)
THEOREM NothingIsReplaced == ScaleSpec => NothingReplaced
<1> DEFINE Keeps == edits' = edits =>
                      /\ \A path \in Paths : content[path] # Absent => content'[path] = content[path]
                      /\ manifest # NoManifest => manifest' = manifest
           Counted == edits \in Nat
<1> USE DEF disk, local, past, Stop, Ends, Goto
<1>1. ASSUME NEW p \in Procs, Load(p) \/ Prepare(p) \/ Check(p) \/ Crash(p) \/ RunAgain(p)
      PROVE  Keeps
  <2>1. UNCHANGED <<content, manifest>>
    BY <1>1 DEF Load, Prepare, Check, Crash, RunAgain
  <2> QED
    BY <2>1
<1>2. ASSUME NEW p \in Procs, Link(p)
      PROVE  Keeps
  <2>1. UNCHANGED manifest
    BY <1>2 DEF Link
  <2>2. CASE UNCHANGED content
    BY <2>1, <2>2
  <2>3. CASE /\ content[Head(todo[p]).path] = Absent
             /\ content' = [content EXCEPT ![Head(todo[p]).path] = Head(todo[p]).after]
    BY <2>1, <2>3
  <2> QED
    BY <1>2, <2>2, <2>3 DEF Link, Published
<1>3. ASSUME NEW p \in Procs, CheckManifest(p) \/ LinkManifest(p)
      PROVE  Keeps
  <2>1. UNCHANGED content /\ (manifest # NoManifest => manifest' = manifest)
    BY <1>3 DEF CheckManifest, LinkManifest
  <2> QED
    BY <2>1
<1>4. ASSUME EditFile \/ EditManifest, edits \in Nat
      PROVE  Keeps
  BY <1>4 DEF EditFile, EditManifest, Edited
<1>5. ScaleInit => Counted
  BY DEF ScaleInit, Init
<1>6. Counted /\ [ScaleNext]_scaleVars => Counted'
  <2> SUFFICES ASSUME edits \in Nat, [ScaleNext]_scaleVars
               PROVE  edits' \in Nat
    OBVIOUS
  <2>1. CASE \E p \in Procs : Step(p) \/ Crash(p) \/ RunAgain(p)
    <3>1. UNCHANGED edits
      BY <2>1
        DEF Step, Load, Prepare, Check, Link, CheckManifest, LinkManifest, Crash, RunAgain
    <3> QED
      BY <3>1
  <2>2. CASE EditFile \/ EditManifest
    BY <2>2 DEF EditFile, EditManifest, Edited
  <2>3. CASE UNCHANGED vars
    BY <2>3 DEF vars
  <2> QED
    BY <2>1, <2>2, <2>3 DEF ScaleNext, scaleVars, Next
<1>7. Counted /\ [ScaleNext]_scaleVars => [Keeps]_vars
  <2> SUFFICES ASSUME edits \in Nat, ScaleNext, Next
               PROVE  Keeps
    BY DEF ScaleNext, scaleVars, vars
  <2> HIDE DEF Keeps
  <2> QED
    BY <1>1, <1>2, <1>3, <1>4 DEF Next, Step
<1>8. ScaleSpec => [][Keeps]_vars
  <2> HIDE DEF Keeps, Counted
  <2> QED
    BY <1>5, <1>6, <1>7, PTL DEF ScaleSpec
<1> QED
  BY <1>8, Zenon DEF NothingReplaced

\* Induction, for a set.
LEMMA StepByStep ==
  ASSUME NEW S, 0 \in S, \A n \in Nat : n \in S => n + 1 \in S
  PROVE  Nat \subseteq S
<1> DEFINE R == OpToRel(<, Nat)
           D == Nat \ S
<1>1. IsWellFoundedOn(R, Nat)
  BY Zenon, NatLessThanWellFounded
<1> SUFFICES ASSUME D # {} PROVE FALSE
  OBVIOUS
<1> HIDE DEF R
<1>2. PICK d \in D : \A e \in D : ~(<<e, d>> \in R)
  <2>1. D \subseteq Nat
    OBVIOUS
  <2> HIDE DEF D
  <2> QED
    BY <1>1, <2>1, WFMin
<1>3. \A e \in D : ~(e < d)
  BY <1>2, Zenon DEF R, OpToRel
<1>4. d \in Nat /\ d # 0 /\ d - 1 \in Nat
  OBVIOUS
<1>5. d - 1 \in S
  BY <1>3, <1>4
<1> QED
  BY <1>4, <1>5

(* The entries of a list that are in a set, one after another. *)
LEMMA AmongSteps ==
  ASSUME NEW T, NEW s \in Seq(T), NEW S
  PROVE  \E upto : /\ upto = [k \in 0 .. Len(s) |->
                        IF k = 0 THEN <<>> ELSE upto[k - 1] \o (IF s[k] \in S THEN <<s[k]>> ELSE <<>>)]
                   /\ Among(s, S) = upto[Len(s)]
<1> DEFINE Prolong(f, k) == IF k = 0 THEN <<>> ELSE f[k - 1] \o (IF s[k] \in S THEN <<s[k]>> ELSE <<>>)
           Good == {n \in Nat : \E f : f = [k \in 0 .. n |-> Prolong(f, k)]}
           upto[k \in 0 .. Len(s)] ==
             IF k = 0 THEN <<>> ELSE upto[k - 1] \o (IF s[k] \in S THEN <<s[k]>> ELSE <<>>)
<1>1. 0 \in Good
  <2> DEFINE f == [k \in 0 .. 0 |-> <<>>]
  <2>1. f = [k \in 0 .. 0 |-> Prolong(f, k)]
    OBVIOUS
  <2> QED
    BY <2>1
<1>2. ASSUME NEW n \in Nat, n \in Good PROVE n + 1 \in Good
  <2>1. PICK f : f = [k \in 0 .. n |-> Prolong(f, k)]
    BY <1>2
  <2> DEFINE g == [k \in 0 .. n + 1 |-> IF k = n + 1 THEN Prolong(f, n + 1) ELSE f[k]]
  <2>2. ASSUME NEW k \in 0 .. n + 1 PROVE g[k] = Prolong(g, k)
    <3>1. CASE k = 0
      <4>1. f[0] = Prolong(f, 0)
        BY <2>1
      <4> QED
        BY <3>1, <4>1
    <3>2. CASE k # 0
      <4>1. k - 1 \in 0 .. n /\ k - 1 # n + 1
        BY <3>2
      <4>2. g[k - 1] = f[k - 1]
        BY <4>1
      <4>3. g[k] = Prolong(f, k)
        <5>1. CASE k = n + 1
          BY <5>1
        <5>2. CASE k # n + 1
          <6>1. k \in 0 .. n
            BY <5>2
          <6>2. f[k] = Prolong(f, k)
            <7> HIDE DEF Prolong
            <7> QED
              BY <2>1, <6>1
          <6> QED
            BY <5>2, <6>2
        <5> QED
          BY <5>1, <5>2
      <4> HIDE DEF g
      <4> QED
        BY <3>2, <4>2, <4>3
    <3> QED
      BY <3>1, <3>2
  <2>3. g = [k \in 0 .. n + 1 |-> Prolong(g, k)]
    <3>1. g = [k \in 0 .. n + 1 |-> g[k]]
      OBVIOUS
    <3> HIDE DEF g, Prolong
    <3> QED
      BY <2>2, <3>1
  <2> HIDE DEF g, Prolong
  <2> QED
    BY <2>3
<1>3. Nat \subseteq Good
  <2> HIDE DEF Good
  <2> QED
    BY <1>1, <1>2, StepByStep
<1>4. \E f : f = [k \in 0 .. Len(s) |-> Prolong(f, k)]
  <2>1. Len(s) \in Nat
    OBVIOUS
  <2> QED
    BY <1>3, <2>1
<1>5. upto = [k \in 0 .. Len(s) |-> Prolong(upto, k)]
  BY <1>4, Zenon
<1>6. Among(s, S) = upto[Len(s)]
  BY DEF Among
<1> HIDE DEF upto
<1> QED
  BY <1>5, <1>6

\* What two sequences, one after the other, hold.
LEMMA ToSetOfBoth ==
  ASSUME NEW T, NEW s \in Seq(T), NEW t \in Seq(T)
  PROVE  ToSet(s \o t) = ToSet(s) \cup ToSet(t)
<1>1. Range(s \o t) = Range(s) \cup Range(t)
  BY RangeConcatenation
<1>2. s \o t \in Seq(T)
  OBVIOUS
<1> QED
  BY <1>1 DEF Range, ToSet

\* Among keeps the entries that are in the set.
LEMMA AmongIs ==
  ASSUME NEW T, NEW s \in Seq(T), NEW S
  PROVE  /\ Among(s, S) \in Seq(T)
         /\ ToSet(Among(s, S)) = ToSet(s) \cap S
<1> DEFINE Part(k) == IF s[k] \in S THEN <<s[k]>> ELSE <<>>
<1>1. PICK upto : /\ upto = [k \in 0 .. Len(s) |-> IF k = 0 THEN <<>> ELSE upto[k - 1] \o Part(k)]
                   /\ Among(s, S) = upto[Len(s)]
  BY AmongSteps, Zenon
<1> HIDE DEF Part
<1> DEFINE Good == {n \in Nat : n <= Len(s) =>
                      upto[n] \in Seq(T) /\ ToSet(upto[n]) = {s[k] : k \in 1 .. n} \cap S}
<1>2. 0 \in Good
  <2>1. upto[0] = <<>>
    BY <1>1
  <2>2. ToSet(<<>>) = {} /\ {s[k] : k \in 1 .. 0} = {}
    BY DEF ToSet
  <2>3. <<>> \in Seq(T)
    OBVIOUS
  <2>4. 0 <= Len(s) => upto[0] \in Seq(T) /\ ToSet(upto[0]) = {s[k] : k \in 1 .. 0} \cap S
    BY <2>1, <2>2, <2>3, Zenon
  <2> QED
    BY <2>4
<1>3. ASSUME NEW n \in Nat, n \in Good PROVE n + 1 \in Good
  <2> SUFFICES ASSUME n + 1 <= Len(s)
               PROVE  upto[n + 1] \in Seq(T) /\ ToSet(upto[n + 1]) = {s[k] : k \in 1 .. n + 1} \cap S
    OBVIOUS
  <2>1. n + 1 \in 0 .. Len(s) /\ n + 1 # 0 /\ (n + 1) - 1 = n /\ n <= Len(s) /\ n + 1 \in DOMAIN s
    OBVIOUS
  <2>2. upto[n] \in Seq(T) /\ ToSet(upto[n]) = {s[k] : k \in 1 .. n} \cap S
    BY <1>3, <2>1
  <2> DEFINE tail == Part(n + 1)
  <2>3. upto[n + 1] = upto[n] \o tail
    BY <1>1, <2>1
  <2>4. s[n + 1] \in T
    BY <2>1
  <2>5. tail \in Seq(T) /\ ToSet(tail) = {s[n + 1]} \cap S
    BY <2>4 DEF ToSet, Part
  <2>6. upto[n + 1] \in Seq(T) /\ ToSet(upto[n] \o tail) = ToSet(upto[n]) \cup ToSet(tail)
    <3> DEFINE u == upto[n]
    <3> HIDE DEF tail, u
    <3>0. u \in Seq(T)
      BY <2>2 DEF u
    <3>1. u \o tail \in Seq(T)
      BY <2>5, <3>0
    <3>2. ToSet(u \o tail) = ToSet(u) \cup ToSet(tail)
      BY <2>5, <3>0, ToSetOfBoth
    <3> QED
      BY <2>3, <3>1, <3>2 DEF u
  <2>7. {s[k] : k \in 1 .. n + 1} = {s[k] : k \in 1 .. n} \cup {s[n + 1]}
    <3>1. 1 .. n + 1 = 1 .. n \cup {n + 1}
      OBVIOUS
    <3> QED
      BY <3>1
  <2> HIDE DEF tail
  <2> QED
    BY <2>2, <2>3, <2>5, <2>6, <2>7
<1>4. Nat \subseteq Good
  <2> HIDE DEF Good
  <2> QED
    BY <1>2, <1>3, StepByStep
<1>5. Len(s) \in Nat /\ ToSet(s) = {s[k] : k \in 1 .. Len(s)}
  BY DEF ToSet
<1>6. Len(s) \in Good
  BY <1>4, <1>5
<1> QED
  BY <1>1, <1>5, <1>6

\* A set of numbers has a least one.
LEMMA LeastExists ==
  ASSUME NEW T, T \subseteq Nat, T # {}
  PROVE  \E x \in T : \A y \in T : x <= y
<1> DEFINE R == OpToRel(<, Nat)
<1>1. \E x \in T : \A y \in T : ~(<<y, x>> \in R)
  <2>1. IsWellFoundedOn(R, Nat)
    BY Zenon, NatLessThanWellFounded
  <2> HIDE DEF R
  <2> QED
    BY <2>1, WFMin
<1>2. \E x \in T : \A y \in T : ~(y < x)
  BY Zenon, <1>1 DEF OpToRel
<1> QED
  BY <1>2

----
(* What preparing a write comes to. *)

\* What is read of a project: every path of the harness is there, with typed content.
Found(found, h) ==
  \A w \in ToSet(Writes[h]) : w.path \in DOMAIN found /\ found[w.path] \in Content \cup {Absent}

Kinds == {"file", "markdown", "settings"}

\* A ready write: its content is Tree Ring's, and is how the harness owns it.
IsReady(o, c, want) ==
  /\ o = Ready(o.after, o.own)
  /\ o.after \in Content
  /\ o.after.block = want
  /\ o.own \in {"file", "block"}

\* What Tree Ring renders is a block, and names the store where the path is a binding.
LEMMA RenderedIs ==
  ASSUME NEW path, NEW version \in Nat, NEW id \in Nat
  PROVE  /\ Rendered(path, version, id) \in Blocks
         /\ path \in Bindings => Rendered(path, version, id).store = id
         /\ Rendered(path, version, id) \notin {None, Altered, Broken}
<1>1. Rendered(path, version, id) \in Blocks
  BY DEF Rendered, Block, Blocks
<1>2. path \in Bindings => Rendered(path, version, id).store = id
  BY DEF Rendered, Block
<1> QED
  BY <1>1, <1>2, NullsAssumption

\* A file of ours is the block and nothing else.
LEMMA MineIs ==
  ASSUME NEW want \in Blocks
  PROVE  Mine(want) \in Content /\ Mine(want).block = want /\ Mine(want).rest = "none"
  BY DEF Mine, Content

\* A block among the text of a user.
LEMMA AfterBlock ==
  ASSUME NEW want \in Blocks, NEW rest \in {"none", "tidy", "untidy"}
  PROVE  /\ [block |-> want, rest |-> rest] \in Content
         /\ [block |-> want, rest |-> rest].block = want
         /\ [block |-> want, rest |-> rest].rest = rest
  BY DEF Content

\* Tidying once is enough.
LEMMA TidiedIs ==
  ASSUME NEW rest \in {"none", "tidy", "untidy"}
  PROVE  Tidied(rest) \in {"none", "tidy", "untidy"} /\ Tidied(Tidied(rest)) = Tidied(rest)
  BY DEF Tidied

\* What a ready outcome says.
LEMMA ReadyIs ==
  ASSUME NEW want \in Blocks, NEW after \in Content, after.block = want, NEW own \in {"file", "block"}, NEW c
  PROVE  /\ IsReady(Ready(after, own), c, want)
         /\ Ready(after, own).after = after /\ Ready(after, own).own = own /\ Ready(after, own).verdict = "ready"
  BY DEF IsReady, Ready

\* A block that is put among the text of a user is a ready outcome.
LEMMA BlockReady ==
  ASSUME NEW want \in Blocks, NEW rest \in {"none", "tidy", "untidy"}, NEW c
  PROVE  /\ IsReady(WithBlock(want, rest), c, want)
         /\ WithBlock(want, rest).own = "block" /\ WithBlock(want, rest).after = [block |-> want, rest |-> rest]
<1> DEFINE after == [block |-> want, rest |-> rest]
           own == "block"
<1>1. after \in Content /\ after.block = want /\ own \in {"file", "block"}
  BY AfterBlock
<1>2. WithBlock(want, rest) = Ready(after, own)
  BY DEF WithBlock
<1> HIDE DEF after, own
<1>3. IsReady(Ready(after, own), c, want) /\ Ready(after, own).own = own /\ Ready(after, own).after = after
  BY <1>1, ReadyIs
<1> QED
  BY <1>2, <1>3 DEF own, after

\* Where a ready write comes from: what it claims as a file is created, changed, or
\* recorded already, by the harness or by another one; what is created is not recorded.
Sound(o, c, path, record, others) ==
  /\ o.own = "file" =>
       \/ c = Absent
       \/ o.after # c
       \/ path \in DOMAIN record.files /\ record.files[path] = o.after
       \/ o.after \in others
  /\ c = Absent =>
       \/ o.own = "file" /\ path \notin DOMAIN record.files
       \/ o.own = "block" /\ path \notin DOMAIN record.blocks

\* An outcome: ready and sound, or not ready at all.
Comes(o, c, path, record, others, want) ==
  \/ o = Review
  \/ o = Refused
  \/ IsReady(o, c, want) /\ Sound(o, c, path, record, others)

\* What preparing a file as a whole comes to (prepare_complete_file).
LEMMA CompleteFileIs ==
  ASSUME NEW c \in Content \cup {Absent}, NEW path, NEW record, IsRecord(record), NEW others, NEW want \in Blocks
  PROVE  Comes(CompleteFile(c, path, record, others, want), c, path, record, others, want)
<1> DEFINE own == IF path \in DOMAIN record.files THEN record.files[path] ELSE None
           o == CompleteFile(c, path, record, others, want)
<1>1. CASE ~Permitted(c, own, others, Mine(want))
  BY <1>1 DEF CompleteFile, Comes
<1>2. CASE Permitted(c, own, others, Mine(want))
  <2>1. o = Ready(Mine(want), "file")
    BY <1>2 DEF CompleteFile
  <2>2. IsReady(o, c, want) /\ o.after = Mine(want) /\ o.own = "file"
    BY <2>1, MineIs, ReadyIs
  <2>3. path \in DOMAIN record.files => record.files[path] # None
    BY NullsAssumption DEF IsRecord, IsDigests
  <2>4. Sound(o, c, path, record, others)
    <3>1. CASE c = Absent /\ own = None
      BY <2>2, <2>3, <3>1 DEF Sound
    <3>2. CASE c # Absent /\ own # None /\ c = own
      BY <2>2, <3>2 DEF Sound
    <3>3. CASE c # Absent /\ own = None /\ others # {} /\ \A q \in others : c = q /\ Mine(want) = q
      BY <2>2, <3>3 DEF Sound
    <3> QED
      BY <1>2, <3>1, <3>2, <3>3 DEF Permitted
  <2> QED
    BY <2>2, <2>4 DEF Comes
<1> QED
  BY <1>1, <1>2

\* What preparing a managed block comes to.
LEMMA MarkdownFileIs ==
  ASSUME NEW c \in Content \cup {Absent}, NEW path, NEW record, IsRecord(record), NEW others, NEW want \in Blocks,
         NEW accept
  PROVE  Comes(MarkdownFile(c, path, record, want, accept), c, path, record, others, want)
<1> DEFINE owned == path \in DOMAIN record.files
           recorded == path \in DOMAIN record.blocks
           o == MarkdownFile(c, path, record, want, accept)
<1>0. c # Absent => c \in Content /\ c.rest \in {"none", "tidy", "untidy"}
  BY DEF Content
<1>1. CASE c = Absent
  <2>1. CASE owned \/ recorded
    BY <1>1, <2>1 DEF MarkdownFile, Comes
  <2>2. CASE ~owned /\ ~recorded
    <3>1. o = WithBlock(want, "none")
      BY <1>1, <2>2 DEF MarkdownFile
    <3>2. IsReady(o, c, want) /\ o.own = "block"
      BY <3>1, BlockReady
    <3> QED
      BY <1>1, <2>2, <3>2 DEF Comes, Sound
  <2> QED
    BY <2>1, <2>2
<1>2. CASE c # Absent /\ owned
  <2>1. CASE c # record.files[path]
    BY <1>2, <2>1 DEF MarkdownFile, Comes
  <2>2. CASE c = record.files[path]
    <3>1. o = Ready(Mine(want), "file")
      BY <1>2, <2>2 DEF MarkdownFile
    <3>2. IsReady(o, c, want) /\ o.after = Mine(want) /\ o.own = "file"
      BY <3>1, MineIs, ReadyIs
    <3> QED
      BY <1>2, <2>2, <3>2 DEF Comes, Sound
  <2> QED
    BY <2>1, <2>2
<1>3. CASE c # Absent /\ ~owned
  <2>1. o \in {Refused, Review, WithBlock(want, c.rest)}
    BY <1>3 DEF MarkdownFile
  <2>2. CASE o = WithBlock(want, c.rest)
    <3>2. IsReady(o, c, want) /\ o.own = "block"
      BY <1>0, <1>3, <2>2, BlockReady
    <3> QED
      BY <1>3, <3>2 DEF Comes, Sound
  <2> QED
    BY <2>1, <2>2 DEF Comes
<1> QED
  BY <1>1, <1>2, <1>3

\* What preparing the handlers of a settings file comes to.
LEMMA SettingsFileIs ==
  ASSUME NEW c \in Content \cup {Absent}, NEW path, NEW record, IsRecord(record), NEW others, NEW want \in Blocks
  PROVE  Comes(SettingsFile(c, path, record, want), c, path, record, others, want)
<1> DEFINE owned == path \in DOMAIN record.files
           recorded == path \in DOMAIN record.blocks
           o == SettingsFile(c, path, record, want)
           after == [block |-> want, rest |-> Tidied(c.rest)]
<1>0. c # Absent => c \in Content /\ c.rest \in {"none", "tidy", "untidy"}
  BY DEF Content
<1>1. CASE c = Absent
  <2>1. CASE owned \/ recorded
    BY <1>1, <2>1 DEF SettingsFile, Comes
  <2>2. CASE ~owned /\ ~recorded
    <3>1. o = Ready(Mine(want), "file")
      BY <1>1, <2>2 DEF SettingsFile
    <3>2. IsReady(o, c, want) /\ o.own = "file"
      BY <3>1, MineIs, ReadyIs
    <3> QED
      BY <1>1, <2>2, <3>2 DEF Comes, Sound
  <2> QED
    BY <2>1, <2>2
<1>2. CASE c # Absent
  <2>1. after \in Content /\ after.block = want
    BY <1>0, <1>2, AfterBlock, TidiedIs
  <2>2. CASE owned
    <3>1. o = Review \/ (c = record.files[path] /\ o = Ready(after, "file"))
      BY <1>2, <2>2 DEF SettingsFile
    <3> HIDE DEF after
    <3>2. CASE c = record.files[path] /\ o = Ready(after, "file")
      <4>1. IsReady(o, c, want) /\ o.after = after /\ o.own = "file"
        BY <2>1, <3>2, ReadyIs
      <4> QED
        BY <1>2, <2>2, <3>2, <4>1 DEF Comes, Sound
    <3> QED
      BY <3>1, <3>2 DEF Comes
  <2>3. CASE ~owned
    <3>1. o = Review \/ o = Ready(after, "block")
      BY <1>2, <2>3 DEF SettingsFile
    <3> HIDE DEF after
    <3>2. CASE o = Ready(after, "block")
      <4>1. IsReady(o, c, want) /\ o.own = "block"
        BY <2>1, <3>2, ReadyIs
      <4> QED
        BY <1>2, <4>1 DEF Comes, Sound
    <3> QED
      BY <3>1, <3>2 DEF Comes
  <2> QED
    BY <2>2, <2>3
<1> QED
  BY <1>1, <1>2

\* What a manifest says of a harness is a record, also of one that it does not list.
LEMMA RecordIs ==
  ASSUME NEW h, NEW m, IsManifest(m)
  PROVE  IsRecord(Record(h, m))
<1>1. IsRecord(NoRecord)
  BY DEF IsRecord, NoRecord, IsDigests
<1> QED
  BY <1>1 DEF Record, IsManifest

(* Whatever a write is of, its outcome is as described. *)
LEMMA OutcomeIs ==
  ASSUME NEW found, NEW h, NEW w, w.kind \in Kinds, found[w.path] \in Content \cup {Absent},
         NEW version \in Nat, NEW accept, NEW m, IsManifest(m)
  PROVE  Comes(Outcome(found, h, w, version, accept, m), found[w.path], w.path, Record(h, m),
               OtherOwners(h, w.path, m), Rendered(w.path, version, m.id))
<1>1. Rendered(w.path, version, m.id) \in Blocks
  BY RenderedIs DEF IsManifest
<1>2. IsRecord(Record(h, m))
  BY RecordIs
<1> DEFINE want == Rendered(w.path, version, m.id)
           record == Record(h, m)
           c == found[w.path]
           others == OtherOwners(h, w.path, m)
           o == Outcome(found, h, w, version, accept, m)
<1>3. \/ o = CompleteFile(c, w.path, record, others, want)
      \/ o = MarkdownFile(c, w.path, record, want, accept)
      \/ o = SettingsFile(c, w.path, record, want)
  BY DEF Outcome, Kinds
<1> HIDE DEF want, record, c, others, o
<1>4. want \in Blocks /\ IsRecord(record) /\ c \in Content \cup {Absent}
  BY <1>1, <1>2 DEF want, record, c
<1>5. Comes(o, c, w.path, record, others, want)
  BY <1>3, <1>4, CompleteFileIs, MarkdownFileIs, SettingsFileIs
<1> QED
  BY <1>5 DEF want, record, c, others, o

----
(* What preparing a plan comes to. *)

\* The plans of adapter_writes: no path twice.
LEMMA WritesAre ==
  ASSUME NEW h \in DOMAIN Writes
  PROVE  /\ Len(Writes[h]) \in Nat
         /\ DOMAIN Writes[h] = 1 .. Len(Writes[h])
         /\ ToSet(Writes[h]) = {Writes[h][k] : k \in DOMAIN Writes[h]}
         /\ \A k \in DOMAIN Writes[h] : Writes[h][k].kind \in Kinds
         /\ \A j, k \in DOMAIN Writes[h] : Writes[h][j].path = Writes[h][k].path => j = k
         /\ Writes[h] = <<>> <=> DOMAIN Writes[h] = {}
<1> DEFINE S == [path : {w.path : w \in ToSet(Writes[h])}, kind : {"file", "markdown", "settings"}]
<1>1. Writes[h] \in Seq(S) /\ \A j, k \in DOMAIN Writes[h] : Writes[h][j].path = Writes[h][k].path => j = k
  BY WritesAssumption
<1>2. ToSet(Writes[h]) = {Writes[h][k] : k \in DOMAIN Writes[h]}
  BY DEF ToSet
<1>3. \A w \in S : w.kind \in Kinds
  BY DEF Kinds
<1> HIDE DEF S
<1>4. Len(Writes[h]) \in Nat /\ DOMAIN Writes[h] = 1 .. Len(Writes[h])
      /\ \A k \in DOMAIN Writes[h] : Writes[h][k] \in S
  BY <1>1
<1>5. Writes[h] = <<>> <=> DOMAIN Writes[h] = {}
  BY <1>1, <1>4, EmptySeq
<1> QED
  BY <1>1, <1>2, <1>3, <1>4, <1>5

\* upsert_owned_file: what is new is recorded, what was is kept.
LEMMA OwnIs ==
  ASSUME NEW owned, NEW new, NEW V, IsDigests(owned, V), \A path \in DOMAIN new : new[path] \in V
  PROVE  /\ IsDigests(Own(owned, new), V)
         /\ DOMAIN Own(owned, new) = DOMAIN owned \cup DOMAIN new
         /\ \A path \in DOMAIN new : Own(owned, new)[path] = new[path]
         /\ \A path \in DOMAIN owned \ DOMAIN new : Own(owned, new)[path] = owned[path]
  BY DEF Own, IsDigests

\* The outcome of the kth write of h.
Of(found, h, k, version, accept, m) == Outcome(found, h, Writes[h][k], version, accept, m)

\* The digests of a plan are the old ones but for those its outcomes set.
TakesOver(digests, old, h, taken, of) ==
  /\ DOMAIN digests = DOMAIN old \cup {Writes[h][k].path : k \in taken}
  /\ \A k \in taken : digests[Writes[h][k].path] = of[k]
  /\ \A path \in DOMAIN old : path \notin {Writes[h][k].path : k \in taken} => digests[path] = old[path]

PlanIs(plan, found, h, version, accept, m) ==
  LET of == [k \in DOMAIN Writes[h] |-> Of(found, h, k, version, accept, m)]
  IN  /\ plan.verdict = "ready" => \A k \in DOMAIN Writes[h] : of[k].verdict = "ready"
      /\ plan.verdict # "ready" =>
           \E k \in DOMAIN Writes[h] :
             /\ of[k].verdict = plan.verdict /\ of[k].verdict # "ready"
             /\ \A j \in DOMAIN Writes[h] : j < k => of[j].verdict = "ready"
      /\ IsRecord(PlanRecord(plan, version))
      /\ TakesOver(plan.files, Record(h, m).files, h, {k \in DOMAIN of : of[k].own = "file"},
                   [k \in DOMAIN of |-> of[k].after])
      /\ TakesOver(plan.blocks, Record(h, m).blocks, h, {k \in DOMAIN of : of[k].own = "block"},
                   [k \in DOMAIN of |-> of[k].after.block])
      /\ plan.writes = [k \in DOMAIN Writes[h] |-> [path |-> Writes[h][k].path, after |-> of[k].after]]

Taken(old, h, taken, of) ==
  Own(old, [path \in {Writes[h][k].path : k \in taken} |->
              of[CHOOSE k \in DOMAIN Writes[h] : Writes[h][k].path = path]])

\* The digests that prepare_apply collects.
LEMMA TakesOverIs ==
  ASSUME NEW h \in DOMAIN Writes, NEW old, NEW V, IsDigests(old, V), NEW of, NEW taken \in SUBSET DOMAIN Writes[h],
         \A k \in taken : of[k] \in V,
         NEW digests,
         digests = Taken(old, h, taken, of)
  PROVE  TakesOver(digests, old, h, taken, of) /\ IsDigests(digests, V)
<1> DEFINE paths == {Writes[h][k].path : k \in taken}
           slot(path) == CHOOSE k \in DOMAIN Writes[h] : Writes[h][k].path = path
           new == [path \in paths |-> of[slot(path)]]
<1>0. digests = Own(old, new)
  BY Zenon DEF Taken
<1>1. \A j, k \in DOMAIN Writes[h] : Writes[h][j].path = Writes[h][k].path => j = k
  BY WritesAre
<1>2. ASSUME NEW k \in taken PROVE slot(Writes[h][k].path) = k
  BY <1>1
<1> HIDE DEF slot
<1>3. \A k \in taken : new[Writes[h][k].path] = of[k]
  BY <1>2
<1>4. DOMAIN new = paths /\ \A path \in DOMAIN new : new[path] \in V
  BY <1>3
<1> HIDE DEF new
<1> DEFINE own == Own(old, new)
<1>5. /\ IsDigests(own, V)
      /\ DOMAIN own = DOMAIN old \cup DOMAIN new
      /\ \A path \in DOMAIN new : own[path] = new[path]
      /\ \A path \in DOMAIN old \ DOMAIN new : own[path] = old[path]
  BY <1>4, OwnIs, Zenon
<1> HIDE DEF own
<1>6. TakesOver(own, old, h, taken, of)
  BY <1>3, <1>4, <1>5 DEF TakesOver
<1> QED
  BY <1>0, <1>5, <1>6 DEF own

(* A plan: what its writes come to, one by one, up to the first that is    *)
(* not ready.                                                              *)
LEMMA PreparedIs ==
  ASSUME NEW found, NEW h \in DOMAIN Writes, Found(found, h), NEW version \in Nat, NEW accept, NEW m, IsManifest(m)
  PROVE  PlanIs(Prepared(found, h, version, accept, m), found, h, version, accept, m)
<1> DEFINE writes == Writes[h]
           of == [k \in DOMAIN writes |-> Outcome(found, h, writes[k], version, accept, m)]
           stops == {k \in DOMAIN writes : of[k].verdict # "ready"}
           first == CHOOSE k \in stops : \A j \in stops : k <= j
           slot(path) == CHOOSE k \in DOMAIN writes : writes[k].path = path
           taken(own) == {j \in DOMAIN writes : of[j].own = own}
           paths(own) == {writes[k].path : k \in taken(own)}
           old == Record(h, m)
           plan == Prepared(found, h, version, accept, m)
           files == Own(old.files, [path \in paths("file") |-> of[slot(path)].after])
           blocks == Own(old.blocks, [path \in paths("block") |-> of[slot(path)].after.block])
<1>1. plan = [verdict |-> IF stops = {} THEN "ready" ELSE of[first].verdict, files |-> files, blocks |-> blocks,
              writes |-> [k \in DOMAIN writes |-> [path |-> writes[k].path, after |-> of[k].after]]]
  BY Zenon DEF Prepared
<1>2. ASSUME NEW k \in DOMAIN writes
      PROVE  Comes(of[k], found[writes[k].path], writes[k].path, old, OtherOwners(h, writes[k].path, m),
                   Rendered(writes[k].path, version, m.id))
  <2>1. writes[k].kind \in Kinds /\ writes[k] \in ToSet(Writes[h])
    BY WritesAre
  <2>2. found[writes[k].path] \in Content \cup {Absent}
    BY <2>1 DEF Found
  <2>3. of[k] = Outcome(found, h, writes[k], version, accept, m)
    OBVIOUS
  <2> HIDE DEF of, old, writes
  <2> QED
    BY <2>1, <2>2, <2>3, OutcomeIs DEF old
<1>3. IsRecord(old)
  BY RecordIs
<1> DEFINE after == [k \in DOMAIN writes |-> of[k].after]
           block == [k \in DOMAIN writes |-> of[k].after.block]
<1>4. ASSUME NEW k \in DOMAIN writes, of[k].own \in {"file", "block"}
      PROVE  after[k] \in Content /\ block[k] \in Blocks
  <2>1. IsReady(of[k], found[writes[k].path], Rendered(writes[k].path, version, m.id))
    <3> HIDE DEF of
    <3> QED
      BY <1>2, <1>4 DEF Comes, Review, Refused
  <2>2. Rendered(writes[k].path, version, m.id) \in Blocks
    BY RenderedIs DEF IsManifest
  <2> HIDE DEF of
  <2> QED
    BY <2>1, <2>2 DEF IsReady
<1>5. DOMAIN after = DOMAIN writes /\ DOMAIN block = DOMAIN writes /\ DOMAIN of = DOMAIN writes
  OBVIOUS
<1>6. TakesOver(files, old.files, h, taken("file"), after) /\ IsDigests(files, Content)
  <2> DEFINE T == taken("file")
  <2>1. T \in SUBSET DOMAIN Writes[h] /\ \A k \in T : after[k] \in Content
    BY <1>4
  <2>2. IsDigests(old.files, Content)
    BY <1>3 DEF IsRecord
  <2>3. files = Taken(old.files, h, T, after)
    <3>1. ASSUME NEW path \in paths("file") PROVE of[slot(path)].after = after[slot(path)]
      <4>1. slot(path) \in DOMAIN writes
        <5>1. \E k \in DOMAIN writes : writes[k].path = path
          BY Zenon
        <5> HIDE DEF of, writes
        <5> QED
          BY <5>1, Zenon
      <4> HIDE DEF slot, of
      <4> QED
        BY <4>1
    <3> DEFINE P == paths("file")
    <3>2. [path \in P |-> of[slot(path)].after] = [path \in P |-> after[slot(path)]]
      <4> HIDE DEF of, after, slot
      <4> QED
        BY <3>1
    <3>3. files = Own(old.files, [path \in P |-> of[slot(path)].after])
      BY Zenon
    <3>4. P = {Writes[h][k].path : k \in T}
      BY Zenon
    <3> HIDE DEF of, after, files, P, old, T
    <3>5. files = Own(old.files, [path \in P |-> after[slot(path)]])
      BY <3>2, <3>3
    <3>6. files = Own(old.files, [path \in {Writes[h][k].path : k \in T} |-> after[slot(path)]])
      <4> HIDE DEF slot, writes
      <4> QED
        BY <3>4, <3>5
    <3> QED
      BY <3>6, Zenon DEF slot, Taken
  <2> HIDE DEF T, after, files, old
  <2>4. TakesOver(files, old.files, h, T, after) /\ IsDigests(files, Content)
    BY <2>1, <2>2, <2>3, TakesOverIs
  <2> QED
    BY <2>4 DEF T
<1>7. TakesOver(blocks, old.blocks, h, taken("block"), block) /\ IsDigests(blocks, Blocks)
  <2> DEFINE T == taken("block")
  <2>1. T \in SUBSET DOMAIN Writes[h] /\ \A k \in T : block[k] \in Blocks
    BY <1>4
  <2>2. IsDigests(old.blocks, Blocks)
    BY <1>3 DEF IsRecord
  <2>3. blocks = Taken(old.blocks, h, T, block)
    <3>1. ASSUME NEW path \in paths("block") PROVE of[slot(path)].after.block = block[slot(path)]
      <4>1. slot(path) \in DOMAIN writes
        <5>1. \E k \in DOMAIN writes : writes[k].path = path
          BY Zenon
        <5> HIDE DEF of, writes
        <5> QED
          BY <5>1, Zenon
      <4> HIDE DEF slot, of
      <4> QED
        BY <4>1
    <3> DEFINE P == paths("block")
    <3>2. [path \in P |-> of[slot(path)].after.block] = [path \in P |-> block[slot(path)]]
      <4> HIDE DEF of, block, slot
      <4> QED
        BY <3>1
    <3>3. blocks = Own(old.blocks, [path \in P |-> of[slot(path)].after.block])
      BY Zenon
    <3>4. P = {Writes[h][k].path : k \in T}
      BY Zenon
    <3> HIDE DEF of, block, blocks, P, old, T
    <3>5. blocks = Own(old.blocks, [path \in P |-> block[slot(path)]])
      BY <3>2, <3>3
    <3>6. blocks = Own(old.blocks, [path \in {Writes[h][k].path : k \in T} |-> block[slot(path)]])
      <4> HIDE DEF slot, writes
      <4> QED
        BY <3>4, <3>5
    <3> QED
      BY <3>6, Zenon DEF slot, Taken
  <2> HIDE DEF T, block, blocks, old
  <2>4. TakesOver(blocks, old.blocks, h, T, block) /\ IsDigests(blocks, Blocks)
    BY <2>1, <2>2, <2>3, TakesOverIs
  <2> QED
    BY <2>4 DEF T
<1>8. stops # {} => first \in stops /\ \A j \in stops : first <= j
  <2>1. stops \subseteq Nat
    BY WritesAre
  <2> HIDE DEF stops
  <2> QED
    BY <2>1, LeastExists
<1>9. /\ plan.verdict = IF stops = {} THEN "ready" ELSE of[first].verdict
      /\ plan.files = files /\ plan.blocks = blocks
      /\ plan.writes = [k \in DOMAIN writes |-> [path |-> writes[k].path, after |-> of[k].after]]
  <2> HIDE DEF plan, stops, of, first, files, blocks
  <2> QED
    BY <1>1
<1> HIDE DEF plan, files, blocks, old
<1>10. IsRecord(PlanRecord(plan, version))
  BY <1>6, <1>7, <1>9 DEF IsRecord, PlanRecord
<1>11. plan.verdict = "ready" => \A k \in DOMAIN Writes[h] : of[k].verdict = "ready"
  <2> HIDE DEF of, first
  <2> QED
    BY <1>8, <1>9
<1>12. plan.verdict # "ready" =>
           \E k \in DOMAIN Writes[h] :
             /\ of[k].verdict = plan.verdict /\ of[k].verdict # "ready"
             /\ \A j \in DOMAIN Writes[h] : j < k => of[j].verdict = "ready"
  <2> SUFFICES ASSUME plan.verdict # "ready"
               PROVE \E k \in DOMAIN Writes[h] :
                  /\ of[k].verdict = plan.verdict /\ of[k].verdict # "ready"
                  /\ \A j \in DOMAIN Writes[h] : j < k => of[j].verdict = "ready"
    OBVIOUS
  <2>1. stops # {} /\ plan.verdict = of[first].verdict
    BY <1>9
  <2> HIDE DEF of, first
  <2>2. DOMAIN Writes[h] = 1 .. Len(Writes[h]) /\ Len(Writes[h]) \in Nat
    BY WritesAre
  <2>3. \A j \in DOMAIN Writes[h] : j < first => of[j].verdict = "ready"
    BY <1>8, <2>1, <2>2
  <2> QED
    BY <1>8, <2>1, <2>3
<1>13. of = [k \in DOMAIN Writes[h] |-> Of(found, h, k, version, accept, m)]
  BY DEF Of
<1>14. TakesOver(plan.files, Record(h, m).files, h, {k \in DOMAIN of : of[k].own = "file"},
                  [k \in DOMAIN of |-> of[k].after])
  <2> HIDE DEF of
  <2> QED
    BY <1>5, <1>6, <1>9 DEF old
<1>15. TakesOver(plan.blocks, Record(h, m).blocks, h, {k \in DOMAIN of : of[k].own = "block"},
                  [k \in DOMAIN of |-> of[k].after.block])
  <2> HIDE DEF of
  <2> QED
    BY <1>5, <1>7, <1>9 DEF old
<1>16. plan.writes = [k \in DOMAIN Writes[h] |-> [path |-> Writes[h][k].path, after |-> of[k].after]]
  BY <1>9
<1>17. plan = Prepared(found, h, version, accept, m)
  BY DEF plan
<1> HIDE DEF of
<1>18. PlanIs(plan, found, h, version, accept, m)
  BY <1>10, <1>11, <1>12, <1>13, <1>14, <1>15, <1>16, Zenon DEF PlanIs
<1> QED
  BY <1>17, <1>18

----
(* What a plan that is ready writes and records. *)

Claimed(m, path, digest) ==
  \E h \in DOMAIN m.harness : path \in DOMAIN m.harness[h].files /\ m.harness[h].files[path] = digest

\* A record says of a write what it makes of the file.
RecordedAs(record, v) ==
  \/ v.path \in DOMAIN record.files /\ record.files[v.path] = v.after
  \/ v.path \in DOMAIN record.blocks /\ record.blocks[v.path] = v.after.block

Written(found) == [path : DOMAIN found, after : Content]

\* Each write is of the version and for the store, and is recorded; one that
\* creates is not recorded before.
WritesOf(plan, found, h, version, m) ==
  /\ plan.writes \in Seq(Written(found))
  /\ \A w \in ToSet(Writes[h]) : \E v \in ToSet(plan.writes) : v.path = w.path
  /\ \A v \in ToSet(plan.writes) :
       /\ \E w \in ToSet(Writes[h]) : v.path = w.path
       /\ v.after.block = Rendered(v.path, version, m.id)
       /\ RecordedAs(PlanRecord(plan, version), v)
       /\ found[v.path] = Absent => PlanRecord(plan, version) # Record(h, m)
       /\ \A w \in ToSet(plan.writes) : w.path = v.path => w = v

\* A file that a plan claims was claimed before, or is written.
ClaimsOf(plan, found, m) ==
  \A path \in DOMAIN plan.files :
    \/ Claimed(m, path, plan.files[path])
    \/ \E v \in ToSet(plan.writes) :
         v.path = path /\ v.after = plan.files[path] /\ (found[path] = Absent \/ v.after # found[path])

\* What another harness owns is claimed by the manifest.
LEMMA OthersClaim ==
  ASSUME NEW h, NEW path, NEW m, NEW d \in OtherOwners(h, path, m)
  PROVE  Claimed(m, path, d)
  BY DEF OtherOwners, Claimed

\* What the harness itself owns is claimed by the manifest.
LEMMA OwnClaim ==
  ASSUME NEW h, NEW m, NEW path \in DOMAIN Record(h, m).files
  PROVE  Claimed(m, path, Record(h, m).files[path])
<1>1. CASE h \in DOMAIN m.harness
  BY <1>1 DEF Record, Claimed
<1>2. CASE h \notin DOMAIN m.harness
  <2>1. DOMAIN Record(h, m).files = {}
    BY <1>2 DEF Record, NoRecord
  <2> QED
    BY <2>1
<1> QED
  BY <1>1, <1>2

\* A plan that is ready renders what it writes, and claims no more than was claimed or is written.
LEMMA ReadyPlanIs ==
  ASSUME NEW found, NEW h \in DOMAIN Writes, Found(found, h), NEW version \in Nat, NEW accept, NEW m, IsManifest(m),
         NEW plan, plan = Prepared(found, h, version, accept, m)
  PROVE  /\ IsRecord(PlanRecord(plan, version))
         /\ plan.verdict \in {"ready", "review", "refused"}
         /\ plan.verdict = "ready" => WritesOf(plan, found, h, version, m) /\ ClaimsOf(plan, found, m)
<1> DEFINE of == [k \in DOMAIN Writes[h] |-> Of(found, h, k, version, accept, m)]
           files == {k \in DOMAIN of : of[k].own = "file"}
           blocks == {k \in DOMAIN of : of[k].own = "block"}
           old == Record(h, m)
           record == PlanRecord(plan, version)
<1>0. DOMAIN of = DOMAIN Writes[h]
  OBVIOUS
<1>1. /\ plan.verdict = "ready" => \A k \in DOMAIN Writes[h] : of[k].verdict = "ready"
      /\ plan.verdict # "ready" => \E k \in DOMAIN Writes[h] : of[k].verdict = plan.verdict
      /\ IsRecord(PlanRecord(plan, version))
      /\ TakesOver(plan.files, Record(h, m).files, h, files, [k \in DOMAIN of |-> of[k].after])
      /\ TakesOver(plan.blocks, Record(h, m).blocks, h, blocks, [k \in DOMAIN of |-> of[k].after.block])
      /\ plan.writes = [k \in DOMAIN Writes[h] |-> [path |-> Writes[h][k].path, after |-> of[k].after]]
  <2>1. PlanIs(plan, found, h, version, accept, m)
    BY PreparedIs
  <2>2. /\ plan.verdict = "ready" => \A k \in DOMAIN Writes[h] : of[k].verdict = "ready"
        /\ plan.verdict # "ready" =>
             \E k \in DOMAIN Writes[h] :
               /\ of[k].verdict = plan.verdict /\ of[k].verdict # "ready"
               /\ \A j \in DOMAIN Writes[h] : j < k => of[j].verdict = "ready"
        /\ IsRecord(PlanRecord(plan, version))
        /\ TakesOver(plan.files, Record(h, m).files, h, files, [k \in DOMAIN of |-> of[k].after])
        /\ TakesOver(plan.blocks, Record(h, m).blocks, h, blocks, [k \in DOMAIN of |-> of[k].after.block])
        /\ plan.writes = [k \in DOMAIN Writes[h] |-> [path |-> Writes[h][k].path, after |-> of[k].after]]
    <3> USE <2>1 DEF PlanIs
    <3>1. plan.verdict = "ready" => \A k \in DOMAIN Writes[h] : of[k].verdict = "ready"
      BY Zenon
    <3>2. plan.verdict # "ready" =>
             \E k \in DOMAIN Writes[h] :
               /\ of[k].verdict = plan.verdict /\ of[k].verdict # "ready"
               /\ \A j \in DOMAIN Writes[h] : j < k => of[j].verdict = "ready"
      BY Zenon
    <3>3. IsRecord(PlanRecord(plan, version))
      BY Zenon
    <3>4. TakesOver(plan.files, Record(h, m).files, h, files, [k \in DOMAIN of |-> of[k].after])
      BY Zenon
    <3>5. TakesOver(plan.blocks, Record(h, m).blocks, h, blocks, [k \in DOMAIN of |-> of[k].after.block])
      BY Zenon
    <3>6. plan.writes = [k \in DOMAIN Writes[h] |-> [path |-> Writes[h][k].path, after |-> of[k].after]]
      BY Zenon
    <3> HIDE DEF of, PlanIs
    <3> QED
      BY <3>1, <3>2, <3>3, <3>4, <3>5, <3>6
  <2> HIDE DEF of
  <2> QED
    BY <2>2
<1>2. ASSUME NEW k \in DOMAIN Writes[h]
      PROVE  /\ Comes(of[k], found[Writes[h][k].path], Writes[h][k].path, old, OtherOwners(h, Writes[h][k].path, m),
                      Rendered(Writes[h][k].path, version, m.id))
             /\ Writes[h][k] \in ToSet(Writes[h]) /\ Writes[h][k].path \in DOMAIN found
  <2>1. Writes[h][k].kind \in Kinds /\ Writes[h][k] \in ToSet(Writes[h])
    BY WritesAre
  <2>2. found[Writes[h][k].path] \in Content \cup {Absent} /\ Writes[h][k].path \in DOMAIN found
    BY <2>1 DEF Found
  <2>3. of[k] = Outcome(found, h, Writes[h][k], version, accept, m)
    BY DEF Of
  <2> HIDE DEF of, old
  <2> QED
    BY <2>1, <2>2, <2>3, OutcomeIs DEF old
<1> HIDE DEF of
<1>3. plan.verdict \in {"ready", "review", "refused"}
  <2>1. \A k \in DOMAIN Writes[h] : of[k].verdict \in {"ready", "review", "refused"}
    <3> SUFFICES ASSUME NEW k \in DOMAIN Writes[h]
                 PROVE  of[k].verdict \in {"ready", "review", "refused"}
      OBVIOUS
    <3> DEFINE o == of[k]
    <3>1. o = Review \/ o = Refused \/ o = Ready(o.after, o.own)
      BY <1>2, Zenon DEF Comes, IsReady
    <3>2. Review.verdict = "review" /\ Refused.verdict = "refused" /\ Ready(o.after, o.own).verdict = "ready"
      BY DEF Ready, Review, Refused
    <3> QED
      BY <3>1, <3>2
  <2> QED
    BY <1>1, <2>1
<1>4. ASSUME plan.verdict = "ready"
      PROVE  WritesOf(plan, found, h, version, m) /\ ClaimsOf(plan, found, m)
  <2>1. ASSUME NEW k \in DOMAIN Writes[h]
        PROVE  /\ IsReady(of[k], found[Writes[h][k].path], Rendered(Writes[h][k].path, version, m.id))
               /\ Sound(of[k], found[Writes[h][k].path], Writes[h][k].path, old, OtherOwners(h, Writes[h][k].path, m))
    <3>1. of[k].verdict = "ready"
      BY <1>1, <1>4
    <3> QED
      BY <1>2, <3>1 DEF Comes, Review, Refused
  <2> DEFINE write(k) == [path |-> Writes[h][k].path, after |-> of[k].after]
  <2>2. Len(Writes[h]) \in Nat /\ DOMAIN Writes[h] = 1 .. Len(Writes[h])
        /\ ToSet(Writes[h]) = {Writes[h][k] : k \in DOMAIN Writes[h]}
        /\ \A j, k \in DOMAIN Writes[h] : Writes[h][j].path = Writes[h][k].path => j = k
    BY WritesAre
  <2>3. plan.writes = [k \in 1 .. Len(Writes[h]) |-> write(k)] /\ \A k \in DOMAIN Writes[h] : write(k) \in Written(found)
    BY <1>1, <1>2, <2>1, <2>2 DEF IsReady, Written
  <2>4. plan.writes \in Seq(Written(found))
    <3> HIDE DEF write
    <3> QED
      BY <2>2, <2>3, IsASeq
  <2>5. ToSet(plan.writes) = {write(k) : k \in DOMAIN Writes[h]}
    <3> HIDE DEF write
    <3> QED
      BY <2>2, <2>3 DEF ToSet
  <2>6. ASSUME NEW k \in DOMAIN Writes[h]
        PROVE  RecordedAs(record, write(k))
    <3>1. CASE of[k].own = "file"
      <4>1. Writes[h][k].path \in DOMAIN plan.files /\ plan.files[Writes[h][k].path] = of[k].after
        BY <1>0, <1>1, <3>1 DEF TakesOver
      <4> QED
        BY <4>1 DEF RecordedAs, PlanRecord
    <3>2. CASE of[k].own = "block"
      <4>1. Writes[h][k].path \in DOMAIN plan.blocks /\ plan.blocks[Writes[h][k].path] = of[k].after.block
        BY <1>0, <1>1, <3>2 DEF TakesOver
      <4> QED
        BY <4>1 DEF RecordedAs, PlanRecord
    <3> QED
      BY <2>1, <3>1, <3>2 DEF IsReady
  <2>7. ASSUME NEW k \in DOMAIN Writes[h], found[Writes[h][k].path] = Absent
        PROVE  record # old
    <3>1. CASE of[k].own = "file" /\ Writes[h][k].path \notin DOMAIN old.files
      <4>1. Writes[h][k].path \in DOMAIN plan.files
        BY <1>0, <1>1, <3>1 DEF TakesOver
      <4> QED
        BY <3>1, <4>1 DEF PlanRecord
    <3>2. CASE of[k].own = "block" /\ Writes[h][k].path \notin DOMAIN old.blocks
      <4>1. Writes[h][k].path \in DOMAIN plan.blocks
        BY <1>0, <1>1, <3>2 DEF TakesOver
      <4> QED
        BY <3>2, <4>1 DEF PlanRecord
    <3>3. \/ of[k].own = "file" /\ Writes[h][k].path \notin DOMAIN old.files
          \/ of[k].own = "block" /\ Writes[h][k].path \notin DOMAIN old.blocks
      BY <2>1, <2>7, Zenon DEF Sound
    <3> QED
      BY <3>1, <3>2, <3>3
  <2> HIDE DEF record, old
  <2>8. WritesOf(plan, found, h, version, m)
    <3>1. \A w \in ToSet(Writes[h]) : \E v \in ToSet(plan.writes) : v.path = w.path
      <4> SUFFICES ASSUME NEW w \in ToSet(Writes[h])
                   PROVE  \E v \in ToSet(plan.writes) : v.path = w.path
        OBVIOUS
      <4>1. PICK k \in DOMAIN Writes[h] : w = Writes[h][k]
        BY <2>2
      <4>2. write(k) \in ToSet(plan.writes) /\ write(k).path = w.path
        BY <2>5, <4>1
      <4> QED
        BY <4>2
    <3>2. ASSUME NEW v \in ToSet(plan.writes)
          PROVE  /\ \E w \in ToSet(Writes[h]) : v.path = w.path
                 /\ v.after.block = Rendered(v.path, version, m.id)
                 /\ RecordedAs(record, v)
                 /\ found[v.path] = Absent => record # old
                 /\ \A w \in ToSet(plan.writes) : w.path = v.path => w = v
      <4>1. PICK k \in DOMAIN Writes[h] : v = write(k)
        BY <2>5
      <4>2. v.path = Writes[h][k].path /\ v.after = of[k].after
        BY <4>1
      <4>3. \A w \in ToSet(plan.writes) : w.path = v.path => w = v
        BY <2>2, <2>5, <4>1
      <4> QED
        BY <1>2, <2>1, <2>6, <2>7, <4>1, <4>2, <4>3 DEF IsReady
    <3> QED
      BY <2>4, <3>1, <3>2, Zenon DEF WritesOf, record, old
  <2>9. ClaimsOf(plan, found, m)
    <3> SUFFICES ASSUME NEW path \in DOMAIN plan.files
                 PROVE  \/ Claimed(m, path, plan.files[path])
                        \/ \E v \in ToSet(plan.writes) :
                             v.path = path /\ v.after = plan.files[path] /\ (found[path] = Absent \/ v.after # found[path])
      BY Zenon DEF ClaimsOf
    <3>1. CASE path \in {Writes[h][k].path : k \in files}
      <4>1. PICK k \in DOMAIN Writes[h] : of[k].own = "file" /\ path = Writes[h][k].path
        BY <1>0, <3>1
      <4>2. plan.files[path] = of[k].after
        BY <1>0, <1>1, <4>1 DEF TakesOver
      <4>3. write(k) \in ToSet(plan.writes) /\ write(k).path = path /\ write(k).after = plan.files[path]
        BY <2>5, <4>1, <4>2
      <4>4. CASE found[path] = Absent \/ of[k].after # found[path]
        BY <4>2, <4>3, <4>4
      <4>5. CASE path \in DOMAIN old.files /\ old.files[path] = of[k].after
        BY <4>2, <4>5, OwnClaim DEF old
      <4>6. CASE of[k].after \in OtherOwners(h, path, m)
        BY <4>2, <4>6, OthersClaim
      <4> QED
        BY <2>1, <4>1, <4>4, <4>5, <4>6 DEF Sound
    <3>2. CASE path \notin {Writes[h][k].path : k \in files}
      <4>1. path \in DOMAIN old.files /\ plan.files[path] = old.files[path]
        BY <1>1, <3>2 DEF TakesOver, old
      <4> QED
        BY <4>1, OwnClaim DEF old
    <3> QED
      BY <3>1, <3>2
  <2> QED
    BY <2>8, <2>9
<1> QED
  BY <1>1, <1>3, <1>4

----
(* What recording changes, and what there is to write. *)

\* A manifest with the record of one harness.
LEMMA WithIs ==
  ASSUME NEW m, IsManifest(m), NEW h, NEW r, IsRecord(r)
  PROVE  /\ IsManifest(With(m, h, r)) /\ With(m, h, r).id = m.id
         /\ DOMAIN With(m, h, r).harness = DOMAIN m.harness \cup {h}
         /\ With(m, h, r).harness[h] = r /\ Record(h, With(m, h, r)) = r
         /\ \A g \in DOMAIN m.harness \ {h} : With(m, h, r).harness[g] = m.harness[g]
         /\ \A g : g # h => Record(g, With(m, h, r)) = Record(g, m)
         /\ (h \in DOMAIN m.harness /\ Record(h, m) = r) <=> With(m, h, r) = m
<1> DEFINE n == [g \in DOMAIN m.harness \cup {h} |-> IF g = h THEN r ELSE m.harness[g]]
           changed == [id |-> m.id, harness |-> n]
<1>1. DOMAIN n = DOMAIN m.harness \cup {h} /\ n[h] = r /\ \A g \in DOMAIN m.harness \ {h} : n[g] = m.harness[g]
  OBVIOUS
<1>2. n = [g \in DOMAIN n |-> n[g]]
  OBVIOUS
<1>3. With(m, h, r) = changed
  BY DEF With
<1>4. h \in DOMAIN m.harness /\ m.harness[h] = r => n = [g \in DOMAIN m.harness |-> m.harness[g]]
  OBVIOUS
<1> HIDE DEF n
<1>5. changed.id = m.id /\ changed.harness = n
  OBVIOUS
<1>6. m = [id |-> m.id, harness |-> [g \in DOMAIN m.harness |-> m.harness[g]]]
      /\ m.id \in Nat /\ \A g \in DOMAIN m.harness : IsRecord(m.harness[g])
  BY DEF IsManifest
<1>7. IsManifest(changed)
  <2>1. changed = [id |-> changed.id, harness |-> [g \in DOMAIN changed.harness |-> changed.harness[g]]]
    BY <1>2, <1>5
  <2>2. \A g \in DOMAIN changed.harness : IsRecord(changed.harness[g])
    BY <1>1, <1>5, <1>6
  <2> HIDE DEF changed
  <2> QED
    BY <1>5, <1>6, <2>1, <2>2 DEF IsManifest
<1>8. h \in DOMAIN m.harness /\ Record(h, m) = r => changed = m
  BY <1>4, <1>6 DEF Record
<1>9. changed = m => h \in DOMAIN m.harness /\ Record(h, m) = r
  BY <1>1, <1>5 DEF Record
<1> HIDE DEF changed
<1>10. Record(h, changed) = r /\ \A g : g # h => Record(g, changed) = Record(g, m)
  BY <1>1, <1>5 DEF Record
<1> QED
  BY <1>1, <1>3, <1>5, <1>7, <1>8, <1>9, <1>10

\* A blocked harness keeps the digests it had.
LEMMA BlockedRecordIs ==
  ASSUME NEW m, IsManifest(m), NEW h, NEW version \in Nat
  PROVE  /\ IsRecord(BlockedRecord(h, m, version))
         /\ BlockedRecord(h, m, version).by = version
         /\ BlockedRecord(h, m, version).files = Record(h, m).files
         /\ BlockedRecord(h, m, version).blocks = Record(h, m).blocks
<1>1. IsRecord(Record(h, m))
  BY RecordIs
<1> QED
  BY <1>1 DEF BlockedRecord, IsRecord

\* The changes are the writes that are not there yet.
LEMMA ChangesAre ==
  ASSUME NEW found, NEW T, NEW writes \in Seq(T)
  PROVE  /\ Changes(found, writes) \in Seq(T)
         /\ ToSet(Changes(found, writes)) = {w \in ToSet(writes) : w.after # found[w.path]}
         /\ Changes(found, writes) = <<>> <=> \A w \in ToSet(writes) : w.after = found[w.path]
<1> DEFINE S == {w \in ToSet(writes) : w.after # found[w.path]}
           list == Changes(found, writes)
<1>1. list = Among(writes, S)
  BY DEF Changes
<1> HIDE DEF list
<1>2. list \in Seq(T) /\ ToSet(list) = ToSet(writes) \cap S
  BY <1>1, AmongIs
<1>3. ToSet(list) = {list[k] : k \in 1 .. Len(list)}
  BY <1>2 DEF ToSet
<1>4. list = <<>> <=> ToSet(list) = {}
  <2>1. ASSUME list # <<>> PROVE list[1] \in ToSet(list)
    BY <1>2, <1>3, <2>1, EmptySeq
  <2>2. ASSUME list = <<>> PROVE ToSet(list) = {}
    BY <1>3, <2>2
  <2> QED
    BY <2>1, <2>2
<1> QED
  BY <1>2, <1>4 DEF list

\* Without a mutation a write creates a file or finds it as it is to be.
LEMMA PlainWrites ==
  ASSUME NEW found, NEW writes, ToSet(writes) \subseteq Written(found), ~Mutates(found, writes),
         NEW w \in ToSet(writes)
  PROVE  w.after # Absent /\ (w.after = found[w.path] \/ found[w.path] = Absent)
<1>1. w.after \in Content
  BY DEF Written
<1> QED
  BY <1>1, NullsAssumption DEF Mutates

----
(* A batch: one harness after another. *)

BatchTyped(b, found, order, m) ==
  /\ b.verdict \in {"ready", "refused"}
  /\ IsManifest(b.next) /\ b.next.id = m.id
  /\ b.writes \in Seq(Written(found))
  /\ b.answer \in [ToSet(order) -> {"ready", "review", "blocked"}]

\* No path is written twice.
BatchWrites(b, version, m) ==
  \A v \in ToSet(b.writes) :
    /\ v.after.block = Rendered(v.path, version, m.id)
    /\ \A w \in ToSet(b.writes) : w.path = v.path => w = v

\* What is written is of a harness that is ready.
BatchFrom(b, order) ==
  \A v \in ToSet(b.writes) :
    \E h \in ToSet(order) : b.answer[h] = "ready" /\ \E w \in ToSet(Writes[h]) : w.path = v.path

\* What the batch has not come to is as it was.
BatchRest(b, order, k, m) ==
  /\ \A j \in DOMAIN order : j > k =>
       b.answer[order[j]] = "review" /\ (order[j] \in DOMAIN b.next.harness => order[j] \in DOMAIN m.harness)
       /\ Record(order[j], b.next) = Record(order[j], m)
  /\ DOMAIN b.next.harness \subseteq DOMAIN m.harness \cup ToSet(order)

\* A write of a harness that is ready is among those of the batch, and recorded.
Landing(b, found, h, w, m) ==
  \E v \in ToSet(b.writes) :
    /\ v.path = w.path
    /\ RecordedAs(b.next.harness[h], v)
    /\ found[v.path] = Absent => b.next.harness[h] # Record(h, m)

BatchReady(b, found, order, version, m) ==
  \A h \in ToSet(order) : b.answer[h] = "ready" =>
    /\ h \in DOMAIN b.next.harness
    /\ b.next.harness[h].by = version
    /\ \A w \in ToSet(Writes[h]) : Landing(b, found, h, w, m)

BatchClaims(b, found, m) ==
  \A path, digest : Claimed(b.next, path, digest) =>
    \/ Claimed(m, path, digest)
    \/ \E v \in ToSet(b.writes) : v.path = path /\ v.after = digest /\ (found[path] = Absent \/ digest # found[path])

BatchIs(b, found, order, k, version, m) ==
  /\ BatchTyped(b, found, order, m)
  /\ BatchWrites(b, version, m)
  /\ BatchFrom(b, order)
  /\ BatchRest(b, order, k, m)
  /\ BatchReady(b, found, order, version, m)
  /\ BatchClaims(b, found, m)

\* The order of a batch lists each harness once.
Order(order, found) ==
  /\ order \in Seq(DOMAIN Writes)
  /\ \A j, k \in DOMAIN order : order[j] = order[k] => j = k
  /\ \A h \in ToSet(order) : Found(found, h)

\* What a step of a batch comes to, whose plan for h is ready.
Joins(c, b, h, plan, version) ==
  /\ c.verdict = "ready" /\ c.next = With(b.next, h, PlanRecord(plan, version))
  /\ c.writes \in Seq(UNION {ToSet(b.writes), ToSet(plan.writes)})
  /\ ToSet(c.writes) = ToSet(b.writes) \cup ToSet(plan.writes)
  /\ \A w \in ToSet(b.writes), v \in ToSet(plan.writes) : w.path = v.path => w = v
  /\ c.answer = [b.answer EXCEPT ![h] = "ready"]

\* The parts of a decision.
LEMMA DecidedIs ==
  ASSUME NEW verdict, NEW following, NEW writes, NEW says
  PROVE  /\ Decided(verdict, following, writes, says).verdict = verdict
         /\ Decided(verdict, following, writes, says).next = following
         /\ Decided(verdict, following, writes, says).writes = writes
         /\ Decided(verdict, following, writes, says).answer = says
  BY DEF Decided

\* What a step of a batch can come to.
AddsTo(c, b, h, plan, version) ==
  \/ c = b /\ b.verdict = "refused"
  \/ /\ Writes[h] = <<>> /\ b.verdict = "ready"
     /\ c = Decided("ready", With(b.next, h, BlockedRecord(h, b.next, version)), b.writes,
                    [b.answer EXCEPT ![h] = "blocked"])
  \/ /\ Writes[h] # <<>> /\ plan.verdict = "review" /\ b.verdict = "ready"
     /\ c = Decided("ready", b.next, b.writes, [b.answer EXCEPT ![h] = "review"])
  \/ Writes[h] # <<>> /\ plan.verdict = "ready" /\ b.verdict = "ready" /\ Joins(c, b, h, plan, version)
  \/ c = Decided("refused", b.next, b.writes, b.answer)

\* One harness of a batch is kept for review, blocked, or joins with its writes; or the batch is refused.
LEMMA AddIs ==
  ASSUME NEW found, NEW h \in DOMAIN Writes, Found(found, h), NEW version \in Nat, NEW b,
         IsManifest(b.next), b.writes \in Seq(Written(found)), b.verdict \in {"ready", "refused"},
         NEW plan, plan = Prepared(found, h, version, Unattended, b.next), NEW c, c = Add(b, h, found, version)
  PROVE  AddsTo(c, b, h, plan, version)
<1> DEFINE clash == \E w \in ToSet(b.writes), v \in ToSet(plan.writes) : w.path = v.path /\ w.after # v.after
           new == {v \in ToSet(plan.writes) : \A w \in ToSet(b.writes) : w.path # v.path}
           joined == b.writes \o Among(plan.writes, new)
<1>1. \/ c = b /\ b.verdict = "refused"
      \/ /\ Writes[h] = <<>> /\ b.verdict = "ready"
         /\ c = Decided("ready", With(b.next, h, BlockedRecord(h, b.next, version)), b.writes,
                        [b.answer EXCEPT ![h] = "blocked"])
      \/ /\ Writes[h] # <<>> /\ plan.verdict = "review" /\ b.verdict = "ready"
         /\ c = Decided("ready", b.next, b.writes, [b.answer EXCEPT ![h] = "review"])
      \/ /\ Writes[h] # <<>> /\ plan.verdict = "ready" /\ b.verdict = "ready" /\ ~clash
         /\ c = Decided("ready", With(b.next, h, PlanRecord(plan, version)), joined,
                        [b.answer EXCEPT ![h] = "ready"])
      \/ c = Decided("refused", b.next, b.writes, b.answer)
  <2> DEFINE Clash(pl) == \E w \in ToSet(b.writes), v \in ToSet(pl.writes) : w.path = v.path /\ w.after # v.after
             Joined(pl) == b.writes \o Among(pl.writes, {v \in ToSet(pl.writes) :
                                                          \A w \in ToSet(b.writes) : w.path # v.path})
             Adds(pl) == CASE b.verdict = "refused" -> b
              [] b.verdict # "refused" /\ Writes[h] = <<>> ->
                   Decided("ready", With(b.next, h, BlockedRecord(h, b.next, version)), b.writes,
                           [b.answer EXCEPT ![h] = "blocked"])
              [] b.verdict # "refused" /\ Writes[h] # <<>> ->
                   CASE pl.verdict = "review" ->
                          Decided("ready", b.next, b.writes, [b.answer EXCEPT ![h] = "review"])
                     [] pl.verdict = "ready" /\ ~Clash(pl) ->
                          Decided("ready", With(b.next, h, PlanRecord(pl, version)), Joined(pl),
                                  [b.answer EXCEPT ![h] = "ready"])
                     [] OTHER -> Decided("refused", b.next, b.writes, b.answer)
  <2>1. c = Adds(Prepared(found, h, version, Unattended, b.next))
    BY Zenon DEF Add
  <2>2. c = Adds(plan)
    <3> HIDE DEF Adds
    <3> QED
      BY <2>1
  <2>3. Clash(plan) <=> clash
    OBVIOUS
  <2>4. Joined(plan) = joined
    OBVIOUS
  <2> HIDE DEF clash, joined, Clash, Joined
  <2> QED
    BY <2>2, <2>3, <2>4
<1>2. ASSUME plan.verdict = "ready", ~clash,
             c = Decided("ready", With(b.next, h, PlanRecord(plan, version)), joined,
                         [b.answer EXCEPT ![h] = "ready"])
      PROVE  Joins(c, b, h, plan, version)
  <2>1. WritesOf(plan, found, h, version, b.next)
    BY <1>2, ReadyPlanIs
  <2>2. plan.writes \in Seq(Written(found)) /\ \A v \in ToSet(plan.writes) : v = [path |-> v.path, after |-> v.after]
    <3>1. ToSet(plan.writes) \subseteq Written(found)
      BY <2>1 DEF WritesOf, ToSet
    <3> QED
      BY <2>1, <3>1 DEF WritesOf, Written
  <2>3. \A w \in ToSet(b.writes) : w = [path |-> w.path, after |-> w.after]
    <3>1. ToSet(b.writes) \subseteq Written(found)
      BY DEF ToSet
    <3> QED
      BY <3>1 DEF Written
  <2>4. \A w \in ToSet(b.writes), v \in ToSet(plan.writes) : w.path = v.path => w = v
    BY <1>2, <2>2, <2>3
  <2> DEFINE T == ToSet(b.writes) \cup ToSet(plan.writes)
  <2>5. b.writes \in Seq(T) /\ plan.writes \in Seq(T)
    BY <2>2 DEF ToSet
  <2>6. Among(plan.writes, new) \in Seq(T) /\ ToSet(Among(plan.writes, new)) = ToSet(plan.writes) \cap new
    <3> HIDE DEF T, new
    <3> QED
      BY <2>5, AmongIs
  <2>7. joined \in Seq(T) /\ ToSet(joined) = ToSet(b.writes) \cup (ToSet(plan.writes) \cap new)
    <3> HIDE DEF T, new
    <3> QED
      BY <2>5, <2>6, ToSetOfBoth
  <2>8. ToSet(joined) = T
    <3>1. \A v \in ToSet(plan.writes) : v \in new \/ v \in ToSet(b.writes)
      BY <2>4
    <3> HIDE DEF joined
    <3> QED
      BY <2>7, <3>1
  <2>9. c.verdict = "ready" /\ c.next = With(b.next, h, PlanRecord(plan, version)) /\ c.writes = joined
        /\ c.answer = [b.answer EXCEPT ![h] = "ready"]
    <3> DEFINE ready == "ready"
               says == [b.answer EXCEPT ![h] = "ready"]
               changed == With(b.next, h, PlanRecord(plan, version))
    <3>1. c = Decided(ready, changed, joined, says)
      BY <1>2
    <3> HIDE DEF ready, says, changed, joined
    <3>2. c.verdict = ready /\ c.next = changed /\ c.writes = joined /\ c.answer = says
      BY <3>1, DecidedIs
    <3> QED
      BY <3>2 DEF ready, says, changed
  <2>10. T = UNION {ToSet(b.writes), ToSet(plan.writes)}
    OBVIOUS
  <2> HIDE DEF joined, T
  <2>11. c.writes \in Seq(UNION {ToSet(b.writes), ToSet(plan.writes)})
         /\ ToSet(c.writes) = ToSet(b.writes) \cup ToSet(plan.writes)
    BY <2>7, <2>8, <2>9, <2>10 DEF T
  <2> QED
    BY <2>4, <2>9, <2>11, Zenon DEF Joins
<1> HIDE DEF clash, joined
<1>3. \/ c = b /\ b.verdict = "refused"
      \/ /\ Writes[h] = <<>> /\ b.verdict = "ready"
         /\ c = Decided("ready", With(b.next, h, BlockedRecord(h, b.next, version)), b.writes,
                        [b.answer EXCEPT ![h] = "blocked"])
      \/ /\ Writes[h] # <<>> /\ plan.verdict = "review" /\ b.verdict = "ready"
         /\ c = Decided("ready", b.next, b.writes, [b.answer EXCEPT ![h] = "review"])
      \/ Writes[h] # <<>> /\ plan.verdict = "ready" /\ b.verdict = "ready" /\ Joins(c, b, h, plan, version)
      \/ c = Decided("refused", b.next, b.writes, b.answer)
  BY <1>1, <1>2
<1> QED
  BY <1>3, Zenon DEF AddsTo

\* A batch in which h gets a record that claims nothing new.
LEMMA ClaimsWith ==
  ASSUME NEW m, IsManifest(m), NEW h, NEW r, IsRecord(r), NEW path, NEW digest, Claimed(With(m, h, r), path, digest)
  PROVE  Claimed(m, path, digest) \/ (path \in DOMAIN r.files /\ r.files[path] = digest)
<1> DEFINE n == With(m, h, r)
<1>1. /\ DOMAIN n.harness = DOMAIN m.harness \cup {h} /\ n.harness[h] = r
      /\ \A g \in DOMAIN m.harness \ {h} : n.harness[g] = m.harness[g]
  BY WithIs
<1> HIDE DEF n
<1>2. PICK g \in DOMAIN n.harness : path \in DOMAIN n.harness[g].files /\ n.harness[g].files[path] = digest
  BY DEF Claimed, n
<1>3. CASE g = h
  BY <1>1, <1>2, <1>3
<1>4. CASE g # h
  BY <1>1, <1>2, <1>4 DEF Claimed
<1> QED
  BY <1>3, <1>4

\* A harness that does not join leaves the batch as it was.
LEMMA RefusedKeeps ==
  ASSUME NEW found, NEW order, NEW k \in Nat, NEW version, NEW m, NEW b, NEW c,
         BatchIs(b, found, order, k, version, m), order \in Seq(DOMAIN Writes),
         c.verdict \in {"ready", "refused"}, c.next = b.next, c.writes = b.writes, c.answer = b.answer
  PROVE  BatchIs(c, found, order, k + 1, version, m)
<1>1. BatchTyped(c, found, order, m)
  BY DEF BatchIs, BatchTyped
<1>2. BatchWrites(c, version, m)
  BY DEF BatchIs, BatchWrites
<1>3. BatchRest(c, order, k + 1, m)
  <2>1. \A j \in DOMAIN order : j > k + 1 => j > k
    OBVIOUS
  <2> QED
    BY <2>1 DEF BatchIs, BatchRest
<1>4. BatchReady(c, found, order, version, m)
  BY DEF BatchIs, BatchReady, Landing
<1>5. BatchClaims(c, found, m)
  BY DEF BatchIs, BatchClaims
<1>6. BatchFrom(c, order)
  BY DEF BatchIs, BatchFrom
<1> QED
  BY <1>1, <1>2, <1>3, <1>4, <1>5, <1>6 DEF BatchIs

\* What becomes of a batch when h gets a record, and its answer.
RecordKept(c, b, found, order, k, version, m, h, r, word) ==
  /\ IsManifest(c.next) /\ c.next.id = m.id
  /\ c.answer \in [ToSet(order) -> {"ready", "review", "blocked"}]
  /\ BatchRest(c, order, k + 1, m)
  /\ \A g \in ToSet(order) : g # h /\ c.answer[g] = "ready" =>
       /\ g \in DOMAIN c.next.harness
       /\ c.next.harness[g].by = version
       /\ \A w \in ToSet(Writes[g]) : Landing(c, found, g, w, m)
  /\ h \in DOMAIN c.next.harness /\ c.next.harness[h] = r /\ c.answer[h] = word
  /\ Record(h, b.next) = Record(h, m)


\* h gets a record, and its answer.
Records(c, b, h, r, word) ==
  /\ IsRecord(r) /\ c.next = With(b.next, h, r)
  /\ word \in {"ready", "blocked"} /\ c.answer = [b.answer EXCEPT ![h] = word]
  /\ ToSet(b.writes) \subseteq ToSet(c.writes)

\* A harness that joins without a clash has its record and all its writes in the batch.
LEMMA RecordsKeep ==
  ASSUME NEW found, NEW order, Order(order, found), NEW k \in Nat, k + 1 \in DOMAIN order,
         NEW version \in Nat, NEW m, IsManifest(m), NEW b, NEW c,
         BatchIs(b, found, order, k, version, m),
         NEW h, h = order[k + 1], NEW r, NEW word, Records(c, b, h, r, word)
  PROVE  RecordKept(c, b, found, order, k, version, m, h, r, word)
<1>0. /\ IsRecord(r) /\ c.next = With(b.next, h, r)
      /\ word \in {"ready", "blocked"} /\ c.answer = [b.answer EXCEPT ![h] = word]
      /\ ToSet(b.writes) \subseteq ToSet(c.writes)
  BY Zenon DEF Records
<1>1. /\ IsManifest(b.next) /\ b.next.id = m.id
      /\ b.answer \in [ToSet(order) -> {"ready", "review", "blocked"}]
  BY DEF BatchIs, BatchTyped
<1>2. h \in ToSet(order) /\ \A j \in DOMAIN order : j # k + 1 => order[j] # h
  BY DEF ToSet, Order
<1>3. /\ IsManifest(c.next) /\ c.next.id = b.next.id
      /\ DOMAIN c.next.harness = DOMAIN b.next.harness \cup {h}
      /\ c.next.harness[h] = r
      /\ \A g \in DOMAIN b.next.harness \ {h} : c.next.harness[g] = b.next.harness[g]
      /\ \A g : g # h => Record(g, c.next) = Record(g, b.next)
  BY <1>0, <1>1, WithIs
<1>4. c.answer \in [ToSet(order) -> {"ready", "review", "blocked"}] /\ c.answer[h] = word
      /\ \A g \in ToSet(order) : g # h => c.answer[g] = b.answer[g]
  BY <1>0, <1>1, <1>2
<1>5. BatchRest(b, order, k, m)
  BY DEF BatchIs
<1>6. BatchRest(c, order, k + 1, m)
  <2>1. ASSUME NEW j \in DOMAIN order, j > k + 1
        PROVE  /\ c.answer[order[j]] = "review" /\ Record(order[j], c.next) = Record(order[j], m)
               /\ order[j] \in DOMAIN c.next.harness => order[j] \in DOMAIN m.harness
    <3>1. j > k /\ order[j] # h /\ order[j] \in ToSet(order)
      BY <1>2, <2>1 DEF Order, ToSet
    <3> QED
      BY <1>3, <1>4, <1>5, <3>1 DEF BatchRest
  <2>2. DOMAIN c.next.harness \subseteq DOMAIN m.harness \cup ToSet(order)
    BY <1>2, <1>3, <1>5 DEF BatchRest
  <2> QED
    BY <2>1, <2>2 DEF BatchRest
<1>7. ASSUME NEW g \in ToSet(order), g # h, c.answer[g] = "ready"
      PROVE  /\ g \in DOMAIN c.next.harness
             /\ c.next.harness[g].by = version
             /\ \A w \in ToSet(Writes[g]) : Landing(c, found, g, w, m)
  <2>1. /\ g \in DOMAIN b.next.harness
        /\ b.next.harness[g].by = version
        /\ \A w \in ToSet(Writes[g]) : Landing(b, found, g, w, m)
    BY <1>4, <1>7 DEF BatchIs, BatchReady
  <2>2. c.next.harness[g] = b.next.harness[g] /\ g \in DOMAIN c.next.harness
    BY <1>3, <1>7, <2>1
  <2>3. \A w \in ToSet(Writes[g]) : Landing(c, found, g, w, m)
    BY <1>0, <2>1, <2>2 DEF Landing
  <2> QED
    BY <2>1, <2>2, <2>3
<1>8. Record(h, b.next) = Record(h, m)
  <2>1. k + 1 > k /\ k + 1 \in DOMAIN order
    OBVIOUS
  <2> QED
    BY <1>5, <2>1 DEF BatchRest
<1>9. IsManifest(c.next) /\ c.next.id = m.id /\ h \in DOMAIN c.next.harness
  BY <1>1, <1>3
<1>10. \A g \in ToSet(order) : g # h /\ c.answer[g] = "ready" =>
         /\ g \in DOMAIN c.next.harness
         /\ c.next.harness[g].by = version
         /\ \A w \in ToSet(Writes[g]) : Landing(c, found, g, w, m)
  BY <1>7
<1> QED
  BY <1>0, <1>3, <1>4, <1>6, <1>8, <1>9, <1>10, Zenon DEF RecordKept

\* Each harness keeps the batch honest.
LEMMA AddKeeps ==
  ASSUME NEW found, NEW order, Order(order, found), NEW k \in Nat, k + 1 \in DOMAIN order,
         NEW version \in Nat, NEW m, IsManifest(m), NEW b,
         BatchIs(b, found, order, k, version, m)
  PROVE  BatchIs(Add(b, order[k + 1], found, version), found, order, k + 1, version, m)
<1> DEFINE h == order[k + 1]
           c == Add(b, h, found, version)
           plan == Prepared(found, h, version, Unattended, b.next)
           record == PlanRecord(plan, version)
           blocked == BlockedRecord(h, b.next, version)
<1>1. /\ IsManifest(b.next) /\ b.next.id = m.id /\ b.writes \in Seq(Written(found)) /\ b.verdict \in {"ready", "refused"}
      /\ b.answer \in [ToSet(order) -> {"ready", "review", "blocked"}]
  BY DEF BatchIs, BatchTyped
<1>2. h \in DOMAIN Writes /\ Found(found, h) /\ h \in ToSet(order)
  <2>1. h \in ToSet(order)
    BY DEF ToSet
  <2> QED
    BY <2>1 DEF Order
<1>3. /\ IsRecord(record)
      /\ plan.verdict = "ready" =>
           WritesOf(plan, found, h, version, b.next) /\ ClaimsOf(plan, found, b.next)
  <2> HIDE DEF h, plan
  <2> QED
    BY <1>1, <1>2, ReadyPlanIs DEF plan
<1>4. AddsTo(c, b, h, plan, version)
  <2> HIDE DEF h, plan, c, blocked
  <2> QED
    BY <1>1, <1>2, AddIs, Zenon DEF plan, c
<1> HIDE DEF c, plan, h
<1>5. h = order[k + 1] /\ order \in Seq(DOMAIN Writes)
  BY DEF h, Order
<1>6. CASE c = b /\ b.verdict = "refused"
  BY <1>1, <1>5, <1>6, RefusedKeeps DEF h, c
<1>7. CASE c = Decided("refused", b.next, b.writes, b.answer)
  <2>1. c.verdict = "refused" /\ c.next = b.next /\ c.writes = b.writes /\ c.answer = b.answer
    BY <1>7 DEF Decided
  <2> QED
    BY <1>5, <2>1, RefusedKeeps DEF h, c
<1>11. b.answer[h] = "review"
  <2>1. k + 1 > k
    OBVIOUS
  <2> QED
    BY <1>5, <2>1 DEF BatchIs, BatchRest
<1>8. CASE c = Decided("ready", b.next, b.writes, [b.answer EXCEPT ![h] = "review"])
  <2>2. [b.answer EXCEPT ![h] = "review"] = b.answer
    BY <1>1, <1>2, <1>11
  <2>3. c.verdict = "ready" /\ c.next = b.next /\ c.writes = b.writes /\ c.answer = b.answer
    BY <1>8, <2>2 DEF Decided
  <2> QED
    BY <1>5, <2>3, RefusedKeeps DEF h, c
<1>9. CASE c = Decided("ready", With(b.next, h, blocked), b.writes, [b.answer EXCEPT ![h] = "blocked"])
  <2> DEFINE word == "blocked"
  <2>1. /\ c.verdict = "ready" /\ c.next = With(b.next, h, blocked) /\ c.writes = b.writes
        /\ c.answer = [b.answer EXCEPT ![h] = word]
    <3> DEFINE ready == "ready"
               says == [b.answer EXCEPT ![h] = word]
               changed == With(b.next, h, blocked)
    <3>1. c = Decided(ready, changed, b.writes, says)
      BY <1>9
    <3> HIDE DEF ready, says, changed
    <3>2. c.verdict = ready /\ c.next = changed /\ c.writes = b.writes /\ c.answer = says
      BY <3>1, DecidedIs
    <3> QED
      BY <3>2 DEF ready, says, changed
  <2>2. IsRecord(blocked) /\ blocked.files = Record(h, b.next).files
    BY <1>1, BlockedRecordIs
  <2>3. word \in {"ready", "blocked"} /\ word # "ready"
    OBVIOUS
  <2> HIDE DEF word, blocked
  <2>4. RecordKept(c, b, found, order, k, version, m, h, blocked, word)
    <3>1. ToSet(b.writes) \subseteq ToSet(c.writes)
      BY <2>1
    <3> QED
      <4>1. Records(c, b, h, blocked, word)
        BY <2>1, <2>2, <2>3, <3>1 DEF Records
      <4> QED
        BY <1>5, <4>1, RecordsKeep
  <2> USE DEF RecordKept
  <2>5. BatchTyped(c, found, order, m)
    BY <1>1, <2>1, <2>4 DEF BatchTyped
  <2>6. BatchWrites(c, version, m)
    BY <2>1 DEF BatchIs, BatchWrites
  <2>7. BatchReady(c, found, order, version, m)
    BY <2>3, <2>4 DEF BatchReady
  <2>8. BatchClaims(c, found, m)
    <3> SUFFICES ASSUME NEW path, NEW digest, Claimed(c.next, path, digest)
                 PROVE  \/ Claimed(m, path, digest)
                        \/ \E v \in ToSet(c.writes) :
                             v.path = path /\ v.after = digest /\ (found[path] = Absent \/ digest # found[path])
      BY Zenon DEF BatchClaims
    <3>1. Claimed(b.next, path, digest)
      <4>1. Claimed(b.next, path, digest) \/ (path \in DOMAIN blocked.files /\ blocked.files[path] = digest)
        BY <1>1, <2>1, <2>2, ClaimsWith
      <4> QED
        BY <2>2, <4>1, OwnClaim
    <3> QED
      BY <2>1, <3>1 DEF BatchIs, BatchClaims
  <2>10. BatchFrom(c, order)
    <3>1. b.answer[h] = "review" /\ \A g \in ToSet(order) : g # h => c.answer[g] = b.answer[g]
      BY <1>1, <1>11, <2>1
    <3> QED
      BY <2>1, <3>1 DEF BatchIs, BatchFrom
  <2>9. BatchIs(c, found, order, k + 1, version, m)
    BY <2>4, <2>5, <2>6, <2>7, <2>8, <2>10 DEF BatchIs
  <2> QED
    BY <2>9 DEF h, c
<1>10. CASE plan.verdict = "ready" /\ Joins(c, b, h, plan, version)
  <2> DEFINE word == "ready"
  <2>1. /\ c.verdict = "ready" /\ c.next = With(b.next, h, record)
        /\ c.writes \in Seq(UNION {ToSet(b.writes), ToSet(plan.writes)})
        /\ ToSet(c.writes) = ToSet(b.writes) \cup ToSet(plan.writes)
        /\ \A w \in ToSet(b.writes), v \in ToSet(plan.writes) : w.path = v.path => w = v
        /\ c.answer = [b.answer EXCEPT ![h] = word]
    BY <1>10, Zenon DEF Joins
  <2>2. WritesOf(plan, found, h, version, b.next) /\ ClaimsOf(plan, found, b.next)
    BY <1>3, <1>10
  <2>3. word \in {"ready", "blocked"}
    OBVIOUS
  <2>4. record.by = version /\ record.files = plan.files
    BY DEF PlanRecord
  <2> HIDE DEF word, record
  <2>5. RecordKept(c, b, found, order, k, version, m, h, record, word)
    <3>1. ToSet(b.writes) \subseteq ToSet(c.writes)
      BY <2>1
    <3>2. IsRecord(record)
      BY <1>3
    <3> QED
      <4>1. Records(c, b, h, record, word)
        BY <2>1, <2>3, <3>1, <3>2 DEF Records
      <4> QED
        BY <1>5, <4>1, RecordsKeep
  <2> USE DEF RecordKept
  <2>6. BatchTyped(c, found, order, m)
    <3>1. ToSet(b.writes) \subseteq Written(found) /\ ToSet(plan.writes) \subseteq Written(found)
      BY <1>1, <2>2 DEF WritesOf, ToSet
    <3>2. c.writes \in Seq(Written(found))
      BY <2>1, <3>1
    <3> QED
      BY <2>1, <2>5, <3>2 DEF BatchTyped
  <2>7. BatchWrites(c, version, m)
    <3>1. ASSUME NEW v \in ToSet(c.writes)
          PROVE  /\ v.after.block = Rendered(v.path, version, m.id)
                 /\ \A w \in ToSet(c.writes) : w.path = v.path => w = v
      <4>1. CASE v \in ToSet(b.writes)
        BY <1>1, <2>1, <4>1 DEF BatchIs, BatchWrites
      <4>2. CASE v \in ToSet(plan.writes)
        BY <1>1, <2>1, <2>2, <4>2 DEF WritesOf
      <4> QED
        BY <2>1, <3>1, <4>1, <4>2
    <3> QED
      BY <3>1 DEF BatchWrites
  <2>8. BatchReady(c, found, order, version, m)
    <3>1. ASSUME NEW w \in ToSet(Writes[h])
          PROVE  Landing(c, found, h, w, m)
      <4>1. PICK v \in ToSet(plan.writes) : v.path = w.path
        BY <2>2 DEF WritesOf
      <4>2. RecordedAs(record, v) /\ (found[v.path] = Absent => record # Record(h, b.next))
        BY <2>2 DEF WritesOf, record
      <4> QED
        BY <2>1, <2>5, <4>1, <4>2 DEF Landing
    <3> QED
      BY <2>4, <2>5, <3>1 DEF BatchReady
  <2>9. BatchClaims(c, found, m)
    <3> SUFFICES ASSUME NEW path, NEW digest, Claimed(c.next, path, digest)
                 PROVE  \/ Claimed(m, path, digest)
                        \/ \E v \in ToSet(c.writes) :
                             v.path = path /\ v.after = digest /\ (found[path] = Absent \/ digest # found[path])
      BY Zenon DEF BatchClaims
    <3>1. Claimed(b.next, path, digest) \/ (path \in DOMAIN plan.files /\ plan.files[path] = digest)
      BY <1>1, <1>3, <2>1, <2>4, ClaimsWith
    <3>2. CASE Claimed(b.next, path, digest)
      BY <2>1, <3>2 DEF BatchIs, BatchClaims
    <3>3. CASE path \in DOMAIN plan.files /\ plan.files[path] = digest /\ ~Claimed(b.next, path, digest)
      BY <2>1, <2>2, <3>3 DEF ClaimsOf
    <3> QED
      BY <3>1, <3>2, <3>3
  <2>10. BatchFrom(c, order)
    <3>1. b.answer[h] = "review" /\ (\A g \in ToSet(order) : g # h => c.answer[g] = b.answer[g]) /\ c.answer[h] = "ready"
      BY <1>1, <1>2, <1>11, <2>1 DEF word
    <3>2. ASSUME NEW v \in ToSet(c.writes)
          PROVE  \E g \in ToSet(order) : c.answer[g] = "ready" /\ \E w \in ToSet(Writes[g]) : w.path = v.path
      <4>1. CASE v \in ToSet(b.writes)
        BY <3>1, <4>1 DEF BatchIs, BatchFrom
      <4>2. CASE v \in ToSet(plan.writes)
        <5>1. \E w \in ToSet(Writes[h]) : w.path = v.path
          BY <2>2, <4>2 DEF WritesOf
        <5> QED
          BY <1>2, <3>1, <5>1
      <4> QED
        BY <2>1, <4>1, <4>2
    <3> QED
      BY <3>2 DEF BatchFrom
  <2>11. BatchIs(c, found, order, k + 1, version, m)
    BY <2>5, <2>6, <2>7, <2>8, <2>9, <2>10 DEF BatchIs
  <2> QED
    BY <2>11 DEF h, c
<1> QED
  BY <1>4, <1>6, <1>7, <1>8, <1>9, <1>10, Zenon DEF AddsTo, blocked

\* What a batch starts from.
BatchStart(order, m) == Decided("ready", m, <<>>, [h \in ToSet(order) |-> "review"])

StepsOf(upto, found, order, version, m) ==
  upto = [k \in 0 .. Len(order) |->
            IF k = 0 THEN BatchStart(order, m) ELSE Add(upto[k - 1], order[k], found, version)]

(* A batch, one harness after another. *)
LEMMA BatchSteps ==
  ASSUME NEW found, NEW order, order \in Seq(DOMAIN Writes), NEW version, NEW m
  PROVE  \E upto : StepsOf(upto, found, order, version, m) /\ Batch(found, order, version, m) = upto[Len(order)]
<1> DEFINE Prolong(f, k) == IF k = 0 THEN BatchStart(order, m) ELSE Add(f[k - 1], order[k], found, version)
           Good == {n \in Nat : \E f : f = [k \in 0 .. n |-> Prolong(f, k)]}
           upto[k \in 0 .. Len(order)] ==
             IF k = 0 THEN BatchStart(order, m) ELSE Add(upto[k - 1], order[k], found, version)
<1>1. 0 \in Good
  <2> DEFINE f == [k \in 0 .. 0 |-> BatchStart(order, m)]
  <2>1. f = [k \in 0 .. 0 |-> Prolong(f, k)]
    OBVIOUS
  <2> QED
    BY <2>1
<1>2. ASSUME NEW n \in Nat, n \in Good PROVE n + 1 \in Good
  <2>1. PICK f : f = [k \in 0 .. n |-> Prolong(f, k)]
    BY <1>2
  <2> DEFINE g == [k \in 0 .. n + 1 |-> IF k = n + 1 THEN Prolong(f, n + 1) ELSE f[k]]
  <2>2. ASSUME NEW k \in 0 .. n + 1 PROVE g[k] = Prolong(g, k)
    <3>1. CASE k = 0
      <4>1. f[0] = Prolong(f, 0)
        BY <2>1
      <4> QED
        BY <3>1, <4>1
    <3>2. CASE k # 0
      <4>1. k - 1 \in 0 .. n /\ k - 1 # n + 1
        BY <3>2
      <4>2. g[k - 1] = f[k - 1]
        BY <4>1
      <4>3. g[k] = Prolong(f, k)
        <5>1. CASE k = n + 1
          BY <5>1
        <5>2. CASE k # n + 1
          <6>1. k \in 0 .. n
            BY <5>2
          <6>2. f[k] = Prolong(f, k)
            <7> HIDE DEF Prolong
            <7> QED
              BY <2>1, <6>1
          <6> QED
            BY <5>2, <6>2
        <5> QED
          BY <5>1, <5>2
      <4> HIDE DEF g
      <4> QED
        BY <3>2, <4>2, <4>3
    <3> QED
      BY <3>1, <3>2
  <2>3. g = [k \in 0 .. n + 1 |-> Prolong(g, k)]
    <3>1. g = [k \in 0 .. n + 1 |-> g[k]]
      OBVIOUS
    <3> HIDE DEF g, Prolong
    <3> QED
      BY <2>2, <3>1
  <2> HIDE DEF g, Prolong
  <2> QED
    BY <2>3
<1>3. Nat \subseteq Good
  <2> HIDE DEF Good
  <2> QED
    BY <1>1, <1>2, StepByStep
<1>4. \E f : f = [k \in 0 .. Len(order) |-> Prolong(f, k)]
  <2>1. Len(order) \in Nat
    OBVIOUS
  <2> QED
    BY <1>3, <2>1
<1>5. upto = [k \in 0 .. Len(order) |-> Prolong(upto, k)]
  BY <1>4
<1>7. StepsOf(upto, found, order, version, m)
  BY <1>5 DEF StepsOf
<1>6. Batch(found, order, version, m) = upto[Len(order)]
  BY DEF Batch, BatchStart
<1> HIDE DEF upto
<1> QED
  BY <1>6, <1>7


\* The batch before its first harness.
LEMMA BatchStarts ==
  ASSUME NEW found, NEW order, NEW version \in Nat, NEW m, IsManifest(m)
  PROVE  BatchIs(BatchStart(order, m), found, order, 0, version, m)
<1> DEFINE ready == "ready"
           review == "review"
           none == <<>>
           says == [h \in ToSet(order) |-> review]
           b == BatchStart(order, m)
<1>1. b = Decided(ready, m, none, says)
  BY DEF BatchStart
<1>2. ready \in {"ready", "refused"} /\ review = "review" /\ review # "ready"
  OBVIOUS
<1>3. none \in Seq(Written(found)) /\ ToSet(none) = {}
  BY DEF ToSet
<1>4. says \in [ToSet(order) -> {"ready", "review", "blocked"}] /\ \A h \in ToSet(order) : says[h] = review
  OBVIOUS
<1> HIDE DEF ready, none, says, b
<1>5. b.verdict = ready /\ b.next = m /\ b.writes = none /\ b.answer = says
  BY <1>1, DecidedIs
<1> HIDE DEF review
<1>6. BatchTyped(b, found, order, m)
  BY <1>2, <1>3, <1>4, <1>5 DEF BatchTyped
<1>7. BatchWrites(b, version, m)
  BY <1>3, <1>5 DEF BatchWrites
<1>11. BatchFrom(b, order)
  BY <1>3, <1>5 DEF BatchFrom
<1>8. BatchRest(b, order, 0, m)
  <2>1. \A j \in DOMAIN order : order[j] \in ToSet(order)
    BY DEF ToSet
  <2> QED
    BY <1>2, <1>4, <1>5, <2>1 DEF BatchRest
<1>9. BatchReady(b, found, order, version, m)
  BY <1>2, <1>4, <1>5 DEF BatchReady
<1>10. BatchClaims(b, found, m)
  BY <1>5, Zenon DEF BatchClaims
<1> QED
  BY <1>6, <1>7, <1>8, <1>9, <1>10, <1>11 DEF BatchIs, b

\* The whole batch, by induction over the order of the harnesses.
LEMMA BatchComes ==
  ASSUME NEW found, NEW order, Order(order, found), NEW version \in Nat, NEW m, IsManifest(m)
  PROVE  BatchIs(Batch(found, order, version, m), found, order, Len(order), version, m)
<1>1. order \in Seq(DOMAIN Writes)
  BY DEF Order
<1>2. PICK upto : StepsOf(upto, found, order, version, m) /\ Batch(found, order, version, m) = upto[Len(order)]
  BY <1>1, BatchSteps
<1> DEFINE Good == {n \in Nat : n <= Len(order) => BatchIs(upto[n], found, order, n, version, m)}
<1>3. 0 \in Good
  <2>1. upto[0] = BatchStart(order, m)
    BY <1>1, <1>2 DEF StepsOf
  <2> QED
    BY <2>1, BatchStarts
<1>4. ASSUME NEW n \in Nat, n \in Good PROVE n + 1 \in Good
  <2> SUFFICES ASSUME n + 1 <= Len(order)
               PROVE  BatchIs(upto[n + 1], found, order, n + 1, version, m)
    OBVIOUS
  <2>1. n + 1 \in 0 .. Len(order) /\ n + 1 # 0 /\ (n + 1) - 1 = n /\ n <= Len(order) /\ n + 1 \in DOMAIN order
    BY <1>1
  <2>2. upto[n + 1] = Add(upto[n], order[n + 1], found, version)
    BY <1>2, <2>1 DEF StepsOf
  <2>3. BatchIs(upto[n], found, order, n, version, m)
    BY <1>4, <2>1
  <2> QED
    BY <2>1, <2>2, <2>3, AddKeeps
<1>5. Nat \subseteq Good
  <2> HIDE DEF Good
  <2> QED
    BY <1>3, <1>4, StepByStep
<1>6. Len(order) \in Nat
  BY <1>1
<1>7. Len(order) \in Good
  BY <1>5, <1>6
<1>8. BatchIs(upto[Len(order)], found, order, Len(order), version, m)
  BY <1>6, <1>7
<1>9. Batch(found, order, version, m) = upto[Len(order)]
  BY <1>2
<1> HIDE DEF Good
<1> QED
  BY <1>8, <1>9

----
(* What the commands decide. *)

InitOf(d, b, found, m, there) ==
  \/ d = Decided("refused", b.next, b.writes, b.answer)
  \/ /\ there /\ b.verdict = "ready" /\ ~Mutates(found, b.writes) /\ b.next # m
     /\ d = Decided("answer", b.next, b.writes, Answers(b, m))
  \/ /\ there /\ b.verdict = "ready" /\ ~Mutates(found, b.writes) /\ b.next = m /\ Changes(found, b.writes) = <<>>
     /\ d = Decided("answer", b.next, b.writes, b.answer)
  \/ /\ b.verdict = "ready" /\ ~Mutates(found, b.writes)
     /\ there => b.next = m /\ Changes(found, b.writes) # <<>>
     /\ d = Decided("commit", b.next, b.writes, b.answer)

\* What init decides about its batch.
LEMMA InitComes ==
  ASSUME NEW found, NEW order, NEW version, NEW m, NEW there,
         NEW b, b = Batch(found, order, version, m), b.verdict \in {"ready", "refused"},
         NEW d, d = DecideInit(found, order, version, m, there)
  PROVE  InitOf(d, b, found, m, there)
<1> DEFINE Decides(x) ==
             CASE x.verdict = "refused" \/ Mutates(found, x.writes) -> Decided("refused", x.next, x.writes, x.answer)
               [] OTHER ->
                    CASE there /\ x.next # m -> Decided("answer", x.next, x.writes, Answers(x, m))
                      [] there /\ x.next = m /\ Changes(found, x.writes) = <<>> ->
                           Decided("answer", x.next, x.writes, x.answer)
                      [] OTHER -> Decided("commit", x.next, x.writes, x.answer)
<1>1. d = Decides(Batch(found, order, version, m))
  BY Zenon DEF DecideInit, Concluded
<1>2. d = Decides(b)
  <2> HIDE DEF Decides
  <2> QED
    BY <1>1
<1> DEFINE refused == Decided("refused", b.next, b.writes, b.answer)
           reviewed == Decided("answer", b.next, b.writes, Answers(b, m))
           answered == Decided("answer", b.next, b.writes, b.answer)
           commit == Decided("commit", b.next, b.writes, b.answer)
           empty == Changes(found, b.writes) = <<>>
<1> HIDE DEF refused, reviewed, answered, commit, empty
<1>3. \/ d = refused
      \/ there /\ b.verdict = "ready" /\ ~Mutates(found, b.writes) /\ b.next # m /\ d = reviewed
      \/ there /\ b.verdict = "ready" /\ ~Mutates(found, b.writes) /\ b.next = m /\ empty /\ d = answered
      \/ b.verdict = "ready" /\ ~Mutates(found, b.writes) /\ (there => b.next = m /\ ~empty) /\ d = commit
  <2>1. d = CASE b.verdict = "refused" \/ Mutates(found, b.writes) -> refused
               [] OTHER ->
                    CASE there /\ b.next # m -> reviewed
                      [] there /\ b.next = m /\ empty -> answered
                      [] OTHER -> commit
    BY <1>2, Zenon DEF refused, reviewed, answered, commit, empty
  <2> HIDE DEF Decides
  <2> QED
    BY <2>1
<1> QED
  BY <1>3, Zenon DEF InitOf, refused, reviewed, answered, commit, empty

ActivateOf(d, plan, found, h, version, m, there) ==
  \/ d.verdict = "refused"
  \/ d.verdict = "answer" /\ d.answer = [g \in {h} |-> "review"]
  \/ /\ Writes[h] # <<>> /\ plan.verdict = "ready" /\ ~Mutates(found, plan.writes)
     /\ With(m, h, PlanRecord(plan, version)) = m /\ Changes(found, plan.writes) = <<>>
     /\ d = Decided("answer", m, plan.writes, [g \in {h} |-> "ready"])
  \/ /\ Writes[h] # <<>> /\ plan.verdict = "ready" /\ ~Mutates(found, plan.writes)
     /\ there => With(m, h, PlanRecord(plan, version)) = m /\ Changes(found, plan.writes) # <<>>
     /\ d = Decided("commit", With(m, h, PlanRecord(plan, version)), plan.writes, [g \in {h} |-> "ready"])
  \/ /\ Writes[h] = <<>> /\ plan.verdict = "ready"
     /\ there => With(m, h, BlockedRecord(h, m, version)) = m
     /\ d = Decided("commit", With(m, h, BlockedRecord(h, m, version)), plan.writes, [g \in {h} |-> "blocked"])

\* What activate decides about its plan.
LEMMA ActivateComes ==
  ASSUME NEW found, NEW h, NEW version, NEW accept, NEW m, NEW there \in BOOLEAN,
         NEW plan, plan = Prepared(found, h, version, accept, m), plan.verdict \in {"ready", "review", "refused"},
         NEW d, d = DecideActivate(found, h, version, accept, m, there)
  PROVE  ActivateOf(d, plan, found, h, version, m, there)
<1> DEFINE says(word) == [g \in {h} |-> word]
           blocked == Writes[h] = <<>>
           asBlocked == With(m, h, BlockedRecord(h, m, version))
           Changed(x) == With(m, h, IF blocked THEN BlockedRecord(h, m, version) ELSE PlanRecord(x, version))
           word == IF blocked THEN "blocked" ELSE "ready"
           Decides(x) ==
             CASE x.verdict = "refused" -> Decided("refused", Changed(x), x.writes, says("review"))
               [] x.verdict # "refused" /\ (x.verdict = "review" \/ Mutates(found, x.writes)
                                                     \/ (there /\ Changed(x) # m)) ->
                    Decided("answer", Changed(x), x.writes, says("review"))
               [] OTHER -> IF ~blocked /\ Changes(found, x.writes) = <<>> /\ Changed(x) = m
                           THEN Decided("answer", Changed(x), x.writes, says(word))
                           ELSE Decided("commit", Changed(x), x.writes, says(word))
<1>1. d = Decides(Prepared(found, h, version, accept, m))
  BY Zenon DEF DecideActivate
<1>2. d = Decides(plan)
  <2> HIDE DEF Decides
  <2> QED
    BY <1>1
<1> DEFINE asReady == With(m, h, PlanRecord(plan, version))
           changed == Changed(plan)
           empty == Changes(found, plan.writes) = <<>>
           mutates == Mutates(found, plan.writes)
           refused == Decided("refused", changed, plan.writes, says("review"))
           reviewed == Decided("answer", changed, plan.writes, says("review"))
           answered == Decided("answer", changed, plan.writes, says(word))
           commit == Decided("commit", changed, plan.writes, says(word))
<1>3. changed = IF blocked THEN asBlocked ELSE asReady
  BY Zenon
<1>4. refused.verdict = "refused" /\ reviewed.verdict = "answer" /\ reviewed.answer = says("review")
  BY DEF Decided
<1>5. d = CASE plan.verdict = "refused" -> refused
               [] plan.verdict # "refused" /\ (plan.verdict = "review" \/ mutates \/ (there /\ changed # m)) -> reviewed
               [] OTHER -> IF ~blocked /\ empty /\ changed = m THEN answered ELSE commit
  BY <1>2, Zenon
<1> HIDE DEF changed, refused, reviewed, answered, commit, empty, mutates, Decides
<1>6. \/ d = refused
      \/ d = reviewed
      \/ plan.verdict = "ready" /\ ~mutates /\ ~blocked /\ empty /\ changed = m /\ d = answered
      \/ plan.verdict = "ready" /\ ~mutates /\ (there => changed = m) /\ (blocked \/ ~empty \/ changed # m) /\ d = commit
  <2> HIDE DEF blocked
  <2> QED
    BY <1>5
<1>7. CASE plan.verdict = "ready" /\ ~mutates /\ ~blocked /\ empty /\ changed = m /\ d = answered
  <2>1. changed = asReady
    BY <1>3, <1>7
  <2>2. word = "ready"
    BY <1>7
  <2>3. d = Decided("answer", changed, plan.writes, says("ready"))
    BY <1>7, <2>2, Zenon DEF answered
  <2>4. d = Decided("answer", m, plan.writes, says("ready"))
    BY <1>7, <2>3
  <2> QED
    BY <1>7, <2>1, <2>4, Zenon DEF ActivateOf, empty, mutates
<1>8. CASE plan.verdict = "ready" /\ ~mutates /\ (there => changed = m) /\ (~empty \/ changed # m) /\ d = commit /\ ~blocked
  <2>1. changed = asReady
    BY <1>3, <1>8
  <2>2. word = "ready"
    BY <1>8
  <2>3. d = Decided("commit", changed, plan.writes, says("ready"))
    BY <1>8, <2>2, Zenon DEF commit
  <2>4. d = Decided("commit", asReady, plan.writes, says("ready"))
    BY <2>1, <2>3
  <2>5. there => asReady = m /\ ~empty
    BY <1>8, <2>1
  <2> QED
    BY <1>8, <2>4, <2>5, Zenon DEF ActivateOf, empty, mutates
<1>9. CASE plan.verdict = "ready" /\ (there => changed = m) /\ d = commit /\ blocked
  <2>1. changed = asBlocked
    BY <1>3, <1>9
  <2>2. word = "blocked"
    BY <1>9
  <2>3. d = Decided("commit", changed, plan.writes, says("blocked"))
    BY <1>9, <2>2, Zenon DEF commit
  <2>4. d = Decided("commit", asBlocked, plan.writes, says("blocked"))
    BY <2>1, <2>3
  <2> QED
    BY <1>9, <2>1, <2>4, Zenon DEF ActivateOf
<1>10. CASE d = refused
  BY <1>4, <1>10, Zenon DEF ActivateOf
<1>11. CASE d = reviewed
  BY <1>4, <1>11, Zenon DEF ActivateOf
<1> QED
  BY <1>6, <1>7, <1>8, <1>9, <1>10, <1>11

DeactivateOf(d, h, version, m, there) ==
  \/ d.verdict = "answer"
  \/ \E kept :
       /\ IsRecord(kept)
       /\ \A path \in DOMAIN kept.files : path \in DOMAIN Record(h, m).files /\ kept.files[path] = Record(h, m).files[path]
       /\ h \in DOMAIN m.harness
       /\ there => With(m, h, kept) = m
       /\ d.verdict = "commit" /\ d.next = With(m, h, kept) /\ d.writes = <<>>

\* What deactivate decides about the record.
LEMMA DeactivateComes ==
  ASSUME NEW found, NEW h, NEW version \in Nat, NEW m, IsManifest(m), NEW there \in BOOLEAN,
         NEW d, d = DecideDeactivate(found, h, version, m, there)
  PROVE  DeactivateOf(d, h, version, m, there)
<1> DEFINE old == Record(h, m)
           here(path) == found[path] # Absent
           same(path) == here(path) /\ found[path] = old.files[path]
           shared(path) == same(path) /\ old.files[path] \in OtherOwners(h, path, m)
           settings(path) == \E w \in ToSet(Writes[h]) : w.path = path /\ w.kind = "settings"
           block(path) == /\ here(path) /\ found[path].block = old.blocks[path]
                          /\ settings(path) => old.blocks[path].by = version
           files == [path \in {q \in DOMAIN old.files : here(q) /\ ~same(q)} |-> old.files[path]]
           blocks == [path \in {q \in DOMAIN old.blocks : here(q) /\ ~block(q)} |-> old.blocks[path]]
           kept == [files |-> files, blocks |-> blocks, by |-> version]
           removals == \/ \E path \in DOMAIN old.files : same(path) /\ ~shared(path)
                       \/ \E path \in DOMAIN old.blocks : block(path)
           none == <<>>
           changed == With(m, h, kept)
           word == IF kept.files = <<>> /\ kept.blocks = <<>> THEN "none" ELSE "review"
           says(w) == [g \in {h} |-> w]
           gone == Decided("answer", changed, none, says("none"))
           reviewed == Decided("answer", changed, none, says("review"))
           commit == Decided("commit", changed, none, says(word))
<1>1. d = CASE h \notin DOMAIN m.harness -> gone
            [] h \in DOMAIN m.harness /\ (removals \/ (there /\ changed # m)) -> reviewed
            [] OTHER -> commit
  BY Zenon DEF DecideDeactivate
<1>2. gone.verdict = "answer" /\ reviewed.verdict = "answer"
  BY DEF Decided
<1>3. commit.verdict = "commit" /\ commit.next = changed /\ commit.writes = none
  <2> DEFINE how == "commit"
             what == says(word)
  <2>1. commit = Decided(how, changed, none, what)
    OBVIOUS
  <2> HIDE DEF how, what, changed, none, commit
  <2>2. commit.verdict = how /\ commit.next = changed /\ commit.writes = none
    BY <2>1, DecidedIs
  <2> QED
    BY <2>2 DEF how
<1>4. IsRecord(kept)
  <2>1. IsRecord(old)
    BY RecordIs
  <2>2. IsDigests(files, Content) /\ IsDigests(blocks, Blocks)
    <3> HIDE DEF old, same, here, block
    <3> QED
      BY <2>1 DEF IsRecord, IsDigests
  <2> HIDE DEF files, blocks
  <2> QED
    BY <2>2 DEF IsRecord
<1>5. \A path \in DOMAIN kept.files : path \in DOMAIN old.files /\ kept.files[path] = old.files[path]
  <2>1. kept.files = files
    OBVIOUS
  <2>2. \A path \in DOMAIN files : path \in DOMAIN old.files /\ files[path] = old.files[path]
    OBVIOUS
  <2> HIDE DEF files, kept
  <2> QED
    BY <2>1, <2>2
<1> HIDE DEF kept, changed, gone, reviewed, commit, removals, old
<1>6. d = gone \/ d = reviewed \/ (h \in DOMAIN m.harness /\ (there => changed = m) /\ d = commit)
  BY <1>1
<1>7. CASE d = gone \/ d = reviewed
  BY <1>2, <1>7, Zenon DEF DeactivateOf
<1>8. CASE h \in DOMAIN m.harness /\ (there => changed = m) /\ d = commit
  <2>1. d.verdict = "commit" /\ d.next = With(m, h, kept) /\ d.writes = <<>>
    BY <1>3, <1>8 DEF changed
  <2>2. there => With(m, h, kept) = m
    BY <1>8 DEF changed
  <2> QED
    BY <1>4, <1>5, <1>8, <2>1, <2>2, Zenon DEF DeactivateOf, old
<1> QED
  BY <1>6, <1>7, <1>8

----
(* What is committed: a manifest that claims what was claimed or what is   *)
(* to be written, and writes of files that are not there.  With a manifest *)
(* there is nothing to write, and it stays.                                *)
CommitOf(d, found, version, m, there, harnesses) ==
  /\ IsManifest(d.next) /\ d.next.id = m.id
  /\ DOMAIN d.next.harness \subseteq DOMAIN m.harness \cup harnesses
  /\ d.writes \in Seq(Written(found))
  /\ \A v \in ToSet(d.writes) :
       /\ v.after.block = Rendered(v.path, version, m.id)
       /\ v.after = found[v.path] \/ found[v.path] = Absent
       /\ \A w \in ToSet(d.writes) : w.path = v.path => w = v
  /\ \A path, digest : Claimed(d.next, path, digest) =>
       \/ Claimed(m, path, digest)
       \/ \E v \in ToSet(d.writes) : v.path = path /\ v.after = digest /\ found[path] = Absent
  /\ there => d.next = m /\ Changes(found, d.writes) = <<>>

\* What is ready is recorded, with all of its writes.
ReadyIn(d, record, version, h) ==
  /\ record.by = version
  /\ \A w \in ToSet(Writes[h]) : \E v \in ToSet(d.writes) : v.path = w.path /\ RecordedAs(record, v)

\* What an answer says is ready is recorded, and there.
AnswerOf(d, found, version, m) ==
  \A h \in DOMAIN d.answer : d.answer[h] = "ready" =>
    /\ h \in DOMAIN m.harness /\ ReadyIn(d, m.harness[h], version, h)
    /\ \A v \in ToSet(d.writes) : (\E w \in ToSet(Writes[h]) : w.path = v.path) => v.after = found[v.path] /\ v.after # Absent

AllReady(d, version) ==
  \A h \in DOMAIN d.answer : d.answer[h] = "ready" =>
    h \in DOMAIN d.next.harness /\ ReadyIn(d, d.next.harness[h], version, h)

\* init commits only a first manifest, and only what is recorded; with a manifest it answers.
LEMMA InitDecides ==
  ASSUME NEW found, NEW order, Order(order, found), NEW version \in Nat \ {0}, NEW m, IsManifest(m),
         NEW there \in BOOLEAN, NEW d, d = DecideInit(found, order, version, m, there)
  PROVE  /\ d.verdict \in {"refused", "answer", "commit"}
         /\ d.verdict = "commit" => ~there /\ CommitOf(d, found, version, m, there, ToSet(order)) /\ AllReady(d, version)
         /\ d.verdict = "answer" => there /\ AnswerOf(d, found, version, m)
<1> DEFINE b == Batch(found, order, version, m)
<1>1. BatchIs(b, found, order, Len(order), version, m)
  BY BatchComes
<1> HIDE DEF b
<1>2. InitOf(d, b, found, m, there)
  <2>1. b.verdict \in {"ready", "refused"}
    BY <1>1 DEF BatchIs, BatchTyped
  <2> QED
    BY <2>1, InitComes DEF b
<1>3. /\ IsManifest(b.next) /\ b.next.id = m.id
      /\ b.writes \in Seq(Written(found)) /\ ToSet(b.writes) \subseteq Written(found)
      /\ DOMAIN b.answer = ToSet(order)
      /\ DOMAIN b.next.harness \subseteq DOMAIN m.harness \cup ToSet(order)
  BY <1>1 DEF BatchIs, BatchTyped, BatchRest, ToSet
<1>4. ASSUME NEW h \in ToSet(order), b.answer[h] = "ready"
      PROVE  h \in DOMAIN b.next.harness /\ ReadyIn(b, b.next.harness[h], version, h)
  BY <1>1, <1>4, Zenon DEF BatchIs, BatchReady, Landing, ReadyIn
\* What is created is recorded for the first time.
<1>5. ASSUME NEW v \in ToSet(b.writes), found[v.path] = Absent, NEW h \in ToSet(order), b.answer[h] = "ready",
             NEW w \in ToSet(Writes[h]), w.path = v.path
      PROVE  h \in DOMAIN b.next.harness /\ b.next.harness[h] # Record(h, m)
  <2>1. h \in DOMAIN b.next.harness /\ Landing(b, found, h, w, m)
    BY <1>1, <1>5 DEF BatchIs, BatchReady
  <2>2. PICK u \in ToSet(b.writes) : u.path = w.path /\ (found[u.path] = Absent => b.next.harness[h] # Record(h, m))
    BY <2>1 DEF Landing
  <2> QED
    BY <1>5, <2>1, <2>2
<1>6. ASSUME NEW v \in ToSet(b.writes), found[v.path] = Absent
      PROVE  b.next # m
  <2>1. PICK h \in ToSet(order) : b.answer[h] = "ready" /\ \E w \in ToSet(Writes[h]) : w.path = v.path
    BY <1>1 DEF BatchIs, BatchFrom
  <2>2. h \in DOMAIN b.next.harness /\ b.next.harness[h] # Record(h, m)
    BY <1>5, <1>6, <2>1
  <2> QED
    BY <2>2 DEF Record
<1>7. ASSUME ~Mutates(found, b.writes), NEW v \in ToSet(b.writes)
      PROVE  v.after # Absent /\ (v.after = found[v.path] \/ found[v.path] = Absent)
  BY <1>3, <1>7, PlainWrites
<1>8. CASE d = Decided("refused", b.next, b.writes, b.answer)
  <2>1. d.verdict = "refused"
    BY <1>8 DEF Decided
  <2> QED
    BY <2>1
<1>9. CASE /\ b.verdict = "ready" /\ ~Mutates(found, b.writes)
           /\ there => b.next = m /\ Changes(found, b.writes) # <<>>
           /\ d = Decided("commit", b.next, b.writes, b.answer)
  <2>1. d.verdict = "commit" /\ d.next = b.next /\ d.writes = b.writes /\ d.answer = b.answer
    BY <1>9 DEF Decided
  <2>2. ~there
    <3> SUFFICES ASSUME there PROVE FALSE
      OBVIOUS
    <3>1. PICK v \in ToSet(b.writes) : v.after # found[v.path]
      BY <1>3, <1>9, ChangesAre
    <3>2. found[v.path] = Absent
      BY <1>7, <1>9, <3>1
    <3> QED
      BY <1>6, <1>9, <3>2
  <2>3. CommitOf(d, found, version, m, there, ToSet(order))
    <3>1. ASSUME NEW v \in ToSet(d.writes)
          PROVE  /\ v.after.block = Rendered(v.path, version, m.id)
                 /\ v.after = found[v.path] \/ found[v.path] = Absent
                 /\ \A w \in ToSet(d.writes) : w.path = v.path => w = v
      BY <1>1, <1>7, <1>9, <2>1 DEF BatchIs, BatchWrites
    <3>2. ASSUME NEW path, NEW digest, Claimed(d.next, path, digest)
          PROVE  \/ Claimed(m, path, digest)
                 \/ \E v \in ToSet(d.writes) : v.path = path /\ v.after = digest /\ found[path] = Absent
      <4>1. CASE Claimed(m, path, digest)
        BY <4>1
      <4>2. CASE ~Claimed(m, path, digest)
        <5>1. PICK v \in ToSet(b.writes) :
                     v.path = path /\ v.after = digest /\ (found[path] = Absent \/ digest # found[path])
          BY <1>1, <2>1, <3>2, <4>2 DEF BatchIs, BatchClaims
        <5> QED
          BY <1>7, <1>9, <2>1, <5>1
      <4> QED
        BY <4>1, <4>2
    <3> QED
      BY <1>3, <2>1, <2>2, <3>1, <3>2, Zenon DEF CommitOf
  <2>4. AllReady(d, version)
    <3>1. ASSUME NEW h \in DOMAIN d.answer, d.answer[h] = "ready"
          PROVE  h \in DOMAIN d.next.harness /\ ReadyIn(d, d.next.harness[h], version, h)
      BY <1>3, <1>4, <2>1, <3>1 DEF ReadyIn
    <3> QED
      BY <3>1 DEF AllReady
  <2> QED
    BY <2>1, <2>2, <2>3, <2>4
<1>10. CASE /\ there /\ b.verdict = "ready" /\ ~Mutates(found, b.writes)
            /\ \/ d = Decided("answer", b.next, b.writes, Answers(b, m))
               \/ b.next = m /\ d = Decided("answer", b.next, b.writes, b.answer)
  <2>1. d.verdict = "answer" /\ d.writes = b.writes
        /\ (d.answer = Answers(b, m) \/ (b.next = m /\ d.answer = b.answer))
    <3> DEFINE how == "answer"
               reviewed == Answers(b, m)
    <3>1. d = Decided(how, b.next, b.writes, reviewed) \/ (b.next = m /\ d = Decided(how, b.next, b.writes, b.answer))
      BY <1>10
    <3> HIDE DEF how, reviewed
    <3>2. d.verdict = how /\ d.writes = b.writes /\ (d.answer = reviewed \/ (b.next = m /\ d.answer = b.answer))
      BY <3>1, DecidedIs
    <3> QED
      BY <3>2 DEF how, reviewed
  <2>2. ASSUME NEW h \in DOMAIN d.answer, d.answer[h] = "ready"
        PROVE  h \in ToSet(order) /\ b.answer[h] = "ready" /\ Record(h, m) = Record(h, b.next)
    BY <1>3, <2>1, <2>2 DEF Answers
  <2>3. ASSUME NEW h \in DOMAIN d.answer, d.answer[h] = "ready"
        PROVE  /\ h \in DOMAIN m.harness /\ m.harness[h] = b.next.harness[h] /\ ReadyIn(d, m.harness[h], version, h)
               /\ \A v \in ToSet(d.writes) : (\E w \in ToSet(Writes[h]) : w.path = v.path) =>
                    v.after = found[v.path] /\ v.after # Absent
    <3>1. h \in ToSet(order) /\ h \in DOMAIN b.next.harness /\ ReadyIn(b, b.next.harness[h], version, h)
      BY <1>4, <2>2, <2>3
    <3>2. Record(h, m) = b.next.harness[h] /\ b.next.harness[h].by = version
      BY <2>2, <2>3, <3>1 DEF Record, ReadyIn
    <3>3. h \in DOMAIN m.harness
      BY <3>2 DEF Record, NoRecord
    <3>4. m.harness[h] = b.next.harness[h]
      BY <3>2, <3>3 DEF Record
    <3>5. ASSUME NEW v \in ToSet(d.writes), NEW w \in ToSet(Writes[h]), w.path = v.path
          PROVE  v.after = found[v.path] /\ v.after # Absent
      <4>1. v.after # Absent /\ (v.after = found[v.path] \/ found[v.path] = Absent)
        BY <1>7, <1>10, <2>1
      <4>2. found[v.path] # Absent
        BY <1>5, <2>1, <2>2, <2>3, <3>2, <3>5
      <4> QED
        BY <4>1, <4>2
    <3>6. ReadyIn(d, m.harness[h], version, h)
      BY <2>1, <3>1, <3>4 DEF ReadyIn
    <3> QED
      BY <3>3, <3>4, <3>5, <3>6
  <2>4. AnswerOf(d, found, version, m)
    BY <2>3 DEF AnswerOf
  <2> QED
    BY <1>10, <2>1, <2>4
<1> QED
  BY <1>2, <1>8, <1>9, <1>10, Zenon DEF InitOf

\* activate commits only what is recorded, and answers ready only for what is in place.
LEMMA ActivateDecides ==
  ASSUME NEW found, NEW h \in DOMAIN Writes, Found(found, h), NEW version \in Nat \ {0}, NEW m, IsManifest(m),
         NEW accept, NEW there \in BOOLEAN, NEW d, d = DecideActivate(found, h, version, accept, m, there)
  PROVE  /\ d.verdict \in {"refused", "answer", "commit"}
         /\ d.verdict = "commit" =>
              /\ CommitOf(d, found, version, m, there, {h}) /\ AllReady(d, version)
              /\ there => \A g \in DOMAIN d.answer : d.answer[g] # "ready"
         /\ d.verdict = "answer" => AnswerOf(d, found, version, m)
<1> DEFINE plan == Prepared(found, h, version, accept, m)
           asReady == With(m, h, PlanRecord(plan, version))
           asBlocked == With(m, h, BlockedRecord(h, m, version))
<1>1. /\ IsRecord(PlanRecord(plan, version))
      /\ plan.verdict \in {"ready", "review", "refused"}
      /\ plan.verdict = "ready" => WritesOf(plan, found, h, version, m) /\ ClaimsOf(plan, found, m)
  BY ReadyPlanIs
<1> HIDE DEF plan
<1>2. ActivateOf(d, plan, found, h, version, m, there)
  BY <1>1, ActivateComes DEF plan
<1>3. plan.verdict = "ready" => plan.writes \in Seq(Written(found)) /\ ToSet(plan.writes) \subseteq Written(found)
  BY <1>1 DEF WritesOf, ToSet
<1>4. ASSUME plan.verdict = "ready", ~Mutates(found, plan.writes), NEW v \in ToSet(plan.writes)
      PROVE  v.after # Absent /\ (v.after = found[v.path] \/ found[v.path] = Absent)
  BY <1>3, <1>4, PlainWrites
<1>5. /\ IsManifest(asReady) /\ asReady.id = m.id /\ DOMAIN asReady.harness = DOMAIN m.harness \cup {h}
      /\ asReady.harness[h] = PlanRecord(plan, version)
      /\ asReady = m => h \in DOMAIN m.harness /\ Record(h, m) = PlanRecord(plan, version)
  BY <1>1, WithIs
<1>6. PlanRecord(plan, version).by = version /\ PlanRecord(plan, version).files = plan.files
  BY DEF PlanRecord
<1> HIDE DEF asReady
<1>7. ASSUME plan.verdict = "ready", d.writes = plan.writes
      PROVE  ReadyIn(d, PlanRecord(plan, version), version, h)
  BY <1>1, <1>6, <1>7, Zenon DEF WritesOf, ReadyIn
<1>8. CASE d.verdict = "refused"
  BY <1>8
<1>9. CASE d.verdict = "answer" /\ d.answer = [g \in {h} |-> "review"]
  <2>1. AnswerOf(d, found, version, m)
    BY <1>9 DEF AnswerOf
  <2> QED
    BY <1>9, <2>1
<1>10. CASE /\ plan.verdict = "ready" /\ ~Mutates(found, plan.writes)
            /\ asReady = m /\ Changes(found, plan.writes) = <<>>
            /\ d = Decided("answer", m, plan.writes, [g \in {h} |-> "ready"])
  <2>1. d.verdict = "answer" /\ d.writes = plan.writes /\ d.answer = [g \in {h} |-> "ready"]
    <3> DEFINE how == "answer"
               says == [g \in {h} |-> "ready"]
    <3>1. d = Decided(how, m, plan.writes, says)
      BY <1>10
    <3> HIDE DEF how, says
    <3>2. d.verdict = how /\ d.writes = plan.writes /\ d.answer = says
      BY <3>1, DecidedIs
    <3> QED
      BY <3>2 DEF how, says
  <2>2. ReadyIn(d, PlanRecord(plan, version), version, h)
    BY <1>7, <1>10, <2>1
  <2>3. h \in DOMAIN m.harness /\ m.harness[h] = PlanRecord(plan, version)
    BY <1>5, <1>10 DEF Record
  <2>4. \A v \in ToSet(d.writes) : v.after = found[v.path] /\ v.after # Absent
    BY <1>3, <1>4, <1>10, <2>1, ChangesAre
  <2>5. DOMAIN d.answer = {h}
    BY <2>1
  <2>6. AnswerOf(d, found, version, m)
    BY <2>2, <2>3, <2>4, <2>5 DEF AnswerOf
  <2> QED
    BY <2>1, <2>6
<1>11. CASE /\ Writes[h] # <<>> /\ plan.verdict = "ready" /\ ~Mutates(found, plan.writes)
            /\ there => asReady = m /\ Changes(found, plan.writes) # <<>>
            /\ d = Decided("commit", asReady, plan.writes, [g \in {h} |-> "ready"])
  <2>1. d.verdict = "commit" /\ d.next = asReady /\ d.writes = plan.writes /\ d.answer = [g \in {h} |-> "ready"]
    <3> DEFINE how == "commit"
               says == [g \in {h} |-> "ready"]
    <3>1. d = Decided(how, asReady, plan.writes, says)
      BY <1>11
    <3> HIDE DEF how, says
    <3>2. d.verdict = how /\ d.next = asReady /\ d.writes = plan.writes /\ d.answer = says
      BY <3>1, DecidedIs
    <3> QED
      BY <3>2 DEF how, says
  <2>2. ~there
    <3> SUFFICES ASSUME there PROVE FALSE
      OBVIOUS
    <3>1. asReady = m /\ Changes(found, plan.writes) # <<>>
      BY <1>11
    <3>2. PICK v \in ToSet(plan.writes) : v.after # found[v.path]
      BY <1>3, <1>11, <3>1, ChangesAre
    <3>3. found[v.path] = Absent
      BY <1>4, <1>11, <3>2
    <3>4. PlanRecord(plan, version) # Record(h, m)
      BY <1>1, <1>11, <3>2, <3>3 DEF WritesOf
    <3> QED
      BY <1>5, <3>1, <3>4
  <2>3. CommitOf(d, found, version, m, there, {h})
    <3>1. ASSUME NEW v \in ToSet(d.writes)
          PROVE  /\ v.after.block = Rendered(v.path, version, m.id)
                 /\ v.after = found[v.path] \/ found[v.path] = Absent
                 /\ \A w \in ToSet(d.writes) : w.path = v.path => w = v
      BY <1>1, <1>4, <1>11, <2>1 DEF WritesOf
    <3>2. ASSUME NEW path, NEW digest, Claimed(d.next, path, digest)
          PROVE  \/ Claimed(m, path, digest)
                 \/ \E v \in ToSet(d.writes) : v.path = path /\ v.after = digest /\ found[path] = Absent
      <4>1. Claimed(m, path, digest) \/ (path \in DOMAIN plan.files /\ plan.files[path] = digest)
        BY <1>1, <1>6, <2>1, <3>2, ClaimsWith DEF asReady
      <4>2. CASE Claimed(m, path, digest)
        BY <4>2
      <4>3. CASE path \in DOMAIN plan.files /\ plan.files[path] = digest /\ ~Claimed(m, path, digest)
        <5>1. PICK v \in ToSet(plan.writes) :
                     v.path = path /\ v.after = digest /\ (found[path] = Absent \/ digest # found[path])
          BY <1>1, <1>11, <4>3 DEF ClaimsOf
        <5> QED
          BY <1>4, <1>11, <2>1, <5>1
      <4> QED
        BY <4>1, <4>2, <4>3
    <3>3. IsManifest(d.next) /\ d.next.id = m.id /\ DOMAIN d.next.harness \subseteq DOMAIN m.harness \cup {h}
      BY <1>5, <2>1
    <3>4. d.writes \in Seq(Written(found))
      BY <1>3, <1>11, <2>1
    <3> QED
      BY <2>2, <3>1, <3>2, <3>3, <3>4, Zenon DEF CommitOf
  <2>4. AllReady(d, version)
    <3>1. ReadyIn(d, PlanRecord(plan, version), version, h)
      BY <1>7, <1>11, <2>1
    <3>2. h \in DOMAIN d.next.harness /\ d.next.harness[h] = PlanRecord(plan, version) /\ DOMAIN d.answer = {h}
      BY <1>5, <2>1
    <3> QED
      BY <3>1, <3>2 DEF AllReady
  <2> QED
    BY <2>1, <2>2, <2>3, <2>4
<1>12. CASE /\ Writes[h] = <<>> /\ plan.verdict = "ready"
            /\ there => asBlocked = m
            /\ d = Decided("commit", asBlocked, plan.writes, [g \in {h} |-> "blocked"])
  <2>0. IsRecord(BlockedRecord(h, m, version)) /\ BlockedRecord(h, m, version).files = Record(h, m).files
    BY BlockedRecordIs
  <2>1. IsManifest(asBlocked) /\ asBlocked.id = m.id /\ DOMAIN asBlocked.harness = DOMAIN m.harness \cup {h}
    BY <2>0, WithIs
  <2>2. \A path, digest : Claimed(asBlocked, path, digest) => Claimed(m, path, digest)
    <3> SUFFICES ASSUME NEW path, NEW digest, Claimed(asBlocked, path, digest)
                 PROVE  Claimed(m, path, digest)
      OBVIOUS
    <3>1. Claimed(m, path, digest) \/ (path \in DOMAIN Record(h, m).files /\ Record(h, m).files[path] = digest)
      BY <2>0, ClaimsWith
    <3> QED
      BY <3>1, OwnClaim
  <2> HIDE DEF asBlocked
  <2>3. d.verdict = "commit" /\ d.next = asBlocked /\ d.writes = plan.writes /\ d.answer = [g \in {h} |-> "blocked"]
    <3> DEFINE how == "commit"
               says == [g \in {h} |-> "blocked"]
    <3>1. d = Decided(how, asBlocked, plan.writes, says)
      BY <1>12
    <3> HIDE DEF how, says
    <3>2. d.verdict = how /\ d.next = asBlocked /\ d.writes = plan.writes /\ d.answer = says
      BY <3>1, DecidedIs
    <3> QED
      BY <3>2 DEF how, says
  <2>4. \A g \in DOMAIN d.answer : d.answer[g] # "ready"
    BY <2>3
  <2>5. ToSet(plan.writes) = {}
    <3>1. ToSet(Writes[h]) = {}
      BY <1>12, WritesAre
    <3>2. \A v \in ToSet(plan.writes) : \E w \in ToSet(Writes[h]) : v.path = w.path
      BY <1>1, <1>12 DEF WritesOf
    <3> QED
      BY <3>1, <3>2
  <2>6. Changes(found, plan.writes) = <<>>
    BY <1>3, <1>12, <2>5, ChangesAre
  <2>7. CommitOf(d, found, version, m, there, {h})
    <3>1. d.writes \in Seq(Written(found)) /\ ToSet(d.writes) = {}
      BY <1>3, <1>12, <2>3, <2>5
    <3>2. there => d.next = m /\ Changes(found, d.writes) = <<>>
      BY <1>12, <2>3, <2>6
    <3>3. IsManifest(d.next) /\ d.next.id = m.id /\ DOMAIN d.next.harness \subseteq DOMAIN m.harness \cup {h}
      BY <2>1, <2>3
    <3>4. \A path, digest : Claimed(d.next, path, digest) => Claimed(m, path, digest)
      BY <2>2, <2>3
    <3>5. \A v \in ToSet(d.writes) :
             /\ v.after.block = Rendered(v.path, version, m.id)
             /\ v.after = found[v.path] \/ found[v.path] = Absent
             /\ \A w \in ToSet(d.writes) : w.path = v.path => w = v
      BY <3>1
    <3> QED
      BY <3>1, <3>2, <3>3, <3>4, <3>5, Zenon DEF CommitOf
  <2>8. AllReady(d, version)
    BY <2>4 DEF AllReady
  <2> QED
    BY <2>3, <2>4, <2>7, <2>8
<1> QED
  BY <1>2, <1>8, <1>9, <1>10, <1>11, <1>12, Zenon DEF ActivateOf, asReady

\* deactivate writes no file and claims nothing new.
LEMMA DeactivateDecides ==
  ASSUME NEW found, NEW h, NEW version \in Nat, NEW m, IsManifest(m), NEW there \in BOOLEAN,
         NEW d, d = DecideDeactivate(found, h, version, m, there)
  PROVE  /\ d.verdict \in {"answer", "commit"}
         /\ d.verdict = "commit" => CommitOf(d, found, version, m, there, {h})
<1>1. DeactivateOf(d, h, version, m, there)
  BY DeactivateComes
<1>2. CASE d.verdict = "answer"
  BY <1>2
<1>3. ASSUME NEW kept, IsRecord(kept),
             \A path \in DOMAIN kept.files : path \in DOMAIN Record(h, m).files /\ kept.files[path] = Record(h, m).files[path],
             there => With(m, h, kept) = m,
             d.verdict = "commit", d.next = With(m, h, kept), d.writes = <<>>
      PROVE  CommitOf(d, found, version, m, there, {h})
  <2>1. IsManifest(d.next) /\ d.next.id = m.id /\ DOMAIN d.next.harness = DOMAIN m.harness \cup {h}
    BY <1>3, WithIs
  <2>2. \A path, digest : Claimed(d.next, path, digest) => Claimed(m, path, digest)
    <3> SUFFICES ASSUME NEW path, NEW digest, Claimed(d.next, path, digest)
                 PROVE  Claimed(m, path, digest)
      OBVIOUS
    <3>1. Claimed(m, path, digest) \/ (path \in DOMAIN kept.files /\ kept.files[path] = digest)
      BY <1>3, ClaimsWith
    <3> QED
      BY <1>3, <3>1, OwnClaim
  <2>3. d.writes \in Seq(Written(found)) /\ ToSet(d.writes) = {}
    BY <1>3 DEF ToSet
  <2>4. Changes(found, d.writes) = <<>>
    BY <2>3, ChangesAre
  <2>5. \A v \in ToSet(d.writes) :
             /\ v.after.block = Rendered(v.path, version, m.id)
             /\ v.after = found[v.path] \/ found[v.path] = Absent
             /\ \A w \in ToSet(d.writes) : w.path = v.path => w = v
    BY <2>3
  <2>6. there => d.next = m
    BY <1>3
  <2> QED
    BY <2>1, <2>2, <2>3, <2>4, <2>5, <2>6, Zenon DEF CommitOf
<1> QED
  BY <1>1, <1>2, <1>3, Zenon DEF DeactivateOf

\* In every state, of every command: what it decides, with the manifest it reconciled.
DecisionOf(d, p, m) ==
  /\ d.verdict \in {"refused", "answer", "commit"}
  /\ d.verdict = "commit" =>
       /\ CommitOf(d, content, Version[p], m, manifest # NoManifest, ToSet(Harnesses))
       /\ Command[p] = "init" => manifest = NoManifest
       /\ Command[p] # "deactivate" => AllReady(d, Version[p])
       /\ Command[p] # "deactivate" /\ manifest # NoManifest => \A g \in DOMAIN d.answer : d.answer[g] # "ready"
  /\ d.verdict = "answer" /\ Command[p] # "deactivate" => AnswerOf(d, content, Version[p], m)
  /\ d.verdict = "answer" /\ Command[p] = "init" => manifest # NoManifest

\* The decision of an init, with the manifest it reconciled.
LEMMA InitDecisions ==
  ASSUME NEW p \in Procs, NEW m, IsManifest(m), Order(Harnesses, content), Version[p] \in Nat \ {0},
         Command[p] = "init", NEW d, d = Decision(p, m)
  PROVE  DecisionOf(d, p, m)
<1> DEFINE there == manifest # NoManifest
<1>1. d = DecideInit(content, Harnesses, Version[p], m, there)
  BY DEF Decision
<1>2. there \in BOOLEAN
  OBVIOUS
<1> HIDE DEF there
<1>3. /\ d.verdict \in {"refused", "answer", "commit"}
      /\ d.verdict = "commit" => ~there /\ CommitOf(d, content, Version[p], m, there, ToSet(Harnesses))
                                 /\ AllReady(d, Version[p])
      /\ d.verdict = "answer" => there /\ AnswerOf(d, content, Version[p], m)
  BY <1>1, <1>2, InitDecides
<1>4. d.verdict = "answer" => manifest # NoManifest /\ AnswerOf(d, content, Version[p], m)
  BY <1>3, Zenon DEF there
<1>5. d.verdict = "commit" => /\ manifest = NoManifest /\ AllReady(d, Version[p])
                              /\ CommitOf(d, content, Version[p], m, manifest # NoManifest, ToSet(Harnesses))
  BY <1>3, Zenon DEF there
<1>6. d.verdict \in {"refused", "answer", "commit"}
  BY <1>3
<1>7. d.verdict = "commit" => \/ manifest = NoManifest
                              \/ \A g \in DOMAIN d.answer : d.answer[g] # "ready"
  BY <1>5, Zenon
<1> QED
  BY <1>4, <1>5, <1>6, <1>7, Zenon DEF DecisionOf

\* A commit that concerns some harnesses concerns no others.
LEMMA CommitOfMore ==
  ASSUME NEW d, NEW found, NEW version, NEW m, NEW there, NEW some, NEW more, some \subseteq more,
         CommitOf(d, found, version, m, there, some)
  PROVE  CommitOf(d, found, version, m, there, more)
<1>1. DOMAIN d.next.harness \subseteq DOMAIN m.harness \cup some
  BY Zenon DEF CommitOf
<1>2. DOMAIN d.next.harness \subseteq DOMAIN m.harness \cup more
  BY <1>1
<1> QED
  BY <1>2, Zenon DEF CommitOf

\* The decision of an activation.
LEMMA ActivateDecisions ==
  ASSUME NEW p \in Procs, NEW m, IsManifest(m), Order(Harnesses, content), Version[p] \in Nat \ {0},
         Command[p] = "activate", Target[p] \in ToSet(Harnesses), NEW d, d = Decision(p, m)
  PROVE  DecisionOf(d, p, m)
<1> DEFINE there == manifest # NoManifest
           h == Target[p]
           accept == p \in Accept
<1>1. d = DecideActivate(content, h, Version[p], accept, m, there)
  BY DEF Decision
<1>2. there \in BOOLEAN /\ {h} \subseteq ToSet(Harnesses)
  OBVIOUS
<1>3. h \in DOMAIN Writes /\ Found(content, h)
  BY DEF Order, ToSet
<1>4. Command[p] # "init"
  OBVIOUS
<1> HIDE DEF there, h, accept
<1>5. /\ d.verdict \in {"refused", "answer", "commit"}
      /\ d.verdict = "commit" =>
           /\ CommitOf(d, content, Version[p], m, there, {h}) /\ AllReady(d, Version[p])
           /\ there => \A g \in DOMAIN d.answer : d.answer[g] # "ready"
      /\ d.verdict = "answer" => AnswerOf(d, content, Version[p], m)
  BY <1>1, <1>2, <1>3, ActivateDecides, ZenonT(40)
<1>6. d.verdict = "commit" => CommitOf(d, content, Version[p], m, there, ToSet(Harnesses))
  BY <1>2, <1>5, CommitOfMore
<1> QED
  BY <1>4, <1>5, <1>6, Zenon DEF DecisionOf, there

\* The decision of a deactivation.
LEMMA DeactivateDecisions ==
  ASSUME NEW p \in Procs, NEW m, IsManifest(m), Version[p] \in Nat,
         Command[p] = "deactivate", Target[p] \in ToSet(Harnesses), NEW d, d = Decision(p, m)
  PROVE  DecisionOf(d, p, m)
<1> DEFINE there == manifest # NoManifest
           h == Target[p]
<1>1. d = DecideDeactivate(content, h, Version[p], m, there)
  BY DEF Decision
<1>2. there \in BOOLEAN /\ {h} \subseteq ToSet(Harnesses)
  OBVIOUS
<1>3. Command[p] # "init"
  OBVIOUS
<1> HIDE DEF there, h
<1>4. /\ d.verdict \in {"answer", "commit"}
      /\ d.verdict = "commit" => CommitOf(d, content, Version[p], m, there, {h})
  BY <1>1, <1>2, DeactivateDecides
<1>5. d.verdict \in {"refused", "answer", "commit"}
  BY <1>4
<1>6. d.verdict = "commit" => CommitOf(d, content, Version[p], m, there, ToSet(Harnesses))
  BY <1>2, <1>4, CommitOfMore
<1> QED
  BY <1>3, <1>5, <1>6, Zenon DEF DecisionOf, there

\* What the setting says, of a state.
Set ==
  /\ setting \in Settings
  /\ content \in [Paths -> Content \cup {Absent}]

\* What the assumptions say of the setting that was chosen.
LEMMA SettingIs ==
  ASSUME Set
  PROVE  /\ Order(Harnesses, content)
         /\ \A p \in Procs : /\ Version[p] \in Nat \ {0}
                             /\ Command[p] \in {"init", "activate", "deactivate"}
                             /\ Command[p] # "init" => Target[p] \in ToSet(Harnesses)
         /\ Free \notin Procs
<1>1. setting \in Settings /\ content \in [Paths -> Content \cup {Absent}]
  BY DEF Set
<1>2. /\ setting.command \in [DOMAIN setting.version -> {"init", "activate", "deactivate"}]
      /\ \A p \in DOMAIN setting.version : setting.version[p] \in Nat \ {0}
      /\ Free \notin DOMAIN setting.command
      /\ setting.harnesses \in Seq(DOMAIN Writes)
      /\ \A j, k \in DOMAIN setting.harnesses : setting.harnesses[j] = setting.harnesses[k] => j = k
      /\ \A p \in DOMAIN setting.command : setting.command[p] # "init" => setting.target[p] \in ToSet(setting.harnesses)
      /\ \A h \in ToSet(setting.harnesses) : \A w \in ToSet(Writes[h]) : w.path \in DOMAIN setting.initial
  BY <1>1, BridgesAssumption
<1>3. Order(Harnesses, content)
  <2>1. ASSUME NEW h \in ToSet(Harnesses)
        PROVE  Found(content, h)
    BY <1>1, <1>2 DEF Found, Paths, Initial, Harnesses
  <2> QED
    BY <1>2, <2>1 DEF Order, Harnesses
<1> QED
  BY <1>2, <1>3 DEF Procs, Version, Command, Target, Harnesses

\* Every decision: what it commits is honest, what it answers is in place.
LEMMA Decisions ==
  ASSUME Set, NEW p \in Procs, NEW m, IsManifest(m), NEW d, d = Decision(p, m)
  PROVE  DecisionOf(d, p, m)
<1>1. Command[p] \in {"init", "activate", "deactivate"} /\ Version[p] \in Nat \ {0} /\ Version[p] \in Nat
      /\ Order(Harnesses, content) /\ (Command[p] # "init" => Target[p] \in ToSet(Harnesses))
  BY SettingIs
<1>2. CASE Command[p] = "init"
  BY <1>1, <1>2, InitDecisions
<1>3. CASE Command[p] = "activate"
  BY <1>1, <1>3, ActivateDecisions
<1>4. CASE Command[p] = "deactivate"
  BY <1>1, <1>4, DeactivateDecisions
<1> QED
  BY <1>1, <1>2, <1>3, <1>4

----
(* Types, and what is known of a command at each of its steps.             *)

Known(m) ==
  /\ IsManifest(m)
  /\ m.id \in Ids
  /\ DOMAIN m.harness \subseteq ToSet(Harnesses)

Critical == {"publish", "link", "manifest"}

Shape ==
  /\ setting \in Settings
  /\ content \in [Paths -> Content \cup {Absent}]
  /\ manifest # NoManifest => Known(manifest)
  /\ lock \in Procs \cup {Free}
  /\ pc \in [Procs -> {"idle", "loaded", "publish", "link", "manifest", "done", "dead"}]
  /\ result \in [Procs -> {"none", "ok", "error", "refused", "indeterminate"}]
  /\ ids \in Ids
  /\ \A m \in saved : Known(m)
  /\ DOMAIN supplied = Procs /\ DOMAIN expected = Procs /\ DOMAIN next = Procs /\ DOMAIN applied = Procs
  /\ DOMAIN answer = Procs
  /\ todo \in [Procs -> Seq([path : Paths, after : Content])]

At(p) ==
  /\ pc[p] \in Critical \cup {"loaded"} => Known(supplied[p])
  /\ pc[p] \in Critical =>
       /\ Known(next[p]) /\ next[p].id = supplied[p].id
       /\ lock = p
       /\ expected[p] # NoManifest => next[p] = expected[p] /\ todo[p] = <<>>
       /\ Command[p] = "init" => expected[p] = NoManifest
  /\ pc[p] = "link" => todo[p] # <<>>
  /\ pc[p] = "manifest" => todo[p] = <<>>

Typed == Shape /\ \A p \in Procs : At(p)

\* No manifest is one that is not there.
LEMMA NoManifestIs == ~IsManifest(NoManifest)
<1>1. NoManifest.id = None
  BY DEF NoManifest
<1> QED
  BY <1>1, NullsAssumption DEF IsManifest

\* The first manifest of a store lists no harness.
LEMMA FirstIs ==
  ASSUME NEW id \in Nat
  PROVE  IsManifest([id |-> id, harness |-> <<>>]) /\ [id |-> id, harness |-> <<>>].harness = <<>>
         /\ DOMAIN [id |-> id, harness |-> <<>>].harness = {} /\ [id |-> id, harness |-> <<>>].id = id
<1> DEFINE m == [id |-> id, harness |-> <<>>]
<1>1. m.id = id /\ m.harness = <<>>
  OBVIOUS
<1>2. DOMAIN <<>> = {} /\ [h \in DOMAIN <<>> |-> <<>>[h]] = <<>>
  OBVIOUS
<1>3. m = [id |-> m.id, harness |-> [h \in DOMAIN m.harness |-> m.harness[h]]]
  BY <1>1, <1>2
<1> HIDE DEF m
<1>4. IsManifest(m)
  BY <1>1, <1>2, <1>3 DEF IsManifest
<1> QED
  BY <1>1, <1>2, <1>4 DEF m

\* What is decided: an error, or a decision about the manifest that is there or supplied.
PrepareOf(p, d) ==
  /\ pc[p] = "loaded" /\ lock = Free
  /\ d = Decision(p, Current(p)) /\ DecisionOf(d, p, Current(p)) /\ IsManifest(Current(p)) /\ Known(Current(p))
  /\ Current(p).id = supplied[p].id
  /\ UNCHANGED <<content, manifest, published, saved, supplied, ids, disturbed, base, edits>>
  /\ answer' = [answer EXCEPT ![p] = d.answer]
  /\ \/ /\ d.verdict = "refused" /\ Ends(p, "refused")
        /\ UNCHANGED <<lock, expected, next, todo, applied, settled>>
     \/ /\ d.verdict = "answer" /\ Ends(p, "ok") /\ Settle(p, "ok", d.answer)
        /\ UNCHANGED <<lock, expected, next, todo, applied>>
     \/ /\ d.verdict = "commit" /\ Goto(p, "publish") /\ lock' = p
        /\ expected' = [expected EXCEPT ![p] = manifest]
        /\ next' = [next EXCEPT ![p] = d.next]
        /\ todo' = [todo EXCEPT ![p] = Changes(content, d.writes)]
        /\ applied' = [applied EXCEPT ![p] = FALSE]
        /\ UNCHANGED <<result, settled>>

PrepareFails(p) ==
  /\ pc[p] = "loaded" /\ ~SameIdentity(p) /\ Ends(p, "error")
  /\ UNCHANGED <<content, manifest, published, saved, lock, supplied, expected, next, todo, applied, answer,
                 ids, disturbed, settled, base, edits>>

\* Preparing fails, or takes a decision about the manifest that is there or supplied.
LEMMA Preparing ==
  ASSUME Typed, NEW p \in Procs, Prepare(p), UNCHANGED setting
  PROVE  PrepareFails(p) \/ \E d : PrepareOf(p, d)
<1>1. Set
  BY DEF Typed, Shape, Set
<1>2. pc[p] = "loaded" /\ lock = Free /\ UNCHANGED <<disk, supplied, ids, disturbed, base, edits>>
  BY DEF Prepare
<1>3. Known(supplied[p])
  BY <1>2 DEF Typed, At
<1>4. CASE ~SameIdentity(p)
  <2>1. PrepareFails(p)
    BY <1>2, <1>4 DEF Prepare, PrepareFails, disk
  <2> QED
    BY <2>1
<1>5. CASE SameIdentity(p)
  <2>1. Known(Current(p)) /\ Current(p).id = supplied[p].id
    BY <1>3, <1>5 DEF Current, SameIdentity, Typed, Shape
  <2>2. PICK d \in {Decision(p, Current(p))} :
              /\ answer' = [answer EXCEPT ![p] = d.answer]
              /\ CASE d.verdict = "refused" ->
                        Ends(p, "refused") /\ UNCHANGED <<lock, expected, next, todo, applied, settled>>
                   [] d.verdict = "answer" ->
                        /\ Ends(p, "ok") /\ Settle(p, "ok", d.answer)
                        /\ UNCHANGED <<lock, expected, next, todo, applied>>
                   [] d.verdict = "commit" ->
                        /\ Goto(p, "publish")
                        /\ lock' = p
                        /\ expected' = [expected EXCEPT ![p] = manifest]
                        /\ next' = [next EXCEPT ![p] = d.next]
                        /\ todo' = [todo EXCEPT ![p] = Changes(content, d.writes)]
                        /\ applied' = [applied EXCEPT ![p] = FALSE]
                        /\ UNCHANGED <<result, settled>>
    BY <1>5, Zenon DEF Prepare
  <2>3. d = Decision(p, Current(p))
    BY <2>2
  <2>4. DecisionOf(d, p, Current(p))
    BY <1>1, <2>1, <2>3, Decisions DEF Known
  <2>5. d.verdict \in {"refused", "answer", "commit"}
    BY <2>4, Zenon DEF DecisionOf
  <2>6. \/ /\ d.verdict = "refused" /\ Ends(p, "refused")
           /\ UNCHANGED <<lock, expected, next, todo, applied, settled>>
        \/ /\ d.verdict = "answer" /\ Ends(p, "ok") /\ Settle(p, "ok", d.answer)
           /\ UNCHANGED <<lock, expected, next, todo, applied>>
        \/ /\ d.verdict = "commit" /\ Goto(p, "publish") /\ lock' = p
           /\ expected' = [expected EXCEPT ![p] = manifest]
           /\ next' = [next EXCEPT ![p] = d.next]
           /\ todo' = [todo EXCEPT ![p] = Changes(content, d.writes)]
           /\ applied' = [applied EXCEPT ![p] = FALSE]
           /\ UNCHANGED <<result, settled>>
    <3> HIDE DEF Ends, Goto, Settle
    <3> QED
      BY <2>2, <2>5
  <2>7. UNCHANGED <<content, manifest, published, saved, supplied, ids, disturbed, base, edits>>
    BY <1>2 DEF disk
  <2>8. PrepareOf(p, d)
    BY <1>2, <2>1, <2>2, <2>3, <2>4, <2>6, <2>7, Zenon DEF PrepareOf, Known
  <2> QED
    BY <2>8
<1> QED
  BY <1>4, <1>5

\* Typed holds at the start.
LEMMA ShapeStarts == Init => Typed
<1> SUFFICES ASSUME Init PROVE Typed
  OBVIOUS
<1>1. content \in [Paths -> Content \cup {Absent}]
  <2>1. setting \in Settings /\ content \in [Paths -> UNION {Initial[path] : path \in Paths}]
        /\ \A path \in Paths : content[path] \in Initial[path]
    BY DEF Init
  <2>2. \A path \in Paths : Initial[path] \subseteq Content \cup {Absent}
    BY <2>1, BridgesAssumption DEF Paths, Initial
  <2> QED
    BY <2>1, <2>2
<1>2. ids \in Ids
  BY BridgesAssumption DEF Init, Ids, MaxIds
<1>3. Shape
  BY <1>1, <1>2 DEF Init, Shape
<1>4. \A p \in Procs : At(p)
  BY DEF Init, At, Critical
<1> QED
  BY <1>3, <1>4 DEF Typed

\* What depends only on the setting does not change.
LEMMA SettingStays ==
  ASSUME UNCHANGED setting
  PROVE  /\ Procs' = Procs /\ Command' = Command /\ Target' = Target /\ Version' = Version /\ Harnesses' = Harnesses
         /\ Paths' = Paths /\ Ids' = Ids /\ UserContent' = UserContent
         /\ \A m : Known(m)' <=> Known(m)
<1>1. /\ Procs' = Procs /\ Command' = Command /\ Target' = Target /\ Version' = Version /\ Harnesses' = Harnesses
      /\ Paths' = Paths /\ Ids' = Ids /\ UserContent' = UserContent
  BY DEF Procs, Command, Target, Version, Harnesses, Paths, Initial, Ids, MaxIds, UserContent
<1>2. \A m : Known(m)' <=> Known(m)
  BY <1>1 DEF Known
<1> QED
  BY <1>1, <1>2

\* What a step of p, that touches the lock of no other, leaves to the others.
LEMMA OthersStay ==
  ASSUME Typed, NEW p \in Procs, UNCHANGED setting, lock' = lock \/ lock = p \/ lock = Free,
         \A q \in Procs \ {p} : /\ pc'[q] = pc[q] /\ supplied'[q] = supplied[q] /\ next'[q] = next[q]
                                /\ expected'[q] = expected[q] /\ todo'[q] = todo[q]
  PROVE  \A q \in Procs \ {p} : At(q)'
<1> SUFFICES ASSUME NEW q \in Procs, q # p PROVE At(q)'
  OBVIOUS
<1>1. At(q)
  BY DEF Typed
<1>2. Free \notin Procs
  BY SettingIs DEF Typed, Shape, Set
<1>3. Command' = Command /\ \A m : Known(m)' <=> Known(m)
  BY SettingStays
<1>4. pc[q] \in Critical => lock' = q
  BY <1>1, <1>2 DEF At
<1> QED
  BY <1>1, <1>3, <1>4 DEF At

\* Typed and loading the manifest.
LEMMA TypedLoad ==
  ASSUME Typed, NEW p \in Procs, Load(p), UNCHANGED setting
  PROVE  Typed'
<1>1. /\ pc[p] = "idle" /\ UNCHANGED <<content, manifest, published, saved, lock, expected, next, todo, applied, answer>>
  BY DEF Load, disk
<1>2. Shape
  BY DEF Typed
<1>3. \/ /\ Known(manifest) /\ supplied' = [supplied EXCEPT ![p] = manifest]
         /\ pc' = [pc EXCEPT ![p] = "loaded"] /\ UNCHANGED <<result, ids>>
      \/ /\ ids < MaxIds /\ ids' = ids + 1 /\ supplied' = [supplied EXCEPT ![p] = [id |-> ids', harness |-> <<>>]]
         /\ pc' = [pc EXCEPT ![p] = "loaded"] /\ UNCHANGED result
      \/ /\ pc' = [pc EXCEPT ![p] = "done"] /\ result' = [result EXCEPT ![p] = "error"] /\ UNCHANGED <<supplied, ids>>
  BY <1>2 DEF Load, Shape, Goto, Ends
<1>4. ids \in Nat /\ ids' \in Ids /\ (ids' = ids \/ Known([id |-> ids', harness |-> <<>>]))
  <2>1. MaxIds \in Nat /\ ids \in Nat
    BY <1>2, BridgesAssumption DEF Shape, Ids, MaxIds
  <2>2. CASE ids' = ids
    BY <1>2, <2>1, <2>2 DEF Shape
  <2>3. CASE ids < MaxIds /\ ids' = ids + 1
    <3>1. ids' \in Ids /\ ids' \in Nat
      BY <2>1, <2>3 DEF Ids
    <3>2. Known([id |-> ids', harness |-> <<>>])
      BY <3>1, FirstIs DEF Known
    <3> QED
      BY <2>1, <3>1, <3>2
  <2> QED
    BY <1>3, <2>2, <2>3
<1>5. /\ Procs' = Procs /\ Command' = Command /\ Paths' = Paths /\ Ids' = Ids /\ \A m : Known(m)' <=> Known(m)
  BY SettingStays
<1>6. pc' \in [Procs -> {"idle", "loaded", "publish", "link", "manifest", "done", "dead"}]
      /\ result' \in [Procs -> {"none", "ok", "error", "refused", "indeterminate"}] /\ DOMAIN supplied' = Procs
  BY <1>2, <1>3 DEF Shape
<1>7. Shape'
  BY <1>1, <1>2, <1>4, <1>5, <1>6 DEF Shape
<1>8. At(p)'
  BY <1>2, <1>3, <1>4, <1>5 DEF At, Critical, Shape
<1>9. \A q \in Procs \ {p} : At(q)'
  <2>1. \A q \in Procs \ {p} : pc'[q] = pc[q] /\ supplied'[q] = supplied[q]
    BY <1>2, <1>3 DEF Shape
  <2> QED
    BY <1>1, <2>1, OthersStay
<1> QED
  BY <1>5, <1>7, <1>8, <1>9 DEF Typed

\* Typed and the decision under the lock.
LEMMA TypedPrepare ==
  ASSUME Typed, NEW p \in Procs, Prepare(p), UNCHANGED setting
  PROVE  Typed'
<1>1. Shape
  BY DEF Typed
<1>2. /\ Procs' = Procs /\ Command' = Command /\ Paths' = Paths /\ Ids' = Ids /\ \A m : Known(m)' <=> Known(m)
  BY SettingStays
<1>3. CASE PrepareFails(p)
  <2>1. pc' = [pc EXCEPT ![p] = "done"] /\ result' = [result EXCEPT ![p] = "error"]
        /\ UNCHANGED <<content, manifest, published, saved, lock, supplied, expected, next, todo, applied, answer, ids>>
    BY <1>3 DEF PrepareFails, Ends, Goto
  <2>2. Shape'
    BY <1>1, <1>2, <2>1 DEF Shape
  <2>3. At(p)'
    BY <1>1, <2>1 DEF At, Critical, Shape
  <2>4. \A q \in Procs \ {p} : At(q)'
    <3>1. \A q \in Procs \ {p} : pc'[q] = pc[q]
      BY <1>1, <2>1 DEF Shape
    <3> QED
      BY <2>1, <3>1, OthersStay
  <2> QED
    BY <1>2, <2>2, <2>3, <2>4 DEF Typed
<1>4. ASSUME NEW d, PrepareOf(p, d)
      PROVE  Typed'
  <2>1. /\ pc[p] = "loaded" /\ lock = Free /\ DecisionOf(d, p, Current(p)) /\ Known(Current(p))
        /\ Current(p).id = supplied[p].id /\ Known(supplied[p])
        /\ UNCHANGED <<content, manifest, published, saved, supplied, ids>>
        /\ answer' = [answer EXCEPT ![p] = d.answer]
    BY <1>4 DEF PrepareOf, Typed, At
  <2>2. CASE \/ Ends(p, "refused") /\ UNCHANGED <<lock, expected, next, todo, applied>>
             \/ Ends(p, "ok") /\ UNCHANGED <<lock, expected, next, todo, applied>>
    <3>1. pc' = [pc EXCEPT ![p] = "done"]
          /\ (result' = [result EXCEPT ![p] = "refused"] \/ result' = [result EXCEPT ![p] = "ok"])
          /\ UNCHANGED <<lock, expected, next, todo, applied>>
      BY <2>2 DEF Ends, Goto
    <3>2. Shape'
      BY <1>1, <1>2, <2>1, <3>1 DEF Shape
    <3>3. At(p)'
      BY <1>1, <3>1 DEF At, Critical, Shape
    <3>4. \A q \in Procs \ {p} : At(q)'
      <4>1. \A q \in Procs \ {p} : pc'[q] = pc[q]
        BY <1>1, <3>1 DEF Shape
      <4> QED
        BY <2>1, <3>1, <4>1, OthersStay
    <3> QED
      BY <1>2, <3>2, <3>3, <3>4 DEF Typed
  <2>3. CASE /\ d.verdict = "commit" /\ Goto(p, "publish") /\ lock' = p
             /\ expected' = [expected EXCEPT ![p] = manifest]
             /\ next' = [next EXCEPT ![p] = d.next]
             /\ todo' = [todo EXCEPT ![p] = Changes(content, d.writes)]
             /\ applied' = [applied EXCEPT ![p] = FALSE]
             /\ UNCHANGED <<result, settled>>
    <3>1. pc' = [pc EXCEPT ![p] = "publish"] /\ pc'[p] = "publish" /\ next'[p] = d.next /\ expected'[p] = manifest
          /\ todo'[p] = Changes(content, d.writes) /\ lock' = p
      BY <1>1, <2>3 DEF Goto, Shape
    <3>2. /\ CommitOf(d, content, Version[p], Current(p), manifest # NoManifest, ToSet(Harnesses))
          /\ Command[p] = "init" => manifest = NoManifest
      BY <2>1, <2>3, Zenon DEF DecisionOf
    <3>3. /\ IsManifest(d.next) /\ d.next.id = Current(p).id
          /\ DOMAIN d.next.harness \subseteq DOMAIN Current(p).harness \cup ToSet(Harnesses)
          /\ d.writes \in Seq(Written(content))
          /\ manifest # NoManifest => d.next = Current(p) /\ Changes(content, d.writes) = <<>>
      BY <3>2, Zenon DEF CommitOf
    <3>4. Known(d.next)
      BY <2>1, <3>3 DEF Known
    <3>5. Changes(content, d.writes) \in Seq([path : Paths, after : Content])
      <4>1. DOMAIN content = Paths
        BY <1>1 DEF Shape
      <4> QED
        BY <3>3, <4>1, ChangesAre DEF Written
    <3>6. todo' \in [Procs -> Seq([path : Paths, after : Content])]
      BY <1>1, <2>3, <3>5 DEF Shape
    <3>7. Shape'
      BY <1>1, <1>2, <2>1, <2>3, <3>1, <3>6 DEF Shape
    <3>8. At(p)'
      <4>1. Known(supplied'[p]) /\ next'[p].id = supplied'[p].id /\ Known(next'[p])
        BY <2>1, <3>1, <3>3, <3>4
      <4>2. expected'[p] # NoManifest => next'[p] = expected'[p] /\ todo'[p] = <<>>
        BY <3>1, <3>3 DEF Current
      <4> QED
        BY <1>2, <3>1, <3>2, <4>1, <4>2 DEF At
    <3>9. \A q \in Procs \ {p} : At(q)'
      <4>1. \A q \in Procs \ {p} : /\ pc'[q] = pc[q] /\ supplied'[q] = supplied[q] /\ next'[q] = next[q]
                                   /\ expected'[q] = expected[q] /\ todo'[q] = todo[q]
        BY <1>1, <2>1, <2>3, <3>1 DEF Shape
      <4> QED
        BY <2>1, <4>1, OthersStay
    <3> QED
      BY <1>2, <3>7, <3>8, <3>9 DEF Typed
  <2> QED
    BY <1>4, <2>2, <2>3 DEF PrepareOf
<1> QED
  BY <1>3, <1>4, Preparing

\* A function with one value changed is a function into the same set.
LEMMA ExceptIn ==
  ASSUME NEW S, NEW T, NEW f \in [S -> T], NEW x \in S, NEW y \in T
  PROVE  [f EXCEPT ![x] = y] \in [S -> T]
OBVIOUS

\* Typed and the last look at the target.
LEMMA TypedCheck ==
  ASSUME Typed, NEW p \in Procs, Check(p), UNCHANGED setting
  PROVE  Typed'
<1>1. Shape /\ At(p) /\ pc[p] = "publish" /\ todo[p] # <<>>
      /\ UNCHANGED <<content, manifest, published, saved, supplied, expected, next, todo, applied, answer, ids>>
  BY DEF Typed, Check, disk, local, past
<1>2. \/ pc' = [pc EXCEPT ![p] = "link"] /\ UNCHANGED <<lock, result>>
      \/ /\ pc' = [pc EXCEPT ![p] = "done"] /\ lock' = Free
         /\ \E how \in {"indeterminate", "error"} : result' = [result EXCEPT ![p] = how]
  BY DEF Check, Stop, Ends, Goto
<1>3. /\ Procs' = Procs /\ Command' = Command /\ Paths' = Paths /\ Ids' = Ids /\ \A m : Known(m)' <=> Known(m)
  BY SettingStays
<1>4. lock = p
  BY <1>1 DEF At, Critical
<1>8. /\ pc' \in [Procs -> {"idle", "loaded", "publish", "link", "manifest", "done", "dead"}]
      /\ result' \in [Procs -> {"none", "ok", "error", "refused", "indeterminate"}]
      /\ lock' \in Procs \cup {Free}
  <2> DEFINE P == {"idle", "loaded", "publish", "link", "manifest", "done", "dead"}
             R == {"none", "ok", "error", "refused", "indeterminate"}
  <2>1. pc \in [Procs -> P] /\ result \in [Procs -> R] /\ lock \in Procs \cup {Free}
    BY <1>1 DEF Shape
  <2>2. "link" \in P /\ "done" \in P /\ \A how \in {"indeterminate", "error"} : how \in R
    OBVIOUS
  <2> HIDE DEF P, R
  <2>3. pc' = [pc EXCEPT ![p] = "link"] \/ pc' = [pc EXCEPT ![p] = "done"]
    BY <1>2
  <2>4. pc' \in [Procs -> P]
    BY <2>1, <2>2, <2>3, ExceptIn
  <2>5. result' = result \/ \E how \in R : result' = [result EXCEPT ![p] = how]
    BY <1>2, <2>2
  <2>6. result' \in [Procs -> R]
    BY <2>1, <2>5, ExceptIn
  <2>7. lock' = lock \/ lock' = Free
    BY <1>2
  <2>8. lock' \in Procs \cup {Free}
    BY <2>1, <2>7
  <2> QED
    BY <2>4, <2>6, <2>8 DEF P, R
<1>5. Shape'
  BY <1>1, <1>3, <1>8 DEF Shape
<1>6. At(p)'
  <2>1. CASE pc' = [pc EXCEPT ![p] = "link"] /\ UNCHANGED lock
    BY <1>1, <1>3, <2>1 DEF At, Critical, Shape
  <2>2. CASE pc' = [pc EXCEPT ![p] = "done"]
    BY <1>1, <1>3, <2>2 DEF At, Critical, Shape
  <2> QED
    BY <1>2, <2>1, <2>2
<1>7. \A q \in Procs \ {p} : At(q)'
  <2>1. \A q \in Procs \ {p} : pc'[q] = pc[q]
    BY <1>1, <1>2 DEF Shape
  <2> QED
    BY <1>1, <1>4, <2>1, OthersStay
<1> QED
  BY <1>3, <1>5, <1>6, <1>7 DEF Typed

\* What linking a file does.
LinkOf(p) ==
  /\ pc[p] = "link" /\ todo[p] # <<>> /\ lock = p
  /\ Head(todo[p]) \in [path : Paths, after : Content] /\ Tail(todo[p]) \in Seq([path : Paths, after : Content])
  /\ \/ /\ content[Head(todo[p]).path] = Absent
        /\ content' = [content EXCEPT ![Head(todo[p]).path] = Head(todo[p]).after]
        /\ published' = published \cup {<<Head(todo[p]).path, Head(todo[p]).after>>}
     \/ UNCHANGED <<content, published>> /\ pc' = [pc EXCEPT ![p] = "done"]
  /\ \/ todo' = [todo EXCEPT ![p] = Tail(todo[p])] /\ pc' = [pc EXCEPT ![p] = "publish"] /\ UNCHANGED <<lock, result>>
     \/ /\ UNCHANGED todo /\ pc' = [pc EXCEPT ![p] = "done"] /\ lock' = Free
        /\ \E how \in {"indeterminate", "error"} : result' = [result EXCEPT ![p] = how]
  /\ UNCHANGED <<manifest, saved, supplied, expected, next, answer, ids, disturbed, settled, base, edits>>
  /\ DOMAIN applied' = DOMAIN applied

\* Linking a file, as one of its outcomes.
LEMMA Linking ==
  ASSUME Typed, NEW p \in Procs, Link(p)
  PROVE  LinkOf(p)
<1>1. Shape /\ At(p) /\ pc[p] = "link" /\ UNCHANGED <<manifest, saved, supplied, expected, next, answer, ids, disturbed, settled, base, edits>>
  BY DEF Typed, Link, past
<1>2. todo[p] # <<>> /\ lock = p
  BY <1>1 DEF At, Critical
<1>3. Head(todo[p]) \in [path : Paths, after : Content] /\ Tail(todo[p]) \in Seq([path : Paths, after : Content])
  <2> DEFINE T == [path : Paths, after : Content]
  <2>1. todo[p] \in Seq(T)
    BY <1>1 DEF Shape
  <2> HIDE DEF T
  <2>2. Head(todo[p]) \in T /\ Tail(todo[p]) \in Seq(T)
    BY <1>2, <2>1, HeadTailProperties
  <2> QED
    BY <2>2 DEF T
<1>4. \/ /\ content[Head(todo[p]).path] = Absent
         /\ Published(p, Head(todo[p]))
         /\ \/ todo' = [todo EXCEPT ![p] = Tail(todo[p])] /\ Goto(p, "publish") /\ UNCHANGED <<lock, result>>
            \/ Stop(p, TRUE) /\ UNCHANGED todo
      \/ Stop(p, applied[p]) /\ UNCHANGED <<content, published, applied, todo>>
  BY DEF Link
<1>5. ASSUME NEW some, Stop(p, some)
      PROVE  /\ pc' = [pc EXCEPT ![p] = "done"] /\ lock' = Free
             /\ \E how \in {"indeterminate", "error"} : result' = [result EXCEPT ![p] = how]
  BY <1>5 DEF Stop, Ends, Goto
<1>6. CASE /\ content[Head(todo[p]).path] = Absent
           /\ Published(p, Head(todo[p]))
           /\ \/ todo' = [todo EXCEPT ![p] = Tail(todo[p])] /\ Goto(p, "publish") /\ UNCHANGED <<lock, result>>
              \/ Stop(p, TRUE) /\ UNCHANGED todo
  <2>1. /\ content' = [content EXCEPT ![Head(todo[p]).path] = Head(todo[p]).after]
        /\ published' = published \cup {<<Head(todo[p]).path, Head(todo[p]).after>>}
        /\ DOMAIN applied' = DOMAIN applied
    BY <1>6 DEF Published
  <2>2. \/ todo' = [todo EXCEPT ![p] = Tail(todo[p])] /\ pc' = [pc EXCEPT ![p] = "publish"] /\ UNCHANGED <<lock, result>>
        \/ /\ UNCHANGED todo /\ pc' = [pc EXCEPT ![p] = "done"] /\ lock' = Free
           /\ \E how \in {"indeterminate", "error"} : result' = [result EXCEPT ![p] = how]
    BY <1>5, <1>6 DEF Goto
  <2> QED
    BY <1>1, <1>2, <1>3, <1>6, <2>1, <2>2, Zenon DEF LinkOf
<1>7. CASE Stop(p, applied[p]) /\ UNCHANGED <<content, published, applied, todo>>
  <2>1. /\ pc' = [pc EXCEPT ![p] = "done"] /\ lock' = Free
        /\ \E how \in {"indeterminate", "error"} : result' = [result EXCEPT ![p] = how]
    BY <1>5, <1>7
  <2>2. UNCHANGED <<content, published>> /\ UNCHANGED todo /\ DOMAIN applied' = DOMAIN applied
    BY <1>7
  <2> QED
    BY <1>1, <1>2, <1>3, <2>1, <2>2, Zenon DEF LinkOf
<1> QED
  BY <1>4, <1>6, <1>7

\* Typed and the publication of a file.
LEMMA TypedLink ==
  ASSUME Typed, NEW p \in Procs, Link(p), UNCHANGED setting
  PROVE  Typed'
<1>1. Shape /\ At(p) /\ LinkOf(p)
  BY Linking DEF Typed
<1>2. /\ Procs' = Procs /\ Command' = Command /\ Paths' = Paths /\ Ids' = Ids /\ \A m : Known(m)' <=> Known(m)
  BY SettingStays
<1>9. content' \in [Paths -> Content \cup {Absent}]
  <2>1. Head(todo[p]).after \in Content /\ Head(todo[p]).path \in Paths
    BY <1>1 DEF LinkOf
  <2>2. content' = content \/ content' = [content EXCEPT ![Head(todo[p]).path] = Head(todo[p]).after]
    BY <1>1 DEF LinkOf
  <2> QED
    BY <1>1, <2>1, <2>2 DEF Shape
<1>10. todo' \in [Procs -> Seq([path : Paths, after : Content])]
  <2> DEFINE T == Seq([path : Paths, after : Content])
  <2>1. Tail(todo[p]) \in T /\ todo \in [Procs -> T]
    BY <1>1 DEF LinkOf, Shape
  <2>2. todo' = todo \/ todo' = [todo EXCEPT ![p] = Tail(todo[p])]
    BY <1>1 DEF LinkOf
  <2> HIDE DEF T
  <2>3. todo' \in [Procs -> T]
    BY <2>1, <2>2
  <2> QED
    BY <2>3 DEF T
<1>3. /\ lock = p
      /\ UNCHANGED <<manifest, saved, supplied, expected, next, answer, ids>> /\ DOMAIN applied' = DOMAIN applied
  BY <1>1 DEF LinkOf
<1>4. \/ /\ todo' = [todo EXCEPT ![p] = Tail(todo[p])] /\ pc' = [pc EXCEPT ![p] = "publish"] /\ UNCHANGED <<lock, result>>
      \/ /\ UNCHANGED todo /\ pc' = [pc EXCEPT ![p] = "done"] /\ lock' = Free
         /\ \E how \in {"indeterminate", "error"} : result' = [result EXCEPT ![p] = how]
  BY <1>1 DEF LinkOf
<1>8. /\ pc' \in [Procs -> {"idle", "loaded", "publish", "link", "manifest", "done", "dead"}]
      /\ result' \in [Procs -> {"none", "ok", "error", "refused", "indeterminate"}]
      /\ lock' \in Procs \cup {Free}
  <2> DEFINE P == {"idle", "loaded", "publish", "link", "manifest", "done", "dead"}
             R == {"none", "ok", "error", "refused", "indeterminate"}
  <2>1. pc \in [Procs -> P] /\ result \in [Procs -> R] /\ lock \in Procs \cup {Free}
    BY <1>1 DEF Shape
  <2>2. "publish" \in P /\ "done" \in P /\ \A how \in {"indeterminate", "error"} : how \in R
    OBVIOUS
  <2> HIDE DEF P, R
  <2>3. pc' = [pc EXCEPT ![p] = "publish"] \/ pc' = [pc EXCEPT ![p] = "done"]
    BY <1>4
  <2>4. pc' \in [Procs -> P]
    BY <2>1, <2>2, <2>3, ExceptIn
  <2>5. result' = result \/ \E how \in R : result' = [result EXCEPT ![p] = how]
    BY <1>4, <2>2
  <2>6. result' \in [Procs -> R]
    BY <2>1, <2>5, ExceptIn
  <2>7. lock' = lock \/ lock' = Free
    BY <1>4
  <2>8. lock' \in Procs \cup {Free}
    BY <2>1, <2>7
  <2> QED
    BY <2>4, <2>6, <2>8 DEF P, R
<1>5. Shape'
  BY <1>1, <1>2, <1>3, <1>8, <1>9, <1>10 DEF Shape
<1>6. At(p)'
  <2>1. CASE pc' = [pc EXCEPT ![p] = "publish"] /\ UNCHANGED lock
    <3>1. pc[p] = "link" /\ todo[p] # <<>> /\ pc'[p] = "publish"
      BY <1>1, <2>1 DEF LinkOf, Shape
    <3>2. expected[p] = NoManifest
      BY <1>1, <3>1 DEF At, Critical
    <3> QED
      BY <1>1, <1>2, <1>3, <2>1, <3>1, <3>2 DEF At, Critical
  <2>2. CASE pc' = [pc EXCEPT ![p] = "done"]
    BY <1>1, <2>2 DEF At, Critical, Shape
  <2> QED
    BY <1>4, <2>1, <2>2
<1>7. \A q \in Procs \ {p} : At(q)'
  <2>1. \A q \in Procs \ {p} : pc'[q] = pc[q] /\ todo'[q] = todo[q]
    BY <1>1, <1>4 DEF Shape
  <2> QED
    BY <1>3, <2>1, OthersStay
<1> QED
  BY <1>2, <1>5, <1>6, <1>7 DEF Typed

\* What publishing the manifest comes to: a success, the next look, or an error.
PersistOf(p) ==
  /\ lock = p /\ todo[p] = <<>> /\ Known(next[p]) /\ next[p].id = supplied[p].id
  /\ UNCHANGED <<content, published, supplied, expected, next, todo, applied, answer, ids, disturbed, base, edits>>
  /\ \/ UNCHANGED <<manifest, saved>>
     \/ pc[p] = "manifest" /\ manifest = NoManifest /\ manifest' = next[p] /\ saved' = saved \cup {next[p]}
  /\ \/ /\ pc' = [pc EXCEPT ![p] = "done"] /\ lock' = Free /\ result' = [result EXCEPT ![p] = "ok"]
        /\ manifest' = next[p] /\ Settle(p, "ok", answer[p])
     \/ pc[p] = "publish" /\ manifest = NoManifest /\ pc' = [pc EXCEPT ![p] = "manifest"] /\ UNCHANGED <<lock, result, settled>>
     \/ /\ pc' = [pc EXCEPT ![p] = "done"] /\ lock' = Free
        /\ \E how \in {"indeterminate", "error"} : result' = [result EXCEPT ![p] = how]
        /\ UNCHANGED settled

\* Persisting the manifest, as one of its outcomes.
LEMMA Persisting ==
  ASSUME Typed, NEW p \in Procs, CheckManifest(p) \/ LinkManifest(p)
  PROVE  PersistOf(p) /\ pc[p] \in {"publish", "manifest"}
<1>1. Shape /\ At(p) /\ pc[p] \in {"publish", "manifest"} /\ todo[p] = <<>>
      /\ UNCHANGED <<content, published, supplied, expected, next, todo, applied, answer, ids, disturbed, base, edits>>
  BY DEF Typed, CheckManifest, LinkManifest, disk, local, At
<1>2. lock = p /\ Known(next[p]) /\ next[p].id = supplied[p].id
  BY <1>1 DEF At, Critical
<1>3. ASSUME NEW some, Stop(p, some)
      PROVE  /\ pc' = [pc EXCEPT ![p] = "done"] /\ lock' = Free
             /\ \E how \in {"indeterminate", "error"} : result' = [result EXCEPT ![p] = how]
  BY <1>3 DEF Stop, Ends, Goto
<1>4. Finish(p) => /\ pc' = [pc EXCEPT ![p] = "done"] /\ lock' = Free /\ result' = [result EXCEPT ![p] = "ok"]
                   /\ Settle(p, "ok", answer[p])
  BY DEF Finish, Ends, Goto
<1>5. CASE CheckManifest(p)
  <2>1. UNCHANGED <<manifest, saved>> /\ pc[p] = "publish"
    BY <1>5 DEF CheckManifest, disk
  <2>2. \/ manifest = next[p] /\ Finish(p)
        \/ /\ manifest = NoManifest
           /\ Goto(p, "manifest")
           /\ UNCHANGED <<lock, result, settled>>
        \/ Stop(p, applied[p]) /\ UNCHANGED settled
    BY <1>5 DEF CheckManifest
  <2>3. CASE manifest = next[p] /\ Finish(p)
    BY <1>1, <1>2, <1>4, <2>1, <2>3, Zenon DEF PersistOf
  <2>4. CASE manifest = NoManifest /\ Goto(p, "manifest") /\ UNCHANGED <<lock, result, settled>>
    BY <1>1, <1>2, <2>1, <2>4, Zenon DEF PersistOf, Goto
  <2>5. CASE Stop(p, applied[p]) /\ UNCHANGED settled
    <3>1. /\ pc' = [pc EXCEPT ![p] = "done"] /\ lock' = Free
          /\ \E how \in {"indeterminate", "error"} : result' = [result EXCEPT ![p] = how]
      BY <1>3, <2>5
    <3> QED
      BY <1>1, <1>2, <2>1, <2>5, <3>1, Zenon DEF PersistOf
  <2> QED
    BY <1>1, <2>2, <2>3, <2>4, <2>5
<1>6. CASE LinkManifest(p)
  <2>1. pc[p] = "manifest"
    BY <1>6 DEF LinkManifest
  <2>2. \/ /\ manifest = NoManifest /\ manifest' = next[p] /\ saved' = saved \cup {next[p]}
           /\ Finish(p) \/ (Stop(p, TRUE) /\ UNCHANGED settled)
        \/ Stop(p, applied[p]) /\ UNCHANGED <<manifest, saved, settled>>
    BY <1>6 DEF LinkManifest
  <2>3. CASE manifest = NoManifest /\ manifest' = next[p] /\ saved' = saved \cup {next[p]} /\ Finish(p)
    BY <1>1, <1>2, <1>4, <2>1, <2>3, Zenon DEF PersistOf
  <2>4. CASE /\ manifest = NoManifest /\ manifest' = next[p] /\ saved' = saved \cup {next[p]}
             /\ Stop(p, TRUE) /\ UNCHANGED settled
    <3>1. /\ pc' = [pc EXCEPT ![p] = "done"] /\ lock' = Free
          /\ \E how \in {"indeterminate", "error"} : result' = [result EXCEPT ![p] = how]
      BY <1>3, <2>4
    <3> QED
      BY <1>1, <1>2, <2>1, <2>4, <3>1, Zenon DEF PersistOf
  <2>5. CASE Stop(p, applied[p]) /\ UNCHANGED <<manifest, saved, settled>>
    <3>1. /\ pc' = [pc EXCEPT ![p] = "done"] /\ lock' = Free
          /\ \E how \in {"indeterminate", "error"} : result' = [result EXCEPT ![p] = how]
      BY <1>3, <2>5
    <3>2. UNCHANGED <<manifest, saved>> /\ UNCHANGED settled
      BY <2>5
    <3> QED
      BY <1>1, <1>2, <2>1, <3>1, <3>2, Zenon DEF PersistOf
  <2> QED
    BY <1>1, <2>2, <2>3, <2>4, <2>5
<1> QED
  BY <1>5, <1>6

\* Typed and the publication of the manifest.
LEMMA TypedPersist ==
  ASSUME Typed, NEW p \in Procs, CheckManifest(p) \/ LinkManifest(p), UNCHANGED setting
  PROVE  Typed'
<1>1. Shape /\ At(p) /\ PersistOf(p) /\ pc[p] \in {"publish", "manifest"}
  BY Persisting DEF Typed
<1>2. /\ Procs' = Procs /\ Command' = Command /\ Paths' = Paths /\ Ids' = Ids /\ \A m : Known(m)' <=> Known(m)
  BY SettingStays
<1>3. /\ lock = p /\ Known(next[p]) /\ todo[p] = <<>>
      /\ UNCHANGED <<content, supplied, expected, next, todo, applied, answer, ids>>
      /\ \/ UNCHANGED <<manifest, saved>>
         \/ manifest' = next[p] /\ saved' = saved \cup {next[p]}
  BY <1>1 DEF PersistOf
<1>4. \/ /\ pc' = [pc EXCEPT ![p] = "done"] /\ lock' = Free
         /\ \E how \in {"ok", "indeterminate", "error"} : result' = [result EXCEPT ![p] = how]
      \/ pc' = [pc EXCEPT ![p] = "manifest"] /\ UNCHANGED <<lock, result>>
  BY <1>1 DEF PersistOf
<1>8. /\ pc' \in [Procs -> {"idle", "loaded", "publish", "link", "manifest", "done", "dead"}]
      /\ result' \in [Procs -> {"none", "ok", "error", "refused", "indeterminate"}]
      /\ lock' \in Procs \cup {Free}
  <2>1. /\ pc \in [Procs -> {"idle", "loaded", "publish", "link", "manifest", "done", "dead"}]
        /\ result \in [Procs -> {"none", "ok", "error", "refused", "indeterminate"}]
        /\ lock \in Procs \cup {Free}
    BY <1>1 DEF Shape
  <2>2. pc' \in [Procs -> {"idle", "loaded", "publish", "link", "manifest", "done", "dead"}]
    <3>1. pc' = [pc EXCEPT ![p] = "done"] \/ pc' = [pc EXCEPT ![p] = "manifest"]
      BY <1>4
    <3> QED
      BY <2>1, <3>1
  <2>3. result' \in [Procs -> {"none", "ok", "error", "refused", "indeterminate"}]
    <3>1. result' = result \/ \E how \in {"ok", "indeterminate", "error"} : result' = [result EXCEPT ![p] = how]
      BY <1>4
    <3> QED
      BY <2>1, <3>1
  <2>4. lock' \in Procs \cup {Free}
    BY <1>4, <2>1
  <2> QED
    BY <2>2, <2>3, <2>4
<1>9. (manifest' # NoManifest => Known(manifest')) /\ \A m \in saved' : Known(m)
  BY <1>1, <1>3 DEF Shape
<1>10. UNCHANGED <<content, supplied, expected, next, todo, applied, answer, ids>>
  BY <1>3
<1>5. Shape'
  BY <1>1, <1>2, <1>8, <1>9, <1>10 DEF Shape
<1>6. At(p)'
  <2>1. CASE pc' = [pc EXCEPT ![p] = "manifest"] /\ UNCHANGED lock
    BY <1>1, <1>2, <1>3, <2>1 DEF At, Critical, Shape
  <2>2. CASE pc' = [pc EXCEPT ![p] = "done"]
    BY <1>1, <2>2 DEF At, Critical, Shape
  <2> QED
    BY <1>4, <2>1, <2>2
<1>7. \A q \in Procs \ {p} : At(q)'
  <2>1. \A q \in Procs \ {p} : pc'[q] = pc[q]
    BY <1>1, <1>4 DEF Shape
  <2> QED
    BY <1>3, <2>1, OthersStay
<1> QED
  BY <1>2, <1>5, <1>6, <1>7 DEF Typed

\* Typed, a crash and another run.
LEMMA TypedRest ==
  ASSUME Typed, NEW p \in Procs, Crash(p) \/ RunAgain(p), UNCHANGED setting
  PROVE  Typed'
<1>1. Shape /\ UNCHANGED <<content, manifest, published, saved, supplied, expected, next, todo, applied, answer, ids>>
  BY DEF Typed, Crash, RunAgain, disk, local, past
<1>2. /\ Procs' = Procs /\ Command' = Command /\ Paths' = Paths /\ Ids' = Ids /\ \A m : Known(m)' <=> Known(m)
  BY SettingStays
<1>3. /\ \E to \in {"dead", "idle"} : pc' = [pc EXCEPT ![p] = to]
      /\ result' = result \/ result' = [result EXCEPT ![p] = "none"]
      /\ lock' = lock \/ (lock = p /\ lock' = Free)
  BY DEF Crash, RunAgain, Goto
<1>8. /\ pc' \in [Procs -> {"idle", "loaded", "publish", "link", "manifest", "done", "dead"}]
      /\ result' \in [Procs -> {"none", "ok", "error", "refused", "indeterminate"}]
      /\ lock' \in Procs \cup {Free}
  BY <1>1, <1>3 DEF Shape
<1>4. Shape'
  BY <1>1, <1>2, <1>8 DEF Shape
<1>5. At(p)'
  BY <1>1, <1>3 DEF At, Critical, Shape
<1>6. \A q \in Procs \ {p} : At(q)'
  <2>1. \A q \in Procs \ {p} : pc'[q] = pc[q]
    BY <1>1, <1>3 DEF Shape
  <2> QED
    BY <1>1, <1>3, <2>1, OthersStay
<1> QED
  BY <1>2, <1>4, <1>5, <1>6 DEF Typed

\* Typed and the edits of users.
LEMMA TypedEdit ==
  ASSUME Typed, EditFile \/ EditManifest, UNCHANGED setting
  PROVE  Typed'
<1>1. Shape /\ UNCHANGED <<lock, pc, supplied, expected, next, todo, applied, answer, result, published, saved, ids, base>>
  BY DEF Typed, EditFile, EditManifest, Edited, local
<1>2. /\ Procs' = Procs /\ Command' = Command /\ Paths' = Paths /\ Ids' = Ids /\ \A m : Known(m)' <=> Known(m)
  BY SettingStays
<1>3. content' \in [Paths -> Content \cup {Absent}]
  <2>1. \A path \in Paths : UserContent[path] \subseteq Content \cup {Absent}
    BY <1>1, BridgesAssumption DEF Shape, Paths, Initial, UserContent
  <2> QED
    BY <1>1, <2>1 DEF Shape, EditFile, EditManifest
<1>4. manifest' # NoManifest => Known(manifest')
  BY <1>1 DEF Shape, EditFile, EditManifest
<1>5. Shape'
  BY <1>1, <1>2, <1>3, <1>4 DEF Shape
<1>6. \A q \in Procs : At(q)'
  BY <1>1, <1>2 DEF Typed, At
<1> QED
  BY <1>2, <1>5, <1>6 DEF Typed

\* Every step keeps Typed.
LEMMA TypedStays ==
  ASSUME Typed, [Next]_vars
  PROVE  Typed'
<1>1. CASE UNCHANGED vars
  <2>1. UNCHANGED setting /\ UNCHANGED <<content, manifest, lock, pc, supplied, expected, next, todo, applied, answer, result, ids, saved>>
    BY <1>1 DEF vars
  <2>2. /\ Procs' = Procs /\ Command' = Command /\ Paths' = Paths /\ Ids' = Ids /\ \A m : Known(m)' <=> Known(m)
    BY <2>1, SettingStays
  <2>3. Shape'
    BY <2>1, <2>2 DEF Typed, Shape
  <2>4. \A q \in Procs : At(q)'
    BY <2>1, <2>2 DEF Typed, At
  <2> QED
    BY <2>2, <2>3, <2>4 DEF Typed
<1>2. CASE Next
  <2>1. UNCHANGED setting
    BY <1>2 DEF Next
  <2>2. CASE \E p \in Procs : Step(p) \/ Crash(p) \/ RunAgain(p)
    BY <2>1, <2>2, TypedLoad, TypedPrepare, TypedCheck, TypedLink, TypedPersist, TypedRest DEF Step
  <2>3. CASE EditFile \/ EditManifest
    BY <2>1, <2>3, TypedEdit
  <2> QED
    BY <1>2, <2>2, <2>3 DEF Next
<1> QED
  BY <1>1, <1>2

----
(* The ownership that is recorded, or is to be, is honest.                 *)

Honest(m, put) ==
  \A path, digest : Claimed(m, path, digest) =>
    <<path, digest>> \in put /\ (path \in Bindings => digest.block.store = m.id)

Pending(p) == {<<v.path, v.after>> : v \in ToSet(todo[p])}

HonestAt(p) ==
  /\ pc[p] \in Critical \cup {"loaded"} => Honest(supplied[p], published)
  /\ pc[p] \in Critical => Honest(next[p], published \cup Pending(p))

AllHonest ==
  /\ manifest # NoManifest => Honest(manifest, published)
  /\ \A m \in saved : Honest(m, published)
  /\ \A p \in Procs : HonestAt(p)

\* A claim stays honest when more is published.
LEMMA HonestGrows ==
  ASSUME NEW m, NEW put, NEW more, Honest(m, put), put \subseteq more
  PROVE  Honest(m, more)
<1>1. \A path, digest : Claimed(m, path, digest) =>
        <<path, digest>> \in put /\ (path \in Bindings => digest.block.store = m.id)
  BY Zenon DEF Honest
<1>2. \A path, digest : Claimed(m, path, digest) =>
        <<path, digest>> \in more /\ (path \in Bindings => digest.block.store = m.id)
  BY <1>1
<1> QED
  BY <1>2, Zenon DEF Honest

\* What a step of p leaves to the others, when more was put in the project at most.
LEMMA OthersHonest ==
  ASSUME AllHonest, NEW p, published \subseteq published',
         \A q \in Procs \ {p} : /\ pc'[q] = pc[q] /\ supplied'[q] = supplied[q] /\ next'[q] = next[q] /\ todo'[q] = todo[q]
  PROVE  \A q \in Procs \ {p} : HonestAt(q)'
<1> SUFFICES ASSUME NEW q \in Procs, q # p PROVE HonestAt(q)'
  OBVIOUS
<1>1. HonestAt(q) /\ pc'[q] = pc[q] /\ supplied'[q] = supplied[q] /\ next'[q] = next[q] /\ todo'[q] = todo[q]
  BY DEF AllHonest
<1>2. pc'[q] \in Critical \cup {"loaded"} => Honest(supplied'[q], published')
  BY <1>1, HonestGrows DEF HonestAt
<1>3. pc'[q] \in Critical => Honest(next'[q], published' \cup Pending(q)')
  <2>1. Pending(q)' = Pending(q)
    BY <1>1 DEF Pending
  <2>2. published \cup Pending(q) \subseteq published' \cup Pending(q)
    OBVIOUS
  <2> QED
    BY <1>1, <2>1, <2>2, HonestGrows DEF HonestAt
<1> QED
  BY <1>2, <1>3 DEF HonestAt

\* A step of one command leaves the claims of the others as they are.
LEMMA HonestStep ==
  ASSUME AllHonest, NEW p \in Procs, published \subseteq published', UNCHANGED <<setting, manifest, saved>>,
         \A q \in Procs \ {p} : /\ pc'[q] = pc[q] /\ supplied'[q] = supplied[q] /\ next'[q] = next[q] /\ todo'[q] = todo[q],
         HonestAt(p)'
  PROVE  AllHonest'
<1>1. \A q \in Procs \ {p} : HonestAt(q)'
  BY OthersHonest
<1>2. Procs' = Procs
  BY SettingStays
<1>3. (manifest' # NoManifest => Honest(manifest', published')) /\ \A m \in saved' : Honest(m, published')
  BY HonestGrows DEF AllHonest
<1> QED
  BY <1>1, <1>2, <1>3 DEF AllHonest

\* What is loaded is as honest as the manifest; a first manifest claims nothing.
LEMMA HonestLoad ==
  ASSUME Typed, AllHonest, NEW p \in Procs, Load(p), UNCHANGED setting
  PROVE  AllHonest'
<1>1. Shape
  BY DEF Typed
<1>2. UNCHANGED <<content, manifest, published, saved, next, todo>>
  BY DEF Load, disk
<1>3. \/ /\ manifest # NoManifest /\ supplied' = [supplied EXCEPT ![p] = manifest]
         /\ pc' = [pc EXCEPT ![p] = "loaded"]
      \/ /\ supplied' = [supplied EXCEPT ![p] = [id |-> ids', harness |-> <<>>]]
         /\ pc' = [pc EXCEPT ![p] = "loaded"]
      \/ /\ pc' = [pc EXCEPT ![p] = "done"] /\ UNCHANGED supplied
  BY DEF Load, Goto, Ends
<1>4. Honest([id |-> ids', harness |-> <<>>], published)
  <2> DEFINE m == [id |-> ids', harness |-> <<>>]
  <2>1. DOMAIN m.harness = {}
    OBVIOUS
  <2> HIDE DEF m
  <2>2. Honest(m, published)
    BY <2>1 DEF Honest, Claimed
  <2> QED
    BY <2>2 DEF m
<1>5. HonestAt(p)'
  <2> DEFINE m == [id |-> ids', harness |-> <<>>]
  <2>1. \/ pc'[p] = "loaded" /\ manifest # NoManifest /\ supplied'[p] = manifest
        \/ pc'[p] = "loaded" /\ supplied'[p] = m
        \/ pc'[p] = "done"
    BY <1>1, <1>3 DEF Shape
  <2>2. Honest(m, published)
    BY <1>4
  <2> HIDE DEF m
  <2>3. pc'[p] # "done" => Honest(supplied'[p], published')
    BY <1>2, <2>1, <2>2 DEF AllHonest
  <2> QED
    BY <2>1, <2>3 DEF HonestAt, Critical
<1>6. \A q \in Procs \ {p} : pc'[q] = pc[q] /\ supplied'[q] = supplied[q]
  BY <1>1, <1>3 DEF Shape
<1> QED
  BY <1>2, <1>5, <1>6, HonestStep

\* What is to be recorded is published or about to be.
LEMMA HonestPrepare ==
  ASSUME Typed, AllHonest, NEW p \in Procs, Prepare(p), UNCHANGED setting
  PROVE  AllHonest'
<1>1. Shape
  BY DEF Typed
<1>2. CASE PrepareFails(p)
  <2>1. pc' = [pc EXCEPT ![p] = "done"] /\ UNCHANGED <<manifest, published, saved, supplied, next, todo>>
    BY <1>2 DEF PrepareFails, Ends, Goto
  <2>2. pc'[p] = "done" /\ \A q \in Procs \ {p} : pc'[q] = pc[q]
    BY <1>1, <2>1 DEF Shape
  <2>3. HonestAt(p)'
    BY <2>2 DEF HonestAt, Critical
  <2> QED
    BY <2>1, <2>2, <2>3, HonestStep
<1>3. ASSUME NEW d, PrepareOf(p, d)
      PROVE  AllHonest'
  <2>1. /\ pc[p] = "loaded" /\ DecisionOf(d, p, Current(p)) /\ Known(Current(p))
        /\ UNCHANGED <<content, manifest, published, saved, supplied>>
    BY <1>3 DEF PrepareOf
  <2>2. CASE (Ends(p, "refused") \/ Ends(p, "ok")) /\ UNCHANGED <<next, todo>>
    <3>1. pc' = [pc EXCEPT ![p] = "done"]
      BY <2>2 DEF Ends, Goto
    <3>2. pc'[p] = "done" /\ \A q \in Procs \ {p} : pc'[q] = pc[q]
      BY <1>1, <3>1 DEF Shape
    <3>3. HonestAt(p)'
      BY <3>2 DEF HonestAt, Critical
    <3> QED
      BY <2>1, <2>2, <3>2, <3>3, HonestStep
  <2>3. CASE /\ d.verdict = "commit" /\ Goto(p, "publish")
             /\ next' = [next EXCEPT ![p] = d.next]
             /\ todo' = [todo EXCEPT ![p] = Changes(content, d.writes)]
    <3>1. /\ pc'[p] = "publish" /\ next'[p] = d.next /\ todo'[p] = Changes(content, d.writes)
          /\ \A q \in Procs \ {p} : pc'[q] = pc[q] /\ next'[q] = next[q] /\ todo'[q] = todo[q]
      BY <1>1, <2>3 DEF Goto, Shape
    <3>2. CommitOf(d, content, Version[p], Current(p), manifest # NoManifest, ToSet(Harnesses))
      BY <2>1, <2>3, Zenon DEF DecisionOf
    <3>3. /\ d.next.id = Current(p).id
          /\ d.writes \in Seq(Written(content))
          /\ \A v \in ToSet(d.writes) : v.after.block = Rendered(v.path, Version[p], Current(p).id)
          /\ \A path, digest : Claimed(d.next, path, digest) =>
               \/ Claimed(Current(p), path, digest)
               \/ \E v \in ToSet(d.writes) : v.path = path /\ v.after = digest /\ content[path] = Absent
      BY <3>2, Zenon DEF CommitOf
    <3>4. Honest(supplied[p], published) /\ Honest(Current(p), published)
      BY <2>1 DEF AllHonest, HonestAt, Critical, Current
    <3>5. ToSet(Changes(content, d.writes)) = {w \in ToSet(d.writes) : w.after # content[w.path]}
      BY <3>3, ChangesAre
    <3>6. ToSet(d.writes) \subseteq Written(content)
      BY <3>3 DEF ToSet
    <3>7. ASSUME NEW path, NEW digest, Claimed(d.next, path, digest)
          PROVE  /\ <<path, digest>> \in published \cup Pending(p)'
                 /\ path \in Bindings => digest.block.store = d.next.id
      <4>1. CASE Claimed(Current(p), path, digest)
        BY <3>3, <3>4, <4>1, Zenon DEF Honest
      <4>2. CASE \E v \in ToSet(d.writes) : v.path = path /\ v.after = digest /\ content[path] = Absent
        <5>1. PICK v \in ToSet(d.writes) : v.path = path /\ v.after = digest /\ content[path] = Absent
          BY <4>2
        <5>2. v.after # Absent
          BY <3>6, NullsAssumption DEF Written
        <5>3. v \in ToSet(todo'[p])
          BY <3>1, <3>5, <5>1, <5>2
        <5>4. <<path, digest>> \in Pending(p)'
          BY <5>1, <5>3 DEF Pending
        <5>5. Version[p] \in Nat /\ d.next.id \in Nat
          BY <1>1, <2>1, <3>3, SettingIs DEF Shape, Set, Known, IsManifest
        <5>6. path \in Bindings => digest.block.store = d.next.id
          BY <3>3, <5>1, <5>5, RenderedIs
        <5> QED
          BY <5>4, <5>6
      <4> QED
        BY <3>3, <3>7, <4>1, <4>2
    <3>8. Honest(d.next, published \cup Pending(p)')
      BY <3>7, Zenon DEF Honest
    <3>9. HonestAt(p)'
      BY <2>1, <3>1, <3>4, <3>8 DEF HonestAt
    <3> QED
      BY <2>1, <3>1, <3>9, HonestStep
  <2> QED
    BY <1>3, <2>2, <2>3 DEF PrepareOf
<1> QED
  BY <1>2, <1>3, Preparing

\* A sequence that is not empty holds its head and what its tail holds.
LEMMA HeadAndTail ==
  ASSUME NEW T, NEW s \in Seq(T), s # <<>>
  PROVE  ToSet(s) = {Head(s)} \cup ToSet(Tail(s))
<1>1. /\ Head(s) \in T /\ Tail(s) \in Seq(T) /\ Len(Tail(s)) = Len(s) - 1 /\ Len(s) \in Nat /\ Len(s) # 0
      /\ \A i \in 1 .. Len(Tail(s)) : Tail(s)[i] = s[i + 1]
      /\ Head(s) = s[1]
  <2>1. Head(s) \in T /\ Tail(s) \in Seq(T) /\ Len(Tail(s)) = Len(s) - 1
        /\ \A i \in 1 .. Len(Tail(s)) : Tail(s)[i] = s[i + 1]
    BY HeadTailProperties
  <2>2. Head(s) = s[1] /\ Len(s) \in Nat /\ Len(s) # 0
    BY EmptySeq
  <2> QED
    BY <2>1, <2>2
<1>2. ToSet(s) = {s[i] : i \in 1 .. Len(s)} /\ ToSet(Tail(s)) = {Tail(s)[i] : i \in 1 .. Len(s) - 1}
  <2> DEFINE t == Tail(s)
  <2>1. s \in Seq(T) /\ t \in Seq(T) /\ Len(t) = Len(s) - 1
    BY <1>1
  <2> HIDE DEF t
  <2>2. ToSet(s) = {s[i] : i \in 1 .. Len(s)} /\ ToSet(t) = {t[i] : i \in 1 .. Len(t)}
    BY <2>1 DEF ToSet
  <2> QED
    BY <2>1, <2>2 DEF t
<1>3. ASSUME NEW i \in 1 .. Len(s) PROVE s[i] = Head(s) \/ s[i] \in ToSet(Tail(s))
  <2>1. CASE i = 1
    BY <1>1, <2>1
  <2>2. CASE i # 1
    <3>1. i - 1 \in 1 .. Len(s) - 1 /\ (i - 1) + 1 = i
      BY <1>1, <2>2
    <3>2. Tail(s)[i - 1] = s[i]
      BY <1>1, <3>1
    <3> QED
      BY <1>2, <3>1, <3>2
  <2> QED
    BY <2>1, <2>2
<1>4. ASSUME NEW i \in 1 .. Len(s) - 1 PROVE Tail(s)[i] \in ToSet(s)
  <2>1. Tail(s)[i] = s[i + 1] /\ i + 1 \in 1 .. Len(s)
    BY <1>1
  <2> QED
    BY <1>2, <2>1
<1>5. Head(s) \in ToSet(s)
  BY <1>1, <1>2
<1> QED
  BY <1>2, <1>3, <1>4, <1>5

\* A file that is linked is published, whether the rest of the step succeeds or not.
LEMMA HonestLink ==
  ASSUME Typed, AllHonest, NEW p \in Procs, Link(p), UNCHANGED setting
  PROVE  AllHonest'
<1>1. Shape /\ LinkOf(p)
  BY Linking DEF Typed
<1>2. published \subseteq published' /\ UNCHANGED <<manifest, saved, supplied, next>> /\ todo[p] # <<>> /\ pc[p] = "link"
  BY <1>1 DEF LinkOf
<1>3. \/ /\ todo' = [todo EXCEPT ![p] = Tail(todo[p])] /\ pc' = [pc EXCEPT ![p] = "publish"]
         /\ published' = published \cup {<<Head(todo[p]).path, Head(todo[p]).after>>}
      \/ UNCHANGED todo /\ pc' = [pc EXCEPT ![p] = "done"]
  <2>1. pc' = [pc EXCEPT ![p] = "publish"] => pc'[p] = "publish"
    BY <1>1 DEF Shape
  <2>2. pc' = [pc EXCEPT ![p] = "done"] => pc'[p] = "done"
    BY <1>1 DEF Shape
  <2> QED
    BY <1>1, <2>1, <2>2 DEF LinkOf
<1>4. \A q \in Procs \ {p} : pc'[q] = pc[q] /\ todo'[q] = todo[q]
  BY <1>1, <1>3 DEF Shape
<1>5. HonestAt(p)'
  <2>1. CASE UNCHANGED todo /\ pc' = [pc EXCEPT ![p] = "done"]
    BY <1>1, <2>1 DEF HonestAt, Critical, Shape
  <2>2. CASE /\ todo' = [todo EXCEPT ![p] = Tail(todo[p])] /\ pc' = [pc EXCEPT ![p] = "publish"]
             /\ published' = published \cup {<<Head(todo[p]).path, Head(todo[p]).after>>}
    <3>1. Honest(supplied[p], published) /\ Honest(next[p], published \cup Pending(p))
      BY <1>2 DEF AllHonest, HonestAt, Critical
    <3>2. todo'[p] = Tail(todo[p]) /\ pc'[p] = "publish"
      BY <1>1, <2>2 DEF Shape
    <3>3. ToSet(todo[p]) = {Head(todo[p])} \cup ToSet(todo'[p])
      <4>1. todo[p] \in Seq([path : Paths, after : Content])
        BY <1>1 DEF Shape
      <4> QED
        BY <1>2, <3>2, <4>1, HeadAndTail
    <3>4. published \cup Pending(p) \subseteq published' \cup Pending(p)'
      BY <2>2, <3>3 DEF Pending
    <3>5. Honest(next'[p], published' \cup Pending(p)') /\ Honest(supplied'[p], published')
      BY <1>2, <3>1, <3>4, HonestGrows
    <3> QED
      BY <3>5 DEF HonestAt
  <2> QED
    BY <1>3, <2>1, <2>2
<1> QED
  BY <1>2, <1>4, <1>5, HonestStep

\* With nothing left to publish, the manifest claims what is published.
LEMMA HonestPersist ==
  ASSUME Typed, AllHonest, NEW p \in Procs, CheckManifest(p) \/ LinkManifest(p), UNCHANGED setting
  PROVE  AllHonest'
<1>1. Shape /\ PersistOf(p) /\ pc[p] \in {"publish", "manifest"}
  BY Persisting DEF Typed
<1>2. UNCHANGED <<content, published, supplied, next, todo>> /\ todo[p] = <<>>
      /\ \/ UNCHANGED <<manifest, saved>>
         \/ manifest' = next[p] /\ saved' = saved \cup {next[p]}
  BY <1>1 DEF PersistOf
<1>3. Honest(next[p], published)
  <2>1. ToSet(todo[p]) = {}
    BY <1>2 DEF ToSet
  <2>2. Pending(p) = {}
    BY <2>1 DEF Pending
  <2>3. Honest(next[p], published \cup Pending(p))
    BY <1>1 DEF AllHonest, HonestAt, Critical
  <2>4. published \cup Pending(p) = published
    BY <2>2
  <2> QED
    BY <2>3, <2>4
<1>4. pc'[p] \in {"done", "manifest"} /\ \A q \in Procs \ {p} : pc'[q] = pc[q]
  BY <1>1 DEF PersistOf, Shape
<1>5. HonestAt(p)'
  <2>1. Pending(p)' = Pending(p)
    BY <1>2 DEF Pending
  <2> QED
    BY <1>1, <1>2, <1>4, <2>1 DEF AllHonest, HonestAt, Critical
<1>6. \A q \in Procs \ {p} : HonestAt(q)'
  BY <1>2, <1>4, OthersHonest
<1>7. (manifest' # NoManifest => Honest(manifest', published')) /\ \A m \in saved' : Honest(m, published')
  BY <1>2, <1>3 DEF AllHonest
<1> QED
  BY <1>5, <1>6, <1>7, SettingStays DEF AllHonest

\* A crash claims nothing.
LEMMA HonestRest ==
  ASSUME Typed, AllHonest, NEW p \in Procs, Check(p) \/ Crash(p) \/ RunAgain(p), UNCHANGED setting
  PROVE  AllHonest'
<1>1. /\ Shape /\ UNCHANGED <<manifest, published, saved, supplied, next, todo>>
      /\ \E to \in {"link", "done", "dead", "idle"} : pc' = [pc EXCEPT ![p] = to]
      /\ pc'[p] \in Critical => pc[p] \in Critical
  <2>1. Shape
    BY DEF Typed
  <2>2. CASE Check(p)
    <3>1. UNCHANGED <<manifest, published, saved, supplied, next, todo>> /\ pc[p] = "publish"
      BY <2>2 DEF Check, disk, local
    <3>2. pc' = [pc EXCEPT ![p] = "link"] \/ pc' = [pc EXCEPT ![p] = "done"]
      BY <2>2 DEF Check, Stop, Ends, Goto
    <3> QED
      BY <2>1, <3>1, <3>2 DEF Critical
  <2>3. CASE Crash(p) \/ RunAgain(p)
    <3>1. UNCHANGED <<manifest, published, saved, supplied, next, todo>>
      BY <2>3 DEF Crash, RunAgain, disk, local
    <3>2. pc' = [pc EXCEPT ![p] = "dead"] \/ pc' = [pc EXCEPT ![p] = "idle"]
      BY <2>3 DEF Crash, RunAgain, Goto
    <3>3. pc'[p] \notin Critical
      BY <2>1, <3>2 DEF Shape, Critical
    <3> QED
      BY <2>1, <3>1, <3>2, <3>3
  <2> QED
    BY <2>2, <2>3
<1>2. \A q \in Procs \ {p} : pc'[q] = pc[q]
  BY <1>1 DEF Shape
<1>3. HonestAt(p)'
  <2>1. Pending(p)' = Pending(p)
    BY <1>1 DEF Pending
  <2>2. pc'[p] # "loaded"
    BY <1>1 DEF Shape
  <2> QED
    BY <1>1, <2>1, <2>2 DEF AllHonest, HonestAt, Critical
<1> QED
  BY <1>1, <1>2, <1>3, HonestStep

\* A user restores only what was saved.
LEMMA HonestEdit ==
  ASSUME Typed, AllHonest, EditFile \/ EditManifest, UNCHANGED setting
  PROVE  AllHonest'
<1>1. UNCHANGED <<pc, supplied, next, todo, published, saved>>
  BY DEF EditFile, EditManifest, Edited, local
<1>2. manifest' # NoManifest => Honest(manifest', published)
  BY DEF AllHonest, EditFile, EditManifest
<1>3. \A q \in Procs : HonestAt(q)'
  <2> SUFFICES ASSUME NEW q \in Procs PROVE HonestAt(q)'
    OBVIOUS
  <2>1. Pending(q)' = Pending(q)
    BY <1>1 DEF Pending
  <2> QED
    BY <1>1, <2>1 DEF AllHonest, HonestAt
<1> QED
  BY <1>1, <1>2, <1>3, SettingStays DEF AllHonest

\* Every step keeps the claims honest.
LEMMA HonestStays ==
  ASSUME Typed, AllHonest, [Next]_vars
  PROVE  AllHonest'
<1>1. CASE UNCHANGED vars
  <2>1. UNCHANGED setting /\ UNCHANGED <<pc, supplied, next, todo, published, saved, manifest>>
    BY <1>1 DEF vars
  <2>2. \A q \in Procs : HonestAt(q)'
    <3> SUFFICES ASSUME NEW q \in Procs PROVE HonestAt(q)'
      OBVIOUS
    <3>1. Pending(q)' = Pending(q)
      BY <2>1 DEF Pending
    <3> QED
      BY <2>1, <3>1 DEF AllHonest, HonestAt
  <2> QED
    BY <2>1, <2>2, SettingStays DEF AllHonest
<1>2. CASE Next
  <2>1. UNCHANGED setting
    BY <1>2 DEF Next
  <2>2. CASE \E p \in Procs : Step(p) \/ Crash(p) \/ RunAgain(p)
    BY <2>1, <2>2, HonestLoad, HonestPrepare, HonestLink, HonestPersist, HonestRest DEF Step
  <2>3. CASE EditFile \/ EditManifest
    BY <2>1, <2>3, HonestEdit
  <2> QED
    BY <1>2, <2>2, <2>3 DEF Next
<1> QED
  BY <1>1, <1>2

----
(* What a command that no edit disturbed knows, and what it reports.       *)

\* A write of a harness that is ready is recorded, and there or still to do.
Lands(p, h, w) ==
  \E v \in [path : Paths, after : Content] :
    /\ v.path = w.path
    /\ RecordedAs(next[p].harness[h], v)
    /\ content[v.path] = v.after \/ v \in ToSet(todo[p])

ReadyNext(p) ==
  \A h \in DOMAIN answer[p] : answer[p][h] = "ready" =>
    /\ h \in DOMAIN next[p].harness
    /\ next[p].harness[h].by = Version[p]
    /\ \A w \in ToSet(Writes[h]) : Lands(p, h, w)

ReadyThere(p, answers) ==
  \A h \in DOMAIN answers : answers[h] = "ready" =>
    /\ manifest # NoManifest
    /\ h \in DOMAIN manifest.harness
    /\ manifest.harness[h].by = Version[p]
    /\ \A w \in ToSet(Writes[h]) : InPlace(h, w)

SameStore(p) == manifest # NoManifest /\ supplied[p].id = manifest.id

AgreedAt(p) ==
  p \notin disturbed =>
    /\ pc[p] = "loaded" => supplied[p] = manifest \/ (Command[p] = "init" /\ DOMAIN supplied[p].harness = {})
    /\ pc[p] \in Critical => expected[p] = manifest
    /\ pc[p] \in Critical /\ Command[p] # "deactivate" => ReadyNext(p)
    /\ pc[p] = "done" /\ result[p] = "ok" /\ Command[p] # "deactivate" => ReadyThere(p, answer[p])
    /\ pc[p] = "done" /\ result[p] = "ok" /\ Command[p] = "init" => SameStore(p)

Agreed == \A p \in Procs : AgreedAt(p)

\* Nothing that is there goes away.
Grows ==
  /\ \A path \in Paths : content[path] # Absent => content'[path] = content[path]
  /\ manifest # NoManifest => manifest' = manifest

\* What is in place stays in place when nothing is replaced.
LEMMA ReadyStays ==
  ASSUME Typed, NEW p \in Procs, Grows, UNCHANGED setting, answer'[p] = answer[p], ReadyThere(p, answer[p])
  PROVE  ReadyThere(p, answer[p])'
<1> SUFFICES ASSUME NEW h \in DOMAIN answer[p], answer[p][h] = "ready"
             PROVE  /\ manifest' # NoManifest
                    /\ h \in DOMAIN manifest'.harness
                    /\ manifest'.harness[h].by = Version'[p]
                    /\ \A w \in ToSet(Writes[h]) : InPlace(h, w)'
  BY DEF ReadyThere
<1>1. manifest # NoManifest /\ manifest' = manifest
  BY DEF ReadyThere, Grows
<1>2. h \in DOMAIN manifest.harness /\ manifest.harness[h].by = Version[p] /\ \A w \in ToSet(Writes[h]) : InPlace(h, w)
  BY DEF ReadyThere
<1>3. Version' = Version
  BY SettingStays
<1>4. ASSUME NEW w \in ToSet(Writes[h]) PROVE InPlace(h, w)'
  <2>1. InPlace(h, w)
    BY <1>2
  <2>2. content[w.path] # Absent
    BY <2>1 DEF InPlace
  <2>3. w.path \in Paths
    <3>1. Shape /\ Known(manifest) /\ Order(Harnesses, content)
      BY <1>1, SettingIs DEF Typed, Shape, Set
    <3>2. Found(content, h) /\ DOMAIN content = Paths
      BY <1>2, <3>1 DEF Known, Order, Shape
    <3> QED
      BY <3>2 DEF Found
  <2>4. content'[w.path] = content[w.path]
    BY <2>2, <2>3 DEF Grows
  <2> QED
    BY <1>1, <2>1, <2>4 DEF InPlace
<1> QED
  BY <1>1, <1>2, <1>3, <1>4

\* A write that is there or still to do stays so when writes are done.
LEMMA LandsStay ==
  ASSUME NEW p, NEW h, NEW w, Lands(p, h, w), UNCHANGED setting, next'[p] = next[p], Grows,
         \A v \in ToSet(todo[p]) : v \in ToSet(todo'[p]) \/ content'[v.path] = v.after
  PROVE  Lands(p, h, w)'
<1>1. PICK v \in [path : Paths, after : Content] :
        /\ v.path = w.path
        /\ RecordedAs(next[p].harness[h], v)
        /\ content[v.path] = v.after \/ v \in ToSet(todo[p])
  BY DEF Lands
<1>2. v.after # Absent /\ v.path \in Paths
  BY NullsAssumption
<1>3. content'[v.path] = v.after \/ v \in ToSet(todo'[p])
  BY <1>1, <1>2 DEF Grows
<1>4. Paths' = Paths
  BY SettingStays
<1>5. v \in [path : Paths', after : Content]
  BY <1>4
<1>6. RecordedAs(next'[p].harness[h], v)
  BY <1>1
<1> QED
  BY <1>1, <1>3, <1>5, <1>6 DEF Lands

\* What a step of p leaves to the others.
LEMMA OthersAgree ==
  ASSUME Typed, Agreed, NEW p \in Procs, UNCHANGED setting, Grows, UNCHANGED <<content, manifest>> \/ lock = p,
         \A q \in Procs \ {p} : /\ pc'[q] = pc[q] /\ supplied'[q] = supplied[q] /\ next'[q] = next[q]
                                /\ expected'[q] = expected[q] /\ todo'[q] = todo[q]
                                /\ answer'[q] = answer[q] /\ result'[q] = result[q],
         disturbed' \ {p} = disturbed \ {p}
  PROVE  \A q \in Procs \ {p} : AgreedAt(q)'
<1> SUFFICES ASSUME NEW q \in Procs, q # p, q \notin disturbed' PROVE AgreedAt(q)'
  BY DEF AgreedAt
<1>1. /\ pc'[q] = pc[q] /\ supplied'[q] = supplied[q] /\ next'[q] = next[q] /\ expected'[q] = expected[q]
      /\ todo'[q] = todo[q] /\ answer'[q] = answer[q] /\ result'[q] = result[q] /\ q \notin disturbed
  OBVIOUS
<1>2. AgreedAt(q) /\ At(q)
  BY DEF Agreed, Typed
<1>3. Command' = Command /\ Version' = Version
  BY SettingStays
<1>4. pc[q] \in Critical => UNCHANGED <<content, manifest>>
  BY <1>2 DEF At
<1>5. pc[q] = "loaded" => supplied'[q] = manifest' \/ (Command[q] = "init" /\ DOMAIN supplied'[q].harness = {})
  <2> SUFFICES ASSUME pc[q] = "loaded", supplied[q] = manifest
               PROVE  supplied'[q] = manifest'
    BY <1>1, <1>2 DEF AgreedAt
  <2>1. manifest # NoManifest
    BY <1>2, NoManifestIs DEF At, Known
  <2> QED
    BY <1>1, <2>1 DEF Grows
<1>6. pc[q] \in Critical => expected'[q] = manifest'
  BY <1>1, <1>2, <1>4 DEF AgreedAt
<1>7. pc[q] \in Critical /\ Command[q] # "deactivate" => ReadyNext(q)'
  <2> SUFFICES ASSUME pc[q] \in Critical, Command[q] # "deactivate", NEW h \in DOMAIN answer[q], answer[q][h] = "ready"
               PROVE  /\ h \in DOMAIN next'[q].harness
                      /\ next'[q].harness[h].by = Version'[q]
                      /\ \A w \in ToSet(Writes[h]) : Lands(q, h, w)'
    BY <1>1 DEF ReadyNext
  <2>1. /\ h \in DOMAIN next[q].harness
        /\ next[q].harness[h].by = Version[q]
        /\ \A w \in ToSet(Writes[h]) : Lands(q, h, w)
    BY <1>1, <1>2 DEF AgreedAt, ReadyNext
  <2> QED
    BY <1>1, <1>3, <2>1, LandsStay
<1>8. pc[q] = "done" /\ result[q] = "ok" /\ Command[q] # "deactivate" => ReadyThere(q, answer[q])'
  BY <1>1, <1>2, ReadyStays DEF AgreedAt
<1>9. pc[q] = "done" /\ result[q] = "ok" /\ Command[q] = "init" => SameStore(q)'
  BY <1>1, <1>2 DEF AgreedAt, SameStore, Grows
<1> QED
  BY <1>1, <1>3, <1>5, <1>6, <1>7, <1>8, <1>9 DEF AgreedAt

\* A step that replaces nothing, and changes files only under the lock, leaves the others agreed.
LEMMA AgreedStep ==
  ASSUME Typed, Agreed, NEW p \in Procs, UNCHANGED setting, Grows, UNCHANGED <<content, manifest>> \/ lock = p,
         \A q \in Procs \ {p} : /\ pc'[q] = pc[q] /\ supplied'[q] = supplied[q] /\ next'[q] = next[q]
                                /\ expected'[q] = expected[q] /\ todo'[q] = todo[q]
                                /\ answer'[q] = answer[q] /\ result'[q] = result[q],
         disturbed' \ {p} = disturbed \ {p},
         AgreedAt(p)'
  PROVE  Agreed'
<1>1. \A q \in Procs \ {p} : AgreedAt(q)'
  BY OthersAgree
<1>2. Procs' = Procs
  BY SettingStays
<1> QED
  BY <1>1, <1>2 DEF Agreed

\* What does not change does not go away.
LEMMA SameGrows ==
  ASSUME UNCHANGED <<content, manifest>>
  PROVE  Grows
BY DEF Grows

\* A command that loads knows the manifest, or that there is none.
LEMMA AgreedLoad ==
  ASSUME Typed, Agreed, NEW p \in Procs, Load(p), UNCHANGED setting
  PROVE  Agreed'
<1>1. Shape
  BY DEF Typed
<1>2. UNCHANGED <<content, manifest, lock, expected, next, todo, answer>> /\ disturbed' = disturbed \ {p}
  BY DEF Load, disk
<1>3. \/ /\ supplied' = [supplied EXCEPT ![p] = manifest]
         /\ pc' = [pc EXCEPT ![p] = "loaded"] /\ UNCHANGED result
      \/ /\ Command[p] = "init" /\ supplied' = [supplied EXCEPT ![p] = [id |-> ids', harness |-> <<>>]]
         /\ pc' = [pc EXCEPT ![p] = "loaded"] /\ UNCHANGED result
      \/ /\ pc' = [pc EXCEPT ![p] = "done"] /\ result' = [result EXCEPT ![p] = "error"] /\ UNCHANGED supplied
  BY DEF Load, Goto, Ends
<1>4. \A q \in Procs \ {p} : pc'[q] = pc[q] /\ supplied'[q] = supplied[q] /\ result'[q] = result[q]
  BY <1>1, <1>3 DEF Shape
<1>5. \/ pc'[p] = "loaded" /\ supplied'[p] = manifest
      \/ pc'[p] = "loaded" /\ Command[p] = "init" /\ DOMAIN supplied'[p].harness = {}
      \/ pc'[p] = "done" /\ result'[p] = "error"
  BY <1>1, <1>3 DEF Shape
<1>6. AgreedAt(p)'
  BY <1>2, <1>5, SettingStays DEF AgreedAt, Critical
<1> QED
  BY <1>2, <1>4, <1>6, SameGrows, AgreedStep

\* A decision is about the manifest that is there: nobody edited it since it was loaded.
LEMMA AgreedPrepare ==
  ASSUME Typed, Agreed, NEW p \in Procs, Prepare(p), UNCHANGED setting
  PROVE  Agreed'
<1>1. Shape /\ AgreedAt(p)
  BY DEF Typed, Agreed
<1>2. Command' = Command /\ Version' = Version /\ Paths' = Paths
  BY SettingStays
<1>3. CASE PrepareFails(p)
  <2>1. pc' = [pc EXCEPT ![p] = "done"] /\ result' = [result EXCEPT ![p] = "error"]
        /\ UNCHANGED <<content, manifest, lock, supplied, expected, next, todo, answer, disturbed>>
    BY <1>3 DEF PrepareFails, Ends, Goto
  <2>2. pc'[p] = "done" /\ result'[p] = "error"
        /\ \A q \in Procs \ {p} : pc'[q] = pc[q] /\ result'[q] = result[q]
    BY <1>1, <2>1 DEF Shape
  <2>3. AgreedAt(p)'
    BY <2>2 DEF AgreedAt, Critical
  <2> QED
    BY <2>1, <2>2, <2>3, SameGrows, AgreedStep
<1>4. ASSUME NEW d, PrepareOf(p, d)
      PROVE  Agreed'
  <2>1. /\ pc[p] = "loaded" /\ lock = Free /\ DecisionOf(d, p, Current(p)) /\ Known(Current(p))
        /\ Current(p).id = supplied[p].id
        /\ UNCHANGED <<content, manifest, supplied, disturbed>>
        /\ answer' = [answer EXCEPT ![p] = d.answer] /\ answer'[p] = d.answer
        /\ \A q \in Procs \ {p} : answer'[q] = answer[q]
    BY <1>1, <1>4 DEF PrepareOf, Shape
  <2>2. CASE d.verdict = "refused" /\ Ends(p, "refused") /\ UNCHANGED <<lock, expected, next, todo>>
    <3>1. pc'[p] = "done" /\ result'[p] = "refused" /\ \A q \in Procs \ {p} : pc'[q] = pc[q] /\ result'[q] = result[q]
      BY <1>1, <2>2 DEF Shape, Ends, Goto
    <3>2. AgreedAt(p)'
      BY <3>1 DEF AgreedAt, Critical
    <3> QED
      BY <2>1, <2>2, <3>1, <3>2, SameGrows, AgreedStep
  <2>3. CASE d.verdict = "answer" /\ Ends(p, "ok") /\ UNCHANGED <<lock, expected, next, todo>>
    <3>1. pc'[p] = "done" /\ \A q \in Procs \ {p} : pc'[q] = pc[q] /\ result'[q] = result[q]
      BY <1>1, <2>3 DEF Shape, Ends, Goto
    <3>2. Command[p] = "init" => manifest # NoManifest
      BY <2>1, <2>3, Zenon DEF DecisionOf
    <3>3. Command[p] = "init" => SameStore(p)
      BY <2>1, <3>2 DEF SameStore, Current
    <3>4. ASSUME p \notin disturbed, Command[p] # "deactivate", NEW h \in DOMAIN d.answer, d.answer[h] = "ready"
          PROVE  /\ manifest # NoManifest
                 /\ h \in DOMAIN manifest.harness
                 /\ manifest.harness[h].by = Version[p]
                 /\ \A w \in ToSet(Writes[h]) : InPlace(h, w)
      <4>1. AnswerOf(d, content, Version[p], Current(p))
        BY <2>1, <2>3, <3>4, Zenon DEF DecisionOf
      <4>2. /\ h \in DOMAIN Current(p).harness /\ ReadyIn(d, Current(p).harness[h], Version[p], h)
            /\ \A v \in ToSet(d.writes) : (\E w \in ToSet(Writes[h]) : w.path = v.path) =>
                 v.after = content[v.path] /\ v.after # Absent
        BY <3>4, <4>1, Zenon DEF AnswerOf
      <4>3. manifest # NoManifest
        BY <1>1, <2>1, <3>2, <3>4, <4>2, NoManifestIs DEF AgreedAt, Current, Known
      <4>4. Current(p) = manifest
        BY <4>3 DEF Current
      <4>5. ASSUME NEW w \in ToSet(Writes[h]) PROVE InPlace(h, w)
        <5>1. PICK v \in ToSet(d.writes) : v.path = w.path /\ RecordedAs(manifest.harness[h], v)
          BY <4>2, <4>4 DEF ReadyIn
        <5>2. v.after = content[w.path] /\ v.after # Absent
          BY <4>2, <5>1
        <5> QED
          BY <5>1, <5>2 DEF RecordedAs, InPlace
      <4> QED
        BY <4>2, <4>3, <4>4, <4>5 DEF ReadyIn
    <3>5. p \notin disturbed /\ Command[p] # "deactivate" => ReadyThere(p, answer[p])'
      <4>1. \A h, w : InPlace(h, w)' <=> InPlace(h, w)
        BY <2>1 DEF InPlace
      <4> QED
        BY <1>2, <2>1, <3>4, <4>1 DEF ReadyThere
    <3>6. SameStore(p)' <=> SameStore(p)
      BY <2>1 DEF SameStore
    <3>7. AgreedAt(p)'
      BY <1>2, <2>1, <3>1, <3>3, <3>5, <3>6 DEF AgreedAt, Critical
    <3> QED
      BY <2>1, <2>3, <3>1, <3>7, SameGrows, AgreedStep
  <2>4. CASE /\ d.verdict = "commit" /\ Goto(p, "publish")
             /\ expected' = [expected EXCEPT ![p] = manifest]
             /\ next' = [next EXCEPT ![p] = d.next]
             /\ todo' = [todo EXCEPT ![p] = Changes(content, d.writes)]
             /\ UNCHANGED result
    <3>1. /\ pc'[p] = "publish" /\ expected'[p] = manifest /\ next'[p] = d.next
          /\ todo'[p] = Changes(content, d.writes)
          /\ \A q \in Procs \ {p} : /\ pc'[q] = pc[q] /\ next'[q] = next[q] /\ expected'[q] = expected[q]
                                    /\ todo'[q] = todo[q]
      BY <1>1, <2>4 DEF Shape, Goto
    <3>2. /\ CommitOf(d, content, Version[p], Current(p), manifest # NoManifest, ToSet(Harnesses))
          /\ Command[p] # "deactivate" => AllReady(d, Version[p])
      BY <2>1, <2>4, Zenon DEF DecisionOf
    <3>3. d.writes \in Seq(Written(content))
      BY <3>2, Zenon DEF CommitOf
    <3>4. ToSet(d.writes) \subseteq [path : Paths, after : Content]
      <4>1. Written(content) = [path : Paths, after : Content]
        BY <1>1 DEF Shape, Written
      <4>2. \A v \in ToSet(d.writes) : \E k \in 1 .. Len(d.writes) : v = d.writes[k]
        BY <3>3 DEF ToSet
      <4>3. \A k \in 1 .. Len(d.writes) : d.writes[k] \in Written(content)
        <5> DEFINE T == Written(content)
        <5>1. d.writes \in Seq(T)
          BY <3>3
        <5> HIDE DEF T
        <5>2. \A k \in 1 .. Len(d.writes) : d.writes[k] \in T
          BY <5>1
        <5> QED
          BY <5>2 DEF T
      <4> QED
        BY <4>1, <4>2, <4>3
    <3>5. ToSet(todo'[p]) = {w \in ToSet(d.writes) : w.after # content[w.path]}
      BY <3>1, <3>3, ChangesAre
    <3>6. ASSUME Command[p] # "deactivate", NEW h \in DOMAIN d.answer, d.answer[h] = "ready"
          PROVE  /\ h \in DOMAIN d.next.harness /\ d.next.harness[h].by = Version[p]
                 /\ \A w \in ToSet(Writes[h]) : Lands(p, h, w)'
      <4>1. h \in DOMAIN d.next.harness /\ ReadyIn(d, d.next.harness[h], Version[p], h)
        BY <3>2, <3>6, Zenon DEF AllReady
      <4>2. ASSUME NEW w \in ToSet(Writes[h]) PROVE Lands(p, h, w)'
        <5>1. PICK v \in ToSet(d.writes) : v.path = w.path /\ RecordedAs(d.next.harness[h], v)
          BY <4>1 DEF ReadyIn
        <5>2. content'[v.path] = v.after \/ v \in ToSet(todo'[p])
          BY <2>1, <3>5
        <5>3. v \in [path : Paths', after : Content]
          BY <1>2, <3>4
        <5>4. RecordedAs(next'[p].harness[h], v)
          BY <3>1, <5>1
        <5> QED
          BY <5>1, <5>2, <5>3, <5>4 DEF Lands
      <4> QED
        BY <4>1, <4>2 DEF ReadyIn
    <3>7. Command[p] # "deactivate" => ReadyNext(p)'
      BY <1>2, <2>1, <3>1, <3>6 DEF ReadyNext
    <3>8. AgreedAt(p)'
      BY <1>2, <2>1, <3>1, <3>7 DEF AgreedAt
    <3> QED
      BY <2>1, <2>4, <3>1, <3>8, SameGrows, AgreedStep
  <2> QED
    BY <1>4, <2>2, <2>3, <2>4 DEF PrepareOf
<1> QED
  BY <1>3, <1>4, Preparing

\* A file that is linked is no longer to do, and there.
LEMMA AgreedLink ==
  ASSUME Typed, Agreed, NEW p \in Procs, Link(p), UNCHANGED setting
  PROVE  Agreed'
<1>1. Shape /\ AgreedAt(p) /\ LinkOf(p)
  BY Linking DEF Typed, Agreed
<1>2. /\ Command' = Command /\ Version' = Version
      /\ lock = p /\ todo[p] # <<>> /\ pc[p] = "link" /\ Head(todo[p]) \in [path : Paths, after : Content]
      /\ UNCHANGED <<manifest, supplied, expected, next, answer, disturbed>>
  BY <1>1, SettingStays DEF LinkOf
<1>3. Grows
  <2>1. \/ UNCHANGED content
        \/ /\ content[Head(todo[p]).path] = Absent
           /\ content' = [content EXCEPT ![Head(todo[p]).path] = Head(todo[p]).after]
    BY <1>1 DEF LinkOf
  <2>2. \A path \in Paths : content[path] # Absent => content'[path] = content[path]
    BY <1>1, <2>1 DEF Shape
  <2> QED
    BY <1>2, <2>2 DEF Grows
<1>4. \/ /\ todo' = [todo EXCEPT ![p] = Tail(todo[p])] /\ pc' = [pc EXCEPT ![p] = "publish"] /\ UNCHANGED result
         /\ content'[Head(todo[p]).path] = Head(todo[p]).after
      \/ /\ UNCHANGED todo /\ pc' = [pc EXCEPT ![p] = "done"]
         /\ \E how \in {"indeterminate", "error"} : result' = [result EXCEPT ![p] = how]
  <2>1. pc' = [pc EXCEPT ![p] = "publish"] => pc' # [pc EXCEPT ![p] = "done"]
    <3>1. [pc EXCEPT ![p] = "publish"][p] = "publish" /\ [pc EXCEPT ![p] = "done"][p] = "done"
      BY <1>1 DEF Shape
    <3> QED
      BY <3>1
  <2>2. content' = [content EXCEPT ![Head(todo[p]).path] = Head(todo[p]).after]
        => content'[Head(todo[p]).path] = Head(todo[p]).after
    BY <1>1, <1>2 DEF Shape
  <2> QED
    BY <1>1, <2>1, <2>2 DEF LinkOf
<1>5. \A q \in Procs \ {p} : pc'[q] = pc[q] /\ todo'[q] = todo[q] /\ result'[q] = result[q]
  BY <1>1, <1>4 DEF Shape
<1>6. AgreedAt(p)'
  <2>1. CASE pc' = [pc EXCEPT ![p] = "done"] /\ \E how \in {"indeterminate", "error"} : result' = [result EXCEPT ![p] = how]
    <3>1. pc'[p] = "done" /\ result'[p] # "ok"
      BY <1>1, <2>1 DEF Shape
    <3> QED
      BY <3>1 DEF AgreedAt, Critical
  <2>2. CASE /\ todo' = [todo EXCEPT ![p] = Tail(todo[p])] /\ pc' = [pc EXCEPT ![p] = "publish"] /\ UNCHANGED result
             /\ content'[Head(todo[p]).path] = Head(todo[p]).after
    <3>1. pc'[p] = "publish" /\ todo'[p] = Tail(todo[p]) /\ todo[p] \in Seq([path : Paths, after : Content])
      BY <1>1, <2>2 DEF Shape
    <3>2. ToSet(todo[p]) = {Head(todo[p])} \cup ToSet(todo'[p])
      BY <1>2, <3>1, HeadAndTail
    <3>3. \A v \in ToSet(todo[p]) : v \in ToSet(todo'[p]) \/ content'[v.path] = v.after
      BY <2>2, <3>2
    <3>4. p \notin disturbed /\ Command[p] # "deactivate" => ReadyNext(p)'
      <4> SUFFICES ASSUME p \notin disturbed, Command[p] # "deactivate", NEW h \in DOMAIN answer[p], answer[p][h] = "ready"
                   PROVE  /\ h \in DOMAIN next'[p].harness
                          /\ next'[p].harness[h].by = Version'[p]
                          /\ \A w \in ToSet(Writes[h]) : Lands(p, h, w)'
        BY <1>2 DEF ReadyNext
      <4>1. /\ h \in DOMAIN next[p].harness
            /\ next[p].harness[h].by = Version[p]
            /\ \A w \in ToSet(Writes[h]) : Lands(p, h, w)
        BY <1>1, <1>2 DEF AgreedAt, ReadyNext, Critical
      <4> QED
        BY <1>2, <1>3, <3>3, <4>1, LandsStay
    <3> QED
      BY <1>1, <1>2, <3>1, <3>4 DEF AgreedAt, Critical
  <2> QED
    BY <1>4, <2>1, <2>2
<1> QED
  BY <1>2, <1>3, <1>5, <1>6, AgreedStep

\* A command that ends well leaves the manifest it was to write, and all of its files.
LEMMA AgreedPersist ==
  ASSUME Typed, Agreed, NEW p \in Procs, CheckManifest(p) \/ LinkManifest(p), UNCHANGED setting
  PROVE  Agreed'
<1>1. Shape /\ At(p) /\ AgreedAt(p) /\ PersistOf(p) /\ pc[p] \in {"publish", "manifest"}
  BY Persisting DEF Typed, Agreed
<1>2. /\ Command' = Command /\ Version' = Version
      /\ lock = p /\ todo[p] = <<>> /\ next[p].id = supplied[p].id /\ Known(next[p])
      /\ UNCHANGED <<content, supplied, expected, next, todo, answer, disturbed>>
      /\ manifest' = manifest \/ (manifest = NoManifest /\ manifest' = next[p])
  BY <1>1, SettingStays DEF PersistOf
<1>3. Grows
  BY <1>2 DEF Grows
<1>4. \/ /\ pc' = [pc EXCEPT ![p] = "done"] /\ result' = [result EXCEPT ![p] = "ok"] /\ manifest' = next[p]
      \/ /\ pc[p] = "publish" /\ manifest = NoManifest
         /\ pc' = [pc EXCEPT ![p] = "manifest"] /\ UNCHANGED result
      \/ /\ pc' = [pc EXCEPT ![p] = "done"]
         /\ \E how \in {"indeterminate", "error"} : result' = [result EXCEPT ![p] = how]
  BY <1>1 DEF PersistOf
<1>5. \A q \in Procs \ {p} : pc'[q] = pc[q] /\ result'[q] = result[q]
  BY <1>1, <1>4 DEF Shape
<1>6. AgreedAt(p)'
  <2>1. CASE /\ pc' = [pc EXCEPT ![p] = "done"] /\ result' = [result EXCEPT ![p] = "ok"] /\ manifest' = next[p]
    <3>1. pc'[p] = "done"
      BY <1>1, <2>1 DEF Shape
    <3>2. manifest' # NoManifest
      BY <1>2, <2>1, NoManifestIs DEF Known
    <3>3. SameStore(p)'
      BY <1>2, <2>1, <3>2 DEF SameStore
    <3>4. ASSUME p \notin disturbed, Command[p] # "deactivate" PROVE ReadyThere(p, answer[p])'
      <4>1. ReadyNext(p)
        BY <1>1, <3>4 DEF AgreedAt, Critical
      <4> SUFFICES ASSUME NEW h \in DOMAIN answer[p], answer[p][h] = "ready"
                   PROVE  /\ manifest' # NoManifest
                          /\ h \in DOMAIN manifest'.harness
                          /\ manifest'.harness[h].by = Version'[p]
                          /\ \A w \in ToSet(Writes[h]) : InPlace(h, w)'
        BY <1>2 DEF ReadyThere
      <4>2. h \in DOMAIN next[p].harness /\ next[p].harness[h].by = Version[p] /\ \A w \in ToSet(Writes[h]) : Lands(p, h, w)
        BY <4>1 DEF ReadyNext
      <4>3. ASSUME NEW w \in ToSet(Writes[h]) PROVE InPlace(h, w)'
        <5>1. PICK v \in [path : Paths, after : Content] :
                /\ v.path = w.path
                /\ RecordedAs(next[p].harness[h], v)
                /\ content[v.path] = v.after \/ v \in ToSet(todo[p])
          BY <4>2 DEF Lands
        <5>2. ToSet(todo[p]) = {}
          BY <1>2 DEF ToSet
        <5>3. v.after # Absent /\ content'[w.path] = v.after
          BY <1>2, <5>1, <5>2, NullsAssumption
        <5> QED
          BY <2>1, <5>1, <5>3 DEF InPlace, RecordedAs
      <4> QED
        BY <1>2, <2>1, <3>2, <4>2, <4>3
    <3> QED
      BY <1>2, <3>1, <3>3, <3>4 DEF AgreedAt, Critical
  <2>2. CASE /\ pc[p] = "publish" /\ manifest = NoManifest /\ pc' = [pc EXCEPT ![p] = "manifest"] /\ UNCHANGED result
    <3>1. pc'[p] = "manifest" /\ manifest' = manifest
      BY <1>1, <2>2, Persisting DEF Shape, CheckManifest, LinkManifest, disk
    <3>2. ReadyNext(p)' <=> ReadyNext(p)
      <4>1. \A h, w : Lands(p, h, w)' <=> Lands(p, h, w)
        <5>1. Paths' = Paths
          BY SettingStays
        <5> QED
          BY <1>2, <5>1 DEF Lands
      <4> QED
        BY <1>2, <4>1 DEF ReadyNext
    <3> QED
      BY <1>1, <1>2, <2>2, <3>1, <3>2 DEF AgreedAt, Critical
  <2>3. CASE /\ pc' = [pc EXCEPT ![p] = "done"] /\ \E how \in {"indeterminate", "error"} : result' = [result EXCEPT ![p] = how]
    <3>1. pc'[p] = "done" /\ result'[p] # "ok"
      BY <1>1, <2>3 DEF Shape
    <3> QED
      BY <3>1 DEF AgreedAt, Critical
  <2> QED
    BY <1>4, <2>1, <2>2, <2>3
<1> QED
  BY <1>2, <1>3, <1>5, <1>6, AgreedStep

\* A failure reports nothing.
LEMMA AgreedRest ==
  ASSUME Typed, Agreed, NEW p \in Procs, Check(p) \/ Crash(p) \/ RunAgain(p), UNCHANGED setting
  PROVE  Agreed'
<1>1. Shape /\ AgreedAt(p) /\ UNCHANGED <<content, manifest, supplied, expected, next, todo, answer, disturbed>>
  BY DEF Typed, Agreed, Check, Crash, RunAgain, disk, local, past
<1>2. \/ pc[p] = "publish" /\ pc' = [pc EXCEPT ![p] = "link"] /\ UNCHANGED result
      \/ /\ pc' = [pc EXCEPT ![p] = "done"]
         /\ \E how \in {"indeterminate", "error"} : result' = [result EXCEPT ![p] = how]
      \/ /\ \E to \in {"dead", "idle"} : pc' = [pc EXCEPT ![p] = to]
         /\ result' = result \/ result' = [result EXCEPT ![p] = "none"]
  BY DEF Check, Crash, RunAgain, Stop, Ends, Goto
<1>3. \A q \in Procs \ {p} : pc'[q] = pc[q] /\ result'[q] = result[q]
  BY <1>1, <1>2 DEF Shape
<1>4. /\ Command' = Command /\ Version' = Version /\ Paths' = Paths
  BY SettingStays
<1>5. \/ pc[p] = "publish" /\ pc'[p] = "link"
      \/ pc'[p] = "done" /\ result'[p] # "ok"
      \/ pc'[p] \in {"dead", "idle"}
  BY <1>1, <1>2 DEF Shape
<1>6. ReadyNext(p)' <=> ReadyNext(p)
  <2>1. \A h, w : Lands(p, h, w)' <=> Lands(p, h, w)
    BY <1>1, <1>4 DEF Lands
  <2> QED
    BY <1>1, <1>4, <2>1 DEF ReadyNext
<1>7. AgreedAt(p)'
  BY <1>1, <1>4, <1>5, <1>6 DEF AgreedAt, Critical
<1> QED
  BY <1>1, <1>3, <1>7, SameGrows, AgreedStep

\* An edit disturbs everyone who is not idle.
LEMMA AgreedEdit ==
  ASSUME Agreed, Edited, UNCHANGED setting
  PROVE  Agreed'
<1>1. disturbed' = {p \in Procs : pc[p] # "idle"} /\ pc' = pc
  BY DEF Edited
<1>2. Procs' = Procs
  BY SettingStays
<1> QED
  BY <1>1, <1>2 DEF Agreed, AgreedAt, Critical

\* Every step keeps the commands agreed with what is there.
LEMMA AgreedStays ==
  ASSUME Typed, Agreed, [Next]_vars
  PROVE  Agreed'
<1>1. CASE UNCHANGED vars
  <2>1. UNCHANGED <<content, manifest, pc, supplied, expected, next, todo, answer, result, disturbed, setting>>
    BY <1>1 DEF vars
  <2>2. Procs' = Procs /\ Command' = Command /\ Version' = Version /\ Paths' = Paths
    BY <2>1, SettingStays
  <2>3. \A h, w : InPlace(h, w)' <=> InPlace(h, w)
    BY <2>1 DEF InPlace
  <2>4. \A p, h, w : Lands(p, h, w)' <=> Lands(p, h, w)
    BY <2>1, <2>2 DEF Lands
  <2>5. ASSUME NEW p \in Procs PROVE AgreedAt(p)'
    <3>1. AgreedAt(p)
      BY DEF Agreed
    <3>2. ReadyNext(p)' <=> ReadyNext(p)
      BY <2>1, <2>2, <2>4 DEF ReadyNext
    <3>3. ReadyThere(p, answer[p])' <=> ReadyThere(p, answer[p])
      BY <2>1, <2>2, <2>3 DEF ReadyThere
    <3>4. SameStore(p)' <=> SameStore(p)
      BY <2>1 DEF SameStore
    <3> QED
      BY <2>1, <2>2, <3>1, <3>2, <3>3, <3>4 DEF AgreedAt
  <2> QED
    BY <2>2, <2>5 DEF Agreed
<1>2. CASE Next
  <2>1. UNCHANGED setting
    BY <1>2 DEF Next
  <2>2. CASE \E p \in Procs : Step(p) \/ Crash(p) \/ RunAgain(p)
    BY <2>1, <2>2, AgreedLoad, AgreedPrepare, AgreedLink, AgreedPersist, AgreedRest DEF Step
  <2>3. CASE EditFile \/ EditManifest
    BY <2>1, <2>3, AgreedEdit DEF EditFile, EditManifest
  <2> QED
    BY <1>2, <2>2, <2>3 DEF Next
<1> QED
  BY <1>1, <1>2

\* At the start nothing is claimed and nobody has answered.
LEMMA AgreementStarts ==
  ASSUME Init
  PROVE  AllHonest /\ Agreed
<1>1. Agreed
  BY DEF Init, Agreed, AgreedAt, Critical
<1>2. \A q \in Procs : pc[q] = "idle"
  BY DEF Init
<1>3. manifest = NoManifest /\ saved = {}
  BY DEF Init
<1>4. AllHonest
  BY <1>2, <1>3 DEF AllHonest, HonestAt, Critical
<1> QED
  BY <1>1, <1>4

\* Agreed commands report what is recorded, and one store.
LEMMA AgreedMeans ==
  ASSUME Agreed
  PROVE  ReadyMeansRecorded /\ StoreIdAgreed
<1>1. ReadyMeansRecorded
  BY DEF Agreed, AgreedAt, ReadyMeansRecorded, ReadyThere, Succeeded
<1>2. StoreIdAgreed
  BY DEF Agreed, AgreedAt, StoreIdAgreed, SameStore, Succeeded
<1> QED
  BY <1>1, <1>2

----
(* What a first run leaves is what the next run finds: write by write. *)

\* What a harness has recorded of a write that is owned in some way.
Recorded(r, path, a, own) ==
  /\ own \in {"file", "block"}
  /\ own = "file" => path \in DOMAIN r.files /\ r.files[path] = a
  /\ own = "block" => path \notin DOMAIN r.files /\ path \in DOMAIN r.blocks /\ r.blocks[path] = a.block

\* Nothing is recorded of a harness that is not listed.
LEMMA NothingRecorded ==
  DOMAIN NoRecord.files = {} /\ DOMAIN NoRecord.blocks = {} /\ NoRecord.by = 0
  BY DEF NoRecord

AllAre(others, a) == \A q \in others : q = a

\* A file that the first run created or found as its own is its own.
LEMMA FileAgain ==
  ASSUME NEW c \in Content \cup {Absent}, NEW path, NEW some, NEW others, NEW want \in Blocks, NEW r,
         NEW o, o = CompleteFile(c, path, NoRecord, some, want), o.verdict = "ready",
         NEW a, a = o.after, Recorded(r, path, a, o.own), AllAre(others, a)
  PROVE  CompleteFile(a, path, r, others, want) = o
<1>1. o = Ready(Mine(want), "file")
  BY DEF CompleteFile, Review
<1> DEFINE own == "file"
<1>2. Ready(Mine(want), "file").own = own /\ Ready(Mine(want), "file").after = Mine(want)
  BY DEF Ready
<1>3. a = Mine(want) /\ Recorded(r, path, a, own)
  BY <1>1, <1>2
<1>4. path \in DOMAIN r.files /\ r.files[path] = a
  BY <1>3 DEF Recorded
<1>5. a # Absent /\ a # None
  BY <1>3, MineIs, NullsAssumption
<1>6. Permitted(a, r.files[path], others, Mine(want))
  BY <1>3, <1>4, <1>5 DEF Permitted, AllAre
<1>7. CompleteFile(a, path, r, others, want) = Ready(Mine(want), "file")
  BY <1>4, <1>6 DEF CompleteFile
<1> QED
  BY <1>1, <1>7

\* A managed block that the first run wrote, or found as it would write it, is kept.
LEMMA MarkdownAgain ==
  ASSUME NEW c \in Content \cup {Absent}, NEW path, NEW want \in Blocks, NEW r, NEW accept, ~accept,
         NEW o, o = MarkdownFile(c, path, NoRecord, want, accept), o.verdict = "ready",
         NEW a, a = o.after, c = Absent \/ a = c, Recorded(r, path, a, o.own)
  PROVE  MarkdownFile(a, path, r, want, accept) = o
<1>1. path \notin DOMAIN NoRecord.files /\ path \notin DOMAIN NoRecord.blocks
  BY NothingRecorded
<1>2. \E rest \in {"none", "tidy", "untidy"} : o = WithBlock(want, rest)
  <2>1. CASE c = Absent
    BY <1>1, <2>1 DEF MarkdownFile
  <2>2. CASE c # Absent
    <3>1. c.rest \in {"none", "tidy", "untidy"}
      BY <2>2 DEF Content
    <3>2. o \in {Refused, Review, WithBlock(want, c.rest)}
      BY <1>1, <2>2 DEF MarkdownFile
    <3> QED
      BY <3>1, <3>2 DEF Refused, Review
  <2> QED
    BY <2>1, <2>2
<1>3. PICK rest \in {"none", "tidy", "untidy"} : o = WithBlock(want, rest)
  BY <1>2
<1> DEFINE own == "block"
<1>4. o.own = own /\ a = [block |-> want, rest |-> rest]
  BY <1>3, BlockReady
<1>5. a \in Content /\ a.block = want /\ a.rest = rest
  <2>1. /\ [block |-> want, rest |-> rest] \in Content
        /\ [block |-> want, rest |-> rest].block = want
        /\ [block |-> want, rest |-> rest].rest = rest
    BY AfterBlock
  <2> QED
    BY <1>4, <2>1
<1>6. Recorded(r, path, a, own)
  BY <1>4
<1>7. path \notin DOMAIN r.files /\ path \in DOMAIN r.blocks /\ r.blocks[path] = want
  BY <1>5, <1>6 DEF Recorded
<1>8. a # Absent /\ a.block # Broken /\ a.block # None
  BY <1>5, NullsAssumption
<1>9. MarkdownFile(a, path, r, want, accept) = WithBlock(want, rest)
  BY <1>5, <1>7, <1>8 DEF MarkdownFile
<1> QED
  BY <1>3, <1>9

\* A settings file that the first run wrote, or found complete, is kept.
LEMMA SettingsAgain ==
  ASSUME NEW c \in Content \cup {Absent}, NEW path, NEW want \in Blocks, NEW r,
         NEW o, o = SettingsFile(c, path, NoRecord, want), o.verdict = "ready",
         NEW a, a = o.after, c = Absent \/ a = c, Recorded(r, path, a, o.own)
  PROVE  SettingsFile(a, path, r, want) = o
<1> DEFINE Smooth(rest) == [block |-> want, rest |-> Tidied(rest)]
<1>1. path \notin DOMAIN NoRecord.files /\ path \notin DOMAIN NoRecord.blocks
  BY NothingRecorded
<1>2. CASE c = Absent
  <2> DEFINE own == "file"
  <2>1. o = Ready(Mine(want), own)
    BY <1>1, <1>2 DEF SettingsFile
  <2>2. o.own = own /\ a = Mine(want)
    BY <2>1 DEF Ready
  <2>3. a \in Content /\ a.block = want /\ a.rest = "none"
    BY <2>2, MineIs
  <2>4. Recorded(r, path, a, own)
    BY <2>2
  <2>5. path \in DOMAIN r.files /\ r.files[path] = a
    BY <2>4 DEF Recorded
  <2>6. a # Absent
    BY <2>3, NullsAssumption
  <2>7. SettingsFile(a, path, r, want) = Ready(Smooth(a.rest), own)
    BY <2>3, <2>5, <2>6 DEF SettingsFile
  <2>8. Smooth(a.rest) = Mine(want)
    BY <2>3 DEF Tidied, Mine
  <2> QED
    BY <2>1, <2>7, <2>8
<1>3. CASE c # Absent
  <2> DEFINE own == "block"
  <2>1. o = Ready(Smooth(c.rest), own) /\ c.block \in {None, want}
    BY <1>1, <1>3 DEF SettingsFile, Review
  <2>2. o.own = own /\ o.after = Smooth(c.rest)
    BY <2>1 DEF Ready
  <2>3. a = c /\ c = Smooth(c.rest)
    BY <1>3, <2>2
  <2>4. c.block = want
    BY <2>3
  <2>5. Recorded(r, path, a, own)
    BY <2>2
  <2>6. path \notin DOMAIN r.files
    BY <2>5 DEF Recorded
  <2>7. SettingsFile(a, path, r, want) = Ready(Smooth(c.rest), own)
    BY <1>3, <2>3, <2>4, <2>6 DEF SettingsFile
  <2> QED
    BY <2>1, <2>7
<1> QED
  BY <1>2, <1>3

(* A write that was ready is ready again, with the same outcome, when it    *)
(* finds what it left and what was recorded of it, and no other harness has *)
(* recorded anything else.                                                  *)
LEMMA ReadyAgain ==
  ASSUME NEW found, NEW again, NEW h, NEW w, w.kind \in Kinds, found[w.path] \in Content \cup {Absent},
         NEW version \in Nat, NEW m, NEW n, m.id \in Nat, n.id = m.id, Record(h, m) = NoRecord,
         NEW o, o = Outcome(found, h, w, version, Unattended, m), o.verdict = "ready",
         again[w.path] = o.after, found[w.path] = Absent \/ o.after = found[w.path],
         Recorded(Record(h, n), w.path, o.after, o.own),
         \A q \in OtherOwners(h, w.path, n) : q = o.after
  PROVE  Outcome(again, h, w, version, Unattended, n) = o
<1> DEFINE want == Rendered(w.path, version, m.id)
           c == found[w.path]
           r == Record(h, n)
           some == OtherOwners(h, w.path, m)
           others == OtherOwners(h, w.path, n)
           a == o.after
<1>1. want \in Blocks /\ want = Rendered(w.path, version, n.id)
  BY RenderedIs
<1>0. a = o.after /\ ~Unattended
  BY DEF Unattended
<1>2. CASE w.kind = "file"
  <2>1. o = CompleteFile(c, w.path, NoRecord, some, want)
    BY <1>2 DEF Outcome
  <2>2. Outcome(again, h, w, version, Unattended, n) = CompleteFile(a, w.path, r, others, want)
    BY <1>1, <1>2 DEF Outcome
  <2> HIDE DEF want, c, r, some, others, a
  <2>3. c \in Content \cup {Absent} /\ Recorded(r, w.path, a, o.own)
    BY DEF c, r, a
  <2>5. AllAre(others, a)
    BY DEF others, a, AllAre
  <2>4. CompleteFile(a, w.path, r, others, want) = o
    BY <1>0, <1>1, <2>1, <2>3, <2>5, FileAgain, SMTT(60)
  <2> QED
    BY <2>1, <2>2, <2>4
<1>3. CASE w.kind = "markdown"
  <2>1. o = MarkdownFile(c, w.path, NoRecord, want, Unattended)
    BY <1>3 DEF Outcome
  <2>2. Outcome(again, h, w, version, Unattended, n) = MarkdownFile(a, w.path, r, want, Unattended)
    BY <1>1, <1>3 DEF Outcome
  <2> HIDE DEF want, c, r, some, others, a
  <2>3. c \in Content \cup {Absent} /\ Recorded(r, w.path, a, o.own) /\ (c = Absent \/ a = c)
    BY DEF c, r, a
  <2>4. MarkdownFile(a, w.path, r, want, Unattended) = o
    BY <1>0, <1>1, <2>1, <2>3, MarkdownAgain, SMTT(30)
  <2> QED
    BY <2>1, <2>2, <2>4
<1>4. CASE w.kind = "settings"
  <2>1. o = SettingsFile(c, w.path, NoRecord, want)
    BY <1>4 DEF Outcome
  <2>2. Outcome(again, h, w, version, Unattended, n) = SettingsFile(a, w.path, r, want)
    BY <1>1, <1>4 DEF Outcome
  <2> HIDE DEF want, c, r, some, others, a
  <2>3. c \in Content \cup {Absent} /\ Recorded(r, w.path, a, o.own) /\ (c = Absent \/ a = c)
    BY DEF c, r, a
  <2>4. SettingsFile(a, w.path, r, want) = o
    BY <1>0, <1>1, <2>1, <2>3, SettingsAgain
  <2> QED
    BY <2>1, <2>2, <2>4
<1> QED
  BY <1>2, <1>3, <1>4 DEF Kinds

(* A write that needed review needs it again, when nothing is recorded of   *)
(* it; it was there.                                                        *)
LEMMA ReviewAgain ==
  ASSUME NEW found, NEW again, NEW h, NEW w, w.kind \in Kinds, found[w.path] \in Content \cup {Absent},
         NEW version \in Nat, NEW m, NEW n, m.id \in Nat, n.id = m.id,
         Record(h, m) = NoRecord, Record(h, n) = NoRecord,
         Outcome(found, h, w, version, Unattended, m).verdict = "review",
         found[w.path] # Absent => again[w.path] = found[w.path] /\ OtherOwners(h, w.path, n) = {}
  PROVE  Outcome(again, h, w, version, Unattended, n).verdict = "review"
<1> DEFINE want == Rendered(w.path, version, m.id)
           c == found[w.path]
<1>0. w.path \notin DOMAIN NoRecord.files /\ w.path \notin DOMAIN NoRecord.blocks
  BY NothingRecorded
<1>1. Ready(Mine(want), "file").verdict # "review" /\ WithBlock(want, "none").verdict # "review" /\ Review.verdict = "review"
  BY DEF Ready, WithBlock, Review
<1>2. c # Absent
  <2> SUFFICES ASSUME c = Absent PROVE FALSE
    OBVIOUS
  <2>1. CASE w.kind = "file"
    <3>1. Outcome(found, h, w, version, Unattended, m) = Ready(Mine(want), "file")
      BY <1>0, <2>1 DEF Outcome, CompleteFile, Permitted
    <3> QED
      BY <1>1, <3>1
  <2>2. CASE w.kind = "markdown"
    <3>1. Outcome(found, h, w, version, Unattended, m) = WithBlock(want, "none")
      BY <1>0, <2>2 DEF Outcome, MarkdownFile
    <3> QED
      BY <1>1, <3>1
  <2>3. CASE w.kind = "settings"
    <3>1. Outcome(found, h, w, version, Unattended, m) = Ready(Mine(want), "file")
      BY <1>0, <2>3 DEF Outcome, SettingsFile
    <3> QED
      BY <1>1, <3>1
  <2> QED
    BY <2>1, <2>2, <2>3 DEF Kinds
<1>3. again[w.path] = c /\ OtherOwners(h, w.path, n) = {}
  BY <1>2
<1>4. CASE w.kind = "file"
  <2>1. Outcome(again, h, w, version, Unattended, n) = Review
    BY <1>0, <1>2, <1>3, <1>4 DEF Outcome, CompleteFile, Permitted
  <2> QED
    BY <1>1, <2>1
<1>5. CASE w.kind # "file"
  <2>1. Outcome(again, h, w, version, Unattended, n) = Outcome(found, h, w, version, Unattended, m)
    BY <1>3, <1>5 DEF Outcome, Kinds
  <2> QED
    BY <2>1
<1> QED
  BY <1>4, <1>5

\* Broken markers are refused.
LEMMA BrokenIsRefused ==
  ASSUME NEW c, c # Absent, c.block = Broken, NEW path, NEW record, path \notin DOMAIN record.files, NEW want, NEW accept
  PROVE  MarkdownFile(c, path, record, want, accept) = Refused
  BY NullsAssumption DEF MarkdownFile

(* A write that was ready is not refused, whatever the others have left at  *)
(* its place.                                                               *)
LEMMA NotRefusedAgain ==
  ASSUME NEW found, NEW again, NEW h, NEW w, w.kind \in Kinds, found[w.path] \in Content \cup {Absent},
         NEW version \in Nat, NEW m, NEW n, m.id \in Nat, n.id = m.id,
         Record(h, m) = NoRecord, Record(h, n) = NoRecord,
         Outcome(found, h, w, version, Unattended, m).verdict = "ready",
         again[w.path] = found[w.path] \/ again[w.path].block \in Blocks
  PROVE  Outcome(again, h, w, version, Unattended, n).verdict # "refused"
<1> DEFINE want == Rendered(w.path, version, m.id)
           c == found[w.path]
           a == again[w.path]
<1>0. w.path \notin DOMAIN NoRecord.files /\ w.path \notin DOMAIN NoRecord.blocks
  BY NothingRecorded
<1>1. /\ \A after, own : Ready(after, own).verdict = "ready"
      /\ \A rest : WithBlock(want, rest).verdict = "ready"
      /\ Review.verdict = "review" /\ Refused.verdict = "refused"
  BY DEF Ready, WithBlock, Review, Refused
<1>2. CASE w.kind = "file"
  BY <1>1, <1>2 DEF Outcome, CompleteFile
<1>3. CASE w.kind = "settings"
  <2>1. Outcome(again, h, w, version, Unattended, n) \in {Review, Ready(Mine(want), "file"), Ready([block |-> want, rest |-> Tidied(a.rest)], "block")}
    BY <1>0, <1>3 DEF Outcome, SettingsFile
  <2> QED
    BY <1>1, <2>1
<1>4. CASE w.kind = "markdown"
  <2>1. CASE a.block = Broken /\ a # Absent
    <3>1. a = c
      BY <2>1, NullsAssumption
    <3>2. Outcome(found, h, w, version, Unattended, m) = MarkdownFile(c, w.path, NoRecord, want, Unattended)
      BY <1>4 DEF Outcome
    <3>3. MarkdownFile(c, w.path, NoRecord, want, Unattended) = Refused
      BY <1>0, <2>1, <3>1, BrokenIsRefused
    <3> QED
      BY <1>1, <3>2, <3>3
  <2>2. CASE a.block # Broken \/ a = Absent
    <3>1. Outcome(again, h, w, version, Unattended, n) \in {Review, WithBlock(want, "none"), WithBlock(want, a.rest)}
      BY <1>0, <1>4, <2>2 DEF Outcome, MarkdownFile
    <3> QED
      BY <1>1, <3>1
  <2> QED
    BY <2>1, <2>2
<1> QED
  BY <1>2, <1>3, <1>4 DEF Kinds

----
(* What a first run leaves is what the next run finds: plan by plan. *)

\* Digests that are taken over from themselves stay the same.
LEMMA TakesOverAgain ==
  ASSUME NEW old, DOMAIN old = {}, NEW h, NEW taken, NEW of, NEW first, NEW second, NEW V,
         IsDigests(first, V), IsDigests(second, V), TakesOver(first, old, h, taken, of),
         TakesOver(second, first, h, taken, of)
  PROVE  second = first
<1>1. DOMAIN first = {Writes[h][k].path : k \in taken} /\ DOMAIN second = DOMAIN first
  BY DEF TakesOver
<1>2. ASSUME NEW path \in DOMAIN first PROVE second[path] = first[path]
  <2>1. PICK k \in taken : path = Writes[h][k].path
    BY <1>1
  <2> QED
    BY <2>1 DEF TakesOver
<1>3. first = [path \in DOMAIN first |-> first[path]] /\ second = [path \in DOMAIN second |-> second[path]]
  BY DEF IsDigests
<1> QED
  BY <1>1, <1>2, <1>3

\* A write is in place; it was so before, or there was nothing.
Stands(v, found, again) == again[v.path] = v.after /\ (found[v.path] = Absent \/ v.after = found[v.path])

\* What is in place and recorded as a plan has it, with no other claim to it.
Settles(plan, h, found, again, n) ==
  \A v \in ToSet(plan.writes) : Stands(v, found, again) /\ AllAre(OtherOwners(h, v.path, n), v.after)

\* What the record of a plan says of its kth write.
LEMMA RecordedIs ==
  ASSUME NEW found, NEW h \in DOMAIN Writes, NEW version, NEW m, Record(h, m) = NoRecord,
         NEW plan, PlanIs(plan, found, h, version, Unattended, m),
         NEW k \in DOMAIN Writes[h], NEW o, o = Of(found, h, k, version, Unattended, m), o.own \in {"file", "block"}
  PROVE  Recorded(PlanRecord(plan, version), Writes[h][k].path, o.after, o.own)
<1> DEFINE of == [j \in DOMAIN Writes[h] |-> Of(found, h, j, version, Unattended, m)]
           files == {j \in DOMAIN of : of[j].own = "file"}
           blocks == {j \in DOMAIN of : of[j].own = "block"}
           path == Writes[h][k].path
<1>1. /\ TakesOver(plan.files, Record(h, m).files, h, files, [j \in DOMAIN of |-> of[j].after])
      /\ TakesOver(plan.blocks, Record(h, m).blocks, h, blocks, [j \in DOMAIN of |-> of[j].after.block])
  BY DEF PlanIs
<1>2. of[k] = o /\ k \in DOMAIN of
  OBVIOUS
<1>3. PlanRecord(plan, version).files = plan.files /\ PlanRecord(plan, version).blocks = plan.blocks
  BY DEF PlanRecord
<1>4. CASE o.own = "file"
  <2>1. k \in files
    BY <1>2, <1>4
  <2>2. path \in DOMAIN plan.files /\ plan.files[path] = o.after
    BY <1>1, <1>2, <2>1 DEF TakesOver
  <2> QED
    BY <1>3, <1>4, <2>2 DEF Recorded
<1>5. CASE o.own = "block"
  <2>1. k \in blocks
    BY <1>2, <1>5
  <2>2. path \in DOMAIN plan.blocks /\ plan.blocks[path] = o.after.block
    BY <1>1, <1>2, <2>1 DEF TakesOver
  <2>3. path \notin DOMAIN plan.files
    <3> SUFFICES ASSUME path \in DOMAIN plan.files PROVE FALSE
      OBVIOUS
    <3>1. DOMAIN Record(h, m).files = {}
      BY NothingRecorded
    <3>2. PICK j \in files : path = Writes[h][j].path
      BY <1>1, <3>1 DEF TakesOver
    <3>3. j = k
      BY <3>2, WritesAre
    <3> QED
      BY <1>2, <1>5, <3>2, <3>3
  <2> QED
    BY <1>3, <1>5, <2>2, <2>3 DEF Recorded
<1> QED
  BY <1>4, <1>5

\* A plan that was ready is ready again, with the same writes and the same record.
LEMMA PlanReadyAgain ==
  ASSUME NEW found, NEW again, NEW h \in DOMAIN Writes, Found(found, h), Found(again, h),
         NEW version \in Nat, NEW m, IsManifest(m), NEW n, IsManifest(n), n.id = m.id, Record(h, m) = NoRecord,
         NEW plan, plan = Prepared(found, h, version, Unattended, m), plan.verdict = "ready",
         Record(h, n) = PlanRecord(plan, version), Settles(plan, h, found, again, n),
         NEW more, more = Prepared(again, h, version, Unattended, n)
  PROVE  more.verdict = "ready" /\ PlanRecord(more, version) = PlanRecord(plan, version) /\ more.writes = plan.writes
<1> DEFINE of == [j \in DOMAIN Writes[h] |-> Of(found, h, j, version, Unattended, m)]
           ofMore == [j \in DOMAIN Writes[h] |-> Of(again, h, j, version, Unattended, n)]
<1>1. PlanIs(plan, found, h, version, Unattended, m)
  BY PreparedIs
<1>2. PlanIs(more, again, h, version, Unattended, n)
  BY PreparedIs
<1>3. ASSUME NEW k \in DOMAIN Writes[h]
      PROVE  Of(again, h, k, version, Unattended, n) = Of(found, h, k, version, Unattended, m)
  <2> DEFINE w == Writes[h][k]
             o == Of(found, h, k, version, Unattended, m)
  <2>1. o.verdict = "ready" /\ plan.writes[k] = [path |-> w.path, after |-> o.after] /\ k \in DOMAIN plan.writes
    BY <1>1 DEF PlanIs
  <2>2. w \in ToSet(Writes[h]) /\ w.kind \in Kinds /\ found[w.path] \in Content \cup {Absent}
    BY WritesAre DEF Found
  <2>3. Comes(o, found[w.path], w.path, Record(h, m), OtherOwners(h, w.path, m), Rendered(w.path, version, m.id))
    BY <2>2, OutcomeIs DEF Of
  <2>4. o.own \in {"file", "block"}
    BY <2>1, <2>3 DEF Comes, Review, Refused, IsReady
  <2>5. Recorded(PlanRecord(plan, version), w.path, o.after, o.own)
    BY <1>1, <2>4, RecordedIs
  <2>6. plan.writes[k] \in ToSet(plan.writes)
    BY <2>1 DEF ToSet
  <2>7. /\ again[w.path] = o.after
        /\ found[w.path] = Absent \/ o.after = found[w.path]
        /\ AllAre(OtherOwners(h, w.path, n), o.after)
    BY <2>1, <2>6 DEF Settles, Stands
  <2>8. \A q \in OtherOwners(h, w.path, n) : q = o.after
    BY <2>7 DEF AllAre
  <2>9. m.id \in Nat /\ o = Outcome(found, h, w, version, Unattended, m)
    BY DEF IsManifest, Of
  <2> HIDE DEF o, w
  <2>10. Outcome(again, h, w, version, Unattended, n) = o
    BY <2>1, <2>2, <2>5, <2>7, <2>8, <2>9, ReadyAgain
  <2> QED
    BY <2>10 DEF Of, o, w
<1>4. ofMore = of
  BY <1>3, Zenon
<1>5. /\ more.writes = [k \in DOMAIN Writes[h] |-> [path |-> Writes[h][k].path, after |-> ofMore[k].after]]
      /\ plan.writes = [k \in DOMAIN Writes[h] |-> [path |-> Writes[h][k].path, after |-> of[k].after]]
  BY <1>1, <1>2 DEF PlanIs
<1>6. more.verdict = "ready"
  <2> SUFFICES ASSUME more.verdict # "ready" PROVE FALSE
    OBVIOUS
  <2>1. PICK k \in DOMAIN Writes[h] : Of(again, h, k, version, Unattended, n).verdict # "ready"
    BY <1>2 DEF PlanIs
  <2>2. Of(found, h, k, version, Unattended, m).verdict = "ready"
    BY <1>1 DEF PlanIs
  <2> QED
    BY <1>3, <2>1, <2>2
<1> DEFINE files == {k \in DOMAIN of : of[k].own = "file"}
           blocks == {k \in DOMAIN of : of[k].own = "block"}
           afters == [k \in DOMAIN of |-> of[k].after]
           inside == [k \in DOMAIN of |-> of[k].after.block]
<1>7. /\ TakesOver(plan.files, Record(h, m).files, h, files, afters)
      /\ TakesOver(plan.blocks, Record(h, m).blocks, h, blocks, inside)
      /\ IsRecord(PlanRecord(plan, version))
  BY <1>1 DEF PlanIs
<1>8. /\ TakesOver(more.files, Record(h, n).files, h, {k \in DOMAIN ofMore : ofMore[k].own = "file"}, [k \in DOMAIN ofMore |-> ofMore[k].after])
      /\ TakesOver(more.blocks, Record(h, n).blocks, h, {k \in DOMAIN ofMore : ofMore[k].own = "block"}, [k \in DOMAIN ofMore |-> ofMore[k].after.block])
      /\ IsRecord(PlanRecord(more, version))
  BY <1>2 DEF PlanIs
<1>9. Record(h, n).files = plan.files /\ Record(h, n).blocks = plan.blocks
  BY DEF PlanRecord
<1>10. TakesOver(more.files, plan.files, h, files, afters) /\ TakesOver(more.blocks, plan.blocks, h, blocks, inside)
  BY <1>4, <1>8, <1>9
<1>11. /\ IsDigests(plan.files, Content) /\ IsDigests(more.files, Content)
       /\ IsDigests(plan.blocks, Blocks) /\ IsDigests(more.blocks, Blocks)
  BY <1>7, <1>8 DEF IsRecord, PlanRecord
<1> HIDE DEF of, ofMore, files, blocks, afters, inside
<1>12. DOMAIN Record(h, m).files = {} /\ DOMAIN Record(h, m).blocks = {}
  BY NothingRecorded
<1>13. more.files = plan.files
  BY <1>7, <1>10, <1>11, <1>12, TakesOverAgain
<1>14. more.blocks = plan.blocks
  BY <1>7, <1>10, <1>11, <1>12, TakesOverAgain
<1> QED
  BY <1>4, <1>5, <1>6, <1>13, <1>14 DEF PlanRecord

\* What a first run may have left at a path that a plan kept for review found taken: nothing.
Untouched(h, found, again, n) ==
  \A w \in ToSet(Writes[h]) :
    /\ found[w.path] # Absent => again[w.path] = found[w.path] /\ OtherOwners(h, w.path, n) = {}
    /\ again[w.path] = found[w.path] \/ again[w.path].block \in Blocks

\* A plan that needed review needs it again.
LEMMA PlanReviewAgain ==
  ASSUME NEW found, NEW again, NEW h \in DOMAIN Writes, Found(found, h), Found(again, h),
         NEW version \in Nat, NEW m, IsManifest(m), NEW n, IsManifest(n), n.id = m.id,
         Record(h, m) = NoRecord, Record(h, n) = NoRecord,
         NEW plan, plan = Prepared(found, h, version, Unattended, m), plan.verdict = "review",
         Untouched(h, found, again, n),
         NEW more, more = Prepared(again, h, version, Unattended, n)
  PROVE  more.verdict = "review"
<1> DEFINE o(k) == Of(found, h, k, version, Unattended, m)
           oMore(k) == Of(again, h, k, version, Unattended, n)
           w(k) == Writes[h][k]
<1>1. PlanIs(plan, found, h, version, Unattended, m)
  BY PreparedIs
<1>2. PlanIs(more, again, h, version, Unattended, n)
  BY PreparedIs
<1>3. PICK k \in DOMAIN Writes[h] : o(k).verdict = "review" /\ \A j \in DOMAIN Writes[h] : j < k => o(j).verdict = "ready"
  BY <1>1 DEF PlanIs
<1>4. m.id \in Nat /\ DOMAIN Writes[h] \subseteq Nat
  BY WritesAre DEF IsManifest
<1>5. \A j \in DOMAIN Writes[h] : /\ w(j) \in ToSet(Writes[h]) /\ w(j).kind \in Kinds
                                  /\ found[w(j).path] \in Content \cup {Absent} /\ again[w(j).path] \in Content \cup {Absent}
  BY WritesAre DEF Found
<1>6. oMore(k).verdict = "review"
  <2>1. found[w(k).path] # Absent => again[w(k).path] = found[w(k).path] /\ OtherOwners(h, w(k).path, n) = {}
    BY <1>5 DEF Untouched
  <2>2. Outcome(found, h, w(k), version, Unattended, m).verdict = "review"
    BY <1>3 DEF Of
  <2> DEFINE v == w(k)
  <2>3. v.kind \in Kinds /\ found[v.path] \in Content \cup {Absent}
    BY <1>5
  <2> HIDE DEF v
  <2>4. Outcome(again, h, v, version, Unattended, n).verdict = "review"
    BY <1>4, <2>1, <2>2, <2>3, ReviewAgain DEF v
  <2> QED
    BY <2>4 DEF Of, v
<1>7. more.verdict # "ready"
  BY <1>2, <1>6 DEF PlanIs
<1>8. PICK j \in DOMAIN Writes[h] : /\ oMore(j).verdict = more.verdict
                                    /\ \A i \in DOMAIN Writes[h] : i < j => oMore(i).verdict = "ready"
  BY <1>2, <1>7 DEF PlanIs
<1>9. j <= k
  BY <1>4, <1>6, <1>8
<1>10. CASE j = k
  BY <1>6, <1>8, <1>10
<1>11. CASE j # k
  <2>1. o(j).verdict = "ready"
    BY <1>3, <1>4, <1>9, <1>11
  <2> DEFINE v == w(j)
  <2>2. /\ v.kind \in Kinds /\ found[v.path] \in Content \cup {Absent} /\ again[v.path] \in Content \cup {Absent}
        /\ again[v.path] = found[v.path] \/ again[v.path].block \in Blocks
    BY <1>5 DEF Untouched
  <2>3. Outcome(found, h, v, version, Unattended, m).verdict = "ready"
    BY <2>1 DEF Of
  <2> HIDE DEF v
  <2>4. Outcome(again, h, v, version, Unattended, n).verdict # "refused"
    BY <1>4, <2>2, <2>3, NotRefusedAgain
  <2>5. Comes(Outcome(again, h, v, version, Unattended, n), again[v.path], v.path, Record(h, n),
              OtherOwners(h, v.path, n), Rendered(v.path, version, n.id))
    BY <2>2, OutcomeIs
  <2>6. Outcome(again, h, v, version, Unattended, n).verdict \in {"ready", "review", "refused"}
    BY <2>5 DEF Comes, Review, Refused, IsReady, Ready
  <2>7. oMore(j) = Outcome(again, h, v, version, Unattended, n)
    BY DEF Of, v
  <2> QED
    BY <1>7, <1>8, <2>4, <2>6, <2>7
<1> QED
  BY <1>10, <1>11

----
(* What a first run leaves is what the next run finds: harness by harness. *)

\* A step of a batch that is not refused.
GoesOn(c, b, h, plan, version) ==
  /\ b.verdict = "ready" /\ c.verdict = "ready"
  /\ \/ /\ Writes[h] = <<>> /\ c.next = With(b.next, h, BlockedRecord(h, b.next, version)) /\ c.writes = b.writes
        /\ c.answer = [b.answer EXCEPT ![h] = "blocked"]
     \/ /\ Writes[h] # <<>> /\ plan.verdict = "review" /\ c.next = b.next /\ c.writes = b.writes
        /\ c.answer = [b.answer EXCEPT ![h] = "review"]
     \/ Writes[h] # <<>> /\ plan.verdict = "ready" /\ Joins(c, b, h, plan, version)

\* What a step of a batch comes to, when it is not refused.
LEMMA GoesIs ==
  ASSUME NEW c, NEW b, NEW h, NEW plan, NEW version, AddsTo(c, b, h, plan, version), c.verdict = "ready"
  PROVE  GoesOn(c, b, h, plan, version)
<1> DEFINE ready == "ready"
           refused == "refused"
           blocked == [b.answer EXCEPT ![h] = "blocked"]
           review == [b.answer EXCEPT ![h] = "review"]
           changed == With(b.next, h, BlockedRecord(h, b.next, version))
<1>0. ready # refused /\ c.verdict = ready
  OBVIOUS
<1>1. \/ c = b /\ b.verdict = refused
      \/ Writes[h] = <<>> /\ b.verdict = ready /\ c = Decided(ready, changed, b.writes, blocked)
      \/ Writes[h] # <<>> /\ plan.verdict = "review" /\ b.verdict = ready /\ c = Decided(ready, b.next, b.writes, review)
      \/ Writes[h] # <<>> /\ plan.verdict = "ready" /\ b.verdict = ready /\ Joins(c, b, h, plan, version)
      \/ c = Decided(refused, b.next, b.writes, b.answer)
  BY Zenon DEF AddsTo
<1> HIDE DEF ready, refused, blocked, review, changed
<1>2. c # Decided(refused, b.next, b.writes, b.answer)
  <2>1. Decided(refused, b.next, b.writes, b.answer).verdict = refused
    BY DecidedIs
  <2> QED
    BY <1>0, <2>1
<1>3. CASE Writes[h] = <<>> /\ b.verdict = ready /\ c = Decided(ready, changed, b.writes, blocked)
  <2>1. c.next = changed /\ c.writes = b.writes /\ c.answer = blocked
    BY <1>3, DecidedIs
  <2> QED
    BY <1>0, <1>3, <2>1, Zenon DEF GoesOn, ready, changed, blocked
<1>4. CASE Writes[h] # <<>> /\ plan.verdict = "review" /\ b.verdict = ready /\ c = Decided(ready, b.next, b.writes, review)
  <2>1. c.next = b.next /\ c.writes = b.writes /\ c.answer = review
    BY <1>4, DecidedIs
  <2> QED
    BY <1>0, <1>4, <2>1, Zenon DEF GoesOn, ready, review
<1>5. CASE Writes[h] # <<>> /\ plan.verdict = "ready" /\ b.verdict = ready /\ Joins(c, b, h, plan, version)
  BY <1>0, <1>5, Zenon DEF GoesOn, ready
<1>6. c # b \/ b.verdict # refused
  BY <1>0
<1> QED
  BY <1>1, <1>2, <1>3, <1>4, <1>5, <1>6

\* A write that one has and another has differently.
Clashes(writes, others) == \E w \in ToSet(writes), v \in ToSet(others) : w.path = v.path /\ w.after # v.after

\* A harness that is blocked, kept for review, or ready without a clash is no reason to refuse.
LEMMA AddGoes ==
  ASSUME NEW found, NEW h, NEW version, NEW b, b.verdict = "ready",
         NEW plan, plan = Prepared(found, h, version, Unattended, b.next), NEW c, c = Add(b, h, found, version),
         \/ Writes[h] = <<>>
         \/ plan.verdict = "review"
         \/ plan.verdict = "ready" /\ ~Clashes(b.writes, plan.writes)
  PROVE  c.verdict = "ready"
<1> DEFINE ready == "ready"
           Joined(pl) == b.writes \o Among(pl.writes, {v \in ToSet(pl.writes) :
                                                         \A w \in ToSet(b.writes) : w.path # v.path})
           Blocks_ == Decided(ready, With(b.next, h, BlockedRecord(h, b.next, version)), b.writes,
                              [b.answer EXCEPT ![h] = "blocked"])
           Reviews == Decided(ready, b.next, b.writes, [b.answer EXCEPT ![h] = "review"])
           Readies(pl) == Decided(ready, With(b.next, h, PlanRecord(pl, version)), Joined(pl),
                                  [b.answer EXCEPT ![h] = "ready"])
           Refuses == Decided("refused", b.next, b.writes, b.answer)
           Adds(pl) == CASE b.verdict = "refused" -> b
              [] b.verdict # "refused" /\ Writes[h] = <<>> -> Blocks_
              [] b.verdict # "refused" /\ Writes[h] # <<>> ->
                   CASE pl.verdict = "review" -> Reviews
                     [] pl.verdict = "ready" /\ ~Clashes(b.writes, pl.writes) -> Readies(pl)
                     [] OTHER -> Refuses
<1>1. c = Adds(Prepared(found, h, version, Unattended, b.next))
  BY Zenon DEF Add, Clashes
<1>2. c = Adds(plan)
  <2> HIDE DEF Adds
  <2> QED
    BY <1>1
<1>3. Blocks_.verdict = ready
  <2> DEFINE m == With(b.next, h, BlockedRecord(h, b.next, version))
             says == [b.answer EXCEPT ![h] = "blocked"]
  <2>1. Blocks_ = Decided(ready, m, b.writes, says)
    OBVIOUS
  <2> HIDE DEF ready, m, says, Blocks_
  <2> QED
    BY <2>1, DecidedIs
<1>4. Reviews.verdict = ready
  <2> DEFINE says == [b.answer EXCEPT ![h] = "review"]
  <2>1. Reviews = Decided(ready, b.next, b.writes, says)
    OBVIOUS
  <2> HIDE DEF ready, says, Reviews
  <2> QED
    BY <2>1, DecidedIs
<1>5. Readies(plan).verdict = ready
  <2> DEFINE m == With(b.next, h, PlanRecord(plan, version))
             joined == Joined(plan)
             says == [b.answer EXCEPT ![h] = "ready"]
  <2>1. Readies(plan) = Decided(ready, m, joined, says)
    OBVIOUS
  <2> HIDE DEF ready, m, joined, says, Readies
  <2> QED
    BY <2>1, DecidedIs
<1>6. c \in {Blocks_, Reviews, Readies(plan)}
  <2> HIDE DEF Blocks_, Reviews, Readies, Refuses
  <2> QED
    BY <1>2
<1> QED
  <2>1. ready = "ready"
    OBVIOUS
  <2> HIDE DEF ready, Blocks_, Reviews, Readies
  <2> QED
    BY <1>3, <1>4, <1>5, <1>6, <2>1

\* Every harness of a batch, one after another.
LEMMA BatchEach ==
  ASSUME NEW found, NEW order, Order(order, found), NEW version \in Nat, NEW m, IsManifest(m),
         NEW upto, StepsOf(upto, found, order, version, m)
  PROVE  \A k \in 0 .. Len(order) : BatchIs(upto[k], found, order, k, version, m)
<1>1. order \in Seq(DOMAIN Writes) /\ Len(order) \in Nat
  BY DEF Order
<1> DEFINE Good == {n \in Nat : n <= Len(order) => BatchIs(upto[n], found, order, n, version, m)}
<1>3. 0 \in Good
  <2>1. upto[0] = BatchStart(order, m)
    BY <1>1 DEF StepsOf
  <2> QED
    BY <2>1, BatchStarts
<1>4. ASSUME NEW n \in Nat, n \in Good PROVE n + 1 \in Good
  <2> SUFFICES ASSUME n + 1 <= Len(order)
               PROVE  BatchIs(upto[n + 1], found, order, n + 1, version, m)
    OBVIOUS
  <2>1. n + 1 \in 0 .. Len(order) /\ n + 1 # 0 /\ (n + 1) - 1 = n /\ n <= Len(order) /\ n + 1 \in DOMAIN order
    BY <1>1
  <2>2. upto[n + 1] = Add(upto[n], order[n + 1], found, version)
    BY <2>1 DEF StepsOf
  <2>3. BatchIs(upto[n], found, order, n, version, m)
    BY <1>4, <2>1
  <2> QED
    BY <2>1, <2>2, <2>3, AddKeeps
<1>5. Nat \subseteq Good
  <2> HIDE DEF Good
  <2> QED
    BY <1>3, <1>4, StepByStep
<1>6. SUFFICES ASSUME NEW k \in 0 .. Len(order) PROVE BatchIs(upto[k], found, order, k, version, m)
  OBVIOUS
<1>7. k \in Good /\ k <= Len(order)
  BY <1>1, <1>5
<1> QED
  BY <1>7

\* A batch that has come to the jth harness, and the same batch further on.
Behind(e, j, b, order) ==
  /\ e.verdict = "ready"
  /\ ToSet(e.writes) \subseteq ToSet(b.writes)
  /\ \A i \in DOMAIN order : i <= j =>
       /\ Record(order[i], b.next) = Record(order[i], e.next)
       /\ order[i] \in DOMAIN b.next.harness <=> order[i] \in DOMAIN e.next.harness
       /\ b.answer[order[i]] = e.answer[order[i]]

\* What a step does to the harnesses it is not about.
Beside(c, b, h) ==
  /\ ToSet(b.writes) \subseteq ToSet(c.writes)
  /\ \A g : g # h => Record(g, c.next) = Record(g, b.next) /\ (g \in DOMAIN c.next.harness <=> g \in DOMAIN b.next.harness)
  /\ \A g \in DOMAIN b.answer : g # h => c.answer[g] = b.answer[g]

\* A step of a batch is about one harness.
LEMMA GoesBeside ==
  ASSUME NEW c, NEW b, NEW h, NEW plan, NEW version \in Nat, GoesOn(c, b, h, plan, version), IsManifest(b.next),
         IsRecord(PlanRecord(plan, version))
  PROVE  Beside(c, b, h)
<1> DEFINE blocked == BlockedRecord(h, b.next, version)
           record == PlanRecord(plan, version)
<1>1. IsRecord(blocked) /\ IsRecord(record)
  BY BlockedRecordIs
<1> HIDE DEF blocked, record
<1>2. c.next \in {b.next, With(b.next, h, blocked), With(b.next, h, record)}
  BY Zenon DEF GoesOn, Joins, blocked, record
<1>3. \A g : g # h => Record(g, c.next) = Record(g, b.next) /\ (g \in DOMAIN c.next.harness <=> g \in DOMAIN b.next.harness)
  <2>1. CASE c.next = b.next
    BY <2>1
  <2>2. CASE c.next = With(b.next, h, blocked)
    BY <1>1, <2>2, WithIs
  <2>3. CASE c.next = With(b.next, h, record)
    BY <1>1, <2>3, WithIs
  <2> QED
    BY <1>2, <2>1, <2>2, <2>3
<1>4. ToSet(b.writes) \subseteq ToSet(c.writes)
  <2>1. c.writes = b.writes \/ ToSet(c.writes) = ToSet(b.writes) \cup ToSet(plan.writes)
    BY Zenon DEF GoesOn, Joins
  <2> QED
    BY <2>1
<1>5. \E word : c.answer = [b.answer EXCEPT ![h] = word]
  BY DEF GoesOn, Joins
<1>6. \A g \in DOMAIN b.answer : g # h => c.answer[g] = b.answer[g]
  BY <1>5
<1> QED
  BY <1>3, <1>4, <1>6 DEF Beside

\* Going back one harness.
LEMMA BehindStep ==
  ASSUME NEW found, NEW order, Order(order, found), NEW k \in Nat, k + 1 \in DOMAIN order, NEW version \in Nat,
         NEW m, IsManifest(m), NEW e, BatchIs(e, found, order, k, version, m),
         NEW further, further = Add(e, order[k + 1], found, version), NEW b, Behind(further, k + 1, b, order)
  PROVE  Behind(e, k, b, order)
<1> DEFINE h == order[k + 1]
           plan == Prepared(found, h, version, Unattended, e.next)
<1>1. order \in Seq(DOMAIN Writes) /\ h \in DOMAIN Writes /\ h \in ToSet(order)
  BY DEF Order, ToSet
<1>2. Found(found, h)
  BY <1>1 DEF Order
<1>3. /\ IsManifest(e.next) /\ e.writes \in Seq(Written(found)) /\ e.verdict \in {"ready", "refused"}
      /\ DOMAIN e.answer = ToSet(order)
  BY DEF BatchIs, BatchTyped
<1>4. AddsTo(further, e, h, plan, version)
  BY <1>1, <1>2, <1>3, AddIs
<1>5. IsRecord(PlanRecord(plan, version))
  BY <1>1, <1>2, <1>3, ReadyPlanIs
<1>6. further.verdict = "ready"
  BY DEF Behind
<1> HIDE DEF plan
<1>7. GoesOn(further, e, h, plan, version)
  BY <1>4, <1>6, GoesIs
<1>8. Beside(further, e, h) /\ e.verdict = "ready"
  BY <1>3, <1>5, <1>7, GoesBeside DEF GoesOn
<1>9. \A i \in DOMAIN order : i <= k => i <= k + 1 /\ order[i] # h /\ order[i] \in DOMAIN e.answer
  <2> SUFFICES ASSUME NEW i \in DOMAIN order, i <= k PROVE i <= k + 1 /\ order[i] # h /\ order[i] \in DOMAIN e.answer
    OBVIOUS
  <2>1. i \in Nat /\ i # k + 1
    BY <1>1
  <2> QED
    BY <1>3, <2>1 DEF Order, ToSet
<1> HIDE DEF h
<1>10. ASSUME NEW i \in DOMAIN order, i <= k
       PROVE  /\ Record(order[i], b.next) = Record(order[i], e.next)
              /\ order[i] \in DOMAIN b.next.harness <=> order[i] \in DOMAIN e.next.harness
              /\ b.answer[order[i]] = e.answer[order[i]]
  <2> DEFINE g == order[i]
  <2>1. i <= k + 1 /\ g # h /\ g \in DOMAIN e.answer
    BY <1>9, <1>10
  <2>2. /\ Record(g, b.next) = Record(g, further.next)
        /\ g \in DOMAIN b.next.harness <=> g \in DOMAIN further.next.harness
        /\ b.answer[g] = further.answer[g]
    BY <2>1 DEF Behind
  <2>3. /\ Record(g, further.next) = Record(g, e.next)
        /\ g \in DOMAIN further.next.harness <=> g \in DOMAIN e.next.harness
        /\ further.answer[g] = e.answer[g]
    BY <1>8, <2>1 DEF Beside
  <2> QED
    BY <2>2, <2>3
<1>11. ToSet(e.writes) \subseteq ToSet(b.writes)
  BY <1>8 DEF Beside, Behind
<1> QED
  BY <1>8, <1>10, <1>11, Zenon DEF Behind

\* Counting down from n, one further.
LEMMA OneLess ==
  ASSUME NEW n \in Nat, NEW i \in Nat, i + 1 <= n
  PROVE  LET k == n - (i + 1)
         IN  /\ k \in Nat /\ k \in 0 .. n /\ k + 1 \in 0 .. n /\ k + 1 # 0 /\ (k + 1) - 1 = k
             /\ n - i = k + 1 /\ i <= n /\ k + 1 \in 1 .. n
OBVIOUS

\* What a batch that is ready has had for each of its harnesses.
LEMMA BehindEach ==
  ASSUME NEW found, NEW order, Order(order, found), NEW version \in Nat, NEW m, IsManifest(m),
         NEW upto, StepsOf(upto, found, order, version, m), upto[Len(order)].verdict = "ready"
  PROVE  \A k \in 0 .. Len(order) : Behind(upto[k], k, upto[Len(order)], order)
<1> DEFINE n == Len(order)
           b == upto[n]
<1>1. order \in Seq(DOMAIN Writes) /\ n \in Nat /\ DOMAIN order = 1 .. n
  BY DEF Order
<1> DEFINE Good == {i \in Nat : i <= n => Behind(upto[n - i], n - i, b, order)}
<1>2. 0 \in Good
  <2>1. n - 0 = n
    BY <1>1
  <2>2. Behind(b, n, b, order)
    BY DEF Behind
  <2> HIDE DEF b
  <2> QED
    BY <2>1, <2>2 DEF b
<1>3. ASSUME NEW i \in Nat, i \in Good PROVE i + 1 \in Good
  <2> SUFFICES ASSUME i + 1 <= n PROVE Behind(upto[n - (i + 1)], n - (i + 1), b, order)
    OBVIOUS
  <2> DEFINE k == n - (i + 1)
  <2>1. /\ k \in Nat /\ k \in 0 .. n /\ k + 1 \in 0 .. n /\ k + 1 # 0 /\ (k + 1) - 1 = k /\ n - i = k + 1 /\ i <= n
        /\ k + 1 \in DOMAIN order
    <3> HIDE DEF n, Good, b
    <3> QED
      BY <1>1, OneLess
  <2>2. upto[k + 1] = Add(upto[k], order[k + 1], found, version)
    BY <2>1, Zenon DEF StepsOf
  <2>3. Behind(upto[k + 1], k + 1, b, order)
    <3>1. i <= n /\ n - i = k + 1
      BY <2>1, Zenon
    <3>2. Behind(upto[n - i], n - i, b, order)
      BY <1>3, <3>1, Zenon
    <3> HIDE DEF n, b, k
    <3> QED
      BY <3>1, <3>2, Zenon
  <2>4. BatchIs(upto[k], found, order, k, version, m)
    BY <2>1, BatchEach, Zenon
  <2> HIDE DEF k, b
  <2>5. Behind(upto[k], k, b, order)
    BY <2>1, <2>2, <2>3, <2>4, BehindStep
  <2> QED
    BY <2>5 DEF k
<1>4. Nat \subseteq Good
  <2> HIDE DEF Good
  <2> QED
    BY <1>2, <1>3, StepByStep
<1>5. SUFFICES ASSUME NEW k \in 0 .. n PROVE Behind(upto[k], k, b, order)
  OBVIOUS
<1>6. n - k \in Nat /\ n - k <= n /\ n - (n - k) = k
  BY <1>1
<1>7. n - k \in Good
  BY <1>4, <1>6
<1> HIDE DEF b, n
<1>8. Behind(upto[n - (n - k)], n - (n - k), b, order)
  BY <1>6, <1>7
<1> QED
  BY <1>6, <1>8

----
(* The next run, harness by harness. *)

\* What a batch leaves that is committed: its writes in place, the rest as it was.
Left(again, found, b) ==
  /\ \A v \in ToSet(b.writes) : again[v.path] = v.after
  /\ \A path \in DOMAIN found : (\A v \in ToSet(b.writes) : v.path # path) => again[path] = found[path]

\* The batch of a first run, of a store of which nothing is recorded.
First(b, found, order, version, m) ==
  /\ IsManifest(m) /\ DOMAIN m.harness = {}
  /\ BatchIs(b, found, order, Len(order), version, m)
  /\ b.verdict = "ready" /\ ~Mutates(found, b.writes)

\* What is there now was created by the batch.
Creates(b, found, path, d) == \E v \in ToSet(b.writes) : v.path = path /\ v.after = d /\ found[path] = Absent

\* What the manifest of a first run claims is among its writes, and was not there.
LEMMA FirstClaims ==
  ASSUME NEW found, NEW order, NEW version \in Nat, NEW m, NEW b, First(b, found, order, version, m),
         NEW h, NEW path, NEW d, d \in OtherOwners(h, path, b.next)
  PROVE  Creates(b, found, path, d)
<1>1. Claimed(b.next, path, d)
  BY OthersClaim
<1>2. ~Claimed(m, path, d)
  BY DEF Claimed, First
<1>3. BatchClaims(b, found, m)
  BY Zenon DEF First, BatchIs
<1>4. PICK v \in ToSet(b.writes) : v.path = path /\ v.after = d /\ (found[path] = Absent \/ d # found[path])
  BY <1>1, <1>2, <1>3 DEF BatchClaims
<1>5. ToSet(b.writes) \subseteq Written(found)
  BY DEF First, BatchIs, BatchTyped, ToSet
<1>6. v.after = found[v.path] \/ found[v.path] = Absent
  BY <1>5, PlainWrites DEF First
<1> QED
  BY <1>4, <1>6 DEF Creates

\* The writes of a first run are in place, and no other harness claims anything else there.
LEMMA LeftStands ==
  ASSUME NEW found, NEW again, NEW order, NEW version \in Nat, NEW m, NEW b, First(b, found, order, version, m),
         Left(again, found, b), NEW h, NEW v \in ToSet(b.writes)
  PROVE  Stands(v, found, again) /\ AllAre(OtherOwners(h, v.path, b.next), v.after)
<1>1. ToSet(b.writes) \subseteq Written(found)
  BY DEF First, BatchIs, BatchTyped, ToSet
<1>2. v.after = found[v.path] \/ found[v.path] = Absent
  BY <1>1, PlainWrites DEF First
<1>3. again[v.path] = v.after
  BY DEF Left
<1>4. BatchWrites(b, version, m)
  BY Zenon DEF First, BatchIs
<1>5. ASSUME NEW d \in OtherOwners(h, v.path, b.next) PROVE d = v.after
  <2>1. PICK w \in ToSet(b.writes) : w.path = v.path /\ w.after = d
    <3> DEFINE path == v.path
    <3> HIDE DEF path
    <3>1. d \in OtherOwners(h, path, b.next)
      BY <1>5 DEF path
    <3>2. Creates(b, found, path, d)
      BY <3>1, FirstClaims
    <3> QED
      BY <3>2 DEF path, Creates
  <2> QED
    BY <1>4, <2>1 DEF BatchWrites
<1> QED
  BY <1>2, <1>3, <1>5 DEF Stands, AllAre

\* What was taken before a first run is as it was, and nobody claims it.
LEMMA LeftUntouched ==
  ASSUME NEW found, NEW again, NEW order, NEW version \in Nat, NEW m, NEW b, First(b, found, order, version, m),
         Left(again, found, b), NEW h, Found(found, h)
  PROVE  Untouched(h, found, again, b.next)
<1>1. ToSet(b.writes) \subseteq Written(found)
  BY DEF First, BatchIs, BatchTyped, ToSet
<1>2. BatchWrites(b, version, m) /\ m.id \in Nat
  BY Zenon DEF First, BatchIs, IsManifest
<1>3. SUFFICES ASSUME NEW w \in ToSet(Writes[h])
               PROVE  /\ found[w.path] # Absent => again[w.path] = found[w.path] /\ OtherOwners(h, w.path, b.next) = {}
                      /\ again[w.path] = found[w.path] \/ again[w.path].block \in Blocks
  BY DEF Untouched
<1>4. w.path \in DOMAIN found
  BY DEF Found
<1> DEFINE path == w.path
<1>7. ASSUME NEW d \in OtherOwners(h, w.path, b.next)
      PROVE  \E v \in ToSet(b.writes) : v.path = w.path /\ found[w.path] = Absent
  <2> HIDE DEF path
  <2>1. d \in OtherOwners(h, path, b.next)
    BY <1>7 DEF path
  <2>2. Creates(b, found, path, d)
    BY <2>1, FirstClaims
  <2> QED
    BY <2>2 DEF path, Creates
<1>5. CASE \A v \in ToSet(b.writes) : v.path # w.path
  <2>1. again[w.path] = found[w.path]
    BY <1>4, <1>5 DEF Left
  <2>2. OtherOwners(h, w.path, b.next) = {}
    <3> SUFFICES ASSUME NEW d \in OtherOwners(h, w.path, b.next) PROVE FALSE
      OBVIOUS
    <3> QED
      BY <1>5, <1>7
  <2> QED
    BY <2>1, <2>2
<1>6. CASE \E v \in ToSet(b.writes) : v.path = w.path
  <2>1. PICK v \in ToSet(b.writes) : v.path = w.path
    BY <1>6
  <2>2. again[w.path] = v.after /\ (v.after = found[w.path] \/ found[w.path] = Absent)
    BY <1>1, <2>1, PlainWrites DEF Left, First
  <2>3. v.after.block \in Blocks
    <3>1. Rendered(v.path, version, m.id) \in Blocks
      BY <1>2, RenderedIs
    <3> QED
      BY <1>2, <3>1 DEF BatchWrites
  <2>4. ASSUME found[w.path] # Absent PROVE OtherOwners(h, w.path, b.next) = {}
    <3> SUFFICES ASSUME NEW d \in OtherOwners(h, w.path, b.next) PROVE FALSE
      OBVIOUS
    <3> QED
      BY <2>4, <1>7
  <2> QED
    BY <2>2, <2>3, <2>4
<1> QED
  BY <1>5, <1>6

\* What the next run makes of a harness: its answer, and nothing new to record or to write.
AgainOf(plan, m, h, version, again, word) ==
  \/ Writes[h] = <<>> /\ word = "blocked" /\ h \in DOMAIN m.harness /\ Record(h, m) = BlockedRecord(h, m, version)
  \/ Writes[h] # <<>> /\ word = "review" /\ plan.verdict = "review"
  \/ /\ Writes[h] # <<>> /\ word = "ready" /\ plan.verdict = "ready" /\ h \in DOMAIN m.harness
     /\ Record(h, m) = PlanRecord(plan, version)
     /\ \A v \in ToSet(plan.writes) : v.after = again[v.path]

\* The first run of a harness decides what the next one makes of it.
LEMMA HarnessAgain ==
  ASSUME NEW found, NEW again, NEW order, Order(order, found), Order(order, again), NEW k \in Nat, k + 1 \in DOMAIN order,
         NEW version \in Nat, NEW m, NEW b, First(b, found, order, version, m), Left(again, found, b),
         NEW e, BatchIs(e, found, order, k, version, m),
         NEW further, further = Add(e, order[k + 1], found, version), Behind(further, k + 1, b, order),
         NEW h, h = order[k + 1], NEW more, more = Prepared(again, h, version, Unattended, b.next)
  PROVE  AgainOf(more, b.next, h, version, again, b.answer[h])
<1> DEFINE plan == Prepared(found, h, version, Unattended, e.next)
<1>1. order \in Seq(DOMAIN Writes) /\ h \in DOMAIN Writes /\ h \in ToSet(order) /\ k + 1 <= k + 1 /\ k + 1 > k
  BY DEF Order, ToSet
<1>2. Found(found, h) /\ Found(again, h)
  BY <1>1 DEF Order
<1>3. /\ IsManifest(e.next) /\ e.writes \in Seq(Written(found)) /\ e.verdict \in {"ready", "refused"}
      /\ DOMAIN e.answer = ToSet(order) /\ e.next.id = m.id
  BY DEF BatchIs, BatchTyped
<1>4. IsManifest(b.next) /\ b.next.id = m.id /\ IsManifest(m) /\ DOMAIN m.harness = {}
  BY DEF First, BatchIs, BatchTyped
<1>5. AddsTo(further, e, h, plan, version)
  BY <1>1, <1>2, <1>3, AddIs
<1>6. IsRecord(PlanRecord(plan, version)) /\ IsRecord(BlockedRecord(h, e.next, version))
  BY <1>1, <1>2, <1>3, ReadyPlanIs, BlockedRecordIs
<1>7. /\ further.verdict = "ready"
      /\ Record(h, b.next) = Record(h, further.next)
      /\ h \in DOMAIN b.next.harness <=> h \in DOMAIN further.next.harness
      /\ b.answer[h] = further.answer[h]
      /\ ToSet(further.writes) \subseteq ToSet(b.writes)
  BY <1>1 DEF Behind
<1>8. Record(h, e.next) = NoRecord
  <2>1. BatchRest(e, order, k, m)
    BY Zenon DEF BatchIs
  <2>2. Record(h, e.next) = Record(h, m)
    BY <1>1, <2>1 DEF BatchRest
  <2> QED
    BY <1>4, <2>2 DEF Record
<1>9. plan = Prepared(found, h, version, Unattended, e.next)
  OBVIOUS
<1> HIDE DEF plan
<1>10. GoesOn(further, e, h, plan, version)
  BY <1>5, <1>7, GoesIs
<1>11. CASE Writes[h] = <<>>
  <2> DEFINE r == BlockedRecord(h, e.next, version)
             word == "blocked"
  <2>1. further.next = With(e.next, h, r) /\ further.answer = [e.answer EXCEPT ![h] = word]
    BY <1>10, <1>11, Zenon DEF GoesOn
  <2>2. further.answer[h] = word
    BY <1>1, <1>3, <2>1
  <2> HIDE DEF r, word
  <2>3. h \in DOMAIN further.next.harness /\ Record(h, further.next) = r
    <3>1. IsRecord(r)
      BY <1>6 DEF r
    <3> QED
      BY <1>3, <2>1, <3>1, WithIs
  <2>4. Record(h, b.next) = r /\ h \in DOMAIN b.next.harness
    BY <1>7, <2>3
  <2>5. BlockedRecord(h, b.next, version) = r
    <3>1. r.files = Record(h, e.next).files /\ r.blocks = Record(h, e.next).blocks
      BY DEF r, BlockedRecord
    <3>2. BlockedRecord(h, b.next, version) = [files |-> r.files, blocks |-> r.blocks, by |-> version]
      BY <2>4 DEF BlockedRecord
    <3>3. r = [files |-> Record(h, e.next).files, blocks |-> Record(h, e.next).blocks, by |-> version]
      BY DEF r, BlockedRecord
    <3> QED
      BY <3>1, <3>2, <3>3
  <2> QED
    BY <1>7, <1>11, <2>2, <2>4, <2>5, Zenon DEF AgainOf, word
<1>12. CASE Writes[h] # <<>> /\ plan.verdict = "review"
  <2> DEFINE word == "review"
  <2>1. further.next = e.next /\ further.answer = [e.answer EXCEPT ![h] = word]
    <3>1. "review" # "ready"
      OBVIOUS
    <3> QED
      BY <1>10, <1>12, <3>1, Zenon DEF GoesOn
  <2>2. further.answer[h] = word
    BY <1>1, <1>3, <2>1
  <2>3. Record(h, b.next) = NoRecord
    BY <1>7, <1>8, <2>1
  <2>4. Untouched(h, found, again, b.next)
    BY <1>2, LeftUntouched
  <2>5. more.verdict = "review"
    BY <1>1, <1>2, <1>3, <1>4, <1>8, <1>9, <1>12, <2>3, <2>4, PlanReviewAgain
  <2> QED
    BY <1>7, <1>12, <2>2, <2>5, Zenon DEF AgainOf
<1>13. CASE Writes[h] # <<>> /\ plan.verdict # "review"
  <2> DEFINE word == "ready"
             r == PlanRecord(plan, version)
  <2>1. plan.verdict = "ready" /\ Joins(further, e, h, plan, version)
    BY <1>10, <1>13, Zenon DEF GoesOn
  <2>2. further.next = With(e.next, h, r) /\ further.answer = [e.answer EXCEPT ![h] = word]
        /\ ToSet(further.writes) = ToSet(e.writes) \cup ToSet(plan.writes)
    BY <2>1, Zenon DEF Joins
  <2>3. further.answer[h] = word
    BY <1>1, <1>3, <2>2
  <2> HIDE DEF r, word
  <2>4. h \in DOMAIN further.next.harness /\ Record(h, further.next) = r
    <3>1. IsRecord(r)
      BY <1>6 DEF r
    <3> QED
      BY <1>3, <2>2, <3>1, WithIs
  <2>5. Record(h, b.next) = r /\ h \in DOMAIN b.next.harness
    BY <1>7, <2>4
  <2>6. ToSet(plan.writes) \subseteq ToSet(b.writes)
    BY <1>7, <2>2
  <2>7. Settles(plan, h, found, again, b.next)
    <3> SUFFICES ASSUME NEW v \in ToSet(plan.writes)
                 PROVE  Stands(v, found, again) /\ AllAre(OtherOwners(h, v.path, b.next), v.after)
      BY DEF Settles
    <3>1. v \in ToSet(b.writes)
      BY <2>6
    <3> QED
      BY <3>1, LeftStands
  <2>8. more.verdict = "ready" /\ PlanRecord(more, version) = r /\ more.writes = plan.writes
    <3>1. Record(h, b.next) = PlanRecord(plan, version)
      BY <2>5 DEF r
    <3>2. b.next.id = e.next.id
      BY <1>3, <1>4
    <3> QED
      BY <1>1, <1>2, <1>3, <1>4, <1>8, <1>9, <2>1, <2>7, <3>1, <3>2, PlanReadyAgain DEF r
  <2>9. \A v \in ToSet(more.writes) : v.after = again[v.path]
    BY <2>7, <2>8 DEF Settles, Stands
  <2> QED
    BY <1>7, <1>13, <2>3, <2>5, <2>8, <2>9, Zenon DEF AgainOf, word
<1> QED
  BY <1>11, <1>12, <1>13

----
(* The next run as a whole. *)

\* Every write is in place.
AllInPlace(writes, again) == \A w \in ToSet(writes) : w.after = again[w.path]

\* The batch of the next run, that has come to its kth harness, and the first one.
Repeats(c, k, b, order, again) ==
  /\ c.verdict = "ready" /\ c.next = b.next
  /\ c.writes \in Seq(Written(again)) /\ AllInPlace(c.writes, again)
  /\ DOMAIN c.answer = ToSet(order) /\ c.answer = [h \in DOMAIN c.answer |-> c.answer[h]]
  /\ \A j \in DOMAIN order : j <= k => c.answer[order[j]] = b.answer[order[j]]

\* A harness with the same answer as before adds nothing to the batch.
LEMMA AddAgain ==
  ASSUME NEW again, NEW h \in DOMAIN Writes, Found(again, h), NEW version \in Nat, NEW c, c.verdict = "ready",
         IsManifest(c.next), c.writes \in Seq(Written(again)), AllInPlace(c.writes, again),
         NEW plan, plan = Prepared(again, h, version, Unattended, c.next),
         NEW word, AgainOf(plan, c.next, h, version, again, word),
         NEW d, d = Add(c, h, again, version)
  PROVE  /\ d.verdict = "ready" /\ d.next = c.next
         /\ d.writes \in Seq(Written(again)) /\ AllInPlace(d.writes, again)
         /\ d.answer = [c.answer EXCEPT ![h] = word]
<1>1. IsRecord(PlanRecord(plan, version)) /\ IsRecord(BlockedRecord(h, c.next, version))
  BY ReadyPlanIs, BlockedRecordIs
<1>2. Writes[h] # <<>> /\ plan.verdict = "ready" => AllInPlace(plan.writes, again)
  BY DEF AgainOf, AllInPlace
<1>3. plan.verdict = "ready" => plan.writes \in Seq(Written(again))
  BY ReadyPlanIs DEF WritesOf
<1>4. ASSUME AllInPlace(plan.writes, again) PROVE ~Clashes(c.writes, plan.writes)
  BY <1>4 DEF AllInPlace, Clashes
<1>5. \/ Writes[h] = <<>>
      \/ plan.verdict = "review"
      \/ plan.verdict = "ready" /\ ~Clashes(c.writes, plan.writes)
  BY <1>2, <1>4 DEF AgainOf
<1>6. d.verdict = "ready"
  BY <1>5, AddGoes
<1>7. AddsTo(d, c, h, plan, version)
  BY AddIs
<1>8. GoesOn(d, c, h, plan, version)
  BY <1>6, <1>7, GoesIs
<1>9. CASE Writes[h] = <<>>
  <2> DEFINE r == BlockedRecord(h, c.next, version)
             blocked == "blocked"
  <2>1. d.next = With(c.next, h, r) /\ d.writes = c.writes /\ d.answer = [c.answer EXCEPT ![h] = blocked]
    BY <1>8, <1>9, Zenon DEF GoesOn
  <2>2. word = blocked /\ h \in DOMAIN c.next.harness /\ Record(h, c.next) = r
    BY <1>9, Zenon DEF AgainOf
  <2> HIDE DEF r, blocked
  <2>3. With(c.next, h, r) = c.next
    <3>1. IsRecord(r)
      BY <1>1 DEF r
    <3> QED
      BY <2>2, <3>1, WithIs
  <2> QED
    BY <1>6, <2>1, <2>2, <2>3
<1>10. CASE Writes[h] # <<>> /\ plan.verdict = "review"
  <2> DEFINE review == "review"
  <2>0. review # "ready" /\ plan.verdict = review
    BY <1>10
  <2>1. d.next = c.next /\ d.writes = c.writes /\ d.answer = [c.answer EXCEPT ![h] = review]
    BY <1>8, <1>10, <2>0, Zenon DEF GoesOn
  <2>2. word = review
    BY <1>10, <2>0, Zenon DEF AgainOf
  <2> HIDE DEF review
  <2> QED
    BY <1>6, <2>1, <2>2
<1>11. CASE Writes[h] # <<>> /\ plan.verdict # "review"
  <2> DEFINE r == PlanRecord(plan, version)
             ready == "ready"
  <2>1. plan.verdict = ready /\ Joins(d, c, h, plan, version)
    BY <1>8, <1>11, Zenon DEF GoesOn
  <2>2. d.next = With(c.next, h, r) /\ d.answer = [c.answer EXCEPT ![h] = ready]
    BY <2>1, Zenon DEF Joins
  <2>3. word = ready /\ h \in DOMAIN c.next.harness /\ Record(h, c.next) = r
    BY <1>11, Zenon DEF AgainOf
  <2>4. ToSet(c.writes) \subseteq Written(again) /\ ToSet(plan.writes) \subseteq Written(again)
    BY <1>3, <2>1 DEF ToSet
  <2>5. d.writes \in Seq(UNION {ToSet(c.writes), ToSet(plan.writes)})
        /\ ToSet(d.writes) = ToSet(c.writes) \cup ToSet(plan.writes)
    BY <2>1, Zenon DEF Joins
  <2>6. d.writes \in Seq(Written(again))
    BY <2>4, <2>5
  <2>7. AllInPlace(d.writes, again)
    BY <1>2, <1>11, <2>1, <2>5 DEF AllInPlace
  <2> HIDE DEF r, ready
  <2>8. With(c.next, h, r) = c.next
    <3>1. IsRecord(r)
      BY <1>1 DEF r
    <3> QED
      BY <2>3, <3>1, WithIs
  <2> QED
    BY <1>6, <2>2, <2>3, <2>6, <2>7, <2>8
<1> QED
  BY <1>9, <1>10, <1>11

\* One harness more.
LEMMA RepeatsStep ==
  ASSUME NEW again, NEW order, Order(order, again), NEW k \in Nat, k + 1 \in DOMAIN order, NEW version \in Nat,
         NEW b, IsManifest(b.next), NEW c, Repeats(c, k, b, order, again), NEW h, h = order[k + 1],
         AgainOf(Prepared(again, h, version, Unattended, b.next), b.next, h, version, again, b.answer[h])
  PROVE  Repeats(Add(c, h, again, version), k + 1, b, order, again)
<1> DEFINE word == b.answer[h]
           plan == Prepared(again, h, version, Unattended, b.next)
           d == Add(c, h, again, version)
<1>1. order \in Seq(DOMAIN Writes) /\ h \in DOMAIN Writes /\ h \in ToSet(order) /\ Found(again, h)
  BY DEF Order, ToSet
<1>2. /\ c.verdict = "ready" /\ c.next = b.next /\ c.writes \in Seq(Written(again)) /\ AllInPlace(c.writes, again)
      /\ DOMAIN c.answer = ToSet(order)
  BY DEF Repeats
<1>3. AgainOf(plan, c.next, h, version, again, word) /\ plan = Prepared(again, h, version, Unattended, c.next)
  BY <1>2
<1>4. d = Add(c, h, again, version)
  OBVIOUS
<1> HIDE DEF word, plan, d
<1>5. /\ d.verdict = "ready" /\ d.next = c.next
      /\ d.writes \in Seq(Written(again)) /\ AllInPlace(d.writes, again)
      /\ d.answer = [c.answer EXCEPT ![h] = word]
  BY <1>1, <1>2, <1>3, <1>4, AddAgain, SMTT(30)
<1>6. DOMAIN d.answer = ToSet(order) /\ d.answer = [g \in DOMAIN d.answer |-> d.answer[g]]
  BY <1>2, <1>5
<1>7. ASSUME NEW j \in DOMAIN order, j <= k + 1 PROVE d.answer[order[j]] = b.answer[order[j]]
  <2>1. order[j] \in ToSet(order) /\ j \in Nat
    BY <1>1 DEF ToSet
  <2>2. CASE j = k + 1
    BY <1>1, <1>2, <1>5, <2>2 DEF word
  <2>3. CASE j # k + 1
    <3>1. j <= k /\ order[j] # h
      BY <1>7, <2>1, <2>3 DEF Order
    <3>2. c.answer[order[j]] = b.answer[order[j]]
      BY <3>1 DEF Repeats
    <3> QED
      BY <1>2, <1>5, <2>1, <3>1, <3>2
  <2> QED
    BY <2>2, <2>3
<1>8. Repeats(d, k + 1, b, order, again)
  BY <1>2, <1>5, <1>6, <1>7, Zenon DEF Repeats
<1> QED
  BY <1>8 DEF d

\* The next batch finds everything in place, and answers what the first one did.
LEMMA BatchAgain ==
  ASSUME NEW found, NEW again, NEW order, Order(order, found), Order(order, again), NEW version \in Nat,
         NEW m, IsManifest(m), DOMAIN m.harness = {},
         NEW b, b = Batch(found, order, version, m), b.verdict = "ready", ~Mutates(found, b.writes),
         Left(again, found, b), NEW c, c = Batch(again, order, version, b.next)
  PROVE  /\ c.verdict = "ready" /\ c.next = b.next /\ c.answer = b.answer
         /\ c.writes \in Seq(Written(again)) /\ AllInPlace(c.writes, again)
<1> DEFINE n == Len(order)
<1>1. order \in Seq(DOMAIN Writes) /\ n \in Nat
  BY DEF Order
<1>2. PICK upto : StepsOf(upto, found, order, version, m) /\ b = upto[n]
  BY <1>1, BatchSteps
<1>3. PICK next_ : StepsOf(next_, again, order, version, b.next) /\ c = next_[n]
  BY <1>1, BatchSteps
<1>4. \A k \in 0 .. n : BatchIs(upto[k], found, order, k, version, m)
  BY <1>2, BatchEach
<1>5. \A k \in 0 .. n : Behind(upto[k], k, b, order)
  BY <1>2, BehindEach
<1>6. BatchIs(b, found, order, n, version, m)
  BY <1>1, <1>2, <1>4
<1>7. First(b, found, order, version, m)
  BY <1>6 DEF First
<1>8. IsManifest(b.next) /\ DOMAIN b.answer = ToSet(order) /\ b.answer = [h \in DOMAIN b.answer |-> b.answer[h]]
  BY <1>6 DEF BatchIs, BatchTyped
<1> DEFINE Good == {k \in Nat : k <= n => Repeats(next_[k], k, b, order, again)}
<1>9. 0 \in Good
  <2> DEFINE review == "review"
             says == [h \in ToSet(order) |-> review]
             ready == "ready"
  <2>1. next_[0] = Decided(ready, b.next, <<>>, says)
    BY <1>1, <1>3 DEF StepsOf, BatchStart
  <2>2. ready = "ready" /\ DOMAIN says = ToSet(order) /\ says = [h \in DOMAIN says |-> says[h]]
    OBVIOUS
  <2>3. <<>> \in Seq(Written(again)) /\ AllInPlace(<<>>, again)
    BY DEF AllInPlace, ToSet
  <2> HIDE DEF says, ready
  <2>4. next_[0].verdict = ready /\ next_[0].next = b.next /\ next_[0].writes = <<>> /\ next_[0].answer = says
    BY <2>1, DecidedIs
  <2>5. \A j \in DOMAIN order : ~(j <= 0)
    BY <1>1
  <2>6. Repeats(next_[0], 0, b, order, again)
    BY <2>2, <2>3, <2>4, <2>5 DEF Repeats
  <2> QED
    BY <2>6
<1>10. ASSUME NEW k \in Nat, k \in Good PROVE k + 1 \in Good
  <2> SUFFICES ASSUME k + 1 <= n PROVE Repeats(next_[k + 1], k + 1, b, order, again)
    OBVIOUS
  <2>1. /\ k \in 0 .. n /\ k + 1 \in 0 .. n /\ k + 1 # 0 /\ (k + 1) - 1 = k /\ k <= n /\ k + 1 \in DOMAIN order
    BY <1>1
  <2>2. /\ upto[k + 1] = Add(upto[k], order[k + 1], found, version)
        /\ next_[k + 1] = Add(next_[k], order[k + 1], again, version)
    BY <1>2, <1>3, <2>1 DEF StepsOf
  <2>3. Repeats(next_[k], k, b, order, again)
    BY <1>10, <2>1
  <2>4. BatchIs(upto[k], found, order, k, version, m) /\ Behind(upto[k + 1], k + 1, b, order)
    BY <1>4, <1>5, <2>1
  <2> DEFINE h == order[k + 1]
  <2>5. h = order[k + 1]
    OBVIOUS
  <2> HIDE DEF h
  <2>6. AgainOf(Prepared(again, h, version, Unattended, b.next), b.next, h, version, again, b.answer[h])
    BY <1>7, <2>1, <2>2, <2>4, <2>5, HarnessAgain
  <2>7. Repeats(Add(next_[k], h, again, version), k + 1, b, order, again)
    BY <1>8, <2>1, <2>3, <2>5, <2>6, RepeatsStep
  <2> QED
    BY <2>2, <2>5, <2>7
<1>11. Nat \subseteq Good
  <2> HIDE DEF Good
  <2> QED
    BY <1>9, <1>10, StepByStep
<1>12. Repeats(c, n, b, order, again)
  <2>1. n \in Good /\ n <= n
    BY <1>1, <1>11
  <2> HIDE DEF n
  <2>2. Repeats(next_[n], n, b, order, again)
    BY <2>1
  <2> QED
    BY <1>3, <2>2
<1>13. c.answer = b.answer
  <2>1. DOMAIN c.answer = ToSet(order) /\ c.answer = [h \in DOMAIN c.answer |-> c.answer[h]]
    BY <1>12 DEF Repeats
  <2>2. ASSUME NEW h \in ToSet(order) PROVE c.answer[h] = b.answer[h]
    <3>1. PICK j \in DOMAIN order : h = order[j]
      BY DEF ToSet
    <3>2. j <= n
      BY <1>1
    <3> QED
      BY <1>12, <3>1, <3>2 DEF Repeats
  <2> QED
    BY <1>8, <2>1, <2>2
<1> QED
  BY <1>12, <1>13 DEF Repeats

Present(m) == m # NoManifest

\* Everything is recorded and in place.
Finds(c, again, n) ==
  c.verdict = "ready" /\ c.next = n /\ c.writes \in Seq(Written(again)) /\ AllInPlace(c.writes, again)

SaysAs(d, c) == d.verdict = "answer" /\ d.answer = c.answer

\* An init that finds its batch recorded and in place says so.
LEMMA InitAnswers ==
  ASSUME NEW again, NEW order, NEW version, NEW n, n # NoManifest, NEW c, c = Batch(again, order, version, n),
         Finds(c, again, n), NEW d, d = DecideInit(again, order, version, n, Present(n))
  PROVE  SaysAs(d, c)
<1> DEFINE there == Present(n)
<1>0. there = TRUE /\ d = DecideInit(again, order, version, n, there)
  BY DEF Present
<1>9. c.verdict = "ready" /\ c.next = n /\ c.writes \in Seq(Written(again)) /\ AllInPlace(c.writes, again)
  BY DEF Finds
<1> HIDE DEF there
<1>1. ~Mutates(again, c.writes)
  BY <1>9 DEF Mutates, AllInPlace
<1>2. Changes(again, c.writes) = <<>>
  BY <1>9, ChangesAre DEF AllInPlace
<1>3. InitOf(d, c, again, n, there)
  BY <1>0, <1>9, InitComes
<1> DEFINE ready == "answer"
           Decides(x) ==
             CASE x.verdict = "refused" \/ Mutates(again, x.writes) -> Decided("refused", x.next, x.writes, x.answer)
               [] OTHER ->
                    CASE there /\ x.next # n -> Decided("answer", x.next, x.writes, Answers(x, n))
                      [] there /\ x.next = n /\ Changes(again, x.writes) = <<>> ->
                           Decided("answer", x.next, x.writes, x.answer)
                      [] OTHER -> Decided("commit", x.next, x.writes, x.answer)
<1>4. d = Decides(Batch(again, order, version, n))
  BY <1>0, Zenon DEF DecideInit, Concluded
<1>5. d = Decides(c)
  <2> HIDE DEF Decides
  <2> QED
    BY <1>4
<1>6. d = Decided(ready, c.next, c.writes, c.answer)
  BY <1>0, <1>1, <1>2, <1>5, <1>9
<1>7. ready = "answer"
  OBVIOUS
<1> HIDE DEF ready, Decides
<1>8. d.verdict = ready /\ d.answer = c.answer
  BY <1>6, DecidedIs
<1> QED
  BY <1>7, <1>8 DEF SaysAs

----
(* What an init that ended well leaves, in every state after it.           *)

\* An init of the same version would find nothing to do, and answer the same.
FirmFor(b, found, m, order) ==
  /\ m # NoManifest
  /\ DecideInit(found, order, b.by, m, Present(m)).verdict = "answer"
  /\ DecideInit(found, order, b.by, m, Present(m)).answer = b.answer

FirstBatch(b, found, order, version, m) ==
  /\ Order(order, found) /\ IsManifest(m) /\ DOMAIN m.harness = {}
  /\ b = Batch(found, order, version, m) /\ b.verdict = "ready" /\ ~Mutates(found, b.writes)

\* Its writes are in place or left to do, the rest is as it was.
HalfDone(c, found, b, undone) ==
  /\ \A v \in ToSet(b.writes) : c[v.path] = v.after \/ v \in undone
  /\ \A path \in DOMAIN found : (\A v \in ToSet(b.writes) : v.path # path) => c[path] = found[path]
  /\ undone \subseteq ToSet(b.writes)

\* A first run on its way: what it will record and say, and what it has left to write.
Half(recorded, says, c, undone, order, version) ==
  \E found, m, b :
    /\ FirstBatch(b, found, order, version, m) /\ b.next = recorded /\ b.answer = says
    /\ HalfDone(c, found, b, undone)

\* The commit of an init is a first run on its way.
LEMMA HalfStarts ==
  ASSUME NEW c, NEW order, Order(order, c), NEW version \in Nat, NEW m, IsManifest(m), DOMAIN m.harness = {},
         NEW there \in BOOLEAN, NEW d, d = DecideInit(c, order, version, m, there), d.verdict = "commit"
  PROVE  Half(d.next, d.answer, c, ToSet(Changes(c, d.writes)), order, version)
<1> DEFINE b == Batch(c, order, version, m)
           commit == "commit"
<1>0. commit # "refused" /\ commit # "answer" /\ d.verdict = commit
  OBVIOUS
<1>1. BatchIs(b, c, order, Len(order), version, m)
  BY BatchComes
<1>2. b.verdict \in {"ready", "refused"} /\ b.writes \in Seq(Written(c))
  BY <1>1 DEF BatchIs, BatchTyped
<1>3. b = Batch(c, order, version, m)
  OBVIOUS
<1> HIDE DEF b
<1>4. InitOf(d, b, c, m, there)
  BY <1>2, <1>3, InitComes
<1>5. /\ b.verdict = "ready" /\ ~Mutates(c, b.writes)
      /\ d = Decided("commit", b.next, b.writes, b.answer)
  <2> DEFINE refused == "refused"
             answers == "answer"
             changed == Answers(b, m)
  <2>1. \/ d = Decided(refused, b.next, b.writes, b.answer)
        \/ d = Decided(answers, b.next, b.writes, changed)
        \/ d = Decided(answers, b.next, b.writes, b.answer)
        \/ b.verdict = "ready" /\ ~Mutates(c, b.writes) /\ d = Decided(commit, b.next, b.writes, b.answer)
    BY <1>4, Zenon DEF InitOf
  <2>2. d.verdict # refused /\ d.verdict # answers
    BY <1>0
  <2> HIDE DEF refused, answers, changed, commit
  <2>3. d # Decided(refused, b.next, b.writes, b.answer)
    BY <2>2, DecidedIs
  <2>4. d # Decided(answers, b.next, b.writes, changed) /\ d # Decided(answers, b.next, b.writes, b.answer)
    BY <2>2, DecidedIs
  <2> QED
    BY <2>1, <2>3, <2>4 DEF commit
<1>6. d.next = b.next /\ d.writes = b.writes /\ d.answer = b.answer
  <2>1. d = Decided(commit, b.next, b.writes, b.answer)
    BY <1>5
  <2> HIDE DEF commit
  <2> QED
    BY <2>1, DecidedIs
<1>7. FirstBatch(b, c, order, version, m)
  BY <1>3, <1>5 DEF FirstBatch
<1>8. HalfDone(c, c, b, ToSet(Changes(c, b.writes)))
  BY <1>2, ChangesAre DEF HalfDone
<1> QED
  BY <1>6, <1>7, <1>8 DEF Half

\* One write less to do.
LEMMA HalfStep ==
  ASSUME NEW recorded, NEW says, NEW c, NEW undone, NEW order, NEW version \in Nat,
         Half(recorded, says, c, undone, order, version),
         NEW w, NEW rest, undone = {w} \cup rest, w.path \in DOMAIN c,
         NEW after, after = [c EXCEPT ![w.path] = w.after]
  PROVE  Half(recorded, says, after, rest, order, version)
<1>1. PICK found, m, b : /\ FirstBatch(b, found, order, version, m) /\ b.next = recorded /\ b.answer = says
                         /\ HalfDone(c, found, b, undone)
  BY DEF Half
<1>2. BatchIs(b, found, order, Len(order), version, m)
  BY <1>1, BatchComes DEF FirstBatch
<1>3. BatchWrites(b, version, m)
  BY <1>2, Zenon DEF BatchIs
<1>4. w \in ToSet(b.writes) /\ rest \subseteq ToSet(b.writes)
  BY <1>1 DEF HalfDone
<1>5. ASSUME NEW v \in ToSet(b.writes) PROVE after[v.path] = v.after \/ v \in rest
  <2>1. CASE v = w
    BY <2>1
  <2>2. CASE v # w
    <3>1. v.path # w.path
      BY <1>3, <1>4, <2>2 DEF BatchWrites
    <3>2. c[v.path] = v.after \/ v \in undone
      BY <1>1 DEF HalfDone
    <3>3. after[v.path] = c[v.path]
      BY <3>1
    <3> QED
      BY <2>2, <3>2, <3>3
  <2> QED
    BY <2>1, <2>2
<1>6. ASSUME NEW path \in DOMAIN found, \A v \in ToSet(b.writes) : v.path # path PROVE after[path] = found[path]
  <2>1. c[path] = found[path] /\ path # w.path
    BY <1>1, <1>4, <1>6 DEF HalfDone
  <2> QED
    BY <2>1
<1>7. HalfDone(after, found, b, rest)
  BY <1>4, <1>5, <1>6 DEF HalfDone
<1> QED
  BY <1>1, <1>7 DEF Half

\* A first run that has nothing left to write, and is recorded, would be repeated in vain.
LEMMA HalfEnds ==
  ASSUME NEW recorded, NEW says, NEW c, NEW order, Order(order, c), NEW version \in Nat,
         Half(recorded, says, c, {}, order, version), recorded # NoManifest,
         NEW s, s.by = version, s.answer = says
  PROVE  FirmFor(s, c, recorded, order)
<1>1. PICK found, m, b : /\ FirstBatch(b, found, order, version, m) /\ b.next = recorded /\ b.answer = says
                         /\ HalfDone(c, found, b, {})
  BY DEF Half
<1>2. Left(c, found, b)
  BY <1>1 DEF HalfDone, Left
<1> DEFINE n == b.next
           more == Batch(c, order, version, n)
           d == DecideInit(c, order, version, n, Present(n))
<1>3. more = Batch(c, order, version, n) /\ d = DecideInit(c, order, version, n, Present(n)) /\ n = b.next
  OBVIOUS
<1> HIDE DEF more, d, n
<1>4. n = recorded /\ n # NoManifest
  BY <1>1, <1>3
<1>5. /\ Order(order, found) /\ IsManifest(m) /\ DOMAIN m.harness = {}
      /\ b = Batch(found, order, version, m) /\ b.verdict = "ready" /\ ~Mutates(found, b.writes)
  BY <1>1 DEF FirstBatch
<1>6. /\ more.verdict = "ready" /\ more.next = b.next /\ more.answer = b.answer
      /\ more.writes \in Seq(Written(c)) /\ AllInPlace(more.writes, c)
  BY <1>2, <1>3, <1>5, BatchAgain
<1>7. Finds(more, c, n)
  BY <1>3, <1>6 DEF Finds
<1>8. SaysAs(d, more)
  BY <1>3, <1>4, <1>7, InitAnswers
<1>9. d.verdict = "answer" /\ d.answer = says
  BY <1>1, <1>6, <1>8 DEF SaysAs
<1> QED
  BY <1>3, <1>4, <1>9, Zenon DEF FirmFor

\* Nobody has anything left to write.
Quiet == \A q \in Procs : pc[q] \in Critical => todo[q] = <<>>

Firm(b) == FirmFor(b, content, manifest, Harnesses) /\ Quiet

Rests == settled # None => Firm(settled)

\* A command that no edit disturbed since an init had ended well: another init
\* of that version decides the same.
Based(p) ==
  p \notin disturbed /\ pc[p] # "idle" /\ base[p] # None =>
    /\ Firm(base[p])
    /\ Command[p] = "init" /\ base[p].by = Version[p] =>
         /\ pc[p] = "loaded" => supplied[p] = manifest
         /\ pc[p] \notin Critical
         /\ pc[p] = "done" => result[p] = "ok" /\ answer[p] = base[p].answer

OnItsWay(p) ==
  p \notin disturbed /\ Command[p] = "init" /\ pc[p] \in Critical =>
    Half(next[p], answer[p], content, ToSet(todo[p]), Harnesses, Version[p])

AllSettled == DOMAIN base = Procs /\ Rests /\ \A p \in Procs : Based(p) /\ OnItsWay(p)

\* What a step of p, that writes no file, leaves to the others.
Beyond(p) ==
  /\ UNCHANGED <<setting, content>>
  /\ manifest' = manifest \/ manifest = NoManifest
  /\ \A q \in Procs \ {p} : /\ pc'[q] = pc[q] /\ supplied'[q] = supplied[q] /\ next'[q] = next[q] /\ todo'[q] = todo[q]
                            /\ answer'[q] = answer[q] /\ result'[q] = result[q] /\ base'[q] = base[q]
  /\ disturbed' \ {p} = disturbed \ {p}
  /\ DOMAIN base' = DOMAIN base
  /\ manifest # NoManifest /\ Quiet => (pc'[p] \in Critical => todo'[p] = <<>>)

\* What is firm stays firm.
LEMMA FirmCarries ==
  ASSUME NEW p \in Procs, Beyond(p), NEW b, Firm(b)
  PROVE  FirmFor(b, content', manifest', Harnesses') /\ Quiet' /\ manifest' = manifest
<1>1. Harnesses' = Harnesses /\ Procs' = Procs /\ content' = content
  BY SettingStays DEF Beyond
<1>2. manifest # NoManifest /\ manifest' = manifest /\ Quiet
  BY DEF Beyond, Firm, FirmFor
<1>3. FirmFor(b, content', manifest', Harnesses')
  BY <1>1, <1>2 DEF Firm
<1>4. \A q \in Procs : pc'[q] \in Critical => todo'[q] = <<>>
  <2> SUFFICES ASSUME NEW q \in Procs, pc'[q] \in Critical PROVE todo'[q] = <<>>
    OBVIOUS
  <2>1. CASE q = p
    BY <1>2, <2>1 DEF Beyond
  <2>2. CASE q # p
    BY <1>2, <2>2 DEF Beyond, Quiet
  <2> QED
    BY <2>1, <2>2
<1>5. Quiet'
  BY <1>1, <1>4 DEF Quiet
<1> QED
  BY <1>2, <1>3, <1>5

\* The others stay settled.
LEMMA OthersSettled ==
  ASSUME AllSettled, NEW p \in Procs, Beyond(p), NEW q \in Procs \ {p}
  PROVE  Based(q)' /\ OnItsWay(q)'
<1>1. /\ Harnesses' = Harnesses /\ Procs' = Procs /\ content' = content /\ Command' = Command /\ Version' = Version
  BY SettingStays DEF Beyond
<1>2. /\ pc'[q] = pc[q] /\ supplied'[q] = supplied[q] /\ next'[q] = next[q] /\ todo'[q] = todo[q]
      /\ answer'[q] = answer[q] /\ result'[q] = result[q] /\ base'[q] = base[q]
      /\ q \in disturbed' <=> q \in disturbed
  BY DEF Beyond
<1>3. Based(q) /\ OnItsWay(q)
  BY DEF AllSettled
<1>4. Based(q)'
  <2> SUFFICES ASSUME (q \notin disturbed /\ pc[q] # "idle" /\ base[q] # None)'
               PROVE  (/\ Firm(base[q])
                       /\ Command[q] = "init" /\ base[q].by = Version[q] =>
                            /\ pc[q] = "loaded" => supplied[q] = manifest
                            /\ pc[q] \notin Critical
                            /\ pc[q] = "done" => result[q] = "ok" /\ answer[q] = base[q].answer)'
    BY DEF Based
  <2>1. /\ Firm(base[q])
        /\ Command[q] = "init" /\ base[q].by = Version[q] =>
             /\ pc[q] = "loaded" => supplied[q] = manifest
             /\ pc[q] \notin Critical
             /\ pc[q] = "done" => result[q] = "ok" /\ answer[q] = base[q].answer
    BY <1>2, <1>3 DEF Based
  <2> DEFINE b == base[q]
  <2>2. FirmFor(b, content', manifest', Harnesses') /\ Quiet' /\ manifest' = manifest
    <3>1. Firm(b)
      BY <2>1
    <3> HIDE DEF b
    <3> QED
      BY <3>1, FirmCarries
  <2>3. Firm(base[q])'
    BY <1>2, <2>2 DEF Firm
  <2> QED
    BY <1>1, <1>2, <2>1, <2>2, <2>3 DEF Critical
<1>5. OnItsWay(q)'
  BY <1>1, <1>2, <1>3 DEF OnItsWay, Critical
<1> QED
  BY <1>4, <1>5

\* An earlier success stays one.
LEMMA RestsOn ==
  ASSUME AllSettled, NEW p \in Procs, Beyond(p), settled' = settled
  PROVE  Rests'
<1> SUFFICES ASSUME settled' # None PROVE Firm(settled)'
  BY DEF Rests
<1> DEFINE b == settled
<1>1. Firm(b)
  BY DEF AllSettled, Rests
<1>2. FirmFor(b, content', manifest', Harnesses') /\ Quiet'
  <2> HIDE DEF b
  <2> QED
    BY <1>1, FirmCarries
<1> QED
  BY <1>2 DEF Firm

\* A step that writes no file.
LEMMA SettledStep ==
  ASSUME AllSettled, NEW p \in Procs, Beyond(p), Rests', Based(p)', OnItsWay(p)'
  PROVE  AllSettled'
<1>1. Procs' = Procs /\ DOMAIN base' = DOMAIN base
  BY SettingStays DEF Beyond
<1>2. \A q \in Procs : Based(q)' /\ OnItsWay(q)'
  BY OthersSettled
<1> QED
  BY <1>1, <1>2 DEF AllSettled

\* A command that starts is settled by what was settled then.
LEMMA SettledLoad ==
  ASSUME Typed, AllSettled, NEW p \in Procs, Load(p), UNCHANGED setting
  PROVE  AllSettled'
<1>1. Shape /\ Rests /\ DOMAIN base = Procs
  BY DEF Typed, AllSettled
<1>2. /\ Command' = Command /\ Version' = Version /\ Procs' = Procs /\ Harnesses' = Harnesses
  BY SettingStays
<1>3. /\ UNCHANGED <<content, manifest, next, todo, answer, settled>>
      /\ disturbed' = disturbed \ {p} /\ base' = [base EXCEPT ![p] = settled]
  BY DEF Load, disk
<1>4. \/ /\ manifest # NoManifest /\ supplied' = [supplied EXCEPT ![p] = manifest]
         /\ pc' = [pc EXCEPT ![p] = "loaded"] /\ UNCHANGED result
      \/ /\ manifest = NoManifest /\ pc' = [pc EXCEPT ![p] = "loaded"] /\ UNCHANGED result
         /\ \E m : supplied' = [supplied EXCEPT ![p] = m]
      \/ /\ manifest = NoManifest /\ pc' = [pc EXCEPT ![p] = "done"] /\ UNCHANGED supplied
         /\ result' = [result EXCEPT ![p] = "error"]
  BY DEF Load, Goto, Ends
<1>5. pc'[p] \in {"loaded", "done"} /\ (manifest # NoManifest => pc'[p] = "loaded" /\ supplied'[p] = manifest)
  BY <1>1, <1>4 DEF Shape
<1>6. \A q \in Procs \ {p} : pc'[q] = pc[q] /\ supplied'[q] = supplied[q] /\ result'[q] = result[q] /\ base'[q] = base[q]
  BY <1>1, <1>3, <1>4 DEF Shape
<1>7. base'[p] = settled /\ DOMAIN base' = DOMAIN base
  BY <1>1, <1>3
<1>8. Beyond(p)
  BY <1>3, <1>5, <1>6, <1>7 DEF Beyond, Critical
<1>9. Rests'
  BY <1>3, <1>8, RestsOn
<1>10. Based(p)'
  <2> SUFFICES ASSUME base'[p] # None
               PROVE  (/\ Firm(base[p])
                       /\ Command[p] = "init" /\ base[p].by = Version[p] =>
                            /\ pc[p] = "loaded" => supplied[p] = manifest
                            /\ pc[p] \notin Critical
                            /\ pc[p] = "done" => result[p] = "ok" /\ answer[p] = base[p].answer)'
    BY DEF Based
  <2>1. Firm(settled)'
    BY <1>3, <1>7, <1>9 DEF Rests
  <2>2. Firm(base[p])'
    BY <1>3, <1>7, <2>1 DEF Firm
  <2>3. manifest' # NoManifest
    BY <2>2 DEF Firm, FirmFor
  <2> QED
    BY <1>3, <1>5, <2>2, <2>3 DEF Critical
<1>11. OnItsWay(p)'
  BY <1>5 DEF OnItsWay, Critical
<1> QED
  BY <1>8, <1>9, <1>10, <1>11, SettledStep

\* A step after which the command is not at work, and that answered nothing.
LEMMA SettledBeaten ==
  ASSUME Typed, AllSettled, NEW p \in Procs, UNCHANGED setting,
         UNCHANGED <<content, manifest, supplied, next, todo, answer, disturbed, settled, base>>,
         NEW to \in {"link", "manifest", "done", "dead", "idle"}, pc' = [pc EXCEPT ![p] = to],
         result' = result \/ \E how \in {"none", "error", "refused", "indeterminate"} : result' = [result EXCEPT ![p] = how],
         to \in {"link", "manifest"} => pc[p] = "publish",
         to = "done" => pc[p] \in Critical,
         to = "dead" => pc[p] \in Critical \cup {"loaded"}
  PROVE  AllSettled'
<1>1. Shape /\ Based(p) /\ OnItsWay(p) /\ DOMAIN base = Procs
  BY DEF Typed, AllSettled
<1>2. /\ Command' = Command /\ Version' = Version /\ Procs' = Procs /\ Harnesses' = Harnesses
  BY SettingStays
<1>3. pc'[p] = to /\ \A q \in Procs \ {p} : pc'[q] = pc[q] /\ result'[q] = result[q]
  BY <1>1 DEF Shape
<1>4. pc'[p] \in Critical => pc[p] \in Critical
  BY <1>3 DEF Critical
<1>5. Beyond(p)
  BY <1>3, <1>4 DEF Beyond, Quiet
<1>6. Rests'
  BY <1>5, RestsOn
<1>7. Based(p)'
  <2> SUFFICES ASSUME (p \notin disturbed /\ pc[p] # "idle" /\ base[p] # None)'
               PROVE  (/\ Firm(base[p])
                       /\ Command[p] = "init" /\ base[p].by = Version[p] =>
                            /\ pc[p] = "loaded" => supplied[p] = manifest
                            /\ pc[p] \notin Critical
                            /\ pc[p] = "done" => result[p] = "ok" /\ answer[p] = base[p].answer)'
    BY DEF Based
  <2>1. pc[p] # "idle"
    BY <1>3 DEF Critical
  <2>2. /\ Firm(base[p])
        /\ Command[p] = "init" /\ base[p].by = Version[p] => pc[p] \notin Critical
    BY <1>1, <2>1 DEF Based
  <2> DEFINE b == base[p]
  <2>3. FirmFor(b, content', manifest', Harnesses') /\ Quiet'
    <3>1. Firm(b)
      BY <2>2
    <3> HIDE DEF b
    <3> QED
      BY <1>5, <3>1, FirmCarries
  <2>4. Firm(base[p])'
    BY <2>3 DEF Firm
  <2> QED
    BY <1>2, <1>3, <2>2, <2>4 DEF Critical
<1>8. OnItsWay(p)'
  BY <1>1, <1>2, <1>4 DEF OnItsWay
<1> QED
  BY <1>5, <1>6, <1>7, <1>8, SettledStep

\* What an init decides.
LEMMA InitDecision ==
  ASSUME NEW p \in Procs, Command[p] = "init", NEW m
  PROVE  Decision(p, m) = DecideInit(content, Harnesses, Version[p], m, Present(manifest))
<1> DEFINE there == manifest # NoManifest
<1>1. there = Present(manifest)
  BY DEF Present
<1>2. Decision(p, m) = DecideInit(content, Harnesses, Version[p], m, there)
  BY DEF Decision
<1> HIDE DEF there
<1> QED
  BY <1>1, <1>2

\* The version that the history says a command repeats.
Repeating(p) == Command[p] = "init" /\ p \notin disturbed /\ base[p] # None /\ base[p].by = Version[p]

\* An init that repeats another decides the same.
LEMMA RepeatedDecision ==
  ASSUME AllSettled, NEW p \in Procs, Repeating(p), NEW d, PrepareOf(p, d)
  PROVE  d.verdict = "answer" /\ d.answer = base[p].answer
<1>1. Firm(base[p])
  BY DEF AllSettled, Based, Repeating, PrepareOf
<1>2. manifest # NoManifest
  BY <1>1 DEF Firm, FirmFor
<1>3. Current(p) = manifest
  BY <1>2 DEF Current
<1> DEFINE m == manifest
           by == base[p].by
           says == base[p].answer
<1>4. d = DecideInit(content, Harnesses, Version[p], m, Present(manifest)) /\ Version[p] = by
  <2>1. d = Decision(p, m) /\ Command[p] = "init" /\ Version[p] = by
    BY <1>3 DEF PrepareOf, Repeating
  <2> HIDE DEF m, by, says
  <2> QED
    BY <2>1, InitDecision
<1>5. DecideInit(content, Harnesses, by, m, Present(manifest)).verdict = "answer"
      /\ DecideInit(content, Harnesses, by, m, Present(manifest)).answer = says
  BY <1>1 DEF Firm, FirmFor
<1> HIDE DEF m, by, says
<1>6. d.verdict = "answer" /\ d.answer = says
  BY <1>4, <1>5
<1> QED
  BY <1>6 DEF says

\* An init that answers leaves what it has found, for the next to find.
LEMMA AnswerIsFirm ==
  ASSUME Typed, NEW p \in Procs, Command[p] = "init", NEW d, PrepareOf(p, d), d.verdict = "answer",
         NEW b, b.by = Version[p], b.answer = d.answer
  PROVE  Firm(b)
<1>1. manifest # NoManifest
  BY DEF PrepareOf, DecisionOf
<1>2. Current(p) = manifest
  BY <1>1 DEF Current
<1>3. d = DecideInit(content, Harnesses, b.by, manifest, Present(manifest))
  <2> DEFINE m == manifest
  <2>1. d = Decision(p, m)
    BY <1>2 DEF PrepareOf
  <2> HIDE DEF m
  <2>2. d = DecideInit(content, Harnesses, Version[p], m, Present(manifest))
    BY <2>1, InitDecision
  <2> QED
    BY <2>2 DEF m
<1>4. FirmFor(b, content, manifest, Harnesses)
  BY <1>1, <1>3 DEF FirmFor
<1>5. Quiet
  <2>1. lock = Free /\ Free \notin Procs
    BY SettingIs DEF PrepareOf, Typed, Shape, Set
  <2> QED
    BY <2>1 DEF Quiet, Typed, At
<1> QED
  BY <1>4, <1>5 DEF Firm

\* A command that answers, or is refused, under the lock.
LEMMA SettledAnswer ==
  ASSUME Typed, AllSettled, NEW p \in Procs, NEW d, PrepareOf(p, d), UNCHANGED setting,
         UNCHANGED <<lock, expected, next, todo, applied>>,
         \/ d.verdict = "refused" /\ Ends(p, "refused") /\ UNCHANGED settled
         \/ d.verdict = "answer" /\ Ends(p, "ok") /\ Settle(p, "ok", d.answer)
  PROVE  AllSettled'
<1>1. Shape /\ DOMAIN base = Procs
  BY DEF Typed, AllSettled
<1>2. /\ Command' = Command /\ Version' = Version /\ Procs' = Procs /\ Harnesses' = Harnesses
  BY SettingStays
<1>3. /\ UNCHANGED <<content, manifest, supplied, disturbed, base>> /\ pc[p] = "loaded"
      /\ answer' = [answer EXCEPT ![p] = d.answer]
  BY DEF PrepareOf
<1>4. pc' = [pc EXCEPT ![p] = "done"] /\ (result' = [result EXCEPT ![p] = "refused"] \/ result' = [result EXCEPT ![p] = "ok"])
  BY DEF Ends, Goto
<1>5. d.verdict = "answer" => result' = [result EXCEPT ![p] = "ok"]
  BY DEF Ends
<1>6. pc'[p] = "done" /\ answer'[p] = d.answer /\ (d.verdict = "answer" => result'[p] = "ok")
      /\ \A q \in Procs \ {p} : pc'[q] = pc[q] /\ result'[q] = result[q] /\ answer'[q] = answer[q]
  BY <1>1, <1>3, <1>4, <1>5 DEF Shape
<1>7. Beyond(p)
  BY <1>3, <1>6 DEF Beyond, Critical
<1>8. Rests'
  <2>1. CASE settled' = settled
    BY <1>7, <2>1, RestsOn
  <2>2. CASE /\ d.verdict = "answer" /\ Command[p] = "init"
             /\ settled' = [by |-> Version[p], answer |-> d.answer]
    <3> DEFINE b == [by |-> Version[p], answer |-> d.answer]
    <3>1. b.by = Version[p] /\ b.answer = d.answer /\ settled' = b
      BY <2>2
    <3> HIDE DEF b
    <3>2. Firm(b)
      BY <2>2, <3>1, AnswerIsFirm
    <3>3. FirmFor(b, content', manifest', Harnesses') /\ Quiet'
      BY <1>7, <3>2, FirmCarries
    <3> QED
      BY <3>1, <3>3 DEF Rests, Firm
  <2> QED
    BY <2>1, <2>2 DEF Settle
<1>9. Based(p)'
  <2> SUFFICES ASSUME (p \notin disturbed /\ pc[p] # "idle" /\ base[p] # None)'
               PROVE  (/\ Firm(base[p])
                       /\ Command[p] = "init" /\ base[p].by = Version[p] =>
                            /\ pc[p] = "loaded" => supplied[p] = manifest
                            /\ pc[p] \notin Critical
                            /\ pc[p] = "done" => result[p] = "ok" /\ answer[p] = base[p].answer)'
    BY DEF Based
  <2>1. Firm(base[p])
    BY <1>3 DEF AllSettled, Based
  <2> DEFINE b == base[p]
  <2>2. FirmFor(b, content', manifest', Harnesses') /\ Quiet'
    <3>1. Firm(b)
      BY <2>1
    <3> HIDE DEF b
    <3> QED
      BY <1>7, <3>1, FirmCarries
  <2>3. Firm(base[p])'
    BY <1>3, <2>2 DEF Firm
  <2>4. ASSUME (Command[p] = "init" /\ base[p].by = Version[p])' PROVE result'[p] = "ok" /\ answer'[p] = base'[p].answer
    <3>1. Repeating(p)
      BY <1>2, <1>3, <2>4 DEF Repeating
    <3>2. d.verdict = "answer" /\ d.answer = base[p].answer
      BY <3>1, RepeatedDecision
    <3> QED
      BY <1>3, <1>6, <3>2
  <2> QED
    BY <1>6, <2>3, <2>4 DEF Critical
<1>10. OnItsWay(p)'
  BY <1>6 DEF OnItsWay, Critical
<1> QED
  BY <1>7, <1>8, <1>9, <1>10, SettledStep

\* A command that finds another store.
LEMMA SettledFails ==
  ASSUME Typed, AllSettled, NEW p \in Procs, PrepareFails(p), UNCHANGED setting
  PROVE  AllSettled'
<1>1. Shape /\ DOMAIN base = Procs
  BY DEF Typed, AllSettled
<1>2. /\ Command' = Command /\ Version' = Version /\ Procs' = Procs /\ Harnesses' = Harnesses
  BY SettingStays
<1>3. /\ UNCHANGED <<content, manifest, supplied, next, todo, answer, disturbed, settled, base>> /\ pc[p] = "loaded"
      /\ pc' = [pc EXCEPT ![p] = "done"] /\ result' = [result EXCEPT ![p] = "error"]
  BY DEF PrepareFails, Ends, Goto
<1>4. pc'[p] = "done" /\ \A q \in Procs \ {p} : pc'[q] = pc[q] /\ result'[q] = result[q]
  BY <1>1, <1>3 DEF Shape
<1>5. Beyond(p)
  BY <1>3, <1>4 DEF Beyond, Critical
<1>6. Rests'
  BY <1>3, <1>5, RestsOn
<1>7. ~Repeating(p)
  <2> SUFFICES ASSUME Repeating(p) PROVE FALSE
    OBVIOUS
  <2>1. supplied[p] = manifest
    BY <1>3 DEF AllSettled, Based, Repeating
  <2> QED
    BY <2>1 DEF PrepareFails, SameIdentity
<1>8. Based(p)'
  <2> SUFFICES ASSUME (p \notin disturbed /\ pc[p] # "idle" /\ base[p] # None)'
               PROVE  (/\ Firm(base[p])
                       /\ Command[p] = "init" /\ base[p].by = Version[p] =>
                            /\ pc[p] = "loaded" => supplied[p] = manifest
                            /\ pc[p] \notin Critical
                            /\ pc[p] = "done" => result[p] = "ok" /\ answer[p] = base[p].answer)'
    BY DEF Based
  <2>1. Firm(base[p])
    BY <1>3 DEF AllSettled, Based
  <2> DEFINE b == base[p]
  <2>2. FirmFor(b, content', manifest', Harnesses') /\ Quiet'
    <3>1. Firm(b)
      BY <2>1
    <3> HIDE DEF b
    <3> QED
      BY <1>5, <3>1, FirmCarries
  <2>3. Firm(base[p])'
    BY <1>3, <2>2 DEF Firm
  <2>4. ~(Command[p] = "init" /\ base[p].by = Version[p])'
    BY <1>2, <1>3, <1>7 DEF Repeating
  <2> QED
    BY <2>3, <2>4
<1>9. OnItsWay(p)'
  BY <1>4 DEF OnItsWay, Critical
<1> QED
  BY <1>5, <1>6, <1>8, <1>9, SettledStep

\* An init that goes to publish is a first run on its way.
LEMMA CommitIsHalf ==
  ASSUME Typed, Agreed, NEW p \in Procs, NEW d, PrepareOf(p, d), d.verdict = "commit", Command[p] = "init",
         p \notin disturbed
  PROVE  Half(d.next, d.answer, content, ToSet(Changes(content, d.writes)), Harnesses, Version[p])
<1>1. Order(Harnesses, content) /\ Version[p] \in Nat
  BY SettingIs DEF Typed, Shape, Set
<1>2. manifest = NoManifest /\ pc[p] = "loaded"
  BY DEF PrepareOf, DecisionOf
<1> DEFINE m == supplied[p]
           there == Present(manifest)
           v == Version[p]
<1>3. Current(p) = m
  BY <1>2 DEF Current
<1>4. IsManifest(m)
  BY <1>3 DEF PrepareOf
<1>5. DOMAIN m.harness = {}
  <2>1. supplied[p] = manifest \/ DOMAIN supplied[p].harness = {}
    BY <1>2 DEF Agreed, AgreedAt
  <2> QED
    BY <1>2, <1>4, <2>1, NoManifestIs
<1>6. d = Decision(p, m)
  BY <1>3 DEF PrepareOf
<1>7. there \in BOOLEAN
  BY DEF Present
<1>8. there = Present(manifest) /\ v = Version[p] /\ v \in Nat
  BY <1>1
<1> HIDE DEF m, there, v
<1>9. d = DecideInit(content, Harnesses, v, m, there)
  BY <1>6, <1>8, InitDecision
<1>10. Half(d.next, d.answer, content, ToSet(Changes(content, d.writes)), Harnesses, v)
  BY <1>1, <1>4, <1>5, <1>7, <1>8, <1>9, HalfStarts
<1> QED
  BY <1>8, <1>10

\* A command that goes to publish.
LEMMA SettledCommit ==
  ASSUME Typed, Agreed, AllSettled, NEW p \in Procs, NEW d, PrepareOf(p, d), UNCHANGED setting,
         d.verdict = "commit", pc' = [pc EXCEPT ![p] = "publish"], next' = [next EXCEPT ![p] = d.next],
         todo' = [todo EXCEPT ![p] = Changes(content, d.writes)], UNCHANGED <<result, settled>>
  PROVE  AllSettled'
<1>1. Shape /\ DOMAIN base = Procs
  BY DEF Typed, AllSettled
<1>2. /\ Command' = Command /\ Version' = Version /\ Procs' = Procs /\ Harnesses' = Harnesses
  BY SettingStays
<1>3. /\ UNCHANGED <<content, manifest, supplied, disturbed, base>> /\ pc[p] = "loaded"
      /\ answer' = [answer EXCEPT ![p] = d.answer]
  BY DEF PrepareOf
<1> DEFINE list == Changes(content, d.writes)
<1>4. list = Changes(content, d.writes)
  OBVIOUS
<1> HIDE DEF list
<1>5. pc'[p] = "publish" /\ next'[p] = d.next /\ todo'[p] = list /\ answer'[p] = d.answer
  <2>1. DOMAIN todo = Procs /\ DOMAIN pc = Procs /\ DOMAIN next = Procs /\ DOMAIN answer = Procs
    BY <1>1 DEF Shape
  <2> QED
    BY <1>3, <1>4, <2>1
<1>6. \A q \in Procs \ {p} : pc'[q] = pc[q] /\ next'[q] = next[q] /\ todo'[q] = todo[q] /\ answer'[q] = answer[q]
  BY <1>1, <1>3 DEF Shape
<1>7. manifest # NoManifest => list = <<>>
  BY <1>4 DEF PrepareOf, DecisionOf, CommitOf
<1>8. Beyond(p)
  BY <1>3, <1>5, <1>6, <1>7 DEF Beyond
<1>9. Rests'
  BY <1>8, RestsOn
<1>10. ~Repeating(p)
  BY RepeatedDecision
<1>11. Based(p)'
  <2> SUFFICES ASSUME (p \notin disturbed /\ pc[p] # "idle" /\ base[p] # None)'
               PROVE  (/\ Firm(base[p])
                       /\ Command[p] = "init" /\ base[p].by = Version[p] =>
                            /\ pc[p] = "loaded" => supplied[p] = manifest
                            /\ pc[p] \notin Critical
                            /\ pc[p] = "done" => result[p] = "ok" /\ answer[p] = base[p].answer)'
    BY DEF Based
  <2>1. Firm(base[p])
    BY <1>3 DEF AllSettled, Based
  <2> DEFINE b == base[p]
  <2>2. FirmFor(b, content', manifest', Harnesses') /\ Quiet'
    <3>1. Firm(b)
      BY <2>1
    <3> HIDE DEF b
    <3> QED
      BY <1>8, <3>1, FirmCarries
  <2>3. Firm(base[p])'
    BY <1>3, <2>2 DEF Firm
  <2>4. ~(Command[p] = "init" /\ base[p].by = Version[p])'
    BY <1>2, <1>3, <1>10, <2>1 DEF Repeating
  <2> QED
    BY <2>3, <2>4
<1>12. OnItsWay(p)'
  <2> SUFFICES ASSUME p \notin disturbed', Command'[p] = "init"
               PROVE  Half(next'[p], answer'[p], content', ToSet(todo'[p]), Harnesses', Version'[p])
    BY DEF OnItsWay
  <2>1. Half(d.next, d.answer, content, ToSet(list), Harnesses, Version[p])
    BY <1>2, <1>3, <1>4, CommitIsHalf
  <2> QED
    BY <1>2, <1>3, <1>5, <2>1
<1> QED
  BY <1>8, <1>9, <1>11, <1>12, SettledStep

\* Settled and preparing.
LEMMA SettledPrepare ==
  ASSUME Typed, Agreed, AllSettled, NEW p \in Procs, Prepare(p), UNCHANGED setting
  PROVE  AllSettled'
<1>1. CASE PrepareFails(p)
  BY <1>1, SettledFails
<1>2. ASSUME NEW d, PrepareOf(p, d) PROVE AllSettled'
  <2>1. CASE /\ d.verdict = "refused" /\ Ends(p, "refused")
             /\ UNCHANGED <<lock, expected, next, todo, applied, settled>>
    BY <1>2, <2>1, SettledAnswer
  <2>2. CASE /\ d.verdict = "answer" /\ Ends(p, "ok") /\ Settle(p, "ok", d.answer)
             /\ UNCHANGED <<lock, expected, next, todo, applied>>
    BY <1>2, <2>2, SettledAnswer
  <2>3. CASE /\ d.verdict = "commit" /\ Goto(p, "publish") /\ lock' = p
             /\ expected' = [expected EXCEPT ![p] = manifest]
             /\ next' = [next EXCEPT ![p] = d.next]
             /\ todo' = [todo EXCEPT ![p] = Changes(content, d.writes)]
             /\ applied' = [applied EXCEPT ![p] = FALSE]
             /\ UNCHANGED <<result, settled>>
    BY <1>2, <2>3, SettledCommit DEF Goto
  <2> QED
    BY <1>2, <2>1, <2>2, <2>3, Zenon DEF PrepareOf
<1> QED
  BY <1>1, <1>2, Preparing

\* A file that is published: nobody was settled, and a first run has one write less to do.
LEMMA SettledPublish ==
  ASSUME Typed, AllSettled, NEW p \in Procs, UNCHANGED setting, pc[p] = "link", todo[p] # <<>>, lock = p,
         content' = [content EXCEPT ![Head(todo[p]).path] = Head(todo[p]).after],
         Head(todo[p]).path \in Paths,
         UNCHANGED <<next, answer, disturbed, settled, base>>,
         \/ todo' = [todo EXCEPT ![p] = Tail(todo[p])] /\ pc' = [pc EXCEPT ![p] = "publish"]
         \/ pc' = [pc EXCEPT ![p] = "done"]
  PROVE  AllSettled'
<1>1. Shape /\ DOMAIN base = Procs
  BY DEF Typed, AllSettled
<1>2. /\ Command' = Command /\ Version' = Version /\ Procs' = Procs /\ Harnesses' = Harnesses
  BY SettingStays
<1>3. ~Quiet
  BY DEF Quiet, Critical
<1>4. settled = None /\ \A q \in Procs : q \notin disturbed /\ pc[q] # "idle" => base[q] = None
  BY <1>3 DEF AllSettled, Rests, Based, Firm
<1>5. pc'[p] \in {"publish", "done"} /\ \A q \in Procs \ {p} : pc'[q] = pc[q]
  BY <1>1 DEF Shape
<1>6. \A q \in Procs \ {p} : pc[q] \notin Critical
  BY DEF Typed, At
<1>7. Rests'
  BY <1>4 DEF Rests
<1>8. \A q \in Procs : Based(q)'
  BY <1>4, <1>5 DEF Based
<1>9. \A q \in Procs \ {p} : OnItsWay(q)'
  BY <1>5, <1>6 DEF OnItsWay, Critical
<1>10. OnItsWay(p)'
  <2> SUFFICES ASSUME p \notin disturbed', Command'[p] = "init", pc'[p] \in Critical
               PROVE  Half(next'[p], answer'[p], content', ToSet(todo'[p]), Harnesses', Version'[p])
    BY DEF OnItsWay
  <2>1. pc'[p] # "done"
    BY DEF Critical
  <2>2. todo' = [todo EXCEPT ![p] = Tail(todo[p])]
    BY <1>1, <2>1 DEF Shape
  <2>3. todo'[p] = Tail(todo[p])
    BY <1>1, <2>2 DEF Shape
  <2>4. Half(next[p], answer[p], content, ToSet(todo[p]), Harnesses, Version[p])
    BY <1>2 DEF AllSettled, OnItsWay, Critical
  <2> DEFINE T == [path : Paths, after : Content]
             list == todo[p]
             w == Head(list)
             rest == ToSet(Tail(list))
             undone == ToSet(list)
             v == Version[p]
             recorded == next[p]
             says == answer[p]
             found == content
             after == content'
             order == Harnesses
  <2>5. ToSet(list) = {w} \cup rest
    <3>1. list \in Seq(T) /\ list # <<>>
      BY <1>1 DEF Shape
    <3> HIDE DEF T, list
    <3> QED
      BY <3>1, HeadAndTail DEF w, rest
  <2>6. undone = {w} \cup rest /\ v \in Nat /\ w.path \in DOMAIN content /\ content' = [content EXCEPT ![w.path] = w.after]
    BY <1>1, <2>5, SettingIs DEF Typed, Shape, Set
  <2>7. Half(recorded, says, found, undone, order, v)
    BY <2>4
  <2>8. Half(recorded, says, after, rest, order, v)
    <3>1. undone = {w} \cup rest /\ v \in Nat /\ w.path \in DOMAIN found /\ after = [found EXCEPT ![w.path] = w.after]
      BY <2>6
    <3> HIDE DEF recorded, says, undone, v, rest, w, list, T, found, after, order
    <3> QED
      BY <2>7, <3>1, HalfStep
  <2> QED
    BY <1>2, <2>3, <2>8
<1> QED
  BY <1>1, <1>2, <1>7, <1>8, <1>9, <1>10 DEF AllSettled

\* Settled and linking a file.
LEMMA SettledLink ==
  ASSUME Typed, AllSettled, NEW p \in Procs, Link(p), UNCHANGED setting
  PROVE  AllSettled'
<1>1. LinkOf(p) /\ Shape
  BY Linking DEF Typed
<1>2. /\ pc[p] = "link" /\ todo[p] # <<>> /\ lock = p /\ Head(todo[p]) \in [path : Paths, after : Content]
      /\ UNCHANGED <<manifest, supplied, next, answer, disturbed, settled, base>>
  BY <1>1 DEF LinkOf
<1>3. \/ todo' = [todo EXCEPT ![p] = Tail(todo[p])] /\ pc' = [pc EXCEPT ![p] = "publish"] /\ UNCHANGED <<lock, result>>
      \/ /\ UNCHANGED todo /\ pc' = [pc EXCEPT ![p] = "done"] /\ lock' = Free
         /\ \E how \in {"indeterminate", "error"} : result' = [result EXCEPT ![p] = how]
  BY <1>1, Zenon DEF LinkOf
<1>4. CASE content' = [content EXCEPT ![Head(todo[p]).path] = Head(todo[p]).after]
  <2>1. Head(todo[p]).path \in Paths
    BY <1>2
  <2> QED
    BY <1>2, <1>3, <1>4, <2>1, SettledPublish
<1>5. CASE UNCHANGED <<content, published>> /\ pc' = [pc EXCEPT ![p] = "done"]
  <2>1. pc'[p] = "done"
    BY <1>1, <1>5 DEF Shape
  <2>2. UNCHANGED todo /\ \E how \in {"indeterminate", "error"} : result' = [result EXCEPT ![p] = how]
    BY <1>1, <1>3, <2>1 DEF Shape
  <2> DEFINE to == "done"
  <2>3. /\ to \in {"link", "manifest", "done", "dead", "idle"} /\ pc' = [pc EXCEPT ![p] = to]
        /\ \E how \in {"none", "error", "refused", "indeterminate"} : result' = [result EXCEPT ![p] = how]
        /\ to \notin {"link", "manifest"} /\ to # "dead" /\ pc[p] \in Critical
    BY <1>2, <1>5, <2>2 DEF Critical
  <2> HIDE DEF to
  <2> QED
    BY <1>2, <1>5, <2>2, <2>3, SettledBeaten
<1> QED
  BY <1>1, <1>4, <1>5 DEF LinkOf

\* Settled and the looks, deaths and beginnings that publish nothing.
LEMMA SettledRest ==
  ASSUME Typed, AllSettled, NEW p \in Procs, Check(p) \/ Crash(p) \/ RunAgain(p), UNCHANGED setting
  PROVE  AllSettled'
<1>1. Shape /\ UNCHANGED <<content, manifest, supplied, next, todo, answer, disturbed, settled, base>>
  BY DEF Typed, Check, Crash, RunAgain, disk, local, past
<1> DEFINE Hows == {"none", "error", "refused", "indeterminate"}
<1>2. \E to \in {"link", "manifest", "done", "dead", "idle"} :
        /\ pc' = [pc EXCEPT ![p] = to]
        /\ result' = result \/ \E how \in Hows : result' = [result EXCEPT ![p] = how]
        /\ to \in {"link", "manifest"} => pc[p] = "publish"
        /\ to = "done" => pc[p] \in Critical
        /\ to = "dead" => pc[p] \in Critical \cup {"loaded"}
  <2>1. CASE Check(p)
    <3>1. pc[p] = "publish" /\ (\/ pc' = [pc EXCEPT ![p] = "link"] /\ result' = result
                                \/ pc' = [pc EXCEPT ![p] = "done"] /\ \E how \in Hows : result' = [result EXCEPT ![p] = how])
      BY <2>1 DEF Check, Stop, Ends, Goto
    <3> QED
      BY <3>1 DEF Critical
  <2>2. CASE Crash(p)
    <3>1. pc' = [pc EXCEPT ![p] = "dead"] /\ result' = result /\ pc[p] \in Critical \cup {"loaded"}
      BY <1>1, <2>2 DEF Crash, Goto, Working, Critical, Shape
    <3> QED
      BY <3>1
  <2>3. CASE RunAgain(p)
    <3>1. pc' = [pc EXCEPT ![p] = "idle"] /\ \E how \in Hows : result' = [result EXCEPT ![p] = how]
      BY <2>3 DEF RunAgain, Goto
    <3> QED
      BY <3>1
  <2> QED
    BY <2>1, <2>2, <2>3
<1> QED
  BY <1>1, <1>2, SettledBeaten

\* What an init that ends well leaves is what the next one finds.
LEMMA EndIsFirm ==
  ASSUME Typed, AllSettled, NEW p \in Procs, Command[p] = "init", p \notin disturbed, pc[p] \in Critical,
         todo[p] = <<>>, next[p] # NoManifest, NEW s, s.by = Version[p], s.answer = answer[p]
  PROVE  FirmFor(s, content, next[p], Harnesses)
<1>1. Half(next[p], answer[p], content, ToSet(todo[p]), Harnesses, Version[p])
  BY DEF AllSettled, OnItsWay
<1>2. ToSet(todo[p]) = {}
  BY DEF ToSet
<1> DEFINE recorded == next[p]
           says == answer[p]
           v == Version[p]
           undone == ToSet(todo[p])
<1>3. Half(recorded, says, content, undone, Harnesses, v) /\ recorded # NoManifest /\ s.by = v /\ s.answer = says
  BY <1>1
<1>4. Order(Harnesses, content) /\ v \in Nat
  BY SettingIs DEF Typed, Shape, Set
<1>5. undone = {}
  BY <1>2
<1> HIDE DEF recorded, says, v, undone
<1>6. Half(recorded, says, content, {}, Harnesses, v)
  BY <1>3, <1>5
<1>7. FirmFor(s, content, recorded, Harnesses)
  BY <1>3, <1>4, <1>6, HalfEnds
<1> QED
  BY <1>7 DEF recorded

\* A command that ends while it holds the lock.
LEMMA SettledEnds ==
  ASSUME Typed, AllSettled, NEW p \in Procs, PersistOf(p), pc[p] \in {"publish", "manifest"}, UNCHANGED setting,
         pc' = [pc EXCEPT ![p] = "done"],
         NEW how, result' = [result EXCEPT ![p] = how],
         UNCHANGED settled \/ (Settle(p, "ok", answer[p]) /\ manifest' = next[p])
  PROVE  AllSettled'
<1>1. Shape /\ DOMAIN base = Procs
  BY DEF Typed, AllSettled
<1>2. /\ Command' = Command /\ Version' = Version /\ Procs' = Procs /\ Harnesses' = Harnesses
  BY SettingStays
<1>3. /\ lock = p /\ todo[p] = <<>> /\ Known(next[p]) /\ pc[p] \in Critical
      /\ UNCHANGED <<content, supplied, next, todo, answer, disturbed, base>>
      /\ manifest' = manifest \/ manifest = NoManifest
  BY DEF PersistOf, Critical
<1>4. pc'[p] = "done" /\ \A q \in Procs \ {p} : pc'[q] = pc[q] /\ result'[q] = result[q]
  BY <1>1 DEF Shape
<1>5. Beyond(p)
  BY <1>3, <1>4 DEF Beyond, Critical
<1>6. next[p] # NoManifest
  BY <1>3, NoManifestIs DEF Known
<1>7. Quiet'
  <2>1. \A q \in Procs \ {p} : pc[q] \notin Critical
    BY <1>3 DEF Typed, At
  <2> QED
    BY <1>2, <1>4, <2>1 DEF Quiet, Critical
<1>8. Rests'
  <2>1. CASE settled' = settled
    BY <1>5, <2>1, RestsOn
  <2>2. CASE /\ Command[p] = "init" /\ p \notin disturbed /\ manifest' = next[p]
             /\ settled' = [by |-> Version[p], answer |-> answer[p]]
    <3> DEFINE s == [by |-> Version[p], answer |-> answer[p]]
    <3>1. s.by = Version[p] /\ s.answer = answer[p] /\ settled' = s
      BY <2>2
    <3> HIDE DEF s
    <3>2. FirmFor(s, content, next[p], Harnesses)
      BY <1>3, <1>6, <2>2, <3>1, EndIsFirm
    <3>3. FirmFor(s, content', manifest', Harnesses')
      BY <1>2, <1>3, <2>2, <3>2
    <3> QED
      BY <1>7, <3>1, <3>3 DEF Rests, Firm
  <2> QED
    BY <2>1, <2>2 DEF Settle
<1>9. Based(p)'
  <2> SUFFICES ASSUME (p \notin disturbed /\ pc[p] # "idle" /\ base[p] # None)'
               PROVE  (/\ Firm(base[p])
                       /\ Command[p] = "init" /\ base[p].by = Version[p] =>
                            /\ pc[p] = "loaded" => supplied[p] = manifest
                            /\ pc[p] \notin Critical
                            /\ pc[p] = "done" => result[p] = "ok" /\ answer[p] = base[p].answer)'
    BY DEF Based
  <2>1. /\ Firm(base[p])
        /\ Command[p] = "init" /\ base[p].by = Version[p] => pc[p] \notin Critical
    BY <1>3 DEF AllSettled, Based, Critical
  <2> DEFINE b == base[p]
  <2>2. FirmFor(b, content', manifest', Harnesses') /\ Quiet'
    <3>1. Firm(b)
      BY <2>1
    <3> HIDE DEF b
    <3> QED
      BY <1>5, <3>1, FirmCarries
  <2>3. Firm(base[p])'
    BY <1>3, <2>2 DEF Firm
  <2> QED
    BY <1>2, <1>3, <2>1, <2>3
<1>10. OnItsWay(p)'
  BY <1>4 DEF OnItsWay, Critical
<1> QED
  BY <1>5, <1>8, <1>9, <1>10, SettledStep

\* Settled and publishing the manifest.
LEMMA SettledPersist ==
  ASSUME Typed, AllSettled, NEW p \in Procs, CheckManifest(p) \/ LinkManifest(p), UNCHANGED setting
  PROVE  AllSettled'
<1>1. PersistOf(p) /\ pc[p] \in {"publish", "manifest"}
  BY Persisting
<1>2. CASE /\ pc' = [pc EXCEPT ![p] = "done"] /\ lock' = Free /\ result' = [result EXCEPT ![p] = "ok"]
           /\ manifest' = next[p] /\ Settle(p, "ok", answer[p])
  BY <1>1, <1>2, SettledEnds
<1>3. CASE pc[p] = "publish" /\ manifest = NoManifest /\ pc' = [pc EXCEPT ![p] = "manifest"] /\ UNCHANGED <<lock, result, settled>>
  <2>1. UNCHANGED <<content, manifest, supplied, next, todo, answer, disturbed, settled, base>>
    BY <1>1, <1>3 DEF PersistOf
  <2> DEFINE to == "manifest"
  <2>2. /\ to \in {"link", "manifest", "done", "dead", "idle"} /\ pc' = [pc EXCEPT ![p] = to]
        /\ result' = result /\ pc[p] = "publish" /\ to # "done" /\ to # "dead"
    BY <1>3
  <2> HIDE DEF to
  <2> QED
    BY <2>1, <2>2, SettledBeaten
<1>4. CASE /\ pc' = [pc EXCEPT ![p] = "done"] /\ lock' = Free
           /\ \E how \in {"indeterminate", "error"} : result' = [result EXCEPT ![p] = how]
           /\ UNCHANGED settled
  BY <1>1, <1>4, SettledEnds
<1> QED
  BY <1>1, <1>2, <1>3, <1>4, Zenon DEF PersistOf

\* An edit unsettles everything.
LEMMA SettledEdit ==
  ASSUME AllSettled, Edited, UNCHANGED setting
  PROVE  AllSettled'
<1>1. disturbed' = {p \in Procs : pc[p] # "idle"} /\ pc' = pc /\ settled' = None /\ base' = base
  BY DEF Edited
<1>2. Procs' = Procs
  BY SettingStays
<1>3. \A p \in Procs : Based(p)' /\ OnItsWay(p)'
  BY <1>1 DEF Based, OnItsWay, Critical
<1> QED
  BY <1>1, <1>2, <1>3 DEF AllSettled, Rests

\* Every step keeps what has settled.
LEMMA SettledStays ==
  ASSUME Typed, Agreed, AllSettled, [Next]_vars
  PROVE  AllSettled'
<1>1. CASE UNCHANGED vars
  <2>1. /\ UNCHANGED <<content, manifest, pc, supplied, next, todo, answer, result, disturbed, settled, base, setting>>
    BY <1>1 DEF vars
  <2>2. Procs' = Procs /\ Command' = Command /\ Version' = Version /\ Harnesses' = Harnesses
    BY <2>1, SettingStays
  <2>3. Quiet' <=> Quiet
    BY <2>1, <2>2 DEF Quiet, Critical
  <2>4. Rests'
    BY <2>1, <2>2, <2>3 DEF AllSettled, Rests, Firm
  <2>5. \A p \in Procs : Based(p)' /\ OnItsWay(p)'
    BY <2>1, <2>2, <2>3 DEF AllSettled, Based, OnItsWay, Firm, Critical
  <2> QED
    BY <2>1, <2>2, <2>4, <2>5 DEF AllSettled
<1>2. CASE Next
  <2>1. UNCHANGED setting
    BY <1>2 DEF Next
  <2>2. CASE \E p \in Procs : Step(p) \/ Crash(p) \/ RunAgain(p)
    BY <2>1, <2>2, SettledLoad, SettledPrepare, SettledLink, SettledPersist, SettledRest DEF Step
  <2>3. CASE EditFile \/ EditManifest
    BY <2>1, <2>3, SettledEdit DEF EditFile, EditManifest
  <2> QED
    BY <1>2, <2>2, <2>3 DEF Next
<1> QED
  BY <1>1, <1>2

\* At the start nothing has settled and nobody is at work.
LEMMA SettledStarts ==
  ASSUME Init
  PROVE  AllSettled
BY DEF Init, AllSettled, Rests, Based, OnItsWay, Critical

\* Settled inits repeat what the first one said.
LEMMA SettledMeans ==
  ASSUME AllSettled
  PROVE  InitSettles
BY DEF AllSettled, Based, InitSettles

----
(* The commands at their scale. *)

Publishing == Typed /\ AllHonest /\ Agreed /\ AllSettled

\* Every step at either scale keeps it.
LEMMA PublishingStays ==
  ASSUME Publishing, [ScaleNext]_scaleVars
  PROVE  Publishing'
<1>1. [Next]_vars
  BY DEF ScaleNext, scaleVars
<1> QED
  BY <1>1, TypedStays, HonestStays, AgreedStays, SettledStays DEF Publishing

\* The inductive invariant of the commands.
LEMMA PublishingAlways == ScaleSpec => []Publishing
<1>1. ScaleInit => Publishing
  BY ShapeStarts, AgreementStarts, SettledStarts DEF ScaleInit, Publishing
<1> QED
  BY <1>1, PublishingStays, PTL DEF ScaleSpec

\* What it says of types and of what the manifest claims.
LEMMA PublishingMeans ==
  ASSUME Publishing
  PROVE  TypeOK /\ OwnershipHonest
<1>1. TypeOK
  <2>1. Shape /\ \A p \in Procs : At(p)
    BY DEF Publishing, Typed
  <2>2. \A p \in Procs : pc[p] \in {"loaded", "publish", "link", "manifest"} => supplied[p] # NoManifest
    BY <2>1, NoManifestIs DEF At, Known, Critical
  <2> QED
    BY <2>1, <2>2 DEF TypeOK, Shape, Known
<1>2. OwnershipHonest
  <2>1. manifest # NoManifest => Honest(manifest, published)
    BY DEF Publishing, AllHonest
  <2> QED
    BY <2>1 DEF OwnershipHonest, Honest, Claimed
<1> QED
  BY <1>1, <1>2

(* Nothing that is there is replaced or removed by Tree Ring, and its      *)
(* manifest claims only files that it put there in just that form, for its *)
(* own store: whatever several commands do at the same time, wherever they *)
(* die, and whatever users edit, delete or restore (prepare_apply,         *)
(* apply_bridge_plans_create_only, publish_creation, persist_manifest).    *)
THEOREM UsersKeepTheirFilesHold == ScaleSpec => UsersKeepTheirFiles
<1>1. ScaleSpec => [](TypeOK /\ OwnershipHonest)
  BY PublishingAlways, PublishingMeans, PTL
<1> QED
  BY <1>1, NothingIsReplaced, Zenon DEF UsersKeepTheirFiles

(* A harness that a command reports as ready, undisturbed by edits, is in  *)
(* the manifest with the version of the command, and each file of its plan *)
(* is there the way the manifest records it: for every plan, every batch   *)
(* of them and every earlier failure (apply_bridge_plan,                   *)
(* apply_bridge_plans_create_only).                                        *)
THEOREM ReadyIsRecorded == ScaleSpec => []ReadyMeansRecorded
<1>1. Publishing => ReadyMeansRecorded
  BY AgreedMeans DEF Publishing
<1> QED
  BY <1>1, PublishingAlways, PTL

(* Of several first runs one creates the identity of the store, and every  *)
(* init that succeeds undisturbed knows the id that the manifest has.      *)
(* After an init that ended well, and until a user edits something, every  *)
(* init of the same version ends well and says the same, whatever other    *)
(* commands and failures come between: for every order of the harnesses,   *)
(* every plan of theirs and every first state of the files                 *)
(* (load_init_manifest_no_follow, reconcile_manifest, prepare_apply,       *)
(* apply_bridge_plans_create_only, persist_manifest).                      *)
THEOREM InitsDoAgree == ScaleSpec => []InitsAgree
<1>1. Publishing => InitsAgree
  BY AgreedMeans, SettledMeans DEF Publishing, InitsAgree
<1> QED
  BY <1>1, PublishingAlways, PTL
====
