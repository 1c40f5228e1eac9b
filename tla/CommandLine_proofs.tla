---- MODULE CommandLine_proofs ----
(***************************************************************************)
(* Proofs about the commands that CommandLine puts side by side, for any   *)
(* number of programs, builds, ids, releases and agents.                   *)
(***************************************************************************)
EXTENDS CommandLine, FiniteSetTheorems, SequenceTheorems, WellFoundedInduction, TLAPS

----
(***************************************************************************)
(* StoreConnections: programs of all versions over one file.               *)
(***************************************************************************)

\* The triggers are there from the protocol on, and tombstones only then.
FileInv ==
  /\ file \in [version : Nat, fence : Nat, tombs : SUBSET Ids,
               rows : [Ids -> {NoRow, "plain", "bare", "scrubbed", "broken"}]]
  /\ file.fence = IF file.version >= 3 THEN file.version ELSE 0
  /\ file.version < 3 => file.tombs = {}

\* Only a program that knows the protocol gets to migrate, and it does not have
\* the store open for writing before the file is of its version.
ConnInv ==
  /\ conn \in [Procs -> {"closed", "checked", "migrating", "open"}]
  /\ \A p \in Procs :
       /\ conn[p] \in {"checked", "migrating"} => Build[p] >= 3 /\ p \notin ReadOnly
       /\ conn[p] = "open" /\ Build[p] >= 3 /\ p \notin ReadOnly => file.version >= Build[p]

ConnectionInv == FileInv /\ ConnInv /\ MigratedIsSound /\ ReadersSeeNormalized /\ TypeOK

(* A new or old file has no triggers and no tombstones, and nobody has it   *)
(* open.                                                                   *)
LEMMA ConnectionsStart == ConnectionInit => ConnectionInv
BY FilesAssumption
   DEF ConnectionInit, ConnectionInv, FileInv, ConnInv, MigratedIsSound, ReadersSeeNormalized, TypeOK

(* migrate takes a file that is older than its program to its version, with *)
(* private rows made plain and a tombstone for each redacted one.          *)
LEMMA MigratedSound ==
  ASSUME FileInv, MigratedIsSound, TypeOK, NEW b \in Nat, b >= 3, file.version < b,
         NEW f, f = Migrated(file, b)
  PROVE  /\ f \in [version : Nat, fence : Nat, tombs : SUBSET Ids,
                   rows : [Ids -> {NoRow, "plain", "bare", "scrubbed", "broken"}]]
         /\ f.version = b /\ f.fence = b
         /\ f.tombs \subseteq {i \in Ids : f.rows[i] # NoRow}
         /\ \A i \in Ids : f.rows[i] # "bare" /\ (f.rows[i] = "scrubbed" <=> i \in f.tombs)
BY FilesAssumption DEF FileInv, MigratedIsSound, TypeOK, Migrated

(* Each step of a program over the file keeps it sound, and never takes it  *)
(* to an earlier version.                                                  *)
LEMMA FileStep ==
  ASSUME ConnectionInv, FileNext
  PROVE  ConnectionInv' /\ file'.version >= file.version
<1> USE DEF ConnectionInv
<1>1. ASSUME NEW p \in Procs, Open(p) \/ Configure(p) \/ Close(p)
      PROVE  ConnectionInv' /\ file'.version >= file.version
  BY <1>1, FilesAssumption
    DEF FileInv, ConnInv, MigratedIsSound, ReadersSeeNormalized, TypeOK, Open, Configure, Close, Now
<1>2. ASSUME NEW p \in Procs, Read(p)
      PROVE  ConnectionInv' /\ file'.version >= file.version
  BY <1>2 DEF FileInv, ConnInv, MigratedIsSound, ReadersSeeNormalized, TypeOK, Read, Seen
<1>3. ASSUME NEW p \in Procs, Migrate(p)
      PROVE  ConnectionInv' /\ file'.version >= file.version
  <2>1. CASE /\ file' = file
             /\ (Now(p, "open") /\ file.version = Build[p]) \/ Now(p, "closed")
    <3>1. PICK c \in {"open", "closed"} :
            conn' = [conn EXCEPT ![p] = c] /\ (c = "open" => file.version = Build[p])
      BY <2>1 DEF Now
    <3>2. file.version \in Nat /\ file'.version = file.version
      BY <2>1 DEF FileInv
    <3>3. ConnInv'
      BY <3>1, <3>2 DEF ConnInv
    <3>4. FileInv' /\ MigratedIsSound' /\ ReadersSeeNormalized'
      BY <1>3, <2>1 DEF FileInv, MigratedIsSound, ReadersSeeNormalized, Migrate
    <3>5. TypeOK'
      BY <2>1, <3>1 DEF TypeOK, ConnInv
    <3> QED
      BY <3>2, <3>3, <3>4, <3>5
  <2>2. CASE file' = Migrated(file, Build[p]) /\ Now(p, "open") /\ file.version < Build[p]
    <3>1. Build[p] \in Nat /\ Build[p] >= 3
      BY <1>3, FilesAssumption DEF ConnInv, Migrate
    <3>2. /\ FileInv' /\ file'.version = Build[p]
          /\ file'.tombs \subseteq {i \in Ids : file'.rows[i] # NoRow}
          /\ \A i \in Ids : file'.rows[i] # "bare" /\ (file'.rows[i] = "scrubbed" <=> i \in file'.tombs)
      BY <2>2, <3>1, MigratedSound DEF FileInv
    <3>3. ConnInv'
      <4>1. file'.version \in Nat /\ file.version \in Nat /\ file'.version >= file.version
        BY <2>2, <3>1, <3>2 DEF FileInv
      <4>2. conn' = [conn EXCEPT ![p] = "open"]
        BY <2>2 DEF Now
      <4>3. \A o \in Procs : Build[o] \in Nat
        BY FilesAssumption
      <4>4. \A o \in Procs : file.version >= Build[o] => file'.version >= Build[o]
        BY <4>1, <4>3
      <4> QED
        BY <3>1, <3>2, <4>2, <4>4 DEF ConnInv
    <3>4. MigratedIsSound' /\ ReadersSeeNormalized' /\ TypeOK'
      BY <1>3, <2>2, <3>2, <3>3
        DEF FileInv, ConnInv, MigratedIsSound, ReadersSeeNormalized, TypeOK, Migrate
    <3> QED
      BY <2>2, <3>2, <3>3, <3>4 DEF FileInv
  <2> QED
    BY <1>3, <2>1, <2>2, FilesAssumption DEF FileInv, Migrate
<1>4. ASSUME NEW p \in Procs, NEW i \in Ids, Put(p, i)
      PROVE  ConnectionInv' /\ file'.version >= file.version
  BY <1>4, FilesAssumption
    DEF FileInv, ConnInv, MigratedIsSound, ReadersSeeNormalized, TypeOK, Put, MayWrite, Protocol
<1>5. ASSUME NEW p \in Procs, NEW i \in Ids, Redact(p, i)
      PROVE  ConnectionInv' /\ file'.version >= file.version
  <2>1. Build[p] < 3 => file.version < 3 /\ file'.tombs = file.tombs
    BY <1>5, FilesAssumption DEF FileInv, Redact, MayWrite, Protocol
  <2>2. Build[p] >= 3 => file.version >= 3 /\ file'.tombs = file.tombs \cup {i}
    BY <1>5, FilesAssumption DEF FileInv, ConnInv, Redact, MayWrite
  <2>3. /\ file'.version = file.version /\ file'.fence = file.fence /\ file.rows[i] # NoRow
        /\ file'.rows = [file.rows EXCEPT ![i] = "scrubbed"] /\ UNCHANGED <<conn, opens, read>>
    BY <1>5 DEF FileInv, Redact
  <2>4. /\ file' \in [version : Nat, fence : Nat, tombs : SUBSET Ids,
                     rows : [Ids -> {NoRow, "plain", "bare", "scrubbed", "broken"}]]
    BY <1>5 DEF FileInv, Redact
  <2>5. Build[p] \in Nat
    BY FilesAssumption
  <2> QED
    BY <2>1, <2>2, <2>3, <2>4, <2>5, FilesAssumption
      DEF FileInv, ConnInv, MigratedIsSound, ReadersSeeNormalized, TypeOK
<1> QED
  BY <1>1, <1>2, <1>3, <1>4, <1>5 DEF FileNext

(* Programs of all versions over one file never take it back, never leave   *)
(* it unsound and never see it unsound.                                    *)
THEOREM VersionsDoCoexist == Spec => VersionsCoexist
<1>1. Init => ConnectionInv
  BY ConnectionsStart DEF Init
<1>2. ConnectionInv /\ [Next]_vars => ConnectionInv'
  <2> SUFFICES ASSUME ConnectionInv, [Next]_vars PROVE ConnectionInv'
    OBVIOUS
  <2>1. CASE FileNext
    BY <2>1, FileStep
  <2>2. CASE UNCHANGED <<file, conn, opens, read>>
    BY <2>2 DEF ConnectionInv, FileInv, ConnInv, MigratedIsSound, ReadersSeeNormalized, TypeOK
  <2> QED
    BY <2>1, <2>2 DEF Next, vars, ConnectionNext, connectionVars, fileVars
<1>3. ConnectionInv /\ [Next]_vars => [file'.version >= file.version]_connectionVars
  <2> SUFFICES ASSUME ConnectionInv, [Next]_vars, ~UNCHANGED connectionVars
               PROVE  file'.version >= file.version
    OBVIOUS
  <2>1. CASE FileNext
    BY <2>1, FileStep
  <2>2. CASE UNCHANGED fileVars
    BY <2>2 DEF ConnectionInv, FileInv, fileVars
  <2> QED
    BY <2>1, <2>2 DEF Next, vars, ConnectionNext, connectionVars, fileVars
<1>4. ConnectionInv => TypeOK /\ MigratedIsSound /\ ReadersSeeNormalized
  BY DEF ConnectionInv
<1> QED
  BY <1>1, <1>2, <1>3, <1>4, PTL DEF Spec, VersionsCoexist, VersionGrows

----
(***************************************************************************)
(* RecallDeadline: a recall, its watchdog and the connection.              *)
(***************************************************************************)

\* The watchdog lives as long as the recall does, and nothing but the recall's
\* statements runs meanwhile.
WatchdogInv ==
  /\ DeadlineContained
  /\ running \in {"none", "recall", "other"}
  /\ phase = "idle" => running # "recall"
  /\ phase # "idle" => running # "other"
  /\ running = "recall" => phase = "query"

(* Whatever the order of the deadline, the interrupt, the cancel message    *)
(* and the end of a statement, only the recall's own statement is struck.  *)
LEMMA WatchdogStep ==
  ASSUME WatchdogInv, RecallNext
  PROVE  WatchdogInv' /\ (phase' = "idle" /\ phase # "idle" /\ outcome' = "rows" => ~late /\ dog # "fired")
<1> USE DEF WatchdogInv, DeadlineContained
<1>1. CASE Start \/ Query
  BY <1>1 DEF Start, Query
<1>2. CASE Found \/ Struck
  BY <1>2 DEF Found, Struck
<1>3. CASE Tick \/ Stop \/ Cancel
  BY <1>3 DEF Tick, Stop, Cancel
<1>4. CASE Join \/ Other
  BY <1>4 DEF Join, Other
<1>5. CASE Fire
  <2>1. struck' => running # "none"
    BY <1>5, Zenon DEF Fire
  <2>2. dog = "waiting" /\ dog' = "fired" /\ UNCHANGED <<phase, running, busy>>
    BY <1>5 DEF Fire
  <2> QED
    BY <2>1, <2>2
<1> QED
  BY <1>1, <1>2, <1>3, <1>4, <1>5 DEF RecallNext

(* The deadline of a recall strikes no other statement of its connection,   *)
(* which has its busy timeout back when the recall is over; and no answer   *)
(* is handed out late.                                                     *)
THEOREM DeadlinesContained == Spec => []DeadlineContained /\ AnswersInTime
<1>1. Init => WatchdogInv
  BY DEF Init, ConnectionInit, RecallInit, WatchdogInv, DeadlineContained
<1>2. WatchdogInv /\ [Next]_vars => WatchdogInv'
  <2> SUFFICES ASSUME WatchdogInv, [Next]_vars PROVE WatchdogInv'
    OBVIOUS
  <2>1. CASE UNCHANGED recallVars
    BY <2>1 DEF WatchdogInv, DeadlineContained, recallVars
  <2> QED
    BY <2>1, WatchdogStep DEF Next, vars, ConnectionNext, connectionVars
<1>3. WatchdogInv /\ [Next]_vars =>
        [phase' = "idle" /\ phase # "idle" /\ outcome' = "rows" => ~late /\ dog # "fired"]_recallVars
  <2> SUFFICES ASSUME WatchdogInv, [Next]_vars, ~UNCHANGED recallVars
               PROVE  phase' = "idle" /\ phase # "idle" /\ outcome' = "rows" => ~late /\ dog # "fired"
    OBVIOUS
  <2> QED
    BY WatchdogStep DEF Next, vars, ConnectionNext, connectionVars
<1>4. WatchdogInv => DeadlineContained
  BY DEF WatchdogInv
<1> QED
  BY <1>1, <1>2, <1>3, <1>4, PTL DEF Spec, AnswersInTime

----
(***************************************************************************)
(* SelfUpdate: releases and the updates of one installation.               *)
(***************************************************************************)

UpdateTypes ==
  /\ latest \in Versions
  /\ archive \in [Versions -> [gen : Nat, inside : Versions]]
  /\ sum \in [Versions -> Nat]
  /\ uploaded \in Nat
  /\ formula \in Nat \ {0} /\ binary \in Nat \ {0}
  /\ own \in [Updaters -> Nat]
  /\ target \in [Updaters -> Nat]
  /\ got \in [Updaters -> [gen : Nat, inside : Nat]]
  /\ at \in [Updaters -> {"idle", "fetch", "brew", "download", "verify", "staged", "installed", "ended"}]
  /\ result \in [Updaters -> {"none", "unchanged", "error", "updated"}]
  /\ installed \in [own : Nat, target : Nat, version : Nat]

\* An update goes on only to a newer release and by the way it was installed; a
\* staged program is the release it is after.
ProgressInv ==
  \A u \in Updaters :
    /\ at[u] # "idle" => own[u] # 0
    /\ at[u] \in {"brew", "download", "verify", "staged", "installed"} =>
         own[u] < target[u] /\ target[u] \in Versions
    /\ at[u] \in {"download", "verify", "staged"} => method # "homebrew"
    /\ at[u] \in {"brew", "installed"} => method = "homebrew"
    /\ at[u] = "staged" => got[u].inside = target[u]
    /\ at[u] # "ended" => result[u] # "updated"

UpdateInv == UpdateTypes /\ ProgressInv /\ InstalledAsReleased /\ UpdatedMeansInstalled

(* The releases change nothing that updates hold on to.                     *)
LEMMA ReleaseStep ==
  ASSUME UpdateInv,
         \/ Release \/ UpdateFormula
         \/ \E v \in Versions : UploadSum(v) \/ \E inside \in Versions : Upload(v, inside)
  PROVE  UpdateInv'
<1>1. UNCHANGED <<method, binary, own, target, got, at, result, installed>>
  BY DEF Release, UpdateFormula, UploadSum, Upload, local
<1>2. UpdateTypes'
  <2> USE DEF UpdateInv, UpdateTypes
  <2>1. CASE Release \/ UpdateFormula
    BY <1>1, <2>1, ReleasesAssumption DEF Release, UpdateFormula
  <2>2. CASE \E v \in Versions : UploadSum(v)
    BY <1>1, <2>2 DEF UploadSum
  <2>3. ASSUME NEW v \in Versions, NEW inside \in Versions, Upload(v, inside)
        PROVE  UpdateTypes'
    <3>1. [gen |-> uploaded + 1, inside |-> inside] \in [gen : Nat, inside : Versions]
      OBVIOUS
    <3> QED
      BY <1>1, <2>3, <3>1 DEF Upload
  <2> QED
    BY <2>1, <2>2, <2>3
<1> QED
  BY <1>1, <1>2 DEF UpdateInv, ProgressInv, InstalledAsReleased, UpdatedMeansInstalled

(* Each step of an update keeps to the release it is after.                 *)
LEMMA UpdaterStep ==
  ASSUME UpdateInv, NEW u \in Updaters,
         \/ StartUpdate(u) \/ \E check \in BOOLEAN : Fetch(u, check)
         \/ Download(u) \/ Verify(u) \/ Rename(u) \/ Brew(u) \/ CheckBrew(u) \/ DieUpdating(u)
  PROVE  UpdateInv'
<1> USE ReleasesAssumption DEF UpdateInv, To, Ends, world, local
<1>1. CASE StartUpdate(u)
  <2>1. UpdateTypes'
    BY <1>1 DEF UpdateTypes, StartUpdate
  <2>2. ProgressInv'
    BY <1>1 DEF UpdateTypes, ProgressInv, StartUpdate
  <2>3. InstalledAsReleased' /\ UpdatedMeansInstalled'
    BY <1>1 DEF UpdateTypes, ProgressInv, InstalledAsReleased, UpdatedMeansInstalled, StartUpdate
  <2> QED
    BY <2>1, <2>2, <2>3
<1>2. CASE \E check \in BOOLEAN : Fetch(u, check)
  <2>1. UpdateTypes'
    BY <1>2 DEF UpdateTypes, Fetch
  <2>2. ProgressInv'
    BY <1>2 DEF UpdateTypes, ProgressInv, Fetch
  <2>3. InstalledAsReleased' /\ UpdatedMeansInstalled'
    BY <1>2 DEF UpdateTypes, ProgressInv, InstalledAsReleased, UpdatedMeansInstalled, Fetch
  <2> QED
    BY <2>1, <2>2, <2>3
<1>3. CASE Download(u)
  <2>1. UpdateTypes'
    <3>1. archive[target[u]] \in [gen : Nat, inside : Nat]
      BY <1>3 DEF UpdateTypes, ProgressInv, Download
    <3> QED
      BY <1>3, <3>1 DEF UpdateTypes, Download
  <2>2. ProgressInv'
    BY <1>3 DEF UpdateTypes, ProgressInv, Download
  <2>3. InstalledAsReleased' /\ UpdatedMeansInstalled'
    BY <1>3 DEF UpdateTypes, ProgressInv, InstalledAsReleased, UpdatedMeansInstalled, Download
  <2> QED
    BY <2>1, <2>2, <2>3
<1>4. CASE Verify(u)
  <2>1. UpdateTypes'
    BY <1>4 DEF UpdateTypes, Verify
  <2>2. ProgressInv'
    BY <1>4 DEF UpdateTypes, ProgressInv, Verify
  <2>3. InstalledAsReleased' /\ UpdatedMeansInstalled'
    BY <1>4 DEF UpdateTypes, ProgressInv, InstalledAsReleased, UpdatedMeansInstalled, Verify
  <2> QED
    BY <2>1, <2>2, <2>3
<1>5. CASE Rename(u)
  <2>1. UpdateTypes'
    <3>1. got[u].inside \in Nat \ {0}
      BY <1>5 DEF UpdateTypes, ProgressInv, Rename
    <3>2. [own |-> own[u], target |-> target[u], version |-> got[u].inside] \in [own : Nat, target : Nat, version : Nat]
      BY <3>1 DEF UpdateTypes
    <3> QED
      BY <1>5, <3>1, <3>2 DEF UpdateTypes, Rename, Install
  <2>2. ProgressInv'
    BY <1>5 DEF UpdateTypes, ProgressInv, Rename, Install
  <2>3. InstalledAsReleased' /\ UpdatedMeansInstalled'
    BY <1>5 DEF UpdateTypes, ProgressInv, InstalledAsReleased, UpdatedMeansInstalled, Rename, Install
  <2> QED
    BY <2>1, <2>2, <2>3
<1>6. CASE Brew(u)
  <2>1. UpdateTypes'
    <3>1. [own |-> own[u], target |-> target[u], version |-> formula] \in [own : Nat, target : Nat, version : Nat]
      BY DEF UpdateTypes
    <3> QED
      BY <1>6, <3>1 DEF UpdateTypes, Brew, Install
  <2>2. ProgressInv'
    BY <1>6 DEF UpdateTypes, ProgressInv, Brew, Install
  <2>3. InstalledAsReleased' /\ UpdatedMeansInstalled'
    BY <1>6 DEF UpdateTypes, ProgressInv, InstalledAsReleased, UpdatedMeansInstalled, Brew, Install
  <2> QED
    BY <2>1, <2>2, <2>3
<1>7. CASE CheckBrew(u)
  <2>1. UpdateTypes'
    BY <1>7 DEF UpdateTypes, CheckBrew
  <2>2. ProgressInv'
    BY <1>7 DEF UpdateTypes, ProgressInv, CheckBrew
  <2>3. InstalledAsReleased' /\ UpdatedMeansInstalled'
    BY <1>7 DEF UpdateTypes, ProgressInv, InstalledAsReleased, UpdatedMeansInstalled, CheckBrew
  <2> QED
    BY <2>1, <2>2, <2>3
<1>8. CASE DieUpdating(u)
  <2>1. UpdateTypes'
    BY <1>8 DEF UpdateTypes, DieUpdating
  <2>2. ProgressInv'
    BY <1>8 DEF UpdateTypes, ProgressInv, DieUpdating
  <2>3. InstalledAsReleased' /\ UpdatedMeansInstalled'
    BY <1>8 DEF UpdateTypes, ProgressInv, InstalledAsReleased, UpdatedMeansInstalled, DieUpdating
  <2> QED
    BY <2>1, <2>2, <2>3
<1> QED
  BY <1>1, <1>2, <1>3, <1>4, <1>5, <1>6, <1>7, <1>8

(* Whatever is uploaded and whoever else updates, what is installed was     *)
(* released as one, and what an update says of it is true.                 *)
THEOREM UpdatesAreHonest == Spec => []UpdatesHonest
<1>1. Init => UpdateInv
  BY ReleasesAssumption
    DEF Init, UpdateInit, UpdateInv, UpdateTypes, ProgressInv, InstalledAsReleased, UpdatedMeansInstalled
<1>2. UpdateInv /\ [Next]_vars => UpdateInv'
  <2> SUFFICES ASSUME UpdateInv, [Next]_vars PROVE UpdateInv'
    OBVIOUS
  <2>1. CASE UNCHANGED updateVars
    BY <2>1 DEF UpdateInv, UpdateTypes, ProgressInv, InstalledAsReleased, UpdatedMeansInstalled,
                updateVars, world, local
  <2>2. CASE UpdateNext
    BY <2>2, ReleaseStep, UpdaterStep DEF UpdateNext
  <2> QED
    BY <2>1, <2>2 DEF Next, vars
<1>3. UpdateInv => UpdatesHonest
  BY DEF UpdateInv, UpdatesHonest
<1> QED
  BY <1>1, <1>2, <1>3, PTL DEF Spec

----
(***************************************************************************)
(* SessionHooks: the sessions of a harness and the checkpoints they answer. *)
(***************************************************************************)

\* An identity that some agent had in one of its sessions.
Issued(x) ==
  \E b \in Agents, n \in Nat :
    /\ x.session = <<b, n>>
    /\ x.profile = IF Parent[b] = NoAgent THEN <<"harness">> ELSE <<"harness", b, n>>

\* A capture is of the session that its checkpoint asked, for the project as the
\* hooks look for it.
CapturedFor(m, c) ==
  /\ m.op[1] = c /\ m.op[2] \in 1 .. 3 /\ m.op = <<c, m.op[2]>> /\ m.who = issued[c]
  /\ m.project = Alias(Project) /\ m.scope = "agent" /\ m.sensitivity = Normal /\ m.live = TRUE

HookTypes ==
  /\ life \in [Agents -> Nat]
  /\ turn \in [Agents -> {"off", "working", "blocked", "idle"}]
  /\ checkpoint \in [Agents -> Nat]
  /\ DOMAIN context = Agents
  /\ DOMAIN issued = 1 .. Len(issued) /\ Len(issued) \in Nat
  /\ IsFiniteSet(memories)

\* An operation is bound to one memory.
CaptureInv ==
  /\ \A c \in DOMAIN issued : Issued(issued[c])
  /\ \A a \in Agents : turn[a] = "blocked" => checkpoint[a] \in DOMAIN issued
  /\ \A m \in memories : m.op # NoAgent => \E c \in DOMAIN issued : CapturedFor(m, c)
  /\ \A m, n \in memories : m.op # NoAgent /\ m.op = n.op => m = n

HooksInv == HookTypes /\ CaptureInv /\ ContextPrivate

LEMMA IdentityIssued ==
  ASSUME HookTypes, NEW a \in Agents
  PROVE  Issued(Identity(a))
<1>1. life[a] \in Nat
  BY DEF HookTypes
<1>2. /\ Identity(a).session = <<a, life[a]>>
      /\ Identity(a).profile = IF Parent[a] = NoAgent THEN <<"harness">> ELSE <<"harness", a, life[a]>>
  BY DEF Identity
<1> QED
  BY <1>1, <1>2 DEF Issued

(* Sessions begin with the captures of nobody in this run.                 *)
LEMMA HooksStart == HooksInit => HooksInv
<1> SUFFICES ASSUME HooksInit PROVE HooksInv
  OBVIOUS
<1>1. IsFiniteSet(memories) /\ \A m \in memories : m.op = NoAgent
  BY HooksAssumption, FS_Subset DEF HooksInit
<1>2. HookTypes
  BY <1>1 DEF HooksInit, HookTypes
<1>3. CaptureInv /\ ContextPrivate
  BY <1>1 DEF HooksInit, CaptureInv, ContextPrivate
<1> QED
  BY <1>2, <1>3 DEF HooksInv

(* A session that starts is given what its profile captured: a harness what *)
(* sessions of the harness did, a subagent, whose profile is its own, what  *)
(* it did itself.                                                          *)
LEMMA StartHookStep ==
  ASSUME HooksInv, NEW a \in Agents, StartHook(a)
  PROVE  HooksInv'
<1>1. /\ life' = [life EXCEPT ![a] = @ + 1] /\ turn' = [turn EXCEPT ![a] = "working"]
      /\ UNCHANGED <<active, checkpoint, tries, memories, issued>>
  BY DEF StartHook
<1>2. PICK given \in Briefs(Identity(a)') : context' = [context EXCEPT ![a] = given]
  BY DEF StartHook
<1>3. HookTypes'
  BY <1>1, <1>2 DEF HooksInv, HookTypes
<1>4. CaptureInv'
  BY <1>1 DEF HooksInv, HookTypes, CaptureInv, CapturedFor
<1>5. \A m \in given : m \in memories /\ Visible(m, Identity(a)')
  BY DEF Briefs
<1>6. ASSUME NEW m \in given, m.op # NoAgent
      PROVE  IF Parent[a] = NoAgent THEN Parent[m.who.session[1]] = NoAgent
             ELSE m.who.session = Identity(a)'.session
  <2>1. PICK c \in DOMAIN issued : CapturedFor(m, c)
    BY <1>5, <1>6 DEF HooksInv, CaptureInv
  <2>2. m.who.profile = Identity(a)'.profile
    BY <1>5, <2>1 DEF CapturedFor, Visible, Shared
  <2>3. PICK b \in Agents, n \in Nat :
          /\ m.who.session = <<b, n>>
          /\ m.who.profile = IF Parent[b] = NoAgent THEN <<"harness">> ELSE <<"harness", b, n>>
    BY <2>1 DEF HooksInv, CaptureInv, CapturedFor, Issued
  <2>4. /\ Identity(a)'.session = <<a, life'[a]>>
        /\ Identity(a)'.profile = IF Parent[a] = NoAgent THEN <<"harness">> ELSE <<"harness", a, life'[a]>>
    BY DEF Identity
  <2>5. CASE Parent[a] = NoAgent
    <3>1. <<"harness">> # <<"harness", b, n>>
      BY Len(<<"harness">>) = 1, Len(<<"harness", b, n>>) = 3
    <3>2. Parent[b] = NoAgent
      BY <2>2, <2>3, <2>4, <2>5, <3>1
    <3> QED
      BY <2>3, <2>5, <3>2
  <2>6. CASE Parent[a] # NoAgent
    <3>1. <<"harness">> # <<"harness", a, life'[a]>>
      BY Len(<<"harness">>) = 1, Len(<<"harness", a, life'[a]>>) = 3
    <3>2. <<"harness", b, n>> = <<"harness", a, life'[a]>>
      BY <2>2, <2>3, <2>4, <2>6, <3>1
    <3>3. b = a /\ n = life'[a]
      BY <3>2
    <3> QED
      BY <2>3, <2>4, <2>6, <3>3
  <2> QED
    BY <2>5, <2>6
<1>7. ContextPrivate'
  <2> SUFFICES ASSUME NEW b \in Agents, NEW m \in context'[b], m.op # NoAgent
               PROVE  IF Parent[b] = NoAgent THEN Parent[m.who.session[1]] = NoAgent
                      ELSE m.who.session = Identity(b)'.session
    BY DEF ContextPrivate
  <2>1. CASE b = a
    BY <1>2, <1>6, <2>1 DEF HooksInv, HookTypes
  <2>2. CASE b # a
    <3>1. context'[b] = context[b] /\ life'[b] = life[b]
      BY <1>1, <1>2, <2>2 DEF HooksInv, HookTypes
    <3>2. Identity(b)'.session = <<b, life'[b]>> /\ Identity(b).session = <<b, life[b]>>
      BY DEF Identity
    <3> QED
      BY <3>1, <3>2 DEF HooksInv, ContextPrivate
  <2> QED
    BY <2>1, <2>2
<1> QED
  BY <1>3, <1>4, <1>7 DEF HooksInv

(* ContextPrivate is about sessions and briefs alone.                      *)
LEMMA ContextStays ==
  ASSUME ContextPrivate, UNCHANGED <<life, context>>
  PROVE  ContextPrivate'
BY DEF ContextPrivate, Identity

(* A stop hook that asks does so under a number of its own.                *)
LEMMA StopHookStep ==
  ASSUME HooksInv, NEW a \in Agents, StopHook(a)
  PROVE  HooksInv'
<1>1. UNCHANGED <<life, tries, context, memories>>
  BY DEF StopHook
<1>2. ContextPrivate'
  BY <1>1, ContextStays DEF HooksInv
<1>3. CASE turn' = [turn EXCEPT ![a] = "idle"] /\ UNCHANGED <<checkpoint, issued>>
  BY <1>1, <1>2, <1>3 DEF HooksInv, HookTypes, CaptureInv, CapturedFor
<1>4. CASE /\ turn' = [turn EXCEPT ![a] = "blocked"]
           /\ issued' = Append(issued, Identity(a))
           /\ checkpoint' = [checkpoint EXCEPT ![a] = Len(issued) + 1]
  <2> DEFINE number == Len(issued) + 1
  <2>1. DOMAIN issued = 1 .. Len(issued) /\ Len(issued) \in Nat
    BY DEF HooksInv, HookTypes
  <2>2. /\ DOMAIN issued' = 1 .. number /\ Len(issued') = number /\ issued'[number] = Identity(a)
        /\ \A c \in DOMAIN issued : issued'[c] = issued[c]
    BY <1>4, <2>1
  <2>3. HookTypes'
    BY <1>1, <1>4, <2>1, <2>2 DEF HooksInv, HookTypes
  <2>4. Issued(Identity(a))
    BY IdentityIssued DEF HooksInv
  <2>5. \A c \in DOMAIN issued' : Issued(issued'[c])
    BY <2>1, <2>2, <2>4 DEF HooksInv, CaptureInv
  <2>6. \A b \in Agents : turn'[b] = "blocked" => checkpoint'[b] \in DOMAIN issued'
    BY <1>4, <2>1, <2>2 DEF HooksInv, HookTypes, CaptureInv
  <2>7. \A m \in memories : m.op # NoAgent => \E c \in DOMAIN issued' : CapturedFor(m, c)'
    BY <2>1, <2>2 DEF HooksInv, CaptureInv, CapturedFor
  <2> QED
    BY <1>1, <1>2, <2>3, <2>5, <2>6, <2>7 DEF HooksInv, CaptureInv, Issued
<1> QED
  BY <1>3, <1>4, Zenon DEF StopHook

(* A capture that is run again, with whatever content, finds its slot bound. *)
LEMMA CaptureStep ==
  ASSUME HooksInv, NEW a \in Agents, NEW slot, NEW text, NEW pair, Capture(a, slot, text, pair)
  PROVE  HooksInv'
<1> DEFINE c == checkpoint[a]
           m == Captured(c, slot, text, pair, issued[c])
<1>1. turn[a] = "blocked" /\ UNCHANGED <<turn, life, active, checkpoint, context, issued>>
  BY DEF Capture
<1>2. \/ UNCHANGED memories
      \/ /\ memories' = memories \cup {m} /\ slot \in 1 .. 3
         /\ {old \in memories : old.who = m.who /\ old.op = m.op} = {}
  BY DEF Capture
<1>3. c \in DOMAIN issued
  BY <1>1 DEF HooksInv, CaptureInv
<1>4. /\ m.op = <<c, slot>> /\ m.who = issued[c]
      /\ m.project = Alias(Project) /\ m.scope = "agent" /\ m.sensitivity = Normal /\ m.live = TRUE
  BY DEF Captured
<1> HIDE DEF m
<1>5. ContextPrivate'
  BY <1>1, ContextStays DEF HooksInv
<1>6. CASE UNCHANGED memories
  BY <1>1, <1>5, <1>6 DEF HooksInv, HookTypes, CaptureInv, CapturedFor
<1>7. CASE /\ memories' = memories \cup {m} /\ slot \in 1 .. 3
           /\ {old \in memories : old.who = m.who /\ old.op = m.op} = {}
  <2>1. CapturedFor(m, c)
    BY <1>4, <1>7 DEF CapturedFor
  <2>2. ASSUME NEW n \in memories, n.op # NoAgent
        PROVE  n.op # m.op
    <3>1. PICK d \in DOMAIN issued : CapturedFor(n, d)
      BY <2>2 DEF HooksInv, CaptureInv
    <3>2. n.op = m.op => d = c
      BY <1>4, <3>1 DEF CapturedFor
    <3> QED
      BY <1>4, <1>7, <3>1, <3>2 DEF CapturedFor
  <2>3. IsFiniteSet(memories')
    BY <1>7, FS_AddElement DEF HooksInv, HookTypes
  <2>4. HookTypes'
    BY <1>1, <2>3 DEF HooksInv, HookTypes
  <2>5. \A n \in memories' : n.op # NoAgent => \E d \in DOMAIN issued : CapturedFor(n, d)
    BY <1>3, <1>7, <2>1 DEF HooksInv, CaptureInv
  <2>6. \A n, o \in memories' : n.op # NoAgent /\ n.op = o.op => n = o
    BY <1>7, <2>2 DEF HooksInv, CaptureInv
  <2>7. CaptureInv'
    BY <1>1, <2>5, <2>6 DEF HooksInv, CaptureInv, CapturedFor
  <2> QED
    BY <1>5, <2>4, <2>7 DEF HooksInv
<1> QED
  BY <1>2, <1>6, <1>7

(* Resuming, a further turn and the end of a session block nobody.         *)
LEMMA TurnStep ==
  ASSUME HooksInv, NEW a \in Agents, Resume(a) \/ Prompt(a) \/ End(a)
  PROVE  HooksInv'
<1>1. UNCHANGED <<life, checkpoint, context, memories, issued>>
  BY DEF Resume, Prompt, End
<1>2. /\ turn' \in [Agents -> {"off", "working", "blocked", "idle"}]
      /\ \A b \in Agents : turn'[b] = "blocked" => turn[b] = "blocked"
  BY DEF Resume, Prompt, End, HooksInv, HookTypes
<1>3. ContextPrivate'
  BY <1>1, ContextStays DEF HooksInv
<1> QED
  BY <1>1, <1>2, <1>3 DEF HooksInv, HookTypes, CaptureInv, CapturedFor

LEMMA HooksStep ==
  ASSUME HooksInv, HooksNext
  PROVE  HooksInv'
<1> PICK a \in Agents :
      \/ StartHook(a) \/ Resume(a) \/ Prompt(a) \/ End(a)
      \/ StopHook(a)
      \/ \E slot \in Slots, text \in Texts, pair \in {<<"lesson", "scar">>, <<"seed", "seed">>, <<"decision", "heartwood">>} :
           Capture(a, slot, text, pair)
  BY DEF HooksNext
<1> QED
  BY StartHookStep, StopHookStep, CaptureStep, TurnStep

(* As an operation is bound to one memory and has one of three slots, a     *)
(* checkpoint has three memories at most.                                  *)
LEMMA CapturesBounded == HooksInv => CaptureBound
<1> SUFFICES ASSUME HooksInv, NEW c \in DOMAIN issued
             PROVE  /\ Cardinality(Caught(c)) = Cardinality({m.op : m \in Caught(c)})
                    /\ \A m \in Caught(c) : m.who = issued[c] /\ m.op[2] \in 1 .. 3
  BY DEF CaptureBound
<1> DEFINE S == Caught(c)
           T == {m.op : m \in S}
           f == [m \in S |-> m.op]
<1>1. IsFiniteSet(S)
  BY FS_Subset DEF HooksInv, HookTypes, Caught
<1>2. \A m \in S : m \in memories /\ m.op # NoAgent /\ m.op[1] = c
  BY DEF Caught
<1>3. ExistsBijection(S, T)
  <2>1. f \in Bijection(S, T)
    BY <1>2 DEF HooksInv, CaptureInv, Bijection, Injection, Surjection, IsInjective
  <2> QED
    BY <2>1 DEF ExistsBijection
<1>4. Cardinality(S) = Cardinality(T)
  BY <1>1, <1>3, FS_Bijection
<1>5. \A m \in S : m.who = issued[c] /\ m.op[2] \in 1 .. 3
  BY <1>2 DEF HooksInv, CaptureInv, CapturedFor
<1> QED
  BY <1>4, <1>5

(* A brief with room for the store has every capture that its agent may see. *)
LEMMA CapturesReturn ==
  ASSUME HooksInv, NEW a \in Agents, StartHook(a), Cardinality(memories) <= Limit
  PROVE  {m \in memories : m.op # NoAgent /\ m.who.profile = Identity(a)'.profile} \subseteq context'[a]
<1> DEFINE visible == {m \in memories : Visible(m, Identity(a)')}
<1>1. PICK given \in Briefs(Identity(a)') : context' = [context EXCEPT ![a] = given]
  BY DEF StartHook
<1>2. given \in SUBSET visible
      /\ Cardinality(given) = IF Cardinality(visible) < Limit THEN Cardinality(visible) ELSE Limit
  BY DEF Briefs
<1>3. IsFiniteSet(memories) /\ visible \in SUBSET memories
  BY DEF HooksInv, HookTypes
<1>4. IsFiniteSet(visible) /\ Cardinality(visible) <= Cardinality(memories)
  BY <1>3, FS_Subset
<1>5. Cardinality(visible) \in Nat /\ Cardinality(memories) \in Nat
  BY <1>3, <1>4, FS_CardinalityType
<1> HIDE DEF visible
<1>6. Cardinality(given) = Cardinality(visible)
  BY <1>2, <1>4, <1>5, HooksAssumption
<1>7. given = visible
  BY <1>2, <1>4, <1>6, FS_Subset
<1>8. context'[a] = given
  BY <1>1 DEF HooksInv, HookTypes
<1>9. \A m \in memories : m.op # NoAgent /\ m.who.profile = Identity(a)'.profile => Visible(m, Identity(a)')
  BY DEF HooksInv, CaptureInv, CapturedFor, Visible
<1> QED
  BY <1>7, <1>8, <1>9 DEF visible

(* However sessions, subagents, stops and lost commands interleave, a       *)
(* checkpoint is answered at most once a slot, and a brief has what its own *)
(* agents captured and nobody else: the safety of SessionsServed.          *)
THEOREM SessionsKept == Spec => [](CaptureBound /\ ContextPrivate) /\ CapturesComeBack
<1>1. Init => HooksInv
  BY HooksStart DEF Init
<1>2. HooksInv /\ [Next]_vars => HooksInv'
  <2> SUFFICES ASSUME HooksInv, [Next]_vars PROVE HooksInv'
    OBVIOUS
  <2>1. CASE UNCHANGED hookVars
    BY <2>1, ContextStays DEF HooksInv, HookTypes, CaptureInv, CapturedFor, hookVars
  <2> QED
    BY <2>1, HooksStep DEF Next, vars
<1>3. HooksInv /\ [Next]_vars =>
        [\A a \in Agents : life'[a] # life[a] /\ Cardinality(memories) <= Limit =>
           {m \in memories : m.op # NoAgent /\ m.who.profile = Identity(a)'.profile} \subseteq context'[a]]_hookVars
  <2> SUFFICES ASSUME HooksInv, [Next]_vars, ~UNCHANGED hookVars,
                      NEW a \in Agents, life'[a] # life[a], Cardinality(memories) <= Limit
               PROVE  {m \in memories : m.op # NoAgent /\ m.who.profile = Identity(a)'.profile} \subseteq context'[a]
    OBVIOUS
  <2>1. HooksNext
    BY DEF Next, vars
  <2>2. StartHook(a)
    <3> PICK b \in Agents :
          \/ StartHook(b) \/ Resume(b) \/ Prompt(b) \/ End(b)
          \/ StopHook(b)
          \/ \E slot \in Slots, text \in Texts,
               pair \in {<<"lesson", "scar">>, <<"seed", "seed">>, <<"decision", "heartwood">>} :
               Capture(b, slot, text, pair)
      BY <2>1 DEF HooksNext
    <3>1. StartHook(b)
      BY DEF Resume, Prompt, End, StopHook, Capture
    <3> QED
      BY <3>1 DEF StartHook, HooksInv, HookTypes
  <2> QED
    BY <2>2, CapturesReturn
<1>4. HooksInv => CaptureBound /\ ContextPrivate
  BY CapturesBounded DEF HooksInv
<1> QED
  BY <1>1, <1>2, <1>3, <1>4, PTL DEF Spec, CapturesComeBack

----
(***************************************************************************)
(* ProjectSetup: what init plans and reports, beside edits, harnesses and  *)
(* other commands.                                                         *)
(***************************************************************************)

Places == {"idle", "root", "guide", "write", "store", "load", "bridges", "report", "done", "failed", "dead"}

SetupTypes ==
  /\ pc \in [Inits -> Places]
  /\ scanned \in [Inits -> SUBSET Harnesses]
  /\ DOMAIN expected = Inits /\ DOMAIN reviewed = Inits /\ DOMAIN report = Inits /\ DOMAIN why = Inits
  /\ alone \subseteq Inits
  /\ store \in Nat
  /\ manifest # None => \A h \in DOMAIN manifest.harness : manifest.harness[h] # None

\* How far an init has come says what there is.
ProgressMade ==
  \A p \in Inits :
    /\ pc[p] \in {"guide", "write", "store", "load", "bridges", "report", "done"} => root
    /\ pc[p] \in {"load", "bridges", "report", "done"} => store = 3

\* Of an init that nothing overlapped: nobody else publishes a manifest, so that
\* it finds what it loaded, and what it did not set aside for review is recorded.
AloneInv ==
  \A p \in alone :
    /\ Running \subseteq {p}
    /\ pc[p] = "bridges" => expected[p] = manifest
    /\ pc[p] = "report" => \A h \in scanned[p] \ reviewed[p] : Recorded(h) # None
    /\ pc[p] = "done" =>
         \A h \in DOMAIN report[p] : report[p][h] \in Ready => Eligible(h, Recorded(h), env)

WhyInv ==
  \A p \in Inits :
    /\ why[p] # "manifest" /\ (p \in alone => why[p] # "identity")
    /\ pc[p] = "idle" => why[p] = "none"

\* A receipt is of a harness whose record let a hook or a preflight start.
ProvedInv ==
  \A h \in proved : h # "agent-zero" => Recorded(h) # None /\ Recorded(h).state \in Ready

SetupInv == SetupTypes /\ ProgressMade /\ AloneInv /\ WhyInv /\ ProvedInv

LEMMA SetupStarts == SetupInit => SetupInv
BY SetupsAssumption
   DEF SetupInit, SetupInv, SetupTypes, Places, ProgressMade, AloneInv, WhyInv, ProvedInv

\* What the steps of one init on guidance and store have in common: they leave
\* the manifest, what was scanned and reported, and the environment alone.
ProceedsTo(p, place) ==
  /\ UNCHANGED <<manifest, env, proved, scanned, expected, reviewed, report, alone>>
  /\ pc' = [pc EXCEPT ![p] = place]
  /\ \/ why' = why
     \/ place = "failed" /\ \E reason \in {"io", "token", "store"} : why' = [why EXCEPT ![p] = reason]
  /\ root => root'
  /\ store' \in Nat /\ (store' = store \/ store' = 3)

LEMMA Proceeding ==
  ASSUME SetupInv, NEW p \in Inits, pc[p] \in {"root", "guide", "write", "store"},
         NEW place \in {"guide", "write", "store", "load", "failed"}, ProceedsTo(p, place),
         place # "failed" => root', place = "load" => store' = 3
  PROVE  SetupInv'
<1>1. p \in Running /\ Running' \subseteq Running
  BY DEF SetupInv, SetupTypes, Running, ProceedsTo
<1>2. SetupTypes'
  BY DEF SetupInv, SetupTypes, Places, ProceedsTo
<1>3. ProgressMade'
  BY DEF SetupInv, SetupTypes, ProgressMade, ProceedsTo
<1>4. AloneInv'
  <2> SUFFICES ASSUME NEW q \in alone PROVE AloneInv!(q)'
    BY DEF AloneInv, ProceedsTo
  <2>1. q = p /\ Running' \subseteq {q}
    BY <1>1 DEF SetupInv, AloneInv
  <2>2. pc'[q] \notin {"bridges", "report", "done"}
    BY <2>1 DEF SetupInv, SetupTypes, ProceedsTo
  <2> QED
    BY <2>1, <2>2
<1>5. WhyInv'
  BY DEF SetupInv, SetupTypes, WhyInv, ProceedsTo
<1>6. ProvedInv'
  BY DEF SetupInv, ProvedInv, ProceedsTo, Recorded
<1> QED
  BY <1>2, <1>3, <1>4, <1>5, <1>6 DEF SetupInv

LEMMA GuidanceStep ==
  ASSUME SetupInv, NEW p \in Inits,
         MakeRoot(p) \/ Inspect(p) \/ WriteDoc(p) \/ TearDoc(p) \/ \E blank \in BOOLEAN : OpenStore(p, blank)
  PROVE  SetupInv'
<1>1. pc[p] \in {"root", "guide", "write", "store"} /\ store \in Nat
  BY DEF MakeRoot, Inspect, WriteDoc, TearDoc, OpenStore, SetupInv, SetupTypes
<1>2. pc[p] # "root" => root
  BY <1>1 DEF SetupInv, ProgressMade
<1>3. CASE MakeRoot(p)
  BY <1>1, <1>3, Proceeding DEF MakeRoot, ProceedsTo, Goto, Aside
<1>4. CASE Inspect(p)
  <2>1. PICK place \in {"guide", "write", "store", "failed"} :
          /\ pc' = [pc EXCEPT ![p] = place]
          /\ \/ why' = why
             \/ place = "failed" /\ why' = [why EXCEPT ![p] = "io"]
    BY <1>4 DEF Inspect, Goto, Fail
  <2>2. pc[p] = "guide" /\ UNCHANGED <<disk, env, proved, scanned, expected, reviewed, report, alone>>
    BY <1>4 DEF Inspect, Aside
  <2>3. ProceedsTo(p, place)
    BY <1>1, <2>1, <2>2 DEF ProceedsTo, disk
  <2> QED
    BY <1>1, <1>2, <2>2, <2>3, Proceeding DEF disk
<1>5. CASE WriteDoc(p)
  <2>1. PICK place \in {"guide", "store"} : pc' = [pc EXCEPT ![p] = place]
    BY <1>5 DEF WriteDoc, Goto
  <2>2. /\ pc[p] = "write"
        /\ UNCHANGED <<root, store, manifest, env, proved, scanned, expected, reviewed, report, why, alone>>
    BY <1>5 DEF WriteDoc, Aside
  <2>3. ProceedsTo(p, place)
    BY <1>1, <2>1, <2>2 DEF ProceedsTo
  <2> QED
    BY <1>1, <1>2, <2>2, <2>3, Proceeding
<1>6. CASE TearDoc(p)
  <2>1. /\ pc' = [pc EXCEPT ![p] = "failed"] /\ why' = [why EXCEPT ![p] = "io"]
        /\ UNCHANGED <<root, store, manifest, env, proved, scanned, expected, reviewed, report, alone>>
    BY <1>6 DEF TearDoc, Aside, Fail, Goto
  <2>2. ProceedsTo(p, "failed")
    BY <1>1, <2>1 DEF ProceedsTo
  <2> QED
    BY <1>1, <2>1, <2>2, Proceeding
<1>7. ASSUME NEW blank \in BOOLEAN, OpenStore(p, blank)
      PROVE  SetupInv'
  <2>1. PICK place \in {"load", "failed"} :
          /\ pc' = [pc EXCEPT ![p] = place]
          /\ \/ why' = why
             \/ place = "failed" /\ \E reason \in {"token", "store"} : why' = [why EXCEPT ![p] = reason]
          /\ store' = store \/ store' = 3
          /\ place = "load" => store' = 3
    BY <1>7 DEF OpenStore, Goto, Fail
  <2>2. /\ pc[p] = "store"
        /\ UNCHANGED <<root, manifest, env, proved, scanned, expected, reviewed, report, alone>>
    BY <1>7 DEF OpenStore, Aside
  <2>3. ProceedsTo(p, place)
    BY <1>1, <2>1, <2>2 DEF ProceedsTo
  <2> QED
    BY <1>1, <1>2, <2>1, <2>2, <2>3, Proceeding
<1> QED
  BY <1>3, <1>4, <1>5, <1>6, <1>7

(* An init that begins while none runs is alone; the one it begins beside   *)
(* is so no longer.                                                        *)
LEMMA BeginInitStep ==
  ASSUME SetupInv, NEW p \in Inits, Begin(p)
  PROVE  SetupInv'
<1>1. /\ pc[p] = "idle" /\ pc' = [pc EXCEPT ![p] = "root"]
      /\ scanned' = [scanned EXCEPT ![p] = Candidates(env)]
      /\ alone' = IF Running = {} THEN {p} ELSE {}
      /\ UNCHANGED <<disk, env, proved, expected, reviewed, report, why>>
  BY DEF Begin, Goto, Aside
<1>2. Candidates(env) \subseteq Harnesses
  BY DEF Candidates, Harnesses
<1>3. SetupTypes'
  BY <1>1, <1>2 DEF SetupInv, SetupTypes, Places, disk
<1>4. ProgressMade'
  BY <1>1 DEF SetupInv, SetupTypes, ProgressMade, disk
<1>5. AloneInv'
  BY <1>1 DEF SetupInv, SetupTypes, AloneInv, Running
<1>6. WhyInv'
  BY <1>1 DEF SetupInv, SetupTypes, WhyInv
<1>7. ProvedInv'
  BY <1>1 DEF SetupInv, ProvedInv, Recorded, disk
<1> QED
  BY <1>3, <1>4, <1>5, <1>6, <1>7 DEF SetupInv

LEMMA LoadManifestStep ==
  ASSUME SetupInv, NEW p \in Inits, LoadManifest(p)
  PROVE  SetupInv'
<1>1. /\ pc[p] = "load" /\ pc' = [pc EXCEPT ![p] = "bridges"]
      /\ expected' = [expected EXCEPT ![p] = manifest]
      /\ UNCHANGED <<disk, env, proved, scanned, reviewed, report, why, alone>>
  BY DEF LoadManifest, Goto, Aside
<1>2. SetupTypes' /\ ProgressMade'
  BY <1>1 DEF SetupInv, SetupTypes, Places, ProgressMade, disk
<1>3. AloneInv'
  BY <1>1 DEF SetupInv, SetupTypes, AloneInv, Running, disk, Recorded
<1>4. WhyInv' /\ ProvedInv'
  BY <1>1 DEF SetupInv, SetupTypes, WhyInv, ProvedInv, Recorded, disk
<1> QED
  BY <1>2, <1>3, <1>4 DEF SetupInv

(* validate_manifest allows what the adapters plan: the two lists are kept  *)
(* apart in the source.                                                    *)
LEMMA PlansAllowed ==
  ASSUME NEW free \in SUBSET Harnesses, NEW m, m = [h \in free |-> Planned(h)]
  PROVE  ValidManifest(m)
<1> SUFFICES ASSUME NEW h \in free
             PROVE  /\ \A path \in m[h].files : AllowedFile(h, path)
                    /\ \A path \in m[h].blocks : AllowedBlock(h, path)
                    /\ m[h].files \cap m[h].blocks = {}
  BY DEF ValidManifest
<1>1. m[h].files = PlanFiles(h) /\ m[h].blocks = PlanBlocks(h)
  BY DEF Planned
<1>2. h \in Harnesses
  OBVIOUS
<1> QED
  BY <1>1, <1>2 DEF PlanFiles, PlanBlocks, AllowedFile, AllowedBlock, Harnesses

LEMMA PlansAreRecords ==
  ASSUME NEW p \in Inits, NEW free \in SUBSET Harnesses, NEW m, m = [h \in free |-> Planned(h)]
  PROVE  /\ [by |-> p, harness |-> m] # None
         /\ \A h \in free : m[h] # None
<1> DEFINE plan == [h \in Harnesses |-> [state |-> PlanState(h, None), files |-> PlanFiles(h), blocks |-> PlanBlocks(h)]]
<1>1. /\ \A h \in Harnesses : plan[h] # None
      /\ \A q \in Inits, f \in SUBSET Harnesses : [by |-> q, harness |-> [h \in f |-> plan[h]]] # None
  BY SetupsAssumption
<1>2. \A h \in Harnesses : PlanState(h, env) = PlanState(h, None)
  BY DEF PlanState, DetectedState, Harnesses
<1>3. \A h \in free : plan[h] = Planned(h)
  BY <1>2 DEF Planned
<1>4. m = [h \in free |-> plan[h]]
  BY <1>3
<1> HIDE DEF plan
<1> QED
  BY <1>1, <1>3, <1>4

(* Bridges are published with the first manifest only; later inits set      *)
(* aside what it does not record.                                          *)
LEMMA BridgesStep ==
  ASSUME SetupInv, NEW p \in Inits, Bridges(p)
  PROVE  SetupInv'
<1> DEFINE free == {h \in scanned[p] : PlanPaths(h) \cap taken = {}}
           m == [h \in free |-> Planned(h)]
           first == [by |-> p, harness |-> m]
<1>1. /\ pc[p] = "bridges"
      /\ UNCHANGED <<root, store, env, proved, scanned, expected, report, alone>>
  BY DEF Bridges, Aside
<1>2. scanned[p] \subseteq Harnesses /\ free \in SUBSET Harnesses /\ free \subseteq scanned[p]
  BY DEF SetupInv, SetupTypes
<1>3. ValidManifest(first.harness)
  BY <1>2, PlansAllowed
<1>4. first # None /\ \A h \in free : m[h] # None
  BY <1>2, PlansAreRecords
<1>5. \/ /\ pc' = [pc EXCEPT ![p] = "failed"] /\ UNCHANGED <<manifest, reviewed>>
         /\ \/ manifest # None /\ expected[p] = None /\ why' = [why EXCEPT ![p] = "identity"]
            \/ why' = [why EXCEPT ![p] = "settings"]
      \/ /\ pc' = [pc EXCEPT ![p] = "report"] /\ UNCHANGED <<manifest, why>>
         /\ manifest # None /\ reviewed' = [reviewed EXCEPT ![p] = scanned[p] \ DOMAIN manifest.harness]
      \/ /\ pc' = [pc EXCEPT ![p] = "report"] /\ UNCHANGED why
         /\ manifest = None /\ manifest' = first /\ reviewed' = [reviewed EXCEPT ![p] = scanned[p] \ free]
  BY <1>3 DEF Bridges, Fail, Goto
<1>6. p \in Running /\ Running' \subseteq Running
  BY <1>1, <1>5 DEF SetupInv, SetupTypes, Running
<1>7. \A q \in alone : q = p
  BY <1>6 DEF SetupInv, AloneInv
<1>8. ProgressMade'
  BY <1>1, <1>5 DEF SetupInv, SetupTypes, ProgressMade
<1>9. WhyInv'
  <2>1. manifest # None /\ expected[p] = None => p \notin alone
    BY <1>1 DEF SetupInv, AloneInv
  <2> QED
    BY <1>1, <1>5, <2>1 DEF SetupInv, SetupTypes, WhyInv
<1>10. first.harness = m /\ DOMAIN m = free
  OBVIOUS
<1> HIDE DEF first, m
<1>11. SetupTypes'
  BY <1>1, <1>4, <1>5, <1>10 DEF SetupInv, SetupTypes, Places
<1>12. \A h \in Harnesses : Recorded(h) # None => Recorded(h)' = Recorded(h)
  BY <1>5 DEF Recorded
<1>13. ProvedInv'
  <2>1. \A h \in proved : h # "agent-zero" /\ Recorded(h) # None => Recorded(h)' = Recorded(h)
    BY <1>5 DEF Recorded
  <2> QED
    BY <1>1, <2>1 DEF SetupInv, ProvedInv
<1>14. ASSUME pc'[p] = "report", NEW h \in scanned[p] \ reviewed'[p]
       PROVE  Recorded(h)' # None
  BY <1>4, <1>5, <1>10, <1>14 DEF SetupInv, SetupTypes, Recorded
<1>15. pc'[p] \in {"failed", "report"}
  BY <1>5 DEF SetupInv, SetupTypes
<1>16. AloneInv'
  BY <1>1, <1>6, <1>7, <1>14, <1>15 DEF SetupInv, AloneInv
<1> QED
  BY <1>8, <1>9, <1>11, <1>13, <1>16 DEF SetupInv

(* A harness that is reported as ready has the record that its hook asks    *)
(* for: the table of states and the check of a preflight agree.            *)
LEMMA ReadyIsEligible ==
  ASSUME SetupInv, NEW h, Recorded(h) # None, StatusNow(h) \in Ready
  PROVE  Eligible(h, Recorded(h), env)
<1>1. CASE h = "agent-zero"
  BY <1>1 DEF StatusNow, Status, Ready, Active, Eligible, DetectedState
<1>2. CASE h # "agent-zero"
  BY <1>2 DEF SetupInv, ProvedInv, StatusNow, Status, Ready, Active, Eligible
<1> QED
  BY <1>1, <1>2

LEMMA ReportStep ==
  ASSUME SetupInv, NEW p \in Inits, Report(p)
  PROVE  SetupInv'
<1> DEFINE told == [h \in scanned[p] |-> IF h \in reviewed[p] THEN "needs_user_review" ELSE StatusNow(h)]
<1>1. /\ pc[p] = "report" /\ pc' = [pc EXCEPT ![p] = "done"] /\ report' = [report EXCEPT ![p] = told]
      /\ UNCHANGED <<disk, env, proved, scanned, expected, reviewed, why, alone>>
  BY DEF Report, Goto, Aside
<1>2. SetupTypes' /\ ProgressMade'
  BY <1>1 DEF SetupInv, SetupTypes, Places, ProgressMade, disk
<1>3. Running' \subseteq Running /\ p \in Running
  BY <1>1 DEF SetupInv, SetupTypes, Running
<1>4. \A h : Recorded(h)' = Recorded(h)
  BY <1>1 DEF Recorded, disk
<1>5. ASSUME p \in alone, NEW h \in DOMAIN told, told[h] \in Ready
      PROVE  Eligible(h, Recorded(h), env)
  <2>1. h \in scanned[p] \ reviewed[p] /\ told[h] = StatusNow(h)
    BY <1>5 DEF Ready, Active
  <2>2. Recorded(h) # None
    BY <1>1, <1>5, <2>1 DEF SetupInv, AloneInv
  <2> QED
    BY <1>5, <2>1, <2>2, ReadyIsEligible
<1> HIDE DEF told
<1>6. AloneInv'
  <2>1. \A q \in alone : q = p
    BY <1>3 DEF SetupInv, AloneInv
  <2>2. pc'[p] = "done" /\ report'[p] = told
    BY <1>1 DEF SetupInv, SetupTypes
  <2> QED
    BY <1>1, <1>3, <1>4, <1>5, <2>1, <2>2 DEF SetupInv, AloneInv
<1>7. WhyInv' /\ ProvedInv'
  BY <1>1, <1>4 DEF SetupInv, SetupTypes, WhyInv, ProvedInv
<1> QED
  BY <1>2, <1>6, <1>7 DEF SetupInv

LEMMA DieInitStep ==
  ASSUME SetupInv, NEW p \in Inits, Die(p)
  PROVE  SetupInv'
<1>1. /\ p \in Running /\ pc' = [pc EXCEPT ![p] = "dead"]
      /\ UNCHANGED <<disk, env, proved, scanned, expected, reviewed, report, why, alone>>
  BY DEF Die, Goto, Aside
<1>2. SetupTypes' /\ ProgressMade'
  BY <1>1 DEF SetupInv, SetupTypes, Places, ProgressMade, disk
<1>3. Running' \subseteq Running
  BY <1>1 DEF SetupInv, SetupTypes, Running
<1>4. AloneInv'
  BY <1>1, <1>3 DEF SetupInv, SetupTypes, AloneInv, Recorded, disk
<1>5. WhyInv' /\ ProvedInv'
  BY <1>1 DEF SetupInv, SetupTypes, WhyInv, ProvedInv, Recorded, disk
<1> QED
  BY <1>2, <1>4, <1>5 DEF SetupInv

(* Edits and a plugin that comes or goes end what is known of an init;      *)
(* a preflight proves what is eligible; other commands at most create or    *)
(* migrate the store.                                                      *)
LEMMA OthersStep ==
  ASSUME SetupInv,
         \/ \E d \in setup.editable : EditDoc(d)
         \/ \E plugin \in setup.plugins : ChangePlugin(plugin)
         \/ \E h \in Harnesses : Preflight(h)
         \/ \E c \in Reports \cup Writers, blank \in BOOLEAN : Run(c, blank)
  PROVE  SetupInv'
<1>8. ASSUME NEW d, EditDoc(d)
      PROVE  UNCHANGED <<process, manifest, root, store, proved>> /\ alone' = {}
  <2>1. PICK text : Edit(d, text)
    BY <1>8, Zenon DEF EditDoc
  <2> QED
    BY <2>1, Zenon DEF Edit, Aside
<1>9. ASSUME NEW plugin, ChangePlugin(plugin)
      PROVE  UNCHANGED <<process, manifest, root, store, proved>> /\ alone' = {}
  BY <1>9 DEF ChangePlugin, disk
<1>10. ASSUME NEW h, Preflight(h)
       PROVE  UNCHANGED <<process, manifest, root, store, alone, env>>
  BY <1>10 DEF Preflight, disk
<1>11. ASSUME NEW c, NEW blank, Run(c, blank)
       PROVE  /\ UNCHANGED <<process, manifest, alone, env, proved>>
              /\ UNCHANGED <<root, store>> \/ (root' = TRUE /\ store' = 3)
  <2>1. IF Opening(c) = "writable" /\ ~blank /\ store <= 3
        THEN root' = TRUE /\ store' = 3 ELSE UNCHANGED <<root, store>>
    BY <1>11, Zenon DEF Run
  <2>2. UNCHANGED <<process, manifest, alone, env, proved>>
    BY <1>11, Zenon DEF Run
  <2> QED
    BY <2>1, <2>2, Zenon
<1>1. UNCHANGED <<process, manifest>> /\ \A h : Recorded(h)' = Recorded(h)
  <2>1. process' = process /\ manifest' = manifest
    BY <1>8, <1>9, <1>10, <1>11, Zenon
  <2> QED
    BY <2>1 DEF Recorded
<1>2. alone' = {} \/ (alone' = alone /\ env' = env)
  BY <1>8, <1>9, <1>10, <1>11, Zenon
<1>3. (root => root') /\ store' \in Nat /\ (store' = store \/ store' = 3)
  <2>1. store \in Nat
    BY DEF SetupInv, SetupTypes
  <2>2. UNCHANGED <<root, store>> \/ (root' = TRUE /\ store' = 3)
    BY <1>8, <1>9, <1>10, <1>11, Zenon
  <2> QED
    BY <2>1, <2>2
<1>4. SetupTypes' /\ ProgressMade'
  BY <1>1, <1>2, <1>3 DEF SetupInv, SetupTypes, ProgressMade, process
<1>5. AloneInv'
  BY <1>1, <1>2 DEF SetupInv, AloneInv, process, Running
<1>6. WhyInv'
  BY <1>1, <1>2 DEF SetupInv, WhyInv, process
<1>7. ProvedInv'
  <2>1. CASE proved' = proved
    BY <1>1, <2>1 DEF SetupInv, ProvedInv
  <2>2. ASSUME NEW h \in Harnesses, Preflight(h)
        PROVE  ProvedInv'
    <3>1. Eligible(h, Recorded(h), env)
      BY <2>2 DEF Preflight, HookOutcome
    <3>2. h # "agent-zero" => Recorded(h) # None /\ Recorded(h).state \in Ready
      BY <3>1 DEF Eligible
    <3>3. proved' = proved \cup {h}
      BY <2>2 DEF Preflight
    <3> QED
      BY <1>1, <3>2, <3>3 DEF SetupInv, ProvedInv
  <2> QED
    BY <1>8, <1>9, <1>11, <2>1, <2>2, Zenon
<1> QED
  BY <1>4, <1>5, <1>6, <1>7 DEF SetupInv

LEMMA SetupStep ==
  ASSUME SetupInv, SetupNext
  PROVE  SetupInv'
BY GuidanceStep, BeginInitStep, LoadManifestStep, BridgesStep, ReportStep, DieInitStep, OthersStep DEF SetupNext

(* No manifest that init plans is refused, an init on its own meets no      *)
(* manifest but its own, a harness that it reports as configured can start, *)
(* and no status claims activity without a record and a receipt: what       *)
(* InitHonest says besides the texts of the guidance.                      *)
THEOREM InitsReportHonestly == Spec => [](InitDoesNotBlockItself /\ ReportedReadyStarts /\ StatusHonest)
<1>1. Init => SetupInv
  BY SetupStarts DEF Init
<1>2. SetupInv /\ [Next]_vars => SetupInv'
  <2> SUFFICES ASSUME SetupInv, [Next]_vars PROVE SetupInv'
    OBVIOUS
  <2>1. CASE UNCHANGED setupVars
    BY <2>1 DEF setupVars, disk, process, SetupInv, SetupTypes, ProgressMade, AloneInv, WhyInv, ProvedInv,
                Recorded, Running
  <2> QED
    BY <2>1, SetupStep DEF Next, vars
<1>3. SetupInv => InitDoesNotBlockItself
  BY DEF SetupInv, WhyInv, InitDoesNotBlockItself
<1>4. SetupInv => ReportedReadyStarts
  BY DEF SetupInv, SetupTypes, ProgressMade, AloneInv, ReportedReadyStarts, HookOutcome
<1>5. StatusHonest
  BY DEF StatusHonest, StatusNow, Status, Active, Eligible, DetectedState, Unsupported
<1> QED
  BY <1>1, <1>2, <1>3, <1>4, <1>5, PTL DEF Spec

(* No report and no dry run creates the root or a store, or migrates one.   *)
THEOREM ReportsAreReadOnly == Spec => ReportsChangeNothing
<1>1. [Next]_vars => [last' \in Reports => UNCHANGED disk]_setupVars
  <2> SUFFICES ASSUME [Next]_vars, ~UNCHANGED setupVars, last' \in Reports
               PROVE  UNCHANGED disk
    OBVIOUS
  <2>1. SetupNext
    BY DEF Next, vars
  <2>2. last' # None
    BY SetupsAssumption
  <2>3. ASSUME NEW p \in Inits
        PROVE  /\ ~Begin(p) /\ ~MakeRoot(p) /\ ~Inspect(p) /\ ~WriteDoc(p) /\ ~TearDoc(p)
               /\ \A blank \in BOOLEAN : ~OpenStore(p, blank)
               /\ ~LoadManifest(p) /\ ~Bridges(p) /\ ~Report(p) /\ ~Die(p)
    BY <2>2 DEF Begin, MakeRoot, Inspect, WriteDoc, TearDoc, OpenStore, LoadManifest, Bridges, Report, Die, Aside
  <2>4. ASSUME NEW d, EditDoc(d) PROVE FALSE
    <3>1. PICK text : Edit(d, text)
      BY <2>4, Zenon DEF EditDoc
    <3> QED
      BY <2>2, <3>1, Zenon DEF Edit, Aside
  <2>5. (\A plugin : ~ChangePlugin(plugin)) /\ (\A h : ~Preflight(h))
    BY <2>2 DEF ChangePlugin, Preflight
  <2>6. PICK c \in Reports \cup Writers, blank \in BOOLEAN : Run(c, blank)
    BY <2>1, <2>3, <2>4, <2>5, Zenon DEF SetupNext
  <2>7. c \in Reports
    BY <2>6 DEF Run
  <2>8. Opening(c) # "writable"
    BY <2>7 DEF Opening, Reports, Writers
  <2> QED
    BY <2>6, <2>8 DEF Run, disk
<1> QED
  BY <1>1, PTL DEF Spec, ReportsChangeNothing

----
(***************************************************************************)
(* Guidance: what a refresh makes of any text.  A refresh replaces a range *)
(* of the text by a section of the template, or leaves the text.           *)
(***************************************************************************)

\* A set of numbers that is not empty has a least one.
LEMMA SmallestExists ==
  ASSUME NEW T, T \subseteq Nat, T # {}
  PROVE  \E x \in T : \A y \in T : x <= y
<1> DEFINE R == OpToRel(<, Nat)
<1>1. PICK x \in T : \A y \in T : ~(<<y, x>> \in R)
  <2>1. IsWellFoundedOn(R, Nat)
    BY Zenon, NatLessThanWellFounded
  <2> HIDE DEF R
  <2> QED
    BY <2>1, WFMin
<1>2. \A y \in T : ~(y < x)
  BY Zenon, <1>1 DEF OpToRel
<1> QED
  BY <1>2

\* The first block of a name, where there is one.
LEMMA FindIs ==
  ASSUME NEW T, NEW text \in Seq(T), NEW name, NEW from \in Nat \ {0}
  PROVE  \/ Find(text, name, from) = 0 /\ \A k \in from .. Len(text) : text[k][1] # name
         \/ /\ Find(text, name, from) \in from .. Len(text) /\ text[Find(text, name, from)][1] = name
            /\ Find(text, name, from) # 0
            /\ \A k \in from .. Find(text, name, from) - 1 : text[k][1] # name
<1> DEFINE places == {k \in from .. Len(text) : text[k][1] = name}
           least == CHOOSE k \in places : \A j \in places : k <= j
<1>1. places \subseteq from .. Len(text) /\ places \subseteq Nat /\ \A k \in places : text[k][1] = name
  OBVIOUS
<1>2. \A k \in from .. Len(text) : text[k][1] = name => k \in places
  OBVIOUS
<1>3. Find(text, name, from) = IF places = {} THEN 0 ELSE least
  BY DEF Find
<1> HIDE DEF places
<1>4. CASE places = {}
  BY <1>2, <1>3, <1>4
<1>5. CASE places # {}
  <2>1. least \in places /\ \A j \in places : least <= j
    BY <1>1, <1>5, SmallestExists
  <2>2. Find(text, name, from) = least
    BY <1>3, <1>5
  <2> HIDE DEF least
  <2>3. least \in from .. Len(text) /\ text[least][1] = name /\ least # 0
    BY <1>1, <2>1
  <2>4. ASSUME NEW k \in from .. least - 1 PROVE text[k][1] # name
    <3>1. k \in from .. Len(text) /\ ~(least <= k)
      BY <2>3
    <3> QED
      BY <1>2, <2>1, <3>1
  <2> QED
    BY <2>2, <2>3, <2>4
<1> QED
  BY <1>4, <1>5

\* ... and where it is, if there is none before it.
LEMMA FindAt ==
  ASSUME NEW T, NEW text \in Seq(T), NEW name, NEW from \in Nat \ {0},
         NEW place \in from .. Len(text), text[place][1] = name, \A k \in from .. place - 1 : text[k][1] # name
  PROVE  Find(text, name, from) = place
<1> DEFINE found == Find(text, name, from)
<1> SUFFICES found = place
  OBVIOUS
<1>1. \/ found = 0 /\ \A k \in from .. Len(text) : text[k][1] # name
      \/ /\ found \in from .. Len(text) /\ text[found][1] = name
         /\ \A k \in from .. found - 1 : text[k][1] # name
  BY FindIs
<1> HIDE DEF found
<1>2. CASE found = 0 /\ \A k \in from .. Len(text) : text[k][1] # name
  BY <1>2
<1>3. CASE found \in from .. Len(text) /\ text[found][1] = name /\ \A k \in from .. found - 1 : text[k][1] # name
  <2>1. ~(found < place)
    BY <1>3
  <2>2. ~(place < found)
    <3> SUFFICES ASSUME place < found PROVE FALSE
      OBVIOUS
    <3>1. place \in from .. found - 1
      BY <1>3
    <3> QED
      BY <1>3, <3>1
  <2> QED
    BY <1>3, <2>1, <2>2
<1> QED
  BY <1>1, <1>2, <1>3

\* What is where in new, made of text by replacing a range by a section of n blocks.
Replaces(T, new, text, section, start, end, n) ==
  /\ new \in Seq(T) /\ Len(new) = start - 1 + n + (Len(text) + 1 - end)
  /\ \A k \in 1 .. start - 1 : new[k] = text[k]
  /\ \A k \in 1 .. n : new[start - 1 + k] = section[k]
  /\ \A k \in end .. Len(text) : new[k - end + start + n] = text[k]

\* Spliced does that.
LEMMA SplicedIs ==
  ASSUME NEW T, NEW text \in Seq(T), NEW section \in Seq(T),
         NEW start \in 1 .. Len(text) + 1, NEW end \in start .. Len(text) + 1,
         NEW new, new = Spliced(text, start, end, section), NEW n, n = Len(section)
  PROVE  Replaces(T, new, text, section, start, end, n)
<1> DEFINE before == SubSeq(text, 1, start - 1)
           after == SubSeq(text, end, Len(text))
           front == before \o section
<1>1. Len(text) \in Nat /\ n \in Nat /\ start \in Nat /\ end \in Nat /\ 1 <= start /\ start <= end /\ end <= Len(text) + 1
  OBVIOUS
<1>2. before \in Seq(T) /\ Len(before) = start - 1 /\ \A k \in 1 .. start - 1 : before[k] = text[k]
  <2>1. 1 \in Int /\ start - 1 \in Int /\ \A i \in 1 .. start - 1 : text[i] \in T
    BY <1>1
  <2>2. /\ before \in Seq(T) /\ Len(before) = IF 1 <= start - 1 THEN start - 1 - 1 + 1 ELSE 0
        /\ \A i \in 1 .. start - 1 - 1 + 1 : before[i] = text[1 + i - 1]
    BY <2>1, SubSeqProperties
  <2> HIDE DEF before
  <2>3. Len(before) = start - 1
    BY <1>1, <2>2
  <2>4. ASSUME NEW k \in 1 .. start - 1 PROVE before[k] = text[k]
    <3>1. k \in 1 .. start - 1 - 1 + 1 /\ 1 + k - 1 = k
      BY <1>1
    <3> QED
      BY <2>2, <3>1
  <2> QED
    BY <2>2, <2>3, <2>4
<1>3. after \in Seq(T) /\ Len(after) = Len(text) + 1 - end /\ \A k \in end .. Len(text) : after[k - end + 1] = text[k]
  <2>1. end \in Int /\ Len(text) \in Int /\ \A i \in end .. Len(text) : text[i] \in T
    BY <1>1
  <2>2. /\ after \in Seq(T) /\ Len(after) = IF end <= Len(text) THEN Len(text) - end + 1 ELSE 0
        /\ \A i \in 1 .. Len(text) - end + 1 : after[i] = text[end + i - 1]
    BY <2>1, SubSeqProperties
  <2> HIDE DEF after
  <2>3. Len(after) = Len(text) + 1 - end
    BY <1>1, <2>2
  <2>4. ASSUME NEW k \in end .. Len(text) PROVE after[k - end + 1] = text[k]
    <3>1. k - end + 1 \in 1 .. Len(text) - end + 1 /\ end + (k - end + 1) - 1 = k
      BY <1>1
    <3> QED
      BY <2>2, <3>1
  <2> QED
    BY <2>2, <2>3, <2>4
<1>4. new = front \o after
  BY DEF Spliced
<1> HIDE DEF before, after
<1>5. front \in Seq(T) /\ Len(front) = start - 1 + n
  BY <1>1, <1>2, ConcatProperties
<1>6. \A k \in 1 .. Len(front) : front[k] = IF k <= Len(before) THEN before[k] ELSE section[k - Len(before)]
  BY <1>2, ConcatProperties
<1> HIDE DEF front
<1>7. /\ new \in Seq(T) /\ Len(new) = Len(front) + Len(after)
      /\ \A k \in 1 .. Len(front) + Len(after) : new[k] = IF k <= Len(front) THEN front[k] ELSE after[k - Len(front)]
  <2>1. front \in Seq(T) /\ after \in Seq(T)
    BY <1>3, <1>5
  <2>2. /\ front \o after \in Seq(T) /\ Len(front \o after) = Len(front) + Len(after)
        /\ \A k \in 1 .. Len(front) + Len(after) :
             (front \o after)[k] = IF k <= Len(front) THEN front[k] ELSE after[k - Len(front)]
    BY <2>1, ConcatProperties
  <2> QED
    BY <1>4, <2>2
<1>8. ASSUME NEW k \in 1 .. start - 1 PROVE new[k] = text[k]
  <2>1. k \in 1 .. Len(front) + Len(after) /\ k <= Len(front) /\ k \in 1 .. Len(front) /\ k <= Len(before)
    BY <1>1, <1>2, <1>3, <1>5, SMTT(30)
  <2> QED
    BY <1>2, <1>6, <1>7, <2>1
<1>9. ASSUME NEW k \in 1 .. n PROVE new[start - 1 + k] = section[k]
  <2> DEFINE place == start - 1 + k
  <2>1. /\ place \in 1 .. Len(front) + Len(after) /\ place <= Len(front) /\ place \in 1 .. Len(front)
        /\ ~(place <= Len(before)) /\ place - Len(before) = k
    BY <1>1, <1>2, <1>3, <1>5
  <2> HIDE DEF place
  <2>2. new[place] = section[k]
    BY <1>6, <1>7, <2>1
  <2> QED
    BY <2>2 DEF place
<1>10. ASSUME NEW k \in end .. Len(text) PROVE new[k - end + start + n] = text[k]
  <2> DEFINE place == k - end + start + n
  <2>1. place \in 1 .. Len(front) + Len(after) /\ ~(place <= Len(front)) /\ place - Len(front) = k - end + 1
    BY <1>1, <1>3, <1>5
  <2> HIDE DEF place
  <2>2. new[place] = text[k]
    BY <1>3, <1>7, <2>1
  <2> QED
    BY <2>2 DEF place
<1>11. Len(new) = start - 1 + n + (Len(text) + 1 - end)
  BY <1>1, <1>3, <1>5, <1>7
<1> QED
  BY <1>7, <1>8, <1>9, <1>10, <1>11 DEF Replaces

\* Replacing what was inserted by the same changes nothing.
LEMMA SplicedAgain ==
  ASSUME NEW T, NEW text \in Seq(T), NEW section \in Seq(T),
         NEW start \in 1 .. Len(text) + 1, NEW end \in start .. Len(text) + 1,
         NEW new, new = Spliced(text, start, end, section), NEW n, n = Len(section)
  PROVE  Spliced(new, start, start + n, section) = new
<1> DEFINE end2 == start + n
           again == Spliced(new, start, end2, section)
<1>0. n = Len(section) /\ n \in Nat /\ start \in Nat /\ end2 = start + n /\ again = Spliced(new, start, end2, section)
  OBVIOUS
<1> HIDE DEF end2, again
<1>1. /\ new \in Seq(T) /\ Len(new) = start - 1 + n + (Len(text) + 1 - end) /\ n \in Nat /\ start \in Nat
      /\ \A k \in 1 .. n : new[start - 1 + k] = section[k]
  <2>1. Replaces(T, new, text, section, start, end, n)
    BY <1>0, SplicedIs
  <2> QED
    BY <1>0, <2>1 DEF Replaces
<1>2. start \in 1 .. Len(new) + 1 /\ end2 \in start .. Len(new) + 1 /\ Len(new) \in Nat
  BY <1>0, <1>1, SMTT(30)
<1>3. /\ again \in Seq(T) /\ Len(again) = start - 1 + n + (Len(new) + 1 - end2)
      /\ \A k \in 1 .. start - 1 : again[k] = new[k]
      /\ \A k \in 1 .. n : again[start - 1 + k] = section[k]
      /\ \A k \in end2 .. Len(new) : again[k - end2 + start + n] = new[k]
  <2>1. Replaces(T, again, new, section, start, end2, n)
    BY <1>0, <1>1, <1>2, SplicedIs
  <2> QED
    BY <2>1 DEF Replaces
<1>4. end2 = start + n
  BY <1>0
<1>5. Len(again) = Len(new)
  BY <1>1, <1>2, <1>3, <1>4
<1>6. ASSUME NEW k \in 1 .. Len(new) PROVE again[k] = new[k]
  <2>1. CASE k <= start - 1
    BY <1>1, <1>3, <2>1
  <2>2. CASE start <= k /\ k < end2
    <3> DEFINE j == k - (start - 1)
    <3>1. j \in 1 .. n /\ start - 1 + j = k
      BY <1>1, <1>4, <2>2
    <3> HIDE DEF j
    <3>2. new[start - 1 + j] = section[j]
      BY <1>1, <3>1, Zenon
    <3>3. again[start - 1 + j] = section[j]
      BY <1>3, <3>1, Zenon
    <3> QED
      BY <3>1, <3>2, <3>3, Zenon
  <2>3. CASE end2 <= k
    <3>1. k \in end2 .. Len(new) /\ k - end2 + start + n = k
      BY <1>1, <1>2, <1>4, <2>3
    <3>2. again[k - end2 + start + n] = new[k]
      BY <1>3, <3>1, Zenon
    <3> QED
      BY <3>1, <3>2, Zenon
  <2> QED
    BY <1>1, <1>2, <2>1, <2>2, <2>3, SMTT(30)
<1>7. again = new
  BY <1>1, <1>3, <1>5, <1>6, SeqEqual
<1> QED
  BY <1>7 DEF again, end2

\* A section starts at its heading, in the program's words, and ends before its anchor.
IsSection(section, heading, anchor) ==
  /\ Len(section) >= 1 /\ section[1] = <<heading, Current>>
  /\ \A k \in 1 .. Len(section) : section[k][1] # anchor

\* The range a refresh replaces: no heading stands before it, the anchor behind it.
IsRange(text, heading, anchor, start, end) ==
  /\ start \in 2 .. Len(text) /\ end \in start .. Len(text)
  /\ \A k \in 1 .. start - 1 : text[k][1] # heading
  /\ text[end][1] = anchor
  /\ start = end \/ (start = Find(text, heading, 1) /\ end = ManagedEnd(text, heading, anchor))

\* Every block outside the range is still there.
KeepsOutside(text, new, start, end) ==
  \A i \in DOMAIN text : i < start \/ end <= i => \E k \in DOMAIN new : new[k] = text[i]

\* In a generated text with the anchor a refresh replaces such a range, maybe an
\* empty one, and never the title.
LEMMA RangeIsThere ==
  ASSUME NEW T, NEW text \in Seq(T), NEW heading, NEW anchor, heading # "title", anchor # "title",
         Generated(text), Find(text, anchor, 1) # 0, NEW doc
  PROVE  \E start, end : /\ IsRange(text, heading, anchor, start, end)
                         /\ Backfilled(doc, text, heading, anchor) = Spliced(text, start, end, Section(doc, heading, anchor))
<1> DEFINE first == Find(text, heading, 1)
           before == Find(text, anchor, 1)
           end == ManagedEnd(text, heading, anchor)
           section == Section(doc, heading, anchor)
<1>1. text # <<>> /\ text[1][1] = "title" /\ Len(text) \in Nat /\ Len(text) >= 1
  BY DEF Generated
<1> DEFINE one == 1
<1>2. one \in Nat \ {0} /\ one = 1
  OBVIOUS
<1> HIDE DEF one
<1>3. \/ Find(text, heading, one) = 0 /\ \A k \in one .. Len(text) : text[k][1] # heading
      \/ /\ Find(text, heading, one) \in one .. Len(text) /\ text[Find(text, heading, one)][1] = heading
         /\ \A k \in one .. Find(text, heading, one) - 1 : text[k][1] # heading
  BY <1>2, FindIs
<1>4. \/ Find(text, anchor, one) = 0
      \/ /\ Find(text, anchor, one) \in one .. Len(text) /\ text[Find(text, anchor, one)][1] = anchor
         /\ \A k \in one .. Find(text, anchor, one) - 1 : text[k][1] # anchor
  BY <1>2, FindIs
<1>5. Backfilled(doc, text, heading, anchor) =
        IF end # 0 THEN Spliced(text, first, end, section)
        ELSE IF before # 0 THEN Spliced(text, before, before, section)
        ELSE text
  BY DEF Backfilled
<1>6. end = IF first = 0 THEN 0 ELSE Find(text, anchor, first)
  BY DEF ManagedEnd
<1>7. /\ first = 0 /\ \A k \in 1 .. Len(text) : text[k][1] # heading
      \/ /\ first \in 2 .. Len(text) /\ text[first][1] = heading
         /\ \A k \in 1 .. first - 1 : text[k][1] # heading
  <2>1. first = Find(text, heading, one)
    BY <1>2
  <2> HIDE DEF first
  <2> QED
    BY <1>1, <1>2, <1>3, <2>1
<1>8. before \in 2 .. Len(text) /\ text[before][1] = anchor
  <2>1. before = Find(text, anchor, one) /\ before # 0
    BY <1>2
  <2> HIDE DEF before
  <2> QED
    BY <1>1, <1>2, <1>4, <2>1
<1> HIDE DEF first, before, end, section
<1>9. CASE end # 0
  <2>1. first \in 2 .. Len(text) /\ end = Find(text, anchor, first) /\ \A k \in 1 .. first - 1 : text[k][1] # heading
    BY <1>6, <1>7, <1>9
  <2>2. first \in Nat \ {0}
    BY <2>1
  <2>3. end \in first .. Len(text) /\ text[end][1] = anchor
    BY <1>9, <2>1, <2>2, FindIs
  <2>4. IsRange(text, heading, anchor, first, end)
    BY <2>1, <2>3 DEF IsRange, first, end
  <2>5. Backfilled(doc, text, heading, anchor) = Spliced(text, first, end, section)
    BY <1>5, <1>9
  <2> QED
    BY <2>4, <2>5 DEF section
<1>10. CASE end = 0
  <2>1. \A k \in 1 .. before - 1 : text[k][1] # heading
    <3>1. CASE first = 0
      BY <1>7, <1>8, <3>1
    <3>2. CASE first # 0
      <4>1. /\ first \in 2 .. Len(text) /\ first \in Nat \ {0} /\ Find(text, anchor, first) = 0
            /\ \A k \in 1 .. first - 1 : text[k][1] # heading
        BY <1>6, <1>7, <1>10, <3>2
      <4>2. \A k \in first .. Len(text) : text[k][1] # anchor
        BY <4>1, FindIs
      <4>3. before < first
        BY <1>8, <4>1, <4>2
      <4> QED
        BY <1>8, <4>1, <4>3
    <3> QED
      BY <3>1, <3>2
  <2>2. before \in before .. Len(text)
    BY <1>8
  <2>3. IsRange(text, heading, anchor, before, before)
    BY <1>8, <2>1, <2>2 DEF IsRange
  <2>4. Backfilled(doc, text, heading, anchor) = Spliced(text, before, before, section)
    BY <1>5, <1>8, <1>10
  <2> QED
    BY <2>3, <2>4 DEF section
<1> QED
  BY <1>9, <1>10

\* The range replaced is the one the next refresh finds, whose section is there.
LEMMA RangeSettles ==
  ASSUME NEW T, NEW text \in Seq(T), NEW heading, NEW anchor, heading # anchor,
         Generated(text), NEW doc, NEW section \in Seq(T), section = Section(doc, heading, anchor),
         IsSection(section, heading, anchor), NEW start, NEW end, IsRange(text, heading, anchor, start, end),
         NEW new, new = Spliced(text, start, end, section)
  PROVE  /\ Backfilled(doc, new, heading, anchor) = new
         /\ new[Find(new, heading, 1)] = <<heading, Current>>
         /\ KeepsOutside(text, new, start, end)
<1> DEFINE n == Len(section)
           end2 == start + n
<1>1. /\ start \in 2 .. Len(text) /\ end \in start .. Len(text) /\ Len(text) \in Nat /\ n \in Nat /\ n >= 1
      /\ \A k \in 1 .. start - 1 : text[k][1] # heading
      /\ text[end][1] = anchor /\ section[1] = <<heading, Current>>
      /\ \A k \in 1 .. n : section[k][1] # anchor
  BY DEF IsRange, IsSection
<1>2. start \in 1 .. Len(text) + 1 /\ end \in start .. Len(text) + 1 /\ start \in Nat /\ end \in Nat
  BY <1>1
<1>3. n = Len(section) /\ end2 = start + n /\ end2 \in Nat
  BY <1>1
<1> HIDE DEF n, end2
<1>4. Replaces(T, new, text, section, start, end, n)
  BY <1>2, <1>3, SplicedIs
<1>5. /\ new \in Seq(T) /\ Len(new) = start - 1 + n + (Len(text) + 1 - end)
      /\ \A k \in 1 .. start - 1 : new[k] = text[k]
      /\ \A k \in 1 .. n : new[start - 1 + k] = section[k]
      /\ \A k \in end .. Len(text) : new[k - end + start + n] = text[k]
  BY <1>4 DEF Replaces
<1>6. Len(new) \in Nat /\ start \in 1 .. Len(new) /\ end2 \in start .. Len(new)
  BY <1>1, <1>2, <1>3, <1>5, SMTT(30)
<1>7. new[start] = <<heading, Current>> /\ new[start][1] = heading
  <2>1. 1 \in 1 .. n /\ start - 1 + 1 = start
    BY <1>1, <1>2
  <2>2. new[start] = section[1]
    BY <1>5, <2>1
  <2> QED
    BY <1>1, <2>2
<1>8. new[end2][1] = anchor
  <2>1. end \in end .. Len(text) /\ end - end + start + n = end2
    BY <1>1, <1>2, <1>3
  <2> QED
    BY <1>1, <1>5, <2>1
<1>9. Find(new, heading, 1) = start
  <2> DEFINE one == 1
  <2>1. one \in Nat \ {0} /\ start \in one .. Len(new)
    BY <1>6
  <2>3. ASSUME NEW k \in one .. start - 1 PROVE new[k][1] # heading
    <3>1. new[k] = text[k]
      BY <1>5
    <3> QED
      BY <1>1, <3>1
  <2>4. new \in Seq(T) /\ new[start][1] = heading
    BY <1>5, <1>7
  <2> HIDE DEF one
  <2>2. Find(new, heading, one) = start
    BY <2>1, <2>3, <2>4, FindAt
  <2> QED
    BY <2>2 DEF one
<1>10. Find(new, anchor, start) = end2
  <2>1. start \in Nat \ {0}
    BY <1>1, <1>2
  <2>2. ASSUME NEW k \in start .. end2 - 1 PROVE new[k][1] # anchor
    <3>1. k - (start - 1) \in 1 .. n /\ start - 1 + (k - (start - 1)) = k
      BY <1>1, <1>2, <1>3
    <3>2. new[k] = section[k - (start - 1)]
      BY <1>5, <3>1
    <3> QED
      BY <1>1, <3>1, <3>2
  <2> QED
    BY <1>5, <1>6, <1>8, <2>1, <2>2, FindAt, SMTT(30)
<1>11. ManagedEnd(new, heading, anchor) = end2 /\ end2 # 0
  BY <1>1, <1>2, <1>3, <1>9, <1>10 DEF ManagedEnd
<1>12. Generated(new)
  <2>1. text[1][1] = "title" /\ 1 \in 1 .. start - 1
    BY <1>1, <1>2 DEF Generated
  <2>2. new[1] = text[1] /\ new # <<>>
    BY <1>1, <1>2, <1>5, <1>6, <2>1
  <2> QED
    BY <2>1, <2>2 DEF Generated
<1>13. Backfilled(doc, new, heading, anchor) = Spliced(new, start, end2, section)
  BY <1>9, <1>11, <1>12 DEF Backfilled
<1>14. Spliced(new, start, start + n, section) = new
  <2>1. start \in 1 .. Len(text) + 1 /\ end \in start .. Len(text) + 1
    BY <1>2
  <2>2. n = Len(section)
    BY <1>3
  <2> QED
    BY <2>1, <2>2, SplicedAgain
<1>15. Backfilled(doc, new, heading, anchor) = new
  BY <1>3, <1>13, <1>14
<1>16. ASSUME NEW i \in DOMAIN text, i < start \/ end <= i PROVE \E k \in DOMAIN new : new[k] = text[i]
  <2>1. i \in 1 .. Len(text) /\ DOMAIN new = 1 .. Len(new)
    BY <1>5
  <2>2. CASE i < start
    <3>1. i \in 1 .. start - 1 /\ i \in 1 .. Len(new)
      BY <1>1, <1>2, <1>6, <2>1, <2>2
    <3> QED
      BY <1>5, <2>1, <3>1
  <2>3. CASE end <= i
    <3> DEFINE moved == i - end + start + n
    <3> DEFINE size == Len(new)
               last_of == Len(text)
    <3>1. size = start - 1 + n + (last_of + 1 - end)
      BY <1>5
    <3>2. /\ start \in Nat /\ end \in Nat /\ n \in Nat /\ last_of \in Nat /\ i \in Nat
          /\ end <= i /\ i <= last_of /\ start >= 1 /\ n >= 1
      BY <1>1, <1>2, <2>1, <2>3
    <3> HIDE DEF size, last_of
    <3>3. i \in end .. last_of /\ moved \in 1 .. size
      BY <3>1, <3>2
    <3>4. i \in end .. Len(text) /\ moved \in 1 .. Len(new)
      BY <3>3 DEF size, last_of
    <3>5. new[moved] = text[i]
      BY <1>5, <3>4
    <3> QED
      BY <2>1, <3>4, <3>5
  <2> QED
    BY <1>16, <2>2, <2>3
<1> QED
  BY <1>7, <1>9, <1>15, <1>16 DEF KeepsOutside

\* The sections of the templates and the one that is not part of them.
SectionNames == {"title", "runtime", "bridges", "policy", "capture", "gates", "dox", "recall", "persistence",
                 "activation", "rings", "updates", "commands", "safety", "preflight"}

SectionBlocks == SectionNames \X {Current}

\* Between a heading and an anchor that follows it in the template.
LEMMA SectionBetween ==
  ASSUME NEW names \in Seq(SectionNames), NEW i \in 1 .. Len(names), NEW j \in 1 .. Len(names), i < j,
         NEW heading, heading = names[i], NEW anchor, anchor = names[j], heading # anchor,
         NEW text, text = Worded(names), NEW section,
         section = SubSeq(text, Find(text, heading, 1), ManagedEnd(text, heading, anchor) - 1)
  PROVE  section \in Seq(SectionBlocks) /\ IsSection(section, heading, anchor)
<1>1. text = [k \in 1 .. Len(names) |-> <<names[k], Current>>] /\ Len(names) \in Nat
  BY DEF Worded
<1>2. /\ text \in Seq(SectionBlocks) /\ Len(text) = Len(names)
      /\ \A k \in 1 .. Len(names) : text[k] = <<names[k], Current>> /\ text[k][1] = names[k]
  <2>1. \A k \in 1 .. Len(names) : names[k] \in SectionNames
    OBVIOUS
  <2>2. \A k \in 1 .. Len(names) : text[k] = <<names[k], Current>> /\ text[k][1] = names[k]
    BY <1>1
  <2>3. \A k \in 1 .. Len(names) : text[k] \in SectionBlocks
    <3> SUFFICES ASSUME NEW k \in 1 .. Len(names) PROVE text[k] \in SectionBlocks
      OBVIOUS
    <3>1. names[k] \in SectionNames /\ text[k] = <<names[k], Current>>
      BY <2>1, <2>2
    <3>2. <<names[k], Current>> \in SectionNames \X {Current}
      BY <3>1
    <3> QED
      BY <3>1, <3>2 DEF SectionBlocks
  <2> DEFINE n == Len(names)
             B == SectionBlocks
  <2>4. text \in [1 .. n -> B]
    BY <1>1, <2>3
  <2> HIDE DEF n, B
  <2>5. n \in Nat
    BY <1>1 DEF n
  <2>6. text \in Seq(B) /\ Len(text) = n
    BY <2>4, <2>5
  <2> QED
    BY <2>2, <2>6 DEF n, B
<1> DEFINE one == 1
           first == Find(text, heading, one)
           last_of == Find(text, anchor, first)
<1>3. one \in Nat \ {0} /\ one = 1 /\ text \in Seq(SectionBlocks)
  BY <1>2
<1> HIDE DEF one
<1>4. /\ first \in 1 .. i /\ text[first] = <<heading, Current>>
  <2>1. \/ first = 0 /\ \A k \in one .. Len(text) : text[k][1] # heading
        \/ /\ first \in one .. Len(text) /\ text[first][1] = heading
           /\ \A k \in one .. first - 1 : text[k][1] # heading
    BY <1>3, FindIs
  <2> HIDE DEF first
  <2>2. i \in one .. Len(text) /\ text[i][1] = heading
    BY <1>2, <1>3
  <2>3. first \in one .. Len(text) /\ text[first][1] = heading /\ ~(i < first)
    BY <2>1, <2>2
  <2>4. first \in 1 .. Len(names) /\ text[first] = <<names[first], Current>> /\ text[first][1] = names[first]
    BY <1>2, <1>3, <2>3
  <2> QED
    BY <1>1, <2>3, <2>4
<1>5. first \in Nat \ {0} /\ first < j
  BY <1>4
<1> HIDE DEF first
<1>6. /\ last_of \in first + 1 .. Len(text)
      /\ \A k \in first .. last_of - 1 : text[k][1] # anchor
  <2>1. \/ last_of = 0 /\ \A k \in first .. Len(text) : text[k][1] # anchor
        \/ /\ last_of \in first .. Len(text) /\ text[last_of][1] = anchor
           /\ \A k \in first .. last_of - 1 : text[k][1] # anchor
    BY <1>3, <1>5, FindIs
  <2> HIDE DEF last_of
  <2>2. j \in first .. Len(text) /\ text[j][1] = anchor
    BY <1>2, <1>5
  <2>3. last_of \in first .. Len(text) /\ text[last_of][1] = anchor /\ \A k \in first .. last_of - 1 : text[k][1] # anchor
    BY <2>1, <2>2
  <2>4. last_of # first
    BY <1>4, <2>3
  <2> QED
    BY <1>5, <2>3, <2>4
<1>7. section = SubSeq(text, first, last_of - 1)
  BY <1>3, <1>5 DEF ManagedEnd, first, last_of, one
<1> HIDE DEF last_of
<1>8. /\ section \in Seq(SectionBlocks) /\ Len(section) = last_of - first
      /\ \A k \in 1 .. last_of - first : section[k] = text[first + k - 1]
  <2> DEFINE final == last_of - 1
  <2>1. first \in Int /\ final \in Int /\ last_of \in Nat /\ first < last_of
    BY <1>5, <1>6
  <2>2. \A k \in first .. final : text[k] \in SectionBlocks
    BY <1>3, <1>5, <1>6
  <2>3. section = SubSeq(text, first, final)
    BY <1>7
  <2>4. final = last_of - 1
    OBVIOUS
  <2> HIDE DEF final
  <2> DEFINE piece == SubSeq(text, first, final)
  <2>7. /\ piece \in Seq(SectionBlocks) /\ Len(piece) = IF first <= final THEN final - first + 1 ELSE 0
        /\ \A k \in 1 .. final - first + 1 : piece[k] = text[first + k - 1]
    BY <2>1, <2>2, SubSeqProperties
  <2>8. section = piece
    BY <2>3
  <2> HIDE DEF piece
  <2>5. /\ section \in Seq(SectionBlocks) /\ Len(section) = IF first <= final THEN final - first + 1 ELSE 0
        /\ \A k \in 1 .. final - first + 1 : section[k] = text[first + k - 1]
    BY <2>7, <2>8
  <2>6. final - first + 1 = last_of - first /\ first <= final
    BY <1>5, <2>1, <2>4
  <2> QED
    BY <2>5, <2>6
<1>9. Len(section) >= 1 /\ section[1] = <<heading, Current>>
  <2>1. 1 \in 1 .. last_of - first /\ first + 1 - 1 = first /\ Len(section) >= 1
    BY <1>5, <1>6, <1>8
  <2> QED
    BY <1>4, <1>8, <2>1
<1>10. ASSUME NEW k \in 1 .. Len(section) PROVE section[k][1] # anchor
  <2>1. first + k - 1 \in first .. last_of - 1 /\ k \in 1 .. last_of - first
    BY <1>5, <1>6, <1>8
  <2> QED
    BY <1>6, <1>8, <2>1
<1> QED
  BY <1>8, <1>9, <1>10 DEF IsSection

\* The section extract_section takes from a template.
LEMMA TemplateSection ==
  ASSUME NEW names \in Seq(SectionNames), NEW heading, NEW anchor, heading # anchor,
         \E i, j \in 1 .. Len(names) : i < j /\ heading = names[i] /\ anchor = names[j],
         NEW text, text = Worded(names), NEW section,
         section = SubSeq(text, Find(text, heading, 1), ManagedEnd(text, heading, anchor) - 1)
  PROVE  section \in Seq(SectionBlocks) /\ IsSection(section, heading, anchor)
<1>1. PICK i \in 1 .. Len(names), j \in 1 .. Len(names) : i < j /\ heading = names[i] /\ anchor = names[j]
  OBVIOUS
<1> QED
  BY <1>1, SectionBetween

\* A step refreshes one of these.
Managed ==
  {<<"AGENTS", "gates", "dox">>, <<"AGENTS", "runtime", "bridges">>, <<"AGENTS", "policy", "gates">>,
   <<"AGENTS", "capture", "gates">>, <<"AGENTS", "preflight", "gates">>,
   <<"SKILL", "gates", "rings">>, <<"SKILL", "runtime", "recall">>, <<"SKILL", "persistence", "activation">>,
   <<"SKILL", "policy", "updates">>, <<"SKILL", "capture", "gates">>, <<"SKILL", "preflight", "gates">>,
   <<"CLI", "gates", "safety">>, <<"CLI", "runtime", "commands">>, <<"CLI", "policy", "gates">>,
   <<"CLI", "capture", "gates">>, <<"CLI", "preflight", "gates">>}

\* ensure_agent_awareness has no other steps.
LEMMA StepsManage == \A k \in DOMAIN Steps : Steps[k] \in Managed
BY DEF Steps, Managed

\* What any step inserts is a section.
LEMMA SectionIs ==
  ASSUME NEW doc, NEW heading, NEW anchor, <<doc, heading, anchor>> \in Managed
  PROVE  /\ heading # "title" /\ anchor # "title" /\ heading # anchor
         /\ Section(doc, heading, anchor) \in Seq(SectionBlocks)
         /\ IsSection(Section(doc, heading, anchor), heading, anchor)
<1>1. heading # "title" /\ anchor # "title" /\ heading # anchor
  BY DEF Managed
<1>2. CASE heading = "preflight"
  <2> DEFINE section == Section(doc, heading, anchor)
  <2>1. section = <<<<"preflight", Current>>>>
    BY <1>2 DEF Section
  <2>2. <<"preflight", Current>> \in SectionBlocks
    BY DEF SectionBlocks, SectionNames
  <2> DEFINE block == <<"preflight", Current>>
  <2>3. block[1] = "preflight" /\ block = <<heading, Current>>
    BY <1>2
  <2> HIDE DEF block, section
  <2>4. section = <<block>>
    BY <2>1 DEF block
  <2>5. section \in Seq(SectionBlocks)
    BY <2>2, <2>4 DEF block
  <2>6. IsSection(section, heading, anchor)
    BY <1>1, <1>2, <2>3, <2>4 DEF IsSection
  <2> QED
    BY <1>1, <2>5, <2>6 DEF section
<1>3. CASE heading # "preflight"
  <2> DEFINE section == Section(doc, heading, anchor)
  <2>1. section = SubSeq(Template[doc], Find(Template[doc], heading, 1), ManagedEnd(Template[doc], heading, anchor) - 1)
    BY <1>3 DEF Section
  <2> HIDE DEF section
  <2>2. CASE doc = "AGENTS"
    <3> DEFINE names == <<"title", "runtime", "bridges", "policy", "capture", "gates", "dox">>
    <3>1. names \in Seq(SectionNames) /\ Len(names) = 7
      BY DEF SectionNames
    <3>2. /\ names[2] = "runtime" /\ names[3] = "bridges" /\ names[4] = "policy" /\ names[5] = "capture"
          /\ names[6] = "gates" /\ names[7] = "dox"
      OBVIOUS
    <3>3. Template[doc] = Worded(names)
      BY <2>2 DEF Template, AgentContract
    <3>4. \E pair \in {<<"gates", "dox">>, <<"runtime", "bridges">>, <<"policy", "gates">>, <<"capture", "gates">>} :
            heading = pair[1] /\ anchor = pair[2]
      BY <1>3, <2>2 DEF Managed
    <3> HIDE DEF names
    <3>5. \E i, j \in 1 .. Len(names) : i < j /\ heading = names[i] /\ anchor = names[j]
      <4>1. CASE heading = "gates" /\ anchor = "dox"
        <5>1. 6 \in 1 .. Len(names) /\ 7 \in 1 .. Len(names) /\ 6 < 7 /\ heading = names[6] /\ anchor = names[7]
          BY <3>1, <3>2, <4>1
        <5> QED
          BY <5>1
      <4>2. CASE heading = "runtime" /\ anchor = "bridges"
        <5>1. 2 \in 1 .. Len(names) /\ 3 \in 1 .. Len(names) /\ 2 < 3 /\ heading = names[2] /\ anchor = names[3]
          BY <3>1, <3>2, <4>2
        <5> QED
          BY <5>1
      <4>3. CASE heading = "policy" /\ anchor = "gates"
        <5>1. 4 \in 1 .. Len(names) /\ 6 \in 1 .. Len(names) /\ 4 < 6 /\ heading = names[4] /\ anchor = names[6]
          BY <3>1, <3>2, <4>3
        <5> QED
          BY <5>1
      <4>4. CASE heading = "capture" /\ anchor = "gates"
        <5>1. 5 \in 1 .. Len(names) /\ 6 \in 1 .. Len(names) /\ 5 < 6 /\ heading = names[5] /\ anchor = names[6]
          BY <3>1, <3>2, <4>4
        <5> QED
          BY <5>1
      <4> QED
        BY <3>4, <4>1, <4>2, <4>3, <4>4
    <3> QED
      BY <1>1, <2>1, <3>1, <3>3, <3>5, TemplateSection DEF section
  <2>3. CASE doc = "SKILL"
    <3> DEFINE names == <<"title", "runtime", "recall", "persistence", "activation", "capture", "gates", "rings", "policy", "updates">>
    <3>1. names \in Seq(SectionNames) /\ Len(names) = 10
      BY DEF SectionNames
    <3>2. /\ names[2] = "runtime" /\ names[3] = "recall" /\ names[4] = "persistence" /\ names[5] = "activation"
          /\ names[6] = "capture" /\ names[7] = "gates" /\ names[8] = "rings" /\ names[9] = "policy" /\ names[10] = "updates"
      OBVIOUS
    <3>3. Template[doc] = Worded(names)
      BY <2>3 DEF Template, SkillTemplate
    <3>4. \E pair \in {<<"gates", "rings">>, <<"runtime", "recall">>, <<"persistence", "activation">>, <<"policy", "updates">>, <<"capture", "gates">>} :
            heading = pair[1] /\ anchor = pair[2]
      BY <1>3, <2>3 DEF Managed
    <3> HIDE DEF names
    <3>5. \E i, j \in 1 .. Len(names) : i < j /\ heading = names[i] /\ anchor = names[j]
      <4>1. CASE heading = "gates" /\ anchor = "rings"
        <5>1. 7 \in 1 .. Len(names) /\ 8 \in 1 .. Len(names) /\ 7 < 8 /\ heading = names[7] /\ anchor = names[8]
          BY <3>1, <3>2, <4>1
        <5> QED
          BY <5>1
      <4>2. CASE heading = "runtime" /\ anchor = "recall"
        <5>1. 2 \in 1 .. Len(names) /\ 3 \in 1 .. Len(names) /\ 2 < 3 /\ heading = names[2] /\ anchor = names[3]
          BY <3>1, <3>2, <4>2
        <5> QED
          BY <5>1
      <4>3. CASE heading = "persistence" /\ anchor = "activation"
        <5>1. 4 \in 1 .. Len(names) /\ 5 \in 1 .. Len(names) /\ 4 < 5 /\ heading = names[4] /\ anchor = names[5]
          BY <3>1, <3>2, <4>3
        <5> QED
          BY <5>1
      <4>4. CASE heading = "policy" /\ anchor = "updates"
        <5>1. 9 \in 1 .. Len(names) /\ 10 \in 1 .. Len(names) /\ 9 < 10 /\ heading = names[9] /\ anchor = names[10]
          BY <3>1, <3>2, <4>4
        <5> QED
          BY <5>1
      <4>5. CASE heading = "capture" /\ anchor = "gates"
        <5>1. 6 \in 1 .. Len(names) /\ 7 \in 1 .. Len(names) /\ 6 < 7 /\ heading = names[6] /\ anchor = names[7]
          BY <3>1, <3>2, <4>5
        <5> QED
          BY <5>1
      <4> QED
        BY <3>4, <4>1, <4>2, <4>3, <4>4, <4>5
    <3> QED
      BY <1>1, <2>1, <3>1, <3>3, <3>5, TemplateSection DEF section
  <2>4. CASE doc = "CLI"
    <3> DEFINE names == <<"title", "runtime", "commands", "policy", "capture", "gates", "safety">>
    <3>1. names \in Seq(SectionNames) /\ Len(names) = 7
      BY DEF SectionNames
    <3>2. /\ names[2] = "runtime" /\ names[3] = "commands" /\ names[4] = "policy" /\ names[5] = "capture"
          /\ names[6] = "gates" /\ names[7] = "safety"
      OBVIOUS
    <3>3. Template[doc] = Worded(names)
      BY <2>4 DEF Template, CliReference
    <3>4. \E pair \in {<<"gates", "safety">>, <<"runtime", "commands">>, <<"policy", "gates">>, <<"capture", "gates">>} :
            heading = pair[1] /\ anchor = pair[2]
      BY <1>3, <2>4 DEF Managed
    <3> HIDE DEF names
    <3>5. \E i, j \in 1 .. Len(names) : i < j /\ heading = names[i] /\ anchor = names[j]
      <4>1. CASE heading = "gates" /\ anchor = "safety"
        <5>1. 6 \in 1 .. Len(names) /\ 7 \in 1 .. Len(names) /\ 6 < 7 /\ heading = names[6] /\ anchor = names[7]
          BY <3>1, <3>2, <4>1
        <5> QED
          BY <5>1
      <4>2. CASE heading = "runtime" /\ anchor = "commands"
        <5>1. 2 \in 1 .. Len(names) /\ 3 \in 1 .. Len(names) /\ 2 < 3 /\ heading = names[2] /\ anchor = names[3]
          BY <3>1, <3>2, <4>2
        <5> QED
          BY <5>1
      <4>3. CASE heading = "policy" /\ anchor = "gates"
        <5>1. 4 \in 1 .. Len(names) /\ 6 \in 1 .. Len(names) /\ 4 < 6 /\ heading = names[4] /\ anchor = names[6]
          BY <3>1, <3>2, <4>3
        <5> QED
          BY <5>1
      <4>4. CASE heading = "capture" /\ anchor = "gates"
        <5>1. 5 \in 1 .. Len(names) /\ 6 \in 1 .. Len(names) /\ 5 < 6 /\ heading = names[5] /\ anchor = names[6]
          BY <3>1, <3>2, <4>4
        <5> QED
          BY <5>1
      <4> QED
        BY <3>4, <4>1, <4>2, <4>3, <4>4
    <3> QED
      BY <1>1, <2>1, <3>1, <3>3, <3>5, TemplateSection DEF section
  <2>5. doc \in {"AGENTS", "SKILL", "CLI"}
    BY DEF Managed
  <2> QED
    BY <2>2, <2>3, <2>4, <2>5
<1> QED
  BY <1>2, <1>3

\* A text whose section has no end that could be told is left as it is.
LEMMA UnmanagedKept ==
  ASSUME NEW T, NEW text \in Seq(T), NEW doc, NEW heading, NEW anchor,
         ~(Generated(text) /\ Find(text, anchor, 1) # 0)
  PROVE  Backfilled(doc, text, heading, anchor) = text
<1> DEFINE end == ManagedEnd(text, heading, anchor)
           before == Find(text, anchor, 1)
<1>1. CASE before = 0
  <2> DEFINE first == Find(text, heading, 1)
  <2>1. end = IF first = 0 THEN 0 ELSE Find(text, anchor, first)
    BY DEF ManagedEnd
  <2> DEFINE one == 1
  <2>2. one \in Nat \ {0} /\ one = 1
    OBVIOUS
  <2> HIDE DEF one
  <2>3. \/ Find(text, heading, one) = 0
        \/ Find(text, heading, one) \in one .. Len(text)
    BY <2>2, FindIs
  <2>4. \A i \in one .. Len(text) : text[i][1] # anchor
    <3>1. \/ Find(text, anchor, one) = 0 /\ \A i \in one .. Len(text) : text[i][1] # anchor
          \/ Find(text, anchor, one) # 0
      BY <2>2, FindIs
    <3> QED
      BY <1>1, <2>2, <3>1
  <2>5. first = 0 \/ first \in Nat \ {0}
    BY <2>2, <2>3
  <2> HIDE DEF first
  <2>6. ASSUME first \in Nat \ {0} PROVE end = 0
    <3>1. \/ Find(text, anchor, first) = 0
          \/ /\ Find(text, anchor, first) \in first .. Len(text)
             /\ text[Find(text, anchor, first)][1] = anchor
      BY <2>6, FindIs
    <3>2. Find(text, anchor, first) = 0
      BY <2>2, <2>4, <2>6, <3>1
    <3> QED
      BY <2>1, <3>2
  <2>7. end = 0
    BY <2>1, <2>5, <2>6
  <2> QED
    BY <1>1, <2>7 DEF Backfilled
<1>2. CASE ~Generated(text)
  BY <1>2 DEF Backfilled
<1> QED
  BY <1>1, <1>2

(* agent_awareness.rs:340: whatever users made of a guidance file, a refresh *)
(* of a section keeps every block outside the section, leaves this program's *)
(* wording first under its heading if the text is a generated one with the   *)
(* anchor in it, and the next refresh of it changes nothing.                *)
THEOREM RefreshesSettle ==
  ASSUME NEW T, NEW text \in Seq(T), NEW k \in DOMAIN Steps,
         NEW doc, NEW heading, NEW anchor, Steps[k] = <<doc, heading, anchor>>,
         NEW new, new = Backfilled(doc, text, heading, anchor)
  PROVE  /\ Backfilled(doc, new, heading, anchor) = new
         /\ Generated(text) /\ Find(text, anchor, 1) # 0 => new[Find(new, heading, 1)] = <<heading, Current>>
         /\ \A i \in DOMAIN text :
              ~(Find(text, heading, 1) <= i /\ i < ManagedEnd(text, heading, anchor))
                => \E j \in DOMAIN new : new[j] = text[i]
<1> DEFINE section == Section(doc, heading, anchor)
           U == T \cup SectionBlocks
<1>1. <<doc, heading, anchor>> \in Managed
  BY StepsManage
<1>2. /\ heading # "title" /\ anchor # "title" /\ heading # anchor
      /\ section \in Seq(SectionBlocks) /\ IsSection(section, heading, anchor)
  BY <1>1, SectionIs
<1>3. T \subseteq U /\ SectionBlocks \subseteq U
  OBVIOUS
<1>4. section = Section(doc, heading, anchor)
  OBVIOUS
<1> HIDE DEF U, section
<1>5. text \in Seq(U) /\ section \in Seq(U)
  BY <1>2, <1>3, SeqMonotonic
<1>6. CASE Generated(text) /\ Find(text, anchor, 1) # 0
  <2>1. PICK start, end : /\ IsRange(text, heading, anchor, start, end)
                          /\ new = Spliced(text, start, end, section)
    BY <1>2, <1>4, <1>5, <1>6, RangeIsThere
  <2>2. /\ Backfilled(doc, new, heading, anchor) = new
        /\ new[Find(new, heading, 1)] = <<heading, Current>>
        /\ KeepsOutside(text, new, start, end)
    <3>1. Generated(text) /\ IsRange(text, heading, anchor, start, end) /\ new = Spliced(text, start, end, section)
      BY <1>6, <2>1
    <3> QED
      BY <1>2, <1>4, <1>5, <3>1, RangeSettles
  <2>3. ASSUME NEW i \in DOMAIN text, ~(Find(text, heading, 1) <= i /\ i < ManagedEnd(text, heading, anchor))
        PROVE  i < start \/ end <= i
    BY <1>5, <2>1, <2>3 DEF IsRange
  <2> QED
    BY <2>2, <2>3 DEF KeepsOutside
<1>7. CASE ~(Generated(text) /\ Find(text, anchor, 1) # 0)
  <2>1. new = text
    BY <1>7, UnmanagedKept
  <2> QED
    BY <1>7, <2>1
<1> QED
  BY <1>6, <1>7

\* A sequence of blocks, whatever they are.
IsText(text) == text \in Seq({text[k] : k \in DOMAIN text})

\* A sequence over any set is one.
LEMMA TextIs ==
  ASSUME NEW T, NEW text \in Seq(T)
  PROVE  IsText(text)
<1> DEFINE n == Len(text)
           S == {text[k] : k \in DOMAIN text}
<1>1. n \in Nat /\ DOMAIN text = 1 .. n /\ text = [k \in 1 .. n |-> text[k]]
  OBVIOUS
<1>2. \A k \in 1 .. n : text[k] \in S
  BY <1>1
<1> HIDE DEF S, n
<1>3. text \in [1 .. n -> S]
  BY <1>1, <1>2
<1>4. text \in Seq(S)
  BY <1>1, <1>3
<1> QED
  BY <1>4 DEF IsText, S

\* ... also a part of anything, as a torn write leaves it,
LEMMA PartIsText ==
  ASSUME NEW text, NEW m \in Int, NEW n \in Int
  PROVE  IsText(SubSeq(text, m, n))
<1> DEFINE S == {text[i] : i \in m .. n}
<1>1. \A i \in m .. n : text[i] \in S
  OBVIOUS
<1> HIDE DEF S
<1>2. SubSeq(text, m, n) \in Seq(S)
  BY <1>1, SubSeqProperties
<1> QED
  BY <1>2, TextIs

\* ... two texts one after the other,
LEMMA JoinIsText ==
  ASSUME NEW front, IsText(front), NEW back, IsText(back)
  PROVE  IsText(front \o back)
<1> DEFINE S == {front[k] : k \in DOMAIN front}
           R == {back[k] : k \in DOMAIN back}
<1>1. front \in Seq(S) /\ back \in Seq(R)
  BY DEF IsText
<1> HIDE DEF S, R
<1>2. S \subseteq S \cup R /\ R \subseteq S \cup R
  OBVIOUS
<1> DEFINE U == S \cup R
<1>3. S \subseteq U /\ R \subseteq U
  BY <1>2
<1> HIDE DEF U
<1>4. front \in Seq(U) /\ back \in Seq(U)
  BY <1>1, <1>3, SeqMonotonic
<1>5. front \o back \in Seq(U)
  BY <1>4
<1> QED
  BY <1>5, TextIs

\* ... a text with a block changed,
LEMMA ChangedIsText ==
  ASSUME NEW text, IsText(text), NEW place, NEW block
  PROVE  IsText([text EXCEPT ![place] = block])
<1> DEFINE S == {text[k] : k \in DOMAIN text}
           U == S \cup {block}
           new == [text EXCEPT ![place] = block]
           n == Len(text)
<1>1. text \in Seq(S)
  BY DEF IsText
<1>2. n \in Nat /\ DOMAIN text = 1 .. n /\ \A k \in 1 .. n : text[k] \in S
  BY <1>1
<1> HIDE DEF n
<1>3. new = [k \in 1 .. n |-> IF k = place THEN block ELSE text[k]]
  BY <1>2
<1>4. \A k \in 1 .. n : (IF k = place THEN block ELSE text[k]) \in U
  BY <1>2
<1> HIDE DEF S, U, new
<1>5. new \in [1 .. n -> U]
  BY <1>3, <1>4
<1>6. new \in Seq(U)
  BY <1>2, <1>5
<1>7. IsText(new)
  BY <1>6, TextIs
<1> QED
  BY <1>7 DEF new

\* ... what a template holds,
LEMMA TemplateIsText ==
  ASSUME NEW doc \in Docs
  PROVE  IsText(Template[doc])
<1>1. ASSUME NEW T, NEW names \in Seq(T) PROVE IsText(Worded(names))
  <2> DEFINE n == Len(names)
             B == {<<names[k], Current>> : k \in 1 .. n}
             worded == Worded(names)
  <2>1. n \in Nat /\ worded = [k \in 1 .. n |-> <<names[k], Current>>]
    BY DEF Worded
  <2>2. \A k \in 1 .. n : <<names[k], Current>> \in B
    OBVIOUS
  <2> HIDE DEF n, B, worded
  <2>3. worded \in [1 .. n -> B]
    BY <2>1, <2>2
  <2>4. worded \in Seq(B)
    BY <2>1, <2>3
  <2>5. IsText(worded)
    BY <2>4, TextIs
  <2> QED
    BY <2>5 DEF worded
<1>2. IsText(AgentContract)
  <2> DEFINE names == <<"title", "runtime", "bridges", "policy", "capture", "gates", "dox">>
  <2>1. names \in Seq(SectionNames)
    BY DEF SectionNames
  <2>2. AgentContract = Worded(names)
    BY DEF AgentContract
  <2> HIDE DEF names
  <2> QED
    BY <1>1, <2>1, <2>2
<1>3. IsText(SkillTemplate)
  <2> DEFINE names == <<"title", "runtime", "recall", "persistence", "activation", "capture", "gates", "rings",
                        "policy", "updates">>
  <2>1. names \in Seq(SectionNames)
    BY DEF SectionNames
  <2>2. SkillTemplate = Worded(names)
    BY DEF SkillTemplate
  <2> HIDE DEF names
  <2> QED
    BY <1>1, <2>1, <2>2
<1>4. IsText(CliReference)
  <2> DEFINE names == <<"title", "runtime", "commands", "policy", "capture", "gates", "safety">>
  <2>1. names \in Seq(SectionNames)
    BY DEF SectionNames
  <2>2. CliReference = Worded(names)
    BY DEF CliReference
  <2> HIDE DEF names
  <2> QED
    BY <1>1, <2>1, <2>2
<1> HIDE DEF AgentContract, SkillTemplate, CliReference
<1> QED
  BY <1>2, <1>3, <1>4 DEF Template, Docs

\* A step names a file, a heading and an anchor.
LEMMA StepsAre ==
  ASSUME NEW k \in DOMAIN Steps
  PROVE  /\ Steps[k] = <<Steps[k][1], Steps[k][2], Steps[k][3]>> /\ Steps[k][1] \in Docs
<1> DEFINE s == Steps[k]
<1>1. s \in Managed
  BY StepsManage
<1> HIDE DEF s
<1>2. s = <<s[1], s[2], s[3]>> /\ s[1] \in Docs
  BY <1>1 DEF Managed, Docs
<1> QED
  BY <1>2 DEF s

\* ... and what a step makes of a text or of a file that is missing.
LEMMA RefreshedIsText ==
  ASSUME NEW k \in DOMAIN Steps, NEW text, text # Missing => IsText(text)
  PROVE  IsText(Refreshed(Steps[k], text))
<1> DEFINE doc == Steps[k][1]
           heading == Steps[k][2]
           anchor == Steps[k][3]
           section == Section(doc, heading, anchor)
<1>1. <<doc, heading, anchor>> \in Managed /\ doc \in Docs
  BY StepsManage, StepsAre
<1>2. section \in Seq(SectionBlocks)
  BY <1>1, SectionIs
<1>3. Refreshed(Steps[k], text) = IF text = Missing THEN Template[doc] ELSE Backfilled(doc, text, heading, anchor)
  BY DEF Refreshed
<1>4. CASE text = Missing
  BY <1>1, <1>3, <1>4, TemplateIsText
<1>5. CASE text # Missing
  <2> DEFINE S == {text[i] : i \in DOMAIN text}
             new == Backfilled(doc, text, heading, anchor)
  <2>1. text \in Seq(S)
    BY <1>5 DEF IsText
  <2> HIDE DEF S
  <2>2. CASE Generated(text) /\ Find(text, anchor, 1) # 0
    <3>1. heading # "title" /\ anchor # "title" /\ section \in Seq(SectionBlocks)
      BY <1>1, SectionIs
    <3>2. PICK start, end : /\ IsRange(text, heading, anchor, start, end)
                            /\ new = Spliced(text, start, end, section)
      BY <2>1, <2>2, <3>1, RangeIsThere
    <3>3. Len(text) \in Int /\ start - 1 \in Int /\ end \in Int /\ 1 \in Int
      BY <2>1, <3>2 DEF IsRange
    <3>4. IsText(SubSeq(text, 1, start - 1)) /\ IsText(SubSeq(text, end, Len(text)))
      BY <3>3, PartIsText
    <3>5. IsText(section)
      BY <3>1, TextIs
    <3> HIDE DEF section, new
    <3>6. IsText(SubSeq(text, 1, start - 1) \o section)
      BY <3>4, <3>5, JoinIsText
    <3>7. IsText(SubSeq(text, 1, start - 1) \o section \o SubSeq(text, end, Len(text)))
      BY <3>4, <3>6, JoinIsText
    <3>8. IsText(new)
      BY <3>2, <3>7 DEF Spliced
    <3> QED
      BY <1>3, <1>5, <3>8 DEF new
  <2>3. CASE ~(Generated(text) /\ Find(text, anchor, 1) # 0)
    <3>1. new = text
      BY <2>1, <2>3, UnmanagedKept
    <3> QED
      BY <1>3, <1>5, <3>1
  <2> QED
    BY <2>2, <2>3
<1> QED
  BY <1>4, <1>5

\* Every guidance file that is there has a text, and so has what an init is to change.
TextInv ==
  /\ DOMAIN docs = Docs /\ DOMAIN seen = Inits /\ DOMAIN step = Inits /\ DOMAIN pc = Inits
  /\ \A d \in Docs : docs[d] # Missing => IsText(docs[d])
  /\ \A p \in Inits :
       /\ pc[p] \in {"guide", "write"} => step[p] \in DOMAIN Steps
       /\ seen[p] # Missing => IsText(seen[p])

\* It holds when the project is set up, as the situations are.
LEMMA TextsStart == SetupInit => TextInv
BY SetupsAssumption DEF SetupInit, TextInv, IsText

\* Steps of an init that leave guidance and its place among the steps alone.
ElsewhereStep ==
  /\ UNCHANGED <<docs, step, seen>>
  /\ DOMAIN pc' = Inits
  /\ \A p \in Inits : pc'[p] = pc[p] \/ pc'[p] \notin {"guide", "write"}

\* They keep the texts.
LEMMA ElsewhereKept == TextInv /\ ElsewhereStep => TextInv'
BY DEF TextInv, ElsewhereStep

\* How many steps there are.
LEMMA LenSteps == Len(Steps) = 16 /\ DOMAIN Steps = 1 .. 16
BY DEF Steps

\* Every step of a project, edits and torn writes included, keeps the texts texts.
LEMMA TextStep ==
  ASSUME TextInv, SetupNext
  PROVE  TextInv'
<1>1. ASSUME NEW p \in Inits,
             Begin(p) \/ (\E blank \in BOOLEAN : OpenStore(p, blank)) \/ LoadManifest(p) \/ Bridges(p) \/ Report(p) \/ Die(p)
      PROVE  TextInv'
  <2>1. UNCHANGED <<docs, step, seen>>
    BY <1>1 DEF Begin, OpenStore, LoadManifest, Bridges, Report, Die, disk
  <2>2. \E place \in {"root", "load", "bridges", "report", "done", "dead", "failed"} : pc' = [pc EXCEPT ![p] = place]
    BY <1>1 DEF Begin, OpenStore, LoadManifest, Bridges, Report, Die, Goto, Fail
  <2>3. ElsewhereStep
    BY <2>1, <2>2 DEF ElsewhereStep, TextInv
  <2> QED
    BY <2>3, ElsewhereKept
<1>2. ASSUME NEW p \in Inits, MakeRoot(p)
      PROVE  TextInv'
  BY <1>2, LenSteps DEF MakeRoot, TextInv, Goto
<1>3. ASSUME NEW p \in Inits, Inspect(p)
      PROVE  TextInv'
  <2> DEFINE text == docs[Steps[step[p]][1]]
  <2>1. pc[p] = "guide" /\ docs' = docs
    BY <1>3 DEF Inspect, disk
  <2>2. step[p] \in DOMAIN Steps /\ step[p] \in 1 .. 16 /\ Steps[step[p]][1] \in Docs
    BY <2>1, LenSteps, StepsAre DEF TextInv
  <2>3. text # Missing => IsText(text)
    BY <2>2 DEF TextInv
  <2>4. \/ UNCHANGED <<step, seen>> /\ pc' = [pc EXCEPT ![p] = "failed"]
        \/ /\ step' = [step EXCEPT ![p] = @ + 1] /\ seen' = seen
           /\ pc' = [pc EXCEPT ![p] = IF step[p] = 16 THEN "store" ELSE "guide"]
        \/ step' = step /\ seen' = [seen EXCEPT ![p] = text] /\ pc' = [pc EXCEPT ![p] = "write"]
    BY <1>3, LenSteps DEF Inspect, Goto, Fail
  <2> HIDE DEF text
  <2> QED
    BY <2>1, <2>2, <2>3, <2>4, LenSteps DEF TextInv
<1>4. ASSUME NEW p \in Inits, WriteDoc(p)
      PROVE  TextInv'
  <2> DEFINE d == Steps[step[p]][1]
             new == Refreshed(Steps[step[p]], seen[p])
  <2>1. pc[p] = "write" /\ step[p] \in DOMAIN Steps /\ step[p] \in 1 .. 16
    BY <1>4, LenSteps DEF WriteDoc, TextInv
  <2>2. d \in Docs /\ IsText(new)
    BY <2>1, StepsAre, RefreshedIsText DEF TextInv
  <2>3. /\ docs' = [docs EXCEPT ![d] = new] /\ step' = [step EXCEPT ![p] = @ + 1]
        /\ seen' = [seen EXCEPT ![p] = Missing]
        /\ pc' = [pc EXCEPT ![p] = IF step[p] = 16 THEN "store" ELSE "guide"]
    BY <1>4, LenSteps DEF WriteDoc, Goto
  <2> HIDE DEF d, new
  <2> QED
    BY <2>1, <2>2, <2>3, LenSteps DEF TextInv
<1>5. ASSUME NEW p \in Inits, TearDoc(p)
      PROVE  TextInv'
  <2> DEFINE d == Steps[step[p]][1]
             new == Refreshed(Steps[step[p]], seen[p])
  <2>1. pc[p] = "write" /\ step[p] \in DOMAIN Steps
    BY <1>5 DEF TearDoc, TextInv
  <2>2. d \in Docs
    BY <2>1, StepsAre
  <2>3. PICK k \in {0, 2} : docs' = [docs EXCEPT ![d] = SubSeq(new, 1, k)]
    BY <1>5 DEF TearDoc
  <2>4. UNCHANGED <<step, seen>> /\ pc' = [pc EXCEPT ![p] = "failed"]
    BY <1>5 DEF TearDoc, Fail, Goto
  <2> HIDE DEF d, new
  <2> DEFINE piece == SubSeq(new, 1, k)
  <2>5. IsText(piece)
    <3>1. 1 \in Int /\ k \in Int
      OBVIOUS
    <3> QED
      BY <3>1, PartIsText
  <2>6. docs' = [docs EXCEPT ![d] = piece]
    BY <2>3
  <2> HIDE DEF piece
  <2> QED
    BY <2>1, <2>2, <2>4, <2>5, <2>6 DEF TextInv
<1>6. ASSUME NEW d \in Docs, EditDoc(d)
      PROVE  TextInv'
  <2> DEFINE text == docs[d]
  <2>1. text # Missing /\ IsText(text)
    BY <1>6 DEF EditDoc, TextInv
  <2>2. PICK k \in setup.places \cap (1 .. Len(text) + 1) :
          \/ Edit(d, SubSeq(text, 1, k - 1) \o <<<<"note", edits>>>> \o SubSeq(text, k, Len(text)))
          \/ Edit(d, [text EXCEPT ![k][2] = "reworded"])
          \/ Edit(d, SubSeq(text, 1, k - 1) \o SubSeq(text, k + 1, Len(text)))
    BY <1>6 DEF EditDoc
  <2>3. 1 \in Int /\ k \in Int /\ k - 1 \in Int /\ k + 1 \in Int /\ Len(text) \in Int
    BY <2>1 DEF IsText
  <2> HIDE DEF text
  <2>4. /\ IsText(SubSeq(text, 1, k - 1)) /\ IsText(SubSeq(text, k, Len(text)))
        /\ IsText(SubSeq(text, k + 1, Len(text)))
    BY <2>3, PartIsText
  <2> DEFINE note == <<<<"note", edits>>>>
  <2>5. IsText(note)
    <3>1. note \in Seq({<<"note", edits>>})
      OBVIOUS
    <3> QED
      BY <3>1, TextIs
  <2> HIDE DEF note
  <2>6. IsText(SubSeq(text, 1, k - 1) \o note)
    BY <2>4, <2>5, JoinIsText
  <2>7. /\ IsText(SubSeq(text, 1, k - 1) \o note \o SubSeq(text, k, Len(text)))
        /\ IsText(SubSeq(text, 1, k - 1) \o SubSeq(text, k + 1, Len(text)))
    BY <2>4, <2>6, JoinIsText
  <2> DEFINE block == [text[k] EXCEPT ![2] = "reworded"]
  <2>8. IsText([text EXCEPT ![k] = block])
    BY <2>1, ChangedIsText
  <2>9. [text EXCEPT ![k][2] = "reworded"] = [text EXCEPT ![k] = block]
    OBVIOUS
  <2>10. PICK new : Edit(d, new) /\ IsText(new)
    BY <2>2, <2>7, <2>8, <2>9 DEF note
  <2>11. docs' = [docs EXCEPT ![d] = new] /\ UNCHANGED <<pc, step, seen>>
    BY <2>10 DEF Edit, process
  <2> QED
    BY <2>10, <2>11 DEF TextInv
<1>7. ASSUME \/ \E plugin \in setup.plugins : ChangePlugin(plugin)
             \/ \E h \in Harnesses : Preflight(h)
             \/ \E c \in Reports \cup Writers, blank \in BOOLEAN : Run(c, blank)
      PROVE  TextInv'
  <2>1. UNCHANGED <<docs, pc, step, seen>>
    BY <1>7 DEF ChangePlugin, Preflight, Run, disk, process
  <2> QED
    BY <2>1 DEF TextInv
<1>8. ASSUME NEW d, d \notin Docs, EditDoc(d)
      PROVE  TextInv'
  <2>1. PICK new : Edit(d, new)
    BY <1>8 DEF EditDoc
  <2>2. /\ DOMAIN docs' = Docs /\ \A e \in Docs : docs'[e] = docs[e]
        /\ UNCHANGED <<pc, step, seen>>
    BY <1>8, <2>1 DEF Edit, process, TextInv
  <2> QED
    BY <2>2 DEF TextInv
<1> QED
  BY <1>1, <1>2, <1>3, <1>4, <1>5, <1>6, <1>7, <1>8 DEF SetupNext
\* What a refresh writes of the text it read.
WriteKeeps(p) ==
  LET doc == Steps[step[p]][1] heading == Steps[step[p]][2] anchor == Steps[step[p]][3]
      found == seen[p] written == docs'[doc] IN
  found # Missing =>
    /\ Backfilled(doc, written, heading, anchor) = written
    /\ Generated(found) /\ Find(found, anchor, 1) # 0 => written[Find(written, heading, 1)] = <<heading, Current>>
    /\ \A i \in DOMAIN found :
         ~(Find(found, heading, 1) <= i /\ i < ManagedEnd(found, heading, anchor))
           => \E j \in DOMAIN written : written[j] = found[i]

(* agent_awareness.rs:340: whenever an init writes a guidance file, what it *)
(* read of it is there but for the section it refreshes; the section is in  *)
(* the program's wording if the text is a generated one with the anchor in  *)
(* it; and the next refresh of it finds nothing to do.  So whatever users,  *)
(* torn writes and other inits made of the file before.                    *)
THEOREM WritesKeepTheRest == Spec => [][\A p \in Inits : WriteDoc(p) => WriteKeeps(p)]_vars
<1>1. Init => TextInv
  BY TextsStart DEF Init
<1>2. TextInv /\ [Next]_vars => TextInv'
  <2> SUFFICES ASSUME TextInv, [Next]_vars PROVE TextInv'
    OBVIOUS
  <2>1. CASE UNCHANGED setupVars
    BY <2>1 DEF setupVars, disk, process, TextInv
  <2> QED
    BY <2>1, TextStep DEF Next, vars
<1>3. TextInv => \A p \in Inits : WriteDoc(p) => WriteKeeps(p)
  <2> SUFFICES ASSUME TextInv, NEW p \in Inits, WriteDoc(p), seen[p] # Missing PROVE WriteKeeps(p)
    BY DEF WriteKeeps
  <2> DEFINE k == step[p]
             found == seen[p]
             doc == Steps[k][1]
             heading == Steps[k][2]
             anchor == Steps[k][3]
             T == {found[i] : i \in DOMAIN found}
             new == Backfilled(doc, found, heading, anchor)
  <2>1. k \in DOMAIN Steps /\ found \in Seq(T)
    BY DEF WriteDoc, TextInv, IsText
  <2>2. Steps[k] = <<doc, heading, anchor>> /\ doc \in Docs
    BY <2>1, StepsAre
  <2>3. docs'[doc] = new
    BY <2>2 DEF WriteDoc, Refreshed, TextInv
  <2>4. /\ Backfilled(doc, new, heading, anchor) = new
        /\ Generated(found) /\ Find(found, anchor, 1) # 0 => new[Find(new, heading, 1)] = <<heading, Current>>
        /\ \A i \in DOMAIN found :
             ~(Find(found, heading, 1) <= i /\ i < ManagedEnd(found, heading, anchor))
               => \E j \in DOMAIN new : new[j] = found[i]
    <3> HIDE DEF k, found, doc, heading, anchor, T
    <3> QED
      BY <2>1, <2>2, RefreshesSettle
  <2> HIDE DEF new
  <2> QED
    BY <2>3, <2>4 DEF WriteKeeps
<1>4. TextInv /\ [Next]_vars => [\A p \in Inits : WriteDoc(p) => WriteKeeps(p)]_vars
  BY <1>3
<1> QED
  BY <1>1, <1>2, <1>4, PTL DEF Spec

----
(***************************************************************************)
(* Recall: what a recall answers, over any store.                          *)
(***************************************************************************)

LEMMA MinIsThere ==
  ASSUME NEW S \in SUBSET Nat, S # {}
  PROVE  Min(S) \in S
<1> DEFINE R == OpToRel(<, Nat)
<1>1. \E x \in S : \A y \in S : ~(<<y, x>> \in R)
  <2>1. IsWellFoundedOn(R, Nat)
    BY Zenon, NatLessThanWellFounded
  <2> HIDE DEF R
  <2> QED
    BY <2>1, WFMin
<1>2. \E x \in S : \A y \in S : ~(y < x)
  BY Zenon, <1>1 DEF OpToRel
<1>3. \E x \in S : \A y \in S : x =< y
  BY <1>2
<1> QED
  BY <1>3 DEF Min

\* A subset of the size that Selections and Best ask for is empty, or all there
\* is, only as their limits say.
LEMMA Fitted ==
  ASSUME NEW S, IsFiniteSet(S), NEW n \in Nat \ {0}, NEW C \in kSubset(Min({n, Cardinality(S)}), S)
  PROVE  /\ C \subseteq S /\ IsFiniteSet(C)
         /\ C = {} <=> S = {}
         /\ Cardinality(S) <= n => C = S
<1>1. Cardinality(S) \in Nat
  BY FS_CardinalityType
<1>2. Min({n, Cardinality(S)}) = IF n <= Cardinality(S) THEN n ELSE Cardinality(S)
  <2> DEFINE k == IF n <= Cardinality(S) THEN n ELSE Cardinality(S)
  <2>1. k \in {n, Cardinality(S)} /\ \A y \in {n, Cardinality(S)} : k =< y
    BY <1>1
  <2>2. \A x \in {n, Cardinality(S)} : (\A y \in {n, Cardinality(S)} : x =< y) => x = k
    BY <1>1
  <2> HIDE DEF k
  <2>3. Min({n, Cardinality(S)}) = k
    BY <2>1, <2>2 DEF Min
  <2> QED
    BY <2>3 DEF k
<1>3. C \in SUBSET S /\ Cardinality(C) = IF n <= Cardinality(S) THEN n ELSE Cardinality(S)
  BY <1>2 DEF kSubset
<1>4. IsFiniteSet(C) /\ (Cardinality(S) = Cardinality(C) => S = C)
  BY <1>3, FS_Subset
<1>5. (Cardinality(S) = 0 <=> S = {}) /\ (Cardinality(C) = 0 <=> C = {})
  BY <1>4, FS_EmptySet
<1> QED
  BY <1>1, <1>3, <1>4, <1>5

LEMMA LessTermRange ==
  ASSUME NEW T, NEW q \in Seq(T), NEW k \in DOMAIN q
  PROVE  Range(LessTerm(q, k)) \subseteq Range(q)
<1> DEFINE a == SubSeq(q, 1, k - 1)
           b == SubSeq(q, k + 1, Len(q))
<1>1. Len(q) \in Nat /\ k \in 1 .. Len(q) /\ DOMAIN q = 1 .. Len(q)
  OBVIOUS
<1>2. a \in Seq(T) /\ Len(a) = k - 1 /\ \A j \in 1 .. k - 1 : a[j] = q[j]
  BY <1>1
<1>3. b \in Seq(T) /\ Len(b) = Len(q) - k /\ \A j \in 1 .. Len(q) - k : b[j] = q[k + j]
  BY <1>1
<1> HIDE DEF a, b
<1>4. ASSUME NEW j \in DOMAIN (a \o b) PROVE (a \o b)[j] \in Range(q)
  <2>1. j \in 1 .. Len(q) - 1
    BY <1>1, <1>2, <1>3, <1>4
  <2>2. CASE j <= k - 1
    <3>1. (a \o b)[j] = q[j] /\ j \in DOMAIN q
      BY <1>1, <1>2, <1>3, <2>1, <2>2
    <3> QED
      BY <3>1 DEF Range
  <2>3. CASE j > k - 1
    <3>1. (a \o b)[j] = b[j - (k - 1)] /\ j - (k - 1) \in 1 .. Len(q) - k
      BY <1>1, <1>2, <1>3, <2>1, <2>3
    <3>2. b[j - (k - 1)] = q[k + (j - (k - 1))]
      BY <1>3, <3>1
    <3>3. k + (j - (k - 1)) = j + 1 /\ j + 1 \in DOMAIN q
      BY <1>1, <2>1
    <3> QED
      BY <3>1, <3>2, <3>3 DEF Range
  <2> QED
    BY <1>1, <2>1, <2>2, <2>3
<1>5. LessTerm(q, k) = a \o b
  BY DEF LessTerm, a, b
<1> QED
  BY <1>4, <1>5 DEF Range

(* What has every word of a query, or of the query less a word, has a word  *)
(* of it; and what the queries find, the last of them finds.               *)
LEMMA HitsFindAll ==
  ASSUME NEW ask \in Asked, NEW q, q = ask[1], NEW o
  PROVE  /\ Passing(Strict(q), o) # {} => Hits(q, o) = Strict(q)
         /\ Passing(Hits(q, o), o) = {} <=> Passing(Partial(q), o) = {}
<1> DEFINE Finds(s) == Passing(Strict(s), o) # {}
           shorter == {k \in Spare(q) : Finds(LessTerm(q, k))}
<1>1. q \in Seq(Range(q))
  BY TablesAssumption
<1>2. Strict(q) \subseteq Partial(q)
  BY DEF Strict, Partial
<1>3. \A k \in Spare(q) : Strict(LessTerm(q, k)) \subseteq Partial(q)
  <2> SUFFICES ASSUME NEW k \in Spare(q) PROVE Strict(LessTerm(q, k)) \subseteq Partial(q)
    OBVIOUS
  <2>1. Range(LessTerm(q, k)) \subseteq Range(q)
    BY <1>1, LessTermRange DEF Spare
  <2>2. Content(LessTerm(q, k)) \subseteq Content(q)
    BY <2>1 DEF Content
  <2> QED
    BY <2>2 DEF Strict, Partial
<1>4. shorter # {} => Min(shorter) \in shorter
  <2>1. shorter \in SUBSET Nat
    BY <1>1 DEF Spare
  <2> QED
    BY <2>1, MinIsThere
<1>5. Hits(q, o) = CASE Finds(q) -> Strict(q)
                     [] ~Finds(q) /\ shorter # {} -> Strict(LessTerm(q, Min(shorter)))
                     [] OTHER -> Partial(q)
  BY DEF Hits
<1>6. CASE Finds(q)
  <2>1. Hits(q, o) = Strict(q)
    BY <1>5, <1>6
  <2> QED
    BY <1>2, <1>6, <2>1 DEF Passing
<1>7. CASE ~Finds(q) /\ shorter # {}
  <2>1. Hits(q, o) = Strict(LessTerm(q, Min(shorter)))
    BY <1>5, <1>7
  <2>2. Min(shorter) \in Spare(q) /\ Finds(LessTerm(q, Min(shorter)))
    BY <1>4, <1>7
  <2> QED
    BY <1>3, <1>7, <2>1, <2>2 DEF Passing
<1>8. CASE ~Finds(q) /\ shorter = {}
  <2>1. Hits(q, o) = Partial(q)
    BY <1>5, <1>8
  <2> QED
    BY <1>8, <2>1
<1> QED
  BY <1>6, <1>7, <1>8

\* The answer is one that the recall it is of may give.
AnswerInv ==
  /\ table \in Tables
  /\ answer = Anything \/ \E ask \in Asked :
       /\ answer.query = ask[1] /\ answer.options = ask[2]
       /\ \E C \in Selections(Hits(ask[1], ask[2]), ask[2]) : answer.results \in Best(C, ask[1], ask[2].limit)

LEMMA AnswerRight ==
  ASSUME AnswerInv
  PROVE  RecallAnswers
<1> SUFFICES ASSUME answer # Anything
             PROVE  /\ answer.results = {} <=> Passing(Partial(answer.query), answer.options) = {}
                    /\ RecallBest
  BY DEF RecallAnswers, RecallFinds, RecallBest
<1>1. PICK ask \in Asked :
        /\ answer.query = ask[1] /\ answer.options = ask[2]
        /\ \E C \in Selections(Hits(ask[1], ask[2]), ask[2]) : answer.results \in Best(C, ask[1], ask[2].limit)
  BY Zenon DEF AnswerInv
<1> DEFINE q == ask[1]
           o == ask[2]
           passing == Passing(Hits(q, o), o)
           strict == Passing(Strict(q), o)
           results == answer.results
<1>2. PICK C \in kSubset(Min({CandidateLimit, Cardinality(passing)}), passing) : results \in Best(C, q, o.limit)
  BY <1>1 DEF Selections
<1>3. /\ results \in kSubset(Min({o.limit, Cardinality(C)}), C)
      /\ \A kept \in results, left \in C \ results : Score(kept, q) >= Score(left, q)
  BY <1>2 DEF Best
<1>4. passing \in SUBSET table /\ strict \in SUBSET table
  BY DEF Passing, Hits, Strict, Partial
<1>5. IsFiniteSet(passing)
  BY <1>4, TablesAssumption, FS_Subset DEF AnswerInv
<1>6. CandidateLimit \in Nat \ {0} /\ o.limit \in Nat \ {0}
  BY LimitAssumption
<1>7. /\ strict # {} => Hits(q, o) = Strict(q)
      /\ passing = {} <=> Passing(Partial(q), o) = {}
  BY HitsFindAll
<1>8. strict # {} => passing = strict
  BY <1>7
<1> HIDE DEF passing, strict, q, o
<1>9. /\ C \subseteq passing /\ IsFiniteSet(C)
      /\ C = {} <=> passing = {}
      /\ Cardinality(passing) <= CandidateLimit => C = passing
  BY <1>2, <1>5, <1>6, Fitted
<1>10. results \subseteq C /\ (results = {} <=> C = {})
  BY <1>3, <1>6, <1>9, Fitted
<1>11. Cardinality(results) = Min({o.limit, Cardinality(C)})
  BY <1>3 DEF kSubset
<1>12. RecallBest
  <2> SUFFICES ASSUME strict # {}
               PROVE  /\ results \subseteq strict
                      /\ Cardinality(strict) <= CandidateLimit =>
                           /\ Cardinality(results) = Min({o.limit, Cardinality(strict)})
                           /\ \A kept \in results, left \in strict \ results : Score(kept, q) >= Score(left, q)
    BY <1>1 DEF RecallBest, strict, q, o
  <2> QED
    BY <1>3, <1>8, <1>9, <1>10, <1>11
<1> QED
  BY <1>1, <1>7, <1>9, <1>10, <1>12 DEF q, o

(* Over any store, for any query and options: a recall is empty only if     *)
(* nothing that its filters let through has a word of the query, and its    *)
(* answer is the best of what has them all.                                *)
THEOREM RecallsAnswer == Spec => []RecallAnswers
<1>1. Init => AnswerInv
  BY DEF Init, AnswerInit, AnswerInv
<1>2. AnswerInv /\ [Next]_vars => AnswerInv'
  <2> SUFFICES ASSUME AnswerInv, [Next]_vars PROVE AnswerInv'
    OBVIOUS
  <2>1. CASE UNCHANGED answerVars
    <3>1. table' = table /\ answer' = answer
      BY <2>1 DEF answerVars
    <3>2. \A q, o : Selections(Hits(q, o), o)' = Selections(Hits(q, o), o)
      BY <3>1 DEF Selections, Hits, Passing, Strict, Partial
    <3> QED
      BY <3>1, <3>2, Zenon DEF AnswerInv
  <2>2. CASE AnswerNext
    <3>1. PICK ask \in Asked : Recall(ask[1], ask[2])
      BY <2>2 DEF AnswerNext
    <3>2. PICK C \in Selections(Hits(ask[1], ask[2]), ask[2]) : \E R \in Best(C, ask[1], ask[2].limit) :
            answer' = [query |-> ask[1], options |-> ask[2], results |-> R]
      BY <3>1 DEF Recall
    <3>3. table' = table
      BY <3>1 DEF Recall
    <3>4. Selections(Hits(ask[1], ask[2]), ask[2])' = Selections(Hits(ask[1], ask[2]), ask[2])
      BY <3>3 DEF Selections, Hits, Passing, Strict, Partial
    <3>5. /\ answer'.query = ask[1] /\ answer'.options = ask[2]
          /\ answer'.results \in Best(C, ask[1], ask[2].limit)
      BY <3>2
    <3> QED
      BY <3>2, <3>3, <3>4, <3>5 DEF AnswerInv
  <2> QED
    BY <2>1, <2>2 DEF Next, vars
<1>3. AnswerInv => RecallAnswers
  BY AnswerRight
<1> QED
  BY <1>1, <1>2, <1>3, PTL DEF Spec

----
(***************************************************************************)
(* PreflightContext: the brief of any request, from any shelf.             *)
(***************************************************************************)

\* Induction, for a set.
LEMMA StepByStep ==
  ASSUME NEW S, 0 \in S, \A n \in Nat : n \in S => n + 1 \in S
  PROVE  Nat \subseteq S
<1> DEFINE R == OpToRel(<, Nat)
           D == Nat \ S
<1>1. IsWellFoundedOn(R, Nat)
  BY Zenon, NatLessThanWellFounded
<1> SUFFICES ASSUME D # {} PROVE FALSE
  OBVIOUS
<1> HIDE DEF R
<1>2. PICK d \in D : \A e \in D : ~(<<e, d>> \in R)
  <2>1. D \subseteq Nat
    OBVIOUS
  <2> HIDE DEF D
  <2> QED
    BY <1>1, <2>1, WFMin
<1>3. \A e \in D : ~(e < d)
  BY <1>2, Zenon DEF R, OpToRel
<1>4. d \in Nat /\ d # 0 /\ d - 1 \in Nat
  OBVIOUS
<1>5. d - 1 \in S
  BY <1>3, <1>4
<1> QED
  BY <1>4, <1>5

(* The length of a brief, memory by memory. *)
LEMMA LinesSteps ==
  ASSUME NEW T, NEW notes \in Seq(T)
  PROVE  \E upto :
           /\ upto[0] = 0
           /\ \A k \in 1 .. Len(notes) : upto[k] = upto[k - 1] + notes[k].line
           /\ Lines(notes) = upto[Len(notes)]
<1> DEFINE Prolong(f, k) == IF k = 0 THEN 0 ELSE f[k - 1] + notes[k].line
           Good == {n \in Nat : \E f : f = [k \in 0 .. n |-> Prolong(f, k)]}
           upto[k \in 0 .. Len(notes)] == IF k = 0 THEN 0 ELSE upto[k - 1] + notes[k].line
<1>1. 0 \in Good
  <2> DEFINE f == [k \in 0 .. 0 |-> 0]
  <2>1. f = [k \in 0 .. 0 |-> Prolong(f, k)]
    OBVIOUS
  <2> QED
    BY <2>1
<1>2. ASSUME NEW n \in Nat, n \in Good PROVE n + 1 \in Good
  <2>1. PICK f : f = [k \in 0 .. n |-> Prolong(f, k)]
    BY <1>2
  <2> DEFINE g == [k \in 0 .. n + 1 |-> IF k = n + 1 THEN Prolong(f, n + 1) ELSE f[k]]
  <2>2. ASSUME NEW k \in 0 .. n + 1 PROVE g[k] = Prolong(g, k)
    <3>1. CASE k = 0
      <4>1. f[0] = Prolong(f, 0)
        BY <2>1
      <4> QED
        BY <3>1, <4>1
    <3>2. CASE k # 0
      <4>1. k - 1 \in 0 .. n /\ k - 1 # n + 1
        BY <3>2
      <4>2. g[k - 1] = f[k - 1]
        BY <4>1
      <4>3. g[k] = Prolong(f, k)
        <5>1. CASE k = n + 1
          BY <5>1
        <5>2. CASE k # n + 1
          <6>1. k \in 0 .. n
            BY <5>2
          <6>2. f[k] = Prolong(f, k)
            <7> HIDE DEF Prolong
            <7> QED
              BY <2>1, <6>1
          <6> QED
            BY <5>2, <6>2
        <5> QED
          BY <5>1, <5>2
      <4> HIDE DEF g
      <4> QED
        BY <3>2, <4>2, <4>3
    <3> QED
      BY <3>1, <3>2
  <2>3. g = [k \in 0 .. n + 1 |-> Prolong(g, k)]
    <3>1. g = [k \in 0 .. n + 1 |-> g[k]]
      OBVIOUS
    <3> HIDE DEF g, Prolong
    <3> QED
      BY <2>2, <3>1
  <2> HIDE DEF g, Prolong
  <2> QED
    BY <2>3
<1>3. Nat \subseteq Good
  <2> HIDE DEF Good
  <2> QED
    BY <1>1, <1>2, StepByStep
<1>4. \E f : f = [k \in 0 .. Len(notes) |-> Prolong(f, k)]
  <2>1. Len(notes) \in Nat
    OBVIOUS
  <2> QED
    BY <1>3, <2>1
<1>5. upto = [k \in 0 .. Len(notes) |-> Prolong(upto, k)]
  BY <1>4
<1>6. Lines(notes) = upto[Len(notes)]
  BY DEF Lines
<1> HIDE DEF upto
<1>7. Len(notes) \in Nat
  OBVIOUS
<1>8. upto[0] = 0
  BY <1>5, <1>7
<1>9. ASSUME NEW k \in 1 .. Len(notes) PROVE upto[k] = upto[k - 1] + notes[k].line
  <2>1. k \in 0 .. Len(notes) /\ k # 0
    BY <1>7
  <2>2. upto[k] = Prolong(upto, k)
    <3> HIDE DEF Prolong
    <3> QED
      BY <1>5, <2>1
  <2> QED
    BY <2>1, <2>2
<1> QED
  BY <1>6, <1>8, <1>9

\* One more memory, if it may be shown and fits.
Fit(state, m) ==
  IF m.says = "plain" /\ m.line <= state.room
  THEN [kept |-> Append(state.kept, m), room |-> state.room - m.line] ELSE state

(* The filling of a brief, memory by memory. *)
LEMMA FittingSteps ==
  ASSUME NEW T, NEW results \in Seq(T)
  PROVE  \E fit :
           /\ fit[0] = [kept |-> <<>>, room |-> Room]
           /\ \A k \in 1 .. Len(results) : fit[k] = Fit(fit[k - 1], results[k])
           /\ Fitting(results) = fit[Len(results)].kept
<1> DEFINE Prolong(f, k) == IF k = 0 THEN [kept |-> <<>>, room |-> Room] ELSE Fit(f[k - 1], results[k])
           Good == {n \in Nat : \E f : f = [k \in 0 .. n |-> Prolong(f, k)]}
           fit[k \in 0 .. Len(results)] == IF k = 0 THEN [kept |-> <<>>, room |-> Room] ELSE Fit(fit[k - 1], results[k])
<1>1. 0 \in Good
  <2> DEFINE f == [k \in 0 .. 0 |-> [kept |-> <<>>, room |-> Room]]
  <2>1. f = [k \in 0 .. 0 |-> Prolong(f, k)]
    OBVIOUS
  <2> QED
    BY <2>1
<1>2. ASSUME NEW n \in Nat, n \in Good PROVE n + 1 \in Good
  <2>1. PICK f : f = [k \in 0 .. n |-> Prolong(f, k)]
    BY <1>2
  <2> DEFINE g == [k \in 0 .. n + 1 |-> IF k = n + 1 THEN Prolong(f, n + 1) ELSE f[k]]
  <2>2. ASSUME NEW k \in 0 .. n + 1 PROVE g[k] = Prolong(g, k)
    <3>1. CASE k = 0
      <4>1. f[0] = Prolong(f, 0)
        BY <2>1
      <4> QED
        BY <3>1, <4>1
    <3>2. CASE k # 0
      <4>1. k - 1 \in 0 .. n /\ k - 1 # n + 1
        BY <3>2
      <4>2. g[k - 1] = f[k - 1]
        BY <4>1
      <4>3. g[k] = Prolong(f, k)
        <5>1. CASE k = n + 1
          BY <5>1
        <5>2. CASE k # n + 1
          <6>1. k \in 0 .. n
            BY <5>2
          <6>2. f[k] = Prolong(f, k)
            <7> HIDE DEF Prolong
            <7> QED
              BY <2>1, <6>1
          <6> QED
            BY <5>2, <6>2
        <5> QED
          BY <5>1, <5>2
      <4> HIDE DEF g
      <4> QED
        BY <3>2, <4>2, <4>3
    <3> QED
      BY <3>1, <3>2
  <2>3. g = [k \in 0 .. n + 1 |-> Prolong(g, k)]
    <3>1. g = [k \in 0 .. n + 1 |-> g[k]]
      OBVIOUS
    <3> HIDE DEF g, Prolong
    <3> QED
      BY <2>2, <3>1
  <2> HIDE DEF g, Prolong
  <2> QED
    BY <2>3
<1>3. Nat \subseteq Good
  <2> HIDE DEF Good
  <2> QED
    BY <1>1, <1>2, StepByStep
<1>4. \E f : f = [k \in 0 .. Len(results) |-> Prolong(f, k)]
  <2>1. Len(results) \in Nat
    OBVIOUS
  <2> QED
    BY <1>3, <2>1
<1>5. fit = [k \in 0 .. Len(results) |-> Prolong(fit, k)]
  BY <1>4
<1>6. Fitting(results) = fit[Len(results)].kept
  BY DEF Fitting, Fit
<1> HIDE DEF fit
<1>7. Len(results) \in Nat
  OBVIOUS
<1>8. fit[0] = [kept |-> <<>>, room |-> Room]
  BY <1>5, <1>7
<1>9. ASSUME NEW k \in 1 .. Len(results) PROVE fit[k] = Fit(fit[k - 1], results[k])
  <2>1. k \in 0 .. Len(results) /\ k # 0
    BY <1>7
  <2>2. fit[k] = Prolong(fit, k)
    <3> HIDE DEF Prolong
    <3> QED
      BY <1>5, <2>1
  <2> QED
    BY <2>1, <2>2
<1> QED
  BY <1>6, <1>8, <1>9

\* A brief of nothing takes no room.
LEMMA LinesOfNone == Lines(<<>>) = 0
<1> DEFINE empty == <<>>
<1>1. empty \in Seq({}) /\ Len(empty) = 0
  OBVIOUS
<1> HIDE DEF empty
<1>2. Lines(empty) = 0
  BY <1>1, LinesSteps
<1> QED
  BY <1>2 DEF empty

\* A brief is as long as what it was made of.
LEMMA LinesAppend ==
  ASSUME NEW T, \A m \in T : m.line \in Nat, NEW notes \in Seq(T), NEW last_note \in T
  PROVE  /\ Lines(notes) \in Nat
         /\ Lines(Append(notes, last_note)) = Lines(notes) + last_note.line
<1> DEFINE more == Append(notes, last_note)
           n == Len(notes)
<1>1. /\ n \in Nat /\ more \in Seq(T) /\ Len(more) = n + 1 /\ more[n + 1] = last_note
      /\ \A k \in 1 .. n : more[k] = notes[k] /\ notes[k] \in T
  OBVIOUS
<1>2. PICK few : /\ few[0] = 0
                 /\ \A k \in 1 .. Len(notes) : few[k] = few[k - 1] + notes[k].line
                 /\ Lines(notes) = few[Len(notes)]
  BY LinesSteps
<1> HIDE DEF more
<1>3. PICK many : /\ many[0] = 0
                  /\ \A k \in 1 .. Len(more) : many[k] = many[k - 1] + more[k].line
                  /\ Lines(more) = many[Len(more)]
  BY <1>1, LinesSteps
<1> DEFINE S == {k \in Nat : k <= n => few[k] \in Nat /\ many[k] = few[k]}
<1>4. 0 \in S
  BY <1>2, <1>3
<1>5. ASSUME NEW k \in Nat, k \in S PROVE k + 1 \in S
  <2> SUFFICES ASSUME k + 1 <= n PROVE few[k + 1] \in Nat /\ many[k + 1] = few[k + 1]
    OBVIOUS
  <2>1. few[k] \in Nat /\ many[k] = few[k] /\ k + 1 \in 1 .. Len(notes) /\ k + 1 \in 1 .. Len(more) /\ (k + 1) - 1 = k
    BY <1>1, <1>5
  <2>2. few[k + 1] = few[k] + notes[k + 1].line
    BY <1>2, <2>1
  <2>3. many[k + 1] = many[k] + more[k + 1].line
    BY <1>3, <2>1
  <2>4. more[k + 1] = notes[k + 1] /\ notes[k + 1].line \in Nat
    BY <1>1, <2>1
  <2> QED
    BY <2>1, <2>2, <2>3, <2>4
<1>6. Nat \subseteq S
  <2> HIDE DEF S
  <2> QED
    BY <1>4, <1>5, StepByStep
<1>7. few[n] \in Nat /\ many[n] = few[n]
  BY <1>1, <1>6
<1>8. many[n + 1] = many[n] + last_note.line
  <2>1. n + 1 \in 1 .. Len(more) /\ (n + 1) - 1 = n
    BY <1>1
  <2> QED
    BY <1>1, <1>3, <2>1
<1> QED
  BY <1>1, <1>2, <1>3, <1>7, <1>8 DEF more

\* What a brief holds, and leaves out, of the first k results; W is what they are worth.
Filled(state, results, k, W) ==
  /\ state.kept \in Seq(Range(results)) /\ state.room \in Nat /\ Lines(state.kept) + state.room = Room
  /\ \A i \in 1 .. Len(state.kept) : \E j \in 1 .. k : state.kept[i] = results[j] /\ results[j].says = "plain"
  /\ \A i \in 2 .. Len(state.kept) : W[state.kept[i - 1]] >= W[state.kept[i]]
  /\ \A j \in 1 .. k :
       results[j].says = "plain" =>
         (\E i \in 1 .. Len(state.kept) : state.kept[i] = results[j]) \/ results[j].line > state.room

\* One more result keeps it so.
LEMMA FitFills ==
  ASSUME NEW T, \A m \in T : m.line \in Nat, NEW results \in Seq(T), NEW W \in [T -> Int],
         \A i, j \in 1 .. Len(results) : i < j => W[results[i]] >= W[results[j]],
         NEW k \in 1 .. Len(results), NEW state, Filled(state, results, k - 1, W)
  PROVE  Filled(Fit(state, results[k]), results, k, W)
<1> DEFINE m == results[k]
           U == Range(results)
           kept == state.kept
<1>1. \A j \in 1 .. Len(results) : results[j] \in U /\ results[j] \in T /\ results[j].line \in Nat
  BY DEF Range
<1>2. U \subseteq T /\ \A u \in U : u.line \in Nat
  BY DEF Range
<1>3. kept \in Seq(U) /\ state.room \in Nat /\ Lines(kept) + state.room = Room /\ Len(results) \in Nat
  BY DEF Filled
<1>4. m \in U /\ m \in T /\ m.line \in Nat /\ W[m] \in Int
  BY <1>1
<1> HIDE DEF U
<1>5. CASE m.says = "plain" /\ m.line <= state.room
  <2> DEFINE next == Fit(state, m)
             more == Append(kept, m)
  <2>1. next.kept = more /\ next.room = state.room - m.line
    BY <1>5 DEF Fit
  <2>2. /\ more \in Seq(U) /\ Len(more) = Len(kept) + 1 /\ more[Len(kept) + 1] = m /\ Len(kept) \in Nat
        /\ \A i \in 1 .. Len(kept) : more[i] = kept[i] /\ kept[i] \in U
    BY <1>3, <1>4
  <2>3. Lines(more) = Lines(kept) + m.line /\ Lines(kept) \in Nat
    BY <1>2, <1>3, <1>4, LinesAppend, Zenon
  <2> HIDE DEF m, kept, more
  <2>4. next.kept \in Seq(U) /\ next.room \in Nat /\ Lines(next.kept) + next.room = Room
    <3>1. next.kept \in Seq(U) /\ Lines(next.kept) = Lines(kept) + m.line
      BY <2>1, <2>2, <2>3, Zenon
    <3>2. /\ m.line \in Nat /\ state.room \in Nat /\ m.line <= state.room /\ Lines(kept) + state.room = Room
          /\ next.room = state.room - m.line
      BY <1>3, <1>4, <1>5, <2>1, Zenon
    <3> HIDE DEF next
    <3>3. next.room \in Nat /\ Lines(next.kept) + next.room = Room
      BY <2>3, <3>1, <3>2, SMTT(30)
    <3> QED
      BY <3>1, <3>3
  <2>5. ASSUME NEW i \in 1 .. Len(more) PROVE \E j \in 1 .. k : more[i] = results[j] /\ results[j].says = "plain"
    <3>1. CASE i \in 1 .. Len(kept)
      <4>1. PICK j \in 1 .. k - 1 : kept[i] = results[j] /\ results[j].says = "plain"
        BY <3>1 DEF Filled, kept
      <4>2. j \in 1 .. k
        OBVIOUS
      <4> QED
        BY <2>2, <3>1, <4>1, <4>2
    <3>2. CASE i = Len(kept) + 1
      <4>1. k \in 1 .. k
        OBVIOUS
      <4> QED
        BY <1>5, <2>2, <3>2, <4>1 DEF m
    <3> QED
      BY <2>2, <3>1, <3>2
  <2>6. ASSUME NEW i \in 2 .. Len(more) PROVE W[more[i - 1]] >= W[more[i]]
    <3>1. CASE i \in 2 .. Len(kept)
      <4>1. i \in 1 .. Len(kept) /\ i - 1 \in 1 .. Len(kept)
        BY <3>1, <2>2
      <4>2. more[i - 1] = kept[i - 1] /\ more[i] = kept[i]
        BY <2>2, <4>1
      <4>3. W[kept[i - 1]] >= W[kept[i]]
        BY <3>1 DEF Filled, kept
      <4> QED
        BY <4>2, <4>3
    <3>2. CASE i = Len(kept) + 1
      <4>1. i - 1 \in 1 .. Len(kept) /\ i - 1 = Len(kept)
        BY <3>2, <2>2
      <4>2. PICK j \in 1 .. k - 1 : kept[i - 1] = results[j]
        BY <4>1 DEF Filled, kept
      <4>3. j \in 1 .. Len(results) /\ j < k
        BY <1>3
      <4>4. W[results[j]] >= W[results[k]]
        BY <4>3
      <4> QED
        BY <2>2, <3>2, <4>1, <4>2, <4>4 DEF m
    <3> QED
      BY <2>2, <3>1, <3>2
  <2>7. ASSUME NEW j \in 1 .. k, results[j].says = "plain"
        PROVE  (\E i \in 1 .. Len(more) : more[i] = results[j]) \/ results[j].line > next.room
    <3>1. CASE j = k
      <4>1. Len(kept) + 1 \in 1 .. Len(more)
        BY <2>2
      <4> QED
        BY <2>2, <3>1, <4>1 DEF m
    <3>2. CASE j # k
      <4>1. j \in 1 .. k - 1 /\ j \in 1 .. Len(results)
        BY <1>3, <3>2
      <4>2. (\E i \in 1 .. Len(kept) : kept[i] = results[j]) \/ results[j].line > state.room
        BY <2>7, <4>1 DEF Filled, kept
      <4>3. CASE \E i \in 1 .. Len(kept) : kept[i] = results[j]
        <5>1. PICK i \in 1 .. Len(kept) : kept[i] = results[j]
          BY <4>3
        <5>2. i \in 1 .. Len(more) /\ more[i] = results[j]
          BY <2>2, <5>1
        <5> QED
          BY <5>2
      <4>4. CASE results[j].line > state.room
        <5>1. results[j].line \in Nat /\ m.line \in Nat /\ state.room \in Nat
          BY <1>1, <1>3, <1>4, <4>1, Zenon
        <5>2. next.room = state.room - m.line
          BY <2>1
        <5> HIDE DEF next
        <5> QED
          BY <4>4, <5>1, <5>2, SMTT(30)
      <4> QED
        BY <4>2, <4>3, <4>4
    <3> QED
      BY <3>1, <3>2
  <2> HIDE DEF next
  <2>8. Filled(next, results, k, W)
    BY <2>1, <2>4, <2>5, <2>6, <2>7, Zenon DEF Filled, U
  <2> QED
    BY <2>8 DEF next, m
<1>6. CASE ~(m.says = "plain" /\ m.line <= state.room)
  <2>1. Fit(state, m) = state
    BY <1>6 DEF Fit
  <2>2. \A i \in 1 .. Len(kept) : \E j \in 1 .. k : kept[i] = results[j] /\ results[j].says = "plain"
    <3>1. \A i \in 1 .. Len(kept) : \E j \in 1 .. k - 1 : kept[i] = results[j] /\ results[j].says = "plain"
      BY DEF Filled
    <3>2. 1 .. k - 1 \subseteq 1 .. k
      OBVIOUS
    <3> HIDE DEF kept
    <3> QED
      BY <3>1, <3>2, Zenon
  <2>3. ASSUME NEW j \in 1 .. k, results[j].says = "plain"
        PROVE  (\E i \in 1 .. Len(kept) : kept[i] = results[j]) \/ results[j].line > state.room
    <3>1. CASE j = k
      BY <1>3, <1>4, <1>6, <2>3, <3>1
    <3>2. CASE j # k
      <4>1. j \in 1 .. k - 1
        BY <3>2
      <4> QED
        BY <2>3, <4>1 DEF Filled
    <3> QED
      BY <3>1, <3>2
  <2>4. Filled(state, results, k, W)
    BY <2>2, <2>3, Zenon DEF Filled
  <2> QED
    BY <2>1, <2>4
<1> QED
  BY <1>5, <1>6

(* A brief is within its room and in the order of the results, has only     *)
(* what may be shown, and leaves out only what would not fit even now.      *)
LEMMA FittingRight ==
  ASSUME NEW T, \A m \in T : m.line \in Nat, NEW results \in Seq(T), NEW W \in [T -> Int],
         \A i, j \in 1 .. Len(results) : i < j => W[results[i]] >= W[results[j]]
  PROVE  LET kept == Fitting(results)
         IN  /\ kept \in Seq(Range(results)) /\ Lines(kept) \in Nat /\ Lines(kept) <= Room
             /\ \A m \in Range(kept) : m.says = "plain"
             /\ \A i \in 2 .. Len(kept) : W[kept[i - 1]] >= W[kept[i]]
             /\ \A m \in Range(results) \ Range(kept) : m.says = "plain" => m.line > Room - Lines(kept)
<1>1. PICK fit : /\ fit[0] = [kept |-> <<>>, room |-> Room]
                 /\ \A k \in 1 .. Len(results) : fit[k] = Fit(fit[k - 1], results[k])
                 /\ Fitting(results) = fit[Len(results)].kept
  BY FittingSteps
<1>2. Len(results) \in Nat /\ Range(results) \subseteq T /\ Room \in Nat
  BY BriefAssumption DEF Range
<1> DEFINE S == {k \in Nat : k <= Len(results) => Filled(fit[k], results, k, W)}
<1>3. 0 \in S
  <2>1. fit[0].kept = <<>> /\ fit[0].room = Room
    BY <1>1
  <2>2. Lines(<<>>) = 0
    BY LinesOfNone
  <2>3. Len(<<>>) = 0 /\ <<>> \in Seq(Range(results))
    OBVIOUS
  <2>4. Filled(fit[0], results, 0, W)
    BY <1>2, <2>1, <2>2, <2>3 DEF Filled
  <2> QED
    BY <2>4
<1>4. ASSUME NEW k \in Nat, k \in S PROVE k + 1 \in S
  <2> SUFFICES ASSUME k + 1 <= Len(results) PROVE Filled(fit[k + 1], results, k + 1, W)
    OBVIOUS
  <2>1. k + 1 \in 1 .. Len(results) /\ (k + 1) - 1 = k /\ Filled(fit[k], results, k, W)
    BY <1>2, <1>4
  <2>2. fit[k + 1] = Fit(fit[k], results[k + 1])
    BY <1>1, <2>1
  <2> DEFINE n == k + 1
             state == fit[k]
  <2>3. n \in 1 .. Len(results) /\ Filled(state, results, n - 1, W)
    BY <2>1
  <2> HIDE DEF n, state
  <2>4. Filled(Fit(state, results[n]), results, n, W)
    BY <2>3, FitFills
  <2> QED
    BY <2>2, <2>4 DEF n, state
<1>5. Nat \subseteq S
  <2> HIDE DEF S
  <2> QED
    BY <1>3, <1>4, StepByStep
<1> DEFINE kept == Fitting(results)
           state == fit[Len(results)]
<1>6. Filled(state, results, Len(results), W) /\ kept = state.kept
  BY <1>1, <1>2, <1>5
<1> HIDE DEF kept, state
<1>7. kept \in Seq(Range(results)) /\ state.room \in Nat /\ Lines(kept) + state.room = Room
  BY <1>6 DEF Filled
<1>8. Lines(kept) \in Nat
  <2>1. \A m \in Range(results) : m.line \in Nat
    BY <1>2
  <2>2. CASE Range(results) = {}
    <3>1. kept = <<>>
      BY <1>7, <2>2
    <3>2. Lines(kept) = 0
      BY <3>1, LinesOfNone
    <3> QED
      BY <3>2
  <2>3. CASE Range(results) # {}
    <3>1. PICK r \in Range(results) : TRUE
      BY <2>3
    <3> DEFINE U == Range(results)
    <3>2. (\A m \in U : m.line \in Nat) /\ kept \in Seq(U) /\ r \in U
      BY <1>7, <2>1
    <3> HIDE DEF U
    <3> QED
      BY <3>2, LinesAppend
  <2> QED
    BY <2>2, <2>3
<1>12. DOMAIN kept = 1 .. Len(kept)
  BY <1>7
<1>9. \A m \in Range(kept) : m.says = "plain"
  <2>1. ASSUME NEW i \in 1 .. Len(kept) PROVE kept[i].says = "plain"
    BY <1>6 DEF Filled
  <2> QED
    BY <1>12, <2>1 DEF Range
<1>10. \A i \in 2 .. Len(kept) : W[kept[i - 1]] >= W[kept[i]]
  BY <1>6 DEF Filled
<1>11. \A m \in Range(results) \ Range(kept) : m.says = "plain" => m.line > Room - Lines(kept)
  <2> SUFFICES ASSUME NEW j \in 1 .. Len(results), results[j] \notin Range(kept), results[j].says = "plain"
               PROVE  results[j].line > Room - Lines(kept)
    BY DEF Range
  <2>1. \A i \in 1 .. Len(kept) : kept[i] # results[j]
    BY <1>12 DEF Range
  <2>2. results[j].line > state.room
    BY <1>6, <2>1 DEF Filled
  <2>3. results[j].line \in Nat
    BY <1>2
  <2> QED
    BY <1>7, <1>8, <1>2, <2>2, <2>3
<1> QED
  BY <1>2, <1>7, <1>8, <1>9, <1>10, <1>11 DEF kept

\* The least of two numbers.
LEMMA LeastOfTwo ==
  ASSUME NEW n \in Nat, NEW k \in Nat
  PROVE  Min({n, k}) = IF n <= k THEN n ELSE k
<1> DEFINE least == IF n <= k THEN n ELSE k
<1>1. least \in {n, k} /\ \A y \in {n, k} : least =< y
  OBVIOUS
<1>2. \A x \in {n, k} : (\A y \in {n, k} : x =< y) => x = least
  OBVIOUS
<1> HIDE DEF least
<1>3. Min({n, k}) = least
  BY <1>1, <1>2 DEF Min
<1> QED
  BY <1>3 DEF least

\* What a memory is worth to a request is a number.
LEMMA WorthIsNumber ==
  ASSUME NEW S \in Shelves, NEW m \in S, NEW q, q \in Seq(Range(q))
  PROVE  Worth(m, q) \in Int
<1>1. m.salience \in Int /\ m.confidence \in Int /\ m.age \in DOMAIN Recency /\ m.source \in DOMAIN Authority
  BY ShelvesAssumption
<1>2. Recency[m.age] \in Int /\ Authority[m.source] \in Int
  BY <1>1 DEF Recency, Authority
<1> DEFINE recency == Recency[m.age]
           authority == Authority[m.source]
           boost == RingBoost(m, q)
           startup == CASE m.ring = "scar" -> 2000 [] m.ring = "heartwood" -> 1500 [] OTHER -> 0
           match == TextualMatch(m, q)
           length == Len(q)
<1>3. boost \in Int
  BY DEF RingBoost
<1>4. startup \in Int
  OBVIOUS
<1>5. match \in Int
  <2>1. DOMAIN q = 1 .. Len(q) /\ Len(q) \in Nat
    OBVIOUS
  <2>2. IsFiniteSet(1 .. Len(q))
    BY <2>1, FS_Interval
  <2> DEFINE D == 1 .. Len(q)
             M == {k \in DOMAIN q : q[k] \in m.text}
  <2>3. M \in SUBSET D
    BY <2>1
  <2> HIDE DEF M, D
  <2>4. IsFiniteSet(M)
    BY <2>2, <2>3, FS_Subset DEF D
  <2> QED
    BY <2>4, FS_CardinalityType DEF TextualMatch, M
<1>6. length \in Int
  OBVIOUS
<1>7. Worth(m, q) = IF q # <<>>
                    THEN 2500 * match + length * (25 * m.salience + 25 * m.confidence + 20 * recency + 5 * authority + 100 * boost)
                    ELSE 25 * m.salience + 25 * m.confidence + 20 * recency + 5 * authority + startup
  BY DEF Worth, Score
<1>8. recency \in Int /\ authority \in Int
  BY <1>2
<1> HIDE DEF recency, authority, boost, startup, match, length
<1> DEFINE factor == 25 * m.salience + 25 * m.confidence + 20 * recency + 5 * authority + 100 * boost
<1>9. factor \in Int
  BY <1>1, <1>3, <1>8, SMTT(30)
<1>10. length * factor \in Int
  <2> HIDE DEF factor
  <2> QED
    BY <1>6, <1>9
<1>11. 2500 * match + length * factor \in Int
  <2> DEFINE product == length * factor
  <2>1. product \in Int
    BY <1>10
  <2> HIDE DEF product, factor
  <2>2. 2500 * match + product \in Int
    BY <1>5, <2>1
  <2> QED
    BY <2>2 DEF product
<1>12. 25 * m.salience + 25 * m.confidence + 20 * recency + 5 * authority + startup \in Int
  BY <1>1, <1>4, <1>8, SMTT(30)
<1> DEFINE hit == 2500 * match + length * factor
           first == 25 * m.salience + 25 * m.confidence + 20 * recency + 5 * authority + startup
<1>13. hit \in Int /\ first \in Int
  BY <1>11, <1>12
<1>14. Worth(m, q) = IF q # <<>> THEN hit ELSE first
  BY <1>7
<1> HIDE DEF hit, first
<1> QED
  BY <1>13, <1>14

\* Which of two memories is ahead: the one that is worth more, or has the smaller id.
LEMMA AheadIs ==
  ASSUME NEW S \in Shelves, NEW m \in S, NEW n \in S, NEW q, q \in Seq(Range(q))
  PROVE  Ahead(m, n, q) <=>
           \/ Worth(m, q) > Worth(n, q)
           \/ Worth(m, q) = Worth(n, q) /\ m.id < n.id
<1> DEFINE a == Worth(m, q)
           b == Worth(n, q)
<1>1. a \in Int /\ b \in Int
  BY WorthIsNumber
<1>2. m.id \in Int /\ n.id \in Int
  BY ShelvesAssumption
<1>3. Ahead(m, n, q) <=> Before(<<-a, m.id>>, <<-b, n.id>>)
  BY DEF Ahead
<1> HIDE DEF a, b
<1>4. Before(<<-a, m.id>>, <<-b, n.id>>) <=> -a < -b \/ (-a = -b /\ m.id < n.id)
  <2> DEFINE key == <<-a, m.id>>
             other == <<-b, n.id>>
  <2>1. DOMAIN key = {1, 2} /\ key[1] = -a /\ key[2] = m.id /\ other[1] = -b /\ other[2] = n.id
    OBVIOUS
  <2> HIDE DEF key, other
  <2>2. Before(key, other) <=> \E k \in {1, 2} : key[k] < other[k] /\ \A j \in 1 .. k - 1 : key[j] = other[j]
    BY <2>1 DEF Before
  <2>3. 1 .. 1 - 1 = {} /\ 1 .. 2 - 1 = {1}
    OBVIOUS
  <2>4. Before(key, other) <=> key[1] < other[1] \/ (key[2] < other[2] /\ key[1] = other[1])
    BY <2>2, <2>3
  <2>5. Before(key, other) <=> -a < -b \/ (m.id < n.id /\ -a = -b)
    BY <2>1, <2>4
  <2> QED
    BY <2>5 DEF key, other
<1> QED
  BY <1>1, <1>2, <1>3, <1>4 DEF a, b

\* How many of a set are ahead of a memory.
Rank(m, C, q) == Cardinality({n \in C : Ahead(n, m, q)})

\* The memories of a set have the ranks from 0 on, one each.
LEMMA RanksAreTaken ==
  ASSUME NEW S \in Shelves, NEW C \in SUBSET S, NEW q, q \in Seq(Range(q))
  PROVE  /\ IsFiniteSet(C) /\ Cardinality(C) \in Nat
         /\ \A m, n \in C : Ahead(m, n, q) => Rank(m, C, q) < Rank(n, C, q)
         /\ \A k \in 0 .. Cardinality(C) - 1 : \E m \in C : Rank(m, C, q) = k
<1>1. IsFiniteSet(C) /\ Cardinality(C) \in Nat
  BY ShelvesAssumption, FS_Subset, FS_CardinalityType
<1> DEFINE others(m) == {n \in C : Ahead(n, m, q)}
           size == Cardinality(C)
<1>2. ASSUME NEW m \in C, NEW T, T = others(m) PROVE IsFiniteSet(T) /\ Cardinality(T) \in Nat /\ T \in SUBSET C
  <2>1. T \in SUBSET C
    BY <1>2
  <2> HIDE DEF others
  <2> QED
    BY <1>1, <2>1, FS_Subset, FS_CardinalityType
<1>3. \A m \in C : m \in S /\ Worth(m, q) \in Int /\ m.id \in Int
  BY ShelvesAssumption, WorthIsNumber
<1>4. \A m \in C : ~Ahead(m, m, q)
  BY <1>3, AheadIs
<1>5. ASSUME NEW m \in C, NEW n \in C, Ahead(m, n, q) PROVE Rank(m, C, q) < Rank(n, C, q)
  <2> DEFINE T == others(m)
             U == others(n)
  <2>1. ASSUME NEW r \in C, Ahead(r, m, q) PROVE Ahead(r, n, q)
    <3>1. Worth(r, q) > Worth(m, q) \/ (Worth(r, q) = Worth(m, q) /\ r.id < m.id)
      BY <1>3, <2>1, AheadIs
    <3>2. Worth(m, q) > Worth(n, q) \/ (Worth(m, q) = Worth(n, q) /\ m.id < n.id)
      BY <1>3, <1>5, AheadIs
    <3>3. Worth(r, q) > Worth(n, q) \/ (Worth(r, q) = Worth(n, q) /\ r.id < n.id)
      BY <1>3, <3>1, <3>2
    <3> QED
      BY <1>3, <3>3, AheadIs
  <2>2. T \in SUBSET U /\ m \in U /\ m \notin T
    BY <1>4, <1>5, <2>1
  <2>3. IsFiniteSet(U) /\ Cardinality(U) \in Nat /\ Cardinality(T) \in Nat
    BY <1>2
  <2>4. Rank(m, C, q) = Cardinality(T) /\ Rank(n, C, q) = Cardinality(U)
    BY DEF Rank
  <2> HIDE DEF T, U
  <2>5. Cardinality(T) <= Cardinality(U) /\ (Cardinality(U) = Cardinality(T) => U = T)
    BY <2>2, <2>3, FS_Subset
  <2> QED
    BY <2>2, <2>3, <2>4, <2>5
<1>6. ASSUME NEW m \in C PROVE Rank(m, C, q) \in 0 .. size - 1
  <2> DEFINE T == others(m)
             U == C \ {m}
  <2>1. T \in SUBSET U
    BY <1>4
  <2>2. IsFiniteSet(U) /\ Cardinality(U) = size - 1
    BY <1>1, FS_RemoveElement
  <2>3. Rank(m, C, q) = Cardinality(T) /\ Cardinality(T) \in Nat
    BY <1>2 DEF Rank
  <2> HIDE DEF T, U
  <2>4. Cardinality(T) <= Cardinality(U)
    BY <2>1, <2>2, FS_Subset
  <2> QED
    BY <1>1, <2>2, <2>3, <2>4
<1>7. ASSUME NEW m \in C, NEW n \in C, m # n PROVE Rank(m, C, q) # Rank(n, C, q)
  <2>1. m.id # n.id
    BY <1>7, ShelvesAssumption
  <2>2. Ahead(m, n, q) \/ Ahead(n, m, q)
    BY <1>3, <2>1, AheadIs
  <2>3. Rank(m, C, q) \in Int /\ Rank(n, C, q) \in Int
    BY <1>6
  <2> QED
    BY <1>5, <2>2, <2>3
<1> DEFINE rank == [m \in C |-> Rank(m, C, q)]
           places == 0 .. size - 1
<1>8. rank \in Injection(C, places)
  BY <1>6, <1>7 DEF Injection, IsInjective
<1>9. IsFiniteSet(places) /\ Cardinality(places) = size
  <2>1. 0 \in Int /\ size - 1 \in Int /\ size \in Nat
    BY <1>1
  <2> DEFINE top == size - 1
  <2>2. top \in Int /\ top + 1 = size /\ (0 > top => size = 0)
    BY <2>1
  <2> HIDE DEF top, size
  <2>3. IsFiniteSet(0 .. top) /\ Cardinality(0 .. top) = IF 0 > top THEN 0 ELSE top - 0 + 1
    BY <2>2, FS_Interval, SMTT(30)
  <2>4. Cardinality(0 .. top) = size
    BY <2>2, <2>3
  <2> QED
    BY <2>3, <2>4 DEF top
<1>10. rank \in Surjection(C, places)
  <2> HIDE DEF rank, places
  <2> QED
    BY <1>8, <1>9, FS_Injection
<1>11. \A k \in places : \E m \in C : rank[m] = k
  BY <1>10 DEF Surjection
<1> QED
  BY <1>1, <1>5, <1>11

(* The results of a preflight are among what was considered, in the order  *)
(* of their worth; there are none only if nothing was considered.          *)
LEMMA ResultsRanked ==
  ASSUME NEW S \in Shelves, NEW C \in SUBSET S, NEW q, q \in Seq(Range(q))
  PROVE  LET results == Results(C, q)
         IN  /\ results \in Seq(C)
             /\ C # {} => results # <<>>
             /\ \A i, j \in 1 .. Len(results) : i < j => Worth(results[i], q) >= Worth(results[j], q)
<1> DEFINE results == Results(C, q)
           n == Min({MaxResults, Cardinality(C)})
<1>1. /\ IsFiniteSet(C) /\ Cardinality(C) \in Nat
      /\ \A m, k \in C : Ahead(m, k, q) => Rank(m, C, q) < Rank(k, C, q)
      /\ \A k \in 0 .. Cardinality(C) - 1 : \E m \in C : Rank(m, C, q) = k
  BY RanksAreTaken
<1>2. MaxResults \in Nat /\ MaxResults >= 1
  <2>1. MaxResults \in 1 .. BriefCandidates
    BY BriefAssumption
  <2> QED
    BY <2>1
<1>3. n = IF MaxResults <= Cardinality(C) THEN MaxResults ELSE Cardinality(C)
  BY <1>1, <1>2, LeastOfTwo
<1>4. n \in Nat /\ n <= Cardinality(C) /\ (C # {} => n >= 1)
  <2>1. C # {} => Cardinality(C) # 0
    BY <1>1, FS_EmptySet
  <2> QED
    BY <1>1, <1>2, <1>3, <2>1
<1>5. results = [k \in 1 .. n |-> CHOOSE m \in C : Rank(m, C, q) = k - 1]
  BY DEF Results, Rank
<1> HIDE DEF results, n
<1>6. ASSUME NEW k \in 1 .. n PROVE results[k] \in C /\ Rank(results[k], C, q) = k - 1
  <2>1. k - 1 \in 0 .. Cardinality(C) - 1
    BY <1>1, <1>4
  <2>2. \E m \in C : Rank(m, C, q) = k - 1
    BY <1>1, <2>1
  <2> QED
    BY <1>5, <2>2
<1>7. results \in [1 .. n -> C]
  BY <1>5, <1>6
<1>8. results \in Seq(C) /\ Len(results) = n
  BY <1>4, <1>7
<1>9. ASSUME NEW i \in 1 .. n, NEW j \in 1 .. n, i < j PROVE Worth(results[i], q) >= Worth(results[j], q)
  <2>1. /\ results[i] \in C /\ results[j] \in C
        /\ Rank(results[i], C, q) = i - 1 /\ Rank(results[j], C, q) = j - 1
    BY <1>6
  <2>2. ~Ahead(results[j], results[i], q)
    BY <1>1, <1>4, <1>9, <2>1
  <2>3. ~(Worth(results[j], q) > Worth(results[i], q))
    BY <2>1, <2>2, AheadIs
  <2>4. Worth(results[i], q) \in Int /\ Worth(results[j], q) \in Int
    BY <2>1, WorthIsNumber
  <2> QED
    BY <2>3, <2>4
<1>10. C # {} => results # <<>>
  BY <1>4, <1>8
<1> QED
  BY <1>8, <1>9, <1>10 DEF results

\* What the search for a hint finds is among what was to be searched.
LEMMA HitsAmong ==
  ASSUME NEW S, NEW q
  PROVE  Searched(S)!Hits(q, Unfiltered) \subseteq S
<1>1. \A r : Searched(S)!Strict(r) \subseteq S
  BY DEF Searched!Strict
<1>2. Searched(S)!Partial(q) \subseteq S
  BY DEF Searched!Partial
<1>3. \/ \E r : Searched(S)!Hits(q, Unfiltered) = Searched(S)!Strict(r)
      \/ Searched(S)!Hits(q, Unfiltered) = Searched(S)!Partial(q)
  BY DEF Searched!Hits
<1> QED
  BY <1>1, <1>2, <1>3, Zenon

\* What is considered is visible; without a query, something is if anything can be.
LEMMA ConsideredAmong ==
  ASSUME NEW S, IsFiniteSet(S), NEW q, NEW C \in Considered(S, q)
  PROVE  C \subseteq S /\ (q = <<>> /\ S # {} => C # {})
<1> DEFINE found == Searched(S)!Hits(q, Unfiltered)
           hits == IF q = <<>> THEN S ELSE found
<1>1. hits \in SUBSET S /\ (q = <<>> => hits = S)
  <2>1. found \subseteq S
    BY HitsAmong
  <2> HIDE DEF found
  <2> QED
    BY <2>1
<1>2. C \in kSubset(Min({BriefCandidates, Cardinality(hits)}), hits)
  BY DEF Considered
<1> HIDE DEF hits
<1>3. IsFiniteSet(hits)
  BY <1>1, FS_Subset
<1>4. BriefCandidates \in Nat \ {0}
  BY BriefAssumption
<1> DEFINE n == BriefCandidates
<1>5. n \in Nat \ {0} /\ C \in kSubset(Min({n, Cardinality(hits)}), hits)
  BY <1>2, <1>4
<1> HIDE DEF n
<1>6. C \subseteq hits /\ (C = {} <=> hits = {})
  BY <1>3, <1>5, Fitted
<1> QED
  BY <1>1, <1>6

\* A name keeps what the harness called it, and never stays sensitive.
LEMMA NamesKeep ==
  ASSUME NEW v, IsValue(v)
  PROVE  /\ StdinName(v).text = v.text /\ StdinName(v).kind # "secret"
         /\ HookName(v).text = v.text /\ HookName(v).kind # "secret"
         /\ Fingerprinted(v).text = v.text /\ Fingerprinted(v).kind # "secret"
<1> DEFINE text == v.text
           kind == v.kind
<1>1. v = [text |-> text, kind |-> kind]
  BY DEF IsValue
<1> HIDE DEF text, kind
<1>2. v.text = text /\ v.kind = kind
  BY <1>1
<1>3. Fingerprinted(v) = [text |-> text, kind |-> "print"]
  BY <1>1 DEF Fingerprinted
<1>4. Fingerprinted(v).text = text /\ Fingerprinted(v).kind = "print"
  BY <1>3
<1>5. IdentitySafe(v) => kind # "secret"
  BY <1>2 DEF IdentitySafe
<1>6. StdinName(v) = (IF IdentitySafe(v) THEN v ELSE Fingerprinted(v))
  BY DEF StdinName
<1>7. HookName(v) = (IF v.kind = "plain" THEN v ELSE Fingerprinted(v))
  BY DEF HookName
<1>8. StdinName(v).text = text /\ StdinName(v).kind # "secret"
  BY <1>2, <1>4, <1>5, <1>6
<1>9. HookName(v).text = text /\ HookName(v).kind # "secret"
  BY <1>2, <1>4, <1>7
<1> QED
  BY <1>2, <1>4, <1>8, <1>9

IdentityRight(p) ==
  LET who == Identified(p)
  IN  /\ who.session.text = RawSession(p)
      /\ \A v \in Range(who.profile) \cup {who.workflow, who.session} : v.kind # "secret"

(* Whatever command asks, the identity is of the session that the harness   *)
(* names, and nothing in it is sensitive.                                  *)
LEMMA IdentityIsRight ==
  ASSUME NEW p \in Requests, Accepted(p)
  PROVE  IdentityRight(p)
<1>1. /\ p.command \in {"launch", "flags", "stdin", "hook"}
      /\ p.command = "hook" => p.event \in {"SessionStart", "SubagentStart"}
      /\ p.command # "flags" => \A n \in DOMAIN p.input : IsValue(p.input[n])
  BY PreflightsAssumption
<1>2. \A x : Range(<<x>>) = {x}
  BY DEF Range
<1>3. \A x, y, z : Range(<<x, y, z>>) = {x, y, z}
  BY DEF Range
<1>4. \A t : Plain(t).text = t /\ Plain(t).kind = "plain"
  BY DEF Plain
<1>5. \A f, w, s : Who(f, w, s).profile = f /\ Who(f, w, s).workflow = w /\ Who(f, w, s).session = s
  BY DEF Who
<1>6. CASE p.command = "launch"
  <2>1. Identified(p) = Who(<<Plain("claude-code")>>, Plain(Fresh), Plain(Fresh)) /\ RawSession(p) = Fresh
    BY <1>6 DEF Identified, RawSession
  <2> QED
    BY <1>2, <1>4, <1>5, <2>1 DEF IdentityRight
<1>7. CASE p.command = "flags"
  <2>1. /\ Identified(p) = Who(<<p.flags.agent_profile>>, p.flags.workflow_id, p.flags.session_id)
        /\ RawSession(p) = p.flags.session_id.text
    BY <1>7 DEF Identified, RawSession
  <2>2. FlagsAccepted(p)
    BY <1>7 DEF Accepted
  <2>3. p.flags.agent_profile.kind # "secret" /\ p.flags.workflow_id.kind # "secret" /\ p.flags.session_id.kind # "secret"
    BY <2>2 DEF FlagsAccepted, IdFields, IdentitySafe
  <2> QED
    BY <1>2, <1>5, <2>1, <2>3 DEF IdentityRight
<1>8. CASE p.command = "stdin"
  <2>1. StdinAccepted(p) /\ RawSession(p) = p.input.session_id.text
    BY <1>8 DEF Accepted, RawSession
  <2>2. Has(p.input, {"session_id"})
    BY <2>1 DEF StdinAccepted, Has, IdFields
  <2>3. IsValue(p.input.session_id)
    BY <1>1, <1>8, <2>2 DEF Has
  <2>4. StdinName(p.input.session_id).text = p.input.session_id.text /\ StdinName(p.input.session_id).kind # "secret"
    BY <2>3, NamesKeep
  <2>5. CASE p.harness = "claude-code"
    <3>1. Identified(p) = Who(<<Plain(p.harness)>>, StdinName(p.input.session_id), StdinName(p.input.session_id))
      BY <1>8, <2>5 DEF Identified
    <3> QED
      BY <1>2, <1>4, <1>5, <2>1, <2>4, <3>1 DEF IdentityRight
  <2>6. CASE p.harness # "claude-code"
    <3>1. Identified(p) = Who(<<StdinName(p.input.agent_profile)>>, StdinName(p.input.workflow_id), StdinName(p.input.session_id))
      BY <1>8, <2>6 DEF Identified
    <3>2. Has(p.input, IdFields)
      BY <2>1, <2>6 DEF StdinAccepted
    <3>3. IsValue(p.input.agent_profile) /\ IsValue(p.input.workflow_id)
      BY <1>1, <1>8, <3>2 DEF Has, IdFields
    <3>4. StdinName(p.input.agent_profile).kind # "secret" /\ StdinName(p.input.workflow_id).kind # "secret"
      BY <3>3, NamesKeep
    <3> QED
      BY <1>2, <1>5, <2>1, <2>4, <3>1, <3>4 DEF IdentityRight
  <2> QED
    BY <2>5, <2>6
<1>9. CASE p.command = "hook"
  <2>1. HookAccepted(p)
    BY <1>9 DEF Accepted
  <2>2. IsValue(p.input.session_id)
    BY <1>1, <1>9, <2>1 DEF HookAccepted, Has
  <2>3. HookName(p.input.session_id).text = p.input.session_id.text /\ HookName(p.input.session_id).kind # "secret"
    BY <2>2, NamesKeep
  <2>4. CASE p.event = "SessionStart"
    <3>1. Identified(p) = Who(<<Plain(p.harness)>>, HookName(p.input.session_id), HookName(p.input.session_id))
      BY <1>9, <2>4 DEF Identified
    <3>2. RawSession(p) = p.input.session_id.text
      BY <1>9, <2>4 DEF RawSession
    <3> QED
      BY <1>2, <1>4, <1>5, <2>3, <3>1, <3>2 DEF IdentityRight
  <2>5. CASE p.event = "SubagentStart"
    <3>1. Identified(p) = Who(<<Plain(p.harness), HookName(p.input.agent_type), Fingerprinted(p.input.agent_id)>>,
                              HookName(p.input.session_id), HookName(p.input.agent_id))
      BY <1>9, <2>5 DEF Identified
    <3>2. RawSession(p) = p.input.agent_id.text
      BY <1>9, <2>5 DEF RawSession
    <3>3. IsValue(p.input.agent_id) /\ IsValue(p.input.agent_type)
      BY <1>1, <1>9, <2>1, <2>5 DEF HookAccepted, Has
    <3>4. /\ HookName(p.input.agent_id).text = p.input.agent_id.text /\ HookName(p.input.agent_id).kind # "secret"
          /\ Fingerprinted(p.input.agent_id).kind # "secret" /\ HookName(p.input.agent_type).kind # "secret"
      BY <3>3, NamesKeep
    <3> QED
      BY <1>3, <1>4, <1>5, <2>3, <3>1, <3>2, <3>4 DEF IdentityRight
  <2> QED
    BY <1>1, <1>9, <2>4, <2>5
<1> QED
  BY <1>1, <1>6, <1>7, <1>8, <1>9

Shown(p) == {m \in shelf : Visible(m, Identified(p))}

\* A brief is of a request that was accepted, and of what it was shown of the shelf.
BriefInv ==
  /\ shelf \in Shelves
  /\ brief # NoBrief =>
       \E p \in Requests : \E C \in Considered(Shown(p), SafeQuery(p)) :
         Accepted(p) /\ brief = Brief(p, Results(C, SafeQuery(p)))

LEMMA BriefRight ==
  ASSUME BriefInv
  PROVE  BriefHonest
<1> SUFFICES ASSUME brief # NoBrief PROVE BriefHonest
  BY DEF BriefHonest, BriefUsesItsRoom, SessionsStayApart, NothingSensitiveLeaves
<1>1. PICK p \in Requests : \E C \in Considered(Shown(p), SafeQuery(p)) :
         Accepted(p) /\ brief = Brief(p, Results(C, SafeQuery(p)))
  BY DEF BriefInv
<1>2. PICK C \in Considered(Shown(p), SafeQuery(p)) : Accepted(p) /\ brief = Brief(p, Results(C, SafeQuery(p)))
  BY <1>1
<1> DEFINE q == SafeQuery(p)
           results == Results(C, q)
           kept == Fitting(results)
           who == Identified(p)
           W == [m \in shelf |-> Worth(m, q)]
<1>3. shelf \in Shelves /\ IsFiniteSet(shelf) /\ q \in Seq(Range(q))
  BY ShelvesAssumption, PreflightsAssumption DEF BriefInv
<1>4. Shown(p) \in SUBSET shelf /\ IsFiniteSet(Shown(p))
  BY <1>3, FS_Subset DEF Shown
<1>5. C \subseteq Shown(p) /\ (q = <<>> /\ Shown(p) # {} => C # {})
  BY <1>2, <1>4, ConsideredAmong
<1>6. /\ results \in Seq(C)
      /\ C # {} => results # <<>>
      /\ \A i, j \in 1 .. Len(results) : i < j => Worth(results[i], q) >= Worth(results[j], q)
  <2>1. C \in SUBSET shelf
    BY <1>4, <1>5
  <2> HIDE DEF q
  <2> QED
    BY <1>3, <2>1, ResultsRanked
<1>7. /\ brief.asked = p /\ brief.results = results /\ brief.context = kept
      /\ brief.receipt.who = who /\ brief.receipt.ids = {m.id : m \in Range(kept)}
      /\ q = <<>> => brief.receipt.class = "startup_fallback"
  BY <1>2 DEF Brief
<1> HIDE DEF q, results, kept, who
<1>8. /\ W \in [shelf -> Int] /\ (\A m \in shelf : m.line \in Nat) /\ results \in Seq(shelf)
      /\ \A i \in 1 .. Len(results) : results[i] \in shelf
  BY <1>3, <1>4, <1>5, <1>6, ShelvesAssumption, WorthIsNumber
<1>9. \A i, j \in 1 .. Len(results) : i < j => W[results[i]] >= W[results[j]]
  BY <1>6, <1>8
<1> HIDE DEF W
<1>10. /\ kept \in Seq(Range(results)) /\ Lines(kept) \in Nat /\ Lines(kept) <= Room
       /\ \A m \in Range(kept) : m.says = "plain"
       /\ \A i \in 2 .. Len(kept) : W[kept[i - 1]] >= W[kept[i]]
       /\ \A m \in Range(results) \ Range(kept) : m.says = "plain" => m.line > Room - Lines(kept)
  <2> DEFINE T == shelf
  <2>1. /\ W \in [T -> Int] /\ (\A m \in T : m.line \in Nat) /\ results \in Seq(T)
        /\ \A i, j \in 1 .. Len(results) : i < j => W[results[i]] >= W[results[j]]
    BY <1>8, <1>9
  <2> HIDE DEF T
  <2> QED
    BY <2>1, FittingRight DEF kept
<1>11. Range(results) \subseteq C /\ Range(kept) \subseteq Shown(p) /\ Range(kept) \subseteq shelf
  <2>1. Range(results) \subseteq C
    BY <1>6 DEF Range
  <2>2. Range(kept) \subseteq Range(results)
    <3> DEFINE U == Range(results)
    <3>1. kept \in Seq(U)
      BY <1>10
    <3> HIDE DEF U
    <3>2. Range(kept) \subseteq U
      BY <3>1 DEF Range
    <3> QED
      BY <3>2 DEF U
  <2> QED
    BY <1>4, <1>5, <2>1, <2>2
<1>12. \A k \in 1 .. Len(kept) : kept[k] \in Range(kept)
  <2>1. DOMAIN kept = 1 .. Len(kept)
    BY <1>10
  <2> QED
    BY <2>1 DEF Range
<1>13. IdentityRight(p)
  BY <1>2, IdentityIsRight
<1>14. BriefUsesItsRoom
  <2>1. \A k \in 2 .. Len(kept) : Worth(kept[k - 1], q) >= Worth(kept[k], q)
    <3> SUFFICES ASSUME NEW k \in 2 .. Len(kept) PROVE Worth(kept[k - 1], q) >= Worth(kept[k], q)
      OBVIOUS
    <3>1. Len(kept) \in Nat
      BY <1>10
    <3>2. k \in 1 .. Len(kept) /\ k - 1 \in 1 .. Len(kept)
      BY <3>1
    <3>3. kept[k] \in shelf /\ kept[k - 1] \in shelf
      BY <1>11, <1>12, <3>2
    <3>4. W[kept[k - 1]] = Worth(kept[k - 1], q) /\ W[kept[k]] = Worth(kept[k], q)
      BY <3>3 DEF W
    <3> QED
      BY <1>10, <3>4
  <2> QED
    BY <1>7, <1>10, <2>1 DEF BriefUsesItsRoom, q
<1>15. SessionsStayApart
  <2>1. ASSUME NEW m \in Range(kept), m.scope = "session" PROVE m.by = RawSession(p)
    <3>1. m \in shelf /\ Visible(m, who)
      BY <1>11 DEF Shown, who
    <3>2. PICK r \in Requests : Accepted(r) /\ m.who = Identified(r) /\ m.by = RawSession(r)
      BY <1>3, <2>1, <3>1, ShelvesAssumption
    <3>3. m.who.session = who.session
      BY <2>1, <3>1 DEF Visible, Shared
    <3>4. Identified(r).session.text = RawSession(r) /\ who.session.text = RawSession(p)
      BY <1>13, <3>2, IdentityIsRight DEF IdentityRight, who
    <3> QED
      BY <3>2, <3>3, <3>4
  <2> QED
    BY <1>7, <2>1 DEF SessionsStayApart
<1>16. NothingSensitiveLeaves
  <2>1. Hint(p).kind = "secret" => q = <<>>
    BY DEF q, SafeQuery
  <2>2. q = <<>> /\ {m \in shelf : Visible(m, who)} # {} => results # <<>>
    BY <1>5, <1>6 DEF Shown, who
  <2>3. \A m \in Range(kept) : m.says # "secret"
    BY <1>10
  <2>4. \A value \in Range(who.profile) \cup {who.workflow, who.session} : value.kind # "secret"
    BY <1>13 DEF IdentityRight, who
  <2> QED
    BY <1>7, <2>1, <2>2, <2>3, <2>4 DEF NothingSensitiveLeaves
<1> QED
  BY <1>14, <1>15, <1>16 DEF BriefHonest

(* For any shelf and any requests: a brief is in order of relevance and as  *)
(* full as its room allows, has no memory of another session, and nothing   *)
(* sensitive is in it, in its receipt or searched for.                     *)
THEOREM BriefsAreHonest == Spec => []BriefHonest
<1>1. Init => BriefInv
  BY DEF Init, BriefInit, BriefInv
<1>2. BriefInv /\ [Next]_vars => BriefInv'
  <2> SUFFICES ASSUME BriefInv, [Next]_vars PROVE BriefInv'
    OBVIOUS
  <2>1. CASE UNCHANGED briefVars
    BY <2>1 DEF BriefInv, briefVars, Shown
  <2>2. CASE BriefNext
    <3>1. PICK p \in Requests : RunPreflight(p)
      BY <2>2 DEF BriefNext
    <3>2. shelf' = shelf
      BY <3>1 DEF RunPreflight
    <3>3. CASE ~Accepted(p)
      <4>1. brief' = NoBrief
        BY <3>1, <3>3 DEF RunPreflight
      <4> QED
        BY <3>2, <4>1 DEF BriefInv
    <3>4. CASE Accepted(p)
      <4>1. \E C \in Considered(Shown(p), SafeQuery(p)) : brief' = Brief(p, Results(C, SafeQuery(p)))
        BY <3>1, <3>4 DEF RunPreflight, Shown
      <4>2. \A r \in Requests : Shown(r)' = Shown(r)
        BY <3>2 DEF Shown
      <4> QED
        BY <3>2, <3>4, <4>1, <4>2 DEF BriefInv
    <3> QED
      BY <3>3, <3>4
  <2> QED
    BY <2>1, <2>2 DEF Next, vars
<1>3. BriefInv => BriefHonest
  BY BriefRight
<1> QED
  BY <1>1, <1>2, <1>3, PTL DEF Spec
====
