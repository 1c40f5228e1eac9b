---- MODULE SelfUpdate ----
(***************************************************************************)
(* tree-ring update.  Releases appear, their archives and checksums are    *)
(* uploaded, and uploaded again, one after the other; the Homebrew formula *)
(* follows at its own pace.  Several updates of one installation run at a  *)
(* time, each from the version its own program was built as; one may die   *)
(* at any step.  Versions are numbers.                                     *)
(***************************************************************************)
EXTENDS Integers

CONSTANTS
  Updaters,
  Versions,  \* bound: 1 .. the last release
  Uploads,   \* bound: the archives uploaded
  Methods    \* what installed the program: "direct" (project-local too), "homebrew"

ASSUME ReleasesAssumption == Versions \subseteq Nat /\ 1 \in Versions

VARIABLES
  method,
  latest,    \* the release the API names
  archive,   \* per release: [gen, inside], the version inside; gen 0 without an archive
  sum,       \* per release: the gen its checksum file is of, 0 without one
  formula,   \* the version the formula installs
  binary,    \* the version of the file at the executable's path
  own, target, listed, got, at, result,  \* of each update
  uploaded,
  installed  \* history: the update that installed binary, as [own, target, version]

world == <<method, latest, archive, sum, formula, uploaded>>
local == <<own, target, listed, got, result>>
updateVars == <<world, binary, local, at, installed>>

UpdateInit ==
  /\ method \in Methods
  /\ latest = 1
  /\ archive = [v \in Versions |-> [gen |-> 0, inside |-> v]]
  /\ sum = [v \in Versions |-> 0]
  /\ formula = 1
  /\ binary = 1
  /\ own = [u \in Updaters |-> 0]
  /\ target = [u \in Updaters |-> 0]
  /\ listed = [u \in Updaters |-> {}]
  /\ got = [u \in Updaters |-> [gen |-> 0, inside |-> 0]]
  /\ at = [u \in Updaters |-> "idle"]
  /\ result = [u \in Updaters |-> "none"]
  /\ uploaded = 0
  /\ installed = [own |-> 0, target |-> 1, version |-> 1]

----
(* Releases *)

Release ==
  /\ latest + 1 \in Versions
  /\ latest' = latest + 1
  /\ UNCHANGED <<method, archive, sum, formula, uploaded, binary, local, at, installed>>

\* An archive, that may have been built from another version.
Upload(v, inside) ==
  /\ v <= latest /\ uploaded < Uploads
  /\ archive' = [archive EXCEPT ![v] = [gen |-> uploaded + 1, inside |-> inside]]
  /\ uploaded' = uploaded + 1
  /\ UNCHANGED <<method, latest, sum, formula, binary, local, at, installed>>

UploadSum(v) ==
  /\ sum[v] # archive[v].gen
  /\ sum' = [sum EXCEPT ![v] = archive[v].gen]
  /\ UNCHANGED <<method, latest, archive, formula, uploaded, binary, local, at, installed>>

UpdateFormula ==
  /\ method = "homebrew" /\ formula < latest
  /\ formula' = formula + 1
  /\ UNCHANGED <<method, latest, archive, sum, uploaded, binary, local, at, installed>>

----
(* An update *)

To(u, place) == at' = [at EXCEPT ![u] = place]
Ends(u, answer) == To(u, "ended") /\ result' = [result EXCEPT ![u] = answer]

\* run: the program that was started knows its own version only.
StartUpdate(u) ==
  /\ at[u] = "idle"
  /\ own' = [own EXCEPT ![u] = binary]
  /\ To(u, "fetch")
  /\ UNCHANGED <<world, binary, target, listed, got, result, installed>>

\* fetch_latest_release and the decision of run; --check goes no further.
Fetch(u, check) ==
  /\ at[u] = "fetch"
  /\ target' = [target EXCEPT ![u] = latest]
  /\ listed' = [listed EXCEPT ![u] = {name \in {"archive", "sum"} :
                                        IF name = "sum" THEN sum[latest] # 0 ELSE archive[latest].gen # 0}]
  /\ IF check \/ latest <= own[u] THEN Ends(u, "unchanged")
     ELSE To(u, IF method = "homebrew" THEN "brew" ELSE "download") /\ UNCHANGED result
  /\ UNCHANGED <<world, binary, own, got, installed>>

\* asset_url, download_file: the assets are those the release had when fetched.
Download(u) ==
  /\ at[u] = "download"
  /\ IF listed[u] # {"archive", "sum"} THEN Ends(u, "error") /\ UNCHANGED got
     ELSE got' = [got EXCEPT ![u] = archive[target[u]]] /\ To(u, "verify") /\ UNCHANGED result
  /\ UNCHANGED <<world, binary, own, target, listed, installed>>

\* Mutant of Verify: the staged program is not asked for its version.
VerifySum(u) ==
  /\ at[u] = "verify"
  /\ IF sum[target[u]] # got[u].gen THEN Ends(u, "error") ELSE To(u, "staged") /\ UNCHANGED result
  /\ UNCHANGED <<world, binary, own, target, listed, got, installed>>

\* verify_checksum against the checksum of now, then the staged version.
Verify(u) ==
  /\ at[u] = "verify"
  /\ IF sum[target[u]] # got[u].gen \/ got[u].inside # target[u]
     THEN Ends(u, "error") ELSE To(u, "staged") /\ UNCHANGED result
  /\ UNCHANGED <<world, binary, own, target, listed, got, installed>>

Install(u, version) ==
  /\ binary' = version
  /\ installed' = [own |-> own[u], target |-> target[u], version |-> version]

\* The rename at the end of update_direct, or its failure.
Rename(u) ==
  /\ at[u] = "staged"
  /\ \/ Install(u, got[u].inside) /\ Ends(u, "updated")
     \/ Ends(u, "error") /\ UNCHANGED <<binary, installed>>
  /\ UNCHANGED <<world, own, target, listed, got>>

\* brew upgrade, which knows its formula and no target.
Brew(u) ==
  /\ at[u] = "brew"
  /\ \/ Ends(u, "error") /\ UNCHANGED <<binary, installed>>
     \/ /\ To(u, "installed") /\ UNCHANGED result
        /\ IF formula > binary THEN Install(u, formula) ELSE UNCHANGED <<binary, installed>>
  /\ UNCHANGED <<world, own, target, listed, got>>

\* The rest of update_homebrew: what is installed must not be older.
CheckBrew(u) ==
  /\ at[u] = "installed"
  /\ Ends(u, IF binary < target[u] THEN "error" ELSE "updated")
  /\ UNCHANGED <<world, binary, own, target, listed, got, installed>>

DieUpdating(u) ==
  /\ at[u] \notin {"idle", "ended"}
  /\ To(u, "ended")
  /\ UNCHANGED <<world, binary, local, installed>>

UpdateNext ==
  \/ Release \/ UpdateFormula
  \/ \E v \in Versions : UploadSum(v) \/ \E inside \in Versions : Upload(v, inside)
  \/ \E u \in Updaters : \/ StartUpdate(u) \/ \E check \in BOOLEAN : Fetch(u, check)
                         \/ Download(u) \/ Verify(u) \/ Rename(u) \/ Brew(u) \/ CheckBrew(u) \/ DieUpdating(u)

----
(* Properties *)

(* update.rs:300: whatever is uploaded in whatever order, a direct update  *)
(* installs the release it was after and no other, and one newer than the  *)
(* program that ran it.  (It may replace what another update installed.)   *)
InstalledAsReleased ==
  method = "direct" /\ installed.own # 0 =>
    installed.version = installed.target /\ installed.own < installed.version

(* An update that says it updated is one after which the release it named, *)
(* or a later one, was in place, unless a direct update replaced it since; *)
(* Homebrew never goes back.                                               *)
UpdatedMeansInstalled ==
  \A u \in Updaters : result[u] = "updated" =>
    /\ target[u] > own[u]
    /\ method = "homebrew" => binary >= target[u]
    /\ method = "direct" => installed.own # 0 /\ got[u].inside = target[u]

(* Whatever is being uploaded and whoever else updates, what is installed  *)
(* was released as one, and what an update says of it is true.             *)
UpdatesHonest == InstalledAsReleased /\ UpdatedMeansInstalled
====
