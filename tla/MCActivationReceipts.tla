---- MODULE MCActivationReceipts ----
(* Small instances of ActivationReceipts. *)
EXTENDS ActivationReceipts, TLC

CONSTANTS p1, p2, q1

\* The manifest written by a program of version v over bridge files f.
Configured(v, f) == [store |-> "s", root |-> "here", version |-> v, files |-> f,
                     print |-> Fingerprint(v, f), ready |-> TRUE]

\* What an edit can do: two versions of the bridge files, an upgrade, an edit that
\* leaves the fingerprint behind, and a manifest copied from another project.
Contracts == {Configured(1, "a"), Configured(1, "b"), Configured(2, "a"),
              [Configured(1, "a") EXCEPT !.files = "b"],
              [Configured(1, "a") EXCEPT !.root = "elsewhere", !.store = "t"],
              [Configured(1, "a") EXCEPT !.ready = FALSE]}

OneContract == {Configured(1, "a")}
TwoContracts == {Configured(1, "a"), Configured(1, "b")}

SameVersion == p1 :> 1 @@ p2 :> 1 @@ q1 :> 1
Upgrade == p1 :> 1 @@ p2 :> 2 @@ q1 :> 1
SameWorker == p1 :> "w" @@ p2 :> "w"

\* Sessions of one worker and one version differ in nothing but their names.
Sessions == Permutations({p1, p2})
====
