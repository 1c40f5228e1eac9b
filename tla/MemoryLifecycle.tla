---- MODULE MemoryLifecycle ----
(***************************************************************************)
(* What a Tree Ring store promises about a memory and about an operation   *)
(* namespace, whatever interleaving of writers produced it.                *)
(*                                                                         *)
(* A memory is absent, live or redacted.  Redaction is one way: a redacted *)
(* memory shows nothing but the redaction marker and can only be deleted.  *)
(* A namespace, once bound to a memory, stays bound to it until that       *)
(* memory is deleted.  Only deletion releases an id or a namespace.        *)
(***************************************************************************)
CONSTANTS Ids, Ops, Texts, Redacted, NoId

VARIABLES
  state,   \* id -> "absent", "live" or "redacted"
  found,   \* id -> the texts full-text search returns for it
  bound    \* namespace -> the id a replay is answered with, or NoId

vars == <<state, found, bound>>

Marked == {Redacted}

Init ==
  /\ state = [i \in Ids |-> "absent"]
  /\ found = [i \in Ids |-> {}]
  /\ bound = [o \in Ops |-> NoId]

(* A transaction stores the memories of W, none of them redacted, and      *)
(* binds any free namespaces to some of them.  A redacted memory may be    *)
(* written again as long as it shows no more than the marker.              *)
Store ==
  \E W \in SUBSET {i \in Ids : state[i] # "redacted"} :
    /\ state' = [i \in Ids |-> IF i \in W THEN "live" ELSE state[i]]
    /\ \E shown \in [W -> Texts \cup {Redacted}] :
         found' = [i \in Ids |-> IF i \in W THEN {shown[i]} ELSE found[i]]
    /\ \E fresh \in SUBSET {o \in Ops : bound[o] = NoId}, to \in [Ops -> W \cup {NoId}] :
         /\ \A o \in fresh : to[o] \in W
         /\ bound' = [o \in Ops |-> IF o \in fresh THEN to[o] ELSE bound[o]]

(* A transaction redacts the memories of R and then deletes those of D.    *)
Forget ==
  \E R, D \in SUBSET Ids :
    /\ state' = [i \in Ids |-> IF i \in D THEN "absent"
                               ELSE IF i \in R /\ state[i] # "absent" THEN "redacted"
                               ELSE state[i]]
    /\ found' = [i \in Ids |-> IF i \in D THEN {}
                               ELSE IF i \in R /\ state[i] # "absent" THEN Marked
                               ELSE found[i]]
    /\ bound' = [o \in Ops |-> IF bound[o] \in D THEN NoId ELSE bound[o]]

Next == Store \/ Forget

Spec == Init /\ [][Next]_vars
====
