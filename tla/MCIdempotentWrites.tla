---- MODULE MCIdempotentWrites ----
(* Small instances of IdempotentWrites. *)
EXTENDS IdempotentWrites, TLC

CONSTANTS m1, m2, m3, w1, w2, o1, o2, p, q

Asks(text, op) == [text |-> text, op |-> op, owner |-> Shared, ring |-> "cambium",
                   kind |-> "lesson", temporary |-> FALSE, secret |-> FALSE,
                   supersedes |-> {}, supersededBy |-> NoId]

\* Two processes run one command: an agent's retry racing its first attempt, while an
\* operator redacts, deletes, supersedes and promotes.
SameCommand == [request |-> w1 :> Asks(p, o1) @@ w2 :> Asks(p, o1), moves |-> {"heartwood"}]

\* Two agents reuse one namespace for different payloads; no memory is promoted.
ReusedNamespace == [request |-> w1 :> Asks(p, o1) @@ w2 :> Asks(q, o1), moves |-> {}]

BothSettings == {SameCommand, ReusedNamespace}
OneCommand == {SameCommand}
====
