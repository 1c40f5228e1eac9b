---- MODULE MCConsole ----
(* Small instances of Console: one or two of its hard parts at a time. *)
EXTENDS Console

Plain == [sens |-> "normal", old |-> FALSE, ring |-> "cambium", hit |-> TRUE]
Hidden == [Plain EXCEPT !.sens = "private"]
Replaced == [Plain EXCEPT !.old = TRUE]

Start(first, second) == [i \in Ids |-> CASE i = 1 -> first [] i = 2 -> second [] OTHER -> Absent]

Quiet == [rows |-> Start(Plain, Hidden), keys |-> {}, commands |-> {}, previews |-> {<<>>},
          clientRows |-> {}, streams |-> FALSE, maxKeys |-> 0, maxClientSteps |-> 0]

\* Switches, searches and moves, while rows are added, hidden and removed.
Browsing ==
  [Quiet EXCEPT !.keys = {"i", "u", "s", "text", "backspace", "esc", "j", "k", "enter"},
                !.clientRows = {Plain, Hidden, Replaced}, !.maxKeys = 5, !.maxClientSteps = 2]

\* Commands that wait for a confirmation, while the store moves on.
Acting ==
  [Quiet EXCEPT !.keys = {"/", "enter", "j", "y", "n", "i", "q", "esc"},
                !.commands = {"forget", "redact", "promote", "scar", "seed", "supersede", "sync",
                              "consolidate", "export", "search", "remember"},
                !.previews = {<<>>, <<[id |-> 1, sens |-> "normal"], [id |-> 3, sens |-> "private"]>>},
                !.clientRows = {Plain, Hidden}, !.maxKeys = 5, !.maxClientSteps = 2]

Streaming == [Quiet EXCEPT !.streams = TRUE]

AllSituations == {Browsing, Acting, [Acting EXCEPT !.rows = Start(Hidden, Plain)], Streaming}
====
