---- MODULE MCMemoryStore ----
(* Small instances of MemoryStore.  The constants of a run choose which    *)
(* events clients submit and which of them they submit together.           *)
EXTENDS MemoryStore, TLC

CONSTANTS m1, m2, a1, a2, o1, o2, c1, c2, p

Live(i, op) == [id |-> i, row |-> [text |-> p, op |-> op, owner |-> Shared, ring |-> "cambium",
                                   kind |-> "lesson", temporary |-> FALSE, secret |-> FALSE,
                                   supersedes |-> {}, supersededBy |-> NoId]]

With(e, row) == [id |-> e.id, row |-> row @@ e.row]

\* An exported redaction, submitted again by an import.
Sanitized(i) == With(Live(i, NoOp), [text |-> Redacted, kind |-> "redacted"])

UpTo(n, S) == UNION {[1 .. k -> S] : k \in 0 .. n}

\* Store run: namespaces that move between two memories, redaction, replacement.
TableEvents ==
  {Live(i, op) : i \in Ids, op \in Ops \cup {NoOp}}
    \cup {Sanitized(m1)}
    \cup {With(Live(m2, NoOp), [supersedes |-> {m1, m2}]),
          With(Live(m1, o1), [temporary |-> TRUE, secret |-> TRUE])}

\* Its batches: an id twice, of which one is a redaction; a namespace used twice;
\* a supersedes list whose target the same batch writes again.
StoreBatches ==
  {<<>>, <<Live(m1, o1), Sanitized(m1)>>, <<Live(m1, o2), Live(m2, o2)>>,
   <<With(Live(m2, NoOp), [supersedes |-> {m1, m2}]), Live(m1, o1)>>}

\* Policy run: what the agent a1 may and may not create alone; a batch that is
\* its own, one that repeats an id, one that hides a shared event.
Own(i) == With(Live(i, NoOp), [owner |-> a1])
PolicyEvents == {Own(m1), With(Own(m1), [ring |-> "heartwood"]), Live(m2, NoOp)}
CapSymmetry == Permutations(Caps)
PolicyBatches == {<<Own(m1), Own(m1)>>, <<Own(m1), Live(m2, NoOp)>>}
====
