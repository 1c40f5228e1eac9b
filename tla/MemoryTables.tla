---- MODULE MemoryTables ----
(***************************************************************************)
(* The tables of one Tree Ring store and the statements that write them.   *)
(* A value d of Tables is the content of four SQLite tables as one         *)
(* transaction sees them:                                                  *)
(*                                                                         *)
(*   d.rows    memories             id -> row, or Missing                  *)
(*   d.fts     memory_fts           id -> the texts indexed for that id    *)
(*   d.claims  operation_claims     operation namespace -> id, or NoId     *)
(*   d.tombs   redaction_tombstones the redacted ids                       *)
(*                                                                         *)
(* The operators are the functions of write.rs, each taking the tables and *)
(* returning the tables after its statements.  An operation namespace      *)
(* (project, workflow_id, agent_profile, operation_id) is one value of     *)
(* Ops: validated fields are never blank, so the COALESCE key of the       *)
(* unique index and the hash of operation_claims tell the same namespaces  *)
(* apart.                                                                  *)
(***************************************************************************)
EXTENDS Sequences

CONSTANTS
  Ids,       \* memory ids
  Ops,       \* operation namespaces
  Agents,    \* agent profiles
  Texts,     \* searchable contents (summary, details, tags, source ref)
  Rings,     \* the rings in use
  NoId, NoOp, Shared, Redacted, Missing

ASSUME RingsAssumption == Rings \subseteq {"cambium", "outer", "inner", "heartwood", "scar", "seed"}

\* What the properties tell apart of an event_type.
Kinds == {"lesson", "redacted"}

(* A row of the memories table.  owner is the agent_profile of a row with  *)
(* scope "agent" and Shared for every other scope; temporary is a          *)
(* retention of ephemeral or forget_after_date with an expires_at; secret  *)
(* is the sensitivity label "secret".                                      *)
Row == [text : Texts \cup {Redacted}, op : Ops \cup {NoOp}, owner : Agents \cup {Shared},
        ring : Rings, kind : Kinds, temporary : BOOLEAN, secret : BOOLEAN,
        supersedes : SUBSET Ids, supersededBy : Ids \cup {NoId}]

\* A validated event on its way into the store.
Event == [id : Ids, row : Row]

Tables == [rows : [Ids -> Row \cup {Missing}], fts : [Ids -> Seq(Texts \cup {Redacted})],
           claims : [Ops -> Ids \cup {NoId}], tombs : SUBSET Ids]

ASSUME NullsAssumption ==
  /\ NoId \notin Ids
  /\ NoOp \notin Ops
  /\ Shared \notin Agents
  /\ Redacted \notin Texts
  /\ Missing \notin Row

EmptyTables == [rows |-> [i \in Ids |-> Missing], fts |-> [i \in Ids |-> <<>>],
                claims |-> [o \in Ops |-> NoId], tombs |-> {}]

Present(d) == {i \in Ids : d.rows[i] # Missing}

\* The ids whose row holds namespace o, of which the unique index allows one.
Holders(d, o) == {i \in Present(d) : d.rows[i].op = o}

\* Mutant of Resolve: claims are not looked at.
ResolveActive(d, o) ==
  IF Holders(d, o) # {} THEN CHOOSE i \in Holders(d, o) : TRUE ELSE NoId

(* find_memory_by_operation_namespace: the row that holds o, else the row  *)
(* that has claimed it.                                                    *)
Resolve(d, o) ==
  IF Holders(d, o) # {} THEN CHOOSE i \in Holders(d, o) : TRUE
  ELSE IF d.claims[o] \in Present(d) THEN d.claims[o] ELSE NoId

IsSanitizedRedaction(r) ==
  /\ r.text = Redacted
  /\ r.op = NoOp
  /\ r.owner = Shared
  /\ r.kind = "redacted"
  /\ r.supersedes = {}
  /\ ~r.secret

----
(* Writing one memory. *)

\* Mutant of PreserveClaims: a replaced namespace is forgotten.
DropClaims(d, S, o) == d.claims

(* preserve_replaced_operation_claim for a set S of rows about to be       *)
(* written with namespace o: whatever other namespace a row of S holds     *)
(* stays claimed by it (INSERT OR IGNORE).                                 *)
PreserveClaims(d, S, o) ==
  [p \in Ops |-> IF p # o /\ d.claims[p] = NoId /\ Holders(d, p) \cap S # {}
                 THEN CHOOSE i \in Holders(d, p) \cap S : TRUE
                 ELSE d.claims[p]]

\* Mutants of CanPut: tombstones are not looked at; there is no unique index.
CanPutOverTombstone(d, i, r) ==
  r.op # NoOp => d.claims[r.op] = NoId /\ Holders(d, r.op) \subseteq {i}

CanPutDuplicate(d, i, r) ==
  /\ i \in d.tombs => IsSanitizedRedaction(r)
  /\ r.op # NoOp => d.claims[r.op] = NoId

(* prepare_memory_write, and the unique index of the upsert: what makes a  *)
(* write of row r under id i fail and its transaction roll back.           *)
CanPut(d, i, r) ==
  /\ i \in d.tombs => IsSanitizedRedaction(r)
  /\ r.op # NoOp => /\ d.claims[r.op] = NoId
                    /\ Holders(d, r.op) \subseteq {i}

\* Mutant of Put: the old index entry stays.
PutAppendingIndex(d, i, r) ==
  [d EXCEPT !.rows[i] = r,
            !.fts[i] = Append(@, r.text),
            !.claims = PreserveClaims(d, {i}, r.op)]

\* put_in_transaction: upsert the row, replace its index entry.
Put(d, i, r) ==
  [d EXCEPT !.rows[i] = r,
            !.fts[i] = <<r.text>>,
            !.claims = PreserveClaims(d, {i}, r.op)]

\* supersede_in_transaction: a missing old row is not an error.
Supersede(d, old, new) ==
  IF old \in Present(d) THEN [d EXCEPT !.rows[old].supersededBy = new] ELSE d

\* The rows that the supersedes list of one imported event marks.
SupersedeAll(d, S, new) ==
  [d EXCEPT !.rows = [i \in Ids |-> IF i \in S THEN Supersede(d, i, new).rows[i] ELSE d.rows[i]]]

----
(* Forgetting a set of memories: one for redact and delete, those a plan   *)
(* names for maintain.                                                     *)

\* MemoryEvent::redact, with superseded_by kept by redact_in_transaction.
Scrub(r) ==
  [r EXCEPT !.text = Redacted, !.op = NoOp, !.owner = Shared, !.kind = "redacted",
            !.supersedes = {}, !.secret = FALSE]

\* Mutant of Redact: the index keeps the old text.
RedactRowsOnly(d, S) ==
  LET hit == S \cap Present(d)
  IN  [d EXCEPT !.rows = [i \in Ids |-> IF i \in hit THEN Scrub(@[i]) ELSE @[i]],
                !.claims = PreserveClaims(d, hit, NoOp),
                !.tombs = @ \cup hit]

Redact(d, S) ==
  LET hit == S \cap Present(d)
  IN  [rows |-> [i \in Ids |-> IF i \in hit THEN Scrub(d.rows[i]) ELSE d.rows[i]],
       fts |-> [i \in Ids |-> IF i \in hit THEN <<Redacted>> ELSE d.fts[i]],
       claims |-> PreserveClaims(d, hit, NoOp),
       tombs |-> d.tombs \cup hit]

Delete(d, S) ==
  [rows |-> [i \in Ids |-> IF i \in S THEN Missing ELSE d.rows[i]],
   fts |-> [i \in Ids |-> IF i \in S THEN <<>> ELSE d.fts[i]],
   claims |-> [o \in Ops |-> IF d.claims[o] \in S THEN NoId ELSE d.claims[o]],
   tombs |-> d.tombs \ S]

\* rebuild_fts_in_transaction
RebuildFts(d) ==
  [d EXCEPT !.fts = [i \in Ids |-> IF d.rows[i] = Missing THEN <<>> ELSE <<d.rows[i].text>>]]

----
(* What every committed content of the tables satisfies. *)

\* A tombstone stands for a sanitized row: no redacted content comes back.
TombstonesSealedIn(d) ==
  \A i \in d.tombs : i \in Present(d) /\ IsSanitizedRedaction(d.rows[i])

\* A namespace belongs to at most one memory, as its holder or by a claim,
\* and a claim belongs to a memory that exists.
OperationOwnedOnceIn(d) ==
  \A o \in Ops : /\ \A i, j \in Holders(d, o) : i = j
                 /\ d.claims[o] # NoId => /\ d.claims[o] \in Present(d)
                                          /\ Holders(d, o) = {}

\* Search finds each row once, under its current text, and nothing else.
SearchMatchesRowsIn(d) ==
  \A i \in Ids : d.fts[i] = IF d.rows[i] = Missing THEN <<>> ELSE <<d.rows[i].text>>
====
