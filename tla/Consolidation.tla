---- MODULE Consolidation ----
(***************************************************************************)
(* Consolidation of memories into summaries.  rows is the memories table,  *)
(* a partial function from ids; tombs the redaction tombstones; records    *)
(* the consolidations table in the order of its rows.  A consolidation     *)
(* reads, plans and writes inside one BEGIN IMMEDIATE transaction, so each *)
(* is one action; between two of them clients put, replace, supersede,     *)
(* redact and delete memories, summaries included.  Of a record's request  *)
(* the table keeps the period; the rest is history for the properties.     *)
(*                                                                         *)
(* by holds the producer of a memory: by["agent"] its agent_profile,       *)
(* by["workflow"] its workflow_id, by["session"] its session_id; the names *)
(* are those of the scopes that partition memories by the same field.      *)
(***************************************************************************)
EXTENDS Integers, Sequences, FiniteSets, FiniteSetsExt, Functions, TLC

CONSTANTS
  Before,        \* contents of the table the model starts with
  Submissions,   \* [id, row] that clients put or import
  Requests,      \* consolidation requests
  Budgets,       \* bounds of the instances one check contains
  None

Producers == {"agent", "workflow", "session"}

(* budget is chosen once and bounds a behaviour: budget.runs the number of *)
(* consolidations, budget.forget the ids that clients redact or delete,    *)
(* budget.replace the pairs <<old, new>> they supersede; its other fields  *)
(* belong to the modules that extend this one.                             *)
VARIABLES rows, tombs, records, budget
store == <<rows, tombs, records, budget>>

(* A memory as MemoryEvent::new makes it.  found is what the sensitivity   *)
(* guard detects in its texts; says is the directive its summary reads as, *)
(* [verb, subject, tags], or None; root the fingerprint of a DOX memory's  *)
(* source root; durable stands for durable and user_pinned.                *)
NewMemory ==
  [kind |-> "lesson", source |-> "manual", ref |-> None, project |-> None, scope |-> "global",
   by |-> [k \in Producers |-> None], ring |-> "cambium", label |-> "normal", found |-> "normal",
   review |-> FALSE, created |-> 1, salience |-> 50, confidence |-> 50, durable |-> FALSE,
   expires |-> "never", says |-> None, links |-> {}, root |-> None,
   supersedes |-> {}, supersededBy |-> None]

\* Memories have the fields of NewMemory; None is no id.
IsMemory(r) == r = [f \in DOMAIN NewMemory |-> r[f]] /\ DOMAIN r.by = Producers

ASSUME StoresAssumption ==
  /\ \A b \in Before :
       /\ IsFiniteSet(DOMAIN b) /\ None \notin DOMAIN b
       /\ \A i \in DOMAIN b : IsMemory(b[i])
  /\ \A e \in Submissions : e.id # None /\ IsMemory(e.row)
  /\ \A q \in Requests : q.force \in BOOLEAN
  /\ \A b \in Budgets : None \notin b.forget /\ \A p \in b.replace : p[2] # None

\* The table old after the puts of the rows new.
Over(new, old) ==
  [i \in DOMAIN new \cup DOMAIN old |-> IF i \in DOMAIN new THEN new[i] ELSE old[i]]

\* Days in a period; a period key is the number of the period a day falls in.
DaysIn == [daily |-> 1, weekly |-> 7, monthly |-> 30, yearly |-> 365]
PeriodKey(type, day) == day \div DaysIn[type]

----
(* consolidate_memories *)

\* The label says what a person set, found what the detector sees now.
EffectiveSensitivity(r) ==
  IF "secret" \in {r.label, r.found} THEN "secret"
  ELSE IF r.label # "normal" THEN r.label ELSE r.found

InContext(r, q) ==
  /\ q.project \in {None, r.project}
  /\ \A k \in Producers : q.by[k] \in {None, r.by[k]}

IsCandidate(r, q) ==
  /\ r.supersededBy = None
  /\ ~(r.kind = "summary" /\ r.source = "consolidation")
  /\ InContext(r, q)
  /\ EffectiveSensitivity(r) # "secret"
  /\ q.type = "manual" \/ PeriodKey(q.type, r.created) = q.key
  /\ r.salience >= 45 \/ r.ring \in {"heartwood", "scar", "seed"} \/ r.durable

Candidates(q) == {i \in DOMAIN rows : IsCandidate(rows[i], q)}

\* Mutant of GroupKey: no partition by producer.
GroupKeyShared(r) ==
  <<r.project, r.scope, r.ring, r.kind, EffectiveSensitivity(r) = "normal">>

\* Memories of an agent, a workflow or a session are grouped by theirs.
Partition(r) == <<r.project, r.scope, IF r.scope \in Producers THEN r.by[r.scope] ELSE None>>

GroupKey(r) ==
  <<Partition(r), r.ring, r.kind, EffectiveSensitivity(r) = "normal">>

Groups(S) ==
  LET key == [i \in S |-> GroupKey(rows[i])]
  IN  {{i \in S : key[i] = g} : g \in Range(key)}

Uniform(S, k) ==
  LET first == rows[CHOOSE i \in S : TRUE].by[k]
  IN  IF \A i \in S : rows[i].by[k] = first THEN first ELSE None

Average(S, field) == MapThenSumSet(LAMBDA i : rows[i][field], S) \div Cardinality(S)

OutputRing(S, r, type) ==
  CASE r.ring \in {"scar", "seed"} -> r.ring
    [] r.ring = "heartwood" /\ Average(S, "confidence") >= 75 -> "heartwood"
    [] OTHER -> IF type \in {"daily", "manual"} THEN "outer" ELSE "inner"

\* build_output for the group S: nothing of a sensitive group but its number.
Output(S, q, day) ==
  LET r == rows[CHOOSE i \in S : TRUE]
      sensitive == EffectiveSensitivity(r) # "normal"
  IN  [NewMemory EXCEPT
         !.kind = "summary", !.source = "consolidation", !.ref = <<q.type, q.key>>,
         !.project = r.project, !.scope = r.scope, !.by = [k \in Producers |-> Uniform(S, k)],
         !.ring = OutputRing(S, r, q.type), !.label = IF sensitive THEN "private" ELSE "normal",
         !.review = sensitive, !.created = day, !.salience = Average(S, "salience"),
         !.confidence = Average(S, "confidence"), !.links = S]

----
(* SQLiteMemoryStore::consolidate *)

\* find_consolidation_on_connection
SamePeriod(n, q) == records[n].request.type = q.type /\ records[n].request.key = q.key
Matching(q, S) == {n \in DOMAIN records : SamePeriod(n, q) /\ records[n].sources = S}

Recorded(q, S) == Matching(q, S) # {}

\* previous_consolidation_outputs_on_connection, superseded ones included.
PreviousOutputs(q) ==
  {i \in UNION {records[n].outputs : n \in {m \in DOMAIN records : SamePeriod(m, q)}} :
     i \in DOMAIN rows /\ InContext(rows[i], q)}

(* consolidation_supersession_pairs: an earlier summary is replaced by the *)
(* new one that shares most of its sources; if none shares any, by the one *)
(* at its position, whatever that one is about.                            *)
Overlap(old, group) == Cardinality(rows[old].links \cap group)

Replacements(old, groups) ==
  {g \in groups : \A h \in groups : Overlap(old, h) <= Overlap(old, g)}

\* Random in the code, here the run and the group it is for.
SummaryId(run, group) == <<"con", run, group>>

Consolidate(q, day) ==
  LET S == Candidates(q)
      groups == Groups(S)
      run == Len(records) + 1
      previous == IF q.force THEN PreviousOutputs(q) ELSE {}
      new == {SummaryId(run, g) : g \in groups}
  IN  /\ S # {}
      /\ ~q.force => ~Recorded(q, S)
      /\ run <= budget.runs
      /\ new \cap (DOMAIN rows \cup {None}) = {}    \* a random id is nobody's
      /\ \E to \in [previous -> groups] :
           /\ \A old \in previous : to[old] \in Replacements(old, groups)
           /\ rows' = Over([i \in new |-> Output(i[3], q, day)],
                           [i \in DOMAIN rows |->
                             IF i \in previous
                             THEN [rows[i] EXCEPT !.supersededBy = SummaryId(run, to[i])]
                             ELSE rows[i]])
      /\ records' = Append(records, [request |-> q, sources |-> S,
                                     outputs |-> new])
      /\ UNCHANGED <<tombs, budget>>

----
(* What clients do to memories in between. *)

\* remember, evidence_event, normalize_import_event.
Labelled(r) == IF r.label = "normal" THEN [r EXCEPT !.label = r.found] ELSE r

\* put of a labelled memory: superseded_by is overwritten too.
Submit(e) ==
  /\ e.id \notin tombs
  /\ e.row.found # "secret"
  /\ rows' = Over([i \in {e.id} |-> Labelled(e.row)], rows)
  /\ UNCHANGED <<tombs, records, budget>>

\* The new id may be anything, a missing old one is not an error.
Supersede(old, new) ==
  /\ old \in DOMAIN rows
  /\ rows' = [rows EXCEPT ![old].supersededBy = new]
  /\ UNCHANGED <<tombs, records, budget>>

\* Mutant of Redacted: superseded_by goes with the other links.
RedactedAfresh(r) ==
  [r EXCEPT !.kind = "redacted", !.source = "manual", !.ref = None, !.project = None,
            !.by = [k \in Producers |-> None],
            !.scope = IF @ \in Producers THEN "manual" ELSE @,
            !.label = "private", !.found = "normal", !.review = FALSE,
            !.says = None, !.links = {}, !.root = None, !.supersedes = {}, !.supersededBy = None]

\* MemoryEvent::redact as redact_in_transaction applies it.
Redacted(r) ==
  [r EXCEPT !.kind = "redacted", !.source = "manual", !.ref = None, !.project = None,
            !.by = [k \in Producers |-> None],
            !.scope = IF @ \in Producers THEN "manual" ELSE @,
            !.label = "private", !.found = "normal", !.review = FALSE,
            !.says = None, !.links = {}, !.root = None, !.supersedes = {}]

Redact(i) ==
  /\ i \in DOMAIN rows
  /\ rows' = [rows EXCEPT ![i] = Redacted(@)]
  /\ tombs' = tombs \cup {i}
  /\ UNCHANGED <<records, budget>>

Delete(i) ==
  /\ i \in DOMAIN rows
  /\ rows' = [j \in DOMAIN rows \ {i} |-> rows[j]]
  /\ tombs' = tombs \ {i}
  /\ UNCHANGED <<records, budget>>

\* Consolidations run on day 1, after the memories of day 0 and 1.
ConsolidationInit == rows \in Before /\ tombs = {} /\ records = <<>> /\ budget \in Budgets
ConsolidationNext ==
  \/ \E q \in Requests : Consolidate(q, 1)
  \/ \E e \in Submissions : Submit(e)
  \/ \E p \in budget.replace : Supersede(p[1], p[2])
  \/ \E i \in budget.forget : Redact(i) \/ Delete(i)

----
(* Properties *)

(* docs/protocol/memory-event.md, "Partition-Aware Lifecycle Behavior":    *)
(* a summary of a consolidation speaks for one project and one partition,  *)
(* its producer is one all its sources share, nothing secret went into it, *)
(* and one that a sensitive memory went into is private and up for review. *)
SpeaksForItsSources(i) ==
  LET o == rows'[i]
  IN  \A j \in o.links :
        /\ rows[j].project = o.project /\ rows[j].scope = o.scope
        /\ o.scope \in Producers => o.by[o.scope] = rows[j].by[o.scope]
        /\ \A k \in Producers : o.by[k] \in {None, rows[j].by[k]}
        /\ "secret" \notin {rows[j].label, rows[j].found}
        /\ {rows[j].label, rows[j].found} # {"normal"} => o.label = "private" /\ o.review

PartitionsKept ==
  [][Len(records') > Len(records) =>
       \A i \in records'[Len(records')].outputs : SpeaksForItsSources(i)]_store

(* After a forced consolidation no earlier summary of its period that is   *)
(* visible to the request stays live beside the new ones, whatever clients *)
(* did to sources and summaries since.                                     *)
ForceReplaces ==
  [][Len(records') > Len(records) =>
       LET r == records'[Len(records')]
       IN  r.request.force => \A i \in PreviousOutputs(r.request) :
                                rows'[i].supersededBy \in r.outputs]_store

(* README: "Persisted consolidation is idempotent for the same period and  *)
(* source-memory set unless --force is provided" -- also after a summary   *)
(* of the first run was redacted, replaced or deleted.                     *)
OncePerSourceSet ==
  \A m, n \in DOMAIN records :
    m < n /\ SamePeriod(m, records[n].request) /\ records[m].sources = records[n].sources
      => records[n].request.force

(* Summaries speak for one partition, are made once for a set of sources,  *)
(* and a forced one takes the place of all before it.                      *)
SummariesHonest == []OncePerSourceSet /\ PartitionsKept /\ ForceReplaces
====
