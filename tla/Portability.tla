---- MODULE Portability ----
(***************************************************************************)
(* Export, import and audit of the store that Consolidation and SourceSync *)
(* write.  A file is a sequence of [id, row], in the order of its lines;   *)
(* the last one exported, or one from elsewhere: written by hand, by an    *)
(* older version, or by another store.  Importing validates every line,    *)
(* decides under the write lock which to write, writes them and applies    *)
(* their supersedes lists, all in one transaction.  Audits only read:      *)
(* their findings are functions of the table.                              *)
(***************************************************************************)
EXTENDS SourceSync

\* budget.files holds the files that come from elsewhere, budget.exports
\* whether this store is exported.
VARIABLE file
vars == <<syncVars, file>>

----
(* Export: list_all, filtered by the label alone. *)

\* Some order of the ids S: one after the other is taken from what is left.
Listed(S) ==
  LET left[n \in Nat] == IF n = 0 THEN S ELSE LET rest == left[n - 1] IN rest \ {CHOOSE i \in rest : TRUE}
  IN  [n \in 1 .. Cardinality(S) |-> CHOOSE i \in left[n - 1] : TRUE]

\* One line per memory, in the order list_all gives them.
Encoded(m, kept) ==
  LET order == Listed(kept) IN [n \in DOMAIN order |-> [id |-> order[n], row |-> m[order[n]]]]

Exported(m, sensitive, superseded) ==
  LET kept == {i \in DOMAIN m : /\ superseded \/ m[i].supersededBy = None
                                /\ sensitive \/ m[i].label = "normal"}
  IN  Encoded(m, kept)

----
(* Import *)

\* synthetic_legacy_private_scope_identity: a hash of both.
Legacy(scope, id) == <<"legacy", scope, id>>

\* Mutant of Identified: the name made up is one for all.
IdentifiedTogether(e) ==
  IF e.row.scope \in Producers /\ e.row.by[e.row.scope] = None
  THEN [e.row EXCEPT !.by[e.row.scope] = Legacy(e.row.scope, None), !.review = TRUE]
  ELSE e.row

\* normalize_legacy_private_scope_identity
Identified(e) ==
  IF e.row.scope \in Producers /\ e.row.by[e.row.scope] = None
  THEN [e.row EXCEPT !.by[e.row.scope] = Legacy(e.row.scope, e.id), !.review = TRUE]
  ELSE e.row

Normalised(events) ==
  [n \in DOMAIN events |-> [id |-> events[n].id, row |-> Labelled(Identified(events[n]))]]

\* The lines that are written: of an id that is there, or that an earlier
\* line brings, only when existing ids are replaced.
Planned(m, events, replace) ==
  {n \in DOMAIN events :
     replace \/ events[n].id \notin DOMAIN m \cup {events[k].id : k \in 1 .. n - 1}}

(* One secret refuses the whole file, written or not; so does a line for a *)
(* redacted id, unless it holds the redaction (is_sanitized_redaction).    *)
CanImport(m, gone, events, replace) ==
  /\ \A n \in DOMAIN events : events[n].row.found # "secret"
  /\ \A n \in Planned(m, events, replace) :
       events[n].id \in gone => events[n].row = Redacted(events[n].row)

\* The table m after the import: all puts, then all supersedes lists.
Imported(m, events, replace) ==
  LET plan == Planned(m, events, replace)
      line == [i \in {events[n].id : n \in plan} |-> Max({n \in plan : events[n].id = i})]
      put == Over([i \in DOMAIN line |-> events[line[i]].row], m)
      claims == [i \in DOMAIN put |-> {n \in plan : i \in events[n].row.supersedes}]
  IN  [i \in DOMAIN put |->
         IF claims[i] = {} THEN put[i]
         ELSE [put[i] EXCEPT !.supersededBy = events[Max(claims[i])].id]]

----
(* audit_memories: findings are [type, severity, id, other]. *)

AuditTypes == {"stale", "sensitive", "low_confidence", "supersession", "contradictions"}

Finding(type, severity, id, other) == [type |-> type, severity |-> severity, id |-> id, other |-> other]

StaleFindings(m) ==
  {Finding("stale", "medium", i, None) : i \in {j \in DOMAIN m : m[j].expires \in {"invalid", "past"}}}

SensitiveFindings(m) ==
  LET labelled == {i \in DOMAIN m : m[i].label # "normal"}
  IN  {Finding("sensitive", "critical", i, None) : i \in {j \in labelled : m[j].label = "secret"}}
        \cup {Finding("sensitive", "high", i, None) : i \in {j \in labelled : m[j].durable}}
        \cup {Finding("sensitive", "medium", i, None) : i \in {j \in labelled : m[j].expires = "never"}}

LowConfidenceFindings(m) ==
  {Finding("low_confidence", "high", i, None) :
     i \in {j \in DOMAIN m : m[j].ring = "heartwood" /\ m[j].confidence < 75}}
    \cup {Finding("low_confidence", "medium", i, None) :
            i \in {j \in DOMAIN m : m[j].durable /\ m[j].confidence < 50}}

\* Mutant of SupersessionFindings: links to nothing are no finding.
SupersessionUnfollowed(m) ==
  {Finding("supersession", "high", i, None) : i \in {j \in DOMAIN m : j \in m[j].supersedes}}
    \cup UNION {{Finding("supersession", "medium", i, old) :
                   old \in {o \in m[i].supersedes : o \notin DOMAIN m \/ m[o].supersededBy # i}} :
                 i \in DOMAIN m}

SupersessionFindings(m) ==
  {Finding("supersession", "high", i, None) : i \in {j \in DOMAIN m : j \in m[j].supersedes}}
    \cup {Finding("supersession", "high", i, m[i].supersededBy) :
            i \in {j \in DOMAIN m : m[j].supersededBy \notin DOMAIN m \cup {None}}}
    \cup UNION {{Finding("supersession", "medium", i, old) :
                   old \in {o \in m[i].supersedes : o \notin DOMAIN m \/ m[o].supersededBy # i}} :
                 i \in DOMAIN m}

\* Opposite directives about one subject in one partition under a common tag.
Contradict(r, s) ==
  /\ r.says # None /\ s.says # None
  /\ r.says.verb = "use" /\ s.says.verb = "avoid"
  /\ r.says.subject = s.says.subject /\ r.says.tags \cap s.says.tags # {}
  /\ Partition(r) = Partition(s) /\ r.kind = s.kind

ContradictionFindings(m) ==
  {Finding("contradictions", "medium", p[1], p[2]) :
     p \in {q \in (DOMAIN m) \X (DOMAIN m) : Contradict(m[q[1]], m[q[2]])}}

Findings == [stale |-> StaleFindings(rows), sensitive |-> SensitiveFindings(rows),
             low_confidence |-> LowConfidenceFindings(rows),
             supersession |-> SupersessionFindings(rows),
             contradictions |-> ContradictionFindings(rows)]

Audit(type) == UNION {Findings[t] : t \in {u \in AuditTypes : type \in {"all", u}}}

----
\* Files from elsewhere are sequences of memories with ids.
ASSUME FilesAssumption ==
  \A b \in Budgets : \A f \in b.files :
    /\ Len(f) \in Nat /\ DOMAIN f = 1 .. Len(f)
    /\ \A n \in DOMAIN f : f[n].id # None /\ IsMemory(f[n].row) /\ HonestRow(f[n].row)

Export(sensitive, superseded) ==
  /\ budget.exports /\ file = None
  /\ file' = Exported(rows, sensitive, superseded)
  /\ UNCHANGED syncVars

\* A dry run validates and changes nothing.
Import(lines, replace) ==
  LET events == Normalised(lines)
  IN  /\ CanImport(rows, tombs, events, replace)
      /\ rows' = Imported(rows, events, replace)
      /\ UNCHANGED <<tombs, records, budget, tree, preview, edits, file>>

Files == budget.files \cup (IF file = None THEN {} ELSE {file})

Init == SyncInit /\ file = None

Next ==
  \/ SyncNext /\ UNCHANGED file
  \/ \E sensitive, superseded \in BOOLEAN : Export(sensitive, superseded)
  \/ \E lines \in Files, replace \in BOOLEAN : Import(lines, replace)

Spec == Init /\ [][Next]_vars

----
(* Properties *)

TypeOK ==
  /\ tombs \subseteq DOMAIN rows
  /\ \A i \in tombs : rows[i] = Redacted(rows[i])
  /\ \A n \in DOMAIN records : records[n].sources \cap records[n].outputs = {}
  /\ \A r \in Roots : preview[r] # None =>
       \A d, e \in preview[r].events : d.id = e.id => d = e

(* README: "replacement import cannot restore the payload", and the audit's *)
(* "Redact or delete this memory": whatever files are imported over it, a  *)
(* redacted memory never again says anything, is no secret and takes part  *)
(* in no contradiction until it is deleted.                                *)
RedactionsHold ==
  \A i \in tombs :
    /\ rows[i].found = "normal" /\ rows[i].says = None /\ rows[i].links = {}
    /\ \A f \in Audit("all") :
         i \in {f.id, f.other} => f.type # "contradictions" /\ f.severity # "critical"

(* A store whose supersession audit finds nothing can be rebuilt from its  *)
(* export: with either filter, the file it writes, imported into an empty  *)
(* store, gives exactly the memories that were exported.                   *)
CleanRestores ==
  Audit("supersession") = {} =>
    \A sensitive, superseded \in BOOLEAN :
      LET events == Normalised(Exported(rows, sensitive, superseded))
          copy == Imported(<<>>, events, FALSE)
      IN  /\ Cardinality(DOMAIN copy) = Len(events)
          /\ \A n \in DOMAIN events : copy[events[n].id] = events[n].row

(* Where following superseded_by from i ends: in a live memory, in an id   *)
(* without one, or, on a cycle, nowhere.                                   *)
LastOf(i) ==
  LET path[n \in Nat] ==
        IF n = 0 THEN i
        ELSE LET j == path[n - 1]
             IN  IF j \notin DOMAIN rows \/ rows[j].supersededBy = None THEN j
                 ELSE rows[j].supersededBy
  IN  path[Cardinality(DOMAIN rows)]

(* A memory that recall hides in favour of one that is gone, however many  *)
(* replacements, deletions, filtered exports and imports later, is named   *)
(* by the supersession audit through the missing id.                       *)
LostIsReported ==
  \A i \in DOMAIN rows :
    LastOf(i) \notin DOMAIN rows =>
      \E f \in Audit("supersession") : f.other = LastOf(i) /\ f.severity = "high"

(* README: "excludes sensitive ... memories unless --include-sensitive".   *)
(* The filter reads labels, so every writer must have set them: what an    *)
(* export without the flag shows of what the guard detects was in the      *)
(* store since before this version wrote to it.                            *)
ExportGuarded ==
  LET lines == Exported(rows, FALSE, TRUE)
  IN  \A n \in DOMAIN lines : lines[n].row.found # "normal" =>
        \E b \in Before : lines[n].id \in DOMAIN b /\ b[lines[n].id].found = lines[n].row.found

(* README: private records without an identity get "a deterministic,       *)
(* per-record legacy-* partition ... instead of being widened": no summary *)
(* ever speaks for two memories whose producer nobody has named.           *)
Written ==
  {e.row : e \in Submissions}
    \cup (UNION {Range(b) : b \in Before})
    \cup {e.row : e \in UNION {Range(f) : f \in budget.files}}

Named == {None} \cup {r.by[k] : r \in Written, k \in Producers}

Unnamed(i) == rows[i].scope \in Producers /\ rows[i].by[rows[i].scope] \notin Named

LegacyApart ==
  [][Len(records') > Len(records) =>
       \A o \in records'[Len(records')].outputs :
         \A i, j \in rows'[o].links : Unnamed(i) /\ Unnamed(j) => i = j]_vars

(* A superseded memory is live again only as someone has written it anew:  *)
(* a client, a sync, or an import of a file that holds it live; no         *)
(* redaction, consolidation or restore of a backup that knows better does. *)
RevivedOnlyByAWrite ==
  [][\A i \in DOMAIN rows \cap DOMAIN rows' :
       rows[i].supersededBy # None /\ rows'[i].supersededBy = None =>
         \/ \E e \in Submissions : e.id = i /\ rows'[i] = Labelled(e.row)
         \/ \E r \in Roots : preview[r] # None /\ \E e \in preview[r].events :
              e.id = i /\ rows'[i] = e.row
         \/ \E lines \in Files : \E n \in DOMAIN lines :
              lines[n].id = i /\ lines[n].row.supersededBy = None]_vars

(* Whatever clients, syncs, consolidations and imports do in whatever      *)
(* order, what was redacted stays without content, and what was replaced   *)
(* stays replaced until somebody writes it anew.                           *)
NothingComesBack == [](TypeOK /\ RedactionsHold) /\ RevivedOnlyByAWrite

(* The audit misses no loss: what it does not report can be restored.      *)
LossesReported == CleanRestores /\ LostIsReported

(* What is private reaches neither an export that leaves it out nor a      *)
(* summary of somebody else's memories.                                    *)
PrivateStaysApart == []ExportGuarded /\ LegacyApart
====
