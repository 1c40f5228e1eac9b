---- MODULE Portability_proofs ----
(***************************************************************************)
(* Theorems about consolidation, syncs, exports, imports and audits: for   *)
(* every store, every client, every set of source files and every file     *)
(* that is imported.  Everything rests on one inductive invariant: each    *)
(* row is sound by itself (Sound), tombstoned rows are redacted, records   *)
(* are made once for a set of sources, the lines of every file are such    *)
(* memories, and previews hold what the files of their root gave.  What    *)
(* the recursive functions of the model compute is proved from two lemmas, *)
(* StepByStep (induction over a set) and Recursion (such functions exist). *)
(***************************************************************************)
EXTENDS Portability, FiniteSetTheorems, SequenceTheorems, WellFoundedInduction, TLAPS

----
(* Rows *)

\* Whose memory it is: a name that somebody gave, or, until a consolidation
\* passes it on, the one that an import made up for this very id.
Identity(N, i, r) ==
  r.scope \in Producers =>
    \/ r.by[r.scope] \in N
    \/ r.by[r.scope] = Legacy(r.scope, i)
    \/ r.kind = "summary" /\ r.source = "consolidation"

Given(N, i, r) == IsMemory(r) /\ i # None /\ HonestRow(r) /\ Identity(N, i, r)

\* What the guard finds is written down, or it is older than the guard.
Guarded(i, r) ==
  r.label = "normal" /\ r.found # "normal" =>
    \E b \in Before : i \in DOMAIN b /\ b[i].found = r.found

Sound(N, i, r) == Given(N, i, r) /\ Guarded(i, r)

\* The fields of a memory, as the provers see them.
LEMMA FieldsOf ==
  DOMAIN NewMemory =
    {"kind", "source", "ref", "project", "scope", "by", "ring", "label", "found", "review",
     "created", "salience", "confidence", "durable", "expires", "says", "links", "root",
     "supersedes", "supersededBy"}
BY DEF NewMemory

LEMMA MemoryFields ==
  ASSUME NEW r, IsMemory(r)
  PROVE  DOMAIN r = DOMAIN NewMemory
BY DEF IsMemory

LEMMA SupersededSound ==
  ASSUME NEW N, NEW i, NEW r, Sound(N, i, r), NEW v
  PROVE  Sound(N, i, [r EXCEPT !.supersededBy = v])
<1> DEFINE s == [r EXCEPT !.supersededBy = v]
<1>0. DOMAIN r = DOMAIN NewMemory
  BY MemoryFields DEF Sound, Given
<1>1. /\ DOMAIN s = DOMAIN r
      /\ s.kind = r.kind /\ s.source = r.source /\ s.scope = r.scope /\ s.by = r.by
      /\ s.label = r.label /\ s.found = r.found /\ s.root = r.root
  BY <1>0, FieldsOf
<1>2. IsMemory(s)
  BY <1>0, <1>1 DEF IsMemory, Sound, Given
<1>3. [s EXCEPT !.supersededBy = None] = [r EXCEPT !.supersededBy = None]
  BY <1>0, FieldsOf
<1> HIDE DEF s
<1>4. HonestRow(s)
  BY <1>1, <1>3 DEF HonestRow, Sound, Given
<1>5. Sound(N, i, s)
  BY <1>1, <1>2, <1>4 DEF Sound, Given, Guarded, Identity
<1> QED
  BY <1>5 DEF s

\* What a redaction leaves and what it takes.
IsRedacted(s) ==
  /\ s.kind = "redacted" /\ s.source = "manual" /\ s.ref = None /\ s.project = None
  /\ s.by = [k \in Producers |-> None] /\ s.scope \notin Producers
  /\ s.label = "private" /\ s.found = "normal" /\ s.review = FALSE
  /\ s.says = None /\ s.links = {} /\ s.root = None /\ s.supersedes = {}

LEMMA RedactedFields ==
  ASSUME NEW r, IsMemory(r)
  PROVE  /\ DOMAIN Redacted(r) = DOMAIN NewMemory
         /\ IsRedacted(Redacted(r))
         /\ Redacted(r).supersededBy = r.supersededBy
BY MemoryFields, FieldsOf DEF Redacted, Producers, IsRedacted

LEMMA RedactedIsMemory ==
  ASSUME NEW r, IsMemory(r)
  PROVE  IsMemory(Redacted(r))
<1> DEFINE s == Redacted(r)
           keep(f) == r[f]
<1>1. DOMAIN r = DOMAIN NewMemory
  BY MemoryFields
<1>2. r = [f \in DOMAIN NewMemory |-> keep(f)]
  BY DEF IsMemory
<1>3. DOMAIN s.by = Producers /\ DOMAIN s = DOMAIN NewMemory
  BY RedactedFields DEF IsRedacted
<1>4. s = [f \in DOMAIN s |-> s[f]]
  BY <1>1, Zenon DEF Redacted
<1> QED
  BY <1>3, <1>4 DEF IsMemory

LEMMA RedactedSound ==
  ASSUME NEW N, NEW i, NEW r, Sound(N, i, r)
  PROVE  Sound(N, i, Redacted(r))
<1> DEFINE s == Redacted(r)
<1>1. IsMemory(r) /\ i # None
  BY DEF Sound, Given
<1>2. IsRedacted(s) /\ IsMemory(s)
  BY <1>1, RedactedFields, RedactedIsMemory
<1> HIDE DEF s
<1>3. Sound(N, i, s)
  BY <1>1, <1>2 DEF Sound, Given, Guarded, Identity, HonestRow, IsRedacted
<1> QED
  BY <1>3 DEF s

\* A redaction takes everything at once, and a replacement brings none of it back.
LEMMA RedactedFixed ==
  ASSUME NEW s, IsMemory(s), IsRedacted(s)
  PROVE  Redacted(s) = s
<1> DEFINE u == Redacted(s)
<1>0. DOMAIN s = DOMAIN NewMemory /\ s = [f \in DOMAIN NewMemory |-> s[f]]
  BY MemoryFields DEF IsMemory
<1>1. IsRedacted(u) /\ IsMemory(u)
  BY RedactedFields, RedactedIsMemory
<1>2. /\ u.scope = s.scope /\ u.ring = s.ring /\ u.created = s.created /\ u.salience = s.salience
      /\ u.confidence = s.confidence /\ u.durable = s.durable /\ u.expires = s.expires
      /\ u.supersededBy = s.supersededBy
  BY <1>0, FieldsOf DEF Redacted, IsRedacted
<1> HIDE DEF u
<1>2a. /\ u.kind = s.kind /\ u.source = s.source /\ u.ref = s.ref /\ u.project = s.project
       /\ u.by = s.by /\ u.label = s.label /\ u.found = s.found /\ u.review = s.review
       /\ u.says = s.says /\ u.links = s.links /\ u.root = s.root
       /\ u.supersedes = s.supersedes
  BY <1>1 DEF IsRedacted
<1>3. \A f \in DOMAIN NewMemory : u[f] = s[f]
  BY <1>2, <1>2a, FieldsOf
<1>4. u = [f \in DOMAIN NewMemory |-> u[f]]
  BY <1>1 DEF IsMemory
<1>5. u = s
  BY <1>0, <1>3, <1>4
<1> QED
  BY <1>5 DEF u

LEMMA RedactedTwice ==
  ASSUME NEW r, IsMemory(r)
  PROVE  Redacted(Redacted(r)) = Redacted(r)
BY RedactedFields, RedactedIsMemory, RedactedFixed

LEMMA RedactedSuperseded ==
  ASSUME NEW r, IsMemory(r), r = Redacted(r), NEW v
  PROVE  [r EXCEPT !.supersededBy = v] = Redacted([r EXCEPT !.supersededBy = v])
<1> DEFINE s == [r EXCEPT !.supersededBy = v]
<1>0. DOMAIN r = DOMAIN NewMemory /\ DOMAIN r.by = Producers
  BY MemoryFields DEF IsMemory
<1>1. IsRedacted(r)
  BY RedactedFields
<1>2. s = [f \in DOMAIN NewMemory |-> IF f = "supersededBy" THEN v ELSE r[f]]
  BY <1>0, FieldsOf
<1> HIDE DEF s
<1>3. IsRedacted(s) /\ s.by = r.by
  BY <1>1, <1>2, FieldsOf DEF IsRedacted
<1>4. s = [f \in DOMAIN NewMemory |-> s[f]]
  BY <1>2
<1>5. IsMemory(s)
  BY <1>0, <1>3, <1>4 DEF IsMemory
<1>6. Redacted(s) = s
  BY <1>3, <1>5, RedactedFixed
<1> QED
  BY <1>6 DEF s

----
(* Labels *)

LEMMA LabelledFields ==
  ASSUME NEW r, IsMemory(r)
  PROVE  /\ IsMemory(Labelled(r))
         /\ Labelled(r).kind = r.kind /\ Labelled(r).source = r.source
         /\ Labelled(r).scope = r.scope /\ Labelled(r).by = r.by
         /\ Labelled(r).found = r.found /\ Labelled(r).root = r.root
         /\ Labelled(r).supersedes = r.supersedes
         /\ Labelled(r).supersededBy = r.supersededBy
         /\ Labelled(r).label = "normal" => r.found = "normal"
<1> DEFINE s == Labelled(r)
<1>0. DOMAIN r = DOMAIN NewMemory
  BY MemoryFields
<1>1. CASE r.label # "normal"
  BY <1>1 DEF Labelled
<1>2. CASE r.label = "normal"
  <2>1. s = [r EXCEPT !.label = r.found]
    BY <1>2 DEF Labelled
  <2> HIDE DEF s
  <2>2. /\ DOMAIN s = DOMAIN r
        /\ s.kind = r.kind /\ s.source = r.source /\ s.scope = r.scope /\ s.by = r.by
        /\ s.found = r.found /\ s.root = r.root /\ s.supersedes = r.supersedes
        /\ s.supersededBy = r.supersededBy /\ s.label = r.found
    BY <2>1, <1>0, FieldsOf
  <2>3. IsMemory(s)
    BY <2>1, <2>2, <1>0 DEF IsMemory
  <2> QED
    BY <2>2, <2>3 DEF s
<1> QED
  BY <1>1, <1>2

\* A row of a root's files is labelled already.
LEMMA SayingsLabelled ==
  ASSUME NEW root, NEW s \in Sayings(root)
  PROVE  s.label = s.found /\ s.supersededBy = None /\ s.source = "dox" /\ s.scope = "dox"
<1>1. PICK f, n : s = DoxRow(root, f, n)
  BY DEF Sayings
<1> QED
  BY <1>1, FieldsOf DEF DoxRow, SectionRow, Adapted, NewMemory

LEMMA LabelledHonest ==
  ASSUME NEW r, IsMemory(r), HonestRow(r)
  PROVE  HonestRow(Labelled(r))
<1> DEFINE s == Labelled(r)
           bare == [r EXCEPT !.supersededBy = None]
<1>0. DOMAIN r = DOMAIN NewMemory
  BY MemoryFields
<1>1. CASE r.label # "normal"
  BY <1>1 DEF Labelled
<1>2. CASE r.label = "normal" /\ r.source = "dox" /\ r.root # None
  <2>1. bare \in Sayings(r.root)
    BY <1>2 DEF HonestRow
  <2>2. bare.label = bare.found
    BY <2>1, SayingsLabelled
  <2>3. r.found = "normal"
    BY <2>2, <1>2, <1>0, FieldsOf
  <2>4. s = [r EXCEPT !.label = r.found]
    BY <1>2 DEF Labelled
  <2> HIDE DEF s
  <2>5. [s EXCEPT !.supersededBy = None] = bare
    BY <2>4, <2>3, <1>2, <1>0, FieldsOf
  <2>6. s.root = r.root
    BY LabelledFields DEF s
  <2> QED
    BY <2>1, <2>5, <2>6 DEF HonestRow, s
<1>3. CASE r.source # "dox" \/ r.root = None
  BY <1>3, LabelledFields DEF HonestRow
<1> QED
  BY <1>1, <1>2, <1>3

LEMMA LabelledSound ==
  ASSUME NEW N, NEW i, NEW r, Given(N, i, r)
  PROVE  Sound(N, i, Labelled(r))
BY LabelledFields, LabelledHonest DEF Sound, Given, Guarded, Identity

----
(* Consolidation *)

LEMMA FirstOf ==
  ASSUME NEW S, S # {}
  PROVE  (CHOOSE i \in S : TRUE) \in S
OBVIOUS

\* A summary has its own text and passes on what it may say of its sources.
OutputIsSummary(o) ==
  /\ IsMemory(o) /\ o.kind = "summary" /\ o.source = "consolidation"
  /\ o.found = "normal" /\ o.supersededBy = None

OutputSpeaksFor(o, S, r) ==
  /\ o.project = r.project /\ o.scope = r.scope
  /\ o.by = [k \in Producers |-> Uniform(S, k)] /\ o.links = S
  /\ EffectiveSensitivity(r) # "normal" => o.label = "private" /\ o.review

LEMMA OutputFields ==
  ASSUME NEW S, NEW q, NEW day
  PROVE  /\ OutputIsSummary(Output(S, q, day))
         /\ OutputSpeaksFor(Output(S, q, day), S, rows[CHOOSE i \in S : TRUE])
<1> DEFINE o == Output(S, q, day)
           r == rows[CHOOSE i \in S : TRUE]
           e == EffectiveSensitivity(r) # "normal"
           label == IF e THEN "private" ELSE "normal"
           ring == OutputRing(S, r, q.type)
           salience == Average(S, "salience")
           confidence == Average(S, "confidence")
           by == [k \in Producers |-> Uniform(S, k)]
<1>1. o = [NewMemory EXCEPT
             !.kind = "summary", !.source = "consolidation", !.ref = <<q.type, q.key>>,
             !.project = r.project, !.scope = r.scope, !.by = by,
             !.ring = ring, !.label = label,
             !.review = e, !.created = day, !.salience = salience,
             !.confidence = confidence, !.links = S]
  BY Zenon DEF Output
<1> HIDE DEF label, e, ring, salience, confidence, by, r, o
<1>2. /\ DOMAIN o = DOMAIN NewMemory
      /\ o.kind = "summary" /\ o.source = "consolidation" /\ o.found = NewMemory.found
      /\ o.project = r.project /\ o.scope = r.scope /\ o.by = by
      /\ o.label = label /\ o.review = e
      /\ o.links = S /\ o.supersededBy = NewMemory.supersededBy
  BY <1>1, FieldsOf
<1>3. o = [f \in DOMAIN NewMemory |-> o[f]]
  BY <1>1, <1>2
<1>4. DOMAIN by = Producers
  BY DEF by
<1>5. IsMemory(o)
  BY <1>2, <1>3, <1>4 DEF IsMemory
<1>6. NewMemory.found = "normal" /\ NewMemory.supersededBy = None
  BY DEF NewMemory
<1>7. /\ IsMemory(o)
      /\ o.kind = "summary" /\ o.source = "consolidation" /\ o.found = "normal"
      /\ o.project = r.project /\ o.scope = r.scope
      /\ o.by = by /\ (e => o.label = "private" /\ o.review)
      /\ o.links = S /\ o.supersededBy = None
  BY <1>2, <1>5, <1>6 DEF label
<1> QED
  BY <1>7, Zenon DEF o, r, by, e, OutputIsSummary, OutputSpeaksFor

LEMMA OutputSound ==
  ASSUME NEW N, NEW i, i # None, NEW S, NEW q, NEW day
  PROVE  Sound(N, i, Output(S, q, day))
<1> DEFINE o == Output(S, q, day)
<1>1. IsMemory(o) /\ o.kind = "summary" /\ o.source = "consolidation" /\ o.found = "normal"
  BY OutputFields DEF OutputIsSummary
<1> HIDE DEF o
<1>2. Sound(N, i, o)
  BY <1>1 DEF Sound, Given, Guarded, HonestRow, Identity
<1> QED
  BY <1>2 DEF o

\* The members of a group agree on what its key holds.
LEMMA GroupMembers ==
  ASSUME NEW S, NEW g \in Groups(S)
  PROVE  /\ g # {} /\ g \subseteq S
         /\ \A i, j \in g : GroupKey(rows[i]) = GroupKey(rows[j])
BY DEF Groups, Range

LEMMA KeyParts ==
  ASSUME NEW r, NEW s, GroupKey(r) = GroupKey(s)
  PROVE  /\ r.project = s.project /\ r.scope = s.scope
         /\ r.scope \in Producers => r.by[r.scope] = s.by[r.scope]
         /\ EffectiveSensitivity(r) = "normal" <=> EffectiveSensitivity(s) = "normal"
<1>1. Partition(r) = Partition(s)
  BY Zenon DEF GroupKey
<1>2. EffectiveSensitivity(r) = "normal" <=> EffectiveSensitivity(s) = "normal"
  BY DEF GroupKey
<1>3. r.project = s.project /\ r.scope = s.scope
  BY <1>1, Zenon DEF Partition
<1>4. (IF r.scope \in Producers THEN r.by[r.scope] ELSE None)
        = (IF s.scope \in Producers THEN s.by[s.scope] ELSE None)
  BY <1>1, Zenon DEF Partition
<1> QED
  BY <1>2, <1>3, <1>4

LEMMA UniformIs ==
  ASSUME NEW S, NEW k, NEW j \in S
  PROVE  /\ Uniform(S, k) \in {None, rows[j].by[k]}
         /\ (\A i \in S : rows[i].by[k] = rows[j].by[k]) => Uniform(S, k) = rows[j].by[k]
<1>1. (CHOOSE i \in S : TRUE) \in S
  BY FirstOf
<1> QED
  BY <1>1 DEF Uniform

\* What a summary says of its group is true of every member.
LEMMA SummarySpeaks ==
  ASSUME NEW q, NEW g \in Groups(Candidates(q)), NEW day, NEW i,
         rows'[i] = Output(g, q, day)
  PROVE  SpeaksForItsSources(i)
<1> DEFINE o == Output(g, q, day)
           r == rows[CHOOSE j \in g : TRUE]
<1>1. OutputSpeaksFor(o, g, r)
  BY OutputFields
<1> HIDE DEF o
<1>2. r = rows[CHOOSE j \in g : TRUE] /\ (CHOOSE j \in g : TRUE) \in g
  BY GroupMembers, FirstOf
<1> HIDE DEF r
<1>3. ASSUME NEW j \in g
      PROVE  /\ rows[j].project = o.project /\ rows[j].scope = o.scope
             /\ o.scope \in Producers => o.by[o.scope] = rows[j].by[o.scope]
             /\ \A k \in Producers : o.by[k] \in {None, rows[j].by[k]}
             /\ "secret" \notin {rows[j].label, rows[j].found}
             /\ {rows[j].label, rows[j].found} # {"normal"} => o.label = "private" /\ o.review
  <2>1. \A l \in g : GroupKey(rows[l]) = GroupKey(rows[j])
    BY GroupMembers
  <2>2. GroupKey(r) = GroupKey(rows[j])
    BY <1>2, <2>1
  <2>3. /\ r.project = rows[j].project /\ r.scope = rows[j].scope
        /\ EffectiveSensitivity(r) = "normal" <=> EffectiveSensitivity(rows[j]) = "normal"
    BY <2>2, KeyParts
  <2>4. rows[j].project = o.project /\ rows[j].scope = o.scope
    BY <1>1, <2>3 DEF OutputSpeaksFor
  <2>5. \A k \in Producers : o.by[k] = Uniform(g, k)
    BY <1>1 DEF OutputSpeaksFor
  <2>6. \A k \in Producers : o.by[k] \in {None, rows[j].by[k]}
    BY <2>5, UniformIs
  <2>7. ASSUME o.scope \in Producers PROVE o.by[o.scope] = rows[j].by[o.scope]
    <3>1. ASSUME NEW l \in g PROVE rows[l].by[o.scope] = rows[j].by[o.scope]
      <4>1. GroupKey(rows[j]) = GroupKey(rows[l])
        BY <2>1
      <4> QED
        BY <4>1, <2>4, <2>7, KeyParts
    <3> QED
      BY <3>1, <2>5, <2>7, UniformIs
  <2>8. j \in Candidates(q)
    BY GroupMembers
  <2>9. EffectiveSensitivity(rows[j]) # "secret"
    BY <2>8 DEF Candidates, IsCandidate
  <2>10. "secret" \notin {rows[j].label, rows[j].found}
    BY <2>9 DEF EffectiveSensitivity
  <2>11. ASSUME {rows[j].label, rows[j].found} # {"normal"} PROVE o.label = "private" /\ o.review
    <3>1. EffectiveSensitivity(rows[j]) # "normal"
      BY <2>10, <2>11 DEF EffectiveSensitivity
    <3> QED
      BY <3>1, <2>3, <1>1 DEF OutputSpeaksFor
  <2> QED
    BY <2>4, <2>6, <2>7, <2>10, <2>11
<1>4. o.links = g /\ rows'[i] = o
  BY <1>1 DEF OutputSpeaksFor, o
<1> QED
  BY <1>3, <1>4 DEF SpeaksForItsSources

----
(* Imports *)

LEMMA IdentifiedFields ==
  ASSUME NEW e, IsMemory(e.row)
  PROVE  /\ IsMemory(Identified(e))
         /\ Identified(e).kind = e.row.kind /\ Identified(e).source = e.row.source
         /\ Identified(e).scope = e.row.scope /\ Identified(e).found = e.row.found
         /\ Identified(e).label = e.row.label /\ Identified(e).root = e.row.root
         /\ Identified(e).supersedes = e.row.supersedes
         /\ Identified(e).supersededBy = e.row.supersededBy
         /\ e.row.scope \notin Producers => Identified(e) = e.row
         /\ e.row.scope \in Producers =>
              Identified(e).by[e.row.scope] \in
                {e.row.by[e.row.scope], Legacy(e.row.scope, e.id)}
<1> DEFINE r == e.row
           s == Identified(e)
           given == [r.by EXCEPT ![r.scope] = Legacy(r.scope, e.id)]
<1>0. DOMAIN r = DOMAIN NewMemory /\ DOMAIN r.by = Producers
  BY MemoryFields DEF IsMemory
<1>1. CASE ~(r.scope \in Producers /\ r.by[r.scope] = None)
  <2>1. s = r
    BY <1>1 DEF Identified
  <2> QED
    BY <2>1
<1>2. CASE r.scope \in Producers /\ r.by[r.scope] = None
  <2>1. s = [r EXCEPT !.by = given, !.review = TRUE]
    BY <1>2, <1>0, FieldsOf DEF Identified
  <2>2. DOMAIN given = Producers /\ given[r.scope] = Legacy(r.scope, e.id)
    BY <1>0, <1>2
  <2> HIDE DEF s, given
  <2>3. /\ DOMAIN s = DOMAIN r /\ s = [f \in DOMAIN r |-> s[f]]
        /\ s.kind = r.kind /\ s.source = r.source /\ s.scope = r.scope /\ s.by = given
        /\ s.found = r.found /\ s.label = r.label /\ s.root = r.root
        /\ s.supersedes = r.supersedes /\ s.supersededBy = r.supersededBy
    BY <2>1, <1>0, FieldsOf
  <2>4. IsMemory(s)
    BY <2>2, <2>3, <1>0 DEF IsMemory
  <2> QED
    BY <2>2, <2>3, <2>4, <1>2 DEF s
<1> QED
  BY <1>1, <1>2

LEMMA IdentifiedGiven ==
  ASSUME NEW N, NEW e, Given(N, e.id, e.row)
  PROVE  Given(N, e.id, Identified(e))
<1> DEFINE r == e.row
           s == Identified(e)
<1>1. IsMemory(r)
  BY DEF Given
<1>2. /\ IsMemory(s) /\ s.kind = r.kind /\ s.source = r.source /\ s.scope = r.scope
      /\ s.root = r.root
      /\ r.scope \notin Producers => s = r
      /\ r.scope \in Producers => s.by[r.scope] \in {r.by[r.scope], Legacy(r.scope, e.id)}
  BY <1>1, IdentifiedFields
<1> HIDE DEF s
<1>3. Identity(N, e.id, s)
  BY <1>2 DEF Given, Identity
<1>4. HonestRow(s)
  <2>1. CASE r.source = "dox" /\ r.root # None
    <3>1. [r EXCEPT !.supersededBy = None] \in Sayings(r.root)
      BY <2>1 DEF Given, HonestRow
    <3>2. [r EXCEPT !.supersededBy = None].scope = "dox"
      BY <3>1, SayingsLabelled
    <3>3. r.scope = "dox"
      BY <3>2, <1>1, MemoryFields, FieldsOf
    <3>4. s = r
      BY <3>3, <1>2 DEF Producers
    <3> QED
      BY <3>4 DEF Given
  <2>2. CASE r.source # "dox" \/ r.root = None
    BY <2>2, <1>2 DEF HonestRow
  <2> QED
    BY <2>1, <2>2
<1> QED
  BY <1>2, <1>3, <1>4 DEF Given, s

Lines(N, f) ==
  /\ Len(f) \in Nat /\ DOMAIN f = 1 .. Len(f)
  /\ \A n \in DOMAIN f : Given(N, f[n].id, f[n].row)

LEMMA NormalisedSound ==
  ASSUME NEW N, NEW f, Lines(N, f)
  PROVE  /\ DOMAIN Normalised(f) = 1 .. Len(f)
         /\ \A n \in DOMAIN f :
              /\ Normalised(f)[n].id = f[n].id
              /\ Normalised(f)[n].row.supersedes = f[n].row.supersedes
              /\ Normalised(f)[n].row.supersededBy = f[n].row.supersededBy
              /\ Sound(N, f[n].id, Normalised(f)[n].row)
<1>1. DOMAIN Normalised(f) = 1 .. Len(f)
  BY DEF Normalised, Lines
<1>2. ASSUME NEW n \in DOMAIN f
      PROVE  /\ Normalised(f)[n].id = f[n].id
             /\ Normalised(f)[n].row.supersedes = f[n].row.supersedes
             /\ Normalised(f)[n].row.supersededBy = f[n].row.supersededBy
             /\ Sound(N, f[n].id, Normalised(f)[n].row)
  <2> DEFINE e == f[n]
             r == Identified(e)
             s == Labelled(r)
  <2>1. Given(N, e.id, e.row)
    BY DEF Lines
  <2>2. Given(N, e.id, r) /\ IsMemory(r)
    BY <2>1, IdentifiedGiven DEF Given
  <2>3. r.supersedes = e.row.supersedes /\ r.supersededBy = e.row.supersededBy
    BY <2>1, IdentifiedFields DEF Given
  <2>4. Sound(N, e.id, s)
    BY <2>2, LabelledSound
  <2>5. s.supersedes = r.supersedes /\ s.supersededBy = r.supersededBy
    BY <2>2, LabelledFields
  <2>6. Normalised(f)[n] = [id |-> e.id, row |-> s]
    BY DEF Normalised
  <2> HIDE DEF s, r
  <2> QED
    BY <2>3, <2>4, <2>5, <2>6
<1> QED
  BY <1>1, <1>2

----
(* Collections *)

LEMMA AdaptedFields ==
  ASSUME NEW source, NEW ref, NEW root, NEW kind, NEW ring, NEW weight, NEW found
  PROVE  LET r == Adapted(source, ref, root, kind, ring, weight, found)
         IN  /\ IsMemory(r) /\ r.source = source /\ r.scope = source /\ r.root = None
             /\ r.label = found /\ r.found = found /\ r.supersededBy = None
<1> DEFINE r == Adapted(source, ref, root, kind, ring, weight, found)
           first == weight[1]
           second == weight[2]
<1>1. r = [NewMemory EXCEPT !.source = source, !.scope = source, !.ref = ref, !.project = root,
                    !.kind = kind, !.ring = ring, !.salience = first, !.confidence = second,
                    !.label = found, !.found = found]
  BY DEF Adapted
<1> HIDE DEF first, second, r
<1>2. /\ r.source = source /\ r.scope = source /\ r.label = found /\ r.found = found
      /\ r.root = NewMemory.root /\ r.supersededBy = NewMemory.supersededBy
      /\ r.by = NewMemory.by
  BY <1>1, FieldsOf
<1>3. NewMemory.root = None /\ NewMemory.supersededBy = None /\ DOMAIN NewMemory.by = Producers
  BY DEF NewMemory
<1>4. r = [f \in DOMAIN NewMemory |-> r[f]]
  BY <1>1
<1>5. IsMemory(r)
  BY <1>2, <1>3, <1>4 DEF IsMemory
<1> QED
  BY <1>2, <1>3, <1>5 DEF r

\* A memory whose writer wrote its label as the guard found it.
LEMMA CollectedSound ==
  ASSUME NEW N, NEW i, i # None, NEW r, IsMemory(r), HonestRow(r),
         r.label = r.found, r.scope \notin Producers
  PROVE  Sound(N, i, r)
BY DEF Sound, Given, Guarded, Identity

LEMMA DoxRowFields ==
  ASSUME NEW root, NEW f, NEW n
  PROVE  LET r == DoxRow(root, f, n)
         IN  /\ IsMemory(r) /\ r.source = "dox" /\ r.scope = "dox" /\ r.root = root
             /\ r.label = r.found /\ r.supersededBy = None
<1> DEFINE s == f.sections[n]
           a == IF s.durable
                THEN Adapted("dox", DoxId(f, n), root, "dox_contract", "heartwood", <<84, 88>>, s.found)
                ELSE Adapted("dox", DoxId(f, n), root, "dox_guidance", "outer", <<62, 72>>, s.found)
           d == s.durable
           r == DoxRow(root, f, n)
<1>1. /\ IsMemory(a) /\ a.source = "dox" /\ a.scope = "dox" /\ a.label = a.found
      /\ a.supersededBy = None
  BY AdaptedFields
<1>2. r = [[a EXCEPT !.durable = d] EXCEPT !.root = root]
  BY DEF DoxRow, SectionRow
<1> HIDE DEF a, d, r
<1>3. DOMAIN a = DOMAIN NewMemory
  BY <1>1, MemoryFields
<1>4. /\ r = [x \in DOMAIN NewMemory |-> r[x]] /\ r.by = a.by
      /\ r.source = a.source /\ r.scope = a.scope /\ r.root = root /\ r.label = a.label
      /\ r.found = a.found /\ r.supersededBy = a.supersededBy
  BY <1>2, <1>3, FieldsOf
<1>5. IsMemory(r)
  BY <1>1, <1>4 DEF IsMemory
<1> QED
  BY <1>1, <1>4, <1>5 DEF r

LEMMA FiniteImage ==
  ASSUME NEW h, IsFiniteSet(DOMAIN h)
  PROVE  IsFiniteSet({h[x] : x \in DOMAIN h})
<1> DEFINE T == {h[x] : x \in DOMAIN h}
           g == [x \in DOMAIN h |-> h[x]]
<1>1. g \in Surjection(DOMAIN h, T)
  BY DEF Surjection
<1> QED
  BY <1>1, FS_Surjection

LEMMA DoxRowSaid ==
  ASSUME NEW root \in Roots, tree[root] \in Trees[root],
         NEW f \in Range(Discovered(tree[root].agents)), ~f.bad, ~HasSecret(f),
         NEW n \in Sections(f)
  PROVE  HonestRow(DoxRow(root, f, n))
<1> DEFINE r == DoxRow(root, f, n)
<1>1. r \in Sayings(root)
  BY DEF Sayings
<1>2. IsMemory(r) /\ r.root = root /\ r.supersededBy = None
  BY DoxRowFields
<1> HIDE DEF r
<1>3. [r EXCEPT !.supersededBy = None] = r
  BY <1>2, FieldsOf DEF IsMemory
<1>4. HonestRow(r)
  BY <1>1, <1>2, <1>3 DEF HonestRow
<1> QED
  BY <1>4 DEF r

LEMMA DoxCollected ==
  ASSUME NEW N, NEW root \in Roots, tree[root] \in Trees[root]
  PROVE  /\ IsFiniteSet(DoxEvents(root))
         /\ \A e \in DoxEvents(root) : Sound(N, e.id, e.row)
         /\ \A d, e \in DoxEvents(root) : d.id = e.id => d = e
<1> DEFINE A == Range(Discovered(tree[root].agents))
           event(f, n) == [id |-> DoxId(f, n), row |-> DoxRow(root, f, n)]
           said(f) == IF f.bad \/ HasSecret(f) THEN {} ELSE {event(f, n) : n \in Sections(f)}
<1>1. DoxEvents(root) = UNION {said(f) : f \in A}
  BY DEF DoxEvents
<1>2. /\ IsFiniteSet(A) /\ \A f, g \in A : f.path = g.path => f = g
      /\ \A f \in A : IsFiniteSet(DOMAIN f.sections)
                     /\ \A n \in DOMAIN f.sections : DoxId(f, n) # None
  BY SourcesAssumption
<1>3. ASSUME NEW f \in A PROVE IsFiniteSet(said(f))
  <2>1. IsFiniteSet(Sections(f))
    BY <1>2, FS_Subset DEF Sections
  <2> DEFINE h == [n \in Sections(f) |-> event(f, n)]
  <2>2. IsFiniteSet({h[n] : n \in DOMAIN h})
    BY <2>1, FiniteImage
  <2>3. {h[n] : n \in DOMAIN h} = {event(f, n) : n \in Sections(f)}
    OBVIOUS
  <2> HIDE DEF h
  <2> QED
    BY <2>2, <2>3, FS_EmptySet
<1>4. IsFiniteSet(UNION {said(f) : f \in A})
  <2> DEFINE h == [f \in A |-> said(f)]
  <2>1. IsFiniteSet({h[f] : f \in DOMAIN h})
    BY <1>2, FiniteImage
  <2>2. {h[f] : f \in DOMAIN h} = {said(f) : f \in A}
    BY Zenon
  <2> HIDE DEF h, said
  <2> QED
    BY <1>3, <2>1, <2>2, FS_UNION
<1>5. ASSUME NEW e \in DoxEvents(root)
      PROVE  \E f \in A : \E n \in Sections(f) :
               e = [id |-> DoxId(f, n), row |-> DoxRow(root, f, n)] /\ ~f.bad /\ ~HasSecret(f)
  BY <1>1, <1>5
<1> HIDE DEF A, event, said
<1>6. ASSUME NEW e \in DoxEvents(root) PROVE Sound(N, e.id, e.row)
  <2>1. PICK f \in A : \E n \in Sections(f) :
          e = [id |-> DoxId(f, n), row |-> DoxRow(root, f, n)] /\ ~f.bad /\ ~HasSecret(f)
    BY <1>5, <1>6
  <2>2. PICK n \in Sections(f) :
          e = [id |-> DoxId(f, n), row |-> DoxRow(root, f, n)] /\ ~f.bad /\ ~HasSecret(f)
    BY <2>1
  <2>3. DoxId(f, n) # None
    BY <1>2 DEF Sections
  <2>4. HonestRow(DoxRow(root, f, n))
    BY <2>2, DoxRowSaid DEF A
  <2>5. /\ IsMemory(DoxRow(root, f, n)) /\ DoxRow(root, f, n).scope \notin Producers
        /\ DoxRow(root, f, n).label = DoxRow(root, f, n).found
    BY DoxRowFields DEF Producers
  <2>6. Sound(N, DoxId(f, n), DoxRow(root, f, n))
    BY <2>3, <2>4, <2>5, CollectedSound
  <2> QED
    BY <2>2, <2>6
<1>7. ASSUME NEW d \in DoxEvents(root), NEW e \in DoxEvents(root), d.id = e.id PROVE d = e
  <2>1. PICK f \in A : \E n \in Sections(f) : d = [id |-> DoxId(f, n), row |-> DoxRow(root, f, n)]
    BY <1>5, <1>7
  <2>2. PICK n \in Sections(f) : d = [id |-> DoxId(f, n), row |-> DoxRow(root, f, n)]
    BY <2>1
  <2>3. PICK g \in A : \E m \in Sections(g) : e = [id |-> DoxId(g, m), row |-> DoxRow(root, g, m)]
    BY <1>5, <1>7
  <2>4. PICK m \in Sections(g) : e = [id |-> DoxId(g, m), row |-> DoxRow(root, g, m)]
    BY <2>3
  <2>5. DoxId(f, n) = DoxId(g, m)
    BY <1>7, <2>2, <2>4
  <2>6. f.path = g.path /\ n = m
    BY <2>5 DEF DoxId
  <2> QED
    BY <1>2, <2>2, <2>4, <2>6
<1> QED
  BY <1>1, <1>4, <1>6, <1>7

LEMMA RevolveRowFields ==
  ASSUME NEW root, NEW f
  PROVE  LET r == RevolveRow(root, f)
         IN  /\ IsMemory(r) /\ r.source = "revolve" /\ r.scope = "revolve" /\ r.label = r.found
<1> DEFINE kind == Outcome(f.words)
           a == Adapted("revolve", f.path, root, kind, OutcomeRing[kind], OutcomeWeight[kind], f.found)
           d == OutcomeRing[kind] \in {"heartwood", "scar"}
           r == RevolveRow(root, f)
<1>1. IsMemory(a) /\ a.source = "revolve" /\ a.scope = "revolve" /\ a.label = a.found
  BY AdaptedFields
<1>2. r = [a EXCEPT !.durable = d]
  BY DEF RevolveRow
<1> HIDE DEF a, d, r
<1>3. DOMAIN a = DOMAIN NewMemory
  BY <1>1, MemoryFields
<1>4. /\ r = [x \in DOMAIN NewMemory |-> r[x]] /\ r.by = a.by
      /\ r.source = a.source /\ r.scope = a.scope /\ r.label = a.label /\ r.found = a.found
  BY <1>2, <1>3, FieldsOf
<1>5. IsMemory(r)
  BY <1>1, <1>4 DEF IsMemory
<1> QED
  BY <1>1, <1>4, <1>5 DEF r

LEMMA RevolveCollected ==
  ASSUME NEW N, NEW root \in Roots, tree[root] \in Trees[root]
  PROVE  /\ IsFiniteSet(RevolveEvents(root))
         /\ \A e \in RevolveEvents(root) : Sound(N, e.id, e.row)
         /\ \A d, e \in RevolveEvents(root) : d.id = e.id => d = e
<1> DEFINE A == Range(Discovered(tree[root].records))
           kept == {g \in A : ~g.bad /\ g.found # "secret" /\ Outcome(g.words) # None}
           h == [f \in kept |-> [id |-> RevolveId(f), row |-> RevolveRow(root, f)]]
<1>1. /\ IsFiniteSet(A) /\ \A f, g \in A : f.path = g.path => f = g
      /\ \A f \in A : RevolveId(f) # None
  BY SourcesAssumption
<1>2. IsFiniteSet(kept)
  BY <1>1, FS_Subset
<1>3. IsFiniteSet({h[f] : f \in DOMAIN h})
  BY <1>2, FiniteImage
<1>4. RevolveEvents(root) = {h[f] : f \in DOMAIN h}
  BY DEF RevolveEvents
<1>5. ASSUME NEW e \in RevolveEvents(root)
      PROVE  \E f \in A : e = [id |-> RevolveId(f), row |-> RevolveRow(root, f)]
  BY <1>5 DEF RevolveEvents
<1> HIDE DEF A, kept, h
<1>6. ASSUME NEW e \in RevolveEvents(root) PROVE Sound(N, e.id, e.row)
  <2>1. PICK f \in A : e = [id |-> RevolveId(f), row |-> RevolveRow(root, f)]
    BY <1>5, <1>6
  <2>2. /\ IsMemory(RevolveRow(root, f)) /\ RevolveRow(root, f).source = "revolve"
        /\ RevolveRow(root, f).scope \notin Producers
        /\ RevolveRow(root, f).label = RevolveRow(root, f).found
    BY RevolveRowFields DEF Producers
  <2>3. HonestRow(RevolveRow(root, f))
    BY <2>2 DEF HonestRow
  <2>4. Sound(N, RevolveId(f), RevolveRow(root, f))
    BY <1>1, <2>2, <2>3, CollectedSound
  <2> QED
    BY <2>1, <2>4
<1>7. ASSUME NEW d \in RevolveEvents(root), NEW e \in RevolveEvents(root), d.id = e.id PROVE d = e
  <2>1. PICK f \in A : d = [id |-> RevolveId(f), row |-> RevolveRow(root, f)]
    BY <1>5, <1>7
  <2>2. PICK g \in A : e = [id |-> RevolveId(g), row |-> RevolveRow(root, g)]
    BY <1>5, <1>7
  <2>3. f.path = g.path
    BY <1>7, <2>1, <2>2 DEF RevolveId
  <2> QED
    BY <1>1, <2>1, <2>2, <2>3
<1> QED
  BY <1>3, <1>4, <1>6, <1>7

----
(* The inductive invariant *)

Table(N, t) == IsFiniteSet(DOMAIN t) /\ \A i \in DOMAIN t : Sound(N, i, t[i])

TableInv ==
  /\ Table(Named, rows)
  /\ tombs \subseteq DOMAIN rows /\ None \notin tombs
  /\ \A i \in tombs : rows[i] = Redacted(rows[i])

RecordsInv ==
  /\ records \in Seq(Range(records))
  /\ \A n \in DOMAIN records : records[n].sources \cap records[n].outputs = {}
  /\ OncePerSourceSet

FilesInv == budget \in Budgets /\ \A f \in Files : Lines(Named, f)

\* What a person looks at was read from the files of its root.
Collection(N, events) ==
  /\ IsFiniteSet(events)
  /\ \A e \in events : Sound(N, e.id, e.row)
  /\ \A d, e \in events : d.id = e.id => d = e

SyncInv ==
  /\ DOMAIN tree = Roots /\ \A r \in Roots : tree[r] \in Trees[r]
  /\ DOMAIN preview = Roots
  /\ \A r \in Roots : preview[r] # None => Collection(Named, preview[r].events)

IInv == TableInv /\ RecordsInv /\ FilesInv /\ SyncInv

LEMMA OverSound ==
  ASSUME NEW N, NEW new, NEW old, Table(N, new), Table(N, old)
  PROVE  Table(N, Over(new, old))
<1>1. DOMAIN Over(new, old) = (DOMAIN new) \cup (DOMAIN old)
  BY DEF Over
<1>2. \A i \in DOMAIN Over(new, old) : Sound(N, i, Over(new, old)[i])
  BY DEF Over, Table
<1>3. IsFiniteSet((DOMAIN new) \cup (DOMAIN old))
  BY FS_Union DEF Table
<1> QED
  BY <1>1, <1>2, <1>3 DEF Table

----
(* Each action keeps the table *)

LEMMA PutTable ==
  ASSUME TableInv, NEW new, Table(Named, new),
         \A i \in tombs : i \in DOMAIN new => new[i] = Redacted(new[i]),
         rows' = Over(new, rows), tombs' = tombs, Named' = Named
  PROVE  TableInv'
<1> DEFINE t == Over(new, rows)
<1>1. Table(Named, rows)
  BY DEF TableInv
<1> DEFINE N == Named
<1>1a. Table(N, rows) /\ Table(N, new)
  BY <1>1
<1> HIDE DEF N
<1>2a. Table(N, t)
  BY <1>1a, OverSound
<1>2b. DOMAIN t = (DOMAIN new) \cup (DOMAIN rows)
  BY DEF Over
<1>2. Table(Named, t) /\ DOMAIN t = (DOMAIN new) \cup (DOMAIN rows)
  BY <1>2a, <1>2b DEF N
<1>3. \A i \in tombs : t[i] = Redacted(t[i])
  BY DEF Over, TableInv
<1> HIDE DEF t
<1>4. rows' = t
  BY DEF t
<1> QED
  BY <1>2, <1>3, <1>4 DEF TableInv

LEMMA SubmitTable ==
  ASSUME IInv, NEW e \in Submissions, Submit(e)
  PROVE  TableInv'
<1> DEFINE new == [i \in {e.id} |-> Labelled(e.row)]
<1>1. rows' = Over(new, rows) /\ e.id \notin tombs /\ tombs' = tombs /\ Named' = Named
  BY DEF Submit, Named, Written
<1>2. Given(Named, e.id, e.row)
  <2>1. IsMemory(e.row) /\ e.id # None /\ HonestRow(e.row)
    BY StoresAssumption, SourcesAssumption
  <2>2. e.row.scope \in Producers => e.row.by[e.row.scope] \in Named
    BY DEF Named, Written
  <2> QED
    BY <2>1, <2>2 DEF Given, Identity
<1>3. Sound(Named, e.id, Labelled(e.row))
  BY <1>2, LabelledSound
<1>4. DOMAIN new = {e.id} /\ \A i \in DOMAIN new : Sound(Named, i, new[i])
  BY <1>3
<1> HIDE DEF new
<1>5. Table(Named, new)
  BY <1>4, FS_Singleton DEF Table
<1>6. \A i \in tombs : i \notin DOMAIN new
  BY <1>1, <1>4
<1> QED
  BY <1>1, <1>5, <1>6, PutTable DEF IInv

LEMMA SupersedeTable ==
  ASSUME IInv, NEW old, NEW new, Supersede(old, new)
  PROVE  TableInv'
<1>1. /\ old \in DOMAIN rows /\ DOMAIN rows' = DOMAIN rows /\ tombs' = tombs /\ Named' = Named
      /\ rows' = [rows EXCEPT ![old].supersededBy = new]
  BY DEF Supersede, Named, Written
<1> DEFINE s == [rows[old] EXCEPT !.supersededBy = new]
<1>2. rows'[old] = s /\ \A i \in DOMAIN rows : i # old => rows'[i] = rows[i]
  BY <1>1
<1>3. Sound(Named, old, s)
  BY <1>1, SupersededSound DEF IInv, TableInv, Table
<1>4. old \in tombs => s = Redacted(s)
  BY <1>1, RedactedSuperseded DEF IInv, TableInv, Table, Sound, Given
<1> HIDE DEF s
<1> QED
  BY <1>1, <1>2, <1>3, <1>4 DEF IInv, TableInv, Table

LEMMA RedactTable ==
  ASSUME IInv, NEW i \in budget.forget, Redact(i)
  PROVE  TableInv'
<1> DEFINE s == Redacted(rows[i])
<1>1. /\ i \in DOMAIN rows /\ DOMAIN rows' = DOMAIN rows /\ tombs' = tombs \cup {i}
      /\ Named' = Named /\ rows'[i] = s /\ \A j \in DOMAIN rows : j # i => rows'[j] = rows[j]
  BY DEF Redact, Named, Written
<1>2. i # None
  BY StoresAssumption DEF IInv, FilesInv
<1>3. Sound(Named, i, s)
  BY <1>1, RedactedSound DEF IInv, TableInv, Table
<1>4. Redacted(s) = s
  BY <1>1, RedactedTwice DEF IInv, TableInv, Table, Sound, Given
<1> HIDE DEF s
<1> QED
  BY <1>1, <1>2, <1>3, <1>4 DEF IInv, TableInv, Table

LEMMA DeleteTable ==
  ASSUME IInv, NEW i, Delete(i)
  PROVE  TableInv'
<1>1. /\ DOMAIN rows' = DOMAIN rows \ {i} /\ tombs' = tombs \ {i}
      /\ Named' = Named /\ \A j \in DOMAIN rows' : rows'[j] = rows[j]
  BY DEF Delete, Named, Written
<1>2. IsFiniteSet(DOMAIN rows')
  BY <1>1, FS_Subset DEF IInv, TableInv, Table
<1> QED
  BY <1>1, <1>2 DEF IInv, TableInv, Table

\* What a confirmed collection puts, by id.
LEMMA Chosen ==
  ASSUME NEW E, \A d, e \in E : d.id = e.id => d = e, NEW e \in E
  PROVE  (CHOOSE d \in E : d.id = e.id) = e
OBVIOUS

LEMMA ApplyTable ==
  ASSUME IInv, NEW root \in Roots, Apply(root)
  PROVE  TableInv'
<1> DEFINE E == preview[root].events
           new == [i \in {e.id : e \in E} |-> (CHOOSE e \in E : e.id = i).row]
           ok == Writable(E, preview[root].dox)
<1>1. /\ preview[root] # None /\ rows' = (IF ok THEN Over(new, rows) ELSE rows)
      /\ tombs' = tombs /\ Named' = Named
  BY DEF Apply, Stored, Named, Written
<1>2. Collection(Named, E)
  BY <1>1 DEF IInv, SyncInv
<1>3. CASE ok
  <2>1. \A e \in E : e.id \notin tombs
    BY <1>3 DEF Writable
  <2>2. \A i \in DOMAIN new : Sound(Named, i, new[i])
    <3>1. ASSUME NEW e \in E PROVE Sound(Named, e.id, new[e.id])
      BY <1>2, Chosen DEF Collection
    <3> QED
      BY <3>1
  <2>3. IsFiniteSet(DOMAIN new)
    <3> DEFINE h == [e \in E |-> e.id]
    <3>1. IsFiniteSet({h[e] : e \in DOMAIN h})
      BY <1>2, FiniteImage DEF Collection
    <3>2. {h[e] : e \in DOMAIN h} = DOMAIN new
      OBVIOUS
    <3> QED
      BY <3>1, <3>2
  <2>4. \A i \in tombs : i \notin DOMAIN new
    BY <2>1
  <2>5. rows' = Over(new, rows)
    BY <1>1, <1>3
  <2> HIDE DEF new, E, ok
  <2>6. Table(Named, new)
    BY <2>2, <2>3 DEF Table
  <2> QED
    BY <1>1, <2>4, <2>5, <2>6, PutTable DEF IInv
<1>4. CASE ~ok
  BY <1>1, <1>4 DEF IInv, TableInv
<1> QED
  BY <1>3, <1>4

----
(* An import *)

\* A set of numbers up to k that is not empty has a greatest one.
LEMMA GreatestOf ==
  ASSUME NEW k \in Nat, NEW S \in SUBSET (1 .. k), S # {}
  PROVE  \E m \in S : \A n \in S : n <= m
<1> DEFINE D == {k - n : n \in S}
           R == OpToRel(<, Nat)
<1>1. D \subseteq Nat
  OBVIOUS
<1>1a. D # {}
  <2>1. PICK n \in S : TRUE
    OBVIOUS
  <2>2. k - n \in D
    OBVIOUS
  <2> QED
    BY <2>2
<1>2. IsWellFoundedOn(R, Nat)
  BY Zenon, NatLessThanWellFounded
<1> HIDE DEF D, R
<1>3. PICK d \in D : \A e \in D : ~(<<e, d>> \in R)
  BY <1>1, <1>1a, <1>2, WFMin
<1>4. \A e \in D : ~(e < d)
  BY <1>1, <1>3, Zenon DEF R, OpToRel
<1>5. PICK m \in S : d = k - m
  BY DEF D
<1>6. ASSUME NEW n \in S PROVE n <= m
  <2>1. k - n \in D
    BY DEF D
  <2>2. ~(k - n < k - m)
    BY <1>4, <1>5, <2>1
  <2> QED
    BY <2>2
<1> QED
  BY <1>6

\* The last of some lines.
LEMMA LastLine ==
  ASSUME NEW k \in Nat, NEW S \in SUBSET (1 .. k), S # {}
  PROVE  Max(S) \in S /\ \A n \in S : n <= Max(S)
<1>2. PICK m \in S : \A n \in S : n <= m
  BY GreatestOf
<1>3. Max(S) = CHOOSE x \in S : \A n \in S : x >= n
  BY DEF Max
<1>4. \A n \in S : m >= n
  BY <1>2
<1>5. Max(S) \in S /\ \A n \in S : Max(S) >= n
  BY <1>3, <1>4
<1> QED
  BY <1>5

\* What an import leaves of id i before it follows the supersedes lists.
Base(m, ev, plan, i, r) ==
  \/ \E n \in plan : ev[n].id = i /\ r = ev[n].row
  \/ i \in DOMAIN m /\ (\A n \in plan : ev[n].id # i) /\ r = m[i]

Replaced(ev, plan, i, r, s) ==
  \/ (\A n \in plan : i \notin ev[n].row.supersedes) /\ s = r
  \/ \E n \in plan : i \in ev[n].row.supersedes /\ s = [r EXCEPT !.supersededBy = ev[n].id]

LEMMA ImportedIs ==
  ASSUME NEW m, NEW k \in Nat, NEW ev, DOMAIN ev = 1 .. k, NEW replace,
         NEW plan, plan = Planned(m, ev, replace)
  PROVE  /\ plan \subseteq 1 .. k
         /\ DOMAIN Imported(m, ev, replace) = {ev[n].id : n \in plan} \cup DOMAIN m
         /\ \A i \in DOMAIN Imported(m, ev, replace) :
              \E r : Base(m, ev, plan, i, r) /\ Replaced(ev, plan, i, r, Imported(m, ev, replace)[i])
<1> DEFINE line == [i \in {ev[n].id : n \in plan} |-> Max({n \in plan : ev[n].id = i})]
           first == [i \in DOMAIN line |-> ev[line[i]].row]
           put == Over(first, m)
           claims == [i \in DOMAIN put |-> {n \in plan : i \in ev[n].row.supersedes}]
           t == Imported(m, ev, replace)
<1>1. plan \subseteq 1 .. k
  BY DEF Planned
<1>2. t = [i \in DOMAIN put |->
             IF claims[i] = {} THEN put[i]
             ELSE [put[i] EXCEPT !.supersededBy = ev[Max(claims[i])].id]]
  BY Zenon DEF Imported
<1> HIDE DEF t
<1>3. ASSUME NEW i \in DOMAIN line
      PROVE  line[i] \in plan /\ ev[line[i]].id = i
  <2> DEFINE S == {n \in plan : ev[n].id = i}
  <2>1. S \in SUBSET (1 .. k) /\ S # {}
    BY <1>1
  <2>2. Max(S) \in S
    BY <2>1, LastLine
  <2>3. line[i] = Max(S)
    BY Zenon
  <2> QED
    BY <2>2, <2>3
<1>4. DOMAIN line = {ev[n].id : n \in plan}
  BY Zenon
<1> HIDE DEF line
<1>5. DOMAIN put = {ev[n].id : n \in plan} \cup DOMAIN m
  BY <1>4 DEF Over
<1>6. ASSUME NEW i \in DOMAIN put
      PROVE  Base(m, ev, plan, i, put[i])
  <2>1. CASE i \in DOMAIN line
    <3>1. put[i] = ev[line[i]].row
      BY <2>1 DEF Over
    <3> QED
      BY <3>1, <2>1, <1>3 DEF Base
  <2>2. CASE i \notin DOMAIN line
    <3>1. put[i] = m[i] /\ i \in DOMAIN m
      BY <2>2, <1>6 DEF Over
    <3> QED
      BY <3>1, <2>2, <1>4 DEF Base
  <2> QED
    BY <2>1, <2>2
<1>7. ASSUME NEW i \in DOMAIN put
      PROVE  claims[i] = {n \in plan : i \in ev[n].row.supersedes}
             /\ (claims[i] # {} => Max(claims[i]) \in claims[i])
  <2> DEFINE S == {n \in plan : i \in ev[n].row.supersedes}
  <2>1. claims[i] = S
    BY Zenon
  <2>2. S \in SUBSET (1 .. k)
    BY <1>1
  <2> HIDE DEF S, claims
  <2>3. S # {} => Max(S) \in S
    BY <2>2, LastLine
  <2> QED
    BY <2>1, <2>3 DEF S
<1> HIDE DEF put, claims
<1>8. ASSUME NEW i \in DOMAIN put
      PROVE  Replaced(ev, plan, i, put[i], t[i])
  <2>1. CASE claims[i] = {}
    <3>1. t[i] = put[i]
      BY <2>1, <1>2
    <3> QED
      BY <3>1, <2>1, <1>7 DEF Replaced
  <2>2. CASE claims[i] # {}
    <3>1. t[i] = [put[i] EXCEPT !.supersededBy = ev[Max(claims[i])].id]
      BY <2>2, <1>2
    <3>2. Max(claims[i]) \in plan /\ i \in ev[Max(claims[i])].row.supersedes
      BY <1>7, <2>2
    <3> QED
      BY <3>1, <3>2 DEF Replaced
  <2> QED
    BY <2>1, <2>2
<1>9. DOMAIN t = DOMAIN put
  BY <1>2
<1> QED
  BY <1>1, <1>5, <1>6, <1>8, <1>9 DEF t

LEMMA ImportTable ==
  ASSUME IInv, NEW lines \in Files, NEW replace \in BOOLEAN, Import(lines, replace)
  PROVE  TableInv'
<1> DEFINE N == Named
           ev == Normalised(lines)
           plan == Planned(rows, ev, replace)
           t == Imported(rows, ev, replace)
<1>1. /\ CanImport(rows, tombs, ev, replace) /\ rows' = t /\ tombs' = tombs /\ Named' = N
  BY DEF Import, Named, Written
<1>2. Lines(N, lines)
  BY DEF IInv, FilesInv
<1> HIDE DEF N
<1>3. DOMAIN ev = 1 .. Len(lines) /\ DOMAIN lines = 1 .. Len(lines) /\ Len(lines) \in Nat
      /\ \A n \in DOMAIN lines : Sound(N, ev[n].id, ev[n].row)
  BY <1>2, NormalisedSound DEF Lines
<1> HIDE DEF ev
<1>4. /\ plan \subseteq 1 .. Len(lines)
      /\ DOMAIN t = {ev[n].id : n \in plan} \cup DOMAIN rows
      /\ \A i \in DOMAIN t :
           \E r : Base(rows, ev, plan, i, r) /\ Replaced(ev, plan, i, r, t[i])
  BY <1>3, ImportedIs
<1>5. \A n \in plan : ev[n].id \in tombs => ev[n].row = Redacted(ev[n].row)
  BY <1>1 DEF CanImport
<1> HIDE DEF plan, t
<1>6. IsFiniteSet(DOMAIN t)
  <2> DEFINE h == [n \in plan |-> ev[n].id]
  <2>0. IsFiniteSet(1 .. Len(lines))
    BY <1>3, FS_Interval
  <2>1. IsFiniteSet(plan)
    BY <1>4, <2>0, FS_Subset
  <2>2. IsFiniteSet({h[n] : n \in DOMAIN h})
    BY <2>1, FiniteImage
  <2>3. {h[n] : n \in DOMAIN h} = {ev[n].id : n \in plan}
    BY Zenon
  <2> HIDE DEF h
  <2>4. IsFiniteSet({ev[n].id : n \in plan}) /\ IsFiniteSet(DOMAIN rows)
    BY <2>2, <2>3 DEF IInv, TableInv, Table
  <2>5. IsFiniteSet({ev[n].id : n \in plan} \cup DOMAIN rows)
    BY <2>4, FS_Union
  <2> QED
    BY <1>4, <2>5
<1>7. ASSUME NEW i, NEW r, Base(rows, ev, plan, i, r)
      PROVE  Sound(N, i, r) /\ (i \in tombs => r = Redacted(r))
  BY <1>3, <1>4, <1>5, <1>7 DEF Base, IInv, TableInv, Table, N
<1>8. ASSUME NEW i \in DOMAIN t
      PROVE  Sound(N, i, t[i]) /\ (i \in tombs => t[i] = Redacted(t[i]))
  <2>1. PICK r : Base(rows, ev, plan, i, r) /\ Replaced(ev, plan, i, r, t[i])
    BY <1>4
  <2>2. Sound(N, i, r) /\ (i \in tombs => r = Redacted(r)) /\ IsMemory(r)
    BY <1>7, <2>1 DEF Sound, Given
  <2>3. \/ t[i] = r
        \/ \E n \in plan : t[i] = [r EXCEPT !.supersededBy = ev[n].id]
    BY <2>1 DEF Replaced
  <2> QED
    BY <2>2, <2>3, SupersededSound, RedactedSuperseded
<1> QED
  BY <1>1, <1>4, <1>6, <1>8 DEF IInv, TableInv, Table, N

----
(* A consolidation *)

\* What a consolidation does with the ids new of its summaries.
Consolidated(q, day, new) ==
  /\ IsFiniteSet(new) /\ new \cap DOMAIN rows = {} /\ None \notin new
  /\ DOMAIN rows' = new \cup DOMAIN rows
  /\ \A i \in new : \E g \in Groups(Candidates(q)) : rows'[i] = Output(g, q, day)
  /\ \A i \in DOMAIN rows :
       \/ rows'[i] = rows[i]
       \/ \E v \in new : rows'[i] = [rows[i] EXCEPT !.supersededBy = v]
  /\ q.force => \A i \in PreviousOutputs(q) :
       i \in DOMAIN rows /\ \E v \in new : rows'[i] = [rows[i] EXCEPT !.supersededBy = v]
  /\ records' = Append(records, [request |-> q, sources |-> Candidates(q), outputs |-> new])
  /\ ~q.force => ~Recorded(q, Candidates(q))
  /\ tombs' = tombs /\ budget' = budget

LEMMA GroupsFinite ==
  ASSUME NEW S, IsFiniteSet(S)
  PROVE  IsFiniteSet(Groups(S))
<1> DEFINE key == [i \in S |-> GroupKey(rows[i])]
           K == {key[i] : i \in DOMAIN key}
           h == [g \in K |-> {i \in S : key[i] = g}]
<1>1. DOMAIN key = S
  OBVIOUS
<1>2. Groups(S) = {{i \in S : key[i] = g} : g \in K}
  BY DEF Groups, Range
<1> HIDE DEF key
<1>3. IsFiniteSet(K)
  BY <1>1, FiniteImage
<1> HIDE DEF K
<1>4. {h[g] : g \in DOMAIN h} = {{i \in S : key[i] = g} : g \in K}
  BY Zenon
<1>5. DOMAIN h = K
  BY Zenon
<1> HIDE DEF h
<1> QED
  BY <1>2, <1>3, <1>4, <1>5, FiniteImage

LEMMA ConsolidateIs ==
  ASSUME IInv, NEW q \in Requests, NEW day, Consolidate(q, day)
  PROVE  \E new : Consolidated(q, day, new)
<1> DEFINE S == Candidates(q)
           groups == Groups(S)
           run == Len(records) + 1
           previous == IF q.force THEN PreviousOutputs(q) ELSE {}
           new == {SummaryId(run, g) : g \in groups}
           outs == [i \in new |-> Output(i[3], q, day)]
<1>1. PICK to \in [previous -> groups] :
        rows' = Over(outs, [i \in DOMAIN rows |->
                             IF i \in previous
                             THEN [rows[i] EXCEPT !.supersededBy = SummaryId(run, to[i])]
                             ELSE rows[i]])
  BY Zenon DEF Consolidate
<1>2. /\ new \cap (DOMAIN rows \cup {None}) = {}
      /\ records' = Append(records, [request |-> q, sources |-> S, outputs |-> new])
      /\ ~q.force => ~Recorded(q, S)
      /\ tombs' = tombs /\ budget' = budget
  BY Zenon DEF Consolidate
<1> DEFINE kept == [i \in DOMAIN rows |->
                     IF i \in previous
                     THEN [rows[i] EXCEPT !.supersededBy = SummaryId(run, to[i])]
                     ELSE rows[i]]
<1>3. IsFiniteSet(new)
  <2>1. IsFiniteSet(S)
    BY FS_Subset DEF IInv, TableInv, Table, Candidates
  <2> DEFINE h == [g \in groups |-> SummaryId(run, g)]
  <2>2. IsFiniteSet(groups)
    BY <2>1, GroupsFinite
  <2>3. {h[g] : g \in DOMAIN h} = new
    BY Zenon
  <2>4. DOMAIN h = groups
    BY Zenon
  <2> HIDE DEF h, groups, new
  <2> QED
    BY <2>2, <2>3, <2>4, FiniteImage
<1>4. \A g \in groups : SummaryId(run, g)[3] = g
  BY DEF SummaryId
<1>5. rows' = Over(outs, kept)
  BY <1>1
<1>6. DOMAIN rows' = new \cup DOMAIN rows
  BY <1>5 DEF Over
<1>7. ASSUME NEW i \in new
      PROVE  \E g \in groups : rows'[i] = Output(g, q, day)
  <2>1. PICK g \in groups : i = SummaryId(run, g)
    BY <1>7
  <2>2. i[3] = g
    BY <2>1, <1>4
  <2>3. outs[i] = Output(g, q, day)
    BY <2>2
  <2>4. i \in DOMAIN outs
    BY <1>7
  <2> HIDE DEF outs, kept, new, groups
  <2>5. rows'[i] = outs[i]
    BY <1>5, <2>4 DEF Over
  <2> QED
    BY <2>3, <2>5
<1>8. ASSUME NEW i \in DOMAIN rows PROVE rows'[i] = kept[i]
  <2>1. i \notin DOMAIN outs /\ i \in DOMAIN kept
    BY <1>2
  <2> HIDE DEF outs, kept
  <2> QED
    BY <1>5, <2>1 DEF Over
<1>9. ASSUME NEW i \in DOMAIN rows, i \in previous
      PROVE  \E v \in new : rows'[i] = [rows[i] EXCEPT !.supersededBy = v]
  <2>1. kept[i] = [rows[i] EXCEPT !.supersededBy = SummaryId(run, to[i])]
    BY <1>9
  <2>2. SummaryId(run, to[i]) \in new
    BY <1>1, <1>9
  <2> HIDE DEF kept, new
  <2> QED
    BY <1>8, <2>1, <2>2
<1>10. ASSUME NEW i \in DOMAIN rows, i \notin previous
       PROVE  rows'[i] = rows[i]
  BY <1>8, <1>10
<1>11. q.force => previous = PreviousOutputs(q)
  OBVIOUS
<1>12. previous \subseteq DOMAIN rows
  BY DEF PreviousOutputs
<1> HIDE DEF S, run, previous, outs, kept, new, groups
<1>13. Consolidated(q, day, new)
  BY <1>2, <1>3, <1>6, <1>7, <1>9, <1>10, <1>11, <1>12, Zenon DEF Consolidated, S, groups
<1> QED
  BY <1>13

LEMMA ConsolidateTable ==
  ASSUME IInv, NEW q, NEW day, NEW new, Consolidated(q, day, new)
  PROVE  TableInv'
<1> DEFINE N == Named
<1>1. /\ IsFiniteSet(new) /\ new \cap DOMAIN rows = {} /\ None \notin new
      /\ DOMAIN rows' = new \cup DOMAIN rows
      /\ tombs' = tombs /\ Named' = N
  BY DEF Consolidated, Named, Written
<1>2. /\ IsFiniteSet(DOMAIN rows) /\ \A i \in DOMAIN rows : Sound(N, i, rows[i])
      /\ tombs \subseteq DOMAIN rows /\ None \notin tombs
      /\ \A i \in tombs : rows[i] = Redacted(rows[i])
  BY DEF IInv, TableInv, Table
<1> HIDE DEF N
<1>3. ASSUME NEW i \in new PROVE Sound(N, i, rows'[i])
  <2>1. PICK g \in Groups(Candidates(q)) : rows'[i] = Output(g, q, day)
    BY <1>3 DEF Consolidated
  <2>2. i # None
    BY <1>1, <1>3
  <2> QED
    BY <2>1, <2>2, OutputSound
<1>4. ASSUME NEW i \in DOMAIN rows
      PROVE  Sound(N, i, rows'[i]) /\ (i \in tombs => rows'[i] = Redacted(rows'[i]))
  <2>1. \/ rows'[i] = rows[i]
        \/ \E v \in new : rows'[i] = [rows[i] EXCEPT !.supersededBy = v]
    BY <1>4 DEF Consolidated
  <2>2. Sound(N, i, rows[i]) /\ IsMemory(rows[i])
    BY <1>2 DEF Sound, Given
  <2>3. CASE rows'[i] = rows[i]
    BY <1>2, <2>2, <2>3
  <2>4. ASSUME NEW v, rows'[i] = [rows[i] EXCEPT !.supersededBy = v]
        PROVE  Sound(N, i, rows'[i]) /\ (i \in tombs => rows'[i] = Redacted(rows'[i]))
    <3>1. Sound(N, i, rows'[i])
      BY <2>2, <2>4, SupersededSound
    <3>2. i \in tombs => rows'[i] = Redacted(rows'[i])
      BY <1>2, <2>2, <2>4, RedactedSuperseded
    <3> QED
      BY <3>1, <3>2
  <2> QED
    BY <2>1, <2>3, <2>4
<1>5. IsFiniteSet(DOMAIN rows')
  BY <1>1, <1>2, FS_Union
<1> QED
  BY <1>1, <1>2, <1>3, <1>4, <1>5 DEF TableInv, Table

Longer(s, x, t) ==
  /\ t \in Seq(Range(t)) /\ Len(t) = Len(s) + 1 /\ Len(s) \in Nat
  /\ DOMAIN s = 1 .. Len(s) /\ DOMAIN t = 1 .. Len(s) + 1
  /\ t[Len(s) + 1] = x /\ \A n \in DOMAIN s : t[n] = s[n]

LEMMA Appended ==
  ASSUME NEW s, s \in Seq(Range(s)), NEW x, NEW t, t = Append(s, x)
  PROVE  Longer(s, x, t)
<1> DEFINE A == Range(s) \cup {x}
<1>1. Len(s) \in Nat /\ DOMAIN s = 1 .. Len(s)
  OBVIOUS
<1>2. s = [n \in 1 .. Len(s) |-> s[n]] /\ \A n \in 1 .. Len(s) : s[n] \in A
  BY DEF Range
<1>3. s \in Seq(A)
  BY <1>1, <1>2
<1> HIDE DEF A
<1>4. x \in A
  BY DEF A
<1>5. t \in Seq(A) /\ Len(t) = Len(s) + 1
      /\ t[Len(s) + 1] = x /\ \A n \in 1 .. Len(s) : t[n] = s[n]
  BY <1>3, <1>4
<1>6. DOMAIN t = 1 .. Len(s) + 1
  BY <1>5, <1>1
<1>7. t = [n \in 1 .. Len(t) |-> t[n]]
  <2> DEFINE Arrays == UNION {[1 .. n -> A] : n \in Nat}
  <2>0. t \in Arrays
    <3>1. Seq(A) = Arrays
      BY SeqDef, Zenon
    <3> HIDE DEF Arrays
    <3> QED
      BY <1>5, <3>1
  <2>1. PICK n \in Nat : t \in [1 .. n -> A]
    BY <2>0
  <2>2. t = [i \in DOMAIN t |-> t[i]]
    BY <2>1
  <2>3. DOMAIN t = 1 .. Len(t)
    BY <1>5, <1>6
  <2> QED
    BY <2>2, <2>3
<1>8. t \in Seq(Range(t))
  <2>1. \A n \in 1 .. Len(t) : t[n] \in Range(t)
    BY <1>5, <1>6 DEF Range
  <2>2. Len(t) \in Nat
    BY <1>1, <1>5
  <2> QED
    BY <1>7, <2>1, <2>2
<1> QED
  BY <1>1, <1>5, <1>6, <1>8 DEF Longer

LEMMA ConsolidateRecords ==
  ASSUME IInv, NEW q, NEW day, NEW new, Consolidated(q, day, new)
  PROVE  /\ RecordsInv'
         /\ Len(records') = Len(records) + 1
         /\ records'[Len(records')].request = q
         /\ records'[Len(records')].outputs = new
<1> DEFINE x == [request |-> q, sources |-> Candidates(q), outputs |-> new]
           k == Len(records)
<1>1. records' = Append(records, x) /\ new \cap DOMAIN rows = {}
      /\ (~q.force => ~Recorded(q, Candidates(q)))
  BY DEF Consolidated
<1>2. records \in Seq(Range(records)) /\ OncePerSourceSet
      /\ \A n \in DOMAIN records : records[n].sources \cap records[n].outputs = {}
  BY DEF IInv, RecordsInv
<1>3. x.request = q /\ x.sources = Candidates(q) /\ x.outputs = new
  OBVIOUS
<1> HIDE DEF x
<1>4. /\ records' \in Seq(Range(records')) /\ Len(records') = k + 1 /\ k \in Nat
      /\ DOMAIN records = 1 .. k /\ DOMAIN records' = 1 .. k + 1
      /\ records'[k + 1] = x /\ \A n \in DOMAIN records : records'[n] = records[n]
  <2>1. Longer(records, x, records')
    BY <1>1, <1>2, Appended
  <2> QED
    BY <2>1 DEF Longer
<1> HIDE DEF k
<1>5. ASSUME NEW n \in DOMAIN records'
      PROVE  records'[n].sources \cap records'[n].outputs = {}
  <2>1. Candidates(q) \subseteq DOMAIN rows
    BY DEF Candidates
  <2>2. CASE n = k + 1
    BY <1>1, <1>3, <1>4, <2>1, <2>2
  <2>3. CASE n \in DOMAIN records
    BY <1>2, <1>4, <2>3
  <2> QED
    BY <1>4, <2>2, <2>3
<1>6. OncePerSourceSet'
  <2> SUFFICES ASSUME NEW m \in DOMAIN records', NEW n \in DOMAIN records', m < n,
                      SamePeriod(m, records[n].request)', records'[m].sources = records'[n].sources
               PROVE  records'[n].request.force
    BY DEF OncePerSourceSet
  <2>1. m \in DOMAIN records /\ records'[m] = records[m]
    BY <1>4
  <2>2. CASE n \in DOMAIN records
    <3>1. records'[n] = records[n]
      BY <1>4, <2>2
    <3>2. SamePeriod(m, records[n].request)
      BY <2>1, <3>1 DEF SamePeriod
    <3> QED
      BY <1>2, <2>1, <2>2, <3>1, <3>2 DEF OncePerSourceSet
  <2>3. CASE n = k + 1
    <3>1. records'[n].request = q /\ records'[n].sources = Candidates(q)
      BY <1>3, <1>4, <2>3
    <3>2. SamePeriod(m, q) /\ records[m].sources = Candidates(q)
      BY <2>1, <3>1 DEF SamePeriod
    <3>3. Recorded(q, Candidates(q))
      BY <2>1, <3>2 DEF Recorded, Matching
    <3> QED
      BY <1>1, <3>1, <3>3
  <2> QED
    BY <1>4, <2>2, <2>3
<1> QED
  BY <1>2, <1>3, <1>4, <1>5, <1>6 DEF RecordsInv

----
(* Functions that a definition computes step by step *)

LEMMA StepByStep ==
  ASSUME NEW S, 0 \in S, \A n \in Nat : n \in S => n + 1 \in S
  PROVE  Nat \subseteq S
<1> DEFINE R == OpToRel(<, Nat)
           D == Nat \ S
<1>1. IsWellFoundedOn(R, Nat)
  BY Zenon, NatLessThanWellFounded
<1> SUFFICES ASSUME D # {} PROVE FALSE
  OBVIOUS
<1> HIDE DEF R
<1>2. PICK d \in D : \A e \in D : ~(<<e, d>> \in R)
  <2>1. D \subseteq Nat
    OBVIOUS
  <2> HIDE DEF D
  <2> QED
    BY <1>1, <2>1, WFMin
<1>3. \A e \in D : ~(e < d)
  BY <1>2, Zenon DEF R, OpToRel
<1>4. d \in Nat /\ d # 0 /\ d - 1 \in Nat
  OBVIOUS
<1>5. d - 1 \in S
  BY <1>3, <1>4
<1> QED
  BY <1>4, <1>5

Iterates(D, first, next) ==
  {f \in [Nat -> D] : f[0] = first /\ \A n \in Nat : f[n + 1] = next[f[n]]}

LEMMA Recursion ==
  ASSUME NEW D, NEW first \in D, NEW next \in [D -> D]
  PROVE  Iterates(D, first, next) # {}
<1> DEFINE G(n) == {g \in [0 .. n -> D] : g[0] = first /\ \A k \in 1 .. n : g[k] = next[g[k - 1]]}
           S == {n \in Nat : G(n) # {}}
           U == {k \in Nat : \A n, m \in Nat : k <= n /\ k <= m =>
                   \A g \in G(n), h \in G(m) : g[k] = h[k]}
<1>1. Nat \subseteq S
  <2>1. 0 \in S
    <3>1. [k \in 0 .. 0 |-> first] \in G(0)
      OBVIOUS
    <3> QED
      BY <3>1
  <2>2. ASSUME NEW n \in Nat, n \in S PROVE n + 1 \in S
    <3>1. PICK g : g \in G(n)
      BY <2>2
    <3> DEFINE h == [k \in 0 .. n + 1 |-> IF k <= n THEN g[k] ELSE next[g[n]]]
    <3>2. g[n] \in D /\ \A k \in 0 .. n : g[k] \in D
      BY <3>1
    <3>3. h \in [0 .. n + 1 -> D]
      BY <3>2
    <3>4. h[0] = first
      BY <3>1
    <3>5. ASSUME NEW k \in 1 .. n + 1 PROVE h[k] = next[h[k - 1]]
      <4>1. CASE k <= n
        BY <3>1, <4>1
      <4>2. CASE k = n + 1
        BY <3>1, <4>2
      <4> QED
        BY <4>1, <4>2
    <3> HIDE DEF h
    <3>6. h \in G(n + 1)
      BY <3>3, <3>4, <3>5
    <3> QED
      BY <3>6
  <2> HIDE DEF S
  <2> QED
    BY <2>1, <2>2, StepByStep
<1>2. Nat \subseteq U
  <2>1. 0 \in U
    OBVIOUS
  <2>2. ASSUME NEW k \in Nat, k \in U PROVE k + 1 \in U
    <3>1. ASSUME NEW n \in Nat, NEW m \in Nat, k + 1 <= n, k + 1 <= m, NEW g \in G(n), NEW h \in G(m)
          PROVE  g[k + 1] = h[k + 1]
      <4>0. k <= n /\ k <= m
        BY <3>1
      <4>1. g[k] = h[k]
        <5> HIDE DEF G
        <5> QED
          BY <2>2, <4>0
      <4>2. k + 1 \in 1 .. n /\ k + 1 \in 1 .. m /\ (k + 1) - 1 = k
        BY <3>1
      <4>3. g[k + 1] = next[g[(k + 1) - 1]] /\ h[k + 1] = next[h[(k + 1) - 1]]
        BY <4>2
      <4> QED
        BY <4>1, <4>2, <4>3
    <3> HIDE DEF G
    <3> QED
      BY <3>1
  <2> HIDE DEF U
  <2> QED
    BY <2>1, <2>2, StepByStep
<1> DEFINE c(n) == CHOOSE g \in G(n) : TRUE
           f == [n \in Nat |-> c(n)[n]]
<1>3. ASSUME NEW n \in Nat PROVE c(n) \in G(n)
  BY <1>1
<1>4. f \in [Nat -> D]
  <2>1. ASSUME NEW n \in Nat PROVE c(n)[n] \in D
    <3>1. c(n) \in [0 .. n -> D]
      BY <1>3
    <3> HIDE DEF c
    <3> QED
      BY <3>1
  <2> HIDE DEF c
  <2> QED
    BY <2>1
<1>5. f[0] = first
  <2>1. c(0) \in G(0)
    BY <1>3
  <2> HIDE DEF c
  <2> QED
    BY <2>1
<1>6. ASSUME NEW n \in Nat PROVE f[n + 1] = next[f[n]]
  <2>0. n + 1 \in Nat
    OBVIOUS
  <2>1. c(n) \in G(n) /\ c(n + 1) \in G(n + 1)
    <3> HIDE DEF c, G
    <3> QED
      BY <1>3, <2>0
  <2> HIDE DEF c
  <2>2. c(n + 1)[n + 1] = next[c(n + 1)[(n + 1) - 1]]
    BY <2>1
  <2>3. c(n + 1)[n] = c(n)[n]
    <3> HIDE DEF G
    <3> QED
      BY <1>2, <2>1
  <2> QED
    BY <2>2, <2>3
<1> HIDE DEF f
<1>7. f \in Iterates(D, first, next)
  BY <1>4, <1>5, <1>6 DEF Iterates
<1> QED
  BY <1>7

\* The ids of S that are left after the first n are taken.
Taken(S, left) ==
  /\ left \in [Nat -> SUBSET S] /\ left[0] = S
  /\ \A n \in Nat : left[n + 1] = left[n] \ {CHOOSE i \in left[n] : TRUE}

LEMMA ListedBy ==
  ASSUME NEW S
  PROVE  \E left : /\ Taken(S, left)
                  /\ Listed(S) = [n \in 1 .. Cardinality(S) |-> CHOOSE i \in left[n - 1] : TRUE]
<1> DEFINE left[n \in Nat] ==
             IF n = 0 THEN S ELSE LET rest == left[n - 1] IN rest \ {CHOOSE i \in rest : TRUE}
           next == [T \in SUBSET S |-> T \ {CHOOSE i \in T : TRUE}]
<1>1. PICK f : f \in Iterates(SUBSET S, S, next)
  <2> DEFINE D == SUBSET S
  <2>1. next \in [D -> D] /\ S \in D
    OBVIOUS
  <2> HIDE DEF next, D
  <2>2. Iterates(D, S, next) # {}
    BY <2>1, Recursion
  <2> QED
    BY <2>2 DEF D
<1>2. f \in [Nat -> SUBSET S] /\ f[0] = S /\ \A n \in Nat : f[n + 1] = next[f[n]]
  <2> HIDE DEF next
  <2> QED
    BY <1>1 DEF Iterates
<1>3. f = [n \in Nat |-> IF n = 0 THEN S
                       ELSE LET rest == f[n - 1] IN rest \ {CHOOSE i \in rest : TRUE}]
  <2>1. ASSUME NEW n \in Nat, n # 0
        PROVE  f[n] = f[n - 1] \ {CHOOSE i \in f[n - 1] : TRUE}
    <3>1. n - 1 \in Nat /\ (n - 1) + 1 = n
      BY <2>1
    <3>2. f[n - 1] \in SUBSET S
      BY <1>2, <3>1
    <3>3. f[n] = next[f[n - 1]]
      <4> HIDE DEF next
      <4> QED
        BY <1>2, <3>1
    <3> QED
      BY <3>2, <3>3
  <2>2. f = [n \in Nat |-> f[n]] /\ f[0] = S
    BY <1>2
  <2>3. \A n \in Nat : f[n] = IF n = 0 THEN S
                            ELSE LET rest == f[n - 1] IN rest \ {CHOOSE i \in rest : TRUE}
    BY <2>1, <2>2
  <2> QED
    BY <2>2, <2>3, Zenon
<1>4. left = [n \in Nat |-> IF n = 0 THEN S
                          ELSE LET rest == left[n - 1] IN rest \ {CHOOSE i \in rest : TRUE}]
  BY <1>3
<1>5. \A n \in Nat : left[n] = IF n = 0 THEN S
                             ELSE LET rest == left[n - 1] IN rest \ {CHOOSE i \in rest : TRUE}
  <2> HIDE DEF left
  <2> QED
    BY <1>4
<1>6. Listed(S) = [n \in 1 .. Cardinality(S) |-> CHOOSE i \in left[n - 1] : TRUE]
  BY Zenon DEF Listed
<1>7. DOMAIN left = Nat /\ left = [n \in Nat |-> left[n]]
  <2> HIDE DEF left
  <2> QED
    BY <1>4
<1> HIDE DEF left
<1>8. left[0] = S
  BY <1>5
<1>9. ASSUME NEW n \in Nat
      PROVE  left[n + 1] = left[n] \ {CHOOSE i \in left[n] : TRUE}
  <2>1. n + 1 \in Nat /\ n + 1 # 0 /\ (n + 1) - 1 = n
    OBVIOUS
  <2> DEFINE k == n + 1
  <2>2. k \in Nat /\ k # 0 /\ k - 1 = n
    BY <2>1
  <2> HIDE DEF k
  <2>3. left[k] = left[k - 1] \ {CHOOSE i \in left[k - 1] : TRUE}
    BY <1>5, <2>2, Zenon
  <2>4. left[k] = left[n] \ {CHOOSE i \in left[n] : TRUE}
    BY <2>2, <2>3, Zenon
  <2> QED
    BY <2>4 DEF k
<1>10. \A n \in Nat : left[n] \in SUBSET S
  <2> DEFINE T == {n \in Nat : left[n] \in SUBSET S}
  <2>1. 0 \in T
    BY <1>8
  <2>2. \A n \in Nat : n \in T => n + 1 \in T
    BY <1>9
  <2> HIDE DEF T
  <2>3. Nat \subseteq T
    BY <2>1, <2>2, StepByStep
  <2> QED
    BY <2>3 DEF T
<1>11. Taken(S, left)
  BY <1>7, <1>8, <1>9, <1>10 DEF Taken
<1> QED
  BY <1>6, <1>11

\* Each id of a finite set is listed once.
LEMMA ListedOnce ==
  ASSUME NEW S, IsFiniteSet(S)
  PROVE  /\ Cardinality(S) \in Nat /\ DOMAIN Listed(S) = 1 .. Cardinality(S)
         /\ \A n \in DOMAIN Listed(S) : Listed(S)[n] \in S
         /\ \A n, m \in DOMAIN Listed(S) : Listed(S)[n] = Listed(S)[m] => n = m
         /\ \A i \in S : \E n \in DOMAIN Listed(S) : Listed(S)[n] = i
<1> DEFINE c == Cardinality(S)
           order == Listed(S)
<1>1. PICK left : /\ Taken(S, left)
                  /\ order = [n \in 1 .. c |-> CHOOSE i \in left[n - 1] : TRUE]
  BY ListedBy
<1> HIDE DEF order
<1>2. c \in Nat
  BY FS_CardinalityType
<1> HIDE DEF c
<1>3. /\ left[0] = S /\ \A n \in Nat : left[n] \subseteq S
      /\ \A n \in Nat : left[n + 1] = left[n] \ {CHOOSE i \in left[n] : TRUE}
  BY <1>1 DEF Taken
<1>4. ASSUME NEW n \in Nat, n <= c
      PROVE  Cardinality(left[n]) = c - n
  <2> DEFINE T == {k \in Nat : k <= c => IsFiniteSet(left[k]) /\ Cardinality(left[k]) = c - k}
  <2>1. 0 \in T
    BY <1>2, <1>3 DEF c
  <2>2. ASSUME NEW k \in Nat, k \in T PROVE k + 1 \in T
    <3> SUFFICES ASSUME k + 1 <= c
                 PROVE  IsFiniteSet(left[k + 1]) /\ Cardinality(left[k + 1]) = c - (k + 1)
      OBVIOUS
    <3>1. IsFiniteSet(left[k]) /\ Cardinality(left[k]) = c - k /\ c - k > 0
      BY <1>2, <2>2
    <3>2. left[k] # {}
      BY <3>1, FS_EmptySet
    <3> DEFINE x == CHOOSE i \in left[k] : TRUE
    <3>3. x \in left[k]
      BY <3>2
    <3>4. left[k + 1] = left[k] \ {x}
      BY <1>3
    <3> HIDE DEF x, T
    <3>5. IsFiniteSet(left[k] \ {x}) /\ Cardinality(left[k] \ {x}) = Cardinality(left[k]) - 1
      BY <3>1, <3>3, FS_RemoveElement
    <3> QED
      BY <1>2, <3>1, <3>4, <3>5
  <2> HIDE DEF T
  <2>3. Nat \subseteq T
    BY <2>1, <2>2, StepByStep
  <2> QED
    BY <1>4, <2>3 DEF T
<1>5. ASSUME NEW n \in 1 .. c
      PROVE  order[n] \in left[n - 1] /\ order[n] \notin left[n] /\ order[n] \in S
  <2>1. n - 1 \in Nat /\ n - 1 <= c /\ n \in Nat /\ (n - 1) + 1 = n
    BY <1>2
  <2>2. Cardinality(left[n - 1]) = c - (n - 1)
    BY <1>4, <2>1
  <2>3. left[n - 1] # {}
    BY <1>2, <2>1, <2>2, FS_EmptySet
  <2>4. order[n] = CHOOSE i \in left[n - 1] : TRUE
    BY <1>1
  <2>5. order[n] \in left[n - 1]
    BY <2>3, <2>4
  <2>6. left[n] = left[n - 1] \ {order[n]}
    BY <1>3, <2>1, <2>4
  <2> QED
    BY <1>3, <2>1, <2>5, <2>6
<1>6. ASSUME NEW n \in Nat, NEW m \in Nat, n <= m
      PROVE  left[m] \subseteq left[n]
  <2> DEFINE T == {k \in Nat : left[n + k] \subseteq left[n]}
  <2>1. 0 \in T
    OBVIOUS
  <2>2. ASSUME NEW k \in Nat, k \in T PROVE k + 1 \in T
    <3>1. n + k \in Nat /\ (n + k) + 1 = n + (k + 1)
      OBVIOUS
    <3>2. left[n + (k + 1)] \subseteq left[n + k]
      BY <1>3, <3>1
    <3> QED
      BY <2>2, <3>2
  <2> HIDE DEF T
  <2>3. Nat \subseteq T
    BY <2>1, <2>2, StepByStep
  <2>4. m - n \in T /\ n + (m - n) = m
    BY <1>6, <2>3
  <2> QED
    BY <2>4 DEF T
<1>7. ASSUME NEW n \in 1 .. c, NEW m \in 1 .. c, n < m PROVE order[n] # order[m]
  <2>1. n \in Nat /\ m - 1 \in Nat /\ n <= m - 1
    BY <1>2, <1>7
  <2>2. left[m - 1] \subseteq left[n]
    BY <1>6, <2>1
  <2> QED
    BY <1>5, <2>2
<1>8. ASSUME NEW i \in S PROVE \E n \in 1 .. c : order[n] = i
  <2> SUFFICES ASSUME \A n \in 1 .. c : order[n] # i PROVE FALSE
    OBVIOUS
  <2> DEFINE T == {k \in Nat : k <= c => i \in left[k]}
  <2>1. 0 \in T
    BY <1>3
  <2>2. ASSUME NEW k \in Nat, k \in T PROVE k + 1 \in T
    <3> SUFFICES ASSUME k + 1 <= c PROVE i \in left[k + 1]
      OBVIOUS
    <3>1. i \in left[k] /\ k + 1 \in 1 .. c /\ (k + 1) - 1 = k
      BY <1>2, <2>2
    <3>2. order[k + 1] = CHOOSE j \in left[k] : TRUE
      BY <1>1, <3>1
    <3> QED
      BY <1>3, <3>1, <3>2
  <2> HIDE DEF T
  <2>3. c \in T
    BY <1>2, <2>1, <2>2, StepByStep
  <2>4. i \in left[c]
    BY <1>2, <2>3 DEF T
  <2>5. Cardinality(left[c]) = 0 /\ IsFiniteSet(left[c])
    BY <1>2, <1>3, <1>4, FS_Subset
  <2> QED
    BY <2>4, <2>5, FS_EmptySet
<1>9. DOMAIN order = 1 .. c
  BY <1>1
<1>10. \A n, m \in 1 .. c : order[n] = order[m] => n = m
  BY <1>2, <1>7
<1> QED
  BY <1>2, <1>5, <1>8, <1>9, <1>10 DEF order, c

----
(* An export *)

Exportable(m, sensitive, superseded) ==
  {i \in DOMAIN m : /\ superseded \/ m[i].supersededBy = None
                    /\ sensitive \/ m[i].label = "normal"}

LEMMA EncodedIs ==
  ASSUME NEW m, NEW kept, IsFiniteSet(kept), NEW f, f = Encoded(m, kept)
  PROVE  /\ Len(f) \in Nat /\ DOMAIN f = 1 .. Len(f) /\ Len(f) = Cardinality(kept)
         /\ \A n \in DOMAIN f : f[n].id \in kept /\ f[n].row = m[f[n].id]
         /\ \A n, k \in DOMAIN f : f[n].id = f[k].id => n = k
         /\ \A i \in kept : \E n \in DOMAIN f : f[n].id = i
<1> DEFINE order == Listed(kept)
           c == Cardinality(kept)
<1>2. /\ c \in Nat /\ DOMAIN order = 1 .. c
      /\ \A n \in DOMAIN order : order[n] \in kept
      /\ \A n, k \in DOMAIN order : order[n] = order[k] => n = k
      /\ \A i \in kept : \E n \in DOMAIN order : order[n] = i
  BY ListedOnce
<1>3. f = [n \in DOMAIN order |-> [id |-> order[n], row |-> m[order[n]]]]
  BY Zenon DEF Encoded
<1> HIDE DEF order, c
<1>4. f = [n \in 1 .. c |-> [id |-> order[n], row |-> m[order[n]]]]
  BY <1>2, <1>3
<1>5. Len(f) = c /\ DOMAIN f = 1 .. c
  BY <1>2, <1>4
<1>6. \A n \in 1 .. c : f[n].id = order[n] /\ f[n].row = m[order[n]]
  BY <1>4
<1> QED
  BY <1>2, <1>5, <1>6 DEF c

LEMMA ExportedIs ==
  ASSUME NEW m, IsFiniteSet(DOMAIN m), NEW sensitive, NEW superseded
  PROVE  /\ Exported(m, sensitive, superseded) = Encoded(m, Exportable(m, sensitive, superseded))
         /\ IsFiniteSet(Exportable(m, sensitive, superseded))
<1>1. IsFiniteSet(Exportable(m, sensitive, superseded))
  BY FS_Subset DEF Exportable
<1> QED
  BY <1>1, Zenon DEF Exported, Exportable

LEMMA ExportFiles ==
  ASSUME IInv, NEW sensitive \in BOOLEAN, NEW superseded \in BOOLEAN,
         Export(sensitive, superseded)
  PROVE  FilesInv'
<1> DEFINE N == Named
           f == Exported(rows, sensitive, superseded)
           kept == Exportable(rows, sensitive, superseded)
<1>1. file' = f /\ budget' = budget /\ Named' = N
  BY DEF Export, syncVars, store, Named, Written
<1>2. IsFiniteSet(DOMAIN rows) /\ \A i \in DOMAIN rows : Given(N, i, rows[i])
  BY DEF IInv, TableInv, Table, Sound
<1>3. /\ Len(f) \in Nat /\ DOMAIN f = 1 .. Len(f)
      /\ \A n \in DOMAIN f : f[n].id \in kept /\ f[n].row = rows[f[n].id]
  BY <1>2, ExportedIs, EncodedIs
<1>4. kept \subseteq DOMAIN rows
  BY DEF Exportable
<1>5. budget \in Budgets /\ \A g \in budget.files : Lines(N, g)
  BY DEF IInv, FilesInv, Files
<1> HIDE DEF N, f, kept
<1>6. Lines(N, f)
  BY <1>2, <1>3, <1>4 DEF Lines
<1> QED
  BY <1>1, <1>5, <1>6 DEF FilesInv, Files

----
(* The invariant is inductive *)

LEMMA InitInv ==
  ASSUME Init
  PROVE  IInv
<1>1. /\ rows \in Before /\ tombs = {} /\ records = <<>> /\ budget \in Budgets
      /\ tree \in [Roots -> UNION {Trees[r] : r \in Roots}] /\ \A r \in Roots : tree[r] \in Trees[r]
      /\ preview = [r \in Roots |-> None] /\ file = None
  BY DEF Init, SyncInit, ConsolidationInit
<1>2. TableInv
  <2>1. IsFiniteSet(DOMAIN rows) /\ None \notin DOMAIN rows /\ \A i \in DOMAIN rows : IsMemory(rows[i])
    BY <1>1, StoresAssumption
  <2>2. \A i \in DOMAIN rows : HonestRow(rows[i])
    BY <1>1, SourcesAssumption
  <2>3. ASSUME NEW i \in DOMAIN rows, rows[i].scope \in Producers
        PROVE  rows[i].by[rows[i].scope] \in Named
    <3>1. rows[i] \in Range(rows)
      BY <2>3 DEF Range
    <3>2. rows[i] \in Written
      BY <1>1, <3>1 DEF Written
    <3> QED
      BY <2>3, <3>2 DEF Named
  <2>4. \A i \in DOMAIN rows : Sound(Named, i, rows[i])
    BY <1>1, <2>1, <2>2, <2>3 DEF Sound, Given, Guarded, Identity
  <2> QED
    BY <1>1, <2>1, <2>4 DEF TableInv, Table
<1>3. RecordsInv
  <2>1. records \in Seq(Range(records)) /\ DOMAIN records = {}
    BY <1>1
  <2> QED
    BY <2>1 DEF RecordsInv, OncePerSourceSet
<1>4. FilesInv
  <2> SUFFICES ASSUME NEW f \in budget.files PROVE Lines(Named, f)
    BY <1>1 DEF FilesInv, Files
  <2>1. /\ Len(f) \in Nat /\ DOMAIN f = 1 .. Len(f)
        /\ \A n \in DOMAIN f : f[n].id # None /\ IsMemory(f[n].row) /\ HonestRow(f[n].row)
    BY <1>1, FilesAssumption
  <2>2. ASSUME NEW n \in DOMAIN f, f[n].row.scope \in Producers
        PROVE  f[n].row.by[f[n].row.scope] \in Named
    <3>1. f[n] \in Range(f)
      BY <2>2 DEF Range
    <3> DEFINE U == UNION {Range(g) : g \in budget.files}
    <3>2. f[n] \in U
      BY <3>1
    <3>3. {e.row : e \in U} \subseteq Written
      BY DEF Written
    <3> HIDE DEF U
    <3>4. f[n].row \in Written
      BY <3>2, <3>3
    <3> QED
      BY <2>2, <3>4 DEF Named
  <2> QED
    BY <2>1, <2>2 DEF Lines, Given, Identity
<1>5. SyncInv
  BY <1>1 DEF SyncInv
<1> QED
  BY <1>2, <1>3, <1>4, <1>5 DEF IInv

\* What a step that writes no memory, no record and no file leaves as it was.
LEMMA KeptRecords ==
  ASSUME RecordsInv, records' = records
  PROVE  RecordsInv'
BY DEF RecordsInv, OncePerSourceSet, SamePeriod

LEMMA KeptTable ==
  ASSUME TableInv, rows' = rows, tombs' = tombs, budget' = budget
  PROVE  TableInv'
<1>1. Named' = Named
  BY DEF Named, Written
<1> QED
  BY <1>1 DEF TableInv

LEMMA KeptFiles ==
  ASSUME FilesInv, budget' = budget, file' = file
  PROVE  FilesInv'
<1>1. Named' = Named /\ Files' = Files
  BY DEF Named, Written, Files
<1> QED
  BY <1>1 DEF FilesInv

LEMMA KeptSync ==
  ASSUME SyncInv, budget' = budget, tree' = tree, preview' = preview
  PROVE  SyncInv'
<1>1. Named' = Named
  BY DEF Named, Written
<1> QED
  BY <1>1 DEF SyncInv

LEMMA CollectSync ==
  ASSUME IInv, NEW root \in Roots, NEW dox, Collect(root, dox)
  PROVE  SyncInv'
<1> DEFINE E == IF dox THEN DoxEvents(root) ELSE RevolveEvents(root)
           N == Named
<1>1. /\ preview' = [preview EXCEPT ![root] = [dox |-> dox, events |-> E]]
      /\ tree' = tree /\ N' = N
  BY DEF Collect, store, Named, Written
<1>2. tree[root] \in Trees[root]
  BY DEF IInv, SyncInv
<1> HIDE DEF N
<1>3. Collection(N, E)
  BY <1>2, DoxCollected, RevolveCollected DEF Collection
<1> HIDE DEF E
<1>4. DOMAIN preview' = Roots /\ preview'[root].events = E
      /\ \A r \in Roots : r # root => preview'[r] = preview[r]
  BY <1>1 DEF IInv, SyncInv
<1>5. \A r \in Roots : preview[r] # None => Collection(N, preview[r].events)
  BY DEF IInv, SyncInv, N
<1>6. \A r \in Roots : preview'[r] # None => Collection(N, preview'[r].events)
  BY <1>3, <1>4, <1>5
<1>7. Named' = N
  BY <1>1 DEF N
<1> QED
  BY <1>1, <1>4, <1>6, <1>7 DEF IInv, SyncInv

LEMMA ClearSync ==
  ASSUME IInv, NEW root \in Roots, preview' = [preview EXCEPT ![root] = None],
         tree' = tree, budget' = budget
  PROVE  SyncInv'
<1>1. Named' = Named
  BY DEF Named, Written
<1>2. DOMAIN preview' = Roots /\ preview'[root] = None
      /\ \A r \in Roots : r # root => preview'[r] = preview[r]
  BY DEF IInv, SyncInv
<1> QED
  BY <1>1, <1>2 DEF IInv, SyncInv

LEMMA EditSync ==
  ASSUME IInv, NEW root \in Roots, NEW content \in Trees[root], Edit(root, content)
  PROVE  SyncInv'
<1>1. Named' = Named /\ preview' = preview /\ tree' = [tree EXCEPT ![root] = content]
  BY DEF Edit, Named, Written, store
<1> QED
  BY <1>1 DEF IInv, SyncInv

LEMMA ClientInv ==
  ASSUME IInv, TableInv', records' = records, budget' = budget, file' = file,
         tree' = tree, preview' = preview
  PROVE  IInv'
BY KeptRecords, KeptFiles, KeptSync DEF IInv

LEMMA NextInv ==
  ASSUME IInv, [Next]_vars
  PROVE  IInv'
<1>1. ASSUME NEW q \in Requests, Consolidate(q, 1), UNCHANGED <<tree, preview, edits>>, UNCHANGED file
      PROVE  IInv'
  <2>1. PICK new : Consolidated(q, 1, new)
    BY <1>1, ConsolidateIs
  <2>2. budget' = budget
    BY <2>1 DEF Consolidated
  <2>3. TableInv' /\ RecordsInv'
    BY <2>1, ConsolidateTable, ConsolidateRecords
  <2> QED
    BY <1>1, <2>2, <2>3, KeptFiles, KeptSync DEF IInv
<1>2. ASSUME NEW e \in Submissions, Submit(e), UNCHANGED <<tree, preview, edits>>, UNCHANGED file
      PROVE  IInv'
  BY <1>2, SubmitTable, ClientInv DEF Submit
<1>3. ASSUME NEW p \in budget.replace, Supersede(p[1], p[2]), UNCHANGED <<tree, preview, edits>>,
             UNCHANGED file
      PROVE  IInv'
  BY <1>3, SupersedeTable, ClientInv DEF Supersede
<1>4. ASSUME NEW i \in budget.forget, Redact(i), UNCHANGED <<tree, preview, edits>>, UNCHANGED file
      PROVE  IInv'
  BY <1>4, RedactTable, ClientInv DEF Redact
<1>5. ASSUME NEW i \in budget.forget, Delete(i), UNCHANGED <<tree, preview, edits>>, UNCHANGED file
      PROVE  IInv'
  BY <1>5, DeleteTable, ClientInv DEF Delete
<1>6. ASSUME NEW r \in Roots, NEW dox, Collect(r, dox), UNCHANGED file
      PROVE  IInv'
  <2>1. UNCHANGED <<rows, tombs, records, budget, tree>>
    BY <1>6 DEF Collect, store
  <2> QED
    BY <1>6, <2>1, CollectSync, KeptTable, KeptRecords, KeptFiles DEF IInv
<1>7. ASSUME NEW r \in Roots, Apply(r), UNCHANGED file
      PROVE  IInv'
  <2>1. UNCHANGED <<tombs, records, budget, tree>> /\ preview' = [preview EXCEPT ![r] = None]
    BY <1>7 DEF Apply
  <2> QED
    BY <1>7, <2>1, ApplyTable, ClearSync, KeptRecords, KeptFiles DEF IInv
<1>8. ASSUME NEW r \in Roots, Discard(r), UNCHANGED file
      PROVE  IInv'
  <2>1. UNCHANGED <<rows, tombs, records, budget, tree>> /\ preview' = [preview EXCEPT ![r] = None]
    BY <1>8 DEF Discard, store
  <2> QED
    BY <1>8, <2>1, ClearSync, KeptTable, KeptRecords, KeptFiles DEF IInv
<1>9. ASSUME NEW r \in Roots, NEW content \in Trees[r], Edit(r, content), UNCHANGED file
      PROVE  IInv'
  <2>1. UNCHANGED <<rows, tombs, records, budget>>
    BY <1>9 DEF Edit, store
  <2> QED
    BY <1>9, <2>1, EditSync, KeptTable, KeptRecords, KeptFiles DEF IInv
<1>10. ASSUME NEW sensitive \in BOOLEAN, NEW superseded \in BOOLEAN, Export(sensitive, superseded)
       PROVE  IInv'
  <2>1. UNCHANGED <<rows, tombs, records, budget, tree, preview>>
    BY <1>10 DEF Export, syncVars, store
  <2> QED
    BY <1>10, <2>1, ExportFiles, KeptTable, KeptRecords, KeptSync DEF IInv
<1>11. ASSUME NEW lines \in Files, NEW replace \in BOOLEAN, Import(lines, replace)
       PROVE  IInv'
  BY <1>11, ImportTable, ClientInv DEF Import
<1>12. CASE UNCHANGED vars
  BY <1>12, KeptTable, ClientInv DEF vars, syncVars, store, IInv
<1>13. CASE Next
  <2>1. CASE ConsolidationNext /\ UNCHANGED <<tree, preview, edits>> /\ UNCHANGED file
    BY <1>1, <1>2, <1>3, <1>4, <1>5, <2>1 DEF ConsolidationNext
  <2>2. CASE /\ UNCHANGED file
             /\ \E r \in Roots : \/ \E dox \in {d \in BOOLEAN : <<r, d>> \in budget.syncs} : Collect(r, dox)
                                 \/ Apply(r)
                                 \/ Discard(r)
                                 \/ \E content \in Trees[r] : Edit(r, content)
    BY <1>6, <1>7, <1>8, <1>9, <2>2
  <2> QED
    BY <1>10, <1>11, <1>13, <2>1, <2>2 DEF Next, SyncNext
<1> QED
  BY <1>12, <1>13

(* The invariant holds in every reachable state.                           *)
THEOREM DerivedMemoriesStaySound == Spec => []IInv
<1>1. Init => IInv
  BY InitInv
<1>2. IInv /\ [Next]_vars => IInv'
  BY NextInv
<1> QED
  BY <1>1, <1>2, PTL DEF Spec

----
\* Only a consolidation adds a record, and it is the only thing that happens.
LEMMA GrowsByConsolidating ==
  ASSUME [Next]_vars, IInv, Len(records') > Len(records)
  PROVE  \E q \in Requests : \E new : Consolidated(q, 1, new)
<1>0. Len(records) \in Nat
  BY DEF IInv, RecordsInv
<1>1. records' # records
  BY <1>0
<1>2. Next
  BY <1>1 DEF vars, syncVars, store
<1>3. \A e : ~Submit(e)
  BY <1>1 DEF Submit
<1>4. \A old, new : ~Supersede(old, new)
  BY <1>1 DEF Supersede
<1>5. \A i : ~Redact(i) /\ ~Delete(i)
  BY <1>1 DEF Redact, Delete
<1>6. \A r, dox : ~Collect(r, dox)
  BY <1>1 DEF Collect, store
<1>7. \A r : ~Apply(r) /\ ~Discard(r)
  BY <1>1 DEF Apply, Discard, store
<1>8. \A r, content : ~Edit(r, content)
  BY <1>1 DEF Edit, store
<1>9. \A sensitive, superseded : ~Export(sensitive, superseded)
  BY <1>1 DEF Export, syncVars, store
<1>10. \A lines, replace : ~Import(lines, replace)
  BY <1>1 DEF Import
<1>11. \E q \in Requests : Consolidate(q, 1)
  BY <1>2, <1>3, <1>4, <1>5, <1>6, <1>7, <1>8, <1>9, <1>10, Zenon
    DEF Next, SyncNext, ConsolidationNext
<1> QED
  BY <1>11, ConsolidateIs

(* Summaries speak for one partition, once for a set of sources, and a     *)
(* forced consolidation leaves no earlier one live (consolidate_memories,  *)
(* consolidate in lib.rs), whatever clients, syncs and imports do between. *)
THEOREM SummariesAreHonest == Spec => SummariesHonest
<1>1. IInv => OncePerSourceSet
  BY DEF IInv, RecordsInv
<1>2. IInv /\ [Next]_vars =>
        [Len(records') > Len(records) =>
           \A i \in records'[Len(records')].outputs : SpeaksForItsSources(i)]_store
  <2> SUFFICES ASSUME IInv, [Next]_vars, Len(records') > Len(records),
                      NEW i \in records'[Len(records')].outputs
               PROVE  SpeaksForItsSources(i)
    OBVIOUS
  <2>0. PICK q \in Requests : \E new : Consolidated(q, 1, new)
    BY GrowsByConsolidating
  <2>1. PICK new : Consolidated(q, 1, new)
    BY <2>0
  <2>2. i \in new
    BY <2>1, ConsolidateRecords
  <2>3. PICK g \in Groups(Candidates(q)) : rows'[i] = Output(g, q, 1)
    BY <2>1, <2>2 DEF Consolidated
  <2> QED
    BY <2>3, SummarySpeaks
<1>3. IInv /\ [Next]_vars =>
        [Len(records') > Len(records) =>
           LET r == records'[Len(records')]
           IN  r.request.force => \A i \in PreviousOutputs(r.request) :
                                    rows'[i].supersededBy \in r.outputs]_store
  <2> SUFFICES ASSUME IInv, [Next]_vars, Len(records') > Len(records),
                      records'[Len(records')].request.force,
                      NEW i \in PreviousOutputs(records'[Len(records')].request)
               PROVE  rows'[i].supersededBy \in records'[Len(records')].outputs
    OBVIOUS
  <2>0. PICK q \in Requests : \E new : Consolidated(q, 1, new)
    BY GrowsByConsolidating
  <2>1. PICK new : Consolidated(q, 1, new)
    BY <2>0
  <2>2. records'[Len(records')].request = q /\ records'[Len(records')].outputs = new
    BY <2>1, ConsolidateRecords
  <2>3. q.force /\ i \in PreviousOutputs(q)
    BY <2>2
  <2>4. i \in DOMAIN rows /\ \E v \in new : rows'[i] = [rows[i] EXCEPT !.supersededBy = v]
    BY <2>1, <2>3 DEF Consolidated
  <2>5. DOMAIN rows[i] = DOMAIN NewMemory
    BY <2>4, MemoryFields DEF IInv, TableInv, Table, Sound, Given
  <2> QED
    BY <2>2, <2>4, <2>5, FieldsOf
<1>4. Spec => []IInv
  BY DerivedMemoriesStaySound
<1> QED
  BY <1>1, <1>2, <1>3, <1>4, PTL DEF Spec, SummariesHonest, PartitionsKept, ForceReplaces

----
(* What a collection that is applied leaves. *)
LEMMA ApplyIs ==
  ASSUME IInv, NEW root \in Roots, Apply(root), rows' # rows
  PROVE  /\ DOMAIN rows' = {e.id : e \in preview[root].events} \cup DOMAIN rows
         /\ \A e \in preview[root].events : rows'[e.id] = e.row
         /\ \A i \in DOMAIN rows' :
              (\A e \in preview[root].events : e.id # i) => rows'[i] = rows[i]
<1> DEFINE E == preview[root].events
           new == [i \in {e.id : e \in E} |-> (CHOOSE e \in E : e.id = i).row]
<1>1. rows' = Over(new, rows) /\ preview[root] # None
  BY DEF Apply, Stored
<1>2. Collection(Named, E)
  BY <1>1 DEF IInv, SyncInv
<1>3. DOMAIN new = {e.id : e \in E}
  OBVIOUS
<1>4. \A e \in E : new[e.id] = e.row
  BY <1>2, Chosen DEF Collection
<1> HIDE DEF new
<1>5. DOMAIN rows' = DOMAIN new \cup DOMAIN rows
  BY <1>1 DEF Over
<1>6. \A i \in DOMAIN rows' : rows'[i] = IF i \in DOMAIN new THEN new[i] ELSE rows[i]
  BY <1>1, <1>5 DEF Over
<1> HIDE DEF E
<1>7. ASSUME NEW e \in E PROVE rows'[e.id] = e.row
  BY <1>3, <1>4, <1>5, <1>6
<1>8. ASSUME NEW i \in DOMAIN rows', \A e \in E : e.id # i PROVE rows'[i] = rows[i]
  BY <1>3, <1>6, <1>8
<1> QED
  BY <1>3, <1>5, <1>7, <1>8 DEF E

\* Whose preview is taken: nothing else that changes the store takes one.
LEMMA TakenByApply ==
  ASSUME [Next]_vars, NEW r \in Roots, preview[r] # None, preview'[r] = None, rows' # rows, IInv
  PROVE  Apply(r)
<1>1. preview' # preview
  OBVIOUS
<1>2. Next
  BY <1>1 DEF vars, syncVars
<1>3. ~UNCHANGED <<tree, preview, edits>>
  BY <1>1
<1>4. \A sensitive, superseded : ~Export(sensitive, superseded)
  BY <1>1 DEF Export, syncVars
<1>5. \A lines, replace : ~Import(lines, replace)
  BY <1>1 DEF Import
<1>6. \A root, dox : ~Collect(root, dox)
  BY DEF Collect, store
<1>7. \A root : ~Discard(root)
  BY DEF Discard, store
<1>8. \A root, content : ~Edit(root, content)
  BY DEF Edit, store
<1>9. PICK root \in Roots : Apply(root)
  BY <1>2, <1>3, <1>4, <1>5, <1>6, <1>7, <1>8, Zenon DEF Next, SyncNext
<1>10. preview' = [preview EXCEPT ![root] = None]
  BY <1>9 DEF Apply
<1>11. r = root
  BY <1>10 DEF IInv, SyncInv
<1> QED
  BY <1>9, <1>11

(* A memory with a fingerprint says what that root's files said, and what  *)
(* a sync stores is what the person saw, though files and store change     *)
(* meanwhile (apply_dox_preview, put_dox_many, validate_dox_source_update).*)
THEOREM SyncsAreHonest == Spec => SyncsHonest
<1>1. IInv => SourceHonest
  BY DEF IInv, TableInv, Table, Sound, Given, SourceHonest
<1>2. IInv /\ [Next]_vars =>
        [\A r \in Roots :
           preview[r] # None /\ preview'[r] = None /\ rows' # rows =>
             \A e \in preview[r].events : e.id \in DOMAIN rows' /\ rows'[e.id] = e.row]_syncVars
  <2> SUFFICES ASSUME IInv, [Next]_vars, NEW r \in Roots,
                      preview[r] # None, preview'[r] = None, rows' # rows,
                      NEW e \in preview[r].events
               PROVE  e.id \in DOMAIN rows' /\ rows'[e.id] = e.row
    OBVIOUS
  <2>1. Apply(r)
    BY TakenByApply
  <2> QED
    BY <2>1, ApplyIs
<1>3. Spec => []IInv
  BY DerivedMemoriesStaySound
<1> QED
  BY <1>1, <1>2, <1>3, PTL DEF Spec, SyncsHonest, SyncIsThePreview

----
(* What an audit finds *)

\* No contradiction and nothing critical.
Harmless(f) == f.type # "contradictions" /\ f.severity # "critical"

LEMMA RedactedRow ==
  ASSUME IInv, NEW i \in tombs
  PROVE  IsRedacted(rows[i]) /\ i # None
<1>1. IsMemory(rows[i]) /\ rows[i] = Redacted(rows[i]) /\ i # None
  BY DEF IInv, TableInv, Table, Sound, Given
<1> QED
  BY <1>1, RedactedFields

LEMMA AuditFindsNothing ==
  ASSUME IInv, NEW i \in tombs, NEW f \in Audit("all"), i \in {f.id, f.other}
  PROVE  Harmless(f)
<1>1. IsRedacted(rows[i]) /\ rows[i].label = "private" /\ rows[i].says = None /\ i # None
  BY RedactedRow DEF IsRedacted
<1>2. PICK t \in AuditTypes : f \in Findings[t]
  BY DEF Audit
<1>3. CASE t = "stale"
  <2>1. f \in StaleFindings(rows)
    BY <1>2, <1>3 DEF Findings
  <2> QED
    BY <2>1 DEF StaleFindings, Finding, Harmless
<1>4. CASE t = "sensitive"
  <2>1. f \in SensitiveFindings(rows)
    BY <1>2, <1>4 DEF Findings
  <2>2. f.type = "sensitive" /\ f.other = None
    BY <2>1 DEF SensitiveFindings, Finding
  <2>3. f.severity = "critical" => rows[f.id].label = "secret"
    BY <2>1 DEF SensitiveFindings, Finding
  <2> QED
    BY <1>1, <2>2, <2>3 DEF Harmless
<1>5. CASE t = "low_confidence"
  <2>1. f \in LowConfidenceFindings(rows)
    BY <1>2, <1>5 DEF Findings
  <2> QED
    BY <2>1 DEF LowConfidenceFindings, Finding, Harmless
<1>6. CASE t = "supersession"
  <2>1. f \in SupersessionFindings(rows)
    BY <1>2, <1>6 DEF Findings
  <2> QED
    BY <2>1 DEF SupersessionFindings, Finding, Harmless
<1>7. CASE t = "contradictions"
  <2>1. f \in ContradictionFindings(rows)
    BY <1>2, <1>7 DEF Findings
  <2>2. PICK p \in (DOMAIN rows) \X (DOMAIN rows) :
          Contradict(rows[p[1]], rows[p[2]]) /\ f = Finding("contradictions", "medium", p[1], p[2])
    BY <2>1 DEF ContradictionFindings
  <2>3. f.id = p[1] /\ f.other = p[2]
    BY <2>2 DEF Finding
  <2>4. rows[f.id].says # None /\ rows[f.other].says # None
    BY <2>2, <2>3 DEF Contradict
  <2> QED
    BY <1>1, <2>4
<1> QED
  BY <1>3, <1>4, <1>5, <1>6, <1>7 DEF AuditTypes

----
\* How a superseded memory can be live again.
WrittenAnew(i) ==
  \/ \E e \in Submissions : e.id = i /\ rows'[i] = Labelled(e.row)
  \/ \E r \in Roots : preview[r] # None /\ \E e \in preview[r].events :
       e.id = i /\ rows'[i] = e.row
  \/ \E lines \in Files : \E n \in DOMAIN lines :
       lines[n].id = i /\ lines[n].row.supersededBy = None

LEMMA Supersedable ==
  ASSUME IInv, NEW i \in DOMAIN rows
  PROVE  /\ IsMemory(rows[i])
         /\ \A v : [rows[i] EXCEPT !.supersededBy = v].supersededBy = v
         /\ Redacted(rows[i]).supersededBy = rows[i].supersededBy
<1>1. IsMemory(rows[i])
  BY DEF IInv, TableInv, Table, Sound, Given
<1> QED
  BY <1>1, MemoryFields, FieldsOf, RedactedFields

LEMMA RevivedByImport ==
  ASSUME IInv, NEW lines \in Files, NEW replace \in BOOLEAN, Import(lines, replace),
         NEW i \in DOMAIN rows, rows[i].supersededBy # None, rows'[i].supersededBy = None
  PROVE  WrittenAnew(i)
<1> DEFINE ev == Normalised(lines)
           plan == Planned(rows, ev, replace)
           t == Imported(rows, ev, replace)
           N == Named
<1>1. rows' = t
  BY DEF Import
<1>2. Lines(N, lines)
  BY DEF IInv, FilesInv
<1> HIDE DEF N
<1>3. /\ DOMAIN ev = 1 .. Len(lines)
      /\ \A n \in DOMAIN lines :
           /\ ev[n].id = lines[n].id /\ ev[n].row.supersededBy = lines[n].row.supersededBy
           /\ Sound(N, lines[n].id, ev[n].row)
  BY <1>2, NormalisedSound
<1>3a. DOMAIN lines = 1 .. Len(lines) /\ Len(lines) \in Nat
  BY <1>2 DEF Lines
<1> HIDE DEF ev
<1>4a. /\ plan \subseteq 1 .. Len(lines)
       /\ DOMAIN t = {ev[n].id : n \in plan} \cup DOMAIN rows
       /\ \A j \in DOMAIN t : \E r : Base(rows, ev, plan, j, r) /\ Replaced(ev, plan, j, r, t[j])
  BY <1>3, <1>3a, ImportedIs
<1> HIDE DEF plan, t
<1>4. plan \subseteq DOMAIN lines /\ i \in DOMAIN t
  BY <1>3a, <1>4a
<1>5. PICK r : Base(rows, ev, plan, i, r) /\ Replaced(ev, plan, i, r, rows'[i])
  BY <1>1, <1>4, <1>4a
<1>6. IsMemory(r)
  <2>1. \A n \in plan : IsMemory(ev[n].row)
    BY <1>3, <1>4 DEF Sound, Given
  <2> QED
    BY <1>5, <2>1, Supersedable DEF Base
<1>7. rows'[i] = r
  <2>1. ASSUME NEW n \in plan, rows'[i] = [r EXCEPT !.supersededBy = ev[n].id] PROVE FALSE
    <3>1. ev[n].id # None
      BY <1>3, <1>4 DEF Sound, Given
    <3> QED
      BY <1>6, <2>1, <3>1, MemoryFields, FieldsOf
  <2> QED
    BY <1>5, <2>1 DEF Replaced
<1>8. PICK n \in plan : ev[n].id = i /\ r = ev[n].row
  BY <1>5, <1>7 DEF Base
<1>9. n \in DOMAIN lines /\ lines[n].id = i /\ lines[n].row.supersededBy = None
  BY <1>3, <1>4, <1>7, <1>8
<1> QED
  BY <1>9 DEF WrittenAnew

LEMMA RevivedByWrite ==
  ASSUME IInv, [Next]_vars, NEW i \in DOMAIN rows \cap DOMAIN rows',
         rows[i].supersededBy # None, rows'[i].supersededBy = None
  PROVE  WrittenAnew(i)
<1>0. rows'[i] # rows[i]
  OBVIOUS
<1>1. ASSUME NEW q \in Requests, Consolidate(q, 1) PROVE FALSE
  <2>1. PICK new : Consolidated(q, 1, new)
    BY <1>1, ConsolidateIs
  <2>2. PICK v \in new : rows'[i] = [rows[i] EXCEPT !.supersededBy = v]
    BY <1>0, <2>1 DEF Consolidated
  <2> QED
    BY <2>1, <2>2, Supersedable DEF Consolidated
<1>2. ASSUME NEW e \in Submissions, Submit(e) PROVE WrittenAnew(i)
  <2> DEFINE new == [j \in {e.id} |-> Labelled(e.row)]
  <2>1. rows' = Over(new, rows)
    BY <1>2 DEF Submit
  <2>2. rows'[i] = IF i \in DOMAIN new THEN new[i] ELSE rows[i]
    BY <2>1 DEF Over
  <2>3. i = e.id /\ rows'[i] = Labelled(e.row)
    BY <1>0, <2>2
  <2> QED
    BY <2>3 DEF WrittenAnew
<1>3. ASSUME NEW p \in budget.replace, Supersede(p[1], p[2]) PROVE FALSE
  <2>1. p[2] # None
    BY StoresAssumption DEF IInv, FilesInv
  <2>2. rows' = [rows EXCEPT ![p[1]].supersededBy = p[2]]
    BY <1>3 DEF Supersede
  <2>3. rows'[i] = [rows[i] EXCEPT !.supersededBy = p[2]]
    BY <1>0, <2>2
  <2> QED
    BY <2>1, <2>3, Supersedable
<1>4. ASSUME NEW j, Redact(j) PROVE FALSE
  <2>1. rows'[i] = Redacted(rows[i])
    BY <1>0, <1>4 DEF Redact
  <2> QED
    BY <2>1, Supersedable
<1>5. \A j : ~Delete(j)
  BY <1>0 DEF Delete
<1>6. ASSUME NEW r \in Roots, Apply(r) PROVE WrittenAnew(i)
  <2>1. PICK e \in preview[r].events : e.id = i
    BY <1>0, <1>6, ApplyIs
  <2>2. rows'[i] = e.row /\ preview[r] # None
    BY <1>0, <1>6, <2>1, ApplyIs DEF Apply
  <2> QED
    BY <2>1, <2>2 DEF WrittenAnew
<1>7. /\ \A r, dox : ~Collect(r, dox)
      /\ \A r : ~Discard(r)
      /\ \A r, content : ~Edit(r, content)
  BY <1>0 DEF Collect, Discard, Edit, store
<1>8. \A sensitive, superseded : ~Export(sensitive, superseded)
  BY <1>0 DEF Export, syncVars, store
<1>9. ASSUME NEW lines \in Files, NEW replace \in BOOLEAN, Import(lines, replace) PROVE WrittenAnew(i)
  BY <1>9, RevivedByImport
<1>10. Next
  BY <1>0 DEF vars, syncVars, store
<1>11. CASE ConsolidationNext
  BY <1>1, <1>2, <1>3, <1>4, <1>5, <1>11 DEF ConsolidationNext
<1>12. CASE ~ConsolidationNext
  BY <1>6, <1>7, <1>8, <1>9, <1>10, <1>12, Zenon DEF Next, SyncNext
<1> QED
  BY <1>11, <1>12

(* A redacted memory says nothing, is no secret and contradicts nothing    *)
(* whatever is imported over it, and what was replaced is live again only  *)
(* as somebody has written it (redact_in_transaction, validate_import,     *)
(* put, apply_supersedes).                                                 *)
THEOREM RedactionsLast == Spec => NothingComesBack
<1>1. IInv => TypeOK
  BY DEF IInv, TableInv, RecordsInv, SyncInv, Collection, TypeOK
<1>2. IInv => RedactionsHold
  <2> SUFFICES ASSUME IInv, NEW i \in tombs
               PROVE  /\ rows[i].found = "normal" /\ rows[i].says = None /\ rows[i].links = {}
                      /\ \A f \in Audit("all") :
                           i \in {f.id, f.other} => f.type # "contradictions" /\ f.severity # "critical"
    BY DEF RedactionsHold
  <2>1. rows[i].found = "normal" /\ rows[i].says = None /\ rows[i].links = {}
    BY RedactedRow DEF IsRedacted
  <2> QED
    BY <2>1, AuditFindsNothing DEF Harmless
<1>3. IInv /\ [Next]_vars =>
        [\A i \in DOMAIN rows \cap DOMAIN rows' :
           rows[i].supersededBy # None /\ rows'[i].supersededBy = None =>
             \/ \E e \in Submissions : e.id = i /\ rows'[i] = Labelled(e.row)
             \/ \E r \in Roots : preview[r] # None /\ \E e \in preview[r].events :
                  e.id = i /\ rows'[i] = e.row
             \/ \E lines \in Files : \E n \in DOMAIN lines :
                  lines[n].id = i /\ lines[n].row.supersededBy = None]_vars
  BY RevivedByWrite DEF WrittenAnew
<1>4. Spec => []IInv
  BY DerivedMemoriesStaySound
<1> QED
  BY <1>1, <1>2, <1>3, <1>4, PTL DEF Spec, NothingComesBack, RevivedOnlyByAWrite

----
(* Memories without a producer stay apart *)

LEMMA GroupsKeepApart ==
  ASSUME IInv, NEW q, NEW g \in Groups(Candidates(q)), NEW i \in g, NEW j \in g,
         Unnamed(i), Unnamed(j)
  PROVE  i = j
<1>1. /\ i \in Candidates(q) /\ j \in Candidates(q) /\ GroupKey(rows[i]) = GroupKey(rows[j])
  BY GroupMembers
<1>2. /\ rows[i].scope = rows[j].scope /\ rows[i].scope \in Producers
      /\ rows[i].by[rows[i].scope] = rows[j].by[rows[i].scope]
  BY <1>1, KeyParts DEF Unnamed
<1>3. ASSUME NEW k \in Candidates(q), Unnamed(k)
      PROVE  rows[k].by[rows[k].scope] = Legacy(rows[k].scope, k)
  <2>1. IsCandidate(rows[k], q) /\ k \in DOMAIN rows
    BY DEF Candidates
  <2>2. ~(rows[k].kind = "summary" /\ rows[k].source = "consolidation")
    BY <2>1 DEF IsCandidate
  <2>3. Identity(Named, k, rows[k])
    BY <2>1 DEF IInv, TableInv, Table, Sound, Given
  <2> QED
    BY <1>3, <2>2, <2>3 DEF Identity, Unnamed
<1>4. Legacy(rows[i].scope, i) = Legacy(rows[i].scope, j)
  BY <1>1, <1>2, <1>3
<1> QED
  BY <1>4 DEF Legacy

(* What an export without --include-sensitive shows of what the guard      *)
(* detects is older than this version's writes, and no summary speaks for  *)
(* two memories whose producer nobody has named (list_all,                 *)
(* synthetic_legacy_private_scope_identity, summary_partition_key).        *)
THEOREM PrivateIsApart == Spec => PrivateStaysApart
<1>1. IInv => ExportGuarded
  <2> DEFINE lines == Exported(rows, FALSE, TRUE)
  <2> SUFFICES ASSUME IInv, NEW n \in DOMAIN lines, lines[n].row.found # "normal"
               PROVE  \E b \in Before : lines[n].id \in DOMAIN b
                                        /\ b[lines[n].id].found = lines[n].row.found
    BY DEF ExportGuarded
  <2>1. IsFiniteSet(DOMAIN rows)
    BY DEF IInv, TableInv, Table
  <2>2. \A k \in DOMAIN lines :
          lines[k].id \in Exportable(rows, FALSE, TRUE) /\ lines[k].row = rows[lines[k].id]
    <3> DEFINE kept == Exportable(rows, FALSE, TRUE)
    <3>1. IsFiniteSet(kept)
      BY <2>1, FS_Subset DEF Exportable
    <3>2. lines = Encoded(rows, kept)
      BY Zenon DEF Exported, Exportable
    <3> HIDE DEF kept, lines
    <3>3. \A k \in DOMAIN lines : lines[k].id \in kept /\ lines[k].row = rows[lines[k].id]
      BY <3>1, <3>2, EncodedIs
    <3> QED
      BY <3>3 DEF kept
  <2> HIDE DEF lines
  <2>3. lines[n].id \in DOMAIN rows /\ rows[lines[n].id].label = "normal"
    BY <2>2 DEF Exportable
  <2> QED
    BY <2>2, <2>3 DEF IInv, TableInv, Table, Sound, Guarded
<1>2. IInv /\ [Next]_vars =>
        [Len(records') > Len(records) =>
           \A o \in records'[Len(records')].outputs :
             \A i, j \in rows'[o].links : Unnamed(i) /\ Unnamed(j) => i = j]_vars
  <2> SUFFICES ASSUME IInv, [Next]_vars, Len(records') > Len(records),
                      NEW o \in records'[Len(records')].outputs,
                      NEW i \in rows'[o].links, NEW j \in rows'[o].links, Unnamed(i), Unnamed(j)
               PROVE  i = j
    OBVIOUS
  <2>0. PICK q \in Requests : \E new : Consolidated(q, 1, new)
    BY GrowsByConsolidating
  <2>1. PICK new : Consolidated(q, 1, new)
    BY <2>0
  <2>2. o \in new
    BY <2>1, ConsolidateRecords
  <2>3. PICK g \in Groups(Candidates(q)) : rows'[o] = Output(g, q, 1)
    BY <2>1, <2>2 DEF Consolidated
  <2>4. rows'[o].links = g
    <3>1. OutputSpeaksFor(Output(g, q, 1), g, rows[CHOOSE k \in g : TRUE])
      BY OutputFields
    <3> QED
      BY <2>3, <3>1 DEF OutputSpeaksFor
  <2> QED
    BY <2>4, GroupsKeepApart
<1>3. Spec => []IInv
  BY DerivedMemoriesStaySound
<1> QED
  BY <1>1, <1>2, <1>3, PTL DEF Spec, PrivateStaysApart, LegacyApart

----
LEMMA SupersessionAudited ==
  /\ SupersessionFindings(rows) \subseteq Audit("supersession")
  /\ \A j \in DOMAIN rows : rows[j].supersededBy \notin DOMAIN rows \cup {None} =>
       Finding("supersession", "high", j, rows[j].supersededBy) \in SupersessionFindings(rows)
  /\ \A j \in DOMAIN rows : \A old \in rows[j].supersedes :
       old \notin DOMAIN rows \/ rows[old].supersededBy # j =>
         Finding("supersession", "medium", j, old) \in SupersessionFindings(rows)
<1>1. SupersessionFindings(rows) \subseteq Audit("supersession")
  <2>1. Findings["supersession"] = SupersessionFindings(rows)
    BY DEF Findings
  <2>2. "supersession" \in {u \in AuditTypes : "supersession" \in {"all", u}}
    BY DEF AuditTypes
  <2> QED
    BY <2>1, <2>2 DEF Audit
<1>2. ASSUME NEW j \in DOMAIN rows, rows[j].supersededBy \notin DOMAIN rows \cup {None}
      PROVE  Finding("supersession", "high", j, rows[j].supersededBy) \in SupersessionFindings(rows)
  BY <1>2 DEF SupersessionFindings
<1>3. ASSUME NEW j \in DOMAIN rows, NEW old \in rows[j].supersedes,
             old \notin DOMAIN rows \/ rows[old].supersededBy # j
      PROVE  Finding("supersession", "medium", j, old) \in SupersessionFindings(rows)
  <2> DEFINE Broken(i) ==
               {Finding("supersession", "medium", i, o) :
                  o \in {p \in rows[i].supersedes :
                           p \notin DOMAIN rows \/ rows[p].supersededBy # i}}
  <2>1. Finding("supersession", "medium", j, old) \in Broken(j)
    BY <1>3
  <2>2. (UNION {Broken(i) : i \in DOMAIN rows}) \subseteq SupersessionFindings(rows)
    BY DEF SupersessionFindings
  <2> HIDE DEF Broken
  <2> QED
    BY <2>1, <2>2
<1> QED
  BY <1>1, <1>2, <1>3

LEMMA SameLink ==
  ASSUME NEW r, IsMemory(r), NEW v, r.supersededBy = v
  PROVE  [r EXCEPT !.supersededBy = v] = r
<1> DEFINE s == [r EXCEPT !.supersededBy = v]
<1>0. DOMAIN r = DOMAIN NewMemory /\ r = [f \in DOMAIN NewMemory |-> r[f]]
  BY MemoryFields DEF IsMemory
<1>1. s = [f \in DOMAIN NewMemory |-> s[f]] /\ \A f \in DOMAIN NewMemory : s[f] = r[f]
  BY <1>0, FieldsOf
<1> HIDE DEF s
<1>2. s = r
  BY <1>0, <1>1
<1> QED
  BY <1>2 DEF s

\* A file of memories whose links agree is taken in as it is.
TakesAll(ev, t) ==
  /\ DOMAIN t = {ev[n].id : n \in DOMAIN ev}
  /\ \A n \in DOMAIN ev : t[ev[n].id] = ev[n].row

LEMMA EmptyStoreTakesAll ==
  ASSUME NEW k \in Nat, NEW ev, DOMAIN ev = 1 .. k, NEW replace \in BOOLEAN,
         \A n, m \in DOMAIN ev : ev[n].id = ev[m].id => n = m,
         \A n \in DOMAIN ev : IsMemory(ev[n].row),
         \A n, m \in DOMAIN ev : ev[n].id \in ev[m].row.supersedes =>
                                   ev[n].row.supersededBy = ev[m].id
  PROVE  TakesAll(ev, Imported(<<>>, ev, replace))
<1> DEFINE none == <<>>
           plan == Planned(none, ev, replace)
           copy == Imported(none, ev, replace)
<1>0. DOMAIN none = {}
  OBVIOUS
<1>1. plan = DOMAIN ev
  <2> HIDE DEF none
  <2>1. ASSUME NEW n \in DOMAIN ev
        PROVE  ev[n].id \notin DOMAIN none \cup {ev[m].id : m \in 1 .. n - 1}
    <3>1. \A m \in 1 .. n - 1 : m \in DOMAIN ev /\ m # n
      OBVIOUS
    <3> QED
      BY <1>0, <3>1
  <2> QED
    BY <2>1 DEF Planned
<1> HIDE DEF none
<1>2. /\ plan \subseteq 1 .. k
      /\ DOMAIN copy = {ev[n].id : n \in plan} \cup DOMAIN none
      /\ \A i \in DOMAIN copy :
           \E r : Base(none, ev, plan, i, r) /\ Replaced(ev, plan, i, r, copy[i])
  BY ImportedIs
<1> HIDE DEF plan, copy
<1>3. DOMAIN copy = {ev[n].id : n \in DOMAIN ev}
  BY <1>0, <1>1, <1>2
<1>4. ASSUME NEW n \in DOMAIN ev PROVE copy[ev[n].id] = ev[n].row
  <2>1. PICK r : Base(none, ev, plan, ev[n].id, r) /\ Replaced(ev, plan, ev[n].id, r, copy[ev[n].id])
    BY <1>2, <1>3
  <2>2. r = ev[n].row
    BY <1>0, <1>1, <2>1 DEF Base
  <2>3. ASSUME NEW m \in plan, ev[n].id \in ev[m].row.supersedes
        PROVE  [r EXCEPT !.supersededBy = ev[m].id] = r
    BY <1>1, <2>2, <2>3, SameLink
  <2> QED
    BY <2>1, <2>2, <2>3 DEF Replaced
<1> QED
  BY <1>3, <1>4, Zenon DEF copy, none, TakesAll

Restored(ev, t) ==
  /\ Cardinality(DOMAIN t) = Len(ev)
  /\ \A n \in DOMAIN ev : t[ev[n].id] = ev[n].row

LEMMA CleanIsRestored ==
  ASSUME IInv, Audit("supersession") = {}, NEW sensitive \in BOOLEAN, NEW superseded \in BOOLEAN,
         NEW events, events = Normalised(Exported(rows, sensitive, superseded)),
         NEW replace \in BOOLEAN
  PROVE  Restored(events, Imported(<<>>, events, replace))
<1> DEFINE kept == Exportable(rows, sensitive, superseded)
           f == Exported(rows, sensitive, superseded)
           N == Named
<1>1. IsFiniteSet(DOMAIN rows) /\ \A i \in DOMAIN rows : Sound(N, i, rows[i]) /\ Given(N, i, rows[i])
  BY DEF IInv, TableInv, Table, Sound
<1>2. f = Encoded(rows, kept) /\ IsFiniteSet(kept) /\ kept \subseteq DOMAIN rows
  BY <1>1, ExportedIs DEF Exportable
<1>3. events = Normalised(f)
  OBVIOUS
<1> DEFINE copy == Imported(<<>>, events, replace)
<1> HIDE DEF N, f, kept
<1>4. /\ Len(f) \in Nat /\ DOMAIN f = 1 .. Len(f) /\ Len(f) = Cardinality(kept)
      /\ \A n \in DOMAIN f : f[n].id \in kept /\ f[n].row = rows[f[n].id]
      /\ \A n, m \in DOMAIN f : f[n].id = f[m].id => n = m
      /\ \A i \in kept : \E n \in DOMAIN f : f[n].id = i
  BY <1>2, EncodedIs
<1>5. Lines(N, f)
  BY <1>1, <1>2, <1>4 DEF Lines
<1>6. /\ DOMAIN events = 1 .. Len(f)
      /\ \A n \in DOMAIN f :
           /\ events[n].id = f[n].id /\ events[n].row.supersedes = f[n].row.supersedes
           /\ events[n].row.supersededBy = f[n].row.supersededBy
           /\ Sound(N, f[n].id, events[n].row)
  BY <1>3, <1>5, NormalisedSound
<1>7. Len(events) = Len(f)
  <2>1. events = [n \in DOMAIN f |-> [id |-> f[n].id, row |-> Labelled(Identified(f[n]))]]
    BY <1>3 DEF Normalised
  <2> DEFINE line(n) == [id |-> f[n].id, row |-> Labelled(Identified(f[n]))]
  <2>2. events = [n \in 1 .. Len(f) |-> line(n)]
    BY <1>4, <2>1
  <2> HIDE DEF line
  <2> QED
    BY <1>4, <2>2
<1>8. SupersessionFindings(rows) = {}
  BY SupersessionAudited
<1>9. ASSUME NEW n \in DOMAIN events, NEW m \in DOMAIN events, events[n].id \in events[m].row.supersedes
      PROVE  events[n].row.supersededBy = events[m].id
  <2>1. f[m].id \in DOMAIN rows /\ f[n].id \in rows[f[m].id].supersedes
    BY <1>2, <1>4, <1>6, <1>9
  <2>2. rows[f[n].id].supersededBy = f[m].id
    BY <1>8, <2>1, SupersessionAudited
  <2> QED
    BY <1>4, <1>6, <2>2
<1>10. TakesAll(events, copy)
  <2>1. \A n, m \in DOMAIN events : events[n].id = events[m].id => n = m
    BY <1>4, <1>6
  <2>2. \A n \in DOMAIN events : IsMemory(events[n].row)
    BY <1>4, <1>6 DEF Sound, Given
  <2> QED
    BY <1>4, <1>6, <1>9, <2>1, <2>2, EmptyStoreTakesAll
<1> HIDE DEF copy
<1>11. DOMAIN copy = kept
  <2>1. \A n \in DOMAIN events : events[n].id \in kept
    BY <1>4, <1>6
  <2>2. \A i \in kept : \E n \in DOMAIN events : events[n].id = i
    BY <1>4, <1>6
  <2> QED
    BY <1>10, <2>1, <2>2 DEF TakesAll
<1>12. Restored(events, copy)
  BY <1>4, <1>7, <1>10, <1>11 DEF TakesAll, Restored
<1> QED
  BY <1>12 DEF copy

----
(* Chains of replacements *)

\* The ids that following superseded_by can meet.
Met == DOMAIN rows \cup {rows[j].supersededBy : j \in DOMAIN rows}

LEMMA PathExists ==
  ASSUME NEW i \in DOMAIN rows
  PROVE  \E path \in [Nat -> Met] :
           /\ path[0] = i
           /\ \A n \in Nat : path[n + 1] =
                IF path[n] \notin DOMAIN rows \/ rows[path[n]].supersededBy = None THEN path[n]
                ELSE rows[path[n]].supersededBy
           /\ LastOf(i) = path[Cardinality(DOMAIN rows)]
<1> DEFINE path[n \in Nat] ==
             IF n = 0 THEN i
             ELSE LET j == path[n - 1]
                  IN  IF j \notin DOMAIN rows \/ rows[j].supersededBy = None THEN j
                      ELSE rows[j].supersededBy
           next == [j \in Met |-> IF j \notin DOMAIN rows \/ rows[j].supersededBy = None THEN j
                                  ELSE rows[j].supersededBy]
<1>1. PICK f : f \in Iterates(Met, i, next)
  <2>1. next \in [Met -> Met] /\ i \in Met
    BY DEF Met
  <2> HIDE DEF next
  <2>2. Iterates(Met, i, next) # {}
    BY <2>1, Recursion
  <2> QED
    BY <2>2
<1>2. f \in [Nat -> Met] /\ f[0] = i /\ \A n \in Nat : f[n + 1] = next[f[n]]
  <2> HIDE DEF next
  <2> QED
    BY <1>1 DEF Iterates
<1>3. f = [n \in Nat |-> IF n = 0 THEN i
                       ELSE LET j == f[n - 1]
                            IN  IF j \notin DOMAIN rows \/ rows[j].supersededBy = None THEN j
                                ELSE rows[j].supersededBy]
  <2>1. ASSUME NEW n \in Nat, n # 0
        PROVE  f[n] = IF f[n - 1] \notin DOMAIN rows \/ rows[f[n - 1]].supersededBy = None THEN f[n - 1]
                      ELSE rows[f[n - 1]].supersededBy
    <3>1. n - 1 \in Nat /\ (n - 1) + 1 = n
      BY <2>1
    <3>2. f[n - 1] \in Met
      BY <1>2, <3>1
    <3>3. f[n] = next[f[n - 1]]
      <4> HIDE DEF next
      <4> QED
        BY <1>2, <3>1
    <3> QED
      BY <3>2, <3>3
  <2>2. f = [n \in Nat |-> f[n]] /\ f[0] = i
    BY <1>2
  <2>3. \A n \in Nat : f[n] = IF n = 0 THEN i
                            ELSE LET j == f[n - 1]
                                 IN  IF j \notin DOMAIN rows \/ rows[j].supersededBy = None THEN j
                                     ELSE rows[j].supersededBy
    <3> SUFFICES ASSUME NEW n \in Nat
                 PROVE  f[n] = IF n = 0 THEN i
                               ELSE IF f[n - 1] \notin DOMAIN rows \/ rows[f[n - 1]].supersededBy = None THEN f[n - 1]
                               ELSE rows[f[n - 1]].supersededBy
      OBVIOUS
    <3>1. CASE n = 0
      BY <2>2, <3>1, Zenon
    <3>2. CASE n # 0
      BY <2>1, <3>2, Zenon
    <3> QED
      BY <3>1, <3>2
  <2> QED
    BY <2>2, <2>3, Zenon
<1>4. path = [n \in Nat |-> IF n = 0 THEN i
                          ELSE LET j == path[n - 1]
                               IN  IF j \notin DOMAIN rows \/ rows[j].supersededBy = None THEN j
                                   ELSE rows[j].supersededBy]
  BY <1>3
<1>5. LastOf(i) = path[Cardinality(DOMAIN rows)]
  BY Zenon DEF LastOf
<1>6. DOMAIN path = Nat /\ path = [n \in Nat |-> path[n]]
  <2> HIDE DEF path
  <2> QED
    BY <1>4
<1>7. \A n \in Nat : path[n] = IF n = 0 THEN i
                             ELSE LET j == path[n - 1]
                                  IN  IF j \notin DOMAIN rows \/ rows[j].supersededBy = None THEN j
                                      ELSE rows[j].supersededBy
  <2> HIDE DEF path
  <2> QED
    BY <1>4
<1> HIDE DEF path
<1>8. path[0] = i
  BY <1>7
<1>9. ASSUME NEW n \in Nat
      PROVE  path[n + 1] = IF path[n] \notin DOMAIN rows \/ rows[path[n]].supersededBy = None THEN path[n]
                           ELSE rows[path[n]].supersededBy
  <2> DEFINE k == n + 1
  <2>2. k \in Nat /\ k # 0 /\ k - 1 = n
    OBVIOUS
  <2> HIDE DEF k
  <2>3. path[k] = IF path[k - 1] \notin DOMAIN rows \/ rows[path[k - 1]].supersededBy = None THEN path[k - 1]
                  ELSE rows[path[k - 1]].supersededBy
    BY <1>7, <2>2, Zenon
  <2>4. path[k] = IF path[n] \notin DOMAIN rows \/ rows[path[n]].supersededBy = None THEN path[n]
                  ELSE rows[path[n]].supersededBy
    BY <2>2, <2>3, Zenon
  <2> QED
    BY <2>4 DEF k
<1>10. \A n \in Nat : path[n] \in Met
  <2> DEFINE T == {n \in Nat : path[n] \in Met}
  <2>1. 0 \in T
    BY <1>8 DEF Met
  <2>2. \A n \in Nat : n \in T => n + 1 \in T
    BY <1>9 DEF Met
  <2> HIDE DEF T
  <2>3. Nat \subseteq T
    BY <2>1, <2>2, StepByStep
  <2> QED
    BY <2>3 DEF T
<1> QED
  BY <1>5, <1>6, <1>8, <1>9, <1>10

LEMMA LostIsFound ==
  ASSUME IInv, NEW i \in DOMAIN rows, LastOf(i) \notin DOMAIN rows
  PROVE  \E f \in Audit("supersession") : f.other = LastOf(i) /\ f.severity = "high"
<1>1. PICK path \in [Nat -> Met] :
        /\ path[0] = i
        /\ \A n \in Nat : path[n + 1] =
             IF path[n] \notin DOMAIN rows \/ rows[path[n]].supersededBy = None THEN path[n]
             ELSE rows[path[n]].supersededBy
        /\ LastOf(i) = path[Cardinality(DOMAIN rows)]
  BY PathExists
<1>2. Cardinality(DOMAIN rows) \in Nat
  BY FS_CardinalityType DEF IInv, TableInv, Table
<1> DEFINE T == {n \in Nat : path[n] \notin DOMAIN rows =>
                   \E j \in DOMAIN rows : rows[j].supersededBy = path[n] /\ path[n] # None}
<1>3. Nat \subseteq T
  <2>1. 0 \in T
    BY <1>1
  <2>2. \A n \in Nat : n \in T => n + 1 \in T
    BY <1>1
  <2> HIDE DEF T
  <2> QED
    BY <2>1, <2>2, StepByStep
<1>4. PICK j \in DOMAIN rows : rows[j].supersededBy = LastOf(i) /\ LastOf(i) # None
  BY <1>1, <1>2, <1>3
<1>5. Finding("supersession", "high", j, rows[j].supersededBy) \in Audit("supersession")
  BY <1>4, SupersessionAudited
<1> QED
  BY <1>4, <1>5 DEF Finding

(* What the supersession audit does not report is not lost: a clean store  *)
(* is rebuilt from either export, and a memory that recall hides in favour *)
(* of one that is gone is reported, however long the chain                 *)
(* (audit_memories, list_all, import_events).                              *)
THEOREM LossesAreReported == Spec => []LossesReported
<1>1. IInv => LossesReported
  <2> SUFFICES ASSUME IInv PROVE CleanRestores /\ LostIsReported
    BY DEF LossesReported
  <2>1. ASSUME Audit("supersession") = {}, NEW sensitive \in BOOLEAN, NEW superseded \in BOOLEAN
        PROVE  LET events == Normalised(Exported(rows, sensitive, superseded))
               IN  Restored(events, Imported(<<>>, events, FALSE))
    <3> DEFINE events == Normalised(Exported(rows, sensitive, superseded))
    <3>1. \A replace \in BOOLEAN : Restored(events, Imported(<<>>, events, replace))
      BY <2>1, CleanIsRestored
    <3> HIDE DEF events
    <3>2. Restored(events, Imported(<<>>, events, FALSE))
      BY <3>1, Zenon
    <3> QED
      BY <3>2 DEF events
  <2>1a. CleanRestores
    BY <2>1, Zenon DEF CleanRestores, Restored
  <2>2. LostIsReported
    BY LostIsFound DEF LostIsReported
  <2> QED
    BY <2>1a, <2>2
<1>2. Spec => []IInv
  BY DerivedMemoriesStaySound
<1> QED
  BY <1>1, <1>2, PTL
====
