---- MODULE SourceSync ----
(***************************************************************************)
(* Memories of source files: the AGENTS.md files and the Revolve records   *)
(* under a project root, summarised into the store that Consolidation      *)
(* models.  A sync collects (Collect: what a dry run shows, and all that a *)
(* dry run does) and applies what it collected in one transaction (Apply); *)
(* the console waits for a person in between, and files, store and other   *)
(* projects do not.                                                        *)
(*                                                                         *)
(* An id is the text that stable_id hashes: path, heading and position of  *)
(* the section for DOX, path and kind of outcome for Revolve, in neither   *)
(* case the project or the root.                                           *)
(***************************************************************************)
EXTENDS Consolidation

\* budget.syncs holds the pairs <<root, dox>> that people sync, budget.edits
\* bounds the edits of their files.
CONSTANTS
  Roots,         \* source roots; each has a project of its own
  Trees,         \* Trees[r] : the contents root r can have
  LocalRoot,     \* the root whose own .tree-ring directory holds the store
  MaxFiles, MaxSections

VARIABLES tree, preview, edits
syncVars == <<store, tree, preview, edits>>

----
(* collect_dox_memories.  A file is [path, bad, sections]; bad is a        *)
(* symlink, a file too large, or one that cannot be read.  A section is    *)
(* [slug, text, durable, found]; text is None for a heading without lines  *)
(* outside code fences.                                                    *)

\* discover_agents_files: sorted, at most max_files, links not followed.
Discovered(files) == SubSeq(files, 1, Min({Len(files), MaxFiles}))

\* extract_sections: empty ones keep their number and take no place.
Sections(f) ==
  LET kept == {n \in DOMAIN f.sections : f.sections[n].text # None}
  IN  {n \in kept : Cardinality({m \in kept : m < n}) < MaxSections}

DoxId(f, n) == <<"dox", f.path, f.sections[n].slug, n>>

\* A memory of an adapter; weight holds its salience and confidence.
Adapted(source, ref, root, kind, ring, weight, found) ==
  [NewMemory EXCEPT !.source = source, !.scope = source, !.ref = ref, !.project = root,
                    !.kind = kind, !.ring = ring, !.salience = weight[1], !.confidence = weight[2],
                    !.label = found, !.found = found]

\* events_from_agents_file
SectionRow(root, f, n) ==
  LET s == f.sections[n]
      section == IF s.durable
                 THEN Adapted("dox", DoxId(f, n), root, "dox_contract", "heartwood", <<84, 88>>, s.found)
                 ELSE Adapted("dox", DoxId(f, n), root, "dox_guidance", "outer", <<62, 72>>, s.found)
  IN  [section EXCEPT !.durable = s.durable]

DoxRow(root, f, n) == [SectionRow(root, f, n) EXCEPT !.root = root]

\* A file with one secret among its candidates is left out as a whole.
HasSecret(f) == \E n \in Sections(f) : f.sections[n].found = "secret"

DoxEvents(root) ==
  UNION {IF f.bad \/ HasSecret(f) THEN {}
         ELSE {[id |-> DoxId(f, n), row |-> DoxRow(root, f, n)] : n \in Sections(f)} :
           f \in Range(Discovered(tree[root].agents))}

----
(* collect_revolve_memories.  A record is [path, bad, words, found].       *)

\* classify_outcome: a rejection anywhere in the text outweighs the rest.
Outcome(words) ==
  CASE "rejected" \in words -> "evaluation_rejection"
    [] "rejected" \notin words /\ "promoted" \in words -> "evaluation_promotion"
    [] words \cap {"rejected", "promoted"} = {} /\ "deferred" \in words -> "evaluation_hypothesis"
    [] words = {"observed"} -> "evaluation_result"
    [] OTHER -> None

OutcomeRing == [evaluation_promotion |-> "heartwood", evaluation_rejection |-> "scar",
                evaluation_hypothesis |-> "seed", evaluation_result |-> "outer"]

OutcomeWeight == [evaluation_promotion |-> <<86, 84>>, evaluation_rejection |-> <<90, 78>>,
                  evaluation_hypothesis |-> <<68, 60>>, evaluation_result |-> <<72, 70>>]

RevolveRow(root, f) ==
  LET kind == Outcome(f.words)
  IN  [Adapted("revolve", f.path, root, kind, OutcomeRing[kind], OutcomeWeight[kind], f.found)
         EXCEPT !.durable = OutcomeRing[kind] \in {"heartwood", "scar"}]

RevolveId(f) == <<"revolve", f.path, Outcome(f.words)>>

RevolveEvents(root) ==
  {[id |-> RevolveId(f), row |-> RevolveRow(root, f)] :
     f \in {g \in Range(Discovered(tree[root].records)) :
              ~g.bad /\ g.found # "secret" /\ Outcome(g.words) # None}}

----
(* Applying a collection. *)

\* validate_dox_source_update, with allow_legacy_sources as apply_dox_preview
\* decides it: only the project whose own store this is adopts old records.
MayWrite(e) ==
  e.id \in DOMAIN rows =>
    LET old == rows[e.id]
    IN  /\ <<old.project, old.scope, old.source, old.ref>>
             = <<e.row.project, e.row.scope, e.row.source, e.row.ref>>
        /\ old.root = e.row.root \/ (old.root = None /\ e.row.root = LocalRoot)

\* put_dox_many and put_many: one event that cannot be written fails the batch.
Writable(events, dox) ==
  \A e \in events : e.id \notin tombs /\ (dox => MayWrite(e))

Collect(root, dox) ==
  /\ preview[root] = None
  /\ preview' = [preview EXCEPT ![root] =
       [dox |-> dox, events |-> IF dox THEN DoxEvents(root) ELSE RevolveEvents(root)]]
  /\ UNCHANGED <<store, tree, edits>>

\* Mutant of Stored: the files are read again.
StoredFresh(root) == IF preview[root].dox THEN DoxEvents(root) ELSE RevolveEvents(root)
\* apply_dox_preview: exactly the candidates the person has seen.
Stored(root) == preview[root].events

Apply(root) ==
  /\ preview[root] # None
  /\ LET events == Stored(root)
     IN  rows' = IF Writable(events, preview[root].dox)
                 THEN Over([i \in {e.id : e \in events} |-> (CHOOSE e \in events : e.id = i).row], rows)
                 ELSE rows
  /\ preview' = [preview EXCEPT ![root] = None]
  /\ UNCHANGED <<tombs, records, budget, tree, edits>>

Discard(root) ==
  /\ preview[root] # None
  /\ preview' = [preview EXCEPT ![root] = None]
  /\ UNCHANGED <<store, tree, edits>>

Edit(root, content) ==
  /\ edits < budget.edits
  /\ tree' = [tree EXCEPT ![root] = content]
  /\ edits' = edits + 1
  /\ UNCHANGED <<store, preview>>

SyncInit ==
  /\ ConsolidationInit
  /\ tree \in [Roots -> UNION {Trees[r] : r \in Roots}] /\ \A r \in Roots : tree[r] \in Trees[r]
  /\ preview = [r \in Roots |-> None]
  /\ edits = 0

SyncNext ==
  \/ ConsolidationNext /\ UNCHANGED <<tree, preview, edits>>
  \/ \E r \in Roots : \/ \E dox \in {d \in BOOLEAN : <<r, d>> \in budget.syncs} : Collect(r, dox)
                      \/ Apply(r)
                      \/ Discard(r)
                      \/ \E content \in Trees[r] : Edit(r, content)

----
(* Properties *)

\* Everything root r's files can have said.
Sayings(r) ==
  UNION {{DoxRow(r, f, n) : n \in Sections(f)} :
      f \in {g \in UNION {Range(Discovered(t.agents)) : t \in Trees[r]} :
               ~g.bad /\ ~HasSecret(g)}}

\* A row with a fingerprint says what the files of its root said.
HonestRow(r) ==
  r.source = "dox" /\ r.root # None => [r EXCEPT !.supersededBy = None] \in Sayings(r.root)

(* The files that are read of one root have different paths; what the      *)
(* store starts with or clients put has a fingerprint only if a sync of    *)
(* its root wrote it.                                                      *)
ASSUME SourcesAssumption ==
  /\ \A r \in Roots : \A t \in Trees[r] : \A files \in {t.agents, t.records} :
       /\ IsFiniteSet(Range(Discovered(files)))
       /\ \A f, g \in Range(Discovered(files)) : f.path = g.path => f = g
  /\ \A r \in Roots : \A t \in Trees[r] : \A f \in Range(Discovered(t.agents)) :
       IsFiniteSet(DOMAIN f.sections) /\ \A n \in DOMAIN f.sections : DoxId(f, n) # None
  /\ \A r \in Roots : \A t \in Trees[r] : \A f \in Range(Discovered(t.records)) :
       RevolveId(f) # None
  /\ \A b \in Before : \A i \in DOMAIN b : HonestRow(b[i])
  /\ \A e \in Submissions : HonestRow(e.row)

(* README, console section: a shared store never mixes the records of two  *)
(* projects.  Whatever syncs, previews and edits of several roots meet, a  *)
(* DOX memory with a fingerprint says what that root's files said, under   *)
(* that root's project.                                                    *)
SourceHonest == \A i \in DOMAIN rows : HonestRow(rows[i])

(* README: "Confirmation saves that preview" and "sync rejects the whole   *)
(* batch": a sync that changes the store leaves it with every memory the   *)
(* person saw, as it was shown, though files and store changed meanwhile.  *)
SyncIsThePreview ==
  [][\A r \in Roots :
       preview[r] # None /\ preview'[r] = None /\ rows' # rows =>
         \A e \in preview[r].events : e.id \in DOMAIN rows' /\ rows'[e.id] = e.row]_syncVars

(* A sync writes what a person confirmed, and only what the files of its   *)
(* own root said.                                                          *)
SyncsHonest == []SourceHonest /\ SyncIsThePreview
====
