---- MODULE Recall ----
(***************************************************************************)
(* What a recall answers.  table holds the memories of the store, answer   *)
(* the last recall and what it returned.  Of a memory's texts the model    *)
(* keeps two sets of terms: those the full-text index has of it (summary,  *)
(* details, tags, source reference) and those its scored text (summary,    *)
(* details, tags) contains, also within a word.  The order in which SQLite *)
(* ranks what it matches is left open; scores are in hundredths, times the *)
(* number of terms of the query.                                           *)
(***************************************************************************)
EXTENDS Integers, Sequences, FiniteSets, FiniteSetsExt, Functions

CONSTANTS
  Tables,          \* the sets of memories a store can hold
  Asked,           \* pairs of a query, which is a sequence of terms, and options
  CandidateLimit,  \* 256 to 2048 in the code, by options.limit
  Anything         \* an option that filters nothing

\* What terms are to the code.
CONSTANTS FailureTerms, HeartwoodTerms, SeedTerms, Filler

ASSUME LimitAssumption ==
  CandidateLimit \in Nat \ {0} /\ \A ask \in Asked : ask[2].limit \in Nat \ {0}

ASSUME TablesAssumption ==
  (\A t \in Tables : IsFiniteSet(t)) /\ \A ask \in Asked : ask[1] \in Seq(Range(ask[1]))

VARIABLES table, answer
answerVars == <<table, answer>>

----
(* recall.rs: the queries that are tried, and the score *)

LessTerm(q, k) == SubSeq(q, 1, k - 1) \o SubSeq(q, k + 1, Len(q))

\* search_queries: after the query, the query less one of these terms.
Spare(q) == {k \in DOMAIN q : q[k] \in FailureTerms \cup HeartwoodTerms \cup SeedTerms /\ Len(q) > 1}

Recency == [today |-> 100, month |-> 37, year |-> 0]
Authority == [user |-> 100, contract |-> 90, eval |-> 80, file |-> 70, tool |-> 60, summary |-> 50,
              manual |-> 40, other |-> 30]

TextualMatch(m, q) == Cardinality({k \in DOMAIN q : q[k] \in m.text})

RingBoost(m, q) ==
  CASE m.ring = "scar" /\ Range(q) \cap FailureTerms # {} -> 20
    [] m.ring = "heartwood" /\ Range(q) \cap HeartwoodTerms # {} -> 15
    [] m.ring = "seed" /\ Range(q) \cap SeedTerms # {} -> 12
    [] OTHER -> 0

Score(m, q) ==
  2500 * TextualMatch(m, q)
    + Len(q) * (25 * m.salience + 25 * m.confidence + 20 * Recency[m.age]
                + 5 * Authority[m.source] + 100 * RingBoost(m, q))

----
(* search_fts_filtered_limited *)

Passes(m, o) ==
  /\ \A f \in {"project", "agent", "workflow", "session", "scope"} : o[f] \in {Anything, m[f]}
  /\ o.rings = Anything \/ m.ring \in o.rings
  /\ o.kinds = Anything \/ m.kind \in o.kinds
  /\ o.sensitive \/ m.label = "normal"
  /\ o.superseded \/ m.live

\* Filler is no part of the full-text query; without other terms there is none.
Content(q) == Range(q) \ Filler

Strict(q) == {m \in table : Content(q) # {} /\ Content(q) \subseteq m.indexed}
Partial(q) == {m \in table : Content(q) \cap m.indexed # {}}

Passing(S, o) == {m \in S : Passes(m, o)}

\* Mutant of Selections: the filters come after the limit.
SelectionsLate(hits, o) == {Passing(S, o) : S \in kSubset(Min({CandidateLimit, Cardinality(hits)}), hits)}
Selections(hits, o) ==
  LET passing == Passing(hits, o)
  IN  kSubset(Min({CandidateLimit, Cardinality(passing)}), passing)

----
(* recall_with_options_until *)

\* The first query that finds anything decides; then any term will do.
Hits(q, o) ==
  LET Finds(s) == Passing(Strict(s), o) # {}
      shorter == {k \in Spare(q) : Finds(LessTerm(q, k))}
  IN  CASE Finds(q) -> Strict(q)
        [] ~Finds(q) /\ shorter # {} -> Strict(LessTerm(q, Min(shorter)))
        [] OTHER -> Partial(q)

\* Sorted by score and truncated; equal scores in any order.
Best(C, q, n) ==
  {R \in kSubset(Min({n, Cardinality(C)}), C) :
     \A kept \in R, left \in C \ R : Score(kept, q) >= Score(left, q)}

Recall(q, o) ==
  /\ \E C \in Selections(Hits(q, o), o) : \E R \in Best(C, q, o.limit) :
       answer' = [query |-> q, options |-> o, results |-> R]
  /\ UNCHANGED table

AnswerInit == table \in Tables /\ answer = Anything
AnswerNext == \E ask \in Asked : Recall(ask[1], ask[2])

----
(* Properties *)

(* lib.rs, recall_fallback_keeps_default_filters_before_candidate_limit: a *)
(* recall comes back empty only when no memory that its filters let        *)
(* through has a single word of the query, whatever hidden, foreign or     *)
(* sensitive memories match it better.                                     *)
RecallFinds ==
  answer # Anything =>
    (answer.results = {} <=> Passing(Partial(answer.query), answer.options) = {})

(* lib.rs, recall_strict_all_term_match_wins_before_fallback: as long as   *)
(* something has every word of the query, only such memories are answered, *)
(* and, unless there are more than the candidate limit, the best of them.  *)
RecallBest ==
  answer # Anything =>
    LET strict == Passing(Strict(answer.query), answer.options)
    IN  strict # {} =>
          /\ answer.results \subseteq strict
          /\ Cardinality(strict) <= CandidateLimit =>
               /\ Cardinality(answer.results) = Min({answer.options.limit, Cardinality(strict)})
               /\ \A kept \in answer.results, left \in strict \ answer.results :
                    Score(kept, answer.query) >= Score(left, answer.query)

(* A recall is empty only if it has to be, and its answer is the best.     *)
RecallAnswers == RecallFinds /\ RecallBest
====
