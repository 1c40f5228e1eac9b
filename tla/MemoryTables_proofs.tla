---- MODULE MemoryTables_proofs ----
(***************************************************************************)
(* What each statement on the tables does to them, whatever tables it is   *)
(* applied to: the committed ones or those of an open transaction.         *)
(***************************************************************************)
EXTENDS MemoryTables, TLAPS

\* What every content of the tables satisfies, committed or not.
TablesInv(d) ==
  /\ TombstonesSealedIn(d)
  /\ OperationOwnedOnceIn(d)
  /\ SearchMatchesRowsIn(d)

----
(* A present row is a row, and a sanitized one holds no namespace. *)
LEMMA PresentRow ==
  ASSUME NEW d \in Tables, NEW i \in Present(d)
  PROVE  i \in Ids /\ d.rows[i] \in Row
BY DEF Tables, Present

(* Claims are preserved for rows that hold their namespace, so they name    *)
(* memories of S or what they named before.                                 *)
LEMMA PreserveClaimsValue ==
  ASSUME NEW d \in Tables, NEW S \in SUBSET Ids, NEW o \in Ops \cup {NoOp}, NEW p \in Ops
  PROVE  \/ /\ p # o
            /\ d.claims[p] = NoId
            /\ PreserveClaims(d, S, o)[p] \in Holders(d, p) \cap S
         \/ /\ p = o \/ d.claims[p] # NoId \/ Holders(d, p) \cap S = {}
            /\ PreserveClaims(d, S, o)[p] = d.claims[p]
<1>1. PreserveClaims(d, S, o)[p] =
        IF p # o /\ d.claims[p] = NoId /\ Holders(d, p) \cap S # {}
        THEN CHOOSE i \in Holders(d, p) \cap S : TRUE ELSE d.claims[p]
  BY DEF PreserveClaims
<1>2. Holders(d, p) \cap S # {} => (CHOOSE i \in Holders(d, p) \cap S : TRUE) \in Holders(d, p) \cap S
  OBVIOUS
<1> QED BY <1>1, <1>2

(* Preserving claims keeps the claims table well typed.                     *)
LEMMA PreserveClaimsType ==
  ASSUME NEW d \in Tables, NEW S \in SUBSET Ids, NEW o \in Ops \cup {NoOp}
  PROVE  PreserveClaims(d, S, o) \in [Ops -> Ids \cup {NoId}]
<1>1. ASSUME NEW p \in Ops PROVE PreserveClaims(d, S, o)[p] \in Ids \cup {NoId}
  <2>1. d.claims[p] \in Ids \cup {NoId}
    BY DEF Tables
  <2> QED BY <2>1, PreserveClaimsValue
<1> QED BY <1>1 DEF PreserveClaims

----
(* put_in_transaction *)

(* put_in_transaction changes its own row, index entry and claims, keeps    *)
(* the tombstones, and leaves well-typed tables.                            *)
LEMMA PutFields ==
  ASSUME NEW d \in Tables, NEW i \in Ids, NEW r \in Row
  PROVE  /\ Put(d, i, r) \in Tables
         /\ Put(d, i, r).rows = [d.rows EXCEPT ![i] = r]
         /\ Put(d, i, r).fts = [d.fts EXCEPT ![i] = <<r.text>>]
         /\ Put(d, i, r).claims = PreserveClaims(d, {i}, r.op)
         /\ Put(d, i, r).tombs = d.tombs
<1>1. r.op \in Ops \cup {NoOp} /\ <<r.text>> \in Seq(Texts \cup {Redacted})
  BY DEF Row
<1>2. PreserveClaims(d, {i}, r.op) \in [Ops -> Ids \cup {NoId}]
  BY <1>1, PreserveClaimsType
<1> QED BY <1>1, <1>2 DEF Put, Tables

(* Which rows are there after a write, and which of them hold a namespace.  *)
LEMMA PutRows ==
  ASSUME NEW d \in Tables, NEW i \in Ids, NEW r \in Row
  PROVE  /\ Present(Put(d, i, r)) = Present(d) \cup {i}
         /\ \A o \in Ops : Holders(Put(d, i, r), o)
              = IF r.op = o THEN Holders(d, o) \cup {i} ELSE Holders(d, o) \ {i}
<1> DEFINE e == Put(d, i, r)
<1>1. /\ e \in Tables
      /\ e.rows = [d.rows EXCEPT ![i] = r]
      /\ e.fts = [d.fts EXCEPT ![i] = <<r.text>>]
      /\ e.claims = PreserveClaims(d, {i}, r.op)
      /\ e.tombs = d.tombs
  BY PutFields
<1> HIDE DEF e
<1>2. Present(e) = Present(d) \cup {i}
  BY <1>1, NullsAssumption DEF Present, Tables
<1>3. \A o \in Ops : Holders(e, o) = IF r.op = o THEN Holders(d, o) \cup {i} ELSE Holders(d, o) \ {i}
  BY <1>1, <1>2 DEF Holders, Tables, Present
<1> QED BY <1>2, <1>3 DEF e

(* The tables accept a write (CanPut) only when it keeps their invariant.   *)
LEMMA PutKeepsTables ==
  ASSUME NEW d \in Tables, TablesInv(d), NEW i \in Ids, NEW r \in Row, CanPut(d, i, r)
  PROVE  TablesInv(Put(d, i, r))
<1> DEFINE e == Put(d, i, r)
<1>1. /\ e \in Tables
      /\ e.rows = [d.rows EXCEPT ![i] = r]
      /\ e.fts = [d.fts EXCEPT ![i] = <<r.text>>]
      /\ e.claims = PreserveClaims(d, {i}, r.op)
      /\ e.tombs = d.tombs
  BY PutFields
<1>2. Present(e) = Present(d) \cup {i}
  BY PutRows
<1>3. \A o \in Ops : Holders(e, o) = IF r.op = o THEN Holders(d, o) \cup {i} ELSE Holders(d, o) \ {i}
  BY PutRows
<1> HIDE DEF e
<1>4. TombstonesSealedIn(e)
  BY <1>1, <1>2 DEF TombstonesSealedIn, TablesInv, CanPut, Tables
<1>5. OperationOwnedOnceIn(e)
  <2> SUFFICES ASSUME NEW o \in Ops
               PROVE  /\ \A j, k \in Holders(e, o) : j = k
                      /\ e.claims[o] # NoId => e.claims[o] \in Present(e) /\ Holders(e, o) = {}
    BY DEF OperationOwnedOnceIn
  <2>1. /\ \A j, k \in Holders(d, o) : j = k
        /\ d.claims[o] # NoId => d.claims[o] \in Present(d) /\ Holders(d, o) = {}
    BY DEF TablesInv, OperationOwnedOnceIn
  <2>2. \/ /\ o # r.op
           /\ d.claims[o] = NoId
           /\ e.claims[o] \in Holders(d, o) \cap {i}
        \/ /\ o = r.op \/ d.claims[o] # NoId \/ Holders(d, o) \cap {i} = {}
           /\ e.claims[o] = d.claims[o]
    BY <1>1, PreserveClaimsValue DEF Row
  <2>3. CASE r.op = o
    <3>1. r.op # NoOp
      BY <2>3, NullsAssumption
    <3>2. d.claims[o] = NoId /\ Holders(d, o) \subseteq {i}
      BY <2>3, <3>1 DEF CanPut
    <3> QED BY <1>3, <2>2, <2>3, <3>2
  <2>4. CASE r.op # o
    BY <1>2, <1>3, <2>1, <2>2, <2>4 DEF Holders
  <2> QED BY <2>3, <2>4
<1>6. SearchMatchesRowsIn(e)
  BY <1>1, NullsAssumption DEF SearchMatchesRowsIn, TablesInv, Tables
<1> QED BY <1>4, <1>5, <1>6 DEF TablesInv, e

----
(* supersede_in_transaction and an import's supersedes lists *)

(* Marking rows as superseded disturbs no namespace, tombstone or index     *)
(* entry: superseded_by is in none of them.                                 *)
LEMMA SupersedeKeepsTables ==
  ASSUME NEW d \in Tables, NEW S \in SUBSET Ids, NEW new \in Ids
  PROVE  /\ SupersedeAll(d, S, new) \in Tables
         /\ Present(SupersedeAll(d, S, new)) = Present(d)
         /\ \A o \in Ops : Holders(SupersedeAll(d, S, new), o) = Holders(d, o)
         /\ \A i \in Ids : SupersedeAll(d, S, new).rows[i]
              = IF i \in S \cap Present(d) THEN [d.rows[i] EXCEPT !.supersededBy = new] ELSE d.rows[i]
         /\ TablesInv(d) => TablesInv(SupersedeAll(d, S, new))
<1> DEFINE e == SupersedeAll(d, S, new)
<1>1. ASSUME NEW i \in Ids
      PROVE  Supersede(d, i, new).rows[i]
               = IF i \in Present(d) THEN [d.rows[i] EXCEPT !.supersededBy = new] ELSE d.rows[i]
  BY DEF Supersede, Tables
<1>2. ASSUME NEW i \in Ids
      PROVE  e.rows[i] = IF i \in S \cap Present(d)
                         THEN [d.rows[i] EXCEPT !.supersededBy = new] ELSE d.rows[i]
  BY <1>1 DEF SupersedeAll, Tables
<1>3. /\ e.fts = d.fts
      /\ e.claims = d.claims
      /\ e.tombs = d.tombs
  BY DEF SupersedeAll, Tables
<1>4. ASSUME NEW i \in S \cap Present(d)
      PROVE  [d.rows[i] EXCEPT !.supersededBy = new] \in Row
  BY PresentRow DEF Row
<1>5. e \in Tables
  <2>1. \A i \in Ids : e.rows[i] \in Row \cup {Missing}
    BY <1>2, <1>4 DEF Tables
  <2> QED BY <2>1 DEF SupersedeAll, Tables
<1> HIDE DEF e
<1>6. Present(e) = Present(d)
  BY ZenonT(40), <1>2, <1>4, NullsAssumption DEF Present
<1>7. ASSUME NEW i \in Present(d)
      PROVE  /\ e.rows[i].text = d.rows[i].text
             /\ e.rows[i].op = d.rows[i].op
             /\ IsSanitizedRedaction(e.rows[i]) = IsSanitizedRedaction(d.rows[i])
  <2>1. d.rows[i] \in Row
    BY PresentRow
  <2>2. e.rows[i] = d.rows[i] \/ e.rows[i] = [d.rows[i] EXCEPT !.supersededBy = new]
    BY <1>2 DEF Present
  <2>3. /\ [d.rows[i] EXCEPT !.supersededBy = new].text = d.rows[i].text
        /\ [d.rows[i] EXCEPT !.supersededBy = new].op = d.rows[i].op
        /\ [d.rows[i] EXCEPT !.supersededBy = new].owner = d.rows[i].owner
        /\ [d.rows[i] EXCEPT !.supersededBy = new].kind = d.rows[i].kind
        /\ [d.rows[i] EXCEPT !.supersededBy = new].supersedes = d.rows[i].supersedes
        /\ [d.rows[i] EXCEPT !.supersededBy = new].secret = d.rows[i].secret
    BY <2>1 DEF Row
  <2> QED BY <2>2, <2>3 DEF IsSanitizedRedaction
<1>8. \A o \in Ops : Holders(e, o) = Holders(d, o)
  BY <1>6, <1>7 DEF Holders
<1>9. ASSUME TablesInv(d) PROVE TablesInv(e)
  <2>1. TombstonesSealedIn(e)
    BY <1>3, <1>6, <1>7, <1>9 DEF TablesInv, TombstonesSealedIn
  <2>2. OperationOwnedOnceIn(e)
    BY <1>3, <1>6, <1>8, <1>9 DEF TablesInv, OperationOwnedOnceIn
  <2>3. SearchMatchesRowsIn(e)
    <3> SUFFICES ASSUME NEW i \in Ids
                 PROVE  e.fts[i] = IF e.rows[i] = Missing THEN <<>> ELSE <<e.rows[i].text>>
      BY DEF SearchMatchesRowsIn
    <3>1. d.fts[i] = IF d.rows[i] = Missing THEN <<>> ELSE <<d.rows[i].text>>
      BY <1>9 DEF TablesInv, SearchMatchesRowsIn
    <3>2. i \in Present(d) <=> e.rows[i] # Missing
      BY <1>6 DEF Present
    <3>3. i \in Present(d) <=> d.rows[i] # Missing
      BY DEF Present
    <3> QED BY <1>3, <1>7, <3>1, <3>2, <3>3
  <2> QED BY <2>1, <2>2, <2>3 DEF TablesInv
<1> QED BY <1>2, <1>5, <1>6, <1>8, <1>9 DEF e

(* supersede_in_transaction is the list of one id.                          *)
LEMMA SupersedeOne ==
  ASSUME NEW d \in Tables, NEW old \in Ids, NEW new \in Ids
  PROVE  Supersede(d, old, new) = SupersedeAll(d, {old}, new)
<1> DEFINE f == [i \in Ids |-> IF i \in {old} THEN Supersede(d, i, new).rows[i] ELSE d.rows[i]]
<1>1. CASE old \in Present(d)
  <2>1. Supersede(d, old, new) = [d EXCEPT !.rows = [@ EXCEPT ![old].supersededBy = new]]
    BY <1>1 DEF Supersede, Tables
  <2>2. f = [d.rows EXCEPT ![old].supersededBy = new]
    BY <1>1 DEF Supersede, Tables
  <2> QED BY <2>1, <2>2 DEF SupersedeAll, Tables
<1>2. CASE old \notin Present(d)
  <2>1. f = d.rows
    BY <1>2 DEF Supersede, Tables
  <2>2. Supersede(d, old, new) = d
    BY <1>2 DEF Supersede
  <2> QED BY <2>1, <2>2 DEF SupersedeAll, Tables
<1> QED BY <1>1, <1>2

----
(* redact_in_transaction *)

(* Redaction seals the rows it tombstones, turns the namespaces they held   *)
(* into claims, and indexes the marker alone.                               *)
LEMMA RedactKeepsTables ==
  ASSUME NEW d \in Tables, NEW S \in SUBSET Ids
  PROVE  /\ Redact(d, S) \in Tables
         /\ Present(Redact(d, S)) = Present(d)
         /\ \A o \in Ops : Holders(Redact(d, S), o) = Holders(d, o) \ S
         /\ TablesInv(d) => TablesInv(Redact(d, S))
<1> DEFINE hit == S \cap Present(d)
           e == Redact(d, S)
<1>1. hit \in SUBSET Ids
  BY DEF Present
<1>2. /\ e.rows = [i \in Ids |-> IF i \in hit THEN Scrub(d.rows[i]) ELSE d.rows[i]]
      /\ e.fts = [i \in Ids |-> IF i \in hit THEN <<Redacted>> ELSE d.fts[i]]
      /\ e.claims = PreserveClaims(d, hit, NoOp)
      /\ e.tombs = d.tombs \cup hit
  BY DEF Redact
<1>3. ASSUME NEW i \in hit
      PROVE  Scrub(d.rows[i]) \in Row /\ IsSanitizedRedaction(Scrub(d.rows[i]))
  BY ZenonT(40), PresentRow DEF Row, Scrub, IsSanitizedRedaction, Kinds
<1>4. e = [rows |-> e.rows, fts |-> e.fts, claims |-> e.claims, tombs |-> e.tombs]
  BY DEF Redact
<1>5. hit \subseteq Present(d)
  OBVIOUS
<1> HIDE DEF e, hit
<1>6. e \in Tables
  <2>1. e.rows \in [Ids -> Row \cup {Missing}]
    <3>1. d.rows \in [Ids -> Row \cup {Missing}]
      BY DEF Tables
    <3> QED BY <1>2, <1>3, <3>1
  <2>2. e.fts \in [Ids -> Seq(Texts \cup {Redacted})]
    <3>1. d.fts \in [Ids -> Seq(Texts \cup {Redacted})]
      BY DEF Tables
    <3>2. <<Redacted>> \in Seq(Texts \cup {Redacted})
      OBVIOUS
    <3> QED BY <1>2, <3>1, <3>2
  <2>3. e.claims \in [Ops -> Ids \cup {NoId}]
    BY SMTT(30), <1>1, <1>2, PreserveClaimsType
  <2>4. e.tombs \subseteq Ids
    BY <1>1, <1>2 DEF Tables
  <2> QED BY <1>4, <2>1, <2>2, <2>3, <2>4 DEF Tables
<1>7. Present(e) = Present(d)
  <2>1. ASSUME NEW i \in Ids PROVE e.rows[i] # Missing <=> d.rows[i] # Missing
    <3>1. CASE i \in hit
      BY <1>2, <1>3, <1>5, <3>1, NullsAssumption DEF Present
    <3>2. CASE i \notin hit
      BY <1>2, <3>2
    <3> QED BY <3>1, <3>2
  <2> QED BY <2>1 DEF Present
<1>8. \A o \in Ops : Holders(e, o) = Holders(d, o) \ hit
  <2> TAKE o \in Ops
  <2>1. ASSUME NEW i \in hit PROVE e.rows[i].op # o
    <3>1. e.rows[i] = Scrub(d.rows[i])
      BY <1>1, <1>2
    <3> QED BY <1>3, <3>1, NullsAssumption DEF IsSanitizedRedaction
  <2>2. \A i \in Present(d) \ hit : e.rows[i] = d.rows[i]
    BY <1>2 DEF Present
  <2> QED BY <1>7, <2>1, <2>2 DEF Holders
<1>9. ASSUME TablesInv(d) PROVE TablesInv(e)
  <2>1. TombstonesSealedIn(e)
    <3> SUFFICES ASSUME NEW i \in e.tombs
                 PROVE  i \in Present(e) /\ IsSanitizedRedaction(e.rows[i])
      BY DEF TombstonesSealedIn
    <3>1. CASE i \in hit
      BY <1>1, <1>2, <1>3, <1>5, <1>7, <3>1
    <3>2. CASE i \notin hit
      <4>1. i \in Present(d) /\ IsSanitizedRedaction(d.rows[i])
        BY <1>2, <1>9, <3>2 DEF TablesInv, TombstonesSealedIn
      <4> QED BY <1>2, <1>7, <3>2, <4>1 DEF Present
    <3> QED BY <3>1, <3>2
  <2>2. OperationOwnedOnceIn(e)
    <3> SUFFICES ASSUME NEW o \in Ops
                 PROVE  /\ \A j, k \in Holders(e, o) : j = k
                        /\ e.claims[o] # NoId => e.claims[o] \in Present(e) /\ Holders(e, o) = {}
      BY DEF OperationOwnedOnceIn
    <3>1. /\ \A j, k \in Holders(d, o) : j = k
          /\ d.claims[o] # NoId => d.claims[o] \in Present(d) /\ Holders(d, o) = {}
      BY <1>9 DEF TablesInv, OperationOwnedOnceIn
    <3>2. \/ e.claims[o] \in Holders(d, o) \cap hit
          \/ e.claims[o] = d.claims[o]
      BY <1>1, <1>2, PreserveClaimsValue
    <3> QED BY <1>5, <1>7, <1>8, <3>1, <3>2
  <2>3. SearchMatchesRowsIn(e)
    <3> SUFFICES ASSUME NEW i \in Ids
                 PROVE  e.fts[i] = IF e.rows[i] = Missing THEN <<>> ELSE <<e.rows[i].text>>
      BY DEF SearchMatchesRowsIn
    <3>1. CASE i \in hit
      BY <1>2, <1>3, <3>1, NullsAssumption DEF IsSanitizedRedaction
    <3>2. CASE i \notin hit
      BY <1>2, <1>9, <3>2 DEF TablesInv, SearchMatchesRowsIn
    <3> QED BY <3>1, <3>2
  <2> QED BY <2>1, <2>2, <2>3 DEF TablesInv
<1>10. \A o \in Ops : Holders(d, o) \ hit = Holders(d, o) \ S
  BY DEF hit, Holders
<1> QED BY <1>6, <1>7, <1>8, <1>9, <1>10 DEF e

----
(* delete_in_transaction, rebuild_fts_in_transaction *)

(* Deletion takes a memory out of all four tables: no claim, tombstone or   *)
(* index entry is left of it.                                               *)
LEMMA DeleteKeepsTables ==
  ASSUME NEW d \in Tables, NEW S \in SUBSET Ids
  PROVE  /\ Delete(d, S) \in Tables
         /\ Present(Delete(d, S)) = Present(d) \ S
         /\ \A o \in Ops : Holders(Delete(d, S), o) = Holders(d, o) \ S
         /\ TablesInv(d) => TablesInv(Delete(d, S))
<1> DEFINE e == Delete(d, S)
<1>1. /\ e.rows = [i \in Ids |-> IF i \in S THEN Missing ELSE d.rows[i]]
      /\ e.fts = [i \in Ids |-> IF i \in S THEN <<>> ELSE d.fts[i]]
      /\ e.claims = [o \in Ops |-> IF d.claims[o] \in S THEN NoId ELSE d.claims[o]]
      /\ e.tombs = d.tombs \ S
  BY DEF Delete
<1>2. e \in Tables
  BY DEF Delete, Tables
<1> HIDE DEF e
<1>3. Present(e) = Present(d) \ S
  BY <1>1 DEF Present
<1>4. \A o \in Ops : Holders(e, o) = Holders(d, o) \ S
  BY <1>1, <1>3 DEF Holders, Present
<1>5. ASSUME TablesInv(d) PROVE TablesInv(e)
  <2>1. TombstonesSealedIn(e)
    BY <1>1, <1>3, <1>5 DEF TablesInv, TombstonesSealedIn, Present
  <2>2. OperationOwnedOnceIn(e)
    BY <1>1, <1>3, <1>4, <1>5 DEF TablesInv, OperationOwnedOnceIn
  <2>3. SearchMatchesRowsIn(e)
    BY <1>1, <1>5 DEF TablesInv, SearchMatchesRowsIn
  <2> QED BY <2>1, <2>2, <2>3 DEF TablesInv
<1> QED BY <1>2, <1>3, <1>4, <1>5 DEF e

(* Rebuilding the index from the rows keeps the tables' invariant.          *)
LEMMA RebuildKeepsTables ==
  ASSUME NEW d \in Tables
  PROVE  /\ RebuildFts(d) \in Tables
         /\ Present(RebuildFts(d)) = Present(d)
         /\ \A o \in Ops : Holders(RebuildFts(d), o) = Holders(d, o)
         /\ TablesInv(d) => TablesInv(RebuildFts(d))
<1> DEFINE e == RebuildFts(d)
<1>1. /\ e.rows = d.rows
      /\ e.claims = d.claims
      /\ e.tombs = d.tombs
      /\ e.fts = [i \in Ids |-> IF d.rows[i] = Missing THEN <<>> ELSE <<d.rows[i].text>>]
  BY DEF RebuildFts, Tables
<1>2. \A i \in Ids : d.rows[i] # Missing => d.rows[i].text \in Texts \cup {Redacted}
  BY DEF Tables, Row
<1>3. e.fts \in [Ids -> Seq(Texts \cup {Redacted})]
  <2>1. ASSUME NEW i \in Ids PROVE e.fts[i] \in Seq(Texts \cup {Redacted})
    <3>1. CASE d.rows[i] = Missing
      BY <1>1, <3>1
    <3>2. CASE d.rows[i] # Missing
      BY <1>1, <1>2, <3>2
    <3> QED BY <3>1, <3>2
  <2> QED BY <1>1, <2>1
<1>4. e \in Tables
  BY <1>1, <1>3 DEF RebuildFts, Tables
<1> HIDE DEF e
<1>5. Present(e) = Present(d) /\ \A o \in Ops : Holders(e, o) = Holders(d, o)
  BY <1>1 DEF Present, Holders
<1>6. TablesInv(d) => TablesInv(e)
  BY <1>1, <1>5 DEF TablesInv, TombstonesSealedIn, OperationOwnedOnceIn, SearchMatchesRowsIn
<1> QED BY <1>4, <1>5, <1>6 DEF e

----
(***************************************************************************)
(* Which memory a namespace is bound to, and which statements release it.  *)
(***************************************************************************)
BoundTo(d, o, i) == i \in Holders(d, o) \/ d.claims[o] = i

(* The lookup of a replay answers with the memory the namespace is bound    *)
(* to: there is at most one.                                                *)
LEMMA ResolveBound ==
  ASSUME NEW d \in Tables, OperationOwnedOnceIn(d), NEW o \in Ops
  PROVE  /\ Resolve(d, o) \in Ids \cup {NoId}
         /\ \A i \in Ids : Resolve(d, o) = i <=> BoundTo(d, o, i)
         /\ Resolve(d, o) # NoId => Resolve(d, o) \in Present(d)
<1>1. /\ \A i, j \in Holders(d, o) : i = j
      /\ d.claims[o] # NoId => d.claims[o] \in Present(d) /\ Holders(d, o) = {}
      /\ Holders(d, o) \subseteq Present(d) /\ Present(d) \subseteq Ids
      /\ d.claims[o] \in Ids \cup {NoId}
  BY DEF OperationOwnedOnceIn, Holders, Present, Tables
<1>2. CASE Holders(d, o) # {}
  <2>1. Resolve(d, o) \in Holders(d, o)
    BY <1>2 DEF Resolve
  <2> QED BY <1>1, <1>2, <2>1, NullsAssumption DEF BoundTo
<1>3. CASE Holders(d, o) = {}
  <2>1. Resolve(d, o) = IF d.claims[o] \in Present(d) THEN d.claims[o] ELSE NoId
    BY <1>3 DEF Resolve
  <2> QED BY <1>1, <1>3, <2>1, NullsAssumption DEF BoundTo
<1> QED BY <1>2, <1>3

(* A write binds its own namespace and releases none: one that its row held *)
(* before becomes its claim.                                                *)
LEMMA PutBinds ==
  ASSUME NEW d \in Tables, TablesInv(d), NEW i \in Ids, NEW r \in Row, CanPut(d, i, r),
         NEW o \in Ops, NEW j \in Ids
  PROVE  BoundTo(Put(d, i, r), o, j) <=> BoundTo(d, o, j) \/ (j = i /\ r.op = o)
<1> DEFINE e == Put(d, i, r)
<1>1. e.claims = PreserveClaims(d, {i}, r.op)
  BY ZenonT(40), PutFields
<1>2. Holders(e, o) = IF r.op = o THEN Holders(d, o) \cup {i} ELSE Holders(d, o) \ {i}
  BY PutRows
<1>3. \/ /\ o # r.op
         /\ d.claims[o] = NoId
         /\ e.claims[o] \in Holders(d, o) \cap {i}
      \/ /\ o = r.op \/ d.claims[o] # NoId \/ Holders(d, o) \cap {i} = {}
         /\ e.claims[o] = d.claims[o]
  <2> DEFINE S == {i}
             op == r.op
  <2>1. op \in Ops \cup {NoOp} /\ S \in SUBSET Ids /\ e.claims = PreserveClaims(d, S, op)
    BY <1>1 DEF Row
  <2> HIDE DEF e, S, op
  <2>2. \/ /\ o # op
           /\ d.claims[o] = NoId
           /\ e.claims[o] \in Holders(d, o) \cap S
        \/ /\ o = op \/ d.claims[o] # NoId \/ Holders(d, o) \cap S = {}
           /\ e.claims[o] = d.claims[o]
    BY <2>1, PreserveClaimsValue
  <2> QED BY <2>2 DEF S, op
<1>4. d.claims[o] # NoId => Holders(d, o) = {}
  BY DEF TablesInv, OperationOwnedOnceIn
<1>5. r.op = o => d.claims[o] = NoId /\ Holders(d, o) \subseteq {i}
  BY NullsAssumption DEF CanPut
<1>6. j # NoId
  BY NullsAssumption
<1> HIDE DEF e
<1>7. BoundTo(e, o, j) <=> BoundTo(d, o, j) \/ (j = i /\ r.op = o)
  BY <1>2, <1>3, <1>4, <1>5, <1>6 DEF BoundTo
<1> QED BY <1>7 DEF e

(* Redaction turns a held namespace into a claim of the same memory.        *)
LEMMA RedactBinds ==
  ASSUME NEW d \in Tables, TablesInv(d), NEW S \in SUBSET Ids, NEW o \in Ops, NEW j \in Ids
  PROVE  BoundTo(Redact(d, S), o, j) <=> BoundTo(d, o, j)
<1> DEFINE hit == S \cap Present(d)
           e == Redact(d, S)
<1>1. hit \in SUBSET Ids /\ Holders(d, o) \cap S = Holders(d, o) \cap hit
  BY DEF Present, Holders
<1>2. e.claims = PreserveClaims(d, hit, NoOp)
  BY DEF Redact
<1>3. Holders(e, o) = Holders(d, o) \ S
  BY RedactKeepsTables
<1>4. \/ /\ d.claims[o] = NoId
         /\ e.claims[o] \in Holders(d, o) \cap hit
      \/ /\ d.claims[o] # NoId \/ Holders(d, o) \cap hit = {}
         /\ e.claims[o] = d.claims[o]
  <2> HIDE DEF hit, e
  <2> QED BY <1>1, <1>2, PreserveClaimsValue, NullsAssumption
<1>5. /\ \A x, y \in Holders(d, o) : x = y
      /\ d.claims[o] # NoId => Holders(d, o) = {}
  BY DEF TablesInv, OperationOwnedOnceIn
<1>6. j # NoId
  BY NullsAssumption
<1> HIDE DEF hit, e
<1>7. BoundTo(e, o, j) <=> BoundTo(d, o, j)
  BY <1>1, <1>3, <1>4, <1>5, <1>6 DEF BoundTo
<1> QED BY <1>7 DEF e

(* Deletion, and nothing else, releases a namespace.                        *)
LEMMA DeleteBinds ==
  ASSUME NEW d \in Tables, NEW S \in SUBSET Ids, NEW o \in Ops, NEW j \in Ids
  PROVE  BoundTo(Delete(d, S), o, j) <=> BoundTo(d, o, j) /\ j \notin S
<1>1. Holders(Delete(d, S), o) = Holders(d, o) \ S
  BY DeleteKeepsTables
<1>2. Delete(d, S).claims[o] = IF d.claims[o] \in S THEN NoId ELSE d.claims[o]
  BY DEF Delete
<1> QED BY <1>1, <1>2, NullsAssumption DEF BoundTo

(* Supersession and the repair of the index leave every binding.            *)
LEMMA OthersBind ==
  ASSUME NEW d \in Tables, NEW S \in SUBSET Ids, NEW new \in Ids, NEW o \in Ops, NEW j \in Ids
  PROVE  /\ BoundTo(SupersedeAll(d, S, new), o, j) <=> BoundTo(d, o, j)
         /\ BoundTo(RebuildFts(d), o, j) <=> BoundTo(d, o, j)
<1>1. SupersedeAll(d, S, new).claims = d.claims /\ RebuildFts(d).claims = d.claims
  BY DEF SupersedeAll, RebuildFts, Tables
<1> QED BY <1>1, SupersedeKeepsTables, RebuildKeepsTables DEF BoundTo

\* Tables e are tables d after writes alone: no id, tombstone or binding of d is
\* lost, and a namespace bound anew is bound to a memory that is not redacted.
Grown(d, e) ==
  /\ e.tombs = d.tombs
  /\ Present(d) \subseteq Present(e)
  /\ \A o \in Ops, i \in Ids : BoundTo(d, o, i) => BoundTo(e, o, i)
  /\ \A o \in Ops, i \in Ids : BoundTo(e, o, i) /\ ~BoundTo(d, o, i) => i \notin e.tombs

(* Tables that nothing is written to have grown, by nothing.                *)
LEMMA GrownItself == ASSUME NEW d \in Tables PROVE Grown(d, d)
BY DEF Grown

(* A write that the tables accept keeps them grown: a tombstoned id only    *)
(* takes a row without a namespace.                                         *)
LEMMA PutGrows ==
  ASSUME NEW d \in Tables, NEW e \in Tables, TablesInv(e), Grown(d, e),
         NEW i \in Ids, NEW r \in Row, CanPut(e, i, r)
  PROVE  Grown(d, Put(e, i, r))
<1> DEFINE f == Put(e, i, r)
<1>1. /\ f \in Tables
      /\ f.rows = [e.rows EXCEPT ![i] = r]
      /\ f.fts = [e.fts EXCEPT ![i] = <<r.text>>]
      /\ f.claims = PreserveClaims(e, {i}, r.op)
      /\ f.tombs = e.tombs
  BY ZenonT(40), PutFields
<1>2. Present(f) = Present(e) \cup {i}
  BY PutRows
<1>3. \A o \in Ops, j \in Ids : BoundTo(f, o, j) <=> BoundTo(e, o, j) \/ (j = i /\ r.op = o)
  BY PutBinds
<1>4. i \in e.tombs => r.op = NoOp
  BY DEF CanPut, IsSanitizedRedaction
<1> HIDE DEF f
<1>5. Grown(d, f)
  BY <1>1, <1>2, <1>3, <1>4, NullsAssumption DEF Grown
<1> QED BY <1>5 DEF f

(* Marking memories as superseded keeps the tables grown.                   *)
LEMMA SupersedeGrows ==
  ASSUME NEW d \in Tables, NEW e \in Tables, Grown(d, e), NEW S \in SUBSET Ids, NEW new \in Ids
  PROVE  Grown(d, SupersedeAll(e, S, new))
<1> DEFINE f == SupersedeAll(e, S, new)
<1>1. /\ SupersedeAll(e, S, new) \in Tables
      /\ Present(SupersedeAll(e, S, new)) = Present(e)
      /\ \A o \in Ops : Holders(SupersedeAll(e, S, new), o) = Holders(e, o)
      /\ \A i \in Ids : SupersedeAll(e, S, new).rows[i]
           = IF i \in S \cap Present(e) THEN [e.rows[i] EXCEPT !.supersededBy = new] ELSE e.rows[i]
      /\ TablesInv(e) => TablesInv(SupersedeAll(e, S, new))
  BY SupersedeKeepsTables
<1>2. \A o \in Ops, j \in Ids : BoundTo(f, o, j) <=> BoundTo(e, o, j)
  BY OthersBind
<1>3. f.tombs = e.tombs
  BY DEF SupersedeAll, Tables
<1> HIDE DEF f
<1>4. Present(f) = Present(e)
  BY <1>1 DEF f
<1>5. Grown(d, f)
  BY <1>2, <1>3, <1>4 DEF Grown
<1> QED BY <1>5 DEF f

(* What the index shows of an id is its row's text: nothing is left to      *)
(* repair, and to forget no memory is to change nothing.                    *)
LEMMA NothingToDo ==
  ASSUME NEW d \in Tables, SearchMatchesRowsIn(d)
  PROVE  /\ RebuildFts(d) = d
         /\ Redact(d, {}) = d
         /\ Delete(d, {}) = d
<1>1. /\ d.rows = [i \in Ids |-> d.rows[i]]
      /\ d.fts = [i \in Ids |-> d.fts[i]]
      /\ d.claims = [o \in Ops |-> d.claims[o]]
      /\ d = [rows |-> d.rows, fts |-> d.fts, claims |-> d.claims, tombs |-> d.tombs]
  BY DEF Tables
<1>2. RebuildFts(d) = d
  <2>1. [i \in Ids |-> IF d.rows[i] = Missing THEN <<>> ELSE <<d.rows[i].text>>] = [i \in Ids |-> d.fts[i]]
    BY DEF SearchMatchesRowsIn
  <2> QED BY <1>1, <2>1 DEF RebuildFts, Tables
<1>3. PreserveClaims(d, {}, NoOp) = [o \in Ops |-> d.claims[o]]
  BY DEF PreserveClaims
<1>4. Redact(d, {}) = d
  BY <1>1, <1>3 DEF Redact
<1>5. Delete(d, {}) = d
  BY <1>1 DEF Delete
<1> QED BY <1>2, <1>4, <1>5
====
