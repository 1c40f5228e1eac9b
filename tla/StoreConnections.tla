---- MODULE StoreConnections ----
(***************************************************************************)
(* Programs of different versions that open one store file.  A writable    *)
(* open checks the version, configures the connection, checks again and    *)
(* migrates in a BEGIN IMMEDIATE transaction that checks a third time; a   *)
(* connection stays open while other programs migrate the file.  Triggers  *)
(* compare the writer protocol of whoever writes with the one the store    *)
(* asks for.  A recall on one connection does not interact with that;      *)
(* budget says what the programs of a behaviour do.                        *)
(*                                                                         *)
(* A build is the schema version it was made for.  Builds from 3 on follow *)
(* this code, their writer protocol being their own number; a later build  *)
(* replaces the triggers by its own.  A build below 3 is a program from    *)
(* before the protocol: it checks nothing and knows no tombstones.         *)
(***************************************************************************)
EXTENDS RecallDeadline, FiniteSets

CONSTANTS
  Procs, Build, \* programs and their builds
  ReadOnly,     \* programs that open the store read-only
  Ids,
  OldFiles,     \* contents of the file the model starts with, older than the protocol
  Budgets,      \* bounds: openings in all, and whether there are recalls
  NoRow

ASSUME FilesAssumption ==
  /\ Build \in [Procs -> Nat]
  /\ NoRow \notin {"plain", "bare", "scrubbed", "broken"}
  /\ OldFiles \subseteq [version : 0 .. 2, fence : {0}, tombs : {{}},
                        rows : [Ids -> {NoRow, "plain", "bare", "scrubbed", "broken"}]]

(* file.rows[i] is NoRow, "plain", "bare" (a private scope without the      *)
(* identity it needs), "scrubbed" (redacted) or "broken" (a row that does  *)
(* not decode or validate).  file.fence is 0 without triggers.             *)
VARIABLES file, conn, opens, read, budget
connectionVars == <<file, conn, opens, read, budget, recallVars>>
fileVars == <<file, conn, opens, read>>

Protocol(p) == IF Build[p] >= 3 THEN Build[p] ELSE 0

ConnectionInit ==
  /\ file \in OldFiles
  /\ conn = [p \in Procs |-> "closed"]
  /\ opens = 0
  /\ read = {}
  /\ budget \in Budgets
  /\ RecallInit

Now(p, state) == conn' = [conn EXCEPT ![p] = state]

\* open_connection, open_read_only_connection: ensure_supported_schema_version.
Open(p) ==
  /\ conn[p] = "closed" /\ opens < budget.opens
  /\ opens' = opens + 1
  /\ Now(p, IF Build[p] < 3 THEN "open"
            ELSE IF file.version > Build[p] THEN "closed"
            ELSE IF p \in ReadOnly THEN "open" ELSE "checked")
  /\ UNCHANGED <<file, read>>

\* configure_writable_connection, then the check that migrate starts with.
Configure(p) ==
  /\ conn[p] = "checked"
  /\ Now(p, IF file.version = Build[p] THEN "open"
            ELSE IF file.version > Build[p] THEN "closed" ELSE "migrating")
  /\ UNCHANGED <<file, opens, read>>

Migrated(f, b) ==
  [version |-> b, fence |-> b,
   rows |-> [i \in Ids |-> IF f.rows[i] = "bare" THEN "plain" ELSE f.rows[i]],
   tombs |-> f.tombs \cup {i \in Ids : f.rows[i] = "scrubbed"}]

\* Mutant of Migrate: the version is not looked at inside the transaction.
MigrateUnchecked(p) ==
  /\ conn[p] = "migrating"
  /\ file' = Migrated(file, Build[p]) /\ Now(p, "open")
  /\ UNCHANGED <<opens, read>>

\* The transaction of migrate: done by another program meanwhile, refused, or
\* done here; one broken row fails it as a whole.
Migrate(p) ==
  /\ conn[p] = "migrating"
  /\ IF file.version = Build[p] THEN Now(p, "open") /\ UNCHANGED file
     ELSE IF file.version > Build[p] \/ \E i \in Ids : file.rows[i] = "broken"
     THEN Now(p, "closed") /\ UNCHANGED file
     ELSE file' = Migrated(file, Build[p]) /\ Now(p, "open")
  /\ UNCHANGED <<opens, read>>

\* The connection is dropped, the program dies, or a lock is held too long.
Close(p) ==
  /\ conn[p] # "closed"
  /\ Now(p, "closed")
  /\ UNCHANGED <<file, opens, read>>

\* The BEFORE INSERT, UPDATE and DELETE triggers on memories.
MayWrite(p) ==
  /\ conn[p] = "open" /\ p \notin ReadOnly
  /\ file.fence \in {0, Protocol(p)}

Put(p, i) ==
  /\ MayWrite(p)
  /\ Build[p] >= 3 => i \notin file.tombs
  /\ \E r \in IF Build[p] >= 3 THEN {"plain"} ELSE {"plain", "bare"} :
       file' = [file EXCEPT !.rows[i] = r]
  /\ UNCHANGED <<conn, opens, read>>

Redact(p, i) ==
  /\ MayWrite(p) /\ file.rows[i] # NoRow
  /\ file' = [file EXCEPT !.rows[i] = "scrubbed",
                          !.tombs = IF Build[p] >= 3 THEN @ \cup {i} ELSE @]
  /\ UNCHANGED <<conn, opens, read>>

\* event_from_row normalizes what it decodes, also on a read-only connection.
Seen(r) == IF r = "bare" THEN "plain" ELSE r

\* list_all and the searches: a row that does not decode is an error.
Read(p) ==
  /\ conn[p] = "open" /\ Build[p] >= 3
  /\ \A i \in Ids : file.rows[i] # "broken"
  /\ read' = {Seen(file.rows[i]) : i \in Ids} \ {NoRow}
  /\ UNCHANGED <<file, conn, opens>>

FileNext ==
  \E p \in Procs : \/ Open(p) \/ Configure(p) \/ Migrate(p) \/ Close(p) \/ Read(p)
                   \/ \E i \in Ids : Put(p, i) \/ Redact(p, i)

ConnectionNext ==
  \/ FileNext /\ UNCHANGED <<budget, recallVars>>
  \/ budget.recalls /\ RecallNext /\ UNCHANGED <<budget, fileVars>>

----
(* Properties *)

TypeOK ==
  /\ file.fence \in {0, file.version}
  /\ \A p \in Procs : conn[p] = "migrating" => p \notin ReadOnly
  /\ file.tombs \subseteq {i \in Ids : file.rows[i] # NoRow}

(* lib.rs:152: whatever programs of older versions wrote before, or try to *)
(* write after, a migrated store has no private memory without an identity *)
(* and no redacted memory without its tombstone.                           *)
MigratedIsSound ==
  file.version >= 3 => \A i \in Ids : /\ file.rows[i] # "bare"
                                      /\ file.rows[i] = "scrubbed" <=> i \in file.tombs

(* lib.rs:152: two programs that migrate at the same time never take a     *)
(* store back to an earlier schema.                                        *)
VersionGrows == [][file'.version >= file.version]_connectionVars

(* "read_only_legacy_rows_are_normalized_in_memory_without_migration": a   *)
(* reader never sees a private memory without identity, nor changes a row. *)
ReadersSeeNormalized == "bare" \notin read

(* Programs of all versions over one file never take it back, never leave  *)
(* it unsound and never see it unsound.                                    *)
VersionsCoexist == [](TypeOK /\ MigratedIsSound /\ ReadersSeeNormalized) /\ VersionGrows
====
