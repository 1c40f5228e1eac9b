---- MODULE RecallDeadline ----
(***************************************************************************)
(* A recall under a wall-clock deadline, on a connection that runs other   *)
(* statements before and after.  A watchdog thread waits for a cancel      *)
(* message or for the deadline; at the deadline it interrupts whatever     *)
(* statement the connection is running, whoever started it (an interrupt   *)
(* finds no statement to stop is without effect, as in SQLite).            *)
(***************************************************************************)
EXTENDS Naturals

CONSTANTS Queries   \* the queries a recall tries, one after the other

VARIABLES
  phase,     \* idle, query, sending, joining
  running,   \* none, recall, other : the statement the connection executes
  struck,    \* the running statement is interrupted
  dog,       \* none, waiting, fired, stopped : the watchdog thread
  cancel,    \* the cancel message is in the channel
  late,      \* the deadline has passed
  busy,      \* busy timeout of the connection: configured, deadline
  tried,     \* queries tried
  outcome    \* what the recall has: none, rows, error

recallVars == <<phase, running, struck, dog, cancel, late, busy, tried, outcome>>

RecallInit ==
  /\ phase = "idle" /\ running = "none" /\ struck = FALSE /\ dog = "none"
  /\ cancel = FALSE /\ late = FALSE /\ busy = "configured" /\ tried = 0 /\ outcome = "none"

\* with_recall_timeout up to the closure; idle connections only.
Start ==
  /\ phase = "idle" /\ running = "none"
  /\ phase' = "query" /\ busy' = "deadline" /\ dog' = "waiting"
  /\ cancel' = FALSE /\ late' = FALSE /\ tried' = 0 /\ outcome' = "none"
  /\ UNCHANGED <<running, struck>>

\* recall_with_options_until: the deadline is looked at before every query
\* and every row; the last query may find nothing.
Query ==
  /\ phase = "query" /\ running = "none"
  /\ IF late THEN phase' = "sending" /\ outcome' = "error" /\ UNCHANGED <<running, struck, tried>>
     ELSE /\ tried < Queries
          /\ running' = "recall" /\ struck' = FALSE /\ tried' = tried + 1
          /\ UNCHANGED <<phase, outcome>>
  /\ UNCHANGED <<dog, cancel, late, busy>>

\* A statement ends when SQLite is done with it, which may be never.
Found ==
  /\ running = "recall" /\ ~struck
  /\ running' = "none"
  /\ \/ phase' = "sending" /\ outcome' = IF late THEN "error" ELSE "rows"
     \/ tried < Queries /\ UNCHANGED <<phase, outcome>>
  /\ UNCHANGED <<struck, dog, cancel, late, busy, tried>>

Struck ==
  /\ running = "recall" /\ struck
  /\ running' = "none" /\ struck' = FALSE /\ phase' = "sending" /\ outcome' = "error"
  /\ UNCHANGED <<dog, cancel, late, busy, tried>>

Tick ==
  /\ phase # "idle" /\ ~late
  /\ late' = TRUE
  /\ UNCHANGED <<phase, running, struck, dog, cancel, busy, tried, outcome>>

\* The watchdog: recv_timeout, then interrupt.
Fire ==
  /\ dog = "waiting" /\ late /\ ~cancel
  /\ dog' = "fired" /\ struck' = (running # "none")
  /\ UNCHANGED <<phase, running, cancel, late, busy, tried, outcome>>

Stop ==
  /\ dog = "waiting" /\ cancel
  /\ dog' = "stopped"
  /\ UNCHANGED <<phase, running, struck, cancel, late, busy, tried, outcome>>

Cancel ==
  /\ phase = "sending"
  /\ phase' = "joining" /\ cancel' = TRUE
  /\ UNCHANGED <<running, struck, dog, late, busy, tried, outcome>>

\* Mutant of Join: a late answer is returned.
JoinLate ==
  /\ phase = "joining" /\ dog \in {"fired", "stopped"}
  /\ phase' = "idle" /\ busy' = "configured"
  /\ UNCHANGED <<running, struck, dog, cancel, late, tried, outcome>>

\* The end of with_recall_timeout.
Join ==
  /\ phase = "joining" /\ dog \in {"fired", "stopped"}
  /\ phase' = "idle" /\ busy' = "configured"
  /\ outcome' = IF dog = "fired" \/ late THEN "error" ELSE outcome
  /\ UNCHANGED <<running, struck, dog, cancel, late, tried>>

\* What else the owner of the connection executes, with no recall under way.
Other ==
  /\ phase = "idle"
  /\ \/ running = "none" /\ running' = "other" /\ struck' = FALSE
     \/ running = "other" /\ running' = "none" /\ struck' = FALSE
  /\ UNCHANGED <<phase, dog, cancel, late, busy, tried, outcome>>

RecallNext ==
  Start \/ Query \/ Found \/ Struck \/ Tick \/ Fire \/ Stop \/ Cancel \/ Join \/ Other

----
(* Properties *)

(* lib.rs:1211: the deadline of a recall stops the recall and nothing else *)
(* that its connection runs, and leaves the connection as it was: the      *)
(* watchdog is gone and the busy timeout is back before the caller goes on.*)
DeadlineContained ==
  /\ struck => running = "recall"
  /\ phase = "idle" => busy = "configured" /\ dog # "waiting"

(* An answer is never handed out after its deadline.                       *)
AnswersInTime == [][phase' = "idle" /\ phase # "idle" /\ outcome' = "rows" => ~late /\ dog # "fired"]_recallVars

(* "Runs recall under a wall-clock deadline and interrupts an in-flight    *)
(* SQLite statement" (lib.rs:1198): every recall ends, also one whose      *)
(* statement would never end by itself.                                    *)
RecallEnds == phase # "idle" ~> phase = "idle"

(* A deadline ends its own recall, in time, and touches nothing else.      *)
DeadlineKept == []DeadlineContained /\ AnswersInTime /\ RecallEnds

\* The thread, its watchdog and the clock go on; statements need not end.
RecallFairness ==
  /\ WF_recallVars(Query) /\ WF_recallVars(Struck) /\ WF_recallVars(Tick)
  /\ WF_recallVars(Fire) /\ WF_recallVars(Stop) /\ WF_recallVars(Cancel) /\ WF_recallVars(Join)
====
