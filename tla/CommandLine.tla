---- MODULE CommandLine ----
(***************************************************************************)
(* The commands of the program that share no state but the files of one    *)
(* project: programs that open one store and recall from it, the set-up of *)
(* a project, updates of the program, the sessions of a harness, what a    *)
(* recall answers and what a preflight briefs.  part says which of them a  *)
(* behaviour is about.                                                     *)
(***************************************************************************)
EXTENDS StoreConnections, ProjectSetup, SelfUpdate, SessionHooks, Recall, PreflightContext

VARIABLES part
vars == <<part, connectionVars, setupVars, updateVars, hookVars, answerVars, briefVars>>

Init ==
  /\ part \in {"connections", "setup", "update", "sessions", "recall", "brief"}
  /\ part # "connections" => file = CHOOSE f \in OldFiles : TRUE
  /\ part # "connections" => budget = CHOOSE b \in Budgets : TRUE
  /\ part # "setup" => setup = CHOOSE s \in Setups : TRUE
  /\ part # "setup" => env = CHOOSE e \in setup.env : TRUE
  /\ part # "update" => method = CHOOSE m \in Methods : TRUE
  /\ part # "sessions" => memories = {}
  /\ part # "recall" => table = CHOOSE t \in Tables : TRUE
  /\ part # "brief" => shelf = CHOOSE s \in Shelves : TRUE
  /\ ConnectionInit /\ SetupInit /\ UpdateInit /\ HooksInit /\ AnswerInit /\ BriefInit

Next ==
  /\ UNCHANGED part
  /\ \/ part = "connections" /\ ConnectionNext /\ UNCHANGED <<setupVars, updateVars, hookVars, answerVars, briefVars>>
     \/ part = "setup" /\ SetupNext /\ UNCHANGED <<connectionVars, updateVars, hookVars, answerVars, briefVars>>
     \/ part = "update" /\ UpdateNext /\ UNCHANGED <<connectionVars, setupVars, hookVars, answerVars, briefVars>>
     \/ part = "sessions" /\ HooksNext /\ UNCHANGED <<connectionVars, setupVars, updateVars, answerVars, briefVars>>
     \/ part = "recall" /\ AnswerNext /\ UNCHANGED <<connectionVars, setupVars, updateVars, hookVars, briefVars>>
     \/ part = "brief" /\ BriefNext /\ UNCHANGED <<connectionVars, setupVars, updateVars, hookVars, answerVars>>

Spec == Init /\ [][Next]_vars /\ RecallFairness /\ HooksFairness
====
