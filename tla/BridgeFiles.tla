---- MODULE BridgeFiles ----
(***************************************************************************)
(* The bridge files of a project at two scales: what commands decide and   *)
(* publish over many files, and how each file is reached.  scale says      *)
(* which of the two a behaviour is about.                                  *)
(***************************************************************************)
EXTENDS BridgePublication, ProjectFiles

VARIABLES scale
scaleVars == <<vars, fileVars, scale>>

ScaleInit ==
  /\ scale \in {"commands", "calls"}
  /\ scale # "commands" => setting = CHOOSE s \in Settings : TRUE
  /\ scale # "calls" => task = CHOOSE t \in Tasks : TRUE
  /\ scale # "calls" => tree = CHOOSE t \in Trees : TRUE
  /\ Init /\ FilesInit
  /\ scale # "commands" => \A path \in Paths : content[path] = CHOOSE c \in Initial[path] : TRUE

ScaleNext ==
  /\ UNCHANGED scale
  /\ \/ scale = "commands" /\ Next /\ UNCHANGED fileVars
     \/ scale = "calls" /\ FilesNext /\ UNCHANGED vars

ScaleSpec == ScaleInit /\ [][ScaleNext]_scaleVars
====
