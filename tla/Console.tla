---- MODULE Console ----
(***************************************************************************)
(* The terminal console.  A loop draws, handles at most one key, refreshes *)
(* from the store and reads the event stream; between any two of these     *)
(* other programs change the store.  Destructive commands only set an      *)
(* action pending, which a person confirms or cancels later.               *)
(*                                                                         *)
(* app is the console's own state.  A stored row is [sens, old, ring,      *)
(* hit]: sensitivity, whether it is superseded, its ring, and whether the  *)
(* one search query of the model matches it.  Ids grow with creation time. *)
(* Moving over the rings, pulses and the integration and evidence panes    *)
(* (which only read) are left out, and so is how much of a list fits on    *)
(* the screen: nothing here is said of the lines that are drawn of it.     *)
(***************************************************************************)
EXTENDS EventStream, FiniteSets

CONSTANTS
  Situations,   \* what may happen: [rows, keys, commands, previews, clientRows, streams,
                \* maxKeys, maxClientSteps]; the last two bound it
  MaxId,        \* bound: ids are 1 .. MaxId
  MaxResults,   \* recall limit
  MaxLive,      \* live events kept
  Absent

Ids == 1 .. MaxId

VARIABLES
  situation,
  rows,       \* the store: per id a row or Absent
  app,
  pc,         \* "key": drawn, a key may arrive; "tick"
  named,      \* history: the ids the prompt on screen names
  shown,      \* history: the rows the frame on screen was read from
  asked,      \* history: those of the last frame without the prompt on screen
  keys, clientSteps

appVars == <<situation, rows, app, pc, named, shown, asked, keys, clientSteps>>
consoleVars == <<appVars, streamVars>>

Present == {i \in Ids : rows[i] # Absent}

Row == [sens : {"normal", "private"}, old : BOOLEAN, hit : BOOLEAN,
        ring : {"cambium", "outer", "heartwood", "scar", "seed"}]

\* A memory as a list or a preview of the console holds it; of what it tells
\* of the memory only the sensitivity is kept.
Entry == [id : Ids, sens : {"normal", "private"}]

ASSUME SituationsAssumption ==
  /\ MaxId \in Nat /\ MaxResults \in Nat /\ MaxLive \in Nat
  /\ \A s \in Situations :
       /\ s.rows \in [Ids -> Row \cup {Absent}] /\ s.clientRows \subseteq Row
       /\ s.previews \subseteq Seq(Entry)

----
(* Handlers, as functions from an app to an app over the stored rows R.    *)

\* Rows as the console caches them, the newest first.
Cached(R, S) ==
  LET upto[i \in 0 .. MaxId] ==
        IF i = 0 THEN <<>>
        ELSE IF i \in S THEN <<[id |-> i, sens |-> R[i].sens]>> \o upto[i - 1]
        ELSE upto[i - 1]
  IN  upto[MaxId]

Shows(a, row) == (a.superseded \/ ~row.old) /\ (a.sensitive \/ row.sens = "normal")

VisibleMemories(a) == IF a.query = "" THEN a.memories ELSE a.results

Clamped(a) ==
  LET n == Len(VisibleMemories(a))
  IN  [a EXCEPT !.selected = IF n = 0 THEN 0 ELSE IF @ >= n THEN n - 1 ELSE @]

\* run_search; which of the matches rank first is up to recall.
Searched(a, R) ==
  IF a.query = "" THEN [a EXCEPT !.results = <<>>, !.selected = 0]
  ELSE LET hits == Cached(R, {i \in DOMAIN R : R[i] # Absent /\ R[i].hit /\ Shows(a, R[i])})
           n == Len(hits)
       IN  Clamped([a EXCEPT !.results = SubSeq(hits, 1, IF n < MaxResults THEN n ELSE MaxResults)])

\* Mutant of Refreshed: only new and removed memories are noticed.
RefreshedByCount(a, R) ==
  IF Cardinality({i \in DOMAIN R : R[i] # Absent}) = a.total THEN a
  ELSE LET listed == [a EXCEPT !.total = Cardinality({i \in DOMAIN R : R[i] # Absent}),
                               !.memories = Cached(R, {i \in DOMAIN R : R[i] # Absent /\ Shows(a, R[i])})]
       IN  Clamped(IF a.query = "" THEN listed ELSE Searched(listed, R))

\* refresh_store
Refreshed(a, R) ==
  LET there == {i \in DOMAIN R : R[i] # Absent}
      found == IF a.query = "" THEN a ELSE Searched(a, R)
  IN  Clamped([found EXCEPT !.total = Cardinality(there),
                            !.memories = Cached(R, {i \in there : Shows(a, R[i])})])

\* move_result with wrap_index
Moved(a, delta) ==
  LET n == Len(VisibleMemories(a))
  IN  [a EXCEPT !.selected = IF n = 0 THEN 0 ELSE (a.selected + delta + n) % n]

Selected(a) == IF a.selected < Len(VisibleMemories(a)) THEN VisibleMemories(a)[a.selected + 1] ELSE Absent

Says(a, what, i) == [a EXCEPT !.status = [said |-> what, id |-> i]]

----
(* Slash commands.                                                         *)

Targeted == {"forget", "redact", "promote", "scar", "seed"}

\* pending_for_selected: the prompt holds the id and the cached text.
PendSelected(a, act) ==
  IF Selected(a) = Absent THEN Says(a, "select first", 0)
  ELSE [a EXCEPT !.pending = [act |-> act, id |-> Selected(a).id, sens |-> Selected(a).sens]]

PendSupersede(a, old) ==
  IF Selected(a) = Absent THEN Says(a, "select first", 0)
  ELSE [a EXCEPT !.pending = [act |-> "supersede", id |-> Selected(a).id, old |-> old, sens |-> "normal"]]

\* preview_dox_sync: the summaries of the source files as they are now.
PendSync(a, preview) ==
  IF preview = <<>> THEN Says([a EXCEPT !.pending = Absent], "nothing to sync", 0)
  ELSE [a EXCEPT !.pending = [act |-> "sync", preview |-> preview, candidate |-> 1, sens |-> "normal"]]

Remembered == [sens |-> "normal", old |-> FALSE, ring |-> "cambium", hit |-> FALSE]

\* execute_slash_command: the buffer is empty again and the mode was reset.
ExecuteSlash(command) ==
  LET a == [app EXCEPT !.mode = "default"]
  IN  \/ /\ command \in Targeted
         /\ app' = PendSelected(a, command)
         /\ UNCHANGED rows
      \/ /\ command = "supersede"
         /\ \E old \in Ids : app' = PendSupersede(a, old)
         /\ UNCHANGED rows
      \/ /\ command = "sync"
         /\ \E preview \in situation.previews : app' = PendSync(a, preview)
         /\ UNCHANGED rows
      \/ /\ command \in {"consolidate", "export"}
         /\ app' = [a EXCEPT !.pending = [act |-> command, sens |-> "normal"]]
         /\ UNCHANGED rows
      \/ /\ command = "search"
         /\ app' = Searched([a EXCEPT !.mode = "search", !.query = "q"], rows)
         /\ UNCHANGED rows
      \/ /\ command = "remember"
         /\ \/ \E i \in Ids \ Present :
                 /\ \A j \in Present : j < i
                 /\ rows' = [rows EXCEPT ![i] = Remembered]
                 /\ app' = Refreshed(Says(a, "remembered", i), rows')
            \/ app' = Says(a, "failed", 0) /\ UNCHANGED rows

CommandKey(key) ==
  \/ key = "esc" /\ app' = [app EXCEPT !.mode = "default"] /\ UNCHANGED rows
  \/ key = "enter" /\ \E command \in situation.commands : ExecuteSlash(command)

SearchKey(key) ==
  /\ \/ key = "esc" /\ app' = [app EXCEPT !.mode = "default"]
     \/ key = "enter" /\ app' = Searched(app, rows)
     \/ key = "j" /\ app' = Moved(app, 1)
     \/ key = "k" /\ app' = Moved(app, -1)
     \/ key = "backspace" /\ app' = Searched([app EXCEPT !.query = ""], rows)
     \/ key = "text" /\ app' = Searched([app EXCEPT !.query = "q"], rows)
  /\ UNCHANGED rows

NavigationKey(key) ==
  /\ \/ key = "q" /\ app' = [app EXCEPT !.quit = TRUE]
     \/ key = "/" /\ app' = [app EXCEPT !.mode = "command"]
     \/ key = "s" /\ app' = [app EXCEPT !.mode = "search"]
     \/ key = "i" /\ app' = Searched([app EXCEPT !.sensitive = ~@], rows)
     \/ key = "u" /\ app' = Refreshed([app EXCEPT !.superseded = ~@], rows)
     \/ key = "esc" /\ app' = [app EXCEPT !.mode = "default"]
     \/ key = "j" /\ app' = Moved(app, 1)
     \/ key = "k" /\ app' = Moved(app, -1)
  /\ UNCHANGED rows

----
(* confirm_pending_action.  What the store does with an id is MemoryStore's *)
(* subject; here an id may be gone, redacted or changed by the time a       *)
(* person confirms.                                                         *)

Erased(row) == [row EXCEPT !.sens = "private", !.old = FALSE, !.hit = FALSE]

RingOf(act) == CASE act = "promote" -> "heartwood" [] act = "scar" -> "scar" [] act = "seed" -> "seed"

\* Mutant of Target: the confirmed action goes to what is selected by now.
TargetSelected(a) == IF Selected(a) = Absent THEN a.pending.id ELSE Selected(a).id

Target(a) == a.pending.id

\* The status an action ends with, and the rows it leaves.
Outcome(a) ==
  LET act == a.pending.act
      i   == Target(a)
      gone == rows[i] = Absent
  IN  CASE act = "forget" -> [said |-> "forgot", id |-> i, rows |-> [rows EXCEPT ![i] = Absent]]
        [] act = "redact" -> [said |-> "redacted", id |-> i,
                              rows |-> IF gone THEN rows ELSE [rows EXCEPT ![i] = Erased(@)]]
        [] act \in {"promote", "scar", "seed"} ->
             IF gone THEN [said |-> "missing", id |-> i, rows |-> rows]
             ELSE [said |-> RingOf(act), id |-> i, rows |-> [rows EXCEPT ![i].ring = RingOf(act)]]
        [] act = "supersede" ->
             [said |-> "superseded", id |-> a.pending.old,
              rows |-> IF rows[a.pending.old] = Absent THEN rows ELSE [rows EXCEPT ![a.pending.old].old = TRUE]]

SyncedRow(e) == [sens |-> e.sens, old |-> FALSE, ring |-> "outer", hit |-> FALSE]

Confirm ==
  LET a   == [app EXCEPT !.pending = Absent]
      act == app.pending.act
  IN  \/ /\ app' = Says(a, "failed", 0)
         /\ UNCHANGED rows
      \/ /\ act \in Targeted \cup {"supersede"}
         /\ LET o == Outcome(app)
            IN  rows' = o.rows /\ app' = Refreshed(Says(a, o.said, o.id), o.rows)
      \/ /\ act = "sync"
         /\ rows' = [i \in Ids |-> LET found == {e \in ToSet(app.pending.preview) : e.id = i}
                                   IN  IF found = {} THEN rows[i] ELSE SyncedRow(CHOOSE e \in found : TRUE)]
         /\ app' = Refreshed([Says(a, "synced", 0) EXCEPT !.query = "", !.results = <<>>,
                                                          !.selected = 0, !.mode = "default"], rows')
      \/ /\ act = "consolidate"
         /\ \/ UNCHANGED rows
            \/ \E i \in Ids \ Present : rows' = [rows EXCEPT ![i] = [Remembered EXCEPT !.ring = "outer"]]
         /\ app' = Refreshed(Says(a, "consolidated", 0), rows')
      \/ /\ act = "export"
         /\ app' = Refreshed(Says(a, "exported", 0), rows)
         /\ UNCHANGED rows

\* handle_pending_key: a DOX preview takes some keys for itself.
PendingKey(key) ==
  LET p == app.pending
  IN  \/ /\ p.act = "sync"
         /\ \/ key = "i" /\ app' = Refreshed([app EXCEPT !.sensitive = ~@], rows)
            \/ key = "j" /\ app' = [app EXCEPT !.pending.candidate = IF @ < Len(p.preview) THEN @ + 1 ELSE @]
            \/ key = "k" /\ app' = [app EXCEPT !.pending.candidate = IF @ > 1 THEN @ - 1 ELSE @]
         /\ UNCHANGED rows
      \/ key = "y" /\ Confirm
      \/ key \in {"n", "esc"} /\ app' = Says([app EXCEPT !.pending = Absent], "cancelled", 0) /\ UNCHANGED rows

HandleKey(key) ==
  IF app.pending # Absent THEN PendingKey(key)
  ELSE CASE app.mode = "command" -> CommandKey(key)
         [] app.mode = "search" -> SearchKey(key)
         [] OTHER -> NavigationKey(key)

----
\* What a prompt names: the ids that confirming it may change.
Named(pending) ==
  IF pending = Absent THEN {}
  ELSE CASE pending.act \in Targeted -> {pending.id}
         [] pending.act = "supersede" -> {pending.old}
         [] pending.act = "sync" -> {e.id : e \in ToSet(pending.preview)}
         [] OTHER -> {}

\* One turn of run_loop: a key or the end of the poll, then the tick.
Key ==
  /\ pc = "key" /\ ~app.quit
  /\ pc' = "tick"
  /\ \/ /\ keys < situation.maxKeys
        /\ keys' = keys + 1
        /\ \E key \in situation.keys : HandleKey(key)
     \/ UNCHANGED <<app, rows, keys>>
  /\ UNCHANGED <<situation, named, shown, asked, clientSteps, streamVars>>

Latest(s) == IF Len(s) > MaxLive THEN SubSeq(s, Len(s) - MaxLive + 1, Len(s)) ELSE s

Tick ==
  /\ pc = "tick"
  /\ pc' = "key"
  /\ ReadNewEvents
  /\ LET news == SubSeq(delivered', (IF IsPrefix(delivered, delivered') THEN Len(delivered) ELSE 0) + 1, Len(delivered'))
     IN  app' = [Refreshed(app, rows) EXCEPT !.live = Latest(@ \o news)]
  /\ named' = Named(app.pending)
  /\ shown' = rows
  /\ asked' = IF app.pending = Absent THEN rows ELSE asked
  /\ UNCHANGED <<situation, rows, keys, clientSteps>>

\* Another program writes, hides, reveals, redacts or deletes a memory.
Client ==
  /\ clientSteps < situation.maxClientSteps
  /\ clientSteps' = clientSteps + 1
  /\ \E i \in Ids : \E row \in situation.clientRows \cup {Absent} :
       /\ rows[i] # row
       /\ rows' = [rows EXCEPT ![i] = row]
  /\ UNCHANGED <<situation, app, pc, named, shown, asked, keys, streamVars>>

Writer == situation.streams /\ (AppendPart \/ Rotate) /\ UNCHANGED appVars

ConsoleInit ==
  /\ StreamInit
  /\ situation \in Situations
  /\ rows \in {situation.rows}
  /\ app = Refreshed([memories |-> <<>>, results |-> <<>>, selected |-> 0, query |-> "", total |-> 0,
                      sensitive |-> FALSE, superseded |-> FALSE, mode |-> "default", pending |-> Absent,
                      status |-> [said |-> "", id |-> 0], live |-> <<>>, quit |-> FALSE], rows)
  /\ pc = "key"
  /\ named = {}
  /\ shown = rows /\ asked = rows
  /\ keys = 0
  /\ clientSteps = 0

ConsoleNext == Key \/ Tick \/ Client \/ Writer

ConsoleSpec == ConsoleInit /\ [][ConsoleNext]_consoleVars

(* The poll of the loop times out, so the loop turns until the person quits. *)
FairConsoleSpec == ConsoleSpec /\ WF_consoleVars(Key) /\ WF_consoleVars(Tick)

----
TypeOK ==
  /\ {rows, shown, asked} \subseteq [Ids -> Row \cup {Absent}]
  /\ pc \in {"key", "tick"}
  /\ app.mode \in {"default", "command", "search"}
  /\ app.pending = Absent \/ app.pending.act \in Targeted \cup {"supersede", "sync", "consolidate", "export"}
  /\ \A r \in ToSet(app.memories) \cup ToSet(app.results) : r \in Entry

\* The memories that the switches and the query of a let through, of the rows R.
Matching(a, R) == {i \in Ids : R[i] # Absent /\ Shows(a, R[i]) /\ (a.query = "" \/ R[i].hit)}

\* Entry r is of a memory that may be shown, and is what the rows R say of it.
Tells(a, r, R) == r.id \in Matching(a, R) /\ r.sens = R[r.id].sens

(* Every frame is current: its list, of which the details are one entry,   *)
(* holds memories as the store had them when the frame was read, and only  *)
(* those the switches let through; browsing, it leaves none of them out.   *)
(* What was cached before a switch, another program's change or a          *)
(* redaction is in no list of the next frame.                              *)
FrameCurrent ==
  pc = "key" =>
    /\ \A r \in ToSet(VisibleMemories(app)) : Tells(app, r, shown)
    /\ app.query = "" => Matching(app, shown) \subseteq {r.id : r \in ToSet(app.memories)}

(* A prompt about a memory tells what the last frame before it could show  *)
(* of that memory, under the switches of now.  It stays as it was opened:  *)
(* what the store says of the memory since is not promised.                *)
PromptAsShown ==
  app.pending # Absent /\ app.pending.act \in Targeted => Tells(app, app.pending, asked)

(* Whatever other programs add and remove, a list that is not empty has a  *)
(* memory selected for commands to be about.  Its line may be below those  *)
(* that are drawn, and then only a wide screen shows it, in the details.   *)
SelectionStands ==
  pc = "key" => app.selected < Len(VisibleMemories(app)) \/ VisibleMemories(app) = <<>>

(* A key changes or removes a stored memory only when the prompt on the    *)
(* screen named it, though lists, selection and store moved on since the   *)
(* prompt was opened.                                                      *)
ActsOnWhatWasShown ==
  [][keys' # keys => \A i \in Present : rows'[i] # rows[i] => i \in named]_consoleVars

LiveBound == Len(app.live) <= MaxLive

(* The console catches up with the stream: partial and oversized lines and *)
(* rotations do not make it stop reading.                                  *)
StreamCatchesUp == []<>(app.quit \/ reader.offset = Len(file))

(* A frame shows what the store held when it was read and what may be      *)
(* seen, a prompt what was shown before it, and commands have a target.    *)
FramesHonest == TypeOK /\ FrameCurrent /\ PromptAsShown /\ SelectionStands

StreamSafe == StreamTypeOK /\ LiveBound /\ StreamFaithful

(* The stream is told whole, once, in order, and to its end.               *)
StreamTold == []StreamSafe /\ StreamCatchesUp
====
