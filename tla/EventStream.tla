---- MODULE EventStream ----
(***************************************************************************)
(* The event stream of the console: other programs append lines to a file  *)
(* and may rotate it; the console reads what is new at each tick, keeps an *)
(* unfinished line for the next one and skips a line that is too long.     *)
(*                                                                         *)
(* A byte is [line, pos, of, gen]: byte pos of the of bytes of one line of *)
(* JSON, in a file of this generation; or Newline.                         *)
(***************************************************************************)
EXTENDS Naturals, SequencesExt

CONSTANTS
  MaxLineBytes,   \* MAX_EVENT_LINE_BYTES
  MaxBatchBytes,  \* MAX_READ_BATCH_BYTES
  Newline,
  Lengths,        \* the lengths of the lines writers write
  MaxLines,       \* bound: lines written between rotations
  MaxRotations    \* bound

ASSUME StreamAssumption ==
  MaxLineBytes \in Nat /\ MaxBatchBytes \in Nat /\ Lengths \subseteq Nat \ {0}

VARIABLES
  file,
  reader,     \* [offset, pending, discarding]
  delivered,  \* history: the events read since the last rotation the reader noticed
  basis,      \* history: what the reader had of the file after it last read
  missed,     \* history: a rotation went unnoticed
  rotations

streamVars == <<file, reader, delivered, basis, missed, rotations>>

FreshReader == [offset |-> 0, pending |-> <<>>, discarding |-> FALSE]

StreamInit ==
  /\ file = <<>>
  /\ reader = FreshReader
  /\ delivered = <<>>
  /\ basis = <<>>
  /\ missed = FALSE
  /\ rotations = 0

----
NewlinesIn(s) == {k \in DOMAIN s : s[k] = Newline}
FirstNewline(s) == IF NewlinesIn(s) = {} THEN 0 ELSE Min(NewlinesIn(s))

\* Whether a line parses is up to its bytes: here every line that is not blank does.
Reported(line) == line # <<>> /\ Len(line) <= MaxLineBytes

\* The events of the lines that end in s, and the bytes behind the last of them.
Split(s) ==
  LET upto[k \in 0 .. Len(s)] ==
        IF k = 0 THEN [events |-> <<>>, rest |-> <<>>]
        ELSE IF s[k] # Newline THEN [upto[k - 1] EXCEPT !.rest = Append(@, s[k])]
        ELSE [events |-> upto[k - 1].events \o (IF Reported(upto[k - 1].rest) THEN <<upto[k - 1].rest>> ELSE <<>>),
              rest |-> <<>>]
  IN  upto[Len(s)]

\* An unfinished line is kept, or skipped up to its end when it is already too long.
Held(r, rest) ==
  [r EXCEPT !.pending = IF Len(rest) > MaxLineBytes THEN <<>> ELSE rest,
            !.discarding = Len(rest) > MaxLineBytes]

\* Mutant of Take: bytes that are skipped are not counted as read.
TakeUncounted(r, appended) ==
  LET begin == FirstNewline(appended)
      bytes == r.pending \o (IF r.discarding THEN SubSeq(appended, begin + 1, Len(appended)) ELSE appended)
      split == Split(bytes)
      read  == [r EXCEPT !.offset = @ + Len(appended)]
  IN  IF r.discarding /\ begin = 0 THEN [reader |-> r, events |-> <<>>]
      ELSE [reader |-> Held(read, split.rest),
            events |-> split.events]

\* read_new_events, on what one read returns.
Take(r, appended) ==
  LET begin == FirstNewline(appended)
      bytes == r.pending \o (IF r.discarding THEN SubSeq(appended, begin + 1, Len(appended)) ELSE appended)
      split == Split(bytes)
      read  == [r EXCEPT !.offset = @ + Len(appended)]
  IN  IF r.discarding /\ begin = 0 THEN [reader |-> read, events |-> <<>>]
      ELSE [reader |-> Held(read, split.rest),
            events |-> split.events]

\* A file shorter than what was read is a new one.
Reopened == IF Len(file) < reader.offset THEN FreshReader ELSE reader

ReadNewEvents ==
  LET from == Reopened
      took == Take(from, SubSeq(file, from.offset + 1,
                                IF Len(file) > from.offset + MaxBatchBytes THEN from.offset + MaxBatchBytes
                                ELSE Len(file)))
  IN  /\ reader' = took.reader
      /\ delivered' = (IF from = reader THEN delivered ELSE <<>>) \o took.events
      /\ basis' = SubSeq(file, 1, took.reader.offset)
      /\ missed' = (from = reader /\ (missed \/ ~IsPrefix(basis, file)))
      /\ UNCHANGED <<file, rotations>>

----
(* The writers: part of a line, the rest of it, or a new file.             *)

Written(line, n) == [pos \in 1 .. n |-> [line |-> line, pos |-> pos, of |-> n, gen |-> rotations]]

AppendPart ==
  LET line == Cardinality(NewlinesIn(file)) + 1
      open == Split(file).rest
  IN  /\ line <= MaxLines
      /\ \/ /\ open = <<>>
            /\ \E n \in Lengths : \E k \in {n, n \div 2} \ {0} :
                 file' = file \o SubSeq(Written(line, n), 1, k)
         \/ /\ open # <<>>
            /\ file' = file \o SubSeq(Written(line, Last(open).of), Len(open) + 1, Last(open).of) \o <<Newline>>
      /\ UNCHANGED <<reader, delivered, basis, missed, rotations>>

Rotate ==
  /\ rotations < MaxRotations
  /\ rotations' = rotations + 1
  /\ file' = <<>>
  /\ UNCHANGED <<reader, delivered, basis, missed>>

----
StreamTypeOK == reader.offset \in Nat /\ reader.discarding \in BOOLEAN

(* The console reports every complete line that is not too long, once, in  *)
(* order, and nothing else, however writes, partial lines, long lines and  *)
(* read limits fall together.  Not promised after a rotation that regrew   *)
(* past the offset between two reads, which the reader cannot notice.      *)
StreamFaithful == ~missed => delivered = Split(basis).events
====
