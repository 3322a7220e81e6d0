------------------------------- MODULE Diff3 -------------------------------
(***************************************************************************)
(* The merge of one file that both sides changed: diff.go's diff3Iterator  *)
(* cuts the three texts into chunks, and merge.go's diff3Stream turns them *)
(* into the merged text, a buffer at a time.  A line has a size in bytes,  *)
(* the newline not counted.                                                *)
(***************************************************************************)
EXTENDS Myers

CONSTANTS
  Lines,      \* what a line may hold, markers included
  Size,       \* Size[l]: how many bytes the line l has
  NotText,    \* the lines no text has: too long, or not UTF-8
  MaxLineCount,  \* a text has no more lines
  TargetMarker, BaseMarker, SeparateMarker, SourceMarker,
  Merges,     \* what is merged: [base, target, source: their lines]
  Buffers     \* BOUND: how large the reader's buffer may be

ASSUME Diff3Assumption ==
  /\ Size \in [Lines -> Nat]
  /\ NotText \subseteq Lines /\ MaxLineCount \in Nat
  /\ {TargetMarker, BaseMarker, SeparateMarker, SourceMarker} \subseteq Lines
  /\ Merges \subseteq [base : Seq(Lines), target : Seq(Lines), source : Seq(Lines)]
  /\ Buffers \subseteq Nat \ {0}

VARIABLES
  merge,        \* a member of Merges
  bufSize,      \* the size of the reader's buffer
  phase,        \* "open", "read" or "done"
  matchA,       \* for each line of the base the line of the target it is
  matchB,       \*   matched with, or of the source
  iter,         \* the lines the chunks have reached, and whether all is done
  lineBuffer,   \* lines to write
  copied,       \* how much of the first of them is written; -1: no current line
  room,         \* the bytes left in the buffer
  out,          \* the bytes written
  hasConflict,
  chunks        \* every chunk so far, with the lines it came out as

vars == <<merge, bufSize, phase, matchA, matchB, iter, lineBuffer, copied, room,
          out, hasConflict, chunks>>

Init ==
  /\ merge \in Merges /\ bufSize \in Buffers
  /\ phase = "open"
  /\ matchA = <<>> /\ matchB = <<>>
  /\ iter = [o |-> 0, a |-> 0, b |-> 0, finished |-> FALSE]
  /\ lineBuffer = <<>> /\ copied = -1 /\ room = bufSize
  /\ out = <<>> /\ hasConflict = FALSE /\ chunks = <<>>

(* The bytes of a line, and the newline. *)
NewLine == <<>>
Bytes(l, from, to) == [k \in 1..to - from |-> <<l, from + k>>]

Joined(ls) ==
  FlattenSeq([q \in DOMAIN ls |-> Bytes(ls[q], 0, Size[ls[q]])
                                    \o (IF q < Len(ls) THEN <<NewLine>> ELSE <<>>)])

-----------------------------------------------------------------------------
(* writeBlobWithDiff3: when one of the three is no text, the source's is   *)
(* taken, as a conflict.                                                   *)
IsText(text) ==
  Len(text) <= MaxLineCount /\ \A q \in DOMAIN text : text[q] \notin NotText

(* The matches of every base with every text it may be merged with. *)
Matchings ==
  [p \in {<<m.base, m.target>> : m \in Merges} \cup {<<m.base, m.source>> : m \in Merges} |->
     Matches(p[1], p[2])]

OpenBinary ==
  /\ phase = "open"
  /\ ~(IsText(merge.base) /\ IsText(merge.target) /\ IsText(merge.source))
  /\ phase' = "done"
  /\ hasConflict' = TRUE
  /\ out' = Joined(merge.source)
  /\ UNCHANGED <<merge, bufSize, matchA, matchB, iter, lineBuffer, copied, room, chunks>>

Open ==
  /\ phase = "open"
  /\ IsText(merge.base) /\ IsText(merge.target) /\ IsText(merge.source)
  /\ phase' = "read"
  /\ matchA' = Matchings[merge.base, merge.target]
  /\ matchB' = Matchings[merge.base, merge.source]
  /\ UNCHANGED <<merge, bufSize, iter, lineBuffer, copied, room, out, hasConflict, chunks>>

-----------------------------------------------------------------------------
(* diff3Iterator.next.                                                     *)

InBounds(i) ==
  \/ iter.o + i < Len(merge.base)
  \/ iter.a + i < Len(merge.target)
  \/ iter.b + i < Len(merge.source)

(* Mutant of IsMatch: only the target is looked at. *)
IsMatchInTarget(i) == iter.o + i < Len(merge.base) /\ matchA[iter.o + i] = iter.a + i

(* The next lines of all three are matched with each other. *)
IsMatch(i) ==
  /\ iter.o + i < Len(merge.base)
  /\ matchA[iter.o + i] = iter.a + i
  /\ matchB[iter.o + i] = iter.b + i

(* How many lines match from here. *)
Mismatch ==
  LET run[i \in 0..Len(merge.base)] == IF InBounds(i) /\ IsMatch(i) THEN run[i + 1] ELSE i
  IN  run[0]

(* The lines of the base that both sides kept, from here on. *)
Kept == {o \in iter.o..Len(merge.base) - 1 : matchA[o] # -1 /\ matchB[o] # -1}

FirstKept == CHOOSE o \in Kept : \A p \in Kept : o <= p

To(o, a, b, finished) == [o |-> o, a |-> a, b |-> b, finished |-> finished]
ToEnd == To(Len(merge.base), Len(merge.target), Len(merge.source), TRUE)

(* Where the chunk that starts here ends, and whether it is clean. *)
NextChunk ==
  LET i == Mismatch
  IN  IF InBounds(i) /\ i > 0
      THEN [end |-> To(iter.o + i, iter.a + i, iter.b + i, FALSE), clean |-> TRUE]
      ELSE IF InBounds(i) /\ Kept # {}
      THEN [end |-> To(FirstKept, matchA[FirstKept], matchB[FirstKept], FALSE), clean |-> FALSE]
      ELSE [end |-> ToEnd, clean |-> i > 0]

Part(text, from, to) == SubSeq(text, from + 1, to)

-----------------------------------------------------------------------------
(* diff3Stream.readStep.                                                   *)

(* Mutant of Resolved: a change of the target alone is not seen as such.   *)
ResolvedForSource(o, a, b) ==
  CASE o = a \/ a = b -> b
    [] o # a /\ a # b -> <<TargetMarker>> \o a \o <<BaseMarker>> \o o \o <<SeparateMarker>>
                             \o b \o <<SourceMarker>>

(* The lines a chunk that is not clean comes out as. *)
Resolved(o, a, b) ==
  CASE o = a \/ a = b -> b
    [] o # a /\ a # b /\ o = b -> a
    [] OTHER -> <<TargetMarker>> \o a \o <<BaseMarker>> \o o \o <<SeparateMarker>>
                  \o b \o <<SourceMarker>>

Conflicts(o, a, b) == o # a /\ a # b /\ o # b

(* Mutant of Wrote: a full buffer is not exchanged for the next one. *)
WroteInto(n) ==
  IF n = 0 THEN phase' = "done" /\ UNCHANGED room
  ELSE room' = room - n /\ UNCHANGED phase

(* Mutant of Wrote: reading nothing is never the end. *)
WroteOn(n) == room' = (IF n = 0 \/ room = n THEN bufSize ELSE room - n) /\ UNCHANGED phase

(* A step that wrote n bytes: Read goes on until the buffer is full or a   *)
(* step writes nothing; when it has nothing at all that is the end.        *)
Wrote(n) ==
  IF n = 0
  THEN IF room = bufSize THEN phase' = "done" /\ UNCHANGED room
       ELSE room' = bufSize /\ UNCHANGED phase
  ELSE room' = (IF room = n THEN bufSize ELSE room - n) /\ UNCHANGED phase

(* Mutant of NewLineFollows: each chunk ends without one. *)
NewLineInChunk == Len(lineBuffer) > 1

(* After a line comes a newline, except after the very last one. *)
NewLineFollows == Len(lineBuffer) > 1 \/ ~iter.finished

(* The rest of the current line fits and leaves room for a newline. *)
FinishLine ==
  LET line == lineBuffer[1]
      end == IF NewLineFollows THEN <<NewLine>> ELSE <<>>
  IN  /\ phase = "read" /\ copied >= 0
      /\ Size[line] - copied < room
      /\ out' = out \o Bytes(line, copied, Size[line]) \o end
      /\ lineBuffer' = Tail(lineBuffer)
      /\ copied' = IF lineBuffer' # <<>> THEN 0 ELSE -1
      /\ Wrote(Size[line] - copied + Len(end))
      /\ UNCHANGED <<merge, bufSize, matchA, matchB, iter, hasConflict, chunks>>

(* The buffer is full before that.  When the line is at its end all the    *)
(* same there is no current line any more, but it is left in lineBuffer.   *)
FillBuffer ==
  LET line == lineBuffer[1]
  IN  /\ phase = "read" /\ copied >= 0
      /\ Size[line] - copied >= room
      /\ out' = out \o Bytes(line, copied, copied + room)
      /\ copied' = IF Size[line] - copied = room THEN -1 ELSE copied + room
      /\ Wrote(room)
      /\ UNCHANGED <<merge, bufSize, matchA, matchB, iter, lineBuffer, hasConflict, chunks>>

ReadChunk ==
  LET chunk == NextChunk
      o == Part(merge.base, iter.o, chunk.end.o)
      a == Part(merge.target, iter.a, chunk.end.a)
      b == Part(merge.source, iter.b, chunk.end.b)
      lines == IF chunk.clean THEN o ELSE Resolved(o, a, b)
  IN  /\ phase = "read" /\ copied = -1
      /\ ~iter.finished
      /\ iter' = chunk.end
      /\ chunks' = Append(chunks, [o |-> o, a |-> a, b |-> b, clean |-> chunk.clean, lines |-> lines])
      /\ lineBuffer' = lineBuffer \o lines
      /\ copied' = IF lineBuffer' # <<>> THEN 0 ELSE -1
      /\ hasConflict' = (hasConflict \/ (~chunk.clean /\ Conflicts(o, a, b)))
      /\ UNCHANGED <<merge, bufSize, phase, matchA, matchB, room, out>>

NoMoreChunks ==
  /\ phase = "read" /\ copied = -1
  /\ iter.finished
  /\ Wrote(0)
  /\ UNCHANGED <<merge, bufSize, matchA, matchB, iter, lineBuffer, copied, out, hasConflict, chunks>>

Next == OpenBinary \/ Open \/ FinishLine \/ FillBuffer \/ ReadChunk \/ NoMoreChunks

Spec == Init /\ [][Next]_vars /\ WF_vars(Next)

-----------------------------------------------------------------------------
(* Every variable holds a value of its kind, the chunks do not go beyond   *)
(* the texts, and there is a line to write when one is current.            *)
TypeOK ==
  /\ merge \in [base : Seq(Lines), target : Seq(Lines), source : Seq(Lines)]
  /\ bufSize \in Buffers /\ phase \in {"open", "read", "done"}
  /\ iter.o \in 0..Len(merge.base) /\ iter.a \in 0..Len(merge.target)
  /\ iter.b \in 0..Len(merge.source) /\ iter.finished \in BOOLEAN
  /\ \A q \in DOMAIN lineBuffer : lineBuffer[q] \in Lines
  /\ copied >= -1 /\ (copied >= 0 => lineBuffer # <<>> /\ copied <= Size[lineBuffer[1]])
  /\ room \in 1..bufSize
  /\ hasConflict \in BOOLEAN

(* The matches the chunks are cut by come from a shortest edit script of   *)
(* each side: it leads from the base to that side and keeps equal lines    *)
(* only (myersDiffIterator).                                               *)
DiffsAreExact ==
  phase = "open" =>
    EditsAreExact(merge.base, merge.target) /\ EditsAreExact(merge.base, merge.source)

Merged == FlattenSeq([q \in DOMAIN chunks |-> chunks[q].lines])

(* The chunks are pieces of the three texts, one after the other: no line  *)
(* of any of them is lost or taken twice, and in a clean chunk all three   *)
(* are equal (diff3Iterator.next).                                         *)
ChunksTileTheTexts ==
  LET all(f) == FlattenSeq([q \in DOMAIN chunks |-> chunks[q][f]])
  IN  /\ all("o") = Part(merge.base, 0, iter.o)
      /\ all("a") = Part(merge.target, 0, iter.a)
      /\ all("b") = Part(merge.source, 0, iter.b)
      /\ \A q \in DOMAIN chunks :
           chunks[q].clean => chunks[q].o = chunks[q].a /\ chunks[q].o = chunks[q].b

Unique(text, l) == Cardinality({q \in DOMAIN text : text[q] = l}) = 1
Before(text, l) == SubSeq(text, 1, SelectInSeq(text, LAMBDA e : e = l) - 1)
After(text, l) == SubSeq(text, SelectInSeq(text, LAMBDA e : e = l) + 1, Len(text))

(* Changes that a line apart merge without a conflict: when one side       *)
(* changed the text only before a line all three have once, and the other  *)
(* only after it, the merge has both changes and nothing else.             *)
SeparateChangesMerge ==
  iter.finished =>
    \A l \in Lines :
      LET o == merge.base  a == merge.target  b == merge.source
      IN  (Unique(o, l) /\ Unique(a, l) /\ Unique(b, l)) =>
            /\ (After(a, l) = After(o, l) /\ Before(b, l) = Before(o, l)) =>
                 ~hasConflict /\ Merged = Before(a, l) \o <<l>> \o After(b, l)
            /\ (Before(a, l) = Before(o, l) /\ After(b, l) = After(o, l)) =>
                 ~hasConflict /\ Merged = Before(b, l) \o <<l>> \o After(a, l)

(* The bytes the reader gets are the merged lines, whatever the size of    *)
(* its buffer (diff3Stream), a newline between two of them; one more when  *)
(* the last chunk comes out empty.  Left out are the buffers at whose end  *)
(* a line ends: there the code goes wrong.                                 *)
LineEndsWithBuffer ==
  \E q \in DOMAIN Merged :
    Size[Merged[q]] > 0 /\ Len(Joined(SubSeq(Merged, 1, q))) % bufSize = 0

StreamIsMerged ==
  (phase = "done" /\ iter.finished /\ ~LineEndsWithBuffer) =>
    out = Joined(Merged) \o (IF Merged # <<>> /\ Last(chunks).lines = <<>> THEN <<NewLine>> ELSE <<>>)

(* Reading the merged text comes to an end. *)
MergeEnds == <>(phase = "done")
=============================================================================
