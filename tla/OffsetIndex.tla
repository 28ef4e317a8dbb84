---------------------------- MODULE OffsetIndex ----------------------------
(***************************************************************************)
(* The offset index of one transcript: the rows and the file state of the  *)
(* cache (src/src/conversation-cache.ts), the tail that extends them       *)
(* (src/src/services/conversations/conversationWatcher.ts) and the walk    *)
(* that rebuilds them for a detail request.                                *)
(*                                                                         *)
(* Offsets count lines; a size is twice that, and odd while a line is torn.*)
(* A row stands for a message and holds the line it is read from.          *)
(***************************************************************************)
EXTENDS Integers, Sequences, FiniteSets

CONSTANTS
  MaxLines,   \* lines of a file
  MaxFiles,   \* files the path has named
  MaxUpsets   \* cuts of the file, wipes of the cache and crashes

ASSUME IndexConstantsAssumption ==
  MaxLines \in Nat /\ MaxFiles \in Nat \ {0} /\ MaxUpsets \in Nat

VARIABLES
  indexed,   \* the file the path names
  text,   \* per file: the lines, "msg" or "side"
  torn,   \* the last line of the file has no end yet
  known,  \* the cache has a row for the path, so its provider is known
  state,  \* conversation_file_state of the path
  indexRows,   \* conversation_message_index: message -> line, 0 for no row
  walk,   \* the backfill under way
  tail,   \* the watched file
  holed,  \* rows have been deleted that nothing will write again
  upsets  \* bound

indexVars == <<indexed, text, torn, known, state, indexRows, walk, tail, holed, upsets>>

Messages == 0..(MaxLines - 1)
NoState == [has |-> FALSE, id |-> 0, off |-> 0, last |-> -1]
NoRows == [i \in Messages |-> 0]
NoWalk == [pc |-> "none", id |-> 0, at |-> 0, next |-> 0]
NoTail == [on |-> FALSE, off |-> 0, pc |-> "no", size |-> 0, pending |-> FALSE]

IndexInit ==
  /\ indexed = 1 /\ text = [f \in 1..MaxFiles |-> <<>>] /\ torn = FALSE /\ known = FALSE
  /\ state = NoState /\ indexRows = NoRows /\ walk = NoWalk /\ tail = NoTail
  /\ holed = FALSE /\ upsets = 0

\* splitCompleteLines: only lines that have an end are read.
Size == 2 * Len(text[indexed]) + (IF torn THEN 1 ELSE 0)
Lower(a, b) == IF a < b THEN a ELSE b

\* The messages among the lines from + 1 .. to, numbered from `next`.
Numbered(file, from, to, next) ==
  [i \in Messages |->
     LET lines == {l \in (from + 1)..to :
                     text[file][l] = "msg"
                     /\ next + Cardinality({k \in (from + 1)..(l - 1) : text[file][k] = "msg"}) = i}
     IN IF lines = {} THEN 0 ELSE CHOOSE l \in lines : TRUE]

Count(file, from, to) == Cardinality({l \in (from + 1)..to : text[file][l] = "msg"})

Written(old, new) == [i \in Messages |-> IF new[i] # 0 THEN new[i] ELSE old[i]]

\* readMessageWindow serves the messages from .. last: the state is of this file and ends
\* where the file does, and not every row asked for is missing.
Serves(from) ==
  /\ known /\ state.has /\ state.id = indexed /\ state.off = Size
  /\ \E i \in from..state.last : indexRows[i] # 0
-----------------------------------------------------------------------------
(* The index, as a record                                                  *)

Index == [state |-> state, rows |-> indexRows, walk |-> walk, holed |-> holed]
IndexBecomes(x) == state' = x.state /\ indexRows' = x.rows /\ walk' = x.walk /\ holed' = x.holed

\* deleteFileIndex; a walk that goes on does not write again what it has written.
Dropped(x) ==
  [x EXCEPT !.state = NoState, !.rows = NoRows,
            !.holed = x.walk.pc # "none" /\ (@ \/ x.walk.next > 0)]

\* backfillIndex: one walk at a time, which starts by dropping the index.
Backfill(x) ==
  IF x.walk.pc # "none" THEN x
  ELSE [Dropped(x) EXCEPT !.walk = IF known THEN [NoWalk EXCEPT !.pc = "open"] ELSE NoWalk]

\* Mutant: a read is appended to the index wherever it starts.
ExtendAnywhere(x, from, to) ==
  IF ~known THEN x
  ELSE [x EXCEPT !.rows = Written(@, Numbered(indexed, from, to, x.state.last + 1)),
                 !.state = [has |-> TRUE, id |-> indexed, off |-> 2 * to,
                            last |-> x.state.last + Count(indexed, from, to)]]

\* extendMessageIndex, and what its caller does when it declines.
Extend(x, from, to) ==
  IF ~known THEN x
  ELSE IF 2 * from # x.state.off THEN Backfill(Dropped(x))
  ELSE [x EXCEPT !.rows = Written(@, Numbered(indexed, from, to, x.state.last + 1)),
                 !.state = [has |-> TRUE, id |-> indexed, off |-> 2 * to,
                            last |-> x.state.last + Count(indexed, from, to)],
                 !.holed = @ /\ (x.state.has \/ x.walk.pc # "none")]
-----------------------------------------------------------------------------
(* The file                                                                *)

\* Nobody who reads the file is ahead of it: a file that was cut does not grow again
\* past them unnoticed, where its size would be all that they compare.
Noticed ==
  /\ state.has /\ state.id = indexed => state.off <= Size
  /\ tail.on => 2 * tail.off <= Size
  /\ tail.pc = "read" => tail.size <= Size
  /\ walk.pc # "none" /\ walk.id = indexed => walk.at <= Len(text[indexed])

AppendLine(kind) ==
  /\ Noticed /\ Len(text[indexed]) < MaxLines
  /\ text' = [text EXCEPT ![indexed] = Append(@, kind)] /\ torn' = FALSE
  /\ UNCHANGED <<indexed, known, state, indexRows, walk, tail, holed, upsets>>

AppendPart ==
  /\ Noticed /\ Len(text[indexed]) < MaxLines /\ ~torn /\ torn' = TRUE
  /\ UNCHANGED <<indexed, text, known, state, indexRows, walk, tail, holed, upsets>>

Cut ==
  /\ upsets < MaxUpsets /\ upsets' = upsets + 1
  /\ \E n \in 0..(Len(text[indexed]) - 1) : text' = [text EXCEPT ![indexed] = SubSeq(@, 1, n)]
  /\ torn' = FALSE
  /\ UNCHANGED <<indexed, known, state, indexRows, walk, tail, holed>>

\* Another file takes the name of one that nobody is reading.
Replace ==
  /\ indexed < MaxFiles /\ ~tail.on /\ walk.pc = "none" /\ indexed' = indexed + 1 /\ torn' = FALSE
  /\ UNCHANGED <<text, known, state, indexRows, walk, tail, holed, upsets>>
-----------------------------------------------------------------------------
(* The tail                                                                *)

\* The tail starts at the end of the file, taken to be a line's.  The index of a file that
\* was replaced is taken to have been rebuilt before: extendMessageIndex compares offsets,
\* and the identity not at all.
Watch ==
  /\ ~tail.on /\ tail' = [NoTail EXCEPT !.on = TRUE, !.off = Size \div 2]
  /\ ~torn /\ (state.has => state.id = indexed)
  /\ UNCHANGED <<indexed, text, torn, known, state, indexRows, walk, holed, upsets>>

Unwatch ==
  /\ tail.on /\ tail.pc = "no" /\ tail' = NoTail
  /\ UNCHANGED <<indexed, text, torn, known, state, indexRows, walk, holed, upsets>>

\* A change event, or a poke from the directory's.
Changed ==
  /\ tail.on
  /\ tail' = IF tail.pc # "no" THEN [tail EXCEPT !.pending = TRUE] ELSE [tail EXCEPT !.pc = "stat"]
  /\ UNCHANGED <<indexed, text, torn, known, state, indexRows, walk, holed, upsets>>

\* The end of a round of readNewLines: again if a change came meanwhile.
Again(t) == [t EXCEPT !.pc = IF t.pending THEN "stat" ELSE "no", !.pending = FALSE, !.size = 0]

\* The stat has come back; a file that shrank is read from its start.
TailStat ==
  /\ tail.pc = "stat"
  /\ LET shrunk == Size < 2 * tail.off
         from == IF shrunk THEN [tail EXCEPT !.off = 0] ELSE tail
     IN /\ IF shrunk THEN IndexBecomes(Dropped(Index)) ELSE UNCHANGED <<state, indexRows, walk, holed>>
        /\ tail' = IF Size <= 2 * from.off THEN Again(from)
                   ELSE [from EXCEPT !.pc = "read", !.size = Size]
  /\ UNCHANGED <<indexed, text, torn, known, upsets>>

\* The bytes have been read: the index is extended, then the row of the cache.
TailRead ==
  /\ tail.pc = "read"
  /\ LET to == Lower(tail.size \div 2, Len(text[indexed]))
         read == to > tail.off
     IN /\ IF read THEN IndexBecomes(Extend(Index, tail.off, to))
           ELSE UNCHANGED <<state, indexRows, walk, holed>>
        /\ known' = (known \/ (read /\ Count(indexed, tail.off, to) > 0))
        /\ tail' = Again([tail EXCEPT !.off = IF read THEN to ELSE @])
  /\ UNCHANGED <<indexed, text, torn, upsets>>
-----------------------------------------------------------------------------
(* The walk, and who asks for it                                           *)

WalkOpen ==
  /\ walk.pc = "open" /\ walk' = [walk EXCEPT !.pc = "read", !.id = indexed]
  /\ UNCHANGED <<indexed, text, torn, known, state, indexRows, tail, holed, upsets>>

\* A chunk ends anywhere; its rows are written before the next one is read.
WalkChunk(to) ==
  /\ walk.pc = "read" /\ to \in (walk.at + 1)..Len(text[walk.id])
  /\ indexRows' = Written(indexRows, Numbered(walk.id, walk.at, to, walk.next))
  /\ walk' = [walk EXCEPT !.at = to, !.next = @ + Count(walk.id, walk.at, to)]
  /\ UNCHANGED <<indexed, text, torn, known, state, tail, holed, upsets>>

WalkEof ==
  /\ walk.pc = "read" /\ walk.at >= Len(text[walk.id])
  /\ walk' = [walk EXCEPT !.pc = "close"]
  /\ UNCHANGED <<indexed, text, torn, known, state, indexRows, tail, holed, upsets>>

WalkEnds ==
  /\ walk.pc = "close" /\ walk' = NoWalk
  /\ state' = [has |-> TRUE, id |-> walk.id, off |-> 2 * walk.at, last |-> walk.next - 1]
  /\ UNCHANGED <<indexed, text, torn, known, indexRows, tail, holed, upsets>>

WalkFails ==
  /\ walk.pc \in {"open", "read"} /\ walk' = NoWalk
  /\ UNCHANGED <<indexed, text, torn, known, state, indexRows, tail, holed, upsets>>

\* A detail request whose window is not served enqueues a backfill.
Detail(from) ==
  /\ ~Serves(from)
  /\ IndexBecomes(Backfill(Index))
  /\ UNCHANGED <<indexed, text, torn, known, tail, upsets>>

\* upsertFromScannerMeta
Upserted ==
  /\ ~known /\ known' = TRUE
  /\ UNCHANGED <<indexed, text, torn, state, indexRows, walk, tail, holed, upsets>>

\* clearAll and dropRowsById leave the file state behind.
Wipe ==
  /\ upsets < MaxUpsets /\ upsets' = upsets + 1
  /\ known' = FALSE /\ indexRows' = NoRows
  /\ holed' = (holed \/ state.has \/ walk.next > 0)
  /\ UNCHANGED <<indexed, text, torn, state, walk, tail>>

\* The process ends; the database is what it was.
Restart ==
  /\ upsets < MaxUpsets /\ upsets' = upsets + 1
  /\ walk' = NoWalk /\ tail' = NoTail
  /\ UNCHANGED <<indexed, text, torn, known, state, indexRows, holed>>

IndexNext ==
  \/ \E kind \in {"msg", "side"} : AppendLine(kind)
  \/ AppendPart \/ Cut \/ Replace
  \/ Watch \/ Unwatch \/ Changed \/ TailStat \/ TailRead
  \/ WalkOpen \/ WalkEof \/ WalkEnds \/ WalkFails
  \/ \E to \in 1..MaxLines : WalkChunk(to)
  \/ \E from \in Messages : Detail(from)
  \/ Upserted \/ Wipe \/ Restart

IndexSpec == IndexInit /\ [][IndexNext]_indexVars
-----------------------------------------------------------------------------
IndexTypeOK ==
  /\ indexed \in 1..MaxFiles /\ state.last \in -1..(MaxLines - 1)
  /\ indexRows \in [Messages -> 0..MaxLines]
  /\ walk.pc \in {"none", "open", "read", "close"} /\ tail.pc \in {"no", "stat", "read"}

Nth(i, l) == text[indexed][l] = "msg" /\ Count(indexed, 0, l - 1) = i

\* A row that is served is the message of its number: the index that a client pages by
\* never names another line (the contiguity guard of extendMessageIndex).
RowsAreTrue ==
  Serves(0) => \A i \in 0..state.last : indexRows[i] # 0 => indexRows[i] <= Len(text[indexed]) /\ Nth(i, indexRows[i])

\* A window that is served has all its messages, and the total is the file's: "so the
\* response is never wrong" (conversations.handlers).
WindowIsWhole ==
  \A from \in Messages : Serves(from) =>
    /\ state.last + 1 = Count(indexed, 0, Len(text[indexed]))
    /\ \A i \in from..state.last : indexRows[i] # 0

\* So it is, unless the rows of a walk under way or the rows under a state were deleted.
WholeUnlessHoled == ~holed => WindowIsWhole

\* Bytes the watcher was told of are read: nothing is pending when no read is under way.
PendingIsRead == tail.pending => tail.pc # "no"

IndexInv == IndexTypeOK /\ RowsAreTrue /\ WholeUnlessHoled /\ PendingIsRead
=============================================================================
