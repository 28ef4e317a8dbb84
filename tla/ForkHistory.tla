---------------------------- MODULE ForkHistory -----------------------------
(***************************************************************************)
(* The history a forked Codex conversation inherits                        *)
(* (src/src/services/conversations/inheritedHistory.ts).  `codex fork`     *)
(* writes a rollout that only points at its source and at the ordinal      *)
(* where the source is cut; the server follows the links and joins the     *)
(* prefixes.  Ordinals run on through a fork: its first line, which says   *)
(* where it comes from, carries the cut as its ordinal.                    *)
(*                                                                         *)
(* The first line of a rollout renders as nothing, every other one as a    *)
(* message, named by the rollout and the line.  The two caches are larger  *)
(* than what is opened here: nothing is evicted from them.                 *)
(***************************************************************************)
EXTENDS Integers, Sequences, SequencesExt, FiniteSets

CONSTANTS
  ForkFiles,      \* how many rollouts are written
  ForkLines,      \* bound: lines of a rollout
  MaxChainDepth,  \* MAX_CHAIN_DEPTH
  ForkReaders     \* detail requests under way

ASSUME ForkAssumption ==
  /\ {ForkFiles, ForkLines, MaxChainDepth} \subseteq Nat \ {0}
  /\ IsFiniteSet(ForkReaders)

VARIABLES
  rollouts,   \* the files written so far: [on, link, lines]
  inherits,   \* history: the messages the agent of each took over
  linkCache,  \* linkCache: path -> link
  prefixCache,\* prefixCache: <<path, cut>> -> messages
  reading     \* the requests: where each stands, and what it was answered

inheritVars == <<rollouts, inherits, linkCache, prefixCache, reading>>

NoSource == 0
NotAFork == [source |-> NoSource, cut |-> 0]
Files == 1..Len(rollouts)

\* The ordinal of a line: a fork goes on from the cut of its source.
Ordinal(f, line) == rollouts[f].link.cut + line - 1

Own(f) == [i \in 1..(IF rollouts[f].lines = 0 THEN 0 ELSE rollouts[f].lines - 1) |->
             [file |-> f, line |-> i + 1]]

Before(messages, cut) == SelectSeq(messages, LAMBDA m : Ordinal(m.file, m.line) < cut)

NoReading ==
  [pc |-> "idle", of |-> NoSource, current |-> NotAFork, segments |-> <<>>,
   seen |-> {}, missing |-> FALSE]

ForkInit ==
  /\ rollouts = <<>> /\ inherits = <<>>
  /\ linkCache = [f \in {} |-> NotAFork]
  /\ prefixCache = [k \in {} |-> <<>>]
  /\ reading = [r \in ForkReaders |-> NoReading]

-----------------------------------------------------------------------------
(* Codex.                                                                  *)

NewRollout(link, taken) ==
  /\ Len(rollouts) < ForkFiles
  /\ rollouts' = Append(rollouts, [on |-> TRUE, link |-> link, lines |-> 0])
  /\ inherits' = Append(inherits, taken)
  /\ UNCHANGED <<linkCache, prefixCache, reading>>

\* A conversation of its own, or one that takes over what its source was told
\* before the cut; the file is there before its first line is.
StartRollout == NewRollout(NotAFork, <<>>)
ForkRollout(s, cut) ==
  /\ rollouts[s].on /\ rollouts[s].lines > 0
  /\ cut <= Ordinal(s, rollouts[s].lines) + 1
  /\ NewRollout([source |-> s, cut |-> cut], Before(inherits[s] \o Own(s), cut))

WriteLine(f) ==
  /\ rollouts[f].on /\ rollouts[f].lines < ForkLines
  /\ rollouts' = [rollouts EXCEPT ![f].lines = @ + 1]
  /\ UNCHANGED <<inherits, linkCache, prefixCache, reading>>

RemoveRollout(f) ==
  /\ rollouts[f].on
  /\ rollouts' = [rollouts EXCEPT ![f].on = FALSE]
  /\ UNCHANGED <<inherits, linkCache, prefixCache, reading>>

-----------------------------------------------------------------------------
(* The server.                                                             *)

\* readForkLinkUncached: the first line, if there is one by now.
LinkOnDisk(f) ==
  IF rollouts[f].on /\ rollouts[f].lines > 0 THEN rollouts[f].link ELSE NotAFork

\* readForkLink: "not a fork" is remembered as any other answer.
LinkOf(f) == IF f \in DOMAIN linkCache THEN linkCache[f] ELSE LinkOnDisk(f)
Remember(f) == linkCache' = [g \in DOMAIN linkCache \cup {f} |-> IF g = f THEN LinkOf(f) ELSE linkCache[g]]

Step(r, next) == reading' = [reading EXCEPT ![r] = next]

\* handleGetConversation, which found the file.
AskHistory(r, f) ==
  /\ reading[r].pc \in {"idle", "answered"}
  /\ rollouts[f].on
  /\ Step(r, [NoReading EXCEPT !.pc = "own", !.of = f])
  /\ UNCHANGED <<rollouts, inherits, linkCache, prefixCache>>

\* The loop goes on while there is a link and the chain is not too deep.
Onward(q, link) ==
  [q EXCEPT !.current = link,
            !.pc = IF link = NotAFork \/ Len(q.segments) >= MaxChainDepth
                   THEN "answered" ELSE "locate"]

ReadOwnLink(r) ==
  /\ reading[r].pc = "own"
  /\ Remember(reading[r].of)
  /\ Step(r, Onward(reading[r], LinkOf(reading[r].of)))
  /\ UNCHANGED <<rollouts, inherits, prefixCache>>

NotFound(q) == [q EXCEPT !.pc = "answered", !.missing = TRUE]

\* A source seen before, or one that is not found, ends the search.
LocateSource(r) ==
  LET q == reading[r]  s == q.current.source
  IN  /\ q.pc = "locate"
      /\ Step(r, IF s \in q.seen \/ ~rollouts[s].on THEN NotFound(q)
                 ELSE [q EXCEPT !.pc = "prefix", !.seen = @ \cup {s}])
      /\ UNCHANGED <<rollouts, inherits, linkCache, prefixCache>>

\* Mutant: the cut counts the lines of the file it is in.
PrefixByLine(f, cut) == SelectSeq(Own(f), LAMBDA m : m.line - 1 < cut)

\* readMessagesBeforeOrdinal
PrefixOnDisk(f, cut) == Before(Own(f), cut)

\* A prefix already read is used whatever became of the file.
ReadPrefix(r) ==
  LET q == reading[r]
      key == <<q.current.source, q.current.cut>>
      known == key \in DOMAIN prefixCache
      prefix == IF known THEN prefixCache[key] ELSE PrefixOnDisk(key[1], key[2])
  IN  /\ q.pc = "prefix"
      /\ IF known \/ rollouts[q.current.source].on
         THEN /\ Step(r, [q EXCEPT !.pc = "link", !.segments = Append(@, prefix)])
              /\ prefixCache' = [k \in DOMAIN prefixCache \cup {key} |->
                                   IF k = key THEN prefix ELSE prefixCache[k]]
         ELSE Step(r, NotFound(q)) /\ UNCHANGED prefixCache
      /\ UNCHANGED <<rollouts, inherits, linkCache>>

\* Mutant: each source of the chain is cut where its own fork was.
CutAsWritten(next, cut) == next

\* A source contributes of its own source no more than lies before this cut.
CutBelow(next, cut) ==
  IF next # NotAFork /\ cut < next.cut THEN [next EXCEPT !.cut = cut] ELSE next

FollowLink(r) ==
  LET q == reading[r]
  IN  /\ q.pc = "link"
      /\ Remember(q.current.source)
      /\ Step(r, Onward(q, CutBelow(LinkOf(q.current.source), q.current.cut)))
      /\ UNCHANGED <<rollouts, inherits, prefixCache>>

ForkNext ==
  \/ StartRollout
  \/ \E f \in Files :
       \/ \E cut \in 1..(ForkFiles * ForkLines) : ForkRollout(f, cut)
       \/ WriteLine(f) \/ RemoveRollout(f)
       \/ \E r \in ForkReaders : AskHistory(r, f)
  \/ \E r \in ForkReaders :
       ReadOwnLink(r) \/ LocateSource(r) \/ ReadPrefix(r) \/ FollowLink(r)

ForkSpec == ForkInit /\ [][ForkNext]_inheritVars

-----------------------------------------------------------------------------
(* Properties.                                                             *)

\* What a request was answered: the prefixes, the oldest first.
History(q) == IF q.missing THEN <<>> ELSE FlattenSeq(Reverse(q.segments))

\* The rollouts a conversation descends from, by the links on disk.
Ancestors(f) ==
  LET up[n \in 0..ForkFiles] ==
        IF n = 0 THEN {f}
        ELSE up[n - 1] \cup ({rollouts[g].link.source : g \in up[n - 1]} \ {NoSource})
  IN  up[ForkFiles] \ {f}

\* The link of a rollout was asked for before its first line was written.
Misread(f) ==
  /\ f \in DOMAIN linkCache
  /\ linkCache[f] = NotAFork /\ rollouts[f].link # NotAFork

ForkTypeOK ==
  /\ Len(rollouts) = Len(inherits) /\ Len(rollouts) <= ForkFiles
  /\ \A f \in Files :
       rollouts[f] \in [on : BOOLEAN, lines : 0..ForkLines,
                        link : [source : 0..ForkFiles, cut : 0..(ForkFiles * ForkLines)]]
  /\ DOMAIN linkCache \subseteq Files
  /\ \A r \in ForkReaders :
       reading[r].pc \in {"idle", "own", "locate", "prefix", "link", "answered"}

\* An answer that names no reason is the whole of what the agent took over:
\* no turn the fork never inherited, and none left out, whatever was appended
\* or cached meanwhile; unless the chain is deeper than MaxChainDepth, or one
\* of its links was asked for before it was written.
HistoryIsInherited ==
  \A r \in ForkReaders :
    LET q == reading[r]
    IN  q.pc = "answered" /\ ~q.missing =>
          \/ History(q) = inherits[q.of]
          \/ Cardinality(Ancestors(q.of)) > MaxChainDepth
          \/ \E g \in Ancestors(q.of) \cup {q.of} : Misread(g)

\* A history is called unavailable only if a source of it is gone.
MissingIsGone ==
  \A r \in ForkReaders :
    reading[r].missing => \E g \in Ancestors(reading[r].of) : ~rollouts[g].on

\* A cached prefix stays right though its source grows.
PrefixesAreFrozen ==
  \A k \in DOMAIN prefixCache : prefixCache[k] = Before(Own(k[1]), k[2])

\* Of the inherited histories.
ForkInv == ForkTypeOK /\ HistoryIsInherited /\ MissingIsGone /\ PrefixesAreFrozen

\* Does not hold: a link asked for while its file is still empty is remembered
\* as "not a fork" for the life of the process, and a chain deeper than
\* MaxChainDepth is answered short with no reason given.
NeverSilentlyShort ==
  \A r \in ForkReaders :
    reading[r].pc = "answered" /\ ~reading[r].missing =>
      History(reading[r]) = inherits[reading[r].of]
=============================================================================
