----------------------------- MODULE SessionPages -----------------------------
(***************************************************************************)
(* The pages of GET /api/sessions (SessionStore.paginate): the list is     *)
(* derived and sorted anew for every request, and a page resumes after the *)
(* key and the id of the last row of the page before.                      *)
(*                                                                         *)
(* A session has a number for its id and one for its sort value, in the    *)
(* order in which they compare.                                            *)
(***************************************************************************)
EXTENDS Integers, Sequences, FiniteSets, SequencesExt

CONSTANTS
  PageIds,   \* ids of sessions
  SortKeys,  \* sort values
  Limits,    \* sizes a client may ask for
  MaxShifts  \* bound: changes of the list during the scan

ASSUME PagesAssumption ==
  PageIds \subseteq Int /\ SortKeys \subseteq Nat /\ Limits \subseteq Nat \ {0} /\ MaxShifts \in Nat

Unlisted == -1

NoCursor == [k |-> Unlisted, id |-> Unlisted]

\* parseSessionListQuery: what a request may ask for, and is not refused.
Queries == [order : {"asc", "desc"}, limit : Limits]

VARIABLES
  query,     \* what the client asks for
  sortValue, \* the value each session sorts by, Unlisted if it is not in the list
  cursor,    \* where the client resumes
  scan,      \* "before", "under way" or "over"
  delivered, \* how often each session was delivered in this scan
  steady,    \* sessions listed and unchanged since the scan began
  shifts     \* changes of the list

pageVars == <<query, sortValue, cursor, scan, delivered, steady, shifts>>

-----------------------------------------------------------------------------
Listed == {id \in PageIds : sortValue[id] # Unlisted}

\* The difference of two values in the client's direction.
CompareValues(a, b) == (a - b) * (IF query.order = "asc" THEN 1 ELSE -1)

\* Mutant: the tie-break of the sort follows the order, the boundary's does not.
PrecedesEvenly(a, b) ==
  LET c == CompareValues(sortValue[a], sortValue[b])
  IN  c < 0 \/ (c = 0 /\ CompareValues(a, b) < 0)

\* makeComparator: ties go by ascending id in both orders.
Precedes(a, b) ==
  LET c == CompareValues(sortValue[a], sortValue[b]) IN c < 0 \/ (c = 0 /\ a < b)

Sorted == SetToSortSeq(Listed, Precedes)

\* Mutant: the boundary does not look at the id.
IsAfterKey(id, c) == CompareValues(sortValue[id], c.k) > 0

IsAfter(id, c) ==
  LET d == CompareValues(sortValue[id], c.k) IN d > 0 \/ (d = 0 /\ id > c.id)

\* What the answer tells the client, and the next request tells the server.
CursorOf(id) == [k |-> sortValue[id], id |-> id]

(* findCursorBoundary: the first row after the cursor, in the rows as they *)
(* are sorted now, or the end.                                             *)
Boundary(rows) ==
  IF cursor = NoCursor THEN 1
  ELSE CHOOSE i \in 1 .. Len(rows) + 1 :
         /\ i <= Len(rows) => IsAfter(rows[i], cursor)
         /\ \A j \in 1 .. i - 1 : ~IsAfter(rows[j], cursor)

PagesInit ==
  /\ query \in Queries
  /\ sortValue \in [PageIds -> SortKeys \cup {Unlisted}]
  /\ cursor = NoCursor
  /\ scan = "before"
  /\ delivered = [id \in PageIds |-> 0]
  /\ steady = {}
  /\ shifts = 0

(* A request for the next page: the cursor of the answer is null when the  *)
(* page reaches the end of the list or is empty.                           *)
NextPage ==
  LET rows == Sorted
      start == Boundary(rows)
      page == SubSeq(rows, start, Min({start + query.limit - 1, Len(rows)}))
      kept == IF scan = "before" THEN Listed ELSE steady
  IN  /\ scan # "over"
      /\ steady' = kept
      /\ delivered' = [id \in PageIds |-> delivered[id] + Cardinality({i \in DOMAIN page : page[i] = id})]
      /\ IF page # <<>> /\ start + Len(page) <= Len(rows)
         THEN /\ cursor' = CursorOf(Last(page))
              /\ scan' = "under way"
         ELSE /\ cursor' = NoCursor
              /\ scan' = "over"
      /\ UNCHANGED <<query, sortValue, shifts>>

(* Between two requests a session comes, goes, or changes what it sorts by *)
(* (its activity, its status).                                             *)
Shifts(id) ==
  /\ scan = "under way" /\ shifts < MaxShifts
  /\ shifts' = shifts + 1
  /\ \E v \in (SortKeys \cup {Unlisted}) \ {sortValue[id]} :
       sortValue' = [sortValue EXCEPT ![id] = v]
  /\ steady' = steady \ {id}
  /\ UNCHANGED <<query, cursor, scan, delivered>>

PagesNext == NextPage \/ \E id \in PageIds : Shifts(id)

PagesSpec == PagesInit /\ [][PagesNext]_pageVars

-----------------------------------------------------------------------------
PagesType ==
  /\ query \in Queries
  /\ sortValue \in [PageIds -> SortKeys \cup {Unlisted}]
  /\ cursor = NoCursor \/ cursor \in [k : SortKeys, id : PageIds]
  /\ scan \in {"before", "under way", "over"}
  /\ delivered \in [PageIds -> Nat]
  /\ steady \subseteq PageIds
  /\ shifts \in 0 .. MaxShifts

(* A session that is listed and sorts by the same value during a whole     *)
(* scan is delivered once, whatever the others do meanwhile; at no time    *)
(* twice.                                                                  *)
SteadyDeliveredOnce ==
  \A id \in steady : delivered[id] <= 1 /\ (scan = "over" => delivered[id] = 1)

PagesInv == PagesType /\ SteadyDeliveredOnce

(* Does not hold: no session is delivered twice. One that becomes active   *)
(* during the scan moves past the cursor and comes again.                  *)
NeverTwice == \A id \in PageIds : delivered[id] <= 1
=============================================================================
