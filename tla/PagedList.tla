------------------------------ MODULE PagedList ------------------------------
(***************************************************************************)
(* A list that grows without bound, cut into pages by the server           *)
(* (core/pagination.py for expenses, the same query once more in           *)
(* notification_service.feed) and put together again by the app            *)
(* (ExpenseList and NotificationFeed).  Rows come and go between any two   *)
(* pages; a page is asked for, answered and applied in separate steps.     *)
(*                                                                         *)
(* Rows are records with a timestamp "at", which several may share, and an *)
(* "id" that is random, so the order of ids says nothing.                  *)
(***************************************************************************)
EXTENDS Integers, Sequences, FiniteSets, SequencesExt

CONSTANTS
  Asked,      \* the limit in the query string
  MaxPage,    \* MAX_PAGE
  MaxFetches, \* bound: page requests under way at once
  MaxShown    \* bound: rows in the list when it asks for more

ASSUME PageAssumption ==
  /\ Asked \in Int /\ MaxPage \in Nat \ {0}
  /\ MaxFetches \in Nat /\ MaxShown \in Nat

VARIABLES
  rows,     \* the table, as far as the query selects it
  shown,    \* ids in the app's list, top to bottom
  cursor,   \* the app's _cursor: the key of the last row, or NoKey
  fetches,  \* page requests under way
  base,     \* ghost: ids in the table when the first page was answered
  clean     \* ghost: no page of an older build has been mixed in

listVars == <<shown, cursor, fetches, base, clean>>

NoKey    == <<>>
Key(row) == <<row.at, row.id>>

\* ORDER BY at DESC, id DESC, and the row comparison with the cursor.
Newer(r, s) == r.at > s.at \/ (r.at = s.at /\ r.id > s.id)

Sorted(found) ==
  CHOOSE s \in [1..Cardinality(found) -> found] :
    \A a, b \in DOMAIN s : a < b => Newer(s[a], s[b])

\* Mutant of Below: the cursor is a timestamp alone.
BelowStamp(row, key) == key = NoKey \/ row.at < key[1]

Below(row, key) ==
  key = NoKey \/ row.at < key[1] \/ (row.at = key[1] /\ row.id < key[2])

PageSize == Max({1, Min({Asked, MaxPage})})

\* One row more than asked for is fetched: it says whether there is a next page.
Page(before) ==
  LET found == Sorted({row \in rows : Below(row, before)})
      last  == Min({PageSize, Len(found)})
  IN [items |-> [i \in 1..last |-> found[i].id],
      next  |-> IF Len(found) > PageSize THEN Key(found[PageSize]) ELSE NoKey]

-----------------------------------------------------------------------------
(***************************************************************************)
(* A fetch is of the first page (build) or of the next one (loadMore); it  *)
(* is current until a refresh starts another build.                        *)
(***************************************************************************)
Ask(kind, before, current) ==
  [kind |-> kind, before |-> before, current |-> current, done |-> FALSE,
   page |-> [items |-> <<>>, next |-> NoKey], base |-> {}]

Building    == \E f \in fetches : f.kind = "first" /\ f.current
LoadingMore == \E f \in fetches : f.kind = "more" /\ f.current

\* ref.invalidate: build runs again while the old list stays on screen.
Refresh ==
  /\ Cardinality(fetches) < MaxFetches
  /\ fetches' = {[f EXCEPT !.current = FALSE] : f \in fetches}
                  \cup {Ask("first", NoKey, TRUE)}
  /\ UNCHANGED <<rows, shown, cursor, base, clean>>

\* Scrolling near the end; _loadingMore lets one such request out at a time.
LoadMore ==
  /\ cursor # NoKey /\ ~LoadingMore
  /\ Cardinality(fetches) < MaxFetches /\ Len(shown) < MaxShown
  /\ fetches' = fetches \cup {Ask("more", cursor, ~Building)}
  /\ UNCHANGED <<rows, shown, cursor, base, clean>>

AnswerPage ==
  \E f \in fetches :
    /\ ~f.done
    /\ fetches' = (fetches \ {f}) \cup
         {[f EXCEPT !.done = TRUE, !.page = Page(f.before),
                    !.base = IF f.kind = "first" THEN {row.id : row \in rows} ELSE {}]}
    /\ UNCHANGED <<rows, shown, cursor, base, clean>>

ApplyPage ==
  \E f \in fetches :
    /\ f.done /\ f.current
    /\ fetches' = fetches \ {f}
    /\ cursor' = f.page.next
    /\ IF f.kind = "first"
       THEN shown' = f.page.items /\ base' = f.base /\ clean' = TRUE
       ELSE shown' = shown \o f.page.items /\ UNCHANGED <<base, clean>>
    /\ UNCHANGED rows

(***************************************************************************)
(* What an overtaken build or loadMore still does depends on whether the   *)
(* provider library has made a new notifier for the new build: nothing, or *)
(* everything but showing the overtaken first page.                        *)
(***************************************************************************)
ApplyOvertaken ==
  \E f \in fetches :
    /\ f.done /\ ~f.current
    /\ fetches' = fetches \ {f}
    /\ \/ UNCHANGED <<shown, cursor, base, clean>>
       \/ /\ cursor' = f.page.next /\ base' = {} /\ clean' = FALSE
          /\ shown' = IF f.kind = "more" THEN shown \o f.page.items ELSE shown
    /\ UNCHANGED rows

\* No answer: the list stays exactly as it was.
LosePage ==
  \E f \in fetches :
    /\ fetches' = fetches \ {f}
    /\ UNCHANGED <<rows, shown, cursor, base, clean>>

ListInit ==
  /\ shown = <<>> /\ cursor = NoKey /\ fetches = {} /\ base = {} /\ clean = TRUE

ListNext == Refresh \/ LoadMore \/ AnswerPage \/ ApplyPage \/ ApplyOvertaken \/ LosePage

-----------------------------------------------------------------------------
\* Scrolling through a list that changes underneath shows no row twice, and skips
\* none that was there from the first page on and still is: whatever lies above the
\* cursor, or everything at the end of the list, has been shown (keyset pagination
\* on (at, id), ties included).  A refresh that overlaps a page under way may spoil
\* that until the next refresh.
WalkIsFaithful ==
  clean => /\ IsInjective(shown)
           /\ \A row \in rows :
                row.id \in base /\ (cursor = NoKey \/ ~Below(row, cursor))
                  => row.id \in ToSet(shown)
==============================================================================
