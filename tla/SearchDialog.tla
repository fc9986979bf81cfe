---------------------------- MODULE SearchDialog ----------------------------
(***************************************************************************)
(* The search dialog of a docs page (src/render/search.tsx over the        *)
(* reducer of src/site/search-state.ts).  The shell stays mounted while    *)
(* the reader moves between pages, languages, versions and projects, so    *)
(* one component lives through many sources of an index.                   *)
(*                                                                         *)
(* A handler, the renders its dispatches cause and their effects are one   *)
(* step, because React flushes them together for a reader's event.  What   *)
(* is not part of it is the answer to the fetch, and the `close` event,    *)
(* which the browser queues when a dialog closes and delivers later.       *)
(***************************************************************************)
EXTENDS Integers, FiniteSets

CONSTANTS Sources,  \* a bundle and a language: what names an index
          Queries,
          Blank,    \* the query of nothing but space
          Hits,     \* Hits[s][q] : how many rows index s gives for q
          None

ASSUME SearchAssumption ==
  /\ Blank \in Queries
  /\ Hits \in [Sources -> [Queries -> Nat]]
  /\ \A s \in Sources : Hits[s][Blank] = 0
  /\ None \notin Sources

VARIABLES
  open, query, active, status, \* the reducer's state
  rows,     \* state.results: the index they were scored by, the query and their number
  index,    \* the source of the index in hand
  loading,  \* the ref that is set with the first fetch
  fetching, \* the source of the request that is out
  source,   \* props.bundleBase and props.searchLocale
  dialog,   \* the native dialog is shown
  closing,  \* a `close` event is queued
  chose,    \* the row the reader picked, for the close event
  pressed,  \* the last press began on the backdrop
  focus     \* where focus is

vars == <<open, query, active, status, rows, index, loading, fetching, source,
          dialog, closing, chose, pressed, focus>>

NoRows == [from |-> None, for |-> Blank, count |-> 0]

\* searchIndex(index, query): blank asks nothing.
Scored(s, q) == [from |-> s, for |-> q, count |-> Hits[s][q]]

\* The reducer's `results`: a highlight past the end of the list is dropped.
Clamp(a, count) == IF a < count THEN a ELSE -1

\* From nothing, down is the first row and up the last; then it wraps.
Move(a, delta, count) ==
  LET from == IF a >= 0 THEN a ELSE IF delta > 0 THEN -1 ELSE 0
  IN (from + delta) % count
-----------------------------------------------------------------------------
Init ==
  /\ open = FALSE /\ query = Blank /\ active = -1 /\ status = "idle"
  /\ rows = NoRows
  /\ index = None /\ loading = FALSE /\ fetching = None
  /\ source \in Sources
  /\ dialog = FALSE /\ closing = FALSE
  /\ chose = None /\ pressed = FALSE
  /\ focus = "page"

\* load(): one request, for the source of this moment, the first time only.
Load ==
  IF index # None \/ loading
  THEN UNCHANGED <<loading, fetching, status>>
  ELSE loading' = TRUE /\ fetching' = source /\ status' = "loading"

\* Mutant of Score: the effect does not run again.
ScoreOnce(i, q, a) == rows' = rows /\ active' = a

\* The effect that scores, with index i in hand or none, and a the highlight.
Score(i, q, a) ==
  IF i = None
  THEN rows' = rows /\ active' = a
  ELSE rows' = Scored(i, q) /\ active' = Clamp(a, Hits[i][q])

\* The pointer enters the trigger, or focus does.
Intent(f) ==
  /\ ~dialog
  /\ f \in {focus, "trigger"}
  /\ focus' = f
  /\ Load
  /\ UNCHANGED <<open, query, active, rows, index, source, dialog, closing, chose,
                 pressed>>

FocusPage ==
  /\ ~dialog /\ focus # "page"
  /\ focus' = "page"
  /\ UNCHANGED <<open, query, active, status, rows, index, loading, fetching, source,
                 dialog, closing, chose, pressed>>

\* A click on the trigger, or `/` while the dialog is not shown.  Where the state
\* is open still, because its close event is queued, no effect shows the dialog.
OpenDialog ==
  /\ ~dialog
  /\ open' = TRUE
  /\ Load
  /\ IF open
     THEN active' = -1 /\ UNCHANGED <<rows, dialog, focus>>
     ELSE Score(index, query, -1) /\ dialog' = TRUE /\ focus' = "input"
  /\ UNCHANGED <<query, index, source, closing, chose, pressed>>

\* The index arrives and this runtime can query it.
FetchOk ==
  /\ fetching # None
  /\ index' = fetching
  /\ fetching' = None
  /\ status' = "ready"
  /\ IF open THEN Score(fetching, query, -1) ELSE rows' = NoRows /\ active' = -1
  /\ UNCHANGED <<open, query, loading, source, dialog, closing, chose, pressed, focus>>

\* The request failed, or the index was built for another tokeniser.
FetchFailed ==
  /\ fetching # None
  /\ fetching' = None
  /\ status' = "failed"
  /\ rows' = NoRows
  /\ active' = -1
  /\ UNCHANGED <<open, query, index, loading, source, dialog, closing, chose, pressed,
                 focus>>

Type(q) ==
  /\ dialog /\ focus = "input" /\ q # query
  /\ query' = q
  /\ Score(index, q, -1)
  /\ UNCHANGED <<open, status, index, loading, fetching, source, dialog, closing, chose,
                 pressed, focus>>

Arrow(delta) ==
  /\ dialog /\ focus = "input"
  /\ rows.count > 0
  /\ active' = Move(active, delta, rows.count)
  /\ UNCHANGED <<open, query, status, rows, index, loading, fetching, source, dialog, closing,
                 chose, pressed, focus>>

\* Tab, or a press inside the dialog, moves focus within it.
FocusInside(f) ==
  /\ dialog /\ f # focus
  /\ focus' = f
  /\ UNCHANGED <<open, query, active, status, rows, index, loading, fetching, source, dialog,
                 closing, chose, pressed>>

\* Mutant of CloseNative: nothing listens for the close event.
CloseUnheard ==
  /\ dialog' = FALSE
  /\ focus' \in {"page", "trigger"}
  /\ UNCHANGED <<open, query, active, status, rows, index, loading, fetching, source, closing>>

\* The dialog closes and the browser gives focus back to what had it before.  React
\* learns of it from the event.
CloseNative ==
  /\ dialog' = FALSE
  /\ closing' = TRUE
  /\ focus' \in {"page", "trigger"}
  /\ UNCHANGED <<open, query, active, status, rows, index, loading, fetching, source>>

\* Enter on the highlighted row, or a click on a row: the row's link is followed.
Choose(i) ==
  /\ dialog
  /\ chose' = i
  /\ CloseNative
  /\ UNCHANGED pressed

\* The close button.
Dismiss == dialog /\ chose' = None /\ CloseNative /\ UNCHANGED pressed

\* Escape is the browser's, and sets nothing.
EscapeKey == dialog /\ CloseNative /\ UNCHANGED <<chose, pressed>>

\* A press goes down, on the backdrop or not, and comes up, on it or not.
Press(backdrop) ==
  /\ dialog
  /\ pressed' = backdrop
  /\ UNCHANGED <<open, query, active, status, rows, index, loading, fetching, source, dialog,
                 closing, chose, focus>>

Click(backdrop) ==
  /\ dialog
  /\ pressed' = FALSE
  /\ IF pressed /\ backdrop
     THEN chose' = None /\ CloseNative
     ELSE UNCHANGED <<open, query, active, status, rows, index, loading, fetching, source,
                      dialog, closing, chose, focus>>

\* The one exit: the event is reported, the state is closed and focus goes back to
\* the trigger, whose focus is an intent.
CloseEvent ==
  /\ closing
  /\ closing' = FALSE
  /\ open' = FALSE
  /\ active' = -1
  /\ chose' = None
  /\ focus' = "trigger"
  /\ Load
  /\ UNCHANGED <<query, rows, index, source, dialog, pressed>>

\* The reader goes to another language, version or project.  The shell stays.
Navigate(s) ==
  /\ s # source
  /\ source' = s
  /\ UNCHANGED <<open, query, active, status, rows, index, loading, fetching, dialog, closing,
                 chose, pressed, focus>>

\* What happens on one page.
DialogStep ==
  \/ \E f \in {"page", "trigger"} : Intent(f)
  \/ FocusPage \/ OpenDialog \/ FetchOk \/ FetchFailed
  \/ \E q \in Queries : Type(q)
  \/ \E delta \in {-1, 1} : Arrow(delta)
  \/ \E f \in {"input", "dialog"} : FocusInside(f)
  \/ \E i \in 0..(rows.count - 1) : Choose(i)
  \/ Dismiss \/ EscapeKey
  \/ \E b \in BOOLEAN : Press(b) \/ Click(b)
  \/ CloseEvent

Next == DialogStep \/ \E s \in Sources : Navigate(s)

Spec == Init /\ [][Next]_vars
-----------------------------------------------------------------------------
\* The native dialog and the state agree but for the moment a close event is
\* queued, however opening, Escape and the event interleave; and the event never
\* takes focus out of a dialog that is on show.
DialogFollowsState ==
  /\ dialog => open /\ ~closing /\ focus \in {"input", "dialog"}
  /\ ~closing => (open <=> dialog)

\* The rows on show are those of the index in hand for the words in the input,
\* also when the index arrives late or the dialog is opened again, and the
\* highlight is one of them or none however the list shrank under it.
RowsAnswerTheQuery ==
  /\ dialog /\ index # None => rows = Scored(index, query)
  /\ active \in -1..(rows.count - 1)

\* "The list carries the language its rows are actually in": the list is marked
\* with the language of props.searchLocale and its links are built on
\* props.address, so rows that are scored now have to come from that index.
RowsAreOfThisSource ==
  [][rows' # rows /\ rows'.count > 0 => rows'.from = source']_vars
=============================================================================
