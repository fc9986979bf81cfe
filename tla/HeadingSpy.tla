----------------------------- MODULE HeadingSpy -----------------------------
(***************************************************************************)
(* Scroll spy (useHeadingSpy in src/render/client.ts): which heading the   *)
(* outline marks as the one the reader is in.  An IntersectionObserver     *)
(* reports the headings that crossed the line since the frame before, and  *)
(* its callback runs later, maybe after more scrolling.  A scroll listener *)
(* asks only whether the page is at its end.                               *)
(*                                                                         *)
(* Positions are in rows.  A page is its height and the tops of its        *)
(* headings, in document order; a heading is its place in that order.      *)
(***************************************************************************)
EXTENDS Integers, Sequences

CONSTANTS Articles, \* the pages a reader goes between, each a sequence of layouts
          Screen,   \* the height of the viewport
          Line,     \* the rows from its top to the line, 30% of it
          Margin,   \* how far the observer's root reaches above it, 100000px
          Stops     \* bound: the offsets a reader scrolls to

ASSUME SpyAssumption ==
  /\ Screen \in Nat /\ Line \in 0..Screen /\ Margin \in Nat
  /\ Stops \subseteq Nat /\ 0 \in Stops
  /\ Articles \subseteq Seq([height : Nat, tops : Seq(Nat)])
  /\ \A a \in Articles :
       /\ a # <<>>
       /\ \A i \in DOMAIN a : /\ a[i].height >= Screen
                             /\ Len(a[i].tops) = Len(a[1].tops)

VARIABLES
  article, \* the page on show: its layouts, folded and unfolded
  layout,  \* which of them it has
  y,       \* window.scrollY
  framed,  \* where it was in the last frame
  drawn,   \* and the layout that frame showed
  known,   \* the last state of each heading the observer reported, if any
  entries, \* the entries that wait for the callback: what the last of each says
  seen,    \* the headings of `seen`
  atEnd,
  marked,  \* active.current, a place in the order of `of`, or 0
  stale,   \* history: the layout changed since the last scroll or resize
  far      \* history: a heading moved further than the margin between two frames

spy == <<article, layout, y, framed, drawn, known, entries, seen, atEnd, marked, stale, far>>

Shown == article[layout]
Headings == DOMAIN Shown.tops
Top(h) == Shown.tops[h] - y

\* Where the last frame found it.
TopDrawn(h) == article[drawn].tops[h] - framed

\* Mutant of Intersects: the root ends at the top of the viewport.
IntersectsViewport(h) == Top(h) >= 0 /\ Top(h) <= Line

\* rootMargin "100000px 0px -70% 0px" around the document's viewport.
Intersects(h) == Top(h) >= -Margin /\ Top(h) <= Line

\* Scrolled at all, and as far as it goes.
End == y > 0 /\ y + Screen >= Shown.height

\* activeHeading: the last of the headings, in document order.
Last(headings) == IF headings = {} THEN 0 ELSE CHOOSE h \in headings : \A g \in headings : g <= h

Decide(end, passed) == IF end THEN Len(Shown.tops) ELSE Last(passed)

Unreported == [h \in Headings |-> "new"]
NoEntries == [h \in Headings |-> "none"]

Reach(a, i) == {s \in Stops : s + Screen <= a[i].height}

\* A subscription of the page `a` at offset s: a new observer, and measureEnd.
\* What was marked stays until something else is decided.
Subscribe(a, s) ==
  /\ article' = a /\ layout' = 1 /\ y' = s /\ framed' = s /\ drawn' = 1
  /\ known' = [h \in DOMAIN a[1].tops |-> "new"]
  /\ entries' = [h \in DOMAIN a[1].tops |-> "none"]
  /\ seen' = {} /\ stale' = FALSE /\ far' = FALSE
  /\ LET end == s > 0 /\ s + Screen >= a[1].height /\ a[1].tops # <<>>
     IN  atEnd' = end /\ marked' = IF end THEN Len(a[1].tops) ELSE marked

SpyInit ==
  /\ article \in Articles /\ layout = 1 /\ y = 0 /\ framed = 0 /\ drawn = 1
  /\ known = Unreported /\ entries = NoEntries
  /\ seen = {} /\ atEnd = FALSE /\ marked = 0 /\ stale = FALSE /\ far = FALSE
-----------------------------------------------------------------------------
\* The reader, a link, or a restored position scrolls the page.
Scroll(s) ==
  /\ s \in Reach(article, layout) \ {y}
  /\ y' = s
  /\ UNCHANGED <<article, layout, framed, drawn, known, entries, seen, atEnd, marked, stale, far>>

\* measureEnd, which decides when the answer changed.
MeasureEnd ==
  /\ atEnd' = End
  /\ marked' = IF End = atEnd THEN marked ELSE Decide(End, seen)

\* A frame: the scroll event if the page scrolled, then the observer compares
\* every heading with what it reported last and queues an entry for a change.
\* An entry leaves its heading in `seen` unless it says below the line.
Frame ==
  /\ Headings # {}
  /\ \/ y # framed /\ MeasureEnd /\ stale' = FALSE
     \/ y = framed /\ UNCHANGED <<atEnd, marked, stale>>
  /\ LET now     == [h \in Headings |-> IF Intersects(h) THEN "in" ELSE "out"]
         changed == {h \in Headings : now[h] # known[h]}
     IN  /\ y # framed \/ changed # {}
         /\ known' = now
         /\ entries' = [h \in Headings |->
                          IF h \notin changed THEN entries[h]
                          ELSE IF ~Intersects(h) /\ Top(h) > 0 THEN "below" ELSE "passed"]
  /\ far' = (far \/ \E h \in Headings : Top(h) - TopDrawn(h) \notin -Margin..Margin)
  /\ framed' = y /\ drawn' = layout
  /\ UNCHANGED <<article, layout, y, seen>>

\* The observer's callback, over every entry that waited.
Callback ==
  /\ \E h \in Headings : entries[h] # "none"
  /\ seen' = {h \in Headings : entries[h] = "passed" \/ (entries[h] = "none" /\ h \in seen)}
  /\ entries' = NoEntries
  /\ marked' = Decide(atEnd, seen')
  /\ UNCHANGED <<article, layout, y, framed, drawn, known, atEnd, stale, far>>

\* A `:more` or a disclosure is opened or closed: the page below it moves, and
\* no scroll event says so.
Unfold ==
  /\ layout' \in DOMAIN article \ {layout}
  /\ y + Screen <= article[layout'].height
  /\ stale' = TRUE
  /\ UNCHANGED <<article, y, framed, drawn, known, entries, seen, atEnd, marked, far>>

\* A client-side navigation: the headings change under the mounted hook.
GoTo(a, s) ==
  /\ a # article /\ s \in Reach(a, 1)
  /\ Subscribe(a, s)

SpyNext ==
  \/ \E s \in Stops : Scroll(s)
  \/ Frame \/ Callback \/ Unfold
  \/ \E a \in Articles, s \in Stops : GoTo(a, s)
-----------------------------------------------------------------------------
\* Nothing waits for a frame or a callback.
Settled ==
  /\ y = framed
  /\ entries = NoEntries
  /\ \A h \in Headings : known[h] = IF Intersects(h) THEN "in" ELSE "out"

\* Once the browser has caught up, the marked heading is the last one whose top
\* has passed the line, or the last of the page at its end, whatever moves no
\* longer than the margin, layout changes and navigations came before.
NamesTheReader ==
  Settled /\ Headings # {} /\ ~stale /\ ~far
    => marked = Decide(End, {h \in Headings : Top(h) <= Line})
=============================================================================
