------------------------------ MODULE Preview ------------------------------
(***************************************************************************)
(* The hover and focus previews of the `:more` marks of a page             *)
(* (src/render/client.ts usePreview, src/render/more.tsx).  Every mark has *)
(* two refs that say why its preview should stay, one timer that opens or  *)
(* closes it later, and one function that closes it; `current` is shared   *)
(* by all of them.                                                         *)
(*                                                                         *)
(* `pointer` and `focusOn` are where the reader really is; `hovered` and   *)
(* `focused` are what the handlers were told.  They part where an event is *)
(* not delivered: a revealed mark has no handlers, and an element that is  *)
(* removed takes the focus with it without a blur.                         *)
(***************************************************************************)
EXTENDS Naturals, FiniteSets

CONSTANTS Marks,     \* the positions of `:more` marks, one component each
          Pages,     \* payloads; a mark's node is its position on a payload
          NoMark,    \* no page, no mark, focus on nothing of a mark's
          FixupBlurs \* what engines do when the focused element is hidden: a blur, or none

ASSUME PreviewAssumption ==
  /\ NoMark \notin Marks \cup Pages \cup (Marks \X {"mark", "inside"})
  /\ Pages # {}
  /\ FixupBlurs \subseteq BOOLEAN

VARIABLES
  ref,      \* the refs of each component: timer, opened, hovered, focused, seen
  current,  \* the mark whose preview is the open one
  revealed, \* revealed[m] : the page whose node was revealed at m
  page,     \* the payload on show
  screen,   \* the marks inside the viewport
  pointer,  \* the mark whose wrapper the mouse is in
  focusOn   \* <<mark, "mark">>, <<mark, "inside">>, or NoMark

previewVars == <<ref, current, revealed, page, screen, pointer, focusOn>>

Fresh == [timer |-> "none", opened |-> FALSE, hovered |-> FALSE, focused |-> FALSE,
          seen |-> FALSE]

\* Where focus can be.
Places == (Marks \X {"mark", "inside"}) \cup {NoMark}

\* `revealed === node`: the text is in the cell and the wrapper has no handlers.
Open(m) == revealed[m] = page

InFocus(m) == focusOn # NoMark /\ focusOn[1] = m

\* The effects of the hook's functions, on a view [ref, current].
View == [ref |-> ref, current |-> current]
Commit(v) == ref' = v.ref /\ current' = v.current

Clear(v, m) == [v EXCEPT !.ref[m].timer = "none"]
Arm(v, m, what) == [v EXCEPT !.ref[m].timer = what]

Hide(v, m) ==
  [ref |-> [v.ref EXCEPT ![m].timer = "none", ![m].opened = FALSE],
   current |-> IF v.current = m THEN NoMark ELSE v.current]

\* Mutant of HideOther: `current` is not asked to close.
HideNoOther(v, m) == v

HideOther(v, m) ==
  IF v.current \notin {NoMark, m} THEN Hide(v, v.current) ELSE v

\* Only called where the mark has its handlers, or from a timer they armed.
Show(v, m) ==
  LET c == Clear(v, m)
  IN IF Open(m) \/ v.ref[m].opened
     THEN c
     ELSE LET h == HideOther(c, m)
          IN [ref |-> [h.ref EXCEPT ![m].opened = TRUE, ![m].seen = m \in screen],
              current |-> m]

OnPointerEnter(v, m) ==
  LET e == Clear([v EXCEPT !.ref[m].hovered = TRUE], m)
  IN IF v.ref[m].opened THEN e ELSE Arm(e, m, "show")

\* Mutant of OnPointerLeave: leaving arms no timer.
LeaveUnarmed(v, m) == Clear([v EXCEPT !.ref[m].hovered = FALSE], m)

OnPointerLeave(v, m) ==
  LET e == Clear([v EXCEPT !.ref[m].hovered = FALSE], m)
  IN IF v.ref[m].focused THEN e ELSE Arm(e, m, "hide")

\* `visible`: the target is the mark and matches :focus-visible.
OnFocus(v, m, visible) ==
  LET f == [v EXCEPT !.ref[m].focused = TRUE]
  IN IF visible THEN Show(f, m) ELSE f

\* Mutant of OnBlur: focus leaving closes nothing.
BlurKeeping(v, m) == [v EXCEPT !.ref[m].focused = FALSE]

\* Mutant of OnBlur: what leaves is noted only where it closes the preview.
BlurUnlessHovered(v, m) ==
  IF v.ref[m].hovered THEN v ELSE Hide([v EXCEPT !.ref[m].focused = FALSE], m)

OnBlur(v, m) ==
  LET b == [v EXCEPT !.ref[m].focused = FALSE]
  IN IF v.ref[m].hovered THEN b ELSE Hide(b, m)

\* The blur the focused element sends when focus goes to mark m's wrapper.
Blurred(v, m) ==
  IF focusOn = NoMark \/ InFocus(m) THEN v
  ELSE IF Open(focusOn[1]) THEN v
  ELSE OnBlur(v, focusOn[1])
-----------------------------------------------------------------------------
PreviewInit ==
  /\ ref = [m \in Marks |-> Fresh]
  /\ current = NoMark
  /\ revealed = [m \in Marks |-> NoMark]
  /\ page \in Pages
  /\ screen \in SUBSET Marks
  /\ pointer = NoMark
  /\ focusOn = NoMark

\* The mouse comes to the wrapper of m, which is mark and preview.
Enter(m) ==
  /\ pointer = NoMark
  /\ pointer' = m
  /\ Commit(IF Open(m) THEN View ELSE OnPointerEnter(View, m))
  /\ UNCHANGED <<revealed, page, screen, focusOn>>

Leave(m) ==
  /\ pointer = m
  /\ pointer' = NoMark
  /\ Commit(IF Open(m) THEN View ELSE OnPointerLeave(View, m))
  /\ UNCHANGED <<revealed, page, screen, focusOn>>

\* setTimeout(show, PREVIEW_OPEN_DELAY)
OpenDelay(m) ==
  /\ ref[m].timer = "show"
  /\ Commit(Show(View, m))
  /\ UNCHANGED <<revealed, page, screen, pointer, focusOn>>

\* setTimeout(hide, PREVIEW_CLOSE_DELAY)
CloseDelay(m) ==
  /\ ref[m].timer = "hide"
  /\ Commit(Hide(View, m))
  /\ UNCHANGED <<revealed, page, screen, pointer, focusOn>>

\* The keyboard, a press or a script puts focus on the mark of m.
FocusMark(m) ==
  /\ ~Open(m)
  /\ focusOn # <<m, "mark">>
  /\ focusOn' = <<m, "mark">>
  /\ \E visible \in BOOLEAN : Commit(OnFocus(Blurred(View, m), m, visible))
  /\ UNCHANGED <<revealed, page, screen, pointer>>

\* Focus comes to a link in the text of m, which is open as a preview or revealed.
FocusLink(m) ==
  /\ Open(m) \/ ref[m].opened
  /\ focusOn # <<m, "inside">>
  /\ focusOn' = <<m, "inside">>
  /\ LET b == Blurred(View, m) IN Commit(IF Open(m) THEN b ELSE OnFocus(b, m, FALSE))
  /\ UNCHANGED <<revealed, page, screen, pointer>>

FocusElsewhere ==
  /\ focusOn # NoMark
  /\ focusOn' = NoMark
  /\ Commit(Blurred(View, NoMark))
  /\ UNCHANGED <<revealed, page, screen, pointer>>

\* The browser takes focus off an element inside a preview that has been closed.
FocusFixup(m) ==
  /\ focusOn = <<m, "inside">>
  /\ ~Open(m) /\ ~ref[m].opened
  /\ focusOn' = NoMark
  /\ \E blurs \in FixupBlurs : Commit(IF blurs THEN OnBlur(View, m) ELSE View)
  /\ UNCHANGED <<revealed, page, screen, pointer>>

\* Escape reaches the document's handler of the open preview.
Escape ==
  /\ current # NoMark
  /\ Commit(Hide(View, current))
  /\ UNCHANGED <<revealed, page, screen, pointer, focusOn>>

\* A scroll or a resize: an open preview follows its mark, and closes when a mark
\* that was on screen is no longer.
ScrollTo(s) ==
  /\ screen' = s
  /\ Commit(IF current = NoMark THEN View
            ELSE IF current \notin s /\ ref[current].seen THEN Hide(View, current)
            ELSE [View EXCEPT !.ref[current].seen = @ \/ current \in s])
  /\ UNCHANGED <<revealed, page, pointer, focusOn>>

\* A click, a tap or Enter: the mark is replaced by the text, which takes focus.
\* The handlers go with it, and a mark that is removed sends no blur.
Reveal(m) ==
  /\ ~Open(m)
  /\ revealed' = [revealed EXCEPT ![m] = page]
  /\ focusOn' = <<m, "inside">>
  /\ Commit(Blurred(Hide(View, m), m))
  /\ UNCHANGED <<page, screen, pointer>>

\* Mutant of Carried: the effect does not depend on `enabled`.
CarriedWithoutEffect(v, m, kept, next) ==
  IF m \notin kept THEN [Hide(v, m) EXCEPT !.ref[m] = Fresh] ELSE v

\* A component whose `enabled` changes runs the effect that hides; one that is not
\* mounted again loses its refs with it.
Carried(v, m, kept, next) ==
  IF m \notin kept
  THEN [Hide(v, m) EXCEPT !.ref[m] = Fresh]
  ELSE IF Open(m) = (revealed[m] = next) THEN v ELSE Hide(v, m)

\* Where focus can be after a navigation.  A mark that stays folded keeps it, a
\* link in the text may be reused or not, and everything else that had it is gone.
FocusAfter(next, kept) ==
  IF focusOn = NoMark \/ focusOn[1] \notin kept THEN {NoMark}
  ELSE IF Open(focusOn[1]) \/ revealed[focusOn[1]] = next THEN {NoMark}
  ELSE IF focusOn[2] = "mark" THEN {focusOn} ELSE {focusOn, NoMark}

\* Every component after the commit and its own effects.
AfterCommit(next, kept) ==
  LET after(m) == Carried(View, m, kept, next).ref[m]
  IN [ref |-> [m \in Marks |-> after(m)],
      current |-> IF current # NoMark /\ after(current).opened THEN current ELSE NoMark]

\* The next page's payload arrives.  React keeps the component of a position the
\* new tree also has, and sends no blur for what it removes.  The shell then moves
\* focus into the article, unless slug, title and language are the same
\* (useNavigationAnnounce), and that does blur a mark or a link that stayed.
NavigateTo(next, kept) ==
  /\ next # page
  /\ page' = next
  /\ revealed' = [m \in Marks |-> IF m \in kept THEN revealed[m] ELSE NoMark]
  /\ \E f \in FocusAfter(next, kept), announced \in BOOLEAN :
       LET v == AfterCommit(next, kept)
       IN IF announced /\ f # NoMark
          THEN focusOn' = NoMark /\ Commit(OnBlur(v, f[1]))
          ELSE focusOn' = f /\ Commit(v)
  /\ pointer' = IF pointer \in kept THEN pointer ELSE NoMark
  /\ UNCHANGED screen

Timers(m) == OpenDelay(m) \/ CloseDelay(m)

Reader ==
  \/ \E m \in Marks : Enter(m) \/ Leave(m) \/ FocusMark(m) \/ FocusLink(m)
                      \/ FocusFixup(m) \/ Reveal(m)
  \/ FocusElsewhere
  \/ Escape
  \/ \E s \in SUBSET Marks : ScrollTo(s)
  \/ \E next \in Pages, kept \in SUBSET Marks : NavigateTo(next, kept)

PreviewNext == Reader \/ \E m \in Marks : Timers(m)

\* A timer that is not cleared fires.
PreviewSpec == PreviewInit /\ [][PreviewNext]_previewVars /\ \A m \in Marks : WF_previewVars(Timers(m))
-----------------------------------------------------------------------------
\* "Only one preview is ever open", and `current` is the one: no interleaving of
\* timers, focus and navigation leaves an open preview that the next one, or
\* Escape, would not close.
OneOpen == \A m \in Marks : ref[m].opened <=> current = m

\* A preview is never open over text that is revealed in place, and no timer is
\* left that would open one there.
NeverOverRevealed ==
  \A m \in Marks : Open(m) => ~ref[m].opened /\ ref[m].timer # "show"

\* "Hover and focus are two separate reasons to stay open": an open preview whose
\* handlers know of neither is about to close.
OpenIsAccountedFor ==
  \A m \in Marks : ref[m].opened =>
    ref[m].hovered \/ ref[m].focused \/ ref[m].timer = "hide"

\* What the handlers believe and is no longer so, because an event did not come.
MissedLeave(m) == ref[m].hovered /\ pointer # m
MissedBlur(m) == ref[m].focused /\ ~InFocus(m)

\* The refs part from the reader only where the code takes a handler or an element
\* away: the mouse leaves a revealed mark, or the focus was on one, on what the
\* navigation removes, or in a preview that has closed.  Everywhere else, whatever
\* mark the reader comes from or goes to, each of the two is heard.
MissedOnlyOnRemoval ==
  [][\A m \in Marks :
       /\ MissedLeave(m)' => MissedLeave(m) \/ Open(m)
       /\ MissedBlur(m)' =>
            \/ MissedBlur(m) \/ Open(m) \/ page' # page
            \/ focusOn = <<m, "inside">> /\ ~ref[m].opened]_previewVars

\* A preview the mouse and the keyboard have left for good closes in the end,
\* whichever left last, unless a leave or a blur of its mark was missed: then it may
\* stay, although "it closes when neither holds".
LeftAloneCloses ==
  \A m \in Marks :
    <>[](pointer # m /\ ~InFocus(m) /\ ~MissedLeave(m) /\ ~MissedBlur(m))
      => <>[](~ref[m].opened)
=============================================================================
