---------------------------- MODULE ShellProofs ----------------------------
(***************************************************************************)
(* Proofs about what opens over a page: the previews of its links, first,  *)
(* and the search dialog in its shell, for any marks, pages, indexes,      *)
(* queries and articles.                                                   *)
(*                                                                         *)
(* What two properties say of a dialog on show is not inductive.  They     *)
(* need to know of a dialog that is closed: that a queued close event      *)
(* belongs to a state that is still open, so that no second dialog is      *)
(* shown before the event has run, and that a request is only ever out     *)
(* while no index is in hand, so that a failure has no rows to take away.  *)
(***************************************************************************)
EXTENDS Shell, Preview, TLAPS
-----------------------------------------------------------------------------
(***************************************************************************)
(* The previews of a page, for any number of marks and pages and both      *)
(* answers of a browser to the removal of a focused element.               *)
(*                                                                         *)
(* The handlers call one another, and a step of the reader may call two of *)
(* them in a row.  So what they keep is stated of a view, the refs and     *)
(* `current` between two calls, and each function of the hook has a lemma. *)
(***************************************************************************)
Refs == [timer : {"none", "show", "hide"}, opened : BOOLEAN, hovered : BOOLEAN,
         focused : BOOLEAN, seen : BOOLEAN]
Views == [ref : [Marks -> Refs], current : Marks \cup {NoMark}]

\* One preview is open, and it is the current one.
Single(v) == \A m \in Marks : v.ref[m].opened <=> v.current = m

\* A preview has a reason to be open, or to be about to open.
Reasoned(v, m) ==
  /\ v.ref[m].opened => v.ref[m].hovered \/ v.ref[m].focused \/ v.ref[m].timer = "hide"
  /\ v.ref[m].timer = "show" => v.ref[m].hovered

\* A mark that is revealed has no preview, and none will open.
Covered(v, S) == \A m \in S : ~v.ref[m].opened /\ v.ref[m].timer # "show"

Good(v, S) ==
  v \in Views /\ Single(v) /\ (\A m \in Marks : Reasoned(v, m)) /\ Covered(v, S)

\* The marks whose text is in the cell.
Revealed == {m \in Marks : Open(m)}

PInv ==
  /\ Good(View, Revealed)
  /\ revealed \in [Marks -> Pages \cup {NoMark}]
  /\ page \in Pages
  /\ focusOn \in Places
-----------------------------------------------------------------------------
USE PreviewAssumption

\* `timer` of one mark is set.
LEMMA SetTimer ==
  ASSUME NEW v \in Views, NEW m \in Marks, NEW x \in {"none", "show", "hide"}, NEW w,
         w = [v EXCEPT !.ref[m].timer = x]
  PROVE  /\ w \in Views /\ w.current = v.current /\ w.ref[m].timer = x
         /\ w.ref[m].opened = v.ref[m].opened /\ w.ref[m].hovered = v.ref[m].hovered /\ w.ref[m].focused = v.ref[m].focused
         /\ \A n \in Marks \ {m} : w.ref[n] = v.ref[n]
<1> DEFINE r == [v.ref[m] EXCEPT !.timer = x]
<1>1. v.ref[m] \in Refs
  BY DEF Views
<1>2. r \in Refs /\ r.timer = x /\ r.opened = v.ref[m].opened /\ r.hovered = v.ref[m].hovered /\ r.focused = v.ref[m].focused
  BY <1>1 DEF Refs
<1>3. w = [v EXCEPT !.ref[m] = r]
  OBVIOUS
<1> HIDE DEF r
<1> QED BY <1>2, <1>3 DEF Views

\* `hovered` of one mark is set.
LEMMA SetHovered ==
  ASSUME NEW v \in Views, NEW m \in Marks, NEW x \in BOOLEAN, NEW w,
         w = [v EXCEPT !.ref[m].hovered = x]
  PROVE  /\ w \in Views /\ w.current = v.current /\ w.ref[m].hovered = x
         /\ w.ref[m].timer = v.ref[m].timer /\ w.ref[m].opened = v.ref[m].opened /\ w.ref[m].focused = v.ref[m].focused
         /\ \A n \in Marks \ {m} : w.ref[n] = v.ref[n]
<1> DEFINE r == [v.ref[m] EXCEPT !.hovered = x]
<1>1. v.ref[m] \in Refs
  BY DEF Views
<1>2. r \in Refs /\ r.hovered = x /\ r.timer = v.ref[m].timer /\ r.opened = v.ref[m].opened /\ r.focused = v.ref[m].focused
  BY <1>1 DEF Refs
<1>3. w = [v EXCEPT !.ref[m] = r]
  OBVIOUS
<1> HIDE DEF r
<1> QED BY <1>2, <1>3 DEF Views

\* `focused` of one mark is set.
LEMMA SetFocused ==
  ASSUME NEW v \in Views, NEW m \in Marks, NEW x \in BOOLEAN, NEW w,
         w = [v EXCEPT !.ref[m].focused = x]
  PROVE  /\ w \in Views /\ w.current = v.current /\ w.ref[m].focused = x
         /\ w.ref[m].timer = v.ref[m].timer /\ w.ref[m].opened = v.ref[m].opened /\ w.ref[m].hovered = v.ref[m].hovered
         /\ \A n \in Marks \ {m} : w.ref[n] = v.ref[n]
<1> DEFINE r == [v.ref[m] EXCEPT !.focused = x]
<1>1. v.ref[m] \in Refs
  BY DEF Views
<1>2. r \in Refs /\ r.focused = x /\ r.timer = v.ref[m].timer /\ r.opened = v.ref[m].opened /\ r.hovered = v.ref[m].hovered
  BY <1>1 DEF Refs
<1>3. w = [v EXCEPT !.ref[m] = r]
  OBVIOUS
<1> HIDE DEF r
<1> QED BY <1>2, <1>3 DEF Views

\* The ref of a pointer that comes is set.
LEMMA Hovers ==
  ASSUME NEW v \in Views, NEW m \in Marks, NEW w, w = [v EXCEPT !.ref[m].hovered = TRUE]
  PROVE  w.ref[m].hovered
<1> DEFINE r == [v.ref[m] EXCEPT !.hovered = TRUE]
<1>1. v.ref[m] \in Refs
  BY DEF Views
<1>2. r.hovered
  BY <1>1 DEF Refs
<1>3. w = [v EXCEPT !.ref[m] = r]
  OBVIOUS
<1> HIDE DEF r
<1>4. w.ref[m] = r
  BY <1>3 DEF Views
<1> QED BY <1>2, <1>4

\* The ref of a focus that comes is set.
LEMMA Focuses ==
  ASSUME NEW v \in Views, NEW m \in Marks, NEW w, w = [v EXCEPT !.ref[m].focused = TRUE]
  PROVE  w.ref[m].focused
<1> DEFINE r == [v.ref[m] EXCEPT !.focused = TRUE]
<1>1. v.ref[m] \in Refs
  BY DEF Views
<1>2. r.focused
  BY <1>1 DEF Refs
<1>3. w = [v EXCEPT !.ref[m] = r]
  OBVIOUS
<1> HIDE DEF r
<1>4. w.ref[m] = r
  BY <1>3 DEF Views
<1> QED BY <1>2, <1>4

\* `hide` closes one preview and leaves the refs of every other mark.
LEMMA HideOne ==
  ASSUME NEW v \in Views, Single(v), NEW m \in Marks
  PROVE  /\ Hide(v, m) \in Views /\ Single(Hide(v, m))
         /\ ~Hide(v, m).ref[m].opened /\ Hide(v, m).ref[m].timer = "none"
         /\ Hide(v, m).ref[m].hovered = v.ref[m].hovered
         /\ Hide(v, m).ref[m].focused = v.ref[m].focused
         /\ \A n \in Marks \ {m} : Hide(v, m).ref[n] = v.ref[n]
         /\ Hide(v, m).current # m
<1> DEFINE h == Hide(v, m)
           r == [v.ref[m] EXCEPT !.timer = "none", !.opened = FALSE]
<1>1. v.ref \in [Marks -> Refs] /\ v.current \in Marks \cup {NoMark}
  BY DEF Views
<1>2. /\ r \in Refs /\ r.timer = "none" /\ r.opened = FALSE
      /\ r.hovered = v.ref[m].hovered /\ r.focused = v.ref[m].focused
  BY <1>1 DEF Refs
<1>3. h.ref = [v.ref EXCEPT ![m] = r] /\ h.current = (IF v.current = m THEN NoMark ELSE v.current)
  BY <1>1 DEF Hide
<1>4. h = [ref |-> h.ref, current |-> h.current]
  BY DEF Hide
<1> HIDE DEF h, r
<1>5. /\ h.ref \in [Marks -> Refs] /\ h.ref[m] = r
      /\ \A n \in Marks \ {m} : h.ref[n] = v.ref[n]
      /\ h.current \in Marks \cup {NoMark} /\ h.current # m
  BY <1>1, <1>2, <1>3
<1>6. h \in Views
  BY <1>4, <1>5 DEF Views
<1>7. Single(h)
  BY <1>1, <1>2, <1>3, <1>5 DEF Single
<1> QED BY <1>2, <1>5, <1>6, <1>7 DEF h

LEMMA HideGood ==
  ASSUME NEW S \in SUBSET Marks, NEW v, Good(v, S), NEW m \in Marks
  PROVE  Good(Hide(v, m), S)
<1>1. v \in Views /\ Single(v)
  BY DEF Good
<1> DEFINE h == Hide(v, m)
<1>2. /\ h \in Views /\ Single(h) /\ ~h.ref[m].opened /\ h.ref[m].timer = "none"
      /\ \A n \in Marks \ {m} : h.ref[n] = v.ref[n]
  BY <1>1, HideOne
<1> HIDE DEF h
<1>3. \A n \in Marks : Reasoned(h, n)
  BY <1>2 DEF Good, Reasoned
<1>4. Covered(h, S)
  BY <1>2 DEF Good, Covered
<1> QED BY <1>2, <1>3, <1>4 DEF Good, h

\* Setting the refs of a mark keeps what is good, if the mark has its reasons.
LEMMA SetGood ==
  ASSUME NEW S \in SUBSET Marks, NEW v, Good(v, S), NEW m \in Marks, NEW w \in Views,
         w.current = v.current,
         \A n \in Marks \ {m} : w.ref[n] = v.ref[n],
         w.ref[m].opened = v.ref[m].opened,
         Reasoned(w, m),
         m \in S => w.ref[m].timer # "show"
  PROVE  Good(w, S)
<1>1. Single(w)
  BY DEF Good, Single, Views
<1>2. \A n \in Marks : Reasoned(w, n)
  BY DEF Good, Reasoned
<1>3. Covered(w, S)
  BY DEF Good, Covered
<1> QED BY <1>1, <1>2, <1>3 DEF Good

\* `onPointerEnter`, where the mark has its handlers.
LEMMA EnterGood ==
  ASSUME NEW S \in SUBSET Marks, NEW v, Good(v, S), NEW m \in Marks \ S
  PROVE  Good(OnPointerEnter(v, m), S)
<1> DEFINE w == OnPointerEnter(v, m)
           a == [v EXCEPT !.ref[m].hovered = TRUE]
           e == Clear(a, m)
<1>1. v \in Views BY DEF Good
<1>11. /\ a \in Views /\ a.current = v.current /\ a.ref[m].hovered
      /\ a.ref[m].opened = v.ref[m].opened
      /\ \A n \in Marks \ {m} : a.ref[n] = v.ref[n]
  <2>0. PICK x \in BOOLEAN : x = TRUE
    OBVIOUS
  <2>1. a = [v EXCEPT !.ref[m].hovered = x]
    BY <2>0
  <2> HIDE DEF a
  <2>2. /\ a \in Views /\ a.current = v.current
        /\ a.ref[m].timer = v.ref[m].timer /\ a.ref[m].opened = v.ref[m].opened /\ a.ref[m].focused = v.ref[m].focused
        /\ \A n \in Marks \ {m} : a.ref[n] = v.ref[n]
    BY <1>1, <2>1, SetHovered
  <2>3. a.ref[m].hovered
    BY <1>1, <2>0, <2>1, Hovers
  <2> QED BY <2>2, <2>3
<1>12. e = [a EXCEPT !.ref[m].timer = "none"] /\ w = IF v.ref[m].opened THEN e ELSE Arm(e, m, "show")
  BY DEF OnPointerEnter, Clear
<1> HIDE DEF a
<1>13. /\ e \in Views /\ e.current = v.current /\ e.ref[m].hovered
      /\ e.ref[m].opened = v.ref[m].opened
      /\ \A n \in Marks \ {m} : e.ref[n] = v.ref[n]
  BY <1>11, <1>12, SetTimer
<1> HIDE DEF e
<1>14. Arm(e, m, "show") = [e EXCEPT !.ref[m].timer = "show"]
  BY DEF Arm
<1>2. /\ w \in Views /\ w.current = v.current
      /\ \A n \in Marks \ {m} : w.ref[n] = v.ref[n]
      /\ w.ref[m].opened = v.ref[m].opened
      /\ w.ref[m].hovered
  <2>1. CASE v.ref[m].opened BY <1>12, <1>13, <2>1
  <2>2. CASE ~v.ref[m].opened
    <3>1. w = [e EXCEPT !.ref[m].timer = "show"] BY <1>12, <1>14, <2>2
    <3> HIDE DEF w
    <3> QED BY <1>13, <3>1, SetTimer
  <2> QED BY <2>1, <2>2
<1> HIDE DEF w
<1>3. Reasoned(w, m)
  BY <1>2 DEF Reasoned
<1> QED BY <1>2, <1>3, SetGood DEF w

\* `onPointerLeave`.
LEMMA LeaveGood ==
  ASSUME NEW S \in SUBSET Marks, NEW v, Good(v, S), NEW m \in Marks
  PROVE  Good(OnPointerLeave(v, m), S)
<1> DEFINE w == OnPointerLeave(v, m)
           a == [v EXCEPT !.ref[m].hovered = FALSE]
           e == Clear(a, m)
<1>1. v \in Views BY DEF Good
<1>11. /\ a \in Views /\ a.current = v.current /\ a.ref[m].focused = v.ref[m].focused
      /\ a.ref[m].opened = v.ref[m].opened
      /\ \A n \in Marks \ {m} : a.ref[n] = v.ref[n]
  <2>0. PICK x \in BOOLEAN : x = FALSE
    OBVIOUS
  <2>1. a = [v EXCEPT !.ref[m].hovered = x]
    BY <2>0
  <2> HIDE DEF a
  <2> QED BY <1>1, <2>0, <2>1, SetHovered
<1>12. e = [a EXCEPT !.ref[m].timer = "none"] /\ w = IF v.ref[m].focused THEN e ELSE Arm(e, m, "hide")
  BY DEF OnPointerLeave, Clear
<1> HIDE DEF a
<1>13. /\ e \in Views /\ e.current = v.current /\ e.ref[m].focused = v.ref[m].focused
      /\ e.ref[m].opened = v.ref[m].opened /\ e.ref[m].timer = "none"
      /\ \A n \in Marks \ {m} : e.ref[n] = v.ref[n]
  BY <1>11, <1>12, SetTimer
<1> HIDE DEF e
<1>14. Arm(e, m, "hide") = [e EXCEPT !.ref[m].timer = "hide"]
  BY DEF Arm
<1>2. /\ w \in Views /\ w.current = v.current
      /\ \A n \in Marks \ {m} : w.ref[n] = v.ref[n]
      /\ w.ref[m].opened = v.ref[m].opened
      /\ w.ref[m].focused \/ w.ref[m].timer = "hide"
      /\ w.ref[m].timer # "show"
  <2>1. CASE v.ref[m].focused BY <1>12, <1>13, <2>1
  <2>2. CASE ~v.ref[m].focused
    <3>1. w = [e EXCEPT !.ref[m].timer = "hide"] BY <1>12, <1>14, <2>2
    <3> HIDE DEF w
    <3> QED BY <1>13, <3>1, SetTimer
  <2> QED BY <2>1, <2>2
<1> HIDE DEF w
<1>3. Reasoned(w, m)
  BY <1>2 DEF Reasoned
<1> QED BY <1>2, <1>3, SetGood DEF w

\* `show`, for a mark that is hovered or has the focus; what it replaces goes.
LEMMA ShowGood ==
  ASSUME NEW v, Good(v, Revealed), NEW m \in Marks,
         v.ref[m].hovered \/ v.ref[m].focused
  PROVE  Good(Show(v, m), Revealed)
<1> DEFINE c == Clear(v, m)
           h == HideOther(c, m)
<1>1. v \in Views BY DEF Good
<1>2. /\ c \in Views /\ c.current = v.current
      /\ \A n \in Marks \ {m} : c.ref[n] = v.ref[n]
      /\ c.ref[m].opened = v.ref[m].opened
      /\ c.ref[m].hovered = v.ref[m].hovered /\ c.ref[m].focused = v.ref[m].focused
      /\ c.ref[m].timer = "none"
  BY <1>1, SetTimer DEF Clear
<1> HIDE DEF c
<1>3. Reasoned(c, m)
  BY <1>2 DEF Reasoned
<1>4. Good(c, Revealed)
  BY <1>2, <1>3, SetGood DEF Revealed
<1>5. CASE Open(m) \/ v.ref[m].opened
  BY <1>4, <1>5 DEF Show, c
<1>6. CASE ~(Open(m) \/ v.ref[m].opened)
  <2>1. /\ Good(h, Revealed) /\ h.ref[m] = c.ref[m]
        /\ \A n \in Marks \ {m} : ~h.ref[n].opened
    <3>1. CASE c.current \notin {NoMark, m}
      <4>1. h = Hide(c, c.current) /\ c.current \in Marks \ {m}
        BY <1>2, <3>1 DEF HideOther, Views
      <4>2. Good(h, Revealed)
        BY <1>4, <4>1, HideGood DEF Revealed
      <4>3. h.ref[m] = c.ref[m] /\ ~h.ref[c.current].opened
            /\ \A n \in Marks \ {c.current} : h.ref[n] = c.ref[n]
        BY <1>2, <1>4, <4>1, HideOne DEF Good
      <4>4. \A n \in Marks \ {c.current} : ~c.ref[n].opened
        BY <1>4 DEF Good, Single
      <4> QED BY <4>2, <4>3, <4>4
    <3>2. CASE c.current \in {NoMark, m}
      <4>1. h = c BY <3>2 DEF HideOther
      <4> QED BY <1>4, <3>2, <4>1 DEF Good, Single
    <3> QED BY <3>1, <3>2
  <2> HIDE DEF h
  <2> DEFINE s == [ref |-> [h.ref EXCEPT ![m].opened = TRUE, ![m].seen = m \in screen],
                   current |-> m]
  <2>2. Show(v, m) = s
    BY <1>6 DEF Show, c, h
  <2>3. /\ s \in Views /\ s.current = m
        /\ \A n \in Marks \ {m} : s.ref[n] = h.ref[n]
        /\ s.ref[m].opened
        /\ s.ref[m].hovered = h.ref[m].hovered /\ s.ref[m].focused = h.ref[m].focused
        /\ s.ref[m].timer = h.ref[m].timer
    <3>0. PICK x \in BOOLEAN : x = TRUE
      OBVIOUS
    <3>6. PICK z \in BOOLEAN : z = (m \in screen)
      <4>1. (m \in screen) \in BOOLEAN OBVIOUS
      <4> QED BY <4>1, Zenon
    <3> DEFINE r == [h.ref[m] EXCEPT !.opened = x, !.seen = z]
    <3>1. h \in Views /\ h.ref \in [Marks -> Refs] BY <2>1 DEF Good, Views
    <3>2. /\ r \in Refs /\ r.opened = x /\ r.hovered = h.ref[m].hovered
          /\ r.focused = h.ref[m].focused /\ r.timer = h.ref[m].timer
      BY <3>1 DEF Refs
    <3>3. s = [ref |-> [h.ref EXCEPT ![m] = r], current |-> m]
      BY <3>0, <3>6
    <3> HIDE DEF r
    <3>4. [h.ref EXCEPT ![m] = r] \in [Marks -> Refs] BY <3>1, <3>2
    <3>5. s \in Views BY <3>3, <3>4 DEF Views
    <3> QED BY <3>0, <3>1, <3>2, <3>3, <3>5
  <2> HIDE DEF s
  <2>4. Single(s)
    BY <2>1, <2>3 DEF Single
  <2>5. \A n \in Marks : Reasoned(s, n)
    BY <1>2, <2>1, <2>3 DEF Good, Reasoned
  <2>6. Covered(s, Revealed)
    BY <1>6, <2>1, <2>3 DEF Good, Covered, Revealed
  <2> QED BY <2>2, <2>3, <2>4, <2>5, <2>6 DEF Good
<1> QED BY <1>5, <1>6

\* `onFocus`, on the mark or on a link in its open preview.
LEMMA FocusGood ==
  ASSUME NEW v, Good(v, Revealed), NEW m \in Marks, NEW visible \in BOOLEAN
  PROVE  Good(OnFocus(v, m, visible), Revealed)
<1> DEFINE w == [v EXCEPT !.ref[m].focused = TRUE]
<1>1. v \in Views BY DEF Good
<1>2. /\ w \in Views /\ w.current = v.current
      /\ \A n \in Marks \ {m} : w.ref[n] = v.ref[n]
      /\ w.ref[m].opened = v.ref[m].opened /\ w.ref[m].timer = v.ref[m].timer
      /\ w.ref[m].hovered = v.ref[m].hovered /\ w.ref[m].focused
  <2>0. PICK x \in BOOLEAN : x = TRUE
    OBVIOUS
  <2>1. w = [v EXCEPT !.ref[m].focused = x]
    BY <2>0
  <2> HIDE DEF w
  <2>2. /\ w \in Views /\ w.current = v.current
        /\ w.ref[m].timer = v.ref[m].timer /\ w.ref[m].opened = v.ref[m].opened /\ w.ref[m].hovered = v.ref[m].hovered
        /\ \A n \in Marks \ {m} : w.ref[n] = v.ref[n]
    BY <1>1, <2>1, SetFocused
  <2>3. w.ref[m].focused
    BY <1>1, <2>0, <2>1, Focuses
  <2> QED BY <2>2, <2>3
<1>3. OnFocus(v, m, visible) = IF visible THEN Show(w, m) ELSE w
  BY DEF OnFocus
<1> HIDE DEF w
<1>4. Reasoned(w, m) /\ (m \in Revealed => w.ref[m].timer # "show")
  BY <1>2 DEF Good, Reasoned, Covered
<1>5. Good(w, Revealed)
  BY <1>2, <1>4, SetGood DEF Revealed
<1> QED BY <1>2, <1>3, <1>5, ShowGood

\* `onBlur`, which leaves the other marks alone.
LEMMA BlurGood ==
  ASSUME NEW S \in SUBSET Marks, NEW v, Good(v, S), NEW m \in Marks
  PROVE  /\ Good(OnBlur(v, m), S)
         /\ \A n \in Marks \ {m} : OnBlur(v, m).ref[n] = v.ref[n]
<1> DEFINE w == [v EXCEPT !.ref[m].focused = FALSE]
<1>1. v \in Views BY DEF Good
<1>2. /\ w \in Views /\ w.current = v.current
      /\ \A n \in Marks \ {m} : w.ref[n] = v.ref[n]
      /\ w.ref[m].opened = v.ref[m].opened /\ w.ref[m].timer = v.ref[m].timer
      /\ w.ref[m].hovered = v.ref[m].hovered
  <2>0. PICK x \in BOOLEAN : x = FALSE
    OBVIOUS
  <2>1. w = [v EXCEPT !.ref[m].focused = x]
    BY <2>0
  <2> HIDE DEF w
  <2> QED BY <1>1, <2>0, <2>1, SetFocused
<1>3. OnBlur(v, m) = IF v.ref[m].hovered THEN w ELSE Hide(w, m)
  BY DEF OnBlur
<1> HIDE DEF w
<1>4. CASE v.ref[m].hovered
  <2>1. Reasoned(w, m) /\ (m \in S => w.ref[m].timer # "show")
    BY <1>2, <1>4 DEF Good, Reasoned, Covered
  <2> QED BY <1>2, <1>3, <1>4, <2>1, SetGood
<1>5. CASE ~v.ref[m].hovered
  <2>1. Single(w)
    BY <1>2 DEF Good, Single
  <2>2. /\ Hide(w, m) \in Views /\ Single(Hide(w, m))
        /\ ~Hide(w, m).ref[m].opened /\ Hide(w, m).ref[m].timer = "none"
        /\ \A n \in Marks \ {m} : Hide(w, m).ref[n] = v.ref[n]
    BY <1>2, <2>1, HideOne
  <2>3. \A n \in Marks : Reasoned(Hide(w, m), n)
    BY <2>2 DEF Good, Reasoned
  <2>4. Covered(Hide(w, m), S)
    BY <2>2 DEF Good, Covered
  <2> QED BY <1>3, <1>5, <2>2, <2>3, <2>4 DEF Good
<1> QED BY <1>4, <1>5

\* The blur that comes before a focus is one of another mark.
LEMMA BlurredGood ==
  ASSUME NEW S \in SUBSET Marks, NEW v, Good(v, S), focusOn \in Places, NEW m
  PROVE  /\ Good(Blurred(v, m), S)
         /\ m \in Marks => Blurred(v, m).ref[m] = v.ref[m]
<1>1. CASE focusOn = NoMark \/ InFocus(m) \/ (focusOn # NoMark /\ Open(focusOn[1]))
  BY <1>1 DEF Blurred
<1>2. CASE ~(focusOn = NoMark \/ InFocus(m)) /\ ~Open(focusOn[1])
  <2>1. focusOn[1] \in Marks /\ m # focusOn[1] /\ Blurred(v, m) = OnBlur(v, focusOn[1])
    BY <1>2 DEF Blurred, InFocus, Places
  <2> DEFINE f == focusOn[1]
  <2>2. f \in Marks /\ m # f /\ Blurred(v, m) = OnBlur(v, f)
    BY <2>1
  <2> HIDE DEF f
  <2>3. Good(OnBlur(v, f), S) /\ \A n \in Marks \ {f} : OnBlur(v, f).ref[n] = v.ref[n]
    BY <2>2, BlurGood
  <2>4. m \in Marks => OnBlur(v, f).ref[m] = v.ref[m]
    BY <2>2, <2>3
  <2> QED BY <2>2, <2>3, <2>4, Zenon
<1> QED BY <1>1, <1>2
-----------------------------------------------------------------------------
\* What is committed is what the next step sees.
LEMMA Committed ==
  ASSUME NEW v \in Views, Commit(v)
  PROVE  View' = v
<1>1. v = [ref |-> v.ref, current |-> v.current]
  BY DEF Views
<1> QED BY <1>1 DEF Commit, View

\* A step that commits a view which is good for what is now revealed.
LEMMA AnyPage ==
  ASSUME NEW v, NEW S, Good(v, S), Commit(v), Revealed' = S,
         revealed' \in [Marks -> Pages \cup {NoMark}], page' \in Pages, focusOn' \in Places
  PROVE  PInv'
<1>1. Good(View', Revealed') BY Committed DEF Good
<1>2. Good(View, Revealed)'
  BY <1>1 DEF Good, Single, Reasoned, Covered, Views, Refs
<1> QED BY <1>2 DEF PInv

\* On one page, nothing more is revealed.
LEMMA SamePage ==
  ASSUME PInv, NEW v, Good(v, Revealed), Commit(v), UNCHANGED <<revealed, page>>,
         focusOn' \in Places
  PROVE  PInv'
<1>1. Revealed' = Revealed BY DEF Revealed, Open
<1> QED BY <1>1, AnyPage DEF PInv

LEMMA PreviewBegins == PreviewInit => PInv
<1> SUFFICES ASSUME PreviewInit PROVE PInv OBVIOUS
<1>1. Fresh \in Refs /\ ~Fresh.opened /\ Fresh.timer = "none"
  BY DEF Fresh, Refs
<1>2. /\ View \in Views /\ View.current = NoMark
      /\ \A m \in Marks : View.ref[m] = Fresh
  BY <1>1 DEF PreviewInit, View, Views
<1>3. Single(View) /\ (\A m \in Marks : Reasoned(View, m)) /\ Covered(View, Revealed)
  BY <1>1, <1>2 DEF Single, Reasoned, Covered, Revealed
<1> QED BY <1>2, <1>3 DEF Good, PInv, PreviewInit, Places

\* `place` sets `seen`, which is no reason for anything.
LEMMA SeenGood ==
  ASSUME NEW S \in SUBSET Marks, NEW v, Good(v, S), NEW m \in Marks, NEW x \in BOOLEAN
  PROVE  Good([v EXCEPT !.ref[m].seen = x], S)
<1> DEFINE r == [v.ref[m] EXCEPT !.seen = x]
           w == [v EXCEPT !.ref[m].seen = x]
<1>1. v \in Views BY DEF Good
<1>2. /\ r \in Refs /\ r.timer = v.ref[m].timer /\ r.opened = v.ref[m].opened
      /\ r.hovered = v.ref[m].hovered /\ r.focused = v.ref[m].focused
  <2>1. v.ref[m] \in Refs BY <1>1 DEF Views
  <2> QED BY <2>1 DEF Refs
<1>3. w = [v EXCEPT !.ref[m] = r]
  OBVIOUS
<1> HIDE DEF r, w
<1>4. /\ w \in Views /\ w.current = v.current /\ w.ref[m] = r
      /\ \A n \in Marks \ {m} : w.ref[n] = v.ref[n]
  BY <1>1, <1>2, <1>3 DEF Views
<1>5. Reasoned(w, m) /\ (m \in S => w.ref[m].timer # "show")
  BY <1>2, <1>4 DEF Good, Reasoned, Covered
<1>6. Good(w, S)
  BY <1>2, <1>4, <1>5, SetGood
<1> QED BY <1>6 DEF w

\* A commit of another page keeps what was good, for what that page reveals.
LEMMA CommitGood ==
  ASSUME PInv, NEW next \in Pages, NEW kept \in SUBSET Marks
  PROVE  Good(AfterCommit(next, kept), {m \in kept : revealed[m] = next})
<1> DEFINE a == AfterCommit(next, kept)
           S == {m \in kept : revealed[m] = next}
           after(m) == Carried(View, m, kept, next).ref[m]
<1>1. View \in Views /\ Single(View) BY DEF PInv, Good
<1>2. \A m \in Marks :
        \/ after(m) = Fresh /\ m \notin kept
        \/ after(m) = View.ref[m] /\ (m \in S => m \in Revealed)
        \/ after(m) = Hide(View, m).ref[m] /\ m \in kept
  <2> SUFFICES ASSUME NEW m \in Marks
               PROVE  \/ after(m) = Fresh /\ m \notin kept
                      \/ after(m) = View.ref[m] /\ (m \in S => m \in Revealed)
                      \/ after(m) = Hide(View, m).ref[m] /\ m \in kept
    OBVIOUS
  <2>1. CASE m \notin kept
    <3>1. Hide(View, m) \in Views BY <1>1, HideOne
    <3>2. [Hide(View, m) EXCEPT !.ref[m] = Fresh].ref[m] = Fresh BY <3>1 DEF Views
    <3> QED BY <2>1, <3>2 DEF Carried
  <2>2. CASE m \in kept /\ Open(m) = (revealed[m] = next)
    BY <2>2 DEF Carried, Revealed
  <2>3. CASE m \in kept /\ Open(m) # (revealed[m] = next)
    BY <2>3 DEF Carried
  <2> QED BY <2>1, <2>2, <2>3
<1>3. a = [ref |-> [m \in Marks |-> after(m)],
           current |-> IF current # NoMark /\ after(current).opened THEN current ELSE NoMark]
  BY DEF AfterCommit
<1>4. Fresh \in Refs /\ ~Fresh.opened /\ Fresh.timer = "none"
  BY DEF Fresh, Refs
<1>5. \A m \in Marks : /\ Hide(View, m).ref[m] \in Refs
                       /\ ~Hide(View, m).ref[m].opened /\ Hide(View, m).ref[m].timer = "none"
  BY <1>1, HideOne DEF Views
<1>6. \A m \in Marks : View.ref[m] \in Refs
  BY <1>1 DEF Views
<1> HIDE DEF after
<1>7. \A m \in Marks :
        /\ after(m) \in Refs
        /\ \/ ~after(m).opened /\ after(m).timer = "none"
           \/ after(m) = View.ref[m] /\ (m \in S => m \in Revealed)
  BY <1>2, <1>4, <1>5, <1>6
<1>8. current = View.current /\ current \in Marks \cup {NoMark}
  BY <1>1 DEF View, Views
<1> HIDE DEF a, S
<1>9. a \in Views /\ \A m \in Marks : a.ref[m] = after(m)
  BY <1>3, <1>7, <1>8 DEF Views
<1>10. Single(a)
  <2> SUFFICES ASSUME NEW m \in Marks PROVE a.ref[m].opened <=> a.current = m
    BY DEF Single
  <2>1. CASE after(m).opened
    BY <1>1, <1>3, <1>7, <1>8, <1>9, <2>1 DEF Single
  <2>2. CASE ~after(m).opened
    BY <1>3, <1>8, <1>9, <2>2
  <2> QED BY <2>1, <2>2
<1>11. \A m \in Marks : Reasoned(a, m)
  BY <1>7, <1>9 DEF PInv, Good, Reasoned
<1>12. Covered(a, S)
  BY <1>7, <1>9 DEF PInv, Good, Covered, S
<1> QED BY <1>9, <1>10, <1>11, <1>12 DEF Good, a, S
-----------------------------------------------------------------------------
LEMMA PreviewStep == PInv /\ [PreviewNext]_previewVars => PInv'
<1> SUFFICES ASSUME PInv, [PreviewNext]_previewVars PROVE PInv'
  OBVIOUS
<1>a. Good(View, Revealed) /\ View \in Views /\ View.ref = ref /\ View.current = current
  BY DEF PInv, Good, View
<1>b. Revealed \in SUBSET Marks
  BY DEF Revealed
<1>1. ASSUME NEW m \in Marks, Enter(m) PROVE PInv'
  <2>1. Good(IF Open(m) THEN View ELSE OnPointerEnter(View, m), Revealed)
    BY <1>a, <1>b, EnterGood DEF Revealed
  <2> QED BY <1>1, <2>1, SamePage DEF Enter, PInv
<1>2. ASSUME NEW m \in Marks, Leave(m) PROVE PInv'
  <2>1. Good(IF Open(m) THEN View ELSE OnPointerLeave(View, m), Revealed)
    BY <1>a, <1>b, LeaveGood
  <2> QED BY <1>2, <2>1, SamePage DEF Leave, PInv
<1>3. ASSUME NEW m \in Marks, OpenDelay(m) PROVE PInv'
  <2>1. View.ref[m].hovered
    BY <1>a, <1>3 DEF OpenDelay, Good, Reasoned
  <2>2. Good(Show(View, m), Revealed)
    BY <1>a, <2>1, ShowGood
  <2> QED BY <1>3, <2>2, SamePage DEF OpenDelay, PInv
<1>4. ASSUME NEW m \in Marks, CloseDelay(m) PROVE PInv'
  <2>1. Good(Hide(View, m), Revealed)
    BY <1>a, <1>b, HideGood
  <2> QED BY <1>4, <2>1, SamePage DEF CloseDelay, PInv
<1>5. ASSUME NEW m \in Marks, FocusMark(m) PROVE PInv'
  <2>1. PICK visible \in BOOLEAN : Commit(OnFocus(Blurred(View, m), m, visible))
    BY <1>5 DEF FocusMark
  <2>2. Good(Blurred(View, m), Revealed)
    BY <1>a, <1>b, BlurredGood DEF PInv
  <2>3. Good(OnFocus(Blurred(View, m), m, visible), Revealed)
    BY <2>2, FocusGood
  <2>4. focusOn' \in Places
    BY <1>5 DEF FocusMark, Places
  <2> QED BY <1>5, <2>1, <2>3, <2>4, SamePage DEF FocusMark
<1>6. ASSUME NEW m \in Marks, FocusLink(m) PROVE PInv'
  <2> DEFINE b == Blurred(View, m)
  <2>1. Good(b, Revealed)
    BY <1>a, <1>b, BlurredGood DEF PInv
  <2> HIDE DEF b
  <2>2. Good(IF Open(m) THEN b ELSE OnFocus(b, m, FALSE), Revealed)
    BY <2>1, FocusGood
  <2>3. Commit(IF Open(m) THEN b ELSE OnFocus(b, m, FALSE))
    BY <1>6 DEF FocusLink, b
  <2>4. focusOn' \in Places /\ UNCHANGED <<revealed, page>>
    BY <1>6 DEF FocusLink, Places
  <2> QED BY <2>2, <2>3, <2>4, SamePage
<1>7. ASSUME FocusElsewhere PROVE PInv'
  <2>1. Good(Blurred(View, NoMark), Revealed)
    BY <1>a, <1>b, BlurredGood DEF PInv
  <2> QED BY <1>7, <2>1, SamePage DEF FocusElsewhere, Places
<1>8. ASSUME NEW m \in Marks, FocusFixup(m) PROVE PInv'
  <2>1. PICK blurs \in FixupBlurs : Commit(IF blurs THEN OnBlur(View, m) ELSE View)
    BY <1>8 DEF FocusFixup
  <2>2. Good(IF blurs THEN OnBlur(View, m) ELSE View, Revealed)
    BY <1>a, <1>b, BlurGood
  <2> QED BY <1>8, <2>1, <2>2, SamePage DEF FocusFixup, Places
<1>9. ASSUME Escape PROVE PInv'
  <2>1. current \in Marks
    BY <1>a, <1>9 DEF Escape, Views
  <2>2. Good(Hide(View, current), Revealed)
    BY <1>a, <1>b, <2>1, HideGood
  <2> QED BY <1>9, <2>2, SamePage DEF Escape, PInv
<1>10. ASSUME NEW s \in SUBSET Marks, ScrollTo(s) PROVE PInv'
  <2>1. CASE current = NoMark
    BY <1>a, <1>10, <2>1, SamePage DEF ScrollTo, PInv
  <2>2. CASE current # NoMark /\ current \notin s /\ ref[current].seen
    <3>1. Good(Hide(View, current), Revealed)
      BY <1>a, <1>b, <2>2, HideGood DEF Views
    <3> QED BY <1>10, <2>2, <3>1, SamePage DEF ScrollTo, PInv
  <2>3. CASE current # NoMark /\ ~(current \notin s /\ ref[current].seen)
    <3> DEFINE w == [View EXCEPT !.ref[current].seen = @ \/ current \in s]
    <3>1. current \in Marks
      BY <1>a, <2>3 DEF Views
    <3>2. PICK x \in BOOLEAN : x = (View.ref[current].seen \/ current \in s)
      <4>1. (View.ref[current].seen \/ current \in s) \in BOOLEAN OBVIOUS
      <4> QED BY <4>1, Zenon
    <3>3. w = [View EXCEPT !.ref[current].seen = x]
      BY <3>2
    <3> HIDE DEF w
    <3>4. Good(w, Revealed)
      BY <1>a, <1>b, <3>1, <3>3, SeenGood
    <3>5. Commit(w) /\ UNCHANGED <<revealed, page, focusOn>>
      BY <1>10, <2>3 DEF ScrollTo, w
    <3> QED BY <3>4, <3>5, SamePage DEF PInv
  <2> QED BY <2>1, <2>2, <2>3
<1>11. ASSUME NEW m \in Marks, Reveal(m) PROVE PInv'
  <2> DEFINE b == Blurred(Hide(View, m), m)
  <2>1. Good(Hide(View, m), Revealed) /\ ~Hide(View, m).ref[m].opened
        /\ Hide(View, m).ref[m].timer = "none"
    BY <1>a, <1>b, HideGood, HideOne DEF Good
  <2>2. Good(b, Revealed) /\ b.ref[m] = Hide(View, m).ref[m]
    BY <1>b, <2>1, BlurredGood DEF PInv
  <2>3. Commit(b)
    BY <1>11 DEF Reveal
  <2> HIDE DEF b
  <2>4. Good(b, Revealed \cup {m})
    BY <2>1, <2>2 DEF Good, Covered
  <2>5. Revealed' = Revealed \cup {m}
    BY <1>11 DEF Reveal, Revealed, Open, PInv
  <2>6. revealed' \in [Marks -> Pages \cup {NoMark}] /\ page' \in Pages /\ focusOn' \in Places
    BY <1>11 DEF Reveal, PInv, Places
  <2> QED BY <2>3, <2>4, <2>5, <2>6, AnyPage
<1>12. ASSUME NEW next \in Pages, NEW kept \in SUBSET Marks, NavigateTo(next, kept) PROVE PInv'
  <2> DEFINE a == AfterCommit(next, kept)
             S == {m \in kept : revealed[m] = next}
  <2>1. Good(a, S)
    BY CommitGood
  <2>2. Revealed' = S
    BY <1>12 DEF NavigateTo, Revealed, Open, PInv
  <2>3. PICK f \in FocusAfter(next, kept), announced \in BOOLEAN :
          IF announced /\ f # NoMark
          THEN focusOn' = NoMark /\ Commit(OnBlur(a, f[1]))
          ELSE focusOn' = f /\ Commit(a)
    BY <1>12 DEF NavigateTo
  <2>4. f \in Places /\ (f # NoMark => f[1] \in Marks)
    BY DEF FocusAfter, Places, PInv
  <2>5. revealed' \in [Marks -> Pages \cup {NoMark}] /\ page' \in Pages
    BY <1>12 DEF NavigateTo, PInv
  <2> HIDE DEF a
  <2>6. CASE announced /\ f # NoMark
    <3>1. Good(OnBlur(a, f[1]), S)
      BY <2>1, <2>4, <2>6, BlurGood
    <3>2. Commit(OnBlur(a, f[1])) /\ focusOn' \in Places
      BY <2>3, <2>6 DEF Places
    <3> QED BY <2>2, <2>5, <3>1, <3>2, AnyPage
  <2>7. CASE ~(announced /\ f # NoMark)
    <3>1. Commit(a) /\ focusOn' \in Places
      BY <2>3, <2>4, <2>7
    <3> QED BY <2>1, <2>2, <2>5, <3>1, AnyPage
  <2> QED BY <2>6, <2>7
<1>13. ASSUME UNCHANGED previewVars PROVE PInv'
  <2>1. Commit(View) /\ UNCHANGED <<revealed, page, focusOn>>
    BY <1>13 DEF previewVars, Commit, View
  <2> QED BY <1>a, <2>1, SamePage DEF PInv
<1>14. CASE Reader
  BY <1>1, <1>2, <1>5, <1>6, <1>7, <1>8, <1>9, <1>10, <1>11, <1>12, <1>14 DEF Reader
<1>15. CASE \E m \in Marks : Timers(m)
  BY <1>3, <1>4, <1>15 DEF Timers
<1> QED BY <1>13, <1>14, <1>15 DEF PreviewNext

LEMMA PreviewInvariant == PreviewSpec => []PInv
<1> QED BY PreviewBegins, PreviewStep, PTL DEF PreviewSpec

\* At every point between two events one preview is open at most, and `current` is
\* it (client.ts hideOther).
THEOREM OnePreview == PreviewSpec => []OneOpen
<1>1. PInv => OneOpen
  BY DEF PInv, Good, Single, View, OneOpen
<1> QED BY <1>1, PreviewInvariant, PTL

\* Text that is revealed in place never has a preview over it, nor a timer that
\* would open one (client.ts usePreview, the effect of `enabled`).
THEOREM RevealedIsBare == PreviewSpec => []NeverOverRevealed
<1>1. PInv => NeverOverRevealed
  BY DEF PInv, Good, Covered, Revealed, View, NeverOverRevealed
<1> QED BY <1>1, PreviewInvariant, PTL

\* An open preview that is neither hovered nor focused, as far as its handlers were
\* told, has its closing timer running (client.ts onPointerLeave, onBlur).
THEOREM OpenHasAReason == PreviewSpec => []OpenIsAccountedFor
<1>1. PInv => OpenIsAccountedFor
  BY DEF PInv, Good, Reasoned, View, OpenIsAccountedFor
<1> QED BY <1>1, PreviewInvariant, PTL
-----------------------------------------------------------------------------
(* What the refs hold for true, and what the reader has done.              *)

HoveredIn(v) == {m \in Marks : v.ref[m].hovered}
FocusedIn(v) == {m \in Marks : v.ref[m].focused}

\* `clear` and the timers, which no ref of the reader depends on.
LEMMA TimerTold ==
  ASSUME NEW v \in Views, NEW m \in Marks, NEW x \in {"none", "show", "hide"}, NEW w,
         w = [v EXCEPT !.ref[m].timer = x]
  PROVE  /\ HoveredIn(w) = HoveredIn(v) /\ FocusedIn(w) = FocusedIn(v)
         /\ w \in Views /\ w.current = v.current
         /\ \A n \in Marks : w.ref[n].opened = v.ref[n].opened
<1>1. /\ w \in Views /\ w.current = v.current
      /\ w.ref[m].opened = v.ref[m].opened /\ w.ref[m].hovered = v.ref[m].hovered
      /\ w.ref[m].focused = v.ref[m].focused
      /\ \A n \in Marks \ {m} : w.ref[n] = v.ref[n]
  BY SetTimer
<1>2. \A n \in Marks : /\ w.ref[n].hovered = v.ref[n].hovered
                       /\ w.ref[n].focused = v.ref[n].focused
                       /\ w.ref[n].opened = v.ref[n].opened
  BY <1>1
<1> QED BY <1>1, <1>2 DEF HoveredIn, FocusedIn

\* `hide` forgets neither the mouse nor the focus.
LEMMA HideTold ==
  ASSUME NEW v \in Views, Single(v), NEW m \in Marks
  PROVE  HoveredIn(Hide(v, m)) = HoveredIn(v) /\ FocusedIn(Hide(v, m)) = FocusedIn(v)
<1> DEFINE h == Hide(v, m)
<1>1. /\ h.ref[m].hovered = v.ref[m].hovered /\ h.ref[m].focused = v.ref[m].focused
      /\ \A n \in Marks \ {m} : h.ref[n] = v.ref[n]
  BY HideOne
<1> HIDE DEF h
<1>2. \A n \in Marks : /\ h.ref[n].hovered = v.ref[n].hovered
                       /\ h.ref[n].focused = v.ref[n].focused
  BY <1>1
<1>3. HoveredIn(h) = HoveredIn(v) /\ FocusedIn(h) = FocusedIn(v)
  BY <1>2 DEF HoveredIn, FocusedIn
<1> QED BY <1>3 DEF h

\* `show`, which hides another mark's preview.
LEMMA ShowTold ==
  ASSUME NEW v \in Views, Single(v), NEW m \in Marks
  PROVE  HoveredIn(Show(v, m)) = HoveredIn(v) /\ FocusedIn(Show(v, m)) = FocusedIn(v)
<1> DEFINE c == Clear(v, m)
           h == HideOther(c, m)
           s == [ref |-> [h.ref EXCEPT ![m].opened = TRUE, ![m].seen = m \in screen],
                 current |-> m]
<1>1. /\ c \in Views /\ c.current = v.current
      /\ \A n \in Marks : c.ref[n].opened = v.ref[n].opened
      /\ HoveredIn(c) = HoveredIn(v) /\ FocusedIn(c) = FocusedIn(v)
  BY TimerTold DEF Clear
<1>2. Show(v, m) = c \/ Show(v, m) = s
  BY DEF Show
<1> HIDE DEF c
<1>3. Single(c)
  BY <1>1 DEF Single
<1>4. h \in Views /\ HoveredIn(h) = HoveredIn(c) /\ FocusedIn(h) = FocusedIn(c)
  <2>1. CASE c.current \notin {NoMark, m}
    <3>1. h = Hide(c, c.current) /\ c.current \in Marks
      BY <1>1, <2>1 DEF HideOther, Views
    <3> QED BY <1>1, <1>3, <3>1, HideOne, HideTold
  <2>2. CASE c.current \in {NoMark, m}
    <3>1. h = c
      BY <2>2 DEF HideOther
    <3> QED BY <1>1, <3>1
  <2> QED BY <2>1, <2>2
<1> HIDE DEF h
<1>5. HoveredIn(s) = HoveredIn(h) /\ FocusedIn(s) = FocusedIn(h)
  <2> DEFINE r == [h.ref[m] EXCEPT !.opened = TRUE, !.seen = m \in screen]
  <2>1. h.ref \in [Marks -> Refs] /\ h.ref[m] \in Refs
    BY <1>4 DEF Views
  <2>2. r.hovered = h.ref[m].hovered /\ r.focused = h.ref[m].focused
    BY <2>1 DEF Refs
  <2>3. s.ref = [h.ref EXCEPT ![m] = r]
    OBVIOUS
  <2> HIDE DEF r, s
  <2>4. \A n \in Marks : /\ s.ref[n].hovered = h.ref[n].hovered
                         /\ s.ref[n].focused = h.ref[n].focused
    BY <2>1, <2>2, <2>3
  <2> QED BY <2>4 DEF HoveredIn, FocusedIn
<1> HIDE DEF s
<1> QED BY <1>1, <1>2, <1>4, <1>5

\* `onPointerEnter` and `onPointerLeave` note one mark.
LEMMA PointerTold ==
  ASSUME NEW v \in Views, NEW m \in Marks
  PROVE  /\ HoveredIn(OnPointerEnter(v, m)) = HoveredIn(v) \cup {m}
         /\ FocusedIn(OnPointerEnter(v, m)) = FocusedIn(v)
         /\ HoveredIn(OnPointerLeave(v, m)) = HoveredIn(v) \ {m}
         /\ FocusedIn(OnPointerLeave(v, m)) = FocusedIn(v)
<1> DEFINE a(x) == [v EXCEPT !.ref[m].hovered = x]
<1>1. ASSUME NEW x \in BOOLEAN
      PROVE  /\ a(x) \in Views /\ FocusedIn(a(x)) = FocusedIn(v)
             /\ \A n \in Marks \ {m} : a(x).ref[n] = v.ref[n]
             /\ a(x).ref[m].hovered = x
  <2> DEFINE w == a(x)
  <2>0. w = [v EXCEPT !.ref[m].hovered = x]
    OBVIOUS
  <2> HIDE DEF w
  <2>1. /\ w \in Views
        /\ w.ref[m].focused = v.ref[m].focused
        /\ \A n \in Marks \ {m} : w.ref[n] = v.ref[n]
    BY <2>0, SetHovered
  <2>4. w.ref[m].hovered = x
    <3> DEFINE r == [v.ref[m] EXCEPT !.hovered = x]
    <3>1. v.ref[m] \in Refs /\ v.ref \in [Marks -> Refs]
      BY DEF Views
    <3>2. r.hovered = x
      BY <3>1 DEF Refs
    <3>3. w = [v EXCEPT !.ref[m] = r]
      BY <2>0
    <3> HIDE DEF r
    <3>4. w.ref[m] = r
      BY <3>1, <3>3 DEF Views
    <3> QED BY <3>2, <3>4, Zenon
  <2>2. \A n \in Marks : w.ref[n].focused = v.ref[n].focused
    BY <2>1
  <2>3. FocusedIn(w) = FocusedIn(v)
    BY <2>2 DEF FocusedIn
  <2> QED BY <2>1, <2>3, <2>4 DEF w
<1>2. HoveredIn(a(TRUE)) = HoveredIn(v) \cup {m} /\ HoveredIn(a(FALSE)) = HoveredIn(v) \ {m}
  <2>1. \A n \in Marks \ {m} : a(TRUE).ref[n] = v.ref[n] /\ a(FALSE).ref[n] = v.ref[n]
    BY <1>1
  <2>2. a(TRUE).ref[m].hovered /\ ~a(FALSE).ref[m].hovered
    <3>1. a(TRUE).ref[m].hovered = TRUE
      BY <1>1
    <3>2. a(FALSE).ref[m].hovered = FALSE
      BY <1>1
    <3> QED BY <3>1, <3>2
  <2> HIDE DEF a
  <2> QED BY <2>1, <2>2 DEF HoveredIn
<1>3. OnPointerEnter(v, m) = LET e == Clear(a(TRUE), m)
                             IN IF v.ref[m].opened THEN e ELSE Arm(e, m, "show")
  BY DEF OnPointerEnter
<1>4. OnPointerLeave(v, m) = LET e == Clear(a(FALSE), m)
                             IN IF v.ref[m].focused THEN e ELSE Arm(e, m, "hide")
  BY DEF OnPointerLeave
<1>5. a(TRUE) \in Views /\ FocusedIn(a(TRUE)) = FocusedIn(v)
      /\ a(FALSE) \in Views /\ FocusedIn(a(FALSE)) = FocusedIn(v)
  BY <1>1
<1> HIDE DEF a
<1>6. ASSUME NEW u \in Views, NEW x \in {"show", "hide"}
      PROVE  /\ HoveredIn(Clear(u, m)) = HoveredIn(u)
             /\ FocusedIn(Clear(u, m)) = FocusedIn(u)
             /\ HoveredIn(Arm(Clear(u, m), m, x)) = HoveredIn(u)
             /\ FocusedIn(Arm(Clear(u, m), m, x)) = FocusedIn(u)
  <2> DEFINE e == Clear(u, m)
  <2>1. e \in Views /\ HoveredIn(e) = HoveredIn(u) /\ FocusedIn(e) = FocusedIn(u)
    BY TimerTold DEF Clear
  <2> HIDE DEF e
  <2>2. HoveredIn(Arm(e, m, x)) = HoveredIn(e) /\ FocusedIn(Arm(e, m, x)) = FocusedIn(e)
    BY <2>1, TimerTold DEF Arm
  <2> QED BY <2>1, <2>2 DEF e
<1>7. /\ HoveredIn(OnPointerEnter(v, m)) = HoveredIn(a(TRUE))
      /\ FocusedIn(OnPointerEnter(v, m)) = FocusedIn(a(TRUE))
  BY <1>3, <1>5, <1>6
<1>8. /\ HoveredIn(OnPointerLeave(v, m)) = HoveredIn(a(FALSE))
      /\ FocusedIn(OnPointerLeave(v, m)) = FocusedIn(a(FALSE))
  BY <1>4, <1>5, <1>6
<1> QED BY <1>2, <1>5, <1>7, <1>8

\* `onFocus` and `onBlur` note one mark.
LEMMA FocusTold ==
  ASSUME NEW v \in Views, Single(v), NEW m \in Marks
  PROVE  /\ \A visible \in BOOLEAN :
              /\ HoveredIn(OnFocus(v, m, visible)) = HoveredIn(v)
              /\ FocusedIn(OnFocus(v, m, visible)) = FocusedIn(v) \cup {m}
         /\ HoveredIn(OnBlur(v, m)) = HoveredIn(v)
         /\ FocusedIn(OnBlur(v, m)) = FocusedIn(v) \ {m}
<1> DEFINE a(x) == [v EXCEPT !.ref[m].focused = x]
<1>1. ASSUME NEW x \in BOOLEAN
      PROVE  /\ a(x) \in Views /\ Single(a(x)) /\ HoveredIn(a(x)) = HoveredIn(v)
             /\ \A n \in Marks \ {m} : a(x).ref[n] = v.ref[n]
             /\ a(x).ref[m].focused = x
  <2> DEFINE w == a(x)
  <2>0. w = [v EXCEPT !.ref[m].focused = x]
    OBVIOUS
  <2> HIDE DEF w
  <2>1. /\ w \in Views /\ w.current = v.current
        /\ w.ref[m].hovered = v.ref[m].hovered /\ w.ref[m].opened = v.ref[m].opened
        /\ \A n \in Marks \ {m} : w.ref[n] = v.ref[n]
    BY <2>0, SetFocused
  <2>4. w.ref[m].focused = x
    <3> DEFINE r == [v.ref[m] EXCEPT !.focused = x]
    <3>1. v.ref[m] \in Refs /\ v.ref \in [Marks -> Refs]
      BY DEF Views
    <3>2. r.focused = x
      BY <3>1 DEF Refs
    <3>3. w = [v EXCEPT !.ref[m] = r]
      BY <2>0
    <3> HIDE DEF r
    <3>4. w.ref[m] = r
      BY <3>1, <3>3 DEF Views
    <3> QED BY <3>2, <3>4, Zenon
  <2>2. \A n \in Marks : /\ w.ref[n].hovered = v.ref[n].hovered
                         /\ w.ref[n].opened = v.ref[n].opened
    BY <2>1
  <2>3. HoveredIn(w) = HoveredIn(v) /\ Single(w)
    BY <2>1, <2>2 DEF HoveredIn, Single
  <2> QED BY <2>1, <2>3, <2>4 DEF w
<1>2. FocusedIn(a(TRUE)) = FocusedIn(v) \cup {m} /\ FocusedIn(a(FALSE)) = FocusedIn(v) \ {m}
  <2>1. \A n \in Marks \ {m} : a(TRUE).ref[n] = v.ref[n] /\ a(FALSE).ref[n] = v.ref[n]
    BY <1>1
  <2>2. a(TRUE).ref[m].focused /\ ~a(FALSE).ref[m].focused
    <3>1. a(TRUE).ref[m].focused = TRUE
      BY <1>1
    <3>2. a(FALSE).ref[m].focused = FALSE
      BY <1>1
    <3> QED BY <3>1, <3>2
  <2> HIDE DEF a
  <2> QED BY <2>1, <2>2 DEF FocusedIn
<1>3. \A visible \in BOOLEAN :
        OnFocus(v, m, visible) = IF visible THEN Show(a(TRUE), m) ELSE a(TRUE)
  BY DEF OnFocus
<1>4. OnBlur(v, m) = IF v.ref[m].hovered THEN a(FALSE) ELSE Hide(a(FALSE), m)
  BY DEF OnBlur
<1>5. /\ a(TRUE) \in Views /\ Single(a(TRUE)) /\ HoveredIn(a(TRUE)) = HoveredIn(v)
      /\ a(FALSE) \in Views /\ Single(a(FALSE)) /\ HoveredIn(a(FALSE)) = HoveredIn(v)
  BY <1>1
<1> HIDE DEF a
<1>6. /\ HoveredIn(Show(a(TRUE), m)) = HoveredIn(a(TRUE))
      /\ FocusedIn(Show(a(TRUE), m)) = FocusedIn(a(TRUE))
      /\ HoveredIn(Hide(a(FALSE), m)) = HoveredIn(a(FALSE))
      /\ FocusedIn(Hide(a(FALSE), m)) = FocusedIn(a(FALSE))
  BY <1>5, ShowTold, HideTold
<1>7. \A visible \in BOOLEAN :
        /\ HoveredIn(OnFocus(v, m, visible)) = HoveredIn(v)
        /\ FocusedIn(OnFocus(v, m, visible)) = FocusedIn(v) \cup {m}
  BY <1>2, <1>3, <1>5, <1>6
<1>8. HoveredIn(OnBlur(v, m)) = HoveredIn(v) /\ FocusedIn(OnBlur(v, m)) = FocusedIn(v) \ {m}
  BY <1>2, <1>4, <1>5, <1>6
<1> QED BY <1>7, <1>8

\* The blur before a focus or a removal: a mark that had the focus knows of its loss.
LEMMA BlurredTold ==
  ASSUME NEW v \in Views, Single(v), focusOn \in Places, NEW m
  PROVE  /\ HoveredIn(Blurred(v, m)) = HoveredIn(v)
         /\ FocusedIn(Blurred(v, m)) \subseteq FocusedIn(v)
         /\ \A n \in Marks : InFocus(n) /\ n # m /\ ~Open(n) => n \notin FocusedIn(Blurred(v, m))
<1>1. CASE focusOn = NoMark \/ InFocus(m)
  BY <1>1 DEF Blurred, InFocus
<1>2. CASE ~(focusOn = NoMark \/ InFocus(m)) /\ Open(focusOn[1])
  BY <1>2 DEF Blurred, InFocus
<1>3. CASE ~(focusOn = NoMark \/ InFocus(m)) /\ ~Open(focusOn[1])
  <2> DEFINE f == focusOn[1]
  <2>1. f \in Marks /\ Blurred(v, m) = OnBlur(v, f) /\ \A n \in Marks : InFocus(n) => n = f
    BY <1>3 DEF Blurred, InFocus, Places
  <2> HIDE DEF f
  <2>2. HoveredIn(OnBlur(v, f)) = HoveredIn(v) /\ FocusedIn(OnBlur(v, f)) = FocusedIn(v) \ {f}
    BY <2>1, FocusTold
  <2> QED BY <2>1, <2>2
<1> QED BY <1>1, <1>2, <1>3

\* A navigation: what is not kept is forgotten, and nothing is added.
LEMMA CommitTold ==
  ASSUME PInv, NEW next \in Pages, NEW kept \in SUBSET Marks
  PROVE  /\ HoveredIn(AfterCommit(next, kept)) = HoveredIn(View) \cap kept
         /\ FocusedIn(AfterCommit(next, kept)) \subseteq FocusedIn(View) \cap kept
<1> DEFINE a == AfterCommit(next, kept)
           after(m) == Carried(View, m, kept, next).ref[m]
<1>1. View \in Views /\ Single(View)
  BY DEF PInv, Good
<1>2. \A m \in Marks : a.ref[m] = after(m)
  BY DEF AfterCommit
<1>3. \A m \in Marks : /\ after(m).hovered <=> View.ref[m].hovered /\ m \in kept
                       /\ after(m).focused <=> View.ref[m].focused /\ m \in kept
  <2> SUFFICES ASSUME NEW m \in Marks
               PROVE  /\ after(m).hovered <=> View.ref[m].hovered /\ m \in kept
                      /\ after(m).focused <=> View.ref[m].focused /\ m \in kept
    OBVIOUS
  <2>1. /\ Hide(View, m) \in Views
        /\ Hide(View, m).ref[m].hovered = View.ref[m].hovered
        /\ Hide(View, m).ref[m].focused = View.ref[m].focused
    BY <1>1, HideOne
  <2>2. CASE m \notin kept
    <3>1. [Hide(View, m) EXCEPT !.ref[m] = Fresh].ref[m] = Fresh
      BY <2>1 DEF Views
    <3>2. after(m) = Fresh
      BY <2>2, <3>1 DEF Carried
    <3> QED BY <2>2, <3>2 DEF Fresh
  <2>3. CASE m \in kept
    <3>1. after(m) = View.ref[m] \/ after(m) = Hide(View, m).ref[m]
      BY <2>3 DEF Carried
    <3> HIDE DEF after
    <3>2. CASE after(m) = View.ref[m]
      BY <2>3, <3>2
    <3>3. CASE after(m) = Hide(View, m).ref[m]
      BY <2>1, <2>3, <3>3
    <3> QED BY <3>1, <3>2, <3>3
  <2> QED BY <2>2, <2>3
<1> HIDE DEF a, after
<1>4. HoveredIn(a) = HoveredIn(View) \cap kept /\ FocusedIn(a) = FocusedIn(View) \cap kept
  BY <1>2, <1>3 DEF HoveredIn, FocusedIn
<1> QED BY <1>4 DEF a

\* What one step may leave unheard of mark n.
Told(n) ==
  /\ MissedLeave(n)' => MissedLeave(n) \/ Open(n)
  /\ MissedBlur(n)' => \/ MissedBlur(n) \/ Open(n) \/ page' # page
                       \/ focusOn = <<n, "inside">> /\ ~ref[n].opened

\* A step that commits view v, in terms of what v holds for true.
LEMMA ToldBy ==
  ASSUME NEW v, Commit(v), NEW n \in Marks,
         n \in HoveredIn(v) /\ pointer' # n =>
           (n \in HoveredIn(View) /\ pointer # n) \/ Open(n),
         n \in FocusedIn(v) /\ ~InFocus(n)' =>
           \/ (n \in FocusedIn(View) /\ ~InFocus(n)) \/ Open(n) \/ page' # page
           \/ focusOn = <<n, "inside">> /\ ~ref[n].opened
  PROVE  Told(n)
<1>1. /\ MissedLeave(n)' <=> n \in HoveredIn(v) /\ pointer' # n
      /\ MissedBlur(n)' <=> n \in FocusedIn(v) /\ ~InFocus(n)'
  BY DEF MissedLeave, MissedBlur, HoveredIn, FocusedIn, Commit, InFocus
<1>2. /\ MissedLeave(n) <=> n \in HoveredIn(View) /\ pointer # n
      /\ MissedBlur(n) <=> n \in FocusedIn(View) /\ ~InFocus(n)
  BY DEF MissedLeave, MissedBlur, HoveredIn, FocusedIn, View
<1> QED BY <1>1, <1>2 DEF Told

LEMMA ToldStep == PInv /\ [PreviewNext]_previewVars => \A n \in Marks : Told(n)
<1> SUFFICES ASSUME PInv, [PreviewNext]_previewVars, NEW n \in Marks PROVE Told(n)
  OBVIOUS
<1>a. View \in Views /\ Single(View) /\ focusOn \in Places
  BY DEF PInv, Good
<1>1. ASSUME NEW m \in Marks, Enter(m) PROVE Told(n)
  <2> DEFINE v == IF Open(m) THEN View ELSE OnPointerEnter(View, m)
  <2>1. HoveredIn(v) \subseteq HoveredIn(View) \cup {m} /\ FocusedIn(v) = FocusedIn(View)
    BY <1>a, PointerTold
  <2>2. Commit(v) /\ pointer' = m /\ pointer = NoMark /\ UNCHANGED focusOn
    BY <1>1 DEF Enter
  <2> HIDE DEF v
  <2>3. InFocus(n)' <=> InFocus(n)
    BY <2>2 DEF InFocus
  <2> QED BY <2>1, <2>2, <2>3, ToldBy
<1>2. ASSUME NEW m \in Marks, Leave(m) PROVE Told(n)
  <2> DEFINE v == IF Open(m) THEN View ELSE OnPointerLeave(View, m)
  <2>1. /\ HoveredIn(v) = (IF Open(m) THEN HoveredIn(View) ELSE HoveredIn(View) \ {m})
        /\ FocusedIn(v) = FocusedIn(View)
    BY <1>a, PointerTold
  <2>2. Commit(v) /\ pointer = m /\ UNCHANGED focusOn
    BY <1>2 DEF Leave
  <2> HIDE DEF v
  <2>3. InFocus(n)' <=> InFocus(n)
    BY <2>2 DEF InFocus
  <2>4. CASE Open(m)
    BY <2>1, <2>2, <2>3, <2>4, ToldBy
  <2>5. CASE ~Open(m)
    BY <2>1, <2>2, <2>3, <2>5, ToldBy
  <2> QED BY <2>4, <2>5
\* A step that moves neither the mouse nor the focus and notes nothing.
<1>b. ASSUME NEW v, Commit(v), HoveredIn(v) = HoveredIn(View), FocusedIn(v) = FocusedIn(View),
             UNCHANGED <<pointer, focusOn>>
      PROVE  Told(n)
  <2>1. InFocus(n)' <=> InFocus(n)
    BY <1>b DEF InFocus
  <2> QED BY <1>b, <2>1, ToldBy
<1>3. ASSUME NEW m \in Marks, OpenDelay(m) PROVE Told(n)
  BY <1>a, <1>b, <1>3, ShowTold DEF OpenDelay
<1>4. ASSUME NEW m \in Marks, CloseDelay(m) PROVE Told(n)
  BY <1>a, <1>b, <1>4, HideTold DEF CloseDelay
<1>c. ASSUME NEW m
      PROVE  /\ HoveredIn(Blurred(View, m)) = HoveredIn(View)
             /\ FocusedIn(Blurred(View, m)) \subseteq FocusedIn(View)
             /\ InFocus(n) /\ n # m /\ ~Open(n) => n \notin FocusedIn(Blurred(View, m))
             /\ Blurred(View, m) \in Views /\ Single(Blurred(View, m))
  <2>1. Good(Blurred(View, m), Revealed)
    BY BlurredGood DEF PInv, Revealed
  <2> QED BY <1>a, <2>1, BlurredTold DEF Good
<1>5. ASSUME NEW m \in Marks, FocusMark(m) PROVE Told(n)
  <2>1. PICK visible \in BOOLEAN : Commit(OnFocus(Blurred(View, m), m, visible))
    BY <1>5 DEF FocusMark
  <2> DEFINE v == OnFocus(Blurred(View, m), m, visible)
  <2>2. /\ HoveredIn(v) = HoveredIn(Blurred(View, m))
        /\ FocusedIn(v) = FocusedIn(Blurred(View, m)) \cup {m}
    BY <1>c, FocusTold
  <2>3. Commit(v) /\ pointer' = pointer /\ InFocus(m)'
    BY <1>5, <2>1 DEF FocusMark, InFocus
  <2> HIDE DEF v
  <2> QED BY <1>c, <2>2, <2>3, ToldBy
<1>6. ASSUME NEW m \in Marks, FocusLink(m) PROVE Told(n)
  <2> DEFINE b == Blurred(View, m)
             v == IF Open(m) THEN b ELSE OnFocus(b, m, FALSE)
  <2>1. /\ HoveredIn(v) = HoveredIn(b)
        /\ FocusedIn(v) \subseteq FocusedIn(b) \cup {m}
    BY <1>c, FocusTold
  <2>4. Commit(v) /\ pointer' = pointer /\ focusOn' = <<m, "inside">>
    BY <1>6 DEF FocusLink
  <2>5. InFocus(m)'
    BY <2>4 DEF InFocus
  <2>3. /\ HoveredIn(b) = HoveredIn(View) /\ FocusedIn(b) \subseteq FocusedIn(View)
        /\ InFocus(n) /\ n # m /\ ~Open(n) => n \notin FocusedIn(b)
    BY <1>c
  <2> HIDE DEF v, b
  <2> QED BY <2>1, <2>3, <2>4, <2>5, ToldBy
<1>7. ASSUME FocusElsewhere PROVE Told(n)
  <2> DEFINE v == Blurred(View, NoMark)
  <2>1. Commit(v) /\ pointer' = pointer
    BY <1>7 DEF FocusElsewhere
  <2>2. /\ HoveredIn(v) = HoveredIn(View) /\ FocusedIn(v) \subseteq FocusedIn(View)
        /\ InFocus(n) /\ ~Open(n) => n \notin FocusedIn(v)
    BY <1>c
  <2> HIDE DEF v
  <2> QED BY <2>1, <2>2, ToldBy
<1>8. ASSUME NEW m \in Marks, FocusFixup(m) PROVE Told(n)
  <2>1. PICK blurs \in FixupBlurs : Commit(IF blurs THEN OnBlur(View, m) ELSE View)
    BY <1>8 DEF FocusFixup
  <2> DEFINE v == IF blurs THEN OnBlur(View, m) ELSE View
  <2>2. HoveredIn(v) = HoveredIn(View) /\ FocusedIn(v) \subseteq FocusedIn(View)
    BY <1>a, FocusTold
  <2>3. /\ Commit(v) /\ pointer' = pointer
        /\ focusOn = <<m, "inside">> /\ ~ref[m].opened
    BY <1>8, <2>1 DEF FocusFixup
  <2>4. InFocus(n) => n = m
    BY <2>3 DEF InFocus
  <2> HIDE DEF v
  <2> QED BY <2>2, <2>3, <2>4, ToldBy
<1>9. ASSUME Escape PROVE Told(n)
  <2>1. current \in Marks
    BY <1>a, <1>9 DEF Escape, Views, View
  <2> QED BY <1>a, <1>b, <1>9, <2>1, HideTold DEF Escape
<1>10. ASSUME NEW s \in SUBSET Marks, ScrollTo(s) PROVE Told(n)
  <2>1. CASE current = NoMark
    BY <1>b, <1>10, <2>1 DEF ScrollTo
  <2>2. CASE current # NoMark
    <3>1. current \in Marks
      BY <1>a, <2>2 DEF Views, View
    <3> DEFINE w == [View EXCEPT !.ref[current].seen = @ \/ current \in s]
    <3>2. HoveredIn(w) = HoveredIn(View) /\ FocusedIn(w) = FocusedIn(View)
      <4> DEFINE r == [View.ref[current] EXCEPT !.seen = @ \/ current \in s]
      <4>1. View.ref \in [Marks -> Refs] /\ View.ref[current] \in Refs
        BY <1>a, <3>1 DEF Views
      <4>2. r.hovered = View.ref[current].hovered /\ r.focused = View.ref[current].focused
        BY <4>1 DEF Refs
      <4>3. w.ref = [View.ref EXCEPT ![current] = r]
        BY DEF View
      <4> HIDE DEF r, w
      <4>4. \A m \in Marks : /\ w.ref[m].hovered = View.ref[m].hovered
                             /\ w.ref[m].focused = View.ref[m].focused
        BY <3>1, <4>1, <4>2, <4>3
      <4> QED BY <4>4 DEF HoveredIn, FocusedIn
    <3>3. Commit(w) \/ Commit(Hide(View, current))
      BY <1>10, <2>2 DEF ScrollTo
    <3>4. UNCHANGED <<pointer, focusOn>>
      BY <1>10 DEF ScrollTo
    <3> HIDE DEF w
    <3> QED BY <1>a, <1>b, <3>1, <3>2, <3>3, <3>4, HideTold
  <2> QED BY <2>1, <2>2
<1>11. ASSUME NEW m \in Marks, Reveal(m) PROVE Told(n)
  <2> DEFINE h == Hide(View, m)
             v == Blurred(h, m)
  <2>1. h \in Views /\ Single(h) /\ HoveredIn(h) = HoveredIn(View) /\ FocusedIn(h) = FocusedIn(View)
    BY <1>a, HideOne, HideTold
  <2>2. Commit(v) /\ pointer' = pointer /\ InFocus(m)'
    BY <1>11 DEF Reveal, InFocus
  <2> HIDE DEF h
  <2>3. /\ HoveredIn(v) = HoveredIn(h)
        /\ FocusedIn(v) \subseteq FocusedIn(h)
        /\ InFocus(n) /\ n # m /\ ~Open(n) => n \notin FocusedIn(v)
    BY <1>a, <2>1, BlurredTold
  <2> HIDE DEF v
  <2> QED BY <2>1, <2>2, <2>3, ToldBy
<1>12. ASSUME NEW next \in Pages, NEW kept \in SUBSET Marks, NavigateTo(next, kept) PROVE Told(n)
  <2> DEFINE a == AfterCommit(next, kept)
  <2>1. PICK f \in FocusAfter(next, kept), announced \in BOOLEAN :
          IF announced /\ f # NoMark
          THEN focusOn' = NoMark /\ Commit(OnBlur(a, f[1]))
          ELSE focusOn' = f /\ Commit(a)
    BY <1>12 DEF NavigateTo
  <2>2. a \in Views /\ Single(a)
    BY CommitGood DEF Good
  <2>3. HoveredIn(a) = HoveredIn(View) \cap kept
    BY CommitTold
  <2>4. page' # page /\ pointer' = (IF pointer \in kept THEN pointer ELSE NoMark)
    BY <1>12 DEF NavigateTo
  <2>5. f # NoMark => f[1] \in Marks
    BY <1>a DEF FocusAfter, Places
  <2> HIDE DEF a
  <2>6. CASE announced /\ f # NoMark
    <3>1. HoveredIn(OnBlur(a, f[1])) = HoveredIn(a) /\ Commit(OnBlur(a, f[1]))
      BY <2>1, <2>2, <2>5, <2>6, FocusTold
    <3> QED BY <2>3, <2>4, <3>1, ToldBy
  <2>7. CASE ~(announced /\ f # NoMark)
    <3>1. Commit(a)
      BY <2>1, <2>7
    <3> QED BY <2>3, <2>4, <3>1, ToldBy
  <2> QED BY <2>6, <2>7
<1>13. ASSUME UNCHANGED previewVars PROVE Told(n)
  <2>1. Commit(View) /\ UNCHANGED <<pointer, focusOn>>
    BY <1>13 DEF previewVars, Commit, View
  <2> QED BY <1>b, <2>1
<1>14. CASE Reader
  BY <1>1, <1>2, <1>5, <1>6, <1>7, <1>8, <1>9, <1>10, <1>11, <1>12, <1>14 DEF Reader
<1>15. CASE \E m \in Marks : Timers(m)
  BY <1>3, <1>4, <1>15 DEF Timers
<1> QED BY <1>13, <1>14, <1>15 DEF PreviewNext

\* A leave or a blur goes unheard only where the code takes away the handler or the
\* element that would have told (more.tsx, the revealed branch; client.ts usePreview).
THEOREM MissesAreKnown == PreviewSpec => MissedOnlyOnRemoval
<1>1. PInv /\ [PreviewNext]_previewVars =>
        [\A m \in Marks :
           /\ MissedLeave(m)' => MissedLeave(m) \/ Open(m)
           /\ MissedBlur(m)' =>
                \/ MissedBlur(m) \/ Open(m) \/ page' # page
                \/ focusOn = <<m, "inside">> /\ ~ref[m].opened]_previewVars
  BY ToldStep DEF Told
<1> QED BY <1>1, PreviewInvariant, PTL DEF PreviewSpec, MissedOnlyOnRemoval
-----------------------------------------------------------------------------
(* The search dialog.                                                      *)

DialogType ==
  /\ open \in BOOLEAN /\ dialog \in BOOLEAN /\ closing \in BOOLEAN
  /\ query \in Queries
  /\ active \in Int
  /\ rows \in [from : Sources \cup {None}, for : Queries, count : Nat]
  /\ index \in Sources \cup {None}
  /\ fetching \in Sources \cup {None}
  /\ source \in Sources

\* The close event that is queued has not been heard of.
CloseIsNews == closing => open

\* One request, and none once its answer is there.
OneRequest == fetching # None => index = None

DialogInv ==
  DialogType /\ CloseIsNews /\ OneRequest /\ DialogFollowsState /\ RowsAnswerTheQuery
-----------------------------------------------------------------------------
USE SearchAssumption

\* The rows of an index have a number.
LEMMA ScoredType ==
  ASSUME NEW s \in Sources, NEW q \in Queries
  PROVE  /\ Scored(s, q) \in [from : Sources \cup {None}, for : Queries, count : Nat]
         /\ Scored(s, q).count = Hits[s][q]
         /\ Clamp(-1, Hits[s][q]) = -1
BY DEF Scored, Clamp

\* load() asks only where nothing is in hand.
LEMMA LoadRequests ==
  ASSUME DialogType, OneRequest, Load
  PROVE  /\ fetching' \in Sources \cup {None}
         /\ fetching' # None => index = None
BY DEF DialogType, OneRequest, Load

\* Scoring answers the query, with nothing highlighted.
LEMMA ScoreAnswers ==
  ASSUME DialogType, NEW i \in Sources \cup {None}, NEW q \in Queries, Score(i, q, -1)
  PROVE  /\ rows' \in [from : Sources \cup {None}, for : Queries, count : Nat]
         /\ active' = -1
         /\ i # None => rows' = Scored(i, q)
<1>1. CASE i = None
  BY <1>1 DEF Score, DialogType
<1>2. CASE i # None
  <2>1. i \in Sources /\ rows' = Scored(i, q) /\ active' = Clamp(-1, Hits[i][q])
    BY <1>2 DEF Score
  <2> QED BY <2>1, ScoredType
<1> QED BY <1>1, <1>2

\* An arrow highlights a row.
LEMMA MoveStays ==
  ASSUME NEW count \in Nat, count > 0, NEW a \in -1..(count - 1), NEW delta \in {-1, 1}
  PROVE  Move(a, delta, count) \in 0..(count - 1)
<1>1. \A n \in Int : n % count \in 0..(count - 1)
  OBVIOUS
<1> QED BY <1>1 DEF Move

\* The reader has just come.
LEMMA DialogInit == Init => DialogInv
<1> SUFFICES ASSUME Init PROVE DialogInv OBVIOUS
<1>1. NoRows \in [from : Sources \cup {None}, for : Queries, count : Nat] /\ NoRows.count = 0
  BY DEF NoRows
<1>2. DialogType
  <2>1. open \in BOOLEAN /\ dialog \in BOOLEAN /\ closing \in BOOLEAN
    BY DEF Init
  <2>2. /\ query \in Queries /\ active \in Int /\ source \in Sources
        /\ index \in Sources \cup {None} /\ fetching \in Sources \cup {None}
    BY DEF Init
  <2>3. rows \in [from : Sources \cup {None}, for : Queries, count : Nat]
    BY <1>1 DEF Init
  <2> QED BY <2>1, <2>2, <2>3 DEF DialogType
<1>3. CloseIsNews /\ OneRequest /\ DialogFollowsState /\ RowsAnswerTheQuery
  BY <1>1 DEF Init, CloseIsNews, OneRequest, DialogFollowsState, RowsAnswerTheQuery
<1> QED BY <1>2, <1>3 DEF DialogInv

\* One step for each handler.
LEMMA DialogStepInv == DialogInv /\ [Next]_vars => DialogInv'
<1> SUFFICES ASSUME DialogInv, [Next]_vars PROVE DialogInv' OBVIOUS
<1> USE DEF DialogInv, CloseIsNews, OneRequest, DialogFollowsState, RowsAnswerTheQuery
<1>1. ASSUME NEW f \in {"page", "trigger"}, Intent(f) PROVE DialogInv'
  BY <1>1, LoadRequests DEF Intent, DialogType
<1>2. CASE FocusPage
  BY <1>2 DEF FocusPage, DialogType
<1>3. CASE OpenDialog
  <2>1. /\ fetching' \in Sources \cup {None} /\ (fetching' # None => index = None)
        /\ open' = TRUE /\ ~dialog
        /\ UNCHANGED <<query, index, source, closing>>
    BY <1>3, LoadRequests DEF OpenDialog
  <2>2. CASE open
    BY <1>3, <2>1, <2>2 DEF OpenDialog, DialogType
  <2>3. CASE ~open
    <3>1. Score(index, query, -1) /\ dialog' = TRUE /\ focus' = "input"
      BY <1>3, <2>3 DEF OpenDialog
    <3>2. /\ rows' \in [from : Sources \cup {None}, for : Queries, count : Nat]
          /\ active' = -1 /\ (index # None => rows' = Scored(index, query))
      BY <3>1, ScoreAnswers DEF DialogType
    <3> QED BY <2>1, <2>3, <3>1, <3>2 DEF DialogType, Scored
  <2> QED BY <2>2, <2>3
<1>4. CASE FetchOk
  <2>1. /\ fetching \in Sources /\ index' = fetching /\ fetching' = None
        /\ UNCHANGED <<open, query, source, dialog, closing, focus>>
    BY <1>4 DEF FetchOk, DialogType
  <2>2. CASE open
    <3>1. Score(fetching, query, -1)
      BY <1>4, <2>2 DEF FetchOk
    <3>2. /\ rows' \in [from : Sources \cup {None}, for : Queries, count : Nat]
          /\ active' = -1 /\ rows' = Scored(fetching, query)
      BY <2>1, <3>1, ScoreAnswers DEF DialogType
    <3> QED BY <2>1, <2>2, <3>2 DEF DialogType, Scored
  <2>3. CASE ~open
    BY <1>4, <2>1, <2>3 DEF FetchOk, DialogType, NoRows
  <2> QED BY <2>2, <2>3
<1>5. CASE FetchFailed
  BY <1>5 DEF FetchFailed, DialogType, NoRows
<1>6. ASSUME NEW q \in Queries, Type(q) PROVE DialogInv'
  <2>1. /\ Score(index, q, -1) /\ query' = q /\ dialog
        /\ UNCHANGED <<open, index, fetching, source, dialog, closing, focus>>
    BY <1>6 DEF Type
  <2>2. /\ rows' \in [from : Sources \cup {None}, for : Queries, count : Nat]
        /\ active' = -1 /\ (index # None => rows' = Scored(index, q))
    BY <2>1, ScoreAnswers DEF DialogType
  <2> QED BY <2>1, <2>2 DEF DialogType, Scored
<1>7. ASSUME NEW delta \in {-1, 1}, Arrow(delta) PROVE DialogInv'
  <2>1. active' \in 0..(rows.count - 1)
    BY <1>7, MoveStays DEF Arrow, DialogType
  <2> QED BY <1>7, <2>1 DEF Arrow, DialogType
<1>8. ASSUME NEW f \in {"input", "dialog"}, FocusInside(f) PROVE DialogInv'
  BY <1>8 DEF FocusInside, DialogType
<1>9. ASSUME dialog, CloseNative PROVE DialogInv'
  BY <1>9 DEF CloseNative, DialogType
<1>10. ASSUME NEW i, Choose(i) PROVE DialogInv'
  BY <1>9, <1>10 DEF Choose
<1>11. CASE Dismiss \/ EscapeKey
  BY <1>9, <1>11 DEF Dismiss, EscapeKey
<1>12. ASSUME NEW b \in BOOLEAN, Press(b) PROVE DialogInv'
  BY <1>12 DEF Press, DialogType
<1>13. ASSUME NEW b \in BOOLEAN, Click(b) PROVE DialogInv'
  <2>1. CASE pressed /\ b
    BY <1>9, <1>13, <2>1 DEF Click
  <2>2. CASE ~(pressed /\ b)
    BY <1>13, <2>2 DEF Click, DialogType
  <2> QED BY <2>1, <2>2
<1>14. CASE CloseEvent
  <2>1. /\ fetching' \in Sources \cup {None} /\ (fetching' # None => index = None)
        /\ ~closing' /\ ~open' /\ ~dialog /\ active' = -1
        /\ closing' \in BOOLEAN /\ open' \in BOOLEAN
        /\ UNCHANGED <<query, rows, index, source, dialog>>
    BY <1>14, LoadRequests DEF CloseEvent
  <2> QED BY <2>1 DEF DialogType
<1>15. ASSUME NEW s \in Sources, Navigate(s) PROVE DialogInv'
  BY <1>15 DEF Navigate, DialogType
<1>16. CASE UNCHANGED vars
  BY <1>16 DEF vars, DialogType
<1> QED
  BY <1>1, <1>2, <1>3, <1>4, <1>5, <1>6, <1>7, <1>8, <1>10, <1>11, <1>12, <1>13, <1>14,
     <1>15, <1>16 DEF Next, DialogStep

\* The outline and the dialog share no variable, so a step of the shell is one
\* of the dialog or leaves it alone.
LEMMA ShellInvariance == ShellSpec => []DialogInv
<1>1. ShellInit => DialogInv
  BY DialogInit DEF ShellInit
<1>2. [ShellNext]_shell => [Next]_vars
  BY DEF ShellNext, shell, MoveAway, Next
<1>3. DialogInv /\ [ShellNext]_shell => DialogInv'
  BY <1>2, DialogStepInv
<1> QED BY <1>1, <1>3, PTL DEF ShellSpec
-----------------------------------------------------------------------------
\* However opening, Escape, the press on the backdrop and the queued close event
\* interleave, the dialog on show and the reducer's state agree (search.tsx).
THEOREM DialogFollows == ShellSpec => []DialogFollowsState
<1>1. DialogInv => DialogFollowsState BY DEF DialogInv
<1> QED BY <1>1, ShellInvariance, PTL

\* The rows on show are those of the index in hand for the words in the input,
\* for any index, also when it arrives late, and the highlight is one of them.
THEOREM RowsAnswer == ShellSpec => []RowsAnswerTheQuery
<1>1. DialogInv => RowsAnswerTheQuery BY DEF DialogInv
<1> QED BY <1>1, ShellInvariance, PTL
-----------------------------------------------------------------------------
(***************************************************************************)
(* The outline.  What is marked is right only once the browser has caught  *)
(* up, so the invariant says what each of its stages knows: the observer   *)
(* what the last frame showed, the entries and `seen` together which       *)
(* headings had passed the line in it, `atEnd` what the last scroll found, *)
(* and `marked` what follows from the last two, unless an entry waits.     *)
(***************************************************************************)

SpyType ==
  /\ article \in Articles
  /\ layout \in DOMAIN article /\ drawn \in DOMAIN article
  /\ y \in Nat /\ framed \in Nat
  /\ known \in [Headings -> {"new", "in", "out"}]
  /\ entries \in [Headings -> {"none", "below", "passed"}]
  /\ seen \subseteq Headings

DrawnIn(h) == TopDrawn(h) >= -Margin /\ TopDrawn(h) <= Line
DrawnEnd == framed > 0 /\ framed + Screen >= article[drawn].height

\* Whether h will be in `seen` once the callback has run.
Passed(h) == entries[h] = "passed" \/ (entries[h] = "none" /\ h \in seen)

\* A new observer has reported nothing; after a frame it knows of every heading.
ObserverKnows ==
  \/ \A h \in Headings : known[h] = "new" /\ entries[h] = "none"
  \/ \A h \in Headings : known[h] = IF DrawnIn(h) THEN "in" ELSE "out"

\* No heading has jumped over the reach of the observer's root unnoticed.
PassedIsDrawn ==
  ~far => \A h \in Headings : known[h] # "new" => (Passed(h) <=> TopDrawn(h) <= Line)

EndIsDrawn ==
  ~stale => drawn = layout /\ (Headings # {} => (atEnd <=> DrawnEnd))

MarkedIsDecided ==
  \/ marked = Decide(atEnd, seen)
  \/ \A h \in Headings : known[h] = "new"
  \/ \E h \in Headings : entries[h] # "none"

SpyInv == SpyType /\ ObserverKnows /\ PassedIsDrawn /\ EndIsDrawn /\ MarkedIsDecided

USE SpyAssumption

\* An element of a sequence.
LEMMA SeqElement ==
  ASSUME NEW S, NEW a \in Seq(S), NEW i \in DOMAIN a
  PROVE  a[i] \in S
OBVIOUS

LEMMA FirstLayout ==
  ASSUME NEW a \in Articles
  PROVE  1 \in DOMAIN a
<1>1. a \in Seq([height : Nat, tops : Seq(Nat)]) /\ a # <<>>
  OBVIOUS
<1> QED BY <1>1

\* The layouts of an article are of the same headings.
LEMMA LayoutType ==
  ASSUME NEW a \in Articles, NEW i \in DOMAIN a
  PROVE  /\ 1 \in DOMAIN a
         /\ a[i].height \in Nat /\ a[i].tops \in Seq(Nat)
         /\ Len(a[i].tops) = Len(a[1].tops)
         /\ DOMAIN a[i].tops = DOMAIN a[1].tops
         /\ \A h \in DOMAIN a[i].tops : a[i].tops[h] \in Nat
<1>1. a \in Seq([height : Nat, tops : Seq(Nat)]) /\ 1 \in DOMAIN a
  BY FirstLayout
<1>2. a[i] \in [height : Nat, tops : Seq(Nat)] /\ a[1] \in [height : Nat, tops : Seq(Nat)]
  BY <1>1, SeqElement
<1>3. a[i].height \in Nat /\ a[i].tops \in Seq(Nat) /\ a[1].tops \in Seq(Nat)
  BY <1>2
<1>4. Len(a[i].tops) = Len(a[1].tops)
  OBVIOUS
<1>5. \A h \in DOMAIN a[i].tops : a[i].tops[h] \in Nat
  BY <1>3, SeqElement
<1> QED BY <1>1, <1>3, <1>4, <1>5

\* A heading has a place in the layout on show and in the one last drawn.
LEMMA TopType ==
  ASSUME SpyType
  PROVE  /\ \A h \in Headings : Top(h) \in Int /\ TopDrawn(h) \in Int
         /\ Shown.height \in Nat /\ Len(Shown.tops) = Len(article[1].tops)
         /\ Headings = DOMAIN article[1].tops
<1>1. article \in Articles /\ layout \in DOMAIN article /\ drawn \in DOMAIN article
      /\ y \in Int /\ framed \in Int
  BY DEF SpyType
<1>2. /\ article[layout].height \in Nat
      /\ Len(article[layout].tops) = Len(article[1].tops)
      /\ DOMAIN article[layout].tops = DOMAIN article[1].tops
      /\ DOMAIN article[drawn].tops = DOMAIN article[1].tops
  BY <1>1, LayoutType
<1>3. \A h \in DOMAIN article[1].tops :
        article[layout].tops[h] \in Nat /\ article[drawn].tops[h] \in Nat
  BY <1>1, <1>2, LayoutType
<1>4. Headings = DOMAIN article[1].tops
  BY <1>2 DEF Shown, Headings
<1>5. ASSUME NEW h \in Headings
      PROVE  Top(h) \in Int /\ TopDrawn(h) \in Int
  <2>1. article[layout].tops[h] \in Nat /\ article[drawn].tops[h] \in Nat
    BY <1>3, <1>4
  <2>2. \A t \in Nat : t - y \in Int /\ t - framed \in Int
    BY <1>1
  <2> QED BY <2>1, <2>2, Zenon DEF Shown, Top, TopDrawn
<1> QED BY <1>2, <1>4, <1>5 DEF Shown

LEMMA SubscribeInv ==
  ASSUME NEW a \in Articles, NEW s \in Stops, Subscribe(a, s)
  PROVE  SpyInv'
<1>1. 1 \in DOMAIN a /\ s \in Nat
  BY FirstLayout
<1>2. Headings' = DOMAIN a[1].tops
  BY DEF Subscribe, Headings, Shown
<1>3. SpyType'
  BY <1>1, <1>2 DEF Subscribe, SpyType
<1>4. \A h \in Headings' : known'[h] = "new" /\ entries'[h] = "none"
  BY <1>2 DEF Subscribe
<1>5. EndIsDrawn'
  <2>1. Headings' # {} => a[1].tops # <<>>
    BY <1>2
  <2>2. /\ article' = a /\ layout' = 1 /\ drawn' = 1 /\ framed' = s
        /\ atEnd' = (s > 0 /\ s + Screen >= a[1].height /\ a[1].tops # <<>>)
    BY DEF Subscribe
  <2>3. Headings' # {} => (atEnd' <=> s > 0 /\ s + Screen >= a[1].height)
    BY <2>1, <2>2
  <2>4. DrawnEnd' <=> s > 0 /\ s + Screen >= a[1].height
    BY <2>2 DEF DrawnEnd
  <2> QED BY <2>2, <2>3, <2>4 DEF EndIsDrawn
<1> QED BY <1>3, <1>4, <1>5 DEF SpyInv, ObserverKnows, PassedIsDrawn, MarkedIsDecided

\* A step that moves no frame and runs no callback.
LEMMA ScrollInv ==
  ASSUME SpyInv, NEW s \in Stops, Scroll(s)
  PROVE  SpyInv'
<1>1. s \in Nat OBVIOUS
<1>2. /\ y' = s
      /\ UNCHANGED <<article, layout, framed, drawn, known, entries, seen, atEnd, marked,
                     stale, far>>
  BY DEF Scroll
<1>3. Headings' = Headings /\ Decide(atEnd, seen)' = Decide(atEnd, seen)
  BY <1>2 DEF Headings, Shown, Decide
<1>4. \A h : TopDrawn(h)' = TopDrawn(h) /\ DrawnIn(h)' = DrawnIn(h) /\ Passed(h)' = Passed(h)
  BY <1>2 DEF TopDrawn, DrawnIn, Passed
<1> QED
  BY <1>1, <1>2, <1>3, <1>4 DEF SpyInv, SpyType, ObserverKnows, PassedIsDrawn, EndIsDrawn,
                               DrawnEnd, MarkedIsDecided

LEMMA UnfoldInv ==
  ASSUME SpyInv, Unfold
  PROVE  SpyInv'
<1>1. /\ layout' \in DOMAIN article /\ stale' = TRUE
      /\ UNCHANGED <<article, y, framed, drawn, known, entries, seen, atEnd, marked, far>>
  BY DEF Unfold
<1>2. article \in Articles /\ layout \in DOMAIN article
  BY DEF SpyInv, SpyType
<1>3. /\ DOMAIN article[layout'].tops = DOMAIN article[layout].tops
      /\ Len(article[layout'].tops) = Len(article[layout].tops)
  BY <1>1, <1>2, LayoutType
<1>4. Headings' = Headings /\ Decide(atEnd, seen)' = Decide(atEnd, seen)
  BY <1>1, <1>3 DEF Headings, Shown, Decide
<1>5. \A h : TopDrawn(h)' = TopDrawn(h) /\ DrawnIn(h)' = DrawnIn(h) /\ Passed(h)' = Passed(h)
  BY <1>1 DEF TopDrawn, DrawnIn, Passed
<1> QED
  BY <1>1, <1>4, <1>5 DEF SpyInv, SpyType, ObserverKnows, PassedIsDrawn, EndIsDrawn,
                         MarkedIsDecided

LEMMA CallbackInv ==
  ASSUME SpyInv, Callback
  PROVE  SpyInv'
<1>1. /\ seen' = {h \in Headings : Passed(h)}
      /\ entries' = [h \in Headings |-> "none"]
      /\ marked' = Decide(atEnd, seen')
      /\ UNCHANGED <<article, layout, y, framed, drawn, known, atEnd, stale, far>>
  BY DEF Callback, Passed, NoEntries
<1>2. Headings' = Headings /\ \A S : Decide(atEnd, S)' = Decide(atEnd, S')
  BY <1>1 DEF Headings, Shown, Decide
<1>3. \A h \in Headings : /\ TopDrawn(h)' = TopDrawn(h) /\ DrawnIn(h)' = DrawnIn(h)
                          /\ Passed(h)' <=> Passed(h)
  BY <1>1 DEF TopDrawn, DrawnIn, Passed
<1>4. MarkedIsDecided'
  BY <1>1 DEF MarkedIsDecided, Decide, Shown
<1> QED
  BY <1>1, <1>2, <1>3, <1>4 DEF SpyInv, SpyType, ObserverKnows, PassedIsDrawn, EndIsDrawn, DrawnEnd

\* A heading that moved no further than the margin and stayed on one side of the
\* root's edges stayed on one side of the line.
LEMMA SameSide ==
  ASSUME NEW before \in Int, NEW after \in Int, after - before \in -Margin..Margin,
         (before >= -Margin /\ before <= Line) <=> (after >= -Margin /\ after <= Line)
  PROVE  before <= Line <=> after <= Line
OBVIOUS

LEMMA FrameInv ==
  ASSUME SpyInv, Frame
  PROVE  SpyInv'
<1> DEFINE now == [h \in Headings |-> IF Intersects(h) THEN "in" ELSE "out"]
           changed == {h \in Headings : now[h] # known[h]}
<1>1. /\ Headings # {}
      /\ known' = now
      /\ entries' = [h \in Headings |->
                       IF h \notin changed THEN entries[h]
                       ELSE IF ~Intersects(h) /\ Top(h) > 0 THEN "below" ELSE "passed"]
      /\ far' = (far \/ \E h \in Headings : Top(h) - TopDrawn(h) \notin -Margin..Margin)
      /\ framed' = y /\ drawn' = layout
      /\ UNCHANGED <<article, layout, y, seen>>
  BY DEF Frame
<1>2. SpyType /\ Headings' = Headings
  BY <1>1 DEF SpyInv, Headings, Shown
<1>3. \A h \in Headings : Top(h) \in Int /\ TopDrawn(h) \in Int
  BY <1>2, TopType
<1>4. \A h : TopDrawn(h)' = Top(h) /\ (DrawnIn(h)' <=> Intersects(h))
  BY <1>1 DEF TopDrawn, Top, Shown, DrawnIn, Intersects
<1>5. SpyType'
  <2>1. \A h \in Headings : entries[h] \in {"none", "below", "passed"}
    BY <1>2 DEF SpyType
  <2>2. entries' \in [Headings -> {"none", "below", "passed"}]
    BY <1>1, <2>1
  <2>3. known' \in [Headings -> {"new", "in", "out"}]
    BY <1>1
  <2> QED BY <1>1, <1>2, <2>2, <2>3 DEF SpyType
<1>6. ObserverKnows'
  BY <1>1, <1>2, <1>4 DEF ObserverKnows
<1>7. PassedIsDrawn'
  <2> SUFFICES ASSUME ~far', NEW h \in Headings
               PROVE  Passed(h)' <=> Top(h) <= Line
    BY <1>2, <1>4 DEF PassedIsDrawn
  <2>1. CASE h \in changed
    <3>1. entries'[h] = IF ~Intersects(h) /\ Top(h) > 0 THEN "below" ELSE "passed"
      BY <1>1, <2>1
    <3>2. Passed(h)' <=> ~(~Intersects(h) /\ Top(h) > 0)
      BY <3>1 DEF Passed
    <3> QED BY <1>3, <3>2 DEF Intersects
  <2>2. CASE h \notin changed
    <3>1. entries'[h] = entries[h] /\ seen' = seen /\ known[h] = now[h]
      BY <1>1, <2>2
    <3>2. Passed(h)' <=> Passed(h)
      BY <3>1 DEF Passed
    <3>3. ~far /\ Top(h) - TopDrawn(h) \in -Margin..Margin
      BY <1>1
    <3>4. known[h] = IF Intersects(h) THEN "in" ELSE "out"
      BY <3>1
    <3>5. Intersects(h) <=> DrawnIn(h)
      BY <3>4 DEF SpyInv, ObserverKnows
    <3>6. Passed(h) <=> TopDrawn(h) <= Line
      BY <3>3, <3>4 DEF SpyInv, PassedIsDrawn
    <3>7. TopDrawn(h) <= Line <=> Top(h) <= Line
      BY <1>3, <3>3, <3>5, SameSide DEF Intersects, DrawnIn
    <3> QED BY <3>2, <3>6, <3>7
  <2> QED BY <2>1, <2>2
<1>8. EndIsDrawn'
  <2>1. DrawnEnd' <=> End
    BY <1>1 DEF DrawnEnd, End, Shown
  <2>2. CASE y # framed
    <3>1. atEnd' = End
      BY <2>2 DEF Frame, MeasureEnd
    <3> QED BY <1>1, <2>1, <3>1 DEF EndIsDrawn
  <2>3. CASE y = framed
    <3>1. UNCHANGED <<atEnd, stale>>
      BY <2>3 DEF Frame
    <3>2. ~stale => (End <=> DrawnEnd)
      BY <2>3 DEF SpyInv, EndIsDrawn, DrawnEnd, End, Shown
    <3> QED BY <1>1, <1>2, <2>1, <3>1, <3>2 DEF SpyInv, EndIsDrawn
  <2> QED BY <2>2, <2>3
<1>9. MarkedIsDecided'
  <2>1. CASE \E h \in changed : TRUE
    <3>1. PICK h \in changed : TRUE BY <2>1
    <3>2. h \in Headings /\ entries'[h] # "none"
      BY <1>1, <3>1
    <3> QED BY <1>2, <3>2 DEF MarkedIsDecided
  <2>2. CASE changed = {}
    <3>1. entries' = entries
      BY <1>1, <1>2, <2>2 DEF SpyType
    <3>2. \A h \in Headings : known[h] # "new"
      BY <2>2
    <3>3. \/ marked = Decide(atEnd, seen)
          \/ \E h \in Headings : entries[h] # "none"
      BY <1>1, <3>2 DEF SpyInv, MarkedIsDecided
    <3>4. \/ marked' = marked /\ atEnd' = atEnd
          \/ marked' = Decide(atEnd', seen)
      BY DEF Frame, MeasureEnd
    <3>5. Decide(atEnd, seen)' = Decide(atEnd', seen)
      BY <1>1 DEF Decide, Shown
    <3> QED BY <1>2, <3>1, <3>3, <3>4, <3>5 DEF MarkedIsDecided
  <2> QED BY <2>1, <2>2
<1> QED BY <1>5, <1>6, <1>7, <1>8, <1>9 DEF SpyInv

LEMMA SpyInitInv == SpyInit => SpyInv
<1> SUFFICES ASSUME SpyInit PROVE SpyInv OBVIOUS
<1>1. 1 \in DOMAIN article
  BY FirstLayout DEF SpyInit
<1>2. SpyType
  BY <1>1 DEF SpyInit, SpyType, Unreported, NoEntries
<1> QED BY <1>2 DEF SpyInit, SpyInv, ObserverKnows, PassedIsDrawn, EndIsDrawn, DrawnEnd,
                    MarkedIsDecided, Unreported, NoEntries

LEMMA SpyStepInv == SpyInv /\ (SpyNext \/ UNCHANGED spy) => SpyInv'
<1> SUFFICES ASSUME SpyInv, SpyNext \/ UNCHANGED spy PROVE SpyInv' OBVIOUS
<1>1. ASSUME NEW a \in Articles, NEW s \in Stops, GoTo(a, s) PROVE SpyInv'
  BY <1>1, SubscribeInv DEF GoTo
<1>2. CASE UNCHANGED spy
  <2>1. Headings' = Headings /\ Decide(atEnd, seen)' = Decide(atEnd, seen)
    BY <1>2 DEF spy, Headings, Shown, Decide
  <2>2. \A h : TopDrawn(h)' = TopDrawn(h) /\ DrawnIn(h)' = DrawnIn(h) /\ Passed(h)' = Passed(h)
    BY <1>2 DEF spy, TopDrawn, DrawnIn, Passed
  <2> QED
    BY <1>2, <2>1, <2>2 DEF spy, SpyInv, SpyType, ObserverKnows, PassedIsDrawn, EndIsDrawn,
                            DrawnEnd, MarkedIsDecided
<1> QED BY <1>1, <1>2, ScrollInv, FrameInv, CallbackInv, UnfoldInv DEF SpyNext

\* Once the browser has caught up the outline marks the heading the reader is in:
\* for any article, any order of scrolling, frames, callbacks, folds and
\* navigation, and whatever the search dialog does meanwhile.
THEOREM OutlineNames == ShellSpec => []NamesTheReader
<1>1. ShellInit => SpyInv
  BY SpyInitInv DEF ShellInit
<1>2. SpyInv /\ [ShellNext]_shell => SpyInv'
  BY SpyStepInv DEF ShellNext, MoveAway, SpyNext, shell
<1>3. SpyInv => NamesTheReader
  <2> SUFFICES ASSUME SpyInv, Settled, Headings # {}, ~stale, ~far
               PROVE  marked = Decide(End, {h \in Headings : Top(h) <= Line})
    BY DEF NamesTheReader
  <2>1. drawn = layout /\ y = framed /\ \A h \in Headings : entries[h] = "none"
    BY DEF SpyInv, EndIsDrawn, Settled, NoEntries
  <2>2. \A h \in Headings : known[h] # "new"
    BY DEF Settled
  <2>3. (atEnd <=> End) /\ \A h : TopDrawn(h) = Top(h)
    BY <2>1 DEF SpyInv, EndIsDrawn, DrawnEnd, End, Shown, Top, TopDrawn
  <2>4. \A h \in Headings : h \in seen <=> Top(h) <= Line
    BY <2>1, <2>2, <2>3 DEF SpyInv, PassedIsDrawn, Passed
  <2>5. seen = {h \in Headings : Top(h) <= Line}
    BY <2>4 DEF SpyInv, SpyType
  <2>6. marked = Decide(atEnd, seen)
    BY <2>1, <2>2 DEF SpyInv, MarkedIsDecided
  <2> QED BY <2>3, <2>5, <2>6 DEF Decide
<1> QED BY <1>1, <1>2, <1>3, PTL DEF ShellSpec
=============================================================================
