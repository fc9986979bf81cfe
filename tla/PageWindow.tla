----------------------------- MODULE PageWindow -----------------------------
(***************************************************************************)
(* windowEnd (src/site/agents.ts): where a window of get_page ends.  A     *)
(* text is a sequence of UTF-16 code units, of which only the line break   *)
(* and the two halves of a surrogate pair matter.  Offsets count from 0,   *)
(* so text[i] is the unit before offset i.                                 *)
(***************************************************************************)
EXTENDS Integers, Sequences

CONSTANT Window  \* PAGE_WINDOW, 20 000 in the code

ASSUME WindowAssumption == Window \in Nat /\ Window >= 2

Units == {"x", "nl", "hi", "lo"}

\* lastIndexOf("\n", end - 1) + 1: the offset after the last break before end.
AfterBreak(text, end) ==
  LET breaks == {i \in 1..end : text[i] = "nl"}
  IN  IF breaks = {} THEN 0 ELSE CHOOSE i \in breaks : \A j \in breaks : j <= i

\* Mutant of windowEnd: the end is not moved off the middle of a pair.
EndInPair(text, offset) ==
  LET far == offset + Window
  IN  IF far >= Len(text) THEN Len(text)
      ELSE IF AfterBreak(text, far) > offset + Window \div 2 THEN AfterBreak(text, far)
      ELSE far

\* At most Window on, pulled back to a line break in the second half, and off
\* the middle of a pair.
windowEnd(text, offset) ==
  LET far  == offset + Window
      line == IF 2 * (AfterBreak(text, far) - offset) > Window THEN AfterBreak(text, far) ELSE far
  IN  IF far >= Len(text) THEN Len(text)
      ELSE IF text[line] = "hi" THEN line - 1 ELSE line

\* A cut at `end` leaves the halves of a pair on its two sides.
SplitsPair(text, end) == 0 < end /\ end < Len(text) /\ text[end] = "hi" /\ text[end + 1] = "lo"
=============================================================================
