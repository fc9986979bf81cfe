SPECIFICATION PreviewSpec
CONSTANTS
  Marks = {m1, m2}
  Pages = {q1, q2}
  NoMark = NoMark
  FixupBlurs = {TRUE, FALSE}
INVARIANTS OneOpen NeverOverRevealed OpenIsAccountedFor
PROPERTIES MissedOnlyOnRemoval LeftAloneCloses
