SPECIFICATION Spec
CONSTANTS
  Sources = {en, ar}
  Queries = {Blank, word, other}
  Blank = Blank
  Hits <- MCHits
  None = None
  en = en
  ar = ar
  word = word
  other = other
PROPERTIES RowsAreOfThisSource
