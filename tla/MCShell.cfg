SPECIFICATION ShellSpec
CONSTANTS
  Sources = {en, ar}
  Queries = {Blank, word, other}
  Blank = Blank
  Hits <- MCHits
  None = None
  en = en
  ar = ar
  word = word
  other = other
  Articles <- MCArticles
  Screen = 10
  Line = 3
  Margin = 15
  Stops = {0, 10, 20, 30}
INVARIANTS DialogFollowsState RowsAnswerTheQuery NamesTheReader
