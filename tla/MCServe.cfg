SPECIFICATION Spec
CONSTANTS
  Walk <- MCWalk
  Snippets = {"note"}
  Langs = {"en", "ja"}
  Src = "en"
  Uses <- MCUses
  Links <- MCLinks
  Nav <- MCNav
  Trees <- MCTrees
  Todo = "todo"
  None = None
  MaxCommits = 3
  Readers = {"en", "ja", "ar"}
  Odd = "JA_jp"
  Unknown = "nowhere"
INVARIANTS BundleHasShape EveryLinkAnswers AlternatesMatchNoindex SearchMatchesPage
           OneHop SilentPageIsFresh
CHECK_DEADLOCK FALSE
