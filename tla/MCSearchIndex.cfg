SPECIFICATION Spec
CONSTANTS
  Chars <- MCChars
  Kinds <- MCKinds
  IsCjk = {2, 7, 8}
  Nfkc <- MCNfkc
  Arabic <- MCArabic
  Lower <- MCLower
  Gone = Gone
  Weight <- MCWeight
  Idf <- MCIdf
  Space = 1
  Root <- MCRoot
  Corpora <- MCCorpora
  Audiences <- MCAudiences
  Keys = {1, 4, 5, 6, 7, 8}
  MaxQuery = 3
  Nothing <- MCNothing
INVARIANTS FindsExactly FindsWhatIsOnThePage RankedByEvidence AcceptedIsQueryable
CHECK_DEADLOCK FALSE
