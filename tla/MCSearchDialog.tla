--------------------------- MODULE MCSearchDialog ---------------------------
\* Two indexes that give different numbers of rows for the same two queries, so
\* that a list grows, shrinks and empties under the highlight.
EXTENDS SearchDialog, TLC

CONSTANTS en, ar, word, other

MCHits == en :> (Blank :> 0 @@ word :> 2 @@ other :> 1)
       @@ ar :> (Blank :> 0 @@ word :> 0 @@ other :> 2)
=============================================================================
