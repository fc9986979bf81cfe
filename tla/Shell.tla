------------------------------- MODULE Shell -------------------------------
(***************************************************************************)
(* The shell of a docs page in one tab: the search dialog and the outline  *)
(* of the article behind it (src/render/page.tsx mounts both).  Neither    *)
(* reads the state of the other, and a navigation moves both: to another   *)
(* page of the same bundle and language only the outline has something to  *)
(* do, to another language, version or project the search has too.         *)
(***************************************************************************)
EXTENDS SearchDialog, HeadingSpy

shell == <<vars, spy>>

\* DocsShell: both hooks are mounted with it and stay.
ShellInit == Init /\ SpyInit

\* Another bundle or language: a new source for the index and a new article.
MoveAway(s, a, to) == Navigate(s) /\ GoTo(a, to)

ShellNext ==
  \/ DialogStep /\ UNCHANGED spy
  \/ SpyNext /\ UNCHANGED vars
  \/ \E s \in Sources, a \in Articles, to \in Stops : MoveAway(s, a, to)

ShellSpec == ShellInit /\ [][ShellNext]_shell
=============================================================================
