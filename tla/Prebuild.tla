------------------------------ MODULE Prebuild ------------------------------
(***************************************************************************)
(* The build chain of a consuming site: the scripts `prebuild` and `build` *)
(* of its package.json as the shell runs them, as the wiring check reads   *)
(* them and as `install` appends to them (kit/src/wiring/prebuild.ts,      *)
(* edits.ts).  A script is a sequence of commands, each with the operator  *)
(* behind it; of a command only what the check tells apart is kept.        *)
(***************************************************************************)
EXTENDS Naturals, Sequences, FiniteSets, SequencesExt

CONSTANTS Mounts,   \* where in the repository the package may be
          Here,     \* right for this site
          Odd,      \* a command the check refuses: other arguments, another site
          None,     \* a script that is not there
          Opaque,   \* a script only a shell can split, and which names the guard
          Other     \* one that names nothing of this package

Operators == {"&&", "||", ";", "&", "|", "newline", "end"}
\* "exit" is a command that ends the shell or takes its place.
Kinds     == {"prefetch", "guard", "compile", "step", "exit", "nothing"}

\* at : the mount of the launcher, Here for the guard of this site, or Odd.
Command(does, at, after) == [does |-> does, at |-> at, after |-> after]

Segments == [does : Kinds, at : Mounts \cup {Here, Odd}, after : Operators]

ASSUME PrebuildAssumption ==
  Here # Odd /\ \A s \in {None, Opaque, Other} : s \notin Seq(Segments)

\* prebuildFragment.
Fragment(m) == <<Command("prefetch", m, "&&"), Command("guard", Here, "end")>>

IsChain(s) == s \notin {None, Opaque, Other}

\* A script that can be split is at least one command, and the last alone has no operator
\* behind it.
IsScript(s) ==
  IsChain(s) =>
    /\ s \in Seq(Segments)
    /\ s # <<>>
    /\ \A i \in DOMAIN s : s[i].after = "end" <=> i = Len(s)

Running(s, does) == IF IsChain(s) THEN {i \in DOMAIN s : s[i].does \in does} ELSE {}
-----------------------------------------------------------------------------
\* The shell.

\* Whether the next command runs, after the operator r.op: a pipeline runs or is skipped as
\* a whole, and nothing runs in a shell that has ended.
Goes(r) == /\ r.gone = "no"
           /\ r.op = "&&" => r.ok
           /\ r.op = "||" => ~r.ok
           /\ r.op = "|"  => r.go

\* No command is needed before a line break, which continues the line, nor at the end.
Continues(op, next) == \/ next = "newline"
                       \/ next = "end" /\ op \notin {"&&", "||", "|"}

\* Where the shell has ended behind a command: nowhere, in a list that may yet turn out to
\* be in the background and a shell of its own, or for good.  A pipeline is one too.
Gone(s, r, i) ==
  LET exits == Goes(r) /\ s[i].does = "exit" /\ "|" \notin {r.op, s[i].after}
  IN  IF ~exits /\ r.gone # "list" THEN r.gone
      ELSE IF s[i].after = "&" THEN "no"
      ELSE IF s[i].after \in {";", "newline"} THEN "shell" ELSE "list"

\* One command, which out says would succeed or fail; a background command succeeds.
Run(s, out, r, i) ==
  IF s[i].does = "nothing"
  THEN [r EXCEPT !.valid = @ /\ Continues(r.op, s[i].after)]
  ELSE [op    |-> s[i].after,
        go    |-> Goes(r),
        ok    |-> IF r.gone = "shell" THEN r.ok
                  ELSE s[i].after = "&" \/ (IF Goes(r) THEN out[i] ELSE r.ok),
        ran   |-> IF Goes(r) THEN r.ran \cup {i} ELSE r.ran,
        gone  |-> Gone(s, r, i),
        valid |-> r.valid]

\* The shell after i commands of the script.
Trace(s, out) ==
  LET after[i \in 0..Len(s)] ==
        IF i = 0 THEN [op |-> ";", go |-> TRUE, ok |-> TRUE, ran |-> {}, gone |-> "no",
                          valid |-> TRUE]
        ELSE Run(s, out, after[i - 1], i)
  IN  after

\* What `sh -c` does with a script, given how each command would end: nothing at all when
\* an operator has no command beside it.
Shell(s, out) ==
  LET r == Trace(s, out)[Len(s)]
  IN  IF r.valid THEN [ok |-> r.ok, ran |-> r.ran] ELSE [ok |-> FALSE, ran |-> {}]
-----------------------------------------------------------------------------
\* The check.

\* splitScript takes a line break for `;`.
After(s, i) == IF s[i].after = "newline" THEN ";" ELSE s[i].after

Before(s, i) == IF i = 1 THEN "start" ELSE After(s, i - 1)

\* Mutant of Masked: only the operators beside the command.
MaskedBeside(s, i) == Before(s, i) = "||" \/ After(s, i) \notin {"&&", "end"}

\* maskingProblems: the command may be skipped, or its failure be lost on the way to the
\* end of the script.
Masked(s, i) == Before(s, i) = "||" \/ \E j \in i..Len(s) : After(s, j) \notin {"&&", "end"}

\* An operator with no command on one side of it.
Dangling(s) ==
  \E i \in Running(s, {"nothing"}) :
    \/ After(s, i) \notin {"end", ";"}
    \/ After(s, i) = "end" /\ Before(s, i) \notin {"start", ";", "&"}

PrefetchHolds(s, i, m) ==
  s[i].at = m /\ ~Masked(s, i) /\ \A j \in Running(s, {"compile"}) : j > i

GuardHolds(s, i) == s[i].at = Here /\ ~Masked(s, i)

\* readPrebuild finds no problem in prebuild, which runs first, and build.
Chained(pre, build, m) ==
  LET Launchers(s) == Running(s, {"prefetch"})
      Guards(s)    == Running(s, {"guard"})
  IN  /\ \A s \in {pre, build} :
           /\ s # Opaque
           /\ Running(s, {"prefetch", "guard"}) # {} => ~Dangling(s)
           /\ \A i \in Launchers(s) : PrefetchHolds(s, i, m)
           /\ \A i \in Guards(s) : GuardHolds(s, i)
      /\ Launchers(pre) \cup Launchers(build) # {}
      /\ IF Launchers(build) = {}
         THEN Guards(build) # {} \/ \E g \in Guards(pre) : \A i \in Launchers(pre) : g > i
         ELSE \E g \in Guards(build) : \A i \in Launchers(build) : g > i
-----------------------------------------------------------------------------
\* The edit.

\* namesTheGuard.
NamesTheGuard(s) == s \in {Opaque, Other} \/ Running(s, {"prefetch", "guard"}) # {}

EndsInOperator(s) ==
  Len(s) > 1 /\ s[Len(s)].does = "nothing" /\ s[Len(s) - 1].after # "newline"

Blank(s) == Len(s) = 1 /\ s[1].does = "nothing"

\* Mutant of Hooked: the fragment runs whatever the script before it came to.
HookedAnyway(pre, build, m) ==
  IF NamesTheGuard(pre) \/ NamesTheGuard(build) THEN {}
  ELSE IF pre = None \/ Blank(pre) THEN {Fragment(m)}
  ELSE {[pre EXCEPT ![Len(pre)].after = ";"] \o Fragment(m)}

\* APPLY.prebuildHook: the new prebuild, or nothing when it refuses.
Hooked(pre, build, m) ==
  IF NamesTheGuard(pre) \/ NamesTheGuard(build) THEN {}
  ELSE IF pre = None \/ Blank(pre) THEN {Fragment(m)}
  ELSE IF EndsInOperator(pre) THEN {}
  ELSE {[pre EXCEPT ![Len(pre)].after = "&&"] \o Fragment(m)}
=============================================================================
