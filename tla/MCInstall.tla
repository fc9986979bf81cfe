----------------------------- MODULE MCInstall -----------------------------
(***************************************************************************)
(* Install on two mounts.                                                  *)
(***************************************************************************)
EXTENDS Install

CONSTANTS Common, Beside

MCMounts == {Common, Beside}

Step    == Command("step", Here, "end")
Compile == Command("compile", Here, "end")

\* hex-web's shape: a glob enrols the mount, a shared asset script is the prebuild.
Unwired(deps) ==
  [declared |-> None, pinned |-> FALSE, at |-> None, deps |-> deps,
   pre |-> <<Step>>, build |-> <<Compile>>,
   file |-> [e \in Files |-> CASE e \in Lists -> {}
                               [] e = "tsconfig-resolve-json" -> Here
                               [] e \in {"root-seo", "sitemap"} -> Own
                               [] OTHER -> None]]

\* kcalc's shape: nothing enrols the mount and there is no prebuild.
Inline == [Unwired(TRUE) EXCEPT !.pre = None, !.build = <<[Step EXCEPT !.after = "&&"], Compile>>,
                                !.file["workspace-exclusion"] = None]

Wired(m) ==
  [declared |-> m, pinned |-> TRUE, at |-> m, deps |-> TRUE,
   pre |-> Fragment(m), build |-> <<Compile>>,
   file |-> [e \in Files |-> CASE e \in Lists -> {m}
                               [] e \in MountFiles \cup Generated -> m
                               [] OTHER -> Here]]

\* A stanza without its gitlink, and a fragment and a server of an older kit.
Upgraded == [Wired(Beside) EXCEPT !.pinned = FALSE,
                                  !.pre = <<Command("prefetch", Odd, "&&"), Command("guard", Here, "end")>>,
                                  !.file["docs-server"] = Own]

Some == {Command("prefetch", Common, "end"), Command("guard", Here, "end"),
             Step, Command("exit", Here, "end"), Command("nothing", Here, "end")}

More == Some \cup {Compile, Command("prefetch", Odd, "end"), Command("guard", Odd, "end")}

\* Every chain of n commands.
Chains(commands, n) ==
  {[i \in 1..n |-> [c[i] EXCEPT !.after = IF i = n THEN "end" ELSE op[i]]] :
     c \in [1..n -> commands], op \in [1..(n - 1) -> Operators \ {"end"}]}

Builds == {<<Compile>>, <<Command("guard", Here, "&&"), Compile>>,
           <<Command("prefetch", Common, "&&"), Command("guard", Here, "&&"), Compile>>,
           <<Command("prefetch", Common, "&&"), Compile>>, Opaque, Other, None}

Scripted(pre, build) == [Wired(Common) EXCEPT !.pre = pre, !.build = build]

MCStarts ==
  [site : {Unwired(TRUE), Unwired(FALSE), Inline, Upgraded, Wired(Common)}, left : {1}]
  \cup [site : {Scripted(pre, build) :
                  pre \in (UNION {Chains(More, n) : n \in 1..2}) \cup {None, Opaque, Other}, build \in Builds}
               \cup {Scripted(pre, <<Compile>>) : pre \in Chains(Some, 3)},
        left : {0}]

MCRewrites == {<<Step>>, Opaque, None}
=============================================================================
