------------------------------ MODULE Install ------------------------------
(***************************************************************************)
(* Wiring a consuming website for a docs mount: what `install` writes and  *)
(* prints, what `verify-install` answers, the build whose prebuild runs    *)
(* both prefetch and the generated guard, and the person who follows what  *)
(* is printed while the repository is cloned, edited and its submodule     *)
(* moved (kit/src/wiring, commands/install.ts, commands/verify-install.ts).*)
(* A file is the answer its predicate would give: absent, right for this   *)
(* site, right for one mount, or somebody's own.                           *)
(***************************************************************************)
EXTENDS Prebuild

CONSTANTS Conventional,   \* the mount proposed when nothing on disk names one
          Own,            \* there and refused by its predicate
          Starts,         \* the repositories and how much may happen to each
          Rewrites        \* the scripts a person may give the site

\* The seventeen edits, in the order of the table.
Edits == <<"submodule", "workspace-exclusion", "tsconfig-paths", "tsconfig-react-types",
           "tsconfig-resolve-json", "deploy-hash-dirs", "prebuild-hook", "check-docs-shim",
           "gitignore", "site-config", "docs-server", "route-page-module",
           "route-machine-module", "routes", "root-seo", "sitemap", "mcp-json">>

ByHand == {"submodule", "tsconfig-resolve-json", "site-config", "routes", "root-seo", "sitemap"}

\* Files: a list of mounts, or None where nothing needs the entry; one mount; the answer
\* for this site alone.
Lists      == {"workspace-exclusion", "deploy-hash-dirs"}
MountFiles == {"tsconfig-paths", "mcp-json"}
Generated  == {"check-docs-shim", "docs-server"}
Files      == Range(Edits) \ {"submodule", "prebuild-hook"}

\* What a repository is before anything is known of its files.
IsSite(s) ==
  /\ s \in [declared : Mounts \cup {None}, pinned : BOOLEAN, at : Mounts \cup {None},
           deps : BOOLEAN, pre : {s.pre}, build : {s.build}, file : {s.file}]
  /\ IsScript(s.pre) /\ IsScript(s.build)

ASSUME InstallAssumption ==
  /\ Conventional \in Mounts
  /\ \A start \in Starts : IsSite(start.site)
  /\ \A s \in Rewrites : IsScript(s)

VARIABLES
  site,   \* [declared, pinned, at, deps, pre, build, file]: the stanza, the gitlink, the
          \* checkout, node_modules, the two scripts and the files above
  left    \* how much may still happen to the repository

vars == <<site, left>>
-----------------------------------------------------------------------------
\* detectSite: the checkout the command runs from, the stanza, the convention.
Mount(s) == IF s.at # None THEN s.at ELSE IF s.declared # None THEN s.declared ELSE Conventional

\* readRouteTable and routeTableProblems, over a table the insertions are in: the loader
\* resolves the relative imports of docs.server and nothing else.
RoutesServed(s) ==
  /\ s.file["site-config"] # None
  /\ s.deps /\ s.file["docs-server"] # None /\ s.file["docs-server"] = s.at
  /\ s.file["routes"] = Here

\* PRESENT, the predicate install and verify-install share.
Present(s, e) ==
  CASE e = "submodule"     -> s.declared = Mount(s)
    [] e = "prebuild-hook" -> Chained(s.pre, s.build, Mount(s))
    [] e = "routes"        -> RoutesServed(s)
    [] e = "site-config"   -> s.file[e] # None
    [] e \in Lists         -> s.file[e] = None \/ Mount(s) \in s.file[e]
    [] e \in MountFiles    -> s.file[e] = Mount(s)
    [] e \in Generated     -> s.file[e] \in Mounts
    [] OTHER               -> s.file[e] = Here
-----------------------------------------------------------------------------
\* verify-install: the nine rows.

SubmoduleRow(s) == Present(s, "submodule") /\ s.pinned

WorkspaceRow(s) == Present(s, "workspace-exclusion")

\* The targets exist, in the mount and in node_modules.
TsconfigRow(s) ==
  /\ \A e \in {"tsconfig-paths", "tsconfig-react-types", "tsconfig-resolve-json"} : Present(s, e)
  /\ s.at = Mount(s) /\ s.deps

DeployRow(s) == Present(s, "deploy-hash-dirs")

PrebuildRow(s) ==
  \A e \in {"prebuild-hook", "check-docs-shim", "gitignore"} : Present(s, e)

RoutesRow(s) ==
  \A e \in {"docs-server", "route-page-module", "route-machine-module", "routes"} : Present(s, e)

\* A config without pages has nothing for root to decide about.
RootRow(s) == s.file["site-config"] = Here /\ Present(s, "root-seo")

SitemapRow(s) == s.file["site-config"] # None /\ Present(s, "sitemap")

McpRow(s) == Present(s, "mcp-json") /\ s.at = Mount(s)

Verified(s) ==
  /\ SubmoduleRow(s) /\ WorkspaceRow(s) /\ TsconfigRow(s) /\ DeployRow(s) /\ PrebuildRow(s)
  /\ RoutesRow(s) /\ RootRow(s) /\ SitemapRow(s) /\ McpRow(s)
-----------------------------------------------------------------------------
\* install.

\* insertPathEntries, mcpJson, and the appliers that create: only what is not there.
InsertAbsent(s, e, value) == IF s.file[e] = None THEN {[s EXCEPT !.file[e] = value]} ELSE {}

\* APPLY: what the applier makes of the site, nothing when it refuses.
Apply(s, e) ==
  CASE e \in ByHand          -> {}
    [] e \in Lists           -> {[s EXCEPT !.file[e] = @ \cup {Mount(s)}]}
    [] e = "check-docs-shim" -> {[s EXCEPT !.file[e] = Mount(s)]}
    [] e = "gitignore"       -> {[s EXCEPT !.file[e] = Here]}
    [] e = "prebuild-hook"   -> {[s EXCEPT !.pre = p] : p \in Hooked(s.pre, s.build, Mount(s))}
    [] e \in MountFiles \cup {"docs-server"} -> InsertAbsent(s, e, Mount(s))
    [] OTHER                 -> InsertAbsent(s, e, Here)

\* One turn of install's loop: what is there stays, and what the applier makes has to
\* satisfy the predicate.
Written(s, e) == IF Present(s, e) THEN {} ELSE {t \in Apply(s, e) : Present(t, e)}

Turn(s, e) == IF Written(s, e) = {} THEN {s} ELSE Written(s, e)

\* The sites the loop may have after i edits, and the one it ends with.
Loop(s) ==
  LET after[i \in 0..Len(Edits)] ==
        IF i = 0 THEN {s} ELSE UNION {Turn(t, Edits[i]) : t \in after[i - 1]}
  IN  after

Installed(s) == CHOOSE t \in Loop(s)[Len(Edits)] : TRUE

\* Mutant of Printed: a refusal prints nothing.
PrintedByHand(s) == {e \in ByHand : ~Present(s, e)}

\* The edits whose instruction is printed: refused, or left to a person.
Printed(s) == {e \in Range(Edits) : ~Present(s, e) /\ Written(s, e) = {}}

Install ==
  /\ site' = Installed(site)
  /\ UNCHANGED left
-----------------------------------------------------------------------------
\* The person.

\* The commands of a script, none of one only a shell can split.
Commands(s) == IF IsChain(s) THEN s ELSE <<>>

\* Those that neither name the guard nor are blank, each going on when it succeeds.
Kept(s) ==
  LET chain == Commands(s)
      first[i \in 0..Len(chain)] ==
        IF i = 0 THEN <<>>
        ELSE IF chain[i].does \in {"step", "compile"}
        THEN Append(first[i - 1], [chain[i] EXCEPT !.after = "&&"])
        ELSE first[i - 1]
  IN  first[Len(chain)]

Closed(chain) == IF chain = <<>> THEN None ELSE [chain EXCEPT ![Len(chain)].after = "end"]

\* The scripts of that, with the fragment in front or behind.
Rechained(s, m) ==
  {[s EXCEPT !.pre = p, !.build = Closed(Kept(s.build))] :
     p \in {Closed([Fragment(m) EXCEPT ![2].after = "&&"] \o Kept(s.pre)),
            Kept(s.pre) \o Fragment(m)}}

\* What the printed instruction of e asks for.
Followed(s, e) ==
  CASE e = "submodule"     -> {[s EXCEPT !.declared = Mount(s), !.pinned = TRUE, !.at = Mount(s)]}
    [] e = "site-config"   -> {[s EXCEPT !.file[e] = Own]}
    [] e = "prebuild-hook" -> {t \in Rechained(s, Mount(s)) : Present(t, e)}
    [] e \in MountFiles \cup Generated -> {[s EXCEPT !.file[e] = Mount(s)]}
    [] OTHER               -> {[s EXCEPT !.file[e] = Here]}

Follow(e) ==
  /\ e \in Printed(site)
  /\ site' \in Followed(site, e)
  /\ UNCHANGED left

\* The remedies verify-install names beyond the instructions: the gitlink, the checkout,
\* the dependencies, the import the loader refused, and sync for the pages.
Pin ==
  /\ Present(site, "submodule") /\ ~site.pinned /\ site.at = site.declared
  /\ site' = [site EXCEPT !.pinned = TRUE]
  /\ UNCHANGED left

Checkout ==
  /\ site.at = None /\ site.pinned
  /\ site' = [site EXCEPT !.at = site.declared]
  /\ UNCHANGED left

Dependencies ==
  /\ ~site.deps
  /\ site' = [site EXCEPT !.deps = TRUE]
  /\ UNCHANGED left

FollowLoader ==
  /\ site.deps /\ site.file["routes"] = Here
  /\ site.at # None /\ site.file["docs-server"] \in Mounts \ {site.at}
  /\ site' = [site EXCEPT !.file["docs-server"] = site.at]
  /\ UNCHANGED left

Sync ==
  /\ site.at # None /\ site.file["site-config"] = Own
  /\ site' = [site EXCEPT !.file["site-config"] = Here]
  /\ UNCHANGED left
-----------------------------------------------------------------------------
\* What else happens to a repository.

Happens(s) ==
  /\ left > 0
  /\ left' = left - 1
  /\ site' = s

\* A fresh clone on the deploy host or a laptop.
Clone ==
  /\ site.pinned \/ site.declared = None
  /\ Happens([site EXCEPT !.at = None, !.deps = FALSE])

Move == \E m \in Mounts \ {site.at} :
  /\ site.at # None /\ site.at = site.declared
  /\ Happens([site EXCEPT !.at = m, !.declared = m])

Rewrite == \E e \in Files : \E v \in IF e \in Lists THEN {{}} ELSE {None, Own} :
  /\ site.file[e] \notin {None, v}
  /\ Happens([site EXCEPT !.file[e] = v])

EditPrebuild == \E s \in Rewrites : Happens([site EXCEPT !.pre = s])

Init == \E start \in Starts : site = start.site /\ left = start.left

Next ==
  \/ Install \/ \E e \in Range(Edits) : Follow(e)
  \/ Pin \/ Checkout \/ Dependencies \/ FollowLoader \/ Sync
  \/ Clone \/ Move \/ Rewrite \/ EditPrebuild

\* Somebody runs install, follows what it prints and mends what verify-install names.
Fairness ==
  /\ WF_vars(Install) /\ \A e \in Range(Edits) : WF_vars(Follow(e))
  /\ WF_vars(Pin) /\ WF_vars(Checkout) /\ WF_vars(Dependencies)
  /\ WF_vars(FollowLoader) /\ WF_vars(Sync)

Spec == Init /\ [][Next]_vars /\ Fairness
-----------------------------------------------------------------------------
\* The build.

\* A command can only succeed where its launcher is, and the guard only on a verified site.
CanSucceed(s, command) ==
  /\ command.does = "prefetch" => command.at \in {s.at, Odd}
  /\ command.does = "guard" =>
       \/ command.at = Odd
       \/ s.file["check-docs-shim"] = s.at /\ Verified(s)

Outcomes(s, chain) ==
  {out \in [DOMAIN chain -> BOOLEAN] : \A i \in DOMAIN chain : out[i] => CanSucceed(s, chain[i])}

\* `||` reaches command i through a pipeline or a line break, or the shell may have ended
\* before it.
Overlooked(s, i) ==
  \/ \E j \in 1..(i - 2) :
       s[j].after = "||" /\ \A k \in (j + 1)..(i - 1) : s[k].after = "|" \/ s[k].does = "nothing"
  \/ \E j \in 1..(i - 1) : s[j].does = "exit"

\* Every command of the check's ran and succeeded.
RanAll(chain, out) ==
  \A i \in Running(chain, {"prefetch", "guard"}) : i \in Shell(chain, out).ran /\ out[i]

\* Once the check finds the chain wired, no build ends well unless every prefetch and every
\* guard in it ran and succeeded and the whole site verified, whatever fails on the way
\* (readPrebuild, maskingProblems, checkDocsShim).  Left out are the three shapes the check
\* does not look at: the two by which `||` reaches a command, and a command behind one that
\* may end the shell, as in `test -d x || exit 0; <prefetch> && <guard>`.
NothingShipsUnwired ==
  LET pre == Commands(site.pre)  build == Commands(site.build)
  IN  /\ Chained(site.pre, site.build, Mount(site))
      /\ \A s \in {pre, build} : \A i \in Running(s, {"prefetch", "guard"}) : ~Overlooked(s, i)
      => \A p \in Outcomes(site, pre), b \in Outcomes(site, build) :
           Shell(pre, p).ok /\ Shell(build, b).ok =>
             Verified(site) /\ RanAll(pre, p) /\ RanAll(build, b)

\* What install makes of a prebuild somebody else wrote ends as theirs did and runs what
\* theirs ran, when the prefetch and the guard succeed (APPLY.prebuildHook).
InstallKeepsTheBuild ==
  LET old == Commands(site.pre)  new == Installed(site).pre
  IN  new # site.pre =>
        \A out \in [DOMAIN old -> BOOLEAN] :
          LET then == Shell(new, [i \in DOMAIN new |-> i > Len(new) - Len(Fragment(None)) \/ out[i]])
          IN  /\ then.ok = Shell(old, out).ok
              /\ then.ran \cap Running(old, {"step", "compile", "exit"})
                   = Shell(old, out).ran \cap Running(old, {"step", "compile", "exit"})

\* However the site starts and whatever happens to it, running install, following what it
\* prints and mending what verify-install names ends with every row green (install.ts run,
\* PRESENT, PROBES).
EventuallyWired == <>[]Verified(site)
=============================================================================
