----------------------------- MODULE SiteConfig -----------------------------
(***************************************************************************)
(* <project>.docs.json of a consuming site and the two commands that keep  *)
(* it: `hexdocs label` (kit/src/commands/label.ts), which checks a commit  *)
(* and returns a patch, and `hexdocs sync` (kit/src/commands/sync.ts),     *)
(* which writes into it what the cached manifests say.  Both meet people:  *)
(* a patch is applied by hand, when the table may no longer be the one it  *)
(* was checked against, and the entries are edited in between.             *)
(*                                                                         *)
(* The file is its values.  Its spelling, the spans sync edits and the     *)
(* refusals about them are left out.  `pages` and `hidden` are sets: sync  *)
(* writes them in the one order of the manifest.                           *)
(***************************************************************************)
EXTENDS Naturals, Sequences, FiniteSets

CONSTANTS Commits,
          Slugs,
          Address,     \* Address[s] : addressOf(s); `guide` and `guide/index` share one
          PagesOf,     \* PagesOf[c] : the pages of the manifest of c
          HiddenOf,    \* HiddenOf[c] : those a nav entry hides
          RedirectsOf, \* RedirectsOf[c] : its redirect table, old slug to page
          Misfiled,    \* commits whose manifest declares another project
          Misnamed,    \* commits whose manifest declares another commit of the project
          Labels,
          Fold,        \* Fold[l] : the label in lower case
          NoPin,       \* a version with no `digest`; a digest is named by its commit
          Unpublished, \* bound: the commits whose bundle is not in the bucket yet
          MaxVersions, \* bound: the length of the table
          MaxPatches   \* bound: patches proposed and not applied yet

ASSUME SiteConfigAssumption ==
  /\ Slugs \subseteq DOMAIN Address
  /\ \A c \in Commits :
       /\ PagesOf[c] \subseteq Slugs
       /\ HiddenOf[c] \subseteq PagesOf[c]
       /\ DOMAIN RedirectsOf[c] \subseteq Slugs \ PagesOf[c]
       /\ \A s \in DOMAIN RedirectsOf[c] : RedirectsOf[c][s] \in PagesOf[c]
  /\ Misfiled \subseteq Commits /\ Misnamed \subseteq Commits
  /\ Unpublished \subseteq Commits
  /\ Labels \subseteq DOMAIN Fold
  /\ NoPin \notin Commits
  /\ MaxVersions \in Nat \ {0}
  /\ MaxPatches \in Nat

VARIABLES
  versions,  \* `versions`, newest first
  site,      \* `pages`, `hidden` and `redirects`
  published, \* the commits whose bundle is in the bucket
  cache,     \* cache[c] : the cached manifest of c
  proposed,  \* patches `label` returned with every row green
  report,    \* how the last sync ended
  untouched  \* history: nobody edited the file since that sync

vars == <<versions, site, published, cache, proposed, report, untouched>>

Entries == [label : Labels, commit : Commits, pin : Commits \cup {NoPin}, default : BOOLEAN]
Patches == [label : Labels, commit : Commits]

Defaults(vs) == {i \in DOMAIN vs : vs[i].default}

\* versionTableProblems is empty: one default, no label and no commit twice.
TableOk(vs) ==
  /\ \E i \in DOMAIN vs : Defaults(vs) = {i}
  /\ \A i, j \in DOMAIN vs : i # j => /\ Fold[vs[i].label] # Fold[vs[j].label]
                                      /\ vs[i].commit # vs[j].commit

\* The default version's commit, where the table has one answer.
Default(vs) == vs[CHOOSE i \in DOMAIN vs : vs[i].default].commit

\* docsSiteConfigSchema: what hides is published, a redirect ends at a page, and
\* no source has the address of a page or of another source.
SchemaOk(s) ==
  /\ s.hidden \subseteq s.pages
  /\ \A from \in DOMAIN s.redirects :
       /\ s.redirects[from] \in s.pages
       /\ \A o \in (s.pages \cup DOMAIN s.redirects) \ {from} : Address[o] # Address[from]

\* What a manifest says `pages`, `hidden` and `redirects` should be.
SiteOf(c) == [pages |-> PagesOf[c], hidden |-> HiddenOf[c], redirects |-> RedirectsOf[c]]

\* Mutant of Pinned: a digest that is there already is kept.
PinnedOnce(vs) ==
  [i \in DOMAIN vs |-> IF cache[vs[i].commit] = "whole" /\ vs[i].pin = NoPin
                       THEN [vs[i] EXCEPT !.pin = vs[i].commit] ELSE vs[i]]

\* Every version whose manifest is cached carries the digest of that manifest.
Pinned(vs) ==
  [i \in DOMAIN vs |-> IF cache[vs[i].commit] = "whole"
                       THEN [vs[i] EXCEPT !.pin = vs[i].commit] ELSE vs[i]]
-----------------------------------------------------------------------------
\* A config as `scaffold site` writes it: one version, the default, never synced.
Init ==
  /\ \E c \in Commits, l \in Labels :
       versions = <<[label |-> l, commit |-> c, pin |-> NoPin, default |-> TRUE]>>
  /\ site = [pages |-> {}, hidden |-> {}, redirects |-> [s \in {} |-> s]]
  /\ published = Commits \ Unpublished
  /\ cache = [c \in Commits |-> "absent"]
  /\ proposed = {}
  /\ report = "none"
  /\ untouched = FALSE

\* Mutant of LabelShape: the table is searched for the label alone.
LabelOnly(l, c) == \A i \in DOMAIN versions : Fold[versions[i].label] # Fold[l]

\* label-shape: neither the label nor the commit is in the table.
LabelShape(l, c) ==
  \A i \in DOMAIN versions : Fold[versions[i].label] # Fold[l] /\ versions[i].commit # c

\* label-bundle-exists: the bucket decides, and the cache when nobody can ask it.
\* A cached manifest is not read for this, so a torn one counts.
BundleExists(c, asked) == IF asked THEN c \in published ELSE cache[c] # "absent"

\* A green label run returns the entry.  It writes nothing.  Its third row, whether
\* the commit is on the app's default branch, is about no state of this system.
Label(l, c, asked) ==
  /\ Cardinality(proposed) < MaxPatches
  /\ LabelShape(l, c)
  /\ BundleExists(c, asked)
  /\ proposed' = proposed \cup {[label |-> l, commit |-> c]}
  /\ UNCHANGED <<versions, site, published, cache, report, untouched>>

\* Somebody edits `versions` by hand, and the rest of the file stays as it was.
Edit(vs) ==
  /\ versions' = vs
  /\ untouched' = FALSE
  /\ UNCHANGED <<site, published, cache, report>>

\* The patch goes above the newest entry: not the default, and no digest.
ApplyPatch(e) ==
  /\ e \in proposed
  /\ Len(versions) < MaxVersions
  /\ proposed' = proposed \ {e}
  /\ Edit(<<[label |-> e.label, commit |-> e.commit, pin |-> NoPin, default |-> FALSE]>>
          \o versions)

\* Moving the default is two edits, and either may be forgotten.
ToggleDefault(i) ==
  /\ Edit([versions EXCEPT ![i].default = ~@])
  /\ UNCHANGED proposed

\* The commit under a label is replaced, and the digest below it is left.
Relabel(i, c) ==
  /\ Edit([versions EXCEPT ![i].commit = c])
  /\ UNCHANGED proposed

\* Mutant of Retire: the last entry goes too.
RetireLast(i) ==
  /\ Edit(SubSeq(versions, 1, i - 1) \o SubSeq(versions, i + 1, Len(versions)))
  /\ UNCHANGED proposed

\* A version is retired.  The schema wants one entry at least.
Retire(i) ==
  /\ Len(versions) > 1
  /\ Edit(SubSeq(versions, 1, i - 1) \o SubSeq(versions, i + 1, Len(versions)))
  /\ UNCHANGED proposed

Publish(c) ==
  /\ published' = published \cup {c}
  /\ UNCHANGED <<versions, site, cache, proposed, report, untouched>>

\* prefetch downloads the manifest of a labelled commit, or is cut off in it.
Prefetch(c, got) ==
  /\ TableOk(versions)
  /\ \E i \in DOMAIN versions : versions[i].commit = c
  /\ c \in published
  /\ cache[c] # "whole"
  /\ cache' = [cache EXCEPT ![c] = got]
  /\ UNCHANGED <<versions, site, published, proposed, report, untouched>>
-----------------------------------------------------------------------------
\* What sync may go on with: a table with one answer, a default whose manifest can
\* be read and is this project's, and a result the next reader will accept.
Syncable ==
  /\ TableOk(versions)
  /\ cache[Default(versions)] = "whole"
  /\ Default(versions) \notin Misfiled
  /\ SchemaOk(SiteOf(Default(versions)))

\* Pages that left the bundle with no redirect behind them.
Dropped ==
  LET c == Default(versions) IN site.pages \ (PagesOf[c] \cup DOMAIN RedirectsOf[c])

\* Versions that keep whatever digest they had.
Missing == {i \in DOMAIN versions : cache[versions[i].commit] # "whole"}

\* The file is corrected also when a row fails.
SyncWrites ==
  /\ Syncable
  /\ site' = SiteOf(Default(versions))
  /\ versions' = Pinned(versions)
  /\ report' = IF Dropped = {} /\ Missing = {} THEN "green" ELSE "failed"
  /\ untouched' = TRUE
  /\ UNCHANGED <<published, cache, proposed>>

\* Nothing was written.
SyncRefuses ==
  /\ ~Syncable
  /\ report' = "refused"
  /\ untouched' = TRUE
  /\ UNCHANGED <<versions, site, published, cache, proposed>>

Next ==
  \/ \E l \in Labels, c \in Commits, asked \in BOOLEAN : Label(l, c, asked)
  \/ \E e \in proposed : ApplyPatch(e)
  \/ \E i \in DOMAIN versions : ToggleDefault(i) \/ Retire(i)
  \/ \E i \in DOMAIN versions, c \in Commits : Relabel(i, c)
  \/ \E c \in Commits : Publish(c) \/ Prefetch(c, "torn") \/ Prefetch(c, "whole")
  \/ SyncWrites \/ SyncRefuses

Spec == Init /\ [][Next]_vars
-----------------------------------------------------------------------------
TypeOK ==
  /\ versions \in Seq(Entries) /\ Len(versions) \in 1..MaxVersions
  /\ site.pages \subseteq Slugs /\ site.hidden \subseteq Slugs
  /\ DOMAIN site.redirects \subseteq Slugs
  /\ published \subseteq Commits
  /\ cache \in [Commits -> {"absent", "torn", "whole"}]
  /\ proposed \subseteq Patches /\ Cardinality(proposed) <= MaxPatches
  /\ report \in {"none", "refused", "failed", "green"}
  /\ untouched \in BOOLEAN

\* What prefetch finds wrong with a version before it downloads an object of it: the
\* table, the pin, the project and commit the manifest declares (prefetch asks every
\* version, where sync asks the default and for its project alone), and a default
\* whose pages are not the ones the site routes.
PrefetchRefuses(i) ==
  LET v == versions[i] IN
  \/ ~TableOk(versions)
  \/ v.pin \notin {v.commit, NoPin}
  \/ v.commit \in Misfiled \cup Misnamed
  \/ v.default /\ site.pages # PagesOf[v.commit]

\* A manifest under the wrong prefix that sync pins all the same.
Foreign(i) ==
  \/ versions[i].commit \in Misnamed
  \/ versions[i].commit \in Misfiled /\ ~versions[i].default

\* After a green sync every version carries the pin of its own commit, and prefetch
\* refuses none of them, whatever patches were applied late and whatever was
\* relabelled, except a foreign manifest.  A green sync is no promise about those,
\* nor about the objects a manifest names, which sync never reads.
GreenSyncIsFetchable ==
  report = "green" /\ untouched =>
    \A i \in DOMAIN versions : /\ versions[i].pin = versions[i].commit
                               /\ PrefetchRefuses(i) => Foreign(i)

\* A patch that was green and goes into the table it was checked against leaves a
\* table both commands read.
GreenPatchFits ==
  [][\A e \in proposed :
       ApplyPatch(e) /\ TableOk(versions) /\ LabelShape(e.label, e.commit)
         => TableOk(versions')]_vars
=============================================================================
