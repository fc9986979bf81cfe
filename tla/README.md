# A TLA+ model of hexdocs

hexdocs compiles a repository's markdown into a *bundle*: one JSON page per address, a
search index, assets and a manifest that names every object with its SHA-256. A bundle
lives in S3 under a prefix that carries the project, the AST major and the commit. A
consuming site labels commits with version names in its configs, fetches the bundles it
labels before it is built, and renders them with the runtime in `src/src`.

    build -> publish -> (S3) -> label -> prefetch -> sync -> site build -> route, render, search, agents

The modules here model the parts of that chain that have state over time, failures,
interleavings, or two halves that have to agree. They are translated from the source; every
definition that stands for code is listed in `PROJECT.json` under `map` with the lines it models.

## 1. Inventory

Paths are relative to the repository; `kit` is the toolchain, `src` the runtime.

| Component | State it keeps | Operations | What makes it correct |
| --- | --- | --- | --- |
| build (`kit/src/compile`, `commands/build.ts`) | the bundle directory on disk | compile, lint, write the manifest last, verify | a bundle has the shape its readers assume; a directory with a manifest is complete; nothing is overwritten |
| publish (`kit/src/commands/publish.ts`) | the prefix in S3; the locals of a run | list, head the manifest, reconcile, put, verify after a 412, report | a stored manifest is complete; stored bytes never change; the report is true; an abandoned run can be finished |
| S3 client (`kit/src/s3`) | none | list by pages, head, get, conditional put, each one `aws` process | an absent object, a taken key, a raced key and a refusal are told apart |
| exec (`kit/src/exec`) | none | run a recipe with a timeout | a killed process is a failure, never a success |
| bucket policies (`infra`) | the policies | deny an unconditional put, deny delete | write-once holds against every principal but the operator |
| prefetch (`kit/src/commands/prefetch.ts`) | the machine's cache, the site's two trees | fill, verify, plan, prune, extract, skew | after a run the trees hold exactly what the configs name; whatever was cut off is repaired; no bytes but the pinned ones |
| label (`kit/src/commands/label.ts`) | none: it returns a patch | name a commit, move the default | the table it proposes is a valid one |
| sync (`kit/src/commands/sync.ts`) | the site's config file | write pages, hidden, redirects and digests from the cache | idempotent; a vanished slug without a redirect fails; a digest lands in its own version |
| install, verify-install (`kit/src/commands`, `wiring`) | files of a consuming repository | detect, plan edits, apply or print them; read the wiring | an unwired site cannot ship; the build it had still runs; following what is printed ends wired |
| init, scaffold, page commands | files of an app repository | plan edits, apply them | idempotent; a refused edit leaves nothing half done |
| writer (`kit/src/io/write.ts`) | files; or a record of them | write, remove, read, exists | the recording writer of a dry run reports what the file writer would do |
| MCP server (`kit/src/mcp`) | the session | line-delimited JSON-RPC, tool calls confined to a root | one answer for each request, in order |
| preview of `:more` (`src/src/render/client.ts`, `more.tsx`) | open, timer, hovered, focused; the page's one open preview | enter, leave, focus, blur, Escape, scroll, reveal, navigate | one preview at a time, never over revealed text, open while wanted and closed when not |
| search dialog (`src/src/render/search.tsx`, `site/search-state.ts`) | the reducer's state, the `<dialog>` element, the index it fetched, the close event that is queued | load, open, type, arrow, choose, close, navigate | dialog and state agree; rows answer the query |
| heading spy (`useHeadingSpy` in `render/client.ts`) | what the observer reported, whether the page is at its end, the heading marked | observe, scroll, resize, navigate | the heading named is the one read |
| other client hooks (`render/client.ts`) | disclosures, announcements, copy buttons | media queries, clicks | nothing is stolen from the reader |
| route and serve (`src/src/site`) | none: a table built from config and bundle | request to page, redirect, fallback, notice, alternates, sitemap, markdown | total, one hop, and all outputs agree on what a page is |
| agent surfaces (`src/src/site/agents.ts`) | one table of token buckets per handler and process | negotiate, open a session, read a page in windows, limit | an agent that follows the protocol reads the whole page; the limit is the one promised |
| search query (`src/src/search`, `kit/src/compile/search.ts`) | the index file | tokenise, index, validate, decode, score | the query finds what the build indexed, in the order of the evidence |
| lint, markdown compiler, assets, themes, templates, skills, cli | none beyond a call | text to text | pure, or output only |

How they interact: publish reads the directory build wrote; publish and prefetch meet in the
bucket, through nothing but objects and their checksums; prefetch and sync meet in the cache;
label and sync write the config that prefetch and the router read; install writes the scripts
that make prefetch run before a build. Build and the runtime share formats (manifest, page,
index) that each side implements for itself. In the browser the search dialog, the previews and
the hooks share the mounted shell, which survives navigation, and the document's focus.

What is hard: several publishers and prefetchers without a lock between them; `aws` calls that
time out and are applied later; processes that die between two writes or inside one; files that
are opened in place; React refs that outlive the page or the bundle they were filled for; timers,
observer callbacks and queued events that arrive after the state they were armed in has changed;
a clock that is set back; a shell script whose operators decide whether a failed guard stops the
build; a translation state that is worse than the page's own file says, because of what it includes.

## 2. Modules

| Module | Models | State against the code |
| --- | --- | --- |
| `BundleStore` | what a prefix promises a reader | `store`: no bundle, or one manifest with the bytes of every object it names |
| `Publish` | `publish.run` over the S3 client, one prefix, any number of publishers | `bucket` is what S3 holds and what a head reports of it (a digest, or `NoSum` for an object stored without a checksum). `listed` is `present`, `missing` the queue, `clash` whether `mismatched` is empty, `found` is `preflight.kind`, `cur` the key `upload` was called with. `inflight` holds the puts that outlived their process |
| `Release` | `writeBundle` and `verifyBundle` in front of `Publish` | `dir` the bundle directory, `writing` and `left` the build that runs, `report` how the last one ended |
| `Prefetch` | `prefetch.run` from the shape check of the trees to its report | `cache` is `~/.cache/hexdocs`, `tree` both trees of a site, `pending`, `at`, `todo`, `key` the loops of `fill`, `plan` what `planFor` read, `left` the files `extract` has still to write |
| `SiteConfig` | `label.run`, `sync.run` and the people between them, over one `<project>.docs.json` | `versions` is the table; `site` holds `pages`, `hidden` and `redirects`; `cache` the manifests in the machine's cache; `proposed` the patches that were printed and are not applied; `report` the last sync; `untouched` is history: no edit since |
| `Corpus` | a documentation repository and `buildBundle` | the tree, a text being its language and the source version it was made from, and the committer date of every file; a bundle is a function of the two |
| `Serve` | `site/serve.ts`, `route.ts`, `notice.ts` over a bundle of `Corpus` | the config of the last sync; everything a request gets is an operator over config and bundle |
| `Preview` | `usePreview` and `More` | `open`, `timer`, `hovered`, `focused` by component; `current` is the module's variable; `pointer` and `focusOn` are the reader's |
| `SearchDialog` | `DocsSearch` and `searchReducer` | `state` is the reducer's; `dialog` the element; `index`, `loading` the refs; `closing` the close event that is queued; `chose` the row picked, for the close event to follow |
| `HeadingSpy` | `useHeadingSpy` | scroll position and layout, now and in the last frame, the observer's last report, the id shown |
| `Shell` | both of the above in the shell of a page | their variables; navigation moves both |
| `Terms`, `SearchIndex` | the tokeniser; the index from builder to scorer | the pages indexed, the file a client holds, the query typed so far |
| `RateLimit`, `Buckets` | what the limit promises; `tokenBuckets` | one bucket per client that refills by itself; a `Map` in order of use that refills when asked |
| `PageWindow`, `Agents` | `windowEnd`; the MCP endpoint and an agent that reads a page through it | the table of buckets, the page's text, where the agent is in the protocol and in the page |
| `Prebuild`, `Install` | the scripts of `package.json` as the shell runs and the check reads them; `install`, `verify-install` and the build of the site | `site`: the stanza, the gitlink, the checkout, the two scripts and the other files, each the answer its predicate gives |
| `PublishProofs`, `PrefetchProofs`, `SiteConfigProofs`, `ServeProofs`, `AgentsProofs`, `SearchProofs`, `ShellProofs`, `InstallProofs` | theorems (section 4) | |

`MC*` modules give the constants their values for the runs of section 3.

Each of the calls of a run is a step: a run is synchronous, but between two calls every other
process may act. What happens inside one call is one step, with three exceptions that the code
exposes: a listing is read page by page, a put may be applied after its process is gone, and
`get-object` truncates a file before it writes it.

**Publish.** `Start` stands for the local verification and the media types, after which a run
lists (`ListPage`), asks for the manifest when the listing named it (`Preflight`), heads every
listed object (`HeadObject`), decides (`Decide`) and uploads, objects in any order and the
manifest last. A put may be answered (`PutOk`), find the key taken (`PutExists`, also by its own
first attempt, which the aws CLI repeats by itself), be raced (`PutConflict`, retried once) or be
lost (`PutLost`). After a 412 the key is headed (`VerifyExisting`). `ForeignPut` is another
principal that the bucket policy still allows a conditional put, `OperatorDelete` the operator
who follows the message about a key without a checksum. The order of the uploads is free in the
model, which is more than the code does: `planned` is a list, and nothing rests on its order but
the manifest's place.

**Release.** One publisher's directory is built here. `BuildStart`, `Put`, `Kill` are a build file
by file; the manifest goes last, a file with other bytes ends the build, and a build that is
killed inside a file leaves it torn for good. `BuildStart(m)` with another bundle is a checkout
with another kit that compiles the same commit into the same directory. `Starts` puts
`verifyBundle` before the upload. An operator clears the directory when a build was refused or
ended without verifying; nothing in the code does.

**Prefetch.** `Start` reads the table, `ReadManifest`, `Accept` and `CheckObject` are `fill`,
`GetBegin`, `GetEnd` and `Verify` a download, `Placeholders` the scaffold row, then `Plan`,
`Prune` file by file, `ExtractManifest` and `ExtractObject` with a torn `Write` between, and
`Finish`. `EditConfigs` is a relabel between or during runs, `Publish` a bundle that appears.
`Flaw` says what is wrong with a bundle, so that every early return of the run is reachable.

**SiteConfig.** `Label` is a green `hexdocs label`: it writes nothing and returns a patch, so
`ApplyPatch` is a person's step and may come when the table is another. `ToggleDefault` (moving
the default is two edits), `Relabel` (the digest stays behind) and `Retire` are the other edits the
docs ask people for. `Prefetch` fills the cache, or is cut off in it. `SyncWrites` and
`SyncRefuses` are `sync.run`: it writes also when a row fails, and writes nothing when the table,
the cached manifest of the default or the resulting file is refused. The file is its values: the
spans sync edits and their refusals are left out, and so is label's ancestry row, which asks the
app's own git. `pages` and `hidden` are sets, since sync writes them in the manifest's order.
`SchemaOk` compares addresses and not slugs, because `guide` and `guide/index` are one address.

**Corpus and Serve.** Authors write, translate, scaffold, copy and delete pages and snippets, mark
drafts and declare redirects, one commit each, and `Bundle` compiles the tree: the state of a page
is the worst of its own file and of what it includes. Serving is `Corpus` read from the other end: lookup, redirect,
the language that is shown and its notice, `noindex`, the sitemap's alternates
and the search rows, which two packages decide from different parts of the bundle. Left out are
the markdown of a page (one call of the function that chooses the page's language), the sidebar's
tree, groups and order, hidden pages, anchors, assets, pinned versions and two commits with one date;
the walk of the tree is taken to start with the source language. A reader's language may have no tree
at all.

**Agents.** The agent probes, agrees on a protocol version, opens a session where the version has
one, reads the page window by window and waits as long as it is told to. Its answers may get lost,
the process may be redeployed (a new table, maybe another text), strangers ask from other
addresses and the clock may be set back. The search endpoint has a second table of the same
function, which is not composed. Answers that cost no token (405, 500, 403) and those that fail
after the limit (415, 406, 413, a parse error) are one kind of refusal each that changes nothing
the properties see. What an agent
has read is kept with the set of texts it came from, so that a deploy between two windows is told
from a page that stayed. A bucket's age is not counted past `MaxAge`: by then it is full even after
`MaxBack` steps back. `capacity` and `refillPerSecond` are any numbers in the code, so tokens are
counted in units of which `Unit` make one, and a rate and a capacity may be any fractions; the
rounding of floating point is left out, and so is a capacity of less than one token, with which
nobody is ever served. An agent whose newest version has a session begins with `initialize`, which
names that version alone. Where the server lacks it the answer is the server's newest session
version (`agents.ts:1147`), and an agent without that one gives up although both may have an older
one: `Understood` leaves it out of what `EveryAgentReads` promises, and one of the clients of the
run is such an agent.

**Preview.** A mark is a component that React keeps across pages. `OnPointerEnter` to `OnBlur`
are the handlers; `Enter`, `Leave`, `FocusMark`, ... the reader's moves that call them. Where the
mouse and the focus are is kept apart from the refs `hovered` and `focused`, which are what the
handlers were told: `MissedLeave` and `MissedBlur` are a ref that is still set although nobody is
there, `MissedOnlyOnRemoval` says which steps can bring that about, and `LeftAloneCloses` that a
preview the reader has left closes wherever they did not.
`FixupBlurs` says whether a browser fires `blur` when a focused element is removed: browsers
differ, so `preview` runs with both. Focus that reaches a link inside while the close timer runs
does not clear the timer (client.ts:747), and neither does the model.

**Search dialog, heading spy, shell.** `Load` runs on intent (hover, focus of the trigger) or on
opening; `FetchOk` and `FetchFailed` come at any later time; `loading` is never reset
(search.tsx:136). `dialog.close()` queues a `close` event that runs later. `Hits` is the number of
rows a source's index gives a query. The spy's observer reports crossings in a frame and its
callback runs after more scrolling; the scroll listener only asks whether the page is at its end.
Two things make it name another heading, and the model keeps them apart as the code's comments
do: a layout that changes without a scroll or resize event (`stale`), and a heading that moves
further than the margin between two frames (`far`), by a scroll, a fold or both. A page without headings keeps the old id. Dialog and outline share no
state; only a navigation moves both.

**Terms and SearchIndex.** A text is a sequence of characters; NFKC, the Arabic folding and lower
case are tables by character, and `FoldingAssumption` says what the code relies on of them (folding
twice is folding once, lower case stays in its class). A character whose NFKC form or lower case is
several, such as U+0130, is outside the model. The index is built, may be damaged (cut off, or
written by another builder: `Damaged` changes one number, posting, term or section), is accepted or
not, and is queried. Scores are integers in thousandths, rounded up, where the code has floating
point; the logarithm is a table, and a divisor all sections share is left out; so are snippets,
highlights and the header's constants.

**Prebuild and Install.** A script is a sequence of commands, each with the operator behind it.
`Running` and `Masked` are what the wiring check reads, `Shell` what the shell does, and the two
are compared over every outcome of every command, so builds need no action of their own. A command
may also end the shell or take its place (`exit`, `exec`): `Gone` says where that leaves the rest,
since a list in the background and a pipeline are shells of their own. A file
of the repository is the answer its predicate gives: absent, right for this site, right for one
mount, somebody's own. People clone, move the submodule, rewrite files and follow what is
printed; `Rechained` is a person who rewrites a script until the check has nothing left to say. A
clone happens only when the gitlink is there: of a stanza without one the printed remedy
(`git add <mount>`) has nothing to add. Left out: the arm of the prebuild row for a script shared
by two hooks, deploy configs without a matching project, invalid configs, a missing git, addresses
listed by hand in a sitemap, and the flags that name a mount or a bucket.

## 3. Runs

| Run | Question | Bounds, and why they are enough |
| --- | --- | --- |
| `publish` | May a reader trust a manifest (`ManifestImpliesComplete`, `WriteOnce`), an operator a report (`PublishedIsStored`, `FailureHasACause`), and does the upload implement `BundleStore` (`ImplementsStore`)? | Two publishers, so every race there is between runs; three bundles (`m1`; `m1` and one object more; `m1` with another digest), so that manifests differ over equal, nested and clashing objects; two listing pages with the manifest on the second; a foreign writer of an object and of the manifest key; one fault of any kind anywhere. |
| `release` | Does a directory on disk hold what its manifest says (`DirectoryIsWhole`), does a publish upload what it verified (`UploadsWhatWasVerified`), and is a bundle published in the end (`EventuallyPublished`)? | Two bundles, one killed build, one build by another kit, one fault of the upload; a second publisher at the prefix. No foreign writer, since `publish` has it. No symmetry, because liveness is checked. 399,972 states. |
| `prefetch` | Are the trees exact after a run (`PrefetchedIsExact`, `PruneIsBacked`), and are they repaired after every relabel, cut download and crash (`EventuallyExact`, which asks for success again and again and counts none from before)? | One process; five tables: a relabel, two versions, a wrong pin, a flawed bundle, a skewed page list; one fault. 329,775 states. |
| `prefetch_torn` | Are they exact with two processes on one cache? Refuted. | No fault is needed. |
| `site_config` | Is the file one that prefetch and the router accept, whatever is applied late (`GreenSyncIsFetchable`, `GreenPatchFits`)? | Four commits: a rename with its redirect; the same without it and with a page more, not published yet; a page that moved to `guide/index` and redirects `guide`, the same address, and whose manifest declares another commit; one that declares another project. Two labels that differ in case, one that does not; two versions, since every rule of the table is about a pair; one patch waiting. 640,200 states. |
| `serve` | Has every bundle the shape its readers assume (`BundleHasShape`), does every link and redirect answer in one hop (`EveryLinkAnswers`, `OneHop`), and do notice, `noindex`, alternates and search rows agree on every page (`AlternatesMatchNoindex`, `SearchMatchesPage`, `SilentPageIsFresh`)? | Every bundle that three commits lead to from four trees: nothing translated; a page and its snippet translated; a renamed page with a redirect that is still linked by its first name; a page that exists as a translation alone. Three slugs, one snippet, two languages and a reader's language without a tree. 54,721 states. |
| `preview` | Every order of mouse, focus, timers, scroll, reveal and navigation: is one preview open, never over revealed text and never without a reason (`OneOpen`, `NeverOverRevealed`, `OpenIsAccountedFor`), do the refs lose the reader only where the code takes a handler or an element away (`MissedOnlyOnRemoval`), and does a preview the reader has left close (`LeftAloneCloses`)? | Two marks, since one preview closes the other; two pages, so that a component is reused and a page comes back; both answers to the focus question. 67,136 states. |
| `search` | Do dialog, state and rows agree (`DialogFollowsState`, `RowsAnswerTheQuery`), and is the heading named the one read (`NamesTheReader`)? | The `Shell` on two sources with different numbers of rows, three queries, one queued close event; three articles: one with a part that folds, one of two screens, one without headings; a screen of 10 rows, the line at 3, a margin of 15, so that of the stops 0, 10, 20, 30 some jumps are longer than the margin. 1,396,640 states. |
| `search_stale` | Are the rows those of the bundle in view? Refuted. | The same sources. |
| `search_index` | Does a query find the sections it names and no other (`FindsExactly`), also in the words on the page (`FindsWhatIsOnThePage`), in the order of the evidence (`RankedByEvidence`), and may a file that passed the validation be asked (`AcceptedIsQueryable`)? | Every query of up to three characters of six keys over small corpora of two pages and three sections that share prefixes, hold marks that fold, a full-width letter, ideographs and punctuation between them; a file with one number, posting, term or section wrong, asked for the words of its dictionary. 12,004 states. |
| `agents` | Does an agent read the whole page, unbroken (`WholePage`, `EveryAgentReads`), is the table the limit that is promised (`ImplementsLimit`, `RecentKeysKept`), and is `Retry-After` enough (`RetryAfterSuffices`)? | Windows of four units on texts with line breaks and surrogate pairs at the window's end, and an empty one; clients of one and of two protocol revisions, supported and not, also one whose newest version has a session the server does not know; a bucket of one token that gets two thirds of one a second, so that a wait is one to three seconds; two keys of three kept, one clock step back, one lost answer, one deploy. 404,610 states. |
| `install` | Does a build of a wired site end well only if the guard and the prefetch ran (`NothingShipsUnwired`), does `install` keep the build it found (`InstallKeepsTheBuild`), and does following what is printed end wired (`EventuallyWired`)? | Two mounts; five shapes of a repository with one event each (a clone, a move, a rewrite); and a wired site with every prebuild of at most two commands under seven builds, and every prebuild of three commands of five kinds, joined by every operator. 14,890 states. |

The bounds by name: `MaxFaults` counts refused, raced and lost calls and crashes; `ForeignKeys` are
the keys another principal may take; `Pages` the length of a listing; `MaxKills` and `MaxOthers`
the builds killed and those of another kit; `Tables` the version tables an editor may write;
`MaxVersions` the length of the version table; `MaxPatches` the patches that wait; `Unpublished`
the commits whose bundle appears during the run; `MaxCommits` the commits of an author; `Stops`
the offsets a reader scrolls to; `Keys` and `MaxQuery` of `SearchIndex` what a reader types;
`MaxBack`, `MaxLost` and `MaxDeploys` the clock steps back, the lost answers and the deploys;
`left` of `Install` the events of a repository. `CHECK_DEADLOCK FALSE` stands in `serve` (the
history ends at `MaxCommits`), in `agents` (the agent is done) and in `search_index` (a damaged file is only read).
`install` cannot deadlock: a dry run can always be repeated.

What the runs show that a test would hardly reach: a publisher that loses every put, times out or
dies never leaves a manifest without its objects, also when its puts land after another run has
decided; a torn listing is harmless, because what it missed is met again by the conditional put; a
run with no refused call fails only when the prefix really disagrees with it. A patch that was checked
against an older table may make the table invalid, and a relabel leaves a digest of another commit
behind, but no sync that ends green lets either through. A page whose snippet went stale is served
with a notice in every history of three commits. An agent that waits as long as it is told to is
served then, whatever strangers ask meanwhile, unless the clock was set back while it waited.

**Fairness.** A command is one synchronous process: once started it goes on until it ends
(`WF` of the calls a service answers, and of the writes of a build), and somebody runs the command
again (`WF` of `Start` and of `BuildStart`: a CI job is retried, a prebuild hook runs at every
build); an operator clears a directory that no build can use. Faults, other principals and editors
have no fairness. In `Preview` a timer that is armed fires: browsers guarantee it. In `Agents` the
clock goes on and a request is answered (`Clock`, `Refused`, `Served`); the agent's next
request is part of the step that reads its answer. In `Install` somebody runs `install`, follows every instruction it prints and mends
what `verify-install` names. `Shell`, `SiteConfig`, `Serve` and `SearchIndex` claim no liveness:
the fetch may never be answered, and the other steps are people's.

### What the two violations show

* `prefetch_torn`: `planFor` reads the cached manifest again and takes the digest of what it read
  as the expected one. A second process, which had found the file torn during the first one's
  download, truncates it after the first has validated it; the torn bytes are extracted and
  reported as prefetched. Objects are not exposed to this: their digest comes from the manifest
  that `fill` parsed, and theorem `ObjectsExact` says so.
* `search_stale`: the index is fetched once for the life of the mounted shell; after a navigation
  to another language, version or project its rows are shown under the new one.

### Where the code and its words differ, without a run

These were met while the modules were written. Each is visible in a few steps of the model, and
the properties above are stated so that they hold of what the code does.

* `publish.ts:591` always says "so the prefix holds no bundle". Two publishers with different
  bundles race past the listing; the loser prints it while the winner's bundle is there.
* `bundle.ts:353` says that rebuilding is always safe. It is, but after a build was killed inside a
  file, or another kit wrote into the directory, no rebuild succeeds until somebody clears it
  (`Stuck`, `Clear`).
* `sync.ts:347` looks for vanished slugs among `pages` only. Relabelling the site from the commit
  that redirects `old` to the one that forgot it drops the redirect, the run is green, and `old`
  becomes a 404.
* A stub that somebody unflags but does not translate is taken for a translation (`Disguised`),
  although `stateOf` in `build.ts` and `prefetch.ts:1145` speak of text that was translated.
* `contracts/search.ts` and `site/bundle.ts:236` say that a client validates an index when it loads
  it; `render/search.tsx:144` compares the header alone. `AcceptedIsQueryable` is about the builds
  and tests that do.
* The comment "Before it, only `||` matters" in `prebuild.ts` overlooks `a || b | prefetch`, a
  line break after `||`, and a command that ends the shell: `test -d x || exit 0; <prefetch> &&
  <guard>` is found wired and ships a site nobody checked wherever `x` is not there. `install` makes
  such a script itself when it appends ` && <fragment>` to `test -d x || exit 0`. The three are
  `Overlooked`, which `NothingShipsUnwired` leaves out.
* The generated shim names its mount. After the submodule moved, `verify-install` is green and the
  build's own guard fails, against the detail "so the answer cannot differ between a person, an
  agent and the build". After a move the docs server counts as present too, and only the loader's
  message names it.
* `templates.ts:17` has generated files "written when absent and never rewritten";
  `APPLY.checkDocsShim` overwrites a shim that fails its predicate. `install.ts:13` and `edits.ts:8`
  know no third state between written and printed; a refused edit is one.
* `client.ts:605` has a preview close "when neither holds", hover or focus. It may stay open with
  neither: the mouse enters a mark, a click reveals its text, and the mouse leaves the revealed text,
  whose wrapper has no handler (`more.tsx:61`), so `hovered` stays true; a navigation reuses the
  component for a mark of the next page; the keyboard reaches that mark, which opens its preview, and
  goes on, and `onBlur` leaves it open for a mouse that is not there. Likewise `focused` when a
  focused link in a preview is removed by a navigation, or hidden, in a browser that sends no `blur`.
  The preview then stays until Escape, another preview, a scroll that takes the mark off the screen or
  another visit to it. `MissedOnlyOnRemoval`
  says that this takes one of these removals, and `LeftAloneCloses` is about every other case.
* `sync.ts:308` refuses a default whose manifest is another project's, and asks that of no other
  version and of none whether it declares the commit; it pins them all, and `prefetch.ts:635` refuses
  what was pinned (`Foreign` in `GreenSyncIsFetchable`).
* After a relabel `sync` says of a digest it replaced that it is "the same commit with a different
  manifest. The content did not change" (`sync.ts:587`), of an entry that names another commit.

## 4. Proofs

TLC checks the instances above; the theorems below hold for every value of the constants. They
rest on the assumptions named in the modules, which TLC evaluates on every run.

**`PublishProofs`**, the upload, from `PublishAssumption` alone (the manifest key is no object's,
marks are no digests, every manifest names a set of keys with digests):

| Theorem | Says |
| --- | --- |
| `TypeCorrect` | `Spec => []TypeOK` |
| `ManifestSound` | `Spec => []ManifestImpliesComplete` |
| `ReportSound` | `Spec => []PublishedIsStored` |
| `StoredForGood` | `Spec => WriteOnce` |
| `Implements` | `Spec => ImplementsStore`, the refinement of `BundleStore` |
| `FailuresHaveCauses` | `Spec => []FailureHasACause` |

`ManifestImpliesComplete` alone is not inductive: a run that is about to put its manifest says
nothing in it about its objects. `IInv` adds what every run in flight knows to be stored:
`ReconcileKnows` (everything not queued was found with its digest, unless there was a clash),
`UploadKnows` (everything that left the queue is stored), `ManifestLast` (the manifest is at hand
only with an empty queue), `Scope` (a run touches only keys its manifest names), `ReportTrue`, and
`OrphansAreBacked`: a put of a manifest that outlived its process comes from a run that had
uploaded everything. The induction turns on `StaysStep`: a step never changes bytes stored with a
checksum, so what a run knows stays true while others act. The refinement follows from the same
invariant: the manifest key changes once, and at that moment `IInv'` says that it is complete.

`FailureHasACause` speaks of the bucket at the moment a run reports, and a run decides on what it
read some calls earlier. `CInv` therefore carries every finding as a fact about the bucket, from the
call that made it: what the listing named exists (`ListedIsStored`), the manifest found is another
bundle's (`FoundIsOther`), a clash is a stored object with another digest or none (`ClashIsStored`),
a key that was taken exists (`TakenIsStored`). Others only add to the bucket (`Grows`), but for an
operator who deletes, and whom he disturbs does not count as undisturbed.

**`PublishProofs`** also has the build in front of it, from `PublishAssumption` and
`ReleaseAssumption` (the mark of a torn file is no content):

| Theorem | Says |
| --- | --- |
| `DirectoryWhole` | `ReleaseSpec => []DirectoryIsWhole` |
| `UploadsVerified` | `ReleaseSpec => []UploadsWhatWasVerified` |
| `ReleaseManifestSound` | `ReleaseSpec => []ManifestImpliesComplete`, the theorem of the part in the whole |

A whole directory is not inductive either: `BuildKnows` says that a build has put or found every
object that is not left, and `DirStays` that a build takes free names only, so that this stays true
beside other builds. A running publish reads what it verified for the same reason, and because a
directory is cleared only between runs (`IdleStays`). The upload's own invariant is reused: every
step of `ReleaseNext` is one of `Publish` or leaves its variables alone.

**`PrefetchProofs`**, for any number of processes, sites, commits, keys, tables and faults:

| Theorem | Says |
| --- | --- |
| `PrefetchTypes` | `Spec => []TypeOK` |
| `TreesExact` | with one process (`OneRun`), `Spec => []PrefetchedIsExact` |
| `ObjectsExact` | with any number of processes that fill one cache for sites of their own (`OwnSites`), every extracted object is whole |
| `PrunedTreesAreBacked` | with one process, `Spec => []PruneIsBacked` |

The premises are the point: without `OneRun` the first is false, as `prefetch_torn` shows, and what
fails is the manifest alone. The invariant is `ExactInv`: what a process has planned and verified
(`ManifestInv`, only for one process), and that every file of the tree which is not left to extract
holds the bytes that are due (`TreeInv`). `PrunedTreesAreBacked` looks at the cache before the tree
is touched: `BackedInv` says that every label a run has accepted matches its pin, and that the
objects of its bundle are whole or still to be checked; a file found whole is never opened again
(`GoodStays`), so what was checked off stays good until the tree is pruned and extracted.

**`SiteConfigProofs`**, for any set of commits, slugs, addresses, labels and any bounds, from
`SiteConfigAssumption` (what the compiler guarantees of a manifest: what hides is a page, a
redirect's source is no page and its target is one):

| Theorem | Says |
| --- | --- |
| `ConfigTypeCorrect` | `Spec => []TypeOK` |
| `GreenSyncHolds` | `Spec => []GreenSyncIsFetchable` |
| `GreenPatchesFit` | `Spec => GreenPatchFits` |

`GreenSyncIsFetchable` says that prefetch has nothing to refuse (`PrefetchRefuses`: the table, the
pin, the project and commit a manifest declares, the pages of the default) except a manifest sync
never asked (`Foreign`). It is not inductive: that a green report still describes the file rests on
the table having been valid, on every pin matching its commit and on the default being of this
project at that sync, which `GreenHolds` carries until the next edit. `TypeOK` bounds
`Cardinality(proposed)`, so the invariant also says that `proposed` is finite.

**`ServeProofs`**, for any set of slugs, snippets, languages and links, any initial trees and any
number of commits, from `CorpusAssumption`, `ServeAssumption` (what a reader may name in an address)
and `TreesAssumption` (a history begins with files that are in their own language and unflagged):

| Theorem | Says |
| --- | --- |
| `TypeCorrect` | `Spec => [](TypeInv /\ ConfigInv)` |
| `ShapeAlways` | `Spec => []BundleHasShape` |
| `LinksAnswerAlways` | `Spec => []EveryLinkAnswers` |
| `AlternatesAlways` | `Spec => []AlternatesMatchNoindex` |
| `SearchAlways` | `Spec => []SearchMatchesPage` |
| `OneHopAlways` | `Spec => []OneHop` |
| `SilentAlways` | `Spec => []SilentPageIsFresh` |

A bundle is a function of the tree, so most of these are facts about the operators: what a record,
a payload and a search row of `Bundle` are (`BundleIs`, `RecordIs`, `EffectiveIs`), and one central
lemma, `PageAnswers`: on a live site the address of a page is answered with the payload of its
served language. Two things come from history. The config is that of an earlier sync, so its
redirects may not be the bundle's: `ConfigInv` says that they lead from no page of the config to one
of them. And `SilentPageIsFresh` compares texts where the code compares dates: `HistoryInv` says
that a translation not older than its source was made from the source's present text, that the
source is in its language, and that no flagged file passes for a translation. It holds because
every commit gives the file it writes the newest date and the text it was made from.

**`AgentsProofs`**, for any set of clients, any rate and any capacity of a token or more, whole or
broken, any texts, windows and versions, and any bounds:

| Theorem | Says |
| --- | --- |
| `TableImplementsLimit` | `Spec => ImplementsLimit`, the refinement of `RateLimit` |
| `WindowAdvances` | a window ends behind its offset, at most `Window` on and never within a surrogate pair |
| `WholePages` | `Spec => []WholePage` |
| `RetryAfterIsEnough` | `Spec => RetryAfterSuffices` |
| `LeastRecentEvicted` | `Spec => RecentKeysKept` |

Under the refinement mapping a bucket that is not in the table is full and one that is holds what it
would give if asked now. `TableInv` says that no bucket is deeper in debt than the clock was set
back, so that a bucket whose age is no longer counted on is full. `WholePages` joins the windows:
`ReadInv` says that what an agent has got is the start of the text it came from, cut between two
characters, which `WindowAdvances` keeps. `RestInv` says that a patient agent will have a token when
its wait is over: the wait is rounded up (`WaitBrings`), and by the refinement nobody else's request
takes from its bucket. `OrderInv` says that the `Map` holds a key once and, while the clock runs
forward, in the order of age. That a text with a break has a last one is the least-element principle
of the library.

**`SearchProofs`**, for any alphabet, folding tables, field weights, inverse document frequencies,
corpora and audiences, for queries of any length and for every damage, from `TermsAssumption`, `FoldingAssumption` and
`SearchAssumption` (the corpora are pages with sections of different addresses, as the build
demands; a term some section has weighs something):

| Theorem | Says |
| --- | --- |
| `FindsExactlyHolds` | `Spec => []FindsExactly` |
| `FindsWhatIsOnThePageHolds` | `Spec => []FindsWhatIsOnThePage` |
| `RankedByEvidenceHolds` | `Spec => []RankedByEvidence` |
| `AcceptedIsQueryableHolds` | `Spec => []AcceptedIsQueryable` |

What happens to an index is soon said: while it is whole it is the one that was built
(`Invariant`), and damaged or not its arrays have their types (`ShapeInvariant`). The work is in
the functions, which are recursive over places as in `Prebuild` below (`Places`, `SumsIs`,
`WalkIs`). From the bottom up:

* *Reading gives back what was written.* `Sorted` puts every element of a finite set in its place
  (`Orders`, `Ordered`); slices of a flattened sequence stand where the counts say; the gaps of a
  slice sum up to the sections that were gathered, so that the postings of a term in a built index
  name exactly the sections that have it (`PostingsHave`, `HoldingIs`).
* *The halving and the walk.* The range of `lowerBound` always has the first position at or after
  the prefix in it and shrinks, so `Expansion` is the set of the terms that begin with a token
  (`ExpansionIs`). With the above, that is `FindsExactly`.
* *A score is a number.* A posting is worth something in every field (`ShareIs`), a section that
  matched a word therefore has a score, and the comparison of hits is a strict total order
  (`RankingOrders`), since two sections differ in their address. All that needs is stated of any
  index as `Readable`; a built index is (`BuiltReadable`), and one that `validateSearchIndexShape`
  accepts is, however damaged (`AcceptedReadable`). That, with a dictionary word being one token
  of itself (`PlainTokenise`), is `AcceptedIsQueryable`: `df` counts what is found.
* *A text is its runs.* `Walk` goes character by character with a run in hand. `TokeniseIs` says what
  comes of it: the terms of every maximal run of one class, a word whole and CJK in pairs. A piece
  taken from a page begins in the middle of no word, so its runs stand in the page's text, the last
  one perhaps cut short (`RunStands`, `PieceBegins`), and its tokens are tokens there
  (`OnThePage`), in whatever spelling, since folding settles (`Settled`).
* *The order.* A sum is how many cells its numbers have (`SumCounts`), so it is the same in any order
  (`SumPermuted`) and grows with a term (`SumGrows`); a section that has more of a word and no less of
  the others has the greater score (`ScoreGrows`). Reversing the pages permutes the sections
  (`ReversedCorpus`), the two indexes say the same of the same section (`SameBuild`,
  `SameEvidence`, `SameScore`), and a set has one order (`OneOrder`).

**`ShellProofs`**, the previews, for any number of marks and pages and whatever a browser does when
a focused element is hidden (`PreviewAssumption`):

| Theorem | Says |
| --- | --- |
| `OnePreview` | `PreviewSpec => []OneOpen` |
| `RevealedIsBare` | `PreviewSpec => []NeverOverRevealed` |
| `OpenHasAReason` | `PreviewSpec => []OpenIsAccountedFor` |
| `MissesAreKnown` | `PreviewSpec => MissedOnlyOnRemoval` |

The handlers call one another inside one step, so the invariant `Good` is stated of a view (the refs
and `current` between two calls) and every function of the hook has a lemma that keeps it. The third
property needs one thing more to be inductive: a timer that will open a preview runs only while the
mark is hovered (`Reasoned`), or the preview it opens would have no reason to stay. The fourth
compares what every function does to the two refs with where the same step takes the reader.

**`ShellProofs`** also has the search dialog and the outline, for any sources, queries and layout:

| Theorem | Says |
| --- | --- |
| `DialogFollows` | `ShellSpec => []DialogFollowsState` |
| `RowsAnswer` | `ShellSpec => []RowsAnswerTheQuery` |
| `OutlineNames` | `ShellSpec => []NamesTheReader` |

`DialogInv` adds that a queued close event belongs to a state that is still open (`CloseIsNews`), so
that the event never closes what was opened after it, and that a request is out only while no index
is in hand (`OneRequest`). The outline shares no variable with the dialog, so a step of the shell is
one of the dialog or leaves it alone. For the outline `SpyInv` says what each stage between a scroll
and the mark knows: the observer what the last frame showed (`ObserverKnows`), the waiting entries
and `seen` together which headings had passed the line in it (`PassedIsDrawn`), the scroll listener
whether the page was at its end (`EndIsDrawn`), and the mark what follows from the last two unless an
entry waits (`MarkedIsDecided`).

**`InstallProofs`**, for scripts of any length, every site and every outcome of every command, from
`PrebuildAssumption` and `InstallAssumption` (a script that can be split is a non-empty sequence of
commands of which the last alone has no operator behind it):

| Theorem | Says |
| --- | --- |
| `NothingUnwired` | `Spec => []NothingShipsUnwired` |
| `BuildIsKept` | `Spec => []InstallKeepsTheBuild` |

What happens to a repository matters little here, `SiteInv` says that its scripts stay scripts; the
work is in the shell. `Trace`, `Kept` and `Loop` are recursive functions over places, and TLAPS
knows of such a function only that it was chosen. That one exists, and what it is like at every
place, is shown for the set of places where it holds: a set that has the first place and goes on
to the next has all (`Places`, from the least place outside it). `Stepped` then says what one
command changes. The first theorem rests on `UnmaskedRuns`: a command is skipped although nothing
failed only behind a `||` or behind a command that may have ended the shell (`SkippedBehindOr`,
`EndedByExit`), and a failure with only `&&` behind it stays
(`FailureStays`), so what the check finds unmasked ran and succeeded wherever the script did.
The second compares two traces: the script alone and the script with the fragment are in the same
state up to its last command (`SameStart`), that command does the same with `&&` behind it
(`AppendedTrace`), and the fragment, when its commands succeed, ends as what is before it
(`FragmentRuns`).

Checked by TLC only is liveness (`EventuallyPublished`, `EventuallyExact`, `LeftAloneCloses`,
`EveryAgentReads`, `EventuallyWired`), which TLAPS does not reach. Every invariant and every safety
property of a step that a passing run checks has a theorem.

The type invariants of `Publish`, `Prefetch`, `SiteConfig`, `Serve` and the outline are proved and
not run again. No module declares a RECURSIVE operator.

## 5. Plan

The order was the order of harm: first what is written once and can never be taken back, then what
a site is built from, then what a reader meets. Done: publish, the build in front of it, prefetch,
the config, what a bundle is and how it is served, the reader's widgets, search, the agents, the
wiring. What is left:

1. The file writer and the recording writer of `io/write.ts` side by side, with the claim that a
   dry run reports the changes a real run makes; `init` and `scaffold` on top of it.
2. The composition of `SiteConfig` with `Prefetch`: the tables of `Prefetch` become those that
   label, sync and the editors produce, instead of the set `Tables`.
3. The disclosures and announcements of `render/client.ts`; the session of the stdio MCP server;
   pinned versions and the sidebar's tree in `Serve`.

## 6. Not modelled, and why

* The markdown compiler, prose lint rules, transforms, image assets and tokens: text to text in one
  call, with no state between calls. Their golden tests are the better tool.
* React's rendering, the theme and its stylesheet, icons, templates, skills: output only.
* The scripts of the repository (paint, infrastructure and stack checks): programs that compare
  files with expectations once, a large part of the lines and no behaviour over time.
* The command line parser and the help: one pass over a fixed table.
* Where in a text an edit of `install`, `sync` or `label` goes, and the refusals of those text edits.
* `init`, `scaffold`, the page commands and the writer: see the plan.
* The stdio MCP server: one synchronous answer for a line, no state between two.
* Disclosures, the announcement and the copy buttons: one flag each, set by one handler.
* `infra` beyond the bucket policy: no code here drives it. The policy is modelled through what it
  allows (`ForeignPut`) and denies (`WriteOnce`).
* AWS credentials and the wording of refusals: a refused call is one outcome, since the code treats
  all of them alike.
* Bytes: a body is its digest, or torn. Two bodies with the same SHA-256 are not considered.
