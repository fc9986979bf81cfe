------------------------------ MODULE Prefetch ------------------------------
(***************************************************************************)
(* hexdocs prefetch (kit/src/commands/prefetch.ts): every bundle a site's  *)
(* configs label, from the bucket through a cache into the site's two      *)
(* trees, before the site is built.                                        *)
(*                                                                         *)
(* The cache is one directory per machine and is shared by every site on   *)
(* it, so several runs may fill it at once.  `s3api get-object` writes     *)
(* straight to the cache path, so a download is two steps: it truncates    *)
(* the file, and later it has written all of it.  Between the two, and     *)
(* after a cut or a crash, the file is torn.                               *)
(*                                                                         *)
(* The two trees of a site are one here: a file is a label and a bundle    *)
(* key, and what it holds is named by the commit whose bytes they are.     *)
(***************************************************************************)
EXTENDS Naturals, FiniteSets

CONSTANTS Procs,      \* the prefetch processes of one machine
          Sites, Site,\* Site[p] : the site p runs for
          Commits,
          Keys,       \* object keys of a bundle, raw pages and assets
          Binary,     \* the keys that are not gzipped: assets
          SourceRaw,  \* the raw markdown of the pages in the source locale
          MK,         \* MANIFEST_KEY
          Objects,    \* Objects[c] : the keys the manifest of c names
          Flaw,       \* Flaw[c] : what is wrong with the bundle of c, or "none"
          Labels,
          Tables,     \* bound: the version tables a site may declare
          Skewed,     \* the tables whose page list differs from their default's
          NoPin,      \* a version with no `digest`
          Nobody,     \* no process, no label
          Torn,       \* bytes of an unfinished write
          Absent,     \* no file
          MaxFaults   \* bound: refusals, cut downloads and crashes

AllKeys == Keys \cup {MK}
Files == Labels \X AllKeys
Versions == [commit : Commits, pin : Commits \cup {NoPin}]

ASSUME PrefetchAssumption ==
  /\ Site \in [Procs -> Sites]
  /\ MK \notin Keys
  /\ Binary \subseteq Keys
  /\ SourceRaw \subseteq Keys \ Binary
  /\ Objects \in [Commits -> SUBSET Keys]
  \* confused: the manifest declares another project or commit; lists: its records
  \* and its object list disagree; scaffold: a page still carries the template's
  \* words; decode: the records' uncompressed digests are not those of the objects
  /\ Flaw \in [Commits -> {"none", "confused", "lists", "scaffold", "decode"}]
  /\ \A t \in Tables : /\ DOMAIN t \in SUBSET Labels \ {{}}
                       /\ t \in [DOMAIN t -> Versions]
  /\ Skewed \subseteq Tables
  /\ Nobody \notin Procs \cup Labels
  /\ {Torn, Absent} \cap Commits = {} /\ Torn # Absent
  /\ MaxFaults \in Nat

VARIABLES
  published, \* the commits whose bundle is in the bucket
  table,     \* the versions each site's configs declare
  cache,     \* cache[c, k] : the cached file of key k of commit c
  opener,    \* opener[c, k] : the unfinished download that opened it last
  tree,      \* tree[s][f] : what the site's file f holds
  phase,     \* where each run is
  read,      \* the table the run read
  pending,   \* labels whose bundle is not in the cache yet
  at,        \* the label being filled
  todo,      \* objects of that label still to check
  key,       \* the key being downloaded
  problems,  \* the run has a finding
  plan,      \* plan[l] : the manifest bytes planFor hashed
  left,      \* files still to extract
  outcome,   \* what the last run of p reported
  faults

locals == <<read, pending, at, todo, key, problems, plan, left>>
vars == <<published, table, cache, opener, tree, phase, locals, outcome, faults>>

Commit(p, l) == read[p][l].commit

\* The files the configs name, which is prune's keep set.
Planned(p) ==
  {f \in Files : /\ f[1] \in DOMAIN read[p]
                 /\ f[2] \in Objects[Commit(p, f[1])] \cup {MK}}

\* Mutant of Stale: prune looks only below the labels the configs still name.
StaleOfLabels(p) ==
  {f \in Files \ Planned(p) : f[1] \in DOMAIN read[p] /\ tree[Site[p]][f] # Absent}

\* The files of the trees that no plan names.
Stale(p) == {f \in Files \ Planned(p) : tree[Site[p]][f] # Absent}

\* Mutant of Cached: a file that exists is good.
CachedIfPresent(c, k) == cache[c, k] # Absent

\* The cached file, hashed now, has the digest recorded for it.  A manifest has no
\* recorded digest and is cached when it parses, which only the whole of it does.
Cached(c, k) == cache[c, k] = c

\* Mutant of Trusted: the pin is not compared.
TrustedUnpinned(v) == Flaw[v.commit] # "confused"

\* A manifest that declares the project and commit asked for and is the pinned one.
Trusted(v) == v.pin \in {NoPin, v.commit} /\ Flaw[v.commit] # "confused"

\* Mutant of Decodes: what is in the cache is extracted unread.
DecodesAnything(c, k) == cache[c, k] # Absent

\* The decoded bytes have the digest of their record.
Decodes(c, k) == cache[c, k] = c /\ Flaw[c] # "decode"
-----------------------------------------------------------------------------
Init ==
  /\ published \in SUBSET Commits
  /\ table \in [Sites -> Tables]
  /\ cache = [ck \in Commits \X AllKeys |-> Absent]
  /\ opener = [ck \in Commits \X AllKeys |-> Nobody]
  /\ tree = [s \in Sites |-> [f \in Files |-> Absent]]
  /\ phase = [p \in Procs |-> "idle"]
  /\ read = [p \in Procs |-> table[Site[p]]]
  /\ pending = [p \in Procs |-> {}]
  /\ at = [p \in Procs |-> Nobody]
  /\ todo = [p \in Procs |-> {}]
  /\ key = [p \in Procs |-> MK]
  /\ problems = [p \in Procs |-> FALSE]
  /\ plan = [p \in Procs |-> [l \in Labels |-> Absent]]
  /\ left = [p \in Procs |-> {}]
  /\ outcome = [p \in Procs |-> "none"]
  /\ faults = 0

\* The process is over.  What it read is kept, to say what its report was about.
End(p, how) ==
  /\ phase' = [phase EXCEPT ![p] = "idle"]
  /\ outcome' = [outcome EXCEPT ![p] = how]
  /\ pending' = [pending EXCEPT ![p] = {}]
  /\ at' = [at EXCEPT ![p] = Nobody]
  /\ todo' = [todo EXCEPT ![p] = {}]
  /\ key' = [key EXCEPT ![p] = MK]
  /\ problems' = [problems EXCEPT ![p] = FALSE]
  /\ plan' = [plan EXCEPT ![p] = [l \in Labels |-> Absent]]
  /\ left' = [left EXCEPT ![p] = {}]
  /\ UNCHANGED read

Fault == faults < MaxFaults /\ faults' = faults + 1
-----------------------------------------------------------------------------
\* The configs are read and pass, and so does the shape of the trees.
Start(p) ==
  /\ phase[p] = "idle"
  /\ phase' = [phase EXCEPT ![p] = "fill"]
  /\ read' = [read EXCEPT ![p] = table[Site[p]]]
  /\ pending' = [pending EXCEPT ![p] = DOMAIN table[Site[p]]]
  /\ outcome' = [outcome EXCEPT ![p] = "none"]
  /\ UNCHANGED <<published, table, cache, opener, tree, at, todo, key, problems,
                 plan, left, faults>>

\* A manifest was read.  A pin or a self-declaration that disagrees is a finding
\* and the objects are left alone; otherwise they are checked one by one.
Accept(p, l) ==
  LET v == read[p][l]
      trusted == Trusted(v)
  IN /\ phase' = [phase EXCEPT ![p] = "fill"]
     /\ problems' = [problems EXCEPT ![p] = @ \/ ~trusted]
     /\ at' = [at EXCEPT ![p] = IF trusted THEN l ELSE Nobody]
     /\ todo' = [todo EXCEPT ![p] = IF trusted THEN Objects[v.commit] ELSE {}]
     /\ pending' = [pending EXCEPT ![p] = @ \ {l}]
     /\ key' = [key EXCEPT ![p] = MK]

\* readCachedManifest: a whole manifest is accepted, anything else is downloaded.
ReadManifest(p, l) ==
  /\ phase[p] = "fill" /\ todo[p] = {}
  /\ l \in pending[p]
  /\ IF Cached(Commit(p, l), MK)
     THEN Accept(p, l)
     ELSE /\ phase' = [phase EXCEPT ![p] = "get"]
          /\ at' = [at EXCEPT ![p] = l]
          /\ UNCHANGED <<problems, todo, pending, key>>
  /\ UNCHANGED <<published, table, cache, opener, tree, read, plan, left, outcome, faults>>

\* A cached object is re-hashed, and downloaded when its digest is not the manifest's.
CheckObject(p, k) ==
  /\ phase[p] = "fill"
  /\ k \in todo[p]
  /\ IF Cached(Commit(p, at[p]), k)
     THEN todo' = [todo EXCEPT ![p] = @ \ {k}] /\ UNCHANGED <<phase, key>>
     ELSE /\ phase' = [phase EXCEPT ![p] = "get"]
          /\ key' = [key EXCEPT ![p] = k]
          /\ UNCHANGED todo
  /\ UNCHANGED <<published, table, cache, opener, tree, read, pending, at, problems,
                 plan, left, outcome, faults>>

\* The file a run is downloading.
Target(p) == <<Commit(p, at[p]), key[p]>>

\* get-object answers and truncates the file.
GetBegin(p) ==
  /\ phase[p] = "get"
  /\ Commit(p, at[p]) \in published
  /\ phase' = [phase EXCEPT ![p] = "write"]
  /\ cache' = [cache EXCEPT ![Target(p)] = Torn]
  /\ opener' = [opener EXCEPT ![Target(p)] = p]
  /\ UNCHANGED <<published, table, tree, locals, outcome, faults>>

\* get-object has written everything.  Two downloads write the same bytes, so the
\* file is whole once the one that truncated it last is done.
GetEnd(p) ==
  /\ phase[p] = "write"
  /\ phase' = [phase EXCEPT ![p] = "verify"]
  /\ IF opener[Target(p)] = p
     THEN /\ cache' = [cache EXCEPT ![Target(p)] = Target(p)[1]]
          /\ opener' = [opener EXCEPT ![Target(p)] = Nobody]
     ELSE UNCHANGED <<cache, opener>>
  /\ UNCHANGED <<published, table, tree, locals, outcome, faults>>

\* The downloaded file is read again.  Anything but the named bytes is a finding
\* on an object and stops the run on a manifest.
Verify(p) ==
  /\ phase[p] = "verify"
  /\ LET whole == Cached(Target(p)[1], Target(p)[2])
     IN IF key[p] = MK
        THEN IF whole THEN Accept(p, at[p]) /\ UNCHANGED <<plan, left, outcome, read>>
                      ELSE End(p, "not-run")
        ELSE /\ phase' = [phase EXCEPT ![p] = "fill"]
             /\ todo' = [todo EXCEPT ![p] = @ \ {key[p]}]
             /\ key' = [key EXCEPT ![p] = MK]
             /\ problems' = [problems EXCEPT ![p] = @ \/ ~whole]
             /\ UNCHANGED <<pending, at, plan, left, outcome, read>>
  /\ UNCHANGED <<published, table, cache, opener, tree, faults>>

\* The bucket has no such key: the first bundle that cannot be had stops the run.
GetAbsent(p) ==
  /\ phase[p] = "get"
  /\ Commit(p, at[p]) \notin published
  /\ End(p, "not-run")
  /\ UNCHANGED <<published, table, cache, opener, tree, faults>>

\* No credentials, --offline, no bucket, or a download that broke off part way.
GetRefused(p) ==
  /\ phase[p] \in {"get", "write"}
  /\ Fault
  /\ End(p, "not-run")
  /\ opener' = [ck \in DOMAIN opener |-> IF opener[ck] = p THEN Nobody ELSE opener[ck]]
  /\ UNCHANGED <<published, table, cache, tree>>

\* The cache row, and then the scaffold check, which reads the raw pages again.
Filled(p) ==
  /\ phase[p] = "fill" /\ todo[p] = {} /\ pending[p] = {}
  /\ IF problems[p]
     THEN End(p, "failed")
     ELSE /\ phase' = [phase EXCEPT ![p] = "placeholders"]
          /\ at' = [at EXCEPT ![p] = Nobody]
          /\ UNCHANGED <<read, pending, todo, key, problems, plan, left, outcome>>
  /\ UNCHANGED <<published, table, cache, opener, tree, faults>>

\* The source locale's raw pages are gunzipped, and a torn one throws, which no row
\* reports.  Any other torn object goes unseen here.
Placeholders(p) ==
  /\ phase[p] = "placeholders"
  /\ LET named == {Commit(p, l) : l \in DOMAIN read[p]}
         torn == \E c \in named : \E k \in Objects[c] \cap SourceRaw : cache[c, k] = Torn
     IN IF torn THEN End(p, "threw")
        ELSE IF \E c \in named : Flaw[c] = "scaffold" THEN End(p, "failed")
        ELSE phase' = [phase EXCEPT ![p] = "plan"] /\ UNCHANGED <<locals, outcome>>
  /\ UNCHANGED <<published, table, cache, opener, tree, faults>>

\* planFor: the manifest's expected digest is that of the bytes in the cache now.
Plan(p) ==
  /\ phase[p] = "plan"
  /\ IF \E l \in DOMAIN read[p] : Flaw[Commit(p, l)] = "lists"
     THEN End(p, "failed")
     ELSE /\ phase' = [phase EXCEPT ![p] = "prune"]
          /\ plan' = [plan EXCEPT ![p] = [l \in Labels |->
                        IF l \in DOMAIN read[p] THEN cache[Commit(p, l), MK] ELSE Absent]]
          /\ UNCHANGED <<read, pending, at, todo, key, problems, left, outcome>>
  /\ UNCHANGED <<published, table, cache, opener, tree, faults>>

\* prune removes one file no plan names.
Prune(p, f) ==
  /\ phase[p] = "prune"
  /\ f \in Stale(p)
  /\ tree' = [tree EXCEPT ![Site[p]][f] = Absent]
  /\ UNCHANGED <<published, table, cache, opener, phase, locals, outcome, faults>>

Pruned(p) ==
  /\ phase[p] = "prune"
  /\ Stale(p) = {}
  /\ phase' = [phase EXCEPT ![p] = "extract"]
  /\ left' = [left EXCEPT ![p] = Planned(p)]
  /\ UNCHANGED <<published, table, cache, opener, tree, read, pending, at, todo, key,
                 problems, plan, outcome, faults>>

\* One file is read from the cache, decoded, compared and written.
Write(p, f, bytes) ==
  /\ tree' = [tree EXCEPT ![Site[p]][f] = bytes]
  /\ left' = [left EXCEPT ![p] = @ \ {f}]
  /\ UNCHANGED <<phase, read, pending, at, todo, key, problems, plan, outcome>>

\* A file whose bytes are not the expected ones is a finding and is not written.
Skip(p, f) ==
  /\ left' = [left EXCEPT ![p] = @ \ {f}]
  /\ problems' = [problems EXCEPT ![p] = TRUE]
  /\ UNCHANGED <<tree, phase, read, pending, at, todo, key, plan, outcome>>

\* The manifest is compared with what planFor hashed.  Two torn reads may have
\* seen the same bytes or not.
ExtractManifest(p, l) ==
  /\ phase[p] = "extract"
  /\ <<l, MK>> \in left[p]
  /\ LET bytes == cache[Commit(p, l), MK]
     IN \/ bytes = plan[p][l] /\ Write(p, <<l, MK>>, bytes)
        \/ (bytes # plan[p][l] \/ bytes = Torn) /\ Skip(p, <<l, MK>>)
  /\ UNCHANGED <<published, table, cache, opener, faults>>

\* An object is compared with its record.  A torn gzip member throws instead.
ExtractObject(p, l, k) ==
  /\ phase[p] = "extract"
  /\ k # MK /\ <<l, k>> \in left[p]
  /\ LET c == Commit(p, l)
     IN IF cache[c, k] = Torn /\ k \notin Binary
        THEN End(p, "threw") /\ UNCHANGED tree
        ELSE IF Decodes(c, k)
        THEN Write(p, <<l, k>>, cache[c, k])
        ELSE Skip(p, <<l, k>>)
  /\ UNCHANGED <<published, table, cache, opener, faults>>

\* The extract row and the skew row are the last two.
Finish(p) ==
  /\ phase[p] = "extract"
  /\ left[p] = {}
  /\ End(p, IF problems[p] \/ read[p] \in Skewed THEN "failed" ELSE "prefetched")
  /\ UNCHANGED <<published, table, cache, opener, tree, faults>>

\* The filesystem refuses a removal or a write: the run stops part way through.
TreeRefused(p) ==
  /\ phase[p] \in {"prune", "extract"}
  /\ Fault
  /\ End(p, "failed")
  /\ UNCHANGED <<published, table, cache, opener, tree>>

\* The process dies; a file it was writing into the site may be left torn.
Crash(p) ==
  /\ phase[p] # "idle"
  /\ Fault
  /\ End(p, "none")
  /\ opener' = [ck \in DOMAIN opener |-> IF opener[ck] = p THEN Nobody ELSE opener[ck]]
  /\ \/ UNCHANGED tree
     \/ \E f \in left[p] : tree' = [tree EXCEPT ![Site[p]][f] = Torn]
  /\ UNCHANGED <<published, table, cache>>
-----------------------------------------------------------------------------
\* An app repository publishes a commit: the whole bundle, once.
Publish(c) ==
  /\ c \notin published
  /\ published' = published \cup {c}
  /\ UNCHANGED <<table, cache, opener, tree, phase, locals, outcome, faults>>

\* Somebody labels, relabels or retires versions in the site's configs.
EditConfigs(s, t) ==
  /\ table' = [table EXCEPT ![s] = t]
  /\ UNCHANGED <<published, cache, opener, tree, phase, locals, outcome, faults>>

Step(p) ==
  \/ \E l \in Labels : ReadManifest(p, l) \/ ExtractManifest(p, l)
  \/ \E k \in Keys : CheckObject(p, k)
  \/ GetBegin(p) \/ GetEnd(p) \/ GetAbsent(p) \/ Verify(p)
  \/ Filled(p) \/ Placeholders(p) \/ Plan(p)
  \/ \E f \in Files : Prune(p, f)
  \/ Pruned(p)
  \/ \E l \in Labels, k \in Keys : ExtractObject(p, l, k)
  \/ Finish(p)

Next ==
  \/ \E p \in Procs : Start(p) \/ Step(p) \/ GetRefused(p) \/ TreeRefused(p) \/ Crash(p)
  \/ \E c \in Commits : Publish(c)
  \/ \E s \in Sites, t \in Tables : EditConfigs(s, t)

\* A run is one synchronous process, and somebody runs prefetch again.
Fairness == \A p \in Procs : WF_vars(Start(p)) /\ WF_vars(Step(p))

Spec == Init /\ [][Next]_vars /\ Fairness
-----------------------------------------------------------------------------
TypeOK ==
  /\ published \subseteq Commits
  /\ table \in [Sites -> Tables]
  /\ cache \in [Commits \X AllKeys -> Commits \cup {Torn, Absent}]
  /\ opener \in [Commits \X AllKeys -> Procs \cup {Nobody}]
  /\ tree \in [Sites -> [Files -> Commits \cup {Torn, Absent}]]
  /\ phase \in [Procs -> {"idle", "fill", "get", "write", "verify", "placeholders",
                          "plan", "prune", "extract"}]
  /\ read \in [Procs -> Tables]
  /\ pending \in [Procs -> SUBSET Labels]
  /\ at \in [Procs -> Labels \cup {Nobody}]
  /\ todo \in [Procs -> SUBSET Keys]
  /\ key \in [Procs -> AllKeys]
  /\ problems \in [Procs -> BOOLEAN]
  /\ plan \in [Procs -> [Labels -> Commits \cup {Torn, Absent}]]
  /\ left \in [Procs -> SUBSET Files]
  /\ outcome \in [Procs -> {"none", "not-run", "failed", "threw", "prefetched"}]
  /\ faults \in 0..MaxFaults

\* What file f of p's site has to hold for the table p read.
Due(p, f) == IF f \in Planned(p) THEN Commit(p, f[1]) ELSE Absent

\* "The two trees hold exactly what the configs name, and nothing else": after a
\* run that reports prefetched, whatever crashed, was cut off or was relabelled
\* before it.
PrefetchedIsExact ==
  \A p \in Procs : outcome[p] = "prefetched" =>
    \A f \in Files : tree[Site[p]][f] = Due(p, f)

\* The same for every file but the manifests, with other runs filling the cache.
PrefetchedObjectsExact ==
  \A p \in Procs : outcome[p] = "prefetched" =>
    \A f \in Files : f[2] # MK => tree[Site[p]][f] = Due(p, f)

\* A pruned or half written tree can be rebuilt: "every bundle is already on this
\* machine and that run needs no download".  And no version is extracted against
\* its pin.
PruneIsBacked ==
  \A p \in Procs : phase[p] \in {"prune", "extract"} =>
    \A l \in DOMAIN read[p] :
      /\ read[p][l].pin \in {NoPin, Commit(p, l)}
      /\ \A k \in Objects[Commit(p, l)] \cup {MK} : cache[Commit(p, l), k] = Commit(p, l)

\* A table prefetch can serve: published, pinned right, sound and not skewed.
Servable(t) ==
  /\ t \notin Skewed
  /\ \A l \in DOMAIN t : /\ t[l].commit \in published
                         /\ t[l].pin \in {NoPin, t[l].commit}
                         /\ Flaw[t[l].commit] = "none"

\* Once a site's configs stay put and can be served, runs serve them again and again:
\* no success before the last relabel, cut download or crash counts, and what those
\* left in the cache and in the trees is repaired each time.
EventuallyExact ==
  \A p \in Procs :
    (\E t \in Tables : <>[](table[Site[p]] = t /\ Servable(t)))
      => []<>(outcome[p] = "prefetched" /\ read[p] = table[Site[p]])
=============================================================================
