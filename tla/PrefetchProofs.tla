--------------------------- MODULE PrefetchProofs ---------------------------
(***************************************************************************)
(* What a run of prefetch that reports `prefetched` has left in the site's *)
(* trees, for every number of runs, sites, commits, tables and faults.     *)
(***************************************************************************)
EXTENDS Prefetch, TLAPS

Outcomes == {"none", "not-run", "failed", "threw", "prefetched"}

\* A run fills a label of the table it read: the pending ones are, and so is the
\* one whose files it looks at.
Where(p) ==
  /\ pending[p] \subseteq DOMAIN read[p]
  /\ phase[p] \in {"get", "write", "verify"} => at[p] \in DOMAIN read[p]
  /\ phase[p] = "fill" /\ todo[p] # {} => at[p] \in DOMAIN read[p]
  /\ phase[p] = "idle" => todo[p] = {} /\ left[p] = {}
  /\ \A f \in left[p] : f[1] \in DOMAIN read[p]

Typed == TypeOK /\ \A p \in Procs : Where(p)
-----------------------------------------------------------------------------
(* Types.                                                                  *)

LEMMA TableTypes ==
  ASSUME NEW t \in Tables
  PROVE  /\ DOMAIN t \subseteq Labels
         /\ \A l \in DOMAIN t : t[l].commit \in Commits /\ Objects[t[l].commit] \subseteq Keys
<1>1. DOMAIN t \in SUBSET Labels \ {{}} /\ t \in [DOMAIN t -> Versions]
  BY PrefetchAssumption
<1>2. Objects \in [Commits -> SUBSET Keys]
  BY PrefetchAssumption
<1>3. ASSUME NEW l \in DOMAIN t
      PROVE  t[l].commit \in Commits
  <2>1. t[l] \in Versions
    BY <1>1, <1>3
  <2> QED
    BY <2>1 DEF Versions
<1> QED
  BY <1>1, <1>2, <1>3

LEMMA CommitType ==
  ASSUME Typed, NEW p \in Procs, NEW l \in DOMAIN read[p]
  PROVE  l \in Labels /\ Commit(p, l) \in Commits /\ Objects[Commit(p, l)] \subseteq Keys
<1>1. read[p] \in Tables
  BY DEF Typed, TypeOK
<1> QED
  BY <1>1, TableTypes DEF Commit

\* The end of a run, whatever it reports.
LEMMA EndTyped ==
  ASSUME Typed, NEW p \in Procs, NEW how \in Outcomes, End(p, how),
         UNCHANGED <<published, table>>,
         cache' \in [Commits \X AllKeys -> Commits \cup {Torn, Absent}],
         opener' \in [Commits \X AllKeys -> Procs \cup {Nobody}],
         tree' \in [Sites -> [Files -> Commits \cup {Torn, Absent}]],
         faults' \in 0..MaxFaults
  PROVE  Typed'
<1>1. /\ phase' \in [Procs -> {"idle", "fill", "get", "write", "verify", "placeholders",
                               "plan", "prune", "extract"}]
      /\ outcome' \in [Procs -> Outcomes]
      /\ read' \in [Procs -> Tables]
  BY DEF Typed, TypeOK, End, Outcomes
<1>2. /\ pending' \in [Procs -> SUBSET Labels]
      /\ at' \in [Procs -> Labels \cup {Nobody}]
      /\ todo' \in [Procs -> SUBSET Keys]
  BY DEF Typed, TypeOK, End
<1>3. /\ key' \in [Procs -> AllKeys]
      /\ problems' \in [Procs -> BOOLEAN]
      /\ left' \in [Procs -> SUBSET Files]
  BY DEF Typed, TypeOK, End, AllKeys
<1>4. plan' \in [Procs -> [Labels -> Commits \cup {Torn, Absent}]]
  BY DEF Typed, TypeOK, End
<1>5. published' \subseteq Commits /\ table' \in [Sites -> Tables]
  BY DEF Typed, TypeOK
<1>6. TypeOK'
  BY <1>1, <1>2, <1>3, <1>4, <1>5 DEF TypeOK, Outcomes
<1>7. ASSUME NEW q \in Procs
      PROVE  Where(q)'
  BY <1>7 DEF Typed, TypeOK, Where, End
<1> QED
  BY <1>6, <1>7 DEF Typed

LEMMA AcceptTyped ==
  ASSUME Typed, NEW p \in Procs, NEW l \in DOMAIN read[p], Accept(p, l)
  PROVE  /\ phase' \in [Procs -> {"idle", "fill", "get", "write", "verify", "placeholders",
                                  "plan", "prune", "extract"}]
         /\ problems' \in [Procs -> BOOLEAN]
         /\ at' \in [Procs -> Labels \cup {Nobody}]
         /\ todo' \in [Procs -> SUBSET Keys]
         /\ pending' \in [Procs -> SUBSET Labels]
         /\ key' \in [Procs -> AllKeys]
         /\ UNCHANGED <<read, left>> => \A q \in Procs : Where(q)'
<1>1. l \in Labels /\ Objects[Commit(p, l)] \subseteq Keys
  BY CommitType
<1>2. Trusted(read[p][l]) \in BOOLEAN
  BY DEF Trusted
<1>3. /\ at' \in [Procs -> Labels \cup {Nobody}]
      /\ todo' \in [Procs -> SUBSET Keys]
  BY <1>1 DEF Accept, Typed, TypeOK, Commit
<1>4. /\ problems' \in [Procs -> BOOLEAN]
      /\ phase' \in [Procs -> {"idle", "fill", "get", "write", "verify", "placeholders",
                               "plan", "prune", "extract"}]
  BY <1>2 DEF Accept, Typed, TypeOK
<1>5. /\ pending' \in [Procs -> SUBSET Labels]
      /\ key' \in [Procs -> AllKeys]
  BY DEF Accept, Typed, TypeOK, AllKeys
<1>6. ASSUME UNCHANGED <<read, left>>, NEW q \in Procs
      PROVE  Where(q)'
  <2>1. CASE q = p
    BY <1>6, <2>1 DEF Accept, Typed, TypeOK, Where
  <2>2. CASE q # p
    BY <1>6, <2>2 DEF Accept, Typed, TypeOK, Where
  <2> QED
    BY <2>1, <2>2
<1> QED
  BY <1>3, <1>4, <1>5, <1>6

LEMMA StartTyped ==
  ASSUME Typed, NEW p \in Procs, Start(p)
  PROVE  Typed'
<1>1. Site[p] \in Sites /\ table[Site[p]] \in Tables
  BY PrefetchAssumption DEF Typed, TypeOK
<1>2. DOMAIN table[Site[p]] \subseteq Labels
  BY <1>1, TableTypes
<1>3. /\ read' \in [Procs -> Tables]
      /\ pending' \in [Procs -> SUBSET Labels]
  BY <1>1, <1>2 DEF Typed, TypeOK, Start
<1>4. TypeOK'
  BY <1>3 DEF Typed, TypeOK, Start
<1>5. \A q \in Procs : Where(q)'
  BY <1>3 DEF Typed, TypeOK, Start, Where
<1> QED
  BY <1>4, <1>5 DEF Typed

LEMMA ReadManifestTyped ==
  ASSUME Typed, NEW p \in Procs, NEW l \in Labels, ReadManifest(p, l)
  PROVE  Typed'
<1>1. l \in DOMAIN read[p]
  BY DEF Typed, Where, ReadManifest
<1>2. CASE Cached(Commit(p, l), MK)
  <2>1. Accept(p, l) /\ UNCHANGED <<read, left>>
    BY <1>2 DEF ReadManifest
  <2>2. TypeOK'
    BY <1>1, <2>1, AcceptTyped DEF Typed, TypeOK, ReadManifest
  <2> QED
    BY <1>1, <2>1, <2>2, AcceptTyped DEF Typed
<1>3. CASE ~Cached(Commit(p, l), MK)
  <2>1. TypeOK'
    BY <1>3 DEF Typed, TypeOK, ReadManifest
  <2>2. \A q \in Procs : Where(q)'
    BY <1>1, <1>3 DEF Typed, TypeOK, Where, ReadManifest
  <2> QED
    BY <2>1, <2>2 DEF Typed
<1> QED
  BY <1>2, <1>3

LEMMA CheckObjectTyped ==
  ASSUME Typed, NEW p \in Procs, NEW k \in Keys, CheckObject(p, k)
  PROVE  Typed'
<1>1. CASE Cached(Commit(p, at[p]), k)
  <2>3. todo' \in [Procs -> SUBSET Keys]
    BY <1>1 DEF Typed, TypeOK, CheckObject
  <2>1. TypeOK'
    BY <1>1, <2>3 DEF Typed, TypeOK, CheckObject
  <2>2. \A q \in Procs : Where(q)'
    BY <1>1 DEF Typed, TypeOK, Where, CheckObject
  <2> QED
    BY <2>1, <2>2 DEF Typed
<1>2. CASE ~Cached(Commit(p, at[p]), k)
  <2>1. TypeOK'
    BY <1>2 DEF Typed, TypeOK, CheckObject, AllKeys
  <2>2. \A q \in Procs : Where(q)'
    BY <1>2 DEF Typed, TypeOK, Where, CheckObject
  <2> QED
    BY <2>1, <2>2 DEF Typed
<1> QED
  BY <1>1, <1>2

LEMMA TargetType ==
  ASSUME Typed, NEW p \in Procs, phase[p] \in {"get", "write", "verify"}
  PROVE  Target(p) \in Commits \X AllKeys /\ Target(p)[1] \in Commits
<1>1. Commit(p, at[p]) \in Commits
  BY CommitType DEF Typed, Where
<1>2. key[p] \in AllKeys
  BY DEF Typed, TypeOK
<1> QED
  BY <1>1, <1>2 DEF Target

LEMMA GetTyped ==
  ASSUME Typed, NEW p \in Procs, GetBegin(p) \/ GetEnd(p)
  PROVE  Typed'
<1>1. phase[p] \in {"get", "write", "verify"}
  BY DEF GetBegin, GetEnd
<1>2. Target(p) \in Commits \X AllKeys /\ Target(p)[1] \in Commits
  BY <1>1, TargetType
<1>3. cache' \in [Commits \X AllKeys -> Commits \cup {Torn, Absent}]
  BY <1>2 DEF Typed, TypeOK, GetBegin, GetEnd
<1>4. opener' \in [Commits \X AllKeys -> Procs \cup {Nobody}]
  BY <1>2 DEF Typed, TypeOK, GetBegin, GetEnd
<1>5. phase' \in [Procs -> {"idle", "fill", "get", "write", "verify", "placeholders",
                            "plan", "prune", "extract"}]
  BY DEF Typed, TypeOK, GetBegin, GetEnd
<1>6. UNCHANGED <<published, table, tree, locals, outcome, faults>>
  BY DEF GetBegin, GetEnd
<1>7. TypeOK'
  BY <1>3, <1>4, <1>5, <1>6 DEF Typed, TypeOK, locals
<1>8. \A q \in Procs : Where(q)'
  BY <1>1, <1>6 DEF Typed, TypeOK, Where, GetBegin, GetEnd, locals
<1> QED
  BY <1>7, <1>8 DEF Typed

LEMMA VerifyTyped ==
  ASSUME Typed, NEW p \in Procs, Verify(p)
  PROVE  Typed'
<1>1. /\ phase[p] = "verify" /\ at[p] \in DOMAIN read[p]
      /\ UNCHANGED <<published, table, cache, opener, tree, faults>>
  BY DEF Typed, Where, Verify
<1>2. CASE Accept(p, at[p]) /\ UNCHANGED <<plan, left, outcome, read>>
  <2>1. TypeOK'
    BY <1>1, <1>2, AcceptTyped DEF Typed, TypeOK
  <2> QED
    BY <1>1, <1>2, <2>1, AcceptTyped DEF Typed
<1>3. CASE End(p, "not-run")
  BY <1>1, <1>3, EndTyped DEF Typed, TypeOK, Outcomes
<1>4. CASE key[p] # MK
  <2>3. /\ phase' = [phase EXCEPT ![p] = "fill"]
        /\ todo' = [todo EXCEPT ![p] = @ \ {key[p]}]
        /\ key' = [key EXCEPT ![p] = MK]
        /\ problems' = [problems EXCEPT ![p] = @ \/ ~Cached(Target(p)[1], Target(p)[2])]
        /\ UNCHANGED <<pending, at, plan, left, outcome, read>>
    BY <1>4 DEF Verify
  <2>4. todo' \in [Procs -> SUBSET Keys] /\ key' \in [Procs -> AllKeys]
    BY <2>3 DEF Typed, TypeOK, AllKeys
  <2>5. problems' \in [Procs -> BOOLEAN]
    BY <2>3 DEF Typed, TypeOK, Cached
  <2>1. TypeOK'
    BY <1>1, <2>3, <2>4, <2>5 DEF Typed, TypeOK
  <2>2. \A q \in Procs : Where(q)'
    BY <1>1, <1>4 DEF Typed, TypeOK, Where, Verify
  <2> QED
    BY <2>1, <2>2 DEF Typed
<1> QED
  BY <1>2, <1>3, <1>4 DEF Verify

LEMMA RefusedTyped ==
  ASSUME Typed, NEW p \in Procs,
         GetAbsent(p) \/ GetRefused(p) \/ TreeRefused(p) \/ Crash(p) \/ Finish(p)
  PROVE  Typed'
<1>1. PICK how \in Outcomes : End(p, how)
  BY DEF GetAbsent, GetRefused, TreeRefused, Crash, Finish, Outcomes
<1>2. faults' \in 0..MaxFaults
  BY PrefetchAssumption DEF Typed, TypeOK, GetAbsent, GetRefused, TreeRefused, Crash, Finish, Fault
<1>3. opener' \in [Commits \X AllKeys -> Procs \cup {Nobody}]
  BY DEF Typed, TypeOK, GetAbsent, GetRefused, TreeRefused, Crash, Finish
<1>4. UNCHANGED <<published, table, cache>>
  BY DEF GetAbsent, GetRefused, TreeRefused, Crash, Finish
<1>5. tree' \in [Sites -> [Files -> Commits \cup {Torn, Absent}]]
  <2>1. CASE UNCHANGED tree
    BY <2>1 DEF Typed, TypeOK
  <2>2. ASSUME NEW f \in left[p], tree' = [tree EXCEPT ![Site[p]][f] = Torn]
        PROVE  tree' \in [Sites -> [Files -> Commits \cup {Torn, Absent}]]
    BY <2>2 DEF Typed, TypeOK
  <2> QED
    BY <2>1, <2>2 DEF GetAbsent, GetRefused, TreeRefused, Crash, Finish
<1>6. cache' \in [Commits \X AllKeys -> Commits \cup {Torn, Absent}]
  BY <1>4 DEF Typed, TypeOK
<1> QED
  BY <1>1, <1>2, <1>3, <1>4, <1>5, <1>6, EndTyped

LEMMA ChecksTyped ==
  ASSUME Typed, NEW p \in Procs, Filled(p) \/ Placeholders(p) \/ Plan(p)
  PROVE  Typed'
<1>1. UNCHANGED <<published, table, cache, opener, tree, faults>>
  BY DEF Filled, Placeholders, Plan
<1>2. CASE \E how \in Outcomes : End(p, how)
  BY <1>1, <1>2, EndTyped DEF Typed, TypeOK
<1>3. CASE /\ phase[p] = "fill" /\ phase' = [phase EXCEPT ![p] = "placeholders"]
           /\ at' = [at EXCEPT ![p] = Nobody]
           /\ UNCHANGED <<read, pending, todo, key, problems, plan, left, outcome>>
  <2>1. TypeOK'
    BY <1>1, <1>3 DEF Typed, TypeOK
  <2> QED
    BY <1>1, <1>3, <2>1 DEF Typed, TypeOK, Where
<1>4. CASE phase' = [phase EXCEPT ![p] = "plan"] /\ UNCHANGED <<locals, outcome>>
  <2>1. TypeOK'
    BY <1>1, <1>4 DEF Typed, TypeOK, locals
  <2> QED
    BY <1>1, <1>4, <2>1 DEF Typed, TypeOK, Where, locals
<1>5. CASE /\ phase' = [phase EXCEPT ![p] = "prune"]
           /\ plan' = [plan EXCEPT ![p] = [l \in Labels |->
                         IF l \in DOMAIN read[p] THEN cache[Commit(p, l), MK] ELSE Absent]]
           /\ UNCHANGED <<read, pending, at, todo, key, problems, left, outcome>>
  <2>1. ASSUME NEW l \in DOMAIN read[p]
        PROVE  cache[Commit(p, l), MK] \in Commits \cup {Torn, Absent}
    BY <2>1, CommitType DEF Typed, TypeOK, AllKeys
  <2>2. [l \in Labels |-> IF l \in DOMAIN read[p] THEN cache[Commit(p, l), MK] ELSE Absent]
          \in [Labels -> Commits \cup {Torn, Absent}]
    BY <2>1
  <2>3. plan' \in [Procs -> [Labels -> Commits \cup {Torn, Absent}]]
    BY <1>5, <2>2 DEF Typed, TypeOK
  <2>4. TypeOK'
    BY <1>1, <1>5, <2>3 DEF Typed, TypeOK
  <2> QED
    BY <1>1, <1>5, <2>4 DEF Typed, TypeOK, Where
<1> QED
  BY <1>2, <1>3, <1>4, <1>5 DEF Filled, Placeholders, Plan, Outcomes

\* A step of one run that leaves its place and what it fills alone.
LEMMA TreeTyped ==
  ASSUME Typed, NEW p \in Procs,
         tree' \in [Sites -> [Files -> Commits \cup {Torn, Absent}]],
         left' \in [Procs -> SUBSET Files],
         \A f \in left'[p] : f[1] \in DOMAIN read[p],
         \A q \in Procs \ {p} : left'[q] = left[q],
         problems' \in [Procs -> BOOLEAN],
         phase[p] # "idle",
         phase' = phase \/ phase' = [phase EXCEPT ![p] = "extract"],
         UNCHANGED <<published, table, cache, opener, read, pending, at, todo, key, plan,
                     outcome, faults>>
  PROVE  Typed'
<1>1. TypeOK'
  BY DEF Typed, TypeOK
<1>2. \A q \in Procs : Where(q)'
  BY DEF Typed, TypeOK, Where
<1> QED
  BY <1>1, <1>2 DEF Typed

LEMMA PruneTyped ==
  ASSUME Typed, NEW p \in Procs,
         Pruned(p) \/ \E f \in Files : Prune(p, f)
  PROVE  Typed'
<1>1. CASE Pruned(p)
  <2>1. Planned(p) \subseteq Files
    BY DEF Planned
  <2>2. left' \in [Procs -> SUBSET Files]
    BY <1>1, <2>1 DEF Pruned, Typed, TypeOK
  <2>3. /\ \A f \in left'[p] : f[1] \in DOMAIN read[p]
        /\ \A q \in Procs \ {p} : left'[q] = left[q]
    BY <1>1, <2>1 DEF Pruned, Typed, TypeOK, Planned
  <2> QED
    BY <1>1, <2>2, <2>3, TreeTyped DEF Pruned, Typed, TypeOK
<1>2. ASSUME NEW f \in Files, Prune(p, f)
      PROVE  Typed'
  <2>1. tree' \in [Sites -> [Files -> Commits \cup {Torn, Absent}]]
    BY <1>2 DEF Prune, Typed, TypeOK
  <2> QED
    BY <1>2, <2>1, TreeTyped DEF Prune, Typed, TypeOK, Where, locals
<1> QED
  BY <1>1, <1>2

\* Write and Skip, of a file that is left.
LEMMA FileTyped ==
  ASSUME Typed, NEW p \in Procs, NEW f \in Files, phase[p] # "idle",
         Skip(p, f) \/ (\E bytes \in Commits \cup {Torn, Absent} : Write(p, f, bytes)),
         UNCHANGED <<published, table, cache, opener, faults>>
  PROVE  Typed'
<1>1. left' = [left EXCEPT ![p] = @ \ {f}]
  BY DEF Skip, Write
<1>2. /\ left' \in [Procs -> SUBSET Files]
      /\ \A g \in left'[p] : g[1] \in DOMAIN read[p]
      /\ \A q \in Procs \ {p} : left'[q] = left[q]
  BY <1>1 DEF Typed, TypeOK, Where
<1>3. phase' = phase /\ UNCHANGED <<read, pending, at, todo, key, plan, outcome>>
  BY DEF Skip, Write
<1>4. CASE Skip(p, f)
  <2>1. problems' \in [Procs -> BOOLEAN] /\ tree' = tree
    BY <1>4 DEF Skip, Typed, TypeOK
  <2> QED
    BY <1>2, <1>3, <2>1, TreeTyped DEF Typed, TypeOK
<1>5. ASSUME NEW bytes \in Commits \cup {Torn, Absent}, Write(p, f, bytes)
      PROVE  Typed'
  <2>1. problems' = problems /\ tree' = [tree EXCEPT ![Site[p]][f] = bytes]
    BY <1>5 DEF Write
  <2>2. tree' \in [Sites -> [Files -> Commits \cup {Torn, Absent}]]
    BY <2>1 DEF Typed, TypeOK
  <2> QED
    BY <1>2, <1>3, <2>1, <2>2, TreeTyped DEF Typed, TypeOK
<1> QED
  BY <1>4, <1>5

\* What is left to extract is planned, so its commit is in hand.
LEMMA ExtractTyped ==
  ASSUME Typed, NEW p \in Procs, NEW l \in Labels,
         ExtractManifest(p, l) \/ \E k \in Keys : ExtractObject(p, l, k)
  PROVE  Typed'
<1>1. phase[p] = "extract" /\ l \in DOMAIN read[p]
  BY DEF Typed, Where, ExtractManifest, ExtractObject
<1>5. Commit(p, l) \in Commits
  BY <1>1, CommitType
<1>2. ASSUME NEW k \in AllKeys
      PROVE  cache[Commit(p, l), k] \in Commits \cup {Torn, Absent}
  BY <1>5, <1>2 DEF Typed, TypeOK
<1>3. CASE ExtractManifest(p, l)
  <2>1. MK \in AllKeys /\ <<l, MK>> \in Files
    BY DEF AllKeys, Files
  <2> QED
    BY <1>1, <1>2, <1>3, <2>1, FileTyped DEF ExtractManifest
<1>4. ASSUME NEW k \in Keys, ExtractObject(p, l, k)
      PROVE  Typed'
  <2>1. k \in AllKeys /\ <<l, k>> \in Files
    BY DEF AllKeys, Files
  <2>2. CASE End(p, "threw") /\ UNCHANGED tree
    BY <1>4, <2>2, EndTyped DEF ExtractObject, Typed, TypeOK, Outcomes
  <2>3. CASE Write(p, <<l, k>>, cache[Commit(p, l), k])
    BY <1>1, <1>2, <1>4, <2>1, <2>3, FileTyped DEF ExtractObject
  <2>4. CASE Skip(p, <<l, k>>)
    BY <1>1, <1>4, <2>1, <2>4, FileTyped DEF ExtractObject
  <2> QED
    BY <1>4, <2>2, <2>3, <2>4 DEF ExtractObject
<1> QED
  BY <1>3, <1>4

LEMMA InitTyped == Init => Typed
<1> SUFFICES ASSUME Init
             PROVE  Typed
  OBVIOUS
<1>1. \A p \in Procs : table[Site[p]] \in Tables
  BY PrefetchAssumption DEF Init
<1>2. read \in [Procs -> Tables]
  BY <1>1 DEF Init
<1>3. TypeOK
  BY <1>2, PrefetchAssumption DEF Init, TypeOK, AllKeys
<1>4. \A p \in Procs : Where(p)
  BY DEF Init, Where
<1> QED
  BY <1>3, <1>4 DEF Typed

LEMMA NextTyped == Typed /\ [Next]_vars => Typed'
<1> SUFFICES ASSUME Typed, [Next]_vars
             PROVE  Typed'
  OBVIOUS
<1>1. ASSUME NEW p \in Procs, Start(p)
      PROVE  Typed'
  BY <1>1, StartTyped
<1>2. ASSUME NEW p \in Procs, Step(p)
      PROVE  Typed'
  BY <1>2, ReadManifestTyped, CheckObjectTyped, GetTyped, VerifyTyped, RefusedTyped,
     ChecksTyped, PruneTyped, ExtractTyped DEF Step
<1>3. ASSUME NEW p \in Procs, GetRefused(p) \/ TreeRefused(p) \/ Crash(p)
      PROVE  Typed'
  BY <1>3, RefusedTyped
<1>4. ASSUME NEW c \in Commits, Publish(c)
      PROVE  Typed'
  BY <1>4 DEF Typed, TypeOK, Where, Publish, locals
<1>5. ASSUME NEW s \in Sites, NEW t \in Tables, EditConfigs(s, t)
      PROVE  Typed'
  BY <1>5 DEF Typed, TypeOK, Where, EditConfigs, locals
<1>6. CASE UNCHANGED vars
  <2>1. TypeOK'
    BY <1>6 DEF Typed, TypeOK, vars, locals
  <2>2. \A q \in Procs : Where(q)'
    BY <1>6 DEF Typed, Where, vars, locals
  <2> QED
    BY <2>1, <2>2 DEF Typed
<1> QED
  BY <1>1, <1>2, <1>3, <1>4, <1>5, <1>6 DEF Next

\* Every variable keeps its type, whatever the runs, the faults and the edits.
THEOREM PrefetchTypes == Spec => []TypeOK
<1>1. Spec => []Typed
  BY InitTyped, NextTyped, PTL DEF Spec
<1>2. Typed => TypeOK
  BY DEF Typed
<1> QED
  BY <1>1, <1>2, PTL
-----------------------------------------------------------------------------
(* What is in the trees.                                                   *)

\* Runs of different processes are for different sites; or there is one process.
OwnSites == \A p, q \in Procs : Site[p] = Site[q] => p = q
OneRun == \A p, q \in Procs : p = q

\* With other runs filling the cache the manifests are not covered.
Right(p, f) == (f[2] = MK /\ ~OneRun) \/ tree[Site[p]][f] = Due(p, f)

\* A file is right once it has been extracted, and a file no plan names is gone.
TreeInv(p) ==
  /\ outcome[p] = "prefetched" => phase[p] = "idle" /\ \A f \in Files : Right(p, f)
  /\ phase[p] = "extract" =>
       /\ left[p] \subseteq Planned(p)
       /\ \A f \in Files \ left[p] : problems[p] \/ Right(p, f)

\* A manifest that was accepted stays in the cache until the run is over, and is
\* the one the plan was made from.
ManifestInv(p) ==
  /\ phase[p] # "idle" =>
       \A l \in DOMAIN read[p] \ pending[p] : cache[Commit(p, l), MK] = Commit(p, l)
  /\ phase[p] \in {"placeholders", "plan", "prune", "extract"} => pending[p] = {}
  /\ phase[p] \in {"prune", "extract"} =>
       \A l \in DOMAIN read[p] : plan[p][l] = Commit(p, l)
  /\ phase[p] = "get" => cache[Target(p)] # Target(p)[1]
  /\ phase[p] \in {"idle", "fill"} => key[p] = MK

ExactInv ==
  /\ Typed
  /\ \A p \in Procs : TreeInv(p)
  /\ OneRun => \A p \in Procs : ManifestInv(p)

Act(p) == Start(p) \/ Step(p) \/ GetRefused(p) \/ TreeRefused(p) \/ Crash(p)

\* What a run leaves alone of the others.
SameRun(q) ==
  /\ read'[q] = read[q] /\ phase'[q] = phase[q] /\ left'[q] = left[q]
  /\ problems'[q] = problems[q] /\ outcome'[q] = outcome[q]

LEMMA OtherRuns ==
  ASSUME Typed, NEW p \in Procs, Act(p), NEW q \in Procs, q # p
  PROVE  SameRun(q)
<1>1. ASSUME NEW how \in Outcomes, End(p, how)
      PROVE  SameRun(q)
  BY <1>1 DEF End, SameRun, Typed, TypeOK
<1>2. CASE Start(p)
  BY <1>2 DEF Start, SameRun, Typed, TypeOK
<1>3. CASE GetRefused(p) \/ TreeRefused(p) \/ Crash(p) \/ GetAbsent(p) \/ Finish(p)
  BY <1>1, <1>3 DEF GetRefused, TreeRefused, Crash, GetAbsent, Finish, Outcomes
<1>4. ASSUME NEW l \in Labels, ReadManifest(p, l)
      PROVE  SameRun(q)
  BY <1>4 DEF ReadManifest, Accept, SameRun, Typed, TypeOK
<1>5. ASSUME NEW k \in Keys, CheckObject(p, k)
      PROVE  SameRun(q)
  BY <1>5 DEF CheckObject, SameRun, Typed, TypeOK
<1>6. CASE GetBegin(p) \/ GetEnd(p)
  BY <1>6 DEF GetBegin, GetEnd, locals, SameRun, Typed, TypeOK
<1>7. CASE Verify(p)
  <2>1. CASE \E l : Accept(p, l) /\ UNCHANGED <<left, outcome, read>>
    BY <2>1 DEF Accept, SameRun, Typed, TypeOK
  <2>2. CASE /\ phase' = [phase EXCEPT ![p] = "fill"]
             /\ \E b : problems' = [problems EXCEPT ![p] = b]
             /\ UNCHANGED <<left, outcome, read>>
    BY <2>2 DEF SameRun, Typed, TypeOK
  <2>3. Verify(p) => \/ \E l : Accept(p, l) /\ UNCHANGED <<left, outcome, read>>
                     \/ End(p, "not-run")
                     \/ /\ phase' = [phase EXCEPT ![p] = "fill"]
                        /\ \E b : problems' = [problems EXCEPT ![p] = b]
                        /\ UNCHANGED <<left, outcome, read>>
    BY DEF Verify
  <2> QED
    BY <1>1, <1>7, <2>1, <2>2, <2>3 DEF Outcomes
<1>8. CASE Filled(p) \/ Placeholders(p) \/ Plan(p)
  <2>1. CASE \E how \in Outcomes : End(p, how)
    BY <1>1, <2>1
  <2>2. CASE /\ \E to : phase' = [phase EXCEPT ![p] = to]
             /\ UNCHANGED <<read, left, problems, outcome>>
    BY <2>2 DEF SameRun, Typed, TypeOK
  <2> QED
    BY <1>8, <2>1, <2>2 DEF Filled, Placeholders, Plan, locals, Outcomes
<1>9. CASE Pruned(p) \/ \E f \in Files : Prune(p, f)
  BY <1>9 DEF Prune, Pruned, locals, SameRun, Typed, TypeOK
<1>10. ASSUME NEW f, NEW bytes, Write(p, f, bytes) \/ Skip(p, f)
       PROVE  SameRun(q)
  BY <1>10 DEF Write, Skip, SameRun, Typed, TypeOK
<1>11. ASSUME NEW l \in Labels, ExtractManifest(p, l)
       PROVE  SameRun(q)
  BY <1>10, <1>11 DEF ExtractManifest
<1>12. ASSUME NEW l \in Labels, NEW k \in Keys, ExtractObject(p, l, k)
       PROVE  SameRun(q)
  BY <1>1, <1>10, <1>12 DEF ExtractObject, Outcomes
<1> QED
  BY <1>2, <1>3, <1>4, <1>5, <1>6, <1>7, <1>8, <1>9, <1>11, <1>12 DEF Act, Step

LEMMA OtherTrees ==
  ASSUME Typed, OwnSites, NEW p \in Procs, Act(p), NEW q \in Procs, q # p
  PROVE  tree'[Site[q]] = tree[Site[q]]
<1>1. Site[p] # Site[q] /\ Site[p] \in Sites /\ Site[q] \in Sites
  BY PrefetchAssumption DEF OwnSites
<1>2. CASE \E f, bytes : tree' = [tree EXCEPT ![Site[p]][f] = bytes]
  BY <1>1, <1>2 DEF Typed, TypeOK
<1>3. CASE tree' = tree
  BY <1>3
<1>4. ASSUME Step(p)
      PROVE  tree' = tree \/ \E f, bytes : tree' = [tree EXCEPT ![Site[p]][f] = bytes]
  BY <1>4 DEF Step, ReadManifest, ExtractManifest, CheckObject, GetBegin, GetEnd, GetAbsent,
              Verify, Filled, Placeholders, Plan, Prune, Pruned, ExtractObject, Finish, Write,
              Skip
<1>5. ASSUME Start(p) \/ GetRefused(p) \/ TreeRefused(p) \/ Crash(p)
      PROVE  tree' = tree \/ \E f, bytes : tree' = [tree EXCEPT ![Site[p]][f] = bytes]
  BY <1>5 DEF Start, GetRefused, TreeRefused, Crash
<1> QED
  BY <1>2, <1>3, <1>4, <1>5 DEF Act

\* A run that does nothing keeps what holds of it, as long as its trees do not change.
LEMMA RunStands ==
  ASSUME NEW q \in Procs, TreeInv(q), SameRun(q), tree'[Site[q]] = tree[Site[q]]
  PROVE  TreeInv(q)'
<1>1. Planned(q)' = Planned(q)
  BY DEF Planned, Commit, SameRun
<1>2. \A f \in Files : Due(q, f)' = Due(q, f)
  BY <1>1 DEF Due, Commit, SameRun
<1>3. \A f \in Files : Right(q, f)' <=> Right(q, f)
  BY <1>2 DEF Right
<1> QED
  BY <1>1, <1>3 DEF TreeInv, SameRun

\* The end of a run: what it says of its trees has to be so.
LEMMA EndTree ==
  ASSUME Typed, NEW p \in Procs, NEW how \in Outcomes, End(p, how),
         how = "prefetched" => tree' = tree /\ \A f \in Files : Right(p, f)
  PROVE  TreeInv(p)'
<1>1. phase'[p] = "idle" /\ outcome'[p] = how /\ read' = read
  BY DEF End, Typed, TypeOK
<1>2. CASE how # "prefetched"
  BY <1>1, <1>2 DEF TreeInv
<1>3. CASE how = "prefetched"
  <2>1. Planned(p)' = Planned(p)
    BY <1>1 DEF Planned, Commit
  <2>2. \A f \in Files : Due(p, f)' = Due(p, f)
    BY <1>1, <2>1 DEF Due, Commit
  <2>3. \A f \in Files : Right(p, f)'
    BY <1>3, <2>2 DEF Right
  <2> QED
    BY <1>1, <2>3 DEF TreeInv
<1> QED
  BY <1>2, <1>3

\* A run that goes on has reported nothing.
LEMMA GoingOn ==
  ASSUME NEW p \in Procs, TreeInv(p), phase[p] # "idle",
         outcome'[p] = outcome[p], phase'[p] # "extract"
  PROVE  TreeInv(p)'
BY DEF TreeInv

\* Writing or skipping one of the files that are left.
LEMMA ExtractTree ==
  ASSUME Typed, NEW p \in Procs, TreeInv(p), phase[p] = "extract", NEW f \in left[p],
         \/ Skip(p, f)
         \/ \E bytes : Write(p, f, bytes) /\ (bytes = Commit(p, f[1]) \/ (f[2] = MK /\ ~OneRun))
  PROVE  TreeInv(p)'
<1>1. f \in Files /\ f \in Planned(p) /\ Site[p] \in Sites
  BY PrefetchAssumption DEF Typed, TypeOK, TreeInv
<1>2. /\ left' = [left EXCEPT ![p] = @ \ {f}]
      /\ read' = read /\ phase' = phase /\ outcome' = outcome
  BY DEF Skip, Write
<1>3. Planned(p)' = Planned(p)
  BY <1>2 DEF Planned, Commit
<1>4. \A g \in Files : Due(p, g)' = Due(p, g)
  BY <1>2, <1>3 DEF Due, Commit
<1>5. left'[p] = left[p] \ {f} /\ outcome'[p] # "prefetched"
  BY <1>2 DEF Typed, TypeOK, TreeInv
<1>6. \A g \in Files \ left'[p] : problems'[p] \/ Right(p, g)'
  <2>1. CASE Skip(p, f)
    BY <2>1 DEF Skip, Typed, TypeOK
  <2>2. ASSUME NEW bytes, Write(p, f, bytes),
               bytes = Commit(p, f[1]) \/ (f[2] = MK /\ ~OneRun)
        PROVE  \A g \in Files \ left'[p] : problems'[p] \/ Right(p, g)'
    <3>1. tree' = [tree EXCEPT ![Site[p]][f] = bytes] /\ problems' = problems
      BY <2>2 DEF Write
    <3>2. tree'[Site[p]][f] = bytes
          /\ \A g \in Files \ {f} : tree'[Site[p]][g] = tree[Site[p]][g]
      BY <1>1, <3>1 DEF Typed, TypeOK
    <3>3. Right(p, f)'
      BY <1>1, <1>4, <2>2, <3>2 DEF Right, Due
    <3>4. \A g \in Files \ left[p] : g # f /\ (problems[p] \/ Right(p, g))
      BY DEF TreeInv
    <3>5. \A g \in Files \ left[p] : problems'[p] \/ Right(p, g)'
      BY <1>4, <3>1, <3>2, <3>4 DEF Right
    <3> QED
      BY <1>5, <3>3, <3>5
  <2> QED
    BY <2>1, <2>2
<1> QED
  BY <1>2, <1>3, <1>5, <1>6 DEF TreeInv

LEMMA ManifestHere ==
  ASSUME NEW p \in Procs, ManifestInv(p), phase[p] = "extract", NEW l \in DOMAIN read[p]
  PROVE  cache[Commit(p, l), MK] = Commit(p, l) /\ plan[p][l] = Commit(p, l)
BY DEF ManifestInv

LEMMA OwnTree ==
  ASSUME Typed, NEW p \in Procs, TreeInv(p), OneRun => ManifestInv(p), Act(p)
  PROVE  TreeInv(p)'
<1>1. CASE Start(p)
  BY <1>1 DEF Start, TreeInv, Typed, TypeOK
<1>2. CASE GetRefused(p) \/ TreeRefused(p) \/ Crash(p) \/ GetAbsent(p)
  BY <1>2, EndTree DEF GetRefused, TreeRefused, Crash, GetAbsent, Outcomes
<1>3. ASSUME NEW l \in Labels, ReadManifest(p, l)
      PROVE  TreeInv(p)'
  <2>1. phase[p] = "fill" /\ outcome' = outcome /\ phase'[p] # "extract"
    BY <1>3 DEF ReadManifest, Accept, Typed, TypeOK
  <2> QED
    BY <2>1, GoingOn
<1>4. ASSUME NEW k \in Keys, CheckObject(p, k)
      PROVE  TreeInv(p)'
  <2>1. phase[p] = "fill" /\ outcome' = outcome /\ phase'[p] # "extract"
    BY <1>4 DEF CheckObject, Typed, TypeOK
  <2> QED
    BY <2>1, GoingOn
<1>5. CASE GetBegin(p) \/ GetEnd(p)
  <2>1. phase[p] # "idle" /\ outcome' = outcome /\ phase'[p] # "extract"
    BY <1>5 DEF GetBegin, GetEnd, Typed, TypeOK
  <2> QED
    BY <2>1, GoingOn
<1>6. CASE Verify(p)
  <2>1. CASE End(p, "not-run")
    BY <2>1, EndTree DEF Outcomes
  <2>2. CASE ~End(p, "not-run")
    <3>1. phase[p] = "verify" /\ outcome' = outcome /\ phase' = [phase EXCEPT ![p] = "fill"]
      BY <1>6, <2>2 DEF Verify, Accept
    <3> QED
      BY <3>1, GoingOn DEF Typed, TypeOK
  <2> QED
    BY <2>1, <2>2
<1>7. CASE Filled(p) \/ Placeholders(p) \/ Plan(p)
  <2>1. CASE \E how \in Outcomes \ {"prefetched"} : End(p, how)
    BY <2>1, EndTree
  <2>2. CASE ~\E how \in Outcomes \ {"prefetched"} : End(p, how)
    <3>1. /\ phase[p] # "idle" /\ outcome' = outcome
          /\ \E to \in {"placeholders", "plan", "prune"} : phase' = [phase EXCEPT ![p] = to]
      BY <1>7, <2>2 DEF Filled, Placeholders, Plan, Outcomes
    <3> QED
      BY <3>1, GoingOn DEF Typed, TypeOK
  <2> QED
    BY <2>1, <2>2
<1>8. ASSUME NEW f \in Files, Prune(p, f)
      PROVE  TreeInv(p)'
  <2>1. phase[p] = "prune" /\ phase' = phase /\ outcome' = outcome
    BY <1>8 DEF Prune
  <2> QED
    BY <2>1, GoingOn
<1>9. CASE Pruned(p)
  <2>1. /\ phase[p] = "prune" /\ Stale(p) = {} /\ left'[p] = Planned(p)
        /\ UNCHANGED <<read, tree, outcome>>
    BY <1>9 DEF Pruned, Typed, TypeOK
  <2>2. Planned(p)' = Planned(p)
    BY <2>1 DEF Planned, Commit
  <2>3. \A f \in Files \ Planned(p) : Right(p, f)'
    BY <2>1, <2>2 DEF Right, Due, Stale
  <2> QED
    BY <2>1, <2>2, <2>3 DEF TreeInv
<1>10. ASSUME NEW l \in Labels, ExtractManifest(p, l)
       PROVE  TreeInv(p)'
  <2>1. phase[p] = "extract" /\ <<l, MK>> \in left[p] /\ l \in DOMAIN read[p]
    BY <1>10 DEF ExtractManifest, Typed, Where
  <2>2. CASE Skip(p, <<l, MK>>)
    BY <2>1, <2>2, ExtractTree
  <2>3. CASE Write(p, <<l, MK>>, plan[p][l])
    <3>1. OneRun => plan[p][l] = Commit(p, l)
      BY <2>1, ManifestHere
    <3> QED
      BY <2>1, <2>3, <3>1, ExtractTree
  <2> QED
    BY <1>10, <2>2, <2>3 DEF ExtractManifest
<1>11. ASSUME NEW l \in Labels, NEW k \in Keys, ExtractObject(p, l, k)
       PROVE  TreeInv(p)'
  <2>1. phase[p] = "extract" /\ <<l, k>> \in left[p]
    BY <1>11 DEF ExtractObject
  <2>2. CASE End(p, "threw")
    BY <2>2, EndTree DEF Outcomes
  <2>3. CASE Skip(p, <<l, k>>)
    BY <2>1, <2>3, ExtractTree
  <2>4. CASE Write(p, <<l, k>>, Commit(p, l))
    BY <2>1, <2>4, ExtractTree
  <2> QED
    BY <1>11, <2>2, <2>3, <2>4 DEF ExtractObject, Decodes
<1>12. CASE Finish(p)
  <2>1. PICK how \in {"failed", "prefetched"} :
          End(p, how) /\ (how = "prefetched" => ~problems[p])
    BY <1>12 DEF Finish
  <2>2. how = "prefetched" => \A f \in Files : Right(p, f)
    BY <1>12, <2>1 DEF Finish, TreeInv
  <2> QED
    BY <1>12, <2>1, <2>2, EndTree DEF Finish, Outcomes
<1> QED
  BY <1>1, <1>2, <1>3, <1>4, <1>5, <1>6, <1>7, <1>8, <1>9, <1>10, <1>11, <1>12 DEF Act, Step

\* A step that leaves the cache alone, for the three conjuncts about it.
LEMMA ManifestStands ==
  ASSUME Typed, NEW p \in Procs, ManifestInv(p), phase[p] # "idle", phase'[p] # "get",
         cache' = cache, read' = read, pending' = pending, plan' = plan,
         phase'[p] = "fill" => key'[p] = MK, phase'[p] # "idle",
         phase'[p] \in {"prune", "extract"} => phase[p] \in {"prune", "extract"},
         phase'[p] \in {"placeholders", "plan", "prune", "extract"} => pending[p] = {}
  PROVE  ManifestInv(p)'
BY DEF ManifestInv, Commit

LEMMA ManifestEnds ==
  ASSUME Typed, NEW p \in Procs, NEW how, End(p, how)
  PROVE  ManifestInv(p)'
BY DEF ManifestInv, End, Typed, TypeOK

LEMMA ManifestAccepted ==
  ASSUME Typed, NEW p \in Procs, ManifestInv(p), NEW l \in DOMAIN read[p], Accept(p, l),
         Cached(Commit(p, l), MK), phase[p] # "idle", UNCHANGED <<cache, read>>
  PROVE  ManifestInv(p)'
<1>1. phase'[p] = "fill" /\ pending'[p] = pending[p] \ {l} /\ key'[p] = MK
  BY DEF Accept, Typed, TypeOK
<1>2. \A m \in DOMAIN read[p] \ pending'[p] : cache[Commit(p, m), MK] = Commit(p, m)
  BY <1>1 DEF ManifestInv, Cached
<1> QED
  BY <1>1, <1>2 DEF ManifestInv, Commit

LEMMA OwnManifest ==
  ASSUME Typed, NEW p \in Procs, TreeInv(p), ManifestInv(p), Act(p)
  PROVE  ManifestInv(p)'
<1>1. CASE Start(p)
  BY <1>1 DEF Start, ManifestInv, Typed, TypeOK
<1>2. CASE GetRefused(p) \/ TreeRefused(p) \/ Crash(p) \/ GetAbsent(p) \/ Finish(p)
  BY <1>2, ManifestEnds DEF GetRefused, TreeRefused, Crash, GetAbsent, Finish
<1>3. ASSUME NEW l \in Labels, ReadManifest(p, l)
      PROVE  ManifestInv(p)'
  <2>1. phase[p] = "fill" /\ l \in DOMAIN read[p] /\ UNCHANGED <<cache, read, plan>>
    BY <1>3 DEF ReadManifest, Typed, Where
  <2>2. CASE Cached(Commit(p, l), MK)
    BY <1>3, <2>1, <2>2, ManifestAccepted DEF ReadManifest
  <2>3. CASE ~Cached(Commit(p, l), MK)
    <3>1. /\ phase' = [phase EXCEPT ![p] = "get"] /\ at' = [at EXCEPT ![p] = l]
          /\ UNCHANGED <<pending, key>>
      BY <1>3, <2>3 DEF ReadManifest
    <3>2. phase'[p] = "get" /\ at'[p] = l
      BY <3>1 DEF Typed, TypeOK
    <3> QED
      BY <2>1, <2>3, <3>1, <3>2 DEF ManifestInv, Target, Cached, Commit
  <2> QED
    BY <2>2, <2>3
<1>4. ASSUME NEW k \in Keys, CheckObject(p, k)
      PROVE  ManifestInv(p)'
  <2>1. phase[p] = "fill" /\ UNCHANGED <<cache, read, plan, pending, at>>
    BY <1>4 DEF CheckObject
  <2>2. CASE Cached(Commit(p, at[p]), k)
    <3>1. phase' = phase /\ key' = key
      BY <1>4, <2>2 DEF CheckObject
    <3> QED
      BY <2>1, <3>1 DEF ManifestInv, Commit
  <2>3. CASE ~Cached(Commit(p, at[p]), k)
    <3>1. phase'[p] = "get" /\ key'[p] = k
      BY <1>4, <2>3 DEF CheckObject, Typed, TypeOK
    <3> QED
      BY <2>1, <2>3, <3>1 DEF ManifestInv, Target, Cached, Commit
  <2> QED
    BY <2>2, <2>3
<1>5. CASE GetBegin(p)
  <2>1. /\ phase[p] = "get" /\ phase'[p] = "write" /\ cache' = [cache EXCEPT ![Target(p)] = Torn]
        /\ UNCHANGED <<read, plan, pending>>
    BY <1>5 DEF GetBegin, Typed, TypeOK, locals
  <2>2. cache[Target(p)] # Target(p)[1]
    BY <2>1 DEF ManifestInv
  <2>3. Target(p) \in Commits \X AllKeys
    BY <2>1, TargetType
  <2>4. ASSUME NEW l \in DOMAIN read[p] \ pending[p]
        PROVE  cache'[<<Commit(p, l), MK>>] = Commit(p, l)
    <3>1. cache[<<Commit(p, l), MK>>] = Commit(p, l)
      BY <2>1 DEF ManifestInv
    <3>2. <<Commit(p, l), MK>> # Target(p)
      BY <2>2, <3>1 DEF Target
    <3>3. <<Commit(p, l), MK>> \in Commits \X AllKeys
      BY CommitType DEF AllKeys
    <3> QED
      BY <2>1, <2>3, <3>1, <3>2, <3>3 DEF Typed, TypeOK
  <2> QED
    BY <2>1, <2>4 DEF ManifestInv, Commit
<1>6. CASE GetEnd(p)
  <2>1. /\ phase[p] = "write" /\ phase'[p] = "verify"
        /\ cache' = cache \/ cache' = [cache EXCEPT ![Target(p)] = Target(p)[1]]
        /\ UNCHANGED <<read, plan, pending>>
    BY <1>6 DEF GetEnd, Typed, TypeOK, locals
  <2>2. ASSUME NEW l \in DOMAIN read[p] \ pending[p]
        PROVE  cache'[<<Commit(p, l), MK>>] = Commit(p, l)
    <3>1. cache[<<Commit(p, l), MK>>] = Commit(p, l)
      BY <2>1 DEF ManifestInv
    <3>2. <<Commit(p, l), MK>> \in Commits \X AllKeys
      BY CommitType DEF AllKeys
    <3>3. <<Commit(p, l), MK>> = Target(p) => Target(p)[1] = Commit(p, l)
      BY DEF Target
    <3> QED
      BY <2>1, <3>1, <3>2, <3>3 DEF Typed, TypeOK
  <2> QED
    BY <2>1, <2>2 DEF ManifestInv, Commit
<1>7. CASE Verify(p)
  <2>1. phase[p] = "verify" /\ at[p] \in DOMAIN read[p] /\ cache' = cache
    BY <1>7 DEF Verify, Typed, Where
  <2>2. CASE End(p, "not-run")
    BY <2>2, ManifestEnds
  <2>3. CASE key[p] = MK /\ ~End(p, "not-run")
    <3>1. /\ Cached(Commit(p, at[p]), MK) /\ Accept(p, at[p]) /\ read' = read
      BY <1>7, <2>3 DEF Verify, Target
    <3> QED
      BY <2>1, <3>1, ManifestAccepted
  <2>4. CASE key[p] # MK
    <3>1. /\ phase' = [phase EXCEPT ![p] = "fill"] /\ key' = [key EXCEPT ![p] = MK]
          /\ UNCHANGED <<pending, plan, read>>
      BY <1>7, <2>4 DEF Verify
    <3>2. phase'[p] = "fill" /\ key'[p] = MK
      BY <3>1 DEF Typed, TypeOK
    <3> QED
      BY <2>1, <3>1, <3>2, ManifestStands
  <2> QED
    BY <2>2, <2>3, <2>4
<1>8. CASE Filled(p) \/ Placeholders(p)
  <2>1. CASE \E how \in Outcomes : End(p, how)
    BY <2>1, ManifestEnds
  <2>2. CASE ~\E how \in Outcomes : End(p, how)
    <3>1. /\ phase[p] # "idle" /\ UNCHANGED <<cache, read, plan, pending>>
          /\ \E to \in {"placeholders", "plan"} : phase' = [phase EXCEPT ![p] = to]
          /\ phase[p] = "fill" => pending[p] = {}
          /\ phase[p] \in {"fill", "placeholders"}
      BY <1>8, <2>2 DEF Filled, Placeholders, locals, Outcomes
    <3>2. pending[p] = {}
      BY <3>1 DEF ManifestInv
    <3> QED
      BY <3>1, <3>2, ManifestStands DEF Typed, TypeOK
  <2> QED
    BY <2>1, <2>2
<1>9. CASE Plan(p)
  <2>1. CASE End(p, "failed")
    BY <2>1, ManifestEnds
  <2>2. CASE ~End(p, "failed")
    <3>1. /\ phase[p] = "plan" /\ phase'[p] = "prune" /\ UNCHANGED <<cache, read, pending>>
          /\ plan'[p] = [l \in Labels |->
                           IF l \in DOMAIN read[p] THEN cache[Commit(p, l), MK] ELSE Absent]
      BY <1>9, <2>2 DEF Plan, Typed, TypeOK
    <3>2. \A l \in DOMAIN read[p] : l \in Labels
      BY CommitType
    <3>3. pending[p] = {}
      BY <3>1 DEF ManifestInv
    <3>4. \A l \in DOMAIN read[p] : cache[Commit(p, l), MK] = Commit(p, l)
      BY <3>1, <3>3 DEF ManifestInv
    <3>5. \A l \in DOMAIN read[p] : plan'[p][l] = Commit(p, l)
      BY <3>1, <3>2, <3>4
    <3> QED
      BY <3>1, <3>3, <3>4, <3>5 DEF ManifestInv, Commit
  <2> QED
    BY <2>1, <2>2
<1>10. CASE Pruned(p) \/ \E f \in Files : Prune(p, f)
  <2>1. /\ phase[p] = "prune" /\ phase'[p] \in {"prune", "extract"}
        /\ UNCHANGED <<cache, read, plan, pending>>
    BY <1>10 DEF Prune, Pruned, locals, Typed, TypeOK
  <2>2. pending[p] = {}
    BY <2>1 DEF ManifestInv
  <2> QED
    BY <2>1, <2>2, ManifestStands
<1>11. ASSUME NEW f, NEW bytes, Write(p, f, bytes) \/ Skip(p, f), phase[p] = "extract",
              cache' = cache
       PROVE  ManifestInv(p)'
  <2>1. phase' = phase /\ UNCHANGED <<read, plan, pending>> /\ pending[p] = {}
    BY <1>11 DEF Write, Skip, ManifestInv
  <2> QED
    BY <1>11, <2>1, ManifestStands
<1>12. ASSUME NEW l \in Labels, ExtractManifest(p, l)
       PROVE  ManifestInv(p)'
  BY <1>11, <1>12 DEF ExtractManifest
<1>13. ASSUME NEW l \in Labels, NEW k \in Keys, ExtractObject(p, l, k)
       PROVE  ManifestInv(p)'
  BY <1>11, <1>13, ManifestEnds DEF ExtractObject
<1> QED
  BY <1>1, <1>2, <1>3, <1>4, <1>5, <1>6, <1>7, <1>8, <1>9, <1>10, <1>12, <1>13 DEF Act, Step

LEMMA InitExact == Init => ExactInv
<1> SUFFICES ASSUME Init
             PROVE  ExactInv
  OBVIOUS
<1>1. \A p \in Procs : TreeInv(p) /\ ManifestInv(p)
  BY DEF Init, TreeInv, ManifestInv
<1> QED
  BY <1>1, InitTyped DEF ExactInv

LEMMA NextExact == OwnSites /\ ExactInv /\ [Next]_vars => ExactInv'
<1> SUFFICES ASSUME OwnSites, ExactInv, [Next]_vars
             PROVE  ExactInv'
  OBVIOUS
<1>1. Typed /\ Typed'
  BY NextTyped DEF ExactInv
<1>2. ASSUME NEW p \in Procs, Act(p)
      PROVE  ExactInv'
  <2>1. \A q \in Procs : TreeInv(q)'
    <3> SUFFICES ASSUME NEW q \in Procs
                 PROVE  TreeInv(q)'
      OBVIOUS
    <3>1. CASE q = p
      BY <1>1, <1>2, <3>1, OwnTree DEF ExactInv
    <3>2. CASE q # p
      BY <1>1, <1>2, <3>2, OtherRuns, OtherTrees, RunStands DEF ExactInv
    <3> QED
      BY <3>1, <3>2
  <2>2. ASSUME OneRun, NEW q \in Procs
        PROVE  ManifestInv(q)'
    <3>1. q = p
      BY <2>2 DEF OneRun
    <3> QED
      BY <1>1, <1>2, <2>2, <3>1, OwnManifest DEF ExactInv
  <2> QED
    BY <1>1, <2>1, <2>2 DEF ExactInv, OneRun
<1>3. CASE \/ \E c \in Commits : Publish(c)
           \/ \E s \in Sites, t \in Tables : EditConfigs(s, t)
           \/ UNCHANGED vars
  <2>1. UNCHANGED <<cache, tree, phase, locals, outcome>>
    BY <1>3 DEF Publish, EditConfigs, vars
  <2>2. \A q \in Procs : TreeInv(q)'
    BY <2>1, RunStands DEF ExactInv, SameRun, locals
  <2>3. ASSUME NEW q \in Procs, ManifestInv(q)
        PROVE  ManifestInv(q)'
    BY <2>1, <2>3 DEF ManifestInv, Commit, Target, locals
  <2> QED
    BY <1>1, <2>2, <2>3 DEF ExactInv, OneRun
<1> QED
  BY <1>2, <1>3 DEF Next, Act

\* Runs that fill one cache together, each for a site of its own: a run that
\* reports prefetched leaves every object file of its site exact.
THEOREM ObjectsExact ==
  ASSUME OwnSites
  PROVE  Spec => []PrefetchedObjectsExact
<1>1. ExactInv => PrefetchedObjectsExact
  BY DEF ExactInv, TreeInv, Right, PrefetchedObjectsExact
<1>2. ExactInv /\ [Next]_vars => ExactInv'
  BY NextExact
<1> QED
  BY <1>1, <1>2, InitExact, PTL DEF Spec

\* One process at a time: every file, the manifests included.
THEOREM TreesExact ==
  ASSUME OneRun
  PROVE  Spec => []PrefetchedIsExact
<1>1. OwnSites
  BY DEF OneRun, OwnSites
<1>2. ExactInv => PrefetchedIsExact
  BY DEF ExactInv, TreeInv, Right, PrefetchedIsExact
<1>3. ExactInv /\ [Next]_vars => ExactInv'
  BY <1>1, NextExact
<1> QED
  BY <1>2, <1>3, InitExact, PTL DEF Spec
-----------------------------------------------------------------------------
(***************************************************************************)
(* What the cache holds when the trees are touched, one process at a time. *)
(* A file that was found good is never opened again, so what the run has   *)
(* checked off stays good until it prunes and extracts.                    *)
(***************************************************************************)

Filling == {"fill", "get", "write", "verify"}
Checked == {"placeholders", "plan", "prune", "extract"}

\* The cache holds the bytes of a key of the bundle labelled l.
Good(p, l, k) == cache[Commit(p, l), k] = Commit(p, l)

Pinned(p, l) == read[p][l].pin \in {NoPin, Commit(p, l)}

\* While no check has failed: every label that was accepted has the bundle it is
\* pinned to, and its objects are good or still to be checked.
BackedInv(p) ==
  /\ phase[p] \in Filling /\ ~problems[p] =>
       \A l \in DOMAIN read[p] \ pending[p] :
         /\ Pinned(p, l)
         /\ \A k \in Objects[Commit(p, l)] : Good(p, l, k) \/ (l = at[p] /\ k \in todo[p])
  /\ phase[p] \in {"get", "write", "verify"} /\ key[p] = MK => todo[p] = {}
  /\ phase[p] \in Checked =>
       \A l \in DOMAIN read[p] :
         Pinned(p, l) /\ \A k \in Objects[Commit(p, l)] : Good(p, l, k)

\* A run opens only files that were not good, and closes them good.
LEMMA GoodStays ==
  ASSUME Typed, NEW p \in Procs, ManifestInv(p), Act(p),
         NEW c \in Commits, NEW k \in AllKeys, cache[<<c, k>>] = c
  PROVE  cache'[<<c, k>>] = c
<1>1. CASE GetBegin(p)
  <2>1. phase[p] = "get" /\ cache' = [cache EXCEPT ![Target(p)] = Torn]
    BY <1>1 DEF GetBegin
  <2>2. cache[Target(p)] # Target(p)[1]
    BY <2>1 DEF ManifestInv
  <2>3. <<c, k>> # Target(p)
    BY <2>2
  <2> QED
    BY <2>1, <2>3 DEF Typed, TypeOK
<1>2. CASE GetEnd(p)
  <2>1. \/ cache' = cache
        \/ cache' = [cache EXCEPT ![Target(p)] = Target(p)[1]]
    BY <1>2 DEF GetEnd
  <2>2. <<c, k>> = Target(p) => Target(p)[1] = c
    OBVIOUS
  <2> QED
    BY <2>1, <2>2 DEF Typed, TypeOK
<1>3. CASE ~(GetBegin(p) \/ GetEnd(p))
  BY <1>3 DEF Act, Step, Start, ReadManifest, ExtractManifest, CheckObject, GetAbsent,
              Verify, Filled, Placeholders, Plan, Prune, Pruned, ExtractObject, Finish,
              GetRefused, TreeRefused, Crash
<1> QED
  BY <1>1, <1>2, <1>3

LEMMA BackedEnds ==
  ASSUME Typed, NEW p \in Procs, NEW how, End(p, how)
  PROVE  BackedInv(p)'
<1>1. phase'[p] = "idle"
  BY DEF End, Typed, TypeOK
<1> QED
  BY <1>1 DEF BackedInv, Filling, Checked

\* A step that leaves the run's findings alone and goes on in the same half.
LEMMA BackedStands ==
  ASSUME Typed, NEW p \in Procs, ManifestInv(p), BackedInv(p), Act(p),
         read' = read, pending' = pending, todo' = todo,
         phase[p] \in Filling /\ phase'[p] \in Filling =>
           at'[p] = at[p] /\ problems'[p] = problems[p],
         phase'[p] \in {"get", "write", "verify"} /\ key'[p] = MK => todo[p] = {},
         \/ phase[p] \in Filling /\ phase'[p] \in Filling
         \/ phase[p] \in Checked /\ phase'[p] \in Checked
  PROVE  BackedInv(p)'
<1>1. ASSUME NEW l \in DOMAIN read[p], NEW k \in Objects[Commit(p, l)], Good(p, l, k)
      PROVE  Good(p, l, k)'
  BY <1>1, CommitType, GoodStays DEF Good, Commit, AllKeys
<1>2. ASSUME NEW l \in DOMAIN read[p], Pinned(p, l)
      PROVE  Pinned(p, l)'
  BY <1>2 DEF Pinned, Commit
<1>3. \A l : Commit(p, l)' = Commit(p, l)
  BY DEF Commit
<1>4. CASE phase[p] \in Filling /\ phase'[p] \in Filling
  <2>1. phase'[p] \notin Checked
    BY <1>4 DEF Filling, Checked
  <2> QED
    BY <1>1, <1>2, <1>3, <1>4, <2>1 DEF BackedInv
<1>5. CASE phase[p] \in Checked /\ phase'[p] \in Checked
  <2>1. phase'[p] \notin Filling /\ phase'[p] \notin {"get", "write", "verify"}
    BY <1>5 DEF Filling, Checked
  <2> QED
    BY <1>1, <1>2, <1>3, <1>5, <2>1 DEF BackedInv
<1> QED
  BY <1>4, <1>5

\* A manifest is accepted when nothing of the label before it is left to check.
LEMMA BackedAccepted ==
  ASSUME Typed, NEW p \in Procs, BackedInv(p), phase[p] \in Filling, todo[p] = {},
         NEW l \in DOMAIN read[p], Accept(p, l), UNCHANGED <<cache, read>>
  PROVE  BackedInv(p)'
<1> DEFINE trusted == Trusted(read[p][l])
<1>1. /\ phase'[p] = "fill" /\ pending'[p] = pending[p] \ {l}
      /\ problems' = [problems EXCEPT ![p] = @ \/ ~trusted]
      /\ trusted => at'[p] = l /\ todo'[p] = Objects[Commit(p, l)]
  BY DEF Accept, Typed, TypeOK, Commit
<1>2. p \in DOMAIN problems
  BY DEF Typed, TypeOK
<1>3. ~problems'[p] => ~problems[p] /\ trusted
  <2> HIDE DEF trusted
  <2> QED
    BY <1>1, <1>2, Zenon
<1>4. \A m : Commit(p, m)' = Commit(p, m)
  BY DEF Commit
<1>5. ASSUME ~problems'[p], NEW m \in DOMAIN read[p] \ pending'[p]
      PROVE  /\ Pinned(p, m)'
             /\ \A k \in Objects[Commit(p, m)] :
                  Good(p, m, k)' \/ (m = at'[p] /\ k \in todo'[p])
  <2>1. ~problems[p] /\ trusted
    BY <1>3, <1>5
  <2>2. CASE m = l
    <3>1. Pinned(p, l)'
      BY <2>1 DEF Trusted, Pinned, Commit
    <3> QED
      BY <1>1, <2>1, <2>2, <3>1
  <2>3. CASE m # l
    <3>1. m \in DOMAIN read[p] \ pending[p]
      BY <1>1, <1>5, <2>3
    <3>2. Pinned(p, m) /\ \A k \in Objects[Commit(p, m)] : Good(p, m, k)
      BY <2>1, <3>1 DEF BackedInv
    <3> QED
      BY <1>4, <3>2 DEF Good, Pinned
  <2> QED
    BY <2>2, <2>3
<1>6. phase'[p] \notin Checked /\ phase'[p] \notin {"get", "write", "verify"}
  BY <1>1 DEF Checked
<1>7. read' = read
  OBVIOUS
<1> HIDE DEF trusted
<1> QED
  BY <1>4, <1>5, <1>6, <1>7 DEF BackedInv

LEMMA OwnBacked ==
  ASSUME Typed, NEW p \in Procs, ManifestInv(p), BackedInv(p), Act(p)
  PROVE  BackedInv(p)'
<1>1. CASE Start(p)
  <2>1. /\ phase'[p] = "fill" /\ read'[p] = table[Site[p]]
        /\ pending'[p] = DOMAIN table[Site[p]]
    BY <1>1 DEF Start, Typed, TypeOK
  <2> QED
    BY <2>1 DEF BackedInv, Filling, Checked
<1>2. CASE GetRefused(p) \/ TreeRefused(p) \/ Crash(p) \/ GetAbsent(p) \/ Finish(p)
  BY <1>2, BackedEnds DEF GetRefused, TreeRefused, Crash, GetAbsent, Finish
<1>3. ASSUME NEW l \in Labels, ReadManifest(p, l)
      PROVE  BackedInv(p)'
  <2>1. /\ phase[p] = "fill" /\ todo[p] = {} /\ l \in pending[p] /\ l \in DOMAIN read[p]
        /\ UNCHANGED <<cache, read>>
    BY <1>3 DEF ReadManifest, Typed, Where
  <2>2. CASE Cached(Commit(p, l), MK)
    BY <1>3, <2>1, <2>2, BackedAccepted DEF ReadManifest, Filling
  <2>3. CASE ~Cached(Commit(p, l), MK)
    <3>1. /\ phase'[p] = "get" /\ at'[p] = l
          /\ UNCHANGED <<pending, key, todo, problems>>
      BY <1>3, <2>3 DEF ReadManifest, Typed, TypeOK
    <3> QED
      BY <2>1, <3>1 DEF BackedInv, Good, Pinned, Commit, Filling, Checked
  <2> QED
    BY <2>2, <2>3
<1>4. ASSUME NEW k \in Keys, CheckObject(p, k)
      PROVE  BackedInv(p)'
  <2>1. /\ phase[p] = "fill" /\ k \in todo[p]
        /\ UNCHANGED <<cache, read, pending, at, problems>>
    BY <1>4 DEF CheckObject
  <2>2. CASE Cached(Commit(p, at[p]), k)
    <3>1. phase' = phase /\ todo'[p] = todo[p] \ {k}
      BY <1>4, <2>2 DEF CheckObject, Typed, TypeOK
    <3>2. Good(p, at[p], k)
      BY <2>2 DEF Cached, Good
    <3>3. \A l : Commit(p, l)' = Commit(p, l) /\ Pinned(p, l)' = Pinned(p, l)
      BY <2>1 DEF Commit, Pinned
    <3>4. \A l, j : Good(p, l, j)' = Good(p, l, j)
      BY <2>1 DEF Commit, Good
    <3>5. phase'[p] = "fill"
      BY <2>1, <3>1
    <3> QED
      BY <2>1, <3>1, <3>2, <3>3, <3>4, <3>5 DEF BackedInv, Filling, Checked
  <2>3. CASE ~Cached(Commit(p, at[p]), k)
    <3>1. phase'[p] = "get" /\ key'[p] = k /\ todo' = todo
      BY <1>4, <2>3 DEF CheckObject, Typed, TypeOK
    <3>2. k # MK
      BY PrefetchAssumption
    <3> QED
      BY <2>1, <3>1, <3>2, BackedStands DEF Filling
  <2> QED
    BY <2>2, <2>3
<1>5. CASE GetBegin(p) \/ GetEnd(p)
  <2>1. /\ phase[p] \in {"get", "write"} /\ phase'[p] \in {"write", "verify"}
        /\ UNCHANGED <<read, pending, at, todo, key, problems>>
    BY <1>5 DEF GetBegin, GetEnd, locals, Typed, TypeOK
  <2>2. key'[p] = MK => todo[p] = {}
    BY <2>1 DEF BackedInv
  <2> QED
    BY <2>1, <2>2, BackedStands DEF Filling
<1>6. CASE Verify(p)
  <2>1. /\ phase[p] = "verify" /\ at[p] \in DOMAIN read[p]
        /\ cache' = cache
    BY <1>6 DEF Verify, Typed, Where
  <2>2. CASE End(p, "not-run")
    BY <2>2, BackedEnds
  <2>3. CASE key[p] = MK /\ ~End(p, "not-run")
    <3>1. Accept(p, at[p]) /\ read' = read
      BY <1>6, <2>3 DEF Verify
    <3>2. todo[p] = {}
      BY <2>1, <2>3 DEF BackedInv
    <3> QED
      BY <2>1, <3>1, <3>2, BackedAccepted DEF Filling
  <2>4. CASE key[p] # MK
    <3> DEFINE whole == Cached(Target(p)[1], Target(p)[2])
    <3>1. /\ phase' = [phase EXCEPT ![p] = "fill"]
          /\ todo' = [todo EXCEPT ![p] = @ \ {key[p]}]
          /\ problems' = [problems EXCEPT ![p] = @ \/ ~whole]
          /\ UNCHANGED <<pending, at, read>>
      BY <1>6, <2>4 DEF Verify
    <3>2. phase'[p] = "fill" /\ todo'[p] = todo[p] \ {key[p]} /\ p \in DOMAIN problems
      BY <3>1 DEF Typed, TypeOK
    <3>3. ~problems'[p] => ~problems[p] /\ whole
      <4> HIDE DEF whole
      <4> QED
        BY <3>1, <3>2, Zenon
    <3>4. whole => Good(p, at[p], key[p])
      BY DEF Cached, Target, Good
    <3>5. \A l : Commit(p, l)' = Commit(p, l) /\ Pinned(p, l)' = Pinned(p, l)
      BY <3>1 DEF Commit, Pinned
    <3>6. \A l, j : Good(p, l, j)' = Good(p, l, j)
      BY <2>1, <3>1 DEF Commit, Good
    <3>7. /\ read' = read /\ pending' = pending /\ at' = at
      BY <3>1
    <3> HIDE DEF whole
    <3>8. ASSUME ~problems'[p], NEW l \in DOMAIN read[p] \ pending[p]
          PROVE  /\ Pinned(p, l)
                 /\ \A k \in Objects[Commit(p, l)] :
                      Good(p, l, k) \/ (l = at[p] /\ k \in todo'[p])
      <4>1. ~problems[p] /\ Good(p, at[p], key[p])
        BY <3>3, <3>4, <3>8
      <4>2. /\ Pinned(p, l)
            /\ \A k \in Objects[Commit(p, l)] : Good(p, l, k) \/ (l = at[p] /\ k \in todo[p])
        BY <2>1, <3>8, <4>1 DEF BackedInv, Filling
      <4> QED
        BY <3>2, <4>1, <4>2
    <3>9. phase'[p] \notin Checked /\ phase'[p] \notin {"get", "write", "verify"}
      BY <3>2 DEF Checked
    <3> QED
      BY <3>5, <3>6, <3>7, <3>8, <3>9 DEF BackedInv
  <2> QED
    BY <2>2, <2>3, <2>4
<1>7. CASE Filled(p)
  <2>1. CASE \E how : End(p, how)
    BY <2>1, BackedEnds
  <2>2. CASE ~\E how : End(p, how)
    <3>1. /\ phase[p] = "fill" /\ todo[p] = {} /\ pending[p] = {} /\ ~problems[p]
          /\ phase'[p] = "placeholders" /\ UNCHANGED <<cache, read>>
      BY <1>7, <2>2 DEF Filled, Typed, TypeOK
    <3>2. \A l \in DOMAIN read[p] :
            Pinned(p, l) /\ \A k \in Objects[Commit(p, l)] : Good(p, l, k)
      BY <3>1 DEF BackedInv, Filling
    <3> QED
      BY <3>1, <3>2 DEF BackedInv, Filling, Good, Pinned, Commit
  <2> QED
    BY <2>1, <2>2
<1>8. CASE Placeholders(p) \/ Plan(p)
  <2>1. CASE \E how : End(p, how)
    BY <2>1, BackedEnds
  <2>2. CASE ~\E how : End(p, how)
    <3>1. /\ phase[p] \in {"placeholders", "plan"} /\ phase'[p] \in {"plan", "prune"}
          /\ UNCHANGED <<cache, read, pending, todo>>
      BY <1>8, <2>2 DEF Placeholders, Plan, locals, Typed, TypeOK
    <3> QED
      BY <3>1, BackedStands DEF Filling, Checked
  <2> QED
    BY <2>1, <2>2
<1>9. CASE Pruned(p) \/ \E f \in Files : Prune(p, f)
  <2>1. /\ phase[p] = "prune" /\ phase'[p] \in {"prune", "extract"}
        /\ UNCHANGED <<read, pending, todo>>
    BY <1>9 DEF Prune, Pruned, locals, Typed, TypeOK
  <2> QED
    BY <2>1, BackedStands DEF Filling, Checked
<1>10. ASSUME NEW f, NEW bytes, Write(p, f, bytes) \/ Skip(p, f), phase[p] = "extract"
       PROVE  BackedInv(p)'
  <2>1. phase' = phase /\ UNCHANGED <<read, pending, todo>>
    BY <1>10 DEF Write, Skip
  <2> QED
    BY <1>10, <2>1, BackedStands DEF Filling, Checked
<1>11. ASSUME NEW l \in Labels, ExtractManifest(p, l)
       PROVE  BackedInv(p)'
  BY <1>10, <1>11 DEF ExtractManifest
<1>12. ASSUME NEW l \in Labels, NEW k \in Keys, ExtractObject(p, l, k)
       PROVE  BackedInv(p)'
  BY <1>10, <1>12, BackedEnds DEF ExtractObject
<1> QED
  BY <1>1, <1>2, <1>3, <1>4, <1>5, <1>6, <1>7, <1>8, <1>9, <1>11, <1>12 DEF Act, Step

\* A tree is pruned only when the cache holds, whole, every file the run is about
\* to extract, and every version is the one it is pinned to: a run that dies in
\* between can be repeated without a download.
THEOREM PrunedTreesAreBacked ==
  ASSUME OneRun
  PROVE  Spec => []PruneIsBacked
<1> DEFINE Inv == ExactInv /\ \A p \in Procs : BackedInv(p)
<1>1. Init => Inv
  BY InitExact DEF Init, BackedInv, Filling, Checked
<1>2. Inv /\ [Next]_vars => Inv'
  <2> SUFFICES ASSUME Inv, [Next]_vars PROVE \A p \in Procs : BackedInv(p)'
    BY NextExact DEF OneRun, OwnSites
  <2>1. ASSUME NEW p \in Procs, Act(p), NEW q \in Procs
        PROVE  BackedInv(q)'
    <3>1. q = p
      BY DEF OneRun
    <3> QED
      BY <2>1, <3>1, OwnBacked DEF ExactInv
  <2>2. CASE \/ \E c \in Commits : Publish(c)
             \/ \E s \in Sites, t \in Tables : EditConfigs(s, t)
             \/ UNCHANGED vars
    <3>1. UNCHANGED <<cache, phase, locals>>
      BY <2>2 DEF Publish, EditConfigs, vars
    <3> SUFFICES ASSUME NEW q \in Procs, BackedInv(q)
                 PROVE  BackedInv(q)'
      OBVIOUS
    <3>2. \A l, k : /\ Commit(q, l)' = Commit(q, l) /\ Pinned(q, l)' = Pinned(q, l)
                   /\ Good(q, l, k)' = Good(q, l, k)
      BY <3>1 DEF Good, Pinned, Commit, locals
    <3> QED
      BY <3>1, <3>2 DEF BackedInv, locals
  <2> QED
    BY <2>1, <2>2 DEF Next, Act
<1>3. Inv => PruneIsBacked
  <2> SUFFICES ASSUME Inv, NEW p \in Procs, phase[p] \in {"prune", "extract"},
                      NEW l \in DOMAIN read[p]
               PROVE  /\ read[p][l].pin \in {NoPin, Commit(p, l)}
                      /\ \A k \in Objects[Commit(p, l)] \cup {MK} :
                           cache[Commit(p, l), k] = Commit(p, l)
    BY DEF PruneIsBacked
  <2>1. ManifestInv(p) /\ BackedInv(p)
    BY DEF ExactInv
  <2>2. cache[Commit(p, l), MK] = Commit(p, l)
    BY <2>1 DEF ManifestInv
  <2>3. Pinned(p, l) /\ \A k \in Objects[Commit(p, l)] : Good(p, l, k)
    BY <2>1 DEF BackedInv, Checked
  <2> QED
    BY <2>2, <2>3 DEF Pinned, Good
<1> QED
  BY <1>1, <1>2, <1>3, PTL DEF Spec
=============================================================================
