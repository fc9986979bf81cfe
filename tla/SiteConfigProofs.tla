-------------------------- MODULE SiteConfigProofs --------------------------
(***************************************************************************)
(* Proofs about a site's config for any commits, labels, page sets and     *)
(* redirect tables, and for a table and a stack of patches of any length.  *)
(***************************************************************************)
EXTENDS SiteConfig, FiniteSetTheorems, TLAPS

\* What a green sync leaves is still there as long as nobody edits the file.
GreenHolds ==
  report = "green" /\ untouched =>
    /\ TableOk(versions)
    /\ \A i \in DOMAIN versions : versions[i].pin = versions[i].commit
    /\ site = SiteOf(Default(versions))
    /\ Default(versions) \notin Misfiled

IInv ==
  /\ TypeOK
  /\ IsFiniteSet(proposed)
  /\ GreenHolds
-----------------------------------------------------------------------------
USE SiteConfigAssumption

\* In a table with one answer, the default entry is the one that says so.
LEMMA DefaultIsMarked ==
  ASSUME TypeOK, TableOk(versions), NEW i \in DOMAIN versions, versions[i].default
  PROVE  versions[i].commit = Default(versions)
<1>1. PICK d \in DOMAIN versions : Defaults(versions) = {d}
  BY DEF TableOk
<1>2. \A j \in DOMAIN versions : versions[j].default => j = d
  BY <1>1 DEF Defaults
<1>3. (CHOOSE j \in DOMAIN versions : versions[j].default) = i
  BY <1>2
<1> QED BY <1>3 DEF Default

\* The default of such a table is a commit.
LEMMA DefaultType ==
  ASSUME TypeOK, TableOk(versions)
  PROVE  Default(versions) \in Commits
<1>1. PICK d \in DOMAIN versions : versions[d].default
  BY DEF TableOk, Defaults
<1>2. versions[d].commit = Default(versions)
  BY <1>1, DefaultIsMarked
<1>3. versions[d] \in Entries
  BY DEF TypeOK
<1> QED BY <1>2, <1>3 DEF Entries

\* Writing the pins changes neither the length of the table nor a commit in it.
LEMMA PinnedKeeps ==
  ASSUME TypeOK
  PROVE  /\ Pinned(versions) \in Seq(Entries)
         /\ Len(Pinned(versions)) = Len(versions)
         /\ DOMAIN Pinned(versions) = DOMAIN versions
         /\ \A i \in DOMAIN versions :
              /\ Pinned(versions)[i].label = versions[i].label
              /\ Pinned(versions)[i].commit = versions[i].commit
              /\ Pinned(versions)[i].default = versions[i].default
              /\ cache[versions[i].commit] = "whole"
                   => Pinned(versions)[i].pin = versions[i].commit
<1>1. versions \in Seq(Entries) /\ DOMAIN versions = 1..Len(versions)
  BY DEF TypeOK
<1>2. \A i \in DOMAIN versions : versions[i] \in Entries
  BY <1>1
<1>3. \A i \in DOMAIN versions : Pinned(versions)[i] \in Entries
  BY <1>2 DEF Pinned, Entries
<1>4. Pinned(versions) \in [1..Len(versions) -> Entries]
  BY <1>1, <1>3 DEF Pinned
<1>5. Pinned(versions) \in Seq(Entries) /\ Len(Pinned(versions)) = Len(versions)
  BY <1>1, <1>4
<1>6. \A i \in DOMAIN versions :
        /\ Pinned(versions)[i].label = versions[i].label
        /\ Pinned(versions)[i].commit = versions[i].commit
        /\ Pinned(versions)[i].default = versions[i].default
        /\ cache[versions[i].commit] = "whole"
             => Pinned(versions)[i].pin = versions[i].commit
  BY <1>2 DEF Pinned, Entries
<1> QED BY <1>4, <1>5, <1>6, <1>1

\* Nor does it change which table it is, or its default.
LEMMA PinnedTable ==
  ASSUME TypeOK, TableOk(versions)
  PROVE  TableOk(Pinned(versions)) /\ Default(Pinned(versions)) = Default(versions)
<1> DEFINE P == Pinned(versions)
<1>1. /\ DOMAIN P = DOMAIN versions
      /\ \A i \in DOMAIN versions : /\ P[i].label = versions[i].label
                                    /\ P[i].commit = versions[i].commit
                                    /\ P[i].default = versions[i].default
  BY PinnedKeeps
<1> HIDE DEF P
<1>2. Defaults(P) = Defaults(versions)
  BY <1>1 DEF Defaults
<1>3. TableOk(P)
  BY <1>1, <1>2 DEF TableOk
<1>4. PICK d \in DOMAIN versions : Defaults(versions) = {d}
  BY DEF TableOk
<1>5. /\ (CHOOSE i \in DOMAIN versions : versions[i].default) = d
      /\ (CHOOSE i \in DOMAIN P : P[i].default) = d
  BY <1>1, <1>2, <1>4 DEF Defaults
<1>6. Default(P) = Default(versions)
  BY <1>1, <1>5 DEF Default
<1> QED BY <1>3, <1>6 DEF P
-----------------------------------------------------------------------------
LEMMA InitIInv == Init => IInv
<1> SUFFICES ASSUME Init PROVE IInv OBVIOUS
<1>1. versions \in Seq(Entries) /\ Len(versions) = 1
  BY DEF Init, Entries
<1>2. TypeOK
  <2>1. Cardinality(proposed) = 0
    BY FS_EmptySet DEF Init
  <2>2. Cardinality(proposed) <= MaxPatches /\ proposed \subseteq Patches
    BY <2>1 DEF Init
  <2>3. site.pages = {} /\ site.hidden = {} /\ DOMAIN site.redirects = {}
    BY DEF Init
  <2>4. Len(versions) \in 1..MaxVersions
    BY <1>1
  <2>5. /\ published \subseteq Commits
        /\ cache \in [Commits -> {"absent", "torn", "whole"}]
        /\ report \in {"none", "refused", "failed", "green"}
        /\ untouched \in BOOLEAN
    BY DEF Init
  <2> QED BY <1>1, <2>2, <2>3, <2>4, <2>5 DEF TypeOK
<1>3. IsFiniteSet(proposed)
  BY FS_EmptySet DEF Init
<1>4. GreenHolds
  BY DEF Init, GreenHolds
<1> QED BY <1>2, <1>3, <1>4 DEF IInv

\* An edit by hand disturbs nothing but the table.
LEMMA EditKeeps ==
  ASSUME IInv, NEW vs \in Seq(Entries), Len(vs) \in 1..MaxVersions, Edit(vs),
         proposed' \subseteq proposed
  PROVE  IInv'
<1>1. IsFiniteSet(proposed') /\ Cardinality(proposed') <= Cardinality(proposed)
  BY FS_Subset DEF IInv
<1>2. Cardinality(proposed') <= MaxPatches
  <2>1. Cardinality(proposed) \in Nat /\ Cardinality(proposed') \in Nat
    BY <1>1, FS_CardinalityType DEF IInv
  <2> QED BY <1>1, <2>1 DEF IInv, TypeOK
<1>3. TypeOK'
  BY <1>2 DEF IInv, TypeOK, Edit, Patches
<1>4. GreenHolds'
  BY DEF IInv, GreenHolds, Edit
<1> QED BY <1>1, <1>3, <1>4 DEF IInv

LEMMA LabelStep ==
  ASSUME IInv, NEW l \in Labels, NEW c \in Commits, NEW asked \in BOOLEAN, Label(l, c, asked)
  PROVE  IInv'
<1> DEFINE e == [label |-> l, commit |-> c]
<1>1. /\ IsFiniteSet(proposed \cup {e})
      /\ Cardinality(proposed \cup {e}) <= Cardinality(proposed) + 1
  <2>1. IsFiniteSet(proposed)
    BY DEF IInv
  <2>2. /\ IsFiniteSet(proposed \cup {e})
        /\ \/ Cardinality(proposed \cup {e}) = Cardinality(proposed)
           \/ Cardinality(proposed \cup {e}) = Cardinality(proposed) + 1
    BY <2>1, FS_AddElement
  <2>3. Cardinality(proposed) \in Nat
    BY <2>1, FS_CardinalityType
  <2> QED BY <2>2, <2>3
<1>2. Cardinality(proposed) \in Nat /\ Cardinality(proposed \cup {e}) \in Nat
  BY <1>1, FS_CardinalityType DEF IInv
<1>3. Cardinality(proposed') <= MaxPatches
  BY <1>1, <1>2 DEF Label
<1>4. TypeOK'
  BY <1>3 DEF IInv, TypeOK, Label, Patches
<1>5. GreenHolds'
  BY DEF IInv, GreenHolds, Label
<1> QED BY <1>1, <1>4, <1>5 DEF IInv, Label

\* A sync that writes leaves what the schema and the table check have let through.
LEMMA SyncStep ==
  ASSUME IInv, SyncWrites
  PROVE  IInv'
<1> DEFINE d == Default(versions)
<1>1. TypeOK /\ TableOk(versions) /\ SchemaOk(SiteOf(d))
  BY DEF IInv, SyncWrites, Syncable
<1>2. d \in Commits
  BY <1>1, DefaultType
<1>3. /\ versions' \in Seq(Entries) /\ Len(versions') = Len(versions)
      /\ DOMAIN versions' = DOMAIN versions
  BY <1>1, PinnedKeeps DEF SyncWrites
<1>4. TypeOK'
  <2>1. /\ site'.pages \subseteq Slugs /\ site'.hidden \subseteq Slugs
        /\ DOMAIN site'.redirects \subseteq Slugs
    <3>1. site' = SiteOf(d)
      BY DEF SyncWrites
    <3>2. /\ PagesOf[d] \subseteq Slugs /\ HiddenOf[d] \subseteq PagesOf[d]
          /\ DOMAIN RedirectsOf[d] \subseteq Slugs
      BY <1>2
    <3> QED BY <3>1, <3>2 DEF SiteOf
  <2>2. /\ versions' \in Seq(Entries) /\ Len(versions') \in 1..MaxVersions
    BY <1>1, <1>3 DEF TypeOK
  <2> QED BY <1>1, <2>1, <2>2 DEF TypeOK, SyncWrites
<1>5. GreenHolds'
  <2>1. TableOk(versions') /\ Default(versions') = d
    BY <1>1, PinnedTable DEF SyncWrites
  <2>2. ASSUME report' = "green"
        PROVE  \A i \in DOMAIN versions' : versions'[i].pin = versions'[i].commit
    <3>1. \A i \in DOMAIN versions : cache[versions[i].commit] = "whole"
      BY <2>2 DEF SyncWrites, Missing
    <3> QED BY <1>1, <1>3, <3>1, PinnedKeeps DEF SyncWrites
  <2>3. site' = SiteOf(Default(versions')) /\ Default(versions') \notin Misfiled
    BY <2>1 DEF SyncWrites, Syncable
  <2> QED BY <2>1, <2>2, <2>3 DEF GreenHolds
<1> QED BY <1>4, <1>5 DEF IInv, SyncWrites

\* The next-state relation, one step an action.
LEMMA StepIInv == IInv /\ [Next]_vars => IInv'
<1> SUFFICES ASSUME IInv, [Next]_vars PROVE IInv' OBVIOUS
<1>0. versions \in Seq(Entries) /\ Len(versions) \in 1..MaxVersions
  BY DEF IInv, TypeOK
<1>1. ASSUME NEW l \in Labels, NEW c \in Commits, NEW asked \in BOOLEAN, Label(l, c, asked)
      PROVE  IInv'
  BY <1>1, LabelStep
<1>2. ASSUME NEW e \in proposed, ApplyPatch(e) PROVE IInv'
  <2> DEFINE x == [label |-> e.label, commit |-> e.commit, pin |-> NoPin, default |-> FALSE]
  <2>1. x \in Entries
    BY DEF IInv, TypeOK, Patches, Entries
  <2>2. <<x>> \o versions \in Seq(Entries) /\ Len(<<x>> \o versions) = Len(versions) + 1
    BY <1>0, <2>1
  <2> HIDE DEF x
  <2>3. Edit(<<x>> \o versions) /\ Len(versions) < MaxVersions /\ proposed' \subseteq proposed
    BY <1>2 DEF ApplyPatch, x
  <2>4. Len(<<x>> \o versions) \in 1..MaxVersions
    BY <1>0, <2>2, <2>3
  <2> QED BY <2>2, <2>3, <2>4, EditKeeps
<1>3. ASSUME NEW i \in DOMAIN versions, ToggleDefault(i) PROVE IInv'
  <2> DEFINE vs == [versions EXCEPT ![i].default = ~@]
  <2>1. versions[i] \in Entries
    BY <1>0
  <2>2. [versions[i] EXCEPT !.default = ~@] \in Entries
    BY <2>1 DEF Entries
  <2>3. vs \in Seq(Entries) /\ Len(vs) = Len(versions)
    BY <1>0, <2>2
  <2> QED BY <1>0, <1>3, <2>3, EditKeeps DEF ToggleDefault
<1>4. ASSUME NEW i \in DOMAIN versions, Retire(i) PROVE IInv'
  <2> DEFINE a == SubSeq(versions, 1, i - 1)
             b == SubSeq(versions, i + 1, Len(versions))
  <2>1. i \in 1..Len(versions)
    BY <1>0
  <2>2. a \in Seq(Entries) /\ Len(a) = i - 1
    BY <1>0, <2>1
  <2>3. b \in Seq(Entries) /\ Len(b) = Len(versions) - i
    BY <1>0, <2>1
  <2> HIDE DEF a, b
  <2>4. a \o b \in Seq(Entries) /\ Len(a \o b) = Len(versions) - 1
    BY <1>0, <2>1, <2>2, <2>3
  <2>5. Edit(a \o b) /\ Len(versions) > 1 /\ proposed' = proposed
    BY <1>4 DEF Retire, a, b
  <2>6. Len(a \o b) \in 1..MaxVersions
    BY <1>0, <2>4, <2>5
  <2> QED BY <2>4, <2>5, <2>6, EditKeeps
<1>5. ASSUME NEW i \in DOMAIN versions, NEW c \in Commits, Relabel(i, c) PROVE IInv'
  <2> DEFINE vs == [versions EXCEPT ![i].commit = c]
  <2>1. versions[i] \in Entries
    BY <1>0
  <2>2. [versions[i] EXCEPT !.commit = c] \in Entries
    BY <2>1 DEF Entries
  <2>3. vs \in Seq(Entries) /\ Len(vs) = Len(versions)
    BY <1>0, <2>2
  <2> QED BY <1>0, <1>5, <2>3, EditKeeps DEF Relabel
<1>6. ASSUME NEW c \in Commits, Publish(c) PROVE IInv'
  <2>1. TypeOK'
    BY <1>6 DEF IInv, TypeOK, Publish
  <2> QED BY <1>6, <2>1 DEF IInv, GreenHolds, Publish
<1>7. ASSUME NEW c \in Commits, NEW got \in {"torn", "whole"}, Prefetch(c, got) PROVE IInv'
  <2>1. TypeOK'
    BY <1>7 DEF IInv, TypeOK, Prefetch
  <2> QED BY <1>7, <2>1 DEF IInv, GreenHolds, Prefetch
<1>8. CASE SyncWrites
  BY <1>8, SyncStep
<1>9. CASE SyncRefuses
  <2>1. TypeOK'
    BY <1>9 DEF IInv, TypeOK, SyncRefuses
  <2> QED BY <1>9, <2>1 DEF IInv, GreenHolds, SyncRefuses
<1>10. CASE UNCHANGED vars
  <2>1. TypeOK'
    BY <1>10 DEF IInv, TypeOK, vars
  <2> QED BY <1>10, <2>1 DEF IInv, GreenHolds, vars
<1> QED BY <1>1, <1>2, <1>3, <1>4, <1>5, <1>6, <1>7, <1>8, <1>9, <1>10 DEF Next

LEMMA Invariance == Spec => []IInv
BY InitIInv, StepIInv, PTL DEF Spec
-----------------------------------------------------------------------------
\* The types, the length of the table and the number of patches.
THEOREM ConfigTypeCorrect == Spec => []TypeOK
<1>1. IInv => TypeOK
  BY DEF IInv
<1> QED BY <1>1, Invariance, PTL

\* Of a green sync's config prefetch refuses nothing but foreign manifests.
THEOREM GreenSyncHolds == Spec => []GreenSyncIsFetchable
<1>1. ASSUME IInv PROVE GreenSyncIsFetchable
  <2> SUFFICES ASSUME report = "green", untouched, NEW i \in DOMAIN versions
               PROVE  /\ versions[i].pin = versions[i].commit
                      /\ PrefetchRefuses(i) => Foreign(i)
    BY DEF GreenSyncIsFetchable
  <2>1. /\ TypeOK /\ TableOk(versions) /\ site = SiteOf(Default(versions))
        /\ versions[i].pin = versions[i].commit
        /\ Default(versions) \notin Misfiled
    BY <1>1 DEF IInv, GreenHolds
  <2>2. versions[i].default => versions[i].commit = Default(versions)
    BY <2>1, DefaultIsMarked
  <2>3. versions[i].default => site.pages = PagesOf[versions[i].commit]
    BY <2>1, <2>2 DEF SiteOf
  <2>4. versions[i].commit \in Misfiled => ~versions[i].default
    BY <2>1, <2>2
  <2> QED BY <2>1, <2>3, <2>4 DEF PrefetchRefuses, Foreign
<1> QED BY <1>1, Invariance, PTL

\* One green patch in a table both commands read leaves one.
LEMMA PatchFits ==
  ASSUME TypeOK, NEW e \in proposed, ApplyPatch(e), TableOk(versions),
         LabelShape(e.label, e.commit)
  PROVE  TableOk(versions')
<1> DEFINE x == [label |-> e.label, commit |-> e.commit, pin |-> NoPin, default |-> FALSE]
<1>1. versions \in Seq(Entries) /\ x \in Entries
  BY DEF TypeOK, Patches, Entries
<1>2. /\ x.label = e.label /\ x.commit = e.commit /\ x.default = FALSE
      /\ versions' = <<x>> \o versions
  BY DEF ApplyPatch, Edit
<1> HIDE DEF x
<1>3. /\ DOMAIN versions = 1..Len(versions) /\ Len(versions) \in Nat
      /\ DOMAIN versions' = 1..(Len(versions) + 1)
      /\ versions'[1] = x
      /\ \A i \in 1..Len(versions) : versions'[i + 1] = versions[i]
  BY <1>1, <1>2
<1>4. \A i \in DOMAIN versions' : i = 1 \/ (i - 1 \in DOMAIN versions /\ versions'[i] = versions[i - 1])
  BY <1>3
<1>5. PICK d \in DOMAIN versions : Defaults(versions) = {d}
  BY DEF TableOk
<1>6. Defaults(versions') = {d + 1}
  <2>1. \A i \in DOMAIN versions : versions[i].default <=> i = d
    BY <1>5 DEF Defaults
  <2>2. d + 1 \in DOMAIN versions' /\ versions'[d + 1].default
    BY <1>3, <2>1
  <2>3. ASSUME NEW i \in DOMAIN versions', versions'[i].default PROVE i = d + 1
    <3>1. i # 1
      BY <1>2, <1>3, <2>3
    <3>2. i - 1 \in DOMAIN versions /\ versions'[i] = versions[i - 1]
      BY <1>4, <3>1
    <3>3. i - 1 = d
      BY <2>1, <2>3, <3>2
    <3>4. i \in Nat /\ d \in Nat
      BY <1>3
    <3> QED BY <3>3, <3>4
  <2> QED BY <2>2, <2>3 DEF Defaults
<1>7. ASSUME NEW i \in DOMAIN versions', NEW j \in DOMAIN versions', i # j
      PROVE  /\ Fold[versions'[i].label] # Fold[versions'[j].label]
             /\ versions'[i].commit # versions'[j].commit
  <2>1. \A k \in DOMAIN versions : /\ Fold[versions[k].label] # Fold[x.label]
                                   /\ versions[k].commit # x.commit
    BY <1>2 DEF LabelShape
  <2>2. CASE i = 1
    <3>1. j - 1 \in DOMAIN versions /\ versions'[j] = versions[j - 1]
      BY <1>4, <1>7, <2>2
    <3> QED BY <1>3, <2>1, <2>2, <3>1
  <2>3. CASE j = 1
    <3>1. i - 1 \in DOMAIN versions /\ versions'[i] = versions[i - 1]
      BY <1>4, <1>7, <2>3
    <3> QED BY <1>3, <2>1, <2>3, <3>1
  <2>4. CASE i # 1 /\ j # 1
    <3>1. /\ i - 1 \in DOMAIN versions /\ versions'[i] = versions[i - 1]
          /\ j - 1 \in DOMAIN versions /\ versions'[j] = versions[j - 1]
      BY <1>4, <2>4
    <3>2. i - 1 # j - 1
      BY <1>3, <1>7
    <3> QED BY <3>1, <3>2 DEF TableOk
  <2> QED BY <2>2, <2>3, <2>4
<1>8. d + 1 \in DOMAIN versions'
  BY <1>3
<1> QED BY <1>6, <1>7, <1>8 DEF TableOk

\* The checks of label are the ones that decide whether the table stays readable.
THEOREM GreenPatchesFit == Spec => GreenPatchFits
<1>1. ASSUME TypeOK
      PROVE  \A e \in proposed :
               ApplyPatch(e) /\ TableOk(versions) /\ LabelShape(e.label, e.commit)
                 => TableOk(versions')
  BY <1>1, PatchFits
<1>2. Spec => []TypeOK
  BY ConfigTypeCorrect
<1> QED BY <1>1, <1>2, PTL DEF GreenPatchFits
=============================================================================
