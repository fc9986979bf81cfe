--------------------------- MODULE PublishProofs ---------------------------
(***************************************************************************)
(* Proofs about hexdocs publish for any number of publishers, keys,        *)
(* bundles, listing pages and faults, and about the build in front of it.  *)
(*                                                                         *)
(* That a stored manifest is complete is not inductive: what makes it true *)
(* is what every run in flight already knows to be stored when it reaches  *)
(* its manifest.  IInv adds that knowledge, run by run and put by put.     *)
(***************************************************************************)
EXTENDS Release, TLAPS

\* Every object of p's bundle outside S is stored with its digest.
HeldOutside(p, S) ==
  \A k \in Names(bundle[p]) \ S : bucket[k] = Objects[bundle[p]][k]

\* A run only ever heads and uploads keys its manifest names, or the manifest.
Scope(p) ==
  /\ todo[p] \cup missing[p] \subseteq Names(bundle[p])
  /\ cur[p] \in Names(bundle[p]) \cup {MK}

\* The manifest is only ever at hand when the queue is empty.
ManifestLast(p) ==
  pc[p] \in {"again", "verify"} /\ cur[p] = MK => missing[p] = {}

\* reconcile has found what it did not queue, unless it met a clash.
ReconcileKnows(p) ==
  pc[p] \in {"preflight", "reconcile"} /\ ~clash[p]
    => HeldOutside(p, todo[p] \cup missing[p])

\* upload has stored, or found, everything that is no longer in its queue.
UploadKnows(p) ==
  pc[p] \in {"put", "again", "verify"} => HeldOutside(p, missing[p])

\* A report of "published" is true.
ReportTrue(p) == outcome[p] = "published" => bucket[MK] = bundle[p]

RunInv(p) ==
  Scope(p) /\ ManifestLast(p) /\ ReconcileKnows(p) /\ UploadKnows(p) /\ ReportTrue(p)

\* An orphaned put of a manifest comes from a run that had uploaded everything.
OrphansAreBacked ==
  \A m \in Manifests : <<MK, m>> \in inflight => Complete(m)

IInv ==
  /\ TypeOK
  /\ ManifestImpliesComplete
  /\ OrphansAreBacked
  /\ \A p \in Publishers : RunInv(p)

\* What a step may do to stored bytes, and that no step changes a local bundle.
Stays ==
  /\ bundle' = bundle
  /\ \A k \in AllKeys : bucket[k] \notin {Absent, NoSum} => bucket'[k] = bucket[k]
-----------------------------------------------------------------------------
USE PublishAssumption

\* A digest this publisher expects is never a mark for missing bytes or a
\* missing checksum.
LEMMA WantIsChecksummed ==
  ASSUME TypeOK, NEW p \in Publishers, NEW k \in Names(bundle[p]) \cup {MK}
  PROVE  /\ Want(p, k) \in Digests \cup Manifests
         /\ k \in AllKeys
         /\ k = MK => Want(p, k) = bundle[p]
         /\ k # MK => Want(p, k) = Objects[bundle[p]][k]
BY DEF TypeOK, Want, Names, AllKeys

\* The keys a put may carry are in scope.
LEMMA PutKeysScoped ==
  ASSUME TypeOK, NEW p \in Publishers, Scope(p), NEW k \in PutKeys(p)
  PROVE  k \in Names(bundle[p]) \cup {MK}
BY DEF TypeOK, Scope, PutKeys, Targets

\* A process that ends leaves well-typed locals.
LEMMA ForgetType ==
  ASSUME TypeOK, NEW p \in Publishers, NEW how \in Outcomes, Forget(p, how)
  PROVE  /\ pc' \in [Publishers -> {"idle", "list", "preflight", "reconcile", "put", "again", "verify"}]
         /\ page' \in [Publishers -> 1..Pages]
         /\ listed' \in [Publishers -> SUBSET AllKeys]
         /\ found' \in [Publishers -> BOOLEAN]
         /\ todo' \in [Publishers -> SUBSET Keys]
         /\ missing' \in [Publishers -> SUBSET Keys]
         /\ clash' \in [Publishers -> BOOLEAN]
         /\ cur' \in [Publishers -> AllKeys]
         /\ outcome' \in [Publishers -> Outcomes]
BY DEF TypeOK, Forget, AllKeys

\* So does the end of one upload.
LEMMA UploadedType ==
  ASSUME TypeOK, NEW p \in Publishers, NEW k \in AllKeys, Uploaded(p, k)
  PROVE  /\ pc' \in [Publishers -> {"idle", "list", "preflight", "reconcile", "put", "again", "verify"}]
         /\ page' \in [Publishers -> 1..Pages]
         /\ listed' \in [Publishers -> SUBSET AllKeys]
         /\ found' \in [Publishers -> BOOLEAN]
         /\ todo' \in [Publishers -> SUBSET Keys]
         /\ missing' \in [Publishers -> SUBSET Keys]
         /\ clash' \in [Publishers -> BOOLEAN]
         /\ cur' \in [Publishers -> AllKeys]
         /\ outcome' \in [Publishers -> Outcomes]
<1>1. CASE k = MK
  BY <1>1, ForgetType, "published" \in Outcomes DEF Uploaded, Outcomes
<1>2. CASE k # MK
  BY <1>2 DEF Uploaded, TypeOK, AllKeys
<1> QED BY <1>1, <1>2

LEMMA FaultType ==
  ASSUME TypeOK, NEW p \in Publishers, Fault(p)
  PROVE  clean' \in [Publishers -> BOOLEAN] /\ faults' \in 0..MaxFaults
BY DEF TypeOK, Fault

\* Every initial state satisfies the inductive invariant.
LEMMA InitIInv == Init => IInv
<1> SUFFICES ASSUME Init PROVE IInv OBVIOUS
<1>1. TypeOK
  BY DEF Init, TypeOK, AllKeys, Contents, Outcomes
<1>2. bucket[MK] = Absent /\ inflight = {}
  BY DEF Init, AllKeys
<1>3. ManifestImpliesComplete /\ OrphansAreBacked
  BY <1>2 DEF ManifestImpliesComplete, OrphansAreBacked, Contents
<1>4. \A p \in Publishers : RunInv(p)
  BY DEF Init, RunInv, Scope, ManifestLast, ReconcileKnows, UploadKnows, ReportTrue
<1> QED BY <1>1, <1>3, <1>4 DEF IInv

\* One conjunct per variable: a step keeps the types.
LEMMA TypeStep ==
  ASSUME TypeOK, \A p \in Publishers : Scope(p), [Next]_vars
  PROVE  TypeOK'
<1> USE DEF Outcomes
<1>1. ASSUME NEW p \in Publishers, Start(p) PROVE TypeOK'
  BY <1>1 DEF TypeOK, Start
<1>2. ASSUME NEW p \in Publishers, ListPage(p) PROVE TypeOK'
  <2> DEFINE all == listed[p] \cup {k \in AllKeys : Page[k] = page[p] /\ bucket[k] # Absent}
  <2>1. all \in SUBSET AllKeys
    BY DEF TypeOK
  <2>2. listed' \in [Publishers -> SUBSET AllKeys]
    BY <1>2, <2>1 DEF TypeOK, ListPage, MorePages
  <2>3. bundle[p] \in Manifests /\ Names(bundle[p]) \subseteq Keys
    BY DEF TypeOK
  <2>4. CASE page[p] < Pages
    <3>1. page' \in [Publishers -> 1..Pages]
      BY <1>2, <2>4 DEF TypeOK, ListPage, MorePages
    <3> QED BY <1>2, <2>2, <2>4, <3>1 DEF TypeOK, ListPage, MorePages, NoFault
  <2>5. CASE ~(page[p] < Pages)
    <3>1. /\ pc' = [pc EXCEPT ![p] = IF MK \in all THEN "preflight" ELSE "reconcile"]
          /\ todo' = [todo EXCEPT ![p] = Names(bundle[p]) \cap all]
          /\ missing' = [missing EXCEPT ![p] = Names(bundle[p]) \ all]
          /\ page' = page
      BY <1>2, <2>5 DEF ListPage, MorePages
    <3> HIDE DEF all
    <3> QED BY <1>2, <2>2, <2>3, <3>1 DEF TypeOK, ListPage, MorePages, NoFault
  <2> QED BY <2>4, <2>5
<1>3. ASSUME NEW p \in Publishers, Preflight(p) PROVE TypeOK'
  <2>1. CASE bucket[MK] = bundle[p]
    <3>1. Forget(p, "published") BY <1>3, <2>1 DEF Preflight
    <3> QED BY <1>3, <3>1, ForgetType DEF TypeOK, Preflight, NoFault
  <2>2. CASE bucket[MK] # bundle[p]
    BY <1>3, <2>2 DEF TypeOK, Preflight, NoFault
  <2> QED BY <2>1, <2>2
<1>4. ASSUME NEW p \in Publishers, NEW k \in Keys, HeadObject(p, k) PROVE TypeOK'
  BY <1>4 DEF TypeOK, HeadObject, NoFault
<1>5. ASSUME NEW p \in Publishers, Decide(p) PROVE TypeOK'
  <2>1. CASE Forget(p, "disagrees")
    BY <1>5, <2>1, ForgetType DEF TypeOK, Decide, NoFault
  <2>2. CASE ~Forget(p, "disagrees")
    BY <1>5, <2>2 DEF TypeOK, Decide, NoFault
  <2> QED BY <2>1, <2>2
<1>6. ASSUME NEW p \in Publishers, Refused(p) PROVE TypeOK'
  <2>1. PICK how \in Outcomes : Forget(p, how) BY <1>6 DEF Refused
  <2> QED BY <1>6, <2>1, ForgetType, FaultType DEF TypeOK, Refused
<1>7. ASSUME NEW p \in Publishers, NEW k \in AllKeys, PutOk(p, k) PROVE TypeOK'
  <2>1. Want(p, k) \in Contents
    BY <1>7, PutKeysScoped, WantIsChecksummed DEF PutOk, Contents
  <2>2. bucket' \in [AllKeys -> Contents \cup {Absent}]
    BY <1>7, <2>1 DEF PutOk, TypeOK
  <2> QED BY <1>7, <2>2, UploadedType DEF TypeOK, PutOk, NoFault
<1>8. ASSUME NEW p \in Publishers, NEW k \in AllKeys, PutExists(p, k) PROVE TypeOK'
  <2>1. Want(p, k) \in Contents
    BY <1>8, PutKeysScoped, WantIsChecksummed DEF PutExists, Contents
  <2>2. bucket' \in [AllKeys -> Contents \cup {Absent}]
    BY <1>8, <2>1 DEF PutExists, TypeOK
  <2> QED BY <1>8, <2>2 DEF TypeOK, PutExists, NoFault
<1>9. ASSUME NEW p \in Publishers, NEW k \in AllKeys, PutConflict(p, k) PROVE TypeOK'
  <2>1. CASE pc[p] = "put"
    BY <1>9, <2>1, FaultType DEF TypeOK, PutConflict
  <2>2. CASE pc[p] # "put"
    <3>1. Forget(p, "failed") BY <1>9, <2>2 DEF PutConflict
    <3> QED BY <1>9, <3>1, ForgetType, FaultType DEF TypeOK, PutConflict
  <2> QED BY <2>1, <2>2
<1>10. ASSUME NEW p \in Publishers, NEW k \in AllKeys, PutLost(p, k) PROVE TypeOK'
  <2>1. Want(p, k) \in Contents
    BY <1>10, PutKeysScoped, WantIsChecksummed DEF PutLost, Contents
  <2>2. inflight' \subseteq AllKeys \X Contents
    BY <1>10, <2>1 DEF PutLost, TypeOK
  <2> QED BY <1>10, <2>2, ForgetType, FaultType DEF TypeOK, PutLost
<1>11. ASSUME NEW p \in Publishers, VerifyExisting(p) PROVE TypeOK'
  <2>1. CASE Uploaded(p, cur[p])
    BY <1>11, <2>1, UploadedType DEF TypeOK, VerifyExisting, NoFault
  <2>2. CASE Forget(p, "failed")
    BY <1>11, <2>2, ForgetType DEF TypeOK, VerifyExisting, NoFault
  <2> QED BY <1>11, <2>1, <2>2 DEF VerifyExisting
<1>12. ASSUME NEW p \in Publishers, VerifyRefused(p) PROVE TypeOK'
  BY <1>12, ForgetType, FaultType DEF TypeOK, VerifyRefused
<1>13. ASSUME NEW p \in Publishers, Crash(p) PROVE TypeOK'
  <2>1. \A k \in PutKeys(p) : k \in AllKeys /\ Want(p, k) \in Contents
    BY PutKeysScoped, WantIsChecksummed DEF Contents
  <2>2. inflight' \subseteq AllKeys \X Contents
    BY <1>13, <2>1 DEF Crash, TypeOK
  <2> QED BY <1>13, <2>2, ForgetType, FaultType DEF TypeOK, Crash
<1>14. ASSUME NEW put \in inflight, Land(put) PROVE TypeOK'
  <2>1. put[1] \in AllKeys /\ put[2] \in Contents BY DEF TypeOK
  <2> QED BY <1>14, <2>1 DEF TypeOK, Land, run
<1>15. ASSUME NEW k \in ForeignKeys, ForeignPut(k) PROVE TypeOK'
  BY <1>15 DEF TypeOK, ForeignPut, run, Contents
<1>16. ASSUME NEW k \in ForeignKeys, OperatorDelete(k) PROVE TypeOK'
  BY <1>16 DEF TypeOK, OperatorDelete, run
<1>17. CASE UNCHANGED vars
  BY <1>17 DEF TypeOK, vars
<1> QED
  BY <1>1, <1>2, <1>3, <1>4, <1>5, <1>6, <1>7, <1>8, <1>9, <1>10, <1>11, <1>12,
     <1>13, <1>14, <1>15, <1>16, <1>17 DEF Next, Answered, Faulty, Environment

\* A put only takes a free key and a deletion only takes one without a checksum.
LEMMA StaysStep ==
  ASSUME TypeOK, [Next]_vars
  PROVE  Stays
<1>1. ASSUME NEW p \in Publishers, NEW k \in AllKeys, PutOk(p, k) \/ PutExists(p, k)
      PROVE  Stays
  BY <1>1 DEF Stays, PutOk, PutExists, TypeOK
<1>2. ASSUME NEW put \in inflight, Land(put) PROVE Stays
  BY <1>2 DEF Stays, Land, TypeOK
<1>3. ASSUME NEW k \in ForeignKeys, ForeignPut(k) \/ OperatorDelete(k) PROVE Stays
  BY <1>3 DEF Stays, ForeignPut, OperatorDelete, TypeOK
<1>4. ASSUME NEW p \in Publishers,
             \/ Start(p) \/ ListPage(p) \/ Preflight(p) \/ Decide(p) \/ VerifyExisting(p)
             \/ \E k \in Keys : HeadObject(p, k)
             \/ Faulty(p)
      PROVE  Stays
  BY <1>4 DEF Stays, Start, ListPage, Preflight, Decide, VerifyExisting, HeadObject,
              Faulty, Refused, VerifyRefused, Crash, PutConflict, PutLost
<1>5. CASE UNCHANGED vars
  BY <1>5 DEF Stays, vars
<1> QED BY <1>1, <1>2, <1>3, <1>4, <1>5 DEF Next, Answered, Environment

\* What a run knows to be stored is still stored after any step.
LEMMA HeldStays ==
  ASSUME TypeOK, Stays, NEW p \in Publishers, NEW S, HeldOutside(p, S)
  PROVE  HeldOutside(p, S)'
<1>1. \A k \in Names(bundle[p]) : k \in AllKeys /\ Objects[bundle[p]][k] \notin {Absent, NoSum}
  BY DEF TypeOK, Names, AllKeys, Contents
<1> QED BY <1>1 DEF HeldOutside, Stays, Names

LEMMA CompleteStays ==
  ASSUME Stays, NEW m \in Manifests, Complete(m)
  PROVE  \A k \in Names(m) : bucket'[k] = Objects[m][k]
<1>1. \A k \in Names(m) : k \in AllKeys /\ Objects[m][k] \notin {Absent, NoSum}
  BY DEF Names, AllKeys, Contents
<1> QED BY <1>1 DEF Complete, Stays

\* The locals a step may change, run by run: those of p and of nobody else.
LEMMA OthersKeep ==
  ASSUME TypeOK, NEW p \in Publishers,
         Start(p) \/ Answered(p) \/ Faulty(p),
         NEW q \in Publishers, q # p
  PROVE  /\ pc'[q] = pc[q] /\ todo'[q] = todo[q] /\ missing'[q] = missing[q]
         /\ clash'[q] = clash[q] /\ cur'[q] = cur[q] /\ outcome'[q] = outcome[q]
         /\ listed'[q] = listed[q] /\ found'[q] = found[q]
<1>1. ASSUME NEW how, Forget(p, how)
      PROVE  /\ pc'[q] = pc[q] /\ todo'[q] = todo[q] /\ missing'[q] = missing[q]
             /\ clash'[q] = clash[q] /\ cur'[q] = cur[q] /\ outcome'[q] = outcome[q]
             /\ listed'[q] = listed[q] /\ found'[q] = found[q]
  BY <1>1 DEF Forget, TypeOK
<1>2. ASSUME NEW k, Uploaded(p, k)
      PROVE  /\ pc'[q] = pc[q] /\ todo'[q] = todo[q] /\ missing'[q] = missing[q]
             /\ clash'[q] = clash[q] /\ cur'[q] = cur[q] /\ outcome'[q] = outcome[q]
             /\ listed'[q] = listed[q] /\ found'[q] = found[q]
  BY <1>1, <1>2 DEF Uploaded, TypeOK
<1>3. CASE Start(p) BY <1>3 DEF Start, TypeOK
<1>4. CASE ListPage(p) BY <1>4 DEF ListPage, TypeOK
<1>5. CASE Preflight(p) BY <1>1, <1>5 DEF Preflight, TypeOK
<1>6. CASE \E k \in Keys : HeadObject(p, k) BY <1>6 DEF HeadObject, TypeOK
<1>7. CASE Decide(p) BY <1>1, <1>7 DEF Decide, TypeOK
<1>8. CASE \E k \in AllKeys : PutOk(p, k) BY <1>2, <1>8 DEF PutOk
<1>9. CASE \E k \in AllKeys : PutExists(p, k) BY <1>9 DEF PutExists, TypeOK
<1>10. CASE VerifyExisting(p) BY <1>1, <1>2, <1>10 DEF VerifyExisting
<1>11. CASE Refused(p) BY <1>1, <1>11 DEF Refused
<1>12. CASE VerifyRefused(p) BY <1>1, <1>12 DEF VerifyRefused
<1>13. CASE Crash(p) BY <1>1, <1>13 DEF Crash
<1>14. CASE \E k \in AllKeys : PutConflict(p, k)
  BY <1>1, <1>14 DEF PutConflict, TypeOK
<1>15. CASE \E k \in AllKeys : PutLost(p, k) BY <1>1, <1>15 DEF PutLost
<1> QED
  BY <1>3, <1>4, <1>5, <1>6, <1>7, <1>8, <1>9, <1>10, <1>11, <1>12, <1>13, <1>14,
     <1>15 DEF Answered, Faulty

\* A run that ends claims nothing but what its report says.
LEMMA ForgetInv ==
  ASSUME TypeOK, NEW p \in Publishers, NEW how, Forget(p, how), bundle' = bundle,
         how = "published" => bucket'[MK] = bundle[p]
  PROVE  RunInv(p)'
BY DEF Forget, TypeOK, RunInv, Scope, ManifestLast, ReconcileKnows, UploadKnows, ReportTrue

\* An upload that returned true leaves one object less to know of.
LEMMA UploadedRun ==
  ASSUME TypeOK, Stays, NEW p \in Publishers, RunInv(p),
         outcome'[p] = outcome[p] => ReportTrue(p)',
         HeldOutside(p, missing[p]),
         NEW k \in Names(bundle[p]) \cup {MK}, Uploaded(p, k),
         bucket'[k] = Want(p, k)
  PROVE  RunInv(p)'
<1>1. CASE k = MK
  <2>1. bucket'[MK] = bundle[p] BY <1>1, WantIsChecksummed
  <2> QED BY <1>1, <2>1, ForgetInv DEF Uploaded, Stays
<1>2. CASE k # MK
  <2>1. \A j \in Names(bundle[p]) \ missing[p] : bucket'[j] = Objects[bundle[p]][j]
    BY HeldStays, WantIsChecksummed DEF HeldOutside, Stays, TypeOK, Names, AllKeys, Contents
  <2>2. bucket'[k] = Objects[bundle[p]][k]
    BY <1>2 DEF Want
  <2>3. /\ missing'[p] = missing[p] \ {k} /\ pc'[p] = "put" /\ cur'[p] = MK
        /\ todo'[p] = todo[p] /\ bundle' = bundle /\ outcome' = outcome
    BY <1>2 DEF Uploaded, TypeOK, Stays
  <2>4. UploadKnows(p)'
    BY <2>1, <2>2, <2>3 DEF UploadKnows, HeldOutside, Names
  <2> QED
    BY <2>3, <2>4 DEF RunInv, Scope, ManifestLast, ReconcileKnows, Names
<1> QED BY <1>1, <1>2

\* Nothing a run knows is lost while its own locals stay as they are.
LEMMA KeepInv ==
  ASSUME TypeOK, Stays, NEW q \in Publishers, RunInv(q),
         pc'[q] = pc[q], todo'[q] = todo[q], missing'[q] = missing[q],
         clash'[q] = clash[q], cur'[q] = cur[q], outcome'[q] = outcome[q]
  PROVE  RunInv(q)'
<1>1. bundle' = bundle /\ bundle[q] \in Manifests /\ MK \in AllKeys
  BY DEF Stays, TypeOK, AllKeys
<1>2. Scope(q)' /\ ManifestLast(q)'
  BY <1>1 DEF RunInv, Scope, ManifestLast, Names
<1>3. \A S : HeldOutside(q, S) =>
        \A k \in Names(bundle[q]) \ S : bucket'[k] = Objects[bundle[q]][k]
  BY <1>1, HeldStays DEF HeldOutside, Names
<1>4. ReconcileKnows(q)'
  <2>1. HeldOutside(q, todo[q] \cup missing[q]) => HeldOutside(q, todo[q] \cup missing[q])'
    BY <1>1, <1>3 DEF HeldOutside, Names
  <2> QED BY <2>1 DEF RunInv, ReconcileKnows
<1>5. UploadKnows(q)'
  <2>1. HeldOutside(q, missing[q]) => HeldOutside(q, missing[q])'
    BY <1>1, <1>3 DEF HeldOutside, Names
  <2> QED BY <2>1 DEF RunInv, UploadKnows
<1>6. ReportTrue(q)'
  BY <1>1 DEF RunInv, ReportTrue, Stays, Contents
<1> QED BY <1>2, <1>4, <1>5, <1>6 DEF RunInv

\* A step of run p keeps what p knows true.
LEMMA RunStep ==
  ASSUME IInv, Stays, NEW p \in Publishers, Start(p) \/ Answered(p) \/ Faulty(p)
  PROVE  RunInv(p)'
<1> USE DEF IInv
<1>1. TypeOK /\ RunInv(p) OBVIOUS
<1>2. bundle' = bundle /\ bundle[p] \in Manifests
  BY DEF Stays, TypeOK
<1>3. ASSUME NEW how \in Outcomes \ {"published"}, Forget(p, how) PROVE RunInv(p)'
  BY <1>2, <1>3, ForgetInv
<1>4. ReportTrue(p) /\ (outcome'[p] = outcome[p] => ReportTrue(p)')
  BY <1>1, <1>2 DEF RunInv, ReportTrue, Stays, AllKeys, Contents
<1>5. \A S : HeldOutside(p, S) =>
        \A k \in Names(bundle[p]) \ S : bucket'[k] = Objects[bundle[p]][k]
  BY <1>2, HeldStays DEF HeldOutside, Names
<1>6. CASE Start(p)
  <2>1. /\ pc'[p] = "list" /\ outcome'[p] = "none"
        /\ todo' = todo /\ missing' = missing /\ cur' = cur /\ clash' = clash
    BY <1>6 DEF Start, TypeOK
  <2> QED BY <1>2, <2>1 DEF RunInv, Scope, ManifestLast, ReconcileKnows, UploadKnows,
                            ReportTrue, Names
<1>7. CASE ListPage(p)
  <2> DEFINE all == listed[p] \cup {k \in AllKeys : Page[k] = page[p] /\ bucket[k] # Absent}
  <2>1. CASE page[p] < Pages
    BY <1>1, <1>7, <2>1, KeepInv DEF ListPage, MorePages
  <2>2. CASE ~(page[p] < Pages)
    <3>1. /\ pc'[p] \in {"preflight", "reconcile"}
          /\ todo'[p] = Names(bundle[p]) \cap all
          /\ missing'[p] = Names(bundle[p]) \ all
          /\ cur' = cur /\ clash' = clash /\ outcome' = outcome
      BY <1>7, <2>2 DEF ListPage, MorePages, TypeOK
    <3>2. HeldOutside(p, todo[p] \cup missing[p])'
      BY <1>2, <3>1 DEF HeldOutside
    <3> HIDE DEF all
    <3> QED BY <1>1, <1>2, <1>4, <3>1, <3>2
            DEF RunInv, Scope, ManifestLast, ReconcileKnows, UploadKnows, Names, HeldOutside
  <2> QED BY <2>1, <2>2
<1>8. CASE Preflight(p)
  <2>1. CASE bucket[MK] = bundle[p]
    <3>1. Forget(p, "published") /\ bucket' = bucket
      BY <1>8, <2>1 DEF Preflight
    <3> QED BY <1>2, <2>1, <3>1, ForgetInv
  <2>2. CASE bucket[MK] # bundle[p]
    <3>1. /\ pc[p] = "preflight" /\ pc'[p] = "reconcile" /\ bucket' = bucket
          /\ todo' = todo /\ missing' = missing /\ cur' = cur /\ clash' = clash
          /\ outcome' = outcome
      BY <1>8, <2>2 DEF Preflight, TypeOK
    <3> QED BY <1>1, <1>2, <1>4, <3>1
            DEF RunInv, Scope, ManifestLast, ReconcileKnows, UploadKnows, HeldOutside, Names
  <2> QED BY <2>1, <2>2
<1>9. ASSUME NEW k \in Keys, HeadObject(p, k) PROVE RunInv(p)'
  <2>1. /\ pc[p] = "reconcile" /\ pc' = pc /\ k \in todo[p] /\ bucket' = bucket
        /\ todo'[p] = todo[p] \ {k}
        /\ missing'[p] = IF bucket[k] = Absent THEN missing[p] \cup {k} ELSE missing[p]
        /\ clash'[p] = (clash[p] \/ bucket[k] \notin {Absent, Want(p, k)})
        /\ cur' = cur /\ outcome' = outcome
    BY <1>9 DEF HeadObject, TypeOK
  <2>2. k \in Names(bundle[p]) /\ Want(p, k) = Objects[bundle[p]][k]
    BY <1>1, <2>1 DEF RunInv, Scope, Want
  <2>3. ReconcileKnows(p)'
    <3> SUFFICES ASSUME ~clash'[p] PROVE HeldOutside(p, todo[p] \cup missing[p])'
      BY <1>2 DEF ReconcileKnows, HeldOutside
    <3>1. clash[p] = FALSE /\ bucket[k] \in {Absent, Want(p, k)}
      BY <2>1 DEF TypeOK
    <3>2. HeldOutside(p, todo[p] \cup missing[p])
      BY <1>1, <2>1, <3>1 DEF RunInv, ReconcileKnows
    <3> QED BY <1>2, <2>1, <2>2, <3>1, <3>2 DEF HeldOutside, Names
  <2> QED BY <1>1, <1>2, <1>4, <2>1, <2>2, <2>3
          DEF RunInv, Scope, ManifestLast, UploadKnows, Names
<1>10. CASE Decide(p)
  <2>1. CASE Forget(p, "disagrees")
    BY <1>3, <2>1 DEF Outcomes
  <2>2. CASE ~Forget(p, "disagrees")
    <3>1. /\ pc[p] = "reconcile" /\ pc'[p] = "put" /\ todo[p] = {} /\ ~clash[p]
          /\ bucket' = bucket /\ todo' = todo /\ missing' = missing /\ cur' = cur
          /\ outcome' = outcome
      BY <1>10, <2>2 DEF Decide, TypeOK
    <3>2. HeldOutside(p, todo[p] \cup missing[p])
      BY <1>1, <3>1 DEF RunInv, ReconcileKnows
    <3> QED BY <1>1, <1>2, <1>4, <3>1, <3>2
            DEF RunInv, Scope, ManifestLast, ReconcileKnows, UploadKnows, HeldOutside, Names
  <2> QED BY <2>1, <2>2
<1>11. CASE Refused(p) \/ VerifyRefused(p) \/ Crash(p) \/ \E k \in AllKeys : PutLost(p, k)
  BY <1>3, <1>11 DEF Refused, VerifyRefused, Crash, PutLost, Outcomes
<1>12. ASSUME NEW k \in AllKeys, PutOk(p, k) PROVE RunInv(p)'
  <2>1. k \in Names(bundle[p]) \cup {MK} /\ HeldOutside(p, missing[p])
    BY <1>1, <1>12, PutKeysScoped DEF PutOk, PutKeys, RunInv, UploadKnows
  <2>2. Uploaded(p, k) /\ bucket'[k] = Want(p, k)
    BY <1>12 DEF PutOk, TypeOK
  <2> QED BY <1>1, <1>2, <1>4, <2>1, <2>2, UploadedRun
<1>13. ASSUME NEW k \in AllKeys, PutExists(p, k) PROVE RunInv(p)'
  <2>1. k \in Names(bundle[p]) \cup {MK} /\ HeldOutside(p, missing[p])
    BY <1>1, <1>13, PutKeysScoped DEF PutExists, PutKeys, RunInv, UploadKnows
  <2>2. k = MK => missing[p] = {}
    BY <1>1, <1>13 DEF PutExists, PutKeys, Targets, RunInv, ManifestLast, Scope, TypeOK
  <2>3. /\ pc'[p] = "verify" /\ cur'[p] = k /\ missing' = missing /\ todo' = todo
        /\ outcome' = outcome
    BY <1>13 DEF PutExists, TypeOK
  <2> QED BY <1>1, <1>2, <1>4, <1>5, <2>1, <2>2, <2>3
          DEF RunInv, Scope, ManifestLast, ReconcileKnows, UploadKnows, HeldOutside, Names
<1>14. ASSUME NEW k \in AllKeys, PutConflict(p, k) PROVE RunInv(p)'
  <2>1. CASE pc[p] = "put"
    <3>1. k \in Names(bundle[p]) \cup {MK} /\ HeldOutside(p, missing[p])
      BY <1>1, <1>14, PutKeysScoped DEF PutConflict, PutKeys, RunInv, UploadKnows
    <3>2. k = MK => missing[p] = {}
      BY <1>1, <1>14, <2>1 DEF PutConflict, PutKeys, Targets, RunInv, Scope, TypeOK
    <3>3. /\ pc'[p] = "again" /\ cur'[p] = k /\ missing' = missing /\ todo' = todo
          /\ outcome' = outcome
      BY <1>14, <2>1 DEF PutConflict, TypeOK
    <3> QED BY <1>1, <1>2, <1>4, <1>5, <3>1, <3>2, <3>3
            DEF RunInv, Scope, ManifestLast, ReconcileKnows, UploadKnows, HeldOutside, Names
  <2>2. CASE pc[p] # "put"
    BY <1>3, <1>14, <2>2 DEF PutConflict, Outcomes
  <2> QED BY <2>1, <2>2
<1>15. CASE VerifyExisting(p)
  <2>1. cur[p] \in Names(bundle[p]) \cup {MK} /\ HeldOutside(p, missing[p]) /\ bucket' = bucket
    BY <1>1, <1>15 DEF VerifyExisting, RunInv, UploadKnows, Scope
  <2>2. CASE bucket[cur[p]] = Want(p, cur[p])
    <3>1. Uploaded(p, cur[p])
      BY <1>15, <2>2 DEF VerifyExisting
    <3> QED BY <1>1, <1>2, <1>4, <2>1, <2>2, <3>1, UploadedRun
  <2>3. CASE bucket[cur[p]] # Want(p, cur[p])
    BY <1>3, <1>15, <2>3 DEF VerifyExisting, Outcomes
  <2> QED BY <2>2, <2>3
<1> QED
  BY <1>6, <1>7, <1>8, <1>9, <1>10, <1>11, <1>12, <1>13, <1>14, <1>15
     DEF Answered, Faulty

\* When a run comes to put its manifest, every object the manifest names is stored.
LEMMA AtManifest ==
  ASSUME IInv, NEW p \in Publishers, MK \in PutKeys(p)
  PROVE  /\ Want(p, MK) = bundle[p] /\ bundle[p] \in Manifests
         /\ Complete(bundle[p])
<1>1. TypeOK /\ RunInv(p)
  BY DEF IInv
<1>2. missing[p] = {}
  BY <1>1 DEF PutKeys, Targets, TypeOK, RunInv, Scope, ManifestLast
<1>3. HeldOutside(p, missing[p])
  BY <1>1 DEF PutKeys, RunInv, UploadKnows
<1> QED BY <1>1, <1>2, <1>3 DEF TypeOK, Want, HeldOutside, Complete

\* Orphaned manifest puts stay backed: a run orphans one only once it is at it.
LEMMA OrphanStep ==
  ASSUME IInv, Stays, [Next]_vars
  PROVE  OrphansAreBacked'
<1> SUFFICES ASSUME NEW m \in Manifests, <<MK, m>> \in inflight' PROVE Complete(m)'
  BY DEF OrphansAreBacked
<1>1. CASE <<MK, m>> \in inflight
  BY <1>1, CompleteStays DEF IInv, OrphansAreBacked, Complete, Names
<1>2. CASE <<MK, m>> \notin inflight
  <2>1. PICK p \in Publishers : PutLost(p, MK) \/ (Crash(p) /\ MK \in PutKeys(p))
    <3>1. ASSUME NEW p \in Publishers, Faulty(p)
          PROVE  PutLost(p, MK) \/ (Crash(p) /\ MK \in PutKeys(p))
      BY <1>2, <3>1 DEF Faulty, Refused, VerifyRefused, Crash, PutConflict, PutLost
    <3>2. ASSUME NEW p \in Publishers, Start(p) \/ Answered(p) PROVE FALSE
      BY <1>2, <3>2 DEF Start, Answered, ListPage, Preflight, Decide, VerifyExisting,
                        HeadObject, PutOk, PutExists
    <3>3. ASSUME Environment PROVE FALSE
      BY <1>2, <3>3 DEF Environment, Land, ForeignPut, OperatorDelete
    <3>4. ASSUME UNCHANGED vars PROVE FALSE
      BY <1>2, <3>4 DEF vars
    <3> QED BY <3>1, <3>2, <3>3, <3>4 DEF Next
  <2>2. MK \in PutKeys(p)
    BY <2>1 DEF PutLost
  <2>3. m = bundle[p]
    <3>1. PICK k \in PutKeys(p) : inflight' = inflight \cup {<<k, Want(p, k)>>}
      BY <1>2, <2>1, <2>2 DEF PutLost, Crash
    <3> QED BY <1>2, <2>2, <3>1, AtManifest
  <2> QED BY <2>2, <2>3, AtManifest, CompleteStays DEF Complete, Names
<1> QED BY <1>1, <1>2

\* A manifest is stored by a run that is at it, or by one that was.
LEMMA CompleteStep ==
  ASSUME IInv, Stays, [Next]_vars
  PROVE  ManifestImpliesComplete'
<1> SUFFICES ASSUME bucket'[MK] \in Manifests PROVE Complete(bucket[MK])'
  BY DEF ManifestImpliesComplete
<1>1. CASE bucket[MK] = bucket'[MK]
  BY <1>1, CompleteStays DEF IInv, ManifestImpliesComplete, Complete, Names
<1>2. CASE bucket[MK] # bucket'[MK]
  <2>1. ASSUME NEW p \in Publishers, NEW k \in AllKeys, PutOk(p, k) \/ PutExists(p, k)
        PROVE  Complete(bucket[MK])'
    <3>1. k = MK /\ MK \in PutKeys(p) /\ bucket'[MK] = Want(p, MK)
      BY <1>2, <2>1 DEF PutOk, PutExists, IInv, TypeOK, AllKeys
    <3>2. /\ \A k2 \in Names(bundle[p]) : bucket'[k2] = Objects[bundle[p]][k2]
          /\ bucket'[MK] = bundle[p]
      BY <3>1, AtManifest, CompleteStays
    <3> QED BY <3>2 DEF Complete, Names
  <2>2. ASSUME NEW put \in inflight, Land(put) PROVE Complete(bucket[MK])'
    <3>1. put[1] = MK /\ bucket'[MK] = put[2] /\ put = <<MK, put[2]>>
      BY <1>2, <2>2 DEF Land, IInv, TypeOK, AllKeys
    <3>2. Complete(put[2])
      BY <3>1 DEF IInv, OrphansAreBacked
    <3> QED BY <3>1, <3>2, CompleteStays DEF Complete, Names
  <2>3. ASSUME NEW k \in ForeignKeys, ForeignPut(k) \/ OperatorDelete(k) PROVE FALSE
    BY <1>2, <2>3 DEF ForeignPut, OperatorDelete, IInv, TypeOK, AllKeys, Contents
  <2>4. ASSUME NEW p \in Publishers,
               \/ Start(p) \/ ListPage(p) \/ Preflight(p) \/ Decide(p) \/ VerifyExisting(p)
               \/ \E k \in Keys : HeadObject(p, k)
               \/ Faulty(p)
        PROVE  FALSE
    BY <1>2, <2>4 DEF Start, ListPage, Preflight, Decide, VerifyExisting, HeadObject,
                Faulty, Refused, VerifyRefused, Crash, PutConflict, PutLost
  <2>5. ASSUME UNCHANGED vars PROVE FALSE
    BY <1>2, <2>5 DEF vars
  <2> QED BY <2>1, <2>2, <2>3, <2>4, <2>5 DEF Next, Answered, Environment
<1> QED BY <1>1, <1>2

\* The inductive step.
LEMMA StepIInv == IInv /\ [Next]_vars => IInv'
<1> SUFFICES ASSUME IInv, [Next]_vars PROVE IInv' OBVIOUS
<1>1. TypeOK /\ \A p \in Publishers : RunInv(p) /\ Scope(p)
  BY DEF IInv, RunInv
<1>2. TypeOK' /\ Stays
  BY <1>1, TypeStep, StaysStep
<1>3. ManifestImpliesComplete' /\ OrphansAreBacked'
  BY <1>2, CompleteStep, OrphanStep
<1>4. ASSUME NEW q \in Publishers PROVE RunInv(q)'
  <2>1. ASSUME NEW p \in Publishers, Start(p) \/ Answered(p) \/ Faulty(p) PROVE RunInv(q)'
    <3>1. CASE q = p BY <1>2, <2>1, <3>1, RunStep
    <3>2. CASE q # p BY <1>1, <1>2, <2>1, <3>2, OthersKeep, KeepInv
    <3> QED BY <3>1, <3>2
  <2>2. CASE Environment \/ UNCHANGED vars
    BY <1>1, <1>2, <2>2, KeepInv
       DEF Environment, Land, ForeignPut, OperatorDelete, run, vars
  <2> QED BY <2>1, <2>2 DEF Next
<1> QED BY <1>2, <1>3, <1>4 DEF IInv

LEMMA Invariance == Spec => []IInv
BY InitIInv, StepIInv, PTL DEF Spec
-----------------------------------------------------------------------------
\* Every variable keeps its type, for any number of publishers.
THEOREM TypeCorrect == Spec => []TypeOK
<1>1. IInv => TypeOK BY DEF IInv
<1> QED BY <1>1, Invariance, PTL

\* "The manifest goes last" does what publish.ts says it does: in every
\* interleaving of runs, crashes and late puts, a stored manifest has all of
\* its objects beside it.
THEOREM ManifestSound == Spec => []ManifestImpliesComplete
<1>1. IInv => ManifestImpliesComplete BY DEF IInv
<1> QED BY <1>1, Invariance, PTL

\* A run that reports "published" has its own manifest in the bucket.
THEOREM ReportSound == Spec => []PublishedIsStored
<1>1. IInv => PublishedIsStored
  BY DEF IInv, RunInv, ReportTrue, PublishedIsStored
<1> QED BY <1>1, Invariance, PTL

\* No step changes bytes that are stored with a checksum.
THEOREM StoredForGood == Spec => WriteOnce
<1>1. IInv /\ [Next]_vars =>
        [\A k \in AllKeys : bucket[k] \notin {Absent, NoSum} => bucket'[k] = bucket[k]]_vars
  BY StaysStep DEF IInv, Stays
<1> QED BY <1>1, Invariance, PTL DEF Spec, WriteOnce

\* publish implements the abstract store: what a reader can fetch goes from no
\* bundle to one whole bundle, in one step, and never changes again.
THEOREM Implements == Spec => ImplementsStore
<1>1. Init => Store!Init
  BY DEF Init, Store!Init, Store!NoBundle, Visible, AllKeys, Contents
<1>2. ASSUME IInv, IInv', [Next]_vars PROVE [Store!Next]_Visible
  <2>1. Stays /\ TypeOK
    BY <1>2, StaysStep DEF IInv
  <2>2. CASE bucket[MK] \in Manifests
    <3>1. bucket'[MK] = bucket[MK]
      BY <2>1, <2>2 DEF Stays, AllKeys, Contents
    <3>2. \A k \in Names(bucket[MK]) : bucket'[k] = bucket[k]
      BY <1>2, <2>1, <2>2, CompleteStays DEF IInv, ManifestImpliesComplete, Complete
    <3> QED BY <3>1, <3>2 DEF Visible, Names
  <2>3. CASE bucket[MK] \notin Manifests /\ bucket'[MK] \in Manifests
    <3> DEFINE m == bucket'[MK]
    <3>1. \A k \in Names(m) : bucket'[k] = Objects[m][k]
      BY <1>2, <2>3 DEF IInv, ManifestImpliesComplete, Complete, Names
    <3>2. [k \in Names(m) |-> bucket'[k]] = Objects[m]
      BY <2>3, <3>1 DEF Names
    <3>3. Visible' = <<m, [k \in Names(m) |-> bucket'[k]]>>
      BY <2>3 DEF Visible, Names
    <3>4. Visible = Store!NoBundle
      BY <2>3 DEF Visible, Store!NoBundle
    <3>5. Visible' = Store!Bundle(m)
      BY <3>2, <3>3 DEF Store!Bundle
    <3> QED BY <2>3, <3>4, <3>5 DEF Store!Next, Store!Publish
  <2>4. CASE bucket[MK] \notin Manifests /\ bucket'[MK] \notin Manifests
    BY <2>4 DEF Visible
  <2> QED BY <2>2, <2>3, <2>4
<1> QED BY <1>1, <1>2, Invariance, PTL DEF Spec, ImplementsStore, Store!Spec
-----------------------------------------------------------------------------
(***************************************************************************)
(* Why an undisturbed run ends short of "published".  What the run found   *)
(* in its way has to be in its way still when it reports, although other   *)
(* runs write between the two: CInv carries each finding, from the call    *)
(* that made it, as a fact about the bucket.                               *)
(***************************************************************************)

\* A process that is not running holds nothing it has found.
Fresh(p) == pc[p] = "idle" => listed[p] = {} /\ ~found[p] /\ ~clash[p]

\* What an undisturbed run has found is what the bucket holds.
ListedIsStored(p) == \A k \in listed[p] : bucket[k] # Absent
FoundIsOther(p)   == found[p] => bucket[MK] \notin {Absent, bundle[p]}
ClashIsStored(p)  ==
  clash[p] => \E k \in Names(bundle[p]) : bucket[k] \notin {Absent, Want(p, k)}
TakenIsStored(p)  == pc[p] = "verify" => bucket[cur[p]] # Absent
ReportHasCause(p) ==
  outcome[p] \in {"refused", "disagrees", "failed"} => ~Agrees(p)

Finding(p) ==
  ListedIsStored(p) /\ FoundIsOther(p) /\ ClashIsStored(p) /\ TakenIsStored(p)
    /\ ReportHasCause(p)

Cause(p) == Fresh(p) /\ (clean[p] => Finding(p))

CInv == \A p \in Publishers : Cause(p)

\* Every step but the operator's deletion only adds to the bucket.
Grows ==
  /\ bundle' = bundle
  /\ \A k \in AllKeys : bucket[k] # Absent => bucket'[k] = bucket[k]

LEMMA GrowsStep ==
  ASSUME TypeOK, [Next]_vars, ~(\E k \in ForeignKeys : OperatorDelete(k))
  PROVE  Grows
<1>1. ASSUME NEW p \in Publishers, NEW k \in AllKeys, PutOk(p, k) \/ PutExists(p, k)
      PROVE  Grows
  BY <1>1 DEF Grows, PutOk, PutExists, TypeOK
<1>2. ASSUME NEW put \in inflight, Land(put) PROVE Grows
  BY <1>2 DEF Grows, Land, TypeOK
<1>3. ASSUME NEW k \in ForeignKeys, ForeignPut(k) PROVE Grows
  BY <1>3 DEF Grows, ForeignPut, TypeOK
<1>4. ASSUME NEW p \in Publishers,
             \/ Start(p) \/ ListPage(p) \/ Preflight(p) \/ Decide(p) \/ VerifyExisting(p)
             \/ \E k \in Keys : HeadObject(p, k)
             \/ Faulty(p)
      PROVE  Grows
  BY <1>4 DEF Grows, Start, ListPage, Preflight, Decide, VerifyExisting, HeadObject,
              Faulty, Refused, VerifyRefused, Crash, PutConflict, PutLost
<1>5. CASE UNCHANGED vars
  BY <1>5 DEF Grows, vars
<1> QED BY <1>1, <1>2, <1>3, <1>4, <1>5 DEF Next, Answered, Environment

\* Content a bundle disagrees with stays in its way.
LEMMA DisagreementStays ==
  ASSUME TypeOK, Grows, NEW p \in Publishers, ~Agrees(p)
  PROVE  ~Agrees(p)'
<1>1. PICK k \in AllKeys :
        bucket[k] # Absent /\ ~(k \in Names(bundle[p]) \cup {MK} /\ bucket[k] = Want(p, k))
  BY DEF Agrees
<1>2. bucket'[k] = bucket[k] /\ bundle' = bundle
  BY <1>1 DEF Grows
<1> QED BY <1>1, <1>2 DEF Agrees, Want, Names

\* A finding outlives every step that leaves the run's findings alone.
LEMMA FindingStays ==
  ASSUME TypeOK, Grows, NEW q \in Publishers, Finding(q), Scope(q),
         listed'[q] = listed[q], found'[q] = found[q], clash'[q] = clash[q],
         outcome'[q] = outcome[q],
         pc'[q] = "verify" => bucket'[cur'[q]] # Absent
  PROVE  Finding(q)'
<1>1. bundle' = bundle /\ listed[q] \subseteq AllKeys /\ MK \in AllKeys
      /\ bundle[q] \in Manifests /\ Names(bundle[q]) \subseteq AllKeys
  BY DEF Grows, TypeOK, AllKeys
<1>2. ListedIsStored(q)'
  BY <1>1 DEF Finding, ListedIsStored, Grows
<1>3. FoundIsOther(q)'
  BY <1>1 DEF Finding, FoundIsOther, Grows
<1>4. ClashIsStored(q)'
  <2> SUFFICES ASSUME clash[q]
               PROVE  \E k \in Names(bundle'[q]) : bucket'[k] \notin {Absent, Want(q, k)'}
    BY DEF ClashIsStored, Names
  <2>1. PICK k \in Names(bundle[q]) : bucket[k] \notin {Absent, Want(q, k)}
    BY DEF Finding, ClashIsStored
  <2>2. bucket'[k] = bucket[k] /\ Want(q, k)' = Want(q, k)
    BY <1>1, <2>1 DEF Grows, Want
  <2> QED BY <1>1, <2>1, <2>2
<1>5. TakenIsStored(q)'
  BY DEF TakenIsStored
<1>6. ReportHasCause(q)'
  BY DisagreementStays DEF Finding, ReportHasCause
<1> QED BY <1>2, <1>3, <1>4, <1>5, <1>6 DEF Finding

\* The end of a process leaves nothing but its report to answer for.
LEMMA ForgetCause ==
  ASSUME TypeOK, NEW p \in Publishers, NEW how, Forget(p, how),
         clean'[p] /\ how \in {"refused", "disagrees", "failed"} => ~Agrees(p)'
  PROVE  Cause(p)'
<1>1. /\ pc'[p] = "idle" /\ outcome'[p] = how /\ listed'[p] = {}
      /\ found'[p] = FALSE /\ clash'[p] = FALSE
  BY DEF Forget, TypeOK
<1>2. Fresh(p)'
  BY <1>1 DEF Fresh
<1>3. clean'[p] => Finding(p)'
  BY <1>1 DEF Finding, ListedIsStored, FoundIsOther, ClashIsStored, TakenIsStored,
              ReportHasCause
<1> QED BY <1>2, <1>3 DEF Cause

\* A call that failed ends the claim that the run was undisturbed.
LEMMA FaultIsUnclean ==
  ASSUME TypeOK, NEW p \in Publishers, Faulty(p)
  PROVE  clean'[p] = FALSE
BY DEF Faulty, Refused, VerifyRefused, Crash, PutConflict, PutLost, Fault, TypeOK

\* Whether another run was disturbed does not change with a step of this one.
LEMMA OthersClean ==
  ASSUME TypeOK, NEW p \in Publishers, Start(p) \/ Answered(p) \/ Faulty(p),
         NEW q \in Publishers, q # p
  PROVE  clean'[q] = clean[q]
<1>1. CASE Start(p) BY <1>1 DEF Start, TypeOK
<1>2. CASE Answered(p)
  BY <1>2 DEF Answered, ListPage, Preflight, HeadObject, Decide, VerifyExisting, PutOk,
              PutExists, NoFault
<1>3. CASE Faulty(p)
  BY <1>3 DEF Faulty, Refused, VerifyRefused, Crash, PutConflict, PutLost, Fault, TypeOK
<1> QED BY <1>1, <1>2, <1>3

\* A disturbed run has only to forget what it found.
LEMMA FaultyCause ==
  ASSUME TypeOK, NEW p \in Publishers, Cause(p), Faulty(p)
  PROVE  Cause(p)'
<1>1. clean'[p] = FALSE
  BY FaultIsUnclean
<1>2. CASE \E how : Forget(p, how)
  BY <1>1, <1>2, ForgetCause
<1>3. CASE ~(\E how : Forget(p, how))
  <2>1. pc'[p] = "again"
    BY <1>3 DEF Faulty, Refused, VerifyRefused, Crash, PutConflict, PutLost, TypeOK
  <2> QED BY <1>1, <2>1 DEF Cause, Fresh
<1> QED BY <1>2, <1>3

\* The end of one upload adds no finding.
LEMMA UploadedCause ==
  ASSUME TypeOK, Grows, NEW p \in Publishers, Scope(p), Cause(p), clean' = clean,
         NEW k, Uploaded(p, k)
  PROVE  Cause(p)'
<1>1. CASE k = MK
  <2>1. Forget(p, "published") BY <1>1 DEF Uploaded
  <2> QED BY <2>1, ForgetCause
<1>2. CASE k # MK
  <2>1. /\ pc'[p] = "put" /\ listed' = listed /\ found' = found /\ clash' = clash
        /\ outcome' = outcome
    BY <1>2 DEF Uploaded, TypeOK
  <2>2. clean'[p] => Finding(p)'
    BY <2>1, FindingStays DEF Cause
  <2> QED BY <2>1, <2>2 DEF Cause, Fresh
<1> QED BY <1>1, <1>2

\* A step of run p finds only what the bucket holds.
LEMMA CauseStep ==
  ASSUME IInv, Grows, NEW p \in Publishers, Cause(p),
         Start(p) \/ Answered(p) \/ Faulty(p)
  PROVE  Cause(p)'
<1>1. TypeOK /\ Scope(p) /\ bundle' = bundle /\ bundle[p] \in Manifests
      /\ Names(bundle[p]) \subseteq Keys /\ MK \in AllKeys
  BY DEF IInv, RunInv, Grows, TypeOK, AllKeys
<1>2. CASE Faulty(p)
  BY <1>1, <1>2, FaultyCause
<1>3. CASE Start(p)
  <2>1. /\ pc[p] = "idle" /\ pc'[p] = "list" /\ outcome'[p] = "none"
        /\ listed' = listed /\ found' = found /\ clash' = clash
    BY <1>1, <1>3 DEF Start, TypeOK
  <2>2. listed[p] = {} /\ ~found[p] /\ ~clash[p]
    BY <2>1 DEF Cause, Fresh
  <2> QED BY <2>1, <2>2 DEF Cause, Fresh, Finding, ListedIsStored, FoundIsOther,
                            ClashIsStored, TakenIsStored, ReportHasCause
<1>4. CASE ListPage(p)
  <2> DEFINE named == {k \in AllKeys : Page[k] = page[p] /\ bucket[k] # Absent}
  <2>1. /\ pc'[p] \in {"list", "preflight", "reconcile"} /\ clean' = clean
        /\ listed'[p] = listed[p] \cup named
        /\ bucket' = bucket /\ found' = found /\ clash' = clash /\ outcome' = outcome
    BY <1>1, <1>4 DEF ListPage, NoFault, TypeOK
  <2>2. clean[p] => Finding(p)'
    <3> SUFFICES ASSUME Finding(p) PROVE Finding(p)'
      BY DEF Cause
    <3>1. ListedIsStored(p)'
      BY <2>1 DEF Finding, ListedIsStored
    <3>2. FoundIsOther(p)' /\ ClashIsStored(p)' /\ TakenIsStored(p)' /\ ReportHasCause(p)'
      BY <1>1, <2>1 DEF Finding, FoundIsOther, ClashIsStored, TakenIsStored,
                        ReportHasCause, Agrees, Want, Names
    <3> QED BY <3>1, <3>2 DEF Finding
  <2> QED BY <2>1, <2>2 DEF Cause, Fresh
<1>5. CASE Preflight(p)
  <2>1. CASE bucket[MK] = bundle[p]
    <3>1. Forget(p, "published") BY <1>5, <2>1 DEF Preflight
    <3> QED BY <1>1, <3>1, ForgetCause
  <2>2. CASE bucket[MK] # bundle[p]
    <3>1. /\ pc'[p] = "reconcile" /\ clean' = clean /\ listed' = listed
          /\ found'[p] = (bucket[MK] # Absent)
          /\ bucket' = bucket /\ clash' = clash /\ outcome' = outcome
      BY <1>1, <1>5, <2>2 DEF Preflight, NoFault, TypeOK
    <3>2. clean[p] => Finding(p)'
      <4> SUFFICES ASSUME Finding(p) PROVE Finding(p)'
        BY DEF Cause
      <4>1. FoundIsOther(p)'
        BY <1>1, <2>2, <3>1 DEF FoundIsOther
      <4>2. ListedIsStored(p)' /\ ClashIsStored(p)' /\ TakenIsStored(p)' /\ ReportHasCause(p)'
        BY <1>1, <3>1 DEF Finding, ListedIsStored, ClashIsStored, TakenIsStored,
                          ReportHasCause, Agrees, Want, Names
      <4> QED BY <4>1, <4>2 DEF Finding
    <3> QED BY <3>1, <3>2 DEF Cause, Fresh
  <2> QED BY <2>1, <2>2
<1>6. ASSUME NEW k \in Keys, HeadObject(p, k) PROVE Cause(p)'
  <2>1. /\ pc[p] = "reconcile" /\ pc' = pc /\ clean' = clean /\ listed' = listed
        /\ found' = found /\ bucket' = bucket /\ outcome' = outcome /\ k \in todo[p]
        /\ clash'[p] = (clash[p] \/ bucket[k] \notin {Absent, Want(p, k)})
    BY <1>1, <1>6 DEF HeadObject, NoFault, TypeOK
  <2>2. k \in Names(bundle[p])
    BY <1>1, <2>1 DEF Scope
  <2>3. clean[p] => Finding(p)'
    <3> SUFFICES ASSUME Finding(p) PROVE Finding(p)'
      BY DEF Cause
    <3>1. \A j : Want(p, j)' = Want(p, j)
      BY <1>1 DEF Want
    <3>2. ClashIsStored(p)'
      <4> SUFFICES ASSUME clash'[p]
                   PROVE  \E j \in Names(bundle[p]) : bucket[j] \notin {Absent, Want(p, j)}
        BY <1>1, <2>1, <3>1 DEF ClashIsStored, Names
      <4>1. CASE clash[p] BY <4>1 DEF Finding, ClashIsStored
      <4>2. CASE ~clash[p]
        BY <2>1, <2>2, <4>2
      <4> QED BY <4>1, <4>2
    <3>3. ListedIsStored(p)' /\ FoundIsOther(p)' /\ TakenIsStored(p)' /\ ReportHasCause(p)'
      BY <1>1, <2>1 DEF Finding, ListedIsStored, FoundIsOther, TakenIsStored,
                        ReportHasCause, Agrees, Want, Names
    <3> QED BY <3>2, <3>3 DEF Finding
  <2>4. pc'[p] # "idle"
    BY <2>1
  <2> QED BY <2>1, <2>3, <2>4 DEF Cause, Fresh
<1>7. CASE Decide(p)
  <2>1. CASE clash[p] \/ Stray(p) # {} \/ (found[p] /\ missing[p] = {})
    <3>1. Forget(p, "disagrees") /\ bucket' = bucket /\ clean' = clean
      BY <1>7, <2>1 DEF Decide, NoFault
    <3>2. clean[p] => ~Agrees(p)
      <4> SUFFICES ASSUME Finding(p) PROVE ~Agrees(p)
        BY DEF Cause
      <4>1. CASE clash[p]
        <5>1. PICK k \in Names(bundle[p]) : bucket[k] \notin {Absent, Want(p, k)}
          BY <4>1 DEF Finding, ClashIsStored
        <5> QED BY <1>1, <5>1 DEF Agrees, AllKeys
      <4>2. CASE Stray(p) # {}
        <5>1. PICK k \in Stray(p) : TRUE BY <4>2
        <5>2. k \in listed[p] /\ k \in AllKeys /\ k \notin Names(bundle[p]) \cup {MK}
          BY <1>1, <5>1 DEF Stray, TypeOK
        <5>3. bucket[k] # Absent
          BY <5>2 DEF Finding, ListedIsStored
        <5> QED BY <5>2, <5>3 DEF Agrees
      <4>3. CASE found[p]
        <5>1. bucket[MK] \notin {Absent, bundle[p]}
          BY <4>3 DEF Finding, FoundIsOther
        <5> QED BY <1>1, <5>1 DEF Agrees, Want
      <4> QED BY <2>1, <4>1, <4>2, <4>3
    <3>3. Agrees(p)' <=> Agrees(p)
      BY <1>1, <3>1 DEF Agrees, Want, Names
    <3> QED BY <1>1, <3>1, <3>2, <3>3, ForgetCause
  <2>2. CASE ~(clash[p] \/ Stray(p) # {} \/ (found[p] /\ missing[p] = {}))
    <3>1. /\ pc'[p] = "put" /\ clean' = clean /\ listed' = listed /\ found' = found
          /\ clash' = clash /\ outcome' = outcome
      BY <1>1, <1>7, <2>2 DEF Decide, NoFault, TypeOK
    <3>2. clean'[p] => Finding(p)'
      BY <1>1, <3>1, FindingStays DEF Cause
    <3> QED BY <3>1, <3>2 DEF Cause, Fresh
  <2> QED BY <2>1, <2>2
<1>8. ASSUME NEW k \in AllKeys, PutOk(p, k) PROVE Cause(p)'
  <2>1. Uploaded(p, k) /\ clean' = clean
    BY <1>8 DEF PutOk, NoFault
  <2> QED BY <1>1, <2>1, UploadedCause
<1>9. ASSUME NEW k \in AllKeys, PutExists(p, k) PROVE Cause(p)'
  <2>1. Want(p, k) # Absent
    BY <1>1, <1>9, PutKeysScoped, WantIsChecksummed DEF PutExists, Contents
  <2>2. /\ pc'[p] = "verify" /\ cur'[p] = k /\ bucket'[k] # Absent /\ clean' = clean
        /\ listed' = listed /\ found' = found /\ clash' = clash /\ outcome' = outcome
    BY <1>1, <1>9, <2>1 DEF PutExists, NoFault, TypeOK
  <2>3. clean'[p] => Finding(p)'
    BY <1>1, <2>2, FindingStays DEF Cause
  <2> QED BY <2>2, <2>3 DEF Cause, Fresh
<1>10. CASE VerifyExisting(p)
  <2>1. pc[p] = "verify" /\ bucket' = bucket /\ clean' = clean
    BY <1>10 DEF VerifyExisting, NoFault
  <2>2. CASE bucket[cur[p]] = Want(p, cur[p])
    <3>1. Uploaded(p, cur[p]) BY <1>10, <2>2 DEF VerifyExisting
    <3> QED BY <1>1, <2>1, <3>1, UploadedCause
  <2>3. CASE bucket[cur[p]] # Want(p, cur[p])
    <3>1. Forget(p, "failed") BY <1>10, <2>3 DEF VerifyExisting
    <3>2. clean[p] => ~Agrees(p)
      BY <1>1, <2>1, <2>3 DEF Cause, Finding, TakenIsStored, Agrees, TypeOK
    <3>3. Agrees(p)' <=> Agrees(p)
      BY <1>1, <2>1 DEF Agrees, Want, Names
    <3> QED BY <1>1, <2>1, <3>1, <3>2, <3>3, ForgetCause
  <2> QED BY <2>2, <2>3
<1> QED
  BY <1>2, <1>3, <1>4, <1>5, <1>6, <1>7, <1>8, <1>9, <1>10 DEF Answered

LEMMA InitCInv == Init => CInv
BY DEF Init, CInv, Cause, Fresh, Finding, ListedIsStored, FoundIsOther, ClashIsStored,
       TakenIsStored, ReportHasCause

LEMMA StepCInv ==
  ASSUME IInv, CInv, [Next]_vars
  PROVE  CInv'
<1>1. TypeOK /\ \A q \in Publishers : Scope(q) /\ Cause(q)
  BY DEF IInv, RunInv, CInv
<1>2. ASSUME NEW k \in ForeignKeys, OperatorDelete(k), NEW q \in Publishers
      PROVE  Cause(q)'
  <2>1. /\ pc' = pc /\ listed' = listed /\ found' = found /\ clash' = clash
        /\ clean'[q] = FALSE
    BY <1>2 DEF OperatorDelete, run
  <2> QED BY <1>1, <2>1 DEF Cause, Fresh
<1>3. ASSUME ~(\E k \in ForeignKeys : OperatorDelete(k)), NEW q \in Publishers
      PROVE  Cause(q)'
  <2>1. Grows
    BY <1>1, <1>3, GrowsStep
  <2>2. ASSUME pc'[q] = pc[q], listed'[q] = listed[q], found'[q] = found[q],
               clash'[q] = clash[q], cur'[q] = cur[q], outcome'[q] = outcome[q],
               clean'[q] = clean[q]
        PROVE  Cause(q)'
    <3>1. cur[q] \in AllKeys
      BY <1>1 DEF TypeOK
    <3>2. clean[q] => (pc'[q] = "verify" => bucket'[cur'[q]] # Absent)
      BY <1>1, <2>1, <2>2, <3>1 DEF Cause, Finding, TakenIsStored, Grows
    <3>3. clean[q] => Finding(q)'
      BY <1>1, <2>1, <2>2, <3>2, FindingStays DEF Cause
    <3> QED BY <1>1, <2>2, <3>3 DEF Cause, Fresh
  <2>3. ASSUME NEW p \in Publishers, Start(p) \/ Answered(p) \/ Faulty(p) PROVE Cause(q)'
    <3>1. CASE q = p BY <1>1, <2>1, <2>3, <3>1, CauseStep
    <3>2. CASE q # p BY <1>1, <2>2, <2>3, <3>2, OthersKeep, OthersClean
    <3> QED BY <3>1, <3>2
  <2>4. CASE \/ \E put \in inflight : Land(put)
             \/ \E k \in ForeignKeys : ForeignPut(k)
             \/ UNCHANGED vars
    BY <2>2, <2>4 DEF Land, ForeignPut, run, vars
  <2> QED BY <1>3, <2>3, <2>4 DEF Next, Environment
<1> QED BY <1>2, <1>3 DEF CInv

\* Publishers that agree never make each other fail: a run that no refused,
\* conflicted or lost call disturbed ends short of "published" only when the
\* prefix holds, then and there, content its bundle disagrees with.
THEOREM FailuresHaveCauses == Spec => []FailureHasACause
<1>1. CInv => FailureHasACause
  BY DEF CInv, Cause, Finding, ReportHasCause, FailureHasACause
<1>2. Init /\ [][Next]_vars /\ []IInv => []CInv
  BY InitCInv, StepCInv, PTL
<1> QED BY <1>1, <1>2, Invariance, PTL DEF Spec
-----------------------------------------------------------------------------
(***************************************************************************)
(* The bundle directory of a build, for any number of killed builds and    *)
(* builds by other kits.                                                   *)
(*                                                                         *)
(* A whole directory is not inductive: what makes the manifest on disk     *)
(* whole evidence is what the build that is about to write it has already  *)
(* put or found, although others wrote beside it.  BuildKnows says that.   *)
(* A publish that goes on reads what it verified because a build touches   *)
(* nothing but free keys, and a directory is cleared only between runs.    *)
(***************************************************************************)

DirType ==
  /\ dir \in [AllKeys -> Contents \cup {Absent, Torn}]
  /\ writing \in Manifests \cup {Absent}
  /\ left \subseteq Keys

\* The build has put, or found, every object that is no longer left.
BuildKnows ==
  writing # Absent =>
    /\ left \subseteq Names(writing)
    /\ \A k \in Names(writing) \ left : dir[k] = Objects[writing][k]

RInv == IInv /\ DirType /\ BuildKnows /\ DirectoryIsWhole /\ UploadsWhatWasVerified

\* What a build may do to the directory: take free names.
DirStays == \A k \in AllKeys : dir[k] # Absent => dir'[k] = dir[k]
-----------------------------------------------------------------------------
USE ReleaseAssumption

\* The bytes a build puts are never a mark for a missing or a torn file.
LEMMA BytesAreWhole ==
  ASSUME NEW m \in Manifests, NEW k \in Names(m) \cup {MK}
  PROVE  /\ k \in AllKeys
         /\ Bytes(m, k) \in Digests \cup Manifests
         /\ Bytes(m, k) \notin {Absent, Torn}
         /\ k # MK => Bytes(m, k) = Objects[m][k]
BY DEF Bytes, Names, AllKeys, Contents

\* Nothing is built and nothing uploaded.
LEMMA ReleaseInitRInv == ReleaseInit => RInv
<1> SUFFICES ASSUME ReleaseInit PROVE RInv OBVIOUS
<1>1. IInv
  BY InitIInv DEF ReleaseInit
<1>2. DirType /\ BuildKnows
  BY DEF ReleaseInit, DirType, BuildKnows
<1>3. dir[MK] = Absent /\ pc[Builder] = "idle"
  BY DEF ReleaseInit, Init, AllKeys
<1>4. DirectoryIsWhole /\ UploadsWhatWasVerified
  BY <1>3 DEF DirectoryIsWhole, UploadsWhatWasVerified, Contents
<1> QED BY <1>1, <1>2, <1>4 DEF RInv

\* A build that goes on keeps what it knows, and takes free names only.
LEMMA PutStep ==
  ASSUME DirType, BuildKnows, NEW k \in AllKeys, Put(k)
  PROVE  DirType' /\ BuildKnows' /\ DirStays
<1>1. writing \in Manifests /\ left \subseteq Names(writing)
  BY DEF Put, DirType, BuildKnows
<1>2. k \in Names(writing) \cup {MK} /\ (k = MK => left = {}) /\ (k # MK => k \in left)
  BY <1>1 DEF Put, NextKeys, DirType
<1>3. Bytes(writing, k) \in Contents /\ (k # MK => Bytes(writing, k) = Objects[writing][k])
  BY <1>1, <1>2, BytesAreWhole DEF Contents
<1>4. CASE dir[k] \in {Absent, Bytes(writing, k)}
  <2>1. /\ dir' = [dir EXCEPT ![k] = Bytes(writing, k)]
        /\ left' = left \ {k}
        /\ writing' = IF k = MK THEN Absent ELSE writing
    BY <1>4 DEF Put
  <2>2. DirType' /\ DirStays
    BY <1>1, <1>3, <1>4, <2>1 DEF DirType, DirStays
  <2>3. BuildKnows'
    <3>1. CASE k = MK BY <2>1, <3>1 DEF BuildKnows
    <3>2. CASE k # MK
      <4>1. writing' = writing /\ k \in left /\ dir'[k] = Objects[writing][k]
        BY <1>2, <1>3, <2>1, <3>2 DEF DirType
      <4>2. \A j \in Names(writing) \ left : dir'[j] = Objects[writing][j]
        <5> SUFFICES ASSUME NEW j \in Names(writing) \ left
                     PROVE  dir'[j] = Objects[writing][j]
          OBVIOUS
        <5>1. j # k /\ j \in AllKeys /\ dir[j] = Objects[writing][j]
          BY <1>1, <4>1 DEF BuildKnows, Names, AllKeys, Contents
        <5> QED BY <2>1, <5>1 DEF DirType
      <4> QED BY <1>1, <2>1, <4>1, <4>2 DEF BuildKnows, Names
    <3> QED BY <3>1, <3>2
  <2> QED BY <2>2, <2>3
<1>5. CASE dir[k] \notin {Absent, Bytes(writing, k)}
  BY <1>5 DEF Put, DirType, BuildKnows, DirStays
<1> QED BY <1>4, <1>5

\* A manifest on disk stays whole evidence, and a new one is put last.
LEMMA WholeStep ==
  ASSUME DirType, BuildKnows, DirectoryIsWhole, NEW k \in AllKeys, Put(k)
  PROVE  DirectoryIsWhole'
<1> SUFFICES ASSUME dir'[MK] \in Manifests, NEW j \in Names(dir'[MK])
             PROVE  dir'[j] = Objects[dir'[MK]][j]
  BY DEF DirectoryIsWhole, Names
<1>1. DirStays /\ j \in AllKeys /\ j # MK /\ MK \in AllKeys
  BY PutStep DEF Names, AllKeys
<1>2. CASE dir[MK] \in Manifests
  <2>1. dir'[MK] = dir[MK]
    BY <1>1, <1>2 DEF DirStays, Contents
  <2>2. dir[j] = Objects[dir[MK]][j] /\ dir[j] # Absent
    BY <1>2, <2>1 DEF DirectoryIsWhole, Names, Contents
  <2> QED BY <1>1, <2>1, <2>2 DEF DirStays
<1>3. CASE dir[MK] \notin Manifests
  <2>1. k = MK /\ dir' = [dir EXCEPT ![MK] = Bytes(writing, MK)]
    BY <1>3 DEF Put, DirType, AllKeys
  <2>2. left = {} /\ writing # Absent
    BY <2>1 DEF Put, NextKeys, DirType
  <2>3. dir'[MK] = writing /\ dir'[j] = dir[j]
    BY <1>1, <2>1 DEF DirType, Bytes
  <2> QED BY <2>2, <2>3 DEF BuildKnows
<1> QED BY <1>2, <1>3

\* Every local step: a build starts, goes on, is killed, or the operator clears
\* the directory.
LEMMA LocalRInv ==
  ASSUME RInv, LocalStep, UNCHANGED vars
  PROVE  DirType' /\ BuildKnows' /\ DirectoryIsWhole' /\ UploadsWhatWasVerified'
<1> USE DEF RInv
<1>1. /\ pc' = pc /\ bundle' = bundle /\ Mine' = Mine /\ Mine \in Manifests /\ MK \in AllKeys
  BY DEF vars, Mine, IInv, TypeOK, AllKeys
<1>2. ASSUME DirStays PROVE UploadsWhatWasVerified'
  <2> SUFFICES ASSUME pc[Builder] # "idle", NEW k \in Names(Mine) \cup {MK}
               PROVE  dir'[k] = Bytes(Mine, k)
    BY <1>1 DEF UploadsWhatWasVerified, Names, Bytes
  <2>1. dir[k] = Bytes(Mine, k) /\ k \in AllKeys /\ Bytes(Mine, k) # Absent
    BY <1>1, BytesAreWhole DEF UploadsWhatWasVerified
  <2> QED BY <1>2, <2>1 DEF DirStays
<1>3. ASSUME NEW m \in Manifests, BuildStart(m)
      PROVE  DirType' /\ BuildKnows' /\ DirectoryIsWhole' /\ UploadsWhatWasVerified'
  <2>1. dir' = dir /\ writing' = m /\ left' = Names(m)
    BY <1>3 DEF BuildStart
  <2>2. DirType' /\ BuildKnows' /\ DirectoryIsWhole'
    BY <2>1 DEF DirType, BuildKnows, DirectoryIsWhole, Names
  <2> QED BY <1>2, <2>1, <2>2 DEF DirStays
<1>4. ASSUME NEW k \in AllKeys, Put(k)
      PROVE  DirType' /\ BuildKnows' /\ DirectoryIsWhole' /\ UploadsWhatWasVerified'
  BY <1>2, <1>4, PutStep, WholeStep
<1>5. ASSUME Kill
      PROVE  DirType' /\ BuildKnows' /\ DirectoryIsWhole' /\ UploadsWhatWasVerified'
  <2>1. /\ writing' = Absent /\ left' = {} /\ NextKeys \subseteq AllKeys
        /\ dir' = dir \/ \E k \in NextKeys : dir[k] = Absent /\ dir' = [dir EXCEPT ![k] = Torn]
    BY <1>5 DEF Kill, NextKeys, DirType, AllKeys
  <2>2. DirType' /\ BuildKnows' /\ DirStays
    BY <2>1 DEF DirType, BuildKnows, DirStays
  <2>3. DirectoryIsWhole'
    <3> SUFFICES ASSUME dir'[MK] \in Manifests, NEW j \in Names(dir'[MK])
                 PROVE  dir'[j] = Objects[dir'[MK]][j]
      BY DEF DirectoryIsWhole, Names
    <3>1. dir'[MK] = dir[MK]
      BY <1>1, <2>1 DEF DirType, Contents
    <3>2. dir[j] = Objects[dir[MK]][j] /\ dir[j] # Absent /\ j \in AllKeys
      BY <3>1 DEF DirectoryIsWhole, Names, Contents, AllKeys
    <3> QED BY <2>2, <3>1, <3>2 DEF DirStays
  <2> QED BY <1>2, <2>2, <2>3
<1>6. ASSUME Clear
      PROVE  DirType' /\ BuildKnows' /\ DirectoryIsWhole' /\ UploadsWhatWasVerified'
  BY <1>1, <1>6 DEF Clear, DirType, BuildKnows, DirectoryIsWhole, UploadsWhatWasVerified,
                    Contents
<1> QED BY <1>3, <1>4, <1>5, <1>6 DEF LocalStep

\* A run that is over goes on only when it is started.
LEMMA IdleStays ==
  ASSUME IInv, NEW p \in Publishers, Answered(p) \/ Faulty(p), pc[Builder] = "idle"
  PROVE  pc'[Builder] = "idle"
<1>1. CASE p = Builder
  BY <1>1 DEF Answered, Faulty, ListPage, Preflight, Decide, VerifyExisting, HeadObject,
              PutOk, PutExists, PutConflict, PutLost, PutKeys, Refused, VerifyRefused, Crash
<1>2. CASE p # Builder
  BY <1>2, OthersKeep DEF IInv
<1> QED BY <1>1, <1>2

\* A step of the upload leaves the directory alone, and starts only from a
\* directory that verified.
LEMMA UploadRInv ==
  ASSUME RInv, UNCHANGED local, [Next]_vars,
         \/ \E p \in Publishers : Starts(p) /\ Start(p)
         \/ Environment
         \/ \E p \in Publishers : Answered(p) \/ Faulty(p)
  PROVE  DirType' /\ BuildKnows' /\ DirectoryIsWhole' /\ UploadsWhatWasVerified'
<1> USE DEF RInv
<1>1. dir' = dir /\ writing' = writing /\ left' = left
  BY DEF local
<1>2. DirType' /\ BuildKnows' /\ DirectoryIsWhole'
  BY <1>1 DEF DirType, BuildKnows, DirectoryIsWhole, Names
<1>3. bundle' = bundle /\ Mine' = Mine
  BY StaysStep DEF IInv, Stays, Mine
<1>4. UploadsWhatWasVerified'
  <2>1. CASE pc[Builder] # "idle"
    BY <1>1, <1>3, <2>1 DEF UploadsWhatWasVerified, Names, Bytes
  <2>2. CASE pc[Builder] = "idle" /\ \E p \in Publishers : Starts(p) /\ Start(p)
    <3>1. PICK p \in Publishers : Starts(p) /\ Start(p) BY <2>2
    <3>2. CASE p = Builder
      BY <1>1, <1>3, <3>1, <3>2 DEF Starts, Verified, UploadsWhatWasVerified, Names, Bytes
    <3>3. CASE p # Builder
      <4>1. pc'[Builder] = "idle"
        BY <2>2, <3>1, <3>3, OthersKeep DEF IInv
      <4> QED BY <4>1 DEF UploadsWhatWasVerified
    <3> QED BY <3>2, <3>3
  <2>3. CASE pc[Builder] = "idle" /\ \E p \in Publishers : Answered(p) \/ Faulty(p)
    <3>1. pc'[Builder] = "idle" BY <2>3, IdleStays
    <3> QED BY <3>1 DEF UploadsWhatWasVerified
  <2>4. CASE pc[Builder] = "idle" /\ Environment
    BY <2>4 DEF Environment, Land, ForeignPut, OperatorDelete, run, UploadsWhatWasVerified
  <2> QED BY <2>1, <2>2, <2>3, <2>4
<1> QED BY <1>2, <1>4

\* The inductive step.
LEMMA ReleaseStep == RInv /\ [ReleaseNext]_allVars => RInv'
<1> SUFFICES ASSUME RInv, [ReleaseNext]_allVars PROVE RInv' OBVIOUS
<1>1. [Next]_vars
  BY DEF ReleaseNext, Next, allVars
<1>2. IInv'
  BY <1>1, StepIInv DEF RInv
<1>3. CASE LocalStep /\ UNCHANGED vars
  BY <1>2, <1>3, LocalRInv DEF RInv
<1>4. CASE UNCHANGED local /\ \/ \E p \in Publishers : Starts(p) /\ Start(p)
                              \/ Environment
                              \/ \E p \in Publishers : Answered(p) \/ Faulty(p)
  BY <1>1, <1>2, <1>4, UploadRInv DEF RInv
<1>5. CASE UNCHANGED allVars
  BY <1>2, <1>5 DEF RInv, allVars, local, vars, DirType, BuildKnows, DirectoryIsWhole,
                    UploadsWhatWasVerified, Mine, Names, Bytes
<1> QED BY <1>3, <1>4, <1>5 DEF ReleaseNext

\* The strengthened invariant holds of every behaviour.
LEMMA ReleaseInvariance == ReleaseSpec => []RInv
BY ReleaseInitRInv, ReleaseStep, PTL DEF ReleaseSpec
-----------------------------------------------------------------------------
\* "The manifest is written last" does what bundle.ts says it does: a manifest
\* on disk has every object it names beside it, whatever builds were killed
\* within a file, refused, or came from a checkout with another kit.
THEOREM DirectoryWhole == ReleaseSpec => []DirectoryIsWhole
<1>1. RInv => DirectoryIsWhole BY DEF RInv
<1> QED BY <1>1, ReleaseInvariance, PTL

\* A publish verifies its directory once and reads it again file by file: what
\* it reads is what it verified, although builds go on beside it.
THEOREM UploadsVerified == ReleaseSpec => []UploadsWhatWasVerified
<1>1. RInv => UploadsWhatWasVerified BY DEF RInv
<1> QED BY <1>1, ReleaseInvariance, PTL

\* What is proved of the upload alone holds of it behind the build too.
THEOREM ReleaseManifestSound == ReleaseSpec => []ManifestImpliesComplete
<1>1. RInv => ManifestImpliesComplete BY DEF RInv, IInv
<1> QED BY <1>1, ReleaseInvariance, PTL
=============================================================================
