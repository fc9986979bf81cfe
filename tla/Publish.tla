------------------------------ MODULE Publish ------------------------------
(***************************************************************************)
(* hexdocs publish: the upload of compiled bundles into one                *)
(* commit-addressed prefix of the bucket (kit/src/commands/publish.ts over *)
(* kit/src/s3/client.ts).  One prefix is modelled, because no call of a    *)
(* run leaves its prefix.  Several publishers work on it at once: a CI job *)
(* and a laptop, or the reruns of a job whose predecessor is still going.  *)
(*                                                                         *)
(* A run is one straight line of synchronous aws calls.  Each call is one  *)
(* step here, and between two calls of a run the other runs, the operator  *)
(* and the puts that outlive their process may all act.                    *)
(***************************************************************************)
EXTENDS Naturals, FiniteSets

CONSTANTS Publishers,  \* the processes that may run `hexdocs publish`
          Keys,        \* object keys, relative to the prefix
          MK,          \* MANIFEST_KEY
          Digests,     \* SHA-256 digests of objects
          Manifests,   \* manifests; one stands for its own bytes and digest
          Objects,     \* Objects[m] : the objects m names, key to digest
          Pages,       \* how many pages a listing takes
          Page,        \* Page[k] : the page key k is listed on
          Absent,      \* nothing is stored at the key
          NoSum,       \* stored by something that sent no SHA-256 checksum
          ForeignKeys, \* bound: the keys another principal may write
          MaxFaults    \* bound: calls refused, conflicted or lost, and crashes

AllKeys == Keys \cup {MK}
Names(m) == DOMAIN Objects[m]
Contents == Digests \cup Manifests \cup {NoSum}

ASSUME PublishAssumption ==
  /\ MK \notin Keys
  /\ Absent \notin Contents
  /\ NoSum \notin Digests \cup Manifests
  /\ Digests \cap Manifests = {}
  /\ \A m \in Manifests : /\ Names(m) \subseteq Keys
                          /\ Objects[m] \in [Names(m) -> Digests]
  /\ Pages \in Nat \ {0}
  /\ Page \in [AllKeys -> 1..Pages]
  /\ ForeignKeys \subseteq AllKeys
  /\ MaxFaults \in Nat

VARIABLES
  bucket,    \* what S3 holds under the prefix, and what a head reports of it
  inflight,  \* puts whose process is gone and which S3 may still apply
  bundle,    \* the local bundle each publisher was given, by its manifest
  pc,        \* where each run is
  page,      \* the listing page it asks for next
  listed,    \* `present`: the keys the listing named
  found,     \* preflight.kind = 'present'
  todo,      \* listed objects reconcile has still to head
  missing,   \* objects to upload: `missing`, and later the rest of the queue
  clash,     \* `mismatched` is not empty
  cur,       \* the key `upload` is at, once a put of it has been answered
  outcome,   \* how the publisher's last run ended
  clean,     \* history: no call of this run was refused, conflicted or lost
  faults     \* how many faults there have been

run  == <<pc, page, listed, found, todo, missing, clash, cur, outcome>>
vars == <<bucket, inflight, bundle, pc, page, listed, found, todo, missing,
          clash, cur, outcome, clean, faults>>

\* The digest publisher p expects at key k, the manifest's included.
Want(p, k) == IF k = MK THEN bundle[p] ELSE Objects[bundle[p]][k]

\* Mutant of Stray: the manifest's own objects count as unknown leftovers.
StrayNamed(p) == listed[p] \ {MK}

\* Keys under the prefix that the manifest does not name.
Stray(p) == listed[p] \ (Names(bundle[p]) \cup {MK})

\* Mutant of Targets: the manifest goes up in any order.
TargetsUnordered(p) == missing[p] \cup {MK}

\* What `upload` may be called with next: any object left, else the manifest.
Targets(p) == IF missing[p] = {} THEN {MK} ELSE missing[p]

\* Mutant of MorePages: one page too many.
MorePagesOffByOne(p) == page[p] <= Pages

\* The page that was read came with a continuation token.
MorePages(p) == page[p] < Pages

Outcomes == {"none", "published", "refused", "disagrees", "failed"}
-----------------------------------------------------------------------------
Init ==
  /\ bucket = [k \in AllKeys |-> Absent]
  /\ inflight = {}
  /\ bundle \in [Publishers -> Manifests]
  /\ pc = [p \in Publishers |-> "idle"]
  /\ page = [p \in Publishers |-> 1]
  /\ listed = [p \in Publishers |-> {}]
  /\ found = [p \in Publishers |-> FALSE]
  /\ todo = [p \in Publishers |-> {}]
  /\ missing = [p \in Publishers |-> {}]
  /\ clash = [p \in Publishers |-> FALSE]
  /\ cur = [p \in Publishers |-> MK]
  /\ outcome = [p \in Publishers |-> "none"]
  /\ clean = [p \in Publishers |-> TRUE]
  /\ faults = 0

\* The process of p is over and `how` is what its report says.  The locals die
\* with the process.
Forget(p, how) ==
  /\ pc' = [pc EXCEPT ![p] = "idle"]
  /\ outcome' = [outcome EXCEPT ![p] = how]
  /\ page' = [page EXCEPT ![p] = 1]
  /\ listed' = [listed EXCEPT ![p] = {}]
  /\ found' = [found EXCEPT ![p] = FALSE]
  /\ todo' = [todo EXCEPT ![p] = {}]
  /\ missing' = [missing EXCEPT ![p] = {}]
  /\ clash' = [clash EXCEPT ![p] = FALSE]
  /\ cur' = [cur EXCEPT ![p] = MK]

Fault(p) ==
  /\ faults < MaxFaults
  /\ faults' = faults + 1
  /\ clean' = [clean EXCEPT ![p] = FALSE]

NoFault == UNCHANGED <<clean, faults>>
-----------------------------------------------------------------------------
\* A run starts: the local bundle verified and every key has a media type.
Start(p) ==
  /\ pc[p] = "idle"
  /\ pc' = [pc EXCEPT ![p] = "list"]
  /\ outcome' = [outcome EXCEPT ![p] = "none"]
  /\ clean' = [clean EXCEPT ![p] = TRUE]
  /\ UNCHANGED <<bucket, inflight, bundle, page, listed, found, todo, missing,
                 clash, cur, faults>>

\* One page of list-objects-v2.  The pages are separate requests, so keys that
\* appear behind the token while the walk goes on are not seen.
ListPage(p) ==
  /\ pc[p] = "list"
  /\ LET named == {k \in AllKeys : Page[k] = page[p] /\ bucket[k] # Absent}
         all   == listed[p] \cup named
     IN /\ listed' = [listed EXCEPT ![p] = all]
        /\ IF MorePages(p)
           THEN /\ page' = [page EXCEPT ![p] = @ + 1]
                /\ UNCHANGED <<pc, todo, missing>>
           ELSE /\ pc' = [pc EXCEPT ![p] =
                            IF MK \in all THEN "preflight" ELSE "reconcile"]
                /\ todo' = [todo EXCEPT ![p] = Names(bundle[p]) \cap all]
                /\ missing' = [missing EXCEPT ![p] = Names(bundle[p]) \ all]
                /\ UNCHANGED page
  /\ UNCHANGED <<bucket, inflight, bundle, found, clash, cur, outcome>>
  /\ NoFault

\* The head of a manifest the listing named.  The same digest ends the run.
Preflight(p) ==
  /\ pc[p] = "preflight"
  /\ IF bucket[MK] = bundle[p]
     THEN Forget(p, "published")
     ELSE /\ pc' = [pc EXCEPT ![p] = "reconcile"]
          /\ found' = [found EXCEPT ![p] = bucket[MK] # Absent]
          /\ UNCHANGED <<page, listed, todo, missing, clash, cur, outcome>>
  /\ UNCHANGED <<bucket, inflight, bundle>>
  /\ NoFault

\* reconcile heads one object the listing named.
HeadObject(p, k) ==
  /\ pc[p] = "reconcile"
  /\ k \in todo[p]
  /\ todo' = [todo EXCEPT ![p] = @ \ {k}]
  /\ missing' = [missing EXCEPT ![p] = IF bucket[k] = Absent THEN @ \cup {k} ELSE @]
  /\ clash' = [clash EXCEPT ![p] = @ \/ bucket[k] \notin {Absent, Want(p, k)}]
  /\ UNCHANGED <<bucket, inflight, bundle, pc, page, listed, found, cur, outcome>>
  /\ NoFault

\* Mutant of Decide: content that disagrees does not stop the run.
DecideRegardless(p) ==
  /\ pc[p] = "reconcile" /\ todo[p] = {}
  /\ pc' = [pc EXCEPT ![p] = "put"]
  /\ UNCHANGED <<bucket, inflight, bundle, page, listed, found, todo, missing, clash, cur, outcome>>
  /\ NoFault

\* reconcile is done.  Disagreeing content stops the run, and so does a second
\* manifest over identical objects; anything else goes on to the upload.
Decide(p) ==
  /\ pc[p] = "reconcile"
  /\ todo[p] = {}
  /\ IF clash[p] \/ Stray(p) # {} \/ (found[p] /\ missing[p] = {})
     THEN Forget(p, "disagrees")
     ELSE /\ pc' = [pc EXCEPT ![p] = "put"]
          /\ UNCHANGED <<page, listed, found, todo, missing, clash, cur, outcome>>
  /\ UNCHANGED <<bucket, inflight, bundle>>
  /\ NoFault

\* A list, a head or a put the service refused, or a local file that is gone.
Refused(p) ==
  /\ pc[p] \in {"list", "preflight", "put", "again"} \/ (pc[p] = "reconcile" /\ todo[p] # {})
  /\ Forget(p, IF pc[p] \in {"put", "again"} THEN "failed" ELSE "refused")
  /\ Fault(p)
  /\ UNCHANGED <<bucket, inflight, bundle>>
-----------------------------------------------------------------------------
\* The keys a put of this run may carry: a fresh one, or the one to retry.
PutKeys(p) == {k \in AllKeys : \/ pc[p] = "put"   /\ k \in Targets(p)
                               \/ pc[p] = "again" /\ k = cur[p]}

\* `upload` returned true for k, and after the manifest the run is over.
Uploaded(p, k) ==
  IF k = MK
  THEN Forget(p, "published")
  ELSE /\ missing' = [missing EXCEPT ![p] = @ \ {k}]
       /\ pc' = [pc EXCEPT ![p] = "put"]
       /\ cur' = [cur EXCEPT ![p] = MK]
       /\ UNCHANGED <<page, listed, found, todo, clash, outcome>>

\* Mutant of PutOk: the put is unconditional.
PutOver(p, k) ==
  /\ k \in PutKeys(p)
  /\ bucket' = [bucket EXCEPT ![k] = Want(p, k)]
  /\ Uploaded(p, k)
  /\ UNCHANGED <<inflight, bundle>>
  /\ NoFault

\* A conditional put (--if-none-match '*') that S3 applies and answers.
PutOk(p, k) ==
  /\ k \in PutKeys(p)
  /\ bucket[k] = Absent
  /\ bucket' = [bucket EXCEPT ![k] = Want(p, k)]
  /\ Uploaded(p, k)
  /\ UNCHANGED <<inflight, bundle>>
  /\ NoFault

\* 412: the key is taken.  It may have been taken by this very put, when the
\* answer was lost and the aws CLI sent the request again by itself.
PutExists(p, k) ==
  /\ k \in PutKeys(p)
  /\ bucket' = [bucket EXCEPT ![k] = IF @ = Absent THEN Want(p, k) ELSE @]
  /\ pc' = [pc EXCEPT ![p] = "verify"]
  /\ cur' = [cur EXCEPT ![p] = k]
  /\ UNCHANGED <<inflight, bundle, page, listed, found, todo, missing, clash, outcome>>
  /\ NoFault

\* 409: two conditional writers raced.  It is retried once.
PutConflict(p, k) ==
  /\ k \in PutKeys(p)
  /\ Fault(p)
  /\ IF pc[p] = "put"
     THEN /\ pc' = [pc EXCEPT ![p] = "again"]
          /\ cur' = [cur EXCEPT ![p] = k]
          /\ UNCHANGED <<page, listed, found, todo, missing, clash, outcome>>
     ELSE Forget(p, "failed")
  /\ UNCHANGED <<bucket, inflight, bundle>>

\* The call timed out and S3 has the request: it may apply it at any later time.
PutLost(p, k) ==
  /\ k \in PutKeys(p)
  /\ inflight' = inflight \cup {<<k, Want(p, k)>>}
  /\ Forget(p, "failed")
  /\ Fault(p)
  /\ UNCHANGED <<bucket, bundle>>

\* Mutants of VerifyExisting: any 412 counts as uploaded, or none does.
VerifyNothing(p) ==
  /\ pc[p] = "verify"
  /\ Uploaded(p, cur[p])
  /\ UNCHANGED <<bucket, inflight, bundle>>
  /\ NoFault

VerifyInVain(p) ==
  /\ pc[p] = "verify"
  /\ Forget(p, "failed")
  /\ UNCHANGED <<bucket, inflight, bundle>>
  /\ NoFault

\* The head after a 412.  The same digest counts as uploaded.
VerifyExisting(p) ==
  /\ pc[p] = "verify"
  /\ IF bucket[cur[p]] = Want(p, cur[p])
     THEN Uploaded(p, cur[p])
     ELSE Forget(p, "failed")
  /\ UNCHANGED <<bucket, inflight, bundle>>
  /\ NoFault

\* The head after a 412 was refused: the run ends with "answered exists".
VerifyRefused(p) ==
  /\ pc[p] = "verify"
  /\ Forget(p, "failed")
  /\ Fault(p)
  /\ UNCHANGED <<bucket, inflight, bundle>>

\* The process dies.  A put it had issued is orphaned with it.
Crash(p) ==
  /\ pc[p] # "idle"
  /\ \/ UNCHANGED inflight
     \/ \E k \in PutKeys(p) : inflight' = inflight \cup {<<k, Want(p, k)>>}
  /\ Forget(p, "none")
  /\ Fault(p)
  /\ UNCHANGED <<bucket, bundle>>
-----------------------------------------------------------------------------
\* S3 applies an orphaned put, under the same precondition.
Land(put) ==
  /\ put \in inflight
  /\ inflight' = inflight \ {put}
  /\ bucket' = [bucket EXCEPT ![put[1]] = IF @ = Absent THEN put[2] ELSE @]
  /\ UNCHANGED <<bundle, clean, faults>> /\ UNCHANGED run

\* Some other principal stores a key and sends no SHA-256.  The bucket policy
\* denies an unconditional put, so it can only take a free key.
ForeignPut(k) ==
  /\ bucket[k] = Absent
  /\ bucket' = [bucket EXCEPT ![k] = NoSum]
  /\ UNCHANGED <<inflight, bundle, clean, faults>> /\ UNCHANGED run

\* The operator follows the remediation of a key without a checksum: "Delete
\* it".  Every run that is going on was disturbed.
OperatorDelete(k) ==
  /\ bucket[k] = NoSum
  /\ bucket' = [bucket EXCEPT ![k] = Absent]
  /\ clean' = [p \in Publishers |-> FALSE]
  /\ UNCHANGED <<inflight, bundle, faults>> /\ UNCHANGED run

\* The calls of a run that the service answers.
Answered(p) ==
  \/ ListPage(p) \/ Preflight(p) \/ Decide(p) \/ VerifyExisting(p)
  \/ \E k \in Keys : HeadObject(p, k)
  \/ \E k \in AllKeys : PutOk(p, k) \/ PutExists(p, k)

Faulty(p) ==
  \/ Refused(p) \/ VerifyRefused(p) \/ Crash(p)
  \/ \E k \in AllKeys : PutConflict(p, k) \/ PutLost(p, k)

Environment ==
  \/ \E put \in inflight : Land(put)
  \/ \E k \in ForeignKeys : ForeignPut(k) \/ OperatorDelete(k)

Next ==
  \/ \E p \in Publishers : Start(p) \/ Answered(p) \/ Faulty(p)
  \/ Environment

\* A run is one synchronous process: it goes on until it ends.  Someone reruns
\* a publish whose bundle is not there yet.
Fairness == \A p \in Publishers : WF_vars(Start(p)) /\ WF_vars(Answered(p))

Spec == Init /\ [][Next]_vars /\ Fairness
-----------------------------------------------------------------------------
\* Nothing stored under the prefix differs from the bundle p publishes.
Agrees(p) ==
  \A k \in AllKeys : \/ bucket[k] = Absent
                     \/ k \in Names(bundle[p]) \cup {MK} /\ bucket[k] = Want(p, k)

\* Every object m names is stored with the digest m records.
Complete(m) == \A k \in Names(m) : bucket[k] = Objects[m][k]

TypeOK ==
  /\ bucket \in [AllKeys -> Contents \cup {Absent}]
  /\ inflight \subseteq AllKeys \X Contents
  /\ bundle \in [Publishers -> Manifests]
  /\ pc \in [Publishers -> {"idle", "list", "preflight", "reconcile", "put", "again", "verify"}]
  /\ page \in [Publishers -> 1..Pages]
  /\ listed \in [Publishers -> SUBSET AllKeys]
  /\ found \in [Publishers -> BOOLEAN]
  /\ todo \in [Publishers -> SUBSET Keys]
  /\ missing \in [Publishers -> SUBSET Keys]
  /\ clash \in [Publishers -> BOOLEAN]
  /\ cur \in [Publishers -> AllKeys]
  /\ outcome \in [Publishers -> Outcomes]
  /\ clean \in [Publishers -> BOOLEAN]
  /\ faults \in 0..MaxFaults

\* A reader that finds a manifest can rely on every object it names being there
\* (publish.ts: "The manifest goes last"), whatever runs race, crash or time out.
ManifestImpliesComplete ==
  bucket[MK] \in Manifests => Complete(bucket[MK])

\* A report of "published" is true: the stored manifest is this bundle's, also
\* when the run uploaded nothing or lost a race for a key.
PublishedIsStored ==
  \A p \in Publishers : outcome[p] = "published" => bucket[MK] = bundle[p]

\* A run none of whose calls was refused ends short of "published" only when
\* the prefix holds content its bundle disagrees with: no race between
\* publishers of agreeing content, no torn listing and no leftover of an
\* abandoned upload makes an undisturbed run fail.
FailureHasACause ==
  \A p \in Publishers :
    outcome[p] \in {"refused", "disagrees", "failed"} /\ clean[p] => ~Agrees(p)

\* Write-once: bytes stored with a checksum stay as they are.
WriteOnce ==
  [][\A k \in AllKeys : bucket[k] \notin {Absent, NoSum} => bucket'[k] = bucket[k]]_vars

\* A bundle that nothing in the prefix disagrees with is published in the end,
\* whatever an abandoned run has left behind.
EventuallyPublished ==
  \A p \in Publishers : <>[]Agrees(p) => <>(bucket[MK] = bundle[p])

\* The prefix, as a reader that starts at the manifest sees it.
Visible ==
  IF bucket[MK] \in Manifests
  THEN <<bucket[MK], [k \in Names(bucket[MK]) |-> bucket[k]]>>
  ELSE <<"no", "bundle">>

Store == INSTANCE BundleStore WITH store <- Visible

\* The upload implements the abstract store: readers see no bundle, then one
\* whole bundle, and never another.
ImplementsStore == Store!Spec
=============================================================================
