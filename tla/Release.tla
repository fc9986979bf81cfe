------------------------------ MODULE Release ------------------------------
(***************************************************************************)
(* hexdocs build and hexdocs publish, one after the other on one machine:  *)
(* writeBundle and verifyBundle (kit/src/compile/bundle.ts) over the       *)
(* directory that Publish uploads.  The directory is commit-addressed too, *)
(* and written once: a file that is there with other bytes is refused,     *)
(* never replaced.  A build may be killed, also within a file, and a       *)
(* checkout with another kit may build the same commit into it.            *)
(*                                                                         *)
(* Only the directory of Builder is modelled; the other publishers of      *)
(* Publish were given a whole one.                                         *)
(***************************************************************************)
EXTENDS Publish

CONSTANTS Builder,    \* the publisher whose directory is built here
          Torn,       \* a file whose write was cut off
          MaxKills,   \* bound: builds killed
          MaxOthers   \* bound: builds by another kit

ASSUME ReleaseAssumption ==
  Builder \in Publishers /\ Torn \notin Contents \cup {Absent} /\ MaxKills \in Nat /\ MaxOthers \in Nat

VARIABLES dir,      \* the ast-N directory: what each key holds
          writing,  \* the manifest a build is writing, Absent when none runs
          left,     \* the objects that build has still to put
          report,   \* how the last build ended: built, refused, or nothing to say
          limits    \* what is left of MaxKills and MaxOthers

local    == <<dir, writing, left, report, limits>>
allVars  == <<vars, local>>

Mine == bundle[Builder]

\* The bytes a build of m puts at k.
Bytes(m, k) == IF k = MK THEN m ELSE Objects[m][k]

\* verifyBundle: a whole manifest, its objects whole, and no other file.
Verified(m) ==
  /\ {k \in AllKeys : dir[k] # Absent} = Names(m) \cup {MK}
  /\ \A k \in Names(m) \cup {MK} : dir[k] = Bytes(m, k)

ReleaseInit ==
  /\ Init
  /\ dir = [k \in AllKeys |-> Absent]
  /\ writing = Absent /\ left = {} /\ report = "none"
  /\ limits = [kills |-> MaxKills, others |-> MaxOthers]
-----------------------------------------------------------------------------
\* The operator gives the directory up: the last build was refused, or it was
\* not and the directory still does not verify.
Stuck == report = "refused" \/ (report = "built" /\ ~Verified(Mine))

\* `hexdocs build` of this checkout, or of one with another kit.
BuildStart(m) ==
  /\ writing = Absent
  /\ \/ m = Mine /\ ~Verified(m) /\ ~Stuck /\ UNCHANGED limits
     \/ m # Mine /\ limits.others > 0 /\ limits' = [limits EXCEPT !.others = @ - 1]
  /\ writing' = m /\ left' = Names(m) /\ report' = "none"
  /\ UNCHANGED dir

\* Mutant of NextKeys: the manifest goes in any order.
NextAnyOrder == left \cup {MK}

\* What writeBundle puts next: an object, and the manifest last.
NextKeys == IF left = {} THEN {MK} ELSE left

\* Mutant of Put: what is there is replaced.
PutReplacing(k) ==
  /\ writing # Absent /\ k \in NextKeys
  /\ dir' = [dir EXCEPT ![k] = Bytes(writing, k)]
  /\ left' = left \ {k}
  /\ writing' = IF k = MK THEN Absent ELSE writing
  /\ report' = IF k = MK THEN "built" ELSE report
  /\ UNCHANGED limits

\* put: a new file is written, the same bytes are left alone, other bytes end
\* the build.
Put(k) ==
  /\ writing # Absent /\ k \in NextKeys
  /\ IF dir[k] \in {Absent, Bytes(writing, k)}
     THEN /\ dir' = [dir EXCEPT ![k] = Bytes(writing, k)]
          /\ left' = left \ {k}
          /\ writing' = IF k = MK THEN Absent ELSE writing
          /\ report' = IF k = MK THEN "built" ELSE report
     ELSE /\ writing' = Absent /\ left' = {} /\ report' = "refused"
          /\ UNCHANGED dir
  /\ UNCHANGED limits

\* The build is killed, between two files or within one.
Kill ==
  /\ writing # Absent /\ limits.kills > 0
  /\ \/ UNCHANGED dir
     \/ \E k \in NextKeys : dir[k] = Absent /\ dir' = [dir EXCEPT ![k] = Torn]
  /\ writing' = Absent /\ left' = {} /\ report' = "none"
  /\ limits' = [limits EXCEPT !.kills = @ - 1]

\* The operator removes the output tree and starts over.
Clear ==
  /\ Stuck /\ writing = Absent /\ pc[Builder] = "idle"
  /\ dir' = [k \in AllKeys |-> Absent]
  /\ report' = "none"
  /\ UNCHANGED <<writing, left, limits>>

\* The gate of a publish: its directory verifies.
Starts(p) == p # Builder \/ Verified(Mine)

LocalStep == (\E m \in Manifests : BuildStart(m)) \/ (\E k \in AllKeys : Put(k)) \/ Kill \/ Clear

ReleaseNext ==
  \/ LocalStep /\ UNCHANGED vars
  \/ \E p \in Publishers : Starts(p) /\ Start(p) /\ UNCHANGED local
  \/ (Environment \/ \E p \in Publishers : Answered(p) \/ Faulty(p)) /\ UNCHANGED local

\* A build goes on until it ends; someone builds, clears what is stuck and
\* publishes until the bundle is there.
ReleaseFairness ==
  /\ WF_allVars(BuildStart(Mine) /\ UNCHANGED vars)
  /\ WF_allVars((\E k \in AllKeys : Put(k)) /\ UNCHANGED vars)
  /\ WF_allVars(Clear /\ UNCHANGED vars)
  /\ \A p \in Publishers :
       /\ WF_allVars(Starts(p) /\ Start(p) /\ UNCHANGED local)
       /\ WF_allVars(Answered(p) /\ UNCHANGED local)

ReleaseSpec == ReleaseInit /\ [][ReleaseNext]_allVars /\ ReleaseFairness
-----------------------------------------------------------------------------
\* A manifest on disk is whole evidence: every object it names is there with
\* its bytes, whatever builds were killed, refused or came from another kit.
DirectoryIsWhole ==
  dir[MK] \in Manifests => \A k \in Names(dir[MK]) : dir[k] = Objects[dir[MK]][k]

\* While a publish runs, the files it reads again, one by one, hold what it
\* verified, although builds go on beside it.
UploadsWhatWasVerified ==
  pc[Builder] # "idle" => \A k \in Names(Mine) \cup {MK} : dir[k] = Bytes(Mine, k)

\* EventuallyPublished of Publish holds of this specification too: a bundle is
\* published in the end, also from a directory that a killed build or another
\* kit has left unusable.
=============================================================================
