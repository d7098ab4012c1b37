---------------------- MODULE CandidateEvidence_proofs ----------------------
(***************************************************************************)
(* Proofs about the measurement of a candidate, for any paths, contents    *)
(* and base commits, whatever the builder edits meanwhile. The argument    *)
(* has two parts. What is collected is the finished copy, the one the      *)
(* container runs on (RunInv), so that no look at the worktree comes       *)
(* between them. And the digest binds (DigestBinds): two sets of files     *)
(* with one digest agree wherever both hold a file, because a file that    *)
(* either calls changed is in both digests with its contents, and a file   *)
(* that neither calls changed is that of the one base commit.              *)
(***************************************************************************)
EXTENDS CandidateEvidence, TLAPS

-----------------------------------------------------------------------------
(* Sets of files *)

LEMMA FilesAreFunctions ==
    ASSUME NEW f \in FileSets
    PROVE  DOMAIN f \subseteq Paths /\ f \in [DOMAIN f -> Contents]
  BY DEF FileSets

LEMMA FunctionsAreFiles ==
    ASSUME NEW S, S \subseteq Paths, NEW f \in [S -> Contents] PROVE f \in FileSets
  BY DEF FileSets

\* A set of files with one more file.
AddFile(f, p, c) == [q \in DOMAIN f \cup {p} |-> IF q = p THEN c ELSE f[q]]

LEMMA AddedFiles ==
    ASSUME NEW f \in FileSets, NEW p \in Paths, NEW c \in Contents
    PROVE  AddFile(f, p, c) \in FileSets
<1>1. DOMAIN f \subseteq Paths /\ \A q \in DOMAIN f : f[q] \in Contents
  BY FilesAreFunctions
<1>2. AddFile(f, p, c) \in [DOMAIN f \cup {p} -> Contents]
  BY <1>1 DEF AddFile
<1> QED
  BY <1>1, <1>2, FunctionsAreFiles

LEMMA NoFilesAreFiles == NoFiles \in FileSets /\ DOMAIN NoFiles = {}
<1>1. NoFiles \in [{} -> Contents]
  BY DEF NoFiles
<1> QED
  BY <1>1, FunctionsAreFiles

\* What git shows of a commit is a set of files, each as the commit holds it.
LEMMA ShownFiles ==
    ASSUME NEW commit \in Commits, NEW shown, shown \subseteq Tracked(commit)
    PROVE  /\ BaseFiles(commit, shown) \in FileSets /\ DOMAIN BaseFiles(commit, shown) = shown
           /\ \A p \in shown : BaseFiles(commit, shown)[p] = commit[p]
<1>1. shown \subseteq Paths /\ \A p \in shown : commit[p] \in Contents
  BY CommitsAssumption DEF Tracked, Trees
<1>2. BaseFiles(commit, shown) \in [shown -> Contents]
  BY <1>1 DEF BaseFiles
<1> QED
  BY <1>1, <1>2, FunctionsAreFiles DEF BaseFiles

\* compute_diff names every file that differs from the commit, and no others but those it was not
\* shown.
LEMMA ChangedFiles ==
    ASSUME NEW f \in FileSets, NEW commit \in Commits, NEW shown, shown \subseteq Tracked(commit)
    PROVE  \A p \in DOMAIN f : p \in Changed(f, BaseFiles(commit, shown)) <=>
                                  p \notin shown \/ f[p] # commit[p]
  BY ShownFiles DEF Changed

LEMMA DigestType ==
    ASSUME NEW f \in FileSets, NEW commit \in Commits, NEW base
    PROVE  /\ Changed(f, base) \subseteq DOMAIN f
           /\ Changed(f, base) \in SUBSET Paths
           /\ CandidateDigest(f, commit, base) \in Commits \X SUBSET (Paths \X Contents)
<1>1. DOMAIN f \subseteq Paths /\ \A p \in DOMAIN f : f[p] \in Contents
  BY FilesAreFunctions
<1>2. Changed(f, base) \subseteq DOMAIN f
  BY DEF Changed
<1>3. {<<p, f[p]>> : p \in Changed(f, base)} \in SUBSET (Paths \X Contents)
  BY <1>1, <1>2
<1> QED
  BY <1>1, <1>2, <1>3 DEF CandidateDigest

\* A changed file is in the digest, with its contents.
LEMMA ChangedIsBound ==
    ASSUME NEW f, NEW g, NEW c1, NEW c2, NEW b1, NEW b2,
           CandidateDigest(f, c1, b1) = CandidateDigest(g, c2, b2),
           NEW p \in Changed(f, b1)
    PROVE  p \in Changed(g, b2) /\ f[p] = g[p]
<1>1. {<<q, f[q]>> : q \in Changed(f, b1)} = {<<q, g[q]>> : q \in Changed(g, b2)}
  BY DEF CandidateDigest
<1>2. <<p, f[p]>> \in {<<q, g[q]>> : q \in Changed(g, b2)}
  BY <1>1
<1>3. PICK q \in Changed(g, b2) : <<p, f[p]>> = <<q, g[q]>>
  BY <1>2
<1> QED
  BY <1>3

\* Two candidates with one digest hold the same contents wherever both hold a file, whatever git
\* showed of the base for one and for the other.
LEMMA DigestBinds ==
    ASSUME NEW f \in FileSets, NEW g \in FileSets, NEW c1 \in Commits, NEW c2 \in Commits,
           NEW s1, NEW s2, s1 \subseteq Tracked(c1), s2 \subseteq Tracked(c2),
           CandidateDigest(f, c1, BaseFiles(c1, s1)) = CandidateDigest(g, c2, BaseFiles(c2, s2))
    PROVE  \A p \in DOMAIN f \cap DOMAIN g : f[p] = g[p]
<1> SUFFICES ASSUME NEW p \in DOMAIN f, p \in DOMAIN g PROVE f[p] = g[p]
  OBVIOUS
<1> DEFINE b1 == BaseFiles(c1, s1)
           b2 == BaseFiles(c2, s2)
<1>1. c1 = c2
  BY DEF CandidateDigest
<1>2. CASE p \in Changed(f, b1)
  BY <1>2, ChangedIsBound
<1>3. CASE p \in Changed(g, b2)
  BY <1>3, ChangedIsBound
<1>4. CASE p \notin Changed(f, b1) /\ p \notin Changed(g, b2)
  <2>1. f[p] = c1[p] /\ g[p] = c2[p]
    BY <1>4, ChangedFiles
  <2> QED
    BY <1>1, <2>1
<1> QED
  BY <1>2, <1>3, <1>4

\* A report that counts has a case that passed and none that failed.
LEMMA PassedReports ==
    ASSUME NEW cases \in SUBSET Outcome, NEW declared,
           TestsPassed([cases |-> cases, declared |-> declared])
    PROVE  "pass" \in cases /\ cases \cap {"fail", "error"} = {}
  BY DEF TestsPassed, Parses, Outcome

-----------------------------------------------------------------------------
(* The measurement under way *)

Runs == [at : Places, commit : Commits \cup {NoTree}, listed : SUBSET Paths,
         copied : FileSets, collected : FileSets, base : FileSets, baseKnown : BOOLEAN]

\* What git showed of the base of the measurement.
Shown == DOMAIN run.base

\* A measurement is of a base commit, what it has collected is its finished copy, and it goes by
\* nothing but what git showed of that commit.
RunInv ==
    /\ run \in Runs
    /\ run.at # "idle" => run.commit \in Commits
    /\ run.at \in {"collected", "ready"} =>
        run.collected = run.copied
    /\ run.at = "ready" => Shown \subseteq Tracked(run.commit) /\ run.base = BaseFiles(run.commit, Shown)
    /\ run.at # "ready" \/ ~run.baseKnown => run.base = NoFiles

TreesInv == tree \in Trees /\ index \subseteq Paths

LEMMA NotMeasuringIsRun ==
    NotMeasuring \in Runs /\ NotMeasuring.at = "idle" /\ ~NotMeasuring.baseKnown /\ NotMeasuring.base = NoFiles
  BY NoFilesAreFiles DEF NotMeasuring, Runs, Places

LEMMA StopRun == Stop => RunInv'
  BY NotMeasuringIsRun DEF Stop, RunInv

LEMMA TreesStep == TreesInv /\ [CandidateNext]_candidateVars => TreesInv'
  BY DEF TreesInv, Trees, CandidateNext, candidateVars, Begin, ListTracked, CopyFile, Collect, ReadBase,
         Recheck, VerifyCandidate, Fail, Edit, Track, Untrack

\* A copied file is one that was there, and the copy stays within the paths.
LEMMA CopyStep == ASSUME RunInv, TreesInv, NEW p \in Paths, CopyFile(p) PROVE RunInv'
<1>1. CASE Stop
  BY <1>1, StopRun
<1>2. CASE tree[p] # Gone
  <2>1. run' = [run EXCEPT !.copied = AddFile(run.copied, p, tree[p])]
    BY <1>2 DEF CopyFile, AddFile
  <2>2. AddFile(run.copied, p, tree[p]) \in FileSets
    BY <1>2, AddedFiles DEF RunInv, Runs, TreesInv, Trees
  <2>3. run.at = "copy"
    BY DEF CopyFile
  <2> QED
    BY <2>1, <2>2, <2>3 DEF RunInv, Runs
<1> QED
  BY <1>1, <1>2 DEF CopyFile

\* With the base, whatever part of it git shows, or without.
LEMMA ReadBaseStep == ASSUME RunInv, ReadBase PROVE RunInv'
<1>1. run \in Runs /\ run.at = "collected" /\ run.commit \in Commits
  BY DEF RunInv, ReadBase
<1>2. ASSUME NEW shown, shown \subseteq Tracked(run.commit), NEW known \in BOOLEAN,
             run' = [run EXCEPT !.at = "ready", !.base = BaseFiles(run.commit, shown), !.baseKnown = known],
             ~known => shown = {}
      PROVE  RunInv'
  <2> DEFINE base == BaseFiles(run.commit, shown)
  <2>1. base \in FileSets /\ DOMAIN base = shown
    BY <1>1, <1>2, ShownFiles
  <2>2. shown = {} => base = NoFiles
    BY DEF BaseFiles, NoFiles
  <2> HIDE DEF base
  <2>3. run' = [run EXCEPT !.at = "ready", !.base = base, !.baseKnown = known]
    BY <1>2 DEF base
  <2>4. /\ run' \in Runs /\ run'.at = "ready" /\ run'.base = base /\ run'.baseKnown = known
        /\ run'.commit = run.commit /\ run'.collected = run.collected /\ run'.copied = run.copied
    BY <1>1, <2>1, <2>3 DEF Runs, Places
  <2>5. Shown' = shown
    BY <2>1, <2>4 DEF Shown
  <2>6. run'.base = BaseFiles(run'.commit, Shown')
    BY <2>4, <2>5 DEF base
  <2> QED
    BY <1>1, <1>2, <2>2, <2>4, <2>5, <2>6 DEF RunInv
<1>3. CASE Proceed("ready")
  <2>1. run' = [run EXCEPT !.at = "ready"] /\ run.base = NoFiles
    BY <1>1, <1>3 DEF Proceed, RunInv
  <2>2. BaseFiles(run.commit, {}) = NoFiles
    BY DEF BaseFiles, NoFiles
  <2>3. /\ run' \in Runs /\ run'.commit = run.commit /\ run'.base = NoFiles
        /\ run'.collected = run.collected /\ run'.copied = run.copied
    BY <1>1, <2>1 DEF Runs, Places
  <2>4. Shown' = {}
    BY <2>3, NoFilesAreFiles DEF Shown
  <2> QED
    BY <1>1, <2>2, <2>3, <2>4 DEF RunInv
<1> QED
  BY <1>2, <1>3 DEF ReadBase

LEMMA RunStep == ASSUME RunInv, TreesInv, [CandidateNext]_candidateVars PROVE RunInv'
<1>1. ASSUME NEW commit \in Commits, Begin(commit) PROVE RunInv'
  <2>1. run' = [NotMeasuring EXCEPT !.at = "list", !.commit = commit]
    BY <1>1 DEF Begin
  <2> QED
    BY <2>1, NotMeasuringIsRun DEF RunInv, Runs, Places
<1>2. CASE ListTracked
  BY <1>2 DEF ListTracked, RunInv, Runs, Places, TreesInv
<1>3. ASSUME NEW p \in Paths, CopyFile(p) PROVE RunInv'
  BY <1>3, CopyStep
<1>4. CASE Collect
  <2>1. CASE Stop
    BY <2>1, StopRun
  <2>2. CASE /\ run.listed \subseteq Collectable
             /\ run' = [run EXCEPT !.at = "collected", !.collected = run.copied]
    BY <1>4, <2>2 DEF Collect, RunInv, Runs, Places
  <2> QED
    BY <1>4, <2>1, <2>2 DEF Collect
<1>5. CASE ReadBase
  BY <1>5, ReadBaseStep
<1>6. ASSUME NEW cases \in SUBSET Outcome, VerifyCandidate(cases) PROVE RunInv'
  BY <1>6, StopRun DEF VerifyCandidate
<1>7. CASE Fail
  BY <1>7, StopRun DEF Fail
<1>8. CASE UNCHANGED run
  BY <1>8 DEF RunInv, Shown
<1> QED
  BY <1>1, <1>2, <1>3, <1>4, <1>5, <1>6, <1>7, <1>8
  DEF CandidateNext, candidateVars, Recheck, Edit, Track, Untrack

-----------------------------------------------------------------------------
(* The evidence *)

\* Evidence is of the files that were mounted: its changes and its digest are theirs, and the
\* report it rests on counts.
EvidenceInv ==
    \A e \in measured :
        /\ e \in Evidence
        /\ e.shown \subseteq Tracked(e.commit) /\ (~e.diffVerified => e.shown = {})
        /\ e.changed = Changed(e.mounted, BaseFiles(e.commit, e.shown))
        /\ e.digest = CandidateDigest(e.mounted, e.commit, BaseFiles(e.commit, e.shown))
        /\ e.cases # {} => "pass" \in e.cases /\ e.cases \cap {"fail", "error"} = {}

\* What is ready to be verified or looked at again.
LEMMA ReadyRun ==
    ASSUME RunInv, run.at = "ready"
    PROVE  /\ run.copied \in FileSets /\ run.commit \in Commits /\ run.baseKnown \in BOOLEAN
           /\ run.collected = run.copied /\ Shown \in SUBSET Paths /\ Shown \subseteq Tracked(run.commit)
           /\ run.base = BaseFiles(run.commit, Shown) /\ (~run.baseKnown => Shown = {})
  BY FilesAreFunctions, NoFilesAreFiles DEF RunInv, Runs, Shown

LEMMA VerifyStep ==
    ASSUME RunInv, EvidenceInv, NEW cases \in SUBSET Outcome, VerifyCandidate(cases)
    PROVE  EvidenceInv'
<1> DEFINE e == [commit |-> run.commit, mounted |-> run.copied, diffVerified |-> run.baseKnown,
                 shown |-> Shown, changed |-> Changed(run.copied, run.base),
                 digest |-> CandidateDigest(run.copied, run.commit, run.base),
                 cases |-> cases]
<1>1. /\ run.copied \in FileSets /\ run.commit \in Commits /\ run.baseKnown \in BOOLEAN
      /\ run.collected = run.copied /\ Shown \in SUBSET Paths /\ Shown \subseteq Tracked(run.commit)
      /\ run.base = BaseFiles(run.commit, Shown) /\ (~run.baseKnown => Shown = {})
  BY ReadyRun DEF VerifyCandidate
<1>2. measured' = measured \cup {e}
  BY <1>1 DEF VerifyCandidate, Shown
<1>3. e \in Evidence
  BY <1>1, DigestType DEF Evidence
<1>4. cases # {} => "pass" \in cases /\ cases \cap {"fail", "error"} = {}
  BY PassedReports DEF VerifyCandidate
<1>5. /\ e.shown \subseteq Tracked(e.commit) /\ (~e.diffVerified => e.shown = {})
      /\ e.changed = Changed(e.mounted, BaseFiles(e.commit, e.shown))
      /\ e.digest = CandidateDigest(e.mounted, e.commit, BaseFiles(e.commit, e.shown))
      /\ e.cases # {} => "pass" \in e.cases /\ e.cases \cap {"fail", "error"} = {}
  BY <1>1, <1>4
<1> HIDE DEF e
<1> QED
  BY <1>2, <1>3, <1>5 DEF EvidenceInv

LEMMA EvidenceStep == ASSUME RunInv, EvidenceInv, [CandidateNext]_candidateVars PROVE EvidenceInv'
<1>1. ASSUME NEW cases \in SUBSET Outcome, VerifyCandidate(cases) PROVE EvidenceInv'
  BY <1>1, VerifyStep
<1>2. CASE UNCHANGED measured
  BY <1>2 DEF EvidenceInv
<1> QED
  BY <1>1, <1>2 DEF CandidateNext, candidateVars, Begin, ListTracked, CopyFile, Collect, ReadBase, Recheck,
                    Fail, Edit, Track, Untrack

\* Evidence that is kept was kept for files that agree with its own.
KeptInv == kept \subseteq FileSets \X FileSets /\ KeptEvidenceIsSame

LEMMA KeptStep ==
    ASSUME RunInv, EvidenceInv, KeptInv, [CandidateNext]_candidateVars PROVE KeptInv'
<1>1. ASSUME NEW e \in measured, Recheck(e) PROVE KeptInv'
  <2>1. /\ run.copied \in FileSets /\ run.commit \in Commits /\ Shown \subseteq Tracked(run.commit)
        /\ run.collected = run.copied /\ run.base = BaseFiles(run.commit, Shown)
    BY <1>1, ReadyRun DEF Recheck
  <2>2. /\ e.mounted \in FileSets /\ e.commit \in Commits /\ e.shown \subseteq Tracked(e.commit)
        /\ e.digest = CandidateDigest(e.mounted, e.commit, BaseFiles(e.commit, e.shown))
    BY DEF EvidenceInv, Evidence
  <2>3. CandidateDigest(e.mounted, e.commit, BaseFiles(e.commit, e.shown))
            = CandidateDigest(run.copied, run.commit, BaseFiles(run.commit, Shown))
    BY <1>1, <2>1, <2>2 DEF Recheck
  <2>4. \A p \in DOMAIN e.mounted \cap DOMAIN run.copied : e.mounted[p] = run.copied[p]
    BY <2>1, <2>2, <2>3, DigestBinds
  <2>5. kept' = kept \cup {<<e.mounted, run.copied>>}
    BY <1>1 DEF Recheck
  <2> QED
    BY <2>1, <2>2, <2>4, <2>5 DEF KeptInv, KeptEvidenceIsSame
<1>2. CASE UNCHANGED kept
  BY <1>2 DEF KeptInv, KeptEvidenceIsSame
<1> QED
  BY <1>1, <1>2 DEF CandidateNext, candidateVars, Begin, ListTracked, CopyFile, Collect, ReadBase,
                    VerifyCandidate, Fail, Edit, Track, Untrack

-----------------------------------------------------------------------------
(* The theorems *)

CandidateInv == TreesInv /\ RunInv /\ EvidenceInv /\ KeptInv

LEMMA CandidateInvHolds == CandidateSpec => []CandidateInv
<1>1. CandidateInit => CandidateInv
  BY NotMeasuringIsRun, CommitsAssumption
  DEF CandidateInit, CandidateInv, TreesInv, RunInv, EvidenceInv, KeptInv, KeptEvidenceIsSame, Tracked
<1>2. CandidateInv /\ [CandidateNext]_candidateVars => CandidateInv'
  BY TreesStep, RunStep, EvidenceStep, KeptStep DEF CandidateInv
<1> QED
  BY <1>1, <1>2, PTL DEF CandidateSpec

\* Trees, index, measurement, evidence and history hold what their comments say.
THEOREM CandidateTypeCorrect == CandidateSpec => []CandidateTypeOK
<1>1. CandidateInv => CandidateTypeOK
  BY DEF CandidateInv, TreesInv, RunInv, Runs, EvidenceInv, KeptInv, CandidateTypeOK
<1> QED
  BY <1>1, CandidateInvHolds, PTL

\* The evidence start_task keeps is about the copy the container ran on, whatever the builder
\* edits, tracks or untracks between the steps and whatever part of the base git shows: no file in
\* which that copy differs from the base commit is missing from the changed paths, any other path
\* there is of a file that was not shown, and a report that counts has a passed case and no failed
\* one.
THEOREM EvidenceOfTheCopy == CandidateSpec => []EvidenceIsOfWhatRan
<1>1. CandidateInv => EvidenceIsOfWhatRan
  <2> SUFFICES ASSUME CandidateInv, NEW e \in measured
               PROVE  LET differing == {p \in DOMAIN e.mounted : e.mounted[p] # e.commit[p]} IN
                      /\ differing \subseteq e.changed
                      /\ e.changed \subseteq differing \cup (DOMAIN e.mounted \ e.shown)
                      /\ ~e.diffVerified => e.changed = DOMAIN e.mounted
                      /\ e.cases # {} => "pass" \in e.cases /\ e.cases \cap {"fail", "error"} = {}
    BY DEF EvidenceIsOfWhatRan
  <2>1. /\ e.mounted \in FileSets /\ e.commit \in Commits
        /\ e.shown \subseteq Tracked(e.commit) /\ (~e.diffVerified => e.shown = {})
        /\ e.changed = Changed(e.mounted, BaseFiles(e.commit, e.shown))
        /\ e.cases # {} => "pass" \in e.cases /\ e.cases \cap {"fail", "error"} = {}
    BY DEF CandidateInv, EvidenceInv, Evidence
  <2>2. \A p \in DOMAIN e.mounted : p \in e.changed <=> p \notin e.shown \/ e.mounted[p] # e.commit[p]
    BY <2>1, ChangedFiles
  <2>3. e.changed \subseteq DOMAIN e.mounted
    BY <2>1 DEF Changed
  <2> QED
    BY <2>1, <2>2, <2>3
<1> QED
  BY <1>1, CandidateInvHolds, PTL

\* Evidence that a later look leaves valid is about the same contents: the digest binds them,
\* also between measurements that were shown different parts of the base.
THEOREM KeptEvidenceAgrees == CandidateSpec => []KeptEvidenceIsSame
<1>1. CandidateInv => KeptEvidenceIsSame
  BY DEF CandidateInv, KeptInv
<1> QED
  BY <1>1, CandidateInvHolds, PTL
=============================================================================
