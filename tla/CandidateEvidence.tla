-------------------------- MODULE CandidateEvidence --------------------------
(***************************************************************************)
(* What start_task measures of a candidate: the tracked files of the       *)
(* worktree are copied one by one (core/worktree.py), collected from the   *)
(* copy (core/artifacts.py), compared with the base commit and, after the  *)
(* container has run on the copy, verified with its test report            *)
(* (core/verifier.py, core/junit.py). A builder may edit the worktree and  *)
(* its index at any time. ApprovedContainer models the rest of start_task. *)
(*                                                                         *)
(* A commit is its tree, a digest is what is hashed. A symbolic link and a *)
(* missing file are both Gone: neither is copied.                          *)
(***************************************************************************)
EXTENDS Integers, FiniteSets

CONSTANTS
    Paths,       \* relative paths
    Contents,    \* contents of a file
    Gone,        \* no regular file at a path
    Commits,     \* base commits, as trees
    Collectable, \* paths the collector accepts: in allowed_paths, no protected name
    Scope,       \* paths of the base whose digests are fetched
    MaxEvidence  \* bound: evidence obtained; later measurements may still look at it

Trees == [Paths -> Contents \cup {Gone}]

ASSUME CommitsAssumption == Gone \notin Contents /\ Commits \subseteq Trees

VARIABLES
    tree, index, \* the worktree, and the paths git tracks
    run,         \* the start_task under way
    measured,    \* the evidence so far
    kept         \* history: what earlier evidence was kept for, as <<its files, these files>>

candidateVars == <<tree, index, run, measured, kept>>

-----------------------------------------------------------------------------
(* Test reports *)

Outcome == {"pass", "fail", "error", "skip"}

\* A report: the outcomes of its cases, and the counts its suites declare, if any.
Report == [cases : SUBSET Outcome, declared : {"absent", "right", "wrong"}]

\* parse_junit: the declared counts agree, there is a case, and not all are skipped.
Parses(report) == report.declared # "wrong" /\ report.cases # {} /\ report.cases # {"skip"}

TestsPassed(report) == Parses(report) /\ report.cases \cap {"fail", "error"} = {}

-----------------------------------------------------------------------------
(* Diffs and digests: a set of files is a function on some of the paths *)

FileSets == UNION {[S -> Contents] : S \in SUBSET Paths}
Tracked(commit) == {p \in Paths : commit[p] # Gone}
NoFiles == [p \in {} |-> Gone]
NoTree == [p \in Paths |-> Gone]

\* compute_base_file_digests: a file that git does not show is left out.
BaseFiles(commit, shown) == [p \in shown |-> commit[p]]

\* changed_paths of compute_diff: a collected file counts as changed unless the base is known to hold the same. A
\* file that was not collected is not evidence of a deletion.
Changed(files, base) == {p \in DOMAIN files : p \notin DOMAIN base \/ base[p] # files[p]}

\* fault: the digest is of the changed paths, not of their contents
CandidateDigest_Names(files, commit, base) == <<commit, Changed(files, base)>>

\* compute_candidate_digest of compute_diff.
CandidateDigest(files, commit, base) ==
    <<commit, {<<p, files[p]>> : p \in Changed(files, base)}>>

-----------------------------------------------------------------------------
Places == {"idle", "list", "copy", "collected", "ready"}
NotMeasuring == [at |-> "idle", commit |-> NoTree, listed |-> {}, copied |-> NoFiles,
         collected |-> NoFiles, base |-> NoFiles, baseKnown |-> FALSE]

\* shown is not part of the evidence that is saved: the files of the base the changes were judged by.
Evidence == [commit : Commits, mounted : FileSets, changed : SUBSET Paths, diffVerified : BOOLEAN,
             shown : SUBSET Paths,
             digest : Commits \X SUBSET (Paths \X Contents), cases : SUBSET Outcome]

CandidateInit ==
    /\ tree \in Commits /\ index = Tracked(tree)
    /\ run = NotMeasuring
    /\ measured = {}
    /\ kept = {}

Proceed(place) == run' = [run EXCEPT !.at = place]

\* Any exception ends the measurement.
Stop == run' = NotMeasuring

Begin(commit) ==
    /\ run.at = "idle"
    /\ run' = [NotMeasuring EXCEPT !.at = "list", !.commit = commit]
    /\ UNCHANGED <<tree, index, measured, kept>>

\* git ls-files --cached
ListTracked ==
    /\ run.at = "list"
    /\ run' = [run EXCEPT !.at = "copy", !.listed = index]
    /\ UNCHANGED <<tree, index, measured, kept>>

\* The copy gets what the file holds now.
CopyFile(p) ==
    /\ run.at = "copy" /\ p \in run.listed \ DOMAIN run.copied
    /\ IF tree[p] = Gone
       THEN Stop
       ELSE run' = [run EXCEPT !.copied = [q \in DOMAIN @ \cup {p} |-> IF q = p THEN tree[p] ELSE @[q]]]
    /\ UNCHANGED <<tree, index, measured, kept>>

\* fault: the files are collected from the worktree
Collect_Worktree ==
    /\ run.at = "copy" /\ run.listed = DOMAIN run.copied
    /\ IF run.listed \subseteq Collectable
       THEN run' = [run EXCEPT !.at = "collected", !.collected =
                        [p \in {q \in run.listed : tree[q] # Gone} |-> tree[p]]]
       ELSE Stop
    /\ UNCHANGED <<tree, index, measured, kept>>

\* ArtifactCollector.collect, from the finished copy: one path it does not accept ends it.
Collect ==
    /\ run.at = "copy" /\ run.listed = DOMAIN run.copied
    /\ IF run.listed \subseteq Collectable
       THEN run' = [run EXCEPT !.at = "collected", !.collected = run.copied]
       ELSE Stop
    /\ UNCHANGED <<tree, index, measured, kept>>

\* The base may be out of reach, in a shallow clone; if it is not, each of its files is shown or not.
ReadBase ==
    /\ run.at = "collected"
    /\ \/ Proceed("ready")
       \/ \E shown \in SUBSET (Tracked(run.commit) \cap Scope) :
             run' = [run EXCEPT !.at = "ready", !.base = BaseFiles(run.commit, shown), !.baseKnown = TRUE]
    /\ UNCHANGED <<tree, index, measured, kept>>

\* invalidate_on_mutation of evidence e for what is collected now: kept if the digests agree.
Recheck(e) ==
    /\ run.at = "ready" /\ e \in measured
    /\ CandidateDigest(run.collected, run.commit, run.base) = e.digest
    /\ kept' = kept \cup {<<e.mounted, run.copied>>}
    /\ UNCHANGED <<tree, index, run, measured>>

\* The container has run on the copy with exit code 0; verify_candidate judges its report, or
\* its output when it left none.
VerifyCandidate(cases) ==
    /\ run.at = "ready" /\ Cardinality(measured) < MaxEvidence
    /\ \/ \E declared \in {"absent", "right", "wrong"} : TestsPassed([cases |-> cases, declared |-> declared])
       \/ cases = {}
    /\ measured' = measured \cup
            {[commit |-> run.commit, mounted |-> run.copied, diffVerified |-> run.baseKnown, shown |-> DOMAIN run.base,
              changed |-> Changed(run.collected, run.base),
              digest |-> CandidateDigest(run.collected, run.commit, run.base),
              cases |-> cases]}
    /\ Stop
    /\ UNCHANGED <<tree, index, kept>>

\* A refusal, a failed command, a failed test, or the end of the controller.
Fail ==
    /\ run.at # "idle" /\ Stop
    /\ UNCHANGED <<tree, index, measured, kept>>

-----------------------------------------------------------------------------
(* The builder *)

Edit(p, c) ==
    /\ tree' = [tree EXCEPT ![p] = c]
    /\ UNCHANGED <<index, run, measured, kept>>

Track(p) ==
    /\ tree[p] # Gone
    /\ index' = index \cup {p}
    /\ UNCHANGED <<tree, run, measured, kept>>

Untrack(p) ==
    /\ index' = index \ {p}
    /\ UNCHANGED <<tree, run, measured, kept>>

CandidateNext ==
    \/ \E commit \in Commits : Begin(commit)
    \/ ListTracked \/ Collect \/ ReadBase \/ Fail
    \/ \E e \in measured : Recheck(e)
    \/ \E cases \in SUBSET Outcome : VerifyCandidate(cases)
    \/ \E p \in Paths :
        \/ CopyFile(p) \/ Track(p) \/ Untrack(p)
        \/ \E c \in Contents \cup {Gone} : Edit(p, c)

CandidateSpec == CandidateInit /\ [][CandidateNext]_candidateVars

-----------------------------------------------------------------------------
(* Properties *)

\* The variables hold what their comments say.
CandidateTypeOK ==
    /\ tree \in Trees /\ index \subseteq Paths
    /\ run \in [at : Places, commit : Commits \cup {NoTree}, listed : SUBSET Paths,
                copied : FileSets, collected : FileSets, base : FileSets, baseKnown : BOOLEAN]
    /\ measured \subseteq Evidence
    /\ kept \subseteq FileSets \X FileSets

\* Evidence is about what the container was given, whatever the builder did meanwhile and however
\* much of the base could be read: every file in which the mounted copy differs from the base is
\* among the changed paths, any other file there is one that git did not show, and a report that
\* counts for it has a case that passed and none that failed.
EvidenceIsOfWhatRan ==
    \A e \in measured :
        LET differing == {p \in DOMAIN e.mounted : e.mounted[p] # e.commit[p]} IN
        /\ differing \subseteq e.changed
        /\ e.changed \subseteq differing \cup (DOMAIN e.mounted \ e.shown)
        /\ ~e.diffVerified => e.changed = DOMAIN e.mounted
        /\ e.cases # {} => "pass" \in e.cases /\ e.cases \cap {"fail", "error"} = {}

\* Evidence that is kept after a look at a later candidate is about the same contents: the
\* two agree on every file both hold, also when different parts of the base could be read for
\* them. (A file that one of them lacks is outside what the digest binds.)
KeptEvidenceIsSame ==
    \A k \in kept : \A p \in DOMAIN k[1] \cap DOMAIN k[2] : k[1][p] = k[2][p]
=============================================================================
