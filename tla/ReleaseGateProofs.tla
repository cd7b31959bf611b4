-------------------------- MODULE ReleaseGateProofs --------------------------
(***************************************************************************)
(* What a green job says about a release, for any releases and tags, any   *)
(* number of commits and any order of pushes and jobs.                     *)
(***************************************************************************)
EXTENDS ReleaseGate, TLAPS

LEMMA StepTypeOK == TypeOK /\ [Next]_vars => TypeOK'
<1> SUFFICES ASSUME TypeOK, [Next]_vars PROVE TypeOK'
  OBVIOUS
<1> USE DEF TypeOK
<1>0. Len(commits) \in Nat
  OBVIOUS
<1>1. ASSUME NEW tree \in Tree, Commit(tree) PROVE TypeOK'
  <2>1. commits' \in Seq(Tree) /\ Len(commits') = Len(commits) + 1
    BY <1>1 DEF Commit
  <2>2. tags' \in [Tag -> 0..Len(commits')]
    BY <1>0, <1>1, <2>1 DEF Commit
  <2>3. JobType \subseteq JobType'
    BY <1>0, <2>1 DEF JobType
  <2>4. [job : JobType, passed : BOOLEAN] \subseteq [job : JobType', passed : BOOLEAN]
    BY <2>3
  <2> QED BY <1>1, <2>1, <2>2, <2>3, <2>4 DEF Commit
<1>2. CASE PushBranch
  <2>1. BranchJob(Len(commits), NoTag) \in JobType
    BY <1>0, <1>2 DEF PushBranch, BranchJob, JobType
  <2> QED BY <1>2, <2>1 DEF PushBranch, JobType
<1>3. ASSUME NEW t \in Tag, NEW c \in DOMAIN commits, PushTag(t, c) PROVE TypeOK'
  <2>1. c \in 1..Len(commits)
    OBVIOUS
  <2>2. TagJob(c, t) \in JobType
    BY <2>1 DEF TagJob, JobType
  <2>3. tags' \in [Tag -> 0..Len(commits)]
    BY <1>0, <1>3, <2>1 DEF PushTag
  <2> QED BY <1>3, <2>2, <2>3 DEF PushTag, JobType
<1>4. ASSUME NEW t \in Tag, PushAtomic(t) PROVE TypeOK'
  <2>1. Len(commits) \in 1..Len(commits)
    BY <1>0, <1>4 DEF PushAtomic
  <2>2. TagJob(Len(commits), t) \in JobType /\ BranchJob(Len(commits), t) \in JobType
    BY <2>1 DEF TagJob, BranchJob, JobType
  <2>3. tags' \in [Tag -> 0..Len(commits)]
    BY <1>0, <1>4 DEF PushAtomic
  <2> QED BY <1>4, <2>2, <2>3 DEF PushAtomic, JobType
<1>5. ASSUME NEW job \in jobs, RunJob(job) PROVE TypeOK'
  <2>1. [job |-> job, passed |-> Passes(job)] \in [job : JobType, passed : BOOLEAN]
    <3>1. job \in JobType
      OBVIOUS
    <3>2. Passes(job) \in BOOLEAN
      BY DEF Passes, SnapshotIsValid, UnreleasedUnlessTagged
    <3> QED BY <3>1, <3>2
  <2> QED BY <1>5, <2>1 DEF RunJob, JobType
<1>6. CASE UNCHANGED vars
  BY <1>6 DEF vars, JobType
<1> QED BY <1>1, <1>2, <1>3, <1>4, <1>5, <1>6 DEF Next

\* Variables keep their types: tags, jobs and verdicts are of commits that exist.
THEOREM TypeCorrect == Spec => []TypeOK
<1>1. Init => TypeOK
  BY DEF Init, TypeOK, NoCommit
<1> QED BY <1>1, StepTypeOK, PTL DEF Spec

-----------------------------------------------------------------------------
(* What a verdict was given for outlasts it: commits and tags never change, *)
(* and a job knows the tag that was pushed with it.                         *)

RefIsPushed(job) == job.ref # NoTag => job.ref \in Tag /\ tags[job.ref] = job.commit
JobIsPushed(job) == RefIsPushed(job) /\ (job.kind = "tag" => job.ref \in Tag)

PassedFor(job) ==
  /\ SnapshotIsValid(commits[job.commit])
  /\ job.kind = "tag" => commits[job.commit].version = job.ref
  /\ job.kind = "branch" => UnreleasedUnlessTagged(job.commit)

JInv == /\ \A job \in jobs : JobIsPushed(job)
        /\ \A v \in verdicts : JobIsPushed(v.job)
        /\ \A v \in verdicts : v.passed => PassedFor(v.job)

\* Nothing that was pushed or committed changes.
Kept == /\ \A c \in 1..Len(commits) : c \in 1..Len(commits') /\ commits'[c] = commits[c]
        /\ \A t \in Tag : tags[t] # NoCommit => tags'[t] = tags[t]

LEMMA StepKept == TypeOK /\ [Next]_vars => Kept
<1> SUFFICES ASSUME TypeOK, [Next]_vars PROVE Kept
  OBVIOUS
<1>1. ASSUME NEW tree \in Tree, Commit(tree) PROVE Kept
  BY <1>1 DEF TypeOK, Commit, Kept
<1>2. ASSUME NEW t \in Tag, PushAtomic(t) PROVE Kept
  BY <1>2 DEF TypeOK, PushAtomic, Kept
<1>3. ASSUME NEW t \in Tag, NEW c \in DOMAIN commits, PushTag(t, c) PROVE Kept
  BY <1>3 DEF TypeOK, PushTag, Kept
<1>4. CASE UNCHANGED <<commits, tags>>
  BY <1>4 DEF Kept
<1> QED BY <1>1, <1>2, <1>3, <1>4 DEF Next, vars, PushBranch, RunJob

\* What a job was pushed with, and what it passed for, is kept.
LEMMA PushedStays ==
  ASSUME TypeOK, Kept, NEW job \in JobType, JobIsPushed(job)
  PROVE  JobIsPushed(job)'
<1>1. job.commit \in 1..Len(commits) /\ Len(commits) \in Nat
  BY DEF JobType, TypeOK
<1> QED BY <1>1 DEF Kept, JobIsPushed, RefIsPushed, NoCommit

LEMMA PassedStays ==
  ASSUME TypeOK, Kept, NEW job \in JobType, PassedFor(job)
  PROVE  PassedFor(job)'
<1>1. job.commit \in 1..Len(commits) /\ Len(commits) \in Nat
  BY DEF JobType, TypeOK
<1>2. commits'[job.commit] = commits[job.commit]
  BY <1>1 DEF Kept
<1>3. UnreleasedUnlessTagged(job.commit) => UnreleasedUnlessTagged(job.commit)'
  BY <1>1, <1>2 DEF UnreleasedUnlessTagged, TagsAt, Kept, NoCommit
<1> QED BY <1>2, <1>3 DEF PassedFor, SnapshotIsValid

LEMMA JobKinds ==
  ASSUME NEW job \in JobType
  PROVE  job.kind \in {"branch", "tag"} /\ job.ref \in Tag \cup {NoTag}
BY DEF JobType

LEMMA NoTagIsNoTag == NoTag \notin Tag
BY ReleaseAssumption DEF Tag

LEMMA StepJInv == TypeOK /\ JInv /\ [Next]_vars => JInv'
<1> SUFFICES ASSUME TypeOK, JInv, [Next]_vars PROVE JInv'
  OBVIOUS
<1>1. Kept
  BY StepKept
<1>2. \A job \in JobType : /\ JobIsPushed(job) => JobIsPushed(job)'
                           /\ PassedFor(job) => PassedFor(job)'
  BY <1>1, PushedStays, PassedStays
<1>3. jobs \subseteq JobType /\ \A v \in verdicts : v.job \in JobType
  BY DEF TypeOK
<1>4. ASSUME verdicts' = verdicts, \A job \in jobs' \ jobs : JobIsPushed(job)'
      PROVE  JInv'
  BY <1>2, <1>3, <1>4 DEF JInv
<1>5. ASSUME NEW tree \in Tree, Commit(tree) PROVE JInv'
  BY <1>4, <1>5 DEF Commit
<1>6. CASE PushBranch
  <2>1. JobIsPushed(BranchJob(Len(commits), NoTag))'
    BY NoTagIsNoTag DEF JobIsPushed, RefIsPushed, BranchJob
  <2> QED BY <1>4, <1>6, <2>1 DEF PushBranch
<1>7. ASSUME NEW t \in Tag, NEW c \in DOMAIN commits, PushTag(t, c) PROVE JInv'
  <2>1. JobIsPushed(TagJob(c, t))'
    BY <1>7 DEF JobIsPushed, RefIsPushed, TagJob, PushTag, TypeOK
  <2> QED BY <1>4, <1>7, <2>1 DEF PushTag
<1>8. ASSUME NEW t \in Tag, PushAtomic(t) PROVE JInv'
  <2>1. tags'[t] = Len(commits)
    BY <1>8 DEF PushAtomic, TypeOK
  <2>2. JobIsPushed(TagJob(Len(commits), t))' /\ JobIsPushed(BranchJob(Len(commits), t))'
    BY <1>8, <2>1 DEF JobIsPushed, RefIsPushed, TagJob, BranchJob, PushAtomic
  <2> QED BY <1>4, <1>8, <2>2 DEF PushAtomic
<1>9. ASSUME NEW job \in jobs, RunJob(job) PROVE JInv'
  <2>1. job.kind = "branch" \/ job.kind = "tag"
    BY <1>3, JobKinds
  <2>2. Passes(job) => PassedFor(job)
    BY <2>1 DEF Passes, PassedFor
  <2>3. \A v \in verdicts' : v \in verdicts \/ (v.job = job /\ v.passed = Passes(job))
    BY <1>9 DEF RunJob
  <2>4. jobs' \subseteq jobs
    BY <1>9 DEF RunJob
  <2> QED BY <1>2, <1>3, <2>2, <2>3, <2>4 DEF JInv
<1>10. CASE UNCHANGED vars
  BY <1>4, <1>10 DEF vars
<1> QED BY <1>5, <1>6, <1>7, <1>8, <1>9, <1>10 DEF Next

THEOREM JobsAreKept == Spec => [](TypeOK /\ JInv)
<1>1. Init => JInv
  BY DEF Init, JInv
<1>2. TypeOK /\ JInv /\ [Next]_vars => JInv'
  BY StepJInv
<1> QED BY <1>1, <1>2, TypeCorrect, PTL DEF Spec

-----------------------------------------------------------------------------
\* A green job of a released version has that release's tag at its commit.
LEMMA GreenIsTagged ==
  ASSUME TypeOK, JInv, NEW j \in Green, commits[j.commit].version \in Release
  PROVE  tags[commits[j.commit].version] = j.commit
<1>1. PICK v \in verdicts : v.job = j /\ v.passed
  BY DEF Green
<1>2. j \in JobType /\ PassedFor(j) /\ JobIsPushed(j)
  BY <1>1 DEF TypeOK, JInv
<1>3. CASE j.kind = "tag"
  BY <1>2, <1>3, NoTagIsNoTag DEF PassedFor, JobIsPushed, RefIsPushed
<1>4. CASE j.kind = "branch"
  <2>1. commits[j.commit].version # Unreleased
    BY ReleaseAssumption
  <2> QED BY <1>2, <1>4, <2>1 DEF PassedFor, UnreleasedUnlessTagged, TagsAt
<1> QED BY <1>2, <1>3, <1>4, JobKinds

\* Whatever is pushed, in whatever order and however late its jobs run, a
\* released version is green for one commit only.
THEOREM ReleasesAreOneTree == Spec => []OneTreePerRelease
<1>1. TypeOK /\ JInv => OneTreePerRelease
  BY GreenIsTagged DEF OneTreePerRelease
<1> QED BY <1>1, JobsAreKept, PTL

\* A green tag names the version of its tree and of every vector in it.
THEOREM GreenTagsAreReleases == Spec => []GreenTagIsRelease
<1>1. ASSUME TypeOK, JInv, NEW j \in Green, j.kind = "tag"
      PROVE  commits[j.commit] = [version |-> j.ref, vectors |-> {j.ref}]
  <2>1. PICK v \in verdicts : v.job = j /\ v.passed
    BY DEF Green
  <2>2. j \in JobType /\ PassedFor(j)
    <3>1. v.job \in JobType
      BY <1>1 DEF TypeOK
    <3>2. PassedFor(v.job)
      BY <1>1, <2>1 DEF JInv
    <3> QED BY <2>1, <3>1, <3>2
  <2>3. commits[j.commit] \in Tree
    <3>1. j.commit \in 1..Len(commits) /\ commits \in Seq(Tree)
      BY <1>1, <2>2 DEF TypeOK, JobType
    <3> QED BY <3>1
  <2>4. commits[j.commit].version = j.ref /\ commits[j.commit].vectors = {j.ref}
    BY <1>1, <2>2 DEF PassedFor, SnapshotIsValid
  <2>5. \A tree \in Tree : tree = [version |-> tree.version, vectors |-> tree.vectors]
    BY DEF Tree
  <2> QED BY <2>3, <2>4, <2>5
<1>2. TypeOK /\ JInv => GreenTagIsRelease
  BY <1>1 DEF GreenTagIsRelease
<1> QED BY <1>2, JobsAreKept, PTL

-----------------------------------------------------------------------------
\* A red branch build had another reason than the tag that was pushed with it.
FailedFor(job) ==
  job.kind = "branch" =>
    ~SnapshotIsValid(commits[job.commit]) \/ commits[job.commit].version # job.ref

FInv == \A v \in verdicts : ~v.passed => FailedFor(v.job)

LEMMA StepFInv == TypeOK /\ JInv /\ FInv /\ [Next]_vars => FInv'
<1> SUFFICES ASSUME TypeOK, JInv, FInv, [Next]_vars, NEW v \in verdicts', ~v.passed
             PROVE  FailedFor(v.job)'
  BY DEF FInv, FailedFor
<1>1. ASSUME NEW job \in JobType, FailedFor(job) PROVE FailedFor(job)'
  <2>1. commits'[job.commit] = commits[job.commit]
    BY StepKept DEF Kept, JobType
  <2> QED BY <1>1, <2>1 DEF FailedFor, SnapshotIsValid
<1>2. CASE v \in verdicts
  BY <1>1, <1>2 DEF TypeOK, FInv
<1>3. CASE v \notin verdicts
  <2>1. PICK job \in jobs : v.job = job /\ v.passed = Passes(job)
    BY <1>3 DEF Next, vars, Commit, PushBranch, PushTag, PushAtomic, RunJob
  <2>2. job \in JobType /\ JobIsPushed(job)
    BY DEF TypeOK, JInv
  <2>3. CASE job.kind = "branch" /\ SnapshotIsValid(commits[job.commit])
    <3>1. ~UnreleasedUnlessTagged(job.commit)
      BY <2>1, <2>3 DEF Passes
    <3>2. job.ref # NoTag => job.ref \in TagsAt(job.commit)
      BY <2>2 DEF JobIsPushed, RefIsPushed, TagsAt
    <3>3. commits[job.commit].version # NoTag
      BY <2>3, ReleaseAssumption DEF SnapshotIsValid, Version, NoTag, Unreleased
    <3> QED BY <1>1, <2>1, <2>2, <3>1, <3>2, <3>3 DEF UnreleasedUnlessTagged, FailedFor
  <2>4. CASE job.kind # "branch" \/ ~SnapshotIsValid(commits[job.commit])
    BY <1>1, <2>1, <2>2, <2>4 DEF FailedFor
  <2> QED BY <2>3, <2>4
<1> QED BY <1>2, <1>3

\* The branch build of an atomic push of a release is green whenever its tag
\* build is, for the tag is there before either runs.
THEOREM AtomicPushesAgree == Spec => []AtomicPushAgrees
<1>1. Init => FInv
  BY DEF Init, FInv
<1>2. TypeOK /\ JInv /\ FInv /\ [Next]_vars => FInv'
  BY StepFInv
<1>3. ASSUME TypeOK, JInv, FInv, NEW v \in verdicts, NEW w \in verdicts,
             v.job = BranchJob(w.job.commit, w.job.ref), w.job.kind = "tag", w.passed
      PROVE  v.passed
  <2>1. PassedFor(w.job)
    BY <1>3 DEF JInv
  <2>2. v.job.kind = "branch" /\ v.job.commit = w.job.commit /\ v.job.ref = w.job.ref
    BY <1>3 DEF BranchJob
  <2>3. ~FailedFor(v.job)
    BY <1>3, <2>1, <2>2 DEF PassedFor, FailedFor
  <2> QED BY <1>3, <2>3 DEF FInv
<1>4. TypeOK /\ JInv /\ FInv => AtomicPushAgrees
  BY <1>3 DEF AtomicPushAgrees
<1> QED BY <1>1, <1>2, <1>4, JobsAreKept, PTL DEF Spec
=============================================================================
