---------------------------- MODULE ReleaseGate -----------------------------
(***************************************************************************)
(* check_spec_version.py and the workflow that runs it: which commits pass *)
(* continuous integration, for commits, tags and pushes made in any order. *)
(*                                                                         *)
(* A push starts a job; the job checks its commit out later and asks git   *)
(* for the tags that point at it then.  A tag is never moved.              *)
(***************************************************************************)
EXTENDS Integers, FiniteSets, Sequences

CONSTANTS
  Release,     \* release versions, which are the names of release tags
  OtherTag,    \* tags that are no version
  MaxCommits   \* bound: commits made

Unreleased == "unreleased"
NoTag == "none"
Malformed == "malformed"   \* a SPEC_VERSION that read_spec_version refuses

ASSUME ReleaseAssumption == {Unreleased, Malformed, NoTag} \cap (Release \cup OtherTag) = {}
ASSUME OtherTagAssumption == Release \cap OtherTag = {}
ASSUME MaxCommitsAssumption == MaxCommits \in Nat

Version == Release \cup {Unreleased}
Tag == Release \cup OtherTag
NoCommit == 0

\* A tree: SPEC_VERSION, and the specVersion values its vectors carry.
Tree == [version : Version \cup {Malformed}, vectors : SUBSET Version]

VARIABLES
  commits,   \* the commits of the branch
  tags,      \* the commit each pushed tag points at
  jobs,      \* jobs started and not run
  verdicts   \* history: [job, passed] of the jobs that ran

vars == <<commits, tags, jobs, verdicts>>

\* A job, with the tag that was pushed along with the branch, or the tag built.
BranchJob(c, t) == [kind |-> "branch", commit |-> c, ref |-> t]
TagJob(c, t) == [kind |-> "tag", commit |-> c, ref |-> t]

Init == commits = <<>> /\ tags = [t \in Tag |-> NoCommit] /\ jobs = {} /\ verdicts = {}

-----------------------------------------------------------------------------
\* read_spec_version and validate_vectors: a supported version, and every vector
\* carries it; no vectors at all are an error.
SnapshotIsValid(tree) == tree.version \in Version /\ tree.vectors = {tree.version}

\* Mutant of TagsAt: any tag of the repository will do.
TagsAnywhere(c) == {t \in Tag : tags[t] # NoCommit}

\* Mutant of TagsAt: one tag of the commit is looked at, as git describe would.
OneTagAt(c) ==
  IF \E t \in OtherTag : tags[t] = c THEN {t \in OtherTag : tags[t] = c}
  ELSE {t \in Tag : tags[t] = c}

\* head_tags: the tags that point at the checked-out commit.
TagsAt(c) == {t \in Tag : tags[t] = c}

UnreleasedUnlessTagged(c) ==
  commits[c].version = Unreleased \/ commits[c].version \in TagsAt(c)

\* Mutant of Passes: a tag build checks the snapshot only.
PassesUnnamed(job) ==
  /\ SnapshotIsValid(commits[job.commit])
  /\ job.kind = "branch" => UnreleasedUnlessTagged(job.commit)

\* The steps of the spec-version job.
Passes(job) ==
  /\ SnapshotIsValid(commits[job.commit])
  /\ IF job.kind = "tag" THEN commits[job.commit].version = job.ref
     ELSE UnreleasedUnlessTagged(job.commit)

-----------------------------------------------------------------------------
(* What maintainers and GitHub do around the check.                        *)

Commit(tree) ==
  /\ Len(commits) < MaxCommits
  /\ commits' = Append(commits, tree)
  /\ UNCHANGED <<tags, jobs, verdicts>>

\* git push of the branch: a job for its head.
PushBranch ==
  /\ commits # <<>>
  /\ jobs' = jobs \cup {BranchJob(Len(commits), NoTag)}
  /\ UNCHANGED <<commits, tags, verdicts>>

\* git push of a new tag.
PushTag(t, c) ==
  /\ tags[t] = NoCommit
  /\ tags' = [tags EXCEPT ![t] = c]
  /\ jobs' = jobs \cup {TagJob(c, t)}
  /\ UNCHANGED <<commits, verdicts>>

\* git push --atomic of the branch and a new tag on its head.
PushAtomic(t) ==
  /\ commits # <<>> /\ tags[t] = NoCommit
  /\ tags' = [tags EXCEPT ![t] = Len(commits)]
  /\ jobs' = jobs \cup {TagJob(Len(commits), t), BranchJob(Len(commits), t)}
  /\ UNCHANGED <<commits, verdicts>>

RunJob(job) ==
  /\ jobs' = jobs \ {job}
  /\ verdicts' = verdicts \cup {[job |-> job, passed |-> Passes(job)]}
  /\ UNCHANGED <<commits, tags>>

Next ==
  \/ \E tree \in Tree : Commit(tree)
  \/ PushBranch
  \/ \E t \in Tag : PushAtomic(t) \/ \E c \in DOMAIN commits : PushTag(t, c)
  \/ \E job \in jobs : RunJob(job)

Spec == Init /\ [][Next]_vars
-----------------------------------------------------------------------------
JobType == [kind : {"branch", "tag"}, commit : 1..Len(commits), ref : Tag \cup {NoTag}]

\* Variables keep their types: tags, jobs and verdicts are of commits that exist.
TypeOK ==
  /\ commits \in Seq(Tree)
  /\ tags \in [Tag -> 0..Len(commits)]
  /\ jobs \subseteq JobType
  /\ verdicts \subseteq [job : JobType, passed : BOOLEAN]

Green == {v.job : v \in {w \in verdicts : w.passed}}

\* A release is one tree: whatever is pushed in whatever order, no two commits
\* are green under the same released version, not even the commit after a release
\* that still carries its version.
OneTreePerRelease ==
  \A j, k \in Green :
    commits[j.commit].version = commits[k.commit].version /\ commits[j.commit].version \in Release
    => j.commit = k.commit

\* A green tag is a release: its name is the version of the tree and of every
\* vector in it.
GreenTagIsRelease ==
  \A j \in Green : j.kind = "tag" => commits[j.commit] = [version |-> j.ref, vectors |-> {j.ref}]

\* The two builds of an atomic push of a release agree, however late either runs:
\* a branch build that ran before its tag was there would be red for good.
AtomicPushAgrees ==
  \A v, w \in verdicts :
    /\ v.job = BranchJob(w.job.commit, w.job.ref) /\ w.job.kind = "tag"
    /\ w.passed
    => v.passed
=============================================================================
