--------------------------- MODULE BranchDelivery ---------------------------
(***************************************************************************)
(* How the tests of a task reach its branch: commit_to_branch, once per    *)
(* batch (here one class), and store_and_push at the end of a Java run     *)
(* (uta/testgen/delivery.py), the RDC publisher with its path policy       *)
(* (uta/shared/delivery.py, uta/tasks/rdc_delivery.py) and what the task   *)
(* rows are told of it (uta/tasks/accounting/git.py).                      *)
(*                                                                         *)
(* A commit is an id and the classes whose test it adds; a rebase gives it *)
(* a new id. Developers push to the same branch at any time. A path is the *)
(* sequence of its segments.                                               *)
(***************************************************************************)
EXTENDS Integers, Sequences, FiniteSets, SequencesExt

CONSTANTS
    DClasses,     \* the classes of the task
    MaxCommits,   \* bound: commits made by anyone
    Paths         \* the paths a repair may leave dirty

VARIABLES
    kind,      \* of the task: without a pipeline context, or with one and its language
    remote,    \* the remote branch, a sequence of commits
    clone,     \* the clone: the local branch, and HEAD when a rebase is in progress
    made,      \* how many commits exist
    crow,      \* the class rows
    trow,      \* the task row: status, latest_commit, remote_ref
    work,      \* where the run stands in a delivery
    refused,   \* classes whose last push was refused
    lost       \* classes whose sync_results raised (both of the current run)

dvars == <<kind, remote, clone, made, crow, trow, work, refused, lost>>

NoSha == 0
NoBatch == "none"
Resolved == {"PASS", "FAIL", "PUSH_FAILED"}
Sha(s) == IF s = <<>> THEN NoSha ELSE Last(s).id
Idle == [pc |-> "idle", cls |-> NoBatch, res |-> "none", sha |-> NoSha, tip |-> NoSha,
         final |-> FALSE, check |-> FALSE, batch |-> {}, published |-> {}, cleaned |-> {}]

DInit ==
    /\ kind \in {"plain", "rdc_java", "rdc_python"}
    /\ remote = <<>> /\ made = 0
    /\ clone = [branch |-> <<>>, rebasing |-> FALSE, detached |-> <<>>]
    /\ crow = [c \in DClasses |-> [status |-> "QUEUED", sha |-> NoSha, pushed |-> FALSE]]
    /\ trow = [status |-> "RUNNING", latest |-> NoSha, ref |-> NoSha]
    /\ work = Idle /\ refused = {} /\ lost = {}

At(pc) == work.pc = pc
\* The run goes on at pc, is done with its batch, or is over.
Goto(pc) ==
    work' = CASE pc = "off"  -> [Idle EXCEPT !.pc = "off"]
              [] pc = "idle" -> [Idle EXCEPT !.batch = work.batch]
              [] OTHER       -> [work EXCEPT !.pc = pc, !.published = {}, !.cleaned = {}]
Rdc == kind # "plain"
Rows == <<crow, trow>>
Git == <<remote, clone, made>>
CurrentHead == IF clone.rebasing THEN clone.detached ELSE clone.branch

-----------------------------------------------------------------------------
(* The path policy of a repair.                                            *)

\* In the order _cleanup_roots looks for them.
Markers == <<".sisyphus", ".uta_cache", ".uta_reports", ".tmp_train_server_test",
             "target", "build", ".gradle", "mutants">>
DotNames == {".sisyphus", ".uta_cache", ".uta_reports", ".tmp_train_server_test",
             ".gradle", ".coverage", ".uta_summary.md"}
TestFileNames == {"conftest.py", "test_x.py", "x_test.py"}
Segments(p) == {p[i] : i \in DOMAIN p}

IsIgnored(p) ==
    \/ Segments(p) \cap ToSet(Markers) # {}
    \/ p \in {<<".coverage">>, <<".uta_summary.md">>, <<"opencode.json">>}

PackageTest(p) ==
    /\ Segments(Front(p)) \cap {"test", "tests"} # {}
    /\ Last(p) \in TestFileNames
IsAllowed(p) ==
    \/ Last(p) = "pom.xml" \/ p = <<"pyproject.toml">>
    \/ /\ p[1] \notin DotNames
       /\ \/ \E i \in 1..(Len(p) - 1) : p[i] = "src" /\ p[i + 1] = "test"
          \/ p[1] \in {"tests", "test"}
          \/ PackageTest(p)

\* What the workspace policies of the two languages take for a test and for
\* a configuration file of a repair.
TestArtifact(p) ==
    /\ p[1] \notin DotNames
    /\ \/ \E i \in 1..(Len(p) - 2) : p[i] = "src" /\ p[i + 1] = "test"
       \/ /\ Segments(Front(p)) \cap {"test", "tests", "x_test"} # {}
          /\ Last(p) \in TestFileNames \ {"conftest.py"}
RepairConfig(p) == Last(p) = "pom.xml" \/ p = <<"pyproject.toml">>

\* The tests this run made dirty, other than those it found dirty.
Authored(changed, before) == {p \in changed \ before : TestArtifact(p)}

\* The paths a repair asks to publish: its targets' own tests, configuration
\* files, and every other test it authored.
Requested(changed, before, own) ==
    own \cup {p \in changed : RepairConfig(p)} \cup Authored(changed, before)

\* Up to and including the first place of the first marker of the list it has.
CleanupRoot(p) ==
    IF Segments(p) \cap ToSet(Markers) = {} THEN p
    ELSE LET marker == SelectSeq(Markers, LAMBDA k : k \in Segments(p))[1]
         IN  SubSeq(p, 1, CHOOSE i \in DOMAIN p :
                 p[i] = marker /\ \A j \in 1..(i - 1) : p[j] # marker)

Committable(changed, requested) == {p \in changed : ~IsIgnored(p) /\ p \in requested}
CleanedRoots(changed, requested) ==
    {CleanupRoot(p) : p \in {q \in changed : IsIgnored(q) \/ q \notin requested}}

\* What a publication commits and cleans, for every workspace it may find: a
\* repair's, and a checkpoint's, which asks for the target's own test only.
Publication(changed, requested) ==
    [paths |-> Committable(changed, requested), cleaned |-> CleanedRoots(changed, requested)]
OwnTests == SUBSET {p \in Paths : TestArtifact(p)}
Repairs == {Publication(changed, Requested(changed, before, own)) :
               changed \in SUBSET Paths, before \in SUBSET Paths, own \in OwnTests}
Checkpoints == {Publication(changed, own) : changed \in SUBSET Paths, own \in OwnTests}

-----------------------------------------------------------------------------
(* A batch without a pipeline context.                                     *)

\* The batch of class c is delivered: its result, and whether there is
\* anything to add (a test file, the cache, a configuration change).
Begin(c) ==
    /\ At("idle") /\ crow[c].status \notin Resolved
    /\ \E res \in {"PASS", "FAIL"}, some \in BOOLEAN :
          work' = [work EXCEPT !.cls = c, !.res = res, !.sha = NoSha, !.tip = NoSha,
                      !.batch = @ \cup {c}, !.published = {}, !.cleaned = {},
                      !.pc = IF Rdc THEN "publish" ELSE IF some THEN "commit" ELSE "sync"]
    /\ refused' = refused \ {c} /\ lost' = lost \ {c}
    /\ UNCHANGED <<kind, Git, Rows>>

\* git add and git commit on whatever HEAD is; a commit may fail (unmerged
\* files, a hook), and the run goes on without a sha.
Commit ==
    /\ At("commit")
    /\ \/ /\ made < MaxCommits
          /\ LET new == [id |-> made + 1, holds |-> {work.cls}]
             IN  clone' = IF clone.rebasing
                          THEN [clone EXCEPT !.detached = Append(@, new)]
                          ELSE [clone EXCEPT !.branch = Append(@, new)]
          /\ made' = made + 1
          /\ work' = [work EXCEPT !.pc = "record", !.sha = made + 1]
       \/ Goto("record") /\ UNCHANGED <<clone, made>>
    /\ UNCHANGED <<kind, remote, Rows, refused, lost>>

\* record_commit: the class row, then the task row.
CommitRecorded(c, sha, pushed, ref) ==
    /\ crow' = [crow EXCEPT ![c].sha = sha, ![c].pushed = pushed]
    /\ trow' = [trow EXCEPT !.latest = sha, !.ref = ref]

\* Mutant: an error while recording ends the delivery without sync_results.
RecordCommitInside ==
    /\ At("record")
    /\ \/ CommitRecorded(work.cls, work.sha, FALSE, NoSha)
          /\ Goto(IF work.sha = NoSha THEN "sync" ELSE "push")
       \/ Goto("idle") /\ UNCHANGED Rows
    /\ UNCHANGED <<kind, Git, refused, lost>>

\* What goes wrong while the commit is recorded is logged, and the rows are
\* synced all the same.
RecordCommit ==
    /\ At("record")
    /\ \/ CommitRecorded(work.cls, work.sha, FALSE, NoSha)
          /\ Goto(IF work.sha = NoSha THEN "sync" ELSE "push")
       \/ Goto("sync") /\ UNCHANGED Rows
    /\ UNCHANGED <<kind, Git, refused, lost>>

FastForward == IsPrefix(remote, clone.branch)

\* git push of the branch, which is not HEAD while a rebase is in progress. A
\* push the server rejects is tried again, any other refusal is not.
Push ==
    /\ At("push")
    /\ \/ FastForward /\ remote' = clone.branch /\ Goto("verify")
       \/ Goto("retry") /\ UNCHANGED remote
       \/ Goto("refused") /\ UNCHANGED remote
    /\ UNCHANGED <<kind, clone, made, Rows, refused, lost>>

\* rebase --abort if one is in progress: the commits made since are gone.
Aborted == [clone EXCEPT !.rebasing = FALSE, !.detached = <<>>]

\* rebase --abort, checkout, pull --rebase. A conflict
\* leaves the rebase in progress. (The stash around it is left out.)
Rebase ==
    LET shared == LongestCommonPrefix({remote, clone.branch})
        mine   == SubSeq(clone.branch, Len(shared) + 1, Len(clone.branch))
        base   == Aborted
    IN  /\ At("retry")
        /\ \/ clone' = base /\ Goto("refused") /\ UNCHANGED made
           \/ FastForward /\ clone' = base /\ Goto("again") /\ UNCHANGED made
           \/ /\ ~FastForward /\ made + Len(mine) <= MaxCommits
              /\ clone' = [base EXCEPT !.branch = remote \o
                              [i \in DOMAIN mine |-> [mine[i] EXCEPT !.id = made + i]]]
              /\ made' = made + Len(mine)
              /\ Goto("again")
           \/ /\ ~FastForward /\ mine # <<>>
              /\ clone' = [base EXCEPT !.rebasing = TRUE, !.detached = remote]
              /\ Goto("refused") /\ UNCHANGED made
        /\ UNCHANGED <<kind, remote, Rows, refused, lost>>

PushAgain ==
    /\ At("again")
    /\ \/ FastForward /\ remote' = clone.branch /\ Goto("verify")
       \/ Goto("refused") /\ UNCHANGED remote
    /\ UNCHANGED <<kind, clone, made, Rows, refused, lost>>

\* Mutant: a push that succeeded is taken for the proof of what is there.
VerifyByPush ==
    /\ At("verify")
    /\ work' = [work EXCEPT !.pc = "verified", !.tip = work.sha]
    /\ UNCHANGED <<kind, Git, Rows, refused, lost>>

\* ls-remote, which may fail. A batch compares the commit it made, the end of
\* the run what HEAD is now.
Verify ==
    /\ At("verify")
    /\ \E tip \in {Sha(remote), NoSha} :
          work' = [work EXCEPT !.pc = "verified", !.tip = tip,
                      !.sha = IF work.final THEN Sha(CurrentHead) ELSE @]
    /\ UNCHANGED <<kind, Git, Rows, refused, lost>>

\* record_push_verified: a match repairs the PUSH_FAILED rows of a failed
\* task, a mismatch fails the task.
VerifiedRows ==
    LET ok      == work.sha # NoSha /\ work.sha = work.tip
        repairs == {c \in DClasses : crow[c].status = "PUSH_FAILED"}
        repair  == ok /\ trow.status = "FAILED" /\ repairs # {}
    IN  /\ trow' = [status |-> IF repair THEN "COMPLETED" ELSE IF ok THEN trow.status ELSE "FAILED",
                    latest |-> work.sha, ref |-> work.tip]
        /\ crow' = [c \in DClasses |->
              IF repair /\ c \in repairs
              THEN [status |-> "PASS", sha |-> work.sha, pushed |-> TRUE] ELSE crow[c]]

\* An error is swallowed, except under a pipeline context, where it ends the run.
RecordVerified ==
    /\ At("verified")
    /\ \/ VerifiedRows /\ Goto(IF work.final THEN "off" ELSE "pushed")
       \/ UNCHANGED Rows /\ Goto(IF work.final \/ Rdc THEN "off" ELSE "sync")
    /\ UNCHANGED <<kind, Git, refused, lost>>

RecordPushed ==
    /\ At("pushed")
    /\ \/ CommitRecorded(work.cls, work.sha, TRUE, work.tip) /\ Goto("sync")
       \/ UNCHANGED Rows /\ Goto(IF Rdc THEN "off" ELSE "sync")
    /\ UNCHANGED <<kind, Git, refused, lost>>

\* record_push_failed of the adapter hands the manager reason=, which it does
\* not take: the call raises before any row is written, and the error is
\* swallowed.
RecordRefused ==
    /\ At("refused")
    /\ Goto(IF work.final THEN "off" ELSE "sync")
    /\ refused' = IF work.final THEN refused ELSE refused \cup {work.cls}
    /\ UNCHANGED <<kind, Git, Rows, lost>>

\* sync_results of the batch: PUSH_FAILED stays, and the task's status follows
\* its classes once all are resolved.
SyncedRows ==
    LET c       == work.cls
        classes == [crow EXCEPT ![c].status = IF @ = "PUSH_FAILED" THEN @ ELSE work.res]
    IN  /\ crow' = classes
        /\ trow' = [trow EXCEPT !.status =
              IF \A k \in DClasses : classes[k].status = "PASS" THEN "COMPLETED"
              ELSE IF \A k \in DClasses : classes[k].status \in Resolved THEN "FAILED" ELSE @]

SyncBatch ==
    /\ At("sync")
    /\ \/ SyncedRows /\ UNCHANGED lost /\ Goto("idle")
       \/ /\ lost' = lost \cup {work.cls} /\ UNCHANGED Rows
          /\ Goto(IF Rdc THEN "off" ELSE "idle")
    /\ UNCHANGED <<kind, Git, refused>>

-----------------------------------------------------------------------------
(* A batch under a pipeline context.                                       *)

Unpushed(c) ==
    /\ crow[c].status \in Resolved
    /\ crow[c].sha = NoSha \/ ~crow[c].pushed

\* At the start of a Python run every resolved class without a pushed commit
\* is published again (prepare_python_batch_targets), as it is in its row.
Checkpoint(c) ==
    /\ kind = "rdc_python" /\ At("idle") /\ work.batch = {}
    /\ Unpushed(c)
    /\ work' = [Idle EXCEPT !.pc = "publish", !.cls = c, !.res = crow[c].status, !.check = TRUE]
    /\ UNCHANGED <<kind, Git, Rows, refused, lost>>

\* RdcRepairPublisher.publish. The publisher itself is agent_core's: it
\* commits the paths, cleans the rest, rebases on the remote branch, pushes
\* and verifies, finds its own earlier publication, or reports a conflict.
Publish ==
    /\ At("publish")
    /\ \E pub \in IF work.check THEN Checkpoints ELSE Repairs :
          LET paths == pub.paths
          IN  IF \E p \in paths : ~IsAllowed(p)
              THEN Goto("pushfail") /\ UNCHANGED Git
              ELSE IF paths = {} THEN Goto(IF work.check THEN "latest" ELSE "existing") /\ UNCHANGED Git
              ELSE \/ /\ made < MaxCommits /\ made' = made + 1
                      /\ remote' = Append(remote, [id |-> made + 1, holds |-> {work.cls}])
                      /\ clone' = [branch |-> remote', rebasing |-> FALSE, detached |-> <<>>]
                      /\ work' = [work EXCEPT !.pc = "verified", !.sha = made + 1, !.tip = made + 1,
                                     !.published = paths, !.cleaned = pub.cleaned]
                   \/ /\ \E i \in DOMAIN remote : remote[i].holds = {work.cls}
                      /\ work' = [work EXCEPT !.pc = "verified", !.sha = Sha(remote), !.tip = Sha(remote)]
                      /\ UNCHANGED Git
                   \/ Goto("pushfail") /\ UNCHANGED Git
    /\ UNCHANGED <<kind, Rows, refused, lost>>

\* record_push_failed with message=: the rows say so, and the error is raised.
RecordPushFailed ==
    /\ At("pushfail")
    /\ crow' = [crow EXCEPT ![work.cls].status = "PUSH_FAILED"]
    /\ trow' = [trow EXCEPT !.status = "FAILED"]
    /\ Goto("off")
    /\ UNCHANGED <<kind, Git, refused, lost>>

\* Nothing to commit: record_existing_repair_commit. The adapter has no
\* get_task, so the commit it finds is always none; the rows are synced, and a
\* second record_commit takes the push mark back.
RecordExisting ==
    /\ \/ /\ At("existing") /\ CommitRecorded(work.cls, NoSha, TRUE, NoSha)
          /\ Goto("esync") /\ UNCHANGED lost
       \/ /\ At("esync") /\ SyncedRows
          /\ Goto("skipped") /\ UNCHANGED lost
       \/ /\ At("esync") /\ UNCHANGED Rows
          /\ Goto("off") /\ lost' = lost \cup {work.cls}
       \/ /\ At("skipped") /\ CommitRecorded(work.cls, NoSha, FALSE, NoSha)
          /\ Goto("idle") /\ UNCHANGED lost
    /\ UNCHANGED <<kind, Git, refused>>

\* The same for a checkpoint, which asks the manager itself: the task's latest
\* commit, whatever it holds, is recorded as the pushed commit of the class.
RecordLatest ==
    /\ At("latest")
    /\ CommitRecorded(work.cls, trow.latest, TRUE, trow.ref)
    /\ Goto("sync")
    /\ UNCHANGED <<kind, Git, refused, lost>>

-----------------------------------------------------------------------------
(* The run around the batches, and the others on the branch.               *)

\* store_and_push: what is on the branch is pushed once more, and nobody's
\* row is synced.
StoreAndPush ==
    /\ kind # "rdc_python" /\ At("idle") /\ work.batch # {}
    /\ \A c \in DClasses : crow[c].status \in Resolved \/ c \in work.batch
    /\ work' = [work EXCEPT !.pc = "push", !.final = TRUE, !.cls = NoBatch]
    /\ UNCHANGED <<kind, Git, Rows, refused, lost>>

DeveloperPushes ==
    /\ made < MaxCommits /\ made' = made + 1
    /\ remote' = Append(remote, [id |-> made + 1, holds |-> {}])
    /\ UNCHANGED <<kind, clone, Rows, work, refused, lost>>

\* The worker dies; the clone stays as it is.
RunDies ==
    /\ ~At("off") /\ Goto("off")
    /\ UNCHANGED <<kind, Git, Rows, refused, lost>>

\* The task runs again, with or without its failed classes.
Resume ==
    /\ At("off")
    /\ work' = Idle
    /\ trow' = [trow EXCEPT !.status = "RUNNING"]
    /\ \E rerun \in BOOLEAN : crow' = [c \in DClasses |->
          IF rerun /\ crow[c].status \in {"FAIL", "PUSH_FAILED"}
          THEN [crow[c] EXCEPT !.status = "QUEUED"] ELSE crow[c]]
    /\ refused' = {} /\ lost' = {}
    /\ UNCHANGED <<kind, Git>>

DNext ==
    \/ \E c \in DClasses : Begin(c) \/ Checkpoint(c)
    \/ Commit \/ RecordCommit \/ Push \/ Rebase \/ PushAgain \/ Verify \/ RecordVerified
    \/ RecordPushed \/ RecordRefused \/ SyncBatch \/ Publish \/ RecordPushFailed
    \/ RecordExisting \/ RecordLatest \/ StoreAndPush \/ DeveloperPushes \/ RunDies \/ Resume

DSpec == DInit /\ [][DNext]_dvars

-----------------------------------------------------------------------------
(* A batch the run is done with has its class row resolved, whichever of   *)
(* commit, push, verification and recording went wrong on the way: "a push *)
(* that failed to record is not a reason to strand the unit"               *)
(* (commit_to_branch). Only sync_results itself may fail.                  *)
DeliveredIsTerminal ==
    At("idle") => \A c \in work.batch \ lost : crow[c].status \in Resolved

(* When the task row names one commit as its latest and as the remote ref, *)
(* that commit is on the remote branch, although rebases rename commits    *)
(* and others push between the push and ls-remote (record_push_verified,   *)
(* record_commit).                                                         *)
VerifiedIsRemote ==
    (trow.latest # NoSha /\ trow.latest = trow.ref) =>
        \E i \in DOMAIN remote : remote[i].id = trow.latest
=============================================================================
