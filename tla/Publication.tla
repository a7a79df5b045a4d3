---------------------------- MODULE Publication ----------------------------
(***************************************************************************)
(* Publisher.publish (publisher.py) over its git and GitHub adapters       *)
(* (git_adapter.py, github_adapter.py), for one finalized envelope: a      *)
(* verified patch becomes one commit on one branch of the remote and one   *)
(* draft pull request.                                                     *)
(*                                                                         *)
(* There is no lock and no journal.  Every run looks at the checkout, the  *)
(* remote branch and the pull requests and goes on from there; a failed    *)
(* port call or read-back ends the run, and a later run starts over, of    *)
(* the same process or of a new one.  Runs overlap, die between any two    *)
(* steps, lose answers, find the checkout replaced under them, and share   *)
(* the remote with people.  Nothing in the code starts a run or prepares a *)
(* checkout: both are left to whoever calls publish.  Git and GitHub       *)
(* themselves are external: a push with a creation lease, and a pull       *)
(* request that is refused while one is open for the branch.               *)
(***************************************************************************)
EXTENDS Naturals, Sequences

CONSTANTS
    Runs,        \* publisher processes
    MaxCommits,  \* bound: the commits the runs may make
    NoCommit, Base, Foreign,
    MaxPulls,    \* bound: no pull request after this many is closed
    MaxFaults    \* bound: crashes, overlaps, late answers, replaced checkouts

ASSUME BoundsAssumption == MaxCommits \in Nat /\ MaxPulls \in Nat /\ MaxFaults \in Nat

\* Commits of the envelope: one tree, one parent, but another id each time.
Commits == 1..MaxCommits

ASSUME HeadsAssumption == {NoCommit, Base, Foreign} \cap Nat = {}

VARIABLES
    main,       \* TRUE while remote main is at the verified base
    branch,     \* head of the remote publication branch, or NoCommit
    prs,        \* every pull request there was: [head, state]
    checkout,   \* the publisher's checkout: [patched, local]
    run,        \* the runs
    made,       \* the number of commits made so far
    late,       \* a POST of a run that gave up is still on its way
    results,    \* what publish returned: the head of the pull request
    faults      \* faults so far

vars == <<main, branch, prs, checkout, run, made, late, results, faults>>
remote == <<main, branch, prs, late>>

Heads == Commits \cup {NoCommit, Base, Foreign}
PullRequests == [head : Heads, state : {"draft", "ready", "closed"}]
CleanCheckout == [patched |-> FALSE, local |-> NoCommit]

Steps == {"idle", "local", "remote", "pulls", "reconcile", "adopt", "resume",
          "branch", "commit", "push", "pushed", "open", "post", "opened",
          "barrier", "final"}

\* A run's own memory: what it read of the local and of the remote branch,
\* the commit it publishes, and whether its adapter has the patch applied.
\* saw is a history variable: the pull requests there were when it began.
RunRecords == [at : Steps, applied : BOOLEAN, local : Heads, remote : Heads,
               commit : Heads, saw : Nat]
IdleRun == [at |-> "idle", applied |-> FALSE, local |-> NoCommit,
            remote |-> NoCommit, commit |-> NoCommit, saw |-> 0]

At(r, step) == run[r].at = step
Live(r) == ~At(r, "idle")
GoTo(r, step) == run' = [run EXCEPT ![r].at = step]

\* publish returns or raises.  The process may call it again: its adapter still
\* knows whether it has applied the patch.
EndRun(r, applied) == run' = [run EXCEPT ![r] = [IdleRun EXCEPT !.applied = applied]]
GiveUp(r) == EndRun(r, run[r].applied)

Init ==
    /\ main = TRUE
    /\ branch = NoCommit
    /\ prs = <<>>
    /\ checkout = CleanCheckout
    /\ run = [r \in Runs |-> IdleRun]
    /\ made = 0
    /\ late = FALSE
    /\ results = {}
    /\ faults = 0

-----------------------------------------------------------------------------
(***************************************************************************)
(* The git adapter.                                                        *)
(***************************************************************************)

\* _require_initial_clean_base: detached at the base, nothing applied.
IsClean == checkout = CleanCheckout

\* inspect_patch succeeds: the patch is applied already by this process, and
\* still there, or the checkout is clean and it is applied now.
CanApply(r) == IF run[r].applied THEN checkout.patched ELSE IsClean
Apply == checkout' = [checkout EXCEPT !.patched = TRUE]

\* inspect_commit: the checkout's branch and HEAD are at k.
InspectsCommit(k) == checkout.local = k /\ checkout.patched

\* inspect_remote_commit: needs the patch applied; k has the verified tree.
InspectsRemote(r, k) == CanApply(r) /\ branch = k /\ k \in Commits

\* Faulty: closed pull requests are not asked for.
ListedOpen == SelectSeq(prs, LAMBDA pr : pr.state # "closed")

\* list_pull_requests returns open and closed ones alike.
Listed == prs

\* One pull request that still looks as this envelope's runs open it.
IsOurs(list) == Len(list) = 1 /\ list[1].state = "draft"
IsOursAt(list, k) == IsOurs(list) /\ list[1].head = k

-----------------------------------------------------------------------------
(***************************************************************************)
(* The reads of a run.  Each is a call of its own to git or GitHub.        *)
(***************************************************************************)

\* A new process, or the one of the run before.
Begin(r) ==
    /\ At(r, "idle")
    /\ main
    /\ \E same \in {FALSE, run[r].applied} :
         run' = [run EXCEPT ![r] = [IdleRun EXCEPT !.at = "local", !.applied = same,
                                                   !.saw = Len(prs)]]
    /\ IF \E q \in Runs : Live(q)
       THEN faults < MaxFaults /\ faults' = faults + 1
       ELSE UNCHANGED faults
    /\ UNCHANGED <<remote, checkout, made, results>>

ReadLocal(r) ==
    /\ At(r, "local")
    /\ run' = [run EXCEPT ![r].at = "remote", ![r].local = checkout.local]
    /\ UNCHANGED <<remote, checkout, made, results, faults>>

ReadRemote(r) ==
    /\ At(r, "remote")
    /\ run' = [run EXCEPT ![r].at = "pulls", ![r].remote = branch]
    /\ UNCHANGED <<remote, checkout, made, results, faults>>

\* Faulty: only a checkout that holds the commit will do.
LocalAgreesExactly(r) == run[r].local = run[r].remote

\* The local branch may be missing, at the base or at the published commit.
LocalAgrees(r) == run[r].local \in {NoCommit, Base, run[r].remote}

\* Where the three reads lead: an existing pull request, an existing remote
\* branch, an existing local commit, or nothing published yet.
ReadPulls(r) ==
    /\ At(r, "pulls")
    /\ IF Listed # <<>>
       THEN IF run[r].remote # NoCommit /\ Len(Listed) = 1
            THEN GoTo(r, "reconcile") ELSE GiveUp(r)
       ELSE CASE run[r].remote # NoCommit -> GoTo(r, "adopt")
              [] run[r].remote = NoCommit /\ run[r].local \in Commits -> GoTo(r, "resume")
              [] run[r].remote = NoCommit /\ run[r].local = NoCommit -> GoTo(r, "branch")
              [] OTHER -> GoTo(r, "commit")
    /\ UNCHANGED <<remote, checkout, made, results, faults>>

\* inspect_remote_commit applies the patch before it looks at anything else, and a
\* check that fails afterwards leaves it applied: the run goes on to a step, or not.
ReadsRemote(r, agrees, step) ==
    /\ CanApply(r)
    /\ Apply
    /\ IF InspectsRemote(r, run[r].remote) /\ agrees
       THEN run' = [run EXCEPT ![r].at = step, ![r].applied = TRUE,
                               ![r].commit = run[r].remote]
       ELSE EndRun(r, TRUE)

\* An existing pull request is read back against the verified commit.
Reconcile(r) ==
    /\ At(r, "reconcile")
    /\ \/ ReadsRemote(r, IsOursAt(Listed, run[r].remote) /\ LocalAgrees(r), "barrier")
       \/ ~CanApply(r) /\ GiveUp(r) /\ UNCHANGED checkout
    /\ UNCHANGED <<remote, made, results, faults>>

\* An existing remote branch is taken over once its tree is verified.
Adopt(r) ==
    /\ At(r, "adopt")
    /\ \/ ReadsRemote(r, LocalAgrees(r), "open")
       \/ ~CanApply(r) /\ GiveUp(r) /\ UNCHANGED checkout
    /\ UNCHANGED <<remote, made, results, faults>>

\* A commit an earlier run left in the checkout is pushed as it is.
Resume(r) ==
    /\ At(r, "resume")
    /\ IF InspectsCommit(run[r].local)
       THEN run' = [run EXCEPT ![r].at = "push", ![r].commit = run[r].local]
       ELSE GiveUp(r)
    /\ UNCHANGED <<remote, checkout, made, results, faults>>

-----------------------------------------------------------------------------
(***************************************************************************)
(* The writes, each behind its _before_..._write check and read back.      *)
(***************************************************************************)

\* _before_local_patch_write and create_branch.
CreateBranch(r) ==
    /\ At(r, "branch")
    /\ IF main /\ CanApply(r) /\ checkout.local = NoCommit
       THEN /\ checkout' = [patched |-> TRUE, local |-> Base]
            /\ run' = [run EXCEPT ![r].at = "commit", ![r].applied = TRUE]
       ELSE GiveUp(r) /\ UNCHANGED checkout
    /\ UNCHANGED <<remote, made, results, faults>>

\* _before_local_patch_write and commit: the patch is applied before the branch is
\* looked at.
Commit(r) ==
    /\ At(r, "commit")
    /\ \/ /\ main /\ CanApply(r) /\ checkout.local = Base
          /\ made < MaxCommits
          /\ made' = made + 1
          /\ checkout' = [patched |-> TRUE, local |-> made']
          /\ run' = [run EXCEPT ![r].at = "push", ![r].applied = TRUE,
                                ![r].commit = made']
       \/ /\ main /\ CanApply(r) /\ checkout.local # Base
          /\ Apply
          /\ EndRun(r, TRUE)
          /\ UNCHANGED made
       \/ /\ ~(main /\ CanApply(r))
          /\ GiveUp(r)
          /\ UNCHANGED <<checkout, made>>
    /\ UNCHANGED <<remote, results, faults>>

\* _before_push_write and push_new_branch: the lease refuses an existing ref.
Push(r) ==
    /\ At(r, "push")
    /\ IF main /\ InspectsCommit(run[r].commit) /\ branch = NoCommit
       THEN /\ branch' = run[r].commit
            /\ run' = [run EXCEPT ![r].at = "pushed", ![r].remote = run[r].commit]
       ELSE GiveUp(r) /\ UNCHANGED branch
    /\ UNCHANGED <<main, prs, late, checkout, made, results, faults>>

\* The push is read back, which needs the patch applied by this process.
ReadPushed(r) ==
    /\ At(r, "pushed")
    /\ IF main /\ InspectsRemote(r, run[r].remote)
       THEN Apply /\ run' = [run EXCEPT ![r].at = "open", ![r].applied = TRUE]
       ELSE GiveUp(r) /\ UNCHANGED checkout
    /\ UNCHANGED <<remote, made, results, faults>>

\* _before_pr_write, and the list at the head of open_draft_pull_request.
Open(r) ==
    /\ At(r, "open")
    /\ IF ~main \/ ~InspectsRemote(r, run[r].remote)
       THEN GiveUp(r)
       ELSE IF Listed = <<>> THEN GoTo(r, "post")
            ELSE IF IsOurs(Listed) THEN GoTo(r, "opened") ELSE GiveUp(r)
    /\ UNCHANGED <<remote, checkout, made, results, faults>>

\* GitHub's side of the POST.
Accepts == branch # NoCommit /\ \A n \in DOMAIN prs : prs[n].state = "closed"

\* Faulty: the draft flag is lost.
NewPullRequestOpen == prs' = Append(prs, [head |-> branch, state |-> "open"])

NewPullRequest == prs' = Append(prs, [head |-> branch, state |-> "draft"])

\* The POST succeeds, or fails and the list behind it decides.
Post(r) ==
    /\ At(r, "post")
    /\ \/ Accepts /\ NewPullRequest /\ GoTo(r, "opened")
       \/ /\ ~Accepts
          /\ IF IsOurs(Listed) THEN GoTo(r, "opened") ELSE GiveUp(r)
          /\ UNCHANGED prs
    /\ UNCHANGED <<main, branch, late, checkout, made, results, faults>>

\* The POST times out, nothing is listed yet, and the request arrives later.
PostLate(r) ==
    /\ At(r, "post")
    /\ faults < MaxFaults /\ faults' = faults + 1
    /\ late' = TRUE
    /\ GiveUp(r)
    /\ UNCHANGED <<main, branch, prs, checkout, made, results>>

ReadOpened(r) ==
    /\ At(r, "opened")
    /\ IF InspectsRemote(r, run[r].remote) /\ IsOursAt(Listed, run[r].remote)
       THEN GoTo(r, "barrier") ELSE GiveUp(r)
    /\ UNCHANGED <<remote, checkout, made, results, faults>>

\* _final_read_barrier: policy, principal, envelope, and main once more.
Barrier(r) ==
    /\ At(r, "barrier")
    /\ IF main THEN GoTo(r, "final") ELSE GiveUp(r)
    /\ UNCHANGED <<remote, checkout, made, results, faults>>

Final(r) ==
    /\ At(r, "final")
    /\ IF InspectsRemote(r, run[r].remote) /\ IsOursAt(Listed, run[r].remote)
       THEN results' = results \cup {run[r].remote}
       ELSE UNCHANGED results
    /\ GiveUp(r)
    /\ UNCHANGED <<remote, checkout, made, faults>>

Step(r) ==
    \/ ReadLocal(r) \/ ReadRemote(r) \/ ReadPulls(r)
    \/ Reconcile(r) \/ Adopt(r) \/ Resume(r)
    \/ CreateBranch(r) \/ Commit(r) \/ Push(r) \/ ReadPushed(r)
    \/ Open(r) \/ Post(r) \/ ReadOpened(r) \/ Barrier(r) \/ Final(r)

-----------------------------------------------------------------------------
(***************************************************************************)
(* Faults.  A lost answer is a step followed by Stop: the process dies.    *)
(***************************************************************************)
Stop(r) ==
    /\ Live(r)
    /\ faults < MaxFaults /\ faults' = faults + 1
    /\ EndRun(r, FALSE)
    /\ UNCHANGED <<remote, checkout, made, results>>

LatePost ==
    /\ late
    /\ late' = FALSE
    /\ IF Accepts THEN NewPullRequest ELSE UNCHANGED prs
    /\ UNCHANGED <<main, branch, checkout, run, made, results, faults>>

\* The caller provides another checkout, between two runs.
Replace ==
    /\ ~IsClean
    /\ \A r \in Runs : ~Live(r)
    /\ checkout' = CleanCheckout
    /\ UNCHANGED <<remote, run, made, results, faults>>

\* ... or replaces it under a run.
ReplaceUnderRun ==
    /\ ~IsClean
    /\ \E r \in Runs : Live(r)
    /\ faults < MaxFaults /\ faults' = faults + 1
    /\ checkout' = CleanCheckout
    /\ UNCHANGED <<remote, run, made, results>>

(***************************************************************************)
(* People: they merge elsewhere, take the branch's name, promote or close  *)
(* the pull request, and delete the branch of a closed one.                *)
(***************************************************************************)
MoveMain == main /\ main' = FALSE /\ UNCHANGED <<branch, prs>>
Occupy == branch = NoCommit /\ branch' = Foreign /\ UNCHANGED <<main, prs>>
Judge(n, state) ==
    /\ prs[n].state # "closed" /\ prs[n].state # state
    /\ state = "closed" => Len(prs) < MaxPulls
    /\ prs' = [prs EXCEPT ![n].state = state]
    /\ UNCHANGED <<main, branch>>
DeleteBranch ==
    /\ branch # NoCommit /\ prs # <<>>
    /\ \A n \in DOMAIN prs : prs[n].state = "closed"
    /\ branch' = NoCommit
    /\ UNCHANGED <<main, prs>>

People ==
    /\ MoveMain \/ Occupy \/ DeleteBranch
       \/ \E n \in DOMAIN prs, state \in {"ready", "closed"} : Judge(n, state)
    /\ UNCHANGED <<late, checkout, run, made, results, faults>>

Next ==
    \/ \E r \in Runs : Begin(r) \/ Step(r) \/ PostLate(r) \/ Stop(r)
    \/ LatePost \/ Replace \/ ReplaceUnderRun \/ People

Spec == Init /\ [][Next]_vars

\* A run that is alive goes on, and a request that was sent arrives.  Nothing more:
\* the code has no timer that starts runs and prepares no checkout anew.
Fairness ==
    /\ \A r \in Runs : WF_vars(Step(r))
    /\ WF_vars(LatePost)

FairSpec == Spec /\ Fairness

-----------------------------------------------------------------------------
(***************************************************************************)
(* Properties.                                                             *)
(***************************************************************************)

\* Every variable holds a value of its type.
PublicationTypeOK ==
    /\ main \in BOOLEAN
    /\ branch \in Commits \cup {NoCommit, Foreign}
    /\ prs \in Seq(PullRequests)
    /\ checkout \in [patched : BOOLEAN, local : Commits \cup {NoCommit, Base}]
    /\ run \in [Runs -> RunRecords]
    /\ made \in 0..MaxCommits
    /\ late \in BOOLEAN
    /\ results \subseteq Commits
    /\ faults \in 0..MaxFaults

\* However the runs overlapped, died and started over, everything publish
\* ever returned for the envelope is one commit, made by a run, and the head
\* of the first pull request.
ResultsAgree ==
    \A k \in results : k <= made /\ prs # <<>> /\ prs[1].head = k

\* A pull request that exists, even closed by a person, is the last: no run
\* that begins after it ever opens another one.
NoSecondPullRequest ==
    [][\A r \in Runs : (At(r, "post") /\ prs' # prs /\ run'[r] # run[r])
                          => run[r].saw = 0]_vars

Interference ==
    \/ ~main
    \/ branch = Foreign
    \/ \E n \in DOMAIN prs : prs[n].state # "draft"

\* A new process begins in a checkout that no run has used.
BeginsAfresh == \E r \in Runs : Begin(r) /\ IsClean /\ ~run'[r].applied

\* Crashes, lost answers, overlaps and replaced checkouts only delay it: if publish
\* is called again and again in checkouts prepared for it, some run returns the
\* published pull request, unless people interfere.
RetriesPublish == []<><<BeginsAfresh>>_vars => <>(results # {} \/ Interference)
=============================================================================
