-------------------------- MODULE PublicationProofs --------------------------
(***************************************************************************)
(* The safety of publish for any number of runs, commits and faults.  It   *)
(* rests on what the runs read back: a run acts on the pull requests it    *)
(* has listed, pull requests are only ever added, and a commit reaches the *)
(* remote only from a checkout that a run made it in.                      *)
(***************************************************************************)
EXTENDS Publication, TLAPS

\* The checkout and the remote branch hold no commit that was not made.
CommitsAreMade ==
    /\ checkout.local \in Commits => checkout.local <= made
    /\ branch \in Commits => branch <= made

\* Only a run that began before there was any pull request is on its way to
\* open one.
WritesUnlessPublished ==
    \A r \in Runs :
        /\ At(r, "resume") => run[r].local \in Commits
        /\ At(r, "push") => run[r].commit \in Commits
        /\ run[r].saw <= Len(prs)
        /\ run[r].saw > 0 => run[r].at \in {"idle", "local", "remote", "pulls", "reconcile",
                                            "barrier", "final"}

PublicationInv ==
    /\ PublicationTypeOK
    /\ CommitsAreMade
    /\ WritesUnlessPublished
    /\ ResultsAgree

-------------------------------------------------------------------------------
(***************************************************************************)
(* What a step does to a run's memory, and to the pull requests.           *)
(***************************************************************************)

\* Pull requests are only added, and keep their head.
Grows ==
    /\ prs' \in Seq(PullRequests)
    /\ Len(prs) <= Len(prs')
    /\ prs # <<>> => prs' # <<>> /\ prs'[1].head = prs[1].head

\* Run r goes on, and every other run stays as it is.
Continues(r) ==
    /\ run' \in [Runs -> RunRecords]
    /\ \A q \in Runs \ {r} : run'[q] = run[q]
    /\ run'[r].at = "resume" => run'[r].local \in Commits
    /\ run'[r].at = "push" => run'[r].commit \in Commits
    /\ run'[r].saw <= Len(prs)
    /\ run'[r].saw > 0 => run'[r].at \in {"idle", "local", "remote", "pulls", "reconcile",
                                          "barrier", "final"}

LEMMA Numbers == Commits \subseteq Nat /\ Commits \subseteq Heads
BY BoundsAssumption DEF Commits, Heads

LEMMA RunsGoOn ==
    ASSUME PublicationInv, Grows, NEW r \in Runs, Continues(r)
    PROVE  run' \in [Runs -> RunRecords] /\ WritesUnlessPublished'
<1>1. run' \in [Runs -> RunRecords]
  BY DEF Continues
<1>2. ASSUME NEW q \in Runs
      PROVE  /\ run'[q].at = "resume" => run'[q].local \in Commits
             /\ run'[q].at = "push" => run'[q].commit \in Commits
             /\ run'[q].saw <= Len(prs')
             /\ run'[q].saw > 0 => run'[q].at \in {"idle", "local", "remote", "pulls",
                                                   "reconcile", "barrier", "final"}
  <2>1. Len(prs) \in Nat /\ Len(prs') \in Nat /\ Len(prs) <= Len(prs') /\ run'[q].saw \in Nat
    BY <1>1 DEF PublicationInv, PublicationTypeOK, Grows, RunRecords
  <2>2. CASE q = r
    BY <2>1, <2>2 DEF Continues
  <2>3. CASE q # r
    <3>1. run'[q] = run[q]
      BY <2>3 DEF Continues
    <3> QED BY <2>1, <3>1 DEF PublicationInv, WritesUnlessPublished, At
  <2> QED BY <2>2, <2>3
<1> QED BY <1>1, <1>2 DEF WritesUnlessPublished, At

LEMMA RunsEnd ==
    ASSUME PublicationInv, NEW r \in Runs, NEW a \in BOOLEAN, EndRun(r, a)
    PROVE  Continues(r)
<1>1. Len(prs) \in Nat /\ run \in [Runs -> RunRecords]
  BY DEF PublicationInv, PublicationTypeOK
<1>2. PICK ended : ended = [IdleRun EXCEPT !.applied = a]
  OBVIOUS
<1>3. ended \in RunRecords /\ ended.at = "idle" /\ ended.saw = 0
  BY <1>2 DEF IdleRun, RunRecords, Heads, Steps
<1>4. run' = [run EXCEPT ![r] = ended]
  BY <1>2 DEF EndRun
<1>5. run' \in [Runs -> RunRecords] /\ run'[r] = ended /\ \A q \in Runs \ {r} : run'[q] = run[q]
  BY <1>1, <1>3, <1>4
<1> QED BY <1>1, <1>3, <1>5 DEF Continues

LEMMA RunFacts ==
    ASSUME PublicationInv, NEW r \in Runs
    PROVE  /\ run \in [Runs -> RunRecords] /\ run[r] \in RunRecords
           /\ run[r].saw \in Nat /\ run[r].saw <= Len(prs) /\ Len(prs) \in Nat
           /\ prs \in Seq(PullRequests)
BY DEF PublicationInv, PublicationTypeOK, WritesUnlessPublished, RunRecords

\* A run's memory but for what it saw when it began.
Turned(r, step, a, l, m, k) ==
    [run[r] EXCEPT !.at = step, !.applied = a, !.local = l, !.remote = m, !.commit = k]

LEMMA RunsTurn ==
    ASSUME PublicationInv, NEW r \in Runs, NEW step \in Steps, NEW a \in BOOLEAN,
           NEW l \in Heads, NEW m \in Heads, NEW k \in Heads,
           \/ run[r].saw = 0
           \/ step \in {"idle", "local", "remote", "pulls", "reconcile", "barrier", "final"},
           step = "resume" => l \in Commits, step = "push" => k \in Commits,
           run' = [run EXCEPT ![r] = Turned(r, step, a, l, m, k)]
    PROVE  Continues(r)
<1>1. /\ run \in [Runs -> RunRecords] /\ run[r] \in RunRecords
      /\ run[r].saw \in Nat /\ run[r].saw <= Len(prs)
  BY RunFacts
<1>2. PICK next : next = Turned(r, step, a, l, m, k)
  OBVIOUS
<1>3. /\ next \in RunRecords /\ next.at = step /\ next.saw = run[r].saw
      /\ next.local = l /\ next.commit = k
  BY <1>1, <1>2 DEF Turned, RunRecords
<1>4. run' \in [Runs -> RunRecords] /\ run'[r] = next /\ \A q \in Runs \ {r} : run'[q] = run[q]
  BY <1>1, <1>2, <1>3
<1> QED BY <1>1, <1>3, <1>4 DEF Continues

\* Every step of a run takes it on.
LEMMA StepContinues ==
    ASSUME PublicationInv, NEW r \in Runs, Step(r) \/ Begin(r) \/ PostLate(r) \/ Stop(r)
    PROVE  Continues(r)
<1>1. /\ run \in [Runs -> RunRecords] /\ run[r] \in RunRecords
      /\ run[r].saw \in Nat /\ run[r].saw <= Len(prs) /\ Len(prs) \in Nat
      /\ prs \in Seq(PullRequests)
  BY RunFacts
<1>2. CASE GiveUp(r) \/ EndRun(r, TRUE) \/ EndRun(r, FALSE)
  <2>1. run[r].applied \in BOOLEAN
    BY <1>1 DEF RunRecords
  <2> QED BY <1>2, <2>1, RunsEnd DEF GiveUp
<1>3. /\ branch \in Heads /\ checkout.local \in Heads /\ made + 1 \in Nat
      /\ Commits \subseteq Heads /\ Commits \subseteq Nat
  BY Numbers DEF PublicationInv, PublicationTypeOK, Heads
<1>4. run[r].saw > 0 => run[r].at \in {"idle", "local", "remote", "pulls", "reconcile",
                                        "barrier", "final"}
  BY DEF PublicationInv, WritesUnlessPublished
<1>5. CASE Begin(r)
  <2>1. PICK same \in {FALSE, run[r].applied} :
          run' = [run EXCEPT ![r] = [IdleRun EXCEPT !.at = "local", !.applied = same,
                                                    !.saw = Len(prs)]]
    BY <1>5 DEF Begin
  <2>5. PICK next : next = [IdleRun EXCEPT !.at = "local", !.applied = same, !.saw = Len(prs)]
    OBVIOUS
  <2>6. same \in BOOLEAN
    BY <1>1 DEF RunRecords
  <2>2. next \in RunRecords /\ next.at = "local" /\ next.saw = Len(prs)
    BY <1>1, <2>5, <2>6 DEF IdleRun, RunRecords, Heads, Steps
  <2>3. run' = [run EXCEPT ![r] = next]
    BY <2>1, <2>5
  <2>4. run' \in [Runs -> RunRecords] /\ run'[r] = next /\ \A q \in Runs \ {r} : run'[q] = run[q]
    BY <1>1, <2>2, <2>3
  <2> QED BY <1>1, <2>2, <2>4 DEF Continues
<1>6. CASE ReadLocal(r)
  BY <1>1, <1>3, <1>6 DEF ReadLocal, At, Continues, RunRecords, Steps
<1>7. CASE ReadRemote(r)
  BY <1>1, <1>3, <1>7 DEF ReadRemote, At, Continues, RunRecords, Steps
<1>8. CASE ReadPulls(r)
  <2>1. CASE Listed # <<>> /\ GoTo(r, "reconcile")
    BY <1>1, <2>1 DEF GoTo, Continues, RunRecords, Steps
  <2>2. CASE Listed = <<>>
    <3>1. run[r].saw = 0
      BY <1>1, <2>2 DEF Listed
    <3>2. PICK step \in {"adopt", "resume", "branch", "commit"} :
             GoTo(r, step) /\ (step = "resume" => run[r].local \in Commits)
      BY <1>8, <2>2 DEF ReadPulls
    <3> QED BY <1>1, <3>1, <3>2 DEF GoTo, Continues, RunRecords, Steps
  <2> QED BY <1>2, <1>8, <2>1, <2>2 DEF ReadPulls
<1>9. CASE Reconcile(r)
  <2>1. run[r].remote \in Heads
    BY <1>1 DEF RunRecords
  <2>2. CASE run' = [run EXCEPT ![r].at = "barrier", ![r].applied = TRUE,
                                ![r].commit = run[r].remote]
    <3>1. run' = [run EXCEPT ![r] = Turned(r, "barrier", TRUE, run[r].local, run[r].remote,
                                           run[r].remote)]
      BY <1>1, <2>2 DEF Turned, RunRecords
    <3>2. "barrier" \in Steps /\ run[r].local \in Heads
      BY <1>1 DEF Steps, RunRecords
    <3> QED BY <2>1, <3>1, <3>2, RunsTurn
  <2> QED BY <1>2, <1>9, <2>2 DEF Reconcile, ReadsRemote
<1>10. CASE Adopt(r)
  <2>1. run[r].remote \in Heads /\ run[r].saw = 0
    BY <1>1, <1>4, <1>10 DEF RunRecords, Adopt, At
  <2>2. CASE run' = [run EXCEPT ![r].at = "open", ![r].applied = TRUE,
                                ![r].commit = run[r].remote]
    <3>1. run' = [run EXCEPT ![r] = Turned(r, "open", TRUE, run[r].local, run[r].remote, run[r].remote)]
      BY <1>1, <2>2 DEF Turned, RunRecords
    <3>2. /\ "open" \in Steps /\ run[r].applied \in BOOLEAN
          /\ run[r].local \in Heads /\ run[r].remote \in Heads /\ run[r].commit \in Heads
      BY <1>1 DEF Steps, RunRecords
    <3> QED BY <1>3, <2>1, <3>1, <3>2, RunsTurn
  <2> QED BY <1>2, <1>10, <2>2 DEF Adopt, ReadsRemote
<1>11. CASE Resume(r)
  <2>1. run[r].local \in Commits /\ run[r].saw = 0
    BY <1>1, <1>4, <1>11 DEF Resume, At, PublicationInv, WritesUnlessPublished
  <2>2. CASE run' = [run EXCEPT ![r].at = "push", ![r].commit = run[r].local]
    <3>1. run' = [run EXCEPT ![r] = Turned(r, "push", run[r].applied, run[r].local, run[r].remote, run[r].local)]
      BY <1>1, <2>2 DEF Turned, RunRecords
    <3>2. /\ "push" \in Steps /\ run[r].applied \in BOOLEAN
          /\ run[r].local \in Heads /\ run[r].remote \in Heads /\ run[r].commit \in Heads
      BY <1>1 DEF Steps, RunRecords
    <3> QED BY <1>3, <2>1, <3>1, <3>2, RunsTurn
  <2> QED BY <1>2, <1>11, <2>2 DEF Resume
<1>12. CASE CreateBranch(r)
  <2>1. run[r].saw = 0
    BY <1>1, <1>4, <1>12 DEF CreateBranch, At
  <2>2. CASE run' = [run EXCEPT ![r].at = "commit", ![r].applied = TRUE]
    <3>1. run' = [run EXCEPT ![r] = Turned(r, "commit", TRUE, run[r].local, run[r].remote, run[r].commit)]
      BY <1>1, <2>2 DEF Turned, RunRecords
    <3>2. /\ "commit" \in Steps /\ run[r].applied \in BOOLEAN
          /\ run[r].local \in Heads /\ run[r].remote \in Heads /\ run[r].commit \in Heads
      BY <1>1 DEF Steps, RunRecords
    <3> QED BY <1>3, <2>1, <3>1, <3>2, RunsTurn
  <2> QED BY <1>2, <1>12, <2>2 DEF CreateBranch
<1>13. CASE Commit(r)
  <2>1. run[r].saw = 0
    BY <1>1, <1>4, <1>13 DEF Commit, At
  <2>2. CASE /\ made < MaxCommits /\ made' = made + 1
             /\ run' = [run EXCEPT ![r].at = "push", ![r].applied = TRUE, ![r].commit = made']
    <3>1. made' \in Commits
      BY <2>2, BoundsAssumption DEF Commits, PublicationInv, PublicationTypeOK
    <3>2. run' = [run EXCEPT ![r] = Turned(r, "push", TRUE, run[r].local, run[r].remote, made')]
      BY <1>1, <2>2 DEF Turned, RunRecords
    <3>3. /\ "push" \in Steps /\ run[r].applied \in BOOLEAN
          /\ run[r].local \in Heads /\ run[r].remote \in Heads /\ run[r].commit \in Heads
      BY <1>1 DEF Steps, RunRecords
    <3> QED BY <1>3, <2>1, <3>1, <3>2, <3>3, RunsTurn
  <2> QED BY <1>2, <1>13, <2>2 DEF Commit
<1>14. CASE Push(r)
  <2>1. run[r].saw = 0 /\ run[r].commit \in Heads
    BY <1>1, <1>4, <1>14 DEF Push, At, RunRecords
  <2>2. CASE run' = [run EXCEPT ![r].at = "pushed", ![r].remote = run[r].commit]
    <3>1. run' = [run EXCEPT ![r] = Turned(r, "pushed", run[r].applied, run[r].local, run[r].commit, run[r].commit)]
      BY <1>1, <2>2 DEF Turned, RunRecords
    <3>2. /\ "pushed" \in Steps /\ run[r].applied \in BOOLEAN
          /\ run[r].local \in Heads /\ run[r].remote \in Heads /\ run[r].commit \in Heads
      BY <1>1 DEF Steps, RunRecords
    <3> QED BY <1>3, <2>1, <3>1, <3>2, RunsTurn
  <2> QED BY <1>2, <1>14, <2>2 DEF Push
<1>15. CASE ReadPushed(r)
  <2>1. run[r].saw = 0
    BY <1>1, <1>4, <1>15 DEF ReadPushed, At
  <2>2. CASE run' = [run EXCEPT ![r].at = "open", ![r].applied = TRUE]
    <3>1. run' = [run EXCEPT ![r] = Turned(r, "open", TRUE, run[r].local, run[r].remote, run[r].commit)]
      BY <1>1, <2>2 DEF Turned, RunRecords
    <3>2. /\ "open" \in Steps /\ run[r].applied \in BOOLEAN
          /\ run[r].local \in Heads /\ run[r].remote \in Heads /\ run[r].commit \in Heads
      BY <1>1 DEF Steps, RunRecords
    <3> QED BY <1>3, <2>1, <3>1, <3>2, RunsTurn
  <2> QED BY <1>2, <1>15, <2>2 DEF ReadPushed
<1>16. CASE Open(r) \/ Post(r)
  <2>1. run[r].saw = 0
    BY <1>1, <1>4, <1>16 DEF Open, Post, At
  <2>2. ASSUME NEW step \in {"post", "opened"}, GoTo(r, step)
        PROVE  Continues(r)
    BY <1>1, <2>1, <2>2 DEF GoTo, Continues, RunRecords, Steps
  <2> QED BY <1>2, <1>16, <2>2 DEF Open, Post
<1>17. CASE ReadOpened(r) \/ Barrier(r)
  <2>1. ASSUME NEW step \in {"barrier", "final"}, GoTo(r, step)
        PROVE  Continues(r)
    BY <1>1, <2>1 DEF GoTo, Continues, RunRecords, Steps
  <2> QED BY <1>2, <1>17, <2>1 DEF ReadOpened, Barrier
<1>18. CASE Final(r) \/ PostLate(r) \/ Stop(r)
  BY <1>2, <1>18 DEF Final, PostLate, Stop
<1> QED BY <1>5, <1>6, <1>7, <1>8, <1>9, <1>10, <1>11, <1>12, <1>13, <1>14, <1>15, <1>16, <1>17,
           <1>18 DEF Step

LEMMA SameGrows ==
    ASSUME prs \in Seq(PullRequests), prs' = prs
    PROVE  Grows
<1>1. Len(prs) \in Nat
  OBVIOUS
<1> QED BY <1>1 DEF Grows

LEMMA OpenedGrows ==
    ASSUME PublicationInv, NewPullRequest
    PROVE  Grows
<1>1. [head |-> branch, state |-> "draft"] \in PullRequests /\ prs \in Seq(PullRequests)
  BY DEF PublicationInv, PublicationTypeOK, PullRequests, Heads
<1>2. PICK pr \in PullRequests : pr = [head |-> branch, state |-> "draft"]
  BY <1>1
<1>3. prs' = Append(prs, pr)
  BY <1>2 DEF NewPullRequest
<1>4. prs' \in Seq(PullRequests) /\ Len(prs') = Len(prs) + 1 /\ Len(prs) \in Nat
  BY <1>1, <1>3
<1>5. prs # <<>> => prs'[1] = prs[1]
  BY <1>1, <1>3
<1>6. prs' # <<>> /\ Len(prs) <= Len(prs')
  BY <1>4
<1> QED BY <1>4, <1>5, <1>6 DEF Grows

LEMMA JudgedGrows ==
    ASSUME PublicationInv, NEW n \in DOMAIN prs, NEW state \in {"ready", "closed"},
           prs' = [prs EXCEPT ![n].state = state]
    PROVE  Grows
<1>1. prs \in Seq(PullRequests) /\ prs[n] \in PullRequests /\ Len(prs) \in Nat
  BY DEF PublicationInv, PublicationTypeOK
<1>2. PICK pr : pr = [prs[n] EXCEPT !.state = state]
  OBVIOUS
<1>3. pr \in PullRequests /\ pr.head = prs[n].head
  BY <1>1, <1>2 DEF PullRequests
<1>4. prs' = [prs EXCEPT ![n] = pr]
  BY <1>2
<1>5. prs' \in Seq(PullRequests) /\ Len(prs') = Len(prs)
  BY <1>1, <1>3, <1>4
<1>6. prs # <<>> => prs' # <<>> /\ 1 \in DOMAIN prs
  BY <1>1, <1>5
<1>7. prs # <<>> => prs'[1].head = prs[1].head
  BY <1>1, <1>3, <1>4, <1>6
<1> QED BY <1>1, <1>5, <1>6, <1>7 DEF Grows

-------------------------------------------------------------------------------
(***************************************************************************)
(* The invariant.                                                          *)
(***************************************************************************)

Checkouts == [patched : BOOLEAN, local : Commits \cup {NoCommit, Base}]

\* What a step may do to the checkout, the remote and the results.
Moves ==
    /\ main' \in BOOLEAN /\ late' \in BOOLEAN /\ faults' \in 0..MaxFaults
    /\ made' \in 0..MaxCommits /\ made <= made'
    /\ checkout' \in Checkouts
    /\ checkout'.local \in {checkout.local, NoCommit, Base, made'}
    /\ \/ branch' \in {branch, NoCommit, Foreign}
       \/ branch' \in Commits /\ branch' <= made
    /\ \/ results' = results
       \/ \E k \in Commits : /\ k <= made /\ prs # <<>> /\ prs[1].head = k
                             /\ results' = results \cup {k}

LEMMA MovesKeep ==
    ASSUME PublicationInv, Grows, Moves,
           run' \in [Runs -> RunRecords], WritesUnlessPublished'
    PROVE  PublicationInv'
<1>1. /\ branch \in Commits \cup {NoCommit, Foreign} /\ results \subseteq Commits
      /\ made \in Nat /\ made' \in Nat /\ Commits \subseteq Nat /\ prs' \in Seq(PullRequests)
  BY Numbers, BoundsAssumption DEF PublicationInv, PublicationTypeOK, Grows, Moves
<1>2. NoCommit \notin Nat /\ Base \notin Nat /\ Foreign \notin Nat
  BY HeadsAssumption
<1>3. CommitsAreMade'
  <2>1. ASSUME checkout'.local \in Commits
        PROVE  checkout'.local <= made'
    <3>1. checkout'.local \in Nat /\ checkout'.local \in {checkout.local, made'}
      BY <1>1, <1>2, <2>1 DEF Moves
    <3>2. CASE checkout'.local = checkout.local
      BY <1>1, <2>1, <3>1, <3>2 DEF PublicationInv, CommitsAreMade, Moves
    <3> QED BY <1>1, <3>1, <3>2
  <2>2. ASSUME branch' \in Commits
        PROVE  branch' <= made'
    <3>1. branch' \in Nat /\ branch' <= made
      BY <1>1, <1>2, <2>2 DEF PublicationInv, CommitsAreMade, Moves
    <3> QED BY <1>1, <3>1 DEF Moves
  <2> QED BY <2>1, <2>2 DEF CommitsAreMade
<1>4. results' \subseteq Commits /\ branch' \in Commits \cup {NoCommit, Foreign}
  BY <1>1 DEF Moves
<1>5. ResultsAgree'
  <2> SUFFICES ASSUME NEW k \in results'
               PROVE  k <= made' /\ prs' # <<>> /\ prs'[1].head = k
    BY DEF ResultsAgree
  <2>1. k \in Nat /\ k <= made /\ prs # <<>> /\ prs[1].head = k
    BY <1>1, <1>4 DEF PublicationInv, ResultsAgree, Moves
  <2> QED BY <1>1, <2>1 DEF Grows, Moves
<1> QED BY <1>1, <1>3, <1>4, <1>5 DEF PublicationInv, PublicationTypeOK, Moves, Checkouts

LEMMA RunStep ==
    ASSUME PublicationInv, NEW r \in Runs, Step(r) \/ Begin(r) \/ PostLate(r) \/ Stop(r)
    PROVE  PublicationInv'
<1>1. Continues(r)
  BY StepContinues
<1>2. /\ main \in BOOLEAN /\ late \in BOOLEAN /\ faults \in 0..MaxFaults /\ made \in 0..MaxCommits
      /\ made \in Nat /\ prs \in Seq(PullRequests)
      /\ checkout \in Checkouts
      /\ branch \in Commits \cup {NoCommit, Foreign}
  BY DEF PublicationInv, PublicationTypeOK, Checkouts
<1>3. Grows => run' \in [Runs -> RunRecords] /\ WritesUnlessPublished'
  BY <1>1, RunsGoOn
<1>4. /\ [checkout EXCEPT !.patched = TRUE] \in Checkouts
      /\ [checkout EXCEPT !.patched = TRUE].local = checkout.local
  BY <1>2 DEF Checkouts
<1>5. CASE /\ UNCHANGED <<main, branch, prs, made, results>>
           /\ late' \in BOOLEAN /\ faults' \in 0..MaxFaults
           /\ \/ checkout' = checkout
              \/ Apply
  <2>1. Grows
    BY <1>2, <1>5, SameGrows
  <2>2. /\ checkout' \in Checkouts
        /\ checkout'.local = checkout.local
    BY <1>2, <1>4, <1>5 DEF Apply
  <2>9. Moves
    BY <1>2, <1>5, <2>1, <2>2 DEF Moves
  <2> QED BY <1>3, <2>1, <2>9, MovesKeep
<1>6. CASE CreateBranch(r)
  <2>1. Grows
    BY <1>2, <1>6, SameGrows DEF CreateBranch, remote
  <2>2. checkout' = checkout \/ checkout' = [patched |-> TRUE, local |-> Base]
    BY <1>6 DEF CreateBranch
  <2>3. /\ checkout' \in Checkouts
        /\ checkout'.local \in {checkout.local, Base}
    <3>1. PICK c : c = [patched |-> TRUE, local |-> Base]
      OBVIOUS
    <3>2. c \in Checkouts /\ c.local = Base
      BY <3>1 DEF Checkouts
    <3> QED BY <1>2, <2>2, <3>1, <3>2
  <2>9. Moves
    BY <1>2, <1>6, <2>1, <2>3 DEF CreateBranch, remote, Moves
  <2> QED BY <1>3, <2>1, <2>9, MovesKeep
<1>7. CASE Commit(r)
  <2>1. Grows
    BY <1>2, <1>7, SameGrows DEF Commit, remote
  <2>2. \/ checkout' = checkout /\ made' = made
        \/ Apply /\ made' = made
        \/ checkout' = [patched |-> TRUE, local |-> made'] /\ made < MaxCommits /\ made' = made + 1
    BY <1>7 DEF Commit
  <2>3. /\ made' \in 0..MaxCommits /\ made <= made'
        /\ made' # made => made' \in Commits
    BY <1>2, <2>2, BoundsAssumption DEF Commits
  <2>4. /\ checkout' \in Checkouts
        /\ checkout'.local \in {checkout.local, made'}
    <3>1. CASE /\ made' = made + 1
               /\ checkout' = [patched |-> TRUE, local |-> made']
      <4>1. made' \in Commits
        BY <1>2, <2>3, <3>1
      <4>2. PICK k \in Commits : k = made'
        BY <4>1
      <4>3. PICK c : c = [patched |-> TRUE, local |-> k]
        OBVIOUS
      <4>4. c \in Checkouts /\ c.local = k
        BY <4>3 DEF Checkouts
      <4> QED BY <3>1, <4>2, <4>3, <4>4
    <3>2. CASE Apply
      BY <1>4, <3>2 DEF Apply
    <3> QED BY <1>2, <2>2, <3>1, <3>2
  <2>9. Moves
    BY <1>2, <1>7, <2>1, <2>3, <2>4 DEF Commit, remote, Moves
  <2> QED BY <1>3, <2>1, <2>9, MovesKeep
<1>8. CASE Push(r)
  <2>1. Grows
    BY <1>2, <1>8, SameGrows DEF Push
  <2>2. branch' = branch \/ (branch' = run[r].commit /\ InspectsCommit(run[r].commit))
    BY <1>8 DEF Push
  <2>3. run[r].commit \in Commits
    BY <1>8 DEF Push, PublicationInv, WritesUnlessPublished
  <2>4. branch' = branch \/ (branch' \in Commits /\ branch' <= made)
    BY <2>2, <2>3 DEF InspectsCommit, PublicationInv, CommitsAreMade
  <2>9. Moves
    BY <1>2, <1>8, <2>1, <2>4 DEF Push, Moves
  <2> QED BY <1>3, <2>1, <2>9, MovesKeep
<1>9. CASE Post(r)
  <2>1. Grows
    BY <1>2, <1>9, SameGrows, OpenedGrows DEF Post
  <2>9. Moves
    BY <1>2, <1>9, <2>1 DEF Post, Moves
  <2> QED BY <1>3, <2>1, <2>9, MovesKeep
<1>10. CASE Final(r)
  <2>1. Grows
    BY <1>2, <1>10, SameGrows DEF Final, remote
  <2>2. \/ results' = results
        \/ /\ results' = results \cup {run[r].remote}
           /\ run[r].remote \in Commits /\ run[r].remote <= made
           /\ prs # <<>> /\ prs[1].head = run[r].remote
    BY <1>2, <1>10 DEF Final, InspectsRemote, IsOursAt, IsOurs, Listed, PublicationInv,
                       CommitsAreMade
  <2>9. Moves
    BY <1>2, <1>10, <2>1, <2>2 DEF Final, remote, Moves
  <2> QED BY <1>3, <2>1, <2>9, MovesKeep
<1>11. CASE Begin(r) \/ PostLate(r) \/ Stop(r)
  <2>2. faults' = faults \/ (faults < MaxFaults /\ faults' = faults + 1)
    BY <1>11 DEF Begin, PostLate, Stop
  <2>1. faults' \in 0..MaxFaults
    BY <1>2, <2>2, BoundsAssumption
  <2> QED BY <1>2, <1>5, <1>11, <2>1 DEF Begin, PostLate, Stop, remote
<1>12. CASE \/ ReadLocal(r) \/ ReadRemote(r) \/ ReadPulls(r) \/ Resume(r)
            \/ Open(r) \/ ReadOpened(r) \/ Barrier(r)
  BY <1>2, <1>5, <1>12
     DEF ReadLocal, ReadRemote, ReadPulls, Resume, Open, ReadOpened, Barrier, remote
<1>13. CASE Reconcile(r) \/ Adopt(r) \/ ReadPushed(r)
  BY <1>2, <1>5, <1>13 DEF Reconcile, Adopt, ReadsRemote, ReadPushed, remote
<1> QED BY <1>6, <1>7, <1>8, <1>9, <1>10, <1>11, <1>12, <1>13 DEF Step

LEMMA WorldStep ==
    ASSUME PublicationInv, LatePost \/ Replace \/ ReplaceUnderRun \/ People
    PROVE  PublicationInv'
<1>1. /\ main \in BOOLEAN /\ late \in BOOLEAN /\ faults \in 0..MaxFaults /\ made \in 0..MaxCommits
      /\ made \in Nat /\ prs \in Seq(PullRequests)
      /\ checkout \in Checkouts
      /\ branch \in Commits \cup {NoCommit, Foreign}
      /\ run \in [Runs -> RunRecords]
  BY DEF PublicationInv, PublicationTypeOK, Checkouts
<1>2. Grows
  BY <1>1, SameGrows, OpenedGrows, JudgedGrows
     DEF LatePost, Replace, ReplaceUnderRun, People, MoveMain, Occupy, Judge, DeleteBranch, remote
<1>3. run' \in [Runs -> RunRecords] /\ WritesUnlessPublished'
  <2>1. run' = run
    BY DEF LatePost, Replace, ReplaceUnderRun, People
  <2>2. ASSUME NEW q \in Runs
        PROVE  run[q].saw <= Len(prs')
    <3>1. run[q].saw \in Nat /\ run[q].saw <= Len(prs) /\ Len(prs) \in Nat
      BY <1>1, RunFacts
    <3> QED BY <1>2, <3>1 DEF Grows
  <2> QED BY <1>1, <2>1, <2>2 DEF PublicationInv, WritesUnlessPublished, At
<1>4. CleanCheckout \in Checkouts /\ CleanCheckout.local = NoCommit
  BY DEF CleanCheckout, Checkouts
<1>5. CASE LatePost
  <2>1. UNCHANGED <<main, branch, checkout, made, results, faults>> /\ late' \in BOOLEAN
    BY <1>5, Zenon DEF LatePost
  <2>9. Moves
    BY <1>1, <2>1 DEF Moves
  <2> QED BY <1>2, <1>3, <2>9, MovesKeep
<1>6. CASE Replace \/ ReplaceUnderRun
  <2>1. faults' \in 0..MaxFaults
    BY <1>1, <1>6, BoundsAssumption DEF Replace, ReplaceUnderRun
  <2>9. Moves
    BY <1>1, <1>2, <1>4, <1>6, <2>1 DEF Replace, ReplaceUnderRun, remote, Moves
  <2> QED BY <1>2, <1>3, <2>9, MovesKeep
<1>7. CASE People
  <2>1. main' \in BOOLEAN /\ branch' \in {branch, NoCommit, Foreign}
    BY <1>1, <1>7 DEF People, MoveMain, Occupy, Judge, DeleteBranch
  <2>9. Moves
    BY <1>1, <1>2, <1>7, <2>1 DEF People, Moves
  <2> QED BY <1>2, <1>3, <2>9, MovesKeep
<1> QED BY <1>5, <1>6, <1>7

LEMMA InitPublicationInv == Init => PublicationInv
<1> SUFFICES ASSUME Init  PROVE PublicationInv
  OBVIOUS
<1>1. IdleRun \in RunRecords /\ IdleRun.at = "idle" /\ IdleRun.saw = 0
  BY DEF IdleRun, RunRecords, Heads, Steps
<1>2. run \in [Runs -> RunRecords] /\ \A r \in Runs : run[r] = IdleRun
  BY <1>1 DEF Init
<1>3. prs \in Seq(PullRequests) /\ Len(prs) = 0
  BY DEF Init
<1>4. WritesUnlessPublished
  <2> SUFFICES ASSUME NEW r \in Runs
               PROVE  /\ run[r].at \notin {"resume", "push"}
                      /\ run[r].saw <= Len(prs) /\ ~(run[r].saw > 0)
    BY DEF WritesUnlessPublished, At
  <2>1. run[r].at = "idle" /\ run[r].saw = 0
    BY <1>1, <1>2
  <2> QED BY <1>3, <2>1
<1>5. CommitsAreMade /\ ResultsAgree
  BY HeadsAssumption, Numbers DEF Init, CommitsAreMade, ResultsAgree, CleanCheckout
<1>6. PublicationTypeOK
  <2>1. checkout \in [patched : BOOLEAN, local : Commits \cup {NoCommit, Base}]
    BY DEF Init, CleanCheckout
  <2>2. made \in 0..MaxCommits /\ faults \in 0..MaxFaults
    BY BoundsAssumption DEF Init
  <2> QED BY <1>2, <1>3, <2>1, <2>2 DEF Init, PublicationTypeOK
<1> QED BY <1>4, <1>5, <1>6 DEF PublicationInv

LEMMA NextKeeps == PublicationInv /\ [Next]_vars => PublicationInv'
<1>1. CASE UNCHANGED vars
  BY <1>1 DEF vars, PublicationInv, PublicationTypeOK, CommitsAreMade, WritesUnlessPublished,
              ResultsAgree, At
<1> QED BY <1>1, RunStep, WorldStep DEF Next

\* The strengthening is an invariant.
THEOREM PublicationInvariant == Spec => []PublicationInv
BY InitPublicationInv, NextKeeps, PTL DEF Spec

\* Every reachable state is well typed.
THEOREM PublicationIsTyped == Spec => []PublicationTypeOK
<1>1. PublicationInv => PublicationTypeOK
  BY DEF PublicationInv
<1> QED BY <1>1, PublicationInvariant, PTL

\* Whatever the runs went through, publish never returns two commits for the
\* envelope, and none but the head of its first pull request.
THEOREM PublishersReturnOneCommit == Spec => []ResultsAgree
<1>1. PublicationInv => ResultsAgree
  BY DEF PublicationInv
<1> QED BY <1>1, PublicationInvariant, PTL

\* A run that begins when there is a pull request opens none.
THEOREM RunsOpenNoSecondPullRequest == Spec => NoSecondPullRequest
<1>1. PublicationInv /\ [Next]_vars
        => [\A r \in Runs : (At(r, "post") /\ prs' # prs /\ run'[r] # run[r])
                               => run[r].saw = 0]_vars
  <2> SUFFICES ASSUME PublicationInv, NEW r \in Runs, At(r, "post")
               PROVE  run[r].saw = 0
    OBVIOUS
  <2>1. run[r].saw \in Nat
    BY RunFacts
  <2> QED BY <2>1 DEF PublicationInv, WritesUnlessPublished, At
<1> QED BY <1>1, PublicationInvariant, PTL DEF Spec, NoSecondPullRequest
==============================================================================
