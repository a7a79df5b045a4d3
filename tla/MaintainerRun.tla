----------------------------- MODULE MaintainerRun -----------------------------
(***************************************************************************)
(* A day's run of the maintainer (worktree.py, state.py and the commands    *)
(* of cli.py): prepare pins the remote main branch, records the run, and    *)
(* makes its branch and worktree; check-remote looks at main again.        *)
(*                                                                         *)
(* Callers are processes.  They share the run records (RunStateStore), the *)
(* git repository and a kernel lock that a process loses when it dies; a    *)
(* caller may die, or a git command of its fail, between any two steps.    *)
(* Records are replaced atomically.  Main only moves forward.              *)
(***************************************************************************)
EXTENDS Naturals

CONSTANTS
    Callers,
    Dates,
    Candidates,    \* a candidate with its slug and digests
    PullRequests,  \* known publications (number, URL and state)
    MaxMoves,      \* bound on the commits that main receives
    MaxCalls,      \* bound on the calls
    NoCaller, NoRun, NoBase, NoCandidate

ASSUME BoundsAssumption == MaxMoves \in Nat /\ MaxCalls \in Nat /\ Dates # {}
ASSUME NullsAssumption ==
    /\ NoCaller \notin Callers
    /\ NoBase \notin Nat
    /\ NoCandidate \notin Candidates
    /\ PullRequests \cap {"unknown", "none"} = {}

VARIABLES
    main,     \* the commit of the remote main branch
    records,  \* the run states by date and base
    branches, \* the daily branches of the repository, all at their base
    trees,    \* the registered worktrees by their branch
    lock,     \* the holder of the repository lock
    calls,    \* what each caller is doing
    count     \* the calls so far

vars == <<main, records, branches, trees, lock, calls, count>>

Bases == 0..MaxMoves
Keys == Dates \X Bases

\* A branch name and a worktree path are derived from these.
Branches == [date : Dates, candidate : Candidates, base : Bases]

Publications == {"unknown", "none"} \cup PullRequests

Lifecycles == {"pinned", "ready", "remote_moved", "existing_branch", "existing_publication"}

\* RunState: tree tells whether it names a worktree, observed is observed_remote_sha.
RunStates ==
    [candidate : Candidates, lifecycle : Lifecycles,
     disposition : {"absent", "created", "existing_at_base"}, tree : BOOLEAN,
     observed : Bases, publication : Publications]

ASSUME NoRunAssumption == NoRun \notin RunStates

\* A worktree is made with the caller's umask, has mode 0700 after the chmod, and
\* whoever works in it leaves changes.
TreeStates == {"none", "exposed", "private", "changed"}

\* base: expected_pin, then the pin; since: main when the lock was taken;
\* loaded: the state a check-remote has loaded, the one a prepare has in hand, or the one
\* it has returned.
Calls ==
    [at : {"idle", "pin", "load", "fresh", "recheck", "branch", "tree", "chmod", "ready",
           "final", "unlocked"},
     date : Dates, candidate : Candidates \cup {NoCandidate}, base : Bases \cup {NoBase},
     publication : Publications, since : Bases, loaded : RunStates \cup {NoRun}]

Idle == [at |-> "idle", date |-> CHOOSE d \in Dates : TRUE, candidate |-> NoCandidate,
         base |-> NoBase, publication |-> "unknown", since |-> 0, loaded |-> NoRun]

Known(publication) == publication \in PullRequests

BranchOf(q) == [date |-> q.date, candidate |-> q.candidate, base |-> q.base]
KeyOf(q) == <<q.date, q.base>>

-------------------------------------------------------------------------------
(***************************************************************************)
(* The parts the commands are made of.                                     *)
(***************************************************************************)

Goes(p, step) == calls' = [calls EXCEPT ![p].at = step]

\* __exit__ of the lock: the command ends, with a result or an exception.
Ends(p) ==
    /\ calls' = [calls EXCEPT ![p] = Idle]
    /\ lock' = IF lock = p THEN NoCaller ELSE lock

\* RunStateStore.save: the identity stays and the lifecycle does not go back.
MayReplace(old, new) ==
    old # NoRun =>
        /\ old.candidate = new.candidate
        /\ new.lifecycle \in {old.lifecycle, "remote_moved"} \/ old.lifecycle = "pinned"

\* A save that is refused raises and ends the command; one that is made is followed
\* by the step Then.
Saves(p, key, state, Then) ==
    \/ /\ MayReplace(records[key], state)
       /\ records' = [records EXCEPT ![key] = state]
       /\ Then
    \/ /\ ~MayReplace(records[key], state)
       /\ UNCHANGED records
       /\ Ends(p)

NewState(q, lifecycle, disposition, tree, observed) ==
    [candidate |-> q.candidate, lifecycle |-> lifecycle, disposition |-> disposition,
     tree |-> tree, observed |-> observed, publication |-> q.publication]

\* _branch_snapshot, with the disposition as prepare records it.
Disposition(b) == IF b \in branches THEN "existing_at_base" ELSE "absent"

\* Faulty: the observation is not recorded.
MovementUnseen(q, existing) ==
    IF existing # NoRun
    THEN [existing EXCEPT !.lifecycle = "remote_moved"]
    ELSE NewState(q, "remote_moved", Disposition(BranchOf(q)),
                  trees[BranchOf(q)] # "none", main)

\* _movement_state, of a state at hand or of what the repository shows.
Movement(q, existing) ==
    IF existing # NoRun
    THEN [existing EXCEPT !.lifecycle = "remote_moved", !.observed = main]
    ELSE NewState(q, "remote_moved", Disposition(BranchOf(q)),
                  trees[BranchOf(q)] # "none", main)

\* Faulty: a pin is good when it once was.
PinHoldsOnce(base) == base <= main

\* _check_current_pin, when main is where the run has pinned it.
PinHolds(base) == main = base

\* _check_current_pin raises after it has recorded the movement.
RecordsMovement(p) ==
    LET q == calls[p] IN
    /\ ~PinHolds(q.base)
    /\ Saves(p, KeyOf(q), Movement(q, q.loaded), Ends(p))

\* _state_for_existing_branch
RecordsBranch(p) ==
    LET q == calls[p] IN
    Saves(p, KeyOf(q),
          NewState(q, "existing_branch", "existing_at_base", trees[BranchOf(q)] # "none", q.base),
          Ends(p))

\* Faulty: the mode of the worktree is not looked at.
FitIfRegistered(b) == trees[b] # "none"

\* _validate_ready_worktree: registered, owner-only, at its base and clean.
Fit(b) == trees[b] = "private"

-------------------------------------------------------------------------------
(***************************************************************************)
(* prepare.                                                                *)
(***************************************************************************)

\* _RepositoryLock without waiting; when it is held, the command fails at once.
TakesLock(p) == lock = NoCaller /\ lock' = p

\* The caller expects a base that main has or had, or none.
StartPrepare(p, d, c, base, publication) ==
    /\ calls[p].at = "idle" /\ count < MaxCalls
    /\ base \in 0..main \cup {NoBase}
    /\ TakesLock(p)
    /\ calls' = [calls EXCEPT ![p] =
          [at |-> "pin", date |-> d, candidate |-> c, base |-> base,
           publication |-> publication, since |-> main, loaded |-> NoRun]]
    /\ count' = count + 1
    /\ UNCHANGED <<main, records, branches, trees>>

\* pin_remote_main, or the expected pin is compared with main.
Pin(p) ==
    LET q == calls[p] IN
    /\ q.at = "pin"
    /\ \/ /\ q.base = NoBase
          /\ calls' = [calls EXCEPT ![p].at = "load", ![p].base = main]
          /\ UNCHANGED <<records, lock>>
       \/ q.base # NoBase /\ RecordsMovement(p)
       \/ /\ q.base # NoBase /\ PinHolds(q.base)
          /\ Goes(p, "load")
          /\ UNCHANGED <<records, lock>>
    /\ UNCHANGED <<main, branches, trees, count>>

\* Faulty: what the caller knows replaces what is recorded.
MergedAnew(old, new) == new

\* The publication of a run that has a record: a known one stays, and "none" may not
\* become known.
Merged(old, new) ==
    IF Known(old) \/ new = "unknown" THEN old ELSE new

Compatible(old, new) == Known(old) \/ new = "unknown" \/ old \in {"unknown", new}

\* The record is loaded and, when the caller knows a publication, saved with it.
Load(p) ==
    LET q == calls[p]
        existing == records[KeyOf(q)]
        publication == Merged(existing.publication, q.publication)
    IN
    /\ q.at = "load"
    /\ \/ /\ existing = NoRun
          /\ Goes(p, "fresh")
          /\ UNCHANGED <<records, lock>>
       \/ /\ existing # NoRun
          /\ \/ existing.candidate # q.candidate
             \/ ~Compatible(existing.publication, q.publication)
          /\ Ends(p)
          /\ UNCHANGED records
       \/ /\ existing # NoRun
          /\ existing.candidate = q.candidate
          /\ Compatible(existing.publication, q.publication)
          /\ records' = [records EXCEPT ![KeyOf(q)].publication = publication]
          /\ calls' = [calls EXCEPT ![p].at = "recheck", ![p].publication = publication,
                                    ![p].loaded = [existing EXCEPT !.publication = publication]]
          /\ UNCHANGED lock
    /\ UNCHANGED <<main, branches, trees, count>>

\* A run is returned to the caller as ready.
Returns(p, state) ==
    /\ calls' = [calls EXCEPT ![p].at = "idle", ![p].loaded = state]
    /\ lock' = NoCaller

Readied(state) == [state EXCEPT !.lifecycle = "ready", !.disposition = "created"]

\* _resume_pinned where a worktree is registered.
Resumes(p) ==
    LET q == calls[p] IN
    /\ trees[BranchOf(q)] # "none"
    /\ \/ /\ Fit(BranchOf(q))
          /\ Saves(p, KeyOf(q), Readied(q.loaded), Returns(p, Readied(q.loaded)))
       \/ ~Fit(BranchOf(q)) /\ Ends(p) /\ UNCHANGED records

\* The pin is checked, then the recorded run replayed, resumed or refused.
Replay(p) ==
    LET q == calls[p] IN
    /\ q.at = "recheck" /\ q.loaded # NoRun /\ q.loaded.lifecycle = "ready"
    /\ PinHolds(q.base) /\ ~Known(q.publication)
    /\ IF Fit(BranchOf(q)) THEN Returns(p, q.loaded) ELSE Ends(p)
    /\ UNCHANGED <<main, records, branches, trees, count>>

Resume(p) ==
    LET q == calls[p] IN
    /\ q.at = "recheck" /\ q.loaded.lifecycle = "pinned"
    /\ PinHolds(q.base) /\ ~Known(q.publication)
    /\ \/ Resumes(p)
       \/ /\ trees[BranchOf(q)] = "none" /\ BranchOf(q) \in branches
          /\ RecordsBranch(p)
       \/ /\ trees[BranchOf(q)] = "none" /\ BranchOf(q) \notin branches
          /\ Goes(p, "fresh")
          /\ UNCHANGED <<records, lock>>
    /\ UNCHANGED <<main, branches, trees, count>>

Refuse(p) ==
    LET q == calls[p] IN
    /\ q.at = "recheck"
    /\ \/ RecordsMovement(p)
       \/ /\ PinHolds(q.base)
          /\ Known(q.publication) \/ q.loaded.lifecycle \notin {"ready", "pinned"}
          /\ Ends(p)
          /\ UNCHANGED records
    /\ UNCHANGED <<main, branches, trees, count>>

\* Faulty: the run is recorded once its worktree is there.
RecordsPinLater(p, pinned) ==
    /\ calls' = [calls EXCEPT ![p].at = "branch", ![p].loaded = pinned]
    /\ UNCHANGED <<records, lock>>

\* The run is recorded before git is called.
RecordsPin(p, pinned) ==
    Saves(p, KeyOf(calls[p]), pinned,
          /\ calls' = [calls EXCEPT ![p].at = "branch", ![p].loaded = pinned]
          /\ UNCHANGED lock)

\* Nothing is recorded, or a pinned run that made nothing: a known publication or a
\* branch of that name is recorded and refused, else the run is pinned.
Fresh(p) ==
    LET q == calls[p] IN
    /\ q.at = "fresh"
    /\ \/ /\ Known(q.publication)
          /\ Saves(p, KeyOf(q), NewState(q, "existing_publication", "absent", FALSE, q.base),
                   Ends(p))
       \/ /\ ~Known(q.publication) /\ BranchOf(q) \in branches
          /\ RecordsBranch(p)
       \/ /\ ~Known(q.publication) /\ BranchOf(q) \notin branches
          /\ RecordsPin(p, NewState(q, "pinned", "absent", TRUE, q.base))
    /\ UNCHANGED <<main, branches, trees, count>>

\* The pin is checked again; git worktree add first makes the branch.
AddBranch(p) ==
    LET q == calls[p] IN
    /\ q.at = "branch"
    /\ \/ RecordsMovement(p) /\ UNCHANGED branches
       \/ /\ PinHolds(q.base)
          /\ branches' = branches \cup {BranchOf(q)}
          /\ Goes(p, "tree")
          /\ UNCHANGED <<records, lock>>
    /\ UNCHANGED <<main, trees, count>>

AddTree(p) ==
    /\ calls[p].at = "tree"
    /\ \E s \in {"exposed", "private"} : trees' = [trees EXCEPT ![BranchOf(calls[p])] = s]
    /\ Goes(p, "chmod")
    /\ UNCHANGED <<main, records, branches, lock, count>>

Chmod(p) ==
    /\ calls[p].at = "chmod"
    /\ trees' = [trees EXCEPT ![BranchOf(calls[p])] = "private"]
    /\ Goes(p, "ready")
    /\ UNCHANGED <<main, records, branches, lock, count>>

SaveReady(p) ==
    LET q == calls[p]
        ready == Readied(q.loaded)
    IN
    /\ q.at = "ready"
    /\ Fit(BranchOf(q))
    /\ Saves(p, KeyOf(q), ready,
             /\ calls' = [calls EXCEPT ![p].at = "final", ![p].loaded = ready]
             /\ UNCHANGED lock)
    /\ UNCHANGED <<main, branches, trees, count>>

\* The last look at main.
FinalCheck(p) ==
    LET q == calls[p] IN
    /\ q.at = "final"
    /\ \/ RecordsMovement(p)
       \/ PinHolds(q.base) /\ Returns(p, q.loaded) /\ UNCHANGED records
    /\ UNCHANGED <<main, branches, trees, count>>

-------------------------------------------------------------------------------
(***************************************************************************)
(* check-remote, and what happens around the callers.                      *)
(***************************************************************************)

\* The command loads the run before it takes the lock.
StartCheck(p, key) ==
    /\ calls[p].at = "idle" /\ count < MaxCalls
    /\ records[key] # NoRun
    /\ calls' = [calls EXCEPT ![p] =
          [Idle EXCEPT !.at = "unlocked", !.date = key[1], !.base = key[2],
                       !.candidate = records[key].candidate, !.loaded = records[key]]]
    /\ count' = count + 1
    /\ UNCHANGED <<main, records, branches, trees, lock>>

\* assert_remote_unchanged, all of it under the lock.
CheckRemote(p) ==
    LET q == calls[p] IN
    /\ q.at = "unlocked"
    /\ lock = NoCaller
    /\ \/ RecordsMovement(p)
       \/ PinHolds(q.base) /\ Ends(p) /\ UNCHANGED records
    /\ UNCHANGED <<main, branches, trees, count>>

\* The process dies, or one of its commands or checks fails: what was made stays, and
\* the kernel or __exit__ releases the lock.
Stop(p) ==
    /\ calls[p].at # "idle"
    /\ Ends(p)
    /\ UNCHANGED <<main, records, branches, trees, count>>

MainMoves ==
    /\ main < MaxMoves
    /\ main' = main + 1
    /\ UNCHANGED <<records, branches, trees, lock, calls, count>>

\* The patcher works in the worktree of a ready run.
WorkInTree(b) ==
    /\ trees[b] = "private"
    /\ records[<<b.date, b.base>>].lifecycle = "ready"
    /\ trees' = [trees EXCEPT ![b] = "changed"]
    /\ UNCHANGED <<main, records, branches, lock, calls, count>>

Init ==
    /\ main = 0
    /\ records = [key \in Keys |-> NoRun]
    /\ branches = {}
    /\ trees = [b \in Branches |-> "none"]
    /\ lock = NoCaller
    /\ calls = [p \in Callers |-> Idle]
    /\ count = 0

Step(p) ==
    \/ Pin(p) \/ Load(p) \/ Replay(p) \/ Resume(p) \/ Refuse(p)
    \/ Fresh(p) \/ AddBranch(p) \/ AddTree(p) \/ Chmod(p) \/ SaveReady(p) \/ FinalCheck(p)
    \/ CheckRemote(p) \/ Stop(p)

Next ==
    \/ \E p \in Callers :
        \/ \E d \in Dates, c \in Candidates, base \in Bases \cup {NoBase}, i \in Publications :
              StartPrepare(p, d, c, base, i)
        \/ \E key \in Keys : StartCheck(p, key)
        \/ Step(p)
    \/ MainMoves
    \/ \E b \in Branches : WorkInTree(b)

Spec == Init /\ [][Next]_vars

-------------------------------------------------------------------------------

\* What RunState loads again: a run whose base main has left has seen it elsewhere.
WellFormed(base, state) ==
    /\ state.lifecycle = "remote_moved" <=> state.observed # base
    /\ state.lifecycle = "ready" => state.disposition = "created" /\ state.tree
    /\ state.lifecycle = "pinned" => state.disposition = "absent"
    /\ state.lifecycle = "existing_branch" => state.disposition = "existing_at_base"

RunTypeOK ==
    /\ main \in Bases
    /\ records \in [Keys -> RunStates \cup {NoRun}]
    /\ \A key \in Keys : records[key] # NoRun => WellFormed(key[2], records[key])
    /\ branches \subseteq Branches
    /\ trees \in [Branches -> TreeStates]
    /\ lock \in Callers \cup {NoCaller}
    /\ calls \in [Callers -> Calls]
    /\ count \in 0..MaxCalls

\* A date and base get one attempt: however callers die and retry, with whatever
\* candidate, every daily branch and worktree is the one that its record names.
OneAttemptPerRun ==
    \A b \in Branches : b \in branches \/ trees[b] # "none" =>
        LET run == records[<<b.date, b.base>>] IN
        /\ run # NoRun
        /\ run.candidate = b.candidate
        /\ trees[b] # "none" => run.tree

\* A run is recorded as ready only when its worktree is there and private to its owner.
ReadyTreesAreSound ==
    \A key \in Keys : records[key] # NoRun /\ records[key].lifecycle = "ready" =>
        \E b \in branches : <<b.date, b.base>> = key /\ trees[b] \in {"private", "changed"}

\* Who is given a ready run has its branch and worktree, and main was at its base at some
\* time since he asked.
ReturnedRunsAreCurrent ==
    \A p \in Callers :
        LET q == calls[p] IN
        q.at = "idle" /\ q.loaded # NoRun =>
            /\ q.loaded.lifecycle = "ready"
            /\ BranchOf(q) \in branches
            /\ trees[BranchOf(q)] \in {"private", "changed"}
            /\ q.since <= q.base

\* A pull request that is recorded stays in the record until main moves.
PublicationsStay ==
    [][\A key \in Keys :
          /\ records[key] # NoRun
          /\ Known(records[key].publication)
          /\ records'[key].lifecycle # "remote_moved"
          => records'[key].publication = records[key].publication]_vars

===============================================================================
