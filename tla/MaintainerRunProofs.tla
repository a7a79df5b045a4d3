-------------------------- MODULE MaintainerRunProofs --------------------------
(***************************************************************************)
(* The safety of a day's run for any callers, dates, candidates and bounds, *)
(* whoever dies where.  While a caller holds the repository lock, nobody   *)
(* else changes the records, branches or worktrees, so that what it has    *)
(* loaded is what is recorded; a check-remote, which loads before it locks, *)
(* relies only on what no save may take back.                              *)
(***************************************************************************)
EXTENDS MaintainerRun, TLAPS

\* The steps of a prepare once its run is recorded, and all of its steps.
Making == {"branch", "tree", "chmod", "ready", "final"}
Preparing == {"pin", "load", "fresh", "recheck"} \cup Making

LockIsHeld == \A p \in Callers : calls[p].at \in Preparing <=> lock = p

\* What a prepare has in hand is what is recorded.
PrepareRelies(q) ==
    /\ q.at = "pin" => q.since <= main
    /\ q.at \in {"pin", "load"} => q.loaded = NoRun
    /\ q.at \in Preparing \ {"pin"} => q.base \in Bases /\ q.since <= q.base
    /\ q.at \in {"fresh", "recheck"} \cup Making =>
          /\ q.loaded = records[KeyOf(q)]
          /\ q.loaded # NoRun => /\ q.loaded.candidate = q.candidate
                                 /\ q.loaded.publication = q.publication
    /\ q.at \in {"recheck"} \cup Making => q.loaded # NoRun
    /\ (q.at = "fresh" /\ q.loaded # NoRun) =>
          q.loaded.lifecycle = "pinned" /\ ~Known(q.publication)
    /\ q.at \in Making \ {"final"} => q.loaded.lifecycle = "pinned"
    /\ q.at = "final" => q.loaded.lifecycle = "ready"
    /\ q.at \in Making \ {"branch"} => BranchOf(q) \in branches
    /\ q.at \in {"branch", "tree"} => trees[BranchOf(q)] = "none"

\* What a check-remote has loaded may be old, but is of the same run.
CheckRelies(q) ==
    q.at = "unlocked" =>
        /\ q.base \in Bases /\ q.loaded # NoRun /\ q.loaded.candidate = q.candidate
        /\ records[KeyOf(q)] # NoRun /\ records[KeyOf(q)].candidate = q.candidate
        /\ WellFormed(q.base, q.loaded)
        /\ ~q.loaded.tree =>
              records[KeyOf(q)].lifecycle # "pinned" /\ trees[BranchOf(q)] = "none"

CallRelies(q) ==
    /\ q.at # "idle" => q.candidate \in Candidates
    /\ PrepareRelies(q)
    /\ CheckRelies(q)

\* The conclusion for one call: the run that it returned.
IsCurrent(q) ==
    q.at = "idle" /\ q.loaded # NoRun =>
        /\ q.loaded.lifecycle = "ready"
        /\ BranchOf(q) \in branches
        /\ trees[BranchOf(q)] \in {"private", "changed"}
        /\ q.since <= q.base

TreesHaveBranches == \A b \in Branches : trees[b] # "none" => b \in branches

PinnedRunsNameATree ==
    \A key \in Keys : records[key] # NoRun /\ records[key].lifecycle = "pinned"
                         => records[key].tree

RecordsRely ==
    /\ TreesHaveBranches
    /\ PinnedRunsNameATree
    /\ OneAttemptPerRun
    /\ ReadyTreesAreSound

RunInv ==
    /\ RunTypeOK
    /\ LockIsHeld
    /\ RecordsRely
    /\ \A p \in Callers : CallRelies(calls[p]) /\ IsCurrent(calls[p])

-------------------------------------------------------------------------------
(***************************************************************************)
(* Facts about calls, keys and records.                                    *)
(***************************************************************************)

LEMMA IdleIsACall ==
    /\ Idle \in Calls /\ Idle.at = "idle" /\ Idle.loaded = NoRun
    /\ Idle.candidate = NoCandidate /\ Idle.base = NoBase /\ Idle.publication = "unknown"
    /\ Idle.since = 0
<1>1. (CHOOSE d \in Dates : TRUE) \in Dates /\ 0 \in Bases
  BY BoundsAssumption DEF Bases
<1>2. PICK d \in Dates : d = (CHOOSE x \in Dates : TRUE)
  BY <1>1
<1>3. Idle = [at |-> "idle", date |-> d, candidate |-> NoCandidate, base |-> NoBase,
              publication |-> "unknown", since |-> 0, loaded |-> NoRun]
  BY <1>2 DEF Idle
<1> QED BY <1>1, <1>3 DEF Calls, Publications

LEMMA CallFacts ==
    ASSUME RunInv, NEW p \in Callers
    PROVE  /\ calls[p] \in Calls /\ calls \in [Callers -> Calls]
           /\ calls[p].date \in Dates /\ calls[p].publication \in Publications
           /\ calls[p].since \in Bases /\ calls[p].since \in Nat /\ Bases \subseteq Nat
           /\ calls[p].loaded \in RunStates \cup {NoRun}
           /\ CallRelies(calls[p]) /\ IsCurrent(calls[p])
           /\ calls[p].at \in Preparing <=> lock = p
           /\ main \in Bases /\ main \in Nat
BY BoundsAssumption DEF RunInv, RunTypeOK, Calls, LockIsHeld, Bases

LEMMA KeyFacts ==
    ASSUME RunInv, NEW q \in Calls, q.base \in Bases
    PROVE  /\ KeyOf(q) \in Keys /\ KeyOf(q)[1] = q.date /\ KeyOf(q)[2] = q.base
           /\ records[KeyOf(q)] \in RunStates \cup {NoRun}
           /\ records[KeyOf(q)] # NoRun =>
                 records[KeyOf(q)] \in RunStates /\ WellFormed(q.base, records[KeyOf(q)])
           /\ q.candidate \in Candidates =>
                 /\ BranchOf(q) \in Branches
                 /\ BranchOf(q).date = q.date /\ BranchOf(q).base = q.base
                 /\ BranchOf(q).candidate = q.candidate
                 /\ <<BranchOf(q).date, BranchOf(q).base>> = KeyOf(q)
<1>1. KeyOf(q) \in Keys /\ KeyOf(q)[1] = q.date /\ KeyOf(q)[2] = q.base
  BY DEF KeyOf, Keys, Calls
<1>2. records[KeyOf(q)] \in RunStates \cup {NoRun}
  BY <1>1 DEF RunInv, RunTypeOK
<1>3. records[KeyOf(q)] # NoRun => WellFormed(q.base, records[KeyOf(q)])
  BY <1>1 DEF RunInv, RunTypeOK
<1>4. q.candidate \in Candidates =>
                 /\ BranchOf(q) \in Branches
                 /\ BranchOf(q).date = q.date /\ BranchOf(q).base = q.base
                 /\ BranchOf(q).candidate = q.candidate
                 /\ <<BranchOf(q).date, BranchOf(q).base>> = KeyOf(q)
  BY DEF BranchOf, KeyOf, Branches, Calls
<1> QED BY <1>1, <1>2, <1>3, <1>4

\* No two branches of one key and candidate.
LEMMA OneBranch ==
    ASSUME NEW a \in Branches, NEW b \in Branches, a.candidate = b.candidate,
           <<a.date, a.base>> = <<b.date, b.base>>
    PROVE  a = b
BY DEF Branches

LEMMA NewStateFacts ==
    ASSUME NEW q \in Calls, q.candidate \in Candidates, NEW lifecycle \in Lifecycles,
           NEW disposition \in {"absent", "created", "existing_at_base"},
           NEW tree \in BOOLEAN, NEW observed \in Bases
    PROVE  LET s == NewState(q, lifecycle, disposition, tree, observed) IN
           /\ s \in RunStates
           /\ s.candidate = q.candidate /\ s.lifecycle = lifecycle
           /\ s.disposition = disposition /\ s.tree = tree
           /\ s.observed = observed /\ s.publication = q.publication
BY DEF NewState, RunStates, Calls

-------------------------------------------------------------------------------
(***************************************************************************)
(* A step of one caller.                                                   *)
(***************************************************************************)

\* State s is saved for the run of key.
Records(key, s) ==
    /\ records' = [records EXCEPT ![key] = s]
    /\ s \in RunStates /\ WellFormed(key[2], s)
    /\ MayReplace(records[key], s)
    /\ s.lifecycle = "pinned" => s.tree
    /\ s.lifecycle = "ready" =>
          \E b \in branches : <<b.date, b.base>> = key /\ trees[b] \in {"private", "changed"}
    /\ \A b \in Branches :
          (<<b.date, b.base>> = key /\ trees[b] # "none") => s.tree
    /\ (records[key] # NoRun /\ Known(records[key].publication))
          => s.lifecycle = "remote_moved" \/ s.publication = records[key].publication

\* Only who has the lock, or takes it for a moment, saves a run.
RecordStep(p) ==
    \/ records' = records
    \/ /\ lock \in {p, NoCaller}
       /\ \E key \in Keys, s \in RunStates : Records(key, s)

\* What one caller's step, short of git's, does.
CallStep(p) ==
    /\ UNCHANGED <<main, branches, trees>>
    /\ count' \in 0..MaxCalls
    /\ RecordStep(p)
    /\ calls' \in [Callers -> Calls]
    /\ \A o \in Callers \ {p} : calls'[o] = calls[o]
    /\ \/ lock' = lock /\ (calls'[p].at \in Preparing <=> lock = p)
       \/ lock \in {p, NoCaller} /\ lock' = NoCaller /\ calls'[p].at \notin Preparing
       \/ lock = NoCaller /\ lock' = p /\ calls'[p].at \in Preparing

LEMMA SavesKeepRecords ==
    ASSUME RunInv, UNCHANGED <<main, branches, trees>>, NEW key \in Keys, NEW s,
           Records(key, s)
    PROVE  /\ records' \in [Keys -> RunStates \cup {NoRun}]
           /\ \A k \in Keys : records'[k] # NoRun => WellFormed(k[2], records'[k])
           /\ RecordsRely'
<1>1. /\ records \in [Keys -> RunStates \cup {NoRun}] /\ s \in RunStates /\ s # NoRun
      /\ records' \in [Keys -> RunStates \cup {NoRun}] /\ records'[key] = s
      /\ \A k \in Keys \ {key} : records'[k] = records[k]
      /\ trees \in [Branches -> TreeStates] /\ branches \subseteq Branches
  BY NoRunAssumption DEF RunInv, RunTypeOK, Records
<1>2. \A k \in Keys : records'[k] # NoRun => WellFormed(k[2], records'[k])
  BY <1>1 DEF RunInv, RunTypeOK, Records
<1>3. TreesHaveBranches'
  BY DEF RunInv, RecordsRely, TreesHaveBranches
<1>4. PinnedRunsNameATree'
  BY <1>1 DEF RunInv, RecordsRely, PinnedRunsNameATree, Records
<1>5. ReadyTreesAreSound'
  BY <1>1 DEF RunInv, RecordsRely, ReadyTreesAreSound, Records
<1>6. OneAttemptPerRun'
  <2> SUFFICES ASSUME NEW b \in Branches, b \in branches \/ trees[b] # "none"
               PROVE  LET run == records'[<<b.date, b.base>>] IN
                      /\ run # NoRun
                      /\ run.candidate = b.candidate
                      /\ trees[b] # "none" => run.tree
    BY DEF OneAttemptPerRun
  <2>1. /\ records[<<b.date, b.base>>] # NoRun
        /\ records[<<b.date, b.base>>].candidate = b.candidate
        /\ trees[b] # "none" => records[<<b.date, b.base>>].tree
    BY DEF RunInv, RecordsRely, OneAttemptPerRun
  <2>2. <<b.date, b.base>> \in Keys
    BY DEF Branches, Keys
  <2>3. CASE <<b.date, b.base>> = key
    BY <1>1, <2>1, <2>3 DEF Records, MayReplace
  <2>4. CASE <<b.date, b.base>> # key
    BY <1>1, <2>1, <2>2, <2>4
  <2> QED BY <2>3, <2>4
<1> QED BY <1>1, <1>2, <1>3, <1>4, <1>5, <1>6 DEF RecordsRely

\* A check-remote goes on relying on its run, whoever saves it.
LEMMA ChecksStillRely ==
    ASSUME RunInv, UNCHANGED <<main, branches, trees>>, NEW key \in Keys, NEW s,
           Records(key, s), NEW q \in Calls, CheckRelies(q)
    PROVE  CheckRelies(q)'
<1> SUFFICES ASSUME q.at = "unlocked"  PROVE CheckRelies(q)'
  BY DEF CheckRelies
<1>1. /\ records \in [Keys -> RunStates \cup {NoRun}] /\ s \in RunStates /\ s # NoRun
      /\ records'[key] = s
      /\ \A k \in Keys \ {key} : records'[k] = records[k]
  BY NoRunAssumption DEF RunInv, RunTypeOK, Records
<1>2. KeyOf(q) \in Keys /\ records[KeyOf(q)] # NoRun
  BY KeyFacts DEF CheckRelies
<1>3. CASE KeyOf(q) = key
  BY <1>1, <1>2, <1>3 DEF CheckRelies, Records, MayReplace
<1>4. CASE KeyOf(q) # key
  BY <1>1, <1>2, <1>4 DEF CheckRelies
<1> QED BY <1>3, <1>4

LEMMA LockStaysHeld ==
    ASSUME RunInv, NEW p \in Callers, CallStep(p)
    PROVE  LockIsHeld' /\ lock' \in Callers \cup {NoCaller}
<1>1. lock \in Callers \cup {NoCaller} /\ NoCaller \notin Callers
  BY NullsAssumption DEF RunInv, RunTypeOK
<1>2. \A o \in Callers : calls[o].at \in Preparing <=> lock = o
  BY DEF RunInv, LockIsHeld
<1>3. ASSUME NEW o \in Callers
      PROVE  calls'[o].at \in Preparing <=> lock' = o
  <2>1. CASE o = p
    BY <1>1, <1>2, <2>1 DEF CallStep
  <2>2. CASE o # p
    <3>1. calls'[o] = calls[o]
      BY <2>2 DEF CallStep
    <3> QED BY <1>1, <1>2, <2>2, <3>1 DEF CallStep
  <2> QED BY <2>1, <2>2
<1>4. lock' \in Callers \cup {NoCaller}
  BY <1>1 DEF CallStep
<1> QED BY <1>3, <1>4 DEF LockIsHeld

LEMMA CallStepKeeps ==
    ASSUME RunInv, NEW p \in Callers, CallStep(p), CallRelies(calls[p])', IsCurrent(calls[p])'
    PROVE  RunInv'
<1>1. LockIsHeld' /\ lock' \in Callers \cup {NoCaller}
  BY LockStaysHeld
<1>2. /\ records' \in [Keys -> RunStates \cup {NoRun}]
      /\ \A k \in Keys : records'[k] # NoRun => WellFormed(k[2], records'[k])
      /\ RecordsRely'
  <2>1. CASE records' = records
    <3>1. RecordsRely'
      BY <2>1 DEF CallStep, RunInv, RecordsRely, TreesHaveBranches, PinnedRunsNameATree,
                  OneAttemptPerRun, ReadyTreesAreSound
    <3> QED BY <2>1, <3>1 DEF RunInv, RunTypeOK
  <2>2. ASSUME NEW key \in Keys, NEW s \in RunStates, Records(key, s)
        PROVE  /\ records' \in [Keys -> RunStates \cup {NoRun}]
               /\ \A k \in Keys : records'[k] # NoRun => WellFormed(k[2], records'[k])
               /\ RecordsRely'
    BY <2>2, SavesKeepRecords DEF CallStep
  <2> QED BY <2>1, <2>2 DEF CallStep, RecordStep
<1>3. RunTypeOK'
  BY <1>1, <1>2 DEF CallStep, RunInv, RunTypeOK
<1>4. ASSUME NEW o \in Callers
      PROVE  CallRelies(calls[o])' /\ IsCurrent(calls[o])'
  <2>1. CASE o = p
    BY <2>1
  <2>2. CASE o # p
    <3>1. PICK q \in Calls : /\ q = calls[o] /\ calls'[o] = q /\ CallRelies(q) /\ IsCurrent(q)
                             /\ (q.at \in Preparing <=> lock = o)
      BY <2>2, CallFacts DEF CallStep
    <3>2. IsCurrent(q)'
      BY <3>1 DEF IsCurrent, CallStep
    <3>3. CASE records' = records
      <4>1. PrepareRelies(q)' /\ CheckRelies(q)'
        BY <3>1, <3>3 DEF CallRelies, PrepareRelies, CheckRelies, CallStep
      <4> QED BY <3>1, <3>2, <4>1 DEF CallRelies
    <3>4. ASSUME NEW key \in Keys, NEW s \in RunStates, Records(key, s), lock \in {p, NoCaller}
          PROVE  CallRelies(q)'
      <4>1. q.at \notin Preparing
        BY <2>2, <3>1, <3>4, NullsAssumption
      <4>2. PrepareRelies(q)'
        BY <4>1 DEF PrepareRelies, Preparing, Making
      <4>3. CheckRelies(q)'
        BY <3>1, <3>4, ChecksStillRely DEF CallRelies, CallStep
      <4> QED BY <3>1, <4>2, <4>3 DEF CallRelies
    <3>5. CallRelies(q)'
      BY <3>1, <3>3, <3>4 DEF CallStep, RecordStep, CallRelies
    <3> QED BY <3>1, <3>2, <3>5
  <2> QED BY <2>1, <2>2
<1> QED BY <1>1, <1>2, <1>3, <1>4 DEF RunInv

\* A call that ends leaves nothing to rely on.
LEMMA EndsKeep ==
    ASSUME RunInv, NEW p \in Callers, UNCHANGED <<main, branches, trees, count>>,
           RecordStep(p), Ends(p)
    PROVE  RunInv'
<1>1. /\ calls' \in [Callers -> Calls] /\ calls'[p] = Idle
      /\ \A o \in Callers \ {p} : calls'[o] = calls[o]
  BY CallFacts, IdleIsACall DEF Ends
<1>2. Idle.at \notin Preparing /\ Idle.at = "idle" /\ Idle.loaded = NoRun
  BY IdleIsACall DEF Preparing, Making
<1>3. CallStep(p)
  <2>1. \/ lock' = lock /\ (calls'[p].at \in Preparing <=> lock = p)
        \/ lock \in {p, NoCaller} /\ lock' = NoCaller /\ calls'[p].at \notin Preparing
    BY <1>1, <1>2 DEF Ends
  <2>2. count' \in 0..MaxCalls
    BY DEF RunInv, RunTypeOK
  <2> QED BY <1>1, <2>1, <2>2 DEF CallStep
<1>4. CallRelies(calls[p])' /\ IsCurrent(calls[p])'
  BY <1>1, <1>2 DEF CallRelies, PrepareRelies, CheckRelies, IsCurrent, Preparing, Making
<1> QED BY <1>3, <1>4, CallStepKeeps

\* A save that is refused ends the call; one that is made is a step of the record.
LEMMA SavesCase ==
    ASSUME RunInv, NEW p \in Callers, NEW key \in Keys, NEW s \in RunStates, NEW Then,
           UNCHANGED <<main, branches, trees, count>>, lock \in {p, NoCaller},
           Saves(p, key, s, Then),
           MayReplace(records[key], s) /\ records' = [records EXCEPT ![key] = s]
              => Records(key, s),
           (RecordStep(p) /\ Then) => RunInv'
    PROVE  RunInv'
<1>1. CASE ~MayReplace(records[key], s)
  BY <1>1, EndsKeep DEF Saves, RecordStep
<1>2. CASE MayReplace(records[key], s)
  BY <1>2 DEF Saves, RecordStep
<1> QED BY <1>1, <1>2

-------------------------------------------------------------------------------
(***************************************************************************)
(* What is saved.                                                          *)
(***************************************************************************)

\* A worktree of the run that state s replaces is one of its own branch.
LEMMA TreesAreOfTheRun ==
    ASSUME RunInv, NEW q \in Calls, q.base \in Bases, q.candidate \in Candidates,
           NEW s, s.candidate = q.candidate, MayReplace(records[KeyOf(q)], s),
           NEW b \in Branches, <<b.date, b.base>> = KeyOf(q), b \in branches \/ trees[b] # "none"
    PROVE  /\ b = BranchOf(q) /\ records[KeyOf(q)] # NoRun
           /\ trees[b] # "none" => records[KeyOf(q)].tree
<1>1. /\ records[KeyOf(q)] # NoRun /\ records[KeyOf(q)].candidate = b.candidate
      /\ trees[b] # "none" => records[KeyOf(q)].tree
  BY DEF RunInv, RecordsRely, OneAttemptPerRun
<1>2. b.candidate = BranchOf(q).candidate
  BY <1>1, KeyFacts DEF MayReplace
<1> QED BY <1>1, <1>2, KeyFacts, OneBranch

LEMMA MovementIsRecorded ==
    ASSUME RunInv, NEW p \in Callers, UNCHANGED <<main, branches, trees, count>>,
           calls[p].at \in {"pin", "recheck", "branch", "final", "unlocked"},
           calls[p].base \in Bases, lock \in {p, NoCaller}, RecordsMovement(p)
    PROVE  RunInv'
<1>1. PICK q \in Calls : q = calls[p] /\ CallRelies(q) /\ q.candidate \in Candidates
                         /\ q.base \in Bases /\ q.loaded \in RunStates \cup {NoRun}
                         /\ main \in Bases /\ main # q.base /\ q.at = calls[p].at
  BY CallFacts DEF CallRelies, RecordsMovement, PinHolds
<1>2. PICK b \in Branches : b = BranchOf(q)
  BY <1>1, KeyFacts
<1>3. PICK s \in RunStates : /\ s = Movement(q, q.loaded) /\ s.lifecycle = "remote_moved"
                             /\ s.observed = main /\ s.candidate = q.candidate
                             /\ q.loaded = NoRun => s.tree = (trees[b] # "none")
                             /\ q.loaded # NoRun => s.tree = q.loaded.tree
  <2>1. CASE q.loaded = NoRun
    <3>1. "remote_moved" \in Lifecycles /\ Disposition(b) \in {"absent", "created", "existing_at_base"}
      BY DEF Lifecycles, Disposition
    <3>2. PICK tree \in BOOLEAN : tree = (trees[b] # "none")
      OBVIOUS
    <3>3. Movement(q, q.loaded) = NewState(q, "remote_moved", Disposition(b), tree, main)
      BY <1>2, <2>1, <3>2 DEF Movement
    <3>4. PICK s \in RunStates : /\ s = NewState(q, "remote_moved", Disposition(b), tree, main)
                                 /\ s.lifecycle = "remote_moved" /\ s.observed = main
                                 /\ s.candidate = q.candidate /\ s.tree = tree
      BY <1>1, <3>1, NewStateFacts
    <3> QED BY <2>1, <3>2, <3>3, <3>4
  <2>2. CASE q.loaded # NoRun
    <3>1. q.loaded.candidate = q.candidate
      BY <1>1, <2>2 DEF CallRelies, PrepareRelies, CheckRelies, Preparing, Making
    <3>2. PICK s : s = [q.loaded EXCEPT !.lifecycle = "remote_moved", !.observed = main]
      OBVIOUS
    <3>3. /\ s \in RunStates /\ s.lifecycle = "remote_moved" /\ s.observed = main
          /\ s.candidate = q.loaded.candidate /\ s.tree = q.loaded.tree
      BY <1>1, <2>2, <3>2 DEF RunStates, Lifecycles
    <3> QED BY <2>2, <3>1, <3>2, <3>3 DEF Movement
  <2> QED BY <2>1, <2>2
<1>4. Saves(p, KeyOf(q), s, Ends(p))
  BY <1>1, <1>3 DEF RecordsMovement
<1>5. ASSUME MayReplace(records[KeyOf(q)], s), records' = [records EXCEPT ![KeyOf(q)] = s]
      PROVE  Records(KeyOf(q), s)
  <2>1. WellFormed(KeyOf(q)[2], s)
    BY <1>1, <1>3, KeyFacts DEF WellFormed
  <2>2. ASSUME NEW a \in Branches, <<a.date, a.base>> = KeyOf(q), trees[a] # "none"
        PROVE  s.tree
    <3>1. a = b /\ records[KeyOf(q)].tree /\ records[KeyOf(q)] # NoRun
      BY <1>1, <1>2, <1>3, <1>5, <2>2, TreesAreOfTheRun
    <3>2. CASE q.loaded = NoRun
      BY <1>3, <2>2, <3>1, <3>2
    <3>3. CASE q.loaded # NoRun /\ q.at # "unlocked"
      <4>1. q.loaded = records[KeyOf(q)]
        BY <1>1, <3>3 DEF CallRelies, PrepareRelies, Making
      <4> QED BY <1>3, <3>1, <3>3, <4>1
    <3>4. CASE q.loaded # NoRun /\ q.at = "unlocked"
      BY <1>1, <1>2, <1>3, <2>2, <3>1, <3>4 DEF CallRelies, CheckRelies
    <3> QED BY <3>2, <3>3, <3>4
  <2> QED BY <1>3, <1>5, <2>1, <2>2 DEF Records
<1>6. KeyOf(q) \in Keys
  BY <1>1, KeyFacts
<1> QED BY <1>4, <1>5, <1>6, SavesCase, EndsKeep

\* A new state of a prepare that holds the lock.
LEMMA NewStateIsRecorded ==
    ASSUME RunInv, NEW p \in Callers, calls[p].at \in {"recheck", "fresh"},
           calls[p].base \in Bases, calls[p].candidate \in Candidates,
           NEW lifecycle \in {"existing_branch", "existing_publication", "pinned"},
           NEW disposition \in {"absent", "created", "existing_at_base"}, NEW tree \in BOOLEAN,
           lifecycle = "existing_branch" => disposition = "existing_at_base",
           lifecycle = "pinned" => disposition = "absent" /\ tree,
           trees[BranchOf(calls[p])] # "none" => tree,
           NEW s, s = NewState(calls[p], lifecycle, disposition, tree, calls[p].base),
           MayReplace(records[KeyOf(calls[p])], s),
           records' = [records EXCEPT ![KeyOf(calls[p])] = s]
    PROVE  Records(KeyOf(calls[p]), s)
<1>1. PICK q \in Calls : q = calls[p] /\ CallRelies(q) /\ q.candidate \in Candidates
                         /\ q.base \in Bases /\ q.loaded \in RunStates \cup {NoRun}
                         /\ q.at \in {"recheck", "fresh"}
  BY CallFacts
<1>2. /\ s \in RunStates /\ s.candidate = q.candidate /\ s.lifecycle = lifecycle
      /\ s.disposition = disposition /\ s.tree = tree /\ s.observed = q.base
      /\ s.publication = q.publication
  <2>1. lifecycle \in Lifecycles
    BY DEF Lifecycles
  <2> QED BY <1>1, <2>1, NewStateFacts
<1>3. WellFormed(KeyOf(q)[2], s)
  BY <1>1, <1>2, KeyFacts DEF WellFormed
<1>4. ASSUME NEW a \in Branches, <<a.date, a.base>> = KeyOf(q), trees[a] # "none"
      PROVE  s.tree
  BY <1>1, <1>2, <1>4, TreesAreOfTheRun
<1>5. records[KeyOf(q)] # NoRun => s.publication = records[KeyOf(q)].publication
  BY <1>1, <1>2 DEF CallRelies, PrepareRelies
<1>6. s.lifecycle # "ready" /\ (s.lifecycle = "pinned" => s.tree)
  BY <1>2
<1> QED BY <1>1, <1>2, <1>3, <1>4, <1>5, <1>6 DEF Records

LEMMA BranchIsRecorded ==
    ASSUME RunInv, NEW p \in Callers, UNCHANGED <<main, branches, trees, count>>,
           calls[p].at \in {"recheck", "fresh"}, calls[p].base \in Bases, lock = p,
           RecordsBranch(p)
    PROVE  RunInv'
<1>1. calls[p] \in Calls /\ calls[p].candidate \in Candidates /\ KeyOf(calls[p]) \in Keys
  BY CallFacts, KeyFacts DEF CallRelies
<1>2. PICK tree \in BOOLEAN : tree = (trees[BranchOf(calls[p])] # "none")
  OBVIOUS
<1>3. PICK s : s = NewState(calls[p], "existing_branch", "existing_at_base", tree, calls[p].base)
  OBVIOUS
<1>4. s \in RunStates
  BY <1>1, <1>3, NewStateFacts DEF Lifecycles
<1>5. Saves(p, KeyOf(calls[p]), s, Ends(p))
  BY <1>2, <1>3 DEF RecordsBranch
<1>6. MayReplace(records[KeyOf(calls[p])], s) /\ records' = [records EXCEPT ![KeyOf(calls[p])] = s]
        => Records(KeyOf(calls[p]), s)
  BY <1>1, <1>2, <1>3, NewStateIsRecorded
<1> QED BY <1>1, <1>4, <1>5, <1>6, SavesCase, EndsKeep

-------------------------------------------------------------------------------
(***************************************************************************)
(* The steps of a call.                                                    *)
(***************************************************************************)

Steps == {"idle", "pin", "load", "fresh", "recheck", "branch", "tree", "chmod", "ready",
          "final", "unlocked"}

\* A call that has gone on to another step, with what it has learned.
Onward(q, step, base, publication, loaded) ==
    [q EXCEPT !.at = step, !.base = base, !.publication = publication, !.loaded = loaded]

LEMMA OnwardFacts ==
    ASSUME NEW q \in Calls, NEW step \in Steps, NEW base \in Bases \cup {NoBase},
           NEW publication \in Publications, NEW loaded \in RunStates \cup {NoRun}
    PROVE  LET c == Onward(q, step, base, publication, loaded) IN
           /\ c \in Calls /\ c.at = step /\ c.base = base /\ c.publication = publication
           /\ c.loaded = loaded /\ c.date = q.date /\ c.candidate = q.candidate
           /\ c.since = q.since
BY DEF Onward, Calls, Steps

\* p goes on as call c, with the lock.
GoesOn(p, c) ==
    /\ calls' = [calls EXCEPT ![p] = c]
    /\ c \in Calls
    /\ \/ UNCHANGED lock /\ c.at \in Preparing
       \/ lock' = NoCaller /\ c.at \notin Preparing

LEMMA GoesOnKeeps ==
    ASSUME RunInv, NEW p \in Callers, UNCHANGED <<main, branches, trees, count>>, lock = p,
           RecordStep(p), NEW c, GoesOn(p, c), CallRelies(c)', IsCurrent(c)'
    PROVE  RunInv'
<1>1. /\ calls' \in [Callers -> Calls] /\ calls'[p] = c
      /\ \A o \in Callers \ {p} : calls'[o] = calls[o]
  BY CallFacts DEF GoesOn
<1>2. CallStep(p)
  <2>1. count' \in 0..MaxCalls
    BY DEF RunInv, RunTypeOK
  <2> QED BY <1>1, <2>1 DEF CallStep, GoesOn
<1>3. CallRelies(calls[p])' /\ IsCurrent(calls[p])'
  BY <1>1 DEF CallRelies, PrepareRelies, CheckRelies, IsCurrent
<1> QED BY <1>2, <1>3, CallStepKeeps

\* A call as it stands, with what is known of it.
Stands(p, q) ==
    /\ q = calls[p] /\ q \in Calls /\ CallRelies(q) /\ q.candidate \in Candidates
    /\ lock = p /\ q.publication \in Publications /\ q.loaded \in RunStates \cup {NoRun}
    /\ q.at \in Steps

LEMMA CallStands ==
    ASSUME RunInv, NEW p \in Callers, calls[p].at \in Preparing
    PROVE  \E q \in Calls : Stands(p, q)
<1>1. calls[p].at # "idle" /\ calls[p].at \in Steps
  BY DEF Preparing, Making, Steps
<1> QED BY <1>1, CallFacts DEF Stands, CallRelies

LEMMA PinStep ==
    ASSUME RunInv, NEW p \in Callers, Pin(p)
    PROVE  RunInv'
<1>1. calls[p].at \in Preparing
  BY DEF Pin, Preparing
<1>2. PICK q \in Calls : Stands(p, q)
  BY <1>1, CallStands
<1>3. /\ q.at = "pin" /\ q.loaded = NoRun /\ q.since <= main /\ q = calls[p]
      /\ UNCHANGED <<main, branches, trees, count>> /\ "load" \in Steps /\ "load" \in Preparing
      /\ main \in Bases
  BY <1>2, CallFacts DEF Pin, Stands, CallRelies, PrepareRelies, Steps, Preparing
<1>4. CASE q.base # NoBase /\ RecordsMovement(p)
  <2>1. calls[p].base \in Bases /\ lock = p
    BY <1>2, <1>3, <1>4 DEF Calls, Stands
  <2> QED BY <1>3, <1>4, <2>1, MovementIsRecorded
<1>5. CASE \/ calls' = [calls EXCEPT ![p].at = "load", ![p].base = main] /\ UNCHANGED <<records, lock>>
           \/ /\ q.base # NoBase /\ PinHolds(q.base) /\ Goes(p, "load")
              /\ UNCHANGED <<records, lock>>
  <2>1. PICK c : c = Onward(q, "load", main, q.publication, q.loaded)
    OBVIOUS
  <2>2. /\ c \in Calls /\ c.at = "load" /\ c.base = main /\ c.loaded = NoRun
        /\ c.candidate \in Candidates /\ c.since = q.since
    BY <1>2, <1>3, <2>1, OnwardFacts DEF Stands
  <2>3. calls' = [calls EXCEPT ![p] = c]
    <3>1. c = [q EXCEPT !.at = "load", !.base = main]
      BY <1>2, <2>1 DEF Onward, Stands, Calls
    <3>2. main = q.base => c = [q EXCEPT !.at = "load"]
      BY <1>2, <3>1 DEF Stands, Calls
    <3> QED BY <1>3, <1>5, <3>1, <3>2, CallFacts DEF Goes, PinHolds
  <2>4. GoesOn(p, c) /\ RecordStep(p) /\ lock = p
    BY <1>2, <1>3, <1>5, <2>2, <2>3 DEF GoesOn, RecordStep, Stands
  <2>5. CallRelies(c)' /\ IsCurrent(c)'
    BY <1>3, <2>2 DEF CallRelies, PrepareRelies, CheckRelies, IsCurrent, Making
  <2> QED BY <1>3, <2>4, <2>5, GoesOnKeeps
<1> QED BY <1>3, <1>4, <1>5 DEF Pin

\* A call that only goes on to another step.
LEMMA GoesOnward ==
    ASSUME RunInv, NEW p \in Callers, NEW q \in Calls, q = calls[p], NEW step \in Steps,
           Goes(p, step)
    PROVE  \E c \in Calls :
              /\ calls' = [calls EXCEPT ![p] = c]
              /\ c.at = step /\ c.base = q.base /\ c.publication = q.publication
              /\ c.loaded = q.loaded /\ c.candidate = q.candidate /\ c.since = q.since
              /\ KeyOf(c) = KeyOf(q) /\ BranchOf(c) = BranchOf(q)
<1>1. PICK c : c = [q EXCEPT !.at = step]
  OBVIOUS
<1>2. /\ c \in Calls /\ c.at = step /\ c.base = q.base /\ c.publication = q.publication
      /\ c.loaded = q.loaded /\ c.candidate = q.candidate /\ c.since = q.since
      /\ c.date = q.date
  BY <1>1 DEF Calls, Steps
<1>3. calls' = [calls EXCEPT ![p] = c]
  BY <1>1 DEF Goes
<1> QED BY <1>2, <1>3 DEF KeyOf, BranchOf

LEMMA LoadStep ==
    ASSUME RunInv, NEW p \in Callers, Load(p)
    PROVE  RunInv'
<1>1. calls[p].at \in Preparing
  BY DEF Load, Preparing
<1>2. PICK q \in Calls : Stands(p, q)
  BY <1>1, CallStands
<1>3. /\ q.at = "load" /\ q.loaded = NoRun /\ q.since <= q.base /\ q.base \in Bases /\ q = calls[p]
      /\ UNCHANGED <<main, branches, trees, count>> /\ lock = p /\ q.candidate \in Candidates
      /\ q.publication \in Publications
      /\ {"fresh", "recheck"} \subseteq Steps /\ {"fresh", "recheck"} \subseteq Preparing
  BY <1>2 DEF Load, Stands, CallRelies, PrepareRelies, Steps, Preparing
<1>4. PICK old \in RunStates \cup {NoRun} : old = records[KeyOf(q)]
  BY <1>3, KeyFacts
<1>5. CASE old = NoRun /\ Goes(p, "fresh") /\ UNCHANGED <<records, lock>>
  <2>1. PICK c \in Calls :
              /\ calls' = [calls EXCEPT ![p] = c]
              /\ c.at = "fresh" /\ c.base = q.base /\ c.publication = q.publication
              /\ c.loaded = q.loaded /\ c.candidate = q.candidate /\ c.since = q.since
              /\ KeyOf(c) = KeyOf(q) /\ BranchOf(c) = BranchOf(q)
    BY <1>3, <1>5, GoesOnward
  <2>2. GoesOn(p, c) /\ RecordStep(p)
    BY <1>3, <1>5, <2>1 DEF GoesOn, RecordStep
  <2>3. CallRelies(c)' /\ IsCurrent(c)'
    BY <1>3, <1>4, <1>5, <2>1 DEF CallRelies, PrepareRelies, CheckRelies, IsCurrent, Making
  <2> QED BY <1>3, <2>2, <2>3, GoesOnKeeps
<1>6. CASE Ends(p) /\ UNCHANGED records
  BY <1>3, <1>6, EndsKeep DEF RecordStep
<1>7. CASE old # NoRun /\ old.candidate = q.candidate
  <2>1. PICK publication \in Publications :
           /\ publication = Merged(old.publication, q.publication)
           /\ Known(old.publication) => publication = old.publication
    BY <1>3, <1>7 DEF Merged, RunStates
  <2>2. PICK s : s = [old EXCEPT !.publication = publication]
    OBVIOUS
  <2>3. /\ s \in RunStates /\ s.publication = publication /\ s.candidate = q.candidate
        /\ s.lifecycle = old.lifecycle /\ s.tree = old.tree
        /\ s.disposition = old.disposition /\ s.observed = old.observed
    BY <1>7, <2>2 DEF RunStates
  <2>4. CASE /\ records' = [records EXCEPT ![KeyOf(q)] = s] /\ UNCHANGED lock
             /\ calls' = [calls EXCEPT ![p].at = "recheck", ![p].publication = publication,
                                       ![p].loaded = s]
    <3>1. Records(KeyOf(q), s)
      <4>1. WellFormed(KeyOf(q)[2], s) /\ MayReplace(records[KeyOf(q)], s)
        BY <1>3, <1>4, <1>7, <2>3, KeyFacts DEF WellFormed, MayReplace
      <4>2. s.lifecycle = "pinned" => s.tree
        <5>1. KeyOf(q) \in Keys
          BY <1>3, KeyFacts
        <5>2. old.lifecycle = "pinned" => old.tree
          BY <1>4, <1>7, <5>1 DEF RunInv, RecordsRely, PinnedRunsNameATree
        <5> QED BY <2>3, <5>2
      <4>3. s.lifecycle = "ready" =>
               \E b \in branches : <<b.date, b.base>> = KeyOf(q) /\ trees[b] \in {"private", "changed"}
        BY <1>3, <1>4, <1>7, <2>3, KeyFacts DEF RunInv, RecordsRely, ReadyTreesAreSound
      <4>4. \A b \in Branches : (<<b.date, b.base>> = KeyOf(q) /\ trees[b] # "none") => s.tree
        BY <1>4, <2>3 DEF RunInv, RecordsRely, OneAttemptPerRun
      <4> QED BY <1>4, <2>1, <2>3, <2>4, <4>1, <4>2, <4>3, <4>4 DEF Records
    <3>2. PICK c : c = Onward(q, "recheck", q.base, publication, s)
      OBVIOUS
    <3>3. /\ c \in Calls /\ c.at = "recheck" /\ c.base = q.base /\ c.loaded = s
          /\ c.publication = publication /\ c.candidate = q.candidate /\ c.since = q.since
          /\ c.date = q.date
      BY <1>3, <2>3, <3>2, OnwardFacts
    <3>4. calls' = [calls EXCEPT ![p] = c]
      <4>1. c = [q EXCEPT !.at = "recheck", !.publication = publication, !.loaded = s]
        BY <3>2 DEF Onward, Calls
      <4> QED BY <1>3, <2>4, <4>1, CallFacts
    <3>5. KeyOf(c) = KeyOf(q) /\ KeyOf(q) \in Keys /\ records'[KeyOf(q)] = s /\ s # NoRun
      BY <1>3, <2>3, <2>4, <3>3, KeyFacts, NoRunAssumption DEF KeyOf, RunInv, RunTypeOK
    <3>6. GoesOn(p, c) /\ RecordStep(p)
      BY <1>3, <2>3, <2>4, <3>1, <3>3, <3>4, <3>5 DEF GoesOn, RecordStep
    <3>7. CallRelies(c)' /\ IsCurrent(c)'
      BY <1>3, <2>3, <3>3, <3>5 DEF CallRelies, PrepareRelies, CheckRelies, IsCurrent, Making
    <3> QED BY <1>3, <3>6, <3>7, GoesOnKeeps
  <2>5. \/ Ends(p) /\ UNCHANGED records
        \/ /\ records' = [records EXCEPT ![KeyOf(q)].publication = publication] /\ UNCHANGED lock
           /\ calls' = [calls EXCEPT ![p].at = "recheck", ![p].publication = publication,
                                     ![p].loaded = [old EXCEPT !.publication = publication]]
    BY <1>3, <1>4, <1>7, <2>1 DEF Load
  <2> QED BY <1>4, <1>6, <2>2, <2>4, <2>5
<1> QED BY <1>3, <1>4, <1>5, <1>6, <1>7 DEF Load

\* A prepare past its pin.
LEMMA PinnedStands ==
    ASSUME RunInv, NEW p \in Callers, calls[p].at \in Preparing \ {"pin"}
    PROVE  \E q \in Calls :
              /\ Stands(p, q) /\ q.base \in Bases /\ q.since <= q.base
              /\ KeyOf(q) \in Keys /\ BranchOf(q) \in Branches
<1>1. PICK q \in Calls : Stands(p, q)
  BY CallStands
<1>2. q.base \in Bases /\ q.since <= q.base /\ q.candidate \in Candidates
  BY <1>1 DEF Stands, CallRelies, PrepareRelies
<1> QED BY <1>1, <1>2, KeyFacts

LEMMA ReturnsKeep ==
    ASSUME RunInv, NEW p \in Callers, UNCHANGED <<main, branches, trees, count>>,
           NEW q \in Calls, Stands(p, q), q.base \in Bases, q.since <= q.base,
           NEW s \in RunStates, s.lifecycle = "ready",
           BranchOf(q) \in branches, trees[BranchOf(q)] \in {"private", "changed"},
           RecordStep(p), Returns(p, s)
    PROVE  RunInv'
<1>1. PICK c : c = Onward(q, "idle", q.base, q.publication, s)
  OBVIOUS
<1>2. /\ c \in Calls /\ c.at = "idle" /\ c.base = q.base /\ c.loaded = s
      /\ c.candidate = q.candidate /\ c.since = q.since /\ c.date = q.date
  <2>1. /\ "idle" \in Steps /\ q.publication \in Publications /\ q.base \in Bases \cup {NoBase}
        /\ s \in RunStates \cup {NoRun}
    BY DEF Stands, Steps
  <2> QED BY <1>1, <2>1, OnwardFacts
<1>3. calls' = [calls EXCEPT ![p] = c]
  <2>1. c = [q EXCEPT !.at = "idle", !.loaded = s]
    BY <1>1 DEF Onward, Calls
  <2> QED BY <2>1, CallFacts DEF Returns, Stands
<1>4. GoesOn(p, c)
  BY <1>2, <1>3 DEF GoesOn, Returns, Preparing, Making
<1>5. CallRelies(c)' /\ IsCurrent(c)'
  <2>1. BranchOf(c) = BranchOf(q)
    BY <1>2 DEF BranchOf
  <2> QED BY <1>2, <2>1 DEF CallRelies, PrepareRelies, CheckRelies, IsCurrent, Preparing, Making
<1> QED BY <1>4, <1>5, GoesOnKeeps DEF Stands

LEMMA FitTreesAreSound ==
    ASSUME RunInv, NEW b \in Branches, Fit(b)
    PROVE  b \in branches /\ trees[b] \in {"private", "changed"}
BY DEF RunInv, RecordsRely, TreesHaveBranches, Fit

LEMMA ReplayStep ==
    ASSUME RunInv, NEW p \in Callers, Replay(p)
    PROVE  RunInv'
<1>1. calls[p].at \in Preparing \ {"pin"}
  BY DEF Replay, Preparing
<1>2. PICK q \in Calls :
              /\ Stands(p, q) /\ q.base \in Bases /\ q.since <= q.base
              /\ KeyOf(q) \in Keys /\ BranchOf(q) \in Branches
  BY <1>1, PinnedStands
<1>3. /\ q = calls[p] /\ UNCHANGED <<main, records, branches, trees, count>>
      /\ q.loaded \in RunStates /\ q.loaded.lifecycle = "ready" /\ RecordStep(p)
  BY <1>2 DEF Replay, Stands, RecordStep
<1>4. CASE Fit(BranchOf(q)) /\ Returns(p, q.loaded)
  BY <1>2, <1>3, <1>4, FitTreesAreSound, ReturnsKeep
<1> QED BY <1>3, <1>4, EndsKeep DEF Replay

\* A run is recorded as ready with its worktree.
LEMMA ReadyIsRecorded ==
    ASSUME RunInv, NEW p \in Callers, NEW q \in Calls, Stands(p, q),
           q.at \in {"recheck", "ready"}, q.base \in Bases, q.loaded # NoRun,
           q.loaded.lifecycle = "pinned", Fit(BranchOf(q)),
           NEW s, s = Readied(q.loaded)
    PROVE  /\ s \in RunStates /\ s.lifecycle = "ready" /\ s.candidate = q.candidate
           /\ s.publication = q.publication
           /\ MayReplace(records[KeyOf(q)], s) /\ records' = [records EXCEPT ![KeyOf(q)] = s]
                 => Records(KeyOf(q), s)
<1>1. /\ q.loaded \in RunStates /\ q.loaded = records[KeyOf(q)]
      /\ q.loaded.candidate = q.candidate /\ q.loaded.publication = q.publication
      /\ q.candidate \in Candidates
  BY DEF Stands, CallRelies, PrepareRelies, Making
<1>2. KeyOf(q) \in Keys /\ BranchOf(q) \in Branches /\ KeyOf(q)[2] = q.base
      /\ WellFormed(q.base, q.loaded) /\ <<BranchOf(q).date, BranchOf(q).base>> = KeyOf(q)
  BY <1>1, KeyFacts
<1>3. /\ s \in RunStates /\ s.lifecycle = "ready" /\ s.disposition = "created"
      /\ s.tree = q.loaded.tree /\ s.candidate = q.candidate
      /\ s.publication = q.publication /\ s.observed = q.loaded.observed
  BY <1>1 DEF Readied, RunStates, Lifecycles
<1>4. q.loaded.tree
  BY <1>1, <1>2 DEF RunInv, RecordsRely, PinnedRunsNameATree
<1>5. WellFormed(KeyOf(q)[2], s)
  BY <1>2, <1>3, <1>4 DEF WellFormed
<1>6. BranchOf(q) \in branches /\ trees[BranchOf(q)] \in {"private", "changed"}
  BY <1>2, FitTreesAreSound
<1>7. MayReplace(records[KeyOf(q)], s) /\ records' = [records EXCEPT ![KeyOf(q)] = s]
        => Records(KeyOf(q), s)
  BY <1>1, <1>2, <1>3, <1>4, <1>5, <1>6 DEF Records
<1> QED BY <1>3, <1>7

LEMMA ResumeStep ==
    ASSUME RunInv, NEW p \in Callers, Resume(p)
    PROVE  RunInv'
<1>1. calls[p].at \in Preparing \ {"pin"}
  BY DEF Resume, Preparing
<1>2. PICK q \in Calls :
              /\ Stands(p, q) /\ q.base \in Bases /\ q.since <= q.base
              /\ KeyOf(q) \in Keys /\ BranchOf(q) \in Branches
  BY <1>1, PinnedStands
<1>3. /\ q = calls[p] /\ UNCHANGED <<main, branches, trees, count>> /\ lock = p
      /\ q.at = "recheck" /\ q.loaded \in RunStates /\ q.loaded # NoRun
      /\ q.loaded.lifecycle = "pinned" /\ ~Known(q.publication)
      /\ q.loaded = records[KeyOf(q)] /\ q.loaded.candidate = q.candidate
      /\ q.loaded.publication = q.publication /\ q.candidate \in Candidates
      /\ "fresh" \in Steps /\ "fresh" \in Preparing
  BY <1>2 DEF Resume, Stands, CallRelies, PrepareRelies, Steps, Preparing
<1>4. CASE Resumes(p)
  <2>1. PICK s : s = Readied(q.loaded)
    OBVIOUS
  <2>2. CASE Fit(BranchOf(q)) /\ Saves(p, KeyOf(q), s, Returns(p, s))
    <3>1. /\ s \in RunStates /\ s.lifecycle = "ready"
          /\ MayReplace(records[KeyOf(q)], s) /\ records' = [records EXCEPT ![KeyOf(q)] = s]
                => Records(KeyOf(q), s)
      BY <1>2, <1>3, <2>1, <2>2, ReadyIsRecorded
    <3>2. RecordStep(p) /\ Returns(p, s) => RunInv'
      BY <1>2, <1>3, <2>2, <3>1, FitTreesAreSound, ReturnsKeep
    <3> QED BY <1>2, <1>3, <2>2, <3>1, <3>2, SavesCase
  <2>3. CASE Ends(p) /\ UNCHANGED records
    BY <1>3, <2>3, EndsKeep DEF RecordStep
  <2> QED BY <1>3, <1>4, <2>1, <2>2, <2>3 DEF Resumes
<1>5. CASE RecordsBranch(p)
  BY <1>2, <1>3, <1>5, BranchIsRecorded
<1>6. CASE Goes(p, "fresh") /\ UNCHANGED <<records, lock>>
  <2>1. PICK c \in Calls :
              /\ calls' = [calls EXCEPT ![p] = c]
              /\ c.at = "fresh" /\ c.base = q.base /\ c.publication = q.publication
              /\ c.loaded = q.loaded /\ c.candidate = q.candidate /\ c.since = q.since
              /\ KeyOf(c) = KeyOf(q) /\ BranchOf(c) = BranchOf(q)
    BY <1>3, <1>6, GoesOnward
  <2>2. GoesOn(p, c) /\ RecordStep(p)
    BY <1>3, <1>6, <2>1 DEF GoesOn, RecordStep
  <2>3. CallRelies(c)' /\ IsCurrent(c)'
    BY <1>2, <1>3, <1>6, <2>1 DEF CallRelies, PrepareRelies, CheckRelies, IsCurrent, Making
  <2> QED BY <1>3, <2>2, <2>3, GoesOnKeeps
<1> QED BY <1>3, <1>4, <1>5, <1>6 DEF Resume

LEMMA RefuseStep ==
    ASSUME RunInv, NEW p \in Callers, Refuse(p)
    PROVE  RunInv'
<1>1. calls[p].at \in Preparing \ {"pin"}
  BY DEF Refuse, Preparing
<1>2. PICK q \in Calls :
              /\ Stands(p, q) /\ q.base \in Bases /\ q.since <= q.base
              /\ KeyOf(q) \in Keys /\ BranchOf(q) \in Branches
  BY <1>1, PinnedStands
<1>3. q = calls[p] /\ UNCHANGED <<main, branches, trees, count>> /\ lock = p /\ q.at = "recheck"
  BY <1>2 DEF Refuse, Stands
<1>4. CASE RecordsMovement(p)
  BY <1>2, <1>3, <1>4, MovementIsRecorded
<1>5. CASE Ends(p) /\ UNCHANGED records
  BY <1>3, <1>5, EndsKeep DEF RecordStep
<1> QED BY <1>4, <1>5 DEF Refuse

LEMMA FreshStep ==
    ASSUME RunInv, NEW p \in Callers, Fresh(p)
    PROVE  RunInv'
<1>1. calls[p].at \in Preparing \ {"pin"}
  BY DEF Fresh, Preparing
<1>2. PICK q \in Calls :
              /\ Stands(p, q) /\ q.base \in Bases /\ q.since <= q.base
              /\ KeyOf(q) \in Keys /\ BranchOf(q) \in Branches
  BY <1>1, PinnedStands
<1>3. /\ q = calls[p] /\ UNCHANGED <<main, branches, trees, count>> /\ lock = p
      /\ q.at = "fresh" /\ q.candidate \in Candidates /\ q.loaded = records[KeyOf(q)]
      /\ (q.loaded # NoRun => ~Known(q.publication))
      /\ "branch" \in Steps /\ "branch" \in Preparing /\ q.publication \in Publications
  BY <1>2 DEF Fresh, Stands, CallRelies, PrepareRelies, Steps, Preparing, Making
<1>4. CASE RecordsBranch(p)
  BY <1>2, <1>3, <1>4, BranchIsRecorded
<1>5. ASSUME BranchOf(q) \notin branches \/ records[KeyOf(q)] = NoRun
      PROVE  trees[BranchOf(q)] = "none"
  <2>1. <<BranchOf(q).date, BranchOf(q).base>> = KeyOf(q)
    BY <1>2, <1>3, KeyFacts
  <2> QED BY <1>2, <1>5, <2>1 DEF RunInv, RecordsRely, TreesHaveBranches, OneAttemptPerRun
<1>6. CASE /\ Known(q.publication)
           /\ Saves(p, KeyOf(q), NewState(q, "existing_publication", "absent", FALSE, q.base),
                    Ends(p))
  <2>0. PICK tree \in BOOLEAN : tree = FALSE
    OBVIOUS
  <2>1. PICK s : s = NewState(q, "existing_publication", "absent", tree, q.base)
    OBVIOUS
  <2>2. s \in RunStates
    BY <1>2, <1>3, <2>1, NewStateFacts DEF Lifecycles
  <2>3. trees[BranchOf(q)] = "none"
    BY <1>3, <1>5, <1>6
  <2>4. MayReplace(records[KeyOf(q)], s) /\ records' = [records EXCEPT ![KeyOf(q)] = s]
          => Records(KeyOf(q), s)
    BY <1>2, <1>3, <2>1, <2>3, NewStateIsRecorded
  <2>5. Saves(p, KeyOf(q), s, Ends(p))
    BY <1>6, <2>0, <2>1
  <2> QED BY <1>2, <1>3, <2>2, <2>4, <2>5, SavesCase, EndsKeep
<1>7. CASE /\ ~Known(q.publication) /\ BranchOf(q) \notin branches
           /\ RecordsPin(p, NewState(q, "pinned", "absent", TRUE, q.base))
  <2>0. PICK tree \in BOOLEAN : tree = TRUE
    OBVIOUS
  <2>1. PICK s : s = NewState(q, "pinned", "absent", tree, q.base)
    OBVIOUS
  <2>2. /\ s \in RunStates /\ s.lifecycle = "pinned" /\ s.candidate = q.candidate
        /\ s.publication = q.publication
    BY <1>2, <1>3, <2>1, NewStateFacts DEF Lifecycles
  <2>3. trees[BranchOf(q)] = "none"
    BY <1>5, <1>7
  <2>4. MayReplace(records[KeyOf(q)], s) /\ records' = [records EXCEPT ![KeyOf(q)] = s]
          => Records(KeyOf(q), s)
    BY <1>2, <1>3, <2>0, <2>1, <2>3, NewStateIsRecorded
  <2>5. CASE ~MayReplace(records[KeyOf(q)], s)
    <3>1. UNCHANGED records /\ Ends(p)
      BY <1>3, <1>7, <2>0, <2>1, <2>5 DEF RecordsPin, Saves
    <3> QED BY <1>3, <3>1, EndsKeep DEF RecordStep
  <2>6. CASE MayReplace(records[KeyOf(q)], s)
    <3>1. /\ records' = [records EXCEPT ![KeyOf(q)] = s] /\ UNCHANGED lock
          /\ calls' = [calls EXCEPT ![p].at = "branch", ![p].loaded = s]
      BY <1>3, <1>7, <2>0, <2>1, <2>6 DEF RecordsPin, Saves
    <3>2. PICK c : c = Onward(q, "branch", q.base, q.publication, s)
      OBVIOUS
    <3>3. /\ c \in Calls /\ c.at = "branch" /\ c.base = q.base /\ c.loaded = s
          /\ c.publication = q.publication /\ c.candidate = q.candidate /\ c.since = q.since
          /\ c.date = q.date
      BY <1>2, <1>3, <2>2, <3>2, OnwardFacts
    <3>4. calls' = [calls EXCEPT ![p] = c]
      <4>1. c = [q EXCEPT !.at = "branch", !.loaded = s]
        BY <3>2 DEF Onward, Calls
      <4> QED BY <1>3, <3>1, <4>1, CallFacts
    <3>5. /\ KeyOf(c) = KeyOf(q) /\ BranchOf(c) = BranchOf(q)
          /\ records'[KeyOf(q)] = s /\ s # NoRun
      BY <1>2, <2>2, <3>1, <3>3, NoRunAssumption DEF KeyOf, BranchOf, RunInv, RunTypeOK
    <3>6. GoesOn(p, c) /\ RecordStep(p)
      BY <1>2, <1>3, <2>2, <2>4, <2>6, <3>1, <3>3, <3>4 DEF GoesOn, RecordStep
    <3>7. CallRelies(c)' /\ IsCurrent(c)'
      BY <1>2, <1>3, <2>2, <2>3, <3>3, <3>5
         DEF CallRelies, PrepareRelies, CheckRelies, IsCurrent, Making
    <3> QED BY <1>3, <3>6, <3>7, GoesOnKeeps
  <2> QED BY <2>5, <2>6
<1> QED BY <1>3, <1>4, <1>6, <1>7 DEF Fresh

LEMMA SaveReadyStep ==
    ASSUME RunInv, NEW p \in Callers, SaveReady(p)
    PROVE  RunInv'
<1>1. calls[p].at \in Preparing \ {"pin"}
  BY DEF SaveReady, Preparing, Making
<1>2. PICK q \in Calls :
              /\ Stands(p, q) /\ q.base \in Bases /\ q.since <= q.base
              /\ KeyOf(q) \in Keys /\ BranchOf(q) \in Branches
  BY <1>1, PinnedStands
<1>3. /\ q = calls[p] /\ UNCHANGED <<main, branches, trees, count>> /\ lock = p
      /\ q.at = "ready" /\ q.candidate \in Candidates /\ q.loaded # NoRun
      /\ q.loaded.lifecycle = "pinned" /\ Fit(BranchOf(q)) /\ BranchOf(q) \in branches
      /\ "final" \in Steps /\ "final" \in Preparing /\ q.publication \in Publications
  BY <1>2 DEF SaveReady, Stands, CallRelies, PrepareRelies, Steps, Preparing, Making
<1>4. PICK s : s = Readied(q.loaded)
  OBVIOUS
<1>5. /\ s \in RunStates /\ s.lifecycle = "ready" /\ s.candidate = q.candidate
      /\ s.publication = q.publication
      /\ MayReplace(records[KeyOf(q)], s) /\ records' = [records EXCEPT ![KeyOf(q)] = s]
            => Records(KeyOf(q), s)
  BY <1>2, <1>3, <1>4, ReadyIsRecorded
<1>6. CASE ~MayReplace(records[KeyOf(q)], s)
  <2>1. UNCHANGED records /\ Ends(p)
    BY <1>3, <1>4, <1>6 DEF SaveReady, Saves
  <2> QED BY <1>3, <2>1, EndsKeep DEF RecordStep
<1>7. CASE MayReplace(records[KeyOf(q)], s)
  <2>1. /\ records' = [records EXCEPT ![KeyOf(q)] = s] /\ UNCHANGED lock
        /\ calls' = [calls EXCEPT ![p].at = "final", ![p].loaded = s]
    BY <1>3, <1>4, <1>7 DEF SaveReady, Saves
  <2>2. PICK c : c = Onward(q, "final", q.base, q.publication, s)
    OBVIOUS
  <2>3. /\ c \in Calls /\ c.at = "final" /\ c.base = q.base /\ c.loaded = s
        /\ c.publication = q.publication /\ c.candidate = q.candidate /\ c.since = q.since
        /\ c.date = q.date
    BY <1>2, <1>3, <1>5, <2>2, OnwardFacts
  <2>4. calls' = [calls EXCEPT ![p] = c]
    <3>1. c = [q EXCEPT !.at = "final", !.loaded = s]
      BY <2>2 DEF Onward, Calls
    <3> QED BY <1>3, <2>1, <3>1, CallFacts
  <2>5. /\ KeyOf(c) = KeyOf(q) /\ BranchOf(c) = BranchOf(q)
        /\ records'[KeyOf(q)] = s /\ s # NoRun
    BY <1>2, <1>5, <2>1, <2>3, NoRunAssumption DEF KeyOf, BranchOf, RunInv, RunTypeOK
  <2>6. GoesOn(p, c) /\ RecordStep(p)
    BY <1>2, <1>3, <1>5, <1>7, <2>1, <2>3, <2>4 DEF GoesOn, RecordStep
  <2>7. CallRelies(c)' /\ IsCurrent(c)'
    BY <1>2, <1>3, <1>5, <2>3, <2>5
       DEF CallRelies, PrepareRelies, CheckRelies, IsCurrent, Making
  <2> QED BY <1>3, <2>6, <2>7, GoesOnKeeps
<1> QED BY <1>6, <1>7

LEMMA FinalCheckStep ==
    ASSUME RunInv, NEW p \in Callers, FinalCheck(p)
    PROVE  RunInv'
<1>1. calls[p].at \in Preparing \ {"pin"}
  BY DEF FinalCheck, Preparing, Making
<1>2. PICK q \in Calls :
              /\ Stands(p, q) /\ q.base \in Bases /\ q.since <= q.base
              /\ KeyOf(q) \in Keys /\ BranchOf(q) \in Branches
  BY <1>1, PinnedStands
<1>3. /\ q = calls[p] /\ UNCHANGED <<main, branches, trees, count>> /\ lock = p
      /\ q.at = "final" /\ q.candidate \in Candidates
      /\ q.loaded \in RunStates /\ q.loaded = records[KeyOf(q)] /\ q.loaded # NoRun
      /\ q.loaded.candidate = q.candidate
      /\ q.loaded.lifecycle = "ready" /\ BranchOf(q) \in branches
  BY <1>2 DEF FinalCheck, Stands, CallRelies, PrepareRelies, Making
<1>4. CASE RecordsMovement(p)
  BY <1>2, <1>3, <1>4, MovementIsRecorded
<1>5. CASE Returns(p, q.loaded) /\ UNCHANGED records
  <2>1. PICK b \in branches : <<b.date, b.base>> = KeyOf(q) /\ trees[b] \in {"private", "changed"}
    BY <1>2, <1>3 DEF RunInv, RecordsRely, ReadyTreesAreSound
  <2>2. b \in Branches /\ b.candidate = q.candidate
    BY <1>3, <2>1 DEF RunInv, RunTypeOK, RecordsRely, OneAttemptPerRun
  <2>3. b = BranchOf(q)
    BY <1>2, <1>3, <2>1, <2>2, KeyFacts, OneBranch
  <2> QED BY <1>2, <1>3, <1>5, <2>1, <2>3, ReturnsKeep DEF RecordStep
<1> QED BY <1>3, <1>4, <1>5 DEF FinalCheck

LEMMA CheckRemoteStep ==
    ASSUME RunInv, NEW p \in Callers, CheckRemote(p)
    PROVE  RunInv'
<1>1. /\ UNCHANGED <<main, branches, trees, count>> /\ lock = NoCaller
      /\ calls[p].at = "unlocked" /\ calls[p].base \in Bases
  BY CallFacts DEF CheckRemote, CallRelies, CheckRelies
<1>2. CASE RecordsMovement(p)
  BY <1>1, <1>2, MovementIsRecorded
<1>3. CASE Ends(p) /\ UNCHANGED records
  BY <1>1, <1>3, EndsKeep DEF RecordStep
<1> QED BY <1>2, <1>3 DEF CheckRemote

LEMMA StopStep ==
    ASSUME RunInv, NEW p \in Callers, Stop(p)
    PROVE  RunInv'
BY EndsKeep DEF Stop, RecordStep

LEMMA StartPrepareStep ==
    ASSUME RunInv, NEW p \in Callers, NEW d \in Dates, NEW c \in Candidates,
           NEW base \in Bases \cup {NoBase}, NEW i \in Publications,
           StartPrepare(p, d, c, base, i)
    PROVE  RunInv'
<1>1. PICK q : q = [at |-> "pin", date |-> d, candidate |-> c, base |-> base,
                    publication |-> i, since |-> main, loaded |-> NoRun]
  OBVIOUS
<1>2. /\ q \in Calls /\ q.at = "pin" /\ q.candidate = c /\ q.since = main
      /\ q.loaded = NoRun /\ main \in Nat
  BY <1>1, CallFacts DEF Calls
<1>3. /\ calls' \in [Callers -> Calls] /\ calls'[p] = q /\ records' = records
      /\ \A o \in Callers \ {p} : calls'[o] = calls[o]
      /\ lock = NoCaller /\ lock' = p /\ UNCHANGED <<main, branches, trees>>
  BY <1>1, <1>2, CallFacts DEF StartPrepare, TakesLock
<1>4. CallStep(p)
  <2>1. count' \in 0..MaxCalls
    BY BoundsAssumption DEF RunInv, RunTypeOK, StartPrepare
  <2> QED BY <1>2, <1>3, <2>1 DEF CallStep, RecordStep, Preparing
<1>5. CallRelies(calls[p])' /\ IsCurrent(calls[p])'
  BY <1>2, <1>3 DEF CallRelies, PrepareRelies, CheckRelies, IsCurrent, Preparing, Making
<1> QED BY <1>4, <1>5, CallStepKeeps

LEMMA StartCheckStep ==
    ASSUME RunInv, NEW p \in Callers, NEW key \in Keys, StartCheck(p, key)
    PROVE  RunInv'
<1>1. PICK run \in RunStates : run = records[key] /\ run # NoRun /\ WellFormed(key[2], run)
  BY DEF RunInv, RunTypeOK, StartCheck
<1>2. key = <<key[1], key[2]>> /\ key[1] \in Dates /\ key[2] \in Bases
  BY DEF Keys
<1>3. PICK q : q = [Idle EXCEPT !.at = "unlocked", !.date = key[1], !.base = key[2],
                                !.candidate = run.candidate, !.loaded = run]
  OBVIOUS
<1>4. /\ q \in Calls /\ q.at = "unlocked" /\ q.date = key[1] /\ q.base = key[2]
      /\ q.candidate = run.candidate /\ q.loaded = run /\ run.candidate \in Candidates
  BY <1>1, <1>2, <1>3, IdleIsACall DEF Calls, RunStates
<1>5. KeyOf(q) = key
  BY <1>2, <1>4 DEF KeyOf
<1>6. /\ calls' \in [Callers -> Calls] /\ calls'[p] = q
      /\ \A o \in Callers \ {p} : calls'[o] = calls[o]
      /\ calls[p].at = "idle" /\ UNCHANGED <<main, records, branches, trees, lock>>
  BY <1>1, <1>3, <1>4, CallFacts DEF StartCheck
<1>7. CallStep(p)
  <2>1. count' \in 0..MaxCalls
    BY BoundsAssumption DEF RunInv, RunTypeOK, StartCheck
  <2>2. lock # p
    BY <1>6, CallFacts DEF Preparing, Making
  <2> QED BY <1>4, <1>6, <2>1, <2>2 DEF CallStep, RecordStep, Preparing, Making
<1>8. ~run.tree => run.lifecycle # "pinned" /\ trees[BranchOf(q)] = "none"
  <2>1. run.lifecycle = "pinned" => run.tree
    BY <1>1 DEF RunInv, RecordsRely, PinnedRunsNameATree
  <2>2. BranchOf(q) \in Branches /\ <<BranchOf(q).date, BranchOf(q).base>> = key
    BY <1>2, <1>4, <1>5, KeyFacts
  <2>3. trees[BranchOf(q)] # "none" => run.tree
    BY <1>1, <2>2 DEF RunInv, RecordsRely, OneAttemptPerRun
  <2> QED BY <2>1, <2>3
<1>9. CallRelies(calls[p])' /\ IsCurrent(calls[p])'
  BY <1>1, <1>2, <1>4, <1>5, <1>6, <1>8
     DEF CallRelies, PrepareRelies, CheckRelies, IsCurrent, Preparing, Making
<1> QED BY <1>7, <1>9, CallStepKeeps

-------------------------------------------------------------------------------
(***************************************************************************)
(* The steps of git, and those around the callers.                         *)
(***************************************************************************)

\* While p holds the lock, git makes a branch or a worktree of its pinned run.
LEMMA GitStepKeeps ==
    ASSUME RunInv, NEW p \in Callers, lock = p, UNCHANGED <<main, records, lock, count>>,
           NEW c \in Calls, calls' = [calls EXCEPT ![p] = c], c.at \in Preparing,
           NEW b \in Branches, records[<<b.date, b.base>>] # NoRun,
           records[<<b.date, b.base>>].candidate = b.candidate,
           records[<<b.date, b.base>>].lifecycle = "pinned",
           branches' \in {branches, branches \cup {b}},
           NEW s \in TreeStates, trees' \in {trees, [trees EXCEPT ![b] = s]},
           s = "none" \/ (trees[b] \in {"private", "changed"} => s \in {"private", "changed"}),
           trees' # trees => s # "none" /\ b \in branches,
           CallRelies(c)', IsCurrent(c)'
    PROVE  RunInv'
<1>1. /\ calls' \in [Callers -> Calls] /\ calls'[p] = c
      /\ \A o \in Callers \ {p} : calls'[o] = calls[o]
  BY CallFacts
<1>2. /\ branches \subseteq branches' /\ branches' \subseteq Branches
      /\ trees' \in [Branches -> TreeStates]
      /\ \A a \in Branches \ {b} : trees'[a] = trees[a] /\ (a \in branches' => a \in branches)
      /\ trees[b] \in {"private", "changed"} => trees'[b] \in {"private", "changed"}
      /\ trees'[b] = trees[b] \/ b \in branches
  BY DEF RunInv, RunTypeOK
<1>3. records[<<b.date, b.base>>].tree
  <2>1. <<b.date, b.base>> \in Keys
    BY DEF Branches, Keys
  <2> QED BY <2>1 DEF RunInv, RecordsRely, PinnedRunsNameATree
<1>4. TreesHaveBranches' /\ PinnedRunsNameATree'
  BY <1>2 DEF RunInv, RecordsRely, TreesHaveBranches, PinnedRunsNameATree
<1>5. OneAttemptPerRun'
  BY <1>2, <1>3 DEF RunInv, RecordsRely, OneAttemptPerRun
<1>6. ReadyTreesAreSound'
  <2> SUFFICES ASSUME NEW key \in Keys, records[key] # NoRun, records[key].lifecycle = "ready"
               PROVE  \E a \in branches' :
                         <<a.date, a.base>> = key /\ trees'[a] \in {"private", "changed"}
    BY DEF ReadyTreesAreSound
  <2>1. PICK a \in branches : <<a.date, a.base>> = key /\ trees[a] \in {"private", "changed"}
    BY DEF RunInv, RecordsRely, ReadyTreesAreSound
  <2>2. a \in Branches
    BY DEF RunInv, RunTypeOK
  <2> QED BY <1>2, <2>1, <2>2
<1>7. RunTypeOK'
  BY <1>1, <1>2 DEF RunInv, RunTypeOK
<1>8. LockIsHeld'
  <2>1. \A o \in Callers : calls[o].at \in Preparing <=> lock = o
    BY DEF RunInv, LockIsHeld
  <2>2. ASSUME NEW o \in Callers
        PROVE  calls'[o].at \in Preparing <=> lock' = o
    <3>1. CASE o = p
      BY <1>1, <3>1
    <3>2. CASE o # p
      <4>1. calls'[o] = calls[o] /\ lock' = lock
        BY <1>1, <3>2
      <4> QED BY <2>1, <4>1
    <3> QED BY <3>1, <3>2
  <2> QED BY <2>2 DEF LockIsHeld
<1>9. ASSUME NEW o \in Callers
      PROVE  CallRelies(calls[o])' /\ IsCurrent(calls[o])'
  <2>1. CASE o = p
    <3>1. calls'[o] = c
      BY <1>1, <2>1
    <3> QED BY <3>1 DEF CallRelies, PrepareRelies, CheckRelies, IsCurrent
  <2>2. CASE o # p
    <3>1. PICK q \in Calls : /\ q = calls[o] /\ calls'[o] = q /\ CallRelies(q) /\ IsCurrent(q)
                             /\ (q.at \in Preparing <=> lock = o)
      BY <1>1, <2>2, CallFacts
    <3>2. q.at \notin Preparing
      BY <2>2, <3>1
    <3>3. PrepareRelies(q)'
      BY <3>2 DEF PrepareRelies, Preparing, Making
    <3>4. CheckRelies(q)'
      <4> SUFFICES ASSUME q.at = "unlocked"  PROVE CheckRelies(q)'
        BY DEF CheckRelies
      <4>1. q.base \in Bases /\ q.candidate \in Candidates
        BY <3>1 DEF CallRelies, CheckRelies
      <4>2. BranchOf(q) \in Branches /\ <<BranchOf(q).date, BranchOf(q).base>> = KeyOf(q)
        BY <4>1, KeyFacts
      <4>3. ~q.loaded.tree => records[KeyOf(q)].lifecycle # "pinned" /\ trees[BranchOf(q)] = "none"
        BY <3>1 DEF CallRelies, CheckRelies
      <4>4. ~q.loaded.tree => trees'[BranchOf(q)] = "none"
        BY <1>2, <4>2, <4>3
      <4> QED BY <3>1, <4>3, <4>4 DEF CallRelies, CheckRelies
    <3>5. IsCurrent(q)'
      <4> SUFFICES ASSUME q.at = "idle", q.loaded # NoRun  PROVE IsCurrent(q)'
        BY DEF IsCurrent
      <4>1. /\ q.loaded.lifecycle = "ready" /\ BranchOf(q) \in branches /\ q.since <= q.base
            /\ trees[BranchOf(q)] \in {"private", "changed"} /\ BranchOf(q) \in Branches
        BY <3>1 DEF IsCurrent, RunInv, RunTypeOK
      <4>2. BranchOf(q) \in branches' /\ trees'[BranchOf(q)] \in {"private", "changed"}
        BY <1>2, <4>1
      <4> QED BY <4>1, <4>2 DEF IsCurrent
    <3> QED BY <3>1, <3>3, <3>4, <3>5 DEF CallRelies
  <2> QED BY <2>1, <2>2
<1> QED BY <1>4, <1>5, <1>6, <1>7, <1>8, <1>9 DEF RunInv, RecordsRely

\* A prepare that is making its run: it is recorded as pinned.
LEMMA MakingStands ==
    ASSUME RunInv, NEW p \in Callers, calls[p].at \in Making \ {"final"}
    PROVE  \E q \in Calls :
              /\ Stands(p, q) /\ q.base \in Bases /\ q.since <= q.base
              /\ BranchOf(q) \in Branches /\ KeyOf(q) \in Keys
              /\ <<BranchOf(q).date, BranchOf(q).base>> = KeyOf(q)
              /\ q.loaded # NoRun /\ q.loaded = records[KeyOf(q)]
              /\ q.loaded.candidate = q.candidate /\ q.loaded.publication = q.publication
              /\ q.loaded.lifecycle = "pinned"
              /\ BranchOf(q).candidate = q.candidate
<1>1. calls[p].at \in Preparing \ {"pin"}
  BY DEF Preparing, Making
<1>2. PICK q \in Calls :
              /\ Stands(p, q) /\ q.base \in Bases /\ q.since <= q.base
              /\ KeyOf(q) \in Keys /\ BranchOf(q) \in Branches
  BY <1>1, PinnedStands
<1>3. /\ q.loaded # NoRun /\ q.loaded = records[KeyOf(q)]
      /\ q.loaded.candidate = q.candidate /\ q.loaded.publication = q.publication
      /\ q.loaded.lifecycle = "pinned" /\ q.candidate \in Candidates
  BY <1>2 DEF Stands, CallRelies, PrepareRelies, Making
<1>4. /\ <<BranchOf(q).date, BranchOf(q).base>> = KeyOf(q)
      /\ BranchOf(q).candidate = q.candidate
  BY <1>2, <1>3, KeyFacts
<1> QED BY <1>2, <1>3, <1>4

LEMMA AddBranchStep ==
    ASSUME RunInv, NEW p \in Callers, AddBranch(p)
    PROVE  RunInv'
<1>1. calls[p].at \in Making \ {"final"}
  BY DEF AddBranch, Making
<1>2. PICK q \in Calls :
              /\ Stands(p, q) /\ q.base \in Bases /\ q.since <= q.base
              /\ BranchOf(q) \in Branches /\ KeyOf(q) \in Keys
              /\ <<BranchOf(q).date, BranchOf(q).base>> = KeyOf(q)
              /\ q.loaded # NoRun /\ q.loaded = records[KeyOf(q)]
              /\ q.loaded.candidate = q.candidate /\ q.loaded.publication = q.publication
              /\ q.loaded.lifecycle = "pinned"
              /\ BranchOf(q).candidate = q.candidate
  BY <1>1, MakingStands
<1>3. /\ q = calls[p] /\ UNCHANGED <<main, trees, count>> /\ lock = p /\ q.at = "branch"
      /\ q.candidate \in Candidates /\ trees[BranchOf(q)] = "none"
      /\ "tree" \in Steps /\ "tree" \in Preparing
  BY <1>2 DEF AddBranch, Stands, CallRelies, PrepareRelies, Steps, Preparing, Making
<1>4. CASE RecordsMovement(p) /\ UNCHANGED branches
  BY <1>2, <1>3, <1>4, MovementIsRecorded
<1>5. CASE /\ branches' = branches \cup {BranchOf(q)}
           /\ Goes(p, "tree") /\ UNCHANGED <<records, lock>>
  <2>1. PICK c \in Calls :
              /\ calls' = [calls EXCEPT ![p] = c]
              /\ c.at = "tree" /\ c.base = q.base /\ c.publication = q.publication
              /\ c.loaded = q.loaded /\ c.candidate = q.candidate /\ c.since = q.since
              /\ KeyOf(c) = KeyOf(q) /\ BranchOf(c) = BranchOf(q)
    BY <1>3, <1>5, GoesOnward
  <2>2. CallRelies(c)' /\ IsCurrent(c)'
    BY <1>2, <1>3, <1>5, <2>1 DEF CallRelies, PrepareRelies, CheckRelies, IsCurrent, Making
  <2>3. "none" \in TreeStates
    BY DEF TreeStates
  <2> QED BY <1>2, <1>3, <1>5, <2>1, <2>2, <2>3, GitStepKeeps
<1> QED BY <1>3, <1>4, <1>5 DEF AddBranch

LEMMA TreeStepKeeps ==
    ASSUME RunInv, NEW p \in Callers, NEW step \in {"chmod", "ready"}, Goes(p, step),
           calls[p].at \in {"tree", "chmod"}, NEW s \in {"exposed", "private"},
           s = "exposed" => calls[p].at = "tree",
           trees' = [trees EXCEPT ![BranchOf(calls[p])] = s],
           UNCHANGED <<main, records, branches, lock, count>>
    PROVE  RunInv'
<1>1. calls[p].at \in Making \ {"final"}
  BY DEF Making
<1>2. PICK q \in Calls :
              /\ Stands(p, q) /\ q.base \in Bases /\ q.since <= q.base
              /\ BranchOf(q) \in Branches /\ KeyOf(q) \in Keys
              /\ <<BranchOf(q).date, BranchOf(q).base>> = KeyOf(q)
              /\ q.loaded # NoRun /\ q.loaded = records[KeyOf(q)]
              /\ q.loaded.candidate = q.candidate /\ q.loaded.publication = q.publication
              /\ q.loaded.lifecycle = "pinned"
              /\ BranchOf(q).candidate = q.candidate
  BY <1>1, MakingStands
<1>3. /\ q = calls[p] /\ lock = p /\ q.candidate \in Candidates /\ BranchOf(q) \in branches
      /\ q.at = "tree" => trees[BranchOf(q)] = "none"
      /\ step \in Steps /\ step \in Preparing /\ step \in Making \ {"branch", "final", "tree"}
  BY <1>2 DEF Stands, CallRelies, PrepareRelies, Steps, Preparing, Making
<1>4. PICK c \in Calls :
              /\ calls' = [calls EXCEPT ![p] = c]
              /\ c.at = step /\ c.base = q.base /\ c.publication = q.publication
              /\ c.loaded = q.loaded /\ c.candidate = q.candidate /\ c.since = q.since
              /\ KeyOf(c) = KeyOf(q) /\ BranchOf(c) = BranchOf(q)
  BY <1>3, GoesOnward
<1>5. CallRelies(c)' /\ IsCurrent(c)'
  BY <1>2, <1>3, <1>4 DEF CallRelies, PrepareRelies, CheckRelies, IsCurrent, Making
<1>6. s \in TreeStates /\ (trees[BranchOf(q)] \in {"private", "changed"} => s \in {"private", "changed"})
  BY <1>3 DEF TreeStates
<1> QED BY <1>2, <1>3, <1>4, <1>5, <1>6, GitStepKeeps

LEMMA AddTreeStep ==
    ASSUME RunInv, NEW p \in Callers, AddTree(p)
    PROVE  RunInv'
<1>1. PICK s \in {"exposed", "private"} : trees' = [trees EXCEPT ![BranchOf(calls[p])] = s]
  BY DEF AddTree
<1> QED BY <1>1, TreeStepKeeps DEF AddTree

LEMMA ChmodStep ==
    ASSUME RunInv, NEW p \in Callers, Chmod(p)
    PROVE  RunInv'
BY TreeStepKeeps DEF Chmod

LEMMA MainMovesStep ==
    ASSUME RunInv, MainMoves
    PROVE  RunInv'
<1>1. main' \in Bases /\ main <= main' /\ main \in Nat /\ main' \in Nat
  BY BoundsAssumption DEF MainMoves, RunInv, RunTypeOK, Bases
<1>2. ASSUME NEW p \in Callers
      PROVE  CallRelies(calls[p])' /\ IsCurrent(calls[p])'
  <2>1. /\ calls[p].since \in Nat /\ CallRelies(calls[p]) /\ IsCurrent(calls[p])
    BY CallFacts
  <2>2. calls[p].since <= main => calls[p].since <= main'
    BY <1>1, <2>1
  <2>3. PrepareRelies(calls[p])' /\ CheckRelies(calls[p])' /\ IsCurrent(calls[p])'
    BY <2>1, <2>2 DEF MainMoves, CallRelies, PrepareRelies, CheckRelies, IsCurrent
  <2> QED BY <2>1, <2>3 DEF CallRelies, MainMoves
<1>3. RunTypeOK' /\ LockIsHeld'
  BY <1>1 DEF MainMoves, RunInv, RunTypeOK, LockIsHeld
<1>4. RecordsRely'
  BY DEF MainMoves, RunInv, RecordsRely, TreesHaveBranches, PinnedRunsNameATree,
         OneAttemptPerRun, ReadyTreesAreSound
<1> QED BY <1>2, <1>3, <1>4 DEF RunInv

LEMMA WorkInTreeStep ==
    ASSUME RunInv, NEW b \in Branches, WorkInTree(b)
    PROVE  RunInv'
<1>1. /\ trees \in [Branches -> TreeStates] /\ trees' \in [Branches -> TreeStates]
      /\ \A a \in Branches : (trees'[a] = "none") = (trees[a] = "none")
      /\ \A a \in Branches :
            trees[a] \in {"private", "changed"} => trees'[a] \in {"private", "changed"}
      /\ UNCHANGED <<main, records, branches, lock, calls, count>>
      /\ branches \subseteq Branches
  BY DEF WorkInTree, RunInv, RunTypeOK, TreeStates
<1>2. RecordsRely'
  <2>1. TreesHaveBranches' /\ PinnedRunsNameATree' /\ OneAttemptPerRun'
    BY <1>1 DEF RunInv, RecordsRely, TreesHaveBranches, PinnedRunsNameATree, OneAttemptPerRun
  <2>2. ReadyTreesAreSound'
    BY <1>1 DEF RunInv, RecordsRely, ReadyTreesAreSound
  <2> QED BY <2>1, <2>2 DEF RecordsRely
<1>3. ASSUME NEW p \in Callers
      PROVE  CallRelies(calls[p])' /\ IsCurrent(calls[p])'
  <2>1. PICK q \in Calls : q = calls[p] /\ CallRelies(q) /\ IsCurrent(q)
    BY CallFacts
  <2>2. (q.base \in Bases /\ q.candidate \in Candidates) => BranchOf(q) \in Branches
    BY KeyFacts
  <2>3. PrepareRelies(q)' /\ CheckRelies(q)'
    BY <1>1, <2>1, <2>2 DEF CallRelies, PrepareRelies, CheckRelies, Preparing, Making
  <2>4. IsCurrent(q)'
    BY <1>1, <2>1 DEF IsCurrent
  <2> QED BY <1>1, <2>1, <2>3, <2>4 DEF CallRelies
<1>4. RunTypeOK' /\ LockIsHeld'
  BY <1>1 DEF RunInv, RunTypeOK, LockIsHeld
<1> QED BY <1>2, <1>3, <1>4 DEF RunInv

-------------------------------------------------------------------------------
(***************************************************************************)
(* The theorems.                                                           *)
(***************************************************************************)

LEMMA InitRunInv == Init => RunInv
<1> SUFFICES ASSUME Init  PROVE RunInv
  OBVIOUS
<1>1. 0 \in Bases /\ 0 \in 0..MaxCalls
  BY BoundsAssumption DEF Bases
<1>2. /\ calls \in [Callers -> Calls] /\ lock = NoCaller /\ branches = {}
      /\ \A p \in Callers : calls[p].at = "idle" /\ calls[p].loaded = NoRun
      /\ \A key \in Keys : records[key] = NoRun
      /\ \A b \in Branches : trees[b] = "none"
  BY IdleIsACall DEF Init
<1>3. RunTypeOK
  BY <1>1, <1>2 DEF Init, RunTypeOK, TreeStates
<1>4. LockIsHeld
  BY <1>2, NullsAssumption DEF LockIsHeld, Preparing, Making
<1>5. RecordsRely
  BY <1>2 DEF RecordsRely, TreesHaveBranches, PinnedRunsNameATree, OneAttemptPerRun,
              ReadyTreesAreSound
<1>6. \A p \in Callers : CallRelies(calls[p]) /\ IsCurrent(calls[p])
  BY <1>2 DEF CallRelies, PrepareRelies, CheckRelies, IsCurrent, Preparing, Making
<1> QED BY <1>3, <1>4, <1>5, <1>6 DEF RunInv

LEMMA NextKeeps == RunInv /\ [Next]_vars => RunInv'
<1> SUFFICES ASSUME RunInv, [Next]_vars  PROVE RunInv'
  OBVIOUS
<1>1. CASE UNCHANGED vars
  BY <1>1 DEF vars, RunInv, RunTypeOK, LockIsHeld, RecordsRely, TreesHaveBranches,
              PinnedRunsNameATree, OneAttemptPerRun, ReadyTreesAreSound, CallRelies,
              PrepareRelies, CheckRelies, IsCurrent
<1>2. ASSUME NEW p \in Callers, NEW d \in Dates, NEW c \in Candidates,
             NEW base \in Bases \cup {NoBase}, NEW i \in Publications,
             StartPrepare(p, d, c, base, i)
      PROVE  RunInv'
  BY <1>2, StartPrepareStep
<1>3. ASSUME NEW p \in Callers, NEW key \in Keys, StartCheck(p, key)
      PROVE  RunInv'
  BY <1>3, StartCheckStep
<1>4. ASSUME NEW p \in Callers, Step(p)
      PROVE  RunInv'
  BY <1>4, PinStep, LoadStep, ReplayStep, ResumeStep, RefuseStep, FreshStep, AddBranchStep,
     AddTreeStep, ChmodStep, SaveReadyStep, FinalCheckStep, CheckRemoteStep, StopStep DEF Step
<1>5. CASE MainMoves
  BY <1>5, MainMovesStep
<1>6. ASSUME NEW b \in Branches, WorkInTree(b)
      PROVE  RunInv'
  BY <1>6, WorkInTreeStep
<1> QED BY <1>1, <1>2, <1>3, <1>4, <1>5, <1>6 DEF Next

\* The inductive invariant: the repository lock makes what a prepare has loaded the record
\* of its run, and a check-remote relies only on what no save takes back.
THEOREM RunInvariant == Spec => []RunInv
BY InitRunInv, NextKeeps, PTL DEF Spec

\* Every reachable state is well typed: every record that worktree.py saves is one that
\* RunState loads again.
THEOREM RunIsTyped == Spec => []RunTypeOK
<1>1. RunInv => RunTypeOK
  BY DEF RunInv
<1> QED BY <1>1, RunInvariant, PTL

\* A date and base get one attempt, however the callers die and try again: every daily
\* branch and worktree is the one that its record names.
THEOREM RunsGetOneAttempt == Spec => []OneAttemptPerRun
<1>1. RunInv => OneAttemptPerRun
  BY DEF RunInv, RecordsRely
<1> QED BY <1>1, RunInvariant, PTL

\* A run that is recorded as ready has its worktree, private to its owner.
THEOREM ReadyTreesStaySound == Spec => []ReadyTreesAreSound
<1>1. RunInv => ReadyTreesAreSound
  BY DEF RunInv, RecordsRely
<1> QED BY <1>1, RunInvariant, PTL

\* A ready run that prepare returns has its branch and worktree, and main was at its base
\* at some time since the caller asked.
THEOREM ReturnedRunsStayCurrent == Spec => []ReturnedRunsAreCurrent
<1>1. RunInv => ReturnedRunsAreCurrent
  BY DEF RunInv, ReturnedRunsAreCurrent, IsCurrent
<1> QED BY <1>1, RunInvariant, PTL

\* A step does not take back a known publication.
PublicationsStand ==
    \A key \in Keys :
        (/\ records[key] # NoRun
         /\ Known(records[key].publication)
         /\ records'[key].lifecycle # "remote_moved")
        => records'[key].publication = records[key].publication

LEMMA SavesStand ==
    ASSUME RunInv, NEW p \in Callers, NEW key \in Keys, NEW s, NEW Then, Saves(p, key, s, Then),
           (records[key] # NoRun /\ Known(records[key].publication))
              => s.lifecycle = "remote_moved" \/ s.publication = records[key].publication
    PROVE  PublicationsStand
BY DEF Saves, PublicationsStand, RunInv, RunTypeOK

LEMMA MovementStands ==
    ASSUME RunInv, NEW p \in Callers, calls[p].base \in Bases, RecordsMovement(p)
    PROVE  PublicationsStand
<1>1. PICK s : s = Movement(calls[p], calls[p].loaded)
  OBVIOUS
<1>2. s.lifecycle = "remote_moved"
  BY <1>1, CallFacts DEF Movement, NewState, RunStates
<1>3. KeyOf(calls[p]) \in Keys /\ Saves(p, KeyOf(calls[p]), s, Ends(p))
  BY <1>1, CallFacts, KeyFacts DEF RecordsMovement
<1> QED BY <1>2, <1>3, SavesStand

\* A state that carries the publication of the call.
LEMMA CarriedStands ==
    ASSUME RunInv, NEW p \in Callers, calls[p].at \in {"recheck", "fresh", "ready"},
           NEW s, s.publication = calls[p].publication, NEW Then,
           Saves(p, KeyOf(calls[p]), s, Then)
    PROVE  PublicationsStand
<1>1. calls[p].at \in Preparing \ {"pin"}
  BY DEF Preparing, Making
<1>2. PICK q \in Calls :
              /\ Stands(p, q) /\ q.base \in Bases /\ q.since <= q.base
              /\ KeyOf(q) \in Keys /\ BranchOf(q) \in Branches
  BY <1>1, PinnedStands
<1>3. /\ q = calls[p] /\ q.loaded = records[KeyOf(q)]
      /\ q.loaded # NoRun => q.loaded.publication = q.publication
  BY <1>2 DEF Stands, CallRelies, PrepareRelies, Making
<1> QED BY <1>2, <1>3, SavesStand

LEMMA NewStateStands ==
    ASSUME RunInv, NEW p \in Callers, calls[p].at \in {"recheck", "fresh"},
           NEW lifecycle, NEW disposition, NEW tree, NEW observed, NEW Then,
           Saves(p, KeyOf(calls[p]),
                 NewState(calls[p], lifecycle, disposition, tree, observed), Then)
    PROVE  PublicationsStand
<1>1. PICK s : s = NewState(calls[p], lifecycle, disposition, tree, observed)
  OBVIOUS
<1>2. s.publication = calls[p].publication
  BY <1>1 DEF NewState
<1> QED BY <1>1, <1>2, CarriedStands

LEMMA StepStands ==
    ASSUME RunInv, NEW p \in Callers, Step(p)
    PROVE  PublicationsStand
<1>1. UNCHANGED records => PublicationsStand
  BY DEF PublicationsStand
<1>2. calls[p].at \in (Preparing \ {"pin"}) \cup {"unlocked"} => calls[p].base \in Bases
  BY CallFacts DEF CallRelies, PrepareRelies, CheckRelies
<1>3. CASE Pin(p)
  <2>1. calls[p].base # NoBase => calls[p].base \in Bases
    BY CallFacts DEF Calls
  <2> QED BY <1>1, <1>3, <2>1, MovementStands DEF Pin
<1>4. CASE Load(p)
  <2>1. calls[p].at \in Preparing \ {"pin"}
    BY <1>4 DEF Load, Preparing
  <2>2. PICK q \in Calls :
              /\ Stands(p, q) /\ q.base \in Bases /\ q.since <= q.base
              /\ KeyOf(q) \in Keys /\ BranchOf(q) \in Branches
    BY <2>1, PinnedStands
  <2>3. q = calls[p]
    BY <2>2 DEF Stands
  <2>4. PICK old \in RunStates \cup {NoRun} : old = records[KeyOf(q)]
    BY <2>2, <2>3, KeyFacts
  <2>5. PICK publication : publication = Merged(old.publication, q.publication)
    OBVIOUS
  <2>6. Known(old.publication) => publication = old.publication
    BY <2>5 DEF Merged
  <2>7. \/ UNCHANGED records
        \/ old # NoRun /\ records' = [records EXCEPT ![KeyOf(q)] = [old EXCEPT !.publication = publication]]
    BY <1>4, <2>2, <2>3, <2>4, <2>5 DEF Load, RunInv, RunTypeOK
  <2>8. CASE old # NoRun /\ records' = [records EXCEPT ![KeyOf(q)] = [old EXCEPT !.publication = publication]]
    <3>1. PICK s : s = [old EXCEPT !.publication = publication]
      OBVIOUS
    <3>2. s.publication = publication
      BY <2>4, <2>8, <3>1 DEF RunStates
    <3>3. /\ records'[KeyOf(q)] = s
          /\ \A key \in Keys \ {KeyOf(q)} : records'[key] = records[key]
      BY <2>2, <2>8, <3>1 DEF RunInv, RunTypeOK
    <3> QED BY <2>4, <2>6, <3>2, <3>3 DEF PublicationsStand
  <2> QED BY <1>1, <2>7, <2>8
<1>5. CASE Resume(p)
  <2>1. calls[p].at = "recheck" /\ calls[p].at \in Preparing /\ calls[p].loaded # NoRun
    BY <1>5, CallFacts DEF Resume, CallRelies, PrepareRelies, Preparing
  <2>2. PICK s : s = Readied(calls[p].loaded)
    OBVIOUS
  <2>3. s.publication = calls[p].publication
    <3>1. calls[p].loaded \in RunStates /\ calls[p].loaded.publication = calls[p].publication
      BY <2>1, CallFacts DEF CallRelies, PrepareRelies
    <3> QED BY <2>2, <3>1 DEF Readied, RunStates
  <2>4. CASE Resumes(p)
    <3>1. UNCHANGED records \/ Saves(p, KeyOf(calls[p]), s, Returns(p, s))
      BY <2>2, <2>4 DEF Resumes
    <3>2. CASE Saves(p, KeyOf(calls[p]), s, Returns(p, s))
      BY <2>1, <2>3, <3>2, CarriedStands
    <3> QED BY <1>1, <3>1, <3>2
  <2>5. CASE RecordsBranch(p)
    BY <2>1, <2>5, NewStateStands DEF RecordsBranch
  <2> QED BY <1>1, <1>5, <2>4, <2>5 DEF Resume
<1>6. CASE Refuse(p)
  BY <1>1, <1>2, <1>6, MovementStands DEF Refuse, Preparing
<1>7. CASE Fresh(p)
  <2>1. calls[p].at = "fresh"
    BY <1>7 DEF Fresh
  <2>2. CASE RecordsBranch(p)
    BY <2>1, <2>2, NewStateStands DEF RecordsBranch
  <2>3. CASE RecordsPin(p, NewState(calls[p], "pinned", "absent", TRUE, calls[p].base))
    BY <2>1, <2>3, NewStateStands DEF RecordsPin
  <2>4. CASE Saves(p, KeyOf(calls[p]),
                   NewState(calls[p], "existing_publication", "absent", FALSE, calls[p].base),
                   Ends(p))
    BY <2>1, <2>4, NewStateStands
  <2> QED BY <1>7, <2>2, <2>3, <2>4 DEF Fresh
<1>8. CASE AddBranch(p)
  BY <1>1, <1>2, <1>8, MovementStands DEF AddBranch, Preparing, Making
<1>9. CASE SaveReady(p)
  <2>1. calls[p].at = "ready" /\ calls[p].at \in Preparing
    BY <1>9 DEF SaveReady, Preparing, Making
  <2>2. PICK s : s = Readied(calls[p].loaded)
    OBVIOUS
  <2>3. s.publication = calls[p].publication
    <3>1. calls[p].loaded \in RunStates /\ calls[p].loaded.publication = calls[p].publication
      BY <2>1, CallFacts DEF CallRelies, PrepareRelies, Making
    <3> QED BY <2>2, <3>1 DEF Readied, RunStates
  <2>4. PICK Then : Saves(p, KeyOf(calls[p]), s, Then)
    BY <1>9, <2>2 DEF SaveReady
  <2> QED BY <2>1, <2>3, <2>4, CarriedStands
<1>10. CASE FinalCheck(p)
  BY <1>1, <1>2, <1>10, MovementStands DEF FinalCheck, Preparing, Making
<1>11. CASE CheckRemote(p)
  BY <1>1, <1>2, <1>11, MovementStands DEF CheckRemote
<1>12. CASE Replay(p) \/ AddTree(p) \/ Chmod(p) \/ Stop(p)
  BY <1>1, <1>12 DEF Replay, AddTree, Chmod, Stop
<1> QED BY <1>3, <1>4, <1>5, <1>6, <1>7, <1>8, <1>9, <1>10, <1>11, <1>12 DEF Step

\* A pull request that is recorded stays in its run's record until main moves, whatever the
\* callers say of publications and whoever saves the run.
THEOREM RecordedPublicationsStay == Spec => PublicationsStay
<1>1. RunInv /\ [Next]_vars =>
        [\A key \in Keys :
          /\ records[key] # NoRun
          /\ Known(records[key].publication)
          /\ records'[key].lifecycle # "remote_moved"
          => records'[key].publication = records[key].publication]_vars
  <2> SUFFICES ASSUME RunInv, Next
               PROVE  PublicationsStand
    BY DEF PublicationsStand
  <2>1. UNCHANGED records => PublicationsStand
    BY DEF PublicationsStand
  <2>2. UNCHANGED records \/ \E p \in Callers : Step(p)
    BY DEF Next, StartPrepare, StartCheck, MainMoves, WorkInTree
  <2> QED BY <2>1, <2>2, StepStands
<1> QED BY <1>1, RunInvariant, PTL DEF Spec, PublicationsStay
===============================================================================
