# VISTA-World: TLA+ models of the home runtime, its clients and its maintainer

These modules model the three parts of VISTA-World in which several actors
share state that lasts:

* the C++ plugin `unreal_plugins/VistaPlayableHome`, in which a player and several
  NPCs act on items, containers and appliances of a simulated home while clients
  send commands over TCP and scripted events overlay the world;
* the Python clients that start an event and hand its NPCs their queues
  (`tools/runtime/vista_playable_home`);
* the daily maintainer (`automation/daily-maintainer`), whose processes turn a
  candidate change into a worktree, a sealed spool record, a commit and a draft
  pull request, and may die between any two steps.

Paths below are relative to `src/`; `P/` stands for
`unreal_plugins/VistaPlayableHome/Source/VistaPlayableHome/Private/` and `D/` for
`automation/daily-maintainer/src/vista_daily_maintainer/`.

## 1. Inventory of the system

| component | state it keeps | operations |
|---|---|---|
| Command ledger (`P/VistaPlayableHomeRuntimeSubsystem.cpp`) | `PhysicalCommandLedger` (id to request, receipt, owner), `PhysicalCommandOrder`; the session generation (kept by the event subsystem) | replay, claim, publish, finalize, evict; validation and commit of the generation |
| Action executor (`P/VistaActionExecutorComponent.cpp`, `...Semantic.cpp`), one per actor | `ActiveAction` or `ActiveSemanticAction`: command, request, phase, deadline, before-state, contact flags | begin, tick through Approach, Align, Animate, ContactCommit, Complete; time out; cancel; compensate; finalize |
| Portable items (`P/VistaPickupActor.cpp`) | disposition, carrier, active transaction (executor, command, paired container), liquid | reserve, release, attach, release from carrier, trusted restore, EndPlay |
| Storage containers (`P/VistaContainerActor.cpp`) | open flag, contained item, active transaction (executor, command, paired item) | reserve, transfer, toggle, restore, release |
| Characters (`P/VistaPlayableHomeCharacter.cpp`, `P/VistaHomeNpcCharacter.cpp`) | `HeldItem` inventory slot | try-hold, release, EndPlay of the player |
| NPC action queue (`P/VistaHomeNpcController.cpp`) | `ActionQueue`, current action and result, navigation request, start time | replace, enqueue, cancel, tick, move completion |
| Event overlay (`P/VistaEventSubsystem.cpp`) | active event, baseline states, spawned fixtures, status, session generation | start, evaluate outcome, time out, reset, restore baseline |
| Liquids (`P/VistaLiquidReceiverActor.cpp`), seats (`P/VistaSeatActor.cpp`, `P/VistaPostureComponent.cpp`), appliances and doors | their own reservation and semantic state | two-participant pour, sit and stand, toggle |
| TCP adapter (`P/VistaWorldTcpAdapter.cpp`) | socket thread, per-request dispatch state | dispatch to the game thread with a timeout |
| Event dispatch clients (`tools/runtime/vista_playable_home/event_v*_dispatch.py`) | the generation each was last told, whether a queue commit may have occurred | probe, preflight, start event, commit queues, drain, roll back |
| Maintainer: runs, worktrees and commands (`D/state.py`, `D/worktree.py`, `D/cli.py`) | run records by date and base, daily branches, registered worktrees, a kernel lock | due, prepare, check-remote |
| Maintainer: candidate spool and publisher state (`D/spool.py`) | five spool files and two publisher files per id, rebuilt checkouts | reserve, seal, put, read; rematerialize |
| Maintainer: publisher (`D/publisher.py`, `D/git_adapter.py`, `D/github_adapter.py`) | nothing of its own: checkout, remote branch, pull requests | publish |
| Maintainer: candidate, patcher, verifier, receipts (`D/candidate.py`, ...) | none: documents in, documents out | validate, patch, verify |
| Live director and conversation (`tools/runtime/vista_live`, `vista_companion`, `vista_web`) | request budget, sessions, a director turn in flight | turns, streaming, budget reservation |
| World compilers, asset pipeline, workspace tools (`tools/worlds`, `tools/...`) | none between runs | batch transformation and capture |

**How they interact.** All of the runtime but the socket thread runs on the
engine's game thread, so one handler with everything it calls is atomic. What
interleaves are the *ticks* of the executors and NPC controllers, client
commands that arrive between ticks, players that leave, items that are
destroyed, and event commands. An affordance goes
client, player input or NPC queue -> executor -> ledger claim -> reservation of
item and container -> phases over many frames -> mutation of the item, the
container and the hand at the contact -> clip tail -> ledger finalization, whose
callback releases the reservations -> receipt.

A dispatch is a sequence of requests, each an exchange of its own: client ->
socket thread -> game thread -> event subsystem or NPC queue -> answer. Every
mutating request names the session generation the client was last told, and every
one that succeeds ends that generation. Several clients do this at once.

A day of the maintainer goes prepare (run record, branch, worktree) -> work in
the worktree -> candidate, patch, verification -> spool record, by the control
user -> rebuilt checkout and publication, by the publisher user. prepare and
check-remote share the run records and take one lock for most of their work; the
spool's users have no lock, only exclusive creation, fsync and reading back;
runs of the publisher have neither lock nor journal and share the remote with
people.

**What is hard.**
* An action takes seconds; every check it made at the start may be stale when its
  contact comes. Reservations and re-validation have to close the gap.
* A live command is validated against a session generation that another
  executor's success may end before this one finishes, that is after this one
  has changed the world.
* Every failure after the contact must compensate, the compensation itself may
  fail half way, and its result must be told.
* Item, container and hand each keep their own record of where an item is.
* The ledger is bounded: ids are evicted and can be claimed again.
* Items can be destroyed and players can leave in any phase.
* A client gives up on an answer long before the adapter gives up on the game
  thread: a start, a commit or a reset may be carried out after its client has
  gone on, even while that client is rolling back.
* A start applies its operations one by one. It fails in the middle, is undone,
  and the undo may fail; what is then captured as the next baseline is not the
  home as it was.
* The maintainer's processes die between any two writes, power failures lose what
  was not synced, and two processes pass the same existence check together.
* A POST that timed out may arrive after the run that sent it has given up.
* Main moves while a run is prepared; a record is loaded before the lock is taken.

**What makes each component correct.** The ledger: receipts are final, open
entries are never evicted, at most one live command succeeds per generation, the
eviction order is exactly the map. The executors: an affordance happens as a
whole or not at all; a failed one leaves no trace or says so; no reservation
outlives its action; every accepted command gets a receipt. Items, containers
and hands: the three records agree. The queue: a cancel is final, a late move
completion never finishes another action, an action reports what its receipt
says. Events: an inactive home is the home before the event. A dispatch: it drains only
what it started, and one that rolled back leaves neither its event nor its
queues. Liquids: volume is conserved. Seats: posture and occupancy change
together. Runs: one attempt per date, base and candidate, whatever dies, and the
run a caller is given is current and its worktree sound. The spool: an id is
decided once, and what its marker seals is complete. The publisher: every return
names one commit, and there is no second pull request.

`PROJECT.json` lists the hazards of this code line by line, with the property
that covers each one, or why none does.

## 2. The modules

| module | models | notes |
|---|---|---|
| `CommandLedger` | the ledger and the session generation | also a specification of its own (`LedgerSpec`): what any user of the ledger may see |
| `HomeWorld` | what each affordance requires and does: items, hands, containers | no variables: operators on a record `[pickup, hand, box]` |
| `ActionExecutor` | the executors with reservations, on top of the two | PickUp, Drop, Place, Insert, Remove, Open, Close |
| `AtomicActions` | the promise: an affordance happens at an instant or not at all | abstract specification, refined by `ActionExecutor` |
| `ExecutorLedger` | the executors as their ledger entries: one command at a time, ended in one call | abstract specification, implemented by `ActionExecutor`, extended by `NpcQueue` |
| `NpcQueue` | the action queue of an NPC's controller, its path following and the clip it shares with the executor | |
| `EventOverlay` | the event subsystem and the NPC queues as events and clients see them | operators for each way out of start and reset; no next-state relation of its own |
| `EventDispatch` | clients that start events, over the TCP adapter | extends `EventOverlay` |
| `MaintainerRun` | a day's run: prepare and check-remote | |
| `WriteOnce` | the promise: an id is decided once and what is read is the decision | abstract specification, refined by `SealedSpool` |
| `SealedSpool` | the candidate spool, the publisher's state store and the rebuilt checkouts | |
| `Publication` | `publish` over the git and GitHub adapters | |
| `CommandLedgerProofs`, `ActionExecutorProofs`, `AtomicActionsProofs`, `NpcQueueProofs`, `EventDispatchProofs`, `MaintainerRunProofs`, `SealedSpoolProofs`, `PublicationProofs` | theorems | sections 5 and 6 |
| `MCCommandLedger`, `MCActionExecutor`, `MCNpcQueue`, `MCEventDispatch`, `MCMaintainerRun`, `MCSealedSpool`, `MCPublication` | constants for TLC | |

The stack is `CommandLedger` <- `ExecutorLedger` <- `NpcQueue` on one side and
`CommandLedger`, `HomeWorld` <- `ActionExecutor` on the other; `ServesTheLedger`
(checked and proved) joins them: what the queue sees of an executor is what the
executor does, failures of its release callback included. The maintainer's
modules are independent of these and of each other: what one hands to the
next (a base, a sealed record, a checkout) is an immutable value there.

Operators commented "Faulty:" are variants of the definition that follows them
with a plausible bug (a dropped guard, a forgotten half of a release). No
specification uses them; each documents a bug that one of the properties
catches.

### State and actions against the code

| variable | code |
|---|---|
| `ledger`, `order`, `generation` | `PhysicalCommandLedger`, `PhysicalCommandOrder`, `SessionGeneration` |
| `pickup[p]` | the item's disposition with its carrier or container folded in: `"Free"`, `"Placed"`, an actor, a container |
| `hand[x]` | `HeldItem` of the character |
| `box[b]` | `bOpen` and `ContainedItem` of the container |
| `itemRes[p]`, `boxRes[b]` | the `ActiveTransaction...` fields of pickup and container: executor, command id and the other half of a storage tuple |
| `active[x]` | `ActiveAction` / `ActiveSemanticAction`: command, request, phase, the restorable part of the before-state |
| `present`, `lost` | actors in the session, destroyed items |

| action | code |
|---|---|
| `BeginAccepted`, `BeginRejected`, `BeginAnswered` | `BeginPhysicalInteraction`, `BeginSemanticInteraction` with the envelope check of `ExecuteInteraction`: claim, preflight, reserve, snapshot; rejection inside the same call; replay, collision, capacity |
| `AdvanceApproach`, `AdvanceAlign`, `StartAnimation` | one tick each, with re-validation of the aim and, for storage, of the captured participants |
| `FailBeforeContact` | every failing return of those ticks |
| `ContactRefused`, `ContactCommitted`, `AdvanceAfterContact` | the contact notify and the rest of the same tick, then the ticks until the clip ends; a success that finds its generation gone compensates |
| `TimeOut`, `CancelActiveAction` | in any phase |
| `PlayerLeaves`, `ItemEndPlay`, `OtherLiveCommand` | `EndPlay` of character and pickup; live commands without an executor |

The queue (`npc[n]` is a record):

| field | code |
|---|---|
| `queue`, `current`, `status`, `last` | `ActionQueue`, `CurrentAction`, `CurrentResult.Status`, `LastCompletedResult.Status` |
| `nav`, `moving` | `ActiveNavigationRequestId`; the request the engine's path following works on |
| `clip` | `PlaybackResult` of the pawn's animation component: one per pawn, shared by queue and executor, kept after its action |
| `elapsed` | game time less `ActionStartedAt`, when the tick looks at it |

| action | code |
|---|---|
| `TickIdle`, `StartFails`, `StartPhysical`, `StartAnimate`, `StartNavigate`, `StartWait`, `StartInstant` | `Tick` without a current action: `StartNextAction` and `StartCurrentAction` |
| `PollPhysical`, `PollAnimation`, `TickRunning` | `Tick` with one: the two polls, the timeout, the wait, in the code's order |
| `CancelActionQueue`, `ReplaceActionQueue`, `EnqueueAction` | the same, with their callers `ExecuteNpcCancel`, `ExecuteNpcQueue` and the event subsystem |
| `MoveEnds` | the engine's path following and `OnMoveCompleted` |
| `ClipStarts`, `ClipEnds` | the executor's and the engine's part of the animation component |
| `ExecutorEnds`, `ClientBegins` | the executors by themselves, and other users of them |

Action types are reduced to five kinds: those the executor runs, those that play
a clip, NavigateTo, Wait, and those that end in the call that starts them. A
listener of `OnActionFinished` may enqueue or replace. Where the broadcast is the
last thing a handler does, a nested call is the same as the next action; only
in `CancelActionQueue` is it followed by code, so only there is it nested
(`AfterListener`).

`Compensations` holds what the restore functions may leave when the engine
refuses a transform or an attachment half way (`EngineFaults = TRUE`), and
`ConcludeFailure` what follows when the release callback of
`FinalizePhysicalCommand` returns false: the action is abandoned and its entry
stays open.

**Events and dispatches** (`EventOverlay`, `EventDispatch`)

| variable | code |
|---|---|
| `home` | the event subsystem: session generation, `active` event and `status`, whether the baseline maps are filled (`kept`), the NPCs whose queues an operation replaced (`modified`). What the home looks like is the set of events whose effects are in it (`overlay`); `found` is that set as the baseline captured it. `tainted` is history: a start captured leftovers |
| `queue[n]` | whose the queue of NPC n is and how it stands |
| `disp[d]` | a call of `dispatch`: its step, the queue it is at, the generation it was told, `queue_commit_may_have_occurred`, whether a request is out |
| `inbox` | requests on their way to the game thread; `live` while the client still waits |

| action | code |
|---|---|
| `Send`, `TimeOut` | one exchange of the client, and its giving up on the answer |
| `Handle` | the adapter's frame on the game thread, and the step of `dispatch` that the answer leads to: `probe`, `preflight`, `start`, `commit`, `drain`; then the rollback `rstatus`, `rcancel`, `rnpc`, `rpre`, `rreset`, `rterm` |
| `Refused`, `CaptureFails`, `OperationFails`, `UndoFails`, `Starts` | the ways out of `StartEvent` |
| `RestoreFails`, `Restores` and the refusals | those of `ResetEvent` |
| `Other`, `World` | other clients' starts, resets, queues and cancels; outcome and timeout of the event, queues that end |

The quiescence check of `ResetEvent` (no executor at work) is one of its refusals.
`InitializeWorldRevision`'s restore is left out. Dispatches have distinct event
ids. The drain polls the last action of each queue, as the code does.

**Runs** (`MaintainerRun`)

| variable | code |
|---|---|
| `main` | the commit of remote main, a number that only grows |
| `records[date, base]` | `RunState`: candidate, lifecycle, branch disposition, worktree, observed commit, publication; saved atomically |
| `branches`, `trees` | daily branches at their base; registered worktrees with their mode and whether someone worked in them |
| `lock` | the repository lock, which a process loses when it dies |
| `calls[c]` | a caller's step with what it pinned and loaded |

| action | code |
|---|---|
| `StartPrepare`, `Pin`, `Load` | `prepare` of `worktree.py`, as `cli.py` calls it, up to its existing record |
| `Replay`, `Resume`, `Refuse`, `Fresh` | what follows from that record, or from its absence |
| `AddBranch`, `AddTree`, `Chmod`, `SaveReady`, `FinalCheck` | the git steps, the saves between them and the final look at main |
| `StartCheck`, `CheckRemote` | check-remote; it loads before it takes the lock |
| `Stop` | a caller dies, or a git command of its fails |
| `MainMoves`, `WorkInTree` | the environment |

**The spool** (`SealedSpool`)

| variable | code |
|---|---|
| `files[i][n]` | each artifact of an id: absent, torn (created, not yet readable), whole, durable (synced), or scrap (torn and found again after a power failure); what it holds |
| `proc[p]` | a process's call: the artifact it is at and the step of `_write_exclusive` |
| `tickets`, `given` | `SpoolReservation`s and records handed out |
| `tree` | the content of the checkouts, told apart by inode |

| action | code |
|---|---|
| `StartPut`, `Reserve`, `Seal`, `Check` | `put`, `reserve`, `seal` with their read-backs |
| `Create`, `Fill`, `Sync` | `_write_exclusive` |
| `StartRematerialize`, `Claim`, `Look`, `Reuse`, `Prepare`, `Apply`, `Record`, `Confirm` | `PublisherRematerializer.rematerialize` over `PublisherStateStore` |
| `Stop`, `PowerFailure`, `LoseCheckout` | kills and exceptions, lost writes, a checkout that is gone |

**Publication** (`Publication`)

| variable | code |
|---|---|
| `main`, `branch`, `prs` | the remote: main still at the base, head of the publication branch, every pull request there was |
| `checkout` | the publisher's checkout: patch applied, local branch |
| `run[r]` | a call of `publish`: its step, what it has read, the commit it publishes; between two calls, whether the process has applied the patch; `saw` is a history variable |
| `late` | a POST whose run has given up |
| `results` | what `publish` returned |

| action | code |
|---|---|
| `Begin`, `ReadLocal`, `ReadRemote`, `ReadPulls` | the call and its three reads |
| `Reconcile`, `Adopt`, `Resume` | what it goes on with when it finds something |
| `CreateBranch`, `Commit`, `Push`, `ReadPushed`, `Open`, `Post`, `ReadOpened`, `Barrier`, `Final` | the writes, each with its read-back, and the checks of main between them |
| `PostLate`, `LatePost` | the POST that times out, and arrives |
| `Stop`, `Replace`, `ReplaceUnderRun`, `People` | a process dies anywhere, the caller provides another checkout, people act on the remote |

The push has the semantics of the transport the repository can use today, a local
bare remote: the production push raises until the deployment task (T13) is
done.

**Abstractions.** An item's place is its disposition: transforms, meshes,
physics bodies, anchors and distances are left out, and the checks on them become
rejections or failures that may always happen (`BeginRejected`,
`FailBeforeContact`, `ContactRefused`). The mutators' own compensations leave the
disposition as it was, so a refused contact leaves the world alone. The actor's
pose occurs only as one more restore that may fail. Clips and notifies are the
environment: a signal may come at any tick, or never. A request's body is a record
of the fields the handlers branch on. Receipt texts are reduced to a status and
what it says of the compensation.

## 3. Runs

| run | question | properties |
|---|---|---|
| `ledger` | does the ledger survive any legal sequence of its operations? | `OrderListsTheLedger`, `LiveSuccessesAreSerial`, `TerminalReceiptsAreFinal`, `OpenEntriesSurvive`, `EvictsOldestTerminal` |
| `executor_faults` | two actors, one cup, one fridge, an engine that may fail any restore | type, `ActionsHoldTheirTargets`, `FailedActionLeavesNoTrace`, `DisagreementIsReported` |
| `executor_atomic` | two items, one fridge, a reliable engine: do the executors implement `AtomicActions`, and does every accepted command get a receipt? | `WorldAgrees`, `ActionsAreAtomic`, `EveryClaimTerminates` |
| `executor_lost` | the cup may be destroyed at any moment; do the executors still do what `NpcQueue` assumes of them? | `NoStaleReservation`, `OrphansNameLostItems`, `ServesTheLedger` |
| `npc_queue` | one NPC, everything that may run between its ticks; does every action the queue starts end? | type, `IdleIsStill`, `QueueOwnsItsExecution`, `CancelIsFinal`, `MotionEndsWithNavigation`, `SuccessesAreEarned`, `EveryActionEnds` |
| `event_dispatch` | two dispatches and another client over one event overlay | type, `RollbackLeavesNothing`, `InactiveMeansRestored`, `ResetsOnlyItsEvent`, `DrainedMeansDone` |
| `maintainer_run` | two callers, one date, two candidates, main moves once | type, `OneAttemptPerRun`, `ReadyTreesAreSound`, `ReturnedRunsAreCurrent`, `PublicationsStay` |
| `sealed_spool` | two control processes with two writes for one id, two publishers, kills and power failures | type, `SealedMeansComplete`, `HeldCheckoutsAgree`, `DecidesOnce` |
| `publication` | two overlapping publisher runs with three faults, and people on the remote | type, `ResultsAgree`, `NoSecondPullRequest`, `RetriesPublish` |
| `lost_cancel_receipt` | the documented cancellation receipt (a violation) | `CanceledActionsGetReceipts` |
| `wait_at_boundary` | the documented rule for a wait at its timeout (a violation) | `WaitWinsOverTimeout` |
| `cancel_after_receipt` | the documented single outcome of a canceled action (a violation) | `CancelTerminalizesOnce` |

What the runs of the queue, the clients and the maintainer show, in words:

* `IdleIsStill`, `MotionEndsWithNavigation`: whatever ends a NavigateTo - arrival,
  failure, timeout, cancel, replacement - the same step stops the pawn, and a
  commanded idle is one without action, path following request or motion.
  `SuccessesAreEarned`: an action is reported as succeeded for the receipt or the clip
  of its own id, the end of the request it walks for, or its own duration, and for
  nothing else that was left behind by an earlier action, a client or a late path.
  The ids are those that the code allows: unique within one queue, otherwise shared.
  So the exception in both action properties is real, and the run meets it: a clip
  with the id of the current NavigateTo or Wait ends it (section 4).
* `RollbackLeavesNothing`: once a dispatch reports a rollback, its event is not
  active, none of its queues runs and none of its requests is still to come, then
  and ever after, although requests it gave up on may have been carried out during
  that rollback. Two things make it true: the adapter serves one connection after
  the other, so whatever the dispatch sent before its last look is handled before
  it, and a late commit that does get through moves the generation, which that
  look compares. `ResetsOnlyItsEvent`: the look and the reset are two requests,
  yet no rollback takes away another client's event: the reset names the
  generation of the look.
* `InactiveMeansRestored`: an idle home carries nothing of an event that is over,
  unless a start captured leftovers of an undo that failed.
* `DrainedMeansDone`: the queues are polled one after the other; still, at the
  step that reports them drained the dispatch's event is active and each queue,
  the first one too, is its own and done. A later command may change that at once.
* `OneAttemptPerRun`, `ReadyTreesAreSound`: whatever dies between record, branch,
  worktree, chmod and save, a date and base have one candidate and one branch, and
  a record says READY only of a worktree that is registered and was private.
* `ReturnedRunsAreCurrent`: whoever is given a ready run has its branch and
  worktree, and main was at its base at some time since the caller took the lock.
* `PublicationsStay`: a recorded pull request stays recorded until main moves.
* `DecidesOnce`: the spool implements `WriteOnce`. `HeldCheckoutsAgree`: two
  publishers of one record never hold two checkouts.
* `ResultsAgree`, `NoSecondPullRequest`: whatever dies, every `publish` that returns
  names one and the same commit, the head of the first pull request; and a run that
  begins when there is a pull request, even one a person has closed, never opens
  another. Runs that began before it are not covered: with a POST in flight they
  cannot know.

`LedgerTypeOK`, `LedgerIsBounded`, `OwnedWhileOpen` and `OpenEntriesAreRunning` are
parts of the invariants of section 5, and `OnlyHoldersChangeTheWorld` is a theorem next
to `ActionsHoldTheirTargets`: proved, and not repeated in a run.

`ActionsAreAtomic` is a refinement with a mapping that hides uncommitted work: an
action past its contact but without a receipt is shown with its before-state
(`VisiblePickup`, `VisibleHand`, `VisibleBox`), so the instant at which a command
"happens" is its success receipt.

**Bounds.** The code's ledger holds 64 entries; the runs use two entries and three
ids, the smallest instance in which an entry is evicted while another is open,
its id is claimed again, and the ledger is full of open entries. Evicted ids are
reused, so the sequences of commands are unbounded although the ids are three.
`MaxGeneration` caps the generation at one or two: live requests carry
generation 0, so one success (or `OtherLiveCommand`) makes all the others stale,
which is the only thing a generation does. Two actors suffice because a
reservation or a generation conflict is between two; a second item occurs where
two items meet (one container, one generation). One container: no affordance
relates two. `executor_atomic` uses no symmetry, since it also checks liveness.

The queue runs have one NPC: two controllers share nothing but the ledger, and
its other users appear as clients. `Capacity` is one, so that a receipt can be
evicted between the executor's end and the controller's poll; a depth of two
gives a queue with a current action, one behind it and a full one. Time is a
counter: `Frames` is what a tick adds, timeouts are one or two, and `MaxElapsed`
lies above every timeout, after which more time changes nothing. The boundary run
has frames of one and two, so that a tick may pass the boundary without falling
on it. `ClientIds` are the ids live clients choose, in `npc_queue` that of
a queued action, too (nothing in the code keeps them apart). Nor does it keep the ids
of two queues apart (`P/VistaHomeNpcController.cpp:789` looks at one queue): in
`npc_queue` a physical action and a Wait have one id, a NavigateTo and an Animate
another, and a third is the instant action's. A client that claims
the evicted id of a queued action again and again could keep its poll from ever
seeing an end: `EveryActionEnds` holds if clients pause (`ClientsPause`).

`event_dispatch`: one dispatch has two queues and the other one, and they share
an NPC; a client has an event and queues of its own and one command (`MaxOthers`).
Two dispatches are what a race over one event slot needs, two queues what makes
a rollback with an uncommitted queue and a drain that waits for a second. The
number of requests needs no bound, since a dispatch ends.

`maintainer_run`: two callers are what a lock is about; two candidates and one
date are what an attempt can disagree on. `MaxMoves` is one: a base is either current
or superseded. `MaxCalls` is four: a first attempt, its death, a retry and a
check beside it.

`sealed_spool` has one id, because ids share no file. Two writes and two control
processes are what a race for an id is; two publishers and two checkouts what a
race for a materialization is. Nothing bounds the number of calls, kills or power
failures.

`publication`: two runs overlap and any number follow one another; five commits,
four pull requests and three faults. Each crash, late POST or replaced checkout is
a fault, but a crash, an overlap and a late answer are already the worst case that
the code distinguishes.

Symmetry is used in `ledger`, `sealed_spool` (writes, processes, checkouts) and
`maintainer_run` (callers, candidates), never in a run with liveness.
`CHECK_DEADLOCK FALSE` is set where the bounded faults and calls run out or every
dispatch has ended, so that the system really stops.

**Fairness.** `FairSpec` assumes only `WF(TimeOut(x))`: the component ticks each
frame while it has an action, the game clock advances, and the deadline is
checked on every tick in every phase (`P/VistaActionExecutorComponent.cpp`,
`TickComponent`). No fairness is assumed of clips, contacts or clients, so the
result does not depend on any animation ever ending. The run excludes destroyed
items, for which the property is false (section 4).

`FairQueueSpec` assumes `WF` of a controller's `Tick`, of `ClipEnds` (the
animation component times its clip out in its own tick) and of `ExecutorEnds`
(which is what `EveryClaimTerminates` shows of the executors). Path following
need not end: a NavigateTo ends by its own timeout.

`FairSpec` of `Publication` assumes `WF` of a run's next step (a process that is
not killed goes on; a step may still fail, since faults are actions of their own)
and `WF` of the arrival of a POST in flight, nothing else: the repository has no
timer that starts runs (T13 in `docs/specs/vista-world-daily-maintainer/tasks.md`),
and the spool prepares one checkout of a record and never another (`D/spool.py:1463`).
What publishing needs from outside is therefore in the property: `RetriesPublish`
says that *if* new processes begin again and again in clean checkouts
(`BeginsAfresh`), one of them publishes or people have interfered, and no finite
number of faults prevents it. The weaker hypothesis, that runs begin again and again
wherever, does not suffice (section 4).

Nothing in the repository schedules prepare or check-remote, and a dispatch may wait
for a person to act, so no liveness is stated of `MaintainerRun` and
`EventDispatch`.

`executor_faults` checks `FailedActionLeavesNoTrace` without destroyed items: a
destroyed item cannot be restored, and its action's entry is orphaned.
`WorldAgrees` and `ActionsAreAtomic` need the reliable engine; with faults
`DisagreementIsReported` is what remains true.

## 4. What the code does that its documents do not say

**A canceled action on a destroyed item gets no terminal receipt.**
`docs/specs/vista-action-world-r1/requirements.md:77` promises a terminal
cancellation receipt before the actor returns to idle. For PickUp, Drop and
Place the release callback returns false when the item is gone, so
`FinalizePhysicalCommand` refuses, the action is abandoned and the entry remains
open with status Canceled (run `lost_cancel_receipt`, three steps). Only terminal
entries are evicted, so every such entry also occupies a slot for the rest of
the session. `OrphansNameLostItems` bounds the damage: this is the only way an
entry is orphaned. The storage affordances of the same executor treat a lost
item as released and are not affected, unless another executor has reserved the
container meanwhile.

**A wait at its timeout times out.** `docs/specs/vista-action-world-r1/requirements.md:84`
says that completion wins at the shared boundary of a wait and its timeout. `Tick`
looks at the timeout first (`P/VistaHomeNpcController.cpp:843`), so this holds only
if a frame falls on the boundary exactly; any other frame reports `TimedOut` (run
`wait_at_boundary`).

**A cancel after the receipt reports a second outcome.**
`docs/specs/vista-action-world-r1/tasks.md:35` has "cancel/preempt terminalizes
once". A cancel that arrives after the executor's success and before the
controller's next poll completes the action as `Canceled`, while its receipt says
`Succeeded` and its effect stays (run `cancel_after_receipt`).

Two behaviours that contradict no document but surprise. An action id that
is used again while its receipt is in the ledger ends its new action at once with
the old receipt. And a playback result of the same id, left by an action of an
earlier queue or by a client's command, ends a Wait or a NavigateTo at its next
poll: `PollAnimationAction` (`P/VistaHomeNpcController.cpp:1114`) compares the id and
not the kind, and does not stop path following, so the pawn walks on without an
action that it walks for. `MotionEndsWithNavigation` and `SuccessesAreEarned` name
this case (`ClipAnswers`); without it both are violated in `npc_queue`.

These are the places of the rest of the system where documents and code lie close
together or the code can get stuck; no run shows a document contradicted there:

* `publish` in a used checkout is refused. `design.md:161` of the daily maintainer
  says "Every command is idempotent or refuses an incompatible existing state.", and
  `tests/test_publisher.py:817` has the second `publish` return the first one's pull
  request. `publish` has a branch for that (`D/publisher.py:786`), but it reads the
  remote commit through an adapter which, when new, applies the patch first and wants
  a detached, clean base for it (`D/git_adapter.py:617` and `:789`). So a new process
  in the checkout of the run that published gives up at `Reconcile`, every time, in
  a state that is exactly the published one. A publisher object that has applied the
  patch itself does reconcile, and so does a new one in a new checkout; the test's
  fake port asks for neither. This is why `RetriesPublish` supposes fresh checkouts.
* A start whose operation failed and was undone leaves the status at Failed without
  an active event. `ResetEvent` then refuses with NO_ACTIVE_EVENT and the
  dispatch's rollback, which wants an inactive home, cannot succeed
  (`P/VistaEventSubsystem.cpp:415`).
* A start after a start whose undo failed captures the leftovers as its baseline
  (`P/VistaEventSubsystem.cpp:673`). `tainted` marks it; `InactiveMeansRestored`
  holds otherwise.
* A crash between `git worktree add` and the chmod leaves a worktree that every
  retry finds and refuses: the run stays PINNED. A crash between branch and
  worktree leads to EXISTING_BRANCH. Both are safe and both need a person.
* check-remote loads its record before it takes the lock and saves that copy
  (`D/cli.py:199`), so the movement of main may overwrite a publication or branch
  that a prepare recorded meanwhile. `PublicationsStay` is therefore stated until
  main moves. The docstring at `D/worktree.py:1140` says "without mutating".
* A record whose publication went from NONE to an open pull request is refused, not
  updated. After REMOTE_MOVED, `due` offers the date again and a new base gets a
  second branch on the same date (`design.md:299` and `:300`).

## 5. Theorems

All are proved by TLAPS for every value of the constants allowed by the ASSUMEs
of the modules (disjoint kinds, sentinels outside the sets they extend,
well-formed requests, one executor per actor, positive capacity); TLC evaluates
those assumptions in every run.

`CommandLedgerProofs`
* `LedgerInvariant`: the five state invariants of the ledger are inductive
  *together*. None is by itself: the bound on `order` needs that order and map
  hold the same ids, removal at an index needs that an id is listed once, and the
  uniqueness of live successes needs that a terminal success carries no owner and
  lies below the generation.
* `TerminalReceiptsStayFinal`, `OpenEntriesAlwaysSurvive`,
  `EvictionTakesTheOldestTerminal`: the action properties, from that invariant.

`ActionExecutorProofs`
* Every step is classified once (`StepKind`): it idles, accepts a request,
  advances an action, concludes one, or loses an item. The invariants are proved
  over these five kinds rather than over each action.
* `ExecutorImplementsLedger`: `Spec => LedgerSpec`, so the ledger's theorems hold
  of the whole system (`ReceiptsOfTheSystem`).
* `ReservationInvariant`: `NoStaleReservation` is not inductive: a release clears
  the tickets by executor and command, so one must know that a running action
  holds its tickets (unless its item is lost) and that lost items carry none. The
  strengthened invariant is the conjunction of the three.
* `RunningActionsHoldTheirTargets` and `OpenEntriesAlwaysRun` assume
  `MortalItems = {}`; `OnlyLostItemsLeaveOrphans` needs no such assumption.
* `ExecutorsServeTheLedger`: `Spec => ServesTheLedger`, the abstraction `NpcQueue`
  builds on. The link invariant is strengthened by: the entry of a running action
  has status Running, so that `Busy` is `HasActiveAction` and an abandoned entry,
  which is still open, is not taken for a running one.

`AtomicActionsProofs`
* `WorldInvariant` ties a running action to the world. Up to its contact its
  before-state *is* what the records of its item, hand and container say
  (`Untouched`), and it was noted in a state that allowed the request (`Fits`); from
  the contact on the records say what the affordance does to that before-state
  (`Committed`). It holds of the participants nobody destroyed. It is inductive
  only next to the reservation invariant: two running actions have no participant
  in common, so no step of one disturbs what is said of the other.
* `OnlyHoldersEverChangeTheWorld` needs no assumption: compensations, timeouts and
  the end of an action whose item is gone are confined to what the action holds
  (`Confined`), and the rest of the world is the same (`OnlyTouches`).
* Every step falls into one of a few kinds: nothing happens to the world, a contact
  commits, an action succeeds, an action fails with one of the
  `CompensationOutcomes`. `FailedActionsLeaveNoTrace` and `DisagreementsAreReported`
  follow under `MortalItems = {}`: of a destroyed item nothing is left to restore.
* `WorldAlwaysAgrees` and the refinement `ActionsTakeEffectAtOnce` assume in addition
  `EngineFaults = FALSE`: the code promises neither when an attach or a restore of
  the engine fails (what it promises then is the receipt of the two
  theorems above). The abstract world shows before-states (`VisiblePickup`,
  `VisibleHand`, `VisibleBox`); the proof keeps that what it shows of the participants
  of a running action is that action's before-state (`ShownInv`). At a success the
  affordance's precondition, which held of the before-state when the action was
  accepted, therefore holds of the visible world, whatever other actions have done
  since; a failure, which restores, is invisible.

`NpcQueueProofs`
* `QueueInvariant`: types and motion. An idle controller has no action, no request and
  no motion; a request that the controller knows is that of its current NavigateTo and
  the one the pawn walks for. The two need each other: the completion handlers stop
  path following or not depending on the action they end. The converse, that a pawn
  walks only for a known request, is not an invariant (a clip may end the NavigateTo),
  so the theorem about walks is one about steps.
* `IdleNpcsAreStill`, `WalksEndWithTheirNavigation`, `SuccessesAreAlwaysEarned` and
  `CancelsAreFinal` follow, for any ids, shared or not: what a clip of the same id does
  is in the properties. For a success each handler that can report one is looked at
  with what it compares (`SuccessHasAReason`).
* `QueuesOwnTheirExecution`, for any names: inductive with `RunsOneCommand`, for a
  cancel ends *one* command of the executor, and that it is the queue's is true
  only because there is no other. The request of a queue is told from a client's
  by its missing generation (`RequestOf`).
* `QueuesKeepTheLedger` and `QueuesRespectReceipts`: what `CommandLedgerProofs` shows
  of the ledger alone holds under the queues. It does not carry over by a refinement:
  a cancel may end a command and commit a generation in one step, where `LedgerNext`
  takes two. So each step is a step of the ledger or a cancel
  (`QueueStepsOnTheLedger`), and the ledger's invariant is shown to survive a
  cancel as well (`CancelKeepsLedgerInv`). `QueueIsTyped` follows.

`SealedSpoolProofs`
* `SpoolKeepsOrder`: the artifacts of an id are settled in the order in which they
  are written (`FilesInOrder`: what precedes an existing file is on disk and of
  the same write). `O_EXCL` gives each file one writer (`OneWriter`), a ticket is
  handed out only for a reservation on disk (`TicketsAreDecided`), and a call relies
  on what it has seen (`CallsRely`). None is inductive alone: that a file is created
  in order is what its caller has seen of the one before, and what was seen lasts
  only because no second writer touches it and settled files survive a reboot.
* `MarkerMeansComplete`, `PublishersAgree`, and the refinement `SpoolDecidesOnce`
  follow.

`PublicationProofs`
* `PublicationInvariant`: the commits in checkout and branch have been made
  (`CommitsAreMade`), and only a run that began before there was any pull request
  is on its way to open one (`WritesUnlessPublished`): a run that sees one goes
  through `Reconcile` to the last checks.
  `PublishersReturnOneCommit` and `RunsOpenNoSecondPullRequest` follow, for every
  number of runs, faults, commits and pull requests.

`EventDispatchProofs`
* `WorldMoves` bounds what any command does to the home: the generation never goes
  back, and the active event and the owner of a queue change only with it.
  `DispatchInvariant` then ties what each dispatch and each of its requests relies
  on to a generation: it holds as long as the home has that generation
  (`RequestRelies`, `DispatchRelies`), and a queue that runs for a dispatch was
  committed by it (`QueuesAreCommitted`).
* `RollbacksLeaveNothing`, `RollbacksResetTheirOwn`, `DrainsAreDone`,
  `InactiveHomesAreRestored`, for every number of dispatches, queues and commands
  of other clients.

`MaintainerRunProofs`
* `RunInvariant`: the lock is held by the one caller between taking and giving it
  back (`LockIsHeld`), so what that caller has loaded *is* what is recorded; the
  records rely on the repository (`RecordsRely`: worktrees have branches, a pinned
  run names a tree, one attempt per run, ready trees are sound) and
  each call on both (`CallRelies`). A check-remote loads outside the lock and may
  rely only on what no save takes back, its base and candidate.
* `RunsGetOneAttempt`, `ReadyTreesStaySound`, `ReturnedRunsStayCurrent` and the action
  property `RecordedPublicationsStay` follow, for every number of callers, dates,
  candidates and moves of main.

## 6. What is only model-checked

* `EveryClaimTerminates`, `EveryActionEnds`, `RetriesPublish`: liveness is out
  of the prover's reach.
  The safety arguments they rest on are theorems: an open entry has a running
  action unless items are destroyed (`OpenEntriesAlwaysRun`), an action of the queue has its executor's
  command (`QueuesOwnTheirExecution`).
* The three violations of section 4 are counterexamples, found by TLC.

Every other property of a passing run, state invariants, action properties and
refinements alike, is a theorem of section 5 - those about the world under the
conditions on items and engine named there, as the runs that check them set them.

## 7. Plan

What is left, most important first:

1. `PourTransfer` and `SeatPosture`: the two hazards of partial failure that no
   property covers, and the executor's single-target semantic path (appliances,
   doors). Theorem: conservation of volume.
2. `EventOverlay` composed with `ActionExecutor`: a reset that restores items and
   containers under the executors' snapshots, with the quiescence check as a
   condition on them and no longer as a refusal.
3. Two NPCs on one item with the real executors below `NpcQueue`; posture (a seated
   NPC must stand up first); NPCs that are destroyed.
4. The live director's request budget and single-flight turn.

## 8. Not modelled

Rendering, HUD, camera, replication and interaction tracing have no protocol of
their own; of the animation only the playback result is modelled. The queue's
seated idle loop, its room bookkeeping and the read-only preflight are left out.
The photoreal review plugin is a separate build with its own copy of the action
code. Of the maintainer, the candidate, the patcher, the verifier and the receipts
are functions of their inputs that run once, in sequence; what they decide is
the write that the spool is given. Cleanup of worktrees, a scheduler and the
deployment of the publisher do not exist in the repository. Of the live services,
the director, the conversation and the web front end, only the budget and the
single-flight turn have state of the kind modelled here.

By lines, the repository is mostly Python that generates, captures, composes and
reviews content with Blender, Unreal and Isaac, and compilers from one JSON document
to another. These scripts run once, as single processes, from files to files; they
keep no state between runs and talk to no other actor while they run. A model of
them would restate their data transformations and have no interleaving, failure
or order of events to check. So the models cover a small share of all lines, and
most of the lines in which actors share state: the runtime's ledger, executors
and queues, the event overlay and its clients, and the maintainer.
`PROJECT.json` gives the status and the reason for each component.

## 9. Running

    tlc -workers 2 -config MCExecutorFaults.cfg MCActionExecutor.tla
    tlapm ActionExecutorProofs.tla

Each `.cfg` names its module by the run in `PROJECT.json`.
