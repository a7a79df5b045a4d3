---------------------------- MODULE ActionExecutor ----------------------------
(***************************************************************************)
(* The action executors (UVistaActionExecutorComponent, one per actor), the *)
(* reservations on items and containers, and the command ledger, for the   *)
(* physical affordances PickUp, Drop and Place and the container           *)
(* affordances Insert, Remove, Open and Close.                             *)
(*                                                                         *)
(* Every function of the executor runs to completion on the game thread,   *)
(* so a handler with everything it calls is one action; between two ticks  *)
(* of one executor the other executors, clients, event commands, players   *)
(* leaving and items being destroyed interleave.                           *)
(***************************************************************************)
EXTENDS CommandLedger, HomeWorld

CONSTANTS
    Players,       \* actors that may leave the session
    MortalItems,   \* items that may be destroyed while in use
    EngineFaults,  \* whether the engine may refuse an attachment or transform
    NoAction,      \* an idle executor
    NoTicket       \* an unreserved item or container

ASSUME OneExecutorPerActor == Executors = Actors
ASSUME RequestsAreWellFormed == \A r \in Requests : WellFormed(r)
ASSUME ScopeAssumption ==
    /\ Players \subseteq Actors
    /\ MortalItems \subseteq Items
    /\ EngineFaults \in BOOLEAN

VARIABLES
    pickup,    \* PhysicalDisposition of each item
    hand,      \* HeldItem of each actor
    box,       \* bOpen and ContainedItem of each container
    itemRes,   \* ActiveTransactionExecutor/CommandId/StorageContainer of items
    boxRes,    \* ActiveTransactionExecutor/CommandId/StorageItem of containers
    active,    \* ActiveAction or ActiveSemanticAction of each executor
    present,   \* actors in the session
    lost       \* items that have been destroyed

worldVars == <<pickup, hand, box>>
vars == <<ledgerVars, worldVars, itemRes, boxRes, active, present, lost>>

World == [pickup |-> pickup, hand |-> hand, box |-> box]

SetWorld(w) ==
    /\ pickup' = w.pickup
    /\ hand' = w.hand
    /\ box' = w.box

\* "Playing" is Animate with bAnimationStarted; "Contact" is ContactCommit with
\* bContactCommitted.  The phases from Complete on last no longer than a call.
Phases == {"Approach", "Align", "Animate", "Playing", "Contact"}
BeforeContact == Phases \ {"Contact"}

\* The part of BeforeState, BeforePhysicalState and BeforeSecondaryState that
\* the compensation restores.
Snapshot(r) ==
    [place |-> IF r.item = NoItem THEN "Free" ELSE pickup[r.item],
     box   |-> IF r.box = NoContainer THEN [open |-> FALSE, contents |-> NoItem]
                                      ELSE box[r.box]]

\* A reservation: who holds it, for which command, and the other half of a
\* storage tuple.
Ticket(x, c, peer) == [executor |-> x, command |-> c, peer |-> peer]

ItemTickets == [executor : Actors, command : CommandIds, peer : Containers \cup {NoContainer}]
BoxTickets == [executor : Actors, command : CommandIds, peer : Items \cup {NoItem}]

ASSUME NoTicketAssumption == NoTicket \notin ItemTickets \cup BoxTickets

\* ActiveAction or ActiveSemanticAction, the fields the model needs.
Actions == [command : CommandIds,
            request : Requests,
            phase   : Phases,
            before  : [place : Places,
                       box   : [open : BOOLEAN, contents : Items \cup {NoItem}]]]

ASSUME NoActionAssumption == NoAction \notin Actions

IsStorage(r) == r.affordance \in StorageAffordances
\* Faulty: the item is paired with itself.
ItemTicketUnpaired(x, c, r) == Ticket(x, c, r.item)

ItemTicket(x, c, r) == Ticket(x, c, r.box)

BoxTicket(x, c, r) == Ticket(x, c, r.item)

UsesItem(r) == r.item # NoItem
UsesBox(r) == r.box # NoContainer

IsLost(r) == r.item \in lost

\* bAlignmentApplied is set on entering Animate and stays.
Aligned(a) == a.phase \in {"Animate", "Playing", "Contact"}

\* StorageReservationMatches, IsTransactionReservedBy.
ReservedBy(x, a) ==
    /\ UsesItem(a.request) =>
           itemRes[a.request.item] = ItemTicket(x, a.command, a.request)
    /\ UsesBox(a.request) =>
           boxRes[a.request.box] = BoxTicket(x, a.command, a.request)

-------------------------------------------------------------------------------
(***************************************************************************)
(* Accepting a request.                                                    *)
(***************************************************************************)

\* Faulty: the container is taken without a look at its reservation.
CanReserveItem(r) == UsesItem(r) => itemRes[r.item] = NoTicket

\* TryReserveTransaction and TryReserveStorageTransaction: all or nothing.
CanReserve(r) ==
    /\ UsesItem(r) => itemRes[r.item] = NoTicket
    /\ UsesBox(r) => boxRes[r.box] = NoTicket

Reserve(x, c, r) ==
    /\ itemRes' = IF UsesItem(r)
                  THEN [itemRes EXCEPT ![r.item] = ItemTicket(x, c, r)] ELSE itemRes
    /\ boxRes' = IF UsesBox(r)
                 THEN [boxRes EXCEPT ![r.box] = BoxTicket(x, c, r)] ELSE boxRes

\* ExecuteInteraction looks at the envelope of a live command (after the replay
\* check); the NPC queue and the player call the executor directly.
EnvelopeValid(r) == r.live => generation = r.gen /\ ~IsLost(r)

BeginAccepted(c, r) ==
    LET x == r.actor IN
    /\ x \in present
    /\ EnvelopeValid(r)
    /\ active[x] = NoAction
    /\ ~IsLost(r)
    /\ PreflightReady(World, r)
    /\ CanReserve(r)
    /\ ClaimAccepted(c, r, x)
    /\ Reserve(x, c, r)
    /\ active' = [active EXCEPT ![x] = [command |-> c, request |-> r,
                                        phase |-> "Approach", before |-> Snapshot(r)]]
    /\ UNCHANGED <<worldVars, present, lost>>

\* A preflight check fails.  Many depend on what the model leaves out (approved
\* animations, anchors, distances), so any claimed request may be rejected.
BeginRejected(c, r) ==
    /\ r.actor \in present
    /\ EnvelopeValid(r)
    /\ ClaimRejected(c, r)
    /\ UNCHANGED <<worldVars, itemRes, boxRes, active, present, lost>>

\* A replayed, colliding or surplus command is answered from the ledger.
BeginAnswered(c, r) ==
    /\ ClaimOutcome(c, r) # "Claimed"
    /\ UNCHANGED vars

-------------------------------------------------------------------------------
(***************************************************************************)
(* Ending an action: compensation, release of the reservations and the     *)
(* terminal receipt.                                                       *)
(***************************************************************************)

\* Faulty: the container is not restored; the hand does not follow the item.
WithoutBox(w, a) == w
WithItemOnly(w, a, place) ==
    IF UsesItem(a.request) THEN [w EXCEPT !.pickup[a.request.item] = place] ELSE w

WithBox(w, a) ==
    IF UsesBox(a.request) THEN [w EXCEPT !.box[a.request.box] = a.before.box] ELSE w

WithItem(w, a, place) ==
    IF UsesItem(a.request) THEN MoveItem(w, a.request.actor, a.request.item, place) ELSE w

\* RestoreAndVerifyBeforePhysicalState, RestoreAndVerifyStorageBeforeState (the
\* container first, then the item), RestoreTransactionalState.
Restored(w, a) == WithItem(WithBox(w, a), a, a.before.place)

\* The worlds a restore that reports failure may leave: nothing done; the
\* container restored and the item untouched; the item cleared to Free; its
\* disposition restored but the hand released again; all restored but not
\* verified.
RestoreFailures(w, a) ==
    LET boxed   == WithBox(w, a)
        cleared == WithItem(boxed, a, "Free")
    IN  {w, boxed, cleared, Restored(w, a)} \cup
            (IF UsesItem(a.request)
             THEN {[cleared EXCEPT !.pickup[a.request.item] = a.before.place]} ELSE {})

\* A lost participant leaves everything as it is.
StateOutcomes(w, a) ==
    IF IsLost(a.request) THEN {[world |-> w, ok |-> FALSE]}
    ELSE {[world |-> Restored(w, a), ok |-> TRUE]} \cup
            (IF EngineFaults THEN {[world |-> v, ok |-> FALSE] : v \in RestoreFailures(w, a)}
                             ELSE {})

\* FinishFailure and FinishSemanticFailure up to the terminal receipt: the
\* actor's pose, then the world if the contact mutation was attempted.
Compensations(w, a, aligned, attempted) ==
    {[world |-> o.world, ok |-> o.ok /\ pose] :
        o \in IF attempted THEN StateOutcomes(w, a) ELSE {[world |-> w, ok |-> TRUE]},
        pose \in IF aligned /\ EngineFaults THEN BOOLEAN ELSE {TRUE}}

\* Faulty: the result of the restore is not looked at.
RollbackUnverified(o, aligned, attempted) ==
    IF ~(aligned \/ attempted) THEN "None" ELSE "Restored"

RollbackOf(o, aligned, attempted) ==
    IF ~(aligned \/ attempted) THEN "None" ELSE IF o.ok THEN "Restored" ELSE "Unrestored"

\* The release callback of FinalizePhysicalCommand.  A physical action whose item
\* is gone cannot release; a storage action takes the reservations that the
\* item's EndPlay dropped for released, unless the container is reserved again.
Releasable(x, a) ==
    \/ ~IsLost(a.request) /\ ReservedBy(x, a)
    \/ IsLost(a.request) /\ IsStorage(a.request) /\ boxRes[a.request.box] = NoTicket

IsTicketOf(t, x, a) == t # NoTicket /\ t.executor = x /\ t.command = a.command

Release(x, a) ==
    /\ itemRes' = [p \in Items |-> IF IsTicketOf(itemRes[p], x, a) THEN NoTicket ELSE itemRes[p]]
    /\ boxRes' = [b \in Containers |-> IF IsTicketOf(boxRes[b], x, a) THEN NoTicket ELSE boxRes[b]]

\* Faulty: an action whose release fails is abandoned without a word.
ConcludeSilently(x, s, b) ==
    LET a == active[x]
        status == IF b = "Unrestored" THEN "Failed" ELSE s
    IN  /\ IF Releasable(x, a)
           THEN Finalize(a.command, a.request, x, status, b) /\ Release(x, a)
           ELSE UNCHANGED <<ledgerVars, itemRes, boxRes>>
        /\ active' = [active EXCEPT ![x] = NoAction]

\* FinalizeActive or FinalizeSemantic with a failure receipt.  When the release
\* callback fails the action is abandoned and its ledger entry stays open.
ConcludeFailure(x, s, b) ==
    LET a == active[x]
        status == IF b = "Unrestored" THEN "Failed" ELSE s
    IN  /\ IF Releasable(x, a)
           THEN Finalize(a.command, a.request, x, status, b) /\ Release(x, a)
           ELSE /\ PublishProgress(a.command, a.request, x, status, b)
                /\ UNCHANGED <<itemRes, boxRes>>
        /\ active' = [active EXCEPT ![x] = NoAction]

FinishFailure(x, s, aligned, attempted, w) ==
    \E o \in Compensations(w, active[x], aligned, attempted) :
        /\ ConcludeFailure(x, s, RollbackOf(o, aligned, attempted))
        /\ SetWorld(o.world)

\* CompleteSuccess: the evidence is read back, then the ledger is finalized.  A
\* generation that moved on meanwhile compensates the committed mutation.
CompleteSuccess(x, w) ==
    LET a == active[x] IN
    \/ /\ ~IsLost(a.request)
       /\ GenerationAllows(a.request, "Succeeded")
       /\ Finalize(a.command, a.request, x, "Succeeded", "None")
       /\ Release(x, a)
       /\ active' = [active EXCEPT ![x] = NoAction]
       /\ SetWorld(w)
    \/ /\ IsLost(a.request) \/ ~GenerationAllows(a.request, "Succeeded") \/ EngineFaults
       /\ FinishFailure(x, "Failed", TRUE, TRUE, w)

-------------------------------------------------------------------------------
(***************************************************************************)
(* The ticks of an executor.                                               *)
(***************************************************************************)

InPhase(x, phases) == active[x] # NoAction /\ active[x].phase \in phases

\* Transition to a phase that leaves the ledger entry Running.
EnterPhase(x, phase) ==
    /\ active' = [active EXCEPT ![x].phase = phase]
    /\ PublishProgress(active[x].command, active[x].request, x, "Running", "None")

\* The actor an approach or a clip is aimed at: the placement anchor, the
\* container, or the item itself.
AimIsValid(r) == r.affordance = "Place" \/ UsesBox(r) \/ ~IsLost(r)

AdvanceApproach(x) ==
    /\ InPhase(x, {"Approach"})
    /\ AimIsValid(active[x].request)
    /\ EnterPhase(x, "Align")
    /\ UNCHANGED <<worldVars, itemRes, boxRes, present, lost>>

\* A storage action captures its participants again here.
AdvanceAlign(x) ==
    LET a == active[x] IN
    /\ InPhase(x, {"Align"})
    /\ AimIsValid(a.request)
    /\ IsStorage(a.request) =>
           /\ ~IsLost(a.request)
           /\ TransferReady(World, a.request)
           /\ box[a.request.box] = a.before.box
    /\ EnterPhase(x, "Animate")
    /\ UNCHANGED <<worldVars, itemRes, boxRes, present, lost>>

StartAnimation(x) ==
    /\ InPhase(x, {"Animate"})
    /\ AimIsValid(active[x].request)
    /\ EnterPhase(x, "Playing")
    /\ UNCHANGED <<worldVars, itemRes, boxRes, present, lost>>

\* Out of reach, participant lost, rotation refused, clip failed, contact out of
\* range: every failure before the mutation is attempted.  In Align the failure
\* comes before or after bAlignmentApplied is set.
FailBeforeContact(x) ==
    /\ InPhase(x, BeforeContact)
    /\ \E s \in {"Failed", "TimedOut"}, aligned \in BOOLEAN :
         /\ active[x].phase # "Align" => aligned = Aligned(active[x])
         /\ s = "TimedOut" => active[x].phase = "Playing"
         /\ FinishFailure(x, s, aligned, FALSE, World)
    /\ UNCHANGED <<present, lost>>

\* The contact notify: bContactMutationAttempted is set, then the mutator checks
\* the reservation and its own preconditions.
ContactRefused(x) ==
    /\ InPhase(x, {"Playing"})
    /\ ~IsLost(active[x].request)
    /\ FinishFailure(x, "Failed", TRUE, TRUE, World)
    /\ UNCHANGED <<present, lost>>

\* The mutator commits; the same tick then looks at the clip, which still runs,
\* has failed or, with a very short tail, has already succeeded.
ContactCommitted(x) ==
    LET a == active[x]
        w == Effect(World, a.request)
    IN
    /\ InPhase(x, {"Playing"})
    /\ ~IsLost(a.request)
    /\ ReservedBy(x, a)
    /\ ContactReady(World, a.request)
    /\ IsStorage(a.request) => box[a.request.box] = a.before.box
    /\ \/ /\ EnterPhase(x, "Contact")
          /\ SetWorld(w)
          /\ UNCHANGED <<itemRes, boxRes>>
       \/ \E s \in {"Failed", "TimedOut"} : FinishFailure(x, s, TRUE, TRUE, w)
       \/ CompleteSuccess(x, w)
    /\ UNCHANGED <<present, lost>>

\* AdvanceAfterContact with a clip that has ended.
AdvanceAfterContact(x) ==
    /\ InPhase(x, {"Contact"})
    /\ \/ CompleteSuccess(x, World)
       \/ \E s \in {"Failed", "TimedOut"} : FinishFailure(x, s, TRUE, TRUE, World)
    /\ UNCHANGED <<present, lost>>

FinishNow(x, s) ==
    FinishFailure(x, s, Aligned(active[x]), active[x].phase = "Contact", World)

\* Faulty: an action past its contact waits for its clip without a deadline.
TimeOutBeforeContact(x) ==
    /\ InPhase(x, BeforeContact)
    /\ FinishNow(x, "TimedOut")
    /\ UNCHANGED <<present, lost>>

\* The tick after the request's TimeoutSeconds, in any phase.
TimeOut(x) ==
    /\ InPhase(x, Phases)
    /\ FinishNow(x, "TimedOut")
    /\ UNCHANGED <<present, lost>>

\* CancelActiveAction: a client, the NPC queue or the component's EndPlay.
CancelActiveAction(x) ==
    /\ InPhase(x, Phases)
    /\ FinishNow(x, "Canceled")
    /\ UNCHANGED <<present, lost>>

-------------------------------------------------------------------------------
(***************************************************************************)
(* The environment: players leave, items are destroyed, other live         *)
(* commands commit.                                                        *)
(***************************************************************************)

\* The character's EndPlay cancels its action and drops what the hand then holds.
PlayerLeaves(x) ==
    /\ x \in Players \cap present
    /\ present' = present \ {x}
    /\ \/ /\ active[x] = NoAction
          /\ SetWorld(DropFromHand(World, x))
          /\ UNCHANGED <<ledgerVars, itemRes, boxRes, active>>
       \/ LET a         == active[x]
              attempted == a.phase = "Contact"
          IN  /\ InPhase(x, Phases)
              /\ \E o \in Compensations(World, a, Aligned(a), attempted) :
                    /\ ConcludeFailure(x, "Canceled", RollbackOf(o, Aligned(a), attempted))
                    /\ SetWorld(DropFromHand(o.world, x))
    /\ UNCHANGED lost

\* Faulty: the container's half of the reservation is kept.
ItemEndPlayAlone(p) ==
    /\ p \in MortalItems \ lost
    /\ lost' = lost \cup {p}
    /\ hand' = [x \in Actors |-> IF hand[x] = p THEN NoItem ELSE hand[x]]
    /\ itemRes' = [itemRes EXCEPT ![p] = NoTicket]
    /\ UNCHANGED <<ledgerVars, pickup, box, boxRes, active, present>>

\* The pickup's EndPlay gives back its own reservation and its container's; the
\* hand's pointer dies, the container keeps the item's name.
ItemEndPlay(p) ==
    /\ p \in MortalItems \ lost
    /\ lost' = lost \cup {p}
    /\ hand' = [x \in Actors |-> IF hand[x] = p THEN NoItem ELSE hand[x]]
    /\ itemRes' = [itemRes EXCEPT ![p] = NoTicket]
    /\ boxRes' = [b \in Containers |->
                    IF itemRes[p] # NoTicket /\ itemRes[p].peer = b THEN NoTicket
                                                                    ELSE boxRes[b]]
    /\ UNCHANGED <<ledgerVars, pickup, box, active, present>>

OtherLiveCommand ==
    /\ ImmediateCommit
    /\ UNCHANGED <<worldVars, itemRes, boxRes, active, present, lost>>

-------------------------------------------------------------------------------

\* A session starts with empty hands and empty containers; items lie free or at
\* an authored placement, containers start open or closed.
Init ==
    /\ LedgerInit
    /\ pickup \in [Items -> {"Free", "Placed"}]
    /\ hand = [x \in Actors |-> NoItem]
    /\ box \in [Containers -> [open : BOOLEAN, contents : {NoItem}]]
    /\ itemRes = [p \in Items |-> NoTicket]
    /\ boxRes = [b \in Containers |-> NoTicket]
    /\ active = [x \in Actors |-> NoAction]
    /\ present = Actors
    /\ lost = {}

Tick(x) ==
    \/ AdvanceApproach(x)
    \/ AdvanceAlign(x)
    \/ StartAnimation(x)
    \/ FailBeforeContact(x)
    \/ ContactRefused(x)
    \/ ContactCommitted(x)
    \/ AdvanceAfterContact(x)
    \/ TimeOut(x)

Next ==
    \/ \E c \in CommandIds, r \in Requests :
         BeginAccepted(c, r) \/ BeginRejected(c, r) \/ BeginAnswered(c, r)
    \/ \E x \in Actors : Tick(x) \/ CancelActiveAction(x) \/ PlayerLeaves(x)
    \/ \E p \in Items : ItemEndPlay(p)
    \/ OtherLiveCommand

Spec == Init /\ [][Next]_vars

\* The clock moves and the component ticks every frame: an action whose deadline
\* has passed is timed out.  Nothing says that a clip ever ends.
FairSpec == Spec /\ \A x \in Actors : WF_vars(TimeOut(x))

-------------------------------------------------------------------------------

TypeOK ==
    /\ LedgerTypeOK
    /\ World \in Worlds
    /\ itemRes \in [Items -> ItemTickets \cup {NoTicket}]
    /\ boxRes \in [Containers -> BoxTickets \cup {NoTicket}]
    /\ active \in [Actors -> Actions \cup {NoAction}]
    /\ present \subseteq Actors
    /\ lost \subseteq Items

\* The executor that holds a reservation is running exactly that command on
\* exactly that participant: no reservation outlives its action, whatever ended
\* it, and a storage tuple is never half released.
NoStaleReservation ==
    /\ \A p \in Items : itemRes[p] # NoTicket =>
         LET a == active[itemRes[p].executor] IN
         a # NoAction /\ a.request.item = p /\ itemRes[p].command = a.command
    /\ \A b \in Containers : boxRes[b] # NoTicket =>
         LET a == active[boxRes[b].executor] IN
         a # NoAction /\ a.request.box = b /\ boxRes[b].command = a.command

\* Every running action holds all its participants, so two actions never share
\* an item or a container.
ActionsHoldTheirTargets ==
    \A x \in Actors : active[x] # NoAction => ReservedBy(x, active[x])

RunsCommand(x, c) ==
    /\ active[x] # NoAction
    /\ active[x].command = c
    /\ active[x].request = ledger[c].request

\* An entry is open exactly while its owner runs its command.
OpenEntriesAreRunning ==
    /\ \A c \in Known : ~ledger[c].terminal => RunsCommand(ledger[c].owner, c)
    /\ \A x \in Actors : active[x] # NoAction =>
         IsOpenFor(active[x].command, active[x].request, x)

\* With destroyed items an entry may stay open without an action, but only one
\* whose item is gone, and it says that the action failed.
OrphansNameLostItems ==
    \A c \in Known : ~ledger[c].terminal =>
        \/ RunsCommand(ledger[c].owner, c)
        \/ IsLost(ledger[c].request) /\ ledger[c].status \in FailureStatuses

Terminates(x, c) == active[x] # NoAction /\ active[x].command = c /\ active'[x] = NoAction

\* A failed, canceled or timed out action leaves its item and its container as
\* they were when it was accepted, however long ago, unless its receipt says
\* ACTION_ROLLBACK_FAILED (a leaving player then drops the restored item).
FailedActionLeavesNoTrace ==
    [][\A x \in Actors, c \in CommandIds :
        LET a == active[x] IN
        /\ Terminates(x, c)
        /\ ledger'[c].status \in FailureStatuses
        /\ ledger'[c].rollback # "Unrestored"
        /\ present' = present
        => /\ UsesItem(a.request) => pickup'[a.request.item] = a.before.place
           /\ UsesBox(a.request) => box'[a.request.box] = a.before.box]_vars

\* The records of an item - its disposition, the hands, the container contents -
\* start to disagree only in a step that records a failed rollback of an action
\* on this very item.
DisagreementIsReported ==
    [][\A p \in Items : Agrees(World, p) /\ ~Agrees(World', p) =>
        \E c \in CommandIds :
            /\ ledger'[c] # ledger[c]
            /\ ledger'[c].request.item = p
            /\ ledger'[c].rollback = "Unrestored"]_vars

\* Nobody moves an item, opens, fills or empties a container but the executor
\* that holds it, and a player drops what it holds when it leaves.
OnlyHoldersChangeTheWorld ==
    [][/\ \A p \in Items : pickup'[p] # pickup[p] =>
            \/ itemRes[p] # NoTicket /\ active'[itemRes[p].executor] # active[itemRes[p].executor]
            \/ \E x \in present \ present' : hand[x] = p
       /\ \A b \in Containers : box'[b] # box[b] =>
            boxRes[b] # NoTicket /\ active'[boxRes[b].executor] # active[boxRes[b].executor]]_vars

\* Without engine faults the three records always agree.
WorldAgrees == \A p \in Items : Agrees(World, p)

\* Every command that was accepted gets its terminal receipt (after which it may
\* be evicted), even if no clip ever ends.
EveryClaimTerminates ==
    \A c \in CommandIds :
        (ledger[c] # NoEntry /\ ~ledger[c].terminal) ~>
            (ledger[c] = NoEntry \/ ledger[c].terminal)

\* "IF a queue is replaced or canceled THEN the active action SHALL produce a
\* terminal cancellation receipt before the actor returns to idle"
\* (docs/specs/vista-action-world-r1/requirements.md).
CanceledActionsGetReceipts ==
    [][\A x \in Actors, c \in CommandIds :
        CancelActiveAction(x) /\ Terminates(x, c) => ledger'[c].terminal]_vars

\* The world as clients may rely on it: an action past its contact but without a
\* receipt has not happened yet.
Pending(x) == active[x] # NoAction /\ active[x].phase = "Contact"

VisiblePickup ==
    [p \in Items |-> IF itemRes[p] # NoTicket /\ Pending(itemRes[p].executor)
                     THEN active[itemRes[p].executor].before.place
                     ELSE pickup[p]]

VisibleHand ==
    [x \in Actors |-> IF Pending(x) /\ UsesItem(active[x].request)
                      THEN IF active[x].before.place = x THEN active[x].request.item ELSE NoItem
                      ELSE hand[x]]

VisibleBox ==
    [b \in Containers |-> IF boxRes[b] # NoTicket /\ Pending(boxRes[b].executor)
                          THEN active[boxRes[b].executor].before.box
                          ELSE box[b]]

Atomic == INSTANCE AtomicActions
    WITH pickup <- VisiblePickup, hand <- VisibleHand, box <- VisibleBox

\* Without engine faults every command takes effect at the instant of its success
\* receipt, in a state and a session generation that allow it, or not at all: the
\* interleaved, compensating executors implement AtomicActions.
ActionsAreAtomic == Atomic!Spec

Ledger == INSTANCE ExecutorLedger

\* Whatever fails, an executor claims an id only when it runs none, and ends what
\* it claimed in one call: the executors implement ExecutorLedger, on which the
\* NPC queue is built.
ServesTheLedger == Ledger!Spec

===============================================================================
