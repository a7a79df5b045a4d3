------------------------------- MODULE NpcQueue -------------------------------
(***************************************************************************)
(* The action queue of an NPC (AVistaHomeNpcController): replacement and   *)
(* cancellation, the tick that starts and polls actions, path following    *)
(* and timeouts, with the executors as ExecutorLedger describes them.      *)
(*                                                                         *)
(* One handler is one action.  Between two ticks of a controller its       *)
(* executor, its clip, its path following, clients and events run.         *)
(***************************************************************************)
EXTENDS ExecutorLedger

CONSTANTS
    Npcs,          \* the executors that belong to an NPC controller
    QueueActions,  \* the actions a queue may hold
    Queues,        \* the queues that are submitted
    ClientIds,     \* the command ids that live clients choose
    MaxQueueDepth, \* MaxQueueDepth
    Frames,        \* what one tick may add to the elapsed time
    MaxElapsed,    \* bound on the elapsed time in the model
    NoQueueAction, \* no current action
    NoClip         \* the playback result of a component that played nothing

Kinds == {"Physical", "Animate", "Navigate", "Wait", "Instant"}

\* The request that the controller of n makes of a physical action: its own pawn is
\* the requester, and no live client waits for a generation to be committed.
RequestOf(n, a) == [actor |-> n, live |-> FALSE, gen |-> 0, what |-> a.what]

ASSUME QueueActionsAssumption ==
    \A a \in QueueActions :
        /\ a.kind \in Kinds
        /\ a.timeout \in Nat /\ a.duration \in Nat
        /\ a.kind = "Physical" => /\ a.id \in CommandIds
                                  /\ \A n \in Npcs : RequestOf(n, a) \in Requests
ASSUME QueuesAssumption ==
    /\ Queues \subseteq Seq(QueueActions)
    /\ \A q \in Queues : Len(q) <= MaxQueueDepth
ASSUME TimeAssumption ==
    /\ Frames \subseteq Nat \ {0}
    /\ MaxElapsed \in Nat
    /\ \A a \in QueueActions : a.timeout < MaxElapsed
ASSUME NpcsAssumption == Npcs \subseteq Executors
ASSUME ClientIdsAssumption == ClientIds \subseteq CommandIds
ASSUME NoQueueActionAssumption == NoQueueAction \notin QueueActions

VARIABLE npc    \* the controller of each NPC with what it polls

queueVars == <<ledgerVars, npc>>

ActionIds == {a.id : a \in QueueActions} \cup CommandIds

\* EVistaNpcActionStatus
Finals == {"Succeeded", "Failed", "Blocked", "TimedOut", "Canceled"}

\* EVistaAnimationPlaybackStatus without Idle
ClipFinals == {"Succeeded", "Failed", "TimedOut", "Stopped"}

Clips == [id : ActionIds, status : ClipFinals \cup {"Running"}]

ASSUME NoClipAssumption == NoClip \notin Clips

\* Path following requests of the engine; 0 is FAIRequestID::InvalidRequest.
MoveIds == {0, 1, 2}

\* queue, current, status: ActionQueue, CurrentAction, CurrentResult.Status;
\* last: LastCompletedResult.Status; nav: ActiveNavigationRequestId; moving: the request
\* that path following works on; clip: the PlaybackResult of the pawn's animation
\* component, which the queue shares with the executor; elapsed: the time since
\* ActionStartedAt at the last tick that looked at it.
Controllers ==
    [queue   : Seq(QueueActions),
     current : QueueActions \cup {NoQueueAction},
     status  : Finals \cup {"Idle", "Running"},
     last    : Finals \cup {"Idle"},
     nav     : MoveIds,
     moving  : MoveIds,
     clip    : Clips \cup {NoClip},
     elapsed : 0..MaxElapsed]

-------------------------------------------------------------------------------
(***************************************************************************)
(* What the handlers do to a controller v.                                 *)
(***************************************************************************)

Moved(v) == v.moving # 0
Playing(v) == v.clip # NoClip /\ v.clip.status = "Running"

\* Faulty: only a pawn whose request is still known is stopped.
StoppedIfFollowing(v) == IF v.nav = 0 THEN v ELSE [v EXCEPT !.moving = 0]

\* StopMovement, StopControlledMotion: path following ends with a notification
\* that is ignored, since every caller has reset ActiveNavigationRequestId.
Stopped(v) == [v EXCEPT !.moving = 0]

\* UVistaAnimationComponent::StopActiveAction
ClipStopped(v) == IF Playing(v) THEN [v EXCEPT !.clip.status = "Stopped"] ELSE v

\* EnterCommandedIdle
Idled(v) == [v EXCEPT !.status = "Idle", !.nav = 0]

AlreadyIdle(v) == v.status = "Idle" /\ v.nav = 0

\* Faulty: a result of its own.
CompletedDone(v, s) ==
    [v EXCEPT !.status  = "Done",
              !.last    = s,
              !.nav     = 0,
              !.current = NoQueueAction]

\* CompleteCurrent up to its broadcast.
Completed(v, s) ==
    [v EXCEPT !.status  = s,
              !.last    = s,
              !.nav     = 0,
              !.current = NoQueueAction]

\* ValidateQueueShape
IsQueue(q) ==
    /\ Len(q) <= MaxQueueDepth
    /\ \A i, j \in 1..Len(q) : q[i].id = q[j].id => i = j

\* EnqueueAction, when it accepts.
Accepts(v, a) ==
    /\ Len(v.queue) + (IF v.current = NoQueueAction THEN 0 ELSE 1) < MaxQueueDepth
    /\ v.current # NoQueueAction => v.current.id # a.id
    /\ \A i \in 1..Len(v.queue) : v.queue[i].id # a.id

Enqueued(v, a) == [v EXCEPT !.queue = Append(v.queue, a)]

\* A listener of OnActionFinished may do nothing, enqueue an action or replace the
\* queue, which then has no current action to cancel.  A handler that ends with
\* its broadcast leaves this to the actions that may follow it.
AfterListener(v) ==
    {v} \cup {Enqueued(v, a) : a \in {b \in QueueActions : Accepts(v, b)}}
        \cup {[v EXCEPT !.queue = q, !.status = "Idle"] : q \in {r \in Queues : IsQueue(r)}}

Becomes(n, v) == npc' = [npc EXCEPT ![n] = v]

-------------------------------------------------------------------------------
(***************************************************************************)
(* Replacing and canceling a queue.                                        *)
(***************************************************************************)

\* The controller when CancelActionQueue broadcasts, if it does.
BeforeBroadcast(v) ==
    LET stopped == Stopped(ClipStopped([v EXCEPT !.queue = <<>>, !.nav = 0])) IN
    IF v.current = NoQueueAction THEN stopped ELSE Completed(stopped, "Canceled")

AfterBroadcast(v) ==
    IF v.current = NoQueueAction THEN {BeforeBroadcast(v)} ELSE AfterListener(BeforeBroadcast(v))

\* Faulty: what the listener left in the queue survives.
CanceledOnce(v) == {Idled(w) : w \in AfterBroadcast(v)}

\* CancelActionQueue, but for the executor's part.
Canceled(v) == {Idled([w EXCEPT !.queue = <<>>]) : w \in AfterBroadcast(v)}

\* Faulty: the executor goes on.
ExecutorIgnored(n) == UNCHANGED <<ledger, order>>

\* CancelActiveAction: a rollback that fails makes the receipt Failed, and an
\* action that cannot release its reservations leaves its entry open.
ExecutorCanceled(n) ==
    /\ UNCHANGED order
    /\ \/ ~Busy(n) /\ UNCHANGED ledger
       \/ \E c \in CommandIds, s \in {"Canceled", "Failed"} :
            /\ Runs(n, c)
            /\ \/ ledger' = [ledger EXCEPT ![c] = TerminalEntry(ledger[c].request, s, "None")]
               \/ ledger' = [ledger EXCEPT ![c].status = s]

\* A live command commits the generation it was validated against; an event's
\* operations leave that to the event.
CommitsOrNot == generation' \in {generation, generation + 1} \cap 0..MaxGeneration

\* ExecuteNpcCancel and the event subsystem's baseline restore.
CancelActionQueue(n) ==
    /\ \E v \in Canceled(npc[n]) : Becomes(n, v)
    /\ ExecutorCanceled(n)
    /\ CommitsOrNot

\* ExecuteNpcQueue and the SetNpcQueue operation of an event.
ReplaceActionQueue(n, q) ==
    /\ IsQueue(q)
    /\ \E v \in Canceled(npc[n]) : Becomes(n, [v EXCEPT !.queue = q])
    /\ ExecutorCanceled(n)
    /\ CommitsOrNot

\* Called by blueprints only.
EnqueueAction(n, a) ==
    /\ Accepts(npc[n], a)
    /\ Becomes(n, Enqueued(npc[n], a))
    /\ UNCHANGED ledgerVars

-------------------------------------------------------------------------------
(***************************************************************************)
(* The tick of a controller.                                               *)
(***************************************************************************)

\* StartNextAction with an empty queue.
TickIdle(n) ==
    LET v == npc[n] IN
    /\ v.current = NoQueueAction
    /\ v.queue = <<>>
    /\ Becomes(n, IF AlreadyIdle(v) THEN v ELSE Idled(Stopped(v)))
    /\ UNCHANGED ledgerVars

\* StartNextAction up to StartCurrentAction.
Started(v) ==
    [v EXCEPT !.current = Head(v.queue), !.queue = Tail(v.queue),
              !.status = "Running", !.elapsed = 0]

Starts(n, kind) ==
    /\ npc[n].current = NoQueueAction
    /\ npc[n].queue # <<>>
    /\ Head(npc[n].queue).kind = kind

\* The pawn or a participant of the action is missing.
StartFails(n) ==
    /\ \E kind \in Kinds : Starts(n, kind)
    /\ Becomes(n, Completed(Started(npc[n]), "Failed"))
    /\ UNCHANGED ledgerVars

\* StartPhysicalAction once its participants are resolved: the executor accepts
\* the command, rejects it, has no place for it or replays its receipt.
StartPhysical(n) ==
    LET v == Started(npc[n])
        c == v.current.id
        r == RequestOf(n, v.current)
    IN
    /\ Starts(n, "Physical")
    /\ \/ Becomes(n, v) /\ Accept(c, r)
       \/ Becomes(n, Completed(v, "Failed")) /\ ClaimRejected(c, r)
       \/ /\ ClaimOutcome(c, r) \in {"CapacityExceeded", "Collision"}
          /\ Becomes(n, Completed(v, "Failed"))
          /\ UNCHANGED ledgerVars
       \/ /\ ClaimOutcome(c, r) = "Replay"
          /\ Becomes(n, v)
          /\ UNCHANGED ledgerVars

\* The clip starts, or not: it is busy or not approved.
StartAnimate(n) ==
    LET v == Started(npc[n]) IN
    /\ Starts(n, "Animate")
    /\ \/ /\ ~Playing(v)
          /\ Becomes(n, [v EXCEPT !.clip = [id |-> v.current.id, status |-> "Running"]])
       \/ Becomes(n, Completed(v, "Failed"))
    /\ UNCHANGED ledgerVars

\* The goal is not on the navigation mesh; MoveToLocation, which ends an earlier
\* request, fails, finds the pawn at the goal, or issues a request.
StartNavigate(n) ==
    LET v == Started(npc[n]) IN
    /\ Starts(n, "Navigate")
    /\ \/ Becomes(n, Completed(v, "Blocked"))
       \/ \E s \in {"Blocked", "Succeeded"} : Becomes(n, Completed(Stopped(v), s))
       \/ \E m \in MoveIds \ {0, v.moving} : Becomes(n, [v EXCEPT !.nav = m, !.moving = m])
    /\ UNCHANGED ledgerVars

StartWait(n) ==
    /\ Starts(n, "Wait")
    /\ Becomes(n, Started(npc[n]))
    /\ UNCHANGED ledgerVars

\* Speak, and a LookAt that has no asset and turns the pawn at once.
StartInstant(n) ==
    /\ Starts(n, "Instant")
    /\ Becomes(n, Completed(Started(npc[n]), "Succeeded"))
    /\ UNCHANGED ledgerVars

Continues(n) == npc[n].current # NoQueueAction

ReceiptStatus(c) == IF ledger[c] = NoEntry THEN "Lost" ELSE ledger[c].status

\* Faulty: only a terminal receipt ends the action.
PollTerminalOnly(n) ==
    LET v == npc[n] IN
    /\ Continues(n)
    /\ v.current.kind = "Physical"
    /\ ledger[v.current.id] # NoEntry /\ ledger[v.current.id].terminal
    /\ Becomes(n, Completed(v, ledger[v.current.id].status))
    /\ UNCHANGED ledgerVars

\* PollPhysicalAction: ACTION_TRANSACTION_LOST, or what the receipt says.
PollPhysical(n) ==
    LET v == npc[n] IN
    /\ Continues(n)
    /\ v.current.kind = "Physical"
    /\ ReceiptStatus(v.current.id) # "Running"
    /\ Becomes(n, Completed(v, IF ReceiptStatus(v.current.id) = "Lost"
                               THEN "Failed" ELSE ReceiptStatus(v.current.id)))
    /\ UNCHANGED ledgerVars

\* Faulty: any result is taken for that of the current action.
ClipIsAny(v) == v.clip # NoClip

\* The playback result carries the id of the current action.
ClipIsOf(v) == v.clip # NoClip /\ v.clip.id = v.current.id

\* The controller when the next tick looks at it, d later.
Later(v, d) ==
    [v EXCEPT !.elapsed = IF v.elapsed + d > MaxElapsed THEN MaxElapsed ELSE v.elapsed + d]

\* PollAnimationAction, whatever kind of action is current.
PollAnimation(n) ==
    /\ Continues(n)
    /\ npc[n].current.kind # "Physical"
    /\ ClipIsOf(npc[n])
    /\ npc[n].clip.status # "Running"
    /\ \E d \in Frames :
         Becomes(n, Completed(Later(npc[n], d),
                              IF npc[n].clip.status = "Stopped" THEN "Failed"
                                                                ELSE npc[n].clip.status))
    /\ UNCHANGED ledgerVars

\* Faulty: path following goes on under the next action.
TimedOutInMotion(v) == Completed(v, "TimedOut")

TimedOut(v) == Stopped(Completed(v, "TimedOut"))

\* The rest of Tick: the timeout is looked at before the duration of a wait.
TickRunning(n) ==
    /\ Continues(n)
    /\ npc[n].current.kind # "Physical"
    /\ ~ClipIsOf(npc[n])
    /\ \E d \in Frames :
         LET v      == Later(npc[n], d)
             waited == v.current.kind = "Wait" /\ v.elapsed >= v.current.duration
         IN
         \/ /\ v.elapsed > v.current.timeout
            /\ Becomes(n, TimedOut(v))
         \/ /\ v.elapsed <= v.current.timeout /\ waited
            /\ Becomes(n, Completed(v, "Succeeded"))
         \/ /\ v.elapsed <= v.current.timeout /\ ~waited
            /\ Becomes(n, v)
    /\ UNCHANGED ledgerVars

Tick(n) ==
    \/ TickIdle(n)
    \/ StartFails(n)
    \/ StartPhysical(n)
    \/ StartAnimate(n)
    \/ StartNavigate(n)
    \/ StartWait(n)
    \/ StartInstant(n)
    \/ PollPhysical(n)
    \/ PollAnimation(n)
    \/ TickRunning(n)

-------------------------------------------------------------------------------
(***************************************************************************)
(* What runs between the ticks.                                            *)
(***************************************************************************)

\* Path following ends by itself and calls OnMoveCompleted.
MoveEnds(n) ==
    LET v == [npc[n] EXCEPT !.moving = 0] IN
    /\ Moved(npc[n])
    /\ \/ npc[n].nav # npc[n].moving /\ Becomes(n, v)
       \/ /\ npc[n].nav = npc[n].moving
          /\ ~Continues(n) \/ v.current.kind # "Navigate"
          /\ Becomes(n, [v EXCEPT !.nav = 0])
       \/ /\ npc[n].nav = npc[n].moving
          /\ Continues(n) /\ v.current.kind = "Navigate"
          /\ \E s \in {"Succeeded", "Blocked"} : Becomes(n, Completed(v, s))
    /\ UNCHANGED ledgerVars

\* The executor starts the clip of its command.
ClipStarts(n) ==
    /\ ~Playing(npc[n])
    /\ \E c \in CommandIds :
         /\ Runs(n, c)
         /\ Becomes(n, [npc[n] EXCEPT !.clip = [id |-> c, status |-> "Running"]])
    /\ UNCHANGED ledgerVars

\* The montage ends, is interrupted or takes too long.
ClipEnds(n) ==
    /\ Playing(npc[n])
    /\ \E s \in ClipFinals \ {"Stopped"} : Becomes(n, [npc[n] EXCEPT !.clip.status = s])
    /\ UNCHANGED ledgerVars

\* An executor succeeds after its clip; it stops the pawn's clip on a timeout or
\* failure, whosever it is.
ClipAllows(v, c, s) == s = "Succeeded" => v.clip = [id |-> c, status |-> "Succeeded"]

ClipsAfter(v, c) ==
    IF Playing(v) /\ v.clip.id = c THEN {ClipStopped(v)} ELSE {v, ClipStopped(v)}

\* An executor ends its command.  The queue does not look at what the receipt says
\* of the compensation.
ExecutorEnds(x) ==
    \E c \in CommandIds, s \in Statuses \ {"Running"} :
        /\ Conclude(x, c, s, "None")
        /\ \/ x \notin Npcs /\ UNCHANGED npc
           \/ /\ x \in Npcs
              /\ ClipAllows(npc[x], c, s)
              /\ \E v \in ClipsAfter(npc[x], c) : Becomes(x, v)

\* Live clients use the executors, too, the NPCs' included, and players theirs.
ClientBegins ==
    /\ \E c \in ClientIds, r \in Requests :
         /\ r.live \/ r.actor \notin Npcs
         /\ Accept(c, r) \/ ClaimRejected(c, r)
    /\ UNCHANGED npc

-------------------------------------------------------------------------------

QueueInit ==
    /\ LedgerInit
    /\ npc = [n \in Npcs |->
                [queue |-> <<>>, current |-> NoQueueAction, status |-> "Idle",
                 last |-> "Idle",
                 nav |-> 0, moving |-> 0, clip |-> NoClip, elapsed |-> 0]]

QueueNext ==
    \/ \E n \in Npcs :
        \/ Tick(n)
        \/ CancelActionQueue(n)
        \/ \E q \in Queues : ReplaceActionQueue(n, q)
        \/ \E a \in QueueActions : EnqueueAction(n, a)
        \/ MoveEnds(n)
        \/ ClipStarts(n)
        \/ ClipEnds(n)
    \/ \E x \in Executors : ExecutorEnds(x)
    \/ ClientBegins

QueueSpec == QueueInit /\ [][QueueNext]_queueVars


\* Ticks come every frame, a clip ends by its own timeout, and an executor by its
\* command's timeout (EveryClaimTerminates of ActionExecutor).
FairQueueSpec ==
    /\ QueueSpec
    /\ \A n \in Npcs : WF_queueVars(Tick(n)) /\ WF_queueVars(ClipEnds(n))
    /\ \A x \in Executors : WF_queueVars(ExecutorEnds(x))

-------------------------------------------------------------------------------

\* Every variable holds a value of its type.
QueueTypeOK ==
    /\ LedgerTypeOK
    /\ npc \in [Npcs -> Controllers]

\* A commanded idle is clean, whatever walked, timed out or was forgotten before it:
\* no action, no path following request, no motion.
IdleIsStill ==
    \A n \in Npcs : npc[n].status = "Idle" =>
        npc[n].current = NoQueueAction /\ npc[n].nav = 0 /\ npc[n].moving = 0

\* What the executor of an NPC runs without a live client is the current action of
\* its queue: it never goes on with an action that the controller has left.
QueueOwnsItsExecution ==
    \A n \in Npcs, c \in CommandIds :
        Runs(n, c) /\ ~ledger[c].request.live =>
            /\ npc[n].current # NoQueueAction
            /\ npc[n].current.kind = "Physical"
            /\ npc[n].current.id = c
            /\ ledger[c].request = RequestOf(n, npc[n].current)

\* A cancel is final whatever a listener of the cancellation does.
CancelIsFinal ==
    [][\A n \in Npcs : CancelActionQueue(n) =>
          /\ npc'[n].queue = <<>> /\ npc'[n].current = NoQueueAction
          /\ npc'[n].status = "Idle"]_queueVars

ClientsPause == <>[][~ClientBegins]_queueVars

\* Every action that is started ends, whatever becomes of its receipt, its clip
\* and its path, unless clients begin commands for ever: they may take the id of an
\* action whose receipt was evicted, and the poll then finds their open entry.
EveryActionEnds ==
    ClientsPause =>
        \A n \in Npcs : npc[n].current # NoQueueAction ~> npc[n].current = NoQueueAction

Ends(n) == npc[n].current # NoQueueAction /\ npc'[n].current = NoQueueAction

\* "`wait` completion wins over timeout at their shared boundary"
\* (docs/specs/vista-action-world-r1/requirements.md).
WaitWinsOverTimeout ==
    [][\A n \in Npcs :
          /\ Ends(n)
          /\ npc[n].current.kind = "Wait"
          /\ npc[n].current.duration = npc[n].current.timeout
          => npc'[n].last # "TimedOut"]_queueVars

\* "cancel/preempt terminalizes once" (docs/specs/vista-action-world-r1/tasks.md):
\* an action that the queue reports as canceled has no success receipt.
CancelTerminalizesOnce ==
    [][\A n \in Npcs :
          /\ Ends(n)
          /\ npc[n].current.kind = "Physical"
          /\ npc'[n].last = "Canceled"
          => LET c == npc[n].current.id IN
             ledger'[c] # NoEntry => ledger'[c].status # "Succeeded"]_queueVars

\* A finished clip carries the id of the current action.  Ids are unique within one
\* queue only, so the clip may be that of an earlier action or of a client.
ClipAnswers(n) ==
    /\ npc[n].current # NoQueueAction /\ npc[n].clip # NoClip
    /\ npc[n].clip.id = npc[n].current.id /\ npc[n].clip.status # "Running"

\* The pawn does not move, or it moves for the current NavigateTo, whose request is
\* the one that the controller knows.
WalksForNavigation(n) ==
    npc[n].moving # 0 =>
        /\ npc[n].current # NoQueueAction /\ npc[n].current.kind = "Navigate"
        /\ npc[n].nav = npc[n].moving

\* A walk ends with its NavigateTo: success, failure, timeout, cancel and replacement
\* all leave a pawn that stands still.  The exception is the one that the code makes:
\* a clip with the id of the NavigateTo ends the action (PollAnimationAction comes
\* first and asks for no kind), and the pawn goes on.
MotionEndsWithNavigation ==
    [][\A n \in Npcs : WalksForNavigation(n) /\ ~WalksForNavigation(n)' =>
          ClipAnswers(n) /\ npc[n].current.kind = "Navigate"]_queueVars

\* Why an action of n may end well: the receipt of its id is a success, a clip of
\* its id has succeeded, the request that it walks for has ended, or it has waited.
HasSucceeded(n) ==
    LET a == npc[n].current IN
    \/ a.kind = "Physical" /\ ledger[a.id] # NoEntry /\ ledger[a.id].status = "Succeeded"
    \/ a.kind # "Physical" /\ ClipAnswers(n) /\ npc[n].clip.status = "Succeeded"
    \/ a.kind = "Navigate" /\ npc[n].nav # 0 /\ npc[n].nav = npc[n].moving
    \/ a.kind = "Wait" /\ npc'[n].elapsed >= a.duration

\* No other result is taken for that of the current action: not the receipt or the
\* clip of another id, not the end of a request that was given up, and no wait is
\* cut short but by a clip that carries its id.
SuccessesAreEarned ==
    [][\A n \in Npcs :
          Ends(n) /\ npc'[n].last = "Succeeded" => HasSucceeded(n)]_queueVars

===============================================================================
