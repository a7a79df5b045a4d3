---------------------------- MODULE EventOverlay ----------------------------
(***************************************************************************)
(* UVistaEventSubsystem: one event at a time is laid over the home.  A     *)
(* start captures the whole home as its baseline, then applies the event's *)
(* operations one by one; a reset restores the baseline.  Both are calls   *)
(* on the game thread and either may fail half way: an actor that cannot   *)
(* be captured, an operation that fails, an executor that is at work, a    *)
(* restored state that does not verify.                                    *)
(*                                                                         *)
(* What the home looks like is abstracted to the set of events whose       *)
(* effects are still in it.                                                *)
(***************************************************************************)
EXTENDS Naturals

CONSTANTS
    Events, NoEvent,
    Npcs,
    EventNpcs,    \* the NPCs whose queue an event's operations replace
    Owners, Home  \* who may own an NPC's queue; Home stands for the events

ASSUME EventsAssumption ==
    /\ NoEvent \notin Events
    /\ Home \in Owners
    /\ EventNpcs \in [Events -> SUBSET Npcs]

VARIABLES
    home,     \* the event subsystem and its session generation
    queue     \* each NPC's queue: whose it is and how it stands

Statuses == {"inactive", "active", "succeeded", "failed", "timed_out"}

\* kept: the baseline maps are filled.  found: the leftovers the captured
\* baseline contains.  modified: ModifiedNpcControllers.  tainted is a history
\* variable: a start captured a home that an earlier event was still in.
Homes == [gen : Nat, active : Events \cup {NoEvent}, status : Statuses,
          kept : BOOLEAN, overlay : SUBSET Events, found : SUBSET Events,
          modified : SUBSET Npcs, tainted : BOOLEAN]

QueueStates == {"running", "done", "failed", "canceled"}
Queues == [owner : Owners, st : QueueStates]

OverlayInit ==
    /\ home = [gen |-> 0, active |-> NoEvent, status |-> "inactive",
               kept |-> FALSE, overlay |-> {}, found |-> {},
               modified |-> {}, tainted |-> FALSE]
    /\ queue = [n \in Npcs |-> [owner |-> Home, st |-> "done"]]

\* Faulty: a stale command is let through.
AnyGenerationAllows(g) == TRUE

\* The envelope check every mutating command passes first.
GenerationAllows(g) == g = home.gen

IsIdle == home.status = "inactive" /\ home.active = NoEvent

\* Faulty: the new queue is put in but not run.
ReplacedAnew(ns, owner) ==
    [n \in Npcs |-> IF n \in ns THEN [owner |-> owner, st |-> "queued"] ELSE queue[n]]

\* The queues after those of some NPCs were replaced, or canceled.
Replaced(ns, owner) ==
    [n \in Npcs |-> IF n \in ns THEN [owner |-> owner, st |-> "running"] ELSE queue[n]]

CanceledIn(q, ns) ==
    [n \in Npcs |-> IF n \in ns /\ q[n].st = "running"
                    THEN [q[n] EXCEPT !.st = "canceled"] ELSE q[n]]

-----------------------------------------------------------------------------
(***************************************************************************)
(* StartEvent, with the generation its caller commits on success.  Each    *)
(* way out is an operator; ok is the caller's answer.                      *)
(***************************************************************************)
MayStart(g) == GenerationAllows(g) /\ home.active = NoEvent

\* A stale envelope, another event, an unknown event, a missing target.
Refused(ok) == ~ok /\ UNCHANGED <<home, queue>>

\* An actor cannot be captured: the baseline, an older one too, is dropped.
CaptureFails(ok) ==
    /\ ~ok
    /\ home' = [home EXCEPT !.status = "failed", !.kept = FALSE,
                            !.modified = {}]
    /\ UNCHANGED queue

\* The home as captured at the start: a baseline that was kept is replaced.
Captured == [home EXCEPT !.kept = TRUE, !.found = home.overlay, !.modified = {},
                         !.tainted = @ \/ home.overlay # {}]

\* An operation fails and the baseline is restored.
Undone(e) == [Captured EXCEPT !.status = "failed", !.kept = FALSE]

OperationFails(e, ok) ==
    /\ ~ok
    /\ home' = Undone(e)
    /\ queue' \in {CanceledIn(Replaced(ns, Home), ns) : ns \in SUBSET EventNpcs[e]}

\* ... or it is not, or not completely, and the baseline is kept.
UndoFails(e, ok) ==
    /\ ~ok
    /\ \E ns \in SUBSET EventNpcs[e] :
       /\ home' = [Captured EXCEPT !.status = "failed", !.overlay = @ \cup {e},
                                   !.modified = ns]
       /\ queue' \in {Replaced(ns, Home), CanceledIn(Replaced(ns, Home), ns)}

\* EvaluateOutcome may end the event at once.
Starts(e, ok) ==
    /\ ok
    /\ \E s \in {"active", "succeeded", "failed"} :
          home' = [Captured EXCEPT !.active = e, !.status = s, !.gen = @ + 1,
                                   !.overlay = @ \cup {e}, !.modified = EventNpcs[e]]
    /\ queue' = Replaced(EventNpcs[e], Home)

StartEvent(e, g, ok) ==
    \/ Refused(ok)
    \/ /\ MayStart(g)
       /\ \/ CaptureFails(ok) \/ OperationFails(e, ok)
          \/ UndoFails(e, ok) \/ Starts(e, ok)

-----------------------------------------------------------------------------
(***************************************************************************)
(* ResetEvent, refused while an executor or a reservation is at work.      *)
(***************************************************************************)
MayReset(g) == GenerationAllows(g) /\ (home.active # NoEvent \/ home.kept)

\* Faulty: a reset that failed is a reset.
FailedRestoreIgnored == [home EXCEPT !.status = "inactive", !.active = NoEvent,
                                     !.kept = FALSE]

FailedRestore == [home EXCEPT !.status = "failed"]

RestoreFails(ok) ==
    /\ ~ok
    /\ home' = FailedRestore
    /\ queue' \in {queue, CanceledIn(queue, home.modified)}

Restores(ok) ==
    /\ ok
    /\ home' = [home EXCEPT !.status = "inactive", !.active = NoEvent, !.kept = FALSE,
                            !.overlay = home.found, !.modified = {}, !.gen = @ + 1]
    /\ queue' = CanceledIn(queue, home.modified)

ResetEvent(g, ok) ==
    \/ Refused(ok)
    \/ MayReset(g) /\ (RestoreFails(ok) \/ Restores(ok))

-----------------------------------------------------------------------------
\* EvaluateOutcome and the timeout: the event ends, but stays over the home.
Tick ==
    /\ home.status = "active"
    /\ \E s \in {"succeeded", "failed", "timed_out"} : home' = [home EXCEPT !.status = s]
    /\ UNCHANGED queue

\* Any other command that succeeds: an interaction, for instance.
Command ==
    /\ home' = [home EXCEPT !.gen = @ + 1]
    /\ UNCHANGED queue

\* ExecuteNpcQueue, which replaces the queue, and ExecuteNpcCancel.  Either is
\* also refused when the NPC has no controller.
QueueCommand(n, g, owner, ok) ==
    \/ Refused(ok)
    \/ /\ ok /\ GenerationAllows(g)
       /\ home' = [home EXCEPT !.gen = @ + 1]
       /\ queue' = Replaced({n}, owner)

CancelCommand(n, g, ok) ==
    \/ Refused(ok)
    \/ /\ ok /\ GenerationAllows(g)
       /\ home' = [home EXCEPT !.gen = @ + 1]
       /\ queue' = CanceledIn(queue, {n})

\* The NPC works its queue off.
QueueEnds(n) ==
    /\ queue[n].st = "running"
    /\ \E s \in {"done", "failed"} : queue' = [queue EXCEPT ![n].st = s]
    /\ UNCHANGED home
=============================================================================
