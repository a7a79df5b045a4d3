---------------------------- MODULE EventDispatch ----------------------------
(***************************************************************************)
(* dispatch (event_v3_dispatch.py): a client lays one event over the home  *)
(* and gives each of the event's NPCs its queue.  It probes the status,    *)
(* preflights every queue, starts the event, commits the queues and polls  *)
(* them until they are done; from the start on, whatever fails makes it    *)
(* roll back: look, cancel, look again, reset, look once more.             *)
(*                                                                         *)
(* Every request is an exchange of its own with the loopback adapter       *)
(* (VistaWorldTcpAdapter.cpp), which hands one frame at a time to the game *)
(* thread.  The client gives up on an answer long before the adapter gives *)
(* up on the game thread: a request that timed out may be dropped, or be   *)
(* carried out later.  Other clients, and players, use the home meanwhile. *)
(***************************************************************************)
EXTENDS EventOverlay, Sequences

CONSTANTS
    Dispatches,      \* calls of dispatch
    EventOf,         \* the event each of them starts
    QueuesOf,        \* its NPCs, in the order of their queues
    OtherEvents,     \* events that other clients start
    Others,          \* the other clients, as owners of queues
    MaxOthers        \* bound: the commands of the other clients

ASSUME DispatchAssumption ==
    /\ EventOf \in [Dispatches -> Events \ OtherEvents]
    /\ \A d, e \in Dispatches : EventOf[d] = EventOf[e] => d = e
    /\ QueuesOf \in [Dispatches -> Seq(Npcs) \ {<<>>}]
    /\ OtherEvents \subseteq Events
    /\ Dispatches \subseteq Owners
    /\ Others \in Owners \ (Dispatches \cup {Home})
    /\ Home \notin Dispatches
    /\ MaxOthers \in Nat

VARIABLES
    disp,     \* the dispatches
    inbox,    \* requests on their way to the game thread, oldest first
    others    \* the number of commands of other clients so far

vars == <<home, queue, disp, inbox, others>>

Probing == {"probe", "preflight"}
Mutating == {"start", "commit", "drain"}
RollingBack == {"rstatus", "rcancel", "rnpc", "rpre", "rreset", "rterm"}
Over == {"failed", "drained", "rolledback", "stuck"}
Steps == Probing \cup Mutating \cup RollingBack \cup Over

\* k: which of its queues the step is about.  gen: the last generation it was
\* told.  committed: queue_commit_may_have_occurred.  waits: a request is out.
Records == [at : Steps, k : Nat \ {0}, gen : Nat, committed : BOOLEAN,
            waits : BOOLEAN]

\* live: the dispatch still waits for the answer.
Requests == [from : Dispatches, step : Steps \ Over, k : Nat \ {0}, gen : Nat,
             live : BOOLEAN]

At(d, step) == disp[d].at = step
Npc(d, k) == QueuesOf[d][k]

Init ==
    /\ OverlayInit
    /\ disp = [d \in Dispatches |-> [at |-> "probe", k |-> 1, gen |-> 0,
                                     committed |-> FALSE, waits |-> FALSE]]
    /\ inbox = <<>>
    /\ others = 0

-----------------------------------------------------------------------------
(***************************************************************************)
(* Where a dispatch goes.  Each operator is the dispatch's next record.    *)
(***************************************************************************)
GoesTo(d, step) == [disp[d] EXCEPT !.at = step, !.k = 1, !.waits = FALSE]

\* On to the step for the next queue, or past the last one.
GoesOn(d, next) ==
    IF disp[d].k < Len(QueuesOf[d])
    THEN [disp[d] EXCEPT !.k = @ + 1, !.waits = FALSE]
    ELSE GoesTo(d, next)

Told(r, g) == [r EXCEPT !.gen = g]

\* An exception: before the start it is the caller's, then it rolls back, and
\* in a rollback it is the caller's again.
Fails(d) == GoesTo(d, IF disp[d].at \in Probing THEN "failed"
                      ELSE IF disp[d].at \in Mutating THEN "rstatus" ELSE "stuck")

\* Faulty: set when the commit is acknowledged.
MayHaveCommittedBefore(d) ==
    disp[d].committed \/ disp[d].at = "drain" \/ (At(d, "commit") /\ disp[d].k > 1)

\* Set before the first queue is sent.
MayHaveCommitted(d) == disp[d].committed \/ At(d, "commit")

Send(d) ==
    /\ disp[d].at \notin Over /\ ~disp[d].waits
    /\ inbox' = Append(inbox, [from |-> d, step |-> disp[d].at, k |-> disp[d].k,
                               gen |-> disp[d].gen, live |-> TRUE])
    /\ disp' = [disp EXCEPT ![d].waits = TRUE, ![d].committed = MayHaveCommitted(d)]
    /\ UNCHANGED <<home, queue, others>>

-----------------------------------------------------------------------------
(***************************************************************************)
(* The requests, carried out on the game thread, and what the dispatch     *)
(* makes of the answer, if it is still there to hear it.                   *)
(***************************************************************************)
Unmoved == UNCHANGED <<home, queue>>

Answer(q, r) == disp' = IF q.live THEN [disp EXCEPT ![q.from] = r] ELSE disp

\* The receipt of a mutation, which takes the generation one further.
Receipt(q, ok, next) ==
    Answer(q, IF ok THEN Told(next, q.gen + 1) ELSE Fails(q.from))

Probe(q) ==
    /\ Answer(q, IF IsIdle THEN Told(GoesTo(q.from, "preflight"), home.gen)
                           ELSE Fails(q.from))
    /\ Unmoved

\* The queue's actions may also be refused.
Preflight(q) ==
    /\ \/ Answer(q, Fails(q.from))
       \/ GenerationAllows(q.gen) /\ IsIdle /\ Answer(q, GoesOn(q.from, "start"))
    /\ Unmoved

Start(q) ==
    \E ok \in BOOLEAN :
        /\ StartEvent(EventOf[q.from], q.gen, ok)
        /\ Receipt(q, ok, GoesTo(q.from, "commit"))

CommitQueue(q) ==
    \E ok \in BOOLEAN :
        /\ QueueCommand(Npc(q.from, q.k), q.gen, q.from, ok)
        /\ Receipt(q, ok, GoesOn(q.from, "drain"))

\* Faulty: the generation of a poll is not compared.
IsPolledAny(q) == home.active = EventOf[q.from]

IsPolled(q) == home.active = EventOf[q.from] /\ home.gen = q.gen

\* A queue is done once its last action has succeeded.  One that is not at
\* its end is polled again, up to a limit.
Drain(q) ==
    LET d == q.from
        n == Npc(d, q.k)
        ended == queue[n].owner = d /\ queue[n].st # "running"
    IN  /\ \/ IsPolled(q) /\ ended /\ queue[n].st = "done" /\ Answer(q, GoesOn(d, "drained"))
           \/ IsPolled(q) /\ ~ended /\ Answer(q, [disp[d] EXCEPT !.waits = FALSE])
           \/ ~(IsPolled(q) /\ ended /\ queue[n].st = "done") /\ Answer(q, Fails(d))
        /\ Unmoved

\* _rollback.  An event that is neither over nor its own is left alone.
OwnOrIdle(d) == IsIdle \/ home.active = EventOf[d]
AfterLook == IF IsIdle THEN "rterm" ELSE "rreset"

LookBack(q) ==
    LET d == q.from
    IN  /\ Answer(q, IF OwnOrIdle(d)
                     THEN Told(GoesTo(d, IF disp[d].committed THEN "rcancel"
                                                              ELSE AfterLook), home.gen)
                     ELSE Fails(d))
        /\ Unmoved

CancelQueue(q) ==
    \E ok \in BOOLEAN :
        /\ CancelCommand(Npc(q.from, q.k), q.gen, ok)
        /\ Receipt(q, ok, GoesOn(q.from, "rnpc"))

LookAtNpc(q) ==
    /\ Answer(q, IF home.gen = q.gen /\ queue[Npc(q.from, q.k)].st # "running"
                 THEN GoesOn(q.from, "rpre") ELSE Fails(q.from))
    /\ Unmoved

LookAgain(q) ==
    /\ Answer(q, IF OwnOrIdle(q.from) /\ home.gen = q.gen
                 THEN GoesTo(q.from, AfterLook) ELSE Fails(q.from))
    /\ Unmoved

Reset(q) ==
    \E ok \in BOOLEAN :
        ResetEvent(q.gen, ok) /\ Receipt(q, ok, GoesTo(q.from, "rterm"))

LastLook(q) ==
    /\ Answer(q, IF IsIdle /\ home.gen = q.gen
                 THEN GoesTo(q.from, "rolledback") ELSE Fails(q.from))
    /\ Unmoved

CarriedOut(q) ==
    \/ q.step = "probe" /\ Probe(q)
    \/ q.step = "preflight" /\ Preflight(q)
    \/ q.step = "start" /\ Start(q)
    \/ q.step = "commit" /\ CommitQueue(q)
    \/ q.step = "drain" /\ Drain(q)
    \/ q.step = "rstatus" /\ LookBack(q)
    \/ q.step = "rcancel" /\ CancelQueue(q)
    \/ q.step = "rnpc" /\ LookAtNpc(q)
    \/ q.step = "rpre" /\ LookAgain(q)
    \/ q.step = "rreset" /\ Reset(q)
    \/ q.step = "rterm" /\ LastLook(q)

Without(k) == [j \in 1..(Len(inbox) - 1) |-> IF j < k THEN inbox[j] ELSE inbox[j + 1]]

\* HandleConnection serves one connection after the other.
IsDue(k) == k = 1

Handle(k) ==
    /\ IsDue(k)
    /\ CarriedOut(inbox[k])
    /\ inbox' = Without(k)
    /\ UNCHANGED others

\* No answer in time.  The frame is dropped before it reaches the game thread
\* (bCanceled), or is still on its way.
TimeOut(k) ==
    /\ inbox[k].live
    /\ disp' = [disp EXCEPT ![inbox[k].from] = Fails(inbox[k].from)]
    /\ inbox' \in {Without(k), [inbox EXCEPT ![k].live = FALSE]}
    /\ UNCHANGED <<home, queue, others>>

-----------------------------------------------------------------------------
(***************************************************************************)
(* Other clients, whose commands carry the current generation, and players.*)
(***************************************************************************)
Other ==
    /\ others < MaxOthers /\ others' = others + 1
    /\ \E ok \in BOOLEAN :
          \/ \E e \in OtherEvents : StartEvent(e, home.gen, ok)
          \/ ResetEvent(home.gen, ok)
          \/ \E n \in Npcs : QueueCommand(n, home.gen, Others, ok)
          \/ \E n \in Npcs : CancelCommand(n, home.gen, ok)
          \/ ok /\ Command
    /\ UNCHANGED <<disp, inbox>>

World ==
    /\ Tick \/ \E n \in Npcs : QueueEnds(n)
    /\ UNCHANGED <<disp, inbox, others>>

Next ==
    \/ \E d \in Dispatches : Send(d)
    \/ \E k \in DOMAIN inbox : Handle(k) \/ TimeOut(k)
    \/ Other \/ World

Spec == Init /\ [][Next]_vars

-----------------------------------------------------------------------------
(***************************************************************************)
(* Properties.                                                             *)
(***************************************************************************)

\* Every variable holds a value of its type.
DispatchTypeOK ==
    /\ home \in Homes
    /\ queue \in [Npcs -> Queues]
    /\ disp \in [Dispatches -> Records]
    /\ inbox \in Seq(Requests)
    /\ others \in 0..MaxOthers

\* "Prove rollback to inactive" (dispatch): once a dispatch has reported that
\* it rolled back, its event is not active, none of its queues runs and none
\* of its requests is still to come, then and ever after, whichever of its
\* requests timed out and were carried out late.
RollbackLeavesNothing ==
    \A d \in Dispatches : At(d, "rolledback") =>
        /\ home.active # EventOf[d]
        /\ \A n \in Npcs : queue[n].owner = d => queue[n].st # "running"
        /\ \A k \in DOMAIN inbox : inbox[k].from # d

\* "Refusing to reset a different active event" (_rollback): although a look
\* and the reset that follows it are two requests, no rollback ever takes
\* away an event that is not its own.
ResetsOnlyItsEvent ==
    [][\A e \in Events :
          (home.active = e /\ home'.active # e)
              => \/ inbox' = inbox
                 \/ EventOf[inbox[1].from] = e]_vars

\* A dispatch reports "terminal_drained" only at a moment at which its event
\* is active and each of its queues, polled one after the other, is its own
\* and done.
DrainedMeansDone ==
    [][\A d \in Dispatches :
          (At(d, "drain") /\ disp'[d].at = "drained")
              => /\ home.active = EventOf[d]
                 /\ \A k \in DOMAIN QueuesOf[d] :
                       queue[Npc(d, k)] = [owner |-> d, st |-> "done"]]_vars

\* An inactive home has no effect of any event in it, unless some start laid
\* an event over what an earlier, failed one had left behind.
InactiveMeansRestored ==
    (home.status = "inactive" /\ ~home.tainted) => home.overlay = {}
=============================================================================
