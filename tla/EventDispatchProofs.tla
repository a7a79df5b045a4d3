------------------------- MODULE EventDispatchProofs -------------------------
(***************************************************************************)
(* The safety of dispatch for any dispatches, events, NPCs and clients, and *)
(* any number of commands: what a request and a dispatch rely on is tied    *)
(* to the session generation, which every start, reset and queue command    *)
(* takes further.                                                           *)
(***************************************************************************)
EXTENDS EventDispatch, TLAPS

\* None of d's queues runs.
Quiet(d) == \A n \in Npcs : queue[n].owner = d => queue[n].st # "running"

\* What a request on its way relies on.  One that its dispatch still waits
\* for is the dispatch's last; one that it gave up on keeps it in the steps a
\* failure leads to.
RequestRelies(k) ==
    LET q == inbox[k]
        d == q.from
    IN  /\ q.gen <= home.gen
        /\ q.k \in DOMAIN QueuesOf[d]
        /\ q.step = "commit" => disp[d].committed
        /\ q.live => /\ disp[d].waits
                     /\ q.step = disp[d].at /\ q.k = disp[d].k /\ q.gen = disp[d].gen
                     /\ \A j \in DOMAIN inbox : inbox[j].from = d => j <= k
        /\ ~q.live => disp[d].at \in {"rstatus", "failed", "stuck"}
        /\ (q.step = "rreset" /\ q.gen = home.gen) => home.active = EventOf[d]

\* What a dispatch relies on at the step it has reached, while nobody has
\* taken the generation further.
DispatchRelies(d) ==
    /\ disp[d].gen <= home.gen
    /\ disp[d].k \in DOMAIN QueuesOf[d]
    /\ home.gen = disp[d].gen =>
        /\ At(d, "rreset") => home.active = EventOf[d]
        /\ At(d, "rnpc") =>
              \A i \in 1..(disp[d].k - 1) :
                  queue[Npc(d, i)].owner = d => queue[Npc(d, i)].st # "running"
        /\ disp[d].at \in {"rpre", "rreset", "rterm"} => Quiet(d)
        /\ (At(d, "drain") /\ home.active = EventOf[d]) =>
              \A i \in 1..(disp[d].k - 1) : queue[Npc(d, i)] = [owner |-> d, st |-> "done"]
    /\ At(d, "rolledback") => home.active # EventOf[d] /\ Quiet(d)

\* Only a commit that may have happened gives a dispatch a queue.
QueuesAreCommitted ==
    \A n \in Npcs, d \in Dispatches :
        queue[n].owner = d => disp[d].committed /\ \E k \in DOMAIN QueuesOf[d] : n = Npc(d, k)

DispatchInv ==
    /\ DispatchTypeOK
    /\ \A k \in DOMAIN inbox : RequestRelies(k)
    /\ \A d \in Dispatches : DispatchRelies(d)
    /\ QueuesAreCommitted

\* What the event subsystem knows of its baseline.
OverlayInv ==
    /\ home.active # NoEvent => home.kept
    /\ (home.kept /\ ~home.tainted) => home.found = {}
    /\ InactiveMeansRestored

-------------------------------------------------------------------------------
(***************************************************************************)
(* What the commands do to the home.                                       *)
(***************************************************************************)

\* The generation never goes back, the active event changes only with it, and
\* a queue changes hands only with it: to o, for an NPC of ns, or to the home.
WorldMoves(o, ns, e) ==
    /\ home' \in Homes /\ queue' \in [Npcs -> Queues]
    /\ home'.gen >= home.gen
    /\ home'.gen = home.gen => home'.active = home.active
    /\ home'.active \in {home.active, NoEvent, e}
    /\ \A n \in Npcs :
          \/ queue'[n] = queue[n]
          \/ /\ queue'[n].owner = queue[n].owner
             /\ queue[n].st = "running" /\ queue'[n].st # "running"
          \/ queue'[n].owner = Home /\ (home'.gen > home.gen \/ home.active = NoEvent)
          \/ queue'[n].owner = o /\ n \in ns /\ home'.gen > home.gen

LEMMA ReplacedQueues ==
    ASSUME queue \in [Npcs -> Queues], NEW ns \in SUBSET Npcs, NEW o \in Owners
    PROVE  /\ Replaced(ns, o) \in [Npcs -> Queues]
           /\ \A n \in Npcs : \/ n \notin ns /\ Replaced(ns, o)[n] = queue[n]
                              \/ n \in ns /\ Replaced(ns, o)[n].owner = o
BY DEF Replaced, Queues, QueueStates

LEMMA CanceledQueues ==
    ASSUME NEW q \in [Npcs -> Queues], NEW ns \in SUBSET Npcs
    PROVE  /\ CanceledIn(q, ns) \in [Npcs -> Queues]
           /\ \A n \in Npcs :
                 \/ CanceledIn(q, ns)[n] = q[n]
                 \/ /\ n \in ns /\ CanceledIn(q, ns)[n].owner = q[n].owner
                    /\ q[n].st = "running" /\ CanceledIn(q, ns)[n].st = "canceled"
BY DEF CanceledIn, Queues, QueueStates

LEMMA NothingMoves ==
    ASSUME home \in Homes, queue \in [Npcs -> Queues], UNCHANGED <<home, queue>>,
           NEW o, NEW ns, NEW e
    PROVE  WorldMoves(o, ns, e)
BY DEF WorldMoves, Homes

LEMMA StartMoves ==
    ASSUME home \in Homes, queue \in [Npcs -> Queues], NEW e \in Events, NEW g \in Nat,
           NEW ok \in BOOLEAN, StartEvent(e, g, ok)
    PROVE  WorldMoves(Home, {}, e) /\ (ok => home'.gen = g + 1)
<1>0. Home \in Owners /\ EventNpcs[e] \in SUBSET Npcs /\ NoEvent \notin Events
  BY EventsAssumption
<1>1. CASE Refused(ok)
  BY <1>1, NothingMoves DEF Refused
<1>2. CASE MayStart(g) /\ CaptureFails(ok)
  <2>1. home' \in Homes /\ home'.gen = home.gen /\ home'.active = home.active /\ ~ok
    BY <1>2 DEF CaptureFails, Homes, Statuses
  <2> QED BY <1>2, <2>1 DEF CaptureFails, WorldMoves, Homes
<1>3. Captured \in Homes /\ Captured.gen = home.gen /\ Captured.active = home.active
  BY DEF Captured, Homes
<1>4. CASE MayStart(g) /\ OperationFails(e, ok)
  <2>1. home' \in Homes /\ home'.gen = home.gen /\ home'.active = home.active /\ ~ok
    BY <1>3, <1>4 DEF OperationFails, Undone, Homes, Statuses
  <2>2. PICK ns \in SUBSET EventNpcs[e] : queue' = CanceledIn(Replaced(ns, Home), ns)
    BY <1>4 DEF OperationFails
  <2>3. ns \in SUBSET Npcs
    BY <1>0
  <2>4. Replaced(ns, Home) \in [Npcs -> Queues]
    BY <1>0, <2>3, ReplacedQueues
  <2>5. queue' \in [Npcs -> Queues]
    BY <2>2, <2>3, <2>4, CanceledQueues
  <2>6. \A n \in Npcs : queue'[n] = queue[n] \/ queue'[n].owner = Home
    <3> TAKE n \in Npcs
    <3>1. n \notin ns => queue'[n] = queue[n]
      BY <2>2 DEF CanceledIn, Replaced
    <3>2. n \in ns => queue'[n].owner = Home
      BY <1>0, <2>2, <2>3, <2>4, CanceledQueues, ReplacedQueues
    <3> QED BY <3>1, <3>2
  <2>7. home.active = NoEvent
    BY <1>4 DEF MayStart
  <2> QED BY <2>1, <2>5, <2>6, <2>7 DEF WorldMoves, Homes
<1>5. CASE MayStart(g) /\ UndoFails(e, ok)
  <2>1. PICK ns \in SUBSET EventNpcs[e] :
          /\ home' = [Captured EXCEPT !.status = "failed", !.overlay = @ \cup {e},
                                      !.modified = ns]
          /\ queue' \in {Replaced(ns, Home), CanceledIn(Replaced(ns, Home), ns)}
    BY <1>5 DEF UndoFails
  <2>2. ns \in SUBSET Npcs
    BY <1>0
  <2>3. home' \in Homes /\ home'.gen = home.gen /\ home'.active = home.active /\ ~ok
    BY <1>3, <1>5, <2>1, <2>2 DEF UndoFails, Homes, Statuses
  <2>4. Replaced(ns, Home) \in [Npcs -> Queues]
    BY <1>0, <2>2, ReplacedQueues
  <2>5. queue' \in [Npcs -> Queues]
    BY <2>1, <2>2, <2>4, CanceledQueues
  <2>6. \A n \in Npcs : queue'[n] = queue[n] \/ queue'[n].owner = Home
    <3> TAKE n \in Npcs
    <3>1. n \notin ns => queue'[n] = queue[n]
      BY <2>1 DEF CanceledIn, Replaced
    <3>2. n \in ns => queue'[n].owner = Home
      BY <1>0, <2>1, <2>2, <2>4, CanceledQueues, ReplacedQueues
    <3> QED BY <3>1, <3>2
  <2>7. home.active = NoEvent
    BY <1>5 DEF MayStart
  <2> QED BY <2>3, <2>5, <2>6, <2>7 DEF WorldMoves, Homes
<1>6. CASE MayStart(g) /\ Starts(e, ok)
  <2>1. PICK s \in {"active", "succeeded", "failed"} :
          home' = [Captured EXCEPT !.active = e, !.status = s, !.gen = @ + 1,
                                   !.overlay = @ \cup {e}, !.modified = EventNpcs[e]]
    BY <1>6 DEF Starts
  <2>a. /\ Captured.gen \in Nat /\ Captured.overlay \cup {e} \in SUBSET Events
        /\ e \in Events \cup {NoEvent} /\ s \in Statuses
    BY <1>3 DEF Homes, Statuses
  <2>2. home' \in Homes /\ home'.gen = home.gen + 1 /\ home'.active = e
    <3>1. PICK c \in Homes, laid \in SUBSET Events, ns \in SUBSET Npcs, t \in Events \cup {NoEvent} :
             c = Captured /\ laid = Captured.overlay \cup {e} /\ ns = EventNpcs[e] /\ t = e
      BY <1>0, <1>3, <2>a
    <3>2. home' = [c EXCEPT !.active = t, !.status = s, !.gen = c.gen + 1,
                            !.overlay = laid, !.modified = ns]
      BY <2>1, <3>1
    <3>a. c.gen + 1 \in Nat
      BY DEF Homes
    <3>3. home' \in Homes
      BY <2>a, <3>2, <3>a DEF Homes
    <3>4. home'.gen = c.gen + 1 /\ home'.active = t
      BY <3>2 DEF Homes
    <3> QED BY <1>3, <3>1, <3>3, <3>4
  <2>b. queue' = Replaced(EventNpcs[e], Home)
    BY <1>6 DEF Starts
  <2>3. queue' \in [Npcs -> Queues] /\ \A n \in Npcs : queue'[n] = queue[n] \/ queue'[n].owner = Home
    BY <1>0, <2>b, ReplacedQueues
  <2>4. g = home.gen /\ home.gen \in Nat
    BY <1>6 DEF MayStart, GenerationAllows, Homes
  <2> QED BY <2>2, <2>3, <2>4 DEF WorldMoves
<1> QED BY <1>1, <1>2, <1>4, <1>5, <1>6 DEF StartEvent

LEMMA ResetMoves ==
    ASSUME home \in Homes, queue \in [Npcs -> Queues], NEW g \in Nat, NEW ok \in BOOLEAN,
           ResetEvent(g, ok)
    PROVE  /\ \A e : WorldMoves(Home, {}, e)
           /\ ok => g = home.gen /\ home'.gen = g + 1
<1>1. CASE Refused(ok)
  BY <1>1, NothingMoves DEF Refused
<1>2. home.modified \in SUBSET Npcs /\ CanceledIn(queue, home.modified) \in [Npcs -> Queues]
  BY CanceledQueues DEF Homes
<1>3. CASE MayReset(g) /\ RestoreFails(ok)
  <2>1. home' \in Homes /\ home'.gen = home.gen /\ home'.active = home.active /\ ~ok
    BY <1>3 DEF RestoreFails, FailedRestore, Homes, Statuses
  <2>2. queue' \in [Npcs -> Queues]
    BY <1>2, <1>3 DEF RestoreFails
  <2>3. \A n \in Npcs : \/ queue'[n] = queue[n]
                        \/ /\ queue'[n].owner = queue[n].owner
                           /\ queue[n].st = "running" /\ queue'[n].st # "running"
    BY <1>2, <1>3, CanceledQueues DEF RestoreFails
  <2> QED BY <2>1, <2>2, <2>3 DEF WorldMoves, Homes
<1>4. CASE MayReset(g) /\ Restores(ok)
  <2>a. home.gen + 1 \in Nat /\ home.found \in SUBSET Events /\ {} \in SUBSET Npcs
    BY DEF Homes
  <2>b. home' = [home EXCEPT !.status = "inactive", !.active = NoEvent, !.kept = FALSE,
                            !.overlay = home.found, !.modified = {}, !.gen = @ + 1]
    BY <1>4 DEF Restores
  <2>1. home' \in Homes /\ home'.gen = home.gen + 1 /\ home'.active = NoEvent
    BY <2>a, <2>b DEF Homes, Statuses
  <2>2. queue' = CanceledIn(queue, home.modified)
    BY <1>4 DEF Restores
  <2>3. \A n \in Npcs : \/ queue'[n] = queue[n]
                        \/ /\ queue'[n].owner = queue[n].owner
                           /\ queue[n].st = "running" /\ queue'[n].st # "running"
    BY <1>2, <2>2, CanceledQueues
  <2>4. g = home.gen /\ home.gen \in Nat
    BY <1>4 DEF MayReset, GenerationAllows, Homes
  <2> QED BY <1>2, <2>1, <2>2, <2>3, <2>4 DEF WorldMoves
<1> QED BY <1>1, <1>3, <1>4 DEF ResetEvent

LEMMA QueueMoves ==
    ASSUME home \in Homes, queue \in [Npcs -> Queues], NEW n \in Npcs, NEW g \in Nat,
           NEW o \in Owners, NEW ok \in BOOLEAN, QueueCommand(n, g, o, ok)
    PROVE  /\ \A e : WorldMoves(o, {n}, e)
           /\ ok => home'.gen = g + 1
<1>1. CASE Refused(ok)
  BY <1>1, NothingMoves DEF Refused
<1>2. CASE ~Refused(ok)
  <2>1. home' = [home EXCEPT !.gen = @ + 1] /\ queue' = Replaced({n}, o) /\ g = home.gen
    BY <1>2 DEF QueueCommand, GenerationAllows
  <2>2. home' \in Homes /\ home'.gen = home.gen + 1 /\ home'.active = home.active /\ home.gen \in Nat
    BY <2>1 DEF Homes
  <2>3. /\ queue' \in [Npcs -> Queues]
        /\ \A m \in Npcs : queue'[m] = queue[m] \/ (queue'[m].owner = o /\ m \in {n})
    <3>1. PICK ns \in SUBSET Npcs : ns = {n}
      OBVIOUS
    <3>2. queue' = Replaced(ns, o)
      BY <2>1, <3>1
    <3> QED BY <3>1, <3>2, ReplacedQueues
  <2>4. home'.gen > home.gen /\ home'.gen # home.gen
    BY <2>2
  <2>5. \A e : WorldMoves(o, {n}, e)
    BY <2>2, <2>3, <2>4 DEF WorldMoves
  <2> QED BY <2>1, <2>2, <2>5
<1> QED BY <1>1, <1>2

LEMMA CancelMoves ==
    ASSUME home \in Homes, queue \in [Npcs -> Queues], NEW n \in Npcs, NEW g \in Nat,
           NEW ok \in BOOLEAN, CancelCommand(n, g, ok)
    PROVE  /\ \A e : WorldMoves(Home, {}, e)
           /\ ok => home'.gen = g + 1
<1>1. CASE Refused(ok)
  BY <1>1, NothingMoves DEF Refused
<1>2. CASE ~Refused(ok)
  <2>1. home' = [home EXCEPT !.gen = @ + 1] /\ queue' = CanceledIn(queue, {n}) /\ g = home.gen
    BY <1>2 DEF CancelCommand, GenerationAllows
  <2>2. home' \in Homes /\ home'.gen = home.gen + 1 /\ home'.active = home.active /\ home.gen \in Nat
    BY <2>1 DEF Homes
  <2>3. /\ queue' \in [Npcs -> Queues]
        /\ \A m \in Npcs : \/ queue'[m] = queue[m]
                            \/ /\ queue'[m].owner = queue[m].owner
                               /\ queue[m].st = "running" /\ queue'[m].st # "running"
    <3>1. {n} \in SUBSET Npcs
      OBVIOUS
    <3> QED BY <2>1, <3>1, CanceledQueues
  <2>4. \A e : WorldMoves(Home, {}, e)
    BY <2>2, <2>3 DEF WorldMoves
  <2> QED BY <2>1, <2>2, <2>4
<1> QED BY <1>1, <1>2

LEMMA WorldStepMoves ==
    ASSUME home \in Homes, queue \in [Npcs -> Queues],
           Tick \/ Command \/ \E n \in Npcs : QueueEnds(n)
    PROVE  \A e : WorldMoves(Home, {}, e)
<1>1. CASE Tick
  <2>1. home' \in Homes /\ home'.gen = home.gen /\ home'.active = home.active
    BY <1>1 DEF Tick, Homes, Statuses
  <2> QED BY <1>1, <2>1 DEF WorldMoves, Tick, Homes
<1>2. CASE Command
  <2>1. home' \in Homes /\ home'.gen = home.gen + 1 /\ home'.active = home.active /\ home.gen \in Nat
    BY <1>2 DEF Command, Homes
  <2> QED BY <1>2, <2>1 DEF WorldMoves, Command
<1>3. ASSUME NEW n \in Npcs, QueueEnds(n)
      PROVE  \A e : WorldMoves(Home, {}, e)
  <2>1. PICK s \in {"done", "failed"} : queue' = [queue EXCEPT ![n].st = s]
    BY <1>3 DEF QueueEnds
  <2>2. queue' \in [Npcs -> Queues]
    BY <2>1 DEF Queues, QueueStates
  <2>3. \A m \in Npcs : \/ queue'[m] = queue[m]
                        \/ /\ queue'[m].owner = queue[m].owner
                           /\ queue[m].st = "running" /\ queue'[m].st # "running"
    BY <1>3, <2>1 DEF QueueEnds, Queues
  <2> QED BY <1>3, <2>2, <2>3 DEF WorldMoves, QueueEnds, Homes
<1> QED BY <1>1, <1>2, <1>3

-------------------------------------------------------------------------------
(***************************************************************************)
(* The records of the dispatches and the line of requests.                 *)
(***************************************************************************)

LEMMA QueueLists ==
    ASSUME NEW d \in Dispatches
    PROVE  /\ QueuesOf[d] \in Seq(Npcs) /\ Len(QueuesOf[d]) \in Nat \ {0}
           /\ DOMAIN QueuesOf[d] = 1..Len(QueuesOf[d]) /\ 1 \in DOMAIN QueuesOf[d]
           /\ \A k \in DOMAIN QueuesOf[d] : Npc(d, k) \in Npcs
<1>1. QueuesOf[d] \in Seq(Npcs) /\ QueuesOf[d] # <<>>
  BY DispatchAssumption
<1>2. Len(QueuesOf[d]) \in Nat \ {0} /\ DOMAIN QueuesOf[d] = 1..Len(QueuesOf[d])
  BY <1>1
<1>3. \A k \in DOMAIN QueuesOf[d] : Npc(d, k) \in Npcs
  BY <1>1 DEF Npc
<1> QED BY <1>1, <1>2, <1>3

LEMMA GoesToRecord ==
    ASSUME DispatchTypeOK, NEW d \in Dispatches, NEW step \in Steps
    PROVE  /\ GoesTo(d, step) \in Records
           /\ GoesTo(d, step).at = step /\ GoesTo(d, step).k = 1
           /\ GoesTo(d, step).gen = disp[d].gen
           /\ GoesTo(d, step).committed = disp[d].committed
           /\ GoesTo(d, step).waits = FALSE
<1>1. disp[d] \in Records /\ 1 \in Nat \ {0}
  BY DEF DispatchTypeOK
<1> QED BY <1>1 DEF GoesTo, Records

LEMMA FailsRecord ==
    ASSUME DispatchTypeOK, NEW d \in Dispatches
    PROVE  /\ Fails(d) \in Records
           /\ Fails(d).at \in {"failed", "rstatus", "stuck"} /\ Fails(d).k = 1
           /\ Fails(d).gen = disp[d].gen
           /\ Fails(d).committed = disp[d].committed
           /\ Fails(d).waits = FALSE
<1>1. PICK step \in {"failed", "rstatus", "stuck"} : Fails(d) = GoesTo(d, step)
  BY DEF Fails
<1>2. step \in Steps
  BY DEF Steps, Over, RollingBack
<1>3. /\ GoesTo(d, step) \in Records
      /\ GoesTo(d, step).at = step /\ GoesTo(d, step).k = 1
      /\ GoesTo(d, step).gen = disp[d].gen
      /\ GoesTo(d, step).committed = disp[d].committed
      /\ GoesTo(d, step).waits = FALSE
  BY <1>2, GoesToRecord
<1> QED BY <1>1, <1>3, Zenon

\* On to the next queue, which there is, or past the last one.
LEMMA GoesOnRecord ==
    ASSUME DispatchTypeOK, NEW d \in Dispatches, NEW step \in Steps,
           disp[d].k \in DOMAIN QueuesOf[d]
    PROVE  /\ GoesOn(d, step) \in Records
           /\ GoesOn(d, step).k \in DOMAIN QueuesOf[d]
           /\ GoesOn(d, step).gen = disp[d].gen
           /\ GoesOn(d, step).committed = disp[d].committed
           /\ \/ GoesOn(d, step).at = disp[d].at /\ GoesOn(d, step).k = disp[d].k + 1
              \/ /\ GoesOn(d, step).at = step /\ GoesOn(d, step).k = 1
                 /\ disp[d].k = Len(QueuesOf[d])
<1>1. CASE disp[d].k < Len(QueuesOf[d])
  <2>1. GoesOn(d, step) = [disp[d] EXCEPT !.k = @ + 1, !.waits = FALSE]
    BY <1>1 DEF GoesOn
  <2>2. disp[d] \in Records /\ disp[d].k \in Nat \ {0} /\ disp[d].k + 1 \in Nat \ {0}
    BY DEF DispatchTypeOK, Records
  <2>3. disp[d].k + 1 \in DOMAIN QueuesOf[d]
    BY <1>1, <2>2, QueueLists
  <2>4. /\ GoesOn(d, step) \in Records
        /\ GoesOn(d, step).at = disp[d].at /\ GoesOn(d, step).k = disp[d].k + 1
        /\ GoesOn(d, step).gen = disp[d].gen
        /\ GoesOn(d, step).committed = disp[d].committed
    BY <2>1, <2>2 DEF Records
  <2> QED BY <2>3, <2>4
<1>2. CASE ~(disp[d].k < Len(QueuesOf[d]))
  <2>1. GoesOn(d, step) = GoesTo(d, step) /\ disp[d].k = Len(QueuesOf[d])
    BY <1>2, QueueLists DEF GoesOn
  <2>2. /\ GoesTo(d, step) \in Records
        /\ GoesTo(d, step).at = step /\ GoesTo(d, step).k = 1
        /\ GoesTo(d, step).gen = disp[d].gen
        /\ GoesTo(d, step).committed = disp[d].committed
    BY GoesToRecord
  <2>3. 1 \in DOMAIN QueuesOf[d]
    BY QueueLists
  <2> QED BY <2>1, <2>2, <2>3, Zenon
<1> QED BY <1>1, <1>2

LEMMA ToldRecord ==
    ASSUME NEW r \in Records, NEW g \in Nat
    PROVE  /\ Told(r, g) \in Records /\ Told(r, g).gen = g
           /\ Told(r, g).at = r.at /\ Told(r, g).k = r.k
           /\ Told(r, g).committed = r.committed
BY DEF Told, Records

LEMMA WithoutRequest ==
    ASSUME DispatchTypeOK, NEW k \in DOMAIN inbox
    PROVE  /\ Without(k) \in Seq(Requests)
           /\ Len(Without(k)) = Len(inbox) - 1 /\ DOMAIN Without(k) = 1..(Len(inbox) - 1)
           /\ \A j \in 1..(Len(inbox) - 1) :
                 /\ j \in DOMAIN inbox /\ j + 1 \in DOMAIN inbox
                 /\ Without(k)[j] = IF j < k THEN inbox[j] ELSE inbox[j + 1]
<1>1. inbox \in Seq(Requests) /\ Len(inbox) \in Nat /\ DOMAIN inbox = 1..Len(inbox)
  BY DEF DispatchTypeOK
<1>2. k \in 1..Len(inbox) /\ Len(inbox) - 1 \in Nat
  BY <1>1
<1>3. \A j \in 1..(Len(inbox) - 1) : j \in 1..Len(inbox) /\ j + 1 \in 1..Len(inbox)
  BY <1>1, <1>2
<1>4. \A j \in 1..(Len(inbox) - 1) : (IF j < k THEN inbox[j] ELSE inbox[j + 1]) \in Requests
  BY <1>1, <1>3
<1>5. Without(k) \in [1..(Len(inbox) - 1) -> Requests]
  BY <1>4 DEF Without
<1>6. Without(k) \in Seq(Requests) /\ Len(Without(k)) = Len(inbox) - 1
  BY <1>2, <1>5
<1> QED BY <1>1, <1>3, <1>5, <1>6 DEF Without

-------------------------------------------------------------------------------
(***************************************************************************)
(* What stays when the home moves.                                         *)
(***************************************************************************)

LEMMA QueuesKept ==
    ASSUME DispatchInv, NEW o, NEW ns, NEW e, WorldMoves(o, ns, e),
           o \in Dispatches => /\ disp[o].committed
                              /\ \A n \in ns : \E k \in DOMAIN QueuesOf[o] : n = Npc(o, k),
           \A c \in Dispatches : disp[c].committed => disp'[c].committed
    PROVE  QueuesAreCommitted'
<1> SUFFICES ASSUME NEW n \in Npcs, NEW d \in Dispatches, queue'[n].owner = d
             PROVE  disp'[d].committed /\ \E k \in DOMAIN QueuesOf[d] : n = Npc(d, k)
  BY DEF QueuesAreCommitted, Npc
<1>1. Home \notin Dispatches
  BY DispatchAssumption
<1>2. CASE queue[n].owner = d
  BY <1>2 DEF DispatchInv, QueuesAreCommitted
<1>3. CASE o = d /\ n \in ns
  BY <1>3
<1> QED BY <1>1, <1>2, <1>3 DEF WorldMoves

LEMMA StaysQuiet ==
    ASSUME NEW o, NEW ns, NEW e, WorldMoves(o, ns, e), NEW d \in Dispatches, o # d, Quiet(d)
    PROVE  Quiet(d)'
BY DispatchAssumption DEF WorldMoves, Quiet

\* A dispatch that is not answered relies on what it did.
LEMMA StillRelies ==
    ASSUME DispatchInv, NEW o, NEW ns, NEW e, WorldMoves(o, ns, e),
           NEW d \in Dispatches,
           disp'[d].at = disp[d].at, disp'[d].k = disp[d].k, disp'[d].gen = disp[d].gen,
           At(d, "rolledback") => o # d /\ e # EventOf[d]
    PROVE  DispatchRelies(d)'
<1>1. DispatchRelies(d) /\ disp[d].gen \in Nat /\ home.gen \in Nat /\ home'.gen \in Nat
  BY DEF DispatchInv, DispatchTypeOK, Records, Homes, WorldMoves
<1>2. Home \notin Dispatches /\ EventOf[d] \in Events /\ NoEvent \notin Events
  BY DispatchAssumption, EventsAssumption
<1>3. disp'[d].gen <= home'.gen /\ disp'[d].k \in DOMAIN QueuesOf[d]
  BY <1>1 DEF DispatchRelies, WorldMoves
<1>4. ASSUME home'.gen = disp'[d].gen
      PROVE  /\ At(d, "rreset")' => home'.active = EventOf[d]
             /\ At(d, "rnpc")' =>
                   \A i \in 1..(disp'[d].k - 1) :
                       queue'[Npc(d, i)].owner = d => queue'[Npc(d, i)].st # "running"
             /\ disp'[d].at \in {"rpre", "rreset", "rterm"} => Quiet(d)'
             /\ (At(d, "drain")' /\ home'.active = EventOf[d]) =>
                   \A i \in 1..(disp'[d].k - 1) : queue'[Npc(d, i)] = [owner |-> d, st |-> "done"]
  <2>1. home'.gen = home.gen /\ home.gen = disp[d].gen /\ home'.active = home.active
    BY <1>1, <1>4 DEF DispatchRelies, WorldMoves
  <2>2. \A n \in Npcs :
          \/ queue'[n] = queue[n]
          \/ /\ queue'[n].owner = queue[n].owner
             /\ queue[n].st = "running" /\ queue'[n].st # "running"
          \/ queue'[n].owner = Home /\ home.active = NoEvent
    BY <1>1, <2>1 DEF WorldMoves
  <2>3. \A i \in 1..(disp[d].k - 1) : Npc(d, i) \in Npcs
    BY <1>1, QueueLists DEF DispatchRelies
  <2>4. At(d, "rreset")' => home'.active = EventOf[d]
    BY <1>1, <2>1 DEF DispatchRelies, At
  <2>5. At(d, "rnpc")' =>
           \A i \in 1..(disp'[d].k - 1) :
               queue'[Npc(d, i)].owner = d => queue'[Npc(d, i)].st # "running"
    BY <1>1, <1>2, <2>1, <2>2, <2>3 DEF DispatchRelies, At
  <2>6. disp'[d].at \in {"rpre", "rreset", "rterm"} => Quiet(d)'
    BY <1>1, <1>2, <2>1, <2>2 DEF DispatchRelies, Quiet
  <2>7. (At(d, "drain")' /\ home'.active = EventOf[d]) =>
           \A i \in 1..(disp'[d].k - 1) : queue'[Npc(d, i)] = [owner |-> d, st |-> "done"]
    <3> SUFFICES ASSUME At(d, "drain")', home'.active = EventOf[d],
                        NEW i \in 1..(disp'[d].k - 1)
                 PROVE  queue'[Npc(d, i)] = [owner |-> d, st |-> "done"]
      OBVIOUS
    <3>1. Npc(d, i) \in Npcs /\ queue[Npc(d, i)] = [owner |-> d, st |-> "done"]
      BY <1>1, <2>1, <2>3 DEF DispatchRelies, At
    <3> QED BY <1>2, <2>1, <2>2, <3>1
  <2> QED BY <2>4, <2>5, <2>6, <2>7
<1>5. At(d, "rolledback")' => home'.active # EventOf[d] /\ Quiet(d)'
  BY <1>1, <1>2, StaysQuiet DEF At, DispatchRelies, WorldMoves
<1> QED BY <1>3, <1>4, <1>5 DEF DispatchRelies, Npc

-------------------------------------------------------------------------------
(***************************************************************************)
(* The steps.                                                              *)
(***************************************************************************)

\* The other clients and the home: no dispatch is answered.
LEMMA HomeStep ==
    ASSUME DispatchInv, NEW e, WorldMoves(Home, {}, e) \/ \E n \in Npcs : WorldMoves(Others, {n}, e),
           e \notin {EventOf[d] : d \in Dispatches}, UNCHANGED <<disp, inbox>>, others' \in 0..MaxOthers
    PROVE  DispatchInv'
<1>1. PICK o, ns : WorldMoves(o, ns, e) /\ o \in {Home, Others}
  OBVIOUS
<1>2. o \notin Dispatches
  BY <1>1, DispatchAssumption
<1>3. DispatchTypeOK'
  BY <1>1 DEF DispatchInv, DispatchTypeOK, WorldMoves
<1>4. \A d \in Dispatches : DispatchRelies(d)'
  BY <1>1, <1>2, StillRelies
<1>5. QueuesAreCommitted'
  BY <1>1, <1>2, QueuesKept
<1>6. ASSUME NEW k \in DOMAIN inbox
      PROVE  RequestRelies(k)'
  <2>a. inbox[k] \in Requests
    BY DEF DispatchInv, DispatchTypeOK
  <2>1. RequestRelies(k) /\ inbox[k].gen \in Nat /\ home.gen \in Nat /\ home'.gen \in Nat
    BY <1>1, <2>a DEF DispatchInv, DispatchTypeOK, Requests, Homes, WorldMoves
  <2>2. home'.gen >= home.gen /\ (home'.gen = home.gen => home'.active = home.active)
    BY <1>1 DEF WorldMoves
  <2> QED BY <2>1, <2>2 DEF RequestRelies
<1> QED BY <1>3, <1>4, <1>5, <1>6 DEF DispatchInv

LEMMA SendStep ==
    ASSUME DispatchInv, NEW d \in Dispatches, Send(d)
    PROVE  DispatchInv'
<1> DEFINE q == [from |-> d, step |-> disp[d].at, k |-> disp[d].k, gen |-> disp[d].gen,
                 live |-> TRUE]
           r == [disp[d] EXCEPT !.waits = TRUE, !.committed = MayHaveCommitted(d)]
<1>1. DispatchTypeOK /\ disp[d] \in Records /\ DispatchRelies(d)
  BY DEF DispatchInv, DispatchTypeOK
<1>2. q \in Requests
  BY <1>1 DEF Send, Requests, Records
<1>3. r \in Records /\ r.at = disp[d].at /\ r.k = disp[d].k /\ r.gen = disp[d].gen
      /\ r.waits /\ r.committed = MayHaveCommitted(d)
  BY <1>1 DEF Records, MayHaveCommitted, At
<1>4. disp' = [disp EXCEPT ![d] = r] /\ inbox' = Append(inbox, q) /\ UNCHANGED <<home, queue, others>>
  BY DEF Send
<1>5. ~disp[d].waits
  BY DEF Send
<1>6. q.from = d /\ q.step = disp[d].at /\ q.k = disp[d].k /\ q.gen = disp[d].gen /\ q.live
  OBVIOUS
<1> HIDE DEF q, r
<1>7. disp' \in [Dispatches -> Records] /\ disp'[d] = r /\ \A c \in Dispatches : c # d => disp'[c] = disp[c]
  BY <1>1, <1>3, <1>4 DEF DispatchTypeOK
<1>8. /\ inbox \in Seq(Requests) /\ inbox' \in Seq(Requests)
      /\ Len(inbox) \in Nat /\ DOMAIN inbox = 1..Len(inbox)
      /\ DOMAIN inbox' = 1..(Len(inbox) + 1)
      /\ \A k \in DOMAIN inbox : inbox'[k] = inbox[k]
      /\ inbox'[Len(inbox) + 1] = q
  BY <1>1, <1>2, <1>4 DEF DispatchTypeOK
<1>9. DispatchTypeOK'
  BY <1>1, <1>4, <1>7, <1>8 DEF DispatchTypeOK
<1>10. WorldMoves(Home, {}, NoEvent)
  BY <1>1, <1>4, NothingMoves DEF DispatchTypeOK
<1>11. ASSUME NEW c \in Dispatches
       PROVE  /\ disp'[c].at = disp[c].at /\ disp'[c].k = disp[c].k /\ disp'[c].gen = disp[c].gen
              /\ disp[c].committed => disp'[c].committed
  BY <1>3, <1>7 DEF MayHaveCommitted
<1>12. \A c \in Dispatches : DispatchRelies(c)'
  <2>1. ASSUME NEW c \in Dispatches
        PROVE  DispatchRelies(c)'
    <3>1. Home # c /\ NoEvent # EventOf[c]
      BY DispatchAssumption, EventsAssumption
    <3> QED BY <1>10, <1>11, <3>1, StillRelies
  <2> QED BY <2>1
<1>13. QueuesAreCommitted'
  BY <1>10, <1>11, QueuesKept, DispatchAssumption
<1>14. ASSUME NEW k \in DOMAIN inbox'
       PROVE  RequestRelies(k)'
  <2>1. CASE k = Len(inbox) + 1
    <3>1. inbox'[k] = q
      BY <1>8, <2>1
    <3>2. \A j \in DOMAIN inbox' : j <= k
      BY <1>8, <2>1
    <3>3. q.gen <= home'.gen /\ q.k \in DOMAIN QueuesOf[d]
      BY <1>1, <1>4, <1>6 DEF DispatchRelies
    <3>4. q.step = "commit" => disp'[d].committed
      BY <1>3, <1>6, <1>7 DEF MayHaveCommitted, At
    <3>5. (q.step = "rreset" /\ q.gen = home'.gen) => home'.active = EventOf[d]
      BY <1>1, <1>4, <1>6 DEF DispatchRelies, At
    <3>6. disp'[d].waits /\ q.step = disp'[d].at /\ q.k = disp'[d].k /\ q.gen = disp'[d].gen
      BY <1>3, <1>6, <1>7
    <3> QED BY <1>6, <3>1, <3>2, <3>3, <3>4, <3>5, <3>6 DEF RequestRelies
  <2>2. CASE k \in DOMAIN inbox
    <3>a. inbox[k] \in Requests
      BY <1>8, <2>2
    <3>1. RequestRelies(k) /\ inbox'[k] = inbox[k] /\ inbox[k].from \in Dispatches
      BY <1>8, <2>2, <3>a DEF DispatchInv, Requests
    <3>2. PICK c \in Dispatches : inbox[k].from = c
      BY <3>1
    <3>3. inbox[k].live => c # d
      BY <1>5, <3>1, <3>2 DEF RequestRelies
    <3>4. inbox[k].live => disp'[c] = disp[c] /\ \A j \in DOMAIN inbox' : inbox'[j].from = c => j <= k
      <4> SUFFICES ASSUME inbox[k].live, NEW j \in DOMAIN inbox', inbox'[j].from = c
                   PROVE  disp'[c] = disp[c] /\ j <= k
        BY <1>7, <3>3
      <4>1. j # Len(inbox) + 1
        BY <1>6, <1>8, <3>3
      <4>2. j \in DOMAIN inbox /\ inbox[j].from = c
        BY <1>8, <4>1
      <4> QED BY <1>7, <3>1, <3>2, <3>3, <4>2 DEF RequestRelies
    <3>5. disp'[c].at = disp[c].at /\ (disp[c].committed => disp'[c].committed)
      BY <1>11
    <3> QED BY <1>4, <3>1, <3>2, <3>4, <3>5 DEF RequestRelies
  <2> QED BY <1>8, <2>1, <2>2
<1> QED BY <1>9, <1>12, <1>13, <1>14 DEF DispatchInv

\* The line after the dispatch of request k has given up on it.
GivenUp(k) == [inbox EXCEPT ![k].live = FALSE]

\* Requests that stay in line while one is taken out or given up: the
\* dispatches of the live ones are as before.
LEMMA LineKept ==
    ASSUME DispatchInv, DispatchTypeOK', NEW o, NEW ns, NEW e, WorldMoves(o, ns, e),
           NEW k \in DOMAIN inbox, NEW d \in Dispatches, inbox[k].from = d,
           inbox' = Without(k) \/ inbox' = GivenUp(k),
           \A c \in Dispatches : c # d => disp'[c] = disp[c],
           disp'[d].committed = disp[d].committed,
           disp'[d] = disp[d] \/ inbox[k].live,
           inbox' # Without(k) => inbox[k].live,
           inbox[k].live => \/ disp'[d].at \in {"failed", "rstatus", "stuck"}
                            \/ k = 1 /\ inbox' = Without(k)
    PROVE  \A j \in DOMAIN inbox' : RequestRelies(j)'
<1>1. /\ inbox \in Seq(Requests) /\ Len(inbox) \in Nat /\ DOMAIN inbox = 1..Len(inbox)
      /\ RequestRelies(k)
  BY DEF DispatchInv, DispatchTypeOK
<1>2. /\ home.gen \in Nat /\ home'.gen \in Nat /\ home'.gen >= home.gen
      /\ home'.gen = home.gen => home'.active = home.active
  BY DEF DispatchInv, DispatchTypeOK, Homes, WorldMoves
<1>3. ASSUME NEW j \in DOMAIN inbox', NEW i \in DOMAIN inbox, inbox[i] \in Requests,
             inbox'[j].from = inbox[i].from, inbox'[j].step = inbox[i].step,
             inbox'[j].k = inbox[i].k, inbox'[j].gen = inbox[i].gen,
             inbox'[j].live = (inbox[i].live /\ i # k),
             i = k => inbox' # Without(k),
             inbox'[j].live => \A m \in DOMAIN inbox' : inbox'[m].from = inbox[i].from => m <= j
      PROVE  RequestRelies(j)'
  <2>1. RequestRelies(i)
    BY DEF DispatchInv
  <2>2. PICK c \in Dispatches : inbox[i].from = c
    BY <1>3 DEF Requests
  <2>3. inbox'[j].gen <= home'.gen /\ inbox[i].gen \in Nat
    BY <1>2, <1>3, <2>1 DEF RequestRelies, Requests
  <2>4. (inbox[i].step = "rreset" /\ inbox[i].gen = home'.gen) => home'.active = EventOf[c]
    BY <1>2, <2>1, <2>2, <2>3, <1>3 DEF RequestRelies
  <2>5. disp[c].committed => disp'[c].committed
    OBVIOUS
  <2>6. inbox'[j].live => disp'[c] = disp[c]
    <3> SUFFICES ASSUME inbox'[j].live, c = d, disp'[d] # disp[d]  PROVE FALSE
      OBVIOUS
    <3>1. inbox[i].live /\ i # k /\ inbox[k].live
      BY <1>3
    <3>2. i <= k /\ k <= i
      BY <1>1, <2>1, <2>2, <3>1 DEF RequestRelies
    <3> QED BY <1>1, <3>1, <3>2
  <2>7. ~inbox'[j].live => disp'[c].at \in {"rstatus", "failed", "stuck"}
    <3> SUFFICES ASSUME ~inbox'[j].live  PROVE disp'[c].at \in {"rstatus", "failed", "stuck"}
      OBVIOUS
    <3>1. CASE i # k
      <4>1. ~inbox[i].live
        BY <1>3, <3>1
      <4>2. disp[c].at \in {"rstatus", "failed", "stuck"}
        BY <2>1, <2>2, <4>1 DEF RequestRelies
      <4>3. CASE c = d /\ disp'[d] # disp[d]
        <5>1. inbox[k].live
          BY <4>3
        <5>2. ~(k = 1 /\ inbox' = Without(k))
          <6>1. i <= k
            BY <1>1, <2>2, <4>3, <5>1 DEF RequestRelies
          <6> QED BY <1>1, <3>1, <6>1
        <5> QED BY <4>3, <5>1, <5>2
      <4> QED BY <4>2, <4>3
    <3>2. CASE i = k
      <4>1. inbox' # Without(k) /\ c = d
        BY <1>3, <2>2, <3>2
      <4>2. inbox[k].live
        BY <4>1
      <4> QED BY <4>1, <4>2
    <3> QED BY <3>1, <3>2
  <2> QED BY <1>3, <2>1, <2>2, <2>3, <2>4, <2>5, <2>6, <2>7 DEF RequestRelies
<1>4. CASE inbox' = Without(k)
  <2> SUFFICES ASSUME NEW j \in DOMAIN inbox'
               PROVE  RequestRelies(j)'
    OBVIOUS
  <2> DEFINE at(m) == IF m < k THEN m ELSE m + 1
  <2>w. /\ DOMAIN inbox' = 1..(Len(inbox) - 1)
        /\ \A m \in 1..(Len(inbox) - 1) :
              /\ m \in DOMAIN inbox /\ m + 1 \in DOMAIN inbox
              /\ inbox'[m] = IF m < k THEN inbox[m] ELSE inbox[m + 1]
    <3>1. DispatchTypeOK
      BY DEF DispatchInv
    <3>2. /\ DOMAIN Without(k) = 1..(Len(inbox) - 1)
          /\ \A m \in 1..(Len(inbox) - 1) :
                /\ m \in DOMAIN inbox /\ m + 1 \in DOMAIN inbox
                /\ Without(k)[m] = IF m < k THEN inbox[m] ELSE inbox[m + 1]
      BY <3>1, WithoutRequest
    <3> QED BY <1>4, <3>2, Zenon
  <2>a. k \in Nat /\ DOMAIN inbox' = 1..(Len(inbox) - 1)
    BY <1>1, <2>w
  <2>1. ASSUME NEW m \in DOMAIN inbox'
        PROVE  at(m) \in DOMAIN inbox /\ at(m) # k /\ inbox'[m] = inbox[at(m)] /\ m \in Nat
    <3>1. /\ m \in Nat /\ m \in DOMAIN inbox /\ m + 1 \in DOMAIN inbox
          /\ inbox'[m] = IF m < k THEN inbox[m] ELSE inbox[m + 1]
      BY <1>1, <2>w
    <3> QED BY <2>a, <3>1
  <2>2. at(j) \in DOMAIN inbox /\ inbox[at(j)] \in Requests
    <3>1. at(j) \in DOMAIN inbox
      BY <2>1
    <3> HIDE DEF at
    <3> QED BY <1>1, <3>1
  <2>3. inbox'[j].live => \A m \in DOMAIN inbox' : inbox'[m].from = inbox[at(j)].from => m <= j
    <3> SUFFICES ASSUME inbox'[j].live, NEW m \in DOMAIN inbox', inbox'[m].from = inbox[at(j)].from
                 PROVE  m <= j
      OBVIOUS
    <3>1. RequestRelies(at(j)) /\ inbox[at(j)].live /\ inbox[at(m)].from = inbox[at(j)].from
      BY <2>1 DEF DispatchInv
    <3>2. at(m) <= at(j)
      BY <2>1, <3>1 DEF RequestRelies
    <3>3. m \in Nat /\ j \in Nat
      BY <2>1
    <3> QED BY <2>a, <3>2, <3>3
  <2>4. inbox'[j].live = (inbox[at(j)].live /\ at(j) # k)
    BY <2>1, <2>2 DEF Requests
  <2> HIDE DEF at
  <2> QED BY <1>3, <2>1, <2>2, <2>3, <2>4
<1>5. CASE inbox' = GivenUp(k) /\ inbox' # Without(k)
  <2> SUFFICES ASSUME NEW j \in DOMAIN inbox'
               PROVE  RequestRelies(j)'
    OBVIOUS
  <2>1. /\ DOMAIN inbox' = DOMAIN inbox
        /\ \A m \in DOMAIN inbox :
              /\ inbox[m] \in Requests
              /\ inbox'[m].from = inbox[m].from /\ inbox'[m].step = inbox[m].step
              /\ inbox'[m].k = inbox[m].k /\ inbox'[m].gen = inbox[m].gen
              /\ inbox'[m].live = (inbox[m].live /\ m # k)
    <3> DEFINE x == [inbox[k] EXCEPT !.live = FALSE]
    <3>1. \A m \in DOMAIN inbox : inbox[m] \in Requests
      BY <1>1
    <3>2. /\ x.from = inbox[k].from /\ x.step = inbox[k].step
          /\ x.k = inbox[k].k /\ x.gen = inbox[k].gen /\ x.live = FALSE
      BY <3>1 DEF Requests
    <3>3. inbox' = [inbox EXCEPT ![k] = x]
      BY <1>5 DEF GivenUp
    <3> HIDE DEF x
    <3>4. /\ DOMAIN inbox' = DOMAIN inbox /\ inbox'[k] = x
          /\ \A m \in DOMAIN inbox : m # k => inbox'[m] = inbox[m]
      BY <1>1, <3>3
    <3>5. \A m \in DOMAIN inbox : inbox'[m].live = (inbox[m].live /\ m # k)
      <4> TAKE m \in DOMAIN inbox
      <4>1. inbox[m].live \in BOOLEAN
        BY <3>1 DEF Requests
      <4> QED BY <3>2, <3>4, <4>1
    <3> QED BY <3>1, <3>2, <3>4, <3>5
  <2>2. inbox'[j].live => \A m \in DOMAIN inbox' : inbox'[m].from = inbox[j].from => m <= j
    <3>1. RequestRelies(j)
      BY <2>1 DEF DispatchInv
    <3> QED BY <2>1, <3>1 DEF RequestRelies
  <2> QED BY <1>3, <1>5, <2>1, <2>2
<1> QED BY <1>4, <1>5

\* A dispatch at a step that relies on nothing but its generation.
LEMMA EasySteps ==
    ASSUME NEW d \in Dispatches,
           disp'[d].at \in {"probe", "preflight", "start", "commit", "rstatus", "rcancel",
                           "failed", "stuck", "drained"},
           disp'[d].gen <= home'.gen, disp'[d].k \in DOMAIN QueuesOf[d]
    PROVE  DispatchRelies(d)'
BY DEF DispatchRelies, At

LEMMA TimeOutStep ==
    ASSUME DispatchInv, NEW k \in DOMAIN inbox, TimeOut(k)
    PROVE  DispatchInv'
<1>1. DispatchTypeOK /\ inbox[k] \in Requests /\ inbox[k].live
  BY DEF DispatchInv, DispatchTypeOK, TimeOut
<1>2. PICK d \in Dispatches : inbox[k].from = d
  BY <1>1 DEF Requests
<1>3. disp' = [disp EXCEPT ![d] = Fails(d)] /\ UNCHANGED <<home, queue, others>>
  BY <1>2 DEF TimeOut
<1>4. inbox' = Without(k) \/ inbox' = GivenUp(k)
  BY DEF TimeOut, GivenUp
<1>5. /\ disp' \in [Dispatches -> Records] /\ disp'[d] = Fails(d)
      /\ \A c \in Dispatches : c # d => disp'[c] = disp[c]
  BY <1>1, <1>3, FailsRecord DEF DispatchTypeOK
<1>6. /\ disp'[d].at \in {"failed", "rstatus", "stuck"} /\ disp'[d].k = 1
      /\ disp'[d].gen = disp[d].gen /\ disp'[d].committed = disp[d].committed
  BY <1>1, <1>5, FailsRecord
<1>7. inbox' \in Seq(Requests)
  <2>1. [inbox[k] EXCEPT !.live = FALSE] \in Requests
    BY <1>1 DEF Requests
  <2>2. GivenUp(k) = [inbox EXCEPT ![k] = [inbox[k] EXCEPT !.live = FALSE]]
    BY DEF GivenUp
  <2>3. inbox \in Seq(Requests)
    BY <1>1 DEF DispatchTypeOK
  <2>4. \A x \in Requests : [inbox EXCEPT ![k] = x] \in Seq(Requests)
    BY <2>3
  <2>5. GivenUp(k) \in Seq(Requests)
    BY <2>1, <2>2, <2>4
  <2> QED BY <1>1, <1>4, <2>5, WithoutRequest
<1>8. DispatchTypeOK'
  BY <1>1, <1>3, <1>5, <1>7 DEF DispatchTypeOK
<1>9. WorldMoves(Home, {}, NoEvent)
  BY <1>1, <1>3, NothingMoves DEF DispatchTypeOK
<1>10. \A j \in DOMAIN inbox' : RequestRelies(j)'
  BY <1>1, <1>2, <1>4, <1>5, <1>6, <1>8, <1>9, LineKept
<1>11. \A c \in Dispatches : DispatchRelies(c)'
  <2>1. ASSUME NEW c \in Dispatches, c # d
        PROVE  DispatchRelies(c)'
    <3>1. Home # c /\ NoEvent # EventOf[c] /\ disp'[c] = disp[c]
      BY <1>5, <2>1, DispatchAssumption, EventsAssumption
    <3> QED BY <1>9, <3>1, StillRelies
  <2>2. DispatchRelies(d)'
    <3>1. disp'[d].gen <= home'.gen /\ disp'[d].k \in DOMAIN QueuesOf[d]
      BY <1>3, <1>6, QueueLists DEF DispatchInv, DispatchRelies
    <3> QED BY <1>6, <3>1, EasySteps
  <2> QED BY <2>1, <2>2
<1>12. QueuesAreCommitted'
  <2>1. \A c \in Dispatches : disp[c].committed => disp'[c].committed
    BY <1>5, <1>6
  <2> QED BY <1>9, <2>1, QueuesKept, DispatchAssumption
<1> QED BY <1>8, <1>10, <1>11, <1>12 DEF DispatchInv

\* What carrying a request out does to the home.
Moved(q, o, ns, e) ==
    /\ WorldMoves(o, ns, e)
    /\ \/ o = Home
       \/ o = q.from /\ q.step = "commit" /\ ns = {Npc(q.from, q.k)}
    /\ e = NoEvent \/ (e = EventOf[q.from] /\ q.step = "start")

LEMMA CarriedOutMoves ==
    ASSUME DispatchTypeOK, NEW q \in Requests, q.k \in DOMAIN QueuesOf[q.from], CarriedOut(q)
    PROVE  \E o, ns, e : Moved(q, o, ns, e)
<1>1. /\ home \in Homes /\ queue \in [Npcs -> Queues]
      /\ q.from \in Dispatches /\ q.gen \in Nat /\ Npc(q.from, q.k) \in Npcs
      /\ q.from \in Owners /\ EventOf[q.from] \in Events
  BY QueueLists, DispatchAssumption DEF DispatchTypeOK, Requests
<1>2. CASE Unmoved
  <2>1. WorldMoves(Home, {}, NoEvent)
    BY <1>1, <1>2, NothingMoves DEF Unmoved
  <2> QED BY <2>1 DEF Moved
<1>3. CASE q.step = "start" /\ Start(q)
  <2>1. PICK ok \in BOOLEAN : StartEvent(EventOf[q.from], q.gen, ok)
    BY <1>3 DEF Start
  <2>2. WorldMoves(Home, {}, EventOf[q.from])
    BY <1>1, <2>1, StartMoves
  <2> QED BY <1>3, <2>2 DEF Moved
<1>4. CASE q.step = "commit" /\ CommitQueue(q)
  <2>1. PICK ok \in BOOLEAN : QueueCommand(Npc(q.from, q.k), q.gen, q.from, ok)
    BY <1>4 DEF CommitQueue
  <2>2. WorldMoves(q.from, {Npc(q.from, q.k)}, NoEvent)
    BY <1>1, <2>1, QueueMoves
  <2> QED BY <1>4, <2>2 DEF Moved
<1>5. CASE CancelQueue(q)
  <2>1. PICK ok \in BOOLEAN : CancelCommand(Npc(q.from, q.k), q.gen, ok)
    BY <1>5 DEF CancelQueue
  <2>2. WorldMoves(Home, {}, NoEvent)
    BY <1>1, <2>1, CancelMoves
  <2> QED BY <2>2 DEF Moved
<1>6. CASE Reset(q)
  <2>1. PICK ok \in BOOLEAN : ResetEvent(q.gen, ok)
    BY <1>6 DEF Reset
  <2>2. WorldMoves(Home, {}, NoEvent)
    BY <1>1, <2>1, ResetMoves
  <2> QED BY <2>2 DEF Moved
<1> QED BY <1>2, <1>3, <1>4, <1>5, <1>6
        DEF CarriedOut, Probe, Preflight, Drain, LookBack, LookAtNpc, LookAgain, LastLook

-------------------------------------------------------------------------------
(***************************************************************************)
(* What a dispatch makes of an answer it was waiting for.                  *)
(***************************************************************************)

Answered(d) ==
    \E r \in Records : r.committed = disp[d].committed /\ disp' = [disp EXCEPT ![d] = r]

\* d waits for the answer of request q, which is carried out in a step that
\* does not take the generation back.
Heard(q, d) ==
    /\ DispatchInv
    /\ q \in Requests /\ d \in Dispatches /\ q.from = d /\ q.live
    /\ q.step = disp[d].at /\ q.k = disp[d].k /\ q.gen = disp[d].gen
    /\ home' \in Homes /\ home'.gen >= home.gen

LEMMA HeardFacts ==
    ASSUME NEW q, NEW d, Heard(q, d)
    PROVE  /\ d \in Dispatches /\ DispatchTypeOK /\ disp[d] \in Records /\ DispatchRelies(d)
           /\ q.gen \in Nat /\ home.gen \in Nat /\ home'.gen \in Nat
           /\ disp[d].k \in DOMAIN QueuesOf[d] /\ disp[d].gen <= home'.gen
           /\ disp[d].at \in Steps \ Over
<1>1. /\ d \in Dispatches /\ DispatchTypeOK /\ disp[d] \in Records /\ DispatchRelies(d)
      /\ q.gen \in Nat /\ home.gen \in Nat /\ home'.gen \in Nat
      /\ disp[d].at \in Steps \ Over
  BY DEF Heard, DispatchInv, DispatchTypeOK, Requests, Homes
<1>2. disp[d].k \in DOMAIN QueuesOf[d] /\ disp[d].gen <= home.gen
  BY <1>1 DEF DispatchRelies
<1>3. disp[d].gen <= home'.gen
  BY <1>1, <1>2 DEF Heard, Records
<1> QED BY <1>1, <1>2, <1>3

LEMMA TakesAnswer ==
    ASSUME NEW q, NEW d, Heard(q, d), NEW r \in Records, r.committed = disp[d].committed,
           Answer(q, r)
    PROVE  Answered(d) /\ disp'[d] = r
<1>1. disp' = [disp EXCEPT ![d] = r] /\ disp \in [Dispatches -> Records] /\ d \in Dispatches
  BY HeardFacts DEF Heard, Answer, DispatchTypeOK
<1> QED BY <1>1 DEF Answered

LEMMA HearsFailure ==
    ASSUME NEW q, NEW d, Heard(q, d), Answer(q, Fails(d))
    PROVE  Answered(d) /\ DispatchRelies(d)'
<1>1. d \in Dispatches /\ DispatchTypeOK /\ disp[d].gen <= home'.gen
  BY HeardFacts
<1>2. /\ Fails(d) \in Records
      /\ Fails(d).at \in {"failed", "rstatus", "stuck"} /\ Fails(d).k = 1
      /\ Fails(d).gen = disp[d].gen
      /\ Fails(d).committed = disp[d].committed
  BY <1>1, FailsRecord
<1>3. Answered(d) /\ disp'[d] = Fails(d)
  BY <1>2, TakesAnswer
<1>4. disp'[d].gen <= home'.gen /\ disp'[d].k \in DOMAIN QueuesOf[d]
      /\ disp'[d].at \in {"failed", "rstatus", "stuck"}
  BY <1>1, <1>2, <1>3, QueueLists
<1> QED BY <1>1, <1>3, <1>4, EasySteps

\* On to a step that relies on its generation only.
LEMMA HearsEasy ==
    ASSUME NEW q, NEW d, Heard(q, d), NEW g \in Nat, g <= home'.gen,
           NEW step \in {"preflight", "commit", "rcancel"},
           Answer(q, Told(GoesTo(d, step), g))
    PROVE  Answered(d) /\ DispatchRelies(d)'
<1>1. d \in Dispatches /\ DispatchTypeOK /\ step \in Steps
  BY HeardFacts DEF Steps, Probing, Mutating, RollingBack
<1>2. /\ GoesTo(d, step) \in Records /\ GoesTo(d, step).at = step /\ GoesTo(d, step).k = 1
      /\ GoesTo(d, step).committed = disp[d].committed
  BY <1>1, GoesToRecord
<1>3. PICK r \in Records : /\ r = Told(GoesTo(d, step), g) /\ r.gen = g /\ r.at = step /\ r.k = 1
                           /\ r.committed = disp[d].committed
  BY <1>2, ToldRecord
<1>4. Answered(d) /\ disp'[d] = r
  BY <1>3, TakesAnswer
<1> QED BY <1>1, <1>3, <1>4, EasySteps, QueueLists

LEMMA HearsPreflight ==
    ASSUME NEW q, NEW d, Heard(q, d), At(d, "preflight"), Preflight(q)
    PROVE  Answered(d) /\ DispatchRelies(d)'
<1>1. d \in Dispatches /\ DispatchTypeOK /\ "start" \in Steps /\ q.from = d
      /\ disp[d].k \in DOMAIN QueuesOf[d] /\ disp[d].gen <= home'.gen
  BY HeardFacts DEF Steps, Mutating, Heard
<1>2. PICK r : r = GoesOn(d, "start")
  OBVIOUS
<1>3. CASE Answer(q, r)
  <2>1. /\ r \in Records /\ r.k \in DOMAIN QueuesOf[d] /\ r.gen = disp[d].gen
        /\ r.committed = disp[d].committed /\ r.at \in {"preflight", "start"}
    BY <1>1, <1>2, GoesOnRecord DEF At
  <2>2. Answered(d) /\ disp'[d] = r
    BY <1>3, <2>1, TakesAnswer
  <2> QED BY <1>1, <2>1, <2>2, EasySteps
<1> QED BY <1>1, <1>2, <1>3, HearsFailure DEF Preflight

LEMMA HearsCommit ==
    ASSUME NEW q, NEW d, Heard(q, d), At(d, "commit"), CommitQueue(q)
    PROVE  Answered(d) /\ DispatchRelies(d)'
<1>1. d \in Dispatches /\ DispatchTypeOK /\ "drain" \in Steps /\ q.from = d
      /\ disp[d].k \in DOMAIN QueuesOf[d] /\ q.gen \in Nat
      /\ home \in Homes /\ queue \in [Npcs -> Queues] /\ d \in Owners /\ q.k = disp[d].k
  BY HeardFacts, DispatchAssumption DEF Steps, Mutating, Heard, DispatchTypeOK
<1>2. PICK ok \in BOOLEAN : /\ QueueCommand(Npc(d, q.k), q.gen, d, ok)
                            /\ Receipt(q, ok, GoesOn(d, "drain"))
  BY <1>1 DEF CommitQueue
<1>3. CASE ok
  <2>1. home'.gen = q.gen + 1
    BY <1>1, <1>2, <1>3, QueueMoves, QueueLists
  <2>2. PICK s : s = GoesOn(d, "drain")
    OBVIOUS
  <2>3. /\ s \in Records /\ s.k \in DOMAIN QueuesOf[d]
        /\ s.committed = disp[d].committed
        /\ s.at = "commit" \/ (s.at = "drain" /\ s.k = 1)
    BY <1>1, <2>2, GoesOnRecord DEF At
  <2>4. PICK r \in Records : /\ r = Told(s, q.gen + 1) /\ r.gen = q.gen + 1
                             /\ r.at = s.at /\ r.k = s.k /\ r.committed = s.committed
    <3>1. q.gen + 1 \in Nat
      BY <1>1
    <3> QED BY <2>3, <3>1, ToldRecord
  <2>5. Answer(q, r)
    BY <1>2, <1>3, <2>2, <2>4 DEF Receipt
  <2>6. Answered(d) /\ disp'[d] = r
    BY <2>3, <2>4, <2>5, TakesAnswer
  <2>7. CASE s.at = "commit"
    BY <1>1, <2>1, <2>3, <2>4, <2>6, <2>7, EasySteps
  <2>8. CASE s.at = "drain" /\ s.k = 1
    BY <1>1, <2>1, <2>3, <2>4, <2>6, <2>8 DEF DispatchRelies, At
  <2> QED BY <2>3, <2>7, <2>8
<1>4. CASE ~ok
  BY <1>1, <1>2, <1>4, HearsFailure DEF Receipt
<1> QED BY <1>3, <1>4

LEMMA HearsCancel ==
    ASSUME NEW q, NEW d, Heard(q, d), At(d, "rcancel"), CancelQueue(q)
    PROVE  Answered(d) /\ DispatchRelies(d)'
<1>1. d \in Dispatches /\ DispatchTypeOK /\ "rnpc" \in Steps /\ q.from = d
      /\ disp[d].k \in DOMAIN QueuesOf[d] /\ q.gen \in Nat
      /\ home \in Homes /\ queue \in [Npcs -> Queues] /\ q.k = disp[d].k
  BY HeardFacts DEF Steps, RollingBack, Heard, DispatchTypeOK
<1>2. PICK ok \in BOOLEAN : /\ CancelCommand(Npc(d, q.k), q.gen, ok)
                            /\ Receipt(q, ok, GoesOn(d, "rnpc"))
  BY <1>1 DEF CancelQueue
<1>3. CASE ok
  <2>1. home'.gen = q.gen + 1
    BY <1>1, <1>2, <1>3, CancelMoves, QueueLists
  <2>2. PICK s : s = GoesOn(d, "rnpc")
    OBVIOUS
  <2>3. /\ s \in Records /\ s.k \in DOMAIN QueuesOf[d]
        /\ s.committed = disp[d].committed
        /\ s.at = "rcancel" \/ (s.at = "rnpc" /\ s.k = 1)
    BY <1>1, <2>2, GoesOnRecord DEF At
  <2>4. PICK r \in Records : /\ r = Told(s, q.gen + 1) /\ r.gen = q.gen + 1
                             /\ r.at = s.at /\ r.k = s.k /\ r.committed = s.committed
    <3>1. q.gen + 1 \in Nat
      BY <1>1
    <3> QED BY <2>3, <3>1, ToldRecord
  <2>5. Answer(q, r)
    BY <1>2, <1>3, <2>2, <2>4 DEF Receipt
  <2>6. Answered(d) /\ disp'[d] = r
    BY <2>3, <2>4, <2>5, TakesAnswer
  <2>7. CASE s.at = "rcancel"
    BY <1>1, <2>1, <2>3, <2>4, <2>6, <2>7, EasySteps
  <2>8. CASE s.at = "rnpc" /\ s.k = 1
    BY <1>1, <2>1, <2>3, <2>4, <2>6, <2>8 DEF DispatchRelies, At
  <2> QED BY <2>3, <2>7, <2>8
<1>4. CASE ~ok
  BY <1>1, <1>2, <1>4, HearsFailure DEF Receipt
<1> QED BY <1>3, <1>4

LEMMA HearsDrain ==
    ASSUME NEW q, NEW d, Heard(q, d), At(d, "drain"), Drain(q)
    PROVE  Answered(d) /\ DispatchRelies(d)'
<1>1. d \in Dispatches /\ DispatchTypeOK /\ "drained" \in Steps /\ q.from = d
      /\ disp[d].k \in DOMAIN QueuesOf[d] /\ disp[d].gen <= home'.gen
      /\ q.k = disp[d].k /\ q.gen = disp[d].gen /\ DispatchRelies(d) /\ disp[d] \in Records
      /\ UNCHANGED <<home, queue>>
  BY HeardFacts DEF Steps, Over, Heard, Drain, Unmoved
<1>2. PICK r : r = GoesOn(d, "drained")
  OBVIOUS
<1>3. CASE /\ IsPolled(q) /\ Answer(q, r)
           /\ queue[Npc(d, q.k)].owner = d /\ queue[Npc(d, q.k)].st = "done"
  <2>1. /\ r \in Records /\ r.k \in DOMAIN QueuesOf[d] /\ r.gen = disp[d].gen
        /\ r.committed = disp[d].committed
        /\ (r.at = "drain" /\ r.k = disp[d].k + 1) \/ r.at = "drained"
    BY <1>1, <1>2, GoesOnRecord DEF At
  <2>2. Answered(d) /\ disp'[d] = r
    BY <1>3, <2>1, TakesAnswer
  <2>3. CASE r.at = "drained"
    BY <1>1, <2>1, <2>2, <2>3, EasySteps
  <2>4. CASE r.at = "drain" /\ r.k = disp[d].k + 1
    <3>1. queue[Npc(d, disp[d].k)] = [owner |-> d, st |-> "done"]
      <4>1. queue[Npc(d, disp[d].k)] \in Queues
        BY <1>1, QueueLists DEF DispatchTypeOK
      <4> QED BY <1>1, <1>3, <4>1 DEF Queues
    <3>2. \A i \in 1..(disp[d].k - 1) : queue[Npc(d, i)] = [owner |-> d, st |-> "done"]
      BY <1>1, <1>3 DEF IsPolled, DispatchRelies, At
    <3>3. disp[d].k \in Nat
      BY <1>1 DEF Records
    <3>4. \A i \in 1..(r.k - 1) : queue[Npc(d, i)] = [owner |-> d, st |-> "done"]
      BY <2>4, <3>1, <3>2, <3>3
    <3> QED BY <1>1, <2>1, <2>2, <2>4, <3>4 DEF DispatchRelies, At, Npc
  <2> QED BY <2>1, <2>3, <2>4
<1>4. CASE Answer(q, [disp[d] EXCEPT !.waits = FALSE])
  <2>1. PICK t \in Records : /\ t = [disp[d] EXCEPT !.waits = FALSE] /\ t.at = disp[d].at
                             /\ t.k = disp[d].k /\ t.gen = disp[d].gen
                             /\ t.committed = disp[d].committed
    <3>1. PICK t \in Records : t = [disp[d] EXCEPT !.waits = FALSE]
      BY <1>1 DEF Records
    <3>2. /\ t.at = disp[d].at /\ t.k = disp[d].k /\ t.gen = disp[d].gen
          /\ t.committed = disp[d].committed
      BY <1>1, <3>1 DEF Records
    <3> QED BY <3>1, <3>2
  <2>2. Answered(d) /\ disp'[d] = t
    BY <1>4, <2>1, TakesAnswer
  <2>3. WorldMoves(Home, {}, NoEvent) /\ ~At(d, "rolledback")
    BY <1>1, NothingMoves DEF DispatchTypeOK, At
  <2>4. DispatchInv
    BY DEF Heard
  <2> QED BY <1>1, <2>1, <2>2, <2>3, <2>4, StillRelies
<1> QED BY <1>1, <1>2, <1>3, <1>4, HearsFailure DEF Drain

LEMMA HearsProbe ==
    ASSUME NEW q, NEW d, Heard(q, d), Probe(q)
    PROVE  Answered(d) /\ DispatchRelies(d)'
<1>1. q.from = d /\ home.gen \in Nat /\ home.gen <= home'.gen
  BY HeardFacts DEF Heard, Probe, Unmoved
<1>2. CASE Answer(q, Told(GoesTo(d, "preflight"), home.gen))
  BY <1>1, <1>2, HearsEasy
<1> QED BY <1>1, <1>2, HearsFailure DEF Probe

LEMMA HearsStart ==
    ASSUME NEW q, NEW d, Heard(q, d), Start(q)
    PROVE  Answered(d) /\ DispatchRelies(d)'
<1>1. q.from = d /\ q.gen \in Nat /\ q.gen + 1 \in Nat /\ EventOf[d] \in Events
      /\ home \in Homes /\ queue \in [Npcs -> Queues]
  BY HeardFacts, DispatchAssumption DEF Heard, DispatchTypeOK
<1>2. PICK ok \in BOOLEAN : /\ StartEvent(EventOf[d], q.gen, ok)
                            /\ Receipt(q, ok, GoesTo(d, "commit"))
  BY <1>1 DEF Start
<1>3. CASE ok
  <2>1. q.gen + 1 <= home'.gen
    <3>1. home'.gen = q.gen + 1
      BY <1>1, <1>2, <1>3, StartMoves
    <3> QED BY <1>1, <3>1
  <2> QED BY <1>1, <1>2, <1>3, <2>1, HearsEasy DEF Receipt
<1> QED BY <1>1, <1>2, <1>3, HearsFailure DEF Receipt

\* On to a step of the rollback.
LEMMA HearsStep ==
    ASSUME NEW q, NEW d, Heard(q, d), NEW step \in Steps, NEW g \in Nat, g <= home'.gen,
           \/ Answer(q, Told(GoesTo(d, step), g))
           \/ Answer(q, GoesTo(d, step)) /\ g = disp[d].gen
    PROVE  /\ Answered(d)
           /\ disp'[d].at = step /\ disp'[d].k = 1 /\ disp'[d].gen = g
           /\ disp'[d].gen <= home'.gen /\ disp'[d].k \in DOMAIN QueuesOf[d]
<1>1. d \in Dispatches /\ DispatchTypeOK
  BY HeardFacts
<1>2. PICK r \in Records : /\ r = GoesTo(d, step) /\ r.at = step /\ r.k = 1
                           /\ r.gen = disp[d].gen /\ r.committed = disp[d].committed
  BY <1>1, GoesToRecord
<1>3. PICK t \in Records : /\ t = Told(r, g) /\ t.at = step /\ t.k = 1 /\ t.gen = g
                           /\ t.committed = disp[d].committed
  BY <1>2, ToldRecord
<1>4. CASE Answer(q, t)
  <2>1. Answered(d) /\ disp'[d] = t
    BY <1>3, <1>4, TakesAnswer
  <2> QED BY <1>1, <1>3, <2>1, QueueLists
<1>5. CASE Answer(q, r) /\ g = disp[d].gen
  <2>1. Answered(d) /\ disp'[d] = r
    BY <1>2, <1>5, TakesAnswer
  <2> QED BY <1>1, <1>2, <1>5, <2>1, QueueLists
<1> QED BY <1>2, <1>3, <1>4, <1>5

LEMMA HearsLookBack ==
    ASSUME NEW q, NEW d, Heard(q, d), LookBack(q)
    PROVE  Answered(d) /\ DispatchRelies(d)'
<1>1. q.from = d /\ home.gen \in Nat /\ home.gen <= home'.gen /\ UNCHANGED <<home, queue>>
      /\ d \in Dispatches /\ QueuesAreCommitted
  BY HeardFacts DEF Heard, LookBack, Unmoved, DispatchInv
<1>2. CASE OwnOrIdle(d) /\ disp[d].committed
  <2>1. Answer(q, Told(GoesTo(d, "rcancel"), home.gen))
    BY <1>1, <1>2 DEF LookBack
  <2> QED BY <1>1, <2>1, HearsEasy
<1>3. CASE OwnOrIdle(d) /\ ~disp[d].committed
  <2>1. Answer(q, Told(GoesTo(d, AfterLook), home.gen))
    BY <1>1, <1>3 DEF LookBack
  <2>2. AfterLook \in Steps /\ AfterLook \in {"rterm", "rreset"}
    BY DEF AfterLook, Steps, RollingBack
  <2>3. /\ Answered(d) /\ disp'[d].at = AfterLook
        /\ disp'[d].gen <= home'.gen /\ disp'[d].k \in DOMAIN QueuesOf[d]
    BY <1>1, <2>1, <2>2, HearsStep
  <2>4. Quiet(d)'
    BY <1>1, <1>3 DEF Quiet, QueuesAreCommitted
  <2>5. AfterLook = "rreset" => home'.active = EventOf[d]
    BY <1>1, <1>3 DEF AfterLook, OwnOrIdle
  <2> QED BY <2>2, <2>3, <2>4, <2>5 DEF DispatchRelies, At
<1> QED BY <1>1, <1>2, <1>3, HearsFailure DEF LookBack

LEMMA HearsLookAtNpc ==
    ASSUME NEW q, NEW d, Heard(q, d), At(d, "rnpc"), LookAtNpc(q)
    PROVE  Answered(d) /\ DispatchRelies(d)'
<1>1. d \in Dispatches /\ DispatchTypeOK /\ "rpre" \in Steps /\ q.from = d
      /\ disp[d].k \in DOMAIN QueuesOf[d] /\ disp[d].gen <= home'.gen
      /\ q.k = disp[d].k /\ q.gen = disp[d].gen /\ DispatchRelies(d) /\ disp[d] \in Records
      /\ UNCHANGED <<home, queue>> /\ QueuesAreCommitted
  BY HeardFacts DEF Steps, RollingBack, Heard, LookAtNpc, Unmoved, DispatchInv
<1>2. PICK r : r = GoesOn(d, "rpre")
  OBVIOUS
<1>3. CASE Answer(q, r) /\ home.gen = q.gen /\ queue[Npc(d, q.k)].st # "running"
  <2>1. /\ r \in Records /\ r.k \in DOMAIN QueuesOf[d] /\ r.gen = disp[d].gen
        /\ r.committed = disp[d].committed
        /\ \/ r.at = "rnpc" /\ r.k = disp[d].k + 1
           \/ r.at = "rpre" /\ disp[d].k = Len(QueuesOf[d])
    BY <1>1, <1>2, GoesOnRecord DEF At
  <2>2. Answered(d) /\ disp'[d] = r
    BY <1>3, <2>1, TakesAnswer
  <2>3. disp[d].k \in Nat
    BY <1>1 DEF Records
  <2>4. \A i \in 1..disp[d].k : queue[Npc(d, i)].owner = d => queue[Npc(d, i)].st # "running"
    <3>1. \A i \in 1..(disp[d].k - 1) :
             queue[Npc(d, i)].owner = d => queue[Npc(d, i)].st # "running"
      BY <1>1, <1>3 DEF DispatchRelies, At
    <3> QED BY <1>1, <1>3, <2>3, <3>1
  <2>5. CASE r.at = "rnpc" /\ r.k = disp[d].k + 1
    <3>1. \A i \in 1..(r.k - 1) : queue[Npc(d, i)].owner = d => queue[Npc(d, i)].st # "running"
      BY <2>3, <2>4, <2>5
    <3> QED BY <1>1, <2>1, <2>2, <2>5, <3>1 DEF DispatchRelies, At, Npc
  <2>6. CASE r.at = "rpre" /\ disp[d].k = Len(QueuesOf[d])
    <3>1. \A i \in DOMAIN QueuesOf[d] :
             queue[Npc(d, i)].owner = d => queue[Npc(d, i)].st # "running"
      BY <1>1, <2>4, <2>6, QueueLists
    <3>2. Quiet(d)'
      BY <1>1, <3>1 DEF Quiet, QueuesAreCommitted
    <3> QED BY <1>1, <2>1, <2>2, <2>6, <3>2 DEF DispatchRelies, At
  <2> QED BY <2>1, <2>5, <2>6
<1> QED BY <1>1, <1>2, <1>3, HearsFailure DEF LookAtNpc

LEMMA HearsLookAgain ==
    ASSUME NEW q, NEW d, Heard(q, d), At(d, "rpre"), LookAgain(q)
    PROVE  Answered(d) /\ DispatchRelies(d)'
<1>1. q.from = d /\ UNCHANGED <<home, queue>> /\ d \in Dispatches /\ q.gen = disp[d].gen
      /\ disp[d].gen <= home'.gen /\ DispatchRelies(d) /\ disp[d].gen \in Nat
  BY HeardFacts DEF Heard, LookAgain, Unmoved, Records
<1>2. CASE OwnOrIdle(d) /\ home.gen = q.gen
  <2>1. Answer(q, GoesTo(d, AfterLook))
    BY <1>1, <1>2 DEF LookAgain
  <2>2. AfterLook \in Steps /\ AfterLook \in {"rterm", "rreset"}
    BY DEF AfterLook, Steps, RollingBack
  <2>3. /\ Answered(d) /\ disp'[d].at = AfterLook
        /\ disp'[d].gen <= home'.gen /\ disp'[d].k \in DOMAIN QueuesOf[d]
    BY <1>1, <2>1, <2>2, HearsStep
  <2>4. Quiet(d)'
    BY <1>1, <1>2 DEF Quiet, DispatchRelies, At
  <2>5. AfterLook = "rreset" => home'.active = EventOf[d]
    BY <1>1, <1>2 DEF AfterLook, OwnOrIdle
  <2> QED BY <2>2, <2>3, <2>4, <2>5 DEF DispatchRelies, At
<1> QED BY <1>1, <1>2, HearsFailure DEF LookAgain

LEMMA HearsReset ==
    ASSUME NEW q, NEW d, Heard(q, d), At(d, "rreset"), Reset(q)
    PROVE  Answered(d) /\ DispatchRelies(d)'
<1>1. q.from = d /\ d \in Dispatches /\ q.gen = disp[d].gen /\ q.gen \in Nat /\ q.gen + 1 \in Nat
      /\ DispatchRelies(d) /\ "rterm" \in Steps
      /\ home \in Homes /\ queue \in [Npcs -> Queues]
  BY HeardFacts DEF Heard, Steps, RollingBack, DispatchTypeOK
<1>2. PICK ok \in BOOLEAN : ResetEvent(q.gen, ok) /\ Receipt(q, ok, GoesTo(d, "rterm"))
  BY <1>1 DEF Reset
<1>3. CASE ok
  <2>1. WorldMoves(Home, {}, NoEvent) /\ q.gen = home.gen /\ home'.gen = q.gen + 1
    BY <1>1, <1>2, <1>3, ResetMoves
  <2>2. Answer(q, Told(GoesTo(d, "rterm"), q.gen + 1))
    BY <1>2, <1>3 DEF Receipt
  <2>3. /\ Answered(d) /\ disp'[d].at = "rterm"
        /\ disp'[d].gen <= home'.gen /\ disp'[d].k \in DOMAIN QueuesOf[d]
    BY <1>1, <2>1, <2>2, HearsStep
  <2>4. Quiet(d)'
    <3>1. Quiet(d) /\ Home # d
      BY <1>1, <2>1, DispatchAssumption DEF DispatchRelies, At
    <3> QED BY <1>1, <2>1, <3>1, StaysQuiet
  <2> QED BY <2>3, <2>4 DEF DispatchRelies, At
<1> QED BY <1>1, <1>2, <1>3, HearsFailure DEF Receipt

LEMMA HearsLastLook ==
    ASSUME NEW q, NEW d, Heard(q, d), At(d, "rterm"), LastLook(q)
    PROVE  Answered(d) /\ DispatchRelies(d)'
<1>1. q.from = d /\ UNCHANGED <<home, queue>> /\ d \in Dispatches /\ q.gen = disp[d].gen
      /\ disp[d].gen <= home'.gen /\ DispatchRelies(d) /\ disp[d].gen \in Nat
      /\ "rolledback" \in Steps /\ NoEvent # EventOf[d]
  BY HeardFacts, DispatchAssumption, EventsAssumption
     DEF Heard, LastLook, Unmoved, Records, Steps, Over
<1>2. CASE IsIdle /\ home.gen = q.gen
  <2>1. Answer(q, GoesTo(d, "rolledback"))
    BY <1>1, <1>2 DEF LastLook
  <2>2. /\ Answered(d) /\ disp'[d].at = "rolledback"
        /\ disp'[d].gen <= home'.gen /\ disp'[d].k \in DOMAIN QueuesOf[d]
    BY <1>1, <2>1, HearsStep
  <2>3. Quiet(d)' /\ home'.active # EventOf[d]
    BY <1>1, <1>2 DEF Quiet, DispatchRelies, At, IsIdle
  <2> QED BY <2>2, <2>3 DEF DispatchRelies, At
<1> QED BY <1>1, <1>2, HearsFailure DEF LastLook

LEMMA HearsAnswer ==
    ASSUME NEW q, NEW d, Heard(q, d), CarriedOut(q)
    PROVE  Answered(d) /\ DispatchRelies(d)'
BY HearsProbe, HearsPreflight, HearsStart, HearsCommit, HearsDrain, HearsLookBack, HearsCancel,
   HearsLookAtNpc, HearsLookAgain, HearsReset, HearsLastLook
   DEF CarriedOut, Heard, At

-------------------------------------------------------------------------------
(***************************************************************************)
(* The invariant.                                                          *)
(***************************************************************************)

LEMMA HandleStep ==
    ASSUME DispatchInv, NEW k \in DOMAIN inbox, Handle(k)
    PROVE  DispatchInv'
<1>1. DispatchTypeOK /\ k = 1 /\ inbox[k] \in Requests /\ RequestRelies(k)
  BY DEF DispatchInv, DispatchTypeOK, Handle, IsDue
<1>2. PICK q \in Requests, d \in Dispatches : q = inbox[k] /\ q.from = d
  BY <1>1 DEF Requests
<1>3. CarriedOut(q) /\ inbox' = Without(k) /\ UNCHANGED others /\ q.k \in DOMAIN QueuesOf[d]
  BY <1>1, <1>2 DEF Handle, RequestRelies
<1>4. PICK o, ns, e : Moved(q, o, ns, e)
  BY <1>1, <1>2, <1>3, CarriedOutMoves
<1>5. WorldMoves(o, ns, e) /\ home' \in Homes /\ home'.gen >= home.gen
  BY <1>4 DEF Moved, WorldMoves
<1>6. ~q.live => disp' = disp
  BY <1>3 DEF CarriedOut, Probe, Preflight, Start, CommitQueue, Drain, LookBack, CancelQueue,
              LookAtNpc, LookAgain, Reset, LastLook, Receipt, Answer
<1>7. q.live => Answered(d) /\ DispatchRelies(d)'
  <2> SUFFICES ASSUME q.live  PROVE Answered(d) /\ DispatchRelies(d)'
    OBVIOUS
  <2>1. q.step = disp[d].at /\ q.k = disp[d].k /\ q.gen = disp[d].gen
    BY <1>1, <1>2 DEF RequestRelies
  <2>2. Heard(q, d)
    BY <1>2, <1>5, <2>1 DEF Heard
  <2> QED BY <1>3, <2>2, HearsAnswer
<1>8. /\ disp' \in [Dispatches -> Records]
      /\ \A c \in Dispatches : c # d => disp'[c] = disp[c]
      /\ disp'[d].committed = disp[d].committed
      /\ disp'[d] = disp[d] \/ q.live
  <2>1. CASE ~q.live
    BY <1>1, <1>6, <2>1 DEF DispatchTypeOK
  <2>2. CASE q.live
    <3>1. PICK r \in Records : r.committed = disp[d].committed /\ disp' = [disp EXCEPT ![d] = r]
      BY <1>7, <2>2 DEF Answered
    <3> QED BY <1>1, <2>2, <3>1 DEF DispatchTypeOK
  <2> QED BY <2>1, <2>2
<1>9. DispatchTypeOK'
  <2>1. inbox' \in Seq(Requests)
    BY <1>1, <1>3, WithoutRequest
  <2> QED BY <1>1, <1>3, <1>5, <1>8, <2>1 DEF DispatchTypeOK, WorldMoves
<1>10. \A j \in DOMAIN inbox' : RequestRelies(j)'
  <2>1. inbox[k].from = d /\ (disp'[d] = disp[d] \/ inbox[k].live)
    BY <1>2, <1>8
  <2> QED BY <1>1, <1>3, <1>5, <1>8, <1>9, <2>1, LineKept
<1>11. \A c \in Dispatches : DispatchRelies(c)'
  <2>1. ASSUME NEW c \in Dispatches, c # d
        PROVE  DispatchRelies(c)'
    <3>1. Home # c /\ NoEvent # EventOf[c] /\ EventOf[d] # EventOf[c] /\ disp'[c] = disp[c]
      BY <1>8, <2>1, DispatchAssumption, EventsAssumption
    <3>2. o # c /\ e # EventOf[c]
      BY <1>2, <1>4, <2>1, <3>1 DEF Moved
    <3> QED BY <1>5, <3>1, <3>2, StillRelies
  <2>2. CASE ~q.live
    <3>1. ~At(d, "rolledback") /\ disp'[d] = disp[d]
      BY <1>1, <1>2, <1>6, <2>2 DEF RequestRelies, At
    <3>2. DispatchRelies(d)'
      BY <1>5, <3>1, StillRelies
    <3> QED BY <2>1, <3>2
  <2> QED BY <1>7, <2>1, <2>2
<1>12. QueuesAreCommitted'
  <2>1. \A c \in Dispatches : disp[c].committed => disp'[c].committed
    BY <1>8
  <2>2. ASSUME o \in Dispatches
        PROVE  disp[o].committed /\ \A n \in ns : \E j \in DOMAIN QueuesOf[o] : n = Npc(o, j)
    <3>1. o = d /\ q.step = "commit" /\ ns = {Npc(d, q.k)}
      BY <1>2, <1>4, <2>2, DispatchAssumption DEF Moved
    <3> QED BY <1>1, <1>2, <1>3, <3>1 DEF RequestRelies
  <2> QED BY <1>5, <2>1, <2>2, QueuesKept
<1> QED BY <1>9, <1>10, <1>11, <1>12 DEF DispatchInv

LEMMA OtherStep ==
    ASSUME DispatchInv, Other
    PROVE  DispatchInv'
<1>1. home \in Homes /\ queue \in [Npcs -> Queues] /\ home.gen \in Nat
  BY DEF DispatchInv, DispatchTypeOK, Homes
<1>2. UNCHANGED <<disp, inbox>> /\ others' \in 0..MaxOthers
  BY DispatchAssumption DEF Other, DispatchInv, DispatchTypeOK
<1>3. /\ \A c \in Dispatches : EventOf[c] \in Events /\ EventOf[c] \notin OtherEvents
      /\ Others \in Owners /\ NoEvent \notin Events /\ OtherEvents \subseteq Events
  BY DispatchAssumption, EventsAssumption
<1>4. PICK ok \in BOOLEAN :
          \/ \E e \in OtherEvents : StartEvent(e, home.gen, ok)
          \/ ResetEvent(home.gen, ok)
          \/ \E n \in Npcs : QueueCommand(n, home.gen, Others, ok)
          \/ \E n \in Npcs : CancelCommand(n, home.gen, ok)
          \/ ok /\ Command
  BY DEF Other
<1>5. ASSUME NEW e \in OtherEvents, StartEvent(e, home.gen, ok)
      PROVE  DispatchInv'
  <2>1. WorldMoves(Home, {}, e)
    BY <1>1, <1>3, <1>5, StartMoves
  <2>2. e \notin {EventOf[c] : c \in Dispatches}
    BY <1>3, <1>5
  <2> QED BY <1>2, <2>1, <2>2, HomeStep
<1>6. NoEvent \notin {EventOf[c] : c \in Dispatches}
  BY <1>3
<1>7. CASE ResetEvent(home.gen, ok)
  <2>1. WorldMoves(Home, {}, NoEvent)
    BY <1>1, <1>7, ResetMoves
  <2> QED BY <1>2, <1>6, <2>1, HomeStep
<1>8. ASSUME NEW n \in Npcs, QueueCommand(n, home.gen, Others, ok)
      PROVE  DispatchInv'
  <2>1. WorldMoves(Others, {n}, NoEvent)
    BY <1>1, <1>3, <1>8, QueueMoves
  <2> QED BY <1>2, <1>6, <2>1, HomeStep
<1>9. ASSUME NEW n \in Npcs, CancelCommand(n, home.gen, ok)
      PROVE  DispatchInv'
  <2>1. WorldMoves(Home, {}, NoEvent)
    BY <1>1, <1>9, CancelMoves
  <2> QED BY <1>2, <1>6, <2>1, HomeStep
<1>10. CASE Command
  <2>1. WorldMoves(Home, {}, NoEvent)
    BY <1>1, <1>10, WorldStepMoves
  <2> QED BY <1>2, <1>6, <2>1, HomeStep
<1> QED BY <1>4, <1>5, <1>7, <1>8, <1>9, <1>10

LEMMA WorldStep ==
    ASSUME DispatchInv, World
    PROVE  DispatchInv'
<1>1. home \in Homes /\ queue \in [Npcs -> Queues] /\ others \in 0..MaxOthers
  BY DEF DispatchInv, DispatchTypeOK
<1>2. NoEvent \notin {EventOf[c] : c \in Dispatches}
  BY DispatchAssumption, EventsAssumption
<1>3. WorldMoves(Home, {}, NoEvent)
  BY <1>1, WorldStepMoves DEF World
<1> QED BY <1>1, <1>2, <1>3, HomeStep DEF World

LEMMA InitDispatchInv == Init => DispatchInv
<1> SUFFICES ASSUME Init  PROVE DispatchInv
  OBVIOUS
<1>1. home \in Homes /\ home.gen = 0
  BY DEF Init, OverlayInit, Homes, Statuses
<1>2. queue \in [Npcs -> Queues] /\ \A n \in Npcs : queue[n].owner = Home
  BY EventsAssumption DEF Init, OverlayInit, Queues, QueueStates
<1>3. /\ disp \in [Dispatches -> Records]
      /\ \A d \in Dispatches : disp[d].at = "probe" /\ disp[d].k = 1 /\ disp[d].gen = 0
  <2>1. 1 \in Nat \ {0} /\ 0 \in Nat /\ "probe" \in Steps
    BY DEF Steps, Probing
  <2> QED BY <2>1 DEF Init, Records
<1>4. inbox \in Seq(Requests) /\ DOMAIN inbox = {} /\ others \in 0..MaxOthers
  BY DispatchAssumption DEF Init
<1>5. \A d \in Dispatches : DispatchRelies(d)
  BY <1>1, <1>3, QueueLists DEF DispatchRelies, At
<1>6. QueuesAreCommitted
  BY <1>2, DispatchAssumption DEF QueuesAreCommitted
<1> QED BY <1>1, <1>2, <1>3, <1>4, <1>5, <1>6 DEF DispatchInv, DispatchTypeOK

\* What a request and a dispatch rely on holds, whatever times out, is carried
\* out late or is done by others.
THEOREM DispatchInvariant == Spec => []DispatchInv
<1>1. DispatchInv /\ [Next]_vars => DispatchInv'
  <2> SUFFICES ASSUME DispatchInv, [Next]_vars  PROVE DispatchInv'
    OBVIOUS
  <2>1. CASE UNCHANGED vars
    BY <2>1 DEF vars, DispatchInv, DispatchTypeOK, RequestRelies, DispatchRelies,
                QueuesAreCommitted, At, Quiet
  <2> QED BY <2>1, SendStep, HandleStep, TimeOutStep, OtherStep, WorldStep DEF Next
<1> QED BY <1>1, InitDispatchInv, PTL DEF Spec

\* Every reachable state is well typed.
THEOREM DispatchIsTyped == Spec => []DispatchTypeOK
<1>1. DispatchInv => DispatchTypeOK
  BY DEF DispatchInv
<1> QED BY <1>1, DispatchInvariant, PTL

\* "Prove rollback to inactive": nothing of a dispatch that rolled back is
\* left, and nothing of it still to come.
THEOREM RollbacksLeaveNothing == Spec => []RollbackLeavesNothing
<1>1. DispatchInv => RollbackLeavesNothing
  <2> SUFFICES ASSUME DispatchInv, NEW d \in Dispatches, At(d, "rolledback")
               PROVE  /\ home.active # EventOf[d]
                      /\ \A n \in Npcs : queue[n].owner = d => queue[n].st # "running"
                      /\ \A k \in DOMAIN inbox : inbox[k].from # d
    BY DEF RollbackLeavesNothing
  <2>1. home.active # EventOf[d] /\ Quiet(d)
    BY DEF DispatchInv, DispatchRelies
  <2>2. ASSUME NEW k \in DOMAIN inbox, inbox[k].from = d
        PROVE  FALSE
    <3>1. RequestRelies(k) /\ inbox[k] \in Requests
      BY DEF DispatchInv, DispatchTypeOK
    <3>2. inbox[k].step \notin Over
      BY <3>1 DEF Requests
    <3> QED BY <2>2, <3>1, <3>2 DEF RequestRelies, At, Over
  <2> QED BY <2>1, <2>2 DEF Quiet
<1> QED BY <1>1, DispatchInvariant, PTL

-------------------------------------------------------------------------------
(***************************************************************************)
(* What a step may do: no rollback takes away an event of another, and a   *)
(* dispatch is drained only over its own event.                            *)
(***************************************************************************)

\* Only a reset takes an active event away.
LEMMA StartsTakeNothing ==
    ASSUME home \in Homes, NEW e \in Events, NEW g, NEW ok, StartEvent(e, g, ok),
           home.active # NoEvent
    PROVE  home' = home
BY DEF StartEvent, Refused, MayStart

LEMMA CommandsKeepTheEvent ==
    ASSUME home \in Homes, NEW n \in Npcs, NEW g, NEW o, NEW ok,
           QueueCommand(n, g, o, ok) \/ CancelCommand(n, g, ok)
    PROVE  home'.active = home.active
BY DEF QueueCommand, CancelCommand, Refused, Homes

LEMMA RequestsTakeTheirEvent ==
    ASSUME DispatchInv, NEW e \in Events, NEW k \in DOMAIN inbox, Handle(k),
           home.active = e, home'.active # e
    PROVE  EventOf[inbox[1].from] = e
<1>1. DispatchTypeOK /\ k = 1 /\ inbox[k] \in Requests /\ RequestRelies(k)
  BY DEF DispatchInv, DispatchTypeOK, Handle, IsDue
<1>2. PICK q \in Requests, d \in Dispatches : q = inbox[k] /\ q.from = d
  BY <1>1 DEF Requests
<1>3. CarriedOut(q) /\ home \in Homes /\ e # NoEvent /\ Npc(d, q.k) \in Npcs
      /\ EventOf[d] \in Events
  BY <1>1, <1>2, QueueLists, EventsAssumption, DispatchAssumption
     DEF Handle, DispatchTypeOK, RequestRelies
<1>4. CASE Unmoved
  BY <1>4 DEF Unmoved
<1>5. CASE Start(q)
  BY <1>2, <1>3, <1>5, StartsTakeNothing DEF Start
<1>6. CASE CommitQueue(q) \/ CancelQueue(q)
  BY <1>2, <1>3, <1>6, CommandsKeepTheEvent DEF CommitQueue, CancelQueue
<1>7. CASE q.step = "rreset" /\ Reset(q)
  <2>1. PICK ok \in BOOLEAN : ResetEvent(q.gen, ok)
    BY <1>7 DEF Reset
  <2>2. ~Refused(ok)
    BY DEF Refused
  <2>3. q.gen = home.gen
    BY <2>1, <2>2 DEF ResetEvent, MayReset, GenerationAllows
  <2> QED BY <1>1, <1>2, <1>7, <2>3 DEF RequestRelies
<1> QED BY <1>3, <1>4, <1>5, <1>6, <1>7
        DEF CarriedOut, Probe, Preflight, Drain, LookBack, LookAtNpc, LookAgain, LastLook

\* "Refusing to reset a different active event": whatever comes between the
\* look and the reset, an active event is taken away only by its own dispatch
\* or by another client.
THEOREM RollbacksResetTheirOwn == Spec => ResetsOnlyItsEvent
<1>1. DispatchInv /\ [Next]_vars
        => [\A e \in Events :
              (home.active = e /\ home'.active # e)
                  => \/ inbox' = inbox
                     \/ EventOf[inbox[1].from] = e]_vars
  <2> SUFFICES ASSUME DispatchInv, Next, NEW e \in Events, home.active = e, home'.active # e
               PROVE  inbox' = inbox \/ EventOf[inbox[1].from] = e
    BY DEF vars
  <2>1. ASSUME NEW k \in DOMAIN inbox, Handle(k)
        PROVE  EventOf[inbox[1].from] = e
    BY <2>1, RequestsTakeTheirEvent
  <2>2. (Other \/ World) => inbox' = inbox
    BY DEF Other, World
  <2>3. ASSUME \/ \E d \in Dispatches : Send(d)
               \/ \E k \in DOMAIN inbox : TimeOut(k)
        PROVE  FALSE
    BY <2>3 DEF Send, TimeOut
  <2> QED BY <2>1, <2>2, <2>3 DEF Next
<1> QED BY <1>1, DispatchInvariant, PTL DEF Spec, ResetsOnlyItsEvent

\* The answer that ends the drain is the poll of the last queue.
LEMMA DrainsOverItsEvent ==
    ASSUME NEW q, NEW d, Heard(q, d), At(d, "drain"), Drain(q), disp'[d].at = "drained"
    PROVE  /\ home.active = EventOf[d]
           /\ \A k \in DOMAIN QueuesOf[d] : queue[Npc(d, k)] = [owner |-> d, st |-> "done"]
<1>1. d \in Dispatches /\ DispatchTypeOK /\ "drained" \in Steps /\ q.from = d /\ q.live
      /\ disp[d].k \in DOMAIN QueuesOf[d] /\ q.k = disp[d].k /\ q.gen = disp[d].gen
      /\ DispatchRelies(d) /\ disp[d] \in Records
  BY HeardFacts DEF Steps, Over, Heard
<1>2. PICK r \in Records : /\ r = GoesOn(d, "drained") /\ r.committed = disp[d].committed
                           /\ \/ r.at = "drain"
                              \/ r.at = "drained" /\ disp[d].k = Len(QueuesOf[d])
  BY <1>1, GoesOnRecord DEF At
<1>3. CASE /\ IsPolled(q) /\ Answer(q, r)
           /\ queue[Npc(d, q.k)].owner = d /\ queue[Npc(d, q.k)].st = "done"
  <2>1. disp'[d] = r
    BY <1>2, <1>3, TakesAnswer
  <2>2. disp[d].k = Len(QueuesOf[d]) /\ home.active = EventOf[d] /\ home.gen = disp[d].gen
    BY <1>1, <1>2, <1>3, <2>1 DEF IsPolled
  <2>3. \A i \in 1..(disp[d].k - 1) : queue[Npc(d, i)] = [owner |-> d, st |-> "done"]
    BY <1>1, <2>2 DEF DispatchRelies, At
  <2>4. queue[Npc(d, disp[d].k)] = [owner |-> d, st |-> "done"]
    <3>1. queue[Npc(d, disp[d].k)] \in Queues
      BY <1>1, QueueLists DEF DispatchTypeOK
    <3> QED BY <1>1, <1>3, <3>1 DEF Queues
  <2>5. DOMAIN QueuesOf[d] = 1..disp[d].k /\ disp[d].k \in Nat
    BY <1>1, <2>2, QueueLists
  <2> QED BY <2>2, <2>3, <2>4, <2>5
<1>4. CASE Answer(q, [disp[d] EXCEPT !.waits = FALSE])
  <2>1. PICK t \in Records : t = [disp[d] EXCEPT !.waits = FALSE]
    BY <1>1 DEF Records
  <2>2. t.at = "drain" /\ t.committed = disp[d].committed
    BY <1>1, <2>1 DEF Records, At
  <2>3. disp'[d] = t
    <3>1. t.committed = disp[d].committed /\ Answer(q, t)
      BY <1>4, <2>1, <2>2
    <3> QED BY <3>1, TakesAnswer
  <2> QED BY <2>2, <2>3
<1>5. CASE Answer(q, Fails(d))
  <2>1. PICK t \in Records : /\ t = Fails(d) /\ t.committed = disp[d].committed
                             /\ t.at \in {"failed", "rstatus", "stuck"}
    BY <1>1, FailsRecord
  <2>2. disp'[d] = t
    BY <1>5, <2>1, TakesAnswer
  <2> QED BY <2>1, <2>2
<1> QED BY <1>1, <1>2, <1>3, <1>4, <1>5 DEF Drain

\* "terminal_drained" is said of an event that is active, with every queue of
\* the dispatch done in its name.
THEOREM DrainsAreDone == Spec => DrainedMeansDone
<1>1. DispatchInv /\ [Next]_vars
        => [\A d \in Dispatches :
              (At(d, "drain") /\ disp'[d].at = "drained")
                  => /\ home.active = EventOf[d]
                     /\ \A k \in DOMAIN QueuesOf[d] :
                           queue[Npc(d, k)] = [owner |-> d, st |-> "done"]]_vars
  <2> SUFFICES ASSUME DispatchInv, Next, NEW d \in Dispatches,
                      At(d, "drain"), disp'[d].at = "drained"
               PROVE  /\ home.active = EventOf[d]
                      /\ \A k \in DOMAIN QueuesOf[d] :
                            queue[Npc(d, k)] = [owner |-> d, st |-> "done"]
    BY DEF vars
  <2>1. DispatchTypeOK /\ disp \in [Dispatches -> Records] /\ disp'[d] # disp[d]
    BY DEF DispatchInv, DispatchTypeOK, At
  <2>2. ASSUME NEW c \in Dispatches, Send(c)
        PROVE  FALSE
    <3>1. disp' = [disp EXCEPT ![c].waits = TRUE, ![c].committed = MayHaveCommitted(c)]
      BY <2>2 DEF Send
    <3>2. disp'[d].at = disp[d].at
      BY <2>1, <3>1 DEF Records
    <3> QED BY <3>2 DEF At
  <2>3. ASSUME NEW k \in DOMAIN inbox, TimeOut(k)
        PROVE  FALSE
    <3>a. inbox[k] \in Requests
      BY <2>1 DEF DispatchTypeOK
    <3>1. PICK q \in Requests, c \in Dispatches : q = inbox[k] /\ q.from = c
      BY <3>a DEF Requests
    <3>2. disp' = [disp EXCEPT ![c] = Fails(c)]
      BY <2>3, <3>1 DEF TimeOut
    <3>3. Fails(c).at \in {"failed", "rstatus", "stuck"}
      BY <2>1, FailsRecord
    <3> QED BY <2>1, <3>2, <3>3
  <2>4. ASSUME NEW k \in DOMAIN inbox, Handle(k)
        PROVE  /\ home.active = EventOf[d]
               /\ \A j \in DOMAIN QueuesOf[d] :
                     queue[Npc(d, j)] = [owner |-> d, st |-> "done"]
    <3>1. k = 1 /\ RequestRelies(k) /\ inbox[k] \in Requests
      BY <2>1, <2>4 DEF DispatchInv, DispatchTypeOK, Handle, IsDue
    <3>2. PICK q \in Requests, c \in Dispatches : q = inbox[k] /\ q.from = c
      BY <3>1 DEF Requests
    <3>3. CarriedOut(q) /\ q.k \in DOMAIN QueuesOf[c]
      BY <2>4, <3>1, <3>2 DEF Handle, RequestRelies
    <3>4. q.live /\ c = d
      <4>1. \E r : Answer(q, r)
        BY <3>3 DEF CarriedOut, Probe, Preflight, Start, CommitQueue, Drain, LookBack,
                    CancelQueue, LookAtNpc, LookAgain, Reset, LastLook, Receipt
      <4> QED BY <2>1, <3>2, <4>1 DEF Answer
    <3>5. q.step = disp[d].at /\ q.k = disp[d].k /\ q.gen = disp[d].gen
      BY <3>1, <3>2, <3>4 DEF RequestRelies
    <3>6. PICK o, ns, e : Moved(q, o, ns, e)
      BY <2>1, <3>2, <3>3, CarriedOutMoves
    <3>7. Heard(q, d)
      BY <3>2, <3>4, <3>5, <3>6 DEF Heard, Moved, WorldMoves
    <3>8. Drain(q)
      BY <3>3, <3>5 DEF CarriedOut, At
    <3> QED BY <3>7, <3>8, DrainsOverItsEvent
  <2>5. ~(Other \/ World)
    BY <2>1 DEF Other, World
  <2> QED BY <2>2, <2>3, <2>4, <2>5 DEF Next
<1> QED BY <1>1, DispatchInvariant, PTL DEF Spec, DrainedMeansDone

-------------------------------------------------------------------------------
(***************************************************************************)
(* The baseline.                                                           *)
(***************************************************************************)

LEMMA StartKeepsOverlay ==
    ASSUME home \in Homes, OverlayInv, NEW e \in Events, NEW g, NEW ok \in BOOLEAN,
           StartEvent(e, g, ok)
    PROVE  OverlayInv'
<1>1. CASE Refused(ok)
  BY <1>1 DEF Refused, OverlayInv, InactiveMeansRestored
<1>2. CASE MayStart(g) /\ CaptureFails(ok)
  <2>1. /\ home'.active = NoEvent /\ home'.kept = FALSE /\ home'.status = "failed"
    BY <1>2 DEF MayStart, CaptureFails, Homes
  <2> QED BY <2>1 DEF OverlayInv, InactiveMeansRestored
<1>3. CASE ~Refused(ok) /\ ~(MayStart(g) /\ CaptureFails(ok))
  <2>1. MayStart(g) /\ (OperationFails(e, ok) \/ UndoFails(e, ok) \/ Starts(e, ok))
    BY <1>3 DEF StartEvent
  <2>2. PICK c \in Homes : /\ c = Captured /\ c.kept = TRUE /\ c.active = NoEvent
                           /\ c.found = home.overlay
                           /\ c.tainted = (home.tainted \/ home.overlay # {})
    <3>1. PICK found \in SUBSET Events, t \in BOOLEAN :
             found = home.overlay /\ t = (home.tainted \/ home.overlay # {})
      BY DEF Homes
    <3>2. Captured = [home EXCEPT !.kept = TRUE, !.found = found, !.modified = {}, !.tainted = t]
      BY <3>1 DEF Captured, Homes
    <3>3. PICK c : c = [home EXCEPT !.kept = TRUE, !.found = found, !.modified = {},
                                    !.tainted = t]
      OBVIOUS
    <3>4. c \in Homes /\ c.kept = TRUE /\ c.active = home.active /\ c.found = found /\ c.tainted = t
      BY <3>3 DEF Homes
    <3> QED BY <2>1, <3>1, <3>2, <3>3, <3>4 DEF MayStart
  <2>3. CASE OperationFails(e, ok)
    <3>1. home'.active = NoEvent /\ home'.kept = FALSE /\ home'.status = "failed"
      BY <2>2, <2>3 DEF OperationFails, Undone, Homes
    <3> QED BY <3>1 DEF OverlayInv, InactiveMeansRestored
  <2>4. CASE UndoFails(e, ok)
    <3>1. PICK ns : home' = [Captured EXCEPT !.status = "failed", !.overlay = @ \cup {e},
                                             !.modified = ns]
      BY <2>4 DEF UndoFails
    <3>2. /\ home'.active = NoEvent /\ home'.status = "failed"
          /\ home'.found = c.found /\ home'.tainted = c.tainted
      BY <2>2, <3>1 DEF Homes
    <3> QED BY <2>2, <3>2 DEF OverlayInv, InactiveMeansRestored
  <2>5. CASE Starts(e, ok)
    <3>1. PICK s \in {"active", "succeeded", "failed"} :
             home' = [Captured EXCEPT !.active = e, !.status = s, !.gen = @ + 1,
                                      !.overlay = @ \cup {e}, !.modified = EventNpcs[e]]
      BY <2>5 DEF Starts
    <3>2. /\ home'.status = s /\ home'.kept = TRUE
          /\ home'.found = c.found /\ home'.tainted = c.tainted
      BY <2>2, <3>1 DEF Homes
    <3> QED BY <2>2, <3>2 DEF OverlayInv, InactiveMeansRestored
  <2> QED BY <2>1, <2>3, <2>4, <2>5
<1> QED BY <1>1, <1>2, <1>3

LEMMA ResetKeepsOverlay ==
    ASSUME home \in Homes, OverlayInv, NEW g, NEW ok \in BOOLEAN, ResetEvent(g, ok)
    PROVE  OverlayInv'
<1>1. CASE Refused(ok)
  BY <1>1 DEF Refused, OverlayInv, InactiveMeansRestored
<1>2. CASE RestoreFails(ok)
  <2>1. /\ home'.status = "failed" /\ home'.active = home.active /\ home'.kept = home.kept
        /\ home'.tainted = home.tainted /\ home'.found = home.found
    BY <1>2 DEF RestoreFails, FailedRestore, Homes
  <2> QED BY <2>1 DEF OverlayInv, InactiveMeansRestored
<1>3. CASE MayReset(g) /\ Restores(ok)
  <2>1. PICK found \in SUBSET Events : found = home.found
    BY DEF Homes
  <2>2. home' = [home EXCEPT !.status = "inactive", !.active = NoEvent, !.kept = FALSE,
                             !.overlay = found, !.modified = {}, !.gen = @ + 1]
    BY <1>3, <2>1 DEF Restores
  <2>3. /\ home'.active = NoEvent /\ home'.kept = FALSE /\ home'.overlay = found
        /\ home'.tainted = home.tainted
    BY <2>2 DEF Homes
  <2>4. home.kept
    BY <1>3 DEF MayReset, OverlayInv
  <2> QED BY <2>1, <2>3, <2>4 DEF OverlayInv, InactiveMeansRestored
<1> QED BY <1>1, <1>2, <1>3 DEF ResetEvent

\* A command takes the generation further, and leaves the baseline alone.
LEMMA CommandsKeepOverlay ==
    ASSUME home \in Homes, OverlayInv, NEW n, NEW ok, NEW g, NEW o,
           Command \/ QueueCommand(n, g, o, ok) \/ CancelCommand(n, g, ok)
    PROVE  OverlayInv'
<1>1. CASE home' = home
  BY <1>1 DEF OverlayInv, InactiveMeansRestored
<1>2. CASE home' = [home EXCEPT !.gen = @ + 1]
  <2>1. /\ home'.status = home.status /\ home'.active = home.active /\ home'.kept = home.kept
        /\ home'.tainted = home.tainted /\ home'.found = home.found
        /\ home'.overlay = home.overlay
    BY <1>2 DEF Homes
  <2> QED BY <2>1 DEF OverlayInv, InactiveMeansRestored
<1> QED BY <1>1, <1>2 DEF Command, QueueCommand, CancelCommand, Refused

LEMMA WorldKeepsOverlay ==
    ASSUME home \in Homes, OverlayInv, Unmoved \/ Tick \/ \E n \in Npcs : QueueEnds(n)
    PROVE  OverlayInv'
<1>1. CASE home' = home
  BY <1>1 DEF OverlayInv, InactiveMeansRestored
<1>2. CASE Tick
  <2>1. PICK s \in {"succeeded", "failed", "timed_out"} : home' = [home EXCEPT !.status = s]
    BY <1>2 DEF Tick
  <2>2. /\ home'.status = s /\ home'.active = home.active /\ home'.kept = home.kept
        /\ home'.tainted = home.tainted /\ home'.found = home.found
    BY <2>1 DEF Homes
  <2> QED BY <2>2 DEF OverlayInv, InactiveMeansRestored
<1> QED BY <1>1, <1>2 DEF Unmoved, QueueEnds

\* An inactive home has no effect of an event in it, unless one was laid over
\* what an earlier one had left.
THEOREM InactiveHomesAreRestored == Spec => []InactiveMeansRestored
<1>1. Init => OverlayInv
  BY DEF Init, OverlayInit, OverlayInv, InactiveMeansRestored
<1>2. OverlayInv /\ DispatchTypeOK /\ [Next]_vars => OverlayInv'
  <2> SUFFICES ASSUME OverlayInv, DispatchTypeOK, [Next]_vars  PROVE OverlayInv'
    OBVIOUS
  <2>1. home \in Homes
    BY DEF DispatchTypeOK
  <2>2. CASE Unmoved
    BY <2>1, <2>2, WorldKeepsOverlay
  <2>3. ASSUME NEW k \in DOMAIN inbox, Handle(k)
        PROVE  OverlayInv'
    <3>1. PICK q \in Requests : q = inbox[k]
      <4>1. inbox[k] \in Requests
        BY DEF DispatchTypeOK
      <4> QED BY <4>1
    <3>2. CarriedOut(q) /\ EventOf[q.from] \in Events
      BY <2>3, <3>1, DispatchAssumption DEF Handle, Requests
    <3>3. CASE Start(q)
      BY <2>1, <3>2, <3>3, StartKeepsOverlay DEF Start
    <3>4. CASE Reset(q)
      BY <2>1, <3>4, ResetKeepsOverlay DEF Reset
    <3>5. CASE CommitQueue(q) \/ CancelQueue(q)
      BY <2>1, <3>5, CommandsKeepOverlay DEF CommitQueue, CancelQueue
    <3> QED BY <2>2, <3>2, <3>3, <3>4, <3>5
            DEF CarriedOut, Probe, Preflight, Drain, LookBack, LookAtNpc, LookAgain, LastLook
  <2>4. CASE Other
    <3>1. OtherEvents \subseteq Events
      BY DispatchAssumption
    <3> QED BY <2>1, <2>4, <3>1, StartKeepsOverlay, ResetKeepsOverlay, CommandsKeepOverlay
           DEF Other
  <2>5. CASE World
    BY <2>1, <2>5, WorldKeepsOverlay DEF World
  <2> QED BY <2>2, <2>3, <2>4, <2>5 DEF Next, Send, TimeOut, Unmoved, vars
<1>3. OverlayInv => InactiveMeansRestored
  BY DEF OverlayInv
<1> QED BY <1>1, <1>2, <1>3, DispatchIsTyped, PTL DEF Spec
==============================================================================
