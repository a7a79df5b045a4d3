---------------------------- MODULE NpcQueueProofs ----------------------------
(***************************************************************************)
(* What a controller guarantees for every set of NPCs, actions and queues, *)
(* whatever ids they share: types, an idle that stands still, walks that   *)
(* end with their navigation, successes with a reason, final cancels and   *)
(* an executor that runs nothing the queue has left.                       *)
(***************************************************************************)
EXTENDS NpcQueue, CommandLedgerProofs

-------------------------------------------------------------------------------
(***************************************************************************)
(* The operators on controllers return controllers.                        *)
(***************************************************************************)

LEMMA IdledIsTyped ==
    ASSUME NEW v \in Controllers
    PROVE  /\ Stopped(v) \in Controllers
           /\ Idled(v) \in Controllers
           /\ \A q \in Seq(QueueActions) : [v EXCEPT !.queue = q] \in Controllers
BY DEF Stopped, Idled, Controllers, MoveIds

LEMMA CompletedIsTyped ==
    ASSUME NEW v \in Controllers, NEW s \in Finals
    PROVE  Completed(v, s) \in Controllers
BY DEF Completed, Controllers, MoveIds

LEMMA CompletedFields ==
    ASSUME NEW v \in Controllers, NEW s
    PROVE  /\ Completed(v, s).last = s
           /\ Completed(v, s).elapsed = v.elapsed
BY DEF Completed, Controllers

LEMMA ClipStoppedIsTyped ==
    ASSUME NEW v \in Controllers
    PROVE  /\ ClipStopped(v) \in Controllers
           /\ \A clip \in Clips : [v EXCEPT !.clip = clip] \in Controllers
           /\ \A s \in ClipFinals : Playing(v) => [v EXCEPT !.clip.status = s] \in Controllers
<1>1. \A clip \in Clips : [v EXCEPT !.clip = clip] \in Controllers
  BY DEF Controllers
<1>2. ASSUME NEW s \in ClipFinals, Playing(v)
      PROVE  [v EXCEPT !.clip.status = s] \in Controllers
  <2>1. v.clip \in Clips
    BY <1>2 DEF Playing, Controllers
  <2>2. [v.clip EXCEPT !.status = s] \in Clips
    BY <2>1 DEF Clips
  <2> QED BY <1>1, <2>2
<1> QED BY <1>1, <1>2 DEF ClipStopped, ClipFinals

LEMMA StartedIsTyped ==
    ASSUME NEW v \in Controllers, v.queue # <<>>
    PROVE  /\ Started(v) \in Controllers
           /\ Started(v).current = Head(v.queue) /\ Head(v.queue) \in QueueActions
<1>1. Head(v.queue) \in QueueActions /\ Tail(v.queue) \in Seq(QueueActions)
  BY DEF Controllers
<1>2. 0 \in 0..MaxElapsed
  BY TimeAssumption
<1>3. \A a \in QueueActions, q \in Seq(QueueActions) :
        LET w == [v EXCEPT !.current = a, !.queue = q, !.status = "Running", !.elapsed = 0]
        IN  w \in Controllers /\ w.current = a
  BY <1>2 DEF Controllers
<1> QED BY <1>1, <1>3 DEF Started

LEMMA LaterIsTyped ==
    ASSUME NEW v \in Controllers, NEW d \in Frames
    PROVE  Later(v, d) \in Controllers
<1>1. d \in Nat /\ MaxElapsed \in Nat /\ v.elapsed \in 0..MaxElapsed
  BY TimeAssumption DEF Controllers
<1>2. (IF v.elapsed + d > MaxElapsed THEN MaxElapsed ELSE v.elapsed + d) \in 0..MaxElapsed
  BY <1>1
<1> QED BY <1>2 DEF Later, Controllers

-------------------------------------------------------------------------------
(***************************************************************************)
(* The invariant of one controller: an idle one is clean, and a known path *)
(* following request is that of the current navigation and the one that    *)
(* the pawn walks for.  A pawn may walk for no known request: a clip with  *)
(* the id of a navigation ends the action and not the walk.                *)
(***************************************************************************)

MotionOK(v) ==
    /\ v.status = "Idle" => v.current = NoQueueAction /\ v.nav = 0 /\ v.moving = 0
    /\ v.nav # 0 => /\ v.current # NoQueueAction
                    /\ v.current.kind = "Navigate"
                    /\ v.nav = v.moving

Fine(v) == v \in Controllers /\ MotionOK(v)

\* Between two actions, and not moving.
Rests(v) == v \in Controllers /\ v.current = NoQueueAction /\ v.moving = 0

LEMMA StoppedFields ==
    ASSUME NEW v \in Controllers
    PROVE  /\ Stopped(v) \in Controllers /\ Stopped(v).moving = 0
           /\ Stopped(v).current = v.current /\ Stopped(v).nav = v.nav
           /\ Stopped(v).status = v.status /\ Stopped(v).last = v.last
<1>1. Stopped(v) \in Controllers
  BY IdledIsTyped
<1> QED BY <1>1 DEF Stopped, Controllers

LEMMA CompletedIsFine ==
    ASSUME NEW v \in Controllers, NEW s \in Finals
    PROVE  Fine(Completed(v, s)) /\ (v.moving = 0 => Rests(Completed(v, s)))
<1> DEFINE w == Completed(v, s)
<1>1. w \in Controllers
  BY CompletedIsTyped
<1>2. w.status = s /\ w.nav = 0 /\ w.current = NoQueueAction /\ w.moving = v.moving
  BY DEF Completed, Controllers
<1>3. s # "Idle"
  BY DEF Finals
<1> HIDE DEF w
<1> QED BY <1>1, <1>2, <1>3 DEF w, Fine, Rests, MotionOK

LEMMA IdledIsFine ==
    ASSUME NEW v, Rests(v), NEW q \in Seq(QueueActions)
    PROVE  /\ Fine(Idled([v EXCEPT !.queue = q])) /\ Fine(Idled(v))
           /\ Rests([v EXCEPT !.queue = q])
<1>1. \A w : Rests(w) => Fine(Idled(w))
  <2> SUFFICES ASSUME NEW w, Rests(w) PROVE Fine(Idled(w))
    OBVIOUS
  <2>1. /\ Idled(w) \in Controllers
        /\ Idled(w).status = "Idle" /\ Idled(w).nav = 0
        /\ Idled(w).moving = w.moving /\ Idled(w).current = w.current
    BY IdledIsTyped DEF Rests, Idled, Controllers
  <2> QED BY <2>1 DEF Rests, Fine, MotionOK
<1>2. Rests([v EXCEPT !.queue = q])
  BY DEF Rests, Controllers
<1> QED BY <1>1, <1>2

LEMMA ClipStoppedKeeps ==
    ASSUME NEW v \in Controllers, Playing(v), NEW s \in ClipFinals
    PROVE  LET w == [v EXCEPT !.clip.status = s] IN
           /\ w \in Controllers
           /\ w.current = v.current /\ w.status = v.status
           /\ w.nav = v.nav /\ w.moving = v.moving
<1>1. [v EXCEPT !.clip.status = s] \in Controllers
  BY ClipStoppedIsTyped
<1> QED BY <1>1 DEF Controllers

\* Ending or stopping a clip leaves the motion alone.
LEMMA ClipEndsFine ==
    ASSUME NEW v, Fine(v)
    PROVE  /\ \A s \in ClipFinals : Playing(v) => Fine([v EXCEPT !.clip.status = s])
           /\ Fine(ClipStopped(v))
<1>1. \A s \in ClipFinals : Playing(v) => Fine([v EXCEPT !.clip.status = s])
  BY ClipStoppedKeeps DEF Fine, MotionOK
<1> QED BY <1>1 DEF ClipStopped, ClipFinals

\* What CancelActionQueue makes of a controller, whatever a listener did.
LEMMA CanceledRests ==
    ASSUME NEW v, Fine(v), NEW w \in Canceled(v)
    PROVE  /\ Fine(w) /\ w.queue = <<>> /\ w.current = NoQueueAction /\ w.status = "Idle"
           /\ \A q \in Queues : Fine([w EXCEPT !.queue = q])
           /\ v.current # NoQueueAction =>
                 w.last = "Canceled" /\ \A q \in Queues : [w EXCEPT !.queue = q].last = "Canceled"
<1> DEFINE u == [v EXCEPT !.queue = <<>>, !.nav = 0]
           t == Stopped(ClipStopped(u))
<1>1. u \in Controllers /\ u.current = v.current
  <2>1. v \in Controllers /\ <<>> \in Seq(QueueActions) /\ 0 \in MoveIds
    BY DEF Fine, MoveIds
  <2> QED BY <2>1 DEF Controllers
<1> HIDE DEF u
<1>2. ClipStopped(u) \in Controllers /\ ClipStopped(u).current = u.current
  BY <1>1, ClipStoppedKeeps DEF ClipStopped, ClipFinals
<1>3. t \in Controllers /\ t.moving = 0 /\ t.current = v.current
  BY <1>1, <1>2, StoppedFields
<1> HIDE DEF t
<1>4. /\ Rests(BeforeBroadcast(v))
      /\ v.current # NoQueueAction => BeforeBroadcast(v).last = "Canceled"
  <2>1. Completed(t, "Canceled").last = "Canceled"
    BY <1>3, CompletedFields
  <2> QED BY <1>3, <2>1, CompletedIsFine DEF BeforeBroadcast, t, u, Rests, Finals
<1>5. \A x : Rests(x) => \A y \in AfterListener(x) : Rests(y) /\ y.last = x.last
  <2> SUFFICES ASSUME NEW x, Rests(x), NEW y \in AfterListener(x)
               PROVE  Rests(y) /\ y.last = x.last
    OBVIOUS
  <2>1. ASSUME NEW a \in QueueActions
        PROVE  Rests(Enqueued(x, a)) /\ Enqueued(x, a).last = x.last
    <3>1. x \in Controllers /\ Append(x.queue, a) \in Seq(QueueActions)
      BY DEF Rests, Controllers
    <3>2. Enqueued(x, a).last = x.last
      BY <3>1 DEF Enqueued, Controllers
    <3> QED BY <3>1, <3>2, IdledIsFine DEF Enqueued
  <2>2. ASSUME NEW q \in Queues
        PROVE  /\ Rests([x EXCEPT !.queue = q, !.status = "Idle"])
               /\ [x EXCEPT !.queue = q, !.status = "Idle"].last = x.last
    <3>1. q \in Seq(QueueActions)
      BY QueuesAssumption
    <3> QED BY <3>1 DEF Rests, Controllers
  <2>3. \/ y = x
        \/ \E a \in QueueActions : y = Enqueued(x, a)
        \/ \E q \in Queues : y = [x EXCEPT !.queue = q, !.status = "Idle"]
    BY DEF AfterListener
  <2>4. CASE y = x
    BY <2>4
  <2>5. CASE \E a \in QueueActions : y = Enqueued(x, a)
    BY <2>1, <2>5
  <2>6. ASSUME NEW q \in Queues, y = [x EXCEPT !.queue = q, !.status = "Idle"]
        PROVE  Rests(y) /\ y.last = x.last
    <3> DEFINE z == [x EXCEPT !.queue = q, !.status = "Idle"]
    <3>1. Rests(z) /\ z.last = x.last
      BY <2>2
    <3> HIDE DEF z
    <3>2. y = z
      BY <2>6 DEF z
    <3> QED BY <3>1, <3>2
  <2> QED BY <2>3, <2>4, <2>5, <2>6
<1>6. \A x \in AfterBroadcast(v) : Rests(x)
  BY <1>4, <1>5 DEF AfterBroadcast
<1>7. v.current # NoQueueAction => \A x \in AfterBroadcast(v) : x.last = "Canceled"
  BY <1>4, <1>5 DEF AfterBroadcast
<1>8. PICK x \in AfterBroadcast(v) : w = Idled([x EXCEPT !.queue = <<>>])
  BY DEF Canceled
<1>9. Rests(x) /\ (v.current # NoQueueAction => x.last = "Canceled")
  BY <1>6, <1>7
<1>10. <<>> \in Seq(QueueActions) /\ Queues \subseteq Seq(QueueActions)
  BY QueuesAssumption
<1>11. Rests([x EXCEPT !.queue = <<>>]) /\ Fine(w)
  BY <1>8, <1>9, <1>10, IdledIsFine
<1>12. w.queue = <<>> /\ w.current = NoQueueAction /\ w.status = "Idle" /\ w.last = x.last
  <2> DEFINE z == [x EXCEPT !.queue = <<>>]
  <2>1. z \in Controllers /\ z.current = NoQueueAction /\ z.queue = <<>> /\ z.last = x.last
    <3>1. x \in Controllers
      BY <1>9 DEF Rests
    <3> QED BY <1>11, <3>1 DEF Rests, Controllers
  <2> HIDE DEF z
  <2> QED BY <1>8, <2>1 DEF z, Idled, Controllers
<1>13. \A q \in Queues : Fine([w EXCEPT !.queue = q]) /\ [w EXCEPT !.queue = q].last = w.last
  BY <1>10, <1>11 DEF Fine, MotionOK, Controllers
<1> QED BY <1>9, <1>11, <1>12, <1>13

-------------------------------------------------------------------------------
(***************************************************************************)
(* The steps.                                                              *)
(***************************************************************************)

LedgerIsMap == ledger \in [CommandIds -> Entries \cup {NoEntry}]

LEMMA EntriesWritten ==
    ASSUME NEW r \in Requests, NEW s \in Statuses, NEW b \in Rollbacks
    PROVE  /\ TerminalEntry(r, s, b) \in Entries
           /\ RunningEntry(r, r.actor) \in Entries
           /\ r.actor \in Executors
BY EntriesAreTyped, RequestsNameExecutors

LEMMA ClaimsKeepTheMap ==
    ASSUME LedgerIsMap, NEW c \in CommandIds, NEW r \in Requests
    PROVE  Accept(c, r) \/ ClaimRejected(c, r) => LedgerIsMap'
<1>1. ASSUME NEW e \in Entries, AddEntry(c, e) PROVE LedgerIsMap'
  BY <1>1 DEF AddEntry, LedgerIsMap
<1>2. "Failed" \in Statuses /\ "None" \in Rollbacks
  BY DEF Statuses, Rollbacks
<1> QED BY <1>1, <1>2, EntriesWritten DEF Accept, ClaimAccepted, ClaimRejected

LEMMA ConclusionsKeepTheMap ==
    ASSUME LedgerIsMap, NEW x \in Executors, NEW c \in CommandIds,
           NEW s \in Statuses, NEW b \in Rollbacks, Conclude(x, c, s, b)
    PROVE  LedgerIsMap'
<1>1. ledger[c] \in Entries /\ ledger[c].request \in Requests
  BY DEF LedgerIsMap, Conclude, Runs, Entries
<1>2. TerminalEntry(ledger[c].request, s, b) \in Entries
  BY <1>1, EntriesWritten
<1>3. [ledger[c] EXCEPT !.status = s, !.rollback = b] \in Entries
  BY <1>1 DEF Entries
<1> QED BY <1>2, <1>3 DEF LedgerIsMap, Conclude, Finalize, PublishProgress

LEMMA ExecutorCanceledKeepsTheMap ==
    ASSUME LedgerIsMap, NEW n \in Npcs, ExecutorCanceled(n)
    PROVE  LedgerIsMap'
<1>1. CASE UNCHANGED ledger
  BY <1>1 DEF LedgerIsMap
<1>2. ASSUME NEW c \in CommandIds, NEW s \in {"Canceled", "Failed"}, Runs(n, c),
             \/ ledger' = [ledger EXCEPT ![c] = TerminalEntry(ledger[c].request, s, "None")]
             \/ ledger' = [ledger EXCEPT ![c].status = s]
      PROVE  LedgerIsMap'
  <2>1. ledger[c] \in Entries /\ ledger[c].request \in Requests
    BY <1>2 DEF LedgerIsMap, Runs, Entries
  <2>2. s \in Statuses /\ "None" \in Rollbacks
    BY DEF Statuses, Rollbacks
  <2>3. TerminalEntry(ledger[c].request, s, "None") \in Entries
    BY <2>1, <2>2, EntriesWritten
  <2>4. [ledger[c] EXCEPT !.status = s] \in Entries
    BY <2>1, <2>2 DEF Entries
  <2> QED BY <1>2, <2>3, <2>4 DEF LedgerIsMap
<1> QED BY <1>1, <1>2 DEF ExecutorCanceled

\* The controller n may have become a fine one.
StaysFine(n) == \E v : Fine(v) /\ Becomes(n, v)

LEMMA StartsAreTyped ==
    ASSUME NEW n \in Npcs, Fine(npc[n]), NEW kind, Starts(n, kind)
    PROVE  LET v == Started(npc[n]) IN
           /\ v \in Controllers /\ v.nav = 0 /\ v.moving = npc[n].moving
           /\ v.status = "Running" /\ v.current \in QueueActions /\ v.current.kind = kind
           /\ Fine(v) /\ \A s \in Finals : Fine(Completed(v, s))
<1> DEFINE v == Started(npc[n])
<1>1. /\ npc[n] \in Controllers /\ npc[n].current = NoQueueAction /\ npc[n].queue # <<>>
      /\ Head(npc[n].queue).kind = kind /\ npc[n].nav = 0
  BY DEF Starts, Fine, MotionOK
<1>2. v \in Controllers /\ v.current \in QueueActions /\ v.current.kind = kind
  BY <1>1, StartedIsTyped
<1>3. v.moving = npc[n].moving /\ v.nav = 0 /\ v.status = "Running"
  BY <1>1 DEF Started, Controllers
<1> HIDE DEF v
<1>4. Fine(v)
  BY <1>1, <1>2, <1>3 DEF Fine, MotionOK
<1>5. \A s \in Finals : Fine(Completed(v, s))
  BY <1>2, CompletedIsFine
<1> QED BY <1>2, <1>3, <1>4, <1>5 DEF v

LEMMA ActionStarts ==
    ASSUME LedgerIsMap, NEW n \in Npcs, Fine(npc[n]),
           \/ StartFails(n) \/ StartPhysical(n) \/ StartAnimate(n)
           \/ StartNavigate(n) \/ StartWait(n) \/ StartInstant(n)
    PROVE  StaysFine(n) /\ LedgerIsMap'
<1> DEFINE v == Started(npc[n])
<1>1. {"Failed", "Succeeded", "Blocked"} \subseteq Finals
  BY DEF Finals
<1>2. UNCHANGED ledgerVars => LedgerIsMap'
  BY DEF ledgerVars, LedgerIsMap
<1>3. CASE StartFails(n)
  BY <1>1, <1>2, <1>3, StartsAreTyped DEF StartFails, StaysFine
<1>4. CASE StartPhysical(n)
  <2>1. Fine(v) /\ v.current \in QueueActions /\ v.current.kind = "Physical"
        /\ Fine(Completed(v, "Failed"))
    BY <1>1, <1>4, StartsAreTyped DEF StartPhysical
  <2>2. v.current.id \in CommandIds /\ RequestOf(n, v.current) \in Requests
    BY <2>1, QueueActionsAssumption
  <2>3. StaysFine(n)
    BY <1>4, <2>1 DEF StartPhysical, StaysFine
  <2>4. LedgerIsMap'
    BY <1>2, <1>4, <2>2, ClaimsKeepTheMap DEF StartPhysical
  <2> QED BY <2>3, <2>4
<1>5. CASE StartAnimate(n)
  <2> DEFINE clip == [id |-> v.current.id, status |-> "Running"]
             w == [v EXCEPT !.clip = clip]
  <2>1. Fine(v) /\ v.current \in QueueActions /\ v.current.kind = "Animate"
        /\ v.nav = 0 /\ v.status = "Running" /\ Fine(Completed(v, "Failed"))
    BY <1>1, <1>5, StartsAreTyped DEF StartAnimate
  <2>2. clip \in Clips
    BY <2>1 DEF Clips, ActionIds
  <2>3. w \in Controllers /\ w.nav = v.nav /\ w.status = v.status
    <3> HIDE DEF v, clip
    <3> QED BY <2>1, <2>2 DEF Fine, Controllers
  <2>4. Fine(w)
    <3> HIDE DEF v, clip, w
    <3> QED BY <2>1, <2>3 DEF Fine, MotionOK
  <2>5. StaysFine(n)
    BY <1>5, <2>1, <2>4 DEF StartAnimate, StaysFine
  <2> QED BY <1>2, <1>5, <2>5 DEF StartAnimate
<1>6. CASE StartNavigate(n)
  <2>1. /\ Fine(v) /\ v.current \in QueueActions /\ v.current.kind = "Navigate"
        /\ v.status = "Running" /\ \A s \in Finals : Fine(Completed(v, s))
    BY <1>6, StartsAreTyped DEF StartNavigate
  <2>2. \A s \in Finals : Fine(Completed(Stopped(v), s))
    BY <2>1, StoppedFields, CompletedIsFine DEF Fine
  <2>3. \A m \in MoveIds : Fine([v EXCEPT !.nav = m, !.moving = m])
    <3> SUFFICES ASSUME NEW m \in MoveIds PROVE Fine([v EXCEPT !.nav = m, !.moving = m])
      OBVIOUS
    <3> DEFINE w == [v EXCEPT !.nav = m, !.moving = m]
    <3>1. /\ w \in Controllers /\ w.nav = m /\ w.moving = m /\ w.status = v.status
          /\ w.current = v.current
      <4> HIDE DEF v
      <4> QED BY <2>1 DEF Fine, Controllers
    <3> HIDE DEF v, w
    <3>2. v.current # NoQueueAction
      BY <2>1, NoQueueActionAssumption
    <3> QED BY <2>1, <3>1, <3>2 DEF Fine, MotionOK, w
  <2>4. StaysFine(n)
    BY <1>1, <1>6, <2>1, <2>2, <2>3 DEF StartNavigate, StaysFine
  <2> QED BY <1>2, <1>6, <2>4 DEF StartNavigate
<1>7. CASE StartWait(n)
  BY <1>2, <1>7, StartsAreTyped DEF StartWait, StaysFine
<1>8. CASE StartInstant(n)
  BY <1>1, <1>2, <1>8, StartsAreTyped DEF StartInstant, StaysFine
<1> QED BY <1>3, <1>4, <1>5, <1>6, <1>7, <1>8

LEMMA LaterIsFine ==
    ASSUME NEW v, Fine(v), NEW d \in Frames
    PROVE  /\ Fine(Later(v, d)) /\ Later(v, d).current = v.current
           /\ Later(v, d).moving = v.moving /\ Later(v, d).nav = v.nav
<1>1. /\ Later(v, d) \in Controllers /\ Later(v, d).current = v.current
      /\ Later(v, d).moving = v.moving /\ Later(v, d).nav = v.nav
      /\ Later(v, d).status = v.status
  <2>1. Later(v, d) \in Controllers
    BY LaterIsTyped DEF Fine
  <2> QED BY <2>1 DEF Fine, Later, Controllers
<1> QED BY <1>1 DEF Fine, MotionOK

\* An action that times out leaves a pawn that stands still.
LEMMA TimedOutRests ==
    ASSUME NEW v \in Controllers
    PROVE  /\ Fine(TimedOut(v)) /\ Rests(TimedOut(v))
           /\ TimedOut(v).last = "TimedOut"
<1> DEFINE w == Completed(v, "TimedOut")
<1>1. w \in Controllers /\ w.last = "TimedOut"
  BY CompletedIsTyped, CompletedFields DEF Finals
<1>2. w.status = "TimedOut" /\ w.current = NoQueueAction /\ w.nav = 0
  BY DEF Completed, Controllers
<1> HIDE DEF w
<1> QED BY <1>1, <1>2, StoppedFields DEF w, TimedOut, Fine, Rests, MotionOK

LEMMA ActionIsPolled ==
    ASSUME LedgerIsMap, NEW n \in Npcs, Fine(npc[n]),
           \/ PollPhysical(n) \/ PollAnimation(n) \/ TickRunning(n)
    PROVE  StaysFine(n) /\ LedgerIsMap'
<1>1. UNCHANGED ledgerVars => LedgerIsMap'
  BY DEF ledgerVars, LedgerIsMap
<1>2. npc[n].current # NoQueueAction /\ UNCHANGED ledgerVars
  BY DEF PollPhysical, PollAnimation, TickRunning, Continues
<1>3. CASE PollPhysical(n)
  <2> DEFINE c == npc[n].current.id
             s == IF ReceiptStatus(c) = "Lost" THEN "Failed" ELSE ReceiptStatus(c)
  <2>1. npc[n].current \in QueueActions /\ npc[n].current.kind = "Physical"
    BY <1>2, <1>3 DEF PollPhysical, Fine, Controllers
  <2>3. ReceiptStatus(c) \in (Statuses \ {"Running"}) \cup {"Lost"}
    <3>1. c \in CommandIds
      BY <2>1, QueueActionsAssumption
    <3>2. ledger[c] # NoEntry => ledger[c].status \in Statuses
      BY <3>1 DEF LedgerIsMap, Entries
    <3> QED BY <1>3, <3>2 DEF PollPhysical, ReceiptStatus
  <2>4. s \in Finals
    BY <2>3 DEF Statuses, Finals
  <2>5. Becomes(n, Completed(npc[n], s))
    BY <1>3 DEF PollPhysical
  <2> HIDE DEF s
  <2>6. Fine(Completed(npc[n], s))
    BY <2>4, CompletedIsFine DEF Fine
  <2> QED BY <1>1, <1>2, <2>5, <2>6 DEF StaysFine
<1>4. CASE PollAnimation(n)
  <2> DEFINE s == IF npc[n].clip.status = "Stopped" THEN "Failed" ELSE npc[n].clip.status
  <2>1. ClipIsOf(npc[n]) /\ npc[n].clip.status # "Running"
    BY <1>4 DEF PollAnimation
  <2>3. s \in Finals
    <3>1. npc[n].clip \in Clips
      BY <2>1 DEF ClipIsOf, Fine, Controllers
    <3> QED BY <2>1, <3>1 DEF Clips, ClipFinals, Finals
  <2>4. PICK d \in Frames : Becomes(n, Completed(Later(npc[n], d), s))
    BY <1>4 DEF PollAnimation
  <2> HIDE DEF s
  <2>5. Fine(Completed(Later(npc[n], d), s))
    <3>1. Later(npc[n], d) \in Controllers
      BY LaterIsTyped DEF Fine
    <3> QED BY <2>3, <3>1, CompletedIsFine
  <2> QED BY <1>1, <1>2, <2>4, <2>5 DEF StaysFine
<1>5. CASE TickRunning(n)
  <2>1. PICK d \in Frames :
          LET v == Later(npc[n], d) IN
          \/ Becomes(n, TimedOut(v))
          \/ v.current.kind = "Wait" /\ Becomes(n, Completed(v, "Succeeded"))
          \/ Becomes(n, v)
    BY <1>5 DEF TickRunning
  <2> DEFINE v == Later(npc[n], d)
  <2>2. Fine(v) /\ v.current = npc[n].current
    BY LaterIsFine
  <2> HIDE DEF v
  <2>3. Fine(TimedOut(v)) /\ Fine(Completed(v, "Succeeded"))
    BY <2>2, TimedOutRests, CompletedIsFine DEF Fine, Finals
  <2> QED BY <1>1, <1>2, <2>1, <2>2, <2>3 DEF StaysFine, v
<1> QED BY <1>3, <1>4, <1>5

LEMMA IdleIsFine ==
    ASSUME LedgerIsMap, NEW n \in Npcs, Fine(npc[n]), TickIdle(n)
    PROVE  StaysFine(n) /\ LedgerIsMap'
<1>1. Rests(Stopped(npc[n]))
  BY StoppedFields DEF TickIdle, Fine, Rests
<1>2. Fine(Idled(Stopped(npc[n])))
  <2>1. <<>> \in Seq(QueueActions)
    OBVIOUS
  <2> QED BY <1>1, <2>1, IdledIsFine
<1> QED BY <1>2 DEF TickIdle, StaysFine, ledgerVars, LedgerIsMap

LEMMA MoveEndsFine ==
    ASSUME LedgerIsMap, NEW n \in Npcs, Fine(npc[n]), MoveEnds(n)
    PROVE  StaysFine(n) /\ LedgerIsMap'
<1> DEFINE v == [npc[n] EXCEPT !.moving = 0]
<1>1. v = Stopped(npc[n])
  BY DEF Stopped
<1> HIDE DEF v
<1>2. /\ v \in Controllers /\ v.moving = 0 /\ v.nav = npc[n].nav
      /\ v.current = npc[n].current /\ v.status = npc[n].status
  BY <1>1, StoppedFields DEF Fine
<1>3. npc[n].nav # npc[n].moving => Fine(v)
  BY <1>2 DEF Fine, MotionOK
<1>4. Fine([v EXCEPT !.nav = 0])
  BY <1>2 DEF Fine, MotionOK, Controllers, MoveIds
<1>5. \A s \in {"Succeeded", "Blocked"} : Fine(Completed(v, s))
  BY <1>2, CompletedIsFine DEF Finals
<1>6. /\ \/ npc[n].nav # npc[n].moving /\ Becomes(n, v)
         \/ Becomes(n, [v EXCEPT !.nav = 0])
         \/ \E s \in {"Succeeded", "Blocked"} : Becomes(n, Completed(v, s))
      /\ UNCHANGED ledgerVars
  BY DEF MoveEnds, v
<1> QED BY <1>3, <1>4, <1>5, <1>6 DEF StaysFine, ledgerVars, LedgerIsMap

LEMMA ClipStepsFine ==
    ASSUME LedgerIsMap, NEW n \in Npcs, Fine(npc[n]), ClipStarts(n) \/ ClipEnds(n)
    PROVE  StaysFine(n) /\ LedgerIsMap'
<1>1. CASE ClipStarts(n)
  <2>1. PICK c \in CommandIds : Becomes(n, [npc[n] EXCEPT !.clip = [id |-> c, status |-> "Running"]])
    BY <1>1 DEF ClipStarts
  <2> DEFINE clip == [id |-> c, status |-> "Running"]
             w == [npc[n] EXCEPT !.clip = clip]
  <2>2. clip \in Clips
    BY DEF Clips, ActionIds
  <2> HIDE DEF clip
  <2>3. w \in Controllers /\ w.moving = npc[n].moving /\ w.nav = npc[n].nav
        /\ w.status = npc[n].status /\ w.current = npc[n].current
    BY <2>2 DEF Fine, Controllers
  <2> HIDE DEF w
  <2>4. Fine(w)
    BY <2>3 DEF Fine, MotionOK
  <2> QED BY <1>1, <2>1, <2>4 DEF ClipStarts, StaysFine, ledgerVars, LedgerIsMap, w, clip
<1>2. CASE ClipEnds(n)
  BY <1>2, ClipEndsFine DEF ClipEnds, StaysFine, ledgerVars, LedgerIsMap
<1> QED BY <1>1, <1>2

LEMMA QueueCommandsFine ==
    ASSUME LedgerIsMap, NEW n \in Npcs, Fine(npc[n]),
           \/ CancelActionQueue(n)
           \/ \E q \in Queues : ReplaceActionQueue(n, q)
           \/ \E a \in QueueActions : EnqueueAction(n, a)
    PROVE  StaysFine(n) /\ LedgerIsMap'
<1>1. CASE CancelActionQueue(n)
  BY <1>1, CanceledRests, ExecutorCanceledKeepsTheMap DEF CancelActionQueue, StaysFine
<1>2. ASSUME NEW q \in Queues, ReplaceActionQueue(n, q)
      PROVE  StaysFine(n) /\ LedgerIsMap'
  BY <1>2, CanceledRests, ExecutorCanceledKeepsTheMap DEF ReplaceActionQueue, StaysFine
<1>3. ASSUME NEW a \in QueueActions, EnqueueAction(n, a)
      PROVE  StaysFine(n) /\ LedgerIsMap'
  <2>1. Append(npc[n].queue, a) \in Seq(QueueActions)
    BY DEF Fine, Controllers
  <2> DEFINE q == Append(npc[n].queue, a)
             w == [npc[n] EXCEPT !.queue = q]
  <2> HIDE DEF q
  <2>2. w \in Controllers /\ w.moving = npc[n].moving
        /\ w.nav = npc[n].nav /\ w.status = npc[n].status /\ w.current = npc[n].current
    BY <2>1 DEF Fine, Controllers, q
  <2> HIDE DEF w
  <2>3. Fine(w)
    BY <2>2 DEF Fine, MotionOK
  <2> QED BY <1>3, <2>3 DEF EnqueueAction, Enqueued, StaysFine, ledgerVars, LedgerIsMap, w, q
<1> QED BY <1>1, <1>2, <1>3

LEMMA ExecutorEndsFine ==
    ASSUME LedgerIsMap, \A n \in Npcs : Fine(npc[n]), NEW x \in Executors, ExecutorEnds(x)
    PROVE  /\ UNCHANGED npc \/ (x \in Npcs /\ StaysFine(x))
           /\ LedgerIsMap'
<1>1. PICK c \in CommandIds, s \in Statuses \ {"Running"} :
        /\ Conclude(x, c, s, "None")
        /\ \/ UNCHANGED npc
           \/ x \in Npcs /\ \E v \in ClipsAfter(npc[x], c) : Becomes(x, v)
  BY DEF ExecutorEnds
<1>2. LedgerIsMap'
  <2>1. s \in Statuses /\ "None" \in Rollbacks
    BY DEF Rollbacks
  <2> QED BY <1>1, <2>1, ConclusionsKeepTheMap
<1>3. x \in Npcs => \A v \in ClipsAfter(npc[x], c) : Fine(v)
  BY ClipEndsFine DEF ClipsAfter
<1> QED BY <1>1, <1>2, <1>3 DEF StaysFine

-------------------------------------------------------------------------------
(***************************************************************************)
(* The theorems.                                                           *)
(***************************************************************************)

QueueInv ==
    /\ LedgerIsMap
    /\ npc \in [Npcs -> Controllers]
    /\ \A n \in Npcs : Fine(npc[n])

LEMMA QueueInvInit == QueueInit => QueueInv
<1> SUFFICES ASSUME QueueInit PROVE QueueInv
  OBVIOUS
<1> DEFINE v == [queue |-> <<>>, current |-> NoQueueAction, status |-> "Idle",
                 last |-> "Idle", nav |-> 0, moving |-> 0, clip |-> NoClip, elapsed |-> 0]
<1>1. v \in Controllers
  <2>1. 0 \in 0..MaxElapsed /\ 0 \in MoveIds /\ <<>> \in Seq(QueueActions)
    BY TimeAssumption DEF MoveIds
  <2> QED BY <2>1 DEF Controllers
<1>2. Fine(v)
  BY <1>1 DEF Fine, MotionOK
<1> HIDE DEF v
<1>3. npc = [n \in Npcs |-> v]
  BY DEF QueueInit, v
<1>4. LedgerIsMap
  BY DEF QueueInit, LedgerInit, LedgerIsMap
<1> QED BY <1>1, <1>2, <1>3, <1>4 DEF QueueInv

LEMMA QueueInvStep == QueueInv /\ [QueueNext]_queueVars => QueueInv'
<1> SUFFICES ASSUME QueueInv, [QueueNext]_queueVars PROVE QueueInv'
  OBVIOUS
<1>1. ASSUME NEW n \in Npcs, StaysFine(n), LedgerIsMap'
      PROVE  QueueInv'
  <2>1. PICK v : Fine(v) /\ npc' = [npc EXCEPT ![n] = v]
    BY <1>1 DEF StaysFine, Becomes
  <2> QED BY <1>1, <2>1 DEF QueueInv, Fine
<1>2. ASSUME UNCHANGED npc, LedgerIsMap'
      PROVE  QueueInv'
  BY <1>2 DEF QueueInv
<1>3. ASSUME NEW n \in Npcs, Tick(n)
      PROVE  QueueInv'
  BY <1>1, <1>3, IdleIsFine, ActionStarts, ActionIsPolled DEF Tick, QueueInv
<1>4. ASSUME NEW n \in Npcs,
             \/ CancelActionQueue(n)
             \/ \E q \in Queues : ReplaceActionQueue(n, q)
             \/ \E a \in QueueActions : EnqueueAction(n, a)
      PROVE  QueueInv'
  BY <1>1, <1>4, QueueCommandsFine DEF QueueInv
<1>5. ASSUME NEW n \in Npcs, MoveEnds(n) \/ ClipStarts(n) \/ ClipEnds(n)
      PROVE  QueueInv'
  BY <1>1, <1>5, MoveEndsFine, ClipStepsFine DEF QueueInv
<1>6. ASSUME NEW x \in Executors, ExecutorEnds(x)
      PROVE  QueueInv'
  BY <1>1, <1>2, <1>6, ExecutorEndsFine DEF QueueInv
<1>7. CASE ClientBegins
  <2>1. UNCHANGED npc /\ LedgerIsMap'
    BY <1>7, ClientIdsAssumption, ClaimsKeepTheMap DEF ClientBegins, QueueInv
  <2> QED BY <1>2, <2>1
<1>8. CASE UNCHANGED queueVars
  BY <1>2, <1>8 DEF queueVars, ledgerVars, QueueInv, LedgerIsMap
<1> QED BY <1>3, <1>4, <1>5, <1>6, <1>7, <1>8 DEF QueueNext

\* Types and disciplined motion are inductive together: nothing that a controller,
\* its clip, its executor or a client does breaks them.
THEOREM QueueInvariant == QueueSpec => []QueueInv
BY QueueInvInit, QueueInvStep, PTL DEF QueueSpec

\* An idle NPC has no action, no path following request and does not move, whatever
\* its actions are called and whatever they left behind.
THEOREM IdleNpcsAreStill == QueueSpec => []IdleIsStill
<1>1. QueueInv => IdleIsStill
  BY DEF QueueInv, Fine, MotionOK, IdleIsStill
<1> QED BY <1>1, QueueInvariant, PTL

\* After a cancel nothing is queued or running, whatever a listener of the
\* cancellation enqueued or replaced.
THEOREM CancelsAreFinal == QueueSpec => CancelIsFinal
<1>1. ASSUME QueueInv, NEW n \in Npcs, CancelActionQueue(n)
      PROVE  npc'[n].queue = <<>> /\ npc'[n].current = NoQueueAction /\ npc'[n].status = "Idle"
  <2>1. PICK v \in Canceled(npc[n]) : npc' = [npc EXCEPT ![n] = v]
    BY <1>1 DEF CancelActionQueue, Becomes
  <2>2. npc'[n] = v
    BY <1>1, <2>1 DEF QueueInv
  <2> QED BY <1>1, <2>2, CanceledRests DEF QueueInv
<1>2. QueueInv => [\A n \in Npcs : CancelActionQueue(n) =>
                     /\ npc'[n].queue = <<>> /\ npc'[n].current = NoQueueAction
                     /\ npc'[n].status = "Idle"]_queueVars
  BY <1>1
<1> QED BY <1>2, QueueInvariant, PTL DEF CancelIsFinal

-------------------------------------------------------------------------------
(***************************************************************************)
(* The ledger under the queues.  A queue that is replaced or canceled may  *)
(* end a command and commit a generation in one step, which LedgerNext     *)
(* does in two; every other step is one of LedgerNext.                     *)
(***************************************************************************)

CanceledEntry(c, e) ==
    /\ ledger[c] # NoEntry /\ ~ledger[c].terminal
    /\ e.request = ledger[c].request
    /\ e.status \in FailureStatuses
    /\ e.terminal \/ e.owner = ledger[c].owner
    /\ e.terminal <=> e.owner = NoExecutor

\* What a cancel does to the ledger.
LedgerOfCancel ==
    /\ UNCHANGED order
    /\ generation' \in {generation, generation + 1}
    /\ \/ UNCHANGED ledger
       \/ \E c \in CommandIds, e \in Entries :
            CanceledEntry(c, e) /\ ledger' = [ledger EXCEPT ![c] = e]

LEMMA ClaimsAreLedgerSteps ==
    ASSUME NEW c \in CommandIds, NEW r \in Requests, Accept(c, r) \/ ClaimRejected(c, r)
    PROVE  LedgerNext
<1>1. r.actor \in Executors
  BY RequestsNameExecutors
<1> QED BY <1>1 DEF Accept, LedgerNext

LEMMA ConclusionsAreLedgerSteps ==
    ASSUME LedgerIsMap, NEW x \in Executors, NEW c \in CommandIds,
           NEW s \in Statuses \ {"Running"}, Conclude(x, c, s, "None")
    PROVE  LedgerNext
<1>1. ledger[c].request \in Requests
  BY DEF LedgerIsMap, Conclude, Runs, Entries
<1>2. "None" \in Rollbacks /\ (s \in FailureStatuses => s \in ProgressStatuses)
  BY DEF Rollbacks, ProgressStatuses
<1> QED BY <1>1, <1>2 DEF Conclude, LedgerNext

LEMMA CancelsOnTheLedger ==
    ASSUME LedgerInv, NEW n \in Npcs, ExecutorCanceled(n), CommitsOrNot
    PROVE  LedgerOfCancel
<1>1. UNCHANGED order /\ generation' \in {generation, generation + 1}
  BY DEF ExecutorCanceled, CommitsOrNot
<1>2. CASE UNCHANGED ledger
  BY <1>1, <1>2 DEF LedgerOfCancel
<1>3. ASSUME NEW c \in CommandIds, NEW s \in {"Canceled", "Failed"}, Runs(n, c),
             \/ ledger' = [ledger EXCEPT ![c] = TerminalEntry(ledger[c].request, s, "None")]
             \/ ledger' = [ledger EXCEPT ![c].status = s]
      PROVE  LedgerOfCancel
  <2>1. /\ ledger[c] # NoEntry /\ ledger[c].owner = n /\ n # NoExecutor
        /\ ledger[c] \in Entries /\ ledger[c].request \in Requests
        /\ ledger \in [CommandIds -> Entries \cup {NoEntry}]
    BY <1>3, NpcsAssumption, NoExecutorAssumption DEF Runs, LedgerInv, LedgerTypeOK, Entries
  <2>2. ~ledger[c].terminal
    BY <2>1 DEF LedgerInv, OwnedWhileOpen, Known
  <2>3. s \in Statuses /\ s \in FailureStatuses /\ "None" \in Rollbacks
    BY DEF Statuses, FailureStatuses, Rollbacks
  <2>4. CASE ledger' = [ledger EXCEPT ![c] = TerminalEntry(ledger[c].request, s, "None")]
    <3> DEFINE e == TerminalEntry(ledger[c].request, s, "None")
    <3>1. e \in Entries
      BY <2>1, <2>3, EntriesWritten
    <3>2. CanceledEntry(c, e)
      BY <2>1, <2>2, <2>3 DEF CanceledEntry, TerminalEntry
    <3> HIDE DEF e
    <3>3. ledger' = [ledger EXCEPT ![c] = e]
      BY <2>4 DEF e
    <3> QED BY <1>1, <3>1, <3>2, <3>3 DEF LedgerOfCancel
  <2>5. CASE ledger' = [ledger EXCEPT ![c].status = s]
    <3> DEFINE e == [ledger[c] EXCEPT !.status = s]
    <3>1. /\ e \in Entries /\ e.request = ledger[c].request /\ e.status = s
          /\ e.owner = ledger[c].owner /\ e.terminal = ledger[c].terminal
      BY <2>1, <2>3 DEF Entries
    <3>2. ledger' = [ledger EXCEPT ![c] = e]
      BY <2>1, <2>5
    <3> HIDE DEF e
    <3>3. CanceledEntry(c, e)
      BY <2>1, <2>2, <2>3, <3>1 DEF CanceledEntry
    <3> QED BY <1>1, <3>1, <3>2, <3>3 DEF LedgerOfCancel
  <2> QED BY <1>3, <2>4, <2>5
<1> QED BY <1>2, <1>3 DEF ExecutorCanceled

\* Every step of the queues is a step of the ledger or a cancel.
LEMMA QueueStepsOnTheLedger ==
    ASSUME LedgerInv, QueueInv, [QueueNext]_queueVars
    PROVE  [LedgerNext]_ledgerVars \/ LedgerOfCancel
<1>1. ASSUME NEW n \in Npcs, StartPhysical(n)
      PROVE  [LedgerNext]_ledgerVars
  <2>1. Started(npc[n]).current \in QueueActions /\ Started(npc[n]).current.kind = "Physical"
    BY <1>1, StartsAreTyped DEF StartPhysical, QueueInv
  <2>2. PICK c \in CommandIds, r \in Requests : /\ c = Started(npc[n]).current.id
                                                /\ r = RequestOf(n, Started(npc[n]).current)
    BY <2>1, QueueActionsAssumption
  <2>3. UNCHANGED ledgerVars \/ Accept(c, r) \/ ClaimRejected(c, r)
    BY <1>1, <2>2 DEF StartPhysical
  <2> QED BY <2>3, ClaimsAreLedgerSteps
<1>2. ASSUME NEW n \in Npcs, Tick(n)
      PROVE  [LedgerNext]_ledgerVars
  BY <1>1, <1>2 DEF Tick, TickIdle, StartFails, StartAnimate, StartNavigate, StartWait,
                    StartInstant, PollPhysical, PollAnimation, TickRunning
<1>3. ASSUME NEW n \in Npcs, CancelActionQueue(n) \/ \E q \in Queues : ReplaceActionQueue(n, q)
      PROVE  LedgerOfCancel
  BY <1>3, CancelsOnTheLedger DEF CancelActionQueue, ReplaceActionQueue
<1>4. ASSUME NEW n \in Npcs, \/ \E a \in QueueActions : EnqueueAction(n, a)
                             \/ MoveEnds(n) \/ ClipStarts(n) \/ ClipEnds(n)
      PROVE  [LedgerNext]_ledgerVars
  BY <1>4 DEF EnqueueAction, MoveEnds, ClipStarts, ClipEnds
<1>5. ASSUME NEW x \in Executors, ExecutorEnds(x)
      PROVE  [LedgerNext]_ledgerVars
  BY <1>5, ConclusionsAreLedgerSteps DEF ExecutorEnds, QueueInv
<1>6. CASE ClientBegins
  BY <1>6, ClientIdsAssumption, ClaimsAreLedgerSteps DEF ClientBegins
<1>7. CASE UNCHANGED queueVars
  BY <1>7 DEF queueVars
<1> QED BY <1>2, <1>3, <1>4, <1>5, <1>6, <1>7 DEF QueueNext

\* A cancel keeps the ledger's invariant: it records no success, and a generation
\* that moves on leaves the recorded ones in the past.
LEMMA CancelKeepsLedgerInv ==
    ASSUME LedgerInv, LedgerOfCancel
    PROVE  LedgerInv'
<1>1. generation \in Nat /\ generation' \in Nat /\ generation <= generation'
  <2>1. generation \in Nat
    BY DEF LedgerInv, LedgerTypeOK
  <2> QED BY <2>1 DEF LedgerOfCancel
<1>2. UNCHANGED order
  BY DEF LedgerOfCancel
<1>3. /\ ledger' \in [CommandIds -> Entries \cup {NoEntry}]
      /\ OrderListsTheLedger' /\ LedgerIsBounded' /\ OwnedWhileOpen'
      /\ \A d \in CommandIds : LiveSuccess(d)' => LiveSuccess(d) /\ ledger'[d] = ledger[d]
  <2>1. CASE UNCHANGED ledger
    BY <1>2, <2>1 DEF LedgerInv, LedgerTypeOK, OrderListsTheLedger, LedgerIsBounded,
                      OwnedWhileOpen, Known, LiveSuccess
  <2>2. ASSUME NEW c \in CommandIds, NEW e \in Entries, CanceledEntry(c, e),
               ledger' = [ledger EXCEPT ![c] = e]
        PROVE  /\ ledger' \in [CommandIds -> Entries \cup {NoEntry}]
               /\ OrderListsTheLedger' /\ LedgerIsBounded' /\ OwnedWhileOpen'
               /\ \A d \in CommandIds : LiveSuccess(d)' => LiveSuccess(d) /\ ledger'[d] = ledger[d]
    <3>1. /\ ledger' \in [CommandIds -> Entries \cup {NoEntry}]
          /\ ledger'[c] = e
          /\ \A d \in CommandIds \ {c} : ledger'[d] = ledger[d]
      BY <2>2 DEF LedgerInv, LedgerTypeOK
    <3>2. OrderListsTheLedger' /\ LedgerIsBounded'
      BY <1>2, <2>2, ReplaceEntryOrder DEF LedgerInv, CanceledEntry
    <3>3. OwnedWhileOpen'
      BY <2>2, <3>1 DEF LedgerInv, OwnedWhileOpen, Known, CanceledEntry, FailureStatuses
    <3>4. ASSUME NEW d \in CommandIds, LiveSuccess(d)'
          PROVE  LiveSuccess(d) /\ ledger'[d] = ledger[d]
      BY <2>2, <3>1, <3>4 DEF LiveSuccess, CanceledEntry, FailureStatuses
    <3> QED BY <3>1, <3>2, <3>3, <3>4
  <2> QED BY <2>1, <2>2 DEF LedgerOfCancel
<1>4. LedgerTypeOK'
  BY <1>1, <1>2, <1>3 DEF LedgerInv, LedgerTypeOK
<1>5. LiveSuccessesAreSerial'
  <2>1. ASSUME NEW d \in CommandIds, LiveSuccess(d)'
        PROVE  ledger'[d].request.gen < generation'
    <3>1. LiveSuccess(d) /\ ledger'[d] = ledger[d]
      BY <1>3, <2>1
    <3>2. ledger[d].request.gen < generation /\ ledger[d].request.gen \in Nat
      BY <3>1, RequestsAssumption
         DEF LedgerInv, LedgerTypeOK, LiveSuccess, LiveSuccessesAreSerial, Entries
    <3> QED BY <1>1, <3>1, <3>2
  <2>2. ASSUME NEW c \in CommandIds, NEW d \in CommandIds, LiveSuccess(c)', LiveSuccess(d)',
               ledger'[c].request.gen = ledger'[d].request.gen
        PROVE  c = d
    BY <1>3, <2>2 DEF LedgerInv, LiveSuccessesAreSerial
  <2> QED BY <2>1, <2>2 DEF LiveSuccessesAreSerial
<1> QED BY <1>3, <1>4, <1>5 DEF LedgerInv

\* Queues that are replaced and canceled at any moment, events and clients leave
\* the ledger as it promises to be: its ids and their order agree, it is bounded,
\* open entries are owned, and live successes are serial.
THEOREM QueuesKeepTheLedger == QueueSpec => []LedgerInv
<1>1. QueueInit => LedgerInv
  BY LedgerInvInit DEF QueueInit
<1>2. QueueInv /\ LedgerInv /\ [QueueNext]_queueVars => LedgerInv'
  BY QueueStepsOnTheLedger, LedgerInvStep, CancelKeepsLedgerInv
<1> QED BY <1>1, <1>2, QueueInvariant, PTL DEF QueueSpec

\* What a cancel does to an entry of the ledger.
LEMMA CancelEntryStep ==
    ASSUME LedgerInv, LedgerOfCancel, NEW c \in Known
    PROVE  \/ ledger'[c] = ledger[c]
           \/ /\ ~ledger[c].terminal
              /\ ledger'[c] # NoEntry
              /\ ledger'[c].request = ledger[c].request
              /\ ledger'[c].terminal \/ ledger'[c].owner = ledger[c].owner
<1>1. c \in CommandIds /\ ledger \in [CommandIds -> Entries \cup {NoEntry}]
  BY DEF Known, LedgerInv, LedgerTypeOK
<1>2. ASSUME NEW d \in CommandIds, NEW e \in Entries, CanceledEntry(d, e),
             ledger' = [ledger EXCEPT ![d] = e], c = d
      PROVE  /\ ~ledger[c].terminal
             /\ ledger'[c] # NoEntry
             /\ ledger'[c].request = ledger[c].request
             /\ ledger'[c].terminal \/ ledger'[c].owner = ledger[c].owner
  <2>1. ledger'[c] = e
    BY <1>1, <1>2
  <2> QED BY <1>2, <2>1, NoEntryAssumption DEF CanceledEntry
<1> QED BY <1>1, <1>2 DEF LedgerOfCancel

\* The promises about receipts hold under the queues, too: whatever is replaced or
\* canceled, a terminal receipt never changes, an open command is never forgotten,
\* and only the oldest terminal entry of a full ledger is evicted.
THEOREM QueuesRespectReceipts ==
    QueueSpec => TerminalReceiptsAreFinal /\ OpenEntriesSurvive /\ EvictsOldestTerminal
<1>1. LedgerInv /\ QueueInv /\ [QueueNext]_queueVars =>
        [\A c \in Known : ledger[c].terminal => ledger'[c] \in {ledger[c], NoEntry}]_ledgerVars
  <2>1. \A c \in Known : ledger[c] # NoEntry
    BY DEF Known
  <2> QED BY <2>1, QueueStepsOnTheLedger, EntryStep, CancelEntryStep
<1>2. LedgerInv /\ QueueInv /\ [QueueNext]_queueVars =>
        [\A c \in Known : ~ledger[c].terminal =>
              /\ ledger'[c] # NoEntry
              /\ ledger'[c].request = ledger[c].request
              /\ ledger'[c].terminal \/ ledger'[c].owner = ledger[c].owner]_ledgerVars
  <2>1. \A c \in Known : ledger[c] # NoEntry
    BY DEF Known
  <2> QED BY <2>1, QueueStepsOnTheLedger, EntryStep, CancelEntryStep
<1>3. LedgerInv /\ QueueInv /\ [QueueNext]_queueVars =>
        [\A c \in Known : ledger'[c] = NoEntry => Evicts(c)]_ledgerVars
  <2>1. \A c \in Known : ledger[c] # NoEntry
    BY DEF Known
  <2> QED BY <2>1, QueueStepsOnTheLedger, EvictionStep, CancelEntryStep
<1> QED
  BY <1>1, <1>2, <1>3, QueueInvariant, QueuesKeepTheLedger, PTL
     DEF QueueSpec, TerminalReceiptsAreFinal, OpenEntriesSurvive, EvictsOldestTerminal, Evicts

\* Every reachable state of the queues and the ledger under them is well typed.
THEOREM QueueIsTyped == QueueSpec => []QueueTypeOK
<1>1. QueueInv /\ LedgerInv => QueueTypeOK
  BY DEF QueueInv, LedgerInv, QueueTypeOK
<1> QED BY <1>1, QueueInvariant, QueuesKeepTheLedger, PTL

-------------------------------------------------------------------------------
(***************************************************************************)
(* What the executor of an NPC runs.  The queue starts a physical action   *)
(* when it has no current one, and the executor accepts it only when it    *)
(* runs nothing: so there is at most one open command that no live client  *)
(* asked for, and it is the current action.                                *)
(***************************************************************************)

RunsOneCommand ==
    \A n \in Npcs, c, d \in CommandIds : Runs(n, c) /\ Runs(n, d) => c = d

OwnsInv == QueueOwnsItsExecution /\ RunsOneCommand

\* The executors of NPCs begin nothing in this step.
BeginsNothing ==
    \A n \in Npcs, c \in CommandIds :
        Runs(n, c)' => Runs(n, c) /\ ledger'[c].request = ledger[c].request

\* The executor of n runs nothing that its queue has asked for.
RunsForClients(n) == \A c \in CommandIds : Runs(n, c) => ledger[c].request.live

LEMMA AcceptanceRuns ==
    ASSUME LedgerIsMap, NEW c \in CommandIds, NEW r \in Requests, Accept(c, r),
           NEW n \in Npcs, NEW d \in CommandIds, Runs(n, d)'
    PROVE  \/ Runs(n, d) /\ ledger'[d].request = ledger[d].request
           \/ d = c /\ n = r.actor /\ ledger'[d].request = r /\ ~Busy(n)
<1> DEFINE e == RunningEntry(r, r.actor)
<1>1. e.owner = r.actor /\ e.request = r
  BY DEF RunningEntry
<1>2. AddEntry(c, e) /\ ~Busy(r.actor)
  BY DEF Accept, ClaimAccepted
<1> HIDE DEF e
<1>3. PICK i : \/ ledger' = [ledger EXCEPT ![c] = e]
               \/ ledger' = [ledger EXCEPT ![i] = NoEntry, ![c] = e]
  BY <1>2 DEF AddEntry
<1>4. CASE d = c
  <2>1. ledger'[c] = e
    BY <1>3 DEF LedgerIsMap
  <2> QED BY <1>1, <1>2, <1>4, <2>1 DEF Runs
<1>5. CASE d # c
  <2>1. ledger'[d] \in {ledger[d], NoEntry}
    BY <1>3, <1>5 DEF LedgerIsMap
  <2> QED BY <2>1 DEF Runs
<1> QED BY <1>4, <1>5

LEMMA OthersBeginNothing ==
    ASSUME LedgerIsMap
    PROVE  /\ UNCHANGED ledger => BeginsNothing
           /\ \A c \in CommandIds, r \in Requests : ClaimRejected(c, r) => BeginsNothing
           /\ \A x, b : \A c \in CommandIds, s \in Statuses \ {"Running"} :
                 Conclude(x, c, s, b) => BeginsNothing
<1>1. UNCHANGED ledger => BeginsNothing
  BY DEF BeginsNothing, Runs
<1>2. ASSUME NEW c \in CommandIds, NEW e, e.status # "Running",
             \/ ledger' = [ledger EXCEPT ![c] = e]
             \/ \E i : ledger' = [ledger EXCEPT ![i] = NoEntry, ![c] = e]
      PROVE  BeginsNothing
  <2> SUFFICES ASSUME NEW n \in Npcs, NEW d \in CommandIds, Runs(n, d)'
               PROVE  Runs(n, d) /\ ledger'[d].request = ledger[d].request
    BY DEF BeginsNothing
  <2>1. ledger'[c] = e
    BY <1>2 DEF LedgerIsMap
  <2>2. d # c
    BY <1>2, <2>1 DEF Runs
  <2>3. ledger'[d] \in {ledger[d], NoEntry}
    BY <1>2, <2>2 DEF LedgerIsMap
  <2> QED BY <2>3 DEF Runs
<1>3. ASSUME NEW c \in CommandIds, NEW r \in Requests, ClaimRejected(c, r)
      PROVE  BeginsNothing
  <2> DEFINE e == TerminalEntry(r, "Failed", "None")
  <2>1. e.status # "Running" /\ AddEntry(c, e)
    BY <1>3 DEF ClaimRejected, TerminalEntry
  <2> HIDE DEF e
  <2> QED BY <1>2, <2>1 DEF AddEntry
<1>4. ASSUME NEW x, NEW b, NEW c \in CommandIds, NEW s \in Statuses \ {"Running"},
             Conclude(x, c, s, b)
      PROVE  BeginsNothing
  <2>1. CASE Finalize(c, ledger[c].request, x, s, b)
    <3> DEFINE e == TerminalEntry(ledger[c].request, s, b)
    <3>1. e.status # "Running" /\ ledger' = [ledger EXCEPT ![c] = e]
      BY <2>1 DEF Finalize, TerminalEntry
    <3> HIDE DEF e
    <3> QED BY <1>2, <3>1
  <2>2. CASE PublishProgress(c, ledger[c].request, x, s, b)
    <3> DEFINE e == [ledger[c] EXCEPT !.status = s, !.rollback = b]
    <3>1. ledger[c] \in Entries
      BY <1>4 DEF LedgerIsMap, Conclude, Runs
    <3>2. e.status # "Running" /\ ledger' = [ledger EXCEPT ![c] = e]
      BY <2>2, <3>1 DEF PublishProgress, Entries
    <3> HIDE DEF e
    <3> QED BY <1>2, <3>2
  <2> QED BY <1>4, <2>1, <2>2 DEF Conclude
<1> QED BY <1>1, <1>3, <1>4

\* A cancel ends the one command that the executor runs, whoever asked for it.
LEMMA CancelEndsTheCommand ==
    ASSUME LedgerIsMap, RunsOneCommand, NEW n \in Npcs, ExecutorCanceled(n)
    PROVE  BeginsNothing /\ \A c \in CommandIds : ~Runs(n, c)'
<1>1. CASE ~Busy(n) /\ UNCHANGED ledger
  <2>1. BeginsNothing
    BY <1>1, OthersBeginNothing
  <2> QED BY <1>1, <2>1 DEF Busy, BeginsNothing
<1>2. ASSUME NEW c \in CommandIds, NEW s \in {"Canceled", "Failed"}, Runs(n, c),
             \/ ledger' = [ledger EXCEPT ![c] = TerminalEntry(ledger[c].request, s, "None")]
             \/ ledger' = [ledger EXCEPT ![c].status = s]
      PROVE  BeginsNothing /\ \A d \in CommandIds : ~Runs(n, d)'
  <2>1. ledger[c] \in Entries
    BY <1>2 DEF LedgerIsMap, Runs
  <2>2. PICK e : ledger' = [ledger EXCEPT ![c] = e] /\ e.status = s
    <3>1. TerminalEntry(ledger[c].request, s, "None").status = s
      BY DEF TerminalEntry
    <3>2. [ledger[c] EXCEPT !.status = s].status = s
      BY <2>1 DEF Entries
    <3> QED BY <1>2, <3>1, <3>2
  <2>3. s # "Running"
    OBVIOUS
  <2>4. \A m \in Npcs, d \in CommandIds : Runs(m, d)' => d # c /\ ledger'[d] = ledger[d]
    BY <2>2, <2>3 DEF Runs, LedgerIsMap
  <2>5. BeginsNothing
    BY <2>4 DEF BeginsNothing, Runs
  <2>6. \A d \in CommandIds : ~Runs(n, d)'
    BY <1>2, <2>4, <2>5 DEF BeginsNothing, RunsOneCommand
  <2> QED BY <2>5, <2>6
<1> QED BY <1>1, <1>2 DEF ExecutorCanceled

\* Where no executor begins a command, a controller may leave an action only when
\* its executor has stopped.
LEMMA OwnsWhereNothingBegins ==
    ASSUME OwnsInv, BeginsNothing,
           \A n \in Npcs : \/ npc'[n].current = npc[n].current
                           \/ RunsForClients(n)
                           \/ \A c \in CommandIds : ~Runs(n, c)'
    PROVE  OwnsInv'
<1>1. RunsOneCommand'
  BY DEF OwnsInv, RunsOneCommand, BeginsNothing
<1>2. QueueOwnsItsExecution'
  <2> SUFFICES ASSUME NEW n \in Npcs, NEW c \in CommandIds,
                      Runs(n, c)', ~ledger'[c].request.live
               PROVE  /\ npc'[n].current # NoQueueAction
                      /\ npc'[n].current.kind = "Physical"
                      /\ npc'[n].current.id = c
                      /\ ledger'[c].request = RequestOf(n, npc'[n].current)
    BY DEF QueueOwnsItsExecution
  <2>1. Runs(n, c) /\ ledger'[c].request = ledger[c].request
    BY DEF BeginsNothing
  <2>2. npc'[n].current = npc[n].current
    BY <2>1 DEF RunsForClients
  <2> QED BY <2>1, <2>2 DEF OwnsInv, QueueOwnsItsExecution
<1> QED BY <1>1, <1>2 DEF OwnsInv

LEMMA FreeOfQueueWork ==
    ASSUME OwnsInv, NEW n \in Npcs,
           \/ npc[n].current = NoQueueAction
           \/ npc[n].current.kind # "Physical"
           \/ ~Runs(n, npc[n].current.id)
    PROVE  RunsForClients(n)
BY DEF OwnsInv, QueueOwnsItsExecution, RunsForClients


LEMMA PhysicalStartOwns ==
    ASSUME QueueInv, OwnsInv, NEW n \in Npcs, StartPhysical(n)
    PROVE  OwnsInv'
<1> DEFINE v == Started(npc[n])
           c == v.current.id
           r == RequestOf(n, v.current)
<1>1. /\ npc[n].current = NoQueueAction /\ LedgerIsMap
      /\ v.current \in QueueActions /\ v.current.kind = "Physical"
  BY StartsAreTyped DEF StartPhysical, Starts, QueueInv
<1>2. c \in CommandIds /\ r \in Requests /\ r.actor = n
  BY <1>1, QueueActionsAssumption DEF RequestOf
<1>3. v.current # NoQueueAction
  BY <1>1, NoQueueActionAssumption
<1>4. RunsForClients(n)
  BY <1>1, FreeOfQueueWork
<1>5. \A w : Becomes(n, w) => npc'[n] = w /\ \A m \in Npcs \ {n} : npc'[m] = npc[m]
  BY DEF QueueInv, Becomes
<1>6. CASE BeginsNothing
  <2>1. \A m \in Npcs : npc'[m].current = npc[m].current \/ RunsForClients(m)
    BY <1>4, <1>5 DEF StartPhysical
  <2> QED BY <1>6, <2>1, OwnsWhereNothingBegins
<1>7. CASE Becomes(n, v) /\ Accept(c, r)
  <2> HIDE DEF v, c, r
  <2>1. npc'[n] = v /\ \A m \in Npcs \ {n} : npc'[m] = npc[m]
    BY <1>5, <1>7
  <2>2. \A m \in Npcs, d \in CommandIds : Runs(m, d)' =>
           \/ Runs(m, d) /\ ledger'[d].request = ledger[d].request
           \/ d = c /\ m = n /\ ledger'[d].request = r /\ ~Busy(n)
    BY <1>1, <1>2, <1>7, AcceptanceRuns
  <2>3. ~Busy(n)
    BY <1>2, <1>7 DEF Accept
  <2>4. RunsOneCommand'
    BY <2>2, <2>3 DEF OwnsInv, RunsOneCommand, Busy
  <2>5. QueueOwnsItsExecution'
    <3> SUFFICES ASSUME NEW m \in Npcs, NEW d \in CommandIds,
                        Runs(m, d)', ~ledger'[d].request.live
                 PROVE  /\ npc'[m].current # NoQueueAction
                        /\ npc'[m].current.kind = "Physical"
                        /\ npc'[m].current.id = d
                        /\ ledger'[d].request = RequestOf(m, npc'[m].current)
      BY DEF QueueOwnsItsExecution
    <3>1. CASE m = n
      <4>1. d = c /\ ledger'[d].request = r
        BY <2>2, <2>3, <3>1 DEF Busy
      <4> QED BY <1>1, <1>3, <2>1, <3>1, <4>1 DEF c, r
    <3>2. CASE m # n
      <4>1. Runs(m, d) /\ ledger'[d].request = ledger[d].request /\ npc'[m] = npc[m]
        BY <2>1, <2>2, <3>2
      <4> QED BY <4>1 DEF OwnsInv, QueueOwnsItsExecution
    <3> QED BY <3>1, <3>2
  <2> QED BY <2>4, <2>5 DEF OwnsInv
<1>8. (Becomes(n, v) /\ Accept(c, r)) \/ ClaimRejected(c, r) \/ UNCHANGED ledger
  BY DEF StartPhysical, ledgerVars
<1> QED BY <1>1, <1>2, <1>6, <1>7, <1>8, OthersBeginNothing

\* In every other step of the queue of n, its controller keeps its action, or its
\* executor runs nothing for the queue.
LEMMA OtherStepsOwn ==
    ASSUME QueueInv, OwnsInv, NEW n \in Npcs,
           \/ TickIdle(n) \/ StartFails(n) \/ StartAnimate(n) \/ StartNavigate(n)
           \/ StartWait(n) \/ StartInstant(n) \/ PollPhysical(n) \/ PollAnimation(n)
           \/ TickRunning(n) \/ MoveEnds(n) \/ ClipStarts(n) \/ ClipEnds(n)
           \/ \E a \in QueueActions : EnqueueAction(n, a)
    PROVE  OwnsInv'
<1>1. UNCHANGED ledger /\ \E w : Becomes(n, w)
  BY DEF TickIdle, StartFails, StartAnimate, StartNavigate, StartWait, StartInstant,
         PollPhysical, PollAnimation, TickRunning, MoveEnds, ClipStarts, ClipEnds,
         EnqueueAction, ledgerVars
<1>2. \A m \in Npcs \ {n} : npc'[m] = npc[m]
  BY <1>1 DEF QueueInv, Becomes
<1>3. \A w : Becomes(n, w) => npc'[n] = w
  BY DEF QueueInv, Becomes
<1>4. npc[n] \in Controllers
  BY DEF QueueInv
<1>5. npc'[n].current = npc[n].current \/ RunsForClients(n)
  <2>1. CASE TickIdle(n) \/ \E kind : Starts(n, kind)
    BY <2>1, FreeOfQueueWork DEF TickIdle, Starts
  <2>2. CASE PollAnimation(n) \/ TickRunning(n)
    BY <2>2, FreeOfQueueWork DEF PollAnimation, TickRunning
  <2>3. CASE PollPhysical(n)
    <3>1. ~Runs(n, npc[n].current.id)
      BY <2>3 DEF PollPhysical, ReceiptStatus, Runs
    <3> QED BY <3>1, FreeOfQueueWork
  <2>4. CASE MoveEnds(n)
    <3>1. CASE npc[n].current.kind = "Navigate"
      BY <3>1, FreeOfQueueWork
    <3>2. CASE npc[n].current.kind # "Navigate"
      <4> DEFINE v == [npc[n] EXCEPT !.moving = 0]
      <4>1. v.current = npc[n].current /\ [v EXCEPT !.nav = 0].current = npc[n].current
        BY <1>4 DEF Controllers
      <4> HIDE DEF v
      <4>2. Becomes(n, v) \/ Becomes(n, [v EXCEPT !.nav = 0])
        BY <2>4, <3>2, <4>1 DEF MoveEnds, v
      <4> QED BY <1>3, <4>1, <4>2
    <3> QED BY <3>1, <3>2
  <2>5. CASE ClipStarts(n) \/ ClipEnds(n)
    <3>1. PICK k : Becomes(n, [npc[n] EXCEPT !.clip = k])
      BY <1>4, <2>5 DEF ClipStarts, ClipEnds
    <3>2. [npc[n] EXCEPT !.clip = k].current = npc[n].current
      BY <1>4 DEF Controllers
    <3> QED BY <1>3, <3>1, <3>2
  <2>6. CASE \E a \in QueueActions : EnqueueAction(n, a)
    <3>1. PICK w : Becomes(n, w) /\ w.current = npc[n].current
      BY <1>4, <2>6 DEF EnqueueAction, Enqueued, Controllers
    <3> QED BY <1>3, <3>1
  <2> QED BY <2>1, <2>2, <2>3, <2>4, <2>5, <2>6
          DEF StartFails, StartAnimate, StartNavigate, StartWait, StartInstant
<1>6. BeginsNothing
  BY <1>1, OthersBeginNothing DEF QueueInv
<1> QED BY <1>2, <1>5, <1>6, OwnsWhereNothingBegins

LEMMA OwnsStep == QueueInv /\ OwnsInv /\ [QueueNext]_queueVars => OwnsInv'
<1> SUFFICES ASSUME QueueInv, OwnsInv, [QueueNext]_queueVars PROVE OwnsInv'
  OBVIOUS
<1>1. LedgerIsMap
  BY DEF QueueInv
<1>2. ASSUME NEW n \in Npcs, CancelActionQueue(n) \/ \E q \in Queues : ReplaceActionQueue(n, q)
      PROVE  OwnsInv'
  <2>1. BeginsNothing /\ \A c \in CommandIds : ~Runs(n, c)'
    BY <1>1, <1>2, CancelEndsTheCommand DEF CancelActionQueue, ReplaceActionQueue, OwnsInv
  <2>2. \A m \in Npcs \ {n} : npc'[m] = npc[m]
    BY <1>2 DEF CancelActionQueue, ReplaceActionQueue, Becomes, QueueInv
  <2> QED BY <2>1, <2>2, OwnsWhereNothingBegins
<1>3. ASSUME NEW x \in Executors, ExecutorEnds(x)
      PROVE  OwnsInv'
  <2>1. PICK c \in CommandIds, s \in Statuses \ {"Running"} :
          /\ Conclude(x, c, s, "None")
          /\ UNCHANGED npc \/ (x \in Npcs /\ \E v \in ClipsAfter(npc[x], c) : Becomes(x, v))
    BY <1>3 DEF ExecutorEnds
  <2>2. \A m \in Npcs : npc'[m].current = npc[m].current
    <3>1. CASE UNCHANGED npc
      BY <3>1
    <3>2. ASSUME x \in Npcs, NEW v \in ClipsAfter(npc[x], c), Becomes(x, v)
          PROVE  \A m \in Npcs : npc'[m].current = npc[m].current
      <4>1. v.current = npc[x].current
        BY <3>2 DEF ClipsAfter, ClipStopped, QueueInv, Controllers
      <4> QED BY <3>2, <4>1 DEF Becomes, QueueInv
    <3> QED BY <2>1, <3>1, <3>2
  <2>3. BeginsNothing
    BY <1>1, <2>1, OthersBeginNothing
  <2> QED BY <2>2, <2>3, OwnsWhereNothingBegins
<1>4. CASE ClientBegins
  <2>1. PICK c \in CommandIds, r \in Requests : /\ r.live \/ r.actor \notin Npcs
                                                /\ Accept(c, r) \/ ClaimRejected(c, r)
    BY <1>4, ClientIdsAssumption DEF ClientBegins
  <2>2. UNCHANGED npc
    BY <1>4 DEF ClientBegins
  <2>3. CASE ClaimRejected(c, r)
    BY <1>1, <2>2, <2>3, OthersBeginNothing, OwnsWhereNothingBegins
  <2>4. CASE Accept(c, r)
    <3>1. \A m \in Npcs, d \in CommandIds : Runs(m, d)' =>
             \/ Runs(m, d) /\ ledger'[d].request = ledger[d].request
             \/ d = c /\ m = r.actor /\ ledger'[d].request = r /\ ~Busy(m)
      BY <1>1, <2>4, AcceptanceRuns
    <3>2. RunsOneCommand'
      BY <3>1 DEF OwnsInv, RunsOneCommand, Busy
    <3>3. \A m \in Npcs, d \in CommandIds : Runs(m, d)' /\ ~ledger'[d].request.live =>
             Runs(m, d) /\ ledger'[d].request = ledger[d].request
      BY <2>1, <3>1
    <3>4. QueueOwnsItsExecution'
      BY <2>2, <3>3 DEF OwnsInv, QueueOwnsItsExecution
    <3> QED BY <3>2, <3>4 DEF OwnsInv
  <2> QED BY <2>1, <2>3, <2>4
<1>5. CASE UNCHANGED queueVars
  BY <1>1, <1>5, OthersBeginNothing, OwnsWhereNothingBegins DEF queueVars, ledgerVars
<1> QED BY <1>2, <1>3, <1>4, <1>5, PhysicalStartOwns, OtherStepsOwn DEF QueueNext, Tick

\* What the executor of an NPC runs without a live client is the current action of
\* its queue, for every set of NPCs, queues and clients: whatever replaces or
\* cancels the queue, completes an action or takes its id.
THEOREM QueuesOwnTheirExecution == QueueSpec => []QueueOwnsItsExecution
<1>1. QueueInit => OwnsInv
  BY DEF QueueInit, LedgerInit, OwnsInv, QueueOwnsItsExecution, RunsOneCommand, Runs
<1>2. OwnsInv => QueueOwnsItsExecution
  BY DEF OwnsInv
<1> QED BY <1>1, <1>2, OwnsStep, QueueInvariant, PTL DEF QueueSpec

-------------------------------------------------------------------------------
(***************************************************************************)
(* How an action and a walk end.                                           *)
(***************************************************************************)

KeepsItsAction(n) ==
    /\ npc'[n].current = npc[n].current
    /\ npc'[n].nav = npc[n].nav
    /\ npc'[n].moving = npc[n].moving

\* Only its own tick, a cancel, a new queue and path following take a controller
\* from its action or change its motion: other controllers, clips, executors,
\* clients and what is enqueued do not.
LEMMA OthersKeepTheAction ==
    ASSUME QueueInv, [QueueNext]_queueVars, NEW n \in Npcs,
           ~Tick(n), ~MoveEnds(n), ~CancelActionQueue(n),
           \A q \in Queues : ~ReplaceActionQueue(n, q)
    PROVE  KeepsItsAction(n)
<1>1. ASSUME NEW m \in Npcs, NEW x, Becomes(m, x),
             m = n => /\ x.current = npc[n].current /\ x.nav = npc[n].nav
                      /\ x.moving = npc[n].moving
      PROVE  KeepsItsAction(n)
  BY <1>1 DEF QueueInv, Becomes, KeepsItsAction
<1>2. CASE UNCHANGED npc
  BY <1>2 DEF KeepsItsAction
<1>3. ASSUME NEW m \in Npcs, \/ Tick(m) \/ MoveEnds(m) \/ CancelActionQueue(m)
                             \/ \E q \in Queues : ReplaceActionQueue(m, q)
      PROVE  KeepsItsAction(n)
  <2>1. m # n
    BY <1>3
  <2>2. \E x : Becomes(m, x)
    BY <1>3 DEF Tick, TickIdle, StartFails, StartPhysical, StartAnimate, StartNavigate,
                StartWait, StartInstant, PollPhysical, PollAnimation, TickRunning, MoveEnds,
                CancelActionQueue, ReplaceActionQueue
  <2> QED BY <1>1, <2>1, <2>2
<1>4. ASSUME NEW m \in Npcs, \E a \in QueueActions : EnqueueAction(m, a)
      PROVE  KeepsItsAction(n)
  <2>1. PICK x : /\ Becomes(m, x) /\ x.current = npc[m].current
                 /\ x.nav = npc[m].nav /\ x.moving = npc[m].moving
    BY <1>4 DEF EnqueueAction, Enqueued, QueueInv, Controllers
  <2> QED BY <1>1, <2>1
<1>5. ASSUME NEW m \in Npcs, ClipStarts(m) \/ ClipEnds(m)
      PROVE  KeepsItsAction(n)
  <2>1. PICK k : Becomes(m, [npc[m] EXCEPT !.clip = k])
    BY <1>5 DEF ClipStarts, ClipEnds
  <2> DEFINE x == [npc[m] EXCEPT !.clip = k]
  <2>2. x.current = npc[m].current /\ x.nav = npc[m].nav /\ x.moving = npc[m].moving
    BY DEF QueueInv, Controllers
  <2> HIDE DEF x
  <2>3. Becomes(m, x)
    BY <2>1 DEF x
  <2> QED BY <1>1, <2>2, <2>3
<1>6. ASSUME NEW x \in Executors, ExecutorEnds(x)
      PROVE  KeepsItsAction(n)
  <2>1. ASSUME x \in Npcs, NEW c, NEW y \in ClipsAfter(npc[x], c), Becomes(x, y)
        PROVE  KeepsItsAction(n)
    <3>1. /\ y.current = npc[x].current /\ y.nav = npc[x].nav
          /\ y.moving = npc[x].moving
      BY <2>1 DEF ClipsAfter, ClipStopped, QueueInv, Controllers
    <3> QED BY <1>1, <2>1, <3>1
  <2> QED BY <1>2, <1>6, <2>1 DEF ExecutorEnds
<1>7. CASE ClientBegins
  BY <1>2, <1>7 DEF ClientBegins
<1>8. CASE UNCHANGED queueVars
  BY <1>2, <1>8 DEF queueVars
<1> QED BY <1>3, <1>4, <1>5, <1>6, <1>7, <1>8 DEF QueueNext

\* A queue that is canceled or replaced leaves a pawn that stands still, and an
\* action that it ends is canceled.
LEMMA CommandsEndTheWalk ==
    ASSUME QueueInv, NEW n \in Npcs,
           CancelActionQueue(n) \/ \E q \in Queues : ReplaceActionQueue(n, q)
    PROVE  /\ npc'[n].moving = 0
           /\ npc[n].current # NoQueueAction => npc'[n].last = "Canceled"
<1>1. Fine(npc[n]) /\ \A x : Becomes(n, x) => npc'[n] = x
  BY DEF QueueInv, Becomes
<1>2. ASSUME NEW w \in Canceled(npc[n]), NEW q \in Queues
      PROVE  /\ w.moving = 0 /\ [w EXCEPT !.queue = q].moving = 0
             /\ npc[n].current # NoQueueAction =>
                   w.last = "Canceled" /\ [w EXCEPT !.queue = q].last = "Canceled"
  <2>1. Fine(w) /\ w.status = "Idle" /\ w.moving = 0
    BY <1>1, CanceledRests DEF Fine, MotionOK
  <2>2. [w EXCEPT !.queue = q].moving = w.moving
    BY <2>1 DEF Fine, Controllers
  <2> QED BY <1>1, <2>1, <2>2, CanceledRests
<1>3. CASE CancelActionQueue(n)
  <2>1. PICK w \in Canceled(npc[n]) : Becomes(n, w)
    BY <1>3 DEF CancelActionQueue
  <2>2. Fine(w) /\ w.status = "Idle" /\ w.moving = 0
    BY <1>1, CanceledRests DEF Fine, MotionOK
  <2> QED BY <1>1, <2>1, <2>2, CanceledRests
<1>4. CASE \E q \in Queues : ReplaceActionQueue(n, q)
  BY <1>1, <1>2, <1>4 DEF ReplaceActionQueue
<1> QED BY <1>3, <1>4

\* A tick of a pawn that walks for its navigation, or stands still, keeps it so.
LEMMA TicksEndTheWalk ==
    ASSUME QueueInv, NEW n \in Npcs, Tick(n), WalksForNavigation(n),
           ~(ClipAnswers(n) /\ npc[n].current.kind = "Navigate")
    PROVE  WalksForNavigation(n)'
<1> DEFINE v == npc[n]
<1>1. Fine(v) /\ v \in Controllers /\ \A x : Becomes(n, x) => npc'[n] = x
  BY DEF QueueInv, Becomes
<1>2. \A x \in Controllers : \A s \in Finals : Completed(x, s).moving = x.moving
  BY DEF Completed, Controllers
<1>3. ASSUME npc'[n].moving = 0
      PROVE  WalksForNavigation(n)'
  BY <1>3 DEF WalksForNavigation
<1>4. CASE TickIdle(n)
  <2>1. Stopped(v) \in Controllers /\ Stopped(v).moving = 0
    BY <1>1, StoppedFields
  <2>2. Idled(Stopped(v)).moving = 0
    BY <2>1 DEF Idled, Controllers
  <2>3. npc'[n] = v \/ npc'[n] = Idled(Stopped(v))
    BY <1>1, <1>4 DEF TickIdle
  <2> QED BY <1>3, <2>2, <2>3 DEF WalksForNavigation
<1>5. ASSUME NEW kind, Starts(n, kind),
             \/ StartFails(n) \/ StartPhysical(n) \/ StartAnimate(n)
             \/ StartNavigate(n) \/ StartWait(n) \/ StartInstant(n)
      PROVE  WalksForNavigation(n)'
  <2> DEFINE w == Started(v)
  <2>1. /\ w \in Controllers /\ w.moving = 0 /\ w.current \in QueueActions
        /\ w.current.kind = kind
    BY <1>1, <1>5, StartsAreTyped DEF Starts, WalksForNavigation
  <2>2. Stopped(w) \in Controllers /\ Stopped(w).moving = 0
    BY <2>1, StoppedFields
  <2>3. \A k : [w EXCEPT !.clip = k].moving = 0
    <3> HIDE DEF w
    <3> QED BY <2>1 DEF Controllers
  <2>4. \A m \in MoveIds : LET x == [w EXCEPT !.nav = m, !.moving = m] IN
           x.nav = m /\ x.moving = m /\ x.current = w.current
    <3> HIDE DEF w
    <3> QED BY <2>1 DEF Controllers
  <2>5. w.current # NoQueueAction
    BY <2>1, NoQueueActionAssumption
  <2>6. {"Failed", "Blocked", "Succeeded"} \subseteq Finals
    BY DEF Finals
  <2> HIDE DEF w
  <2>7. CASE StartNavigate(n)
    <3>1. \/ \E s \in {"Blocked", "Succeeded"} : npc'[n] \in {Completed(w, s), Completed(Stopped(w), s)}
          \/ \E m \in MoveIds : npc'[n] = [w EXCEPT !.nav = m, !.moving = m]
      BY <1>1, <2>7 DEF StartNavigate, w
    <3>2. kind = "Navigate"
      BY <1>5, <2>7 DEF StartNavigate, Starts
    <3>3. CASE \E s \in {"Blocked", "Succeeded"} :
                 npc'[n] \in {Completed(w, s), Completed(Stopped(w), s)}
      BY <1>2, <1>3, <2>1, <2>2, <2>6, <3>3
    <3>4. ASSUME NEW m \in MoveIds, npc'[n] = [w EXCEPT !.nav = m, !.moving = m]
          PROVE  WalksForNavigation(n)'
      <4>1. npc'[n].nav = m /\ npc'[n].moving = m /\ npc'[n].current = w.current
        BY <2>4, <3>4
      <4> QED BY <2>1, <2>5, <3>2, <4>1 DEF WalksForNavigation
    <3> QED BY <3>1, <3>3, <3>4
  <2>8. CASE ~StartNavigate(n)
    <3>1. \/ npc'[n] = w \/ \E s \in {"Failed", "Succeeded"} : npc'[n] = Completed(w, s)
          \/ \E k : npc'[n] = [w EXCEPT !.clip = k]
      BY <1>1, <1>5, <2>8 DEF StartFails, StartPhysical, StartAnimate, StartWait, StartInstant, w
    <3>2. \A s \in {"Failed", "Succeeded"} : Completed(w, s).moving = 0
      BY <1>2, <2>1, <2>6
    <3>3. npc'[n].moving = 0
      BY <2>1, <2>3, <3>1, <3>2
    <3> QED BY <1>3, <3>3
  <2> QED BY <2>7, <2>8
<1>6. CASE PollPhysical(n)
  <2>1. v.moving = 0
    BY <1>6 DEF PollPhysical, WalksForNavigation
  <2>2. PICK s : npc'[n] = Completed(v, s)
    BY <1>1, <1>6 DEF PollPhysical
  <2>3. npc'[n].moving = v.moving
    BY <1>1, <2>2 DEF Completed, Controllers
  <2> QED BY <1>3, <2>1, <2>3
<1>7. CASE PollAnimation(n)
  <2>1. ClipAnswers(n)
    BY <1>7 DEF PollAnimation, Continues, ClipIsOf, ClipAnswers
  <2>2. v.moving = 0
    BY <2>1 DEF WalksForNavigation
  <2>3. PICK d \in Frames : \E s : npc'[n] = Completed(Later(v, d), s)
    BY <1>1, <1>7 DEF PollAnimation
  <2>4. Later(v, d) \in Controllers /\ Later(v, d).moving = 0
    BY <1>1, <2>2, LaterIsFine DEF Fine
  <2>5. npc'[n].moving = 0
    BY <2>3, <2>4 DEF Completed, Controllers
  <2> QED BY <1>3, <2>5
<1>8. CASE TickRunning(n)
  <2>1. PICK d \in Frames :
          LET z == Later(v, d) IN
          \/ Becomes(n, TimedOut(z))
          \/ z.current.kind = "Wait" /\ Becomes(n, Completed(z, "Succeeded"))
          \/ Becomes(n, z)
    BY <1>8 DEF TickRunning
  <2> DEFINE z == Later(v, d)
  <2>2. /\ z \in Controllers /\ z.current = v.current /\ z.moving = v.moving
        /\ z.nav = v.nav
    BY <1>1, LaterIsFine DEF Fine
  <2> HIDE DEF z
  <2>3. TimedOut(z).moving = 0
    BY <2>2, TimedOutRests DEF Rests
  <2>4. z.current.kind = "Wait" => Completed(z, "Succeeded").moving = 0
    BY <1>2, <2>2 DEF WalksForNavigation, Finals
  <2>5. \/ npc'[n] = TimedOut(z)
        \/ z.current.kind = "Wait" /\ npc'[n] = Completed(z, "Succeeded")
        \/ npc'[n] = z
    BY <1>1, <2>1 DEF z
  <2> QED BY <1>3, <2>2, <2>3, <2>4, <2>5 DEF WalksForNavigation
<1> QED BY <1>4, <1>5, <1>6, <1>7, <1>8
        DEF Tick, StartFails, StartPhysical, StartAnimate, StartNavigate, StartWait, StartInstant

\* A walk ends with its navigation, whatever commands, timeouts, clips and executors
\* do meanwhile and whatever ids they share; only a clip that carries the id of the
\* navigation ends the one without the other.
THEOREM WalksEndWithTheirNavigation == QueueSpec => MotionEndsWithNavigation
<1>1. ASSUME QueueInv, [QueueNext]_queueVars, NEW n \in Npcs, WalksForNavigation(n),
             ~(ClipAnswers(n) /\ npc[n].current.kind = "Navigate")
      PROVE  WalksForNavigation(n)'
  <2>1. CASE MoveEnds(n)
    <3> DEFINE v == [npc[n] EXCEPT !.moving = 0]
    <3>1. v \in Controllers /\ v.moving = 0
      BY <1>1, StoppedFields DEF QueueInv, Stopped
    <3>2. [v EXCEPT !.nav = 0].moving = 0 /\ \A s : Completed(v, s).moving = 0
      <4> HIDE DEF v
      <4> QED BY <3>1 DEF Controllers, Completed
    <3>3. \/ npc'[n] = v \/ npc'[n] = [v EXCEPT !.nav = 0]
          \/ \E s : npc'[n] = Completed(v, s)
      <4>1. \A x : Becomes(n, x) => npc'[n] = x
        BY <1>1 DEF QueueInv, Becomes
      <4> QED BY <2>1, <4>1 DEF MoveEnds
    <3> HIDE DEF v
    <3> QED BY <3>1, <3>2, <3>3 DEF WalksForNavigation
  <2>2. CASE CancelActionQueue(n) \/ \E q \in Queues : ReplaceActionQueue(n, q)
    BY <1>1, <2>2, CommandsEndTheWalk DEF WalksForNavigation
  <2>3. CASE KeepsItsAction(n)
    BY <1>1, <2>3 DEF KeepsItsAction, WalksForNavigation
  <2> QED BY <1>1, <2>1, <2>2, <2>3, TicksEndTheWalk, OthersKeepTheAction
<1>2. QueueInv /\ [QueueNext]_queueVars =>
        [\A n \in Npcs : WalksForNavigation(n) /\ ~WalksForNavigation(n)' =>
            ClipAnswers(n) /\ npc[n].current.kind = "Navigate"]_queueVars
  BY <1>1
<1> QED BY <1>2, QueueInvariant, PTL DEF QueueSpec, MotionEndsWithNavigation

LEMMA SuccessHasAReason ==
    ASSUME QueueInv, [QueueNext]_queueVars, NEW n \in Npcs, Ends(n),
           npc'[n].last = "Succeeded"
    PROVE  HasSucceeded(n)
<1> DEFINE v == npc[n]
<1>1. /\ v \in Controllers /\ Fine(v)
      /\ v.current # NoQueueAction /\ npc'[n].current = NoQueueAction
      /\ \A x : Becomes(n, x) => npc'[n] = x
  BY DEF QueueInv, Ends, Becomes
<1>2. CASE PollPhysical(n)
  <2> DEFINE s == IF ReceiptStatus(v.current.id) = "Lost"
                  THEN "Failed" ELSE ReceiptStatus(v.current.id)
  <2>1. npc'[n] = Completed(v, s) /\ v.current.kind = "Physical"
    BY <1>1, <1>2 DEF PollPhysical
  <2>2. s = "Succeeded"
    BY <1>1, <2>1, CompletedFields
  <2> QED BY <2>1, <2>2 DEF ReceiptStatus, HasSucceeded
<1>3. CASE PollAnimation(n)
  <2> DEFINE s == IF v.clip.status = "Stopped" THEN "Failed" ELSE v.clip.status
  <2>1. ClipAnswers(n) /\ v.current.kind # "Physical"
    BY <1>3 DEF PollAnimation, Continues, ClipIsOf, ClipAnswers
  <2>2. PICK d \in Frames : npc'[n] = Completed(Later(v, d), s)
    BY <1>1, <1>3 DEF PollAnimation
  <2>3. s = "Succeeded"
    BY <1>1, <2>2, CompletedFields, LaterIsTyped
  <2> QED BY <2>1, <2>3 DEF HasSucceeded
<1>4. CASE TickRunning(n)
  <2>1. PICK d \in Frames :
          LET z == Later(v, d) IN
          \/ npc'[n] = TimedOut(z)
          \/ /\ z.current.kind = "Wait" /\ z.elapsed >= z.current.duration
             /\ npc'[n] = Completed(z, "Succeeded")
          \/ npc'[n] = z
    BY <1>1, <1>4 DEF TickRunning
  <2> DEFINE z == Later(v, d)
  <2>2. z \in Controllers /\ z.current = v.current
    BY <1>1, LaterIsFine DEF Fine
  <2> HIDE DEF z
  <2>3. TimedOut(z).last = "TimedOut" /\ Completed(z, "Succeeded").elapsed = z.elapsed
    BY <2>2, TimedOutRests, CompletedFields
  <2>4. /\ z.current.kind = "Wait" /\ z.elapsed >= z.current.duration
        /\ npc'[n] = Completed(z, "Succeeded")
    BY <1>1, <2>1, <2>2, <2>3 DEF z
  <2> QED BY <2>2, <2>3, <2>4 DEF HasSucceeded
<1>5. CASE MoveEnds(n)
  <2> DEFINE w == [v EXCEPT !.moving = 0]
  <2>1. w.current = v.current /\ [w EXCEPT !.nav = 0].current = v.current
    BY <1>1 DEF Controllers
  <2>2. npc'[n] # w /\ npc'[n] # [w EXCEPT !.nav = 0]
    BY <1>1, <2>1
  <2> HIDE DEF w
  <2>3. v.moving # 0 /\ v.nav = v.moving /\ w.current.kind = "Navigate"
    BY <1>1, <1>5, <2>2 DEF MoveEnds, Moved, w
  <2> QED BY <2>1, <2>3 DEF HasSucceeded
<1>6. CASE CancelActionQueue(n) \/ \E q \in Queues : ReplaceActionQueue(n, q)
  BY <1>1, <1>6, CommandsEndTheWalk
<1>7. CASE Tick(n)
  BY <1>1, <1>2, <1>3, <1>4, <1>7
     DEF Tick, TickIdle, Starts, StartFails, StartPhysical, StartAnimate, StartNavigate,
         StartWait, StartInstant
<1> QED BY <1>1, <1>5, <1>6, <1>7, OthersKeepTheAction DEF KeepsItsAction

\* No action ends well but by the receipt or the clip that carries its id, by the
\* end of the request that it walks for, or by having waited as long as it should.
THEOREM SuccessesAreAlwaysEarned == QueueSpec => SuccessesAreEarned
<1>1. QueueInv /\ [QueueNext]_queueVars =>
        [\A n \in Npcs :
           Ends(n) /\ npc'[n].last = "Succeeded" => HasSucceeded(n)]_queueVars
  BY SuccessHasAReason
<1> QED BY <1>1, QueueInvariant, PTL DEF QueueSpec, SuccessesAreEarned

===============================================================================
