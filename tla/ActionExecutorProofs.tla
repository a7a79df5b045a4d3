------------------------- MODULE ActionExecutorProofs -------------------------
(***************************************************************************)
(* What the executors guarantee for every set of actors, items, containers *)
(* and requests: types, the reservation discipline, and that every step    *)
(* uses the command ledger only through its operations, so that the        *)
(* theorems about the ledger hold of the whole system.                     *)
(***************************************************************************)
EXTENDS ActionExecutor, CommandLedgerProofs

-------------------------------------------------------------------------------
(***************************************************************************)
(* The operators on worlds return worlds.                                  *)
(***************************************************************************)

LEMMA MoveItemIsTyped ==
    ASSUME NEW w \in Worlds, NEW x \in Actors, NEW p \in Items, NEW place \in Places
    PROVE  MoveItem(w, x, p, place) \in Worlds
BY DEF MoveItem, Worlds

LEMMA RequestFields ==
    ASSUME NEW r \in Requests
    PROVE  /\ r.actor \in Actors
           /\ r.affordance \in Affordances
           /\ r.item \in Items \cup {NoItem}
           /\ r.box \in Containers \cup {NoContainer}
           /\ UsesItem(r) <=> r.item \in Items
           /\ UsesBox(r) <=> r.box \in Containers
           /\ r.affordance \notin ToggleAffordances => UsesItem(r)
           /\ UsesBox(r) /\ UsesItem(r) <=> IsStorage(r)
           /\ UsesBox(r) <=> r.affordance \in StorageAffordances \cup ToggleAffordances
BY RequestsAreWellFormed, KindsAreDisjoint
   DEF WellFormed, UsesItem, UsesBox, IsStorage, StorageAffordances, ToggleAffordances

LEMMA PlaceAfterIsTyped ==
    ASSUME NEW r \in Requests, r.affordance \notin ToggleAffordances
    PROVE  PlaceAfter(r) \in Places
<1>1. r.actor \in Actors /\ (r.affordance = "Insert" => r.box \in Containers)
  BY RequestFields DEF StorageAffordances
<1> QED BY <1>1 DEF PlaceAfter, Places

\* Writing one field of a container leaves a world.
LEMMA BoxFieldsAreTyped ==
    ASSUME NEW w \in Worlds, NEW b \in Containers,
           NEW o \in BOOLEAN, NEW p \in Items \cup {NoItem}
    PROVE  /\ [w EXCEPT !.box[b].open = o] \in Worlds
           /\ [w EXCEPT !.box[b].contents = p] \in Worlds
<1> DEFINE kind == [open : BOOLEAN, contents : Items \cup {NoItem}]
<1>1. \A k \in kind : [k EXCEPT !.open = o] \in kind /\ [k EXCEPT !.contents = p] \in kind
  OBVIOUS
<1>2. w.box \in [Containers -> kind]
  BY DEF Worlds
<1>3. Worlds = [pickup : [Items -> Places], hand : [Actors -> Items \cup {NoItem}],
                box : [Containers -> kind]]
  BY DEF Worlds
<1> HIDE DEF kind
<1>4. /\ [w.box EXCEPT ![b].open = o] \in [Containers -> kind]
      /\ [w.box EXCEPT ![b].contents = p] \in [Containers -> kind]
  BY <1>1, <1>2
<1>5. \A f \in [Containers -> kind] : [w EXCEPT !.box = f] \in Worlds
  BY <1>3
<1> QED BY <1>4, <1>5

LEMMA EffectIsTyped ==
    ASSUME NEW w \in Worlds, NEW r \in Requests
    PROVE  Effect(w, r) \in Worlds
<1>1. CASE r.affordance \in ToggleAffordances
  <2>1. r.box \in Containers /\ (r.affordance = "Open") \in BOOLEAN
    BY <1>1, RequestFields
  <2>2. [w EXCEPT !.box[r.box].open = (r.affordance = "Open")] \in Worlds
    BY <2>1, BoxFieldsAreTyped
  <2> QED BY <1>1, <2>2 DEF Effect
<1>2. CASE r.affordance \notin ToggleAffordances
  <2> DEFINE moved == MoveItem(w, r.actor, r.item, PlaceAfter(r))
  <2>1. moved \in Worlds /\ r.item \in Items
    BY <1>2, RequestFields, PlaceAfterIsTyped, MoveItemIsTyped
  <2>2. Effect(w, r) = IF r.affordance \in StorageAffordances
                       THEN [moved EXCEPT !.box[r.box].contents =
                                IF r.affordance = "Insert" THEN r.item ELSE NoItem]
                       ELSE moved
    BY <1>2 DEF Effect
  <2> HIDE DEF moved
  <2>3. r.affordance \in StorageAffordances =>
          /\ r.box \in Containers
          /\ (IF r.affordance = "Insert" THEN r.item ELSE NoItem) \in Items \cup {NoItem}
    BY <2>1, RequestFields
  <2>4. r.affordance \in StorageAffordances =>
          [moved EXCEPT !.box[r.box].contents =
              IF r.affordance = "Insert" THEN r.item ELSE NoItem] \in Worlds
    BY <2>1, <2>3, BoxFieldsAreTyped
  <2> QED BY <2>1, <2>2, <2>4
<1> QED BY <1>1, <1>2

LEMMA DropFromHandIsTyped ==
    ASSUME NEW w \in Worlds, NEW x \in Actors
    PROVE  DropFromHand(w, x) \in Worlds
<1>1. w.hand[x] \in Items \cup {NoItem} /\ "Free" \in Places
  BY DEF Worlds, Places
<1> QED BY <1>1, MoveItemIsTyped DEF DropFromHand

LEMMA RestoresAreTyped ==
    ASSUME NEW w \in Worlds, NEW a \in Actions
    PROVE  /\ WithBox(w, a) \in Worlds
           /\ \A place \in Places : WithItem(w, a, place) \in Worlds
           /\ Restored(w, a) \in Worlds
           /\ RestoreFailures(w, a) \subseteq Worlds
<1>1. a.request \in Requests /\ a.before.place \in Places /\ "Free" \in Places
  BY DEF Actions, Places
<1>2. WithBox(w, a) \in Worlds
  BY <1>1, RequestFields DEF WithBox, Worlds, Actions
<1>3. \A v \in Worlds, place \in Places : WithItem(v, a, place) \in Worlds
  BY <1>1, RequestFields, MoveItemIsTyped DEF WithItem
<1>4. Restored(w, a) \in Worlds
  BY <1>1, <1>2, <1>3 DEF Restored
<1>5. RestoreFailures(w, a) \subseteq Worlds
  <2> DEFINE cleared == WithItem(WithBox(w, a), a, "Free")
  <2>1. cleared \in Worlds
    BY <1>1, <1>2, <1>3
  <2> HIDE DEF cleared
  <2>2. UsesItem(a.request) =>
            [cleared EXCEPT !.pickup[a.request.item] = a.before.place] \in Worlds
    BY <1>1, <2>1, RequestFields DEF Worlds
  <2>3. RestoreFailures(w, a) =
          {w, WithBox(w, a), cleared, Restored(w, a)} \cup
            (IF UsesItem(a.request)
             THEN {[cleared EXCEPT !.pickup[a.request.item] = a.before.place]} ELSE {})
    BY DEF RestoreFailures, cleared
  <2> QED BY <1>2, <1>4, <2>1, <2>2, <2>3
<1> QED BY <1>2, <1>3, <1>4, <1>5

LEMMA CompensationsAreTyped ==
    ASSUME NEW w \in Worlds, NEW a \in Actions,
           NEW aligned \in BOOLEAN, NEW attempted \in BOOLEAN,
           NEW o \in Compensations(w, a, aligned, attempted)
    PROVE  o.world \in Worlds
<1>1. \A v \in StateOutcomes(w, a) : v.world \in Worlds
  <2>1. Restored(w, a) \in Worlds /\ RestoreFailures(w, a) \subseteq Worlds
    BY RestoresAreTyped
  <2> QED BY <2>1 DEF StateOutcomes
<1> DEFINE base  == IF attempted THEN StateOutcomes(w, a) ELSE {[world |-> w, ok |-> TRUE]}
           poses == IF aligned /\ EngineFaults THEN BOOLEAN ELSE {TRUE}
<1>2. PICK v \in base, pose \in poses : o = [world |-> v.world, ok |-> v.ok /\ pose]
  <2>1. Compensations(w, a, aligned, attempted) =
            {[world |-> v.world, ok |-> v.ok /\ pose] : v \in base, pose \in poses}
    BY DEF Compensations
  <2> HIDE DEF base, poses
  <2>2. o \in {[world |-> v.world, ok |-> v.ok /\ pose] : v \in base, pose \in poses}
    BY <2>1
  <2> QED BY <2>2
<1>3. o.world = v.world
  BY <1>2, Zenon
<1> QED BY <1>1, <1>3

LEMMA RollbackIsTyped ==
    ASSUME NEW o, NEW aligned, NEW attempted
    PROVE  RollbackOf(o, aligned, attempted) \in Rollbacks
BY DEF RollbackOf, Rollbacks

-------------------------------------------------------------------------------
(***************************************************************************)
(* The few ways a step can change actions and reservations, and what every *)
(* step does to the ledger and the world.                                  *)
(***************************************************************************)

\* A command is answered or rejected, or another live command commits.
Idles ==
    /\ \/ \E c \in CommandIds, r \in Requests : ClaimRejected(c, r)
       \/ ImmediateCommit
       \/ UNCHANGED ledgerVars
    /\ UNCHANGED <<active, itemRes, boxRes, lost>>

Accepts(x, c, r) ==
    /\ active[x] = NoAction
    /\ active' = [active EXCEPT ![x] = [command |-> c, request |-> r,
                                        phase |-> "Approach", before |-> Snapshot(r)]]
    /\ ClaimAccepted(c, r, x)
    /\ ~IsLost(r)
    /\ CanReserve(r)
    /\ Reserve(x, c, r)
    /\ UNCHANGED lost

Advances(x) ==
    /\ active[x] # NoAction
    /\ \E phase \in Phases : active' = [active EXCEPT ![x].phase = phase]
    /\ PublishProgress(active[x].command, active[x].request, x, "Running", "None")
    /\ UNCHANGED <<itemRes, boxRes, lost>>

\* The action ends with a terminal receipt and its reservations released, or it
\* is abandoned with neither.
Concludes(x) ==
    /\ active[x] # NoAction
    /\ active' = [active EXCEPT ![x] = NoAction]
    /\ \/ /\ \E s \in Statuses \ {"Running"}, b \in Rollbacks :
               Finalize(active[x].command, active[x].request, x, s, b)
          /\ Release(x, active[x])
       \/ /\ ~Releasable(x, active[x])
          /\ \E s \in FailureStatuses, b \in Rollbacks :
               PublishProgress(active[x].command, active[x].request, x, s, b)
          /\ UNCHANGED <<itemRes, boxRes>>
    /\ UNCHANGED lost

LosesItem(p) ==
    /\ p \in MortalItems
    /\ lost' = lost \cup {p}
    /\ itemRes' = [itemRes EXCEPT ![p] = NoTicket]
    /\ boxRes' = [b \in Containers |->
                    IF itemRes[p] # NoTicket /\ itemRes[p].peer = b THEN NoTicket
                                                                    ELSE boxRes[b]]
    /\ UNCHANGED <<ledgerVars, active>>

StepKind ==
    \/ Idles
    \/ \E c \in CommandIds, r \in Requests : Accepts(r.actor, c, r)
    \/ \E x \in Actors : Advances(x) \/ Concludes(x)
    \/ \E p \in Items : LosesItem(p)

LEMMA ConcludeFailureStep ==
    ASSUME NEW x \in Actors, active[x] # NoAction,
           NEW s \in FailureStatuses, NEW b \in Rollbacks,
           ConcludeFailure(x, s, b), UNCHANGED lost
    PROVE  Concludes(x)
<1> DEFINE a == active[x]
           status == IF b = "Unrestored" THEN "Failed" ELSE s
<1>1. status \in FailureStatuses /\ status \in Statuses \ {"Running"}
  BY DEF FailureStatuses, Statuses
<1>2. /\ \/ Finalize(a.command, a.request, x, status, b) /\ Release(x, a)
         \/ /\ ~Releasable(x, a)
            /\ PublishProgress(a.command, a.request, x, status, b)
            /\ UNCHANGED <<itemRes, boxRes>>
      /\ active' = [active EXCEPT ![x] = NoAction]
  BY DEF ConcludeFailure
<1> HIDE DEF status
<1> QED BY <1>1, <1>2 DEF Concludes

LEMMA FinishFailureStep ==
    ASSUME NEW x \in Actors, active[x] \in Actions, active[x] # NoAction,
           NEW s \in FailureStatuses, NEW aligned \in BOOLEAN, NEW attempted \in BOOLEAN,
           NEW w \in Worlds, FinishFailure(x, s, aligned, attempted, w), UNCHANGED lost
    PROVE  Concludes(x) /\ \E v \in Worlds : SetWorld(v)
<1>1. PICK o \in Compensations(w, active[x], aligned, attempted) :
        /\ ConcludeFailure(x, s, RollbackOf(o, aligned, attempted))
        /\ SetWorld(o.world)
  BY DEF FinishFailure
<1>2. o.world \in Worlds
  BY CompensationsAreTyped
<1>3. RollbackOf(o, aligned, attempted) \in Rollbacks
  BY RollbackIsTyped
<1> QED BY <1>1, <1>2, <1>3, ConcludeFailureStep

LEMMA CompleteSuccessStep ==
    ASSUME NEW x \in Actors, active[x] \in Actions, active[x] # NoAction,
           NEW w \in Worlds, CompleteSuccess(x, w), UNCHANGED lost
    PROVE  Concludes(x) /\ \E v \in Worlds : SetWorld(v)
<1> DEFINE a == active[x]
<1>1. CASE /\ Finalize(a.command, a.request, x, "Succeeded", "None")
           /\ Release(x, a)
           /\ active' = [active EXCEPT ![x] = NoAction]
           /\ SetWorld(w)
  <2>1. "Succeeded" \in Statuses \ {"Running"} /\ "None" \in Rollbacks
    BY DEF Statuses, Rollbacks
  <2> QED BY <1>1, <2>1 DEF Concludes
<1>2. CASE FinishFailure(x, "Failed", TRUE, TRUE, w)
  BY <1>2, FinishFailureStep DEF FailureStatuses
<1> QED BY <1>1, <1>2 DEF CompleteSuccess

LEMMA EnterPhaseStep ==
    ASSUME NEW x \in Actors, active[x] # NoAction,
           NEW phase \in Phases, EnterPhase(x, phase), UNCHANGED <<itemRes, boxRes, lost>>
    PROVE  Advances(x)
BY DEF EnterPhase, Advances

\* Every step of the system is of one of these kinds and leaves a world.
LEMMA StepsAreOfAKind ==
    ASSUME TypeOK, Next
    PROVE  StepKind /\ World' \in Worlds
<1> DEFINE Goal == StepKind /\ \E v \in Worlds : SetWorld(v)
<1>1. /\ World \in Worlds
      /\ \A x \in Actors : active[x] # NoAction => active[x] \in Actions
  BY DEF TypeOK
<1>2. (\E v \in Worlds : SetWorld(v)) => World' \in Worlds
  BY DEF SetWorld, World, Worlds
<1>3. UNCHANGED worldVars => SetWorld(World)
  BY DEF worldVars, SetWorld, World
<1>4. ASSUME NEW c \in CommandIds, NEW r \in Requests, BeginAccepted(c, r)
      PROVE  Goal
  <2>1. r.actor \in Actors
    BY RequestFields
  <2>2. Accepts(r.actor, c, r)
    BY <1>4 DEF BeginAccepted, Accepts
  <2>3. SetWorld(World)
    BY <1>3, <1>4 DEF BeginAccepted
  <2> QED BY <1>1, <2>1, <2>2, <2>3 DEF StepKind
<1>5. ASSUME NEW c \in CommandIds, NEW r \in Requests,
             BeginRejected(c, r) \/ BeginAnswered(c, r)
      PROVE  Goal
  <2>1. Idles /\ UNCHANGED worldVars
    BY <1>5 DEF BeginRejected, BeginAnswered, Idles, vars
  <2> QED BY <1>1, <1>3, <2>1 DEF StepKind
<1>6. ASSUME NEW x \in Actors, NEW phase \in Phases, active[x] # NoAction,
             EnterPhase(x, phase), UNCHANGED <<itemRes, boxRes, lost>>,
             \E v \in Worlds : SetWorld(v)
      PROVE  Goal
  BY <1>1, <1>6, EnterPhaseStep DEF StepKind
<1>7. ASSUME NEW x \in Actors, active[x] # NoAction, UNCHANGED lost,
             NEW s \in FailureStatuses, NEW aligned \in BOOLEAN, NEW attempted \in BOOLEAN,
             NEW w \in Worlds, FinishFailure(x, s, aligned, attempted, w)
      PROVE  Goal
  BY <1>1, <1>7, FinishFailureStep DEF StepKind
<1>8. ASSUME NEW x \in Actors, active[x] # NoAction, UNCHANGED lost,
             NEW w \in Worlds, CompleteSuccess(x, w)
      PROVE  Goal
  BY <1>1, <1>8, CompleteSuccessStep DEF StepKind
<1>9. ASSUME NEW x \in Actors, Tick(x) \/ CancelActiveAction(x)
      PROVE  Goal
  <2> DEFINE a == active[x]
  <2>1. active[x] # NoAction /\ active[x] \in Actions
    BY <1>1, <1>9
       DEF Tick, CancelActiveAction, AdvanceApproach, AdvanceAlign, StartAnimation,
           FailBeforeContact, ContactRefused, ContactCommitted, AdvanceAfterContact,
           TimeOut, InPhase
  <2>2. a.request \in Requests /\ Effect(World, a.request) \in Worlds
    BY <1>1, <2>1, EffectIsTyped DEF Actions
  <2>3. Aligned(a) \in BOOLEAN /\ (a.phase = "Contact") \in BOOLEAN
    BY DEF Aligned
  <2>4. {"Failed", "TimedOut", "Canceled"} \subseteq FailureStatuses
    BY DEF FailureStatuses
  <2>5. {"Align", "Animate", "Playing", "Contact"} \subseteq Phases
    BY DEF Phases
  <2>6. CASE AdvanceApproach(x)
    BY <1>1, <1>3, <1>6, <2>1, <2>5, <2>6 DEF AdvanceApproach
  <2>7. CASE AdvanceAlign(x)
    <3>1. EnterPhase(x, "Animate") /\ UNCHANGED <<worldVars, itemRes, boxRes, lost>>
      BY <2>7 DEF AdvanceAlign
    <3> QED BY <1>1, <1>3, <1>6, <2>1, <2>5, <3>1
  <2>8. CASE StartAnimation(x)
    BY <1>1, <1>3, <1>6, <2>1, <2>5, <2>8 DEF StartAnimation
  <2>9. CASE FailBeforeContact(x)
    <3>1. PICK s \in {"Failed", "TimedOut"}, aligned \in BOOLEAN :
              FinishFailure(x, s, aligned, FALSE, World)
      BY <2>9 DEF FailBeforeContact
    <3>2. UNCHANGED lost
      BY <2>9 DEF FailBeforeContact
    <3> QED BY <1>1, <1>7, <2>1, <2>4, <3>1, <3>2
  <2>10. CASE ContactRefused(x)
    BY <1>1, <1>7, <2>1, <2>4, <2>10 DEF ContactRefused
  <2>11. CASE ContactCommitted(x)
    <3>1. \/ /\ EnterPhase(x, "Contact")
             /\ SetWorld(Effect(World, a.request))
             /\ UNCHANGED <<itemRes, boxRes>>
          \/ \E s \in {"Failed", "TimedOut"} :
                FinishFailure(x, s, TRUE, TRUE, Effect(World, a.request))
          \/ CompleteSuccess(x, Effect(World, a.request))
      BY <2>11 DEF ContactCommitted
    <3>2. UNCHANGED lost
      BY <2>11 DEF ContactCommitted
    <3> QED BY <1>6, <1>7, <1>8, <2>1, <2>2, <2>4, <2>5, <3>1, <3>2
  <2>12. CASE AdvanceAfterContact(x)
    BY <1>1, <1>7, <1>8, <2>1, <2>4, <2>12 DEF AdvanceAfterContact
  <2>13. CASE TimeOut(x)
    BY <1>1, <1>7, <2>1, <2>3, <2>4, <2>13 DEF TimeOut, FinishNow
  <2>14. CASE CancelActiveAction(x)
    BY <1>1, <1>7, <2>1, <2>3, <2>4, <2>14 DEF CancelActiveAction, FinishNow
  <2> QED BY <1>9, <2>6, <2>7, <2>8, <2>9, <2>10, <2>11, <2>12, <2>13, <2>14 DEF Tick
<1>10. ASSUME NEW x \in Actors, PlayerLeaves(x)
       PROVE  Goal
  <2> DEFINE a == active[x]
  <2>1. UNCHANGED lost
    BY <1>10 DEF PlayerLeaves
  <2>2. CASE /\ SetWorld(DropFromHand(World, x))
             /\ UNCHANGED <<ledgerVars, itemRes, boxRes, active>>
    <3>1. Idles
      BY <2>1, <2>2 DEF Idles
    <3> QED BY <1>1, <2>2, <3>1, DropFromHandIsTyped DEF StepKind
  <2>3. CASE /\ InPhase(x, Phases)
             /\ \E o \in Compensations(World, a, Aligned(a), a.phase = "Contact") :
                  /\ ConcludeFailure(x, "Canceled",
                                     RollbackOf(o, Aligned(a), a.phase = "Contact"))
                  /\ SetWorld(DropFromHand(o.world, x))
    <3>1. PICK o \in Compensations(World, a, Aligned(a), a.phase = "Contact") :
                  /\ ConcludeFailure(x, "Canceled",
                                     RollbackOf(o, Aligned(a), a.phase = "Contact"))
                  /\ SetWorld(DropFromHand(o.world, x))
      BY <2>3
    <3>2. active[x] # NoAction /\ active[x] \in Actions
      BY <1>1, <2>3 DEF InPhase
    <3>3. /\ Aligned(a) \in BOOLEAN /\ (a.phase = "Contact") \in BOOLEAN
          /\ "Canceled" \in FailureStatuses
      BY DEF Aligned, FailureStatuses
    <3>4. o.world \in Worlds
      BY <1>1, <3>2, <3>3, CompensationsAreTyped
    <3>5. DropFromHand(o.world, x) \in Worlds
      BY <3>4, DropFromHandIsTyped
    <3>6. RollbackOf(o, Aligned(a), a.phase = "Contact") \in Rollbacks
      BY RollbackIsTyped
    <3>7. Concludes(x)
      BY <2>1, <3>1, <3>2, <3>3, <3>6, ConcludeFailureStep
    <3> QED BY <3>1, <3>5, <3>7 DEF StepKind
  <2> QED BY <1>10, <2>2, <2>3 DEF PlayerLeaves
<1>11. ASSUME NEW p \in Items, ItemEndPlay(p)
       PROVE  Goal
  <2>1. LosesItem(p)
    BY <1>11 DEF ItemEndPlay, LosesItem
  <2> DEFINE w == [World EXCEPT !.hand = [x \in Actors |-> IF hand[x] = p THEN NoItem ELSE hand[x]]]
  <2>2. World.pickup = pickup /\ World.hand = hand /\ World.box = box
    BY DEF World
  <2>3. w \in Worlds
    BY <1>1, <2>2 DEF Worlds
  <2>4. SetWorld(w)
    BY <1>11, <1>1, <2>2 DEF ItemEndPlay, SetWorld, World
  <2> QED BY <2>1, <2>3, <2>4 DEF StepKind
<1>12. ASSUME OtherLiveCommand PROVE Goal
  <2>1. Idles /\ UNCHANGED worldVars
    BY <1>12 DEF OtherLiveCommand, Idles
  <2> QED BY <1>1, <1>3, <2>1 DEF StepKind
<1>13. Goal
  <2> HIDE DEF Goal
  <2> QED BY <1>4, <1>5, <1>9, <1>10, <1>11, <1>12 DEF Next
<1> QED BY <1>2, <1>13

LEMMA OnlyPresentActorsStay ==
    ASSUME present \subseteq Actors, Next
    PROVE  present' \subseteq Actors
<1>1. present' = present \/ \E x \in Players : present' = present \ {x}
  <2>1. ASSUME NEW x \in Actors, Tick(x) \/ CancelActiveAction(x)
        PROVE  present' = present
    BY <2>1 DEF Tick, CancelActiveAction, AdvanceApproach, AdvanceAlign, StartAnimation,
                FailBeforeContact, ContactRefused, ContactCommitted, AdvanceAfterContact, TimeOut
  <2>2. ASSUME NEW c \in CommandIds, NEW r \in Requests,
               BeginAccepted(c, r) \/ BeginRejected(c, r) \/ BeginAnswered(c, r)
        PROVE  present' = present
    BY <2>2 DEF BeginAccepted, BeginRejected, BeginAnswered, vars
  <2> QED BY <2>1, <2>2 DEF Next, PlayerLeaves, ItemEndPlay, OtherLiveCommand
<1> QED BY <1>1

LEMMA SnapshotIsTyped ==
    ASSUME TypeOK, NEW r \in Requests
    PROVE  Snapshot(r) \in [place : Places, box : [open : BOOLEAN, contents : Items \cup {NoItem}]]
<1>1. /\ r.item # NoItem => r.item \in Items
      /\ r.box # NoContainer => r.box \in Containers
  BY RequestFields
<1>2. "Free" \in Places /\ (r.item # NoItem => pickup[r.item] \in Places)
  BY <1>1 DEF TypeOK, Places, World, Worlds
<1>3. r.box # NoContainer => box[r.box] \in [open : BOOLEAN, contents : Items \cup {NoItem}]
  BY <1>1 DEF TypeOK, World, Worlds
<1> QED BY <1>2, <1>3 DEF Snapshot

LEMMA KindsKeepTypes ==
    ASSUME TypeOK, StepKind
    PROVE  /\ itemRes' \in [Items -> ItemTickets \cup {NoTicket}]
           /\ boxRes' \in [Containers -> BoxTickets \cup {NoTicket}]
           /\ active' \in [Actors -> Actions \cup {NoAction}]
           /\ lost' \subseteq Items
<1> USE DEF TypeOK
<1>1. CASE Idles
  BY <1>1 DEF Idles
<1>2. ASSUME NEW c \in CommandIds, NEW r \in Requests, Accepts(r.actor, c, r)
      PROVE  /\ itemRes' \in [Items -> ItemTickets \cup {NoTicket}]
             /\ boxRes' \in [Containers -> BoxTickets \cup {NoTicket}]
             /\ active' \in [Actors -> Actions \cup {NoAction}]
             /\ lost' \subseteq Items
  <2> DEFINE a == [command |-> c, request |-> r, phase |-> "Approach", before |-> Snapshot(r)]
  <2>1. /\ r.actor \in Actors
        /\ r.item \in Items \cup {NoItem} /\ (r.item # NoItem => r.item \in Items)
        /\ r.box \in Containers \cup {NoContainer} /\ (r.box # NoContainer => r.box \in Containers)
    BY RequestFields
  <2>3. a \in Actions
    BY SnapshotIsTyped DEF Actions, Phases
  <2>4. ItemTicket(r.actor, c, r) \in ItemTickets /\ BoxTicket(r.actor, c, r) \in BoxTickets
    BY <2>1 DEF ItemTicket, BoxTicket, Ticket, ItemTickets, BoxTickets
  <2>5. active' \in [Actors -> Actions \cup {NoAction}] /\ lost' \subseteq Items
    <3>1. active' = [active EXCEPT ![r.actor] = a] /\ lost' = lost
      BY <1>2 DEF Accepts
    <3> HIDE DEF a
    <3> QED BY <2>1, <2>3, <3>1
  <2>6. /\ itemRes' \in [Items -> ItemTickets \cup {NoTicket}]
        /\ boxRes' \in [Containers -> BoxTickets \cup {NoTicket}]
    BY <1>2, <2>1, <2>4 DEF Accepts, Reserve
  <2> QED BY <2>5, <2>6
<1>3. ASSUME NEW x \in Actors, Advances(x)
      PROVE  active' \in [Actors -> Actions \cup {NoAction}]
  <2>1. PICK phase \in Phases : active' = [active EXCEPT ![x].phase = phase]
    BY <1>3 DEF Advances
  <2>2. active[x] \in Actions
    BY <1>3 DEF Advances
  <2>3. [active[x] EXCEPT !.phase = phase] \in Actions
    BY <2>2 DEF Actions
  <2> QED BY <2>1, <2>3
<1>4. ASSUME NEW x \in Actors, Concludes(x)
      PROVE  /\ itemRes' \in [Items -> ItemTickets \cup {NoTicket}]
             /\ boxRes' \in [Containers -> BoxTickets \cup {NoTicket}]
             /\ active' \in [Actors -> Actions \cup {NoAction}]
  BY <1>4 DEF Concludes, Release
<1>5. ASSUME NEW p \in Items, LosesItem(p)
      PROVE  /\ itemRes' \in [Items -> ItemTickets \cup {NoTicket}]
             /\ boxRes' \in [Containers -> BoxTickets \cup {NoTicket}]
             /\ lost' \subseteq Items
  BY <1>5 DEF LosesItem
<1>6. ASSUME NEW x \in Actors, Advances(x)
      PROVE  UNCHANGED <<itemRes, boxRes, lost>>
  BY <1>6 DEF Advances
<1>7. ASSUME NEW x \in Actors, Concludes(x)
      PROVE  UNCHANGED lost
  BY <1>7 DEF Concludes
<1>8. ASSUME NEW p \in Items, LosesItem(p)
      PROVE  UNCHANGED active
  BY <1>8 DEF LosesItem
<1> QED BY <1>1, <1>2, <1>3, <1>4, <1>5, <1>6, <1>7, <1>8 DEF StepKind

\* The ledger is used only through its operations.
LEMMA KindsUseTheLedger ==
    ASSUME TypeOK, StepKind
    PROVE  LedgerNext \/ UNCHANGED ledgerVars
<1>1. /\ Executors = Actors
      /\ \A x \in Actors : active[x] # NoAction =>
            active[x].command \in CommandIds /\ active[x].request \in Requests
  BY OneExecutorPerActor DEF TypeOK, Actions
<1>2. CASE Idles
  BY <1>2 DEF Idles, LedgerNext
<1>3. ASSUME NEW c \in CommandIds, NEW r \in Requests, Accepts(r.actor, c, r)
      PROVE  LedgerNext
  BY <1>1, <1>3, RequestFields DEF Accepts, LedgerNext
<1>4. ASSUME NEW x \in Actors, Advances(x)
      PROVE  LedgerNext
  BY <1>1, <1>4 DEF Advances, LedgerNext, ProgressStatuses, Rollbacks
<1>5. ASSUME NEW x \in Actors, Concludes(x)
      PROVE  LedgerNext
  BY <1>1, <1>5 DEF Concludes, LedgerNext, ProgressStatuses
<1>6. ASSUME NEW p \in Items, LosesItem(p)
      PROVE  UNCHANGED ledgerVars
  BY <1>6 DEF LosesItem
<1> QED BY <1>2, <1>3, <1>4, <1>5, <1>6 DEF StepKind

LEMMA TypeInit == Init => TypeOK /\ LedgerInv
<1> SUFFICES ASSUME Init PROVE TypeOK /\ LedgerInv
  OBVIOUS
<1>1. LedgerInv
  BY LedgerInvInit DEF Init
<1>2. World \in Worlds
  BY DEF Init, World, Worlds, Places
<1> QED BY <1>1, <1>2 DEF Init, TypeOK, LedgerInv

LEMMA TypeStep == TypeOK /\ LedgerInv /\ [Next]_vars => TypeOK' /\ LedgerInv'
<1> SUFFICES ASSUME TypeOK, LedgerInv, [Next]_vars PROVE TypeOK' /\ LedgerInv'
  OBVIOUS
<1>1. CASE Next
  <2>1. StepKind /\ World' \in Worlds
    BY <1>1, StepsAreOfAKind
  <2>2. LedgerInv'
    BY <2>1, KindsUseTheLedger, LedgerInvStep
  <2>3. present' \subseteq Actors
    BY <1>1, OnlyPresentActorsStay DEF TypeOK
  <2> QED BY <2>1, <2>2, <2>3, KindsKeepTypes DEF TypeOK, LedgerInv
<1>2. CASE UNCHANGED vars
  <2>1. UNCHANGED ledgerVars
    BY <1>2 DEF vars
  <2>2. LedgerInv'
    BY <2>1, LedgerInvStep
  <2>3. UNCHANGED <<pickup, hand, box, itemRes, boxRes, active, present, lost>>
    BY <1>2 DEF vars, worldVars
  <2> QED BY <2>2, <2>3 DEF TypeOK, World, LedgerInv
<1> QED BY <1>1, <1>2

\* All state of the executors, the participants and the ledger keeps its type.
THEOREM ExecutorIsTyped == Spec => []TypeOK
<1>1. Init => TypeOK /\ LedgerInv
  BY TypeInit
<1>2. TypeOK /\ LedgerInv /\ [Next]_vars => (TypeOK /\ LedgerInv)'
  BY TypeStep
<1> QED BY <1>1, <1>2, PTL DEF Spec

\* The executors use the ledger only through its operations: what is proved of
\* the ledger alone holds in the whole system.
THEOREM ExecutorImplementsLedger == Spec => LedgerSpec
<1>1. Init => LedgerInit
  BY DEF Init
<1>2. TypeOK /\ [Next]_vars => [LedgerNext]_ledgerVars
  <2>1. UNCHANGED vars => UNCHANGED ledgerVars
    BY DEF vars
  <2> QED BY <2>1, StepsAreOfAKind, KindsUseTheLedger
<1> QED BY <1>1, <1>2, ExecutorIsTyped, PTL DEF Spec, LedgerSpec

-------------------------------------------------------------------------------
(***************************************************************************)
(* The reservation discipline.  NoStaleReservation is not inductive alone: *)
(* that an action's end gives back everything it holds rests on the action *)
(* holding all its participants until then, unless its item was destroyed, *)
(* and that on a destroyed item giving back the whole tuple at once.       *)
(***************************************************************************)

HoldsUnlessLost ==
    \A x \in Actors : active[x] # NoAction /\ ~IsLost(active[x].request)
        => ReservedBy(x, active[x])

LostIsFree ==
    /\ \A p \in lost : itemRes[p] = NoTicket
    /\ \A b \in Containers : boxRes[b] # NoTicket =>
         ~IsLost(active[boxRes[b].executor].request)

ReservationInv == NoStaleReservation /\ HoldsUnlessLost /\ LostIsFree

LEMMA TicketFields ==
    /\ \A x, c, r : ItemTicket(x, c, r) = [executor |-> x, command |-> c, peer |-> r.box]
    /\ \A x, c, r : BoxTicket(x, c, r) = [executor |-> x, command |-> c, peer |-> r.item]
BY DEF ItemTicket, BoxTicket, Ticket

\* Reserved participants exist, and their tickets are tickets.
LEMMA HeldTickets ==
    ASSUME TypeOK, NEW x \in Actors, active[x] # NoAction, ReservedBy(x, active[x])
    PROVE  /\ \A p \in Items : active[x].request.item = p =>
                  /\ itemRes[p] # NoTicket
                  /\ itemRes[p] = ItemTicket(x, active[x].command, active[x].request)
           /\ \A b \in Containers : active[x].request.box = b =>
                  /\ boxRes[b] # NoTicket
                  /\ boxRes[b] = BoxTicket(x, active[x].command, active[x].request)
<1> DEFINE a == active[x]
<1>1. a.command \in CommandIds /\ a.request \in Requests
  BY DEF TypeOK, Actions
<1>2. ItemTicket(x, a.command, a.request) # NoTicket /\ BoxTicket(x, a.command, a.request) # NoTicket
  <2>1. /\ ItemTicket(x, a.command, a.request) \in ItemTickets
        /\ BoxTicket(x, a.command, a.request) \in BoxTickets
    BY <1>1, RequestFields, TicketFields DEF ItemTickets, BoxTickets
  <2> QED BY <2>1, NoTicketAssumption
<1>3. /\ a.request.item \in Items => UsesItem(a.request)
      /\ a.request.box \in Containers => UsesBox(a.request)
  BY <1>1, RequestFields
<1> QED BY <1>2, <1>3 DEF ReservedBy

LEMMA IdlesReserve ==
    ASSUME ReservationInv, UNCHANGED <<active, itemRes, boxRes, lost>>
    PROVE  ReservationInv'
BY DEF ReservationInv, NoStaleReservation, HoldsUnlessLost, LostIsFree, IsLost, ReservedBy

LEMMA AcceptsReserve ==
    ASSUME TypeOK, ReservationInv, NEW c \in CommandIds, NEW r \in Requests,
           Accepts(r.actor, c, r), active' \in [Actors -> Actions \cup {NoAction}]
    PROVE  ReservationInv'
<1> DEFINE x == r.actor
<1>1. /\ x \in Actors
      /\ active[x] = NoAction
      /\ active'[x] # NoAction /\ active'[x].command = c /\ active'[x].request = r
      /\ \A y \in Actors \ {x} : active'[y] = active[y]
      /\ lost' = lost /\ ~IsLost(r)
  <2>1. x \in Actors
    BY RequestFields
  <2> DEFINE a == [command |-> c, request |-> r, phase |-> "Approach", before |-> Snapshot(r)]
  <2>2. active' = [active EXCEPT ![x] = a]
    BY DEF Accepts
  <2>3. a.command = c /\ a.request = r
    OBVIOUS
  <2> HIDE DEF a
  <2>4. active'[x] = a
    BY <2>1, <2>2 DEF TypeOK
  <2>5. a \in Actions
    BY SnapshotIsTyped DEF a, Actions, Phases
  <2> QED BY <2>1, <2>2, <2>3, <2>4, <2>5, NoActionAssumption DEF Accepts, TypeOK
<1>2. /\ \A p \in Items : itemRes'[p] = IF r.item = p THEN ItemTicket(x, c, r) ELSE itemRes[p]
      /\ \A b \in Containers : boxRes'[b] = IF r.box = b THEN BoxTicket(x, c, r) ELSE boxRes[b]
      /\ r.item \in Items => itemRes[r.item] = NoTicket
      /\ r.box \in Containers => boxRes[r.box] = NoTicket
  BY RequestFields DEF TypeOK, Accepts, Reserve, CanReserve
<1> HIDE DEF x
<1>3. NoStaleReservation'
  <2>1. ASSUME NEW p \in Items, itemRes'[p] # NoTicket
        PROVE  LET a == active'[itemRes'[p].executor] IN
               a # NoAction /\ a.request.item = p /\ itemRes'[p].command = a.command
    <3>1. CASE r.item = p
      BY <1>1, <1>2, <3>1, TicketFields
    <3>2. CASE r.item # p
      <4>1. itemRes[p] # NoTicket /\ itemRes'[p] = itemRes[p] /\ itemRes[p].executor \in Actors
        BY <1>2, <2>1, <3>2 DEF TypeOK, ItemTickets
      <4>2. itemRes[p].executor # x
        BY <1>1, <4>1 DEF ReservationInv, NoStaleReservation
      <4> QED BY <1>1, <4>1, <4>2 DEF ReservationInv, NoStaleReservation
    <3> QED BY <3>1, <3>2
  <2>2. ASSUME NEW b \in Containers, boxRes'[b] # NoTicket
        PROVE  LET a == active'[boxRes'[b].executor] IN
               a # NoAction /\ a.request.box = b /\ boxRes'[b].command = a.command
    <3>1. CASE r.box = b
      BY <1>1, <1>2, <3>1, TicketFields
    <3>2. CASE r.box # b
      <4>1. boxRes[b] # NoTicket /\ boxRes'[b] = boxRes[b] /\ boxRes[b].executor \in Actors
        BY <1>2, <2>2, <3>2 DEF TypeOK, BoxTickets
      <4>2. boxRes[b].executor # x
        BY <1>1, <4>1 DEF ReservationInv, NoStaleReservation
      <4> QED BY <1>1, <4>1, <4>2 DEF ReservationInv, NoStaleReservation
    <3> QED BY <3>1, <3>2
  <2> QED BY <2>1, <2>2 DEF NoStaleReservation
<1>4. HoldsUnlessLost'
  <2> SUFFICES ASSUME NEW y \in Actors, active'[y] # NoAction, ~IsLost(active[y].request)'
               PROVE  ReservedBy(y, active[y])'
    BY DEF HoldsUnlessLost
  <2>1. CASE y = x
    BY <1>1, <1>2, <2>1, RequestFields DEF ReservedBy
  <2>2. CASE y # x
    <3>1. active'[y] = active[y] /\ active[y] # NoAction /\ ~IsLost(active[y].request)
      BY <1>1, <2>2 DEF IsLost
    <3>2. ReservedBy(y, active[y])
      BY <3>1 DEF ReservationInv, HoldsUnlessLost
    <3>3. active[y].request \in Requests
      BY <3>1 DEF TypeOK, Actions
    <3> QED BY <1>2, <3>1, <3>2, <3>3, HeldTickets, RequestFields DEF ReservedBy
  <2> QED BY <2>1, <2>2
<1>5. LostIsFree'
  <2>1. \A p \in lost : itemRes'[p] = NoTicket
    BY <1>1, <1>2 DEF ReservationInv, LostIsFree, IsLost, TypeOK
  <2>2. ASSUME NEW b \in Containers, boxRes'[b] # NoTicket
        PROVE  active'[boxRes'[b].executor].request.item \notin lost
    <3>1. CASE r.box = b
      BY <1>1, <1>2, <3>1, TicketFields DEF IsLost
    <3>2. CASE r.box # b
      <4>1. boxRes[b] # NoTicket /\ boxRes'[b] = boxRes[b] /\ boxRes[b].executor \in Actors
        BY <1>2, <2>2, <3>2 DEF TypeOK, BoxTickets
      <4>2. boxRes[b].executor # x
        BY <1>1, <4>1 DEF ReservationInv, NoStaleReservation
      <4> QED BY <1>1, <4>1, <4>2 DEF ReservationInv, LostIsFree, IsLost
    <3> QED BY <3>1, <3>2
  <2> QED BY <1>1, <2>1, <2>2 DEF LostIsFree, IsLost
<1> QED BY <1>3, <1>4, <1>5 DEF ReservationInv

LEMMA AdvancesReserve ==
    ASSUME TypeOK, ReservationInv, NEW x \in Actors, Advances(x),
           active' \in [Actors -> Actions \cup {NoAction}]
    PROVE  ReservationInv'
<1>1. PICK phase \in Phases : active' = [active EXCEPT ![x].phase = phase]
  BY DEF Advances
<1>2. /\ \A y \in Actors \ {x} : active'[y] = active[y]
      /\ active'[x] = [active[x] EXCEPT !.phase = phase]
      /\ active[x] # NoAction /\ active[x] \in Actions
      /\ UNCHANGED <<itemRes, boxRes, lost>>
  BY <1>1 DEF Advances, TypeOK
<1>3. active'[x] \in Actions
  BY <1>2 DEF Actions
<1>4. \A y \in Actors :
        /\ active'[y] # NoAction <=> active[y] # NoAction
        /\ active[y] # NoAction => /\ active'[y].command = active[y].command
                                   /\ active'[y].request = active[y].request
  BY <1>2, <1>3, NoActionAssumption DEF Actions
<1>5. /\ \A p \in Items : itemRes[p] # NoTicket => itemRes[p].executor \in Actors
      /\ \A b \in Containers : boxRes[b] # NoTicket => boxRes[b].executor \in Actors
  BY DEF TypeOK, ItemTickets, BoxTickets
<1>6. NoStaleReservation'
  BY <1>2, <1>4, <1>5 DEF ReservationInv, NoStaleReservation
<1>7. HoldsUnlessLost'
  BY <1>2, <1>4 DEF ReservationInv, HoldsUnlessLost, IsLost, ReservedBy
<1>8. LostIsFree'
  BY <1>2, <1>4, <1>5 DEF ReservationInv, NoStaleReservation, LostIsFree, IsLost
<1> QED BY <1>6, <1>7, <1>8 DEF ReservationInv

\* An action that ends holds nothing any more, even if its release failed.
LEMMA ConcludesReserve ==
    ASSUME TypeOK, ReservationInv, NEW x \in Actors, Concludes(x)
    PROVE  ReservationInv'
<1> DEFINE a == active[x]
<1>1. /\ \A y \in Actors \ {x} : active'[y] = active[y]
      /\ active'[x] = NoAction /\ a # NoAction /\ a \in Actions
      /\ UNCHANGED lost
  BY DEF Concludes, TypeOK
<1>2. /\ \A p \in Items : itemRes[p] # NoTicket => itemRes[p].executor \in Actors
      /\ \A b \in Containers : boxRes[b] # NoTicket => boxRes[b].executor \in Actors
  BY DEF TypeOK, ItemTickets, BoxTickets
<1>3. /\ \A p \in Items : itemRes'[p] =
            IF itemRes[p] # NoTicket /\ itemRes[p].executor = x THEN NoTicket ELSE itemRes[p]
      /\ \A b \in Containers : boxRes'[b] =
            IF boxRes[b] # NoTicket /\ boxRes[b].executor = x THEN NoTicket ELSE boxRes[b]
  <2>1. CASE Release(x, a)
    BY <2>1 DEF Release, IsTicketOf, ReservationInv, NoStaleReservation
  <2>2. CASE ~Releasable(x, a) /\ UNCHANGED <<itemRes, boxRes>>
    <3>1. IsLost(a.request)
      BY <1>1, <2>2 DEF Releasable, ReservationInv, HoldsUnlessLost
    <3>2. \A p \in Items : itemRes[p] # NoTicket => itemRes[p].executor # x
      BY <3>1 DEF IsLost, ReservationInv, NoStaleReservation, LostIsFree
    <3>3. \A b \in Containers : boxRes[b] # NoTicket => boxRes[b].executor # x
      BY <3>1 DEF ReservationInv, LostIsFree
    <3> QED BY <2>2, <3>2, <3>3
  <2> QED BY <2>1, <2>2 DEF Concludes
<1>4. NoStaleReservation'
  BY <1>1, <1>2, <1>3 DEF ReservationInv, NoStaleReservation
<1>5. HoldsUnlessLost'
  <2> SUFFICES ASSUME NEW y \in Actors, active'[y] # NoAction, ~IsLost(active[y].request)'
               PROVE  ReservedBy(y, active[y])'
    BY DEF HoldsUnlessLost
  <2>1. y # x /\ active'[y] = active[y] /\ ~IsLost(active[y].request)
    BY <1>1 DEF IsLost
  <2>2. ReservedBy(y, active[y]) /\ active[y].request \in Requests
    BY <2>1 DEF ReservationInv, HoldsUnlessLost, TypeOK, Actions
  <2>3. \A p \in Items : itemRes[p] = ItemTicket(y, active[y].command, active[y].request)
            => itemRes'[p] = itemRes[p]
    BY <1>3, <2>1, TicketFields
  <2>4. \A b \in Containers : boxRes[b] = BoxTicket(y, active[y].command, active[y].request)
            => boxRes'[b] = boxRes[b]
    BY <1>3, <2>1, TicketFields
  <2> QED BY <2>1, <2>2, <2>3, <2>4, RequestFields DEF ReservedBy
<1>6. LostIsFree'
  BY <1>1, <1>2, <1>3 DEF ReservationInv, LostIsFree, IsLost, TypeOK
<1> QED BY <1>4, <1>5, <1>6 DEF ReservationInv

\* A destroyed item gives back its reservation and its container's together.
LEMMA LosesItemReserve ==
    ASSUME TypeOK, ReservationInv, NEW p \in Items, LosesItem(p)
    PROVE  ReservationInv'
<1>1. /\ UNCHANGED active
      /\ lost' = lost \cup {p}
      /\ itemRes'[p] = NoTicket
      /\ \A q \in Items \ {p} : itemRes'[q] = itemRes[q]
      /\ \A b \in Containers : boxRes'[b] =
            IF itemRes[p] # NoTicket /\ itemRes[p].peer = b THEN NoTicket ELSE boxRes[b]
  BY DEF LosesItem, TypeOK
<1>2. /\ \A q \in Items : itemRes[q] # NoTicket => itemRes[q].executor \in Actors
      /\ \A b \in Containers : boxRes[b] # NoTicket => boxRes[b].executor \in Actors
  BY DEF TypeOK, ItemTickets, BoxTickets
<1>3. NoStaleReservation'
  BY <1>1 DEF ReservationInv, NoStaleReservation
\* The container released with the item is the one its executor reserved.
<1>4. ASSUME NEW b \in Containers, itemRes[p] # NoTicket, itemRes[p].peer = b
      PROVE  \E y \in Actors : /\ active[y] # NoAction
                                /\ active[y].request.item = p
                                /\ boxRes[b] = BoxTicket(y, active[y].command, active[y].request)
  <2> DEFINE y == itemRes[p].executor
  <2>1. /\ y \in Actors /\ active[y] # NoAction /\ active[y].request.item = p
        /\ p \notin lost
    BY <1>2, <1>4 DEF ReservationInv, NoStaleReservation, LostIsFree
  <2>2. ReservedBy(y, active[y])
    BY <2>1 DEF IsLost, ReservationInv, HoldsUnlessLost
  <2>3. itemRes[p] = ItemTicket(y, active[y].command, active[y].request)
    BY <2>1, <2>2, HeldTickets
  <2>4. active[y].request.box = b
    BY <1>4, <2>3, TicketFields
  <2> QED BY <2>1, <2>2, <2>4, HeldTickets
<1>5. HoldsUnlessLost'
  <2> SUFFICES ASSUME NEW x \in Actors, active'[x] # NoAction, ~IsLost(active[x].request)'
               PROVE  ReservedBy(x, active[x])'
    BY DEF HoldsUnlessLost
  <2>1. /\ active[x] # NoAction /\ active'[x] = active[x] /\ ~IsLost(active[x].request)
        /\ active[x].request.item # p
    BY <1>1 DEF IsLost
  <2>2. ReservedBy(x, active[x]) /\ active[x].request \in Requests
    BY <2>1 DEF ReservationInv, HoldsUnlessLost, TypeOK, Actions
  <2>3. \A b \in Containers : active[x].request.box = b => boxRes'[b] = boxRes[b]
    <3> SUFFICES ASSUME NEW b \in Containers, active[x].request.box = b,
                        itemRes[p] # NoTicket, itemRes[p].peer = b
                 PROVE  FALSE
      BY <1>1
    <3>1. boxRes[b] = BoxTicket(x, active[x].command, active[x].request)
      BY <2>1, <2>2, HeldTickets
    <3> QED BY <1>4, <2>1, <3>1, TicketFields
  <2> QED BY <1>1, <2>1, <2>2, <2>3, RequestFields DEF ReservedBy
<1>6. LostIsFree'
  <2>1. ASSUME NEW b \in Containers, boxRes'[b] # NoTicket
        PROVE  ~IsLost(active[boxRes[b].executor].request)'
    <3> DEFINE y == boxRes[b].executor
    <3>1. /\ boxRes'[b] = boxRes[b] /\ boxRes[b] # NoTicket /\ y \in Actors
          /\ active[y] # NoAction /\ active[y].request.box = b
          /\ ~IsLost(active[y].request)
      BY <1>1, <1>2, <2>1 DEF ReservationInv, NoStaleReservation, LostIsFree
    <3>2. active[y].request.item # p
      <4> SUFFICES ASSUME active[y].request.item = p PROVE FALSE
        OBVIOUS
      <4>1. ReservedBy(y, active[y])
        BY <3>1 DEF ReservationInv, HoldsUnlessLost
      <4>2. itemRes[p] # NoTicket /\ itemRes[p].peer = b
        BY <3>1, <4>1, HeldTickets, TicketFields
      <4> QED BY <1>1, <2>1, <4>2
    <3> QED BY <1>1, <3>1, <3>2 DEF IsLost
  <2> QED BY <1>1, <2>1 DEF ReservationInv, LostIsFree, TypeOK
<1> QED BY <1>3, <1>5, <1>6 DEF ReservationInv

LEMMA ReservationInit == Init => ReservationInv
<1> SUFFICES ASSUME Init PROVE ReservationInv
  OBVIOUS
<1>1. /\ \A p \in Items : itemRes[p] = NoTicket
      /\ \A b \in Containers : boxRes[b] = NoTicket
      /\ \A x \in Actors : active[x] = NoAction
      /\ lost = {}
  BY DEF Init
<1> QED BY <1>1 DEF ReservationInv, NoStaleReservation, HoldsUnlessLost, LostIsFree

LEMMA ReservationStep == TypeOK /\ ReservationInv /\ [Next]_vars => ReservationInv'
<1> SUFFICES ASSUME TypeOK, ReservationInv, [Next]_vars PROVE ReservationInv'
  OBVIOUS
<1>1. CASE UNCHANGED vars
  <2>1. UNCHANGED <<active, itemRes, boxRes, lost>>
    BY <1>1 DEF vars
  <2> QED BY <2>1, IdlesReserve
<1>2. CASE Next
  <2>1. StepKind
    BY <1>2, StepsAreOfAKind
  <2>2. active' \in [Actors -> Actions \cup {NoAction}]
    BY <2>1, KindsKeepTypes
  <2>3. CASE Idles
    BY <2>3, IdlesReserve DEF Idles
  <2> QED BY <2>1, <2>2, <2>3, AcceptsReserve, AdvancesReserve, ConcludesReserve, LosesItemReserve
          DEF StepKind
<1> QED BY <1>1, <1>2

\* Reservations and running actions stay matched in both directions, but for the
\* participants of an item that was destroyed under its action.
THEOREM ReservationInvariant == Spec => []ReservationInv
<1>1. Init => ReservationInv
  BY ReservationInit
<1>2. TypeOK /\ ReservationInv /\ [Next]_vars => ReservationInv'
  BY ReservationStep
<1> QED BY <1>1, <1>2, ExecutorIsTyped, PTL DEF Spec

\* No reservation of an item or a container outlives the action it was made for,
\* whatever ends the action and whatever items are destroyed meanwhile.
THEOREM ReservationsEndWithTheirAction == Spec => []NoStaleReservation
<1>1. ReservationInv => NoStaleReservation
  BY DEF ReservationInv
<1> QED BY <1>1, ReservationInvariant, PTL

LEMMA NothingIsLost ==
    ASSUME MortalItems = {}
    PROVE  Spec => [](lost = {})
<1>1. Init => lost = {}
  BY DEF Init
<1>2. TypeOK /\ lost = {} /\ [Next]_vars => (lost = {})'
  <2> SUFFICES ASSUME TypeOK, lost = {}, [Next]_vars PROVE lost' = {}
    OBVIOUS
  <2>1. CASE Next
    <3>1. StepKind
      BY <2>1, StepsAreOfAKind
    <3> QED BY <3>1 DEF StepKind, Idles, Accepts, Advances, Concludes, LosesItem
  <2>2. CASE UNCHANGED vars
    BY <2>2 DEF vars
  <2> QED BY <2>1, <2>2
<1> QED BY <1>1, <1>2, ExecutorIsTyped, PTL DEF Spec

\* Unless items are destroyed, a running action holds its item and its container.
THEOREM RunningActionsHoldTheirTargets ==
    ASSUME MortalItems = {}
    PROVE  Spec => []ActionsHoldTheirTargets
<1>1. Spec => [](lost = {})
  BY NothingIsLost
<1>2. ReservationInv /\ lost = {} => ActionsHoldTheirTargets
  BY DEF ReservationInv, HoldsUnlessLost, IsLost, ActionsHoldTheirTargets
<1> QED BY <1>1, <1>2, ReservationInvariant, PTL

-------------------------------------------------------------------------------
(***************************************************************************)
(* The ledger and the executors agree on what is running.                  *)
(***************************************************************************)

\* Every running action can still publish and finalize its receipt.
ActionsOwnTheirEntries ==
    \A x \in Actors : active[x] # NoAction =>
        IsOpenFor(active[x].command, active[x].request, x)

LinkInv == ActionsOwnTheirEntries /\ OrphansNameLostItems

LEMMA IdlesLink ==
    ASSUME TypeOK, LedgerInv, LinkInv, Idles
    PROVE  LinkInv'
<1>1. CASE UNCHANGED ledger
  BY <1>1 DEF Idles, LinkInv, ActionsOwnTheirEntries, OrphansNameLostItems, IsOpenFor, Known,
              RunsCommand, IsLost
<1>2. ASSUME NEW d \in CommandIds, NEW r \in Requests, ClaimRejected(d, r)
      PROVE  LinkInv'
  <2> DEFINE e == TerminalEntry(r, "Failed", "None")
  <2>1. e \in Entries /\ e.terminal
    BY EntriesAreTyped DEF Statuses, Rollbacks, TerminalEntry
  <2>2. AddEntry(d, e) /\ ledger[d] = NoEntry
    BY <1>2, ClaimedIsNew DEF ClaimRejected
  <2> HIDE DEF e
  <2>3. /\ ledger'[d] = e
        /\ \A c \in CommandIds \ {d} :
             ledger'[c] = ledger[c] \/ (ledger'[c] = NoEntry /\ ledger[c].terminal)
    BY <2>1, <2>2, AddEntryMap DEF LedgerInv
  <2>4. ActionsOwnTheirEntries'
    <3>1. \A x \in Actors : active[x] # NoAction => active[x].command \in CommandIds
      BY DEF TypeOK, Actions
    <3> QED BY <2>2, <2>3, <3>1 DEF Idles, LinkInv, ActionsOwnTheirEntries, IsOpenFor
  <2>5. OrphansNameLostItems'
    BY <2>1, <2>2, <2>3
       DEF Idles, LinkInv, OrphansNameLostItems, Known, RunsCommand, IsLost
  <2> QED BY <2>4, <2>5 DEF LinkInv
<1> QED BY <1>1, <1>2 DEF Idles, ImmediateCommit, ledgerVars

\* The owner of an open entry is an actor.
LEMMA OwnersAreActors ==
    ASSUME LedgerInv, NEW c \in Known, ~ledger[c].terminal
    PROVE  c \in CommandIds /\ ledger[c] \in Entries /\ ledger[c].owner \in Actors
<1>1. c \in CommandIds /\ ledger[c] # NoEntry
  BY DEF Known
<1>2. ledger[c] \in Entries
  BY <1>1 DEF LedgerInv, LedgerTypeOK
<1>3. ledger[c].owner \in Executors \cup {NoExecutor} /\ ledger[c].owner # NoExecutor
  BY <1>2 DEF Entries, LedgerInv, OwnedWhileOpen
<1> QED BY <1>1, <1>2, <1>3, OneExecutorPerActor

LEMMA AcceptsLink ==
    ASSUME TypeOK, LedgerInv, LinkInv, NEW c \in CommandIds, NEW r \in Requests,
           Accepts(r.actor, c, r), active' \in [Actors -> Actions \cup {NoAction}]
    PROVE  LinkInv'
<1> DEFINE x == r.actor
           e == RunningEntry(r, x)
<1>1. x \in Actors /\ x \in Executors
  BY RequestFields, OneExecutorPerActor
<1>2. /\ e \in Entries /\ e # NoEntry
      /\ e.request = r /\ e.owner = x /\ e.terminal = FALSE
  BY <1>1, EntriesAreTyped, NoEntryAssumption DEF RunningEntry
<1>3. AddEntry(c, e) /\ ledger[c] = NoEntry
  BY ClaimedIsNew DEF Accepts, ClaimAccepted
<1> DEFINE a == [command |-> c, request |-> r, phase |-> "Approach", before |-> Snapshot(r)]
<1>4. /\ active[x] = NoAction
      /\ active' = [active EXCEPT ![x] = a]
      /\ a.command = c /\ a.request = r
      /\ UNCHANGED lost
  BY DEF Accepts
<1> HIDE DEF x, e, a
<1>5. /\ ledger'[c] = e
      /\ \A d \in CommandIds \ {c} :
           ledger'[d] = ledger[d] \/ (ledger'[d] = NoEntry /\ ledger[d].terminal)
  BY <1>2, <1>3, AddEntryMap DEF LedgerInv
<1>6. active'[x] = a /\ a # NoAction /\ \A y \in Actors \ {x} : active'[y] = active[y]
  <2>1. active'[x] = a /\ \A y \in Actors \ {x} : active'[y] = active[y]
    BY <1>1, <1>4 DEF TypeOK
  <2>2. a \in Actions
    <3>1. a \in Actions \cup {NoAction}
      BY <1>1, <2>1
    <3> QED BY <3>1, SnapshotIsTyped DEF a, Actions, Phases
  <2> QED BY <2>1, <2>2, NoActionAssumption
<1>7. ActionsOwnTheirEntries'
  <2> SUFFICES ASSUME NEW y \in Actors, active'[y] # NoAction
               PROVE  IsOpenFor(active[y].command, active[y].request, y)'
    BY DEF ActionsOwnTheirEntries
  <2>1. CASE y = x
    BY <1>2, <1>4, <1>5, <1>6, <2>1 DEF IsOpenFor
  <2>2. CASE y # x
    <3>1. active'[y] = active[y] /\ active[y].command \in CommandIds
      BY <1>6, <2>2 DEF TypeOK, Actions
    <3> QED BY <1>3, <1>5, <3>1 DEF LinkInv, ActionsOwnTheirEntries, IsOpenFor
  <2> QED BY <2>1, <2>2
<1>8. OrphansNameLostItems'
  <2> SUFFICES ASSUME NEW d \in CommandIds, ledger'[d] # NoEntry, ~ledger'[d].terminal
               PROVE  \/ RunsCommand(ledger[d].owner, d)'
                      \/ IsLost(ledger[d].request)' /\ ledger'[d].status \in FailureStatuses
    BY DEF OrphansNameLostItems, Known
  <2>1. CASE d = c
    BY <1>2, <1>4, <1>5, <1>6, <2>1 DEF RunsCommand
  <2>2. CASE d # c
    <3>1. ledger'[d] = ledger[d] /\ d \in Known
      BY <1>5, <2>2 DEF Known
    <3>2. ledger[d].owner \in Actors
      BY <3>1, OwnersAreActors
    <3> QED BY <1>4, <1>6, <3>1, <3>2
            DEF LinkInv, OrphansNameLostItems, RunsCommand, IsLost
  <2> QED BY <2>1, <2>2
<1> QED BY <1>7, <1>8 DEF LinkInv

LEMMA AdvancesLink ==
    ASSUME TypeOK, LedgerInv, LinkInv, NEW x \in Actors, Advances(x),
           active' \in [Actors -> Actions \cup {NoAction}]
    PROVE  LinkInv'
<1> DEFINE c == active[x].command
<1>1. PICK phase \in Phases : active' = [active EXCEPT ![x].phase = phase]
  BY DEF Advances
<1>2. /\ \A y \in Actors \ {x} : active'[y] = active[y]
      /\ active'[x] = [active[x] EXCEPT !.phase = phase]
      /\ active[x] # NoAction /\ active[x] \in Actions
      /\ UNCHANGED lost
  BY <1>1 DEF Advances, TypeOK
<1>3. active'[x] \in Actions
  BY <1>2 DEF Actions
<1>4. \A y \in Actors :
        /\ active'[y] # NoAction <=> active[y] # NoAction
        /\ active[y] # NoAction => /\ active'[y].command = active[y].command
                                   /\ active'[y].request = active[y].request
  BY <1>2, <1>3, NoActionAssumption DEF Actions
<1>5. /\ c \in CommandIds
      /\ ledger[c] # NoEntry /\ ledger[c] \in Entries
      /\ ledger' = [ledger EXCEPT ![c] = [ledger[c] EXCEPT !.status = "Running", !.rollback = "None"]]
      /\ ledger[c].owner = x /\ ledger[c].request = active[x].request /\ ~ledger[c].terminal
  BY <1>2 DEF Advances, PublishProgress, IsOpenFor, LedgerInv, LedgerTypeOK, Actions
<1>6. \A d \in CommandIds \ {c} : ledger'[d] = ledger[d]
  BY <1>5 DEF LedgerInv, LedgerTypeOK
<1>7. /\ ledger'[c] \in Entries /\ ledger'[c].owner = x
      /\ ledger'[c].request = active[x].request /\ ledger'[c].terminal = ledger[c].terminal
  BY <1>5 DEF LedgerInv, LedgerTypeOK, Entries, Statuses, Rollbacks
<1> HIDE DEF c
<1>8. ActionsOwnTheirEntries'
  <2> SUFFICES ASSUME NEW y \in Actors, active'[y] # NoAction
               PROVE  IsOpenFor(active[y].command, active[y].request, y)'
    BY DEF ActionsOwnTheirEntries
  <2>1. CASE y = x
    BY <1>2, <1>4, <1>5, <1>7, <2>1, NoEntryAssumption DEF IsOpenFor, c
  <2>2. CASE y # x
    <3>1. /\ active[y] # NoAction /\ active[y].command \in CommandIds
          /\ IsOpenFor(active[y].command, active[y].request, y)
      BY <1>4 DEF LinkInv, ActionsOwnTheirEntries, TypeOK, Actions
    <3>2. active[y].command # c
      BY <1>5, <2>2, <3>1 DEF IsOpenFor
    <3> QED BY <1>4, <1>6, <3>1, <3>2 DEF IsOpenFor
  <2> QED BY <2>1, <2>2
<1>9. OrphansNameLostItems'
  <2> SUFFICES ASSUME NEW d \in CommandIds, ledger'[d] # NoEntry, ~ledger'[d].terminal
               PROVE  \/ RunsCommand(ledger[d].owner, d)'
                      \/ IsLost(ledger[d].request)' /\ ledger'[d].status \in FailureStatuses
    BY DEF OrphansNameLostItems, Known
  <2>1. CASE d = c
    BY <1>2, <1>4, <1>7, <2>1 DEF RunsCommand, c
  <2>2. CASE d # c
    <3>1. ledger'[d] = ledger[d] /\ d \in Known
      BY <1>6, <2>2 DEF Known
    <3>2. ledger[d].owner \in Actors
      BY <3>1, OwnersAreActors
    <3> QED BY <1>2, <1>4, <3>1, <3>2
            DEF LinkInv, OrphansNameLostItems, RunsCommand, IsLost
  <2> QED BY <2>1, <2>2
<1> QED BY <1>8, <1>9 DEF LinkInv

LEMMA ConcludesLink ==
    ASSUME TypeOK, LedgerInv, LinkInv, ReservationInv, NEW x \in Actors, Concludes(x)
    PROVE  LinkInv'
<1> DEFINE a == active[x]
           c == a.command
<1>1. /\ \A y \in Actors \ {x} : active'[y] = active[y]
      /\ active'[x] = NoAction /\ a # NoAction /\ a \in Actions
      /\ a.command \in CommandIds /\ a.request \in Requests
      /\ UNCHANGED lost
  BY DEF Concludes, TypeOK, Actions
<1>2. /\ \A d \in CommandIds \ {c} : ledger'[d] = ledger[d]
      /\ ledger[c] # NoEntry /\ ledger[c].owner = x
      /\ \/ ledger'[c].terminal
         \/ /\ IsLost(a.request)
            /\ ledger'[c].request = a.request /\ ledger'[c].status \in FailureStatuses
  <2>1. ledger \in [CommandIds -> Entries \cup {NoEntry}]
    BY DEF LedgerInv, LedgerTypeOK
  <2>2. ASSUME NEW s \in Statuses \ {"Running"}, NEW b \in Rollbacks,
               Finalize(c, a.request, x, s, b)
        PROVE  /\ \A d \in CommandIds \ {c} : ledger'[d] = ledger[d]
               /\ ledger[c] # NoEntry /\ ledger[c].owner = x
               /\ ledger'[c].terminal
    BY <1>1, <2>1, <2>2 DEF Finalize, IsOpenFor, TerminalEntry
  <2>3. ASSUME ~Releasable(x, a), NEW s \in FailureStatuses, NEW b \in Rollbacks,
               PublishProgress(c, a.request, x, s, b)
        PROVE  /\ \A d \in CommandIds \ {c} : ledger'[d] = ledger[d]
               /\ ledger[c] # NoEntry /\ ledger[c].owner = x
               /\ IsLost(a.request)
               /\ ledger'[c].request = a.request /\ ledger'[c].status \in FailureStatuses
    <3>1. IsLost(a.request)
      BY <1>1, <2>3 DEF Releasable, ReservationInv, HoldsUnlessLost
    <3>2. /\ ledger[c] # NoEntry /\ ledger[c].owner = x /\ ledger[c].request = a.request
          /\ ledger[c] \in Entries
          /\ ledger' = [ledger EXCEPT ![c] = [ledger[c] EXCEPT !.status = s, !.rollback = b]]
      BY <1>1, <2>1, <2>3 DEF PublishProgress, IsOpenFor
    <3>3. ledger'[c].request = a.request /\ ledger'[c].status = s
      BY <1>1, <2>1, <3>2 DEF Entries
    <3> QED BY <1>1, <2>1, <3>1, <3>2, <3>3
  <2> QED BY <2>2, <2>3 DEF Concludes
<1> HIDE DEF c
<1>3. ActionsOwnTheirEntries'
  <2> SUFFICES ASSUME NEW y \in Actors, active'[y] # NoAction
               PROVE  IsOpenFor(active[y].command, active[y].request, y)'
    BY DEF ActionsOwnTheirEntries
  <2>1. y # x /\ active'[y] = active[y]
    BY <1>1
  <2>2. active[y].command \in CommandIds /\ IsOpenFor(active[y].command, active[y].request, y)
    BY <2>1 DEF LinkInv, ActionsOwnTheirEntries, TypeOK, Actions
  <2>3. active[y].command # c
    BY <1>2, <2>1, <2>2 DEF IsOpenFor
  <2> QED BY <1>2, <2>1, <2>2, <2>3 DEF IsOpenFor
<1>4. OrphansNameLostItems'
  <2> SUFFICES ASSUME NEW d \in CommandIds, ledger'[d] # NoEntry, ~ledger'[d].terminal
               PROVE  \/ RunsCommand(ledger[d].owner, d)'
                      \/ IsLost(ledger[d].request)' /\ ledger'[d].status \in FailureStatuses
    BY DEF OrphansNameLostItems, Known
  <2>1. CASE d = c
    BY <1>1, <1>2, <2>1 DEF IsLost
  <2>2. CASE d # c
    <3>1. ledger'[d] = ledger[d] /\ d \in Known
      BY <1>2, <2>2 DEF Known
    <3>2. ledger[d].owner \in Actors
      BY <3>1, OwnersAreActors
    <3>3. RunsCommand(ledger[d].owner, d) => ledger[d].owner # x
      BY <2>2 DEF RunsCommand, c
    <3> QED BY <1>1, <3>1, <3>2, <3>3
            DEF LinkInv, OrphansNameLostItems, RunsCommand, IsLost
  <2> QED BY <2>1, <2>2
<1> QED BY <1>3, <1>4 DEF LinkInv

LEMMA LosesItemLink ==
    ASSUME LinkInv, NEW p \in Items, LosesItem(p)
    PROVE  LinkInv'
BY DEF LosesItem, ledgerVars, LinkInv, ActionsOwnTheirEntries, OrphansNameLostItems,
       IsOpenFor, Known, RunsCommand, IsLost

LEMMA LinkInit == Init => LinkInv
<1> SUFFICES ASSUME Init PROVE LinkInv
  OBVIOUS
<1>1. /\ \A c \in CommandIds : ledger[c] = NoEntry
      /\ \A x \in Actors : active[x] = NoAction
  BY DEF Init, LedgerInit
<1> QED BY <1>1 DEF LinkInv, ActionsOwnTheirEntries, OrphansNameLostItems, Known

LEMMA LinkStep ==
    TypeOK /\ LedgerInv /\ ReservationInv /\ LinkInv /\ [Next]_vars => LinkInv'
<1> SUFFICES ASSUME TypeOK, LedgerInv, ReservationInv, LinkInv, [Next]_vars PROVE LinkInv'
  OBVIOUS
<1>1. CASE UNCHANGED vars
  <2>1. Idles
    BY <1>1 DEF vars, Idles
  <2> QED BY <2>1, IdlesLink
<1>2. CASE Next
  <2>1. StepKind
    BY <1>2, StepsAreOfAKind
  <2>2. active' \in [Actors -> Actions \cup {NoAction}]
    BY <2>1, KindsKeepTypes
  <2> QED BY <2>1, <2>2, IdlesLink, AcceptsLink, AdvancesLink, ConcludesLink, LosesItemLink
          DEF StepKind
<1> QED BY <1>1, <1>2

\* A running action owns the open ledger entry of its command, and an open entry
\* without one names a destroyed item.
THEOREM LinkInvariant == Spec => []LinkInv
<1>1. Init => LinkInv
  BY LinkInit
<1>2. TypeOK /\ LedgerInv /\ ReservationInv /\ LinkInv /\ [Next]_vars => LinkInv'
  BY LinkStep
<1>3. Spec => []LedgerInv
  BY ExecutorImplementsLedger, LedgerInvariant, PTL
<1> QED BY <1>1, <1>2, <1>3, ExecutorIsTyped, ReservationInvariant, PTL DEF Spec

\* An entry that stays open without a running action names a destroyed item and
\* a failed command: no other way to lose a ledger slot exists.
THEOREM OnlyLostItemsLeaveOrphans == Spec => []OrphansNameLostItems
<1>1. LinkInv => OrphansNameLostItems
  BY DEF LinkInv
<1> QED BY <1>1, LinkInvariant, PTL

\* Unless items are destroyed, the open entries are exactly the running actions.
THEOREM OpenEntriesAlwaysRun ==
    ASSUME MortalItems = {}
    PROVE  Spec => []OpenEntriesAreRunning
<1>1. Spec => [](lost = {})
  BY NothingIsLost
<1>2. LinkInv /\ lost = {} => OpenEntriesAreRunning
  BY DEF LinkInv, ActionsOwnTheirEntries, OrphansNameLostItems, IsLost, OpenEntriesAreRunning
<1> QED BY <1>1, <1>2, LinkInvariant, PTL

\* The receipts of the whole system are final, and its live successes serial.
THEOREM ReceiptsOfTheSystem ==
    Spec => TerminalReceiptsAreFinal /\ OpenEntriesSurvive /\ []LiveSuccessesAreSerial
BY ExecutorImplementsLedger, TerminalReceiptsStayFinal, OpenEntriesAlwaysSurvive,
   LiveSuccessesStaySerial, PTL

-------------------------------------------------------------------------------
(***************************************************************************)
(* The operations of the instance are those of the ledger.                 *)
(***************************************************************************)

LEMMA SameAddEntry ==
    ASSUME NEW c, NEW e
    PROVE  Ledger!AddEntry(c, e) <=> AddEntry(c, e)
<1>1. Ledger!Known = Known
  BY DEF Known, Ledger!Known
<1>2. Ledger!IsFull <=> IsFull
  BY <1>1 DEF IsFull, Ledger!IsFull, Cardinality, Ledger!Cardinality
<1>3. \A i : Ledger!IsOldestTerminal(i) <=> IsOldestTerminal(i)
  BY DEF IsOldestTerminal, Ledger!IsOldestTerminal
<1>4. \A s, i : Ledger!RemoveAt(s, i) = RemoveAt(s, i)
  BY DEF RemoveAt, Ledger!RemoveAt
<1> QED BY <1>2, <1>3, <1>4 DEF AddEntry, Ledger!AddEntry

LEMMA SameOperations ==
    ASSUME NEW c, NEW r, NEW x
    PROVE  /\ Ledger!ClaimAccepted(c, r, x) <=> ClaimAccepted(c, r, x)
           /\ Ledger!ClaimRejected(c, r) <=> ClaimRejected(c, r)
           /\ \A s, b : Ledger!PublishProgress(c, r, x, s, b) <=> PublishProgress(c, r, x, s, b)
           /\ \A s, b : Ledger!Finalize(c, r, x, s, b) <=> Finalize(c, r, x, s, b)
<1>1. Ledger!Known = Known
  BY DEF Known, Ledger!Known
<1>2. Ledger!IsFull <=> IsFull
  BY <1>1 DEF IsFull, Ledger!IsFull, Cardinality, Ledger!Cardinality
<1>3. \A i : Ledger!IsOldestTerminal(i) <=> IsOldestTerminal(i)
  BY DEF IsOldestTerminal, Ledger!IsOldestTerminal
<1>4. Ledger!ReplayOutcome(c, r) = ReplayOutcome(c, r)
  BY DEF ReplayOutcome, Ledger!ReplayOutcome
<1>5. Ledger!ClaimOutcome(c, r) = ClaimOutcome(c, r)
  BY <1>2, <1>3, <1>4 DEF ClaimOutcome, Ledger!ClaimOutcome
<1>6. /\ Ledger!RunningEntry(r, x) = RunningEntry(r, x)
      /\ \A s, b : Ledger!TerminalEntry(r, s, b) = TerminalEntry(r, s, b)
  BY DEF RunningEntry, Ledger!RunningEntry, TerminalEntry, Ledger!TerminalEntry
<1>7. Ledger!IsOpenFor(c, r, x) <=> IsOpenFor(c, r, x)
  BY DEF IsOpenFor, Ledger!IsOpenFor
<1>8. \A s : /\ Ledger!GenerationAllows(r, s) <=> GenerationAllows(r, s)
             /\ Ledger!CommitsGeneration(r, s) <=> CommitsGeneration(r, s)
  BY DEF GenerationAllows, Ledger!GenerationAllows, CommitsGeneration, Ledger!CommitsGeneration
<1>9. Ledger!ClaimAccepted(c, r, x) <=> ClaimAccepted(c, r, x)
  BY <1>5, <1>6, SameAddEntry DEF ClaimAccepted, Ledger!ClaimAccepted
<1>10. Ledger!ClaimRejected(c, r) <=> ClaimRejected(c, r)
  BY <1>5, <1>6, SameAddEntry DEF ClaimRejected, Ledger!ClaimRejected
<1>11. \A s, b : Ledger!PublishProgress(c, r, x, s, b) <=> PublishProgress(c, r, x, s, b)
  BY <1>7 DEF PublishProgress, Ledger!PublishProgress
<1>12. \A s, b : Ledger!Finalize(c, r, x, s, b) <=> Finalize(c, r, x, s, b)
  BY <1>6, <1>7, <1>8 DEF Finalize, Ledger!Finalize
<1> QED BY <1>9, <1>10, <1>11, <1>12

LEMMA SameSets ==
    /\ Ledger!ledgerVars = ledgerVars
    /\ Ledger!Statuses = Statuses
    /\ Ledger!FailureStatuses = FailureStatuses
    /\ Ledger!Rollbacks = Rollbacks
    /\ Ledger!ImmediateCommit <=> ImmediateCommit
    /\ Ledger!LedgerInit <=> LedgerInit
BY DEF ledgerVars, Ledger!ledgerVars, Statuses, Ledger!Statuses, FailureStatuses,
       Ledger!FailureStatuses, Rollbacks, Ledger!Rollbacks, ImmediateCommit,
       Ledger!ImmediateCommit, LedgerInit, Ledger!LedgerInit

-------------------------------------------------------------------------------
(***************************************************************************)
(* What LinkInv leaves open: the entry of a running action has no outcome  *)
(* yet, so that the phases an action goes through do not show.             *)
(***************************************************************************)

RunningIsOpen ==
    \A x \in Actors : active[x] # NoAction =>
        /\ ledger[active[x].command].status = "Running"
        /\ ledger[active[x].command].rollback = "None"

LEMMA EntryOfAction ==
    ASSUME TypeOK, LedgerInv, LinkInv, NEW x \in Actors, active[x] # NoAction
    PROVE  /\ active[x] \in Actions
           /\ active[x].command \in CommandIds /\ active[x].request \in Requests
           /\ x \in Executors
           /\ ledger[active[x].command] # NoEntry
           /\ ledger[active[x].command] \in Entries
           /\ ledger[active[x].command].request = active[x].request
           /\ ledger[active[x].command].owner = x
           /\ ~ledger[active[x].command].terminal
BY OneExecutorPerActor
   DEF TypeOK, Actions, LinkInv, ActionsOwnTheirEntries, IsOpenFor, LedgerInv, LedgerTypeOK

\* Two running actions have two entries.
LEMMA EntriesDiffer ==
    ASSUME TypeOK, LedgerInv, LinkInv, NEW x \in Actors, NEW y \in Actors, x # y,
           active[x] # NoAction, active[y] # NoAction
    PROVE  active[x].command # active[y].command
BY EntryOfAction

LEMMA AdvanceChangesNothing ==
    ASSUME TypeOK, LedgerInv, LinkInv, RunningIsOpen, NEW x \in Actors, Advances(x)
    PROVE  UNCHANGED ledgerVars
<1> DEFINE c == active[x].command
           e == ledger[c]
<1>1. /\ active[x] # NoAction /\ c \in CommandIds /\ e \in Entries
      /\ e.status = "Running" /\ e.rollback = "None"
  BY EntryOfAction DEF Advances, RunningIsOpen
<1>2. ledger' = [ledger EXCEPT ![c] = [e EXCEPT !.status = "Running", !.rollback = "None"]]
  BY <1>1 DEF Advances, PublishProgress, LedgerInv, LedgerTypeOK
<1>3. [e EXCEPT !.status = "Running", !.rollback = "None"] = e
  BY <1>1 DEF Entries
<1>4. ledger \in [CommandIds -> Entries \cup {NoEntry}]
  BY DEF LedgerInv, LedgerTypeOK
<1> HIDE DEF e
<1>5. [ledger EXCEPT ![c] = ledger[c]] = ledger
  BY <1>1, <1>4
<1> QED BY <1>2, <1>3, <1>5 DEF Advances, PublishProgress, ledgerVars, e

LEMMA RunningIsOpenStep ==
    ASSUME TypeOK, LedgerInv, LinkInv, ReservationInv, RunningIsOpen, StepKind,
           active' \in [Actors -> Actions \cup {NoAction}]
    PROVE  RunningIsOpen'
<1>1. ledger \in [CommandIds -> Entries \cup {NoEntry}]
  BY DEF LedgerInv, LedgerTypeOK
<1>2. ASSUME NEW d \in CommandIds, NEW e \in Entries, AddEntry(d, e),
             ledger[d] = NoEntry
      PROVE  \A x \in Actors : active[x] # NoAction =>
                 ledger'[active[x].command] = ledger[active[x].command]
  <2>1. \A c \in CommandIds \ {d} :
            ledger'[c] = ledger[c] \/ (ledger'[c] = NoEntry /\ ledger[c].terminal)
    BY <1>2, AddEntryMap DEF LedgerInv
  <2> QED BY <1>2, <2>1, EntryOfAction
<1>3. CASE Idles
  <2>1. ASSUME NEW d \in CommandIds, NEW r \in Requests, ClaimRejected(d, r)
        PROVE  RunningIsOpen'
    <3>1. TerminalEntry(r, "Failed", "None") \in Entries
      BY EntriesAreTyped DEF Statuses, Rollbacks
    <3>2. AddEntry(d, TerminalEntry(r, "Failed", "None")) /\ ledger[d] = NoEntry
      BY <2>1, ClaimedIsNew DEF ClaimRejected
    <3> QED BY <1>2, <1>3, <3>1, <3>2 DEF Idles, RunningIsOpen
  <2>2. CASE UNCHANGED ledger
    BY <1>3, <2>2 DEF Idles, RunningIsOpen
  <2> QED BY <1>3, <2>1, <2>2 DEF Idles, ImmediateCommit, ledgerVars
<1>4. ASSUME NEW c \in CommandIds, NEW r \in Requests, Accepts(r.actor, c, r)
      PROVE  RunningIsOpen'
  <2> DEFINE x == r.actor
             e == RunningEntry(r, x)
  <2>1. x \in Actors /\ x \in Executors
    BY RequestFields, OneExecutorPerActor
  <2>2. e \in Entries /\ e.status = "Running" /\ e.rollback = "None"
    BY <2>1, EntriesAreTyped DEF RunningEntry
  <2>3. AddEntry(c, e) /\ ledger[c] = NoEntry
    BY <1>4, ClaimedIsNew DEF Accepts, ClaimAccepted
  <2>4. /\ active' = [active EXCEPT ![x] = [command |-> c, request |-> r, phase |-> "Approach",
                                            before |-> Snapshot(r)]]
        /\ active[x] = NoAction
    BY <1>4 DEF Accepts
  <2> HIDE DEF x, e
  <2>5. ledger'[c] = e
    BY <2>2, <2>3, AddEntryMap DEF LedgerInv
  <2>6. active'[x].command = c /\ \A y \in Actors \ {x} : active'[y] = active[y]
    BY <2>1, <2>4 DEF TypeOK
  <2> QED BY <1>2, <2>2, <2>3, <2>5, <2>6 DEF RunningIsOpen
<1>5. ASSUME NEW x \in Actors, Advances(x)
      PROVE  RunningIsOpen'
  <2>1. UNCHANGED ledger
    BY <1>5, AdvanceChangesNothing DEF ledgerVars
  <2>2. /\ \A y \in Actors \ {x} : active'[y] = active[y]
        /\ active[x] # NoAction /\ active'[x].command = active[x].command
    <3>1. active[x] # NoAction /\ active[x] \in Actions
      BY <1>5, EntryOfAction DEF Advances
    <3>2. PICK phase \in Phases : active' = [active EXCEPT ![x].phase = phase]
      BY <1>5 DEF Advances
    <3> QED BY <3>1, <3>2 DEF TypeOK, Actions
  <2> QED BY <2>1, <2>2 DEF RunningIsOpen
<1>6. ASSUME NEW x \in Actors, Concludes(x)
      PROVE  RunningIsOpen'
  <2>1. /\ active[x] # NoAction /\ active'[x] = NoAction
        /\ \A y \in Actors \ {x} : active'[y] = active[y]
    BY <1>6 DEF Concludes, TypeOK
  <2>2. \A d \in CommandIds \ {active[x].command} : ledger'[d] = ledger[d]
    BY <1>1, <1>6 DEF Concludes, Finalize, PublishProgress
  <2>3. \A y \in Actors \ {x} : active[y] # NoAction =>
            active[y].command \in CommandIds \ {active[x].command}
    BY <2>1, EntryOfAction, EntriesDiffer
  <2> QED BY <2>1, <2>2, <2>3 DEF RunningIsOpen
<1>7. ASSUME NEW p \in Items, LosesItem(p)
      PROVE  RunningIsOpen'
  BY <1>7 DEF LosesItem, ledgerVars, RunningIsOpen
<1> QED BY <1>3, <1>4, <1>5, <1>6, <1>7 DEF StepKind

-------------------------------------------------------------------------------
(***************************************************************************)
(* The refinement.                                                         *)
(***************************************************************************)

\* An executor without an action runs no command: what an abandoned action
\* leaves in the ledger says that it failed.
LEMMA IdleIsNotBusy ==
    ASSUME TypeOK, LedgerInv, LinkInv, NEW x \in Actors, active[x] = NoAction
    PROVE  ~Ledger!Busy(x)
<1> SUFFICES ASSUME NEW c \in CommandIds, ledger[c] # NoEntry, ledger[c].owner = x,
                    ledger[c].status = "Running"
             PROVE  FALSE
  BY DEF Ledger!Busy, Ledger!Runs
<1>1. ledger[c] \in Entries /\ c \in Known /\ x # NoExecutor
  BY OneExecutorPerActor, NoExecutorAssumption DEF LedgerInv, LedgerTypeOK, Known
<1>2. ~ledger[c].terminal
  BY <1>1 DEF LedgerInv, OwnedWhileOpen
<1>3. RunsCommand(ledger[c].owner, c) \/ ledger[c].status \in FailureStatuses
  BY <1>1, <1>2 DEF LinkInv, OrphansNameLostItems
<1> QED BY <1>3 DEF RunsCommand, FailureStatuses

LEMMA KindsServeTheLedger ==
    ASSUME TypeOK, LedgerInv, LinkInv, RunningIsOpen, StepKind
    PROVE  Ledger!Next \/ UNCHANGED ledgerVars
<1>1. CASE Idles
  BY <1>1, SameOperations, SameSets DEF Idles, Ledger!Next
<1>2. ASSUME NEW c \in CommandIds, NEW r \in Requests, Accepts(r.actor, c, r)
      PROVE  Ledger!Next
  <2>1. r.actor \in Actors /\ active[r.actor] = NoAction /\ ClaimAccepted(c, r, r.actor)
    BY <1>2, RequestFields DEF Accepts
  <2>2. Ledger!Accept(c, r)
    BY <2>1, IdleIsNotBusy, SameOperations DEF Ledger!Accept
  <2> QED BY <2>2 DEF Ledger!Next
<1>3. ASSUME NEW x \in Actors, Concludes(x)
      PROVE  Ledger!Next
  <2> DEFINE c == active[x].command
             r == active[x].request
  <2>1. /\ x \in Executors /\ c \in CommandIds /\ r = ledger[c].request
        /\ ledger[c] # NoEntry /\ ledger[c].owner = x /\ ledger[c].status = "Running"
    BY <1>3, EntryOfAction DEF Concludes, RunningIsOpen
  <2>2. Ledger!Runs(x, c)
    BY <2>1 DEF Ledger!Runs
  <2>3. PICK s \in Statuses \ {"Running"}, b \in Rollbacks :
            \/ Finalize(c, r, x, s, b)
            \/ s \in FailureStatuses /\ PublishProgress(c, r, x, s, b)
    BY <1>3 DEF Concludes, FailureStatuses, Statuses
  <2> HIDE DEF c, r
  <2>4. Ledger!Conclude(x, c, s, b)
    BY <2>1, <2>2, <2>3, SameOperations, SameSets DEF Ledger!Conclude
  <2> QED BY <2>1, <2>4, SameSets DEF Ledger!Next
<1>4. ASSUME NEW x \in Actors, Advances(x)
      PROVE  UNCHANGED ledgerVars
  BY <1>4, AdvanceChangesNothing
<1>5. ASSUME NEW p \in Items, LosesItem(p)
      PROVE  UNCHANGED ledgerVars
  BY <1>5 DEF LosesItem
<1> QED BY <1>1, <1>2, <1>3, <1>4, <1>5 DEF StepKind

\* The executors implement ExecutorLedger: one command at a time for each, every
\* accepted command ended in one call, whatever fails, leaves or is destroyed.
THEOREM ExecutorsServeTheLedger == Spec => ServesTheLedger
<1> DEFINE IInv == TypeOK /\ LedgerInv /\ ReservationInv /\ LinkInv
<1>1. Spec => []IInv
  <2>1. Spec => []LedgerInv
    BY ExecutorImplementsLedger, LedgerInvariant, PTL
  <2> QED BY <2>1, ExecutorIsTyped, ReservationInvariant, LinkInvariant, PTL
<1>2. Init => RunningIsOpen /\ Ledger!LedgerInit
  BY SameSets DEF Init, RunningIsOpen
<1>3. IInv /\ RunningIsOpen /\ [Next]_vars => RunningIsOpen'
  <2> SUFFICES ASSUME IInv, RunningIsOpen, [Next]_vars PROVE RunningIsOpen'
    OBVIOUS
  <2>1. CASE Next
    BY <2>1, StepsAreOfAKind, KindsKeepTypes, RunningIsOpenStep
  <2>2. CASE UNCHANGED vars
    BY <2>2 DEF vars, ledgerVars, RunningIsOpen
  <2> QED BY <2>1, <2>2
<1>4. IInv /\ RunningIsOpen /\ [Next]_vars => [Ledger!Next]_(Ledger!ledgerVars)
  <2> SUFFICES ASSUME IInv, RunningIsOpen, [Next]_vars
               PROVE  Ledger!Next \/ UNCHANGED ledgerVars
    BY DEF ledgerVars, Ledger!ledgerVars
  <2>1. CASE Next
    BY <2>1, StepsAreOfAKind, KindsServeTheLedger
  <2>2. CASE UNCHANGED vars
    BY <2>2 DEF vars
  <2> QED BY <2>1, <2>2
<1> HIDE DEF IInv
<1> QED BY <1>1, <1>2, <1>3, <1>4, PTL DEF Spec, ServesTheLedger, Ledger!Spec

===============================================================================
