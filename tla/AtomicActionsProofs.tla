-------------------------- MODULE AtomicActionsProofs --------------------------
(***************************************************************************)
(* What interleaved, compensating executors do to the world, for every set *)
(* of actors, items, containers and requests: who may change it, what a    *)
(* failed action leaves, when the records of an item may disagree, and     *)
(* that without engine faults the executors implement AtomicActions.       *)
(***************************************************************************)
EXTENDS ActionExecutorProofs

-------------------------------------------------------------------------------
(***************************************************************************)
(* What a world says of the participants of one request.                   *)
(***************************************************************************)

\* What the actor's hand holds when the request's item is at a place.
HandOf(r, place) == IF place = r.actor THEN r.item ELSE NoItem

\* A container after the request, given its state before.
BoxAfter(k, r) ==
    IF r.affordance \in ToggleAffordances
    THEN [k EXCEPT !.open = (r.affordance = "Open")]
    ELSE [k EXCEPT !.contents = IF r.affordance = "Insert" THEN r.item ELSE NoItem]

\* The item is at a place, the hand agrees, and the container is in state k.
Records(w, r, place, k) ==
    /\ UsesItem(r) => w.pickup[r.item] = place /\ w.hand[r.actor] = HandOf(r, place)
    /\ UsesBox(r) => w.box[r.box] = k

Untouched(w, a) == Records(w, a.request, a.before.place, a.before.box)

Committed(w, a) ==
    Records(w, a.request, PlaceAfter(a.request), BoxAfter(a.before.box, a.request))

Settled(w, a) == Untouched(w, a) \/ Committed(w, a)

\* The before-state is one its request was accepted in.
Fits(a) ==
    LET r == a.request IN
    /\ r.affordance = "PickUp" => a.before.place \in {"Free", "Placed"}
    /\ r.affordance \in {"Drop", "Place", "Insert"} => a.before.place = r.actor
    /\ r.affordance = "Insert" => a.before.box.open /\ a.before.box.contents = NoItem
    /\ r.affordance = "Remove" => /\ a.before.box.open
                                  /\ a.before.box.contents = r.item
                                  /\ a.before.place = r.box

\* A toggle that has committed found the other state.
Switches(a) ==
    a.request.affordance \in ToggleAffordances =>
        a.before.box.open # (a.request.affordance = "Open")

\* Two worlds differ at most in the participants of a request.
OnlyTouches(w, v, r) ==
    /\ \A p \in Items : p # r.item => v.pickup[p] = w.pickup[p]
    /\ \A y \in Actors : y # r.actor \/ ~UsesItem(r) => v.hand[y] = w.hand[y]
    /\ \A b \in Containers : b # r.box => v.box[b] = w.box[b]

\* Whatever a compensation left undone, the participants hold nothing foreign.
Confined(w, a) ==
    LET r == a.request IN
    /\ UsesItem(r) => w.hand[r.actor] \in {r.item, NoItem}
    /\ UsesItem(r) /\ w.hand[r.actor] = r.item => w.pickup[r.item] = r.actor
    /\ IsStorage(r) => w.box[r.box].contents \in {r.item, NoItem}
    /\ r.affordance \in ToggleAffordances => w.box[r.box].contents = a.before.box.contents

LEMMA WorldFields ==
    ASSUME NEW w \in Worlds
    PROVE  /\ w.pickup \in [Items -> Places]
           /\ w.hand \in [Actors -> Items \cup {NoItem}]
           /\ w.box \in [Containers -> [open : BOOLEAN, contents : Items \cup {NoItem}]]
BY DEF Worlds

LEMMA ActionFields ==
    ASSUME NEW a \in Actions
    PROVE  /\ a.command \in CommandIds
           /\ a.request \in Requests
           /\ a.phase \in Phases
           /\ a.before.place \in Places
           /\ a.before.box \in [open : BOOLEAN, contents : Items \cup {NoItem}]
BY DEF Actions

LEMMA MoveItemFields ==
    ASSUME NEW w \in Worlds, NEW x \in Actors, NEW p \in Items, NEW place
    PROVE  /\ \A q \in Items :
                 MoveItem(w, x, p, place).pickup[q] = IF q = p THEN place ELSE w.pickup[q]
           /\ \A y \in Actors :
                 MoveItem(w, x, p, place).hand[y] =
                     IF y # x THEN w.hand[y]
                     ELSE IF place = x THEN p
                          ELSE IF w.hand[x] = p THEN NoItem ELSE w.hand[x]
           /\ MoveItem(w, x, p, place).box = w.box
BY DEF MoveItem, Worlds

LEMMA EffectFields ==
    ASSUME NEW w \in Worlds, NEW r \in Requests
    PROVE  /\ \A q \in Items :
                 Effect(w, r).pickup[q] = IF q = r.item THEN PlaceAfter(r) ELSE w.pickup[q]
           /\ \A y \in Actors :
                 Effect(w, r).hand[y] =
                     IF y # r.actor \/ ~UsesItem(r) THEN w.hand[y]
                     ELSE IF PlaceAfter(r) = r.actor THEN r.item
                          ELSE IF w.hand[y] = r.item THEN NoItem ELSE w.hand[y]
           /\ \A b \in Containers :
                 Effect(w, r).box[b] = IF b = r.box THEN BoxAfter(w.box[b], r) ELSE w.box[b]
<1>1. CASE r.affordance \in ToggleAffordances
  <2>1. /\ r.box \in Containers /\ ~UsesItem(r) /\ r.item = NoItem
        /\ Effect(w, r) = [w EXCEPT !.box[r.box].open = (r.affordance = "Open")]
    BY <1>1, RequestFields, RequestsAreWellFormed DEF Effect, WellFormed, UsesItem
  <2>2. Effect(w, r).pickup = w.pickup /\ Effect(w, r).hand = w.hand
    BY <2>1 DEF Worlds
  <2>3. \A b \in Containers :
            Effect(w, r).box[b] = IF b = r.box THEN BoxAfter(w.box[b], r) ELSE w.box[b]
    BY <1>1, <2>1 DEF Worlds, BoxAfter
  <2> QED BY <2>1, <2>2, <2>3, KindsAreDisjoint
<1>2. CASE r.affordance \notin ToggleAffordances
  <2> DEFINE moved == MoveItem(w, r.actor, r.item, PlaceAfter(r))
             contents == IF r.affordance = "Insert" THEN r.item ELSE NoItem
  <2>1. r.item \in Items /\ r.actor \in Actors /\ UsesItem(r) /\ PlaceAfter(r) \in Places
    BY <1>2, RequestFields, PlaceAfterIsTyped
  <2>2. moved \in Worlds /\ moved.box = w.box
    BY <2>1, MoveItemIsTyped, MoveItemFields
  <2>3. Effect(w, r) = IF r.affordance \in StorageAffordances
                       THEN [moved EXCEPT !.box[r.box].contents = contents] ELSE moved
    BY <1>2 DEF Effect
  <2>4. /\ \A q \in Items : moved.pickup[q] = IF q = r.item THEN PlaceAfter(r) ELSE w.pickup[q]
        /\ \A y \in Actors : moved.hand[y] =
              IF y # r.actor THEN w.hand[y]
              ELSE IF PlaceAfter(r) = r.actor THEN r.item
                   ELSE IF w.hand[r.actor] = r.item THEN NoItem ELSE w.hand[r.actor]
    BY <2>1, MoveItemFields
  <2> HIDE DEF moved
  <2>5. Effect(w, r).pickup = moved.pickup /\ Effect(w, r).hand = moved.hand
    BY <2>2, <2>3 DEF Worlds
  <2>6. \A b \in Containers :
            Effect(w, r).box[b] = IF b = r.box THEN BoxAfter(w.box[b], r) ELSE w.box[b]
    <3>1. CASE r.affordance \in StorageAffordances
      <4> DEFINE k == w.box[r.box]
      <4>1. r.box \in Containers /\ BoxAfter(k, r) = [k EXCEPT !.contents = contents]
        BY <1>2, <3>1, RequestFields DEF BoxAfter
      <4>2. Effect(w, r).box = [w.box EXCEPT ![r.box] = [k EXCEPT !.contents = contents]]
        BY <2>2, <2>3, <3>1 DEF Worlds
      <4> HIDE DEF k, contents
      <4>3. \A b \in Containers :
                Effect(w, r).box[b] = IF b = r.box THEN BoxAfter(k, r) ELSE w.box[b]
        BY <4>1, <4>2, WorldFields
      <4> QED BY <4>3 DEF k
    <3>2. CASE r.affordance \notin StorageAffordances
      <4>1. r.box \notin Containers /\ Effect(w, r) = moved
        BY <1>2, <2>3, <3>2, RequestFields
      <4> QED BY <2>2, <4>1
    <3> QED BY <3>1, <3>2
  <2> QED BY <2>1, <2>4, <2>5, <2>6
<1> QED BY <1>1, <1>2

\* Restoring the before-state of an action, and the worlds that restores pass.
LEMMA RestoreFields ==
    ASSUME NEW w \in Worlds, NEW a \in Actions, NEW place \in Places,
           NEW v, v = WithItem(WithBox(w, a), a, place)
    PROVE  LET r == a.request IN
           /\ \A q \in Items : v.pickup[q] = IF q = r.item THEN place ELSE w.pickup[q]
           /\ \A y \in Actors :
                 v.hand[y] = IF y # r.actor \/ ~UsesItem(r) THEN w.hand[y]
                             ELSE IF place = r.actor THEN r.item
                                  ELSE IF w.hand[y] = r.item THEN NoItem ELSE w.hand[y]
           /\ \A b \in Containers : v.box[b] = IF b = r.box THEN a.before.box ELSE w.box[b]
<1> DEFINE r == a.request
           boxed == WithBox(w, a)
<1>1. /\ boxed \in Worlds
      /\ r.actor \in Actors
      /\ UsesItem(r) <=> r.item \in Items
      /\ UsesBox(r) <=> r.box \in Containers
  BY RestoresAreTyped, ActionFields, RequestFields
<1>2. /\ boxed.pickup = w.pickup /\ boxed.hand = w.hand
      /\ \A b \in Containers : boxed.box[b] = IF b = r.box THEN a.before.box ELSE w.box[b]
  BY <1>1 DEF WithBox, Worlds
<1> HIDE DEF boxed
<1>3. CASE UsesItem(r)
  <2>1. v = MoveItem(boxed, r.actor, r.item, place)
    BY <1>3 DEF WithItem, boxed
  <2> QED BY <1>1, <1>2, <1>3, <2>1, MoveItemFields
<1>4. CASE ~UsesItem(r)
  <2>1. v = boxed
    BY <1>4 DEF WithItem, boxed
  <2> QED BY <1>1, <1>2, <1>4, <2>1
<1> QED BY <1>3, <1>4

-------------------------------------------------------------------------------
(***************************************************************************)
(* What the operators do to the records of one request.                    *)
(***************************************************************************)

\* While its request runs, no other actor and no other container has the item.
LEMMA RecordedPlaces ==
    ASSUME NEW a \in Actions, Fits(a), UsesItem(a.request)
    PROVE  LET r == a.request IN
           /\ \A y \in Actors : a.before.place = y \/ PlaceAfter(r) = y => y = r.actor
           /\ \A b \in Containers : a.before.place = b => b = r.box /\ r.affordance = "Remove"
           /\ \A b \in Containers : PlaceAfter(r) = b => b = r.box /\ r.affordance = "Insert"
<1> DEFINE r == a.request
<1>1. /\ r.affordance \in Affordances
      /\ r.affordance \notin ToggleAffordances
      /\ r.actor \in Actors
      /\ r.affordance \in StorageAffordances => r.box \in Containers
  BY ActionFields, RequestFields, RequestsAreWellFormed
     DEF WellFormed, StorageAffordances, ToggleAffordances, UsesItem
<1> QED BY <1>1, KindsAreDisjoint
        DEF Fits, PlaceAfter, Affordances, StorageAffordances, ToggleAffordances

LEMMA EffectCommits ==
    ASSUME NEW w \in Worlds, NEW a \in Actions, Fits(a), Untouched(w, a)
    PROVE  LET v == Effect(w, a.request) IN
           v \in Worlds /\ OnlyTouches(w, v, a.request) /\ Committed(v, a)
<1> DEFINE r == a.request
           v == Effect(w, r)
<1>1. /\ r \in Requests /\ r.actor \in Actors
      /\ UsesItem(r) <=> r.item \in Items
      /\ UsesBox(r) <=> r.box \in Containers
  BY ActionFields, RequestFields
<1>2. v \in Worlds
  BY <1>1, EffectIsTyped
<1>3. /\ \A q \in Items : v.pickup[q] = IF q = r.item THEN PlaceAfter(r) ELSE w.pickup[q]
      /\ \A y \in Actors : v.hand[y] =
            IF y # r.actor \/ ~UsesItem(r) THEN w.hand[y]
            ELSE IF PlaceAfter(r) = r.actor THEN r.item
                 ELSE IF w.hand[y] = r.item THEN NoItem ELSE w.hand[y]
      /\ \A b \in Containers : v.box[b] = IF b = r.box THEN BoxAfter(w.box[b], r) ELSE w.box[b]
  BY <1>1, EffectFields
<1> HIDE DEF v
<1>4. OnlyTouches(w, v, r)
  BY <1>1, <1>3 DEF OnlyTouches
<1>5. Committed(v, a)
  BY <1>1, <1>3 DEF Untouched, Committed, Records, HandOf
<1> QED BY <1>2, <1>4, <1>5 DEF v

LEMMA SettledIsConfined ==
    ASSUME NEW w \in Worlds, NEW a \in Actions, Fits(a), Settled(w, a)
    PROVE  Confined(w, a)
<1> DEFINE r == a.request
           k == a.before.box
<1>1. /\ r \in Requests /\ r.actor \in Actors
      /\ IsStorage(r) <=> UsesItem(r) /\ UsesBox(r)
      /\ UsesBox(r) <=> r.affordance \in StorageAffordances \cup ToggleAffordances
      /\ IsStorage(r) <=> r.affordance \in {"Insert", "Remove"}
      /\ StorageAffordances \cap ToggleAffordances = {}
      /\ k \in [open : BOOLEAN, contents : Items \cup {NoItem}]
  BY ActionFields, RequestFields DEF IsStorage, StorageAffordances, ToggleAffordances
<1>2. IsStorage(r) => /\ k.contents \in {r.item, NoItem}
                      /\ BoxAfter(k, r).contents \in {r.item, NoItem}
  BY <1>1 DEF Fits, BoxAfter
<1>3. r.affordance \in ToggleAffordances => BoxAfter(k, r).contents = k.contents
  BY <1>1 DEF BoxAfter
<1>4. UsesItem(r) => /\ w.hand[r.actor] \in {r.item, NoItem}
                     /\ w.hand[r.actor] = r.item => w.pickup[r.item] = r.actor
  BY <1>1 DEF Settled, Untouched, Committed, Records, HandOf, UsesItem
<1>5. UsesBox(r) => w.box[r.box] = k \/ w.box[r.box] = BoxAfter(k, r)
  BY DEF Settled, Untouched, Committed, Records
<1> HIDE DEF r, k
<1> QED BY <1>1, <1>2, <1>3, <1>4, <1>5 DEF Confined, r, k

LEMMA RestoredIsUntouched ==
    ASSUME NEW w \in Worlds, NEW a \in Actions, Confined(w, a)
    PROVE  LET v == Restored(w, a) IN OnlyTouches(w, v, a.request) /\ Untouched(v, a)
<1> DEFINE r == a.request
           v == Restored(w, a)
<1>1. /\ r \in Requests /\ r.actor \in Actors /\ a.before.place \in Places
      /\ UsesItem(r) <=> r.item \in Items
      /\ UsesBox(r) <=> r.box \in Containers
  BY ActionFields, RequestFields
<1>2. v = WithItem(WithBox(w, a), a, a.before.place)
  BY DEF Restored
<1> HIDE DEF v
<1>3. /\ \A q \in Items : v.pickup[q] = IF q = r.item THEN a.before.place ELSE w.pickup[q]
      /\ \A y \in Actors :
            v.hand[y] = IF y # r.actor \/ ~UsesItem(r) THEN w.hand[y]
                        ELSE IF a.before.place = r.actor THEN r.item
                             ELSE IF w.hand[y] = r.item THEN NoItem ELSE w.hand[y]
      /\ \A b \in Containers : v.box[b] = IF b = r.box THEN a.before.box ELSE w.box[b]
  BY <1>1, <1>2, RestoreFields
<1>4. OnlyTouches(w, v, r)
  BY <1>1, <1>3 DEF OnlyTouches
<1>5. Untouched(v, a)
  BY <1>1, <1>3 DEF Untouched, Records, HandOf, Confined
<1> QED BY <1>4, <1>5 DEF v

\* A restore that fails half way leaves the item somewhere and the container in
\* either state, but nothing that is not the action's own.
LEMMA RestoreFailuresAreConfined ==
    ASSUME NEW w \in Worlds, NEW a \in Actions, Fits(a), Settled(w, a),
           NEW v \in RestoreFailures(w, a)
    PROVE  OnlyTouches(w, v, a.request) /\ Confined(v, a)
<1> DEFINE r == a.request
           boxed == WithBox(w, a)
           cleared == WithItem(boxed, a, "Free")
           placed == [cleared EXCEPT !.pickup[r.item] = a.before.place]
<1>1. /\ r \in Requests /\ r.actor \in Actors /\ a.before.place \in Places
      /\ "Free" \in Places /\ "Free" \notin Actors
      /\ UsesItem(r) <=> r.item \in Items
      /\ UsesBox(r) <=> r.box \in Containers
      /\ IsStorage(r) <=> UsesItem(r) /\ UsesBox(r)
      /\ r.affordance \in ToggleAffordances => UsesBox(r)
      /\ IsStorage(r) <=> r.affordance \in {"Insert", "Remove"}
  BY ActionFields, RequestFields, KindsAreDisjoint DEF Places, IsStorage, StorageAffordances
<1>2. Confined(w, a)
  BY SettledIsConfined
<1>3. IsStorage(r) => a.before.box.contents \in {r.item, NoItem}
  BY <1>1 DEF Fits
<1>4. /\ boxed \in Worlds /\ boxed.pickup = w.pickup /\ boxed.hand = w.hand
      /\ \A b \in Containers : boxed.box[b] = IF b = r.box THEN a.before.box ELSE w.box[b]
  <2>1. boxed \in Worlds
    BY RestoresAreTyped
  <2> QED BY <1>1, <2>1 DEF WithBox, Worlds
<1>5. cleared \in Worlds
  BY <1>1, <1>4, RestoresAreTyped
<1>6. /\ \A q \in Items : cleared.pickup[q] = IF q = r.item THEN "Free" ELSE w.pickup[q]
      /\ \A y \in Actors :
            cleared.hand[y] = IF y # r.actor \/ ~UsesItem(r) THEN w.hand[y]
                              ELSE IF w.hand[y] = r.item THEN NoItem ELSE w.hand[y]
      /\ \A b \in Containers : cleared.box[b] = IF b = r.box THEN a.before.box ELSE w.box[b]
  BY <1>1, RestoreFields
<1>7. v \in {w, boxed, cleared, Restored(w, a)} \/ (UsesItem(r) /\ v = placed)
  BY DEF RestoreFailures
<1> HIDE DEF boxed, cleared
<1>8. CASE v = w
  BY <1>2, <1>8 DEF OnlyTouches
<1>9. CASE v = boxed
  BY <1>1, <1>2, <1>3, <1>4, <1>9 DEF OnlyTouches, Confined
<1>10. CASE v = cleared
  <2>1. OnlyTouches(w, v, r)
    BY <1>1, <1>6, <1>10 DEF OnlyTouches
  <2>2. UsesItem(r) => v.hand[r.actor] = NoItem
    BY <1>1, <1>2, <1>6, <1>10 DEF Confined
  <2> QED BY <1>1, <1>3, <1>6, <1>10, <2>1, <2>2, KindsAreDisjoint DEF Confined
<1>11. CASE v = Restored(w, a)
  <2>1. v \in Worlds /\ OnlyTouches(w, v, r) /\ Untouched(v, a)
    BY <1>2, <1>11, RestoresAreTyped, RestoredIsUntouched
  <2> QED BY <2>1, SettledIsConfined DEF Settled
<1>12. CASE UsesItem(r) /\ v = placed
  <2>1. /\ \A q \in Items : q # r.item => v.pickup[q] = w.pickup[q]
        /\ v.hand = cleared.hand /\ v.box = cleared.box
    BY <1>1, <1>5, <1>6, <1>12 DEF Worlds
  <2>2. OnlyTouches(w, v, r)
    BY <1>1, <1>6, <2>1 DEF OnlyTouches
  <2>3. v.hand[r.actor] = NoItem
    BY <1>1, <1>2, <1>6, <1>12, <2>1 DEF Confined
  <2> QED BY <1>1, <1>3, <1>6, <1>12, <2>1, <2>2, <2>3, KindsAreDisjoint DEF Confined
<1> QED BY <1>7, <1>8, <1>9, <1>10, <1>11, <1>12


\* What a failing action leaves behind, from its receipt.
LEMMA CompensationOutcomes ==
    ASSUME NEW w \in Worlds, NEW a \in Actions, Fits(a),
           NEW aligned \in BOOLEAN, NEW attempted \in BOOLEAN,
           ~IsLost(a.request) => IF attempted THEN Settled(w, a) ELSE Untouched(w, a),
           NEW o \in Compensations(w, a, aligned, attempted)
    PROVE  /\ o.world \in Worlds
           /\ OnlyTouches(w, o.world, a.request)
           /\ IsLost(a.request) => o.world = w
           /\ ~IsLost(a.request) => Confined(o.world, a)
           /\ ~IsLost(a.request) /\ RollbackOf(o, aligned, attempted) # "Unrestored"
                  => Untouched(o.world, a)
           /\ ~IsLost(a.request) /\ ~EngineFaults
                  => RollbackOf(o, aligned, attempted) # "Unrestored"
<1> DEFINE base  == IF attempted THEN StateOutcomes(w, a) ELSE {[world |-> w, ok |-> TRUE]}
           poses == IF aligned /\ EngineFaults THEN BOOLEAN ELSE {TRUE}
<1>1. PICK u \in base, pose \in poses : o = [world |-> u.world, ok |-> u.ok /\ pose]
  <2>1. Compensations(w, a, aligned, attempted) =
            {[world |-> u.world, ok |-> u.ok /\ pose] : u \in base, pose \in poses}
    BY DEF Compensations
  <2> HIDE DEF base, poses
  <2>2. o \in {[world |-> u.world, ok |-> u.ok /\ pose] : u \in base, pose \in poses}
    BY <2>1
  <2> QED BY <2>2
<1>2. o.world = u.world /\ (o.ok <=> (u.ok /\ pose))
  BY <1>1, Zenon
<1>3. ~EngineFaults => pose
  OBVIOUS
<1>4. OnlyTouches(w, w, a.request)
  BY DEF OnlyTouches
<1>5. o.world \in Worlds
  BY CompensationsAreTyped
<1>6. CASE ~attempted
  <2>1. u.world = w /\ u.ok
    BY <1>6
  <2>2. ~IsLost(a.request) => Untouched(w, a) /\ Confined(w, a)
    BY <1>6, SettledIsConfined DEF Settled
  <2>3. RollbackOf(o, aligned, attempted) = "Unrestored" => ~o.ok
    BY DEF RollbackOf
  <2> QED BY <1>2, <1>3, <1>4, <1>5, <2>1, <2>2, <2>3
<1>7. CASE attempted /\ IsLost(a.request)
  BY <1>2, <1>4, <1>5, <1>7 DEF StateOutcomes
<1>8. CASE attempted /\ ~IsLost(a.request)
  <2>1. \/ u.world = Restored(w, a) /\ u.ok
        \/ EngineFaults /\ u.world \in RestoreFailures(w, a) /\ ~u.ok
    BY <1>8 DEF StateOutcomes
  <2>2. Settled(w, a) /\ Confined(w, a)
    BY <1>8, SettledIsConfined
  <2>3. RollbackOf(o, aligned, attempted) = "Unrestored" <=> ~o.ok
    BY <1>8 DEF RollbackOf
  <2>4. CASE u.world = Restored(w, a) /\ u.ok
    <3>1. OnlyTouches(w, u.world, a.request) /\ Untouched(u.world, a)
      BY <2>2, <2>4, RestoredIsUntouched
    <3>2. Confined(u.world, a)
      BY <1>2, <1>5, <3>1, SettledIsConfined DEF Settled
    <3> QED BY <1>2, <1>3, <1>5, <1>8, <2>3, <2>4, <3>1, <3>2
  <2>5. CASE EngineFaults /\ u.world \in RestoreFailures(w, a) /\ ~u.ok
    <3>1. OnlyTouches(w, u.world, a.request) /\ Confined(u.world, a)
      BY <2>2, <2>5, RestoreFailuresAreConfined
    <3> QED BY <1>2, <1>5, <1>8, <2>3, <2>5, <3>1
  <2> QED BY <2>1, <2>4, <2>5
<1> QED BY <1>6, <1>7, <1>8

-------------------------------------------------------------------------------
(***************************************************************************)
(* The three records of an item.                                           *)
(***************************************************************************)

\* An action leaves the agreement about every other item alone, however it ends.
LEMMA AgreementElsewhere ==
    ASSUME NEW w \in Worlds, NEW v \in Worlds, NEW a \in Actions,
           OnlyTouches(w, v, a.request), Confined(w, a), Confined(v, a),
           NEW q \in Items, q # a.request.item, Agrees(w, q)
    PROVE  Agrees(v, q)
<1> DEFINE r == a.request
<1>1. /\ r \in Requests /\ r.actor \in Actors
      /\ UsesBox(r) <=> r.box \in Containers
      /\ UsesBox(r) => IsStorage(r) \/ r.affordance \in ToggleAffordances
      /\ q # NoItem
  BY ActionFields, RequestFields, KindsAreDisjoint DEF IsStorage
<1>2. v.pickup[q] = w.pickup[q]
  BY DEF OnlyTouches
<1>3. \A y \in Actors : w.hand[y] = q <=> v.hand[y] = q
  BY <1>1 DEF OnlyTouches, Confined
<1>4. \A b \in Containers : w.box[b].contents = q <=> v.box[b].contents = q
  BY <1>1 DEF OnlyTouches, Confined
<1> QED BY <1>2, <1>3, <1>4 DEF Agrees

\* Before and after an action the records of its own item agree.
LEMMA AgreementKept ==
    ASSUME NEW w \in Worlds, NEW v \in Worlds, NEW a \in Actions, Fits(a),
           OnlyTouches(w, v, a.request), Settled(w, a), Settled(v, a),
           NEW q \in Items, Agrees(w, q)
    PROVE  Agrees(v, q)
<1> DEFINE r == a.request
           k == a.before.box
<1>1. CASE q # r.item
  BY <1>1, SettledIsConfined, AgreementElsewhere
<1>2. CASE q = r.item
  <2>1. /\ r \in Requests /\ r.actor \in Actors /\ UsesItem(r)
        /\ UsesBox(r) <=> r.box \in Containers
        /\ UsesBox(r) <=> IsStorage(r)
        /\ IsStorage(r) <=> r.affordance \in {"Insert", "Remove"}
        /\ k \in [open : BOOLEAN, contents : Items \cup {NoItem}]
        /\ r.item # NoItem
    BY <1>2, ActionFields, RequestFields, KindsAreDisjoint DEF IsStorage, StorageAffordances
  <2>2. r.affordance \notin ToggleAffordances
    BY <2>1, RequestsAreWellFormed DEF WellFormed, UsesItem
  <2> DEFINE Placed(u, place, kk) ==
               /\ u.pickup[q] = place
               /\ u.hand[r.actor] = HandOf(r, place)
               /\ UsesBox(r) => u.box[r.box] = kk
  <2>3. \A u \in {w, v} : Placed(u, a.before.place, k) \/ Placed(u, PlaceAfter(r), BoxAfter(k, r))
    BY <1>2, <2>1 DEF Settled, Untouched, Committed, Records
  <2>4. IsStorage(r) =>
          /\ a.before.place = r.box <=> k.contents = q
          /\ PlaceAfter(r) = r.box <=> BoxAfter(k, r).contents = q
    BY <1>2, <2>1, <2>2, KindsAreDisjoint DEF Fits, PlaceAfter, BoxAfter
  <2>5. /\ \A y \in Actors : a.before.place = y \/ PlaceAfter(r) = y => y = r.actor
        /\ \A b \in Containers : a.before.place = b => b = r.box
        /\ \A b \in Containers : PlaceAfter(r) = b => b = r.box
    BY <2>1, RecordedPlaces
  <2>6. \A u \in {w, v} :
          /\ \A y \in Actors : u.pickup[q] = y => y = r.actor
          /\ u.pickup[q] = r.actor <=> u.hand[r.actor] = q
          /\ \A b \in Containers : u.pickup[q] = b => b = r.box
          /\ UsesBox(r) => (u.pickup[q] = r.box <=> u.box[r.box].contents = q)
    BY <1>2, <2>1, <2>3, <2>4, <2>5 DEF HandOf
  <2>7. \A y \in Actors : v.pickup[q] = y <=> v.hand[y] = q
    BY <2>1, <2>6 DEF Agrees, OnlyTouches
  <2>8. \A b \in Containers : v.pickup[q] = b <=> v.box[b].contents = q
    BY <2>1, <2>6 DEF Agrees, OnlyTouches
  <2> QED BY <2>7, <2>8 DEF Agrees
<1> QED BY <1>1, <1>2

LEMMA DropFields ==
    ASSUME NEW w \in Worlds, NEW x \in Actors
    PROVE  LET v == DropFromHand(w, x) IN
           /\ \A q \in Items : v.pickup[q] = IF w.hand[x] = q THEN "Free" ELSE w.pickup[q]
           /\ \A y \in Actors : v.hand[y] = IF y = x THEN NoItem ELSE w.hand[y]
           /\ v.box = w.box
<1>1. CASE w.hand[x] = NoItem
  BY <1>1, KindsAreDisjoint DEF DropFromHand
<1>2. CASE w.hand[x] # NoItem
  <2>1. w.hand[x] \in Items /\ "Free" # x
    BY <1>2, WorldFields, KindsAreDisjoint
  <2>2. DropFromHand(w, x) = MoveItem(w, x, w.hand[x], "Free")
    BY <1>2 DEF DropFromHand
  <2> QED BY <2>1, <2>2, MoveItemFields
<1> QED BY <1>1, <1>2

LEMMA DropKeepsAgreement ==
    ASSUME NEW w \in Worlds, NEW x \in Actors, NEW q \in Items, Agrees(w, q)
    PROVE  Agrees(DropFromHand(w, x), q)
<1> DEFINE v == DropFromHand(w, x)
<1>1. /\ \A p \in Items : v.pickup[p] = IF w.hand[x] = p THEN "Free" ELSE w.pickup[p]
      /\ \A y \in Actors : v.hand[y] = IF y = x THEN NoItem ELSE w.hand[y]
      /\ v.box = w.box
  BY DropFields
<1> HIDE DEF v
<1>2. v.pickup[q] = IF w.hand[x] = q THEN "Free" ELSE w.pickup[q]
  BY <1>1
<1> QED BY <1>1, <1>2, KindsAreDisjoint DEF Agrees, v


-------------------------------------------------------------------------------
(***************************************************************************)
(* The ways a step treats the world.                                       *)
(***************************************************************************)

\* The world in which the contact of x has been committed.
Done(x, w) ==
    LET a == active[x] IN
    \/ a.phase = "Contact" /\ w = World
    \/ /\ a.phase = "Playing"
       /\ ~IsLost(a.request)
       /\ ContactReady(World, a.request)
       /\ w = Effect(World, a.request)

Stays == Idles /\ UNCHANGED <<worldVars, present>>

Proceeds(x) ==
    /\ InPhase(x, BeforeContact)
    /\ \E phase \in BeforeContact : EnterPhase(x, phase)
    /\ UNCHANGED <<worldVars, itemRes, boxRes, present, lost>>

Commits(x) ==
    LET a == active[x] IN
    /\ InPhase(x, {"Playing"})
    /\ ~IsLost(a.request)
    /\ ContactReady(World, a.request)
    /\ EnterPhase(x, "Contact")
    /\ World' = Effect(World, a.request)
    /\ UNCHANGED <<itemRes, boxRes, present, lost>>

Succeeds(x) ==
    LET a == active[x] IN
    /\ a # NoAction
    /\ ~IsLost(a.request)
    /\ Done(x, World')
    /\ GenerationAllows(a.request, "Succeeded")
    /\ Finalize(a.command, a.request, x, "Succeeded", "None")
    /\ Release(x, a)
    /\ active' = [active EXCEPT ![x] = NoAction]
    /\ UNCHANGED <<present, lost>>

\* The action of x ends in a failure that leaves world v, reported as b.
FailsTo(x, v, b) ==
    LET a == active[x] IN
    /\ a # NoAction
    /\ \E w \in Worlds, s \in FailureStatuses, aligned \in BOOLEAN, attempted \in BOOLEAN :
         /\ IF attempted THEN Done(x, w) \/ (a.phase = "Playing" /\ w = World)
                         ELSE a.phase \in BeforeContact /\ w = World
         /\ \E o \in Compensations(w, a, aligned, attempted) :
              /\ v = o.world
              /\ b = RollbackOf(o, aligned, attempted)
              /\ ConcludeFailure(x, s, b)
    /\ UNCHANGED lost

Fails(x) == \E b \in Rollbacks : FailsTo(x, World', b) /\ UNCHANGED present

LeavesRunning(x) ==
    /\ x \in Players \cap present
    /\ present' = present \ {x}
    /\ \E v \in Worlds, b \in Rollbacks : FailsTo(x, v, b) /\ World' = DropFromHand(v, x)

LeavesIdle(x) ==
    /\ x \in Players \cap present
    /\ present' = present \ {x}
    /\ active[x] = NoAction
    /\ World' = DropFromHand(World, x)
    /\ UNCHANGED <<ledgerVars, itemRes, boxRes, active, lost>>

WorldStep ==
    \/ Stays
    \/ \E c \in CommandIds, r \in Requests : BeginAccepted(c, r)
    \/ \E x \in Actors : \/ Proceeds(x) \/ Commits(x) \/ Succeeds(x)
                         \/ Fails(x) \/ LeavesRunning(x) \/ LeavesIdle(x)
    \/ \E p \in Items : ItemEndPlay(p)

LEMMA SetWorldIsWorld ==
    ASSUME NEW v \in Worlds, SetWorld(v)
    PROVE  World' = v
BY DEF SetWorld, World, Worlds

LEMMA FinishFailureFails ==
    ASSUME World \in Worlds, NEW x \in Actors, active[x] \in Actions, active[x] # NoAction,
           NEW s \in FailureStatuses, NEW aligned \in BOOLEAN, NEW attempted \in BOOLEAN,
           NEW w \in Worlds, FinishFailure(x, s, aligned, attempted, w),
           UNCHANGED <<present, lost>>,
           IF attempted THEN Done(x, w) \/ (active[x].phase = "Playing" /\ w = World)
                        ELSE active[x].phase \in BeforeContact /\ w = World
    PROVE  Fails(x)
<1>1. PICK o \in Compensations(w, active[x], aligned, attempted) :
        /\ ConcludeFailure(x, s, RollbackOf(o, aligned, attempted))
        /\ SetWorld(o.world)
  BY DEF FinishFailure
<1>2. o.world \in Worlds
  BY CompensationsAreTyped
<1>3. RollbackOf(o, aligned, attempted) \in Rollbacks
  BY RollbackIsTyped
<1>4. World' = o.world
  BY <1>1, <1>2, SetWorldIsWorld
<1>5. FailsTo(x, World', RollbackOf(o, aligned, attempted))
  BY <1>1, <1>4 DEF FailsTo
<1> QED BY <1>3, <1>5 DEF Fails

LEMMA CompleteSuccessEnds ==
    ASSUME World \in Worlds, NEW x \in Actors, active[x] \in Actions, active[x] # NoAction,
           NEW w \in Worlds, Done(x, w), CompleteSuccess(x, w), UNCHANGED <<present, lost>>
    PROVE  Succeeds(x) \/ Fails(x)
<1> DEFINE a == active[x]
<1>1. CASE /\ ~IsLost(a.request)
           /\ GenerationAllows(a.request, "Succeeded")
           /\ Finalize(a.command, a.request, x, "Succeeded", "None")
           /\ Release(x, a)
           /\ active' = [active EXCEPT ![x] = NoAction]
           /\ SetWorld(w)
  BY <1>1, SetWorldIsWorld DEF Succeeds
<1>2. CASE FinishFailure(x, "Failed", TRUE, TRUE, w)
  <2>1. "Failed" \in FailureStatuses /\ TRUE \in BOOLEAN
    BY DEF FailureStatuses
  <2> QED BY <1>2, <2>1, FinishFailureFails
<1> QED BY <1>1, <1>2 DEF CompleteSuccess

LEMMA TicksStepTheWorld ==
    ASSUME TypeOK, NEW x \in Actors, Tick(x) \/ CancelActiveAction(x)
    PROVE  Proceeds(x) \/ Commits(x) \/ Succeeds(x) \/ Fails(x)
<1> DEFINE a == active[x]
<1>1. /\ World \in Worlds
      /\ active[x] # NoAction /\ active[x] \in Actions
  BY DEF TypeOK, Tick, CancelActiveAction, AdvanceApproach, AdvanceAlign, StartAnimation,
         FailBeforeContact, ContactRefused, ContactCommitted, AdvanceAfterContact,
         TimeOut, InPhase
<1>2. a.request \in Requests /\ a.phase \in Phases /\ Effect(World, a.request) \in Worlds
  BY <1>1, EffectIsTyped, ActionFields
<1>3. Aligned(a) \in BOOLEAN /\ (a.phase = "Contact") \in BOOLEAN
  BY DEF Aligned
<1>4. {"Failed", "TimedOut", "Canceled"} \subseteq FailureStatuses
  BY DEF FailureStatuses
<1>5. {"Align", "Animate", "Playing"} \subseteq BeforeContact
  BY DEF Phases, BeforeContact
<1>6. \A s \in FailureStatuses : FinishNow(x, s) /\ UNCHANGED <<present, lost>> => Fails(x)
  <2> SUFFICES ASSUME NEW s \in FailureStatuses, FinishNow(x, s), UNCHANGED <<present, lost>>
               PROVE  Fails(x)
    OBVIOUS
  <2>1. FinishFailure(x, s, Aligned(a), a.phase = "Contact", World)
    BY DEF FinishNow
  <2>2. IF a.phase = "Contact" THEN Done(x, World) \/ (a.phase = "Playing" /\ World = World)
                               ELSE a.phase \in BeforeContact /\ World = World
    BY <1>2 DEF Done, BeforeContact
  <2> QED BY <1>1, <1>3, <2>1, <2>2, FinishFailureFails
<1>7. CASE AdvanceApproach(x) \/ AdvanceAlign(x) \/ StartAnimation(x)
  <2>1. InPhase(x, BeforeContact)
    BY <1>7 DEF AdvanceApproach, AdvanceAlign, StartAnimation, InPhase, BeforeContact, Phases
  <2>2. \E phase \in {"Align", "Animate", "Playing"} : EnterPhase(x, phase)
    BY <1>7 DEF AdvanceApproach, AdvanceAlign, StartAnimation
  <2>3. UNCHANGED <<worldVars, itemRes, boxRes, present, lost>>
    BY <1>7 DEF AdvanceApproach, AdvanceAlign, StartAnimation
  <2> QED BY <1>5, <2>1, <2>2, <2>3 DEF Proceeds
<1>8. CASE FailBeforeContact(x)
  <2>1. PICK s \in {"Failed", "TimedOut"}, aligned \in BOOLEAN :
            FinishFailure(x, s, aligned, FALSE, World)
    BY <1>8 DEF FailBeforeContact
  <2>2. a.phase \in BeforeContact /\ UNCHANGED <<present, lost>> /\ FALSE \in BOOLEAN
    BY <1>8 DEF FailBeforeContact, InPhase
  <2> QED BY <1>1, <1>4, <2>1, <2>2, FinishFailureFails
<1>9. CASE ContactRefused(x)
  <2>1. /\ FinishFailure(x, "Failed", TRUE, TRUE, World)
        /\ a.phase = "Playing" /\ UNCHANGED <<present, lost>> /\ TRUE \in BOOLEAN
    BY <1>9 DEF ContactRefused, InPhase
  <2> QED BY <1>1, <1>4, <2>1, FinishFailureFails
<1>10. CASE ContactCommitted(x)
  <2> DEFINE w == Effect(World, a.request)
  <2>1. /\ InPhase(x, {"Playing"}) /\ ~IsLost(a.request) /\ ContactReady(World, a.request)
        /\ UNCHANGED <<present, lost>>
        /\ \/ EnterPhase(x, "Contact") /\ SetWorld(w) /\ UNCHANGED <<itemRes, boxRes>>
           \/ \E s \in {"Failed", "TimedOut"} : FinishFailure(x, s, TRUE, TRUE, w)
           \/ CompleteSuccess(x, w)
    BY <1>10 DEF ContactCommitted
  <2>2. Done(x, w)
    BY <2>1 DEF Done, InPhase
  <2>3. CASE EnterPhase(x, "Contact") /\ SetWorld(w) /\ UNCHANGED <<itemRes, boxRes>>
    BY <1>2, <2>1, <2>3, SetWorldIsWorld DEF Commits
  <2>4. CASE \E s \in {"Failed", "TimedOut"} : FinishFailure(x, s, TRUE, TRUE, w)
    <3> HIDE DEF w
    <3>1. w \in Worlds /\ TRUE \in BOOLEAN
      BY <1>2 DEF w
    <3> QED BY <1>1, <1>4, <2>1, <2>2, <2>4, <3>1, FinishFailureFails
  <2>5. CASE CompleteSuccess(x, w)
    BY <1>1, <1>2, <2>1, <2>2, <2>5, CompleteSuccessEnds
  <2> QED BY <2>1, <2>3, <2>4, <2>5
<1>11. CASE AdvanceAfterContact(x)
  <2>1. /\ Done(x, World) /\ UNCHANGED <<present, lost>>
        /\ \/ CompleteSuccess(x, World)
           \/ \E s \in {"Failed", "TimedOut"} : FinishFailure(x, s, TRUE, TRUE, World)
    BY <1>11 DEF AdvanceAfterContact, InPhase, Done
  <2>2. TRUE \in BOOLEAN
    OBVIOUS
  <2>3. CASE \E s \in {"Failed", "TimedOut"} : FinishFailure(x, s, TRUE, TRUE, World)
    BY <1>1, <1>4, <2>1, <2>2, <2>3, FinishFailureFails
  <2> QED BY <1>1, <2>1, <2>3, CompleteSuccessEnds
<1>12. CASE TimeOut(x) \/ CancelActiveAction(x)
  BY <1>4, <1>6, <1>12 DEF TimeOut, CancelActiveAction
<1> QED BY <1>7, <1>8, <1>9, <1>10, <1>11, <1>12 DEF Tick

LEMMA LeavingStepsTheWorld ==
    ASSUME TypeOK, NEW x \in Actors, PlayerLeaves(x)
    PROVE  LeavesRunning(x) \/ LeavesIdle(x)
<1> DEFINE a == active[x]
           attempted == a.phase = "Contact"
<1>1. World \in Worlds /\ DropFromHand(World, x) \in Worlds
  BY DropFromHandIsTyped DEF TypeOK
<1>2. x \in Players \cap present /\ present' = present \ {x} /\ UNCHANGED lost
  BY DEF PlayerLeaves
<1>3. CASE /\ a = NoAction
           /\ SetWorld(DropFromHand(World, x))
           /\ UNCHANGED <<ledgerVars, itemRes, boxRes, active>>
  BY <1>1, <1>2, <1>3, SetWorldIsWorld DEF LeavesIdle
<1>4. CASE /\ InPhase(x, Phases)
           /\ \E o \in Compensations(World, a, Aligned(a), attempted) :
                 /\ ConcludeFailure(x, "Canceled", RollbackOf(o, Aligned(a), attempted))
                 /\ SetWorld(DropFromHand(o.world, x))
  <2>1. PICK o \in Compensations(World, a, Aligned(a), attempted) :
                 /\ ConcludeFailure(x, "Canceled", RollbackOf(o, Aligned(a), attempted))
                 /\ SetWorld(DropFromHand(o.world, x))
    BY <1>4
  <2>2. a # NoAction /\ a \in Actions /\ a.phase \in Phases
    BY <1>4 DEF InPhase, TypeOK
  <2>3. Aligned(a) \in BOOLEAN /\ attempted \in BOOLEAN /\ "Canceled" \in FailureStatuses
    BY DEF Aligned, FailureStatuses
  <2>4. /\ o.world \in Worlds /\ DropFromHand(o.world, x) \in Worlds
        /\ RollbackOf(o, Aligned(a), attempted) \in Rollbacks
    BY <1>1, <2>2, <2>3, CompensationsAreTyped, DropFromHandIsTyped, RollbackIsTyped
  <2>5. IF attempted THEN Done(x, World) \/ (a.phase = "Playing" /\ World = World)
                     ELSE a.phase \in BeforeContact /\ World = World
    BY <2>2 DEF Done, BeforeContact
  <2>6. FailsTo(x, o.world, RollbackOf(o, Aligned(a), attempted))
    <3> HIDE DEF attempted
    <3> QED BY <1>1, <1>2, <2>1, <2>2, <2>3, <2>5 DEF FailsTo
  <2>7. World' = DropFromHand(o.world, x)
    BY <2>1, <2>4, SetWorldIsWorld
  <2> QED BY <1>2, <2>4, <2>6, <2>7 DEF LeavesRunning
<1> QED BY <1>3, <1>4 DEF PlayerLeaves

\* Every step treats the world in one of these ways.
LEMMA StepsOfTheWorld ==
    ASSUME TypeOK, Next
    PROVE  WorldStep
<1>1. ASSUME NEW c \in CommandIds, NEW r \in Requests,
             BeginRejected(c, r) \/ BeginAnswered(c, r)
      PROVE  Stays
  BY <1>1 DEF BeginRejected, BeginAnswered, Idles, Stays, vars
<1>2. OtherLiveCommand => Stays
  BY DEF OtherLiveCommand, Idles, Stays
<1>3. ASSUME NEW x \in Actors, Tick(x) \/ CancelActiveAction(x)
      PROVE  WorldStep
  BY <1>3, TicksStepTheWorld DEF WorldStep
<1>4. ASSUME NEW x \in Actors, PlayerLeaves(x)
      PROVE  WorldStep
  BY <1>4, LeavingStepsTheWorld DEF WorldStep
<1>5. ASSUME NEW c \in CommandIds, NEW r \in Requests,
             BeginAccepted(c, r) \/ BeginRejected(c, r) \/ BeginAnswered(c, r)
      PROVE  WorldStep
  BY <1>1, <1>5 DEF WorldStep
<1> QED BY <1>2, <1>3, <1>4, <1>5 DEF Next, WorldStep


-------------------------------------------------------------------------------
(***************************************************************************)
(* The inductive invariant: the before-state of a running action is what   *)
(* the world says of its participants until the contact, and what the      *)
(* effect was computed from afterwards; a hand that holds an item is       *)
(* recorded by the item.                                                   *)
(***************************************************************************)

RunningActionsFit ==
    \A x \in Actors : active[x] # NoAction =>
        active[x].request.actor = x /\ x \in present /\ Fits(active[x])

\* The participants of an action are where its phase says.
Stands(w, a) ==
    IF a.phase = "Contact" THEN Committed(w, a) /\ Switches(a) ELSE Untouched(w, a)

OthersStand(x, w) ==
    \A y \in Actors \ {x} :
        active[y] # NoAction /\ ~IsLost(active[y].request) => Stands(w, active[y])

HandsAreRecorded(w) == \A x \in Actors, p \in Items : w.hand[x] = p => w.pickup[p] = x

WorldInv ==
    /\ RunningActionsFit
    /\ \A x \in Actors :
          active[x] # NoAction /\ ~IsLost(active[x].request) => Stands(World, active[x])
    /\ HandsAreRecorded(World)

LEMMA StandsIsSettled ==
    ASSUME NEW w, NEW a, Stands(w, a)
    PROVE  Settled(w, a)
BY DEF Stands, Settled

LEMMA RunningAction ==
    ASSUME TypeOK, WorldInv, NEW x \in Actors, active[x] # NoAction
    PROVE  LET a == active[x] IN
           /\ a \in Actions /\ a.request \in Requests /\ a.command \in CommandIds
           /\ a.request.actor = x /\ x \in present /\ Fits(a)
           /\ ~IsLost(a.request) => Stands(World, a) /\ Settled(World, a) /\ Confined(World, a)
<1>1. active[x] \in Actions
  BY DEF TypeOK
<1>2. World \in Worlds
  BY DEF TypeOK
<1>3. ~IsLost(active[x].request) => Stands(World, active[x])
  BY DEF WorldInv
<1> QED BY <1>1, <1>2, <1>3, ActionFields, StandsIsSettled, SettledIsConfined
        DEF WorldInv, RunningActionsFit

\* Two running actions share no participant.
LEMMA ActionsAreDisjoint ==
    ASSUME TypeOK, ReservationInv, NEW x \in Actors, NEW y \in Actors, x # y,
           active[x] # NoAction, ~IsLost(active[x].request),
           active[y] # NoAction, ~IsLost(active[y].request)
    PROVE  /\ \A p \in Items : ~(active[x].request.item = p /\ active[y].request.item = p)
           /\ \A b \in Containers : ~(active[x].request.box = b /\ active[y].request.box = b)
<1>1. ReservedBy(x, active[x]) /\ ReservedBy(y, active[y])
  BY DEF ReservationInv, HoldsUnlessLost
<1> QED BY <1>1, HeldTickets, TicketFields

LEMMA TouchesKeepTheOthers ==
    ASSUME TypeOK, ReservationInv, WorldInv, NEW x \in Actors, active[x] # NoAction,
           ~IsLost(active[x].request), NEW v \in Worlds,
           OnlyTouches(World, v, active[x].request), Confined(v, active[x])
    PROVE  OthersStand(x, v) /\ HandsAreRecorded(v)
<1> DEFINE a == active[x]
           r == a.request
<1>1. /\ a \in Actions /\ r \in Requests /\ r.actor = x /\ Fits(a)
      /\ Settled(World, a) /\ HandsAreRecorded(World)
  BY RunningAction DEF WorldInv
<1>2. OthersStand(x, v)
  <2> SUFFICES ASSUME NEW y \in Actors \ {x},
                      active[y] # NoAction, ~IsLost(active[y].request)
               PROVE  Stands(v, active[y])
    BY DEF OthersStand
  <2> DEFINE s == active[y].request
  <2>1. s \in Requests /\ s.actor = y /\ Stands(World, active[y])
    BY RunningAction
  <2>2. /\ UsesItem(s) => s.item \in Items /\ s.item # r.item
        /\ UsesBox(s) => s.box \in Containers /\ s.box # r.box
    BY <2>1, ActionsAreDisjoint, RequestFields
  <2>3. /\ UsesItem(s) => v.pickup[s.item] = World.pickup[s.item]
                          /\ v.hand[s.actor] = World.hand[s.actor]
        /\ UsesBox(s) => v.box[s.box] = World.box[s.box]
    BY <1>1, <2>1, <2>2 DEF OnlyTouches
  <2>4. \A place, k : Records(World, s, place, k) => Records(v, s, place, k)
    BY <2>3 DEF Records
  <2> QED BY <2>1, <2>4 DEF Stands, Untouched, Committed
<1>3. HandsAreRecorded(v)
  <2> SUFFICES ASSUME NEW y \in Actors, NEW p \in Items, v.hand[y] = p
               PROVE  v.pickup[p] = y
    BY DEF HandsAreRecorded
  <2>1. UsesItem(r) <=> r.item \in Items
    BY <1>1, RequestFields
  <2>2. CASE y = x /\ UsesItem(r)
    BY <1>1, <2>1, <2>2, KindsAreDisjoint DEF Confined
  <2>3. CASE ~(y = x /\ UsesItem(r))
    <3>1. World.hand[y] = p /\ World.pickup[p] = y
      BY <1>1, <2>3 DEF OnlyTouches, HandsAreRecorded
    <3>2. p # r.item
      <4>1. UsesItem(r) => World.pickup[r.item] \in {a.before.place, PlaceAfter(r)}
        BY <1>1 DEF Settled, Untouched, Committed, Records
      <4> QED BY <1>1, <2>1, <2>3, <3>1, <4>1, RecordedPlaces
    <3> QED BY <3>1, <3>2 DEF OnlyTouches
  <2> QED BY <2>2, <2>3
<1> QED BY <1>2, <1>3

\* What a leaving actor holds is no participant of another running action.
LEMMA DropsKeepTheOthers ==
    ASSUME TypeOK, WorldInv, NEW x \in Actors, NEW v \in Worlds,
           OthersStand(x, v), HandsAreRecorded(v)
    PROVE  OthersStand(x, DropFromHand(v, x)) /\ HandsAreRecorded(DropFromHand(v, x))
<1> DEFINE u == DropFromHand(v, x)
<1>1. /\ \A q \in Items : u.pickup[q] = IF v.hand[x] = q THEN "Free" ELSE v.pickup[q]
      /\ \A y \in Actors : u.hand[y] = IF y = x THEN NoItem ELSE v.hand[y]
      /\ u.box = v.box
  BY DropFields
<1> HIDE DEF u
<1>2. OthersStand(x, u)
  <2> SUFFICES ASSUME NEW y \in Actors \ {x},
                      active[y] # NoAction, ~IsLost(active[y].request)
               PROVE  Stands(u, active[y])
    BY DEF OthersStand
  <2> DEFINE b == active[y]
             s == b.request
  <2>1. b \in Actions /\ s \in Requests /\ s.actor = y /\ Fits(b) /\ Stands(v, b)
    BY RunningAction DEF OthersStand
  <2>2. UsesItem(s) => s.item \in Items /\ v.pickup[s.item] # x
    <3>1. UsesItem(s) => v.pickup[s.item] \in {b.before.place, PlaceAfter(s)}
      BY <2>1 DEF Stands, Untouched, Committed, Records
    <3> QED BY <2>1, <3>1, RecordedPlaces, RequestFields
  <2>3. /\ UsesItem(s) => u.pickup[s.item] = v.pickup[s.item] /\ u.hand[s.actor] = v.hand[s.actor]
        /\ u.box = v.box
    BY <1>1, <2>1, <2>2 DEF HandsAreRecorded
  <2>4. \A place, k : Records(v, s, place, k) => Records(u, s, place, k)
    BY <2>3 DEF Records
  <2> QED BY <2>1, <2>4 DEF Stands, Untouched, Committed
<1>3. HandsAreRecorded(u)
  BY <1>1, KindsAreDisjoint DEF HandsAreRecorded
<1> QED BY <1>2, <1>3 DEF u

LEMMA DoneIsCommitted ==
    ASSUME TypeOK, WorldInv, NEW x \in Actors, active[x] # NoAction, NEW w, Done(x, w)
    PROVE  LET a == active[x] IN
           /\ w \in Worlds
           /\ OnlyTouches(World, w, a.request)
           /\ IsLost(a.request) => w = World
           /\ ~IsLost(a.request) => Committed(w, a) /\ Switches(a)
<1> DEFINE a == active[x]
<1>1. /\ World \in Worlds /\ a \in Actions /\ Fits(a)
      /\ ~IsLost(a.request) => Stands(World, a)
  BY RunningAction DEF TypeOK
<1>2. CASE a.phase = "Contact" /\ w = World
  BY <1>1, <1>2 DEF Stands, OnlyTouches
<1>3. CASE /\ a.phase = "Playing" /\ ~IsLost(a.request)
           /\ ContactReady(World, a.request) /\ w = Effect(World, a.request)
  <2>1. Untouched(World, a)
    BY <1>1, <1>3 DEF Stands
  <2>2. Switches(a)
    <3>1. a.request.affordance \in ToggleAffordances =>
            UsesBox(a.request) /\ World.box[a.request.box].open # (a.request.affordance = "Open")
      BY <1>1, <1>3, ActionFields, RequestFields
         DEF ContactReady, ToggleAffordances, StorageAffordances
    <3> QED BY <2>1, <3>1 DEF Switches, Untouched, Records
  <2> QED BY <1>1, <1>3, <2>1, <2>2, EffectCommits
<1> QED BY <1>2, <1>3 DEF Done


LEMMA FailureOutcome ==
    ASSUME TypeOK, ReservationInv, WorldInv, NEW x \in Actors, NEW v, NEW b, FailsTo(x, v, b)
    PROVE  LET a == active[x] IN
           /\ a # NoAction
           /\ v \in Worlds
           /\ OnlyTouches(World, v, a.request)
           /\ OthersStand(x, v) /\ HandsAreRecorded(v)
           /\ IsLost(a.request) => v = World
           /\ ~IsLost(a.request) => Confined(v, a)
           /\ ~IsLost(a.request) /\ b # "Unrestored" => Untouched(v, a)
           /\ ~IsLost(a.request) /\ ~EngineFaults => b # "Unrestored"
           /\ active' = [active EXCEPT ![x] = NoAction]
           /\ UNCHANGED lost
<1> DEFINE a == active[x]
<1>1. PICK w \in Worlds, s \in FailureStatuses, aligned \in BOOLEAN, attempted \in BOOLEAN :
         /\ IF attempted THEN Done(x, w) \/ (a.phase = "Playing" /\ w = World)
                         ELSE a.phase \in BeforeContact /\ w = World
         /\ \E o \in Compensations(w, a, aligned, attempted) :
              /\ v = o.world
              /\ b = RollbackOf(o, aligned, attempted)
              /\ ConcludeFailure(x, s, b)
  BY DEF FailsTo
<1>2. PICK o \in Compensations(w, a, aligned, attempted) :
              /\ v = o.world
              /\ b = RollbackOf(o, aligned, attempted)
              /\ ConcludeFailure(x, s, b)
  BY <1>1
<1>3. a # NoAction /\ UNCHANGED lost /\ active' = [active EXCEPT ![x] = NoAction]
  BY <1>2 DEF FailsTo, ConcludeFailure
<1>4. /\ World \in Worlds /\ a \in Actions /\ Fits(a)
      /\ ~IsLost(a.request) => Stands(World, a) /\ Settled(World, a)
  BY <1>3, RunningAction DEF TypeOK
<1>5. a.phase \in BeforeContact /\ ~IsLost(a.request) => Untouched(World, a)
  BY <1>4 DEF Stands, BeforeContact
<1>6. /\ OnlyTouches(World, w, a.request)
      /\ IsLost(a.request) => w = World
      /\ ~IsLost(a.request) => IF attempted THEN Settled(w, a) ELSE Untouched(w, a)
  <2>1. OnlyTouches(World, World, a.request)
    BY DEF OnlyTouches
  <2>2. CASE Done(x, w) /\ attempted
    BY <1>3, <2>2, DoneIsCommitted DEF Settled
  <2>3. CASE w = World
    BY <1>1, <1>3, <1>4, <1>5, <2>1, <2>2, <2>3
  <2> QED BY <1>1, <2>2, <2>3
<1>7. /\ v \in Worlds
      /\ OnlyTouches(w, v, a.request)
      /\ IsLost(a.request) => v = w
      /\ ~IsLost(a.request) => Confined(v, a)
      /\ ~IsLost(a.request) /\ b # "Unrestored" => Untouched(v, a)
      /\ ~IsLost(a.request) /\ ~EngineFaults => b # "Unrestored"
  BY <1>2, <1>4, <1>6, CompensationOutcomes
<1>8. OnlyTouches(World, v, a.request)
  BY <1>6, <1>7 DEF OnlyTouches
<1>9. OthersStand(x, v) /\ HandsAreRecorded(v)
  <2>1. CASE IsLost(a.request)
    BY <1>6, <1>7, <2>1 DEF WorldInv, OthersStand
  <2>2. CASE ~IsLost(a.request)
    BY <1>3, <1>7, <1>8, <2>2, TouchesKeepTheOthers
  <2> QED BY <2>1, <2>2
<1> QED BY <1>3, <1>6, <1>7, <1>8, <1>9

\* What ends an action leaves the invariant to the others.
LEMMA EndingKeepsTheWorldInv ==
    ASSUME TypeOK, WorldInv, NEW x \in Actors,
           active' = [active EXCEPT ![x] = NoAction], UNCHANGED lost,
           present \ {x} \subseteq present',
           OthersStand(x, World'), HandsAreRecorded(World')
    PROVE  WorldInv'
<1>1. /\ active'[x] = NoAction
      /\ \A y \in Actors \ {x} : active'[y] = active[y]
  BY DEF TypeOK
<1>2. RunningActionsFit'
  <2> SUFFICES ASSUME NEW y \in Actors, active'[y] # NoAction
               PROVE  active'[y].request.actor = y /\ y \in present' /\ Fits(active'[y])
    BY DEF RunningActionsFit, Fits
  <2> QED BY <1>1 DEF WorldInv, RunningActionsFit
<1>3. \A y \in Actors :
          active'[y] # NoAction /\ active'[y].request.item \notin lost' => Stands(World', active'[y])
  BY <1>1 DEF OthersStand, IsLost
<1> QED BY <1>2, <1>3 DEF WorldInv, IsLost, Stands, HandsAreRecorded


\* A request that is accepted finds its participants as Snapshot notes them.
LEMMA AcceptedFits ==
    ASSUME TypeOK, NEW c \in CommandIds, NEW r \in Requests, PreflightReady(World, r),
           NEW a, a = [command |-> c, request |-> r, phase |-> "Approach", before |-> Snapshot(r)]
    PROVE  /\ a \in Actions
           /\ Fits(a) /\ Untouched(World, a)
<1>1. /\ r.actor \in Actors /\ r.affordance \in Affordances
      /\ UsesItem(r) <=> r.item \in Items
      /\ UsesBox(r) <=> r.box \in Containers
      /\ r.affordance \notin ToggleAffordances => UsesItem(r)
      /\ r.affordance \in StorageAffordances \cup ToggleAffordances <=> UsesBox(r)
  BY RequestFields
<1>2. /\ a.request = r /\ a.phase = "Approach"
      /\ UsesItem(r) => a.before.place = World.pickup[r.item]
      /\ UsesBox(r) => a.before.box = World.box[r.box]
  BY DEF Snapshot, UsesItem, UsesBox, World
<1>3. a \in Actions
  BY SnapshotIsTyped DEF Actions, Phases
<1>4. UsesItem(r) => World.hand[r.actor] = HandOf(r, World.pickup[r.item])
  <2>1. UsesItem(r) => r.affordance \notin ToggleAffordances
    BY RequestsAreWellFormed DEF WellFormed, UsesItem
  <2>2. UsesItem(r) =>
          \/ World.pickup[r.item] \in {"Free", "Placed"} /\ World.hand[r.actor] = NoItem
          \/ World.pickup[r.item] = r.actor /\ World.hand[r.actor] = r.item
          \/ World.pickup[r.item] \in Containers /\ World.hand[r.actor] = NoItem
    BY <1>1, <2>1 DEF PreflightReady, TransferReady, Carries, StorageAffordances
  <2> QED BY <1>1, <2>2, KindsAreDisjoint DEF HandOf
<1>5. Fits(a)
  BY <1>1, <1>2
     DEF Fits, PreflightReady, TransferReady, Carries, StorageAffordances, ToggleAffordances
<1> QED BY <1>2, <1>3, <1>4, <1>5 DEF Untouched, Records

LEMMA BeginningKeepsTheWorldInv ==
    ASSUME TypeOK, WorldInv, NEW c \in CommandIds, NEW r \in Requests, BeginAccepted(c, r)
    PROVE  WorldInv'
<1> DEFINE x == r.actor
           a == [command |-> c, request |-> r, phase |-> "Approach", before |-> Snapshot(r)]
<1>1. a \in Actions /\ Fits(a) /\ Untouched(World, a)
  BY AcceptedFits DEF BeginAccepted
<1>2. a.request = r /\ a.phase = "Approach"
  OBVIOUS
<1>3. /\ x \in Actors /\ x \in present
      /\ active' = [active EXCEPT ![x] = a]
      /\ UNCHANGED <<worldVars, present, lost>>
  BY RequestFields DEF BeginAccepted
<1> HIDE DEF a
<1>4. /\ active'[x] = a
      /\ \A y \in Actors \ {x} : active'[y] = active[y]
      /\ World' = World /\ present' = present /\ lost' = lost
  BY <1>3 DEF TypeOK, World, worldVars
<1>5. RunningActionsFit'
  <2> SUFFICES ASSUME NEW y \in Actors, active'[y] # NoAction
               PROVE  active'[y].request.actor = y /\ y \in present' /\ Fits(active'[y])
    BY DEF RunningActionsFit, Fits
  <2> QED BY <1>1, <1>2, <1>3, <1>4 DEF WorldInv, RunningActionsFit
<1>6. Stands(World, a)
  BY <1>1, <1>2 DEF Stands
<1>7. \A y \in Actors :
          active'[y] # NoAction /\ active'[y].request.item \notin lost' => Stands(World', active'[y])
  BY <1>4, <1>6 DEF WorldInv, IsLost
<1> QED BY <1>4, <1>5, <1>7 DEF WorldInv, IsLost, Stands, HandsAreRecorded

\* A new phase leaves the action what it was.
LEMMA PhaseFields ==
    ASSUME TypeOK, NEW x \in Actors, active[x] # NoAction, NEW phase \in Phases,
           EnterPhase(x, phase)
    PROVE  /\ active'[x] \in Actions /\ active'[x] # NoAction
           /\ active'[x].phase = phase
           /\ active'[x].command = active[x].command
           /\ active'[x].request = active[x].request
           /\ active'[x].before = active[x].before
           /\ \A y \in Actors \ {x} : active'[y] = active[y]
<1>1. active[x] \in Actions /\ active' = [active EXCEPT ![x].phase = phase]
  BY DEF TypeOK, EnterPhase
<1>2. [active[x] EXCEPT !.phase = phase] \in Actions
  BY <1>1 DEF Actions
<1>3. active'[x] = [active[x] EXCEPT !.phase = phase] /\ \A y \in Actors \ {x} : active'[y] = active[y]
  BY <1>1 DEF TypeOK
<1> QED BY <1>1, <1>2, <1>3, NoActionAssumption DEF Actions

LEMMA PhasesKeepTheWorldInv ==
    ASSUME TypeOK, WorldInv, NEW x \in Actors, active[x] # NoAction, NEW phase \in Phases,
           EnterPhase(x, phase), UNCHANGED <<present, lost>>,
           OthersStand(x, World'), HandsAreRecorded(World'),
           ~IsLost(active[x].request) =>
               IF phase = "Contact" THEN Committed(World', active[x]) /\ Switches(active[x])
                                    ELSE Untouched(World', active[x])
    PROVE  WorldInv'
<1> DEFINE a == active[x]
           b == active'[x]
<1>1. /\ b # NoAction /\ b.phase = phase /\ b.request = a.request /\ b.before = a.before
      /\ \A y \in Actors \ {x} : active'[y] = active[y]
  BY PhaseFields
<1>2. /\ Fits(b) <=> Fits(a)
      /\ \A w : Committed(w, b) <=> Committed(w, a)
      /\ \A w : Untouched(w, b) <=> Untouched(w, a)
      /\ Switches(b) <=> Switches(a)
  BY <1>1 DEF Fits, Committed, Untouched, Switches
<1> HIDE DEF a, b
<1>3. RunningActionsFit'
  <2> SUFFICES ASSUME NEW y \in Actors, active'[y] # NoAction
               PROVE  active'[y].request.actor = y /\ y \in present' /\ Fits(active'[y])
    BY DEF RunningActionsFit, Fits
  <2> QED BY <1>1, <1>2 DEF WorldInv, RunningActionsFit, a, b
<1>4. \A y \in Actors :
          active'[y] # NoAction /\ active'[y].request.item \notin lost' => Stands(World', active'[y])
  <2> SUFFICES ASSUME NEW y \in Actors, active'[y] # NoAction, active'[y].request.item \notin lost'
               PROVE  Stands(World', active'[y])
    OBVIOUS
  <2>1. CASE y = x
    BY <1>1, <1>2, <2>1 DEF Stands, IsLost, a, b
  <2>2. CASE y # x
    BY <1>1, <2>2 DEF OthersStand, IsLost
  <2> QED BY <2>1, <2>2
<1> QED BY <1>3, <1>4 DEF WorldInv, IsLost, Stands, HandsAreRecorded

\* An item that is destroyed was in no hand but that of its own action.
LEMMA LosingKeepsTheWorldInv ==
    ASSUME TypeOK, WorldInv, NEW p \in Items, ItemEndPlay(p)
    PROVE  WorldInv'
<1>1. /\ lost' = lost \cup {p}
      /\ UNCHANGED <<active, present>>
      /\ World'.pickup = World.pickup /\ World'.box = World.box
      /\ \A x \in Actors : World'.hand[x] = IF World.hand[x] = p THEN NoItem ELSE World.hand[x]
  BY DEF ItemEndPlay, World
<1>2. RunningActionsFit'
  BY <1>1 DEF WorldInv, RunningActionsFit, Fits
<1>3. ASSUME NEW x \in Actors, active[x] # NoAction, active[x].request.item \notin lost'
      PROVE  Stands(World', active[x])
  <2> DEFINE a == active[x]
             r == a.request
  <2>1. /\ a \in Actions /\ r \in Requests /\ r.actor \in Actors /\ Fits(a)
        /\ r.item # p /\ Stands(World, a) /\ Confined(World, a)
    BY <1>1, <1>3, RunningAction DEF IsLost
  <2>2. UsesItem(r) => World'.hand[r.actor] = World.hand[r.actor]
    BY <1>1, <2>1, KindsAreDisjoint DEF Confined
  <2>3. \A place, k : Records(World, r, place, k) => Records(World', r, place, k)
    BY <1>1, <2>2 DEF Records
  <2> QED BY <2>1, <2>3 DEF Stands, Untouched, Committed
<1>4. HandsAreRecorded(World')
  BY <1>1, KindsAreDisjoint DEF WorldInv, HandsAreRecorded
<1> QED BY <1>1, <1>2, <1>3, <1>4 DEF WorldInv, IsLost, Stands, HandsAreRecorded

LEMMA WorldInvInit == Init => WorldInv
<1> SUFFICES ASSUME Init PROVE WorldInv
  OBVIOUS
<1>1. /\ \A x \in Actors : active[x] = NoAction
      /\ \A x \in Actors : World.hand[x] = NoItem
  BY DEF Init, World
<1> QED BY <1>1, KindsAreDisjoint DEF WorldInv, RunningActionsFit, HandsAreRecorded

LEMMA WorldInvStep == TypeOK /\ ReservationInv /\ WorldInv /\ [Next]_vars => WorldInv'
<1> SUFFICES ASSUME TypeOK, ReservationInv, WorldInv, [Next]_vars PROVE WorldInv'
  OBVIOUS
<1>1. ASSUME UNCHANGED <<worldVars, active, present, lost>> PROVE WorldInv'
  <2>1. World' = World
    BY <1>1 DEF World, worldVars
  <2> QED BY <1>1, <2>1
          DEF WorldInv, RunningActionsFit, Fits, IsLost, Stands, HandsAreRecorded
<1>2. World \in Worlds /\ HandsAreRecorded(World) /\ \A x \in Actors : OthersStand(x, World)
  BY DEF TypeOK, WorldInv, OthersStand
<1>3. CASE Next
  <2>1. WorldStep
    BY <1>3, StepsOfTheWorld
  <2>2. CASE Stays
    BY <1>1, <2>2 DEF Stays, Idles
  <2>3. ASSUME NEW x \in Actors, Proceeds(x) PROVE WorldInv'
    <3>1. PICK phase \in BeforeContact : EnterPhase(x, phase)
      BY <2>3 DEF Proceeds
    <3>2. /\ active[x] # NoAction /\ active[x].phase # "Contact"
          /\ phase \in Phases /\ phase # "Contact"
          /\ World' = World /\ UNCHANGED <<present, lost>>
      BY <2>3 DEF Proceeds, InPhase, BeforeContact, World, worldVars
    <3>3. ~IsLost(active[x].request) => Untouched(World, active[x])
      BY <3>2 DEF WorldInv, Stands
    <3> QED BY <1>2, <3>1, <3>2, <3>3, PhasesKeepTheWorldInv
  <2>4. ASSUME NEW x \in Actors, Commits(x) PROVE WorldInv'
    <3>1. /\ active[x] # NoAction /\ ~IsLost(active[x].request)
          /\ EnterPhase(x, "Contact") /\ "Contact" \in Phases
          /\ Done(x, World') /\ UNCHANGED <<present, lost>>
      BY <2>4 DEF Commits, InPhase, Done, Phases
    <3>2. /\ active[x] \in Actions /\ Fits(active[x]) /\ World' \in Worlds
          /\ OnlyTouches(World, World', active[x].request)
          /\ Committed(World', active[x]) /\ Switches(active[x])
      BY <3>1, RunningAction, DoneIsCommitted
    <3>3. Confined(World', active[x])
      BY <3>2, SettledIsConfined DEF Settled
    <3>4. OthersStand(x, World') /\ HandsAreRecorded(World')
      BY <3>1, <3>2, <3>3, TouchesKeepTheOthers
    <3> QED BY <3>1, <3>2, <3>4, PhasesKeepTheWorldInv
  <2>5. ASSUME NEW x \in Actors, Succeeds(x) PROVE WorldInv'
    <3>1. /\ active[x] # NoAction /\ ~IsLost(active[x].request) /\ Done(x, World')
          /\ active' = [active EXCEPT ![x] = NoAction] /\ UNCHANGED <<present, lost>>
      BY <2>5 DEF Succeeds
    <3>2. /\ active[x] \in Actions /\ Fits(active[x]) /\ World' \in Worlds
          /\ OnlyTouches(World, World', active[x].request)
          /\ Committed(World', active[x])
      BY <3>1, RunningAction, DoneIsCommitted
    <3>3. Confined(World', active[x])
      BY <3>2, SettledIsConfined DEF Settled
    <3>4. OthersStand(x, World') /\ HandsAreRecorded(World')
      BY <3>1, <3>2, <3>3, TouchesKeepTheOthers
    <3> QED BY <3>1, <3>4, EndingKeepsTheWorldInv
  <2>6. ASSUME NEW x \in Actors, Fails(x) PROVE WorldInv'
    <3>1. PICK b \in Rollbacks : FailsTo(x, World', b) /\ UNCHANGED present
      BY <2>6 DEF Fails
    <3>2. /\ active' = [active EXCEPT ![x] = NoAction] /\ UNCHANGED lost
          /\ OthersStand(x, World') /\ HandsAreRecorded(World')
      BY <3>1, FailureOutcome
    <3> QED BY <3>1, <3>2, EndingKeepsTheWorldInv
  <2>7. ASSUME NEW x \in Actors, LeavesRunning(x) PROVE WorldInv'
    <3>1. PICK v \in Worlds, b \in Rollbacks : FailsTo(x, v, b) /\ World' = DropFromHand(v, x)
      BY <2>7 DEF LeavesRunning
    <3>2. /\ active' = [active EXCEPT ![x] = NoAction] /\ UNCHANGED lost
          /\ OthersStand(x, v) /\ HandsAreRecorded(v)
      BY <3>1, FailureOutcome
    <3>3. OthersStand(x, World') /\ HandsAreRecorded(World')
      BY <3>1, <3>2, DropsKeepTheOthers
    <3>4. present' = present \ {x}
      BY <2>7 DEF LeavesRunning
    <3> QED BY <3>2, <3>3, <3>4, EndingKeepsTheWorldInv
  <2>8. ASSUME NEW x \in Actors, LeavesIdle(x) PROVE WorldInv'
    <3>1. /\ World' = DropFromHand(World, x) /\ present' = present \ {x}
          /\ active[x] = NoAction /\ UNCHANGED <<active, lost>>
      BY <2>8 DEF LeavesIdle
    <3>2. OthersStand(x, World') /\ HandsAreRecorded(World')
      BY <1>2, <3>1, DropsKeepTheOthers
    <3>3. active' = [active EXCEPT ![x] = NoAction]
      BY <3>1 DEF TypeOK
    <3> QED BY <3>1, <3>2, <3>3, EndingKeepsTheWorldInv
  <2> QED BY <2>1, <2>2, <2>3, <2>4, <2>5, <2>6, <2>7, <2>8,
             BeginningKeepsTheWorldInv, LosingKeepsTheWorldInv DEF WorldStep
<1>4. CASE UNCHANGED vars
  BY <1>1, <1>4 DEF vars
<1> QED BY <1>3, <1>4

\* Whatever fails, whoever leaves and whatever is destroyed, the before-state an
\* action noted describes its participants until its contact, and its effect does
\* from then on.
THEOREM WorldInvariant == Spec => []WorldInv
<1>1. Init => WorldInv
  BY WorldInvInit
<1>2. TypeOK /\ ReservationInv /\ WorldInv /\ [Next]_vars => WorldInv'
  BY WorldInvStep
<1> QED BY <1>1, <1>2, ExecutorIsTyped, ReservationInvariant, PTL DEF Spec


-------------------------------------------------------------------------------
(***************************************************************************)
(* Who changes the world.                                                  *)
(***************************************************************************)

\* What a running action touches it has reserved.
LEMMA TouchedIsReserved ==
    ASSUME TypeOK, ReservationInv, NEW x \in Actors, active[x] # NoAction,
           ~IsLost(active[x].request), NEW v, OnlyTouches(World, v, active[x].request)
    PROVE  /\ \A p \in Items : v.pickup[p] # pickup[p] =>
                  itemRes[p] # NoTicket /\ itemRes[p].executor = x
           /\ \A b \in Containers : v.box[b] # box[b] =>
                  boxRes[b] # NoTicket /\ boxRes[b].executor = x
<1>1. ReservedBy(x, active[x])
  BY DEF ReservationInv, HoldsUnlessLost
<1>2. World.pickup = pickup /\ World.box = box
  BY DEF World
<1> QED BY <1>1, <1>2, HeldTickets, TicketFields DEF OnlyTouches

\* No item moves and no container changes but by the executor that holds it, or
\* by a leaving player that drops what it held: not even a compensation, or the
\* end of an action whose item was destroyed, touches anything else.
THEOREM OnlyHoldersEverChangeTheWorld == Spec => OnlyHoldersChangeTheWorld
<1> DEFINE Held == /\ \A p \in Items : pickup'[p] # pickup[p] =>
                        \/ itemRes[p] # NoTicket
                             /\ active'[itemRes[p].executor] # active[itemRes[p].executor]
                        \/ \E x \in present \ present' : hand[x] = p
                   /\ \A b \in Containers : box'[b] # box[b] =>
                        boxRes[b] # NoTicket
                          /\ active'[boxRes[b].executor] # active[boxRes[b].executor]
<1>1. TypeOK /\ ReservationInv /\ WorldInv /\ [Next]_vars => [Held]_vars
  <2> SUFFICES ASSUME TypeOK, ReservationInv, WorldInv, Next PROVE Held
    OBVIOUS
  <2>1. World'.pickup = pickup' /\ World'.box = box' /\ World.pickup = pickup /\ World.hand = hand /\ World.box = box
    BY DEF World
  <2>2. ASSUME UNCHANGED <<pickup, box>> PROVE Held
    BY <2>2
  <2>3. ASSUME NEW x \in Actors, active[x] # NoAction, active'[x] # active[x],
               IsLost(active[x].request) => UNCHANGED <<pickup, box>>,
               OnlyTouches(World, World', active[x].request)
        PROVE  Held
    BY <2>1, <2>3, TouchedIsReserved
  <2>4. ASSUME NEW x \in Actors, Commits(x) PROVE Held
    <3>1. /\ active[x] # NoAction /\ ~IsLost(active[x].request)
          /\ active[x].phase # "Contact"
          /\ EnterPhase(x, "Contact") /\ "Contact" \in Phases /\ Done(x, World')
      BY <2>4 DEF Commits, InPhase, Done, Phases
    <3> QED BY <2>3, <3>1, DoneIsCommitted, PhaseFields
  <2>5. ASSUME NEW x \in Actors, Succeeds(x) PROVE Held
    <3>1. /\ active[x] # NoAction /\ ~IsLost(active[x].request) /\ Done(x, World')
          /\ active'[x] = NoAction
      BY <2>5 DEF Succeeds, TypeOK
    <3> QED BY <2>3, <3>1, DoneIsCommitted
  <2>6. ASSUME NEW x \in Actors, Fails(x) PROVE Held
    <3>1. PICK b \in Rollbacks : FailsTo(x, World', b)
      BY <2>6 DEF Fails
    <3>2. /\ active[x] # NoAction /\ active' = [active EXCEPT ![x] = NoAction]
          /\ OnlyTouches(World, World', active[x].request)
          /\ IsLost(active[x].request) => World' = World
      BY <3>1, FailureOutcome
    <3> QED BY <2>1, <2>3, <3>2 DEF TypeOK
  <2>7. ASSUME NEW x \in Actors, LeavesRunning(x) PROVE Held
    <3> DEFINE r == active[x].request
    <3>1. PICK v \in Worlds, b \in Rollbacks : FailsTo(x, v, b) /\ World' = DropFromHand(v, x)
      BY <2>7 DEF LeavesRunning
    <3>2. /\ active[x] # NoAction /\ active'[x] = NoAction
          /\ OnlyTouches(World, v, r)
          /\ IsLost(r) => v = World
          /\ ~IsLost(r) => Confined(v, active[x])
      BY <3>1, FailureOutcome DEF TypeOK
    <3>3. x \in present \ present' /\ r \in Requests /\ r.actor = x
      BY <2>7, <3>2, RunningAction DEF LeavesRunning
    <3>4. /\ \A q \in Items : pickup'[q] = IF v.hand[x] = q THEN "Free" ELSE v.pickup[q]
          /\ box' = v.box
      BY <2>1, <3>1, DropFields
    <3>5. CASE IsLost(r)
      BY <2>1, <3>2, <3>3, <3>4, <3>5
    <3>6. CASE ~IsLost(r)
      <4>1. /\ \A p \in Items : v.pickup[p] # pickup[p] =>
                   itemRes[p] # NoTicket /\ itemRes[p].executor = x
            /\ \A c \in Containers : v.box[c] # box[c] =>
                   boxRes[c] # NoTicket /\ boxRes[c].executor = x
        BY <3>2, <3>6, TouchedIsReserved
      <4>2. ASSUME NEW p \in Items, v.hand[x] = p
            PROVE  hand[x] = p \/ (itemRes[p] # NoTicket /\ itemRes[p].executor = x)
        <5>1. CASE UsesItem(r)
          <6>1. p = r.item
            BY <3>2, <3>3, <3>6, <4>2, <5>1, KindsAreDisjoint DEF Confined
          <6>2. ReservedBy(x, active[x])
            BY <3>2, <3>6 DEF ReservationInv, HoldsUnlessLost
          <6> QED BY <3>2, <6>1, <6>2, HeldTickets, TicketFields
        <5>2. CASE ~UsesItem(r)
          BY <2>1, <3>2, <4>2, <5>2 DEF OnlyTouches
        <5> QED BY <5>1, <5>2
      <4> QED BY <3>2, <3>3, <3>4, <4>1, <4>2
    <3> QED BY <3>5, <3>6
  <2>8. ASSUME NEW x \in Actors, LeavesIdle(x) PROVE Held
    <3>1. World \in Worlds /\ World' = DropFromHand(World, x) /\ x \in present \ present'
      BY <2>8 DEF LeavesIdle, TypeOK
    <3>2. /\ \A q \in Items : pickup'[q] = IF hand[x] = q THEN "Free" ELSE pickup[q]
          /\ box' = box
      BY <2>1, <3>1, DropFields
    <3> QED BY <3>1, <3>2
  <2>9. WorldStep
    BY StepsOfTheWorld
  <2>10. ASSUME Stays \/ (\E c \in CommandIds, r \in Requests : BeginAccepted(c, r))
                \/ (\E x \in Actors : Proceeds(x)) \/ (\E p \in Items : ItemEndPlay(p))
         PROVE  Held
    <3>1. UNCHANGED <<pickup, box>>
      BY <2>10 DEF Stays, BeginAccepted, Proceeds, ItemEndPlay, worldVars
    <3> QED BY <2>2, <3>1
  <2> HIDE DEF Held
  <2> QED BY <2>4, <2>5, <2>6, <2>7, <2>8, <2>9, <2>10 DEF WorldStep
<1> QED BY <1>1, ExecutorIsTyped, ReservationInvariant, WorldInvariant, PTL
        DEF Spec, OnlyHoldersChangeTheWorld

-------------------------------------------------------------------------------
(***************************************************************************)
(* Failures, and the agreement of the records.                             *)
(***************************************************************************)

\* A failed action whose item still exists ends with its receipt.
LEMMA FailureReceipt ==
    ASSUME TypeOK, ReservationInv, NEW x \in Actors, NEW v, NEW b \in Rollbacks,
           FailsTo(x, v, b), ~IsLost(active[x].request)
    PROVE  LET a == active[x]
               e == ledger'[a.command] IN
           /\ a.command \in CommandIds
           /\ Release(x, a)
           /\ \E s \in FailureStatuses : Finalize(a.command, a.request, x, s, b)
           /\ e # ledger[a.command]
           /\ e.request = a.request /\ e.rollback = b /\ e.status \in FailureStatuses
<1> DEFINE a == active[x]
<1>1. PICK s \in FailureStatuses : ConcludeFailure(x, s, b)
  BY DEF FailsTo
<1>2. a # NoAction /\ a \in Actions /\ a.command \in CommandIds
  BY DEF FailsTo, TypeOK, Actions
<1>3. Releasable(x, a)
  BY <1>2 DEF ReservationInv, HoldsUnlessLost, Releasable
<1>4. PICK t \in FailureStatuses : Finalize(a.command, a.request, x, t, b) /\ Release(x, a)
  <2>1. "Failed" \in FailureStatuses
    BY DEF FailureStatuses
  <2> QED BY <1>1, <1>3, <2>1 DEF ConcludeFailure
<1>5. /\ ledger'[a.command] = TerminalEntry(a.request, t, b)
      /\ ~ledger[a.command].terminal
  BY <1>2, <1>4 DEF Finalize, IsOpenFor, TypeOK, LedgerTypeOK
<1>6. /\ ledger'[a.command].terminal
      /\ ledger'[a.command].request = a.request
      /\ ledger'[a.command].rollback = b /\ ledger'[a.command].status = t
  BY <1>5 DEF TerminalEntry
<1> QED BY <1>2, <1>4, <1>5, <1>6

\* Unless items are destroyed, a failed, canceled or timed out action leaves its
\* item and container as it found them, or says in its receipt that it did not.
THEOREM FailedActionsLeaveNoTrace ==
    ASSUME MortalItems = {}
    PROVE  Spec => FailedActionLeavesNoTrace
<1> DEFINE NoTrace ==
        \A x \in Actors, c \in CommandIds :
            LET a == active[x] IN
            /\ Terminates(x, c)
            /\ ledger'[c].status \in FailureStatuses
            /\ ledger'[c].rollback # "Unrestored"
            /\ present' = present
            => /\ UsesItem(a.request) => pickup'[a.request.item] = a.before.place
               /\ UsesBox(a.request) => box'[a.request.box] = a.before.box
<1>1. TypeOK /\ ReservationInv /\ WorldInv /\ lost = {} /\ [Next]_vars => [NoTrace]_vars
  <2> SUFFICES ASSUME TypeOK, ReservationInv, WorldInv, lost = {}, Next,
                      NEW x \in Actors, NEW c \in CommandIds, Terminates(x, c),
                      ledger'[c].status \in FailureStatuses,
                      ledger'[c].rollback # "Unrestored", present' = present
               PROVE  LET a == active[x] IN
                      /\ UsesItem(a.request) => pickup'[a.request.item] = a.before.place
                      /\ UsesBox(a.request) => box'[a.request.box] = a.before.box
    OBVIOUS
  <2> DEFINE a == active[x]
  <2>1. a # NoAction /\ a.command = c /\ active'[x] = NoAction /\ ~IsLost(a.request)
    BY DEF Terminates, IsLost
  <2>2. ASSUME NEW y \in Actors, \A z \in Actors \ {y} : active'[z] = active[z]
        PROVE  y = x
    BY <2>1, <2>2
  <2>3. World'.pickup = pickup' /\ World'.box = box'
    BY DEF World
  <2>4. ASSUME NEW y \in Actors, Fails(y)
        PROVE  Untouched(World', a)
    <3>1. PICK b \in Rollbacks : FailsTo(y, World', b)
      BY <2>4 DEF Fails
    <3>2. active' = [active EXCEPT ![y] = NoAction]
      BY <3>1, FailureOutcome
    <3>3. y = x
      BY <2>2, <3>2 DEF TypeOK
    <3>4. b # "Unrestored"
      BY <2>1, <3>1, <3>3, FailureReceipt
    <3> QED BY <2>1, <3>1, <3>3, <3>4, FailureOutcome
  <2>5. ASSUME NEW y \in Actors, Succeeds(y)
        PROVE  FALSE
    <3>1. active' = [active EXCEPT ![y] = NoAction] /\ active[y] # NoAction
      BY <2>5 DEF Succeeds
    <3>2. y = x
      BY <2>2, <3>1 DEF TypeOK
    <3>3. Finalize(c, a.request, x, "Succeeded", "None")
      BY <2>1, <2>5, <3>2 DEF Succeeds
    <3>4. ledger'[c].status = "Succeeded"
      BY <3>3 DEF Finalize, TerminalEntry, TypeOK, LedgerTypeOK
    <3> QED BY <3>4 DEF FailureStatuses
  <2>6. ASSUME NEW y \in Actors, Proceeds(y) \/ Commits(y)
        PROVE  FALSE
    <3>1. \E phase \in Phases : active[y] # NoAction /\ EnterPhase(y, phase)
      BY <2>6 DEF Proceeds, Commits, InPhase, BeforeContact, Phases
    <3>2. active'[y] # NoAction /\ \A z \in Actors \ {y} : active'[z] = active[z]
      BY <3>1, PhaseFields
    <3> QED BY <2>1, <2>2, <3>2
  <2>7. ASSUME NEW d \in CommandIds, NEW r \in Requests, BeginAccepted(d, r)
        PROVE  FALSE
    <3>1. active[r.actor] = NoAction /\ \A z \in Actors \ {r.actor} : active'[z] = active[z]
      BY <2>7 DEF BeginAccepted, TypeOK
    <3> QED BY <2>1, <3>1
  <2>8. ~(Stays \/ \E p \in Items : ItemEndPlay(p))
    BY <2>1 DEF Stays, Idles, ItemEndPlay
  <2>9. ASSUME NEW y \in Actors, LeavesRunning(y) \/ LeavesIdle(y)
        PROVE  FALSE
    BY <2>9 DEF LeavesRunning, LeavesIdle
  <2>10. Untouched(World', a)
    BY <2>4, <2>5, <2>6, <2>7, <2>8, <2>9, StepsOfTheWorld DEF WorldStep
  <2> QED BY <2>3, <2>10 DEF Untouched, Records
<1>2. Spec => [](lost = {})
  BY NothingIsLost
<1> QED BY <1>1, <1>2, ExecutorIsTyped, ReservationInvariant, WorldInvariant, PTL
        DEF Spec, FailedActionLeavesNoTrace


\* Unless items are destroyed, the records of an item stay in agreement in every
\* step but one whose compensation of an action on this item failed.
LEMMA AgreementStep ==
    ASSUME TypeOK, ReservationInv, WorldInv, lost = {}, MortalItems = {}, [Next]_vars,
           NEW q \in Items, Agrees(World, q), ~Agrees(World', q)
    PROVE  \E x \in Actors, v \in Worlds :
               FailsTo(x, v, "Unrestored") /\ active[x].request.item = q
<1>1. World \in Worlds /\ \A r : ~IsLost(r)
  BY DEF TypeOK, IsLost
<1>2. World' = World => FALSE
  OBVIOUS
<1>3. ASSUME NEW x \in Actors, active[x] # NoAction, Done(x, World') PROVE FALSE
  <2>1. /\ active[x] \in Actions /\ Fits(active[x]) /\ Settled(World, active[x])
        /\ World' \in Worlds /\ Settled(World', active[x])
        /\ OnlyTouches(World, World', active[x].request)
    BY <1>1, <1>3, RunningAction, DoneIsCommitted DEF Settled
  <2> QED BY <1>1, <2>1, AgreementKept
<1>4. ASSUME NEW x \in Actors, NEW v, NEW b, FailsTo(x, v, b),
             b # "Unrestored" \/ active[x].request.item # q
      PROVE  Agrees(v, q)
  <2>1. /\ active[x] # NoAction /\ v \in Worlds
        /\ OnlyTouches(World, v, active[x].request)
        /\ Confined(v, active[x])
        /\ b # "Unrestored" => Untouched(v, active[x])
    BY <1>1, <1>4, FailureOutcome
  <2>2. /\ active[x] \in Actions /\ Fits(active[x])
        /\ Settled(World, active[x]) /\ Confined(World, active[x])
    BY <1>1, <2>1, RunningAction
  <2>3. CASE active[x].request.item # q
    BY <1>1, <2>1, <2>2, <2>3, AgreementElsewhere
  <2>4. CASE b # "Unrestored"
    <3>1. Settled(v, active[x])
      BY <2>1, <2>4 DEF Settled
    <3> QED BY <1>1, <2>1, <2>2, <3>1, AgreementKept
  <2> QED BY <1>4, <2>3, <2>4
<1>5. ~UNCHANGED worldVars
  BY DEF worldVars, World
<1>6. WorldStep
  BY <1>5, StepsOfTheWorld DEF vars
<1>7. ASSUME NEW x \in Actors, Commits(x) \/ Succeeds(x) PROVE FALSE
  <2>1. active[x] # NoAction /\ Done(x, World')
    BY <1>7 DEF Commits, InPhase, Done, Succeeds
  <2> QED BY <1>3, <2>1
<1>8. ASSUME NEW x \in Actors, Fails(x)
      PROVE  \E v \in Worlds : FailsTo(x, v, "Unrestored") /\ active[x].request.item = q
  <2>1. PICK b \in Rollbacks : FailsTo(x, World', b)
    BY <1>8 DEF Fails
  <2>2. World' \in Worlds
    BY <2>1, FailureOutcome
  <2> QED BY <1>4, <2>1, <2>2
<1>9. ASSUME NEW x \in Actors, LeavesRunning(x)
      PROVE  \E v \in Worlds : FailsTo(x, v, "Unrestored") /\ active[x].request.item = q
  <2>1. PICK v \in Worlds, b \in Rollbacks : FailsTo(x, v, b) /\ World' = DropFromHand(v, x)
    BY <1>9 DEF LeavesRunning
  <2>2. ~Agrees(v, q)
    BY <2>1, DropKeepsAgreement
  <2> QED BY <1>4, <2>1, <2>2
<1>10. ASSUME NEW x \in Actors, LeavesIdle(x) PROVE FALSE
  BY <1>1, <1>10, DropKeepsAgreement DEF LeavesIdle
<1>11. ~(Stays \/ (\E c \in CommandIds, r \in Requests : BeginAccepted(c, r))
               \/ (\E x \in Actors : Proceeds(x)) \/ (\E p \in Items : ItemEndPlay(p)))
  BY <1>5 DEF Stays, BeginAccepted, Proceeds, ItemEndPlay
<1> QED BY <1>6, <1>7, <1>8, <1>9, <1>10, <1>11 DEF WorldStep

\* Unless items are destroyed, whenever an item's disposition, the hands and the
\* containers start to disagree about it, a receipt of an action on this very
\* item says in the same step that its rollback failed.
THEOREM DisagreementsAreReported ==
    ASSUME MortalItems = {}
    PROVE  Spec => DisagreementIsReported
<1> DEFINE Reported ==
        \A p \in Items : Agrees(World, p) /\ ~Agrees(World', p) =>
            \E c \in CommandIds :
                /\ ledger'[c] # ledger[c]
                /\ ledger'[c].request.item = p
                /\ ledger'[c].rollback = "Unrestored"
<1>1. TypeOK /\ ReservationInv /\ WorldInv /\ lost = {} /\ [Next]_vars => [Reported]_vars
  <2> SUFFICES ASSUME TypeOK, ReservationInv, WorldInv, lost = {}, [Next]_vars,
                      NEW p \in Items, Agrees(World, p), ~Agrees(World', p)
               PROVE  \E c \in CommandIds :
                          /\ ledger'[c] # ledger[c]
                          /\ ledger'[c].request.item = p
                          /\ ledger'[c].rollback = "Unrestored"
    OBVIOUS
  <2>1. PICK x \in Actors, v \in Worlds :
            FailsTo(x, v, "Unrestored") /\ active[x].request.item = p
    BY AgreementStep
  <2>2. "Unrestored" \in Rollbacks /\ ~IsLost(active[x].request)
    BY DEF Rollbacks, IsLost
  <2> QED BY <2>1, <2>2, FailureReceipt
<1>2. Spec => [](lost = {})
  BY NothingIsLost
<1> QED BY <1>1, <1>2, ExecutorIsTyped, ReservationInvariant, WorldInvariant, PTL
        DEF Spec, DisagreementIsReported

LEMMA WorldAgreesInit == Init => WorldAgrees
<1> SUFFICES ASSUME Init, NEW p \in Items PROVE Agrees(World, p)
  BY DEF WorldAgrees
<1>1. World.pickup[p] \in {"Free", "Placed"}
  BY DEF Init, World
<1>2. \A x \in Actors : World.hand[x] = NoItem
  BY DEF Init, World
<1>3. \A b \in Containers : World.box[b].contents = NoItem
  BY DEF Init, World
<1> QED BY <1>1, <1>2, <1>3, KindsAreDisjoint DEF Agrees

\* Unless the engine fails or items are destroyed, an item's disposition, the
\* hands and the containers agree in every state, whoever interrupts whom.
THEOREM WorldAlwaysAgrees ==
    ASSUME MortalItems = {}, EngineFaults = FALSE
    PROVE  Spec => []WorldAgrees
<1>1. Init => WorldAgrees
  BY WorldAgreesInit
<1>2. TypeOK /\ ReservationInv /\ WorldInv /\ lost = {} /\ WorldAgrees /\ [Next]_vars
          => WorldAgrees'
  <2> SUFFICES ASSUME TypeOK, ReservationInv, WorldInv, lost = {}, [Next]_vars,
                      NEW p \in Items, Agrees(World, p), ~Agrees(World', p)
               PROVE  FALSE
    BY DEF WorldAgrees, Agrees
  <2>1. PICK x \in Actors, v \in Worlds : FailsTo(x, v, "Unrestored")
    BY AgreementStep
  <2> QED BY <2>1, FailureOutcome DEF IsLost
<1>3. Spec => [](lost = {})
  BY NothingIsLost
<1> QED BY <1>1, <1>2, <1>3, ExecutorIsTyped, ReservationInvariant, WorldInvariant, PTL DEF Spec


-------------------------------------------------------------------------------
(***************************************************************************)
(* The refinement of AtomicActions.  The visible world shows the before-   *)
(* state of every running action, whatever its phase: nothing happens to   *)
(* it until a success, which is the effect on the visible world, and a     *)
(* failure happens to nothing.                                             *)
(***************************************************************************)

Visible == [pickup |-> VisiblePickup, hand |-> VisibleHand, box |-> VisibleBox]

\* What holds in every state when neither the engine fails nor items are destroyed.
CalmInv == TypeOK /\ ReservationInv /\ WorldInv /\ lost = {}

\* An action runs for this item, or this container.
Taken(p) == itemRes[p] # NoTicket
Closed(b) == boxRes[b] # NoTicket
Carrying(y) == active[y] # NoAction /\ UsesItem(active[y].request)

LEMMA Holders ==
    ASSUME CalmInv
    PROVE  /\ \A p \in Items : Taken(p) =>
                  LET x == itemRes[p].executor IN
                  /\ x \in Actors /\ active[x] # NoAction /\ active[x].request.item = p
                  /\ UsesItem(active[x].request)
           /\ \A b \in Containers : Closed(b) =>
                  LET x == boxRes[b].executor IN
                  /\ x \in Actors /\ active[x] # NoAction /\ active[x].request.box = b
                  /\ UsesBox(active[x].request)
           /\ \A x \in Actors : active[x] # NoAction =>
                  /\ \A p \in Items : active[x].request.item = p =>
                         Taken(p) /\ itemRes[p].executor = x
                  /\ \A b \in Containers : active[x].request.box = b =>
                         Closed(b) /\ boxRes[b].executor = x
<1>1. /\ \A p \in Items : Taken(p) => itemRes[p].executor \in Actors
      /\ \A b \in Containers : Closed(b) => boxRes[b].executor \in Actors
  BY DEF CalmInv, TypeOK, ItemTickets, BoxTickets, Taken, Closed
<1>2. ASSUME NEW x \in Actors, active[x] # NoAction
      PROVE  /\ \A p \in Items : active[x].request.item = p =>
                    Taken(p) /\ itemRes[p].executor = x
             /\ \A b \in Containers : active[x].request.box = b =>
                    Closed(b) /\ boxRes[b].executor = x
  <2>1. ReservedBy(x, active[x]) /\ TypeOK
    BY <1>2 DEF CalmInv, ReservationInv, HoldsUnlessLost, IsLost
  <2> QED BY <1>2, <2>1, HeldTickets, TicketFields DEF Taken, Closed
<1>3. (\A p \in Items : p # NoItem) /\ (\A b \in Containers : b # NoContainer)
  BY KindsAreDisjoint
<1>4. NoStaleReservation
  BY DEF CalmInv, ReservationInv
<1>5. ASSUME NEW p \in Items, Taken(p)
      PROVE  LET x == itemRes[p].executor IN
             /\ x \in Actors /\ active[x] # NoAction /\ active[x].request.item = p
             /\ UsesItem(active[x].request)
  <2>1. itemRes[p] # NoTicket
    BY <1>5 DEF Taken
  <2>2. /\ active[itemRes[p].executor] # NoAction
        /\ active[itemRes[p].executor].request.item = p
    BY <1>4, <2>1 DEF NoStaleReservation
  <2> QED BY <1>1, <1>3, <1>5, <2>2 DEF UsesItem
<1>6. ASSUME NEW b \in Containers, Closed(b)
      PROVE  LET x == boxRes[b].executor IN
             /\ x \in Actors /\ active[x] # NoAction /\ active[x].request.box = b
             /\ UsesBox(active[x].request)
  <2>1. boxRes[b] # NoTicket
    BY <1>6 DEF Closed
  <2>2. /\ active[boxRes[b].executor] # NoAction
        /\ active[boxRes[b].executor].request.box = b
    BY <1>4, <2>1 DEF NoStaleReservation
  <2> QED BY <1>1, <1>3, <1>6, <2>2 DEF UsesBox
<1> QED BY <1>2, <1>5, <1>6

\* Pending or not, an action shows its before-state.
BeforeStatesShow ==
    /\ \A p \in Items : Visible.pickup[p] =
          IF itemRes[p] # NoTicket THEN active[itemRes[p].executor].before.place ELSE pickup[p]
    /\ \A y \in Actors : Visible.hand[y] =
          IF active[y] # NoAction /\ UsesItem(active[y].request)
          THEN HandOf(active[y].request, active[y].before.place) ELSE hand[y]
    /\ \A b \in Containers : Visible.box[b] =
          IF boxRes[b] # NoTicket THEN active[boxRes[b].executor].before.box ELSE box[b]

LEMMA VisibleFields ==
    ASSUME CalmInv
    PROVE  BeforeStatesShow
<1>1. World.pickup = pickup /\ World.hand = hand /\ World.box = box
  BY DEF World
<1>2. \A x \in Actors : active[x] # NoAction =>
          active[x].request.actor = x /\ (~Pending(x) => Untouched(World, active[x]))
  BY DEF CalmInv, WorldInv, RunningActionsFit, Stands, Pending, IsLost
<1>3. \A p \in Items : Visible.pickup[p] =
          IF Taken(p) THEN active[itemRes[p].executor].before.place ELSE pickup[p]
  <2>1. \A p \in Items : Taken(p) /\ ~Pending(itemRes[p].executor) =>
            pickup[p] = active[itemRes[p].executor].before.place
    BY <1>1, <1>2, Holders DEF Untouched, Records
  <2> QED BY <2>1 DEF Visible, VisiblePickup, Taken
<1>4. \A y \in Actors : Visible.hand[y] =
          IF Carrying(y) THEN HandOf(active[y].request, active[y].before.place) ELSE hand[y]
  <2>1. \A y \in Actors : Carrying(y) /\ ~Pending(y) =>
            hand[y] = HandOf(active[y].request, active[y].before.place)
    BY <1>1, <1>2 DEF Untouched, Records, Carrying
  <2>2. \A y \in Actors : Carrying(y) => active[y].request.actor = y
    BY <1>2 DEF Carrying
  <2>3. \A y \in Actors : Carrying(y) /\ Pending(y) =>
            Visible.hand[y] = HandOf(active[y].request, active[y].before.place)
    BY <2>2 DEF Visible, VisibleHand, Carrying, HandOf
  <2> QED BY <2>1, <2>3 DEF Visible, VisibleHand, Carrying, Pending
<1>5. \A b \in Containers : Visible.box[b] =
          IF Closed(b) THEN active[boxRes[b].executor].before.box ELSE box[b]
  <2>1. \A b \in Containers : Closed(b) /\ ~Pending(boxRes[b].executor) =>
            box[b] = active[boxRes[b].executor].before.box
    BY <1>1, <1>2, Holders DEF Untouched, Records
  <2> QED BY <2>1 DEF Visible, VisibleBox, Closed
<1> QED BY <1>3, <1>4, <1>5 DEF BeforeStatesShow, Taken, Closed, Carrying

LEMMA VisibleIsTyped ==
    ASSUME CalmInv
    PROVE  Visible \in Worlds
<1>1. \A x \in Actors : active[x] # NoAction =>
          /\ active[x].before.place \in Places
          /\ active[x].before.box \in [open : BOOLEAN, contents : Items \cup {NoItem}]
          /\ active[x].request.item \in Items \cup {NoItem}
  BY ActionFields, RequestFields DEF CalmInv, TypeOK
<1>2. World \in Worlds /\ World.pickup = pickup /\ World.hand = hand /\ World.box = box
  BY DEF World, CalmInv, TypeOK
<1>3. /\ \A p \in Items : Visible.pickup[p] \in Places
      /\ \A y \in Actors : Visible.hand[y] \in Items \cup {NoItem}
      /\ \A b \in Containers :
            Visible.box[b] \in [open : BOOLEAN, contents : Items \cup {NoItem}]
  BY <1>1, <1>2, Holders, VisibleFields, WorldFields
     DEF BeforeStatesShow, Taken, Closed, Carrying, HandOf
<1>4. /\ Visible.pickup = [p \in Items |-> Visible.pickup[p]]
      /\ Visible.hand = [y \in Actors |-> Visible.hand[y]]
      /\ Visible.box = [b \in Containers |-> Visible.box[b]]
  BY DEF Visible, VisiblePickup, VisibleHand, VisibleBox
<1>5. /\ Visible.pickup \in [Items -> Places]
      /\ Visible.hand \in [Actors -> Items \cup {NoItem}]
      /\ Visible.box \in [Containers -> [open : BOOLEAN, contents : Items \cup {NoItem}]]
  BY <1>3, <1>4
<1>6. Visible = [pickup |-> Visible.pickup, hand |-> Visible.hand, box |-> Visible.box]
  BY DEF Visible
<1> QED BY <1>5, <1>6 DEF Worlds

LEMMA WorldsAreEqual ==
    ASSUME NEW w \in Worlds, NEW v \in Worlds,
           \A p \in Items : v.pickup[p] = w.pickup[p],
           \A y \in Actors : v.hand[y] = w.hand[y],
           \A b \in Containers : v.box[b] = w.box[b]
    PROVE  v = w
<1>1. v.pickup = w.pickup
  BY WorldFields
<1>2. v.hand = w.hand
  BY WorldFields
<1>3. v.box = w.box
  <2> DEFINE kind == [open : BOOLEAN, contents : Items \cup {NoItem}]
  <2>1. v.box \in [Containers -> kind] /\ w.box \in [Containers -> kind]
    BY WorldFields
  <2> HIDE DEF kind
  <2> QED BY <2>1
<1> QED BY <1>1, <1>2, <1>3 DEF Worlds

\* Every running action shows itself untouched.
LEMMA VisibleIsUntouched ==
    ASSUME CalmInv, NEW x \in Actors, active[x] # NoAction
    PROVE  Untouched(Visible, active[x])
<1> DEFINE r == active[x].request
<1>1. r \in Requests /\ r.actor = x
  BY RunningAction DEF CalmInv
<1>2. /\ UsesItem(r) => /\ r.item \in Items /\ Taken(r.item)
                        /\ itemRes[r.item].executor = x /\ Carrying(x)
      /\ UsesBox(r) => /\ r.box \in Containers /\ Closed(r.box)
                       /\ boxRes[r.box].executor = x
  BY <1>1, RequestFields, Holders DEF Carrying
<1> QED BY <1>1, <1>2, VisibleFields
        DEF BeforeStatesShow, Taken, Closed, Carrying, Untouched, Records


\* What the visible world is determined by, for the states before and after a step.
ShownInv == CalmInv /\ BeforeStatesShow /\ Visible \in Worlds

\* When the action of x ends, its participants show what the world records, and
\* the others what they showed before.
LEMMA VisibleAfterEnd ==
    ASSUME ShownInv, ShownInv', NEW x \in Actors, active[x] # NoAction,
           active' = [active EXCEPT ![x] = NoAction], Release(x, active[x])
    PROVE  LET r == active[x].request IN
           /\ \A p \in Items : Visible'.pickup[p] =
                 IF p = r.item \/ ~Taken(p) THEN World'.pickup[p] ELSE Visible.pickup[p]
           /\ \A y \in Actors : Visible'.hand[y] =
                 IF y = x \/ ~Carrying(y) THEN World'.hand[y] ELSE Visible.hand[y]
           /\ \A b \in Containers : Visible'.box[b] =
                 IF b = r.box \/ ~Closed(b) THEN World'.box[b] ELSE Visible.box[b]
<1> DEFINE a == active[x]
           r == a.request
<1>1. /\ active'[x] = NoAction
      /\ \A y \in Actors \ {x} : active'[y] = active[y]
      /\ World'.pickup = pickup' /\ World'.hand = hand' /\ World'.box = box'
      /\ CalmInv /\ NoStaleReservation
  BY DEF ShownInv, CalmInv, TypeOK, World, ReservationInv
<1>2. \A p \in Items : itemRes'[p] = IF p = r.item \/ ~Taken(p) THEN NoTicket ELSE itemRes[p]
  <2>1. ASSUME NEW p \in Items
        PROVE  /\ Taken(p) /\ p # r.item => itemRes[p].executor # x
               /\ p = r.item => Taken(p) /\ itemRes[p].executor = x /\ itemRes[p].command = a.command
    BY <1>1, Holders DEF NoStaleReservation, Taken
  <2>2. \A p \in Items : itemRes'[p] = IF IsTicketOf(itemRes[p], x, a) THEN NoTicket ELSE itemRes[p]
    BY DEF Release
  <2> QED BY <2>1, <2>2 DEF IsTicketOf, Taken
<1>3. \A b \in Containers : boxRes'[b] = IF b = r.box \/ ~Closed(b) THEN NoTicket ELSE boxRes[b]
  <2>1. ASSUME NEW b \in Containers
        PROVE  /\ Closed(b) /\ b # r.box => boxRes[b].executor # x
               /\ b = r.box => Closed(b) /\ boxRes[b].executor = x /\ boxRes[b].command = a.command
    BY <1>1, Holders DEF NoStaleReservation, Closed
  <2>2. \A b \in Containers : boxRes'[b] = IF IsTicketOf(boxRes[b], x, a) THEN NoTicket ELSE boxRes[b]
    BY DEF Release
  <2> QED BY <2>1, <2>2 DEF IsTicketOf, Closed
<1>4. /\ \A p \in Items : Taken(p) => /\ itemRes[p].executor \in Actors
                                      /\ p # r.item => itemRes[p].executor # x
      /\ \A b \in Containers : Closed(b) => /\ boxRes[b].executor \in Actors
                                            /\ b # r.box => boxRes[b].executor # x
  BY <1>1, Holders
<1>5. BeforeStatesShow /\ BeforeStatesShow'
  BY DEF ShownInv
<1>6. ASSUME NEW p \in Items
      PROVE  Visible'.pickup[p] =
                IF p = r.item \/ ~Taken(p) THEN World'.pickup[p] ELSE Visible.pickup[p]
  <2>1. Visible'.pickup[p] = IF itemRes'[p] # NoTicket
                             THEN active'[itemRes'[p].executor].before.place ELSE pickup'[p]
    BY <1>5 DEF BeforeStatesShow
  <2>2. Visible.pickup[p] = IF Taken(p) THEN active[itemRes[p].executor].before.place ELSE pickup[p]
    BY <1>5 DEF BeforeStatesShow, Taken
  <2>3. itemRes'[p] = IF p = r.item \/ ~Taken(p) THEN NoTicket ELSE itemRes[p]
    BY <1>2
  <2> HIDE DEF r
  <2> QED BY <1>1, <1>4, <2>1, <2>2, <2>3 DEF Taken
<1>7. ASSUME NEW b \in Containers
      PROVE  Visible'.box[b] =
                IF b = r.box \/ ~Closed(b) THEN World'.box[b] ELSE Visible.box[b]
  <2>1. Visible'.box[b] = IF boxRes'[b] # NoTicket
                          THEN active'[boxRes'[b].executor].before.box ELSE box'[b]
    BY <1>5 DEF BeforeStatesShow
  <2>2. Visible.box[b] = IF Closed(b) THEN active[boxRes[b].executor].before.box ELSE box[b]
    BY <1>5 DEF BeforeStatesShow, Closed
  <2>3. boxRes'[b] = IF b = r.box \/ ~Closed(b) THEN NoTicket ELSE boxRes[b]
    BY <1>3
  <2> HIDE DEF r
  <2> QED BY <1>1, <1>4, <2>1, <2>2, <2>3 DEF Closed
<1>8. ASSUME NEW y \in Actors
      PROVE  Visible'.hand[y] =
                IF y = x \/ ~Carrying(y) THEN World'.hand[y] ELSE Visible.hand[y]
  BY <1>1, <1>5 DEF BeforeStatesShow, Carrying
<1> QED BY <1>6, <1>7, <1>8


\* An action that ends shows its participants as it leaves them.
LEMMA VisibleAfterRecords ==
    ASSUME ShownInv, ShownInv', NEW x \in Actors, active[x] # NoAction,
           active' = [active EXCEPT ![x] = NoAction], Release(x, active[x]),
           OnlyTouches(World, World', active[x].request),
           NEW place, NEW k, Records(World', active[x].request, place, k)
    PROVE  LET r == active[x].request IN
           /\ \A p \in Items : Visible'.pickup[p] = IF p = r.item THEN place ELSE Visible.pickup[p]
           /\ \A y \in Actors : Visible'.hand[y] =
                 IF y = x /\ UsesItem(r) THEN HandOf(r, place) ELSE Visible.hand[y]
           /\ \A b \in Containers : Visible'.box[b] = IF b = r.box THEN k ELSE Visible.box[b]
<1> DEFINE r == active[x].request
<1>1. /\ r \in Requests /\ r.actor = x
      /\ r.item \in Items <=> UsesItem(r)
      /\ r.box \in Containers <=> UsesBox(r)
  BY RunningAction, RequestFields DEF ShownInv, CalmInv
<1>2. /\ World.pickup = pickup /\ World.hand = hand /\ World.box = box
      /\ BeforeStatesShow
  BY DEF World, ShownInv
<1>3. /\ \A p \in Items : Visible'.pickup[p] =
            IF p = r.item \/ ~Taken(p) THEN World'.pickup[p] ELSE Visible.pickup[p]
      /\ \A y \in Actors : Visible'.hand[y] =
            IF y = x \/ ~Carrying(y) THEN World'.hand[y] ELSE Visible.hand[y]
      /\ \A b \in Containers : Visible'.box[b] =
            IF b = r.box \/ ~Closed(b) THEN World'.box[b] ELSE Visible.box[b]
  BY VisibleAfterEnd
<1>4. Carrying(x) <=> UsesItem(r)
  BY DEF Carrying
<1> HIDE DEF r
<1>5. ASSUME NEW p \in Items
      PROVE  Visible'.pickup[p] = IF p = r.item THEN place ELSE Visible.pickup[p]
  BY <1>1, <1>2, <1>3 DEF BeforeStatesShow, Taken, OnlyTouches, Records, r
<1>6. ASSUME NEW b \in Containers
      PROVE  Visible'.box[b] = IF b = r.box THEN k ELSE Visible.box[b]
  BY <1>1, <1>2, <1>3 DEF BeforeStatesShow, Closed, OnlyTouches, Records, r
<1>7. ASSUME NEW y \in Actors
      PROVE  Visible'.hand[y] = IF y = x /\ UsesItem(r) THEN HandOf(r, place) ELSE Visible.hand[y]
  <2>1. ~Carrying(y) => Visible.hand[y] = World.hand[y]
    BY <1>2 DEF BeforeStatesShow, Carrying
  <2>2. y # x \/ ~UsesItem(r) => World'.hand[y] = World.hand[y]
    BY <1>1 DEF OnlyTouches, r
  <2>3. UsesItem(r) => World'.hand[x] = HandOf(r, place)
    BY <1>1 DEF Records, r
  <2> QED BY <1>3, <1>4, <2>1, <2>2, <2>3
<1> QED BY <1>5, <1>6, <1>7 DEF r

LEMMA VisibleAfterFailure ==
    ASSUME EngineFaults = FALSE, ShownInv, ShownInv', NEW x \in Actors, Fails(x)
    PROVE  Visible' = Visible /\ generation' = generation
<1> DEFINE a == active[x]
           r == a.request
<1>1. PICK b \in Rollbacks : FailsTo(x, World', b) /\ UNCHANGED present
  BY DEF Fails
<1>2. /\ a # NoAction /\ active' = [active EXCEPT ![x] = NoAction]
      /\ OnlyTouches(World, World', r)
      /\ Untouched(World', a)
  BY <1>1, FailureOutcome DEF ShownInv, CalmInv, IsLost
<1>3. /\ Release(x, a)
      /\ \E s \in FailureStatuses : Finalize(a.command, r, x, s, b)
  BY <1>1, FailureReceipt DEF ShownInv, CalmInv, IsLost
<1>4. generation' = generation
  BY <1>3 DEF Finalize, CommitsGeneration, FailureStatuses
<1>5. r.actor = x /\ r \in Requests /\ Untouched(Visible, a)
  BY <1>2, RunningAction, VisibleIsUntouched DEF ShownInv, CalmInv
<1>6. /\ \A p \in Items : Visible'.pickup[p] =
             IF p = r.item THEN a.before.place ELSE Visible.pickup[p]
      /\ \A y \in Actors : Visible'.hand[y] =
             IF y = x /\ UsesItem(r) THEN HandOf(r, a.before.place) ELSE Visible.hand[y]
      /\ \A c \in Containers : Visible'.box[c] = IF c = r.box THEN a.before.box ELSE Visible.box[c]
  <2>1. Records(World', r, a.before.place, a.before.box)
    BY <1>2 DEF Untouched
  <2> QED BY <1>2, <1>3, <2>1, VisibleAfterRecords
<1>7. /\ UsesItem(r) <=> r.item \in Items
      /\ UsesBox(r) <=> r.box \in Containers
  BY <1>5, RequestFields
<1>8. Visible \in Worlds /\ Visible' \in Worlds
  BY DEF ShownInv
<1> HIDE DEF a, r
<1>9. /\ \A p \in Items : Visible'.pickup[p] = Visible.pickup[p]
      /\ \A y \in Actors : Visible'.hand[y] = Visible.hand[y]
      /\ \A c \in Containers : Visible'.box[c] = Visible.box[c]
  BY <1>5, <1>6, <1>7 DEF Untouched, Records, r
<1> QED BY <1>4, <1>8, <1>9, WorldsAreEqual

LEMMA VisibleAfterSuccess ==
    ASSUME ShownInv, ShownInv', NEW x \in Actors, Succeeds(x)
    PROVE  LET r == active[x].request IN
           /\ r \in Requests /\ r.actor = x /\ x \in present
           /\ ContactReady(Visible, r)
           /\ Visible' = Effect(Visible, r)
           /\ r.live => generation = r.gen
           /\ generation' = IF r.live THEN generation + 1 ELSE generation
<1> DEFINE a == active[x]
           r == a.request
<1>1. /\ a # NoAction /\ active' = [active EXCEPT ![x] = NoAction]
      /\ ~IsLost(r) /\ Done(x, World') /\ Release(x, a)
      /\ GenerationAllows(r, "Succeeded")
      /\ Finalize(a.command, r, x, "Succeeded", "None")
  BY DEF Succeeds
<1>2. /\ r \in Requests /\ r.actor = x /\ x \in present /\ Fits(a) /\ a \in Actions
      /\ OnlyTouches(World, World', r)
      /\ Committed(World', a) /\ Switches(a)
  BY <1>1, RunningAction, DoneIsCommitted DEF ShownInv, CalmInv
<1>3. /\ r.live => generation = r.gen
      /\ generation' = IF r.live THEN generation + 1 ELSE generation
  BY <1>1 DEF GenerationAllows, Finalize, CommitsGeneration
<1>4. Untouched(Visible, a) /\ Visible \in Worlds /\ Visible' \in Worlds
  BY <1>1, VisibleIsUntouched DEF ShownInv
<1>5. /\ UsesItem(r) <=> r.item \in Items
      /\ UsesBox(r) <=> r.box \in Containers
      /\ r.affordance \notin ToggleAffordances => UsesItem(r)
      /\ UsesBox(r) <=> r.affordance \in StorageAffordances \cup ToggleAffordances
      /\ r.affordance \in Affordances
  BY <1>2, RequestFields
<1>6. /\ \A p \in Items : Visible'.pickup[p] =
             IF p = r.item THEN PlaceAfter(r) ELSE Visible.pickup[p]
      /\ \A y \in Actors : Visible'.hand[y] =
             IF y = x /\ UsesItem(r) THEN HandOf(r, PlaceAfter(r)) ELSE Visible.hand[y]
      /\ \A c \in Containers : Visible'.box[c] =
             IF c = r.box THEN BoxAfter(a.before.box, r) ELSE Visible.box[c]
  <2>1. Records(World', r, PlaceAfter(r), BoxAfter(a.before.box, r))
    BY <1>2 DEF Committed
  <2> QED BY <1>1, <1>2, <2>1, VisibleAfterRecords
<1>7. Visible' = Effect(Visible, r)
  <2>1. Effect(Visible, r) \in Worlds /\ Committed(Effect(Visible, r), a)
    BY <1>2, <1>4, EffectCommits
  <2>2. OnlyTouches(Visible, Effect(Visible, r), r)
    BY <1>2, <1>4, EffectCommits
  <2> HIDE DEF a, r
  <2>3. /\ \A p \in Items : Visible'.pickup[p] = Effect(Visible, r).pickup[p]
        /\ \A y \in Actors : Visible'.hand[y] = Effect(Visible, r).hand[y]
        /\ \A c \in Containers : Visible'.box[c] = Effect(Visible, r).box[c]
    BY <1>2, <1>5, <1>6, <2>1, <2>2 DEF Committed, Records, OnlyTouches, r
  <2> QED BY <1>4, <2>1, <2>3, WorldsAreEqual
<1>8. ContactReady(Visible, r)
  <2>1. CASE r.affordance \in ToggleAffordances
    <3>1. Visible.box[r.box] = a.before.box
      BY <1>4, <1>5, <2>1 DEF Untouched, Records
    <3> QED BY <1>2, <2>1, <3>1 DEF ContactReady, Switches
  <2>2. CASE r.affordance \notin ToggleAffordances
    <3>1. /\ Visible.pickup[r.item] = a.before.place
          /\ Visible.hand[x] = IF a.before.place = x THEN r.item ELSE NoItem
          /\ r.affordance \in StorageAffordances => Visible.box[r.box] = a.before.box
      BY <1>2, <1>4, <1>5, <2>2 DEF Untouched, Records, HandOf
    <3>2. /\ {"Free", "Placed"} \cap Actors = {}
          /\ r.affordance \in StorageAffordances => r.box \notin Actors
      BY <1>5, KindsAreDisjoint
    <3> HIDE DEF a, r
    <3> QED BY <1>2, <1>5, <2>2, <3>1, <3>2
            DEF Fits, ContactReady, TransferReady, Carries, Affordances, StorageAffordances,
                ToggleAffordances, r
  <2> QED BY <2>1, <2>2
<1> QED BY <1>2, <1>3, <1>7, <1>8


\* What the hand of x holds is no participant of another action.
LEMMA HandsHoldNoOthersItem ==
    ASSUME CalmInv, NEW x \in Actors, NEW v, OthersStand(x, v), HandsAreRecorded(v),
           NEW p \in Items, Taken(p), itemRes[p].executor # x
    PROVE  v.hand[x] # p
<1> DEFINE y == itemRes[p].executor
           b == active[y]
<1>1. /\ y \in Actors \ {x} /\ b # NoAction /\ b.request.item = p /\ UsesItem(b.request)
      /\ ~IsLost(b.request)
  BY Holders DEF CalmInv, IsLost
<1>2. b \in Actions /\ Fits(b) /\ b.request.actor = y
  BY <1>1, RunningAction DEF CalmInv
<1>3. Stands(v, b)
  BY <1>1 DEF OthersStand
<1>4. v.pickup[p] \in {b.before.place, PlaceAfter(b.request)}
  BY <1>1, <1>3 DEF Stands, Untouched, Committed, Records
<1>5. v.pickup[p] # x
  BY <1>1, <1>2, <1>4, RecordedPlaces
<1> QED BY <1>5 DEF HandsAreRecorded

LEMMA VisibleAfterLeavingIdle ==
    ASSUME ShownInv, ShownInv', NEW x \in Actors, LeavesIdle(x)
    PROVE  Visible' = DropFromHand(Visible, x)
<1> DEFINE u == DropFromHand(Visible, x)
<1>1. /\ active[x] = NoAction /\ World' = DropFromHand(World, x)
      /\ UNCHANGED <<itemRes, boxRes, active>>
      /\ World \in Worlds /\ Visible \in Worlds /\ Visible' \in Worlds
      /\ OthersStand(x, World) /\ HandsAreRecorded(World)
  BY DEF LeavesIdle, ShownInv, CalmInv, TypeOK, WorldInv, OthersStand
<1>2. /\ \A q \in Items : pickup'[q] = IF hand[x] = q THEN "Free" ELSE pickup[q]
      /\ \A y \in Actors : hand'[y] = IF y = x THEN NoItem ELSE hand[y]
      /\ box' = box
  <2>1. /\ World'.pickup = pickup' /\ World'.hand = hand' /\ World'.box = box'
        /\ World.pickup = pickup /\ World.hand = hand /\ World.box = box
    BY DEF World
  <2> QED BY <1>1, <2>1, DropFields
<1>3. /\ u \in Worlds
      /\ \A q \in Items : u.pickup[q] = IF Visible.hand[x] = q THEN "Free" ELSE Visible.pickup[q]
      /\ \A y \in Actors : u.hand[y] = IF y = x THEN NoItem ELSE Visible.hand[y]
      /\ u.box = Visible.box
  BY <1>1, DropFields, DropFromHandIsTyped
<1>4. \A p \in Items : itemRes[p] # NoTicket => hand[x] # p
  <2>1. \A p \in Items : Taken(p) => itemRes[p].executor # x
    BY <1>1, Holders DEF ShownInv
  <2> QED BY <1>1, <2>1, HandsHoldNoOthersItem DEF ShownInv, Taken, World
<1>5. BeforeStatesShow /\ BeforeStatesShow'
  BY DEF ShownInv
<1>6. Visible.hand[x] = hand[x]
  BY <1>1, <1>5 DEF BeforeStatesShow
<1> HIDE DEF u
<1>7. ASSUME NEW p \in Items PROVE Visible'.pickup[p] = u.pickup[p]
  BY <1>1, <1>2, <1>3, <1>4, <1>5, <1>6 DEF BeforeStatesShow
<1>8. ASSUME NEW y \in Actors PROVE Visible'.hand[y] = u.hand[y]
  BY <1>1, <1>2, <1>3, <1>5 DEF BeforeStatesShow
<1>9. ASSUME NEW b \in Containers PROVE Visible'.box[b] = u.box[b]
  BY <1>1, <1>2, <1>3, <1>5 DEF BeforeStatesShow
<1>10. Visible' = u
  BY <1>1, <1>3, <1>7, <1>8, <1>9, WorldsAreEqual
<1> QED BY <1>10 DEF u

LEMMA VisibleAfterLeavingRunning ==
    ASSUME EngineFaults = FALSE, ShownInv, ShownInv', NEW x \in Actors, LeavesRunning(x)
    PROVE  Visible' = DropFromHand(Visible, x) /\ generation' = generation
<1> DEFINE a == active[x]
           r == a.request
           u == DropFromHand(Visible, x)
<1>1. PICK v \in Worlds, b \in Rollbacks : FailsTo(x, v, b) /\ World' = DropFromHand(v, x)
  BY DEF LeavesRunning
<1>2. /\ a # NoAction /\ active' = [active EXCEPT ![x] = NoAction]
      /\ OnlyTouches(World, v, r) /\ Untouched(v, a)
      /\ OthersStand(x, v) /\ HandsAreRecorded(v)
  BY <1>1, FailureOutcome DEF ShownInv, CalmInv, IsLost
<1>3. /\ Release(x, a)
      /\ \E s \in FailureStatuses : Finalize(a.command, r, x, s, b)
  BY <1>1, FailureReceipt DEF ShownInv, CalmInv, IsLost
<1>4. generation' = generation
  BY <1>3 DEF Finalize, CommitsGeneration, FailureStatuses
<1>5. /\ r.actor = x /\ r \in Requests /\ Untouched(Visible, a)
      /\ UsesItem(r) <=> r.item \in Items
      /\ UsesBox(r) <=> r.box \in Containers
  BY <1>2, RunningAction, VisibleIsUntouched, RequestFields DEF ShownInv, CalmInv
<1>6. /\ Visible \in Worlds /\ Visible' \in Worlds
      /\ BeforeStatesShow
      /\ World.pickup = pickup /\ World.hand = hand /\ World.box = box
  BY DEF ShownInv, World
<1>7. /\ u \in Worlds
      /\ \A q \in Items : u.pickup[q] = IF Visible.hand[x] = q THEN "Free" ELSE Visible.pickup[q]
      /\ \A y \in Actors : u.hand[y] = IF y = x THEN NoItem ELSE Visible.hand[y]
      /\ u.box = Visible.box
  BY <1>6, DropFields, DropFromHandIsTyped
<1>8. /\ \A q \in Items : World'.pickup[q] = IF v.hand[x] = q THEN "Free" ELSE v.pickup[q]
      /\ \A y \in Actors : World'.hand[y] = IF y = x THEN NoItem ELSE v.hand[y]
      /\ World'.box = v.box
  BY <1>1, DropFields
<1>9. /\ \A p \in Items : Visible'.pickup[p] =
            IF p = r.item \/ ~Taken(p) THEN World'.pickup[p] ELSE Visible.pickup[p]
      /\ \A y \in Actors : Visible'.hand[y] =
            IF y = x \/ ~Carrying(y) THEN World'.hand[y] ELSE Visible.hand[y]
      /\ \A c \in Containers : Visible'.box[c] =
            IF c = r.box \/ ~Closed(c) THEN World'.box[c] ELSE Visible.box[c]
  BY <1>2, <1>3, VisibleAfterEnd
<1>10. \A p \in Items : Taken(p) /\ p # r.item => v.hand[x] # p
  <2>1. \A p \in Items : Taken(p) /\ p # r.item => itemRes[p].executor # x
    BY Holders DEF ShownInv
  <2> QED BY <1>2, <2>1, HandsHoldNoOthersItem DEF ShownInv
<1>11. Carrying(x) <=> UsesItem(r)
  BY <1>2 DEF Carrying
<1> HIDE DEF a, r, u
<1>12. /\ \A p \in Items : p = r.item \/ ~Taken(p) => v.pickup[p] = Visible.pickup[p]
       /\ \A y \in Actors : y = x \/ ~Carrying(y) => v.hand[y] = Visible.hand[y]
       /\ \A c \in Containers : c = r.box \/ ~Closed(c) => v.box[c] = Visible.box[c]
  <2>1. ASSUME NEW p \in Items, p = r.item \/ ~Taken(p) PROVE v.pickup[p] = Visible.pickup[p]
    <3>1. CASE p = r.item
      BY <1>2, <1>5, <3>1 DEF Untouched, Records, r
    <3>2. CASE p # r.item
      BY <1>2, <1>6, <2>1, <3>2 DEF OnlyTouches, BeforeStatesShow, Taken
    <3> QED BY <3>1, <3>2
  <2>2. ASSUME NEW y \in Actors, y = x \/ ~Carrying(y) PROVE v.hand[y] = Visible.hand[y]
    <3>1. CASE Carrying(y)
      BY <1>2, <1>5, <1>11, <2>2, <3>1 DEF Untouched, Records, r
    <3>2. CASE ~Carrying(y)
      <4>1. v.hand[y] = World.hand[y]
        BY <1>2, <1>5, <1>11, <3>2 DEF OnlyTouches
      <4> QED BY <1>6, <3>2, <4>1 DEF BeforeStatesShow, Carrying
    <3> QED BY <3>1, <3>2
  <2>3. ASSUME NEW c \in Containers, c = r.box \/ ~Closed(c) PROVE v.box[c] = Visible.box[c]
    <3>1. CASE c = r.box
      BY <1>2, <1>5, <3>1 DEF Untouched, Records, r
    <3>2. CASE c # r.box
      BY <1>2, <1>6, <2>3, <3>2 DEF OnlyTouches, BeforeStatesShow, Closed
    <3> QED BY <3>1, <3>2
  <2> QED BY <2>1, <2>2, <2>3
<1>13. Visible.hand[x] = v.hand[x]
  BY <1>12
<1>14. ASSUME NEW p \in Items PROVE Visible'.pickup[p] = u.pickup[p]
  BY <1>7, <1>8, <1>9, <1>10, <1>12, <1>13
<1>15. ASSUME NEW y \in Actors PROVE Visible'.hand[y] = u.hand[y]
  BY <1>7, <1>8, <1>9, <1>12
<1>16. ASSUME NEW c \in Containers PROVE Visible'.box[c] = u.box[c]
  BY <1>7, <1>8, <1>9, <1>12
<1>17. Visible' = u
  BY <1>6, <1>7, <1>14, <1>15, <1>16, WorldsAreEqual
<1> QED BY <1>4, <1>17 DEF u


LEMMA VisibleAfterPhase ==
    ASSUME ShownInv, ShownInv', NEW x \in Actors, Proceeds(x) \/ Commits(x)
    PROVE  Visible' = Visible /\ UNCHANGED <<generation, present>>
<1> DEFINE r == active[x].request
<1>1. /\ active[x] # NoAction /\ UNCHANGED <<itemRes, boxRes, present>>
      /\ \E phase \in Phases : EnterPhase(x, phase)
  BY DEF Proceeds, Commits, InPhase, BeforeContact, Phases
<1>2. /\ \A y \in Actors : /\ active'[y] # NoAction <=> active[y] # NoAction
                           /\ active'[y].request = active[y].request
                           /\ active'[y].before = active[y].before
      /\ UNCHANGED generation
  <2>1. TypeOK
    BY DEF ShownInv, CalmInv
  <2> QED BY <1>1, <2>1, PhaseFields DEF EnterPhase, PublishProgress
<1>3. OnlyTouches(World, World', r)
  <2>1. CASE Proceeds(x)
    <3>1. World' = World
      BY <2>1 DEF Proceeds, World, worldVars
    <3> QED BY <3>1 DEF OnlyTouches
  <2>2. CASE Commits(x)
    <3>1. Done(x, World')
      BY <2>2 DEF Commits, InPhase, Done
    <3> QED BY <1>1, <3>1, DoneIsCommitted DEF ShownInv, CalmInv
  <2> QED BY <2>1, <2>2
<1>4. /\ r.actor = x
      /\ \A p \in Items : r.item = p => itemRes[p] # NoTicket
      /\ \A b \in Containers : r.box = b => boxRes[b] # NoTicket
  BY <1>1, RunningAction, Holders DEF ShownInv, CalmInv, Taken, Closed
<1>5. /\ BeforeStatesShow /\ BeforeStatesShow' /\ Visible \in Worlds /\ Visible' \in Worlds
      /\ World.pickup = pickup /\ World.hand = hand /\ World.box = box
      /\ World'.pickup = pickup' /\ World'.hand = hand' /\ World'.box = box'
      /\ \A p \in Items : itemRes[p] # NoTicket => itemRes[p].executor \in Actors
      /\ \A b \in Containers : boxRes[b] # NoTicket => boxRes[b].executor \in Actors
  BY Holders DEF ShownInv, World, Taken, Closed
<1>6. ASSUME NEW p \in Items PROVE Visible'.pickup[p] = Visible.pickup[p]
  <2>1. CASE itemRes[p] = NoTicket
    BY <1>1, <1>3, <1>4, <1>5, <2>1 DEF OnlyTouches, BeforeStatesShow
  <2>2. CASE itemRes[p] # NoTicket
    BY <1>1, <1>2, <1>5, <2>2 DEF BeforeStatesShow
  <2> QED BY <2>1, <2>2
<1>7. ASSUME NEW y \in Actors PROVE Visible'.hand[y] = Visible.hand[y]
  <2>1. CASE active[y] # NoAction /\ UsesItem(active[y].request)
    BY <1>2, <1>5, <2>1 DEF BeforeStatesShow
  <2>2. CASE ~(active[y] # NoAction /\ UsesItem(active[y].request))
    BY <1>1, <1>2, <1>3, <1>4, <1>5, <2>2 DEF OnlyTouches, BeforeStatesShow
  <2> QED BY <2>1, <2>2
<1>8. ASSUME NEW b \in Containers PROVE Visible'.box[b] = Visible.box[b]
  <2>1. CASE boxRes[b] = NoTicket
    BY <1>1, <1>3, <1>4, <1>5, <2>1 DEF OnlyTouches, BeforeStatesShow
  <2>2. CASE boxRes[b] # NoTicket
    BY <1>1, <1>2, <1>5, <2>2 DEF BeforeStatesShow
  <2> QED BY <2>1, <2>2
<1> QED BY <1>1, <1>2, <1>5, <1>6, <1>7, <1>8, WorldsAreEqual

LEMMA VisibleAfterBegin ==
    ASSUME ShownInv, ShownInv', NEW c \in CommandIds, NEW r \in Requests, BeginAccepted(c, r)
    PROVE  Visible' = Visible /\ UNCHANGED <<generation, present>>
<1> DEFINE x == r.actor
           a == [command |-> c, request |-> r, phase |-> "Approach", before |-> Snapshot(r)]
<1>1. /\ active[x] = NoAction /\ active' = [active EXCEPT ![x] = a]
      /\ CanReserve(r) /\ Reserve(x, c, r) /\ PreflightReady(World, r)
      /\ UNCHANGED <<worldVars, present, generation>>
  BY DEF BeginAccepted, ClaimAccepted
<1>2. /\ TypeOK /\ CalmInv
      /\ x \in Actors
      /\ UsesItem(r) <=> r.item \in Items
      /\ UsesBox(r) <=> r.box \in Containers
  BY RequestFields DEF ShownInv, CalmInv
<1>3. a \in Actions /\ Untouched(World, a) /\ a.request = r
  BY <1>1, <1>2, AcceptedFits
<1> HIDE DEF a
<1>4. /\ active'[x] = a /\ a # NoAction
      /\ \A y \in Actors \ {x} : active'[y] = active[y]
  BY <1>1, <1>2, <1>3, NoActionAssumption DEF TypeOK
<1>5. /\ \A p \in Items : IF r.item = p
                          THEN itemRes[p] = NoTicket /\ itemRes'[p] # NoTicket
                               /\ itemRes'[p].executor = x
                          ELSE itemRes'[p] = itemRes[p]
      /\ \A b \in Containers : IF r.box = b
                               THEN boxRes[b] = NoTicket /\ boxRes'[b] # NoTicket
                                    /\ boxRes'[b].executor = x
                               ELSE boxRes'[b] = boxRes[b]
  <2>1. ItemTicket(x, c, r) # NoTicket /\ BoxTicket(x, c, r) # NoTicket
    <3>1. ItemTicket(x, c, r) \in ItemTickets /\ BoxTicket(x, c, r) \in BoxTickets
      BY <1>2, RequestFields, TicketFields DEF ItemTickets, BoxTickets
    <3> QED BY <3>1, NoTicketAssumption
  <2> QED BY <1>1, <1>2, <2>1, TicketFields DEF TypeOK, CanReserve, Reserve
<1>6. /\ \A p \in Items : itemRes[p] # NoTicket =>
             itemRes[p].executor \in Actors \ {x}
      /\ \A b \in Containers : boxRes[b] # NoTicket =>
             boxRes[b].executor \in Actors \ {x}
  BY <1>1, <1>2, Holders DEF Taken, Closed
<1>7. /\ BeforeStatesShow /\ BeforeStatesShow' /\ Visible \in Worlds /\ Visible' \in Worlds
      /\ World.pickup = pickup /\ World.hand = hand /\ World.box = box
      /\ pickup' = pickup /\ hand' = hand /\ box' = box
  BY <1>1 DEF ShownInv, World, worldVars
<1> HIDE DEF x
<1>8. ASSUME NEW p \in Items PROVE Visible'.pickup[p] = Visible.pickup[p]
  <2>1. CASE r.item = p
    <3>1. Visible'.pickup[p] = a.before.place /\ Visible.pickup[p] = pickup[p]
      BY <1>4, <1>5, <1>7, <2>1 DEF BeforeStatesShow
    <3> QED BY <1>2, <1>3, <1>7, <2>1, <3>1 DEF Untouched, Records
  <2>2. CASE r.item # p
    BY <1>4, <1>5, <1>6, <1>7, <2>2 DEF BeforeStatesShow
  <2> QED BY <2>1, <2>2
<1>9. ASSUME NEW y \in Actors PROVE Visible'.hand[y] = Visible.hand[y]
  <2>1. CASE y = x
    <3>1. Visible.hand[x] = hand[x]
      BY <1>1, <1>2, <1>7 DEF BeforeStatesShow, x
    <3>2. Visible'.hand[x] = IF UsesItem(r) THEN HandOf(r, a.before.place) ELSE hand[x]
      BY <1>2, <1>3, <1>4, <1>7 DEF BeforeStatesShow
    <3>3. UsesItem(r) => hand[x] = HandOf(r, a.before.place)
      BY <1>3, <1>7 DEF Untouched, Records, x
    <3> QED BY <2>1, <3>1, <3>2, <3>3
  <2>2. CASE y # x
    BY <1>4, <1>7, <2>2 DEF BeforeStatesShow
  <2> QED BY <2>1, <2>2
<1>10. ASSUME NEW b \in Containers PROVE Visible'.box[b] = Visible.box[b]
  <2>1. CASE r.box = b
    <3>1. Visible'.box[b] = a.before.box /\ Visible.box[b] = box[b]
      BY <1>4, <1>5, <1>7, <2>1 DEF BeforeStatesShow
    <3> QED BY <1>2, <1>3, <1>7, <2>1, <3>1 DEF Untouched, Records
  <2>2. CASE r.box # b
    BY <1>4, <1>5, <1>6, <1>7, <2>2 DEF BeforeStatesShow
  <2> QED BY <2>1, <2>2
<1> QED BY <1>1, <1>7, <1>8, <1>9, <1>10, WorldsAreEqual

-------------------------------------------------------------------------------

LEMMA SameWorldOperators ==
    ASSUME NEW w, NEW r, NEW x
    PROVE  /\ Atomic!Effect(w, r) = Effect(w, r)
           /\ Atomic!ContactReady(w, r) <=> ContactReady(w, r)
           /\ Atomic!DropFromHand(w, x) = DropFromHand(w, x)
<1>1. \A p, place : Atomic!MoveItem(w, x, p, place) = MoveItem(w, x, p, place)
  BY DEF MoveItem, Atomic!MoveItem
<1>2. Atomic!PlaceAfter(r) = PlaceAfter(r)
  BY DEF PlaceAfter, Atomic!PlaceAfter
<1>3. /\ Atomic!ToggleAffordances = ToggleAffordances
      /\ Atomic!StorageAffordances = StorageAffordances
  BY DEF ToggleAffordances, Atomic!ToggleAffordances, StorageAffordances, Atomic!StorageAffordances
<1>4. \A p, place : Atomic!MoveItem(w, r.actor, p, place) = MoveItem(w, r.actor, p, place)
  BY DEF MoveItem, Atomic!MoveItem
<1>5. Atomic!Effect(w, r) = Effect(w, r)
  BY <1>2, <1>3, <1>4 DEF Effect, Atomic!Effect
<1>6. \A y, p : Atomic!Carries(w, y, p) <=> Carries(w, y, p)
  BY DEF Carries, Atomic!Carries
<1>7. Atomic!TransferReady(w, r) <=> TransferReady(w, r)
  BY <1>6 DEF TransferReady, Atomic!TransferReady
<1>8. Atomic!ContactReady(w, r) <=> ContactReady(w, r)
  BY <1>3, <1>6, <1>7 DEF ContactReady, Atomic!ContactReady
<1>9. Atomic!DropFromHand(w, x) = DropFromHand(w, x)
  BY <1>1 DEF DropFromHand, Atomic!DropFromHand
<1> QED BY <1>5, <1>8, <1>9

LEMMA AtomicStep ==
    ASSUME EngineFaults = FALSE, MortalItems = {}, ShownInv, ShownInv', [Next]_vars
    PROVE  [Atomic!Next]_(Atomic!vars)
<1>1. Atomic!World = Visible
  BY DEF Atomic!World, Visible
<1>2. \A w : Visible' = w => Atomic!Becomes(w)
  BY DEF Atomic!Becomes, Visible
<1>3. Visible' = Visible /\ UNCHANGED <<generation, present>> => UNCHANGED Atomic!vars
  BY DEF Atomic!vars, Visible
<1>4. ASSUME UNCHANGED <<worldVars, active, itemRes, boxRes>>
      PROVE  Visible' = Visible
  BY <1>4 DEF Visible, VisiblePickup, VisibleHand, VisibleBox, Pending, worldVars
<1>5. CASE UNCHANGED vars
  BY <1>3, <1>4, <1>5 DEF vars, ledgerVars
<1>6. CASE Stays
  <2>1. Visible' = Visible /\ UNCHANGED present
    BY <1>4, <1>6 DEF Stays, Idles
  <2>2. UNCHANGED generation \/ generation' = generation + 1
    BY <1>6 DEF Stays, Idles, ClaimRejected, ImmediateCommit, ledgerVars
  <2>3. generation' = generation + 1 => Atomic!NextGeneration
    BY <2>1 DEF Atomic!NextGeneration, Visible
  <2> QED BY <1>3, <2>1, <2>2, <2>3 DEF Atomic!Next
<1>7. ASSUME NEW x \in Actors, Succeeds(x) PROVE Atomic!Next
  <2> DEFINE r == active[x].request
  <2>1. /\ r \in Requests /\ r.actor \in present /\ ContactReady(Visible, r)
        /\ Visible' = Effect(Visible, r)
        /\ r.live => generation = r.gen
        /\ generation' = IF r.live THEN generation + 1 ELSE generation
    BY <1>7, VisibleAfterSuccess
  <2>2. UNCHANGED present
    BY <1>7 DEF Succeeds
  <2> HIDE DEF r
  <2>3. Atomic!Perform(r)
    BY <1>1, <1>2, <2>1, <2>2, SameWorldOperators DEF Atomic!Perform
  <2> QED BY <2>1, <2>3 DEF Atomic!Next
<1>8. ASSUME NEW x \in Actors, Fails(x) PROVE UNCHANGED Atomic!vars
  BY <1>3, <1>8, VisibleAfterFailure DEF Fails
<1>9. ASSUME NEW x \in Actors, LeavesRunning(x) \/ LeavesIdle(x) PROVE Atomic!Next
  <2>1. x \in Players \cap present /\ present' = present \ {x}
    BY <1>9 DEF LeavesRunning, LeavesIdle
  <2>2. Visible' = DropFromHand(Visible, x) /\ UNCHANGED generation
    BY <1>9, VisibleAfterLeavingRunning, VisibleAfterLeavingIdle DEF LeavesIdle, ledgerVars
  <2>3. Atomic!Leave(x)
    BY <1>1, <1>2, <2>1, <2>2, SameWorldOperators DEF Atomic!Leave
  <2> QED BY <2>1, <2>3 DEF Atomic!Next
<1>10. ASSUME NEW x \in Actors, Proceeds(x) \/ Commits(x) PROVE UNCHANGED Atomic!vars
  BY <1>3, <1>10, VisibleAfterPhase
<1>11. ASSUME NEW c \in CommandIds, NEW r \in Requests, BeginAccepted(c, r)
       PROVE  UNCHANGED Atomic!vars
  BY <1>3, <1>11, VisibleAfterBegin
<1>12. ~\E p \in Items : ItemEndPlay(p)
  BY DEF ItemEndPlay
<1>13. Next => WorldStep
  BY StepsOfTheWorld DEF ShownInv, CalmInv
<1> QED BY <1>5, <1>6, <1>7, <1>8, <1>9, <1>10, <1>11, <1>12, <1>13 DEF WorldStep

\* Unless the engine fails or items are destroyed, every command takes effect at
\* the instant of its success receipt, in a state and a generation that allow it,
\* or not at all: the interleaved executors implement AtomicActions.
THEOREM ActionsTakeEffectAtOnce ==
    ASSUME MortalItems = {}, EngineFaults = FALSE
    PROVE  Spec => ActionsAreAtomic
<1>1. Init => Atomic!Init
  <2> SUFFICES ASSUME Init PROVE Atomic!Init
    OBVIOUS
  <2>1. /\ VisiblePickup = [p \in Items |-> pickup[p]]
        /\ VisibleHand = [y \in Actors |-> hand[y]]
        /\ VisibleBox = [b \in Containers |-> box[b]]
    BY DEF Init, VisiblePickup, VisibleHand, VisibleBox, Pending
  <2>2. /\ pickup \in [Items -> {"Free", "Placed"}]
        /\ hand = [y \in Actors |-> NoItem]
        /\ box \in [Containers -> [open : BOOLEAN, contents : {NoItem}]]
        /\ present = Actors /\ generation = 0
    BY DEF Init, LedgerInit
  <2> QED BY <2>1, <2>2 DEF Atomic!Init
<1>2. CalmInv => ShownInv
  BY VisibleFields, VisibleIsTyped DEF ShownInv
<1>3. Spec => []CalmInv
  BY ExecutorIsTyped, ReservationInvariant, WorldInvariant, NothingIsLost, PTL DEF CalmInv
<1>4. ShownInv /\ ShownInv' /\ [Next]_vars => [Atomic!Next]_(Atomic!vars)
  BY AtomicStep
<1> QED BY <1>1, <1>2, <1>3, <1>4, PTL DEF Spec, ActionsAreAtomic, Atomic!Spec


===============================================================================
