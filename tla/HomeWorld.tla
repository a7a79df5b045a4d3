------------------------------ MODULE HomeWorld ------------------------------
(***************************************************************************)
(* What the affordances of the playable home do to a world of portable     *)
(* items, carriers and one-item containers: the state an affordance needs  *)
(* (AVistaPickupActor, AVistaContainerActor and the executor's preflight)  *)
(* and the state it leaves.  Transforms, physics bodies, anchors and       *)
(* liquids are left out; an item's place is its replicated disposition.    *)
(***************************************************************************)
EXTENDS Integers, FiniteSets

CONSTANTS
    Actors,       \* carriers: the player characters and the NPCs
    Items,        \* AVistaPickupActor
    Containers,   \* AVistaContainerActor
    NoItem,       \* an empty hand, an empty container, no item in a request
    NoContainer   \* no container in a request

Affordances == {"PickUp", "Drop", "Place", "Insert", "Remove", "Open", "Close"}
StorageAffordances == {"Insert", "Remove"}
ToggleAffordances == {"Open", "Close"}

\* EVistaPickupDisposition with its carrier or container: a held item's place is
\* its carrier, a contained item's place its container.
Places == {"Free", "Placed"} \cup Actors \cup Containers

ASSUME KindsAreDisjoint ==
    /\ Actors \cap ({"Free", "Placed"} \cup Containers) = {}
    /\ Containers \cap {"Free", "Placed"} = {}
    /\ NoItem \notin Items
    /\ NoContainer \notin Containers

Worlds == [pickup : [Items -> Places],
           hand   : [Actors -> Items \cup {NoItem}],
           box    : [Containers -> [open : BOOLEAN,
                                    contents : Items \cup {NoItem}]]]

\* An affordance request names an actor and the item, the container or both.
WellFormed(r) ==
    /\ r.actor \in Actors
    /\ r.affordance \in Affordances
    /\ IF r.affordance \in ToggleAffordances THEN r.item = NoItem
                                             ELSE r.item \in Items
    /\ IF r.affordance \in StorageAffordances \cup ToggleAffordances
       THEN r.box \in Containers
       ELSE r.box = NoContainer

\* The carrier's inventory slot holds exactly this item and the item says so.
Carries(w, x, p) == w.pickup[p] = x /\ w.hand[x] = p

\* ValidateStorageTransferReadOnly with CaptureStorageTransactionState: the
\* container is open and the pairing is the one the transfer starts from.
TransferReady(w, r) ==
    /\ w.box[r.box].open
    /\ \/ /\ r.affordance = "Insert"
          /\ w.box[r.box].contents = NoItem
          /\ Carries(w, r.actor, r.item)
       \/ /\ r.affordance = "Remove"
          /\ w.hand[r.actor] = NoItem
          /\ w.box[r.box].contents = r.item
          /\ w.pickup[r.item] = r.box

\* What the preflight of BeginPhysicalInteraction and BeginSemanticInteraction
\* asks of the world.  A toggle is accepted whatever the container's state.
PreflightReady(w, r) ==
    \/ /\ r.affordance = "PickUp"
       /\ w.pickup[r.item] \in {"Free", "Placed"}
       /\ w.hand[r.actor] = NoItem
    \/ r.affordance \in {"Drop", "Place"} /\ Carries(w, r.actor, r.item)
    \/ r.affordance \in StorageAffordances /\ TransferReady(w, r)
    \/ r.affordance \in ToggleAffordances

\* What the mutators check at the contact: TryAttachTo, ReleaseFromCarrier,
\* CommitStorageTransaction, CommitTransactionalInteraction of the container.
ContactReady(w, r) ==
    \/ /\ r.affordance = "PickUp"
       /\ w.pickup[r.item] \notin Actors
       /\ w.hand[r.actor] = NoItem
    \/ r.affordance \in {"Drop", "Place"} /\ Carries(w, r.actor, r.item)
    \/ r.affordance \in StorageAffordances /\ TransferReady(w, r)
    \/ /\ r.affordance \in ToggleAffordances
       /\ w.box[r.box].open # (r.affordance = "Open")

PlaceAfter(r) ==
    CASE r.affordance \in {"PickUp", "Remove"} -> r.actor
      [] r.affordance = "Insert"               -> r.box
      [] r.affordance = "Place"                -> "Placed"
      [] OTHER                                 -> "Free"

\* The item moves and the actor's hand follows: it holds the item exactly when
\* the item's new place is the actor.
MoveItem(w, x, p, place) ==
    [w EXCEPT !.pickup[p] = place,
              !.hand[x] = IF place = x THEN p
                          ELSE IF w.hand[x] = p THEN NoItem ELSE w.hand[x]]

\* The whole effect of an affordance that commits.
Effect(w, r) ==
    IF r.affordance \in ToggleAffordances
    THEN [w EXCEPT !.box[r.box].open = (r.affordance = "Open")]
    ELSE LET moved == MoveItem(w, r.actor, r.item, PlaceAfter(r))
         IN  IF r.affordance \in StorageAffordances
             THEN [moved EXCEPT !.box[r.box].contents =
                       IF r.affordance = "Insert" THEN r.item ELSE NoItem]
             ELSE moved

\* A player that leaves drops what it holds (ReleaseFromCarrier without anchor).
DropFromHand(w, x) ==
    IF w.hand[x] = NoItem THEN w ELSE MoveItem(w, x, w.hand[x], "Free")

\* The three records of one item agree: its own disposition, the inventory slots
\* and the container contents.
Agrees(w, p) ==
    /\ \A x \in Actors : w.pickup[p] = x <=> w.hand[x] = p
    /\ \A b \in Containers : w.pickup[p] = b <=> w.box[b].contents = p

===============================================================================
