---------------------------- MODULE AtomicActions ----------------------------
(***************************************************************************)
(* What the executors promise together: an accepted affordance either      *)
(* happens at one instant, in a state that allows it, or not at all.  There *)
(* are no phases, reservations, clips or compensations here.               *)
(***************************************************************************)
EXTENDS HomeWorld

CONSTANTS Requests, Players

VARIABLES pickup, hand, box, present, generation

vars == <<pickup, hand, box, present, generation>>

World == [pickup |-> pickup, hand |-> hand, box |-> box]

Becomes(w) == pickup' = w.pickup /\ hand' = w.hand /\ box' = w.box

Init ==
    /\ pickup \in [Items -> {"Free", "Placed"}]
    /\ hand = [x \in Actors |-> NoItem]
    /\ box \in [Containers -> [open : BOOLEAN, contents : {NoItem}]]
    /\ present = Actors
    /\ generation = 0

\* A live command takes effect in the generation it was validated against and
\* ends that generation.
Perform(r) ==
    /\ r.actor \in present
    /\ ContactReady(World, r)
    /\ r.live => generation = r.gen
    /\ generation' = IF r.live THEN generation + 1 ELSE generation
    /\ Becomes(Effect(World, r))
    /\ UNCHANGED present

Leave(x) ==
    /\ x \in Players \cap present
    /\ present' = present \ {x}
    /\ Becomes(DropFromHand(World, x))
    /\ UNCHANGED generation

NextGeneration ==
    /\ generation' = generation + 1
    /\ UNCHANGED <<pickup, hand, box, present>>

Next ==
    \/ \E r \in Requests : Perform(r)
    \/ \E x \in Players : Leave(x)
    \/ NextGeneration

Spec == Init /\ [][Next]_vars

===============================================================================
