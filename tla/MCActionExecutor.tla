--------------------------- MODULE MCActionExecutor ---------------------------
(***************************************************************************)
(* Small homes for TLC: a player and an NPC, one container, and one or two *)
(* items.                                                                  *)
(***************************************************************************)
EXTENDS ActionExecutor

CONSTANTS c1, c2, c3, player, npc, cup, plate, fridge

MCActors == {player, npc}
MCItems == {cup}
MCTwoItems == {cup, plate}
MCContainers == {fridge}
MCPlayers == {player}

Request(x, affordance, p, b, live, gen) ==
    [actor |-> x, affordance |-> affordance, item |-> p, box |-> b,
     live |-> live, gen |-> gen]

Local(x, affordance, p, b) == Request(x, affordance, p, b, FALSE, 0)
Live(x, affordance, p, b, gen) == Request(x, affordance, p, b, TRUE, gen)

\* Both actors want the cup; the live commands race for one generation.
MCCarry ==
    {Live(player, "PickUp", cup, NoContainer, 0),
     Live(npc, "PickUp", cup, NoContainer, 0),
     Local(player, "Drop", cup, NoContainer),
     Local(npc, "Place", cup, NoContainer)}

\* The cup through the fridge, which the other actor opens and closes.
MCStore ==
    {Local(player, "PickUp", cup, NoContainer),
     Local(player, "Insert", cup, fridge),
     Local(npc, "Remove", cup, fridge),
     Live(npc, "Open", NoItem, fridge, 0),
     Live(player, "Close", NoItem, fridge, 0)}

\* Two items, one container: live commands on different items race for one
\* generation, then both actors want the fridge.
MCTwoItemRequests ==
    {Live(player, "PickUp", cup, NoContainer, 0),
     Live(npc, "PickUp", plate, NoContainer, 0),
     Local(npc, "PickUp", plate, NoContainer),
     Local(player, "Insert", cup, fridge),
     Local(npc, "Insert", plate, fridge)}

===============================================================================
