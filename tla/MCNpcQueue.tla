------------------------------ MODULE MCNpcQueue ------------------------------
(***************************************************************************)
(* One NPC and one player for TLC.                                         *)
(***************************************************************************)
EXTENDS NpcQueue

CONSTANTS a1, a2, a3, c1, npcA, player

MCExecutors == {npcA, player}
MCNpcs == {npcA}

Request(x, live) == [actor |-> x, live |-> live, gen |-> 0, what |-> "cup"]

MCRequests == {Request(npcA, FALSE), Request(npcA, TRUE), Request(player, TRUE)}

\* A client that commands the NPC itself.
MCNpcRequests == {Request(npcA, FALSE), Request(npcA, TRUE)}

Action(id, kind, duration, timeout) ==
    [id |-> id, kind |-> kind, duration |-> duration, timeout |-> timeout,
     what |-> "cup"]

\* Ids are unique within one queue only: a wait may have the id of a physical action,
\* or of a client's command, a navigation that of a clip, and each may meet what the
\* other has left.
fetch == Action(a1, "Physical", 0, 1)
hold == Action(a1, "Wait", 2, 2)
go == Action(a2, "Navigate", 0, 1)
turn == Action(a2, "Animate", 0, 1)
say == Action(a3, "Instant", 0, 1)

\* A queue of two replaces another one; every action may also be enqueued alone.
MCActions == {fetch, go, hold, turn, say}
MCQueues == {<<go, fetch>>, <<hold, turn>>}

\* For the boundary of a wait, and for a cancel that comes after the receipt.
MCWait == {hold}
MCFetch == {fetch}
MCWaitQueue == {<<hold>>}
MCFetchQueue == {<<fetch>>}

===============================================================================
