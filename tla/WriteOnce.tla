---------------------------- MODULE WriteOnce ----------------------------
(***************************************************************************)
(* What the candidate spool promises (ImmutableFileSpool in                *)
(* src/automation/daily-maintainer/.../spool.py): every spool id is a      *)
(* register that takes at most one value, and whoever is answered for the  *)
(* id, writer or reader, is answered with that value.  SealedSpool is the  *)
(* files, processes and crashes that implement it.                         *)
(***************************************************************************)
CONSTANTS Ids, Writes, NoWrite

VARIABLES
    decided,    \* the write an id is bound to, or NoWrite
    given       \* the answers: <<id, write>> pairs a caller has received

Init == /\ decided = [i \in Ids |-> NoWrite]
        /\ given = {}

\* Reservations become durable, more than one of them after a reboot: the
\* ids are bound for ever.
Decide ==
    /\ decided' \in [Ids -> Writes \cup {NoWrite}]
    /\ \A i \in Ids : decided[i] # NoWrite => decided'[i] = decided[i]
    /\ UNCHANGED given

\* A sealed record is handed to a caller.
Give(i) ==
    /\ decided[i] # NoWrite
    /\ given' = given \cup {<<i, decided[i]>>}
    /\ UNCHANGED decided

Next == Decide \/ \E i \in Ids : Give(i)

Spec == Init /\ [][Next]_<<decided, given>>
=============================================================================
