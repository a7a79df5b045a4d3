--------------------------- MODULE MCSealedSpool ---------------------------
(***************************************************************************)
(* TLC instance of SealedSpool: one id (ids share no file), two writes     *)
(* that compete for it, two control and two publisher processes.           *)
(***************************************************************************)
EXTENDS SealedSpool, TLC

CONSTANTS i1, w1, w2, k1, k2, p1, p2, d1, d2

MCIds == {i1}
MCWrites == {w1, w2}
MCControls == {k1, k2}
MCPublishers == {p1, p2}
MCCheckouts == {d1, d2}

\* Processes, writes and checkouts are interchangeable.
MCSymmetry == Permutations(MCWrites) \cup Permutations(MCControls)
              \cup Permutations(MCPublishers) \cup Permutations(MCCheckouts)
=============================================================================
