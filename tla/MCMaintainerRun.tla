---------------------------- MODULE MCMaintainerRun ----------------------------
(***************************************************************************)
(* Two callers, one date and two candidates for TLC.                       *)
(***************************************************************************)
EXTENDS MaintainerRun, TLC

CONSTANTS p1, p2, k1, k2

MCSymmetry == Permutations({p1, p2}) \cup Permutations({k1, k2})

===============================================================================
