--------------------------- MODULE MCPublication ---------------------------
(***************************************************************************)
(* TLC instance of Publication: two runs of one envelope and three faults. *)
(* Every fault or overlap costs at most one extra commit, so five commits  *)
(* are never used up, and neither are four pull requests: a POST that was  *)
(* sent before a pull request was closed may still open the next one.      *)
(***************************************************************************)
EXTENDS Publication

CONSTANTS r1, r2

MCRuns == {r1, r2}
=============================================================================
