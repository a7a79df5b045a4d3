---------------------------- MODULE MCCommandLedger ----------------------------
(***************************************************************************)
(* A small ledger for TLC: three ids compete for two entries; two live     *)
(* requests carry generation 0 (only one of them may succeed) and one      *)
(* request is local (it commits no generation).                            *)
(***************************************************************************)
EXTENDS CommandLedger, TLC

CONSTANTS c1, c2, c3, x1, x2

MCIds == {c1, c2, c3}
MCExecutors == {x1, x2}

\* "a" and "b" are two requests that differ in more than their generation.
MCRequests ==
    {[body |-> "a", live |-> TRUE,  gen |-> 0],
     [body |-> "b", live |-> TRUE,  gen |-> 0],
     [body |-> "a", live |-> FALSE, gen |-> 0]}

MCSymmetry == Permutations(MCIds) \cup Permutations(MCExecutors)

===============================================================================
