-------------------------- MODULE MCEventDispatch --------------------------
(***************************************************************************)
(* TLC instance of EventDispatch: a dispatch of two queues, one of one     *)
(* queue that shares an NPC with it, and other clients with an event of    *)
(* their own.                                                              *)
(***************************************************************************)
EXTENDS EventDispatch, TLC

CONSTANTS d1, d2, client, e1, e2, e3, n1, n2

MCDispatches == {d1, d2}
MCOwners == {d1, d2, client, Home}
MCEvents == {e1, e2, e3}
MCOtherEvents == {e3}
MCNpcs == {n1, n2}
MCEventNpcs == (e1 :> {n2}) @@ (e2 :> {}) @@ (e3 :> {n1})
MCEventOf == (d1 :> e1) @@ (d2 :> e2)
MCQueuesOf == (d1 :> <<n1, n2>>) @@ (d2 :> <<n1>>)
=============================================================================
