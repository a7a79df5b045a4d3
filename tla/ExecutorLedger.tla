---------------------------- MODULE ExecutorLedger ----------------------------
(***************************************************************************)
(* The ledger as its executors use it: each executor runs one command at a *)
(* time, and an accepted command ends in one call, by its terminal receipt *)
(* or, when its reservations cannot be released, abandoned with a failure. *)
(* ActionExecutor implements this specification; NpcQueue builds on it.    *)
(***************************************************************************)
EXTENDS CommandLedger

ASSUME RequestsNameExecutors == \A r \in Requests : r.actor \in Executors

\* HasActiveAction: an abandoned command has a failure status and no action.
Runs(x, c) ==
    /\ ledger[c] # NoEntry
    /\ ledger[c].owner = x
    /\ ledger[c].status = "Running"

Busy(x) == \E c \in CommandIds : Runs(x, c)

Accept(c, r) ==
    /\ ~Busy(r.actor)
    /\ ClaimAccepted(c, r, r.actor)

\* The executor ends its command by itself or is told to.
Conclude(x, c, s, b) ==
    /\ Runs(x, c)
    /\ \/ Finalize(c, ledger[c].request, x, s, b)
       \/ s \in FailureStatuses /\ PublishProgress(c, ledger[c].request, x, s, b)

Next ==
    \/ ImmediateCommit
    \/ \E c \in CommandIds, r \in Requests : Accept(c, r) \/ ClaimRejected(c, r)
    \/ \E x \in Executors, c \in CommandIds, s \in Statuses \ {"Running"}, b \in Rollbacks :
           Conclude(x, c, s, b)

Spec == LedgerInit /\ [][Next]_ledgerVars

===============================================================================
