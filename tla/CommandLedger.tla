----------------------------- MODULE CommandLedger -----------------------------
(***************************************************************************)
(* The world-owned command ledger of UVistaPlayableHomeRuntimeSubsystem:   *)
(* a bounded map from command ids to the request first seen under that id  *)
(* and its receipt, with the insertion order used for eviction, and the    *)
(* session generation that a live command commits when it is finalized.    *)
(*                                                                         *)
(* All calls run on the game thread, so a handler that claims an id and    *)
(* rejects it in the same call is one action here.                         *)
(***************************************************************************)
EXTENDS Integers, Sequences, FiniteSets, SequencesExt

CONSTANTS
    CommandIds,     \* command ids a client, an NPC queue or the player may use
    Requests,       \* canonical requests (records; see CommitsGeneration)
    Executors,      \* action executor components
    Capacity,       \* MaxPhysicalCommandLedgerEntries
    MaxGeneration,  \* bound on the session generation in the model
    NoEntry,        \* the id is not in the ledger
    NoExecutor      \* the owner of a terminal entry

ASSUME CapacityAssumption == Capacity \in Nat \ {0}
ASSUME GenerationAssumption == MaxGeneration \in Nat
ASSUME NoExecutorAssumption == NoExecutor \notin Executors
ASSUME RequestsAssumption ==
    \A r \in Requests : /\ r.live \in BOOLEAN
                        /\ r.gen \in Nat
                        /\ r.live => r.gen < MaxGeneration

VARIABLES
    ledger,      \* PhysicalCommandLedger
    order,       \* PhysicalCommandOrder
    generation   \* the event subsystem's SessionGeneration

ledgerVars == <<ledger, order, generation>>

Statuses == {"Running", "Succeeded", "Failed", "Canceled", "TimedOut"}
FailureStatuses == {"Failed", "Canceled", "TimedOut"}

\* A success is published only as a terminal receipt.
ProgressStatuses == FailureStatuses \cup {"Running"}

\* What a receipt says of the compensation: none was needed, the before-state
\* was restored and verified, or ACTION_ROLLBACK_FAILED.
Rollbacks == {"None", "Restored", "Unrestored"}

Entries == [request  : Requests,
            status   : Statuses,
            rollback : Rollbacks,
            owner    : Executors \cup {NoExecutor},
            terminal : BOOLEAN]

ASSUME NoEntryAssumption == NoEntry \notin Entries

Known == {c \in CommandIds : ledger[c] # NoEntry}

RunningEntry(r, x) ==
    [request |-> r, status |-> "Running", rollback |-> "None",
     owner |-> x, terminal |-> FALSE]

TerminalEntry(r, s, b) ==
    [request |-> r, status |-> s, rollback |-> b,
     owner |-> NoExecutor, terminal |-> TRUE]

\* Faulty: a command that has finished is taken for a new one.
ReplayOfOpenOnly(c, r) ==
    CASE ledger[c] = NoEntry \/ ledger[c].terminal -> "Unknown"
      [] ledger[c] # NoEntry /\ ledger[c].request = r -> "Replay"
      [] OTHER                     -> "Collision"

\* TryReplayPhysicalCommand.
ReplayOutcome(c, r) ==
    CASE ledger[c] = NoEntry       -> "Unknown"
      [] ledger[c] # NoEntry /\ ledger[c].request = r -> "Replay"
      [] OTHER                     -> "Collision"

\* Faulty: the oldest entry, open or not; and any terminal entry, old or not.
IsOldest(i) == i = 1 /\ order # <<>>
IsTerminalAt(i) == i \in 1..Len(order) /\ ledger[order[i]].terminal

\* EvictOldestTerminalPhysicalCommand picks the first terminal entry in order.
IsOldestTerminal(i) ==
    /\ i \in 1..Len(order)
    /\ ledger[order[i]].terminal
    /\ \A j \in 1..(i - 1) : ~ledger[order[j]].terminal

IsFull == Cardinality(Known) >= Capacity

\* ClaimPhysicalCommand with a usable id: an existing entry decides first, then
\* the capacity, where one terminal entry can make room.
ClaimOutcome(c, r) ==
    IF ReplayOutcome(c, r) # "Unknown" THEN ReplayOutcome(c, r)
    ELSE IF IsFull /\ ~\E i \in 1..Len(order) : IsOldestTerminal(i)
         THEN "CapacityExceeded"
         ELSE "Claimed"

\* Faulty: the evicted id stays in the order.
AddEntryOnly(c, e) ==
    \/ /\ ~IsFull
       /\ ledger' = [ledger EXCEPT ![c] = e]
       /\ order' = Append(order, c)
    \/ /\ IsFull
       /\ \E i \in 1..Len(order) :
            /\ IsOldestTerminal(i)
            /\ ledger' = [ledger EXCEPT ![order[i]] = NoEntry, ![c] = e]
            /\ order' = Append(order, c)

\* The state change of a successful claim that leaves entry e under id c.
AddEntry(c, e) ==
    \/ /\ ~IsFull
       /\ ledger' = [ledger EXCEPT ![c] = e]
       /\ order' = Append(order, c)
    \/ /\ IsFull
       /\ \E i \in 1..Len(order) :
            /\ IsOldestTerminal(i)
            /\ ledger' = [ledger EXCEPT ![order[i]] = NoEntry, ![c] = e]
            /\ order' = Append(RemoveAt(order, i), c)

\* The precondition PublishPhysicalCommand and FinalizePhysicalCommand share.
IsOpenFor(c, r, x) ==
    /\ ledger[c] # NoEntry
    /\ ledger[c].request = r
    /\ ledger[c].owner = x
    /\ ~ledger[c].terminal

CommitsGeneration(r, s) == s = "Succeeded" /\ r.live

\* Faulty: the generation is not compared again when a command is finalized.
AnyGenerationAllows(r, s) == TRUE

\* FinalizePhysicalCommand's generation guard, before anything is released.
GenerationAllows(r, s) == CommitsGeneration(r, s) => generation = r.gen

-------------------------------------------------------------------------------

LedgerInit ==
    /\ ledger = [c \in CommandIds |-> NoEntry]
    /\ order = <<>>
    /\ generation = 0

\* A claim whose action is accepted stays open, owned by its executor.
ClaimAccepted(c, r, x) ==
    /\ ClaimOutcome(c, r) = "Claimed"
    /\ AddEntry(c, RunningEntry(r, x))
    /\ UNCHANGED generation

\* A claim whose preflight fails publishes its terminal receipt in the same call.
ClaimRejected(c, r) ==
    /\ ClaimOutcome(c, r) = "Claimed"
    /\ AddEntry(c, TerminalEntry(r, "Failed", "None"))
    /\ UNCHANGED generation

\* PublishPhysicalCommand with bTerminal = false.
PublishProgress(c, r, x, s, b) ==
    /\ IsOpenFor(c, r, x)
    /\ ledger' = [ledger EXCEPT ![c].status = s, ![c].rollback = b]
    /\ UNCHANGED <<order, generation>>

\* FinalizePhysicalCommand, its release callback having returned true.
Finalize(c, r, x, s, b) ==
    /\ IsOpenFor(c, r, x)
    /\ GenerationAllows(r, s)
    /\ generation' = IF CommitsGeneration(r, s) THEN generation + 1
                                                ELSE generation
    /\ ledger' = [ledger EXCEPT ![c] = TerminalEntry(r, s, b)]
    /\ UNCHANGED order

\* A live command that no executor runs (a door, an NPC queue replacement, an
\* event start or reset): validated and committed in one call, unknown to the
\* ledger.
ImmediateCommit ==
    /\ generation < MaxGeneration
    /\ generation' = generation + 1
    /\ UNCHANGED <<ledger, order>>

LedgerNext ==
    \/ ImmediateCommit
    \/ \E c \in CommandIds, r \in Requests :
        \/ ClaimRejected(c, r)
        \/ \E x \in Executors :
             \/ ClaimAccepted(c, r, x)
             \/ \E s \in ProgressStatuses, b \in Rollbacks :
                    PublishProgress(c, r, x, s, b)
             \/ \E s \in Statuses \ {"Running"}, b \in Rollbacks :
                    Finalize(c, r, x, s, b)

LedgerSpec == LedgerInit /\ [][LedgerNext]_ledgerVars

-------------------------------------------------------------------------------

LedgerTypeOK ==
    /\ ledger \in [CommandIds -> Entries \cup {NoEntry}]
    /\ order \in Seq(CommandIds)
    /\ generation \in Nat

\* The map and the eviction order hold the same ids, each id once: a lost order
\* element would be an entry that can never be evicted, a stale one would stop
\* the scan of EvictOldestTerminalPhysicalCommand from making room.
OrderListsTheLedger ==
    /\ \A c \in CommandIds : ledger[c] # NoEntry <=> \E i \in 1..Len(order) : order[i] = c
    /\ \A i, j \in 1..Len(order) : order[i] = order[j] => i = j

\* The ledger never outgrows MaxPhysicalCommandLedgerEntries.
LedgerIsBounded == Len(order) <= Capacity

\* An entry keeps its executor exactly as long as it is open; a terminal entry
\* carries a terminal status.
OwnedWhileOpen ==
    \A c \in Known :
        /\ ledger[c].terminal <=> ledger[c].owner = NoExecutor
        /\ ledger[c].terminal => ledger[c].status # "Running"

LiveSuccess(c) ==
    /\ ledger[c] # NoEntry
    /\ ledger[c].terminal
    /\ ledger[c].status = "Succeeded"
    /\ ledger[c].request.live

\* Optimistic concurrency on the session generation: of the live commands
\* validated against one generation at most one is ever recorded as succeeded,
\* and a recorded success lies in the past of the session.
LiveSuccessesAreSerial ==
    /\ \A c, d \in CommandIds :
         LiveSuccess(c) /\ LiveSuccess(d)
             /\ ledger[c].request.gen = ledger[d].request.gen => c = d
    /\ \A c \in CommandIds : LiveSuccess(c) => ledger[c].request.gen < generation

\* Idempotence: a terminal receipt is replayed unchanged until it is evicted.
TerminalReceiptsAreFinal ==
    [][\A c \in Known : ledger[c].terminal => ledger'[c] \in {ledger[c], NoEntry}]_ledgerVars

\* An id whose action may still run is never forgotten, whatever the pressure on
\* the ledger, and keeps its request; it loses its executor only by terminating.
OpenEntriesSurvive ==
    [][\A c \in Known : ~ledger[c].terminal =>
          /\ ledger'[c] # NoEntry
          /\ ledger'[c].request = ledger[c].request
          /\ ledger'[c].terminal \/ ledger'[c].owner = ledger[c].owner]_ledgerVars

\* Eviction takes one entry, only from a full ledger, and every entry that has
\* been there longer is still open.
EvictsOldestTerminal ==
    [][\A c \in Known : ledger'[c] = NoEntry =>
          /\ Len(order) = Capacity
          /\ \A d \in Known \ {c} : ledger'[d] # NoEntry
          /\ \A i, j \in 1..Len(order) :
                order[j] = c /\ i < j => ~ledger[order[i]].terminal]_ledgerVars

===============================================================================
