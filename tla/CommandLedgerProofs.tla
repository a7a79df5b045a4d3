-------------------------- MODULE CommandLedgerProofs --------------------------
(***************************************************************************)
(* What the command ledger guarantees for every set of ids, requests and   *)
(* executors, every capacity and every bound on the generation.            *)
(***************************************************************************)
EXTENDS CommandLedger, TLAPS, SequenceTheorems, FiniteSetTheorems

-------------------------------------------------------------------------------
(***************************************************************************)
(* Lemmas about the operators.                                             *)
(***************************************************************************)

\* Removing one element of a sequence keeps the others in their order.
LEMMA RemoveAtProperties ==
    ASSUME NEW S, NEW s \in Seq(S), NEW i \in 1..Len(s)
    PROVE  /\ RemoveAt(s, i) \in Seq(S)
           /\ Len(RemoveAt(s, i)) = Len(s) - 1
           /\ \A j \in 1..(Len(s) - 1) :
                RemoveAt(s, i)[j] = IF j < i THEN s[j] ELSE s[j + 1]
<1> DEFINE front == SubSeq(s, 1, i - 1)
           back  == SubSeq(s, i + 1, Len(s))
<1>1. Len(s) \in Nat /\ \A j \in 1..Len(s) : s[j] \in S
  BY LenProperties, ElementOfSeq
<1>2. /\ front \in Seq(S)
      /\ Len(front) = i - 1
      /\ \A j \in 1..(i - 1) : front[j] = s[j]
  BY <1>1, SubSeqProperties, Z3
<1>3. /\ back \in Seq(S)
      /\ Len(back) = Len(s) - i
      /\ \A j \in 1..(Len(s) - i) : back[j] = s[i + j]
  BY <1>1, SubSeqProperties, Z3
<1> HIDE DEF front, back
<1>4. /\ front \o back \in Seq(S)
      /\ Len(front \o back) = Len(s) - 1
      /\ \A j \in 1..(Len(s) - 1) :
           (front \o back)[j] = IF j <= i - 1 THEN front[j] ELSE back[j - (i - 1)]
  <2>1. /\ front \o back \in Seq(S)
        /\ Len(front \o back) = Len(front) + Len(back)
        /\ \A j \in 1..(Len(front) + Len(back)) :
             (front \o back)[j] = IF j <= Len(front) THEN front[j] ELSE back[j - Len(front)]
    BY <1>2, <1>3, ConcatProperties
  <2>2. Len(front) = i - 1 /\ Len(front) + Len(back) = Len(s) - 1
    BY <1>1, <1>2, <1>3
  <2> QED BY <2>1, <2>2
<1>5. RemoveAt(s, i) = front \o back
  BY DEF RemoveAt, front, back
<1>6. ASSUME NEW j \in 1..(Len(s) - 1)
      PROVE  RemoveAt(s, i)[j] = IF j < i THEN s[j] ELSE s[j + 1]
  BY <1>1, <1>2, <1>3, <1>4, <1>5, Z3
<1> QED BY <1>4, <1>5, <1>6

\* The entries an action writes are entries.
LEMMA EntriesAreTyped ==
    ASSUME NEW r \in Requests
    PROVE  /\ \A x \in Executors : RunningEntry(r, x) \in Entries
           /\ \A s \in Statuses, b \in Rollbacks : TerminalEntry(r, s, b) \in Entries
BY DEF RunningEntry, TerminalEntry, Entries, Statuses, Rollbacks

\* A claim is granted only for an id that is not in the ledger.
LEMMA ClaimedIsNew ==
    ASSUME NEW c \in CommandIds, NEW r \in Requests, ClaimOutcome(c, r) = "Claimed"
    PROVE  ledger[c] = NoEntry
BY DEF ClaimOutcome, ReplayOutcome

\* A claim changes no other entry, but it may evict one that is terminal.
LEMMA AddEntryMap ==
    ASSUME LedgerTypeOK, NEW c \in CommandIds, NEW e \in Entries, AddEntry(c, e)
    PROVE  /\ ledger' \in [CommandIds -> Entries \cup {NoEntry}]
           /\ ledger'[c] = e
           /\ \A d \in CommandIds \ {c} :
                ledger'[d] = ledger[d] \/ (ledger'[d] = NoEntry /\ ledger[d].terminal)
<1>1. CASE ledger' = [ledger EXCEPT ![c] = e]
  BY <1>1 DEF LedgerTypeOK
<1>2. CASE \E i \in 1..Len(order) :
             /\ IsOldestTerminal(i)
             /\ ledger' = [ledger EXCEPT ![order[i]] = NoEntry, ![c] = e]
  <2>1. PICK i \in 1..Len(order) :
             /\ ledger[order[i]].terminal
             /\ ledger' = [ledger EXCEPT ![order[i]] = NoEntry, ![c] = e]
    BY <1>2 DEF IsOldestTerminal
  <2>2. order[i] \in CommandIds
    BY ElementOfSeq DEF LedgerTypeOK
  <2> QED BY <2>1, <2>2 DEF LedgerTypeOK
<1> QED BY <1>1, <1>2 DEF AddEntry

\* While map and order agree, the ledger has as many entries as the order.
LEMMA KnownAreListed ==
    ASSUME LedgerTypeOK, OrderListsTheLedger
    PROVE  IsFiniteSet(Known) /\ Cardinality(Known) = Len(order)
<1>1. Len(order) \in Nat /\ order \in [1..Len(order) -> CommandIds]
  BY LenProperties DEF LedgerTypeOK
<1>2. order \in Bijection(1..Len(order), Known)
  <2>1. order \in [1..Len(order) -> Known]
    BY <1>1 DEF OrderListsTheLedger, Known
  <2>2. \A i, j \in 1..Len(order) : order[i] = order[j] => i = j
    BY DEF OrderListsTheLedger
  <2>3. \A c \in Known : \E i \in 1..Len(order) : order[i] = c
    BY DEF OrderListsTheLedger, Known
  <2> QED BY <2>1, <2>2, <2>3 DEF Bijection, Injection, Surjection, IsInjective
<1>3. IsFiniteSet(1..Len(order)) /\ Cardinality(1..Len(order)) = Len(order)
  <2>1. 1 \in Int /\ Len(order) \in Int /\ (1 > Len(order) => Len(order) = 0)
    BY <1>1
  <2>2. /\ IsFiniteSet(1..Len(order))
        /\ Cardinality(1..Len(order)) = IF 1 > Len(order) THEN 0 ELSE Len(order) - 1 + 1
    BY <2>1, FS_Interval
  <2> QED BY <1>1, <2>2
<1>4. ExistsBijection(1..Len(order), Known)
  BY <1>2 DEF ExistsBijection
<1> QED BY <1>3, <1>4, FS_Bijection

\* A claim keeps map and order in agreement and the order within the capacity.
LEMMA AddEntryOrder ==
    ASSUME LedgerTypeOK, OrderListsTheLedger, LedgerIsBounded,
           NEW c \in CommandIds, NEW e \in Entries, AddEntry(c, e), ledger[c] = NoEntry
    PROVE  order' \in Seq(CommandIds) /\ OrderListsTheLedger' /\ LedgerIsBounded'
<1>1. /\ Len(order) \in Nat
      /\ order \in [1..Len(order) -> CommandIds]
      /\ order \in Seq(CommandIds)
      /\ ledger \in [CommandIds -> Entries \cup {NoEntry}]
  BY LenProperties DEF LedgerTypeOK
<1>2. \A i \in 1..Len(order) : order[i] # c
  BY DEF OrderListsTheLedger
<1>3. Len(order) <= Capacity /\ Capacity \in Nat /\ Capacity > 0
  BY CapacityAssumption DEF LedgerIsBounded
<1>4. CASE /\ ~IsFull
           /\ ledger' = [ledger EXCEPT ![c] = e]
           /\ order' = Append(order, c)
  <2>1. /\ order' \in Seq(CommandIds)
        /\ Len(order') = Len(order) + 1
        /\ \A i \in 1..Len(order) : order'[i] = order[i]
        /\ order'[Len(order) + 1] = c
    BY <1>1, <1>4, AppendProperties
  <2>2. Len(order') <= Capacity
    BY <1>1, <1>3, <1>4, <2>1, KnownAreListed DEF IsFull
  <2>3. \A d \in CommandIds : ledger'[d] # NoEntry <=> \E i \in 1..Len(order') : order'[i] = d
    BY <1>1, <1>4, <2>1, NoEntryAssumption DEF OrderListsTheLedger
  <2>4. \A i, j \in 1..Len(order') : order'[i] = order'[j] => i = j
    BY <1>1, <1>2, <2>1 DEF OrderListsTheLedger
  <2> QED BY <2>1, <2>2, <2>3, <2>4 DEF OrderListsTheLedger, LedgerIsBounded
<1>5. CASE \E i \in 1..Len(order) :
             /\ ledger' = [ledger EXCEPT ![order[i]] = NoEntry, ![c] = e]
             /\ order' = Append(RemoveAt(order, i), c)
  <2>1. PICK k \in 1..Len(order) :
             /\ ledger' = [ledger EXCEPT ![order[k]] = NoEntry, ![c] = e]
             /\ order' = Append(RemoveAt(order, k), c)
    BY <1>5
  <2> DEFINE rest == RemoveAt(order, k)
  <2>2. /\ rest \in Seq(CommandIds)
        /\ Len(rest) = Len(order) - 1
        /\ \A j \in 1..(Len(order) - 1) :
             rest[j] = IF j < k THEN order[j] ELSE order[j + 1]
    BY <1>1, RemoveAtProperties
  <2> HIDE DEF rest
  <2>3. /\ order' \in Seq(CommandIds)
        /\ Len(order') = Len(rest) + 1
        /\ \A i \in 1..Len(rest) : order'[i] = rest[i]
        /\ order'[Len(rest) + 1] = c
    BY <2>1, <2>2, AppendProperties DEF rest
  <2>4. /\ Len(order') = Len(order)
        /\ \A j \in 1..(Len(order) - 1) :
             order'[j] = IF j < k THEN order[j] ELSE order[j + 1]
        /\ order'[Len(order)] = c
    BY <1>1, <2>2, <2>3
  <2>5. /\ order[k] \in CommandIds /\ order[k] # c
        /\ ledger'[order[k]] = NoEntry
        /\ ledger'[c] = e /\ e # NoEntry
        /\ \A d \in CommandIds \ {c, order[k]} : ledger'[d] = ledger[d]
    BY <1>1, <1>2, <2>1, NoEntryAssumption
  <2>6. \A i, j \in 1..Len(order') : order'[i] = order'[j] => i = j
    <3>1. \A i, j \in 1..Len(order) : order[i] = order[j] => i = j
      BY DEF OrderListsTheLedger
    <3> QED BY <1>1, <1>2, <2>4, <3>1
  <2>7. ASSUME NEW d \in CommandIds
        PROVE  ledger'[d] # NoEntry <=> \E i \in 1..Len(order') : order'[i] = d
    <3>1. CASE d = c
      BY <1>1, <2>4, <2>5, <3>1
    <3>2. CASE d = order[k]
      <4>1. \A i \in 1..Len(order) : order[i] = order[k] => i = k
        BY DEF OrderListsTheLedger
      <4> QED BY <1>1, <2>4, <2>5, <3>2, <4>1
    <3>3. CASE d # c /\ d # order[k]
      <4>1. ledger'[d] # NoEntry <=> \E i \in 1..Len(order) : order[i] = d
        BY <2>5, <3>3 DEF OrderListsTheLedger
      <4>2. ASSUME NEW i \in 1..Len(order), order[i] = d
            PROVE  \E j \in 1..Len(order') : order'[j] = d
        <5>1. CASE i < k
          BY <1>1, <2>4, <4>2, <5>1
        <5>2. CASE i > k
          <6>1. i - 1 \in 1..(Len(order) - 1) /\ ~(i - 1 < k) /\ (i - 1) + 1 = i
            BY <1>1, <5>2
          <6>2. order'[i - 1] = order[(i - 1) + 1] /\ i - 1 \in 1..Len(order')
            BY <1>1, <2>4, <6>1
          <6>3. order'[i - 1] = d
            BY <4>2, <6>1, <6>2
          <6> QED BY <6>2, <6>3
        <5> QED BY <3>3, <4>2, <5>1, <5>2
      <4>3. ASSUME NEW j \in 1..Len(order'), order'[j] = d
            PROVE  \E i \in 1..Len(order) : order[i] = d
        BY <1>1, <2>4, <3>3, <4>3
      <4> QED BY <4>1, <4>2, <4>3
    <3> QED BY <3>1, <3>2, <3>3
  <2> QED BY <1>3, <2>3, <2>4, <2>6, <2>7 DEF OrderListsTheLedger, LedgerIsBounded
<1> QED BY <1>4, <1>5 DEF AddEntry

-------------------------------------------------------------------------------
(***************************************************************************)
(* The inductive invariant: the invariants together are inductive.         *)
(***************************************************************************)

LedgerInv ==
    /\ LedgerTypeOK
    /\ OrderListsTheLedger
    /\ LedgerIsBounded
    /\ OwnedWhileOpen
    /\ LiveSuccessesAreSerial

LEMMA LedgerInvInit == LedgerInit => LedgerInv
<1> SUFFICES ASSUME LedgerInit PROVE LedgerInv
  OBVIOUS
<1>1. order = <<>> /\ order \in Seq(CommandIds) /\ Len(order) = 0
  BY EmptySeq DEF LedgerInit
<1>2. \A c \in CommandIds : ledger[c] = NoEntry
  BY DEF LedgerInit
<1>3. LedgerTypeOK
  BY <1>1 DEF LedgerInit, LedgerTypeOK
<1>4. OrderListsTheLedger
  BY <1>1, <1>2 DEF OrderListsTheLedger
<1>5. LedgerIsBounded
  BY <1>1, CapacityAssumption DEF LedgerIsBounded
<1>6. OwnedWhileOpen /\ LiveSuccessesAreSerial
  BY <1>2 DEF OwnedWhileOpen, Known, LiveSuccessesAreSerial, LiveSuccess
<1> QED BY <1>3, <1>4, <1>5, <1>6 DEF LedgerInv

\* A new entry e under an unknown id, which is no live success, keeps the
\* invariant: the claims.
LEMMA AddEntryInv ==
    ASSUME LedgerInv, NEW c \in CommandIds, NEW e \in Entries, AddEntry(c, e),
           ledger[c] = NoEntry, UNCHANGED generation,
           e.terminal <=> e.owner = NoExecutor,
           e.terminal => e.status \in FailureStatuses
    PROVE  LedgerInv'
<1>1. /\ ledger' \in [CommandIds -> Entries \cup {NoEntry}]
      /\ ledger'[c] = e
      /\ \A d \in CommandIds \ {c} : ledger'[d] = ledger[d] \/ ledger'[d] = NoEntry
  BY AddEntryMap DEF LedgerInv
<1>2. order' \in Seq(CommandIds) /\ OrderListsTheLedger' /\ LedgerIsBounded'
  BY AddEntryOrder DEF LedgerInv
<1>3. LedgerTypeOK'
  BY <1>1, <1>2 DEF LedgerInv, LedgerTypeOK
<1>4. OwnedWhileOpen'
  BY <1>1 DEF LedgerInv, OwnedWhileOpen, Known, FailureStatuses
<1>5. LiveSuccessesAreSerial'
  <2>1. ASSUME NEW d \in CommandIds, LiveSuccess(d)'
        PROVE  LiveSuccess(d) /\ ledger'[d] = ledger[d]
    BY <1>1, <2>1 DEF LiveSuccess, FailureStatuses
  <2> QED BY <2>1 DEF LedgerInv, LiveSuccessesAreSerial
<1> QED BY <1>2, <1>3, <1>4, <1>5 DEF LedgerInv

\* Replacing an entry by another entry keeps the map's ids.
LEMMA ReplaceEntryOrder ==
    ASSUME LedgerTypeOK, OrderListsTheLedger, LedgerIsBounded,
           NEW c \in CommandIds, NEW e \in Entries, ledger[c] # NoEntry,
           ledger' = [ledger EXCEPT ![c] = e], UNCHANGED order
    PROVE  OrderListsTheLedger' /\ LedgerIsBounded'
<1>1. \A d \in CommandIds : ledger'[d] # NoEntry <=> ledger[d] # NoEntry
  BY NoEntryAssumption DEF LedgerTypeOK
<1> QED BY <1>1 DEF OrderListsTheLedger, LedgerIsBounded

LEMMA PublishProgressInv ==
    ASSUME LedgerInv, NEW c \in CommandIds, NEW r \in Requests, NEW x \in Executors,
           NEW s \in Statuses, NEW b \in Rollbacks, PublishProgress(c, r, x, s, b)
    PROVE  LedgerInv'
<1> DEFINE e == [ledger[c] EXCEPT !.status = s, !.rollback = b]
<1>1. /\ ledger[c] \in Entries
      /\ ~ledger[c].terminal
      /\ ledger' = [ledger EXCEPT ![c] = e]
      /\ ledger' \in [CommandIds -> Entries \cup {NoEntry}]
      /\ UNCHANGED <<order, generation>>
      /\ e \in Entries /\ e.terminal = ledger[c].terminal /\ e.owner = ledger[c].owner
  BY DEF LedgerInv, LedgerTypeOK, PublishProgress, IsOpenFor, Entries
<1> HIDE DEF e
<1>2. /\ \A d \in CommandIds \ {c} : ledger'[d] = ledger[d]
      /\ ledger'[c] = e
      /\ ledger[c] # NoEntry
  BY <1>1, NoEntryAssumption DEF LedgerInv, LedgerTypeOK
<1>3. LedgerTypeOK' /\ OrderListsTheLedger' /\ LedgerIsBounded'
  BY <1>1, <1>2, ReplaceEntryOrder DEF LedgerInv, LedgerTypeOK
<1>4. OwnedWhileOpen'
  BY <1>1, <1>2 DEF LedgerInv, OwnedWhileOpen, Known
<1>5. LiveSuccessesAreSerial'
  <2>1. ASSUME NEW d \in CommandIds, LiveSuccess(d)'
        PROVE  LiveSuccess(d) /\ ledger'[d] = ledger[d]
    BY <1>1, <1>2, <2>1 DEF LiveSuccess
  <2> QED BY <1>1, <2>1 DEF LedgerInv, LiveSuccessesAreSerial
<1> QED BY <1>3, <1>4, <1>5 DEF LedgerInv

LEMMA FinalizeInv ==
    ASSUME LedgerInv, NEW c \in CommandIds, NEW r \in Requests, NEW x \in Executors,
           NEW s \in Statuses \ {"Running"}, NEW b \in Rollbacks, Finalize(c, r, x, s, b)
    PROVE  LedgerInv'
<1> DEFINE e == TerminalEntry(r, s, b)
<1>1. e \in Entries /\ e.terminal /\ e.owner = NoExecutor /\ e.status = s /\ e.request = r
  BY EntriesAreTyped DEF TerminalEntry
<1> HIDE DEF e
<1>2. /\ ledger[c] # NoEntry /\ ~ledger[c].terminal
      /\ ledger' = [ledger EXCEPT ![c] = e]
      /\ GenerationAllows(r, s)
      /\ generation' = IF CommitsGeneration(r, s) THEN generation + 1 ELSE generation
      /\ UNCHANGED order
  BY DEF Finalize, IsOpenFor, e
<1>3. /\ \A d \in CommandIds \ {c} : ledger'[d] = ledger[d]
      /\ ledger'[c] = e
      /\ ledger' \in [CommandIds -> Entries \cup {NoEntry}]
  BY <1>1, <1>2 DEF LedgerInv, LedgerTypeOK
<1>4. LedgerTypeOK' /\ OrderListsTheLedger' /\ LedgerIsBounded'
  <2>1. generation' \in {generation, generation + 1}
    BY <1>2
  <2>2. generation' \in Nat /\ order' \in Seq(CommandIds)
    BY <1>2, <2>1 DEF LedgerInv, LedgerTypeOK
  <2>3. OrderListsTheLedger' /\ LedgerIsBounded'
    BY <1>1, <1>2, ReplaceEntryOrder DEF LedgerInv
  <2> QED BY <1>3, <2>2, <2>3 DEF LedgerTypeOK
<1>5. OwnedWhileOpen'
  BY <1>1, <1>2, <1>3 DEF LedgerInv, OwnedWhileOpen, Known
<1>6. LiveSuccessesAreSerial'
  <2>1. generation \in Nat /\ generation <= generation'
    <3>1. generation' \in {generation, generation + 1}
      BY <1>2
    <3>2. generation \in Nat
      BY DEF LedgerInv, LedgerTypeOK
    <3> QED BY <3>1, <3>2
  <2>2. ASSUME NEW d \in CommandIds \ {c}, LiveSuccess(d)'
        PROVE  /\ LiveSuccess(d) /\ ledger'[d] = ledger[d]
               /\ ledger[d].request.gen < generation /\ ledger[d].request.gen \in Nat
    <3>1. LiveSuccess(d) /\ ledger'[d] = ledger[d]
      BY <1>3, <2>2 DEF LiveSuccess
    <3>2. ledger[d].request \in Requests
      BY <3>1 DEF LedgerInv, LedgerTypeOK, LiveSuccess, Entries
    <3> QED BY <3>1, <3>2, RequestsAssumption DEF LedgerInv, LiveSuccessesAreSerial
  <2>3. ASSUME LiveSuccess(c)'
        PROVE  ledger'[c].request.gen = generation /\ generation' = generation + 1
    BY <1>1, <1>2, <1>3, <2>3 DEF LiveSuccess, GenerationAllows, CommitsGeneration
  <2>4. ASSUME NEW d \in CommandIds, LiveSuccess(d)'
        PROVE  ledger'[d].request.gen < generation'
    <3>1. CASE d = c
      BY <2>1, <2>3, <2>4, <3>1
    <3>2. CASE d # c
      <4>1. ledger'[d].request.gen < generation /\ ledger'[d].request.gen \in Nat
        BY <2>2, <2>4, <3>2
      <4> QED BY <1>2, <2>1, <4>1
    <3> QED BY <3>1, <3>2
  <2>5. ASSUME NEW d1 \in CommandIds, NEW d2 \in CommandIds,
               LiveSuccess(d1)', LiveSuccess(d2)',
               ledger'[d1].request.gen = ledger'[d2].request.gen
        PROVE  d1 = d2
    <3>1. CASE d1 # c /\ d2 # c
      BY <2>2, <2>5, <3>1 DEF LedgerInv, LiveSuccessesAreSerial
    <3>2. CASE d1 = c /\ d2 # c
      BY <2>1, <2>2, <2>3, <2>5, <3>2
    <3>3. CASE d1 # c /\ d2 = c
      BY <2>1, <2>2, <2>3, <2>5, <3>3
    <3> QED BY <3>1, <3>2, <3>3
  <2> QED BY <2>4, <2>5 DEF LiveSuccessesAreSerial
<1> QED BY <1>4, <1>5, <1>6 DEF LedgerInv

LEMMA LedgerInvStep == LedgerInv /\ [LedgerNext]_ledgerVars => LedgerInv'
<1> SUFFICES ASSUME LedgerInv, [LedgerNext]_ledgerVars PROVE LedgerInv'
  OBVIOUS
<1>1. CASE ImmediateCommit
  <2>1. /\ UNCHANGED <<ledger, order>>
        /\ generation \in Nat /\ generation' = generation + 1
    BY <1>1 DEF ImmediateCommit, LedgerInv, LedgerTypeOK
  <2>2. ASSUME NEW d \in CommandIds, LiveSuccess(d)'
        PROVE  LiveSuccess(d) /\ ledger'[d].request.gen < generation'
    <3>1. LiveSuccess(d) /\ ledger'[d] = ledger[d]
      BY <2>1, <2>2 DEF LiveSuccess
    <3>2. ledger[d].request.gen < generation /\ ledger[d].request.gen \in Nat
      BY <3>1, RequestsAssumption
         DEF LedgerInv, LedgerTypeOK, LiveSuccess, LiveSuccessesAreSerial, Entries
    <3> QED BY <2>1, <3>1, <3>2
  <2>3. LiveSuccessesAreSerial'
    BY <2>1, <2>2 DEF LedgerInv, LiveSuccessesAreSerial
  <2> QED BY <2>1, <2>3
          DEF LedgerInv, LedgerTypeOK, OrderListsTheLedger, LedgerIsBounded, OwnedWhileOpen, Known
<1>2. ASSUME NEW c \in CommandIds, NEW r \in Requests, ClaimRejected(c, r)
      PROVE  LedgerInv'
  <2>1. TerminalEntry(r, "Failed", "None") \in Entries
    BY EntriesAreTyped DEF Statuses, Rollbacks
  <2>2. ledger[c] = NoEntry
    BY <1>2, ClaimedIsNew DEF ClaimRejected
  <2>3. /\ AddEntry(c, TerminalEntry(r, "Failed", "None"))
        /\ UNCHANGED generation
    BY <1>2 DEF ClaimRejected
  <2>4. /\ TerminalEntry(r, "Failed", "None").terminal
        /\ TerminalEntry(r, "Failed", "None").owner = NoExecutor
        /\ TerminalEntry(r, "Failed", "None").status \in FailureStatuses
    BY DEF TerminalEntry, FailureStatuses
  <2> QED BY <2>1, <2>2, <2>3, <2>4, AddEntryInv
<1>3. ASSUME NEW c \in CommandIds, NEW r \in Requests, NEW x \in Executors,
             ClaimAccepted(c, r, x)
      PROVE  LedgerInv'
  <2>1. RunningEntry(r, x) \in Entries
    BY EntriesAreTyped
  <2>2. ledger[c] = NoEntry
    BY <1>3, ClaimedIsNew DEF ClaimAccepted
  <2>3. AddEntry(c, RunningEntry(r, x)) /\ UNCHANGED generation
    BY <1>3 DEF ClaimAccepted
  <2>4. /\ RunningEntry(r, x).terminal = FALSE
        /\ RunningEntry(r, x).owner # NoExecutor
    BY NoExecutorAssumption DEF RunningEntry
  <2> QED BY <2>1, <2>2, <2>3, <2>4, AddEntryInv
<1>4. ASSUME NEW c \in CommandIds, NEW r \in Requests, NEW x \in Executors,
             NEW s \in ProgressStatuses, NEW b \in Rollbacks, PublishProgress(c, r, x, s, b)
      PROVE  LedgerInv'
  BY <1>4, PublishProgressInv DEF ProgressStatuses, FailureStatuses, Statuses
<1>5. ASSUME NEW c \in CommandIds, NEW r \in Requests, NEW x \in Executors,
             NEW s \in Statuses \ {"Running"}, NEW b \in Rollbacks, Finalize(c, r, x, s, b)
      PROVE  LedgerInv'
  BY <1>5, FinalizeInv
<1>6. CASE UNCHANGED ledgerVars
  BY <1>6 DEF ledgerVars, LedgerInv, LedgerTypeOK, OrderListsTheLedger, LedgerIsBounded,
              OwnedWhileOpen, Known, LiveSuccessesAreSerial, LiveSuccess
<1> QED BY <1>1, <1>2, <1>3, <1>4, <1>5, <1>6 DEF LedgerNext

\* The five ledger invariants are inductive only together: whatever claims,
\* publications and finalizations do to the ledger, all of them keep holding.
THEOREM LedgerInvariant == LedgerSpec => []LedgerInv
<1>1. LedgerInit => LedgerInv
  BY LedgerInvInit
<1>2. LedgerInv /\ [LedgerNext]_ledgerVars => LedgerInv'
  BY LedgerInvStep
<1> QED BY <1>1, <1>2, PTL DEF LedgerSpec

-------------------------------------------------------------------------------
(***************************************************************************)
(* The theorems.                                                           *)
(***************************************************************************)

\* The map, the order and the generation keep their types.
THEOREM LedgerIsTyped == LedgerSpec => []LedgerTypeOK
<1>1. LedgerInv => LedgerTypeOK
  BY DEF LedgerInv
<1> QED BY <1>1, LedgerInvariant, PTL

\* PhysicalCommandOrder lists exactly the ids of PhysicalCommandLedger, once each.
THEOREM OrderAlwaysListsTheLedger == LedgerSpec => []OrderListsTheLedger
<1>1. LedgerInv => OrderListsTheLedger
  BY DEF LedgerInv
<1> QED BY <1>1, LedgerInvariant, PTL

\* The ledger never holds more than MaxPhysicalCommandLedgerEntries entries.
THEOREM LedgerIsAlwaysBounded == LedgerSpec => []LedgerIsBounded
<1>1. LedgerInv => LedgerIsBounded
  BY DEF LedgerInv
<1> QED BY <1>1, LedgerInvariant, PTL

\* Exactly the open entries have an owner.
THEOREM OpenEntriesAreOwned == LedgerSpec => []OwnedWhileOpen
<1>1. LedgerInv => OwnedWhileOpen
  BY DEF LedgerInv
<1> QED BY <1>1, LedgerInvariant, PTL

\* No two recorded successes of live commands claim the same session generation.
THEOREM LiveSuccessesStaySerial == LedgerSpec => []LiveSuccessesAreSerial
<1>1. LedgerInv => LiveSuccessesAreSerial
  BY DEF LedgerInv
<1> QED BY <1>1, LedgerInvariant, PTL

\* What one step of the ledger does to an entry.
LEMMA EntryStep ==
    ASSUME LedgerInv, [LedgerNext]_ledgerVars, NEW c \in Known
    PROVE  \/ ledger'[c] = ledger[c]
           \/ ledger'[c] = NoEntry /\ ledger[c].terminal
           \/ /\ ~ledger[c].terminal
              /\ ledger'[c] # NoEntry
              /\ ledger'[c].request = ledger[c].request
              /\ ledger'[c].terminal \/ ledger'[c].owner = ledger[c].owner
<1>1. c \in CommandIds /\ ledger[c] # NoEntry
  BY DEF Known
<1>2. ledger[c] \in Entries /\ ledger \in [CommandIds -> Entries \cup {NoEntry}]
  BY <1>1 DEF LedgerInv, LedgerTypeOK
<1>3. CASE ImmediateCommit \/ UNCHANGED ledgerVars
  BY <1>3 DEF ImmediateCommit, ledgerVars
<1>4. ASSUME NEW d \in CommandIds, NEW r \in Requests, NEW e \in Entries,
             ClaimOutcome(d, r) = "Claimed", AddEntry(d, e)
      PROVE  ledger'[c] = ledger[c] \/ (ledger'[c] = NoEntry /\ ledger[c].terminal)
  <2>1. c # d
    BY <1>1, <1>4, ClaimedIsNew
  <2> QED BY <1>1, <1>4, <2>1, AddEntryMap DEF LedgerInv
<1>5. ASSUME NEW d \in CommandIds, NEW r \in Requests, ClaimRejected(d, r)
      PROVE  ledger'[c] = ledger[c] \/ (ledger'[c] = NoEntry /\ ledger[c].terminal)
  <2>1. TerminalEntry(r, "Failed", "None") \in Entries
    BY EntriesAreTyped DEF Statuses, Rollbacks
  <2> QED BY <1>4, <1>5, <2>1 DEF ClaimRejected
<1>6. ASSUME NEW d \in CommandIds, NEW r \in Requests, NEW x \in Executors,
             ClaimAccepted(d, r, x)
      PROVE  ledger'[c] = ledger[c] \/ (ledger'[c] = NoEntry /\ ledger[c].terminal)
  <2>1. RunningEntry(r, x) \in Entries
    BY EntriesAreTyped
  <2> QED BY <1>4, <1>6, <2>1 DEF ClaimAccepted
<1>7. ASSUME NEW d \in CommandIds, NEW r \in Requests, NEW x \in Executors,
             NEW s \in ProgressStatuses, NEW b \in Rollbacks, PublishProgress(d, r, x, s, b)
      PROVE  \/ ledger'[c] = ledger[c]
             \/ /\ ~ledger[c].terminal
                /\ ledger'[c] # NoEntry
                /\ ledger'[c].request = ledger[c].request
                /\ ledger'[c].owner = ledger[c].owner
  <2>1. CASE c # d
    BY <1>1, <1>2, <1>7, <2>1 DEF PublishProgress
  <2>2. CASE c = d
    <3>1. /\ ~ledger[c].terminal
          /\ ledger'[c] = [ledger[c] EXCEPT !.status = s, !.rollback = b]
      BY <1>1, <1>2, <1>7, <2>2 DEF PublishProgress, IsOpenFor
    <3>2. s \in Statuses
      BY DEF ProgressStatuses, FailureStatuses, Statuses
    <3>3. /\ ledger'[c] \in Entries
          /\ ledger'[c].request = ledger[c].request
          /\ ledger'[c].owner = ledger[c].owner
      BY <1>2, <3>1, <3>2 DEF Entries
    <3> QED BY <3>1, <3>3, NoEntryAssumption
  <2> QED BY <2>1, <2>2
<1>8. ASSUME NEW d \in CommandIds, NEW r \in Requests, NEW x \in Executors,
             NEW s \in Statuses \ {"Running"}, NEW b \in Rollbacks, Finalize(d, r, x, s, b)
      PROVE  \/ ledger'[c] = ledger[c]
             \/ /\ ~ledger[c].terminal
                /\ ledger'[c] # NoEntry
                /\ ledger'[c].request = ledger[c].request
                /\ ledger'[c].terminal
  <2>1. CASE c # d
    BY <1>1, <1>2, <1>8, <2>1 DEF Finalize
  <2>2. CASE c = d
    <3>1. /\ ~ledger[c].terminal /\ ledger[c].request = r
          /\ ledger'[c] = TerminalEntry(r, s, b)
      BY <1>1, <1>2, <1>8, <2>2 DEF Finalize, IsOpenFor
    <3>2. TerminalEntry(r, s, b) \in Entries
      BY EntriesAreTyped
    <3>3. TerminalEntry(r, s, b).request = r /\ TerminalEntry(r, s, b).terminal
      BY DEF TerminalEntry
    <3> QED BY <3>1, <3>2, <3>3, NoEntryAssumption
  <2> QED BY <2>1, <2>2
<1> QED BY <1>3, <1>5, <1>6, <1>7, <1>8 DEF LedgerNext

\* A terminal receipt never changes: it is replayed until it is evicted.
THEOREM TerminalReceiptsStayFinal == LedgerSpec => TerminalReceiptsAreFinal
<1>1. LedgerInv /\ [LedgerNext]_ledgerVars
        => \A c \in Known : ledger[c].terminal => ledger'[c] \in {ledger[c], NoEntry}
  BY EntryStep
<1> QED BY <1>1, LedgerInvariant, PTL DEF LedgerSpec, TerminalReceiptsAreFinal

\* An open entry is never evicted, renamed or handed to another executor.
THEOREM OpenEntriesAlwaysSurvive == LedgerSpec => OpenEntriesSurvive
<1>1. LedgerInv /\ [LedgerNext]_ledgerVars
        => \A c \in Known : ~ledger[c].terminal =>
              /\ ledger'[c] # NoEntry
              /\ ledger'[c].request = ledger[c].request
              /\ ledger'[c].terminal \/ ledger'[c].owner = ledger[c].owner
  <2> SUFFICES ASSUME LedgerInv, [LedgerNext]_ledgerVars,
                      NEW c \in Known, ~ledger[c].terminal
               PROVE  /\ ledger'[c] # NoEntry
                      /\ ledger'[c].request = ledger[c].request
                      /\ ledger'[c].terminal \/ ledger'[c].owner = ledger[c].owner
    OBVIOUS
  <2>1. ledger[c] # NoEntry
    BY DEF Known
  <2> QED BY <2>1, EntryStep
<1> QED BY <1>1, LedgerInvariant, PTL DEF LedgerSpec, OpenEntriesSurvive

\* What an evicted entry says of the ledger at that moment.
Evicts(c) ==
    /\ Len(order) = Capacity
    /\ \A d \in Known \ {c} : ledger'[d] # NoEntry
    /\ \A i, j \in 1..Len(order) : order[j] = c /\ i < j => ~ledger[order[i]].terminal

LEMMA AddEntryEvicts ==
    ASSUME LedgerInv, NEW d \in CommandIds, NEW e \in Entries, AddEntry(d, e),
           ledger[d] = NoEntry, NEW c \in Known, ledger'[c] = NoEntry
    PROVE  Evicts(c)
<1>1. /\ c \in CommandIds /\ ledger[c] # NoEntry /\ c # d
      /\ ledger \in [CommandIds -> Entries \cup {NoEntry}]
      /\ order \in Seq(CommandIds)
      /\ Len(order) \in Nat
  BY LenProperties DEF Known, LedgerInv, LedgerTypeOK
<1>2. ~(ledger' = [ledger EXCEPT ![d] = e])
  BY <1>1
<1>3. PICK k \in 1..Len(order) :
          /\ IsFull
          /\ IsOldestTerminal(k)
          /\ ledger' = [ledger EXCEPT ![order[k]] = NoEntry, ![d] = e]
  BY <1>2 DEF AddEntry
<1>4. order[k] \in CommandIds
  BY <1>1, ElementOfSeq
<1>5. order[k] = c
  BY <1>1, <1>3, <1>4
<1>6. Len(order) = Capacity
  <2>1. Cardinality(Known) = Len(order) /\ Len(order) <= Capacity
    BY KnownAreListed DEF LedgerInv, LedgerIsBounded
  <2> QED BY <1>1, <1>3, <2>1, CapacityAssumption DEF IsFull
<1>7. ASSUME NEW f \in Known \ {c}
      PROVE  ledger'[f] # NoEntry
  BY <1>1, <1>3, <1>4, <1>5, NoEntryAssumption DEF Known
<1>8. ASSUME NEW i \in 1..Len(order), NEW j \in 1..Len(order), order[j] = c, i < j
      PROVE  ~ledger[order[i]].terminal
  <2>1. j = k
    BY <1>5, <1>8 DEF LedgerInv, OrderListsTheLedger
  <2>2. i \in 1..(k - 1)
    BY <1>1, <1>8, <2>1
  <2> QED BY <1>3, <2>2 DEF IsOldestTerminal
<1> QED BY <1>6, <1>7, <1>8 DEF Evicts

\* An entry leaves the ledger only as the one that has been terminal longest.
LEMMA EvictionStep ==
    LedgerInv /\ [LedgerNext]_ledgerVars => \A c \in Known : ledger'[c] = NoEntry => Evicts(c)
<1> SUFFICES ASSUME LedgerInv, [LedgerNext]_ledgerVars, NEW c \in Known,
                    ledger'[c] = NoEntry
             PROVE  Evicts(c)
  OBVIOUS
<1>1. c \in CommandIds /\ ledger[c] # NoEntry
  BY DEF Known
<1>2. ASSUME NEW d \in CommandIds, NEW r \in Requests, ClaimRejected(d, r)
      PROVE  Evicts(c)
  <2>1. TerminalEntry(r, "Failed", "None") \in Entries
    BY EntriesAreTyped DEF Statuses, Rollbacks
  <2>2. ledger[d] = NoEntry
    BY <1>2, ClaimedIsNew DEF ClaimRejected
  <2> QED BY <1>2, <2>1, <2>2, AddEntryEvicts DEF ClaimRejected
<1>3. ASSUME NEW d \in CommandIds, NEW r \in Requests, NEW x \in Executors,
             ClaimAccepted(d, r, x)
      PROVE  Evicts(c)
  <2>1. RunningEntry(r, x) \in Entries
    BY EntriesAreTyped
  <2>2. ledger[d] = NoEntry
    BY <1>3, ClaimedIsNew DEF ClaimAccepted
  <2> QED BY <1>3, <2>1, <2>2, AddEntryEvicts DEF ClaimAccepted
<1>4. CASE ImmediateCommit \/ UNCHANGED ledgerVars
  BY <1>1, <1>4 DEF ImmediateCommit, ledgerVars
<1>5. ASSUME NEW d \in CommandIds, NEW r \in Requests, NEW x \in Executors,
             \/ \E s \in ProgressStatuses, b \in Rollbacks : PublishProgress(d, r, x, s, b)
             \/ \E s \in Statuses \ {"Running"}, b \in Rollbacks : Finalize(d, r, x, s, b)
      PROVE  FALSE
  <2>1. ledger'[c] # ledger[c]
    BY <1>1
  <2>2. ~ledger[c].terminal
    <3>1. c = d /\ ledger[d].terminal = FALSE
      BY <1>1, <1>5, <2>1 DEF PublishProgress, Finalize, IsOpenFor, LedgerInv, LedgerTypeOK, Entries
    <3> QED BY <3>1
  <2> QED BY <1>1, <2>1, <2>2, EntryStep
<1> QED BY <1>2, <1>3, <1>4, <1>5 DEF LedgerNext

\* EvictOldestTerminalPhysicalCommand makes room only in a full ledger, by one
\* entry, the one that has been terminal and listed longest.
THEOREM EvictionTakesTheOldestTerminal == LedgerSpec => EvictsOldestTerminal
BY EvictionStep, LedgerInvariant, PTL DEF LedgerSpec, EvictsOldestTerminal, Evicts

===============================================================================
