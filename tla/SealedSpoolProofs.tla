--------------------------- MODULE SealedSpoolProofs ---------------------------
(***************************************************************************)
(* The spool's safety for any ids, writes, processes and checkouts: the    *)
(* five artifacts of an id are settled one after the other, so that a      *)
(* legible marker means a complete record, and the spool implements a      *)
(* write-once register per id.                                             *)
(***************************************************************************)
EXTENDS SealedSpool, TLAPS

-------------------------------------------------------------------------------
(***************************************************************************)
(* Types.                                                                  *)
(***************************************************************************)

\* A process at a step other than "idle" is in a call with typed fields.
LEMMA LiveCalls ==
    ASSUME SpoolTypeOK, NEW p \in Processes, ~At(p, "idle")
    PROVE  /\ proc[p] \in Calls
           /\ proc[p].id \in Ids
           /\ proc[p].holds \in Writes
           /\ proc[p].name \in Names
           /\ proc[p].checkout \in Checkouts \cup {NoCheckout}
BY DEF SpoolTypeOK, At, Idle, Calls

LEMMA GoToTyped ==
    ASSUME SpoolTypeOK, NEW p \in Processes, ~At(p, "idle"),
           NEW step \in ControlSteps \cup PublisherSteps, GoTo(p, step)
    PROVE  proc' \in [Processes -> Calls \cup {Idle}]
<1>1. [proc[p] EXCEPT !.at = step] \in Calls
  BY LiveCalls DEF Calls
<1> QED BY <1>1 DEF GoTo, SpoolTypeOK

LEMMA GoWriteTyped ==
    ASSUME SpoolTypeOK, NEW p \in Processes, ~At(p, "idle"),
           NEW n \in Names, GoWrite(p, n)
    PROVE  proc' \in [Processes -> Calls \cup {Idle}]
<1>1. [proc[p] EXCEPT !.at = "create", !.name = n] \in Calls
  BY LiveCalls DEF Calls, ControlSteps
<1> QED BY <1>1 DEF GoWrite, SpoolTypeOK

LEMMA ReturnTyped ==
    ASSUME SpoolTypeOK, NEW p \in Processes, Return(p)
    PROVE  proc' \in [Processes -> Calls \cup {Idle}]
BY DEF Return, SpoolTypeOK

LEMMA CallTyped ==
    ASSUME SpoolTypeOK, NEW p \in Processes, NEW i \in Ids, NEW w \in Writes,
           NEW step \in ControlSteps \cup PublisherSteps, Call(p, step, i, w)
    PROVE  proc' \in [Processes -> Calls \cup {Idle}]
BY DEF Call, SpoolTypeOK, Calls, Names, SpoolNames

LEMMA HandTyped ==
    ASSUME SpoolTypeOK, NEW i \in Ids, NEW w \in Writes, Hand(i, w)
    PROVE  given' \subseteq Ids \X Writes
BY DEF Hand, SpoolTypeOK

LEMMA TicketTyped ==
    ASSUME SpoolTypeOK, NEW i \in Ids, NEW w \in Writes,
           tickets' = tickets \cup {<<i, w>>}
    PROVE  tickets' \subseteq Ids \X Writes
BY DEF SpoolTypeOK

\* What the three file steps make of a file; every other one is as before.
LEMMA CreateWrites ==
    ASSUME SpoolTypeOK, NEW p \in Processes, Create(p), files' # files
    PROVE  /\ ~Exists(proc[p].id, proc[p].name)
           /\ GoTo(p, "fill")
           /\ files' \in [Ids -> [Names -> Files]]
           /\ \A i \in Ids, n \in Names :
                 IF i = proc[p].id /\ n = proc[p].name
                 THEN files'[i][n] =
                        [state |-> "torn", holds |-> proc[p].holds,
                         checkout |-> IF n = "materialized"
                                      THEN proc[p].checkout ELSE NoCheckout]
                 ELSE files'[i][n] = files[i][n]
<1> DEFINE f == [state |-> "torn", holds |-> proc[p].holds,
                 checkout |-> IF proc[p].name = "materialized"
                              THEN proc[p].checkout ELSE NoCheckout]
<1>1. proc[p].id \in Ids /\ proc[p].name \in Names /\ f \in Files
  BY LiveCalls DEF Create, At, Files, FileStates
<1>2. /\ ~Exists(proc[p].id, proc[p].name)
      /\ GoTo(p, "fill")
      /\ files' = [files EXCEPT ![proc[p].id][proc[p].name] = f]
  BY DEF Create
<1> HIDE DEF f
<1>3. files' \in [Ids -> [Names -> Files]]
  BY <1>1, <1>2 DEF SpoolTypeOK
<1>4. \A i \in Ids, n \in Names :
         IF i = proc[p].id /\ n = proc[p].name
         THEN files'[i][n] = f ELSE files'[i][n] = files[i][n]
  BY <1>1, <1>2 DEF SpoolTypeOK
<1> QED BY <1>2, <1>3, <1>4 DEF f

LEMMA MarksWrite ==
    ASSUME SpoolTypeOK, NEW p \in Processes, ~At(p, "idle"), NEW s \in FileStates,
           files' = [files EXCEPT ![proc[p].id][proc[p].name].state = s]
    PROVE  /\ files' \in [Ids -> [Names -> Files]]
           /\ \A i \in Ids, n \in Names :
                 IF i = proc[p].id /\ n = proc[p].name
                 THEN files'[i][n] = [files[i][n] EXCEPT !.state = s]
                 ELSE files'[i][n] = files[i][n]
<1> DEFINE f == [files[proc[p].id][proc[p].name] EXCEPT !.state = s]
<1>1. proc[p].id \in Ids /\ proc[p].name \in Names
  BY LiveCalls
<1>a. files[proc[p].id][proc[p].name] \in Files
  BY <1>1 DEF SpoolTypeOK
<1>2. f \in Files
  BY <1>a DEF Files
<1>3. files' = [files EXCEPT ![proc[p].id][proc[p].name] = f]
  OBVIOUS
<1> HIDE DEF f
<1>4. files' \in [Ids -> [Names -> Files]]
  BY <1>1, <1>2, <1>3 DEF SpoolTypeOK
<1>5. \A i \in Ids, n \in Names :
         IF i = proc[p].id /\ n = proc[p].name
         THEN files'[i][n] = f ELSE files'[i][n] = files[i][n]
  BY <1>1, <1>3 DEF SpoolTypeOK
<1> QED BY <1>4, <1>5 DEF f

LEMMA RebootWrites ==
    ASSUME SpoolTypeOK, PowerFailure
    PROVE  /\ files' \in [Ids -> [Names -> Files]]
           /\ \A i \in Ids, n \in Names :
                 \/ files'[i][n] = files[i][n]
                 \/ /\ files[i][n].state \in {"torn", "whole"}
                    /\ \/ files'[i][n] = NoFile
                       \/ \E s \in {"scrap", "durable"} :
                             files'[i][n] = [files[i][n] EXCEPT !.state = s]
<1>1. PICK gone \in SUBSET Volatile, scrap \in SUBSET Volatile :
         files' = [i \in Ids |-> [n \in Names |->
                      IF <<i, n>> \in Volatile
                      THEN AfterReboot(files[i][n], <<i, n>> \in gone, <<i, n>> \in scrap)
                      ELSE files[i][n]]]
  BY DEF PowerFailure
<1>2. ASSUME NEW i \in Ids, NEW n \in Names
      PROVE  /\ files'[i][n] \in Files
             /\ \/ files'[i][n] = files[i][n]
                \/ /\ files[i][n].state \in {"torn", "whole"}
                   /\ \/ files'[i][n] = NoFile
                      \/ \E s \in {"scrap", "durable"} :
                            files'[i][n] = [files[i][n] EXCEPT !.state = s]
  <2>1. files[i][n] \in Files
    BY DEF SpoolTypeOK
  <2>2. NoFile \in Files
    BY DEF NoFile, Files, FileStates
  <2>3. \A s \in {"scrap", "durable"} : [files[i][n] EXCEPT !.state = s] \in Files
    BY <2>1 DEF Files, FileStates
  <2>4. CASE <<i, n>> \in Volatile
    <3>1. files[i][n].state \in {"torn", "whole"}
      BY <2>4 DEF Volatile
    <3>2. files'[i][n] = AfterReboot(files[i][n], <<i, n>> \in gone, <<i, n>> \in scrap)
      BY <1>1, <2>4
    <3>3. \/ files'[i][n] = NoFile
          \/ \E s \in {"scrap", "durable"} :
                files'[i][n] = [files[i][n] EXCEPT !.state = s]
      BY <3>2 DEF AfterReboot
    <3> QED BY <2>2, <2>3, <3>1, <3>3
  <2>5. CASE <<i, n>> \notin Volatile
    BY <1>1, <2>1, <2>5
  <2> QED BY <2>4, <2>5
<1>3. files' \in [Ids -> [Names -> Files]]
  BY <1>1, <1>2
<1> QED BY <1>2, <1>3

\* Every step keeps the types.
LEMMA TypeOfStep ==
    ASSUME SpoolTypeOK, [Next]_vars
    PROVE  SpoolTypeOK'
<1> USE DEF ControlSteps, PublisherSteps
<1>1. ASSUME NEW p \in Controls, ControlStep(p)
      PROVE  SpoolTypeOK'
  <2> p \in Processes
    BY DEF Processes
  <2>1. ASSUME NEW i \in Ids, NEW w \in Writes, StartPut(p, i, w) \/ StartSeal(p, i, w)
        PROVE  SpoolTypeOK'
    <3>1. proc' \in [Processes -> Calls \cup {Idle}]
      BY <2>1, CallTyped DEF StartPut, StartSeal
    <3> QED BY <2>1, <3>1 DEF StartPut, StartSeal, SpoolTypeOK
  <2>2. CASE Reserve(p)
    <3>0. ~At(p, "idle") /\ proc[p].id \in Ids /\ proc[p].holds \in Writes
      BY <2>2, LiveCalls DEF Reserve, At
    <3>1. proc' \in [Processes -> Calls \cup {Idle}]
      <4>1. GoTo(p, "seal") \/ Return(p) \/ GoWrite(p, "reserved")
        BY <2>2 DEF Reserve
      <4> QED BY <3>0, <4>1, GoToTyped, GoWriteTyped, ReturnTyped DEF Names, SpoolNames
    <3>2. tickets' \subseteq Ids \X Writes
      <4>1. tickets' = tickets \/ tickets' = tickets \cup {<<proc[p].id, proc[p].holds>>}
        BY <2>2 DEF Reserve
      <4> QED BY <3>0, <4>1 DEF SpoolTypeOK
    <3> QED BY <2>2, <3>1, <3>2 DEF Reserve, SpoolTypeOK
  <2>3. CASE Seal(p)
    <3>0. ~At(p, "idle") /\ proc[p].id \in Ids /\ proc[p].holds \in Writes
      BY <2>3, LiveCalls DEF Seal, At
    <3>1. proc' \in [Processes -> Calls \cup {Idle}]
      <4>1. Return(p) \/ GoWrite(p, "envelope")
        BY <2>3 DEF Seal
      <4> QED BY <3>0, <4>1, GoWriteTyped, ReturnTyped DEF Names, SpoolNames
    <3>2. given' \subseteq Ids \X Writes
      <4>1. given' = given \/ Hand(proc[p].id, proc[p].holds)
        BY <2>3 DEF Seal
      <4> QED BY <3>0, <4>1, HandTyped DEF SpoolTypeOK
    <3> QED BY <2>3, <3>1, <3>2 DEF Seal, SpoolTypeOK
  <2>4. CASE Check(p)
    <3>0. ~At(p, "idle") /\ proc[p].id \in Ids /\ proc[p].holds \in Writes
      BY <2>4, LiveCalls DEF Check, At
    <3>1. proc' \in [Processes -> Calls \cup {Idle}]
      BY <2>4, ReturnTyped DEF Check
    <3>2. given' \subseteq Ids \X Writes
      <4>1. given' = given \/ Hand(proc[p].id, proc[p].holds)
        BY <2>4 DEF Check
      <4> QED BY <3>0, <4>1, HandTyped DEF SpoolTypeOK
    <3> QED BY <2>4, <3>1, <3>2 DEF Check, SpoolTypeOK
  <2> QED BY <1>1, <2>1, <2>2, <2>3, <2>4 DEF ControlStep
<1>2. ASSUME NEW p \in Publishers, PublisherStep(p)
      PROVE  SpoolTypeOK'
  <2> p \in Processes
    BY DEF Processes
  <2>1. ASSUME NEW i \in Ids, NEW w \in Writes, StartRematerialize(p, i, w)
        PROVE  SpoolTypeOK'
    <3>1. proc' \in [Processes -> Calls \cup {Idle}]
      BY <2>1, CallTyped DEF StartRematerialize
    <3>2. given' \subseteq Ids \X Writes
      BY <2>1, HandTyped DEF StartRematerialize
    <3> QED BY <2>1, <3>1, <3>2 DEF StartRematerialize, SpoolTypeOK
  <2>2. CASE Claim(p)
    <3>1. GoTo(p, "look") \/ Return(p) \/ GoWrite(p, "claimed")
      BY <2>2 DEF Claim
    <3>2. proc' \in [Processes -> Calls \cup {Idle}]
      BY <2>2, <3>1, GoToTyped, GoWriteTyped, ReturnTyped DEF Claim, At, Names, StateNames
    <3> QED BY <2>2, <3>2 DEF Claim, SpoolTypeOK
  <2>3. CASE Look(p)
    <3>1. CASE \E c \in Checkouts :
                 proc' = [proc EXCEPT ![p].at = "reuse", ![p].checkout = c]
      <4>1. PICK c \in Checkouts :
               proc' = [proc EXCEPT ![p].at = "reuse", ![p].checkout = c]
        BY <3>1
      <4>2. [proc[p] EXCEPT !.at = "reuse", !.checkout = c] \in Calls
        BY <2>3, LiveCalls DEF Look, At, Calls
      <4>3. proc' \in [Processes -> Calls \cup {Idle}]
        BY <4>1, <4>2 DEF SpoolTypeOK
      <4> QED BY <2>3, <4>3 DEF Look, SpoolTypeOK
    <3>2. CASE GoTo(p, "prepare") \/ Return(p)
      <4>1. proc' \in [Processes -> Calls \cup {Idle}]
        BY <2>3, <3>2, GoToTyped, ReturnTyped DEF Look, At
      <4> QED BY <2>3, <4>1 DEF Look, SpoolTypeOK
    <3> QED BY <2>3, <3>1, <3>2 DEF Look
  <2>4. CASE Reuse(p)
    <3>1. GoTo(p, "holding") \/ Return(p)
      BY <2>4 DEF Reuse
    <3>2. proc' \in [Processes -> Calls \cup {Idle}]
      BY <2>4, <3>1, GoToTyped, ReturnTyped DEF Reuse, At
    <3> QED BY <2>4, <3>2 DEF Reuse, SpoolTypeOK
  <2>5. ASSUME NEW c \in Checkouts, Prepare(p, c)
        PROVE  SpoolTypeOK'
    <3>1. [proc[p] EXCEPT !.at = "apply", !.checkout = c] \in Calls
      BY <2>5, LiveCalls DEF Prepare, At, Calls
    <3>2. \/ proc' = [proc EXCEPT ![p].at = "apply", ![p].checkout = c]
          \/ Return(p)
      BY <2>5 DEF Prepare
    <3>3. proc' \in [Processes -> Calls \cup {Idle}]
      BY <3>1, <3>2, ReturnTyped DEF SpoolTypeOK
    <3>4. tree' \in [Checkouts -> Trees]
      BY <2>5 DEF Prepare, SpoolTypeOK, Trees
    <3> QED BY <2>5, <3>3, <3>4 DEF Prepare, SpoolTypeOK
  <2>6. CASE Apply(p)
    <3>1. GoTo(p, "record") \/ Return(p)
      BY <2>6 DEF Apply
    <3>2. proc' \in [Processes -> Calls \cup {Idle}]
      BY <2>6, <3>1, GoToTyped, ReturnTyped DEF Apply, At
    <3>3. proc[p].holds \in Writes
      BY <2>6, LiveCalls DEF Apply, At
    <3>4. tree' \in [Checkouts -> Trees]
      BY <2>6, <3>3 DEF Apply, SpoolTypeOK, Trees
    <3> QED BY <2>6, <3>2, <3>4 DEF Apply, SpoolTypeOK
  <2>7. CASE Record(p)
    <3>1. Return(p) \/ GoWrite(p, "materialized") \/ GoTo(p, "confirm")
      BY <2>7 DEF Record
    <3>2. proc' \in [Processes -> Calls \cup {Idle}]
      BY <2>7, <3>1, GoToTyped, GoWriteTyped, ReturnTyped DEF Record, At, Names, StateNames
    <3> QED BY <2>7, <3>2 DEF Record, SpoolTypeOK
  <2>8. CASE Confirm(p)
    <3>1. Return(p) \/ GoTo(p, "holding")
      BY <2>8 DEF Confirm
    <3>2. proc' \in [Processes -> Calls \cup {Idle}]
      BY <2>8, <3>1, GoToTyped, ReturnTyped DEF Confirm, At
    <3> QED BY <2>8, <3>2 DEF Confirm, SpoolTypeOK
  <2> QED BY <1>2, <2>1, <2>2, <2>3, <2>4, <2>5, <2>6, <2>7, <2>8 DEF PublisherStep
<1>3. ASSUME NEW p \in Processes, Create(p)
      PROVE  SpoolTypeOK'
  <2>1. files' \in [Ids -> [Names -> Files]]
    <3>1. CASE files' = files
      BY <3>1 DEF SpoolTypeOK
    <3> QED BY <1>3, <3>1, CreateWrites
  <2>2. GoTo(p, "fill") \/ Return(p)
    BY <1>3 DEF Create
  <2>3. proc' \in [Processes -> Calls \cup {Idle}]
    BY <1>3, <2>2, GoToTyped, ReturnTyped DEF Create, At
  <2> QED BY <1>3, <2>1, <2>3 DEF Create, SpoolTypeOK
<1>4. ASSUME NEW p \in Processes, Fill(p)
      PROVE  SpoolTypeOK'
  <2>1. files' \in [Ids -> [Names -> Files]]
    BY <1>4, MarksWrite DEF Fill, At, FileStates
  <2>2. proc' \in [Processes -> Calls \cup {Idle}]
    BY <1>4, GoToTyped DEF Fill, At
  <2> QED BY <1>4, <2>1, <2>2 DEF Fill, SpoolTypeOK
<1>5. ASSUME NEW p \in Processes, Sync(p)
      PROVE  SpoolTypeOK'
  <2>0. ~At(p, "idle") /\ proc[p].id \in Ids /\ proc[p].holds \in Writes
    BY <1>5, LiveCalls DEF Sync, At
  <2>1. files' \in [Ids -> [Names -> Files]]
    BY <1>5, <2>0, MarksWrite DEF Sync, FileStates
  <2>2. \/ GoTo(p, "seal") \/ GoTo(p, "check") \/ GoTo(p, "look") \/ GoTo(p, "confirm")
        \/ GoWrite(p, Following(proc[p].name))
    BY <1>5 DEF Sync, AfterSync
  <2>3. Following(proc[p].name) \in Names
    BY DEF Following, Names, SpoolNames
  <2>4. proc' \in [Processes -> Calls \cup {Idle}]
    BY <2>0, <2>2, <2>3, GoToTyped, GoWriteTyped
  <2>5. tickets' \subseteq Ids \X Writes
    BY <1>5, <2>0 DEF Sync, SpoolTypeOK
  <2> QED BY <1>5, <2>1, <2>4, <2>5 DEF Sync, SpoolTypeOK
<1>6. ASSUME NEW p \in Processes, Stop(p)
      PROVE  SpoolTypeOK'
  BY <1>6, ReturnTyped DEF Stop, SpoolTypeOK
<1>7. CASE PowerFailure
  <2>1. proc' \in [Processes -> Calls \cup {Idle}]
    BY <1>7 DEF PowerFailure
  <2> QED BY <1>7, <2>1, RebootWrites DEF PowerFailure, SpoolTypeOK
<1>8. ASSUME NEW c \in Checkouts, LoseCheckout(c)
      PROVE  SpoolTypeOK'
  BY <1>8 DEF LoseCheckout, SpoolTypeOK, Trees
<1>9. CASE UNCHANGED vars
  BY <1>9 DEF vars, SpoolTypeOK
<1> QED BY <1>1, <1>2, <1>3, <1>4, <1>5, <1>6, <1>7, <1>8, <1>9 DEF Next

\* Every reachable state is well typed.
THEOREM SpoolIsTyped == Spec => []SpoolTypeOK
<1>1. Init => SpoolTypeOK
  BY DEF Init, SpoolTypeOK, NoFile, Files, FileStates, Trees
<1>2. SpoolTypeOK /\ [Next]_vars => SpoolTypeOK'
  BY TypeOfStep
<1> QED BY <1>1, <1>2, PTL DEF Spec

-------------------------------------------------------------------------------
(***************************************************************************)
(* The order of the artifacts.                                             *)
(***************************************************************************)

\* seal writes m before n.
Before == [n \in Names |->
             CASE n = "envelope" -> {"reserved"}
               [] n = "patch"    -> {"reserved", "envelope"}
               [] n = "manifest" -> {"reserved", "envelope", "patch"}
               [] n = "sealed"   -> {"reserved", "envelope", "patch", "manifest"}
               [] OTHER          -> {}]

\* Artifact m of id i is synced and belongs to write w.
Settled(i, m, w) == files[i][m].state = "durable" /\ files[i][m].holds = w

\* An artifact exists only after the earlier ones of its write are settled.
FilesInOrder ==
    \A i \in Ids, n \in Names :
        Exists(i, n) => /\ files[i][n].holds \in Writes
                        /\ \A m \in Before[n] : Settled(i, m, files[i][n].holds)

\* A reservation handed out is on disk.
TicketsAreDecided == \A t \in tickets : Settled(t[1], "reserved", t[2])

Writing(p) == proc[p].at \in {"fill", "sync"}

\* What a call relies on at the step it has reached.
CallRelies(p) ==
    LET i == proc[p].id
        w == proc[p].holds
        n == proc[p].name
    IN  /\ At(p, "seal") => <<i, w>> \in tickets
        /\ (At(p, "create") \/ Writing(p)) => \A m \in Before[n] : Settled(i, m, w)
        /\ At(p, "fill") => files[i][n].state = "torn"
        /\ At(p, "sync") => files[i][n].state = "whole"
        /\ Writing(p) => files[i][n].holds = w
        /\ (At(p, "reuse") \/ At(p, "holding")) => MarkedFor(i, w, proc[p].checkout)

CallsRely == \A p \in Processes : CallRelies(p)

\* O_EXCL: a file that is being written has one writer.
OneWriter ==
    \A p, q \in Processes :
        (Writing(p) /\ Writing(q) /\ proc[p].id = proc[q].id /\ proc[p].name = proc[q].name)
            => p = q

SpoolOrder == FilesInOrder /\ TicketsAreDecided /\ CallsRely /\ OneWriter
SpoolInv == SpoolTypeOK /\ SpoolOrder

\* The step is one of p's own: every other process stays where it is.
OthersStay(p) == \A q \in Processes \ {p} : proc'[q] = proc[q]

\* A process that lets go, or goes on to a step that relies on nothing.
LEMMA PlainMoves ==
    ASSUME SpoolTypeOK, NEW p \in Processes,
           \/ Return(p)
           \/ \E step \in {"reserve", "check", "claim", "look", "prepare",
                           "apply", "record", "confirm"} :
                 GoTo(p, step) \/ \E i \in Ids, w \in Writes : Call(p, step, i, w)
    PROVE  OthersStay(p) /\ ~Writing(p)' /\ CallRelies(p)'
<1>1. OthersStay(p)
  BY DEF SpoolTypeOK, Return, GoTo, Call, OthersStay
<1>2. proc'[p].at \in {"idle", "reserve", "check", "claim", "look", "prepare",
                       "apply", "record", "confirm"}
  BY DEF SpoolTypeOK, Return, GoTo, Call, Idle, Calls
<1> QED BY <1>1, <1>2 DEF Writing, CallRelies, At

\* Before takes names of the spool only.
LEMMA BeforeNames ==
    /\ Before["reserved"] = {} /\ Before["claimed"] = {} /\ Before["materialized"] = {}
    /\ Before["envelope"] = {"reserved"}
    /\ Before["patch"] = {"reserved", "envelope"}
    /\ Before["manifest"] = {"reserved", "envelope", "patch"}
    /\ Before["sealed"] = {"reserved", "envelope", "patch", "manifest"}
    /\ \A n \in Names : Before[n] \subseteq SpoolNames
BY DEF Before, Names, SpoolNames, StateNames

\* A step that writes no file keeps the order, if what p relies on holds.
LEMMA QuietStep ==
    ASSUME SpoolInv, UNCHANGED files, tickets \subseteq tickets',
           \A t \in tickets' \ tickets : Settled(t[1], "reserved", t[2]),
           NEW p \in Processes, OthersStay(p), ~Writing(p)', CallRelies(p)'
    PROVE  SpoolOrder'
<1>1. FilesInOrder'
  BY DEF SpoolInv, SpoolOrder, FilesInOrder, Exists, Settled
<1>2. TicketsAreDecided'
  BY DEF SpoolInv, SpoolOrder, TicketsAreDecided, Settled
<1>3. CallsRely'
  <2>1. ASSUME NEW q \in Processes, q # p
        PROVE  CallRelies(q)'
    <3>1. proc'[q] = proc[q] /\ CallRelies(q)
      BY <2>1 DEF OthersStay, SpoolInv, SpoolOrder, CallsRely
    <3> QED BY <3>1 DEF CallRelies, At, Writing, Settled, MarkedFor, Legible
  <2> QED BY <2>1 DEF CallsRely
<1>4. OneWriter'
  BY DEF SpoolInv, SpoolOrder, OneWriter, OthersStay, Writing
<1> QED BY <1>1, <1>2, <1>3, <1>4 DEF SpoolOrder

\* A process at "create" after such a step.
LEMMA CreateRelies ==
    ASSUME SpoolTypeOK, NEW p \in Processes, ~At(p, "idle"), NEW n \in Names,
           GoWrite(p, n),
           \A m \in Before[n] : Settled(proc[p].id, m, proc[p].holds)'
    PROVE  OthersStay(p) /\ ~Writing(p)' /\ CallRelies(p)'
<1>1. OthersStay(p)
  BY DEF SpoolTypeOK, GoWrite, OthersStay
<1>2. /\ proc'[p].at = "create" /\ proc'[p].name = n
      /\ proc'[p].id = proc[p].id /\ proc'[p].holds = proc[p].holds
  BY LiveCalls DEF SpoolTypeOK, GoWrite, Calls
<1> QED BY <1>1, <1>2 DEF Writing, CallRelies, At, Settled

-------------------------------------------------------------------------------
(***************************************************************************)
(* The steps that write a file.                                            *)
(***************************************************************************)

\* Process p writes artifact n of id i for write w: it is missing or p's own,
\* what p relied on and what the others rely on is kept.
LEMMA WriteStep ==
    ASSUME SpoolInv, NEW p \in Processes, NEW i \in Ids, NEW n \in Names, NEW w \in Writes,
           proc[p].id = i, proc[p].name = n, proc[p].holds = w,
           At(p, "create") \/ Writing(p),
           ~Exists(i, n) \/ Writing(p),
           \A j \in Ids, m \in Names : ~(j = i /\ m = n) => files'[j][m] = files[j][m],
           files'[i][n].holds = w,
           Legible(i, n) => files'[i][n] = [files[i][n] EXCEPT !.state = "durable"],
           tickets \subseteq tickets',
           \A t \in tickets' \ tickets : Settled(t[1], "reserved", t[2])',
           OthersStay(p), CallRelies(p)',
           Writing(p)' => proc'[p].id = i /\ proc'[p].name = n
    PROVE  SpoolOrder'
<1>1. SpoolTypeOK /\ ~At(p, "idle")
  BY DEF SpoolInv, Writing, At
<1>2. \A m \in Before[n] : Settled(i, m, w)
  <2>1. CallRelies(p)
    BY DEF SpoolInv, SpoolOrder, CallsRely
  <2> QED BY <2>1 DEF CallRelies
<1>3. \A j \in Ids, m \in Names, v \in Writes : Settled(j, m, v) => Settled(j, m, v)'
  <2> SUFFICES ASSUME NEW j \in Ids, NEW m \in Names, NEW v \in Writes, Settled(j, m, v),
                      j = i, m = n
               PROVE  Settled(j, m, v)'
    BY DEF Settled
  <2>1. Legible(i, n) /\ files[i][n] \in Files
    BY <1>1 DEF Settled, Legible, SpoolTypeOK
  <2> QED BY <2>1 DEF Settled, Files
<1>4. \A j \in Ids, m \in Names, v \in Writes, c \in Checkouts \cup {NoCheckout} :
         MarkedFor(j, v, c) => MarkedFor(j, v, c)'
  <2> SUFFICES ASSUME NEW j \in Ids, NEW v \in Writes, NEW c \in Checkouts \cup {NoCheckout},
                      MarkedFor(j, v, c)
               PROVE  MarkedFor(j, v, c)'
    OBVIOUS
  <2>1. "materialized" \in Names
    BY DEF Names, StateNames
  <2>2. CASE j = i /\ n = "materialized"
    <3>1. Legible(i, n) /\ files[i][n] \in Files
      BY <1>1, <2>2 DEF MarkedFor, SpoolTypeOK
    <3> QED BY <2>2, <3>1 DEF MarkedFor, Legible, Files
  <2>3. CASE ~(j = i /\ n = "materialized")
    BY <2>1, <2>3 DEF MarkedFor, Legible
  <2> QED BY <2>2, <2>3
<1>5. FilesInOrder'
  <2> SUFFICES ASSUME NEW j \in Ids, NEW m \in Names, files'[j][m].state # "absent"
               PROVE  /\ files'[j][m].holds \in Writes
                      /\ \A k \in Before[m] : /\ files'[j][k].state = "durable"
                                               /\ files'[j][k].holds = files'[j][m].holds
    BY DEF FilesInOrder, Exists, Settled
  <2>1. Before[m] \subseteq Names
    BY BeforeNames DEF Names
  <2>2. PICK v \in Writes : files'[j][m].holds = v /\ \A k \in Before[m] : Settled(j, k, v)
    <3>1. CASE j = i /\ m = n
      BY <1>2, <3>1
    <3>2. CASE ~(j = i /\ m = n)
      BY <3>2 DEF SpoolInv, SpoolOrder, FilesInOrder, Exists
    <3> QED BY <3>1, <3>2
  <2>3. \A k \in Before[m] : Settled(j, k, v)'
    BY <1>3, <2>1, <2>2
  <2> QED BY <2>2, <2>3 DEF Settled
<1>6. TicketsAreDecided'
  <2>1. ASSUME NEW t \in tickets
        PROVE  Settled(t[1], "reserved", t[2])'
    <3>1. t[1] \in Ids /\ t[2] \in Writes /\ "reserved" \in Names
      BY <1>1 DEF SpoolTypeOK, Names, SpoolNames
    <3> QED BY <1>3, <3>1 DEF SpoolInv, SpoolOrder, TicketsAreDecided
  <2> QED BY <2>1 DEF TicketsAreDecided
<1>7. ASSUME NEW q \in Processes, q # p
      PROVE  CallRelies(q)' /\ ~(Writing(q) /\ proc[q].id = i /\ proc[q].name = n)
  <2>1. CallRelies(q) /\ proc'[q] = proc[q]
    BY <1>7 DEF SpoolInv, SpoolOrder, CallsRely, OthersStay
  <2>2. CASE At(q, "idle")
    BY <2>1, <2>2 DEF CallRelies, At, Writing
  <2>3. CASE ~At(q, "idle")
    <3>1. PICK j \in Ids, m \in Names, v \in Writes, c \in Checkouts \cup {NoCheckout} :
             proc[q].id = j /\ proc[q].name = m /\ proc[q].holds = v /\ proc[q].checkout = c
      BY <1>1, <2>3, LiveCalls
    <3>2. ~(Writing(q) /\ j = i /\ m = n)
      <4>1. SUFFICES ASSUME Writing(q), j = i, m = n  PROVE FALSE
        OBVIOUS
      <4>2. Exists(i, n)
        BY <2>1, <3>1, <4>1 DEF CallRelies, Writing, At, Exists
      <4> QED BY <1>7, <3>1, <4>1, <4>2 DEF SpoolInv, SpoolOrder, OneWriter
    <3>3. Writing(q) => files'[j][m] = files[j][m]
      BY <3>2
    <3>4. \A k \in Before[m] : Settled(j, k, v) => Settled(j, k, v)'
      BY <1>3, BeforeNames DEF Names
    <3>5. MarkedFor(j, v, c) => MarkedFor(j, v, c)'
      BY <1>4
    <3>6. CallRelies(q)'
      BY <2>1, <3>1, <3>3, <3>4, <3>5 DEF CallRelies, At, Writing
    <3> QED BY <3>1, <3>2, <3>6
  <2> QED BY <2>2, <2>3
<1>8. CallsRely'
  BY <1>7 DEF CallsRely
<1>9. OneWriter'
  BY <1>7 DEF SpoolInv, SpoolOrder, OneWriter, OthersStay, Writing
<1> QED BY <1>5, <1>6, <1>8, <1>9 DEF SpoolOrder

LEMMA CreateStep ==
    ASSUME SpoolInv, NEW p \in Processes, Create(p)
    PROVE  SpoolOrder'
<1>1. SpoolTypeOK /\ At(p, "create") /\ ~At(p, "idle")
  BY DEF SpoolInv, Create, At
<1>2. PICK i \in Ids, n \in Names, w \in Writes :
         proc[p].id = i /\ proc[p].name = n /\ proc[p].holds = w
  BY <1>1, LiveCalls
<1>3. CASE Exists(i, n)
  BY <1>1, <1>2, <1>3, PlainMoves, QuietStep DEF Create
<1>4. CASE ~Exists(i, n)
  <2>1. files'[i][n] = [state |-> "torn", holds |-> w,
                        checkout |-> IF n = "materialized"
                                     THEN proc[p].checkout ELSE NoCheckout]
    BY <1>1, <1>2, <1>4 DEF Create, SpoolTypeOK
  <2>2. \A j \in Ids, m \in Names : ~(j = i /\ m = n) => files'[j][m] = files[j][m]
    BY <1>1, <1>2, <1>4 DEF Create, SpoolTypeOK
  <2>3. GoTo(p, "fill") /\ tickets' = tickets
    BY <1>2, <1>4 DEF Create
  <2>4. /\ proc'[p].at = "fill" /\ proc'[p].id = i /\ proc'[p].name = n
        /\ proc'[p].holds = w /\ OthersStay(p)
    BY <1>1, <1>2, <2>3, LiveCalls DEF GoTo, Calls, OthersStay, SpoolTypeOK
  <2>5. \A m \in Before[n] : Settled(i, m, w)'
    <3>1. CallRelies(p)
      BY DEF SpoolInv, SpoolOrder, CallsRely
    <3>2. \A m \in Before[n] : Settled(i, m, w) /\ m # n
      BY <1>1, <1>2, <1>4, <3>1 DEF CallRelies, Settled, Exists
    <3> QED BY <2>2, <3>2, BeforeNames DEF Names, Settled
  <2>6. CallRelies(p)'
    BY <2>1, <2>4, <2>5 DEF CallRelies, At, Writing
  <2>7. ~Legible(i, n) /\ files'[i][n].holds = w
    BY <1>4, <2>1 DEF Legible, Exists
  <2> QED BY <1>1, <1>2, <1>4, <2>2, <2>3, <2>4, <2>6, <2>7, WriteStep
<1> QED BY <1>3, <1>4

LEMMA FillStep ==
    ASSUME SpoolInv, NEW p \in Processes, Fill(p)
    PROVE  SpoolOrder'
<1>1. SpoolTypeOK /\ At(p, "fill") /\ ~At(p, "idle") /\ Writing(p)
  BY DEF SpoolInv, Fill, At, Writing
<1>2. PICK i \in Ids, n \in Names, w \in Writes :
         proc[p].id = i /\ proc[p].name = n /\ proc[p].holds = w
  BY <1>1, LiveCalls
<1>3. CallRelies(p)
  BY DEF SpoolInv, SpoolOrder, CallsRely
<1>4. files[i][n].state = "torn" /\ files[i][n].holds = w
  BY <1>1, <1>2, <1>3 DEF CallRelies
<1>5. files'[i][n].state = "whole" /\ files'[i][n].holds = w
  <2>1. files[i][n] \in Files
    BY <1>1 DEF SpoolTypeOK
  <2>2. files'[i][n] = [files[i][n] EXCEPT !.state = "whole"]
    BY <1>1, <1>2 DEF Fill, SpoolTypeOK
  <2> QED BY <1>4, <2>1, <2>2 DEF Files
<1>6. \A j \in Ids, m \in Names : ~(j = i /\ m = n) => files'[j][m] = files[j][m]
  BY <1>1, <1>2 DEF Fill, SpoolTypeOK
<1>7. GoTo(p, "sync") /\ tickets' = tickets
  BY DEF Fill
<1>8. /\ proc'[p].at = "sync" /\ proc'[p].id = i /\ proc'[p].name = n
      /\ proc'[p].holds = w /\ OthersStay(p)
  BY <1>1, <1>2, <1>7, LiveCalls DEF GoTo, Calls, OthersStay, SpoolTypeOK
<1>9. \A m \in Before[n] : Settled(i, m, w)'
  <2>1. \A m \in Before[n] : Settled(i, m, w) /\ m # n
    BY <1>1, <1>2, <1>3, <1>4 DEF CallRelies, Settled
  <2> QED BY <1>6, <2>1, BeforeNames DEF Names, Settled
<1>10. CallRelies(p)'
  BY <1>5, <1>8, <1>9 DEF CallRelies, At, Writing
<1> QED BY <1>1, <1>2, <1>4, <1>5, <1>6, <1>7, <1>8, <1>10, WriteStep DEF Legible

\* The artifact after n comes after n and after all that n comes after.
LEMMA FollowingNext ==
    \A n \in {"envelope", "patch", "manifest"} :
        Following(n) \in Names /\ Before[Following(n)] = Before[n] \cup {n}
BY BeforeNames DEF Following, Names, SpoolNames

LEMMA SyncStep ==
    ASSUME SpoolInv, NEW p \in Processes, Sync(p)
    PROVE  SpoolOrder'
<1>1. SpoolTypeOK /\ At(p, "sync") /\ ~At(p, "idle") /\ Writing(p)
  BY DEF SpoolInv, Sync, At, Writing
<1>2. PICK i \in Ids, n \in Names, w \in Writes :
         proc[p].id = i /\ proc[p].name = n /\ proc[p].holds = w
  BY <1>1, LiveCalls
<1>3. CallRelies(p)
  BY DEF SpoolInv, SpoolOrder, CallsRely
<1>4. files[i][n].state = "whole" /\ files[i][n].holds = w
  BY <1>1, <1>2, <1>3 DEF CallRelies
<1>5. files'[i][n] = [files[i][n] EXCEPT !.state = "durable"]
  BY <1>1, <1>2 DEF Sync, SpoolTypeOK
<1>6. Settled(i, n, w)'
  <2>1. files[i][n] \in Files
    BY <1>1 DEF SpoolTypeOK
  <2> QED BY <1>4, <1>5, <2>1 DEF Files, Settled
<1>7. \A j \in Ids, m \in Names : ~(j = i /\ m = n) => files'[j][m] = files[j][m]
  BY <1>1, <1>2 DEF Sync, SpoolTypeOK
<1>8. \A m \in Before[n] \cup {n} : Settled(i, m, w)'
  <2>1. \A m \in Before[n] : Settled(i, m, w) /\ m # n
    BY <1>1, <1>2, <1>3, <1>4 DEF CallRelies, Settled
  <2> QED BY <1>6, <1>7, <2>1, BeforeNames DEF Names, Settled
<1>9. tickets' = IF n = "reserved" THEN tickets \cup {<<i, w>>} ELSE tickets
  BY <1>2 DEF Sync
<1>10. OthersStay(p) /\ ~Writing(p)' /\ CallRelies(p)'
  <2>1. CASE n \in {"envelope", "patch", "manifest"}
    <3>1. GoWrite(p, Following(n))
      BY <1>2, <2>1 DEF Sync, AfterSync
    <3>2. \A m \in Before[Following(n)] : Settled(proc[p].id, m, proc[p].holds)'
      <4>1. proc'[p].id = i /\ proc'[p].holds = w
        BY <1>1, <1>2, <3>1, LiveCalls DEF GoWrite, SpoolTypeOK, Calls
      <4> QED BY <1>8, <2>1, <4>1, FollowingNext
    <3> QED BY <1>1, <2>1, <3>1, <3>2, CreateRelies, FollowingNext
  <2>2. CASE n \in {"sealed", "claimed", "materialized"}
    <3>1. GoTo(p, "check") \/ GoTo(p, "look") \/ GoTo(p, "confirm")
      BY <1>2, <2>2 DEF Sync, AfterSync
    <3> QED BY <1>1, <3>1, PlainMoves
  <2>3. CASE n = "reserved"
    <3>1. GoTo(p, "seal")
      BY <1>2, <2>3 DEF Sync, AfterSync
    <3>2. /\ proc'[p].at = "seal" /\ proc'[p].id = i
          /\ proc'[p].holds = w /\ OthersStay(p)
      BY <1>1, <1>2, <3>1, LiveCalls DEF GoTo, Calls, OthersStay, SpoolTypeOK
    <3> QED BY <1>9, <2>3, <3>2 DEF CallRelies, At, Writing
  <2> QED BY <2>1, <2>2, <2>3 DEF Names, SpoolNames, StateNames
<1>11. \A t \in tickets' \ tickets : Settled(t[1], "reserved", t[2])'
  BY <1>6, <1>9
<1>12. files'[i][n].holds = w
  BY <1>6 DEF Settled
<1>13. tickets \subseteq tickets'
  BY <1>9
<1>14. /\ At(p, "create") \/ Writing(p)
       /\ ~Exists(i, n) \/ Writing(p)
       /\ Legible(i, n) => files'[i][n] = [files[i][n] EXCEPT !.state = "durable"]
       /\ Writing(p)' => proc'[p].id = i /\ proc'[p].name = n
       /\ OthersStay(p) /\ CallRelies(p)'
  BY <1>1, <1>5, <1>10
<1> QED BY <1>2, <1>7, <1>11, <1>12, <1>13, <1>14, WriteStep

\* A reboot leaves no call, and what was durable is.
LEMMA RebootStep ==
    ASSUME SpoolInv, PowerFailure
    PROVE  SpoolOrder'
<1>1. SpoolTypeOK
  BY DEF SpoolInv
<1>2. /\ \A p \in Processes : proc'[p] = Idle
      /\ tickets' = tickets
  BY DEF PowerFailure
<1>3. \A i \in Ids, n \in Names, w \in Writes : Settled(i, n, w) => Settled(i, n, w)'
  <2> SUFFICES ASSUME NEW i \in Ids, NEW n \in Names, NEW w \in Writes, Settled(i, n, w)
               PROVE  Settled(i, n, w)'
    OBVIOUS
  <2>1. files[i][n].state \notin {"torn", "whole"}
    BY DEF Settled
  <2>2. files'[i][n] = files[i][n]
    BY <1>1, <2>1, RebootWrites
  <2> QED BY <2>2 DEF Settled
<1>4. FilesInOrder'
  <2> SUFFICES ASSUME NEW i \in Ids, NEW n \in Names, files'[i][n].state # "absent"
               PROVE  /\ files'[i][n].holds \in Writes
                      /\ \A m \in Before[n] : /\ files'[i][m].state = "durable"
                                               /\ files'[i][m].holds = files'[i][n].holds
    BY DEF FilesInOrder, Exists, Settled
  <2>1. files[i][n] \in Files
    BY <1>1 DEF SpoolTypeOK
  <2>2. \/ files'[i][n] = files[i][n]
        \/ /\ files[i][n].state \in {"torn", "whole"}
           /\ \E s \in {"scrap", "durable"} :
                 files'[i][n] = [files[i][n] EXCEPT !.state = s]
    BY <1>1, RebootWrites DEF NoFile
  <2>3. Exists(i, n) /\ files'[i][n].holds = files[i][n].holds
    BY <2>1, <2>2 DEF Exists, Files
  <2>4. PICK w \in Writes : files[i][n].holds = w /\ \A m \in Before[n] : Settled(i, m, w)
    BY <2>3 DEF SpoolInv, SpoolOrder, FilesInOrder
  <2>5. \A m \in Before[n] : Settled(i, m, w)'
    BY <1>3, <2>4, BeforeNames DEF Names
  <2> QED BY <2>3, <2>4, <2>5 DEF Settled
<1>5. TicketsAreDecided'
  <2>1. ASSUME NEW t \in tickets
        PROVE  Settled(t[1], "reserved", t[2])'
    <3>1. t[1] \in Ids /\ t[2] \in Writes /\ "reserved" \in Names
      BY <1>1 DEF SpoolTypeOK, Names, SpoolNames
    <3> QED BY <1>3, <3>1 DEF SpoolInv, SpoolOrder, TicketsAreDecided
  <2> QED BY <1>2, <2>1 DEF TicketsAreDecided
<1>6. CallsRely' /\ OneWriter'
  BY <1>2 DEF CallsRely, CallRelies, OneWriter, Writing, At, Idle
<1> QED BY <1>4, <1>5, <1>6 DEF SpoolOrder

\* The steps that write no file.
LEMMA PlainStep ==
    ASSUME SpoolInv, NEW p \in Processes, UNCHANGED <<files, tickets>>,
           \/ Return(p)
           \/ \E step \in {"reserve", "check", "claim", "look", "prepare",
                           "apply", "record", "confirm"} :
                 GoTo(p, step) \/ \E i \in Ids, w \in Writes : Call(p, step, i, w)
    PROVE  SpoolOrder'
<1>1. SpoolTypeOK
  BY DEF SpoolInv
<1>2. OthersStay(p) /\ ~Writing(p)' /\ CallRelies(p)'
  BY <1>1, PlainMoves
<1> QED BY <1>2, QuietStep

\* To "seal" with a ticket.
LEMMA SealRelies ==
    ASSUME SpoolTypeOK, NEW p \in Processes, NEW i \in Ids, NEW w \in Writes,
           \/ Call(p, "seal", i, w)
           \/ ~At(p, "idle") /\ proc[p].id = i /\ proc[p].holds = w /\ GoTo(p, "seal"),
           <<i, w>> \in tickets'
    PROVE  OthersStay(p) /\ ~Writing(p)' /\ CallRelies(p)'
<1>1. OthersStay(p)
  BY DEF SpoolTypeOK, Call, GoTo, OthersStay
<1>2. proc'[p].at = "seal" /\ proc'[p].id = i /\ proc'[p].holds = w
  BY LiveCalls DEF SpoolTypeOK, Call, GoTo, Calls
<1> QED BY <1>1, <1>2 DEF Writing, CallRelies, At

\* To "holding" with the marker of the checkout.
LEMMA HoldRelies ==
    ASSUME SpoolTypeOK, NEW p \in Processes, ~At(p, "idle"), UNCHANGED files,
           GoTo(p, "holding"), MarkedFor(proc[p].id, proc[p].holds, proc[p].checkout)
    PROVE  OthersStay(p) /\ ~Writing(p)' /\ CallRelies(p)'
<1>1. OthersStay(p)
  BY DEF SpoolTypeOK, GoTo, OthersStay
<1>2. /\ proc'[p].at = "holding" /\ proc'[p].id = proc[p].id
      /\ proc'[p].holds = proc[p].holds /\ proc'[p].checkout = proc[p].checkout
  BY LiveCalls DEF SpoolTypeOK, GoTo, Calls
<1> QED BY <1>1, <1>2 DEF Writing, CallRelies, At, MarkedFor, Legible

\* A readable record has a durable reservation.
LEMMA ReadableIsDecided ==
    ASSUME SpoolInv, NEW i \in Ids, NEW w \in Writes, Readable(i, w)
    PROVE  Settled(i, "reserved", w)
<1>1. "sealed" \in Names /\ Exists(i, "sealed") /\ files[i]["sealed"].holds = w
  BY DEF Readable, Legible, Exists, SpoolNames, Names
<1> QED BY <1>1, BeforeNames DEF SpoolInv, SpoolOrder, FilesInOrder

LEMMA ControlOrder ==
    ASSUME SpoolInv, NEW p \in Controls, ControlStep(p)
    PROVE  SpoolOrder'
<1>1. SpoolTypeOK /\ p \in Processes /\ CallRelies(p)
  BY DEF SpoolInv, Processes, SpoolOrder, CallsRely
<1>2. ASSUME NEW i \in Ids, NEW w \in Writes, StartPut(p, i, w)
      PROVE  SpoolOrder'
  BY <1>1, <1>2, PlainStep DEF StartPut
<1>3. ASSUME NEW i \in Ids, NEW w \in Writes, StartSeal(p, i, w)
      PROVE  SpoolOrder'
  <2>1. OthersStay(p) /\ ~Writing(p)' /\ CallRelies(p)'
    BY <1>1, <1>3, SealRelies DEF StartSeal
  <2> QED BY <1>1, <1>3, <2>1, QuietStep DEF StartSeal
<1>4. CASE Reserve(p)
  <2>1. ~At(p, "idle") /\ UNCHANGED files
    BY <1>4 DEF Reserve, At
  <2>2. PICK i \in Ids, w \in Writes : proc[p].id = i /\ proc[p].holds = w
    BY <1>1, <2>1, LiveCalls
  <2>3. CASE Readable(i, w) /\ tickets' = tickets \cup {<<i, w>>} /\ GoTo(p, "seal")
    <3>1. Settled(i, "reserved", w)
      BY <2>3, ReadableIsDecided
    <3>2. OthersStay(p) /\ ~Writing(p)' /\ CallRelies(p)'
      BY <1>1, <2>1, <2>2, <2>3, SealRelies
    <3>3. \A t \in tickets' \ tickets : Settled(t[1], "reserved", t[2])
      BY <2>3, <3>1
    <3> QED BY <1>1, <2>1, <2>3, <3>2, <3>3, QuietStep
  <2>4. CASE Return(p) /\ UNCHANGED tickets
    BY <1>1, <2>1, <2>4, PlainStep
  <2>5. CASE GoWrite(p, "reserved") /\ UNCHANGED tickets
    <3>1. OthersStay(p) /\ ~Writing(p)' /\ CallRelies(p)'
      BY <1>1, <2>1, <2>5, CreateRelies, BeforeNames DEF Names, SpoolNames
    <3> QED BY <1>1, <2>1, <2>5, <3>1, QuietStep
  <2> QED BY <1>4, <2>2, <2>3, <2>4, <2>5 DEF Reserve
<1>5. CASE Seal(p)
  <2>1. ~At(p, "idle") /\ At(p, "seal") /\ UNCHANGED <<files, tickets>>
    BY <1>5 DEF Seal, At
  <2>2. CASE Return(p)
    BY <1>1, <2>1, <2>2, PlainStep
  <2>3. CASE GoWrite(p, "envelope")
    <3>1. Settled(proc[p].id, "reserved", proc[p].holds)
      <4>1. <<proc[p].id, proc[p].holds>> \in tickets
        BY <1>1, <2>1 DEF CallRelies
      <4> QED BY <4>1 DEF SpoolInv, SpoolOrder, TicketsAreDecided
    <3>2. proc'[p].id = proc[p].id /\ proc'[p].holds = proc[p].holds
      BY <1>1, <2>1, <2>3, LiveCalls DEF GoWrite, SpoolTypeOK, Calls
    <3>3. Settled(proc[p].id, "reserved", proc[p].holds)'
      BY <2>1, <3>1, <3>2 DEF Settled
    <3>4. OthersStay(p) /\ ~Writing(p)' /\ CallRelies(p)'
      BY <1>1, <2>1, <2>3, <3>3, CreateRelies, BeforeNames DEF Names, SpoolNames
    <3> QED BY <1>1, <2>1, <3>4, QuietStep
  <2> QED BY <1>5, <2>2, <2>3 DEF Seal
<1>6. CASE Check(p)
  BY <1>1, <1>6, PlainStep DEF Check
<1> QED BY <1>2, <1>3, <1>4, <1>5, <1>6 DEF ControlStep

LEMMA PublisherOrder ==
    ASSUME SpoolInv, NEW p \in Publishers, PublisherStep(p)
    PROVE  SpoolOrder'
<1>1. SpoolTypeOK /\ p \in Processes /\ CallRelies(p)
  BY DEF SpoolInv, Processes, SpoolOrder, CallsRely
<1>2. UNCHANGED <<files, tickets>>
  BY DEF PublisherStep, StartRematerialize, Claim, Look, Reuse, Prepare, Apply, Record, Confirm
<1>3. ASSUME NEW i \in Ids, NEW w \in Writes, StartRematerialize(p, i, w)
      PROVE  SpoolOrder'
  BY <1>1, <1>2, <1>3, PlainStep DEF StartRematerialize
<1>4. CASE Return(p) \/ GoTo(p, "look") \/ GoTo(p, "prepare") \/ GoTo(p, "record")
             \/ GoTo(p, "confirm")
  BY <1>1, <1>2, <1>4, PlainStep
<1>5. ASSUME NEW n \in StateNames, ~At(p, "idle"), GoWrite(p, n)
      PROVE  SpoolOrder'
  <2>1. n \in Names /\ Before[n] = {}
    BY BeforeNames DEF Names, StateNames
  <2>2. OthersStay(p) /\ ~Writing(p)' /\ CallRelies(p)'
    BY <1>1, <1>5, <2>1, CreateRelies
  <2> QED BY <1>1, <1>2, <2>2, QuietStep
<1>6. ASSUME ~At(p, "idle"), GoTo(p, "holding"),
             MarkedFor(proc[p].id, proc[p].holds, proc[p].checkout)
      PROVE  SpoolOrder'
  <2>1. OthersStay(p) /\ ~Writing(p)' /\ CallRelies(p)'
    BY <1>1, <1>2, <1>6, HoldRelies
  <2> QED BY <1>1, <1>2, <2>1, QuietStep
<1>7. CASE Look(p)
  <2>1. ASSUME NEW c \in Checkouts, MarkedFor(proc[p].id, proc[p].holds, c),
               proc' = [proc EXCEPT ![p].at = "reuse", ![p].checkout = c]
        PROVE  SpoolOrder'
    <3>1. OthersStay(p)
      BY <1>1, <2>1 DEF OthersStay, SpoolTypeOK
    <3>2. /\ proc'[p].at = "reuse" /\ proc'[p].id = proc[p].id
          /\ proc'[p].holds = proc[p].holds /\ proc'[p].checkout = c
      BY <1>1, <1>7, <2>1, LiveCalls DEF Look, At, SpoolTypeOK, Calls
    <3>3. ~Writing(p)' /\ CallRelies(p)'
      BY <1>2, <2>1, <3>2 DEF Writing, CallRelies, At, MarkedFor, Legible
    <3> QED BY <1>1, <1>2, <3>1, <3>3, QuietStep
  <2> QED BY <1>4, <1>7, <2>1 DEF Look
<1>8. CASE Reuse(p)
  BY <1>1, <1>4, <1>6, <1>8 DEF Reuse, At, CallRelies
<1>9. ASSUME NEW c \in Checkouts, Prepare(p, c)
      PROVE  SpoolOrder'
  <2>1. CASE proc' = [proc EXCEPT ![p].at = "apply", ![p].checkout = c]
    <3>1. OthersStay(p)
      BY <1>1, <2>1 DEF OthersStay, SpoolTypeOK
    <3>2. proc'[p].at = "apply"
      BY <1>1, <1>9, <2>1, LiveCalls DEF Prepare, At, SpoolTypeOK, Calls
    <3>3. ~Writing(p)' /\ CallRelies(p)'
      BY <3>2 DEF Writing, CallRelies, At
    <3> QED BY <1>1, <1>2, <3>1, <3>3, QuietStep
  <2> QED BY <1>4, <1>9, <2>1 DEF Prepare
<1>10. CASE Claim(p)
  BY <1>4, <1>5, <1>10 DEF Claim, At, StateNames
<1>11. CASE Apply(p)
  BY <1>4, <1>11 DEF Apply
<1>12. CASE Record(p)
  BY <1>4, <1>5, <1>12 DEF Record, At, StateNames
<1>13. CASE Confirm(p)
  BY <1>4, <1>6, <1>13 DEF Confirm, At
<1> QED BY <1>3, <1>7, <1>8, <1>9, <1>10, <1>11, <1>12, <1>13 DEF PublisherStep

LEMMA OrderOfStep ==
    ASSUME SpoolInv, [Next]_vars
    PROVE  SpoolOrder'
<1>1. ASSUME NEW p \in Processes, Stop(p)
      PROVE  SpoolOrder'
  BY <1>1, PlainStep DEF Stop
<1>2. CASE UNCHANGED <<files, proc, tickets>>
  BY <1>2 DEF SpoolInv, SpoolOrder, FilesInOrder, Exists, Settled, TicketsAreDecided,
              CallsRely, CallRelies, OneWriter, Writing, At, MarkedFor, Legible
<1>3. ASSUME NEW c \in Checkouts, LoseCheckout(c)
      PROVE  SpoolOrder'
  BY <1>2, <1>3 DEF LoseCheckout
<1> QED BY <1>1, <1>2, <1>3, ControlOrder, PublisherOrder, CreateStep, FillStep, SyncStep,
           RebootStep DEF Next, vars

-------------------------------------------------------------------------------
(***************************************************************************)
(* The invariant and what follows from it.                                 *)
(***************************************************************************)

\* O_EXCL, the order of the five artifacts and the syncs between them keep
\* the strengthening that the spool's safety rests on.
THEOREM SpoolKeepsOrder == Spec => []SpoolInv
<1>1. Init => SpoolInv
  <2> SUFFICES ASSUME Init  PROVE SpoolInv
    OBVIOUS
  <2>1. SpoolTypeOK
    BY DEF Init, SpoolTypeOK, NoFile, Files, FileStates, Trees
  <2>2. FilesInOrder
    BY DEF Init, FilesInOrder, Exists, NoFile
  <2>3. TicketsAreDecided
    BY DEF Init, TicketsAreDecided
  <2>4. CallsRely /\ OneWriter
    BY DEF Init, CallsRely, CallRelies, OneWriter, Writing, At, Idle
  <2> QED BY <2>1, <2>2, <2>3, <2>4 DEF SpoolInv, SpoolOrder
<1>2. SpoolInv /\ [Next]_vars => SpoolInv'
  BY TypeOfStep, OrderOfStep DEF SpoolInv
<1> QED BY <1>1, <1>2, PTL DEF Spec

\* "Commit marker written last": a legible marker stands for a complete
\* record of one write, after any crashes, reboots and races.
THEOREM MarkerMeansComplete == Spec => []SealedMeansComplete
<1>1. SpoolInv => SealedMeansComplete
  <2> SUFFICES ASSUME SpoolInv, NEW i \in Ids, Legible(i, "sealed")
               PROVE  \E w \in Writes : Readable(i, w)
    BY DEF SealedMeansComplete
  <2>1. "sealed" \in Names /\ Exists(i, "sealed")
    BY DEF Names, SpoolNames, Legible, Exists
  <2>2. PICK w \in Writes : /\ files[i]["sealed"].holds = w
                            /\ \A m \in Before["sealed"] : Settled(i, m, w)
    BY <2>1 DEF SpoolInv, SpoolOrder, FilesInOrder
  <2>3. Readable(i, w)
    BY <2>2, BeforeNames DEF Readable, SpoolNames, Settled, Legible
  <2> QED BY <2>3
<1> QED BY <1>1, SpoolKeepsOrder, PTL

\* Two publishers that hold a checkout of one id hold the same one.
THEOREM PublishersAgree == Spec => []HeldCheckoutsAgree
<1>1. SpoolInv => HeldCheckoutsAgree
  <2> SUFFICES ASSUME SpoolInv, NEW p \in Publishers, NEW q \in Publishers,
                      At(p, "holding"), At(q, "holding"), proc[p].id = proc[q].id
               PROVE  proc[p].checkout = proc[q].checkout /\ proc[p].holds = proc[q].holds
    BY DEF HeldCheckoutsAgree
  <2>1. CallRelies(p) /\ CallRelies(q)
    BY DEF SpoolInv, SpoolOrder, CallsRely, Processes
  <2> QED BY <2>1 DEF CallRelies, MarkedFor
<1> QED BY <1>1, SpoolKeepsOrder, PTL

-------------------------------------------------------------------------------
(***************************************************************************)
(* The spool implements the write-once register.                           *)
(***************************************************************************)

LEMMA DecidedWrites ==
    ASSUME SpoolInv, NEW i \in Ids
    PROVE  /\ Decided[i] \in Writes \cup {NoWrite}
           /\ \A w \in Writes : Decided[i] = w <=> Settled(i, "reserved", w)
<1>1. "reserved" \in Names
  BY DEF Names, SpoolNames
<1>2. CASE files[i]["reserved"].state = "durable"
  <2>1. files[i]["reserved"].holds \in Writes
    BY <1>1, <1>2 DEF SpoolInv, SpoolOrder, FilesInOrder, Exists
  <2> QED BY <1>2, <2>1 DEF Decided, Settled
<1>3. CASE files[i]["reserved"].state # "durable"
  BY <1>3, NullsAssumption DEF Decided, Settled
<1> QED BY <1>2, <1>3

\* What is handed out is decided.
LEMMA HandsDecided ==
    ASSUME SpoolInv, NEW i \in Ids, NEW w \in Writes, Readable(i, w), Hand(i, w),
           UNCHANGED files
    PROVE  Register!Next
<1>1. Decided[i] = w /\ w # NoWrite
  BY ReadableIsDecided, DecidedWrites, NullsAssumption
<1>2. UNCHANGED Decided
  BY DEF Decided
<1>3. Register!Give(i)
  BY <1>1, <1>2 DEF Register!Give, Hand
<1> QED BY <1>3 DEF Register!Next

\* A step that hands out nothing leaves every decision as it is.
LEMMA DecisionsStay ==
    ASSUME SpoolInv, SpoolInv', UNCHANGED given,
           \A i \in Ids, w \in Writes :
              Settled(i, "reserved", w) => Settled(i, "reserved", w)'
    PROVE  Register!Next
<1>1. "reserved" \in Names
  BY DEF Names, SpoolNames
<1>2. /\ Decided' = [i \in Ids |-> Decided'[i]]
      /\ \A i \in Ids : Decided'[i] = IF files'[i]["reserved"].state = "durable"
                                      THEN files'[i]["reserved"].holds ELSE NoWrite
  BY DEF Decided
<1>3. \A i \in Ids : Decided'[i] \in Writes \cup {NoWrite}
  <2>1. ASSUME NEW i \in Ids, files'[i]["reserved"].state = "durable"
        PROVE  files'[i]["reserved"].holds \in Writes
    BY <1>1, <2>1 DEF SpoolInv, SpoolOrder, FilesInOrder, Exists
  <2> QED BY <1>2, <2>1
<1>4. ASSUME NEW i \in Ids, Decided[i] # NoWrite
      PROVE  Decided'[i] = Decided[i]
  <2>1. PICK w \in Writes : Decided[i] = w
    BY <1>4, DecidedWrites
  <2>2. Settled(i, "reserved", w)
    BY <2>1, DecidedWrites
  <2>3. Settled(i, "reserved", w)'
    BY <2>2
  <2> QED BY <1>2, <2>1, <2>3 DEF Settled
<1>5. Decided' \in [Ids -> Writes \cup {NoWrite}]
  BY <1>2, <1>3
<1>6. Register!Decide
  BY <1>4, <1>5 DEF Register!Decide
<1> QED BY <1>6 DEF Register!Next

\* A durable reservation outlives every step.
LEMMA SettledStays ==
    ASSUME SpoolInv, [Next]_vars, NEW i \in Ids, NEW w \in Writes, Settled(i, "reserved", w)
    PROVE  Settled(i, "reserved", w)'
<1>1. SpoolTypeOK /\ "reserved" \in Names
  BY DEF SpoolInv, Names, SpoolNames
<1>2. CASE files'[i]["reserved"] = files[i]["reserved"]
  BY <1>2 DEF Settled
<1>3. ASSUME NEW p \in Processes, Create(p)
      PROVE  Settled(i, "reserved", w)'
  <2>1. CASE files' = files
    BY <1>2, <2>1
  <2>2. CASE files' # files
    BY <1>1, <1>2, <1>3, <2>2, CreateWrites DEF Settled, Exists
  <2> QED BY <2>1, <2>2
<1>4. ASSUME NEW p \in Processes, Fill(p) \/ Sync(p)
      PROVE  Settled(i, "reserved", w)'
  <2>1. ~At(p, "idle") /\ CallRelies(p) /\ Writing(p)
    BY <1>4 DEF Fill, Sync, At, Writing, SpoolInv, SpoolOrder, CallsRely
  <2>2. files[proc[p].id][proc[p].name].state # "durable"
    BY <1>4, <2>1 DEF CallRelies, Fill, Sync
  <2>3. PICK j \in Ids, n \in Names : j = proc[p].id /\ n = proc[p].name
    BY <1>1, <2>1, LiveCalls
  <2>4. PICK s \in FileStates : files' = [files EXCEPT ![j][n].state = s]
    BY <1>4, <2>3 DEF Fill, Sync, FileStates
  <2>5. ~(j = i /\ n = "reserved")
    BY <2>2, <2>3 DEF Settled
  <2>6. files'[i]["reserved"] = files[i]["reserved"]
    BY <1>1, <2>4, <2>5 DEF SpoolTypeOK
  <2> QED BY <1>2, <2>6
<1>5. CASE PowerFailure
  <2>1. files[i]["reserved"].state \notin {"torn", "whole"}
    BY DEF Settled
  <2> QED BY <1>1, <1>2, <1>5, <2>1, RebootWrites
<1>6. CASE files' = files
  BY <1>2, <1>6
<1> QED BY <1>3, <1>4, <1>5, <1>6
        DEF Next, ControlStep, PublisherStep, StartPut, StartSeal, Reserve, Seal, Check,
            StartRematerialize, Claim, Look, Reuse, Prepare, Apply, Record, Confirm, Stop,
            LoseCheckout, vars

LEMMA RegisterStep ==
    ASSUME SpoolInv, SpoolInv', [Next]_vars
    PROVE  [Register!Next]_<<Decided, given>>
<1>1. \A i \in Ids, w \in Writes : Settled(i, "reserved", w) => Settled(i, "reserved", w)'
  BY SettledStays
<1>2. CASE UNCHANGED given
  BY <1>1, <1>2, DecisionsStay
<1>3. ASSUME NEW p \in Controls, Seal(p) \/ Check(p), given' # given
      PROVE  Register!Next
  <2>1. ~At(p, "idle") /\ UNCHANGED files /\ p \in Processes /\ SpoolTypeOK
    BY <1>3 DEF Seal, Check, At, Processes, SpoolInv
  <2>2. Readable(proc[p].id, proc[p].holds) /\ Hand(proc[p].id, proc[p].holds)
    BY <1>3 DEF Seal, Check
  <2>3. proc[p].id \in Ids /\ proc[p].holds \in Writes
    BY <2>1, LiveCalls
  <2> QED BY <2>1, <2>2, <2>3, HandsDecided
<1>4. ASSUME NEW p \in Publishers, NEW i \in Ids, NEW w \in Writes, StartRematerialize(p, i, w)
      PROVE  Register!Next
  BY <1>4, HandsDecided DEF StartRematerialize
<1> QED BY <1>2, <1>3, <1>4
        DEF Next, ControlStep, PublisherStep, StartPut, StartSeal, Reserve, Claim, Look,
            Reuse, Prepare, Apply, Record, Confirm, Create, Fill, Sync, Stop, PowerFailure,
            LoseCheckout, vars

\* The spool implements a write-once register per id: nobody is handed a
\* record other than the decided one, across crashes and power failures.
THEOREM SpoolDecidesOnce == Spec => DecidesOnce
<1>1. Init => Register!Init
  BY DEF Init, Register!Init, Decided, NoFile, Names, SpoolNames
<1>2. SpoolInv /\ SpoolInv' /\ [Next]_vars => [Register!Next]_<<Decided, given>>
  BY RegisterStep
<1> QED BY <1>1, <1>2, SpoolKeepsOrder, PTL DEF Spec, DecidesOnce, Register!Spec
================================================================================
