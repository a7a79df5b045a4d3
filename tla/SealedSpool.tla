---------------------------- MODULE SealedSpool ----------------------------
(***************************************************************************)
(* The candidate spool of the daily maintainer and the publisher's state   *)
(* store (spool.py): control processes reserve a spool id and seal one     *)
(* write under it as five append-only files, the commit marker "sealed"    *)
(* last; publisher processes read the record, claim it, rebuild a checkout *)
(* from it and record that checkout in two files of their own.             *)
(*                                                                         *)
(* There is no lock.  What the protocol has is O_EXCL, fsync and reading   *)
(* back, against callers that race, exceptions or kills between any two    *)
(* steps, and power failures that lose what was not yet synced.            *)
(***************************************************************************)
EXTENDS Naturals

CONSTANTS
    Ids,          \* spool ids
    Writes,       \* SpoolWrite values: subject, envelope and patch bundle
    Controls,     \* processes of the control user (ImmutableFileSpool)
    Publishers,   \* processes of the publisher user (PublisherRematerializer)
    Checkouts,    \* checkouts the port can prepare, told apart by inode
    NoWrite, NoCheckout

ASSUME NullsAssumption == NoWrite \notin Writes /\ NoCheckout \notin Checkouts

VARIABLES
    files,      \* the artifacts of every id
    proc,       \* where each process is in its call
    tickets,    \* SpoolReservations handed out: <<id, write>>
    given,      \* records handed out: <<id, write>>
    tree        \* the checkouts' content

vars == <<files, proc, tickets, given, tree>>

Processes == Controls \cup Publishers
SpoolNames == {"reserved", "envelope", "patch", "manifest", "sealed"}
StateNames == {"claimed", "materialized"}
Names == SpoolNames \cup StateNames

(***************************************************************************)
(* A file is absent, torn (created, its mode not yet set: every reader     *)
(* refuses it), whole (readable, not yet synced), durable, or scrap (torn  *)
(* and found again after a power failure).                                 *)
(***************************************************************************)
FileStates == {"absent", "torn", "whole", "durable", "scrap"}
Files == [state : FileStates, holds : Writes \cup {NoWrite},
          checkout : Checkouts \cup {NoCheckout}]
NoFile == [state |-> "absent", holds |-> NoWrite, checkout |-> NoCheckout]

Exists(i, n) == files[i][n].state # "absent"
Legible(i, n) == files[i][n].state \in {"whole", "durable"}

\* ImmutableFileSpool.read succeeds and returns the record of write w.  The
\* files of a sealed id do not change under a reader, so one look is enough.
Readable(i, w) ==
    \A n \in SpoolNames : Legible(i, n) /\ files[i][n].holds = w

\* PublisherStateStore: the claim names this record.
ClaimedFor(i, w) == Legible(i, "claimed") /\ files[i]["claimed"].holds = w

\* Faulty: the marker's checkout identity is not compared.
MarkedForAny(i, w, c) ==
    Legible(i, "materialized") /\ files[i]["materialized"].holds = w

\* ... and the materialization marker names this checkout of it.
MarkedFor(i, w, c) ==
    /\ Legible(i, "materialized")
    /\ files[i]["materialized"].holds = w
    /\ files[i]["materialized"].checkout = c

Base == "base"
Lost == "lost"
Trees == Writes \cup {NoWrite, Base, Lost}

(***************************************************************************)
(* Processes.  A call in flight knows its id and write, the artifact it is *)
(* writing and, for a publisher, the checkout it prepared or was given.    *)
(***************************************************************************)
ControlSteps == {"reserve", "seal", "create", "fill", "sync", "check"}
PublisherSteps == {"claim", "look", "reuse", "prepare", "apply", "record",
                   "create", "fill", "sync", "confirm", "holding"}
Calls == [at : ControlSteps \cup PublisherSteps, id : Ids, holds : Writes,
          name : Names, checkout : Checkouts \cup {NoCheckout}]
Idle == [at |-> "idle"]

At(p, step) == proc[p].at = step

Call(p, step, i, w) ==
    proc' = [proc EXCEPT ![p] = [at |-> step, id |-> i, holds |-> w,
                                 name |-> "reserved", checkout |-> NoCheckout]]
GoTo(p, step) == proc' = [proc EXCEPT ![p].at = step]
GoWrite(p, n) == proc' = [proc EXCEPT ![p].at = "create", ![p].name = n]
Return(p) == proc' = [proc EXCEPT ![p] = Idle]

Hand(i, w) == given' = given \cup {<<i, w>>}

Init ==
    /\ files = [i \in Ids |-> [n \in Names |-> NoFile]]
    /\ proc = [p \in Processes |-> Idle]
    /\ tickets = {}
    /\ given = {}
    /\ tree = [c \in Checkouts |-> NoWrite]

-----------------------------------------------------------------------------
(***************************************************************************)
(* Control: put is reserve followed by seal; a caller that holds a         *)
(* reservation may also seal it itself, at any time, and more than once.   *)
(***************************************************************************)
StartPut(p, i, w) ==
    /\ At(p, "idle")
    /\ Call(p, "reserve", i, w)
    /\ UNCHANGED <<files, tickets, given, tree>>

StartSeal(p, i, w) ==
    /\ At(p, "idle")
    /\ <<i, w>> \in tickets
    /\ Call(p, "seal", i, w)
    /\ UNCHANGED <<files, tickets, given, tree>>

\* An id that is sealed answers a replay of its own write; one that is
\* reserved or incomplete is burned.
Reserve(p) ==
    LET i == proc[p].id
        w == proc[p].holds
    IN  /\ At(p, "reserve")
        /\ \/ /\ Exists(i, "sealed") /\ Readable(i, w)
              /\ tickets' = tickets \cup {<<i, w>>}
              /\ GoTo(p, "seal")
           \/ /\ Exists(i, "sealed") /\ ~Readable(i, w)
              /\ Return(p)
              /\ UNCHANGED tickets
           \/ /\ ~Exists(i, "sealed")
              /\ IF \E n \in SpoolNames : Exists(i, n)
                 THEN Return(p)
                 ELSE GoWrite(p, "reserved")
              /\ UNCHANGED tickets
        /\ UNCHANGED <<files, given, tree>>

\* Nothing but a bare reservation of this very write may be completed.
MayComplete(i, w) ==
    /\ Legible(i, "reserved") /\ files[i]["reserved"].holds = w
    /\ \A n \in {"envelope", "patch", "manifest"} : ~Exists(i, n)

Seal(p) ==
    LET i == proc[p].id
        w == proc[p].holds
    IN  /\ At(p, "seal")
        /\ \/ /\ Exists(i, "sealed") /\ Readable(i, w)
              /\ Hand(i, w)
              /\ Return(p)
           \/ /\ Exists(i, "sealed") /\ ~Readable(i, w)
              /\ Return(p)
              /\ UNCHANGED given
           \/ /\ ~Exists(i, "sealed")
              /\ IF MayComplete(i, w) THEN GoWrite(p, "envelope") ELSE Return(p)
              /\ UNCHANGED given
        /\ UNCHANGED <<files, tickets, tree>>

\* The final read of seal.
Check(p) ==
    LET i == proc[p].id
        w == proc[p].holds
    IN  /\ At(p, "check")
        /\ IF Readable(i, w) THEN Hand(i, w) ELSE UNCHANGED given
        /\ Return(p)
        /\ UNCHANGED <<files, tickets, tree>>

-----------------------------------------------------------------------------
(***************************************************************************)
(* _write_exclusive, shared by both stores: O_CREAT | O_EXCL; content,     *)
(* owner and mode; fsync of the file and of the directory.                 *)
(***************************************************************************)

\* Faulty: opened without O_EXCL.
CreateOver(p) ==
    /\ At(p, "create")
    /\ files' = [files EXCEPT ![proc[p].id][proc[p].name] =
                    [state |-> "torn", holds |-> proc[p].holds,
                     checkout |-> IF proc[p].name = "materialized"
                                  THEN proc[p].checkout ELSE NoCheckout]]
    /\ GoTo(p, "fill")
    /\ UNCHANGED <<tickets, given, tree>>

Create(p) ==
    LET i == proc[p].id
        n == proc[p].name
    IN  /\ At(p, "create")
        /\ IF Exists(i, n)
           THEN Return(p) /\ UNCHANGED files
           ELSE /\ files' = [files EXCEPT ![i][n] =
                               [state |-> "torn", holds |-> proc[p].holds,
                                checkout |-> IF n = "materialized"
                                             THEN proc[p].checkout ELSE NoCheckout]]
                /\ GoTo(p, "fill")
        /\ UNCHANGED <<tickets, given, tree>>

Fill(p) ==
    /\ At(p, "fill")
    /\ files' = [files EXCEPT ![proc[p].id][proc[p].name].state = "whole"]
    /\ GoTo(p, "sync")
    /\ UNCHANGED <<tickets, given, tree>>

\* Faulty: a name that no store knows.
FollowingMisnamed(n) == CASE n = "envelope" -> "patch"
                          [] n = "patch" -> "manifest"
                          [] OTHER -> "commit"

\* What seal writes after each artifact.
Following(n) == CASE n = "envelope" -> "patch"
                  [] n = "patch" -> "manifest"
                  [] OTHER -> "sealed"

AfterSync(p, n) ==
    CASE n = "reserved"     -> GoTo(p, "seal")
      [] n = "sealed"       -> GoTo(p, "check")
      [] n = "claimed"      -> GoTo(p, "look")
      [] n = "materialized" -> GoTo(p, "confirm")
      [] OTHER              -> GoWrite(p, Following(n))

\* Faulty: nothing is synced.
SyncNothing(p) ==
    LET n == proc[p].name
    IN  /\ At(p, "sync")
        /\ tickets' = IF n = "reserved"
                      THEN tickets \cup {<<proc[p].id, proc[p].holds>>}
                      ELSE tickets
        /\ AfterSync(p, n)
        /\ UNCHANGED <<files, given, tree>>

Sync(p) ==
    LET n == proc[p].name
    IN  /\ At(p, "sync")
        /\ files' = [files EXCEPT ![proc[p].id][n].state = "durable"]
        /\ tickets' = IF n = "reserved"
                      THEN tickets \cup {<<proc[p].id, proc[p].holds>>}
                      ELSE tickets
        /\ AfterSync(p, n)
        /\ UNCHANGED <<given, tree>>

-----------------------------------------------------------------------------
(***************************************************************************)
(* Publisher: PublisherRematerializer.rematerialize.                       *)
(***************************************************************************)
StartRematerialize(p, i, w) ==
    /\ At(p, "idle")
    /\ Readable(i, w)
    /\ Hand(i, w)
    /\ Call(p, "claim", i, w)
    /\ UNCHANGED <<files, tickets, tree>>

Claim(p) ==
    LET i == proc[p].id
        w == proc[p].holds
    IN  /\ At(p, "claim")
        /\ IF Exists(i, "claimed")
           THEN IF ClaimedFor(i, w) THEN GoTo(p, "look") ELSE Return(p)
           ELSE IF Exists(i, "materialized") THEN Return(p)
                                             ELSE GoWrite(p, "claimed")
        /\ UNCHANGED <<files, tickets, given, tree>>

\* read_materialization: an earlier checkout is used again, or none exists.
Look(p) ==
    LET i == proc[p].id
        w == proc[p].holds
    IN  /\ At(p, "look")
        /\ \/ /\ ~Exists(i, "materialized")
              /\ GoTo(p, "prepare")
           \/ /\ Exists(i, "materialized")
              /\ ClaimedFor(i, w)
              /\ \E c \in Checkouts :
                    /\ MarkedFor(i, w, c)
                    /\ proc' = [proc EXCEPT ![p].at = "reuse", ![p].checkout = c]
           \/ /\ Exists(i, "materialized")
              /\ ~(ClaimedFor(i, w) /\ \E c \in Checkouts : MarkedFor(i, w, c))
              /\ Return(p)
        /\ UNCHANGED <<files, tickets, given, tree>>

\* The checkout still holds the record's patch, and the record is the same.
Intact(p) ==
    /\ tree[proc[p].checkout] = proc[p].holds
    /\ Readable(proc[p].id, proc[p].holds)

Reuse(p) ==
    /\ At(p, "reuse")
    /\ IF Intact(p) THEN GoTo(p, "holding") ELSE Return(p)
    /\ UNCHANGED <<files, tickets, given, tree>>

\* prepare_base is a port: any checkout that was not used yet.
Prepare(p, c) ==
    /\ At(p, "prepare")
    /\ tree[c] = NoWrite
    /\ tree' = [tree EXCEPT ![c] = Base]
    /\ IF Readable(proc[p].id, proc[p].holds)
       THEN proc' = [proc EXCEPT ![p].at = "apply", ![p].checkout = c]
       ELSE Return(p)
    /\ UNCHANGED <<files, tickets, given>>

\* apply_patch_bundle, followed by inspect and the record's second read.
Apply(p) ==
    /\ At(p, "apply")
    /\ IF tree[proc[p].checkout] = Base
       THEN /\ tree' = [tree EXCEPT ![proc[p].checkout] = proc[p].holds]
            /\ GoTo(p, "record")
       ELSE Return(p) /\ UNCHANGED tree
    /\ UNCHANGED <<files, tickets, given>>

\* record_materialization: its claim is a replay by now.
Record(p) ==
    LET i == proc[p].id
        w == proc[p].holds
    IN  /\ At(p, "record")
        /\ IF ~Intact(p) \/ ~ClaimedFor(i, w)
           THEN Return(p)
           ELSE IF ~Exists(i, "materialized")
                THEN GoWrite(p, "materialized")
                ELSE IF MarkedFor(i, w, proc[p].checkout)
                     THEN GoTo(p, "confirm")
                     ELSE Return(p)
        /\ UNCHANGED <<files, tickets, given, tree>>

Confirm(p) ==
    /\ At(p, "confirm")
    /\ IF /\ Intact(p)
          /\ ClaimedFor(proc[p].id, proc[p].holds)
          /\ MarkedFor(proc[p].id, proc[p].holds, proc[p].checkout)
       THEN GoTo(p, "holding")
       ELSE Return(p)
    /\ UNCHANGED <<files, tickets, given, tree>>

-----------------------------------------------------------------------------
(***************************************************************************)
(* The environment.                                                        *)
(***************************************************************************)

\* An exception, a kill, or a caller that lets go of its result.
Stop(p) ==
    /\ ~At(p, "idle")
    /\ Return(p)
    /\ UNCHANGED <<files, tickets, given, tree>>

\* A reboot: what was not synced may be gone, be scrap or have made it.
Volatile == {f \in Ids \X Names : files[f[1]][f[2]].state \in {"torn", "whole"}}
AfterReboot(f, isGone, isScrap) ==
    IF isGone THEN NoFile
    ELSE [f EXCEPT !.state = IF isScrap \/ f.state = "torn" THEN "scrap" ELSE "durable"]

PowerFailure ==
    /\ \E gone \in SUBSET Volatile, scrap \in SUBSET Volatile :
          files' = [i \in Ids |-> [n \in Names |->
                      IF <<i, n>> \in Volatile
                      THEN AfterReboot(files[i][n], <<i, n>> \in gone, <<i, n>> \in scrap)
                      ELSE files[i][n]]]
    /\ proc' = [p \in Processes |-> Idle]
    /\ UNCHANGED <<tickets, given, tree>>

\* A checkout is removed or changed behind the publisher's back.
LoseCheckout(c) ==
    /\ tree[c] \in Writes \cup {Base}
    /\ tree' = [tree EXCEPT ![c] = Lost]
    /\ UNCHANGED <<files, proc, tickets, given>>

ControlStep(p) ==
    \/ \E i \in Ids, w \in Writes : StartPut(p, i, w) \/ StartSeal(p, i, w)
    \/ Reserve(p) \/ Seal(p) \/ Check(p)

PublisherStep(p) ==
    \/ \E i \in Ids, w \in Writes : StartRematerialize(p, i, w)
    \/ Claim(p) \/ Look(p) \/ Reuse(p)
    \/ \E c \in Checkouts : Prepare(p, c)
    \/ Apply(p) \/ Record(p) \/ Confirm(p)

Next ==
    \/ \E p \in Controls : ControlStep(p)
    \/ \E p \in Publishers : PublisherStep(p)
    \/ \E p \in Processes : Create(p) \/ Fill(p) \/ Sync(p) \/ Stop(p)
    \/ PowerFailure
    \/ \E c \in Checkouts : LoseCheckout(c)

Spec == Init /\ [][Next]_vars

-----------------------------------------------------------------------------
(***************************************************************************)
(* Properties.                                                             *)
(***************************************************************************)

\* Every variable holds a value of its type.
SpoolTypeOK ==
    /\ files \in [Ids -> [Names -> Files]]
    /\ proc \in [Processes -> Calls \cup {Idle}]
    /\ tickets \subseteq Ids \X Writes
    /\ given \subseteq Ids \X Writes
    /\ tree \in [Checkouts -> Trees]

\* "Commit marker written last" (class ImmutableFileSpool): whatever races,
\* crashes and reboots came before, a legible "sealed" file means that all
\* five artifacts are there, legible, and of one write.
SealedMeansComplete ==
    \A i \in Ids : Legible(i, "sealed") => \E w \in Writes : Readable(i, w)

\* Two publishers that both came back from rematerialize for one id hold the
\* same checkout, whichever of them built it and whichever found the marker.
HeldCheckoutsAgree ==
    \A p, q \in Publishers :
        (At(p, "holding") /\ At(q, "holding") /\ proc[p].id = proc[q].id)
            => /\ proc[p].checkout = proc[q].checkout
               /\ proc[p].holds = proc[q].holds

(***************************************************************************)
(* The id is decided once its reservation is on disk.                      *)
(***************************************************************************)
Decided == [i \in Ids |-> IF files[i]["reserved"].state = "durable"
                          THEN files[i]["reserved"].holds ELSE NoWrite]

Register == INSTANCE WriteOnce WITH decided <- Decided

\* The spool implements a write-once register per id: nobody, writer, reader
\* or publisher, is ever handed a record other than the decided one, and the
\* decision survives crashes and power failures (reserve, seal, put, read).
DecidesOnce == Register!Spec
=============================================================================
