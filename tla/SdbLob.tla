------------------------------- MODULE SdbLob --------------------------------
(***************************************************************************)
(* LOBs: the SdbLob objects that getRowData makes for LOB columns, the Tcl *)
(* values that hold them, and what reading one delivers.                   *)
(*                                                                         *)
(* A Tcl value that holds an SdbLob has a reference to it.  It gives it    *)
(* back when it dies or becomes a value of another type, and the last one  *)
(* closes the LOB unless the script has.  The SQLDBC LOB inside belongs to *)
(* the row, the statement and the session it was fetched from, and nothing *)
(* tells the SdbLob when they go.                                          *)
(***************************************************************************)
EXTENDS Integers, Sequences, FiniteSets, SequencesExt

CONSTANTS
    Lob,        \* LOBs that are fetched
    Value,      \* Tcl values that can hold one
    None,       \* no LOB
    Offset,     \* Lob -> the bytes before each of its characters, and at its end
    Binary,     \* the LOBs that are BLOBs: their characters are bytes
    Sizes,      \* the lengths scripts ask for
    MaxFrom,    \* bound: the positions given with -from
    MaxDups     \* bound: duplications of the values of one LOB

ASSUME LobAssumption ==
    /\ None \notin Lob
    /\ IsFiniteSet(Value)
    /\ Binary \subseteq Lob
    /\ \A l \in Lob :
          /\ Offset[l] \in Seq(Nat) /\ Offset[l] # <<>>
          /\ \A i \in 1 .. Len(Offset[l]) - 1 :
                Offset[l][i + 1] - Offset[l][i] \in IF l \in Binary THEN {1} ELSE 1 .. 4
    /\ Sizes \subseteq Int
    /\ MaxFrom \in Nat /\ MaxDups \in Nat

VARIABLES
    obj,        \* SdbLob: whether it exists, its count and isLobOpen
    sql,        \* its SQLDBC LOB: whether it can be used, and the position
    rep,        \* Tcl value -> the SdbLob it holds
    listed,     \* values that a row list has left with a reference for ever
    reach,      \* values the script can still get at
    dups,       \* references of copies that Tcl does not know as LOBs
    left,       \* LOBs the script had open when their source went (history)
    refused,    \* LOBs the database did not close for a destructor (history)
    loop,       \* a script that reads a LOB to its end, piece by piece: up to
                \* which character it is, and whether each came after the last
    fault       \* the first use of memory that is gone, "none" before it

vars == <<obj, sql, rep, listed, reach, dups, left, refused, loop, fault>>

----------------------------------------------------------------------------
NoLoop == [lob |-> None, size |-> 0, upTo |-> 0, inOrder |-> TRUE, at |-> "off"]

\* A LOB that is not open has no position.
NotOpen(s) == [state |-> s, pos |-> 0]

Init ==
    /\ obj = [l \in Lob |-> [state |-> "unborn", refs |-> 0, isLobOpen |-> FALSE]]
    /\ sql = [l \in Lob |-> NotOpen("none")]
    /\ rep = [v \in Value |-> None]
    /\ listed = {} /\ reach = {}
    /\ dups = [l \in Lob |-> 0]
    /\ left = {}
    /\ refused = {}
    /\ loop = NoLoop
    /\ fault = "none"

Running == fault = "none"

Crash(f) ==
    /\ fault' = f
    /\ UNCHANGED <<obj, sql, rep, listed, reach, dups, left, refused, loop>>

\* The values a command of the script can name a LOB with: by their type.
Handles == {v \in reach : rep[v] # None}

----------------------------------------------------------------------------
(* The life of an SdbLob. *)

\* getRowData makes the object and its value.  If the row is stored as a list it
\* keeps a reference to the value.
Fetch(l, v, asList) ==
    /\ Running
    /\ obj[l].state = "unborn"
    /\ v \notin reach \cup listed
    /\ obj' = [obj EXCEPT ![l] = [state |-> "alive", refs |-> 1, isLobOpen |-> TRUE]]
    /\ sql' = [sql EXCEPT ![l] = [state |-> "open", pos |-> 1]]
    /\ rep' = [rep EXCEPT ![v] = l]
    /\ reach' = reach \cup {v}
    /\ listed' = IF asList THEN listed \cup {v} ELSE listed
    /\ UNCHANGED <<dups, left, refused, loop, fault>>

\* dupIntRep takes a reference for the copy, whose type nobody sets: it is an
\* empty string, and its reference is never given back.
Duplicate(v) ==
    /\ Running
    /\ v \in Handles
    /\ dups[rep[v]] < MaxDups
    /\ obj' = [obj EXCEPT ![rep[v]].refs = @ + 1]
    /\ dups' = [dups EXCEPT ![rep[v]] = @ + 1]
    /\ UNCHANGED <<sql, rep, listed, reach, left, refused, loop, fault>>

\* Mutant: the destructor leaves the LOB open.
DestroyOnly(l) ==
    /\ obj' = [obj EXCEPT ![l] = [@ EXCEPT !.state = "dead", !.refs = 0]]
    /\ UNCHANGED <<sql, refused>>

\* release deletes the object; the destructor closes a LOB that is open, and
\* does not ask whether that has worked.  If it has not, the LOB stays open at
\* the database, with nobody left to close it.
Destroy(l) ==
    /\ obj' = [obj EXCEPT ![l] = [@ EXCEPT !.state = "dead", !.refs = 0]]
    /\ IF obj[l].isLobOpen
       THEN \/ sql' = [sql EXCEPT ![l] = NotOpen("closed")] /\ UNCHANGED refused
            \/ refused' = refused \cup {l} /\ UNCHANGED sql
       ELSE UNCHANGED <<sql, refused>>

\* The LOB whose destructor the end of value v would run.
LastHolder(v) == rep[v] # None /\ obj[rep[v]].refs = 1

\* The destructor would close a LOB whose row, statement or session is gone.
Doomed(v) == LastHolder(v) /\ obj[rep[v]].isLobOpen /\ sql[rep[v]].state = "gone"

\* Mutant: the count stays.
FreeIntRepOnly(v) == rep' = [rep EXCEPT ![v] = None] /\ UNCHANGED <<obj, sql, refused>>

FreeIntRep(v) ==
    /\ rep' = [rep EXCEPT ![v] = None]
    /\ IF LastHolder(v) THEN Destroy(rep[v])
       ELSE /\ obj' = [obj EXCEPT ![rep[v]].refs = @ - 1]
            /\ UNCHANGED <<sql, refused>>

\* The value becomes a string, a list or a number.
Convert(v) ==
    /\ Running
    /\ v \in Handles /\ ~ Doomed(v)
    /\ FreeIntRep(v)
    /\ UNCHANGED <<listed, reach, dups, left, loop, fault>>

\* The script gives up the last copy of the value.
Drop(v) ==
    /\ Running
    /\ v \in reach
    /\ reach' = reach \ {v}
    /\ IF v \in listed \/ rep[v] = None THEN UNCHANGED <<obj, sql, rep, refused>>
       ELSE ~ Doomed(v) /\ FreeIntRep(v)
    /\ UNCHANGED <<listed, dups, left, loop, fault>>

DestructorFails(v) ==
    /\ Running
    /\ v \in reach /\ Doomed(v)
    /\ Crash("closedGone")

\* The row, the statement or the session the LOB is from goes.
SourceGoes(l) ==
    /\ Running
    /\ sql[l].state \in {"open", "closed"}
    /\ sql' = [sql EXCEPT ![l] = NotOpen("gone")]
    /\ left' = IF sql[l].state = "open" /\ (\E v \in reach : rep[v] = l)
               THEN left \cup {l} ELSE left
    /\ UNCHANGED <<obj, rep, listed, reach, dups, refused, loop, fault>>

\* Any command for a LOB, closed or not, goes to SQLDBC.
UseGone(v) ==
    /\ Running
    /\ v \in Handles /\ sql[rep[v]].state = "gone"
    /\ Crash("usedGone")

----------------------------------------------------------------------------
(* close and read. *)

\* Mutant: the destructor is not told.
CloseOnly(l) ==
    /\ sql' = [sql EXCEPT ![l] = NotOpen("closed")]
    /\ UNCHANGED obj

Closed(l) ==
    /\ sql' = [sql EXCEPT ![l] = NotOpen("closed")]
    /\ obj' = [obj EXCEPT ![l].isLobOpen = FALSE]

\* A close that fails changes nothing and can be tried again.
Close(v) ==
    /\ Running
    /\ v \in Handles /\ sql[rep[v]].state = "open"
    /\ Closed(rep[v])
    /\ UNCHANGED <<rep, listed, reach, dups, left, refused, loop, fault>>

\* Mutant: no byte for the end of a text.
BufferOfLength(l, length) == length

\* The bytes for a text include one for its end.
Buffer(l, length) == IF l \in Binary THEN length ELSE length + 1

\* In characters.
Length(l) == Len(Offset[l]) - 1

\* The bytes of n characters from character p on.
Bytes(l, p, n) == Offset[l][p + n] - Offset[l][p]

\* What getData delivers into a buffer of so many bytes, from character p on:
\* whole characters, as many as there is room for.
Fits(l, p, bytes) ==
    LET room == IF l \in Binary THEN bytes ELSE bytes - 1
    IN  Max({n \in 0 .. Length(l) + 1 - p : n = 0 \/ Bytes(l, p, n) <= room})

\* Mutant: -from is 1 where it is not given.
FromStart(l, from) == IF from = 0 THEN 1 ELSE from

\* Mutant: -from is counted from where the last read has ended.
FromAdded(l, from) == sql[l].pos + from

\* A position of 0 is where the last read has ended.
From(l, from) == IF from = 0 THEN sql[l].pos ELSE from

\* read, of a LOB that can be read: the characters it delivers, one after the
\* other.  Past the end there are none.
Characters(l, from, length) ==
    LET p == From(l, from)
    IN  [i \in 1 .. IF p > Length(l) THEN 0 ELSE Fits(l, p, Buffer(l, length)) |-> p + i - 1]

Moves(l, from, length) ==
    sql' = [sql EXCEPT ![l].pos = From(l, from) + Len(Characters(l, from, length))]

Readable(v, length) ==
    /\ Running
    /\ v \in Handles /\ sql[rep[v]].state = "open"
    /\ Buffer(rep[v], length) >= 0

\* A loop whose LOB somebody else reads from is of no interest any more.
Read(v, from, length) ==
    /\ Readable(v, length)
    /\ Moves(rep[v], from, length)
    /\ loop' = IF loop.lob = rep[v] THEN NoLoop ELSE loop
    /\ UNCHANGED <<obj, rep, listed, reach, dups, left, refused, fault>>

\* The length is that of an array on the stack.
ReadNegative(v, length) ==
    /\ Running
    /\ v \in Handles
    /\ Buffer(rep[v], length) < 0
    /\ Crash("badBuffer")

----------------------------------------------------------------------------
(* The loop of the documentation: read until nothing comes. *)

LoopStarts(v, length) ==
    /\ Readable(v, length)
    /\ loop.at # "reading"
    /\ loop' = [lob |-> rep[v], size |-> length, upTo |-> sql[rep[v]].pos - 1,
                inOrder |-> TRUE, at |-> "reading"]
    /\ UNCHANGED <<obj, sql, rep, listed, reach, dups, left, refused, fault>>

LoopReads ==
    /\ loop.at = "reading"
    /\ \E v \in Value : rep[v] = loop.lob /\ Readable(v, loop.size)
    /\ Moves(loop.lob, 0, loop.size)
    /\ LET part == Characters(loop.lob, 0, loop.size)
       IN  loop' = IF part = <<>> THEN [loop EXCEPT !.at = "done"]
                   ELSE [loop EXCEPT !.upTo = Last(part),
                                     !.inOrder = @ /\ part[1] = loop.upTo + 1]
    /\ UNCHANGED <<obj, rep, listed, reach, dups, left, refused, fault>>

LoopGivesUp ==
    /\ Running
    /\ loop.at = "reading"
    /\ loop' = NoLoop
    /\ UNCHANGED <<obj, sql, rep, listed, reach, dups, left, refused, fault>>

\* SQLDBC cannot read the LOB.
LoopFails == LoopGivesUp

\* The LOB is closed or gone, or the value holds none any more.
LoopRefused ==
    /\ \A v \in Value : rep[v] = loop.lob => ~ Readable(v, loop.size)
    /\ LoopGivesUp

Next ==
    \/ \E v \in Value :
          \/ \E l \in Lob, asList \in BOOLEAN : Fetch(l, v, asList)
          \/ Duplicate(v) \/ Convert(v) \/ Drop(v) \/ DestructorFails(v)
          \/ UseGone(v) \/ Close(v)
          \/ \E length \in Sizes :
                \/ \E from \in 0 .. MaxFrom : Read(v, from, length)
                \/ ReadNegative(v, length) \/ LoopStarts(v, length)
    \/ \E l \in Lob : SourceGoes(l)
    \/ LoopReads \/ LoopFails \/ LoopRefused

\* A script that is in its loop goes on; that SQLDBC fails at last is not assumed.
Spec == Init /\ [][Next]_vars /\ WF_vars(LoopReads \/ LoopRefused)

----------------------------------------------------------------------------
(* Properties. *)

\* Types of the variables.
TypeOK ==
    /\ obj \in [Lob -> [state : {"unborn", "alive", "dead"}, refs : Nat, isLobOpen : BOOLEAN]]
    /\ \A l \in Lob :
          sql[l] \in [state : {"none", "open", "closed", "gone"},
                     pos : 0 .. Length(l) + 1 + MaxFrom]
    /\ rep \in [Value -> Lob \cup {None}]
    /\ listed \subseteq Value /\ reach \subseteq Value
    /\ dups \in [Lob -> 0 .. MaxDups]
    /\ left \subseteq Lob /\ refused \subseteq Lob
    /\ loop.lob \in Lob \cup {None}
    /\ loop.at \in {"off", "reading", "done"}
    /\ fault \in {"none", "closedGone", "usedGone", "badBuffer"}

\* An SdbLob has as many references as there are values that hold it and copies
\* that have been lost, and it lives as long as there is one.
RefsCounted ==
    \A l \in Lob :
        /\ obj[l].refs = Cardinality({v \in Value : rep[v] = l}) + dups[l]
        /\ obj[l].state = "alive" <=> obj[l].refs > 0

\* A LOB is open at the database only while a value of the script holds it, one
\* of its values was duplicated or its row stored as a list, or the database has
\* refused to close it when the last value went: every other way out of a
\* script's hands closes it.
DroppedAreClosed ==
    \A l \in Lob :
        sql[l].state = "open" =>
            \/ \E v \in Value : rep[v] = l /\ v \in reach \cup listed
            \/ dups[l] > 0
            \/ l \in refused

\* A script that closes its LOBs or drops their values before the row, the
\* statement or the session goes meets no destructor that closes a LOB that is
\* gone, in whichever order it drops the rest.
DestructorsAreSafe == fault = "closedGone" => left # {}

\* The loop of the documentation collects the characters of a LOB in their order,
\* each once, and has all of them when it ends, if nobody else reads the LOB
\* meanwhile; all of them only if a piece has room for the widest.
LoopDelivers ==
    loop.at # "off" =>
        /\ loop.inOrder
        /\ loop.at = "done" /\ (\A i \in 1 .. Length(loop.lob) : Bytes(loop.lob, i, 1) <= loop.size) =>
              loop.upTo >= Length(loop.lob)

\* The loop ends, unless others move the position or a fault ends everything.
LoopEnds == loop.at = "reading" ~> loop.at # "reading" \/ fault # "none"
=============================================================================
