--------------------------- MODULE SdbSessionSpec ---------------------------
(***************************************************************************)
(* What the extension promises a script about sessions and statements: a   *)
(* statement can be used from its creation until the script lets go of it  *)
(* or its session ends, whichever comes first, and by a command that is    *)
(* interrupted also after the interruption; ending a session takes its     *)
(* statements, and no others, out of use; no command uses an object after  *)
(* its end.  SdbSession implements this module for the scripts that let go *)
(* of a session's handles before they end it and take no statement from a  *)
(* command they interrupt.                                                 *)
(***************************************************************************)
EXTENDS Sequences, SequencesExt

CONSTANTS Conn, Stmt, Obj, None

VARIABLES
    session,    \* Conn -> "new", "open" or "closed"
    home,       \* Stmt -> the session it belongs to while it is open, or None
    held,       \* the statements the script has a handle of
    own,        \* Conn -> the statement of commands without a handle, or None
    spent,      \* statements that will not be used again
    running,    \* the interrupted commands, the innermost last: each the statement
                \* it runs on and the value that named it, None for the own one
    crashed     \* whether a command has used an object after its end

avars == <<session, home, held, own, spent, running, crashed>>

Usable(f) ==
    /\ home[f.stmt] # None
    /\ IF f.obj = None THEN own[home[f.stmt]] = f.stmt ELSE f.stmt \in held

\* The statements of interrupted commands that have named them, and that have not.
Named == {running[i].stmt : i \in {j \in DOMAIN running : running[j].obj # None}}

Unnamed == {running[i].stmt : i \in {j \in DOMAIN running : running[j].obj = None}}

Init ==
    /\ session = [c \in Conn |-> "new"]
    /\ home = [s \in Stmt |-> None]
    /\ held = {}
    /\ own = [c \in Conn |-> None]
    /\ spent = {}
    /\ running = <<>>
    /\ crashed = FALSE

Open(c) ==
    /\ session[c] = "new"
    /\ session' \in {[session EXCEPT ![c] = o] : o \in {"open", "closed"}}
    /\ UNCHANGED <<home, held, own, spent, running, crashed>>

\* No handle is left, and no command on the session's own statement runs.
Close(c) ==
    /\ session[c] = "open"
    /\ \A s \in held \cup Unnamed : home[s] # c
    /\ session' = [session EXCEPT ![c] = "closed"]
    /\ home' = [s \in Stmt |-> IF home[s] = c THEN None ELSE home[s]]
    /\ own' = [own EXCEPT ![c] = None]
    /\ spent' = spent \cup {s \in Stmt : home[s] = c}
    /\ UNCHANGED <<held, running, crashed>>

\* With a handle, or as the session's own.
Create(s, c) ==
    /\ session[c] = "open"
    /\ home[s] = None /\ s \notin spent
    /\ home' = [home EXCEPT ![s] = c]
    /\ \/ held' = held \cup {s} /\ own' = own
       \/ own[c] = None /\ own' = [own EXCEPT ![c] = s] /\ held' = held
    /\ UNCHANGED <<session, spent, running, crashed>>

CreateFails(s) ==
    /\ home[s] = None /\ s \notin spent
    /\ spent' = spent \cup {s}
    /\ UNCHANGED <<session, home, held, own, running, crashed>>

\* The script lets go of a statement; what else it has counted may keep it.
Discard(s) ==
    /\ s \in held \ Named
    /\ held' = held \ {s}
    /\ \/ home' = [home EXCEPT ![s] = None] /\ spent' = spent \cup {s}
       \/ UNCHANGED <<home, spent>>
    /\ UNCHANGED <<session, own, running, crashed>>

Begin(f) ==
    /\ Usable(f)
    /\ running' = Append(running, f)
    /\ UNCHANGED <<session, home, held, own, spent, crashed>>

\* The innermost command goes on, with its statement.
Finish ==
    /\ running # <<>> /\ Usable(Last(running))
    /\ running' = Front(running)
    /\ UNCHANGED <<session, home, held, own, spent, crashed>>

Next ==
    \/ \E c \in Conn : Open(c) \/ Close(c)
    \/ \E s \in Stmt, c \in Conn : Create(s, c)
    \/ \E s \in Stmt : CreateFails(s) \/ Discard(s)
    \/ \E s \in Stmt, o \in Obj \cup {None} : Begin([stmt |-> s, obj |-> o])
    \/ Finish

Spec == Init /\ [][Next]_avars
=============================================================================
