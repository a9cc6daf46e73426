----------------------------- MODULE SdbSession -----------------------------
(***************************************************************************)
(* Object lifetimes of the extension: the environment behind the `sdb`     *)
(* command (SdbEnv), the connections behind the database commands          *)
(* (SdbConn), the statements (SdbStmt, SdbPrepStmt) and the Tcl values     *)
(* that hold statements.                                                   *)
(*                                                                         *)
(* The extension runs on the interpreter's thread, so one Tcl command is   *)
(* one action, except for those that come back to their statement after a  *)
(* Tcl variable: fetch into an array writes it for each column, execute of *)
(* a prepared statement reads INOUT and writes OUT variables.  The traces  *)
(* of these variables are scripts; the command is suspended on the stack   *)
(* until they have ended.  A fetch into a list uses nothing of its         *)
(* statement once it has written a variable, and stays one action.         *)
(*                                                                         *)
(* What varies is the order in which a script and its traces issue the     *)
(* commands and which of the calls to SQLDBC fail.  Conn and Stmt are the  *)
(* identities of C++ objects, each allocated at most once; Obj are the Tcl *)
(* values a script can hold statements in; Name are the names of database  *)
(* commands.  A fault is the use of one of these objects, or of the SQLDBC *)
(* objects behind them, after its end; what a statement holds inside, its  *)
(* results and arguments, is the subject of SdbStatement and SdbRowData.   *)
(***************************************************************************)
EXTENDS Integers, FiniteSets, Sequences, SequencesExt

CONSTANTS
    Conn,       \* SdbConn objects
    Stmt,       \* SdbStmt and SdbPrepStmt objects
    Obj,        \* Tcl_Obj values
    Name,       \* command names given to `sdb connect`
    None,       \* the null pointer
    MaxDups,    \* bound: how often the values of one statement are duplicated
    MaxDepth    \* bound: commands suspended inside each other's traces

ASSUME NoneAssumption == None \notin Conn \cup Stmt \cup Obj
ASSUME FiniteAssumption ==
    /\ IsFiniteSet(Conn)
    /\ IsFiniteSet(Obj)
    /\ {MaxDups, MaxDepth} \subseteq Nat

VARIABLES
    env,        \* the SdbEnv object: reference count, deleted or not
    sdbCmd,     \* whether the `sdb` command exists
    cmd,        \* database command name -> the SdbConn it runs on
    conn,       \* the SdbConn objects
    sessions,   \* SQLDBC connections created and not yet released
    stmt,       \* the statement objects
    rep,        \* Tcl value -> the statement in its internal representation
    dups,       \* how many references dupIntRep took for each statement
    stack,      \* the suspended commands, the innermost last
    fault       \* the first use of an object that is gone, "none" before it

vars == <<env, sdbCmd, cmd, conn, sessions, stmt, rep, dups, stack, fault>>

----------------------------------------------------------------------------
(* The objects. *)

State == {"unused", "live", "deleted"}

EnvType  == [refs : Int, live : BOOLEAN]

\* tracked is the member `statements`.
ConnType == [state : State, internal : Stmt \cup {None}, tracked : SUBSET Stmt]

\* owner is the member `conn`; handle is what the member `stmt` points to:
\* nothing, an SQLDBC statement, or one SQLDBC destroyed with its connection.
\* params is the member of SdbPrepStmt with the names and the OUT buffers of the
\* parameters: none before prepare and in a plain SdbStmt.
StmtType == [state : State, owner : Conn \cup {None},
             handle : {"none", "open", "stale"}, refs : Int,
             params : {"none", "live", "freed", "leaked"}]

\* A suspended command: the statement it runs on and the value among its words
\* that it found it in, or None if it is the internal statement of a connection.
Frame == [stmt : Stmt, obj : Obj \cup {None}]

\* Mutant: the constructor leaves `stmt` uninitialised.
NewConnRaw == [state |-> "live", internal |-> "garbage", tracked |-> {}]

NewConn == [state |-> "live", internal |-> None, tracked |-> {}]

\* Mutant: SdbConn does not count itself in.
PreserveForgotten(e) == e

Preserve(e) == [e EXCEPT !.refs = @ + 1]

\* Mutant: the environment survives its last reference.
ReleaseTooLate(e) == [refs |-> e.refs - 1, live |-> e.live /\ e.refs - 1 >= 0]

Release(e) == [refs |-> e.refs - 1, live |-> e.live /\ e.refs - 1 > 0]

\* SdbStmt(conn, refs) with the SQLDBC statement its constructor creates.
NewStmt(c, refs) ==
    [state |-> "live", owner |-> c, handle |-> "open", refs |-> refs, params |-> "none"]

\* An SdbPrepStmt that prepare has filled.
NewPrepStmt(c, refs) == [NewStmt(c, refs) EXCEPT !.params = "live"]

\* Mutant: the pointer to the SQLDBC statement is kept.
ReleaseButKeep(r) == [r EXCEPT !.owner = None]

ReleaseDatabaseHandles(r) ==
    IF r.owner = None THEN r ELSE [r EXCEPT !.handle = "none", !.owner = None]

\* Mutant: the destructor does not give the SQLDBC statement back.
DeleteOnly(r) == [r EXCEPT !.state = "deleted"]

\* ~SdbStmt, when the connection it still points to exists.  release() deletes
\* every statement through SdbStmt*, whose destructor is not virtual and gives back
\* the members of SdbStmt only: what a prepared statement has in params is lost.
Delete(r) ==
    [ReleaseDatabaseHandles(r) EXCEPT
        !.state = "deleted", !.params = IF @ = "live" THEN "leaked" ELSE @]

\* ~SdbPrepStmt, which only the unique_ptr of prepare calls.
DeletePrepared(r) == [Delete(r) EXCEPT !.params = "freed"]

\* Mutant: the comparison in release() is off by one.
IsLastTooLate(r) == r.refs < 0

IsLast(r) == r.refs <= 0

DropRef(r) == [r EXCEPT !.refs = @ - 1]

Live == {c \in Conn : conn[c].state = "live"}

Held(s) == \E o \in Obj : rep[o] = s

Operable(s) == stmt[s].state = "live" /\ stmt[s].handle = "open"

Running == fault = "none"

\* The statement was created for a connection that has been deleted since,
\* and still points to it.
Outlived(s) == stmt[s].owner # None /\ conn[stmt[s].owner].state = "deleted"

----------------------------------------------------------------------------
(* `package require sdbtcl` has succeeded. *)

Init ==
    /\ env = [refs |-> 1, live |-> TRUE]
    /\ sdbCmd = TRUE
    /\ cmd = [n \in Name |-> None]
    /\ conn = [c \in Conn |-> [NewConn EXCEPT !.state = "unused"]]
    /\ sessions = {}
    /\ stmt = [s \in Stmt |-> [state |-> "unused", owner |-> None,
                               handle |-> "none", refs |-> 0, params |-> "none"]]
    /\ rep = [o \in Obj |-> None]
    /\ dups = [s \in Stmt |-> 0]
    /\ stack = <<>>
    /\ fault = "none"

\* sdb connect n ...
Connect(n, c) ==
    /\ Running
    /\ sdbCmd
    /\ cmd[n] = None
    /\ conn[c].state = "unused"
    /\ env' = Preserve(env)
    /\ conn' = [conn EXCEPT ![c] = NewConn]
    /\ sessions' = sessions \cup {c}
    /\ cmd' = [cmd EXCEPT ![n] = c]
    /\ UNCHANGED <<sdbCmd, stmt, rep, dups, stack, fault>>

\* Mutant: the SQLDBC connection of a failed connect is not given back.
ConnectFailsLeaking(n, c) ==
    /\ Running
    /\ sdbCmd
    /\ cmd[n] = None
    /\ conn[c].state = "unused"
    /\ env' = Release(Preserve(env))
    /\ conn' = [conn EXCEPT ![c] = [NewConn EXCEPT !.state = "deleted"]]
    /\ sessions' = sessions \cup {c}
    /\ UNCHANGED <<sdbCmd, cmd, stmt, rep, dups, stack, fault>>

\* The database refuses, an option is wrong or the command cannot be created:
\* the unique_ptr deletes the connection object before the command returns.
ConnectFails(n, c) ==
    /\ Running
    /\ sdbCmd
    /\ cmd[n] = None
    /\ conn[c].state = "unused"
    /\ env' = Release(Preserve(env))
    /\ conn' = [conn EXCEPT ![c] = [NewConn EXCEPT !.state = "deleted"]]
    /\ UNCHANGED <<sdbCmd, cmd, sessions, stmt, rep, dups, stack, fault>>

\* `rename sdb ""` or the definition of another command of that name.
DeleteSdbCommand ==
    /\ Running
    /\ sdbCmd
    /\ sdbCmd' = FALSE
    /\ env' = Release(env)
    /\ UNCHANGED <<cmd, conn, sessions, stmt, rep, dups, stack, fault>>

\* Mutant: one set of statements shared by all connections.
KnownAnywhere(c) == {s \in Stmt : \E d \in Conn : conn[d].internal = s}

\* The statement objects ~SdbConn knows of.
Known(c) == conn[c].tracked \cup {s \in Stmt : conn[c].internal = s}

\* Mutant: the end of a connection takes the statements of all away.
AfterCloseOfAll(c, s) ==
    IF s \in Known(c) THEN ReleaseDatabaseHandles(stmt[s])
    ELSE IF stmt[s].handle = "open" THEN [stmt[s] EXCEPT !.handle = "stale"]
    ELSE stmt[s]

\* What the end of connection c does to statement s: those ~SdbConn knows give
\* their handles back, those of any other are destroyed by SQLDBC behind it.
AfterClose(c, s) ==
    IF s \in Known(c)
    THEN ReleaseDatabaseHandles(stmt[s])
    ELSE IF stmt[s].owner = c /\ stmt[s].handle = "open"
         THEN [stmt[s] EXCEPT !.handle = "stale"]
         ELSE stmt[s]

\* `db disconnect`, `rename db ""`, or the definition of another command of
\* that name: all of them end in ~SdbConn.
Disconnect(n) ==
    /\ Running
    /\ cmd[n] # None
    /\ LET c == cmd[n] IN
       /\ stmt' = [s \in Stmt |-> AfterClose(c, s)]
       /\ conn' = [conn EXCEPT ![c].state = "deleted"]
       /\ sessions' = sessions \ {c}
    /\ env' = Release(env)
    /\ cmd' = [cmd EXCEPT ![n] = None]
    /\ fault' = IF env.live THEN "none" ELSE "deadEnv"
    /\ UNCHANGED <<sdbCmd, rep, dups, stack>>

----------------------------------------------------------------------------
(* Statements. *)

\* A value for a new statement: not one a running command has among its words.
Fresh(o) == rep[o] = None /\ \A i \in DOMAIN stack : stack[i].obj # o

Created(s, o, r) ==
    /\ stmt' = [stmt EXCEPT ![s] = r]
    /\ rep' = [rep EXCEPT ![o] = s]
    /\ UNCHANGED <<env, sdbCmd, cmd, conn, sessions, dups, stack, fault>>

\* Mutant: the unique_ptr is asked for its pointer and still deletes it.
NewStatementFreed(n, s, o) ==
    /\ Running
    /\ cmd[n] # None
    /\ stmt[s].state = "unused"
    /\ Fresh(o)
    /\ Created(s, o, Delete(NewStmt(cmd[n], 1)))

\* db newstatement: the value returned is stored in o.
NewStatement(n, s, o) ==
    /\ Running
    /\ cmd[n] # None
    /\ stmt[s].state = "unused"
    /\ Fresh(o)
    /\ Created(s, o, NewStmt(cmd[n], 1))

\* db prepare.
Prepare(n, s, o) ==
    /\ Running
    /\ cmd[n] # None
    /\ stmt[s].state = "unused"
    /\ Fresh(o)
    /\ Created(s, o, NewPrepStmt(cmd[n], 1))

\* Mutant: the unique_ptr of prepare is one of the base class.
NotPreparedThroughBase(n) == Delete(NewPrepStmt(cmd[n], 0))

\* An option is wrong, the SQL does not parse or names its parameters in part.
NotPrepared(n) == DeletePrepared(NewPrepStmt(cmd[n], 0))

\* newstatement or prepare fails: the unique_ptr deletes the object.
NewStatementFails(n, s) ==
    /\ Running
    /\ cmd[n] # None
    /\ stmt[s].state = "unused"
    /\ \E r \in {Delete(NewStmt(cmd[n], 0)), NotPrepared(n)} : stmt' = [stmt EXCEPT ![s] = r]
    /\ UNCHANGED <<env, sdbCmd, cmd, conn, sessions, rep, dups, stack, fault>>

\* myStmt: the first command without a statement handle makes the internal one.
FirstImplicitUse(n, s) ==
    /\ Running
    /\ cmd[n] # None
    /\ conn[cmd[n]].internal = None
    /\ stmt[s].state = "unused"
    /\ stmt' = [stmt EXCEPT ![s] = NewStmt(cmd[n], 0)]
    /\ conn' = [conn EXCEPT ![cmd[n]].internal = s]
    /\ UNCHANGED <<env, sdbCmd, cmd, sessions, rep, dups, stack, fault>>

\* A command that uses statement s, all of it before any trace can run.
Uses(s) ==
    /\ fault' = IF Operable(s) THEN "none" ELSE "deadHandle"
    /\ UNCHANGED <<env, sdbCmd, cmd, conn, sessions, stmt, rep, dups, stack>>

\* A command on statement s that a trace interrupts.
Starts(s, o) ==
    /\ Operable(s)
    /\ Len(stack) < MaxDepth
    /\ stack' = Append(stack, [stmt |-> s, obj |-> o])
    /\ UNCHANGED <<env, sdbCmd, cmd, conn, sessions, stmt, rep, dups, fault>>

\* Every later command without a handle: db execute "...", db fetch row ...
ImplicitUse(n) ==
    /\ Running
    /\ cmd[n] # None
    /\ conn[cmd[n]].internal # None
    /\ Uses(conn[cmd[n]].internal)

\* db fetch -asarray row
ImplicitStarts(n) ==
    /\ Running
    /\ cmd[n] # None
    /\ conn[cmd[n]].internal # None
    /\ Starts(conn[cmd[n]].internal, None)

\* db execute $o, db fetch $o row ...: the code does not ask whether the
\* statement is one of this connection's, nor whether it is still operable.
HandleUse(n, o) ==
    /\ Running
    /\ cmd[n] # None
    /\ rep[o] # None
    /\ Uses(rep[o])

\* db fetch -asarray $o row, db execute $o :NAME var ...
HandleStarts(n, o) ==
    /\ Running
    /\ cmd[n] # None
    /\ rep[o] # None
    /\ Starts(rep[o], o)

\* The trace of the innermost command has ended.  The command gives up if the
\* variable could not be accessed, and else goes on with the statement it had
\* found before, which is not looked up again: for the next column, to see that
\* there is none, or for the next argument.
Resume ==
    /\ Running /\ stack # <<>>
    /\ fault' \in IF Operable(Last(stack).stmt) THEN {"none"} ELSE {"none", "interrupted"}
    /\ stack' = IF fault' = "none" THEN Front(stack) ELSE stack
    /\ UNCHANGED <<env, sdbCmd, cmd, conn, sessions, stmt, rep, dups>>

\* Mutant: dupIntRep takes no reference.
DuplicateUncounted(o) ==
    /\ Running
    /\ rep[o] # None
    /\ dups[rep[o]] < MaxDups
    /\ dups' = [dups EXCEPT ![rep[o]] = @ + 1]
    /\ UNCHANGED <<env, sdbCmd, cmd, conn, sessions, stmt, rep, stack, fault>>

\* Tcl_DuplicateObj calls dupIntRep, which takes a reference and does not set
\* the type of the copy: the copy is a plain empty string, and Tcl never calls
\* freeIntRep for it.
Duplicate(o) ==
    /\ Running
    /\ rep[o] # None
    /\ dups[rep[o]] < MaxDups
    /\ dups' = [dups EXCEPT ![rep[o]] = @ + 1]
    /\ stmt' = [stmt EXCEPT ![rep[o]].refs = @ + 1]
    /\ UNCHANGED <<env, sdbCmd, cmd, conn, sessions, rep, stack, fault>>

\* freeIntRep: the value dies, or Tcl converts it to another type, which a trace
\* can do with a word of the command it interrupts.  The last reference deletes the
\* statement, whose destructor calls eraseStatement on the connection it points to.
FreeIntRep(o) ==
    /\ Running
    /\ rep[o] # None
    /\ LET s == rep[o]
           r == DropRef(stmt[s])
       IN \/ /\ ~ IsLast(r)
             /\ stmt' = [stmt EXCEPT ![s] = r]
             /\ UNCHANGED <<conn, fault>>
          \/ /\ IsLast(r)
             /\ Outlived(s)
             /\ stmt' = [stmt EXCEPT ![s] = r]
             /\ fault' = "deadConn"
             /\ UNCHANGED conn
          \/ /\ IsLast(r)
             /\ ~ Outlived(s)
             /\ stmt' = [stmt EXCEPT ![s] = Delete(r)]
             /\ conn' = [c \in Conn |-> IF c = r.owner
                                        THEN [conn[c] EXCEPT !.tracked = @ \ {s}]
                                        ELSE conn[c]]
             /\ UNCHANGED fault
    /\ rep' = [rep EXCEPT ![o] = None]
    /\ UNCHANGED <<env, sdbCmd, cmd, sessions, dups, stack>>

----------------------------------------------------------------------------
Next ==
    \/ \E n \in Name, c \in Conn : Connect(n, c) \/ ConnectFails(n, c)
    \/ DeleteSdbCommand
    \/ \E n \in Name : Disconnect(n) \/ ImplicitUse(n) \/ ImplicitStarts(n)
    \/ \E n \in Name, s \in Stmt : NewStatementFails(n, s) \/ FirstImplicitUse(n, s)
    \/ \E n \in Name, s \in Stmt, o \in Obj : NewStatement(n, s, o) \/ Prepare(n, s, o)
    \/ \E n \in Name, o \in Obj : HandleUse(n, o) \/ HandleStarts(n, o)
    \/ Resume
    \/ \E o \in Obj : Duplicate(o) \/ FreeIntRep(o)

\* Any script, with any traces.
Spec == Init /\ [][Next]_vars

\* A script that lets go of every handle of a connection before it ends it.
HandlesDroppedFirst ==
    \A o \in Obj : (rep[o] # None /\ stmt[rep[o]].owner \in Live)
                     => conn'[stmt[rep[o]].owner].state = "live"

\* No trace converts the handle of a command it interrupts, or ends the connection
\* whose internal statement such a command runs on.
RunningUndisturbed ==
    \A i \in DOMAIN stack :
        LET f == stack[i] IN
        IF f.obj = None THEN conn'[stmt[f.stmt].owner].state = "live"
                        ELSE rep'[f.obj] = rep[f.obj]

CarefulNext == Next /\ HandlesDroppedFirst /\ RunningUndisturbed

CarefulSpec == Init /\ [][CarefulNext]_vars
----------------------------------------------------------------------------
(* Properties. *)

\* Types of the variables.
TypeOK ==
    /\ env \in EnvType
    /\ sdbCmd \in BOOLEAN
    /\ cmd \in [Name -> Conn \cup {None}]
    /\ conn \in [Conn -> ConnType]
    /\ sessions \in SUBSET Conn
    /\ stmt \in [Stmt -> StmtType]
    /\ rep \in [Obj -> Stmt \cup {None}]
    /\ dups \in [Stmt -> 0 .. MaxDups]
    /\ stack \in Seq(Frame)
    /\ fault \in {"none", "deadConn", "deadHandle", "deadEnv", "interrupted"}

\* The environment is counted once by the sdb command and once by every
\* connection, and is deleted exactly when the last of them is gone.
EnvCounted ==
    /\ env.refs = Cardinality(Live) + (IF sdbCmd THEN 1 ELSE 0)
    /\ env.live <=> (sdbCmd \/ Live # {})

\* A connection object lives, and its SQLDBC connection is open, exactly as
\* long as one command runs on it: no session is leaked by a failed connect,
\* closed twice or left behind by a deleted command.
OneCommandPerSession ==
    /\ sessions = Live
    /\ \A n \in Name : cmd[n] # None => cmd[n] \in Live
    /\ \A c \in Live : \E n \in Name : cmd[n] = c /\ \A m \in Name : cmd[m] = c => m = n

\* The count of a statement is one for the Tcl value that holds it plus the
\* references its duplicates took and will never give back.
RefsCounted ==
    \A s \in Stmt : stmt[s].state = "live" =>
        stmt[s].refs = (IF Held(s) THEN 1 ELSE 0) + dups[s]

\* A Tcl value that holds a statement keeps it from being deleted, is the only
\* value that does, and never holds the internal statement of a connection.
HandlesAreLive ==
    \A o \in Obj : rep[o] # None =>
        /\ stmt[rep[o]].state = "live"
        /\ \A p \in Obj : rep[p] = rep[o] => p = o
        /\ \A c \in Conn : conn[c].internal # rep[o]

\* An SQLDBC statement that can still be used belongs to an open session, and
\* every one that a statement object still owns is that of a live object:
\* none is left open by a deleted object.
OpenHandlesHaveSessions ==
    \A s \in Stmt : stmt[s].handle = "open" =>
        /\ stmt[s].state = "live"
        /\ stmt[s].owner \in sessions

\* The only statement objects nothing can reach any more are the internal
\* statements of ended connections and those a duplicated value has counted.
OnlyInternalOrDuplicatedLeak ==
    Running => \A s \in Stmt : (stmt[s].state = "live" /\ ~ Held(s)) =>
        \/ dups[s] > 0
        \/ \E c \in Conn : conn[c].internal = s /\ conn[c].state # "unused"

\* The parameters of a prepared statement, their names and buffers, are lost by
\* the deletion of a statement that was never duplicated with its last value, and
\* by nothing else: not by a prepare that fails, at whatever point, nor by the end
\* of a connection.
OnlyReleasedParamsLeak ==
    [][\A s \in Stmt : (stmt'[s].params = "leaked" /\ stmt[s].params # "leaked") =>
          dups[s] = 0 /\ \E o \in Obj : rep[o] = s /\ rep'[o] = None]_vars

\* A trace has taken the statement from the command it interrupted: by ending the
\* connection of an internal statement, or by converting the handle.
Disturbed(f) ==
    \/ f.obj = None /\ \E c \in Conn \ Live : conn[c].internal = f.stmt
    \/ f.obj # None /\ rep[f.obj] # f.stmt

\* Whatever the script does, an object is used after its end only through a
\* statement that outlived its connection, or by a command whose own trace has
\* taken its statement from it; the environment is never used after its end.
FaultsNeedAnOutlivedStatement ==
    /\ fault # "deadEnv"
    /\ fault \in {"deadConn", "deadHandle"} => \E s \in Stmt : Outlived(s)
    /\ fault = "interrupted" =>
          stack # <<>> /\ (Outlived(Last(stack).stmt) \/ Disturbed(Last(stack)))

\* For careful scripts: no statement, connection or SQLDBC object is used after
\* its end, by no command and not by one that a trace has interrupted.
NoFault == fault = "none"

\* For careful scripts: the only SQLDBC statements that a connection's end
\* takes away from a live statement object are those of duplicated values.
OnlyDuplicatedGoStale ==
    \A s \in Stmt : stmt[s].handle = "stale" => dups[s] > 0

\* A step takes a statement's SQLDBC handle away only by ending the session it
\* belongs to or by dropping the last value that holds it; in particular the
\* end of one connection leaves the statements of the others alone.
HandlesEndForAReason ==
    [][\A s \in Stmt : (stmt[s].handle = "open" /\ stmt'[s].handle # "open") =>
          \/ stmt[s].owner \in sessions \ sessions'
          \/ Held(s) /\ \A o \in Obj : rep'[o] # s]_vars

\* What ties the statements to the connections in every reachable state, and
\* makes the properties above inductive: a statement keeps its connection and
\* its SQLDBC handle together; it has lost them while it lives only as the
\* internal statement of an ended connection; the internal statement of a live
\* connection is operable; and no connection tracks any statement.
StatementsTied ==
    /\ \A s \in Stmt :
          /\ stmt[s].state = "unused" => dups[s] = 0
          /\ stmt[s].state # "live" => stmt[s].handle = "none"
          /\ stmt[s].handle = "none" <=> stmt[s].owner = None
          /\ stmt[s].handle = "open" => stmt[s].owner \in Live
          /\ stmt[s].handle = "stale" => Outlived(s)
          /\ (stmt[s].state = "live" /\ stmt[s].handle = "none") =>
                \E c \in Conn : conn[c].internal = s
    /\ \A c \in Conn :
          /\ conn[c].tracked = {}
          /\ conn[c].internal # None =>
                /\ conn[c].state # "unused"
                /\ stmt[conn[c].internal].state = "live"
                /\ c \in Live => /\ stmt[conn[c].internal].owner = c
                                 /\ stmt[conn[c].internal].handle = "open"
                /\ c \notin Live => stmt[conn[c].internal].handle = "none"

\* What ties the suspended commands to the statements: a command without a handle
\* runs on the internal statement of a connection, and the value among the words
\* of any other holds its statement or, if it was converted, none.
StackTied ==
    \A i \in DOMAIN stack :
        LET f == stack[i] IN
        IF f.obj = None THEN \E c \in Conn : conn[c].internal = f.stmt
                        ELSE rep[f.obj] \in {f.stmt, None}

\* sdbstmt.h:75-78 says of the end of a connection that a statement Tcl still
\* references is "made inoperable": its handles are released, it points to no
\* connection any more.
InoperableAfterDisconnect ==
    \A s \in Stmt : ~ Outlived(s)

----------------------------------------------------------------------------
(* What the extension promises. *)

sessionView ==
    [c \in Conn |-> IF conn[c].state = "unused" THEN "new"
                   ELSE IF conn[c].state = "live" THEN "open" ELSE "closed"]

homeView == [s \in Stmt |-> IF stmt[s].handle = "open" THEN stmt[s].owner ELSE None]

heldView == {s \in Stmt : Held(s)}

ownView == [c \in Conn |-> IF c \in Live THEN conn[c].internal ELSE None]

spentView == {s \in Stmt : stmt[s].state # "unused" /\ stmt[s].handle # "open"}

Promise == INSTANCE SdbSessionSpec WITH
    session <- sessionView, home <- homeView, held <- heldView, own <- ownView,
    spent <- spentView, running <- stack, crashed <- (fault # "none")

\* Careful scripts get the promised behaviour of sessions and statements.
ImplementsPromise == Promise!Spec
=============================================================================
