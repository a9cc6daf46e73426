---------------------------- MODULE SdbStatement ----------------------------
(***************************************************************************)
(* The statements of one connection at work: execute, batch, fetch,        *)
(* columns, rownumber, and the result set each of them leaves behind.      *)
(*                                                                         *)
(* A command runs to its end in one step unless it accesses a Tcl          *)
(* variable: fetch stores the row, execute of a prepared statement reads   *)
(* the INOUT arguments and stores the OUT arguments, and Tcl runs the      *)
(* variable's trace, a script, inside the access.  That script may run     *)
(* commands on the same connection, let go of a statement or disconnect    *)
(* before the interrupted command goes on with the pointers it had read.   *)
(* Such a command is a frame of the variable stack, suspended in its last  *)
(* access; only the top frame can go on.                                   *)
(***************************************************************************)
EXTENDS Integers, Sequences, SequencesExt

CONSTANTS
    Stmt,       \* the statement objects
    Prepared,   \* those that are SdbPrepStmt
    NCols,      \* columns of a result set, each one variable write in a row
    NOut,       \* OUT and INOUT parameters of a prepared statement
    MaxRuns,    \* bound: execution attempts per statement
    MaxRows,    \* bound: rows of a result set
    MaxDepth    \* bound: commands running inside each other's traces

ASSUME ParamAssumption ==
    /\ Stmt # {} /\ Prepared \subseteq Stmt
    /\ NCols \in Nat \ {0}
    /\ {NOut, MaxRuns, MaxRows, MaxDepth} \subseteq Nat

VARIABLES
    stmt,       \* Stmt -> the members of SdbStmt and the SQLDBC state behind
    stack,      \* the suspended commands, the innermost last
    gone,       \* the statements a trace has deleted, or disconnected
    reply,      \* the last command that ended and what it returned
    fault       \* the first use or keeping of a pointer to what is gone, "none"
                \* before it; the model follows a script no further

vars == <<stmt, stack, gone, reply, fault>>

----------------------------------------------------------------------------
(* One statement.  The k-th execution attempt makes result set k; 0 is the *)
(* null pointer.  rset and cols are the members of SdbStmt, cols as the    *)
(* result sets its columns were read from.  query is what SQLDBC answers   *)
(* to isQuery, open the result set it holds open for the statement, size   *)
(* its rows and pos the cursor: 0 before the first row, size + 1 after the *)
(* last.  last is history: how the last execute or batch has ended;        *)
(* "refused" is one that failed without having cleared what there was.     *)

RunId == 0 .. MaxRuns

StmtType ==
    [rset : RunId, cols : Seq(1 .. MaxRuns), query : BOOLEAN, open : RunId,
     size : 0 .. MaxRows, pos : 0 .. MaxRows + 1, runs : RunId,
     last : {"none", "query", "update", "failed", "refused"}]

\* SQLDBC knows of a prepared statement whether it is a query.
New(q) == [rset |-> 0, cols |-> <<>>, query |-> q, open |-> 0, size |-> 0,
           pos |-> 0, runs |-> 0, last |-> "none"]

\* Mutant: the column information outlives the result set.
ClearResultSetOnly(r) == [r EXCEPT !.rset = 0, !.open = 0]

ClearResults(r) ==
    IF r.rset = 0 THEN r ELSE [r EXCEPT !.rset = 0, !.cols = <<>>, !.open = 0]

\* Mutant: execute starts with the results of the execution before.
AttemptOnly(r) == [r EXCEPT !.runs = @ + 1, !.last = "failed"]

\* What every execution does before it can fail.
Attempt(r) == [ClearResults(r) EXCEPT !.runs = @ + 1, !.last = "failed"]

\* execute fails and leaves what was there.
Usage(r) == [r EXCEPT !.last = "refused"]

\* SQLDBC has executed a statement, attempt k: a query with n rows, or none.
Executed(r, k, q, n) ==
    [r EXCEPT !.query = q, !.open = IF q THEN k ELSE 0, !.size = n, !.pos = 0]

\* SQLDBC has failed to; what isQuery answers then is its own affair.
Refused(r, q) == [r EXCEPT !.query = q, !.open = 0]

\* Mutant: the result set is taken from the statement when it is no query, too.
ResultOfAnything(r) ==
    [r EXCEPT !.rset = r.open, !.last = IF r.query THEN "query" ELSE "update",
              !.cols = @ \o [i \in 1 .. NCols |-> r.open]]

\* Mutant: a query that finds no row leaves no result set.
ResultWithRows(r) ==
    IF r.query /\ r.size > 0
    THEN [r EXCEPT !.rset = r.open, !.last = "query",
                   !.cols = @ \o [i \in 1 .. NCols |-> r.open]]
    ELSE [r EXCEPT !.last = IF r.query THEN "query" ELSE "update"]

SetExecuteResult(r) ==
    IF r.query
    THEN [r EXCEPT !.rset = r.open, !.last = "query",
                   !.cols = @ \o [i \in 1 .. NCols |-> r.open]]
    ELSE [r EXCEPT !.last = "update"]

----------------------------------------------------------------------------
(* Cursor movement: the SeekType of fetch with its row number or offset.   *)

Seeks == ({"next", "previous", "first", "last"} \X {0})
         \cup ({"absolute"} \X (1 .. MaxRows)) \cup ({"relative"} \X {-1, 1})

Clip(r, k) == IF k < 1 THEN 0 ELSE IF k > r.size THEN r.size + 1 ELSE k

Target(r, seek) ==
    CASE seek[1] = "next"     -> Clip(r, r.pos + 1)
      [] seek[1] = "previous" -> Clip(r, r.pos - 1)
      [] seek[1] = "first"    -> Clip(r, 1)
      [] seek[1] = "last"     -> Clip(r, r.size)
      [] seek[1] = "absolute" -> Clip(r, seek[2])
      [] seek[1] = "relative" -> Clip(r, r.pos + seek[2])

Moved(r, seek) == [r EXCEPT !.pos = Target(r, seek)]

OnRow(r) == r.pos \in 1 .. r.size

\* What getObject reads a column from.
Cell(r) == <<r.rset, r.pos>>

RowNumberOf(r) == IF r.rset # 0 /\ OnRow(r) THEN r.pos ELSE 0

----------------------------------------------------------------------------
Commands == {"none", "execute", "batch", "fetch", "columns", "rownumber"}
Results  == {"none", "ok", "error", "true", "false", "zero", "some"}

Init ==
    /\ stmt \in [Stmt -> {New(FALSE), New(TRUE)}]
    /\ \A s \in Stmt \ Prepared : ~ stmt[s].query
    /\ stack = <<>>
    /\ gone = {}
    /\ reply = [cmd |-> "none", stmt |-> CHOOSE s \in Stmt : TRUE, res |-> "none", row |-> <<>>]
    /\ fault = "none"

Running == fault = "none"

\* A command can start at the top level or in the trace of a suspended one.
CanStart(s) == Running /\ s \notin gone /\ Len(stack) < MaxDepth
CanExecute(s) == CanStart(s) /\ stmt[s].runs < MaxRuns

Answer(c, s, x) == reply' = [cmd |-> c, stmt |-> s, res |-> x, row |-> <<>>]

Push(f) == stack' = Append(stack, f)
Top == Last(stack)
Pop == stack' = Front(stack)
Pause(f) == stack' = Append(Front(stack), f)

\* The command ends without a variable write.
Ends(c, s, r, x) ==
    /\ stmt' = [stmt EXCEPT ![s] = r]
    /\ Answer(c, s, x)
    /\ UNCHANGED <<stack, gone, fault>>

Crash(f) == fault' = f /\ UNCHANGED <<stmt, stack, gone, reply>>

----------------------------------------------------------------------------
(* execute and batch. *)

\* The options are read before anything is cleared, and a plain statement's
\* arguments are counted.
ExecuteUsage(s) ==
    /\ CanStart(s)
    /\ Ends("execute", s, Usage(stmt[s]), "error")

\* SQLDBC refuses an option, or the binding of an argument fails.  The results of
\* the execution before are gone, isQuery still answers for it.
ExecuteRefused(s) ==
    /\ CanExecute(s)
    /\ Ends("execute", s, Attempt(stmt[s]), "error")

ExecuteFails(s) ==
    /\ CanExecute(s)
    /\ \E q \in BOOLEAN : Ends("execute", s, Refused(Attempt(stmt[s]), q), "error")

\* SQLDBC executes the statement and no OUT argument is to be stored.
ExecuteSucceeds(s) ==
    /\ CanExecute(s)
    /\ s \notin Prepared \/ NOut = 0
    /\ \E q \in BOOLEAN, n \in 0 .. MaxRows :
          LET a == Attempt(stmt[s]) IN
          Ends("execute", s, SetExecuteResult(Executed(a, a.runs, q, n)), "ok")

\* Execution k of s reads an INOUT variable, or stores OUT variable next - 1.
InFrame(s, k) == [op |-> "in", stmt |-> s, run |-> k, next |-> 1]
OutFrame(s, k) == [op |-> "out", stmt |-> s, run |-> k, next |-> 2]

\* Mutant: the results of the execution before are cleared after this one.
ExecuteThenClear(s) ==
    /\ CanExecute(s)
    /\ s \in Prepared /\ NOut > 0
    /\ \E q \in BOOLEAN, n \in 0 .. MaxRows :
          LET a == AttemptOnly(stmt[s]) IN
          /\ stmt' = [stmt EXCEPT ![s] = ClearResults(Executed(a, a.runs, q, n))]
          /\ Push(OutFrame(s, a.runs))
    /\ UNCHANGED <<gone, reply, fault>>

\* SdbPrepStmt::execute with OUT parameters: copyOutput stores them one by one
\* before the result set is looked at.  run is the execution whose arguments
\* outVarName points to.
ExecuteWithOut(s) ==
    /\ CanExecute(s)
    /\ s \in Prepared /\ NOut > 0
    /\ \E q \in BOOLEAN, n \in 0 .. MaxRows :
          LET a == Attempt(stmt[s]) IN
          /\ stmt' = [stmt EXCEPT ![s] = Executed(a, a.runs, q, n)]
          /\ Push(OutFrame(s, a.runs))
    /\ UNCHANGED <<gone, reply, fault>>

\* bind reads the variable of an INOUT parameter, after clearResults.
ExecuteReads(s) ==
    /\ CanExecute(s)
    /\ s \in Prepared /\ NOut > 0
    /\ LET a == Attempt(stmt[s]) IN
       /\ stmt' = [stmt EXCEPT ![s] = a]
       /\ Push(InFrame(s, a.runs))
    /\ UNCHANGED <<gone, reply, fault>>

\* Mutant: batch keeps the result set of the execution before.
BatchKeepingResults(s) ==
    /\ CanExecute(s)
    /\ \E q \in BOOLEAN, x \in {"ok", "error"} :
          Ends("batch", s, [AttemptOnly(stmt[s]) EXCEPT !.query = q], x)

\* batch ends with clearBatch and with no result set, whatever happened.
Batch(s) ==
    /\ CanExecute(s)
    /\ \E q \in BOOLEAN, x \in {"ok", "error"} :
          Ends("batch", s, Refused(Attempt(stmt[s]), q), x)

----------------------------------------------------------------------------
(* fetch. *)

\* There is no test for a result set: the call is made on a null pointer.
FetchWithout(s) ==
    /\ CanStart(s)
    /\ stmt[s].rset = 0
    /\ Crash("noResultSet")

\* The movement is refused, as for a forward only cursor, or leads to no row.
FetchNoRow(s, seek) ==
    /\ CanStart(s)
    /\ stmt[s].rset # 0
    /\ \/ Ends("fetch", s, stmt[s], "error")
       \/ /\ ~ OnRow(Moved(stmt[s], seek))
          /\ Ends("fetch", s, Moved(stmt[s], seek), "false")

\* The row cannot be read or a variable cannot be written: the cursor has moved.
FetchRowFails(s, seek) ==
    /\ CanStart(s)
    /\ stmt[s].rset # 0
    /\ OnRow(Moved(stmt[s], seek))
    /\ Ends("fetch", s, Moved(stmt[s], seek), "error")

\* Mutant: the row is read where the cursor was.
FetchListEarly(s, seek) ==
    /\ CanStart(s)
    /\ stmt[s].rset # 0 /\ OnRow(stmt[s])
    /\ Len(stmt[s].cols) = NCols
    /\ OnRow(Moved(stmt[s], seek))
    /\ stmt' = [stmt EXCEPT ![s] = Moved(@, seek)]
    /\ Push([op |-> "list", stmt |-> s, run |-> stmt[s].runs,
             row |-> [i \in 1 .. NCols |-> Cell(stmt[s])]])
    /\ UNCHANGED <<gone, reply, fault>>

\* getRowData of a list reads all columns, then writes the variables.
FetchList(s, seek) ==
    /\ CanStart(s)
    /\ stmt[s].rset # 0
    /\ Len(stmt[s].cols) = NCols
    /\ LET r == Moved(stmt[s], seek) IN
       /\ OnRow(r)
       /\ stmt' = [stmt EXCEPT ![s] = r]
       /\ Push([op |-> "list", stmt |-> s, run |-> r.runs,
                row |-> [i \in 1 .. NCols |-> Cell(r)]])
    /\ UNCHANGED <<gone, reply, fault>>

\* getRowData of an array writes each column, and its null indicator, as soon
\* as it has been read.
FetchArray(s, seek) ==
    /\ CanStart(s)
    /\ stmt[s].rset # 0
    /\ LET r == Moved(stmt[s], seek) IN
       /\ OnRow(r)
       /\ stmt' = [stmt EXCEPT ![s] = r]
       /\ Push([op |-> "array", stmt |-> s, run |-> r.runs, row |-> <<Cell(r)>>])
    /\ UNCHANGED <<gone, reply, fault>>

----------------------------------------------------------------------------
(* columns and rownumber. *)

Columns(s) ==
    /\ CanStart(s)
    /\ Ends("columns", s, stmt[s],
            IF ~ stmt[s].query THEN "error"
            ELSE IF stmt[s].cols = <<>> THEN "zero" ELSE "some")

RowNumber(s) ==
    /\ CanStart(s)
    /\ Ends("rownumber", s, stmt[s],
            IF ~ stmt[s].query THEN "error"
            ELSE IF RowNumberOf(stmt[s]) = 0 THEN "zero" ELSE "some")

\* Clearing, fetching into an array and asking for labels use the labels of all
\* columns.  A second filling of cols, after a trace of copyOutput has executed
\* the statement, copies those of the first to larger memory without counting
\* them, and frees them with the smaller; unless a wider result set before has
\* left room for both.
LabelsLost(s) ==
    /\ CanStart(s)
    /\ Len(stmt[s].cols) > NCols
    /\ Crash("staleLabel")

----------------------------------------------------------------------------
(* What else a trace can do. *)

\* db disconnect, or the deletion of the command.
Disconnect ==
    /\ Running /\ stack # <<>>
    /\ gone' = Stmt
    /\ UNCHANGED <<stmt, stack, reply, fault>>

\* The last handle of a statement is dropped or converted: freeIntRep deletes it.
LetGo(s) ==
    /\ Running /\ stack # <<>>
    /\ s \notin gone
    /\ gone' = gone \cup {s}
    /\ UNCHANGED <<stmt, stack, reply, fault>>

----------------------------------------------------------------------------
(* A suspended command goes on: its trace has ended. *)

Resumed(op) == Running /\ stack # <<>> /\ Top.op = op

Fetched(x) ==
    /\ Pop
    /\ reply' = [cmd |-> "fetch", stmt |-> Top.stmt, res |-> x,
                 row |-> IF x = "true" THEN Top.row ELSE <<>>]
    /\ UNCHANGED <<stmt, gone, fault>>

\* A trace has executed the statement again or deleted it: the loop over cols goes
\* on in a vector that was cleared, and perhaps filled again, or is gone.
RowIsStale == Top.stmt \in gone \/ stmt[Top.stmt].runs # Top.run

ArrayLoses ==
    /\ Resumed("array")
    /\ RowIsStale
    /\ Crash("staleRow")

\* Without a result set the vector is empty, and the loop past its end.
ArrayGoesOn ==
    Resumed("array") /\ Top.stmt \notin gone /\ stmt[Top.stmt].rset # 0

\* The next column is read at the place the cursor has now.
ArrayColumn ==
    /\ ArrayGoesOn
    /\ Len(Top.row) < Len(stmt[Top.stmt].cols)
    /\ Len(Top.row) < NCols /\ OnRow(stmt[Top.stmt])
    /\ Pause([Top EXCEPT !.row = Append(@, Cell(stmt[Top.stmt]))])
    /\ UNCHANGED <<stmt, gone, reply, fault>>

\* The column cannot be read, or a variable cannot be written or its trace fails.
ArrayColumnFails ==
    /\ ArrayGoesOn
    /\ Fetched("error")

\* Nothing of a statement is used any more that is disconnected and not deleted.
ArrayEnds ==
    /\ Resumed("array")
    /\ stmt[Top.stmt].rset # 0
    /\ Len(Top.row) = Len(stmt[Top.stmt].cols)
    /\ Fetched("true")

\* Everything was read before the first write; the null indicators follow.
ListEnds ==
    /\ Resumed("list")
    /\ \E x \in {"true", "error"} : Fetched(x)

\* bind and execute go on with the members of a statement that is deleted.
InLoses ==
    /\ Resumed("in")
    /\ Top.stmt \in gone
    /\ Crash("staleStatement")

\* The variable is not there, its value or another argument cannot be bound.  A
\* trace that has executed the statement may have left it a result set.
InFails ==
    /\ Resumed("in") /\ Top.stmt \notin gone
    /\ LET r == stmt[Top.stmt] IN
       stmt' = [stmt EXCEPT ![Top.stmt] = IF r.runs = Top.run THEN r ELSE Usage(r)]
    /\ Pop
    /\ Answer("execute", Top.stmt, "error")
    /\ UNCHANGED <<gone, fault>>

\* SQLDBC closes the result set that a trace has left, rset still points to it.
InKeeps ==
    /\ Resumed("in") /\ Top.stmt \notin gone
    /\ stmt[Top.stmt].rset # 0
    /\ Crash("keptResult")

InGoesOn == Resumed("in") /\ Top.stmt \notin gone /\ stmt[Top.stmt].rset = 0

InRefused ==
    /\ InGoesOn
    /\ \E q \in BOOLEAN : stmt' = [stmt EXCEPT ![Top.stmt] = Refused(@, q)]
    /\ Pop
    /\ Answer("execute", Top.stmt, "error")
    /\ UNCHANGED <<gone, fault>>

InExecutes ==
    /\ InGoesOn
    /\ \E q \in BOOLEAN, n \in 0 .. MaxRows :
          stmt' = [stmt EXCEPT ![Top.stmt] = Executed(@, Top.run, q, n)]
    /\ Pause(OutFrame(Top.stmt, Top.run))
    /\ UNCHANGED <<gone, reply, fault>>

\* copyOutput: another execution of the statement has left outVarName on its own
\* arguments, which are gone with it unless something else holds them, or the
\* statement itself is gone.
OutLoses ==
    /\ Resumed("out")
    /\ Top.next <= NOut
    /\ Top.stmt \in gone \/ stmt[Top.stmt].runs # Top.run
    /\ Crash("staleArgument")

\* Mutant: the loop over the parameters starts again.
OutWraps ==
    /\ Resumed("out")
    /\ Top.next <= NOut
    /\ Pause([Top EXCEPT !.next = IF @ = NOut THEN 1 ELSE @ + 1])
    /\ UNCHANGED <<stmt, gone, reply, fault>>

OutNext ==
    /\ Resumed("out")
    /\ Top.next <= NOut
    /\ Pause([Top EXCEPT !.next = @ + 1])
    /\ UNCHANGED <<stmt, gone, reply, fault>>

\* The variable cannot be written, or its trace fails: copyOutput gives back a
\* reference to the value that it does not have; the value is gone or the variable's.
OutFails ==
    /\ Resumed("out")
    /\ Crash("releasedOutput")

\* All OUT arguments are stored: setExecuteResult.
OutEnds ==
    /\ Resumed("out")
    /\ Top.next > NOut
    /\ LET r == stmt[Top.stmt] IN
       IF Top.stmt \in gone \/ (r.query /\ r.open = 0) THEN Crash("staleStatement")
       ELSE /\ stmt' = [stmt EXCEPT ![Top.stmt] = SetExecuteResult(r)]
            /\ Pop
            /\ Answer("execute", Top.stmt, "ok")
            /\ UNCHANGED <<gone, fault>>

----------------------------------------------------------------------------
Execution(s) ==
    \/ ExecuteUsage(s) \/ ExecuteRefused(s) \/ ExecuteFails(s)
    \/ ExecuteSucceeds(s) \/ ExecuteWithOut(s) \/ ExecuteReads(s) \/ Batch(s)

Asking(s) == Columns(s) \/ RowNumber(s) \/ LabelsLost(s)

Fetching(s) ==
    \/ FetchWithout(s)
    \/ \E seek \in Seeks : \/ FetchNoRow(s, seek) \/ FetchRowFails(s, seek)
                           \/ FetchList(s, seek) \/ FetchArray(s, seek)

Command(s) == Execution(s) \/ Asking(s) \/ Fetching(s)

\* An interrupted command goes on and can write its variables.
GoesOn ==
    \/ ArrayLoses \/ ArrayColumn \/ ArrayColumnFails \/ ArrayEnds \/ ListEnds
    \/ InLoses \/ InFails \/ InKeeps \/ InRefused \/ InExecutes
    \/ OutLoses \/ OutNext \/ OutEnds

Resume == GoesOn \/ OutFails

\* Any script, with any traces.
Next ==
    \/ \E s \in Stmt : Command(s) \/ LetGo(s)
    \/ Disconnect
    \/ Resume

Spec == Init /\ [][Next]_vars

\* Tcl runs a trace to its end and then the command it has interrupted.
Fairness == \A d \in 1 .. MaxDepth : SF_vars(Resume /\ Len(stack) = d)

FairSpec == Spec /\ Fairness

\* A quiet script: no trace executes the statement it interrupts, asks for its
\* rows, lets go of it or closes the connection.
Interrupted == {stack[i].stmt : i \in DOMAIN stack}

QuietNext ==
    \/ \E s \in Stmt \ Interrupted : Command(s) \/ LetGo(s)
    \/ Resume

QuietSpec == Init /\ [][QuietNext]_vars

\* A quiet script that fetches only from a statement whose last execute has
\* answered with the number of rows of a query, and whose OUT variables can be
\* written.
CarefulNext ==
    \/ \E s \in Stmt \ Interrupted :
          \/ Execution(s) \/ Asking(s) \/ LetGo(s)
          \/ (stmt[s].last = "query" /\ Fetching(s))
    \/ GoesOn

CarefulSpec == Init /\ [][CarefulNext]_vars

----------------------------------------------------------------------------
Frames ==
    [op : {"list", "array"}, stmt : Stmt, run : RunId,
     row : Seq((1 .. MaxRuns) \X (1 .. MaxRows))]
    \cup [op : {"in"}, stmt : Prepared, run : 1 .. MaxRuns, next : 1 .. NOut]
    \cup [op : {"out"}, stmt : Prepared, run : 1 .. MaxRuns, next : 2 .. NOut + 1]

Faults == {"none", "noResultSet", "keptResult", "releasedOutput",
           "staleRow", "staleLabel", "staleArgument", "staleStatement"}

\* Type invariant: the shape of the statements and of the suspended commands.
TypeOK ==
    /\ stmt \in [Stmt -> StmtType]
    /\ stack \in Seq(Frames)
    /\ gone \subseteq Stmt
    /\ reply \in [cmd : Commands, stmt : Stmt, res : Results,
                  row : Seq((1 .. MaxRuns) \X (1 .. MaxRows))]
    /\ fault \in Faults

\* The result set a statement points to is the one SQLDBC holds open for it and
\* SQLDBC answers that it is a query: whatever failed in between, and whatever
\* ran in the traces of execute itself.  The one execution that leaves a pointer
\* to a closed result set is one whose argument a trace of its own has read and
\* executed the statement: a fault, "keptResult", and the end of the model.
ResultIsOpen ==
    \A s \in Stmt : stmt[s].rset # 0 =>
        stmt[s].query /\ stmt[s].open = stmt[s].rset

\* The result set of a quiet script is that of the last execution it has tried:
\* rows of an execution before that are out of its reach.
ResultIsLatest ==
    \A s \in Stmt : stmt[s].rset \in {0, stmt[s].runs}

\* A statement has a result set after an execute that has answered with the number
\* of rows of a query.  An update, a batch and an execution that fails leave none
\* behind, with one exception: an execute that is refused for its options or the
\* number of its arguments, or in whose read traces the statement was executed,
\* leaves the rows of the execution before in reach of fetch.
QueriesHaveResults ==
    \A s \in Stmt :
        /\ stmt[s].last = "query" => stmt[s].rset # 0
        /\ stmt[s].rset # 0 => stmt[s].last \in {"query", "refused"}

\* The columns a row is read by were taken from the result set it is read from.
ColumnsOfResult ==
    \A s \in Stmt : \A i \in DOMAIN stmt[s].cols :
        stmt[s].rset # 0 /\ stmt[s].cols[i] = stmt[s].rset

\* A fetch that has returned true has delivered all columns of one row, and not
\* some from the row before a trace moved the cursor and some from the row after.
Whole(row) == Len(row) = NCols /\ \A i \in 1 .. Len(row) : row[i] = row[1]

RowsAreWhole == reply.res = "true" => Whole(reply.row)

\* No command that was interrupted by a trace goes on with pointers that are
\* gone, and none is left behind: with a quiet script the only faults are the
\* fetch without a result set and the OUT variable that cannot be written.
NothingStale == fault \in {"none", "noResultSet", "releasedOutput"}

\* A quiet script that fetches only after a query has answered, and whose OUT
\* variables can be written, never meets a fault.
NoFault == fault = "none"

\* What a script sees of its statements.
triedView == [s \in Stmt |-> stmt[s].runs]

resultView == [s \in Stmt |-> stmt[s].rset]

cursorView == [s \in Stmt |-> IF stmt[s].rset = 0 THEN 0 ELSE stmt[s].pos]

Executing(s) == \E i \in DOMAIN stack : stack[i].stmt = s /\ stack[i].op \in {"in", "out"}

busyView ==
    [s \in Stmt |-> IF s \notin Interrupted THEN "no"
                    ELSE IF Executing(s) THEN "execute" ELSE "fetch"]

Cursor == INSTANCE SdbCursorSpec
    WITH tried <- triedView, result <- resultView, cursor <- cursorView,
         busy <- busyView, got <- reply.row

\* In a quiet script a fetch delivers the row its cursor is on, of the last
\* execution of its statement, and no other command moves that cursor, whatever
\* is executed and fetched, and fails, in the traces of its writes.
ImplementsCursor == Cursor!Spec

\* Every command a trace has interrupted ends, unless it met a fault.
CommandsEnd == stack # <<>> ~> (stack = <<>> \/ fault # "none")

\* docs/index.md: "Querying column information before execute will return zero
\* columns."  The code answers with an error unless SQLDBC knows of a query.
ColumnsBeforeExecute ==
    reply.cmd = "columns" /\ stmt[reply.stmt].last = "none" => reply.res = "zero"
=============================================================================
