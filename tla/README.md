# A TLA+ model of sdbtcl

sdbtcl is a Tcl extension over SQLDBC, the client library of SAP MaxDB. It is
a layer of C++ objects between two systems with lifetimes of their own: Tcl
values, commands and variables on one side, SQLDBC connections, statements and
result sets on the other. It starts no thread; everything runs on the
interpreter's thread. What is hard about it is *order*: scripts issue commands
in orders nobody tested, each call to SQLDBC may fail, Tcl destroys values and
commands when it likes, and storing into a Tcl variable can run another script
in the middle of a command.

## Inventory

| Part | Source | State | Operations |
|---|---|---|---|
| Session | `sdbtcl.cc/.h`, `sdbconn.cc/.h`, the ends of `sdbstmt.cc` | `SdbEnv`: count; `SdbConn`: SQLDBC connection, internal statement, tracked statements; `SdbStmt`: connection, handle, count; Tcl values: which statement they hold | load, `sdb connect`, `disconnect`, deletion of commands, `newstatement`, `prepare`, `freeIntRep`, `dupIntRep`, `myStmt` |
| Statement | `sdbstmt.cc`, `sdbconn.cc` | `rset`, `cols`, what SQLDBC answers to `isQuery`, the cursor | `execute`, `batch`, `fetch`, `columns`, `rownumber` |
| Parameters | `sdbstmt.cc` (`Param`, `SdbPrepStmt`) | what is bound to each parameter, `outVarName`, buffers | `prepare`, `bind`, `copyOutput` |
| Row data | `sdbstmt.cc` (`getRowData`) | reference counts of the values of a row | `fetch` as list or array |
| LOBs | `sdblob.cc/.h`, `sdbconn.cc` | LOB handle, open flag, count | `length`, `position`, `read`, `write`, `close` |
| Configuration | `sdbconn.cc`, `sdbstmt.cc` | session and statement options | options of `connect`, `configure`, `execute`, `newstatement` |
| Dispatch | `sdbconn.cc`, `sdbtcl.cc` | none | subcommand tables, argument counts |
| Utilities | `sdbutil.cc/.h` | the pool of literals | named values, upper case, error text |
| Transactions, queries of state | `sdbconn.cc` | none of the extension's | `commit`, `rollback`, `is`, `get`, `serial` |

How they meet:

- A database command owns its `SdbConn`; ~SdbConn is meant to end the handles
  of its statements, and gives the SQLDBC connection back to `SdbEnv`.
- A statement points to its connection and is counted by the Tcl values that
  hold it; the internal statement is pointed to by the connection and counted
  by nobody.
- `execute` leaves a result set in the statement that `fetch`, `columns` and
  `rownumber` use. Every new execution replaces it.
- `bind` hands SQLDBC addresses inside Tcl values; `copyOutput` stores results
  in Tcl variables after the execution.
- `fetch` and `copyOutput` write Tcl variables, and `bind` reads those of INOUT
  arguments. A trace on one of them is a callback: it may run any command of the
  extension, convert any Tcl value and end any connection before the interrupted
  command goes on.

The hard behaviours are listed with their lines under `hazards` in
`PROJECT.json`.

What makes each part correct:

- Session: counts are right, nothing is freed too early or twice, nothing is
  left behind but what is known, a connection's end touches nobody else's
  statements, freed memory is not used.
- Statement: no command reads a result set, a column or a row of another
  execution; a row is delivered whole; a fetch after a query is safe; commands
  end.
- Parameters: what is executed is what was given in this execution, in the
  right place, whatever was bound before.
- Row data: every value has as many references as holders, no store of a value
  that is gone, the row that was read is in the variables.
- LOBs: what nobody holds is closed, nothing is closed after the row it belongs
  to, a LOB that is read piece by piece comes complete.
- Configuration: the settings in force are those asked for, or an error says
  they are not.

## Modules

| Module | What it is |
|---|---|
| `SdbSession` | Lifetimes: one action per command or Tcl callback, with a stack of commands suspended in traces |
| `SdbSessionSpec` | What a script is promised about sessions and statements, without counts and pointers |
| `SdbSessionProofs` | Theorems about `SdbSession`, with TLAPS proofs |
| `MCSession` | Instance of `SdbSession`, with its symmetry |
| `SdbStatement` | Result sets and cursors, with a stack of commands interrupted by traces |
| `SdbCursorSpec` | What a script is promised about rows and cursors, without commands, traces and SQLDBC's side |
| `SdbStatementProofs` | Theorems about `SdbStatement`, with TLAPS proofs |
| `MCStatement` | Instance of `SdbStatement` |
| `SdbBind` | Parameters of one prepared statement, bound one at a time |
| `SdbBindProofs` | Theorems about `SdbBind`, with TLAPS proofs |
| `MCBind` | Instance of `SdbBind` |
| `SdbRowData` | Reference counts of the values of rows and OUT parameters, with traces between two stores |
| `SdbRowDataProofs` | Theorems about `SdbRowData`, with TLAPS proofs |
| `MCRowData` | Instance of `SdbRowData`, with its symmetry |
| `SdbLob` | LOB objects and their values, what closes them, what reading delivers |
| `SdbLobProofs` | Theorems about `SdbLob`, with TLAPS proofs |
| `MCLob` | Instance of `SdbLob` |
| `SdbConfigure` | The words of connect, configure, newstatement, prepare and execute, and the options in force |
| `SdbConfigureProofs` | Theorems about `SdbConfigure`, with TLAPS proofs |
| `MCConfigure` | Instance of `SdbConfigure` with the words scripts write |

The modules do not compose by INSTANCE: each takes one kind of state of the
same objects, and where they meet one abstracts what the other details.
`SdbStatement` knows that a fetch stores values one by one, `SdbRowData` what
happens to their counts; `SdbStatement` knows that an execute may be refused by
its options, `SdbConfigure` by which; `SdbLob` takes "the row, the statement or
the session goes" as one step that the other two modules have many ways for.
`SdbSession` and `SdbStatement` both have traces: the first asks whether an
interrupted command still has its statement and connection, the second whether
it still has its result set, columns and arguments.

A definition whose comment starts with "Mutant" is not part of the model: it
is a changed form of the definition after it, used to see that a property
notices that change.

### SdbSession

`conn`, `stmt` and `env` are the objects with the members that matter:
reference counts, the pointer to the owner, what the pointer to the SQLDBC
statement points to (`none` a null pointer, `open` a usable statement, `stale`
one SQLDBC destroyed with its connection), and what became of the parameters of
a prepared statement (`params`). `sessions` are the SQLDBC connections not yet
released. `rep` says which statement each Tcl value has in its internal
representation; `cmd` which connection a command runs on. `fault` records the
first use of one of these objects after its end; nothing happens after it. What
a statement holds inside is the subject of `SdbStatement` and `SdbRowData`.

A Tcl command is one action, unless it comes back to its statement after it has
accessed a Tcl variable: `fetch -asarray` for its next column, a prepared
`execute` for its next INOUT or OUT argument. Then it is suspended on `stack`
(`ImplicitStarts`, `HandleStarts`) as a frame with its statement and the value
that named it, and any command may follow: that is the trace. `Resume` goes on
with the statement that was found at the start, as the code does. A trace that
converts the handle of the command it interrupts deletes the statement under it
(`FreeIntRep`, `sdbstmt.cc:885`); one that disconnects takes the handles of a
running internal statement. A `fetch` of a list uses nothing of its statement
once it has written a variable and stays one action.

`Disconnect` is all three ways a database command can go (`disconnect`,
`rename`, redefinition): Tcl calls `SdbConn_Delete` in each. `FreeIntRep` is
the death of a value and its conversion to another type. `Duplicate` models
what `Tcl_DuplicateObj` does with a `dupIntRep` that does not set the type of
the copy: the copy is an empty string, the reference is never returned.

`release` deletes every statement through `SdbStmt*`, and `~SdbStmt` is not
virtual (`sdbstmt.h:62`): `Delete` gives back what the base class has, and the
parameters of a prepared statement, their names and OUT buffers, are lost with
its last handle. Only the `unique_ptr` of a `prepare` that fails runs
`~SdbPrepStmt` (`DeletePrepared`).

`Known` is what ~SdbConn iterates over. `statements` starts empty and nothing
inserts into it, so in every reachable state it is just the internal statement;
the model keeps the set to say so (`StatementsTied`).

`CarefulSpec` has two conditions on a script: it lets go of the handles of a
connection before it ends it (`HandlesDroppedFirst`), and no trace takes the
statement from a command it interrupts (`RunningUndisturbed`), neither by
converting the value that names it nor by disconnecting under a command without
a handle.

`SdbSessionSpec` knows sessions, for each statement the session it can be used
in, which are held by the script or are a session's own, which are spent, and
the interrupted commands. A session is closed only when no handle of it is left
and no interrupted command runs on its own statement; a handle that an
interrupted command has named is not let go of; a command that goes on has its
statement still. `Promise` in `SdbSession` is its instance under the refinement
mapping, and `ImplementsPromise` its specification.

### SdbStatement

The statements of one connection, plain (`SdbStmt`) and prepared
(`SdbPrepStmt`). `rset`, `cols` and `query` are the members and what SQLDBC
answers; `open`, `size` and `pos` are SQLDBC's side. Result sets have numbers:
the k-th execution attempt makes the k-th. `last` is how the last execute or
batch has ended; "refused" is an execute that failed without clearing what there
was: for its options, for the number of its arguments (`Usage`), or after its
own read trace has executed the statement.

A command is one action unless it accesses variables. Then it pushes a frame and
is suspended in that access; the actions that go on (`ArrayColumn`, `ListEnds`,
`InExecutes`, `OutNext`, `OutEnds`, ...) apply to the top frame. Any command may
start on top of it: this is the trace. `bind` reads the variable of an INOUT
argument after `clearResults` (`ExecuteReads`), `copyOutput` writes those of OUT
arguments after the execution. A frame remembers the execution it works for
(`run`), so that the model can tell whether its pointers are still good. `gone`
are the statements a trace has deleted (`LetGo`) or disconnected.

The first use of what is gone is a `fault` and the end of the model: the fetch
without a result set (`noResultSet`), the row of a statement executed again or
deleted (`staleRow`), an argument or a statement that is not there any more
(`staleArgument`, `staleStatement`), and three more that need saying:

- `releasedOutput`: a `copyOutput` that cannot store a value gives back a
  reference to it that it does not have (`sdbstmt.cc:852`, `OutFails`). Tcl has
  freed that value, or the variable still has it. Every failure of a store leads
  there; it is the same fault as in `SdbRowData`.
- `keptResult`: a trace that runs while `bind` reads a variable has executed the
  statement, and SQLDBC closes the result set `rset` points to (`InKeeps`).
- `staleLabel`: a trace of `copyOutput` has executed the statement and filled
  `cols`, and `setExecuteResult` fills it again. The vector grows past what was
  reserved, the columns are copied without counting their labels, and those are
  freed with the smaller vector (`sdbstmt.cc:230`, `sdbstmt.h:20-23`). The next
  use of a label is the fault (`LabelsLost`).

Where undefined behaviour may go unnoticed (an iterator into a vector that was
cleared and filled again, an argument something else still holds, a vector with
room left) the action that meets the fault and the one that goes on with what is
there now are both possible.

`QuietSpec` restricts traces to other statements than the interrupted ones, and
they do not disconnect; `CarefulSpec` restricts fetches to statements whose last
`execute` answered with a query's row count and executions to OUT variables that
can be written.

`SdbCursorSpec` knows of each statement how often it was executed, the execution
whose rows it has, the row it is on, and whether an execute or a fetch is under
way. A fetch that writes variables is two steps of it, a start and an end, with
any steps of other statements between them; the single writes are stutters.
`Cursor` in `SdbStatement` is its instance under the refinement mapping (the
stack becomes `busyView`), and `ImplementsCursor` its specification.

### SdbBind

One prepared statement and the executions of it. `Prepare` accepts what the
marker scanner accepts. `Execute` starts `bind`, each `Bind...` action handles
one argument as one turn of its loop, and `CopyOutput` is the SQLDBC call with
what follows. `slot` is what SQLDBC remembers for each parameter: the value and
the execution it was bound in. A parameter that is bound by address is
`Dangling` when that execution is over or when a conversion has freed the
bytes. A value that is a name but has another Tcl type is refused
(`BindOtherType`). What a trace on an INOUT variable can do while `bind` reads
it is in `SdbStatement`.

Arguments have one of three contents: empty (bound as NULL), a number, or a
word. For an INOUT parameter the value stands for the variable and its value
at once. A failure of `copyOutput` after some variables were written is
`ExecuteFails`.

An OUT parameter is bound to the union `outData` whatever its host type is. For
a number that is right. For text and bytes the union holds a pointer to the
buffer, so SQLDBC reads the pointer as the value (`Sent`) and writes the result
over it and over the members behind it (`OutOverwrites`): no result of text or
bytes gets into a variable. The properties about OUT parameters therefore speak
of statements whose results are numbers (`NumbersOut`). They say which
variables are written and not what is in them: `getOutObj` does not look at the
length SQLDBC reports (`sdbstmt.cc:693`), so that for a NULL number the
variable gets whatever `outData` has, and no property can say otherwise.
`BindTooLong` is the refusal of a text that is too long: its message takes the
length for the address of a text.

### SdbRowData

`mem` is the reference count of each value, `tcl` what the variables hold,
`kept` what the script has copied, `owned` the references of `getRowData`
itself. A call stores one value per step; between two steps, which is where
write traces run, the script may unset variables and elements, and copy or drop
values. `StoreElement` and `StoreList` include a trace that fails after the
store. A trace that stores a value of its own in place of the one just stored
does to the counts what `Unset` does.

What the model says of the code, and the properties state:

- In list mode every value of a row keeps a reference for ever once a list is
  stored: the columns, NULL and the indicators alike (`OnlyListsAreLost`). No
  failure loses any other.
- In array mode NULL and the two indicators are shared without a reference, and
  Tcl frees them with the last element that has them. A later column that needs
  the value again stores freed memory (`ElementFreed`). That takes a trace that
  unsets, one variable for row and indicators, or columns with the same label
  (`ProperFetchesAreSafe`).
- A `copyOutput` that cannot store a value gives back a reference it does not
  have, every time (`OutFails`).

Besides, `getRowData` makes NULL and the indicators for every row and frees them
only through their users: those that no column of the row uses leak
(`sdbstmt.cc:448-450`). They never have a reference and are not in the model.

### SdbLob

`obj` is the SdbLob, `sql` the SQLDBC LOB in it, `rep` the values that hold
it. `reach` are the values a script still has; `listed` those a row list keeps
alive (the references `SdbRowData` shows lost). `Destroy` is the last `release`:
the destructor closes a LOB unless the script has, and does not look at the
answer (`sdblob.h:20`). If the database refuses, the LOB stays open with nobody
left to close it; `refused` remembers such LOBs, and `DroppedAreClosed` names
them as one of the ways a LOB stays open. When a row, a statement or a session
goes (`SourceGoes`) the SdbLob is not told; the next command or the destructor
then uses a LOB that is gone (`UseGone`, `DestructorFails`). The code has no
guard against the first, so that no property rules it out.

`Characters` is what one `read` delivers. The length a script gives is the size
of the buffer in bytes, although `docs/index.md` and `sdbconn.cc` call it
characters: text of wider characters comes in smaller pieces, and nothing at
all comes if the next character does not fit. `Offset` gives for each LOB the
bytes before each character and at the end, so that what fits is the greatest
number of characters whose bytes do (`Fits`). `LoopReads` is the loop of the
documentation, which takes an empty piece for the end. A word where an option
name belongs, as in `db read junk $lob 5`, is not looked at, and `write`, which
the documentation says always fails, changes nothing else.

### SdbConfigure

A command is the sequence of its words; one action is one command with one
outcome. `connect` lets the last of two equal options count. The code does not
look whether `setAutocommit`, `setTransactionIsolation` and `setSQLMode` have
succeeded (`sdbconn.cc:171-179`, `277`, `285`, `293`): SQLDBC may take any part
of the settings of a command (`Takes`), and no script is told. `ignored`
remembers those it has refused when they were last set. `SettingsAreAsked`
holds for the others; about a refused one nothing can be said but that the one
before it stays in force. `configure` applies pair after pair and leaves those
before a refused one in force; the options of statements are collected first
and applied in the order of `StmtOptions`. `Parsed` is where the options of a
statement end: the last word is never one.

`Verdict` tells which values are accepted, refused, or sent past the end of a
table: `findNamedValue` stops at a null pointer its tables do not have, so a
name that is in none reads on. Likewise an option without a value reads past
the words (`ConfigureOdd`, `ExecuteWithoutSql`), and asking for the option of
the empty name past the name (`Query`). The tables' last rows make the empty
name a level and a mode. `newstatement` and `prepare` ignore the words behind
those they need.

Words are compared as they are: letter case, and the abbreviations of
Tcl_GetIndexFromObj, are left out.

## Runs

| Run | Question | Answer |
|---|---|---|
| `session_any` | Can a script bring counts, sessions or handles out of step? | No: counts are exact. What leaks is of three kinds: statements that were internal or duplicated, and the parameters of a prepared statement with its last handle. Objects are used after their end only through a statement that outlived its connection, or by a command whose own trace has taken its statement |
| `session_careful` | Is a script safe that drops handles first and whose traces leave the statement they interrupt alone? | Yes, and it sees the promise of `SdbSessionSpec` |
| `session_disconnect` | Is a statement that outlives its connection "made inoperable" (`sdbstmt.h:75-78`)? | No: it keeps its pointers (violation) |
| `statement_any` | Can nested or failing commands leave a result set, its columns and `isQuery` from different executions, and which failures keep a result set? | No, up to a fault; only those refused before anything is cleared, or executed again in their own read traces |
| `statement_quiet` | If traces leave the interrupted statement alone, are rows those under the cursor, and results the last ones? | Yes: it sees the promise of `SdbCursorSpec`. Two faults are left: the fetch without a result set, and the OUT variable that cannot be written |
| `statement_careful` | Is a quiet script safe that fetches only after a successful query and whose OUT variables can be written? | Yes |
| `statement_ends` | Does every interrupted command end? | Yes, or it meets a fault |
| `statement_columns` | Are there "zero columns" before `execute` (`docs/index.md:258`)? | No: an error (violation) |
| `bind` | Do proper arguments arrive complete, whatever happened before? | Yes, of statements whose results are numbers |
| `rowdata` | Through failures and traces, which references are lost, which values stored after they are gone, and what has a fetch that succeeded stored? | Those of lists; shared ones, if traces unset, variables or labels coincide; the row |
| `lob` | Are LOBs closed that nobody holds, can a destructor close one that is gone, does the loop of the documentation deliver the LOB and end? | Yes, unless duplicated, listed, or refused by the database in a destructor that does not look; only if the script let an open one outlive its source; yes, if the widest character fits into a piece |
| `configure` | Are the settings in force those asked for, for whom, and are documented calls taken by the extension? | Yes, also after refused calls, but for the settings SQLDBC has refused, which nobody is told |

Bounds, and why they are enough:

- Session: two connections, three statements, two values, two names, one
  duplication per statement, two commands suspended in each other's traces. Two
  connections show that one's end leaves the other alone; three statements give
  each connection its internal one and a script one of its own, or one script
  two. The theorems drop these bounds.
- Statement: a plain and a prepared statement, two columns, two OUT parameters,
  two executions of each, two nested commands, one row (`statement_any`) or two
  (torn rows need two). The inner command of a trace and the outer one are the
  only two that ever interact; deeper nesting interrupts the inner one the same
  way. `statement_any` tells states apart by all variables but `reply`
  (`AllButReply`), which no action reads and none of its properties but the
  type invariant speaks of. `statement_ends` has one statement and three
  executions, so that a trace can execute again twice.
- Bind: up to two parameters, each of every mode, as number or bytes; text
  behaves as bytes without the conversion. Two executions: the one that leaves
  something behind and the one that finds it. The theorems drop these bounds.
- Row data: two columns, two variables, two calls, one copy kept. Two calls
  show a row that replaces one; two columns share a NULL and an indicator. That
  columns with one label free a value a third needs takes three columns; the
  theorems hold for any number.
- LOBs: a CLOB with characters of one and three bytes and a BLOB, two values,
  one duplication, positions up to 2. Lengths of -2 (no buffer), 1 (too small
  for the wide character) and 3 (enough).
- Configure: up to two options and one of the tails that end a command, seven
  words in all commands together: a longest command and a short one, or three
  short ones. One plain and one prepared statement besides the internal one. The
  theorems hold for words of any number and length.

`CHECK_DEADLOCK FALSE` everywhere: a script may stop, a fault ends everything,
and executions are bounded.

Fairness is assumed in two places. In `statement_ends`, for each depth of the
stack, a command that is again and again on top gets to go on: Tcl runs the
script of a trace to its end and then returns to the command that wrote the
variable; scripts that never end are the script's affair. In `SdbLob`, a script
in its reading loop goes on reading (weak fairness of the read and its refusal
together); that SQLDBC ever fails is not assumed.

## Proofs

`SdbSessionProofs` proves, for any finite numbers of connections and values and
any set of statements:

- `TypeCorrect`, `EnvironmentCounted`, `SessionsHaveOneCommand`,
  `StatementsCounted`, `HandlesStayLive`, `OpenHandlesCorrect`,
  `LeaksAreKnown`, `FaultsExplained`: the invariants of `session_any`;
- `HandlesEnd`, `ParamsLeakWithTheHandle`: its action properties;
- `CarefulScriptsAreSafe`, `OnlyDuplicatesGoStale`,
  `CarefulScriptsGetThePromise`: those of `session_careful`, the last one the
  refinement.

The assumptions are those of the module: `None` is no object, connections and
values are finite sets (their cardinality is counted), bounds are naturals. The
inductive invariant is `Inv`: types, `SessionInv` (the environment's count
against the connections, sessions against commands) and `StatementInv` (counts
of statements against values, `StatementsTied` and `StackTied`).
`StatementsTied` is the strengthening: the fault properties need to know that a
statement with a handle points to a connection and that no connection ever
tracks a statement. `StackTied` says what a suspended command may find: its
statement is the internal one of a connection, or the value that named it holds
it or nothing. So a command that cannot go on has lost its statement to its own
trace or runs on one that outlived its connection. No run checks the two by
themselves; the proof needs and has them. For careful scripts the invariant
adds that every suspended command still has its statement, which
`RunningUndisturbed` keeps and the refinement needs when the command goes on.

`SdbStatementProofs` proves, for any set of statements and any numbers of
columns, OUT parameters, executions, rows and nested commands:

- in every script (`Spec`): `TypeCorrect`, `ResultsAreOpen`,
  `QueriesLeaveResults` and `ColumnsMatch`, the invariants of `statement_any`;
- in quiet scripts (`QuietSpec`): `NothingGoesStale` and `ResultsAreLatest`,
  those of `statement_quiet`, `QuietScriptsGetCursors`, its refinement, and
  `FetchedRowsAreWhole`: a fetch that returns true has delivered a row (the
  refinement says which row, but not that there is one);
- in careful scripts (`CarefulSpec`): `CarefulScriptsAreSafe`.

The only assumptions are that there is a statement, at least one column, and
that the bounds are naturals. The invariant for every script is `IInv`: types,
and `Consistent` of each statement by itself. The three properties are not
inductive without each other: `SetExecuteResult` appends to `cols`, so that
`ColumnsOfResult` needs an empty `cols` whenever there is no result set, and
`ResultIsOpen` needs `clearResults` before every execution. One lemma per
operation on a statement (`AttemptConsistent`, `ResultConsistent`, ...) carries
it; the lemmas about the actions only say which operation is applied.

Quiet scripts need `QuietInv` besides: the suspended commands belong to
different statements, and each still finds its statement as it left it
(`Undisturbed`). A fetch in array mode has read its columns so far from the
place the cursor still has, one in list mode has them all, and that place is a
row of the result; an execute with OUT parameters has no result set yet, no
columns, and, once SQLDBC has executed it, its own result set open before the
first row. This is what the refinement needs when the command ends: each action
is mapped to a step of `SdbCursorSpec` or a stutter (`CursorNext`), from what
its operation does to the view of one statement (`OneView`). Of all faults two
are left to a quiet script (`NothingGoesStale`): the fetch without a result
set, which `CarefulScriptsAreSafe` excludes since a statement whose last
execute has answered with a query has one, and the OUT variable that cannot be
written, which it excludes by assumption, since the code makes every such
failure a fault.

`SdbBindProofs` proves, for any values and names, any of the host types and any
numbers of parameters and executions, all invariants of `bind`:

- `TypeCorrect`, and `NamesAreCompared`: prepare lets no statement through that
  has parameters with and without names (`OneKind`), and the search for a name
  starts only where there are names;
- `PositionalArgumentsArrive`, `ProperCallsSafe`, `ProperCallsComplete`, about
  the arguments.

The assumptions are those of the module: what the contents of values are, that
`None` is no value and no name, that bounds are naturals. The last three
theorems share the invariant `PlacedInv`, which says what the loop of bind has
done so far: each argument it has passed is in the parameter it names, nothing
has freed it, and the variable of an OUT parameter is this execution's. A turn
of the loop keeps that (`TurnPlaces`) because two arguments of a proper call
never have the same parameter (`TargetsDiffer`) nor the same value. The first
is counting: n arguments that name n different parameters name each once
(`EachOnce`, from the library's theorem that a surjection between finite sets of
the same size is injective). At the end of the loop every parameter has an
argument (`TargetsCover`), so nothing an earlier execution has left is used, and
the variables written are as many as the OUT parameters (`OneVariableEach`).

`SdbRowDataProofs` proves, for any finite set of variables and any numbers of
columns, calls and copies, all invariants of `rowdata`, and one more:

- `CountsAgree`: the count of a value is the number of its holders
  (`CountsAreHolders`). Counting the places of a variable that changes is the
  work of it: a store takes a value out of one place and puts one in another,
  and the lemmas about `Held` say what that does to the cardinality. The
  variables are assumed to be finitely many for that reason alone;
- `TypeCorrect` and `LostAreListed`, from the same invariant `CountInv`: types,
  counts that are naturals or "freed" (the type invariant says of every value
  in a variable or a copy that a call has made it and nothing has freed it),
  that values not made yet are held by nothing (`NewAreUnused`), that
  getRowData's own references are those it gives back when it fails and those
  lost to lists (`OwnedAreListed`), and that `copyOutput` has not made the
  values to come (`OutAreUnused`);
- `ProperFetchesSafe`: `SafeInv` says that while a fetch runs whose labels and
  variables differ and whose traces unset nothing, every value it has stored is
  still in its place, so that the shared ones it needs again have a holder;
- `FetchedIsThere`: `StoredInv` says which part of the row is in the variables
  after each store, of columns with one label the last.

`SdbLobProofs` proves, for any LOBs, any finite set of values and any sizes,
all invariants of `lob`:

- `LobsCounted`, `OpenLobsAreHeld` and `DestructorsSafe`. The invariant
  `LobInv` has the counts (`RefsCounted`, which no run checks by itself), that
  a value with a LOB can be reached or is listed (`HoldersAreKnown`), that
  `isLobOpen` agrees with the database unless a destructor's close was refused
  (`OpenAgrees`), and that a script which can still reach an open LOB that is
  gone had it open when that happened (`GoneAreLeft`). Without the counts a LOB
  that is closed by its destructor might still be in a value;
- `LobTypeCorrect` and `LoopsDeliver`. What a read delivers is the greatest
  number of characters that fit; a lemma (`Greatest`) shows that there is one,
  from the minimum principle for natural numbers. `LoopInv` adds to the
  property that a loop in progress stands where its pieces end
  (`LoopKeepsUp`).

The assumption about texts is that each character has one to four bytes, in a
BLOB one.

`SdbConfigureProofs` proves, for any words scripts may write, all properties of
`configure`: `ConfigTypeCorrect`, `SettingsAsked`, `WellFormedTaken` and the
action property `OnlyNamedChange`. Commands are sequences of words of any
length, so the work is in the lemmas about words: where the options of a
command end (`ParsedRight`, `ParsedTo`), that the word in force for an option
is the last one given for it (`ConfigRight`, `AppliedRight`, `ConnectedRight`),
which option is the one refused (`RefusedRight`). The invariant `ConfigInv`
says that settings are typed and none is asked for before `connect`, that the
level in force, unless SQLDBC has refused one, has the name that was asked for
(`LevelAsked`), that the options of every statement are typed, and that the
statement of the last command has what the command gave (`OptionsGiven`).
`OnlyNamedChange` is proved step by step with the invariant (`StepRight`);
`WellFormedTaken` needs of it only that no handle begins with a dash. Assumed
are the forms of words: numbers are truth values too, options begin with a
dash, handles do not, no name of a level is a number.

Only model-checked: liveness (`CommandsEnd`, `LoopEnds`), which is out of reach
of the proof system, and the two violations. Every other property of a run is
a theorem.

## Findings

- A statement that outlives its connection is not made inoperable
  (`sdbconn.cc:13`): `statements` is never filled.
- `columns` before `execute` is an error, not zero columns (`sdbconn.cc:455`).

## Not modelled, and the plan

In this order:

1. An abstract call that `SdbBind` implements for proper arguments.
2. The abbreviations and letter cases of option names (`maybeOption`, upper
   case conversion) as operators against reference definitions.

Left out:

- `commit`, `rollback`, `is`, `get` and `serial`: one call to SQLDBC, no state
  here.
- What `columns` says of a column: a translation of what SQLDBC says.
- Subcommand tables and argument counts answer with a usage error before
  anything is changed; where a count decides what is done it is in
  `SdbConfigure`.
- The pool of literals: `releaseTclStrings` is never called.
- Error texts, the test framework and the build.
