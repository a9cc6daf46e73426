------------------------------- MODULE SdbBind -------------------------------
(***************************************************************************)
(* The parameters of one prepared statement: how prepare matches the       *)
(* markers of the SQL to the parameters the database reports, how bind     *)
(* gives them the arguments of an execute, one after the other, and what   *)
(* SQLDBC reads and copyOutput writes once all have been accepted.         *)
(*                                                                         *)
(* bindParameter makes SQLDBC remember an address.  For a number that is   *)
(* the union outData of the Param; for text and bytes it is the inside of  *)
(* the Tcl value, which stays only as long as the value and this           *)
(* representation of it do.  An OUT parameter of any kind is bound to      *)
(* outData itself, where text and bytes have nothing but the pointer to    *)
(* their buffer.  Nothing is unbound between two executions.               *)
(* What the read trace of an INOUT variable may do in between is not part  *)
(* of this module but of SdbStatement.                                     *)
(***************************************************************************)
EXTENDS Integers, Sequences, FiniteSets

CONSTANTS
    Obj,        \* the Tcl values a script passes; of an INOUT variable, its value
    Content,    \* Obj -> what bind finds in it: "null", "number" or "word"
    Name,       \* parameter names, letter case aside
    None,       \* a positional marker; no value
    Hosts,      \* the host types the parameters of an instance have
    MaxParams,  \* bound: parameters of the statement
    MaxRuns     \* bound: executions

ASSUME BindAssumption ==
    /\ Content \in [Obj -> {"null", "number", "word"}]
    /\ None \notin Obj /\ None \notin Name
    /\ Hosts \subseteq {"number", "text", "bytes"}
    /\ MaxParams \in Nat /\ MaxRuns \in Nat

VARIABLES
    phase,      \* "new", "ready", "binding", or "gone" when prepare has failed
    params,     \* the vector of Param: name, inOutMode and hostType
    slot,       \* parameter -> the execution and the value it was last bound in
    freed,      \* parameters whose bytes a conversion has freed since
    outVar,     \* parameter -> outVarName, and the execution it is from
    runs,       \* executions so far
    args,       \* the arguments of the execution, <<name, value>>
    at,         \* the argument bind is at
    reply,      \* the last execute: its arguments, result, values read, written
    fault       \* the first access to memory that is gone, "none" before it

vars == <<phase, params, slot, freed, outVar, runs, args, at, reply, fault>>

----------------------------------------------------------------------------
Modes == {"in", "out", "inout"}
Param == [name : Name \cup {None}, mode : Modes, host : Hosts]

UpTo(S, n) == UNION {[1 .. k -> S] : k \in 0 .. n}

Unbound == [run |-> 0, obj |-> None]
Given(o) == [run |-> runs, obj |-> o]

P == DOMAIN params

IsIn(i)  == params[i].mode # "out"
IsOut(i) == params[i].mode # "in"

IsPositional == params # <<>> /\ params[1].name = None

Init ==
    /\ phase = "new"
    /\ params = <<>>
    /\ slot = <<>>
    /\ freed = {}
    /\ outVar = <<>>
    /\ runs = 0
    /\ args = <<>>
    /\ at = 1
    /\ reply = [res |-> "none", run |-> 0, args |-> <<>>, sent |-> <<>>, wrote |-> {}]
    /\ fault = "none"

----------------------------------------------------------------------------
(* prepare. *)

\* Mutant: markers of both kinds are let through.
CountedOnly(markers, count) == count = 0 \/ Len(markers) = count

\* What the scanner accepts: as many markers as the database has reported
\* parameters, all positional or all named.  Without parameters it does not run.
Scanned(markers, count) ==
    \/ count = 0
    \/ /\ Len(markers) = count
       /\ \/ \A i \in 1 .. count : markers[i] = None
          \/ \A i \in 1 .. count : markers[i] # None

Prepare(markers, reported) ==
    /\ phase = "new"
    /\ Scanned(markers, Len(reported))
    /\ params' = [i \in DOMAIN reported |->
                     [name |-> markers[i], mode |-> reported[i][1], host |-> reported[i][2]]]
    /\ slot' = [i \in DOMAIN reported |-> Unbound]
    /\ outVar' = [i \in DOMAIN reported |-> Unbound]
    /\ phase' = "ready"
    /\ UNCHANGED <<freed, runs, args, at, reply, fault>>

\* SdbPrepStmt_New deletes a statement that could not be prepared.
PrepareFails(markers, reported) ==
    /\ phase = "new"
    /\ phase' = "gone"
    /\ UNCHANGED <<params, slot, freed, outVar, runs, args, at, reply, fault>>

----------------------------------------------------------------------------
(* bind. *)

Running == fault = "none"

Execute(a) ==
    /\ Running
    /\ phase = "ready"
    /\ runs < MaxRuns
    /\ Len(a) = Len(params)
    /\ phase' = "binding"
    /\ runs' = runs + 1
    /\ args' = a
    /\ at' = 1
    /\ UNCHANGED <<params, slot, freed, outVar, reply, fault>>

Ends(r) ==
    /\ phase' = "ready"
    /\ reply' = r
    /\ UNCHANGED <<params, runs, args, at>>

Failed == [res |-> "error", run |-> runs, args |-> args, sent |-> <<>>, wrote |-> {}]

\* The number of arguments is not that of the parameters.
ExecuteMiscounted ==
    /\ Running
    /\ phase = "ready"
    /\ runs < MaxRuns
    /\ phase' = "ready"
    /\ runs' = runs + 1
    /\ reply' = [res |-> "error", run |-> runs', args |-> <<>>, sent |-> <<>>, wrote |-> {}]
    /\ UNCHANGED <<params, slot, freed, outVar, args, at, fault>>

Crash(f) ==
    /\ fault' = f
    /\ UNCHANGED <<phase, params, slot, freed, outVar, runs, args, at, reply>>

Binding == Running /\ phase = "binding" /\ at <= Len(args)

Arg == args[at][2]

\* The first parameter of the name of argument k, if the search gets there: it
\* compares with the name of every parameter before it.
FirstNamed(k) ==
    {i \in P : /\ params[i].name = args[k][1]
               /\ \A j \in 1 .. i - 1 : params[j].name \notin {None, args[k][1]}}

\* Mutant: named arguments are taken in their order.
TargetInOrder(k) == {k}

\* The parameter argument k is bound to, in a set that is empty if none is.
Target(k) == IF IsPositional THEN {k} ELSE FirstNamed(k)

\* The search finds no parameter of the name, or one that has no name: its name
\* is a null pointer.
BindUnknownName ==
    /\ Binding
    /\ Target(at) = {}
    /\ IF \E i \in P : params[i].name = None
       THEN Crash("noName")
       ELSE /\ Ends(Failed)
            /\ UNCHANGED <<slot, freed, outVar, fault>>

\* What stands for a name is a number, say: a value of another Tcl type than text.
BindOtherType ==
    /\ Binding
    /\ ~ IsPositional
    /\ Ends(Failed)
    /\ UNCHANGED <<slot, freed, outVar, fault>>

\* The parameters that lose their bytes when a number is read from value o.
LosesBytes(o) ==
    IF Content[o] = "null" THEN {}
    ELSE {j \in P : params[j].mode = "in" /\ params[j].host = "bytes" /\ slot[j] = Given(o)}

\* Mutant: a NULL is bound to no value.
BindNoValue(i) ==
    /\ slot' = [slot EXCEPT ![i] =
                   IF Content[Arg] = "null" THEN [Given(Arg) EXCEPT !.obj = None] ELSE Given(Arg)]
    /\ freed' = freed \ {i}

\* Mutant: a NULL is not bound.
BindUnlessNull(i) ==
    /\ slot' = [slot EXCEPT ![i] = IF Content[Arg] = "null" THEN @ ELSE Given(Arg)]
    /\ freed' = freed \ {i}

\* bindParameter, after the conversion the host type asks for.
BindValue(i) ==
    /\ slot' = [slot EXCEPT ![i] = Given(Arg)]
    /\ freed' = (freed \ {i}) \cup
                (IF IsIn(i) /\ params[i].host = "number" THEN LosesBytes(Arg) \ {i} ELSE {})

NextArg == at' = at + 1 /\ UNCHANGED <<phase, params, runs, args, reply, fault>>

Converts(i) == params[i].host = "number" => Content[Arg] # "word"

BindIn(i) ==
    /\ Binding
    /\ i \in Target(at)
    /\ ~ IsOut(i)
    /\ Converts(i)
    /\ BindValue(i)
    /\ outVar' = [outVar EXCEPT ![i] = Unbound]
    /\ NextArg

\* Mutant: the variable of the first execution stays.
BindOutOnce(i) ==
    /\ Binding
    /\ i \in Target(at)
    /\ IsOut(i)
    /\ IsIn(i) => Converts(i)
    /\ BindValue(i)
    /\ outVar' = [outVar EXCEPT ![i] = IF @ = Unbound THEN Given(Arg) ELSE @]
    /\ NextArg

\* An INOUT parameter starts with the value of its variable, copied.
BindOut(i) ==
    /\ Binding
    /\ i \in Target(at)
    /\ IsOut(i)
    /\ IsIn(i) => Converts(i)
    /\ BindValue(i)
    /\ outVar' = [outVar EXCEPT ![i] = Given(Arg)]
    /\ NextArg

\* Text or bytes of an INOUT variable that are longer than the parameter: the
\* message takes the length itself for the address of its text.
BindTooLong(i) ==
    /\ Binding
    /\ i \in Target(at)
    /\ IsIn(i) /\ IsOut(i) /\ params[i].host # "number"
    /\ Content[Arg] # "null"
    /\ Crash("lengthAsText")

\* The value is no number, too long, or the INOUT variable does not exist.  The
\* parameters before this one stay bound to the arguments of this execution.
BindFails(i) ==
    /\ Binding
    /\ i \in Target(at)
    /\ IsIn(i)
    /\ IsOut(i) \/ ~ Converts(i)
    /\ Ends(Failed)
    /\ UNCHANGED <<slot, freed, outVar, fault>>

----------------------------------------------------------------------------
(* execute, after bind. *)

Bound == Running /\ phase = "binding" /\ at > Len(args)

\* The address SQLDBC remembers for parameter i is inside a value of an earlier
\* execution, or inside a representation that a conversion has replaced.
Dangling(i) ==
    /\ ~ IsOut(i) /\ params[i].host # "number"
    /\ slot[i] # Unbound /\ Content[slot[i].obj] # "null"
    /\ slot[i].run # runs \/ i \in freed

ExecuteDangling ==
    /\ Bound
    /\ \E i \in P : Dangling(i)
    /\ Crash("deadArgument")

\* SQLDBC finds a parameter unbound, or fails for a reason of its own.
ExecuteFails ==
    /\ Bound
    /\ Ends(Failed)
    /\ UNCHANGED <<slot, freed, outVar, fault>>

Executes ==
    /\ Bound
    /\ \A i \in P : slot[i] # Unbound /\ ~ Dangling(i)

\* The OUT parameters that have text or bytes.
Indirect == {i \in P : IsOut(i) /\ params[i].host # "number"}

\* What SQLDBC finds at the addresses it was given.  For text and bytes of an
\* INOUT parameter it is the pointer to them.
Sent == [i \in P |-> IF i \in Indirect /\ IsIn(i) /\ Content[slot[i].obj] # "null"
                     THEN [slot[i] EXCEPT !.obj = None] ELSE slot[i]]

\* SQLDBC writes the text or bytes of OUT parameters, none of which is NULL, over
\* the pointer and the members of Param that follow it; of a text that is NULL
\* copyOutput takes what is in the buffer up to a zero byte nobody has put there.
OutOverwrites ==
    /\ Executes
    /\ Indirect # {}
    /\ Crash("outOverwritten")

\* copyOutput: the variable an earlier execution has named is written.
CopyOutputDangling ==
    /\ Executes
    /\ \E i \in P : outVar[i].run \notin {0, runs}
    /\ Crash("deadName")

\* Every variable named gets what is in outData, be the result NULL or not.  Bytes
\* that are NULL become an empty value.
CopyOutput ==
    /\ Executes
    /\ \A i \in Indirect : params[i].host = "bytes"
    /\ \A i \in P : outVar[i].run \in {0, runs}
    /\ Ends([res |-> "ok", run |-> runs, args |-> args, sent |-> Sent,
             wrote |-> {[param |-> i, var |-> outVar[i].obj] : i \in {j \in P : outVar[j] # Unbound}}])
    /\ UNCHANGED <<slot, freed, outVar, fault>>

Next ==
    \/ \E reported \in UpTo(Modes \X Hosts, MaxParams),
          markers \in UpTo(Name \cup {None}, MaxParams) :
          Prepare(markers, reported) \/ PrepareFails(markers, reported)
    \/ \E a \in [1 .. Len(params) -> (IF IsPositional THEN {None} ELSE Name) \X Obj] : Execute(a)
    \/ ExecuteMiscounted
    \/ BindUnknownName \/ BindOtherType
    \/ \E i \in P : BindIn(i) \/ BindOut(i) \/ BindTooLong(i) \/ BindFails(i)
    \/ ExecuteDangling \/ ExecuteFails \/ OutOverwrites
    \/ CopyOutputDangling \/ CopyOutput

Spec == Init /\ [][Next]_vars

----------------------------------------------------------------------------
(* Properties. *)

\* Types of the variables.
TypeOK ==
    /\ phase \in {"new", "ready", "binding", "gone"}
    /\ params \in UpTo(Param, MaxParams)
    /\ slot \in [P -> {Unbound} \cup [run : 1 .. runs, obj : Obj]]
    /\ freed \subseteq P
    /\ outVar \in [P -> {Unbound} \cup [run : 1 .. runs, obj : Obj]]
    /\ runs \in 0 .. MaxRuns
    /\ args \in UpTo((Name \cup {None}) \X Obj, MaxParams)
    /\ at \in 1 .. MaxParams + 1
    /\ reply.res \in {"none", "ok", "error"}
    /\ fault \in {"none", "noName", "deadArgument", "deadName", "lengthAsText", "outOverwritten"}

\* The arguments name every parameter, each once, and no value is given twice.
Proper(a) ==
    /\ \A k, l \in DOMAIN a : k # l => a[k][2] # a[l][2]
    /\ ~ IsPositional =>
          {a[k][1] : k \in DOMAIN a} = {params[i].name : i \in P}
          /\ Cardinality({params[i].name : i \in P}) = Len(params)

\* bind never compares an argument's name with a parameter that has none:
\* prepare has let no SQL with markers of both kinds through.
NamesAreThere == fault # "noName"

\* No OUT parameter has text or bytes: the only statements whose results get
\* into the variables at all.
NumbersOut == Indirect = {}

\* An execution with proper arguments of a statement whose results are numbers
\* reads and writes nothing that is gone, whatever executions there were before
\* it: refused ones that had bound some of the parameters, or ones that left a
\* parameter to the execution before.
ProperCallsAreSafe == Proper(args) /\ NumbersOut => fault = "none"

\* Such an execution, in whichever order its arguments are named, sends every
\* parameter the value given for it and stores every OUT parameter in the
\* variable given for it, and stores nothing else.
ProperCallsAreComplete ==
    reply.res = "ok" /\ Proper(reply.args) /\ NumbersOut =>
        /\ \A k \in DOMAIN reply.args : \E i \in P :
              /\ params[i].name = reply.args[k][1]
              /\ IsPositional => i = k
              /\ reply.sent[i].obj = reply.args[k][2]
              /\ IsOut(i) <=> \E w \in reply.wrote : w.param = i /\ w.var = reply.args[k][2]
        /\ Cardinality(reply.wrote) = Cardinality({i \in P : IsOut(i)})

\* Positional arguments reach the database in the execution they were given to,
\* the same value twice or not: none is left over from an execution before.  Of
\* text and bytes of an INOUT parameter nothing reaches it.
PositionalIsOfThisRun ==
    reply.res = "ok" /\ IsPositional =>
        \A i \in P \ Indirect : reply.sent[i] = [run |-> reply.run, obj |-> reply.args[i][2]]
=============================================================================
