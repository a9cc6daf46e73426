----------------------------- MODULE SdbRowData ------------------------------
(***************************************************************************)
(* The Tcl values getRowData makes of the columns of a row and copyOutput  *)
(* of OUT parameters, and their reference counts.                          *)
(*                                                                         *)
(* A value is made without a reference.  Storing it in a variable or in a  *)
(* list adds one, and the last one given back frees it.  As an array, a    *)
(* row is stored column by column; every NULL of it is one shared value,   *)
(* as are the two indicators, and getRowData has no reference of its own   *)
(* to them.  As a list, it collects the columns with a reference of its    *)
(* own to each and stores two lists.  Every store may run a trace, so the  *)
(* steps of the script come between any two.                               *)
(***************************************************************************)
EXTENDS Integers, Sequences, FiniteSets

CONSTANTS
    Var,        \* the variables of the script
    NoVar,      \* fetch without a variable for the indicators
    NCols,      \* columns of the row, or OUT parameters
    MaxCalls,   \* bound: calls of getRowData and copyOutput
    MaxKept     \* bound: values the script has copies of

ASSUME RowDataAssumption ==
    /\ NoVar \notin Var
    /\ IsFiniteSet(Var)
    /\ NCols \in Nat \ {0}
    /\ MaxCalls \in Nat /\ MaxKept \in Nat

VARIABLES
    label,      \* column -> the first column that has the same label
    now,        \* calls of getRowData and copyOutput so far
    call,       \* the one that runs or, if it has succeeded, the last one
    mem,        \* value -> its reference count, or Freed
    tcl,        \* variable -> what it is, and the values in it
    kept,       \* values the script has copied elsewhere
    owned,      \* value -> references of getRowData itself, lost ones included
    listed,     \* the values of the lists that were stored (history)
    fault       \* the first use of freed memory, "none" before it

vars == <<label, now, call, mem, tcl, kept, owned, listed, fault>>

----------------------------------------------------------------------------
Cols == 1 .. NCols

\* The values of a call: one for each column, and the three shared ones.
Null == NCols + 1
True == NCols + 2
False == NCols + 3

Obj == (1 .. MaxCalls) \X (1 .. NCols + 3)

Shared(o) == o[2] \notin Cols

Freed == -1

\* How many of the references in f are to o.
Number(f, o) == Cardinality({s \in DOMAIN f : f[s] = o})

\* The counts m with the references in gained added and those in lost given back.
Rebind(m, gained, lost) ==
    [o \in Obj |->
        LET n == m[o] + Number(gained, o) - Number(lost, o)
        IN  IF n = 0 /\ Number(lost, o) > 0 THEN Freed ELSE n]

\* A variable is unset, an array, or a value; a list is its elements.
NoValue == [form |-> "none", at |-> <<>>]

NoCall == [mode |-> "none", at |-> "ended", col |-> 1, nulls |-> {}, row |-> NoVar,
           ind |-> NoVar, quiet |-> TRUE]

Init ==
    /\ label \in {l \in [Cols -> Cols] : \A c \in Cols : l[c] <= c /\ l[l[c]] = l[c]}
    /\ now = 0
    /\ call = NoCall
    /\ mem = [o \in Obj |-> 0]
    /\ tcl = [x \in Var |-> NoValue]
    /\ kept = {}
    /\ owned = [o \in Obj |-> 0]
    /\ listed = {}
    /\ fault = "none"

----------------------------------------------------------------------------
(* The call that runs, and its values. *)

Running(mode) == fault = "none" /\ call.at # "ended" /\ call.mode = mode

Idle == fault = "none" /\ call.at = "ended"

\* Mutant: a column after a NULL is taken for one too.
DataSticky(c) == <<now, IF \E d \in 1 .. c : d \in call.nulls THEN Null ELSE c>>

Data(c) == <<now, IF c \in call.nulls THEN Null ELSE c>>

Indicator(c) == <<now, IF c \in call.nulls THEN True ELSE False>>

DataList == [c \in Cols |-> Data(c)]

IndicatorList == [c \in Cols |-> Indicator(c)]

Succeeds == call' = [call EXCEPT !.at = "ended"]

Fails == call' = NoCall

Goes(at) == call' = [call EXCEPT !.at = at]

Crash(f) ==
    /\ fault' = f
    /\ UNCHANGED <<label, now, call, mem, tcl, kept, owned, listed>>

\* The variable that is to be stored next.
Target == IF call.at = "row" THEN call.row ELSE call.ind

----------------------------------------------------------------------------
(* Starting a call. *)

Begins ==
    /\ Idle
    /\ now < MaxCalls
    /\ now' = now + 1

Called(mode, nulls, row, ind) ==
    call' = [mode |-> mode, at |-> "row", col |-> 1, nulls |-> nulls, row |-> row,
             ind |-> ind, quiet |-> TRUE]

FetchArray(nulls, row, ind) ==
    /\ Begins
    /\ Called("array", nulls, row, ind)
    /\ UNCHANGED <<label, mem, tcl, kept, owned, listed, fault>>

\* The references to the first n columns of the next call and to their indicators.
Collected(nulls, ind, n) ==
    [c \in 1 .. n |-> <<now + 1, IF c \in nulls THEN Null ELSE c>>] \o
    IF ind = NoVar THEN <<>>
    ELSE [c \in 1 .. n |-> <<now + 1, IF c \in nulls THEN True ELSE False>>]

\* The columns are collected before anything is stored.
FetchList(nulls, row, ind) ==
    /\ Begins
    /\ Called("list", nulls, row, ind)
    /\ LET refs == Collected(nulls, ind, NCols)
       IN  /\ mem' = Rebind(mem, refs, <<>>)
           /\ owned' = [o \in Obj |-> owned[o] + Number(refs, o)]
    /\ UNCHANGED <<label, tcl, kept, listed, fault>>

\* SQLDBC does not deliver a column; those before it are given back.
FetchListFails(nulls, ind, n) ==
    /\ Begins
    /\ Fails
    /\ LET refs == Collected(nulls, ind, n)
       IN  mem' = Rebind(mem, refs, refs)
    /\ UNCHANGED <<label, tcl, kept, owned, listed, fault>>

CopyOutput ==
    /\ Begins
    /\ Called("out", {}, NoVar, NoVar)
    /\ UNCHANGED <<label, mem, tcl, kept, owned, listed, fault>>

----------------------------------------------------------------------------
(* An array. *)

Element == IF call.at = "row" THEN Data(call.col) ELSE Indicator(call.col)

\* What there is under label s.
Under(x, s) == IF s \in DOMAIN tcl[x].at THEN <<tcl[x].at[s]>> ELSE <<>>

\* Mutant: one column too many.
NextColumnLate ==
    IF call.col > NCols THEN Succeeds ELSE call' = [call EXCEPT !.at = "row", !.col = @ + 1]

NextColumn ==
    IF call.col = NCols THEN Succeeds ELSE call' = [call EXCEPT !.at = "row", !.col = @ + 1]

\* Mutant: getRowData gives back a reference to what it has stored.
ElementCountsReleased(x, s) == Rebind(mem, <<Element>>, Under(x, s) \o <<Element>>)

\* Tcl takes its reference to the new value before it gives back the old one.
ElementCounts(x, s) == Rebind(mem, <<Element>>, Under(x, s))

\* After the store the trace may fail: the value stays, getRowData returns.
StoreElement ==
    /\ Running("array")
    /\ mem[Element] # Freed
    /\ tcl[Target].form \in {"none", "array"}
    /\ LET s == label[call.col]
       IN  /\ mem' = ElementCounts(Target, s)
           /\ tcl' = [tcl EXCEPT ![Target] =
                         [form |-> "array",
                          at |-> [t \in DOMAIN @.at \cup {s} |-> IF t = s THEN Element ELSE @.at[t]]]]
    /\ \/ IF call.at = "row" /\ call.ind # NoVar THEN Goes("ind") ELSE NextColumn
       \/ Fails
    /\ UNCHANGED <<label, now, kept, owned, listed, fault>>

\* The variable is no array, or cannot be reached: Tcl frees a value that
\* nobody has.
ElementFails ==
    /\ Running("array")
    /\ mem[Element] # Freed
    /\ mem' = [mem EXCEPT ![Element] = IF @ = 0 THEN Freed ELSE @]
    /\ Fails
    /\ UNCHANGED <<label, now, tcl, kept, owned, listed, fault>>

\* SQLDBC does not deliver the column.
ColumnFails ==
    /\ Running("array")
    /\ call.at = "row"
    /\ Fails
    /\ UNCHANGED <<label, now, mem, tcl, kept, owned, listed, fault>>

\* The shared value has gone with the last element that had it.
ElementFreed ==
    /\ Running("array")
    /\ mem[Element] = Freed
    /\ Crash("freedValue")

----------------------------------------------------------------------------
(* Two lists. *)

\* Mutant: the references to the indicators are not given back.
GivenBackData == DataList

\* What Error_Exit gives back.
GivenBack == DataList \o IF call.ind = NoVar THEN <<>> ELSE IndicatorList

ErrorExit(m) ==
    /\ mem' = Rebind(m, <<>>, GivenBack)
    /\ owned' = [o \in Obj |-> owned[o] - Number(GivenBack, o)]
    /\ Fails

List == IF call.at = "row" THEN DataList ELSE IndicatorList

\* A list that is stored takes the place of what the variable had.
StoreWhole(x, list) ==
    /\ tcl[x].form \in {"none", "value"}
    /\ tcl' = [tcl EXCEPT ![x] = [form |-> "value", at |-> list]]

ListCounts(x, list) == Rebind(mem, list, tcl[x].at)

StoreList ==
    /\ Running("list")
    /\ StoreWhole(Target, List)
    /\ \/ /\ IF call.at = "row" /\ call.ind # NoVar THEN Goes("ind") ELSE Succeeds
          /\ mem' = ListCounts(Target, List)
          /\ UNCHANGED owned
          /\ listed' = listed \cup {List[c] : c \in Cols}
       \/ /\ ErrorExit(ListCounts(Target, List))
          /\ UNCHANGED listed
    /\ UNCHANGED <<label, now, kept, fault>>

\* Tcl frees the list it could not store, and with it the references it had.
ListFails ==
    /\ Running("list")
    /\ ErrorExit(mem)
    /\ UNCHANGED <<label, now, tcl, kept, listed, fault>>

----------------------------------------------------------------------------
(* OUT parameters. *)

StoreOut(x) ==
    /\ Running("out")
    /\ StoreWhole(x, <<Element>>)
    /\ mem' = ListCounts(x, <<Element>>)
    /\ NextColumn
    /\ UNCHANGED <<label, now, kept, owned, listed, fault>>

\* Tcl has freed the value, or it is in the variable and a trace has failed:
\* either way the reference copyOutput gives back is not its own.
OutFails ==
    /\ Running("out")
    /\ Crash("outValue")

----------------------------------------------------------------------------
(* The script, between two calls or in a trace. *)

Disturbs == call' = IF call.at = "ended" THEN NoCall ELSE [call EXCEPT !.quiet = FALSE]

Unset(x) ==
    /\ fault = "none"
    /\ tcl[x].form # "none"
    /\ mem' = Rebind(mem, <<>>, tcl[x].at)
    /\ tcl' = [tcl EXCEPT ![x] = NoValue]
    /\ Disturbs
    /\ UNCHANGED <<label, now, kept, owned, listed, fault>>

UnsetElement(x, s) ==
    /\ fault = "none"
    /\ tcl[x].form = "array"
    /\ mem' = Rebind(mem, <<>>, Under(x, s))
    /\ tcl' = [tcl EXCEPT ![x].at = [t \in DOMAIN @ \ {s} |-> @[t]]]
    /\ Disturbs
    /\ UNCHANGED <<label, now, kept, owned, listed, fault>>

Keep(o) ==
    /\ fault = "none"
    /\ o \notin kept /\ Cardinality(kept) < MaxKept
    /\ \E x \in Var : \E s \in DOMAIN tcl[x].at : tcl[x].at[s] = o
    /\ kept' = kept \cup {o}
    /\ mem' = Rebind(mem, <<o>>, <<>>)
    /\ UNCHANGED <<label, now, call, tcl, owned, listed, fault>>

Drop(o) ==
    /\ fault = "none"
    /\ o \in kept
    /\ kept' = kept \ {o}
    /\ mem' = Rebind(mem, <<>>, <<o>>)
    /\ UNCHANGED <<label, now, call, tcl, owned, listed, fault>>

Next ==
    \/ \E nulls \in SUBSET Cols, row \in Var, ind \in Var \cup {NoVar} :
          \/ FetchArray(nulls, row, ind)
          \/ FetchList(nulls, row, ind)
          \/ \E n \in 0 .. NCols - 1 : FetchListFails(nulls, ind, n)
    \/ StoreElement \/ ElementFails \/ ColumnFails \/ ElementFreed
    \/ StoreList \/ ListFails
    \/ CopyOutput \/ OutFails
    \/ \E x \in Var : StoreOut(x) \/ Unset(x) \/ \E s \in DOMAIN tcl[x].at : UnsetElement(x, s)
    \/ \E o \in Obj : Keep(o) \/ Drop(o)

Spec == Init /\ [][Next]_vars

----------------------------------------------------------------------------
(* Properties. *)

\* The references to o that variables and copies of the script have.
Holders(o) ==
    Cardinality({p \in Var \X Cols : p[2] \in DOMAIN tcl[p[1]].at /\ tcl[p[1]].at[p[2]] = o})
    + IF o \in kept THEN 1 ELSE 0

\* The values calls have made and Tcl has not freed.
Made == {o \in Obj : o[1] <= now /\ mem[o] # Freed}

\* Types of the variables.  No count falls below zero, and what a variable or a
\* copy has is the value of a call made so far and is not freed.
TypeOK ==
    /\ label \in [Cols -> Cols]
    /\ now \in 0 .. MaxCalls
    /\ call \in [mode : {"none", "array", "list", "out"}, at : {"row", "ind", "ended"},
                 col : Cols, nulls : SUBSET Cols, row : Var \cup {NoVar},
                 ind : Var \cup {NoVar}, quiet : BOOLEAN]
    /\ call.at = "ind" => call.ind \in Var
    /\ mem \in [Obj -> Nat \cup {Freed}]
    /\ tcl \in [Var -> [form : {"none", "array", "value"}, at : UNION {[D -> Made] : D \in SUBSET Cols}]]
    /\ \A x \in Var : tcl[x].form = "none" => tcl[x].at = <<>>
    /\ kept \subseteq Made
    /\ owned \in [Obj -> Nat]
    /\ listed \subseteq Obj
    /\ fault \in {"none", "freedValue", "outValue"}

\* Every value has as many references as there are variables, copies and lists
\* of getRowData that have it, through every failure and every trace; one that
\* has been freed has none.
CountsAreHolders ==
    \A o \in Obj : IF mem[o] = Freed THEN Holders(o) + owned[o] = 0
                                     ELSE mem[o] = Holders(o) + owned[o]

\* A fetch stores no value that is gone, if the labels of the columns differ,
\* row and indicators have a variable each, and no trace unsets them.
\* In list mode none of this matters.
ProperFetchesAreSafe ==
    fault = "freedValue" =>
        /\ call.mode = "array"
        /\ \/ ~ call.quiet
           \/ call.row = call.ind
           \/ \E c \in Cols : label[c] # c

\* Of its own references getRowData loses those to the values of a list it has
\* stored and no others: no failure, before or after the first of the two
\* stores, leaves one behind.  A shared value no column has needed is not among
\* them: nobody ever has a reference to it, so Tcl does not free it either.
OnlyListsAreLost == Idle => \A o \in Obj : owned[o] > 0 => o \in listed

\* A fetch that succeeds leaves the row it has read in its variables, NULLs
\* where SQLDBC has said so and an indicator for every column at the place of
\* the column; of columns with one label the last.
FetchedIsStored ==
    Idle /\ call.quiet /\ call.mode \in {"array", "list"} =>
        \A x \in {call.row, call.ind} \ {NoVar} :
            LET value == [c \in Cols |->
                             <<now, IF x = call.ind THEN IF c \in call.nulls THEN True ELSE False
                                    ELSE IF c \in call.nulls THEN Null ELSE c>>]
                isLast(c) == \A d \in c + 1 .. NCols : label[d] # label[c]
            IN  IF call.mode = "list" THEN tcl[x].at = value
                ELSE \A c \in Cols : isLast(c) => tcl[x].at[label[c]] = value[c]
=============================================================================
