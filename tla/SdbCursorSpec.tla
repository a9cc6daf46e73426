---------------------------- MODULE SdbCursorSpec ----------------------------
(***************************************************************************)
(* What statements promise a script whose write traces leave the           *)
(* statements they interrupt alone: each statement has the rows of its     *)
(* last execution or none, and a cursor that only its own fetches move; a  *)
(* row that a fetch delivers is the one under the cursor, all columns of   *)
(* it, whatever ran between two of its writes.  SdbStatement implements    *)
(* this module.                                                            *)
(***************************************************************************)
EXTENDS Naturals

CONSTANTS Stmt, NCols, MaxRows

VARIABLES
    tried,      \* Stmt -> the number of its executions
    result,     \* Stmt -> the execution whose rows it has, 0 if none
    cursor,     \* Stmt -> the row of the result it is on, not one of them at the ends
    busy,       \* Stmt -> "execute" or "fetch" while that is under way, else "no"
    got         \* the row the last command has delivered, empty if none

cvars == <<tried, result, cursor, busy, got>>

Init ==
    /\ tried = [s \in Stmt |-> 0]
    /\ result = [s \in Stmt |-> 0]
    /\ cursor = [s \in Stmt |-> 0]
    /\ busy = [s \in Stmt |-> "no"]
    /\ got = <<>>

\* An execution, be it a batch or one that fails, ends what was there before.
Tries(s) ==
    /\ busy[s] = "no"
    /\ tried' = [tried EXCEPT ![s] = @ + 1]
    /\ cursor' = [cursor EXCEPT ![s] = 0]

Execute(s) ==
    /\ Tries(s)
    /\ \E k \in {0, tried[s] + 1} : result' = [result EXCEPT ![s] = k]
    /\ got' = <<>>
    /\ UNCHANGED busy

StartExecute(s) ==
    /\ Tries(s)
    /\ result' = [result EXCEPT ![s] = 0]
    /\ busy' = [busy EXCEPT ![s] = "execute"]
    /\ UNCHANGED got

EndExecute(s) ==
    /\ busy[s] = "execute"
    /\ \E k \in {0, tried[s]} : result' = [result EXCEPT ![s] = k]
    /\ busy' = [busy EXCEPT ![s] = "no"]
    /\ got' = <<>>
    /\ UNCHANGED <<tried, cursor>>

\* A fetch that delivers no row, though it may have moved.
Move(s) ==
    /\ busy[s] = "no" /\ result[s] # 0
    /\ \E p \in 0 .. MaxRows + 1 : cursor' = [cursor EXCEPT ![s] = p]
    /\ got' = <<>>
    /\ UNCHANGED <<tried, result, busy>>

StartFetch(s) ==
    /\ busy[s] = "no" /\ result[s] # 0
    /\ \E p \in 1 .. MaxRows : cursor' = [cursor EXCEPT ![s] = p]
    /\ busy' = [busy EXCEPT ![s] = "fetch"]
    /\ UNCHANGED <<tried, result, got>>

Row(s) == [i \in 1 .. NCols |-> <<result[s], cursor[s]>>]

EndFetch(s) ==
    /\ busy[s] = "fetch"
    /\ got' \in {<<>>, Row(s)}
    /\ busy' = [busy EXCEPT ![s] = "no"]
    /\ UNCHANGED <<tried, result, cursor>>

\* columns, rownumber, and what is refused before it does anything.
Ask ==
    /\ got' = <<>>
    /\ UNCHANGED <<tried, result, cursor, busy>>

Next ==
    \/ Ask
    \/ \E s \in Stmt : \/ Execute(s) \/ StartExecute(s) \/ EndExecute(s)
                       \/ Move(s) \/ StartFetch(s) \/ EndFetch(s)

Spec == Init /\ [][Next]_cvars
==============================================================================
