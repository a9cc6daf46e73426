------------------------- MODULE SdbStatementProofs -------------------------
(***************************************************************************)
(* Theorems about SdbStatement, for all statements, columns, OUT           *)
(* parameters, executions, rows and depths of nested commands.             *)
(***************************************************************************)
EXTENDS SdbStatement, SequenceTheorems, TLAPS

----------------------------------------------------------------------------
(* Sequences: the stack and the columns. *)

LEMMA SameLength ==
    ASSUME NEW m \in Nat, NEW n \in Nat, 1 .. m = 1 .. n
    PROVE  m = n
<1>1. m > 0 => m \in 1 .. n
  OBVIOUS
<1>2. n > 0 => n \in 1 .. m
  OBVIOUS
<1> QED
  BY <1>1, <1>2

LEMMA ConstantSequence ==
    ASSUME NEW S, NEW v \in S, NEW n \in Nat
    PROVE  /\ [i \in 1 .. n |-> v] \in Seq(S)
           /\ Len([i \in 1 .. n |-> v]) = n
<1> DEFINE c == [i \in 1 .. n |-> v]
<1>1. c \in [1 .. n -> S] /\ DOMAIN c = 1 .. n
  OBVIOUS
<1> HIDE DEF c
<1>2. c \in Seq(S)
  BY <1>1, SeqDef
<1>3. Len(c) \in Nat /\ DOMAIN c = 1 .. Len(c)
  BY <1>2, LenProperties
<1>4. Len(c) = n
  BY <1>1, <1>3, SameLength
<1> QED
  BY <1>2, <1>4 DEF c

LEMMA PushedSequence ==
    ASSUME NEW S, NEW t \in Seq(S), NEW e \in S
    PROVE  /\ Append(t, e) \in Seq(S)
           /\ Len(Append(t, e)) = Len(t) + 1
           /\ \A i \in 1 .. Len(t) : Append(t, e)[i] = t[i]
           /\ Append(t, e)[Len(t) + 1] = e
BY AppendProperties

LEMMA PoppedSequence ==
    ASSUME NEW S, NEW t \in Seq(S), t # <<>>
    PROVE  /\ Front(t) \in Seq(S)
           /\ Len(Front(t)) = Len(t) - 1
           /\ \A i \in 1 .. Len(t) - 1 : Front(t)[i] = t[i]
           /\ Last(t) \in S
           /\ Last(t) = t[Len(t)]
           /\ Len(t) \in Nat \ {0}
<1>1. Len(t) \in Nat \ {0}
  BY EmptySeq
<1> DEFINE k == Len(t) - 1
<1>2. k \in Nat /\ 1 <= Len(t) /\ \A i \in 1 .. k : t[i] \in S
  BY <1>1, ElementOfSeq
<1>3. /\ SubSeq(t, 1, k) \in Seq(S)
      /\ Len(SubSeq(t, 1, k)) = k
      /\ \A i \in 1 .. k : SubSeq(t, 1, k)[i] = t[i]
  <2> HIDE DEF k
  <2>1. /\ SubSeq(t, 1, k) \in Seq(S)
        /\ Len(SubSeq(t, 1, k)) = IF 1 <= k THEN k - 1 + 1 ELSE 0
        /\ \A i \in 1 .. k - 1 + 1 : SubSeq(t, 1, k)[i] = t[1 + i - 1]
    <3>1. 1 \in Int /\ k \in Int
      BY <1>2
    <3>2. \A i \in 1 .. k : t[i] \in S
      BY <1>2
    <3> QED
      BY <3>1, <3>2, SubSeqProperties
  <2>2. (IF 1 <= k THEN k - 1 + 1 ELSE 0) = k /\ k - 1 + 1 = k
    BY <1>2
  <2>3. \A i \in 1 .. k : 1 + i - 1 = i
    BY <1>2
  <2> QED
    BY <2>1, <2>2, <2>3
<1>4. Last(t) \in S
  BY <1>1, ElementOfSeq DEF Last
<1> QED
  BY <1>1, <1>3, <1>4 DEF Front, Last

LEMMA PausedSequence ==
    ASSUME NEW S, NEW t \in Seq(S), t # <<>>, NEW e \in S
    PROVE  /\ Append(Front(t), e) \in Seq(S)
           /\ Len(Append(Front(t), e)) = Len(t)
           /\ \A i \in 1 .. Len(t) - 1 : Append(Front(t), e)[i] = t[i]
           /\ Append(Front(t), e)[Len(t)] = e
<1>1. /\ Front(t) \in Seq(S) /\ Len(Front(t)) = Len(t) - 1
      /\ \A i \in 1 .. Len(t) - 1 : Front(t)[i] = t[i]
      /\ Len(t) \in Nat \ {0}
  BY PoppedSequence
<1> QED
  BY <1>1, PushedSequence

LEMMA EmptySequence == \A S : <<>> \in Seq(S) /\ DOMAIN <<>> = {}
BY EmptySeq

LEMMA Bounds ==
    /\ NOut \in Nat /\ MaxRuns \in Nat /\ MaxRows \in Nat /\ MaxDepth \in Nat
    /\ NCols \in Nat \ {0} /\ NCols \in Nat
BY ParamAssumption

----------------------------------------------------------------------------
(* One statement: what every operation on it keeps. *)

\* A statement in any script's reach: its type, and the invariants of
\* statement_any.
Consistent(r) ==
    /\ r \in StmtType
    /\ r.rset # 0 => r.query /\ r.open = r.rset
    /\ r.last = "query" => r.rset # 0
    /\ r.rset # 0 => r.last \in {"query", "refused"}
    /\ \A i \in DOMAIN r.cols : r.rset # 0 /\ r.cols[i] = r.rset

LEMMA NewConsistent == ASSUME NEW q \in BOOLEAN PROVE Consistent(New(q))
BY Bounds, EmptySequence DEF Consistent, New, StmtType, RunId

\* Every execution starts without a result set and without columns.
LEMMA AttemptConsistent ==
    ASSUME NEW r, Consistent(r), r.runs < MaxRuns
    PROVE  /\ Consistent(Attempt(r))
           /\ Attempt(r).rset = 0
           /\ Attempt(r).cols = <<>>
           /\ Attempt(r).last = "failed"
           /\ Attempt(r).runs = r.runs + 1
           /\ Attempt(r).runs \in 1 .. MaxRuns
<1> USE Bounds
<1>1. ClearResults(r) \in StmtType /\ ClearResults(r).rset = 0 /\ ClearResults(r).cols = <<>>
      /\ ClearResults(r).runs = r.runs
  <2>1. CASE r.rset = 0
    <3>1. DOMAIN r.cols = {}
      BY <2>1 DEF Consistent
    <3>a. r.cols \in Seq(1 .. MaxRuns)
      BY DEF Consistent, StmtType
    <3>b. Len(r.cols) \in Nat /\ DOMAIN r.cols = 1 .. Len(r.cols)
      BY <3>a, LenProperties
    <3>c. Len(r.cols) > 0 => Len(r.cols) \in DOMAIN r.cols
      BY <3>b
    <3>2. r.cols = <<>>
      BY <3>1, <3>a, <3>b, <3>c, EmptySeq
    <3> QED
      BY <2>1, <3>2 DEF Consistent, ClearResults
  <2>2. CASE r.rset # 0
    <3>1. ClearResults(r) = [r EXCEPT !.rset = 0, !.cols = <<>>, !.open = 0]
      BY <2>2 DEF ClearResults
    <3>2. 0 \in RunId /\ <<>> \in Seq(1 .. MaxRuns)
      BY EmptySequence DEF RunId
    <3> QED
      BY <3>1, <3>2 DEF Consistent, StmtType
  <2> QED
    BY <2>1, <2>2
<1>2. r.runs + 1 \in 1 .. MaxRuns /\ r.runs + 1 \in RunId
  BY DEF Consistent, StmtType, RunId
<1>3. Attempt(r) \in StmtType
  BY <1>1, <1>2 DEF Attempt, StmtType
<1>4. /\ Attempt(r).rset = 0 /\ Attempt(r).cols = <<>> /\ Attempt(r).last = "failed"
      /\ Attempt(r).runs = r.runs + 1
  BY <1>1 DEF Attempt, StmtType
<1> QED
  BY <1>2, <1>3, <1>4 DEF Consistent

LEMMA UsageConsistent ==
    ASSUME NEW r, Consistent(r)
    PROVE  /\ Consistent(Usage(r))
           /\ Usage(r).rset = r.rset /\ Usage(r).cols = r.cols
           /\ Usage(r).runs = r.runs /\ Usage(r).pos = r.pos
<1>1. Usage(r) \in StmtType
  BY DEF Consistent, Usage, StmtType
<1>2. /\ Usage(r).rset = r.rset /\ Usage(r).cols = r.cols /\ Usage(r).query = r.query
      /\ Usage(r).open = r.open /\ Usage(r).runs = r.runs /\ Usage(r).pos = r.pos
      /\ Usage(r).last = "refused"
  BY DEF Consistent, Usage, StmtType
<1> QED
  BY <1>1, <1>2 DEF Consistent

LEMMA ExecutedConsistent ==
    ASSUME NEW a, Consistent(a), a.rset = 0,
           NEW k \in 1 .. MaxRuns, NEW q \in BOOLEAN, NEW n \in 0 .. MaxRows
    PROVE  LET e == Executed(a, k, q, n) IN
           /\ Consistent(e)
           /\ e.rset = 0 /\ e.pos = 0 /\ e.cols = a.cols /\ e.runs = a.runs
           /\ e.query = q
           /\ q => e.open = k
<1> USE Bounds
<1> DEFINE e == Executed(a, k, q, n)
<1>2. e \in StmtType
  <2>1. (IF q THEN k ELSE 0) \in RunId /\ 0 \in 0 .. MaxRows + 1
    BY DEF RunId
  <2> QED
    BY <2>1 DEF Consistent, Executed, StmtType
<1>3. /\ e.rset = 0 /\ e.pos = 0 /\ e.cols = a.cols /\ e.runs = a.runs /\ e.query = q
      /\ e.last = a.last
      /\ q => e.open = k
  BY DEF Consistent, Executed, StmtType
<1>4. Consistent(e)
  <2> HIDE DEF e
  <2> QED
    BY <1>2, <1>3 DEF Consistent
<1> QED
  BY <1>3, <1>4

\* What SQLDBC makes of an attempt.
LEMMA AttemptExecuted ==
    ASSUME NEW r, Consistent(r), r.runs < MaxRuns, NEW q \in BOOLEAN, NEW n \in 0 .. MaxRows
    PROVE  LET e == Executed(Attempt(r), Attempt(r).runs, q, n) IN
           /\ Consistent(e)
           /\ e.rset = 0 /\ e.pos = 0 /\ e.cols = <<>> /\ e.runs = r.runs + 1
           /\ e.runs = Attempt(r).runs
           /\ e.runs \in 1 .. MaxRuns
           /\ e.query = q
           /\ q => e.open = e.runs
<1> DEFINE a == Attempt(r)
<1>1. /\ Consistent(a) /\ a.rset = 0 /\ a.cols = <<>>
      /\ a.runs = r.runs + 1 /\ a.runs \in 1 .. MaxRuns
  BY AttemptConsistent
<1> HIDE DEF a
<1> DEFINE e == Executed(a, a.runs, q, n)
<1>2. /\ Consistent(e)
      /\ e.rset = 0 /\ e.pos = 0 /\ e.cols = a.cols /\ e.runs = a.runs
      /\ e.query = q
      /\ q => e.open = a.runs
  BY <1>1, ExecutedConsistent
<1> HIDE DEF e
<1>3. /\ Consistent(e)
      /\ e.rset = 0 /\ e.pos = 0 /\ e.cols = <<>> /\ e.runs = r.runs + 1
      /\ e.runs = a.runs /\ e.runs \in 1 .. MaxRuns /\ e.query = q
      /\ q => e.open = e.runs
  BY <1>1, <1>2
<1> QED
  BY <1>3 DEF e, a

LEMMA RefusedConsistent ==
    ASSUME NEW a, Consistent(a), a.rset = 0, NEW q \in BOOLEAN
    PROVE  /\ Consistent(Refused(a, q))
           /\ Refused(a, q).rset = 0 /\ Refused(a, q).runs = a.runs
<1> USE Bounds
<1>2. Refused(a, q) \in StmtType
  BY DEF Consistent, Refused, StmtType, RunId
<1>3. /\ Refused(a, q).rset = 0 /\ Refused(a, q).cols = a.cols /\ Refused(a, q).open = 0
      /\ Refused(a, q).last = a.last /\ Refused(a, q).runs = a.runs
  BY DEF Consistent, Refused, StmtType
<1> QED
  BY <1>2, <1>3 DEF Consistent

LEMMA AttemptRefused ==
    ASSUME NEW r, Consistent(r), r.runs < MaxRuns, NEW q \in BOOLEAN
    PROVE  /\ Consistent(Refused(Attempt(r), q))
           /\ Refused(Attempt(r), q).rset = 0
           /\ Refused(Attempt(r), q).runs = r.runs + 1
<1>1. Consistent(Attempt(r)) /\ Attempt(r).rset = 0 /\ Attempt(r).runs = r.runs + 1
  BY AttemptConsistent
<1> QED
  BY <1>1, RefusedConsistent

\* Columns are there only with a result set.
LEMMA NoColumns ==
    ASSUME NEW r, Consistent(r), r.rset = 0
    PROVE  r.cols = <<>>
<1>1. r.cols \in Seq(1 .. MaxRuns) /\ DOMAIN r.cols = {}
  BY DEF Consistent, StmtType
<1>2. Len(r.cols) \in Nat /\ DOMAIN r.cols = 1 .. Len(r.cols)
  BY <1>1, LenProperties
<1>3. Len(r.cols) > 0 => Len(r.cols) \in DOMAIN r.cols
  BY <1>2
<1> QED
  BY <1>1, <1>2, <1>3, EmptySeq

\* setExecuteResult, also after a trace of copyOutput has executed the statement.
LEMMA ResultConsistent ==
    ASSUME NEW r, Consistent(r), r.query => r.open # 0
    PROVE  Consistent(SetExecuteResult(r))
<1> USE Bounds
<1> DEFINE t == SetExecuteResult(r)
<1>1. CASE ~ r.query
  <2>1. r.rset = 0
    BY <1>1 DEF Consistent
  <2>2. t = [r EXCEPT !.last = "update"]
    BY <1>1 DEF SetExecuteResult
  <2>3. /\ t \in StmtType /\ t.rset = 0 /\ t.last = "update" /\ t.cols = r.cols
        /\ t.open = r.open /\ t.runs = r.runs
    BY <2>1, <2>2 DEF Consistent, StmtType
  <2>4. Consistent(t)
    <3> HIDE DEF t
    <3> QED
      BY <2>1, <2>3 DEF Consistent
  <2> QED
    BY <2>4
<1>2. CASE r.query
  <2> DEFINE c == [i \in 1 .. NCols |-> r.open]
  <2>1. r.open \in 1 .. MaxRuns /\ r.cols \in Seq(1 .. MaxRuns)
    BY <1>2 DEF Consistent, StmtType, RunId
  <2>2. c \in Seq(1 .. MaxRuns) /\ Len(c) = NCols
    BY <2>1, ConstantSequence
  <2>3. /\ r.cols \o c \in Seq(1 .. MaxRuns)
        /\ Len(r.cols \o c) = Len(r.cols) + Len(c)
        /\ \A i \in 1 .. Len(r.cols) + Len(c) :
              (r.cols \o c)[i] = IF i <= Len(r.cols) THEN r.cols[i] ELSE c[i - Len(r.cols)]
    BY <2>1, <2>2, ConcatProperties
  <2>4. t = [r EXCEPT !.rset = r.open, !.last = "query", !.cols = @ \o c]
    BY <1>2 DEF SetExecuteResult
  <2>5. /\ t \in StmtType /\ t.rset = r.open /\ t.open = r.open /\ t.query
        /\ t.last = "query" /\ t.cols = r.cols \o c /\ t.runs = r.runs
    BY <1>2, <2>3, <2>4 DEF Consistent, StmtType
  <2>6. \A i \in 1 .. Len(r.cols) : r.cols[i] = r.open
    BY LenProperties DEF Consistent, StmtType
  <2>7. \A i \in 1 .. Len(c) : c[i] = r.open
    BY <2>2
  <2>8. \A i \in DOMAIN t.cols : t.cols[i] = r.open
    <3>1. DOMAIN t.cols = 1 .. Len(r.cols) + Len(c)
      BY <2>3, <2>5, LenProperties
    <3>2. Len(r.cols) \in Nat /\ Len(c) \in Nat
      BY <2>1, <2>2, LenProperties
    <3> HIDE DEF c, t
    <3> SUFFICES ASSUME NEW i \in 1 .. Len(r.cols) + Len(c)
                 PROVE  (r.cols \o c)[i] = r.open
      BY <2>5, <3>1
    <3>3. CASE i <= Len(r.cols)
      BY <2>3, <2>6, <3>2, <3>3
    <3>4. CASE ~ (i <= Len(r.cols))
      <4>1. i - Len(r.cols) \in 1 .. Len(c)
        BY <3>2, <3>4
      <4> QED
        BY <2>3, <2>7, <3>4, <4>1
    <3> QED
      BY <3>3, <3>4
  <2>9. Consistent(t)
    <3> HIDE DEF t
    <3> QED
      BY <1>2, <2>1, <2>5, <2>8 DEF Consistent
  <2> QED
    BY <2>9
<1> QED
  BY <1>1, <1>2 DEF Consistent, StmtType

LEMMA MovedConsistent ==
    ASSUME NEW r, Consistent(r), NEW seek \in Seeks
    PROVE  /\ Consistent(Moved(r, seek))
           /\ Moved(r, seek).rset = r.rset
           /\ Moved(r, seek).cols = r.cols
           /\ Moved(r, seek).runs = r.runs
<1> USE Bounds
<1>a. r.size \in 0 .. MaxRows /\ r.pos \in 0 .. MaxRows + 1
  BY DEF Consistent, StmtType
<1>1. \A k \in Int : Clip(r, k) \in 0 .. MaxRows + 1
  BY <1>a DEF Clip
<1>b. /\ seek[1] \in {"next", "previous", "first", "last", "absolute", "relative"}
      /\ seek[2] \in Int
  BY DEF Seeks
<1>c. /\ r.pos + 1 \in Int /\ r.pos - 1 \in Int /\ 1 \in Int
      /\ r.size \in Int /\ r.pos + seek[2] \in Int
  BY <1>a, <1>b
<1>2. Target(r, seek) \in 0 .. MaxRows + 1
  BY <1>1, <1>b, <1>c DEF Target
<1>3. Moved(r, seek) \in StmtType
  BY <1>2 DEF Moved, Consistent, StmtType
<1>4. /\ Moved(r, seek).rset = r.rset /\ Moved(r, seek).cols = r.cols
      /\ Moved(r, seek).runs = r.runs /\ Moved(r, seek).query = r.query
      /\ Moved(r, seek).open = r.open /\ Moved(r, seek).last = r.last
  BY DEF Moved, Consistent, StmtType
<1> QED
  BY <1>3, <1>4 DEF Consistent

----------------------------------------------------------------------------
(* Any script: the inductive invariant, and what its steps have in common. *)

IInv == TypeOK /\ \A s \in Stmt : Consistent(stmt[s])

LEMMA InitIInv == Init => IInv
<1> USE Bounds
<1> SUFFICES ASSUME Init PROVE IInv
  OBVIOUS
<1>1. \A s \in Stmt : \E q \in BOOLEAN : stmt[s] = New(q)
  BY DEF Init
<1>2. \A s \in Stmt : Consistent(stmt[s])
  BY <1>1, NewConsistent
<1>3. stmt \in [Stmt -> StmtType]
  BY <1>2 DEF Init, Consistent
<1>4. (CHOOSE s \in Stmt : TRUE) \in Stmt
  BY ParamAssumption
<1>5. stack \in Seq(Frames) /\ <<>> \in Seq((1 .. MaxRuns) \X (1 .. MaxRows))
  BY EmptySequence DEF Init
<1>6. reply \in [cmd : Commands, stmt : Stmt, res : Results,
                 row : Seq((1 .. MaxRuns) \X (1 .. MaxRows))]
  BY <1>4, <1>5 DEF Init, Commands, Results
<1> QED
  BY <1>2, <1>3, <1>5, <1>6 DEF Init, IInv, TypeOK, Faults

LEMMA OneStatement ==
    ASSUME IInv, NEW s \in Stmt, NEW r, Consistent(r), stmt' = [stmt EXCEPT ![s] = r]
    PROVE  stmt' \in [Stmt -> StmtType] /\ \A z \in Stmt : Consistent(stmt'[z])
<1>1. stmt \in [Stmt -> StmtType] /\ r \in StmtType
  BY DEF IInv, TypeOK, Consistent
<1>2. \A z \in Stmt : stmt'[z] = IF z = s THEN r ELSE stmt[z]
  BY <1>1
<1> QED
  BY <1>1, <1>2 DEF IInv

LEMMA AnswerTyped ==
    ASSUME NEW c \in Commands, NEW s \in Stmt, NEW x \in Results, Answer(c, s, x)
    PROVE  reply' \in [cmd : Commands, stmt : Stmt, res : Results,
                       row : Seq((1 .. MaxRuns) \X (1 .. MaxRows))]
BY EmptySequence DEF Answer

LEMMA EndsKeeps ==
    ASSUME IInv, NEW s \in Stmt, NEW r, Consistent(r), NEW c \in Commands, NEW x \in Results,
           Ends(c, s, r, x)
    PROVE  IInv'
<1>1. stmt' \in [Stmt -> StmtType] /\ \A z \in Stmt : Consistent(stmt'[z])
  BY OneStatement DEF Ends
<1>2. reply' \in [cmd : Commands, stmt : Stmt, res : Results,
                  row : Seq((1 .. MaxRuns) \X (1 .. MaxRows))]
  BY AnswerTyped DEF Ends
<1>3. UNCHANGED <<stack, gone, fault>>
  BY DEF Ends
<1> QED
  BY <1>1, <1>2, <1>3 DEF IInv, TypeOK

LEMMA PushKeeps ==
    ASSUME IInv, NEW s \in Stmt, NEW r, Consistent(r), NEW f \in Frames,
           stmt' = [stmt EXCEPT ![s] = r], Push(f), UNCHANGED <<gone, reply, fault>>
    PROVE  IInv'
<1>1. stmt' \in [Stmt -> StmtType] /\ \A z \in Stmt : Consistent(stmt'[z])
  BY OneStatement
<1>2. stack' \in Seq(Frames)
  BY PushedSequence DEF IInv, TypeOK, Push
<1> QED
  BY <1>1, <1>2 DEF IInv, TypeOK

LEMMA CrashKeeps ==
    ASSUME IInv, NEW f \in Faults, Crash(f)
    PROVE  IInv'
BY DEF Crash, IInv, TypeOK

LEMMA PauseKeeps ==
    ASSUME IInv, stack # <<>>, NEW f \in Frames, Pause(f), UNCHANGED <<stmt, gone, reply, fault>>
    PROVE  IInv'
<1>1. stack' \in Seq(Frames)
  BY PausedSequence DEF IInv, TypeOK, Pause
<1> QED
  BY <1>1 DEF IInv, TypeOK

LEMMA TopTyped ==
    ASSUME IInv, stack # <<>>
    PROVE  /\ Top \in Frames
           /\ Front(stack) \in Seq(Frames)
           /\ Top.stmt \in Stmt
           /\ Top.run \in RunId
           /\ Top.op \in {"list", "array"} => Top.row \in Seq((1 .. MaxRuns) \X (1 .. MaxRows))
           /\ Top.op = "out" => Top.stmt \in Prepared /\ Top.next \in 2 .. NOut + 1
           /\ Top.op = "in" => Top.stmt \in Prepared /\ Top.next \in 1 .. NOut
           /\ Top.op \in {"in", "out"} => Top.run \in 1 .. MaxRuns
<1>a. 1 .. MaxRuns \subseteq RunId
  BY Bounds DEF RunId
<1>1. Top \in Frames /\ Front(stack) \in Seq(Frames)
  BY PoppedSequence DEF IInv, TypeOK, Top
<1>2. CASE Top \in [op : {"list", "array"}, stmt : Stmt, run : RunId,
                    row : Seq((1 .. MaxRuns) \X (1 .. MaxRows))]
  BY <1>1, <1>2
<1>3. CASE Top \in [op : {"out"}, stmt : Prepared, run : 1 .. MaxRuns, next : 2 .. NOut + 1]
  BY <1>a, <1>1, <1>3, ParamAssumption
<1>4. CASE Top \in [op : {"in"}, stmt : Prepared, run : 1 .. MaxRuns, next : 1 .. NOut]
  BY <1>a, <1>1, <1>4, ParamAssumption
<1> QED
  BY <1>a, <1>1, <1>2, <1>3, <1>4 DEF Frames

LEMMA FetchedKeeps ==
    ASSUME IInv, stack # <<>>, Top.op \in {"list", "array"}, NEW x \in {"true", "error"}, Fetched(x)
    PROVE  IInv'
<1>1. /\ Front(stack) \in Seq(Frames) /\ Top.stmt \in Stmt
      /\ Top.row \in Seq((1 .. MaxRuns) \X (1 .. MaxRows))
  BY TopTyped
<1>2. (IF x = "true" THEN Top.row ELSE <<>>) \in Seq((1 .. MaxRuns) \X (1 .. MaxRows))
  BY <1>1, EmptySequence
<1>3. reply' \in [cmd : Commands, stmt : Stmt, res : Results,
                  row : Seq((1 .. MaxRuns) \X (1 .. MaxRows))]
  BY <1>1, <1>2 DEF Fetched, Commands, Results
<1> QED
  BY <1>1, <1>3 DEF Fetched, Pop, IInv, TypeOK

\* The place a column is read from is that of a row of an open result set.
LEMMA CellTyped ==
    ASSUME NEW r, Consistent(r), r.rset # 0, OnRow(r)
    PROVE  /\ Cell(r) \in (1 .. MaxRuns) \X (1 .. MaxRows)
           /\ r.runs \in RunId
<1> USE Bounds
<1>1. r.rset \in 1 .. MaxRuns /\ r.runs \in RunId /\ r.size \in 0 .. MaxRows
  BY DEF Consistent, StmtType, RunId
<1>2. r.pos \in 1 .. MaxRows
  BY <1>1 DEF OnRow
<1> QED
  BY <1>1, <1>2 DEF Cell

----------------------------------------------------------------------------
(* Any script: its steps, one lemma for each group of actions. *)

\* Frames of an execution.
LEMMA ExecuteFrames ==
    ASSUME NEW s \in Prepared, NOut > 0, NEW k \in 1 .. MaxRuns
    PROVE  /\ OutFrame(s, k) \in Frames
           /\ OutFrame(s, k).stmt = s /\ OutFrame(s, k).op = "out" /\ OutFrame(s, k).run = k
           /\ InFrame(s, k) \in Frames
           /\ InFrame(s, k).stmt = s /\ InFrame(s, k).op = "in" /\ InFrame(s, k).run = k
BY Bounds DEF InFrame, OutFrame, Frames

LEMMA ExecutionKeeps ==
    ASSUME IInv, NEW s \in Stmt, Execution(s)
    PROVE  IInv'
<1> USE Bounds
<1>a. Consistent(stmt[s]) /\ "execute" \in Commands /\ "batch" \in Commands
      /\ "ok" \in Results /\ "error" \in Results
  BY DEF IInv, Commands, Results
<1>1. CASE ExecuteUsage(s)
  BY <1>1, <1>a, UsageConsistent, EndsKeeps DEF ExecuteUsage
<1>2. CASE ExecuteRefused(s)
  <2>1. Consistent(Attempt(stmt[s]))
    BY <1>2, <1>a, AttemptConsistent DEF ExecuteRefused, CanExecute
  <2> QED
    BY <1>2, <1>a, <2>1, EndsKeeps DEF ExecuteRefused
<1>3. CASE ExecuteFails(s)
  <2>1. PICK q \in BOOLEAN : Ends("execute", s, Refused(Attempt(stmt[s]), q), "error")
    BY <1>3 DEF ExecuteFails
  <2>2. Consistent(Refused(Attempt(stmt[s]), q))
    BY <1>3, <1>a, AttemptRefused DEF ExecuteFails, CanExecute
  <2> QED
    BY <1>a, <2>1, <2>2, EndsKeeps
<1>4. CASE ExecuteSucceeds(s)
  <2> DEFINE a == Attempt(stmt[s])
  <2>1. PICK q \in BOOLEAN, n \in 0 .. MaxRows :
           Ends("execute", s, SetExecuteResult(Executed(a, a.runs, q, n)), "ok")
    BY <1>4 DEF ExecuteSucceeds
  <2> DEFINE e == Executed(a, a.runs, q, n)
  <2>2. /\ Consistent(e) /\ e.query = q /\ e.runs \in 1 .. MaxRuns
        /\ q => e.open = e.runs
    BY <1>4, <1>a, AttemptExecuted DEF ExecuteSucceeds, CanExecute
  <2>3. Ends("execute", s, SetExecuteResult(e), "ok")
    BY <2>1
  <2> HIDE DEF e
  <2>4. e.query => e.open # 0
    BY <2>2
  <2>5. Consistent(SetExecuteResult(e))
    BY <2>2, <2>4, ResultConsistent
  <2> QED
    BY <1>a, <2>3, <2>5, EndsKeeps
<1>5. CASE ExecuteWithOut(s)
  <2> DEFINE a == Attempt(stmt[s])
  <2>1. PICK q \in BOOLEAN, n \in 0 .. MaxRows :
           /\ stmt' = [stmt EXCEPT ![s] = Executed(a, a.runs, q, n)]
           /\ Push(OutFrame(s, a.runs))
    BY <1>5 DEF ExecuteWithOut
  <2> DEFINE e == Executed(a, a.runs, q, n)
  <2>2. Consistent(e) /\ a.runs \in 1 .. MaxRuns
    BY <1>5, <1>a, AttemptExecuted DEF ExecuteWithOut, CanExecute
  <2>3. stmt' = [stmt EXCEPT ![s] = e] /\ UNCHANGED <<gone, reply, fault>>
    BY <1>5, <2>1 DEF ExecuteWithOut
  <2>4. OutFrame(s, a.runs) \in Frames
    BY <1>5, <2>2, ExecuteFrames DEF ExecuteWithOut
  <2> HIDE DEF e, a
  <2> QED
    BY <2>1, <2>2, <2>3, <2>4, PushKeeps
<1>6. CASE Batch(s)
  <2>1. PICK q \in BOOLEAN, x \in {"ok", "error"} : Ends("batch", s, Refused(Attempt(stmt[s]), q), x)
    BY <1>6 DEF Batch
  <2>2. Consistent(Refused(Attempt(stmt[s]), q)) /\ x \in Results
    BY <1>6, <1>a, AttemptRefused DEF Batch, CanExecute
  <2> QED
    BY <1>a, <2>1, <2>2, EndsKeeps
<1>7. CASE ExecuteReads(s)
  <2> DEFINE a == Attempt(stmt[s])
  <2> DEFINE f == InFrame(s, a.runs)
  <2>1. /\ stmt' = [stmt EXCEPT ![s] = a] /\ Push(f)
        /\ UNCHANGED <<gone, reply, fault>>
    BY <1>7 DEF ExecuteReads
  <2>2. Consistent(a) /\ a.runs \in 1 .. MaxRuns
    BY <1>7, <1>a, AttemptConsistent DEF ExecuteReads, CanExecute
  <2>3. f \in Frames
    BY <1>7, <2>2, ExecuteFrames DEF ExecuteReads
  <2> HIDE DEF a, f
  <2> QED
    BY <2>1, <2>2, <2>3, PushKeeps
<1> QED
  BY <1>1, <1>2, <1>3, <1>4, <1>5, <1>6, <1>7 DEF Execution

LEMMA AskingKeeps ==
    ASSUME IInv, NEW s \in Stmt, Asking(s)
    PROVE  IInv'
<1>a. Consistent(stmt[s]) /\ "columns" \in Commands /\ "rownumber" \in Commands
  BY DEF IInv, Commands
<1>b. {"error", "zero", "some"} \subseteq Results
  BY DEF Results
<1>1. CASE Columns(s)
  <2>1. PICK x \in {"error", "zero", "some"} : Ends("columns", s, stmt[s], x)
    BY <1>1 DEF Columns
  <2> QED
    BY <1>a, <1>b, <2>1, EndsKeeps
<1>2. CASE RowNumber(s)
  <2>1. PICK x \in {"error", "zero", "some"} : Ends("rownumber", s, stmt[s], x)
    BY <1>2 DEF RowNumber
  <2> QED
    BY <1>a, <1>b, <2>1, EndsKeeps
<1>3. CASE LabelsLost(s)
  BY <1>3, CrashKeeps DEF LabelsLost, Faults
<1> QED
  BY <1>1, <1>2, <1>3 DEF Asking

\* What the two forms of fetch push on the stack.
LEMMA FetchFrames ==
    ASSUME NEW s \in Stmt, NEW r, Consistent(r), r.rset # 0, OnRow(r)
    PROVE  /\ [op |-> "list", stmt |-> s, run |-> r.runs,
               row |-> [i \in 1 .. NCols |-> Cell(r)]] \in Frames
           /\ [op |-> "array", stmt |-> s, run |-> r.runs, row |-> <<Cell(r)>>] \in Frames
<1>1. Cell(r) \in (1 .. MaxRuns) \X (1 .. MaxRows) /\ r.runs \in RunId
  BY CellTyped
<1> DEFINE c == Cell(r)
<1> DEFINE l == [i \in 1 .. NCols |-> c]
<1> HIDE DEF c
<1>2. l \in Seq((1 .. MaxRuns) \X (1 .. MaxRows))
  BY <1>1, ConstantSequence, Bounds DEF c
<1>3. <<c>> \in Seq((1 .. MaxRuns) \X (1 .. MaxRows))
  BY <1>1 DEF c
<1> HIDE DEF l
<1>4. /\ [op |-> "list", stmt |-> s, run |-> r.runs, row |-> l] \in Frames
      /\ [op |-> "array", stmt |-> s, run |-> r.runs, row |-> <<c>>] \in Frames
  BY <1>1, <1>2, <1>3 DEF Frames
<1> QED
  BY <1>4 DEF l, c

LEMMA FetchingKeeps ==
    ASSUME IInv, NEW s \in Stmt, Fetching(s)
    PROVE  IInv'
<1>a. Consistent(stmt[s]) /\ "fetch" \in Commands /\ "error" \in Results /\ "false" \in Results
  BY DEF IInv, Commands, Results
<1>1. CASE FetchWithout(s)
  BY <1>1, CrashKeeps DEF FetchWithout, Faults
<1>2. ASSUME NEW seek \in Seeks,
             \/ FetchNoRow(s, seek) \/ FetchRowFails(s, seek)
             \/ FetchList(s, seek) \/ FetchArray(s, seek)
      PROVE  IInv'
  <2> DEFINE r == Moved(stmt[s], seek)
  <2>1. Consistent(r) /\ r.rset = stmt[s].rset
    BY <1>a, MovedConsistent
  <2>2. CASE FetchNoRow(s, seek)
    <3>1. \/ Ends("fetch", s, stmt[s], "error")
          \/ Ends("fetch", s, r, "false")
      BY <2>2 DEF FetchNoRow
    <3> HIDE DEF r
    <3> QED
      BY <1>a, <2>1, <3>1, EndsKeeps
  <2>3. CASE FetchRowFails(s, seek)
    <3>1. Ends("fetch", s, r, "error")
      BY <2>3 DEF FetchRowFails
    <3> HIDE DEF r
    <3> QED
      BY <1>a, <2>1, <3>1, EndsKeeps
  <2>4. CASE FetchList(s, seek)
    <3>1. /\ stmt[s].rset # 0 /\ OnRow(r) /\ stmt' = [stmt EXCEPT ![s] = r]
          /\ Push([op |-> "list", stmt |-> s, run |-> r.runs,
                   row |-> [i \in 1 .. NCols |-> Cell(r)]])
          /\ UNCHANGED <<gone, reply, fault>>
      BY <2>4 DEF FetchList
    <3> HIDE DEF r
    <3>2. [op |-> "list", stmt |-> s, run |-> r.runs,
           row |-> [i \in 1 .. NCols |-> Cell(r)]] \in Frames
      BY <2>1, <3>1, FetchFrames
    <3> QED
      BY <2>1, <3>1, <3>2, PushKeeps
  <2>5. CASE FetchArray(s, seek)
    <3>1. /\ stmt[s].rset # 0 /\ OnRow(r) /\ stmt' = [stmt EXCEPT ![s] = r]
          /\ Push([op |-> "array", stmt |-> s, run |-> r.runs, row |-> <<Cell(r)>>])
          /\ UNCHANGED <<gone, reply, fault>>
      BY <2>5 DEF FetchArray
    <3> HIDE DEF r
    <3>2. [op |-> "array", stmt |-> s, run |-> r.runs, row |-> <<Cell(r)>>] \in Frames
      BY <2>1, <3>1, FetchFrames
    <3> QED
      BY <2>1, <3>1, <3>2, PushKeeps
  <2> QED
    BY <1>2, <2>2, <2>3, <2>4, <2>5
<1> QED
  BY <1>1, <1>2 DEF Fetching

LEMMA ResumesTop == Resume => Running /\ stack # <<>>
BY DEF Resume, GoesOn, ArrayLoses, ArrayColumn, ArrayColumnFails, ArrayEnds, ArrayGoesOn, ListEnds,
       InLoses, InFails, InKeeps, InGoesOn, InRefused, InExecutes,
       OutLoses, OutNext, OutFails, OutEnds, Resumed

LEMMA ResumeKeeps ==
    ASSUME IInv, Resume
    PROVE  IInv'
<1> USE Bounds
<1>a. stack # <<>>
  BY ResumesTop
<1>b. Top.stmt \in Stmt /\ Consistent(stmt[Top.stmt])
  BY <1>a, TopTyped DEF IInv
<1>1. CASE ArrayLoses
  BY <1>1, CrashKeeps DEF ArrayLoses, Faults
<1>2. CASE ArrayColumn
  <2>1. /\ Top.op = "array" /\ stmt[Top.stmt].rset # 0 /\ OnRow(stmt[Top.stmt])
        /\ Pause([Top EXCEPT !.row = Append(@, Cell(stmt[Top.stmt]))])
        /\ UNCHANGED <<stmt, gone, reply, fault>>
    BY <1>2 DEF ArrayColumn, ArrayGoesOn, Resumed
  <2> DEFINE c == Cell(stmt[Top.stmt])
  <2>2. c \in (1 .. MaxRuns) \X (1 .. MaxRows)
    BY <1>b, <2>1, CellTyped
  <2>3. Top \in Frames /\ Top.row \in Seq((1 .. MaxRuns) \X (1 .. MaxRows))
    BY <1>a, <2>1, TopTyped
  <2>4. Append(Top.row, c) \in Seq((1 .. MaxRuns) \X (1 .. MaxRows))
    BY <2>2, <2>3, PushedSequence
  <2>5. [Top EXCEPT !.row = Append(@, c)] \in Frames
    BY <2>1, <2>3, <2>4 DEF Frames
  <2> QED
    BY <1>a, <2>1, <2>5, PauseKeeps
<1>3. CASE ArrayColumnFails
  BY <1>a, <1>3, FetchedKeeps DEF ArrayColumnFails, ArrayGoesOn, Resumed
<1>4. CASE ArrayEnds
  BY <1>a, <1>4, FetchedKeeps DEF ArrayEnds, Resumed
<1>5. CASE ListEnds
  BY <1>a, <1>5, FetchedKeeps DEF ListEnds, Resumed
<1>6. CASE OutLoses
  BY <1>6, CrashKeeps DEF OutLoses, Faults
<1>7. CASE OutNext
  <2>1. /\ Top.op = "out" /\ Top.next <= NOut
        /\ Pause([Top EXCEPT !.next = @ + 1])
        /\ UNCHANGED <<stmt, gone, reply, fault>>
    BY <1>7 DEF OutNext, Resumed
  <2>2. Top \in Frames /\ Top.next \in 2 .. NOut + 1
    BY <1>a, <2>1, TopTyped
  <2>3. Top.next + 1 \in 2 .. NOut + 1
    BY <2>1, <2>2
  <2>4. [Top EXCEPT !.next = @ + 1] \in Frames
    BY <2>1, <2>2, <2>3 DEF Frames
  <2> QED
    BY <1>a, <2>1, <2>4, PauseKeeps
<1>8. CASE OutFails
  BY <1>8, CrashKeeps DEF OutFails, Faults
<1>9. CASE OutEnds
  <2> DEFINE r == stmt[Top.stmt]
  <2>1. CASE Top.stmt \in gone \/ (r.query /\ r.open = 0)
    BY <1>9, <2>1, CrashKeeps DEF OutEnds, Faults
  <2>2. CASE ~ (Top.stmt \in gone \/ (r.query /\ r.open = 0))
    <3>1. /\ stmt' = [stmt EXCEPT ![Top.stmt] = SetExecuteResult(r)]
          /\ Pop /\ Answer("execute", Top.stmt, "ok") /\ UNCHANGED <<gone, fault>>
      BY <1>9, <2>2 DEF OutEnds
    <3>2. Consistent(SetExecuteResult(r))
      BY <1>b, <2>2, ResultConsistent
    <3>3. stmt' \in [Stmt -> StmtType] /\ \A z \in Stmt : Consistent(stmt'[z])
      BY <1>b, <3>1, <3>2, OneStatement
    <3>4. reply' \in [cmd : Commands, stmt : Stmt, res : Results,
                      row : Seq((1 .. MaxRuns) \X (1 .. MaxRows))]
      BY <1>b, <3>1, AnswerTyped DEF Commands, Results
    <3>5. stack' \in Seq(Frames)
      BY <1>a, <3>1, TopTyped DEF Pop
    <3> QED
      BY <3>1, <3>3, <3>4, <3>5 DEF IInv, TypeOK
  <2> QED
    BY <2>1, <2>2
<1>10. CASE InLoses \/ InKeeps
  BY <1>10, CrashKeeps DEF InLoses, InKeeps, Faults
<1>11. ASSUME NEW r, Consistent(r), stmt' = [stmt EXCEPT ![Top.stmt] = r], Pop,
              Answer("execute", Top.stmt, "error"), UNCHANGED <<gone, fault>>
       PROVE  IInv'
  <2>1. stmt' \in [Stmt -> StmtType] /\ \A z \in Stmt : Consistent(stmt'[z])
    BY <1>b, <1>11, OneStatement
  <2>2. reply' \in [cmd : Commands, stmt : Stmt, res : Results,
                    row : Seq((1 .. MaxRuns) \X (1 .. MaxRows))]
    BY <1>b, <1>11, AnswerTyped DEF Commands, Results
  <2>3. stack' \in Seq(Frames)
    BY <1>a, <1>11, TopTyped DEF Pop
  <2> QED
    BY <1>11, <2>1, <2>2, <2>3 DEF IInv, TypeOK
<1>12. CASE InFails
  <2> DEFINE r == stmt[Top.stmt]
  <2> DEFINE t == IF r.runs = Top.run THEN r ELSE Usage(r)
  <2>1. /\ stmt' = [stmt EXCEPT ![Top.stmt] = t] /\ Pop
        /\ Answer("execute", Top.stmt, "error") /\ UNCHANGED <<gone, fault>>
    BY <1>12 DEF InFails
  <2>2. Consistent(t)
    BY <1>b, UsageConsistent
  <2> HIDE DEF t
  <2> QED
    BY <1>11, <2>1, <2>2
<1>13. CASE InRefused
  <2>1. PICK q \in BOOLEAN : stmt' = [stmt EXCEPT ![Top.stmt] = Refused(stmt[Top.stmt], q)]
    BY <1>13 DEF InRefused
  <2>2. Consistent(Refused(stmt[Top.stmt], q))
    BY <1>b, <1>13, RefusedConsistent DEF InRefused, InGoesOn
  <2> QED
    BY <1>11, <1>13, <2>1, <2>2 DEF InRefused
<1>14. CASE InExecutes
  <2>1. PICK q \in BOOLEAN, n \in 0 .. MaxRows :
           stmt' = [stmt EXCEPT ![Top.stmt] = Executed(stmt[Top.stmt], Top.run, q, n)]
    BY <1>14 DEF InExecutes
  <2> DEFINE e == Executed(stmt[Top.stmt], Top.run, q, n)
  <2>2. /\ Top.op = "in" /\ stmt[Top.stmt].rset = 0 /\ Pause(OutFrame(Top.stmt, Top.run))
        /\ UNCHANGED <<gone, reply, fault>>
    BY <1>14 DEF InExecutes, InGoesOn, Resumed
  <2>3. Top.stmt \in Prepared /\ Top.run \in 1 .. MaxRuns /\ NOut > 0
    BY <1>a, <2>2, TopTyped
  <2>5. Consistent(e)
    BY <1>b, <2>2, <2>3, ExecutedConsistent
  <2>6. OutFrame(Top.stmt, Top.run) \in Frames
    BY <2>3, ExecuteFrames
  <2> HIDE DEF e
  <2>7. stmt' \in [Stmt -> StmtType] /\ \A z \in Stmt : Consistent(stmt'[z])
    BY <1>b, <2>1, <2>5, OneStatement DEF e
  <2>8. stack' \in Seq(Frames)
    BY <1>a, <2>2, <2>6, PausedSequence DEF Pause, IInv, TypeOK
  <2> QED
    BY <2>2, <2>7, <2>8 DEF IInv, TypeOK
<1> QED
  BY <1>1, <1>2, <1>3, <1>4, <1>5, <1>6, <1>7, <1>8, <1>9, <1>10, <1>12, <1>13, <1>14
     DEF Resume, GoesOn

\* The invariant is inductive: no command and no trace breaks it, whatever the
\* script does.
LEMMA StepIInv == IInv /\ [Next]_vars => IInv'
<1> SUFFICES ASSUME IInv, [Next]_vars PROVE IInv'
  OBVIOUS
<1>1. ASSUME NEW s \in Stmt, Command(s)
      PROVE  IInv'
  BY <1>1, ExecutionKeeps, AskingKeeps, FetchingKeeps DEF Command
<1>2. CASE Disconnect \/ \E s \in Stmt : LetGo(s)
  BY <1>2 DEF Disconnect, LetGo, IInv, TypeOK
<1>3. CASE Resume
  BY <1>3, ResumeKeeps
<1>4. CASE UNCHANGED vars
  BY <1>4 DEF vars, IInv, TypeOK
<1> QED
  BY <1>1, <1>2, <1>3, <1>4 DEF Next

LEMMA InvariantIInv == Spec => []IInv
BY InitIInv, StepIInv, PTL DEF Spec

\* Statements and suspended commands keep their shape in every script: the state
\* of sdbstmt.cc between any two accesses to variables.
THEOREM TypeCorrect == Spec => []TypeOK
<1>1. IInv => TypeOK
  BY DEF IInv
<1> QED
  BY <1>1, InvariantIInv, PTL

\* SdbStmt::rset is null or the result set SQLDBC holds open for the statement,
\* which it then calls a query: in every script, whatever failed and whatever the
\* traces of execute and fetch have executed, up to the first fault.
THEOREM ResultsAreOpen == Spec => []ResultIsOpen
<1>1. IInv => ResultIsOpen
  BY DEF IInv, Consistent, ResultIsOpen
<1> QED
  BY <1>1, InvariantIInv, PTL

\* An execute that answers with the number of rows of a query leaves a result
\* set, and only an execute that is refused before clearResults, or executed
\* again in its read traces, fails and leaves one.
THEOREM QueriesLeaveResults == Spec => []QueriesHaveResults
<1>1. IInv => QueriesHaveResults
  BY DEF IInv, Consistent, QueriesHaveResults
<1> QED
  BY <1>1, InvariantIInv, PTL

\* The columns SdbStmt::cols describe the result set that fetch reads from, even
\* when a trace of copyOutput has filled them before execute does.
THEOREM ColumnsMatch == Spec => []ColumnsOfResult
<1>1. IInv => ColumnsOfResult
  BY DEF IInv, Consistent, ColumnsOfResult
<1> QED
  BY <1>1, InvariantIInv, PTL

----------------------------------------------------------------------------
(* Quiet scripts: a trace leaves the statement it interrupts alone.        *)

\* The result set is that of the last execution, with all its columns.
Latest(r) == r.rset # 0 => r.rset = r.runs /\ Len(r.cols) = NCols

\* What the suspended command f has read of its statement r still holds.
Undisturbed(f, r) ==
    /\ f.run = r.runs
    /\ f.op = "in" => r.rset = 0
    /\ f.op = "out" => r.rset = 0 /\ r.pos = 0 /\ r.cols = <<>> /\ (r.query => r.open = r.runs)
    /\ f.op \in {"list", "array"} =>
          /\ r.rset # 0
          /\ Len(f.row) \in 1 .. NCols
          /\ \A i \in 1 .. Len(f.row) : f.row[i] = Cell(r)
    /\ f.op = "list" => Len(f.row) = NCols

QuietInv ==
    /\ NothingStale /\ RowsAreWhole
    /\ \A i \in 1 .. Len(stack) : stack[i].stmt \notin gone
    /\ \A s \in Stmt : Latest(stmt[s])
    /\ \A i \in 1 .. Len(stack) : Undisturbed(stack[i], stmt[stack[i].stmt])
    /\ \A i, j \in 1 .. Len(stack) : stack[i].stmt = stack[j].stmt => i = j

LEMMA InitQuietInv == Init => QuietInv
<1> SUFFICES ASSUME Init PROVE QuietInv
  OBVIOUS
<1>1. \A s \in Stmt : \E q \in BOOLEAN : stmt[s] = New(q)
  BY DEF Init
<1>a. \A q : New(q).rset = 0
  BY DEF New
<1>2. \A s \in Stmt : Latest(stmt[s])
  BY <1>1, <1>a DEF Latest
<1>3. 1 .. Len(stack) = {}
  BY DEF Init
<1>4. NothingStale /\ RowsAreWhole
  BY DEF Init, NothingStale, RowsAreWhole
<1> QED
  BY <1>2, <1>3, <1>4 DEF QuietInv

\* Statements the frames of the stack belong to.
LEMMA StackStatements ==
    ASSUME IInv
    PROVE  /\ Len(stack) \in Nat
           /\ \A i \in 1 .. Len(stack) : stack[i].stmt \in Stmt /\ stack[i].stmt \in Interrupted
<1>1. Len(stack) \in Nat /\ DOMAIN stack = 1 .. Len(stack)
  BY LenProperties DEF IInv, TypeOK
<1>2. ASSUME NEW i \in 1 .. Len(stack) PROVE stack[i].stmt \in Stmt
  <2>1. stack[i] \in Frames
    BY ElementOfSeq DEF IInv, TypeOK
  <2> QED
    BY <2>1, ParamAssumption DEF Frames
<1> QED
  BY <1>1, <1>2 DEF Interrupted

\* A command on a statement that no suspended command belongs to disturbs none.
LEMMA QuietStatement ==
    ASSUME IInv, QuietInv, NEW s \in Stmt \ Interrupted, NEW r, Latest(r),
           stmt' = [stmt EXCEPT ![s] = r]
    PROVE  /\ \A z \in Stmt : Latest(stmt'[z])
           /\ \A i \in 1 .. Len(stack) : Undisturbed(stack[i], stmt'[stack[i].stmt])
<1>1. \A z \in Stmt : stmt'[z] = IF z = s THEN r ELSE stmt[z]
  BY DEF IInv, TypeOK
<1>2. \A i \in 1 .. Len(stack) : stack[i].stmt \in Stmt /\ stack[i].stmt # s
  BY StackStatements
<1> QED
  BY <1>1, <1>2 DEF QuietInv

LEMMA QuietEnds ==
    ASSUME IInv, QuietInv, NEW s \in Stmt \ Interrupted, NEW r, Latest(r),
           NEW c, NEW x, x # "true", Ends(c, s, r, x)
    PROVE  QuietInv'
<1>1. /\ \A z \in Stmt : Latest(stmt'[z])
      /\ \A i \in 1 .. Len(stack) : Undisturbed(stack[i], stmt'[stack[i].stmt])
  BY QuietStatement DEF Ends
<1>2. UNCHANGED <<stack, gone, fault>> /\ reply'.res = x
  BY DEF Ends, Answer
<1> QED
  BY <1>1, <1>2 DEF QuietInv, NothingStale, RowsAreWhole

LEMMA QuietPush ==
    ASSUME IInv, QuietInv, NEW s \in Stmt \ Interrupted, NEW r, Latest(r),
           s \notin gone, NEW f \in Frames, f.stmt = s, Undisturbed(f, r),
           stmt' = [stmt EXCEPT ![s] = r], Push(f), UNCHANGED <<gone, reply, fault>>
    PROVE  QuietInv'
<1>1. /\ \A z \in Stmt : Latest(stmt'[z])
      /\ \A i \in 1 .. Len(stack) : Undisturbed(stack[i], stmt'[stack[i].stmt])
  BY QuietStatement
<1>2. /\ Len(stack') = Len(stack) + 1
      /\ \A i \in 1 .. Len(stack) : stack'[i] = stack[i]
      /\ stack'[Len(stack) + 1] = f
  BY PushedSequence DEF Push, IInv, TypeOK
<1>3. /\ Len(stack) \in Nat
      /\ \A i \in 1 .. Len(stack) : stack[i].stmt # s
  BY StackStatements
<1>4. stmt'[s] = r
  BY DEF IInv, TypeOK
<1>5. \A i \in 1 .. Len(stack') : i \in 1 .. Len(stack) \/ i = Len(stack) + 1
  BY <1>2, <1>3
<1>6. \A i \in 1 .. Len(stack') : Undisturbed(stack'[i], stmt'[stack'[i].stmt])
  BY <1>1, <1>2, <1>4, <1>5
<1>7. \A i, j \in 1 .. Len(stack') : stack'[i].stmt = stack'[j].stmt => i = j
  BY <1>2, <1>3, <1>5 DEF QuietInv
<1>8. \A i \in 1 .. Len(stack') : stack'[i].stmt \notin gone'
  BY <1>2, <1>5 DEF QuietInv
<1> QED
  BY <1>1, <1>6, <1>7, <1>8 DEF QuietInv, NothingStale, RowsAreWhole

LEMMA TopUndisturbed ==
    ASSUME IInv, QuietInv, stack # <<>>
    PROVE  /\ Undisturbed(Top, stmt[Top.stmt])
           /\ Top.stmt \notin gone
           /\ Len(stack) \in Nat \ {0}
           /\ Top = stack[Len(stack)]
           /\ Len(Front(stack)) = Len(stack) - 1
           /\ \A i \in 1 .. Len(stack) - 1 :
                 /\ Front(stack)[i] = stack[i]
                 /\ stack[i].stmt # Top.stmt
<1>1. /\ Len(stack) \in Nat \ {0} /\ Top = stack[Len(stack)]
      /\ Len(Front(stack)) = Len(stack) - 1
      /\ \A i \in 1 .. Len(stack) - 1 : Front(stack)[i] = stack[i]
  BY PoppedSequence DEF IInv, TypeOK, Top
<1>2. Len(stack) \in 1 .. Len(stack)
  BY <1>1
<1>3. ASSUME NEW i \in 1 .. Len(stack) - 1 PROVE stack[i].stmt # Top.stmt
  <2>1. i \in 1 .. Len(stack) /\ i # Len(stack)
    BY <1>1
  <2> QED
    BY <1>1, <1>2, <2>1 DEF QuietInv
<1> QED
  BY <1>1, <1>2, <1>3 DEF QuietInv

\* The interrupted command accesses its next variable; r is its statement then.
LEMMA QuietPause ==
    ASSUME IInv, QuietInv, stack # <<>>, NEW f \in Frames, f.stmt = Top.stmt,
           NEW r, Latest(r), Undisturbed(f, r), stmt' = [stmt EXCEPT ![Top.stmt] = r],
           Pause(f), UNCHANGED <<gone, reply, fault>>
    PROVE  QuietInv'
<1>1. /\ Len(stack') = Len(stack)
      /\ \A i \in 1 .. Len(stack) - 1 : stack'[i] = stack[i]
      /\ stack'[Len(stack)] = f
  <2>1. stack \in Seq(Frames) /\ stack' = Append(Front(stack), f)
    BY DEF Pause, IInv, TypeOK
  <2>2. /\ Len(Append(Front(stack), f)) = Len(stack)
        /\ \A i \in 1 .. Len(stack) - 1 : Append(Front(stack), f)[i] = stack[i]
        /\ Append(Front(stack), f)[Len(stack)] = f
    BY <2>1, PausedSequence
  <2> QED
    BY <2>1, <2>2
<1>2. /\ Len(stack) \in Nat \ {0} /\ Top = stack[Len(stack)]
      /\ \A i \in 1 .. Len(stack) - 1 : stack[i].stmt # Top.stmt
  BY TopUndisturbed
<1>3. \A i \in 1 .. Len(stack') : i \in 1 .. Len(stack) - 1 \/ i = Len(stack)
  BY <1>1, <1>2
<1>4. \A i \in 1 .. Len(stack) : stack'[i].stmt = stack[i].stmt
  BY <1>1, <1>2, <1>3
<1>a. Top.stmt \in Stmt /\ \A i \in 1 .. Len(stack) : stack[i].stmt \in Stmt
  BY TopTyped, StackStatements
<1>b. \A z \in Stmt : stmt'[z] = IF z = Top.stmt THEN r ELSE stmt[z]
  BY <1>a DEF IInv, TypeOK
<1>c. \A z \in Stmt : Latest(stmt'[z])
  BY <1>b DEF QuietInv
<1>5. \A i \in 1 .. Len(stack') : Undisturbed(stack'[i], stmt'[stack'[i].stmt])
  <2> SUFFICES ASSUME NEW i \in 1 .. Len(stack')
               PROVE  Undisturbed(stack'[i], stmt'[stack[i].stmt])
    BY <1>1, <1>4
  <2>1. CASE i = Len(stack)
    BY <1>1, <1>2, <1>a, <1>b, <2>1
  <2>2. CASE i \in 1 .. Len(stack) - 1
    <3>1. i \in 1 .. Len(stack) /\ stack'[i] = stack[i] /\ stack[i].stmt # Top.stmt
      BY <1>1, <1>2, <2>2
    <3> QED
      BY <1>a, <1>b, <3>1 DEF QuietInv
  <2> QED
    BY <1>3, <2>1, <2>2
<1>6. \A i, j \in 1 .. Len(stack') : stack'[i].stmt = stack'[j].stmt => i = j
  BY <1>1, <1>4 DEF QuietInv
<1>7. \A i \in 1 .. Len(stack') : stack'[i].stmt \notin gone'
  BY <1>1, <1>4 DEF QuietInv
<1> QED
  BY <1>5, <1>6, <1>7, <1>c DEF QuietInv, NothingStale, RowsAreWhole

\* The interrupted command ends; r is its statement afterwards.
LEMMA QuietPop ==
    ASSUME IInv, QuietInv, stack # <<>>, NEW r, Latest(r),
           stmt' = [stmt EXCEPT ![Top.stmt] = r], Pop, UNCHANGED <<gone, fault>>,
           RowsAreWhole'
    PROVE  QuietInv'
<1>1. /\ Len(stack) \in Nat \ {0} /\ Len(stack') = Len(stack) - 1
      /\ \A i \in 1 .. Len(stack') : /\ stack'[i] = stack[i]
                                     /\ stack[i].stmt # Top.stmt
  BY TopUndisturbed DEF Pop
<1>2. \A i \in 1 .. Len(stack') : i \in 1 .. Len(stack)
  BY <1>1
<1>3. Top.stmt \in Stmt /\ \A i \in 1 .. Len(stack) : stack[i].stmt \in Stmt
  BY TopTyped, StackStatements
<1>4. \A z \in Stmt : stmt'[z] = IF z = Top.stmt THEN r ELSE stmt[z]
  BY <1>3 DEF IInv, TypeOK
<1>5. \A z \in Stmt : Latest(stmt'[z])
  BY <1>4 DEF QuietInv
<1>6. \A i \in 1 .. Len(stack') : Undisturbed(stack'[i], stmt'[stack'[i].stmt])
  BY <1>1, <1>2, <1>3, <1>4 DEF QuietInv
<1>7. \A i, j \in 1 .. Len(stack') : stack'[i].stmt = stack'[j].stmt => i = j
  BY <1>1, <1>2 DEF QuietInv
<1>8. NothingStale' /\ RowsAreWhole' /\ \A i \in 1 .. Len(stack') : stack'[i].stmt \notin gone'
  BY <1>1, <1>2 DEF QuietInv, NothingStale
<1> QED
  BY <1>5, <1>6, <1>7, <1>8 DEF QuietInv

\* setExecuteResult of an execution that nothing has disturbed.
LEMMA ResultLatest ==
    ASSUME NEW r, Consistent(r), r.rset = 0, r.cols = <<>>, r.query => r.open = r.runs
    PROVE  Latest(SetExecuteResult(r))
<1> USE Bounds
<1> DEFINE t == SetExecuteResult(r)
<1>1. CASE ~ r.query
  <2>1. t.rset = 0
    BY <1>1 DEF SetExecuteResult, Consistent, StmtType
  <2> QED
    BY <2>1 DEF Latest
<1>2. CASE r.query
  <2> DEFINE c == [i \in 1 .. NCols |-> r.open]
  <2>1. t = [r EXCEPT !.rset = r.open, !.last = "query", !.cols = @ \o c]
    BY <1>2 DEF SetExecuteResult
  <2>2. t.rset = r.open /\ t.runs = r.runs /\ t.cols = <<>> \o c
    BY <2>1 DEF Consistent, StmtType
  <2>3. r.open \in RunId
    BY DEF Consistent, StmtType
  <2>4. c \in Seq(RunId) /\ Len(c) = NCols
    BY <2>3, ConstantSequence
  <2> HIDE DEF c
  <2>5. Len(<<>> \o c) = NCols
    BY <2>4, EmptySequence, ConcatProperties
  <2>6. Latest(t)
    BY <1>2, <2>2, <2>5 DEF Latest
  <2> QED
    BY <2>6
<1> QED
  BY <1>1, <1>2 DEF Consistent, StmtType

\* setExecuteResult takes the open result set or none, and moves nothing.
LEMMA ResultKeeps ==
    ASSUME NEW r, Consistent(r), r.rset = 0, r.pos = 0, r.query => r.open = r.runs
    PROVE  /\ SetExecuteResult(r).runs = r.runs /\ SetExecuteResult(r).pos = 0
           /\ SetExecuteResult(r).rset \in {0, r.runs}
<1>1. CASE ~ r.query
  BY <1>1 DEF SetExecuteResult, Consistent, StmtType
<1>2. CASE r.query
  <2> DEFINE c == r.cols \o [i \in 1 .. NCols |-> r.open]
  <2>1. SetExecuteResult(r) = [r EXCEPT !.rset = r.open, !.last = "query", !.cols = c]
    BY <1>2 DEF SetExecuteResult
  <2> HIDE DEF c
  <2> QED
    BY <1>2, <2>1 DEF Consistent, StmtType
<1> QED
  BY <1>1, <1>2 DEF Consistent, StmtType

LEMMA QuietExecution ==
    ASSUME IInv, QuietInv, NEW s \in Stmt \ Interrupted, Execution(s)
    PROVE  QuietInv'
<1> USE Bounds
<1>a. Consistent(stmt[s]) /\ Latest(stmt[s])
  BY DEF IInv, QuietInv
<1>b. ASSUME CanExecute(s)
      PROVE  /\ Latest(Attempt(stmt[s]))
             /\ \A q \in BOOLEAN : Latest(Refused(Attempt(stmt[s]), q))
  <2> DEFINE a == Attempt(stmt[s])
  <2>1. Consistent(a) /\ a.rset = 0
    BY <1>a, <1>b, AttemptConsistent DEF CanExecute
  <2> HIDE DEF a
  <2>2. \A q \in BOOLEAN : Refused(a, q).rset = 0
    BY <2>1, RefusedConsistent
  <2> QED
    BY <2>1, <2>2 DEF Latest, a
<1>1. CASE ExecuteUsage(s)
  <2>1. Latest(Usage(stmt[s]))
    BY <1>a, UsageConsistent DEF Latest
  <2> QED
    BY <1>1, <2>1, QuietEnds DEF ExecuteUsage
<1>2. CASE ExecuteRefused(s)
  BY <1>2, <1>b, QuietEnds DEF ExecuteRefused
<1>3. CASE ExecuteFails(s)
  <2>1. PICK q \in BOOLEAN : Ends("execute", s, Refused(Attempt(stmt[s]), q), "error")
    BY <1>3 DEF ExecuteFails
  <2> QED
    BY <1>3, <1>b, <2>1, QuietEnds DEF ExecuteFails
<1>4. CASE ExecuteSucceeds(s)
  <2> DEFINE a == Attempt(stmt[s])
  <2>1. PICK q \in BOOLEAN, n \in 0 .. MaxRows :
           Ends("execute", s, SetExecuteResult(Executed(a, a.runs, q, n)), "ok")
    BY <1>4 DEF ExecuteSucceeds
  <2> DEFINE e == Executed(a, a.runs, q, n)
  <2>2. /\ Consistent(e) /\ e.rset = 0 /\ e.cols = <<>> /\ e.query = q
        /\ q => e.open = e.runs
    BY <1>4, <1>a, AttemptExecuted DEF ExecuteSucceeds, CanExecute
  <2>3. Ends("execute", s, SetExecuteResult(e), "ok")
    BY <2>1
  <2> HIDE DEF e
  <2>4. Latest(SetExecuteResult(e))
    BY <2>2, ResultLatest
  <2> QED
    BY <2>3, <2>4, QuietEnds
<1>5. CASE ExecuteWithOut(s)
  <2> DEFINE a == Attempt(stmt[s])
  <2>1. PICK q \in BOOLEAN, n \in 0 .. MaxRows :
           /\ stmt' = [stmt EXCEPT ![s] = Executed(a, a.runs, q, n)]
           /\ Push(OutFrame(s, a.runs))
    BY <1>5 DEF ExecuteWithOut
  <2> DEFINE e == Executed(a, a.runs, q, n)
  <2>2. /\ Consistent(e) /\ e.rset = 0 /\ e.pos = 0 /\ e.cols = <<>> /\ e.query = q
        /\ e.runs \in 1 .. MaxRuns /\ e.runs = a.runs
        /\ q => e.open = e.runs
    BY <1>5, <1>a, AttemptExecuted DEF ExecuteWithOut, CanExecute
  <2> DEFINE f == OutFrame(s, a.runs)
  <2>3. /\ stmt' = [stmt EXCEPT ![s] = e] /\ Push(f)
        /\ UNCHANGED <<gone, reply, fault>> /\ s \notin gone
    BY <1>5, <2>1 DEF ExecuteWithOut, CanExecute, CanStart
  <2>4. f \in Frames /\ f.stmt = s /\ f.op = "out" /\ f.run = a.runs
    BY <1>5, <2>2, ExecuteFrames DEF ExecuteWithOut
  <2> HIDE DEF a, e, f
  <2>5. Latest(e) /\ Undisturbed(f, e)
    BY <2>2, <2>4 DEF Latest, Undisturbed
  <2> QED
    BY <2>3, <2>4, <2>5, QuietPush
<1>6. CASE Batch(s)
  <2>1. PICK q \in BOOLEAN, x \in {"ok", "error"} : Ends("batch", s, Refused(Attempt(stmt[s]), q), x)
    BY <1>6 DEF Batch
  <2> QED
    BY <1>6, <1>b, <2>1, QuietEnds DEF Batch
<1>7. CASE ExecuteReads(s)
  <2> DEFINE a == Attempt(stmt[s])
  <2> DEFINE f == InFrame(s, a.runs)
  <2>1. /\ stmt' = [stmt EXCEPT ![s] = a] /\ Push(f)
        /\ UNCHANGED <<gone, reply, fault>> /\ s \notin gone
    BY <1>7 DEF ExecuteReads, CanExecute, CanStart
  <2>2. Consistent(a) /\ a.rset = 0 /\ a.runs \in 1 .. MaxRuns
    BY <1>7, <1>a, AttemptConsistent DEF ExecuteReads, CanExecute
  <2>3. f \in Frames /\ f.stmt = s /\ f.op = "in" /\ f.run = a.runs
    BY <1>7, <2>2, ExecuteFrames DEF ExecuteReads
  <2> HIDE DEF a, f
  <2>4. Undisturbed(f, a) /\ Latest(a)
    BY <2>2, <2>3 DEF Undisturbed, Latest
  <2> QED
    BY <2>1, <2>3, <2>4, QuietPush
<1> QED
  BY <1>1, <1>2, <1>3, <1>4, <1>5, <1>6, <1>7 DEF Execution

LEMMA QuietAsking ==
    ASSUME IInv, QuietInv, NEW s \in Stmt \ Interrupted, Asking(s)
    PROVE  QuietInv' /\ ~ LabelsLost(s)
<1>1. Consistent(stmt[s]) /\ Latest(stmt[s])
  BY DEF IInv, QuietInv
<1>2. ~ (Len(stmt[s].cols) > NCols)
  <2>1. CASE stmt[s].rset = 0
    <3>1. Len(stmt[s].cols) = 0
      BY <1>1, <2>1, NoColumns
    <3> QED
      BY <3>1, Bounds
  <2>2. CASE stmt[s].rset # 0
    BY <1>1, <2>2, Bounds DEF Latest
  <2> QED
    BY <2>1, <2>2
<1>3. ~ LabelsLost(s)
  BY <1>2 DEF LabelsLost
<1>4. PICK c \in Commands, x \in {"error", "zero", "some"} : Ends(c, s, stmt[s], x)
  BY <1>3 DEF Asking, Columns, RowNumber, Commands
<1> QED
  BY <1>1, <1>3, <1>4, QuietEnds

\* The frames a fetch leaves are whole as far as they have been read.
LEMMA FetchUndisturbed ==
    ASSUME NEW s \in Stmt, NEW r, r.rset # 0
    PROVE  /\ Undisturbed([op |-> "list", stmt |-> s, run |-> r.runs,
                           row |-> [i \in 1 .. NCols |-> Cell(r)]], r)
           /\ Undisturbed([op |-> "array", stmt |-> s, run |-> r.runs, row |-> <<Cell(r)>>], r)
<1> DEFINE c == Cell(r)
<1> DEFINE l == [i \in 1 .. NCols |-> c]
<1>1. Len(l) = NCols
  BY Bounds, ConstantSequence
<1>2. \A i \in 1 .. NCols : l[i] = c
  OBVIOUS
<1>3. Len(l) \in 1 .. NCols /\ \A i \in 1 .. Len(l) : l[i] = c
  <2> HIDE DEF l, c
  <2> QED
    BY <1>1, <1>2, Bounds
<1>4. Len(<<c>>) = 1 /\ <<c>>[1] = c
  OBVIOUS
<1>5. 1 \in 1 .. NCols
  BY Bounds
<1> HIDE DEF l
<1>6. Undisturbed([op |-> "list", stmt |-> s, run |-> r.runs, row |-> l], r)
  BY <1>1, <1>3 DEF Undisturbed
<1>7. Undisturbed([op |-> "array", stmt |-> s, run |-> r.runs, row |-> <<c>>], r)
  BY <1>4, <1>5 DEF Undisturbed
<1> QED
  BY <1>6, <1>7 DEF l

LEMMA QuietFetching ==
    ASSUME IInv, QuietInv, NEW s \in Stmt \ Interrupted, Fetching(s)
    PROVE  QuietInv'
<1>a. Consistent(stmt[s]) /\ Latest(stmt[s])
  BY DEF IInv, QuietInv
<1>1. CASE FetchWithout(s)
  BY <1>1 DEF FetchWithout, Crash, QuietInv, NothingStale, RowsAreWhole, Whole
<1>2. ASSUME NEW seek \in Seeks,
             \/ FetchNoRow(s, seek) \/ FetchRowFails(s, seek)
             \/ FetchList(s, seek) \/ FetchArray(s, seek)
      PROVE  QuietInv'
  <2> DEFINE r == Moved(stmt[s], seek)
  <2>1. Consistent(r) /\ r.rset = stmt[s].rset /\ Latest(r)
    BY <1>a, MovedConsistent DEF Latest
  <2>2. CASE FetchNoRow(s, seek)
    <3>1. \/ Ends("fetch", s, stmt[s], "error")
          \/ Ends("fetch", s, r, "false")
      BY <2>2 DEF FetchNoRow
    <3> HIDE DEF r
    <3> QED
      BY <1>a, <2>1, <3>1, QuietEnds
  <2>3. CASE FetchRowFails(s, seek)
    <3>1. Ends("fetch", s, r, "error")
      BY <2>3 DEF FetchRowFails
    <3> HIDE DEF r
    <3> QED
      BY <2>1, <3>1, QuietEnds
  <2>4. ASSUME NEW f, s \notin gone, r.rset # 0, OnRow(r), f \in Frames, f.stmt = s, Undisturbed(f, r),
               stmt' = [stmt EXCEPT ![s] = r], Push(f), UNCHANGED <<gone, reply, fault>>
        PROVE  QuietInv'
    <3> HIDE DEF r
    <3> QED
      BY <2>1, <2>4, QuietPush
  <2>5. CASE FetchList(s, seek)
    <3> DEFINE f == [op |-> "list", stmt |-> s, run |-> r.runs,
                     row |-> [i \in 1 .. NCols |-> Cell(r)]]
    <3>1. /\ r.rset # 0 /\ OnRow(r) /\ stmt' = [stmt EXCEPT ![s] = r]
          /\ Push(f) /\ UNCHANGED <<gone, reply, fault>> /\ s \notin gone
      BY <2>1, <2>5 DEF FetchList, CanStart
    <3>2. f \in Frames /\ Undisturbed(f, r)
      <4> HIDE DEF r
      <4> QED
        BY <2>1, <3>1, FetchFrames, FetchUndisturbed
    <3>3. f.stmt = s
      OBVIOUS
    <3> HIDE DEF f, r
    <3> QED
      BY <2>4, <3>1, <3>2, <3>3
  <2>6. CASE FetchArray(s, seek)
    <3> DEFINE f == [op |-> "array", stmt |-> s, run |-> r.runs, row |-> <<Cell(r)>>]
    <3>1. /\ r.rset # 0 /\ OnRow(r) /\ stmt' = [stmt EXCEPT ![s] = r]
          /\ Push(f) /\ UNCHANGED <<gone, reply, fault>> /\ s \notin gone
      BY <2>1, <2>6 DEF FetchArray, CanStart
    <3>2. f \in Frames /\ Undisturbed(f, r)
      <4> HIDE DEF r
      <4> QED
        BY <2>1, <3>1, FetchFrames, FetchUndisturbed
    <3>3. f.stmt = s
      OBVIOUS
    <3> HIDE DEF f, r
    <3> QED
      BY <2>4, <3>1, <3>2, <3>3
  <2> QED
    BY <1>2, <2>2, <2>3, <2>5, <2>6
<1> QED
  BY <1>1, <1>2 DEF Fetching

LEMMA QuietFetched ==
    ASSUME IInv, QuietInv, stack # <<>>, NEW x \in {"true", "error"}, Fetched(x),
           x = "true" => Whole(Top.row)
    PROVE  QuietInv'
<1>1. stmt' = [stmt EXCEPT ![Top.stmt] = stmt[Top.stmt]]
  <2>1. stmt \in [Stmt -> StmtType] /\ stmt' = stmt
    BY DEF Fetched, IInv, TypeOK
  <2> QED
    BY <2>1
<1>2. Latest(stmt[Top.stmt])
  BY TopTyped DEF QuietInv
<1>3. RowsAreWhole'
  <2>1. reply'.res = x /\ (x = "true" => reply'.row = Top.row)
    BY DEF Fetched
  <2> QED
    BY <2>1 DEF RowsAreWhole, Whole
<1> QED
  BY <1>1, <1>2, <1>3, QuietPop DEF Fetched

LEMMA QuietResume ==
    ASSUME IInv, QuietInv, Resume
    PROVE  QuietInv'
<1> USE Bounds
<1>a. stack # <<>>
  BY ResumesTop
<1> DEFINE r == stmt[Top.stmt]
<1>b. /\ Top.stmt \in Stmt /\ Consistent(r) /\ Latest(r) /\ (Top.op \in {"in", "out"} => Top.run \in 1 .. MaxRuns)
      /\ Undisturbed(Top, r) /\ Top \in Frames
  BY <1>a, TopTyped, TopUndisturbed DEF IInv, QuietInv
<1>c. Top.stmt \notin gone /\ Top.run = r.runs
  BY <1>a, <1>b, TopUndisturbed DEF Undisturbed
<1>d. stmt' = stmt => stmt' = [stmt EXCEPT ![Top.stmt] = r]
  BY DEF IInv, TypeOK
<1>1. CASE ArrayLoses
  BY <1>1, <1>c DEF ArrayLoses, RowIsStale
<1>2. CASE ArrayColumn
  <2> DEFINE c == Cell(r)
  <2> DEFINE f == [Top EXCEPT !.row = Append(@, c)]
  <2>1. /\ Top.op = "array" /\ r.rset # 0 /\ OnRow(r) /\ Len(Top.row) < NCols
        /\ Pause(f)
        /\ UNCHANGED <<stmt, gone, reply, fault>>
    BY <1>2 DEF ArrayColumn, ArrayGoesOn, Resumed
  <2>2. c \in (1 .. MaxRuns) \X (1 .. MaxRows)
    BY <1>b, <2>1, CellTyped
  <2>3. Top.row \in Seq((1 .. MaxRuns) \X (1 .. MaxRows))
    BY <1>a, <2>1, TopTyped
  <2>4. /\ Append(Top.row, c) \in Seq((1 .. MaxRuns) \X (1 .. MaxRows))
        /\ Len(Append(Top.row, c)) = Len(Top.row) + 1
        /\ \A i \in 1 .. Len(Top.row) : Append(Top.row, c)[i] = Top.row[i]
        /\ Append(Top.row, c)[Len(Top.row) + 1] = c
    BY <2>2, <2>3, PushedSequence
  <2>5. Len(Top.row) \in 1 .. NCols /\ \A i \in 1 .. Len(Top.row) : Top.row[i] = c
    BY <1>b, <2>1 DEF Undisturbed
  <2>6. /\ f \in Frames /\ f.op = "array" /\ f.stmt = Top.stmt /\ f.run = Top.run
        /\ f.row = Append(Top.row, c)
    BY <1>b, <2>1, <2>4 DEF Frames
  <2>7. Undisturbed(f, r)
    <3>1. Len(f.row) \in 1 .. NCols
      BY <2>1, <2>4, <2>5, <2>6
    <3>2. \A i \in 1 .. Len(f.row) : f.row[i] = c
      <4>1. \A i \in 1 .. Len(f.row) : i \in 1 .. Len(Top.row) \/ i = Len(Top.row) + 1
        BY <2>4, <2>5, <2>6
      <4> HIDE DEF c, f
      <4> QED
        BY <2>4, <2>5, <2>6, <4>1
    <3> HIDE DEF f, r
    <3> QED
      BY <1>c, <2>1, <2>6, <3>1, <3>2 DEF Undisturbed
  <2> HIDE DEF f, r
  <2> QED
    BY <1>a, <1>b, <1>d, <2>1, <2>6, <2>7, QuietPause
<1>3. CASE ArrayColumnFails
  BY <1>a, <1>3, QuietFetched DEF ArrayColumnFails
<1>4. CASE ArrayEnds
  <2>1. Top.op = "array" /\ r.rset # 0 /\ Len(Top.row) = Len(r.cols) /\ Fetched("true")
    BY <1>4 DEF ArrayEnds, Resumed
  <2>2. Len(r.cols) = NCols
    BY <1>b, <2>1 DEF Latest
  <2>3. \A i \in 1 .. Len(Top.row) : Top.row[i] = Cell(r)
    BY <1>b, <2>1 DEF Undisturbed
  <2>4. 1 \in 1 .. Len(Top.row)
    BY <2>1, <2>2
  <2>5. Whole(Top.row)
    BY <2>1, <2>2, <2>3, <2>4 DEF Whole
  <2> QED
    BY <1>a, <2>1, <2>5, QuietFetched
<1>5. CASE ListEnds
  <2>1. Top.op = "list" /\ \E x \in {"true", "error"} : Fetched(x)
    BY <1>5 DEF ListEnds, Resumed
  <2>2. /\ Len(Top.row) = NCols /\ 1 \in 1 .. Len(Top.row)
        /\ \A i \in 1 .. Len(Top.row) : Top.row[i] = Cell(r)
    BY <1>b, <2>1 DEF Undisturbed
  <2>3. Whole(Top.row)
    BY <2>2 DEF Whole
  <2> QED
    BY <1>a, <2>1, <2>3, QuietFetched
<1>6. CASE OutLoses
  BY <1>6, <1>c DEF OutLoses
<1>7. CASE OutNext
  <2> DEFINE f == [Top EXCEPT !.next = @ + 1]
  <2>1. /\ Top.op = "out" /\ Top.next <= NOut /\ Pause(f)
        /\ UNCHANGED <<stmt, gone, reply, fault>>
    BY <1>7 DEF OutNext, Resumed
  <2>2. Top.next \in 2 .. NOut + 1
    BY <1>a, <2>1, TopTyped
  <2>3. Top.next + 1 \in 2 .. NOut + 1
    BY <2>1, <2>2
  <2>4. f \in Frames /\ f.op = "out" /\ f.stmt = Top.stmt /\ f.run = Top.run
    BY <1>b, <2>1, <2>3 DEF Frames
  <2>5. Undisturbed(f, r)
    <3> HIDE DEF f, r
    <3> QED
      BY <1>b, <2>1, <2>4 DEF Undisturbed
  <2> HIDE DEF f, r
  <2> QED
    BY <1>a, <1>b, <1>d, <2>1, <2>4, <2>5, QuietPause
<1>8. CASE OutFails
  BY <1>8 DEF OutFails, Crash, QuietInv, NothingStale, RowsAreWhole, Whole
<1>9. CASE OutEnds
  <2>1. Top.op = "out"
    BY <1>9 DEF OutEnds, Resumed
  <2>2. r.rset = 0 /\ r.cols = <<>> /\ (r.query => r.open = r.runs) /\ r.runs # 0
    BY <1>b, <1>c, <2>1, Bounds DEF Undisturbed
  <2>3. ~ (Top.stmt \in gone \/ (r.query /\ r.open = 0))
    BY <1>c, <2>2
  <2>4. /\ stmt' = [stmt EXCEPT ![Top.stmt] = SetExecuteResult(r)]
        /\ Pop /\ Answer("execute", Top.stmt, "ok") /\ UNCHANGED <<gone, fault>>
    BY <1>9, <2>3 DEF OutEnds
  <2>5. Latest(SetExecuteResult(r))
    BY <1>b, <2>2, ResultLatest
  <2>6. RowsAreWhole'
    BY <2>4 DEF Answer, RowsAreWhole
  <2> HIDE DEF r
  <2> QED
    BY <1>a, <2>4, <2>5, <2>6, QuietPop
<1>10. CASE InLoses \/ InKeeps
  BY <1>10, <1>b, <1>c DEF InLoses, InKeeps, Resumed, Undisturbed
<1>11. CASE InFails
  <2>1. /\ stmt' = [stmt EXCEPT ![Top.stmt] = r] /\ Pop
        /\ Answer("execute", Top.stmt, "error") /\ UNCHANGED <<gone, fault>>
    BY <1>11, <1>c DEF InFails
  <2>2. RowsAreWhole'
    BY <2>1 DEF Answer, RowsAreWhole
  <2> HIDE DEF r
  <2> QED
    BY <1>a, <1>b, <2>1, <2>2, QuietPop
<1>12. CASE InRefused
  <2>1. PICK q \in BOOLEAN : stmt' = [stmt EXCEPT ![Top.stmt] = Refused(r, q)]
    BY <1>12 DEF InRefused
  <2>2. r.rset = 0 /\ Pop /\ Answer("execute", Top.stmt, "error") /\ UNCHANGED <<gone, fault>>
    BY <1>12 DEF InRefused, InGoesOn
  <2>3. Latest(Refused(r, q))
    BY <1>b, <2>2, RefusedConsistent DEF Latest
  <2>4. RowsAreWhole'
    BY <2>2 DEF Answer, RowsAreWhole
  <2> HIDE DEF r
  <2> QED
    BY <1>a, <2>1, <2>2, <2>3, <2>4, QuietPop
<1>13. CASE InExecutes
  <2>1. PICK q \in BOOLEAN, n \in 0 .. MaxRows :
           stmt' = [stmt EXCEPT ![Top.stmt] = Executed(r, Top.run, q, n)]
    BY <1>13 DEF InExecutes
  <2> DEFINE e == Executed(r, Top.run, q, n)
  <2> DEFINE f == OutFrame(Top.stmt, Top.run)
  <2>2. /\ Top.op = "in" /\ r.rset = 0 /\ Pause(f)
        /\ UNCHANGED <<gone, reply, fault>>
    BY <1>13 DEF InExecutes, InGoesOn, Resumed
  <2>3. Top.stmt \in Prepared /\ Top.run \in 1 .. MaxRuns /\ NOut > 0
    BY <1>a, <2>2, TopTyped
  <2>4. /\ e.rset = 0 /\ e.pos = 0 /\ e.cols = r.cols /\ e.runs = r.runs
        /\ e.query = q /\ (q => e.open = Top.run)
    BY <1>b, <2>2, <2>3, ExecutedConsistent
  <2>5. r.cols = <<>>
    BY <1>b, <2>2, NoColumns
  <2>6. f \in Frames /\ f.stmt = Top.stmt /\ f.op = "out" /\ f.run = Top.run
    BY <2>3, ExecuteFrames
  <2>7. stmt' = [stmt EXCEPT ![Top.stmt] = e]
    BY <2>1
  <2> HIDE DEF e, f
  <2>8. Latest(e) /\ Undisturbed(f, e)
    BY <1>c, <2>4, <2>5, <2>6 DEF Latest, Undisturbed
  <2> QED
    BY <1>a, <2>2, <2>6, <2>7, <2>8, QuietPause
<1> QED
  BY <1>1, <1>2, <1>3, <1>4, <1>5, <1>6, <1>7, <1>8, <1>9, <1>10, <1>11, <1>12, <1>13
     DEF Resume, GoesOn

LEMMA StepQuietInv == IInv /\ QuietInv /\ [QuietNext]_vars => QuietInv'
<1> SUFFICES ASSUME IInv, QuietInv, [QuietNext]_vars PROVE QuietInv'
  OBVIOUS
<1>1. ASSUME NEW s \in Stmt \ Interrupted, Command(s)
      PROVE  QuietInv'
  BY <1>1, QuietExecution, QuietAsking, QuietFetching DEF Command
<1>a. ASSUME NEW s \in Stmt \ Interrupted, LetGo(s)
      PROVE  QuietInv'
  <2>1. gone' = gone \cup {s} /\ UNCHANGED <<stmt, stack, reply, fault>>
    BY <1>a DEF LetGo
  <2>2. \A i \in 1 .. Len(stack) : stack[i].stmt # s
    BY StackStatements
  <2> QED
    BY <2>1, <2>2 DEF QuietInv, NothingStale, RowsAreWhole, Whole
<1>2. CASE Resume
  BY <1>2, QuietResume
<1>3. CASE UNCHANGED vars
  BY <1>3 DEF vars, QuietInv, NothingStale, RowsAreWhole, Whole, Interrupted
<1> QED
  BY <1>1, <1>a, <1>2, <1>3 DEF QuietNext

LEMMA QuietIsAny == [QuietNext]_vars => [Next]_vars
BY DEF QuietNext, Next

LEMMA CarefulIsQuiet == [CarefulNext]_vars => [QuietNext]_vars
BY DEF CarefulNext, QuietNext, Command, Resume

LEMMA InvariantQuiet == QuietSpec => [](IInv /\ QuietInv)
<1>1. Init => IInv /\ QuietInv
  BY InitIInv, InitQuietInv
<1>2. IInv /\ QuietInv /\ [QuietNext]_vars => (IInv /\ QuietInv)'
  BY StepIInv, StepQuietInv, QuietIsAny
<1> QED
  BY <1>1, <1>2, PTL DEF QuietSpec

\* In a quiet script no command goes on with a pointer that a trace has left
\* behind: neither the loop of getRowData over cols, nor bind after a read, nor
\* the loop of copyOutput over outVarName, nor setExecuteResult; nor are labels
\* freed that are still in use.  What is left are the fetch without a result set
\* and the release of an OUT value that could not be stored.
THEOREM NothingGoesStale == QuietSpec => []NothingStale
<1>1. QuietInv => NothingStale
  BY DEF QuietInv
<1> QED
  BY <1>1, InvariantQuiet, PTL

\* In a quiet script the result set is that of the last execution tried, whether it
\* was an execute or a batch: the rows of an older one are never fetched.
THEOREM ResultsAreLatest == QuietSpec => []ResultIsLatest
<1>1. QuietInv => ResultIsLatest
  BY DEF QuietInv, Latest, ResultIsLatest
<1> QED
  BY <1>1, InvariantQuiet, PTL

\* In a quiet script a fetch that returns true has delivered all columns of one
\* row, although its write traces may have used every other statement.
THEOREM FetchedRowsAreWhole == QuietSpec => []RowsAreWhole
<1>1. QuietInv => RowsAreWhole
  BY DEF QuietInv
<1> QED
  BY <1>1, InvariantQuiet, PTL

----------------------------------------------------------------------------
(* What a quiet script sees is the cursors of SdbCursorSpec: the views before *)
(* and after a step.                                                         *)

CursorIs(r) == IF r.rset = 0 THEN 0 ELSE r.pos

Kind(f) == IF f.op \in {"in", "out"} THEN "execute" ELSE "fetch"

LEMMA OneView ==
    ASSUME IInv, NEW s \in Stmt, NEW r, stmt' = [stmt EXCEPT ![s] = r]
    PROVE  /\ triedView' = [triedView EXCEPT ![s] = r.runs]
           /\ resultView' = [resultView EXCEPT ![s] = r.rset]
           /\ cursorView' = [cursorView EXCEPT ![s] = CursorIs(r)]
<1>1. \A z \in Stmt : stmt'[z] = IF z = s THEN r ELSE stmt[z]
  BY DEF IInv, TypeOK
<1>2. triedView' = [triedView EXCEPT ![s] = r.runs]
  <2> DEFINE k == r.runs
  <2>1. \A z \in Stmt : stmt'[z].runs = IF z = s THEN k ELSE stmt[z].runs
    BY <1>1
  <2> HIDE DEF k
  <2>2. triedView' = [triedView EXCEPT ![s] = k]
    BY <2>1 DEF triedView
  <2> QED
    BY <2>2 DEF k
<1>3. resultView' = [resultView EXCEPT ![s] = r.rset]
  <2> DEFINE k == r.rset
  <2>1. \A z \in Stmt : stmt'[z].rset = IF z = s THEN k ELSE stmt[z].rset
    BY <1>1
  <2> HIDE DEF k
  <2>2. resultView' = [resultView EXCEPT ![s] = k]
    BY <2>1 DEF resultView
  <2> QED
    BY <2>2 DEF k
<1>4. cursorView' = [cursorView EXCEPT ![s] = CursorIs(r)]
  <2> DEFINE at == CursorIs(r)
  <2>1. \A z \in Stmt : (IF stmt'[z].rset = 0 THEN 0 ELSE stmt'[z].pos)
                           = IF z = s THEN at ELSE IF stmt[z].rset = 0 THEN 0 ELSE stmt[z].pos
    BY <1>1 DEF CursorIs
  <2> HIDE DEF at
  <2>2. cursorView' = [cursorView EXCEPT ![s] = at]
    BY <2>1 DEF cursorView
  <2> QED
    BY <2>2 DEF at
<1> QED
  BY <1>2, <1>3, <1>4

LEMMA SameView ==
    ASSUME UNCHANGED stmt
    PROVE  UNCHANGED <<triedView, resultView, cursorView>>
BY DEF triedView, resultView, cursorView

LEMMA ViewOf ==
    ASSUME NEW s \in Stmt
    PROVE  /\ triedView[s] = stmt[s].runs
           /\ resultView[s] = stmt[s].rset
           /\ cursorView[s] = CursorIs(stmt[s])
           /\ s \notin Interrupted => busyView[s] = "no"
BY DEF triedView, resultView, cursorView, busyView, CursorIs

\* A statement that looks the same.
LEMMA EqualView ==
    ASSUME IInv, NEW s \in Stmt, NEW r, stmt' = [stmt EXCEPT ![s] = r],
           r.runs = stmt[s].runs, r.rset = stmt[s].rset, CursorIs(r) = CursorIs(stmt[s])
    PROVE  UNCHANGED <<triedView, resultView, cursorView>>
<1>1. /\ triedView' = [triedView EXCEPT ![s] = triedView[s]]
      /\ resultView' = [resultView EXCEPT ![s] = resultView[s]]
      /\ cursorView' = [cursorView EXCEPT ![s] = cursorView[s]]
  <2>1. /\ triedView' = [triedView EXCEPT ![s] = r.runs]
        /\ resultView' = [resultView EXCEPT ![s] = r.rset]
        /\ cursorView' = [cursorView EXCEPT ![s] = CursorIs(r)]
    BY OneView
  <2>2. triedView[s] = r.runs /\ resultView[s] = r.rset /\ cursorView[s] = CursorIs(r)
    BY ViewOf
  <2> QED
    BY <2>1, <2>2
<1> QED
  BY <1>1 DEF triedView, resultView, cursorView

LEMMA SameBusy ==
    ASSUME UNCHANGED stack
    PROVE  UNCHANGED busyView
BY DEF busyView, Executing, Interrupted

\* What the frames say of a statement.
LEMMA BusyIs ==
    ASSUME IInv, NEW s \in Stmt
    PROVE  /\ DOMAIN stack = 1 .. Len(stack)
           /\ s \in Interrupted <=> \E i \in 1 .. Len(stack) : stack[i].stmt = s
           /\ busyView[s] = IF s \notin Interrupted THEN "no"
                            ELSE IF \E i \in 1 .. Len(stack) : stack[i].stmt = s /\ stack[i].op \in {"in", "out"}
                                 THEN "execute" ELSE "fetch"
<1>1. DOMAIN stack = 1 .. Len(stack)
  BY LenProperties DEF IInv, TypeOK
<1> QED
  BY <1>1 DEF Interrupted, busyView, Executing

LEMMA BusyTop ==
    ASSUME IInv, QuietInv, stack # <<>>
    PROVE  Top.stmt \in Interrupted /\ busyView[Top.stmt] = Kind(Top)
<1>1. Len(stack) \in 1 .. Len(stack) /\ Top = stack[Len(stack)] /\ Top.stmt \in Stmt
  BY TopUndisturbed, TopTyped
<1>2. Top.stmt \in Interrupted
  BY <1>1, BusyIs
<1>3. \A i \in 1 .. Len(stack) : stack[i].stmt = Top.stmt => stack[i] = Top
  BY <1>1 DEF QuietInv
<1> QED
  BY <1>1, <1>2, <1>3, BusyIs DEF Kind

\* Two stacks whose frames of a statement have the same operations.
LEMMA BusyPush ==
    ASSUME IInv, IInv', NEW s \in Stmt \ Interrupted, NEW f \in Frames, f.stmt = s, Push(f)
    PROVE  busyView' = [busyView EXCEPT ![s] = Kind(f)]
<1>1. /\ Len(stack) \in Nat /\ Len(stack') = Len(stack) + 1
      /\ \A i \in 1 .. Len(stack) : stack'[i] = stack[i]
      /\ stack'[Len(stack) + 1] = f
  BY PushedSequence, LenProperties DEF Push, IInv, TypeOK
<1>2. \A i \in 1 .. Len(stack') : i \in 1 .. Len(stack) \/ i = Len(stack) + 1
  BY <1>1
<1>3. Len(stack) + 1 \in 1 .. Len(stack') /\ \A i \in 1 .. Len(stack) : i \in 1 .. Len(stack')
  BY <1>1
<1>4. DOMAIN stack = 1 .. Len(stack) /\ DOMAIN stack' = 1 .. Len(stack')
  BY LenProperties DEF IInv, TypeOK
<1>5. \A i \in 1 .. Len(stack) : stack[i].stmt # s
  BY <1>4 DEF Interrupted
<1>6. ASSUME NEW z \in Stmt, z # s
      PROVE  /\ (z \in Interrupted)' <=> z \in Interrupted
             /\ Executing(z)' <=> Executing(z)
  BY <1>1, <1>2, <1>3, <1>4, <1>6 DEF Interrupted, Executing
<1>7. (s \in Interrupted)'
  BY <1>1, <1>3, <1>4 DEF Interrupted
<1>8. Executing(s)' <=> f.op \in {"in", "out"}
  BY <1>1, <1>2, <1>3, <1>4, <1>5 DEF Executing
<1>9. \A z \in Stmt : busyView'[z] = IF z = s THEN Kind(f) ELSE busyView[z]
  BY <1>6, <1>7, <1>8 DEF busyView, Kind
<1> QED
  BY <1>9 DEF busyView

LEMMA BusyPop ==
    ASSUME IInv, IInv', QuietInv, stack # <<>>, Pop
    PROVE  busyView' = [busyView EXCEPT ![Top.stmt] = "no"]
<1>1. /\ Len(stack) \in Nat \ {0} /\ Len(stack') = Len(stack) - 1 /\ Top = stack[Len(stack)]
      /\ \A i \in 1 .. Len(stack') : stack'[i] = stack[i] /\ stack[i].stmt # Top.stmt
  BY TopUndisturbed DEF Pop
<1>2. \A i \in 1 .. Len(stack) : i \in 1 .. Len(stack') \/ i = Len(stack)
  BY <1>1
<1>3. \A i \in 1 .. Len(stack') : i \in 1 .. Len(stack)
  BY <1>1
<1>4. DOMAIN stack = 1 .. Len(stack) /\ DOMAIN stack' = 1 .. Len(stack')
  BY LenProperties DEF IInv, TypeOK
<1>5. ASSUME NEW z \in Stmt, z # Top.stmt
      PROVE  /\ (z \in Interrupted)' <=> z \in Interrupted
             /\ Executing(z)' <=> Executing(z)
  BY <1>1, <1>2, <1>3, <1>4, <1>5 DEF Interrupted, Executing
<1>6. ~ (Top.stmt \in {stack'[i].stmt : i \in DOMAIN stack'})
  BY <1>1, <1>4
<1>7. \A z \in Stmt : busyView'[z] = IF z = Top.stmt THEN "no" ELSE busyView[z]
  BY <1>5, <1>6 DEF busyView, Interrupted
<1> QED
  BY <1>7 DEF busyView

LEMMA BusyPause ==
    ASSUME IInv, IInv', stack # <<>>, NEW f \in Frames, f.stmt = Top.stmt, Kind(f) = Kind(Top), Pause(f)
    PROVE  busyView' = busyView
<1>a. stack \in Seq(Frames) /\ stack' = Append(Front(stack), f)
  BY DEF Pause, IInv, TypeOK
<1>b. /\ Len(Append(Front(stack), f)) = Len(stack)
      /\ \A i \in 1 .. Len(stack) - 1 : Append(Front(stack), f)[i] = stack[i]
      /\ Append(Front(stack), f)[Len(stack)] = f
  BY <1>a, PausedSequence
<1>c. Top = stack[Len(stack)] /\ Len(stack) \in Nat \ {0}
  BY <1>a, PoppedSequence DEF Top
<1>1. /\ Len(stack') = Len(stack)
      /\ \A i \in 1 .. Len(stack) - 1 : stack'[i] = stack[i]
      /\ stack'[Len(stack)] = f /\ Top = stack[Len(stack)] /\ Len(stack) \in Nat \ {0}
  BY <1>a, <1>b, <1>c
<1>2. \A i \in 1 .. Len(stack) : i \in 1 .. Len(stack) - 1 \/ i = Len(stack)
  BY <1>1
<1>3. \A i \in 1 .. Len(stack) : /\ stack'[i].stmt = stack[i].stmt
                                 /\ stack'[i].op \in {"in", "out"} <=> stack[i].op \in {"in", "out"}
  BY <1>1, <1>2 DEF Kind
<1>4. DOMAIN stack = 1 .. Len(stack) /\ DOMAIN stack' = 1 .. Len(stack)
  BY <1>1, LenProperties DEF IInv, TypeOK
<1>5. ASSUME NEW z \in Stmt
      PROVE  /\ (z \in Interrupted)' <=> z \in Interrupted
             /\ Executing(z)' <=> Executing(z)
  <2>1. z \in Interrupted <=> \E i \in 1 .. Len(stack) : stack[i].stmt = z
    BY <1>4 DEF Interrupted
  <2>2. (z \in Interrupted)' <=> \E i \in 1 .. Len(stack) : stack'[i].stmt = z
    BY <1>4 DEF Interrupted
  <2>3. Executing(z) <=> \E i \in 1 .. Len(stack) : stack[i].stmt = z /\ stack[i].op \in {"in", "out"}
    BY <1>4 DEF Executing
  <2>4. Executing(z)' <=> \E i \in 1 .. Len(stack) : stack'[i].stmt = z /\ stack'[i].op \in {"in", "out"}
    BY <1>4 DEF Executing
  <2>5. (\E i \in 1 .. Len(stack) : stack[i].stmt = z)
          <=> (\E i \in 1 .. Len(stack) : stack'[i].stmt = z)
    BY <1>3
  <2>6. (\E i \in 1 .. Len(stack) : stack[i].stmt = z /\ stack[i].op \in {"in", "out"})
          <=> (\E i \in 1 .. Len(stack) : stack'[i].stmt = z /\ stack'[i].op \in {"in", "out"})
    BY <1>3
  <2> QED
    BY <2>1, <2>2, <2>3, <2>4, <2>5, <2>6
<1> QED
  BY <1>5 DEF busyView

\* One step of a script is one of a cursor.
LEMMA EndsAsks ==
    ASSUME IInv, NEW s \in Stmt, NEW c, NEW x, Ends(c, s, stmt[s], x)
    PROVE  Cursor!Ask
<1>1. stmt \in [Stmt -> StmtType]
  BY DEF IInv, TypeOK
<1>2. stmt' = stmt /\ UNCHANGED stack /\ reply'.row = <<>>
  BY <1>1 DEF Ends, Answer
<1> QED
  BY <1>2, SameView, SameBusy DEF Cursor!Ask

LEMMA UsageAsks ==
    ASSUME IInv, NEW s \in Stmt, NEW c, NEW x, Ends(c, s, Usage(stmt[s]), x)
    PROVE  Cursor!Ask
<1> DEFINE r == Usage(stmt[s])
<1>1. r.runs = stmt[s].runs /\ r.rset = stmt[s].rset /\ CursorIs(r) = CursorIs(stmt[s])
  BY UsageConsistent DEF IInv, CursorIs
<1>2. stmt' = [stmt EXCEPT ![s] = r] /\ UNCHANGED stack /\ reply'.row = <<>>
  BY DEF Ends, Answer
<1> HIDE DEF r
<1>3. UNCHANGED <<triedView, resultView, cursorView>>
  BY <1>1, <1>2, EqualView
<1> QED
  BY <1>2, <1>3, SameBusy DEF Cursor!Ask

LEMMA EndsExecutes ==
    ASSUME IInv, NEW s \in Stmt \ Interrupted, NEW r, NEW c, NEW x,
           r.runs = stmt[s].runs + 1, r.rset \in {0, r.runs}, r.rset # 0 => r.pos = 0,
           Ends(c, s, r, x)
    PROVE  Cursor!Execute(s)
<1>1. stmt' = [stmt EXCEPT ![s] = r] /\ UNCHANGED stack /\ reply'.row = <<>>
  BY DEF Ends, Answer
<1>2. /\ triedView' = [triedView EXCEPT ![s] = r.runs]
      /\ resultView' = [resultView EXCEPT ![s] = r.rset]
      /\ cursorView' = [cursorView EXCEPT ![s] = CursorIs(r)]
  BY <1>1, OneView
<1>3. busyView[s] = "no" /\ triedView[s] = stmt[s].runs
  BY ViewOf
<1>4. CursorIs(r) = 0
  BY DEF CursorIs
<1>5. UNCHANGED busyView
  BY <1>1, SameBusy
<1>6. Cursor!Tries(s)
  BY <1>2, <1>3, <1>4 DEF Cursor!Tries
<1>7. \E k \in {0, triedView[s] + 1} : resultView' = [resultView EXCEPT ![s] = k]
  BY <1>2, <1>3
<1> QED
  BY <1>1, <1>5, <1>6, <1>7 DEF Cursor!Execute

LEMMA PushExecutes ==
    ASSUME IInv, IInv', NEW s \in Stmt \ Interrupted, NEW r, NEW f \in Frames,
           r.runs = stmt[s].runs + 1, r.rset = 0, f.stmt = s, f.op \in {"in", "out"},
           stmt' = [stmt EXCEPT ![s] = r], Push(f), UNCHANGED reply
    PROVE  Cursor!StartExecute(s)
<1>1. /\ triedView' = [triedView EXCEPT ![s] = r.runs]
      /\ resultView' = [resultView EXCEPT ![s] = r.rset]
      /\ cursorView' = [cursorView EXCEPT ![s] = CursorIs(r)]
  BY OneView
<1>2. busyView[s] = "no" /\ triedView[s] = stmt[s].runs
  BY ViewOf
<1>3. busyView' = [busyView EXCEPT ![s] = Kind(f)] /\ Kind(f) = "execute"
  BY BusyPush DEF Kind
<1>4. CursorIs(r) = 0
  BY DEF CursorIs
<1>5. Cursor!Tries(s)
  BY <1>1, <1>2, <1>4 DEF Cursor!Tries
<1> QED
  BY <1>1, <1>3, <1>5 DEF Cursor!StartExecute

LEMMA EndsMoves ==
    ASSUME IInv, NEW s \in Stmt \ Interrupted, NEW r, NEW c, NEW x,
           r.runs = stmt[s].runs, r.rset = stmt[s].rset, r.rset # 0, r.pos \in 0 .. MaxRows + 1,
           Ends(c, s, r, x)
    PROVE  Cursor!Move(s)
<1>1. stmt' = [stmt EXCEPT ![s] = r] /\ UNCHANGED stack /\ reply'.row = <<>>
  BY DEF Ends, Answer
<1>2. /\ triedView' = [triedView EXCEPT ![s] = r.runs]
      /\ resultView' = [resultView EXCEPT ![s] = r.rset]
      /\ cursorView' = [cursorView EXCEPT ![s] = CursorIs(r)]
  BY <1>1, OneView
<1>3. busyView[s] = "no" /\ triedView[s] = r.runs /\ resultView[s] = r.rset
  BY ViewOf
<1>4. CursorIs(r) = r.pos
  BY DEF CursorIs
<1>5. triedView' = triedView /\ resultView' = resultView
  BY <1>2, <1>3 DEF triedView, resultView
<1>6. UNCHANGED busyView
  BY <1>1, SameBusy
<1> QED
  BY <1>1, <1>2, <1>3, <1>4, <1>5, <1>6 DEF Cursor!Move

LEMMA PushFetches ==
    ASSUME IInv, IInv', NEW s \in Stmt \ Interrupted, NEW r, NEW f \in Frames,
           r.runs = stmt[s].runs, r.rset = stmt[s].rset, r.rset # 0, r.pos \in 1 .. MaxRows,
           f.stmt = s, f.op \notin {"in", "out"},
           stmt' = [stmt EXCEPT ![s] = r], Push(f), UNCHANGED reply
    PROVE  Cursor!StartFetch(s)
<1>1. /\ triedView' = [triedView EXCEPT ![s] = r.runs]
      /\ resultView' = [resultView EXCEPT ![s] = r.rset]
      /\ cursorView' = [cursorView EXCEPT ![s] = CursorIs(r)]
  BY OneView
<1>2. busyView[s] = "no" /\ triedView[s] = r.runs /\ resultView[s] = r.rset
  BY ViewOf
<1>3. busyView' = [busyView EXCEPT ![s] = Kind(f)] /\ Kind(f) = "fetch"
  BY BusyPush DEF Kind
<1>4. CursorIs(r) = r.pos
  BY DEF CursorIs
<1>5. triedView' = triedView /\ resultView' = resultView
  BY <1>1, <1>2 DEF triedView, resultView
<1> QED
  BY <1>1, <1>2, <1>3, <1>4, <1>5 DEF Cursor!StartFetch

\* A sequence all of whose members are the same.
LEMMA SameMembers ==
    ASSUME NEW S, NEW t \in Seq(S), NEW n \in Nat, NEW c, Len(t) = n, \A i \in 1 .. Len(t) : t[i] = c
    PROVE  t = [i \in 1 .. n |-> c]
<1>1. t \in [1 .. Len(t) -> S]
  BY LenProperties
<1> QED
  BY <1>1

LEMMA PopFetches ==
    ASSUME IInv, IInv', QuietInv, stack # <<>>, Top.op \in {"list", "array"},
           NEW x \in {"true", "error"}, Fetched(x), x = "true" => Len(Top.row) = NCols
    PROVE  Cursor!EndFetch(Top.stmt)
<1> DEFINE s == Top.stmt
<1>1. s \in Stmt /\ Top.row \in Seq((1 .. MaxRuns) \X (1 .. MaxRows)) /\ Undisturbed(Top, stmt[s])
  BY TopTyped, TopUndisturbed
<1>2. stmt[s].rset # 0 /\ \A i \in 1 .. Len(Top.row) : Top.row[i] = Cell(stmt[s])
  BY <1>1 DEF Undisturbed
<1>3. Cell(stmt[s]) = <<resultView[s], cursorView[s]>>
  BY <1>1, <1>2, ViewOf DEF Cell, CursorIs
<1>4. busyView[s] = "fetch"
  BY BusyTop DEF Kind
<1>5. busyView' = [busyView EXCEPT ![s] = "no"]
  BY BusyPop DEF Fetched
<1>6. UNCHANGED <<triedView, resultView, cursorView>>
  BY SameView DEF Fetched
<1>7. reply'.row \in {<<>>, Cursor!Row(s)}
  <2>1. CASE x = "error"
    BY <2>1 DEF Fetched
  <2>2. CASE x = "true"
    <3>1. reply'.row = Top.row /\ Len(Top.row) = NCols /\ NCols \in Nat
      BY <2>2, Bounds DEF Fetched
    <3>2. Top.row = [i \in 1 .. NCols |-> Cell(stmt[s])]
      BY <1>1, <1>2, <3>1, SameMembers
    <3> QED
      BY <1>3, <3>1, <3>2 DEF Cursor!Row
  <2> QED
    BY <2>1, <2>2
<1> HIDE DEF s
<1>8. Cursor!EndFetch(s)
  BY <1>4, <1>5, <1>6, <1>7 DEF Cursor!EndFetch
<1> QED
  BY <1>8 DEF s

LEMMA PopExecutes ==
    ASSUME IInv, IInv', QuietInv, stack # <<>>, Top.op \in {"in", "out"}, NEW r,
           r.runs = stmt[Top.stmt].runs, r.rset \in {0, r.runs}, r.rset # 0 => r.pos = 0,
           stmt' = [stmt EXCEPT ![Top.stmt] = r], Pop, reply'.row = <<>>
    PROVE  Cursor!EndExecute(Top.stmt)
<1> DEFINE s == Top.stmt
<1>1. s \in Stmt /\ stmt[s].rset = 0
  BY TopTyped, TopUndisturbed DEF Undisturbed
<1>2. /\ triedView' = [triedView EXCEPT ![s] = r.runs]
      /\ resultView' = [resultView EXCEPT ![s] = r.rset]
      /\ cursorView' = [cursorView EXCEPT ![s] = CursorIs(r)]
  BY <1>1, OneView
<1>3. triedView[s] = r.runs /\ cursorView[s] = 0 /\ CursorIs(r) = 0
  BY <1>1, ViewOf DEF CursorIs
<1>4. triedView' = triedView /\ cursorView' = cursorView
  BY <1>1, <1>2, <1>3 DEF triedView, cursorView
<1>5. busyView[s] = "execute" /\ busyView' = [busyView EXCEPT ![s] = "no"]
  BY BusyTop, BusyPop DEF Kind
<1> HIDE DEF s
<1>6. Cursor!EndExecute(s)
  BY <1>2, <1>3, <1>4, <1>5 DEF Cursor!EndExecute
<1> QED
  BY <1>6 DEF s

LEMMA ExecutionCursor ==
    ASSUME IInv, IInv', NEW s \in Stmt \ Interrupted, Execution(s)
    PROVE  Cursor!Ask \/ Cursor!Execute(s) \/ Cursor!StartExecute(s)
<1>a. Consistent(stmt[s]) /\ stmt[s].runs \in Nat
  BY Bounds DEF IInv, Consistent, StmtType, RunId
<1> DEFINE a == Attempt(stmt[s])
<1>b. ASSUME CanExecute(s)
      PROVE  /\ a.runs = stmt[s].runs + 1 /\ a.rset = 0
             /\ \A q \in BOOLEAN : /\ Refused(a, q).runs = stmt[s].runs + 1
                                   /\ Refused(a, q).rset = 0
  <2>1. Consistent(a) /\ a.runs = stmt[s].runs + 1 /\ a.rset = 0
    BY <1>a, <1>b, AttemptConsistent DEF CanExecute
  <2> HIDE DEF a
  <2>2. \A q \in BOOLEAN : Refused(a, q).runs = a.runs /\ Refused(a, q).rset = a.rset
    BY <2>1, RefusedConsistent
  <2> QED
    BY <2>1, <2>2
<1>c. ASSUME NEW r, NEW c, NEW x, r.runs = stmt[s].runs + 1, r.rset = 0, Ends(c, s, r, x)
      PROVE  Cursor!Execute(s)
  <2>1. r.rset \in {0, r.runs} /\ (r.rset # 0 => r.pos = 0)
    BY <1>c
  <2> QED
    BY <1>c, <2>1, EndsExecutes
<1>1. CASE ExecuteUsage(s)
  <2>1. Ends("execute", s, Usage(stmt[s]), "error")
    BY <1>1 DEF ExecuteUsage
  <2> QED
    BY <2>1, UsageAsks
<1>2. CASE ExecuteRefused(s)
  <2>1. Ends("execute", s, a, "error") /\ a.runs = stmt[s].runs + 1 /\ a.rset = 0
    BY <1>2, <1>b DEF ExecuteRefused
  <2> QED
    BY <1>c, <2>1
<1>3. CASE ExecuteFails(s) \/ Batch(s)
  <2>1. PICK q \in BOOLEAN : \E c, x : Ends(c, s, Refused(a, q), x)
    BY <1>3 DEF ExecuteFails, Batch
  <2>2. Refused(a, q).runs = stmt[s].runs + 1 /\ Refused(a, q).rset = 0
    BY <1>3, <1>b DEF ExecuteFails, Batch
  <2> QED
    BY <1>c, <2>1, <2>2
<1>4. CASE ExecuteSucceeds(s)
  <2>1. PICK q \in BOOLEAN, n \in 0 .. MaxRows :
           Ends("execute", s, SetExecuteResult(Executed(a, a.runs, q, n)), "ok")
    BY <1>4 DEF ExecuteSucceeds
  <2> DEFINE e == Executed(a, a.runs, q, n)
  <2>2. /\ Consistent(e) /\ e.rset = 0 /\ e.pos = 0 /\ e.query = q
        /\ e.runs = stmt[s].runs + 1 /\ (q => e.open = e.runs)
    BY <1>4, <1>a, AttemptExecuted DEF ExecuteSucceeds, CanExecute
  <2> HIDE DEF e
  <2>3. PICK t : t = SetExecuteResult(e)
    OBVIOUS
  <2>4. t.runs = e.runs /\ t.pos = 0 /\ t.rset \in {0, e.runs}
    BY <2>2, <2>3, ResultKeeps
  <2>5. Ends("execute", s, t, "ok")
    BY <2>1, <2>3 DEF e
  <2>6. t.runs = stmt[s].runs + 1 /\ t.rset \in {0, t.runs} /\ (t.rset # 0 => t.pos = 0)
    BY <2>2, <2>4
  <2> QED
    BY <2>5, <2>6, EndsExecutes
<1>d. ASSUME NEW r, NEW f \in Frames, r.runs = stmt[s].runs + 1, r.rset = 0, f.stmt = s,
             f.op \in {"in", "out"}, stmt' = [stmt EXCEPT ![s] = r], Push(f), UNCHANGED reply
      PROVE  Cursor!StartExecute(s)
  BY <1>d, PushExecutes
<1>5. CASE ExecuteWithOut(s)
  <2>1. PICK q \in BOOLEAN, n \in 0 .. MaxRows :
           /\ stmt' = [stmt EXCEPT ![s] = Executed(a, a.runs, q, n)]
           /\ Push(OutFrame(s, a.runs))
    BY <1>5 DEF ExecuteWithOut
  <2> DEFINE e == Executed(a, a.runs, q, n)
  <2> DEFINE f == OutFrame(s, a.runs)
  <2>2. e.rset = 0 /\ e.runs = stmt[s].runs + 1 /\ a.runs \in 1 .. MaxRuns
    BY <1>5, <1>a, AttemptExecuted DEF ExecuteWithOut, CanExecute
  <2>3. stmt' = [stmt EXCEPT ![s] = e] /\ Push(f) /\ UNCHANGED reply
    BY <1>5, <2>1 DEF ExecuteWithOut
  <2>4. f \in Frames /\ f.stmt = s /\ f.op \in {"in", "out"}
    BY <1>5, <2>2, ExecuteFrames DEF ExecuteWithOut
  <2> HIDE DEF a, e, f
  <2>5. Cursor!StartExecute(s)
    BY <1>d, <2>2, <2>3, <2>4
  <2> QED
    BY <2>5
<1>6. CASE ExecuteReads(s)
  <2> DEFINE f == InFrame(s, a.runs)
  <2>1. stmt' = [stmt EXCEPT ![s] = a] /\ Push(f) /\ UNCHANGED reply
    BY <1>6 DEF ExecuteReads
  <2>2. a.rset = 0 /\ a.runs = stmt[s].runs + 1 /\ a.runs \in 1 .. MaxRuns
    BY <1>6, <1>a, AttemptConsistent DEF ExecuteReads, CanExecute
  <2>3. f \in Frames /\ f.stmt = s /\ f.op \in {"in", "out"}
    BY <1>6, <2>2, ExecuteFrames DEF ExecuteReads
  <2> HIDE DEF a, f
  <2>4. Cursor!StartExecute(s)
    BY <1>d, <2>1, <2>2, <2>3
  <2> QED
    BY <2>4
<1> QED
  BY <1>1, <1>2, <1>3, <1>4, <1>5, <1>6 DEF Execution

LEMMA FetchingCursor ==
    ASSUME IInv, IInv', NEW s \in Stmt \ Interrupted, Fetching(s)
    PROVE  Cursor!Move(s) \/ Cursor!StartFetch(s) \/ UNCHANGED Cursor!cvars
<1>a. Consistent(stmt[s])
  BY DEF IInv
<1>1. CASE FetchWithout(s)
  BY <1>1, SameView, SameBusy DEF FetchWithout, Crash, Cursor!cvars
<1>2. ASSUME NEW seek \in Seeks,
             \/ FetchNoRow(s, seek) \/ FetchRowFails(s, seek)
             \/ FetchList(s, seek) \/ FetchArray(s, seek)
      PROVE  Cursor!Move(s) \/ Cursor!StartFetch(s)
  <2>1. stmt[s].rset # 0 /\ stmt[s].pos \in 0 .. MaxRows + 1
    BY <1>2, <1>a DEF FetchNoRow, FetchRowFails, FetchList, FetchArray, Consistent, StmtType
  <2> DEFINE r == Moved(stmt[s], seek)
  <2>2. /\ Consistent(r) /\ r.rset = stmt[s].rset /\ r.rset # 0 /\ r.runs = stmt[s].runs
        /\ r.pos \in 0 .. MaxRows + 1 /\ (OnRow(r) => r.pos \in 1 .. MaxRows)
    <3>1. Consistent(r) /\ r.rset = stmt[s].rset /\ r.runs = stmt[s].runs
      BY <1>a, MovedConsistent
    <3> HIDE DEF r
    <3>2. r.pos \in 0 .. MaxRows + 1 /\ r.size \in 0 .. MaxRows
      BY <3>1 DEF Consistent, StmtType
    <3> QED
      BY <2>1, <3>1, <3>2, Bounds DEF OnRow
  <2>3. CASE Ends("fetch", s, stmt[s], "error")
    BY <2>1, <2>3, EndsMoves
  <2>4. ASSUME NEW x, Ends("fetch", s, r, x) PROVE Cursor!Move(s)
    <3> HIDE DEF r
    <3> QED
      BY <2>2, <2>4, EndsMoves
  <2>5. ASSUME NEW f \in Frames, f.stmt = s, f.op \notin {"in", "out"}, OnRow(r),
               stmt' = [stmt EXCEPT ![s] = r], Push(f), UNCHANGED reply
        PROVE  Cursor!StartFetch(s)
    <3> HIDE DEF r
    <3> QED
      BY <2>2, <2>5, PushFetches
  <2>6. CASE FetchNoRow(s, seek) \/ FetchRowFails(s, seek)
    BY <2>3, <2>4, <2>6 DEF FetchNoRow, FetchRowFails
  <2>7. CASE FetchList(s, seek)
    <3> DEFINE f == [op |-> "list", stmt |-> s, run |-> r.runs,
                     row |-> [i \in 1 .. NCols |-> Cell(r)]]
    <3>1. OnRow(r) /\ stmt' = [stmt EXCEPT ![s] = r] /\ Push(f) /\ UNCHANGED reply
      BY <2>7 DEF FetchList
    <3>2. f \in Frames
      <4> HIDE DEF r
      <4> QED
        BY <2>2, <3>1, FetchFrames
    <3>3. f.stmt = s /\ f.op \notin {"in", "out"}
      OBVIOUS
    <3> HIDE DEF f, r
    <3> QED
      BY <2>5, <3>1, <3>2, <3>3
  <2>8. CASE FetchArray(s, seek)
    <3> DEFINE f == [op |-> "array", stmt |-> s, run |-> r.runs, row |-> <<Cell(r)>>]
    <3>1. OnRow(r) /\ stmt' = [stmt EXCEPT ![s] = r] /\ Push(f) /\ UNCHANGED reply
      BY <2>8 DEF FetchArray
    <3>2. f \in Frames
      <4> HIDE DEF r
      <4> QED
        BY <2>2, <3>1, FetchFrames
    <3>3. f.stmt = s /\ f.op \notin {"in", "out"}
      OBVIOUS
    <3> HIDE DEF f, r
    <3> QED
      BY <2>5, <3>1, <3>2, <3>3
  <2> QED
    BY <1>2, <2>6, <2>7, <2>8
<1> QED
  BY <1>1, <1>2 DEF Fetching

LEMMA ResumeCursor ==
    ASSUME IInv, IInv', QuietInv, Resume
    PROVE  \/ \E s \in Stmt : Cursor!EndFetch(s) \/ Cursor!EndExecute(s)
           \/ UNCHANGED Cursor!cvars
<1>a. stack # <<>>
  BY ResumesTop
<1> DEFINE r == stmt[Top.stmt]
<1>b. /\ Top.stmt \in Stmt /\ Consistent(r) /\ Latest(r) /\ Undisturbed(Top, r) /\ Top \in Frames
  BY <1>a, TopTyped, TopUndisturbed DEF IInv, QuietInv
<1>c. stmt \in [Stmt -> StmtType]
  BY DEF IInv, TypeOK
<1>1. ASSUME NEW f, Crash(f) PROVE UNCHANGED Cursor!cvars
  BY <1>1, SameView, SameBusy DEF Crash, Cursor!cvars
<1>2. CASE ArrayLoses \/ OutLoses \/ OutFails \/ InLoses \/ InKeeps
  BY <1>1, <1>2 DEF ArrayLoses, OutLoses, OutFails, InLoses, InKeeps
<1>3. ASSUME NEW f \in Frames, f.stmt = Top.stmt, Kind(f) = Kind(Top), Pause(f),
             UNCHANGED <<triedView, resultView, cursorView, reply>>
      PROVE  UNCHANGED Cursor!cvars
  BY <1>a, <1>3, BusyPause DEF Cursor!cvars
<1>4. CASE ArrayColumn
  <2> DEFINE f == [Top EXCEPT !.row = Append(@, Cell(r))]
  <2>1. /\ Top.op = "array" /\ r.rset # 0 /\ OnRow(r)
        /\ Pause(f) /\ UNCHANGED <<stmt, reply>>
    BY <1>4 DEF ArrayColumn, ArrayGoesOn, Resumed
  <2>2. Append(Top.row, Cell(r)) \in Seq((1 .. MaxRuns) \X (1 .. MaxRows))
    BY <1>a, <1>b, <2>1, TopTyped, CellTyped, PushedSequence
  <2>3. f \in Frames /\ f.stmt = Top.stmt /\ f.op = Top.op
    BY <1>b, <2>1, <2>2 DEF Frames
  <2> HIDE DEF f
  <2> QED
    BY <1>3, <2>1, <2>3, SameView DEF Kind
<1>5. CASE OutNext
  <2> DEFINE f == [Top EXCEPT !.next = @ + 1]
  <2>1. Top.op = "out" /\ Top.next <= NOut /\ Pause(f) /\ UNCHANGED <<stmt, reply>>
    BY <1>5 DEF OutNext, Resumed
  <2>2. Top.next + 1 \in 2 .. NOut + 1
    BY <1>a, <2>1, TopTyped, Bounds
  <2>3. f \in Frames /\ f.stmt = Top.stmt /\ f.op = Top.op
    BY <1>b, <2>1, <2>2 DEF Frames
  <2> HIDE DEF f
  <2> QED
    BY <1>3, <2>1, <2>3, SameView DEF Kind
<1>6. ASSUME NEW x \in {"true", "error"}, Top.op \in {"list", "array"}, Fetched(x),
             x = "true" => Len(Top.row) = NCols
      PROVE  Cursor!EndFetch(Top.stmt)
  BY <1>a, <1>6, PopFetches
<1>7. CASE ArrayColumnFails
  BY <1>b, <1>6, <1>7 DEF ArrayColumnFails, ArrayGoesOn, Resumed
<1>8. CASE ArrayEnds
  <2>1. Top.op = "array" /\ r.rset # 0 /\ Len(Top.row) = Len(r.cols) /\ Fetched("true")
    BY <1>8 DEF ArrayEnds, Resumed
  <2>2. Len(Top.row) = NCols
    BY <1>b, <2>1 DEF Latest
  <2> QED
    BY <1>b, <1>6, <2>1, <2>2
<1>9. CASE ListEnds
  <2>1. Top.op = "list" /\ \E x \in {"true", "error"} : Fetched(x)
    BY <1>9 DEF ListEnds, Resumed
  <2>2. Len(Top.row) = NCols
    BY <1>b, <2>1 DEF Undisturbed
  <2> QED
    BY <1>b, <1>6, <2>1, <2>2
<1>10. ASSUME Top.op \in {"in", "out"}, NEW t, t.runs = r.runs, t.rset \in {0, r.runs},
              t.rset # 0 => t.pos = 0,
              stmt' = [stmt EXCEPT ![Top.stmt] = t], Pop, reply'.row = <<>>
       PROVE  Cursor!EndExecute(Top.stmt)
  BY <1>a, <1>10, PopExecutes
<1>d. Top.run = r.runs /\ (Top.op = "in" => r.rset = 0)
  BY <1>b DEF Undisturbed
<1>11. CASE InFails
  <2>1. Top.op = "in" /\ Pop /\ reply'.row = <<>> /\ stmt' = [stmt EXCEPT ![Top.stmt] = r]
    BY <1>11, <1>d DEF InFails, Resumed, Answer
  <2> HIDE DEF r
  <2> QED
    BY <1>b, <1>d, <1>10, <2>1
<1>13. CASE InRefused
  <2>1. PICK q \in BOOLEAN : stmt' = [stmt EXCEPT ![Top.stmt] = Refused(r, q)]
    BY <1>13 DEF InRefused
  <2>2. Top.op = "in" /\ r.rset = 0 /\ Pop /\ reply'.row = <<>>
    BY <1>13 DEF InRefused, InGoesOn, Resumed, Answer
  <2>3. Refused(r, q).rset = 0 /\ Refused(r, q).runs = r.runs
    BY <1>b, <2>2, RefusedConsistent
  <2> HIDE DEF r
  <2> QED
    BY <1>b, <1>10, <2>1, <2>2, <2>3
<1>14. CASE InExecutes
  <2>1. PICK q \in BOOLEAN, n \in 0 .. MaxRows :
           stmt' = [stmt EXCEPT ![Top.stmt] = Executed(r, Top.run, q, n)]
    BY <1>14 DEF InExecutes
  <2> DEFINE e == Executed(r, Top.run, q, n)
  <2> DEFINE f == OutFrame(Top.stmt, Top.run)
  <2>2. Top.op = "in" /\ r.rset = 0 /\ Pause(f) /\ UNCHANGED reply
    BY <1>14 DEF InExecutes, InGoesOn, Resumed
  <2>3. Top.stmt \in Prepared /\ Top.run \in 1 .. MaxRuns /\ NOut > 0
    BY <1>a, <2>2, TopTyped, Bounds
  <2>4. e.rset = 0 /\ e.runs = r.runs
    BY <1>b, <2>2, <2>3, ExecutedConsistent
  <2>5. f \in Frames /\ f.stmt = Top.stmt /\ f.op = "out"
    BY <2>3, ExecuteFrames
  <2>6. stmt' = [stmt EXCEPT ![Top.stmt] = e]
    BY <2>1
  <2> HIDE DEF e, f
  <2>7. UNCHANGED <<triedView, resultView, cursorView>>
    BY <1>b, <2>2, <2>4, <2>6, EqualView DEF CursorIs
  <2> QED
    BY <1>3, <2>2, <2>5, <2>7 DEF Kind
<1>12. CASE OutEnds
  <2>1. Top.op = "out"
    BY <1>12 DEF OutEnds, Resumed
  <2>2. r.rset = 0 /\ r.pos = 0 /\ (r.query => r.open = r.runs)
    BY <1>b, <2>1 DEF Undisturbed
  <2>3. PICK t : t = SetExecuteResult(r)
    OBVIOUS
  <2>4. \/ Crash("staleStatement")
        \/ /\ stmt' = [stmt EXCEPT ![Top.stmt] = t]
           /\ Pop /\ reply'.row = <<>>
    BY <1>12, <2>3 DEF OutEnds, Answer
  <2>5. t.runs = r.runs /\ (t.rset # 0 => t.pos = 0) /\ t.rset \in {0, r.runs}
    <3> HIDE DEF r
    <3> QED
      BY <1>b, <2>2, <2>3, ResultKeeps
  <2> HIDE DEF r
  <2> QED
    BY <1>1, <1>b, <1>10, <2>1, <2>4, <2>5
<1> QED
  BY <1>b, <1>2, <1>4, <1>5, <1>7, <1>8, <1>9, <1>11, <1>12, <1>13, <1>14 DEF Resume, GoesOn

LEMMA CursorInit == Init => Cursor!Init
<1> SUFFICES ASSUME Init PROVE Cursor!Init
  OBVIOUS
<1>1. \A s \in Stmt : stmt[s].runs = 0 /\ stmt[s].rset = 0
  <2>1. \A s \in Stmt : stmt[s] \in {New(FALSE), New(TRUE)}
    BY DEF Init
  <2>2. \A q : New(q).runs = 0 /\ New(q).rset = 0
    BY DEF New
  <2> QED
    BY <2>1, <2>2
<1>2. Interrupted = {}
  BY EmptySequence DEF Init, Interrupted
<1>3. reply.row = <<>>
  BY DEF Init
<1>4. \A s \in Stmt : s \notin Interrupted
  BY <1>2
<1> QED
  BY <1>1, <1>3, <1>4 DEF Cursor!Init, triedView, resultView, cursorView, busyView

LEMMA CursorNext ==
    ASSUME IInv, QuietInv, [QuietNext]_vars
    PROVE  [Cursor!Next]_(Cursor!cvars)
<1>1. IInv'
  BY StepIInv, QuietIsAny
<1>2. ASSUME NEW s \in Stmt \ Interrupted, Execution(s)
      PROVE  Cursor!Next
  BY <1>1, <1>2, ExecutionCursor DEF Cursor!Next
<1>3. ASSUME NEW s \in Stmt \ Interrupted, Asking(s)
      PROVE  Cursor!Next
  <2>1. PICK c, x : Ends(c, s, stmt[s], x)
    BY <1>3, QuietAsking DEF Asking, Columns, RowNumber
  <2> QED
    BY <2>1, EndsAsks DEF Cursor!Next
<1>4. ASSUME NEW s \in Stmt \ Interrupted, Fetching(s)
      PROVE  [Cursor!Next]_(Cursor!cvars)
  BY <1>1, <1>4, FetchingCursor DEF Cursor!Next
<1>5. CASE Resume
  BY <1>1, <1>5, ResumeCursor DEF Cursor!Next
<1>7. ASSUME NEW s \in Stmt, LetGo(s)
      PROVE  UNCHANGED Cursor!cvars
  BY <1>7, SameView, SameBusy DEF LetGo, Cursor!cvars
<1>6. CASE UNCHANGED vars
  BY <1>6, SameView, SameBusy DEF vars, Cursor!cvars
<1> QED
  BY <1>2, <1>3, <1>4, <1>5, <1>6, <1>7 DEF QuietNext, Command

\* For quiet scripts the members of SdbStmt, SQLDBC's cursor and the suspended
\* commands implement cursors: a fetch delivers the row its cursor is on, of the
\* last execution, and nothing that runs in between moves it.
THEOREM QuietScriptsGetCursors == QuietSpec => ImplementsCursor
<1>1. IInv /\ QuietInv /\ [QuietNext]_vars => [Cursor!Next]_(Cursor!cvars)
  BY CursorNext
<1> QED
  BY <1>1, CursorInit, InvariantQuiet, PTL DEF QuietSpec, ImplementsCursor, Cursor!Spec

----------------------------------------------------------------------------
\* A quiet script that fetches only after execute has answered with the number of
\* rows of a query, and whose OUT variables can be written, never meets a null or
\* dangling pointer and never has a value released that is gone: the missing test
\* in SdbStmt::fetch and the release in copyOutput are all that it can miss.
THEOREM CarefulScriptsAreSafe == CarefulSpec => []NoFault
<1> DEFINE I == IInv /\ QuietInv /\ NoFault
<1>1. Init => I
  BY InitIInv, InitQuietInv DEF Init, NoFault
<1>2. I /\ [CarefulNext]_vars => I'
  <2> SUFFICES ASSUME IInv, QuietInv, NoFault, [CarefulNext]_vars PROVE I'
    OBVIOUS
  <2>1. IInv' /\ QuietInv'
    BY StepIInv, StepQuietInv, QuietIsAny, CarefulIsQuiet
  <2>2. fault' \in {"none", "noResultSet", "releasedOutput"}
    BY <2>1 DEF QuietInv, NothingStale
  <2>3. ASSUME NEW s \in Stmt \ Interrupted, Execution(s) \/ Asking(s) \/ LetGo(s)
        PROVE  fault' = fault
    BY <2>3, QuietAsking
       DEF Execution, ExecuteUsage, ExecuteRefused, ExecuteFails, ExecuteSucceeds,
           ExecuteWithOut, ExecuteReads, Batch, Asking, Columns, RowNumber, LetGo, Ends
  <2>4. ASSUME NEW s \in Stmt, stmt[s].last = "query", Fetching(s)
        PROVE  fault' = fault
    <3>1. stmt[s].rset # 0
      BY <2>4 DEF IInv, Consistent
    <3>2. ~ FetchWithout(s)
      BY <3>1 DEF FetchWithout
    <3> QED
      BY <2>4, <3>2 DEF Fetching, FetchNoRow, FetchRowFails, FetchList, FetchArray, Ends
  <2>5. ASSUME GoesOn
        PROVE  \/ fault' = fault
               \/ fault' \in {"staleRow", "staleArgument", "staleStatement", "keptResult"}
    BY <2>5 DEF GoesOn, ArrayLoses, ArrayColumn, ArrayColumnFails, ArrayEnds, ListEnds,
                InLoses, InFails, InKeeps, InRefused, InExecutes,
                OutLoses, OutNext, OutEnds, Fetched, Crash
  <2>6. fault' = "none"
    BY <2>2, <2>3, <2>4, <2>5 DEF CarefulNext, NoFault, vars
  <2> QED
    BY <2>1, <2>6 DEF NoFault
<1> QED
  BY <1>1, <1>2, PTL DEF CarefulSpec
=============================================================================
