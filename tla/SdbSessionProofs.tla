-------------------------- MODULE SdbSessionProofs --------------------------
(***************************************************************************)
(* Theorems about SdbSession, for every number of connections, statements, *)
(* Tcl values and names.                                                   *)
(***************************************************************************)
EXTENDS SdbSession, FiniteSetTheorems, SequenceTheorems, TLAPS

----------------------------------------------------------------------------
(* Types. *)

\* The types of all but the stack, which few steps are about.
Typed ==
    /\ cmd \in [Name -> Conn \cup {None}]
    /\ conn \in [Conn -> ConnType]
    /\ stmt \in [Stmt -> StmtType]
    /\ rep \in [Obj -> Stmt \cup {None}]
    /\ dups \in [Stmt -> 0 .. MaxDups]

LEMMA Types == TypeOK => Typed
BY DEF TypeOK, Typed

LEMMA EnvOperators ==
    ASSUME NEW e \in EnvType
    PROVE  Preserve(e) \in EnvType /\ Release(e) \in EnvType
<1>1. e.refs \in Int
  BY DEF EnvType
<1>2. e.refs + 1 \in Int /\ e.refs - 1 \in Int
  BY <1>1
<1>3. (e.live /\ e.refs - 1 > 0) \in BOOLEAN
  OBVIOUS
<1>4. Preserve(e) \in EnvType
  BY <1>2 DEF EnvType, Preserve
<1>5. Release(e) \in EnvType
  BY <1>2, <1>3 DEF EnvType, Release
<1> QED
  BY <1>4, <1>5

LEMMA StmtOperators ==
    ASSUME NEW r \in StmtType
    PROVE  /\ ReleaseDatabaseHandles(r) \in StmtType
           /\ Delete(r) \in StmtType
           /\ DropRef(r) \in StmtType
<1>1. ReleaseDatabaseHandles(r) \in StmtType
  BY DEF StmtType, ReleaseDatabaseHandles
<1>2. Delete(r) \in StmtType
  BY <1>1 DEF StmtType, State, Delete
<1>3. DropRef(r) \in StmtType
  BY DEF StmtType, DropRef
<1> QED
  BY <1>1, <1>2, <1>3

LEMMA PreparedOperators ==
    ASSUME NEW c \in Conn, NEW k \in Int
    PROVE  /\ NewStmt(c, k) \in StmtType
           /\ NewPrepStmt(c, k) \in StmtType
           /\ Delete(NewStmt(c, k)) \in StmtType
           /\ DeletePrepared(NewPrepStmt(c, k)) \in StmtType
<1>1. NewStmt(c, k) \in StmtType
  BY DEF StmtType, State, NewStmt
<1>2. NewPrepStmt(c, k) \in StmtType
  BY <1>1 DEF StmtType, NewPrepStmt
<1>3. Delete(NewStmt(c, k)) \in StmtType /\ Delete(NewPrepStmt(c, k)) \in StmtType
  BY <1>1, <1>2, StmtOperators
<1>4. DeletePrepared(NewPrepStmt(c, k)) \in StmtType
  BY <1>3 DEF StmtType, DeletePrepared
<1> QED
  BY <1>1, <1>2, <1>3, <1>4

\* What is left of a statement that could not be created.
LEMMA FailedStatement ==
    ASSUME NEW c \in Conn, NEW r \in {Delete(NewStmt(c, 0)), DeletePrepared(NewPrepStmt(c, 0))}
    PROVE  /\ r.state = "deleted" /\ r.owner = None /\ r.handle = "none"
           /\ r.params \in {"none", "freed"}
BY NoneAssumption
DEF NewStmt, NewPrepStmt, Delete, DeletePrepared, ReleaseDatabaseHandles

LEMMA EmptyStack == \A S : <<>> \in Seq(S) /\ DOMAIN <<>> = {}
BY EmptySeq

LEMMA PoppedSequence ==
    ASSUME NEW S, NEW t \in Seq(S), t # <<>>
    PROVE  /\ Front(t) \in Seq(S)
           /\ Len(Front(t)) = Len(t) - 1
           /\ \A i \in 1 .. Len(t) - 1 : Front(t)[i] = t[i]
           /\ Last(t) \in S
           /\ Last(t) = t[Len(t)]
           /\ Len(t) \in Nat \ {0}
<1>1. Len(t) \in Nat \ {0}
  BY EmptySeq
<1> DEFINE k == Len(t) - 1
<1>2. k \in Nat /\ 1 <= Len(t) /\ \A i \in 1 .. k : t[i] \in S
  BY <1>1, ElementOfSeq
<1>3. /\ SubSeq(t, 1, k) \in Seq(S)
      /\ Len(SubSeq(t, 1, k)) = k
      /\ \A i \in 1 .. k : SubSeq(t, 1, k)[i] = t[i]
  <2> HIDE DEF k
  <2>1. /\ SubSeq(t, 1, k) \in Seq(S)
        /\ Len(SubSeq(t, 1, k)) = IF 1 <= k THEN k - 1 + 1 ELSE 0
        /\ \A i \in 1 .. k - 1 + 1 : SubSeq(t, 1, k)[i] = t[1 + i - 1]
    <3>1. 1 \in Int /\ k \in Int
      BY <1>2
    <3>2. \A i \in 1 .. k : t[i] \in S
      BY <1>2
    <3> QED
      BY <3>1, <3>2, SubSeqProperties
  <2>2. (IF 1 <= k THEN k - 1 + 1 ELSE 0) = k /\ k - 1 + 1 = k
    BY <1>2
  <2>3. \A i \in 1 .. k : 1 + i - 1 = i
    BY <1>2
  <2> QED
    BY <2>1, <2>2, <2>3
<1>4. Last(t) \in S
  BY <1>1, ElementOfSeq DEF Last
<1> QED
  BY <1>1, <1>3, <1>4 DEF Front, Last

\* What the steps of the commands do to the stack.
LEMMA StackSteps ==
    ASSUME stack \in Seq(Frame)
    PROVE  /\ \A f \in Frame :
                 /\ Append(stack, f) \in Seq(Frame)
                 /\ \A i \in DOMAIN Append(stack, f) :
                       Append(stack, f)[i] = f \/ \E j \in DOMAIN stack : Append(stack, f)[i] = stack[j]
           /\ stack # <<>> =>
                 /\ Front(stack) \in Seq(Frame)
                 /\ \A i \in DOMAIN Front(stack) : \E j \in DOMAIN stack : Front(stack)[i] = stack[j]
                 /\ Last(stack) \in Frame
                 /\ \E i \in DOMAIN stack : Last(stack) = stack[i]
           /\ \A i \in DOMAIN stack : stack[i] \in Frame
<1>1. Len(stack) \in Nat /\ DOMAIN stack = 1 .. Len(stack)
  BY LenProperties
<1>2. ASSUME NEW f \in Frame
      PROVE  /\ Append(stack, f) \in Seq(Frame)
             /\ \A i \in DOMAIN Append(stack, f) :
                   Append(stack, f)[i] = f \/ \E j \in DOMAIN stack : Append(stack, f)[i] = stack[j]
  <2>1. /\ Append(stack, f) \in Seq(Frame)
        /\ Len(Append(stack, f)) = Len(stack) + 1
        /\ \A i \in 1 .. Len(stack) : Append(stack, f)[i] = stack[i]
        /\ Append(stack, f)[Len(stack) + 1] = f
    BY AppendProperties
  <2>2. DOMAIN Append(stack, f) = 1 .. Len(stack) + 1
    BY <2>1, LenProperties
  <2>3. \A i \in 1 .. Len(stack) + 1 : i \in 1 .. Len(stack) \/ i = Len(stack) + 1
    BY <1>1
  <2> QED
    BY <1>1, <2>1, <2>2, <2>3
<1>3. ASSUME stack # <<>>
      PROVE  /\ Front(stack) \in Seq(Frame)
             /\ \A i \in DOMAIN Front(stack) : \E j \in DOMAIN stack : Front(stack)[i] = stack[j]
             /\ Last(stack) \in Frame
             /\ \E i \in DOMAIN stack : Last(stack) = stack[i]
  <2>1. /\ Front(stack) \in Seq(Frame) /\ Len(Front(stack)) = Len(stack) - 1
        /\ \A i \in 1 .. Len(stack) - 1 : Front(stack)[i] = stack[i]
        /\ Last(stack) \in Frame /\ Last(stack) = stack[Len(stack)]
        /\ Len(stack) \in Nat \ {0}
    BY <1>3, PoppedSequence
  <2>2. DOMAIN Front(stack) = 1 .. Len(stack) - 1
    BY <2>1, LenProperties
  <2>3. Len(stack) \in 1 .. Len(stack) /\ \A i \in 1 .. Len(stack) - 1 : i \in 1 .. Len(stack)
    BY <2>1
  <2> QED
    BY <1>1, <2>1, <2>2, <2>3
<1>4. \A i \in DOMAIN stack : stack[i] \in Frame
  BY <1>1, ElementOfSeq
<1> QED
  BY <1>2, <1>3, <1>4

LEMMA TypeInit == Init => TypeOK
BY FiniteAssumption, EmptyStack DEF Init, TypeOK, EnvType, ConnType, StmtType, State, NewConn

LEMMA TypeNext == TypeOK /\ [Next]_vars => TypeOK'
<1> SUFFICES ASSUME TypeOK, [Next]_vars PROVE TypeOK'
  OBVIOUS
<1> USE FiniteAssumption, NoneAssumption
<1>1. ASSUME NEW n \in Name, NEW c \in Conn, Connect(n, c) PROVE TypeOK'
  BY <1>1, EnvOperators DEF Connect, TypeOK, ConnType, State, NewConn
<1>2. ASSUME NEW n \in Name, NEW c \in Conn, ConnectFails(n, c) PROVE TypeOK'
  BY <1>2, EnvOperators DEF ConnectFails, TypeOK, ConnType, State, NewConn
<1>3. CASE DeleteSdbCommand
  BY <1>3, EnvOperators DEF DeleteSdbCommand, TypeOK
<1>4. ASSUME NEW n \in Name, Disconnect(n) PROVE TypeOK'
  <2>1. PICK c \in Conn : c = cmd[n]
    BY <1>4 DEF Disconnect, TypeOK
  <2>2. \A s \in Stmt : AfterClose(c, s) \in StmtType
    BY StmtOperators, Types DEF AfterClose, Typed, StmtType
  <2>3. stmt' \in [Stmt -> StmtType]
    BY <1>4, <2>1, <2>2 DEF Disconnect
  <2>4. conn' \in [Conn -> ConnType]
    BY <1>4, <2>1 DEF Disconnect, TypeOK, ConnType, State
  <2> QED
    BY <1>4, <2>1, <2>3, <2>4, EnvOperators DEF Disconnect, TypeOK
<1>5. ASSUME NEW n \in Name, ImplicitUse(n) \/ ImplicitStarts(n) PROVE TypeOK'
  <2>1. CASE ImplicitUse(n)
    BY <2>1 DEF ImplicitUse, Uses, TypeOK
  <2>2. CASE ImplicitStarts(n)
    <3>1. PICK s \in Stmt : s = conn[cmd[n]].internal
      BY <2>2 DEF ImplicitStarts, TypeOK, ConnType
    <3>2. [stmt |-> s, obj |-> None] \in Frame
      BY DEF Frame
    <3>3. stack' \in Seq(Frame)
      BY <2>2, <3>1, <3>2, StackSteps DEF ImplicitStarts, Starts, TypeOK
    <3> QED
      BY <2>2, <3>3 DEF ImplicitStarts, Starts, TypeOK
  <2> QED
    BY <1>5, <2>1, <2>2
<1>6. ASSUME NEW n \in Name, NEW s \in Stmt, NewStatementFails(n, s) PROVE TypeOK'
  <2>1. Delete(NewStmt(cmd[n], 0)) \in StmtType /\ NotPrepared(n) \in StmtType
    BY <1>6, PreparedOperators DEF NewStatementFails, NotPrepared, TypeOK
  <2> QED
    BY <1>6, <2>1 DEF NewStatementFails, TypeOK
<1>7. ASSUME NEW n \in Name, NEW s \in Stmt, FirstImplicitUse(n, s) PROVE TypeOK'
  <2>1. NewStmt(cmd[n], 0) \in StmtType
    BY <1>7, PreparedOperators DEF FirstImplicitUse, TypeOK
  <2>2. conn' \in [Conn -> ConnType]
    BY <1>7, Types DEF FirstImplicitUse, Typed, ConnType
  <2> QED
    BY <1>7, <2>1, <2>2 DEF FirstImplicitUse, TypeOK
<1>8. ASSUME NEW n \in Name, NEW s \in Stmt, NEW o \in Obj,
             NewStatement(n, s, o) \/ Prepare(n, s, o)
      PROVE  TypeOK'
  <2>1. NewStmt(cmd[n], 1) \in StmtType /\ NewPrepStmt(cmd[n], 1) \in StmtType
    BY <1>8, PreparedOperators DEF NewStatement, Prepare, TypeOK
  <2> QED
    BY <1>8, <2>1 DEF NewStatement, Prepare, Created, TypeOK
<1>9. ASSUME NEW n \in Name, NEW o \in Obj, HandleUse(n, o) \/ HandleStarts(n, o)
      PROVE  TypeOK'
  <2>1. CASE HandleUse(n, o)
    BY <2>1 DEF HandleUse, Uses, TypeOK
  <2>2. CASE HandleStarts(n, o)
    <3>1. [stmt |-> rep[o], obj |-> o] \in Frame
      BY <2>2 DEF Frame, HandleStarts, TypeOK
    <3>2. stack' \in Seq(Frame)
      BY <2>2, <3>1, StackSteps DEF HandleStarts, Starts, TypeOK
    <3> QED
      BY <2>2, <3>2 DEF HandleStarts, Starts, TypeOK
  <2> QED
    BY <1>9, <2>1, <2>2
<1>10. ASSUME NEW o \in Obj, Duplicate(o) PROVE TypeOK'
  <2>1. stmt' \in [Stmt -> StmtType]
    BY <1>10, Types DEF Duplicate, Typed, StmtType
  <2>2. dups' \in [Stmt -> 0 .. MaxDups]
    BY <1>10 DEF Duplicate, TypeOK
  <2> QED
    BY <1>10, <2>1, <2>2 DEF Duplicate, TypeOK
<1>11. ASSUME NEW o \in Obj, FreeIntRep(o) PROVE TypeOK'
  <2>1. PICK s \in Stmt : s = rep[o]
    BY <1>11 DEF FreeIntRep, TypeOK
  <2>2. DropRef(stmt[s]) \in StmtType /\ Delete(DropRef(stmt[s])) \in StmtType
    BY StmtOperators DEF TypeOK
  <2>3. stmt' \in [Stmt -> StmtType]
    BY <1>11, <2>1, <2>2 DEF FreeIntRep, TypeOK
  <2>4. conn' \in [Conn -> ConnType]
    BY <1>11, <2>1, Types DEF FreeIntRep, Typed, ConnType
  <2> QED
    BY <1>11, <2>1, <2>3, <2>4 DEF FreeIntRep, TypeOK
<1>12. CASE Resume
  <2>1. stack' \in Seq(Frame)
    BY <1>12, StackSteps DEF Resume, TypeOK
  <2> QED
    BY <1>12, <2>1 DEF Resume, TypeOK
<1>13. CASE UNCHANGED vars
  BY <1>13 DEF vars, TypeOK
<1> QED
  BY <1>1, <1>2, <1>3, <1>4, <1>5, <1>6, <1>7, <1>8, <1>9, <1>10, <1>11, <1>12, <1>13
  DEF Next

\* Every variable keeps its type, whatever the script does.
THEOREM TypeCorrect == Spec => []TypeOK
BY TypeInit, TypeNext, PTL DEF Spec

----------------------------------------------------------------------------
(* The environment and the sessions. *)

SessionInv == EnvCounted /\ OneCommandPerSession

LEMMA LiveFinite ==
    /\ IsFiniteSet(Live)
    /\ Cardinality(Live) \in Nat
    /\ Cardinality(Live) = 0 <=> Live = {}
<1>1. Live \in SUBSET Conn
  BY DEF Live
<1>2. IsFiniteSet(Live)
  BY <1>1, FS_Subset, FiniteAssumption
<1> QED
  BY <1>2, FS_CardinalityType, FS_EmptySet

LEMMA SessionInit == Init => SessionInv
<1> SUFFICES ASSUME Init PROVE SessionInv
  OBVIOUS
<1>1. Live = {}
  BY DEF Init, Live
<1>2. Cardinality(Live) = 0
  BY <1>1, FS_EmptySet
<1>3. EnvCounted
  BY <1>1, <1>2 DEF Init, EnvCounted
<1>4. OneCommandPerSession
  BY <1>1 DEF Init, OneCommandPerSession
<1> QED
  BY <1>3, <1>4 DEF SessionInv

\* Steps that change neither the environment nor the life of a connection.
LEMMA SessionFrame ==
    ASSUME SessionInv, Live' = Live, UNCHANGED <<env, sdbCmd, cmd, sessions>>
    PROVE  SessionInv'
BY DEF SessionInv, EnvCounted, OneCommandPerSession

LEMMA SessionNext == TypeOK /\ SessionInv /\ [Next]_vars => SessionInv'
<1> SUFFICES ASSUME TypeOK, SessionInv, [Next]_vars PROVE SessionInv'
  OBVIOUS
<1> USE NoneAssumption
<1>a. env.refs \in Int /\ env.live \in BOOLEAN
  BY DEF TypeOK, EnvType
<1>1. ASSUME NEW n \in Name, NEW c \in Conn, Connect(n, c) PROVE SessionInv'
  <2>1. c \notin Live /\ Live' = Live \cup {c}
    BY <1>1 DEF Connect, Live, TypeOK, ConnType, NewConn
  <2>2. Cardinality(Live') = Cardinality(Live) + 1
    BY <2>1, LiveFinite, FS_AddElement
  <2>3. env'.refs = env.refs + 1 /\ env'.live = env.live
    BY <1>1 DEF Connect, Preserve, TypeOK, EnvType
  <2>4. EnvCounted'
    BY <1>1, <1>a, <2>1, <2>2, <2>3, LiveFinite DEF Connect, SessionInv, EnvCounted
  <2>5. OneCommandPerSession'
    BY <1>1, <2>1 DEF Connect, SessionInv, OneCommandPerSession, TypeOK
  <2> QED
    BY <2>4, <2>5 DEF SessionInv
<1>2. ASSUME NEW n \in Name, NEW c \in Conn, ConnectFails(n, c) PROVE SessionInv'
  <2>1. Live' = Live
    BY <1>2 DEF ConnectFails, Live, TypeOK, ConnType, NewConn
  <2>2. env'.refs = env.refs /\ env'.live = (env.live /\ env.refs > 0)
    BY <1>2, <1>a DEF ConnectFails, Preserve, Release, TypeOK, EnvType
  <2>3. env.refs > 0
    BY <1>2, LiveFinite DEF ConnectFails, SessionInv, EnvCounted
  <2>4. EnvCounted'
    BY <1>2, <2>1, <2>2, <2>3 DEF ConnectFails, SessionInv, EnvCounted
  <2>5. OneCommandPerSession'
    BY <1>2, <2>1 DEF ConnectFails, SessionInv, OneCommandPerSession
  <2> QED
    BY <2>4, <2>5 DEF SessionInv
<1>3. CASE DeleteSdbCommand
  <2>1. Live' = Live
    BY <1>3 DEF DeleteSdbCommand, Live
  <2>2. env'.refs = env.refs - 1 /\ env'.live = (env.live /\ env.refs - 1 > 0)
    BY <1>3 DEF DeleteSdbCommand, Release
  <2>3. env.refs - 1 = Cardinality(Live) /\ env.live
    BY <1>3, LiveFinite DEF DeleteSdbCommand, SessionInv, EnvCounted
  <2>3a. env'.live <=> Live # {}
    <3>1. env'.live <=> Cardinality(Live) > 0
      BY <2>2, <2>3
    <3> QED
      BY <3>1, LiveFinite
  <2>3b. env'.refs = Cardinality(Live)
    BY <2>2, <2>3
  <2>3c. sdbCmd' = FALSE
    BY <1>3 DEF DeleteSdbCommand
  <2>4. EnvCounted'
    BY <2>1, <2>3a, <2>3b, <2>3c, LiveFinite DEF EnvCounted
  <2>5. OneCommandPerSession'
    BY <1>3, <2>1 DEF DeleteSdbCommand, SessionInv, OneCommandPerSession
  <2> QED
    BY <2>4, <2>5 DEF SessionInv
<1>4. ASSUME NEW n \in Name, Disconnect(n) PROVE SessionInv'
  <2>1. PICK c \in Conn : c = cmd[n]
    BY <1>4 DEF Disconnect, TypeOK
  <2>2. c \in Live /\ Live' = Live \ {c}
    BY <1>4, <2>1
    DEF Disconnect, SessionInv, OneCommandPerSession, Live, TypeOK, ConnType
  <2>3. Cardinality(Live') = Cardinality(Live) - 1
    BY <2>2, LiveFinite, FS_RemoveElement
  <2>4. Cardinality(Live') \in Nat /\ (Cardinality(Live') = 0 <=> Live' = {})
    BY <2>2, LiveFinite, FS_RemoveElement, FS_CardinalityType, FS_EmptySet
  <2>5. env'.refs = env.refs - 1 /\ env'.live = (env.live /\ env.refs - 1 > 0)
    BY <1>4 DEF Disconnect, Release
  <2>6. env.live
    BY <2>2 DEF SessionInv, EnvCounted
  <2>6a. sdbCmd' = sdbCmd
    BY <1>4 DEF Disconnect
  <2>6b. env'.refs = Cardinality(Live') + (IF sdbCmd THEN 1 ELSE 0)
    BY <2>3, <2>5, LiveFinite DEF SessionInv, EnvCounted
  <2>6c. env'.live <=> (sdbCmd \/ Live' # {})
    <3>1. env'.live <=> Cardinality(Live') + (IF sdbCmd THEN 1 ELSE 0) > 0
      BY <2>5, <2>6, <2>6b
    <3>2. CASE sdbCmd
      BY <3>1, <3>2, <2>4
    <3>3. CASE ~ sdbCmd
      BY <3>1, <3>3, <2>4
    <3> QED
      BY <3>2, <3>3
  <2>7. EnvCounted'
    BY <2>6a, <2>6b, <2>6c DEF EnvCounted
  <2>8. OneCommandPerSession'
    BY <1>4, <2>1, <2>2 DEF Disconnect, SessionInv, OneCommandPerSession, TypeOK
  <2> QED
    BY <2>7, <2>8 DEF SessionInv
<1>5. ASSUME NEW n \in Name, ImplicitUse(n) \/ ImplicitStarts(n) PROVE SessionInv'
  BY <1>5, SessionFrame DEF ImplicitUse, ImplicitStarts, Uses, Starts, Live
<1>6. ASSUME NEW n \in Name, NEW s \in Stmt, NewStatementFails(n, s) PROVE SessionInv'
  BY <1>6, SessionFrame DEF NewStatementFails, Live
<1>7. ASSUME NEW n \in Name, NEW s \in Stmt, FirstImplicitUse(n, s) PROVE SessionInv'
  <2>1. Live' = Live
    BY <1>7 DEF FirstImplicitUse, Live, TypeOK, ConnType
  <2> QED
    BY <1>7, <2>1, SessionFrame DEF FirstImplicitUse
<1>8. ASSUME NEW n \in Name, NEW s \in Stmt, NEW o \in Obj,
             NewStatement(n, s, o) \/ Prepare(n, s, o)
      PROVE  SessionInv'
  BY <1>8, SessionFrame DEF NewStatement, Prepare, Created, Live
<1>9. ASSUME NEW n \in Name, NEW o \in Obj, HandleUse(n, o) \/ HandleStarts(n, o)
      PROVE  SessionInv'
  BY <1>9, SessionFrame DEF HandleUse, HandleStarts, Uses, Starts, Live
<1>10. ASSUME NEW o \in Obj, Duplicate(o) PROVE SessionInv'
  BY <1>10, SessionFrame DEF Duplicate, Live
<1>11. ASSUME NEW o \in Obj, FreeIntRep(o) PROVE SessionInv'
  <2>1. \A c \in Conn : conn'[c].state = conn[c].state
    BY <1>11, Types DEF FreeIntRep, Typed, ConnType
  <2>2. Live' = Live
    BY <2>1 DEF Live
  <2> QED
    BY <1>11, <2>2, SessionFrame DEF FreeIntRep
<1>12. CASE Resume \/ UNCHANGED vars
  BY <1>12, SessionFrame DEF Resume, vars, Live
<1> QED
  BY <1>1, <1>2, <1>3, <1>4, <1>5, <1>6, <1>7, <1>8, <1>9, <1>10, <1>11, <1>12
  DEF Next

LEMMA SessionsInvariance == Spec => []SessionInv
<1>1. TypeOK /\ SessionInv /\ [Next]_vars => (TypeOK /\ SessionInv)'
  BY TypeNext, SessionNext
<1>2. Init => TypeOK /\ SessionInv
  BY TypeInit, SessionInit
<1> QED
  BY <1>1, <1>2, PTL DEF Spec

\* The environment lives exactly as long as the sdb command or a connection
\* does.
THEOREM EnvironmentCounted == Spec => []EnvCounted
<1>1. SessionInv => EnvCounted
  BY DEF SessionInv
<1> QED
  BY <1>1, SessionsInvariance, PTL

\* Every connection, and the SQLDBC session behind it, lives exactly as long as
\* the one command on it.
THEOREM SessionsHaveOneCommand == Spec => []OneCommandPerSession
<1>1. SessionInv => OneCommandPerSession
  BY DEF SessionInv
<1> QED
  BY <1>1, SessionsInvariance, PTL

----------------------------------------------------------------------------
(* The statements. *)

StatementInv ==
    /\ StatementsTied
    /\ StackTied
    /\ RefsCounted
    /\ HandlesAreLive
    /\ OnlyInternalOrDuplicatedLeak
    /\ FaultsNeedAnOutlivedStatement

LEMMA StatementInit == Init => StatementInv
BY NoneAssumption, EmptyStack DEF Init, StatementInv, StatementsTied, StackTied, RefsCounted, HandlesAreLive,
   OnlyInternalOrDuplicatedLeak, FaultsNeedAnOutlivedStatement, NewConn, Held, Running

\* A statement that was never allocated is in nobody's hands.
LEMMA UnusedIsFree ==
    ASSUME TypeOK, StatementInv, NEW s \in Stmt, stmt[s].state = "unused"
    PROVE  /\ ~ Held(s)
           /\ \A c \in Conn : conn[c].internal # s
BY NoneAssumption DEF StatementInv, HandlesAreLive, StatementsTied, Held, TypeOK

\* The suspended commands keep what they stand on: no internal statement is
\* replaced, and the value a command has among its words is only ever converted.
LEMMA StackKept ==
    ASSUME TypeOK, StackTied, UNCHANGED stack,
           \A c \in Conn : conn[c].internal # None => conn'[c].internal = conn[c].internal,
           \A o \in Obj : \/ rep'[o] \in {rep[o], None}
                           \/ \A i \in DOMAIN stack : stack[i].obj # o
    PROVE  StackTied'
<1>1. \A i \in DOMAIN stack : stack[i].stmt \in Stmt /\ stack[i].obj \in Obj \cup {None}
  BY StackSteps DEF TypeOK, Frame
<1>2. ASSUME NEW i \in DOMAIN stack, stack[i].obj = None
      PROVE  \E c \in Conn : conn'[c].internal = stack[i].stmt
  <2>1. PICK c \in Conn : conn[c].internal = stack[i].stmt
    BY <1>2 DEF StackTied
  <2> QED
    BY <1>1, <2>1, NoneAssumption
<1>3. ASSUME NEW i \in DOMAIN stack, stack[i].obj # None
      PROVE  rep'[stack[i].obj] \in {stack[i].stmt, None}
  <2>1. rep[stack[i].obj] \in {stack[i].stmt, None} /\ stack[i].obj \in Obj
    BY <1>1, <1>3 DEF StackTied
  <2> QED
    BY <2>1
<1> QED
  BY <1>2, <1>3 DEF StackTied

LEMMA ConnectKeepsStatements ==
    ASSUME TypeOK, SessionInv, StatementInv, NEW n \in Name, NEW c \in Conn,
           Connect(n, c) \/ ConnectFails(n, c)
    PROVE  StatementInv'
<1> USE NoneAssumption
<1>1. /\ conn[c].state = "unused" /\ conn'[c].internal = None /\ conn'[c].tracked = {}
      /\ conn'[c].state # "unused"
      /\ \A d \in Conn : d # c => conn'[d] = conn[d]
      /\ stmt' = stmt /\ rep' = rep /\ dups' = dups /\ fault' = fault /\ Running
  BY DEF Connect, ConnectFails, TypeOK, ConnType, NewConn
<1>2. conn[c].internal = None
  BY <1>1 DEF StatementInv, StatementsTied
<1>3. \A s \in Stmt : stmt[s].owner # c
  BY <1>1 DEF StatementInv, StatementsTied, Live, Outlived, TypeOK, StmtType
<1>4. \A s \in Stmt : Outlived(s)' <=> Outlived(s)
  BY <1>1, <1>3 DEF Outlived, TypeOK, StmtType
<1>5. StatementsTied'
  <2>1. \A s \in Stmt : stmt[s].handle = "open" => stmt[s].owner \in Live'
    BY <1>1, <1>3 DEF StatementInv, StatementsTied, Live
  <2>2. \A d \in Conn : d # c => (d \in Live' <=> d \in Live)
    BY <1>1 DEF Live
  <2> QED
    BY <1>1, <1>2, <1>4, <2>1, <2>2 DEF StatementInv, StatementsTied
<1>6. RefsCounted'
  BY <1>1 DEF StatementInv, RefsCounted, Held
<1>7. HandlesAreLive'
  BY <1>1 DEF StatementInv, HandlesAreLive, TypeOK
<1>8. OnlyInternalOrDuplicatedLeak'
  BY <1>1, <1>2 DEF StatementInv, OnlyInternalOrDuplicatedLeak, Running, Held
<1>9. FaultsNeedAnOutlivedStatement'
  BY <1>1 DEF FaultsNeedAnOutlivedStatement, Running
<1>s. StackTied'
  BY <1>1, <1>2, StackKept DEF Connect, ConnectFails, StatementInv
<1> QED
  BY <1>s, <1>5, <1>6, <1>7, <1>8, <1>9 DEF StatementInv

\* The three ways to make a statement object that stays: by a Tcl value or as
\* an internal statement.
LEMMA NewStatementKeepsStatements ==
    ASSUME TypeOK, SessionInv, StatementInv,
           NEW n \in Name, NEW s \in Stmt, NEW o \in Obj,
           NewStatement(n, s, o) \/ Prepare(n, s, o)
    PROVE  StatementInv'
<1> USE NoneAssumption
<1>1. PICK c \in Live : c = cmd[n]
  BY DEF NewStatement, Prepare, SessionInv, OneCommandPerSession
<1>2. c \in Conn
  BY DEF Live
<1>3. /\ stmt'[s].state = "live" /\ stmt'[s].owner = c
      /\ stmt'[s].handle = "open" /\ stmt'[s].refs = 1
      /\ \A t \in Stmt : t # s => stmt'[t] = stmt[t]
      /\ rep'[o] = s /\ \A p \in Obj : p # o => rep'[p] = rep[p]
      /\ conn' = conn /\ dups' = dups /\ fault' = fault /\ Running
      /\ stmt[s].state = "unused"
  BY <1>1 DEF NewStatement, Prepare, Created, Fresh, NewStmt, NewPrepStmt, TypeOK
<1>4. ~ Held(s) /\ \A d \in Conn : conn[d].internal # s
  BY <1>3, UnusedIsFree
<1>5. Live' = Live /\ \A t \in Stmt : t # s => (Outlived(t)' <=> Outlived(t))
  BY <1>3 DEF Live, Outlived
<1>6. Held(s)' /\ \A t \in Stmt : t # s => (Held(t)' <=> Held(t))
  BY <1>3 DEF Held, NewStatement, Prepare, Fresh
<1>7. StatementsTied'
  <2>1. /\ stmt'[s].state = "live" /\ stmt'[s].owner = c /\ stmt'[s].handle = "open"
    BY <1>3
  <2>2. \A d \in Conn : conn[d].internal # None =>
           stmt'[conn[d].internal] = stmt[conn[d].internal]
    BY <1>3, <1>4 DEF TypeOK, ConnType
  <2> QED
    BY <1>1, <1>2, <1>3, <1>5, <2>1, <2>2 DEF StatementInv, StatementsTied
<1>8. RefsCounted'
  <2>1. stmt'[s].refs = 1 /\ dups[s] = 0
    BY <1>3 DEF StatementInv, StatementsTied
  <2> QED
    BY <1>3, <1>6, <2>1 DEF StatementInv, RefsCounted
<1>9. HandlesAreLive'
  BY <1>3, <1>4 DEF StatementInv, HandlesAreLive, Held, TypeOK
<1>10. OnlyInternalOrDuplicatedLeak'
  BY <1>3, <1>6 DEF StatementInv, OnlyInternalOrDuplicatedLeak, Running
<1>11. FaultsNeedAnOutlivedStatement'
  BY <1>3 DEF FaultsNeedAnOutlivedStatement, Running
<1>s. StackTied'
  BY <1>3, StackKept DEF NewStatement, Prepare, Created, Fresh, StatementInv
<1> QED
  BY <1>s, <1>7, <1>8, <1>9, <1>10, <1>11 DEF StatementInv

LEMMA FailedStatementKeepsStatements ==
    ASSUME TypeOK, SessionInv, StatementInv,
           NEW n \in Name, NEW s \in Stmt, NewStatementFails(n, s)
    PROVE  StatementInv'
<1> USE NoneAssumption
<1>1. /\ stmt'[s].state = "deleted" /\ stmt'[s].owner = None /\ stmt'[s].handle = "none"
      /\ \A t \in Stmt : t # s => stmt'[t] = stmt[t]
      /\ rep' = rep /\ conn' = conn /\ dups' = dups /\ fault' = fault /\ Running
      /\ stmt[s].state = "unused"
  <2>1. PICK c \in Conn : c = cmd[n]
    BY DEF NewStatementFails, TypeOK
  <2>2. PICK r \in {Delete(NewStmt(c, 0)), DeletePrepared(NewPrepStmt(c, 0))} :
             stmt' = [stmt EXCEPT ![s] = r]
    BY <2>1 DEF NewStatementFails, NotPrepared
  <2> QED
    BY <2>2, FailedStatement DEF NewStatementFails, TypeOK
<1>2. ~ Held(s) /\ \A d \in Conn : conn[d].internal # s
  BY <1>1, UnusedIsFree
<1>3. Live' = Live /\ \A t \in Stmt : t # s => (Outlived(t)' <=> Outlived(t))
  BY <1>1 DEF Live, Outlived
<1>4. \A t \in Stmt : Held(t)' <=> Held(t)
  BY <1>1 DEF Held
<1>5. StatementsTied'
  <2>1. /\ stmt'[s].state = "deleted" /\ stmt'[s].owner = None /\ stmt'[s].handle = "none"
    BY <1>1
  <2>2. \A d \in Conn : conn[d].internal # None =>
           stmt'[conn[d].internal] = stmt[conn[d].internal]
    BY <1>1, <1>2 DEF TypeOK, ConnType
  <2> QED
    BY <1>1, <1>3, <2>1, <2>2 DEF StatementInv, StatementsTied
<1>6. RefsCounted'
  BY <1>1, <1>4 DEF StatementInv, RefsCounted
<1>7. HandlesAreLive'
  BY <1>1, <1>2 DEF StatementInv, HandlesAreLive, Held, TypeOK
<1>8. OnlyInternalOrDuplicatedLeak'
  BY <1>1, <1>4 DEF StatementInv, OnlyInternalOrDuplicatedLeak, Running
<1>9. FaultsNeedAnOutlivedStatement'
  BY <1>1 DEF FaultsNeedAnOutlivedStatement, Running
<1>s. StackTied'
  BY <1>1, StackKept DEF NewStatementFails, StatementInv
<1> QED
  BY <1>s, <1>5, <1>6, <1>7, <1>8, <1>9 DEF StatementInv

LEMMA FirstImplicitUseKeepsStatements ==
    ASSUME TypeOK, SessionInv, StatementInv,
           NEW n \in Name, NEW s \in Stmt, FirstImplicitUse(n, s)
    PROVE  StatementInv'
<1> USE NoneAssumption
<1>1. PICK c \in Live : c = cmd[n]
  BY DEF FirstImplicitUse, SessionInv, OneCommandPerSession
<1>2. c \in Conn
  BY DEF Live
<1>3. /\ stmt'[s].state = "live" /\ stmt'[s].owner = c
      /\ stmt'[s].handle = "open" /\ stmt'[s].refs = 0
      /\ \A t \in Stmt : t # s => stmt'[t] = stmt[t]
      /\ rep' = rep /\ dups' = dups /\ fault' = fault /\ Running
      /\ stmt[s].state = "unused"
  BY <1>1 DEF FirstImplicitUse, NewStmt, TypeOK
<1>4. /\ conn[c].internal = None /\ conn'[c].internal = s
      /\ \A d \in Conn : /\ conn'[d].state = conn[d].state
                         /\ conn'[d].tracked = conn[d].tracked
                         /\ d # c => conn'[d].internal = conn[d].internal
  BY <1>1, <1>2 DEF FirstImplicitUse, TypeOK, ConnType
<1>5. ~ Held(s) /\ \A d \in Conn : conn[d].internal # s
  BY <1>3, UnusedIsFree
<1>6. Live' = Live /\ \A t \in Stmt : t # s => (Outlived(t)' <=> Outlived(t))
  BY <1>3, <1>4 DEF Live, Outlived, TypeOK, StmtType
<1>7. \A t \in Stmt : Held(t)' <=> Held(t)
  BY <1>3 DEF Held
<1>8. /\ stmt'[s].state = "live" /\ stmt'[s].owner = c
      /\ stmt'[s].handle = "open" /\ stmt'[s].refs = 0
  BY <1>3
<1>9. StatementsTied'
  <2>1. \A d \in Conn : conn[d].internal # None =>
           stmt'[conn[d].internal] = stmt[conn[d].internal]
    BY <1>3, <1>5 DEF TypeOK, ConnType
  <2>2. \A t \in Stmt :
          /\ stmt'[t].state = "unused" => dups'[t] = 0
          /\ stmt'[t].state # "live" => stmt'[t].handle = "none"
          /\ stmt'[t].handle = "none" <=> stmt'[t].owner = None
          /\ stmt'[t].handle = "open" => stmt'[t].owner \in Live'
          /\ stmt'[t].handle = "stale" => Outlived(t)'
          /\ (stmt'[t].state = "live" /\ stmt'[t].handle = "none") =>
                \E d \in Conn : conn'[d].internal = t
    BY <1>1, <1>2, <1>3, <1>4, <1>6, <1>8 DEF StatementInv, StatementsTied
  <2>3. \A d \in Conn :
          /\ conn'[d].tracked = {}
          /\ conn'[d].internal # None =>
                /\ conn'[d].state # "unused"
                /\ stmt'[conn'[d].internal].state = "live"
                /\ d \in Live' => /\ stmt'[conn'[d].internal].owner = d
                                  /\ stmt'[conn'[d].internal].handle = "open"
                /\ d \notin Live' => stmt'[conn'[d].internal].handle = "none"
    <3>1. conn[c].state # "unused"
      BY <1>1 DEF Live
    <3> QED
      BY <1>2, <1>4, <1>6, <1>8, <2>1, <3>1 DEF StatementInv, StatementsTied
  <2> QED
    BY <2>2, <2>3 DEF StatementsTied
<1>10. RefsCounted'
  <2>1. dups[s] = 0
    BY <1>3 DEF StatementInv, StatementsTied
  <2> QED
    BY <1>3, <1>5, <1>7, <1>8, <2>1 DEF StatementInv, RefsCounted
<1>11. HandlesAreLive'
  <2>1. \A o \in Obj : rep[o] # None => rep[o] # s
    BY <1>5 DEF Held
  <2> QED
    BY <1>3, <1>4, <2>1, Types DEF StatementInv, HandlesAreLive, Typed
<1>12. OnlyInternalOrDuplicatedLeak'
  <2>1. conn'[c].internal = s /\ conn'[c].state # "unused"
    BY <1>1, <1>2, <1>4 DEF Live
  <2>2. ASSUME NEW t \in Stmt, t # s, stmt[t].state = "live", ~ Held(t), dups[t] = 0
        PROVE  \E d \in Conn : conn'[d].internal = t /\ conn'[d].state # "unused"
    <3>1. PICK d \in Conn : conn[d].internal = t /\ conn[d].state # "unused"
      BY <1>3, <2>2 DEF StatementInv, OnlyInternalOrDuplicatedLeak, TypeOK
    <3>2. d # c
      BY <1>4, <3>1
    <3> QED
      BY <1>4, <3>1, <3>2
  <2> QED
    BY <1>2, <1>3, <1>7, <2>1, <2>2 DEF OnlyInternalOrDuplicatedLeak, TypeOK
<1>13. FaultsNeedAnOutlivedStatement'
  BY <1>3 DEF FaultsNeedAnOutlivedStatement, Running
<1>s. StackTied'
  BY <1>3, <1>4, StackKept DEF FirstImplicitUse, StatementInv
<1> QED
  BY <1>s, <1>9, <1>10, <1>11, <1>12, <1>13 DEF StatementInv

LEMMA DisconnectKeepsStatements ==
    ASSUME TypeOK, SessionInv, StatementInv, NEW n \in Name, Disconnect(n)
    PROVE  StatementInv'
<1> USE NoneAssumption
<1>1. PICK c \in Live : c = cmd[n]
  BY DEF Disconnect, SessionInv, OneCommandPerSession
<1>2. c \in Conn
  BY DEF Live
<1>3. /\ rep' = rep /\ dups' = dups /\ Running /\ fault' = "none"
      /\ stmt' = [s \in Stmt |-> AfterClose(c, s)]
  <2>1. env.live
    BY <1>1 DEF SessionInv, EnvCounted
  <2> QED
    BY <1>1, <2>1 DEF Disconnect
<1>4. /\ conn'[c].state = "deleted"
      /\ \A d \in Conn : /\ conn'[d].tracked = conn[d].tracked
                         /\ conn'[d].internal = conn[d].internal
                         /\ d # c => conn'[d].state = conn[d].state
  BY <1>1, <1>2 DEF Disconnect, TypeOK, ConnType
<1>5. Live' = Live \ {c}
  BY <1>2, <1>4 DEF Live
<1>6. \A s \in Stmt : /\ stmt'[s].state = stmt[s].state
                     /\ stmt'[s].refs = stmt[s].refs
  BY <1>3 DEF AfterClose, ReleaseDatabaseHandles, TypeOK, StmtType
<1>7. ASSUME NEW s \in Stmt, conn[c].internal = s
      PROVE  stmt'[s].owner = None /\ stmt'[s].handle = "none"
  <2>1. stmt[s].owner = c
    BY <1>1, <1>2, <1>7 DEF StatementInv, StatementsTied
  <2>2. stmt'[s] = [stmt[s] EXCEPT !.handle = "none", !.owner = None]
    BY <1>2, <1>3, <1>7, <2>1 DEF AfterClose, Known, ReleaseDatabaseHandles
  <2> QED
    BY <2>2 DEF TypeOK, StmtType
<1>8. ASSUME NEW s \in Stmt, conn[c].internal # s
      PROVE  /\ stmt'[s].owner = stmt[s].owner
             /\ stmt'[s].handle = IF stmt[s].owner = c /\ stmt[s].handle = "open"
                                  THEN "stale" ELSE stmt[s].handle
  <2>1. s \notin Known(c)
    BY <1>2, <1>8 DEF Known, StatementInv, StatementsTied
  <2> QED
    BY <1>3, <2>1 DEF AfterClose, TypeOK, StmtType
<1>9. \A s \in Stmt : Held(s)' <=> Held(s)
  BY <1>3 DEF Held
<1>10. StatementsTied'
  <2>1. ASSUME NEW s \in Stmt
        PROVE  /\ stmt'[s].state = "unused" => dups'[s] = 0
               /\ stmt'[s].state # "live" => stmt'[s].handle = "none"
               /\ stmt'[s].handle = "none" <=> stmt'[s].owner = None
               /\ stmt'[s].handle = "open" => stmt'[s].owner \in Live'
               /\ stmt'[s].handle = "stale" => Outlived(s)'
               /\ (stmt'[s].state = "live" /\ stmt'[s].handle = "none") =>
                     \E d \in Conn : conn'[d].internal = s
    <3>1. CASE conn[c].internal = s
      BY <1>2, <1>3, <1>4, <1>6, <1>7, <3>1 DEF StatementInv, StatementsTied
    <3>2. CASE conn[c].internal # s
      <4>1. stmt'[s].handle = "stale" => Outlived(s)'
        BY <1>2, <1>4, <1>8, <3>2, Types DEF StatementInv, StatementsTied, Outlived, Typed, StmtType
      <4> QED
        BY <1>2, <1>3, <1>4, <1>5, <1>6, <1>8, <3>2, <4>1 DEF StatementInv, StatementsTied
    <3> QED
      BY <3>1, <3>2
  <2>2. ASSUME NEW d \in Conn
        PROVE  /\ conn'[d].tracked = {}
               /\ conn'[d].internal # None =>
                     /\ conn'[d].state # "unused"
                     /\ stmt'[conn'[d].internal].state = "live"
                     /\ d \in Live' => /\ stmt'[conn'[d].internal].owner = d
                                       /\ stmt'[conn'[d].internal].handle = "open"
                     /\ d \notin Live' => stmt'[conn'[d].internal].handle = "none"
    <3>1. SUFFICES ASSUME conn[d].internal # None
                   PROVE  /\ conn'[d].state # "unused"
                          /\ stmt'[conn[d].internal].state = "live"
                          /\ d \in Live' => /\ stmt'[conn[d].internal].owner = d
                                            /\ stmt'[conn[d].internal].handle = "open"
                          /\ d \notin Live' => stmt'[conn[d].internal].handle = "none"
      BY <1>4 DEF StatementInv, StatementsTied
    <3>2. PICK s \in Stmt : s = conn[d].internal
      BY <3>1 DEF TypeOK, ConnType
    <3>3. conn'[d].state # "unused" /\ stmt'[s].state = "live"
      BY <1>4, <1>6, <3>1, <3>2 DEF StatementInv, StatementsTied
    <3>4. ASSUME d \in Live' PROVE stmt'[s].owner = d /\ stmt'[s].handle = "open"
      <4>1. d \in Live /\ d # c
        BY <1>5, <3>4
      <4>2. stmt[s].owner = d /\ stmt[s].handle = "open"
        BY <3>1, <3>2, <4>1 DEF StatementInv, StatementsTied
      <4>3. conn[c].internal # s
        BY <1>1, <1>2, <4>1, <4>2 DEF StatementInv, StatementsTied
      <4> QED
        BY <1>8, <4>1, <4>2, <4>3
    <3>5. ASSUME d \notin Live' PROVE stmt'[s].handle = "none"
      <4>1. CASE conn[c].internal = s
        BY <1>7, <4>1
      <4>2. CASE conn[c].internal # s
        <5>1. d \notin Live
          BY <1>5, <3>2, <3>5, <4>2
        <5>2. stmt[s].handle = "none"
          BY <3>1, <3>2, <5>1 DEF StatementInv, StatementsTied
        <5> QED
          BY <1>8, <4>2, <5>2
      <4> QED
        BY <4>1, <4>2
    <3> QED
      BY <3>2, <3>3, <3>4, <3>5
  <2> QED
    BY <2>1, <2>2 DEF StatementsTied
<1>11. RefsCounted'
  BY <1>3, <1>6, <1>9 DEF StatementInv, RefsCounted
<1>12. HandlesAreLive'
  BY <1>3, <1>4, <1>6, Types DEF StatementInv, HandlesAreLive, Typed
<1>13. OnlyInternalOrDuplicatedLeak'
  BY <1>3, <1>4, <1>6, <1>9 DEF StatementInv, OnlyInternalOrDuplicatedLeak
<1>14. FaultsNeedAnOutlivedStatement'
  BY <1>3 DEF FaultsNeedAnOutlivedStatement
<1>s. StackTied'
  BY <1>3, <1>4, StackKept DEF Disconnect, StatementInv
<1> QED
  BY <1>s, <1>10, <1>11, <1>12, <1>13, <1>14 DEF StatementInv

\* A command on a connection's own statement finds it operable.
LEMMA InternalIsOperable ==
    ASSUME TypeOK, SessionInv, StatementInv, NEW n \in Name, cmd[n] # None,
           conn[cmd[n]].internal # None
    PROVE  Operable(conn[cmd[n]].internal)
<1>1. cmd[n] \in Live
  BY DEF SessionInv, OneCommandPerSession
<1> QED
  BY <1>1 DEF StatementInv, StatementsTied, Live, Operable

\* A command on a script's handle finds it operable, or finds the statement
\* of an ended connection.
LEMMA HandleIsOperableOrOutlived ==
    ASSUME TypeOK, SessionInv, StatementInv, NEW o \in Obj, rep[o] # None
    PROVE  /\ stmt[rep[o]].state = "live"
           /\ stmt[rep[o]].handle = "open" \/ Outlived(rep[o])
<1>1. PICK s \in Stmt : s = rep[o]
  BY DEF TypeOK
<1>2. stmt[s].state = "live" /\ \A c \in Conn : conn[c].internal # s
  BY <1>1 DEF StatementInv, HandlesAreLive
<1>3. stmt[s].handle # "none"
  BY <1>2 DEF StatementInv, StatementsTied
<1>4. stmt[s].handle \in {"none", "open", "stale"}
  BY DEF TypeOK, StmtType
<1> QED
  BY <1>1, <1>2, <1>3, <1>4 DEF StatementInv, StatementsTied

LEMMA UseKeepsStatements ==
    ASSUME TypeOK, SessionInv, StatementInv,
           NEW n \in Name, ImplicitUse(n) \/ \E o \in Obj : HandleUse(n, o)
    PROVE  StatementInv'
<1>1. /\ stmt' = stmt /\ conn' = conn /\ rep' = rep /\ dups' = dups /\ Running
      /\ stack' = stack
  BY DEF ImplicitUse, HandleUse, Uses
<1>2. StatementsTied' /\ RefsCounted' /\ HandlesAreLive'
  BY <1>1 DEF StatementInv, StatementsTied, RefsCounted, HandlesAreLive, Held, Live, Outlived
<1>3. OnlyInternalOrDuplicatedLeak'
  BY <1>1 DEF StatementInv, OnlyInternalOrDuplicatedLeak, Running, Held
<1>4. FaultsNeedAnOutlivedStatement'
  <2>1. CASE ImplicitUse(n)
    BY <2>1, InternalIsOperable DEF ImplicitUse, Uses, FaultsNeedAnOutlivedStatement
  <2>2. ASSUME NEW o \in Obj, HandleUse(n, o) PROVE FaultsNeedAnOutlivedStatement'
    <3>1. rep[o] \in Stmt
      BY <2>2 DEF HandleUse, TypeOK
    <3>2. fault' = "none" \/ (fault' = "deadHandle" /\ Outlived(rep[o]))
      BY <2>2, HandleIsOperableOrOutlived DEF HandleUse, Uses, Operable
    <3>3. \A s \in Stmt : Outlived(s)' <=> Outlived(s)
      BY <1>1 DEF Outlived
    <3> QED
      BY <3>1, <3>2, <3>3 DEF FaultsNeedAnOutlivedStatement
  <2> QED
    BY <2>1, <2>2
<1>5. StackTied'
  BY <1>1, StackKept DEF StatementInv
<1> QED
  BY <1>2, <1>3, <1>4, <1>5 DEF StatementInv

\* A suspended command finds its statement operable, unless a trace has taken it
\* away or ended the connection it was created for.
LEMMA FrameIsOperableOrDisturbed ==
    ASSUME TypeOK, SessionInv, StatementInv, NEW i \in DOMAIN stack
    PROVE  /\ stack[i] \in Frame
           /\ Operable(stack[i].stmt) \/ Outlived(stack[i].stmt) \/ Disturbed(stack[i])
<1> DEFINE f == stack[i]
<1>1. f \in Frame /\ f.stmt \in Stmt /\ f.obj \in Obj \cup {None}
  BY StackSteps DEF TypeOK, Frame
<1>2. CASE f.obj = None
  <2>1. PICK c \in Conn : conn[c].internal = f.stmt
    BY <1>2 DEF StatementInv, StackTied
  <2>2. CASE c \in Live
    BY <1>1, <2>1, <2>2, NoneAssumption DEF StatementInv, StatementsTied, Operable
  <2>3. CASE c \notin Live
    BY <1>1, <1>2, <2>1, <2>3 DEF Disturbed
  <2> QED
    BY <1>1, <2>2, <2>3
<1>3. CASE f.obj # None /\ rep[f.obj] = f.stmt
  <2>1. f.obj \in Obj /\ rep[f.obj] # None
    BY <1>1, <1>3, NoneAssumption
  <2> QED
    BY <1>1, <1>3, <2>1, HandleIsOperableOrOutlived DEF Operable
<1>4. CASE f.obj # None /\ rep[f.obj] # f.stmt
  BY <1>1, <1>4 DEF Disturbed
<1> QED
  BY <1>1, <1>2, <1>3, <1>4

LEMMA SuspensionKeepsStatements ==
    ASSUME TypeOK, SessionInv, StatementInv,
           \/ \E n \in Name : ImplicitStarts(n) \/ \E o \in Obj : HandleStarts(n, o)
           \/ Resume
    PROVE  StatementInv'
<1>1. stmt' = stmt /\ conn' = conn /\ rep' = rep /\ dups' = dups /\ fault = "none"
  BY DEF ImplicitStarts, HandleStarts, Starts, Resume, Running
<1>2. StatementsTied' /\ RefsCounted' /\ HandlesAreLive'
  BY <1>1 DEF StatementInv, StatementsTied, RefsCounted, HandlesAreLive, Held, Live, Outlived
<1>3. OnlyInternalOrDuplicatedLeak'
  BY <1>1 DEF StatementInv, OnlyInternalOrDuplicatedLeak, Running, Held
<1>4. ASSUME NEW f \in Frame, stack' = Append(stack, f), fault' = fault,
             IF f.obj = None THEN \E c \in Conn : conn[c].internal = f.stmt
                             ELSE rep[f.obj] \in {f.stmt, None}
      PROVE  StackTied' /\ FaultsNeedAnOutlivedStatement'
  <2>1. \A i \in DOMAIN stack' : stack'[i] = f \/ \E j \in DOMAIN stack : stack'[i] = stack[j]
    BY <1>4, StackSteps DEF TypeOK
  <2>2. StackTied'
    BY <1>1, <1>4, <2>1 DEF StatementInv, StackTied
  <2> QED
    BY <1>1, <1>4, <2>2 DEF FaultsNeedAnOutlivedStatement
<1>5. ASSUME NEW n \in Name, ImplicitStarts(n) PROVE StackTied' /\ FaultsNeedAnOutlivedStatement'
  <2>1. cmd[n] \in Conn /\ conn[cmd[n]].internal \in Stmt
    BY <1>5 DEF ImplicitStarts, TypeOK, ConnType
  <2> DEFINE f == [stmt |-> conn[cmd[n]].internal, obj |-> None]
  <2>2. f \in Frame /\ f.obj = None /\ conn[cmd[n]].internal = f.stmt
    BY <2>1 DEF Frame
  <2>3. stack' = Append(stack, f) /\ fault' = fault
    BY <1>5 DEF ImplicitStarts, Starts
  <2> HIDE DEF f
  <2> QED
    BY <1>4, <2>1, <2>2, <2>3
<1>6. ASSUME NEW n \in Name, NEW o \in Obj, HandleStarts(n, o)
      PROVE  StackTied' /\ FaultsNeedAnOutlivedStatement'
  <2> DEFINE f == [stmt |-> rep[o], obj |-> o]
  <2>1. f \in Frame /\ f.obj = o /\ rep[o] = f.stmt /\ o # None
    BY <1>6, NoneAssumption DEF Frame, HandleStarts, TypeOK
  <2>2. stack' = Append(stack, f) /\ fault' = fault
    BY <1>6 DEF HandleStarts, Starts
  <2> HIDE DEF f
  <2> QED
    BY <1>4, <2>1, <2>2
<1>7. ASSUME Resume PROVE StackTied' /\ FaultsNeedAnOutlivedStatement'
  <2>1. stack # <<>> /\ stack' \in {stack, Front(stack)}
    BY <1>7 DEF Resume
  <2>2. \A i \in DOMAIN stack' : \E j \in DOMAIN stack : stack'[i] = stack[j]
    BY <2>1, StackSteps DEF TypeOK
  <2>3. StackTied'
    BY <1>1, <2>2 DEF StatementInv, StackTied
  <2>4. PICK i \in DOMAIN stack : Last(stack) = stack[i]
    BY <2>1, StackSteps DEF TypeOK
  <2>5. \/ fault' = "none"
        \/ /\ fault' = "interrupted" /\ stack' = stack
           /\ Outlived(Last(stack).stmt) \/ Disturbed(Last(stack))
    BY <1>7, <2>4, FrameIsOperableOrDisturbed DEF Resume
  <2>6. /\ Outlived(Last(stack).stmt)' <=> (stmt[Last(stack').stmt].owner # None
                /\ conn[stmt[Last(stack').stmt].owner].state = "deleted")
        /\ Disturbed(Last(stack))' <=> \/ Last(stack').obj = None /\ \E c \in Conn \ Live : conn[c].internal = Last(stack').stmt
                                       \/ Last(stack').obj # None /\ rep[Last(stack').obj] # Last(stack').stmt
    BY <1>1 DEF Outlived, Disturbed, Live
  <2>7. FaultsNeedAnOutlivedStatement'
    BY <2>1, <2>5, <2>6 DEF FaultsNeedAnOutlivedStatement, Outlived, Disturbed
  <2> QED
    BY <2>3, <2>7
<1> QED
  BY <1>2, <1>3, <1>5, <1>6, <1>7 DEF StatementInv

LEMMA DuplicateKeepsStatements ==
    ASSUME TypeOK, SessionInv, StatementInv, NEW o \in Obj, Duplicate(o)
    PROVE  StatementInv'
<1> USE NoneAssumption
<1>1. PICK s \in Stmt : s = rep[o]
  BY DEF Duplicate, TypeOK
<1>2. /\ conn' = conn /\ rep' = rep /\ fault' = fault /\ Running
      /\ \A t \in Stmt : t # s => stmt'[t] = stmt[t] /\ dups'[t] = dups[t]
      /\ dups'[s] = dups[s] + 1 /\ stmt'[s].refs = stmt[s].refs + 1
      /\ \A t \in Stmt : /\ stmt'[t].state = stmt[t].state
                         /\ stmt'[t].owner = stmt[t].owner
                         /\ stmt'[t].handle = stmt[t].handle
  BY <1>1 DEF Duplicate, TypeOK, StmtType
<1>3. stmt[s].state = "live"
  BY <1>1 DEF Duplicate, StatementInv, HandlesAreLive
<1>4. Live' = Live /\ \A t \in Stmt : (Outlived(t)' <=> Outlived(t)) /\ (Held(t)' <=> Held(t))
  BY <1>2 DEF Live, Outlived, Held
<1>5. StatementsTied'
  <2>1. \A t \in Stmt : stmt'[t].state = "unused" => dups'[t] = 0
    BY <1>2, <1>3 DEF StatementInv, StatementsTied
  <2>2. \A t \in Stmt :
          /\ stmt'[t].state # "live" => stmt'[t].handle = "none"
          /\ stmt'[t].handle = "none" <=> stmt'[t].owner = None
          /\ stmt'[t].handle = "open" => stmt'[t].owner \in Live'
          /\ stmt'[t].handle = "stale" => Outlived(t)'
          /\ (stmt'[t].state = "live" /\ stmt'[t].handle = "none") =>
                \E c \in Conn : conn'[c].internal = t
    BY <1>2, <1>4 DEF StatementInv, StatementsTied
  <2>3. \A c \in Conn : conn[c].internal # None => conn[c].internal \in Stmt
    BY DEF TypeOK, ConnType
  <2> QED
    BY <1>2, <1>4, <2>1, <2>2, <2>3 DEF StatementInv, StatementsTied
<1>6. RefsCounted'
  <2>1. stmt'[s].refs = (IF Held(s)' THEN 1 ELSE 0) + dups'[s]
    <3>1. stmt[s].refs = (IF Held(s) THEN 1 ELSE 0) + dups[s]
      BY <1>3 DEF StatementInv, RefsCounted
    <3>2. dups[s] \in Int
      BY FiniteAssumption DEF TypeOK
    <3> QED
      BY <1>2, <1>4, <3>1, <3>2
  <2> QED
    BY <1>2, <1>4, <2>1 DEF StatementInv, RefsCounted
<1>7. HandlesAreLive'
  BY <1>2 DEF StatementInv, HandlesAreLive, TypeOK
<1>8. OnlyInternalOrDuplicatedLeak'
  <2>1. dups'[s] > 0
    BY <1>2, FiniteAssumption DEF TypeOK
  <2> QED
    BY <1>2, <1>4, <2>1 DEF StatementInv, OnlyInternalOrDuplicatedLeak, Running
<1>9. FaultsNeedAnOutlivedStatement'
  BY <1>2 DEF FaultsNeedAnOutlivedStatement, Running
<1>s. StackTied'
  BY <1>2, StackKept DEF Duplicate, StatementInv
<1> QED
  BY <1>s, <1>5, <1>6, <1>7, <1>8, <1>9 DEF StatementInv

LEMMA FreeIntRepKeepsStatements ==
    ASSUME TypeOK, SessionInv, StatementInv, NEW o \in Obj, FreeIntRep(o)
    PROVE  StatementInv'
<1> USE NoneAssumption
<1>1. PICK s \in Stmt : s = rep[o]
  BY DEF FreeIntRep, TypeOK
<1> DEFINE r == DropRef(stmt[s])
<1>2. /\ rep'[o] = None /\ \A p \in Obj : p # o => rep'[p] = rep[p]
      /\ dups' = dups /\ Running /\ rep[o] # None
  BY DEF FreeIntRep, TypeOK
<1>3. /\ stmt[s].state = "live"
      /\ \A p \in Obj : rep[p] = s => p = o
      /\ \A c \in Conn : conn[c].internal # s
  BY <1>1, <1>2 DEF StatementInv, HandlesAreLive
<1>4. Held(s) /\ ~ Held(s)' /\ \A t \in Stmt : t # s => (Held(t)' <=> Held(t))
  BY <1>1, <1>2, <1>3 DEF Held
<1>5. dups[s] \in Nat
  BY FiniteAssumption DEF TypeOK
<1>6. /\ r.state = "live" /\ r.owner = stmt[s].owner /\ r.handle = stmt[s].handle
      /\ r.refs = dups[s]
  <2>1. stmt[s].refs = 1 + dups[s]
    BY <1>3, <1>4 DEF StatementInv, RefsCounted
  <2> QED
    BY <1>3, <1>5, <2>1 DEF DropRef, TypeOK, StmtType
<1>s. StackTied'
  BY <1>1, <1>2, StackKept, Types DEF FreeIntRep, StatementInv, Typed, ConnType
<1>7. HandlesAreLive' /\ StatementInv'
  <2>1. CASE ~ IsLast(r) \/ Outlived(s)
    <3>1. stmt' = [stmt EXCEPT ![s] = r] /\ conn' = conn
      BY <1>1, <2>1 DEF FreeIntRep
    <3>2. /\ \A t \in Stmt : t # s => stmt'[t] = stmt[t]
          /\ \A t \in Stmt : /\ stmt'[t].state = stmt[t].state
                             /\ stmt'[t].owner = stmt[t].owner
                             /\ stmt'[t].handle = stmt[t].handle
          /\ stmt'[s].refs = dups[s]
      BY <1>3, <1>6, <3>1 DEF TypeOK
    <3>3. Live' = Live /\ \A t \in Stmt : Outlived(t)' <=> Outlived(t)
      BY <3>1, <3>2 DEF Live, Outlived
    <3>4. StatementsTied'
      <4>1. \A c \in Conn : conn[c].internal # None => conn[c].internal \in Stmt
        BY DEF TypeOK, ConnType
      <4> QED
        BY <1>2, <3>1, <3>2, <3>3, <4>1 DEF StatementInv, StatementsTied
    <3>5. RefsCounted'
      BY <1>2, <1>4, <1>5, <3>2 DEF StatementInv, RefsCounted
    <3>6. HandlesAreLive'
      BY <1>2, <1>3, <3>1, <3>2, Types DEF StatementInv, HandlesAreLive, Typed
    <3>7. OnlyInternalOrDuplicatedLeak'
      <4>1. CASE IsLast(r)
        BY <1>1, <2>1, <4>1 DEF FreeIntRep, OnlyInternalOrDuplicatedLeak, Running
      <4>2. CASE ~ IsLast(r)
        <5>1. dups[s] > 0
          BY <1>5, <1>6, <4>2 DEF IsLast
        <5> QED
          BY <1>2, <1>4, <3>1, <3>2, <5>1 DEF StatementInv, OnlyInternalOrDuplicatedLeak
      <4> QED
        BY <4>1, <4>2
    <3>8. FaultsNeedAnOutlivedStatement'
      <4>1. \/ fault' = fault
            \/ fault' = "deadConn" /\ Outlived(s)
        BY <1>1 DEF FreeIntRep
      <4> QED
        BY <1>2, <3>3, <4>1 DEF FaultsNeedAnOutlivedStatement, Running
    <3> QED
      BY <1>s, <3>4, <3>5, <3>6, <3>7, <3>8 DEF StatementInv
  <2>2. CASE IsLast(r) /\ ~ Outlived(s)
    <3>1. /\ stmt' = [stmt EXCEPT ![s] = Delete(r)] /\ fault' = fault
          /\ \A c \in Conn : /\ conn'[c].tracked = conn[c].tracked \ {s}
                                \/ conn'[c].tracked = conn[c].tracked
                             /\ conn'[c].state = conn[c].state
                             /\ conn'[c].internal = conn[c].internal
      BY <1>1, <2>2, Types DEF FreeIntRep, Typed, ConnType
    <3>2. /\ stmt'[s].state = "deleted" /\ stmt'[s].owner = None /\ stmt'[s].handle = "none"
          /\ \A t \in Stmt : t # s => stmt'[t] = stmt[t]
      <4>1. r \in StmtType
        BY StmtOperators DEF TypeOK
      <4>2. r.owner # None
        <5>1. stmt[s].handle # "none"
          BY <1>3 DEF StatementInv, StatementsTied
        <5> QED
          BY <1>6, <5>1 DEF StatementInv, StatementsTied
      <4>3. /\ Delete(r).state = "deleted"
            /\ Delete(r).owner = None
            /\ Delete(r).handle = "none"
        BY <4>1, <4>2 DEF Delete, ReleaseDatabaseHandles, StmtType
      <4> QED
        BY <3>1, <4>3 DEF TypeOK
    <3>3. Live' = Live /\ \A t \in Stmt : t # s => (Outlived(t)' <=> Outlived(t))
      <4>1. Live' = Live
        BY <3>1 DEF Live
      <4>2. \A t \in Stmt : t # s => (Outlived(t)' <=> Outlived(t))
        BY <3>1, <3>2 DEF Outlived, TypeOK, StmtType
      <4> QED
        BY <4>1, <4>2
    <3>4. StatementsTied'
      <4>1. \A c \in Conn : conn[c].internal # None => conn[c].internal \in Stmt \ {s}
        BY <1>3 DEF TypeOK, ConnType
      <4>2. \A c \in Conn : conn'[c].tracked = {}
        BY <3>1 DEF StatementInv, StatementsTied
      <4> QED
        BY <1>2, <3>1, <3>2, <3>3, <4>1, <4>2 DEF StatementInv, StatementsTied
    <3>5. RefsCounted'
      BY <1>2, <1>4, <3>2 DEF StatementInv, RefsCounted
    <3>6. HandlesAreLive'
      BY <1>2, <1>3, <3>1, <3>2, Types DEF StatementInv, HandlesAreLive, Typed
    <3>7. OnlyInternalOrDuplicatedLeak'
      BY <1>2, <1>4, <3>1, <3>2 DEF StatementInv, OnlyInternalOrDuplicatedLeak
    <3>8. FaultsNeedAnOutlivedStatement'
      BY <1>2, <3>1 DEF FaultsNeedAnOutlivedStatement, Running
    <3> QED
      BY <1>s, <3>4, <3>5, <3>6, <3>7, <3>8 DEF StatementInv
  <2> QED
    BY <2>1, <2>2 DEF StatementInv
<1> QED
  BY <1>7

LEMMA StatementNext == TypeOK /\ SessionInv /\ StatementInv /\ [Next]_vars => StatementInv'
<1> SUFFICES ASSUME TypeOK, SessionInv, StatementInv, [Next]_vars PROVE StatementInv'
  OBVIOUS
<1>1. ASSUME DeleteSdbCommand \/ UNCHANGED vars PROVE StatementInv'
  <2>1. /\ stmt' = stmt /\ conn' = conn /\ rep' = rep /\ dups' = dups /\ fault' = fault
        /\ stack' = stack
    BY <1>1 DEF DeleteSdbCommand, vars
  <2>2. \A s \in Stmt : (Outlived(s)' <=> Outlived(s)) /\ (Held(s)' <=> Held(s))
    BY <2>1 DEF Outlived, Held
  <2>3. StatementsTied' /\ RefsCounted' /\ HandlesAreLive'
    BY <2>1, <2>2 DEF StatementInv, StatementsTied, RefsCounted, HandlesAreLive, Live
  <2>4. OnlyInternalOrDuplicatedLeak' /\ FaultsNeedAnOutlivedStatement'
    BY <2>1, <2>2
    DEF StatementInv, OnlyInternalOrDuplicatedLeak, FaultsNeedAnOutlivedStatement, Running,
        Disturbed, Live, Outlived
  <2>5. StackTied'
    BY <2>1, StackKept DEF StatementInv
  <2> QED
    BY <2>3, <2>4, <2>5 DEF StatementInv
<1> QED
  BY <1>1, ConnectKeepsStatements, DisconnectKeepsStatements, NewStatementKeepsStatements,
     FailedStatementKeepsStatements, FirstImplicitUseKeepsStatements, UseKeepsStatements,
     SuspensionKeepsStatements, DuplicateKeepsStatements, FreeIntRepKeepsStatements
  DEF Next

Inv == TypeOK /\ SessionInv /\ StatementInv

LEMMA Invariance == Spec => []Inv
<1>1. Init => Inv
  BY TypeInit, SessionInit, StatementInit DEF Inv
<1>2. Inv /\ [Next]_vars => Inv'
  BY TypeNext, SessionNext, StatementNext DEF Inv
<1> QED
  BY <1>1, <1>2, PTL DEF Spec

\* The counts of statements are exact: one for the value that holds the
\* statement and one for each duplicate that will never give it back.
THEOREM StatementsCounted == Spec => []RefsCounted
<1>1. Inv => RefsCounted
  BY DEF Inv, StatementInv
<1> QED
  BY <1>1, Invariance, PTL

\* The statement in a value is alive and in no other value, so that none is
\* deleted while a script can still name it.
THEOREM HandlesStayLive == Spec => []HandlesAreLive
<1>1. Inv => HandlesAreLive
  BY DEF Inv, StatementInv
<1> QED
  BY <1>1, Invariance, PTL

\* No usable SQLDBC statement is left to a deleted object or an ended session.
THEOREM OpenHandlesCorrect == Spec => []OpenHandlesHaveSessions
<1>1. Inv => OpenHandlesHaveSessions
  BY DEF Inv, SessionInv, OneCommandPerSession, StatementInv, StatementsTied,
         OpenHandlesHaveSessions
<1> QED
  BY <1>1, Invariance, PTL

\* The statement objects nothing reaches any more are internal or were duplicated.
THEOREM LeaksAreKnown == Spec => []OnlyInternalOrDuplicatedLeak
<1>1. Inv => OnlyInternalOrDuplicatedLeak
  BY DEF Inv, StatementInv
<1> QED
  BY <1>1, Invariance, PTL

\* Whatever a script does, an object is used after its end only through a statement
\* that outlived its connection, or by a command whose trace has taken it away.
THEOREM FaultsExplained == Spec => []FaultsNeedAnOutlivedStatement
<1>1. Inv => FaultsNeedAnOutlivedStatement
  BY DEF Inv, StatementInv
<1> QED
  BY <1>1, Invariance, PTL

----------------------------------------------------------------------------
(* Careful scripts. *)

\* No value holds the statement of an ended connection, and every suspended command
\* still has the statement it was called with.
CarefulInv ==
    /\ fault = "none"
    /\ \A o \in Obj : rep[o] # None => ~ Outlived(rep[o])
    /\ \A i \in DOMAIN stack : ~ Disturbed(stack[i])

LEMMA FrameIsOperable ==
    ASSUME Inv, CarefulInv, NEW i \in DOMAIN stack
    PROVE  /\ stack[i] \in Frame
           /\ Operable(stack[i].stmt)
           /\ stack[i].obj # None => stack[i].obj \in Obj /\ rep[stack[i].obj] = stack[i].stmt
           /\ stack[i].obj = None => \E c \in Live : conn[c].internal = stack[i].stmt
<1> DEFINE f == stack[i]
<1>a. TypeOK /\ SessionInv /\ StatementInv
  BY DEF Inv
<1>1. f \in Frame /\ f.stmt \in Stmt /\ f.obj \in Obj \cup {None} /\ ~ Disturbed(f)
  BY <1>a, StackSteps DEF TypeOK, Frame, CarefulInv
<1>2. CASE f.obj = None
  <2>1. PICK c \in Conn : conn[c].internal = f.stmt
    BY <1>a, <1>2 DEF StatementInv, StackTied
  <2>2. c \in Live
    BY <1>1, <1>2, <2>1 DEF Disturbed
  <2>3. Operable(f.stmt)
    BY <1>1, <1>a, <2>1, <2>2, NoneAssumption DEF StatementInv, StatementsTied, Operable
  <2> QED
    BY <1>1, <1>2, <2>1, <2>2, <2>3
<1>3. CASE f.obj # None
  <2>1. f.obj \in Obj /\ rep[f.obj] = f.stmt
    BY <1>1, <1>3 DEF Disturbed
  <2>2. rep[f.obj] # None /\ ~ Outlived(f.stmt)
    BY <1>1, <2>1, NoneAssumption DEF CarefulInv
  <2>3. Operable(f.stmt)
    BY <1>a, <2>1, <2>2, HandleIsOperableOrOutlived DEF Operable
  <2> QED
    BY <1>1, <1>3, <2>1, <2>3
<1> QED
  BY <1>2, <1>3

\* The commands of careful scripts keep their statements: their handles are not
\* converted, and their connections not ended.
LEMMA StackIsKept ==
    ASSUME Inv, CarefulInv, Inv', CarefulNext, UNCHANGED stack,
           \A c \in Conn : conn[c].internal # None => conn'[c].internal = conn[c].internal
    PROVE  (\A i \in DOMAIN stack : ~ Disturbed(stack[i]))'
<1> SUFFICES ASSUME NEW i \in DOMAIN stack PROVE ~ Disturbed(stack[i])'
  OBVIOUS
<1> DEFINE f == stack[i]
<1>1. stack' = stack /\ RunningUndisturbed
  BY DEF CarefulNext
<1>2. /\ f \in Frame /\ f.stmt \in Stmt
      /\ f.obj # None => rep[f.obj] = f.stmt
      /\ f.obj = None => \E c \in Live : conn[c].internal = f.stmt
  BY FrameIsOperable DEF Frame
<1>3. CASE f.obj # None
  <2>1. rep'[f.obj] = rep[f.obj]
    BY <1>1, <1>3 DEF RunningUndisturbed
  <2> QED
    BY <1>1, <1>2, <1>3, <2>1 DEF Disturbed
<1>4. CASE f.obj = None
  <2>1. PICK c \in Live : conn[c].internal = f.stmt
    BY <1>2, <1>4
  <2>2. c \in Conn /\ stmt[f.stmt].owner = c
    BY <1>2, <2>1, NoneAssumption DEF Inv, StatementInv, StatementsTied, Live
  <2>3. conn'[c].state = "live" /\ conn'[c].internal = f.stmt
    BY <1>1, <1>2, <1>4, <2>1, <2>2, NoneAssumption DEF RunningUndisturbed
  <2>4. \A d \in Conn : conn'[d].internal = f.stmt => conn'[d].state = "live"
    <3>1. stmt'[f.stmt].owner = c /\ c \in Live'
      BY <1>2, <2>2, <2>3, NoneAssumption DEF Inv, StatementInv, StatementsTied, Live
    <3>2. ASSUME NEW d \in Conn, conn'[d].internal = f.stmt, d \notin Live' PROVE FALSE
      BY <1>2, <2>2, <2>3, <3>1, <3>2, NoneAssumption DEF Inv, StatementInv, StatementsTied
    <3> QED
      BY <3>2 DEF Live
  <2> QED
    BY <1>1, <1>4, <2>4 DEF Disturbed, Live
<1> QED
  BY <1>3, <1>4

\* A command that is suspended now has just found its statement operable.
LEMMA StackIsPushed ==
    ASSUME Inv, CarefulInv, NEW f \in Frame, stack' = Append(stack, f), ~ Disturbed(f),
           UNCHANGED <<conn, rep>>
    PROVE  (\A i \in DOMAIN stack : ~ Disturbed(stack[i]))'
<1>1. \A i \in DOMAIN stack' : stack'[i] = f \/ \E j \in DOMAIN stack : stack'[i] = stack[j]
  BY StackSteps DEF Inv, TypeOK
<1>2. \A i \in DOMAIN stack' : ~ Disturbed(stack'[i])
  BY <1>1 DEF CarefulInv
<1> QED
  BY <1>2 DEF Disturbed, Live

LEMMA CarefulStep ==
    ASSUME Inv, CarefulInv, Inv', [CarefulNext]_vars
    PROVE  CarefulInv'
<1> USE NoneAssumption
<1>a. TypeOK /\ SessionInv /\ StatementInv
  BY DEF Inv
<1>b. \A s \in Stmt : stmt[s].owner # None =>
         stmt[s].owner \in Conn /\ conn[stmt[s].owner].state # "unused"
  BY <1>a DEF StatementInv, StatementsTied, Outlived, Live, TypeOK, StmtType
<1>c. \A o \in Obj : rep[o] # None => rep[o] \in Stmt
  BY <1>a DEF TypeOK
<1>d. ASSUME CarefulNext, UNCHANGED stack,
             \A c \in Conn : conn[c].internal # None => conn'[c].internal = conn[c].internal
      PROVE  (\A i \in DOMAIN stack : ~ Disturbed(stack[i]))'
  BY <1>d, StackIsKept
<1>1. ASSUME NEW n \in Name, NEW c \in Conn, CarefulNext, Connect(n, c) \/ ConnectFails(n, c)
      PROVE  CarefulInv'
  <2>1. /\ conn[c].state = "unused" /\ \A d \in Conn : d # c => conn'[d] = conn[d]
        /\ stmt' = stmt /\ rep' = rep /\ fault' = fault /\ stack' = stack
    BY <1>1, <1>a, Types DEF Connect, ConnectFails, Typed
  <2>2. conn[c].internal = None
    BY <1>a, <2>1 DEF StatementInv, StatementsTied
  <2> QED
    BY <1>b, <1>c, <1>d, <1>1, <2>1, <2>2 DEF CarefulInv, Outlived
<1>2. ASSUME NEW n \in Name, Disconnect(n), CarefulNext, HandlesDroppedFirst
      PROVE  CarefulInv'
  <2>1. rep' = rep
    BY <1>2 DEF Disconnect
  <2>2. PICK c \in Live : c = cmd[n]
    BY <1>2, <1>a DEF Disconnect, SessionInv, OneCommandPerSession
  <2>3. fault' = "none"
    <3>1. env.live
      BY <1>a, <2>2 DEF SessionInv, EnvCounted
    <3> QED
      BY <1>2, <3>1 DEF Disconnect
  <2>4. ASSUME NEW o \in Obj, rep[o] # None PROVE ~ Outlived(rep[o])'
    <3>1. PICK s \in Stmt : s = rep[o]
      BY <1>c, <2>4
    <3>2. /\ \A d \in Conn : conn[d].internal # s
          /\ stmt[s].handle = "open"
      BY <1>a, <2>4, <3>1, HandleIsOperableOrOutlived
      DEF CarefulInv, StatementInv, HandlesAreLive
    <3>3. stmt[s].owner \in Live
      BY <1>a, <3>2 DEF StatementInv, StatementsTied
    <3>4. conn'[stmt[s].owner].state = "live"
      BY <1>2, <2>4, <3>1, <3>3 DEF HandlesDroppedFirst
    <3>5. s \notin Known(c)
      BY <1>a, <2>2, <3>2 DEF Known, StatementInv, StatementsTied, Live
    <3>6. stmt'[s].owner = stmt[s].owner
      BY <1>2, <1>a, <2>2, <3>5 DEF Disconnect, AfterClose, TypeOK, StmtType
    <3> QED
      BY <2>1, <3>1, <3>4, <3>6 DEF Outlived
  <2>5. /\ stack' = stack
        /\ \A d \in Conn : conn'[d].internal = conn[d].internal
    BY <1>2, <1>a, Types DEF Disconnect, Typed, ConnType
  <2> QED
    BY <1>d, <1>2, <2>1, <2>3, <2>4, <2>5 DEF CarefulInv
<1>3. ASSUME NEW n \in Name, ImplicitUse(n) PROVE CarefulInv'
  <2>1. stmt' = stmt /\ conn' = conn /\ rep' = rep /\ fault' = "none" /\ stack' = stack
    BY <1>3, <1>a, InternalIsOperable DEF ImplicitUse, Uses
  <2> QED
    BY <2>1 DEF CarefulInv, Outlived, Disturbed, Live
<1>3a. ASSUME NEW n \in Name, ImplicitStarts(n) PROVE CarefulInv'
  <2>1. cmd[n] \in Live /\ cmd[n] \in Conn /\ conn[cmd[n]].internal \in Stmt
    BY <1>3a, <1>a, Types
    DEF ImplicitStarts, SessionInv, OneCommandPerSession, Live, Typed, ConnType
  <2> DEFINE f == [stmt |-> conn[cmd[n]].internal, obj |-> None]
  <2>2. f \in Frame /\ f.obj = None /\ f.stmt = conn[cmd[n]].internal
    BY <2>1 DEF Frame
  <2>3. stack' = Append(stack, f) /\ UNCHANGED <<conn, rep, stmt, fault>>
    BY <1>3a DEF ImplicitStarts, Starts
  <2> HIDE DEF f
  <2>4. ~ Disturbed(f)
    <3>1. stmt[f.stmt].owner = cmd[n]
      BY <1>a, <2>1, <2>2 DEF StatementInv, StatementsTied
    <3>2. \A d \in Conn \ Live : conn[d].internal # f.stmt
      BY <1>a, <2>1, <2>2, <3>1 DEF StatementInv, StatementsTied
    <3> QED
      BY <2>2, <3>2 DEF Disturbed
  <2>5. (\A i \in DOMAIN stack : ~ Disturbed(stack[i]))'
    BY <2>2, <2>3, <2>4, StackIsPushed
  <2> QED
    BY <2>3, <2>5 DEF CarefulInv, Outlived
<1>4. ASSUME NEW n \in Name, NEW o \in Obj, HandleUse(n, o) PROVE CarefulInv'
  <2>1. stmt[rep[o]].state = "live" /\ stmt[rep[o]].handle = "open"
    BY <1>4, <1>a, HandleIsOperableOrOutlived DEF HandleUse, CarefulInv
  <2>2. stmt' = stmt /\ conn' = conn /\ rep' = rep /\ fault' = "none" /\ stack' = stack
    BY <1>4, <2>1 DEF HandleUse, Uses, Operable
  <2> QED
    BY <2>2 DEF CarefulInv, Outlived, Disturbed, Live
<1>4a. ASSUME NEW n \in Name, NEW o \in Obj, HandleStarts(n, o) PROVE CarefulInv'
  <2> DEFINE f == [stmt |-> rep[o], obj |-> o]
  <2>1. f \in Frame /\ f.obj = o /\ f.stmt = rep[o]
    BY <1>4a, <1>c DEF HandleStarts, Frame
  <2>2. stack' = Append(stack, f) /\ UNCHANGED <<conn, rep, stmt, fault>>
    BY <1>4a DEF HandleStarts, Starts
  <2> HIDE DEF f
  <2>3. ~ Disturbed(f)
    BY <2>1 DEF Disturbed
  <2>4. (\A i \in DOMAIN stack : ~ Disturbed(stack[i]))'
    BY <2>1, <2>2, <2>3, StackIsPushed
  <2> QED
    BY <2>2, <2>4 DEF CarefulInv, Outlived
<1>4b. ASSUME Resume PROVE CarefulInv'
  <2>1. stack # <<>> /\ stmt' = stmt /\ conn' = conn /\ rep' = rep
    BY <1>4b DEF Resume
  <2>2. PICK i \in DOMAIN stack : Last(stack) = stack[i]
    BY <1>a, <2>1, StackSteps DEF TypeOK
  <2>3. Operable(Last(stack).stmt)
    BY <2>2, FrameIsOperable
  <2>4. fault' = "none" /\ stack' = Front(stack)
    BY <1>4b, <2>3 DEF Resume
  <2>5. \A j \in DOMAIN stack' : ~ Disturbed(stack'[j])
    BY <1>a, <2>1, <2>4, StackSteps DEF TypeOK, CarefulInv
  <2> QED
    BY <2>1, <2>4, <2>5 DEF CarefulInv, Outlived, Disturbed, Live
<1>5. ASSUME NEW n \in Name, NEW s \in Stmt, NEW o \in Obj, CarefulNext,
             NewStatement(n, s, o) \/ Prepare(n, s, o)
      PROVE  CarefulInv'
  <2>1. PICK c \in Live : c = cmd[n]
    BY <1>5, <1>a DEF NewStatement, Prepare, SessionInv, OneCommandPerSession
  <2>2. /\ stmt'[s].owner = c /\ \A t \in Stmt : t # s => stmt'[t] = stmt[t]
        /\ rep'[o] = s /\ \A p \in Obj : p # o => rep'[p] = rep[p]
        /\ conn' = conn /\ fault' = fault /\ stack' = stack /\ stmt[s].state = "unused"
    BY <1>5, <1>a, <2>1, Types
    DEF NewStatement, Prepare, Created, NewStmt, NewPrepStmt, Typed
  <2>3. /\ stmt'[s].owner \in Live /\ ~ Outlived(s)'
        /\ \A t \in Stmt : t # s => (Outlived(t)' <=> Outlived(t))
    BY <2>1, <2>2 DEF Outlived, Live
  <2>4. (\A p \in Obj : rep[p] # None => ~ Outlived(rep[p]))'
    <3>1. ASSUME NEW p \in Obj, rep'[p] # None PROVE ~ Outlived(rep[p])'
      <4>1. CASE p = o
        BY <2>2, <2>3, <4>1 DEF Outlived
      <4>2. CASE p # o
        <5>1. PICK t \in Stmt : t = rep[p] /\ rep'[p] = t
          BY <1>c, <2>2, <3>1, <4>2
        <5>2. t # s
          BY <1>a, <2>2, <4>2, <5>1, UnusedIsFree DEF Held
        <5> QED
          BY <2>2, <3>1, <4>2, <5>1, <5>2 DEF CarefulInv, Outlived
      <4> QED
        BY <4>1, <4>2
    <3> QED
      BY <3>1
  <2> QED
    BY <1>d, <1>5, <2>2, <2>4 DEF CarefulInv
<1>6. ASSUME NEW n \in Name, NEW s \in Stmt, CarefulNext,
             NewStatementFails(n, s) \/ FirstImplicitUse(n, s)
      PROVE  CarefulInv'
  <2>1. PICK c \in Live : c = cmd[n]
    BY <1>6, <1>a DEF NewStatementFails, FirstImplicitUse, SessionInv, OneCommandPerSession
  <2>2. stmt[s].state = "unused" /\ rep' = rep /\ fault' = fault /\ stack' = stack
    BY <1>6 DEF NewStatementFails, FirstImplicitUse
  <2>3. \A o \in Obj : rep[o] # s
    BY <1>a, <2>2, UnusedIsFree DEF Held
  <2>4. /\ \A t \in Stmt : t # s => stmt'[t] = stmt[t]
        /\ \A d \in Conn : /\ conn'[d].state = conn[d].state
                           /\ conn[d].internal # None => conn'[d].internal = conn[d].internal
    BY <1>6, <1>a, Types DEF NewStatementFails, FirstImplicitUse, Typed, ConnType
  <2>5. (\A i \in DOMAIN stack : ~ Disturbed(stack[i]))'
    BY <1>d, <1>6, <2>2, <2>4
  <2> QED
    BY <1>b, <1>c, <2>2, <2>3, <2>4, <2>5 DEF CarefulInv, Outlived
<1>7. ASSUME NEW o \in Obj, CarefulNext, Duplicate(o) \/ FreeIntRep(o) PROVE CarefulInv'
  <2>1. PICK s \in Stmt : s = rep[o]
    BY <1>7, <1>c DEF Duplicate, FreeIntRep
  <2>2. ~ Outlived(s) /\ rep[o] # None
    BY <1>7, <2>1 DEF CarefulInv, Duplicate, FreeIntRep
  <2>3. fault' = fault /\ \A p \in Obj : rep'[p] # None => rep'[p] = rep[p]
    BY <1>7, <1>a, <2>1, <2>2, Types DEF Duplicate, FreeIntRep, Typed
  <2>4. /\ stack' = stack
        /\ \A d \in Conn : conn'[d].state = conn[d].state /\ conn'[d].internal = conn[d].internal
    BY <1>7, <1>a, Types DEF Duplicate, FreeIntRep, Typed, ConnType
  <2>5. \A t \in Stmt : stmt'[t].owner = stmt[t].owner \/ stmt'[t].owner = None
    <3>1. DropRef(stmt[s]).owner = stmt[s].owner
      BY <1>a DEF DropRef, TypeOK, StmtType
    <3>2. LET r == DropRef(stmt[s]) IN Delete(r).owner = None
      <4>1. DropRef(stmt[s]) \in StmtType
        BY <1>a, StmtOperators DEF TypeOK
      <4> QED
        BY <4>1 DEF Delete, ReleaseDatabaseHandles, StmtType
    <3> QED
      BY <1>7, <1>a, <2>1, <3>1, <3>2, Types DEF Duplicate, FreeIntRep, Typed, StmtType
  <2>6. (\A i \in DOMAIN stack : ~ Disturbed(stack[i]))'
    BY <1>d, <1>7, <2>4
  <2> QED
    BY <1>b, <1>c, <2>3, <2>4, <2>5, <2>6 DEF CarefulInv, Outlived
<1>8. ASSUME DeleteSdbCommand \/ UNCHANGED vars PROVE CarefulInv'
  <2>1. stmt' = stmt /\ conn' = conn /\ rep' = rep /\ fault' = fault /\ stack' = stack
    BY <1>8 DEF DeleteSdbCommand, vars
  <2> QED
    BY <2>1 DEF CarefulInv, Outlived, Disturbed, Live
<1> QED
  BY <1>1, <1>2, <1>3, <1>3a, <1>4, <1>4a, <1>4b, <1>5, <1>6, <1>7, <1>8
  DEF CarefulNext, Next

LEMMA CarefulInvariance == CarefulSpec => [](Inv /\ CarefulInv)
<1>1. Init => Inv /\ CarefulInv
  BY TypeInit, SessionInit, StatementInit, EmptyStack DEF Inv, Init, CarefulInv
<1>2. [CarefulNext]_vars => [Next]_vars
  BY DEF CarefulNext
<1>3. Inv /\ CarefulInv /\ [CarefulNext]_vars => (Inv /\ CarefulInv)'
  BY <1>2, TypeNext, SessionNext, StatementNext, CarefulStep DEF Inv
<1> QED
  BY <1>1, <1>3, PTL DEF CarefulSpec

\* A script that lets go of a connection's handles before it ends the connection,
\* and takes no statement from a command it interrupts, never makes the extension
\* use a statement, a connection or an SQLDBC object after its end.
THEOREM CarefulScriptsAreSafe == CarefulSpec => []NoFault
<1>1. CarefulInv => NoFault
  BY DEF CarefulInv, NoFault
<1> QED
  BY <1>1, CarefulInvariance, PTL

LEMMA StaleStep ==
    ASSUME Inv, CarefulInv, OnlyDuplicatedGoStale, [CarefulNext]_vars
    PROVE  OnlyDuplicatedGoStale'
<1> SUFFICES ASSUME NEW s \in Stmt, stmt'[s].handle = "stale"
             PROVE  dups'[s] > 0
  BY DEF OnlyDuplicatedGoStale
<1> USE NoneAssumption
<1>a. TypeOK /\ SessionInv /\ StatementInv
  BY DEF Inv
<1>b. dups[s] \in Nat
  BY <1>a, FiniteAssumption DEF TypeOK
<1>1. CASE stmt[s].handle = "stale"
  <2>1. dups[s] > 0
    BY <1>1 DEF OnlyDuplicatedGoStale
  <2>2. dups'[s] = dups[s] \/ dups'[s] = dups[s] + 1
    BY <1>a DEF CarefulNext, Next, Connect, ConnectFails, DeleteSdbCommand, Disconnect,
       ImplicitUse, HandleUse, ImplicitStarts, HandleStarts, Uses, Starts, Resume,
       NewStatement, Prepare, Created, NewStatementFails, FirstImplicitUse,
       Duplicate, FreeIntRep, vars, TypeOK
  <2> QED
    BY <1>b, <2>1, <2>2
<1>2. ASSUME stmt[s].handle # "stale", NEW n \in Name, Disconnect(n), HandlesDroppedFirst
      PROVE  dups'[s] > 0
  <2>1. PICK c \in Live : c = cmd[n]
    BY <1>2, <1>a DEF Disconnect, SessionInv, OneCommandPerSession
  <2>2. c \in Conn /\ conn'[c].state = "deleted" /\ dups' = dups /\ Running
    BY <1>2, <1>a, <2>1 DEF Disconnect, Live, TypeOK, ConnType
  <2>3. /\ stmt[s].handle = "open" /\ stmt[s].owner = c
        /\ conn[c].internal # s
    <3>1. stmt'[s] = AfterClose(c, s)
      BY <1>2, <2>1 DEF Disconnect
    <3>2. s \notin Known(c)
      BY <1>2, <1>a, <3>1 DEF AfterClose, ReleaseDatabaseHandles, TypeOK, StmtType
    <3> QED
      BY <1>2, <1>a, <2>2, <3>1, <3>2 DEF AfterClose, Known, TypeOK, StmtType
  <2>4. \A d \in Conn : conn[d].internal # s
    BY <1>a, <2>3 DEF StatementInv, StatementsTied
  <2>5. ~ Held(s)
    BY <1>2, <2>1, <2>2, <2>3 DEF Held, HandlesDroppedFirst
  <2>6. stmt[s].state = "live"
    BY <1>a, <2>3 DEF StatementInv, StatementsTied
  <2> QED
    BY <1>a, <2>2, <2>4, <2>5, <2>6 DEF StatementInv, OnlyInternalOrDuplicatedLeak
<1>3. ASSUME stmt[s].handle # "stale", NEW n \in Name, NEW t \in Stmt,
             \/ NewStatementFails(n, t) \/ FirstImplicitUse(n, t)
             \/ \E o \in Obj : NewStatement(n, t, o) \/ Prepare(n, t, o)
      PROVE  FALSE
  <2>1. PICK c \in Conn : c = cmd[n]
    BY <1>3, <1>a, Types
    DEF NewStatementFails, FirstImplicitUse, NewStatement, Prepare, Typed
  <2>2. \/ \E k \in {0, 1} : stmt' = [stmt EXCEPT ![t] = NewStmt(c, k)]
        \/ stmt' = [stmt EXCEPT ![t] = NewPrepStmt(c, 1)]
        \/ \E r \in {Delete(NewStmt(c, 0)), DeletePrepared(NewPrepStmt(c, 0))} :
              stmt' = [stmt EXCEPT ![t] = r]
    BY <1>3, <2>1
    DEF NewStatementFails, NotPrepared, FirstImplicitUse, NewStatement, Prepare, Created
  <2>3. \A k \in {0, 1} : /\ NewStmt(c, k).handle # "stale"
                          /\ NewPrepStmt(c, k).handle # "stale"
    BY DEF NewStmt, NewPrepStmt
  <2>4. \A r \in {Delete(NewStmt(c, 0)), DeletePrepared(NewPrepStmt(c, 0))} : r.handle # "stale"
    BY FailedStatement
  <2> QED
    BY <1>3, <1>a, <2>2, <2>3, <2>4, Types DEF Typed
<1>4. ASSUME stmt[s].handle # "stale", NEW o \in Obj, Duplicate(o) PROVE FALSE
  BY <1>4, <1>a DEF Duplicate, TypeOK, StmtType
<1>5. ASSUME stmt[s].handle # "stale", NEW o \in Obj, FreeIntRep(o) PROVE FALSE
  <2>1. \A t \in Stmt : /\ DropRef(stmt[t]).handle = stmt[t].handle
                       /\ Delete(DropRef(stmt[t])).handle \in {"none", stmt[t].handle}
    <3>1. \A t \in Stmt : DropRef(stmt[t]) \in StmtType /\ DropRef(stmt[t]).handle = stmt[t].handle
      BY <1>a, Types, StmtOperators DEF DropRef, Typed, StmtType
    <3>2. \A q \in StmtType : Delete(q).handle \in {"none", q.handle}
      BY DEF Delete, ReleaseDatabaseHandles, StmtType
    <3> QED
      BY <3>1, <3>2
  <2>2. PICK t \in Stmt : t = rep[o]
    BY <1>5, <1>a DEF FreeIntRep, TypeOK
  <2>3. \/ stmt' = [stmt EXCEPT ![t] = DropRef(stmt[t])]
        \/ stmt' = [stmt EXCEPT ![t] = Delete(DropRef(stmt[t]))]
    BY <1>5, <2>2 DEF FreeIntRep
  <2>4. stmt'[s].handle \in {"none", stmt[s].handle}
    BY <1>a, <2>1, <2>2, <2>3 DEF TypeOK
  <2> QED
    BY <1>5, <2>4
<1>6. ~ UNCHANGED stmt \/ stmt[s].handle = "stale"
  OBVIOUS
<1> QED
  BY <1>1, <1>2, <1>3, <1>4, <1>5, <1>6
  DEF CarefulNext, Next, Connect, ConnectFails, DeleteSdbCommand, ImplicitUse, HandleUse,
      ImplicitStarts, HandleStarts, Uses, Starts, Resume, vars

\* For careful scripts, SQLDBC destroys a statement behind a live statement
\* object only when the object is kept by a duplicate nobody can give back.
THEOREM OnlyDuplicatesGoStale == CarefulSpec => []OnlyDuplicatedGoStale
<1>1. Init => OnlyDuplicatedGoStale
  BY DEF Init, OnlyDuplicatedGoStale
<1> QED
  BY <1>1, StaleStep, CarefulInvariance, PTL DEF CarefulSpec

----------------------------------------------------------------------------
(* Careful scripts get what SdbSessionSpec promises. *)

\* Steps the promise does not see.
LEMMA PromiseStutters ==
    ASSUME fault' = fault, stack' = stack, rep' = rep,
           \A c \in Conn : /\ conn'[c].state = conn[c].state
                          /\ conn'[c].internal = conn[c].internal,
           \A s \in Stmt : /\ stmt'[s].state = stmt[s].state
                          /\ stmt'[s].owner = stmt[s].owner
                          /\ stmt'[s].handle = stmt[s].handle
    PROVE  UNCHANGED Promise!avars
<1>1. sessionView' = sessionView /\ homeView' = homeView /\ spentView' = spentView
  BY DEF sessionView, homeView, spentView
<1>2. heldView' = heldView /\ ownView' = ownView
  BY DEF heldView, Held, ownView, Live
<1> QED
  BY <1>1, <1>2 DEF Promise!avars

\* The connections as the promise sees them when only c changes.
LEMMA SessionViewStep ==
    ASSUME NEW c \in Conn, \A d \in Conn : d # c => conn'[d].state = conn[d].state
    PROVE  sessionView' = [sessionView EXCEPT ![c] = sessionView'[c]]
BY DEF sessionView

\* So are the statements of commands without a handle.
LEMMA OwnViewStep ==
    ASSUME NEW c \in Conn, \A d \in Conn : d # c => conn'[d] = conn[d]
    PROVE  ownView' = [ownView EXCEPT ![c] = ownView'[c]]
BY DEF ownView, Live

LEMMA ConnectIsOpen ==
    ASSUME Inv, NEW n \in Name, NEW c \in Conn, Connect(n, c) \/ ConnectFails(n, c)
    PROVE  Promise!Open(c)
<1>1. /\ conn[c].state = "unused" /\ conn'[c].state \in {"live", "deleted"}
      /\ conn'[c].internal = None
      /\ \A d \in Conn : d # c => conn'[d] = conn[d]
      /\ stmt' = stmt /\ fault' = fault /\ rep' = rep /\ stack' = stack
  BY DEF Inv, Connect, ConnectFails, TypeOK, ConnType, NewConn
<1>2. sessionView[c] = "new" /\ sessionView'[c] \in {"open", "closed"}
  BY <1>1 DEF sessionView
<1>3. sessionView' = [sessionView EXCEPT ![c] = sessionView'[c]]
  BY <1>1, SessionViewStep
<1>4. ownView' = ownView
  BY <1>1 DEF ownView, Live
<1>5. UNCHANGED <<homeView, heldView, spentView, stack, fault # "none">>
  BY <1>1 DEF homeView, heldView, Held, spentView
<1> QED
  BY <1>2, <1>3, <1>4, <1>5 DEF Promise!Open

LEMMA DisconnectIsClose ==
    ASSUME Inv, NEW n \in Name, Disconnect(n), HandlesDroppedFirst, RunningUndisturbed
    PROVE  \E c \in Conn : Promise!Close(c)
<1> USE NoneAssumption
<1>a. TypeOK /\ SessionInv /\ StatementInv
  BY DEF Inv
<1>1. PICK c \in Live : c = cmd[n]
  BY <1>a DEF Disconnect, SessionInv, OneCommandPerSession
<1>2. c \in Conn /\ conn[c].state = "live" /\ fault = "none" /\ fault' = "none"
  <2>1. env.live
    BY <1>a, <1>1 DEF SessionInv, EnvCounted
  <2> QED
    BY <1>1, <2>1 DEF Live, Disconnect, Running
<1>3. /\ conn'[c].state = "deleted" /\ \A d \in Conn : d # c => conn'[d] = conn[d]
      /\ rep' = rep /\ stack' = stack
  BY <1>a, <1>1, <1>2 DEF Disconnect, TypeOK, ConnType
<1>4. sessionView[c] = "open" /\ sessionView' = [sessionView EXCEPT ![c] = "closed"]
  BY <1>2, <1>3 DEF sessionView
<1>5. ASSUME NEW s \in Stmt
      PROVE  /\ stmt'[s].state = stmt[s].state
             /\ stmt[s].handle = "open" /\ stmt[s].owner # c =>
                   stmt'[s].handle = "open" /\ stmt'[s].owner = stmt[s].owner
             /\ stmt[s].handle = "open" /\ stmt[s].owner = c => stmt'[s].handle # "open"
             /\ stmt[s].handle # "open" => stmt'[s].handle # "open"
  <2>1. stmt'[s] = AfterClose(c, s)
    BY <1>1 DEF Disconnect
  <2>2. CASE s \in Known(c)
    <3>1. conn[c].internal = s
      BY <1>a, <1>2, <2>2 DEF Known, StatementInv, StatementsTied
    <3>2. stmt[s].owner = c
      BY <1>a, <1>1, <1>2, <3>1 DEF StatementInv, StatementsTied
    <3>3. stmt'[s].handle = "none" /\ stmt'[s].state = stmt[s].state
      BY <1>a, <1>2, <2>1, <2>2, <3>2, Types
      DEF AfterClose, ReleaseDatabaseHandles, Typed, StmtType
    <3> QED
      BY <3>2, <3>3
  <2>3. CASE s \notin Known(c)
    BY <1>a, <2>1, <2>3, Types DEF AfterClose, Typed, StmtType
  <2> QED
    BY <2>2, <2>3
<1>6. \A s \in Stmt : stmt[s].handle = "open" => stmt[s].state # "unused"
  BY <1>a DEF StatementInv, StatementsTied
<1>7. \A s \in Stmt : homeView[s] = c <=> stmt[s].handle = "open" /\ stmt[s].owner = c
  BY <1>2 DEF homeView
<1>8. \A s \in heldView \cup Promise!Unnamed : homeView[s] # c
  <2>1. ASSUME NEW s \in heldView, homeView[s] = c PROVE FALSE
    <3>1. s \in Stmt /\ \E o \in Obj : rep[o] = s
      BY DEF heldView, Held
    <3> QED
      BY <1>1, <1>3, <1>7, <2>1, <3>1 DEF HandlesDroppedFirst
  <2>2. ASSUME NEW s \in Promise!Unnamed, homeView[s] = c PROVE FALSE
    <3>1. PICK i \in DOMAIN stack : stack[i].obj = None /\ s = stack[i].stmt
      BY <2>2 DEF Promise!Unnamed
    <3>2. s \in Stmt
      BY <1>a, <3>1, StackSteps DEF TypeOK, Frame
    <3>3. conn'[stmt[s].owner].state = "live"
      BY <3>1 DEF RunningUndisturbed
    <3> QED
      BY <1>3, <1>7, <2>2, <3>2, <3>3
  <2> QED
    BY <2>1, <2>2
<1>9. homeView' = [s \in Stmt |-> IF homeView[s] = c THEN None ELSE homeView[s]]
  BY <1>2, <1>5, <1>7 DEF homeView
<1>10. spentView' = spentView \cup {s \in Stmt : homeView[s] = c}
  BY <1>5, <1>6, <1>7 DEF spentView
<1>11. ownView' = [ownView EXCEPT ![c] = None]
  BY <1>2, <1>3, OwnViewStep DEF ownView, Live
<1>12. UNCHANGED <<heldView, stack, fault # "none">>
  BY <1>2, <1>3 DEF heldView, Held
<1>13. Promise!Close(c)
  BY <1>4, <1>8, <1>9, <1>10, <1>11, <1>12 DEF Promise!Close
<1> QED
  BY <1>2, <1>13

\* A new statement, explicit or internal, is a statement created.
LEMMA NewIsCreate ==
    ASSUME Inv, NEW s \in Stmt, NEW c \in Conn, conn[c].state = "live",
           stmt[s].state = "unused",
           stmt'[s].state = "live", stmt'[s].owner = c, stmt'[s].handle = "open",
           \A t \in Stmt : t # s => stmt'[t] = stmt[t],
           \A d \in Conn : conn'[d].state = conn[d].state,
           stack' = stack, fault' = fault,
           \/ heldView' = heldView \cup {s} /\ ownView' = ownView
           \/ /\ ownView[c] = None /\ ownView' = [ownView EXCEPT ![c] = s]
              /\ heldView' = heldView
    PROVE  Promise!Create(s, c)
<1>1. stmt[s].handle = "none"
  BY DEF Inv, StatementInv, StatementsTied
<1>2. sessionView' = sessionView /\ sessionView[c] = "open"
  BY DEF sessionView
<1>3. homeView[s] = None /\ s \notin spentView
  BY <1>1 DEF homeView, spentView
<1>4. homeView' = [homeView EXCEPT ![s] = c]
  BY DEF homeView
<1>5. spentView' = spentView
  BY DEF spentView
<1> QED
  BY <1>2, <1>3, <1>4, <1>5 DEF Promise!Create

\* A statement that could not be created.
LEMMA FailureIsCreateFails ==
    ASSUME Inv, NEW n \in Name, NEW s \in Stmt, NewStatementFails(n, s)
    PROVE  Promise!CreateFails(s)
<1>a. TypeOK /\ SessionInv /\ StatementInv
  BY DEF Inv
<1>1. cmd[n] \in Conn
  BY <1>a DEF NewStatementFails, SessionInv, OneCommandPerSession, Live
<1>2. PICK r \in {Delete(NewStmt(cmd[n], 0)), DeletePrepared(NewPrepStmt(cmd[n], 0))} :
        stmt' = [stmt EXCEPT ![s] = r]
  BY DEF NewStatementFails, NotPrepared
<1>3. r.state = "deleted" /\ r.handle = "none"
  BY <1>1, <1>2, FailedStatement
<1>4. /\ stmt'[s] = r /\ \A t \in Stmt : t # s => stmt'[t] = stmt[t]
      /\ stmt[s].state = "unused" /\ conn' = conn /\ fault' = fault
      /\ rep' = rep /\ stack' = stack
  BY <1>a, <1>2 DEF NewStatementFails, TypeOK
<1>5. stmt[s].handle = "none"
  BY <1>a, <1>4 DEF StatementInv, StatementsTied
<1>6. homeView[s] = None /\ s \notin spentView
  BY <1>4, <1>5 DEF homeView, spentView
<1>7. homeView' = homeView
  BY <1>3, <1>4, <1>5 DEF homeView
<1>8. spentView' = spentView \cup {s}
  BY <1>3, <1>4 DEF spentView
<1>9. UNCHANGED <<sessionView, heldView, ownView, stack, fault # "none">>
  BY <1>4 DEF sessionView, heldView, Held, ownView, Live
<1> QED
  BY <1>6, <1>7, <1>8, <1>9 DEF Promise!CreateFails

\* A value that no interrupted command has among its words is let go of.
LEMMA FreeIntRepIsDiscard ==
    ASSUME Inv, CarefulInv, NEW o \in Obj, FreeIntRep(o), RunningUndisturbed
    PROVE  \E s \in Stmt : Promise!Discard(s)
<1> USE NoneAssumption
<1>a. TypeOK /\ SessionInv /\ StatementInv
  BY DEF Inv
<1>1. PICK s \in Stmt : s = rep[o]
  BY <1>a DEF FreeIntRep, TypeOK
<1> DEFINE r == DropRef(stmt[s])
<1>2. ~ Outlived(s) /\ stmt[s].handle = "open" /\ stmt[s].state = "live"
  BY <1>a, <1>1, HandleIsOperableOrOutlived DEF FreeIntRep, CarefulInv
<1>3. /\ r \in StmtType /\ r.state = stmt[s].state /\ r.owner = stmt[s].owner
      /\ r.handle = stmt[s].handle
  BY <1>a, StmtOperators, Types DEF DropRef, Typed, StmtType
<1>4. /\ fault' = fault /\ stack' = stack
      /\ \A d \in Conn : conn'[d].state = conn[d].state /\ conn'[d].internal = conn[d].internal
      /\ rep'[o] = None /\ \A p \in Obj : p # o => rep'[p] = rep[p]
  BY <1>a, <1>1, <1>2, Types DEF FreeIntRep, Typed, ConnType
<1>5. \A p \in Obj : rep[p] = s => p = o
  BY <1>a, <1>1, <1>2 DEF FreeIntRep, StatementInv, HandlesAreLive
<1>6. s \in heldView /\ heldView' = heldView \ {s}
  <2>1. \A t \in Stmt : Held(t)' <=> Held(t) /\ t # s
    BY <1>1, <1>4, <1>5 DEF Held
  <2> QED
    BY <1>1, <2>1 DEF heldView, Held
<1>7. s \notin Promise!Named
  <2>1. SUFFICES ASSUME NEW i \in DOMAIN stack, stack[i].obj # None, s = stack[i].stmt
                 PROVE  FALSE
    BY DEF Promise!Named
  <2>2. stack[i].obj \in Obj /\ rep[stack[i].obj] = s
    BY <2>1, FrameIsOperable
  <2>3. stack[i].obj = o
    BY <1>5, <2>2
  <2>4. rep'[o] = rep[o]
    BY <2>1, <2>3 DEF RunningUndisturbed
  <2> QED
    BY <1>1, <1>4, <2>4
<1>8. sessionView' = sessionView /\ ownView' = ownView
  BY <1>4 DEF sessionView, ownView, Live
<1>9. \/ homeView' = [homeView EXCEPT ![s] = None] /\ spentView' = spentView \cup {s}
      \/ UNCHANGED <<homeView, spentView>>
  <2>1. CASE ~ IsLast(r)
    <3>1. stmt' = [stmt EXCEPT ![s] = r]
      BY <1>1, <2>1 DEF FreeIntRep
    <3>2. \A t \in Stmt : /\ stmt'[t].state = stmt[t].state
                         /\ stmt'[t].owner = stmt[t].owner
                         /\ stmt'[t].handle = stmt[t].handle
      BY <1>a, <1>3, <3>1 DEF TypeOK
    <3> QED
      BY <3>2 DEF homeView, spentView
  <2>2. CASE IsLast(r)
    <3>1. stmt' = [stmt EXCEPT ![s] = Delete(r)]
      BY <1>1, <1>2, <2>2 DEF FreeIntRep
    <3>2. r.owner # None
      BY <1>a, <1>2, <1>3 DEF StatementInv, StatementsTied
    <3>3. Delete(r).state = "deleted" /\ Delete(r).handle = "none"
      BY <1>3, <3>2 DEF Delete, ReleaseDatabaseHandles, StmtType
    <3>4. /\ stmt'[s].state = "deleted" /\ stmt'[s].handle = "none"
          /\ \A t \in Stmt : t # s => stmt'[t] = stmt[t]
      BY <1>a, <3>1, <3>3 DEF TypeOK
    <3> QED
      BY <3>4 DEF homeView, spentView
  <2> QED
    BY <2>1, <2>2
<1> QED
  BY <1>4, <1>6, <1>7, <1>8, <1>9 DEF Promise!Discard

\* What an operable statement with an owner is to the promise.
LEMMA OperableIsUsable ==
    ASSUME Inv, NEW f \in Frame, Operable(f.stmt),
           IF f.obj = None THEN \E c \in Live : conn[c].internal = f.stmt ELSE Held(f.stmt)
    PROVE  Promise!Usable(f)
<1> USE NoneAssumption
<1>a. StatementInv /\ f.stmt \in Stmt
  BY DEF Inv, Frame
<1>1. homeView[f.stmt] = stmt[f.stmt].owner /\ stmt[f.stmt].owner \in Live
  BY <1>a DEF Operable, homeView, StatementInv, StatementsTied
<1>2. stmt[f.stmt].owner # None /\ stmt[f.stmt].owner \in Conn
  BY <1>1 DEF Live
<1>3. CASE f.obj = None
  <2>1. PICK c \in Live : conn[c].internal = f.stmt
    BY <1>3
  <2>2. stmt[f.stmt].owner = c
    BY <1>a, <2>1 DEF StatementInv, StatementsTied, Live
  <2>3. ownView[c] = f.stmt
    BY <2>1 DEF ownView, Live
  <2> QED
    BY <1>1, <1>2, <1>3, <2>2, <2>3 DEF Promise!Usable
<1>4. CASE f.obj # None
  <2>1. f.stmt \in heldView
    BY <1>a, <1>4 DEF heldView
  <2> QED
    BY <1>1, <1>2, <1>4, <2>1 DEF Promise!Usable
<1> QED
  BY <1>3, <1>4

LEMMA StartIsBegin ==
    ASSUME Inv, NEW s \in Stmt, NEW o \in Obj \cup {None}, Starts(s, o),
           IF o = None THEN \E c \in Live : conn[c].internal = s ELSE rep[o] = s
    PROVE  Promise!Begin([stmt |-> s, obj |-> o])
<1> USE NoneAssumption
<1> DEFINE f == [stmt |-> s, obj |-> o]
<1>1. f \in Frame /\ f.stmt = s /\ f.obj = o
  BY DEF Frame
<1>2. Operable(s) /\ stack' = Append(stack, f)
  BY DEF Starts
<1>3. UNCHANGED <<sessionView, homeView, heldView, ownView, spentView, fault # "none">>
  BY DEF Starts, sessionView, homeView, heldView, Held, ownView, Live, spentView
<1> HIDE DEF f
<1>4. IF f.obj = None THEN \E c \in Live : conn[c].internal = f.stmt ELSE Held(f.stmt)
  BY <1>1 DEF Held
<1>5. Promise!Usable(f)
  BY <1>1, <1>2, <1>4, OperableIsUsable
<1>6. Promise!Begin(f)
  BY <1>2, <1>3, <1>5 DEF Promise!Begin
<1> QED
  BY <1>6 DEF f

LEMMA ResumeIsFinish ==
    ASSUME Inv, CarefulInv, Resume
    PROVE  Promise!Finish
<1>a. TypeOK
  BY DEF Inv
<1>1. stack # <<>> /\ stmt' = stmt /\ conn' = conn /\ rep' = rep
  BY DEF Resume
<1>2. PICK i \in DOMAIN stack : Last(stack) = stack[i]
  BY <1>a, <1>1, StackSteps DEF TypeOK
<1>3. /\ Last(stack) \in Frame
      /\ Operable(Last(stack).stmt)
      /\ IF Last(stack).obj = None THEN \E c \in Live : conn[c].internal = Last(stack).stmt
                                   ELSE Held(Last(stack).stmt)
  BY <1>2, FrameIsOperable DEF Held
<1>4. Promise!Usable(Last(stack))
  BY <1>3, OperableIsUsable
<1>5. fault = "none" /\ fault' = "none" /\ stack' = Front(stack)
  BY <1>3 DEF Resume, Running
<1>6. UNCHANGED <<sessionView, homeView, heldView, ownView, spentView, fault # "none">>
  BY <1>1, <1>5 DEF sessionView, homeView, heldView, Held, ownView, Live, spentView
<1>7. Promise!Last(stack) = Last(stack) /\ Promise!Front(stack) = Front(stack)
  BY DEF Promise!Last, Last, Promise!Front, Front
<1> QED
  BY <1>1, <1>4, <1>5, <1>6, <1>7 DEF Promise!Finish

LEMMA PromiseInit == Init => Promise!Init
<1> SUFFICES ASSUME Init PROVE Promise!Init
  OBVIOUS
<1>1. heldView = {} /\ ownView = [c \in Conn |-> None]
  BY NoneAssumption DEF Init, NewConn, heldView, Held, ownView, Live
<1> QED
  BY <1>1 DEF Init, NewConn, Promise!Init, sessionView, homeView, spentView

LEMMA PromiseNext ==
    ASSUME Inv, CarefulInv, [CarefulNext]_vars
    PROVE  [Promise!Next]_(Promise!avars)
<1> USE NoneAssumption
<1>a. TypeOK /\ SessionInv /\ StatementInv
  BY DEF Inv
<1>1. ASSUME NEW n \in Name, NEW c \in Conn, Connect(n, c) \/ ConnectFails(n, c)
      PROVE  Promise!Next
  BY <1>1, ConnectIsOpen DEF Promise!Next
<1>2. ASSUME NEW n \in Name, Disconnect(n), CarefulNext PROVE Promise!Next
  BY <1>2, DisconnectIsClose DEF CarefulNext, Promise!Next
<1>3. ASSUME NEW n \in Name, ImplicitUse(n) PROVE UNCHANGED Promise!avars
  <2>1. Operable(conn[cmd[n]].internal)
    BY <1>3, <1>a, InternalIsOperable DEF ImplicitUse
  <2>2. /\ stmt' = stmt /\ conn' = conn /\ rep' = rep /\ stack' = stack
        /\ fault' = "none" /\ fault = "none"
    BY <1>3, <2>1 DEF ImplicitUse, Uses, CarefulInv
  <2> QED
    BY <2>2, PromiseStutters
<1>4. ASSUME NEW n \in Name, NEW o \in Obj, HandleUse(n, o) PROVE UNCHANGED Promise!avars
  <2>1. Operable(rep[o])
    BY <1>4, <1>a, HandleIsOperableOrOutlived DEF HandleUse, CarefulInv, Operable
  <2>2. /\ stmt' = stmt /\ conn' = conn /\ rep' = rep /\ stack' = stack
        /\ fault' = "none" /\ fault = "none"
    BY <1>4, <2>1 DEF HandleUse, Uses, CarefulInv
  <2> QED
    BY <2>2, PromiseStutters
<1>5. ASSUME NEW n \in Name, NEW s \in Stmt, NEW o \in Obj,
             NewStatement(n, s, o) \/ Prepare(n, s, o)
      PROVE  Promise!Next
  <2>1. PICK c \in Live : c = cmd[n]
    BY <1>5, <1>a DEF NewStatement, Prepare, SessionInv, OneCommandPerSession
  <2>2. c \in Conn /\ conn[c].state = "live"
    BY DEF Live
  <2>3. /\ stmt'[s].state = "live" /\ stmt'[s].owner = c /\ stmt'[s].handle = "open"
        /\ \A t \in Stmt : t # s => stmt'[t] = stmt[t]
        /\ conn' = conn /\ fault' = fault /\ stack' = stack /\ stmt[s].state = "unused"
    BY <1>5, <1>a, <2>1, Types
    DEF NewStatement, Prepare, Created, NewStmt, NewPrepStmt, Typed
  <2>4. rep[o] = None /\ rep' = [rep EXCEPT ![o] = s] /\ rep \in [Obj -> Stmt \cup {None}]
    BY <1>5, <1>a DEF NewStatement, Prepare, Created, Fresh, TypeOK
  <2>5. heldView' = heldView \cup {s}
    BY <2>4 DEF heldView, Held
  <2>6. ownView' = ownView
    BY <2>3 DEF ownView, Live
  <2>7. Promise!Create(s, c)
    BY <2>2, <2>3, <2>5, <2>6, NewIsCreate
  <2> QED
    BY <2>2, <2>7 DEF Promise!Next
<1>6. ASSUME NEW n \in Name, NEW s \in Stmt, FirstImplicitUse(n, s) PROVE Promise!Next
  <2>1. PICK c \in Live : c = cmd[n]
    BY <1>6, <1>a DEF FirstImplicitUse, SessionInv, OneCommandPerSession
  <2>2. c \in Conn /\ conn[c].state = "live"
    BY DEF Live
  <2>3. /\ stmt'[s].state = "live" /\ stmt'[s].owner = c /\ stmt'[s].handle = "open"
        /\ \A t \in Stmt : t # s => stmt'[t] = stmt[t]
        /\ \A d \in Conn : conn'[d].state = conn[d].state
        /\ \A d \in Conn : d # c => conn'[d] = conn[d]
        /\ conn[c].internal = None /\ conn'[c].internal = s
        /\ fault' = fault /\ stack' = stack /\ rep' = rep /\ stmt[s].state = "unused"
    BY <1>6, <1>a, <2>1, <2>2, Types DEF FirstImplicitUse, NewStmt, Typed, ConnType
  <2>4. ownView[c] = None /\ ownView' = [ownView EXCEPT ![c] = s]
    BY <2>2, <2>3, OwnViewStep DEF ownView, Live
  <2>5. heldView' = heldView
    BY <2>3 DEF heldView, Held
  <2>6. Promise!Create(s, c)
    BY <2>2, <2>3, <2>4, <2>5, NewIsCreate
  <2> QED
    BY <2>2, <2>6 DEF Promise!Next
<1>7. ASSUME NEW n \in Name, NEW s \in Stmt, NewStatementFails(n, s) PROVE Promise!Next
  BY <1>7, FailureIsCreateFails DEF Promise!Next
<1>8. ASSUME NEW o \in Obj, Duplicate(o) PROVE UNCHANGED Promise!avars
  <2>1. /\ conn' = conn /\ fault' = fault /\ rep' = rep /\ stack' = stack
        /\ \A t \in Stmt : /\ stmt'[t].state = stmt[t].state
                           /\ stmt'[t].owner = stmt[t].owner
                           /\ stmt'[t].handle = stmt[t].handle
    BY <1>8, <1>a, Types DEF Duplicate, Typed, StmtType
  <2> QED
    BY <2>1, PromiseStutters
<1>9. ASSUME NEW o \in Obj, FreeIntRep(o), CarefulNext PROVE Promise!Next
  BY <1>9, FreeIntRepIsDiscard DEF CarefulNext, Promise!Next
<1>10. ASSUME NEW n \in Name, ImplicitStarts(n) PROVE Promise!Next
  <2>1. cmd[n] \in Live /\ conn[cmd[n]].internal \in Stmt
    BY <1>10, <1>a, Types DEF ImplicitStarts, SessionInv, OneCommandPerSession, Live, Typed, ConnType
  <2>2. Starts(conn[cmd[n]].internal, None)
    BY <1>10 DEF ImplicitStarts
  <2>3. Promise!Begin([stmt |-> conn[cmd[n]].internal, obj |-> None])
    BY <2>1, <2>2, StartIsBegin
  <2> QED
    BY <2>1, <2>3 DEF Promise!Next
<1>11. ASSUME NEW n \in Name, NEW o \in Obj, HandleStarts(n, o) PROVE Promise!Next
  <2>1. rep[o] \in Stmt /\ Starts(rep[o], o)
    BY <1>11, <1>a DEF HandleStarts, TypeOK
  <2>2. Promise!Begin([stmt |-> rep[o], obj |-> o])
    BY <2>1, StartIsBegin
  <2> QED
    BY <2>1, <2>2 DEF Promise!Next
<1>12. ASSUME Resume PROVE Promise!Next
  BY <1>12, ResumeIsFinish DEF Promise!Next
<1>13. ASSUME DeleteSdbCommand \/ UNCHANGED vars PROVE UNCHANGED Promise!avars
  BY <1>13, PromiseStutters DEF DeleteSdbCommand, vars
<1> QED
  BY <1>1, <1>2, <1>3, <1>4, <1>5, <1>6, <1>7, <1>8, <1>9, <1>10, <1>11, <1>12, <1>13
  DEF CarefulNext, Next

\* For careful scripts the objects, counts and pointers of the code implement the
\* promise: sessions open and close, a statement that a script holds or an
\* interrupted command has found is usable until the script lets go of it or its
\* session ends, and every interrupted command finds its own again.
THEOREM CarefulScriptsGetThePromise == CarefulSpec => ImplementsPromise
<1>1. Inv /\ CarefulInv /\ [CarefulNext]_vars => [Promise!Next]_(Promise!avars)
  BY PromiseNext
<1> QED
  BY <1>1, PromiseInit, CarefulInvariance, PTL
  DEF CarefulSpec, ImplementsPromise, Promise!Spec

----------------------------------------------------------------------------
(* What ends a handle. *)

LEMMA HandleEnd ==
    ASSUME Inv, [Next]_vars, NEW s \in Stmt,
           stmt[s].handle = "open", stmt'[s].handle # "open"
    PROVE  \/ stmt[s].owner \in sessions \ sessions'
           \/ Held(s) /\ \A o \in Obj : rep'[o] # s
<1> USE NoneAssumption
<1>a. TypeOK /\ SessionInv /\ StatementInv
  BY DEF Inv
<1>b. stmt[s].state = "live"
  BY <1>a DEF StatementInv, StatementsTied
<1>1. ASSUME NEW n \in Name, Disconnect(n)
      PROVE  stmt[s].owner \in sessions \ sessions'
  <2>1. PICK c \in Live : c = cmd[n]
    BY <1>1, <1>a DEF Disconnect, SessionInv, OneCommandPerSession
  <2>2. sessions = Live /\ sessions' = Live \ {c} /\ c \in Conn
    BY <1>1, <1>a, <2>1 DEF Disconnect, SessionInv, OneCommandPerSession, Live
  <2>3. stmt[s].owner = c
    <3>1. stmt'[s] = AfterClose(c, s)
      BY <1>1, <2>1 DEF Disconnect
    <3>2. s \in Known(c) => conn[c].internal = s
      BY <1>a, <2>2 DEF Known, StatementInv, StatementsTied
    <3>3. s \in Known(c) => stmt[s].owner = c
      BY <1>a, <2>1, <2>2, <3>2 DEF StatementInv, StatementsTied
    <3> QED
      BY <3>1, <3>3 DEF AfterClose
  <2> QED
    BY <2>1, <2>2, <2>3
<1>2. ASSUME NEW o \in Obj, FreeIntRep(o)
      PROVE  Held(s) /\ \A p \in Obj : rep'[p] # s
  <2>1. PICK t \in Stmt : t = rep[o]
    BY <1>2, <1>a DEF FreeIntRep, TypeOK
  <2>2. DropRef(stmt[t]).handle = stmt[t].handle
    BY <1>a DEF DropRef, TypeOK, StmtType
  <2>3. t = s
    BY <1>2, <1>a, <2>1, <2>2 DEF FreeIntRep, TypeOK
  <2>4. \A p \in Obj : rep[p] = s => p = o
    BY <1>2, <1>a, <2>1, <2>3 DEF FreeIntRep, StatementInv, HandlesAreLive
  <2> QED
    BY <1>2, <1>a, <2>1, <2>3, <2>4 DEF FreeIntRep, Held, TypeOK
<1>3. ASSUME NEW n \in Name, NEW t \in Stmt,
             \/ NewStatementFails(n, t) \/ FirstImplicitUse(n, t)
             \/ \E o \in Obj : NewStatement(n, t, o) \/ Prepare(n, t, o)
      PROVE  FALSE
  BY <1>3, <1>a, <1>b, Types
  DEF NewStatementFails, FirstImplicitUse, NewStatement, Prepare, Created, Typed
<1>4. ASSUME NEW o \in Obj, Duplicate(o) PROVE FALSE
  BY <1>4, <1>a DEF Duplicate, TypeOK, StmtType
<1>5. UNCHANGED stmt => FALSE
  OBVIOUS
<1> QED
  BY <1>1, <1>2, <1>3, <1>4, <1>5
  DEF Next, Connect, ConnectFails, DeleteSdbCommand, ImplicitUse, HandleUse,
      ImplicitStarts, HandleStarts, Uses, Starts, Resume, vars

\* A statement loses its SQLDBC handle only with its own session or with the
\* last value that holds it, never through another connection.
THEOREM HandlesEnd == Spec => HandlesEndForAReason
<1>1. Inv /\ [Next]_vars =>
        [\A s \in Stmt : (stmt[s].handle = "open" /\ stmt'[s].handle # "open") =>
             \/ stmt[s].owner \in sessions \ sessions'
             \/ Held(s) /\ \A o \in Obj : rep'[o] # s]_vars
  BY HandleEnd
<1> QED
  BY <1>1, Invariance, PTL DEF Spec, HandlesEndForAReason

LEMMA ParamsLeak ==
    ASSUME Inv, [Next]_vars, NEW s \in Stmt,
           stmt'[s].params = "leaked", stmt[s].params # "leaked"
    PROVE  dups[s] = 0 /\ \E o \in Obj : rep[o] = s /\ rep'[o] = None
<1> USE NoneAssumption
<1>a. TypeOK /\ Typed /\ SessionInv /\ StatementInv
  BY Types DEF Inv
<1>1. ASSUME NEW n \in Name, Disconnect(n) PROVE FALSE
  <2>1. PICK c \in Conn : stmt'[s] = AfterClose(c, s)
    BY <1>1, <1>a DEF Disconnect, Typed
  <2> QED
    BY <1>a, <2>1 DEF AfterClose, ReleaseDatabaseHandles, Typed, StmtType
<1>2. ASSUME NEW o \in Obj, FreeIntRep(o)
      PROVE  dups[s] = 0 /\ \E p \in Obj : rep[p] = s /\ rep'[p] = None
  <2>1. PICK t \in Stmt : t = rep[o]
    BY <1>2, <1>a DEF FreeIntRep, Typed
  <2> DEFINE r == DropRef(stmt[t])
  <2>2. r.params = stmt[t].params
    BY <1>a DEF DropRef, Typed, StmtType
  <2>3. t = s /\ IsLast(r)
    BY <1>2, <1>a, <2>1, <2>2 DEF FreeIntRep, Typed
  <2>4. stmt[s].state = "live" /\ Held(s)
    BY <1>2, <1>a, <2>1, <2>3 DEF FreeIntRep, Held, StatementInv, HandlesAreLive
  <2>5. dups[s] \in Nat /\ stmt[s].refs = 1 + dups[s]
    BY <1>a, <2>4, FiniteAssumption DEF Typed, StatementInv, RefsCounted
  <2>6. r.refs = dups[s]
    BY <1>a, <2>3, <2>5 DEF DropRef, Typed, StmtType
  <2>7. dups[s] = 0
    BY <2>3, <2>5, <2>6 DEF IsLast
  <2> QED
    BY <1>2, <1>a, <2>1, <2>3, <2>7 DEF FreeIntRep, Typed
<1>3. ASSUME NEW n \in Name, NEW t \in Stmt, NewStatementFails(n, t) PROVE FALSE
  <2>1. PICK c \in Conn : c = cmd[n]
    BY <1>3, <1>a DEF NewStatementFails, Typed
  <2>2. PICK r \in {Delete(NewStmt(c, 0)), DeletePrepared(NewPrepStmt(c, 0))} :
             stmt' = [stmt EXCEPT ![t] = r]
    BY <1>3, <2>1 DEF NewStatementFails, NotPrepared
  <2>3. r.params # "leaked"
    BY <2>1, FailedStatement
  <2> QED
    BY <1>a, <2>2, <2>3 DEF Typed
<1>4. ASSUME NEW n \in Name, NEW t \in Stmt,
             \/ FirstImplicitUse(n, t)
             \/ \E o \in Obj : NewStatement(n, t, o) \/ Prepare(n, t, o)
      PROVE  FALSE
  BY <1>4, <1>a
  DEF FirstImplicitUse, NewStatement, Prepare, Created, NewStmt, NewPrepStmt, Typed
<1>5. ASSUME NEW o \in Obj, Duplicate(o) PROVE FALSE
  BY <1>5, <1>a DEF Duplicate, Typed, StmtType
<1>6. UNCHANGED stmt => FALSE
  OBVIOUS
<1> QED
  BY <1>1, <1>2, <1>3, <1>4, <1>5, <1>6
  DEF Next, Connect, ConnectFails, DeleteSdbCommand, ImplicitUse, HandleUse,
      ImplicitStarts, HandleStarts, Uses, Starts, Resume, vars

\* The parameters of a prepared statement are lost with the last value that holds
\* it, and by nothing else.
THEOREM ParamsLeakWithTheHandle == Spec => OnlyReleasedParamsLeak
<1>1. Inv /\ [Next]_vars =>
        [\A s \in Stmt : (stmt'[s].params = "leaked" /\ stmt[s].params # "leaked") =>
             dups[s] = 0 /\ \E o \in Obj : rep[o] = s /\ rep'[o] = None]_vars
  BY ParamsLeak
<1> QED
  BY <1>1, Invariance, PTL DEF Spec, OnlyReleasedParamsLeak

=============================================================================
