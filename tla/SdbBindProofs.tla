---------------------------- MODULE SdbBindProofs ----------------------------
(***************************************************************************)
(* Theorems about SdbBind, for all values, names and host types and any    *)
(* numbers of parameters and executions.                                   *)
(***************************************************************************)
EXTENDS SdbBind, FiniteSetTheorems, SequenceTheorems, TLAPS

----------------------------------------------------------------------------
(* Sequences and names. *)

LEMMA SameInterval ==
    ASSUME NEW m \in Nat, NEW n \in Nat, 1 .. m = 1 .. n
    PROVE  m = n
<1>1. m > 0 => m \in 1 .. n
  OBVIOUS
<1>2. n > 0 => n \in 1 .. m
  OBVIOUS
<1> QED
  BY <1>1, <1>2

LEMMA UpToIsSeq ==
    ASSUME NEW S, NEW n \in Nat, NEW t \in UpTo(S, n)
    PROVE  /\ t \in Seq(S)
           /\ Len(t) \in 0 .. n
           /\ DOMAIN t = 1 .. Len(t)
           /\ \A i \in 1 .. Len(t) : t[i] \in S
<1>1. PICK k \in 0 .. n : t \in [1 .. k -> S]
  BY DEF UpTo
<1>2. t \in Seq(S)
  BY <1>1, SeqDef
<1>3. Len(t) \in Nat /\ DOMAIN t = 1 .. Len(t)
  BY <1>2, LenProperties
<1>4. 1 .. Len(t) = 1 .. k
  BY <1>1, <1>3
<1>5. k \in Nat
  OBVIOUS
<1>6. Len(t) = k
  BY <1>3, <1>4, <1>5, SameInterval
<1> QED
  BY <1>1, <1>2, <1>3, <1>6

LEMMA FunctionIsUpTo ==
    ASSUME NEW S, NEW n \in Nat, NEW k \in 0 .. n, NEW t \in [1 .. k -> S]
    PROVE  t \in UpTo(S, n)
BY DEF UpTo

\* A list of n elements that has all elements of a set of n has each once.
LEMMA EachOnce ==
    ASSUME NEW n \in Nat, NEW S, Cardinality(S) = n, NEW f \in [1 .. n -> S],
           \A s \in S : \E i \in 1 .. n : f[i] = s
    PROVE  \A i, j \in 1 .. n : f[i] = f[j] => i = j
<1>1. IsFiniteSet(1 .. n) /\ Cardinality(1 .. n) = n
  BY FS_Interval
<1>2. f \in Surjection(1 .. n, S)
  BY DEF Surjection
<1>3. f \in Injection(1 .. n, S)
  BY <1>1, <1>2, FS_SurjSameCardinalityImpliesInj
<1> QED
  BY <1>3 DEF Injection, IsInjective

----------------------------------------------------------------------------
(* Types. *)

ArgType == (Name \cup {None}) \X Obj

LEMMA Typed ==
    ASSUME TypeOK
    PROVE  /\ Len(params) \in 0 .. MaxParams /\ P = 1 .. Len(params)
           /\ \A i \in P : params[i] \in Param
           /\ Len(args) \in 0 .. MaxParams /\ DOMAIN args = 1 .. Len(args)
           /\ \A k \in 1 .. Len(args) : args[k] \in ArgType /\ args[k][2] \in Obj
           /\ runs \in Nat /\ MaxParams \in Nat
<1>1. MaxParams \in Nat /\ MaxRuns \in Nat
  BY BindAssumption
<1>2. params \in UpTo(Param, MaxParams) /\ args \in UpTo(ArgType, MaxParams) /\ runs \in 0 .. MaxRuns
  BY DEF TypeOK, ArgType
<1>3. /\ Len(params) \in 0 .. MaxParams /\ DOMAIN params = 1 .. Len(params)
      /\ \A i \in 1 .. Len(params) : params[i] \in Param
  BY <1>1, <1>2, UpToIsSeq
<1>4. /\ Len(args) \in 0 .. MaxParams /\ DOMAIN args = 1 .. Len(args)
      /\ \A i \in 1 .. Len(args) : args[i] \in ArgType
  BY <1>1, <1>2, UpToIsSeq
<1>5. \A k \in 1 .. Len(args) : args[k][2] \in Obj
  BY <1>4 DEF ArgType
<1> QED
  BY <1>1, <1>2, <1>3, <1>4, <1>5 DEF P

Slots(n) == {Unbound} \cup [run : 1 .. n, obj : Obj]

LEMMA SlotsGrow == ASSUME NEW n \in Nat PROVE Slots(n) \subseteq Slots(n + 1)
BY DEF Slots

\* Before prepare there is nothing; a call that is running has been counted and
\* has an argument for each parameter.
TypeInv ==
    /\ TypeOK
    /\ phase = "new" => params = <<>> /\ reply.res = "none"
    /\ phase = "binding" => runs > 0 /\ Len(args) = Len(params)

LEMMA TypeInit == Init => TypeInv
<1> SUFFICES ASSUME Init PROVE TypeInv
  OBVIOUS
<1> DEFINE none == << >>
<1>1. MaxParams \in Nat /\ MaxRuns \in Nat
  BY BindAssumption
<1>2. none \in [1 .. 0 -> Param] /\ none \in [1 .. 0 -> ArgType]
  OBVIOUS
<1>3. 0 \in 0 .. MaxParams
  BY <1>1
<1>4. none \in UpTo(Param, MaxParams) /\ none \in UpTo(ArgType, MaxParams)
  BY <1>2, <1>3 DEF UpTo
<1> QED
  BY <1>1, <1>4 DEF Init, TypeInv, TypeOK, P, ArgType

\* What is bound at one turn of the loop keeps its type.
LEMMA TurnTypes ==
    ASSUME TypeInv, Binding, NEW i \in P, BindValue(i), NextArg,
           NEW v \in Slots(runs), outVar' = [outVar EXCEPT ![i] = v]
    PROVE  TypeInv'
<1>1. /\ Len(args) <= MaxParams /\ Arg \in Obj /\ runs \in Nat \ {0} /\ MaxParams \in Nat
      /\ at \in 1 .. Len(args)
  BY Typed DEF TypeInv, Binding, Arg, TypeOK
<1>2. slot \in [P -> Slots(runs)] /\ outVar \in [P -> Slots(runs)]
      /\ freed \subseteq P
  BY DEF TypeInv, TypeOK, Slots
<1>3. Given(Arg) \in Slots(runs)
  BY <1>1 DEF Slots, Given
<1>4. UNCHANGED <<phase, params, runs, args, reply, fault>> /\ at' = at + 1 /\ P' = P
  BY DEF NextArg, P
<1>5. slot' \in [P -> Slots(runs)] /\ outVar' \in [P -> Slots(runs)]
  BY <1>2, <1>3 DEF BindValue
<1>6. freed' \subseteq P
  BY <1>2 DEF BindValue, LosesBytes
<1>7. at' \in 1 .. MaxParams + 1
  BY <1>1, <1>4
<1> QED
  BY <1>4, <1>5, <1>6, <1>7 DEF TypeInv, TypeOK, Slots

LEMMA TypeNext == TypeInv /\ [Next]_vars => TypeInv'
<1> SUFFICES ASSUME TypeInv, [Next]_vars PROVE TypeInv'
  OBVIOUS
<1>a. TypeOK /\ runs \in Nat
  BY Typed DEF TypeInv
<1>1. CASE UNCHANGED vars
  BY <1>1 DEF TypeInv, TypeOK, vars, P
<1>2. ASSUME NEW reported \in UpTo(Modes \X Hosts, MaxParams),
             NEW markers \in UpTo(Name \cup {None}, MaxParams), Prepare(markers, reported)
      PROVE  TypeInv'
  <2> DEFINE n == Len(reported)
  <2>1. /\ MaxParams \in Nat /\ n \in 0 .. MaxParams /\ DOMAIN reported = 1 .. n
        /\ \A i \in 1 .. n : reported[i] \in Modes \X Hosts
    BY BindAssumption, UpToIsSeq
  <2>2. /\ Len(markers) \in 0 .. MaxParams
        /\ \A i \in 1 .. Len(markers) : markers[i] \in Name \cup {None}
    BY BindAssumption, UpToIsSeq
  <2>3. \A i \in 1 .. n : i \in 1 .. Len(markers)
    BY <2>1, <2>2, <1>2 DEF Prepare, Scanned
  <2>4. \A i \in 1 .. n :
           [name |-> markers[i], mode |-> reported[i][1], host |-> reported[i][2]] \in Param
    BY <2>1, <2>2, <2>3 DEF Param
  <2>5. params' \in [1 .. n -> Param]
    BY <2>1, <2>4, <1>2 DEF Prepare
  <2>6. params' \in UpTo(Param, MaxParams)
    BY <2>1, <2>5 DEF UpTo
  <2>7. P' = 1 .. n
    BY <2>5 DEF P
  <2>8. freed' \subseteq P'
    BY <1>2, <1>a DEF Prepare, TypeInv, TypeOK, P
  <2>9. /\ slot' = [i \in 1 .. n |-> Unbound] /\ outVar' = [i \in 1 .. n |-> Unbound]
    BY <2>1, <1>2 DEF Prepare
  <2>10. 0 \in 0 .. runs
    BY <1>a
  <2>11. phase' = "ready" /\ UNCHANGED <<runs, args, at, reply, fault>>
    BY <1>2 DEF Prepare
  <2>12. /\ slot' \in [P' -> Slots(runs)] /\ outVar' \in [P' -> Slots(runs)]
    BY <2>7, <2>9, <2>10 DEF Slots
  <2> QED
    BY <1>a, <2>6, <2>8, <2>11, <2>12 DEF TypeInv, TypeOK, Slots
<1>3. ASSUME NEW reported, NEW markers, PrepareFails(markers, reported) PROVE TypeInv'
  BY <1>3 DEF TypeInv, TypeOK, PrepareFails, P
<1>4. ASSUME NEW a \in [1 .. Len(params) -> (IF IsPositional THEN {None} ELSE Name) \X Obj],
             Execute(a)
      PROVE  TypeInv'
  <2>1. Len(params) \in 0 .. MaxParams /\ a \in [1 .. Len(params) -> ArgType]
    BY <1>a, Typed DEF ArgType
  <2>2. args' \in UpTo(ArgType, MaxParams)
    BY <2>1, <1>4 DEF UpTo, Execute
  <2>3. runs' \in 0 .. MaxRuns /\ runs' = runs + 1 /\ at' \in 1 .. MaxParams + 1
    BY <1>a, <1>4, BindAssumption DEF Execute, TypeOK
  <2>4. 0 .. runs \subseteq 0 .. runs' /\ Slots(runs) \subseteq Slots(runs')
    BY <1>a, <2>3, SlotsGrow
  <2>5. UNCHANGED <<params, slot, freed, outVar, reply, fault>> /\ P' = P
    BY <1>4 DEF Execute, P
  <2>6. /\ slot' \in [P' -> Slots(runs')] /\ outVar' \in [P' -> Slots(runs')]
    BY <1>a, <2>4, <2>5 DEF TypeOK, Slots
  <2>7. phase' = "binding" /\ Len(args') = Len(params')
    BY <1>4 DEF Execute
  <2> QED
    BY <1>a, <2>2, <2>3, <2>5, <2>6, <2>7 DEF TypeInv, TypeOK, ArgType, Slots
<1>5. ASSUME ExecuteMiscounted PROVE TypeInv'
  <2>1. runs' \in 0 .. MaxRuns /\ runs' = runs + 1
    BY <1>a, <1>5, BindAssumption DEF ExecuteMiscounted, TypeOK
  <2>2. 0 .. runs \subseteq 0 .. runs' /\ Slots(runs) \subseteq Slots(runs')
    BY <1>a, <2>1, SlotsGrow
  <2>3. UNCHANGED <<params, slot, freed, outVar, args, at, fault>> /\ P' = P
    BY <1>5 DEF ExecuteMiscounted, P
  <2>4. /\ slot' \in [P' -> Slots(runs')] /\ outVar' \in [P' -> Slots(runs')]
    BY <1>a, <2>2, <2>3 DEF TypeOK, Slots
  <2>5. phase' = "ready" /\ reply'.res = "error"
    BY <1>5 DEF ExecuteMiscounted
  <2> QED
    BY <1>a, <2>1, <2>3, <2>4, <2>5 DEF TypeInv, TypeOK, Slots
<1>6. ASSUME NEW f \in {"noName", "deadArgument", "deadName", "lengthAsText", "outOverwritten"},
             Crash(f)
      PROVE  TypeInv'
  BY <1>6 DEF TypeInv, TypeOK, Crash, P
<1>7. ASSUME Ends(Failed), UNCHANGED <<slot, freed, outVar, fault>> PROVE TypeInv'
  BY <1>7 DEF TypeInv, TypeOK, Ends, Failed, P
<1>8. ASSUME NEW i \in P, BindIn(i) PROVE TypeInv'
  <2>1. Unbound \in Slots(runs)
    BY DEF Slots
  <2> QED
    BY <1>8, <2>1, TurnTypes DEF BindIn
<1>9. ASSUME NEW i \in P, BindOut(i) PROVE TypeInv'
  <2>1. Given(Arg) \in Slots(runs)
    BY <1>a, <1>9, Typed DEF BindOut, Binding, TypeInv, TypeOK, Arg, Given, Slots
  <2> QED
    BY <1>9, <2>1, TurnTypes DEF BindOut
<1>10. CASE CopyOutput
  <2>1. phase' = "ready" /\ reply'.res = "ok"
        /\ UNCHANGED <<params, slot, freed, outVar, runs, args, at, fault>> /\ P' = P
    BY <1>10 DEF CopyOutput, Ends, P
  <2> QED
    BY <1>a, <2>1 DEF TypeInv, TypeOK
<1> QED
  BY <1>1, <1>2, <1>3, <1>4, <1>5, <1>6, <1>7, <1>8, <1>9, <1>10
  DEF Next, BindUnknownName, BindOtherType, BindTooLong, BindFails, ExecuteDangling, ExecuteFails,
      OutOverwrites, CopyOutputDangling

\* The variables keep their types, for all values and bounds.
THEOREM TypeCorrect == Spec => []TypeOK
<1>1. TypeInv => TypeOK
  BY DEF TypeInv
<1> QED
  BY <1>1, TypeInit, TypeNext, PTL DEF Spec

----------------------------------------------------------------------------
(* prepare and the search for a name. *)

\* All parameters have names or none has.
OneKind == \/ \A i \in P : params[i].name = None
           \/ \A i \in P : params[i].name # None

LEMMA PreparedOfOneKind ==
    ASSUME NEW reported \in UpTo(Modes \X Hosts, MaxParams),
           NEW markers \in UpTo(Name \cup {None}, MaxParams), Prepare(markers, reported)
    PROVE  OneKind'
<1> DEFINE n == Len(reported)
<1>1. n \in Nat /\ DOMAIN reported = 1 .. n
  BY BindAssumption, UpToIsSeq
<1>2. params' = [i \in 1 .. n |->
                    [name |-> markers[i], mode |-> reported[i][1], host |-> reported[i][2]]]
  BY <1>1 DEF Prepare
<1>3. P' = 1 .. n /\ \A i \in 1 .. n : params'[i].name = markers[i]
  BY <1>2 DEF P
<1>4. CASE n = 0
  BY <1>3, <1>4 DEF OneKind
<1>5. CASE n # 0
  BY <1>1, <1>3, <1>5 DEF OneKind, Prepare, Scanned
<1> QED
  BY <1>4, <1>5

\* Where parameters have no names the search does not start.
LEMMA SearchFindsNames ==
    ASSUME TypeOK, OneKind, Target(at) = {}
    PROVE  \A i \in P : params[i].name # None
<1> SUFFICES ASSUME NEW i \in P, params[i].name = None PROVE FALSE
  OBVIOUS
<1>1. \A j \in P : params[j].name = None
  BY DEF OneKind
<1>2. P = 1 .. Len(params) /\ Len(params) \in Nat
  BY Typed
<1>3. params[1].name = None
  BY <1>1, <1>2
<1>4. params # <<>>
  BY <1>2
<1> QED
  BY <1>3, <1>4 DEF Target, IsPositional

NameInv == TypeInv /\ OneKind /\ NamesAreThere

\* bind never compares the name of an argument with that of a parameter that
\* has none, whatever SQL there is and however it is executed.
THEOREM NamesAreCompared == Spec => []NamesAreThere
<1>1. Init => NameInv
  <2>1. Init => OneKind /\ NamesAreThere
    BY DEF Init, OneKind, NamesAreThere, P
  <2> QED
    BY <2>1, TypeInit DEF NameInv
<1>2. NameInv /\ [Next]_vars => NameInv'
  <2> SUFFICES ASSUME NameInv, [Next]_vars PROVE OneKind' /\ NamesAreThere'
    BY TypeNext DEF NameInv
  <2> USE DEF NameInv
  <2>1. CASE UNCHANGED <<params, fault>>
    BY <2>1 DEF OneKind, NamesAreThere, P
  <2>2. ASSUME NEW reported \in UpTo(Modes \X Hosts, MaxParams),
               NEW markers \in UpTo(Name \cup {None}, MaxParams), Prepare(markers, reported)
        PROVE  OneKind' /\ NamesAreThere'
    BY <2>2, PreparedOfOneKind DEF Prepare, NamesAreThere
  <2>3. CASE BindUnknownName
    <3>1. \A i \in P : params[i].name # None
      BY <2>3, SearchFindsNames DEF BindUnknownName, TypeInv
    <3> QED
      BY <2>3, <3>1 DEF BindUnknownName, Ends, OneKind, NamesAreThere, P
  <2>4. ASSUME NEW f \in {"deadArgument", "deadName", "lengthAsText", "outOverwritten"}, Crash(f)
        PROVE  OneKind' /\ NamesAreThere'
    BY <2>4 DEF Crash, OneKind, NamesAreThere, P
  <2> QED
    BY <2>1, <2>2, <2>3, <2>4
    DEF Next, vars, PrepareFails, Execute, ExecuteMiscounted, BindOtherType, BindIn, BindOut, NextArg, BindTooLong,
        BindFails, Ends, ExecuteDangling, ExecuteFails, OutOverwrites, CopyOutputDangling, CopyOutput
<1>3. NameInv => NamesAreThere
  BY DEF NameInv
<1> QED
  BY <1>1, <1>2, <1>3, PTL DEF Spec

----------------------------------------------------------------------------
(* What bind has done by the end of its loop. *)

\* The call of the parameters and the arguments: what no turn of the loop changes.
LEMMA SameCall ==
    ASSUME UNCHANGED <<params, args, runs>>
    PROVE  /\ P' = P /\ IsPositional' = IsPositional /\ Proper(args)' = Proper(args)
           /\ \A k : Target(k)' = Target(k)
           /\ \A i : IsOut(i)' = IsOut(i)
           /\ \A o : Given(o)' = Given(o)
<1>1. P' = P /\ IsPositional' = IsPositional
  BY DEF P, IsPositional
<1>2. Proper(args)' = Proper(args)
  BY <1>1 DEF Proper
<1>3. \A k : Target(k)' = Target(k)
  BY <1>1 DEF Target, FirstNamed
<1> QED
  BY <1>1, <1>2, <1>3 DEF IsOut, Given

\* Arguments that name every parameter name each once, and no two parameters
\* have the same name.
LEMMA NamesDiffer ==
    ASSUME TypeInv, phase = "binding", ~ IsPositional, Proper(args)
    PROVE  /\ \A k, l \in 1 .. Len(args) : args[k][1] = args[l][1] => k = l
           /\ \A i, j \in P : params[i].name = params[j].name => i = j
<1> DEFINE n == Len(params)
           S == {params[i].name : i \in P}
           f == [k \in 1 .. n |-> args[k][1]]
           g == [i \in 1 .. n |-> params[i].name]
<1>1. n \in Nat /\ Len(args) = n /\ P = 1 .. n /\ DOMAIN args = 1 .. n
  BY Typed DEF TypeInv
<1>2. {args[k][1] : k \in 1 .. n} = S /\ Cardinality(S) = n
  BY <1>1 DEF Proper
<1>3. f \in [1 .. n -> S] /\ \A s \in S : \E k \in 1 .. n : f[k] = s
  BY <1>2
<1>4. g \in [1 .. n -> S] /\ \A s \in S : \E i \in 1 .. n : g[i] = s
  BY <1>1
<1> HIDE DEF S, f, g
<1>5. \A k, l \in 1 .. n : f[k] = f[l] => k = l
  BY <1>1, <1>2, <1>3, EachOnce
<1>6. \A i, j \in 1 .. n : g[i] = g[j] => i = j
  BY <1>1, <1>2, <1>4, EachOnce
<1> QED
  BY <1>1, <1>5, <1>6 DEF f, g

\* Two arguments of a proper call are not bound to the same parameter.
LEMMA TargetsDiffer ==
    ASSUME TypeInv, phase = "binding", Proper(args),
           NEW k \in 1 .. Len(args), NEW l \in 1 .. Len(args), k # l
    PROVE  Target(k) \cap Target(l) = {}
<1>1. CASE IsPositional
  BY <1>1 DEF Target
<1>2. CASE ~ IsPositional
  BY <1>2, NamesDiffer DEF Target, FirstNamed
<1> QED
  BY <1>1, <1>2

\* An argument is bound to one parameter at most.
LEMMA OneTarget ==
    ASSUME TypeOK, NEW k, NEW i \in Target(k), NEW j \in Target(k)
    PROVE  i = j
<1>1. P = 1 .. Len(params) /\ Len(params) \in Nat
  BY Typed
<1>2. CASE IsPositional
  BY <1>2 DEF Target
<1>3. CASE ~ IsPositional
  <2>1. i \in FirstNamed(k) /\ j \in FirstNamed(k)
    BY <1>3 DEF Target
  <2>2. i \in 1 .. Len(params) /\ j \in 1 .. Len(params)
    BY <1>1, <2>1 DEF FirstNamed
  <2>3. ~ (i < j) /\ ~ (j < i)
    BY <2>1, <2>2 DEF FirstNamed
  <2> QED
    BY <2>2, <2>3
<1> QED
  BY <1>2, <1>3

\* In a proper call every argument has a parameter, and every parameter one.
LEMMA TargetsCover ==
    ASSUME TypeInv, OneKind, phase = "binding", Proper(args)
    PROVE  /\ \A i \in P : \E k \in 1 .. Len(args) : i \in Target(k)
           /\ \A k \in 1 .. Len(args) : \E i \in P : i \in Target(k)
<1>1. P = 1 .. Len(params) /\ Len(args) = Len(params) /\ DOMAIN args = 1 .. Len(args)
  BY Typed DEF TypeInv
<1>2. CASE IsPositional
  BY <1>1, <1>2 DEF Target
<1>3. CASE ~ IsPositional
  <2>1. \A i \in P : params[i].name # None
    <3>1. Len(params) \in Nat
      BY Typed DEF TypeInv
    <3>2. P # {} => 1 \in P /\ params # <<>>
      BY <1>1, <3>1
    <3> QED
      BY <1>3, <3>2 DEF OneKind, IsPositional
  <2>2. ASSUME NEW i \in P, NEW k \in 1 .. Len(args), params[i].name = args[k][1]
        PROVE  i \in Target(k)
    <3>1. ASSUME NEW j \in 1 .. i - 1 PROVE params[j].name \notin {None, args[k][1]}
      <4>1. j \in P /\ j # i
        BY <1>1, Typed DEF TypeInv
      <4> QED
        BY <4>1, <1>3, <2>1, <2>2, NamesDiffer
    <3> QED
      BY <1>3, <2>2, <3>1 DEF Target, FirstNamed
  <2>3. {args[k][1] : k \in 1 .. Len(args)} = {params[i].name : i \in P}
    BY <1>1, <1>3 DEF Proper
  <2>4. \A i \in P : \E k \in 1 .. Len(args) : params[i].name = args[k][1]
    BY <2>3
  <2>5. \A k \in 1 .. Len(args) : \E i \in P : params[i].name = args[k][1]
    BY <2>3
  <2> QED
    BY <2>2, <2>4, <2>5
<1> QED
  BY <1>2, <1>3

\* Parameter i has argument k of this execution and nothing has been freed since.
Has(i, k) ==
    /\ slot[i] = Given(args[k][2])
    /\ i \notin freed
    /\ IsOut(i) => outVar[i] = Given(args[k][2])

\* The loop so far: positional arguments are in their parameters, and those of a
\* proper call in the parameters they name.
PlacedInv ==
    /\ TypeInv /\ OneKind
    /\ phase = "new" => fault = "none"
    /\ \A i \in P : ~ IsOut(i) => outVar[i] = Unbound
    /\ phase = "binding" /\ IsPositional =>
          \A k \in P : args[k][1] = None /\ (k < at => slot[k] = Given(args[k][2]))
    /\ phase = "binding" /\ Proper(args) =>
          \A k \in 1 .. Len(args) : k < at => \A i \in Target(k) : Has(i, k)

\* One turn of the loop.
LEMMA TurnPlaces ==
    ASSUME PlacedInv, TypeInv', Binding, NEW i \in Target(at), i \in P, BindValue(i), NextArg,
           outVar' = [outVar EXCEPT ![i] = IF IsOut(i) THEN Given(Arg) ELSE Unbound]
    PROVE  PlacedInv'
<1>a. TypeInv /\ TypeOK /\ phase = "binding"
  BY DEF PlacedInv, TypeInv, Binding
<1>1. /\ at \in 1 .. Len(args) /\ P = 1 .. Len(params) /\ Len(args) = Len(params) /\ Len(args) \in Nat
      /\ DOMAIN args = 1 .. Len(args)
  BY <1>a, Typed DEF TypeInv, TypeOK, Binding
<1>2. UNCHANGED <<phase, params, args, runs, fault>> /\ at' = at + 1
  BY DEF NextArg
<1>3. /\ P' = P /\ IsPositional' = IsPositional /\ Proper(args)' = Proper(args)
      /\ \A k : Target(k)' = Target(k)
      /\ \A j : IsOut(j)' = IsOut(j)
      /\ \A o : Given(o)' = Given(o)
  BY <1>2, SameCall
<1>4. /\ DOMAIN slot = P /\ DOMAIN outVar = P
  BY <1>a DEF TypeOK
<1>5. slot' = [slot EXCEPT ![i] = Given(Arg)]
  BY DEF BindValue
<1>6. OneKind'
  BY <1>2, <1>3 DEF PlacedInv, OneKind
<1>7. \A j \in P : ~ IsOut(j) => outVar'[j] = Unbound
  BY <1>4 DEF PlacedInv
<1>8. ASSUME IsPositional, NEW k \in P, k < at + 1
      PROVE  slot'[k] = Given(args[k][2])
  <2>1. i = at
    BY <1>8 DEF Target
  <2>2. CASE k = at
    BY <1>4, <1>5, <2>1, <2>2 DEF Arg
  <2>3. CASE k # at
    <3>1. k < at
      BY <1>1, <1>8, <2>3
    <3> QED
      BY <1>a, <1>4, <1>5, <1>8, <2>1, <2>3, <3>1 DEF PlacedInv
  <2> QED
    BY <2>2, <2>3
<1>9. ASSUME Proper(args), NEW k \in 1 .. Len(args), k < at + 1, NEW j \in Target(k)
      PROVE  /\ slot'[j] = Given(args[k][2])
             /\ j \notin freed'
             /\ IsOut(j) => outVar'[j] = Given(args[k][2])
  <2>0. j \in P
    BY <1>1, <1>9 DEF Target, FirstNamed
  <2>1. CASE k = at
    <3>1. j = i
      BY <1>a, <1>9, <2>1, OneTarget
    <3> QED
      BY <1>4, <1>5, <2>0, <2>1, <3>1 DEF Arg, BindValue
  <2>2. CASE k # at
    <3>1. k < at
      BY <1>1, <1>9, <2>2
    <3>2. Has(j, k)
      BY <1>a, <1>9, <3>1 DEF PlacedInv
    <3>3. j # i
      BY <1>a, <1>1, <1>9, <2>2, TargetsDiffer
    <3>4. args[k][2] # Arg
      BY <1>1, <1>9, <2>2 DEF Proper, Arg
    <3>5. j \notin LosesBytes(Arg)
      BY <3>2, <3>4 DEF LosesBytes, Has, Given
    <3> QED
      BY <1>4, <1>5, <2>0, <3>2, <3>3, <3>5 DEF Has, BindValue
  <2> QED
    BY <2>1, <2>2
<1>10. IsPositional => \A k \in P : args[k][1] = None
  BY <1>a DEF PlacedInv
<1>11. (phase = "new" => fault = "none")'
  BY <1>a, <1>2
<1>12. (phase = "binding" /\ IsPositional =>
          \A k \in P : args[k][1] = None /\ (k < at => slot[k] = Given(args[k][2])))'
  BY <1>2, <1>3, <1>8, <1>10
<1>13. (phase = "binding" /\ Proper(args) =>
          \A k \in 1 .. Len(args) : k < at => \A j \in Target(k) : Has(j, k))'
  BY <1>2, <1>3, <1>9 DEF Has
<1> QED
  BY <1>3, <1>6, <1>7, <1>11, <1>12, <1>13 DEF PlacedInv

\* A crash changes none of this.
LEMMA StillPlaced ==
    ASSUME PlacedInv, TypeInv', UNCHANGED <<phase, params, slot, freed, outVar, runs, args, at>>,
           UNCHANGED fault \/ phase = "binding"
    PROVE  PlacedInv'
<1>1. /\ P' = P /\ IsPositional' = IsPositional /\ Proper(args)' = Proper(args)
      /\ \A k : Target(k)' = Target(k)
      /\ \A j : IsOut(j)' = IsOut(j)
      /\ \A o : Given(o)' = Given(o)
  BY SameCall
<1>2. OneKind'
  BY <1>1 DEF PlacedInv, OneKind
<1>3. \A i, k : Has(i, k)' = Has(i, k)
  BY <1>1 DEF Has
<1>4. (phase = "binding" /\ IsPositional =>
          \A k \in P : args[k][1] = None /\ (k < at => slot[k] = Given(args[k][2])))'
  BY <1>1 DEF PlacedInv
<1>5. (phase = "binding" /\ Proper(args) =>
          \A k \in 1 .. Len(args) : k < at => \A j \in Target(k) : Has(j, k))'
  <2> SUFFICES ASSUME phase = "binding", Proper(args), NEW k \in 1 .. Len(args), k < at,
                      NEW j \in Target(k)
               PROVE  Has(j, k)'
    BY <1>1
  <2> QED
    BY <1>3 DEF PlacedInv
<1> QED
  BY <1>1, <1>2, <1>4, <1>5 DEF PlacedInv

LEMMA PlacedInit == Init => PlacedInv
<1> SUFFICES ASSUME Init PROVE PlacedInv
  OBVIOUS
<1>1. P = {} /\ phase = "new" /\ fault = "none"
  BY DEF Init, P
<1> QED
  BY <1>1, TypeInit DEF PlacedInv, OneKind

LEMMA PlacedNext == PlacedInv /\ [Next]_vars => PlacedInv'
<1> SUFFICES ASSUME PlacedInv, [Next]_vars PROVE PlacedInv'
  OBVIOUS
<1>a. TypeInv' /\ TypeInv
  BY TypeNext DEF PlacedInv
<1>b. P = 1 .. Len(params) /\ Len(params) \in Nat
  <2>1. TypeOK
    BY DEF PlacedInv, TypeInv
  <2>2. P = 1 .. Len(params) /\ Len(params) \in 0 .. MaxParams /\ MaxParams \in Nat
    BY <2>1, Typed
  <2> QED
    BY <2>2
<1>1. ASSUME UNCHANGED <<params, outVar>>, phase' \in {"ready", "gone"}, phase' = "gone" => phase = "new"
      PROVE  PlacedInv'
  BY <1>a, <1>1 DEF PlacedInv, OneKind, P, IsOut
<1>2. CASE UNCHANGED vars
  BY <1>a, <1>2, StillPlaced DEF vars
<1>3. ASSUME NEW reported \in UpTo(Modes \X Hosts, MaxParams),
             NEW markers \in UpTo(Name \cup {None}, MaxParams), Prepare(markers, reported)
      PROVE  PlacedInv'
  <2>1. OneKind'
    BY <1>3, PreparedOfOneKind
  <2>2. phase' = "ready" /\ DOMAIN outVar' = P'
    BY <1>3, <1>a DEF Prepare, TypeInv, TypeOK
  <2>3. \A i \in P' : outVar'[i] = Unbound
    BY <1>3, <2>2 DEF Prepare
  <2> QED
    BY <1>a, <2>1, <2>2, <2>3 DEF PlacedInv
<1>4. ASSUME NEW a \in [1 .. Len(params) -> (IF IsPositional THEN {None} ELSE Name) \X Obj],
             Execute(a)
      PROVE  PlacedInv'
  <2>1. UNCHANGED <<params, outVar>> /\ phase' = "binding" /\ args' = a /\ at' = 1
    BY <1>4 DEF Execute
  <2>2. P' = P /\ P = 1 .. Len(params) /\ IsPositional' = IsPositional
    BY <1>b, <2>1 DEF P, IsPositional
  <2>3. IsPositional => \A k \in P : args'[k][1] = None
    BY <2>1, <2>2
  <2>4. \A k \in P : ~ (k < at')
    <3>1. P = 1 .. Len(params) /\ Len(params) \in Nat /\ at' = 1
      BY <1>b, <2>1
    <3> QED
      BY <3>1
  <2>5. 1 .. Len(args') = P
    BY <1>a, <2>1, <2>2 DEF TypeInv
  <2>6. OneKind' /\ \A i \in P' : IsOut(i)' = IsOut(i)
    BY <2>1, <2>2 DEF PlacedInv, OneKind, IsOut
  <2>7. \A i \in P' : ~ IsOut(i)' => outVar'[i] = Unbound
    BY <2>1, <2>2, <2>6 DEF PlacedInv
  <2> QED
    BY <1>a, <2>1, <2>2, <2>3, <2>4, <2>5, <2>6, <2>7 DEF PlacedInv
<1>5. ASSUME NEW f, Crash(f), phase = "binding" PROVE PlacedInv'
  BY <1>a, <1>5, StillPlaced DEF Crash
<1>6. ASSUME NEW i \in P, BindIn(i) PROVE PlacedInv'
  BY <1>a, <1>6, TurnPlaces DEF BindIn
<1>7. ASSUME NEW i \in P, BindOut(i) PROVE PlacedInv'
  BY <1>a, <1>7, TurnPlaces DEF BindOut
<1>8. ASSUME NEW r, Ends(r), UNCHANGED outVar PROVE PlacedInv'
  BY <1>1, <1>8 DEF Ends
<1>9. CASE ExecuteMiscounted
  BY <1>1, <1>9 DEF ExecuteMiscounted
<1>10. ASSUME NEW reported, NEW markers, PrepareFails(markers, reported) PROVE PlacedInv'
  BY <1>1, <1>10 DEF PrepareFails
<1> QED
  BY <1>2, <1>3, <1>4, <1>5, <1>6, <1>7, <1>8, <1>9, <1>10
  DEF Next, BindUnknownName, BindOtherType, BindTooLong, BindFails, ExecuteDangling, ExecuteFails, OutOverwrites,
      CopyOutputDangling, CopyOutput, Binding, Bound, Executes

----------------------------------------------------------------------------
(* The theorems about arguments. *)

\* After the loop every parameter of a proper call has its argument.
LEMMA AllPlaced ==
    ASSUME PlacedInv, Bound, Proper(args)
    PROVE  /\ \A i \in P : \E k \in 1 .. Len(args) : i \in Target(k) /\ Has(i, k)
           /\ \A k \in 1 .. Len(args) : \E i \in P : i \in Target(k) /\ Has(i, k)
<1>1. TypeInv /\ OneKind /\ phase = "binding"
  BY DEF PlacedInv, Bound
<1>2. at \in Nat /\ Len(args) \in Nat /\ at > Len(args)
  BY <1>1, Typed DEF TypeInv, TypeOK, Bound
<1>3. \A k \in 1 .. Len(args) : k < at
  BY <1>2
<1>4. \A k \in 1 .. Len(args) : \A i \in Target(k) : Has(i, k)
  BY <1>1, <1>3 DEF PlacedInv
<1> QED
  BY <1>1, <1>4, TargetsCover

\* Then no address is of an earlier execution, and no name of a variable.
LEMMA NothingOld ==
    ASSUME PlacedInv, Bound, Proper(args), NEW i \in P
    PROVE  /\ ~ Dangling(i)
           /\ outVar[i].run \in {0, runs}
           /\ outVar[i] # Unbound <=> IsOut(i)
<1>1. PICK k \in 1 .. Len(args) : Has(i, k)
  BY AllPlaced
<1>2. runs # 0 /\ (~ IsOut(i) => outVar[i] = Unbound)
  BY DEF PlacedInv, TypeInv, TypeOK, Bound
<1> QED
  BY <1>1, <1>2 DEF Has, Given, Dangling, Unbound

\* An execution with proper arguments of a statement whose results are numbers
\* makes no access to memory that is gone, whatever has been executed before.
THEOREM ProperCallsSafe == Spec => []ProperCallsAreSafe
<1> DEFINE SafeInv == PlacedInv /\ ProperCallsAreSafe
<1>1. Init => SafeInv
  BY PlacedInit DEF Init, ProperCallsAreSafe
<1>2. SafeInv /\ [Next]_vars => SafeInv'
  <2> SUFFICES ASSUME SafeInv, [Next]_vars PROVE ProperCallsAreSafe'
    BY PlacedNext
  <2>1. CASE fault' = "none"
    BY <2>1 DEF ProperCallsAreSafe
  <2>2. CASE UNCHANGED <<params, args, runs, fault>>
    <3>1. Proper(args)' = Proper(args) /\ NumbersOut' = NumbersOut
      BY <2>2, SameCall DEF NumbersOut, Indirect, IsOut
    <3> QED
      BY <2>2, <3>1 DEF ProperCallsAreSafe
  <2>3. ASSUME NEW f, Crash(f), ~ (Proper(args) /\ NumbersOut) PROVE ProperCallsAreSafe'
    <3>1. UNCHANGED <<params, args, runs>>
      BY <2>3 DEF Crash
    <3>2. Proper(args)' = Proper(args) /\ NumbersOut' = NumbersOut
      BY <3>1, SameCall DEF NumbersOut, Indirect, IsOut
    <3> QED
      BY <2>3, <3>2 DEF ProperCallsAreSafe
  <2>4. CASE BindUnknownName
    <3>1. TypeOK /\ OneKind
      BY DEF PlacedInv, TypeInv
    <3>2. \A i \in P : params[i].name # None
      BY <2>4, <3>1, SearchFindsNames DEF BindUnknownName
    <3> QED
      BY <2>1, <2>4, <3>2 DEF BindUnknownName, Binding, Running
  <2>5. ASSUME NEW i \in P, BindTooLong(i) PROVE ProperCallsAreSafe'
    <3>1. ~ NumbersOut
      BY <2>5 DEF BindTooLong, NumbersOut, Indirect
    <3> QED
      BY <2>3, <2>5, <3>1 DEF BindTooLong
  <2>6. CASE OutOverwrites
    BY <2>3, <2>6 DEF OutOverwrites, NumbersOut
  <2>7. CASE ExecuteDangling
    BY <2>3, <2>7, NothingOld DEF ExecuteDangling
  <2>8. CASE CopyOutputDangling
    BY <2>3, <2>8, NothingOld DEF CopyOutputDangling, Executes
  <2>9. CASE phase = "new"
    <3>1. fault = "none"
      BY <2>9 DEF PlacedInv
    <3>2. UNCHANGED fault
      BY <2>9 DEF Next, vars, Prepare, PrepareFails, Execute, ExecuteMiscounted, BindUnknownName, BindOtherType, BindIn,
        BindOut, BindTooLong, BindFails, ExecuteDangling, ExecuteFails, OutOverwrites,
        CopyOutputDangling, CopyOutput, Binding, Bound, Executes
    <3> QED
      BY <2>1, <3>1, <3>2
  <2>10. ASSUME phase # "new",
                \/ \E a : Execute(a)
                \/ ExecuteMiscounted \/ BindOtherType \/ ExecuteFails
                \/ \E i \in P : BindIn(i) \/ BindOut(i) \/ BindFails(i)
                \/ CopyOutput
         PROVE  fault' = "none"
    BY <2>10 DEF Execute, ExecuteMiscounted, BindOtherType, ExecuteFails, BindIn, BindOut, BindFails, CopyOutput,
                 Binding, Bound, Executes, Running, NextArg
  <2> QED
    BY <2>1, <2>2, <2>4, <2>5, <2>6, <2>7, <2>8, <2>9, <2>10
    DEF Next, vars, Prepare, PrepareFails
<1>3. SafeInv => ProperCallsAreSafe
  OBVIOUS
<1> QED
  BY <1>1, <1>2, <1>3, PTL DEF Spec

\* Positional arguments reach the database in the execution they were given to.
THEOREM PositionalArgumentsArrive == Spec => []PositionalIsOfThisRun
<1> DEFINE PosInv == PlacedInv /\ PositionalIsOfThisRun
<1>1. Init => PosInv
  BY PlacedInit DEF Init, PositionalIsOfThisRun
<1>2. PosInv /\ [Next]_vars => PosInv'
  <2> SUFFICES ASSUME PosInv, [Next]_vars PROVE PositionalIsOfThisRun'
    BY PlacedNext
  <2>1. CASE reply'.res # "ok"
    BY <2>1 DEF PositionalIsOfThisRun
  <2>2. CASE UNCHANGED <<params, reply>>
    BY <2>2 DEF PositionalIsOfThisRun, IsPositional, P, Indirect, IsOut
  <2>3. CASE phase = "new"
    <3>1. reply.res = "none"
      BY <2>3 DEF PlacedInv, TypeInv
    <3>2. UNCHANGED reply
      BY <2>3 DEF Next, vars, Prepare, PrepareFails, Execute, ExecuteMiscounted, BindUnknownName, BindOtherType, BindIn,
        BindOut, BindTooLong, BindFails, ExecuteDangling, ExecuteFails, OutOverwrites,
        CopyOutputDangling, CopyOutput, Binding, Bound, Executes
    <3> QED
      BY <2>1, <3>1, <3>2
  <2>4. CASE CopyOutput
    <3>1. /\ reply'.sent = Sent /\ reply'.run = runs /\ reply'.args = args
          /\ UNCHANGED params /\ Bound
      BY <2>4 DEF CopyOutput, Ends, Executes
    <3>2. P' = P /\ IsPositional' = IsPositional /\ Indirect' = Indirect
      BY <3>1 DEF P, IsPositional, Indirect, IsOut
    <3>3. \A i \in P : i < at
      BY <3>1, Typed DEF PlacedInv, TypeInv, TypeOK, Bound
    <3>4. IsPositional => \A i \in P : slot[i] = Given(args[i][2])
      BY <3>1, <3>3 DEF PlacedInv, Bound
    <3>5. \A i \in P \ Indirect : Sent[i] = slot[i]
      BY DEF Sent
    <3> QED
      BY <3>1, <3>2, <3>4, <3>5 DEF PositionalIsOfThisRun, Given
  <2> QED
    BY <2>1, <2>2, <2>3, <2>4
    DEF Next, vars, Prepare, PrepareFails, Execute, ExecuteMiscounted, BindUnknownName, BindOtherType, BindIn, BindOut,
        NextArg, BindTooLong, BindFails, Ends, Failed, Crash, ExecuteDangling, ExecuteFails,
        OutOverwrites, CopyOutputDangling
<1>3. PosInv => PositionalIsOfThisRun
  OBVIOUS
<1> QED
  BY <1>1, <1>2, <1>3, PTL DEF Spec

\* As many variables are written as there are OUT parameters.
LEMMA OneVariableEach ==
    ASSUME NEW S, IsFiniteSet(S), NEW W, NEW f \in Bijection(S, W)
    PROVE  Cardinality(W) = Cardinality(S)
BY FS_Bijection DEF ExistsBijection

\* An execution with proper arguments of a statement whose results are numbers
\* sends every parameter its argument and stores every OUT parameter in its
\* variable, and nothing else.
THEOREM ProperCallsComplete == Spec => []ProperCallsAreComplete
<1> DEFINE CompleteInv == PlacedInv /\ ProperCallsAreComplete
<1>1. Init => CompleteInv
  BY PlacedInit DEF Init, ProperCallsAreComplete
<1>2. CompleteInv /\ [Next]_vars => CompleteInv'
  <2> SUFFICES ASSUME CompleteInv, [Next]_vars PROVE ProperCallsAreComplete'
    BY PlacedNext
  <2>1. CASE reply'.res # "ok"
    BY <2>1 DEF ProperCallsAreComplete
  <2>2. CASE UNCHANGED <<params, reply>>
    <3>1. /\ P' = P /\ IsPositional' = IsPositional /\ NumbersOut' = NumbersOut
          /\ \A i : IsOut(i)' = IsOut(i)
      BY <2>2 DEF P, IsPositional, IsOut, NumbersOut, Indirect
    <3>2. Proper(reply.args)' = Proper(reply.args)
      BY <2>2, <3>1 DEF Proper
    <3>3. {i \in P : IsOut(i)}' = {i \in P : IsOut(i)}
      BY <3>1
    <3> QED
      BY <2>2, <3>1, <3>2, <3>3 DEF ProperCallsAreComplete
  <2>3. CASE phase = "new"
    <3>1. reply.res = "none"
      BY <2>3 DEF PlacedInv, TypeInv
    <3>2. UNCHANGED reply
      BY <2>3 DEF Next, vars, Prepare, PrepareFails, Execute, ExecuteMiscounted, BindUnknownName, BindOtherType, BindIn,
        BindOut, BindTooLong, BindFails, ExecuteDangling, ExecuteFails, OutOverwrites,
        CopyOutputDangling, CopyOutput, Binding, Bound, Executes
    <3> QED
      BY <2>1, <3>1, <3>2
  <2>4. CASE CopyOutput
    <3> DEFINE Outs == {i \in P : IsOut(i)}
               Written(i) == [param |-> i, var |-> outVar[i].obj]
               W == {Written(i) : i \in Outs}
    <3>1. /\ reply'.sent = Sent /\ reply'.args = args /\ reply'.run = runs
          /\ reply'.wrote = {Written(i) : i \in {j \in P : outVar[j] # Unbound}}
          /\ UNCHANGED <<params, args, runs>> /\ Bound
      BY <2>4 DEF CopyOutput, Ends, Executes
    <3>2. /\ P' = P /\ IsPositional' = IsPositional /\ Proper(args)' = Proper(args)
          /\ \A i : IsOut(i)' = IsOut(i)
      BY <3>1, SameCall
    <3>3. NumbersOut' = NumbersOut /\ Outs' = Outs
      BY <3>1, <3>2 DEF NumbersOut, Indirect
    <3> SUFFICES ASSUME Proper(args), NumbersOut
                  PROVE  /\ \A k \in 1 .. Len(args) : \E i \in P :
                               /\ params[i].name = args[k][1]
                               /\ IsPositional => i = k
                               /\ Sent[i].obj = args[k][2]
                               /\ IsOut(i) <=> \E w \in reply'.wrote : w.param = i /\ w.var = args[k][2]
                         /\ Cardinality(reply'.wrote) = Cardinality(Outs)
      <4>1. DOMAIN args = 1 .. Len(args)
        BY Typed DEF PlacedInv, TypeInv
      <4> QED
        BY <3>1, <3>2, <3>3, <4>1 DEF ProperCallsAreComplete
    <3>4. {j \in P : outVar[j] # Unbound} = Outs
      BY <3>1, NothingOld
    <3>5. reply'.wrote = W
      BY <3>1, <3>4
    <3>6. \A i \in P : Sent[i] = slot[i]
      BY DEF Sent, NumbersOut
    <3>7. ASSUME NEW k \in 1 .. Len(args)
          PROVE  \E i \in P : /\ params[i].name = args[k][1]
                              /\ IsPositional => i = k
                              /\ Sent[i].obj = args[k][2]
                              /\ IsOut(i) <=> \E w \in W : w.param = i /\ w.var = args[k][2]
      <4>1. PICK i \in P : i \in Target(k) /\ Has(i, k)
        BY <3>1, AllPlaced
      <4>2. IsPositional => i = k
        BY <4>1 DEF Target
      <4>3. params[i].name = args[k][1]
        <5>1. CASE IsPositional
          <6>1. args[k][1] = None
            BY <3>1, <4>2, <5>1 DEF PlacedInv, Bound
          <6>2. P = 1 .. Len(params) /\ 1 \in P
            BY <4>1, Typed DEF PlacedInv, TypeInv
          <6> QED
            BY <5>1, <6>1, <6>2 DEF IsPositional, PlacedInv, OneKind
        <5>2. CASE ~ IsPositional
          BY <4>1, <5>2 DEF Target, FirstNamed
        <5> QED
          BY <5>1, <5>2
      <4>4. Sent[i].obj = args[k][2]
        BY <3>6, <4>1 DEF Has, Given
      <4>5. ASSUME IsOut(i) PROVE Written(i) \in W /\ Written(i).param = i /\ Written(i).var = args[k][2]
        BY <4>1, <4>5 DEF Has, Given
      <4>6. ASSUME NEW w \in W, w.param = i PROVE IsOut(i)
        BY <4>6
      <4> QED
        BY <4>2, <4>3, <4>4, <4>5, <4>6
    <3>8. Cardinality(W) = Cardinality(Outs)
      <4> DEFINE f == [i \in Outs |-> Written(i)]
      <4>1. f \in Bijection(Outs, W)
        <5>1. \A i, j \in Outs : Written(i) = Written(j) => i = j
          OBVIOUS
        <5> QED
          BY <5>1 DEF Bijection, Injection, Surjection, IsInjective
      <4>2. IsFiniteSet(Outs)
        <5>1. P = 1 .. Len(params) /\ Len(params) \in Nat
          BY Typed DEF PlacedInv, TypeInv
        <5>2. IsFiniteSet(P)
          BY <5>1, FS_Interval
        <5> QED
          BY <5>2, FS_Subset
      <4> QED
        BY <4>1, <4>2, OneVariableEach
    <3> QED
      BY <3>5, <3>7, <3>8
  <2> QED
    BY <2>1, <2>2, <2>3, <2>4
    DEF Next, vars, Prepare, PrepareFails, Execute, ExecuteMiscounted, BindUnknownName, BindOtherType, BindIn, BindOut,
        NextArg, BindTooLong, BindFails, Ends, Failed, Crash, ExecuteDangling, ExecuteFails,
        OutOverwrites, CopyOutputDangling
<1>3. CompleteInv => ProperCallsAreComplete
  OBVIOUS
<1> QED
  BY <1>1, <1>2, <1>3, PTL DEF Spec
=============================================================================
