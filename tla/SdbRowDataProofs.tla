--------------------------- MODULE SdbRowDataProofs ---------------------------
(***************************************************************************)
(* Theorems about SdbRowData, for any finite set of variables and any      *)
(* numbers of columns, calls and copies.                                   *)
(***************************************************************************)
EXTENDS SdbRowData, FiniteSetTheorems, SequenceTheorems, TLAPS

----------------------------------------------------------------------------
(* Counting references in a sequence or an array. *)

At == UNION {[D -> Obj] : D \in SUBSET Cols}

\* What there is under label s of an array.
Before(f, s) == IF s \in DOMAIN f THEN <<f[s]>> ELSE <<>>

LEMMA Constants == NCols \in Nat /\ NCols > 0 /\ MaxCalls \in Nat /\ IsFiniteSet(Var) /\ NoVar \notin Var
BY RowDataAssumption

LEMMA AtType ==
    /\ \A f \in At : DOMAIN f \subseteq Cols /\ f \in [DOMAIN f -> Obj]
    /\ \A D \in SUBSET Cols : \A f \in [D -> Obj] : f \in At
BY DEF At

LEMMA AtFinite == ASSUME NEW f \in At PROVE IsFiniteSet(DOMAIN f) /\ DOMAIN f \subseteq Cols
<1>1. DOMAIN f \subseteq Cols
  BY DEF At
<1>2. IsFiniteSet(Cols)
  BY Constants, FS_Interval DEF Cols
<1> QED
  BY <1>1, <1>2, FS_Subset

LEMMA SeqFinite == ASSUME NEW S, NEW f \in Seq(S) PROVE IsFiniteSet(DOMAIN f)
<1>1. DOMAIN f = 1 .. Len(f) /\ Len(f) \in Nat
  BY LenProperties
<1> QED
  BY <1>1, FS_Interval

LEMMA NumberNat ==
    ASSUME NEW f, IsFiniteSet(DOMAIN f), NEW o
    PROVE  /\ Number(f, o) \in Nat
           /\ Number(f, o) = 0 <=> \A s \in DOMAIN f : f[s] # o
<1> DEFINE S == {s \in DOMAIN f : f[s] = o}
<1>1. IsFiniteSet(S)
  BY FS_Subset
<1>2. Cardinality(S) \in Nat /\ (Cardinality(S) = 0 <=> S = {})
  BY <1>1, FS_CardinalityType, FS_EmptySet
<1> QED
  BY <1>2 DEF Number

LEMMA NumberNone == \A o : Number(<<>>, o) = 0
<1> TAKE o
<1>1. {s \in DOMAIN <<>> : <<>>[s] = o} = {}
  OBVIOUS
<1> QED
  BY <1>1, FS_EmptySet DEF Number

LEMMA NumberOne == ASSUME NEW e, NEW o PROVE Number(<<e>>, o) = IF e = o THEN 1 ELSE 0
<1>1. DOMAIN <<e>> = {1} /\ <<e>>[1] = e
  OBVIOUS
<1>2. {s \in DOMAIN <<e>> : <<e>>[s] = o} = IF e = o THEN {1} ELSE {}
  BY <1>1
<1> QED
  BY <1>2, FS_EmptySet, FS_Singleton DEF Number

\* The references in f are those that are not under s and what is under s.
Others(f, s, o) == Cardinality({t \in DOMAIN f : t # s /\ f[t] = o})

LEMMA NumberSplit ==
    ASSUME NEW f, IsFiniteSet(DOMAIN f), NEW s, NEW o
    PROVE  /\ Others(f, s, o) \in Nat
           /\ Number(f, o) = Others(f, s, o) + Number(Before(f, s), o)
<1> DEFINE A == {t \in DOMAIN f : t # s /\ f[t] = o}
           S == {t \in DOMAIN f : f[t] = o}
<1>1. IsFiniteSet(A)
  BY FS_Subset
<1>2. Cardinality(A) \in Nat /\ Cardinality(A \cup {s}) = Cardinality(A) + 1
  BY <1>1, FS_CardinalityType, FS_AddElement
<1>3. CASE s \in DOMAIN f
  <2>1. Number(Before(f, s), o) = IF f[s] = o THEN 1 ELSE 0
    BY <1>3, NumberOne DEF Before
  <2>2. S = IF f[s] = o THEN A \cup {s} ELSE A
    BY <1>3
  <2> QED
    BY <1>2, <2>1, <2>2 DEF Number, Others
<1>4. CASE s \notin DOMAIN f
  <2>1. Number(Before(f, s), o) = 0 /\ S = A
    BY <1>4, NumberNone DEF Before
  <2> QED
    BY <1>2, <2>1 DEF Number, Others
<1> QED
  BY <1>3, <1>4

LEMMA BeforeNat == ASSUME NEW f, NEW s, NEW o PROVE Number(Before(f, s), o) \in Nat
BY NumberOne, NumberNone DEF Before

\* Two arrays that agree outside s differ in what they have under s.
LEMMA NumberDiffers ==
    ASSUME NEW f, NEW g, IsFiniteSet(DOMAIN f), IsFiniteSet(DOMAIN g), NEW s, NEW o,
           DOMAIN f \ {s} = DOMAIN g \ {s},
           \A t \in DOMAIN f \ {s} : f[t] = g[t]
    PROVE  Number(g, o) = Number(f, o) + Number(Before(g, s), o) - Number(Before(f, s), o)
<1>1. {t \in DOMAIN f : t # s /\ f[t] = o} = {t \in DOMAIN g : t # s /\ g[t] = o}
  OBVIOUS
<1>2. Others(f, s, o) = Others(g, s, o)
  BY <1>1 DEF Others
<1>3. Number(g, o) = Others(g, s, o) + Number(Before(g, s), o)
  BY NumberSplit
<1>4. Number(f, o) = Others(f, s, o) + Number(Before(f, s), o) /\ Others(f, s, o) \in Nat
  BY NumberSplit
<1> QED
  BY <1>2, <1>3, <1>4, BeforeNat

LEMMA BeforeFinite == ASSUME NEW f, NEW s PROVE IsFiniteSet(DOMAIN Before(f, s))
<1>1. DOMAIN <<>> = {} /\ \A e : DOMAIN <<e>> = {1}
  OBVIOUS
<1>2. DOMAIN Before(f, s) = {} \/ DOMAIN Before(f, s) = {1}
  BY <1>1 DEF Before
<1> QED
  BY <1>2, FS_EmptySet, FS_Singleton

LEMMA NumberPut ==
    ASSUME NEW f \in At, NEW s \in Cols, NEW e \in Obj
    PROVE  LET g == [t \in DOMAIN f \cup {s} |-> IF t = s THEN e ELSE f[t]]
           IN  /\ g \in At
               /\ \A o : Number(g, o) = Number(f, o) + Number(<<e>>, o) - Number(Before(f, s), o)
<1> DEFINE g == [t \in DOMAIN f \cup {s} |-> IF t = s THEN e ELSE f[t]]
<1>1. g \in At
  <2>1. DOMAIN f \cup {s} \subseteq Cols /\ f \in [DOMAIN f -> Obj]
    BY AtType
  <2>2. g \in [DOMAIN f \cup {s} -> Obj]
    BY <2>1
  <2> HIDE DEF g
  <2> QED
    BY <2>1, <2>2, AtType
<1>2. IsFiniteSet(DOMAIN f) /\ IsFiniteSet(DOMAIN g)
  <2> HIDE DEF g
  <2> QED
    BY <1>1, AtFinite
<1>3. /\ DOMAIN f \ {s} = DOMAIN g \ {s}
      /\ \A t \in DOMAIN f \ {s} : f[t] = g[t]
      /\ Before(g, s) = <<e>>
  BY DEF Before
<1> HIDE DEF g
<1>4. \A o : Number(g, o) = Number(f, o) + Number(<<e>>, o) - Number(Before(f, s), o)
  BY <1>2, <1>3, NumberDiffers
<1> QED
  BY <1>1, <1>4 DEF g

LEMMA NumberTake ==
    ASSUME NEW f \in At, NEW s
    PROVE  LET g == [t \in DOMAIN f \ {s} |-> f[t]]
           IN  /\ g \in At
               /\ \A o : Number(g, o) = Number(f, o) - Number(Before(f, s), o)
<1> DEFINE g == [t \in DOMAIN f \ {s} |-> f[t]]
<1>1. g \in At
  <2>1. DOMAIN f \ {s} \subseteq Cols /\ f \in [DOMAIN f -> Obj]
    BY AtType
  <2>2. g \in [DOMAIN f \ {s} -> Obj]
    BY <2>1
  <2> HIDE DEF g
  <2> QED
    BY <2>1, <2>2, AtType
<1>2. IsFiniteSet(DOMAIN f) /\ IsFiniteSet(DOMAIN g)
  <2> HIDE DEF g
  <2> QED
    BY <1>1, AtFinite
<1>3. /\ DOMAIN f \ {s} = DOMAIN g \ {s}
      /\ \A t \in DOMAIN f \ {s} : f[t] = g[t]
      /\ Before(g, s) = <<>>
  BY DEF Before
<1>4. \A o : Number(f, o) \in Nat
  BY <1>2, NumberNat
<1> HIDE DEF g
<1>5. \A o : Number(g, o) = Number(f, o) - Number(Before(f, s), o)
  <2> TAKE o
  <2>1. Number(g, o) = Number(f, o) + Number(Before(g, s), o) - Number(Before(f, s), o)
    BY <1>2, <1>3, NumberDiffers
  <2>2. Number(Before(g, s), o) = 0
    BY <1>3, NumberNone
  <2> QED
    BY <2>1, <2>2, <1>4, BeforeNat
<1> QED
  BY <1>1, <1>5 DEF g

----------------------------------------------------------------------------
(* Counting references in all variables; f is what each of them has. *)

Held(f, o) == {p \in Var \X Cols : p[2] \in DOMAIN f[p[1]] /\ f[p[1]][p[2]] = o}

LEMMA HeldFinite == ASSUME NEW f, NEW o PROVE IsFiniteSet(Held(f, o)) /\ Cardinality(Held(f, o)) \in Nat
<1>1. IsFiniteSet(Var) /\ IsFiniteSet(Cols)
  BY Constants, FS_Interval DEF Cols
<1>2. IsFiniteSet(Var \X Cols)
  BY <1>1, FS_Product
<1>3. Held(f, o) \in SUBSET (Var \X Cols)
  BY DEF Held
<1>4. IsFiniteSet(Held(f, o))
  BY <1>2, <1>3, FS_Subset
<1> QED
  BY <1>4, FS_CardinalityType

\* Those of variable x and those of the others.
HeldElsewhere(f, x, o) == {p \in Held(f, o) : p[1] # x}

LEMMA HeldSplit ==
    ASSUME NEW f \in [Var -> At], NEW x \in Var, NEW o
    PROVE  /\ Cardinality(HeldElsewhere(f, x, o)) \in Nat
           /\ Cardinality(Held(f, o)) = Cardinality(HeldElsewhere(f, x, o)) + Number(f[x], o)
<1> DEFINE S == {s \in DOMAIN f[x] : f[x][s] = o}
<1>1. DOMAIN f[x] \subseteq Cols /\ IsFiniteSet(DOMAIN f[x])
  BY AtFinite
<1>2. IsFiniteSet(S) /\ IsFiniteSet({x}) /\ Cardinality({x}) = 1 /\ Cardinality(S) \in Nat
  BY <1>1, FS_Subset, FS_Singleton, FS_CardinalityType
<1>3. IsFiniteSet({x} \X S) /\ Cardinality({x} \X S) = Cardinality(S)
  BY <1>2, FS_Product
<1>4. IsFiniteSet(HeldElsewhere(f, x, o)) /\ Cardinality(HeldElsewhere(f, x, o)) \in Nat
  BY HeldFinite, FS_Subset, FS_CardinalityType DEF HeldElsewhere
<1>5. /\ Held(f, o) = HeldElsewhere(f, x, o) \cup ({x} \X S)
      /\ HeldElsewhere(f, x, o) \cap ({x} \X S) = {}
  BY <1>1 DEF HeldElsewhere, Held
<1>6. Cardinality(Held(f, o)) = Cardinality(HeldElsewhere(f, x, o)) + Cardinality(S) - 0
  BY <1>3, <1>4, <1>5, FS_Union, FS_EmptySet
<1> QED
  BY <1>2, <1>4, <1>6 DEF Number

LEMMA HeldMoved ==
    ASSUME NEW f \in [Var -> At], NEW x \in Var, NEW v \in At, NEW o
    PROVE  Cardinality(Held([f EXCEPT ![x] = v], o))
             = Cardinality(Held(f, o)) + Number(v, o) - Number(f[x], o)
<1> DEFINE g == [f EXCEPT ![x] = v]
<1>1. g \in [Var -> At] /\ g[x] = v
  OBVIOUS
<1>2. HeldElsewhere(g, x, o) = HeldElsewhere(f, x, o)
  BY DEF HeldElsewhere, Held
<1> HIDE DEF g
<1>3. Cardinality(Held(g, o)) = Cardinality(HeldElsewhere(g, x, o)) + Number(g[x], o)
  BY <1>1, HeldSplit
<1>4. /\ Cardinality(Held(f, o)) = Cardinality(HeldElsewhere(f, x, o)) + Number(f[x], o)
      /\ Cardinality(HeldElsewhere(f, x, o)) \in Nat
  BY HeldSplit
<1>5. Number(f[x], o) \in Nat /\ Number(v, o) \in Nat
  BY AtFinite, NumberNat
<1> QED
  BY <1>1, <1>2, <1>3, <1>4, <1>5 DEF g

\* A value that is in a variable is held.
LEMMA HeldSome ==
    ASSUME NEW f \in [Var -> At], NEW o
    PROVE  /\ Cardinality(Held(f, o)) = 0 <=> \A x \in Var : \A s \in DOMAIN f[x] : f[x][s] # o
           /\ \A x \in Var : Number(f[x], o) <= Cardinality(Held(f, o))
<1>1. Cardinality(Held(f, o)) = 0 <=> Held(f, o) = {}
  BY HeldFinite, FS_EmptySet
<1>2. \A x \in Var : DOMAIN f[x] \subseteq Cols
  BY AtFinite
<1>3. Held(f, o) = {} <=> \A x \in Var : \A s \in DOMAIN f[x] : f[x][s] # o
  <2>1. ASSUME NEW x \in Var, NEW s \in DOMAIN f[x], f[x][s] = o PROVE <<x, s>> \in Held(f, o)
    BY <1>2, <2>1 DEF Held
  <2>2. ASSUME NEW p \in Held(f, o) PROVE p[1] \in Var /\ p[2] \in DOMAIN f[p[1]] /\ f[p[1]][p[2]] = o
    BY DEF Held
  <2> QED
    BY <2>1, <2>2
<1>4. ASSUME NEW x \in Var PROVE Number(f[x], o) <= Cardinality(Held(f, o))
  BY HeldSplit, AtFinite, NumberNat
<1> QED
  BY <1>1, <1>3, <1>4

----------------------------------------------------------------------------
(* Reference counts. *)

\* The counts m agree with count; one that has been freed has none.
Counted(m, count) == \A o \in Obj : IF m[o] = Freed THEN count[o] = 0 ELSE m[o] = count[o]

\* Rebind keeps counts and references in step, if nothing that is freed gains one.
LEMMA RebindCounts ==
    ASSUME NEW m \in [Obj -> Int], NEW gained, NEW lost,
           IsFiniteSet(DOMAIN gained), IsFiniteSet(DOMAIN lost),
           NEW before \in [Obj -> Nat], NEW after \in [Obj -> Nat], Counted(m, before),
           \A o \in Obj : after[o] = before[o] + Number(gained, o) - Number(lost, o),
           \A s \in DOMAIN gained : gained[s] \in Obj => m[gained[s]] # Freed
    PROVE  /\ Rebind(m, gained, lost) \in [Obj -> Int]
           /\ Counted(Rebind(m, gained, lost), after)
           /\ \A o \in Obj : Number(lost, o) = 0 =>
                 /\ Number(gained, o) = 0 => Rebind(m, gained, lost)[o] = m[o]
                 /\ m[o] # Freed => Rebind(m, gained, lost)[o] # Freed
           /\ \A o \in Obj : after[o] > 0 => Rebind(m, gained, lost)[o] # Freed
<1>1. \A o \in Obj : Number(gained, o) \in Nat /\ Number(lost, o) \in Nat
  BY NumberNat
<1>2. Rebind(m, gained, lost) \in [Obj -> Int]
  BY <1>1 DEF Rebind, Freed
<1>3. ASSUME NEW o \in Obj
      PROVE  /\ IF Rebind(m, gained, lost)[o] = Freed THEN after[o] = 0
                ELSE Rebind(m, gained, lost)[o] = after[o]
             /\ Number(lost, o) = 0 =>
                 /\ Number(gained, o) = 0 => Rebind(m, gained, lost)[o] = m[o]
                 /\ m[o] # Freed => Rebind(m, gained, lost)[o] # Freed
             /\ after[o] > 0 => Rebind(m, gained, lost)[o] # Freed
  <2> DEFINE g == Number(gained, o)
             l == Number(lost, o)
             r == Rebind(m, gained, lost)[o]
  <2>1. g \in Nat /\ l \in Nat /\ m[o] \in Int /\ before[o] \in Nat /\ after[o] \in Nat
    BY <1>1
  <2>2. r = IF m[o] + g - l = 0 /\ l > 0 THEN -1 ELSE m[o] + g - l
    BY DEF Rebind, Freed
  <2>3. after[o] = before[o] + g - l
    OBVIOUS
  <2>4. IF m[o] = -1 THEN before[o] = 0 ELSE m[o] = before[o]
    BY DEF Counted, Freed
  <2>5. m[o] = -1 => g = 0
    BY NumberNat DEF Freed
  <2> HIDE DEF g, l, r
  <2>6. /\ IF r = -1 THEN after[o] = 0 ELSE r = after[o]
        /\ l = 0 => (g = 0 => r = m[o]) /\ (m[o] # -1 => r # -1)
        /\ after[o] > 0 => r # -1
    BY <2>1, <2>2, <2>3, <2>4, <2>5
  <2> QED
    BY <2>6 DEF g, l, r, Freed
<1> QED
  BY <1>2, <1>3 DEF Counted

----------------------------------------------------------------------------
(* The invariant the counts rest on. *)

\* What each variable has.
Places == [x \in Var |-> tcl[x].at]

\* The references there are to each value.
Count == [o \in Obj |-> Holders(o) + owned[o]]

InProgress(mode) == call.mode = mode /\ call.at # "ended"

TclTyped == tcl \in [Var -> [form : {"none", "array", "value"}, at : At]]

CallTyped ==
    /\ call.at # "ended" => now > 0 /\ call.mode # "none"
    /\ call.mode \in {"array", "list"} => call.row \in Var
    /\ InProgress("out") => call.at = "row" /\ call.nulls = {}

\* The types without the lifetime of the values.
TypeBase ==
    /\ label \in [Cols -> Cols]
    /\ now \in 0 .. MaxCalls
    /\ call \in [mode : {"none", "array", "list", "out"}, at : {"row", "ind", "ended"},
                 col : Cols, nulls : SUBSET Cols, row : Var \cup {NoVar},
                 ind : Var \cup {NoVar}, quiet : BOOLEAN]
    /\ call.at = "ind" => call.ind \in Var
    /\ mem \in [Obj -> Int]
    /\ \A x \in Var : /\ tcl[x].form \in {"none", "array", "value"}
                      /\ DOMAIN tcl[x].at \subseteq Cols
                      /\ tcl[x].form = "none" => tcl[x].at = <<>>
    /\ kept \subseteq Obj
    /\ owned \in [Obj -> Nat]
    /\ listed \subseteq Obj
    /\ fault \in {"none", "freedValue", "outValue"}

Typed == TypeBase /\ TclTyped /\ CallTyped

\* What the types say of the call and of the rest.
CallOK ==
    /\ now \in 0 .. MaxCalls
    /\ call \in [mode : {"none", "array", "list", "out"}, at : {"row", "ind", "ended"},
                 col : Cols, nulls : SUBSET Cols, row : Var \cup {NoVar},
                 ind : Var \cup {NoVar}, quiet : BOOLEAN]
    /\ call.at = "ind" => call.ind \in Var
    /\ CallTyped

DataOK ==
    /\ label \in [Cols -> Cols]
    /\ mem \in [Obj -> Int]
    /\ TclTyped
    /\ \A x \in Var : tcl[x].form = "none" => tcl[x].at = <<>>
    /\ kept \subseteq Obj
    /\ owned \in [Obj -> Nat]
    /\ listed \subseteq Obj
    /\ fault \in {"none", "freedValue", "outValue"}

\* No value of a later call has been made.
NewAreUnused == \A o \in Obj : o[1] > now => mem[o] = 0

\* While it builds or stores lists, getRowData has the references it gives back
\* at Error_Exit; it has no others but those lost to lists that were stored.
OwnedAreListed ==
    \A o \in Obj :
        IF InProgress("list") /\ o[1] = now
        THEN /\ owned[o] = Number(GivenBack, o)
             /\ call.at = "ind" /\ (\E c \in Cols : o = Data(c)) => o \in listed
        ELSE owned[o] > 0 => o \in listed

\* copyOutput has not made the values of the parameters to come.
OutAreUnused == InProgress("out") => \A c \in call.col .. NCols : mem[<<now, c>>] = 0

CountInv == Typed /\ Counted(mem, Count) /\ NewAreUnused /\ OwnedAreListed /\ OutAreUnused

----------------------------------------------------------------------------
LEMMA CountIs ==
    ASSUME owned \in [Obj -> Nat]
    PROVE  /\ Count \in [Obj -> Nat]
           /\ \A o \in Obj :
                /\ Cardinality(Held(Places, o)) \in Nat
                /\ Count[o] = Cardinality(Held(Places, o)) + (IF o \in kept THEN 1 ELSE 0) + owned[o]
<1>1. ASSUME NEW o \in Obj
      PROVE  /\ Cardinality(Held(Places, o)) \in Nat
             /\ Holders(o) = Cardinality(Held(Places, o)) + IF o \in kept THEN 1 ELSE 0
  <2>1. Cardinality(Held(Places, o)) \in Nat
    BY HeldFinite
  <2>2. Held(Places, o) = {p \in Var \X Cols : p[2] \in DOMAIN tcl[p[1]].at /\ tcl[p[1]].at[p[2]] = o}
    BY DEF Held, Places
  <2> QED
    BY <2>1, <2>2 DEF Holders
<1> QED
  BY <1>1 DEF Count

LEMMA CountIsNext ==
    ASSUME (owned \in [Obj -> Nat])'
    PROVE  /\ Count' \in [Obj -> Nat]
           /\ \A o \in Obj :
                /\ Cardinality(Held(Places', o)) \in Nat
                /\ Count'[o] = Cardinality(Held(Places', o)) + (IF o \in kept' THEN 1 ELSE 0) + owned'[o]
<1>1. ASSUME NEW o \in Obj
      PROVE  /\ Cardinality(Held(Places', o)) \in Nat
             /\ Holders(o)' = Cardinality(Held(Places', o)) + IF o \in kept' THEN 1 ELSE 0
  <2>1. Cardinality(Held(Places', o)) \in Nat
    BY HeldFinite
  <2>2. Held(Places', o) = {p \in Var \X Cols : p[2] \in DOMAIN tcl'[p[1]].at /\ tcl'[p[1]].at[p[2]] = o}
    BY DEF Held, Places
  <2> QED
    BY <2>1, <2>2 DEF Holders
<1> QED
  BY <1>1 DEF Count

LEMMA PlacesTyped == ASSUME TclTyped PROVE Places \in [Var -> At]
BY DEF TclTyped, Places

LEMMA EmptyAt == <<>> \in At
<1>1. <<>> \in [{} -> Obj]
  OBVIOUS
<1> QED
  BY <1>1, AtType

\* A variable gets a new value.
Sets(x, f, v) == tcl' = [tcl EXCEPT ![x] = [form |-> f, at |-> v]]

LEMMA TclMoved ==
    ASSUME TclTyped, NEW x \in Var, NEW v \in At, NEW f \in {"none", "array", "value"},
           Sets(x, f, v)
    PROVE  /\ TclTyped'
           /\ Places' = [Places EXCEPT ![x] = v]
           /\ Places[x] = tcl[x].at /\ Places[x] \in At
           /\ \A o : Cardinality(Held(Places', o))
                       = Cardinality(Held(Places, o)) + Number(v, o) - Number(Places[x], o)
<1>1. TclTyped'
  BY DEF TclTyped, Sets
<1>2. Places' = [Places EXCEPT ![x] = v]
  <2>1. \A y \in Var : tcl'[y].at = IF y = x THEN v ELSE tcl[y].at
    BY DEF TclTyped, Sets
  <2> QED
    BY <2>1 DEF Places
<1>3. Places \in [Var -> At] /\ Places[x] = tcl[x].at
  BY PlacesTyped DEF Places
<1> QED
  BY <1>1, <1>2, <1>3, HeldMoved

LEMMA ElementTyped ==
    ASSUME Typed, call.at # "ended"
    PROVE  /\ \A c \in Cols : Data(c) \in Obj /\ Indicator(c) \in Obj
           /\ \A c \in Cols : Data(c)[1] = now /\ Indicator(c)[1] = now
           /\ Element \in Obj /\ Element[1] = now
           /\ DataList \in [Cols -> Obj] /\ IndicatorList \in [Cols -> Obj]
           /\ List \in [Cols -> Obj]
<1>1. now \in 1 .. MaxCalls /\ call.col \in Cols
  BY DEF Typed, TypeBase, CallTyped
<1>2. \A c \in Cols : Data(c) \in Obj /\ Indicator(c) \in Obj /\ Data(c)[1] = now /\ Indicator(c)[1] = now
  BY <1>1, Constants DEF Data, Indicator, Obj, Null, True, False, Cols
<1>3. Element \in Obj /\ Element[1] = now
  BY <1>1, <1>2 DEF Element
<1>4. DataList \in [Cols -> Obj] /\ IndicatorList \in [Cols -> Obj]
  BY <1>2 DEF DataList, IndicatorList
<1> QED
  BY <1>2, <1>3, <1>4 DEF List

----------------------------------------------------------------------------
(* Each action keeps the invariant. *)

LEMMA InitCounts == Init => CountInv
<1> SUFFICES ASSUME Init PROVE CountInv
  OBVIOUS
<1>1. Typed
  <2>1. tcl \in [Var -> [form : {"none", "array", "value"}, at : At]]
    BY EmptyAt DEF Init, NoValue
  <2>2. DOMAIN <<>> = {}
    OBVIOUS
  <2> QED
    BY <2>1, <2>2, Constants
    DEF Init, NoCall, NoValue, Typed, TypeBase, TclTyped, CallTyped, InProgress, Cols
<1>2. Counted(mem, Count)
  <2>1. \A x \in Var : \A s \in DOMAIN Places[x] : FALSE
    BY DEF Places, Init, NoValue
  <2>2. \A o : Cardinality(Held(Places, o)) = 0
    BY <1>1, <2>1, PlacesTyped, HeldSome DEF Typed
  <2>3. owned \in [Obj -> Nat]
    BY <1>1 DEF Typed, TypeBase
  <2>4. \A o \in Obj : Count[o] = 0
    BY <2>2, <2>3, CountIs DEF Init
  <2> QED
    BY <2>4 DEF Init, Counted, Freed
<1>3. NewAreUnused /\ OwnedAreListed /\ OutAreUnused
  BY DEF Init, NoCall, NewAreUnused, OwnedAreListed, OutAreUnused, InProgress
<1> QED
  BY <1>1, <1>2, <1>3 DEF CountInv

LEMMA TypedParts == (Typed <=> CallOK /\ DataOK) /\ (Typed' <=> CallOK' /\ DataOK')
<1>1. Typed <=> CallOK /\ DataOK
  <2>1. ASSUME TclTyped, NEW x \in Var
        PROVE  tcl[x].form \in {"none", "array", "value"} /\ DOMAIN tcl[x].at \subseteq Cols
    BY <2>1, AtType DEF TclTyped
  <2> QED
    BY <2>1 DEF Typed, TypeBase, CallOK, DataOK
<1>2. Typed' <=> CallOK' /\ DataOK'
  <2>1. ASSUME TclTyped', NEW x \in Var
        PROVE  tcl'[x].form \in {"none", "array", "value"} /\ DOMAIN tcl'[x].at \subseteq Cols
    BY <2>1, AtType DEF TclTyped
  <2> QED
    BY <2>1 DEF Typed, TypeBase, CallOK, DataOK
<1> QED
  BY <1>1, <1>2

\* The steps of a call.
LEMMA CallMoves ==
    ASSUME CallOK, now' = now, call.at # "ended",
           Fails \/ Succeeds \/ NextColumn \/ (call.mode # "out" /\ call.ind # NoVar /\ Goes("ind"))
    PROVE  CallOK'
<1> USE Constants
<1>1. CASE Fails
  BY <1>1 DEF CallOK, CallTyped, InProgress, Fails, NoCall, Cols
<1>2. CASE Succeeds
  BY <1>2 DEF CallOK, CallTyped, InProgress, Succeeds
<1>3. CASE NextColumn
  <2>1. CASE call.col = NCols
    BY <1>2, <1>3, <2>1 DEF NextColumn
  <2>2. CASE call.col # NCols
    <3>1. call.col + 1 \in Cols
      BY <2>2 DEF CallOK, Cols
    <3> QED
      BY <1>3, <2>2, <3>1 DEF CallOK, CallTyped, InProgress, NextColumn
  <2> QED
    BY <2>1, <2>2
<1>4. CASE call.mode # "out" /\ call.ind # NoVar /\ Goes("ind")
  BY <1>4 DEF CallOK, CallTyped, InProgress, Goes
<1> QED
  BY <1>1, <1>2, <1>3, <1>4

\* The call that runs is not touched by the script.
CallGoesOn ==
    /\ now' = now
    /\ InProgress("list")' <=> InProgress("list")
    /\ InProgress("out")' <=> InProgress("out")
    /\ call.at # "ended" =>
          /\ call'.at = call.at /\ call'.col = call.col
          /\ call'.nulls = call.nulls /\ call'.ind = call.ind

LEMMA ScriptCall ==
    ASSUME CallOK, now' = now, Disturbs \/ call' = call
    PROVE  CallOK' /\ CallGoesOn
<1> USE Constants
<1>1. CASE call' = call
  BY <1>1 DEF CallOK, CallTyped, InProgress, CallGoesOn
<1>2. CASE Disturbs /\ call.at = "ended"
  BY <1>2 DEF CallOK, CallTyped, InProgress, CallGoesOn, Disturbs, NoCall, Cols
<1>3. CASE Disturbs /\ call.at # "ended"
  BY <1>3 DEF CallOK, CallTyped, InProgress, CallGoesOn, Disturbs
<1> QED
  BY <1>1, <1>2, <1>3

LEMMA OwnedGoesOn ==
    ASSUME OwnedAreListed, CallGoesOn, UNCHANGED <<owned, listed>>
    PROVE  OwnedAreListed'
<1>1. CASE InProgress("list")
  <2>1. GivenBack' = GivenBack /\ \A c : Data(c)' = Data(c)
    BY <1>1 DEF GivenBack, DataList, IndicatorList, Data, Indicator, CallGoesOn, InProgress
  <2> QED
    BY <1>1, <2>1 DEF OwnedAreListed, CallGoesOn, InProgress
<1>2. CASE ~ InProgress("list")
  BY <1>2 DEF OwnedAreListed, CallGoesOn
<1> QED
  BY <1>1, <1>2

\* References are gained and lost.
LEMMA RebindStep ==
    ASSUME DataOK, Counted(mem, Count), (owned \in [Obj -> Nat])',
           NEW gained, NEW lost, IsFiniteSet(DOMAIN gained), IsFiniteSet(DOMAIN lost),
           mem' = Rebind(mem, gained, lost),
           \A o \in Obj : Count'[o] = Count[o] + Number(gained, o) - Number(lost, o),
           \A o \in Obj : Number(gained, o) > 0 => mem[o] # Freed,
           \A o \in Obj : Number(lost, o) > 0 => Count[o] > 0 \/ Number(gained, o) > 0
    PROVE  /\ (mem \in [Obj -> Int])'
           /\ Counted(mem, Count)'
           /\ \A o \in Obj : mem[o] = 0 /\ Number(gained, o) = 0 => mem'[o] = 0
           /\ \A o \in Obj : mem[o] # Freed /\ Number(lost, o) = 0 => mem'[o] # Freed
           /\ \A o \in Obj : Count'[o] > 0 => mem'[o] # Freed
<1>1. Count \in [Obj -> Nat] /\ Count' \in [Obj -> Nat]
  BY CountIs, CountIsNext DEF DataOK
<1>2. mem \in [Obj -> Int]
  BY DEF DataOK
<1>3. \A o \in Obj : Number(gained, o) \in Nat /\ Number(lost, o) \in Nat
  BY NumberNat
<1>4. \A s \in DOMAIN gained : gained[s] \in Obj => mem[gained[s]] # Freed
  BY <1>3, NumberNat
<1>5. /\ mem' \in [Obj -> Int]
      /\ Counted(mem', Count')
      /\ \A o \in Obj : Number(lost, o) = 0 =>
            /\ Number(gained, o) = 0 => mem'[o] = mem[o]
            /\ mem[o] # Freed => mem'[o] # Freed
      /\ \A o \in Obj : Count'[o] > 0 => mem'[o] # Freed
  BY <1>1, <1>2, <1>4, RebindCounts
<1>6. ASSUME NEW o \in Obj, mem[o] = 0, Number(gained, o) = 0 PROVE mem'[o] = 0
  <2>1. Count[o] = 0
    BY <1>6 DEF Counted, Freed
  <2>2. Number(lost, o) = 0
    BY <1>3, <1>6, <2>1
  <2> QED
    BY <1>5, <1>6, <2>2
<1> QED
  BY <1>5, <1>6 DEF Counted

LEMMA UnusedGoesOn ==
    ASSUME CountInv, CallGoesOn, \A o \in Obj : mem[o] = 0 => mem'[o] = 0
    PROVE  NewAreUnused' /\ OutAreUnused'
<1>1. NewAreUnused'
  BY DEF CountInv, NewAreUnused, CallGoesOn
<1>2. OutAreUnused'
  <2> SUFFICES ASSUME InProgress("out")', NEW c \in call'.col .. NCols PROVE mem'[<<now', c>>] = 0
    BY DEF OutAreUnused
  <2>1. mem[<<now, c>>] = 0 /\ now' = now
    BY DEF CountInv, OutAreUnused, CallGoesOn, InProgress
  <2>2. now \in 1 .. MaxCalls /\ call.col \in Cols /\ call'.col = call.col
    BY DEF CountInv, Typed, TypeBase, CallTyped, CallGoesOn, InProgress
  <2>3. <<now, c>> \in Obj
    BY <2>2, Constants DEF Obj, Cols
  <2> QED
    BY <2>1, <2>3
<1> QED
  BY <1>1, <1>2

\* A variable gets v instead of what it had: what is gained and lost.
LEMMA StoreRebinds ==
    ASSUME DataOK, Counted(mem, Count), NEW x \in Var, NEW v \in At, NEW f \in {"none", "array", "value"},
           f = "none" => v = <<>>,
           NEW gained, NEW lost, IsFiniteSet(DOMAIN gained), IsFiniteSet(DOMAIN lost),
           Sets(x, f, v),
           \A o \in Obj : Number(v, o) = Number(Places[x], o) + Number(gained, o) - Number(lost, o),
           \A o \in Obj : Number(lost, o) <= Number(Places[x], o),
           \A o \in Obj : Number(gained, o) > 0 => mem[o] # Freed,
           mem' = Rebind(mem, gained, lost),
           UNCHANGED <<label, kept, owned, fault>>, (listed \subseteq Obj)'
    PROVE  /\ DataOK'
           /\ Counted(mem, Count)'
           /\ \A o \in Obj : mem[o] = 0 /\ Number(gained, o) = 0 => mem'[o] = 0
           /\ \A o \in Obj : mem[o] # Freed /\ Number(lost, o) = 0 => mem'[o] # Freed
<1>1. TclTyped /\ owned \in [Obj -> Nat] /\ (owned \in [Obj -> Nat])'
  BY DEF DataOK
<1>2. /\ TclTyped'
      /\ Places[x] = tcl[x].at /\ Places[x] \in At
      /\ \A o : Cardinality(Held(Places', o))
                  = Cardinality(Held(Places, o)) + Number(v, o) - Number(Places[x], o)
  BY <1>1, TclMoved
<1>3. \A o : /\ Number(gained, o) \in Nat /\ Number(lost, o) \in Nat
             /\ Number(v, o) \in Nat /\ Number(Places[x], o) \in Nat
  BY <1>2, NumberNat, AtFinite
<1>4. ASSUME NEW o \in Obj
      PROVE  /\ Count'[o] = Count[o] + Number(gained, o) - Number(lost, o)
             /\ Number(lost, o) > 0 => Count[o] > 0 \/ Number(gained, o) > 0
  <2>0. PICK n \in Nat : n = (IF o \in kept THEN 1 ELSE 0) + owned[o]
    BY <1>1
  <2>1. /\ Cardinality(Held(Places, o)) \in Nat
        /\ Count[o] = Cardinality(Held(Places, o)) + n
    BY <1>1, <2>0, CountIs
  <2>2. Cardinality(Held(Places', o)) \in Nat /\ Count'[o] = Cardinality(Held(Places', o)) + n
    BY <1>1, <2>0, CountIsNext
  <2>3. Number(Places[x], o) <= Cardinality(Held(Places, o))
    BY <1>1, <1>2, PlacesTyped, HeldSome
  <2>4. Cardinality(Held(Places', o)) = Cardinality(Held(Places, o)) + Number(gained, o) - Number(lost, o)
    BY <1>2, <1>3, <2>1
  <2>5. Number(gained, o) \in Nat /\ Number(lost, o) \in Nat /\ Number(Places[x], o) \in Nat
    BY <1>3
  <2>6. Number(lost, o) <= Number(Places[x], o)
    OBVIOUS
  <2>7. Count'[o] = Count[o] + Number(gained, o) - Number(lost, o)
    BY <2>1, <2>2, <2>4, <2>5
  <2>8. Number(lost, o) > 0 => Count[o] > 0
    BY <2>1, <2>3, <2>5, <2>6
  <2> QED
    BY <2>7, <2>8
<1>5. /\ (mem \in [Obj -> Int])'
      /\ Counted(mem, Count)'
      /\ \A o \in Obj : mem[o] = 0 /\ Number(gained, o) = 0 => mem'[o] = 0
      /\ \A o \in Obj : mem[o] # Freed /\ Number(lost, o) = 0 => mem'[o] # Freed
  BY <1>1, <1>4, RebindStep, Zenon
<1>6. DataOK'
  <2>1. \A y \in Var : tcl'[y] = IF y = x THEN [form |-> f, at |-> v] ELSE tcl[y]
    BY <1>1 DEF TclTyped, Sets
  <2>2. \A y \in Var : tcl'[y].form = "none" => tcl'[y].at = <<>>
    BY <2>1 DEF DataOK
  <2> QED
    BY <1>2, <1>5, <2>2 DEF DataOK
<1> QED
  BY <1>5, <1>6

\* The script unsets what there is in lost and leaves v.
LEMMA ScriptSets ==
    ASSUME CountInv, NEW x \in Var, NEW v \in At, NEW f \in {"none", "array", "value"},
           f = "none" => v = <<>>,
           NEW lost, IsFiniteSet(DOMAIN lost),
           Sets(x, f, v),
           \A o \in Obj : Number(v, o) = Number(Places[x], o) - Number(lost, o),
           mem' = Rebind(mem, <<>>, lost), Disturbs,
           UNCHANGED <<label, now, kept, owned, listed, fault>>
    PROVE  CountInv'
<1>1. CallOK /\ DataOK /\ Counted(mem, Count)
  BY TypedParts DEF CountInv
<1>2. CallOK' /\ CallGoesOn
  BY <1>1, ScriptCall
<1>3. Places[x] \in At /\ (listed \subseteq Obj)'
  BY <1>1, PlacesTyped DEF DataOK
<1>4. PICK nothing : nothing = <<>>
  OBVIOUS
<1>5. IsFiniteSet(DOMAIN nothing)
  <2>1. DOMAIN nothing = {}
    BY <1>4
  <2> QED
    BY <2>1, FS_EmptySet
<1>6. ASSUME NEW o \in Obj
      PROVE  /\ Number(v, o) = Number(Places[x], o) + Number(nothing, o) - Number(lost, o)
             /\ Number(lost, o) <= Number(Places[x], o)
             /\ Number(nothing, o) = 0
  <2>1. Number(nothing, o) = 0 /\ Number(lost, o) \in Nat /\ Number(v, o) \in Nat /\ Number(Places[x], o) \in Nat
    BY <1>3, <1>4, NumberNat, NumberNone, AtFinite
  <2>2. Number(v, o) = Number(Places[x], o) - Number(lost, o)
    OBVIOUS
  <2> QED
    BY <2>1, <2>2
<1>7. /\ mem' = Rebind(mem, nothing, lost)
      /\ \A o \in Obj : Number(nothing, o) > 0 => mem[o] # Freed
  BY <1>4, <1>6
<1>8. /\ DataOK'
      /\ Counted(mem, Count)'
      /\ \A o \in Obj : mem[o] = 0 /\ Number(nothing, o) = 0 => mem'[o] = 0
  BY <1>1, <1>3, <1>5, <1>6, <1>7, StoreRebinds
<1>9. NewAreUnused' /\ OutAreUnused' /\ OwnedAreListed'
  BY <1>2, <1>6, <1>8, UnusedGoesOn, OwnedGoesOn DEF CountInv
<1> QED
  BY <1>2, <1>8, <1>9, TypedParts DEF CountInv

LEMMA UnsetCounts == ASSUME CountInv, NEW x \in Var, Unset(x) PROVE CountInv'
<1>1. TclTyped
  BY DEF CountInv, Typed
<1>2. tcl[x].at \in At
  BY <1>1 DEF TclTyped
<1>3. PICK l \in At : l = tcl[x].at
  BY <1>2
<1>4. IsFiniteSet(DOMAIN l)
  BY AtFinite
<1>5. \A o \in Obj : Number(<<>>, o) = Number(Places[x], o) - Number(l, o)
  BY <1>3, <1>4, NumberNone, NumberNat DEF Places
<1>6. /\ Sets(x, "none", <<>>)
      /\ mem' = Rebind(mem, <<>>, l)
      /\ Disturbs
      /\ UNCHANGED <<label, now, kept, owned, listed, fault>>
  BY <1>3 DEF Unset, NoValue, Sets
<1> QED
  BY <1>4, <1>5, <1>6, EmptyAt, ScriptSets

LEMMA UnsetElementCounts == ASSUME CountInv, NEW x \in Var, NEW s, UnsetElement(x, s) PROVE CountInv'
<1>1. TclTyped
  BY DEF CountInv, Typed
<1>2. tcl[x] = [form |-> "array", at |-> tcl[x].at] /\ tcl[x].at \in At
  BY <1>1 DEF TclTyped, UnsetElement
<1>3. PICK f \in At : f = tcl[x].at
  BY <1>2
<1> DEFINE v == [t \in DOMAIN f \ {s} |-> f[t]]
           l == Before(f, s)
<1>4. v \in At /\ \A o : Number(v, o) = Number(f, o) - Number(l, o)
  BY NumberTake
<1>5. Under(x, s) = l
  BY <1>3 DEF Under, Before
<1>6. IsFiniteSet(DOMAIN l)
  BY BeforeFinite
<1>7. Sets(x, "array", v)
  <2>1. tcl' = [tcl EXCEPT ![x] = [tcl[x] EXCEPT !.at = v]]
    BY <1>3 DEF UnsetElement
  <2>2. [tcl[x] EXCEPT !.at = v] = [form |-> "array", at |-> v]
    BY <1>2
  <2> QED
    BY <2>1, <2>2 DEF Sets
<1>8. /\ mem' = Rebind(mem, <<>>, l)
      /\ Disturbs
      /\ UNCHANGED <<label, now, kept, owned, listed, fault>>
  BY <1>5 DEF UnsetElement
<1> HIDE DEF v, l
<1>9. \A o \in Obj : Number(v, o) = Number(Places[x], o) - Number(l, o)
  BY <1>3, <1>4 DEF Places
<1> QED
  BY <1>4, <1>6, <1>7, <1>8, <1>9, ScriptSets

\* The copies of the script change by o.
LEMMA ScriptCopies ==
    ASSUME CountInv, NEW o \in Obj, Keep(o) \/ Drop(o)
    PROVE  /\ CountInv'
           /\ \A p \in Obj : Count'[p] > 0 => mem'[p] # Freed
           /\ \A p \in Obj : mem[p] # Freed /\ Keep(o) => mem'[p] # Freed
           /\ \A p \in Obj \ {o} : mem[p] # Freed => mem'[p] # Freed
<1>1. CallOK /\ DataOK /\ Counted(mem, Count)
  BY TypedParts DEF CountInv
<1>2. now' = now /\ call' = call /\ tcl' = tcl /\ owned' = owned /\ UNCHANGED <<label, listed, fault>>
  BY DEF Keep, Drop
<1>3. CallOK' /\ CallGoesOn
  BY <1>1, <1>2, ScriptCall
<1>4. owned \in [Obj -> Nat] /\ (owned \in [Obj -> Nat])' /\ Places' = Places
  BY <1>1, <1>2 DEF DataOK, Places
<1>5. ASSUME NEW p \in Obj
      PROVE  /\ Count[p] = Cardinality(Held(Places, p)) + (IF p \in kept THEN 1 ELSE 0) + owned[p]
             /\ Count'[p] = Cardinality(Held(Places, p)) + (IF p \in kept' THEN 1 ELSE 0) + owned[p]
             /\ Cardinality(Held(Places, p)) \in Nat /\ owned[p] \in Nat
             /\ Number(<<>>, p) = 0 /\ Number(<<o>>, p) = IF o = p THEN 1 ELSE 0
  BY <1>2, <1>4, CountIs, CountIsNext, NumberNone, NumberOne
<1>6. PICK one : one = <<o>>
  OBVIOUS
<1>7. PICK nothing : nothing = <<>>
  OBVIOUS
<1>8. IsFiniteSet(DOMAIN one) /\ IsFiniteSet(DOMAIN nothing)
  <2>1. DOMAIN one = {1} /\ DOMAIN nothing = {}
    BY <1>6, <1>7
  <2>2. IsFiniteSet({1}) /\ IsFiniteSet({})
    BY FS_EmptySet, FS_Singleton
  <2> QED
    BY <2>1, <2>2
<1> DEFINE Result(gained, lost) ==
        /\ (mem \in [Obj -> Int])'
        /\ Counted(mem, Count)'
        /\ \A p \in Obj : mem[p] = 0 /\ Number(gained, p) = 0 => mem'[p] = 0
        /\ \A p \in Obj : mem[p] # Freed /\ Number(lost, p) = 0 => mem'[p] # Freed
        /\ \A p \in Obj : Count'[p] > 0 => mem'[p] # Freed
<1>9. Keep(o) => Count[o] > 0
  <2> SUFFICES ASSUME Keep(o) PROVE Count[o] > 0
    OBVIOUS
  <2>1. Places \in [Var -> At] /\ \E x \in Var : \E s \in DOMAIN Places[x] : Places[x][s] = o
    BY <1>1, PlacesTyped DEF Keep, Places, DataOK
  <2>2. Cardinality(Held(Places, o)) # 0
    BY <2>1, HeldSome
  <2> QED
    BY <1>5, <2>2
<1>10. CASE Keep(o)
  <2>1. mem' = Rebind(mem, one, nothing) /\ o \notin kept /\ kept' = kept \cup {o}
    BY <1>6, <1>7, <1>10 DEF Keep
  <2>2. ASSUME NEW p \in Obj
        PROVE  /\ Count'[p] = Count[p] + Number(one, p) - Number(nothing, p)
               /\ Number(one, p) > 0 => mem[p] # Freed
               /\ Number(nothing, p) > 0 => Count[p] > 0 \/ Number(one, p) > 0
               /\ Number(nothing, p) = 0
    BY <1>1, <1>5, <1>6, <1>7, <1>9, <1>10, <2>1 DEF Counted
  <2>3. Result(one, nothing)
    BY <1>1, <1>4, <1>8, <2>1, <2>2, RebindStep
  <2>4. \A p \in Obj : mem[p] = 0 => mem'[p] = 0
    <3>1. mem[o] # 0
      BY <1>1, <1>9, <1>10 DEF Counted, Freed
    <3> QED
      BY <1>5, <1>6, <2>3, <3>1
  <2>5. \A p \in Obj : mem[p] # Freed => mem'[p] # Freed
    BY <2>2, <2>3
  <2>6. DataOK'
    BY <1>1, <1>2, <2>1, <2>3 DEF DataOK, TclTyped
  <2> QED
    BY <1>2, <1>3, <2>3, <2>4, <2>5, <2>6, TypedParts, OwnedGoesOn, UnusedGoesOn DEF CountInv
<1>11. CASE Drop(o)
  <2>1. mem' = Rebind(mem, nothing, one) /\ o \in kept /\ kept' = kept \ {o}
    BY <1>6, <1>7, <1>11 DEF Drop
  <2>2. ASSUME NEW p \in Obj
        PROVE  /\ Count'[p] = Count[p] + Number(nothing, p) - Number(one, p)
               /\ Number(nothing, p) > 0 => mem[p] # Freed
               /\ Number(one, p) > 0 => Count[p] > 0 \/ Number(nothing, p) > 0
               /\ Number(nothing, p) = 0
               /\ p # o => Number(one, p) = 0
    BY <1>5, <1>6, <1>7, <2>1
  <2>3. Result(nothing, one)
    BY <1>1, <1>4, <1>8, <2>1, <2>2, RebindStep
  <2>4. \A p \in Obj : mem[p] = 0 => mem'[p] = 0
    BY <2>2, <2>3
  <2>5. \A p \in Obj \ {o} : mem[p] # Freed => mem'[p] # Freed
    BY <2>2, <2>3
  <2>6. DataOK'
    BY <1>1, <1>2, <2>1, <2>3 DEF DataOK, TclTyped
  <2>7. ~ Keep(o)
    BY <2>1 DEF Keep
  <2> QED
    BY <1>2, <1>3, <2>3, <2>4, <2>5, <2>6, <2>7, TypedParts, OwnedGoesOn, UnusedGoesOn DEF CountInv
<1> QED
  BY <1>10, <1>11

----------------------------------------------------------------------------
(* The steps of a call that touch no value. *)

LEMMA CountSame == ASSUME UNCHANGED <<tcl, kept, owned>> PROVE Count' = Count
BY DEF Count, Holders

FetchesArray ==
    \E nulls \in SUBSET Cols, row \in Var, ind \in Var \cup {NoVar} : FetchArray(nulls, row, ind)

LEMMA StartsCount == ASSUME CountInv, FetchesArray \/ CopyOutput PROVE CountInv'
<1> USE Constants
<1>1. /\ call.at = "ended" /\ now' = now + 1 /\ now < MaxCalls
      /\ call'.mode \in {"array", "out"} /\ call'.at = "row" /\ call'.col = 1
      /\ UNCHANGED <<label, mem, tcl, kept, owned, listed, fault>>
  BY DEF FetchesArray, FetchArray, CopyOutput, Begins, Idle, Called
<1>2. CallOK /\ DataOK
  BY TypedParts DEF CountInv
<1>3. CallOK'
  <2>1. now' \in 1 .. MaxCalls /\ 1 \in Cols
    BY <1>1, <1>2 DEF CallOK, Cols
  <2>2. CASE FetchesArray
    BY <2>1, <2>2 DEF CallOK, CallTyped, InProgress, FetchesArray, FetchArray, Called
  <2>3. CASE CopyOutput
    BY <2>1, <2>3 DEF CallOK, CallTyped, InProgress, CopyOutput, Called
  <2> QED
    BY <2>2, <2>3
<1>4. DataOK'
  BY <1>1, <1>2 DEF DataOK, TclTyped
<1>5. Counted(mem, Count)'
  BY <1>1, CountSame DEF CountInv, Counted
<1>6. now \in Nat
  BY <1>2 DEF CallOK
<1>7. NewAreUnused'
  <2>1. \A o \in Obj : o[1] > now + 1 => o[1] > now
    BY <1>6 DEF Obj
  <2> QED
    BY <1>1, <2>1 DEF CountInv, NewAreUnused
<1>8. OwnedAreListed'
  BY <1>1 DEF CountInv, OwnedAreListed, InProgress
<1>9. OutAreUnused'
  <2>1. \A c \in 1 .. NCols : <<now + 1, c>> \in Obj /\ <<now + 1, c>>[1] > now
    BY <1>1, <1>6 DEF Obj
  <2> QED
    BY <1>1, <2>1 DEF CountInv, NewAreUnused, OutAreUnused
<1> QED
  BY <1>3, <1>4, <1>5, <1>7, <1>8, <1>9, TypedParts DEF CountInv

LEMMA StopsCount ==
    ASSUME CountInv, ColumnFails \/ ElementFreed \/ OutFails
    PROVE  CountInv'
<1>1. /\ UNCHANGED <<label, now, mem, tcl, kept, owned, listed>>
      /\ call' = call \/ (InProgress("array") /\ call' = NoCall)
      /\ fault' \in {fault, "freedValue", "outValue"}
  BY DEF ColumnFails, ElementFreed, OutFails, Crash, Fails, Running, InProgress
<1>2. CallOK /\ DataOK
  BY TypedParts DEF CountInv
<1>3. CallOK'
  <2>1. CASE call' = call
    BY <1>1, <1>2, <2>1 DEF CallOK, CallTyped, InProgress
  <2>2. CASE InProgress("array") /\ call' = NoCall
    BY <1>1, <1>2, <2>2, CallMoves DEF Fails, InProgress
  <2> QED
    BY <1>1, <2>1, <2>2
<1>4. DataOK'
  BY <1>1, <1>2 DEF DataOK, TclTyped
<1>5. Counted(mem, Count)'
  BY <1>1, CountSame DEF CountInv, Counted
<1>6. CASE call' = call
  <2>1. CallGoesOn
    BY <1>1, <1>6 DEF CallGoesOn, InProgress
  <2> QED
    BY <1>1, <1>3, <1>4, <1>5, <2>1, TypedParts, OwnedGoesOn, UnusedGoesOn DEF CountInv
<1>7. CASE InProgress("array") /\ call' = NoCall
  <2>1. ~ InProgress("list")' /\ ~ InProgress("out")' /\ ~ InProgress("list")
    BY <1>7 DEF InProgress, NoCall
  <2>2. OwnedAreListed'
    BY <1>1, <2>1 DEF CountInv, OwnedAreListed
  <2>3. NewAreUnused' /\ OutAreUnused'
    BY <1>1, <2>1 DEF CountInv, NewAreUnused, OutAreUnused
  <2> QED
    BY <1>3, <1>4, <1>5, <2>2, <2>3, TypedParts DEF CountInv
<1> QED
  BY <1>1, <1>6, <1>7

----------------------------------------------------------------------------
(* Arrays and OUT parameters. *)

CallSets(x, v) == \E f \in {"array", "value"} : Sets(x, f, v)

\* The call has no references of its own and goes on to the next column or ends.
StoreGoesOn ==
    /\ now' = now /\ CallOK'
    /\ call.mode \in {"array", "out"} /\ call.at # "ended"
    /\ ~ InProgress("list")'
    /\ InProgress("out")' => InProgress("out") /\ call'.col = call.col + 1
    /\ UNCHANGED <<label, kept, owned, listed, fault>>

\* Such a call stores v in x.
LEMMA CallStores ==
    ASSUME CountInv, StoreGoesOn,
           NEW x \in Var, NEW v \in At, NEW one, NEW lost, IsFiniteSet(DOMAIN lost),
           CallSets(x, v), one = <<Element>>,
           \A o \in Obj : Number(v, o) = Number(Places[x], o) + Number(one, o) - Number(lost, o),
           \A o \in Obj : Number(lost, o) <= Number(Places[x], o),
           mem[Element] # Freed,
           mem' = Rebind(mem, one, lost)
    PROVE  /\ CountInv'
           /\ \A o \in Obj : mem[o] # Freed /\ Number(lost, o) = 0 => mem'[o] # Freed
<1>1. CallOK /\ DataOK /\ Counted(mem, Count) /\ Typed
  BY TypedParts DEF CountInv
<1>0. /\ now' = now /\ CallOK'
      /\ call.mode \in {"array", "out"} /\ call.at # "ended"
      /\ ~ InProgress("list")'
      /\ InProgress("out")' => InProgress("out") /\ call'.col = call.col + 1
      /\ UNCHANGED <<label, kept, owned, listed, fault>>
  BY DEF StoreGoesOn
<1>2. PICK e \in Obj, f \in {"array", "value"} : e = Element /\ e[1] = now /\ Sets(x, f, v)
  BY <1>0, <1>1, ElementTyped DEF CallSets
<1>3. IsFiniteSet(DOMAIN one) /\ \A o : Number(one, o) = IF e = o THEN 1 ELSE 0
  <2>1. DOMAIN one = {1}
    OBVIOUS
  <2>2. IsFiniteSet({1})
    BY FS_Singleton
  <2> QED
    BY <1>2, <2>1, <2>2, NumberOne
<1>4. /\ \A o \in Obj : Number(one, o) > 0 => mem[o] # Freed
      /\ f \in {"none", "array", "value"} /\ (f = "none" => v = <<>>)
      /\ UNCHANGED <<label, kept, owned, fault>> /\ (listed \subseteq Obj)'
  <2>1. \A o \in Obj : Number(one, o) > 0 => mem[o] # Freed
    BY <1>2, <1>3
  <2>2. (listed \subseteq Obj)' /\ f \in {"none", "array", "value"} /\ (f = "none" => v = <<>>)
    BY <1>0, <1>1 DEF DataOK
  <2> QED
    BY <1>0, <2>1, <2>2
<1>5. /\ DataOK'
      /\ Counted(mem, Count)'
      /\ \A o \in Obj : mem[o] = 0 /\ Number(one, o) = 0 => mem'[o] = 0
      /\ \A o \in Obj : mem[o] # Freed /\ Number(lost, o) = 0 => mem'[o] # Freed
  BY <1>1, <1>2, <1>3, <1>4, StoreRebinds
<1>7. NewAreUnused'
  <2> SUFFICES ASSUME NEW o \in Obj, o[1] > now PROVE mem'[o] = 0
    BY <1>0 DEF NewAreUnused
  <2>1. o # e
    BY <1>1, <1>2 DEF CallOK
  <2> QED
    BY <1>3, <1>5, <2>1 DEF CountInv, NewAreUnused
<1>8. OwnedAreListed'
  <2>1. ~ InProgress("list")
    BY <1>0 DEF InProgress
  <2> QED
    BY <1>0, <2>1 DEF CountInv, OwnedAreListed
<1>9. OutAreUnused'
  <2> SUFFICES ASSUME InProgress("out")', NEW c \in call'.col .. NCols PROVE mem'[<<now', c>>] = 0
    BY DEF OutAreUnused
  <2>1. call.col \in Cols /\ now \in 1 .. MaxCalls /\ call.at = "row" /\ call.nulls = {}
    BY <1>0, <1>1 DEF CallOK, CallTyped
  <2>2. c \in call.col .. NCols /\ c # call.col /\ c \in Cols
    BY <1>0, <2>1, Constants DEF Cols
  <2>3. e = <<now, call.col>>
    BY <1>2, <2>1 DEF Element, Data
  <2>4. <<now, c>> \in Obj /\ <<now, c>> # e
    BY <2>1, <2>2, <2>3, Constants DEF Obj, Cols
  <2>5. mem[<<now, c>>] = 0
    BY <1>0, <2>2 DEF CountInv, OutAreUnused
  <2> QED
    BY <1>0, <1>3, <1>5, <2>4, <2>5
<1> QED
  BY <1>0, <1>5, <1>7, <1>8, <1>9, TypedParts DEF CountInv

LEMMA TargetTyped == ASSUME Typed, InProgress("array") \/ InProgress("list") PROVE Target \in Var
BY DEF Typed, TypeBase, CallTyped, InProgress, Target

\* What StoreElement does to the variable.
LEMMA ElementStored ==
    ASSUME CountInv, StoreElement
    PROVE  \E x \in Var, s \in Cols, v \in At, e \in Obj :
              /\ x = Target /\ s = label[call.col] /\ e = Element /\ mem[e] # Freed
              /\ v = [t \in DOMAIN Places[x] \cup {s} |-> IF t = s THEN e ELSE Places[x][t]]
              /\ Sets(x, "array", v)
              /\ Places[x] \in At
              /\ mem' = Rebind(mem, <<e>>, Before(Places[x], s))
              /\ \A o : Number(v, o) = Number(Places[x], o) + Number(<<e>>, o) - Number(Before(Places[x], s), o)
<1>1. Typed /\ InProgress("array")
  BY DEF CountInv, StoreElement, Running, InProgress
<1>2. PICK x \in Var : x = Target
  BY <1>1, TargetTyped
<1>3. PICK s \in Cols : s = label[call.col]
  BY <1>1 DEF Typed, TypeBase
<1>4. PICK e \in Obj : e = Element
  BY <1>1, ElementTyped DEF InProgress
<1>5. Places[x] = tcl[x].at /\ Places[x] \in At
  BY <1>1 DEF Typed, TclTyped, Places
<1>6. PICK f \in At : f = Places[x]
  BY <1>5
<1> DEFINE v == [t \in DOMAIN f \cup {s} |-> IF t = s THEN e ELSE f[t]]
<1>7. v \in At /\ \A o : Number(v, o) = Number(f, o) + Number(<<e>>, o) - Number(Before(f, s), o)
  BY NumberPut
<1>8. Sets(x, "array", v) /\ mem' = Rebind(mem, <<e>>, Before(f, s)) /\ mem[e] # Freed
  BY <1>2, <1>3, <1>4, <1>5, <1>6 DEF StoreElement, Sets, ElementCounts, Under, Before
<1>9. /\ v = [t \in DOMAIN Places[x] \cup {s} |-> IF t = s THEN e ELSE Places[x][t]]
      /\ mem' = Rebind(mem, <<e>>, Before(Places[x], s))
      /\ \A o : Number(v, o) = Number(Places[x], o) + Number(<<e>>, o) - Number(Before(Places[x], s), o)
  BY <1>6, <1>7, <1>8
<1>10. v \in At
  BY <1>7
<1> HIDE DEF v
<1> QED
  BY <1>2, <1>3, <1>4, <1>5, <1>8, <1>9, <1>10

LEMMA StoreElementCounts ==
    ASSUME CountInv, StoreElement
    PROVE  /\ CountInv'
           /\ \A o \in Obj : mem[o] # Freed /\ Number(Before(Places[Target], label[call.col]), o) = 0
                               => mem'[o] # Freed
<1>1. Typed /\ InProgress("array") /\ CallOK
  BY TypedParts DEF CountInv, StoreElement, Running, InProgress
<1>2. PICK x \in Var, s \in Cols, v \in At, e \in Obj :
              /\ x = Target /\ s = label[call.col] /\ e = Element /\ mem[e] # Freed
              /\ Sets(x, "array", v)
              /\ Places[x] \in At
              /\ mem' = Rebind(mem, <<e>>, Before(Places[x], s))
              /\ \A o : Number(v, o) = Number(Places[x], o) + Number(<<e>>, o) - Number(Before(Places[x], s), o)
  BY ElementStored
<1>3. PICK l : l = Before(Places[x], s)
  OBVIOUS
<1>4. PICK one : one = <<Element>>
  OBVIOUS
<1>6. IsFiniteSet(DOMAIN l) /\ \A o \in Obj : Number(l, o) <= Number(Places[x], o)
  <2>1. ASSUME NEW o PROVE Number(Before(Places[x], s), o) <= Number(Places[x], o)
    BY <1>2, AtFinite, NumberSplit, BeforeNat
  <2> QED
    BY <1>3, <2>1, BeforeFinite
<1>7. /\ now' = now /\ CallOK'
      /\ ~ InProgress("list")' /\ ~ InProgress("out")'
      /\ UNCHANGED <<label, kept, owned, listed, fault>>
  <2>1. now' = now /\ UNCHANGED <<label, kept, owned, listed, fault>>
    BY DEF StoreElement
  <2>2. Fails \/ Succeeds \/ NextColumn \/ (call.mode # "out" /\ call.ind # NoVar /\ Goes("ind"))
    BY <1>1 DEF StoreElement, InProgress
  <2>3. CallOK'
    BY <1>1, <2>1, <2>2, CallMoves DEF InProgress
  <2>4. ~ InProgress("list")' /\ ~ InProgress("out")'
    <3>1. CASE Fails
      BY <3>1 DEF Fails, NoCall, InProgress
    <3>2. CASE Succeeds \/ NextColumn \/ Goes("ind")
      <4>1. call'.mode = call.mode
        BY <1>1, <3>2 DEF CallOK, Succeeds, NextColumn, Goes
      <4> QED
        BY <1>1, <4>1 DEF InProgress
    <3> QED
      BY <2>2, <3>1, <3>2
  <2> QED
    BY <2>1, <2>3, <2>4
<1>8. /\ CallSets(x, v) /\ mem[Element] # Freed
      /\ \A o \in Obj : Number(v, o) = Number(Places[x], o) + Number(one, o) - Number(l, o)
      /\ mem' = Rebind(mem, one, l)
  BY <1>2, <1>3, <1>4 DEF CallSets
<1>9. CountInv' /\ \A o \in Obj : mem[o] # Freed /\ Number(l, o) = 0 => mem'[o] # Freed
  <2>1. StoreGoesOn
    BY <1>1, <1>7 DEF InProgress, StoreGoesOn
  <2> QED
    BY <1>2, <1>4, <1>6, <1>8, <2>1, CallStores
<1> QED
  BY <1>2, <1>3, <1>9

LEMMA ElementFailsCounts == ASSUME CountInv, ElementFails PROVE CountInv'
<1>1. Typed /\ InProgress("array") /\ CallOK /\ DataOK
  BY TypedParts DEF CountInv, ElementFails, Running, InProgress
<1>2. PICK e \in Obj : e = Element /\ e[1] = now
  BY <1>1, ElementTyped DEF InProgress
<1>3. /\ mem' = [mem EXCEPT ![e] = IF @ = 0 THEN Freed ELSE @] /\ mem[e] # Freed
      /\ call' = NoCall /\ UNCHANGED <<label, now, tcl, kept, owned, listed, fault>>
  BY <1>2 DEF ElementFails, Fails
<1>4. mem \in [Obj -> Int] /\ (mem \in [Obj -> Int])'
  BY <1>1, <1>3 DEF DataOK, Freed
<1>5. \A o \in Obj : mem'[o] = IF o = e /\ mem[o] = 0 THEN Freed ELSE mem[o]
  BY <1>3, <1>4
<1>6. Counted(mem, Count)'
  <2>1. Counted(mem', Count)
    BY <1>4, <1>5 DEF CountInv, Counted, Freed
  <2>2. Count' = Count
    BY <1>3, CountSame
  <2> QED
    BY <2>1, <2>2 DEF Counted
<1>7. CallOK' /\ DataOK'
  <2>1. CallOK'
    BY <1>1, <1>3, CallMoves DEF Fails, InProgress
  <2> QED
    BY <1>1, <1>3, <1>4, <2>1 DEF DataOK, TclTyped
<1>8. NewAreUnused'
  <2>1. \A o \in Obj : o[1] > now => o # e
    BY <1>1, <1>2 DEF CallOK
  <2> QED
    BY <1>3, <1>5, <2>1 DEF CountInv, NewAreUnused
<1>9. OwnedAreListed' /\ OutAreUnused'
  BY <1>1, <1>3 DEF CountInv, OwnedAreListed, OutAreUnused, InProgress, NoCall
<1> QED
  BY <1>6, <1>7, <1>8, <1>9, TypedParts DEF CountInv

LEMMA StoreOutCounts == ASSUME CountInv, NEW x \in Var, StoreOut(x) PROVE CountInv'
<1>1. Typed /\ InProgress("out") /\ CallOK /\ DataOK /\ CallTyped
  BY TypedParts DEF CountInv, StoreOut, Running, InProgress, Typed
<1>2. PICK e \in Obj : e = Element
  BY <1>1, ElementTyped DEF InProgress
<1>3. e = <<now, call.col>> /\ call.col \in Cols
  BY <1>1, <1>2 DEF CallTyped, CallOK, Element, Data
<1>4. mem[e] # Freed
  <2>1. mem[e] = 0
    BY <1>1, <1>3 DEF CountInv, OutAreUnused, Cols
  <2> QED
    BY <2>1 DEF Freed
<1>5. Places[x] = tcl[x].at /\ Places[x] \in At
  BY <1>1 DEF Typed, TclTyped, Places
<1>6. PICK v \in At : v = <<e>>
  <2>1. <<e>> \in [1 .. 1 -> Obj] /\ 1 .. 1 \subseteq Cols
    BY Constants DEF Cols
  <2> QED
    BY <2>1, AtType
<1>7. PICK l \in At : l = Places[x]
  BY <1>5
<1>9. /\ CallSets(x, v) /\ v = <<Element>> /\ mem[Element] # Freed
      /\ mem' = Rebind(mem, v, l)
      /\ NextColumn
      /\ UNCHANGED <<label, now, kept, owned, listed, fault>>
  BY <1>2, <1>4, <1>5, <1>6, <1>7 DEF StoreOut, StoreWhole, ListCounts, Sets, CallSets
<1>10. /\ IsFiniteSet(DOMAIN l)
       /\ \A o \in Obj : Number(v, o) = Number(Places[x], o) + Number(v, o) - Number(l, o)
       /\ \A o \in Obj : Number(l, o) <= Number(Places[x], o)
  <2>1. \A o : Number(l, o) \in Nat /\ Number(v, o) \in Nat
    BY AtFinite, NumberNat
  <2> QED
    BY <1>7, <2>1, AtFinite
<1>11. StoreGoesOn
  <2>1. CallOK'
    BY <1>1, <1>9, CallMoves DEF InProgress
  <2>2. call'.mode = "out" /\ (call'.at # "ended" => call'.col = call.col + 1)
    <3>1. CASE call.col = NCols
      <4>1. call'.mode = "out" /\ call'.at = "ended"
        BY <1>1, <1>9, <3>1 DEF CallOK, NextColumn, Succeeds, InProgress
      <4> QED
        BY <4>1
    <3>2. CASE call.col # NCols
      <4>1. call' = [call EXCEPT !.at = "row", !.col = @ + 1]
        BY <1>9, <3>2 DEF NextColumn
      <4> QED
        BY <1>1, <4>1 DEF CallOK, InProgress
    <3> QED
      BY <3>1, <3>2
  <2> QED
    BY <1>1, <1>9, <2>1, <2>2 DEF InProgress, StoreGoesOn
<1>12. PICK one : one = v
  OBVIOUS
<1>13. /\ CallSets(x, v) /\ mem[Element] # Freed /\ IsFiniteSet(DOMAIN l)
       /\ \A o \in Obj : Number(l, o) <= Number(Places[x], o)
       /\ one = <<Element>> /\ mem' = Rebind(mem, one, l)
       /\ \A o \in Obj : Number(v, o) = Number(Places[x], o) + Number(one, o) - Number(l, o)
  BY <1>9, <1>10, <1>12
<1>14. CountInv' /\ \A o \in Obj : mem[o] # Freed /\ Number(l, o) = 0 => mem'[o] # Freed
  BY <1>11, <1>13, CallStores
<1> QED
  BY <1>14

----------------------------------------------------------------------------
(* Lists. *)

LEMMA FunSeq == ASSUME NEW n \in Nat, NEW S, NEW f \in [1 .. n -> S] PROVE f \in Seq(S) /\ Len(f) = n
BY SeqDef, LenProperties

LEMMA NumberSome ==
    ASSUME NEW f, IsFiniteSet(DOMAIN f)
    PROVE  \A o : Number(f, o) > 0 <=> \E s \in DOMAIN f : f[s] = o
BY NumberNat

LEMMA NumberJoined ==
    ASSUME NEW S, NEW f \in Seq(S), NEW g \in Seq(S)
    PROVE  /\ f \o g \in Seq(S) /\ IsFiniteSet(DOMAIN (f \o g))
           /\ \A o : Number(f \o g, o) > 0 <=> (\E s \in DOMAIN f : f[s] = o) \/ (\E s \in DOMAIN g : g[s] = o)
<1>1. /\ f \o g \in Seq(S) /\ Len(f \o g) = Len(f) + Len(g) /\ Len(f) \in Nat /\ Len(g) \in Nat
      /\ DOMAIN f = 1 .. Len(f) /\ DOMAIN g = 1 .. Len(g) /\ DOMAIN (f \o g) = 1 .. Len(f) + Len(g)
      /\ \A i \in 1 .. Len(f) + Len(g) : (f \o g)[i] = IF i <= Len(f) THEN f[i] ELSE g[i - Len(f)]
  BY ConcatProperties, LenProperties
<1> DEFINE h == f \o g
<1> HIDE DEF h
<1>2. h \in Seq(S) /\ IsFiniteSet(DOMAIN h)
  BY <1>1, SeqFinite DEF h
<1>3. ASSUME NEW o
      PROVE (\E s \in DOMAIN h : h[s] = o) <=> (\E s \in DOMAIN f : f[s] = o) \/ (\E s \in DOMAIN g : g[s] = o)
  <2>1. ASSUME NEW s \in DOMAIN f PROVE s \in DOMAIN h /\ h[s] = f[s]
    BY <1>1 DEF h
  <2>2. ASSUME NEW s \in DOMAIN g PROVE s + Len(f) \in DOMAIN h /\ h[s + Len(f)] = g[s]
    BY <1>1 DEF h
  <2>3. ASSUME NEW s \in DOMAIN h
        PROVE  (s \in DOMAIN f /\ h[s] = f[s]) \/ (s - Len(f) \in DOMAIN g /\ h[s] = g[s - Len(f)])
    BY <1>1 DEF h
  <2> QED
    BY <2>1, <2>2, <2>3
<1> QED
  BY <1>1, <1>2, <1>3, NumberSome DEF h

\* r has the references to the columns and those to the indicators, if any.
Joins(r, f, g, h) == (h = g \/ h = <<>>) /\ r = f \o h

LEMMA JoinedIs ==
    ASSUME NEW n \in 0 .. NCols, NEW f \in [1 .. n -> Obj], NEW g \in [1 .. n -> Obj],
           NEW h, NEW r, Joins(r, f, g, h)
    PROVE  /\ IsFiniteSet(DOMAIN r)
           /\ \A o : Number(r, o) \in Nat
           /\ \A o : Number(r, o) > 0 <=> \E c \in 1 .. n : f[c] = o \/ (h = g /\ g[c] = o)
<1>0. (h = g \/ h = <<>>) /\ r = f \o h
  BY DEF Joins
<1>1. f \in Seq(Obj) /\ h \in Seq(Obj)
  <2>1. n \in Nat /\ <<>> \in Seq(Obj)
    BY Constants
  <2>2. f \in Seq(Obj) /\ g \in Seq(Obj)
    BY <2>1, FunSeq
  <2> QED
    BY <1>0, <2>1, <2>2
<1>2. DOMAIN f = 1 .. n /\ DOMAIN h = IF h = g THEN 1 .. n ELSE {}
  BY <1>0
<1>3. /\ IsFiniteSet(DOMAIN r)
      /\ \A o : Number(r, o) > 0 <=> (\E s \in DOMAIN f : f[s] = o) \/ (\E s \in DOMAIN h : h[s] = o)
  <2>1. /\ IsFiniteSet(DOMAIN (f \o h))
        /\ \A o : Number(f \o h, o) > 0 <=> (\E s \in DOMAIN f : f[s] = o) \/ (\E s \in DOMAIN h : h[s] = o)
    BY <1>1, NumberJoined
  <2> QED
    BY <1>0, <2>1
<1>4. \A o : Number(r, o) \in Nat
  BY <1>3, NumberNat
<1>5. \A o : (\E s \in DOMAIN f : f[s] = o) \/ (\E s \in DOMAIN h : h[s] = o)
              <=> \E c \in 1 .. n : f[c] = o \/ (h = g /\ g[c] = o)
  BY <1>2
<1> QED
  BY <1>3, <1>4, <1>5

LEMMA CollectedIs ==
    ASSUME CallOK, now < MaxCalls, NEW nulls \in SUBSET Cols, NEW ind, NEW n \in 0 .. NCols
    PROVE  /\ IsFiniteSet(DOMAIN Collected(nulls, ind, n))
           /\ \A o : Number(Collected(nulls, ind, n), o) \in Nat
           /\ \A o : Number(Collected(nulls, ind, n), o) > 0 => o \in Obj /\ o[1] = now + 1
<1> DEFINE f == [c \in 1 .. n |-> <<now + 1, IF c \in nulls THEN Null ELSE c>>]
           g == [c \in 1 .. n |-> <<now + 1, IF c \in nulls THEN True ELSE False>>]
<1>1. now + 1 \in 1 .. MaxCalls
  BY Constants DEF CallOK
<1>2. ASSUME NEW c \in 1 .. n
      PROVE  /\ f[c] \in Obj /\ f[c][1] = now + 1
             /\ g[c] \in Obj /\ g[c][1] = now + 1
  BY <1>1, Constants DEF Obj, Null, True, False
<1>3. f \in [1 .. n -> Obj] /\ g \in [1 .. n -> Obj]
  BY <1>2
<1>4. PICK h, r : Joins(r, f, g, h) /\ r = Collected(nulls, ind, n)
  BY DEF Collected, Joins
<1> HIDE DEF f, g
<1>5. /\ IsFiniteSet(DOMAIN r)
      /\ \A o : Number(r, o) \in Nat
      /\ \A o : Number(r, o) > 0 <=> \E c \in 1 .. n : f[c] = o \/ (h = g /\ g[c] = o)
  BY <1>3, <1>4, JoinedIs
<1> QED
  BY <1>2, <1>4, <1>5

LEMMA GivenBackIs ==
    ASSUME Typed, InProgress("list")
    PROVE  /\ IsFiniteSet(DOMAIN GivenBack)
           /\ \A o : Number(GivenBack, o) \in Nat
           /\ \A o : Number(GivenBack, o) > 0
                       <=> \E c \in Cols : Data(c) = o \/ (call.ind # NoVar /\ Indicator(c) = o)
           /\ \A o : Number(GivenBack, o) > 0 => o \in Obj /\ o[1] = now
<1>1. /\ DataList \in [1 .. NCols -> Obj] /\ IndicatorList \in [1 .. NCols -> Obj]
      /\ \A c \in 1 .. NCols : DataList[c] = Data(c) /\ IndicatorList[c] = Indicator(c)
  BY ElementTyped DEF InProgress, DataList, IndicatorList, Cols
<1>2. PICK f, g, h, r : /\ f = DataList /\ g = IndicatorList /\ r = GivenBack /\ Joins(r, f, g, h)
                       /\ h = IF call.ind = NoVar THEN <<>> ELSE g
  BY DEF GivenBack, Joins
<1>3. NCols \in 0 .. NCols /\ (h = g <=> call.ind # NoVar)
  BY <1>1, <1>2, Constants
<1>4. /\ IsFiniteSet(DOMAIN r)
      /\ \A o : Number(r, o) \in Nat
      /\ \A o : Number(r, o) > 0 <=> \E c \in 1 .. NCols : f[c] = o \/ (h = g /\ g[c] = o)
  BY <1>1, <1>2, <1>3, JoinedIs
<1>5. \A o : Number(GivenBack, o) > 0
               <=> \E c \in Cols : Data(c) = o \/ (call.ind # NoVar /\ Indicator(c) = o)
  BY <1>1, <1>2, <1>3, <1>4 DEF Cols
<1> QED
  BY <1>2, <1>4, <1>5, ElementTyped DEF InProgress

\* The values of the next call have not been made.
LEMMA NextUnused ==
    ASSUME CountInv, NEW o \in Obj, o[1] > now
    PROVE  mem[o] = 0 /\ Count[o] = 0 /\ owned[o] = 0
<1>1. mem[o] = 0 /\ Count[o] = 0
  BY DEF CountInv, NewAreUnused, Counted, Freed
<1>2. owned \in [Obj -> Nat]
  BY DEF CountInv, Typed, TypeBase
<1> QED
  BY <1>1, <1>2, CountIs

LEMMA FetchListCounts ==
    ASSUME CountInv, NEW nulls \in SUBSET Cols, NEW row \in Var, NEW ind \in Var \cup {NoVar},
           FetchList(nulls, row, ind)
    PROVE  CountInv'
<1>1. CallOK /\ DataOK /\ Counted(mem, Count)
  BY TypedParts DEF CountInv
<1>2. PICK refs : refs = Collected(nulls, ind, NCols)
  OBVIOUS
<1>3. /\ call.at = "ended" /\ now < MaxCalls /\ now' = now + 1
      /\ call' = [mode |-> "list", at |-> "row", col |-> 1, nulls |-> nulls, row |-> row,
                  ind |-> ind, quiet |-> TRUE]
      /\ mem' = Rebind(mem, refs, <<>>)
      /\ owned' = [o \in Obj |-> owned[o] + Number(refs, o)]
      /\ UNCHANGED <<label, tcl, kept, listed, fault>>
  BY <1>2 DEF FetchList, Begins, Idle, Called
<1>4. /\ IsFiniteSet(DOMAIN refs)
      /\ \A o : Number(refs, o) \in Nat
      /\ \A o : Number(refs, o) > 0 => o \in Obj /\ o[1] = now + 1
  BY <1>1, <1>2, <1>3, CollectedIs, Constants
<1>5. owned \in [Obj -> Nat] /\ (owned \in [Obj -> Nat])'
  BY <1>1, <1>3, <1>4 DEF DataOK
<1>6. PICK nothing : nothing = <<>>
  OBVIOUS
<1>7. /\ IsFiniteSet(DOMAIN nothing) /\ mem' = Rebind(mem, refs, nothing)
      /\ \A o : Number(nothing, o) = 0
  <2>1. DOMAIN nothing = {} /\ IsFiniteSet({})
    BY <1>6, FS_EmptySet
  <2> QED
    BY <1>3, <1>6, <2>1, NumberNone
<1>8. now \in Nat
  BY <1>1 DEF CallOK
<1>9. ASSUME NEW o \in Obj
      PROVE  /\ Count'[o] = Count[o] + Number(refs, o) - Number(nothing, o)
             /\ Number(refs, o) > 0 => mem[o] # Freed
             /\ Number(nothing, o) > 0 => Count[o] > 0 \/ Number(refs, o) > 0
  <2>1. Places' = Places /\ kept' = kept
    BY <1>3 DEF Places
  <2>2. Count'[o] = Count[o] + Number(refs, o)
    <3>1. PICK n \in Nat : n = Cardinality(Held(Places, o)) + IF o \in kept THEN 1 ELSE 0
      BY HeldFinite
    <3>2. Count[o] = n + owned[o]
      BY <1>5, <3>1, CountIs
    <3>3. Count'[o] = n + owned'[o]
      BY <1>5, <2>1, <3>1, CountIsNext
    <3>4. owned'[o] = owned[o] + Number(refs, o) /\ owned[o] \in Nat /\ Number(refs, o) \in Nat
      BY <1>3, <1>4, <1>5
    <3> QED
      BY <3>1, <3>2, <3>3, <3>4
  <2>3. Number(refs, o) > 0 => mem[o] # Freed
    <3> SUFFICES ASSUME Number(refs, o) > 0 PROVE mem[o] # Freed
      OBVIOUS
    <3>1. o[1] = now + 1
      BY <1>4
    <3>2. mem[o] = 0
      BY <1>8, <3>1, NextUnused
    <3> QED
      BY <3>2 DEF Freed
  <2>4. Number(refs, o) \in Nat /\ Number(nothing, o) = 0
    BY <1>4, <1>7
  <2>5. Count[o] \in Nat
    BY <1>5, CountIs
  <2> QED
    BY <2>2, <2>3, <2>4, <2>5
<1>10. /\ (mem \in [Obj -> Int])'
       /\ Counted(mem, Count)'
       /\ \A o \in Obj : mem[o] = 0 /\ Number(refs, o) = 0 => mem'[o] = 0
  BY <1>1, <1>4, <1>5, <1>7, <1>9, RebindStep
<1>11. CallOK' /\ DataOK'
  <2>1. now' \in 1 .. MaxCalls /\ 1 \in Cols
    BY <1>3, <1>8, Constants DEF Cols
  <2>2. CallOK'
    BY <1>3, <2>1 DEF CallOK, CallTyped, InProgress
  <2> QED
    BY <1>1, <1>3, <1>5, <1>10, <2>2 DEF DataOK, TclTyped
<1>12. NewAreUnused'
  <2> SUFFICES ASSUME NEW o \in Obj, o[1] > now + 1 PROVE mem'[o] = 0
    BY <1>3 DEF NewAreUnused
  <2>1. o[1] > now /\ o[1] # now + 1
    BY <1>8 DEF Obj
  <2>2. Number(refs, o) = 0
    BY <1>4, <2>1
  <2> QED
    BY <1>10, <2>1, <2>2, NextUnused
<1>13. OwnedAreListed'
  <2>1. GivenBack' = refs
    BY <1>2, <1>3 DEF GivenBack, DataList, IndicatorList, Data, Indicator, Collected, Cols
  <2>2. InProgress("list")' /\ call'.at = "row"
    BY <1>3 DEF InProgress
  <2>3. ASSUME NEW o \in Obj, o[1] = now + 1 PROVE owned'[o] = Number(refs, o)
    <3>1. owned[o] = 0
      BY <1>8, <2>3, NextUnused
    <3> QED
      BY <1>3, <1>4, <3>1
  <2>4. ASSUME NEW o \in Obj, o[1] # now + 1, owned'[o] > 0 PROVE o \in listed
    <3>1. Number(refs, o) = 0
      BY <1>4, <2>4
    <3>2. owned'[o] = owned[o]
      BY <1>3, <1>5, <3>1
    <3>3. ~ InProgress("list")
      BY <1>3 DEF InProgress
    <3> QED
      BY <2>4, <3>2, <3>3 DEF CountInv, OwnedAreListed
  <2> QED
    BY <1>3, <2>1, <2>2, <2>3, <2>4 DEF OwnedAreListed
<1>14. OutAreUnused'
  BY <1>3 DEF OutAreUnused, InProgress
<1> QED
  BY <1>10, <1>11, <1>12, <1>13, <1>14, TypedParts DEF CountInv

LEMMA FetchListFailsCounts ==
    ASSUME CountInv, NEW nulls \in SUBSET Cols, NEW ind \in Var \cup {NoVar}, NEW n \in 0 .. NCols - 1,
           FetchListFails(nulls, ind, n)
    PROVE  CountInv'
<1>1. CallOK /\ DataOK /\ Counted(mem, Count)
  BY TypedParts DEF CountInv
<1>2. PICK refs : refs = Collected(nulls, ind, n)
  OBVIOUS
<1>3. /\ call.at = "ended" /\ now < MaxCalls /\ now' = now + 1
      /\ call' = NoCall
      /\ mem' = Rebind(mem, refs, refs)
      /\ UNCHANGED <<label, tcl, kept, owned, listed, fault>>
  BY <1>2 DEF FetchListFails, Begins, Idle, Fails
<1>4. /\ IsFiniteSet(DOMAIN refs)
      /\ \A o : Number(refs, o) \in Nat
      /\ \A o : Number(refs, o) > 0 => o \in Obj /\ o[1] = now + 1
  BY <1>1, <1>2, <1>3, CollectedIs, Constants
<1>5. owned \in [Obj -> Nat] /\ (owned \in [Obj -> Nat])' /\ now \in Nat
  BY <1>1, <1>3 DEF DataOK, CallOK
<1>6. ASSUME NEW o \in Obj
      PROVE  /\ Count'[o] = Count[o] + Number(refs, o) - Number(refs, o)
             /\ Number(refs, o) > 0 => mem[o] # Freed
  <2>1. Count' = Count
    BY <1>3, CountSame
  <2>2. Count[o] \in Nat /\ Number(refs, o) \in Nat
    BY <1>4, <1>5, CountIs
  <2>3. Number(refs, o) > 0 => mem[o] # Freed
    <3> SUFFICES ASSUME Number(refs, o) > 0 PROVE mem[o] # Freed
      OBVIOUS
    <3>1. o[1] = now + 1
      BY <1>4
    <3>2. mem[o] = 0
      BY <1>5, <3>1, NextUnused
    <3> QED
      BY <3>2 DEF Freed
  <2> QED
    BY <2>1, <2>2, <2>3
<1>7. /\ (mem \in [Obj -> Int])'
      /\ Counted(mem, Count)'
      /\ \A o \in Obj : mem[o] = 0 /\ Number(refs, o) = 0 => mem'[o] = 0
  BY <1>1, <1>3, <1>4, <1>5, <1>6, RebindStep
<1>8. CallOK' /\ DataOK'
  <2>1. now' \in 1 .. MaxCalls /\ 1 \in Cols
    BY <1>3, <1>5, Constants DEF Cols
  <2>2. CallOK'
    BY <1>3, <2>1 DEF CallOK, CallTyped, InProgress, NoCall
  <2> QED
    BY <1>1, <1>3, <1>5, <1>7, <2>2 DEF DataOK, TclTyped
<1>9. NewAreUnused'
  <2> SUFFICES ASSUME NEW o \in Obj, o[1] > now + 1 PROVE mem'[o] = 0
    BY <1>3 DEF NewAreUnused
  <2>1. o[1] > now /\ o[1] # now + 1
    BY <1>5 DEF Obj
  <2>2. Number(refs, o) = 0
    BY <1>4, <2>1
  <2> QED
    BY <1>7, <2>1, <2>2, NextUnused
<1>10. OwnedAreListed' /\ OutAreUnused'
  BY <1>3 DEF CountInv, OwnedAreListed, OutAreUnused, InProgress, NoCall
<1> QED
  BY <1>7, <1>8, <1>9, <1>10, TypedParts DEF CountInv

\* Error_Exit gives back what getRowData has, and leaves none of it.
LEMMA ErrorExitCounts ==
    ASSUME CountInv, InProgress("list"), NEW m \in [Obj -> Int], NEW mid \in [Obj -> Nat],
           Counted(m, mid), ErrorExit(m), now' = now,
           \A o \in Obj : mid[o] = Cardinality(Held(Places', o)) + (IF o \in kept THEN 1 ELSE 0) + owned[o],
           \A o \in Obj : o[1] > now => m[o] = 0,
           TclTyped', \A x \in Var : tcl'[x].form = "none" => tcl'[x].at = <<>>,
           UNCHANGED <<label, kept, listed, fault>>
    PROVE  CountInv'
<1>1. CallOK /\ DataOK /\ Typed
  BY TypedParts DEF CountInv
<1>2. PICK refs : refs = GivenBack
  OBVIOUS
<1>3. /\ IsFiniteSet(DOMAIN refs)
      /\ \A o : Number(refs, o) \in Nat
      /\ \A o : Number(refs, o) > 0 => o \in Obj /\ o[1] = now
  BY <1>1, <1>2, GivenBackIs
<1>4. PICK nothing : nothing = <<>>
  OBVIOUS
<1>5. /\ mem' = Rebind(m, nothing, refs)
      /\ owned' = [o \in Obj |-> owned[o] - Number(refs, o)]
      /\ call' = NoCall
  BY <1>2, <1>4 DEF ErrorExit, Fails
<1>6. IsFiniteSet(DOMAIN nothing) /\ (\A o : Number(nothing, o) = 0) /\ \A s \in DOMAIN nothing : FALSE
  <2>1. DOMAIN nothing = {} /\ IsFiniteSet({})
    BY <1>4, FS_EmptySet
  <2> QED
    BY <1>4, <2>1, NumberNone
<1>7. ASSUME NEW o \in Obj
      PROVE  /\ owned[o] \in Nat /\ owned'[o] = owned[o] - Number(refs, o) /\ owned'[o] \in Nat
             /\ owned'[o] > 0 => o \in listed
  <2>1. owned[o] \in Nat /\ Number(refs, o) \in Nat /\ owned'[o] = owned[o] - Number(refs, o)
    BY <1>1, <1>3, <1>5 DEF DataOK
  <2>2. CASE o[1] = now
    <3>1. owned[o] = Number(refs, o)
      BY <1>2, <2>2 DEF CountInv, OwnedAreListed
    <3> QED
      BY <2>1, <3>1
  <2>3. CASE o[1] # now
    <3>1. Number(refs, o) = 0
      BY <1>3, <2>3
    <3>2. owned[o] > 0 => o \in listed
      BY <2>3 DEF CountInv, OwnedAreListed
    <3> QED
      BY <2>1, <3>1, <3>2
  <2> QED
    BY <2>2, <2>3
<1>8. (owned \in [Obj -> Nat])'
  BY <1>5, <1>7
<1>9. Count' \in [Obj -> Nat] /\ \A o \in Obj : Count'[o] = mid[o] + Number(nothing, o) - Number(refs, o)
  <2>1. ASSUME NEW o \in Obj PROVE Count'[o] = mid[o] + Number(nothing, o) - Number(refs, o)
    <3>1. PICK n \in Nat : n = Cardinality(Held(Places', o)) + IF o \in kept THEN 1 ELSE 0
      BY HeldFinite
    <3>2. Count'[o] = n + owned'[o] /\ mid[o] = n + owned[o]
      BY <1>8, <3>1, CountIsNext
    <3>3. owned'[o] = owned[o] - Number(refs, o) /\ owned[o] \in Nat
      BY <1>7
    <3>4. Number(refs, o) \in Nat /\ Number(nothing, o) = 0
      BY <1>3, <1>6
    <3> QED
      BY <3>1, <3>2, <3>3, <3>4
  <2> QED
    BY <1>8, <2>1, CountIsNext
<1>10. /\ mem' \in [Obj -> Int]
       /\ Counted(mem', Count')
       /\ \A o \in Obj : Number(refs, o) = 0 => (Number(nothing, o) = 0 => mem'[o] = m[o])
  <2>1. \A s \in DOMAIN nothing : nothing[s] \in Obj => m[nothing[s]] # Freed
    BY <1>6
  <2>2. PICK after \in [Obj -> Nat] : after = Count'
    BY <1>9
  <2>3. \A o \in Obj : after[o] = mid[o] + Number(nothing, o) - Number(refs, o)
    BY <1>9, <2>2
  <2>4. /\ Rebind(m, nothing, refs) \in [Obj -> Int]
        /\ Counted(Rebind(m, nothing, refs), after)
    <3>1. IsFiniteSet(DOMAIN nothing) /\ IsFiniteSet(DOMAIN refs)
      BY <1>3, <1>6
    <3> QED
      BY <2>1, <2>3, <3>1, RebindCounts
  <2>5. \A o \in Obj : Number(refs, o) = 0 => (Number(nothing, o) = 0 => Rebind(m, nothing, refs)[o] = m[o])
    BY DEF Rebind
  <2> QED
    BY <1>5, <2>2, <2>4, <2>5
<1>11. CallOK' /\ DataOK'
  <2>1. CallOK'
    BY <1>1, <1>5, CallMoves DEF Fails, InProgress
  <2>2. DataOK'
    BY <1>1, <1>8, <1>10 DEF DataOK
  <2> QED
    BY <2>1, <2>2
<1>12. NewAreUnused'
  <2> SUFFICES ASSUME NEW o \in Obj, o[1] > now PROVE mem'[o] = 0
    BY DEF NewAreUnused
  <2>1. o[1] # now
    BY <1>1 DEF CallOK
  <2>2. Number(refs, o) = 0
    BY <1>3, <2>1
  <2> QED
    BY <1>6, <1>10, <2>2
<1>13. OwnedAreListed' /\ OutAreUnused'
  BY <1>5, <1>7 DEF OwnedAreListed, OutAreUnused, InProgress, NoCall
<1> QED
  BY <1>10, <1>11, <1>12, <1>13, TypedParts DEF CountInv, Counted

LEMMA ListFailsCounts == ASSUME CountInv, ListFails PROVE CountInv'
<1>1. DataOK /\ InProgress("list") /\ CallOK
  BY TypedParts DEF CountInv, ListFails, Running, InProgress
<1>2. PICK m \in [Obj -> Int], mid \in [Obj -> Nat] : m = mem /\ mid = Count
  BY <1>1, CountIs DEF DataOK
<1>3. ErrorExit(m) /\ Counted(m, mid) /\ UNCHANGED <<label, now, tcl, kept, listed, fault>>
  BY <1>2 DEF ListFails, CountInv
<1>4. \A o \in Obj : mid[o] = Cardinality(Held(Places', o)) + (IF o \in kept THEN 1 ELSE 0) + owned[o]
  <2>1. Places' = Places
    BY <1>3 DEF Places
  <2> QED
    BY <1>1, <1>2, <2>1, CountIs DEF DataOK
<1>5. \A o \in Obj : o[1] > now => m[o] = 0
  BY <1>2 DEF CountInv, NewAreUnused
<1>6. TclTyped' /\ \A x \in Var : tcl'[x].form = "none" => tcl'[x].at = <<>>
  BY <1>1, <1>3 DEF DataOK, TclTyped
<1> QED
  BY <1>1, <1>3, <1>4, <1>5, <1>6, ErrorExitCounts

\* Storing one of the two lists.
LEMMA StoreListCounts == ASSUME CountInv, StoreList PROVE CountInv'
<1>1. DataOK /\ InProgress("list") /\ CallOK /\ Typed /\ Counted(mem, Count) /\ TclTyped
  BY TypedParts DEF CountInv, StoreList, Running, InProgress, DataOK
<1>2. PICK x \in Var : x = Target
  BY <1>1, TargetTyped
<1>3. PICK v \in At : v = List
  <2>1. List \in [Cols -> Obj]
    BY <1>1, ElementTyped DEF InProgress
  <2> QED
    BY <2>1, AtType
<1>4. PICK l \in At : l = Places[x]
  BY <1>1, PlacesTyped
<1>5. /\ Sets(x, "value", v) /\ ListCounts(Target, List) = Rebind(mem, v, l)
      /\ UNCHANGED <<label, now, kept, fault>>
  BY <1>2, <1>3, <1>4 DEF StoreList, StoreWhole, Sets, ListCounts, Places
<1>6. /\ TclTyped' /\ Places[x] \in At
      /\ \A o : Cardinality(Held(Places', o))
                  = Cardinality(Held(Places, o)) + Number(v, o) - Number(Places[x], o)
  BY <1>1, <1>4, <1>5, TclMoved
<1>7. IsFiniteSet(DOMAIN v) /\ IsFiniteSet(DOMAIN l) /\ \A o : Number(v, o) \in Nat /\ Number(l, o) \in Nat
  BY AtFinite, NumberNat
<1>8. /\ IsFiniteSet(DOMAIN GivenBack)
      /\ \A o : Number(GivenBack, o) > 0
                  <=> \E c \in Cols : Data(c) = o \/ (call.ind # NoVar /\ Indicator(c) = o)
  BY <1>1, GivenBackIs
<1>9. ASSUME NEW o \in Obj, Number(v, o) > 0
      PROVE  o[1] = now /\ mem[o] # Freed /\ (\E c \in Cols : v[c] = o)
  <2>1. DOMAIN v = Cols
    BY <1>3 DEF List, DataList, IndicatorList
  <2>2. PICK c \in Cols : v[c] = o
    BY <1>7, <1>9, <2>1, NumberSome
  <2>3. v[c] = IF call.at = "row" THEN Data(c) ELSE Indicator(c)
    BY <1>3 DEF List, DataList, IndicatorList
  <2>4. call.at # "row" => call.ind # NoVar
    BY <1>1, Constants DEF CallOK, InProgress
  <2>5. Number(GivenBack, o) > 0
    BY <1>8, <2>2, <2>3, <2>4
  <2>6. o[1] = now
    BY <1>1, <2>2, <2>3, ElementTyped DEF InProgress
  <2>7. owned[o] > 0
    BY <1>1, <2>5, <2>6 DEF CountInv, OwnedAreListed
  <2>8. Count[o] > 0
    <3>1. PICK n \in Nat : n = Cardinality(Held(Places, o)) + IF o \in kept THEN 1 ELSE 0
      BY HeldFinite
    <3>2. Count[o] = n + owned[o] /\ owned[o] \in Nat
      BY <1>1, <3>1, CountIs DEF DataOK
    <3> QED
      BY <2>7, <3>1, <3>2
  <2> QED
    BY <1>1, <2>2, <2>6, <2>8 DEF Counted
<1> DEFINE mid == [o \in Obj |-> Count[o] + Number(v, o) - Number(l, o)]
           m == Rebind(mem, v, l)
<1>10. ASSUME NEW o \in Obj
       PROVE  /\ mid[o] = Count[o] + Number(v, o) - Number(l, o) /\ mid[o] \in Nat
              /\ mid[o] = Cardinality(Held(Places', o)) + (IF o \in kept THEN 1 ELSE 0) + owned[o]
              /\ Count[o] = 0 => Number(l, o) = 0
  <2>1. PICK n \in Nat : n = (IF o \in kept THEN 1 ELSE 0) + owned[o]
    BY <1>1 DEF DataOK
  <2>2. Cardinality(Held(Places, o)) \in Nat /\ Count[o] = Cardinality(Held(Places, o)) + n
    BY <1>1, <2>1, CountIs DEF DataOK
  <2>3. /\ Cardinality(Held(Places', o)) = Cardinality(Held(Places, o)) + Number(v, o) - Number(l, o)
        /\ Number(l, o) <= Cardinality(Held(Places, o))
    BY <1>1, <1>4, <1>6, PlacesTyped, HeldSome
  <2>4. Number(v, o) \in Nat /\ Number(l, o) \in Nat
    BY <1>7
  <2>5. Cardinality(Held(Places', o)) + (IF o \in kept THEN 1 ELSE 0) + owned[o] = Cardinality(Held(Places', o)) + n
    BY <1>1, <2>1, <2>2, <2>3, <2>4 DEF DataOK
  <2>6. mid[o] = Count[o] + Number(v, o) - Number(l, o)
    OBVIOUS
  <2> HIDE DEF mid
  <2> QED
    BY <2>2, <2>3, <2>4, <2>5, <2>6
<1>11. mid \in [Obj -> Nat]
  BY <1>10
<1> HIDE DEF mid, m
<1>12. /\ m \in [Obj -> Int]
       /\ Counted(m, mid)
       /\ \A o \in Obj : Number(l, o) = 0 => (Number(v, o) = 0 => m[o] = mem[o])
  <2>1. Count \in [Obj -> Nat] /\ mem \in [Obj -> Int]
    BY <1>1, CountIs DEF DataOK
  <2>2. \A s \in DOMAIN v : v[s] \in Obj => mem[v[s]] # Freed
    BY <1>7, <1>9, NumberSome
  <2> QED
    BY <1>1, <1>7, <1>10, <1>11, <2>1, <2>2, RebindCounts DEF m
<1>13. \A o \in Obj : mem[o] = 0 /\ o[1] > now => m[o] = 0
  <2> SUFFICES ASSUME NEW o \in Obj, mem[o] = 0, o[1] > now PROVE m[o] = 0
    OBVIOUS
  <2>1. o[1] # now
    BY <1>1 DEF CallOK
  <2>2. Number(v, o) = 0
    BY <1>7, <1>9, <2>1
  <2>3. Count[o] = 0
    BY <1>1 DEF Counted, Freed
  <2> QED
    BY <1>10, <1>12, <2>2, <2>3
<1>14. \A o \in Obj : o[1] > now => m[o] = 0
  BY <1>13 DEF CountInv, NewAreUnused
<1>15. \A y \in Var : tcl'[y].form = "none" => tcl'[y].at = <<>>
  <2>1. \A y \in Var : tcl'[y] = IF y = x THEN [form |-> "value", at |-> v] ELSE tcl[y]
    BY <1>1, <1>5 DEF TclTyped, Sets
  <2> QED
    BY <1>1, <2>1 DEF DataOK
<1>16. CASE ErrorExit(ListCounts(Target, List)) /\ UNCHANGED listed
  <2>1. PICK n \in [Obj -> Int], k \in [Obj -> Nat] : n = m /\ k = mid
    BY <1>11, <1>12
  <2>2. ErrorExit(n) /\ Counted(n, k) /\ now' = now /\ UNCHANGED <<label, kept, listed, fault>>
    BY <1>5, <1>12, <1>16, <2>1 DEF m
  <2>3. /\ \A o \in Obj : k[o] = Cardinality(Held(Places', o)) + (IF o \in kept THEN 1 ELSE 0) + owned[o]
        /\ \A o \in Obj : o[1] > now => n[o] = 0
    BY <1>10, <1>14, <2>1
  <2> QED
    BY <1>1, <1>6, <1>15, <2>2, <2>3, ErrorExitCounts
<1>17. CASE /\ IF call.at = "row" /\ call.ind # NoVar THEN Goes("ind") ELSE Succeeds
            /\ mem' = ListCounts(Target, List)
            /\ UNCHANGED owned
            /\ listed' = listed \cup {List[c] : c \in Cols}
  <2>1. mem' = m
    BY <1>5, <1>17 DEF m
  <2>2. CallOK'
    BY <1>1, <1>5, <1>17, CallMoves DEF InProgress
  <2>3. (listed \subseteq Obj)'
    <3>1. List \in [Cols -> Obj]
      BY <1>1, ElementTyped DEF InProgress
    <3> QED
      BY <1>1, <1>17, <3>1 DEF DataOK
  <2>4. DataOK'
    BY <1>1, <1>5, <1>6, <1>12, <1>15, <1>17, <2>1, <2>3 DEF DataOK
  <2>5. Counted(mem, Count)'
    <3>1. \A o \in Obj : Count'[o] = mid[o]
      BY <1>1, <1>5, <1>10, <1>17, CountIsNext DEF DataOK
    <3> QED
      BY <1>12, <2>1, <3>1 DEF Counted
  <2>6. NewAreUnused'
    BY <1>5, <1>14, <2>1 DEF NewAreUnused
  <2>7. call'.mode = "list" /\ call'.nulls = call.nulls /\ call'.ind = call.ind
    BY <1>1, <1>17 DEF CallOK, InProgress, Goes, Succeeds
  <2>8. OutAreUnused'
    BY <2>7 DEF OutAreUnused, InProgress
  <2>9. OwnedAreListed'
    <3>1. CASE call.at = "row" /\ call.ind # NoVar
      <4>1. call'.at = "ind"
        BY <1>1, <1>17, <3>1 DEF CallOK, Goes
      <4>2. InProgress("list")'
        BY <2>7, <4>1 DEF InProgress
      <4>3. GivenBack' = GivenBack /\ \A c : Data(c)' = Data(c)
        BY <1>5, <2>7 DEF GivenBack, DataList, IndicatorList, Data, Indicator
      <4>4. \A c \in Cols : Data(c) \in listed'
        BY <1>17, <3>1 DEF List, DataList
      <4>5. listed \subseteq listed'
        BY <1>17
      <4> QED
        BY <1>1, <1>5, <1>17, <4>1, <4>2, <4>3, <4>4, <4>5 DEF CountInv, OwnedAreListed
    <3>2. CASE ~ (call.at = "row" /\ call.ind # NoVar)
      <4>1. ~ InProgress("list")'
        BY <1>1, <1>17, <3>2 DEF CallOK, Succeeds, InProgress
      <4> SUFFICES ASSUME NEW o \in Obj, owned[o] > 0 PROVE o \in listed'
        BY <1>17, <4>1 DEF OwnedAreListed
      <4>2. CASE o[1] # now
        BY <1>17, <4>2 DEF CountInv, OwnedAreListed
      <4>3. CASE o[1] = now
        <5>1. owned[o] = Number(GivenBack, o)
          BY <1>1, <4>3 DEF CountInv, OwnedAreListed
        <5>2. PICK c \in Cols : Data(c) = o \/ (call.ind # NoVar /\ Indicator(c) = o)
          BY <1>8, <5>1
        <5>3. CASE call.at = "row"
          BY <1>17, <3>2, <5>2, <5>3 DEF List, DataList
        <5>4. CASE call.at # "row"
          <6>1. call.at = "ind"
            BY <1>1, <5>4 DEF CallOK, InProgress
          <6>2. Indicator(c) \in listed'
            BY <1>17, <5>4 DEF List, IndicatorList
          <6>3. Data(c) = o => o \in listed
            BY <1>1, <4>3, <6>1 DEF CountInv, OwnedAreListed
          <6> QED
            BY <1>17, <5>2, <6>2, <6>3
        <5> QED
          BY <5>3, <5>4
      <4> QED
        BY <4>2, <4>3
    <3> QED
      BY <3>1, <3>2
  <2> QED
    BY <2>2, <2>4, <2>5, <2>6, <2>8, <2>9, TypedParts DEF CountInv
<1> QED
  BY <1>16, <1>17 DEF StoreList

----------------------------------------------------------------------------
LEMMA NextCounts == CountInv /\ [Next]_vars => CountInv'
<1> SUFFICES ASSUME CountInv, [Next]_vars PROVE CountInv'
  OBVIOUS
<1>1. CASE UNCHANGED vars
  <2>1. CallOK /\ DataOK
    BY TypedParts DEF CountInv
  <2>2. UNCHANGED <<label, now, call, mem, tcl, kept, owned, listed, fault>>
    BY <1>1 DEF vars
  <2>3. CallOK' /\ CallGoesOn
    BY <2>1, <2>2, ScriptCall
  <2>4. DataOK'
    BY <2>1, <2>2 DEF DataOK, TclTyped
  <2>5. Counted(mem, Count)'
    BY <2>2, CountSame DEF CountInv, Counted
  <2> QED
    BY <2>2, <2>3, <2>4, <2>5, OwnedGoesOn, UnusedGoesOn, TypedParts DEF CountInv
<1>2. CASE \E nulls \in SUBSET Cols, row \in Var, ind \in Var \cup {NoVar} :
             \/ FetchArray(nulls, row, ind)
             \/ FetchList(nulls, row, ind)
             \/ \E n \in 0 .. NCols - 1 : FetchListFails(nulls, ind, n)
  BY <1>2, StartsCount, FetchListCounts, FetchListFailsCounts DEF FetchesArray
<1>3. CASE StoreElement
  BY <1>3, StoreElementCounts
<1>4. CASE ElementFails
  BY <1>4, ElementFailsCounts
<1>5. CASE ColumnFails \/ ElementFreed \/ OutFails
  BY <1>5, StopsCount
<1>6. CASE StoreList
  BY <1>6, StoreListCounts
<1>7. CASE ListFails
  BY <1>7, ListFailsCounts
<1>8. CASE CopyOutput
  BY <1>8, StartsCount
<1>9. CASE \E x \in Var : StoreOut(x) \/ Unset(x) \/ \E s \in DOMAIN tcl[x].at : UnsetElement(x, s)
  BY <1>9, StoreOutCounts, UnsetCounts, UnsetElementCounts
<1>10. CASE \E o \in Obj : Keep(o) \/ Drop(o)
  BY <1>10, ScriptCopies
<1> QED
  BY <1>1, <1>2, <1>3, <1>4, <1>5, <1>6, <1>7, <1>8, <1>9, <1>10 DEF Next

\* The count of a value is the number of variables, copies and lists of
\* getRowData that have it, through every failure and every trace; one that has
\* been freed has none.
THEOREM CountsAgree == Spec => []CountsAreHolders
<1>1. CountInv => CountsAreHolders
  BY DEF CountInv, Counted, Count, CountsAreHolders
<1> QED
  BY <1>1, InitCounts, NextCounts, PTL DEF Spec

\* getRowData leaves no reference behind but those to values of a list it has
\* stored.
THEOREM LostAreListed == Spec => []OnlyListsAreLost
<1>1. CountInv => OnlyListsAreLost
  BY DEF CountInv, OwnedAreListed, OnlyListsAreLost, Idle, InProgress
<1> QED
  BY <1>1, InitCounts, NextCounts, PTL DEF Spec

----------------------------------------------------------------------------
(* A proper fetch of an array stores no value that is gone. *)

Proper ==
    /\ call.mode = "array" /\ call.quiet
    /\ call.row # call.ind
    /\ \A c \in Cols : label[c] = c

\* The elements the call has stored.
StoredNow(x, s) ==
    \/ x = call.row /\ s < call.col
    \/ x = call.row /\ s = call.col /\ call.at = "ind"
    \/ x = call.ind /\ s < call.col

IsHeld(o) == \E x \in Var : \E s \in DOMAIN Places[x] : Places[x][s] = o

NoneIsFreed == \A o \in Obj : o[1] = now => mem[o] # Freed

StoredInOrder == \A x \in Var : \A s \in DOMAIN Places[x] : Places[x][s][1] = now => StoredNow(x, s)

KeptAreStored == \A o \in kept : o[1] = now => IsHeld(o)

\* No value of the fetch is freed, as none of them loses the element it is in
\* to a later column, and the copies of the script are of such elements.
FetchIsSafe == NoneIsFreed /\ StoredInOrder /\ KeptAreStored

SafeInv ==
    /\ fault = "freedValue" => call.mode = "array" /\ ~ Proper
    /\ fault = "none" /\ InProgress("array") /\ Proper => FetchIsSafe

LEMMA HeldCounts ==
    ASSUME DataOK, NEW o \in Obj, IsHeld(o) \/ o \in kept
    PROVE  Count[o] > 0
<1>1. PICK n \in Nat : n = Cardinality(Held(Places, o))
  BY HeldFinite
<1>2. PICK k \in Nat : k = IF o \in kept THEN 1 ELSE 0
  OBVIOUS
<1>3. owned[o] \in Nat /\ Count[o] = n + k + owned[o]
  BY <1>1, <1>2, CountIs DEF DataOK
<1>4. IsHeld(o) => n # 0
  BY <1>1, PlacesTyped, HeldSome DEF DataOK, IsHeld
<1> QED
  BY <1>2, <1>3, <1>4

\* Types of the variables: counts never fall below zero, and every value a
\* variable or a copy has was made by a call and is not freed.
THEOREM TypeCorrect == Spec => []TypeOK
<1>1. CountInv => TypeOK
  <2> SUFFICES ASSUME CountInv PROVE TypeOK
    OBVIOUS
  <2>1. Typed /\ DataOK
    BY TypedParts DEF CountInv
  <2>2. Count \in [Obj -> Nat]
    BY <2>1, CountIs DEF DataOK
  <2>3. \A o \in Obj : IF mem[o] = Freed THEN Count[o] = 0 ELSE mem[o] = Count[o]
    BY DEF CountInv, Counted
  <2>4. mem \in [Obj -> Nat \cup {Freed}]
    BY <2>1, <2>2, <2>3 DEF DataOK
  <2>5. ASSUME NEW o \in Obj, IsHeld(o) \/ o \in kept PROVE o \in Made
    <3>1. Count[o] > 0
      BY <2>1, <2>5, HeldCounts
    <3>2. mem[o] # Freed /\ mem[o] # 0
      BY <2>2, <2>3, <3>1 DEF Freed
    <3>3. o[1] \in Nat /\ now \in Nat
      BY <2>1 DEF Obj, Typed, TypeBase
    <3> QED
      BY <3>2, <3>3 DEF Made, CountInv, NewAreUnused
  <2>6. kept \subseteq Made
    BY <2>1, <2>5 DEF DataOK
  <2>7. ASSUME NEW x \in Var PROVE tcl[x].at \in UNION {[D -> Made] : D \in SUBSET Cols}
    <3>1. tcl[x].at \in At
      BY <2>1 DEF DataOK, TclTyped
    <3>2. DOMAIN tcl[x].at \subseteq Cols /\ tcl[x].at \in [DOMAIN tcl[x].at -> Obj]
      BY <3>1, AtType
    <3>3. ASSUME NEW s \in DOMAIN tcl[x].at PROVE tcl[x].at[s] \in Made
      <4>1. IsHeld(tcl[x].at[s]) /\ tcl[x].at[s] \in Obj
        BY <3>2 DEF IsHeld, Places
      <4> QED
        BY <2>5, <4>1
    <3>4. tcl[x].at \in [DOMAIN tcl[x].at -> Made]
      BY <3>2, <3>3
    <3> QED
      BY <3>2, <3>4
  <2>8. tcl \in [Var -> [form : {"none", "array", "value"},
                        at : UNION {[D -> Made] : D \in SUBSET Cols}]]
    <3> DEFINE U == UNION {[D -> Made] : D \in SUBSET Cols}
    <3>1. \A x \in Var : tcl[x].at \in U
      BY <2>7
    <3> HIDE DEF U
    <3>2. tcl \in [Var -> [form : {"none", "array", "value"}, at : At]]
      BY <2>1 DEF DataOK, TclTyped
    <3>3. tcl \in [Var -> [form : {"none", "array", "value"}, at : U]]
      BY <3>1, <3>2
    <3> QED
      BY <3>3 DEF U
  <2> QED
    BY <2>1, <2>4, <2>6, <2>8 DEF TypeOK, Typed, TypeBase
<1> QED
  BY <1>1, InitCounts, NextCounts, PTL DEF Spec

LEMMA HeldCountsNext ==
    ASSUME DataOK', NEW o \in Obj, IsHeld(o)'
    PROVE  Count'[o] > 0
<1>1. PICK n \in Nat : n = Cardinality(Held(Places', o))
  BY HeldFinite
<1>2. PICK k \in Nat : k = IF o \in kept' THEN 1 ELSE 0
  OBVIOUS
<1>3. owned'[o] \in Nat /\ Count'[o] = n + k + owned'[o]
  BY <1>1, <1>2, CountIsNext DEF DataOK
<1>4. Places' \in [Var -> At]
  BY DEF DataOK, TclTyped, Places
<1>5. n # 0
  BY <1>1, <1>4, HeldSome DEF IsHeld
<1> QED
  BY <1>2, <1>3, <1>5

LEMMA FetchStartsSafe ==
    ASSUME CountInv, FetchesArray
    PROVE  FetchIsSafe'
<1>1. DataOK /\ CallOK
  BY TypedParts DEF CountInv
<1>2. now' = now + 1 /\ now \in Nat /\ UNCHANGED <<mem, tcl, kept>> /\ Places' = Places
  BY <1>1 DEF FetchesArray, FetchArray, Begins, CallOK, Places
<1>3. ASSUME NEW o \in Obj, o[1] = now + 1 PROVE mem[o] = 0 /\ ~ IsHeld(o) /\ o \notin kept
  BY <1>1, <1>2, <1>3, NextUnused, HeldCounts
<1>4. NoneIsFreed'
  BY <1>2, <1>3 DEF NoneIsFreed, Freed
<1>5. StoredInOrder'
  <2>1. ASSUME NEW x \in Var, NEW s \in DOMAIN Places[x] PROVE Places[x][s] \in Obj /\ IsHeld(Places[x][s])
    BY <1>1, PlacesTyped, AtType DEF IsHeld, DataOK
  <2> QED
    BY <1>2, <1>3, <2>1 DEF StoredInOrder
<1>6. KeptAreStored'
  BY <1>1, <1>2, <1>3 DEF KeptAreStored, DataOK
<1> QED
  BY <1>4, <1>5, <1>6 DEF FetchIsSafe

LEMMA StoreStaysSafe ==
    ASSUME CountInv, StoreElement, ~ Fails, Proper, FetchIsSafe, InProgress("array")'
    PROVE  FetchIsSafe'
<1>1. DataOK /\ CallOK /\ InProgress("array") /\ Typed
  BY TypedParts DEF CountInv, StoreElement, Running, InProgress
<1>2. PICK x \in Var, s \in Cols, v \in At, e \in Obj :
              /\ x = Target /\ s = label[call.col] /\ e = Element
              /\ v = [t \in DOMAIN Places[x] \cup {s} |-> IF t = s THEN e ELSE Places[x][t]]
              /\ Sets(x, "array", v)
  BY ElementStored
<1>3. /\ now' = now /\ kept' = kept
      /\ \/ call.at = "row" /\ call.ind # NoVar /\ Goes("ind")
         \/ ~ (call.at = "row" /\ call.ind # NoVar) /\ NextColumn
  BY DEF StoreElement
<1>4. call.col \in Cols /\ s = call.col
  BY <1>1, <1>2 DEF CallOK, Proper
<1>5. Places' = [Places EXCEPT ![x] = v] /\ Places \in [Var -> At]
  BY <1>1, <1>2, TclMoved, PlacesTyped DEF DataOK
<1>6. call.at \in {"row", "ind"} /\ x = IF call.at = "row" THEN call.row ELSE call.ind
  BY <1>1, <1>2 DEF CallOK, InProgress, Target
<1>7. ~ StoredNow(x, s)
  BY <1>1, <1>4, <1>6 DEF StoredNow, Proper, Cols
<1>8. ASSUME s \in DOMAIN Places[x] PROVE Places[x][s][1] # now
  BY <1>7, <1>8 DEF FetchIsSafe, StoredInOrder
<1>9. /\ call'.row = call.row /\ call'.ind = call.ind
      /\ \/ call.at = "row" /\ call'.at = "ind" /\ call'.col = call.col
         \/ call'.at = "row" /\ call'.col = call.col + 1
  <2>1. CASE Goes("ind") /\ call.at = "row"
    BY <1>1, <2>1 DEF CallOK, Goes
  <2>2. CASE NextColumn
    <3>1. call.col # NCols
      BY <1>1, <2>2 DEF CallOK, NextColumn, Succeeds, InProgress
    <3> QED
      BY <1>1, <2>2, <3>1 DEF CallOK, NextColumn
  <2> QED
    BY <1>3, <2>1, <2>2
<1>10. StoredNow(x, s)' /\ \A y \in Var, t \in Cols : StoredNow(y, t) => StoredNow(y, t)'
  BY <1>4, <1>6, <1>9 DEF StoredNow, Cols
<1>11. NoneIsFreed'
  <2> SUFFICES ASSUME NEW o \in Obj, o[1] = now PROVE mem'[o] # Freed
    BY <1>3 DEF NoneIsFreed
  <2>1. Number(Before(Places[x], s), o) = 0
    <3>1. CASE s \in DOMAIN Places[x]
      <4>1. Places[x][s] # o
        BY <1>8, <3>1
      <4> QED
        BY <3>1, <4>1, NumberOne DEF Before
    <3>2. CASE s \notin DOMAIN Places[x]
      BY <3>2, NumberNone DEF Before
    <3> QED
      BY <3>1, <3>2
  <2>2. mem[o] # Freed
    BY DEF FetchIsSafe, NoneIsFreed
  <2> QED
    BY <1>2, <2>1, <2>2, StoreElementCounts
<1>12. StoredInOrder'
  <2> SUFFICES ASSUME NEW y \in Var, NEW t \in DOMAIN Places'[y], Places'[y][t][1] = now
               PROVE  StoredNow(y, t)'
    BY <1>3 DEF StoredInOrder
  <2>1. CASE y = x /\ t = s
    BY <1>10, <2>1
  <2>2. CASE ~ (y = x /\ t = s)
    <3>1. t \in DOMAIN Places[y] /\ Places'[y][t] = Places[y][t]
      BY <1>2, <1>5, <2>2
    <3>2. t \in Cols
      BY <1>5, <3>1, AtType
    <3> QED
      BY <1>10, <3>1, <3>2 DEF FetchIsSafe, StoredInOrder
  <2> QED
    BY <2>1, <2>2
<1>13. KeptAreStored'
  <2> SUFFICES ASSUME NEW o \in kept, o[1] = now PROVE IsHeld(o)'
    BY <1>3 DEF KeptAreStored
  <2>1. PICK y \in Var : \E t \in DOMAIN Places[y] : Places[y][t] = o
    BY DEF FetchIsSafe, KeptAreStored, IsHeld
  <2>2. PICK t \in DOMAIN Places[y] : Places[y][t] = o
    BY <2>1
  <2>3. ~ (y = x /\ t = s)
    BY <1>8, <2>2
  <2>4. t \in DOMAIN Places'[y] /\ Places'[y][t] = o
    BY <1>2, <1>5, <2>2, <2>3
  <2> QED
    BY <2>4 DEF IsHeld
<1> QED
  BY <1>11, <1>12, <1>13 DEF FetchIsSafe

LEMMA CopiesStaySafe ==
    ASSUME CountInv, CountInv', NEW o \in Obj, Keep(o) \/ Drop(o), FetchIsSafe
    PROVE  FetchIsSafe'
<1>1. DataOK /\ DataOK'
  BY TypedParts DEF CountInv
<1>2. now' = now /\ call' = call /\ tcl' = tcl /\ Places' = Places
  BY DEF Keep, Drop, Places
<1>3. \A p : IsHeld(p)' <=> IsHeld(p)
  BY <1>2 DEF IsHeld
<1>4. StoredInOrder'
  BY <1>2 DEF FetchIsSafe, StoredInOrder, StoredNow
<1>5. CASE Keep(o)
  <2>1. IsHeld(o) /\ kept' = kept \cup {o}
    BY <1>5 DEF Keep, IsHeld, Places
  <2>2. NoneIsFreed'
    BY <1>2, <1>5, ScriptCopies DEF FetchIsSafe, NoneIsFreed
  <2>3. KeptAreStored'
    BY <1>2, <1>3, <2>1 DEF FetchIsSafe, KeptAreStored
  <2> QED
    BY <1>4, <2>2, <2>3 DEF FetchIsSafe
<1>6. CASE Drop(o)
  <2>1. o \in kept /\ kept' = kept \ {o}
    BY <1>6 DEF Drop
  <2>2. ASSUME NEW p \in Obj, p[1] = now PROVE mem'[p] # Freed
    <3>1. CASE p = o
      <4>1. IsHeld(o)'
        BY <1>3, <2>1, <2>2, <3>1 DEF FetchIsSafe, KeptAreStored
      <4> QED
        BY <1>1, <1>6, <3>1, <4>1, HeldCountsNext, ScriptCopies
    <3>2. CASE p # o
      BY <2>2, <3>2, ScriptCopies DEF FetchIsSafe, NoneIsFreed
    <3> QED
      BY <3>1, <3>2
  <2>3. KeptAreStored'
    BY <1>2, <1>3, <2>1 DEF FetchIsSafe, KeptAreStored
  <2> QED
    BY <1>2, <1>4, <2>2, <2>3 DEF FetchIsSafe, NoneIsFreed
<1> QED
  BY <1>5, <1>6

LEMMA NextSafe ==
    ASSUME CountInv, CountInv', SafeInv, [Next]_vars
    PROVE  SafeInv'
<1>0. DataOK /\ CallOK /\ Typed /\ DataOK'
  BY TypedParts DEF CountInv
<1>1. CASE UNCHANGED vars
  BY <1>1 DEF vars, SafeInv, Proper, FetchIsSafe, NoneIsFreed, StoredInOrder, KeptAreStored,
              InProgress, StoredNow, IsHeld, Places
<1>2. ASSUME fault' # "freedValue", ~ (InProgress("array") /\ Proper)' PROVE SafeInv'
  BY <1>2 DEF SafeInv
<1>3. CASE FetchesArray
  BY <1>3, FetchStartsSafe DEF SafeInv, FetchesArray, FetchArray, Begins, Idle
<1>4. CASE \E nulls \in SUBSET Cols, row \in Var, ind \in Var \cup {NoVar} :
             \/ FetchList(nulls, row, ind)
             \/ \E n \in 0 .. NCols - 1 : FetchListFails(nulls, ind, n)
  <2>1. fault' = "none" /\ call'.mode # "array"
    BY <1>4 DEF FetchList, FetchListFails, Begins, Idle, Called, Fails, NoCall
  <2> QED
    BY <1>2, <2>1 DEF InProgress
<1>5. CASE StoreElement
  <2>1. fault = "none" /\ fault' = "none" /\ InProgress("array") /\ UNCHANGED <<label, now>>
    BY <1>5 DEF StoreElement, Running, InProgress
  <2>2. CASE Fails
    BY <1>2, <2>1, <2>2 DEF Fails, NoCall, InProgress
  <2>3. CASE ~ Fails /\ (InProgress("array") /\ Proper)'
    <3>1. Succeeds \/ NextColumn \/ Goes("ind")
      BY <1>5, <2>3 DEF StoreElement
    <3>2. call'.quiet = call.quiet /\ call'.row = call.row /\ call'.ind = call.ind /\ call'.mode = call.mode
      BY <1>0, <3>1 DEF CallOK, Succeeds, NextColumn, Goes
    <3>3. Proper
      BY <2>1, <2>3, <3>2 DEF Proper
    <3>4. FetchIsSafe'
      BY <1>5, <2>1, <2>3, <3>3, StoreStaysSafe DEF SafeInv
    <3> QED
      BY <2>1, <3>4 DEF SafeInv
  <2> QED
    BY <1>2, <2>1, <2>2, <2>3
<1>6. CASE ElementFails \/ ColumnFails
  <2>1. fault' = "none" /\ call' = NoCall
    BY <1>6 DEF ElementFails, ColumnFails, Running, Fails
  <2> QED
    BY <1>2, <2>1 DEF InProgress, NoCall
<1>7. CASE ElementFreed
  <2>1. /\ fault = "none" /\ InProgress("array") /\ mem[Element] = Freed
        /\ UNCHANGED <<label, call>> /\ fault' = "freedValue"
    BY <1>7 DEF ElementFreed, Running, InProgress, Crash
  <2>2. Element \in Obj /\ Element[1] = now
    BY <1>0, <2>1, ElementTyped DEF InProgress
  <2>3. ~ Proper
    BY <2>1, <2>2 DEF SafeInv, FetchIsSafe, NoneIsFreed
  <2> QED
    BY <2>1, <2>3 DEF SafeInv, Proper, InProgress
<1>8. CASE StoreList \/ ListFails
  <2>1. fault = "none" /\ fault' = fault /\ InProgress("list")
    BY <1>8 DEF StoreList, ListFails, Running, InProgress
  <2>2. Fails \/ Succeeds \/ Goes("ind")
    BY <1>8 DEF StoreList, ListFails, ErrorExit
  <2>3. call'.mode # "array"
    BY <1>0, <2>1, <2>2 DEF InProgress, CallOK, Fails, NoCall, Succeeds, Goes
  <2> QED
    BY <1>2, <2>1, <2>3 DEF InProgress
<1>9. CASE CopyOutput \/ OutFails
  <2>1. fault' # "freedValue" /\ call'.mode = "out"
    BY <1>9 DEF CopyOutput, Begins, Idle, Called, OutFails, Crash, Running
  <2> QED
    BY <1>2, <2>1 DEF InProgress
<1>10. ASSUME NEW x \in Var, StoreOut(x) PROVE SafeInv'
  <2>1. fault' = "none" /\ call.mode = "out" /\ NextColumn
    BY <1>10 DEF StoreOut, Running
  <2>2. call'.mode = "out"
    <3>1. Succeeds \/ call' = [call EXCEPT !.at = "row", !.col = @ + 1]
      BY <2>1 DEF NextColumn
    <3> QED
      BY <1>0, <2>1, <3>1 DEF CallOK, Succeeds
  <2> QED
    BY <1>2, <2>1, <2>2 DEF InProgress
<1>11. ASSUME NEW x \in Var, Unset(x) \/ \E s \in DOMAIN tcl[x].at : UnsetElement(x, s) PROVE SafeInv'
  <2>1. fault' = "none" /\ Disturbs
    BY <1>11 DEF Unset, UnsetElement
  <2>2. ~ (InProgress("array") /\ Proper)'
    <3>1. call' = NoCall \/ call' = [call EXCEPT !.quiet = FALSE]
      BY <2>1 DEF Disturbs
    <3> QED
      BY <1>0, <3>1 DEF CallOK, NoCall, Proper, InProgress
  <2> QED
    BY <1>2, <2>1, <2>2
<1>12. ASSUME NEW o \in Obj, Keep(o) \/ Drop(o) PROVE SafeInv'
  <2>1. fault = "none" /\ UNCHANGED <<label, call, fault>>
    BY <1>12 DEF Keep, Drop
  <2>2. InProgress("array")' = InProgress("array") /\ Proper' = Proper
    BY <2>1 DEF InProgress, Proper
  <2>3. CASE InProgress("array") /\ Proper
    BY <1>12, <2>1, <2>3, CopiesStaySafe DEF SafeInv
  <2>4. CASE ~ (InProgress("array") /\ Proper)
    BY <1>2, <2>1, <2>2, <2>4
  <2> QED
    BY <2>3, <2>4
<1> QED
  BY <1>1, <1>3, <1>4, <1>5, <1>6, <1>7, <1>8, <1>9, <1>10, <1>11, <1>12 DEF Next, FetchesArray

\* A fetch of an array uses no value that is gone, if the labels differ, row and
\* indicators have a variable each and no trace unsets them.
THEOREM ProperFetchesSafe == Spec => []ProperFetchesAreSafe
<1>1. Init => SafeInv
  BY DEF Init, SafeInv, NoCall, InProgress
<1>2. SafeInv => ProperFetchesAreSafe
  BY DEF SafeInv, Proper, ProperFetchesAreSafe
<1>3. CountInv /\ SafeInv /\ [Next]_vars => CountInv' /\ SafeInv'
  BY NextCounts, NextSafe
<1> QED
  BY <1>1, <1>2, <1>3, InitCounts, PTL DEF Spec

----------------------------------------------------------------------------
(* A fetch that succeeds has stored the row. *)

\* The columns whose value has been stored, and those with an indicator.
UpTo == IF call.at = "row" THEN call.col - 1 ELSE call.col

IndicatedUpTo == IF call.at = "ended" THEN call.col ELSE call.col - 1

\* No later column up to n has the label of c.
IsLast(c, n) == \A d \in c + 1 .. n : label[d] # label[c]

HasAt(x, s, o) == s \in DOMAIN Places[x] /\ Places[x][s] = o

ArrayStored ==
    call.quiet /\ call.mode = "array" =>
        /\ call.at = "ended" => call.col = NCols
        /\ call.row # call.ind =>
              \A c \in 1 .. UpTo : IsLast(c, UpTo) => HasAt(call.row, label[c], Data(c))
        /\ call.ind # NoVar =>
              \A c \in 1 .. IndicatedUpTo : IsLast(c, UpTo) => HasAt(call.ind, label[c], Indicator(c))

ListStored ==
    call.quiet /\ call.mode = "list" =>
        /\ call.at # "row" /\ call.row # call.ind => Places[call.row] = DataList
        /\ call.at = "ended" /\ call.ind # NoVar => Places[call.ind] = IndicatorList

StoredInv == ArrayStored /\ ListStored

LEMMA StoreElementStores ==
    ASSUME CountInv, StoredInv, StoreElement, ~ Fails, call'.quiet
    PROVE  StoredInv'
<1>1. DataOK /\ CallOK /\ InProgress("array") /\ Typed
  BY TypedParts DEF CountInv, StoreElement, Running, InProgress
<1>2. PICK x \in Var, s \in Cols, v \in At, e \in Obj :
              /\ x = Target /\ s = label[call.col] /\ e = Element
              /\ v = [t \in DOMAIN Places[x] \cup {s} |-> IF t = s THEN e ELSE Places[x][t]]
              /\ Sets(x, "array", v)
  BY ElementStored
<1>3. /\ now' = now /\ label' = label
      /\ \/ call.at = "row" /\ call.ind # NoVar /\ Goes("ind")
         \/ ~ (call.at = "row" /\ call.ind # NoVar) /\ NextColumn
  BY DEF StoreElement
<1>4. Places' = [Places EXCEPT ![x] = v] /\ Places \in [Var -> At]
  BY <1>1, <1>2, TclMoved, PlacesTyped DEF DataOK
<1>5. /\ call.at \in {"row", "ind"} /\ x = IF call.at = "row" THEN call.row ELSE call.ind
      /\ e = IF call.at = "row" THEN Data(call.col) ELSE Indicator(call.col)
      /\ call.col \in Cols /\ call.row \in Var /\ call.ind \in Var \cup {NoVar}
  BY <1>1, <1>2 DEF CallOK, CallTyped, InProgress, Target, Element
<1>6. /\ call'.mode = "array" /\ call'.row = call.row /\ call'.ind = call.ind
      /\ call'.nulls = call.nulls /\ call'.quiet = call.quiet
      /\ \/ call.at = "row" /\ call.ind # NoVar /\ call'.at = "ind" /\ call'.col = call.col
         \/ (call.at = "row" => call.ind = NoVar) /\ call'.at = "ended" /\ call'.col = call.col /\ call.col = NCols
         \/ (call.at = "row" => call.ind = NoVar) /\ call'.at = "row" /\ call'.col = call.col + 1
  <2>1. CASE Goes("ind") /\ call.at = "row" /\ call.ind # NoVar
    BY <1>1, <2>1 DEF CallOK, Goes, InProgress
  <2>2. CASE ~ (call.at = "row" /\ call.ind # NoVar) /\ NextColumn
    <3>1. CASE call.col = NCols
      BY <1>1, <2>2, <3>1 DEF CallOK, NextColumn, Succeeds, InProgress
    <3>2. CASE call.col # NCols
      BY <1>1, <2>2, <3>2 DEF CallOK, NextColumn, InProgress
    <3> QED
      BY <3>1, <3>2
  <2> QED
    BY <1>3, <2>1, <2>2
<1>7. UpTo' = call.col /\ UpTo = IF call.at = "row" THEN call.col - 1 ELSE call.col
  BY <1>5, <1>6 DEF UpTo, Cols
<1>8. \A c : Data(c)' = Data(c) /\ Indicator(c)' = Indicator(c)
  BY <1>3, <1>6 DEF Data, Indicator
<1>9. \A c \in Cols : \A n : IsLast(c, n)' <=> IsLast(c, n)
  BY <1>3 DEF IsLast
<1>10. HasAt(x, s, e)'
  BY <1>2, <1>4 DEF HasAt
<1>11. \A y \in Var : \A t, o : HasAt(y, t, o) /\ ~ (y = x /\ t = s) => HasAt(y, t, o)'
  BY <1>2, <1>4 DEF HasAt
<1>12. ASSUME NEW c \in 1 .. call.col - 1, IsLast(c, call.col)
       PROVE  /\ c \in Cols /\ label[c] # s
              /\ IsLast(c, call.col - 1)
  <2>1. call.col \in c + 1 .. call.col /\ c \in Cols
    BY <1>5, Constants DEF Cols
  <2>2. label[call.col] # label[c]
    BY <1>12, <2>1 DEF IsLast
  <2>3. IsLast(c, call.col - 1)
    BY <1>5, <1>12 DEF IsLast, Cols
  <2> QED
    BY <1>2, <2>1, <2>2, <2>3
<1>13. call.quiet /\ call.mode = "array" /\ call.at # "ended"
  BY <1>1, <1>6 DEF InProgress
<1>14. IndicatedUpTo = call.col - 1 /\ IndicatedUpTo' = IF call.at = "row" /\ call.ind # NoVar
                                                         THEN call.col - 1 ELSE call.col
  BY <1>5, <1>6 DEF IndicatedUpTo, Cols
<1>15. ASSUME call.row # call.ind, NEW c \in 1 .. call.col, IsLast(c, call.col)
       PROVE  HasAt(call.row, label[c], Data(c))'
  <2>1. CASE call.at = "row" /\ c = call.col
    BY <1>2, <1>3, <1>5, <1>6, <1>8, <1>10, <2>1
  <2>2. CASE call.at = "row" /\ c # call.col
    <3>1. c \in 1 .. call.col - 1
      BY <1>5, <2>2 DEF Cols
    <3>2. HasAt(call.row, label[c], Data(c)) /\ label[c] # s
      BY <1>7, <1>12, <1>13, <1>15, <2>2, <3>1 DEF StoredInv, ArrayStored
    <3>3. HasAt(call.row, label[c], Data(c))' <=> \E y, t, o : y = call.row /\ t = label[c] /\ o = Data(c) /\ HasAt(y, t, o)'
      BY <1>3, <1>6, <1>8 DEF HasAt
    <3> QED
      BY <1>5, <1>11, <3>2, <3>3
  <2>3. CASE call.at # "row"
    <3>1. HasAt(call.row, label[c], Data(c)) /\ x # call.row
      BY <1>5, <1>7, <1>13, <1>15, <2>3 DEF StoredInv, ArrayStored
    <3>2. HasAt(call.row, label[c], Data(c))' <=> \E y, t, o : y = call.row /\ t = label[c] /\ o = Data(c) /\ HasAt(y, t, o)'
      BY <1>3, <1>6, <1>8 DEF HasAt
    <3> QED
      BY <1>5, <1>11, <3>1, <3>2
  <2> QED
    BY <2>1, <2>2, <2>3
<1>16. ASSUME call.ind # NoVar, NEW c \in 1 .. IndicatedUpTo', IsLast(c, call.col)
       PROVE  HasAt(call.ind, label[c], Indicator(c))'
  <2>1. CASE c = call.col
    <3>1. call.at = "ind"
      BY <1>5, <1>14, <1>16, <2>1 DEF Cols
    <3> QED
      BY <1>2, <1>3, <1>5, <1>6, <1>8, <1>10, <2>1, <3>1
  <2>2. CASE c # call.col
    <3>1. c \in 1 .. call.col - 1
      BY <1>5, <1>14, <2>2 DEF Cols
    <3>2. HasAt(call.ind, label[c], Indicator(c)) /\ label[c] # s
      BY <1>5, <1>7, <1>12, <1>13, <1>14, <1>16, <3>1 DEF StoredInv, ArrayStored
    <3>3. HasAt(call.ind, label[c], Indicator(c))'
            <=> \E y, t, o : y = call.ind /\ t = label[c] /\ o = Indicator(c) /\ HasAt(y, t, o)'
      BY <1>3, <1>6, <1>8 DEF HasAt
    <3> QED
      BY <1>5, <1>11, <1>16, <3>2, <3>3
  <2> QED
    BY <2>1, <2>2
<1>17. ArrayStored'
  <2>1. \A c \in 1 .. UpTo' : c \in Cols
    BY <1>5, <1>7, Constants DEF Cols
  <2>2. \A c \in 1 .. IndicatedUpTo' : c \in Cols
    BY <1>5, <1>14, Constants DEF Cols
  <2>3. call'.at = "ended" => call'.col = NCols
    BY <1>6
  <2>4. call.row # call.ind => \A c \in 1 .. UpTo' : IsLast(c, UpTo)' => HasAt(call.row, label[c], Data(c))'
    BY <1>7, <1>9, <1>15, <2>1 DEF IsLast
  <2>5. call.ind # NoVar =>
           \A c \in 1 .. IndicatedUpTo' : IsLast(c, UpTo)' => HasAt(call.ind, label[c], Indicator(c))'
    BY <1>7, <1>9, <1>16, <2>2 DEF IsLast
  <2> QED
    BY <1>6, <2>3, <2>4, <2>5 DEF ArrayStored
<1>18. ListStored'
  BY <1>6 DEF ListStored
<1> QED
  BY <1>17, <1>18 DEF StoredInv

LEMMA StoreListStores ==
    ASSUME CountInv, StoredInv, StoreList, ~ Fails, call'.quiet
    PROVE  StoredInv'
<1>1. DataOK /\ CallOK /\ InProgress("list") /\ Typed
  BY TypedParts DEF CountInv, StoreList, Running, InProgress
<1>2. PICK x \in Var : x = Target
  BY <1>1, TargetTyped
<1>3. /\ now' = now
      /\ \/ call.at = "row" /\ call.ind # NoVar /\ Goes("ind")
         \/ ~ (call.at = "row" /\ call.ind # NoVar) /\ Succeeds
  BY DEF StoreList, ErrorExit
<1>4. PICK v \in At : v = List
  <2>1. List \in [Cols -> Obj]
    BY <1>1, ElementTyped DEF InProgress
  <2> QED
    BY <2>1, AtType
<1>5. Sets(x, "value", v)
  BY <1>2, <1>4 DEF StoreList, StoreWhole, Sets
<1>6. Places' = [Places EXCEPT ![x] = v] /\ Places \in [Var -> At]
  BY <1>1, <1>5, TclMoved, PlacesTyped DEF DataOK
<1>7. /\ call.at \in {"row", "ind"} /\ x = (IF call.at = "row" THEN call.row ELSE call.ind)
      /\ v = (IF call.at = "row" THEN DataList ELSE IndicatorList)
      /\ call.row \in Var /\ call.ind \in Var \cup {NoVar}
  BY <1>1, <1>2, <1>4 DEF CallOK, CallTyped, InProgress, Target, List
<1>8. /\ call'.mode = "list" /\ call'.row = call.row /\ call'.ind = call.ind
      /\ call'.nulls = call.nulls /\ call'.quiet = call.quiet
      /\ call'.at = IF call.at = "row" /\ call.ind # NoVar THEN "ind" ELSE "ended"
  BY <1>1, <1>3 DEF CallOK, InProgress, Goes, Succeeds
<1>9. DataList' = DataList /\ IndicatorList' = IndicatorList
  BY <1>3, <1>8 DEF DataList, IndicatorList, Data, Indicator
<1>10. call.row # call.ind => Places'[call.row] = DataList
  <2>1. CASE call.at = "row"
    BY <1>6, <1>7, <2>1
  <2>2. CASE call.at # "row"
    BY <1>1, <1>6, <1>7, <1>8, <2>2 DEF StoredInv, ListStored, InProgress
  <2> QED
    BY <2>1, <2>2
<1>11. call'.at = "ended" /\ call.ind # NoVar => Places'[call.ind] = IndicatorList
  BY <1>6, <1>7, <1>8
<1>12. ListStored'
  BY <1>8, <1>9, <1>10, <1>11 DEF ListStored
<1>13. ArrayStored'
  BY <1>8 DEF ArrayStored
<1> QED
  BY <1>12, <1>13 DEF StoredInv

LEMMA NextStored ==
    ASSUME CountInv, StoredInv, [Next]_vars
    PROVE  StoredInv'
<1>1. DataOK /\ CallOK /\ Typed
  BY TypedParts DEF CountInv
<1>2. ASSUME call'.mode \notin {"array", "list"} \/ ~ call'.quiet PROVE StoredInv'
  BY <1>2 DEF StoredInv, ArrayStored, ListStored
<1>3. ASSUME call' = NoCall PROVE StoredInv'
  BY <1>2, <1>3 DEF NoCall
<1>4. ASSUME UNCHANGED <<label, now, call, tcl>> PROVE StoredInv'
  <2> USE <1>4
  <2>1. Places' = Places /\ UpTo' = UpTo /\ IndicatedUpTo' = IndicatedUpTo
    BY DEF Places, UpTo, IndicatedUpTo
  <2>2. \A c \in Cols : Data(c)' = Data(c) /\ Indicator(c)' = Indicator(c)
    BY DEF Data, Indicator
  <2>3. DataList' = DataList /\ IndicatorList' = IndicatorList
    BY DEF DataList, IndicatorList, Data, Indicator
  <2>4. \A x, s, v : HasAt(x, s, v)' <=> HasAt(x, s, v)
    BY <2>1 DEF HasAt
  <2>5. \A c, n : IsLast(c, n)' <=> IsLast(c, n)
    BY DEF IsLast
  <2>6. ListStored'
    BY <2>1, <2>3 DEF StoredInv, ListStored
  <2>7. call.col \in 1 .. NCols /\ NCols \in Nat
    BY <1>1, Constants DEF CallOK, Cols
  <2>8. 1 .. UpTo \subseteq Cols /\ 1 .. IndicatedUpTo \subseteq Cols
    BY <2>7 DEF UpTo, IndicatedUpTo, Cols
  <2>9. ArrayStored'
    BY <2>1, <2>2, <2>4, <2>5, <2>8 DEF StoredInv, ArrayStored
  <2> QED
    BY <2>6, <2>9 DEF StoredInv
<1>5. CASE FetchesArray
  <2>1. call'.mode = "array" /\ call'.at = "row" /\ call'.col = 1
    BY <1>5 DEF FetchesArray, FetchArray, Called
  <2>2. 1 .. UpTo' = {} /\ 1 .. IndicatedUpTo' = {}
    BY <2>1 DEF UpTo, IndicatedUpTo
  <2> QED
    BY <2>1, <2>2 DEF StoredInv, ArrayStored, ListStored
<1>6. CASE \E nulls \in SUBSET Cols, row \in Var, ind \in Var \cup {NoVar} : FetchList(nulls, row, ind)
  BY <1>6 DEF FetchList, Called, StoredInv, ArrayStored, ListStored
<1>7. CASE \E nulls \in SUBSET Cols, ind \in Var \cup {NoVar}, n \in 0 .. NCols - 1 : FetchListFails(nulls, ind, n)
  BY <1>3, <1>7 DEF FetchListFails, Fails
<1>8. CASE StoreElement \/ StoreList
  <2>1. CASE Fails
    BY <1>3, <2>1 DEF Fails
  <2>2. CASE ~ Fails /\ call'.quiet
    BY <1>8, <2>2, StoreElementStores, StoreListStores
  <2> QED
    BY <1>2, <2>1, <2>2
<1>9. CASE ElementFails \/ ColumnFails \/ ListFails
  BY <1>3, <1>9 DEF ElementFails, ColumnFails, ListFails, ErrorExit, Fails
<1>10. CASE ElementFreed \/ OutFails
  BY <1>4, <1>10 DEF ElementFreed, OutFails, Crash
<1>11. CASE CopyOutput
  BY <1>2, <1>11 DEF CopyOutput, Called
<1>12. ASSUME NEW x \in Var, StoreOut(x) PROVE StoredInv'
  <2>1. call.mode = "out" /\ (Succeeds \/ call' = [call EXCEPT !.at = "row", !.col = @ + 1])
    BY <1>12 DEF StoreOut, Running, NextColumn
  <2>2. call'.mode = "out"
    BY <1>1, <2>1 DEF CallOK, Succeeds
  <2> QED
    BY <1>2, <2>2
<1>13. ASSUME NEW x \in Var, Unset(x) \/ \E s \in DOMAIN tcl[x].at : UnsetElement(x, s) PROVE StoredInv'
  <2>1. call' = NoCall \/ call' = [call EXCEPT !.quiet = FALSE]
    BY <1>13 DEF Unset, UnsetElement, Disturbs
  <2>2. ~ call'.quiet \/ call' = NoCall
    BY <1>1, <2>1 DEF CallOK
  <2> QED
    BY <1>2, <1>3, <2>2
<1>14. ASSUME NEW o \in Obj, Keep(o) \/ Drop(o) PROVE StoredInv'
  BY <1>4, <1>14 DEF Keep, Drop
<1>15. CASE UNCHANGED vars
  BY <1>4, <1>15 DEF vars
<1> QED
  BY <1>5, <1>6, <1>7, <1>8, <1>9, <1>10, <1>11, <1>12, <1>13, <1>14, <1>15 DEF Next, FetchesArray

\* A fetch that succeeds leaves the values of the row and their indicators in
\* the variables, of columns with one label the last, if no trace unsets them.
THEOREM FetchedIsThere == Spec => []FetchedIsStored
<1>1. Init => StoredInv
  BY DEF Init, StoredInv, ArrayStored, ListStored, NoCall
<1>2. CountInv /\ StoredInv => FetchedIsStored
  <2> DEFINE value(x, c) == <<now, IF x = call.ind THEN IF c \in call.nulls THEN True ELSE False
                                   ELSE IF c \in call.nulls THEN Null ELSE c>>
  <2> SUFFICES ASSUME CountInv, StoredInv, Idle, call.quiet, call.mode \in {"array", "list"},
                      NEW x \in {call.row, call.ind} \ {NoVar}
               PROVE  IF call.mode = "list" THEN tcl[x].at = [c \in Cols |-> value(x, c)]
                      ELSE \A c \in Cols : IsLast(c, NCols) =>
                              tcl[x].at[label[c]] = [d \in Cols |-> value(x, d)][c]
    BY DEF FetchedIsStored, IsLast
  <2>1. /\ call.at = "ended" /\ x \in Var /\ call.row \in Var /\ Places[x] = tcl[x].at
        /\ x = call.ind \/ (x = call.row /\ call.row # call.ind)
    BY DEF CountInv, Typed, TypeBase, CallTyped, Idle, Places
  <2>2. \A c : value(x, c) = IF x = call.ind THEN Indicator(c) ELSE Data(c)
    BY DEF Indicator, Data
  <2>3. CASE call.mode = "list"
    <3>1. tcl[x].at = IF x = call.ind THEN IndicatorList ELSE DataList
      BY <2>1, <2>3 DEF StoredInv, ListStored
    <3>2. [c \in Cols |-> value(x, c)] = IF x = call.ind THEN IndicatorList ELSE DataList
      BY <2>2 DEF IndicatorList, DataList
    <3> QED
      BY <2>3, <3>1, <3>2
  <2>4. CASE call.mode = "array"
    <3> SUFFICES ASSUME NEW c \in Cols, IsLast(c, NCols) PROVE tcl[x].at[label[c]] = value(x, c)
      BY <2>4
    <3>1. UpTo = NCols /\ IndicatedUpTo = NCols
      BY <2>1, <2>4 DEF StoredInv, ArrayStored, UpTo, IndicatedUpTo
    <3>2. Places[x][label[c]] = IF x = call.ind THEN Indicator(c) ELSE Data(c)
      BY <2>1, <2>4, <3>1 DEF StoredInv, ArrayStored, HasAt, Cols
    <3> QED
      BY <2>1, <2>2, <3>2
  <2> QED
    BY <2>3, <2>4
<1>3. CountInv /\ StoredInv /\ [Next]_vars => CountInv' /\ StoredInv'
  BY NextCounts, NextStored
<1> QED
  BY <1>1, <1>2, <1>3, InitCounts, PTL DEF Spec
===============================================================================
