-------------------------- MODULE SdbConfigureProofs --------------------------
(***************************************************************************)
(* Theorems about SdbConfigure, for any words scripts may write.           *)
(***************************************************************************)
EXTENDS SdbConfigure, WellFoundedInduction, TLAPS

----------------------------------------------------------------------------
(* First and last. *)

LEMMA TheOne == ASSUME NEW x, NEW d PROVE The({x}, d) = x /\ The({}, d) = d
BY DEF The

LEMMA NoneFirst == First({}) = {} /\ Last({}) = {}
BY DEF First, Last

LEMMA Smallest ==
    ASSUME NEW S \in SUBSET Nat, S # {}
    PROVE  \E m \in S : First(S) = {m} /\ \A k \in S : m <= k
<1>1. PICK m \in S : \A k \in S : <<k, m>> \notin OpToRel(<, Nat)
  BY WFMin, NatLessThanWellFounded, Zenon
<1>2. \A k \in S : ~ (k < m)
  BY <1>1, Zenon DEF OpToRel
<1>3. \A k \in S : m <= k
  BY <1>2
<1>4. First(S) = {m}
  <2>1. m \in First(S)
    BY <1>3 DEF First
  <2>2. ASSUME NEW k \in First(S) PROVE k = m
    <3>1. k \in S /\ k <= m
      BY <2>2 DEF First
    <3> QED
      BY <1>3, <3>1
  <2> QED
    BY <2>1, <2>2
<1> QED
  BY <1>3, <1>4

LEMMA Largest ==
    ASSUME NEW K \in Nat, NEW S \in SUBSET (1 .. K), S # {}
    PROVE  \E m \in S : Last(S) = {m} /\ \A k \in S : k <= m
<1> DEFINE T == {K - x : x \in S}
<1>1. T \subseteq Nat /\ T # {}
  <2>1. \A x \in S : K - x \in Nat
    OBVIOUS
  <2>2. PICK x \in S : TRUE
    OBVIOUS
  <2>3. K - x \in T
    OBVIOUS
  <2> QED
    BY <2>1, <2>3
<1>2. PICK t \in T : \A k \in T : <<k, t>> \notin OpToRel(<, Nat)
  BY <1>1, WFMin, NatLessThanWellFounded, Zenon
<1>3. \A k \in T : ~ (k < t)
  BY <1>1, <1>2, Zenon DEF OpToRel
<1>4. PICK m \in S : t = K - m
  OBVIOUS
<1>5. \A k \in S : k <= m
  <2> SUFFICES ASSUME NEW k \in S PROVE k <= m
    OBVIOUS
  <2>1. K - k \in T
    OBVIOUS
  <2>2. ~ (K - k < K - m)
    BY <1>3, <1>4, <2>1
  <2> QED
    BY <2>2
<1>6. Last(S) = {m}
  <2>1. m \in Last(S)
    BY <1>5 DEF Last
  <2>2. ASSUME NEW k \in Last(S) PROVE k = m
    <3>1. k \in S /\ m <= k
      BY <2>2 DEF Last
    <3> QED
      BY <1>5, <3>1
  <2> QED
    BY <2>1, <2>2
<1> QED
  BY <1>5, <1>6

----------------------------------------------------------------------------
(* Words and pairs of words. *)

LEMMA Halves ==
    \A n \in Nat : /\ n \div 2 \in Nat /\ 2 * (n \div 2) <= n /\ n <= 2 * (n \div 2) + 1
                   /\ n % 2 = 0 <=> n = 2 * (n \div 2)
                   /\ n % 2 \in {0, 1}
OBVIOUS

LEMMA WordTypes ==
    ASSUME NEW w \in Words
    PROVE  /\ Len(w) \in Nat /\ Pairs(w) \in Nat
           /\ 2 * Pairs(w) <= Len(w) /\ Len(w) <= 2 * Pairs(w) + 1
           /\ Len(w) % 2 = 0 <=> Len(w) = 2 * Pairs(w)
           /\ Len(w) % 2 \in {0, 1}
           /\ DOMAIN w = 1 .. Len(w) /\ \A i \in 1 .. Len(w) : w[i] \in STRING
<1>1. w \in Seq(STRING)
  BY ConfigureAssumption
<1>2. Len(w) \in Nat /\ DOMAIN w = 1 .. Len(w) /\ \A i \in 1 .. Len(w) : w[i] \in STRING
  BY <1>1
<1> QED
  BY <1>2, Halves DEF Pairs

\* The words of the first n pairs.
LEMMA PairTypes ==
    ASSUME NEW w \in Words, NEW n \in Nat, 2 * n <= Len(w), NEW k \in 1 .. n
    PROVE  /\ 2 * k - 1 \in 1 .. Len(w) - 1 /\ 2 * k \in 1 .. Len(w)
           /\ Option(w, k) \in STRING /\ Given(w, k) \in STRING
           /\ w[2 * k - 1] = Option(w, k) /\ w[(2 * k - 1) + 1] = Given(w, k)
<1>1. 2 * k - 1 \in 1 .. Len(w) - 1 /\ 2 * k \in 1 .. Len(w) /\ 2 * k - 1 \in 1 .. Len(w)
      /\ (2 * k - 1) + 1 = 2 * k
  BY WordTypes
<1> QED
  BY <1>1, WordTypes DEF Option, Given

LEMMA ForLast ==
    ASSUME NEW w \in Words, NEW n \in Nat, 2 * n <= Len(w), NEW s, For(w, n, s) # {}
    PROVE  \E k \in 1 .. n : /\ Last(For(w, n, s)) = {k} /\ Option(w, k) = s
                             /\ \A j \in 1 .. n : Option(w, j) = s => j <= k
<1>1. For(w, n, s) \in SUBSET (1 .. n)
  BY DEF For
<1>2. PICK k \in For(w, n, s) : Last(For(w, n, s)) = {k} /\ \A j \in For(w, n, s) : j <= k
  BY <1>1, Largest
<1> QED
  BY <1>2 DEF For

----------------------------------------------------------------------------
(* What an accepted word stands for. *)

LEMMA NoneIsNoWord == None \notin STRING /\ None \notin Int /\ None \notin BOOLEAN
BY ConfigureAssumption

LEMMA FetchSizeFits == \A n \in 0 .. INT16_MAX : Int16(n) = n
<1> SUFFICES ASSUME NEW n \in 0 .. INT16_MAX PROVE Int16(n) = n
  OBVIOUS
<1>1. n \in Nat /\ n <= 32767
  BY DEF INT16_MAX
<1>2. (n + 32768) % 65536 = n + 32768
  BY <1>1
<1> QED
  BY <1>1, <1>2 DEF Int16

LEMMA AcceptedTypes ==
    ASSUME NEW option, NEW w \in STRING, Verdict(option, w) = "accepted"
    PROVE  /\ option = "-resultsettype" => Value(option, w) \in Types
           /\ option = "-concurrencytype" => Value(option, w) \in Concurrencies
           /\ option = "-fetchsize" => Value(option, w) \in 0 .. INT16_MAX
           /\ option = "-maxrows" => Value(option, w) \in Int
           /\ option = "-autocommit" => Value(option, w) \in BOOLEAN
           /\ option = "-sqlmode" => Value(option, w) \in SqlModes
<1>1. option = "-resultsettype" => Value(option, w) \in Types
  BY DEF Verdict, Value
<1>2. option = "-concurrencytype" => Value(option, w) \in Concurrencies
  BY DEF Verdict, Value
<1>3. option = "-fetchsize" => Value(option, w) \in 0 .. INT16_MAX
  <2> SUFFICES ASSUME option = "-fetchsize" PROVE Value(option, w) \in 0 .. INT16_MAX
    OBVIOUS
  <2>1. SizeAccepts(w)
    BY DEF Verdict
  <2>2. Value(option, w) = Int16(Number[w])
    BY DEF Value
  <2> QED
    BY <2>1, <2>2, FetchSizeFits DEF SizeAccepts
<1>4. option = "-maxrows" => Value(option, w) \in Int
  BY ConfigureAssumption DEF Verdict, Value
<1>5. option = "-autocommit" => Value(option, w) \in BOOLEAN
  BY ConfigureAssumption DEF Verdict, Value
<1>6. option = "-sqlmode" => Value(option, w) \in SqlModes
  BY DEF Verdict, Value
<1> QED
  BY <1>1, <1>2, <1>3, <1>4, <1>5, <1>6, Zenon

LEMMA LevelNames ==
    /\ LevelName(0) = "READ UNCOMMITTED"
    /\ LevelName(1) = "READ COMMITTED"
    /\ LevelName(15) = "READ COMMITTED WITH TABLE LOCKS"
    /\ LevelName(2) = "REPEATABLE READ"
    /\ LevelName(3) = "SERIALIZABLE"
    /\ {0, 1, 2, 3, 15} \subseteq Levels
BY DEF LevelName, Levels

Named == {"READ UNCOMMITTED", "READ COMMITTED", "READ COMMITTED WITH TABLE LOCKS",
          "REPEATABLE READ", "SERIALIZABLE"}

LEMMA NamesOfLevels ==
    /\ DOMAIN Level \ {""} = Named
    /\ \A w \in Named : w \in DOMAIN Level
BY Zenon DEF Level, Named

LEMMA NoneIsNoName == None \notin Named
BY NamesOfLevels, LevelsAreNames

\* The level that is asked for by its name is one of SQLDBC's, and the session
\* reports the name.
LEMMA NamedLevels ==
    ASSUME NEW w \in Named
    PROVE  LET v == Value("-isolationlevel", w)
           IN  v \in Levels /\ LevelName(v) = w
<1>1. Value("-isolationlevel", w) = Level[w]
  <2>1. w \notin DOMAIN Number
    BY LevelsAreNames, NamesOfLevels
  <2> QED
    BY <2>1 DEF Value
<1>2. /\ Level["READ UNCOMMITTED"] = 0
      /\ Level["READ COMMITTED"] = 1
      /\ Level["READ COMMITTED WITH TABLE LOCKS"] = 15
      /\ Level["REPEATABLE READ"] = 2
      /\ Level["SERIALIZABLE"] = 3
  BY DEF Level
<1>3. Level[w] \in Levels /\ LevelName(Level[w]) = w
  BY <1>2, LevelNames DEF Named
<1> QED
  BY <1>1, <1>3

----------------------------------------------------------------------------
(* The options of a command for statements. *)

LEMMA StatementWord == \A w \in StatementWords : w \in Words
BY DEF Words

\* The options end at the first place that is none.
LEMMA ParsedRight ==
    ASSUME NEW w \in StatementWords
    PROVE  /\ Parsed[w] \in Nat /\ 2 * Parsed[w] <= Len(w)
           /\ ~ GoesOn(w, Parsed[w])
           /\ \A j \in 0 .. Parsed[w] - 1 : GoesOn(w, j)
<1> DEFINE S == {j \in 0 .. Len(w) : ~ GoesOn(w, j)}
<1>1. Len(w) \in Nat
  BY StatementWord, WordTypes
<1>2. Len(w) \in S
  BY <1>1 DEF GoesOn
<1>3. S \in SUBSET Nat /\ S # {}
  BY <1>2
<1>4. Parsed[w] = The(First(S), 0)
  BY DEF Parsed
<1>5. PICK m \in S : First(S) = {m} /\ \A k \in S : m <= k
  <2> HIDE DEF S
  <2> QED
    BY <1>3, Smallest
<1>6. Parsed[w] = m
  BY <1>4, <1>5, TheOne
<1>7. ASSUME NEW j \in 0 .. m - 1 PROVE GoesOn(w, j)
  <2>1. j \in 0 .. Len(w) /\ ~ (m <= j)
    BY <1>1
  <2> QED
    BY <1>5, <2>1
<1>8. 2 * m <= Len(w)
  <2>1. CASE m = 0
    BY <1>1, <2>1
  <2>2. CASE m > 0
    <3>1. GoesOn(w, m - 1)
      BY <1>7, <2>2
    <3>2. 2 * (m - 1) + 1 < Len(w)
      BY <3>1 DEF GoesOn
    <3> QED
      BY <1>1, <3>2
  <2> QED
    BY <2>1, <2>2
<1> QED
  BY <1>6, <1>7, <1>8

\* Commands whose options end where a handle or the SQL is.
LEMMA ParsedTo ==
    ASSUME NEW w \in StatementWords, NEW m \in Nat, ~ GoesOn(w, m),
           \A j \in 0 .. m - 1 : GoesOn(w, j)
    PROVE  Parsed[w] = m
<1>1. /\ Parsed[w] \in Nat /\ ~ GoesOn(w, Parsed[w])
      /\ \A j \in 0 .. Parsed[w] - 1 : GoesOn(w, j)
  BY ParsedRight
<1>2. ~ (Parsed[w] < m)
  BY <1>1
<1>3. ~ (m < Parsed[w])
  BY <1>1
<1> QED
  BY <1>1, <1>2, <1>3

\* The word given for option i is that of the last pair for it.
LEMMA ConfigRight ==
    ASSUME NEW w \in StatementWords, NEW i \in 1 .. 5
    PROVE  \/ /\ Config[w][i] = None
              /\ \A k \in 1 .. Parsed[w] : Option(w, k) # StmtOptions[i]
           \/ \E k \in 1 .. Parsed[w] :
                 /\ Config[w][i] = Given(w, k) /\ Option(w, k) = StmtOptions[i]
                 /\ \A j \in 1 .. Parsed[w] : Option(w, j) = StmtOptions[i] => j <= k
<1> DEFINE S == For(w, Parsed[w], StmtOptions[i])
<1>1. w \in Words /\ Parsed[w] \in Nat /\ 2 * Parsed[w] <= Len(w)
  BY StatementWord, ParsedRight
<1>2. Config[w][i] = The({Given(w, k) : k \in Last(S)}, None)
  BY DEF Config
<1>3. CASE S = {}
  <2>1. {Given(w, k) : k \in Last(S)} = {}
    BY <1>3, NoneFirst
  <2>2. \A k \in 1 .. Parsed[w] : Option(w, k) # StmtOptions[i]
    BY <1>3 DEF For
  <2> QED
    BY <1>2, <2>1, <2>2, TheOne
<1>4. CASE S # {}
  <2>1. PICK k \in 1 .. Parsed[w] :
           /\ Last(S) = {k} /\ Option(w, k) = StmtOptions[i]
           /\ \A j \in 1 .. Parsed[w] : Option(w, j) = StmtOptions[i] => j <= k
    BY <1>1, <1>4, ForLast
  <2>2. {Given(w, j) : j \in Last(S)} = {Given(w, k)}
    BY <2>1
  <2>3. Config[w][i] = Given(w, k)
    BY <1>2, <2>2, TheOne
  <2> QED
    BY <2>1, <2>3
<1> QED
  BY <1>3, <1>4

LEMMA ConfigTypes ==
    ASSUME NEW w \in StatementWords, NEW i \in 1 .. 5
    PROVE  Config[w][i] \in STRING \cup {None}
BY ConfigRight, StatementWord, ParsedRight, PairTypes

\* Whether statement option i accepts the word of the command, if it has one.
Accepts(w, i) == Config[w][i] = None \/ Verdict(StmtOptions[i], Config[w][i]) = "accepted"

LEMMA RefusedRight ==
    ASSUME NEW w \in StatementWords
    PROVE  /\ Refused[w] = {} => \A i \in 1 .. 5 : Accepts(w, i)
           /\ \A i \in Refused[w] :
                 i \in 1 .. 5 /\ ~ Accepts(w, i) /\ \A j \in 1 .. i - 1 : Accepts(w, j)
<1> DEFINE S == {i \in 1 .. 5 : Config[w][i] # None
                                /\ Verdict(StmtOptions[i], Config[w][i]) # "accepted"}
<1>1. Refused[w] = First(S)
  BY DEF Refused
<1>2. S = {i \in 1 .. 5 : ~ Accepts(w, i)}
  BY DEF Accepts
<1> HIDE DEF S
<1>3. CASE S = {}
  BY <1>1, <1>2, <1>3, NoneFirst
<1>4. CASE S # {}
  <2>1. S \in SUBSET Nat
    BY <1>2
  <2>2. PICK m \in S : First(S) = {m} /\ \A k \in S : m <= k
    BY <1>4, <2>1, Smallest
  <2>3. \A j \in 1 .. m - 1 : j \in 1 .. 5 /\ ~ (m <= j)
    BY <1>2
  <2> QED
    BY <1>1, <1>2, <2>2, <2>3
<1> QED
  BY <1>3, <1>4

LEMMA Rows ==
    /\ StmtOptions[1] = "-cursor" /\ StmtOptions[2] = "-resultsettype"
    /\ StmtOptions[3] = "-concurrencytype" /\ StmtOptions[4] = "-fetchsize"
    /\ StmtOptions[5] = "-maxrows"
BY DEF StmtOptions

----------------------------------------------------------------------------
(* The values in force. *)

OptionsTyped(o) ==
    /\ DOMAIN o = 1 .. 5
    /\ o[2] \in Types \cup {None}
    /\ o[3] \in Concurrencies \cup {None}
    /\ o[4] \in 0 .. INT16_MAX \cup {None}
    /\ o[5] \in Int \cup {None}

LEMMA OptionsStayTyped ==
    ASSUME NEW w \in StatementWords, NEW o, OptionsTyped(o), NEW n \in 0 .. 5,
           \A i \in 1 .. n : Accepts(w, i)
    PROVE  OptionsTyped(OptionsAfter(o, Config[w], n))
<1> DEFINE new == OptionsAfter(o, Config[w], n)
<1>1. DOMAIN new = 1 .. 5
  BY DEF OptionsAfter
<1>2. ASSUME NEW i \in 1 .. 5
      PROVE  \/ new[i] = o[i]
             \/ \E c \in STRING :
                   Verdict(StmtOptions[i], c) = "accepted" /\ new[i] = Value(StmtOptions[i], c)
  <2>1. new[i] = IF i <= n /\ Config[w][i] # None THEN Value(StmtOptions[i], Config[w][i]) ELSE o[i]
    BY DEF OptionsAfter
  <2>2. CASE i <= n /\ Config[w][i] # None
    <3>1. i \in 1 .. n
      BY <2>2
    <3>2. Config[w][i] \in STRING
      BY <2>2, ConfigTypes
    <3> QED
      BY <2>1, <2>2, <3>1, <3>2 DEF Accepts
  <2> QED
    BY <2>1, <2>2
<1> HIDE DEF new
<1>3. new[2] \in Types \cup {None}
  <2>1. CASE new[2] = o[2]
    BY <2>1 DEF OptionsTyped
  <2>2. CASE new[2] # o[2]
    <3>1. PICK c \in STRING : Verdict("-resultsettype", c) = "accepted" /\ new[2] = Value("-resultsettype", c)
      <4>1. 2 \in 1 .. 5
        OBVIOUS
      <4> QED
        BY <1>2, <2>2, <4>1, Rows, Zenon
    <3> QED
      BY <3>1, AcceptedTypes
  <2> QED
    BY <2>1, <2>2
<1>4. new[3] \in Concurrencies \cup {None}
  <2>1. CASE new[3] = o[3]
    BY <2>1 DEF OptionsTyped
  <2>2. CASE new[3] # o[3]
    <3>1. PICK c \in STRING : Verdict("-concurrencytype", c) = "accepted" /\ new[3] = Value("-concurrencytype", c)
      <4>1. 3 \in 1 .. 5
        OBVIOUS
      <4> QED
        BY <1>2, <2>2, <4>1, Rows, Zenon
    <3> QED
      BY <3>1, AcceptedTypes
  <2> QED
    BY <2>1, <2>2
<1>5. new[4] \in 0 .. INT16_MAX \cup {None}
  <2>1. CASE new[4] = o[4]
    BY <2>1 DEF OptionsTyped
  <2>2. CASE new[4] # o[4]
    <3>1. PICK c \in STRING : Verdict("-fetchsize", c) = "accepted" /\ new[4] = Value("-fetchsize", c)
      <4>1. 4 \in 1 .. 5
        OBVIOUS
      <4> QED
        BY <1>2, <2>2, <4>1, Rows, Zenon
    <3> QED
      BY <3>1, AcceptedTypes
  <2> QED
    BY <2>1, <2>2
<1>6. new[5] \in Int \cup {None}
  <2>1. CASE new[5] = o[5]
    BY <2>1 DEF OptionsTyped
  <2>2. CASE new[5] # o[5]
    <3>1. PICK c \in STRING : Verdict("-maxrows", c) = "accepted" /\ new[5] = Value("-maxrows", c)
      <4>1. 5 \in 1 .. 5
        OBVIOUS
      <4> QED
        BY <1>2, <2>2, <4>1, Rows, Zenon
    <3> QED
      BY <3>1, AcceptedTypes
  <2> QED
    BY <2>1, <2>2
<1> QED
  BY <1>1, <1>3, <1>4, <1>5, <1>6 DEF OptionsTyped, new

----------------------------------------------------------------------------
(* The settings of the session. *)

LEMMA SessionRows ==
    /\ "-autocommit" \in SessionOptions /\ "-isolationlevel" \in SessionOptions
    /\ "-sqlmode" \in SessionOptions
BY DEF SessionOptions

SettingTyped(o, v) ==
    /\ o = "-autocommit" => v \in BOOLEAN
    /\ o = "-isolationlevel" => v \in Levels
    /\ o = "-sqlmode" => v \in SqlModes

SessionTyped(s) == DOMAIN s = SessionOptions /\ \A o \in SessionOptions : SettingTyped(o, s[o])

\* The first n pairs of the command are for settings, with values they accept.
PairsTaken(w, n) ==
    \A k \in 1 .. n : Option(w, k) \in SessionOptions => Verdict(Option(w, k), Given(w, k)) = "accepted"

\* What SQLDBC has taken of the first n pairs.
LEMMA TakenRight ==
    ASSUME NEW w, NEW n, NEW taken \in Takes(w, n)
    PROVE  /\ taken \subseteq 1 .. n
           /\ \A k \in taken : Has(Option(w, k), Value(Option(w, k), Given(w, k)))
BY DEF Takes

LEMMA AppliedRight ==
    ASSUME NEW w \in Words, NEW n \in Nat, 2 * n <= Len(w), NEW taken \in Takes(w, n),
           NEW base, NEW o \in SessionOptions
    PROVE  \/ /\ AppliedTo(base, w, n, taken)[o] = base[o]
              /\ For(w, n, o) \cap taken = {}
           \/ \E k \in 1 .. n :
                 /\ Option(w, k) = o /\ k \in taken
                 /\ AppliedTo(base, w, n, taken)[o] = Value(o, Given(w, k))
                 /\ \A j \in For(w, n, o) \cap taken : j <= k
<1> DEFINE S == For(w, n, o) \cap taken
<1>1. AppliedTo(base, w, n, taken)[o] = The({Value(o, Given(w, k)) : k \in Last(S)}, base[o])
  BY DEF AppliedTo
<1>2. S = {j \in 1 .. n : Option(w, j) = o /\ j \in taken}
  BY DEF For
<1>3. CASE S = {}
  <2>1. {Value(o, Given(w, k)) : k \in Last(S)} = {}
    BY <1>3, NoneFirst
  <2> QED
    BY <1>1, <1>3, <2>1, TheOne
<1>4. CASE S # {}
  <2>1. S \in SUBSET (1 .. n)
    BY <1>2
  <2>2. PICK k \in S : Last(S) = {k} /\ \A j \in S : j <= k
    BY <1>4, <2>1, Largest
  <2>3. {Value(o, Given(w, j)) : j \in Last(S)} = {Value(o, Given(w, k))}
    BY <2>2
  <2>4. AppliedTo(base, w, n, taken)[o] = Value(o, Given(w, k))
    BY <1>1, <2>3, TheOne
  <2>5. k \in 1 .. n /\ Option(w, k) = o /\ k \in taken
    BY <1>2
  <2> QED
    BY <2>2, <2>4, <2>5
<1> QED
  BY <1>3, <1>4

LEMMA AskedRight ==
    ASSUME NEW w \in Words, NEW n \in Nat, 2 * n <= Len(w), NEW o \in SessionOptions
    PROVE  \/ /\ AskedAfter(w, n)[o] = asked[o]
              /\ \A j \in 1 .. n : Option(w, j) # o
           \/ \E k \in 1 .. n :
                 /\ Option(w, k) = o /\ AskedAfter(w, n)[o] = Given(w, k)
                 /\ \A j \in 1 .. n : Option(w, j) = o => j <= k
<1>1. AskedAfter(w, n)[o] = The({Given(w, k) : k \in Last(For(w, n, o))}, asked[o])
  BY DEF AskedAfter
<1>2. CASE For(w, n, o) = {}
  <2>1. {Given(w, k) : k \in Last(For(w, n, o))} = {}
    BY <1>2, NoneFirst
  <2>2. \A j \in 1 .. n : Option(w, j) # o
    BY <1>2 DEF For
  <2> QED
    BY <1>1, <2>1, <2>2, TheOne
<1>3. CASE For(w, n, o) # {}
  <2>1. PICK k \in 1 .. n : /\ Last(For(w, n, o)) = {k} /\ Option(w, k) = o
                            /\ \A j \in 1 .. n : Option(w, j) = o => j <= k
    BY <1>3, ForLast
  <2>2. {Given(w, j) : j \in Last(For(w, n, o))} = {Given(w, k)}
    BY <2>1
  <2>3. AskedAfter(w, n)[o] = Given(w, k)
    BY <1>1, <2>2, TheOne
  <2> QED
    BY <2>1, <2>3
<1> QED
  BY <1>2, <1>3

LEMMA ConnectedRight ==
    ASSUME NEW w \in Words, NEW taken, NEW o \in SessionOptions
    PROVE  \/ /\ ConnectedWith(w, taken)[o] = Default[o]
              /\ Last(For(w, Pairs(w), o)) \cap taken = {}
           \/ \E k \in 1 .. Pairs(w) :
                 /\ Option(w, k) = o /\ k \in taken
                 /\ ConnectedWith(w, taken)[o] = Value(o, Given(w, k))
                 /\ Last(For(w, Pairs(w), o)) = {k}
<1> DEFINE S == Last(For(w, Pairs(w), o)) \cap taken
<1>1. ConnectedWith(w, taken)[o] = The({Value(o, Given(w, k)) : k \in S}, Default[o])
  BY DEF ConnectedWith
<1>2. CASE S = {}
  <2>1. {Value(o, Given(w, k)) : k \in S} = {}
    BY <1>2
  <2> QED
    BY <1>1, <1>2, <2>1, TheOne
<1>3. CASE S # {}
  <2>1. For(w, Pairs(w), o) # {}
    BY <1>3, NoneFirst
  <2>2. Pairs(w) \in Nat /\ 2 * Pairs(w) <= Len(w)
    BY WordTypes
  <2>3. PICK k \in 1 .. Pairs(w) : Last(For(w, Pairs(w), o)) = {k} /\ Option(w, k) = o
    BY <2>1, <2>2, ForLast
  <2>4. S = {k} /\ k \in taken
    BY <1>3, <2>3
  <2>5. {Value(o, Given(w, j)) : j \in S} = {Value(o, Given(w, k))}
    BY <2>4
  <2>6. ConnectedWith(w, taken)[o] = Value(o, Given(w, k))
    BY <1>1, <2>5, TheOne
  <2> QED
    BY <2>3, <2>4, <2>6
<1> QED
  BY <1>2, <1>3

LEMMA AcceptedSetting ==
    ASSUME NEW o \in SessionOptions, NEW w \in STRING, Verdict(o, w) = "accepted", Has(o, Value(o, w))
    PROVE  SettingTyped(o, Value(o, w))
BY AcceptedTypes DEF SettingTyped, Has

LEMMA DefaultTyped == SessionTyped(Default)
<1>1. DOMAIN Default = SessionOptions
  BY DEF Default
<1>2. Default["-autocommit"] = TRUE
  BY DEF Default, SessionOptions
<1>3. Default["-isolationlevel"] \in Levels
  BY DEF Default, SessionOptions, Levels
<1>4. Default["-sqlmode"] \in SqlModes
  BY DEF Default, SessionOptions, SqlModes
<1> QED
  BY <1>1, <1>2, <1>3, <1>4 DEF SessionTyped, SettingTyped

LEMMA AppliedTyped ==
    ASSUME NEW w \in Words, NEW n \in Nat, 2 * n <= Len(w), NEW taken \in Takes(w, n), NEW base,
           SessionTyped(base), PairsTaken(w, n)
    PROVE  SessionTyped(AppliedTo(base, w, n, taken))
<1>1. DOMAIN AppliedTo(base, w, n, taken) = SessionOptions
  BY DEF AppliedTo
<1>2. ASSUME NEW o \in SessionOptions PROVE SettingTyped(o, AppliedTo(base, w, n, taken)[o])
  <2>1. CASE AppliedTo(base, w, n, taken)[o] = base[o]
    BY <2>1 DEF SessionTyped
  <2>2. CASE AppliedTo(base, w, n, taken)[o] # base[o]
    <3>1. PICK k \in 1 .. n : /\ Option(w, k) = o /\ k \in taken
                              /\ AppliedTo(base, w, n, taken)[o] = Value(o, Given(w, k))
      BY <2>2, AppliedRight
    <3>2. Verdict(o, Given(w, k)) = "accepted" /\ Given(w, k) \in STRING
      BY <3>1, PairTypes DEF PairsTaken
    <3>3. SettingTyped(o, Value(o, Given(w, k)))
      BY <3>1, <3>2, TakenRight, AcceptedSetting
    <3> QED
      BY <3>1, <3>3
  <2> QED
    BY <2>1, <2>2
<1> QED
  BY <1>1, <1>2 DEF SessionTyped

LEMMA ConnectedTyped ==
    ASSUME NEW w \in Words, PairsTaken(w, Pairs(w)), NEW taken \in Takes(w, Pairs(w))
    PROVE  SessionTyped(ConnectedWith(w, taken))
<1>1. DOMAIN ConnectedWith(w, taken) = SessionOptions
  BY DEF ConnectedWith
<1>2. ASSUME NEW o \in SessionOptions PROVE SettingTyped(o, ConnectedWith(w, taken)[o])
  <2>1. CASE ConnectedWith(w, taken)[o] = Default[o]
    BY <2>1, DefaultTyped DEF SessionTyped
  <2>2. CASE ConnectedWith(w, taken)[o] # Default[o]
    <3>1. PICK k \in 1 .. Pairs(w) : /\ Option(w, k) = o /\ k \in taken
                                     /\ ConnectedWith(w, taken)[o] = Value(o, Given(w, k))
      BY <2>2, ConnectedRight
    <3>2. Pairs(w) \in Nat /\ 2 * Pairs(w) <= Len(w)
      BY WordTypes
    <3>3. Verdict(o, Given(w, k)) = "accepted" /\ Given(w, k) \in STRING
      BY <3>1, <3>2, PairTypes DEF PairsTaken
    <3>4. SettingTyped(o, Value(o, Given(w, k)))
      BY <3>1, <3>3, TakenRight, AcceptedSetting
    <3> QED
      BY <3>1, <3>4
  <2> QED
    BY <2>1, <2>2
<1> QED
  BY <1>1, <1>2 DEF SessionTyped

----------------------------------------------------------------------------
(* The invariant. *)

\* What SQLDBC has not refused is in force.
AskedHolds ==
    \A s \in SessionOptions \ ignored : asked[s] # None => session[s] = Value(s, asked[s])

\* Nothing was asked for before the session is connected.
SessionInv ==
    /\ DOMAIN session = SessionOptions /\ DOMAIN asked = SessionOptions
    /\ Connected => SessionTyped(session)
    /\ ~ Connected => asked = NoSettings
    /\ ignored \subseteq SessionOptions
    /\ AskedHolds

StatementInv ==
    /\ DOMAIN opts = Stmt \cup {Internal}
    /\ \A s \in Stmt \cup {Internal} : OptionsTyped(opts[s])
    /\ made \subseteq Stmt

SaidTyped ==
    /\ said.words \in Words \cup {<<>>}
    /\ said.answer \in {"ok", "refused", "failed"}
    /\ words \in 0 .. MaxWords
    /\ fault \in {"none", "pastTable", "pastName", "pastWords"}

\* The options o are those of w, the last of two for one option.
GivenBy(o, w) ==
    \A k \in 1 .. Parsed[w] :
        (\A j \in k + 1 .. Parsed[w] : Option(w, j) # Option(w, k)) =>
            \E i \in 1 .. 5 : /\ StmtOptions[i] = Option(w, k)
                              /\ o[i] = Value(Option(w, k), Given(w, k))

OptionsGiven == said.answer = "ok" /\ said.stmt # None => GivenBy(opts[said.stmt], said.words)

ConfigInv == SessionInv /\ StatementInv /\ SaidTyped /\ OptionsGiven

LEMMA ConfigInit == Init => ConfigInv
<1> SUFFICES ASSUME Init PROVE ConfigInv
  OBVIOUS
<1>1. SessionInv
  BY DEF Init, SessionInv, AskedHolds, Connected, NoSettings
<1>2. StatementInv
  <2>1. OptionsTyped(NoOptions)
    BY DEF NoOptions, OptionsTyped
  <2> QED
    BY <2>1 DEF Init, StatementInv
<1>3. SaidTyped
  BY ConfigureAssumption DEF Init, SaidTyped
<1>4. OptionsGiven
  BY DEF Init, OptionsGiven
<1> QED
  BY <1>1, <1>2, <1>3, <1>4 DEF ConfigInv

\* What the commands of Next have in common.
LEMMA SaysTyped ==
    ASSUME SaidTyped, NEW w \in Words, words + Len(w) <= MaxWords,
           NEW cmd, NEW answer \in {"ok", "refused", "failed"}, NEW s, Says(cmd, w, answer, s),
           fault' \in {"none", "pastTable", "pastName", "pastWords"}
    PROVE  /\ SaidTyped'
           /\ said'.cmd = cmd /\ said'.words = w /\ said'.answer = answer /\ said'.stmt = s
           /\ fault = "none" /\ (Connected <=> cmd # "connect")
<1>1. /\ said' = [cmd |-> cmd, words |-> w, answer |-> answer, stmt |-> s]
      /\ words' = words + Len(w) /\ fault = "none" /\ (Connected <=> cmd # "connect")
  BY DEF Says
<1>2. words' \in 0 .. MaxWords
  <2>1. Len(w) \in Nat /\ words \in Nat /\ MaxWords \in Nat
    BY WordTypes, ConfigureAssumption DEF SaidTyped
  <2> QED
    BY <1>1, <2>1
<1>3. said'.cmd = cmd /\ said'.words = w /\ said'.answer = answer /\ said'.stmt = s
  BY <1>1
<1> QED
  BY <1>1, <1>2, <1>3 DEF SaidTyped

\* A command that sets nothing.
SetsNothing ==
    /\ UNCHANGED <<session, asked, ignored, opts, made>>
    /\ said'.answer # "ok" \/ said'.stmt = None

LEMMA NothingSet ==
    ASSUME ConfigInv, SetsNothing, SaidTyped'
    PROVE  ConfigInv'
BY DEF ConfigInv, SetsNothing, SessionInv, StatementInv, OptionsGiven, AskedHolds, Connected

LEMMA OnlySetsNothing ==
    ASSUME ConfigInv, NEW w \in Words, words + Len(w) <= MaxWords,
           NEW cmd, NEW answer \in {"ok", "refused", "failed"}, Only(cmd, w, answer)
    PROVE  SetsNothing /\ SaidTyped'
<1>1. fault' = fault /\ SaidTyped
  BY DEF Only, ConfigInv
<1>2. SaidTyped' /\ said'.stmt = None
  BY <1>1, SaysTyped DEF Only, SaidTyped
<1> QED
  BY <1>2 DEF Only, SetsNothing

LEMMA FaultsSetNothing ==
    ASSUME ConfigInv, NEW w \in Words, words + Len(w) <= MaxWords,
           NEW cmd, NEW f \in {"pastTable", "pastName", "pastWords"}, Faults(cmd, w, f)
    PROVE  SetsNothing /\ SaidTyped'
<1>1. fault' = f /\ SaidTyped
  BY DEF Faults, ConfigInv
<1>2. SaidTyped' /\ said'.stmt = None
  BY <1>1, SaysTyped DEF Faults
<1> QED
  BY <1>2 DEF Faults, SetsNothing

----------------------------------------------------------------------------
(* connect and configure. *)

LEMMA TypedIsConnected == ASSUME NEW s, SessionTyped(s) PROVE s # NoSettings
BY SessionRows, NoneIsNoWord DEF SessionTyped, SettingTyped, NoSettings

LEMMA SetKeeps ==
    ASSUME SessionInv, Connected, NEW w \in Words, NEW n \in Nat, 2 * n <= Len(w), PairsTaken(w, n),
           Set(w, n)
    PROVE  SessionInv'
<1>a. PICK taken \in Takes(w, n) :
         session' = AppliedTo(session, w, n, taken) /\ ignored' = IgnoredAfter(w, n, taken)
  BY DEF Set
<1>1. asked' = AskedAfter(w, n)
  BY DEF Set
<1>2. SessionTyped(session')
  BY <1>a, AppliedTyped DEF SessionInv
<1>3. DOMAIN asked' = SessionOptions /\ ignored' \subseteq SessionOptions
  BY <1>1, <1>a DEF AskedAfter, IgnoredAfter
<1>4. ASSUME NEW o \in SessionOptions \ ignored', asked'[o] # None
      PROVE  session'[o] = Value(o, asked'[o])
  <2>1. CASE For(w, n, o) = {}
    <3>1. o \notin ignored
      BY <1>4, <1>a, <2>1 DEF IgnoredAfter
    <3>2. session'[o] = session[o]
      BY <1>a, <2>1, AppliedRight DEF For
    <3>3. asked'[o] = asked[o]
      BY <1>1, <2>1, AskedRight DEF For
    <3> QED
      BY <1>4, <3>1, <3>2, <3>3 DEF SessionInv, AskedHolds
  <2>2. CASE For(w, n, o) # {}
    <3>1. PICK m \in 1 .. n : /\ Last(For(w, n, o)) = {m} /\ Option(w, m) = o
                              /\ \A j \in 1 .. n : Option(w, j) = o => j <= m
      BY <2>2, ForLast
    <3>2. m \in taken
      BY <1>4, <1>a, <2>2, <3>1 DEF IgnoredAfter
    <3>3. m \in For(w, n, o)
      BY <3>1 DEF For
    <3>4. PICK k \in 1 .. n : /\ Option(w, k) = o /\ session'[o] = Value(o, Given(w, k))
                              /\ m <= k
      BY <1>a, <3>2, <3>3, AppliedRight
    <3>5. k = m
      BY <3>1, <3>4
    <3>6. PICK l \in 1 .. n : /\ Option(w, l) = o /\ asked'[o] = Given(w, l)
                              /\ \A j \in 1 .. n : Option(w, j) = o => j <= l
      BY <1>1, <3>1, AskedRight
    <3>7. l = m
      BY <3>1, <3>6
    <3> QED
      BY <3>4, <3>5, <3>6, <3>7
  <2> QED
    BY <2>1, <2>2
<1> QED
  BY <1>2, <1>3, <1>4, TypedIsConnected DEF SessionInv, AskedHolds, Connected, SessionTyped

LEMMA ConnectKeeps ==
    ASSUME SessionInv, ~ Connected, NEW w \in Words, PairsTaken(w, Pairs(w)),
           NEW taken \in Takes(w, Pairs(w)), session' = ConnectedWith(w, taken),
           ignored' = IgnoredAfter(w, Pairs(w), taken), asked' = AskedAfter(w, Pairs(w))
    PROVE  SessionInv'
<1>1. Pairs(w) \in Nat /\ 2 * Pairs(w) <= Len(w)
  BY WordTypes
<1>2. SessionTyped(session')
  BY ConnectedTyped
<1>3. DOMAIN asked' = SessionOptions /\ ignored' \subseteq SessionOptions
  BY DEF AskedAfter, IgnoredAfter
<1>4. ASSUME NEW o \in SessionOptions \ ignored', asked'[o] # None
      PROVE  session'[o] = Value(o, asked'[o])
  <2>1. asked[o] = None
    BY DEF SessionInv, NoSettings
  <2>2. PICK l \in 1 .. Pairs(w) : /\ Option(w, l) = o /\ asked'[o] = Given(w, l)
                                   /\ \A j \in 1 .. Pairs(w) : Option(w, j) = o => j <= l
    BY <1>1, <1>4, <2>1, AskedRight
  <2>3. l \in For(w, Pairs(w), o)
    BY <2>2 DEF For
  <2>4. Last(For(w, Pairs(w), o)) \cap taken # {}
    BY <1>4, <2>3 DEF IgnoredAfter
  <2>5. PICK k \in 1 .. Pairs(w) : /\ Option(w, k) = o /\ session'[o] = Value(o, Given(w, k))
                                   /\ Last(For(w, Pairs(w), o)) = {k}
    BY <2>4, ConnectedRight
  <2>6. l <= k
    BY <2>3, <2>5 DEF Last
  <2>7. k = l
    BY <1>1, <2>2, <2>5, <2>6
  <2> QED
    BY <2>2, <2>5, <2>7
<1> QED
  BY <1>2, <1>3, <1>4, TypedIsConnected DEF SessionInv, AskedHolds, Connected, SessionTyped

LEMMA ConnectTakesRight ==
    ASSUME NEW w \in Words, ConnectBad(w) = {}
    PROVE  PairsTaken(w, Pairs(w))
BY DEF ConnectBad, ConnectTakes, PairsTaken

\* Every pair before the one that configure refuses is taken.
LEMMA ConfigureTakesRight ==
    ASSUME NEW w \in Words
    PROVE  /\ ConfigureBad(w) = {} => PairsTaken(w, Pairs(w))
           /\ \A k \in First(ConfigureBad(w)) :
                 /\ k \in 1 .. Pairs(w) /\ k - 1 \in Nat /\ 2 * (k - 1) <= Len(w)
                 /\ PairsTaken(w, k - 1)
<1>1. ConfigureBad(w) = {} => PairsTaken(w, Pairs(w))
  BY DEF ConfigureBad, ConfigureTakes, PairsTaken
<1>2. ASSUME NEW k \in First(ConfigureBad(w))
      PROVE  /\ k \in 1 .. Pairs(w) /\ k - 1 \in Nat /\ 2 * (k - 1) <= Len(w)
             /\ PairsTaken(w, k - 1)
  <2>1. k \in ConfigureBad(w) /\ \A j \in ConfigureBad(w) : k <= j
    BY <1>2 DEF First
  <2>2. Pairs(w) \in Nat /\ 2 * Pairs(w) <= Len(w) /\ Len(w) \in Nat
    BY WordTypes
  <2>3. k \in 1 .. Pairs(w)
    BY <2>1 DEF ConfigureBad
  <2>4. ASSUME NEW j \in 1 .. k - 1 PROVE ConfigureTakes(Option(w, j), Given(w, j)) = "accepted"
    <3>1. j \in 1 .. Pairs(w) /\ ~ (k <= j)
      BY <2>2, <2>3
    <3> QED
      BY <2>1, <3>1 DEF ConfigureBad
  <2>5. PairsTaken(w, k - 1)
    BY <2>4 DEF PairsTaken, ConfigureTakes
  <2> QED
    BY <2>2, <2>3, <2>5
<1> QED
  BY <1>1, <1>2

----------------------------------------------------------------------------
(* The commands for statements. *)

LEMMA OptionsAreGiven ==
    ASSUME NEW w \in StatementWords, w \notin Unknown, NEW o
    PROVE  GivenBy(OptionsAfter(o, Config[w], 5), w)
<1> DEFINE new == OptionsAfter(o, Config[w], 5)
<1> SUFFICES ASSUME NEW k \in 1 .. Parsed[w],
                    \A j \in k + 1 .. Parsed[w] : Option(w, j) # Option(w, k)
             PROVE  \E i \in 1 .. 5 : /\ StmtOptions[i] = Option(w, k)
                                      /\ new[i] = Value(Option(w, k), Given(w, k))
  BY DEF GivenBy
<1>1. w \in Words /\ Parsed[w] \in Nat /\ 2 * Parsed[w] <= Len(w)
  BY StatementWord, ParsedRight
<1>2. PICK i \in 1 .. 5 : StmtOptions[i] = Option(w, k)
  BY DEF Unknown, Options
<1>3. PICK m \in 1 .. Parsed[w] :
         /\ Config[w][i] = Given(w, m) /\ Option(w, m) = StmtOptions[i]
         /\ \A j \in 1 .. Parsed[w] : Option(w, j) = StmtOptions[i] => j <= m
  BY <1>2, ConfigRight
<1>4. m = k
  <2>1. k <= m
    BY <1>2, <1>3
  <2>2. m \notin k + 1 .. Parsed[w]
    BY <1>2, <1>3
  <2> QED
    BY <1>1, <2>1, <2>2
<1>5. Given(w, k) # None
  BY <1>1, PairTypes, NoneIsNoWord
<1>6. new[i] = Value(StmtOptions[i], Config[w][i])
  BY <1>3, <1>4, <1>5 DEF OptionsAfter
<1> QED
  BY <1>2, <1>3, <1>4, <1>6

\* Statement s has its options from w, or those before one that was refused.
Configured(w, s) ==
    /\ \E n \in 0 .. 5 : /\ \A i \in 1 .. n : Accepts(w, i)
                         /\ opts' = [opts EXCEPT ![s] = OptionsAfter(opts[s], Config[w], n)]
                         /\ said'.answer = "ok" => n = 5
    /\ said'.stmt = s
    /\ UNCHANGED <<session, asked, ignored>>

LEMMA ConfiguresWhat ==
    ASSUME ConfigInv, NEW w \in StatementWords, words + Len(w) <= MaxWords, NEW cmd, NEW s, NEW new,
           Configures(cmd, w, s, new)
    PROVE  /\ SaidTyped' /\ said'.words = w /\ said'.cmd = cmd
           /\ SetsNothing \/ (Configured(w, s) /\ made' \in {made, made \cup new})
           /\ opts' # opts => new = {} \/ made' = made \cup new
<1>1. w \in Words /\ SaidTyped
  BY StatementWord DEF ConfigInv
<1>2. ASSUME Refused[w] = {}, NEW answer \in {"ok", "failed"}, Says(cmd, w, answer, s),
             UNCHANGED <<session, asked, ignored, fault>>,
             IF answer = "failed" /\ new # {} THEN UNCHANGED <<opts, made>>
             ELSE opts' = [opts EXCEPT ![s] = OptionsAfter(opts[s], Config[w], 5)] /\ made' = made \cup new
      PROVE  /\ SaidTyped' /\ said'.words = w /\ said'.cmd = cmd
             /\ SetsNothing \/ (Configured(w, s) /\ made' \in {made, made \cup new})
             /\ opts' # opts => new = {} \/ made' = made \cup new
  <2>a. fault' \in {"none", "pastTable", "pastName", "pastWords"}
    BY <1>1, <1>2 DEF SaidTyped
  <2>b. answer \in {"ok", "refused", "failed"}
    BY <1>2
  <2>1. SaidTyped' /\ said'.words = w /\ said'.answer = answer /\ said'.stmt = s /\ said'.cmd = cmd
    BY <1>1, <1>2, <2>a, <2>b, SaysTyped
  <2>2. CASE answer = "failed" /\ new # {}
    BY <1>2, <2>1, <2>2 DEF SetsNothing
  <2>3. CASE ~ (answer = "failed" /\ new # {})
    <3>1. \A i \in 1 .. 5 : Accepts(w, i)
      BY <1>2, RefusedRight
    <3>2. Configured(w, s)
      BY <1>2, <2>1, <2>3, <3>1 DEF Configured
    <3> QED
      BY <1>2, <2>1, <2>3, <3>2
  <2> QED
    BY <2>2, <2>3
<1>3. ASSUME NEW i \in Refused[w], Says(cmd, w, "refused", s),
             opts' = IF new # {} THEN opts ELSE [opts EXCEPT ![s] = OptionsAfter(opts[s], Config[w], i - 1)],
             UNCHANGED <<session, asked, ignored, made, fault>>
      PROVE  /\ SaidTyped' /\ said'.words = w /\ said'.cmd = cmd
             /\ SetsNothing \/ (Configured(w, s) /\ made' \in {made, made \cup new})
             /\ opts' # opts => new = {} \/ made' = made \cup new
  <2>1. SaidTyped' /\ said'.words = w /\ said'.answer = "refused" /\ said'.stmt = s /\ said'.cmd = cmd
    BY <1>1, <1>3, SaysTyped DEF SaidTyped
  <2>2. CASE new # {}
    BY <1>3, <2>1, <2>2 DEF SetsNothing
  <2>3. CASE new = {}
    <3>1. i - 1 \in 0 .. 5 /\ \A j \in 1 .. i - 1 : Accepts(w, j)
      BY RefusedRight
    <3>2. Configured(w, s)
      BY <1>3, <2>1, <2>3, <3>1 DEF Configured
    <3> QED
      BY <1>3, <2>1, <2>3, <3>2
  <2> QED
    BY <2>2, <2>3
<1>4. ASSUME Faults(cmd, w, "pastTable")
      PROVE  SaidTyped' /\ said'.words = w /\ said'.cmd = cmd /\ SetsNothing /\ opts' = opts
  <2>1. SaidTyped' /\ SetsNothing
    BY <1>1, <1>4, FaultsSetNothing
  <2> QED
    BY <1>4, <2>1 DEF Faults, Says
<1> QED
  BY <1>2, <1>3, <1>4 DEF Configures

LEMMA ConfiguredKeeps ==
    ASSUME ConfigInv, NEW w \in StatementWords, w \notin Unknown, NEW s \in Stmt \cup {Internal},
           Configured(w, s), SaidTyped', said'.words = w, made' \subseteq Stmt
    PROVE  ConfigInv'
<1>1. SessionInv /\ StatementInv
  BY DEF ConfigInv
<1>a. PICK n \in 0 .. 5 : /\ \A i \in 1 .. n : Accepts(w, i)
                          /\ opts' = [opts EXCEPT ![s] = OptionsAfter(opts[s], Config[w], n)]
                          /\ said'.answer = "ok" => n = 5
  BY DEF Configured
<1>b. PICK o : o = OptionsAfter(opts[s], Config[w], n)
  OBVIOUS
<1>2. /\ \A i \in 1 .. n : Accepts(w, i)
      /\ o = OptionsAfter(opts[s], Config[w], n)
      /\ opts' = [opts EXCEPT ![s] = o]
      /\ said'.answer = "ok" => n = 5
  BY <1>a, <1>b
<1>3. UNCHANGED <<session, asked, ignored>> /\ said'.stmt = s
  BY DEF Configured
<1>4. OptionsTyped(o)
  BY <1>1, <1>2, OptionsStayTyped DEF StatementInv
<1>5. opts'[s] = o /\ \A t \in Stmt \cup {Internal} : t # s => opts'[t] = opts[t]
  BY <1>1, <1>2 DEF StatementInv
<1>6. \A t \in Stmt \cup {Internal} : OptionsTyped(opts'[t])
  BY <1>1, <1>4, <1>5 DEF StatementInv
<1>7. StatementInv'
  BY <1>1, <1>2, <1>6 DEF StatementInv, OptionsTyped
<1>8. SessionInv'
  BY <1>1, <1>3 DEF SessionInv, Connected, AskedHolds
<1>9. OptionsGiven'
  BY <1>2, <1>3, <1>5, OptionsAreGiven DEF OptionsGiven, GivenBy
<1> QED
  BY <1>7, <1>8, <1>9 DEF ConfigInv

----------------------------------------------------------------------------
(* The steps: the invariant, and what a command may change. *)

OptionsNamed ==
    \A s \in Stmt \cup {Internal} : \A i \in 1 .. 5 :
        opts'[s][i] # opts[s][i] =>
            /\ Names(said'.words, StmtOptions[i], opts'[s][i])
            /\ \/ s \in made' \ made
               \/ s = Internal /\ Len(said'.words) % 2 = 1
               \/ s \in made /\ \E k \in DOMAIN said'.words : said'.words[k] = s

SettingsNamed ==
    \A o \in SessionOptions : session'[o] # session[o] =>
        said'.cmd = "connect" \/ Names(said'.words, o, session'[o])

StepRight == ConfigInv' /\ OptionsNamed /\ SettingsNamed

LEMMA PairNames ==
    ASSUME NEW w \in Words, NEW n \in Nat, 2 * n <= Len(w), NEW k \in 1 .. n, NEW o,
           Option(w, k) = o, Verdict(o, Given(w, k)) = "accepted"
    PROVE  Names(w, o, Value(o, Given(w, k)))
<1>1. /\ 2 * k - 1 \in 1 .. Len(w) - 1
      /\ w[2 * k - 1] = Option(w, k) /\ w[(2 * k - 1) + 1] = Given(w, k)
  BY PairTypes
<1> QED
  BY <1>1 DEF Names

LEMMA SetNames ==
    ASSUME NEW w \in Words, NEW n \in Nat, 2 * n <= Len(w), PairsTaken(w, n), Set(w, n),
           NEW o \in SessionOptions, session'[o] # session[o]
    PROVE  Names(w, o, session'[o])
<1>1. PICK k \in 1 .. n : Option(w, k) = o /\ session'[o] = Value(o, Given(w, k))
  <2>1. PICK taken \in Takes(w, n) : session' = AppliedTo(session, w, n, taken)
    BY DEF Set
  <2> QED
    BY <2>1, AppliedRight
<1> QED
  BY <1>1, PairNames DEF PairsTaken

LEMMA ConfiguredNames ==
    ASSUME StatementInv, NEW w \in StatementWords, NEW s, Configured(w, s),
           NEW t \in Stmt \cup {Internal}, NEW i \in 1 .. 5, opts'[t][i] # opts[t][i]
    PROVE  t = s /\ Names(w, StmtOptions[i], opts'[t][i])
<1>a. PICK n \in 0 .. 5 : /\ \A j \in 1 .. n : Accepts(w, j)
                          /\ opts' = [opts EXCEPT ![s] = OptionsAfter(opts[s], Config[w], n)]
  BY DEF Configured
<1>b. PICK o : o = OptionsAfter(opts[s], Config[w], n)
  OBVIOUS
<1>1. /\ \A j \in 1 .. n : Accepts(w, j)
      /\ o = OptionsAfter(opts[s], Config[w], n)
      /\ opts' = [opts EXCEPT ![s] = o]
  BY <1>a, <1>b
<1>2. t = s /\ opts'[t] = o
  BY <1>1 DEF StatementInv
<1>3. o[i] = IF i <= n /\ Config[w][i] # None THEN Value(StmtOptions[i], Config[w][i]) ELSE opts[s][i]
  BY <1>1 DEF OptionsAfter
<1>4. i <= n /\ Config[w][i] # None /\ o[i] = Value(StmtOptions[i], Config[w][i])
  BY <1>2, <1>3
<1>5. Verdict(StmtOptions[i], Config[w][i]) = "accepted"
  BY <1>1, <1>4 DEF Accepts
<1>6. PICK k \in 1 .. Parsed[w] : Config[w][i] = Given(w, k) /\ Option(w, k) = StmtOptions[i]
  BY <1>4, ConfigRight
<1>7. w \in Words /\ Parsed[w] \in Nat /\ 2 * Parsed[w] <= Len(w)
  BY StatementWord, ParsedRight
<1>8. Names(w, StmtOptions[i], Value(StmtOptions[i], Given(w, k)))
  BY <1>5, <1>6, <1>7, PairNames
<1> QED
  BY <1>2, <1>4, <1>6, <1>8

LEMMA NothingIsRight ==
    ASSUME ConfigInv, SetsNothing, SaidTyped'
    PROVE  StepRight
BY NothingSet DEF StepRight, OptionsNamed, SettingsNamed, SetsNothing

\* Settings of the session are taken one after the other.
LEMMA SetIsRight ==
    ASSUME ConfigInv, NEW w \in Words, words + Len(w) <= MaxWords, NEW n \in Nat, 2 * n <= Len(w),
           PairsTaken(w, n), Set(w, n), NEW answer \in {"ok", "refused"},
           Says("configure", w, answer, None), UNCHANGED <<opts, made, fault>>
    PROVE  StepRight
<1>1. SaidTyped /\ SessionInv /\ StatementInv
  BY DEF ConfigInv
<1>2. fault' \in {"none", "pastTable", "pastName", "pastWords"}
  BY <1>1 DEF SaidTyped
<1>a. answer \in {"ok", "refused", "failed"}
  OBVIOUS
<1>b. SaidTyped' /\ said'.words = w /\ said'.stmt = None /\ (Connected <=> "configure" # "connect")
  BY <1>1, <1>2, <1>a, SaysTyped
<1>3. SaidTyped' /\ said'.words = w /\ said'.stmt = None /\ Connected
  BY <1>b
<1>4. SessionInv'
  BY <1>1, <1>3, SetKeeps
<1>5. StatementInv' /\ OptionsGiven'
  BY <1>1, <1>3 DEF StatementInv, OptionsGiven
<1>6. SettingsNamed
  BY <1>3, SetNames DEF SettingsNamed
<1> QED
  BY <1>3, <1>4, <1>5, <1>6 DEF StepRight, ConfigInv, OptionsNamed

LEMMA SessionSteps ==
    ASSUME ConfigInv, NEW w \in Words, words + Len(w) <= MaxWords,
           \/ Connect(w) \/ ConnectRefused(w) \/ Query(w)
           \/ Configure(w) \/ ConfigureRefused(w) \/ ConfigureOdd(w)
    PROVE  StepRight
<1>1. Pairs(w) \in Nat /\ 2 * Pairs(w) <= Len(w)
  BY WordTypes
<1>2. ASSUME NEW cmd, NEW answer \in {"ok", "refused", "failed"}, Only(cmd, w, answer) PROVE StepRight
  BY <1>2, OnlySetsNothing, NothingIsRight
<1>3. ASSUME NEW cmd, NEW f \in {"pastTable", "pastName", "pastWords"}, Faults(cmd, w, f) PROVE StepRight
  BY <1>3, FaultsSetNothing, NothingIsRight
<1>4. CASE Connect(w)
  <2>1. CASE Only("connect", w, "failed")
    BY <1>2, <2>1
  <2>2. ASSUME ConnectBad(w) = {}, Says("connect", w, "ok", None), NEW taken \in Takes(w, Pairs(w)),
               session' = ConnectedWith(w, taken), ignored' = IgnoredAfter(w, Pairs(w), taken),
               asked' = AskedAfter(w, Pairs(w)), UNCHANGED <<opts, made, fault>>
        PROVE  StepRight
    <3>1. SaidTyped /\ SessionInv /\ StatementInv
      BY DEF ConfigInv
    <3>2. fault' \in {"none", "pastTable", "pastName", "pastWords"}
      BY <2>2, <3>1 DEF SaidTyped
    <3>a. "ok" \in {"ok", "refused", "failed"} /\ Says("connect", w, "ok", None)
      BY <2>2
    <3>b. SaidTyped' /\ said'.cmd = "connect" /\ said'.stmt = None /\ (Connected <=> "connect" # "connect")
      BY <3>1, <3>2, <3>a, SaysTyped
    <3>3. SaidTyped' /\ said'.cmd = "connect" /\ said'.stmt = None /\ ~ Connected
      BY <3>b
    <3>4. SessionInv'
      BY <2>2, <3>1, <3>3, ConnectTakesRight, ConnectKeeps
    <3>5. StatementInv' /\ OptionsGiven'
      BY <2>2, <3>1, <3>3 DEF StatementInv, OptionsGiven
    <3> QED
      BY <2>2, <3>3, <3>4, <3>5 DEF StepRight, ConfigInv, OptionsNamed, SettingsNamed
  <2> QED
    BY <1>4, <2>1, <2>2 DEF Connect
<1>5. CASE ConnectRefused(w)
  BY <1>2, <1>3, <1>5 DEF ConnectRefused
<1>6. CASE Query(w)
  BY <1>2, <1>3, <1>6 DEF Query
<1>7. CASE Configure(w)
  BY <1>1, <1>7, ConfigureTakesRight, SetIsRight DEF Configure
<1>8. CASE ConfigureRefused(w)
  <2>1. PICK k \in First(ConfigureBad(w)) :
           \/ Faults("configure", w, "pastTable")
           \/ Says("configure", w, "refused", None) /\ Set(w, k - 1) /\ UNCHANGED <<opts, made, fault>>
    BY <1>8 DEF ConfigureRefused
  <2>2. k - 1 \in Nat /\ 2 * (k - 1) <= Len(w) /\ PairsTaken(w, k - 1)
    BY ConfigureTakesRight
  <2> QED
    BY <1>3, <2>1, <2>2, SetIsRight
<1>9. CASE ConfigureOdd(w)
  <2>1. \/ Faults("configure", w, "pastWords")
        \/ Says("configure", w, "refused", None) /\ Set(w, Pairs(w)) /\ UNCHANGED <<opts, made, fault>>
    BY <1>9 DEF ConfigureOdd
  <2>2. PairsTaken(w, Pairs(w))
    BY <1>9, ConfigureTakesRight DEF ConfigureOdd
  <2> QED
    BY <1>1, <1>3, <2>1, <2>2, SetIsRight
<1> QED
  BY <1>4, <1>5, <1>6, <1>7, <1>8, <1>9

\* An execute without a handle has one word beside the options.
LEMMA AddressedRight ==
    ASSUME StatementInv, NEW w \in StatementWords, HasSql(w)
    PROVE  /\ Addressed(w) \in Stmt \cup {Internal}
           /\ \/ Addressed(w) = Internal /\ Len(w) % 2 = 1
              \/ Addressed(w) \in made /\ \E k \in DOMAIN w : w[k] = Addressed(w)
<1>1. /\ w \in Words /\ Parsed[w] \in Nat /\ Len(w) \in Nat /\ DOMAIN w = 1 .. Len(w)
      /\ Pairs(w) \in Nat /\ Len(w) % 2 \in {0, 1} /\ (Len(w) % 2 = 0 <=> Len(w) = 2 * Pairs(w))
  BY StatementWord, ParsedRight, WordTypes
<1>2. 2 * Parsed[w] < Len(w) /\ (Rest(w) = 1 \/ Addressed(w) \in Prepared)
  BY DEF HasSql
<1>3. CASE After(w) \in made
  <2>1. 2 * Parsed[w] + 1 \in DOMAIN w
    BY <1>1, <1>2
  <2>2. w[2 * Parsed[w] + 1] = Addressed(w) /\ Addressed(w) \in made
    BY <1>3 DEF Addressed, After
  <2> QED
    BY <2>1, <2>2 DEF StatementInv
<1>4. CASE After(w) \notin made
  <2>1. Addressed(w) = Internal /\ Internal \notin Prepared
    BY <1>4, ConfigureAssumption DEF Addressed
  <2>2. Rest(w) = Len(w) - 2 * Parsed[w] - 0
    BY <1>4 DEF Rest
  <2>3. Len(w) = 2 * Parsed[w] + 1
    BY <1>1, <1>2, <2>1, <2>2
  <2>4. Len(w) # 2 * Pairs(w)
    BY <1>1, <2>3
  <2> QED
    BY <1>1, <2>1, <2>4
<1> QED
  BY <1>3, <1>4

LEMMA ConfiguresIsRight ==
    ASSUME ConfigInv, NEW w \in StatementWords, words + Len(w) <= MaxWords, NEW cmd,
           NEW s \in Stmt \cup {Internal}, NEW new \in SUBSET Stmt, w \notin Unknown,
           Configures(cmd, w, s, new),
           \/ new = {s} /\ s \notin made
           \/ new = {} /\ s = Internal /\ Len(w) % 2 = 1
           \/ new = {} /\ s \in made /\ \E k \in DOMAIN w : w[k] = s
    PROVE  StepRight
<1>1. /\ SaidTyped' /\ said'.words = w
      /\ SetsNothing \/ (Configured(w, s) /\ made' \in {made, made \cup new})
      /\ opts' # opts => new = {} \/ made' = made \cup new
  BY ConfiguresWhat
<1>2. CASE SetsNothing
  BY <1>1, <1>2, NothingIsRight
<1>3. CASE Configured(w, s) /\ made' \in {made, made \cup new}
  <2>1. made' \subseteq Stmt /\ StatementInv
    BY <1>3 DEF ConfigInv, StatementInv
  <2>2. ConfigInv'
    BY <1>1, <1>3, <2>1, ConfiguredKeeps
  <2>3. SettingsNamed
    BY <1>3 DEF Configured, SettingsNamed
  <2>4. OptionsNamed
    <3> SUFFICES ASSUME NEW t \in Stmt \cup {Internal}, NEW i \in 1 .. 5, opts'[t][i] # opts[t][i]
                 PROVE  /\ Names(w, StmtOptions[i], opts'[t][i])
                        /\ \/ t \in made' \ made
                           \/ t = Internal /\ Len(w) % 2 = 1
                           \/ t \in made /\ \E k \in DOMAIN w : w[k] = t
      BY <1>1 DEF OptionsNamed
    <3>1. t = s /\ Names(w, StmtOptions[i], opts'[t][i])
      BY <1>3, <2>1, ConfiguredNames
    <3>2. new = {} \/ made' = made \cup new
      BY <1>1
    <3> QED
      BY <3>1, <3>2
  <2> QED
    BY <2>2, <2>3, <2>4 DEF StepRight
<1> QED
  BY <1>1, <1>2, <1>3

LEMMA StatementSteps ==
    ASSUME ConfigInv, NEW w \in StatementWords, words + Len(w) <= MaxWords,
           \/ Execute(w) \/ ExecuteWithoutSql(w) \/ ExecuteRefused(w)
           \/ NewStatementRefused(w) \/ PrepareRefused(w)
           \/ \E s \in Stmt : NewStatement(w, s) \/ Prepare(w, s)
    PROVE  StepRight
<1>1. w \in Words /\ StatementInv
  BY StatementWord DEF ConfigInv
<1>2. ASSUME NEW cmd, Only(cmd, w, "refused") PROVE StepRight
  BY <1>1, <1>2, OnlySetsNothing, NothingIsRight
<1>3. ASSUME NEW cmd, Faults(cmd, w, "pastWords") PROVE StepRight
  BY <1>1, <1>3, FaultsSetNothing, NothingIsRight
<1>4. CASE Execute(w)
  <2>1. HasSql(w) /\ Configures("execute", w, Addressed(w), {}) /\ w \notin Unknown
    BY <1>4 DEF Execute, HasSql
  <2>2. PICK s \in Stmt \cup {Internal} :
           /\ s = Addressed(w)
           /\ \/ s = Internal /\ Len(w) % 2 = 1
              \/ s \in made /\ \E k \in DOMAIN w : w[k] = s
    BY <1>1, <2>1, AddressedRight
  <2>3. PICK new \in SUBSET Stmt : new = {} /\ Configures("execute", w, s, new)
    BY <2>1, <2>2
  <2> QED
    BY <2>1, <2>2, <2>3, ConfiguresIsRight
<1>5. CASE ExecuteWithoutSql(w) \/ ExecuteRefused(w) \/ NewStatementRefused(w) \/ PrepareRefused(w)
  BY <1>2, <1>3, <1>5 DEF ExecuteWithoutSql, ExecuteRefused, NewStatementRefused, PrepareRefused
<1>6. ASSUME NEW s \in Stmt, NewStatement(w, s) \/ Prepare(w, s) PROVE StepRight
  <2>1. PICK cmd \in {"newstatement", "prepare"} : Configures(cmd, w, s, {s})
    BY <1>6 DEF NewStatement, Prepare
  <2>2. w \notin Unknown /\ s \notin made /\ s \in Stmt \cup {Internal}
    BY <1>6 DEF NewStatement, Prepare
  <2>3. PICK new \in SUBSET Stmt : new = {s} /\ Configures(cmd, w, s, new)
    <3>1. {s} \in SUBSET Stmt
      OBVIOUS
    <3> QED
      BY <2>1, <3>1
  <2> QED
    BY <2>2, <2>3, ConfiguresIsRight
<1> QED
  BY <1>4, <1>5, <1>6

LEMMA ConfigNext == ConfigInv /\ Next => StepRight
<1> SUFFICES ASSUME ConfigInv, Next PROVE StepRight
  OBVIOUS
<1>1. ASSUME NEW w \in Within(SessionWords),
             \/ Connect(w) \/ ConnectRefused(w) \/ Query(w)
             \/ Configure(w) \/ ConfigureRefused(w) \/ ConfigureOdd(w)
      PROVE  StepRight
  <2>1. w \in Words /\ words + Len(w) <= MaxWords
    BY DEF Within, Words
  <2> QED
    BY <1>1, <2>1, SessionSteps
<1>2. ASSUME NEW w \in Within(StatementWords),
             \/ Execute(w) \/ ExecuteWithoutSql(w) \/ ExecuteRefused(w)
             \/ NewStatementRefused(w) \/ PrepareRefused(w)
             \/ \E s \in Stmt : NewStatement(w, s) \/ Prepare(w, s)
      PROVE  StepRight
  <2>1. w \in StatementWords /\ words + Len(w) <= MaxWords
    BY DEF Within
  <2> QED
    BY <1>2, <2>1, StatementSteps
<1> QED
  BY <1>1, <1>2 DEF Next

LEMMA ConfigStays == ConfigInv /\ [Next]_vars => ConfigInv'
<1>1. ASSUME ConfigInv, Next PROVE ConfigInv'
  BY <1>1, ConfigNext DEF StepRight
<1>2. ASSUME ConfigInv, UNCHANGED vars PROVE ConfigInv'
  BY <1>2 DEF ConfigInv, vars, SessionInv, StatementInv, SaidTyped, OptionsGiven, AskedHolds, Connected
<1> QED
  BY <1>1, <1>2

LEMMA ConfigInvariance == Spec => []ConfigInv
BY ConfigInit, ConfigStays, PTL DEF Spec

\* Types of the variables; a fetch size has 16 bits and is not negative, and the
\* isolation level is one that SQLDBC has.
THEOREM ConfigTypeCorrect == Spec => []TypeOK
<1>1. ConfigInv => TypeOK
  <2> SUFFICES ASSUME ConfigInv PROVE TypeOK
    OBVIOUS
  <2>1. session # NoSettings => /\ session["-autocommit"] \in BOOLEAN
                                /\ session["-isolationlevel"] \in Levels
                                /\ session["-sqlmode"] \in SqlModes
    BY SessionRows DEF ConfigInv, SessionInv, Connected, SessionTyped, SettingTyped
  <2>2. /\ DOMAIN session = SessionOptions /\ DOMAIN asked = SessionOptions
        /\ ignored \subseteq SessionOptions
    BY DEF ConfigInv, SessionInv
  <2>3. \A s \in Stmt \cup {Internal} : OptionsTyped(opts[s])
    BY DEF ConfigInv, StatementInv
  <2>4. made \subseteq Stmt /\ SaidTyped
    BY DEF ConfigInv, StatementInv
  <2> QED
    BY <2>1, <2>2, <2>3, <2>4 DEF TypeOK, OptionsTyped, SaidTyped
<1> QED
  BY <1>1, ConfigInvariance, PTL

\* After any commands, refused ones among them, a setting of the session is what
\* it was last asked to be, and the level is reported by that name, unless SQLDBC
\* has refused it; the statement of a command has the options the command gives.
THEOREM SettingsAsked == Spec => []SettingsAreAsked
<1>1. ConfigInv => SettingsAreAsked
  <2> SUFFICES ASSUME ConfigInv PROVE SettingsAreAsked
    OBVIOUS
  <2>1. AskedHolds /\ OptionsGiven
    BY DEF ConfigInv, SessionInv
  <2>2. ASSUME "-isolationlevel" \notin ignored, asked["-isolationlevel"] \in DOMAIN Level \ {""}
        PROVE  LevelName(session["-isolationlevel"]) = asked["-isolationlevel"]
    <3>1. asked["-isolationlevel"] \in Named /\ asked["-isolationlevel"] # None
      BY <2>2, NamesOfLevels, NoneIsNoName
    <3>2. session["-isolationlevel"] = Value("-isolationlevel", asked["-isolationlevel"])
      BY <2>1, <2>2, <3>1, SessionRows DEF AskedHolds
    <3> QED
      BY <3>1, <3>2, NamedLevels
  <2> QED
    BY <2>1, <2>2 DEF AskedHolds, OptionsGiven, GivenBy, SettingsAreAsked
<1> QED
  BY <1>1, ConfigInvariance, PTL

\* A command changes no option and no setting but to a value it names, and those
\* of no statement but its own.
THEOREM OnlyNamedChange == Spec => OnlyNamedSettingsChange
<1>1. ConfigInv /\ [Next]_vars =>
        [/\ \A s \in Stmt \cup {Internal} : \A i \in 1 .. 5 :
               opts'[s][i] # opts[s][i] =>
                   /\ Names(said'.words, StmtOptions[i], opts'[s][i])
                   /\ \/ s \in made' \ made
                      \/ s = Internal /\ Len(said'.words) % 2 = 1
                      \/ s \in made /\ \E k \in DOMAIN said'.words : said'.words[k] = s
         /\ \A o \in SessionOptions : session'[o] # session[o] =>
               said'.cmd = "connect" \/ Names(said'.words, o, session'[o])]_vars
  BY ConfigNext DEF StepRight, OptionsNamed, SettingsNamed
<1> QED
  BY <1>1, ConfigInvariance, PTL DEF Spec, OnlyNamedSettingsChange

----------------------------------------------------------------------------
(* Calls as the documentation writes them. *)

LEMMA WellFormedConnect ==
    ASSUME NEW w \in Words, WellFormed("connect", w)
    PROVE  Len(w) # 0 /\ Len(w) % 2 = 0 /\ ConnectBad(w) = {}
<1>1. /\ Len(w) > 0 /\ Len(w) % 2 = 0
      /\ \A k \in 1 .. Len(w) \div 2 :
            \/ Option(w, k) \in Secret
            \/ Option(w, k) \in SessionOptions /\ Verdict(Option(w, k), Given(w, k)) = "accepted"
  BY DEF WellFormed
<1>2. Secret \subseteq Dashed \ {"-"} /\ \A o \in Secret : o \notin SessionOptions
  <2>1. Secret \subseteq Dashed
    BY ConfigureAssumption
  <2> QED
    BY <2>1 DEF Secret, SessionOptions
<1>3. ASSUME NEW k \in 1 .. Len(w) \div 2 PROVE ConnectTakes(Option(w, k), Given(w, k)) = "accepted"
  BY <1>1, <1>2 DEF ConnectTakes
<1>4. ConnectBad(w) = {}
  BY <1>3 DEF ConnectBad, Pairs
<1>5. Len(w) \in Nat
  BY WordTypes
<1> QED
  BY <1>1, <1>4, <1>5

LEMMA SmallLengths ==
    ASSUME NEW w \in Words
    PROVE  /\ (Len(w) # 0 /\ Len(w) < 2) => Len(w) = 1
           /\ Len(w) > 1 => Len(w) # 1
           /\ (Len(w) = 1 \/ Len(w) % 2 = 1) => Len(w) % 2 # 0
<1>1. \A n \in Nat : /\ (n # 0 /\ n < 2) => n = 1
                     /\ n > 1 => n # 1
                     /\ (n = 1 \/ n % 2 = 1) => n % 2 # 0
  OBVIOUS
<1>2. Len(w) \in Nat
  BY WordTypes
<1> QED
  BY <1>1, <1>2, Zenon

LEMMA WellFormedConfigure ==
    ASSUME NEW w \in Words, WellFormed("configure", w)
    PROVE  \/ Len(w) = 1 /\ w[1] \in SessionOptions
           \/ Len(w) % 2 = 0 /\ ConfigureBad(w) = {}
<1>1. \/ Len(w) = 1 /\ w[1] \in SessionOptions
      \/ OptionWords(w, Len(w), SessionOptions)
  BY DEF WellFormed
<1>2. CASE OptionWords(w, Len(w), SessionOptions)
  BY <1>2 DEF OptionWords, ConfigureBad, ConfigureTakes, Pairs
<1> QED
  BY <1>1, <1>2

\* The options of a command for statements are all known and accepted.
OptionsFit(w) ==
    \A k \in 1 .. Parsed[w] : Option(w, k) \in Options /\ Verdict(Option(w, k), Given(w, k)) = "accepted"

LEMMA FittingOptions ==
    ASSUME NEW w \in StatementWords, OptionsFit(w)
    PROVE  w \notin Unknown /\ Refused[w] = {}
<1>1. w \notin Unknown
  BY DEF OptionsFit, Unknown
<1>2. ASSUME NEW i \in Refused[w] PROVE FALSE
  <2>1. i \in 1 .. 5 /\ ~ Accepts(w, i)
    BY RefusedRight
  <2>2. Config[w][i] # None /\ Verdict(StmtOptions[i], Config[w][i]) # "accepted"
    BY <2>1 DEF Accepts
  <2>3. PICK k \in 1 .. Parsed[w] : Config[w][i] = Given(w, k) /\ Option(w, k) = StmtOptions[i]
    BY <2>1, <2>2, ConfigRight
  <2> QED
    BY <2>2, <2>3 DEF OptionsFit
<1> QED
  BY <1>1, <1>2

\* The first 2m words are options and values, and there are no more.
LEMMA OptionWordsFit ==
    ASSUME NEW w \in StatementWords, NEW n \in Nat, OptionWords(w, n, Options), Parsed[w] <= n \div 2
    PROVE  OptionsFit(w)
<1>1. Parsed[w] \in Nat /\ n \div 2 \in Nat
  BY ParsedRight, Halves
<1> QED
  BY <1>1 DEF OptionWords, OptionsFit

LEMMA WellFormedNew ==
    ASSUME NEW w \in StatementWords, WellFormed("newstatement", w)
    PROVE  Len(w) % 2 = 0 /\ w \notin Unknown /\ Refused[w] = {}
<1>1. OptionWords(w, Len(w), Options)
  BY DEF WellFormed
<1>2. w \in Words /\ Len(w) \in Nat /\ Parsed[w] \in Nat /\ 2 * Parsed[w] <= Len(w)
  BY StatementWord, WordTypes, ParsedRight
<1>3. Parsed[w] <= Len(w) \div 2
  BY <1>2, Halves
<1>4. OptionsFit(w)
  BY <1>1, <1>2, <1>3, OptionWordsFit
<1> QED
  BY <1>1, <1>4, FittingOptions DEF OptionWords

LEMMA WellFormedPrepare ==
    ASSUME NEW w \in StatementWords, WellFormed("prepare", w)
    PROVE  Len(w) % 2 = 1 /\ w \notin Unknown /\ Refused[w] = {}
<1>1. Len(w) > 0 /\ OptionWords(w, Len(w) - 1, Options)
  BY DEF WellFormed
<1>2. w \in Words /\ Len(w) \in Nat /\ Parsed[w] \in Nat /\ 2 * Parsed[w] <= Len(w)
  BY StatementWord, WordTypes, ParsedRight
<1>3. PICK n \in Nat : Len(w) = n + 1 /\ n = Len(w) - 1
  BY <1>1, <1>2
<1>4. n % 2 = 0 /\ n = 2 * (n \div 2) /\ n \div 2 \in Nat /\ OptionWords(w, n, Options)
  BY <1>1, <1>3, Halves DEF OptionWords
<1>5. Parsed[w] <= n \div 2
  BY <1>2, <1>3, <1>4
<1>6. OptionsFit(w)
  BY <1>4, <1>5, OptionWordsFit
<1>7. Len(w) % 2 = 1
  BY <1>2, <1>3, <1>4
<1> QED
  BY <1>6, <1>7, FittingOptions

\* Pairs of options up to word 2m + 1, which ends them.
LEMMA OptionsEnd ==
    ASSUME NEW w \in StatementWords, NEW n \in Nat, NEW m \in Nat, n = 2 * m, n < Len(w),
           OptionWords(w, n, Options), ~ GoesOn(w, m)
    PROVE  Parsed[w] = m /\ OptionsFit(w)
<1>1. n \div 2 = m
  BY Halves
<1>2. w \in Words /\ Len(w) \in Nat
  BY StatementWord, WordTypes
<1>3. ASSUME NEW j \in 0 .. m - 1 PROVE GoesOn(w, j)
  <2>1. j + 1 \in 1 .. m /\ 2 * (j + 1) - 1 = 2 * j + 1 /\ 2 * j + 1 < Len(w)
    BY <1>2
  <2>2. Option(w, j + 1) \in Options
    BY <1>1, <2>1 DEF OptionWords
  <2>3. w[2 * j + 1] \in Dashed
    BY <2>1, <2>2, ConfigureAssumption DEF Option, Options
  <2> QED
    BY <2>1, <2>3 DEF GoesOn
<1>4. Parsed[w] = m
  BY <1>3, ParsedTo
<1> QED
  BY <1>1, <1>4, OptionWordsFit

LEMMA WellFormedExecute ==
    ASSUME StatementInv, NEW w \in StatementWords, WellFormed("execute", w)
    PROVE  HasSql(w) /\ w \notin Unknown /\ Refused[w] = {}
<1>1. w \in Words /\ Len(w) \in Nat
  BY StatementWord, WordTypes
<1>2. \/ Len(w) > 0 /\ w[Len(w)] \notin made /\ OptionWords(w, Len(w) - 1, Options)
      \/ \E k \in 1 .. Len(w) : /\ w[k] \in made /\ OptionWords(w, k - 1, Options)
                                /\ Len(w) = k + 1 \/ w[k] \in Prepared
  BY DEF WellFormed
<1>3. ASSUME Len(w) > 0, w[Len(w)] \notin made, OptionWords(w, Len(w) - 1, Options)
      PROVE  HasSql(w) /\ w \notin Unknown /\ Refused[w] = {}
  <2>1. PICK n \in Nat : Len(w) = n + 1 /\ n = Len(w) - 1
    BY <1>1, <1>3
  <2>2. PICK m \in Nat : n = 2 * m
    BY <1>3, <2>1, Halves DEF OptionWords
  <2>3. ~ GoesOn(w, m)
    BY <2>1, <2>2 DEF GoesOn
  <2>4. Parsed[w] = m /\ OptionsFit(w)
    BY <1>3, <2>1, <2>2, <2>3, OptionsEnd
  <2>5. After(w) \notin made
    BY <1>3, <2>1, <2>2, <2>4 DEF After
  <2>6. Rest(w) = Len(w) - 2 * m - 0
    BY <2>4, <2>5 DEF Rest
  <2>7. Rest(w) = 1 /\ 2 * Parsed[w] < Len(w) /\ Len(w) > 0
    BY <2>1, <2>2, <2>4, <2>6
  <2>8. w \notin Unknown /\ Refused[w] = {}
    BY <2>4, FittingOptions
  <2> QED
    BY <2>7, <2>8 DEF HasSql
<1>4. ASSUME NEW k \in 1 .. Len(w), w[k] \in made, OptionWords(w, k - 1, Options),
             Len(w) = k + 1 \/ w[k] \in Prepared
      PROVE  HasSql(w) /\ w \notin Unknown /\ Refused[w] = {}
  <2>1. PICK n \in Nat : k = n + 1 /\ n = k - 1 /\ n < Len(w)
    BY <1>1
  <2>2. PICK m \in Nat : n = 2 * m
    BY <1>4, <2>1, Halves DEF OptionWords
  <2>3. ~ GoesOn(w, m)
    <3>1. w[k] \notin Dashed
      BY <1>4, ConfigureAssumption DEF StatementInv
    <3> QED
      BY <2>1, <2>2, <3>1 DEF GoesOn
  <2>4. Parsed[w] = m /\ OptionsFit(w)
    BY <1>4, <2>1, <2>2, <2>3, OptionsEnd
  <2>5. After(w) = w[k] /\ Addressed(w) = w[k]
    BY <1>4, <2>1, <2>2, <2>4 DEF After, Addressed
  <2>6. Rest(w) = Len(w) - 2 * m - 1
    BY <1>4, <2>4, <2>5 DEF Rest
  <2>7. /\ Rest(w) = 1 \/ Addressed(w) \in Prepared
        /\ 2 * Parsed[w] < Len(w) /\ Len(w) > 0
    BY <1>1, <1>4, <2>1, <2>2, <2>4, <2>5, <2>6
  <2>8. w \notin Unknown /\ Refused[w] = {}
    BY <2>4, FittingOptions
  <2> QED
    BY <2>7, <2>8 DEF HasSql
<1>5. CASE Len(w) > 0 /\ w[Len(w)] \notin made /\ OptionWords(w, Len(w) - 1, Options)
  BY <1>3, <1>5
<1>6. CASE \E k \in 1 .. Len(w) : /\ w[k] \in made /\ OptionWords(w, k - 1, Options)
                                  /\ Len(w) = k + 1 \/ w[k] \in Prepared
  <2>1. PICK k \in 1 .. Len(w) : /\ w[k] \in made /\ OptionWords(w, k - 1, Options)
                                 /\ Len(w) = k + 1 \/ w[k] \in Prepared
    BY <1>6
  <2>2. w[k] \in made /\ OptionWords(w, k - 1, Options) /\ (Len(w) = k + 1 \/ w[k] \in Prepared)
    BY <2>1
  <2> QED
    BY <1>4, <2>2
<1> QED
  BY <1>2, <1>5, <1>6

\* A command that is neither refused nor faults is taken, whatever its words.
LEMMA NotRefused ==
    ASSUME fault' = "none", said'.answer # "refused"
    PROVE  WellFormedCallsAreTaken'
BY DEF WellFormedCallsAreTaken

\* One that is must not be well-formed.
LEMMA RightlyRefused ==
    ASSUME NEW cmd, NEW w, said'.cmd = cmd, said'.words = w, made' = made, ~ WellFormed(cmd, w)
    PROVE  WellFormedCallsAreTaken'
<1>1. ~ WellFormed(cmd, w)'
  BY DEF WellFormed
<1> QED
  BY <1>1 DEF WellFormedCallsAreTaken

LEMMA RefusalSays ==
    ASSUME NEW cmd, NEW w, NEW answer, NEW s, Says(cmd, w, answer, s)
    PROVE  said'.cmd = cmd /\ said'.words = w /\ said'.answer = answer /\ fault = "none"
BY DEF Says

LEMMA Answered ==
    ASSUME NEW cmd, NEW w, NEW answer, NEW s, Says(cmd, w, answer, s), UNCHANGED fault,
           answer # "refused"
    PROVE  WellFormedCallsAreTaken'
<1>1. said'.answer # "refused" /\ fault' = "none"
  BY RefusalSays
<1> QED
  BY <1>1, NotRefused

\* What is refused or faults makes no statement.
LEMMA Refuses ==
    ASSUME NEW cmd, NEW w, NEW s, Says(cmd, w, "refused", s), made' = made, ~ WellFormed(cmd, w)
    PROVE  WellFormedCallsAreTaken'
<1>1. said'.cmd = cmd /\ said'.words = w
  BY RefusalSays
<1> QED
  BY <1>1, RightlyRefused

LEMMA OnlyRefuses ==
    ASSUME NEW cmd, NEW w, ~ WellFormed(cmd, w), Only(cmd, w, "refused") \/ \E f : Faults(cmd, w, f)
    PROVE  WellFormedCallsAreTaken'
<1>1. Says(cmd, w, "refused", None) /\ made' = made
  BY DEF Only, Faults
<1> QED
  BY <1>1, Refuses

LEMMA OnlyAnswers ==
    ASSUME NEW cmd, NEW w, NEW answer \in {"ok", "failed"}, Only(cmd, w, answer)
    PROVE  WellFormedCallsAreTaken'
<1>1. Says(cmd, w, answer, None) /\ UNCHANGED fault /\ answer # "refused"
  BY DEF Only
<1> QED
  BY <1>1, Answered

LEMMA ConfiguresTakes ==
    ASSUME NEW cmd, NEW w, NEW s, NEW new, Refused[w] = {}, Configures(cmd, w, s, new)
    PROVE  WellFormedCallsAreTaken'
<1>1. PICK answer \in {"ok", "failed"} : Says(cmd, w, answer, s) /\ UNCHANGED fault
  BY DEF Configures
<1>2. Says(cmd, w, answer, s) /\ UNCHANGED fault /\ answer # "refused"
  BY <1>1
<1> QED
  BY <1>2, Answered

LEMMA ConfiguresTaken ==
    ASSUME NEW cmd, NEW w, NEW s, NEW new, Configures(cmd, w, s, new),
           WellFormed(cmd, w) => Refused[w] = {}
    PROVE  WellFormedCallsAreTaken'
<1>1. CASE Refused[w] = {}
  BY <1>1, ConfiguresTakes
<1>2. CASE Refused[w] # {}
  <2>1. ~ WellFormed(cmd, w)
    BY <1>2
  <2>2. Says(cmd, w, "refused", s) \/ Faults(cmd, w, "pastTable")
    BY <1>2 DEF Configures
  <2>3. made' = made
    BY <1>2 DEF Configures, Faults
  <2>4. CASE Says(cmd, w, "refused", s)
    BY <2>1, <2>3, <2>4, Refuses
  <2>5. CASE Faults(cmd, w, "pastTable")
    BY <2>1, <2>5, OnlyRefuses
  <2> QED
    BY <2>2, <2>4, <2>5
<1> QED
  BY <1>1, <1>2

LEMMA SessionTaken ==
    ASSUME NEW w \in Words,
           \/ Connect(w) \/ ConnectRefused(w) \/ Query(w)
           \/ Configure(w) \/ ConfigureRefused(w) \/ ConfigureOdd(w)
    PROVE  WellFormedCallsAreTaken'
<1>1. CASE Connect(w)
  <2>1. CASE Only("connect", w, "failed")
    BY <2>1, OnlyAnswers
  <2>2. ASSUME Says("connect", w, "ok", None), UNCHANGED fault
        PROVE  WellFormedCallsAreTaken'
    BY <2>2, Answered
  <2> QED
    BY <1>1, <2>1, <2>2 DEF Connect
<1>2. CASE ConnectRefused(w)
  <2>1. Only("connect", w, "refused") \/ \E f : Faults("connect", w, f)
    BY <1>2 DEF ConnectRefused
  <2>2. \/ Len(w) = 0 \/ Len(w) % 2 # 0
        \/ First(ConnectBad(w)) # {}
    BY <1>2 DEF ConnectRefused
  <2>3. ~ WellFormed("connect", w)
    BY <2>2, WellFormedConnect, NoneFirst
  <2> QED
    BY <2>1, <2>3, OnlyRefuses
<1>3. CASE Query(w)
  <2>1. CASE Only("configure", w, "ok")
    BY <2>1, OnlyAnswers
  <2>2. ASSUME Only("configure", w, "refused") \/ \E f : Faults("configure", w, f), Len(w) = 1,
               w[1] \notin SessionOptions
        PROVE  WellFormedCallsAreTaken'
    <3>1. Len(w) % 2 # 0 /\ ~ (Len(w) = 1 /\ w[1] \in SessionOptions)
      BY <2>2, SmallLengths, Zenon
    <3>2. ~ WellFormed("configure", w)
      BY <3>1, WellFormedConfigure
    <3> QED
      BY <2>2, <3>2, OnlyRefuses
  <2>3. Len(w) # 0 /\ Len(w) < 2 => Len(w) = 1
    BY SmallLengths, Zenon
  <2>4. w[1] \in Secret \/ w[1] = "" => w[1] \notin SessionOptions
    BY Zenon DEF Secret, SessionOptions
  <2> QED
    BY <1>3, <2>1, <2>2, <2>3, <2>4 DEF Query
<1>4. CASE Configure(w)
  <2>1. Says("configure", w, "ok", None) /\ UNCHANGED fault
    BY <1>4 DEF Configure
  <2> QED
    BY <2>1, Answered
<1>5. CASE ConfigureRefused(w) \/ ConfigureOdd(w)
  <2>1. \/ \E f : Faults("configure", w, f)
        \/ Says("configure", w, "refused", None) /\ made' = made
    BY <1>5 DEF ConfigureRefused, ConfigureOdd
  <2>2. Len(w) > 1 /\ (First(ConfigureBad(w)) # {} \/ Len(w) % 2 = 1)
    BY <1>5 DEF ConfigureRefused, ConfigureOdd
  <2>3. Len(w) # 1 /\ (ConfigureBad(w) # {} \/ Len(w) % 2 # 0)
    BY <2>2, NoneFirst, SmallLengths, Zenon
  <2>6. ~ WellFormed("configure", w)
    BY <2>3, WellFormedConfigure
  <2>4. CASE \E f : Faults("configure", w, f)
    BY <2>4, <2>6, OnlyRefuses
  <2>5. CASE Says("configure", w, "refused", None) /\ made' = made
    BY <2>5, <2>6, Refuses
  <2> QED
    BY <2>1, <2>4, <2>5
<1> QED
  BY <1>1, <1>2, <1>3, <1>4, <1>5

LEMMA StatementTaken ==
    ASSUME StatementInv, NEW w \in StatementWords,
           \/ Execute(w) \/ ExecuteWithoutSql(w) \/ ExecuteRefused(w)
           \/ NewStatementRefused(w) \/ PrepareRefused(w)
           \/ \E s \in Stmt : NewStatement(w, s) \/ Prepare(w, s)
    PROVE  WellFormedCallsAreTaken'
<1>1. CASE Execute(w)
  <2>1. Configures("execute", w, Addressed(w), {})
    BY <1>1 DEF Execute
  <2>2. WellFormed("execute", w) => Refused[w] = {}
    BY WellFormedExecute
  <2> QED
    BY <2>1, <2>2, ConfiguresTaken
<1>2. CASE ExecuteWithoutSql(w) \/ ExecuteRefused(w)
  <2>1. Only("execute", w, "refused") \/ \E f : Faults("execute", w, f)
    BY <1>2 DEF ExecuteWithoutSql, ExecuteRefused
  <2>2. ~ (HasSql(w) /\ w \notin Unknown)
    <3>1. w \in Words /\ Len(w) \in Nat /\ Parsed[w] \in Nat
      BY StatementWord, WordTypes, ParsedRight
    <3> QED
      BY <1>2, <3>1 DEF ExecuteWithoutSql, ExecuteRefused, HasSql
  <2>3. ~ WellFormed("execute", w)
    BY <2>2, WellFormedExecute
  <2> QED
    BY <2>1, <2>3, OnlyRefuses
<1>3. CASE NewStatementRefused(w)
  <2>1. Only("newstatement", w, "refused") /\ (Len(w) % 2 # 0 \/ w \in Unknown)
    BY <1>3 DEF NewStatementRefused
  <2>2. ~ WellFormed("newstatement", w)
    BY <2>1, WellFormedNew
  <2> QED
    BY <2>1, <2>2, OnlyRefuses
<1>4. CASE PrepareRefused(w)
  <2>1. Only("prepare", w, "refused") /\ (Len(w) % 2 # 1 \/ w \in Unknown)
    BY <1>4 DEF PrepareRefused
  <2>2. ~ WellFormed("prepare", w)
    BY <2>1, WellFormedPrepare
  <2> QED
    BY <2>1, <2>2, OnlyRefuses
<1>5. ASSUME NEW s \in Stmt, NewStatement(w, s) PROVE WellFormedCallsAreTaken'
  <2>1. Configures("newstatement", w, s, {s})
    BY <1>5 DEF NewStatement
  <2>2. WellFormed("newstatement", w) => Refused[w] = {}
    BY WellFormedNew
  <2> QED
    BY <2>1, <2>2, ConfiguresTaken
<1>6. ASSUME NEW s \in Stmt, Prepare(w, s) PROVE WellFormedCallsAreTaken'
  <2>1. Configures("prepare", w, s, {s})
    BY <1>6 DEF Prepare
  <2>2. WellFormed("prepare", w) => Refused[w] = {}
    BY WellFormedPrepare
  <2> QED
    BY <2>1, <2>2, ConfiguresTaken
<1> QED
  BY <1>1, <1>2, <1>3, <1>4, <1>5, <1>6

\* A command as the documentation writes it is not refused and reads nothing past
\* an end, whatever was configured and whichever statements were made before it.
THEOREM WellFormedTaken == Spec => []WellFormedCallsAreTaken
<1>1. Init => WellFormedCallsAreTaken
  BY DEF Init, WellFormedCallsAreTaken
<1>2. ConfigInv /\ WellFormedCallsAreTaken /\ [Next]_vars => WellFormedCallsAreTaken'
  <2>1. ASSUME ConfigInv, NEW w \in Within(SessionWords),
               \/ Connect(w) \/ ConnectRefused(w) \/ Query(w)
               \/ Configure(w) \/ ConfigureRefused(w) \/ ConfigureOdd(w)
        PROVE  WellFormedCallsAreTaken'
    <3>1. w \in Words
      BY DEF Within, Words
    <3> QED
      BY <2>1, <3>1, SessionTaken
  <2>2. ASSUME ConfigInv, NEW w \in Within(StatementWords),
               \/ Execute(w) \/ ExecuteWithoutSql(w) \/ ExecuteRefused(w)
               \/ NewStatementRefused(w) \/ PrepareRefused(w)
               \/ \E s \in Stmt : NewStatement(w, s) \/ Prepare(w, s)
        PROVE  WellFormedCallsAreTaken'
    <3>1. w \in StatementWords /\ StatementInv
      BY <2>2 DEF Within, ConfigInv
    <3> QED
      BY <2>2, <3>1, StatementTaken
  <2>3. ASSUME WellFormedCallsAreTaken, UNCHANGED vars PROVE WellFormedCallsAreTaken'
    BY <2>3 DEF vars, WellFormedCallsAreTaken, WellFormed
  <2> QED
    BY <2>1, <2>2, <2>3 DEF Next
<1> QED
  BY <1>1, <1>2, ConfigInvariance, PTL DEF Spec
===============================================================================
