---------------------------- MODULE SdbConfigure -----------------------------
(***************************************************************************)
(* The options of a session and of its statements: how connect, configure, *)
(* newstatement, prepare and execute take the words of a command apart,    *)
(* which of them they accept, and what is in force afterwards.             *)
(*                                                                         *)
(* Words are compared as they are: letter case and the abbreviations that  *)
(* Tcl_GetIndexFromObj allows are left out.  SQLDBC may refuse any setting *)
(* of a session, and nobody asks it whether it has.  How a SQL command     *)
(* ends is SQLDBC's affair.                                                *)
(***************************************************************************)
EXTENDS Integers, Sequences

CONSTANTS
    SessionWords,   \* what scripts write after connect and configure, and after
    StatementWords, \* newstatement, prepare and execute: sequences of words
    Number,         \* word -> the number it is, for those that are
    Truth,          \* word -> the truth value it is, for those that are
    Dashed,         \* the words that begin with a dash
    Stmt,           \* statements of the script; a word that is one is its handle
    Prepared,       \* those that prepare makes
    None,           \* no value
    MaxWords        \* bound: the words of all commands

Words == SessionWords \cup StatementWords

\* The internal statement of the session.
Internal == "internal"

StmtOptions == <<"-cursor", "-resultsettype", "-concurrencytype", "-fetchsize", "-maxrows">>

SessionOptions == {"-autocommit", "-isolationlevel", "-sqlmode"}

\* The connect options that cannot be asked for.
Secret == {"-database", "-host", "-key", "-password", "-user"}

ASSUME ConfigureAssumption ==
    /\ \A w \in Words : w \in Seq(STRING)
    /\ Number \in [DOMAIN Number -> Int]
    /\ Truth \in [DOMAIN Truth -> BOOLEAN]
    /\ DOMAIN Number \subseteq DOMAIN Truth
    /\ {StmtOptions[i] : i \in 1 .. 5} \cup SessionOptions \cup Secret \subseteq Dashed
    /\ Stmt \subseteq STRING \ Dashed /\ Internal \notin Stmt
    /\ Prepared \subseteq Stmt
    /\ None \notin Int \cup STRING \cup BOOLEAN
    /\ MaxWords \in Nat

VARIABLES
    session,    \* the settings of the connected session
    asked,      \* setting -> the word it was last set with (history)
    ignored,    \* settings SQLDBC has refused when they were last set (history)
    opts,       \* statement -> the options in force, None if never set
    made,       \* statements that have a handle
    said,       \* the last command: its subcommand, words, answer, statement
    words,      \* words so far
    fault       \* the first read past the end of something, "none" before it

vars == <<session, asked, ignored, opts, made, said, words, fault>>

----------------------------------------------------------------------------
(* Tables. *)

\* ISOLATION_LEVELS.  Its last row, a null pointer and two zeroes, is a name of
\* length 0.
Level == [w \in {"READ UNCOMMITTED", "READ COMMITTED", "READ COMMITTED WITH TABLE LOCKS",
                 "REPEATABLE READ", "SERIALIZABLE", ""} |->
             CASE w = "READ UNCOMMITTED" -> 0
               [] w = "READ COMMITTED" -> 1
               [] w = "READ COMMITTED WITH TABLE LOCKS" -> 15
               [] w = "REPEATABLE READ" -> 2
               [] w = "SERIALIZABLE" -> 3
               [] OTHER -> 0]

\* The name of a level is no number, and not none.
ASSUME LevelsAreNames == DOMAIN Level \cap (DOMAIN Number \cup {None}) = {}

\* Mutant: the rows of the table are counted by their values.
LevelNameByValue(level) ==
    CASE level = 0 -> "READ UNCOMMITTED"
      [] level \in {1, 10} -> "READ COMMITTED"
      [] level \in {2, 20} -> "READ COMMITTED WITH TABLE LOCKS"
      [] level \in {3, 30} -> "REPEATABLE READ"
      [] OTHER -> "UNKNOWN"

\* getIsolationLevel.
LevelName(level) ==
    CASE level = 0 -> "READ UNCOMMITTED"
      [] level \in {1, 10} -> "READ COMMITTED"
      [] level = 15 -> "READ COMMITTED WITH TABLE LOCKS"
      [] level \in {2, 20} -> "REPEATABLE READ"
      [] level \in {3, 30} -> "SERIALIZABLE"
      [] OTHER -> "UNKNOWN"

\* The levels SQLDBC takes.
Levels == {0, 1, 2, 3, 10, 15, 20, 30}

SqlModes == {"INTERNAL", "ANSI", "DB2", "ORACLE", "SAPR3", ""}

Types == {"FORWARD ONLY", "SCROLL SENSITIVE", "SCROLL INSENSITIVE"}

Concurrencies == {"UPDATABLE", "READ ONLY", "UPDATABLE LOCK OPTIMISTIC"}

----------------------------------------------------------------------------
(* One option and its value: accepted, refused, or looked for past the end of *)
(* a table, which findNamedValue does with every name that is not in it.     *)

\* The largest number a fetch size of 16 bits can be.
INT16_MAX == 32767

\* Mutant: the 16 bits of the member take what fits.
SizeAcceptsAll(w) == w \in DOMAIN Number

SizeAccepts(w) == w \in DOMAIN Number /\ Number[w] \in 0 .. INT16_MAX

Verdict(option, w) ==
    LET of(accepted) == IF accepted THEN "accepted" ELSE "refused"
        in(table) == IF w \in table THEN "accepted" ELSE "past"
    IN  CASE option = "-cursor" -> "accepted"
          [] option = "-resultsettype" -> in(Types)
          [] option = "-concurrencytype" -> in(Concurrencies)
          [] option = "-fetchsize" -> of(SizeAccepts(w))
          [] option = "-maxrows" -> of(w \in DOMAIN Number)
          [] option = "-autocommit" -> of(w \in DOMAIN Truth)
          [] option = "-isolationlevel" -> in(DOMAIN Number \cup DOMAIN Level)
          [] option = "-sqlmode" -> in(SqlModes)
          [] OTHER -> "refused"

\* The 16 bits of an integer, as a signed number.
Int16(n) == ((n + 32768) % 65536) - 32768

\* What an accepted word stands for.
Value(option, w) ==
    CASE option = "-fetchsize" -> Int16(Number[w])
      [] option = "-maxrows" -> Number[w]
      [] option = "-autocommit" -> Truth[w]
      [] option = "-isolationlevel" -> IF w \in DOMAIN Number THEN Number[w] ELSE Level[w]
      [] OTHER -> w

----------------------------------------------------------------------------
\* The settings of a session nobody has asked for others.
Default == [s \in SessionOptions |->
               CASE s = "-autocommit" -> TRUE [] s = "-sqlmode" -> "INTERNAL" [] OTHER -> 1]

NoSettings == [s \in SessionOptions |-> None]

NoOptions == [i \in 1 .. 5 |-> None]

Init ==
    /\ session = NoSettings
    /\ asked = NoSettings
    /\ ignored = {}
    /\ opts = [s \in Stmt \cup {Internal} |-> NoOptions]
    /\ made = {}
    /\ said = [cmd |-> "none", words |-> <<>>, answer |-> "ok", stmt |-> None]
    /\ words = 0
    /\ fault = "none"

Connected == session # NoSettings

\* A command; its answer is "ok", "refused" by the extension or "failed" in SQLDBC.
Says(cmd, w, answer, s) ==
    /\ fault = "none"
    /\ Connected <=> cmd # "connect"
    /\ words' = words + Len(w)
    /\ said' = [cmd |-> cmd, words |-> w, answer |-> answer, stmt |-> s]

\* The answer has no effect.
Only(cmd, w, answer) ==
    /\ Says(cmd, w, answer, None)
    /\ UNCHANGED <<session, asked, ignored, opts, made, fault>>

Faults(cmd, w, f) ==
    /\ Says(cmd, w, "refused", None)
    /\ fault' = f
    /\ UNCHANGED <<session, asked, ignored, opts, made>>

\* The element of S, which has at most one.
The(S, default) == IF S = {} THEN default ELSE CHOOSE x \in S : TRUE

----------------------------------------------------------------------------
(* connect and configure. *)

Option(w, k) == w[2 * k - 1]

Given(w, k) == w[2 * k]

Pairs(w) == Len(w) \div 2

First(S) == {k \in S : \A j \in S : k <= j}

Last(S) == {k \in S : \A j \in S : j <= k}

\* The first n pairs of words that are for option s.
For(w, n, s) == {k \in 1 .. n : Option(w, k) = s}

\* SQLDBC has no other levels.
Has(s, value) == s = "-isolationlevel" => value \in Levels

\* The sets of pairs SQLDBC may take of the first n: whichever of those it has.
Takes(w, n) ==
    SUBSET {k \in 1 .. n : /\ Option(w, k) \in SessionOptions
                           /\ Has(Option(w, k), Value(Option(w, k), Given(w, k)))}

\* connect: the last of the pairs for a setting is passed on, and taken or not.
ConnectedWith(w, taken) ==
    [s \in SessionOptions |->
        The({Value(s, Given(w, k)) : k \in Last(For(w, Pairs(w), s)) \cap taken}, Default[s])]

\* configure: the first n pairs are applied one after the other.
AppliedTo(base, w, n, taken) ==
    [s \in SessionOptions |->
        The({Value(s, Given(w, k)) : k \in Last(For(w, n, s) \cap taken)}, base[s])]

IgnoredAfter(w, n, taken) ==
    {s \in SessionOptions : IF For(w, n, s) = {} THEN s \in ignored
                            ELSE Last(For(w, n, s)) \cap taken = {}}

AskedAfter(w, n) ==
    [s \in SessionOptions |->
        The({Given(w, k) : k \in Last(For(w, n, s))}, asked[s])]

\* What connect does not know is a property for SQLDBC, if it has a name.
ConnectTakes(option, w) ==
    IF option \in SessionOptions THEN Verdict(option, w)
    ELSE IF option \in Dashed \ {"-"} THEN "accepted" ELSE "refused"

ConnectBad(w) == {k \in 1 .. Pairs(w) : ConnectTakes(Option(w, k), Given(w, k)) # "accepted"}

Connect(w) ==
    \/ /\ Len(w) > 0 /\ Len(w) % 2 = 0 /\ ConnectBad(w) = {}
       /\ Says("connect", w, "ok", None)
       /\ \E taken \in Takes(w, Pairs(w)) :
             /\ session' = ConnectedWith(w, taken)
             /\ ignored' = IgnoredAfter(w, Pairs(w), taken)
       /\ asked' = AskedAfter(w, Pairs(w))
       /\ UNCHANGED <<opts, made, fault>>
    \/ /\ Len(w) > 0 /\ Len(w) % 2 = 0 /\ ConnectBad(w) = {}
       /\ Only("connect", w, "failed")

ConnectRefused(w) ==
    \/ (Len(w) = 0 \/ Len(w) % 2 # 0) /\ Only("connect", w, "refused")
    \/ /\ Len(w) % 2 = 0
       /\ \E k \in First(ConnectBad(w)) :
             IF ConnectTakes(Option(w, k), Given(w, k)) = "past"
             THEN Faults("connect", w, "pastTable") ELSE Only("connect", w, "refused")

\* configure with no option or one.  A name that is no option is asked for
\* without its first character, whatever that is.
Query(w) ==
    /\ Len(w) < 2
    /\ IF Len(w) = 0 THEN Only("configure", w, "ok")
       ELSE IF w[1] \in Secret THEN Only("configure", w, "refused")
       ELSE IF w[1] = "" THEN Faults("configure", w, "pastName")
       ELSE Only("configure", w, "ok")

ConfigureTakes(option, w) == IF option \in SessionOptions THEN Verdict(option, w) ELSE "refused"

ConfigureBad(w) == {k \in 1 .. Pairs(w) : ConfigureTakes(Option(w, k), Given(w, k)) # "accepted"}

Set(w, n) ==
    /\ \E taken \in Takes(w, n) :
          /\ session' = AppliedTo(session, w, n, taken)
          /\ ignored' = IgnoredAfter(w, n, taken)
    /\ asked' = AskedAfter(w, n)

Configure(w) ==
    /\ Len(w) > 1
    /\ Len(w) % 2 = 0 /\ ConfigureBad(w) = {}
    /\ Says("configure", w, "ok", None)
    /\ Set(w, Pairs(w))
    /\ UNCHANGED <<opts, made, fault>>

\* The options before the one that is refused stay set.
ConfigureRefused(w) ==
    /\ Len(w) > 1
    /\ \E k \in First(ConfigureBad(w)) :
          IF ConfigureTakes(Option(w, k), Given(w, k)) = "past"
          THEN Faults("configure", w, "pastTable")
          ELSE /\ Says("configure", w, "refused", None)
               /\ Set(w, k - 1)
               /\ UNCHANGED <<opts, made, fault>>

\* An option at the end has no value: what comes after the words is read.
ConfigureOdd(w) ==
    /\ Len(w) > 1 /\ Len(w) % 2 = 1 /\ ConfigureBad(w) = {}
    /\ IF w[Len(w)] \in SessionOptions THEN Faults("configure", w, "pastWords")
       ELSE /\ Says("configure", w, "refused", None)
            /\ Set(w, Pairs(w))
            /\ UNCHANGED <<opts, made, fault>>

----------------------------------------------------------------------------
(* The options of statements. *)

\* Mutant: the last word is taken for an option too.
GoesOnToTheEnd(w, j) == 2 * j < Len(w) /\ w[2 * j + 1] \in Dashed

\* Whether a pair follows the first j.  The last word is none, whatever it is.
GoesOn(w, j) == 2 * j + 1 < Len(w) /\ w[2 * j + 1] \in Dashed

\* How many pairs the options of a command are.
Parsed[w \in StatementWords] ==
    The(First({j \in 0 .. Len(w) : ~ GoesOn(w, j)}), 0)

Options == {StmtOptions[i] : i \in 1 .. 5}

\* The commands with an option that statements do not have.
Unknown == {w \in StatementWords : \E k \in 1 .. Parsed[w] : Option(w, k) \notin Options}

\* The word given for each option, the last if there are two.
Config[w \in StatementWords] ==
    [i \in 1 .. 5 |->
        The({Given(w, k) : k \in Last(For(w, Parsed[w], StmtOptions[i]))}, None)]

\* The option a statement does not accept, if there is one: they are applied in
\* the order of StmtOptions.
Refused[w \in StatementWords] ==
    First({i \in 1 .. 5 : Config[w][i] # None /\ Verdict(StmtOptions[i], Config[w][i]) # "accepted"})

\* The options o of a statement after the first n of c were applied.
OptionsAfter(o, c, n) ==
    [i \in 1 .. 5 |-> IF i <= n /\ c[i] # None THEN Value(StmtOptions[i], c[i]) ELSE o[i]]

\* configure of statement s, for a command that has made the statements in new
\* unless it is refused.
Configures(cmd, w, s, new) ==
    LET c == Config[w]
    IN  \/ /\ Refused[w] = {}
           /\ \E answer \in {"ok", "failed"} :
                 /\ Says(cmd, w, answer, s)
                 /\ IF answer = "failed" /\ new # {} THEN UNCHANGED <<opts, made>>
                    ELSE opts' = [opts EXCEPT ![s] = OptionsAfter(@, c, 5)] /\ made' = made \cup new
           /\ UNCHANGED <<session, asked, ignored, fault>>
        \/ \E i \in Refused[w] :
              IF Verdict(StmtOptions[i], c[i]) = "past" THEN Faults(cmd, w, "pastTable")
              ELSE /\ Says(cmd, w, "refused", s)
                   /\ opts' = IF new # {} THEN opts
                              ELSE [opts EXCEPT ![s] = OptionsAfter(@, c, i - 1)]
                   /\ UNCHANGED <<session, asked, ignored, made, fault>>

\* The word after the options.
After(w) == w[2 * Parsed[w] + 1]

\* Mutant: a handle behind options is not looked for.
AddressedAtOnce(w) == IF w[1] \in made THEN w[1] ELSE Internal

\* The statement an execute is for, and how many words are left for it.
Addressed(w) == IF After(w) \in made THEN After(w) ELSE Internal

Rest(w) == Len(w) - 2 * Parsed[w] - (IF After(w) \in made THEN 1 ELSE 0)

\* What is behind the words is looked at for a handle.
ExecuteWithoutSql(w) ==
    /\ Len(w) > 0 /\ w \notin Unknown /\ 2 * Parsed[w] = Len(w)
    /\ Faults("execute", w, "pastWords")

\* The words left for a prepared statement are its arguments.
HasSql(w) ==
    /\ Len(w) > 0 /\ w \notin Unknown /\ 2 * Parsed[w] < Len(w)
    /\ Rest(w) = 1 \/ Addressed(w) \in Prepared

Execute(w) == HasSql(w) /\ Configures("execute", w, Addressed(w), {})

ExecuteRefused(w) ==
    /\ Len(w) = 0 \/ w \in Unknown \/ (2 * Parsed[w] < Len(w) /\ ~ HasSql(w))
    /\ Only("execute", w, "refused")

\* newstatement ignores the words behind the first that is no option.
NewStatement(w, s) ==
    /\ s \in Stmt \ (made \cup Prepared)
    /\ Len(w) % 2 = 0 /\ w \notin Unknown
    /\ Configures("newstatement", w, s, {s})

NewStatementRefused(w) ==
    /\ Len(w) % 2 # 0 \/ w \in Unknown
    /\ Only("newstatement", w, "refused")

\* prepare, too, of those behind the SQL.
Prepare(w, s) ==
    /\ s \in Prepared \ made
    /\ Len(w) % 2 = 1 /\ w \notin Unknown
    /\ Configures("prepare", w, s, {s})

PrepareRefused(w) ==
    /\ Len(w) % 2 # 1 \/ w \in Unknown
    /\ Only("prepare", w, "refused")

\* The commands in S there are words left for.
Within(S) == {w \in S : words + Len(w) <= MaxWords}

Next ==
    \/ \E w \in Within(SessionWords) :
          \/ Connect(w) \/ ConnectRefused(w)
          \/ Query(w) \/ Configure(w) \/ ConfigureRefused(w) \/ ConfigureOdd(w)
    \/ \E w \in Within(StatementWords) :
          \/ Execute(w) \/ ExecuteWithoutSql(w) \/ ExecuteRefused(w)
          \/ NewStatementRefused(w) \/ PrepareRefused(w)
          \/ \E s \in Stmt : NewStatement(w, s) \/ Prepare(w, s)

Spec == Init /\ [][Next]_vars

----------------------------------------------------------------------------
(* Properties. *)

\* Types of the variables; a fetch size has 16 bits and is not negative.
TypeOK ==
    /\ session # NoSettings =>
          /\ session["-autocommit"] \in BOOLEAN
          /\ session["-isolationlevel"] \in Levels
          /\ session["-sqlmode"] \in SqlModes
    /\ DOMAIN session = SessionOptions /\ DOMAIN asked = SessionOptions
    /\ ignored \subseteq SessionOptions
    /\ \A s \in Stmt \cup {Internal} :
          /\ DOMAIN opts[s] = 1 .. 5
          /\ opts[s][2] \in Types \cup {None}
          /\ opts[s][3] \in Concurrencies \cup {None}
          /\ opts[s][4] \in 0 .. INT16_MAX \cup {None}
          /\ opts[s][5] \in Int \cup {None}
    /\ made \subseteq Stmt
    /\ said.words \in Words \cup {<<>>}
    /\ said.answer \in {"ok", "refused", "failed"}
    /\ words \in 0 .. MaxWords
    /\ fault \in {"none", "pastTable", "pastName", "pastWords"}

\* Whatever was configured before, in one command or several, refused ones
\* among them: a setting of the session is what it was last asked to be, and the
\* isolation level is reported by that name, unless SQLDBC has refused it then,
\* which no script is told.  The options of the statement a command has taken are
\* those the command gives, the last where it gives one twice.
SettingsAreAsked ==
    /\ \A s \in SessionOptions \ ignored :
          asked[s] # None => session[s] = Value(s, asked[s])
    /\ "-isolationlevel" \notin ignored /\ asked["-isolationlevel"] \in DOMAIN Level \ {""} =>
          LevelName(session["-isolationlevel"]) = asked["-isolationlevel"]
    /\ said.answer = "ok" /\ said.stmt # None =>
          LET w == said.words
          IN  \A k \in 1 .. Parsed[w] :
                 (\A j \in k + 1 .. Parsed[w] : Option(w, j) # Option(w, k)) =>
                    \E i \in 1 .. 5 : /\ StmtOptions[i] = Option(w, k)
                                      /\ opts[said.stmt][i] = Value(Option(w, k), Given(w, k))

\* The command has option o with a value that stands for v.
Names(w, o, v) ==
    \E k \in 1 .. Len(w) - 1 :
        w[k] = o /\ Verdict(o, w[k + 1]) = "accepted" /\ Value(o, w[k + 1]) = v

\* A command changes the options of a statement only to values it names, those
\* of a statement the script has a handle of only if the command has the handle,
\* and those of the internal statement only if there is one word, the SQL, beside
\* the options; settings of the session only to values it names, but for connect.
\* What one statement was given is in force for no other, and nothing but a new
\* value ends it.
OnlyNamedSettingsChange ==
    [][/\ \A s \in Stmt \cup {Internal} : \A i \in 1 .. 5 :
             opts'[s][i] # opts[s][i] =>
                 /\ Names(said'.words, StmtOptions[i], opts'[s][i])
                 /\ \/ s \in made' \ made
                    \/ s = Internal /\ Len(said'.words) % 2 = 1
                    \/ s \in made /\ \E k \in DOMAIN said'.words : said'.words[k] = s
       /\ \A o \in SessionOptions : session'[o] # session[o] =>
             said'.cmd = "connect" \/ Names(said'.words, o, session'[o])]_vars

\* n words that are options of the table and values they accept.
OptionWords(w, n, table) ==
    /\ n % 2 = 0
    /\ \A k \in 1 .. n \div 2 :
          Option(w, k) \in table /\ Verdict(Option(w, k), Given(w, k)) = "accepted"

\* The forms of the commands that docs/index.md shows.
WellFormed(cmd, w) ==
    LET n == Len(w)
    IN  CASE cmd = "connect" -> n > 0 /\ n % 2 = 0 /\ \A k \in 1 .. n \div 2 :
                 \/ Option(w, k) \in Secret
                 \/ Option(w, k) \in SessionOptions /\ Verdict(Option(w, k), Given(w, k)) = "accepted"
          [] cmd = "configure" ->
                 (n = 1 /\ w[1] \in SessionOptions) \/ OptionWords(w, n, SessionOptions)
          [] cmd = "newstatement" -> OptionWords(w, n, Options)
          [] cmd = "prepare" -> n > 0 /\ OptionWords(w, n - 1, Options)
          [] cmd = "execute" ->
                 \/ n > 0 /\ w[n] \notin made /\ OptionWords(w, n - 1, Options)
                 \/ \E k \in 1 .. n : /\ w[k] \in made /\ OptionWords(w, k - 1, Options)
                                      /\ n = k + 1 \/ w[k] \in Prepared
          [] OTHER -> TRUE

\* A command as the documentation writes it reads nothing past an end and is not
\* refused by the extension, also if the SQL begins with a dash, as a comment.
WellFormedCallsAreTaken ==
    WellFormed(said.cmd, said.words) => fault = "none" /\ said.answer # "refused"
=============================================================================
