---------------------------- MODULE MCConfigure -----------------------------
(***************************************************************************)
(* Instance of SdbConfigure for TLC.                                       *)
(***************************************************************************)
EXTENDS SdbConfigure, TLC

MCNumber == ("2" :> 2) @@ ("7" :> 7) @@ ("-1" :> -1) @@ ("40000" :> 40000)

MCTruth == [w \in DOMAIN MCNumber |-> TRUE] @@ ("off" :> FALSE)

MCDashed == Options \cup SessionOptions \cup Secret \cup {"-", "-1", "--sql"}

SessionPairs ==
    {<<"-isolationlevel", v>> : v \in {"7", "-1", "SERIALIZABLE", "REPEATABLE READ", "DIRTY READ"}}
    \cup {<<"-autocommit", v>> : v \in {"off", "sure"}}
    \cup {<<"-sqlmode", "ORACLE">>, <<"-host", "h">>}

StatementPairs ==
    {<<"-fetchsize", v>> : v \in {"2", "40000", "off"}}
    \cup {<<"-maxrows", v>> : v \in {"7", "off"}}
    \cup {<<"-resultsettype", "SCROLL SENSITIVE">>, <<"-concurrencytype", "READ">>}

\* Up to two options, and what else there may be behind them.
MCSessionWords ==
    {a \o b : a \in SessionPairs \cup {<<>>}, b \in SessionPairs \cup {<<"-sqlmode">>, <<"">>, <<>>}}

MCStatementWords ==
    {a \o b \o c : a \in StatementPairs \cup {<<>>}, b \in StatementPairs \cup {<<>>},
                   c \in {<<>>, <<"sql">>, <<"--sql">>, <<"s">>, <<"s", "--sql">>, <<"p">>,
                         <<"s", "p", "sql">>}}
=============================================================================
