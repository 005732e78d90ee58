---------------------------- MODULE MCRuleEngine ----------------------------
(* Instances of RuleEngine for TLC. *)
EXTENDS RuleEngine

\* "pir" needs two events close together to pass its threshold; "door" is
\* delayed.
Pir  == [threshold |-> 3, inc |-> 2, dec |-> 1, delay |-> None, memory |-> 2,
         accepts |-> {<<"pir", "ON">>}]
Door == [threshold |-> 1, inc |-> 1, dec |-> 1, delay |-> 2, memory |-> 1,
         accepts |-> {<<"door", "ON">>}]
MCCounters == [c \in {"pir", "door"} |-> IF c = "pir" THEN Pir ELSE Door]
MCFast     == [c \in {"pir"} |-> [Pir EXCEPT !.threshold = 1]]

MCConditions == [b \in {"night"} |-> [threshold |-> 0, hears |-> {"night"}]]

\* An intrusion rule, a rule on the start of the night while the programme is
\* ON, and a cyclic one.
Intrusion == [mode |-> "always", clause |-> {"pir", "door"}, minimum |-> 1, trues |-> {},
              falses |-> {}, latency |-> 2, cycle |-> None, alarm |-> "intrusion",
              actions |-> <<"siren", "light">>]
Dark      == [mode |-> "programon", clause |-> {}, minimum |-> 0, trues |-> {"night"},
              falses |-> {}, latency |-> None, cycle |-> None, alarm |-> "dark",
              actions |-> <<"lamp">>]
Round     == [mode |-> "programoff", clause |-> {}, minimum |-> 0, trues |-> {},
              falses |-> {"night"}, latency |-> None, cycle |-> 2, alarm |-> "round",
              actions |-> <<"water">>]

\* What the counters count, how they delay and how long a rule is silent.
CountingConf == [counter |-> MCCounters, condition |-> MCConditions, rule |-> <<Intrusion>>,
                 events |-> {<<"pir", "ON">>, <<"door", "ON">>}, lists |-> {{"ALL"}},
                 steps |-> {1, 2}, maxTime |-> 7]
\* Rules on conditions and on the programme.
EdgesConf == [counter |-> MCFast, condition |-> MCConditions, rule |-> <<Dark, Round>>,
              events |-> {<<"pir", "ON">>, <<"night", "ON">>, <<"night", "OFF">>},
              lists |-> {{"dark", "lamp"}, {}}, steps |-> {1}, maxTime |-> 5]
MCConfigurations == {CountingConf, EdgesConf}

\* Two rules on the start of the night.
MCTwo == {[EdgesConf EXCEPT !.rule =
              <<[Dark EXCEPT !.mode = "always"],
                [Dark EXCEPT !.mode = "always", !.alarm = "dusk", !.actions = <<"shutter">>]>>]}
=============================================================================
