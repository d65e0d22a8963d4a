------------------------------ MODULE MCAlgorithms ------------------------------
(***************************************************************************)
(* Model checking of Algorithms on all inputs of small sets.               *)
(***************************************************************************)
EXTENDS Algorithms

\* Numbers around every bound that a factor or a width draws.
Numbers == {NoNumber, 0, 1, 4, 15, 16, 17, 18, 19, 255, 256, 999, 1000, 1001, 1092, 1093, 4095,
            4096, 65535, 65536}
Units(letters) == UNION {[1..n -> letters] : n \in 0..2}
MCSizes     == [digits : Numbers, unit : Units({"K", "M", "G", "m", "s"})]
MCDurations == [digits : Numbers, unit : Units({"m", "s", "h"})]

T(n, unit) == {[digits |-> n, unit |-> unit]}
MCConfigurations ==
  [missing : {{}} \union {{r} : r \in Required} \union {{"[host] name", "[guest] world"}},
   mode : Modes,
   memoryMax : {{}, T(1, <<"K">>), T(65535, <<"G">>)},
   epochInterval : {{}, T(1, <<"m", "s">>), T(1, <<>>)},
   instanceIdle : {{}, T(1, <<"K">>)},
   instancesMin : {{}, {0}, {1}, {9}, {128}, {129}},
   instancesMax : {{}, {0}, {1}, {7}, {8}, {9}}]

Texts(n) == UNION {[1..k -> Characters] : k \in 0..n}
Rec(level, message, fields) ==
  [level |-> level, component |-> <<"a">>, message |-> message, fields |-> fields]
MCRecords ==
  {<<Rec("info", m, <<>>), Rec(l, <<"a">>, <<>>)>> : m \in Texts(3), l \in DOMAIN Severity}
  \union {<<Rec("warn", m, <<[key |-> k, value |-> v]>>), Rec("info", <<>>, <<>>)>> :
            m \in Texts(1), k \in Texts(1), v \in Texts(2)}
MCLevels == {"trace", "info", "warning", "error", "no such level"}

Exports == {[interface |-> TRUE, name |-> "x"], [interface |-> TRUE, name |-> "y"],
            [interface |-> FALSE, name |-> "x"], [interface |-> TRUE, name |-> NoName]}
MCWits == [parses : BOOLEAN,
         worlds : {{w, v} : w, v \in [own : BOOLEAN, exports : SUBSET Exports]}]
=============================================================================
