------------------------------ MODULE MCFigures ------------------------------
(* An instance of Figures for TLC. *)
EXTENDS Figures

Box(vendor, router, wlc) ==
  [name |-> "n", ip |-> "ip", vendor |-> vendor, router |-> router, wlc |-> wlc]
SomeBoxes ==
  {Box({b}, FALSE, FALSE) : b \in ToSet(Brands)} \cup
  {Box({"cisco"}, TRUE, FALSE), Box({"cisco"}, FALSE, TRUE), Box({}, FALSE, FALSE),
   Box({"nokia", "juniper"}, FALSE, FALSE)}

\* Te1/1, Gi1/1, GigabitEthernet1/1, a name in the form of JunOS, and none.
Names == {<<"Te", "1/1">>, <<"Gi", "1/1">>, <<"Gi", "gabi", "te", "thernet", "1/1">>,
          <<"ge-0/0/", "1/1">>, <<>>}
Port(n, e, f, v, s) == [name |-> n, desc |-> e, fast |-> f, vlan |-> v, status |-> s]
SomePorts ==
  {Port(<<"Te", "1/1">>, e, f, v, s) :
     e \in {"e", "f"}, f \in BOOLEAN, v \in {"", "trunk", "wan-100", "10"},
     s \in {"up", "down"}} \cup
  {Port(n, "e", FALSE, v, s) : n \in Names, v \in {"", "wan-100"}, s \in {"up", "down", "warn"}}

\* Names that differ in case only, or that the firewall makes up.
MorePorts ==
  {Port(n, "e", FALSE, v, s) :
     n \in {<<"Te", "1/1">>, <<"te", "1/1">>, <<"ethernet", "1/1">>}, v \in {"", "wan-100"},
     s \in {"up", "down"}}

Singles(S) == {<<i>> : i \in S}
Pairs(S)   == {<<p[1], p[2]>> : p \in S \X S}
SomeLists  == {<<>>} \cup Singles(SomePorts \cup MorePorts) \cup Pairs(SomePorts) \cup Pairs(MorePorts)

\* The lists at one time, those of one interface also within and across a second.
Noon    == <<0, 0>>
Moments == {Noon, <<0, 1>>, <<1, 1>>}
SomeSnapshots == (SomeLists \X {Noon}) \cup (Singles(MorePorts) \X Moments)

SomeRevisions ==
  LET AtNoon(lists) == lists \X {Noon} IN
  (AtNoon(Singles(SomePorts)) \X AtNoon(Singles(SomePorts))) \cup
  (AtNoon(Pairs(MorePorts)) \X AtNoon(Pairs(MorePorts))) \cup
  (AtNoon(Singles(MorePorts)) \X AtNoon(Pairs(MorePorts) \cup {<<>>})) \cup
  ((Singles(MorePorts) \X Moments) \X (Singles(MorePorts) \X Moments))

SomeSeeds == <<"x3", "x1", "x2", "x4">>

\* x1 is an edge router, x2 one that is down, x3 no edge router.
SomeLogs ==
  UNION {{[d \in {"x1", "x2", "x3", "x4"} |->
             CASE d = "x1" -> a [] d = "x2" -> [i \in 1..n |-> 0] [] d = "x3" -> [i \in 1..n |-> 9]
               [] OTHER -> b] :
            a \in [1..n -> {1, 3, 4}], b \in {[i \in 1..n |-> 10 * i], [i \in 1..n |-> 20]}} :
         n \in 3..5}

P(m, o, t, e) == [metric |-> m, operator |-> o, target |-> t, enabled |-> e]
SomeParams ==
  {<<P("availability", o, 1000000, TRUE), P("cpu", q, t, TRUE), P("memory", "<=", 0, e)>> :
     o \in {">=", "="}, q \in {"<=", "=", "!="}, t \in {29999, 30000, 30010, 30020}, e \in BOOLEAN} \cup
  {<<P("availability", ">=", 550000, TRUE), P("jitter", ">=", 0, TRUE)>>, <<>>}

Sample(d, m, v) == [of |-> d, metric |-> m, value |-> v]
SomeDatabases ==
  {[up |-> u, total |-> t, samples |-> s] :
     u \in {0, 11, 20}, t \in {0, 20},
     s \in {<<>>, <<Sample("d", "cpu", Null)>>,
            <<Sample("d", "cpu", 50000), Sample("e", "cpu", 20000), Sample("d", "cpu", 40000)>>,
            <<Sample("e", "cpu", 30010), Sample("d", "cpu", 40000), Sample("d", "cpu", Null)>>}}

Reachable == {db \in SomeDatabases : db.up <= db.total}

SomeTallies ==
  {<<m, t>> \in (0..40) \X (0..40) : m <= t} \cup
  UNION {{<<m, t>> : m \in {0, 1, t \div 2 - 1, t \div 2, t \div 2 + 1, t - 1, t}} :
         t \in {201, 400, 401, 666, 999, 1000, 1001, 1999, 2000, 2001}}

SomeStats == [busy : {5, 6}, idle : {7, 9}, iowait : {0, 2}, guest : {0, 1}]

SomeRows ==
  {[name |-> 1, text |-> x, admin |-> a, status |-> s] :
     x \in {{"w"}, {}}, a \in {"up", "down"}, s \in {"up", "down"}} \cup
  {[name |-> 2, text |-> {}, admin |-> a, status |-> s] : a \in {"up", "down"}, s \in {"warn", "testing"}}

=============================================================================
