------------------------------ MODULE MCService ------------------------------
(***************************************************************************)
(* Two chains and the contents an operator may give the file: the first,   *)
(* other rules, a new receiver, a rule that does not compile, a receiver   *)
(* nobody defined, a monitor twice, a receiver of an unknown type.         *)
(***************************************************************************)
EXTENDS Service

Rule(to)  == [ok |-> TRUE, to |-> to]
BadRule   == [ok |-> FALSE, to |-> {"ops"}]
Chains    == <<[id |-> "base", num |-> 1, urls |-> {"https"}],
               [id |-> "op", num |-> 2, urls |-> {"https", "wss"}]>>
Receivers(names) == [i \in DOMAIN names |-> [id |-> names[i], type |-> "slack"]]
Mon(id, ch, rules) == [id |-> id, chain |-> ch, addr |-> "A", conf |-> "", rules |-> rules]
Config(names, onBase, onOp) ==
    [chains |-> Chains, receivers |-> Receivers(names),
     monitors |-> <<Mon("m1", "base", onBase), Mon("m2", "op", onOp)>>]

Ops         == Rule({"ops"})
First       == Config(<<"ops">>, <<Ops>>, <<Ops>>)
OtherRules  == Config(<<"ops">>, <<Ops, Ops>>, <<Ops, Ops>>)
NewReceiver == Config(<<"ops", "dev">>, <<Ops, Rule({"dev"})>>, <<Ops>>)
NotCompiled == Config(<<"ops">>, <<Ops>>, <<BadRule>>)
NoReceiver  == Config(<<"ops">>, <<Rule({"dev"})>>, <<Ops>>)

SameMonitor == [First EXCEPT !.monitors = <<@[1], @[1]>>]
BadType     == [First EXCEPT !.receivers = <<[id |-> "ops", type |-> "carrier pigeon"]>>]

AllFiles == {First, OtherRules, NewReceiver, NotCompiled, NoReceiver, SameMonitor, BadType}
==============================================================================
