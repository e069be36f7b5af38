----------------------------- MODULE MCSession -----------------------------
(* A small instance of Session: addresses 0 to 7, of which 4 to 7 are a       *)
(* network, and a name in the domain corp.                                    *)
EXTENDS Session

Net4 == [form |-> "cidr", addr |-> 5, size |-> 4]
Db == [form |-> "name", labels |-> <<"db", "corp">>, star |-> FALSE]
Corp == [form |-> "name", labels |-> <<"corp">>, star |-> TRUE]
Url == [form |-> "url", host |-> Db]
From(a, b) == [form |-> "range", from |-> a, to |-> b]

MCInput == {Net4, IpTarget(5), From(6, 7)}
MCTargetList == {<<Db, Net4>>, <<From(6, 5), IpTarget(5)>>, <<From(1, 4), Url>>}
MCPattern == {[form |-> "cidr", addr |-> 5, size |-> 2], IpTarget(5), Corp}
MCProximity == <<1000, 1151, 1239, 1301, 1349, 1389, 1423, 1452, 1477, 1500>>
MCPorts == [default |-> {445}, ot |-> {502}]
=============================================================================
