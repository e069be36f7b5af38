---------------------------- MODULE MCEngagement ----------------------------
(* A small instance of Engagement: addresses 0 to 7, of which 4 to 7 are one  *)
(* network; the domain corp and a host in it.                                 *)
EXTENDS Engagement

Ip(a) == [form |-> "ip", addr |-> a, pad |-> FALSE]
Net(a, size) == [form |-> "cidr", addr |-> a, size |-> size]
Name(labels, star) == [form |-> "name", labels |-> labels, star |-> star]
Url(host) == [form |-> "url", host |-> host]

Corp == Name(<<"corp">>, FALSE)
Www == Name(<<"www", "corp">>, FALSE)
MCInput == {Url(Ip(5)), Www, Net(5, 4), Name(<<"corp">>, TRUE)}
MCPattern == {Net(6, 4), Name(<<"corp">>, TRUE)}

\* A name of the user's own, and two that evaluations use.
MCSnapName == {<<"base">>, <<"ASSESS", 1>>, <<"SNAP-ASSESS", 1>>}

Bad == [form |-> "bad"]
None == [form |-> "none"]
Padded(a) == [form |-> "ip", addr |-> a, pad |-> TRUE]

MCFile ==
  {[ext |-> "json", content |-> "{", lines |-> <<[ip |-> Ip(5)], [ip |-> None]>>,
    networks |-> <<Net(5, 4), Ip(1)>>],
   [ext |-> "xml", content |-> "nmaprun",
    lines |-> <<[state |-> "up", ip |-> Ip(4)], [state |-> "down", ip |-> Ip(5)]>>],
   [ext |-> "txt", content |-> "",
    lines |-> <<[fields |-> 2, ip |-> Padded(5)], [fields |-> 2, ip |-> Bad]>>],
   [ext |-> "arp", content |-> "",
    lines |-> <<[ip |-> Ip(4), mac |-> TRUE], [ip |-> Ip(5), mac |-> FALSE]>>],
   [ext |-> "routes", content |-> "",
    lines |-> <<[fields |-> 3, net |-> Net(4, 4)], [fields |-> 3, net |-> Ip(4)]>>],
   [ext |-> "", content |-> "flows",
    lines |-> <<[src |-> Ip(4), dst |-> Bad], [src |-> None, dst |-> Ip(5)]>>],
   [ext |-> "xml", content |-> "", lines |-> << >>]}
=============================================================================
