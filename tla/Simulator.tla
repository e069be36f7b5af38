----------------------------- MODULE Simulator -----------------------------
(***************************************************************************)
(* What falcon-ctl computes from the postures of its audits: the subnet    *)
(* graph, the blast score and the simulated block rule.                    *)
(*                                                                         *)
(* A posture is a record of the hosts that are exposed, of the services    *)
(* that were open, as the number of them for each port, of the score and   *)
(* of the compliance.  Scores and weights are in tenths.  A node is        *)
(* <<"NET", n>>, <<"HOST", h>> or <<"SVC", h, port>>; hosts whose names    *)
(* differ only in "." and "-" would share a node, and an instance has      *)
(* none.                                                                   *)
(***************************************************************************)
EXTENDS Topology

CONSTANT Proximity  \* 1 + log10(n) / 2 in thousandths, for n hosts: no less for more of them

ASSUME SimulatorAssumption ==
  /\ Proximity \in Seq(Nat)
  /\ \A m, n \in DOMAIN Proximity : m <= n => Proximity[m] <= Proximity[n]

----------------------------------------------------------------------------
(* Scores *)

CriticalityWeight(port) ==
  CASE port \in {88, 389, 636}                        -> 35
    [] port = 445                                     -> 30
    [] port \in {3389, 5985, 5986}                    -> 25
    [] port \in {1433, 1521, 3306, 5432, 6379, 27017} -> 25
    [] port \in {502, 102, 4840, 44818}               -> 40
    [] port \in {22, 23}                              -> 20
    [] port \in {80, 443, 8080, 8443}                 -> 12
    [] OTHER                                          -> 10

\* The sum of f over S.
Total(f, S) ==
  LET order == Listed(S)
      sum[i \in 0 .. Len(order)] == IF i = 0 THEN 0 ELSE sum[i - 1] + f[order[i]]
  IN  sum[Len(order)]

\* Every service of a posture counts, and no score is above 10.0.
CalculateBlastScore(posture) ==
  LET sum == Total([port \in DOMAIN posture.services |->
                      posture.services[port] * CriticalityWeight(port)],
                   DOMAIN posture.services)
      hosts == Max({1, Cardinality(posture.hosts)})
  IN  Min({100, (sum * 6 * Proximity[hosts] + 5000) \div 10000})

----------------------------------------------------------------------------
(* The subnet graph *)

Net(n) == <<"NET", n>>
Host(h) == <<"HOST", h>>
Svc(h, port) == <<"SVC", h, port>>

\* Every host of a posture gets every service of the posture: a service does
\* not tell the host it was found on.
BuildSubnetGraph(postures) ==
  LET Open(n) == {port \in DOMAIN postures[n].services : postures[n].services[port] > 0}
      Members(n) == {<<Net(n), Host(h)>> : h \in postures[n].hosts}
      Exposes(n) == {<<Host(h), Svc(h, port)>> : h \in postures[n].hosts, port \in Open(n)}
      edges == UNION {Members(n) \cup Exposes(n) : n \in DOMAIN postures}
  IN  [nodes |-> {Net(n) : n \in DOMAIN postures} \cup {e[2] : e \in edges}, edges |-> edges]

----------------------------------------------------------------------------
(* The what-if simulation *)

\* Port 0, also that of a port that cannot be parsed, blocks every service.
SimulateBlockRule(g, port, posture) ==
  LET blocked == IF port = 0 THEN DOMAIN posture.services ELSE {port}
      left == [p \in DOMAIN posture.services |->
                 IF p \in blocked THEN 0 ELSE posture.services[p]]
      dropped == [p \in DOMAIN left |-> posture.services[p] - left[p]]
  IN  [initialScore   |-> CalculateBlastScore(posture),
       mitigatedScore |-> CalculateBlastScore([posture EXCEPT !.services = left]),
       remainingEdges |-> Cardinality(g.edges) - Total(dropped, DOMAIN left)]
=============================================================================
