----------------------------- MODULE Knowledge -----------------------------
(***************************************************************************)
(* The knowledge graph that the falcon shell builds from the database for  *)
(* every graph command, finding and report (graph.BuildFromStorage), over  *)
(* the tables that HostIngest fills.  A node is the name of a table and an *)
(* identifier, or a protocol.  Targets, networks, findings and             *)
(* technologies are left out; a service is taken to be named for its       *)
(* protocol and port.                                                      *)
(***************************************************************************)
EXTENDS HostIngest, Topology

Rows(kind, table) == {<<kind, id>> : id \in DOMAIN table}

AssetNodes == Rows("asset", asset)

\* Every interface with the edge from its asset.
InterfacePart ==
  [nodes |-> Rows("iface", iface),
   edges |-> {<<<<"asset", iface[i].asset>>, <<"iface", i>>>> : i \in DOMAIN iface}]

\* Every service with the edge from its asset, and a node for its protocol.
ServicePart ==
  [nodes |-> Rows("service", service) \cup {<<"proto", service[s].port>> : s \in DOMAIN service},
   edges |-> {<<<<"asset", service[s].asset>>, <<"service", s>>>> : s \in DOMAIN service}
             \cup {<<<<"service", s>>, <<"proto", service[s].port>>>> : s \in DOMAIN service}]

\* A slip: evidence is not linked to what it is evidence of.
EvidenceNodes == [nodes |-> Rows("evidence", evidence), edges |-> {}]

EvidencePart ==
  [nodes |-> Rows("evidence", evidence),
   edges |-> {<<<<"evidence", e>>, <<evidence[e].kind, evidence[e].entity>>>> :
                e \in DOMAIN evidence}]

\* The relationships table adds edges only, whether or not their ends exist.
RelationshipEdges ==
  LET From(r) == IF rel[r].type = "evBy" THEN "evidence" ELSE "asset"
      To(r) == CASE rel[r].type = "evBy" -> "asset"
                 [] rel[r].type = "hasIface" -> "iface"
                 [] rel[r].type = "hosts" -> "service"
  IN  {<<<<From(r), rel[r].src>>, <<To(r), rel[r].dst>>>> : r \in DOMAIN rel}

BuildFromStorage ==
  [nodes |-> AssetNodes \cup InterfacePart.nodes \cup ServicePart.nodes \cup EvidencePart.nodes,
   edges |-> InterfacePart.edges \cup ServicePart.edges \cup EvidencePart.edges
             \cup RelationshipEdges]

\* graph isolated
IsolatedNodes(g) == {n \in g.nodes : \A e \in g.edges : n \notin {e[1], e[2]}}

\* graph services: the list has a service once for every edge that leads to it,
\* here once.
ServicesFor(g, n) == {m \in g.nodes : m[1] = "service" /\ <<n, m>> \in g.edges}

\* graph hosts
HostsFor(g, n) ==
  {m \in g.nodes : m[1] = "asset" /\ {<<m, n>>, <<n, m>>} \cap g.edges # {}}

----------------------------------------------------------------------------
(* Properties *)

\* The edges join nodes, so no path leads over a node that "graph path" and the
\* attack paths would dereference in vain; what is isolated is an asset alone; and an
\* interface or a service has one host, which has the service, although the tables and
\* the relationships each say so.
RowsAreJoined ==
  LET g == BuildFromStorage IN
    /\ Ends(g) = g.nodes
    /\ IsolatedNodes(g) \subseteq AssetNodes
    /\ \A n \in Rows("iface", iface) \cup Rows("service", service) :
         Cardinality(HostsFor(g, n)) = 1
    /\ \A n \in AssetNodes, s \in Rows("service", service) :
         s \in ServicesFor(g, n) <=> n \in HostsFor(g, s)

\* Whenever nothing is being ingested, also after a kill at any statement, the
\* graph is whole: its rows are joined, and its components share no node and each has
\* an asset to which its rows belong.  Only a failing statement, whose error is
\* ignored, may leave it otherwise.
GraphIsWhole ==
  LET g == BuildFromStorage
      components == ConnectedComponents(g)
  IN  faults = 0 /\ (\A p \in Proc : pc[p] = "idle") =>
        /\ RowsAreJoined
        /\ UNION components = g.nodes
        /\ \A c, d \in components : c = d \/ c \cap d = {}
        /\ \A c \in components : c \cap AssetNodes # {}
=============================================================================
