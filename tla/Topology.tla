------------------------------ MODULE Topology ------------------------------
(***************************************************************************)
(* graph.Graph with its searches.  An edge is a pair of nodes.  An edge    *)
(* may name a node that was never added, as in the code; edges between the *)
(* same two nodes are one here.                                            *)
(***************************************************************************)
EXTENDS Integers, Sequences, FiniteSets, SequencesExt, FiniteSetsExt

\* A slip: the incoming edges are left out.
NeighborsOut(g, n) == {e[2] : e \in {e \in g.edges : e[1] = n}}

Neighbors(g, n) ==
  {e[2] : e \in {e \in g.edges : e[1] = n}} \cup {e[1] : e \in {e \in g.edges : e[2] = n}}

\* The nodes, and what the edges take for nodes.
Ends(g) == g.nodes \cup UNION {{e[1], e[2]} : e \in g.edges}

\* The elements of a set in some order: that of a Go map is any.
Listed(S) ==
  LET list[i \in 0 .. Cardinality(S)] ==
        IF i = 0 THEN << >>
        ELSE LET earlier == list[i - 1]
             IN  Append(earlier, CHOOSE n \in S : n \notin Range(earlier))
  IN  list[Cardinality(S)]

\* One round of the search: the head of the queue is visited.
Visit(g, search) ==
  LET curr == Head(search.queue)
      next == Listed(Neighbors(g, curr) \ DOMAIN search.parent)
  IN  [queue  |-> Tail(search.queue) \o next,
       parent |-> [n \in DOMAIN search.parent \cup Range(next) |->
                     IF n \in DOMAIN search.parent THEN search.parent[n] ELSE curr]]

\* The search ends when the queue is empty or a target is at its head, after every
\* node has been visited at the latest.  The source is its own parent.
Search(g, source, targets) ==
  LET after[i \in 0 .. Cardinality(Ends(g))] ==
        IF i = 0 THEN [queue |-> <<source>>, parent |-> [n \in {source} |-> source]]
        ELSE LET search == after[i - 1] IN
             IF search.queue = << >> \/ Head(search.queue) \in targets THEN search
                                                                     ELSE Visit(g, search)
  IN  after[Cardinality(Ends(g))].parent

\* From the target back to the source.
PathBack(g, parent, source, target) ==
  LET back[i \in 0 .. Cardinality(Ends(g))] ==
        IF i = 0 THEN <<target>>
        ELSE LET path == back[i - 1] IN
             IF Head(path) = source THEN path ELSE <<parent[Head(path)]>> \o path
  IN  back[Cardinality(Ends(g))]

ShortestPath(g, source, target) ==
  LET parent == Search(g, source, {target}) IN
  IF {source, target} \subseteq g.nodes /\ target \in DOMAIN parent
  THEN PathBack(g, parent, source, target) ELSE << >>

\* The path, and the edge of every hop in either direction.
DetailedPath(g, source, target) ==
  LET path == ShortestPath(g, source, target) IN
  [ids  |-> path,
   hops |-> [i \in 1 .. Len(path) - 1 |->
               {<<path[i], path[i + 1]>>, <<path[i + 1], path[i]>>} \cap g.edges]]

\* What the search finds from n when it has no target.
Component(g, n) == DOMAIN Search(g, n, {})

\* From every node in turn that no earlier component has.
ConnectedComponents(g) ==
  LET nodes == Listed(g.nodes)
      found[i \in 0 .. Len(nodes)] ==
        IF i = 0 THEN {}
        ELSE LET earlier == found[i - 1] IN
             IF nodes[i] \in UNION earlier THEN earlier
                                           ELSE earlier \cup {Component(g, nodes[i])}
  IN  found[Len(nodes)]

----------------------------------------------------------------------------
(* What the graph commands promise *)

\* The nodes within k hops of n, whatever the direction of the edges.
Ball(g, n, k) ==
  LET ball[i \in 0 .. k] ==
        IF i = 0 THEN {n}
        ELSE LET inner == ball[i - 1]
             IN  inner \cup UNION {{e[1], e[2]} : e \in {e \in g.edges : {e[1], e[2]} \cap inner # {}}}
  IN  ball[k]

\* A path is found exactly when there is one, of existing edges, and no path has
\* fewer hops.
IsShortestPath(g, source, target, path) ==
  IF path.ids = << >> THEN target \notin Ball(g, source, Cardinality(Ends(g)))
  ELSE /\ path.ids[1] = source /\ path.ids[Len(path.ids)] = target
       /\ \A i \in DOMAIN path.hops : path.hops[i] # {}
       /\ path.hops # << >> => target \notin Ball(g, source, Len(path.hops) - 1)
=============================================================================
