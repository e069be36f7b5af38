--------------------------- MODULE TopologyProofs ---------------------------
(***************************************************************************)
(* What the searches of Topology find in every finite graph: breadth-first *)
(* search a shortest path, and the components a partition of the nodes.    *)
(***************************************************************************)
EXTENDS Topology, FiniteSetTheorems, TLAPS

----------------------------------------------------------------------------
(* Functions that are defined step by step *)

\* The minimum of FiniteSetsExt is one: of the elements of S up to each of them, the
\* fewest are those up to the least.
LEMMA MinExists ==
  ASSUME NEW S, S \subseteq Nat, S # {}
  PROVE  Min(S) \in S /\ \A y \in S : Min(S) <= y
<1> DEFINE UpTo(x) == {y \in S : y <= x}
           F == {UpTo(x) : x \in S}
<1>1. ASSUME NEW x \in S PROVE UpTo(x) \in FiniteSubsetsOf(Nat)
  BY FS_BoundedSetOfNaturals DEF FiniteSubsetsOf
<1>2. F \subseteq FiniteSubsetsOf(Nat) /\ F # {}
  BY <1>1
<1>3. PICK U \in F : \A V \in F : <<V, U>> \notin StrictSubsetOrdering(Nat)
  BY <1>2, WFMin, FS_StrictSubsetOrderingWellFounded
<1>4. PICK x \in S : U = UpTo(x)
  OBVIOUS
<1>5. ASSUME NEW y \in S, y < x PROVE FALSE
  <2>1. UpTo(y) \in F /\ UpTo(y) \subseteq UpTo(x)
    <3>1. \A z \in UpTo(y) : z \in S /\ z <= x
      BY <1>5
    <3> QED BY <3>1
  <2>2. x \in UpTo(x) /\ x \notin UpTo(y)
    BY <1>5
  <2>3. UpTo(y) \in SUBSET Nat /\ UpTo(x) \in SUBSET Nat
    OBVIOUS
  <2> HIDE DEF UpTo
  <2>4. <<UpTo(y), UpTo(x)>> \in StrictSubsetOrdering(Nat)
    BY <2>1, <2>2, <2>3 DEF StrictSubsetOrdering
  <2> QED BY <1>3, <1>4, <2>1, <2>4
<1>6. \A y \in S : x <= y
  BY <1>5
<1> QED BY <1>6 DEF Min

\* What holds of 0 and, with a number, of the next one holds up to N.
LEMMA FirstFailure ==
  ASSUME NEW N \in Nat, NEW Sound, 0 \in Sound, \A n \in 1 .. N : n - 1 \in Sound => n \in Sound
  PROVE  \A n \in 0 .. N : n \in Sound
<1> SUFFICES ASSUME (0 .. N) \ Sound # {} PROVE FALSE
  OBVIOUS
<1> DEFINE Bad == (0 .. N) \ Sound
<1>1. Bad \subseteq Nat /\ Bad # {}
  OBVIOUS
<1>2. PICK n \in Bad : \A m \in Bad : n <= m
  <2> HIDE DEF Bad
  <2> QED BY <1>1, MinExists
<1>3. n \in 1 .. N
  BY <1>2
<1>4. n - 1 \in (0 .. N) /\ n - 1 \notin Bad
  BY <1>2, <1>3
<1> QED BY <1>2, <1>3, <1>4

\* What can be continued from every good step can be run: h is the run.
LEMMA Iterates ==
  ASSUME NEW N \in Nat, NEW Start, NEW Sound, NEW R, <<0, Start>> \in Sound,
         \A i \in 1 .. N : \A s : <<i - 1, s>> \in Sound =>
           \E t : <<i, t>> \in Sound /\ <<i, s, t>> \in R
  PROVE  \E h : /\ h = [i \in 0 .. N |-> h[i]] /\ h[0] = Start
                /\ \A i \in 1 .. N : <<i, h[i - 1], h[i]>> \in R
<1> DEFINE Begun(h, m) == /\ h[0] = Start /\ <<m, h[m]>> \in Sound
                          /\ \A i \in 1 .. m : <<i, h[i - 1], h[i]>> \in R
           Done == {m \in Nat : \E h : Begun(h, m)}
<1>1. 0 \in Done
  <2>1. Begun([i \in {0} |-> Start], 0)
    OBVIOUS
  <2> QED BY <2>1
<1>2. ASSUME NEW m \in 1 .. N, m - 1 \in Done PROVE m \in Done
  <2>1. PICK h : Begun(h, m - 1)
    BY <1>2
  <2>2. PICK t : <<m, t>> \in Sound /\ <<m, h[m - 1], t>> \in R
    BY <2>1
  <2> DEFINE g == [i \in 0 .. m |-> IF i = m THEN t ELSE h[i]]
  <2>3. g[m] = t /\ \A i \in 0 .. m - 1 : g[i] = h[i]
    OBVIOUS
  <2> HIDE DEF g
  <2>4. ASSUME NEW i \in 1 .. m PROVE <<i, g[i - 1], g[i]>> \in R
    <3>1. CASE i = m
      BY <2>2, <2>3, <3>1
    <3>2. CASE i # m
      <4>1. i \in 1 .. (m - 1) /\ i \in 0 .. m - 1 /\ i - 1 \in 0 .. m - 1
        BY <3>2
      <4> QED BY <2>1, <2>3, <4>1
    <3> QED BY <3>1, <3>2
  <2>5. Begun(g, m)
    <3>1. 0 \in 0 .. m - 1
      OBVIOUS
    <3> QED BY <2>1, <2>2, <2>3, <2>4, <3>1
  <2> HIDE DEF Begun
  <2> QED BY <2>5
<1> HIDE DEF Done
<1>3. \A m \in 0 .. N : m \in Done
  BY <1>1, <1>2, FirstFailure
<1>4. PICK h : Begun(h, N)
  BY <1>3 DEF Done
<1> DEFINE g == [i \in 0 .. N |-> h[i]]
<1>5. \A i \in 0 .. N : g[i] = h[i]
  OBVIOUS
<1>6. \A i \in 1 .. N : i \in 0 .. N /\ i - 1 \in 0 .. N
  OBVIOUS
<1>7. g = [i \in 0 .. N |-> g[i]]
  OBVIOUS
<1> HIDE DEF g
<1> QED BY <1>4, <1>5, <1>6, <1>7

\* The sequence of a finite set has every element of it once.
LEMMA ListedOnce ==
  ASSUME NEW S, IsFiniteSet(S)
  PROVE  /\ Listed(S) \in Seq(S) /\ Len(Listed(S)) = Cardinality(S)
         /\ Range(Listed(S)) = S
         /\ \A i, j \in DOMAIN Listed(S) : Listed(S)[i] = Listed(S)[j] => i = j
<1> DEFINE N == Cardinality(S)
           More(l) == Append(l, CHOOSE n \in S : n \notin Range(l))
           Once(l) == \A i, j \in 1 .. Len(l) : l[i] = l[j] => i = j
           Run(h) == h = [i \in 0 .. N |-> IF i = 0 THEN << >> ELSE More(h[i - 1])]
           list == CHOOSE h : Run(h)
           Sound == {x \in Nat \X Seq(S) : Len(x[2]) = x[1] /\ Once(x[2])}
           R == {x \in (1 .. N) \X Seq(S) \X Seq(S) : x[3] = More(x[2])}
<1>1. N \in Nat
  BY FS_CardinalityType
<1>2. Listed(S) = list[N]
  BY DEF Listed
<1> HIDE DEF N
<1>3. ASSUME NEW i \in 1 .. N, NEW l, <<i - 1, l>> \in Sound
      PROVE  <<i, More(l)>> \in Sound /\ <<i, l, More(l)>> \in R
  <2>1. l \in Seq(S) /\ Len(l) = i - 1 /\ Once(l)
    BY <1>3
  <2>2. \E n \in S : n \notin Range(l)
    <3> SUFFICES ASSUME S \subseteq Range(l) PROVE FALSE
      OBVIOUS
    <3>1. l \in Surjection(1 .. (i - 1), S)
      BY <2>1 DEF Surjection, Range
    <3>2. IsFiniteSet(1 .. (i - 1)) /\ Cardinality(1 .. (i - 1)) = i - 1
      BY <1>1, FS_Interval
    <3>3. Cardinality(S) <= i - 1
      BY <3>1, <3>2, FS_Surjection
    <3> QED BY <1>1, <3>3 DEF N
  <2>3. PICK n \in S : n \notin Range(l) /\ More(l) = Append(l, n)
    BY <2>2
  <2> HIDE DEF More
  <2>4. /\ More(l) \in Seq(S) /\ Len(More(l)) = i /\ More(l)[i] = n
        /\ \A j \in 1 .. (i - 1) : More(l)[j] = l[j]
    BY <1>1, <2>1, <2>3
  <2>5. \A j \in 1 .. (i - 1) : l[j] # n
    BY <2>1, <2>3 DEF Range
  <2>6. Once(More(l))
    BY <2>1, <2>4, <2>5
  <2> QED BY <1>1, <2>1, <2>4, <2>6
<1>4. <<0, << >>>> \in Sound
  <2>1. << >> \in Seq(S) /\ Len(<< >>) = 0
    OBVIOUS
  <2>2. Once(<< >>)
    OBVIOUS
  <2>3. \A i, l : i \in Nat /\ l \in Seq(S) /\ Len(l) = i /\ Once(l) => <<i, l>> \in Sound
    <3> HIDE DEF Once
    <3> QED OBVIOUS
  <2> HIDE DEF Once, Sound
  <2> QED BY <2>1, <2>2, <2>3
<1>0. \A i \in 1 .. N : \A l, m : <<i, l, m>> \in R => m = More(l)
  <2> HIDE DEF More
  <2> QED OBVIOUS
<1>5. \E h : Run(h)
  <2> HIDE DEF Sound, R, More
  <2>0. \A i \in 1 .. N : \A l : <<i - 1, l>> \in Sound =>
          \E t : <<i, t>> \in Sound /\ <<i, l, t>> \in R
    BY <1>3
  <2>1. PICK h : /\ h = [i \in 0 .. N |-> h[i]] /\ h[0] = << >>
                 /\ \A i \in 1 .. N : <<i, h[i - 1], h[i]>> \in R
    BY <1>1, <1>4, <2>0, Iterates
  <2>2. \A i \in 0 .. N : h[i] = IF i = 0 THEN << >> ELSE More(h[i - 1])
    <3> SUFFICES ASSUME NEW i \in 0 .. N PROVE h[i] = IF i = 0 THEN << >> ELSE More(h[i - 1])
      OBVIOUS
    <3>1. CASE i = 0
      BY <2>1, <3>1
    <3>2. CASE i # 0
      <4>1. i \in 1 .. N
        BY <1>1, <3>2
      <4>2. h[i] = More(h[i - 1])
        BY <1>0, <2>1, <4>1
      <4> QED BY <3>2, <4>2
    <3> QED BY <3>1, <3>2
  <2>3. Run(h)
    BY <2>1, <2>2
  <2> QED BY <2>3
<1>6. Run(list)
  <2> HIDE DEF Run
  <2> QED BY <1>5
<1> HIDE DEF list
<1>7. list[0] = << >> /\ \A i \in 1 .. N : list[i] = More(list[i - 1])
  <2> HIDE DEF More
  <2> QED BY <1>1, <1>6
<1> DEFINE Fine == {i \in Nat : <<i, list[i]>> \in Sound}
<1>8. \A i \in 0 .. N : i \in Fine
  <2> HIDE DEF Sound, More
  <2>1. 0 \in Fine
    BY <1>4, <1>7
  <2>2. ASSUME NEW i \in 1 .. N, i - 1 \in Fine PROVE i \in Fine
    <3>1. <<i - 1, list[i - 1]>> \in Sound
      BY <2>2
    <3>2. <<i, More(list[i - 1])>> \in Sound
      BY <1>3, <3>1
    <3> QED BY <1>7, <3>2
  <2> HIDE DEF Fine
  <2> QED BY <1>1, <2>1, <2>2, FirstFailure
<1> DEFINE l == list[N]
<1>9. l \in Seq(S) /\ Len(l) = N /\ Once(l)
  <2>1. <<N, list[N]>> \in Sound
    <3> HIDE DEF Sound
    <3> QED BY <1>1, <1>8
  <2> HIDE DEF Once
  <2> QED BY <2>1
<1> HIDE DEF l
<1>10. Range(l) = S
  <2>1. Range(l) \subseteq S
    BY <1>9 DEF Range
  <2>2. ASSUME NEW n \in S, n \notin Range(l) PROVE FALSE
    <3>1. l \in Injection(1 .. N, S \ {n})
      BY <1>9, <2>2 DEF Injection, IsInjective, Range
    <3>2. IsFiniteSet(S \ {n}) /\ Cardinality(S \ {n}) = N - 1
      BY FS_RemoveElement DEF N
    <3>3. Cardinality(1 .. N) = N
      BY <1>1, FS_Interval
    <3> QED BY <1>1, <3>1, <3>2, <3>3, FS_Injection
  <2> QED BY <2>1, <2>2
<1> QED BY <1>2, <1>9, <1>10 DEF l, N

----------------------------------------------------------------------------
(* Hops *)

\* A set of nodes with what is one hop away.
Wider(g, inner) ==
  inner \cup UNION {{e[1], e[2]} : e \in {e \in g.edges : {e[1], e[2]} \cap inner # {}}}

\* One hop more is one hop from what was reached.
LEMMA BallGrows ==
  ASSUME NEW g, NEW n
  PROVE  Ball(g, n, 0) = {n} /\ \A k \in Nat : Ball(g, n, k + 1) = Wider(g, Ball(g, n, k))
<1> DEFINE Run(k, h) == h = [i \in 0 .. k |-> IF i = 0 THEN {n} ELSE Wider(g, h[i - 1])]
           ball(k) == CHOOSE h : Run(k, h)
           U == {n} \cup UNION {{e[1], e[2]} : e \in g.edges}
<1>1. \A k : Ball(g, n, k) = ball(k)[k]
  BY DEF Ball, Wider
<1>2. ASSUME NEW s \in SUBSET U PROVE Wider(g, s) \in SUBSET U
  BY DEF Wider
<1> HIDE DEF U
<1>3. ASSUME NEW k \in Nat PROVE Run(k, ball(k))
  <2> DEFINE Sound == (0 .. k) \X SUBSET U
             R == {<<i, s, Wider(g, s)>> : i \in 1 .. k, s \in SUBSET U}
  <2>1. <<0, {n}>> \in Sound
    BY DEF U
  <2>2. \A i \in 1 .. k : \A s : <<i - 1, s>> \in Sound =>
          \E t : <<i, t>> \in Sound /\ <<i, s, t>> \in R
    <3> SUFFICES ASSUME NEW i \in 1 .. k, NEW s \in SUBSET U
                 PROVE  <<i, Wider(g, s)>> \in Sound /\ <<i, s, Wider(g, s)>> \in R
      OBVIOUS
    <3>1. Wider(g, s) \in SUBSET U
      BY <1>2
    <3>2. i \in 0 .. k
      OBVIOUS
    <3>3. <<i, s, Wider(g, s)>> \in R
      OBVIOUS
    <3> HIDE DEF R
    <3> QED BY <3>1, <3>2, <3>3
  <2>3. \A i, s, t : <<i, s, t>> \in R => t = Wider(g, s)
    OBVIOUS
  <2> HIDE DEF Sound, R
  <2>4. PICK h : /\ h = [i \in 0 .. k |-> h[i]] /\ h[0] = {n}
                 /\ \A i \in 1 .. k : <<i, h[i - 1], h[i]>> \in R
    BY <2>1, <2>2, Iterates
  <2>5. ASSUME NEW i \in 0 .. k PROVE h[i] = IF i = 0 THEN {n} ELSE Wider(g, h[i - 1])
    <3>1. CASE i = 0
      BY <2>4, <3>1
    <3>2. CASE i # 0
      <4>1. i \in 1 .. k
        BY <3>2
      <4> QED BY <2>3, <2>4, <3>2, <4>1
    <3> QED BY <3>1, <3>2
  <2>6. Run(k, h)
    BY <2>4, <2>5
  <2> HIDE DEF Run
  <2> QED BY <2>6
<1> HIDE DEF ball
<1>4. ASSUME NEW k \in Nat
      PROVE  ball(k)[0] = {n} /\ \A i \in 1 .. k : ball(k)[i] = Wider(g, ball(k)[i - 1])
  <2>1. Run(k, ball(k))
    BY <1>3
  <2>2. \A h : Run(k, h) => h[0] = {n} /\ \A i \in 1 .. k : h[i] = Wider(g, h[i - 1])
    <3> SUFFICES ASSUME NEW h, Run(k, h)
                 PROVE  h[0] = {n} /\ \A i \in 1 .. k : h[i] = Wider(g, h[i - 1])
      OBVIOUS
    <3>1. \A i \in 0 .. k : h[i] = IF i = 0 THEN {n} ELSE Wider(g, h[i - 1])
      OBVIOUS
    <3>2. 0 \in 0 .. k /\ \A i \in 1 .. k : i \in 0 .. k /\ i # 0
      OBVIOUS
    <3> HIDE DEF Run
    <3> QED BY <3>1, <3>2
  <2> HIDE DEF Run
  <2> QED BY <2>1, <2>2
<1> HIDE DEF Run
<1>5. ASSUME NEW k \in Nat PROVE \A i \in 0 .. k : \A m \in Nat : i <= m => ball(m)[i] = ball(i)[i]
  <2> DEFINE Sound == {i \in 0 .. k : \A m \in Nat : i <= m => ball(m)[i] = ball(i)[i]}
  <2>1. 0 \in Sound
    <3>1. 0 \in Nat /\ 0 \in 0 .. k
      OBVIOUS
    <3>2. \A m \in Nat : ball(m)[0] = {n}
      BY <1>4
    <3> QED BY <3>1, <3>2
  <2>2. ASSUME NEW i \in 1 .. k, i - 1 \in Sound PROVE i \in Sound
    <3> SUFFICES ASSUME NEW m \in Nat, i <= m PROVE ball(m)[i] = ball(i)[i]
      OBVIOUS
    <3>1. i \in 1 .. m /\ i \in 1 .. i /\ i \in Nat /\ i - 1 <= m /\ i - 1 <= i
      OBVIOUS
    <3>2. ball(m)[i - 1] = ball(i - 1)[i - 1] /\ ball(i)[i - 1] = ball(i - 1)[i - 1]
      BY <2>2, <3>1
    <3>3. ball(m)[i] = Wider(g, ball(m)[i - 1]) /\ ball(i)[i] = Wider(g, ball(i)[i - 1])
      BY <1>4, <3>1
    <3> QED BY <3>2, <3>3
  <2> HIDE DEF Sound
  <2>3. \A i \in 0 .. k : i \in Sound
    BY <2>1, <2>2, FirstFailure
  <2> QED BY <2>3 DEF Sound
<1>6. ASSUME NEW k \in Nat PROVE Ball(g, n, k + 1) = Wider(g, Ball(g, n, k))
  <2>1. k + 1 \in Nat /\ k + 1 \in 1 .. k + 1 /\ k \in 0 .. k /\ k <= k + 1 /\ (k + 1) - 1 = k
    OBVIOUS
  <2>2. ball(k + 1)[k + 1] = Wider(g, ball(k + 1)[k])
    BY <1>4, <2>1
  <2>3. ball(k + 1)[k] = ball(k)[k]
    BY <1>5, <2>1
  <2> QED BY <1>1, <2>2, <2>3
<1>7. Ball(g, n, 0) = {n}
  BY <1>1, <1>4
<1> QED BY <1>6, <1>7

\* A graph of finitely many pairs of nodes.
IsGraph(g) ==
  /\ IsFiniteSet(Ends(g))
  /\ \A e \in g.edges : e = <<e[1], e[2]>>

\* One hop leads to the neighbors, whatever the direction.
LEMMA WiderByNeighbors ==
  ASSUME NEW g, NEW inner
  PROVE  Wider(g, inner) = inner \cup UNION {Neighbors(g, n) : n \in inner}
<1>1. ASSUME NEW m \in Wider(g, inner), m \notin inner
      PROVE  \E n \in inner : m \in Neighbors(g, n)
  <2>1. PICK e \in g.edges : {e[1], e[2]} \cap inner # {} /\ m \in {e[1], e[2]}
    BY <1>1 DEF Wider
  <2>2. CASE m = e[1]
    BY <1>1, <2>1, <2>2 DEF Neighbors
  <2>3. CASE m = e[2]
    BY <1>1, <2>1, <2>3 DEF Neighbors
  <2> QED BY <2>1, <2>2, <2>3
<1>2. ASSUME NEW n \in inner, NEW m \in Neighbors(g, n) PROVE m \in Wider(g, inner)
  <2>1. PICK e \in g.edges : {e[1], e[2]} = {m, n}
    BY DEF Neighbors
  <2>2. n \in {e[1], e[2]} \cap inner /\ m \in {e[1], e[2]}
    BY <2>1
  <2> QED BY <2>2 DEF Wider
<1>3. inner \subseteq Wider(g, inner)
  BY DEF Wider
<1> QED BY <1>1, <1>2, <1>3

\* A neighbor is the other end of an edge.
LEMMA NeighborsMutual ==
  ASSUME NEW g, NEW m, NEW n
  PROVE  /\ m \in Neighbors(g, n) <=> \E e \in g.edges : \/ e[1] = m /\ e[2] = n
                                                         \/ e[1] = n /\ e[2] = m
         /\ m \in Neighbors(g, n) => m \in Ends(g)
<1>1. m \in Neighbors(g, n) <=> \E e \in g.edges : \/ e[1] = m /\ e[2] = n
                                                   \/ e[1] = n /\ e[2] = m
  BY DEF Neighbors
<1>2. ASSUME NEW e \in g.edges PROVE {e[1], e[2]} \subseteq Ends(g)
  BY DEF Ends
<1> QED BY <1>1, <1>2

\* The nodes that can be reached and how many hops away each of them is.
IsLevel(g, source, reach, level) ==
  /\ source \in reach /\ reach \subseteq Ends(g) /\ level \in [reach -> Nat]
  /\ \A m \in reach : level[m] = 0 <=> m = source
  /\ \A m \in reach : \A n \in Neighbors(g, m) : n \in reach /\ level[n] <= level[m] + 1
  /\ \A m \in reach \ {source} :
       \E n \in reach : m \in Neighbors(g, n) /\ level[m] = level[n] + 1

\* No node is more hops away than there are nodes: a ball that does not grow has
\* everything that can be reached, and one that grows gains a node with every hop.
LEMMA BallEndsGrowing ==
  ASSUME NEW g, IsGraph(g), NEW source \in Ends(g)
  PROVE  LET N == Cardinality(Ends(g)) IN
         /\ N \in Nat /\ \A k \in 0 .. N : Ball(g, source, k) \subseteq Ends(g)
         /\ \A j, k \in 0 .. N : j <= k => Ball(g, source, j) \subseteq Ball(g, source, k)
         /\ Wider(g, Ball(g, source, N)) = Ball(g, source, N)
<1> DEFINE N == Cardinality(Ends(g))
           B(k) == Ball(g, source, k)
<1>1. N \in Nat /\ IsFiniteSet(Ends(g))
  BY FS_CardinalityType DEF IsGraph
<1>2. B(0) = {source} /\ \A k \in Nat : B(k + 1) = Wider(g, B(k))
  BY BallGrows
<1>3. \A s : s \subseteq Ends(g) => s \subseteq Wider(g, s) /\ Wider(g, s) \subseteq Ends(g)
  BY DEF Wider, Ends
<1> HIDE DEF N, B
<1>4. ASSUME NEW i \in 1 .. N PROVE B(i) = Wider(g, B(i - 1))
  <2>1. i - 1 \in Nat /\ (i - 1) + 1 = i
    OBVIOUS
  <2> QED BY <1>2, <2>1
<1> DEFINE Within == {i \in 0 .. N : B(i) \subseteq Ends(g)}
<1>5. \A i \in 0 .. N : i \in Within
  <2>1. 0 \in Within
    BY <1>1, <1>2
  <2>2. ASSUME NEW i \in 1 .. N, i - 1 \in Within PROVE i \in Within
    BY <1>3, <1>4, <2>2
  <2> HIDE DEF Within
  <2> QED BY <1>1, <2>1, <2>2, FirstFailure
<1> DEFINE Grown == {i \in 0 .. N : \/ Wider(g, B(i)) = B(i)
                                    \/ Cardinality(B(i)) >= i + 1}
<1>6. ASSUME NEW i \in 0 .. N PROVE IsFiniteSet(B(i)) /\ Cardinality(B(i)) \in Nat
  BY <1>1, <1>5, FS_Subset, FS_CardinalityType
<1>7. \A i \in 0 .. N : i \in Grown
  <2>1. 0 \in Grown
    <3>1. B(0) = {source} /\ Cardinality(B(0)) = 1
      BY <1>2, FS_Singleton
    <3> HIDE DEF B
    <3>2. 0 \in 0 .. N /\ Cardinality(B(0)) >= 0 + 1
      BY <1>1, <3>1
    <3> QED BY <3>2
  <2>2. ASSUME NEW i \in 1 .. N, i - 1 \in Grown PROVE i \in Grown
    <3>0. i - 1 \in 0 .. N /\ i \in 0 .. N
      BY <1>1
    <3>1. CASE B(i) = B(i - 1)
      <4>1. Wider(g, B(i)) = B(i)
        BY <1>4, <3>1
      <4> QED BY <3>0, <4>1
    <3>2. CASE B(i) # B(i - 1)
      <4>1. B(i - 1) \subseteq B(i)
        BY <1>3, <1>4, <1>5, <3>0
      <4>2. Wider(g, B(i - 1)) # B(i - 1)
        BY <1>4, <3>2
      <4>3. Cardinality(B(i - 1)) >= (i - 1) + 1
        BY <2>2, <4>2
      <4>4. Cardinality(B(i - 1)) <= Cardinality(B(i)) /\ Cardinality(B(i - 1)) # Cardinality(B(i))
        BY <1>6, <3>0, <3>2, <4>1, FS_Subset
      <4> QED BY <1>6, <3>0, <4>3, <4>4
    <3> QED BY <3>1, <3>2
  <2> HIDE DEF Grown
  <2> QED BY <1>1, <2>1, <2>2, FirstFailure
<1>8. Wider(g, B(N)) = B(N)
  <2>1. N \in Grown /\ N \in Within
    BY <1>1, <1>5, <1>7
  <2>2. Cardinality(B(N)) <= N
    BY <1>1, <2>1, FS_Subset DEF N
  <2> QED BY <1>1, <1>6, <2>1, <2>2
<1>9. ASSUME NEW j \in 0 .. N PROVE \A k \in 0 .. N : j <= k => B(j) \subseteq B(k)
  <2> DEFINE Above == {k \in 0 .. N : j <= k => B(j) \subseteq B(k)}
  <2>1. 0 \in Above
    <3>1. j <= 0 => j = 0
      OBVIOUS
    <3> QED BY <1>1, <3>1
  <2>2. ASSUME NEW k \in 1 .. N, k - 1 \in Above PROVE k \in Above
    <3>1. k \in 0 .. N /\ k - 1 \in 0 .. N /\ (j <= k => j <= k - 1 \/ j = k)
      BY <1>1
    <3>2. B(k - 1) \subseteq B(k)
      BY <1>3, <1>4, <1>5, <3>1
    <3> QED BY <2>2, <3>1, <3>2
  <2> HIDE DEF Above
  <2>3. \A k \in 0 .. N : k \in Above
    BY <1>1, <2>1, <2>2, FirstFailure
  <2> QED BY <2>3 DEF Above
<1> QED BY <1>1, <1>5, <1>8, <1>9 DEF N, B

\* The level of a node is the least radius of a ball that has it.
LEMMA LevelsExist ==
  ASSUME NEW g, IsGraph(g), NEW source \in Ends(g)
  PROVE  LET N == Cardinality(Ends(g))
             reach == Ball(g, source, N)
         IN  \E level : /\ IsLevel(g, source, reach, level)
                        /\ \A m \in reach : level[m] <= N
                        /\ \A m \in reach, k \in 0 .. N :
                             m \in Ball(g, source, k) <=> level[m] <= k
<1> DEFINE N == Cardinality(Ends(g))
           B(k) == Ball(g, source, k)
           reach == B(N)
           Radii(m) == {k \in 0 .. N : m \in B(k)}
           level == [m \in reach |-> Min(Radii(m))]
<1>1. /\ N \in Nat /\ \A k \in 0 .. N : B(k) \subseteq Ends(g)
      /\ \A j, k \in 0 .. N : j <= k => B(j) \subseteq B(k)
      /\ Wider(g, B(N)) = B(N)
  BY BallEndsGrowing
<1>2. B(0) = {source} /\ \A k \in Nat : B(k + 1) = Wider(g, B(k))
  BY BallGrows
<1>3. \A k \in Nat : B(k + 1) = B(k) \cup UNION {Neighbors(g, n) : n \in B(k)}
  BY <1>2, WiderByNeighbors
<1>4. \A m \in B(N) : Neighbors(g, m) \subseteq B(N)
  BY <1>1, WiderByNeighbors
<1> HIDE DEF N, B
<1>5. ASSUME NEW m \in reach
      PROVE  /\ level[m] \in 0 .. N /\ m \in B(level[m])
             /\ \A k \in 0 .. N : m \in B(k) => level[m] <= k
  <2>1. N \in Radii(m) /\ Radii(m) \subseteq Nat
    BY <1>1
  <2>2. Min(Radii(m)) \in Radii(m) /\ \A k \in Radii(m) : Min(Radii(m)) <= k
    <3> HIDE DEF Radii
    <3> QED BY <2>1, MinExists
  <2>3. level[m] = Min(Radii(m))
    OBVIOUS
  <2> HIDE DEF level
  <2> QED BY <2>2, <2>3
<1> HIDE DEF level, reach
<1>6. ASSUME NEW m \in reach, NEW k \in 0 .. N PROVE m \in B(k) <=> level[m] <= k
  BY <1>1, <1>5
<1>7. source \in reach /\ reach \subseteq Ends(g)
  BY <1>1, <1>2 DEF reach
<1>8. level \in [reach -> Nat]
  <2>1. \A m \in reach : level[m] \in Nat
    BY <1>1, <1>5
  <2>2. level = [m \in reach |-> level[m]]
    BY DEF level
  <2> QED BY <2>1, <2>2
<1>9. ASSUME NEW m \in reach PROVE level[m] = 0 <=> m = source
  <2>1. 0 \in 0 .. N
    BY <1>1
  <2>2. m \in B(0) <=> level[m] <= 0
    BY <1>6, <2>1
  <2> QED BY <1>2, <1>5, <2>2
<1>10. ASSUME NEW m \in reach, NEW n \in Neighbors(g, m)
       PROVE  n \in reach /\ level[n] <= level[m] + 1
  <2>1. n \in reach
    BY <1>4 DEF reach
  <2>2. CASE level[m] = N
    BY <1>1, <1>5, <2>1, <2>2
  <2>3. CASE level[m] # N
    <3>1. level[m] + 1 \in 0 .. N /\ level[m] \in Nat
      BY <1>1, <1>5, <2>3
    <3>2. n \in B(level[m] + 1)
      BY <1>3, <1>5, <3>1
    <3> QED BY <1>5, <2>1, <3>1, <3>2
  <2> QED BY <2>1, <2>2, <2>3
<1>11. ASSUME NEW m \in reach \ {source}
       PROVE  \E n \in reach : m \in Neighbors(g, n) /\ level[m] = level[n] + 1
  <2>1. level[m] \in 1 .. N /\ level[m] \in 0 .. N
    BY <1>1, <1>5, <1>9
  <2> DEFINE k == level[m] - 1
  <2>2. k \in 0 .. N /\ k \in Nat /\ k + 1 = level[m] /\ ~(level[m] <= k)
    BY <1>1, <2>1
  <2> HIDE DEF k
  <2>3. m \in B(k + 1) /\ m \notin B(k)
    BY <1>5, <1>6, <2>2
  <2>4. PICK n \in B(k) : m \in Neighbors(g, n)
    BY <1>3, <2>2, <2>3
  <2>5. n \in reach /\ level[n] <= k
    <3>1. N \in 0 .. N /\ k <= N
      BY <1>1, <2>2
    <3>2. n \in reach
      BY <1>1, <2>2, <2>4, <3>1 DEF reach
    <3> QED BY <1>5, <2>2, <2>4, <3>2
  <2>6. level[m] <= level[n] + 1
    BY <1>10, <2>4, <2>5
  <2>7. level[n] \in Nat
    BY <1>8, <2>5
  <2>8. level[m] = level[n] + 1
    BY <2>2, <2>5, <2>6, <2>7
  <2> QED BY <2>4, <2>5, <2>8
<1>12. IsLevel(g, source, reach, level)
  BY <1>7, <1>8, <1>9, <1>10, <1>11 DEF IsLevel
<1>13. \A m \in reach : level[m] <= N
  BY <1>1, <1>5
<1> QED BY <1>6, <1>12, <1>13 DEF N, B, reach

----------------------------------------------------------------------------
(* The search *)

OnceEach(queue) == \A i, j \in DOMAIN queue : queue[i] = queue[j] => i = j

\* The head leaves a queue and others join it.
LEMMA QueueMoves ==
  ASSUME NEW S, NEW queue \in Seq(S), queue # << >>, NEW next \in Seq(S)
  PROVE  LET moved == Tail(queue) \o next IN
         /\ Head(queue) = queue[1] /\ queue[1] \in S /\ Len(queue) \in Nat \ {0}
         /\ moved \in Seq(S) /\ DOMAIN moved = 1 .. (Len(queue) - 1 + Len(next))
         /\ \A i \in 1 .. (Len(queue) - 1) : moved[i] = queue[i + 1]
         /\ \A i \in Len(queue) .. (Len(queue) - 1 + Len(next)) :
              moved[i] = next[i - Len(queue) + 1] /\ i - Len(queue) + 1 \in DOMAIN next
<1> DEFINE moved == Tail(queue) \o next
<1>1. Len(queue) \in Nat \ {0} /\ Len(next) \in Nat
  OBVIOUS
<1>2. Tail(queue) \in Seq(S) /\ Len(Tail(queue)) = Len(queue) - 1
  OBVIOUS
<1>3. \A i \in 1 .. (Len(queue) - 1) : Tail(queue)[i] = queue[i + 1]
  OBVIOUS
<1>4. moved \in Seq(S) /\ Len(moved) = Len(queue) - 1 + Len(next)
  BY <1>2
<1>5. \A i \in 1 .. (Len(queue) - 1) : moved[i] = Tail(queue)[i]
  BY <1>1, <1>2
<1>6. \A i \in Len(queue) .. (Len(queue) - 1 + Len(next)) :
        moved[i] = next[i - Len(queue) + 1] /\ i - Len(queue) + 1 \in DOMAIN next
  <2> SUFFICES ASSUME NEW i \in Len(queue) .. (Len(queue) - 1 + Len(next))
               PROVE  /\ moved[i] = next[i - Len(queue) + 1]
                      /\ i - Len(queue) + 1 \in DOMAIN next
    OBVIOUS
  <2>1. i - Len(queue) + 1 = i - (Len(queue) - 1) /\ i - Len(queue) + 1 \in 1 .. Len(next)
    BY <1>1
  <2>2. moved[i] = next[i - Len(Tail(queue))]
    BY <1>1, <1>2
  <2> QED BY <1>1, <1>2, <2>1, <2>2
<1>7. Head(queue) = queue[1] /\ queue[1] \in S
  OBVIOUS
<1> QED BY <1>1, <1>3, <1>4, <1>5, <1>6, <1>7

\* A queue whose elements are distinct has them all but the head afterwards, and those
\* that joined it, which are distinct again.
LEMMA QueueDistinct ==
  ASSUME NEW S, NEW queue \in Seq(S), queue # << >>, NEW next \in Seq(S),
         OnceEach(queue), OnceEach(next), Range(queue) \cap Range(next) = {}
  PROVE  /\ OnceEach(Tail(queue) \o next)
         /\ Range(Tail(queue) \o next) = (Range(queue) \ {Head(queue)}) \cup Range(next)
<1> DEFINE n == Len(queue)
           a == Len(next)
           moved == Tail(queue) \o next
<1>1. /\ Head(queue) = queue[1] /\ n \in Nat \ {0} /\ a \in Nat
      /\ DOMAIN queue = 1 .. n /\ DOMAIN next = 1 .. a /\ DOMAIN moved = 1 .. (n - 1 + a)
      /\ \A i \in 1 .. (n - 1) : moved[i] = queue[i + 1]
      /\ \A i \in n .. (n - 1 + a) : moved[i] = next[i - n + 1] /\ i - n + 1 \in DOMAIN next
  BY QueueMoves
<1> HIDE DEF n, a, moved
<1>2. ASSUME NEW i \in DOMAIN moved
      PROVE  \/ i \in 1 .. (n - 1) /\ i + 1 \in DOMAIN queue /\ i + 1 # 1
             \/ i \in n .. (n - 1 + a)
  BY <1>1
<1>3. OnceEach(moved)
  <2> SUFFICES ASSUME NEW i \in DOMAIN moved, NEW j \in DOMAIN moved, moved[i] = moved[j]
               PROVE  i = j
    BY DEF OnceEach
  <2>1. CASE i \in 1 .. (n - 1) /\ j \in 1 .. (n - 1)
    <3>1. i + 1 \in DOMAIN queue /\ j + 1 \in DOMAIN queue /\ queue[i + 1] = queue[j + 1]
      BY <1>1, <2>1
    <3>2. i + 1 = j + 1
      BY <3>1 DEF OnceEach
    <3> QED BY <2>1, <3>2
  <2>2. CASE i \in n .. (n - 1 + a) /\ j \in n .. (n - 1 + a)
    <3>1. /\ i - n + 1 \in DOMAIN next /\ j - n + 1 \in DOMAIN next
          /\ next[i - n + 1] = next[j - n + 1]
      BY <1>1, <2>2
    <3>2. i - n + 1 = j - n + 1
      BY <3>1 DEF OnceEach
    <3> QED BY <1>1, <2>2, <3>2
  <2>3. ASSUME NEW k \in 1 .. (n - 1), NEW l \in n .. (n - 1 + a), moved[k] = moved[l] PROVE FALSE
    <3>1. k + 1 \in DOMAIN queue /\ moved[k] = queue[k + 1]
      BY <1>1
    <3>2. l - n + 1 \in DOMAIN next /\ moved[l] = next[l - n + 1]
      BY <1>1
    <3> QED BY <2>3, <3>1, <3>2 DEF Range
  <2> QED BY <1>2, <2>1, <2>2, <2>3
<1>4. ASSUME NEW i \in DOMAIN moved
      PROVE  moved[i] \in (Range(queue) \ {Head(queue)}) \cup Range(next)
  <2>1. CASE i \in 1 .. (n - 1)
    <3>1. i + 1 \in DOMAIN queue /\ 1 \in DOMAIN queue /\ i + 1 # 1 /\ moved[i] = queue[i + 1]
      BY <1>1, <2>1
    <3>2. queue[i + 1] # queue[1]
      BY <3>1 DEF OnceEach
    <3> QED BY <1>1, <3>1, <3>2 DEF Range
  <2>2. CASE i \in n .. (n - 1 + a)
    <3>1. i - n + 1 \in DOMAIN next /\ moved[i] = next[i - n + 1]
      BY <1>1, <2>2
    <3> QED BY <3>1 DEF Range
  <2> QED BY <1>2, <2>1, <2>2
<1>5. ASSUME NEW x \in Range(queue), x # Head(queue) PROVE x \in Range(moved)
  <2>1. PICK i \in DOMAIN queue : x = queue[i]
    BY DEF Range
  <2>2. i # 1
    BY <1>1, <1>5, <2>1
  <2>3. i - 1 \in 1 .. (n - 1) /\ (i - 1) + 1 = i /\ i - 1 \in DOMAIN moved
    BY <1>1, <2>2
  <2>4. moved[i - 1] = x
    BY <1>1, <2>1, <2>3
  <2> QED BY <2>3, <2>4 DEF Range
<1>6. ASSUME NEW x \in Range(next) PROVE x \in Range(moved)
  <2>1. PICK i \in DOMAIN next : x = next[i]
    BY DEF Range
  <2>2. i + n - 1 \in n .. (n - 1 + a) /\ (i + n - 1) - n + 1 = i /\ i + n - 1 \in DOMAIN moved
    BY <1>1
  <2>3. moved[i + n - 1] = x
    BY <1>1, <2>1, <2>2
  <2> QED BY <2>2, <2>3 DEF Range
<1>7. Range(moved) = (Range(queue) \ {Head(queue)}) \cup Range(next)
  <2>1. \A x \in Range(moved) : \E i \in DOMAIN moved : x = moved[i]
    BY DEF Range
  <2> QED BY <1>4, <1>5, <1>6, <2>1
<1> QED BY <1>3, <1>7 DEF moved

\* The queue is in the order of the levels, of which it has two at most.
InOrder(level, queue) ==
  \A i, j \in DOMAIN queue :
    i <= j => level[queue[i]] <= level[queue[j]] /\ level[queue[j]] <= level[queue[1]] + 1

\* It stays so when the head leaves and nodes of the level after its own join.
LEMMA QueueInOrder ==
  ASSUME NEW S, NEW level \in [S -> Nat], NEW queue \in Seq(S), queue # << >>, NEW next \in Seq(S),
         InOrder(level, queue), \A x \in Range(next) : level[x] = level[Head(queue)] + 1
  PROVE  LET moved == Tail(queue) \o next IN
         /\ InOrder(level, moved)
         /\ \A i \in DOMAIN moved : \/ level[moved[i]] = level[Head(queue)]
                                    \/ level[moved[i]] = level[Head(queue)] + 1
<1> DEFINE n == Len(queue)
           a == Len(next)
           k == level[queue[1]]
           moved == Tail(queue) \o next
<1>1. /\ Head(queue) = queue[1] /\ n \in Nat \ {0} /\ a \in Nat /\ queue[1] \in S
      /\ DOMAIN queue = 1 .. n /\ DOMAIN next = 1 .. a /\ DOMAIN moved = 1 .. (n - 1 + a)
      /\ \A i \in 1 .. (n - 1) : moved[i] = queue[i + 1]
      /\ \A i \in n .. (n - 1 + a) : moved[i] = next[i - n + 1] /\ i - n + 1 \in DOMAIN next
  BY QueueMoves
<1>2. \A i \in DOMAIN queue : queue[i] \in S
  BY <1>1
<1> HIDE DEF n, a, moved
<1>3. ASSUME NEW i \in DOMAIN queue
      PROVE  level[queue[i]] \in Nat /\ k <= level[queue[i]] /\ level[queue[i]] <= k + 1
  <2>1. 1 \in DOMAIN queue /\ 1 <= i
    BY <1>1
  <2> QED BY <1>2, <2>1 DEF InOrder
<1>4. ASSUME NEW i \in 1 .. (n - 1)
      PROVE  level[moved[i]] = level[queue[i + 1]] /\ i + 1 \in DOMAIN queue
  BY <1>1
<1>5. ASSUME NEW i \in n .. (n - 1 + a) PROVE level[moved[i]] = k + 1
  <2>1. moved[i] \in Range(next)
    BY <1>1 DEF Range
  <2> QED BY <1>1, <2>1
<1>6. k \in Nat
  BY <1>1
<1> HIDE DEF k
<1>7. ASSUME NEW i \in DOMAIN moved
      PROVE  level[moved[i]] = k \/ level[moved[i]] = k + 1
  <2>1. i \in 1 .. (n - 1) \/ i \in n .. (n - 1 + a)
    BY <1>1
  <2>2. CASE i \in 1 .. (n - 1)
    BY <1>3, <1>4, <1>6, <2>2
  <2> QED BY <1>5, <2>1, <2>2
<1>8. ASSUME NEW i \in DOMAIN moved, NEW j \in DOMAIN moved, i <= j
      PROVE  level[moved[i]] <= level[moved[j]] /\ level[moved[j]] <= level[moved[1]] + 1
  <2>1. 1 \in DOMAIN moved
    BY <1>1
  <2>2. level[moved[j]] <= level[moved[1]] + 1
    BY <1>6, <1>7, <2>1
  <2>3. CASE j \in n .. (n - 1 + a)
    <3>1. level[moved[j]] = k + 1
      BY <1>5, <2>3
    <3>2. level[moved[i]] = k \/ level[moved[i]] = k + 1
      BY <1>7
    <3> QED BY <1>6, <2>2, <3>1, <3>2
  <2>4. CASE j \in 1 .. (n - 1)
    <3>1. i \in 1 .. (n - 1) /\ i + 1 \in DOMAIN queue /\ j + 1 \in DOMAIN queue /\ i + 1 <= j + 1
      BY <1>1, <1>8, <2>4
    <3>2. level[queue[i + 1]] <= level[queue[j + 1]]
      BY <3>1 DEF InOrder
    <3> QED BY <1>4, <2>2, <2>4, <3>1, <3>2
  <2>5. j \in 1 .. (n - 1) \/ j \in n .. (n - 1 + a)
    BY <1>1
  <2> QED BY <2>3, <2>4, <2>5
<1> QED BY <1>1, <1>7, <1>8 DEF InOrder, moved, k

Searches(reach) ==
  {s \in [queue : Seq(reach), parent : UNION {[D -> D] : D \in SUBSET reach}] :
     OnceEach(s.queue) /\ Range(s.queue) \subseteq DOMAIN s.parent}

\* The nodes that have left the queue.
Visited(s) == DOMAIN s.parent \ Range(s.queue)

\* What holds between two rounds: a node was discovered from one a level before, the
\* neighbors of what was visited are discovered, and so is all up to the level of the
\* head.
SearchOK(g, source, reach, level, s) ==
  /\ source \in DOMAIN s.parent
  /\ \A m \in DOMAIN s.parent \ {source} :
       m \in Neighbors(g, s.parent[m]) /\ level[m] = level[s.parent[m]] + 1
  /\ InOrder(level, s.queue)
  /\ \A v \in Visited(s) : Neighbors(g, v) \subseteq DOMAIN s.parent
  /\ s.queue # << >> =>
       \A m \in reach : level[m] <= level[Head(s.queue)] => m \in DOMAIN s.parent

\* The queue and what was discovered, after a visit.
LEMMA VisitMoves ==
  ASSUME NEW g, IsGraph(g), NEW source, NEW reach, NEW level, IsLevel(g, source, reach, level),
         NEW s \in Searches(reach), s.queue # << >>
  PROVE  LET curr == Head(s.queue)
             new == Neighbors(g, curr) \ DOMAIN s.parent
             next == Listed(new)
             t == Visit(g, s)
         IN  /\ curr \in Range(s.queue) /\ new \subseteq reach
             /\ next \in Seq(reach) /\ OnceEach(next) /\ Range(next) = new
             /\ t.queue = Tail(s.queue) \o next /\ t.queue \in Seq(reach)
             /\ DOMAIN t.parent = DOMAIN s.parent \cup new
             /\ \A m \in DOMAIN s.parent : t.parent[m] = s.parent[m]
             /\ \A m \in new : t.parent[m] = curr
             /\ t \in Searches(reach)
             /\ Visited(t) = Visited(s) \cup {curr} /\ curr \notin Visited(s)
<1> DEFINE D == DOMAIN s.parent
           curr == Head(s.queue)
           new == Neighbors(g, curr) \ D
           next == Listed(new)
           t == Visit(g, s)
<1>1. /\ s.queue \in Seq(reach) /\ D \subseteq reach /\ s.parent \in [D -> D]
      /\ OnceEach(s.queue) /\ Range(s.queue) \subseteq D
  BY DEF Searches
<1>2. curr \in reach /\ curr \in Range(s.queue)
  BY <1>1 DEF Range
<1>3. Neighbors(g, curr) \subseteq reach /\ reach \subseteq Ends(g)
  BY <1>2 DEF IsLevel
<1>4. new \subseteq reach /\ IsFiniteSet(new)
  BY <1>3, FS_Subset DEF IsGraph
<1>5. next \in Seq(new) /\ Range(next) = new /\ OnceEach(next)
  <2> HIDE DEF new
  <2> QED BY <1>4, ListedOnce DEF OnceEach
<1>6. next \in Seq(reach)
  BY <1>4, <1>5
<1>7. /\ t.queue = Tail(s.queue) \o next
      /\ t.parent = [n \in D \cup Range(next) |-> IF n \in D THEN s.parent[n] ELSE curr]
      /\ t = [queue |-> t.queue, parent |-> t.parent]
  BY DEF Visit
<1> HIDE DEF next, t
<1>8. t.queue \in Seq(reach)
  BY <1>1, <1>6, <1>7, QueueMoves
<1>9. /\ DOMAIN t.parent = D \cup new
      /\ \A m \in D : t.parent[m] = s.parent[m]
      /\ \A m \in new : t.parent[m] = curr
  BY <1>5, <1>7
<1>10. Range(s.queue) \cap Range(next) = {}
  BY <1>1, <1>5
<1>11. /\ OnceEach(t.queue)
       /\ Range(t.queue) = (Range(s.queue) \ {curr}) \cup Range(next)
  <2> DEFINE q == s.queue
  <2>1. q \in Seq(reach) /\ q # << >> /\ OnceEach(q) /\ Range(q) \cap Range(next) = {}
    BY <1>1, <1>10
  <2> HIDE DEF q, new
  <2>2. /\ OnceEach(Tail(q) \o next)
        /\ Range(Tail(q) \o next) = (Range(q) \ {Head(q)}) \cup Range(next)
    BY <1>5, <1>6, <2>1, QueueDistinct
  <2> QED BY <1>7, <2>2 DEF q
<1>12. t.parent \in [D \cup new -> D \cup new]
  <2>1. \A m \in D \cup new : t.parent[m] \in D \cup new
    BY <1>1, <1>2, <1>9
  <2>2. t.parent = [m \in D \cup new |-> t.parent[m]]
    <3> HIDE DEF new
    <3> QED BY <1>5, <1>7
  <2> HIDE DEF new
  <2> QED BY <2>1, <2>2
<1>13. t \in Searches(reach)
  <2>1. D \cup new \in SUBSET reach
    BY <1>1, <1>4
  <2>2. t.parent \in UNION {[E -> E] : E \in SUBSET reach}
    <3> HIDE DEF new
    <3> QED BY <1>12, <2>1
  <2>3. t \in [queue : Seq(reach), parent : UNION {[E -> E] : E \in SUBSET reach}]
    BY <1>7, <1>8, <2>2
  <2>4. Range(t.queue) \subseteq DOMAIN t.parent
    BY <1>1, <1>5, <1>9, <1>11
  <2> QED BY <1>11, <2>3, <2>4 DEF Searches
<1>14. Visited(t) = Visited(s) \cup {curr} /\ curr \notin Visited(s)
  BY <1>1, <1>2, <1>5, <1>9, <1>11 DEF Visited
<1> QED BY <1>2, <1>4, <1>5, <1>6, <1>7, <1>8, <1>9, <1>13, <1>14 DEF next, t

\* A visit keeps what holds between two rounds.
LEMMA VisitKeeps ==
  ASSUME NEW g, IsGraph(g), NEW source, NEW reach, NEW level, IsLevel(g, source, reach, level),
         NEW s \in Searches(reach), s.queue # << >>, SearchOK(g, source, reach, level, s)
  PROVE  SearchOK(g, source, reach, level, Visit(g, s))
<1> DEFINE D == DOMAIN s.parent
           curr == Head(s.queue)
           new == Neighbors(g, curr) \ D
           next == Listed(new)
           t == Visit(g, s)
           k == level[curr]
<1>1. /\ curr \in Range(s.queue) /\ new \subseteq reach
      /\ next \in Seq(reach) /\ Range(next) = new
      /\ t.queue = Tail(s.queue) \o next /\ t.queue \in Seq(reach)
      /\ DOMAIN t.parent = D \cup new
      /\ \A m \in D : t.parent[m] = s.parent[m]
      /\ \A m \in new : t.parent[m] = curr
      /\ Visited(t) = Visited(s) \cup {curr}
  BY VisitMoves
<1>2. /\ s.queue \in Seq(reach) /\ D \subseteq reach /\ s.parent \in [D -> D]
      /\ Range(s.queue) \subseteq D
  BY DEF Searches
<1>3. level \in [reach -> Nat] /\ curr \in reach /\ k \in Nat
  BY <1>1, <1>2 DEF IsLevel
<1>4. ASSUME NEW m \in new PROVE level[m] = k + 1
  <2>1. m \in reach /\ level[m] <= k + 1
    BY <1>3 DEF IsLevel
  <2>2. ~(level[m] <= k)
    BY <2>1 DEF SearchOK
  <2> QED BY <1>3, <2>1, <2>2
<1> HIDE DEF next, t, new, k
<1>5. source \in DOMAIN t.parent
  BY <1>1 DEF SearchOK
<1>6. ASSUME NEW m \in DOMAIN t.parent \ {source}
      PROVE  m \in Neighbors(g, t.parent[m]) /\ level[m] = level[t.parent[m]] + 1
  <2>1. CASE m \in D
    BY <1>1, <1>6, <2>1 DEF SearchOK
  <2>2. CASE m \in new
    BY <1>1, <1>4, <2>2 DEF new, k
  <2> QED BY <1>1, <2>1, <2>2
<1>7. /\ InOrder(level, t.queue)
      /\ \A i \in DOMAIN t.queue : level[t.queue[i]] = k \/ level[t.queue[i]] = k + 1
  <2>1. InOrder(level, s.queue)
    BY DEF SearchOK
  <2>2. \A x \in Range(next) : level[x] = level[Head(s.queue)] + 1
    BY <1>1, <1>4 DEF k
  <2> DEFINE q == s.queue
  <2>3. q \in Seq(reach) /\ q # << >> /\ InOrder(level, q) /\ level[Head(q)] = k
    BY <1>2, <2>1 DEF k
  <2>4. \A x \in Range(next) : level[x] = level[Head(q)] + 1
    BY <2>2
  <2>5. t.queue = Tail(q) \o next
    BY <1>1
  <2> HIDE DEF q
  <2>6. LET moved == Tail(q) \o next IN
        /\ InOrder(level, moved)
        /\ \A i \in DOMAIN moved : \/ level[moved[i]] = level[Head(q)]
                                   \/ level[moved[i]] = level[Head(q)] + 1
    <3>1. next \in Seq(reach) /\ level \in [reach -> Nat]
      BY <1>1, <1>3
    <3>2. q \in Seq(reach) /\ q # << >> /\ InOrder(level, q)
      BY <2>3
    <3> QED BY <2>4, <3>1, <3>2, QueueInOrder
  <2> HIDE DEF InOrder
  <2> QED BY <2>3, <2>5, <2>6
<1>8. ASSUME NEW v \in Visited(t) PROVE Neighbors(g, v) \subseteq DOMAIN t.parent
  <2>1. CASE v \in Visited(s)
    BY <1>1, <2>1 DEF SearchOK
  <2>2. CASE v = curr
    BY <1>1, <2>2 DEF new
  <2> QED BY <1>1, <2>1, <2>2
<1>9. ASSUME NEW m \in reach, level[m] <= k PROVE m \in DOMAIN t.parent
  <2>1. m \in D
    BY <1>9 DEF SearchOK, k
  <2> QED BY <1>1, <2>1
<1>10. ASSUME t.queue # << >>, NEW m \in reach, level[m] <= level[Head(t.queue)]
       PROVE  m \in DOMAIN t.parent
  <2>1. 1 \in DOMAIN t.queue /\ Head(t.queue) = t.queue[1]
    BY <1>1, <1>10
  <2>2. CASE level[t.queue[1]] = k
    BY <1>9, <1>10, <2>1, <2>2
  <2>3. CASE level[t.queue[1]] = k + 1
    <3>1. level[m] \in Nat /\ level[m] <= k + 1
      BY <1>3, <1>10, <2>1, <2>3
    <3>2. CASE level[m] # k + 1
      BY <1>3, <1>9, <3>1, <3>2
    <3>3. CASE level[m] = k + 1
      <4>1. m # source
        BY <1>3, <3>3 DEF IsLevel
      <4>2. PICK n \in reach : m \in Neighbors(g, n) /\ level[m] = level[n] + 1
        BY <4>1 DEF IsLevel
      <4>3. level[n] = k
        BY <1>3, <3>3, <4>2
      <4>4. n \in DOMAIN t.parent
        BY <1>3, <1>9, <4>3
      <4>5. n \notin Range(t.queue)
        <5>1. ASSUME NEW i \in DOMAIN t.queue PROVE level[t.queue[i]] # k
          <6>1. level[t.queue[1]] <= level[t.queue[i]]
            <7>1. 1 <= i
              BY <1>1
            <7> QED BY <1>7, <2>1, <7>1 DEF InOrder
          <6> QED BY <1>3, <1>7, <2>3, <6>1
        <5> QED BY <4>3, <5>1 DEF Range
      <4>6. n \in Visited(t)
        BY <4>4, <4>5 DEF Visited
      <4> QED BY <1>8, <4>2, <4>6
    <3> QED BY <3>2, <3>3
  <2> QED BY <1>7, <2>1, <2>2, <2>3
<1> QED BY <1>5, <1>6, <1>7, <1>8, <1>10 DEF SearchOK, t

\* The search begins with the source.
LEMMA SearchBegins ==
  ASSUME NEW g, NEW source, NEW reach, NEW level, IsLevel(g, source, reach, level),
         NEW start, start = [queue |-> <<source>>, parent |-> [n \in {source} |-> source]]
  PROVE  start \in Searches(reach) /\ SearchOK(g, source, reach, level, start)
<1>1. source \in reach /\ level \in [reach -> Nat] /\ level[source] = 0
  BY DEF IsLevel
<1>2. /\ start.queue = <<source>> /\ DOMAIN start.parent = {source}
      /\ start.parent \in [{source} -> {source}]
  OBVIOUS
<1>3. start.queue \in Seq(reach) /\ DOMAIN start.queue = {1} /\ start.queue[1] = source
  BY <1>1, <1>2
<1>4. OnceEach(start.queue) /\ Range(start.queue) = {source}
  BY <1>3 DEF OnceEach, Range
<1>5. start \in Searches(reach)
  <2>1. {source} \in SUBSET reach
    BY <1>1
  <2>2. start.parent \in UNION {[D -> D] : D \in SUBSET reach}
    BY <1>2, <2>1
  <2>3. start \in [queue : Seq(reach), parent : UNION {[D -> D] : D \in SUBSET reach}]
    BY <1>3, <2>2
  <2> QED BY <1>2, <1>4, <2>3 DEF Searches
<1>6. Visited(start) = {} /\ DOMAIN start.parent \ {source} = {}
  BY <1>2, <1>4 DEF Visited
<1>7. InOrder(level, start.queue)
  BY <1>1, <1>3 DEF InOrder
<1>8. ASSUME NEW m \in reach, level[m] <= level[Head(start.queue)] PROVE m \in DOMAIN start.parent
  <2>1. Head(start.queue) = source
    BY <1>2
  <2>2. level[m] = 0
    BY <1>1, <1>8, <2>1
  <2> QED BY <1>2, <2>2 DEF IsLevel
<1> QED BY <1>2, <1>5, <1>6, <1>7, <1>8 DEF SearchOK

\* When no node is left to be visited, everything that can be reached is discovered.
LEMMA AllDiscovered ==
  ASSUME NEW g, NEW source, NEW reach, NEW level, IsLevel(g, source, reach, level),
         NEW s \in Searches(reach), SearchOK(g, source, reach, level, s), s.queue = << >>
  PROVE  reach \subseteq DOMAIN s.parent
<1> DEFINE Sound == {k \in Nat : \A m \in reach : level[m] = k => m \in DOMAIN s.parent}
<1>1. Visited(s) = DOMAIN s.parent
  BY DEF Visited, Range
<1>2. level \in [reach -> Nat]
  BY DEF IsLevel
<1>3. 0 \in Sound
  BY DEF IsLevel, SearchOK
<1>4. ASSUME NEW k \in Nat \ {0}, k - 1 \in Sound PROVE k \in Sound
  <2> SUFFICES ASSUME NEW m \in reach, level[m] = k PROVE m \in DOMAIN s.parent
    OBVIOUS
  <2>1. m # source
    BY DEF IsLevel
  <2>2. PICK n \in reach : m \in Neighbors(g, n) /\ level[m] = level[n] + 1
    BY <2>1 DEF IsLevel
  <2>3. level[n] = k - 1
    BY <1>2, <2>2
  <2>4. n \in DOMAIN s.parent
    BY <1>4, <2>3
  <2> QED BY <1>1, <2>2, <2>4 DEF SearchOK
<1>5. ASSUME NEW m \in reach PROVE m \in DOMAIN s.parent
  <2>1. level[m] \in Nat /\ \A k \in 1 .. level[m] : k \in Nat \ {0}
    BY <1>2
  <2>2. \A k \in 1 .. level[m] : k - 1 \in Sound => k \in Sound
    BY <1>4, <2>1
  <2>3. level[m] \in Sound
    <3> HIDE DEF Sound
    <3>1. \A k \in 0 .. level[m] : k \in Sound
      BY <1>3, <2>1, <2>2, FirstFailure
    <3> QED BY <2>1, <3>1
  <2> QED BY <2>3
<1> QED BY <1>5

\* The search stops after as many rounds as there are nodes, since every round visits
\* another one: it has found a target or all that can be reached, and it knows the
\* node a level before from which it discovered each.
LEMMA SearchFinds ==
  ASSUME NEW g, IsGraph(g), NEW source, NEW reach, NEW level,
         IsLevel(g, source, reach, level), NEW targets
  PROVE  LET parent == Search(g, source, targets)
             D == DOMAIN parent
         IN  /\ D \subseteq reach /\ source \in D /\ parent \in [D -> D]
             /\ \A m \in D \ {source} :
                  m \in Neighbors(g, parent[m]) /\ level[m] = level[parent[m]] + 1
             /\ reach \subseteq D \/ \E n \in targets : n \in D
<1> DEFINE N == Cardinality(Ends(g))
           start == [queue |-> <<source>>, parent |-> [n \in {source} |-> source]]
           Stopped(s) == s.queue = << >> \/ Head(s.queue) \in targets
           Round(s) == IF Stopped(s) THEN s ELSE Visit(g, s)
           Run(h) == h = [i \in 0 .. N |-> IF i = 0 THEN start ELSE Round(h[i - 1])]
           after == CHOOSE h : Run(h)
           Far(i, s) == /\ SearchOK(g, source, reach, level, s)
                        /\ Stopped(s) \/ Cardinality(Visited(s)) >= i
           Sound == {x \in (0 .. N) \X Searches(reach) : Far(x[1], x[2])}
           R == {<<i, s, Round(s)>> : i \in 1 .. N, s \in Searches(reach)}
<1>1. N \in Nat /\ IsFiniteSet(Ends(g))
  BY FS_CardinalityType DEF IsGraph
<1>2. Search(g, source, targets) = after[N].parent
  BY DEF Search
<1> HIDE DEF N
<1>3. \A i \in 0 .. N : \A s \in Searches(reach) : <<i, s>> \in Sound <=> Far(i, s)
  <2> HIDE DEF Far
  <2> QED OBVIOUS
<1>4. ASSUME NEW s \in Searches(reach)
      PROVE  /\ DOMAIN s.parent \subseteq reach /\ Range(s.queue) \subseteq DOMAIN s.parent
             /\ Visited(s) \subseteq Ends(g) /\ IsFiniteSet(Visited(s))
             /\ Cardinality(Visited(s)) \in Nat /\ Cardinality(Visited(s)) <= N
             /\ Cardinality(Visited(s)) = N => Visited(s) = Ends(g)
  <2>1. DOMAIN s.parent \subseteq reach /\ Range(s.queue) \subseteq DOMAIN s.parent
    BY DEF Searches
  <2>2. Visited(s) \subseteq Ends(g)
    BY <2>1 DEF Visited, IsLevel
  <2> QED BY <1>1, <2>1, <2>2, FS_Subset, FS_CardinalityType DEF N
<1>5. ASSUME NEW i \in 1 .. N, NEW s, <<i - 1, s>> \in Sound
      PROVE  <<i, Round(s)>> \in Sound /\ <<i, s, Round(s)>> \in R
  <2>0. i \in 0 .. N /\ i - 1 \in 0 .. N
    BY <1>1
  <2>1. s \in Searches(reach) /\ Far(i - 1, s)
    <3> HIDE DEF Far
    <3>1. s \in Searches(reach)
      BY <1>5
    <3> QED BY <1>3, <1>5, <2>0, <3>1
  <2>2. CASE Stopped(s)
    <3>1. Round(s) = s /\ Far(i, s)
      BY <2>1, <2>2
    <3> HIDE DEF Far, Round, Sound
    <3> QED BY <1>3, <2>0, <2>1, <3>1
  <2>3. CASE ~Stopped(s)
    <3>1. Round(s) = Visit(g, s)
      BY <2>3
    <3>2. SearchOK(g, source, reach, level, s) /\ s.queue # << >>
      BY <2>1, <2>3
    <3>3. /\ Visit(g, s) \in Searches(reach)
          /\ Visited(Visit(g, s)) = Visited(s) \cup {Head(s.queue)}
          /\ Head(s.queue) \notin Visited(s)
      BY <2>1, <3>2, VisitMoves
    <3>4. SearchOK(g, source, reach, level, Visit(g, s))
      BY <2>1, <3>2, VisitKeeps
    <3>5. Cardinality(Visited(s)) >= i - 1
      BY <2>1, <2>3
    <3>6. Cardinality(Visited(Visit(g, s))) = Cardinality(Visited(s)) + 1
      BY <1>4, <2>1, <3>3, FS_AddElement
    <3>7. Cardinality(Visited(Visit(g, s))) >= i
      BY <1>1, <1>4, <2>1, <3>5, <3>6
    <3>8. Far(i, Visit(g, s))
      BY <3>4, <3>7
    <3> HIDE DEF Far, Round, Sound
    <3> QED BY <1>3, <2>0, <2>1, <3>1, <3>3, <3>8
  <2> QED BY <2>2, <2>3
<1>6. start \in Searches(reach) /\ SearchOK(g, source, reach, level, start)
  BY SearchBegins
<1>7. <<0, start>> \in Sound
  <2>1. 0 \in 0 .. N /\ Cardinality(Visited(start)) >= 0
    BY <1>1, <1>4, <1>6
  <2>2. Far(0, start)
    BY <1>6, <2>1
  <2> HIDE DEF Far, Sound, start
  <2> QED BY <1>3, <1>6, <2>1, <2>2
<1>8. \A i, s, t : <<i, s, t>> \in R => t = Round(s)
  <2> HIDE DEF Round
  <2> QED OBVIOUS
<1> HIDE DEF Sound, R, Round, start
<1>9. \E h : Run(h)
  <2>1. \A i \in 1 .. N : \A s : <<i - 1, s>> \in Sound =>
          \E t : <<i, t>> \in Sound /\ <<i, s, t>> \in R
    BY <1>5
  <2>2. PICK h : /\ h = [i \in 0 .. N |-> h[i]] /\ h[0] = start
                 /\ \A i \in 1 .. N : <<i, h[i - 1], h[i]>> \in R
    BY <1>1, <1>7, <2>1, Iterates
  <2>3. ASSUME NEW i \in 0 .. N PROVE h[i] = IF i = 0 THEN start ELSE Round(h[i - 1])
    <3>1. CASE i = 0
      BY <2>2, <3>1
    <3>2. CASE i # 0
      <4>1. i \in 1 .. N
        BY <1>1, <3>2
      <4> QED BY <1>8, <2>2, <3>2, <4>1
    <3> QED BY <3>1, <3>2
  <2>4. Run(h)
    BY <2>2, <2>3
  <2> QED BY <2>4
<1>10. Run(after)
  <2> HIDE DEF Run
  <2> QED BY <1>9
<1> HIDE DEF after
<1>11. after[0] = start /\ \A i \in 1 .. N : after[i] = Round(after[i - 1])
  BY <1>1, <1>10
<1> DEFINE Fine == {i \in 0 .. N : <<i, after[i]>> \in Sound}
<1>12. \A i \in 0 .. N : i \in Fine
  <2>1. 0 \in Fine
    BY <1>1, <1>7, <1>11
  <2>2. ASSUME NEW i \in 1 .. N, i - 1 \in Fine PROVE i \in Fine
    <3>0. <<i - 1, after[i - 1]>> \in Sound
      BY <2>2
    <3>1. <<i, Round(after[i - 1])>> \in Sound
      BY <1>5, <3>0
    <3>2. i \in 0 .. N
      BY <1>1
    <3> QED BY <1>11, <3>1, <3>2
  <2> HIDE DEF Fine
  <2> QED BY <1>1, <2>1, <2>2, FirstFailure
<1> DEFINE s == after[N]
           D == DOMAIN s.parent
<1>13. s \in Searches(reach) /\ Far(N, s)
  <2>1. N \in 0 .. N /\ <<N, s>> \in Sound
    BY <1>1, <1>12
  <2>2. s \in Searches(reach)
    BY <2>1 DEF Sound
  <2> HIDE DEF Far, s
  <2> QED BY <1>3, <2>1, <2>2
<1> HIDE DEF s
<1>14. Stopped(s)
  <2> SUFFICES ASSUME ~Stopped(s) PROVE FALSE
    OBVIOUS
  <2>1. Visited(s) = Ends(g)
    BY <1>1, <1>4, <1>13
  <2>2. s.queue \in Seq(reach) /\ s.queue # << >>
    BY <1>13 DEF Searches
  <2>3. Head(s.queue) \in Range(s.queue) /\ Head(s.queue) \in reach
    BY <2>2 DEF Range
  <2> QED BY <2>1, <2>3 DEF Visited, IsLevel
<1>15. reach \subseteq D \/ \E n \in targets : n \in D
  <2>1. CASE s.queue = << >>
    BY <1>13, <2>1, AllDiscovered
  <2>2. CASE s.queue # << >> /\ Head(s.queue) \in targets
    <3>1. s.queue \in Seq(reach) /\ Range(s.queue) \subseteq D
      BY <1>13 DEF Searches
    <3>2. Head(s.queue) \in Range(s.queue)
      BY <2>2, <3>1 DEF Range
    <3> QED BY <2>2, <3>1, <3>2
  <2> QED BY <1>14, <2>1, <2>2
<1>16. D \subseteq reach /\ s.parent \in [D -> D]
  BY <1>13 DEF Searches
<1>17. source \in D /\ \A m \in D \ {source} :
                         m \in Neighbors(g, s.parent[m]) /\ level[m] = level[s.parent[m]] + 1
  BY <1>13 DEF SearchOK
<1> QED BY <1>2, <1>15, <1>16, <1>17 DEF s

----------------------------------------------------------------------------
(* Paths *)

\* A path is put together hop by hop from the target, each node one level before the
\* next, until it is at the source.
LEMMA PathLeadsBack ==
  ASSUME NEW g, IsGraph(g), NEW source, NEW reach, NEW level,
         IsLevel(g, source, reach, level),
         NEW parent, parent \in [DOMAIN parent -> DOMAIN parent],
         DOMAIN parent \subseteq reach, NEW target \in DOMAIN parent,
         \A m \in DOMAIN parent \ {source} :
           m \in Neighbors(g, parent[m]) /\ level[m] = level[parent[m]] + 1,
         \A m \in reach : level[m] <= Cardinality(Ends(g))
  PROVE  LET path == PathBack(g, parent, source, target) IN
         /\ path \in Seq(DOMAIN parent) /\ Len(path) = level[target] + 1
         /\ path[1] = source /\ path[Len(path)] = target
         /\ \A i \in 1 .. (Len(path) - 1) : path[i + 1] \in Neighbors(g, path[i])
<1> DEFINE N == Cardinality(Ends(g))
           D == DOMAIN parent
           Longer(p) == IF Head(p) = source THEN p ELSE <<parent[Head(p)]>> \o p
           Run(h) == h = [i \in 0 .. N |-> IF i = 0 THEN <<target>> ELSE Longer(h[i - 1])]
           back == CHOOSE h : Run(h)
           Joined(p) == \A i \in 1 .. (Len(p) - 1) : p[i + 1] \in Neighbors(g, p[i])
           Leads(i, p) == /\ p # << >> /\ p[Len(p)] = target /\ Joined(p)
                          /\ level[target] + 1 = level[p[1]] + Len(p)
                          /\ p[1] = source \/ Len(p) = i + 1
           Sound == {x \in (0 .. N) \X Seq(D) : Leads(x[1], x[2])}
           R == {<<i, p, Longer(p)>> : i \in 1 .. N, p \in Seq(D)}
<1>1. N \in Nat
  BY FS_CardinalityType DEF IsGraph
<1>2. PathBack(g, parent, source, target) = back[N]
  BY DEF PathBack
<1>3. /\ level \in [reach -> Nat] /\ D \subseteq reach
      /\ \A m \in reach : level[m] = 0 <=> m = source
      /\ \A m \in reach : level[m] <= N
  BY DEF IsLevel
<1> HIDE DEF N
<1>4. \A i \in 0 .. N : \A p \in Seq(D) : <<i, p>> \in Sound <=> Leads(i, p)
  <2> HIDE DEF Leads
  <2> QED OBVIOUS
<1>5. ASSUME NEW i \in 1 .. N, NEW p, <<i - 1, p>> \in Sound
      PROVE  <<i, Longer(p)>> \in Sound /\ <<i, p, Longer(p)>> \in R
  <2>0. i \in 0 .. N /\ i - 1 \in 0 .. N
    BY <1>1
  <2>1. p \in Seq(D)
    BY <1>5
  <2>2. Leads(i - 1, p)
    <3> HIDE DEF Leads, Sound
    <3> QED BY <1>4, <1>5, <2>0, <2>1
  <2>3. /\ p # << >> /\ p[Len(p)] = target /\ Joined(p)
        /\ level[target] + 1 = level[p[1]] + Len(p)
        /\ p[1] = source \/ Len(p) = i
    BY <2>2, <2>0
  <2>4. Head(p) = p[1] /\ p[1] \in D /\ Len(p) \in Nat \ {0}
    BY <2>1, <2>3
  <2>5. CASE p[1] = source
    <3>1. Longer(p) = p /\ Leads(i, p)
      BY <2>3, <2>4, <2>5
    <3> HIDE DEF Leads, Longer, Sound
    <3> QED BY <1>4, <2>0, <2>1, <3>1
  <2>6. CASE p[1] # source
    <3> DEFINE from == parent[p[1]]
               q == <<from>> \o p
    <3>1. from \in D /\ p[1] \in Neighbors(g, from) /\ level[p[1]] = level[from] + 1
      BY <2>4, <2>6
    <3>2. Longer(p) = q
      BY <2>4, <2>6
    <3> HIDE DEF from
    <3>3. /\ q \in Seq(D) /\ Len(q) = Len(p) + 1 /\ q[1] = from
          /\ \A j \in 1 .. Len(p) : q[j + 1] = p[j]
      BY <2>1, <3>1
    <3>4. q # << >> /\ q[Len(q)] = target
      BY <2>3, <2>4, <3>3
    <3> HIDE DEF q
    <3>5. Joined(q)
      <4> SUFFICES ASSUME NEW j \in 1 .. (Len(q) - 1) PROVE q[j + 1] \in Neighbors(g, q[j])
        OBVIOUS
      <4>1. j \in 1 .. Len(p)
        BY <2>4, <3>3
      <4>2. CASE j = 1
        BY <3>1, <3>3, <4>1, <4>2
      <4>3. CASE j # 1
        <5>1. j - 1 \in 1 .. (Len(p) - 1) /\ (j - 1) + 1 = j /\ j - 1 \in 1 .. Len(p)
          BY <2>4, <4>1, <4>3
        <5>2. q[j + 1] = p[j] /\ q[j] = p[j - 1]
          BY <3>3, <4>1, <5>1
        <5>3. p[(j - 1) + 1] \in Neighbors(g, p[j - 1])
          BY <2>3, <5>1
        <5> QED BY <5>1, <5>2, <5>3
      <4> QED BY <4>2, <4>3
    <3>6. level[target] + 1 = level[q[1]] + Len(q)
      <4>1. level[from] \in Nat /\ level[target] \in Nat
        BY <1>3, <3>1
      <4>2. level[target] + 1 = (level[from] + 1) + Len(p)
        BY <2>3, <3>1
      <4> QED BY <2>4, <3>3, <4>1, <4>2
    <3>7. Len(q) = i + 1
      BY <2>3, <2>4, <2>6, <3>3
    <3>8. Leads(i, q)
      BY <3>4, <3>5, <3>6, <3>7
    <3> HIDE DEF Leads, Longer, Sound
    <3> QED BY <1>4, <2>0, <2>1, <3>2, <3>3, <3>8
  <2> HIDE DEF Leads, Longer, Sound, R
  <2> QED BY <2>5, <2>6
<1>6. <<0, <<target>>>> \in Sound
  <2>1. /\ <<target>> \in Seq(D) /\ <<target>> # << >> /\ Len(<<target>>) = 1
        /\ <<target>>[1] = target /\ 0 \in 0 .. N
    BY <1>1
  <2>2. Leads(0, <<target>>)
    BY <1>3, <2>1
  <2> HIDE DEF Leads, Sound
  <2> QED BY <1>4, <2>1, <2>2
<1>7. \A i, p, q : <<i, p, q>> \in R => q = Longer(p)
  <2> HIDE DEF Longer
  <2> QED OBVIOUS
<1> HIDE DEF Sound, R, Longer
<1>8. \E h : Run(h)
  <2>1. \A i \in 1 .. N : \A p : <<i - 1, p>> \in Sound =>
          \E q : <<i, q>> \in Sound /\ <<i, p, q>> \in R
    BY <1>5
  <2>2. PICK h : /\ h = [i \in 0 .. N |-> h[i]] /\ h[0] = <<target>>
                 /\ \A i \in 1 .. N : <<i, h[i - 1], h[i]>> \in R
    BY <1>1, <1>6, <2>1, Iterates
  <2>3. ASSUME NEW i \in 0 .. N PROVE h[i] = IF i = 0 THEN <<target>> ELSE Longer(h[i - 1])
    <3>1. CASE i = 0
      BY <2>2, <3>1
    <3>2. CASE i # 0
      <4>1. i \in 1 .. N
        BY <1>1, <3>2
      <4> QED BY <1>7, <2>2, <3>2, <4>1
    <3> QED BY <3>1, <3>2
  <2>4. Run(h)
    BY <2>2, <2>3
  <2> QED BY <2>4
<1>9. Run(back)
  <2> HIDE DEF Run
  <2> QED BY <1>8
<1> HIDE DEF back
<1>10. back[0] = <<target>> /\ \A i \in 1 .. N : back[i] = Longer(back[i - 1])
  BY <1>1, <1>9
<1> DEFINE Fine == {i \in 0 .. N : <<i, back[i]>> \in Sound}
<1>11. \A i \in 0 .. N : i \in Fine
  <2>1. 0 \in Fine
    BY <1>1, <1>6, <1>10
  <2>2. ASSUME NEW i \in 1 .. N, i - 1 \in Fine PROVE i \in Fine
    <3>0. <<i - 1, back[i - 1]>> \in Sound
      BY <2>2
    <3>1. <<i, Longer(back[i - 1])>> \in Sound
      BY <1>5, <3>0
    <3>2. i \in 0 .. N
      BY <1>1
    <3> QED BY <1>10, <3>1, <3>2
  <2> HIDE DEF Fine
  <2> QED BY <1>1, <2>1, <2>2, FirstFailure
<1> DEFINE path == back[N]
<1>12. path \in Seq(D) /\ Leads(N, path)
  <2>1. N \in 0 .. N /\ <<N, path>> \in Sound
    BY <1>1, <1>11
  <2>2. path \in Seq(D)
    BY <2>1 DEF Sound
  <2> HIDE DEF Leads, path
  <2> QED BY <1>4, <2>1, <2>2
<1> HIDE DEF path
<1>13. path[1] \in D /\ Len(path) \in Nat \ {0}
  BY <1>12
<1>14. level[path[1]] \in Nat /\ level[target] \in Nat /\ level[target] <= N
  BY <1>3, <1>13
<1>15. path[1] = source
  <2>1. CASE Len(path) = N + 1
    <3>1. level[path[1]] = 0
      BY <1>1, <1>12, <1>14, <2>1
    <3> QED BY <1>3, <1>13, <3>1
  <2> QED BY <1>12, <2>1
<1>16. Len(path) = level[target] + 1
  <2>1. level[path[1]] = 0
    BY <1>3, <1>13, <1>15
  <2> QED BY <1>12, <1>13, <1>14, <2>1
<1> QED BY <1>2, <1>12, <1>15, <1>16 DEF path

\* A path is found exactly when there is one.
LEMMA PathFound ==
  ASSUME NEW g, IsGraph(g), NEW source \in g.nodes, NEW target \in g.nodes
  PROVE  LET reach == Ball(g, source, Cardinality(Ends(g)))
             path == ShortestPath(g, source, target)
         IN  IF target \notin reach THEN path = << >>
             ELSE \E level :
               /\ IsLevel(g, source, reach, level) /\ level[target] <= Cardinality(Ends(g))
               /\ \A k \in 0 .. Cardinality(Ends(g)) :
                    target \in Ball(g, source, k) <=> level[target] <= k
               /\ path \in Seq(reach) /\ Len(path) = level[target] + 1
               /\ path[1] = source /\ path[Len(path)] = target
               /\ \A i \in 1 .. (Len(path) - 1) : path[i + 1] \in Neighbors(g, path[i])
<1> DEFINE N == Cardinality(Ends(g))
           reach == Ball(g, source, N)
           parent == Search(g, source, {target})
           path == PathBack(g, parent, source, target)
<1>1. source \in Ends(g)
  BY DEF Ends
<1>2. PICK level : /\ IsLevel(g, source, reach, level)
                   /\ \A m \in reach : level[m] <= N
                   /\ \A m \in reach, k \in 0 .. N : m \in Ball(g, source, k) <=> level[m] <= k
  BY <1>1, LevelsExist
<1>3. /\ DOMAIN parent \subseteq reach /\ source \in DOMAIN parent
      /\ parent \in [DOMAIN parent -> DOMAIN parent]
      /\ \A m \in DOMAIN parent \ {source} :
           m \in Neighbors(g, parent[m]) /\ level[m] = level[parent[m]] + 1
      /\ reach \subseteq DOMAIN parent \/ target \in DOMAIN parent
  BY <1>2, SearchFinds
<1>4. target \in reach <=> target \in DOMAIN parent
  BY <1>3
<1>5. ShortestPath(g, source, target) = IF target \in DOMAIN parent THEN path ELSE << >>
  BY DEF ShortestPath
<1> HIDE DEF parent
<1>6. CASE target \notin reach
  BY <1>4, <1>5, <1>6
<1>7. CASE target \in reach
  <2>1. /\ path \in Seq(DOMAIN parent) /\ Len(path) = level[target] + 1
        /\ path[1] = source /\ path[Len(path)] = target
        /\ \A i \in 1 .. (Len(path) - 1) : path[i + 1] \in Neighbors(g, path[i])
    <3> HIDE DEF reach
    <3> QED BY <1>2, <1>3, <1>4, <1>7, PathLeadsBack
  <2>2. path \in Seq(reach)
    <3> HIDE DEF path, reach
    <3> QED BY <1>3, <2>1
  <2> HIDE DEF path
  <2>3. ShortestPath(g, source, target) = path
    BY <1>4, <1>5, <1>7
  <2> QED BY <1>2, <1>7, <2>1, <2>2, <2>3
<1> QED BY <1>6, <1>7

\* Between any two nodes of any finite graph, "graph path" finds a path of existing edges
\* from the one to the other, none exactly when there is none, and no path has fewer hops.
THEOREM ShortestPathFound ==
  ASSUME NEW g, IsGraph(g), NEW source \in g.nodes, NEW target \in g.nodes
  PROVE  IsShortestPath(g, source, target, DetailedPath(g, source, target))
<1> DEFINE N == Cardinality(Ends(g))
           reach == Ball(g, source, N)
           found == ShortestPath(g, source, target)
           path == DetailedPath(g, source, target)
<1>1. /\ path.ids = found
      /\ path.hops = [i \in 1 .. (Len(found) - 1) |->
                        {<<found[i], found[i + 1]>>, <<found[i + 1], found[i]>>} \cap g.edges]
  BY DEF DetailedPath
<1>2. CASE target \notin reach
  BY <1>1, <1>2, PathFound DEF IsShortestPath
<1>3. CASE target \in reach
  <2>1. PICK level :
          /\ IsLevel(g, source, reach, level) /\ level[target] <= N
          /\ \A k \in 0 .. N : target \in Ball(g, source, k) <=> level[target] <= k
          /\ found \in Seq(reach) /\ Len(found) = level[target] + 1
          /\ found[1] = source /\ found[Len(found)] = target
          /\ \A i \in 1 .. (Len(found) - 1) : found[i + 1] \in Neighbors(g, found[i])
    BY <1>3, PathFound
  <2> HIDE DEF found, path
  <2>2. level[target] \in Nat /\ N \in Nat
    BY <1>3, <2>1, FS_CardinalityType DEF IsLevel, IsGraph
  <2>3. found # << >>
    BY <2>1, <2>2
  <2>4. ASSUME NEW i \in DOMAIN path.hops PROVE path.hops[i] # {}
    <3>1. i \in 1 .. (Len(found) - 1) /\ found[i + 1] \in Neighbors(g, found[i])
      BY <1>1, <2>1
    <3>2. PICK e \in g.edges : \/ e[1] = found[i + 1] /\ e[2] = found[i]
                               \/ e[1] = found[i] /\ e[2] = found[i + 1]
      BY <3>1, NeighborsMutual
    <3>3. e = <<e[1], e[2]>>
      BY DEF IsGraph
    <3> QED BY <1>1, <3>1, <3>2, <3>3
  <2>5. ASSUME path.hops # << >> PROVE target \notin Ball(g, source, Len(path.hops) - 1)
    <3>1. Len(path.hops) = level[target]
      BY <1>1, <2>1, <2>2
    <3>2. level[target] # 0
      BY <1>1, <2>1, <2>2, <2>5
    <3>3. level[target] - 1 \in 0 .. N /\ ~(level[target] <= level[target] - 1)
      BY <2>1, <2>2, <3>2
    <3> QED BY <2>1, <3>1, <3>3
  <2> QED BY <1>1, <2>1, <2>3, <2>4, <2>5 DEF IsShortestPath, path
<1> QED BY <1>2, <1>3

\* The values that a function takes on a finite set are no more than its elements.
LEMMA ImageFinite ==
  ASSUME NEW S, IsFiniteSet(S), NEW f
  PROVE  IsFiniteSet({f[x] : x \in S}) /\ Cardinality({f[x] : x \in S}) <= Cardinality(S)
<1> DEFINE T == {f[x] : x \in S}
           g == [x \in S |-> f[x]]
<1>1. g \in Surjection(S, T)
  BY DEF Surjection
<1> HIDE DEF g, T
<1>2. IsFiniteSet(T) /\ Cardinality(T) <= Cardinality(S)
  BY <1>1, FS_Surjection
<1> QED BY <1>2 DEF T

\* A set has as many elements as an image of it that tells them apart.
LEMMA ImageCount ==
  ASSUME NEW S, IsFiniteSet(S), NEW f, DOMAIN f = S,
         \A x, y \in S : f[x] = f[y] => x = y
  PROVE  Cardinality({f[x] : x \in S}) = Cardinality(S)
<1> DEFINE T == {f[x] : x \in S}
           g == [x \in S |-> f[x]]
<1>1. g \in Bijection(S, T)
  BY DEF Bijection, Injection, Surjection, IsInjective
<1>2. ExistsBijection(S, T)
  BY <1>1 DEF ExistsBijection
<1> QED BY <1>2, FS_Bijection

----------------------------------------------------------------------------
(* Components *)

\* The nodes that can be reached over any number of hops.
Reach(g, n) == Ball(g, n, Cardinality(Ends(g)))

\* What is reached from a node is closed under neighbors.
LEMMA ReachCloses ==
  ASSUME NEW g, IsGraph(g), NEW n \in Ends(g)
  PROVE  /\ n \in Reach(g, n) /\ Reach(g, n) \subseteq Ends(g)
         /\ \A m \in Reach(g, n) : Neighbors(g, m) \subseteq Reach(g, n)
<1>1. PICK level : IsLevel(g, n, Reach(g, n), level)
  BY LevelsExist DEF Reach
<1> QED BY <1>1 DEF IsLevel

\* No hop leads out of a set that has the neighbors of its nodes.
LEMMA ReachWithin ==
  ASSUME NEW g, IsGraph(g), NEW X, NEW n \in X, \A m \in X : Neighbors(g, m) \subseteq X
  PROVE  Reach(g, n) \subseteq X
<1> DEFINE N == Cardinality(Ends(g))
           Sound == {k \in Nat : Ball(g, n, k) \subseteq X}
<1>1. N \in Nat
  BY FS_CardinalityType DEF IsGraph
<1> HIDE DEF N
<1>2. 0 \in Sound
  BY BallGrows
<1>3. ASSUME NEW k \in 1 .. N, k - 1 \in Sound PROVE k \in Sound
  <2>1. k \in Nat /\ k - 1 \in Nat /\ (k - 1) + 1 = k
    OBVIOUS
  <2>2. Ball(g, n, k) = Wider(g, Ball(g, n, k - 1))
    <3>1. \A j \in Nat : Ball(g, n, j + 1) = Wider(g, Ball(g, n, j))
      BY BallGrows
    <3> DEFINE j == k - 1
    <3>2. j \in Nat /\ j + 1 = k
      BY <2>1
    <3> HIDE DEF j
    <3>3. Ball(g, n, k) = Wider(g, Ball(g, n, j))
      BY <3>1, <3>2
    <3> QED BY <3>3 DEF j
  <2>3. Ball(g, n, k) = Ball(g, n, k - 1) \cup UNION {Neighbors(g, m) : m \in Ball(g, n, k - 1)}
    BY <2>2, WiderByNeighbors
  <2> QED BY <1>3, <2>1, <2>3
<1> HIDE DEF Sound
<1>4. \A k \in 0 .. N : k \in Sound
  BY <1>1, <1>2, <1>3, FirstFailure
<1> QED BY <1>1, <1>4 DEF Sound, N, Reach

\* What reaches a common node reaches the same nodes, since every hop leads back.
LEMMA ReachMutual ==
  ASSUME NEW g, IsGraph(g), NEW n \in Ends(g), NEW m \in Reach(g, n)
  PROVE  Reach(g, m) = Reach(g, n)
<1>1. /\ m \in Ends(g) /\ n \in Reach(g, n)
      /\ \A x \in Reach(g, n) : Neighbors(g, x) \subseteq Reach(g, n)
  BY ReachCloses
<1>2. m \in Reach(g, m) /\ \A x \in Reach(g, m) : Neighbors(g, x) \subseteq Reach(g, m)
  BY <1>1, ReachCloses
<1>3. Reach(g, m) \subseteq Reach(g, n)
  BY <1>1, ReachWithin
<1>4. n \in Reach(g, m)
  <2> SUFFICES ASSUME n \notin Reach(g, m) PROVE FALSE
    OBVIOUS
  <2> DEFINE X == Reach(g, n) \ Reach(g, m)
  <2>1. ASSUME NEW x \in X PROVE Neighbors(g, x) \subseteq X
    <3>1. ASSUME NEW y \in Neighbors(g, x) PROVE x \in Neighbors(g, y)
      BY <3>1, NeighborsMutual
    <3> QED BY <1>1, <1>2, <3>1
  <2>2. n \in X
    BY <1>1
  <2>3. Reach(g, n) \subseteq X
    <3> HIDE DEF X
    <3> QED BY <2>1, <2>2, ReachWithin
  <2> QED BY <1>2, <2>3
<1>5. Reach(g, n) \subseteq Reach(g, m)
  BY <1>2, <1>4, ReachWithin
<1> QED BY <1>3, <1>5

\* The search for a component, which looks for no target, visits what is reached.
LEMMA ComponentIsReach ==
  ASSUME NEW g, IsGraph(g), NEW n \in Ends(g)
  PROVE  Component(g, n) = Reach(g, n)
<1>1. PICK level : IsLevel(g, n, Reach(g, n), level)
  BY LevelsExist DEF Reach
<1>2. /\ DOMAIN Search(g, n, {}) \subseteq Reach(g, n)
      /\ Reach(g, n) \subseteq DOMAIN Search(g, n, {}) \/ \E m \in {} : m \in DOMAIN Search(g, n, {})
  BY <1>1, SearchFinds
<1> QED BY <1>2 DEF Component

\* The components have every node, and each is what one of the nodes can reach.
THEOREM ComponentsFound ==
  ASSUME NEW g, IsGraph(g)
  PROVE  /\ \A c \in ConnectedComponents(g) : \E n \in g.nodes : c = Reach(g, n)
         /\ g.nodes \subseteq UNION ConnectedComponents(g)
         /\ \A c, d \in ConnectedComponents(g) : c = d \/ c \cap d = {}
<1> DEFINE nodes == Listed(g.nodes)
           N == Len(nodes)
           Add(i, earlier) == IF nodes[i] \in UNION earlier THEN earlier
                              ELSE earlier \cup {Component(g, nodes[i])}
           Run(h) == h = [i \in 0 .. N |-> IF i = 0 THEN {} ELSE Add(i, h[i - 1])]
           found == CHOOSE h : Run(h)
           All == {Reach(g, n) : n \in g.nodes}
           Sound == {x \in (0 .. N) \X SUBSET All : \A j \in 1 .. x[1] : nodes[j] \in UNION x[2]}
           R == {<<i, cs, Add(i, cs)>> : i \in 1 .. N, cs \in SUBSET All}
<1>1. g.nodes \subseteq Ends(g) /\ IsFiniteSet(g.nodes)
  BY FS_Subset DEF Ends, IsGraph
<1>2. N \in Nat /\ Range(nodes) = g.nodes /\ DOMAIN nodes = 1 .. N
  BY <1>1, ListedOnce
<1>3. ConnectedComponents(g) = found[N]
  BY DEF ConnectedComponents
<1> HIDE DEF nodes, N
<1>4. \A i \in 1 .. N : nodes[i] \in g.nodes
  BY <1>2 DEF Range
<1>5. ASSUME NEW i \in 1 .. N, NEW cs, <<i - 1, cs>> \in Sound
      PROVE  <<i, Add(i, cs)>> \in Sound /\ <<i, cs, Add(i, cs)>> \in R
  <2>1. cs \in SUBSET All /\ \A j \in 1 .. (i - 1) : nodes[j] \in UNION cs
    BY <1>5
  <2>2. /\ Component(g, nodes[i]) = Reach(g, nodes[i]) /\ nodes[i] \in Reach(g, nodes[i])
        /\ Reach(g, nodes[i]) \in All
    BY <1>1, <1>4, ComponentIsReach, ReachCloses
  <2>3. Add(i, cs) \in SUBSET All /\ cs \subseteq Add(i, cs) /\ nodes[i] \in UNION Add(i, cs)
    BY <2>1, <2>2
  <2>4. \A j \in 1 .. i : j \in 1 .. (i - 1) \/ j = i
    OBVIOUS
  <2>5. i \in 0 .. N
    BY <1>2
  <2> HIDE DEF Add, All
  <2>6. \A j \in 1 .. i : nodes[j] \in UNION Add(i, cs)
    BY <2>1, <2>3, <2>4
  <2> QED BY <2>1, <2>3, <2>5, <2>6
<1>6. <<0, {}>> \in Sound
  BY <1>2
<1>7. \A i, cs, ds : <<i, cs, ds>> \in R => ds = Add(i, cs)
  <2> HIDE DEF Add
  <2> QED OBVIOUS
<1>8. \A cs : <<N, cs>> \in Sound => cs \subseteq All /\ \A j \in 1 .. N : nodes[j] \in UNION cs
  OBVIOUS
<1> HIDE DEF Sound, R, Add
<1>9. \E h : Run(h)
  <2>1. \A i \in 1 .. N : \A cs : <<i - 1, cs>> \in Sound =>
          \E ds : <<i, ds>> \in Sound /\ <<i, cs, ds>> \in R
    BY <1>5
  <2>2. PICK h : /\ h = [i \in 0 .. N |-> h[i]] /\ h[0] = {}
                 /\ \A i \in 1 .. N : <<i, h[i - 1], h[i]>> \in R
    BY <1>2, <1>6, <2>1, Iterates
  <2>3. ASSUME NEW i \in 0 .. N PROVE h[i] = IF i = 0 THEN {} ELSE Add(i, h[i - 1])
    <3>1. CASE i = 0
      BY <2>2, <3>1
    <3>2. CASE i # 0
      <4>1. i \in 1 .. N
        BY <1>2, <3>2
      <4> QED BY <1>7, <2>2, <3>2, <4>1
    <3> QED BY <3>1, <3>2
  <2>4. Run(h)
    BY <2>2, <2>3
  <2> QED BY <2>4
<1>10. Run(found)
  <2> HIDE DEF Run
  <2> QED BY <1>9
<1> HIDE DEF found
<1>11. found[0] = {} /\ \A i \in 1 .. N : found[i] = Add(i, found[i - 1])
  <2>1. \A i \in 0 .. N : found[i] = IF i = 0 THEN {} ELSE Add(i, found[i - 1])
    BY <1>10
  <2>2. 0 \in 0 .. N /\ \A i \in 1 .. N : i \in 0 .. N /\ i # 0
    BY <1>2
  <2> HIDE DEF Run
  <2> QED BY <2>1, <2>2
<1> DEFINE Fine == {i \in 0 .. N : <<i, found[i]>> \in Sound}
<1>12. \A i \in 0 .. N : i \in Fine
  <2>1. 0 \in Fine
    <3>1. 0 \in 0 .. N /\ found[0] = {}
      BY <1>2, <1>11
    <3> QED BY <1>6, <3>1
  <2>2. ASSUME NEW i \in 1 .. N, i - 1 \in Fine PROVE i \in Fine
    <3>0. <<i - 1, found[i - 1]>> \in Sound
      BY <2>2
    <3>1. <<i, Add(i, found[i - 1])>> \in Sound
      BY <1>5, <3>0
    <3>2. i \in 0 .. N
      BY <1>2
    <3> QED BY <1>11, <3>1, <3>2
  <2> HIDE DEF Fine
  <2> QED BY <1>2, <2>1, <2>2, FirstFailure
<1>13. found[N] \subseteq All /\ \A j \in 1 .. N : nodes[j] \in UNION found[N]
  <2>1. <<N, found[N]>> \in Sound
    BY <1>2, <1>12
  <2> QED BY <1>8, <2>1
<1>14. g.nodes \subseteq UNION found[N]
  BY <1>2, <1>13 DEF Range
<1>15. ASSUME NEW c \in All, NEW d \in All PROVE c = d \/ c \cap d = {}
  <2>1. PICK m \in g.nodes, n \in g.nodes : c = Reach(g, m) /\ d = Reach(g, n)
    OBVIOUS
  <2>2. ASSUME NEW x \in c, x \in d PROVE c = d
    BY <1>1, <2>1, <2>2, ReachMutual
  <2> QED BY <2>2
<1>16. \A c \in All : \E n \in g.nodes : c = Reach(g, n)
  OBVIOUS
<1> HIDE DEF All
<1> QED BY <1>3, <1>13, <1>14, <1>15, <1>16

=============================================================================
