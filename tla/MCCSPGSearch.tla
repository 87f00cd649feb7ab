---------------------------- MODULE MCCSPGSearch ----------------------------
(* Vectors 0 and 1 are routing vectors, 2 lives in partition 0 and 3 in    *)
(* partition 1.  In each partition every vector has one neighbour or both  *)
(* (to each other vector of the partition there may be an edge).           *)
EXTENDS CSPGSearch

NbrSets(S, g) == {T \in SUBSET (S \ {g}) : T # {}}

\* The neighbour lists over three vectors, in one order each.
Ordered(T) ==
  [j \in 1 .. Cardinality(T) |->
     CHOOSE g \in T : Cardinality({h \in T : h < g}) = j - 1]

PartGraphs(S) ==
  {[g \in S |-> Ordered(f[g])] :
     f \in {f \in [S -> SUBSET S] : \A g \in S : f[g] \in NbrSets(S, g)}}

MCHome == [g \in {2, 3} |-> g - 2]

MCGraphs ==
  {[p \in {0, 1} |-> IF p = 0 THEN a ELSE b] :
     a \in PartGraphs({0, 1, 2}), b \in PartGraphs({0, 1, 3})}

\* Near and far vectors in all roles, with and without ties.
MCDists ==
  {[g \in 0 .. 3 |-> t[g + 1]] :
     t \in {<<3, 2, 1, 1>>, <<2, 2, 3, 1>>, <<1, 3, 2, 2>>, <<3, 1, 2, 1>>}}
=============================================================================
