-------------------------- MODULE MCImiTraversals --------------------------
(***************************************************************************)
(* Every interleaving of the two traversals on 3 x 3 cells: all monotone   *)
(* grids over two distances, where ties are everywhere, and sums of two    *)
(* ascending halves, where they are between rows only.  Two vectors in any *)
(* two cells; a quota of 3 is never reached.                               *)
(***************************************************************************)
EXTENDS ImiTraversals

SumGrids ==
  { [c \in Cells |-> r[c[1]] + k[c[2]]] :
      r \in {<<0, 1, 3>>, <<0, 2, 3>>}, k \in {<<0, 1, 2>>, <<0, 1, 1>>} }

MCGrids == { g \in [Cells -> 0 .. 1] : Monotone(g) } \cup SumGrids
=============================================================================
