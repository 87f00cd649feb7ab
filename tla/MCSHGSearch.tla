---------------------------- MODULE MCSHGSearch ----------------------------
(***************************************************************************)
(* Small graphs and vectors for SHGSearch.                                 *)
(***************************************************************************)
EXTENDS SHGSearch

MCPoint == 1 .. 5

\* Three upper levels that thin out, with a ring or a star at the base, and a
\* graph that has a base level only.
MCGraphs ==
  { [level |-> <<3, 2, 1, 0, 0>>, entry |-> 1,
     links |-> << << <<2, 5>>, <<2, 3>>, <<2>>, <<>> >>,
                  << <<1, 3>>, <<1, 3>>, <<1>> >>,
                  << <<2, 4>>, <<2, 1>> >>,
                  << <<3, 5>> >>,
                  << <<4, 1>> >> >>],
    [level |-> <<0, 1, 3, 1, 0>>, entry |-> 3,
     links |-> << << <<3>> >>,
                  << <<3, 1>>, <<4>> >>,
                  << <<5, 4, 2, 1>>, <<4>>, <<>>, <<>> >>,
                  << <<3, 2>>, <<2, 3>> >>,
                  << <<3, 2>> >> >>],
    [level |-> <<0, 0, 0, 0, 0>>, entry |-> 5,
     links |-> << << <<2>> >>, << <<3, 1>> >>, << <<4, 2>> >>,
                  << <<5, 3>> >>, << <<4>> >> >>] }

Permuted(vs) == {[p \in MCPoint |-> vs[f[p]]] :
                   f \in {g \in [MCPoint -> MCPoint] :
                            \A a, b \in MCPoint : a # b => g[a] # g[b]}}

\* d = 8: two compression levels.  Blocks that are constant, for which the
\* lower bound is the distance, some that are not, and two equal distances.
Vectors8 == << <<4, 0, 0, 0, 0, 0, 0, 0>>,
               <<4, 4, 4, 4, 0, 0, 0, 0>>,
               <<4, 4, 4, 4, 4, 4, 4, 4>>,
               <<4, -4, 4, -4, 4, -4, 4, -4>>,
               <<4, 4, 0, 0, 0, 0, 0, 0>> >>

MCData == {<<v, [i \in 1 .. 8 |-> 0]>> : v \in Permuted(Vectors8)}

\* d = 5: the last coordinate is a block of its own.
Vectors5 == << <<0, 0, 0, 0, 4>>, <<4, 2, 0, 0, 0>>, <<4, 4, 4, 4, 0>>,
               <<2, 0, 2, 0, 2>>, <<0, 4, 4, 0, 4>> >>

MCDataOdd == {<<v, [i \in 1 .. 5 |-> 0]>> : v \in Permuted(Vectors5)}

ASSUME WholeBlocks == D % Eta ^ MaxFix = 0 => LowerBoundHolds

\* Not trained; every skip one level; near points skip three, others two.
MCShortcuts == {<<>>, << <<200, 1>> >>, << <<10, 3>>, <<40, 2>> >>}

MCSizes == {<<1, 1>>, <<1, 2>>, <<2, 3>>}
=============================================================================
