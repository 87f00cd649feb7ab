---------------------------- MODULE MCHNSWInsert ----------------------------
(***************************************************************************)
(* Calls of add for HNSWInsert.                                            *)
(***************************************************************************)
EXTENDS HNSWInsert

\* One level, added by both threads; two levels, the upper one added by one
\* thread or, on an empty index, by both; a second add on top of the first
\* one, in the same levels or with one point above it.
MCAdds == { <<<<0, 0, 0>>>>,
            <<<<1, 0, 0>>>>,
            <<<<1, 1, 0>>>>,
            <<<<0, 0>>, <<0, 0>>>>,
            <<<<1, 1, 1>>>>,
            <<<<1>>, <<1, 1>>>>,
            <<<<0>>, <<1, 0, 0>>>> }

\* No add of these but a first one has a shared batch above all points.
ASSUME QuietAssumption == \A c \in MCAdds : Quiet(c)

\* The second add has two points above all others, which are shared.
MCAddsRaise == { <<<<0>>, <<1, 1>>>> }
=============================================================================
