--------------------------- MODULE MCClusterScrape ---------------------------
(***************************************************************************)
(* ClusterScrape for TLC.  The answers come from nodes that hold one group *)
(* of stream a or two, that reject groups or not, that have another stream *)
(* without group_by or not, and that differ in minimum, precision, limit   *)
(* and version.                                                            *)
(***************************************************************************)
EXTENDS ClusterScrape, TLC

Sk(p, elems) == [p |-> p, elems |-> elems]
A(id, min, limit, rejected, sketches) ==
  [ ID |-> id, settings |-> "a", CalculateChurn |-> TRUE, MinCardinality |-> min,
    GroupLimit |-> limit, GroupRejectSize |-> rejected, Sketches |-> sketches ]
B == [ID |-> "b", settings |-> "b", CalculateChurn |-> FALSE, MinCardinality |-> 0,
      GroupLimit |-> 0, GroupRejectSize |-> 0, Sketches |-> 0 :> Sk(10, {1})]

MCContents ==
  { << A("a", 2, 2, 0, 1 :> Sk(10, {1, 2})), A("a", 2, 2, 1, 2 :> Sk(10, {1})) >>,
    << A("a", 2, 2, 3, 1 :> Sk(10, {3})), B >>,
    << A("", -1, 4, 0, 1 :> Sk(12, {1})) >> }

\* Nodes are only compared for equality.
Symmetry == Permutations(Node)
=============================================================================
