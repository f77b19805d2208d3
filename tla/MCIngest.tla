------------------------------ MODULE MCIngest ------------------------------
(***************************************************************************)
(* Instances of Ingest for TLC: reloads that add and remove a stream, or a *)
(* stream with __label__.                                                  *)
(***************************************************************************)
EXTENDS Ingest, TLC

S(id, ver) == [id |-> id, ver |-> ver, label |-> FALSE, bad |-> FALSE]
LabelStream == [id |-> "l", ver |-> 1, label |-> TRUE, bad |-> FALSE]
File(h, streams) == [hash |-> h, ok |-> TRUE, streams |-> streams]

MCFile0 == File(1, {S("a", 1)})
MCFiles == {MCFile0, File(2, {S("a", 1), S("b", 1)})}
LabelFiles == {MCFile0, File(3, {S("a", 1), LabelStream})}

\* Instances, filters and requests are only compared for equality.
Symmetry == Permutations(Inst) \cup Permutations(BF) \cup Permutations(Request)
=============================================================================
