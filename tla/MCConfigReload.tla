---------------------------- MODULE MCConfigReload ----------------------------
(***************************************************************************)
(* Instances of ConfigReload for TLC.  The files cover: a stream added, a  *)
(* stream removed, a stream whose settings change under the same id, a     *)
(* comment edited (new hash, same streams), a stream that newEstimator     *)
(* refuses after others were created, and a file that cannot be parsed.    *)
(***************************************************************************)
EXTENDS ConfigReload

S(id, ver) == [id |-> id, ver |-> ver, label |-> FALSE, bad |-> FALSE]
BadStream  == [id |-> "c", ver |-> 1, label |-> FALSE, bad |-> TRUE]
LabelStream == [id |-> "l", ver |-> 1, label |-> TRUE, bad |-> FALSE]
File(h, streams) == [hash |-> h, ok |-> TRUE, streams |-> streams]

MCFile0 == File(1, {S("a", 1), S("b", 1)})
MCFiles ==
  { MCFile0,
    File(2, {S("a", 1), S("b", 1)}),
    File(3, {S("a", 2), LabelStream}),
    File(4, {S("a", 1)}),
    File(5, {S("b", 2), BadStream}),
    [hash |-> 6, ok |-> FALSE, streams |-> {}] }
=============================================================================
