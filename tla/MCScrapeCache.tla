---------------------------- MODULE MCScrapeCache ----------------------------
(***************************************************************************)
(* ScrapeCache for TLC.  Between the two files one stream changes its      *)
(* settings under the same id, and another is removed or added.            *)
(***************************************************************************)
EXTENDS ScrapeCache

S(id, ver) == [id |-> id, ver |-> ver, label |-> FALSE, bad |-> FALSE]
File(h, streams) == [hash |-> h, ok |-> TRUE, streams |-> streams]

MCFile0 == File(1, {S("a", 1), S("b", 1)})
MCFiles == {MCFile0, File(2, {S("a", 2)})}
=============================================================================
