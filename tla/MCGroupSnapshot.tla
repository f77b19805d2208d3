--------------------------- MODULE MCGroupSnapshot ---------------------------
(* GroupSnapshot for TLC: group 0 has two series, so that a partial sketch can *)
(* be told from a full one, and group 1 has one.                             *)
EXTENDS GroupSnapshot

CONSTANTS f1, f2

MCFP == {f1, f2}
MCArrivals == {<<0, f1>>, <<0, f2>>, <<1, f1>>}
=============================================================================
