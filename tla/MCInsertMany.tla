----------------------------- MODULE MCInsertMany -----------------------------
(***************************************************************************)
(* Instances of InsertMany for TLC, with group_by out of order.  In the    *)
(* order of strings __label__ comes before a.                              *)
(***************************************************************************)
EXTENDS InsertMany

MCAlphabet == <<"__label__", "a", "b">>

\* group_by: [b, a]
Plainly == [group_by |-> <<"b", "a">>, compiledFilter |-> {}]

\* group_by: [b, a], filter: {a!="y"}
Filtered ==
  [group_by |-> <<"b", "a">>,
   compiledFilter |-> {[label |-> "a", accepts |-> {"y"}, isNegative |-> TRUE]}]

\* no group_by, filter: {a!="y"}
Ungrouped == [group_by |-> <<>>, compiledFilter |-> Filtered.compiledFilter]

\* group_by: [a, __label__], and __label__ twice
Labels == [group_by |-> <<"a", "__label__">>, compiledFilter |-> {}]
TwoLabels == [group_by |-> <<"__label__", "a", "__label__">>, compiledFilter |-> {}]

MCStreams == {Filtered, Ungrouped, Labels, TwoLabels}
KeyStreams == {Plainly}
=============================================================================
