---------------------------- MODULE SlidingWindow ----------------------------
(***************************************************************************)
(* What a grouped estimator promises of the series it counts, without      *)
(* mutexes, generations of maps or counters: every series of a group has   *)
(* an age.  A series that arrives has age 0, each rotation of its shard    *)
(* makes it older, and at age 2 it is no longer counted.  A series never   *)
(* becomes younger except by arriving, never skips an age except by a      *)
(* reset, and a new group is only let in while there is room.              *)
(***************************************************************************)
EXTENDS Integers, FiniteSets

CONSTANTS
  Key,       \* groups
  FP,        \* series
  NB,        \* shards: group k belongs to shard k % NB
  MaxGroups  \* groups counted at a time

VARIABLE age  \* age[k][fp]: 0, 1, or 2 for not counted

Shard(b) == {k \in Key : k % NB = b}

\* The groups with a series that is counted.
Visible == {k \in Key : \E fp \in FP : age[k][fp] < 2}

Init == age = [k \in Key |-> [fp \in FP |-> 2]]

\* Series fp arrives in group k.
Count(k, fp) ==
  /\ k \in Visible \/ Cardinality(Visible) < MaxGroups
  /\ age' = [age EXCEPT ![k][fp] = 0]

\* The window of a shard moves on.
Slide(b) ==
  age' = [k \in Key |-> [fp \in FP |->
            IF k \in Shard(b) /\ age[k][fp] < 2 THEN age[k][fp] + 1 ELSE age[k][fp]]]

\* A shard is reset.
Forget(b) ==
  age' = [k \in Key |-> [fp \in FP |-> IF k \in Shard(b) THEN 2 ELSE age[k][fp]]]

Next ==
  \/ \E k \in Key, fp \in FP : Count(k, fp)
  \/ \E b \in 0 .. NB - 1 : Slide(b) \/ Forget(b)

Spec == Init /\ [][Next]_age
=============================================================================
