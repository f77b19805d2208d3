-------------------------------- MODULE Churn --------------------------------
(***************************************************************************)
(* Churn entries: churnSnapshots of churn.go, for streams of one interval. *)
(*                                                                         *)
(* Times are ages: how many ticks ago.  A sketch is a record: p is its     *)
(* precision, elems the exact set it estimates; (history) of are the       *)
(* sketches the storage nodes held when it was taken, and taken its age.   *)
(***************************************************************************)
EXTENDS Integers, FiniteSets

CONSTANTS
  Interval,  \* the stream's interval in ticks
  FP         \* fingerprints of series

ASSUME IntervalAssumption == Interval \in Nat \ {0} /\ IsFiniteSet(FP)

\* A sketch as a storage node holds it, and one that was taken for churn.
Sketch      == [p : Nat \ {0}, elems : SUBSET FP]
TakenSketch == [p : Nat \ {0}, elems : SUBSET FP, of : SUBSET Sketch, taken : Nat]

\* Sketch.Merge refuses a sketch of another precision.
Mergeable(sk, other) == sk.p = other.p

NilSketch == [p |-> 0, elems |-> {}, of |-> {}, taken |-> 0]

\* (mutant) The baseline is never replaced.
updateCurrOnly(e, new) == [e EXCEPT !.curr = new]

\* update of an entry: a baseline older than the interval is replaced by the
\* sketch of the update before.
updateEntry(e, new) ==
  [ prev |-> IF e.prev.addedAt > Interval
             THEN [addedAt |-> 0, sketch |-> e.curr.sketch] ELSE e.prev,
    curr |-> new ]

\* update of a group without an entry: a nil baseline starts the clock.
newEntry(new) == [prev |-> [addedAt |-> 0, sketch |-> NilSketch], curr |-> new]

\* churnSnapshots.update, with the sketches of a snapshot.
update(entries, sketches) ==
  [ k \in DOMAIN entries \cup DOMAIN sketches |->
      LET new == [addedAt |-> 0, sketch |-> sketches[k]] IN
      CASE k \notin DOMAIN sketches -> entries[k]
        [] k \notin DOMAIN entries  -> newEntry(new)
        [] OTHER                    -> updateEntry(entries[k], new) ]

\* Entries that were not updated for two intervals are dropped.
cleanup(entries) ==
  [k \in {j \in DOMAIN entries : entries[j].curr.addedAt <= 2 * Interval} |-> entries[k]]

\* churnRatio as a fraction: 2 * union - prev - curr, over the union, which is
\* within [0, 1] for exact sets; 0 without a baseline or one of equal precision.
churnRatio(e) ==
  LET psk == e.prev.sketch  csk == e.curr.sketch
      union == Cardinality(psk.elems \cup csk.elems) IN
  IF psk = NilSketch \/ ~ Mergeable(csk, psk) \/ union = 0
  THEN <<0, 1>>
  ELSE <<2 * union - Cardinality(psk.elems) - Cardinality(csk.elems), union>>

\* One tick later.
Older(sk) == IF sk = NilSketch THEN sk ELSE [sk EXCEPT !.taken = @ + 1]
OneTickLater(entries) ==
  [k \in DOMAIN entries |->
     [ prev |-> [addedAt |-> entries[k].prev.addedAt + 1, sketch |-> Older(entries[k].prev.sketch)],
       curr |-> [addedAt |-> entries[k].curr.addedAt + 1, sketch |-> Older(entries[k].curr.sketch)] ]]
=============================================================================
