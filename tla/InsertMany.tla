------------------------------ MODULE InsertMany ------------------------------
(***************************************************************************)
(* estimator.insertMany and compiledFilter.match: which series an          *)
(* estimator counts, and in which groups, given its stream's group_by as   *)
(* written in the file, which Config.prepare puts in order.                *)
(*                                                                         *)
(* A series is a function from its label names to values; a label it does  *)
(* not have is outside of the DOMAIN.  The group key, in the code a hash   *)
(* of the values written one after the other, each after a separator, is   *)
(* the sequence of those values: equal sequences are equal keys, and       *)
(* collisions of the hash are left out.  Sketches are exact sets and the   *)
(* map of groups is unbounded: limits, buckets and rotation are the        *)
(* subject of GroupEstimator.                                              *)
(***************************************************************************)
EXTENDS Integers, Sequences, FiniteSets, Functions

CONSTANTS
  Names, Values,   \* label names, and the values they take
  NoValue,         \* the empty string
  labelKeyword,    \* __label__
  Alphabet,        \* the names and __label__ in the order of strings
  Streams          \* the streams that may be configured, see below

\* A stream has group_by and a compiledFilter.  A label filter accepts the values
\* that its value equals or its regular expression matches, or with isNegative
\* the others.
ASSUME InsertAssumption ==
  /\ NoValue \in Values
  /\ Alphabet \in Seq(Names \cup {labelKeyword})
  /\ Range(Alphabet) = Names \cup {labelKeyword}
  /\ \A s \in Streams :
       /\ s.group_by \in Seq(Names \cup {labelKeyword})
       /\ s.compiledFilter \subseteq
            [label : Names, accepts : SUBSET Values, isNegative : BOOLEAN]

VARIABLES
  cfg,     \* the stream, as configured
  e,       \* the estimator made from it
  groups,  \* the sketches of all groups, by group key
  values,  \* the group values stored with each of them
  seen     \* (history) the series given to insertMany

vars == <<cfg, e, groups, values, seen>>

Series == UNION {[S -> Values] : S \in SUBSET Names}

-----------------------------------------------------------------------------
(* prepare and newEstimator *)

\* The entries of s at the indices I, the ones with the smaller weight w first,
\* and of equal weight the ones with the smaller index.
Arranged(s, I, w) ==
  LET upTo(i) == {j \in I : w[j] < w[i] \/ (w[j] = w[i] /\ j <= i)} IN
  [r \in 1 .. Cardinality(I) |-> s[CHOOSE i \in I : Cardinality(upTo(i)) = r]]

\* The entries of s at the indices I, in the order of s.
Selected(s, I) == Arranged(s, I, [i \in I |-> i])

\* The place of a name in the order of strings, and sort.Strings.
Position(n) == CHOOSE p \in DOMAIN Alphabet : Alphabet[p] = n

Sorted(s) == Arranged(s, DOMAIN s, [i \in DOMAIN s |-> Position(s[i])])

\* prepare sorts group_by and moves __label__ to the end; newEstimator panics if
\* it stands anywhere else.
prepared(groupBy) ==
  LET sorted == Sorted(groupBy)
      newGroupBy == Selected(sorted, {i \in DOMAIN sorted : sorted[i] # labelKeyword}) IN
  IF labelKeyword \in Range(groupBy) THEN Append(newGroupBy, labelKeyword)
  ELSE newGroupBy

\* __label__ twice is refused by prepare, and more than 5 labels by newEstimator.
\* The reserved words __global__ and __group__ are not among the names.
Refused(s) ==
  \/ Cardinality({i \in DOMAIN s.group_by : s.group_by[i] = labelKeyword}) > 1
  \/ Len(s.group_by) > 5

\* newEstimator; groupBy here is without the __label__ that ends it.
newEstimator(s) ==
  LET g == prepared(s.group_by)
      hasLabelKeyword == g # << >> /\ g[Len(g)] = labelKeyword IN
  [ groupBy |-> IF hasLabelKeyword THEN SubSeq(g, 1, Len(g) - 1) ELSE g,
    hasLabelKeyword |-> hasLabelKeyword,
    compiledFilter |-> s.compiledFilter ]

-----------------------------------------------------------------------------
(* insertMany *)

\* compiledFilter.match: a missing label is matched as an empty value.
match(ts) ==
  \A f \in e.compiledFilter :
    LET val == IF f.label \in DOMAIN ts THEN ts[f.label] ELSE NoValue IN
    (val \in f.accepts) # f.isNegative

\* The indices of the group_by labels that the series has.
Present(ts) == {i \in DOMAIN e.groupBy : e.groupBy[i] \in DOMAIN ts}

\* groupValues: one entry per group_by label, empty for a missing one.
groupValues(ts) ==
  [i \in DOMAIN e.groupBy |->
     IF e.groupBy[i] \in DOMAIN ts THEN ts[e.groupBy[i]] ELSE NoValue]

\* (mutant) The search ends with the first group_by label that is present.
DigestFirstOnly(ts) ==
  Selected(groupValues(ts), {i \in Present(ts) : \A j \in Present(ts) : i <= j})

\* What is written to the digest: the values of the labels that are present.
Digest(ts) == Selected(groupValues(ts), Present(ts))

\* (mutant) Any series has names.
hasNamesAlways(ts) == TRUE

\* A series that has none of the explicit labels does not contribute.
hasNames(ts) == e.groupBy = <<>> \/ Present(ts) # {}

\* The inserts made for one series: group key, hash, and group values.  With an
\* empty group_by there is one group, the estimator's single sketch.
Plain(ts) == {[key |-> Digest(ts), hash |-> ts, values |-> groupValues(ts)]}

\* (mutant) A new digest is started for each label: explicit values are lost.
PerLabelNewDigest(ts) ==
  {[key |-> <<n>>, hash |-> ts[n],
    values |-> Append(groupValues(ts), n)] : n \in DOMAIN ts}

\* __label__: one insert per label of the series, of the label's value.
PerLabel(ts) ==
  {[key |-> Append(Digest(ts), n), hash |-> ts[n],
    values |-> Append(groupValues(ts), n)] : n \in DOMAIN ts}

Inserts(ts) ==
  IF ~ match(ts) \/ ~ hasNames(ts) THEN {}
  ELSE IF e.hasLabelKeyword THEN PerLabel(ts) ELSE Plain(ts)

-----------------------------------------------------------------------------
Init ==
  /\ cfg \in {s \in Streams : ~ Refused(s)}
  /\ e = newEstimator(cfg)
  /\ groups = [k \in {} |-> {}]
  /\ values = [k \in {} |-> <<>>]
  /\ seen = {}

\* The body of insertMany's loop.  An existing group keeps the values of the
\* insert that created it (estimatorBucket.insert).
Insert(ts) ==
  LET new  == Inserts(ts)
      keys == {n.key : n \in new}
      of(k) == {n.hash : n \in {m \in new : m.key = k}} IN
  /\ groups' = [k \in DOMAIN groups \cup keys |->
                  (IF k \in DOMAIN groups THEN groups[k] ELSE {}) \cup of(k)]
  /\ values' = [k \in DOMAIN values \cup keys |->
                  IF k \in DOMAIN values THEN values[k]
                  ELSE (CHOOSE n \in new : n.key = k).values]
  /\ seen' = seen \cup {ts}
  /\ UNCHANGED <<cfg, e>>

Next == \E ts \in Series : Insert(ts)

Spec == Init /\ [][Next]_vars

-----------------------------------------------------------------------------
(* Properties *)

\* A series with the labels it does not have set to the empty value.
Padded(ts) == [n \in Names |-> IF n \in DOMAIN ts THEN ts[n] ELSE NoValue]

\* The series to be counted: all matchers of the filter hold.
Counted ==
  {ts \in seen :
     \A f \in cfg.compiledFilter :
       IF f.isNegative THEN Padded(ts)[f.label] \notin f.accepts
                       ELSE Padded(ts)[f.label] \in f.accepts}

\* The labels the stream is configured to group by, in whatever order.
GroupBy   == Range(cfg.group_by) \ {labelKeyword}
WithLabel == labelKeyword \in Range(cfg.group_by)

\* The counted series that have the values c of these labels.
SeriesOf(c) == {ts \in Counted : GroupBy \subseteq DOMAIN ts /\ Restrict(ts, GroupBy) = c}

\* The labels by_* of a group's metric: their names, and their values.
ShownBy == IF e.hasLabelKeyword THEN Append(e.groupBy, labelKeyword) ELSE e.groupBy

Shown(k) ==
  [n \in Range(ShownBy) |-> values[k][CHOOSE i \in DOMAIN ShownBy : ShownBy[i] = n]]

\* The estimate shown with a combination of values counts all series that have
\* the combination, and no other, whatever incomplete series arrive before or
\* after, and in whatever order the labels were configured.
CombinationExact ==
  ~ WithLabel =>
    \A c \in [GroupBy -> Values] :
      LET found == SeriesOf(c) IN
      found # {} => \E k \in DOMAIN groups : Shown(k) = c /\ groups[k] = found

\* Every counted series that has a group_by label is in exactly one group, and
\* so is every counted series if there are no group_by labels; a series that has
\* none of them, or that the filter rejects, is in no group.
EachSeriesOnce ==
  ~ WithLabel =>
    LET due == {ts \in Counted : GroupBy = {} \/ GroupBy \cap DOMAIN ts # {}} IN
    \A ts \in seen :
      Cardinality({k \in DOMAIN groups : ts \in groups[k]}) = IF ts \in due THEN 1 ELSE 0

\* With __label__, wherever it stands in group_by, the estimate shown for a label
\* name within a combination of explicit values counts the distinct values of
\* that label among the counted series that have the combination.
LabelValuesExact ==
  WithLabel =>
    \A c \in [GroupBy -> Values], n \in Names :
      LET found == {ts[n] : ts \in {t \in SeriesOf(c) : n \in DOMAIN t}} IN
      found # {} =>
        \E k \in DOMAIN groups :
          /\ Shown(k) = [m \in GroupBy \cup {labelKeyword} |->
                        IF m = labelKeyword THEN n ELSE c[m]]
          /\ groups[k] = found

\* "Each distinct combination of values for these labels gets its own estimate
\* metric": all series of one group have the same values.
CombinationsSeparate ==
  \A k \in DOMAIN groups : \A t, u \in groups[k] : groupValues(t) = groupValues(u)
=============================================================================
