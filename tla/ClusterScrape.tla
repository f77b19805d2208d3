---------------------------- MODULE ClusterScrape ----------------------------
(***************************************************************************)
(* A selector: the part of writeCardinalityMetrics that fetches snapshots  *)
(* from the storage nodes, merges them (snapshot.go), exposes them and     *)
(* updates churn (churn.go), scrape after scrape.                          *)
(*                                                                         *)
(* A node answers with a stream of gob-encoded snapshots: a grouped        *)
(* estimator sends its groups in batches, and the rejected groups with the *)
(* last one.  The nodes are read concurrently, and a connection can break  *)
(* after any snapshot.  A sketch is an exact set and a precision; settings *)
(* are the fields that identify a stream, which the ID is made of.         *)
(*                                                                         *)
(* A fetch takes no time; time passes between scrapes.                     *)
(***************************************************************************)
EXTENDS Churn, Sequences, Functions

CONSTANTS
  Node,      \* -storageNode
  StreamID,  \* IDs of streams, and "" in snapshots without one
  Global,    \* those of streams without group_by
  Group,     \* hashes of group keys, by which a snapshot has its sketches
  Contents,  \* streams of snapshots that a node can answer with
  MinFlag,   \* -cardinalityMetrics.minCardinality
  MaxGap     \* at most so many ticks pass between two scrapes

\* Snapshots with sketches for the groups K.
Snapshot(K) ==
  [ ID : StreamID, settings : StreamID, CalculateChurn : BOOLEAN, MinCardinality : Int,
    GroupLimit : Int, GroupRejectSize : Nat, Sketches : [K -> Sketch] ]

IsSnapshot(s) == \E K \in SUBSET Group : s \in Snapshot(K)

ASSUME ClusterAssumption ==
  /\ MaxGap \in Nat \ {0} /\ MinFlag \in Nat /\ "" \in StreamID
  /\ \A c \in Contents : Len(c) \in Nat /\ \A i \in 1 .. Len(c) : IsSnapshot(c[i])
  \* A node that sends an ID has made it from the settings.
  /\ \A c \in Contents : \A i \in 1 .. Len(c) : c[i].ID \in {"", c[i].settings}

VARIABLES
  content,  \* what every node holds: the stream it answers a scrape with
  fetch,    \* every fetching goroutine: open, ok or failed
  pos,      \* snapshots of its stream it has decoded
  dec,      \* decodeSnapshots: s, decoded into again and again
  ss,       \* snapshots.m, by ID
  scraping, \* the fetches of a scrape are under way
  since,    \* ticks since the last scrape
  churn     \* globalChurnSnapshots.entries

clusterVars == <<content, fetch, pos, dec, ss, scraping, since, churn>>

-----------------------------------------------------------------------------
(* snapshot *)

EmptyMap == [k \in {} |-> {}]

newSnapshot ==
  [ ID |-> "", settings |-> "", CalculateChurn |-> FALSE, MinCardinality |-> 0,
    GroupLimit |-> 0, GroupRejectSize |-> 0, Sketches |-> EmptyMap ]

\* (mutant) reset forgets the number of rejected groups.
resetKeepsRejected(s) == [newSnapshot EXCEPT !.GroupRejectSize = s.GroupRejectSize]

\* snapshot.reset
reset(s) == newSnapshot

\* gob leaves out the fields that are zero, and adds to a map.
Decode(s, msg) ==
  [f \in DOMAIN s |->
     CASE f = "Sketches" ->
            [k \in DOMAIN msg.Sketches \cup DOMAIN s.Sketches |->
               IF k \in DOMAIN msg.Sketches THEN msg.Sketches[k] ELSE s.Sketches[k]]
       [] msg[f] = newSnapshot[f] /\ f # "Sketches" -> s[f]
       [] OTHER -> msg[f]]

\* Nodes of older versions send no ID.
estimatorID(s) == IF s.ID = "" THEN s.settings ELSE s.ID

\* (mutant) The sketch that comes last replaces the one there is.
mergeSketchReplaces(s, other, k) ==
  IF k \in DOMAIN other.Sketches THEN other.Sketches[k] ELSE s.Sketches[k]

\* Sketch.Merge fails for another precision, and merge ignores that.
mergeSketch(s, other, k) ==
  CASE k \notin DOMAIN other.Sketches -> s.Sketches[k]
    [] k \notin DOMAIN s.Sketches -> other.Sketches[k]
    [] OTHER ->
         IF Mergeable(s.Sketches[k], other.Sketches[k])
         THEN [s.Sketches[k] EXCEPT !.elems = @ \cup other.Sketches[k].elems]
         ELSE s.Sketches[k]

\* A negative minimum exposes everything, and stays.
mergeMin(s, other) ==
  IF s.MinCardinality < 0 \/ other.MinCardinality < 0 THEN -1
  ELSE IF s.MinCardinality > other.MinCardinality THEN s.MinCardinality
  ELSE other.MinCardinality

merge(s, other) ==
  [ ID |-> other.ID, settings |-> other.settings,
    CalculateChurn |-> s.CalculateChurn \/ other.CalculateChurn,
    MinCardinality |-> mergeMin(s, other),
    GroupLimit |-> other.GroupLimit,
    GroupRejectSize |-> s.GroupRejectSize + other.GroupRejectSize,
    Sketches |-> [k \in DOMAIN s.Sketches \cup DOMAIN other.Sketches |->
                    mergeSketch(s, other, k)] ]

\* snapshots.add
add(m, new) ==
  LET id  == estimatorID(new)
      old == IF id \in DOMAIN m THEN m[id] ELSE newSnapshot IN
  [i \in DOMAIN m \cup {id} |->
     IF i = id THEN merge(old, [new EXCEPT !.ID = id]) ELSE m[i]]

threshold(s) ==
  CASE s.MinCardinality > 0 -> s.MinCardinality
    [] s.MinCardinality < 0 -> 0
    [] OTHER -> MinFlag

\* A group with these elements gets a line; the only one of a stream without
\* group_by does whatever the minimum is.
GetsLine(s, elems) == s.settings \in Global \/ Cardinality(elems) >= threshold(s)

\* writeCardinalityEstimates, for every stream: the groups that get a line.
Exposed(m) ==
  UNION {{<<id, k>> : k \in {j \in DOMAIN m[id].Sketches :
             GetsLine(m[id], m[id].Sketches[j].elems)}} : id \in DOMAIN m}

-----------------------------------------------------------------------------
(* Scrapes *)

NoFetch   == [n \in Node |-> "ok"]
NoContent == [n \in Node |-> << >>]

ClusterInit ==
  /\ content = NoContent
  /\ fetch = NoFetch
  /\ pos = [n \in Node |-> 0]
  /\ dec = [n \in Node |-> newSnapshot]
  /\ ss = EmptyMap
  /\ scraping = FALSE
  /\ since = 0
  /\ churn = EmptyMap

\* A scrape starts a goroutine per node.
ScrapeStart ==
  /\ ~ scraping
  /\ scraping' = TRUE
  /\ since' = 0
  /\ content' \in [Node -> Contents]
  /\ fetch' = [n \in Node |-> "open"]
  /\ UNCHANGED <<pos, dec, ss, churn>>

\* d.Decode(s) and ss.add(s), which is under a mutex.
FetchNext(n) ==
  /\ fetch[n] = "open"
  /\ pos[n] < Len(content[n])
  /\ pos' = [pos EXCEPT ![n] = @ + 1]
  /\ dec' = [dec EXCEPT ![n] = Decode(reset(@), content[n][pos[n] + 1])]
  /\ ss' = add(ss, dec'[n])
  /\ UNCHANGED <<content, fetch, scraping, since, churn>>

\* EOF
FetchEnd(n) ==
  /\ fetch[n] = "open"
  /\ pos[n] = Len(content[n])
  /\ fetch' = [fetch EXCEPT ![n] = "ok"]
  /\ UNCHANGED <<content, pos, dec, ss, scraping, since, churn>>

\* The node refuses, the connection breaks or the data does not decode; what
\* was merged stays.
FetchFail(n) ==
  /\ fetch[n] = "open"
  /\ fetch' = [fetch EXCEPT ![n] = "failed"]
  /\ UNCHANGED <<content, pos, dec, ss, scraping, since, churn>>

\* The snapshots a node sends up to the i[n]-th one.
Sent(i) == UNION {{<<n, j>> : j \in 1 .. i[n]} : n \in Node}
Everything == Sent([n \in Node |-> Len(content[n])])

At(r) == content[r[1]][r[2]]
Of(R, id) == {r \in R : estimatorID(At(r)) = id}
SketchesOf(R, k) == {At(r).Sketches[k] : r \in {q \in R : k \in DOMAIN At(q).Sketches}}

Fetched == scraping /\ \A n \in Node : fetch[n] # "open"

\* The sketches of the streams that calculate churn, with the history that
\* Churn keeps of them.
Churning == {id \in DOMAIN ss : ss[id].CalculateChurn}
Taken ==
  [ g \in UNION {{id} \X DOMAIN ss[id].Sketches : id \in Churning} |->
      LET sk == ss[g[1]].Sketches[g[2]] IN
      [ p |-> sk.p, elems |-> sk.elems, taken |-> 0,
        of |-> SketchesOf(Of(Everything, g[1]), g[2]) ] ]

\* (mutant) A failed fetch does not keep churn from being updated.
updatedChurnAlways == update(churn, Taken)

\* Only when all nodes responded.
updatedChurn ==
  IF \A n \in Node : fetch[n] = "ok" THEN update(churn, Taken) ELSE churn

\* wg.Wait returns: churn is updated and cleaned up, and the text is cached.
ScrapeDone ==
  /\ Fetched
  /\ churn' = cleanup(updatedChurn)
  /\ scraping' = FALSE
  /\ fetch' = NoFetch
  /\ pos' = [n \in Node |-> 0]
  /\ dec' = [n \in Node |-> newSnapshot]
  /\ ss' = EmptyMap
  /\ content' = NoContent
  /\ UNCHANGED since

Tick ==
  /\ ~ scraping
  /\ since < MaxGap
  /\ since' = since + 1
  /\ churn' = OneTickLater(churn)
  /\ UNCHANGED <<content, fetch, pos, dec, ss, scraping>>

ClusterNext ==
  \/ ScrapeStart \/ ScrapeDone \/ Tick
  \/ \E n \in Node : FetchNext(n) \/ FetchEnd(n) \/ FetchFail(n)

ClusterSpec == ClusterInit /\ [][ClusterNext]_clusterVars

-----------------------------------------------------------------------------
(* Properties *)

\* sk estimates the union of all sketches of one precision in S.
UnionOfOnePrecision(sk, S) ==
  /\ sk.p \in {x.p : x \in S}
  /\ sk.elems = UNION {x.elems : x \in {y \in S : y.p = sk.p}}

\* The rejected groups of the snapshots R, told apart.
Rejected(R) == UNION {{r} \X (1 .. At(r).GroupRejectSize) : r \in R}

\* s is the merge of the snapshots R: the sketch of a group is the union of all
\* there are, rejected groups are counted once per node, churn is calculated if one
\* of them asks for it, and the minimum is the largest, or none if a node asks for
\* none.  Of a group's sketch this says nothing where the nodes differ in
\* hll_precision (the snapshot that arrives first wins: Merge's error is ignored),
\* and of the limit nothing where they differ in group_limit (the last one wins).
MergeOf(s, R) ==
  LET mins == {At(r).MinCardinality : r \in R} IN
  /\ DOMAIN s.Sketches = UNION {DOMAIN At(r).Sketches : r \in R}
  /\ \A k \in DOMAIN s.Sketches : LET S == SketchesOf(R, k) IN
       (\A x, y \in S : x.p = y.p) =>
         /\ \A x \in S : s.Sketches[k].p = x.p
         /\ s.Sketches[k].elems = UNION {x.elems : x \in S}
  /\ s.GroupRejectSize = Cardinality(Rejected(R))
  /\ s.CalculateChurn <=> \E r \in R : At(r).CalculateChurn
  /\ IF \E x \in mins : x < 0 THEN s.MinCardinality = -1
     ELSE s.MinCardinality \in mins /\ \A x \in mins : s.MinCardinality >= x
  /\ \A r \in R : (\A q \in R : At(q).GroupLimit = At(r).GroupLimit)
                    => s.GroupLimit = At(r).GroupLimit

\* In whatever order the snapshots of the nodes arrive, and wherever an answer
\* breaks off, there is one snapshot for every stream received, and it is the
\* merge of all that was received for the stream; what nodes with different
\* precisions or limits do to a sketch or to the limit depends on the order, and
\* is excepted.
MergeIgnoresOrder ==
  /\ DOMAIN ss = {estimatorID(At(r)) : r \in Sent(pos)}
  /\ \A id \in DOMAIN ss : MergeOf(ss[id], Of(Sent(pos), id))

\* Everything that node n sends, and the groups it exposes on its own: those for
\* which all it holds together reaches the minimum, if there is one.
SentBy(n) == {n} \X (1 .. Len(content[n]))
ExposedBy(n) ==
  UNION {{<<estimatorID(At(r)), k>> : k \in {j \in DOMAIN At(r).Sketches :
             LET all == SketchesOf(Of(SentBy(n), estimatorID(At(r))), j) IN
             GetsLine(At(r), UNION {x.elems : x \in all})}} : r \in SentBy(n)}

\* Snapshots of one stream have the same minimum and sketches of one precision.
Alike ==
  \A q \in Everything : \A r \in Of(Everything, estimatorID(At(q))) :
    /\ At(q).MinCardinality = At(r).MinCardinality
    /\ \A x \in Range(At(q).Sketches), y \in Range(At(r).Sketches) : x.p = y.p

\* A group that a storage node exposes on its own is exposed by the selector,
\* if the nodes agree on the minimum and on the precision.
ClusterExposesNodeGroups ==
  Fetched /\ Alike =>
    \A n \in Node : fetch[n] = "ok" => ExposedBy(n) \subseteq Exposed(ss)

\* A churn entry never holds a partial union: its sketches are what all the
\* nodes held for the group when they were taken, and as long as they hold the
\* same there is no churn, whichever nodes fail in between.
ChurnOfFullUnions ==
  \A k \in DOMAIN churn :
    LET prev == churn[k].prev.sketch  curr == churn[k].curr.sketch IN
    /\ UnionOfOnePrecision(curr, curr.of)
    /\ prev # NilSketch => UnionOfOnePrecision(prev, prev.of)
    /\ prev.of = curr.of => churnRatio(churn[k])[1] = 0

\* What a churn ratio compares: an update leaves no baseline that was set longer
\* than an interval ago; after a scrape the newer sketch is at most two intervals
\* old; and the older one was taken at most an interval, and the longest time an
\* entry can go without an update, before it.
BaselineAge ==
  \A k \in DOMAIN churn :
    LET e == churn[k]  between == e.prev.sketch.taken - e.curr.sketch.taken IN
    /\ ~ scraping /\ e.curr.addedAt = 0 => e.prev.addedAt <= Interval
    /\ ~ scraping /\ since = 0 => e.curr.sketch.taken <= 2 * Interval
    /\ e.prev.sketch # NilSketch =>
         0 <= between /\ between <= Interval + (2 * Interval + MaxGap)
=============================================================================
