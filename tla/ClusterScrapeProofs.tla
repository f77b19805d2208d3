-------------------------- MODULE ClusterScrapeProofs --------------------------
(***************************************************************************)
(* Proofs about ClusterScrape: ClusterInv is inductive, and the properties *)
(* of merged snapshots and of churn entries follow from it, for any number *)
(* of nodes, any answers, interval and time between scrapes.               *)
(***************************************************************************)
EXTENDS ClusterScrape, FiniteSetTheorems, TLAPS

-----------------------------------------------------------------------------
(* The inductive invariant *)

ClusterTypeOK ==
  /\ content \in [Node -> Contents \cup {<< >>}]
  /\ fetch \in [Node -> {"open", "ok", "failed"}]
  /\ pos \in [Node -> Nat] /\ DOMAIN dec = Node
  /\ \A id \in DOMAIN ss : IsSnapshot(ss[id])
  /\ scraping \in BOOLEAN /\ since \in 0 .. MaxGap

\* Nothing is fetched between scrapes, and a fetch that ended well got everything.
FetchInv ==
  /\ ~ scraping => fetch = NoFetch /\ content = NoContent /\ ss = EmptyMap
  /\ scraping => content \in [Node -> Contents] /\ since = 0
  /\ \A n \in Node : /\ pos[n] <= Len(content[n])
                     /\ fetch[n] = "ok" => pos[n] = Len(content[n])

\* What merging leaves in every order: MergeOf, and where the nodes differ, the union
\* of the sketches of one precision and the limit of some node.
MergedFrom(s, R) ==
  LET mins == {At(r).MinCardinality : r \in R} IN
  /\ DOMAIN s.Sketches = UNION {DOMAIN At(r).Sketches : r \in R}
  /\ \A k \in DOMAIN s.Sketches : UnionOfOnePrecision(s.Sketches[k], SketchesOf(R, k))
  /\ s.GroupRejectSize = Cardinality(Rejected(R))
  /\ s.CalculateChurn <=> \E r \in R : At(r).CalculateChurn
  /\ IF \E x \in mins : x < 0 THEN s.MinCardinality = -1
     ELSE s.MinCardinality \in mins /\ \A x \in mins : s.MinCardinality >= x
  /\ \E r \in R : s.GroupLimit = At(r).GroupLimit
  /\ \E r \in R : s.settings = At(r).settings

MergedInv ==
  /\ DOMAIN ss = {estimatorID(At(r)) : r \in Sent(pos)}
  /\ \A id \in DOMAIN ss : MergedFrom(ss[id], Of(Sent(pos), id))

RejectedFinite == \A id \in DOMAIN ss : IsFiniteSet(Rejected(Of(Sent(pos), id)))

\* An entry has full unions.  Its baseline was set at most an interval before its
\* newer sketch, which is as old as the last update, at most w; and had been taken
\* at most so long before as an entry lives without an update.
EntryOK(e, w) ==
  /\ e \in [ prev : [addedAt : Nat, sketch : TakenSketch \cup {NilSketch}],
             curr : [addedAt : Nat, sketch : TakenSketch] ]
  /\ UnionOfOnePrecision(e.curr.sketch, e.curr.sketch.of)
  /\ e.curr.sketch.taken = e.curr.addedAt
  /\ e.curr.addedAt <= w
  /\ e.curr.addedAt <= e.prev.addedAt /\ e.prev.addedAt <= e.curr.addedAt + Interval
  /\ e.prev.sketch # NilSketch =>
       /\ UnionOfOnePrecision(e.prev.sketch, e.prev.sketch.of)
       /\ e.prev.addedAt <= e.prev.sketch.taken
       /\ e.prev.sketch.taken <= e.prev.addedAt + (2 * Interval + MaxGap)

EntryInv ==
  \A k \in DOMAIN churn :
    EntryOK(churn[k], 2 * Interval + (IF scraping THEN MaxGap ELSE since))

\* The conjunction that is inductive.
ClusterInv ==
  /\ ClusterTypeOK /\ FetchInv
  /\ MergedInv /\ RejectedFinite
  /\ EntryInv

-----------------------------------------------------------------------------
(* Snapshots *)

\* What IsSnapshot says of the fields.
LEMMA SnapshotFields ==
  ASSUME NEW s, IsSnapshot(s)
  PROVE  /\ s.ID \in StreamID /\ s.settings \in StreamID /\ s.CalculateChurn \in BOOLEAN
         /\ s.MinCardinality \in Int /\ s.GroupLimit \in Int /\ s.GroupRejectSize \in Nat
         /\ s.Sketches \in [DOMAIN s.Sketches -> Sketch]
         /\ DOMAIN s.Sketches \in SUBSET Group
  BY DEF IsSnapshot, Snapshot

\* A snapshot is the record of its fields.
LEMMA SnapshotRecord ==
  ASSUME NEW s, IsSnapshot(s)
  PROVE  s = [ ID |-> s.ID, settings |-> s.settings, CalculateChurn |-> s.CalculateChurn,
               MinCardinality |-> s.MinCardinality, GroupLimit |-> s.GroupLimit,
               GroupRejectSize |-> s.GroupRejectSize, Sketches |-> s.Sketches ]
  BY DEF IsSnapshot, Snapshot

\* reset leaves nothing behind: what is decoded is what the node sent.
LEMMA Decoded ==
  ASSUME NEW s, NEW msg, IsSnapshot(msg)
  PROVE  Decode(reset(s), msg) = msg
  <1> DEFINE d == Decode(newSnapshot, msg)
  <1>1. DOMAIN newSnapshot = {"ID", "settings", "CalculateChurn", "MinCardinality",
                              "GroupLimit", "GroupRejectSize", "Sketches"}
        /\ DOMAIN newSnapshot.Sketches = {}
    BY DEF newSnapshot, EmptyMap
  <1>2. DOMAIN msg = DOMAIN newSnapshot /\ msg = [f \in DOMAIN msg |-> msg[f]]
    BY <1>1 DEF IsSnapshot, Snapshot
  <1>3. d["Sketches"] = msg["Sketches"]
    BY <1>1, SnapshotFields DEF Decode
  <1>4. \A f \in DOMAIN newSnapshot : d[f] = msg[f]
    BY <1>1, <1>3 DEF Decode
  <1>5. d = [f \in DOMAIN newSnapshot |-> d[f]]
    BY DEF Decode
  <1> QED BY <1>2, <1>4, <1>5 DEF reset

\* An empty snapshot is a snapshot.
LEMMA NewSnapshotType == IsSnapshot(newSnapshot) /\ DOMAIN newSnapshot.Sketches = {}
  <1>1. EmptyMap \in [{} -> Sketch] /\ DOMAIN EmptyMap = {}
    BY DEF EmptyMap
  <1> DEFINE F == [{} -> Sketch]
  <1>2. EmptyMap \in F
    BY <1>1
  <1> HIDE DEF F
  <1>3. newSnapshot \in [ ID : StreamID, settings : StreamID, CalculateChurn : BOOLEAN,
                          MinCardinality : Int, GroupLimit : Int, GroupRejectSize : Nat,
                          Sketches : F ]
    <2>1. 0 \in Int /\ 0 \in Nat
      OBVIOUS
    <2>2. "" \in StreamID
      BY ClusterAssumption
    <2> QED BY <1>2, <2>1, <2>2, Zenon DEF newSnapshot
  <1>4. newSnapshot \in Snapshot({}) /\ newSnapshot.Sketches = EmptyMap
    BY <1>3 DEF Snapshot, newSnapshot, F
  <1> QED BY <1>1, <1>4 DEF IsSnapshot

\* merge yields a snapshot.
LEMMA MergeType ==
  ASSUME NEW s, NEW o, IsSnapshot(s), IsSnapshot(o)
  PROVE  IsSnapshot(merge(s, o))
  <1> DEFINE K == DOMAIN s.Sketches \cup DOMAIN o.Sketches
  <1>1. \A k \in K : mergeSketch(s, o, k) \in Sketch
    BY SnapshotFields DEF mergeSketch, Sketch, Mergeable
  <1>2. mergeMin(s, o) \in Int
    BY SnapshotFields DEF mergeMin
  <1>3. K \in SUBSET Group
    BY SnapshotFields
  <1>4. merge(s, o) \in Snapshot(K)
    BY <1>1, <1>2, SnapshotFields DEF merge, Snapshot
  <1> QED BY <1>3, <1>4 DEF IsSnapshot

\* The ID that add gives to a snapshot changes nothing else.
LEMMA WithIDType ==
  ASSUME NEW s, IsSnapshot(s)
  PROVE  LET o == [s EXCEPT !.ID = estimatorID(s)] IN
         /\ estimatorID(s) \in StreamID
         /\ IsSnapshot(o)
         /\ o.Sketches = s.Sketches /\ o.GroupRejectSize = s.GroupRejectSize
         /\ o.MinCardinality = s.MinCardinality /\ o.CalculateChurn = s.CalculateChurn
         /\ o.GroupLimit = s.GroupLimit /\ o.settings = s.settings
  BY SnapshotFields DEF IsSnapshot, Snapshot, estimatorID

-----------------------------------------------------------------------------
(* Merging one snapshot more *)

\* Rejected groups of one snapshot more.
LEMMA RejectedOneMore ==
  ASSUME NEW R, NEW r, r \notin R, At(r).GroupRejectSize \in Nat, IsFiniteSet(Rejected(R))
  PROVE  /\ IsFiniteSet(Rejected(R \cup {r}))
         /\ Cardinality(Rejected(R \cup {r})) = Cardinality(Rejected(R)) + At(r).GroupRejectSize
  <1> DEFINE n == At(r).GroupRejectSize
             N == {r} \X (1 .. n)
  <1>1. Rejected(R \cup {r}) = Rejected(R) \cup N
    BY DEF Rejected
  <1>2. Rejected(R) \cap N = {}
    BY DEF Rejected
  <1>3. n \in Nat
    OBVIOUS
  <1> HIDE DEF n
  <1>4. IsFiniteSet(1 .. n) /\ Cardinality(1 .. n) = n
    BY <1>3, FS_Interval
  <1>5. IsFiniteSet({r}) /\ Cardinality({r}) = 1
    BY FS_Singleton
  <1>6. IsFiniteSet(N) /\ Cardinality(N) = Cardinality({r}) * Cardinality(1 .. n)
    BY <1>4, <1>5, FS_Product
  <1>7. Cardinality(N) = n
    BY <1>3, <1>4, <1>5, <1>6
  <1>8. Cardinality({}) = 0
    BY FS_EmptySet
  <1>9. Cardinality(Rejected(R)) \in Nat
    BY FS_CardinalityType
  <1> HIDE DEF N
  <1>10. /\ IsFiniteSet(Rejected(R) \cup N)
         /\ Cardinality(Rejected(R) \cup N)
              = Cardinality(Rejected(R)) + Cardinality(N) - Cardinality(Rejected(R) \cap N)
    BY <1>6, FS_Union
  <1>11. Cardinality(Rejected(R \cup {r})) = Cardinality(Rejected(R)) + n - 0
    BY <1>1, <1>2, <1>7, <1>8, <1>10, Zenon
  <1>12. IsFiniteSet(Rejected(R \cup {r}))
    BY <1>1, <1>10, Zenon
  <1> QED BY <1>3, <1>9, <1>11, <1>12 DEF n

\* The union of one precision stays one when a sketch is merged.
LEMMA UnionOneMore ==
  ASSUME NEW S, NEW sk \in Sketch, NEW x \in Sketch, UnionOfOnePrecision(sk, S)
  PROVE  UnionOfOnePrecision(IF Mergeable(sk, x) THEN [sk EXCEPT !.elems = @ \cup x.elems] ELSE sk,
                             S \cup {x})
  <1>1. CASE sk.p = x.p
    <2> DEFINE new == [sk EXCEPT !.elems = @ \cup x.elems]
    <2>1. new.p = sk.p /\ new.elems = sk.elems \cup x.elems
      BY DEF Sketch
    <2>2. UNION {y.elems : y \in {z \in S \cup {x} : z.p = new.p}}
            = (UNION {y.elems : y \in {z \in S : z.p = sk.p}}) \cup x.elems
      <3>1. {z \in S \cup {x} : z.p = new.p} = {z \in S : z.p = sk.p} \cup {x}
        BY <1>1, <2>1
      <3> HIDE DEF new
      <3> QED BY <3>1
    <2> QED BY <1>1, <2>1, <2>2 DEF UnionOfOnePrecision, Mergeable
  <1>2. CASE sk.p # x.p
    <2>1. {z \in S \cup {x} : z.p = sk.p} = {z \in S : z.p = sk.p}
      BY <1>2
    <2> QED BY <1>2, <2>1 DEF UnionOfOnePrecision, Mergeable
  <1> QED BY <1>1, <1>2

\* The union of a single sketch.
LEMMA UnionOfOne ==
  ASSUME NEW x \in Sketch
  PROVE  UnionOfOnePrecision(x, {x})
  BY DEF UnionOfOnePrecision, Sketch

\* The sketches of a group in one snapshot more.
LEMMA SketchesOneMore ==
  ASSUME NEW R, NEW r, NEW k
  PROVE  SketchesOf(R \cup {r}, k) =
           SketchesOf(R, k) \cup (IF k \in DOMAIN At(r).Sketches THEN {At(r).Sketches[k]} ELSE {})
  BY DEF SketchesOf

\* The minimum of one snapshot more, the first one included.
LEMMA MinOneMore ==
  ASSUME NEW R, NEW r, NEW s, NEW o,
         \A q \in R \cup {r} : At(q).MinCardinality \in Int,
         s.MinCardinality \in Int, o.MinCardinality = At(r).MinCardinality,
         \/ R = {} /\ s.MinCardinality = 0
         \/ LET mins == {At(q).MinCardinality : q \in R} IN
            IF \E x \in mins : x < 0 THEN s.MinCardinality = -1
            ELSE s.MinCardinality \in mins /\ \A x \in mins : s.MinCardinality >= x
  PROVE  LET mins == {At(q).MinCardinality : q \in R \cup {r}}
             min  == mergeMin(s, o) IN
         IF \E x \in mins : x < 0 THEN min = -1
         ELSE min \in mins /\ \A x \in mins : min >= x
  <1> DEFINE old == {At(q).MinCardinality : q \in R}
             mins == {At(q).MinCardinality : q \in R \cup {r}}
             m == At(r).MinCardinality
  <1>1. mins = old \cup {m} /\ m \in Int /\ old \subseteq Int
    OBVIOUS
  <1>2. CASE R = {} /\ s.MinCardinality = 0
    <2>1. mins = {m}
      BY <1>2
    <2> QED BY <1>1, <1>2, <2>1 DEF mergeMin
  <1>3. CASE IF \E x \in old : x < 0 THEN s.MinCardinality = -1
             ELSE s.MinCardinality \in old /\ \A x \in old : s.MinCardinality >= x
    <2> HIDE DEF old, mins, m
    <2>1. o.MinCardinality = m
      BY DEF m
    <2>2. CASE \E x \in mins : x < 0
      <3>1. s.MinCardinality < 0 \/ m < 0
        BY <1>1, <1>3, <2>2
      <3>2. mergeMin(s, o) = -1
        BY <2>1, <3>1 DEF mergeMin
      <3> QED BY <2>2, <3>2 DEF mins
    <2>3. CASE ~ \E x \in mins : x < 0
      <3>1. s.MinCardinality \in old /\ (\A x \in old : s.MinCardinality >= x)
            /\ s.MinCardinality >= 0 /\ m >= 0
        BY <1>1, <1>3, <2>3
      <3>2. mergeMin(s, o) \in mins /\ \A x \in mins : mergeMin(s, o) >= x
        BY <1>1, <2>1, <3>1 DEF mergeMin
      <3> QED BY <2>3, <3>2 DEF mins
    <2> QED BY <2>2, <2>3
  <1> QED BY <1>2, <1>3

\* merge adds one snapshot to what was merged before.
LEMMA MergeOneMore ==
  ASSUME NEW R, NEW r, NEW s, NEW o, r \notin R,
         IsSnapshot(s), IsSnapshot(o), \A q \in R \cup {r} : IsSnapshot(At(q)),
         o.Sketches = At(r).Sketches, o.GroupRejectSize = At(r).GroupRejectSize,
         o.MinCardinality = At(r).MinCardinality, o.CalculateChurn = At(r).CalculateChurn,
         o.GroupLimit = At(r).GroupLimit, o.settings = At(r).settings,
         (R = {} /\ s = newSnapshot) \/ MergedFrom(s, R),
         IsFiniteSet(Rejected(R))
  PROVE  MergedFrom(merge(s, o), R \cup {r})
  <1> DEFINE new == merge(s, o)
  <1>1. /\ DOMAIN s.Sketches = UNION {DOMAIN At(q).Sketches : q \in R}
        /\ s.GroupRejectSize = Cardinality(Rejected(R))
        /\ \A k \in DOMAIN s.Sketches : UnionOfOnePrecision(s.Sketches[k], SketchesOf(R, k))
    <2>1. CASE R = {} /\ s = newSnapshot
      <3>1. DOMAIN s.Sketches = {} /\ s.GroupRejectSize = 0
        BY <2>1 DEF newSnapshot, EmptyMap
      <3>2. Rejected(R) = {}
        BY <2>1 DEF Rejected
      <3> QED BY <2>1, <3>1, <3>2, FS_EmptySet
    <2>2. CASE MergedFrom(s, R)
      BY <2>2 DEF MergedFrom
    <2> QED BY <2>1, <2>2
  <1>2. /\ DOMAIN new.Sketches = DOMAIN s.Sketches \cup DOMAIN o.Sketches
        /\ \A k \in DOMAIN new.Sketches : new.Sketches[k] = mergeSketch(s, o, k)
        /\ new.GroupRejectSize = s.GroupRejectSize + o.GroupRejectSize
        /\ new.MinCardinality = mergeMin(s, o)
    BY DEF merge
  <1>3. DOMAIN new.Sketches = UNION {DOMAIN At(q).Sketches : q \in R \cup {r}}
    BY <1>1, <1>2
  <1>4. ASSUME NEW k \in DOMAIN new.Sketches
        PROVE  UnionOfOnePrecision(new.Sketches[k], SketchesOf(R \cup {r}, k))
    <2>1. CASE k \notin DOMAIN o.Sketches
      <3>1. new.Sketches[k] = s.Sketches[k] /\ k \in DOMAIN s.Sketches
        BY <1>2, <2>1 DEF mergeSketch
      <3>2. SketchesOf(R \cup {r}, k) = SketchesOf(R, k)
        <4>1. k \notin DOMAIN At(r).Sketches
          BY <2>1
        <4>2. SketchesOf(R \cup {r}, k) = SketchesOf(R, k) \cup {}
          BY <4>1, SketchesOneMore
        <4> QED BY <4>2
      <3> QED BY <1>1, <3>1, <3>2
    <2>2. CASE k \in DOMAIN o.Sketches /\ k \notin DOMAIN s.Sketches
      <3>1. new.Sketches[k] = o.Sketches[k] /\ o.Sketches[k] \in Sketch
        BY <1>2, <2>2, SnapshotFields DEF mergeSketch
      <3>2. SketchesOf(R, k) = {}
        BY <1>1, <2>2 DEF SketchesOf
      <3>3. SketchesOf(R \cup {r}, k) = {o.Sketches[k]}
        BY <2>2, <3>2, SketchesOneMore
      <3> QED BY <3>1, <3>3, UnionOfOne
    <2>3. CASE k \in DOMAIN o.Sketches /\ k \in DOMAIN s.Sketches
      <3> DEFINE sk == s.Sketches[k]
                 x  == o.Sketches[k]
      <3>1. sk \in Sketch /\ x \in Sketch
        BY <2>3, SnapshotFields
      <3>2. SketchesOf(R \cup {r}, k) = SketchesOf(R, k) \cup {x}
        BY <2>3, SketchesOneMore
      <3>3. new.Sketches[k] = IF Mergeable(sk, x) THEN [sk EXCEPT !.elems = @ \cup x.elems] ELSE sk
        BY <1>2, <2>3 DEF mergeSketch
      <3>4. UnionOfOnePrecision(sk, SketchesOf(R, k))
        BY <1>1, <2>3
      <3> HIDE DEF sk, x, new
      <3>5. UnionOfOnePrecision(IF Mergeable(sk, x) THEN [sk EXCEPT !.elems = @ \cup x.elems] ELSE sk,
                                SketchesOf(R, k) \cup {x})
        BY <3>1, <3>4, UnionOneMore
      <3> QED BY <3>2, <3>3, <3>5
    <2> QED BY <1>4, <1>2, <2>1, <2>2, <2>3
  <1>5. new.GroupRejectSize = Cardinality(Rejected(R \cup {r}))
    <2>1. At(r).GroupRejectSize \in Nat
      BY SnapshotFields
    <2> QED BY <1>1, <1>2, <2>1, RejectedOneMore
  <1>6. LET mins == {At(q).MinCardinality : q \in R \cup {r}}
            min  == new.MinCardinality IN
        IF \E x \in mins : x < 0 THEN min = -1
        ELSE min \in mins /\ \A x \in mins : min >= x
    <2>1. /\ \A q \in R \cup {r} : At(q).MinCardinality \in Int
          /\ s.MinCardinality \in Int
      BY SnapshotFields
    <2>2. \/ R = {} /\ s.MinCardinality = 0
          \/ LET mins == {At(q).MinCardinality : q \in R} IN
             IF \E x \in mins : x < 0 THEN s.MinCardinality = -1
             ELSE s.MinCardinality \in mins /\ \A x \in mins : s.MinCardinality >= x
      <3>1. newSnapshot.MinCardinality = 0
        BY DEF newSnapshot
      <3>2. CASE R = {} /\ s = newSnapshot
        BY <3>1, <3>2
      <3>3. CASE MergedFrom(s, R)
        BY <3>3, Zenon DEF MergedFrom
      <3> QED BY <3>2, <3>3
    <2>3. LET mins == {At(q).MinCardinality : q \in R \cup {r}}
              min  == mergeMin(s, o) IN
          IF \E x \in mins : x < 0 THEN min = -1
          ELSE min \in mins /\ \A x \in mins : min >= x
      BY <2>1, <2>2, MinOneMore, Zenon
    <2> QED BY <1>2, <2>3, Zenon
  <1>7. new.CalculateChurn <=> \E q \in R \cup {r} : At(q).CalculateChurn
    <2>1. s.CalculateChurn <=> \E q \in R : At(q).CalculateChurn
      <3>1. CASE R = {} /\ s = newSnapshot
        BY <3>1 DEF newSnapshot
      <3>2. CASE MergedFrom(s, R)
        BY <3>2 DEF MergedFrom
      <3> QED BY <3>1, <3>2
    <2>2. new.CalculateChurn <=> s.CalculateChurn \/ o.CalculateChurn
      BY DEF merge
    <2> QED BY <2>1, <2>2
  <1>8. new.GroupLimit = At(r).GroupLimit /\ new.settings = At(r).settings
    BY DEF merge
  <1> QED BY <1>3, <1>4, <1>5, <1>6, <1>7, <1>8 DEF MergedFrom

-----------------------------------------------------------------------------
(* What nodes send *)

\* A node answers with snapshots.
LEMMA ContentType ==
  ASSUME ClusterTypeOK, NEW n \in Node
  PROVE  /\ Len(content[n]) \in Nat
         /\ \A i \in 1 .. Len(content[n]) : IsSnapshot(content[n][i])
  <1>1. content[n] \in Contents \/ content[n] = << >>
    BY DEF ClusterTypeOK
  <1>2. Len(<< >>) = 0
    OBVIOUS
  <1>3. CASE content[n] = << >>
    BY <1>2, <1>3
  <1>4. CASE content[n] \in Contents
    <2>1. \A c \in Contents : Len(c) \in Nat /\ \A i \in 1 .. Len(c) : IsSnapshot(c[i])
      BY ClusterAssumption
    <2> QED BY <1>4, <2>1
  <1> QED BY <1>1, <1>3, <1>4

\* A snapshot that a node sends has the ID of its settings, sent or made from them.
LEMMA ContentID ==
  ASSUME ClusterTypeOK, NEW n \in Node, NEW i \in 1 .. Len(content[n])
  PROVE  estimatorID(content[n][i]) = content[n][i].settings
  <1>1. content[n] \in Contents \/ content[n] = << >>
    BY DEF ClusterTypeOK
  <1>2. content[n] # << >>
    <2>1. Len(<< >>) = 0
      OBVIOUS
    <2> QED BY <2>1
  <1>3. content[n][i].ID \in {"", content[n][i].settings}
    BY <1>1, <1>2, ClusterAssumption
  <1> QED BY <1>3 DEF estimatorID

\* The members of Sent.
LEMMA SentMember ==
  ASSUME NEW i, NEW r
  PROVE  r \in Sent(i) <=> \E n \in Node : \E j \in 1 .. i[n] : r = <<n, j>>
  BY DEF Sent

\* What was received so far are snapshots, which have the ID of their settings.
LEMMA SentType ==
  ASSUME ClusterTypeOK, FetchInv, NEW r \in Sent(pos)
  PROVE  IsSnapshot(At(r)) /\ estimatorID(At(r)) = At(r).settings
  <1>1. PICK n \in Node : \E j \in 1 .. pos[n] : r = <<n, j>>
    BY SentMember
  <1>2. PICK j \in 1 .. pos[n] : r = <<n, j>>
    BY <1>1
  <1>3. pos[n] \in Nat /\ pos[n] <= Len(content[n])
    BY DEF ClusterTypeOK, FetchInv
  <1>4. j \in 1 .. Len(content[n])
    BY <1>3, ContentType
  <1>5. At(r) = content[n][j]
    BY <1>2 DEF At
  <1>6. IsSnapshot(content[n][j])
    BY <1>4, ContentType
  <1>7. estimatorID(content[n][j]) = content[n][j].settings
    BY <1>4, ContentID
  <1> QED BY <1>5, <1>6, <1>7

\* Operators on snapshots that depend on what the nodes hold only.
LEMMA SameContent ==
  ASSUME content' = content
  PROVE  /\ \A R, id : Of(R, id)' = Of(R, id)
         /\ \A R : Rejected(R)' = Rejected(R)
         /\ \A s, R : MergedFrom(s, R)' <=> MergedFrom(s, R)
  <1>1. \A r : At(r)' = At(r)
    BY DEF At
  <1>2. \A R, k : SketchesOf(R, k)' = SketchesOf(R, k)
    BY DEF SketchesOf, At
  <1>3. \A R : Rejected(R)' = Rejected(R)
    BY DEF Rejected, At
  <1>4. \A R, id : Of(R, id)' = Of(R, id)
    BY DEF Of, At
  <1>5. \A s, R : MergedFrom(s, R)' <=> MergedFrom(s, R)
    BY DEF MergedFrom, SketchesOf, Rejected, At
  <1> QED BY <1>3, <1>4, <1>5

-----------------------------------------------------------------------------
(* One step of a fetch *)

\* FetchNext receives one snapshot that was not received yet, and adds it.
LEMMA FetchNextReceives ==
  ASSUME ClusterInv, NEW n \in Node, FetchNext(n)
  PROVE  LET r == <<n, pos[n] + 1>> IN
         /\ Sent(pos)' = Sent(pos) \cup {r}
         /\ r \notin Sent(pos)
         /\ IsSnapshot(At(r))
         /\ ss' = add(ss, At(r))
         /\ content' = content
  <1> DEFINE r == <<n, pos[n] + 1>>
  <1>0. ClusterTypeOK /\ FetchInv
    BY DEF ClusterInv
  <1>1. /\ pos[n] < Len(content[n])
        /\ pos' = [pos EXCEPT ![n] = @ + 1]
        /\ dec' = [dec EXCEPT ![n] = Decode(reset(@), content[n][pos[n] + 1])]
        /\ ss' = add(ss, dec'[n]) /\ content' = content
    BY DEF FetchNext
  <1>2. pos \in [Node -> Nat] /\ DOMAIN dec = Node
    BY <1>0 DEF ClusterTypeOK
  <1>3. \A m \in Node : pos'[m] = IF m = n THEN pos[n] + 1 ELSE pos[m]
    BY <1>1, <1>2
  <1>4. ASSUME NEW q
        PROVE  q \in Sent(pos)' <=> q \in Sent(pos) \cup {r}
    <2>1. q \in Sent(pos)' <=> \E m \in Node : \E j \in 1 .. pos'[m] : q = <<m, j>>
      BY DEF Sent
    <2>2. \A m \in Node : 1 .. pos'[m] = IF m = n THEN (1 .. pos[n]) \cup {pos[n] + 1}
                                         ELSE 1 .. pos[m]
      <3>1. ASSUME NEW m \in Node, m # n
            PROVE  1 .. pos'[m] = 1 .. pos[m]
        BY <1>3, <3>1
      <3>2. 1 .. pos'[n] = (1 .. pos[n]) \cup {pos[n] + 1}
        <4>1. pos[n] \in Nat /\ pos'[n] = pos[n] + 1
          BY <1>2, <1>3
        <4> QED BY <4>1
      <3> QED BY <3>1, <3>2
    <2>3. q \in Sent(pos) <=> \E m \in Node : \E j \in 1 .. pos[m] : q = <<m, j>>
      BY SentMember
    <2> HIDE DEF r
    <2>4. ASSUME NEW m \in Node, NEW j \in 1 .. pos'[m], q = <<m, j>>
          PROVE  q \in Sent(pos) \cup {r}
      <3>1. CASE m = n /\ j = pos[n] + 1
        BY <2>4, <3>1 DEF r
      <3>2. CASE j \in 1 .. pos[m]
        BY <2>3, <2>4, <3>2
      <3> QED BY <2>2, <3>1, <3>2
    <2>5. ASSUME q \in Sent(pos)
          PROVE  \E m \in Node : \E j \in 1 .. pos'[m] : q = <<m, j>>
      BY <2>2, <2>3, <2>5
    <2>6. ASSUME q = r
          PROVE  \E m \in Node : \E j \in 1 .. pos'[m] : q = <<m, j>>
      <3>1. pos[n] + 1 \in 1 .. pos'[n]
        BY <2>2
      <3> QED BY <2>6, <3>1 DEF r
    <2> QED BY <2>1, <2>4, <2>5, <2>6
  <1>5. r \notin Sent(pos)
    BY <1>2, SentMember
  <1>6. IsSnapshot(At(r))
    <2>1. pos[n] + 1 \in 1 .. Len(content[n])
      BY <1>0, <1>1, <1>2, ContentType
    <2> QED BY <1>0, <2>1, ContentType DEF At
  <1>7. dec'[n] = At(r)
    <2>1. dec'[n] = Decode(reset(dec[n]), content[n][pos[n] + 1])
      BY <1>1, <1>2
    <2>2. At(r) = content[n][pos[n] + 1]
      BY DEF At
    <2> QED BY <1>6, <2>1, <2>2, Decoded
  <1> QED BY <1>1, <1>4, <1>5, <1>6, <1>7

\* The received snapshots of a stream that has none merged yet.
LEMMA NoneReceived ==
  ASSUME MergedInv, NEW id, id \notin DOMAIN ss
  PROVE  Of(Sent(pos), id) = {}
  BY DEF MergedInv, Of

\* add keeps a merge of everything that was received, for every stream.
LEMMA FetchNextMerges ==
  ASSUME ClusterInv, NEW n \in Node, FetchNext(n)
  PROVE  /\ \A id \in DOMAIN ss' : IsSnapshot(ss'[id])
         /\ MergedInv' /\ RejectedFinite'
  <1> DEFINE r   == <<n, pos[n] + 1>>
             msg == At(r)
             id0 == estimatorID(msg)
             o   == [msg EXCEPT !.ID = id0]
             old == IF id0 \in DOMAIN ss THEN ss[id0] ELSE newSnapshot
             R   == Of(Sent(pos), id0)
  <1>0. ClusterTypeOK /\ FetchInv /\ MergedInv /\ RejectedFinite
    BY DEF ClusterInv
  <1>1. /\ Sent(pos)' = Sent(pos) \cup {r} /\ r \notin Sent(pos)
        /\ IsSnapshot(msg) /\ ss' = add(ss, msg) /\ content' = content
    BY FetchNextReceives
  <1>2. /\ id0 \in StreamID /\ IsSnapshot(o)
        /\ o.Sketches = msg.Sketches /\ o.GroupRejectSize = msg.GroupRejectSize
        /\ o.MinCardinality = msg.MinCardinality /\ o.CalculateChurn = msg.CalculateChurn
        /\ o.GroupLimit = msg.GroupLimit /\ o.settings = msg.settings
    BY <1>1, WithIDType
  <1>3. /\ DOMAIN ss' = DOMAIN ss \cup {id0}
        /\ ss'[id0] = merge(old, o)
        /\ \A id \in DOMAIN ss \ {id0} : ss'[id] = ss[id]
    BY <1>1 DEF add
  <1>4. IsSnapshot(old)
    BY <1>0, NewSnapshotType DEF ClusterTypeOK
  <1>5. (R = {} /\ old = newSnapshot) \/ MergedFrom(old, R)
    <2>1. CASE id0 \in DOMAIN ss
      BY <1>0, <2>1 DEF MergedInv
    <2>2. CASE id0 \notin DOMAIN ss
      BY <1>0, <2>2, NoneReceived
    <2> QED BY <2>1, <2>2
  <1>6. IsFiniteSet(Rejected(R))
    <2>1. CASE id0 \in DOMAIN ss
      BY <1>0, <2>1 DEF RejectedFinite
    <2>2. CASE id0 \notin DOMAIN ss
      <3>1. R = {}
        BY <1>0, <2>2, NoneReceived
      <3>2. Rejected(R) = {}
        BY <3>1 DEF Rejected
      <3> QED BY <3>2, FS_EmptySet
    <2> QED BY <2>1, <2>2
  <1>7. /\ r \notin R
        /\ \A q \in R \cup {r} : IsSnapshot(At(q))
    BY <1>0, <1>1, SentType DEF Of
  <1>8. Of(Sent(pos) \cup {r}, id0) = R \cup {r}
    BY DEF Of
  <1>9. \A id : id # id0 => Of(Sent(pos) \cup {r}, id) = Of(Sent(pos), id)
    BY DEF Of
  <1>10. estimatorID(At(r)) = id0 /\ At(r) = msg
    OBVIOUS
  <1> HIDE DEF R, old, o, id0, msg, r
  <1>11. IsSnapshot(merge(old, o))
    BY <1>2, <1>4, MergeType
  <1>12. MergedFrom(merge(old, o), R \cup {r})
    BY <1>2, <1>4, <1>5, <1>6, <1>7, <1>10, MergeOneMore
  <1>13. IsFiniteSet(Rejected(R \cup {r}))
    <2>1. At(r).GroupRejectSize \in Nat
      BY <1>1, <1>10, SnapshotFields
    <2> QED BY <1>6, <1>7, <2>1, RejectedOneMore
  <1>14. \A id \in DOMAIN ss' : Of(Sent(pos), id)' =
           IF id = id0 THEN R \cup {r} ELSE Of(Sent(pos), id)
    <2>1. \A id : Of(Sent(pos), id)' = Of(Sent(pos) \cup {r}, id)
      BY <1>1 DEF Of, At
    <2> QED BY <1>8, <1>9, <2>1
  <1>15. \A id \in DOMAIN ss' : IsSnapshot(ss'[id])
    BY <1>0, <1>3, <1>11 DEF ClusterTypeOK
  <1>16. ASSUME NEW id \in DOMAIN ss'
         PROVE  /\ MergedFrom(ss[id], Of(Sent(pos), id))'
                /\ IsFiniteSet(Rejected(Of(Sent(pos), id)))'
    <2>1. /\ MergedFrom(ss'[id], Of(Sent(pos), id)')
          /\ IsFiniteSet(Rejected(Of(Sent(pos), id)'))
      <3>1. CASE id = id0
        BY <1>3, <1>12, <1>13, <1>14, <3>1
      <3>2. CASE id # id0
        BY <1>0, <1>3, <1>14, <3>2 DEF MergedInv, RejectedFinite
      <3> QED BY <3>1, <3>2
    <2> QED BY <1>1, <2>1, SameContent
  <1>17. DOMAIN ss' = {estimatorID(At(q)) : q \in Sent(pos)}'
    <2>1. {estimatorID(At(q)) : q \in Sent(pos)}' = {estimatorID(At(q)) : q \in Sent(pos) \cup {r}}
      BY <1>1 DEF At, estimatorID
    <2> QED BY <1>0, <1>3, <1>10, <2>1 DEF MergedInv
  <1> QED BY <1>15, <1>16, <1>17 DEF MergedInv, RejectedFinite

-----------------------------------------------------------------------------
(* Churn entries *)

\* The constants are numbers.
LEMMA Ticks == Interval \in Nat /\ MaxGap \in Nat
  BY IntervalAssumption, ClusterAssumption

\* A union of one precision is determined by its precision.
LEMMA EqualUnions ==
  ASSUME NEW S, NEW a, NEW b, a.p = b.p, UnionOfOnePrecision(a, S), UnionOfOnePrecision(b, S)
  PROVE  a.elems = b.elems
  BY DEF UnionOfOnePrecision

\* A sketch has a cardinality.
LEMMA ElemsFinite ==
  ASSUME NEW sk, sk \in TakenSketch \/ sk \in Sketch
  PROVE  IsFiniteSet(sk.elems) /\ Cardinality(sk.elems) \in Nat
  <1>1. sk.elems \in SUBSET FP
    BY DEF TakenSketch, Sketch
  <1> QED BY <1>1, IntervalAssumption, FS_Subset, FS_CardinalityType

\* There is no churn between sketches of the same contents.
LEMMA NoChurn ==
  ASSUME NEW e, e.curr.sketch \in TakenSketch,
         e.prev.sketch \in TakenSketch \cup {NilSketch},
         UnionOfOnePrecision(e.curr.sketch, e.curr.sketch.of),
         e.prev.sketch # NilSketch => UnionOfOnePrecision(e.prev.sketch, e.prev.sketch.of),
         e.prev.sketch.of = e.curr.sketch.of
  PROVE  churnRatio(e)[1] = 0
  <1> DEFINE psk == e.prev.sketch
             csk == e.curr.sketch
  <1>1. CASE psk = NilSketch \/ ~ Mergeable(csk, psk)
    BY <1>1 DEF churnRatio
  <1>2. CASE psk # NilSketch /\ csk.p = psk.p
    <2>1. psk.elems = csk.elems
      BY <1>2, EqualUnions
    <2>2. psk.elems \cup csk.elems = csk.elems
      BY <2>1
    <2>3. Cardinality(csk.elems) \in Nat
      BY ElemsFinite
    <2> DEFINE c == Cardinality(csk.elems)
    <2>4. churnRatio(e) = IF c = 0 THEN <<0, 1>> ELSE <<2 * c - c - c, c>>
      <3>1. Cardinality(psk.elems \cup csk.elems) = c /\ Cardinality(psk.elems) = c
        BY <2>1, <2>2
      <3> HIDE DEF c
      <3> QED BY <1>2, <3>1 DEF churnRatio, Mergeable, c
    <2>5. 2 * c - c - c = 0
      BY <2>3
    <2> HIDE DEF c
    <2> QED BY <2>4, <2>5
  <1> QED BY <1>1, <1>2 DEF Mergeable

\* ChurnOfFullUnions and BaselineAge, for an entry of EntryInv.
LEMMA EntryProperties ==
  ASSUME ClusterTypeOK, EntryInv
  PROVE  ChurnOfFullUnions /\ BaselineAge
  <1> DEFINE w == 2 * Interval + (IF scraping THEN MaxGap ELSE since)
  <1>1. \A k \in DOMAIN churn : EntryOK(churn[k], w)
    BY DEF EntryInv
  <1>2. Interval \in Nat /\ MaxGap \in Nat /\ w \in Nat
        /\ (~ scraping /\ since = 0 => w = 2 * Interval)
    <2>1. since \in 0 .. MaxGap
      BY DEF ClusterTypeOK
    <2> QED BY <2>1, Ticks
  <1> HIDE DEF w
  <1>3. ASSUME NEW k \in DOMAIN churn
        PROVE  churn[k].prev.sketch.of = churn[k].curr.sketch.of => churnRatio(churn[k])[1] = 0
    <2> DEFINE e == churn[k]
    <2>1. EntryOK(e, w)
      BY <1>1
    <2>2. /\ e.curr.sketch \in TakenSketch
          /\ e.prev.sketch \in TakenSketch \cup {NilSketch}
      BY <2>1 DEF EntryOK
    <2> HIDE DEF e
    <2>3. e.prev.sketch.of = e.curr.sketch.of => churnRatio(e)[1] = 0
      BY <2>1, <2>2, NoChurn DEF EntryOK
    <2> QED BY <2>3 DEF e
  <1>4. ChurnOfFullUnions
    BY <1>1, <1>3 DEF ChurnOfFullUnions, EntryOK
  <1>5. ASSUME NEW k \in DOMAIN churn
        PROVE  LET e == churn[k]  between == e.prev.sketch.taken - e.curr.sketch.taken IN
               /\ ~ scraping /\ e.curr.addedAt = 0 => e.prev.addedAt <= Interval
               /\ ~ scraping /\ since = 0 => e.curr.sketch.taken <= 2 * Interval
               /\ e.prev.sketch # NilSketch =>
                    0 <= between /\ between <= Interval + (2 * Interval + MaxGap)
    <2> DEFINE e == churn[k]
    <2>1. EntryOK(e, w)
      BY <1>1
    <2>2. /\ e.prev.addedAt \in Nat /\ e.curr.addedAt \in Nat
          /\ e.prev.sketch # NilSketch => e.prev.sketch.taken \in Nat
      BY <2>1 DEF EntryOK, TakenSketch
    <2> QED BY <1>2, <2>1, <2>2 DEF EntryOK
  <1> QED BY <1>4, <1>5 DEF BaselineAge

\* An entry from its fields.
LEMMA EntryFromFields ==
  ASSUME NEW a \in Nat, NEW c \in Nat, NEW w \in Nat,
         NEW psk \in TakenSketch \cup {NilSketch}, NEW csk \in TakenSketch,
         UnionOfOnePrecision(csk, csk.of), csk.taken = c, c <= w, c <= a, a <= c + Interval,
         psk # NilSketch => /\ UnionOfOnePrecision(psk, psk.of)
                            /\ a <= psk.taken /\ psk.taken <= a + (2 * Interval + MaxGap)
  PROVE  EntryOK([prev |-> [addedAt |-> a, sketch |-> psk], curr |-> [addedAt |-> c, sketch |-> csk]], w)
  <1> DEFINE prev == [addedAt |-> a, sketch |-> psk]
             curr == [addedAt |-> c, sketch |-> csk]
             e == [prev |-> prev, curr |-> curr]
  <1>1. /\ prev \in [addedAt : Nat, sketch : TakenSketch \cup {NilSketch}]
        /\ curr \in [addedAt : Nat, sketch : TakenSketch]
        /\ prev.addedAt = a /\ prev.sketch = psk /\ curr.addedAt = c /\ curr.sketch = csk
    OBVIOUS
  <1> HIDE DEF prev, curr
  <1>2. /\ e.prev = prev /\ e.curr = curr
        /\ e \in [ prev : [addedAt : Nat, sketch : TakenSketch \cup {NilSketch}],
                   curr : [addedAt : Nat, sketch : TakenSketch] ]
    BY <1>1
  <1> HIDE DEF e
  <1>3. EntryOK(e, w)
    BY <1>1, <1>2 DEF EntryOK
  <1> QED BY <1>3 DEF e, prev, curr

\* The fields of an entry.
LEMMA EntryFields ==
  ASSUME NEW e, NEW w, EntryOK(e, w)
  PROVE  /\ e.prev.addedAt \in Nat /\ e.curr.addedAt \in Nat
         /\ e.prev.sketch \in TakenSketch \cup {NilSketch} /\ e.curr.sketch \in TakenSketch
         /\ UnionOfOnePrecision(e.curr.sketch, e.curr.sketch.of)
         /\ e.curr.sketch.taken = e.curr.addedAt
         /\ e.curr.addedAt <= w
         /\ e.curr.addedAt <= e.prev.addedAt /\ e.prev.addedAt <= e.curr.addedAt + Interval
         /\ e.prev.sketch # NilSketch =>
              /\ UnionOfOnePrecision(e.prev.sketch, e.prev.sketch.of)
              /\ e.prev.addedAt <= e.prev.sketch.taken
              /\ e.prev.sketch.taken <= e.prev.addedAt + (2 * Interval + MaxGap)
         /\ e.prev = [addedAt |-> e.prev.addedAt, sketch |-> e.prev.sketch]
  BY DEF EntryOK

\* A sketch is not nil, and its age is a number.
LEMMA NotNil == \A sk \in TakenSketch : sk # NilSketch /\ sk.taken \in Nat
  BY DEF TakenSketch, NilSketch

\* An entry that is created.
LEMMA NewEntryOK ==
  ASSUME NEW sk \in TakenSketch, sk.taken = 0, UnionOfOnePrecision(sk, sk.of)
  PROVE  EntryOK(newEntry([addedAt |-> 0, sketch |-> sk]), 2 * Interval)
  <1>1. EntryOK([prev |-> [addedAt |-> 0, sketch |-> NilSketch], curr |-> [addedAt |-> 0, sketch |-> sk]],
                2 * Interval)
    BY Ticks, EntryFromFields
  <1> QED BY <1>1 DEF newEntry

\* An entry that is updated.
LEMMA UpdatedEntryOK ==
  ASSUME NEW e, EntryOK(e, 2 * Interval + MaxGap),
         NEW sk \in TakenSketch, sk.taken = 0, UnionOfOnePrecision(sk, sk.of)
  PROVE  EntryOK(updateEntry(e, [addedAt |-> 0, sketch |-> sk]), 2 * Interval)
  <1> DEFINE curr == [addedAt |-> 0, sketch |-> sk]
  <1>1. CASE e.prev.addedAt > Interval
    <2>1. EntryOK([prev |-> [addedAt |-> 0, sketch |-> e.curr.sketch], curr |-> curr], 2 * Interval)
      <3> DEFINE psk == e.curr.sketch
      <3>1. /\ psk \in TakenSketch /\ UnionOfOnePrecision(psk, psk.of)
            /\ psk.taken \in Nat /\ psk.taken <= 2 * Interval + MaxGap
        BY EntryFields
      <3> HIDE DEF psk
      <3>2. EntryOK([prev |-> [addedAt |-> 0, sketch |-> psk], curr |-> curr], 2 * Interval)
        BY <3>1, Ticks, EntryFromFields
      <3> QED BY <3>2 DEF psk
    <2> QED BY <1>1, <2>1 DEF updateEntry
  <1>2. CASE ~ (e.prev.addedAt > Interval)
    <2>1. EntryOK([prev |-> [addedAt |-> e.prev.addedAt, sketch |-> e.prev.sketch], curr |-> curr],
                  2 * Interval)
      BY <1>2, Ticks, EntryFields, EntryFromFields
    <2>2. e.prev = [addedAt |-> e.prev.addedAt, sketch |-> e.prev.sketch]
      BY EntryFields
    <2> QED BY <1>2, <2>1, <2>2 DEF updateEntry
  <1> QED BY <1>1, <1>2

\* An entry a tick later.
LEMMA OlderEntryOK ==
  ASSUME NEW e, NEW w \in Nat, EntryOK(e, w)
  PROVE  EntryOK([ prev |-> [addedAt |-> e.prev.addedAt + 1, sketch |-> Older(e.prev.sketch)],
                   curr |-> [addedAt |-> e.curr.addedAt + 1, sketch |-> Older(e.curr.sketch)] ], w + 1)
  <1>1. \A x \in TakenSketch :
          /\ Older(x) \in TakenSketch /\ Older(x).taken = x.taken + 1
          /\ Older(x).p = x.p /\ Older(x).elems = x.elems /\ Older(x).of = x.of
    BY NotNil DEF Older, TakenSketch
  <1>2. Older(NilSketch) = NilSketch
    BY DEF Older
  <1>3. \A x \in TakenSketch :
          UnionOfOnePrecision(x, x.of) => UnionOfOnePrecision(Older(x), Older(x).of)
    BY <1>1 DEF UnionOfOnePrecision
  <1> DEFINE a == e.prev.addedAt
             c == e.curr.addedAt
             psk == e.prev.sketch
             csk == e.curr.sketch
  <1>4. /\ a \in Nat /\ c \in Nat /\ psk \in TakenSketch \cup {NilSketch} /\ csk \in TakenSketch
        /\ UnionOfOnePrecision(csk, csk.of) /\ csk.taken = c /\ c <= w
        /\ c <= a /\ a <= c + Interval
        /\ psk # NilSketch =>
             /\ UnionOfOnePrecision(psk, psk.of)
             /\ a <= psk.taken /\ psk.taken <= a + (2 * Interval + MaxGap)
    BY EntryFields
  <1> HIDE DEF a, c, psk, csk
  <1>5. /\ Older(csk) \in TakenSketch /\ Older(csk).taken = c + 1
        /\ UnionOfOnePrecision(Older(csk), Older(csk).of)
    BY <1>1, <1>3, <1>4
  <1>6. /\ Older(psk) \in TakenSketch \cup {NilSketch}
        /\ Older(psk) # NilSketch =>
             /\ UnionOfOnePrecision(Older(psk), Older(psk).of)
             /\ a + 1 <= Older(psk).taken /\ Older(psk).taken <= a + 1 + (2 * Interval + MaxGap)
    <2>1. CASE psk = NilSketch
      BY <1>2, <2>1
    <2>2. CASE psk # NilSketch
      <3>1. psk \in TakenSketch /\ psk.taken \in Nat
        BY <1>4, <2>2, NotNil
      <3>2. Older(psk) \in TakenSketch /\ Older(psk).taken = psk.taken + 1
            /\ UnionOfOnePrecision(Older(psk), Older(psk).of)
        BY <1>1, <1>3, <1>4, <2>2, <3>1
      <3> QED BY <1>4, <2>2, <3>1, <3>2, Ticks
    <2> QED BY <2>1, <2>2
  <1>7. a + 1 \in Nat /\ c + 1 \in Nat /\ w + 1 \in Nat /\ c + 1 <= w + 1 /\ c + 1 <= a + 1
        /\ a + 1 <= c + 1 + Interval
    BY <1>4, Ticks
  <1>8. EntryOK([ prev |-> [addedAt |-> a + 1, sketch |-> Older(psk)],
                  curr |-> [addedAt |-> c + 1, sketch |-> Older(csk)] ], w + 1)
    BY <1>5, <1>6, <1>7, EntryFromFields
  <1> QED BY <1>8 DEF a, c, psk, csk

-----------------------------------------------------------------------------
(* The invariant *)

\* What the nodes that answered well sent is everything.
LEMMA EverythingSent ==
  ASSUME ClusterTypeOK, FetchInv, \A n \in Node : fetch[n] = "ok"
  PROVE  Sent(pos) = Everything
  <1>1. \A n \in Node : pos[n] = Len(content[n])
    BY DEF FetchInv
  <1> QED BY <1>1 DEF Everything, Sent

\* What is taken for churn are full unions.
LEMMA TakenOK ==
  ASSUME ClusterInv, \A n \in Node : fetch[n] = "ok", NEW g \in DOMAIN Taken
  PROVE  /\ Taken[g] \in TakenSketch /\ Taken[g].taken = 0
         /\ UnionOfOnePrecision(Taken[g], Taken[g].of)
  <1>0. ClusterTypeOK /\ FetchInv /\ MergedInv
    BY DEF ClusterInv
  <1> DEFINE sk == ss[g[1]].Sketches[g[2]]
             of == SketchesOf(Of(Everything, g[1]), g[2])
  <1>1. /\ Taken[g] = [p |-> sk.p, elems |-> sk.elems, taken |-> 0, of |-> of]
        /\ g[1] \in DOMAIN ss /\ g[2] \in DOMAIN ss[g[1]].Sketches
    BY DEF Taken, Churning
  <1>2. sk \in Sketch
    BY <1>0, <1>1, SnapshotFields DEF ClusterTypeOK
  <1>3. UnionOfOnePrecision(sk, of)
    BY <1>0, <1>1, EverythingSent DEF MergedInv, MergedFrom
  <1>4. of \subseteq Sketch
    <2>1. \A r \in Everything : IsSnapshot(At(r))
      BY <1>0, EverythingSent, SentType
    <2> QED BY <2>1, SnapshotFields DEF SketchesOf, Of
  <1> HIDE DEF sk, of
  <1>5. Taken[g] \in TakenSketch /\ Taken[g].taken = 0
        /\ Taken[g].p = sk.p /\ Taken[g].elems = sk.elems /\ Taken[g].of = of
    BY <1>1, <1>2, <1>4 DEF TakenSketch, Sketch
  <1> QED BY <1>3, <1>5 DEF UnionOfOnePrecision

\* An entry may be allowed to be older.
LEMMA EntryWeaken ==
  ASSUME NEW e, NEW v \in Nat, NEW w \in Nat, v <= w, EntryOK(e, v)
  PROVE  EntryOK(e, w)
  BY DEF EntryOK

\* The end of a scrape leaves entries that were updated within two intervals.
LEMMA ScrapeDoneInv ==
  ASSUME ClusterInv, ScrapeDone
  PROVE  ClusterInv'
  <1>0. ClusterTypeOK /\ FetchInv /\ EntryInv
    BY DEF ClusterInv
  <1>1. /\ churn' = cleanup(updatedChurn)
        /\ scraping' = FALSE /\ fetch' = NoFetch /\ pos' = [n \in Node |-> 0]
        /\ dec' = [n \in Node |-> newSnapshot] /\ ss' = EmptyMap /\ content' = NoContent
        /\ since' = since /\ scraping
    BY DEF ScrapeDone, Fetched
  <1>2. since = 0
    BY <1>0, <1>1 DEF FetchInv
  <1>3. DOMAIN EmptyMap = {}
    BY DEF EmptyMap
  <1>4. \A n \in Node : content'[n] = << >> /\ pos'[n] = 0 /\ fetch'[n] = "ok"
    BY <1>1 DEF NoContent, NoFetch
  <1>5. Len(<< >>) = 0
    OBVIOUS
  <1>6. ClusterTypeOK'
    BY <1>0, <1>1, <1>3 DEF ClusterTypeOK, NoContent, NoFetch
  <1>7. FetchInv'
    BY <1>1, <1>4, <1>5 DEF FetchInv
  <1>8. Sent(pos)' = {}
    <2>1. \A n \in Node : 1 .. pos'[n] = {}
      BY <1>4
    <2> QED BY <2>1 DEF Sent
  <1>9. MergedInv' /\ RejectedFinite'
    BY <1>1, <1>3, <1>8 DEF MergedInv, RejectedFinite
  <1>10. \A k \in DOMAIN churn : EntryOK(churn[k], 2 * Interval + MaxGap)
    BY <1>0, <1>1 DEF EntryInv
  <1>11. ASSUME NEW k \in DOMAIN updatedChurn
         PROVE  EntryOK(updatedChurn[k], 2 * Interval + MaxGap)
    <2>1. CASE ~ \A n \in Node : fetch[n] = "ok"
      BY <1>10, <1>11, <2>1 DEF updatedChurn
    <2>2. CASE \A n \in Node : fetch[n] = "ok"
      <3>1. updatedChurn = update(churn, Taken)
        BY <2>2 DEF updatedChurn
      <3> DEFINE sk == Taken[k]
                 e  == churn[k]
      <3>2. CASE k \notin DOMAIN Taken
        <4>1. k \in DOMAIN churn /\ updatedChurn[k] = churn[k]
          BY <1>11, <3>1, <3>2 DEF update
        <4> QED BY <1>10, <4>1
      <3>3. CASE k \in DOMAIN Taken
        <4>1. sk \in TakenSketch /\ sk.taken = 0 /\ UnionOfOnePrecision(sk, sk.of)
          BY <2>2, <3>3, TakenOK
        <4>2. updatedChurn[k] = IF k \in DOMAIN churn
                                THEN updateEntry(e, [addedAt |-> 0, sketch |-> sk])
                                ELSE newEntry([addedAt |-> 0, sketch |-> sk])
          BY <1>11, <3>1, <3>3 DEF update
        <4>3. k \in DOMAIN churn => EntryOK(e, 2 * Interval + MaxGap)
          BY <1>10
        <4> HIDE DEF sk, e
        <4>4. EntryOK(updatedChurn[k], 2 * Interval)
          BY <4>1, <4>2, <4>3, NewEntryOK, UpdatedEntryOK
        <4> QED BY <4>4, EntryWeaken, Ticks
      <3> QED BY <3>2, <3>3
    <2> QED BY <2>1, <2>2
  <1>12. \A k \in DOMAIN churn' : EntryOK(churn'[k], 2 * Interval)
    <2>1. ASSUME NEW k \in DOMAIN churn'
          PROVE  EntryOK(churn'[k], 2 * Interval)
      <3>1. /\ k \in DOMAIN updatedChurn /\ churn'[k] = updatedChurn[k]
            /\ updatedChurn[k].curr.addedAt <= 2 * Interval
        BY <1>1 DEF cleanup
      <3>2. EntryOK(updatedChurn[k], 2 * Interval + MaxGap)
        BY <1>11, <3>1
      <3> QED BY <3>1, <3>2 DEF EntryOK
    <2> QED BY <2>1
  <1>13. EntryInv'
    <2>1. 2 * Interval + (IF scraping' THEN MaxGap ELSE since') = 2 * Interval
      BY <1>1, <1>2, Ticks
    <2> QED BY <1>12, <2>1 DEF EntryInv
  <1> QED BY <1>6, <1>7, <1>9, <1>13 DEF ClusterInv

\* Nothing is fetched and no entry there is.
LEMMA ClusterInitInv == ClusterInit => ClusterInv
  <1> SUFFICES ASSUME ClusterInit
               PROVE  ClusterInv
    OBVIOUS
  <1>1. /\ content = NoContent /\ fetch = NoFetch /\ pos = [n \in Node |-> 0]
        /\ dec = [n \in Node |-> newSnapshot] /\ ss = EmptyMap
        /\ scraping = FALSE /\ since = 0 /\ churn = EmptyMap
    BY DEF ClusterInit
  <1>2. DOMAIN EmptyMap = {} /\ Len(<< >>) = 0
    BY DEF EmptyMap
  <1>3. ClusterTypeOK
    <2>1. since \in 0 .. MaxGap
      BY <1>1, Ticks
    <2>4. scraping \in BOOLEAN
      BY <1>1
    <2>2. content \in [Node -> Contents \cup {<< >>}]
      BY <1>1 DEF NoContent
    <2>3. fetch \in [Node -> {"open", "ok", "failed"}] /\ pos \in [Node -> Nat] /\ DOMAIN dec = Node
      BY <1>1 DEF NoFetch
    <2> QED BY <1>1, <1>2, <2>1, <2>2, <2>3, <2>4 DEF ClusterTypeOK
  <1>4. FetchInv
    BY <1>1, <1>2 DEF FetchInv, NoContent, NoFetch
  <1>5. Sent(pos) = {}
    <2>1. \A n \in Node : 1 .. pos[n] = {}
      BY <1>1
    <2> QED BY <2>1 DEF Sent
  <1>6. MergedInv /\ RejectedFinite /\ EntryInv
    BY <1>1, <1>2, <1>5 DEF MergedInv, RejectedFinite, EntryInv
  <1> QED BY <1>3, <1>4, <1>6 DEF ClusterInv

\* Entries that do not change, at a moment when they may be as old as before.
LEMMA SameEntries ==
  ASSUME ClusterTypeOK, EntryInv, churn' = churn,
         \/ UNCHANGED <<scraping, since>>
         \/ scraping' = TRUE
  PROVE  EntryInv'
  <1> DEFINE v == 2 * Interval + (IF scraping THEN MaxGap ELSE since)
             w == 2 * Interval + (IF scraping' THEN MaxGap ELSE since')
  <1>1. since \in 0 .. MaxGap
    BY DEF ClusterTypeOK
  <1>2. v \in Nat /\ w \in Nat /\ v <= w
    <2>1. CASE UNCHANGED <<scraping, since>>
      BY <1>1, <2>1, Ticks
    <2>2. CASE scraping' = TRUE
      BY <1>1, <2>2, Ticks
    <2> QED BY <2>1, <2>2
  <1>3. \A k \in DOMAIN churn : EntryOK(churn[k], v)
    BY DEF EntryInv
  <1> HIDE DEF v
  <1>4. \A k \in DOMAIN churn : EntryOK(churn[k], w)
    <2> HIDE DEF w
    <2> QED BY <1>2, <1>3, EntryWeaken
  <1> QED BY <1>4 DEF EntryInv

\* What was merged stays the merge of what was received.
LEMMA SameMerge ==
  ASSUME MergedInv, RejectedFinite, UNCHANGED <<content, pos, ss>>
  PROVE  MergedInv' /\ RejectedFinite'
  <1>1. Sent(pos)' = Sent(pos)
    BY DEF Sent
  <1>2. \A id : Of(Sent(pos), id)' = Of(Sent(pos), id)
    BY <1>1 DEF Of, At
  <1>3. ASSUME NEW id \in DOMAIN ss'
        PROVE  /\ MergedFrom(ss[id], Of(Sent(pos), id))'
               /\ IsFiniteSet(Rejected(Of(Sent(pos), id)))'
    <2>1. /\ MergedFrom(ss'[id], Of(Sent(pos), id)')
          /\ IsFiniteSet(Rejected(Of(Sent(pos), id)'))
      BY <1>2, <1>3 DEF MergedInv, RejectedFinite
    <2> QED BY <2>1, SameContent
  <1>4. DOMAIN ss' = {estimatorID(At(q)) : q \in Sent(pos)}'
    <2>1. {estimatorID(At(q)) : q \in Sent(pos)}' = {estimatorID(At(q)) : q \in Sent(pos)}
      BY <1>1 DEF At, estimatorID
    <2> QED BY <2>1 DEF MergedInv
  <1> QED BY <1>3, <1>4 DEF MergedInv, RejectedFinite

\* A scrape has received nothing when it starts.
LEMMA ScrapeStartInv ==
  ASSUME ClusterInv, ScrapeStart
  PROVE  ClusterInv'
  <1>0. ClusterTypeOK /\ FetchInv /\ EntryInv
    BY DEF ClusterInv
  <1>1. /\ ~ scraping /\ scraping' = TRUE /\ since' = 0 /\ content' \in [Node -> Contents]
        /\ fetch' = [n \in Node |-> "open"]
        /\ UNCHANGED <<pos, dec, ss, churn>>
    BY DEF ScrapeStart
  <1>2. ss = EmptyMap /\ DOMAIN EmptyMap = {} /\ Len(<< >>) = 0
    BY <1>0, <1>1 DEF FetchInv, EmptyMap
  <1>3. \A n \in Node : pos[n] = 0 /\ Len(content'[n]) \in Nat
    <2>1. ASSUME NEW n \in Node
          PROVE  pos[n] = 0
      BY <1>0, <1>1, <1>2 DEF FetchInv, ClusterTypeOK, NoContent
    <2>2. \A c \in Contents : Len(c) \in Nat
      BY ClusterAssumption
    <2> QED BY <1>1, <2>1, <2>2
  <1>4. ClusterTypeOK'
    BY <1>0, <1>1, <1>2, Ticks DEF ClusterTypeOK
  <1>5. FetchInv'
    BY <1>1, <1>3 DEF FetchInv
  <1>6. Sent(pos)' = {}
    <2>1. \A n \in Node : 1 .. pos'[n] = {}
      BY <1>1, <1>3
    <2> QED BY <2>1 DEF Sent
  <1>7. MergedInv' /\ RejectedFinite'
    BY <1>1, <1>2, <1>6 DEF MergedInv, RejectedFinite
  <1>8. EntryInv'
    BY <1>0, <1>1, SameEntries
  <1> QED BY <1>4, <1>5, <1>7, <1>8 DEF ClusterInv

\* A snapshot is received.
LEMMA FetchNextInv ==
  ASSUME ClusterInv, NEW n \in Node, FetchNext(n)
  PROVE  ClusterInv'
  <1>0. ClusterTypeOK /\ FetchInv /\ EntryInv
    BY DEF ClusterInv
  <1>1. /\ fetch[n] = "open" /\ pos[n] < Len(content[n])
        /\ pos' = [pos EXCEPT ![n] = @ + 1]
        /\ dec' = [dec EXCEPT ![n] = Decode(reset(@), content[n][pos[n] + 1])]
        /\ UNCHANGED <<content, fetch, scraping, since, churn>>
    BY DEF FetchNext
  <1>2. pos \in [Node -> Nat] /\ fetch \in [Node -> {"open", "ok", "failed"}] /\ Len(content[n]) \in Nat
    BY <1>0, ContentType DEF ClusterTypeOK
  <1>3. scraping
    BY <1>0, <1>1, <1>2 DEF FetchInv, NoFetch
  <1>4. /\ \A id \in DOMAIN ss' : IsSnapshot(ss'[id])
        /\ MergedInv' /\ RejectedFinite'
    BY FetchNextMerges
  <1>5. DOMAIN dec' = Node /\ pos' \in [Node -> Nat]
    BY <1>0, <1>1, <1>2 DEF ClusterTypeOK
  <1>6. ClusterTypeOK'
    BY <1>0, <1>1, <1>4, <1>5 DEF ClusterTypeOK
  <1>7. FetchInv'
    <2>1. ASSUME NEW m \in Node
          PROVE  pos'[m] <= Len(content'[m]) /\ (fetch'[m] = "ok" => pos'[m] = Len(content'[m]))
      <3>1. CASE m = n
        BY <1>1, <1>2, <3>1
      <3>2. CASE m # n
        BY <1>0, <1>1, <1>2, <3>2 DEF FetchInv
      <3> QED BY <3>1, <3>2
    <2> QED BY <1>0, <1>1, <1>3, <2>1 DEF FetchInv
  <1>8. EntryInv'
    BY <1>0, <1>1, SameEntries
  <1> QED BY <1>4, <1>6, <1>7, <1>8 DEF ClusterInv

\* A fetch ends, well or not.
LEMMA FetchEndsInv ==
  ASSUME ClusterInv, NEW n \in Node, FetchEnd(n) \/ FetchFail(n)
  PROVE  ClusterInv'
  <1>0. ClusterTypeOK /\ FetchInv /\ MergedInv /\ RejectedFinite /\ EntryInv
    BY DEF ClusterInv
  <1>1. /\ fetch[n] = "open"
        /\ \/ fetch' = [fetch EXCEPT ![n] = "ok"] /\ pos[n] = Len(content[n])
           \/ fetch' = [fetch EXCEPT ![n] = "failed"]
        /\ UNCHANGED <<content, pos, dec, ss, scraping, since, churn>>
    BY DEF FetchEnd, FetchFail
  <1>2. fetch \in [Node -> {"open", "ok", "failed"}]
    BY <1>0 DEF ClusterTypeOK
  <1>3. scraping
    BY <1>0, <1>1, <1>2 DEF FetchInv, NoFetch
  <1>4. ClusterTypeOK'
    BY <1>0, <1>1, <1>2 DEF ClusterTypeOK
  <1>5. FetchInv'
    BY <1>0, <1>1, <1>2, <1>3 DEF FetchInv
  <1>6. MergedInv' /\ RejectedFinite'
    BY <1>0, <1>1, SameMerge
  <1>7. EntryInv'
    BY <1>0, <1>1, SameEntries
  <1> QED BY <1>4, <1>5, <1>6, <1>7 DEF ClusterInv

\* A tick makes all entries older.
LEMMA ClusterTickInv ==
  ASSUME ClusterInv, Tick
  PROVE  ClusterInv'
  <1>0. ClusterTypeOK /\ FetchInv /\ MergedInv /\ RejectedFinite /\ EntryInv
    BY DEF ClusterInv
  <1>1. /\ ~ scraping /\ since < MaxGap /\ since' = since + 1
        /\ churn' = OneTickLater(churn)
        /\ UNCHANGED <<content, fetch, pos, dec, ss, scraping>>
    BY DEF Tick
  <1>2. since \in 0 .. MaxGap
    BY <1>0 DEF ClusterTypeOK
  <1>3. since' \in 0 .. MaxGap
    BY <1>1, <1>2, Ticks
  <1>4. ClusterTypeOK'
    BY <1>0, <1>1, <1>3 DEF ClusterTypeOK
  <1>5. FetchInv'
    BY <1>0, <1>1 DEF FetchInv
  <1>6. MergedInv' /\ RejectedFinite'
    BY <1>0, <1>1, SameMerge
  <1>7. EntryInv'
    <2> DEFINE w == 2 * Interval + since
    <2>1. w \in Nat /\ 2 * Interval + since' = w + 1
      BY <1>1, <1>2, Ticks
    <2>2. \A k \in DOMAIN churn : EntryOK(churn[k], w)
      BY <1>0, <1>1 DEF EntryInv
    <2>3. DOMAIN churn' = DOMAIN churn
      BY <1>1 DEF OneTickLater
    <2> HIDE DEF w
    <2>4. ASSUME NEW k \in DOMAIN churn
          PROVE  EntryOK(churn'[k], w + 1)
      <3> DEFINE e == churn[k]
      <3>1. churn'[k] = [ prev |-> [addedAt |-> e.prev.addedAt + 1, sketch |-> Older(e.prev.sketch)],
                          curr |-> [addedAt |-> e.curr.addedAt + 1, sketch |-> Older(e.curr.sketch)] ]
        BY <1>1 DEF OneTickLater
      <3>2. EntryOK(e, w)
        BY <2>2
      <3> HIDE DEF e
      <3> QED BY <2>1, <3>1, <3>2, OlderEntryOK
    <2> QED BY <1>1, <2>1, <2>3, <2>4 DEF EntryInv
  <1> QED BY <1>4, <1>5, <1>6, <1>7 DEF ClusterInv

\* Every step preserves the invariant.
LEMMA ClusterNextInv == ClusterInv /\ [ClusterNext]_clusterVars => ClusterInv'
  <1> SUFFICES ASSUME ClusterInv, [ClusterNext]_clusterVars
               PROVE  ClusterInv'
    OBVIOUS
  <1>1. CASE ScrapeStart
    BY <1>1, ScrapeStartInv
  <1>2. CASE ScrapeDone
    BY <1>2, ScrapeDoneInv
  <1>3. CASE Tick
    BY <1>3, ClusterTickInv
  <1>4. CASE \E n \in Node : FetchNext(n) \/ FetchEnd(n) \/ FetchFail(n)
    BY <1>4, FetchNextInv, FetchEndsInv
  <1>5. CASE UNCHANGED clusterVars
    <2>0. ClusterTypeOK /\ FetchInv /\ MergedInv /\ RejectedFinite /\ EntryInv
      BY DEF ClusterInv
    <2>1. UNCHANGED <<content, fetch, pos, dec, ss, scraping, since, churn>>
      BY <1>5 DEF clusterVars
    <2>2. ClusterTypeOK' /\ FetchInv'
      BY <2>0, <2>1 DEF ClusterTypeOK, FetchInv
    <2>3. MergedInv' /\ RejectedFinite'
      BY <2>0, <2>1, SameMerge
    <2>4. EntryInv'
      BY <2>0, <2>1, SameEntries
    <2> QED BY <2>2, <2>3, <2>4 DEF ClusterInv
  <1> QED BY <1>1, <1>2, <1>3, <1>4, <1>5 DEF ClusterNext

\* Where sketches have one precision, a union of one precision is that of all, and
\* where snapshots have one limit, the limit of one is that of all.
LEMMA MergeInAllOrders ==
  ASSUME NEW s, NEW R, MergedFrom(s, R)
  PROVE  MergeOf(s, R)
  <1>1. ASSUME NEW k \in DOMAIN s.Sketches,
               \A x, y \in SketchesOf(R, k) : x.p = y.p
        PROVE  /\ \A x \in SketchesOf(R, k) : s.Sketches[k].p = x.p
               /\ s.Sketches[k].elems = UNION {x.elems : x \in SketchesOf(R, k)}
    <2> DEFINE S == SketchesOf(R, k)
               sk == s.Sketches[k]
    <2>1. UnionOfOnePrecision(sk, S)
      BY DEF MergedFrom
    <2> HIDE DEF S, sk
    <2>2. \A x, y \in S : x.p = y.p
      BY <1>1 DEF S
    <2>3. \A x \in S : sk.p = x.p
      BY <2>1, <2>2 DEF UnionOfOnePrecision
    <2>4. {y \in S : y.p = sk.p} = S
      BY <2>3
    <2>5. sk.elems = UNION {x.elems : x \in S}
      BY <2>1, <2>4, Zenon DEF UnionOfOnePrecision
    <2> QED BY <2>3, <2>5 DEF S, sk
  <1>2. \A r \in R : (\A q \in R : At(q).GroupLimit = At(r).GroupLimit)
                     => s.GroupLimit = At(r).GroupLimit
    BY DEF MergedFrom
  <1>3. LET mins == {At(r).MinCardinality : r \in R} IN
        IF \E x \in mins : x < 0 THEN s.MinCardinality = -1
        ELSE s.MinCardinality \in mins /\ \A x \in mins : s.MinCardinality >= x
    BY Zenon DEF MergedFrom
  <1>4. /\ DOMAIN s.Sketches = UNION {DOMAIN At(r).Sketches : r \in R}
        /\ s.GroupRejectSize = Cardinality(Rejected(R))
        /\ s.CalculateChurn <=> \E r \in R : At(r).CalculateChurn
    BY DEF MergedFrom
  <1> QED BY <1>1, <1>2, <1>3, <1>4, Zenon DEF MergeOf

\* The invariant of a selector: fetches, merged snapshots and churn entries.
THEOREM ClusterInvariant == ClusterSpec => []ClusterInv
  BY ClusterInitInv, ClusterNextInv, PTL DEF ClusterSpec

\* In whatever order the snapshots of the nodes arrive, and wherever an answer
\* breaks off, snapshots.add leaves the merge of all that was received, as far as
\* the nodes agree on precision and limit.
THEOREM MergedInAnyOrder == ClusterSpec => []MergeIgnoresOrder
  <1>1. ClusterInv => MergeIgnoresOrder
    BY MergeInAllOrders DEF ClusterInv, MergedInv, MergeIgnoresOrder
  <1> QED BY <1>1, ClusterInvariant, PTL

\* Churn never compares partial unions: what churnSnapshots.update is given is
\* what all nodes hold, and equal contents have no churn.
THEOREM ChurnIsOfFullUnions == ClusterSpec => []ChurnOfFullUnions
  <1>1. ClusterInv => ChurnOfFullUnions
    BY EntryProperties DEF ClusterInv
  <1> QED BY <1>1, ClusterInvariant, PTL

\* The two sketches that churnRatio compares have bounded ages.
THEOREM BaselinesAge == ClusterSpec => []BaselineAge
  <1>1. ClusterInv => BaselineAge
    BY EntryProperties DEF ClusterInv
  <1> QED BY <1>1, ClusterInvariant, PTL

-----------------------------------------------------------------------------
(* What the selector exposes *)

\* The merged sketch of a group has all that one node holds for it, if the nodes
\* use one precision.
LEMMA NodeInMerge ==
  ASSUME NEW S, NEW sk, UnionOfOnePrecision(sk, S), \A x, y \in S : x.p = y.p,
         NEW T \in SUBSET S
  PROVE  UNION {x.elems : x \in T} \subseteq sk.elems
  <1>1. PICK z \in S : z.p = sk.p
    BY DEF UnionOfOnePrecision
  <1>2. \A x \in T : x.p = sk.p /\ x \in S
    BY <1>1
  <1>3. sk.elems = UNION {x.elems : x \in {y \in S : y.p = sk.p}}
    BY DEF UnionOfOnePrecision
  <1> QED BY <1>2, <1>3

\* A merge of snapshots with one minimum has the threshold of each.
LEMMA SameThreshold ==
  ASSUME NEW s, NEW R, NEW r \in R, MergedFrom(s, R),
         \A q \in R : At(q).MinCardinality = At(r).MinCardinality,
         At(r).MinCardinality \in Int
  PROVE  threshold(s) = threshold(At(r))
  <1> DEFINE mins == {At(q).MinCardinality : q \in R}
             m == At(r).MinCardinality
  <1>1. mins = {m}
    OBVIOUS
  <1>2. IF \E x \in mins : x < 0 THEN s.MinCardinality = -1
        ELSE s.MinCardinality \in mins /\ \A x \in mins : s.MinCardinality >= x
    BY DEF MergedFrom
  <1>3. m < 0 => s.MinCardinality = -1
    BY <1>1, <1>2
  <1>4. ~ (m < 0) => s.MinCardinality = m
    BY <1>1, <1>2
  <1>5. m \in Int
    OBVIOUS
  <1> HIDE DEF mins
  <1> QED BY <1>3, <1>4, <1>5 DEF threshold

\* What a node exposes on its own is exposed after a scrape it answered.
LEMMA NodeGroupsExposed ==
  ASSUME ClusterInv
  PROVE  ClusterExposesNodeGroups
  <1>0. ClusterTypeOK /\ FetchInv /\ MergedInv
    BY DEF ClusterInv
  <1> SUFFICES ASSUME Alike, NEW n \in Node, fetch[n] = "ok", NEW g \in ExposedBy(n)
               PROVE  g \in Exposed(ss)
    BY DEF ClusterExposesNodeGroups
  <1>r. PICK r \in SentBy(n) : \E k \in DOMAIN At(r).Sketches :
          /\ g = <<estimatorID(At(r)), k>>
          /\ GetsLine(At(r),
                UNION {x.elems : x \in SketchesOf(Of(SentBy(n), estimatorID(At(r))), k)})
    BY DEF ExposedBy
  <1>k. PICK k \in DOMAIN At(r).Sketches :
          /\ g = <<estimatorID(At(r)), k>>
          /\ GetsLine(At(r),
                UNION {x.elems : x \in SketchesOf(Of(SentBy(n), estimatorID(At(r))), k)})
    BY <1>r
  <1> DEFINE id  == estimatorID(At(r))
             got == Of(Sent(pos), id)
             S   == SketchesOf(got, k)
             T   == SketchesOf(Of(SentBy(n), id), k)
             sk  == ss[id].Sketches[k]
  <1>1. pos[n] = Len(content[n]) /\ pos[n] \in Nat
    BY <1>0 DEF FetchInv, ClusterTypeOK
  <1>2. SentBy(n) \subseteq Sent(pos)
    <2>1. ASSUME NEW q \in SentBy(n)
          PROVE  \E m \in Node : \E j \in 1 .. pos[m] : q = <<m, j>>
      BY <1>1 DEF SentBy
    <2> QED BY <2>1, SentMember
  <1>3. Sent(pos) \subseteq Everything
    <2>1. ASSUME NEW q \in Sent(pos)
          PROVE  q \in Everything
      <3>1. PICK m \in Node : \E j \in 1 .. pos[m] : q = <<m, j>>
        BY SentMember
      <3>2. PICK j \in 1 .. pos[m] : q = <<m, j>>
        BY <3>1
      <3>3. pos[m] \in Nat /\ pos[m] <= Len(content[m]) /\ Len(content[m]) \in Nat
        BY <1>0, ContentType DEF FetchInv, ClusterTypeOK
      <3>4. j \in 1 .. Len(content[m])
        BY <3>3
      <3> QED BY <3>2, <3>4 DEF Everything, Sent
    <2> QED BY <2>1
  <1>4. r \in got /\ Of(SentBy(n), id) \subseteq got /\ got \subseteq Of(Everything, id)
    BY <1>2, <1>3 DEF Of
  <1>5. \A q \in got : IsSnapshot(At(q))
    BY <1>0, SentType DEF Of
  <1>6. id \in DOMAIN ss /\ MergedFrom(ss[id], got)
    BY <1>0, <1>2 DEF MergedInv
  <1>7. k \in DOMAIN ss[id].Sketches /\ UnionOfOnePrecision(sk, S)
    BY <1>4, <1>6 DEF MergedFrom
  <1>8. T \in SUBSET S
    BY <1>4 DEF SketchesOf
  <1>9. \A q1, q2 \in got :
          /\ At(q1).MinCardinality = At(q2).MinCardinality
          /\ \A x \in Range(At(q1).Sketches), y \in Range(At(q2).Sketches) : x.p = y.p
    BY <1>3, <1>4 DEF Alike, Of
  <1>10. \A x, y \in S : x.p = y.p
    BY <1>9 DEF SketchesOf, Range
  <1>11. sk \in Sketch
    BY <1>0, <1>6, <1>7, SnapshotFields DEF ClusterTypeOK
  <1> HIDE DEF sk, T, S, got
  <1>12. UNION {x.elems : x \in T} \subseteq sk.elems
    BY <1>7, <1>8, <1>10, NodeInMerge
  <1>13. IsFiniteSet(sk.elems) /\ Cardinality(sk.elems) \in Nat
    BY <1>11, ElemsFinite
  <1>14. /\ Cardinality(UNION {x.elems : x \in T}) \in Nat
         /\ Cardinality(UNION {x.elems : x \in T}) <= Cardinality(sk.elems)
    BY <1>12, <1>13, FS_Subset, FS_CardinalityType
  <1>15. threshold(ss[id]) = threshold(At(r)) /\ threshold(At(r)) \in Int
    <2>1. At(r).MinCardinality \in Int
      BY <1>4, <1>5, SnapshotFields
    <2>2. threshold(At(r)) \in Int
      <3>1. MinFlag \in Int
        <4>1. MinFlag \in Nat
          BY ClusterAssumption, Zenon
        <4> QED BY <4>1
      <3> QED BY <2>1, <3>1 DEF threshold
    <2> QED BY <1>4, <1>6, <1>9, <2>1, <2>2, SameThreshold
  <1>16. ss[id].settings = At(r).settings
    <2>1. PICK q \in got : ss[id].settings = At(q).settings
      BY <1>6 DEF MergedFrom
    <2>2. estimatorID(At(q)) = id /\ q \in Sent(pos) /\ r \in Sent(pos)
      BY <1>4, <2>1 DEF got, Of
    <2> QED BY <1>0, <2>1, <2>2, SentType
  <1>17. GetsLine(At(r), UNION {x.elems : x \in T})
    BY <1>k DEF T
  <1>18. GetsLine(ss[id], sk.elems)
    <2>1. CASE At(r).settings \in Global
      BY <1>16, <2>1 DEF GetsLine
    <2>2. CASE Cardinality(UNION {x.elems : x \in T}) >= threshold(At(r))
      BY <1>13, <1>14, <1>15, <2>2 DEF GetsLine
    <2> QED BY <1>17, <2>1, <2>2 DEF GetsLine
  <1> QED BY <1>k, <1>6, <1>7, <1>18 DEF Exposed, sk

\* A group that a storage node exposes on its own is exposed by the selector, if
\* the node answered and nodes agree on minimum and precision.
THEOREM NodeGroupsStayExposed == ClusterSpec => []ClusterExposesNodeGroups
  <1>1. ClusterInv => ClusterExposesNodeGroups
    BY NodeGroupsExposed
  <1> QED BY <1>1, ClusterInvariant, PTL
=============================================================================
