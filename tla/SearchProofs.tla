---------------------------- MODULE SearchProofs ----------------------------
(* Theorems about Search, for any documents, requests and numbers of       *)
(* writes.                                                                 *)
EXTENDS Search, FunctionTheorems, FiniteSetTheorems, SequenceTheorems, TLAPS

----------------------------------------------------------------------------
(* Positions and pages of a scan.                                          *)

Positions == 1..Len(ScrollOrder)

\* The documents before a position; position 0 is behind the last.
Passed(o) == {ScrollOrder[i] : i \in {j \in Positions : o = 0 \/ j < o}}

LEMMA PositionsAreDocs ==
    /\ Len(ScrollOrder) \in Nat /\ DOMAIN ScrollOrder = Positions
    /\ Positions = Docs /\ Docs \subseteq Nat
    /\ IsFiniteSet(Docs)
    /\ ScrollOrder \in [Positions -> Docs]
    /\ \A d \in Docs : \E i \in Positions : ScrollOrder[i] = d
<1>1. ScrollOrder \in Seq(Nat) /\ ToSet(ScrollOrder) = Docs
  BY IndexAssumption
<1>2. Len(ScrollOrder) \in Nat /\ DOMAIN ScrollOrder = Positions
  BY <1>1 DEF Positions
<1>3. Positions = Docs /\ Docs \subseteq Nat
  BY <1>2 DEF Positions, Docs
<1>4. IsFiniteSet(Docs)
  BY <1>2, FS_Interval DEF Docs
<1>5. \A i \in Positions : ScrollOrder[i] \in Docs
  BY <1>1, <1>2 DEF ToSet
<1>6. ScrollOrder \in [Positions -> Docs]
  BY <1>1, <1>2, <1>5
<1>7. QED
  BY <1>1, <1>2, <1>3, <1>4, <1>6 DEF ToSet

\* No document has two positions.
LEMMA PositionsDiffer ==
    \A i, j \in Positions : ScrollOrder[i] = ScrollOrder[j] => i = j
<1>1. ScrollOrder \in Surjection(Positions, Docs)
  BY PositionsAreDocs DEF Surjection
<1>2. ScrollOrder \in Injection(Positions, Docs)
  BY <1>1, PositionsAreDocs, FS_SurjSameCardinalityImpliesInj
<1>3. QED
  BY <1>2 DEF Injection, IsInjective

LEMMA PassedDocs ==
    ASSUME NEW o \in Nat
    PROVE  /\ Passed(o) \subseteq Docs
           /\ \A i \in Positions : ScrollOrder[i] \in Passed(o) <=> o = 0 \/ i < o
           /\ Passed(0) = Docs /\ Passed(1) = {}
<1>1. ScrollOrder \in [Positions -> Docs] /\ Positions \subseteq Nat \ {0}
  BY PositionsAreDocs DEF Positions
<1>2. Passed(o) \subseteq Docs
  BY <1>1 DEF Passed
<1>3. ASSUME NEW i \in Positions
      PROVE  ScrollOrder[i] \in Passed(o) <=> o = 0 \/ i < o
  <2>1. ScrollOrder[i] \in Passed(o)
            <=> \E j \in Positions : (o = 0 \/ j < o) /\ ScrollOrder[i] = ScrollOrder[j]
    BY DEF Passed
  <2>2. QED
    BY <2>1, PositionsDiffer
<1>4. Passed(0) = Docs
  BY <1>1, PositionsAreDocs DEF Passed
<1>5. Passed(1) = {}
  <2>1. \A j \in Positions : ~(1 = 0 \/ j < 1)
    BY <1>1
  <2>2. \A d : d \notin Passed(1)
    BY <2>1 DEF Passed
  <2>3. QED
    BY <2>2
<1>6. QED
  BY <1>2, <1>3, <1>4, <1>5

\* The rank of a position among others numbers them from 0.
Rank(left, i) == Cardinality({j \in left : j < i})

LEMMA RanksNumber ==
    ASSUME NEW left \in SUBSET Positions
    PROVE  /\ IsFiniteSet(left) /\ Cardinality(left) \in Nat
           /\ \A i \in left : Rank(left, i) \in 0..(Cardinality(left) - 1)
           /\ \A i, j \in left : i < j <=> Rank(left, i) < Rank(left, j)
           /\ \A k \in 0..(Cardinality(left) - 1) : \E i \in left : Rank(left, i) = k
<1> DEFINE n == Cardinality(left)
           below(i) == {j \in left : j < i}
<1>1. IsFiniteSet(left) /\ n \in Nat
  BY PositionsAreDocs, FS_Subset, FS_CardinalityType
<1>2. left \subseteq Nat
  BY PositionsAreDocs
<1>3. ASSUME NEW i \in left
      PROVE  /\ IsFiniteSet(below(i)) /\ Rank(left, i) \in Nat
             /\ Rank(left, i) < n
  <2>1. below(i) \subseteq left /\ i \notin below(i)
    BY <1>2
  <2>2. /\ IsFiniteSet(below(i)) /\ Cardinality(below(i)) <= n
        /\ Cardinality(left) = Cardinality(below(i)) => left = below(i)
    BY <2>1, <1>1, FS_Subset
  <2>3. Cardinality(below(i)) # n
    BY <2>1, <2>2
  <2>4. Cardinality(below(i)) \in Nat
    BY <2>2, FS_CardinalityType
  <2>5. QED
    BY <2>2, <2>3, <2>4, <1>1 DEF Rank
<1>31. \A i \in left : Rank(left, i) \in Nat /\ Rank(left, i) < n
  BY <1>3
<1>32. \A i \in left : Rank(left, i) \in 0..(n - 1)
  <2> HIDE DEF n
  <2>1. QED
    BY <1>1, <1>31
<1>4. ASSUME NEW i \in left, NEW j \in left, i < j
      PROVE  Rank(left, i) < Rank(left, j)
  <2>0. i \in Nat /\ j \in Nat /\ \A k \in left : k < i => k < j
    BY <1>2, <1>4
  <2>1. below(i) \subseteq below(j) /\ i \in below(j) /\ i \notin below(i)
    <3>1. \A k \in below(i) : k \in below(j)
      BY <2>0
    <3>2. i \in below(j)
      BY <1>4
    <3>3. i \notin below(i)
      BY <2>0
    <3>4. QED
      BY <3>1, <3>2, <3>3
  <2>2. IsFiniteSet(below(j)) /\ Rank(left, i) \in Nat /\ Rank(left, j) \in Nat
    BY <1>3
  <2>3. /\ Cardinality(below(i)) <= Cardinality(below(j))
        /\ Cardinality(below(j)) = Cardinality(below(i)) => below(j) = below(i)
    BY <2>1, <2>2, FS_Subset
  <2>4. Cardinality(below(i)) # Cardinality(below(j))
    BY <2>1, <2>3
  <2>5. QED
    BY <2>2, <2>3, <2>4 DEF Rank
<1>5. \A i, j \in left : i < j <=> Rank(left, i) < Rank(left, j)
  <2>1. \A i, j \in left : i < j \/ i = j \/ j < i
    BY <1>2
  <2>2. \A i \in left : Rank(left, i) \in Nat
    BY <1>3
  <2> HIDE DEF n, below
  <2>3. QED
    BY <2>1, <2>2, <1>2, <1>4
<1>6. \A k \in 0..(n - 1) : \E i \in left : Rank(left, i) = k
  <2> DEFINE rank == [i \in left |-> Rank(left, i)]
  <2>1. IsFiniteSet(0..(n - 1)) /\ Cardinality(0..(n - 1)) = n
    BY <1>1, FS_Interval
  <2>2. \A i, j \in left : Rank(left, i) = Rank(left, j) => i = j
    <3>1. \A i, j \in left : i < j \/ i = j \/ j < i
      BY <1>2
    <3>2. \A i \in left : Rank(left, i) \in Nat
      BY <1>3
    <3>3. QED
      BY <3>1, <3>2, <1>4
  <2>4. rank \in [left -> 0..(n - 1)]
    BY <1>32
  <2>5. rank \in Injection(left, 0..(n - 1))
    BY <2>2, <2>4 DEF Injection, IsInjective
  <2>6. rank \in Surjection(left, 0..(n - 1))
    BY <2>1, <2>5, FS_Injection
  <2>7. QED
    BY <2>6 DEF Surjection
<1>7. QED
  BY <1>1, <1>32, <1>5, <1>6

\* Different positions have different ranks.
LEMMA RanksDiffer ==
    ASSUME NEW left \in SUBSET Positions, NEW i \in left, NEW j \in left,
           Rank(left, i) = Rank(left, j)
    PROVE  i = j
<1>1. i \in Nat /\ j \in Nat
  BY PositionsAreDocs
<1>2. Rank(left, i) \in 0..(Cardinality(left) - 1)
  BY RanksNumber
<1>3. ~(Rank(left, i) < Rank(left, j)) /\ ~(Rank(left, j) < Rank(left, i))
  BY <1>2
<1>4. ~(i < j) /\ ~(j < i)
  BY <1>3, RanksNumber
<1>5. QED
  BY <1>1, <1>4

(* A page has the members between its position and the next one.           *)
LEMMA PageHasWhatIsLeft ==
    ASSUME NEW members \in SUBSET Docs, NEW offset \in Nat \ {0}, NEW limit \in Nat
    PROVE  LET page == ScrollPage(members, offset, limit)
           IN  /\ page.docs \in Seq(Docs)
               /\ page.next \in Nat
               /\ Passed(offset) \subseteq Passed(page.next)
               /\ ToSet(page.docs) = members \cap (Passed(page.next) \ Passed(offset))
<1> DEFINE left == {i \in Positions : i >= offset /\ ScrollOrder[i] \in members}
           n == Cardinality(left)
           first == {i \in left : Rank(left, i) < limit}
           m == Cardinality(first)
           at(k) == CHOOSE i \in left : Rank(left, i) = k
           listed == [r \in 1..m |-> ScrollOrder[at(r - 1)]]
           next == IF n <= limit THEN 0 ELSE at(limit)
<1>1. ScrollPage(members, offset, limit) = [docs |-> listed, next |-> next]
  BY PositionsAreDocs DEF ScrollPage, Rank
<1>2. left \in SUBSET Positions /\ left \subseteq Nat
  BY PositionsAreDocs
<1>3. /\ IsFiniteSet(left) /\ n \in Nat
      /\ \A i \in left : Rank(left, i) \in 0..(n - 1)
      /\ \A i, j \in left : i < j <=> Rank(left, i) < Rank(left, j)
      /\ \A k \in 0..(n - 1) : at(k) \in left /\ Rank(left, at(k)) = k
  BY <1>2, RanksNumber
<1>6. \A i, j \in left : Rank(left, i) = Rank(left, j) => i = j
  BY <1>2, RanksDiffer
<1> HIDE DEF left, n, at
<1>4. CASE n <= limit
  <2>1. first = left
    BY <1>3, <1>4
  <2>2. m = n /\ next = 0
    BY <2>1, <1>4 DEF n
  <2>3. \A r \in 1..m : at(r - 1) \in left
    BY <2>2, <1>3
  <2>4. \A i \in left : \E r \in 1..m : at(r - 1) = i
    <3> SUFFICES ASSUME NEW i \in left PROVE \E r \in 1..m : at(r - 1) = i
      OBVIOUS
    <3>1. Rank(left, i) \in 0..(n - 1) /\ Rank(left, i) + 1 \in 1..m
      BY <1>3, <2>2
    <3>2. at(Rank(left, i)) \in left /\ Rank(left, at(Rank(left, i))) = Rank(left, i)
      BY <3>1, <1>3
    <3>3. at(Rank(left, i)) = i
      BY <3>2, <1>6
    <3>4. (Rank(left, i) + 1) - 1 = Rank(left, i)
      BY <3>1, <1>3
    <3>5. QED
      BY <3>1, <3>3, <3>4
  <2>5. {ScrollOrder[i] : i \in left} = members \cap (Passed(0) \ Passed(offset))
    <3>1. \A d \in members : \E i \in Positions : ScrollOrder[i] = d
      BY PositionsAreDocs
    <3>2. \A i \in Positions : i >= offset <=> ~(i < offset)
      BY <1>2 DEF Positions
    <3>3. \A i \in Positions : ScrollOrder[i] \in Passed(offset) <=> i < offset
      BY PassedDocs
    <3>4. Passed(0) = Docs
      BY PassedDocs
    <3>5. \A i \in left : /\ i \in Positions /\ i >= offset
                          /\ ScrollOrder[i] \in members
      BY DEF left
    <3>6. \A i \in Positions : i >= offset /\ ScrollOrder[i] \in members => i \in left
      BY DEF left
    <3>7. \A d \in {ScrollOrder[i] : i \in left} :
            d \in members /\ d \in Passed(0) /\ d \notin Passed(offset)
      BY <3>2, <3>3, <3>4, <3>5
    <3>8. \A d \in members : d \notin Passed(offset) => d \in {ScrollOrder[i] : i \in left}
      BY <3>1, <3>2, <3>3, <3>6
    <3>9. QED
      BY <3>7, <3>8
  <2>6. ToSet(listed) = {ScrollOrder[i] : i \in left}
    BY <2>3, <2>4 DEF ToSet
  <2>7. listed \in Seq(Docs)
    <3>1. \A r \in 1..m : ScrollOrder[at(r - 1)] \in Docs
      BY <2>3, <1>2, PositionsAreDocs
    <3>2. m \in Nat
      BY <2>2, <1>3
    <3>3. QED
      BY <3>1, <3>2
  <2>8. QED
    BY <1>1, <2>2, <2>5, <2>6, <2>7, PassedDocs
<1>5. CASE n > limit
  <2>1. /\ limit \in 0..(n - 1)
        /\ next \in left /\ Rank(left, next) = limit
    BY <1>3, <1>5
  <2>2. first = {i \in left : i < next}
    BY <2>1, <1>3
  <2>3. m = limit
    BY <2>1, <2>2 DEF Rank
  <2>4. \A r \in 1..m : at(r - 1) \in first
    BY <2>1, <2>3, <1>3
  <2>5. \A i \in first : \E r \in 1..m : at(r - 1) = i
    <3> SUFFICES ASSUME NEW i \in first PROVE \E r \in 1..m : at(r - 1) = i
      OBVIOUS
    <3>1. Rank(left, i) \in 0..(n - 1) /\ Rank(left, i) + 1 \in 1..m
      BY <1>3, <2>1, <2>3
    <3>2. at(Rank(left, i)) \in left /\ Rank(left, at(Rank(left, i))) = Rank(left, i)
      BY <3>1, <1>3
    <3>3. at(Rank(left, i)) = i
      BY <3>2, <1>6
    <3>4. (Rank(left, i) + 1) - 1 = Rank(left, i)
      BY <3>1, <1>3
    <3>5. QED
      BY <3>1, <3>3, <3>4
  <2>6. next \in Positions /\ next \in Nat /\ next >= offset /\ next # 0
    BY <2>1, <1>2 DEF left, Positions
  <2>7. {ScrollOrder[i] : i \in first} = members \cap (Passed(next) \ Passed(offset))
    <3>1. \A d \in members : \E i \in Positions : ScrollOrder[i] = d
      BY PositionsAreDocs
    <3>2. \A i \in Positions : i >= offset <=> ~(i < offset)
      BY <1>2 DEF Positions
    <3>3. \A i \in Positions : ScrollOrder[i] \in Passed(next) <=> i < next
      BY <2>6, PassedDocs
    <3>4. \A i \in Positions : ScrollOrder[i] \in Passed(offset) <=> i < offset
      BY PassedDocs
    <3>5. \A i \in first : i \in Positions /\ i >= offset /\ i < next /\ ScrollOrder[i] \in members
      BY <2>2 DEF left
    <3>6. \A i \in Positions :
            i >= offset /\ i < next /\ ScrollOrder[i] \in members => i \in first
      BY <2>2 DEF left
    <3> HIDE DEF first
    <3>7. \A d \in {ScrollOrder[i] : i \in first} :
            d \in members /\ d \in Passed(next) /\ d \notin Passed(offset)
      BY <3>2, <3>3, <3>4, <3>5
    <3>8. \A d \in members : d \in Passed(next) /\ d \notin Passed(offset)
            => d \in {ScrollOrder[i] : i \in first}
      BY <3>1, <3>2, <3>3, <3>4, <3>6
    <3>9. QED
      BY <3>7, <3>8
  <2>8. ToSet(listed) = {ScrollOrder[i] : i \in first}
    BY <2>4, <2>5 DEF ToSet
  <2>9. listed \in Seq(Docs)
    <3>1. \A r \in 1..m : at(r - 1) \in Positions
      BY <2>4, <1>2
    <3>2. \A r \in 1..m : ScrollOrder[at(r - 1)] \in Docs
      BY <3>1, PositionsAreDocs
    <3>3. QED
      BY <3>2, <2>3
  <2>10. Passed(offset) \subseteq Passed(next)
    <3>1. \A i \in Positions : i < offset => i < next
      BY <2>6 DEF Positions
    <3>2. \A d \in Passed(offset) : \E i \in Positions : i < offset /\ d = ScrollOrder[i]
      BY PassedDocs DEF Passed
    <3>3. QED
      BY <3>1, <3>2, <2>6, PassedDocs
  <2>11. QED
    BY <1>1, <2>6, <2>7, <2>8, <2>9, <2>10
<1>7. QED
  BY <1>3, <1>4, <1>5

----------------------------------------------------------------------------
(* What the documents were since a search began (history is had).          *)

Past(history, d) == Held(history[d].points \cup history[d].docs)
Still(history, d) ==
    history[d].docs = history[d].points /\ Cardinality(history[d].docs) = 1
Were(history, d) == CHOOSE c \in history[d].docs : TRUE

HistoryTyped(history) ==
    /\ history \in [Docs -> [docs: SUBSET (Contents \cup {None}),
                             points: SUBSET (Contents \cup {None})]]
    /\ \A d \in Docs : /\ IsFiniteSet(history[d].docs) /\ history[d].docs # {}
                       /\ IsFiniteSet(history[d].points) /\ history[d].points # {}

\* What there is has become history.
HistoryInv ==
    /\ HistoryTyped(had)
    /\ \A d \in Docs : docs[d] \in had[d].docs /\ points[d] \in had[d].points

Grows(history, later) ==
    \A d \in Docs : /\ history[d].docs \subseteq later[d].docs
                    /\ history[d].points \subseteq later[d].points

\* Standing and Possible of a history.
StandingIn(history, r) ==
    {d \in Docs : /\ Still(history, d) /\ Were(history, d) # None
                  /\ Matches(r, Were(history, d)) /\ d # r.like}

Filtered(p, r, c) ==
    r.filter /\ ~r.sparse /\ ~(p /\ r.approximate /\ r.blank) => c.filter
Passes(r, c) == (r.post => c.post) /\ (r.patterns => c.pattern)

PossibleIn(p, history, r) ==
    {d \in Docs \ {r.like} :
        /\ \E c \in Past(history, d) : Filtered(p, r, c)
        /\ \E e \in Past(history, d) : Passes(r, e)
        /\ \E g \in Past(history, d) : Relevant(r, g)}

----------------------------------------------------------------------------
(* The locals of a search (s), its request (r), and the deployment (p).    *)

HitSet == [id: Docs, field: Nat, score: Nat, source: Contents \cup {None}]

Places == {"idle", "like", "join", "ranked", "approximate", "scroll", "sources",
           "gathered", "finish", "done"}

SearchTyped(s) ==
    s \in [pc: Places, waiting: SUBSET {"count", "coverage", "ordered"},
           like: Contents \cup {None}, exact: Nat \cup {None},
           covered: BOOLEAN \cup {None},
           reply: {None} \cup [refused: BOOLEAN, hits: SUBSET HitSet],
           ordered: {None} \cup SUBSET HitSet, offset: Nat, batch: Seq(Docs),
           fields: SUBSET TextFields, hits: SUBSET HitSet, scanned: Nat]

\* CompleteScan
Scans(s, p, r) ==
    /\ ~(r.size = 0 /\ (~p \/ r.sort = <<>>) /\ FilterOnly(r) /\ r.collapse = None)
    /\ s.ordered = None
    /\ ~Ranked(r) /\ ~r.sparse /\ ~r.patterns
    /\ r.sort # <<>> \/ r.post

\* A hit is of a document that the query may select.
Sound(h, p, history, r) ==
    /\ \E c \in Past(history, h.id) : Filtered(p, r, c)
    /\ \E g \in Past(history, h.id) : Relevant(r, g)
    /\ h.source # None => h.source \in Past(history, h.id)

AllSound(s, p, history, r) ==
    /\ \A h \in s.hits : Sound(h, p, history, r)
    /\ s.reply # None => \A h \in s.reply.hits : Sound(h, p, history, r)

\* Only a search by a filter has reads to join.
Joined(s, r) ==
    \/ s.waiting # {} \/ s.exact # None \/ s.reply # None \/ s.ordered # None
    => FilterOnly(r)

\* The exact count, and when there is one.
Counted(s, p, history, r) ==
    s.exact # None =>
        /\ Cardinality(StandingIn(history, r)) <= s.exact
        /\ s.exact <= Cardinality(PossibleIn(p, history, r))

CountIsDue(s, r) ==
    s.pc \notin {"idle", "done"} /\ Counts(r) =>
        s.exact # None \/ (s.pc = "join" /\ "count" \in s.waiting)

\* A count by one read; any other request has a window of numbers.
PlainCount(r) == r.entry = "count" /\ ~Ranked(r) /\ ~r.patterns
Fit(r) == PlainCount(r) \/ (r.from \in Nat /\ r.size \in Nat)

\* Where a request can be.
Placed(s, p, r) ==
    /\ s.pc \in {"idle", "like", "join"} =>
            s.scanned = 0 /\ s.offset = 1 /\ s.hits = {}
    /\ s.pc = "like" => r.like # None
    /\ s.pc \in {"ranked", "approximate", "finish"} => ~Scans(s, p, r)
    /\ s.pc = "ranked" => Ranked(r) /\ ~r.approximate
    /\ s.pc = "approximate" => r.approximate
    /\ s.pc \in {"scroll", "sources"} =>
            ~Ranked(r) /\ ~r.approximate /\ ~PlainCount(r)
    /\ s.pc = "sources" => Scans(s, p, r) /\ p
    /\ s.pc \in {"scroll", "approximate"} => s.offset # 0
    /\ s.pc = "gathered" =>
            /\ r.approximate \/ ~Ranked(r)
            /\ Scans(s, p, r) \/ r.patterns \/ r.approximate => s.offset = 0

\* A complete scan has counted the documents it has passed,
ScanCounts(n, p, history, r, o) ==
    /\ Cardinality(StandingIn(history, r) \cap Passed(o)) <= n
    /\ n <= Cardinality(PossibleIn(p, history, r) \cap Passed(o))

Scanned(s, p, history, r) ==
    Scans(s, p, r) /\ s.pc \in {"scroll", "gathered"} =>
        ScanCounts(s.scanned, p, history, r, s.offset)

\* ... but for the page whose sources it is about to read.
Batched(s, p, history, r) ==
    s.pc = "sources" =>
        \E o \in Nat :
            /\ ScanCounts(s.scanned, p, history, r, o)
            /\ Passed(o) \subseteq Passed(s.offset)
            /\ ToSet(s.batch) \subseteq Passed(s.offset) \ Passed(o)
            /\ StandingIn(history, r) \cap (Passed(s.offset) \ Passed(o))
                    \subseteq ToSet(s.batch)
            /\ \A d \in ToSet(s.batch) : \E c \in Past(history, d) : Filtered(p, r, c)

\* Any other scan has one hit for each document it has passed and found, among
\* them those that stand still if their source is there to be looked at.
Distinct(hits) == \A g, h \in hits : g.id = h.id => g = h
Finds(s, history, r, o) ==
    \A d \in StandingIn(history, r) \cap Passed(o) :
        \E h \in s.hits : h.id = d /\ h.source = Were(history, d)

SeesSources(p, r) ==
    IF r.approximate THEN (r.filter => r.blank) /\ ~r.patterns ELSE ~p

Collected(s, p, history, r) ==
    ~Scans(s, p, r) /\ s.pc \in {"scroll", "approximate", "gathered"} =>
        /\ Distinct(s.hits)
        /\ \A h \in s.hits : h.id \in Passed(s.offset)
        /\ SeesSources(p, r) => Finds(s, history, r, s.offset)

\* The ranked queries have one hit for each document and field.
RankedHits(s, r) ==
    s.pc = "ranked" =>
        /\ s.fields \subseteq DOMAIN r.text
        /\ \A h \in s.hits : h.field \notin s.fields
        /\ \A g, h \in s.hits : g.id = h.id /\ g.field = h.field => g = h

Finished(s, p, history, r) ==
    s.pc = "finish" =>
        \/ FilterOnly(r)
        \/ /\ p /\ Distinct(s.hits)
           /\ r.approximate /\ SeesSources(p, r) => Finds(s, history, r, 0)

SearchInv(s, p, history, r) ==
    /\ AllSound(s, p, history, r)
    /\ Joined(s, r) /\ Counted(s, p, history, r) /\ CountIsDue(s, r)
    /\ Placed(s, p, r)
    /\ Scanned(s, p, history, r) /\ Batched(s, p, history, r)
    /\ Collected(s, p, history, r)
    /\ RankedHits(s, r)
    /\ Finished(s, p, history, r)

Queued(q) == \E S : q \in Seq(S) /\ \A r \in S : Asked(r)

\* The queue, and the request of the present search.
QueueInv ==
    /\ Queued(queue)
    /\ ~At("idle") => queue # <<>>

IInv ==
    /\ TypeOK /\ SearchTyped(search)
    /\ HistoryInv
    /\ QueueInv
    /\ search.pc \notin {"idle", "done"} =>
            Fit(Request) /\ SearchInv(search, projection, had, Request)
    /\ CountsAreBounded

----------------------------------------------------------------------------
(* History.                                                                *)

LEMMA HistoryIsHad ==
    /\ \A r : Standing(r) = StandingIn(had, r) /\ Possible(r) = PossibleIn(projection, had, r)
    /\ \A d : Untouched(d) <=> Still(had, d)
    /\ \A d : Was(d) = Were(had, d)
<1>1. /\ \A d : Untouched(d) <=> Still(had, d)
      /\ \A d : Was(d) = Were(had, d)
  BY DEF Untouched, Still, Was, Were
<1>2. ASSUME NEW r
      PROVE  Standing(r) = StandingIn(had, r)
  BY <1>1 DEF Standing, StandingIn
<1>3. ASSUME NEW r
      PROVE  Possible(r) = PossibleIn(projection, had, r)
  <2>1. \A d : had[d].docs \cup had[d].points = had[d].points \cup had[d].docs
    OBVIOUS
  <2>2. \A d : Held(had[d].docs \cup had[d].points) = Past(had, d)
    BY <2>1 DEF Past
  <2>3. \A d : Held(had[d].points \cup had[d].docs) = Past(had, d)
    BY DEF Past
  <2>4. Possible(r) =
            {d \in Docs \ {r.like} :
                \E c \in Past(had, d) :
                    /\ r.filter /\ ~r.sparse /\ ~FilterIsDropped(r) => c.filter
                    /\ \E e \in Past(had, d) :
                            /\ r.post => e.post
                            /\ r.patterns => e.pattern
                            /\ \E g \in Past(had, d) : Relevant(r, g)}
    BY <2>2, <2>3 DEF Possible
  <2>5. QED
    BY <2>4 DEF PossibleIn, Filtered, FilterIsDropped, Passes
<1>4. QED
  BY <1>1, <1>2, <1>3

\* A document that stands still is one thing.
LEMMA StillIsOne ==
    ASSUME NEW H, HistoryTyped(H), NEW d \in Docs, Still(H, d)
    PROVE  H[d].docs = {Were(H, d)} /\ H[d].points = {Were(H, d)}
<1>1. IsFiniteSet(H[d].docs) /\ Cardinality(H[d].docs) = 1 /\ H[d].docs = H[d].points
  BY DEF HistoryTyped, Still
<1>2. PICK x : H[d].docs = {x}
  BY <1>1, FS_Singleton
<1>3. Were(H, d) = x
  BY <1>2 DEF Were
<1>4. QED
  BY <1>1, <1>2, <1>3

\* As history grows, fewer documents stand still and more are possible.
LEMMA GrowingHistory ==
    ASSUME NEW H, NEW G, HistoryTyped(H), HistoryTyped(G), Grows(H, G), NEW p, NEW r
    PROVE  /\ StandingIn(G, r) \subseteq StandingIn(H, r)
           /\ PossibleIn(p, H, r) \subseteq PossibleIn(p, G, r)
           /\ \A d \in Docs : Past(H, d) \subseteq Past(G, d)
           /\ \A d \in Docs : Still(G, d) => Were(G, d) = Were(H, d)
<1>1. ASSUME NEW d \in Docs
      PROVE  Past(H, d) \subseteq Past(G, d)
  BY DEF Grows, Past, Held
<1>2. ASSUME NEW d \in Docs, Still(G, d)
      PROVE  Still(H, d) /\ Were(G, d) = Were(H, d)
  <2>1. G[d].docs = {Were(G, d)} /\ G[d].points = {Were(G, d)}
    BY <1>2, StillIsOne
  <2>2. H[d].docs \subseteq {Were(G, d)} /\ H[d].points \subseteq {Were(G, d)}
    BY <2>1 DEF Grows
  <2>3. H[d].docs = {Were(G, d)} /\ H[d].points = {Were(G, d)}
    BY <2>2 DEF HistoryTyped
  <2>4. Cardinality(H[d].docs) = 1
    BY <2>3, FS_Singleton
  <2>5. QED
    BY <2>3, <2>4 DEF Still, Were
<1>3. StandingIn(G, r) \subseteq StandingIn(H, r)
  BY <1>2 DEF StandingIn
<1>4. PossibleIn(p, H, r) \subseteq PossibleIn(p, G, r)
  BY <1>1 DEF PossibleIn
<1>5. QED
  BY <1>1, <1>2, <1>3, <1>4

\* Sets of documents are counted.
LEMMA DocsAreCounted ==
    ASSUME NEW A \in SUBSET Docs, NEW B \in SUBSET A
    PROVE  /\ IsFiniteSet(A) /\ Cardinality(A) \in Nat /\ Cardinality(B) \in Nat
           /\ Cardinality(B) <= Cardinality(A)
<1>1. IsFiniteSet(A)
  BY PositionsAreDocs, FS_Subset
<1>2. IsFiniteSet(B) /\ Cardinality(B) <= Cardinality(A)
  BY <1>1, FS_Subset
<1>3. QED
  BY <1>1, <1>2, FS_CardinalityType

LEMMA StandingAreDocs ==
    ASSUME NEW H, NEW p, NEW r
    PROVE  StandingIn(H, r) \subseteq Docs /\ PossibleIn(p, H, r) \subseteq Docs
BY DEF StandingIn, PossibleIn

\* The invariant of a search survives the writes of others.
LEMMA CountsGrow ==
    ASSUME NEW H, NEW G, HistoryTyped(H), HistoryTyped(G), Grows(H, G), NEW p, NEW r,
           NEW A \in SUBSET Docs, NEW n \in Nat
    PROVE  /\ Cardinality(StandingIn(H, r) \cap A) <= n =>
                Cardinality(StandingIn(G, r) \cap A) <= n
           /\ n <= Cardinality(PossibleIn(p, H, r) \cap A) =>
                n <= Cardinality(PossibleIn(p, G, r) \cap A)
<1>1. StandingIn(G, r) \cap A \subseteq StandingIn(H, r) \cap A
  BY GrowingHistory
<1>2. PossibleIn(p, H, r) \cap A \subseteq PossibleIn(p, G, r) \cap A
  BY GrowingHistory
<1>3. /\ StandingIn(H, r) \cap A \in SUBSET Docs
      /\ PossibleIn(p, G, r) \cap A \in SUBSET Docs
  OBVIOUS
<1>4. /\ Cardinality(StandingIn(G, r) \cap A) <= Cardinality(StandingIn(H, r) \cap A)
      /\ Cardinality(StandingIn(G, r) \cap A) \in Nat
      /\ Cardinality(StandingIn(H, r) \cap A) \in Nat
  BY <1>1, <1>3, DocsAreCounted
<1>5. /\ Cardinality(PossibleIn(p, H, r) \cap A) <= Cardinality(PossibleIn(p, G, r) \cap A)
      /\ Cardinality(PossibleIn(p, G, r) \cap A) \in Nat
      /\ Cardinality(PossibleIn(p, H, r) \cap A) \in Nat
  BY <1>2, <1>3, DocsAreCounted
<1>6. QED
  BY <1>4, <1>5

LEMMA SoundGrows ==
    ASSUME NEW H, NEW G, HistoryTyped(H), HistoryTyped(G), Grows(H, G), NEW p, NEW r,
           NEW h \in HitSet, Sound(h, p, H, r)
    PROVE  Sound(h, p, G, r)
<1>1. h.id \in Docs
  BY DEF HitSet
<1>2. Past(H, h.id) \subseteq Past(G, h.id)
  BY <1>1, GrowingHistory
<1>3. QED
  BY <1>2 DEF Sound

LEMMA FindsGrows ==
    ASSUME NEW H, NEW G, HistoryTyped(H), HistoryTyped(G), Grows(H, G), NEW r,
           NEW s, NEW o, Finds(s, H, r, o)
    PROVE  Finds(s, G, r, o)
<1>1. StandingIn(G, r) \subseteq StandingIn(H, r)
  BY GrowingHistory
<1>2. \A d \in StandingIn(G, r) : Were(G, d) = Were(H, d)
  BY GrowingHistory DEF StandingIn
<1>3. QED
  BY <1>1, <1>2 DEF Finds

LEMMA ScanCountsGrow ==
    ASSUME NEW H, NEW G, HistoryTyped(H), HistoryTyped(G), Grows(H, G), NEW p, NEW r,
           NEW n \in Nat, NEW o \in Nat, ScanCounts(n, p, H, r, o)
    PROVE  ScanCounts(n, p, G, r, o)
<1>1. Passed(o) \in SUBSET Docs
  BY PassedDocs
<1>2. QED
  BY <1>1, CountsGrow DEF ScanCounts

\* The parts of a search's record.
LEMMA SearchParts ==
    ASSUME NEW s, SearchTyped(s)
    PROVE  /\ s.pc \in Places /\ s.waiting \subseteq {"count", "coverage", "ordered"}
           /\ s.like \in Contents \cup {None} /\ s.exact \in Nat \cup {None}
           /\ s.covered \in BOOLEAN \cup {None}
           /\ s.reply # None => /\ s.reply \in [refused: BOOLEAN, hits: SUBSET HitSet]
                                /\ s.reply.hits \subseteq HitSet
           /\ s.ordered # None => s.ordered \subseteq HitSet
           /\ s.offset \in Nat /\ s.batch \in Seq(Docs)
           /\ s.fields \subseteq TextFields /\ s.hits \subseteq HitSet /\ s.scanned \in Nat
BY DEF SearchTyped

\* What a search knows stays true while others write.
LEMMA SearchInvGrows ==
    ASSUME NEW H, NEW G, HistoryTyped(H), HistoryTyped(G), Grows(H, G), NEW r, NEW p,
           NEW s, SearchTyped(s), SearchInv(s, p, H, r)
    PROVE  SearchInv(s, p, G, r)
<1>0. /\ s.exact \in Nat \cup {None} /\ s.scanned \in Nat /\ s.offset \in Nat
      /\ s.hits \subseteq HitSet /\ s.reply # None => s.reply.hits \subseteq HitSet
      /\ s.batch \in Seq(Docs)
  BY SearchParts
<1>1. AllSound(s, p, G, r)
  <2>2. AllSound(s, p, H, r)
    BY DEF SearchInv
  <2>3. ASSUME NEW h \in s.hits
        PROVE  Sound(h, p, G, r)
    <3>1. h \in HitSet
      BY SearchParts
    <3>2. Sound(h, p, H, r)
      BY <2>2 DEF AllSound
    <3>3. QED
      BY <3>1, <3>2, SoundGrows
  <2>4. ASSUME s.reply # None, NEW h \in s.reply.hits
        PROVE  Sound(h, p, G, r)
    <3>1. h \in HitSet
      <4>1. s.reply.hits \subseteq HitSet
        BY <2>4, SearchParts
      <4>2. QED
        BY <4>1
    <3>2. Sound(h, p, H, r)
      BY <2>2, <2>4 DEF AllSound
    <3>3. QED
      BY <3>1, <3>2, SoundGrows
  <2>5. QED
    BY <2>3, <2>4 DEF AllSound
<1>2. Counted(s, p, G, r)
  <2> SUFFICES ASSUME s.exact # None PROVE Counted(s, p, G, r)
    BY DEF Counted
  <2>1. s.exact \in Nat
    BY <1>0
  <2>2. \A S \in SUBSET Docs : S \cap Docs = S
    OBVIOUS
  <2>3. /\ StandingIn(H, r) \cap Docs = StandingIn(H, r)
        /\ PossibleIn(p, H, r) \cap Docs = PossibleIn(p, H, r)
        /\ StandingIn(G, r) \cap Docs = StandingIn(G, r)
        /\ PossibleIn(p, G, r) \cap Docs = PossibleIn(p, G, r)
    BY <2>2, StandingAreDocs
  <2>4. /\ Cardinality(StandingIn(H, r) \cap Docs) <= s.exact
        /\ s.exact <= Cardinality(PossibleIn(p, H, r) \cap Docs)
    BY <2>3 DEF SearchInv, Counted
  <2>5. /\ Cardinality(StandingIn(G, r) \cap Docs) <= s.exact
        /\ s.exact <= Cardinality(PossibleIn(p, G, r) \cap Docs)
    BY <2>1, <2>4, CountsGrow
  <2>6. QED
    BY <2>1, <2>3, <2>5 DEF Counted
<1>3. Scanned(s, p, G, r)
  BY <1>0, ScanCountsGrow DEF SearchInv, Scanned
<1>4. Batched(s, p, G, r)
  <2> SUFFICES ASSUME s.pc = "sources" PROVE Batched(s, p, G, r)
    BY DEF Batched
  <2>1. PICK o \in Nat :
            /\ ScanCounts(s.scanned, p, H, r, o)
            /\ Passed(o) \subseteq Passed(s.offset)
            /\ ToSet(s.batch) \subseteq Passed(s.offset) \ Passed(o)
            /\ StandingIn(H, r) \cap (Passed(s.offset) \ Passed(o))
                    \subseteq ToSet(s.batch)
            /\ \A d \in ToSet(s.batch) : \E c \in Past(H, d) : Filtered(p, r, c)
    BY DEF SearchInv, Batched
  <2>2. ScanCounts(s.scanned, p, G, r, o)
    BY <1>0, <2>1, ScanCountsGrow
  <2>3. StandingIn(G, r) \subseteq StandingIn(H, r)
    BY GrowingHistory
  <2>4. ToSet(s.batch) \subseteq Docs
    BY <1>0 DEF ToSet
  <2>5. \A d \in ToSet(s.batch) : \E c \in Past(G, d) : Filtered(p, r, c)
    BY <2>1, <2>4, GrowingHistory
  <2>6. QED
    BY <2>1, <2>2, <2>3, <2>5 DEF Batched
<1>5. Collected(s, p, G, r)
  BY FindsGrows DEF SearchInv, Collected
<1>6. Finished(s, p, G, r)
  BY FindsGrows DEF SearchInv, Finished
<1>7. QED
  BY <1>1, <1>2, <1>3, <1>4, <1>5, <1>6 DEF SearchInv

----------------------------------------------------------------------------
(* Requests.                                                               *)

LEMMA AskedParts ==
    ASSUME NEW r, Asked(r)
    PROVE  /\ r.entry \in {"search", "count"}
           /\ r.from \in Nat \cup {Malformed} /\ r.size \in Nat \cup {Malformed}
           /\ r.like \in Docs \cup {None}
           /\ r.track.mode \in {"enabled", "disabled", "threshold", Malformed}
           /\ r.track.threshold \in Nat
           /\ r.approximate \in BOOLEAN /\ r.sparse \in BOOLEAN /\ r.filter \in BOOLEAN
           /\ r.blank \in BOOLEAN /\ r.patterns \in BOOLEAN /\ r.post \in BOOLEAN
           /\ r.aggs \in Seq(Aggregation)
<1> DEFINE q == [r EXCEPT !.after = None, !.text = None]
<1>1. q \in SearchRequest
  BY DEF Asked
<1>2. DOMAIN q = DOMAIN r
  OBVIOUS
<1>3. DOMAIN q = {"entry", "controls", "from", "size", "sort", "after", "text", "track",
                  "asInt", "approximate", "sparse", "filter", "blank", "patterns", "like",
                  "post", "collapse", "aggs", "walk"}
  BY <1>1 DEF SearchRequest
<1>4. /\ q.entry = r.entry /\ q.from = r.from /\ q.size = r.size /\ q.like = r.like
      /\ q.track = r.track /\ q.approximate = r.approximate /\ q.sparse = r.sparse
      /\ q.filter = r.filter /\ q.blank = r.blank /\ q.patterns = r.patterns /\ q.post = r.post
      /\ q.aggs = r.aggs
  BY <1>2, <1>3
<1> HIDE DEF q
<1>5. QED
  BY <1>1, <1>4 DEF SearchRequest

\* A request has the fields of SearchRequest.
LEMMA AskedFields ==
    ASSUME NEW r, Asked(r)
    PROVE  DOMAIN r = {"entry", "controls", "from", "size", "sort", "after", "text",
                       "track", "asInt", "approximate", "sparse", "filter", "blank",
                       "patterns", "like", "post", "collapse", "aggs", "walk"}
<1> DEFINE q == [r EXCEPT !.after = None, !.text = None]
<1>1. q \in SearchRequest
  BY DEF Asked
<1>2. DOMAIN q = DOMAIN r
  OBVIOUS
<1>3. DOMAIN q = {"entry", "controls", "from", "size", "sort", "after", "text", "track",
                  "asInt", "approximate", "sparse", "filter", "blank", "patterns", "like",
                  "post", "collapse", "aggs", "walk"}
  BY <1>1 DEF SearchRequest
<1>4. QED
  BY <1>2, <1>3

\* A cursor makes no other request.
LEMMA AskedAfter ==
    ASSUME NEW r, Asked(r), NEW x
    PROVE  Asked([r EXCEPT !.after = x])
<1> DEFINE t == [r EXCEPT !.after = x]
<1>1. DOMAIN t = DOMAIN r /\ "after" \in DOMAIN r /\ "text" \in DOMAIN r
  BY AskedFields
<1>2. \A f \in DOMAIN r : f # "after" => t[f] = r[f]
  OBVIOUS
<1> HIDE DEF t
<1>3. [t EXCEPT !.after = None, !.text = None] = [r EXCEPT !.after = None, !.text = None]
  BY <1>1, <1>2
<1>4. /\ t.text = r.text /\ t.entry = r.entry /\ t.post = r.post /\ t.sparse = r.sparse
      /\ t.asInt = r.asInt /\ t.sort = r.sort /\ t.track = r.track
      /\ t.approximate = r.approximate /\ t.collapse = r.collapse
  BY <1>2, AskedFields
<1>5. Asked(t)
  BY <1>3, <1>4 DEF Asked
<1>6. QED
  BY <1>5 DEF t

LEMMA AskedRewritten ==
    ASSUME NEW r, Asked(r)
    PROVE  Asked(Rewritten(r))
<1> DEFINE t == [r EXCEPT !.from = 0, !.size = 0]
           q == [r EXCEPT !.after = None, !.text = None]
           u == [t EXCEPT !.after = None, !.text = None]
<1>1. DOMAIN t = DOMAIN r
  OBVIOUS
<1>2. \A f \in DOMAIN r : f \notin {"from", "size"} => t[f] = r[f]
  OBVIOUS
<1>3. u = [q EXCEPT !.from = 0, !.size = 0]
  BY AskedFields
<1>4. q \in SearchRequest
  BY DEF Asked
<1>5. u \in SearchRequest
  <2> HIDE DEF q, u
  <2>1. QED
    BY <1>3, <1>4 DEF SearchRequest
<1>6. /\ t.text = r.text /\ t.entry = r.entry /\ t.post = r.post /\ t.sparse = r.sparse
      /\ t.asInt = r.asInt /\ t.sort = r.sort /\ t.track = r.track
      /\ t.approximate = r.approximate /\ t.collapse = r.collapse
  BY <1>2, AskedFields
<1> HIDE DEF t
<1>7. Asked(t)
  BY <1>5, <1>6 DEF Asked
<1>8. QED
  BY <1>7 DEF Rewritten, t

LEMMA QueuedRequests ==
    ASSUME NEW q, Queued(q), q # <<>>
    PROVE  /\ Asked(Head(q)) /\ Queued(Tail(q)) /\ q[1] = Head(q)
           /\ \A t : Asked(t) => /\ Queued([q EXCEPT ![1] = t])
                                 /\ [q EXCEPT ![1] = t] # <<>>
                                 /\ Head([q EXCEPT ![1] = t]) = t
<1>1. PICK S : q \in Seq(S) /\ \A r \in S : Asked(r)
  BY DEF Queued
<1>2. Head(q) \in S /\ Tail(q) \in Seq(S) /\ q[1] = Head(q)
  BY <1>1
<1>3. ASSUME NEW t, Asked(t)
      PROVE  /\ Queued([q EXCEPT ![1] = t])
             /\ [q EXCEPT ![1] = t] # <<>>
             /\ Head([q EXCEPT ![1] = t]) = t
  <2> DEFINE v == [q EXCEPT ![1] = t]
  <2>1. q \in Seq(S \cup {t}) /\ Len(q) \in Nat \ {0} /\ 1 \in DOMAIN q
    BY <1>1
  <2>2. v \in Seq(S \cup {t}) /\ v # <<>> /\ v[1] = t
    BY <2>1
  <2>3. Head(v) = t
    BY <2>2
  <2>4. \A r \in S \cup {t} : Asked(r)
    BY <1>1, <1>3
  <2>5. QED
    BY <2>2, <2>3, <2>4 DEF Queued
<1>4. QED
  BY <1>1, <1>2, <1>3 DEF Queued

----------------------------------------------------------------------------
(* What a read of the index finds.                                         *)

LEMMA IndexIsHistory ==
    ASSUME TypeOK, HistoryInv, NEW d \in Docs
    PROVE  /\ docs[d] \in Contents \cup {None} /\ points[d] \in Contents \cup {None}
           /\ docs[d] # None => docs[d] \in Past(had, d)
           /\ points[d] # None => points[d] \in Past(had, d)
           /\ Still(had, d) => docs[d] = Were(had, d) /\ points[d] = Were(had, d)
<1>1. docs[d] \in Contents \cup {None} /\ points[d] \in Contents \cup {None}
  BY DEF TypeOK
<1>2. HistoryTyped(had) /\ docs[d] \in had[d].docs /\ points[d] \in had[d].points
  BY DEF HistoryInv
<1>3. /\ docs[d] # None => docs[d] \in Past(had, d)
      /\ points[d] # None => points[d] \in Past(had, d)
  BY <1>2 DEF Past, Held
<1>4. Still(had, d) => had[d].docs = {Were(had, d)} /\ had[d].points = {Were(had, d)}
  BY <1>2, StillIsOne
<1>5. QED
  BY <1>1, <1>2, <1>3, <1>4

LEMMA ScopeIsFiltered ==
    ASSUME TypeOK, HistoryInv, NEW r
    PROVE  /\ ScopeOf(r) \subseteq Docs
           /\ \A d \in ScopeOf(r) : /\ points[d] \in Contents /\ points[d] # None
                                    /\ points[d] \in Past(had, d)
                                    /\ Filtered(projection, r, points[d])
           /\ \A d \in StandingIn(had, r) : d \in ScopeOf(r)
<1>1. ScopeOf(r) \subseteq Docs
  BY DEF ScopeOf, Scope
<1>2. ASSUME NEW d \in ScopeOf(r)
      PROVE  /\ points[d] \in Contents /\ points[d] # None
             /\ points[d] \in Past(had, d)
             /\ Filtered(projection, r, points[d])
  <2>1. d \in Docs /\ points[d] # None /\ (r.filter /\ ~r.sparse => points[d].filter)
    BY <1>2 DEF ScopeOf, Scope, InScope, Exists, Selected
  <2>2. QED
    BY <2>1, IndexIsHistory DEF Filtered
<1>3. ASSUME NEW d \in StandingIn(had, r)
      PROVE  d \in ScopeOf(r)
  <2>1. d \in Docs /\ Still(had, d) /\ Were(had, d) # None /\ Matches(r, Were(had, d))
    BY <1>3 DEF StandingIn
  <2>2. points[d] = Were(had, d)
    BY <2>1, IndexIsHistory
  <2>3. r.filter /\ ~r.sparse => points[d].filter
    BY <2>1, <2>2 DEF Matches
  <2>4. QED
    BY <2>1, <2>2, <2>3 DEF ScopeOf, Scope, InScope, Exists, Selected
<1>4. QED
  BY <1>1, <1>2, <1>3

\* A filter alone counts as its scope.
LEMMA FilterCounts ==
    ASSUME TypeOK, HistoryInv, NEW r, FilterOnly(r)
    PROVE  /\ Cardinality(Scope(r.filter)) \in Nat
           /\ Cardinality(StandingIn(had, r)) <= Cardinality(Scope(r.filter))
           /\ Cardinality(Scope(r.filter)) <= Cardinality(PossibleIn(projection, had, r))
<1>1. ScopeOf(r) = Scope(r.filter)
  <2>1. ~r.sparse
    BY DEF FilterOnly
  <2>2. (r.filter /\ ~r.sparse) <=> r.filter
    BY <2>1
  <2>3. Scope(r.filter /\ ~r.sparse) = Scope(r.filter)
    BY <2>2 DEF Scope, InScope, Selected
  <2>4. QED
    BY <2>3 DEF ScopeOf
<1>2. StandingIn(had, r) \subseteq Scope(r.filter) /\ Scope(r.filter) \subseteq Docs
  BY <1>1, ScopeIsFiltered
<1>3. ASSUME NEW d \in Scope(r.filter)
      PROVE  d \in PossibleIn(projection, had, r)
  <2>1. d \in Docs /\ points[d] \in Past(had, d) /\ Filtered(projection, r, points[d])
    BY <1>1, <1>3, ScopeIsFiltered
  <2>2. Relevant(r, points[d]) /\ Passes(r, points[d]) /\ d # r.like
    <3>1. ~Ranked(r) /\ ~r.patterns /\ ~r.post
      BY DEF FilterOnly
    <3>2. r.like = None /\ d # None
      BY <2>1, <3>1, IndexAssumption, PositionsAreDocs DEF Ranked
    <3>3. QED
      BY <3>1, <3>2 DEF Relevant, Passes
  <2>3. QED
    BY <2>1, <2>2 DEF PossibleIn
<1>4. Scope(r.filter) \in SUBSET Docs /\ PossibleIn(projection, had, r) \in SUBSET Docs
  BY <1>2, StandingAreDocs
<1>5. Scope(r.filter) \in SUBSET PossibleIn(projection, had, r)
  BY <1>3
<1>6. StandingIn(had, r) \in SUBSET Scope(r.filter)
  BY <1>2
<1>7. QED
  BY <1>4, <1>5, <1>6, DocsAreCounted

----------------------------------------------------------------------------
(* The joined reads.                                                       *)

\* While a search is under way, and where a step of it leads.
Present ==
    /\ TypeOK /\ SearchTyped(search) /\ HistoryInv /\ Asked(Request) /\ Fit(Request)
    /\ SearchInv(search, projection, had, Request)

Goes(s) ==
    /\ SearchTyped(s) /\ s.pc # "idle"
    /\ s.pc # "done" => SearchInv(s, projection, had, Request)

LEMMA JoiningIsEasy ==
    ASSUME NEW s, NEW p, NEW H, NEW r,
           s.pc \in {"like", "join"}, s.scanned = 0, s.offset = 1, s.hits = {},
           s.pc = "like" => r.like # None,
           s.reply # None => \A h \in s.reply.hits : Sound(h, p, H, r),
           Joined(s, r), Counted(s, p, H, r), CountIsDue(s, r)
    PROVE  SearchInv(s, p, H, r)
<1>1. AllSound(s, p, H, r)
  BY DEF AllSound
<1>2. Placed(s, p, r)
  BY DEF Placed
<1>3. Scanned(s, p, H, r) /\ Batched(s, p, H, r) /\ Collected(s, p, H, r)
  BY DEF Scanned, Batched, Collected
<1>4. RankedHits(s, r) /\ Finished(s, p, H, r)
  BY DEF RankedHits, Finished
<1>5. QED
  BY <1>1, <1>2, <1>3, <1>4 DEF SearchInv

LEMMA NoSearchTyped == SearchTyped(NoSearch)
<1>1. /\ <<>> \in Seq(Docs) /\ 0 \in Nat /\ 1 \in Nat
      /\ {} \in SUBSET HitSet /\ {} \in SUBSET TextFields
      /\ {} \in SUBSET {"count", "coverage", "ordered"}
  OBVIOUS
<1>2. QED
  BY <1>1 DEF SearchTyped, NoSearch, Places

LEMMA DoneGoes == Goes([NoSearch EXCEPT !.pc = "done"])
<1>1. /\ SearchTyped([NoSearch EXCEPT !.pc = "done"])
      /\ [NoSearch EXCEPT !.pc = "done"].pc = "done"
  BY NoSearchTyped DEF SearchTyped, Places
<1>2. QED
  BY <1>1 DEF Goes

\* The parts of what a search knows.
LEMMA KnownParts ==
    ASSUME NEW s, NEW p, NEW H, NEW r, SearchInv(s, p, H, r)
    PROVE  /\ AllSound(s, p, H, r) /\ Joined(s, r)
           /\ Counted(s, p, H, r) /\ CountIsDue(s, r)
           /\ Placed(s, p, r) /\ Scanned(s, p, H, r) /\ Batched(s, p, H, r)
           /\ Collected(s, p, H, r) /\ RankedHits(s, r) /\ Finished(s, p, H, r)
BY DEF SearchInv

LEMMA ReadLikeGoes ==
    ASSUME Present, ReadLike
    PROVE  Goes(search')
<1> DEFINE r == Request
           s == search'
<1>0. /\ SearchTyped(search) /\ search.pc = "like" /\ Asked(r)
      /\ SearchInv(search, projection, had, r)
  BY DEF Present, ReadLike, At
<1>1. CASE Answered(Error)
  BY <1>1, DoneGoes DEF Answered
<1>2. CASE search' = [search EXCEPT !.pc = "join", !.like = docs[r.like]]
  <2>1. r.like # None /\ r.like \in Docs
    BY <1>0, KnownParts, AskedParts DEF Placed
  <2>2. docs[r.like] \in Contents \cup {None}
    BY <2>1 DEF Present, TypeOK
  <2>3. SearchTyped(s)
    BY <1>0, <1>2, <2>2 DEF SearchTyped, Places
  <2>4. /\ s.pc = "join" /\ s.waiting = search.waiting /\ s.exact = search.exact
        /\ s.reply = search.reply /\ s.ordered = search.ordered
        /\ s.offset = search.offset /\ s.hits = search.hits
        /\ s.scanned = search.scanned
    BY <1>0, <1>2 DEF SearchTyped
  <2> HIDE DEF s
  <2>5. s.scanned = 0 /\ s.offset = 1 /\ s.hits = {}
    BY <1>0, <2>4, KnownParts DEF Placed
  <2>6. s.reply # None => \A h \in s.reply.hits : Sound(h, projection, had, r)
    BY <1>0, <2>4, KnownParts DEF AllSound
  <2>7. Joined(s, r) /\ Counted(s, projection, had, r)
    BY <1>0, <2>4, KnownParts DEF Joined, Counted
  <2>8. CountIsDue(s, r)
    BY <2>1 DEF CountIsDue, Counts, FilterOnly, Ranked
  <2>9. SearchInv(s, projection, had, r)
    BY <2>4, <2>5, <2>6, <2>7, <2>8, JoiningIsEasy
  <2>10. QED
    BY <2>3, <2>4, <2>9 DEF Goes, s
<1>3. QED
  BY <1>1, <1>2 DEF ReadLike

LEMMA ReadCountGoes ==
    ASSUME Present, ReadCount
    PROVE  Goes(search')
<1> DEFINE r == Request
           s == search'
           n == Cardinality(Scope(r.filter))
<1>0. /\ SearchTyped(search) /\ search.pc = "join" /\ Asked(r)
      /\ SearchInv(search, projection, had, r)
      /\ TypeOK /\ HistoryInv
      /\ "count" \in search.waiting
      /\ s = [search EXCEPT !.waiting = @ \ {"count"}, !.exact = n]
  BY DEF Present, ReadCount, At
<1>1. FilterOnly(r)
  BY <1>0, KnownParts DEF Joined
<1>2. /\ n \in Nat /\ Cardinality(StandingIn(had, r)) <= n
      /\ n <= Cardinality(PossibleIn(projection, had, r))
  BY <1>0, <1>1, FilterCounts
<1> HIDE DEF n
<1>3. SearchTyped(s)
  BY <1>0, <1>2 DEF SearchTyped, Places
<1>4. /\ s.pc = "join" /\ s.exact = n
      /\ s.reply = search.reply
      /\ s.offset = search.offset /\ s.hits = search.hits
      /\ s.scanned = search.scanned
  BY <1>0 DEF SearchTyped
<1> HIDE DEF s
<1>5. s.scanned = 0 /\ s.offset = 1 /\ s.hits = {}
  BY <1>0, <1>4, KnownParts DEF Placed
<1>6. s.reply # None => \A h \in s.reply.hits : Sound(h, projection, had, r)
  BY <1>0, <1>4, KnownParts DEF AllSound
<1>7. Joined(s, r) /\ Counted(s, projection, had, r)
  BY <1>1, <1>2, <1>4 DEF Joined, Counted
<1>8. CountIsDue(s, r)
  BY <1>2, <1>4, IndexAssumption DEF CountIsDue
<1>9. SearchInv(s, projection, had, r)
  BY <1>4, <1>5, <1>6, <1>7, <1>8, JoiningIsEasy
<1>10. QED
  BY <1>3, <1>4, <1>9 DEF Goes, s

LEMMA ReadOrderedCoverageGoes ==
    ASSUME Present, ReadOrderedCoverage
    PROVE  Goes(search')
<1> DEFINE r == Request
           s == search'
           covered == ~Uncovered("n", r.filter)
<1>0. /\ SearchTyped(search) /\ search.pc = "join" /\ Asked(r)
      /\ SearchInv(search, projection, had, r)
      /\ "coverage" \in search.waiting
      /\ s = [search EXCEPT !.waiting = @ \ {"coverage"}, !.covered = covered]
  BY DEF Present, ReadOrderedCoverage, At
<1>1. FilterOnly(r)
  BY <1>0, KnownParts DEF Joined
<1>2. covered \in BOOLEAN
  OBVIOUS
<1> HIDE DEF covered
<1>3. SearchTyped(s)
  BY <1>0, <1>2 DEF SearchTyped, Places
<1>4. /\ s.pc = "join" /\ s.exact = search.exact
      /\ s.waiting = search.waiting \ {"coverage"}
      /\ s.reply = search.reply
      /\ s.offset = search.offset /\ s.hits = search.hits
      /\ s.scanned = search.scanned
  BY <1>0 DEF SearchTyped
<1> HIDE DEF s
<1>5. s.scanned = 0 /\ s.offset = 1 /\ s.hits = {}
  BY <1>0, <1>4, KnownParts DEF Placed
<1>6. s.reply # None => \A h \in s.reply.hits : Sound(h, projection, had, r)
  BY <1>0, <1>4, KnownParts DEF AllSound
<1>7. Joined(s, r) /\ Counted(s, projection, had, r)
  BY <1>0, <1>1, <1>4, KnownParts DEF Joined, Counted
<1>8. CountIsDue(s, r)
  BY <1>0, <1>4, KnownParts DEF CountIsDue
<1>9. SearchInv(s, projection, had, r)
  BY <1>4, <1>5, <1>6, <1>7, <1>8, JoiningIsEasy
<1>10. QED
  BY <1>3, <1>4, <1>9 DEF Goes, s

\* The hit of a point or a document.
LEMMA HitsAreTyped ==
    ASSUME NEW d \in Docs, NEW score \in Nat, NEW source \in Contents \cup {None}
    PROVE  /\ Hit(d, score, source) \in HitSet
           /\ Hit(d, score, source).id = d
           /\ Hit(d, score, source).field = 0
           /\ Hit(d, score, source).source = source
           /\ \A f \in Nat :
                 /\ [Hit(d, score, source) EXCEPT !.field = f] \in HitSet
                 /\ [Hit(d, score, source) EXCEPT !.field = f].id = d
                 /\ [Hit(d, score, source) EXCEPT !.field = f].field = f
                 /\ [Hit(d, score, source) EXCEPT !.field = f].source = source
BY DEF Hit, HitSet

LEMMA ReadOrderedGoes ==
    ASSUME Present, ReadOrdered
    PROVE  Goes(search')
<1> DEFINE r == Request
           s == search'
           found == {Hit(d, 0, points[d]) : d \in OrderedPoints(r)}
<1>0. /\ SearchTyped(search) /\ search.pc = "join" /\ Asked(r)
      /\ SearchInv(search, projection, had, r)
      /\ TypeOK /\ HistoryInv
      /\ "ordered" \in search.waiting
  BY DEF Present, ReadOrdered, At
<1>1. FilterOnly(r)
  BY <1>0, KnownParts DEF Joined
<1>2. PICK reply \in {[refused |-> TRUE, hits |-> {}], [refused |-> FALSE, hits |-> found]} :
            s = [search EXCEPT !.waiting = @ \ {"ordered"}, !.reply = reply]
  BY DEF ReadOrdered
<1>3. OrderedPoints(r) \subseteq ScopeOf(r)
  <2>1. (r.filter /\ ~r.sparse) <=> r.filter
    BY <1>1 DEF FilterOnly
  <2>2. ScopeOf(r) = Scope(r.filter)
    BY <2>1 DEF ScopeOf, Scope, InScope, Selected
  <2>3. OrderedPoints(r) \subseteq Scope(r.filter)
    BY DEF OrderedPoints
  <2>4. QED
    BY <2>2, <2>3
<1>4. ASSUME NEW h \in found
      PROVE  h \in HitSet /\ Sound(h, projection, had, r)
  <2>1. PICK d \in OrderedPoints(r) : h = Hit(d, 0, points[d])
    BY <1>4
  <2>2. /\ d \in Docs /\ points[d] \in Contents
        /\ points[d] \in Past(had, d) /\ Filtered(projection, r, points[d])
    BY <1>0, <1>3, <2>1, ScopeIsFiltered
  <2>3. h \in HitSet /\ h.id = d /\ h.source = points[d]
    BY <2>1, <2>2, HitsAreTyped
  <2>4. Relevant(r, points[d])
    BY <1>1 DEF FilterOnly, Relevant
  <2>5. QED
    BY <2>2, <2>3, <2>4 DEF Sound
<1>5. reply \in [refused: BOOLEAN, hits: SUBSET HitSet]
      /\ \A h \in reply.hits : Sound(h, projection, had, r)
  <2>1. found \subseteq HitSet /\ \A h \in found : Sound(h, projection, had, r)
    BY <1>4
  <2> HIDE DEF found
  <2>2. CASE reply = [refused |-> TRUE, hits |-> {}]
    BY <2>2
  <2>3. CASE reply = [refused |-> FALSE, hits |-> found]
    BY <2>1, <2>3
  <2>4. QED
    BY <1>2, <2>2, <2>3 DEF found
<1>6. SearchTyped(s)
  BY <1>0, <1>2, <1>5 DEF SearchTyped, Places
<1>7. /\ s.pc = "join" /\ s.exact = search.exact
      /\ s.waiting = search.waiting \ {"ordered"}
      /\ s.reply = reply
      /\ s.offset = search.offset /\ s.hits = search.hits
      /\ s.scanned = search.scanned
  BY <1>0, <1>2 DEF SearchTyped
<1> HIDE DEF s
<1>8. s.scanned = 0 /\ s.offset = 1 /\ s.hits = {}
  BY <1>0, <1>7, KnownParts DEF Placed
<1>9. s.reply # None => \A h \in s.reply.hits : Sound(h, projection, had, r)
  BY <1>5, <1>7
<1>10. Joined(s, r) /\ Counted(s, projection, had, r)
  BY <1>0, <1>1, <1>7, KnownParts DEF Joined, Counted
<1>11. CountIsDue(s, r)
  BY <1>0, <1>7, KnownParts DEF CountIsDue
<1>12. SearchInv(s, projection, had, r)
  BY <1>7, <1>8, <1>9, <1>10, <1>11, JoiningIsEasy
<1>13. QED
  BY <1>6, <1>7, <1>12 DEF Goes, s

LEMMA NothingIsPassed ==
    ASSUME NEW s, NEW H, NEW p, NEW r, s.hits = {}, s.offset = 1
    PROVE  /\ ScanCounts(0, p, H, r, 1) /\ Finds(s, H, r, 1)
           /\ Distinct(s.hits) /\ \A h \in s.hits : h.id \in Passed(s.offset)
<1>1. Passed(1) = {}
  BY PassedDocs
<1>2. Cardinality({}) = 0
  BY FS_EmptySet
<1>3. /\ StandingIn(H, r) \cap Passed(1) = {}
      /\ PossibleIn(p, H, r) \cap Passed(1) = {}
  BY <1>1
<1>4. ScanCounts(0, p, H, r, 1)
  BY <1>2, <1>3 DEF ScanCounts
<1>5. Finds(s, H, r, 1)
  BY <1>3 DEF Finds
<1>6. QED
  BY <1>4, <1>5 DEF Distinct

LEMMA JoinGoes ==
    ASSUME Present, Join
    PROVE  Goes(search')
<1> DEFINE r == Request
           s == search'
           ordered == Ordered(r)
           pc == Source(r, ordered)
<1>0. /\ SearchTyped(search) /\ search.pc = "join" /\ Asked(r)
      /\ SearchInv(search, projection, had, r)
      /\ search.waiting = {}
  BY DEF Present, Join, At
<1>1. CASE Answered(Error)
  BY <1>1, DoneGoes DEF Answered
<1>2. CASE s = [search EXCEPT
                    !.pc = pc,
                    !.ordered = ordered,
                    !.fields = IF pc = "ranked" THEN DOMAIN r.text ELSE {},
                    !.hits = IF ordered = None THEN {} ELSE ordered]
  <2>1. pc \in {"finish", "approximate", "ranked", "scroll"}
    BY DEF Source
  <2>2. ordered # None => search.reply # None /\ ordered \subseteq search.reply.hits
    BY DEF Ordered, First
  <2>3. ordered # None => ordered \subseteq HitSet /\ FilterOnly(r)
    <3>1. SUFFICES ASSUME ordered # None
                   PROVE  ordered \subseteq HitSet /\ FilterOnly(r)
      OBVIOUS
    <3>2. search.reply.hits \subseteq HitSet
      BY <1>0, <2>2, <3>1, SearchParts
    <3>3. FilterOnly(r)
      BY <1>0, <2>2, <3>1, KnownParts DEF Joined
    <3>4. QED
      BY <2>2, <3>1, <3>2, <3>3
  <2>4. DOMAIN r.text \subseteq TextFields
    BY <1>0 DEF Asked
  <2> HIDE DEF ordered, pc
  <2>5. SearchTyped(s)
    <3> DEFINE fields == IF pc = "ranked" THEN DOMAIN r.text ELSE {}
               hits == IF ordered = None THEN {} ELSE ordered
    <3>1. pc \in Places /\ fields \in SUBSET TextFields /\ hits \in SUBSET HitSet
          /\ ordered \in {None} \cup SUBSET HitSet
      BY <2>1, <2>3, <2>4 DEF Places
    <3>2. s = [search EXCEPT !.pc = pc, !.ordered = ordered, !.fields = fields, !.hits = hits]
      BY <1>2
    <3> HIDE DEF fields, hits
    <3>3. QED
      BY <1>0, <3>1, <3>2 DEF SearchTyped
  <2>6. /\ s.pc = pc /\ s.ordered = ordered
        /\ s.hits = IF ordered = None THEN {} ELSE ordered
        /\ s.waiting = {} /\ s.exact = search.exact /\ s.reply = search.reply
        /\ s.offset = search.offset /\ s.scanned = search.scanned
    BY <1>0, <1>2 DEF SearchTyped
  <2> HIDE DEF s
  <2>7. s.scanned = 0 /\ s.offset = 1
    BY <1>0, <2>6, KnownParts DEF Placed
  <2>8. AllSound(s, projection, had, r)
    BY <1>0, <2>2, <2>6, KnownParts DEF AllSound
  <2>9. Joined(s, r) /\ Counted(s, projection, had, r)
    BY <1>0, <2>3, <2>6, KnownParts DEF Joined, Counted
  <2>10. CountIsDue(s, r)
    BY <1>0, <2>6, KnownParts DEF CountIsDue
  <2>11. r.approximate \/ r.sparse => Ranked(r)
    BY <1>0 DEF Asked, Ranked
  <2>12. /\ pc = "finish" => FilterOnly(r) /\ ~Scans(s, projection, r)
         /\ ordered # None => pc = "finish"
    <3>1. CASE r.entry = "count" /\ ~Ranked(r) /\ ~r.patterns
      <4>1. ~r.post /\ ~r.sparse /\ r.sort = <<>>
        BY <1>0, <3>1 DEF Asked
      <4>2. QED
        BY <3>1, <4>1 DEF FilterOnly, Scans, Source, pc
    <3>2. CASE CountOnly(r)
      BY <3>2 DEF CountOnly, Scans, Source, pc
    <3>3. CASE ordered # None
      BY <2>3, <2>6, <3>3 DEF Scans, Source, pc
    <3>4. QED
      BY <3>1, <3>2, <3>3 DEF Source, pc
  <2>13. /\ pc = "ranked" => Ranked(r) /\ ~r.approximate
         /\ pc = "approximate" => r.approximate
         /\ pc = "scroll" => ~Ranked(r) /\ ~r.approximate /\ ~PlainCount(r)
    <3>1. ~(r.approximate /\ r.sparse)
      BY <1>0 DEF Asked
    <3>2. QED
      BY <2>11, <3>1 DEF Source, pc, PlainCount
  <2>14. Placed(s, projection, r)
    BY <2>1, <2>6, <2>7, <2>11, <2>12, <2>13 DEF Placed, Scans
  <2>15. Scanned(s, projection, had, r) /\ Batched(s, projection, had, r)
    <3>1. s.pc # "finish" => s.hits = {}
      BY <2>6, <2>12
    <3>2. QED
      BY <2>1, <2>6, <2>7, <3>1, NothingIsPassed DEF Scanned, Batched
  <2>16. Collected(s, projection, had, r)
    <3>1. s.pc # "finish" => s.hits = {}
      BY <2>6, <2>12
    <3>2. QED
      BY <2>1, <2>6, <2>7, <3>1, NothingIsPassed DEF Collected
  <2>17. RankedHits(s, r)
    <3>1. pc = "ranked" => s.fields = DOMAIN r.text
      BY <1>0, <1>2 DEF SearchTyped, s
    <3>2. QED
      BY <2>6, <2>12, <3>1 DEF RankedHits
  <2>18. Finished(s, projection, had, r)
    BY <2>6, <2>12 DEF Finished
  <2>19. SearchInv(s, projection, had, r)
    BY <2>8, <2>9, <2>10, <2>14, <2>15, <2>16, <2>17, <2>18 DEF SearchInv
  <2>20. QED
    BY <2>1, <2>5, <2>6, <2>19 DEF Goes, s
<1>3. QED
  BY <1>1, <1>2 DEF Join

----------------------------------------------------------------------------
(* Collecting hits.                                                        *)

\* What was joined is not touched any more.
LEMMA JoinedKeeps ==
    ASSUME NEW s, NEW t, NEW p, NEW H, NEW r, SearchInv(s, p, H, r),
           s.pc \notin {"idle", "join", "done"},
           t.waiting = s.waiting, t.exact = s.exact, t.reply = s.reply,
           t.ordered = s.ordered, \A h \in t.hits : Sound(h, p, H, r)
    PROVE  /\ AllSound(t, p, H, r) /\ Joined(t, r)
           /\ Counted(t, p, H, r) /\ CountIsDue(t, r)
           /\ Scans(t, p, r) <=> Scans(s, p, r)
<1>1. AllSound(t, p, H, r)
  BY KnownParts DEF AllSound
<1>2. Joined(t, r) /\ Counted(t, p, H, r)
  BY KnownParts DEF Joined, Counted
<1>3. CountIsDue(t, r)
  BY KnownParts DEF CountIsDue
<1>4. QED
  BY <1>1, <1>2, <1>3 DEF Scans

LEMMA RankedHitIsSound ==
    ASSUME TypeOK, HistoryInv, NEW r, Asked(r),
           NEW f \in DOMAIN r.text, NEW d \in ScopeOf(r), points[d].score[f] > 0,
           NEW score, score = points[d].score[f] * r.text[f],
           NEW source, source = IF projection THEN None ELSE points[d],
           NEW h, h = [id |-> d, field |-> f, score |-> score, source |-> source]
    PROVE  h \in HitSet /\ h.id = d /\ h.field = f /\ Sound(h, projection, had, r)
<1>1. /\ d \in Docs /\ points[d] \in Contents
      /\ points[d] \in Past(had, d) /\ Filtered(projection, r, points[d])
  BY ScopeIsFiltered
<1>2. f \in TextFields /\ r.text[f] \in Nat /\ f \in Nat
  BY IndexAssumption DEF Asked
<1>3. points[d].score[f] \in Nat
  BY <1>1, <1>2, IndexAssumption DEF Content
<1>6. score \in Nat
  <2>1. \A a, b \in Nat : a * b \in Nat
    OBVIOUS
  <2>2. QED
    BY <1>2, <1>3, <2>1
<1>7. source \in Contents \cup {None} /\ (source # None => source = points[d])
  BY <1>1
<1>9. h \in HitSet /\ h.id = d /\ h.field = f /\ h.source = source
  BY <1>1, <1>2, <1>6, <1>7 DEF HitSet
<1>10. Relevant(r, points[d])
  BY DEF Relevant
<1>11. h.source # None => h.source \in Past(had, h.id)
  BY <1>1, <1>7, <1>9
<1>12. Sound(h, projection, had, r)
  BY <1>1, <1>9, <1>10, <1>11 DEF Sound
<1>13. QED
  BY <1>9, <1>12

LEMMA ReadRankedGoes ==
    ASSUME Present, NEW f \in TextFields, ReadRanked(f)
    PROVE  Goes(search')
<1> DEFINE r == Request
           s == search'
           members == {d \in ScopeOf(r) : /\ points[d].score[f] > 0
                                          /\ r.like # None => search.like # None}
           limit == RankedLimit(r, f)
           size == IF Cardinality(members) < limit THEN Cardinality(members) ELSE limit
           hit(d) == [Hit(d, points[d].score[f] * r.text[f],
                          IF projection THEN None ELSE points[d]) EXCEPT !.field = f]
<1>0. /\ SearchTyped(search) /\ search.pc = "ranked" /\ Asked(r)
      /\ SearchInv(search, projection, had, r)
      /\ TypeOK /\ HistoryInv
      /\ f \in search.fields
  BY DEF Present, ReadRanked, At
<1>1. PICK S \in kSubset(size, members) :
            s = [search EXCEPT !.fields = @ \ {f}, !.hits = @ \cup {hit(d) : d \in S}]
  BY DEF ReadRanked
<1>2. S \subseteq members
  BY DEF kSubset
<1>3. f \in DOMAIN r.text /\ r.text[f] \in Nat /\ f \in Nat
  BY <1>0, KnownParts, IndexAssumption DEF RankedHits, Asked
<1> DEFINE new == {hit(d) : d \in S}
<1>4. ASSUME NEW d \in S
      PROVE  /\ hit(d) \in HitSet /\ hit(d).id = d /\ hit(d).field = f
             /\ Sound(hit(d), projection, had, r)
  <2>1. d \in ScopeOf(r) /\ points[d].score[f] > 0
    BY <1>2
  <2>2. TypeOK /\ HistoryInv /\ Asked(r)
    BY <1>0
  <2>3. PICK h : h = hit(d)
    OBVIOUS
  <2>4. h \in HitSet /\ h.id = d /\ h.field = f /\ Sound(h, projection, had, r)
    <3>1. PICK score : score = points[d].score[f] * r.text[f]
      OBVIOUS
    <3>2. PICK source : source = IF projection THEN None ELSE points[d]
      OBVIOUS
    <3>3. h = [id |-> d, field |-> f, score |-> score, source |-> source]
      BY <2>3, <3>1, <3>2 DEF Hit
    <3> HIDE DEF members, r, hit
    <3>4. QED
      BY <1>3, <2>1, <2>2, <3>1, <3>2, <3>3, RankedHitIsSound
  <2> HIDE DEF hit
  <2>5. QED
    BY <2>3, <2>4
<1> HIDE DEF hit
<1>41. new \subseteq HitSet /\ \A h \in new : h.field = f /\ Sound(h, projection, had, r)
  BY <1>4
<1>42. \A g, h \in new : g.id = h.id => g = h
  BY <1>4
<1>5. s = [search EXCEPT !.fields = @ \ {f}, !.hits = @ \cup new]
  BY <1>1
<1> HIDE DEF new
<1>6. SearchTyped(s)
  BY <1>0, <1>5, <1>41 DEF SearchTyped
<1>7. /\ s.pc = "ranked" /\ s.fields = search.fields \ {f} /\ s.hits = search.hits \cup new
      /\ s.waiting = search.waiting /\ s.exact = search.exact /\ s.reply = search.reply
      /\ s.ordered = search.ordered /\ s.offset = search.offset
      /\ s.scanned = search.scanned
  BY <1>0, <1>5 DEF SearchTyped
<1> HIDE DEF s
<1>8. \A h \in s.hits : Sound(h, projection, had, r)
  BY <1>0, <1>7, <1>41, KnownParts DEF AllSound
<1>9. /\ AllSound(s, projection, had, r) /\ Joined(s, r)
      /\ Counted(s, projection, had, r) /\ CountIsDue(s, r)
      /\ Scans(s, projection, r) <=> Scans(search, projection, r)
  BY <1>0, <1>7, <1>8, JoinedKeeps
<1>10. Placed(s, projection, r)
  BY <1>0, <1>7, <1>9, KnownParts DEF Placed
<1>11. RankedHits(s, r)
  <2>1. /\ search.fields \subseteq DOMAIN r.text
        /\ \A h \in search.hits : h.field \notin search.fields
        /\ \A g, h \in search.hits : g.id = h.id /\ g.field = h.field => g = h
    BY <1>0, KnownParts DEF RankedHits
  <2>2. \A g \in search.hits, h \in new : g.field # h.field
    BY <1>0, <2>1, <1>41
  <2>3. \A h \in s.hits : h.field \notin s.fields
    BY <1>7, <2>1, <1>41
  <2>4. \A g, h \in s.hits : g.id = h.id /\ g.field = h.field => g = h
    BY <1>7, <2>1, <2>2, <1>42
  <2>5. QED
    BY <1>7, <2>1, <2>3, <2>4 DEF RankedHits
<1>12. /\ Scanned(s, projection, had, r) /\ Batched(s, projection, had, r)
       /\ Collected(s, projection, had, r) /\ Finished(s, projection, had, r)
  BY <1>7 DEF Scanned, Batched, Collected, Finished
<1>13. SearchInv(s, projection, had, r)
  BY <1>9, <1>10, <1>11, <1>12 DEF SearchInv
<1>14. QED
  BY <1>6, <1>7, <1>13 DEF Goes, s

----------------------------------------------------------------------------
(* Hits and documents, counted.                                            *)

Ids(hits) == {h.id : h \in hits}

LEMMA HitsAreCounted ==
    ASSUME NEW hits \in SUBSET HitSet, Distinct(hits)
    PROVE  /\ Ids(hits) \subseteq Docs
           /\ Cardinality(hits) = Cardinality(Ids(hits)) /\ Cardinality(hits) \in Nat
<1> DEFINE id == [h \in hits |-> h.id]
<1>1. \A h \in hits : h.id \in Docs
  BY DEF HitSet
<1>2. Ids(hits) \subseteq Docs
  BY <1>1 DEF Ids
<1>3. IsFiniteSet(Ids(hits)) /\ Cardinality(Ids(hits)) \in Nat
  BY <1>2, DocsAreCounted
<1>4. id \in [hits -> Ids(hits)]
  BY DEF Ids
<1>5. \A g, h \in hits : id[g] = id[h] => g = h
  BY DEF Distinct
<1>6. \A d \in Ids(hits) : \E h \in hits : id[h] = d
  BY DEF Ids
<1> HIDE DEF id
<1>7. id \in Injection(hits, Ids(hits)) /\ id \in Surjection(hits, Ids(hits))
  BY <1>4, <1>5, <1>6 DEF Injection, IsInjective, Surjection
<1>8. id \in Bijection(hits, Ids(hits))
  BY <1>7 DEF Bijection
<1>9. Cardinality(hits) = Cardinality(Ids(hits))
  <2>1. IsFiniteSet(hits)
    BY <1>3, <1>7, FS_Injection
  <2>2. QED
    BY <1>3, <1>8, <2>1, FS_Bijection DEF ExistsBijection
<1>10. QED
  BY <1>2, <1>3, <1>9

\* What lies behind a position is what was there and what is new.
LEMMA CountsAdd ==
    ASSUME NEW X \in SUBSET Docs, NEW A \in SUBSET Docs, NEW B \in SUBSET Docs, A \subseteq B
    PROVE  /\ Cardinality(X \cap B) = Cardinality(X \cap A) + Cardinality(X \cap (B \ A))
           /\ Cardinality(X \cap A) \in Nat /\ Cardinality(X \cap (B \ A)) \in Nat
<1>1. /\ IsFiniteSet(X \cap A) /\ IsFiniteSet(X \cap (B \ A))
      /\ Cardinality(X \cap A) \in Nat /\ Cardinality(X \cap (B \ A)) \in Nat
  <2>1. X \cap A \in SUBSET Docs /\ X \cap (B \ A) \in SUBSET Docs
    OBVIOUS
  <2>2. QED
    BY <2>1, DocsAreCounted
<1>2. X \cap B = (X \cap A) \cup (X \cap (B \ A))
  OBVIOUS
<1>3. (X \cap A) \cap (X \cap (B \ A)) = {}
  OBVIOUS
<1> DEFINE old == X \cap A
           new == X \cap (B \ A)
<1>4. Cardinality(old \cup new) = Cardinality(old) + Cardinality(new) - Cardinality({})
  <2>1. IsFiniteSet(old) /\ IsFiniteSet(new) /\ old \cap new = {}
    BY <1>1, <1>3
  <2> HIDE DEF old, new
  <2>2. QED
    BY <2>1, FS_Union
<1>5. Cardinality({}) = 0
  BY FS_EmptySet
<1>6. Cardinality(X \cap B) = Cardinality(old \cup new)
  BY <1>2
<1>7. Cardinality(old) \in Nat /\ Cardinality(new) \in Nat
  BY <1>1
<1>8. Cardinality(X \cap B) = Cardinality(old) + Cardinality(new)
  <2> HIDE DEF old, new
  <2>1. QED
    BY <1>4, <1>5, <1>6, <1>7
<1>9. QED
  BY <1>7, <1>8

\* The hits of a page that pass are counted once.
LEMMA ScanCountsAdd ==
    ASSUME NEW n \in Nat, NEW H, NEW p, NEW r, NEW o \in Nat, NEW next \in Nat,
           ScanCounts(n, p, H, r, o), Passed(o) \subseteq Passed(next),
           NEW kept \in SUBSET HitSet, Distinct(kept),
           StandingIn(H, r) \cap (Passed(next) \ Passed(o)) \subseteq Ids(kept),
           Ids(kept) \subseteq PossibleIn(p, H, r) \cap (Passed(next) \ Passed(o))
    PROVE  n + Cardinality(kept) \in Nat /\ ScanCounts(n + Cardinality(kept), p, H, r, next)
<1> DEFINE new == Passed(next) \ Passed(o)
           m == Cardinality(kept)
           S == StandingIn(H, r)
           P == PossibleIn(p, H, r)
<1>1. Passed(o) \in SUBSET Docs /\ Passed(next) \in SUBSET Docs
  BY PassedDocs
<1>2. S \in SUBSET Docs /\ P \in SUBSET Docs
  BY StandingAreDocs
<1>3. m = Cardinality(Ids(kept)) /\ m \in Nat /\ Ids(kept) \in SUBSET Docs
  BY HitsAreCounted
<1>4. /\ Cardinality(S \cap Passed(next)) = Cardinality(S \cap Passed(o)) + Cardinality(S \cap new)
      /\ Cardinality(S \cap Passed(o)) \in Nat /\ Cardinality(S \cap new) \in Nat
  BY <1>1, <1>2, CountsAdd
<1>5. /\ Cardinality(P \cap Passed(next)) = Cardinality(P \cap Passed(o)) + Cardinality(P \cap new)
      /\ Cardinality(P \cap Passed(o)) \in Nat /\ Cardinality(P \cap new) \in Nat
  BY <1>1, <1>2, CountsAdd
<1>6. Cardinality(S \cap new) <= m
  <2>1. S \cap new \in SUBSET Ids(kept)
    OBVIOUS
  <2>2. QED
    BY <1>3, <2>1, DocsAreCounted
<1>7. m <= Cardinality(P \cap new)
  <2>1. Ids(kept) \in SUBSET (P \cap new) /\ P \cap new \in SUBSET Docs
    BY <1>2
  <2>2. QED
    BY <1>3, <2>1, DocsAreCounted
<1>8. Cardinality(S \cap Passed(o)) <= n /\ n <= Cardinality(P \cap Passed(o))
  BY DEF ScanCounts
<1> HIDE DEF new, m, S, P
<1>9. n + m \in Nat
  BY <1>3
<1>10. /\ Cardinality(S \cap Passed(next)) <= n + m
       /\ n + m <= Cardinality(P \cap Passed(next))
  BY <1>3, <1>4, <1>5, <1>6, <1>7, <1>8
<1>11. QED
  BY <1>9, <1>10 DEF ScanCounts, m, S, P

\* A hit that is sound, passes, and is not the document asked about is possible.
LEMMA SoundIsPossible ==
    ASSUME NEW H, NEW p, NEW r, NEW h \in HitSet, Sound(h, p, H, r), h.id # r.like,
           PatternsMatch(h, r), PostMatches(h, r)
    PROVE  h.id \in PossibleIn(p, H, r)
<1>1. h.id \in Docs
  BY DEF HitSet
<1>2. PICK c \in Past(H, h.id) : Filtered(p, r, c)
  BY DEF Sound
<1>3. \E e \in Past(H, h.id) : Passes(r, e)
  <2>1. CASE r.post \/ r.patterns
    <3>1. h.source \in Past(H, h.id)
      BY <2>1 DEF Sound, PatternsMatch, PostMatches
    <3>2. Passes(r, h.source)
      BY DEF Passes, PatternsMatch, PostMatches
    <3>3. QED
      BY <3>1, <3>2
  <2>2. CASE ~r.post /\ ~r.patterns
    BY <1>2, <2>2 DEF Passes
  <2>3. QED
    BY <2>1, <2>2
<1>4. \E g \in Past(H, h.id) : Relevant(r, g)
  BY DEF Sound
<1>5. QED
  BY <1>1, <1>2, <1>3, <1>4 DEF PossibleIn

----------------------------------------------------------------------------
(* The scan of the filter.                                                 *)

\* A page of a complete scan.
LEMMA GatherScansGoes ==
    ASSUME Present, search.pc \in {"scroll", "sources"}, CompleteScan(Request),
           NEW o \in Nat, NEW next \in Nat, Passed(o) \subseteq Passed(next),
           ScanCounts(search.scanned, projection, had, Request, o),
           NEW found \in SUBSET HitSet, Distinct(found),
           \A h \in found : /\ Sound(h, projection, had, Request)
                            /\ h.id \in Passed(next) \ Passed(o),
           \A d \in StandingIn(had, Request) \cap (Passed(next) \ Passed(o)) :
                \E h \in found : h.id = d /\ h.source = Were(had, d)
    PROVE  Goes(Gather(found, next))
<1> DEFINE r == Request
           t == Gather(found, next)
           kept == {h \in found : CompleteScan(r) => PostMatches(h, r)}
           all == search.hits \cup
                    {h \in kept : /\ PatternsMatch(h, r)
                                  /\ CompleteScan(r) /\ r.collapse = None
                                        => IsAfter(h, r.after, r.sort)}
           hits == Keep(r, all)
           scanned == search.scanned + Cardinality(kept)
           pc == IF next = 0 THEN "gathered" ELSE "scroll"
<1>0. /\ SearchTyped(search) /\ Asked(r) /\ TypeOK /\ HistoryInv
      /\ SearchInv(search, projection, had, r)
      /\ search.hits \subseteq HitSet /\ search.scanned \in Nat
  BY SearchParts DEF Present
<1>1. Scans(search, projection, r)
  BY DEF CompleteScan, CountOnly, Scans
<1>2. ~Ranked(r) /\ ~r.patterns /\ ~r.sparse /\ ~r.approximate /\ r.like = None
  <2>1. ~Ranked(r) /\ ~r.patterns /\ ~r.sparse
    BY <1>1 DEF Scans
  <2>2. ~r.approximate /\ r.like = None
    BY <1>0, <2>1 DEF Asked, Ranked
  <2>3. QED
    BY <2>1, <2>2
<1>3. t = [search EXCEPT !.hits = hits, !.scanned = scanned, !.offset = next,
                         !.batch = <<>>, !.pc = pc]
  <2>1. ~(~r.patterns /\ ~CompleteScan(r))
    OBVIOUS
  <2>2. QED
    BY <2>1 DEF Gather
<1>4. hits \subseteq all /\ all \subseteq search.hits \cup found /\ kept \in SUBSET HitSet
  BY DEF Keep, First
<1>5. hits \subseteq HitSet /\ \A h \in hits : Sound(h, projection, had, r)
  <2>1. \A h \in search.hits : Sound(h, projection, had, r)
    BY <1>0, KnownParts DEF AllSound
  <2>2. QED
    BY <1>0, <1>4, <2>1
<1>6. Distinct(kept)
  BY DEF Distinct
<1>7. StandingIn(had, r) \cap (Passed(next) \ Passed(o)) \subseteq Ids(kept)
  <2> SUFFICES ASSUME NEW d \in StandingIn(had, r) \cap (Passed(next) \ Passed(o))
               PROVE  d \in Ids(kept)
    OBVIOUS
  <2>1. PICK h \in found : h.id = d /\ h.source = Were(had, d)
    OBVIOUS
  <2>2. Were(had, d) # None /\ Matches(r, Were(had, d))
    BY DEF StandingIn
  <2>3. PostMatches(h, r)
    BY <2>1, <2>2 DEF PostMatches, Matches
  <2>4. QED
    BY <2>1, <2>3 DEF Ids
<1>8. Ids(kept) \subseteq PossibleIn(projection, had, r) \cap (Passed(next) \ Passed(o))
  <2> SUFFICES ASSUME NEW h \in kept
               PROVE  h.id \in PossibleIn(projection, had, r) \cap (Passed(next) \ Passed(o))
    BY DEF Ids
  <2>1. h \in HitSet /\ h.id \in Docs /\ Sound(h, projection, had, r) /\ PostMatches(h, r)
    BY DEF HitSet
  <2>2. PatternsMatch(h, r)
    BY <1>2 DEF PatternsMatch
  <2>3. h.id # r.like
    BY <1>2, <2>1, PositionsAreDocs, IndexAssumption
  <2>4. h.id \in PossibleIn(projection, had, r)
    BY <2>1, <2>2, <2>3, SoundIsPossible
  <2>5. QED
    BY <2>4
<1>9. scanned \in Nat /\ ScanCounts(scanned, projection, had, r, next)
  <2> HIDE DEF kept
  <2>1. QED
    BY <1>0, <1>4, <1>6, <1>7, <1>8, ScanCountsAdd
<1> HIDE DEF kept, all, hits, scanned
<1>10. SearchTyped(t)
  <2>1. pc \in Places /\ <<>> \in Seq(Docs) /\ hits \in SUBSET HitSet
    BY <1>5 DEF Places
  <2> HIDE DEF pc, t
  <2>2. QED
    BY <1>0, <1>3, <1>9, <2>1 DEF SearchTyped
<1> HIDE DEF t
<1>11. /\ t.pc = pc /\ t.hits = hits /\ t.scanned = scanned /\ t.offset = next
       /\ t.waiting = search.waiting /\ t.exact = search.exact /\ t.reply = search.reply
       /\ t.ordered = search.ordered
  BY <1>0, <1>3 DEF SearchTyped
<1>12. /\ AllSound(t, projection, had, r) /\ Joined(t, r)
       /\ Counted(t, projection, had, r) /\ CountIsDue(t, r)
       /\ Scans(t, projection, r)
  <2>1. search.pc \notin {"idle", "join", "done"}
    OBVIOUS
  <2>2. \A h \in t.hits : Sound(h, projection, had, r)
    BY <1>5, <1>11
  <2>3. QED
    BY <1>0, <1>1, <1>11, <2>1, <2>2, JoinedKeeps
<1>13. Placed(t, projection, r)
  <2>1. ~PlainCount(r)
    BY <1>0, KnownParts DEF Placed
  <2>2. QED
    BY <1>2, <1>11, <1>12, <2>1 DEF Placed
<1>14. Scanned(t, projection, had, r)
  BY <1>9, <1>11 DEF Scanned
<1>15. /\ Batched(t, projection, had, r) /\ Collected(t, projection, had, r)
       /\ RankedHits(t, r) /\ Finished(t, projection, had, r)
  BY <1>11, <1>12 DEF Batched, Collected, RankedHits, Finished
<1>16. SearchInv(t, projection, had, r)
  BY <1>12, <1>13, <1>14, <1>15 DEF SearchInv
<1>17. QED
  BY <1>10, <1>11, <1>16 DEF Goes, t

\* A page of any other scan.
LEMMA GatherSomeGoes ==
    ASSUME Present, search.pc = "scroll", ~CompleteScan(Request),
           NEW next \in Nat, Passed(search.offset) \subseteq Passed(next),
           NEW found \in SUBSET HitSet, Distinct(found),
           \A h \in found : /\ Sound(h, projection, had, Request)
                            /\ h.id \in Passed(next) \ Passed(search.offset),
           ~projection =>
              \A d \in StandingIn(had, Request) \cap (Passed(next) \ Passed(search.offset)) :
                \E h \in found : h.id = d /\ h.source = Were(had, d)
    PROVE  Goes(Gather(found, next))
<1> DEFINE r == Request
           t == Gather(found, next)
           kept == {h \in found : CompleteScan(r) => PostMatches(h, r)}
           hits == search.hits \cup
                    {h \in kept : /\ PatternsMatch(h, r)
                                  /\ CompleteScan(r) /\ r.collapse = None
                                        => IsAfter(h, r.after, r.sort)}
           pc == IF next = 0 \/ ~r.patterns THEN "gathered" ELSE "scroll"
<1>0. /\ SearchTyped(search) /\ Asked(r) /\ TypeOK /\ HistoryInv
      /\ SearchInv(search, projection, had, r)
      /\ search.hits \subseteq HitSet /\ search.scanned \in Nat
  BY SearchParts DEF Present
<1>1. ~Scans(search, projection, r)
  BY DEF CompleteScan, CountOnly, Scans
<1>2. ~Ranked(r) /\ ~r.approximate /\ ~PlainCount(r)
  BY <1>0, KnownParts DEF Placed
<1>3. t = [search EXCEPT !.hits = hits, !.scanned = search.scanned, !.offset = next,
                         !.batch = <<>>, !.pc = pc]
  BY DEF Gather
<1>4. hits = search.hits \cup {h \in found : PatternsMatch(h, r)}
  OBVIOUS
<1> HIDE DEF hits, kept
<1>5. hits \subseteq HitSet /\ \A h \in hits : Sound(h, projection, had, r)
  BY <1>0, <1>4, KnownParts DEF AllSound
<1>6. SearchTyped(t)
  <2>1. pc \in Places /\ <<>> \in Seq(Docs) /\ hits \in SUBSET HitSet
    BY <1>5 DEF Places
  <2> HIDE DEF pc, t
  <2>2. QED
    BY <1>0, <1>3, <2>1 DEF SearchTyped
<1> HIDE DEF t
<1>7. /\ t.pc = pc /\ t.hits = hits /\ t.scanned = search.scanned /\ t.offset = next
      /\ t.waiting = search.waiting /\ t.exact = search.exact /\ t.reply = search.reply
      /\ t.ordered = search.ordered
  BY <1>0, <1>3 DEF SearchTyped
<1>8. /\ AllSound(t, projection, had, r) /\ Joined(t, r)
      /\ Counted(t, projection, had, r) /\ CountIsDue(t, r)
      /\ ~Scans(t, projection, r)
  <2>1. search.pc \notin {"idle", "join", "done"}
    OBVIOUS
  <2>2. \A h \in t.hits : Sound(h, projection, had, r)
    BY <1>5, <1>7
  <2>3. QED
    BY <1>0, <1>1, <1>7, <2>1, <2>2, JoinedKeeps
<1>9. Placed(t, projection, r)
  BY <1>2, <1>7, <1>8 DEF Placed
<1>10. /\ Scanned(t, projection, had, r) /\ Batched(t, projection, had, r)
       /\ RankedHits(t, r) /\ Finished(t, projection, had, r)
  BY <1>7, <1>8 DEF Scanned, Batched, RankedHits, Finished
<1>11. Collected(t, projection, had, r)
  <2>1. /\ Distinct(search.hits)
        /\ \A h \in search.hits : h.id \in Passed(search.offset)
        /\ SeesSources(projection, r) => Finds(search, had, r, search.offset)
    BY <1>0, <1>1, KnownParts DEF Collected
  <2>2. Distinct(t.hits)
    BY <1>4, <1>7, <2>1 DEF Distinct
  <2>3. \A h \in t.hits : h.id \in Passed(t.offset)
    BY <1>4, <1>7, <2>1
  <2>4. ASSUME SeesSources(projection, r), NEW d \in StandingIn(had, r) \cap Passed(t.offset)
        PROVE  \E h \in t.hits : h.id = d /\ h.source = Were(had, d)
    <3>1. CASE d \in Passed(search.offset)
      BY <1>4, <1>7, <2>1, <2>4, <3>1 DEF Finds
    <3>2. CASE d \notin Passed(search.offset)
      <4>1. ~projection
        BY <1>2, <2>4 DEF SeesSources
      <4>2. PICK h \in found : h.id = d /\ h.source = Were(had, d)
        BY <1>7, <3>2, <4>1
      <4>3. Were(had, d) # None /\ Matches(r, Were(had, d))
        BY DEF StandingIn
      <4>4. PatternsMatch(h, r)
        BY <4>2, <4>3 DEF PatternsMatch, Matches
      <4>5. QED
        BY <1>4, <1>7, <4>2, <4>4
    <3>3. QED
      BY <3>1, <3>2
  <2>5. QED
    BY <2>2, <2>3, <2>4 DEF Collected, Finds
<1>12. SearchInv(t, projection, had, r)
  BY <1>8, <1>9, <1>10, <1>11 DEF SearchInv
<1>13. QED
  BY <1>6, <1>7, <1>12 DEF Goes, t

LEMMA ReadPageGoes ==
    ASSUME Present, ReadPage
    PROVE  Goes(search')
<1> DEFINE r == Request
           s == search'
           limit == IF r.patterns \/ CompleteScan(r) THEN MaxPageSize ELSE CandidateLimit(r)
           page == ScrollPage(ScopeOf(r), search.offset, limit)
           source(d) == IF projection THEN None ELSE points[d]
           found == {Hit(d, 0, source(d)) : d \in ToSet(page.docs)}
           new == Passed(page.next) \ Passed(search.offset)
<1>0. /\ SearchTyped(search) /\ search.pc = "scroll" /\ Asked(r)
      /\ SearchInv(search, projection, had, r)
      /\ TypeOK /\ HistoryInv
      /\ Fit(r)
  BY DEF Present, ReadPage, At
<1>1. s = IF CompleteScan(r) /\ projection
          THEN [search EXCEPT !.pc = "sources", !.batch = page.docs, !.offset = page.next]
          ELSE Gather(found, page.next)
  BY DEF ReadPage
<1>2. search.offset \in Nat \ {0} /\ ~Ranked(r) /\ ~r.approximate /\ ~PlainCount(r)
  BY <1>0, SearchParts, KnownParts DEF Placed
<1>3. /\ page.docs \in Seq(Docs) /\ page.next \in Nat
      /\ Passed(search.offset) \subseteq Passed(page.next)
      /\ ToSet(page.docs) = ScopeOf(r) \cap new
  <2>1. limit \in Nat
    <3>1. MaxPageSize \in Nat
      BY SearchAssumption
    <3>2. CASE r.patterns \/ CompleteScan(r)
      BY <3>1, <3>2
    <3>3. CASE ~(r.patterns \/ CompleteScan(r))
      <4>1. r.from \in Nat /\ r.size \in Nat
        BY <1>0, <1>2 DEF Fit
      <4>2. Window(r) \in Nat
        BY <4>1 DEF Window
      <4>3. CandidateLimit(r) \in Nat
        BY <3>1, <4>2 DEF CandidateLimit
      <4>4. QED
        BY <3>3, <4>3
    <3>4. QED
      BY <3>2, <3>3
  <2>2. ScopeOf(r) \in SUBSET Docs
    BY <1>0, ScopeIsFiltered
  <2> HIDE DEF limit
  <2>3. QED
    BY <1>2, <2>1, <2>2, PageHasWhatIsLeft
<1>4. StandingIn(had, r) \cap new \subseteq ToSet(page.docs)
  BY <1>0, <1>3, ScopeIsFiltered
<1> HIDE DEF page, limit
<1>5. CASE CompleteScan(r) /\ projection
  <2>1. s = [search EXCEPT !.pc = "sources", !.batch = page.docs, !.offset = page.next]
    BY <1>1, <1>5
  <2>2. SearchTyped(s)
    BY <1>0, <1>3, <2>1 DEF SearchTyped, Places
  <2>3. /\ s.pc = "sources" /\ s.batch = page.docs /\ s.offset = page.next
        /\ s.hits = search.hits /\ s.scanned = search.scanned
        /\ s.waiting = search.waiting /\ s.exact = search.exact /\ s.reply = search.reply
        /\ s.ordered = search.ordered
    BY <1>0, <2>1 DEF SearchTyped
  <2> HIDE DEF s
  <2>4. Scans(search, projection, r)
    BY <1>5 DEF CompleteScan, CountOnly, Scans
  <2>5. \A h \in s.hits : Sound(h, projection, had, r)
    BY <1>0, <2>3, KnownParts DEF AllSound
  <2>6. /\ AllSound(s, projection, had, r) /\ Joined(s, r)
        /\ Counted(s, projection, had, r) /\ CountIsDue(s, r)
        /\ Scans(s, projection, r)
    BY <1>0, <2>3, <2>4, <2>5, JoinedKeeps
  <2>7. Placed(s, projection, r)
    BY <1>2, <1>5, <2>3, <2>6 DEF Placed
  <2>8. Batched(s, projection, had, r)
    <3>1. ScanCounts(search.scanned, projection, had, r, search.offset)
      BY <1>0, <2>4, KnownParts DEF Scanned
    <3>2. \A d \in ToSet(page.docs) : \E c \in Past(had, d) : Filtered(projection, r, c)
      BY <1>0, <1>3, ScopeIsFiltered
    <3>3. ToSet(page.docs) \subseteq new
      BY <1>3
    <3>4. QED
      BY <1>2, <1>3, <1>4, <2>3, <3>1, <3>2, <3>3 DEF Batched
  <2>9. /\ Scanned(s, projection, had, r) /\ Collected(s, projection, had, r)
        /\ RankedHits(s, r) /\ Finished(s, projection, had, r)
    BY <2>3, <2>6 DEF Scanned, Collected, RankedHits, Finished
  <2>10. SearchInv(s, projection, had, r)
    BY <2>6, <2>7, <2>8, <2>9 DEF SearchInv
  <2>11. QED
    BY <2>2, <2>3, <2>10 DEF Goes, s
<1>6. CASE ~(CompleteScan(r) /\ projection)
  <2>1. s = Gather(found, page.next)
    BY <1>1, <1>6
  <2>2. ASSUME NEW d \in ToSet(page.docs)
        PROVE  /\ Hit(d, 0, source(d)) \in HitSet
               /\ Hit(d, 0, source(d)).id = d
               /\ Hit(d, 0, source(d)).source = source(d)
               /\ Sound(Hit(d, 0, source(d)), projection, had, r)
    <3>1. /\ d \in Docs /\ points[d] \in Contents
          /\ points[d] \in Past(had, d) /\ Filtered(projection, r, points[d])
      BY <1>0, <1>3, ScopeIsFiltered
    <3>2. PICK c : c = source(d)
      OBVIOUS
    <3>3. c \in Contents \cup {None} /\ (c # None => c = points[d])
      BY <3>1, <3>2
    <3>4. PICK h : h = Hit(d, 0, c)
      OBVIOUS
    <3>5. h \in HitSet /\ h.id = d /\ h.source = c
      BY <3>1, <3>3, <3>4, HitsAreTyped
    <3>6. Relevant(r, points[d])
      BY <1>2 DEF Relevant
    <3>7. Sound(h, projection, had, r)
      BY <3>1, <3>3, <3>5, <3>6 DEF Sound
    <3>8. QED
      BY <3>2, <3>4, <3>5, <3>7
  <2>3. found \subseteq HitSet
    BY <2>2
  <2>4. Distinct(found)
    BY <2>2 DEF Distinct
  <2>5. \A h \in found : Sound(h, projection, had, r) /\ h.id \in new
    <3>1. ToSet(page.docs) \subseteq new
      BY <1>3
    <3>2. QED
      BY <2>2, <3>1
  <2>6. ASSUME ~projection, NEW d \in StandingIn(had, r) \cap new
        PROVE  \E h \in found : h.id = d /\ h.source = Were(had, d)
    <3>1. d \in ToSet(page.docs)
      BY <1>4
    <3>2. d \in Docs /\ Still(had, d)
      BY DEF StandingIn
    <3>3. source(d) = Were(had, d)
      BY <1>0, <2>6, <3>2, IndexIsHistory
    <3>4. Hit(d, 0, source(d)) \in found
      BY <3>1
    <3>5. QED
      BY <2>2, <3>1, <3>3, <3>4
  <2> HIDE DEF found, s
  <2>7. CASE CompleteScan(r)
    <3>1. ~projection
      BY <1>6, <2>7
    <3>2. ScanCounts(search.scanned, projection, had, r, search.offset)
      <4>1. Scans(search, projection, r)
        BY <2>7 DEF CompleteScan, CountOnly, Scans
      <4>2. QED
        BY <1>0, <4>1, KnownParts DEF Scanned
    <3>3. search.pc \in {"scroll", "sources"} /\ found \in SUBSET HitSet
      BY <1>0, <2>3
    <3>4. Goes(Gather(found, page.next))
      BY <1>2, <1>3, <2>4, <2>5, <2>6, <2>7, <3>1, <3>2, <3>3, GatherScansGoes
    <3>5. QED
      BY <2>1, <3>4 DEF s
  <2>8. CASE ~CompleteScan(r)
    <3>1. found \in SUBSET HitSet
      BY <2>3
    <3>2. Goes(Gather(found, page.next))
      BY <1>0, <1>3, <2>4, <2>5, <2>6, <2>8, <3>1, GatherSomeGoes
    <3>3. QED
      BY <2>1, <3>2 DEF s
  <2>9. QED
    BY <2>7, <2>8
<1>7. QED
  BY <1>5, <1>6

LEMMA ReadSourcesGoes ==
    ASSUME Present, ReadSources
    PROVE  Goes(search')
<1> DEFINE r == Request
           s == search'
           there == {d \in ToSet(search.batch) : docs[d] # None}
           found == {Hit(d, 0, docs[d]) : d \in there}
           next == search.offset
<1>0. /\ SearchTyped(search) /\ search.pc = "sources" /\ Asked(r)
      /\ SearchInv(search, projection, had, r)
      /\ TypeOK /\ HistoryInv
      /\ s = Gather(found, next)
  BY DEF Present, ReadSources, At
<1>1. Scans(search, projection, r) /\ ~Ranked(r)
  BY <1>0, KnownParts DEF Placed
<1>2. next \in Nat /\ ToSet(search.batch) \subseteq Docs
  BY <1>0, SearchParts DEF ToSet
<1>3. PICK o \in Nat :
        /\ ScanCounts(search.scanned, projection, had, r, o)
        /\ Passed(o) \subseteq Passed(next)
        /\ ToSet(search.batch) \subseteq Passed(next) \ Passed(o)
        /\ StandingIn(had, r) \cap (Passed(next) \ Passed(o)) \subseteq ToSet(search.batch)
        /\ \A d \in ToSet(search.batch) : \E c \in Past(had, d) : Filtered(projection, r, c)
  BY <1>0, KnownParts DEF Batched
<1>4. ASSUME NEW d \in there
      PROVE  /\ Hit(d, 0, docs[d]) \in HitSet
             /\ Hit(d, 0, docs[d]).id = d
             /\ Hit(d, 0, docs[d]).source = docs[d]
             /\ Sound(Hit(d, 0, docs[d]), projection, had, r)
  <2>1. d \in Docs /\ docs[d] \in Contents /\ docs[d] \in Past(had, d)
    BY <1>0, <1>2, IndexIsHistory
  <2>2. PICK c : c = docs[d]
    OBVIOUS
  <2>3. PICK h : h = Hit(d, 0, c)
    OBVIOUS
  <2>4. h \in HitSet /\ h.id = d /\ h.source = c
    <3>1. d \in Docs /\ c \in Contents \cup {None}
      BY <2>1, <2>2
    <3> HIDE DEF there
    <3>2. QED
      BY <2>3, <3>1, HitsAreTyped
  <2>5. Relevant(r, c)
    BY <1>1 DEF Relevant
  <2>6. \E e \in Past(had, d) : Filtered(projection, r, e)
    BY <1>3
  <2>7. Sound(h, projection, had, r)
    BY <2>1, <2>2, <2>4, <2>5, <2>6 DEF Sound
  <2>8. QED
    BY <2>2, <2>3, <2>4, <2>7
<1>5. found \in SUBSET HitSet
  BY <1>4
<1>6. Distinct(found)
  BY <1>4 DEF Distinct
<1>7. \A h \in found : Sound(h, projection, had, r) /\ h.id \in Passed(next) \ Passed(o)
  <2>1. there \subseteq Passed(next) \ Passed(o)
    BY <1>3
  <2>2. QED
    BY <1>4, <2>1
<1>8. ASSUME NEW d \in StandingIn(had, r) \cap (Passed(next) \ Passed(o))
      PROVE  \E h \in found : h.id = d /\ h.source = Were(had, d)
  <2>1. d \in Docs /\ Still(had, d) /\ Were(had, d) # None
    BY DEF StandingIn
  <2>2. docs[d] = Were(had, d)
    BY <1>0, <2>1, IndexIsHistory
  <2>3. d \in there
    BY <1>3, <2>1, <2>2
  <2>4. Hit(d, 0, docs[d]) \in found
    BY <2>3
  <2>5. QED
    BY <1>4, <2>2, <2>3, <2>4
<1>9. CompleteScan(r)
  BY <1>1 DEF CompleteScan, CountOnly, Scans
<1>10. search.pc \in {"scroll", "sources"}
  BY <1>0
<1> HIDE DEF found, s, next
<1>11. Goes(Gather(found, next))
  BY <1>2, <1>3, <1>5, <1>6, <1>7, <1>8, <1>9, <1>10, GatherScansGoes
<1>12. QED
  BY <1>0, <1>11 DEF s

----------------------------------------------------------------------------
(* The scan of an approximate query, and hydration.                        *)

LEMMA ReadApproximateGoes ==
    ASSUME Present, ReadApproximate
    PROVE  Goes(search')
<1> DEFINE r == Request
           s == search'
           collection == IF projection THEN docs ELSE points
           members == {d \in Docs : /\ collection[d] # None
                                    /\ r.filter => IF projection THEN r.blank
                                                   ELSE collection[d].filter}
           page == ScrollPage(members, search.offset, MaxPageSize)
           like == {d \in ToSet(page.docs) : SourceIsLike(collection[d], r)}
           found == {Hit(d, 1, collection[d]) : d \in like}
           new == Passed(page.next) \ Passed(search.offset)
           pc == IF page.next = 0 THEN "gathered" ELSE "approximate"
<1>0. /\ SearchTyped(search) /\ search.pc = "approximate" /\ Asked(r)
      /\ SearchInv(search, projection, had, r)
      /\ TypeOK /\ HistoryInv
      /\ s = [search EXCEPT !.hits = @ \cup found, !.offset = page.next, !.pc = pc]
  BY DEF Present, ReadApproximate, At
<1>1. search.offset \in Nat \ {0} /\ r.approximate /\ ~Scans(search, projection, r)
      /\ ~r.sparse
  <2>1. search.offset \in Nat \ {0} /\ r.approximate /\ ~Scans(search, projection, r)
    BY <1>0, SearchParts, KnownParts DEF Placed
  <2>2. QED
    BY <1>0, <2>1 DEF Asked
<1>2. Ranked(r)
  BY <1>0, <1>1 DEF Asked, Ranked
<1>3. ASSUME NEW d \in Docs, collection[d] # None
      PROVE  collection[d] \in Contents /\ collection[d] \in Past(had, d)
  BY <1>0, <1>3, IndexIsHistory
<1>4. ASSUME NEW d \in StandingIn(had, r)
      PROVE  collection[d] = Were(had, d) /\ Were(had, d) # None /\ Matches(r, Were(had, d))
  <2>1. d \in Docs /\ Still(had, d) /\ Were(had, d) # None /\ Matches(r, Were(had, d))
    BY DEF StandingIn
  <2>2. QED
    BY <1>0, <2>1, IndexIsHistory
<1>5. members \in SUBSET Docs /\ MaxPageSize \in Nat
  BY SearchAssumption
<1>6. /\ page.docs \in Seq(Docs) /\ page.next \in Nat
      /\ Passed(search.offset) \subseteq Passed(page.next)
      /\ ToSet(page.docs) = members \cap new
  <2> HIDE DEF members
  <2>1. QED
    BY <1>1, <1>5, PageHasWhatIsLeft
<1>7. (r.filter => r.blank) => StandingIn(had, r) \cap new \subseteq ToSet(page.docs)
  <2>1. ASSUME r.filter => r.blank, NEW d \in StandingIn(had, r)
        PROVE  d \in members
    <3>1. d \in Docs /\ collection[d] = Were(had, d) /\ collection[d] # None
      BY <1>4, StandingAreDocs
    <3>2. r.filter => collection[d].filter
      BY <1>1, <1>4, <3>1 DEF Matches
    <3> HIDE DEF collection
    <3>3. QED
      BY <2>1, <3>1, <3>2
  <2>2. QED
    BY <1>6, <2>1
<1>8. \A d \in ToSet(page.docs) :
            /\ d \in Docs /\ collection[d] # None
            /\ r.filter => IF projection THEN r.blank ELSE collection[d].filter
  BY <1>6
<1> HIDE DEF page, members, collection
<1>9. ASSUME NEW d \in like
      PROVE  /\ Hit(d, 1, collection[d]) \in HitSet
             /\ Hit(d, 1, collection[d]).id = d
             /\ Hit(d, 1, collection[d]).source = collection[d]
             /\ Sound(Hit(d, 1, collection[d]), projection, had, r)
  <2>1. d \in Docs /\ collection[d] \in Contents /\ collection[d] \in Past(had, d)
    BY <1>3, <1>8
  <2>2. PICK c : c = collection[d]
    OBVIOUS
  <2>3. PICK h : h = Hit(d, 1, c)
    OBVIOUS
  <2>4. h \in HitSet /\ h.id = d /\ h.source = c
    <3>1. d \in Docs /\ c \in Contents \cup {None} /\ 1 \in Nat
      BY <2>1, <2>2
    <3> HIDE DEF like
    <3>2. QED
      BY <2>3, <3>1, HitsAreTyped
  <2>5. Relevant(r, c) /\ Filtered(projection, r, c)
    BY <1>1, <1>8, <2>2 DEF Relevant, SourceIsLike, Filtered
  <2>6. Sound(h, projection, had, r)
    BY <2>1, <2>2, <2>4, <2>5 DEF Sound
  <2>7. QED
    BY <2>2, <2>3, <2>4, <2>6
<1>10. found \in SUBSET HitSet /\ \A h \in found : Sound(h, projection, had, r) /\ h.id \in new
  <2>1. like \subseteq new
    BY <1>6
  <2>2. QED
    BY <1>9, <2>1
<1>11. \A g, h \in found : g.id = h.id => g = h
  BY <1>9
<1>12. ASSUME r.filter => r.blank, ~r.patterns, NEW d \in StandingIn(had, r) \cap new
       PROVE  \E h \in found : h.id = d /\ h.source = Were(had, d)
  <2>1. d \in ToSet(page.docs) /\ collection[d] = Were(had, d) /\ Relevant(r, Were(had, d))
    BY <1>4, <1>7, <1>12 DEF Matches
  <2>2. d \in like
    BY <1>2, <1>12, <2>1 DEF Relevant, SourceIsLike
  <2>3. Hit(d, 1, collection[d]) \in found
    BY <2>2
  <2>4. QED
    BY <1>9, <2>1, <2>2, <2>3
<1> HIDE DEF found
<1>13. SearchTyped(s)
  <2>1. pc \in Places
    BY DEF Places
  <2> HIDE DEF pc
  <2>2. QED
    BY <1>0, <1>6, <1>10, <2>1 DEF SearchTyped
<1>14. /\ s.pc = pc /\ s.hits = search.hits \cup found /\ s.offset = page.next
       /\ s.scanned = search.scanned
       /\ s.waiting = search.waiting /\ s.exact = search.exact /\ s.reply = search.reply
       /\ s.ordered = search.ordered
  BY <1>0 DEF SearchTyped
<1> HIDE DEF s
<1>15. /\ AllSound(s, projection, had, r) /\ Joined(s, r)
       /\ Counted(s, projection, had, r) /\ CountIsDue(s, r)
       /\ ~Scans(s, projection, r)
  <2>1. \A h \in s.hits : Sound(h, projection, had, r)
    BY <1>0, <1>10, <1>14, KnownParts DEF AllSound
  <2>2. QED
    BY <1>0, <1>1, <1>14, <2>1, JoinedKeeps
<1>16. Placed(s, projection, r)
  BY <1>1, <1>14, <1>15 DEF Placed
<1>17. /\ Scanned(s, projection, had, r) /\ Batched(s, projection, had, r)
       /\ RankedHits(s, r) /\ Finished(s, projection, had, r)
  BY <1>14, <1>15 DEF Scanned, Batched, RankedHits, Finished
<1>18. Collected(s, projection, had, r)
  <2>1. /\ Distinct(search.hits)
        /\ \A h \in search.hits : h.id \in Passed(search.offset)
        /\ SeesSources(projection, r) => Finds(search, had, r, search.offset)
    BY <1>0, <1>1, KnownParts DEF Collected
  <2>2. Distinct(s.hits)
    BY <1>10, <1>11, <1>14, <2>1 DEF Distinct
  <2>3. \A h \in s.hits : h.id \in Passed(s.offset)
    BY <1>6, <1>10, <1>14, <2>1
  <2>4. ASSUME SeesSources(projection, r), NEW d \in StandingIn(had, r) \cap Passed(s.offset)
        PROVE  \E h \in s.hits : h.id = d /\ h.source = Were(had, d)
    <3>1. (r.filter => r.blank) /\ ~r.patterns
      BY <1>1, <2>4 DEF SeesSources
    <3>2. CASE d \in Passed(search.offset)
      BY <1>14, <2>1, <2>4, <3>2 DEF Finds
    <3>3. CASE d \notin Passed(search.offset)
      BY <1>12, <1>14, <3>1, <3>3
    <3>4. QED
      BY <3>2, <3>3
  <2>5. QED
    BY <2>2, <2>3, <2>4 DEF Collected, Finds
<1>19. SearchInv(s, projection, had, r)
  BY <1>15, <1>16, <1>17, <1>18 DEF SearchInv
<1>20. QED
  BY <1>13, <1>14, <1>19 DEF Goes, s

\* Merged leaves one hit for each document.
LEMMA MergedDiffer ==
    ASSUME NEW hits \in SUBSET HitSet,
           \A g, h \in hits : g.id = h.id /\ g.field = h.field => g = h
    PROVE  Distinct(Merged(hits))
<1> SUFFICES ASSUME NEW g \in Merged(hits), NEW h \in Merged(hits), g.id = h.id
             PROVE  g = h
  BY DEF Distinct
<1>1. g \in hits /\ h \in hits
  BY DEF Merged
<1>2. /\ g.score \in Nat /\ h.score \in Nat /\ g.field \in Nat /\ h.field \in Nat
  BY <1>1 DEF HitSet
<1>3. /\ h.score < g.score \/ (h.score = g.score /\ g.field <= h.field)
      /\ g.score < h.score \/ (g.score = h.score /\ h.field <= g.field)
  BY <1>1 DEF Merged
<1>4. g.field = h.field
  BY <1>2, <1>3
<1>5. QED
  BY <1>1, <1>4

\* There is nothing to merge where no document has two hits.
LEMMA MergedDistinct ==
    ASSUME NEW hits \in SUBSET HitSet, Distinct(hits)
    PROVE  Merged(hits) = hits
<1>1. \A h \in hits : h.score \in Nat /\ h.field \in Nat
  BY DEF HitSet
<1>2. \A g, h \in hits : g.id = h.id => g = h
  BY DEF Distinct
<1>3. \A h \in hits : h.field <= h.field
  BY <1>1
<1>4. \A h \in hits : h \in Merged(hits)
  BY <1>2, <1>3 DEF Merged
<1>5. Merged(hits) \subseteq hits
  BY DEF Merged
<1>6. QED
  BY <1>4, <1>5

\* When all hits are there, one of each document is left.
LEMMA GatheredDiffer ==
    ASSUME Present, Gathered, ~CompleteScan(Request)
    PROVE  /\ Distinct(Merged(search.hits)) /\ Merged(search.hits) \subseteq search.hits
           /\ search.hits \subseteq HitSet
           /\ search.pc = "gathered" => Distinct(search.hits)
<1> DEFINE r == Request
<1>1. SearchTyped(search) /\ SearchInv(search, projection, had, r)
  BY DEF Present
<1>2. search.hits \in SUBSET HitSet
  BY <1>1, SearchParts
<1>3. ~Scans(search, projection, r)
  BY DEF CompleteScan, CountOnly, Scans
<1>4. search.pc = "gathered" => Distinct(search.hits)
  BY <1>1, <1>3, KnownParts DEF Collected
<1>5. \A g, h \in search.hits : g.id = h.id /\ g.field = h.field => g = h
  <2>1. CASE search.pc = "gathered"
    BY <1>4, <2>1 DEF Distinct
  <2>2. CASE search.pc = "ranked"
    BY <1>1, <2>2, KnownParts DEF RankedHits
  <2>3. QED
    BY <2>1, <2>2 DEF Gathered, At
<1>6. Distinct(Merged(search.hits))
  BY <1>2, <1>5, MergedDiffer
<1>7. Merged(search.hits) \subseteq search.hits
  BY DEF Merged
<1>8. QED
  BY <1>2, <1>4, <1>6, <1>7

LEMMA HydrateGoes ==
    ASSUME Present, Hydrate
    PROVE  Goes(search')
<1> DEFINE r == Request
           s == search'
           there == {g \in Merged(search.hits) : docs[g.id] # None}
           hydrated(h) == [h EXCEPT !.source = docs[h.id]]
           hits == {hydrated(h) : h \in there}
<1>0. /\ SearchTyped(search) /\ Gathered /\ Asked(r)
      /\ SearchInv(search, projection, had, r)
      /\ TypeOK /\ HistoryInv /\ projection /\ ~CompleteScan(r)
      /\ s = [search EXCEPT !.pc = "finish", !.hits = hits]
  BY DEF Present, Hydrate
<1>1. /\ Distinct(Merged(search.hits)) /\ Merged(search.hits) \subseteq search.hits
      /\ search.hits \subseteq HitSet
      /\ search.pc = "gathered" => Distinct(search.hits)
  BY <1>0, GatheredDiffer
<1>2. search.pc \in {"gathered", "ranked"} /\ ~Scans(search, projection, r)
  BY <1>0 DEF Gathered, At, CompleteScan, CountOnly, Scans
<1>3. ASSUME NEW h \in there
      PROVE  /\ hydrated(h) \in HitSet
             /\ hydrated(h).id = h.id /\ hydrated(h).source = docs[h.id]
             /\ Sound(hydrated(h), projection, had, r)
  <2>1. h \in HitSet /\ h \in search.hits /\ docs[h.id] # None
    BY <1>1
  <2>2. h.id \in Docs
    BY <2>1 DEF HitSet
  <2>3. docs[h.id] \in Contents /\ docs[h.id] \in Past(had, h.id)
    BY <1>0, <2>1, <2>2, IndexIsHistory
  <2>4. PICK g : g = hydrated(h)
    OBVIOUS
  <2>5. g \in HitSet /\ g.id = h.id /\ g.source = docs[h.id]
    BY <2>1, <2>3, <2>4 DEF HitSet
  <2>6. Sound(h, projection, had, r)
    BY <1>0, <2>1, KnownParts DEF AllSound
  <2>7. Sound(g, projection, had, r)
    BY <2>3, <2>5, <2>6 DEF Sound
  <2>8. QED
    BY <2>4, <2>5, <2>7
<1> HIDE DEF hydrated
<1>4. hits \in SUBSET HitSet /\ \A h \in hits : Sound(h, projection, had, r)
  BY <1>3
<1>5. Distinct(hits)
  <2>1. \A g, h \in there : g.id = h.id => g = h
    BY <1>1 DEF Distinct
  <2>2. QED
    BY <1>3, <2>1 DEF Distinct
<1>6. ASSUME r.approximate, SeesSources(projection, r), NEW d \in StandingIn(had, r)
      PROVE  \E h \in hits : h.id = d /\ h.source = Were(had, d)
  <2>1. search.pc = "gathered"
    BY <1>0, <1>2, <1>6, KnownParts DEF Placed
  <2>2. search.offset = 0
    BY <1>0, <1>6, <2>1, KnownParts DEF Placed
  <2>3. Finds(search, had, r, 0)
    BY <1>0, <1>2, <1>6, <2>1, <2>2, KnownParts DEF Collected
  <2>4. d \in Docs /\ Passed(0) = Docs /\ Still(had, d) /\ Were(had, d) # None
    BY PassedDocs DEF StandingIn
  <2>5. PICK h \in search.hits : h.id = d
    BY <2>3, <2>4 DEF Finds
  <2>6. docs[d] = Were(had, d)
    BY <1>0, <2>4, IndexIsHistory
  <2>7. Merged(search.hits) = search.hits
    BY <1>1, <2>1, MergedDistinct
  <2>8. h \in there
    BY <2>4, <2>5, <2>6, <2>7
  <2>9. hydrated(h) \in hits
    BY <2>8
  <2>10. QED
    BY <1>3, <2>5, <2>6, <2>8, <2>9
<1> HIDE DEF hits
<1>7. SearchTyped(s)
  BY <1>0, <1>4 DEF SearchTyped, Places
<1>8. /\ s.pc = "finish" /\ s.hits = hits /\ s.offset = search.offset
      /\ s.scanned = search.scanned
      /\ s.waiting = search.waiting /\ s.exact = search.exact /\ s.reply = search.reply
      /\ s.ordered = search.ordered
  BY <1>0 DEF SearchTyped
<1> HIDE DEF s
<1>9. /\ AllSound(s, projection, had, r) /\ Joined(s, r)
      /\ Counted(s, projection, had, r) /\ CountIsDue(s, r)
      /\ ~Scans(s, projection, r)
  <2>1. \A h \in s.hits : Sound(h, projection, had, r)
    BY <1>4, <1>8
  <2>2. QED
    BY <1>0, <1>2, <1>8, <2>1, JoinedKeeps
<1>10. Placed(s, projection, r)
  BY <1>8, <1>9 DEF Placed
<1>11. /\ Scanned(s, projection, had, r) /\ Batched(s, projection, had, r)
       /\ RankedHits(s, r) /\ Collected(s, projection, had, r)
  BY <1>8, <1>9 DEF Scanned, Batched, RankedHits, Collected
<1>12. Finished(s, projection, had, r)
  BY <1>0, <1>5, <1>6, <1>8 DEF Finished, Finds
<1>13. SearchInv(s, projection, had, r)
  BY <1>9, <1>10, <1>11, <1>12 DEF SearchInv
<1>14. QED
  BY <1>7, <1>8, <1>13 DEF Goes, s

----------------------------------------------------------------------------
(* The beginning of a search.                                              *)

LEMMA HistoryBegins ==
    ASSUME TypeOK, ForgetHistory
    PROVE  /\ HistoryTyped(had')
           /\ \A d \in Docs : docs[d] \in had'[d].docs /\ points[d] \in had'[d].points
<1>1. \A d \in Docs : /\ docs[d] \in Contents \cup {None}
                      /\ points[d] \in Contents \cup {None}
  BY DEF TypeOK
<1>2. had' = [d \in Docs |-> [docs |-> {docs[d]}, points |-> {points[d]}]]
  BY DEF ForgetHistory
<1>3. \A x : IsFiniteSet({x})
  BY FS_Singleton
<1>4. had' \in [Docs -> [docs: SUBSET (Contents \cup {None}),
                         points: SUBSET (Contents \cup {None})]]
  BY <1>1, <1>2
<1>5. \A d \in Docs : had'[d].docs = {docs[d]} /\ had'[d].points = {points[d]}
  BY <1>2
<1>6. QED
  BY <1>3, <1>4, <1>5 DEF HistoryTyped

\* A new search, whatever its history.
LEMMA BeginningIsEasy ==
    ASSUME NEW p, NEW H, NEW r, NEW s,
           s.pc = IF r.like # None THEN "like" ELSE "join",
           s.exact = None, s.reply = None, s.ordered = None, s.offset = 1,
           s.hits = {}, s.scanned = 0,
           s.waiting # {} => FilterOnly(r), Counts(r) => "count" \in s.waiting
    PROVE  SearchInv(s, p, H, r)
<1>1. s.pc \in {"like", "join"} /\ (s.pc = "like" <=> r.like # None)
  OBVIOUS
<1>2. Joined(s, r) /\ Counted(s, p, H, r)
  BY DEF Joined, Counted
<1>3. CountIsDue(s, r)
  <2>1. Counts(r) => r.like = None
    BY DEF Counts, FilterOnly, Ranked
  <2>2. QED
    BY <1>1, <2>1 DEF CountIsDue
<1>4. s.reply # None => \A h \in s.reply.hits : Sound(h, p, H, r)
  OBVIOUS
<1>5. QED
  BY <1>1, <1>2, <1>3, <1>4, JoiningIsEasy

\* What the steps of a search have in common.
LEMMA StepKeeps ==
    ASSUME IInv, UNCHANGED <<projection, docs, points, writes>>,
           SearchTyped(search'), \A d \in Docs : returned'[d] \in Nat,
           HistoryTyped(had'),
           \A d \in Docs : docs[d] \in had'[d].docs /\ points[d] \in had'[d].points,
           Queued(queue'), search'.pc # "idle" => queue' # <<>>,
           search'.pc \notin {"idle", "done"} =>
                Fit(Request') /\ SearchInv(search', projection, had', Request'),
           CountsAreBounded'
    PROVE  IInv'
<1>1. TypeOK
  BY DEF IInv
<1>2. search'.waiting \subseteq {"count", "coverage", "ordered"}
      /\ search'.fields \subseteq TextFields
      /\ \A h \in search'.hits : h.id \in Docs /\ h.source \in Contents \cup {None}
  <2>1. search'.hits \subseteq HitSet
    BY SearchParts
  <2>2. \A h \in search'.hits : h.id \in Docs /\ h.source \in Contents \cup {None}
    BY <2>1 DEF HitSet
  <2>3. QED
    BY <2>2, SearchParts
<1>3. TypeOK'
  BY <1>1, <1>2 DEF TypeOK
<1>4. HistoryInv'
  BY DEF HistoryInv
<1>5. QueueInv'
  BY DEF QueueInv, At
<1>6. QED
  BY <1>3, <1>4, <1>5 DEF IInv

LEMMA FailedIsBounded ==
    ASSUME search'.pc = "done" => response' = Error
    PROVE  CountsAreBounded'
<1>1. Error.error = TRUE
  BY DEF Error
<1>2. ~Succeeded'
  BY <1>1 DEF Succeeded, At
<1>3. QED
  BY <1>2 DEF CountsAreBounded

LEMMA StartKeeps ==
    ASSUME IInv, Start
    PROVE  IInv'
<1> DEFINE r == Rewritten(Request)
           plain == r.entry = "count" /\ ~Ranked(r) /\ ~r.patterns
           pc == IF r.like # None THEN "like" ELSE "join"
           waiting == IF plain THEN {"count"} ELSE Joins(r)
<1>0. /\ TypeOK /\ HistoryInv /\ Queued(queue) /\ queue # <<>> /\ At("idle")
      /\ queue' = [queue EXCEPT ![1] = r]
      /\ UNCHANGED <<projection, docs, points, writes, returned>>
      /\ had' = had \/ ForgetHistory
  BY DEF IInv, QueueInv, Start
<1>1. Asked(r)
  BY <1>0, QueuedRequests, AskedRewritten DEF Request
<1>2. Queued(queue') /\ queue' # <<>> /\ Request' = r
  BY <1>0, <1>1, QueuedRequests DEF Request
<1>3. /\ HistoryTyped(had')
      /\ \A d \in Docs : docs[d] \in had'[d].docs /\ points[d] \in had'[d].points
  BY <1>0, HistoryBegins DEF HistoryInv
<1>4. \A d \in Docs : returned'[d] \in Nat
  BY <1>0 DEF TypeOK
<1>5. CASE Answered(Error)
  <2>1. SearchTyped(search') /\ search'.pc = "done" /\ response' = Error
    BY <1>5, NoSearchTyped DEF Answered, SearchTyped, Places
  <2>2. CountsAreBounded'
    BY <2>1, FailedIsBounded
  <2>3. QED
    BY <1>0, <1>2, <1>3, <1>4, <2>1, <2>2, StepKeeps
<1>6. CASE /\ plain \/ Accepted(r)
           /\ search' = [NoSearch EXCEPT !.pc = pc, !.waiting = waiting]
  <2>1. Fit(r)
    <3>1. CASE plain
      BY <3>1 DEF Fit, PlainCount
    <3>2. CASE Accepted(r)
      <4>1. r.from # Malformed /\ r.size # Malformed
        BY <3>2 DEF Accepted, WindowAccepted
      <4>2. QED
        BY <1>1, <4>1, AskedParts DEF Fit
    <3>3. QED
      BY <1>6, <3>1, <3>2
  <2>2. waiting # {} => FilterOnly(r)
    <3>1. CASE plain
      <4>1. ~r.post /\ ~r.sparse
        BY <1>1, <3>1 DEF Asked
      <4>2. QED
        BY <3>1, <4>1 DEF FilterOnly
    <3>2. CASE ~plain
      BY <3>2 DEF Joins, Counts, OrderedByQdrant
    <3>3. QED
      BY <3>1, <3>2
  <2>3. waiting \in SUBSET {"count", "coverage", "ordered"}
    BY DEF Joins
  <2>4. Counts(r) => "count" \in waiting
    BY DEF Joins
  <2> HIDE DEF waiting, r, plain
  <2>8. pc \in {"like", "join"}
    OBVIOUS
  <2>9. SearchTyped(search')
    <3> HIDE DEF pc
    <3>1. QED
      BY <1>6, <2>3, <2>8, NoSearchTyped DEF SearchTyped, Places
  <2>10. /\ search'.pc = pc /\ search'.waiting = waiting
         /\ search'.exact = None /\ search'.reply = None
         /\ search'.ordered = None /\ search'.offset = 1 /\ search'.hits = {}
         /\ search'.scanned = 0
    <3> HIDE DEF pc
    <3>1. QED
      BY <1>6 DEF NoSearch
  <2>11. SearchInv(search', projection, had', r)
    BY <2>2, <2>4, <2>10, BeginningIsEasy
  <2>5. SearchTyped(search') /\ search'.pc = pc /\ SearchInv(search', projection, had', r)
    BY <2>9, <2>10, <2>11
  <2>6. CountsAreBounded'
    BY <2>5, FailedIsBounded
  <2>7. QED
    BY <1>0, <1>2, <1>3, <1>4, <2>1, <2>5, <2>6, StepKeeps
<1>7. QED
  BY <1>5, <1>6 DEF Start

\* A read that goes on, or fails.
LEMMA ReadKeeps ==
    ASSUME IInv, Reads, search.pc \notin {"idle", "done"}, Goes(search'),
           search'.pc = "done" => response' = Error
    PROVE  IInv'
<1>1. /\ TypeOK /\ HistoryInv /\ Queued(queue) /\ queue # <<>>
      /\ search.pc \notin {"idle", "done"} => Fit(Request)
  BY DEF IInv, QueueInv, At
<1>2. had' = had /\ queue' = queue /\ Request' = Request
      /\ UNCHANGED <<projection, docs, points, writes, returned>>
  BY DEF Reads, indexVars, Request
<1>3. /\ HistoryTyped(had')
      /\ \A d \in Docs : docs[d] \in had'[d].docs /\ points[d] \in had'[d].points
  BY <1>1, <1>2 DEF HistoryInv
<1>4. \A d \in Docs : returned'[d] \in Nat
  BY <1>1, <1>2 DEF TypeOK
<1>5. /\ SearchTyped(search') /\ search'.pc # "idle"
      /\ search'.pc # "done" => SearchInv(search', projection, had', Request')
  BY <1>2 DEF Goes
<1>6. search.pc # "done" => Fit(Request')
  BY <1>1, <1>2
<1>7. CountsAreBounded'
  BY FailedIsBounded
<1>8. Queued(queue') /\ queue' # <<>>
  BY <1>1, <1>2
<1>9. search'.pc \notin {"idle", "done"} =>
        Fit(Request') /\ SearchInv(search', projection, had', Request')
  BY <1>5, <1>6
<1>10. QED
  BY <1>2, <1>3, <1>4, <1>5, <1>7, <1>8, <1>9, StepKeeps

\* Every read of a search goes on or fails.
LEMMA ReadsAreKept ==
    ASSUME IInv, search.pc \notin {"idle", "done"}
    PROVE  /\ ReadLike => IInv'
           /\ ReadCount => IInv'
           /\ ReadOrderedCoverage => IInv'
           /\ ReadOrdered => IInv'
           /\ ReadAggregation => IInv'
           /\ Join => IInv'
           /\ \A f \in TextFields : ReadRanked(f) => IInv'
           /\ ReadApproximate => IInv'
           /\ ReadPage => IInv'
           /\ ReadSources => IInv'
           /\ Hydrate => IInv'
<1>0. Present /\ search.pc \notin {"idle", "done"}
  <2>1. Queued(queue) /\ queue # <<>>
    BY DEF IInv, QueueInv, At
  <2>2. Asked(Request)
    BY <2>1, QueuedRequests DEF Request
  <2>3. QED
    BY <2>2 DEF IInv, Present
<1>1. SearchTyped(search)
  BY DEF IInv
<1>2. ASSUME NEW s, NEW x, s = [search EXCEPT !.pc = x]
      PROVE  s.pc = x
  BY <1>1, <1>2 DEF SearchTyped
<1>3. ASSUME ReadLike
      PROVE  IInv'
  <2>1. Goes(search') /\ Reads
    BY <1>0, <1>3, ReadLikeGoes DEF ReadLike
  <2>2. search'.pc = "done" => response' = Error
    BY <1>1, <1>3 DEF ReadLike, Answered, SearchTyped
  <2>3. QED
    BY <1>0, <2>1, <2>2, ReadKeeps
<1>4. ASSUME ReadCount
      PROVE  IInv'
  <2>1. Goes(search') /\ Reads
    BY <1>0, <1>4, ReadCountGoes DEF ReadCount
  <2>2. search'.pc = search.pc
    BY <1>1, <1>4 DEF ReadCount, SearchTyped
  <2>3. QED
    BY <1>0, <2>1, <2>2, ReadKeeps
<1>5. ASSUME ReadOrderedCoverage
      PROVE  IInv'
  <2>1. Goes(search') /\ Reads
    BY <1>0, <1>5, ReadOrderedCoverageGoes DEF ReadOrderedCoverage
  <2>2. search'.pc = search.pc
    BY <1>1, <1>5 DEF ReadOrderedCoverage, SearchTyped
  <2>3. QED
    BY <1>0, <2>1, <2>2, ReadKeeps
<1>6. ASSUME ReadOrdered
      PROVE  IInv'
  <2>1. Goes(search') /\ Reads
    BY <1>0, <1>6, ReadOrderedGoes DEF ReadOrdered
  <2>2. search'.pc = search.pc
    BY <1>1, <1>6 DEF ReadOrdered, SearchTyped
  <2>3. QED
    BY <1>0, <2>1, <2>2, ReadKeeps
<1>7. ASSUME ReadAggregation
      PROVE  IInv'
  <2>1. search' = search /\ Reads
    BY <1>7 DEF ReadAggregation
  <2>2. Goes(search')
    BY <1>0, <2>1 DEF Present, Goes
  <2>3. QED
    BY <1>0, <2>1, <2>2, ReadKeeps
<1>8. ASSUME Join
      PROVE  IInv'
  <2>1. Goes(search') /\ Reads
    BY <1>0, <1>8, JoinGoes DEF Join
  <2>2. search'.pc = "done" => response' = Error
    BY <1>1, <1>8 DEF Join, Answered, SearchTyped, Source
  <2>3. QED
    BY <1>0, <2>1, <2>2, ReadKeeps
<1>9. ASSUME NEW f \in TextFields, ReadRanked(f)
      PROVE  IInv'
  <2>1. Goes(search') /\ Reads
    BY <1>0, <1>9, ReadRankedGoes DEF ReadRanked
  <2>2. search'.pc = search.pc
    BY <1>1, <1>9 DEF ReadRanked, SearchTyped
  <2>3. QED
    BY <1>0, <2>1, <2>2, ReadKeeps
<1>10. ASSUME ReadApproximate
       PROVE  IInv'
  <2>1. Goes(search') /\ Reads
    BY <1>0, <1>10, ReadApproximateGoes DEF ReadApproximate
  <2>2. search'.pc # "done"
    BY <1>1, <1>10 DEF ReadApproximate, SearchTyped
  <2>3. QED
    BY <1>0, <2>1, <2>2, ReadKeeps
<1>11. \A found, next : Gather(found, next).pc \in {"gathered", "scroll"}
  BY <1>1 DEF Gather, SearchTyped
<1>12. ASSUME ReadPage
       PROVE  IInv'
  <2>1. Goes(search') /\ Reads
    BY <1>0, <1>12, ReadPageGoes DEF ReadPage
  <2>2. search'.pc # "done"
    <3>1. \/ \E found, next : search' = Gather(found, next)
          \/ \E batch, offset :
                search' = [search EXCEPT !.pc = "sources", !.batch = batch, !.offset = offset]
      BY <1>12 DEF ReadPage
    <3>2. QED
      BY <1>1, <1>11, <3>1 DEF SearchTyped
  <2>3. QED
    BY <1>0, <2>1, <2>2, ReadKeeps
<1>13. ASSUME ReadSources
       PROVE  IInv'
  <2>1. Goes(search') /\ Reads
    BY <1>0, <1>13, ReadSourcesGoes DEF ReadSources
  <2>2. search'.pc # "done"
    BY <1>11, <1>13 DEF ReadSources
  <2>3. QED
    BY <1>0, <2>1, <2>2, ReadKeeps
<1>14. ASSUME Hydrate
       PROVE  IInv'
  <2>1. Goes(search') /\ Reads
    BY <1>0, <1>14, HydrateGoes DEF Hydrate
  <2>2. search'.pc # "done"
    BY <1>1, <1>14 DEF Hydrate, SearchTyped
  <2>3. QED
    BY <1>0, <2>1, <2>2, ReadKeeps
<1>15. QED
  BY <1>3, <1>4, <1>5, <1>6, <1>7, <1>8, <1>9, <1>10, <1>12, <1>13, <1>14

----------------------------------------------------------------------------
(* The answer.                                                             *)

Responds ==
    At("finish") \/ (Gathered /\ (~projection \/ CompleteScan(Request)))

\* A total that is neither counted nor scanned is that of the hits.
LEMMA HitsAreBounded ==
    ASSUME Present, Responds, ~CompleteScan(Request), ~FilterOnly(Request),
           NEW hits, hits = Remaining(Request)
    PROVE  /\ Cardinality(hits) \in Nat
           /\ Cardinality(hits) <= Cardinality(PossibleIn(projection, had, Request))
           /\ (Request.approximate \/ Request.patterns) /\ ~Unexact(Request) =>
                Cardinality(StandingIn(had, Request)) <= Cardinality(hits)
<1> DEFINE r == Request
           all == search.hits
<1>0. /\ SearchTyped(search) /\ Asked(r) /\ SearchInv(search, projection, had, r)
      /\ all \in SUBSET HitSet
  BY SearchParts DEF Present
<1>1. ~Scans(search, projection, r) /\ search.pc \in {"finish", "gathered", "ranked"}
  BY DEF CompleteScan, CountOnly, Scans, Responds, Gathered, At
<1>2. Distinct(Merged(all)) /\ Merged(all) \subseteq all
  <2>1. CASE search.pc = "finish"
    <3>1. Distinct(all)
      BY <1>0, <2>1, KnownParts DEF Finished
    <3>2. Merged(all) = all
      BY <1>0, <3>1, MergedDistinct
    <3>3. QED
      BY <3>1, <3>2
  <2>2. CASE search.pc # "finish"
    BY <2>2, GatheredDiffer DEF Responds, At
  <2>3. QED
    BY <2>1, <2>2
<1>3. hits = {h \in Merged(all) : PatternsMatch(h, r) /\ PostMatches(h, r) /\ h.id # r.like}
  BY DEF Remaining
<1>4. hits \in SUBSET HitSet /\ Distinct(hits)
  BY <1>0, <1>2, <1>3 DEF Distinct
<1>5. /\ Ids(hits) \in SUBSET Docs
      /\ Cardinality(hits) = Cardinality(Ids(hits)) /\ Cardinality(hits) \in Nat
  BY <1>4, HitsAreCounted
<1>6. Ids(hits) \subseteq PossibleIn(projection, had, r)
  <2> SUFFICES ASSUME NEW h \in hits PROVE h.id \in PossibleIn(projection, had, r)
    BY DEF Ids
  <2>1. h \in HitSet /\ PatternsMatch(h, r) /\ PostMatches(h, r) /\ h.id # r.like
    BY <1>3, <1>4
  <2>2. Sound(h, projection, had, r)
    <3>1. h \in all
      BY <1>2, <1>3
    <3>2. QED
      BY <1>0, <3>1, KnownParts DEF AllSound
  <2>3. QED
    BY <2>1, <2>2, SoundIsPossible
<1>7. Cardinality(hits) <= Cardinality(PossibleIn(projection, had, r))
  <2>1. /\ PossibleIn(projection, had, r) \in SUBSET Docs
        /\ Ids(hits) \in SUBSET PossibleIn(projection, had, r)
    BY <1>6, StandingAreDocs
  <2>2. QED
    BY <1>5, <2>1, DocsAreCounted
<1>8. ASSUME r.approximate \/ r.patterns, ~Unexact(r)
      PROVE  Cardinality(StandingIn(had, r)) <= Cardinality(hits)
  <2>1. /\ r.patterns => ~projection /\ ~Ranked(r)
        /\ r.approximate => (r.filter => r.blank) /\ Ranked(r)
    BY <1>0, <1>8 DEF Unexact, Asked, Ranked
  <2>2. SeesSources(projection, r)
    BY <1>8, <2>1 DEF SeesSources
  <2>3. Distinct(all) /\ Finds(search, had, r, 0)
    <3>1. CASE search.pc = "finish"
      BY <1>0, <1>8, <2>1, <2>2, <3>1, KnownParts DEF Finished
    <3>2. CASE search.pc = "gathered"
      <4>1. search.offset = 0
        BY <1>0, <1>8, <3>2, KnownParts DEF Placed
      <4>2. QED
        BY <1>0, <1>1, <2>2, <3>2, <4>1, KnownParts DEF Collected
    <3>3. CASE search.pc = "ranked"
      BY <1>0, <1>8, <2>1, <3>3, KnownParts DEF Placed
    <3>4. QED
      BY <1>1, <3>1, <3>2, <3>3
  <2>4. Merged(all) = all
    BY <1>0, <2>3, MergedDistinct
  <2>5. ASSUME NEW d \in StandingIn(had, r)
        PROVE  d \in Ids(hits)
    <3>1. /\ d \in Passed(0) /\ d # r.like
          /\ Were(had, d) # None /\ Matches(r, Were(had, d))
      BY PassedDocs DEF StandingIn
    <3>2. PICK h \in all : h.id = d /\ h.source = Were(had, d)
      BY <2>3, <3>1 DEF Finds
    <3>3. PatternsMatch(h, r) /\ PostMatches(h, r)
      BY <3>1, <3>2 DEF PatternsMatch, PostMatches, Matches
    <3>4. h \in hits
      BY <1>3, <2>4, <3>1, <3>2, <3>3
    <3>5. QED
      BY <3>2, <3>4 DEF Ids
  <2>6. StandingIn(had, r) \in SUBSET Ids(hits)
    BY <2>5
  <2>7. QED
    BY <1>5, <2>6, DocsAreCounted
<1>9. QED
  BY <1>5, <1>7, <1>8

\* The number a search takes for its total.
LEMMA TotalsAreBounded ==
    ASSUME Present, Responds, Request.track.mode # "disabled",
           NEW n, n = Total(Request, Remaining(Request))
    PROVE  /\ n \in Nat /\ n <= Cardinality(PossibleIn(projection, had, Request))
           /\ TotalIsExact(Request) /\ ~Unexact(Request) =>
                Cardinality(StandingIn(had, Request)) <= n
<1> DEFINE r == Request
<1>0. /\ SearchTyped(search) /\ Asked(r) /\ SearchInv(search, projection, had, r)
      /\ search.exact \in Nat \cup {None} /\ search.scanned \in Nat
  BY SearchParts DEF Present
<1>1. search.pc \in {"finish", "gathered", "ranked"}
  BY DEF Responds, Gathered, At
<1>2. CASE CompleteScan(r)
  <2>1. Scans(search, projection, r)
    BY <1>2 DEF CompleteScan, CountOnly, Scans
  <2>2. search.pc = "gathered" /\ search.offset = 0
    BY <1>0, <1>1, <2>1, KnownParts DEF Placed
  <2>3. ScanCounts(search.scanned, projection, had, r, 0)
    BY <1>0, <2>1, <2>2, KnownParts DEF Scanned
  <2>4. /\ StandingIn(had, r) \cap Passed(0) = StandingIn(had, r)
        /\ PossibleIn(projection, had, r) \cap Passed(0) = PossibleIn(projection, had, r)
    <3>1. Passed(0) = Docs
      BY PassedDocs
    <3>2. QED
      BY <3>1, StandingAreDocs
  <2>5. n = search.scanned
    BY <1>2 DEF Total
  <2>6. QED
    BY <1>0, <2>3, <2>4, <2>5 DEF ScanCounts
<1>3. CASE ~CompleteScan(r) /\ search.exact # None
  <2>1. n = search.exact
    BY <1>3 DEF Total
  <2>2. QED
    BY <1>0, <1>3, <2>1, KnownParts DEF Counted
<1>4. CASE ~CompleteScan(r) /\ search.exact = None
  <2>1. ~FilterOnly(r)
    BY <1>0, <1>1, <1>4, KnownParts DEF CountIsDue, Counts
  <2>2. PICK hits : hits = Remaining(r)
    OBVIOUS
  <2>3. n = Cardinality(hits)
    BY <1>4, <2>2 DEF Total
  <2>4. TotalIsExact(r) => r.approximate \/ r.patterns
    BY <1>4 DEF TotalIsExact
  <2>5. QED
    BY <1>4, <2>1, <2>2, <2>3, <2>4, HitsAreBounded
<1>5. QED
  BY <1>2, <1>3, <1>4

\* A count, but of ranked text, is of everything.
LEMMA CountsAreExact ==
    ASSUME Present, Responds, Request.entry = "count", ~Unexact(Request)
    PROVE  TotalIsExact(Request)
<1> DEFINE r == Request
<1>1. Asked(r) /\ SearchInv(search, projection, had, r)
  BY DEF Present
<1>2. search.pc \in {"finish", "gathered", "ranked"}
  BY DEF Responds, Gathered, At
<1>3. CASE r.approximate \/ r.patterns
  BY <1>3 DEF TotalIsExact
<1>4. CASE ~r.approximate /\ ~r.patterns
  <2>1. ~Ranked(r)
    BY <1>4 DEF Unexact
  <2>2. FilterOnly(r) /\ Counts(r)
    BY <1>1, <1>4, <2>1 DEF Asked, FilterOnly, Counts
  <2>3. search.exact # None
    BY <1>1, <1>2, <2>2, KnownParts DEF CountIsDue
  <2>4. QED
    BY <2>3 DEF TotalIsExact
<1>5. QED
  BY <1>3, <1>4

\* What the client is told of it.
LEMMA AnswersAreBounded ==
    ASSUME Present, Responds,
           NEW total, total = TotalHits(Request, Total(Request, Remaining(Request)),
                                        TotalIsExact(Request)),
           total # None
    PROVE  /\ total.value <= Cardinality(PossibleIn(projection, had, Request))
           /\ CalledExact(Request, total) /\ ~Unexact(Request) =>
                total.value >= Cardinality(StandingIn(had, Request))
<1> DEFINE r == Request
           exact == TotalIsExact(r)
           most == r.track.threshold
           s == Cardinality(StandingIn(had, r))
           p == Cardinality(PossibleIn(projection, had, r))
<1>1. r.track.mode # "disabled"
  BY DEF TotalHits
<1>2. PICK n : n = Total(r, Remaining(r))
  OBVIOUS
<1>3. n \in Nat /\ n <= p
  BY <1>1, <1>2, TotalsAreBounded
<1>4. exact /\ ~Unexact(r) => s <= n
  BY <1>1, <1>2, TotalsAreBounded
<1>5. most \in Nat
  BY AskedParts DEF Present
<1>6. s \in Nat /\ p \in Nat
  BY StandingAreDocs, DocsAreCounted
<1>7. total = TotalHits(r, n, exact)
  BY <1>2
<1>71. r.entry = "count" => ~r.asInt /\ (~Unexact(r) => exact)
  <2>1. r.entry = "count" /\ ~Unexact(r) => exact
    BY CountsAreExact
  <2>2. QED
    BY <2>1 DEF Present, Asked
<1> HIDE DEF r, exact, most, s, p
<1>8. CASE r.asInt \/ r.entry = "count"
  <2>1. total = [value |-> n, relation |-> "none"]
    BY <1>1, <1>7, <1>8 DEF TotalHits
  <2>2. total.value = n /\ total.relation # "eq"
    BY <2>1
  <2>3. CalledExact(r, total) /\ ~Unexact(r) => total.value >= s
    <3>1. CalledExact(r, total) => r.entry = "count"
      BY <2>2 DEF CalledExact
    <3>2. CalledExact(r, total) /\ ~Unexact(r) => s <= n
      BY <1>4, <1>71, <3>1
    <3>3. QED
      BY <1>3, <1>6, <2>2, <3>2
  <2>4. QED
    BY <1>3, <2>2, <2>3 DEF p, s, r
<1>9. CASE ~r.asInt /\ r.entry # "count" /\ r.track.mode = "threshold"
  <2>1. total = [value |-> IF n < most THEN n ELSE most,
                 relation |-> IF exact /\ n <= most THEN "eq" ELSE "gte"]
    BY <1>1, <1>7, <1>9 DEF TotalHits, most
  <2>2. /\ total.value = IF n < most THEN n ELSE most
        /\ total.relation = "eq" => exact /\ n <= most
    BY <2>1
  <2>3. total.value <= n /\ total.value \in Nat
    BY <1>3, <1>5, <2>2
  <2>4. total.relation = "eq" => exact /\ total.value = n
    BY <1>3, <1>5, <2>2
  <2>5. total.value <= p
    BY <1>3, <1>6, <2>3
  <2>6. total.relation = "eq" /\ ~Unexact(r) => total.value >= s
    BY <1>3, <1>4, <1>6, <2>4
  <2>7. QED
    BY <1>9, <2>5, <2>6 DEF CalledExact, p, s, r
<1>10. CASE ~r.asInt /\ r.entry # "count" /\ r.track.mode # "threshold"
  <2>1. total = [value |-> n, relation |-> IF exact THEN "eq" ELSE "gte"]
    BY <1>1, <1>7, <1>10 DEF TotalHits
  <2>2. total.value = n /\ (total.relation = "eq" => exact)
    BY <2>1
  <2>3. total.relation = "eq" /\ ~Unexact(r) => total.value >= s
    BY <1>3, <1>4, <1>6, <2>2
  <2>4. QED
    BY <1>3, <1>10, <2>2, <2>3 DEF CalledExact, p, s, r
<1>11. QED
  BY <1>8, <1>9, <1>10

LEMMA RespondKeeps ==
    ASSUME IInv, Respond
    PROVE  IInv'
<1> DEFINE r == Request
           total == TotalHits(r, Total(r, Remaining(r)), TotalIsExact(r))
<1>0. /\ TypeOK /\ HistoryInv /\ Queued(queue) /\ search.pc \notin {"idle", "done"}
      /\ queue # <<>> /\ SearchInv(search, projection, had, r) /\ Fit(r)
      /\ SearchTyped(search)
  <2>1. search.pc \notin {"idle", "done"}
    BY DEF Respond, Gathered, At
  <2>2. QED
    BY <2>1 DEF IInv, QueueInv, At
<1>1. Present
  <2>1. Asked(r)
    BY <1>0, QueuedRequests DEF Request
  <2>2. QED
    BY <1>0, <2>1 DEF Present
<1>2. /\ Responds
      /\ UNCHANGED <<projection, docs, points, writes, had, queue>>
  BY DEF Respond, Responds, indexVars
<1>3. PICK order :
        LET answer == AnswerOf(r, Remaining(r), order)
        IN  /\ Answered(answer)
            /\ returned' = [d \in Docs |->
                    IF r.walk /\ d \in {answer.page[i].id : i \in DOMAIN answer.page}
                    THEN returned[d] + 1 ELSE returned[d]]
  BY DEF Respond
<1>4. /\ search' = [NoSearch EXCEPT !.pc = "done"]
      /\ response'.total = total
  BY <1>3 DEF Answered, AnswerOf
<1>5. SearchTyped(search') /\ search'.pc = "done"
  BY <1>4, NoSearchTyped DEF SearchTyped, Places
<1>6. \A d \in Docs : returned'[d] \in Nat
  <2>1. \A d \in Docs : returned[d] \in Nat
    BY <1>0 DEF TypeOK
  <2>2. \A d \in Docs : returned'[d] \in {returned[d], returned[d] + 1}
    BY <1>3
  <2>3. QED
    BY <2>1, <2>2
<1>7. /\ HistoryTyped(had')
      /\ \A d \in Docs : docs[d] \in had'[d].docs /\ points[d] \in had'[d].points
  BY <1>0, <1>2 DEF HistoryInv
<1>8. Request' = r
  BY <1>2 DEF Request
<1>9. CountsAreBounded'
  <2>1. Possible(Request)' = Possible(r) /\ Standing(Request)' = Standing(r)
        /\ (Unexact(Request)' <=> Unexact(r))
    BY <1>2, <1>8 DEF Possible, Standing, Untouched, Was, Held, Matches, Relevant, Ranked,
                      Unexact, FilterIsDropped
  <2>2. total # None =>
            /\ total.value <= Cardinality(PossibleIn(projection, had, r))
            /\ CalledExact(r, total) /\ ~Unexact(r) =>
                  total.value >= Cardinality(StandingIn(had, r))
    <3>1. PICK t : t = total
      OBVIOUS
    <3> HIDE DEF total
    <3>2. t # None =>
            /\ t.value <= Cardinality(PossibleIn(projection, had, r))
            /\ CalledExact(r, t) /\ ~Unexact(r) =>
                  t.value >= Cardinality(StandingIn(had, r))
      BY <1>1, <1>2, <3>1, AnswersAreBounded DEF total
    <3>3. QED
      BY <3>1, <3>2
  <2>3. Standing(r) = StandingIn(had, r) /\ Possible(r) = PossibleIn(projection, had, r)
    BY HistoryIsHad
  <2> HIDE DEF total, r
  <2>4. QED
    BY <1>4, <1>8, <2>1, <2>2, <2>3 DEF CountsAreBounded, CalledExact
<1>10. Queued(queue') /\ queue' # <<>>
  BY <1>0, <1>2
<1>11. UNCHANGED <<projection, docs, points, writes>>
  BY <1>2
<1>12. QED
  BY <1>5, <1>6, <1>7, <1>9, <1>10, <1>11, StepKeeps

LEMMA AskKeeps ==
    ASSUME IInv, Ask
    PROVE  IInv'
<1>0. /\ TypeOK /\ HistoryInv /\ Queued(queue) /\ queue # <<>>
  BY DEF IInv, QueueInv, Ask, At
<1>1. /\ UNCHANGED <<projection, docs, points, writes>> /\ had' = had /\ returned' = returned
      /\ search' = NoSearch
  BY DEF Ask, indexVars
<1>2. SearchTyped(search') /\ search'.pc = "idle"
  BY <1>1, NoSearchTyped DEF NoSearch
<1>3. Queued(queue')
  <2>1. CASE queue' = Tail(queue)
    BY <1>0, <2>1, QueuedRequests
  <2>2. ASSUME NEW x, queue' = [queue EXCEPT ![1].after = x]
        PROVE  Queued(queue')
    <3>1. queue[1] = Head(queue) /\ Asked(Head(queue))
      BY <1>0, QueuedRequests
    <3>2. PICK t : t = [Head(queue) EXCEPT !.after = x]
      OBVIOUS
    <3>3. Asked(t)
      BY <3>1, <3>2, AskedAfter
    <3>4. queue' = [queue EXCEPT ![1] = t]
      BY <2>2, <3>1, <3>2
    <3>5. QED
      BY <1>0, <3>3, <3>4, QueuedRequests
  <2>3. QED
    BY <2>1, <2>2 DEF Ask
<1>4. CountsAreBounded'
  BY <1>2, FailedIsBounded
<1>5. /\ HistoryTyped(had')
      /\ \A d \in Docs : docs[d] \in had'[d].docs /\ points[d] \in had'[d].points
  BY <1>0, <1>1 DEF HistoryInv
<1>6. \A d \in Docs : returned'[d] \in Nat
  BY <1>0, <1>1 DEF TypeOK
<1>7. QED
  BY <1>1, <1>2, <1>3, <1>4, <1>5, <1>6, StepKeeps

----------------------------------------------------------------------------
(* The writers.                                                            *)

LEMMA RecordingHistory ==
    ASSUME HistoryInv, NEW ds \in [Docs -> Contents \cup {None}],
           NEW ps \in [Docs -> Contents \cup {None}], Records(ds, ps)
    PROVE  /\ HistoryTyped(had') /\ Grows(had, had')
           /\ \A d \in Docs : ds[d] \in had'[d].docs /\ ps[d] \in had'[d].points
<1>1. \A d \in Docs : /\ had'[d].docs = had[d].docs \cup {ds[d]}
                      /\ had'[d].points = had[d].points \cup {ps[d]}
  BY DEF Records
<1>2. HistoryTyped(had)
  BY DEF HistoryInv
<1>3. ASSUME NEW d \in Docs
      PROVE  /\ IsFiniteSet(had'[d].docs) /\ had'[d].docs # {}
             /\ IsFiniteSet(had'[d].points) /\ had'[d].points # {}
  <2>1. IsFiniteSet(had[d].docs) /\ IsFiniteSet(had[d].points)
    BY <1>2 DEF HistoryTyped
  <2>2. /\ IsFiniteSet(had[d].docs \cup {ds[d]})
        /\ IsFiniteSet(had[d].points \cup {ps[d]})
    BY <2>1, FS_AddElement
  <2>3. QED
    BY <1>1, <2>2
<1>4. had' \in [Docs -> [docs: SUBSET (Contents \cup {None}),
                         points: SUBSET (Contents \cup {None})]]
  BY <1>2 DEF HistoryTyped, Records
<1>5. HistoryTyped(had')
  BY <1>3, <1>4 DEF HistoryTyped
<1>6. Grows(had, had')
  BY <1>1 DEF Grows
<1>7. QED
  BY <1>1, <1>5, <1>6

LEMMA WriterKeeps ==
    ASSUME TypeOK, HistoryInv, Writer
    PROVE  /\ projection' = projection /\ writes' \in 0..MaxWrites
           /\ docs' \in [Docs -> Contents \cup {None}]
           /\ points' \in [Docs -> Contents \cup {None}]
           /\ ~projection' => points' = docs'
           /\ HistoryTyped(had') /\ Grows(had, had')
           /\ \A d \in Docs : docs'[d] \in had'[d].docs /\ points'[d] \in had'[d].points
<1>0. /\ docs \in [Docs -> Contents \cup {None}] /\ points \in [Docs -> Contents \cup {None}]
      /\ ~projection => points = docs
      /\ writes \in 0..MaxWrites /\ projection \in BOOLEAN
  BY DEF TypeOK
<1>1. ASSUME NEW d \in Docs, NEW c \in Writable \cup {None}, Write(d, c)
      PROVE  /\ projection' = projection /\ writes' \in 0..MaxWrites
             /\ docs' \in [Docs -> Contents \cup {None}]
             /\ points' \in [Docs -> Contents \cup {None}]
             /\ ~projection' => points' = docs'
             /\ Records(docs', points')
  <2>1. c \in Contents \cup {None} /\ MaxWrites \in Nat
    BY IndexAssumption
  <2>2. docs' \in [Docs -> Contents \cup {None}]
    BY <1>0, <1>1, <2>1 DEF Write
  <2>3. points' \in [Docs -> Contents \cup {None}] /\ (~projection => points' = docs')
    <3>1. CASE projection
      BY <1>0, <1>1, <3>1 DEF Write
    <3>2. CASE ~projection
      BY <1>1, <2>2, <3>2 DEF Write
    <3>3. QED
      BY <3>1, <3>2
  <2>4. writes' \in 0..MaxWrites
    BY <1>0, <1>1, <2>1 DEF Write
  <2>5. QED
    BY <1>1, <2>2, <2>3, <2>4 DEF Write
<1>2. ASSUME NEW d \in Docs, Project(d)
      PROVE  /\ projection' = projection /\ writes' \in 0..MaxWrites
             /\ docs' \in [Docs -> Contents \cup {None}]
             /\ points' \in [Docs -> Contents \cup {None}]
             /\ ~projection' => points' = docs'
             /\ Records(docs', points')
  <2>1. projection
    BY <1>0, <1>2 DEF Project
  <2>2. points' \in [Docs -> Contents \cup {None}]
    BY <1>0, <1>2 DEF Project
  <2>3. docs' = docs
    BY <1>2 DEF Project
  <2>4. Records(docs', points')
    BY <1>2, <2>3 DEF Project, Records
  <2>5. QED
    BY <1>0, <1>2, <2>1, <2>2, <2>3, <2>4 DEF Project
<1>3. /\ projection' = projection /\ writes' \in 0..MaxWrites
      /\ docs' \in [Docs -> Contents \cup {None}]
      /\ points' \in [Docs -> Contents \cup {None}]
      /\ ~projection' => points' = docs'
      /\ Records(docs', points')
  BY <1>1, <1>2 DEF Writer
<1>4. /\ HistoryTyped(had') /\ Grows(had, had')
      /\ \A d \in Docs : docs'[d] \in had'[d].docs /\ points'[d] \in had'[d].points
  BY <1>3, RecordingHistory
<1>5. QED
  BY <1>3, <1>4

LEMMA InterfereKeeps ==
    ASSUME IInv, Interfere
    PROVE  IInv'
<1>0. /\ TypeOK /\ HistoryInv /\ QueueInv /\ SearchTyped(search)
      /\ search.pc \notin {"idle", "done"}
      /\ Fit(Request) /\ SearchInv(search, projection, had, Request)
      /\ Writer /\ UNCHANGED <<queue, search, response, returned>>
  BY DEF IInv, Interfere
<1>1. /\ projection' = projection /\ writes' \in 0..MaxWrites
      /\ docs' \in [Docs -> Contents \cup {None}]
      /\ points' \in [Docs -> Contents \cup {None}]
      /\ ~projection' => points' = docs'
      /\ HistoryTyped(had') /\ Grows(had, had')
      /\ \A d \in Docs : docs'[d] \in had'[d].docs /\ points'[d] \in had'[d].points
  BY <1>0, WriterKeeps
<1>2. TypeOK'
  BY <1>0, <1>1 DEF TypeOK
<1>3. HistoryInv'
  BY <1>1 DEF HistoryInv
<1>4. Request' = Request
  BY <1>0 DEF Request
<1>5. SearchInv(search, projection, had', Request)
  <2>1. HistoryTyped(had)
    BY <1>0 DEF HistoryInv
  <2>2. QED
    BY <1>0, <1>1, <2>1, SearchInvGrows
<1>6. SearchInv(search', projection', had', Request')
  BY <1>0, <1>1, <1>4, <1>5
<1>7. QueueInv'
  BY <1>0 DEF QueueInv, At
<1>8. CountsAreBounded'
  BY <1>0, FailedIsBounded
<1>9. SearchTyped(search') /\ Fit(Request')
  BY <1>0, <1>4
<1>10. QED
  BY <1>2, <1>3, <1>6, <1>7, <1>8, <1>9 DEF IInv

----------------------------------------------------------------------------
(* The invariant.                                                          *)

LEMMA InitKnows == Init => IInv
<1> SUFFICES ASSUME Init PROVE IInv
  OBVIOUS
<1>1. /\ projection \in BOOLEAN /\ docs \in Populations /\ points = docs /\ writes = 0
      /\ had = [d \in Docs |-> [docs |-> {docs[d]}, points |-> {docs[d]}]]
      /\ queue \in Batches /\ search = NoSearch /\ returned = [d \in Docs |-> 0]
  BY DEF Init, IndexInit, SearchInit
<1>2. docs \in [Docs -> Contents \cup {None}] /\ MaxWrites \in Nat
  BY <1>1, IndexAssumption
<1>3. SearchTyped(search) /\ search.pc = "idle"
  BY <1>1, NoSearchTyped DEF NoSearch
<1>4. TypeOK
  <2>1. /\ search.waiting = {} /\ search.fields = {} /\ search.hits = {}
    BY <1>1 DEF NoSearch
  <2>2. QED
    BY <1>1, <1>2, <2>1 DEF TypeOK
<1>5. HistoryInv
  <2>1. \A x : IsFiniteSet({x})
    BY FS_Singleton
  <2>2. \A d \in Docs : had[d].docs = {docs[d]} /\ had[d].points = {docs[d]}
    BY <1>1
  <2>3. had \in [Docs -> [docs: SUBSET (Contents \cup {None}),
                          points: SUBSET (Contents \cup {None})]]
    BY <1>1, <1>2
  <2>4. HistoryTyped(had)
    BY <2>1, <2>2, <2>3 DEF HistoryTyped
  <2>5. QED
    BY <1>1, <2>2, <2>4 DEF HistoryInv
<1>6. QueueInv
  <2>1. queue \in Seq(ToSet(queue)) /\ \A r \in ToSet(queue) : Asked(r)
    BY <1>1, SearchAssumption
  <2>2. QED
    BY <1>3, <2>1 DEF QueueInv, Queued, At
<1>7. CountsAreBounded
  BY <1>3 DEF CountsAreBounded, Succeeded, At
<1>8. QED
  BY <1>3, <1>4, <1>5, <1>6, <1>7 DEF IInv

LEMMA NextKnows == IInv /\ [Next]_vars => IInv'
<1> SUFFICES ASSUME IInv, [Next]_vars PROVE IInv'
  OBVIOUS
<1>1. CASE Start
  BY <1>1, StartKeeps
<1>2. CASE Respond
  BY <1>2, RespondKeeps
<1>3. CASE /\ search.pc \notin {"idle", "done"}
           /\ \/ ReadLike \/ ReadCount \/ ReadOrderedCoverage \/ ReadOrdered
              \/ ReadAggregation \/ Join
              \/ \E f \in TextFields : ReadRanked(f)
              \/ ReadApproximate \/ ReadPage \/ ReadSources \/ Hydrate
  BY <1>3, ReadsAreKept
<1>4. CASE Ask
  BY <1>4, AskKeeps
<1>5. CASE Interfere
  BY <1>5, InterfereKeeps
<1>6. CASE UNCHANGED vars
  <2>1. /\ UNCHANGED <<projection, docs, points, writes, had, queue, search, response,
                       returned>>
        /\ UNCHANGED aggregation
    BY <1>6 DEF vars, indexVars
  <2>2. TypeOK' /\ HistoryInv' /\ QueueInv' /\ SearchTyped(search')
    BY <2>1 DEF IInv, TypeOK, HistoryInv, QueueInv, At
  <2>3. Request' = Request
    BY <2>1 DEF Request
  <2>4. search'.pc \notin {"idle", "done"} =>
            Fit(Request') /\ SearchInv(search', projection', had', Request')
    BY <2>1, <2>3 DEF IInv
  <2>5. CountsAreBounded'
    <3>1. Possible(Request)' = Possible(Request) /\ Standing(Request)' = Standing(Request)
          /\ (Unexact(Request)' <=> Unexact(Request))
      BY <2>1, <2>3 DEF Possible, Standing, Untouched, Was, Held, Matches, Relevant, Ranked,
                        Unexact, FilterIsDropped
    <3>2. Succeeded' <=> Succeeded
      BY <2>1 DEF Succeeded, At
    <3>3. CountsAreBounded
      BY DEF IInv
    <3>4. QED
      BY <2>1, <2>3, <3>1, <3>2, <3>3 DEF CountsAreBounded, CalledExact
  <2>6. QED
    BY <2>2, <2>4, <2>5 DEF IInv
<1>7. /\ ReadLike => search.pc = "like"
      /\ ReadCount \/ ReadOrderedCoverage \/ ReadOrdered \/ ReadAggregation \/ Join
            => search.pc = "join"
      /\ \A f \in TextFields : ReadRanked(f) => search.pc = "ranked"
      /\ ReadApproximate => search.pc = "approximate"
      /\ ReadPage => search.pc = "scroll"
      /\ ReadSources => search.pc = "sources"
      /\ Hydrate => search.pc \in {"gathered", "ranked"}
  BY DEF ReadLike, ReadCount, ReadOrderedCoverage, ReadOrdered, ReadAggregation, Join,
         ReadRanked, ReadApproximate, ReadPage, ReadSources, Hydrate, Gathered, At
<1>8. QED
  BY <1>1, <1>2, <1>3, <1>4, <1>5, <1>6, <1>7 DEF Next, SearchStep, Terminated

(* A total that the gateway calls exact counts every document that stood   *)
(* still and matched, whatever writers did between the reads of a search,  *)
(* and no total counts a document that never matched (main.rs: the exact   *)
(* count, the complete scan, and the hits of candidate searches).          *)
THEOREM TotalsHold == Spec => []CountsAreBounded
<1>1. Init => IInv
  BY InitKnows
<1>2. IInv /\ [Next]_vars => IInv'
  BY NextKnows
<1>3. IInv => CountsAreBounded
  BY DEF IInv
<1>4. QED
  BY <1>1, <1>2, <1>3, PTL DEF Spec

(* The locals of a search stay of their types.                             *)
THEOREM SearchesAreTyped == Spec => []TypeOK
<1>1. Init => IInv
  BY InitKnows
<1>2. IInv /\ [Next]_vars => IInv'
  BY NextKnows
<1>3. IInv => TypeOK
  BY DEF IInv
<1>4. QED
  BY <1>1, <1>2, <1>3, PTL DEF Spec

----------------------------------------------------------------------------
(* Why a search may fail.                                                  *)

\* Points there have been.
Ever(history) == UNION {Held(history[d].points) : d \in Docs}

\* Unproved of a history.
UnprovedIn(history, r, field) ==
    \E d \in Docs : /\ Still(history, d) /\ Were(history, d) # None
                    /\ Selected(Were(history, d), r.filter)
                    /\ ~Marked(Were(history, d), field)

\* OrderedByQdrant
Serves(p, r) ==
    /\ FilterOnly(r) /\ r.size > 0
    /\ ~p
    /\ Len(r.sort) = 1 /\ r.sort[1].field = "n"
    /\ r.collapse = None
    /\ r.after # None => Number(r.after[1])

EverKeys(history) == UNION {Keys(c) : c \in Ever(history)}
EverBuckets(history) ==
    {Bucket[c.n.number] : c \in {e \in Ever(history) : Number(e.n)}}

\* A read that the search needed, or values its reducers cannot take.
Needed(p, history, r) ==
    \/ Serves(p, r) /\ ~UnprovedIn(history, r, "n")
    \/ \E i \in DOMAIN r.aggs :
          \/ r.aggs[i].kind = "terms" /\ ~UnprovedIn(history, r, "k")
          \/ /\ r.aggs[i].kind = "filter"
             /\ ~UnprovedIn(history, r, r.aggs[i].query.field)

Unfitting(history, r) ==
    \E i \in DOMAIN r.aggs :
        \/ \E c \in Ever(history) : Unfit(r.aggs[i], c)
        \/ Cardinality(EverKeys(history)) > MaxBuckets
        \/ Cardinality(EverBuckets(history)) > MaxBuckets

Excused(p, history, r) == Needed(p, history, r) \/ Unfitting(history, r)

\* The image of a finite set.
LEMMA ImagesAreFinite ==
    ASSUME NEW S, IsFiniteSet(S), NEW f
    PROVE  IsFiniteSet({f[x] : x \in S})
<1> DEFINE T == {f[x] : x \in S}
           g == [x \in S |-> f[x]]
<1>1. g \in Surjection(S, T)
  BY DEF Surjection
<1>2. QED
  BY <1>1, FS_Surjection

LEMMA EverIsFinite ==
    ASSUME NEW H, HistoryTyped(H)
    PROVE  /\ Ever(H) \subseteq Contents /\ IsFiniteSet(Ever(H))
           /\ IsFiniteSet(EverKeys(H)) /\ IsFiniteSet(EverBuckets(H))
<1> DEFINE held == [d \in Docs |-> Held(H[d].points)]
           keys == [c \in Contents |-> Keys(c)]
           bucket == [c \in Contents |-> Bucket[c.n.number]]
           numbers == {e \in Ever(H) : Number(e.n)}
<1>1. Ever(H) \subseteq Contents
  BY DEF Ever, Held, HistoryTyped
<1>2. IsFiniteSet(Ever(H))
  <2>1. IsFiniteSet({held[d] : d \in Docs})
    <3>1. IsFiniteSet(Docs)
      BY PositionsAreDocs
    <3> HIDE DEF held
    <3>2. QED
      BY <3>1, ImagesAreFinite
  <2>2. ASSUME NEW d \in Docs
        PROVE  IsFiniteSet(held[d])
    <3>1. IsFiniteSet(H[d].points)
      BY DEF HistoryTyped
    <3>2. Held(H[d].points) \in SUBSET H[d].points
      BY DEF Held
    <3>3. QED
      BY <3>1, <3>2, FS_Subset
  <2>3. \A T \in {held[d] : d \in Docs} : IsFiniteSet(T)
    BY <2>2
  <2>4. Ever(H) = UNION {held[d] : d \in Docs}
    BY DEF Ever
  <2>5. QED
    BY <2>1, <2>3, <2>4, FS_UNION
<1>3. IsFiniteSet(EverKeys(H))
  <2>1. IsFiniteSet({keys[c] : c \in Ever(H)})
    BY <1>2, ImagesAreFinite
  <2>2. ASSUME NEW c \in Contents
        PROVE  IsFiniteSet(keys[c])
    <3>1. IsFiniteSet(c.k.strings) /\ IsFiniteSet(c.k.others)
      BY IndexAssumption
    <3>2. QED
      BY <3>1, FS_Union DEF Keys
  <2>3. \A T \in {keys[c] : c \in Ever(H)} : IsFiniteSet(T)
    BY <1>1, <2>2
  <2>4. EverKeys(H) = UNION {keys[c] : c \in Ever(H)}
    BY <1>1 DEF EverKeys
  <2>5. QED
    BY <2>1, <2>3, <2>4, FS_UNION
<1>4. IsFiniteSet(EverBuckets(H))
  <2>1. numbers \in SUBSET Ever(H)
    OBVIOUS
  <2>2. IsFiniteSet(numbers)
    BY <1>2, <2>1, FS_Subset
  <2>3. IsFiniteSet({bucket[c] : c \in numbers})
    BY <2>2, ImagesAreFinite
  <2>4. EverBuckets(H) = {bucket[c] : c \in numbers}
    BY <1>1 DEF EverBuckets
  <2>5. QED
    BY <2>3, <2>4
<1>5. QED
  BY <1>1, <1>2, <1>3, <1>4

\* A reason stays one, whatever is written.
LEMMA UnprovedShrinks ==
    ASSUME NEW H, NEW G, HistoryTyped(H), HistoryTyped(G), Grows(H, G), NEW r, NEW field,
           UnprovedIn(G, r, field)
    PROVE  UnprovedIn(H, r, field)
<1>1. \A d \in Docs : Still(G, d) => Were(G, d) = Were(H, d)
  BY GrowingHistory
<1>2. ASSUME NEW d \in Docs, Still(G, d)
      PROVE  Still(H, d)
  <2>1. G[d].docs = {Were(G, d)} /\ G[d].points = {Were(G, d)}
    BY <1>2, StillIsOne
  <2>2. H[d].docs \subseteq {Were(G, d)} /\ H[d].points \subseteq {Were(G, d)}
    BY <2>1 DEF Grows
  <2>3. H[d].docs = {Were(G, d)} /\ H[d].points = {Were(G, d)}
    BY <2>2 DEF HistoryTyped
  <2>4. Cardinality(H[d].docs) = 1
    BY <2>3, FS_Singleton
  <2>5. QED
    BY <2>3, <2>4 DEF Still
<1>3. QED
  BY <1>1, <1>2 DEF UnprovedIn

LEMMA MoreIsCounted ==
    ASSUME NEW A, NEW B, IsFiniteSet(B), A \subseteq B, Cardinality(A) > MaxBuckets
    PROVE  Cardinality(B) > MaxBuckets
<1>1. A \in SUBSET B
  OBVIOUS
<1>2. IsFiniteSet(A) /\ Cardinality(A) <= Cardinality(B)
  BY <1>1, FS_Subset
<1>3. Cardinality(A) \in Nat /\ Cardinality(B) \in Nat /\ MaxBuckets \in Nat
  BY <1>2, FS_CardinalityType, AggregationAssumption
<1>4. QED
  BY <1>2, <1>3

LEMMA ExcusedGrows ==
    ASSUME NEW H, NEW G, HistoryTyped(H), HistoryTyped(G), Grows(H, G), NEW r, NEW p,
           Excused(p, H, r)
    PROVE  Excused(p, G, r)
<1>1. \A field : ~UnprovedIn(H, r, field) => ~UnprovedIn(G, r, field)
  BY UnprovedShrinks
<1>2. Needed(p, H, r) => Needed(p, G, r)
  BY <1>1 DEF Needed
<1>3. Ever(H) \subseteq Ever(G)
  BY DEF Ever, Held, Grows
<1>4. EverKeys(H) \subseteq EverKeys(G) /\ EverBuckets(H) \subseteq EverBuckets(G)
  BY <1>3 DEF EverKeys, EverBuckets
<1>5. IsFiniteSet(EverKeys(G)) /\ IsFiniteSet(EverBuckets(G))
  BY EverIsFinite
<1>6. /\ Cardinality(EverKeys(H)) > MaxBuckets => Cardinality(EverKeys(G)) > MaxBuckets
      /\ Cardinality(EverBuckets(H)) > MaxBuckets => Cardinality(EverBuckets(G)) > MaxBuckets
  BY <1>4, <1>5, MoreIsCounted
<1>7. Unfitting(H, r) => Unfitting(G, r)
  BY <1>3, <1>6 DEF Unfitting
<1>8. QED
  BY <1>2, <1>7 DEF Excused

\* What a reducer cannot take.
LEMMA OverflowsAreExcused ==
    ASSUME NEW H, HistoryTyped(H), NEW seen \in Seq(Ever(H)), NEW spec,
           Overflows(spec, seen)
    PROVE  \/ Cardinality(EverKeys(H)) > MaxBuckets
           \/ Cardinality(EverBuckets(H)) > MaxBuckets
<1>1. \A j \in DOMAIN seen : seen[j] \in Ever(H)
  OBVIOUS
<1>2. IsFiniteSet(EverKeys(H)) /\ IsFiniteSet(EverBuckets(H))
  BY EverIsFinite
<1>3. CASE spec.kind = "terms"
  <2>1. DOMAIN TermCounts(seen) = UNION {Keys(seen[i]) : i \in DOMAIN seen}
    BY DEF TermCounts
  <2>2. DOMAIN TermCounts(seen) \subseteq EverKeys(H)
    BY <1>1, <2>1 DEF EverKeys
  <2>3. Cardinality(DOMAIN TermCounts(seen)) > MaxBuckets
    BY <1>3 DEF Overflows
  <2>4. QED
    BY <1>2, <2>2, <2>3, MoreIsCounted
<1>4. CASE spec.kind = "histogram"
  <2>1. DOMAIN Histogram(seen) = {Bucket[x] : x \in Numbers(seen)}
    BY DEF Histogram
  <2>2. DOMAIN Histogram(seen) \subseteq EverBuckets(H)
    BY <1>1, <2>1 DEF EverBuckets, Numbers
  <2>3. Cardinality(DOMAIN Histogram(seen)) > MaxBuckets
    BY <1>4 DEF Overflows
  <2>4. QED
    BY <1>2, <2>2, <2>3, MoreIsCounted
<1>5. spec.kind = "terms" \/ spec.kind = "histogram"
  BY DEF Overflows
<1>6. QED
  BY <1>3, <1>4, <1>5

----------------------------------------------------------------------------
(* What the two speculative reads have shown.                              *)

\* An execution of the plan of a request, or of none.
Planned(a, r) ==
    /\ DOMAIN a = {"plan", "filtered", "covered", "answer", "offset", "observed", "failed"}
    /\ a.plan \in {<<>>, r.aggs}
    /\ a.plan # <<>> => a.filtered = r.filter
    /\ DOMAIN a.covered = DOMAIN a.plan
    /\ a.offset \in Nat

\* A field was found covered only where a read of it was tried, and then no
\* document that stands still lacks its marker.
Covered(a, history, r) ==
    \A i \in DOMAIN a.plan : a.covered[i] # None =>
        /\ a.covered[i] \in BOOLEAN
        /\ a.plan[i].kind \in {"filter", "terms"}
        /\ a.covered[i] =>
              ~UnprovedIn(history, r,
                          IF a.plan[i].kind = "filter" THEN a.plan[i].query.field ELSE "k")

PlanInv(a, p, history, r) ==
    /\ Planned(a, r)
    /\ Covered(a, history, r)
    /\ a.observed \in Seq(Ever(history))
    /\ a.failed => Excused(p, history, r)

CoverInv(s, p, history, r) ==
    /\ "coverage" \in s.waiting => Serves(p, r)
    /\ s.covered = TRUE => Serves(p, r) /\ ~UnprovedIn(history, r, "n")

SInv ==
    /\ search.pc \notin {"idle", "done"} =>
            /\ PlanInv(aggregation, projection, had, Request)
            /\ CoverInv(search, projection, had, Request)
    /\ SpeculationIsFree

\* What writers add makes none of it false.
LEMMA PlanInvGrows ==
    ASSUME NEW H, NEW G, HistoryTyped(H), HistoryTyped(G), Grows(H, G), NEW r, NEW p,
           NEW a, PlanInv(a, p, H, r)
    PROVE  PlanInv(a, p, G, r)
<1>1. \A field : ~UnprovedIn(H, r, field) => ~UnprovedIn(G, r, field)
  BY UnprovedShrinks
<1>2. Covered(a, G, r)
  BY <1>1 DEF PlanInv, Covered
<1>3. a.observed \in Seq(Ever(G))
  <2>1. Ever(H) \subseteq Ever(G)
    BY DEF Ever, Held, Grows
  <2>2. a.observed \in Seq(Ever(H))
    BY DEF PlanInv
  <2>3. QED
    BY <2>1, <2>2
<1>4. a.failed => Excused(p, G, r)
  BY ExcusedGrows DEF PlanInv
<1>5. QED
  BY <1>2, <1>3, <1>4 DEF PlanInv

LEMMA CoverInvGrows ==
    ASSUME NEW H, NEW G, HistoryTyped(H), HistoryTyped(G), Grows(H, G), NEW r, NEW p,
           NEW s, CoverInv(s, p, H, r)
    PROVE  CoverInv(s, p, G, r)
BY UnprovedShrinks DEF CoverInv

\* A read that finds no unmarked point proves the field.
LEMMA CoverageProves ==
    ASSUME TypeOK, HistoryInv, NEW r, NEW field, ~Uncovered(field, r.filter)
    PROVE  ~UnprovedIn(had, r, field)
<1> SUFFICES ASSUME NEW d \in Docs, Still(had, d), Were(had, d) # None,
                    Selected(Were(had, d), r.filter)
             PROVE  Marked(Were(had, d), field)
  BY DEF UnprovedIn
<1>1. points[d] = Were(had, d)
  BY IndexIsHistory
<1>2. d \in Scope(r.filter)
  BY <1>1 DEF Scope, InScope, Exists
<1>3. QED
  BY <1>1, <1>2 DEF Uncovered

\* The parts of an execution.
LEMMA PlanParts ==
    ASSUME NEW a, NEW p, NEW H, NEW r, PlanInv(a, p, H, r)
    PROVE  /\ Planned(a, r) /\ Covered(a, H, r) /\ a.observed \in Seq(Ever(H))
           /\ a.failed => Excused(p, H, r)
BY DEF PlanInv

LEMMA CoverageKeeps ==
    ASSUME TypeOK, HistoryInv, NEW r,
           PlanInv(aggregation, projection, had, r),
           NEW i \in DOMAIN Plan, ReadCoverage(i)
    PROVE  PlanInv(aggregation', projection, had, r)
<1> DEFINE a == aggregation
           found == ~Uncovered(FastField(i), a.filtered)
           field == IF a.plan[i].kind = "filter" THEN a.plan[i].query.field ELSE "k"
<1>1. Planned(a, r) /\ Covered(a, had, r)
  BY PlanParts
<1>2. a' = [a EXCEPT !.covered[i] = found] /\ Turn(i) /\ i \in DOMAIN a.plan
  BY DEF ReadCoverage, Plan
<1>3. found \in BOOLEAN
  OBVIOUS
<1>4. a.plan[i].kind \in {"filter", "terms"}
  BY <1>2 DEF Turn, Tries, Plan
<1>5. found => ~UnprovedIn(had, r, field)
  <2>1. a.filtered = r.filter
    BY <1>1, <1>2 DEF Planned
  <2>2. FastField(i) = field
    BY DEF FastField, Plan
  <2>3. QED
    BY <2>1, <2>2, CoverageProves
<1> HIDE DEF found
<1>6. /\ a'.plan = a.plan /\ a'.filtered = a.filtered /\ a'.offset = a.offset
      /\ a'.observed = a.observed /\ a'.failed = a.failed
      /\ DOMAIN a' = DOMAIN a
      /\ a'.covered = [a.covered EXCEPT ![i] = found]
  BY <1>1, <1>2 DEF Planned
<1>7. DOMAIN a'.covered = DOMAIN a.covered
  BY <1>6
<1>8. Planned(a', r)
  BY <1>1, <1>6, <1>7 DEF Planned
<1>9. \A j \in DOMAIN a.covered : a'.covered[j] = IF j = i THEN found ELSE a.covered[j]
  BY <1>6
<1>10. Covered(a', had, r)
  <2>1. DOMAIN a.covered = DOMAIN a.plan
    BY <1>1 DEF Planned
  <2> SUFFICES ASSUME NEW j \in DOMAIN a.plan, a'.covered[j] # None
               PROVE  /\ a'.covered[j] \in BOOLEAN
                      /\ a.plan[j].kind \in {"filter", "terms"}
                      /\ a'.covered[j] =>
                          ~UnprovedIn(had, r, IF a.plan[j].kind = "filter"
                                              THEN a.plan[j].query.field ELSE "k")
    BY <1>6 DEF Covered
  <2>2. CASE j = i
    BY <1>3, <1>4, <1>5, <1>9, <2>1, <2>2
  <2>3. CASE j # i
    BY <1>1, <1>9, <2>1, <2>3 DEF Covered
  <2>4. QED
    BY <2>2, <2>3
<1>11. QED
  BY <1>6, <1>8, <1>10, PlanParts DEF PlanInv

LEMMA AnswerKeeps ==
    ASSUME NEW H, NEW p, NEW r, PlanInv(aggregation, p, H, r),
           NEW i \in DOMAIN Plan, ReadAnswer(i)
    PROVE  PlanInv(aggregation', p, H, r)
<1> DEFINE a == aggregation
<1>1. PICK answer : a' = [a EXCEPT !.answer[i] = answer]
  BY DEF ReadAnswer
<1>2. Planned(a, r)
  BY PlanParts
<1>3. /\ a'.plan = a.plan /\ a'.filtered = a.filtered /\ a'.offset = a.offset
      /\ a'.observed = a.observed /\ a'.failed = a.failed /\ a'.covered = a.covered
      /\ DOMAIN a' = DOMAIN a
  BY <1>1, <1>2 DEF Planned
<1>4. Planned(a', r) /\ Covered(a', H, r)
  BY <1>2, <1>3, PlanParts DEF Planned, Covered
<1>5. QED
  BY <1>3, <1>4, PlanParts DEF PlanInv

\* An answer that was refused and taken was needed.
LEMMA RefusalsAreExcused ==
    ASSUME NEW H, NEW p, NEW r, PlanInv(aggregation, p, H, r), Refused
    PROVE  Excused(p, H, r)
<1> DEFINE a == aggregation
<1>1. PICK i \in DOMAIN a.plan : Taken(i)
  BY DEF Refused, Plan
<1>2. a.covered[i] # None /\ a.covered[i]
  BY <1>1 DEF Taken, HasRead
<1>3. a.plan = r.aggs
  <2>1. a.plan \in {<<>>, r.aggs}
    BY PlanParts DEF Planned
  <2>2. a.plan # <<>>
    BY <1>1
  <2>3. QED
    BY <2>1, <2>2
<1>4. /\ a.plan[i].kind \in {"filter", "terms"}
      /\ ~UnprovedIn(H, r, IF a.plan[i].kind = "filter" THEN a.plan[i].query.field ELSE "k")
  BY <1>1, <1>2, PlanParts DEF Covered
<1>5. QED
  BY <1>1, <1>3, <1>4 DEF Excused, Needed

LEMMA FailKeeps ==
    ASSUME NEW H, NEW p, NEW r, PlanInv(aggregation, p, H, r), FailExecution
    PROVE  PlanInv(aggregation', p, H, r)
<1> DEFINE a == aggregation
<1>1. a' = [a EXCEPT !.failed = TRUE] /\ Refused
  BY DEF FailExecution
<1>2. Planned(a, r)
  BY PlanParts
<1>3. /\ a'.plan = a.plan /\ a'.filtered = a.filtered /\ a'.offset = a.offset
      /\ a'.observed = a.observed /\ a'.covered = a.covered
      /\ DOMAIN a' = DOMAIN a
  BY <1>1, <1>2 DEF Planned
<1>4. Planned(a', r) /\ Covered(a', H, r)
  BY <1>2, <1>3, PlanParts DEF Planned, Covered
<1>5. Excused(p, H, r)
  BY <1>1, RefusalsAreExcused
<1>6. QED
  BY <1>3, <1>4, <1>5, PlanParts DEF PlanInv

\* A page of the scan shows what there is.
LEMMA StreamKeeps ==
    ASSUME TypeOK, HistoryInv, NEW r,
           PlanInv(aggregation, projection, had, r), Stream
    PROVE  PlanInv(aggregation', projection, had, r)
<1> DEFINE a == aggregation
           members == Scope(a.filtered)
           page == ScrollPage(members, a.offset, AggregationPage)
           shown == [i \in DOMAIN page.docs |-> points[page.docs[i]]]
           seen == a.observed \o shown
           unfit == \E i \in Left : \/ Overflows(Plan[i], seen)
                                    \/ \E j \in DOMAIN seen : Unfit(Plan[i], seen[j])
<1>1. /\ Planned(a, r) /\ Covered(a, had, r) /\ a.observed \in Seq(Ever(had))
      /\ a.failed => Excused(projection, had, r)
  BY PlanParts
<1>2. /\ a.offset # 0 /\ Left # {}
      /\ a' = IF unfit THEN [a EXCEPT !.failed = TRUE]
              ELSE [a EXCEPT !.observed = seen, !.offset = page.next]
  BY DEF Stream
<1>3. HistoryTyped(had)
  BY DEF HistoryInv
<1>4. /\ page.docs \in Seq(Docs) /\ page.next \in Nat
      /\ ToSet(page.docs) \subseteq members
  <2>1. members \in SUBSET Docs
    BY DEF Scope
  <2>2. a.offset \in Nat \ {0} /\ AggregationPage \in Nat
    BY <1>1, <1>2, AggregationAssumption DEF Planned
  <2>3. PICK S \in SUBSET Docs, o \in Nat \ {0}, n \in Nat :
            S = members /\ o = a.offset /\ n = AggregationPage
    BY <2>1, <2>2
  <2>4. /\ ScrollPage(S, o, n).docs \in Seq(Docs) /\ ScrollPage(S, o, n).next \in Nat
        /\ ToSet(ScrollPage(S, o, n).docs)
                = S \cap (Passed(ScrollPage(S, o, n).next) \ Passed(o))
    BY PageHasWhatIsLeft
  <2>5. page = ScrollPage(S, o, n)
    BY <2>3
  <2> HIDE DEF members, page
  <2>6. QED
    BY <2>3, <2>4, <2>5
<1>5. \A d \in members : points[d] \in Ever(had)
  <2>1. \A d \in members : d \in Docs /\ points[d] # None
    BY DEF Scope, InScope, Exists
  <2>2. \A d \in Docs : points[d] \in had[d].points
    BY DEF HistoryInv
  <2>3. QED
    BY <2>1, <2>2 DEF Ever, Held
<1>6. seen \in Seq(Ever(had))
  <2>1. PICK ds : ds = page.docs
    OBVIOUS
  <2>2. ds \in Seq(Docs) /\ \A i \in DOMAIN ds : ds[i] \in members
    BY <1>4, <2>1 DEF ToSet
  <2>3. [i \in DOMAIN ds |-> points[ds[i]]] \in Seq(Ever(had))
    <3> HIDE DEF members
    <3>1. \A i \in 1..Len(ds) : points[ds[i]] \in Ever(had)
      BY <1>5, <2>2
    <3>2. DOMAIN ds = 1..Len(ds) /\ Len(ds) \in Nat
      BY <2>2
    <3>3. QED
      BY <3>1, <3>2
  <2>4. shown = [i \in DOMAIN ds |-> points[ds[i]]]
    BY <2>1
  <2> HIDE DEF shown
  <2>5. QED
    BY <1>1, <2>3, <2>4
<1> HIDE DEF page, seen, members
<1>7. CASE unfit
  <2>1. PICK i \in Left : \/ Overflows(Plan[i], seen)
                          \/ \E j \in DOMAIN seen : Unfit(Plan[i], seen[j])
    BY <1>7
  <2>2. i \in DOMAIN a.plan /\ a.plan = r.aggs
    <3>1. i \in DOMAIN a.plan
      BY DEF Left, Plan
    <3>2. a.plan \in {<<>>, r.aggs} /\ a.plan # <<>>
      BY <1>1, <3>1 DEF Planned
    <3>3. QED
      BY <3>1, <3>2
  <2>3. Excused(projection, had, r)
    <3>1. CASE Overflows(Plan[i], seen)
      <4>1. \/ Cardinality(EverKeys(had)) > MaxBuckets
            \/ Cardinality(EverBuckets(had)) > MaxBuckets
        BY <1>3, <1>6, <3>1, OverflowsAreExcused
      <4>2. QED
        BY <2>2, <4>1 DEF Excused, Unfitting
    <3>2. ASSUME NEW j \in DOMAIN seen, Unfit(Plan[i], seen[j])
          PROVE  Excused(projection, had, r)
      <4>1. seen[j] \in Ever(had)
        BY <1>6
      <4>2. Unfit(r.aggs[i], seen[j])
        BY <2>2, <3>2 DEF Plan
      <4>3. QED
        BY <2>2, <4>1, <4>2 DEF Excused, Unfitting
    <3>3. QED
      BY <2>1, <3>1, <3>2
  <2>4. a' = [a EXCEPT !.failed = TRUE]
    BY <1>2, <1>7
  <2>5. /\ a'.plan = a.plan /\ a'.filtered = a.filtered /\ a'.offset = a.offset
        /\ a'.observed = a.observed /\ a'.covered = a.covered
        /\ DOMAIN a' = DOMAIN a
    BY <1>1, <2>4 DEF Planned
  <2>6. Planned(a', r) /\ Covered(a', had, r)
    BY <1>1, <2>5 DEF Planned, Covered
  <2>7. QED
    BY <1>1, <2>3, <2>5, <2>6 DEF PlanInv
<1>8. CASE ~unfit
  <2>1. a' = [a EXCEPT !.observed = seen, !.offset = page.next]
    BY <1>2, <1>8
  <2>2. /\ a'.plan = a.plan /\ a'.filtered = a.filtered /\ a'.covered = a.covered
        /\ a'.failed = a.failed /\ a'.observed = seen /\ a'.offset = page.next
        /\ DOMAIN a' = DOMAIN a
    BY <1>1, <2>1 DEF Planned
  <2>3. Planned(a', r) /\ Covered(a', had, r)
    BY <1>1, <1>4, <2>2 DEF Planned, Covered
  <2>4. QED
    BY <1>1, <1>6, <2>2, <2>3 DEF PlanInv
<1>9. QED
  BY <1>7, <1>8

LEMMA AggregateKeeps ==
    ASSUME TypeOK, HistoryInv, NEW r,
           PlanInv(aggregation, projection, had, r), Aggregate
    PROVE  PlanInv(aggregation', projection, had, r)
<1>1. ASSUME NEW i \in DOMAIN Plan, ReadCoverage(i)
      PROVE  PlanInv(aggregation', projection, had, r)
  BY <1>1, CoverageKeeps
<1>2. ASSUME NEW i \in DOMAIN Plan, ReadAnswer(i)
      PROVE  PlanInv(aggregation', projection, had, r)
  BY <1>2, AnswerKeeps
<1>3. CASE FailExecution
  BY <1>3, FailKeeps
<1>4. CASE Stream
  BY <1>4, StreamKeeps
<1>5. QED
  BY <1>1, <1>2, <1>3, <1>4 DEF Aggregate

----------------------------------------------------------------------------
(* No search fails for a read it did not need.                             *)

\* SpeculationIsFree in terms of a history.
Free(p, history, r, answer) ==
    Accepted(r) /\ r.like = None /\ ~Excused(p, history, r) => ~answer.error

LEMMA FreeIsFree ==
    SpeculationIsFree <=>
        (At("done") /\ queue # <<>> => Free(projection, had, Request, response))
<1>1. \A d : Untouched(d) <=> Still(had, d)
  BY HistoryIsHad
<1>2. \A d : Was(d) = Were(had, d)
  BY HistoryIsHad
<1>3. \A r, field : Unproved(r, field) <=> UnprovedIn(had, r, field)
  BY <1>1, <1>2 DEF Unproved, UnprovedIn
<1>4. \A r : OrderedByQdrant(r) <=> Serves(projection, r)
  BY DEF OrderedByQdrant, Serves
<1>5. QED
  BY <1>3, <1>4 DEF SpeculationIsFree, Free, Excused, Needed, Unfitting, EverKeys,
                    EverBuckets, Ever

\* Where a step of a search leads.
LEMMA StepIsFree ==
    ASSUME search'.pc \notin {"idle", "done"} =>
                /\ PlanInv(aggregation', projection', had', Request')
                /\ CoverInv(search', projection', had', Request'),
           search'.pc = "done" /\ queue' # <<>> =>
                Free(projection', had', Request', response')
    PROVE  SInv'
<1>1. (SpeculationIsFree <=>
        (At("done") /\ queue # <<>> => Free(projection, had, Request, response)))'
  BY FreeIsFree, PTL
<1>2. SpeculationIsFree'
  BY <1>1 DEF At
<1>3. QED
  BY <1>2 DEF SInv

LEMMA StartIsFree ==
    ASSUME IInv, Start
    PROVE  SInv'
<1> DEFINE r == Rewritten(Request)
           plain == r.entry = "count" /\ ~Ranked(r) /\ ~r.patterns
           pc == IF r.like # None THEN "like" ELSE "join"
           waiting == IF plain THEN {"count"} ELSE Joins(r)
<1>0. /\ Queued(queue) /\ queue # <<>>
      /\ queue' = [queue EXCEPT ![1] = r] /\ projection' = projection
  BY DEF IInv, QueueInv, Start
<1>1. Asked(r)
  BY <1>0, QueuedRequests, AskedRewritten DEF Request
<1>2. Request' = r
  BY <1>0, <1>1, QueuedRequests DEF Request
<1>3. CASE ~plain /\ ~Accepted(r) /\ Answered(Error)
  <2>1. search'.pc = "done"
    BY <1>3 DEF Answered, NoSearch
  <2>2. Free(projection', had', Request', response')
    BY <1>2, <1>3 DEF Free
  <2>3. QED
    BY <2>1, <2>2, StepIsFree
<1>4. CASE /\ search' = [NoSearch EXCEPT !.pc = pc, !.waiting = waiting]
           /\ aggregation' = IF plain THEN Idle ELSE Begun(r.aggs, r.filter)
  <2>1. "coverage" \in waiting => Serves(projection, r)
    BY DEF Joins, OrderedByQdrant, Serves
  <2>2. r.aggs \in Seq(Aggregation)
    BY <1>1, AskedParts
  <2> HIDE DEF waiting, pc, r, plain
  <2>3. search'.waiting = waiting /\ search'.pc = pc /\ search'.covered = None
    BY <1>4 DEF NoSearch
  <2>4. pc \in {"like", "join"}
    BY DEF pc
  <2>5. None # TRUE
    BY IndexAssumption
  <2>6. CoverInv(search', projection, had', r)
    BY <2>1, <2>3, <2>5 DEF CoverInv
  <2>7. PlanInv(Idle, projection, had', r)
    <3>1. <<>> \in Seq(Ever(had')) /\ DOMAIN <<>> = {}
      OBVIOUS
    <3>2. Planned(Idle, r) /\ Covered(Idle, had', r)
      BY <3>1 DEF Idle, Planned, Covered
    <3>3. Idle.observed = <<>> /\ Idle.failed = FALSE
      BY DEF Idle
    <3>4. QED
      BY <3>1, <3>2, <3>3 DEF PlanInv
  <2>8. PlanInv(Begun(r.aggs, r.filter), projection, had', r)
    <3>1. <<>> \in Seq(Ever(had'))
      OBVIOUS
    <3>2. PICK b : b = Begun(r.aggs, r.filter)
      OBVIOUS
    <3>3. /\ b.plan = r.aggs /\ b.filtered = r.filter /\ b.offset = 1
          /\ b.covered = [i \in DOMAIN r.aggs |-> None]
          /\ b.observed = <<>> /\ b.failed = FALSE
          /\ DOMAIN b = {"plan", "filtered", "covered", "answer", "offset", "observed",
                         "failed"}
      BY <3>2 DEF Begun
    <3>4. Planned(b, r) /\ Covered(b, had', r)
      BY <3>3 DEF Planned, Covered
    <3>5. PlanInv(b, projection, had', r)
      BY <3>1, <3>3, <3>4 DEF PlanInv
    <3>6. QED
      BY <3>2, <3>5
  <2>9. PlanInv(aggregation', projection, had', r)
    BY <1>4, <2>7, <2>8
  <2>10. /\ search'.pc # "done"
         /\ PlanInv(aggregation', projection', had', Request')
         /\ CoverInv(search', projection', had', Request')
    BY <1>0, <1>2, <2>3, <2>4, <2>6, <2>9
  <2>11. QED
    BY <2>10, StepIsFree
<1>5. QED
  BY <1>3, <1>4 DEF Start

\* A read that goes on and has looked neither for coverage nor aggregated.
LEMMA ReadIsFree ==
    ASSUME SInv, Reads, search.pc \notin {"idle", "done"}, search'.pc # "done",
           UNCHANGED aggregation,
           search'.waiting \subseteq search.waiting, search'.covered = search.covered
    PROVE  SInv'
<1>1. /\ PlanInv(aggregation, projection, had, Request)
      /\ CoverInv(search, projection, had, Request)
  BY DEF SInv
<1>2. had' = had /\ Request' = Request /\ projection' = projection
  BY DEF Reads, indexVars, Request
<1>3. CoverInv(search', projection, had, Request)
  BY <1>1 DEF CoverInv
<1>4. QED
  BY <1>1, <1>2, <1>3, StepIsFree

\* A read that fails has a reason.
LEMMA FailureIsFree ==
    ASSUME Reads, search'.pc = "done",
           Request.like # None \/ Excused(projection, had, Request)
    PROVE  SInv'
<1>1. had' = had /\ Request' = Request /\ projection' = projection
  BY DEF Reads, indexVars, Request
<1>2. Free(projection', had', Request', response')
  BY <1>1 DEF Free
<1>3. QED
  BY <1>2, StepIsFree

LEMMA JoinedReadsAreFree ==
    ASSUME IInv, SInv
    PROVE  /\ ReadLike => SInv'
           /\ ReadCount => SInv'
           /\ ReadOrderedCoverage => SInv'
           /\ ReadOrdered => SInv'
           /\ ReadAggregation => SInv'
           /\ Join => SInv'
<1> DEFINE r == Request
<1>0. /\ TypeOK /\ HistoryInv /\ SearchTyped(search)
      /\ search.pc \notin {"idle", "done"} =>
            /\ SearchInv(search, projection, had, r)
            /\ PlanInv(aggregation, projection, had, r)
            /\ CoverInv(search, projection, had, r)
  BY DEF IInv, SInv
<1>1. ASSUME ReadLike
      PROVE  SInv'
  <2>1. search.pc = "like" /\ Reads /\ UNCHANGED aggregation
    BY <1>1 DEF ReadLike, At
  <2>2. CASE Answered(Error)
    <3>1. r.like # None
      BY <1>0, <2>1, KnownParts DEF Placed
    <3>2. search'.pc = "done"
      BY <2>2 DEF Answered, NoSearch
    <3>3. QED
      BY <2>1, <3>1, <3>2, FailureIsFree
  <2>3. CASE search' = [search EXCEPT !.pc = "join", !.like = docs[Request.like]]
    <3>1. /\ search'.pc = "join" /\ search'.waiting = search.waiting
          /\ search'.covered = search.covered
      BY <1>0, <2>3 DEF SearchTyped
    <3>2. QED
      BY <2>1, <3>1, ReadIsFree
  <2>4. QED
    BY <1>1, <2>2, <2>3 DEF ReadLike
<1>2. ASSUME ReadCount
      PROVE  SInv'
  <2>1. search.pc = "join" /\ Reads /\ UNCHANGED aggregation
    BY <1>2 DEF ReadCount, At
  <2>2. /\ search'.pc = "join" /\ search'.waiting \subseteq search.waiting
        /\ search'.covered = search.covered
    BY <1>0, <1>2, <2>1 DEF ReadCount, SearchTyped
  <2>3. QED
    BY <2>1, <2>2, ReadIsFree
<1>3. ASSUME ReadOrderedCoverage
      PROVE  SInv'
  <2> DEFINE found == ~Uncovered("n", r.filter)
  <2>1. search.pc = "join" /\ Reads /\ UNCHANGED aggregation /\ "coverage" \in search.waiting
        /\ search' = [search EXCEPT !.waiting = @ \ {"coverage"}, !.covered = found]
    BY <1>3 DEF ReadOrderedCoverage, At
  <2>2. found = TRUE => ~UnprovedIn(had, r, "n")
    BY <1>0, CoverageProves
  <2>3. Serves(projection, r)
    BY <1>0, <2>1 DEF CoverInv
  <2> HIDE DEF found
  <2>4. /\ search'.pc = "join" /\ search'.waiting = search.waiting \ {"coverage"}
        /\ search'.covered = found
    BY <1>0, <2>1 DEF SearchTyped
  <2>5. CoverInv(search', projection, had, r)
    BY <2>2, <2>3, <2>4 DEF CoverInv
  <2>6. had' = had /\ Request' = r /\ projection' = projection
    BY <2>1 DEF Reads, indexVars, Request
  <2>7. QED
    BY <1>0, <2>1, <2>4, <2>5, <2>6, StepIsFree
<1>4. ASSUME ReadOrdered
      PROVE  SInv'
  <2>1. search.pc = "join" /\ Reads /\ UNCHANGED aggregation
    BY <1>4 DEF ReadOrdered, At
  <2>2. PICK reply : search' = [search EXCEPT !.waiting = @ \ {"ordered"}, !.reply = reply]
    BY <1>4 DEF ReadOrdered
  <2>3. /\ search'.pc = "join" /\ search'.waiting \subseteq search.waiting
        /\ search'.covered = search.covered
    BY <1>0, <2>1, <2>2 DEF SearchTyped
  <2>4. QED
    BY <2>1, <2>3, ReadIsFree
<1>5. ASSUME ReadAggregation
      PROVE  SInv'
  <2>1. search.pc = "join" /\ Reads /\ search' = search /\ Aggregate
    BY <1>5 DEF ReadAggregation, At
  <2>2. PlanInv(aggregation', projection, had, r)
    BY <1>0, <2>1, AggregateKeeps
  <2>3. had' = had /\ Request' = r /\ projection' = projection
    BY <2>1 DEF Reads, indexVars, Request
  <2>4. QED
    BY <1>0, <2>1, <2>2, <2>3, StepIsFree
<1>6. ASSUME Join
      PROVE  SInv'
  <2>1. search.pc = "join" /\ Reads /\ UNCHANGED aggregation
    BY <1>6 DEF Join, At
  <2>2. CASE /\ aggregation.failed \/ (search.covered = TRUE /\ search.reply.refused)
             /\ Answered(Error)
    <3>1. search'.pc = "done"
      BY <2>2 DEF Answered, NoSearch
    <3>2. CASE aggregation.failed
      BY <1>0, <2>1, <3>1, <3>2, PlanParts, FailureIsFree
    <3>3. CASE search.covered = TRUE
      <4>1. Excused(projection, had, r)
        BY <1>0, <2>1, <3>3 DEF CoverInv, Excused, Needed
      <4>2. QED
        BY <2>1, <3>1, <4>1, FailureIsFree
    <3>4. QED
      BY <2>2, <3>2, <3>3
  <2>3. ASSUME NEW ordered, NEW pc, pc # "done", NEW fields, NEW hits,
               search' = [search EXCEPT !.pc = pc, !.ordered = ordered,
                                        !.fields = fields, !.hits = hits]
        PROVE  SInv'
    <3>1. /\ search'.pc = pc /\ search'.waiting = search.waiting
          /\ search'.covered = search.covered
      BY <1>0, <2>3 DEF SearchTyped
    <3>2. QED
      BY <2>1, <2>3, <3>1, ReadIsFree
  <2>4. CASE LET ordered == Ordered(Request)
                 pc == Source(Request, ordered)
             IN  search' = [search EXCEPT
                    !.pc = pc, !.ordered = ordered,
                    !.fields = IF pc = "ranked" THEN DOMAIN Request.text ELSE {},
                    !.hits = IF ordered = None THEN {} ELSE ordered]
    <3>1. \A ordered : Source(Request, ordered) # "done"
      BY DEF Source
    <3>2. PICK ordered, pc, fields, hits :
            /\ pc = Source(Request, ordered)
            /\ search' = [search EXCEPT !.pc = pc, !.ordered = ordered,
                                        !.fields = fields, !.hits = hits]
      BY <2>4
    <3>3. QED
      BY <2>3, <3>1, <3>2
  <2>5. QED
    BY <1>6, <2>2, <2>4 DEF Join
<1>7. QED
  BY <1>1, <1>2, <1>3, <1>4, <1>5, <1>6

LEMMA CollectingReadsAreFree ==
    ASSUME IInv, SInv
    PROVE  /\ \A f \in TextFields : ReadRanked(f) => SInv'
           /\ ReadApproximate => SInv'
           /\ ReadPage => SInv'
           /\ ReadSources => SInv'
           /\ Hydrate => SInv'
<1>0. SearchTyped(search)
  BY DEF IInv
<1>1. ASSUME NEW f \in TextFields, ReadRanked(f)
      PROVE  SInv'
  <2>1. search.pc = "ranked" /\ Reads /\ UNCHANGED aggregation
    BY <1>1 DEF ReadRanked, At
  <2>2. PICK fields, hits : search' = [search EXCEPT !.fields = fields, !.hits = hits]
    BY <1>1 DEF ReadRanked
  <2>3. /\ search'.pc = "ranked" /\ search'.waiting = search.waiting
        /\ search'.covered = search.covered
    BY <1>0, <2>1, <2>2 DEF SearchTyped
  <2>4. QED
    BY <2>1, <2>3, ReadIsFree
<1>2. ASSUME ReadApproximate
      PROVE  SInv'
  <2>1. search.pc = "approximate" /\ Reads /\ UNCHANGED aggregation
    BY <1>2 DEF ReadApproximate, At
  <2>2. PICK hits, next :
            search' = [search EXCEPT !.hits = hits, !.offset = next,
                                     !.pc = IF next = 0 THEN "gathered" ELSE "approximate"]
    BY <1>2 DEF ReadApproximate
  <2>3. /\ search'.pc \in {"gathered", "approximate"}
        /\ search'.waiting = search.waiting /\ search'.covered = search.covered
    BY <1>0, <2>2 DEF SearchTyped
  <2>4. QED
    BY <2>1, <2>3, ReadIsFree
<1>3. ASSUME NEW found, NEW next, search' = Gather(found, next),
             search.pc \notin {"idle", "done"}, Reads, UNCHANGED aggregation
      PROVE  SInv'
  <2>1. PICK hits, scanned, last :
            search' = [search EXCEPT !.hits = hits, !.scanned = scanned, !.offset = next,
                                     !.batch = <<>>,
                                     !.pc = IF last THEN "gathered" ELSE "scroll"]
    BY <1>3 DEF Gather
  <2>2. /\ search'.pc \in {"gathered", "scroll"}
        /\ search'.waiting = search.waiting /\ search'.covered = search.covered
    BY <1>0, <2>1 DEF SearchTyped
  <2>3. QED
    BY <1>3, <2>2, ReadIsFree
<1>4. ASSUME ReadPage
      PROVE  SInv'
  <2>1. search.pc = "scroll" /\ Reads /\ UNCHANGED aggregation
    BY <1>4 DEF ReadPage, At
  <2>2. \/ \E found, next : search' = Gather(found, next)
        \/ \E batch, next :
              search' = [search EXCEPT !.pc = "sources", !.batch = batch, !.offset = next]
    BY <1>4 DEF ReadPage
  <2>3. ASSUME NEW batch, NEW next,
               search' = [search EXCEPT !.pc = "sources", !.batch = batch, !.offset = next]
        PROVE  SInv'
    <3>1. /\ search'.pc = "sources" /\ search'.waiting = search.waiting
          /\ search'.covered = search.covered
      BY <1>0, <2>3 DEF SearchTyped
    <3>2. QED
      BY <2>1, <3>1, ReadIsFree
  <2>4. QED
    BY <1>3, <2>1, <2>2, <2>3
<1>5. ASSUME ReadSources
      PROVE  SInv'
  <2>1. search.pc = "sources" /\ Reads /\ UNCHANGED aggregation
    BY <1>5 DEF ReadSources, At
  <2>2. \E found, next : search' = Gather(found, next)
    BY <1>5 DEF ReadSources
  <2>3. QED
    BY <1>3, <2>1, <2>2
<1>6. ASSUME Hydrate
      PROVE  SInv'
  <2>1. search.pc \in {"gathered", "ranked"} /\ Reads /\ UNCHANGED aggregation
    BY <1>6 DEF Hydrate, Gathered, At
  <2>2. PICK hits : search' = [search EXCEPT !.pc = "finish", !.hits = hits]
    BY <1>6 DEF Hydrate
  <2>3. /\ search'.pc = "finish" /\ search'.waiting = search.waiting
        /\ search'.covered = search.covered
    BY <1>0, <2>2 DEF SearchTyped
  <2>4. QED
    BY <2>1, <2>3, ReadIsFree
<1>7. QED
  BY <1>1, <1>2, <1>4, <1>5, <1>6

LEMMA WritersAreFree ==
    ASSUME IInv, SInv, Interfere
    PROVE  SInv'
<1>1. /\ TypeOK /\ HistoryInv /\ HistoryTyped(had)
      /\ search.pc \notin {"idle", "done"} /\ Writer
      /\ UNCHANGED <<aggregation, queue, search, response>>
      /\ PlanInv(aggregation, projection, had, Request)
      /\ CoverInv(search, projection, had, Request)
  BY DEF IInv, SInv, Interfere, HistoryInv
<1>2. projection' = projection /\ HistoryTyped(had') /\ Grows(had, had')
  BY <1>1, WriterKeeps
<1>3. Request' = Request
  BY <1>1 DEF Request
<1>4. /\ PlanInv(aggregation, projection, had', Request)
      /\ CoverInv(search, projection, had', Request)
  BY <1>1, <1>2, PlanInvGrows, CoverInvGrows
<1>5. QED
  BY <1>1, <1>2, <1>3, <1>4, StepIsFree

LEMMA NextIsFree == IInv /\ SInv /\ [Next]_vars => SInv'
<1> SUFFICES ASSUME IInv, SInv, [Next]_vars PROVE SInv'
  OBVIOUS
<1>1. CASE Start
  BY <1>1, StartIsFree
<1>2. CASE \/ ReadLike \/ ReadCount \/ ReadOrderedCoverage \/ ReadOrdered
           \/ ReadAggregation \/ Join
  BY <1>2, JoinedReadsAreFree
<1>3. CASE \/ \E f \in TextFields : ReadRanked(f)
           \/ ReadApproximate \/ ReadPage \/ ReadSources \/ Hydrate
  BY <1>3, CollectingReadsAreFree
<1>4. CASE Respond
  <2>1. PICK order : Answered(AnswerOf(Request, Remaining(Request), order))
    BY <1>4 DEF Respond
  <2>2. search'.pc = "done"
    BY <2>1 DEF Answered, NoSearch
  <2>3. response'.error = FALSE
    BY <2>1 DEF Answered, AnswerOf
  <2>4. Free(projection', had', Request', response')
    BY <2>3 DEF Free
  <2>5. QED
    BY <2>2, <2>4, StepIsFree
<1>5. CASE Ask
  <2>1. search'.pc = "idle"
    BY <1>5 DEF Ask, NoSearch
  <2>2. QED
    BY <2>1, StepIsFree
<1>6. CASE Interfere
  BY <1>6, WritersAreFree
<1>7. CASE UNCHANGED vars
  <2>1. UNCHANGED <<projection, had, queue, search, response, aggregation>>
    BY <1>7 DEF vars, indexVars
  <2>2. Request' = Request
    BY <2>1 DEF Request
  <2>3. At("done") /\ queue # <<>> => Free(projection, had, Request, response)
    BY FreeIsFree DEF SInv
  <2>4. search'.pc \notin {"idle", "done"} =>
            /\ PlanInv(aggregation', projection', had', Request')
            /\ CoverInv(search', projection', had', Request')
    BY <2>1, <2>2 DEF SInv
  <2>5. search'.pc = "done" /\ queue' # <<>> =>
            Free(projection', had', Request', response')
    BY <2>1, <2>2, <2>3 DEF At
  <2>6. QED
    BY <2>4, <2>5, StepIsFree
<1>8. QED
  BY <1>1, <1>2, <1>3, <1>4, <1>5, <1>6, <1>7 DEF Next, SearchStep, Terminated

LEMMA InitIsFree == Init => SInv
<1>1. Init => search.pc = "idle"
  BY DEF Init, SearchInit, NoSearch
<1>2. QED
  BY <1>1 DEF SInv, SpeculationIsFree, At

(* A search fails only where it has to: not for a count, a facet or an      *)
(* ordered page that Qdrant refuses and the coverage check shows it did not *)
(* need (main.rs: ordered_numeric_hits; aggregations.rs: Plan::execute).    *)
THEOREM RefusalsAreHarmless == Spec => []SpeculationIsFree
<1>1. Init => IInv /\ SInv
  BY InitKnows, InitIsFree
<1>2. IInv /\ SInv /\ [Next]_vars => (IInv /\ SInv)'
  BY NextKnows, NextIsFree
<1>3. SInv => SpeculationIsFree
  BY DEF SInv
<1>4. QED
  BY <1>1, <1>2, <1>3, PTL DEF Spec

----------------------------------------------------------------------------
(* The first elements of a strict order.                                   *)

StrictOn(R, A) ==
    /\ \A a \in A : <<a, a>> \notin R
    /\ \A a, b \in A : a # b => <<a, b>> \in R \/ <<b, a>> \in R
    /\ \A a, b, c \in A : <<a, b>> \in R /\ <<b, c>> \in R => <<a, c>> \in R

Before(R, A, x) == {a \in A : <<a, x>> \in R}

FirstOf(R, A, n) == {x \in A : Cardinality(Before(R, A, x)) < n}

\* Elements are numbered from 0 by how many are before them.
LEMMA OrdersNumber ==
    ASSUME NEW A, IsFiniteSet(A), NEW R, StrictOn(R, A)
    PROVE  /\ Cardinality(A) \in Nat
           /\ \A x \in A : Cardinality(Before(R, A, x)) \in 0..(Cardinality(A) - 1)
           /\ \A x, y \in A : <<x, y>> \in R <=>
                    Cardinality(Before(R, A, x)) < Cardinality(Before(R, A, y))
           /\ \A k \in 0..(Cardinality(A) - 1) :
                    \E x \in A : Cardinality(Before(R, A, x)) = k
<1> DEFINE n == Cardinality(A)
           below(x) == Before(R, A, x)
           rank(x) == Cardinality(below(x))
<1>1. n \in Nat
  BY FS_CardinalityType
<1>2. ASSUME NEW x \in A
      PROVE  IsFiniteSet(below(x)) /\ rank(x) \in Nat /\ rank(x) < n
  <2>1. below(x) \in SUBSET A /\ x \notin below(x)
    BY DEF StrictOn, Before
  <2>2. /\ IsFiniteSet(below(x)) /\ rank(x) <= n
        /\ n = rank(x) => A = below(x)
    BY <2>1, FS_Subset
  <2>3. rank(x) # n
    BY <2>1, <2>2
  <2>4. rank(x) \in Nat
    BY <2>2, FS_CardinalityType
  <2>5. QED
    BY <1>1, <2>2, <2>3, <2>4
<1>3. ASSUME NEW x \in A, NEW y \in A, <<x, y>> \in R
      PROVE  rank(x) < rank(y)
  <2>1. below(x) \in SUBSET below(y) /\ x \in below(y) /\ x \notin below(x)
    BY <1>3 DEF StrictOn, Before
  <2>2. IsFiniteSet(below(y)) /\ rank(x) \in Nat /\ rank(y) \in Nat
    BY <1>2
  <2>3. rank(x) <= rank(y) /\ (rank(y) = rank(x) => below(y) = below(x))
    BY <2>1, <2>2, FS_Subset
  <2>4. rank(x) # rank(y)
    BY <2>1, <2>3
  <2>5. QED
    BY <2>2, <2>3, <2>4
<1>4. \A x \in A : rank(x) \in 0..(n - 1)
  <2> HIDE DEF n, rank
  <2>1. QED
    BY <1>1, <1>2
<1>5. \A x, y \in A : <<x, y>> \in R <=> rank(x) < rank(y)
  <2> SUFFICES ASSUME NEW x \in A, NEW y \in A
               PROVE  <<x, y>> \in R <=> rank(x) < rank(y)
    OBVIOUS
  <2>1. rank(x) \in Nat /\ rank(y) \in Nat
    BY <1>2
  <2>2. x = y \/ <<x, y>> \in R \/ <<y, x>> \in R
    BY DEF StrictOn
  <2>3. x = y => <<x, y>> \notin R
    BY DEF StrictOn
  <2>4. /\ <<x, y>> \in R => rank(x) < rank(y)
        /\ <<y, x>> \in R => rank(y) < rank(x)
    BY <1>3
  <2>5. x = y => rank(x) = rank(y)
    OBVIOUS
  <2> HIDE DEF rank
  <2>6. QED
    BY <2>1, <2>2, <2>3, <2>4, <2>5
<1>6. \A k \in 0..(n - 1) : \E x \in A : rank(x) = k
  <2> DEFINE f == [x \in A |-> rank(x)]
  <2>1. IsFiniteSet(0..(n - 1)) /\ Cardinality(0..(n - 1)) = n
    BY <1>1, FS_Interval
  <2>2. \A x, y \in A : rank(x) = rank(y) => x = y
    <3>1. \A x, y \in A : x = y \/ <<x, y>> \in R \/ <<y, x>> \in R
      BY DEF StrictOn
    <3>2. \A x \in A : rank(x) \in Nat
      BY <1>2
    <3>3. \A x, y \in A : <<x, y>> \in R => rank(x) < rank(y)
      BY <1>3
    <3> HIDE DEF rank
    <3>4. \A x, y \in A : <<x, y>> \in R => rank(x) # rank(y)
      BY <3>2, <3>3
    <3>5. QED
      BY <3>1, <3>4
  <2>4. f \in [A -> 0..(n - 1)]
    BY <1>4
  <2>5. f \in Injection(A, 0..(n - 1))
    BY <2>2, <2>4 DEF Injection, IsInjective
  <2>6. f \in Surjection(A, 0..(n - 1))
    BY <2>1, <2>5, FS_Injection
  <2>7. QED
    BY <2>6 DEF Surjection
<1>7. QED
  BY <1>1, <1>4, <1>5, <1>6

\* The first n are n unless there are fewer, and precede all others.
LEMMA FirstsPrecede ==
    ASSUME NEW A, IsFiniteSet(A), NEW R, StrictOn(R, A), NEW n \in Nat
    PROVE  /\ IsFiniteSet(FirstOf(R, A, n)) /\ Cardinality(FirstOf(R, A, n)) \in Nat
           /\ Cardinality(FirstOf(R, A, n)) <= n
           /\ Cardinality(A) \in Nat
           /\ Cardinality(A) <= n => FirstOf(R, A, n) = A
           /\ Cardinality(A) >= n => Cardinality(FirstOf(R, A, n)) = n
           /\ \A x \in A \ FirstOf(R, A, n) : \A g \in FirstOf(R, A, n) : <<g, x>> \in R
<1> DEFINE m == Cardinality(A)
           rank(x) == Cardinality(Before(R, A, x))
           F == FirstOf(R, A, n)
           k == IF m <= n THEN m ELSE n
           f == [x \in F |-> rank(x)]
<1>1. m \in Nat
  BY FS_CardinalityType
<1>2. \A x \in A : rank(x) \in 0..(m - 1)
  BY OrdersNumber
<1>3. \A x, y \in A : <<x, y>> \in R <=> rank(x) < rank(y)
  BY OrdersNumber
<1>4. \A j \in 0..(m - 1) : \E x \in A : rank(x) = j
  BY OrdersNumber
<1>5. \A x, y \in A : x = y \/ <<x, y>> \in R \/ <<y, x>> \in R
  BY DEF StrictOn
<1>6. F = {x \in A : rank(x) < n}
  BY DEF FirstOf
<1> HIDE DEF m, rank, F
<1>7. \A x, y \in A : rank(x) = rank(y) => x = y
  <2>1. \A x \in A : rank(x) \in Int
    BY <1>2
  <2>2. \A x, y \in A : <<x, y>> \in R => rank(x) # rank(y)
    BY <1>3, <2>1
  <2>3. QED
    BY <1>5, <2>2
<1>8. IsFiniteSet(F)
  <2>1. F \in SUBSET A
    BY <1>6
  <2>2. QED
    BY <2>1, FS_Subset
<1>9. \A x \in F : rank(x) \in 0..(k - 1)
  BY <1>1, <1>2, <1>6
<1>10. \A j \in 0..(k - 1) : \E x \in F : rank(x) = j
  BY <1>1, <1>4, <1>6
<1>11. Cardinality(F) = k
  <2>1. f \in [F -> 0..(k - 1)]
    BY <1>9
  <2>2. f \in Injection(F, 0..(k - 1))
    BY <1>6, <1>7, <2>1 DEF Injection, IsInjective
  <2>3. f \in Surjection(F, 0..(k - 1))
    BY <1>10, <2>1 DEF Surjection
  <2>4. f \in Bijection(F, 0..(k - 1))
    BY <2>2, <2>3 DEF Bijection
  <2>5. Cardinality(0..(k - 1)) = Cardinality(F)
    BY <1>8, <2>4, FS_Bijection DEF ExistsBijection
  <2>6. k \in Nat
    BY <1>1
  <2>7. Cardinality(0..(k - 1)) = k
    <3> HIDE DEF k
    <3>1. k - 1 - 0 + 1 = k /\ 0 \in Int /\ k - 1 \in Int
      BY <2>6
    <3>2. QED
      BY <2>6, <3>1, FS_Interval
  <2>8. QED
    BY <2>5, <2>7
<1>12. m <= n => F = A
  <2>1. \A x \in A : m <= n => rank(x) < n
    BY <1>1, <1>2
  <2>2. QED
    BY <1>6, <2>1
<1>13. \A x \in A \ F : \A g \in F : <<g, x>> \in R
  <2> SUFFICES ASSUME NEW x \in A \ F, NEW g \in F PROVE <<g, x>> \in R
    OBVIOUS
  <2>1. rank(g) < n /\ ~(rank(x) < n) /\ rank(g) \in Nat /\ rank(x) \in Nat
    BY <1>1, <1>2, <1>6
  <2>2. rank(g) < rank(x)
    BY <2>1
  <2>3. QED
    BY <1>3, <1>6, <2>2
<1>14. /\ Cardinality(F) \in Nat /\ Cardinality(F) <= n
       /\ m >= n => Cardinality(F) = n
  BY <1>1, <1>11
<1>15. QED
  BY <1>1, <1>8, <1>12, <1>13, <1>14 DEF m, F

\* A set of numbers has a least one.
LEMMA LeastNumber ==
    ASSUME NEW A \in SUBSET Nat, IsFiniteSet(A), A # {}
    PROVE  \E x \in A : \A y \in A : x <= y
<1> DEFINE R == {p \in A \X A : p[1] < p[2]}
<1>1. \A a, b \in A : <<a, b>> \in R <=> a < b
  OBVIOUS
<1>2. StrictOn(R, A)
  <2> HIDE DEF R
  <2>1. QED
    BY <1>1 DEF StrictOn
<1> HIDE DEF R
<1>3. Cardinality(A) \in Nat /\ Cardinality(A) # 0
  BY FS_CardinalityType, FS_EmptySet
<1>4. 0 \in 0..(Cardinality(A) - 1)
  BY <1>3
<1>5. PICK x \in A : Cardinality(Before(R, A, x)) = 0
  BY <1>2, <1>4, OrdersNumber
<1>6. IsFiniteSet(Before(R, A, x))
  <2>1. Before(R, A, x) \in SUBSET A
    BY DEF Before
  <2>2. QED
    BY <2>1, FS_Subset
<1>7. Before(R, A, x) = {}
  BY <1>5, <1>6, FS_EmptySet
<1>8. \A y \in A : ~(y < x)
  BY <1>1, <1>7 DEF Before
<1>9. QED
  BY <1>8

----------------------------------------------------------------------------
(* Values, sort keys and hits are ordered.                                 *)

Orderly(u, v, w) ==
    \A a, b, c \in {u, v, w} :
        ValueCmp(a, b) <= 0 /\ ValueCmp(b, c) <= 0 => ValueCmp(a, c) <= 0

\* Each way of comparing tells the other.
Opposite(m, n) ==
    /\ m \in Int /\ n \in Int
    /\ (m < 0 <=> n > 0) /\ (m = 0 <=> n = 0) /\ (m > 0 <=> n < 0)

LEMMA ValuesCompare ==
    ASSUME NEW u \in Value, NEW v \in Value
    PROVE  Opposite(ValueCmp(u, v), ValueCmp(v, u)) /\ ValueCmp(u, u) = 0
<1>1. /\ u.number \in Int /\ v.number \in Int /\ u.text \in Int /\ v.text \in Int
  BY DEF Value
<1>2. \A n \in Int : /\ Sign(n) \in Int
                     /\ n < 0 <=> Sign(n) < 0
                     /\ n > 0 <=> Sign(n) > 0
                     /\ n = 0 <=> Sign(n) = 0
  BY DEF Sign
<1>3. ASSUME NEW m \in Int, NEW n \in Int
      PROVE  Opposite(Sign(m - n), Sign(n - m)) /\ Sign(m - m) = 0
  <2>1. /\ m - n \in Int /\ n - m \in Int /\ m - m = 0
        /\ m - n < 0 <=> n - m > 0
        /\ m - n > 0 <=> n - m < 0
        /\ m - n = 0 <=> n - m = 0
    OBVIOUS
  <2>2. QED
    BY <1>2, <2>1 DEF Opposite
<1>4. QED
  BY <1>1, <1>3 DEF ValueCmp

\* Equal values compare alike.
LEMMA EqualValues ==
    ASSUME NEW u \in Value, NEW v \in Value, NEW w \in Value, Orderly(u, v, w),
           ValueCmp(u, v) = 0
    PROVE  /\ ValueCmp(u, w) < 0 <=> ValueCmp(v, w) < 0
           /\ ValueCmp(u, w) = 0 <=> ValueCmp(v, w) = 0
           /\ ValueCmp(u, w) > 0 <=> ValueCmp(v, w) > 0
<1>1. /\ Opposite(ValueCmp(u, v), ValueCmp(v, u))
      /\ Opposite(ValueCmp(u, w), ValueCmp(w, u))
      /\ Opposite(ValueCmp(v, w), ValueCmp(w, v))
  BY ValuesCompare
<1>2. ValueCmp(u, v) <= 0 /\ ValueCmp(v, u) <= 0
  BY <1>1 DEF Opposite
<1>3. /\ ValueCmp(u, w) <= 0 => ValueCmp(v, w) <= 0
      /\ ValueCmp(v, w) <= 0 => ValueCmp(u, w) <= 0
      /\ ValueCmp(w, u) <= 0 => ValueCmp(w, v) <= 0
      /\ ValueCmp(w, v) <= 0 => ValueCmp(w, u) <= 0
  BY <1>2 DEF Orderly
<1>4. QED
  BY <1>1, <1>3 DEF Opposite

Keyed(x, sort) == \A i \in DOMAIN sort : x[i] \in Value

\* The first clause that tells two keys apart decides.
LEMMA FirstClauseDecides ==
    ASSUME NEW S, NEW sort \in Seq(S), NEW x, NEW y, NEW k \in DOMAIN sort,
           \A j \in DOMAIN sort : j < k => ValueCmp(x[j], y[j]) = 0,
           ValueCmp(x[k], y[k]) # 0, ValueCmp(x[k], y[k]) \in Int
    PROVE  /\ KeyCmp(x, y, sort) \in Int /\ KeyCmp(x, y, sort) # 0
           /\ KeyCmp(x, y, sort) < 0 <=>
                IF Descends(sort[k]) THEN ValueCmp(x[k], y[k]) > 0
                ELSE ValueCmp(x[k], y[k]) < 0
<1> DEFINE differ == {i \in DOMAIN sort : ValueCmp(x[i], y[i]) # 0}
           first == CHOOSE i \in differ : \A j \in differ : i <= j
<1>1. DOMAIN sort \subseteq Nat
  OBVIOUS
<1>2. k \in differ /\ \A j \in differ : k <= j
  BY <1>1
<1>3. \A i \in differ : (\A j \in differ : i <= j) => i = k
  BY <1>1, <1>2
<1>4. first = k
  <2> HIDE DEF differ
  <2>1. QED
    BY <1>2, <1>3
<1>5. differ # {}
  BY <1>2
<1>6. KeyCmp(x, y, sort) = IF differ = {} THEN 0
          ELSE IF Descends(sort[first]) THEN -ValueCmp(x[first], y[first])
               ELSE ValueCmp(x[first], y[first])
  BY DEF KeyCmp
<1> HIDE DEF differ, first
<1>7. KeyCmp(x, y, sort) = IF Descends(sort[k]) THEN -ValueCmp(x[k], y[k])
                           ELSE ValueCmp(x[k], y[k])
  BY <1>4, <1>5, <1>6
<1>8. \A n \in Int : -n \in Int /\ (-n < 0 <=> n > 0) /\ (n # 0 => -n # 0)
  OBVIOUS
<1>9. QED
  BY <1>7, <1>8

LEMMA EqualKeys ==
    ASSUME NEW S, NEW sort \in Seq(S), NEW x, NEW y,
           \A j \in DOMAIN sort : ValueCmp(x[j], y[j]) = 0
    PROVE  KeyCmp(x, y, sort) = 0
BY DEF KeyCmp

LEMMA KeysDiffer ==
    ASSUME NEW S, NEW sort \in Seq(S), NEW x, NEW y
    PROVE  \/ \A j \in DOMAIN sort : ValueCmp(x[j], y[j]) = 0
           \/ \E k \in DOMAIN sort :
                /\ \A j \in DOMAIN sort : j < k => ValueCmp(x[j], y[j]) = 0
                /\ ValueCmp(x[k], y[k]) # 0
<1> DEFINE differ == {i \in DOMAIN sort : ValueCmp(x[i], y[i]) # 0}
<1>1. CASE differ = {}
  BY <1>1
<1>2. CASE differ # {}
  <2>1. differ \in SUBSET Nat /\ DOMAIN sort = 1..Len(sort) /\ Len(sort) \in Nat
    OBVIOUS
  <2>2. IsFiniteSet(1..Len(sort)) /\ differ \in SUBSET (1..Len(sort))
    BY <2>1, FS_Interval
  <2>3. IsFiniteSet(differ)
    BY <2>2, FS_Subset
  <2>4. PICK k \in differ : \A j \in differ : k <= j
    <3> HIDE DEF differ
    <3>1. QED
      BY <1>2, <2>1, <2>3, LeastNumber
  <2>5. \A j \in DOMAIN sort : j < k => ValueCmp(x[j], y[j]) = 0
    BY <2>1, <2>4
  <2>6. QED
    BY <2>4, <2>5
<1>3. QED
  BY <1>1, <1>2

LEMMA KeysCompare ==
    ASSUME NEW S, NEW sort \in Seq(S), NEW x, NEW y, Keyed(x, sort), Keyed(y, sort)
    PROVE  Opposite(KeyCmp(x, y, sort), KeyCmp(y, x, sort))
<1>1. \A j \in DOMAIN sort : Opposite(ValueCmp(x[j], y[j]), ValueCmp(y[j], x[j]))
  BY ValuesCompare DEF Keyed
<1>2. CASE \A j \in DOMAIN sort : ValueCmp(x[j], y[j]) = 0
  <2>1. \A j \in DOMAIN sort : ValueCmp(y[j], x[j]) = 0
    BY <1>1, <1>2 DEF Opposite
  <2>2. KeyCmp(x, y, sort) = 0 /\ KeyCmp(y, x, sort) = 0
    BY <1>2, <2>1, EqualKeys
  <2>3. QED
    BY <2>2 DEF Opposite
<1>3. CASE \E k \in DOMAIN sort :
             /\ \A j \in DOMAIN sort : j < k => ValueCmp(x[j], y[j]) = 0
             /\ ValueCmp(x[k], y[k]) # 0
  <2>1. PICK k \in DOMAIN sort :
             /\ \A j \in DOMAIN sort : j < k => ValueCmp(x[j], y[j]) = 0
             /\ ValueCmp(x[k], y[k]) # 0
    BY <1>3
  <2>2. Opposite(ValueCmp(x[k], y[k]), ValueCmp(y[k], x[k]))
    BY <1>1
  <2>3. /\ \A j \in DOMAIN sort : j < k => ValueCmp(y[j], x[j]) = 0
        /\ ValueCmp(y[k], x[k]) # 0
        /\ ValueCmp(x[k], y[k]) \in Int /\ ValueCmp(y[k], x[k]) \in Int
    BY <1>1, <2>1, <2>2 DEF Opposite
  <2>4. /\ KeyCmp(x, y, sort) \in Int /\ KeyCmp(x, y, sort) # 0
        /\ KeyCmp(x, y, sort) < 0 <=>
                IF Descends(sort[k]) THEN ValueCmp(x[k], y[k]) > 0
                ELSE ValueCmp(x[k], y[k]) < 0
    BY <2>1, <2>3, FirstClauseDecides
  <2>5. /\ KeyCmp(y, x, sort) \in Int /\ KeyCmp(y, x, sort) # 0
        /\ KeyCmp(y, x, sort) < 0 <=>
                IF Descends(sort[k]) THEN ValueCmp(y[k], x[k]) > 0
                ELSE ValueCmp(y[k], x[k]) < 0
    BY <2>3, FirstClauseDecides
  <2>6. KeyCmp(x, y, sort) < 0 <=> ~(KeyCmp(y, x, sort) < 0)
    BY <2>1, <2>2, <2>3, <2>4, <2>5 DEF Opposite
  <2>7. QED
    BY <2>4, <2>5, <2>6 DEF Opposite
<1>4. QED
  BY <1>2, <1>3, KeysDiffer

OrderlyKeys(x, y, z, sort) ==
    /\ Keyed(x, sort) /\ Keyed(y, sort) /\ Keyed(z, sort)
    /\ \A i \in DOMAIN sort : Orderly(x[i], y[i], z[i])

\* Up to a clause the keys are equal, at it they are in order and not equal.
Below(x, y, sort, k) ==
    /\ k \in DOMAIN sort
    /\ \A j \in DOMAIN sort : j < k => ValueCmp(x[j], y[j]) = 0
    /\ IF Descends(sort[k]) THEN ValueCmp(x[k], y[k]) > 0 ELSE ValueCmp(x[k], y[k]) < 0

LEMMA BelowIsLess ==
    ASSUME NEW S, NEW sort \in Seq(S), NEW x, NEW y, Keyed(x, sort), Keyed(y, sort)
    PROVE  KeyCmp(x, y, sort) < 0 <=> \E k \in DOMAIN sort : Below(x, y, sort, k)
<1>1. \A j \in DOMAIN sort : ValueCmp(x[j], y[j]) \in Int
  BY ValuesCompare DEF Keyed, Opposite
<1>2. ASSUME NEW k \in DOMAIN sort, Below(x, y, sort, k)
      PROVE  KeyCmp(x, y, sort) < 0
  <2>1. /\ \A j \in DOMAIN sort : j < k => ValueCmp(x[j], y[j]) = 0
        /\ ValueCmp(x[k], y[k]) # 0 /\ ValueCmp(x[k], y[k]) \in Int
    BY <1>1, <1>2 DEF Below
  <2>2. KeyCmp(x, y, sort) < 0 <=>
            IF Descends(sort[k]) THEN ValueCmp(x[k], y[k]) > 0 ELSE ValueCmp(x[k], y[k]) < 0
    BY <2>1, FirstClauseDecides
  <2>3. QED
    BY <1>2, <2>2 DEF Below
<1>3. ASSUME KeyCmp(x, y, sort) < 0
      PROVE  \E k \in DOMAIN sort : Below(x, y, sort, k)
  <2>1. ~ \A j \in DOMAIN sort : ValueCmp(x[j], y[j]) = 0
    BY <1>3, EqualKeys
  <2>2. PICK k \in DOMAIN sort :
             /\ \A j \in DOMAIN sort : j < k => ValueCmp(x[j], y[j]) = 0
             /\ ValueCmp(x[k], y[k]) # 0
    BY <2>1, KeysDiffer
  <2>3. KeyCmp(x, y, sort) < 0 <=>
            IF Descends(sort[k]) THEN ValueCmp(x[k], y[k]) > 0 ELSE ValueCmp(x[k], y[k]) < 0
    BY <1>1, <2>2, FirstClauseDecides
  <2>4. QED
    BY <1>3, <2>2, <2>3 DEF Below
<1>4. QED
  BY <1>2, <1>3

LEMMA KeysOrder ==
    ASSUME NEW S, NEW sort \in Seq(S), NEW x, NEW y, NEW z, OrderlyKeys(x, y, z, sort),
           KeyCmp(x, y, sort) <= 0, KeyCmp(y, z, sort) <= 0
    PROVE  /\ KeyCmp(x, z, sort) <= 0
           /\ KeyCmp(x, y, sort) < 0 \/ KeyCmp(y, z, sort) < 0 => KeyCmp(x, z, sort) < 0
<1>1. DOMAIN sort \subseteq Nat
  OBVIOUS
<1>2. \A j \in DOMAIN sort :
        /\ x[j] \in Value /\ y[j] \in Value /\ z[j] \in Value
        /\ Orderly(x[j], y[j], z[j]) /\ Orderly(y[j], z[j], x[j])
  BY DEF OrderlyKeys, Keyed, Orderly
<1>3. ASSUME NEW j \in DOMAIN sort
      PROVE  /\ ValueCmp(x[j], y[j]) = 0 =>
                    /\ ValueCmp(x[j], z[j]) < 0 <=> ValueCmp(y[j], z[j]) < 0
                    /\ ValueCmp(x[j], z[j]) = 0 <=> ValueCmp(y[j], z[j]) = 0
                    /\ ValueCmp(x[j], z[j]) > 0 <=> ValueCmp(y[j], z[j]) > 0
             /\ ValueCmp(y[j], z[j]) = 0 =>
                    /\ ValueCmp(x[j], z[j]) < 0 <=> ValueCmp(x[j], y[j]) < 0
                    /\ ValueCmp(x[j], z[j]) = 0 <=> ValueCmp(x[j], y[j]) = 0
                    /\ ValueCmp(x[j], z[j]) > 0 <=> ValueCmp(x[j], y[j]) > 0
             /\ ValueCmp(x[j], y[j]) < 0 /\ ValueCmp(y[j], z[j]) < 0 => ValueCmp(x[j], z[j]) < 0
             /\ ValueCmp(x[j], y[j]) > 0 /\ ValueCmp(y[j], z[j]) > 0 => ValueCmp(x[j], z[j]) > 0
  <2>1. /\ x[j] \in Value /\ y[j] \in Value /\ z[j] \in Value
        /\ Orderly(x[j], y[j], z[j]) /\ Orderly(y[j], z[j], x[j])
    BY <1>2
  <2>2. ValueCmp(x[j], y[j]) = 0 =>
            /\ ValueCmp(x[j], z[j]) < 0 <=> ValueCmp(y[j], z[j]) < 0
            /\ ValueCmp(x[j], z[j]) = 0 <=> ValueCmp(y[j], z[j]) = 0
            /\ ValueCmp(x[j], z[j]) > 0 <=> ValueCmp(y[j], z[j]) > 0
    BY <2>1, EqualValues
  <2>3. ValueCmp(y[j], z[j]) = 0 =>
            /\ ValueCmp(y[j], x[j]) < 0 <=> ValueCmp(z[j], x[j]) < 0
            /\ ValueCmp(y[j], x[j]) = 0 <=> ValueCmp(z[j], x[j]) = 0
            /\ ValueCmp(y[j], x[j]) > 0 <=> ValueCmp(z[j], x[j]) > 0
    BY <2>1, EqualValues
  <2>4. /\ Opposite(ValueCmp(x[j], y[j]), ValueCmp(y[j], x[j]))
        /\ Opposite(ValueCmp(x[j], z[j]), ValueCmp(z[j], x[j]))
        /\ Opposite(ValueCmp(y[j], z[j]), ValueCmp(z[j], y[j]))
    BY <2>1, ValuesCompare
  <2>5. /\ ValueCmp(z[j], x[j]) <= 0 /\ ValueCmp(x[j], y[j]) <= 0 => ValueCmp(z[j], y[j]) <= 0
        /\ ValueCmp(x[j], z[j]) <= 0 /\ ValueCmp(z[j], y[j]) <= 0 => ValueCmp(x[j], y[j]) <= 0
    BY <2>1 DEF Orderly
  <2>6. ValueCmp(y[j], z[j]) = 0 =>
            /\ ValueCmp(x[j], z[j]) < 0 <=> ValueCmp(x[j], y[j]) < 0
            /\ ValueCmp(x[j], z[j]) = 0 <=> ValueCmp(x[j], y[j]) = 0
            /\ ValueCmp(x[j], z[j]) > 0 <=> ValueCmp(x[j], y[j]) > 0
    BY <2>3, <2>4 DEF Opposite
  <2>7. ValueCmp(x[j], y[j]) < 0 /\ ValueCmp(y[j], z[j]) < 0 => ValueCmp(x[j], z[j]) < 0
    BY <2>4, <2>5 DEF Opposite
  <2>8. ValueCmp(x[j], y[j]) > 0 /\ ValueCmp(y[j], z[j]) > 0 => ValueCmp(x[j], z[j]) > 0
    BY <2>4, <2>5 DEF Opposite
  <2>9. QED
    BY <2>2, <2>6, <2>7, <2>8
<1>4. /\ Keyed(x, sort) /\ Keyed(y, sort) /\ Keyed(z, sort)
      /\ KeyCmp(x, y, sort) \in Int /\ KeyCmp(y, z, sort) \in Int
      /\ KeyCmp(x, z, sort) \in Int
  <2>1. Keyed(x, sort) /\ Keyed(y, sort) /\ Keyed(z, sort)
    BY DEF OrderlyKeys
  <2>2. QED
    BY <2>1, KeysCompare DEF Opposite
<1>5. ASSUME NEW a, NEW b, Keyed(a, sort), Keyed(b, sort), KeyCmp(a, b, sort) = 0
      PROVE  \A j \in DOMAIN sort : ValueCmp(a[j], b[j]) = 0
  <2>1. \A j \in DOMAIN sort : ValueCmp(a[j], b[j]) \in Int
    BY <1>5, ValuesCompare DEF Keyed, Opposite
  <2>2. ASSUME NEW k \in DOMAIN sort,
               \A j \in DOMAIN sort : j < k => ValueCmp(a[j], b[j]) = 0,
               ValueCmp(a[k], b[k]) # 0
        PROVE  FALSE
    <3>1. KeyCmp(a, b, sort) # 0
      BY <2>1, <2>2, FirstClauseDecides
    <3>2. QED
      BY <1>5, <3>1
  <2>3. QED
    BY <2>2, KeysDiffer
<1>6. CASE KeyCmp(x, y, sort) = 0 /\ KeyCmp(y, z, sort) = 0
  <2>1. \A j \in DOMAIN sort : ValueCmp(x[j], y[j]) = 0 /\ ValueCmp(y[j], z[j]) = 0
    BY <1>4, <1>5, <1>6
  <2>2. \A j \in DOMAIN sort : ValueCmp(x[j], z[j]) = 0
    BY <1>3, <2>1
  <2>3. KeyCmp(x, z, sort) = 0
    BY <2>2, EqualKeys
  <2>4. QED
    BY <1>6, <2>3
<1>7. CASE KeyCmp(x, y, sort) = 0 /\ KeyCmp(y, z, sort) < 0
  <2>1. \A j \in DOMAIN sort : ValueCmp(x[j], y[j]) = 0
    BY <1>4, <1>5, <1>7
  <2>2. PICK k \in DOMAIN sort : Below(y, z, sort, k)
    BY <1>4, <1>7, BelowIsLess
  <2>3. Below(x, z, sort, k)
    BY <1>3, <2>1, <2>2 DEF Below
  <2>4. KeyCmp(x, z, sort) < 0
    BY <1>4, <2>3, BelowIsLess
  <2>5. QED
    BY <1>4, <2>4
<1>8. CASE KeyCmp(x, y, sort) < 0 /\ KeyCmp(y, z, sort) = 0
  <2>1. \A j \in DOMAIN sort : ValueCmp(y[j], z[j]) = 0
    BY <1>4, <1>5, <1>8
  <2>2. PICK k \in DOMAIN sort : Below(x, y, sort, k)
    BY <1>4, <1>8, BelowIsLess
  <2>3. Below(x, z, sort, k)
    BY <1>3, <2>1, <2>2 DEF Below
  <2>4. KeyCmp(x, z, sort) < 0
    BY <1>4, <2>3, BelowIsLess
  <2>5. QED
    BY <1>4, <2>4
<1>9. CASE KeyCmp(x, y, sort) < 0 /\ KeyCmp(y, z, sort) < 0
  <2>1. PICK k \in DOMAIN sort : Below(x, y, sort, k)
    BY <1>4, <1>9, BelowIsLess
  <2>2. PICK l \in DOMAIN sort : Below(y, z, sort, l)
    BY <1>4, <1>9, BelowIsLess
  <2>3. k \in Nat /\ l \in Nat
    BY <1>1
  <2>4. CASE k < l
    <3>1. ValueCmp(y[k], z[k]) = 0 /\ \A j \in DOMAIN sort : j < k => ValueCmp(y[j], z[j]) = 0
      BY <1>1, <2>2, <2>3, <2>4 DEF Below
    <3>2. Below(x, z, sort, k)
      BY <1>3, <2>1, <3>1 DEF Below
    <3>3. QED
      BY <1>4, <3>2, BelowIsLess
  <2>5. CASE l < k
    <3>1. ValueCmp(x[l], y[l]) = 0 /\ \A j \in DOMAIN sort : j < l => ValueCmp(x[j], y[j]) = 0
      BY <1>1, <2>1, <2>3, <2>5 DEF Below
    <3>2. Below(x, z, sort, l)
      BY <1>3, <2>2, <3>1 DEF Below
    <3>3. QED
      BY <1>4, <3>2, BelowIsLess
  <2>6. CASE k = l
    <3>1. \A j \in DOMAIN sort : j < k => ValueCmp(x[j], z[j]) = 0
      BY <1>3, <2>1, <2>2, <2>6 DEF Below
    <3>2. Below(x, z, sort, k)
      BY <1>3, <2>1, <2>2, <2>6, <3>1 DEF Below
    <3>3. QED
      BY <1>4, <3>2, BelowIsLess
  <2>7. k < l \/ l < k \/ k = l
    BY <2>3
  <2>8. QED
    BY <2>4, <2>5, <2>6, <2>7
<1>10. QED
  BY <1>4, <1>6, <1>7, <1>8, <1>9

\* Hits a search finds without a score.
PlainHits == [id: Docs, field: {0}, score: {0}, source: Contents]

Clauses == [field: {"_id", "_score", "n"}, order: {"asc", "desc", None, Malformed}]

CursorTyped(c, sort) ==
    c # None => \A i \in DOMAIN sort :
                    c[i] \in IF sort[i].field = "n" THEN Values ELSE Value

LEMMA PlainHitsAreHits ==
    /\ PlainHits \subseteq HitSet
    /\ \A h \in PlainHits : h = Hit(h.id, 0, h.source) /\ h.source # None
    /\ \A d \in Docs, c \in Contents : Hit(d, 0, c) \in PlainHits
<1>1. None \notin Contents
  BY IndexAssumption
<1>2. QED
  BY <1>1 DEF PlainHits, HitSet, Hit

LEMMA SortValues ==
    ASSUME NEW h \in PlainHits
    PROVE  /\ SortValue(h, "_id") = Text(h.id) /\ SortValue(h, "_id") \in Value
           /\ SortValue(h, "_score") = [kind |-> "number", number |-> 0, text |-> 0]
           /\ SortValue(h, "_score") \in Value
           /\ SortValue(h, "n") = h.source.n /\ SortValue(h, "n") \in Values
           /\ SortValue(h, "n") \in Value
<1>1. /\ h.id \in Nat /\ h.score = 0 /\ h.source \in Contents /\ h.source # None
  BY PlainHitsAreHits, PositionsAreDocs DEF PlainHits
<1>2. h.source.n \in Values /\ Values \subseteq Value
  BY <1>1, IndexAssumption DEF Content
<1>3. Text(h.id) \in Value /\ [kind |-> "number", number |-> 0, text |-> 0] \in Value
  BY <1>1 DEF Text, Value, Kinds
<1>4. QED
  BY <1>1, <1>2, <1>3 DEF SortValue

LEMMA HitKeys ==
    ASSUME NEW sort \in Seq(Clauses), NEW h \in PlainHits
    PROVE  /\ Keyed(Key(h, sort), sort)
           /\ \A i \in DOMAIN sort :
                /\ sort[i].field \in {"_id", "_score", "n"}
                /\ Key(h, sort)[i] = SortValue(h, sort[i].field)
                /\ Key(h, sort)[i] \in Value
                /\ sort[i].field = "n" => Key(h, sort)[i] \in Values
<1>1. \A i \in DOMAIN sort : sort[i].field \in {"_id", "_score", "n"}
  <2>1. \A i \in DOMAIN sort : sort[i] \in Clauses
    OBVIOUS
  <2>2. \A c \in Clauses : c.field \in {"_id", "_score", "n"}
    BY DEF Clauses
  <2>3. QED
    BY <2>1, <2>2
<1>2. \A i \in DOMAIN sort : Key(h, sort)[i] = SortValue(h, sort[i].field)
  BY DEF Key
<1>3. ASSUME NEW i \in DOMAIN sort
      PROVE  SortValue(h, sort[i].field) \in Value
             /\ (sort[i].field = "n" => SortValue(h, sort[i].field) \in Values)
  BY <1>1, SortValues
<1>4. QED
  BY <1>1, <1>2, <1>3 DEF Keyed

\* Texts compare by their rank, whatever they are compared with.
LEMMA TextsAreOrderly ==
    ASSUME NEW u \in Value, NEW v \in Value, NEW w \in Value, ~Number(u), ~Number(v)
    PROVE  Orderly(u, v, w)
<1>1. \A a \in {u, v, w} : a.text \in Int
  BY DEF Value
<1>2. \A n \in Int : Sign(n) <= 0 <=> n <= 0
  BY DEF Sign
<1>3. ASSUME NEW a \in {u, v, w}, NEW b \in {u, v, w}
      PROVE  ValueCmp(a, b) <= 0 <=> a.text <= b.text
  <2>1. CASE Number(a) /\ Number(b)
    <3>1. a = w /\ b = w
      BY <2>1
    <3>2. ValueCmp(a, b) = 0
      BY <3>1, ValuesCompare
    <3>3. QED
      BY <1>1, <3>1, <3>2
  <2>2. CASE ~(Number(a) /\ Number(b))
    <3>1. ValueCmp(a, b) = Sign(a.text - b.text)
      BY <2>2 DEF ValueCmp
    <3>2. /\ a.text - b.text \in Int
          /\ a.text - b.text <= 0 <=> a.text <= b.text
      BY <1>1
    <3>3. QED
      BY <1>2, <3>1, <3>2
  <2>3. QED
    BY <2>1, <2>2
<1>4. QED
  <2> SUFFICES ASSUME NEW a \in {u, v, w}, NEW b \in {u, v, w}, NEW c \in {u, v, w},
                      ValueCmp(a, b) <= 0, ValueCmp(b, c) <= 0
               PROVE  ValueCmp(a, c) <= 0
    BY DEF Orderly
  <2>1. a.text <= b.text /\ b.text <= c.text
    BY <1>3
  <2>2. a.text \in Int /\ b.text \in Int /\ c.text \in Int
    BY <1>1
  <2>3. a.text <= c.text
    BY <2>1, <2>2
  <2>4. QED
    BY <1>3, <2>3

\* Nothing comes between equal values.
LEMMA EqualsAreOrderly ==
    ASSUME NEW u \in Value, NEW w \in Value
    PROVE  Orderly(u, u, w)
<1>1. ValueCmp(u, u) = 0 /\ ValueCmp(w, w) = 0
  BY ValuesCompare
<1>2. QED
  BY <1>1 DEF Orderly

LEMMA ValuesAreOrderly ==
    ASSUME NEW u \in Values, NEW v \in Values, NEW w \in Values
    PROVE  Orderly(u, v, w)
<1>1. \A a, b, c \in Values :
        ValueCmp(a, b) <= 0 /\ ValueCmp(b, c) <= 0 => ValueCmp(a, c) <= 0
  BY IndexAssumption
<1>2. {u, v, w} \subseteq Values
  OBVIOUS
<1>3. QED
  BY <1>1, <1>2 DEF Orderly

LEMMA KeysAreOrderly ==
    ASSUME NEW sort \in Seq(Clauses), NEW g \in PlainHits, NEW h \in PlainHits, NEW c,
           c # None, CursorTyped(c, sort)
    PROVE  OrderlyKeys(Key(g, sort), Key(h, sort), c, sort)
<1>1. Values \subseteq Value
  BY IndexAssumption
<1>2. \A i \in DOMAIN sort : sort[i].field \in {"_id", "_score", "n"}
  BY HitKeys
<1>3. \A i \in DOMAIN sort : /\ c[i] \in Value
                             /\ sort[i].field = "n" => c[i] \in Values
  BY <1>1 DEF CursorTyped
<1>4. ASSUME NEW i \in DOMAIN sort
      PROVE  Orderly(Key(g, sort)[i], Key(h, sort)[i], c[i])
  <2>1. /\ Key(g, sort)[i] = SortValue(g, sort[i].field)
        /\ Key(h, sort)[i] = SortValue(h, sort[i].field)
    BY HitKeys
  <2>2. CASE sort[i].field = "_id"
    <3>1. /\ SortValue(g, "_id") \in Value /\ SortValue(h, "_id") \in Value
          /\ SortValue(g, "_id") = Text(g.id) /\ SortValue(h, "_id") = Text(h.id)
      BY SortValues
    <3>2. ~Number(SortValue(g, "_id")) /\ ~Number(SortValue(h, "_id"))
      BY <3>1 DEF Number, Text
    <3>3. Orderly(SortValue(g, "_id"), SortValue(h, "_id"), c[i])
      BY <1>3, <3>1, <3>2, TextsAreOrderly
    <3>4. QED
      BY <2>1, <2>2, <3>3
  <2>3. CASE sort[i].field = "_score"
    <3>1. /\ SortValue(g, "_score") = SortValue(h, "_score")
          /\ SortValue(g, "_score") \in Value
      BY SortValues
    <3>2. Orderly(SortValue(g, "_score"), SortValue(h, "_score"), c[i])
      BY <1>3, <3>1, EqualsAreOrderly
    <3>3. QED
      BY <2>1, <2>3, <3>2
  <2>4. CASE sort[i].field = "n"
    <3>1. SortValue(g, "n") \in Values /\ SortValue(h, "n") \in Values /\ c[i] \in Values
      BY <1>3, <2>4, SortValues
    <3>2. Orderly(SortValue(g, "n"), SortValue(h, "n"), c[i])
      BY <3>1, ValuesAreOrderly
    <3>3. QED
      BY <2>1, <2>4, <3>2
  <2>5. QED
    BY <1>2, <2>2, <2>3, <2>4
<1>5. Keyed(Key(g, sort), sort) /\ Keyed(Key(h, sort), sort)
  BY HitKeys
<1>6. Keyed(c, sort)
  BY <1>3 DEF Keyed
<1>7. QED
  BY <1>4, <1>5, <1>6 DEF OrderlyKeys

\* The key of a hit is a cursor.
LEMMA KeysAreCursors ==
    ASSUME NEW sort \in Seq(Clauses), NEW h \in PlainHits
    PROVE  \A i \in DOMAIN sort :
                Key(h, sort)[i] \in IF sort[i].field = "n" THEN Values ELSE Value
BY HitKeys

LEMMA HitsCompare ==
    ASSUME NEW sort \in Seq(Clauses), NEW g \in PlainHits, NEW h \in PlainHits
    PROVE  Opposite(HitCmp(g, h, sort), HitCmp(h, g, sort)) /\ HitCmp(g, g, sort) = 0
<1>1. Keyed(Key(g, sort), sort) /\ Keyed(Key(h, sort), sort)
  BY HitKeys
<1>2. Opposite(HitCmp(g, h, sort), HitCmp(h, g, sort))
  BY <1>1, KeysCompare DEF HitCmp
<1>3. \A i \in DOMAIN sort : ValueCmp(Key(g, sort)[i], Key(g, sort)[i]) = 0
  BY <1>1, ValuesCompare DEF Keyed
<1>4. HitCmp(g, g, sort) = 0
  BY <1>3, EqualKeys DEF HitCmp
<1>5. QED
  BY <1>2, <1>4

LEMMA HitsOrder ==
    ASSUME NEW sort \in Seq(Clauses), NEW f \in PlainHits, NEW g \in PlainHits,
           NEW h \in PlainHits, HitCmp(f, g, sort) <= 0, HitCmp(g, h, sort) <= 0
    PROVE  /\ HitCmp(f, h, sort) <= 0
           /\ HitCmp(f, g, sort) < 0 \/ HitCmp(g, h, sort) < 0 => HitCmp(f, h, sort) < 0
<1>1. \A i \in DOMAIN sort : /\ Orderly(Key(f, sort)[i], Key(g, sort)[i], Key(h, sort)[i])
  <2> SUFFICES ASSUME NEW i \in DOMAIN sort
               PROVE  Orderly(Key(f, sort)[i], Key(g, sort)[i], Key(h, sort)[i])
    OBVIOUS
  <2>1. sort[i].field \in {"_id", "_score", "n"}
    BY HitKeys
  <2>2. /\ Key(f, sort)[i] = SortValue(f, sort[i].field)
        /\ Key(g, sort)[i] = SortValue(g, sort[i].field)
        /\ Key(h, sort)[i] = SortValue(h, sort[i].field)
    BY HitKeys
  <2>3. CASE sort[i].field = "_id"
    <3>1. /\ SortValue(f, "_id") \in Value /\ SortValue(g, "_id") \in Value
          /\ SortValue(h, "_id") \in Value
          /\ SortValue(f, "_id") = Text(f.id) /\ SortValue(g, "_id") = Text(g.id)
      BY SortValues
    <3>2. ~Number(SortValue(f, "_id")) /\ ~Number(SortValue(g, "_id"))
      BY <3>1 DEF Number, Text
    <3>3. QED
      BY <2>2, <2>3, <3>1, <3>2, TextsAreOrderly
  <2>4. CASE sort[i].field = "_score"
    <3>1. /\ SortValue(f, "_score") = SortValue(g, "_score")
          /\ SortValue(f, "_score") \in Value /\ SortValue(h, "_score") \in Value
      BY SortValues
    <3>2. QED
      BY <2>2, <2>4, <3>1, EqualsAreOrderly
  <2>5. CASE sort[i].field = "n"
    <3>1. SortValue(f, "n") \in Values /\ SortValue(g, "n") \in Values
          /\ SortValue(h, "n") \in Values
      BY SortValues
    <3>2. QED
      BY <2>2, <2>5, <3>1, ValuesAreOrderly
  <2>6. QED
    BY <2>1, <2>3, <2>4, <2>5
<1>2. Keyed(Key(f, sort), sort) /\ Keyed(Key(g, sort), sort) /\ Keyed(Key(h, sort), sort)
  BY HitKeys
<1>3. OrderlyKeys(Key(f, sort), Key(g, sort), Key(h, sort), sort)
  BY <1>1, <1>2 DEF OrderlyKeys
<1>4. QED
  BY <1>3, KeysOrder DEF HitCmp

\* What comes after a hit behind the cursor is behind it, too.
LEMMA BehindStaysBehind ==
    ASSUME NEW sort \in Seq(Clauses), NEW g \in PlainHits, NEW h \in PlainHits, NEW c,
           CursorTyped(c, sort), HitCmp(g, h, sort) <= 0, IsAfter(g, c, sort)
    PROVE  IsAfter(h, c, sort)
<1>1. CASE c = None
  BY <1>1 DEF IsAfter
<1>2. CASE c # None
  <2> DEFINE x == Key(g, sort)
             y == Key(h, sort)
  <2>1. OrderlyKeys(x, y, c, sort)
    BY <1>2, KeysAreOrderly
  <2>2. OrderlyKeys(c, x, y, sort)
    BY <2>1 DEF OrderlyKeys, Orderly
  <2>3. /\ KeyCmp(x, c, sort) > 0 /\ KeyCmp(x, y, sort) <= 0
    BY <1>2 DEF IsAfter, HitCmp
  <2>4. Keyed(x, sort) /\ Keyed(y, sort) /\ Keyed(c, sort)
    BY <2>1 DEF OrderlyKeys
  <2>5. /\ Opposite(KeyCmp(x, c, sort), KeyCmp(c, x, sort))
        /\ Opposite(KeyCmp(y, c, sort), KeyCmp(c, y, sort))
    BY <2>4, KeysCompare
  <2>6. KeyCmp(c, x, sort) < 0 /\ KeyCmp(c, x, sort) <= 0
    BY <2>3, <2>5 DEF Opposite
  <2>7. KeyCmp(c, y, sort) < 0
    BY <2>2, <2>3, <2>6, KeysOrder
  <2>8. KeyCmp(y, c, sort) > 0
    BY <2>5, <2>7 DEF Opposite
  <2>9. QED
    BY <2>8 DEF IsAfter
<1>3. QED
  BY <1>1, <1>2

LEMMA PrecedesIsOrder ==
    ASSUME NEW sort \in Seq(Clauses), NEW f \in PlainHits, NEW g \in PlainHits,
           NEW h \in PlainHits
    PROVE  /\ ~Precedes(f, f, sort)
           /\ f.id # g.id => Precedes(f, g, sort) \/ Precedes(g, f, sort)
           /\ Precedes(f, g, sort) /\ Precedes(g, h, sort) => Precedes(f, h, sort)
           /\ Precedes(f, g, sort) => HitCmp(f, g, sort) <= 0
           /\ HitCmp(f, g, sort) \in Int
<1>1. f.id \in Int /\ g.id \in Int /\ h.id \in Int
  <2>1. f.id \in Docs /\ g.id \in Docs /\ h.id \in Docs
    BY DEF PlainHits
  <2>2. \A d \in Docs : d \in Nat
    BY PositionsAreDocs
  <2>3. \A n \in Nat : n \in Int
    OBVIOUS
  <2>4. f.id \in Nat /\ g.id \in Nat /\ h.id \in Nat
    BY <2>1, <2>2, Zenon
  <2>5. QED
    BY <2>3, <2>4, Zenon
<1>2. /\ Opposite(HitCmp(f, g, sort), HitCmp(g, f, sort)) /\ HitCmp(f, f, sort) = 0
      /\ Opposite(HitCmp(g, h, sort), HitCmp(h, g, sort))
      /\ Opposite(HitCmp(f, h, sort), HitCmp(h, f, sort))
  BY HitsCompare
<1>3. ~Precedes(f, f, sort)
  BY <1>1, <1>2 DEF Precedes
<1>4. f.id # g.id => Precedes(f, g, sort) \/ Precedes(g, f, sort)
  BY <1>1, <1>2 DEF Precedes, Opposite
<1>5. ASSUME Precedes(f, g, sort), Precedes(g, h, sort)
      PROVE  Precedes(f, h, sort)
  <2>1. HitCmp(f, g, sort) <= 0 /\ HitCmp(g, h, sort) <= 0
    BY <1>2, <1>5 DEF Precedes, Opposite
  <2>2. /\ HitCmp(f, h, sort) <= 0
        /\ HitCmp(f, g, sort) < 0 \/ HitCmp(g, h, sort) < 0 => HitCmp(f, h, sort) < 0
    BY <2>1, HitsOrder
  <2>3. CASE HitCmp(f, h, sort) < 0
    BY <2>3 DEF Precedes
  <2>4. CASE ~(HitCmp(f, h, sort) < 0)
    <3>1. HitCmp(f, g, sort) = 0 /\ HitCmp(g, h, sort) = 0 /\ HitCmp(f, h, sort) = 0
      BY <1>2, <2>1, <2>2, <2>4 DEF Opposite
    <3>2. f.id < g.id /\ g.id < h.id
      BY <1>5, <3>1 DEF Precedes
    <3>3. f.id < h.id
      BY <1>1, <3>2
    <3>4. QED
      BY <3>1, <3>3 DEF Precedes
  <2>5. QED
    BY <2>3, <2>4
<1>6. Precedes(f, g, sort) => HitCmp(f, g, sort) <= 0
  BY <1>2 DEF Precedes, Opposite
<1>7. QED
  BY <1>2, <1>3, <1>4, <1>5, <1>6 DEF Opposite

LEMMA FirstHits ==
    ASSUME NEW sort \in Seq(Clauses), NEW hits \in SUBSET PlainHits, IsFiniteSet(hits),
           Distinct(hits), NEW n \in Nat
    PROVE  /\ First(hits, n, sort) \subseteq hits
           /\ IsFiniteSet(First(hits, n, sort))
           /\ Cardinality(First(hits, n, sort)) \in Nat /\ Cardinality(hits) \in Nat
           /\ Cardinality(First(hits, n, sort)) <= n
           /\ Cardinality(hits) <= n => First(hits, n, sort) = hits
           /\ Cardinality(hits) >= n => Cardinality(First(hits, n, sort)) = n
           /\ \A h \in hits \ First(hits, n, sort) : \A g \in First(hits, n, sort) :
                    Precedes(g, h, sort)
<1> DEFINE R == {p \in hits \X hits : Precedes(p[1], p[2], sort)}
<1>1. \A g, h \in hits : <<g, h>> \in R <=> Precedes(g, h, sort)
  OBVIOUS
<1> HIDE DEF R
<1>2. StrictOn(R, hits)
  <2>1. \A g \in hits : <<g, g>> \notin R
    BY <1>1, PrecedesIsOrder
  <2>2. ASSUME NEW g \in hits, NEW h \in hits, g # h
        PROVE  <<g, h>> \in R \/ <<h, g>> \in R
    <3>1. g.id # h.id
      BY <2>2 DEF Distinct
    <3>2. Precedes(g, h, sort) \/ Precedes(h, g, sort)
      BY <3>1, PrecedesIsOrder
    <3>3. QED
      BY <1>1, <3>2
  <2>3. ASSUME NEW f \in hits, NEW g \in hits, NEW h \in hits,
               <<f, g>> \in R, <<g, h>> \in R
        PROVE  <<f, h>> \in R
    <3>1. Precedes(f, g, sort) /\ Precedes(g, h, sort)
      BY <1>1, <2>3
    <3>2. Precedes(f, h, sort)
      BY <3>1, PrecedesIsOrder
    <3>3. QED
      BY <1>1, <3>2
  <2>4. QED
    BY <2>1, <2>2, <2>3 DEF StrictOn
<1>3. First(hits, n, sort) = FirstOf(R, hits, n)
  <2>1. \A h \in hits : Before(R, hits, h) = {g \in hits : Precedes(g, h, sort)}
    BY <1>1 DEF Before
  <2>2. QED
    BY <2>1 DEF First, FirstOf
<1>4. First(hits, n, sort) \subseteq hits
  BY DEF First
<1>5. /\ IsFiniteSet(FirstOf(R, hits, n)) /\ Cardinality(FirstOf(R, hits, n)) \in Nat
      /\ Cardinality(FirstOf(R, hits, n)) <= n
      /\ Cardinality(hits) \in Nat
      /\ Cardinality(hits) <= n => FirstOf(R, hits, n) = hits
      /\ Cardinality(hits) >= n => Cardinality(FirstOf(R, hits, n)) = n
      /\ \A x \in hits \ FirstOf(R, hits, n) :
            \A g \in FirstOf(R, hits, n) : <<g, x>> \in R
  BY <1>2, FirstsPrecede
<1>6. QED
  BY <1>1, <1>3, <1>4, <1>5

----------------------------------------------------------------------------
(* Pages of hits.                                                          *)

LEMMA CountedTo ==
    ASSUME NEW n \in Nat
    PROVE  IsFiniteSet(1..n) /\ Cardinality(1..n) = n
<1>1. n - 1 + 1 = n /\ 1 \in Int /\ n \in Int
  OBVIOUS
<1>2. QED
  BY <1>1, FS_Interval

\* An order has each hit once.
LEMMA HitsInOrder ==
    ASSUME NEW A, IsFiniteSet(A), NEW s \in SetToSeqs(A)
    PROVE  /\ s \in Seq(A) /\ Len(s) = Cardinality(A) /\ Len(s) \in Nat
           /\ DOMAIN s = 1..Len(s)
           /\ \A i \in DOMAIN s : s[i] \in A
           /\ \A i, j \in DOMAIN s : s[i] = s[j] => i = j
           /\ \A a \in A : \E i \in DOMAIN s : s[i] = a
<1> DEFINE n == Cardinality(A)
<1>1. n \in Nat
  BY FS_CardinalityType
<1>2. s \in [1..n -> A] /\ \A i, j \in 1..n : i # j => s[i] # s[j]
  BY DEF SetToSeqs
<1>3. IsFiniteSet(1..n) /\ Cardinality(1..n) = n
  <2> HIDE DEF n
  <2>1. QED
    BY <1>1, CountedTo
<1>4. s \in Injection(1..n, A)
  BY <1>2 DEF Injection, IsInjective
<1>5. s \in Surjection(1..n, A)
  BY <1>3, <1>4, FS_Injection
<1>6. \A a \in A : \E i \in 1..n : s[i] = a
  BY <1>5 DEF Surjection
<1> HIDE DEF n
<1>7. s \in Seq(A) /\ Len(s) = n /\ DOMAIN s = 1..n
  BY <1>1, <1>2
<1>8. QED
  BY <1>1, <1>2, <1>6, <1>7 DEF n

\* What is behind the cursor, from the first hit that is.
LEMMA BehindSkips ==
    ASSUME NEW S, NEW s \in Seq(S), NEW r
    PROVE  \E k \in 0..Len(s) :
              /\ Behind(r, s) \in Seq(S) /\ Len(Behind(r, s)) = Len(s) - k
              /\ \A i \in 1..(Len(s) - k) : Behind(r, s)[i] = s[k + i]
              /\ \A i \in 1..k : ~IsAfter(s[i], r.after, r.sort)
              /\ k < Len(s) => IsAfter(s[k + 1], r.after, r.sort)
<1> DEFINE after == {i \in DOMAIN s : IsAfter(s[i], r.after, r.sort)}
           first == CHOOSE i \in after : \A j \in after : i <= j
           b == Behind(r, s)
<1>1. Len(s) \in Nat /\ DOMAIN s = 1..Len(s)
  OBVIOUS
<1>2. b = IF after = {} THEN <<>> ELSE SubSeq(s, first, Len(s))
  BY DEF Behind
<1>3. CASE after = {}
  <2>1. b = <<>>
    BY <1>2, <1>3
  <2>2. \A i \in 1..Len(s) : ~IsAfter(s[i], r.after, r.sort)
    BY <1>1, <1>3
  <2>3. b \in Seq(S) /\ Len(b) = 0
    BY <2>1
  <2> HIDE DEF b, after
  <2>4. /\ b \in Seq(S) /\ Len(b) = Len(s) - Len(s)
        /\ \A i \in 1..(Len(s) - Len(s)) : b[i] = s[Len(s) + i]
        /\ \A i \in 1..Len(s) : ~IsAfter(s[i], r.after, r.sort)
        /\ Len(s) < Len(s) => IsAfter(s[Len(s) + 1], r.after, r.sort)
    BY <1>1, <2>2, <2>3
  <2>5. Len(s) \in 0..Len(s)
    BY <1>1
  <2>6. QED
    BY <2>4, <2>5 DEF b
<1>4. CASE after # {}
  <2>1. after \in SUBSET Nat /\ IsFiniteSet(after)
    <3>1. IsFiniteSet(1..Len(s)) /\ after \in SUBSET (1..Len(s))
      BY <1>1, FS_Interval
    <3>2. IsFiniteSet(after)
      BY <3>1, FS_Subset
    <3>3. \A i \in 1..Len(s) : i \in Nat
      BY <1>1
    <3>4. QED
      BY <3>1, <3>2, <3>3
  <2>2. first \in after /\ \A j \in after : first <= j
    <3>1. \E i \in after : \A j \in after : i <= j
      <4> HIDE DEF after
      <4>1. QED
        BY <1>4, <2>1, LeastNumber
    <3> HIDE DEF after
    <3>2. QED
      BY <3>1
  <2>3. first \in 1..Len(s) /\ IsAfter(s[first], r.after, r.sort)
    BY <1>1, <2>2
  <2>4. \A i \in 1..Len(s) : i < first => ~IsAfter(s[i], r.after, r.sort)
    <3>1. \A i \in 1..Len(s) : i < first => i \notin after
      BY <1>1, <2>2, <2>3
    <3>2. QED
      BY <1>1, <3>1
  <2>5. b = SubSeq(s, first, Len(s))
    BY <1>2, <1>4
  <2> DEFINE k == first - 1
  <2>6. PICK m : m = first
    OBVIOUS
  <2> HIDE DEF first, after, b
  <2>7. /\ b \in Seq(S)
        /\ Len(b) = IF m <= Len(s) THEN Len(s) - m + 1 ELSE 0
        /\ \A i \in 1..(Len(s) - m + 1) : b[i] = s[m + i - 1]
    <3>1. m \in Int /\ Len(s) \in Int
      BY <1>1, <2>3, <2>6
    <3>2. \A i \in m..Len(s) : s[i] \in S
      BY <1>1, <2>3, <2>6
    <3>3. b = SubSeq(s, m, Len(s))
      BY <2>5, <2>6
    <3>4. QED
      BY <3>1, <3>2, <3>3, SubSeqProperties
  <2>8. m \in 1..Len(s) /\ m \in Nat
    BY <2>3, <2>6
  <2>9. /\ Len(b) = Len(s) - (m - 1)
        /\ \A i \in 1..(Len(s) - (m - 1)) : b[i] = s[(m - 1) + i]
    <3>1. Len(s) - (m - 1) = Len(s) - m + 1
      BY <1>1, <2>8
    <3>2. \A i \in 1..(Len(s) - m + 1) : (m - 1) + i = m + i - 1
      BY <1>1, <2>8
    <3>3. QED
      BY <2>7, <2>8, <3>1, <3>2
  <2>10. \A i \in 1..(m - 1) : ~IsAfter(s[i], r.after, r.sort)
    <3>1. \A i \in 1..(m - 1) : i \in 1..Len(s) /\ i < m
      BY <1>1, <2>8
    <3>2. QED
      BY <2>4, <2>6, <3>1
  <2>11. IsAfter(s[(m - 1) + 1], r.after, r.sort)
    <3>1. (m - 1) + 1 = m
      BY <2>8
    <3>2. QED
      BY <2>3, <2>6, <3>1
  <2>12. m - 1 \in 0..Len(s)
    BY <1>1, <2>8
  <2>13. QED
    BY <2>7, <2>9, <2>10, <2>11, <2>12 DEF b
<1>5. QED
  BY <1>3, <1>4

\* A page is cut out of what it is a page of.
LEMMA PageIsCut ==
    ASSUME NEW S, NEW s \in Seq(S), NEW r, r.from \in Nat, r.size \in Nat
    PROVE  /\ Page(r, s) \in Seq(S) /\ Len(Page(r, s)) \in Nat /\ Len(Page(r, s)) <= r.size
           /\ \A i \in 1..Len(Page(r, s)) : /\ r.from + i \in 1..Len(s)
                                            /\ Page(r, s)[i] = s[r.from + i]
           /\ \A j \in 1..Len(s) :
                \/ j <= r.from
                \/ j - r.from \in 1..Len(Page(r, s))
                \/ j > Window(r) /\ Len(Page(r, s)) = r.size
           /\ Len(s) >= Window(r) => Len(Page(r, s)) = r.size
           /\ Len(s) < Window(r) => \A j \in 1..Len(s) :
                                        j <= r.from \/ j - r.from \in 1..Len(Page(r, s))
<1> DEFINE last == IF Len(s) < Window(r) THEN Len(s) ELSE Window(r)
           p == Page(r, s)
           m == r.from + 1
<1>1. Len(s) \in Nat /\ DOMAIN s = 1..Len(s) /\ Window(r) = r.from + r.size
  BY DEF Window
<1>2. p = SubSeq(s, m, last)
  BY DEF Page
<1>3. last \in Int /\ m \in Int /\ last <= Len(s)
  BY <1>1
<1>4. \A i \in m..last : s[i] \in S
  BY <1>1
<1> HIDE DEF p, last, m
<1>5. /\ p \in Seq(S)
      /\ Len(p) = IF m <= last THEN last - m + 1 ELSE 0
      /\ \A i \in 1..(last - m + 1) : p[i] = s[m + i - 1]
  BY <1>2, <1>3, <1>4, SubSeqProperties
<1>6. Len(p) \in Nat /\ Len(p) <= r.size
  BY <1>1, <1>5 DEF last, m
<1>7. ASSUME NEW i \in 1..Len(p)
      PROVE  r.from + i \in 1..Len(s) /\ p[i] = s[r.from + i]
  <2>1. i \in 1..(last - m + 1) /\ m + i - 1 = r.from + i
    BY <1>1, <1>5 DEF last, m
  <2>2. r.from + i \in 1..Len(s)
    BY <1>1, <1>5 DEF last, m
  <2>3. p[i] = s[m + i - 1]
    BY <1>5, <2>1
  <2>4. QED
    BY <2>1, <2>2, <2>3
<1>8. \A j \in 1..Len(s) : \/ j <= r.from
                           \/ j - r.from \in 1..Len(p)
                           \/ j > Window(r) /\ Len(p) = r.size
  <2> SUFFICES ASSUME NEW j \in 1..Len(s), ~(j <= r.from)
               PROVE  j - r.from \in 1..Len(p) \/ (j > Window(r) /\ Len(p) = r.size)
    OBVIOUS
  <2>1. CASE Len(s) < Window(r)
    <3>1. last = Len(s)
      BY <2>1 DEF last
    <3>2. Len(p) = Len(s) - r.from
      BY <1>1, <1>5, <3>1 DEF m
    <3>3. j - r.from \in 1..Len(p)
      BY <1>1, <3>2
    <3>4. QED
      BY <3>3
  <2>2. CASE ~(Len(s) < Window(r))
    <3>1. last = r.from + r.size
      BY <1>1, <2>2 DEF last
    <3>2. Len(p) = r.size
      BY <1>5, <3>1 DEF m
    <3>3. j > Window(r) \/ j - r.from \in 1..Len(p)
      BY <1>1, <3>2
    <3>4. QED
      BY <3>2, <3>3
  <2>3. QED
    BY <2>1, <2>2
<1>9. Len(s) >= Window(r) => Len(p) = r.size
  BY <1>1, <1>5 DEF last, m
<1>10. Len(s) < Window(r) => \A j \in 1..Len(s) : j <= r.from \/ j - r.from \in 1..Len(p)
  BY <1>1, <1>5 DEF last, m
<1>11. QED
  BY <1>5, <1>6, <1>7, <1>8, <1>9, <1>10 DEF p

\* A page has the hits behind the cursor but for the first `from` and for what
\* is behind a full page.
Shows(page, hits, r) ==
    /\ page \in Seq(hits) /\ Len(page) \in Nat
    /\ \A i, j \in DOMAIN page :
         i < j => HitCmp(page[i], page[j], r.sort) <= 0 /\ page[i].id # page[j].id
    /\ (\A h \in hits : IsAfter(h, r.after, r.sort))
         /\ Cardinality(hits) >= Window(r) => Len(page) = r.size
    /\ \E skipped \in SUBSET hits :
         /\ IsFiniteSet(skipped) /\ Cardinality(skipped) <= r.from
         /\ \A h \in skipped, i \in DOMAIN page : HitCmp(h, page[i], r.sort) <= 0
         /\ \A h \in hits : IsAfter(h, r.after, r.sort) =>
               \/ h \in skipped
               \/ \E i \in DOMAIN page : page[i] = h
               \/ /\ Len(page) = r.size /\ Cardinality(hits) > Window(r)
                  /\ \A i \in DOMAIN page : HitCmp(page[i], h, r.sort) <= 0

LEMMA PageShows ==
    ASSUME NEW r, r.sort \in Seq(Clauses), r.sort # <<>>, r.from \in Nat, r.size \in Nat,
           CursorTyped(r.after, r.sort),
           NEW hits \in SUBSET PlainHits, IsFiniteSet(hits), Distinct(hits),
           NEW order \in Orders(r, hits),
           NEW page, page = Page(r, Behind(r, order))
    PROVE  Shows(page, hits, r)
<1> DEFINE s == order
           b == Behind(r, s)
           n == Len(page)
           after(h) == IsAfter(h, r.after, r.sort)
<1>1. s \in SetToSeqs(hits) /\ \A i, j \in DOMAIN s : i < j => HitCmp(s[i], s[j], r.sort) <= 0
  BY DEF Orders
<1>2. /\ s \in Seq(hits) /\ Len(s) = Cardinality(hits) /\ Len(s) \in Nat
      /\ DOMAIN s = 1..Len(s)
      /\ \A i \in DOMAIN s : s[i] \in hits
      /\ \A i, j \in DOMAIN s : s[i] = s[j] => i = j
      /\ \A h \in hits : \E i \in DOMAIN s : s[i] = h
  BY <1>1, HitsInOrder
<1>3. PICK k \in 0..Len(s) :
        /\ b \in Seq(hits) /\ Len(b) = Len(s) - k
        /\ \A i \in 1..(Len(s) - k) : b[i] = s[k + i]
        /\ \A i \in 1..k : ~after(s[i])
        /\ k < Len(s) => after(s[k + 1])
  BY <1>2, BehindSkips
<1>4. k \in Nat /\ k <= Len(s) /\ Len(b) \in Nat /\ DOMAIN b = 1..Len(b)
  BY <1>2, <1>3
<1>5. /\ page \in Seq(hits) /\ n \in Nat /\ n <= r.size
      /\ \A i \in 1..n : r.from + i \in 1..Len(b) /\ page[i] = b[r.from + i]
      /\ \A j \in 1..Len(b) : \/ j <= r.from
                              \/ j - r.from \in 1..n
                              \/ j > Window(r) /\ n = r.size
      /\ Len(b) >= Window(r) => n = r.size
  <2>1. page = Page(r, b)
    OBVIOUS
  <2>2. b \in Seq(hits)
    BY <1>3
  <2> HIDE DEF b
  <2>3. /\ Page(r, b) \in Seq(hits) /\ Len(Page(r, b)) \in Nat /\ Len(Page(r, b)) <= r.size
        /\ \A i \in 1..Len(Page(r, b)) : /\ r.from + i \in 1..Len(b)
                                         /\ Page(r, b)[i] = b[r.from + i]
        /\ \A j \in 1..Len(b) :
             \/ j <= r.from
             \/ j - r.from \in 1..Len(Page(r, b))
             \/ j > Window(r) /\ Len(Page(r, b)) = r.size
        /\ Len(b) >= Window(r) => Len(Page(r, b)) = r.size
    BY <2>2, PageIsCut
  <2>4. QED
    BY <2>1, <2>3
<1>6. DOMAIN page = 1..n
  BY <1>5
<1> HIDE DEF n, b, after
<1>7. ASSUME NEW i \in 1..n
      PROVE  k + r.from + i \in 1..Len(s) /\ page[i] = s[k + r.from + i]
  <2>1. r.from + i \in 1..(Len(s) - k) /\ page[i] = b[r.from + i]
    BY <1>3, <1>5
  <2>2. k + (r.from + i) = k + r.from + i /\ k + (r.from + i) \in 1..Len(s)
    <3>1. PICK m \in 1..(Len(s) - k) : m = r.from + i
      BY <2>1
    <3>2. k + m \in 1..Len(s)
      <4>1. PICK l \in Nat : l = Len(s)
        BY <1>2
      <4>2. m \in 1..(l - k) /\ k \in Nat
        BY <1>4, <4>1
      <4>3. k + m \in 1..l
        BY <4>2
      <4>4. QED
        BY <4>1, <4>3
    <3>3. i \in Int /\ k \in Int /\ r.from \in Int
      BY <1>4, <1>5
    <3>4. k + (r.from + i) = k + r.from + i
      BY <3>3
    <3>5. QED
      BY <3>1, <3>2, <3>4
  <2>3. b[r.from + i] = s[k + (r.from + i)]
    BY <1>3, <2>1
  <2>4. QED
    BY <2>1, <2>2, <2>3
<1>8. ASSUME NEW i \in 1..n, NEW j \in 1..n, i < j
      PROVE  HitCmp(page[i], page[j], r.sort) <= 0 /\ page[i].id # page[j].id
  <2>1. /\ k + r.from + i \in 1..Len(s) /\ page[i] = s[k + r.from + i]
        /\ k + r.from + j \in 1..Len(s) /\ page[j] = s[k + r.from + j]
    BY <1>7
  <2>2. k + r.from + i < k + r.from + j
    BY <1>4, <1>5, <1>8
  <2>3. HitCmp(page[i], page[j], r.sort) <= 0
    BY <1>1, <1>2, <2>1, <2>2
  <2>4. k + r.from + i # k + r.from + j
    BY <1>4, <1>5, <1>8
  <2>5. page[i] # page[j] /\ page[i] \in hits /\ page[j] \in hits
    BY <1>2, <2>1, <2>4
  <2>6. QED
    BY <2>3, <2>5 DEF Distinct
<1>9. ASSUME \A h \in hits : after(h), Cardinality(hits) >= Window(r)
      PROVE  n = r.size
  <2>1. k = 0
    <3>1. CASE k = 0
      BY <3>1
    <3>2. CASE k # 0
      <4>1. 1 \in 1..k /\ 1 \in DOMAIN s
        BY <1>2, <1>4, <3>2
      <4>2. after(s[1]) /\ ~after(s[1])
        BY <1>2, <1>3, <1>9, <4>1
      <4>3. QED
        BY <4>2
    <3>3. QED
      BY <3>1, <3>2
  <2>2. Len(b) >= Window(r)
    BY <1>2, <1>3, <1>9, <2>1 DEF Window
  <2>3. QED
    BY <1>5, <2>2
<1>10. \E skipped \in SUBSET hits :
         /\ IsFiniteSet(skipped) /\ Cardinality(skipped) <= r.from
         /\ \A h \in skipped, i \in DOMAIN page : HitCmp(h, page[i], r.sort) <= 0
         /\ \A h \in hits : after(h) =>
               \/ h \in skipped
               \/ \E i \in DOMAIN page : page[i] = h
               \/ /\ Len(page) = r.size /\ Cardinality(hits) > Window(r)
                  /\ \A i \in DOMAIN page : HitCmp(page[i], h, r.sort) <= 0
  <2> DEFINE at(h) == CHOOSE i \in DOMAIN s : s[i] = h
             skipped == {h \in hits : at(h) > k /\ at(h) <= k + r.from}
             f == [h \in skipped |-> at(h) - k]
  <2>1. \A h \in hits : at(h) \in 1..Len(s) /\ s[at(h)] = h
    BY <1>2
  <2>2. \A h \in hits : at(h) \in Nat
    BY <1>2, <2>1
  <2> HIDE DEF at
  <2>3. f \in [skipped -> 1..r.from]
    BY <1>4, <2>2
  <2>4. \A g, h \in skipped : f[g] = f[h] => g = h
    <3> SUFFICES ASSUME NEW g \in skipped, NEW h \in skipped, f[g] = f[h]
                 PROVE  g = h
      OBVIOUS
    <3>1. at(g) = at(h)
      BY <1>4, <2>2
    <3>2. QED
      BY <2>1, <3>1
  <2>5. f \in Injection(skipped, 1..r.from)
    BY <2>3, <2>4 DEF Injection, IsInjective
  <2>6. IsFiniteSet(1..r.from) /\ Cardinality(1..r.from) = r.from
    BY CountedTo
  <2> HIDE DEF f
  <2>7. IsFiniteSet(skipped) /\ Cardinality(skipped) <= r.from
    <3> HIDE DEF skipped
    <3>1. QED
      BY <2>5, <2>6, FS_Injection
  <2>8. ASSUME NEW h \in skipped, NEW i \in 1..n
        PROVE  HitCmp(h, page[i], r.sort) <= 0
    <3>1. at(h) \in 1..Len(s) /\ s[at(h)] = h
      BY <2>1
    <3>2. k + r.from + i \in 1..Len(s) /\ page[i] = s[k + r.from + i]
      BY <1>7
    <3>3. at(h) < k + r.from + i
      BY <1>4, <1>5, <2>2
    <3>4. QED
      BY <1>1, <1>2, <3>1, <3>2, <3>3
  <2>9. ASSUME NEW h \in hits, after(h), h \notin skipped
        PROVE  \/ \E i \in 1..n : page[i] = h
               \/ /\ n = r.size /\ Cardinality(hits) > Window(r)
                  /\ \A i \in 1..n : HitCmp(page[i], h, r.sort) <= 0
    <3>1. at(h) \in 1..Len(s) /\ s[at(h)] = h /\ at(h) \in Nat
      BY <2>1, <2>2
    <3>2. at(h) > k
      <4>1. CASE at(h) <= k
        <5>1. at(h) \in 1..k
          BY <1>4, <3>1, <4>1
        <5>2. QED
          BY <1>3, <2>9, <3>1, <5>1
      <4>2. CASE at(h) > k
        BY <4>2
      <4>3. QED
        BY <1>4, <3>1, <4>1, <4>2
    <3>3. at(h) > k + r.from
      BY <1>4, <2>9, <3>1, <3>2
    <3>4. at(h) - k \in 1..Len(b)
      <4>1. PICK l \in Nat : l = Len(s)
        BY <1>2
      <4>2. PICK x \in Nat : x = at(h)
        BY <3>1
      <4>3. k \in Nat /\ x \in 1..l /\ x > k /\ Len(b) = l - k
        BY <1>3, <1>4, <3>1, <3>2, <4>1, <4>2
      <4>4. x - k \in 1..(l - k)
        BY <4>1, <4>2, <4>3
      <4>5. QED
        BY <4>2, <4>3, <4>4
    <3>5. CASE at(h) - k - r.from \in 1..n
      <4>1. k + r.from + (at(h) - k - r.from) = at(h)
        BY <1>4, <3>1
      <4>2. page[at(h) - k - r.from] = s[k + r.from + (at(h) - k - r.from)]
        BY <1>7, <3>5
      <4>3. page[at(h) - k - r.from] = h
        BY <3>1, <4>1, <4>2
      <4>4. QED
        BY <3>5, <4>3
    <3>6. CASE at(h) - k > Window(r) /\ n = r.size
      <4>1. Window(r) = r.from + r.size
        BY DEF Window
      <4>2. Len(s) > Window(r)
        BY <1>2, <1>4, <3>1, <3>6, <4>1
      <4>3. \A i \in 1..n : k + r.from + i < at(h)
        BY <1>4, <1>5, <3>1, <3>6, <4>1
      <4>4. \A i \in 1..n : HitCmp(page[i], h, r.sort) <= 0
        BY <1>1, <1>2, <1>7, <3>1, <4>3
      <4>5. QED
        BY <1>2, <3>6, <4>2, <4>4
    <3>7. ~(at(h) - k <= r.from)
      BY <1>4, <3>1, <3>3
    <3>8. QED
      BY <1>5, <3>4, <3>5, <3>6, <3>7
  <2>10. skipped \in SUBSET hits
    OBVIOUS
  <2> HIDE DEF skipped
  <2>11. QED
    BY <1>6, <2>7, <2>8, <2>9, <2>10 DEF n
<1>11. QED
  BY <1>5, <1>6, <1>8, <1>9, <1>10 DEF n, after, Shows

----------------------------------------------------------------------------
(* Pages in the order of a field.                                          *)

\* What is sorted by fields alone, with sources to take them from.
Sorts(p, r) == r.sort # <<>> /\ ~Ranked(r) /\ ~(r.patterns /\ p)

\* A page keeps the first hits only.
Cuts(r) == r.collapse = None /\ ~r.patterns

\* A hit is there, or the page of a request has no room or no use for it.
Leads(hits, g, r) ==
    \/ g \in hits
    \/ Cuts(r) /\ ~IsAfter(g, r.after, r.sort)
    \/ /\ Cuts(r) /\ Cardinality(hits) = Window(r)
       /\ \A h \in hits : Precedes(h, g, r.sort)

\* Of the documents seen, the hits have all that stand still and may be on
\* the page.
Leading(hits, history, r, seen) ==
    /\ hits \subseteq PlainHits /\ Distinct(hits)
    /\ \A h \in hits : h.id \in seen
    /\ ~r.patterns => \A h \in hits : PostMatches(h, r)
    /\ Cuts(r) => /\ Cardinality(hits) <= Window(r)
                  /\ \A h \in hits : IsAfter(h, r.after, r.sort)
    /\ \A d \in StandingIn(history, r) \cap seen :
            Leads(hits, Hit(d, 0, Were(history, d)), r)

Seen(s) == IF s.pc = "sources" THEN Passed(s.offset) \ ToSet(s.batch)
           ELSE Passed(s.offset)

\* What Qdrant has ordered: one more than the window, or all that its index of
\* the field has.
Replied(hits, history, r) ==
    /\ hits \subseteq PlainHits /\ Distinct(hits)
    /\ Cardinality(hits) <= Window(r) + 1
    /\ \A h \in hits : IsAfter(h, r.after, r.sort)
    /\ \A d \in StandingIn(history, r) :
          LET g == Hit(d, 0, Were(history, d))
          IN  Were(history, d).n.kind = "number" /\ IsAfter(g, r.after, r.sort) =>
                \/ g \in hits
                \/ /\ Cardinality(hits) = Window(r) + 1
                   /\ \A h \in hits : HitCmp(h, g, r.sort) <= 0

\* Its reply is not used without the other read.
Joining(s, p, history, r) ==
    /\ "ordered" \in s.waiting \/ s.reply # None =>
            Serves(p, r) /\ ("coverage" \in s.waiting \/ s.covered \in BOOLEAN)
    /\ s.reply # None /\ ~s.reply.refused => Replied(s.reply.hits, history, r)

RankInv(s, p, history, r) ==
    /\ PlainCount(r) \/ Accepted(r)
    /\ s.pc = "join" => Joining(s, p, history, r)
    /\ Sorts(p, r) =>
          /\ s.pc \in {"scroll", "sources", "gathered"} =>
                /\ r.patterns \/ Scans(s, p, r)
                /\ Leading(s.hits, history, r, Seen(s))
          /\ s.pc = "finish" =>
                \/ r.size = 0 /\ s.hits = {}
                \/ Leading(s.hits, history, r, Docs)

CursorsFit(q) == \A i \in DOMAIN q : CursorFits(q[i])

\* The hits of an answer are hits of the index.
PageTyped(answer, r) ==
    ~answer.error /\ ~PlainCount(r) => answer.page \in Seq(HitSet)

\* Hits are of documents, and there are finitely many of these.
Finite(s) == IsFiniteSet(s.hits) /\ (s.reply # None => IsFiniteSet(s.reply.hits))

RInv ==
    /\ Finite(search)
    /\ search.pc \notin {"idle", "done"} => RankInv(search, projection, had, Request)
    /\ CursorsFit(queue)
    /\ At("done") => PageTyped(response, Request)
    /\ PageIsRanked /\ CollapseKeepsBest

----------------------------------------------------------------------------
(* What a request that sorts is.                                           *)

LEMMA AskedSort ==
    ASSUME NEW r, Asked(r)
    PROVE  /\ r.sort \in Seq(Clauses)
           /\ r.collapse \in {None, "n", Malformed} /\ r.walk \in BOOLEAN
           /\ r.from \in Nat \cup {Malformed} /\ r.size \in Nat \cup {Malformed}
<1> DEFINE q == [r EXCEPT !.after = None, !.text = None]
<1>1. q \in SearchRequest
  BY DEF Asked
<1>2. q.sort = r.sort /\ q.collapse = r.collapse /\ q.walk = r.walk
      /\ q.from = r.from /\ q.size = r.size
  BY AskedFields
<1> HIDE DEF q
<1>3. q.sort \in Seq(Clauses) /\ q.collapse \in {None, "n", Malformed} /\ q.walk \in BOOLEAN
      /\ q.from \in Nat \cup {Malformed} /\ q.size \in Nat \cup {Malformed}
  BY <1>1 DEF SearchRequest, Clauses
<1>4. QED
  BY <1>2, <1>3

LEMMA AcceptedParts ==
    ASSUME NEW r, Asked(r), Accepted(r)
    PROVE  /\ r.from \in Nat /\ r.size \in Nat /\ Window(r) \in Nat
           /\ Window(r) = r.from + r.size
           /\ r.after # None => r.from = 0
           /\ CursorFits(r) => CursorTyped(r.after, r.sort)
           /\ r.sparse => r.sort = <<>>
<1>1. r.from \in Nat /\ r.size \in Nat
  BY AskedSort DEF Accepted, WindowAccepted
<1>2. Window(r) = r.from + r.size /\ Window(r) \in Nat
  BY <1>1 DEF Window
<1>3. /\ r.after # None => r.from = 0 /\ r.after # Malformed /\ Len(r.after) = Len(r.sort)
      /\ r.sparse => r.sort = <<>>
  BY DEF Accepted, CursorAccepted, CombinationAccepted
<1>4. CursorFits(r) => CursorTyped(r.after, r.sort)
  BY <1>3 DEF CursorFits, CursorTyped
<1>5. QED
  BY <1>1, <1>2, <1>3, <1>4

LEMMA SortsParts ==
    ASSUME NEW p, NEW r, Asked(r), PlainCount(r) \/ Accepted(r), Sorts(p, r)
    PROVE  /\ Accepted(r) /\ ~PlainCount(r)
           /\ ~Ranked(r) /\ ~r.sparse /\ ~r.approximate /\ r.like = None
           /\ r.sort # <<>> /\ r.sort \in Seq(Clauses)
           /\ r.patterns => ~p
<1>1. r.sort # <<>> /\ ~Ranked(r) /\ (r.patterns => ~p)
  BY DEF Sorts
<1>2. ~PlainCount(r)
  BY <1>1 DEF PlainCount, Asked
<1>3. Accepted(r) /\ ~r.sparse
  BY <1>1, <1>2, AcceptedParts
<1>4. ~r.approximate /\ r.like = None
  BY <1>1 DEF Asked, Ranked
<1>5. QED
  BY <1>1, <1>2, <1>3, <1>4, AskedSort

\* Hits of different documents are finitely many.
LEMMA HitsAreFinite ==
    ASSUME NEW hits \in SUBSET PlainHits, Distinct(hits)
    PROVE  hits \in SUBSET HitSet /\ IsFiniteSet(hits) /\ Cardinality(hits) \in Nat
<1> DEFINE id == [h \in hits |-> h.id]
<1>1. \A h \in hits : h.id \in Docs
  BY DEF PlainHits
<1>2. id \in [hits -> Docs] /\ \A g, h \in hits : id[g] = id[h] => g = h
  BY <1>1 DEF Distinct
<1>3. id \in Injection(hits, Docs)
  BY <1>2 DEF Injection, IsInjective
<1>4. IsFiniteSet(hits)
  BY <1>3, PositionsAreDocs, FS_Injection
<1>5. QED
  BY <1>4, FS_CardinalityType, PlainHitsAreHits

----------------------------------------------------------------------------
(* What leads a page.                                                      *)

\* Documents that are no candidates may count as seen.
LEMMA LeadingWiden ==
    ASSUME NEW hits, NEW H, NEW r, NEW A, NEW B, Leading(hits, H, r, A),
           \A h \in hits : h.id \in B, StandingIn(H, r) \cap B \subseteq A
    PROVE  Leading(hits, H, r, B)
BY DEF Leading

\* Writers leave fewer documents that stand still.
LEMMA LeadingGrows ==
    ASSUME NEW H, NEW G, HistoryTyped(H), HistoryTyped(G), Grows(H, G), NEW r,
           NEW hits, NEW A, Leading(hits, H, r, A)
    PROVE  Leading(hits, G, r, A)
<1>1. /\ StandingIn(G, r) \subseteq StandingIn(H, r)
      /\ \A d \in StandingIn(G, r) : Were(G, d) = Were(H, d)
  BY GrowingHistory DEF StandingIn
<1>2. QED
  BY <1>1 DEF Leading

LEMMA RepliedGrows ==
    ASSUME NEW H, NEW G, HistoryTyped(H), HistoryTyped(G), Grows(H, G), NEW r,
           NEW hits, Replied(hits, H, r)
    PROVE  Replied(hits, G, r)
<1>1. /\ StandingIn(G, r) \subseteq StandingIn(H, r)
      /\ \A d \in StandingIn(G, r) : Were(G, d) = Were(H, d)
  BY GrowingHistory DEF StandingIn
<1>2. QED
  BY <1>1 DEF Replied

LEMMA NothingLeads ==
    ASSUME NEW H, NEW r, Window(r) \in Nat
    PROVE  Leading({}, H, r, {})
<1>1. Cardinality({}) = 0
  BY FS_EmptySet
<1>2. Cuts(r) => Cardinality({}) <= Window(r)
  BY <1>1
<1>3. QED
  BY <1>2 DEF Leading, Distinct

\* Where the first hits of many are kept, those that lead the many lead them.
LEMMA FirstsLead ==
    ASSUME NEW r, r.sort \in Seq(Clauses), Window(r) \in Nat, Cuts(r),
           NEW all \in SUBSET PlainHits, Distinct(all),
           NEW first, first = First(all, Window(r), r.sort),
           NEW g \in PlainHits, g \in all
    PROVE  Leads(first, g, r)
<1>1. IsFiniteSet(all) /\ Cardinality(all) \in Nat
  BY HitsAreFinite
<1>2. /\ first \subseteq all /\ Cardinality(first) \in Nat
      /\ Cardinality(all) <= Window(r) => first = all
      /\ Cardinality(all) >= Window(r) => Cardinality(first) = Window(r)
      /\ \A h \in all \ first : \A f \in first : Precedes(f, h, r.sort)
  BY <1>1, FirstHits
<1>3. CASE g \in first
  BY <1>3 DEF Leads
<1>4. CASE g \notin first
  <2>1. ~(Cardinality(all) <= Window(r))
    BY <1>2, <1>4
  <2>2. Cardinality(first) = Window(r)
    BY <1>1, <1>2, <2>1
  <2>3. QED
    BY <1>2, <1>4, <2>2 DEF Leads
<1>5. QED
  BY <1>3, <1>4

\* More hits take no room from those there was no room for.
LEMMA FirstsStillLead ==
    ASSUME NEW r, r.sort \in Seq(Clauses), Window(r) \in Nat, Cuts(r),
           NEW all \in SUBSET PlainHits, Distinct(all), NEW old \in SUBSET all,
           NEW first, first = First(all, Window(r), r.sort),
           NEW g \in PlainHits, Leads(old, g, r)
    PROVE  Leads(first, g, r)
<1>1. /\ IsFiniteSet(all) /\ Cardinality(all) \in Nat
      /\ IsFiniteSet(old) /\ Cardinality(old) \in Nat /\ Cardinality(old) <= Cardinality(all)
  <2>1. IsFiniteSet(all)
    BY HitsAreFinite
  <2>2. IsFiniteSet(old) /\ Cardinality(old) <= Cardinality(all)
    BY <2>1, FS_Subset
  <2>3. QED
    BY <2>1, <2>2, FS_CardinalityType
<1>2. /\ first \subseteq all /\ IsFiniteSet(first) /\ Cardinality(first) \in Nat
      /\ Cardinality(all) >= Window(r) => Cardinality(first) = Window(r)
      /\ \A h \in all \ first : \A f \in first : Precedes(f, h, r.sort)
  BY <1>1, FirstHits
<1>3. CASE g \in old
  BY <1>3, FirstsLead
<1>4. CASE ~IsAfter(g, r.after, r.sort)
  BY <1>4 DEF Leads
<1>5. CASE Cardinality(old) = Window(r) /\ \A h \in old : Precedes(h, g, r.sort)
  <2>1. Cardinality(first) = Window(r)
    BY <1>1, <1>2, <1>5
  <2>2. ASSUME NEW f \in first PROVE Precedes(f, g, r.sort)
    <3>1. CASE f \in old
      BY <1>5, <3>1
    <3>2. CASE f \notin old
      <4>1. PICK o \in old : o \notin first
        <5>1. SUFFICES ASSUME old \subseteq first PROVE FALSE
          OBVIOUS
        <5>2. old \in SUBSET first /\ Cardinality(first) = Cardinality(old)
          BY <1>5, <2>1, <5>1
        <5>3. first = old
          BY <1>2, <5>2, FS_Subset
        <5>4. QED
          BY <3>2, <5>3
      <4>2. Precedes(f, o, r.sort) /\ Precedes(o, g, r.sort)
        BY <1>2, <1>5, <4>1
      <4>3. f \in PlainHits /\ o \in PlainHits
        BY <1>2
      <4>4. QED
        BY <4>2, <4>3, PrecedesIsOrder
    <3>3. QED
      BY <3>1, <3>2
  <2>3. QED
    BY <2>1, <2>2 DEF Leads
<1>6. QED
  BY <1>3, <1>4, <1>5 DEF Leads

\* A page of a complete scan leaves what leads in place.
LEMMA GatherScansLeads ==
    ASSUME NEW r, Asked(r), Accepted(r), r = Request, Sorts(projection, r),
           CompleteScan(r), NEW A, NEW B, A \subseteq B,
           Leading(search.hits, had, r, A), SearchTyped(search),
           HistoryTyped(had),
           NEW found \in SUBSET PlainHits, Distinct(found), NEW next,
           \A h \in found : h.id \in B \ A,
           \A d \in StandingIn(had, r) \cap (B \ A) : Hit(d, 0, Were(had, d)) \in found
    PROVE  Leading(Gather(found, next).hits, had, r, B)
<1> DEFINE old == search.hits
           all == old \cup
                    {h \in found : /\ PostMatches(h, r)
                                   /\ r.collapse = None => IsAfter(h, r.after, r.sort)}
           hits == Keep(r, all)
           G == Gather(found, next).hits
           hit(d) == Hit(d, 0, Were(had, d))
<1>0. /\ r.sort \in Seq(Clauses) /\ Window(r) \in Nat /\ ~r.patterns
  BY AskedSort, AcceptedParts DEF CompleteScan
<1>1. G = hits
  <2>1. \A h : PatternsMatch(h, r)
    BY <1>0 DEF PatternsMatch
  <2>2. all = search.hits \cup
                   {h \in {g \in found : CompleteScan(r) => PostMatches(g, r)} :
                        /\ PatternsMatch(h, r)
                        /\ CompleteScan(r) /\ r.collapse = None
                                        => IsAfter(h, r.after, r.sort)}
    BY <2>1
  <2> HIDE DEF all
  <2>3. QED
    BY <2>2 DEF Gather, SearchTyped
<1>2. /\ old \subseteq PlainHits /\ Distinct(old)
      /\ \A h \in old : h.id \in A
      /\ \A h \in old : PostMatches(h, r)
      /\ Cuts(r) => \A h \in old : IsAfter(h, r.after, r.sort)
      /\ \A d \in StandingIn(had, r) \cap A : Leads(old, hit(d), r)
  BY <1>0 DEF Leading
<1>3. all \in SUBSET PlainHits /\ Distinct(all)
  BY <1>2 DEF Distinct
<1>4. /\ \A h \in all : h.id \in B
      /\ \A h \in all : PostMatches(h, r)
      /\ Cuts(r) => \A h \in all : IsAfter(h, r.after, r.sort)
      /\ old \in SUBSET all
  BY <1>2 DEF Cuts
<1>5. ASSUME NEW d \in StandingIn(had, r)
      PROVE  /\ hit(d) \in PlainHits
             /\ hit(d) \in found /\ (Cuts(r) => IsAfter(hit(d), r.after, r.sort))
                    => hit(d) \in all
  <2>1. d \in Docs /\ Still(had, d) /\ Were(had, d) # None /\ Matches(r, Were(had, d))
    BY DEF StandingIn
  <2>2. Were(had, d) \in Contents
    <3>1. had[d].docs = {Were(had, d)} /\ had[d].docs \subseteq Contents \cup {None}
      BY <2>1, StillIsOne DEF HistoryTyped
    <3>2. QED
      BY <2>1, <3>1
  <2>3. hit(d) \in PlainHits /\ hit(d).source = Were(had, d)
    BY <2>1, <2>2, PlainHitsAreHits DEF Hit
  <2>4. PostMatches(hit(d), r)
    BY <2>1, <2>3 DEF PostMatches, Matches
  <2>5. (Cuts(r) => IsAfter(hit(d), r.after, r.sort)) /\ r.collapse = None
            => IsAfter(hit(d), r.after, r.sort)
    BY <1>0 DEF Cuts
  <2> HIDE DEF hit
  <2>6. QED
    BY <2>3, <2>4, <2>5
<1> HIDE DEF all, hit
<1>6. CASE r.collapse = None
  <2>1. Cuts(r) /\ hits = First(all, Window(r), r.sort)
    BY <1>0, <1>6 DEF Cuts, Keep
  <2>2. IsFiniteSet(all)
    BY <1>3, HitsAreFinite
  <2>3. hits \subseteq all /\ Cardinality(hits) <= Window(r)
    BY <1>0, <1>3, <2>1, <2>2, FirstHits
  <2>4. ASSUME NEW d \in StandingIn(had, r) \cap B
        PROVE  Leads(hits, hit(d), r)
    <3>1. CASE d \in A
      <4>1. Leads(old, hit(d), r)
        BY <1>2, <3>1
      <4>2. hit(d) \in PlainHits
        BY <1>5
      <4> HIDE DEF hits, old
      <4>3. QED
        BY <1>0, <1>3, <1>4, <2>1, <4>1, <4>2, FirstsStillLead
    <3>2. CASE d \notin A
      <4>1. hit(d) \in found
        BY <3>2 DEF hit
      <4>2. hit(d) \in PlainHits
        BY <1>5
      <4>3. CASE IsAfter(hit(d), r.after, r.sort)
        <5>1. hit(d) \in all
          BY <1>5, <4>1, <4>3
        <5> HIDE DEF hits
        <5>2. QED
          BY <1>0, <1>3, <2>1, <4>2, <5>1, FirstsLead
      <4>4. CASE ~IsAfter(hit(d), r.after, r.sort)
        BY <2>1, <4>4 DEF Leads
      <4>5. QED
        BY <4>3, <4>4
    <3>3. QED
      BY <3>1, <3>2
  <2>5. hits \subseteq PlainHits /\ Distinct(hits)
    BY <1>3, <2>3 DEF Distinct
  <2>6. Leading(hits, had, r, B)
    BY <1>4, <2>3, <2>4, <2>5 DEF Leading, hit
  <2>7. QED
    BY <1>1, <2>6
<1>7. CASE r.collapse # None
  <2>1. ~Cuts(r) /\ hits = all
    BY <1>7 DEF Cuts, Keep
  <2>2. ASSUME NEW d \in StandingIn(had, r) \cap B
        PROVE  Leads(hits, hit(d), r)
    <3>1. CASE d \in A
      <4>1. hit(d) \in old
        BY <1>2, <2>1, <3>1 DEF Leads
      <4>2. QED
        BY <1>4, <2>1, <4>1 DEF Leads
    <3>2. CASE d \notin A
      <4>1. hit(d) \in found
        BY <3>2 DEF hit
      <4>2. hit(d) \in all
        BY <1>5, <2>1, <4>1
      <4>3. QED
        BY <2>1, <4>2 DEF Leads
    <3>3. QED
      BY <3>1, <3>2
  <2>3. Leading(hits, had, r, B)
    BY <1>3, <1>4, <2>1, <2>2 DEF Leading, hit
  <2>4. QED
    BY <1>1, <2>3
<1>8. QED
  BY <1>6, <1>7

\* A page of a scan for patterns keeps all that match them.
LEMMA GatherSomeLeads ==
    ASSUME NEW r, Asked(r), r = Request, r.patterns, ~CompleteScan(r),
           NEW A, NEW B, A \subseteq B,
           Leading(search.hits, had, r, A), SearchTyped(search),
           NEW found \in SUBSET PlainHits, Distinct(found), NEW next,
           \A h \in found : h.id \in B \ A,
           \A d \in StandingIn(had, r) \cap (B \ A) : Hit(d, 0, Were(had, d)) \in found
    PROVE  Leading(Gather(found, next).hits, had, r, B)
<1> DEFINE old == search.hits
           all == old \cup {h \in found : PatternsMatch(h, r)}
           G == Gather(found, next).hits
           hit(d) == Hit(d, 0, Were(had, d))
<1>1. G = all
  <2>1. all = search.hits \cup
                   {h \in {g \in found : CompleteScan(r) => PostMatches(g, r)} :
                        /\ PatternsMatch(h, r)
                        /\ CompleteScan(r) /\ r.collapse = None
                                        => IsAfter(h, r.after, r.sort)}
    OBVIOUS
  <2> HIDE DEF all
  <2>2. QED
    BY <2>1 DEF Gather, SearchTyped
<1>2. /\ old \subseteq PlainHits /\ Distinct(old) /\ ~Cuts(r)
      /\ \A h \in old : h.id \in A
      /\ \A d \in StandingIn(had, r) \cap A : hit(d) \in old
  BY DEF Leading, Leads, Cuts
<1>3. all \subseteq PlainHits /\ Distinct(all) /\ \A h \in all : h.id \in B
  BY <1>2 DEF Distinct
<1>4. ASSUME NEW d \in StandingIn(had, r) \cap B
      PROVE  hit(d) \in all
  <2>1. CASE d \in A
    BY <1>2, <2>1
  <2>2. CASE d \notin A
    <3>1. hit(d) \in found
      BY <2>2
    <3>2. Were(had, d) # None /\ Matches(r, Were(had, d)) /\ hit(d).source = Were(had, d)
      BY DEF StandingIn, Hit
    <3>3. PatternsMatch(hit(d), r)
      BY <3>2 DEF PatternsMatch, Matches
    <3> HIDE DEF hit
    <3>4. QED
      BY <3>1, <3>3
  <2>3. QED
    BY <2>1, <2>2
<1> HIDE DEF all
<1>5. Leading(all, had, r, B)
  BY <1>2, <1>3, <1>4 DEF Leading, Leads
<1>6. QED
  BY <1>1, <1>5

----------------------------------------------------------------------------
(* The page that Qdrant orders.                                            *)

LEMMA StandingHits ==
    ASSUME NEW H, HistoryTyped(H), NEW r, NEW d \in StandingIn(H, r)
    PROVE  /\ d \in Docs /\ Still(H, d)
           /\ Were(H, d) \in Contents /\ Were(H, d) # None /\ Matches(r, Were(H, d))
           /\ Hit(d, 0, Were(H, d)) \in PlainHits
           /\ Hit(d, 0, Were(H, d)).id = d /\ Hit(d, 0, Were(H, d)).source = Were(H, d)
<1>1. d \in Docs /\ Still(H, d) /\ Were(H, d) # None /\ Matches(r, Were(H, d)) /\ d # r.like
  BY DEF StandingIn
<1>2. H[d].docs = {Were(H, d)} /\ H[d].docs \subseteq Contents \cup {None}
  BY <1>1, StillIsOne DEF HistoryTyped
<1>3. Were(H, d) \in Contents
  BY <1>1, <1>2
<1>4. QED
  BY <1>1, <1>3, PlainHitsAreHits DEF Hit

\* The hits of a page of points.
HitsOf(D, sources) == {Hit(d, 0, sources[d]) : d \in D}

LEMMA PointHits ==
    ASSUME NEW sources, NEW D \in SUBSET Docs, \A d \in D : sources[d] \in Contents
    PROVE  LET hits == HitsOf(D, sources)
           IN  /\ hits \in SUBSET PlainHits /\ Distinct(hits) /\ Ids(hits) = D
               /\ \A d \in D : Hit(d, 0, sources[d]) \in hits
               /\ \A h \in hits : h.id \in D /\ h.source = sources[h.id]
                                  /\ h = Hit(h.id, 0, sources[h.id])
<1>1. ASSUME NEW d \in D
      PROVE  /\ Hit(d, 0, sources[d]) \in PlainHits /\ Hit(d, 0, sources[d]).id = d
             /\ Hit(d, 0, sources[d]).source = sources[d]
  BY PlainHitsAreHits DEF Hit
<1>2. QED
  BY <1>1 DEF Distinct, Ids, HitsOf

LEMMA OrderedReplies ==
    ASSUME TypeOK, HistoryInv, NEW r, Asked(r), Accepted(r), Serves(projection, r),
           NEW hits, hits = {Hit(d, 0, points[d]) : d \in OrderedPoints(r)}
    PROVE  Replied(hits, had, r)
<1> DEFINE hit(d) == Hit(d, 0, points[d])
           after(d) == IsAfter(hit(d), r.after, r.sort)
           members == {d \in Scope(r.filter) : points[d].n.kind = "number" /\ after(d)}
           position(d) == CHOOSE i \in DOMAIN ScrollOrder : ScrollOrder[i] = d
           cmp(d, e) == HitCmp(hit(d), hit(e), r.sort)
           before(d, e) == cmp(d, e) < 0 \/ (cmp(d, e) = 0 /\ position(d) < position(e))
           R == {p \in members \X members : before(p[1], p[2])}
           n == Window(r) + 1
           listed == OrderedPoints(r)
<1>0. /\ r.sort \in Seq(Clauses) /\ Window(r) \in Nat /\ n \in Nat /\ HistoryTyped(had)
  BY AskedSort, AcceptedParts DEF HistoryInv
<1>1. ScopeOf(r) = Scope(r.filter)
  <2>1. (r.filter /\ ~r.sparse) <=> r.filter
    BY DEF Serves, FilterOnly
  <2>2. QED
    BY <2>1 DEF ScopeOf, Scope, InScope, Selected
<1>2. members \in SUBSET Docs /\ \A d \in members : points[d] \in Contents
  BY <1>1, ScopeIsFiltered
<1>3. \A d \in members : hit(d) \in PlainHits /\ after(d)
  BY <1>2, PlainHitsAreHits
<1>4. /\ \A d \in members : position(d) \in Positions /\ ScrollOrder[position(d)] = d
      /\ \A d \in members : position(d) \in Int
  <2>1. \A d \in members : position(d) \in Positions /\ ScrollOrder[position(d)] = d
    BY <1>2, PositionsAreDocs
  <2>2. \A i \in Positions : i \in Int
    BY PositionsAreDocs DEF Positions
  <2>3. QED
    BY <2>1, <2>2
<1>5. listed = {d \in members : Cardinality({e \in members : before(e, d)}) <= Window(r)}
  BY DEF OrderedPoints
<1>6. \A d, e \in members : <<d, e>> \in R <=> before(d, e)
  OBVIOUS
<1> HIDE DEF R, members, position, after, hit
<1>7. StrictOn(R, members)
  <2>1. \A d \in members : <<d, d>> \notin R
    <3> SUFFICES ASSUME NEW d \in members PROVE ~before(d, d)
      BY <1>6
    <3>1. cmp(d, d) = 0
      BY <1>0, <1>3, HitsCompare
    <3>2. QED
      BY <1>4, <3>1
  <2>2. ASSUME NEW d \in members, NEW e \in members, d # e
        PROVE  <<d, e>> \in R \/ <<e, d>> \in R
    <3>1. Opposite(cmp(d, e), cmp(e, d))
      BY <1>0, <1>3, HitsCompare
    <3>2. position(d) # position(e) /\ position(d) \in Int /\ position(e) \in Int
      BY <1>4, <2>2
    <3>3. position(d) < position(e) \/ position(e) < position(d)
      BY <3>2
    <3>4. before(d, e) \/ before(e, d)
      BY <3>1, <3>3 DEF Opposite
    <3>5. QED
      BY <1>6, <3>4
  <2>3. ASSUME NEW c \in members, NEW d \in members, NEW e \in members,
               <<c, d>> \in R, <<d, e>> \in R
        PROVE  <<c, e>> \in R
    <3>1. before(c, d) /\ before(d, e)
      BY <1>6, <2>3
    <3>2. cmp(c, d) \in Int /\ cmp(d, e) \in Int /\ cmp(c, e) \in Int
      BY <1>0, <1>3, PrecedesIsOrder
    <3>3. cmp(c, d) <= 0 /\ cmp(d, e) <= 0
      BY <3>1, <3>2
    <3>4. cmp(c, e) <= 0 /\ (cmp(c, d) < 0 \/ cmp(d, e) < 0 => cmp(c, e) < 0)
      BY <1>0, <1>3, <3>3, HitsOrder
    <3>5. CASE cmp(c, e) < 0
      BY <1>6, <3>5
    <3>6. CASE ~(cmp(c, e) < 0)
      <4>1. cmp(c, e) = 0 /\ cmp(c, d) = 0 /\ cmp(d, e) = 0
        BY <3>2, <3>3, <3>4, <3>6
      <4>2. position(c) < position(d) /\ position(d) < position(e)
        BY <3>1, <4>1
      <4>3. position(c) < position(e)
        BY <1>4, <4>2
      <4>4. QED
        BY <1>6, <4>1, <4>3
    <3>7. QED
      BY <3>5, <3>6
  <2>4. QED
    BY <2>1, <2>2, <2>3 DEF StrictOn
<1>8. listed = FirstOf(R, members, n)
  <2>1. \A d \in members : Before(R, members, d) = {e \in members : before(e, d)}
    BY <1>6 DEF Before
  <2>2. IsFiniteSet(members)
    BY <1>2, DocsAreCounted
  <2>3. \A d \in members : Cardinality(Before(R, members, d)) \in Nat
    <3> SUFFICES ASSUME NEW d \in members
                 PROVE  Cardinality(Before(R, members, d)) \in Nat
      OBVIOUS
    <3>1. Before(R, members, d) \in SUBSET members
      BY DEF Before
    <3>2. QED
      BY <2>2, <3>1, FS_Subset, FS_CardinalityType
  <2>4. \A d \in members : Cardinality(Before(R, members, d)) <= Window(r)
                                <=> Cardinality(Before(R, members, d)) < n
    BY <1>0, <2>3
  <2> HIDE DEF n, before
  <2>5. QED
    BY <1>5, <2>1, <2>4 DEF FirstOf
<1> HIDE DEF n, listed
<1>9. /\ Cardinality(listed) \in Nat /\ Cardinality(listed) <= n
      /\ Cardinality(members) \in Nat
      /\ Cardinality(members) <= n => listed = members
      /\ Cardinality(members) >= n => Cardinality(listed) = n
      /\ \A e \in members \ listed : \A d \in listed : <<d, e>> \in R
  <2>1. IsFiniteSet(members)
    BY <1>2, DocsAreCounted
  <2>2. QED
    BY <1>0, <1>7, <1>8, <2>1, FirstsPrecede
<1>10. listed \subseteq members
  BY <1>8 DEF FirstOf
<1>11. /\ hits \in SUBSET PlainHits /\ Distinct(hits) /\ Ids(hits) = listed
       /\ \A d \in listed : hit(d) \in hits
       /\ \A h \in hits : h.id \in listed /\ h = hit(h.id)
  <2>1. listed \in SUBSET Docs /\ \A d \in listed : points[d] \in Contents
    BY <1>2, <1>10
  <2>2. hits = HitsOf(listed, points)
    BY DEF listed, HitsOf
  <2>3. /\ hits \in SUBSET PlainHits /\ Distinct(hits) /\ Ids(hits) = listed
        /\ \A d \in listed : Hit(d, 0, points[d]) \in hits
        /\ \A h \in hits : h.id \in listed /\ h.source = points[h.id]
                           /\ h = Hit(h.id, 0, points[h.id])
    BY <2>1, <2>2, PointHits
  <2>4. QED
    BY <2>3 DEF hit
<1>12. Cardinality(hits) = Cardinality(listed)
  <2>1. hits \in SUBSET HitSet
    BY <1>11, PlainHitsAreHits
  <2>2. QED
    BY <1>11, <2>1, HitsAreCounted
<1>13. \A h \in hits : IsAfter(h, r.after, r.sort)
  BY <1>3, <1>10, <1>11 DEF after
<1>14. ASSUME NEW d \in StandingIn(had, r), NEW g, g = Hit(d, 0, Were(had, d)),
              Were(had, d).n.kind = "number", IsAfter(g, r.after, r.sort)
       PROVE  \/ g \in hits
              \/ Cardinality(hits) = n /\ \A h \in hits : HitCmp(h, g, r.sort) <= 0
  <2>1. d \in Docs /\ Still(had, d)
    BY DEF StandingIn
  <2>2. points[d] = Were(had, d) /\ d \in Scope(r.filter)
    BY <1>1, <2>1, IndexIsHistory, ScopeIsFiltered
  <2>3. g = hit(d)
    BY <1>14, <2>2 DEF hit
  <2>4. d \in members
    BY <1>14, <2>2, <2>3 DEF members, after
  <2>5. CASE d \in listed
    BY <1>11, <2>3, <2>5
  <2>6. CASE d \notin listed
    <3>1. ~(Cardinality(members) <= n)
      BY <1>9, <2>4, <2>6
    <3>2. Cardinality(listed) = n
      BY <1>0, <1>9, <3>1 DEF n
    <3>3. ASSUME NEW e \in listed PROVE HitCmp(hit(e), g, r.sort) <= 0
      <4>1. before(e, d)
        BY <1>6, <1>9, <1>10, <2>4, <2>6
      <4>2. cmp(e, d) \in Int
        BY <1>0, <1>3, <1>10, <2>4, PrecedesIsOrder
      <4>3. QED
        BY <2>3, <4>1, <4>2
    <3>4. QED
      BY <1>11, <1>12, <3>2, <3>3
  <2>7. QED
    BY <2>5, <2>6
<1>15. QED
  BY <1>9, <1>11, <1>12, <1>13, <1>14 DEF Replied, n

\* A page that is used leads all documents.
LEMMA OrderedLeads ==
    ASSUME NEW r, Asked(r), Accepted(r), NEW p, Serves(p, r), NEW H, HistoryTyped(H),
           ~UnprovedIn(H, r, "n"), NEW hits, Replied(hits, H, r), ~TieAtBoundary(r, hits)
    PROVE  Leading(First(hits, Window(r), r.sort), H, r, Docs)
<1> DEFINE first == First(hits, Window(r), r.sort)
<1>0. /\ r.sort \in Seq(Clauses) /\ Window(r) \in Nat /\ Cuts(r)
      /\ ~r.post /\ ~r.patterns /\ ~r.sparse
  BY AskedSort, AcceptedParts DEF Serves, FilterOnly, Cuts
<1>1. /\ hits \in SUBSET PlainHits /\ Distinct(hits)
      /\ \A h \in hits : IsAfter(h, r.after, r.sort)
  BY DEF Replied
<1>2. IsFiniteSet(hits) /\ Cardinality(hits) \in Nat
  BY <1>1, HitsAreFinite
<1>3. /\ first \subseteq hits /\ IsFiniteSet(first) /\ Cardinality(first) \in Nat
      /\ Cardinality(first) <= Window(r)
      /\ Cardinality(hits) <= Window(r) => first = hits
      /\ Cardinality(hits) >= Window(r) => Cardinality(first) = Window(r)
      /\ \A h \in hits \ first : \A g \in first : Precedes(g, h, r.sort)
  BY <1>0, <1>1, <1>2, FirstHits
<1>4. ASSUME NEW d \in StandingIn(H, r), NEW g, g = Hit(d, 0, Were(H, d))
      PROVE  Leads(first, g, r)
  <2>1. g \in PlainHits /\ Still(H, d) /\ d \in Docs /\ Were(H, d) # None
        /\ Matches(r, Were(H, d))
    BY <1>4, StandingHits
  <2>2. Were(H, d).n.kind = "number"
    <3>1. Selected(Were(H, d), r.filter)
      BY <1>0, <2>1 DEF Selected, Matches
    <3>2. Marked(Were(H, d), "n")
      BY <2>1, <3>1 DEF UnprovedIn
    <3>3. QED
      BY <3>2 DEF Marked
  <2>3. CASE ~IsAfter(g, r.after, r.sort)
    BY <1>0, <2>3 DEF Leads
  <2>4. CASE g \in hits
    BY <1>0, <1>1, <2>1, <2>4, FirstsLead
  <2>5. CASE /\ Cardinality(hits) = Window(r) + 1
             /\ \A h \in hits : HitCmp(h, g, r.sort) <= 0
    <3>1. Cardinality(first) = Window(r) /\ Cardinality(hits) > Window(r)
      BY <1>0, <1>3, <2>5
    <3>2. PICK x \in hits : x \notin first
      <4>1. first # hits
        BY <1>0, <2>5, <3>1
      <4>2. QED
        BY <1>3, <4>1
    <3>3. ASSUME NEW f \in first PROVE Precedes(f, g, r.sort)
      <4>1. Precedes(f, x, r.sort) /\ f \in PlainHits /\ x \in PlainHits
        BY <1>1, <1>3, <3>2
      <4>2. HitCmp(f, x, r.sort) <= 0 /\ HitCmp(f, x, r.sort) \in Int
        BY <1>0, <4>1, PrecedesIsOrder
      <4>3. HitCmp(f, x, r.sort) # 0
        BY <3>1, <3>2 DEF TieAtBoundary
      <4>4. HitCmp(f, x, r.sort) < 0
        BY <4>2, <4>3
      <4>5. HitCmp(x, g, r.sort) <= 0
        BY <2>5
      <4>6. HitCmp(f, g, r.sort) < 0
        BY <1>0, <2>1, <4>1, <4>2, <4>4, <4>5, HitsOrder
      <4>7. QED
        BY <4>6 DEF Precedes
    <3>4. QED
      BY <1>0, <3>1, <3>3 DEF Leads
  <2>6. QED
    BY <1>4, <2>2, <2>3, <2>4, <2>5 DEF Replied
<1>5. first \subseteq PlainHits /\ Distinct(first)
  BY <1>1, <1>3 DEF Distinct
<1>6. \A h \in first : h.id \in Docs /\ PostMatches(h, r) /\ IsAfter(h, r.after, r.sort)
  BY <1>0, <1>1, <1>3 DEF PlainHits, PostMatches
<1> HIDE DEF first
<1>7. QED
  BY <1>3, <1>4, <1>5, <1>6 DEF Leading, first

----------------------------------------------------------------------------
(* The reads of a search that sorts.                                       *)

Ready ==
    /\ Present /\ CursorFits(Request)
    /\ RankInv(search, projection, had, Request)
    /\ CoverInv(search, projection, had, Request)

\* Where a read of it leads.
Ranks(s) == s.pc # "done" => RankInv(s, projection, had, Request)

LEMMA JoiningRanks ==
    ASSUME NEW s, NEW p, NEW H, NEW r, s.pc = "join", PlainCount(r) \/ Accepted(r),
           Joining(s, p, H, r)
    PROVE  RankInv(s, p, H, r)
BY DEF RankInv

\* Where only what is not sorted can be, there is nothing to show.
LEMMA OthersRank ==
    ASSUME NEW s, NEW p, NEW H, NEW r, s.pc # "join", PlainCount(r) \/ Accepted(r),
           ~Sorts(p, r)
    PROVE  RankInv(s, p, H, r)
BY DEF RankInv

LEMMA ReadyParts ==
    ASSUME Ready
    PROVE  /\ TypeOK /\ SearchTyped(search) /\ HistoryInv /\ HistoryTyped(had)
           /\ Asked(Request) /\ Fit(Request) /\ CursorFits(Request)
           /\ SearchInv(search, projection, had, Request)
           /\ PlainCount(Request) \/ Accepted(Request)
           /\ RankInv(search, projection, had, Request)
           /\ CoverInv(search, projection, had, Request)
BY DEF Ready, Present, RankInv, HistoryInv

LEMMA ReadLikeRanks ==
    ASSUME Ready, ReadLike
    PROVE  Ranks(search')
<1> DEFINE r == Request
           s == search'
<1>0. /\ SearchTyped(search) /\ search.pc = "like"
      /\ SearchInv(search, projection, had, r) /\ (PlainCount(r) \/ Accepted(r))
  BY ReadyParts DEF ReadLike, At
<1>1. CASE Answered(Error)
  BY <1>1 DEF Answered, NoSearch, Ranks
<1>2. CASE search' = [search EXCEPT !.pc = "join", !.like = docs[r.like]]
  <2>1. s.pc = "join" /\ s.waiting = search.waiting /\ s.reply = search.reply
    BY <1>0, <1>2 DEF SearchTyped
  <2> HIDE DEF s
  <2>2. r.like # None
    BY <1>0, KnownParts DEF Placed
  <2>3. search.waiting = {} /\ search.reply = None
    BY <1>0, <2>2, KnownParts DEF Joined, FilterOnly, Ranked
  <2>4. Joining(s, projection, had, r)
    BY <2>1, <2>3 DEF Joining
  <2>5. RankInv(s, projection, had, r)
    BY <1>0, <2>1, <2>4, JoiningRanks
  <2>6. QED
    BY <2>5 DEF Ranks, s
<1>3. QED
  BY <1>1, <1>2 DEF ReadLike

LEMMA JoiningReadsRank ==
    ASSUME Ready, search.pc = "join"
    PROVE  /\ ReadCount => Ranks(search')
           /\ ReadOrderedCoverage => Ranks(search')
           /\ ReadOrdered => Ranks(search')
           /\ ReadAggregation => Ranks(search')
<1> DEFINE r == Request
           s == search'
<1>0. /\ SearchTyped(search) /\ TypeOK /\ HistoryInv /\ Asked(r)
      /\ SearchInv(search, projection, had, r) /\ (PlainCount(r) \/ Accepted(r))
      /\ RankInv(search, projection, had, r) /\ CoverInv(search, projection, had, r)
  BY ReadyParts
<1>1. Joining(search, projection, had, r)
  BY <1>0 DEF RankInv
<1>2. ASSUME s.pc = "join", Joining(s, projection, had, r)
      PROVE  Ranks(search')
  <2> HIDE DEF s
  <2>1. RankInv(s, projection, had, r)
    BY <1>0, <1>2, JoiningRanks
  <2>2. QED
    BY <2>1 DEF Ranks, s
<1>3. ASSUME ReadCount
      PROVE  Ranks(search')
  <2>1. PICK n : search' = [search EXCEPT !.waiting = @ \ {"count"}, !.exact = n]
    BY <1>3 DEF ReadCount
  <2>2. /\ s.pc = "join" /\ s.waiting = search.waiting \ {"count"}
        /\ s.reply = search.reply /\ s.covered = search.covered
    BY <1>0, <2>1 DEF SearchTyped
  <2> HIDE DEF s
  <2>3. Joining(s, projection, had, r)
    BY <1>1, <2>2 DEF Joining
  <2>4. QED
    BY <1>2, <2>2, <2>3
<1>4. ASSUME ReadOrderedCoverage
      PROVE  Ranks(search')
  <2>1. PICK c \in BOOLEAN :
            search' = [search EXCEPT !.waiting = @ \ {"coverage"}, !.covered = c]
    BY <1>4 DEF ReadOrderedCoverage
  <2>2. /\ s.pc = "join" /\ s.waiting = search.waiting \ {"coverage"}
        /\ s.reply = search.reply /\ s.covered = c
    BY <1>0, <2>1 DEF SearchTyped
  <2> HIDE DEF s
  <2>3. Joining(s, projection, had, r)
    BY <1>1, <2>2 DEF Joining
  <2>4. QED
    BY <1>2, <2>2, <2>3
<1>5. ASSUME ReadOrdered
      PROVE  Ranks(search')
  <2> DEFINE found == {Hit(d, 0, points[d]) : d \in OrderedPoints(r)}
  <2>1. PICK reply \in {[refused |-> TRUE, hits |-> {}], [refused |-> FALSE, hits |-> found]} :
            search' = [search EXCEPT !.waiting = @ \ {"ordered"}, !.reply = reply]
    BY <1>5 DEF ReadOrdered
  <2>2. "ordered" \in search.waiting
    BY <1>5 DEF ReadOrdered
  <2>3. /\ s.pc = "join" /\ s.waiting = search.waiting \ {"ordered"}
        /\ s.reply = reply /\ s.covered = search.covered
    BY <1>0, <2>1 DEF SearchTyped
  <2>4. /\ Serves(projection, r)
        /\ "coverage" \in search.waiting \/ search.covered \in BOOLEAN
    BY <1>1, <2>2 DEF Joining
  <2>5. Accepted(r)
    <3>1. r.sort # <<>>
      BY <2>4 DEF Serves
    <3>2. QED
      BY <1>0, <3>1 DEF PlainCount, Asked
  <2> HIDE DEF s
  <2>6. ASSUME ~reply.refused PROVE Replied(reply.hits, had, r)
    <3>1. reply.hits = found
      <4> HIDE DEF found
      <4>1. QED
        BY <2>1, <2>6
    <3>2. Replied(found, had, r)
      BY <1>0, <2>4, <2>5, OrderedReplies
    <3>3. QED
      BY <3>1, <3>2
  <2>7. Joining(s, projection, had, r)
    BY <2>3, <2>4, <2>6 DEF Joining
  <2>8. QED
    BY <1>2, <2>3, <2>7
<1>6. ASSUME ReadAggregation
      PROVE  Ranks(search')
  BY <1>0, <1>6 DEF ReadAggregation, Ranks
<1>7. QED
  BY <1>3, <1>4, <1>5, <1>6

LEMMA JoinRanks ==
    ASSUME Ready, Join
    PROVE  Ranks(search')
<1> DEFINE r == Request
           s == search'
           ordered == Ordered(r)
           pc == Source(r, ordered)
<1>0. /\ SearchTyped(search) /\ search.pc = "join" /\ Asked(r) /\ HistoryTyped(had)
      /\ SearchInv(search, projection, had, r) /\ (PlainCount(r) \/ Accepted(r))
      /\ search.waiting = {}
      /\ RankInv(search, projection, had, r) /\ CoverInv(search, projection, had, r)
  BY ReadyParts DEF Join, At
<1>1. CASE Answered(Error)
  BY <1>1 DEF Answered, NoSearch, Ranks
<1>2. CASE /\ ~(search.covered = TRUE /\ search.reply.refused)
           /\ s = [search EXCEPT
                    !.pc = pc,
                    !.ordered = ordered,
                    !.fields = IF pc = "ranked" THEN DOMAIN r.text ELSE {},
                    !.hits = IF ordered = None THEN {} ELSE ordered]
  <2>1. pc \in {"finish", "approximate", "ranked", "scroll"}
    BY DEF Source
  <2>2. /\ s.pc = pc /\ s.ordered = ordered /\ s.offset = search.offset
        /\ s.hits = IF ordered = None THEN {} ELSE ordered
    <3>1. PICK fields, hits : /\ hits = IF ordered = None THEN {} ELSE ordered
                              /\ s = [search EXCEPT !.pc = pc, !.ordered = ordered,
                                                    !.fields = fields, !.hits = hits]
      BY <1>2
    <3> HIDE DEF ordered, pc, s
    <3>2. QED
      BY <1>0, <3>1 DEF SearchTyped
  <2>3. search.offset = 1
    BY <1>0, KnownParts DEF Placed
  <2>4. Joining(search, projection, had, r)
    BY <1>0 DEF RankInv
  <2> HIDE DEF s
  <2>5. CASE ~Sorts(projection, r)
    <3>1. RankInv(s, projection, had, r)
      BY <1>0, <2>1, <2>2, <2>5, OthersRank
    <3>2. QED
      BY <3>1 DEF Ranks, s
  <2>6. CASE Sorts(projection, r)
    <3>1. /\ Accepted(r) /\ ~PlainCount(r) /\ ~Ranked(r) /\ ~r.sparse /\ ~r.approximate
          /\ r.sort # <<>>
      BY <1>0, <2>6, SortsParts
    <3>2. Window(r) \in Nat
      BY <1>0, <3>1, AcceptedParts
    <3>3. CASE ordered # None
      <4>1. /\ search.reply # None /\ search.covered
            /\ ~TieAtBoundary(r, search.reply.hits)
            /\ ordered = First(search.reply.hits, Window(r), r.sort)
        BY <3>3 DEF Ordered
      <4>2. Serves(projection, r) /\ search.covered = TRUE
        BY <1>0, <2>4, <4>1 DEF Joining
      <4>3. ~search.reply.refused
        BY <1>2, <4>2
      <4>4. Replied(search.reply.hits, had, r)
        BY <2>4, <4>1, <4>3 DEF Joining
      <4>5. ~UnprovedIn(had, r, "n")
        BY <1>0, <4>2 DEF CoverInv
      <4>6. Leading(First(search.reply.hits, Window(r), r.sort), had, r, Docs)
        BY <1>0, <3>1, <4>1, <4>2, <4>4, <4>5, OrderedLeads
      <4>7. pc = "finish"
        BY <3>3 DEF Source
      <4>8. s.pc = "finish" /\ Leading(s.hits, had, r, Docs)
        BY <2>2, <3>3, <4>1, <4>6, <4>7
      <4>9. RankInv(s, projection, had, r)
        BY <1>0, <4>8 DEF RankInv
      <4>10. QED
        BY <4>9 DEF Ranks, s
    <3>4. CASE ordered = None
      <4>1. s.hits = {} /\ s.offset = 1 /\ s.ordered = None /\ s.pc = pc
        BY <2>2, <2>3, <3>4
      <4>2. Leading(s.hits, had, r, Passed(s.offset))
        <5>1. Passed(1) = {}
          BY PassedDocs
        <5>2. QED
          BY <3>2, <4>1, <5>1, NothingLeads
      <4>3. pc \in {"finish", "scroll"}
        BY <3>1 DEF Source
      <4>4. pc = "finish" => CountOnly(r)
        BY <3>1, <3>4 DEF Source, PlainCount
      <4>5. pc = "finish" => r.size = 0
        BY <4>4 DEF CountOnly
      <4>6. pc = "scroll" => r.patterns \/ Scans(s, projection, r)
        <5>1. pc = "scroll" => ~CountOnly(r)
          BY DEF Source
        <5>2. QED
          BY <3>1, <4>1, <5>1 DEF CountOnly, Scans
      <4>7. RankInv(s, projection, had, r)
        BY <1>0, <4>1, <4>2, <4>3, <4>5, <4>6 DEF RankInv, Seen
      <4>8. QED
        BY <4>7 DEF Ranks, s
    <3>5. QED
      BY <3>3, <3>4
  <2>7. QED
    BY <2>5, <2>6
<1>3. QED
  BY <1>1, <1>2 DEF Join

\* A page of the scan.
LEMMA GatheredRanks ==
    ASSUME Ready, NEW r, r = Request, Sorts(projection, r),
           r.patterns \/ Scans(search, projection, r), NEW found, NEW next,
           Leading(Gather(found, next).hits, had, r, Passed(next))
    PROVE  Ranks(Gather(found, next))
<1> DEFINE s == Gather(found, next)
<1>0. SearchTyped(search) /\ (PlainCount(r) \/ Accepted(r))
  BY ReadyParts
<1>1. s.pc \in {"gathered", "scroll"} /\ s.offset = next /\ s.ordered = search.ordered
  BY <1>0 DEF Gather, SearchTyped
<1> HIDE DEF s
<1>2. Leading(s.hits, had, r, Seen(s))
  BY <1>1 DEF Seen, s
<1>3. r.patterns \/ Scans(s, projection, r)
  BY <1>1 DEF Scans
<1>4. RankInv(s, projection, had, r)
  BY <1>0, <1>1, <1>2, <1>3 DEF RankInv
<1>5. QED
  BY <1>4 DEF Ranks, s

LEMMA ReadPageRanks ==
    ASSUME Ready, ReadPage
    PROVE  Ranks(search')
<1> DEFINE r == Request
           s == search'
           limit == IF r.patterns \/ CompleteScan(r) THEN MaxPageSize ELSE CandidateLimit(r)
           page == ScrollPage(ScopeOf(r), search.offset, limit)
           source(d) == IF projection THEN None ELSE points[d]
           found == {Hit(d, 0, source(d)) : d \in ToSet(page.docs)}
           old == Passed(search.offset)
           new == Passed(page.next)
<1>0. /\ SearchTyped(search) /\ search.pc = "scroll" /\ Asked(r)
      /\ SearchInv(search, projection, had, r)
      /\ TypeOK /\ HistoryInv /\ HistoryTyped(had)
      /\ Fit(r) /\ (PlainCount(r) \/ Accepted(r)) /\ RankInv(search, projection, had, r)
  BY ReadyParts DEF ReadPage, At
<1>1. s = IF CompleteScan(r) /\ projection
          THEN [search EXCEPT !.pc = "sources", !.batch = page.docs, !.offset = page.next]
          ELSE Gather(found, page.next)
  BY DEF ReadPage
<1>2. search.offset \in Nat \ {0} /\ ~PlainCount(r)
  BY <1>0, SearchParts, KnownParts DEF Placed
<1>3. /\ page.docs \in Seq(Docs) /\ page.next \in Nat
      /\ old \subseteq new
      /\ ToSet(page.docs) = ScopeOf(r) \cap (new \ old)
  <2>1. limit \in Nat
    <3>1. MaxPageSize \in Nat
      BY SearchAssumption
    <3>2. CASE r.patterns \/ CompleteScan(r)
      BY <3>1, <3>2
    <3>3. CASE ~(r.patterns \/ CompleteScan(r))
      <4>1. Window(r) \in Nat
        BY <1>0, <1>2, AcceptedParts
      <4>2. CandidateLimit(r) \in Nat
        BY <3>1, <4>1 DEF CandidateLimit
      <4>3. QED
        BY <3>3, <4>2
    <3>4. QED
      BY <3>2, <3>3
  <2>2. ScopeOf(r) \in SUBSET Docs
    BY <1>0, ScopeIsFiltered
  <2> HIDE DEF limit
  <2>3. QED
    BY <1>2, <2>1, <2>2, PageHasWhatIsLeft
<1>4. StandingIn(had, r) \cap (new \ old) \subseteq ToSet(page.docs)
  BY <1>0, <1>3, ScopeIsFiltered
<1> HIDE DEF page, limit
<1>5. CASE ~Sorts(projection, r)
  <2>1. s.pc # "join"
    <3>1. Gather(found, page.next).pc \in {"gathered", "scroll"}
      BY <1>0 DEF Gather, SearchTyped
    <3>2. [search EXCEPT !.pc = "sources", !.batch = page.docs, !.offset = page.next].pc
            = "sources"
      BY <1>0 DEF SearchTyped
    <3> HIDE DEF s, found
    <3>3. QED
      BY <1>1, <3>1, <3>2
  <2> HIDE DEF s
  <2>2. RankInv(s, projection, had, r)
    BY <1>0, <1>5, <2>1, OthersRank
  <2>3. QED
    BY <2>2 DEF Ranks, s
<1>6. CASE Sorts(projection, r)
  <2>1. /\ r.patterns \/ Scans(search, projection, r)
        /\ Leading(search.hits, had, r, old)
    BY <1>0, <1>6 DEF RankInv, Seen
  <2>2. CompleteScan(r) <=> Scans(search, projection, r)
    BY DEF CompleteScan, CountOnly, Scans
  <2>3. Accepted(r) /\ (r.patterns => ~projection)
    BY <1>0, <1>6, SortsParts
  <2>4. CASE CompleteScan(r) /\ projection
    <3>1. s = [search EXCEPT !.pc = "sources", !.batch = page.docs, !.offset = page.next]
      BY <1>1, <2>4
    <3>2. /\ s.pc = "sources" /\ s.batch = page.docs /\ s.offset = page.next
          /\ s.hits = search.hits /\ s.ordered = search.ordered
      BY <1>0, <3>1 DEF SearchTyped
    <3> HIDE DEF s
    <3>3. Scans(s, projection, r)
      BY <2>2, <2>4, <3>2 DEF Scans
    <3>4. Seen(s) = new \ ToSet(page.docs)
      BY <3>2 DEF Seen
    <3>5. \A h \in search.hits : h.id \in new \ ToSet(page.docs)
      <4>1. \A h \in search.hits : h.id \in old
        BY <2>1 DEF Leading
      <4>2. old \subseteq new \ ToSet(page.docs)
        BY <1>3
      <4>3. QED
        BY <4>1, <4>2
    <3>6. StandingIn(had, r) \cap (new \ ToSet(page.docs)) \subseteq old
      BY <1>4
    <3>7. Leading(search.hits, had, r, new \ ToSet(page.docs))
      BY <2>1, <3>5, <3>6, LeadingWiden
    <3>8. RankInv(s, projection, had, r)
      BY <1>0, <3>2, <3>3, <3>4, <3>7 DEF RankInv
    <3>9. QED
      BY <3>8 DEF Ranks, s
  <2>5. CASE ~(CompleteScan(r) /\ projection)
    <3>1. ~projection
      BY <2>1, <2>2, <2>3, <2>5
    <3>2. s = Gather(found, page.next)
      BY <1>1, <2>5
    <3>3. found = HitsOf(ToSet(page.docs), points)
      BY <3>1 DEF HitsOf
    <3>4. /\ ToSet(page.docs) \in SUBSET Docs
          /\ \A d \in ToSet(page.docs) : points[d] \in Contents
      BY <1>0, <1>3, ScopeIsFiltered
    <3> HIDE DEF found, s
    <3>5. /\ found \in SUBSET PlainHits /\ Distinct(found) /\ Ids(found) = ToSet(page.docs)
          /\ \A d \in ToSet(page.docs) : Hit(d, 0, points[d]) \in found
          /\ \A h \in found : h.id \in ToSet(page.docs) /\ h.source = points[h.id]
                              /\ h = Hit(h.id, 0, points[h.id])
      BY <3>3, <3>4, PointHits
    <3>6. \A h \in found : h.id \in new \ old
      BY <1>3, <3>5
    <3>7. \A d \in StandingIn(had, r) \cap (new \ old) : Hit(d, 0, Were(had, d)) \in found
      <4> SUFFICES ASSUME NEW d \in StandingIn(had, r) \cap (new \ old)
                   PROVE  Hit(d, 0, Were(had, d)) \in found
        OBVIOUS
      <4>1. d \in Docs /\ Still(had, d)
        BY DEF StandingIn
      <4>2. points[d] = Were(had, d)
        BY <1>0, <4>1, IndexIsHistory
      <4>3. Hit(d, 0, points[d]) \in found
        BY <1>4, <3>5
      <4>4. QED
        BY <4>2, <4>3
    <3>8. Leading(Gather(found, page.next).hits, had, r, new)
      <4> HIDE DEF new, old
      <4>1. CASE CompleteScan(r)
        BY <1>0, <1>3, <1>6, <2>1, <2>3, <3>5, <3>6, <3>7, <4>1, GatherScansLeads
      <4>2. CASE ~CompleteScan(r)
        <5>1. r.patterns
          BY <2>1, <2>2, <4>2
        <5>2. QED
          BY <1>0, <1>3, <2>1, <3>5, <3>6, <3>7, <4>2, <5>1, GatherSomeLeads
      <4>3. QED
        BY <4>1, <4>2
    <3>9. Ranks(Gather(found, page.next))
      BY <1>6, <2>1, <3>8, GatheredRanks
    <3>10. QED
      BY <3>2, <3>9 DEF s
  <2>6. QED
    BY <2>4, <2>5
<1>7. QED
  BY <1>5, <1>6

LEMMA ReadSourcesRanks ==
    ASSUME Ready, ReadSources
    PROVE  Ranks(search')
<1> DEFINE r == Request
           s == search'
           there == {d \in ToSet(search.batch) : docs[d] # None}
           found == {Hit(d, 0, docs[d]) : d \in there}
           next == search.offset
           new == Passed(next)
           old == new \ ToSet(search.batch)
<1>0. /\ SearchTyped(search) /\ search.pc = "sources" /\ Asked(r)
      /\ SearchInv(search, projection, had, r)
      /\ TypeOK /\ HistoryInv /\ HistoryTyped(had)
      /\ (PlainCount(r) \/ Accepted(r)) /\ RankInv(search, projection, had, r)
      /\ s = Gather(found, next)
  BY ReadyParts DEF ReadSources, At
<1>1. Scans(search, projection, r) /\ CompleteScan(r)
  BY <1>0, KnownParts DEF Placed, CompleteScan, CountOnly, Scans
<1>2. next \in Nat /\ ToSet(search.batch) \subseteq Docs
  BY <1>0, SearchParts DEF ToSet
<1>3. ToSet(search.batch) \subseteq new
  BY <1>0, KnownParts DEF Batched
<1>4. CASE ~Sorts(projection, r)
  <2>1. s.pc # "join"
    BY <1>0 DEF Gather, SearchTyped
  <2> HIDE DEF s
  <2>2. RankInv(s, projection, had, r)
    BY <1>0, <1>4, <2>1, OthersRank
  <2>3. QED
    BY <2>2 DEF Ranks, s
<1>5. CASE Sorts(projection, r)
  <2>1. Leading(search.hits, had, r, old)
    BY <1>0, <1>5 DEF RankInv, Seen
  <2>2. Accepted(r)
    BY <1>0, <1>5, SortsParts
  <2>3. there \in SUBSET Docs /\ \A d \in there : docs[d] \in Contents
    BY <1>0, <1>2 DEF TypeOK
  <2>4. found = HitsOf(there, docs)
    BY DEF HitsOf
  <2> HIDE DEF found, there, s
  <2>5. /\ found \in SUBSET PlainHits /\ Distinct(found) /\ Ids(found) = there
        /\ \A d \in there : Hit(d, 0, docs[d]) \in found
        /\ \A h \in found : h.id \in there /\ h.source = docs[h.id]
                            /\ h = Hit(h.id, 0, docs[h.id])
    BY <2>3, <2>4, PointHits
  <2>6. \A h \in found : h.id \in new \ old
    BY <1>3, <2>5 DEF there
  <2>7. \A d \in StandingIn(had, r) \cap (new \ old) : Hit(d, 0, Were(had, d)) \in found
    <3> SUFFICES ASSUME NEW d \in StandingIn(had, r) \cap (new \ old)
                 PROVE  Hit(d, 0, Were(had, d)) \in found
      OBVIOUS
    <3>1. d \in Docs /\ Still(had, d) /\ Were(had, d) # None
      BY DEF StandingIn
    <3>2. docs[d] = Were(had, d)
      BY <1>0, <3>1, IndexIsHistory
    <3>3. d \in there
      BY <3>1, <3>2 DEF there
    <3>4. QED
      BY <2>5, <3>2, <3>3
  <2>8. old \subseteq new
    OBVIOUS
  <2>9. Leading(Gather(found, next).hits, had, r, new)
    <3> HIDE DEF new, old, next
    <3>1. QED
      BY <1>0, <1>1, <1>5, <2>1, <2>2, <2>5, <2>6, <2>7, <2>8, GatherScansLeads
  <2>10. Ranks(Gather(found, next))
    <3> HIDE DEF next
    <3>1. QED
      BY <1>1, <1>5, <2>9, GatheredRanks
  <2>11. QED
    BY <1>0, <2>10 DEF s
<1>6. QED
  BY <1>4, <1>5

\* Nothing else is read for a search that sorts.
LEMMA OtherReadsRank ==
    ASSUME Ready
    PROVE  /\ \A f \in TextFields : ReadRanked(f) => Ranks(search')
           /\ ReadApproximate => Ranks(search')
           /\ Hydrate => Ranks(search')
<1> DEFINE r == Request
           s == search'
<1>0. /\ SearchTyped(search) /\ Asked(r) /\ (PlainCount(r) \/ Accepted(r))
      /\ SearchInv(search, projection, had, r) /\ RankInv(search, projection, had, r)
  BY ReadyParts
<1>1. Sorts(projection, r) => ~Ranked(r) /\ ~r.approximate /\ (r.patterns => ~projection)
  BY <1>0, SortsParts
<1>2. ASSUME s.pc # "join", ~Sorts(projection, r)
      PROVE  Ranks(search')
  <2> HIDE DEF s
  <2>1. RankInv(s, projection, had, r)
    BY <1>0, <1>2, OthersRank
  <2>2. QED
    BY <2>1 DEF Ranks, s
<1>3. ASSUME NEW f \in TextFields, ReadRanked(f)
      PROVE  Ranks(search')
  <2>1. search.pc = "ranked"
    BY <1>3 DEF ReadRanked, At
  <2>2. PICK fields, hits : search' = [search EXCEPT !.fields = fields, !.hits = hits]
    BY <1>3 DEF ReadRanked
  <2>3. s.pc = "ranked"
    BY <1>0, <2>1, <2>2 DEF SearchTyped
  <2>4. Ranked(r)
    BY <1>0, <2>1, KnownParts DEF Placed
  <2>5. QED
    BY <1>1, <1>2, <2>3, <2>4
<1>4. ASSUME ReadApproximate
      PROVE  Ranks(search')
  <2>1. search.pc = "approximate"
    BY <1>4 DEF ReadApproximate, At
  <2>2. PICK hits, next :
            search' = [search EXCEPT !.hits = hits, !.offset = next,
                                     !.pc = IF next = 0 THEN "gathered" ELSE "approximate"]
    BY <1>4 DEF ReadApproximate
  <2>3. s.pc \in {"gathered", "approximate"}
    BY <1>0, <2>2 DEF SearchTyped
  <2>4. r.approximate
    BY <1>0, <2>1, KnownParts DEF Placed
  <2>5. QED
    BY <1>1, <1>2, <2>3, <2>4
<1>5. ASSUME Hydrate
      PROVE  Ranks(search')
  <2>1. /\ search.pc \in {"gathered", "ranked"} /\ projection
        /\ ~Scans(search, projection, r)
    BY <1>5 DEF Hydrate, Gathered, At, CompleteScan, CountOnly, Scans
  <2>2. PICK hits : search' = [search EXCEPT !.pc = "finish", !.hits = hits]
    BY <1>5 DEF Hydrate
  <2>3. s.pc = "finish"
    BY <1>0, <2>2 DEF SearchTyped
  <2>4. CASE search.pc = "ranked"
    <3>1. Ranked(r)
      BY <1>0, <2>4, KnownParts DEF Placed
    <3>2. QED
      BY <1>1, <1>2, <2>3, <3>1
  <2>5. CASE search.pc = "gathered"
    <3>1. ~Sorts(projection, r)
      BY <1>0, <1>1, <2>1, <2>5 DEF RankInv
    <3>2. QED
      BY <1>2, <2>3, <3>1
  <2>6. QED
    BY <2>1, <2>4, <2>5
<1>6. QED
  BY <1>3, <1>4, <1>5

----------------------------------------------------------------------------
(* Hits are finitely many.                                                 *)

LEMMA HitsStayFinite ==
    ASSUME Finite(search), SearchTyped(search), TypeOK,
           NEW hits, IsFiniteSet(hits), search'.hits \subseteq search.hits \cup hits,
           search'.reply = search.reply
    PROVE  Finite(search')
<1>1. IsFiniteSet(search.hits \cup hits)
  BY FS_Union DEF Finite
<1>2. IsFiniteSet(search'.hits)
  BY <1>1, FS_Subset
<1>3. QED
  BY <1>2 DEF Finite

LEMMA HitsOfDocs ==
    ASSUME NEW D \in SUBSET Docs, NEW f
    PROVE  IsFiniteSet({f[d] : d \in D})
<1>1. IsFiniteSet(D)
  BY DocsAreCounted
<1>2. QED
  BY <1>1, ImagesAreFinite

LEMMA GatherIsFinite ==
    ASSUME Finite(search), SearchTyped(search), TypeOK,
           NEW found, IsFiniteSet(found), NEW next, search' = Gather(found, next)
    PROVE  Finite(search')
<1> DEFINE r == Request
           complete == CompleteScan(r)
           kept == {h \in found : complete => PostMatches(h, r)}
           all == search.hits \cup
                     {h \in kept : /\ PatternsMatch(h, r)
                                   /\ complete /\ r.collapse = None
                                          => IsAfter(h, r.after, r.sort)}
           hits == IF complete THEN Keep(r, all) ELSE all
<1>1. all \subseteq search.hits \cup found
  OBVIOUS
<1>2. hits \subseteq all
  <2> HIDE DEF all
  <2>1. QED
    BY DEF Keep, First
<1>3. search'.hits = hits /\ search'.reply = search.reply
  BY DEF Gather, SearchTyped
<1> HIDE DEF hits, all
<1>4. search'.hits \subseteq search.hits \cup found
  BY <1>1, <1>2, <1>3
<1>5. QED
  BY <1>3, <1>4, HitsStayFinite

LEMMA PagesAreFinite ==
    ASSUME NEW members, NEW offset, NEW limit
    PROVE  IsFiniteSet(ToSet(ScrollPage(members, offset, limit).docs))
<1> DEFINE left == {i \in DOMAIN ScrollOrder : i >= offset /\ ScrollOrder[i] \in members}
           rank(i) == Cardinality({j \in left : j < i})
           n == Cardinality({i \in left : rank(i) < limit})
           listed == [r \in 1..n |-> ScrollOrder[CHOOSE i \in left : rank(i) = r - 1]]
<1>1. ScrollPage(members, offset, limit).docs = listed
  BY DEF ScrollPage
<1>2. n \in Nat
  <2>1. {i \in left : rank(i) < limit} \in SUBSET Positions
    BY PositionsAreDocs
  <2>2. IsFiniteSet({i \in left : rank(i) < limit})
    BY <2>1, RanksNumber
  <2>3. QED
    BY <2>2, FS_CardinalityType
<1>3. IsFiniteSet(1..n)
  <2> HIDE DEF n
  <2>1. QED
    BY <1>2, CountedTo
<1>4. ToSet(listed) = {listed[r] : r \in 1..n}
  BY DEF ToSet
<1> HIDE DEF listed, n
<1>5. IsFiniteSet({listed[r] : r \in 1..n})
  BY <1>3, ImagesAreFinite
<1>6. QED
  BY <1>1, <1>4, <1>5

\* A step that keeps the hits, and one that ends the search.
LEMMA OthersStayFinite ==
    /\ Finite(search) /\ search'.hits = search.hits /\ search'.reply = search.reply
            => Finite(search')
    /\ search' = NoSearch => Finite(search')
    /\ search' = [NoSearch EXCEPT !.pc = "done"] => Finite(search')
<1>1. IsFiniteSet({})
  BY FS_EmptySet
<1>2. ASSUME search' = NoSearch \/ search' = [NoSearch EXCEPT !.pc = "done"]
      PROVE  Finite(search')
  <2>1. search'.hits = {} /\ search'.reply = None
    BY <1>2 DEF NoSearch
  <2>2. QED
    BY <1>1, <2>1 DEF Finite
<1>3. ASSUME Finite(search), search'.hits = search.hits, search'.reply = search.reply
      PROVE  Finite(search')
  BY <1>3 DEF Finite
<1>4. QED
  BY <1>2, <1>3

LEMMA ReadsAreFinite ==
    ASSUME TypeOK, SearchTyped(search), Finite(search)
    PROVE  /\ ReadLike => Finite(search')
           /\ ReadCount => Finite(search')
           /\ ReadOrderedCoverage => Finite(search')
           /\ ReadOrdered => Finite(search')
           /\ ReadAggregation => Finite(search')
           /\ Join => Finite(search')
<1> DEFINE r == Request
<1>1. ASSUME ReadLike
      PROVE  Finite(search')
  <2>1. CASE Answered(Error)
    BY <2>1, OthersStayFinite DEF Answered
  <2>2. CASE search' = [search EXCEPT !.pc = "join", !.like = docs[Request.like]]
    <3>1. search'.hits = search.hits /\ search'.reply = search.reply
      BY <2>2 DEF SearchTyped
    <3>2. QED
      BY <3>1, OthersStayFinite
  <2>3. QED
    BY <1>1, <2>1, <2>2 DEF ReadLike
<1>2. ASSUME ReadCount \/ ReadOrderedCoverage \/ ReadAggregation
      PROVE  Finite(search')
  <2>1. search'.hits = search.hits /\ search'.reply = search.reply
    BY <1>2 DEF ReadCount, ReadOrderedCoverage, ReadAggregation, SearchTyped
  <2>2. QED
    BY <2>1, OthersStayFinite
<1>3. ASSUME ReadOrdered
      PROVE  Finite(search')
  <2> DEFINE D == OrderedPoints(r)
             f == [d \in D |-> Hit(d, 0, points[d])]
             found == {Hit(d, 0, points[d]) : d \in D}
  <2>1. PICK reply \in {[refused |-> TRUE, hits |-> {}], [refused |-> FALSE, hits |-> found]} :
            search' = [search EXCEPT !.waiting = @ \ {"ordered"}, !.reply = reply]
    BY <1>3 DEF ReadOrdered
  <2>2. D \in SUBSET Docs
    BY DEF OrderedPoints, Scope
  <2>3. found = {f[d] : d \in D}
    OBVIOUS
  <2>4. search'.hits = search.hits /\ search'.reply = reply
    BY <2>1 DEF SearchTyped
  <2>5. reply.hits = {} \/ reply.hits = found
    BY <2>1
  <2> HIDE DEF D, f, found
  <2>6. IsFiniteSet(found)
    BY <2>2, <2>3, HitsOfDocs
  <2>7. IsFiniteSet(reply.hits)
    BY <2>5, <2>6, FS_EmptySet
  <2>8. QED
    BY <2>4, <2>7 DEF Finite
<1>4. ASSUME Join
      PROVE  Finite(search')
  <2> DEFINE ordered == Ordered(r)
  <2>1. CASE Answered(Error)
    BY <2>1, OthersStayFinite DEF Answered
  <2>2. CASE ~Answered(Error)
    <3>1. PICK pc, fields, hits :
            /\ hits = IF ordered = None THEN {} ELSE ordered
            /\ search' = [search EXCEPT !.pc = pc, !.ordered = ordered,
                                        !.fields = fields, !.hits = hits]
      BY <1>4, <2>2 DEF Join
    <3>2. ordered # None =>
            search.reply # None /\ ordered \subseteq search.reply.hits
      BY DEF Ordered, First
    <3> HIDE DEF ordered
    <3>3. search'.hits = hits /\ search'.reply = search.reply
      BY <3>1 DEF SearchTyped
    <3>4. IsFiniteSet(hits)
      <4>1. CASE ordered = None
        BY <3>1, <4>1, FS_EmptySet
      <4>2. CASE ordered # None
        <5>1. IsFiniteSet(search.reply.hits) /\ hits \in SUBSET search.reply.hits
          BY <3>1, <3>2, <4>2 DEF Finite
        <5>2. QED
          BY <5>1, FS_Subset
      <4>3. QED
        BY <4>1, <4>2
    <3>5. QED
      BY <3>3, <3>4 DEF Finite
  <2>3. QED
    BY <2>1, <2>2
<1>5. QED
  BY <1>1, <1>2, <1>3, <1>4

LEMMA CollectsFinitely ==
    ASSUME TypeOK, SearchTyped(search), Finite(search)
    PROVE  /\ \A f \in TextFields : ReadRanked(f) => Finite(search')
           /\ ReadApproximate => Finite(search')
           /\ ReadPage => Finite(search')
           /\ ReadSources => Finite(search')
           /\ Hydrate => Finite(search')
<1> DEFINE r == Request
<1>1. ASSUME NEW f \in TextFields, ReadRanked(f)
      PROVE  Finite(search')
  <2> DEFINE members == {d \in ScopeOf(r) : /\ points[d].score[f] > 0
                                            /\ r.like # None => search.like # None}
             limit == RankedLimit(r, f)
             size == IF Cardinality(members) < limit THEN Cardinality(members) ELSE limit
             hit(d) == [Hit(d, points[d].score[f] * r.text[f],
                            IF projection THEN None ELSE points[d]) EXCEPT !.field = f]
  <2>1. PICK S \in kSubset(size, members) :
            search' = [search EXCEPT !.fields = @ \ {f},
                                     !.hits = @ \cup {hit(d) : d \in S}]
    BY <1>1 DEF ReadRanked
  <2>2. S \in SUBSET Docs
    <3>1. kSubset(size, members) \subseteq SUBSET members
      BY DEF kSubset
    <3>2. members \subseteq Docs
      BY DEF ScopeOf, Scope
    <3> HIDE DEF members, size
    <3>3. QED
      BY <3>1, <3>2
  <2> DEFINE g == [d \in S |-> hit(d)]
             hits == {hit(d) : d \in S}
  <2>3. hits = {g[d] : d \in S}
    OBVIOUS
  <2>4. search'.hits = search.hits \cup hits /\ search'.reply = search.reply
    BY <2>1 DEF SearchTyped
  <2> HIDE DEF g, hits
  <2>5. IsFiniteSet(hits)
    BY <2>2, <2>3, HitsOfDocs
  <2>6. QED
    BY <2>4, <2>5, HitsStayFinite
<1>2. ASSUME ReadApproximate
      PROVE  Finite(search')
  <2> DEFINE collection == IF projection THEN docs ELSE points
             members == {d \in Docs : /\ collection[d] # None
                                      /\ r.filter => IF projection THEN r.blank
                                                     ELSE collection[d].filter}
             page == ScrollPage(members, search.offset, MaxPageSize)
             S == {d \in ToSet(page.docs) : SourceIsLike(collection[d], r)}
             g == [d \in S |-> Hit(d, 1, collection[d])]
             hits == {Hit(d, 1, collection[d]) : d \in S}
  <2>1. search' = [search EXCEPT
                !.hits = @ \cup hits, !.offset = page.next,
                !.pc = IF page.next = 0 THEN "gathered" ELSE "approximate"]
    BY <1>2 DEF ReadApproximate
  <2>2. IsFiniteSet(ToSet(page.docs))
    <3> HIDE DEF members
    <3>1. QED
      BY PagesAreFinite
  <2>3. IsFiniteSet(S)
    <3>1. S \in SUBSET ToSet(page.docs)
      OBVIOUS
    <3> HIDE DEF S
    <3>2. QED
      BY <2>2, <3>1, FS_Subset
  <2>4. hits = {g[d] : d \in S}
    OBVIOUS
  <2> HIDE DEF g, hits, S
  <2>5. search'.hits = search.hits \cup hits /\ search'.reply = search.reply
    BY <2>1 DEF SearchTyped
  <2>6. IsFiniteSet(hits)
    BY <2>3, <2>4, ImagesAreFinite
  <2>7. QED
    BY <2>5, <2>6, HitsStayFinite
<1>3. ASSUME ReadPage
      PROVE  Finite(search')
  <2> DEFINE limit == IF r.patterns \/ CompleteScan(r) THEN MaxPageSize ELSE CandidateLimit(r)
             page == ScrollPage(ScopeOf(r), search.offset, limit)
             source(d) == IF projection THEN None ELSE points[d]
             S == ToSet(page.docs)
             g == [d \in S |-> Hit(d, 0, source(d))]
             found == {Hit(d, 0, source(d)) : d \in S}
  <2>1. search' =
             IF CompleteScan(r) /\ projection
             THEN [search EXCEPT !.pc = "sources", !.batch = page.docs, !.offset = page.next]
             ELSE Gather(found, page.next)
    BY <1>3 DEF ReadPage
  <2>2. IsFiniteSet(S)
    <3> HIDE DEF limit
    <3>1. QED
      BY PagesAreFinite
  <2>3. found = {g[d] : d \in S}
    OBVIOUS
  <2> HIDE DEF g, found, S, page
  <2>4. IsFiniteSet(found)
    BY <2>2, <2>3, ImagesAreFinite
  <2>5. CASE search' = Gather(found, page.next)
    BY <2>4, <2>5, GatherIsFinite
  <2>6. CASE search' = [search EXCEPT !.pc = "sources", !.batch = page.docs,
                                      !.offset = page.next]
    <3>1. search'.hits = search.hits /\ search'.reply = search.reply
      BY <2>6 DEF SearchTyped
    <3>2. QED
      BY <3>1, OthersStayFinite
  <2>7. QED
    BY <2>1, <2>5, <2>6
<1>4. ASSUME ReadSources
      PROVE  Finite(search')
  <2> DEFINE S == {e \in ToSet(search.batch) : docs[e] # None}
             g == [d \in S |-> Hit(d, 0, docs[d])]
             found == {Hit(d, 0, docs[d]) : d \in S}
  <2>1. search' = Gather(found, search.offset)
    BY <1>4 DEF ReadSources
  <2>2. S \in SUBSET Docs
    BY SearchParts DEF ToSet
  <2>3. found = {g[d] : d \in S}
    OBVIOUS
  <2> HIDE DEF g, found, S
  <2>4. IsFiniteSet(found)
    BY <2>2, <2>3, HitsOfDocs
  <2>5. QED
    BY <2>1, <2>4, GatherIsFinite
<1>5. ASSUME Hydrate
      PROVE  Finite(search')
  <2> DEFINE S == {g \in Merged(search.hits) : docs[g.id] # None}
             f == [h \in S |-> [h EXCEPT !.source = docs[h.id]]]
             hits == {[h EXCEPT !.source = docs[h.id]] : h \in S}
  <2>1. search' = [search EXCEPT !.pc = "finish", !.hits = hits]
    BY <1>5 DEF Hydrate
  <2>2. S \in SUBSET search.hits
    BY DEF Merged
  <2>3. hits = {f[h] : h \in S}
    OBVIOUS
  <2> HIDE DEF f, hits, S
  <2>4. IsFiniteSet(S)
    BY <2>2, FS_Subset DEF Finite
  <2>5. IsFiniteSet(hits)
    BY <2>3, <2>4, ImagesAreFinite
  <2>6. search'.hits = hits /\ search'.reply = search.reply
    BY <2>1 DEF SearchTyped
  <2>7. QED
    BY <2>5, <2>6 DEF Finite
<1>6. QED
  BY <1>1, <1>2, <1>3, <1>4, <1>5

----------------------------------------------------------------------------
(* A page of what leads is ranked.                                         *)

\* PageIsRanked of a page, a history and a request.
RankedPage(page, history, r) ==
    LET ids == {page[i].id : i \in DOMAIN page}
        standing(d) == Hit(d, 0, Were(history, d))
        behind(d) == Len(page) = r.size /\ \A i \in DOMAIN page :
            IF r.from = 0 /\ ~r.patterns THEN Precedes(page[i], standing(d), r.sort)
            ELSE HitCmp(page[i], standing(d), r.sort) <= 0
        before == {d \in StandingIn(history, r) \ ids :
                      IsAfter(standing(d), r.after, r.sort) /\ ~behind(d)}
    IN  /\ \A i, j \in DOMAIN page : i < j => /\ HitCmp(page[i], page[j], r.sort) <= 0
                                              /\ page[i].id # page[j].id
        /\ Cardinality(before) <= r.from
        /\ \A d \in before, i \in DOMAIN page :
                HitCmp(standing(d), page[i], r.sort) <= 0

LEMMA RankedIsRanked ==
    PageIsRanked <=> (Succeeded /\ Sorts(projection, Request) /\ Request.collapse = None
                          => RankedPage(response.page, had, Request))
<1>1. \A r : Standing(r) = StandingIn(had, r)
  BY HistoryIsHad
<1>2. \A d : StandingHit(d) = Hit(d, 0, Were(had, d))
  BY HistoryIsHad DEF StandingHit
<1>3. SortedByField(Request) <=> Sorts(projection, Request) /\ Request.collapse = None
  BY DEF SortedByField, Sorts
<1>4. QED
  BY <1>1, <1>2, <1>3 DEF PageIsRanked, RankedPage, PageIds, Full

LEMMA LeadingIsRanked ==
    ASSUME NEW r, Asked(r), Accepted(r), CursorFits(r), r.sort # <<>>, r.collapse = None,
           NEW H, HistoryTyped(H), NEW hits, Leading(hits, H, r, Docs),
           NEW order \in Orders(r, hits),
           NEW page, page = Page(r, Behind(r, order))
    PROVE  RankedPage(page, H, r)
<1> DEFINE ids == {page[i].id : i \in DOMAIN page}
           standing(d) == Hit(d, 0, Were(H, d))
           behind(d) == Len(page) = r.size /\ \A i \in DOMAIN page :
               IF r.from = 0 /\ ~r.patterns THEN Precedes(page[i], standing(d), r.sort)
               ELSE HitCmp(page[i], standing(d), r.sort) <= 0
           before == {d \in StandingIn(H, r) \ ids :
                         IsAfter(standing(d), r.after, r.sort) /\ ~behind(d)}
<1>1. /\ r.sort \in Seq(Clauses) /\ r.from \in Nat /\ r.size \in Nat /\ Window(r) \in Nat
      /\ CursorTyped(r.after, r.sort)
  BY AskedSort, AcceptedParts
<1>2. /\ hits \in SUBSET PlainHits /\ Distinct(hits)
      /\ Cuts(r) => /\ Cardinality(hits) <= Window(r)
                    /\ \A h \in hits : IsAfter(h, r.after, r.sort)
      /\ \A d \in StandingIn(H, r) : Leads(hits, standing(d), r)
  <2>1. StandingIn(H, r) \cap Docs = StandingIn(H, r)
    BY DEF StandingIn
  <2>2. QED
    BY <2>1 DEF Leading
<1>3. IsFiniteSet(hits) /\ Cardinality(hits) \in Nat
  BY <1>2, HitsAreFinite
<1> HIDE DEF ids, standing, behind, before
<1>12. r.sort \in Seq(Clauses) /\ r.from \in Nat /\ r.size \in Nat
  BY <1>1
<1>13. CursorTyped(r.after, r.sort)
  BY <1>1
<1>14. hits \in SUBSET PlainHits /\ Distinct(hits) /\ IsFiniteSet(hits)
  BY <1>2, <1>3
<1>15. r.sort # <<>> /\ order \in Orders(r, hits) /\ page = Page(r, Behind(r, order))
  OBVIOUS
<1>4. /\ page \in Seq(hits) /\ Len(page) \in Nat
      /\ \A i, j \in DOMAIN page :
           i < j => HitCmp(page[i], page[j], r.sort) <= 0 /\ page[i].id # page[j].id
      /\ (\A h \in hits : IsAfter(h, r.after, r.sort))
           /\ Cardinality(hits) >= Window(r) => Len(page) = r.size
      /\ \E skipped \in SUBSET hits :
           /\ IsFiniteSet(skipped) /\ Cardinality(skipped) <= r.from
           /\ \A h \in skipped, i \in DOMAIN page : HitCmp(h, page[i], r.sort) <= 0
           /\ \A h \in hits : IsAfter(h, r.after, r.sort) =>
                 \/ h \in skipped
                 \/ \E i \in DOMAIN page : page[i] = h
                 \/ /\ Len(page) = r.size /\ Cardinality(hits) > Window(r)
                    /\ \A i \in DOMAIN page : HitCmp(page[i], h, r.sort) <= 0
  <2>1. Shows(page, hits, r)
    BY <1>12, <1>13, <1>14, <1>15, PageShows
  <2>2. QED
    BY <2>1 DEF Shows
<1> USE DEF ids, standing, behind, before
<1>5. PICK skipped \in SUBSET hits :
        /\ IsFiniteSet(skipped) /\ Cardinality(skipped) <= r.from
        /\ \A h \in skipped, i \in DOMAIN page : HitCmp(h, page[i], r.sort) <= 0
        /\ \A h \in hits : IsAfter(h, r.after, r.sort) =>
              \/ h \in skipped
              \/ \E i \in DOMAIN page : page[i] = h
              \/ /\ Len(page) = r.size /\ Cardinality(hits) > Window(r)
                 /\ \A i \in DOMAIN page : HitCmp(page[i], h, r.sort) <= 0
  BY <1>4
<1>6. \A i \in DOMAIN page : page[i] \in hits
  BY <1>4
<1>7. ASSUME NEW d \in StandingIn(H, r), d \notin ids,
             IsAfter(standing(d), r.after, r.sort), ~behind(d)
      PROVE  standing(d) \in skipped /\ standing(d).id = d
  <2> DEFINE g == standing(d)
  <2>1. g \in PlainHits /\ g.id = d
    BY StandingHits
  <2>2. \A i \in DOMAIN page : page[i] # g
    BY <1>7, <2>1
  <2>3. ASSUME Cuts(r), Cardinality(hits) = Window(r),
               \A h \in hits : Precedes(h, g, r.sort)
        PROVE  FALSE
    <3>1. \A h \in hits : IsAfter(h, r.after, r.sort)
      BY <1>2, <2>3
    <3>2. Cardinality(hits) >= Window(r)
      BY <1>1, <2>3
    <3>3. Len(page) = r.size
      BY <1>4, <3>1, <3>2
    <3>4. \A i \in DOMAIN page : /\ Precedes(page[i], g, r.sort)
                                 /\ HitCmp(page[i], g, r.sort) <= 0
      BY <1>1, <1>2, <1>6, <2>1, <2>3, PrecedesIsOrder
    <3>5. QED
      BY <1>7, <3>3, <3>4
  <2>4. g \in hits
    BY <1>2, <1>7, <2>3 DEF Leads
  <2>5. ASSUME Len(page) = r.size, Cardinality(hits) > Window(r),
               \A i \in DOMAIN page : HitCmp(page[i], g, r.sort) <= 0
        PROVE  FALSE
    <3>1. CASE r.from = 0 /\ ~r.patterns
      <4>1. Cardinality(hits) <= Window(r)
        BY <1>2, <3>1 DEF Cuts
      <4>2. QED
        BY <1>1, <1>3, <2>5, <4>1
    <3>2. CASE ~(r.from = 0 /\ ~r.patterns)
      BY <1>7, <2>5, <3>2
    <3>3. QED
      BY <3>1, <3>2
  <2>6. g \in skipped
    BY <1>5, <1>7, <2>2, <2>4, <2>5
  <2>7. QED
    BY <2>1, <2>6
<1>8. \A d \in before : standing(d) \in skipped /\ standing(d).id = d
  BY <1>7
<1>9. Cardinality(before) <= r.from
  <2> DEFINE f == [d \in before |-> standing(d)]
  <2> HIDE DEF before, standing
  <2>1. f \in [before -> skipped]
    BY <1>8
  <2>2. \A d, e \in before : f[d] = f[e] => d = e
    <3> SUFFICES ASSUME NEW d \in before, NEW e \in before, f[d] = f[e]
                 PROVE  d = e
      OBVIOUS
    <3>1. f[d].id = d /\ f[e].id = e
      BY <1>8 DEF f
    <3>2. QED
      BY <3>1
  <2>3. f \in Injection(before, skipped)
    BY <2>1, <2>2 DEF Injection, IsInjective
  <2> HIDE DEF f
  <2>4. IsFiniteSet(before) /\ Cardinality(before) <= Cardinality(skipped)
    BY <1>5, <2>3, FS_Injection
  <2>5. Cardinality(before) \in Nat /\ Cardinality(skipped) \in Nat
    BY <1>5, <2>4, FS_CardinalityType
  <2>6. QED
    BY <1>1, <1>5, <2>4, <2>5
<1>10. \A d \in before, i \in DOMAIN page : HitCmp(standing(d), page[i], r.sort) <= 0
  BY <1>5, <1>8
<1> HIDE DEF before
<1>11. QED
  BY <1>4, <1>9, <1>10 DEF RankedPage, before

----------------------------------------------------------------------------
(* From what leads to the answer.                                          *)

LEMMA RemainingLeads ==
    ASSUME NEW r, ~Ranked(r), NEW H, HistoryTyped(H), Leading(search.hits, H, r, Docs)
    PROVE  Leading(Remaining(r), H, r, Docs)
<1> DEFINE all == search.hits
           hits == Remaining(r)
<1>1. all \in SUBSET PlainHits /\ Distinct(all) /\ \A h \in all : h.id \in Docs
  BY DEF Leading
<1>2. Merged(all) = all
  BY <1>1, HitsAreFinite, MergedDistinct
<1>3. \A h \in all : h.id # r.like
  <2>1. r.like = None /\ None \notin Docs
    BY IndexAssumption, PositionsAreDocs DEF Ranked
  <2>2. QED
    BY <1>1, <2>1
<1>4. hits = {h \in all : PatternsMatch(h, r) /\ PostMatches(h, r)}
  BY <1>2, <1>3 DEF Remaining
<1>5. CASE ~r.patterns
  <2>1. \A h \in all : PatternsMatch(h, r) /\ PostMatches(h, r)
    BY <1>5 DEF Leading, PatternsMatch
  <2>2. hits = all
    BY <1>4, <2>1
  <2>3. QED
    BY <2>2
<1>6. CASE r.patterns
  <2>1. ~Cuts(r)
    BY <1>6 DEF Cuts
  <2>2. ASSUME NEW d \in StandingIn(H, r)
        PROVE  Leads(hits, Hit(d, 0, Were(H, d)), r)
    <3> DEFINE g == Hit(d, 0, Were(H, d))
    <3>1. g.source # None /\ Matches(r, g.source) /\ d \in Docs
      BY StandingHits
    <3>2. g \in all
      BY <2>1, <3>1 DEF Leading, Leads
    <3>3. PatternsMatch(g, r) /\ PostMatches(g, r)
      BY <3>1 DEF PatternsMatch, PostMatches, Matches
    <3>4. g \in hits
      BY <1>4, <3>2, <3>3
    <3>5. QED
      BY <3>4 DEF Leads
  <2>3. hits \subseteq PlainHits /\ Distinct(hits) /\ \A h \in hits : h.id \in Docs
    BY <1>1, <1>4 DEF Distinct
  <2> HIDE DEF hits
  <2>4. QED
    BY <1>6, <2>1, <2>2, <2>3 DEF Leading, hits
<1>7. QED
  BY <1>5, <1>6

LEMMA RespondLeads ==
    ASSUME Ready, Responds, Sorts(projection, Request)
    PROVE  \/ Request.size = 0 /\ search.hits = {}
           \/ Leading(Remaining(Request), had, Request, Docs)
<1> DEFINE r == Request
<1>0. /\ SearchTyped(search) /\ SearchInv(search, projection, had, r) /\ HistoryTyped(had)
      /\ Asked(r) /\ (PlainCount(r) \/ Accepted(r))
      /\ RankInv(search, projection, had, r)
  BY ReadyParts
<1>1. ~Ranked(r) /\ ~r.approximate
  BY <1>0, SortsParts
<1>2. Placed(search, projection, r)
  BY <1>0, KnownParts
<1>3. search.pc \in {"finish", "gathered"}
  <2>1. search.pc \in {"finish", "gathered", "ranked"}
    BY DEF Responds, Gathered, At
  <2>2. search.pc # "ranked"
    BY <1>1, <1>2 DEF Placed
  <2>3. QED
    BY <2>1, <2>2
<1>4. \/ r.size = 0 /\ search.hits = {}
      \/ Leading(search.hits, had, r, Docs)
  <2>1. CASE search.pc = "finish"
    BY <1>0, <2>1 DEF RankInv
  <2>2. CASE search.pc = "gathered"
    <3>1. (r.patterns \/ Scans(search, projection, r))
          /\ Leading(search.hits, had, r, Seen(search))
      BY <1>0, <2>2 DEF RankInv
    <3>2. search.offset = 0
      BY <1>2, <2>2, <3>1 DEF Placed
    <3>3. Seen(search) = Docs
      BY <2>2, <3>2, PassedDocs DEF Seen
    <3>4. QED
      BY <3>1, <3>3
  <2>3. QED
    BY <1>3, <2>1, <2>2
<1>5. CASE r.size = 0 /\ search.hits = {}
  BY <1>5
<1>6. CASE Leading(search.hits, had, r, Docs)
  BY <1>0, <1>1, <1>6, RemainingLeads
<1>7. QED
  BY <1>4, <1>5, <1>6

\* There is one way to put nothing in order, and no page of it.
LEMMA NothingIsRanked ==
    ASSUME NEW r, r.from \in Nat, r.size = 0, NEW order \in Orders(r, {}),
           NEW page, page = Page(r, Behind(r, order)), NEW H
    PROVE  page = <<>> /\ RankedPage(page, H, r)
<1>1. order \in SetToSeqs({})
  BY DEF Orders
<1>2. IsFiniteSet({}) /\ Cardinality({}) = 0
  BY FS_EmptySet
<1>3. order \in Seq({}) /\ Len(order) = 0
  BY <1>1, <1>2, HitsInOrder
<1>4. PICK k \in 0..Len(order) : Behind(r, order) \in Seq({})
  BY <1>3, BehindSkips
<1>5. /\ Page(r, Behind(r, order)) \in Seq({})
      /\ Len(Page(r, Behind(r, order))) \in Nat
      /\ Len(Page(r, Behind(r, order))) <= r.size
  BY <1>4, PageIsCut
<1>6. page \in Seq({}) /\ Len(page) = 0
  BY <1>5
<1>7. page = <<>> /\ DOMAIN page = {}
  BY <1>6
<1> DEFINE ids == {page[i].id : i \in DOMAIN page}
           standing(d) == Hit(d, 0, Were(H, d))
           behind(d) == Len(page) = r.size /\ \A i \in DOMAIN page :
               IF r.from = 0 /\ ~r.patterns THEN Precedes(page[i], standing(d), r.sort)
               ELSE HitCmp(page[i], standing(d), r.sort) <= 0
           before == {d \in StandingIn(H, r) \ ids :
                         IsAfter(standing(d), r.after, r.sort) /\ ~behind(d)}
<1>8. \A d : behind(d)
  BY <1>6, <1>7
<1> HIDE DEF behind
<1>9. before = {}
  BY <1>8
<1> HIDE DEF before
<1>10. Cardinality(before) <= r.from
  BY <1>2, <1>9
<1>11. /\ \A i, j \in DOMAIN page : i < j => /\ HitCmp(page[i], page[j], r.sort) <= 0
                                             /\ page[i].id # page[j].id
       /\ \A d \in before, i \in DOMAIN page :
               HitCmp(standing(d), page[i], r.sort) <= 0
  BY <1>7
<1>12. RankedPage(page, H, r)
  BY <1>10, <1>11 DEF RankedPage, before, behind
<1>13. QED
  BY <1>7, <1>12

----------------------------------------------------------------------------
(* Collapsing.                                                             *)

\* Numbers are numbered by how many are less.
LEMMA NumbersNumber ==
    ASSUME NEW A, \A i \in A : i \in Nat, IsFiniteSet(A)
    PROVE  /\ Cardinality(A) \in Nat
           /\ \A i \in A : Rank(A, i) \in 0..(Cardinality(A) - 1)
           /\ \A i, j \in A : Rank(A, i) = Rank(A, j) => i = j
           /\ \A k \in 0..(Cardinality(A) - 1) : \E i \in A : Rank(A, i) = k
<1> DEFINE R == {x \in A \X A : x[1] < x[2]}
<1>1. \A i, j \in A : <<i, j>> \in R <=> i < j
  OBVIOUS
<1>2. \A i \in A : i \in Nat
  OBVIOUS
<1> HIDE DEF R
<1>3. StrictOn(R, A)
  <2>1. \A a \in A : <<a, a>> \notin R
    BY <1>1, <1>2
  <2>2. \A a, b \in A : a # b => <<a, b>> \in R \/ <<b, a>> \in R
    BY <1>1, <1>2
  <2>3. \A a, b, c \in A : <<a, b>> \in R /\ <<b, c>> \in R => <<a, c>> \in R
    BY <1>1, <1>2
  <2>4. QED
    BY <2>1, <2>2, <2>3 DEF StrictOn
<1>4. \A i \in A : Before(R, A, i) = {j \in A : j < i}
  BY <1>1 DEF Before
<1>5. \A i \in A : Cardinality(Before(R, A, i)) = Rank(A, i)
  BY <1>4 DEF Rank
<1>6. /\ Cardinality(A) \in Nat
      /\ \A i \in A : Rank(A, i) \in 0..(Cardinality(A) - 1)
  <2>1. \A x \in A : Cardinality(Before(R, A, x)) \in 0..(Cardinality(A) - 1)
    BY <1>3, OrdersNumber
  <2>2. QED
    BY <1>5, <2>1, FS_CardinalityType
<1>7. \A i, j \in A : i < j <=> Rank(A, i) < Rank(A, j)
  <2>1. \A x, y \in A : <<x, y>> \in R <=>
           Cardinality(Before(R, A, x)) < Cardinality(Before(R, A, y))
    BY <1>3, OrdersNumber
  <2>2. ASSUME NEW i \in A, NEW j \in A
        PROVE  i < j <=> Rank(A, i) < Rank(A, j)
    <3>1. <<i, j>> \in R <=> Cardinality(Before(R, A, i)) < Cardinality(Before(R, A, j))
      BY <2>1
    <3>2. Cardinality(Before(R, A, i)) = Rank(A, i) /\ Cardinality(Before(R, A, j)) = Rank(A, j)
      BY <1>5
    <3>3. <<i, j>> \in R <=> i < j
      BY <1>1
    <3>4. QED
      BY <3>1, <3>2, <3>3
  <2>3. QED
    BY <2>2
<1>8. \A k \in 0..(Cardinality(A) - 1) : \E i \in A : Rank(A, i) = k
  <2>1. \A k \in 0..(Cardinality(A) - 1) :
            \E x \in A : Cardinality(Before(R, A, x)) = k
    BY <1>3, OrdersNumber
  <2>2. QED
    BY <1>5, <2>1
<1>9. ASSUME NEW i \in A, NEW j \in A, Rank(A, i) = Rank(A, j)
      PROVE  i = j
  <2>1. Rank(A, i) \in Int
    BY <1>6
  <2>2. ~(Rank(A, i) < Rank(A, j)) /\ ~(Rank(A, j) < Rank(A, i))
    BY <1>9, <2>1
  <2>3. ~(i < j) /\ ~(j < i)
    BY <1>7, <2>2
  <2>4. QED
    BY <1>2, <2>3
<1>10. QED
  BY <1>6, <1>8, <1>9

\* A collapsed sequence has the first of every group and no group twice.
LEMMA CollapsedGroups ==
    ASSUME NEW S, NEW s \in Seq(S), NEW r, r.collapse # None,
           NEW c, c = Collapsed(r, s)
    PROVE  /\ c \in Seq(S) /\ DOMAIN c = 1..Len(c) /\ Len(c) \in Nat
           /\ \A k, l \in DOMAIN c : k # l => Group(c[k]) # Group(c[l])
           /\ \A m \in DOMAIN s : \E k \in DOMAIN c, i \in DOMAIN s :
                 Group(c[k]) = Group(s[m]) /\ c[k] = s[i] /\ i <= m
<1> DEFINE first == {i \in DOMAIN s : \A j \in 1..(i - 1) : Group(s[j]) # Group(s[i])}
           n == Cardinality(first)
           at(k) == CHOOSE i \in first : Rank(first, i) = k - 1
<1>1. Len(s) \in Nat /\ DOMAIN s = 1..Len(s) /\ \A i \in DOMAIN s : s[i] \in S /\ i \in Nat
  OBVIOUS
<1>2. first \in SUBSET Nat /\ IsFiniteSet(first)
  <2>1. IsFiniteSet(1..Len(s)) /\ first \in SUBSET (1..Len(s))
    BY <1>1, CountedTo
  <2>2. IsFiniteSet(first)
    BY <2>1, FS_Subset
  <2>3. first \in SUBSET Nat
    BY <1>1
  <2>4. QED
    BY <2>2, <2>3
<1>3. c = [k \in 1..n |-> s[at(k)]]
  BY DEF Collapsed, Rank
<1>4. /\ n \in Nat
      /\ \A i \in first : Rank(first, i) \in 0..(n - 1)
      /\ \A i, j \in first : Rank(first, i) = Rank(first, j) => i = j
      /\ \A k \in 0..(n - 1) : \E i \in first : Rank(first, i) = k
  <2> HIDE DEF first
  <2>1. QED
    BY <1>2, NumbersNumber
<1>5. \A i \in first : i \in DOMAIN s /\ \A j \in 1..(i - 1) : Group(s[j]) # Group(s[i])
  OBVIOUS
<1> HIDE DEF first, n
<1>6. ASSUME NEW k \in 1..n
      PROVE  at(k) \in first /\ Rank(first, at(k)) = k - 1
  <2>1. k - 1 \in 0..(n - 1)
    BY <1>4
  <2>2. \E i \in first : Rank(first, i) = k - 1
    BY <1>4, <2>1
  <2>3. QED
    BY <2>2
<1> HIDE DEF at
<1>7. \A k \in 1..n : c[k] = s[at(k)] /\ s[at(k)] \in S
  BY <1>1, <1>3, <1>5, <1>6
<1>8. c \in Seq(S) /\ DOMAIN c = 1..Len(c) /\ Len(c) \in Nat /\ DOMAIN c = 1..n
  <2>1. c \in [1..n -> S]
    BY <1>3, <1>7
  <2>2. QED
    BY <1>4, <2>1
<1>9. ASSUME NEW k \in 1..n, NEW l \in 1..n, k # l
      PROVE  Group(c[k]) # Group(c[l])
  <2>1. at(k) \in first /\ at(l) \in first /\ at(k) # at(l)
    <3>1. k \in Int /\ l \in Int /\ k - 1 # l - 1
      BY <1>4, <1>9
    <3>2. QED
      BY <1>6, <3>1
  <2>2. at(k) \in Nat \ {0} /\ at(l) \in Nat \ {0}
    BY <1>1, <1>5, <2>1
  <2>3. CASE at(k) < at(l)
    <3>1. at(k) \in 1..(at(l) - 1)
      BY <2>2, <2>3
    <3>2. QED
      BY <1>5, <1>7, <2>1, <3>1
  <2>4. CASE at(l) < at(k)
    <3>1. at(l) \in 1..(at(k) - 1)
      BY <2>2, <2>4
    <3>2. QED
      BY <1>5, <1>7, <2>1, <3>1
  <2>5. QED
    BY <2>1, <2>2, <2>3, <2>4
<1>10. ASSUME NEW m \in DOMAIN s
       PROVE  \E k \in 1..n, i \in DOMAIN s :
                 Group(c[k]) = Group(s[m]) /\ c[k] = s[i] /\ i <= m
  <2> DEFINE A == {i \in DOMAIN s : Group(s[i]) = Group(s[m])}
  <2>1. A \in SUBSET Nat /\ IsFiniteSet(A) /\ m \in A
    <3>1. IsFiniteSet(1..Len(s)) /\ A \in SUBSET (1..Len(s))
      BY <1>1, CountedTo
    <3>2. IsFiniteSet(A)
      BY <3>1, FS_Subset
    <3>3. QED
      BY <1>1, <3>2
  <2>2. \A i \in A : i \in DOMAIN s /\ Group(s[i]) = Group(s[m])
    OBVIOUS
  <2>3. \A i \in DOMAIN s : Group(s[i]) = Group(s[m]) => i \in A
    OBVIOUS
  <2> HIDE DEF A
  <2>4. PICK i \in A : \A j \in A : i <= j
    BY <2>1, LeastNumber
  <2>5. i \in DOMAIN s /\ i <= m /\ Group(s[i]) = Group(s[m]) /\ i \in Nat
    BY <1>1, <2>1, <2>2, <2>4
  <2>6. ASSUME NEW j \in 1..(i - 1)
        PROVE  Group(s[j]) # Group(s[i])
    <3>1. j \in DOMAIN s /\ ~(i <= j)
      BY <1>1, <2>5
    <3>2. j \notin A
      BY <2>4, <3>1
    <3>3. QED
      BY <2>3, <2>5, <3>1, <3>2
  <2>7. i \in first
    BY <2>5, <2>6 DEF first
  <2>8. Rank(first, i) \in 0..(n - 1)
    BY <1>4, <2>7
  <2> DEFINE k == Rank(first, i) + 1
  <2>9. k \in 1..n /\ k - 1 = Rank(first, i)
    BY <1>4, <2>8
  <2> HIDE DEF k
  <2>10. at(k) = i
    BY <1>4, <1>6, <2>7, <2>9
  <2>11. c[k] = s[i]
    BY <1>7, <2>9, <2>10
  <2>12. QED
    BY <2>5, <2>9, <2>11
<1>11. QED
  BY <1>8, <1>9, <1>10

\* The page of an answer is cut out of the collapsed order of its hits.
Cut(page, c, r) ==
    /\ Len(page) <= r.size
    /\ \E o \in Nat :
          /\ \A i \in DOMAIN page : o + i \in DOMAIN c /\ page[i] = c[o + i]
          /\ r.after = None /\ r.from = 0 /\ Len(page) # r.size =>
                \A k \in DOMAIN c : \E i \in DOMAIN page : page[i] = c[k]

LEMMA AnswersAreCut ==
    ASSUME NEW r, r.from \in Nat, r.size \in Nat, NEW S, NEW c \in Seq(S),
           NEW page, page = Page(r, Behind(r, c))
    PROVE  page \in Seq(S) /\ Cut(page, c, r)
<1> DEFINE b == Behind(r, c)
           n == Len(page)
<1>1. PICK k \in 0..Len(c) :
        /\ b \in Seq(S) /\ Len(b) = Len(c) - k
        /\ \A i \in 1..(Len(c) - k) : b[i] = c[k + i]
        /\ \A i \in 1..k : ~IsAfter(c[i], r.after, r.sort)
  BY BehindSkips
<1>2. page = Page(r, b)
  OBVIOUS
<1> HIDE DEF b
<1>3. /\ Page(r, b) \in Seq(S) /\ Len(Page(r, b)) \in Nat /\ Len(Page(r, b)) <= r.size
      /\ \A i \in 1..Len(Page(r, b)) : /\ r.from + i \in 1..Len(b)
                                       /\ Page(r, b)[i] = b[r.from + i]
      /\ \A j \in 1..Len(b) :
           \/ j <= r.from
           \/ j - r.from \in 1..Len(Page(r, b))
           \/ j > Window(r) /\ Len(Page(r, b)) = r.size
  <2>1. b \in Seq(S)
    BY <1>1
  <2>2. QED
    BY <2>1, PageIsCut
<1>4. /\ page \in Seq(S) /\ n \in Nat /\ n <= r.size
      /\ \A i \in 1..n : r.from + i \in 1..Len(b) /\ page[i] = b[r.from + i]
      /\ n # r.size => \A j \in 1..Len(b) : j <= r.from \/ j - r.from \in 1..n
  BY <1>2, <1>3
<1>5. DOMAIN page = 1..n /\ DOMAIN c = 1..Len(c) /\ Len(c) \in Nat
  BY <1>4
<1>6. PICK l \in Nat : l = Len(c)
  BY <1>5
<1>7. k \in Nat /\ k <= l /\ Len(b) = l - k
  BY <1>1, <1>6
<1> HIDE DEF n
<1>8. ASSUME NEW i \in 1..n
      PROVE  (k + r.from) + i \in 1..l /\ page[i] = c[(k + r.from) + i]
  <2>1. PICK m \in Nat : m = r.from + i
    BY <1>4
  <2>2. m \in 1..(l - k) /\ page[i] = b[m]
    BY <1>4, <1>7, <2>1
  <2>3. k + m \in 1..l /\ b[m] = c[k + m]
    BY <1>1, <1>6, <1>7, <2>2
  <2>4. (k + r.from) + i = k + m
    BY <1>4, <1>7, <2>1
  <2>5. QED
    BY <2>2, <2>3, <2>4
<1>9. ASSUME r.after = None, r.from = 0, n # r.size, NEW j \in 1..l
      PROVE  \E i \in 1..n : page[i] = c[j]
  <2>1. k = 0
    <3>1. \A i \in 1..k : FALSE
      BY <1>1, <1>9 DEF IsAfter
    <3>2. QED
      BY <1>7, <3>1
  <2>2. j \in 1..Len(b) /\ j - r.from = j /\ ~(j <= r.from)
    BY <1>7, <1>9, <2>1
  <2>3. j \in 1..n
    BY <1>4, <1>9, <2>2
  <2>4. (k + r.from) + j = j
    BY <1>9, <2>1
  <2>5. QED
    BY <1>8, <2>3, <2>4
<1>10. k + r.from \in Nat
  BY <1>7
<1>11. QED
  <2>1. /\ \A i \in DOMAIN page : (k + r.from) + i \in DOMAIN c /\ page[i] = c[(k + r.from) + i]
        /\ r.after = None /\ r.from = 0 /\ Len(page) # r.size =>
              \A j \in DOMAIN c : \E i \in DOMAIN page : page[i] = c[j]
    BY <1>5, <1>6, <1>8, <1>9 DEF n
  <2>2. Len(page) <= r.size
    BY <1>4 DEF n
  <2>3. QED
    BY <1>4, <1>10, <2>1, <2>2 DEF Cut

\* CollapseKeepsBest of a page, a history and a request.
CollapsedPage(p, page, history, r) ==
    LET hit(d) == Hit(d, 0, Were(history, d))
        standing == {d \in StandingIn(history, r) : IsAfter(hit(d), r.after, r.sort)}
    IN  /\ \A i, j \in DOMAIN page : i # j => Group(page[i]) # Group(page[j])
        /\ Sorts(p, r) /\ ~r.patterns /\ r.after = None =>
            /\ \A d \in standing, i \in DOMAIN page :
                  Group(page[i]) = Group(hit(d)) => HitCmp(page[i], hit(d), r.sort) <= 0
            /\ Len(page) # r.size /\ r.from = 0 =>
                  \A d \in standing : \E i \in DOMAIN page : Group(page[i]) = Group(hit(d))

LEMMA CollapsedIsBest ==
    CollapseKeepsBest <=> (Succeeded /\ Request.collapse # None
                               => CollapsedPage(projection, response.page, had, Request))
<1>1. \A r : Standing(r) = StandingIn(had, r)
  BY HistoryIsHad
<1>2. \A d : StandingHit(d) = Hit(d, 0, Were(had, d))
  BY HistoryIsHad DEF StandingHit
<1>3. QED
  BY <1>1, <1>2 DEF CollapseKeepsBest, CollapsedPage, Full, Sorts

LEMMA CollapseShows ==
    ASSUME NEW r, Asked(r), Accepted(r), r.collapse # None, NEW p,
           NEW H, HistoryTyped(H), NEW hits \in SUBSET HitSet, IsFiniteSet(hits),
           Sorts(p, r) => (r.size = 0 /\ hits = {}) \/ Leading(hits, H, r, Docs),
           NEW order \in Orders(r, hits),
           NEW page, page = Page(r, Behind(r, Collapsed(r, order)))
    PROVE  page \in Seq(HitSet) /\ CollapsedPage(p, page, H, r)
<1> DEFINE c == Collapsed(r, order)
           hit(d) == Hit(d, 0, Were(H, d))
<1>1. r.from \in Nat /\ r.size \in Nat /\ r.sort \in Seq(Clauses)
  BY AskedSort, AcceptedParts
<1>2. /\ order \in SetToSeqs(hits)
      /\ r.sort # <<>> => \A i, j \in DOMAIN order :
                             i < j => HitCmp(order[i], order[j], r.sort) <= 0
  BY DEF Orders
<1>3. /\ order \in Seq(hits) /\ Len(order) \in Nat /\ DOMAIN order = 1..Len(order)
      /\ \A i \in DOMAIN order : order[i] \in hits
      /\ \A h \in hits : \E i \in DOMAIN order : order[i] = h
  BY <1>2, HitsInOrder
<1>4. order \in Seq(HitSet)
  BY <1>3
<1>5. /\ c \in Seq(HitSet) /\ DOMAIN c = 1..Len(c) /\ Len(c) \in Nat
      /\ \A k, l \in DOMAIN c : k # l => Group(c[k]) # Group(c[l])
      /\ \A m \in DOMAIN order : \E k \in DOMAIN c, i \in DOMAIN order :
            Group(c[k]) = Group(order[m]) /\ c[k] = order[i] /\ i <= m
  BY <1>4, CollapsedGroups
<1>6. page = Page(r, Behind(r, c))
  OBVIOUS
<1> HIDE DEF c
<1>7. page \in Seq(HitSet) /\ Cut(page, c, r)
  BY <1>1, <1>5, <1>6, AnswersAreCut
<1>8. PICK o \in Nat :
        /\ \A i \in DOMAIN page : o + i \in DOMAIN c /\ page[i] = c[o + i]
        /\ r.after = None /\ r.from = 0 /\ Len(page) # r.size =>
              \A k \in DOMAIN c : \E i \in DOMAIN page : page[i] = c[k]
  BY <1>7 DEF Cut
<1>9. DOMAIN page = 1..Len(page) /\ Len(page) \in Nat /\ Len(page) <= r.size
  BY <1>7 DEF Cut
<1>10. ASSUME NEW i \in DOMAIN page, NEW j \in DOMAIN page, i # j
       PROVE  Group(page[i]) # Group(page[j])
  <2>1. o + i # o + j
    BY <1>9, <1>10
  <2>2. QED
    BY <1>5, <1>8, <2>1
<1>11. ASSUME Sorts(p, r), ~r.patterns, r.after = None, NEW d \in StandingIn(H, r)
       PROVE  /\ \A i \in DOMAIN page :
                    Group(page[i]) = Group(hit(d)) => HitCmp(page[i], hit(d), r.sort) <= 0
              /\ Len(page) # r.size /\ r.from = 0 =>
                    \E i \in DOMAIN page : Group(page[i]) = Group(hit(d))
  <2>1. CASE r.size = 0 /\ hits = {}
    <3>1. Len(page) = 0 /\ DOMAIN page = {}
      BY <1>9, <2>1
    <3>2. QED
      BY <2>1, <3>1
  <2>2. CASE Leading(hits, H, r, Docs)
    <3> DEFINE g == hit(d)
    <3>1. g \in PlainHits /\ d \in Docs /\ hits \in SUBSET PlainHits /\ r.sort # <<>>
      BY <1>11, <2>2, StandingHits DEF Leading, Sorts
    <3>2. g \in hits
      BY <2>2, <3>1 DEF Leading, Leads, Cuts
    <3> HIDE DEF g
    <3>3. PICK m \in DOMAIN order : order[m] = g
      BY <1>3, <3>2
    <3>4. PICK k \in DOMAIN c, i \in DOMAIN order :
            Group(c[k]) = Group(g) /\ c[k] = order[i] /\ i <= m
      BY <1>5, <3>3
    <3>5. HitCmp(c[k], g, r.sort) <= 0
      <4>1. CASE i < m
        BY <1>2, <3>1, <3>3, <3>4, <4>1
      <4>2. CASE i = m
        <5>1. HitCmp(g, g, r.sort) = 0
          BY <1>1, <3>1, HitsCompare
        <5>2. QED
          BY <3>3, <3>4, <4>2, <5>1
      <4>3. QED
        BY <1>3, <3>4, <4>1, <4>2
    <3>6. ASSUME NEW x \in DOMAIN page, Group(page[x]) = Group(g)
          PROVE  HitCmp(page[x], g, r.sort) <= 0
      <4>1. o + x \in DOMAIN c /\ page[x] = c[o + x]
        BY <1>8
      <4>2. o + x = k
        BY <1>5, <3>4, <3>6, <4>1
      <4>3. QED
        BY <3>5, <4>1, <4>2
    <3>7. Len(page) # r.size /\ r.from = 0 => \E x \in DOMAIN page : Group(page[x]) = Group(g)
      BY <1>8, <1>11, <3>4
    <3>8. QED
      BY <3>6, <3>7 DEF g
  <2>3. QED
    BY <1>11, <2>1, <2>2
<1>12. CollapsedPage(p, page, H, r)
  BY <1>10, <1>11 DEF CollapsedPage
<1>13. QED
  BY <1>7, <1>12

LEMMA AnswersAreRanked ==
    ASSUME Ready, Finite(search), Responds,
           NEW order \in Orders(Request, Remaining(Request)),
           NEW page, page = Page(Request, Behind(Request, Collapsed(Request, order)))
    PROVE  /\ ~PlainCount(Request) => page \in Seq(HitSet)
           /\ Sorts(projection, Request) /\ Request.collapse = None =>
                RankedPage(page, had, Request)
           /\ Request.collapse # None => CollapsedPage(projection, page, had, Request)
<1> DEFINE r == Request
           hits == Remaining(r)
<1>0. /\ SearchTyped(search) /\ HistoryTyped(had) /\ Asked(r) /\ CursorFits(r)
      /\ PlainCount(r) \/ Accepted(r)
  BY ReadyParts
<1>1. hits \in SUBSET search.hits /\ search.hits \in SUBSET HitSet
  BY <1>0, SearchParts DEF Remaining, Merged
<1>2. IsFiniteSet(hits) /\ hits \in SUBSET HitSet
  BY <1>1, FS_Subset DEF Finite
<1>3. Sorts(projection, r) => (r.size = 0 /\ hits = {}) \/ Leading(hits, had, r, Docs)
  BY <1>1, RespondLeads
<1>4. PICK A : A = hits
  OBVIOUS
<1>5. order \in Orders(r, A)
  BY <1>4
<1> HIDE DEF hits
<1>6. CASE r.collapse # None
  <2>1. Accepted(r)
    BY <1>0, <1>6 DEF PlainCount, Asked
  <2>2. page \in Seq(HitSet) /\ CollapsedPage(projection, page, had, r)
    BY <1>0, <1>2, <1>3, <1>4, <1>5, <1>6, <2>1, CollapseShows
  <2>3. QED
    BY <1>6, <2>2
<1>7. CASE r.collapse = None
  <2>1. page = Page(r, Behind(r, order))
    BY <1>7 DEF Collapsed
  <2>2. ASSUME ~PlainCount(r)
        PROVE  page \in Seq(HitSet)
    <3>1. r.from \in Nat /\ r.size \in Nat
      BY <1>0, <2>2, AcceptedParts
    <3>2. order \in SetToSeqs(A) /\ IsFiniteSet(A)
      BY <1>2, <1>4, <1>5 DEF Orders
    <3>3. order \in Seq(A)
      BY <3>2, HitsInOrder
    <3>4. order \in Seq(HitSet)
      BY <1>2, <1>4, <3>3
    <3>5. QED
      BY <2>1, <3>1, <3>4, AnswersAreCut
  <2>3. ASSUME Sorts(projection, r)
        PROVE  RankedPage(page, had, r)
    <3>1. Accepted(r) /\ r.sort # <<>>
      BY <1>0, <2>3, SortsParts
    <3>2. r.from \in Nat
      BY <1>0, <3>1, AcceptedParts
    <3>3. CASE r.size = 0 /\ A = {}
      <4>1. order \in Orders(r, {})
        BY <1>5, <3>3
      <4>2. QED
        BY <2>1, <3>2, <3>3, <4>1, NothingIsRanked
    <3>4. CASE Leading(A, had, r, Docs)
      BY <1>0, <1>5, <1>7, <2>1, <3>1, <3>4, LeadingIsRanked
    <3>5. QED
      BY <1>3, <1>4, <2>3, <3>3, <3>4
  <2>4. QED
    BY <1>7, <2>2, <2>3
<1>8. QED
  BY <1>6, <1>7

----------------------------------------------------------------------------
(* Every step leaves pages ranked.                                         *)

LEMMA StepRanks ==
    ASSUME Finite(search'), CursorsFit(queue'),
           search'.pc \notin {"idle", "done"} =>
                RankInv(search', projection', had', Request'),
           search'.pc = "done" => PageTyped(response', Request'),
           search'.pc = "done" /\ ~response'.error =>
                /\ Sorts(projection', Request') /\ Request'.collapse = None =>
                        RankedPage(response'.page, had', Request')
                /\ Request'.collapse # None =>
                        CollapsedPage(projection', response'.page, had', Request')
    PROVE  RInv'
<1>1. (PageIsRanked <=> (Succeeded /\ Sorts(projection, Request) /\ Request.collapse = None
                             => RankedPage(response.page, had, Request)))'
  BY RankedIsRanked, PTL
<1>2. (CollapseKeepsBest <=> (Succeeded /\ Request.collapse # None
                                 => CollapsedPage(projection, response.page, had, Request)))'
  BY CollapsedIsBest, PTL
<1>3. Succeeded' => search'.pc = "done" /\ ~response'.error
  BY DEF Succeeded, At
<1>4. PageIsRanked'
  BY <1>1, <1>3
<1>5. CollapseKeepsBest'
  BY <1>2, <1>3
<1>6. At("done")' => PageTyped(response', Request')
  BY DEF At
<1>7. QED
  BY <1>4, <1>5, <1>6 DEF RInv

LEMMA FailureRanks ==
    ASSUME Finite(search'), CursorsFit(queue'), search'.pc = "done", response' = Error
    PROVE  RInv'
<1>1. response'.error = TRUE
  BY DEF Error
<1>2. PageTyped(response', Request')
  BY <1>1 DEF PageTyped
<1>3. QED
  BY <1>1, <1>2, StepRanks

LEMMA NoSearchIsFinite ==
    \A s : s.hits = {} /\ s.reply = None => Finite(s)
BY FS_EmptySet DEF Finite

LEMMA AnsweredIsFinite ==
    ASSUME NEW answer, Answered(answer)
    PROVE  Finite(search') /\ search'.pc = "done" /\ response' = answer
<1>1. search'.hits = {} /\ search'.reply = None /\ search'.pc = "done" /\ response' = answer
  BY DEF Answered, NoSearch
<1>2. QED
  BY <1>1, NoSearchIsFinite

LEMMA ReadyToStep ==
    ASSUME IInv, SInv, RInv, search.pc \notin {"idle", "done"}
    PROVE  /\ Ready /\ Finite(search) /\ CursorsFit(queue) /\ TypeOK /\ SearchTyped(search)
           /\ HistoryInv /\ HistoryTyped(had)
<1>1. Queued(queue) /\ queue # <<>>
  BY DEF IInv, QueueInv, At
<1>2. Asked(Request) /\ queue[1] = Request
  BY <1>1, QueuedRequests DEF Request
<1>3. Present
  BY <1>2 DEF IInv, Present
<1>4. 1 \in DOMAIN queue
  <2>1. PICK S : queue \in Seq(S)
    BY <1>1 DEF Queued
  <2>2. QED
    BY <1>1, <2>1
<1>5. CursorFits(Request)
  <2>1. CursorFits(queue[1])
    BY <1>4 DEF RInv, CursorsFit
  <2>2. QED
    BY <1>2, <2>1
<1>6. QED
  BY <1>3, <1>5 DEF Ready, SInv, RInv, IInv, HistoryInv

\* A read that goes on, or fails.
LEMMA ReadRanks ==
    ASSUME Ready, CursorsFit(queue), Reads, Ranks(search'), Finite(search'),
           search'.pc = "done" => response' = Error
    PROVE  RInv'
<1>1. queue' = queue /\ projection' = projection /\ had' = had /\ Request' = Request
  BY DEF Reads, indexVars, Request
<1>2. CASE search'.pc = "done"
  BY <1>1, <1>2, FailureRanks
<1>3. CASE search'.pc # "done"
  BY <1>1, <1>3, StepRanks DEF Ranks
<1>4. QED
  BY <1>2, <1>3

LEMMA ReadsRank ==
    ASSUME IInv, SInv, RInv, search.pc \notin {"idle", "done"}
    PROVE  /\ ReadLike => RInv'
           /\ ReadCount \/ ReadOrderedCoverage \/ ReadOrdered \/ ReadAggregation => RInv'
           /\ Join => RInv'
           /\ \A f \in TextFields : ReadRanked(f) => RInv'
           /\ ReadApproximate => RInv'
           /\ ReadPage => RInv'
           /\ ReadSources => RInv'
           /\ Hydrate => RInv'
<1>0. /\ Ready /\ Finite(search) /\ CursorsFit(queue) /\ TypeOK /\ SearchTyped(search)
  BY ReadyToStep
<1>1. ASSUME NEW s, NEW x, s = [search EXCEPT !.pc = x]
      PROVE  s.pc = x
  BY <1>0, <1>1 DEF SearchTyped
<1>2. ASSUME ReadLike
      PROVE  RInv'
  <2>1. Reads /\ Ranks(search') /\ Finite(search')
    BY <1>0, <1>2, ReadLikeRanks, ReadsAreFinite DEF ReadLike
  <2>2. search'.pc = "done" => response' = Error
    <3>1. CASE Answered(Error)
      BY <3>1 DEF Answered
    <3>2. CASE search' = [search EXCEPT !.pc = "join", !.like = docs[Request.like]]
      BY <1>0, <3>2 DEF SearchTyped
    <3>3. QED
      BY <1>2, <3>1, <3>2 DEF ReadLike
  <2>3. QED
    BY <1>0, <2>1, <2>2, ReadRanks
<1>3. ASSUME ReadCount \/ ReadOrderedCoverage \/ ReadOrdered \/ ReadAggregation
      PROVE  RInv'
  <2>1. Reads /\ search.pc = "join"
    BY <1>3 DEF ReadCount, ReadOrderedCoverage, ReadOrdered, ReadAggregation, At
  <2>2. Ranks(search') /\ Finite(search')
    BY <1>0, <1>3, <2>1, JoiningReadsRank, ReadsAreFinite
  <2>3. search'.pc = search.pc
    <3>1. CASE ReadCount
      BY <1>0, <3>1 DEF ReadCount, SearchTyped
    <3>2. CASE ReadOrderedCoverage
      BY <1>0, <3>2 DEF ReadOrderedCoverage, SearchTyped
    <3>3. CASE ReadOrdered
      BY <1>0, <3>3 DEF ReadOrdered, SearchTyped
    <3>4. CASE ReadAggregation
      BY <3>4 DEF ReadAggregation
    <3>5. QED
      BY <1>3, <3>1, <3>2, <3>3, <3>4
  <2>4. QED
    BY <1>0, <2>1, <2>2, <2>3, ReadRanks
<1>4. ASSUME Join
      PROVE  RInv'
  <2>1. Reads /\ Ranks(search') /\ Finite(search')
    BY <1>0, <1>4, JoinRanks, ReadsAreFinite DEF Join
  <2>2. search'.pc = "done" => response' = Error
    <3>1. CASE Answered(Error)
      BY <3>1 DEF Answered
    <3>2. ASSUME NEW x, NEW o, NEW f, NEW h, x # "done",
                 search' = [search EXCEPT !.pc = x, !.ordered = o, !.fields = f, !.hits = h]
          PROVE  search'.pc # "done"
      BY <1>0, <3>2 DEF SearchTyped
    <3>3. \A o : Source(Request, o) # "done"
      BY DEF Source
    <3>4. ASSUME ~Answered(Error)
          PROVE  search'.pc # "done"
      <4> DEFINE o == Ordered(Request)
                 x == Source(Request, o)
                 f == IF x = "ranked" THEN DOMAIN Request.text ELSE {}
                 h == IF o = None THEN {} ELSE o
      <4>1. search' = [search EXCEPT !.pc = x, !.ordered = o, !.fields = f, !.hits = h]
        BY <1>4, <3>4 DEF Join
      <4>2. x # "done"
        BY <3>3
      <4> HIDE DEF o, x, f, h
      <4>3. QED
        BY <3>2, <4>1, <4>2
    <3>5. QED
      BY <3>1, <3>4
  <2>3. QED
    BY <1>0, <2>1, <2>2, ReadRanks
<1>5. ASSUME NEW f \in TextFields, ReadRanked(f)
      PROVE  RInv'
  <2>1. Reads /\ Ranks(search') /\ Finite(search')
    BY <1>0, <1>5, OtherReadsRank, CollectsFinitely DEF ReadRanked
  <2>2. search'.pc = search.pc
    BY <1>0, <1>5 DEF ReadRanked, SearchTyped
  <2>3. QED
    BY <1>0, <2>1, <2>2, ReadRanks
<1>6. ASSUME ReadApproximate
      PROVE  RInv'
  <2>1. Reads /\ Ranks(search') /\ Finite(search')
    BY <1>0, <1>6, OtherReadsRank, CollectsFinitely DEF ReadApproximate
  <2>2. search'.pc # "done"
    BY <1>0, <1>6 DEF ReadApproximate, SearchTyped
  <2>3. QED
    BY <1>0, <2>1, <2>2, ReadRanks
<1>7. \A found, next : Gather(found, next).pc # "done"
  BY <1>0 DEF Gather, SearchTyped
<1>8. ASSUME ReadPage
      PROVE  RInv'
  <2>1. Reads /\ Ranks(search') /\ Finite(search')
    BY <1>0, <1>8, ReadPageRanks, CollectsFinitely DEF ReadPage
  <2>2. search'.pc # "done"
    <3>1. ASSUME NEW b, NEW o,
                 search' = [search EXCEPT !.pc = "sources", !.batch = b, !.offset = o]
          PROVE  search'.pc # "done"
      BY <1>0, <3>1 DEF SearchTyped
    <3>2. QED
      BY <1>7, <1>8, <3>1 DEF ReadPage
  <2>3. QED
    BY <1>0, <2>1, <2>2, ReadRanks
<1>9. ASSUME ReadSources
      PROVE  RInv'
  <2>1. Reads /\ Ranks(search') /\ Finite(search')
    BY <1>0, <1>9, ReadSourcesRanks, CollectsFinitely DEF ReadSources
  <2>2. search'.pc # "done"
    BY <1>7, <1>9 DEF ReadSources
  <2>3. QED
    BY <1>0, <2>1, <2>2, ReadRanks
<1>10. ASSUME Hydrate
       PROVE  RInv'
  <2>1. Reads /\ Ranks(search') /\ Finite(search')
    BY <1>0, <1>10, OtherReadsRank, CollectsFinitely DEF Hydrate
  <2>2. search'.pc # "done"
    BY <1>0, <1>10 DEF Hydrate, SearchTyped
  <2>3. QED
    BY <1>0, <2>1, <2>2, ReadRanks
<1>11. QED
  BY <1>2, <1>3, <1>4, <1>5, <1>6, <1>8, <1>9, <1>10

LEMMA RewrittenFits ==
    ASSUME NEW r, Asked(r), CursorFits(r)
    PROVE  CursorFits(Rewritten(r))
<1>1. Rewritten(r).after = r.after /\ Rewritten(r).sort = r.sort
  <2>1. "after" \in DOMAIN r /\ "sort" \in DOMAIN r
    BY AskedFields
  <2>2. QED
    BY <2>1 DEF Rewritten
<1>2. QED
  BY <1>1 DEF CursorFits

\* A changed request at the head, or none.
LEMMA CursorsStillFit ==
    ASSUME NEW q, Queued(q), q # <<>>, CursorsFit(q)
    PROVE  /\ CursorFits(Head(q)) /\ CursorsFit(Tail(q))
           /\ \A t : CursorFits(t) => CursorsFit([q EXCEPT ![1] = t])
<1>1. PICK S : q \in Seq(S)
  BY DEF Queued
<1>2. 1 \in DOMAIN q /\ Head(q) = q[1]
  BY <1>1
<1>3. CursorFits(Head(q))
  BY <1>2 DEF CursorsFit
<1>4. CursorsFit(Tail(q))
  <2>1. \A i \in DOMAIN Tail(q) : i + 1 \in DOMAIN q /\ Tail(q)[i] = q[i + 1]
    BY <1>1
  <2>2. QED
    BY <2>1 DEF CursorsFit
<1>5. ASSUME NEW t, CursorFits(t)
      PROVE  CursorsFit([q EXCEPT ![1] = t])
  <2> DEFINE v == [q EXCEPT ![1] = t]
  <2>1. DOMAIN v = DOMAIN q /\ v[1] = t /\ \A i \in DOMAIN q : i # 1 => v[i] = q[i]
    BY <1>2
  <2>2. \A i \in DOMAIN v : CursorFits(v[i])
    <3> HIDE DEF v
    <3>1. QED
      BY <1>5, <2>1 DEF CursorsFit
  <2>3. QED
    BY <2>2 DEF CursorsFit
<1>6. QED
  BY <1>3, <1>4, <1>5

LEMMA StartRanks ==
    ASSUME IInv, RInv, Start
    PROVE  RInv'
<1> DEFINE r == Rewritten(Request)
           plain == r.entry = "count" /\ ~Ranked(r) /\ ~r.patterns
           pc == IF r.like # None THEN "like" ELSE "join"
           waiting == IF plain THEN {"count"} ELSE Joins(r)
<1>0. /\ Queued(queue) /\ queue # <<>> /\ CursorsFit(queue)
      /\ queue' = [queue EXCEPT ![1] = r] /\ projection' = projection
  BY DEF IInv, QueueInv, RInv, Start
<1>1. Asked(Request) /\ CursorFits(Request)
  BY <1>0, QueuedRequests, CursorsStillFit DEF Request
<1>2. Asked(r) /\ CursorFits(r)
  BY <1>1, AskedRewritten, RewrittenFits
<1>3. Request' = r /\ CursorsFit(queue')
  BY <1>0, <1>2, QueuedRequests, CursorsStillFit DEF Request
<1>4. CASE Answered(Error)
  BY <1>3, <1>4, AnsweredIsFinite, FailureRanks
<1>5. CASE /\ plain \/ Accepted(r)
           /\ search' = [NoSearch EXCEPT !.pc = pc, !.waiting = waiting]
  <2>1. "ordered" \in waiting => Serves(projection, r) /\ "coverage" \in waiting
    BY DEF Joins, OrderedByQdrant, Serves
  <2>2. PlainCount(r) \/ Accepted(r)
    BY <1>5 DEF PlainCount
  <2> HIDE DEF waiting, r, plain
  <2>3. pc \in {"like", "join"}
    OBVIOUS
  <2> HIDE DEF pc
  <2>4. /\ search'.pc = pc /\ search'.waiting = waiting /\ search'.reply = None
        /\ search'.hits = {}
    BY <1>5 DEF NoSearch
  <2>5. Finite(search')
    BY <2>4, NoSearchIsFinite
  <2>6. Joining(search', projection, had', r)
    BY <2>1, <2>4 DEF Joining
  <2>7. RankInv(search', projection, had', r)
    BY <2>2, <2>3, <2>4, <2>6 DEF RankInv
  <2>8. search'.pc # "done"
    BY <2>3, <2>4
  <2>9. QED
    BY <1>0, <1>3, <2>5, <2>7, <2>8, StepRanks
<1>6. QED
  BY <1>4, <1>5 DEF Start

\* The sort values of a hit are a cursor.
LEMMA HitsAreCursors ==
    ASSUME NEW r, Asked(r), NEW h \in HitSet, NEW t, t = [r EXCEPT !.after = Key(h, r.sort)]
    PROVE  CursorFits(t)
<1>1. r.sort \in Seq(Clauses)
  BY AskedSort
<1>2. t.sort = r.sort /\ t.after = Key(h, r.sort)
  BY AskedFields
<1>3. h.id \in Docs /\ h.score \in Nat /\ h.source \in Contents \cup {None}
  BY DEF HitSet
<1>4. h.id \in Nat
  <2>1. \A d \in Docs : d \in Nat
    BY PositionsAreDocs
  <2>2. QED
    BY <1>3, <2>1, Zenon
<1>5. SortValue(h, "_id") \in Value
  BY <1>4 DEF SortValue, Text, Value, Kinds
<1>6. SortValue(h, "_score") \in Value
  BY <1>3 DEF SortValue, Value, Kinds
<1>7. SortValue(h, "n") \in Values
  <2>1. Null \in Values
    BY IndexAssumption DEF Null
  <2>2. \A c \in Contents : c.n \in Values
    BY IndexAssumption DEF Content
  <2>3. QED
    BY <1>3, <2>1, <2>2 DEF SortValue
<1>8. ASSUME NEW i \in DOMAIN r.sort
      PROVE  Key(h, r.sort)[i] \in IF r.sort[i].field = "n" THEN Values ELSE Value
  <2>1. r.sort[i].field \in {"_id", "_score", "n"}
    <3>1. r.sort[i] \in Clauses
      BY <1>1
    <3>2. \A c \in Clauses : c.field \in {"_id", "_score", "n"}
      BY DEF Clauses
    <3>3. QED
      BY <3>1, <3>2
  <2>2. Key(h, r.sort)[i] = SortValue(h, r.sort[i].field)
    BY DEF Key
  <2>3. QED
    BY <1>5, <1>6, <1>7, <2>1, <2>2
<1>9. QED
  BY <1>2, <1>8 DEF CursorFits

LEMMA AskRanks ==
    ASSUME IInv, RInv, Ask
    PROVE  RInv'
<1> DEFINE r == Request
<1>0. /\ Queued(queue) /\ queue # <<>> /\ CursorsFit(queue) /\ At("done")
      /\ search' = NoSearch /\ PageTyped(response, r)
  BY DEF IInv, QueueInv, RInv, Ask, At
<1>1. search'.pc = "idle" /\ search'.hits = {} /\ search'.reply = None
  BY <1>0 DEF NoSearch
<1>2. Finite(search')
  BY <1>1, NoSearchIsFinite
<1>3. CursorsFit(queue')
  <2>1. CASE queue' = Tail(queue)
    BY <1>0, <2>1, CursorsStillFit
  <2>2. ASSUME Continues(r),
               queue' = [queue EXCEPT ![1].after =
                             Key(response.page[Len(response.page)], r.sort)]
        PROVE  CursorsFit(queue')
    <3> DEFINE h == response.page[Len(response.page)]
    <3>1. queue[1] = r /\ Asked(r)
      BY <1>0, QueuedRequests DEF Request
    <3>2. PICK t : t = [r EXCEPT !.after = Key(h, r.sort)]
      OBVIOUS
    <3>3. CursorFits(t)
      <4>1. CASE PlainCount(r)
        <5>1. r.sort = <<>>
          BY <3>1, <4>1 DEF PlainCount, Asked
        <5>2. t.sort = r.sort
          BY <3>1, <3>2, AskedFields
        <5>3. DOMAIN t.sort = {}
          BY <5>1, <5>2
        <5>4. QED
          BY <5>3 DEF CursorFits
      <4>2. CASE ~PlainCount(r)
        <5>1. response.page \in Seq(HitSet) /\ r.size > 0 /\ Len(response.page) = r.size
          BY <1>0, <2>2, <4>2 DEF PageTyped, Continues
        <5>2. Len(response.page) \in DOMAIN response.page
          BY <5>1
        <5>3. h \in HitSet
          BY <5>1, <5>2
        <5> HIDE DEF h
        <5>4. QED
          BY <3>1, <3>2, <5>3, HitsAreCursors
      <4>3. QED
        BY <4>1, <4>2
    <3>4. queue' = [queue EXCEPT ![1] = t]
      BY <2>2, <3>1, <3>2
    <3>5. QED
      BY <1>0, <3>3, <3>4, CursorsStillFit
  <2>3. QED
    BY <2>1, <2>2 DEF Ask
<1>4. QED
  BY <1>1, <1>2, <1>3, StepRanks

LEMMA RankInvGrows ==
    ASSUME NEW H, NEW G, HistoryTyped(H), HistoryTyped(G), Grows(H, G),
           NEW s, NEW p, NEW r, RankInv(s, p, H, r)
    PROVE  RankInv(s, p, G, r)
<1>1. ASSUME s.pc = "join"
      PROVE  Joining(s, p, G, r)
  <2>1. Joining(s, p, H, r)
    BY <1>1 DEF RankInv
  <2>2. Replied(s.reply.hits, H, r) => Replied(s.reply.hits, G, r)
    BY RepliedGrows
  <2>3. QED
    BY <2>1, <2>2 DEF Joining
<1>2. Leading(s.hits, H, r, Seen(s)) => Leading(s.hits, G, r, Seen(s))
  BY LeadingGrows
<1>3. Leading(s.hits, H, r, Docs) => Leading(s.hits, G, r, Docs)
  BY LeadingGrows
<1>4. QED
  BY <1>1, <1>2, <1>3 DEF RankInv

LEMMA InterfereRanks ==
    ASSUME IInv, SInv, RInv, Interfere
    PROVE  RInv'
<1>1. /\ search.pc \notin {"idle", "done"} /\ Writer
      /\ UNCHANGED <<aggregation, queue, search, response>>
  BY DEF Interfere
<1>2. /\ Ready /\ Finite(search) /\ CursorsFit(queue) /\ TypeOK /\ HistoryInv
      /\ HistoryTyped(had) /\ RankInv(search, projection, had, Request)
  BY <1>1, ReadyToStep DEF RInv
<1>3. projection' = projection /\ HistoryTyped(had') /\ Grows(had, had')
  BY <1>1, <1>2, WriterKeeps
<1>4. Request' = Request
  BY <1>1 DEF Request
<1>5. RankInv(search, projection, had', Request)
  BY <1>2, <1>3, RankInvGrows
<1>6. QED
  BY <1>1, <1>2, <1>3, <1>4, <1>5, StepRanks

LEMMA RespondRanks ==
    ASSUME IInv, SInv, RInv, Respond
    PROVE  RInv'
<1> DEFINE r == Request
<1>1. search.pc \notin {"idle", "done"} /\ Responds
  BY DEF Respond, Responds, Gathered, At
<1>2. Ready /\ Finite(search) /\ CursorsFit(queue)
  BY <1>1, ReadyToStep
<1>3. queue' = queue /\ projection' = projection /\ had' = had /\ Request' = r
  BY DEF Respond, indexVars, Request
<1>4. PICK order \in Orders(r, Remaining(r)) :
        Answered(AnswerOf(r, Remaining(r), order))
  BY DEF Respond
<1>5. /\ Finite(search') /\ search'.pc = "done"
      /\ response' = AnswerOf(r, Remaining(r), order)
  BY <1>4, AnsweredIsFinite
<1>6. response'.page = Page(r, Behind(r, Collapsed(r, order)))
  BY <1>5 DEF AnswerOf
<1>7. PICK page : page = response'.page
  OBVIOUS
<1>8. page = Page(r, Behind(r, Collapsed(r, order)))
  BY <1>6, <1>7
<1>9. /\ ~PlainCount(r) => page \in Seq(HitSet)
      /\ Sorts(projection, r) /\ r.collapse = None => RankedPage(page, had, r)
      /\ r.collapse # None => CollapsedPage(projection, page, had, r)
  BY <1>1, <1>2, <1>8, AnswersAreRanked
<1>10. PageTyped(response', r)
  BY <1>7, <1>9 DEF PageTyped
<1> HIDE DEF r
<1>11. QED
  BY <1>2, <1>3, <1>5, <1>7, <1>9, <1>10, StepRanks

LEMMA InitRanks == Init => RInv
<1> SUFFICES ASSUME Init PROVE RInv
  OBVIOUS
<1>1. search = NoSearch /\ queue \in Batches
  BY DEF Init, SearchInit
<1>2. search.pc = "idle" /\ search.hits = {} /\ search.reply = None
  BY <1>1 DEF NoSearch
<1>3. Finite(search)
  BY <1>2, NoSearchIsFinite
<1>4. CursorsFit(queue)
  <2>1. queue \in Seq(ToSet(queue)) /\ \A r \in ToSet(queue) : CursorFits(r)
    BY <1>1, SearchAssumption
  <2>2. \A i \in DOMAIN queue : queue[i] \in ToSet(queue)
    BY <2>1
  <2>3. QED
    BY <2>1, <2>2 DEF CursorsFit
<1>5. PageIsRanked /\ CollapseKeepsBest
  BY <1>2 DEF PageIsRanked, CollapseKeepsBest, Succeeded, At
<1>6. QED
  BY <1>2, <1>3, <1>4, <1>5 DEF RInv, At

LEMMA NextRanks == IInv /\ SInv /\ RInv /\ [Next]_vars => RInv'
<1> SUFFICES ASSUME IInv, SInv, RInv, [Next]_vars PROVE RInv'
  OBVIOUS
<1>1. CASE Start
  BY <1>1, StartRanks
<1>2. CASE Respond
  BY <1>2, RespondRanks
<1>3. CASE /\ search.pc \notin {"idle", "done"}
           /\ \/ ReadLike \/ ReadCount \/ ReadOrderedCoverage \/ ReadOrdered
              \/ ReadAggregation \/ Join
              \/ \E f \in TextFields : ReadRanked(f)
              \/ ReadApproximate \/ ReadPage \/ ReadSources \/ Hydrate
  BY <1>3, ReadsRank
<1>4. CASE Ask
  BY <1>4, AskRanks
<1>5. CASE Interfere
  BY <1>5, InterfereRanks
<1>6. CASE UNCHANGED vars
  <2>1. UNCHANGED <<projection, had, queue, search, response>>
    BY <1>6 DEF vars, indexVars
  <2>2. Request' = Request
    BY <2>1 DEF Request
  <2>3. /\ Finite(search) /\ CursorsFit(queue)
        /\ search.pc \notin {"idle", "done"} => RankInv(search, projection, had, Request)
        /\ search.pc = "done" => PageTyped(response, Request)
    BY DEF RInv, At
  <2>4. search.pc = "done" /\ ~response.error =>
            /\ Sorts(projection, Request) /\ Request.collapse = None =>
                    RankedPage(response.page, had, Request)
            /\ Request.collapse # None =>
                    CollapsedPage(projection, response.page, had, Request)
    BY RankedIsRanked, CollapsedIsBest DEF RInv, Succeeded, At
  <2>5. QED
    BY <2>1, <2>2, <2>3, <2>4, StepRanks
<1>7. /\ ReadLike => search.pc = "like"
      /\ ReadCount \/ ReadOrderedCoverage \/ ReadOrdered \/ ReadAggregation \/ Join
            => search.pc = "join"
      /\ \A f \in TextFields : ReadRanked(f) => search.pc = "ranked"
      /\ ReadApproximate => search.pc = "approximate"
      /\ ReadPage => search.pc = "scroll"
      /\ ReadSources => search.pc = "sources"
      /\ Hydrate => search.pc \in {"gathered", "ranked"}
  BY DEF ReadLike, ReadCount, ReadOrderedCoverage, ReadOrdered, ReadAggregation, Join,
         ReadRanked, ReadApproximate, ReadPage, ReadSources, Hydrate, Gathered, At
<1>8. QED
  BY <1>1, <1>2, <1>3, <1>4, <1>5, <1>6, <1>7 DEF Next, SearchStep, Terminated

LEMMA SearchesKnow == Spec => [](IInv /\ SInv /\ RInv)
<1>1. Init => IInv /\ SInv /\ RInv
  BY InitKnows, InitIsFree, InitRanks
<1>2. IInv /\ SInv /\ RInv /\ [Next]_vars => (IInv /\ SInv /\ RInv)'
  BY NextKnows, NextIsFree, NextRanks
<1>3. QED
  BY <1>1, <1>2, PTL DEF Spec

(* A page sorted by fields is in order, has no document twice, and lacks a *)
(* document that stood still and matched only if it is behind a full page, *)
(* before the cursor, or among the `from` first that are skipped: whatever *)
(* writers did meanwhile, whether Qdrant ordered the page and the coverage *)
(* and tie checks let it pass (main.rs: ordered_numeric_hits), or a        *)
(* complete scan kept the first hits of every batch (main.rs: the loop of  *)
(* search_with_total_format).                                              *)
THEOREM PagesAreRanked == Spec => []PageIsRanked
<1>1. RInv => PageIsRanked
  BY DEF RInv
<1>2. QED
  BY <1>1, SearchesKnow, PTL

(* A collapsed page has one hit for each value, the best one of those that *)
(* stood still, and no value is lost for want of room in the window        *)
(* (main.rs: collapse_hits, and a complete scan that keeps every hit for   *)
(* it).                                                                    *)
THEOREM CollapsesKeepBest == Spec => []CollapseKeepsBest
<1>1. RInv => CollapseKeepsBest
  BY DEF RInv
<1>2. QED
  BY <1>1, SearchesKnow, PTL

=============================================================================
