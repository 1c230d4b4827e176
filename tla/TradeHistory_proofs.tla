------------------------- MODULE TradeHistory_proofs -------------------------
(***************************************************************************)
(* Proofs about TradeHistory, for any page size, length of a day, trades   *)
(* and number of blocks.                                                   *)
(*                                                                         *)
(* What makes the pages consistent is how each cursor came about: Taken    *)
(* says that at some moment a page took the newest rows before its own     *)
(* cursor and that the next cursor is where they ended.  Whenever that     *)
(* page is fetched again the table has only grown, so the newest rows can  *)
(* only have moved up (Refetched).                                         *)
(***************************************************************************)
EXTENDS TradeHistory, FiniteSetTheorems, WellFoundedInduction, TLAPS

Cursors == {0} \union Times

\* The rows before cursor b among the first n of the table t.
RowsBefore(t, b, n) == {k \in 1..n : b = 0 \/ t[k].ts < b}

\* items was the page at cursor b when the table t had n rows, and next its end.
Taken(t, items, b, next, n) ==
  /\ items \subseteq RowsBefore(t, b, n)
  /\ next = 0 => items = RowsBefore(t, b, n)
  /\ next # 0 => /\ Cardinality(items) = PageSize
                 /\ b = 0 \/ next < b
                 /\ \A k \in items : t[k].ts >= next
                 /\ \A k \in RowsBefore(t, b, n) \ items : t[k].ts <= next

CacheOK ==
  \A b \in Cursors :
    /\ ~cache[b].loaded => cache[b] = NotAsked
    /\ cache[b].asOf <= Len(trades)
    /\ cache[b].loaded => Taken(trades, cache[b].items, b, cache[b].next, cache[b].asOf)

Inner == 1..(Len(pages) - 1)

PagesOK ==
  /\ pages[1] = [before |-> 0, asOf |-> 0]
  /\ \A i \in Blocks : i > 1 => pages[i].before # 0 /\ pages[i].asOf <= Len(trades)
  /\ \A i, j \in Blocks : i < j => pages[i].before = 0 \/ pages[j].before < pages[i].before
  /\ \A i \in Inner : \E items \in SUBSET Ids :
       Taken(trades, items, pages[i].before, pages[i + 1].before, pages[i + 1].asOf)

\* What an inner block shows against the cursor that follows it.
Fits(t, items, b, next, n) ==
  /\ \A k \in items : t[k].ts >= next
  /\ \A k \in RowsBefore(t, b, n) \ items : t[k].ts > next => \E l \in items : l > n

ShownOK ==
  \A i \in Inner : cache[pages[i].before].loaded =>
    Fits(trades, Shown(i), pages[i].before, pages[i + 1].before, pages[i + 1].asOf)

ReportOK ==
  /\ report.stage # "idle" => report.counted \subseteq {k \in Committed : InDay(k, report.day)}
  /\ SummaryGrouped

IInv == TypeOK /\ CacheOK /\ PagesOK /\ ShownOK /\ ReportOK

USE PageAssumption, TimeAssumption, TradeAssumption, InstrumentAssumption

\* Committed trades are rows.
LEMMA RowTypes ==
  ASSUME TypeOK
  PROVE  /\ Len(trades) \in 0..MaxTrades /\ Committed \subseteq Ids
         /\ \A k \in Committed : trades[k] \in Row /\ trades[k].ts \in Times
<1>1. trades \in Seq(Row) /\ Len(trades) <= MaxTrades
  BY DEF TypeOK
<1>2. \A k \in Committed : trades[k] \in Row
  BY <1>1 DEF Committed
<1>3. Len(trades) \in 0..MaxTrades /\ Committed \subseteq Ids
  BY <1>1 DEF Committed, Ids
<1> QED
  BY <1>2, <1>3 DEF Row

\* Blocks have their types.
LEMMA BlockTypes ==
  ASSUME TypeOK
  PROVE  /\ Len(pages) \in Nat \ {0}
         /\ \A i \in Blocks : /\ pages[i] \in Block /\ pages[i].before \in Cursors
                              /\ pages[i].asOf \in 0..MaxTrades
         /\ \A i \in Inner : i \in Blocks /\ i + 1 \in Blocks /\ i + 1 > 1
<1>1. pages \in Seq(Block) /\ pages # <<>>
  BY DEF TypeOK
<1>2. Len(pages) \in Nat \ {0}
  BY <1>1
<1>3. \A i \in Blocks : pages[i] \in Block
  BY <1>1 DEF Blocks
<1>4. \A i \in Inner : i \in Blocks /\ i + 1 \in Blocks /\ i + 1 > 1
  BY <1>2 DEF Inner, Blocks
<1> QED
  BY <1>2, <1>3, <1>4 DEF Block, Cursors

\* Answers have their types.
LEMMA CacheTypes ==
  ASSUME TypeOK, NEW b \in Cursors
  PROVE  /\ cache[b] \in Answer /\ cache[b].items \subseteq Ids /\ cache[b].next \in Cursors
         /\ cache[b].asOf \in 0..MaxTrades
<1>1. cache[b] \in Answer
  BY DEF TypeOK, Cursors
<1> QED
  BY <1>1 DEF Answer, Cursors

\* A nonempty set of numbers up to n has a largest one.
LEMMA Maximum ==
  ASSUME NEW n \in Nat, NEW T \in SUBSET (0..n), T # {}
  PROVE  \E x \in T : \A y \in T : y <= x
<1> DEFINE Above(t) == {y \in T : t < y}
           Aboves   == {Above(t) : t \in T}
<1>0. T \subseteq Int
  OBVIOUS
<1>1. IsFiniteSet(0..n)
  BY FS_Interval
<1>2. IsFiniteSet(T)
  BY <1>1, FS_Subset
<1>3. \A t \in T : IsFiniteSet(Above(t)) /\ Above(t) \subseteq T
  BY <1>2, FS_Subset
<1>4. Aboves \subseteq FiniteSubsetsOf(T) /\ Aboves # {}
  BY <1>3 DEF FiniteSubsetsOf
<1>5. PICK x \in T : \A A \in Aboves : <<A, Above(x)>> \notin StrictSubsetOrdering(T)
  <2> HIDE DEF Above
  <2>1. PICK B \in Aboves : \A A \in Aboves : ~ (<<A, B>> \in StrictSubsetOrdering(T))
    <3> HIDE DEF Aboves
    <3> QED
      BY <1>4, FS_StrictSubsetOrderingWellFounded, WFMin, Zenon
  <2> QED
    BY <2>1
<1>6. ASSUME NEW y \in T, x < y
      PROVE  FALSE
  <2>0. x \in Int /\ y \in Int
    BY <1>0
  <2>1. \A z \in T : y < z => x < z
    BY <1>0, <1>6, <2>0
  <2>2. Above(y) \subseteq Above(x)
    BY <2>1
  <2>3. y \in Above(x) /\ y \notin Above(y)
    BY <1>6, <2>0
  <2>4. Above(y) # Above(x)
    BY <2>3
  <2>5. \A A, B \in SUBSET T : A \subseteq B /\ A # B => <<A, B>> \in StrictSubsetOrdering(T)
    BY DEF StrictSubsetOrdering
  <2>6. Above(x) \in SUBSET T /\ Above(y) \in SUBSET T
    BY <1>3
  <2>7. <<Above(y), Above(x)>> \in StrictSubsetOrdering(T)
    <3> HIDE DEF Above
    <3> QED
      BY <2>2, <2>4, <2>5, <2>6
  <2> QED
    BY <1>5, <2>7
<1> QED
  BY <1>0, <1>6

\* Latest is the largest ts.
LEMMA LatestIs ==
  ASSUME TypeOK, NEW rows \in SUBSET Committed, rows # {}
  PROVE  /\ Latest(rows) \in Times
         /\ \E k \in rows : trades[k].ts = Latest(rows)
         /\ \A k \in rows : trades[k].ts <= Latest(rows)
<1> DEFINE T == {trades[k].ts : k \in rows}
           n == Days * DayLength
<1>1. n \in Nat
  OBVIOUS
<1>2. \A k \in Committed : trades[k] \in Row /\ trades[k].ts \in Times
  BY RowTypes
<1>3. T \subseteq Times /\ T # {}
  BY <1>2
<1>4. T \in SUBSET (0..n)
  <2>1. Times \subseteq 0..n
    BY <1>1 DEF Times
  <2> QED
    BY <1>3, <2>1
<1>5. \E x \in T : \A y \in T : y <= x
  <2> HIDE DEF T, n
  <2> QED
    BY <1>1, <1>3, <1>4, Maximum
<1>6. \E x \in T : \A k \in rows : trades[k].ts <= x
  BY <1>5
<1>7. Latest(rows) \in T /\ \A k \in rows : trades[k].ts <= Latest(rows)
  BY <1>6 DEF Latest
<1> QED
  BY <1>3, <1>7

\* An answer is a page taken now, and of the newest rows.
LEMMA AnswerIs ==
  ASSUME TypeOK, NEW b \in Cursors, NEW answer \in ClosedPositions(b)
  PROVE  /\ answer \in Answer /\ answer.loaded /\ answer.asOf = Len(trades)
         /\ Newest(answer.items, Before(b))
         /\ Taken(trades, answer.items, b, answer.next, answer.asOf)
<1>1. Before(b) = RowsBefore(trades, b, Len(trades)) /\ Before(b) \subseteq Committed
  BY DEF Before, RowsBefore, Committed
<1>2. Len(trades) \in Nat /\ Committed \subseteq Ids /\ IsFiniteSet(Committed)
  BY FS_Interval DEF TypeOK, Committed, Ids
<1>3. PICK items \in SUBSET Before(b) :
        /\ Newest(items, Before(b))
        /\ answer = [loaded |-> TRUE, items |-> items,
                     next |-> NextBefore(items, Before(b) \ items), asOf |-> Len(trades)]
  BY DEF ClosedPositions
<1> DEFINE rest == Before(b) \ items
<1>4. \A k \in Committed : trades[k].ts \in Times
  BY RowTypes
<1>5. CASE rest = {}
  <2>1. NextBefore(items, rest) = 0 /\ items = Before(b)
    BY <1>5 DEF NextBefore
  <2> QED
    <3>1. answer.items = items /\ answer.next = 0 /\ answer.asOf = Len(trades)
      BY <1>3, <2>1
    <3>2. answer \in Answer
      BY <1>1, <1>2, <1>3, <2>1, RowTypes DEF Answer
    <3>3. Taken(trades, items, b, 0, Len(trades))
      BY <1>1, <2>1 DEF Taken
    <3> QED
      BY <1>3, <3>1, <3>2, <3>3
<1>6. CASE rest # {}
  <2>1. /\ NextBefore(items, rest) = Latest(rest) /\ Latest(rest) \in Times
        /\ \E k \in rest : trades[k].ts = Latest(rest)
        /\ \A k \in rest : trades[k].ts <= Latest(rest)
    BY <1>1, <1>6, LatestIs DEF NextBefore
  <2>2. Latest(rest) # 0
    BY <2>1 DEF Times
  <2>3. \A k \in items : trades[k].ts >= Latest(rest)
    BY <1>1, <1>3, <1>4, <2>1 DEF Newest, Times
  <2>4. b = 0 \/ Latest(rest) < b
    BY <1>1, <2>1 DEF Before
  <2>5. Cardinality(items) = PageSize
    <3>1. IsFiniteSet(Before(b)) /\ IsFiniteSet(items)
      BY <1>1, <1>2, FS_Subset
    <3>2. Cardinality(items) <= Cardinality(Before(b)) /\ Cardinality(items) # Cardinality(Before(b))
      BY <1>6, <3>1, FS_Subset
    <3> QED
      BY <1>3, <3>2 DEF Newest
  <2>6. answer.items = items /\ answer.next = Latest(rest) /\ answer.asOf = Len(trades)
    BY <1>3, <2>1
  <2>7. answer \in Answer
    BY <1>1, <1>2, <1>3, <2>1, RowTypes DEF Answer
  <2>8. Taken(trades, items, b, Latest(rest), Len(trades))
    BY <1>1, <2>1, <2>2, <2>3, <2>4, <2>5 DEF Taken
  <2> QED
    BY <1>3, <2>6, <2>7, <2>8
<1> QED
  BY <1>5, <1>6

\* A page that is fetched again still fits the cursor that was taken from it.
LEMMA Refetched ==
  ASSUME TypeOK, NEW b \in Cursors, NEW next \in Cursors, next # 0,
         NEW n \in 0..Len(trades),
         NEW old, Taken(trades, old, b, next, n), NEW items, Newest(items, Before(b))
  PROVE  Fits(trades, items, b, next, n)
<1>1. /\ items \subseteq Before(b) /\ old \subseteq Before(b) /\ RowsBefore(trades, b, n) \subseteq Before(b)
      /\ Before(b) \subseteq Committed
  BY DEF Newest, Taken, RowsBefore, Before, Committed, TypeOK
<1>2. IsFiniteSet(Committed) /\ IsFiniteSet(Before(b)) /\ IsFiniteSet(old) /\ IsFiniteSet(items)
  <2>1. IsFiniteSet(Committed)
    BY FS_Interval DEF Committed, TypeOK
  <2> QED
    BY <1>1, <2>1, FS_Subset
<1>3. Cardinality(old) = PageSize /\ Cardinality(items) = PageSize
  <2>1. Cardinality(old) <= Cardinality(Before(b))
    BY <1>1, <1>2, FS_Subset
  <2>2. Cardinality(Before(b)) \in Nat
    BY <1>2, FS_CardinalityType
  <2> QED
    BY <2>1, <2>2 DEF Taken, Newest
<1>4. \A S, T : S \subseteq T /\ IsFiniteSet(T) /\ Cardinality(S) = Cardinality(T) => S = T
  BY FS_Subset
<1>5. old \subseteq items \/ items \subseteq old => items = old
  BY <1>2, <1>3, <1>4
<1>6. \A k \in Committed : trades[k].ts \in Nat
  BY RowTypes DEF Times
<1>7. next \in Nat
  BY DEF Cursors, Times
<1>8. ASSUME NEW i \in items, trades[i].ts < next
      PROVE  FALSE
  <2>1. i \notin old
    BY <1>1, <1>6, <1>7, <1>8 DEF Taken
  <2>2. \A k \in old : k \in items
    BY <1>1, <1>6, <1>7, <1>8 DEF Newest, Taken
  <2> QED
    BY <1>5, <1>8, <2>1, <2>2
<1>9. ASSUME NEW k \in RowsBefore(trades, b, n) \ items, trades[k].ts > next, \A l \in items : ~(l > n)
      PROVE  FALSE
  <2>1. k \in old
    BY <1>1, <1>6, <1>7, <1>9 DEF Taken
  <2>2. ASSUME NEW i \in items
        PROVE  i \in old
    <3>1. i \in RowsBefore(trades, b, n)
      BY <1>1, <1>9 DEF RowsBefore, Before, Committed, TypeOK
    <3>2. trades[i].ts >= trades[k].ts
      BY <1>1, <1>9 DEF Newest
    <3>3. trades[i].ts > next
      BY <1>1, <1>6, <1>7, <1>9, <3>2
    <3> QED
      BY <1>1, <1>6, <1>7, <3>1, <3>3 DEF Taken
  <2> QED
    BY <1>5, <1>9, <2>1, <2>2
<1> QED
  BY <1>1, <1>6, <1>7, <1>8, <1>9 DEF Fits

\* A longer table has the same first rows, so what was taken from it stays what it was.
LEMMA Extended ==
  ASSUME NEW s, NEW t, NEW m \in Nat, \A k \in 1..m : t[k] = s[k],
         NEW items, NEW b, NEW next, NEW n \in 0..m
  PROVE  /\ Taken(s, items, b, next, n) => Taken(t, items, b, next, n)
         /\ (items \subseteq 1..m /\ Fits(s, items, b, next, n)) => Fits(t, items, b, next, n)
<1>1. RowsBefore(t, b, n) = RowsBefore(s, b, n)
  BY DEF RowsBefore
<1>2. RowsBefore(s, b, n) \subseteq 1..m
  BY DEF RowsBefore
<1> QED
  BY <1>1, <1>2 DEF Taken, Fits

\* The invariant holds initially.
LEMMA InitInv == Init => IInv
<1> SUFFICES ASSUME Init PROVE IInv
  OBVIOUS
<1>1. Len(trades) = 0 /\ Len(pages) = 1 /\ pages[1] = [before |-> 0, asOf |-> 0]
  BY DEF Init, FirstPage
<1>2. TypeOK
  <2>1. trades \in Seq(Row) /\ pages \in Seq(Block) /\ pages # <<>>
    BY DEF Init, FirstPage, Block
  <2>2. cache \in [Cursors -> Answer]
    BY DEF Init, NotAsked, Answer, Cursors
  <2>3. report \in Report
    BY DEF Init, NoReport, Report
  <2> QED
    BY <1>1, <2>1, <2>2, <2>3 DEF Init, TypeOK, Cursors
<1>3. CacheOK
  BY <1>1 DEF Init, CacheOK, NotAsked, Cursors
<1>4. PagesOK /\ ShownOK
  BY <1>1 DEF PagesOK, ShownOK, Inner, Blocks
<1>5. ReportOK
  BY DEF Init, NoReport, ReportOK, SummaryGrouped
<1> QED
  BY <1>2, <1>3, <1>4, <1>5 DEF IInv

\* A committed trade disturbs nothing that was taken before.
LEMMA IngestInv ==
  ASSUME IInv, NEW row \in Row, Ingest(row)
  PROVE  IInv'
<1> DEFINE m == Len(trades)
<1>1. /\ TypeOK /\ CacheOK /\ PagesOK /\ ShownOK /\ ReportOK
      /\ UNCHANGED <<pages, cache, wanted, report>>
  BY DEF IInv, Ingest
<1>2. /\ trades' \in Seq(Row) /\ Len(trades') = m + 1 /\ m + 1 <= MaxTrades /\ m \in Nat
      /\ \A k \in 1..m : trades'[k] = trades[k]
  <2>1. trades \in Seq(Row) /\ m < MaxTrades /\ trades' = Append(trades, row)
    BY DEF IInv, TypeOK, Ingest
  <2> QED
    BY <2>1
<1>9. \A items, b, next : \A n \in 0..m :
        /\ Taken(trades, items, b, next, n) => Taken(trades', items, b, next, n)
        /\ (items \subseteq 1..m /\ Fits(trades, items, b, next, n)) =>
             Fits(trades', items, b, next, n)
  BY <1>2, Extended
<1>3. TypeOK'
  BY <1>1, <1>2 DEF TypeOK
<1>4. CacheOK'
  <2> SUFFICES ASSUME NEW b \in Cursors
               PROVE  /\ ~cache[b].loaded => cache[b] = NotAsked
                      /\ cache[b].asOf <= m + 1
                      /\ cache[b].loaded =>
                           Taken(trades', cache[b].items, b, cache[b].next, cache[b].asOf)
    BY <1>1, <1>2 DEF CacheOK
  <2>1. cache[b].asOf \in 0..m
    BY <1>1, <1>2, CacheTypes DEF CacheOK
  <2> QED
    BY <1>1, <1>2, <1>9, <2>1 DEF CacheOK
<1>5. \A i \in Inner : pages[i + 1].asOf \in 0..m
  <2> SUFFICES ASSUME NEW i \in Inner PROVE pages[i + 1].asOf \in 0..m
    OBVIOUS
  <2> QED
    BY <1>1, <1>2, BlockTypes DEF PagesOK
<1>6. PagesOK'
  <2>1. \A i \in Inner : \E items \in SUBSET Ids :
          Taken(trades', items, pages[i].before, pages[i + 1].before, pages[i + 1].asOf)
    BY <1>1, <1>5, <1>9 DEF PagesOK
  <2>2. \A i \in Blocks : i > 1 => pages[i].before # 0 /\ pages[i].asOf <= m + 1
    BY <1>1, <1>2, BlockTypes DEF PagesOK
  <2> QED
    BY <1>1, <1>2, <2>1, <2>2 DEF PagesOK, Inner, Blocks
<1>7. ShownOK'
  <2> SUFFICES ASSUME NEW i \in Inner, cache[pages[i].before].loaded
               PROVE  Fits(trades', Shown(i), pages[i].before, pages[i + 1].before,
                           pages[i + 1].asOf)
    BY <1>1 DEF ShownOK, Inner, Shown
  <2>1. pages[i].before \in Cursors
    BY <1>1, BlockTypes
  <2>2. Shown(i) \subseteq 1..m
    <3>1. /\ cache[pages[i].before].asOf \in 0..m
          /\ Taken(trades, Shown(i), pages[i].before, cache[pages[i].before].next,
                   cache[pages[i].before].asOf)
      BY <1>1, <1>2, <2>1, CacheTypes DEF CacheOK, Shown
    <3> QED
      BY <3>1, <1>2 DEF Taken, RowsBefore
  <2> QED
    BY <1>1, <1>5, <1>9, <2>2 DEF ShownOK
<1>8. ReportOK'
  <2>1. ASSUME report.stage # "idle"
        PROVE  /\ report.counted \subseteq {k \in Committed : InDay(k, report.day)}
               /\ \A k \in report.counted : InDay(k, report.day)' /\ trades'[k] = trades[k]
                                            /\ k \in Committed'
    BY <1>1, <1>2, <2>1 DEF ReportOK, InDay, Committed
  <2> QED
    BY <1>1, <2>1 DEF ReportOK, SummaryGrouped, InDay
<1> QED
  BY <1>3, <1>4, <1>6, <1>7, <1>8 DEF IInv

\* A page that is fetched, for the first time or again, fits its neighbours.
LEMMA FetchInv ==
  ASSUME IInv, NEW i \in Blocks, FetchPage(i)
  PROVE  IInv'
<1> DEFINE b == pages[i].before
<1>1. /\ TypeOK /\ CacheOK /\ PagesOK /\ ShownOK /\ ReportOK
      /\ UNCHANGED <<trades, pages, wanted, report>>
  BY DEF IInv, FetchPage
<1>2. b \in Cursors
  BY <1>1, BlockTypes
<1>3. PICK answer \in ClosedPositions(b) : cache' = [cache EXCEPT ![b] = answer]
  BY DEF FetchPage
<1>4. /\ answer \in Answer /\ answer.loaded /\ answer.asOf = Len(trades)
      /\ Newest(answer.items, Before(b))
      /\ Taken(trades, answer.items, b, answer.next, answer.asOf)
  BY <1>1, <1>2, AnswerIs
<1>5. /\ cache \in [Cursors -> Answer] /\ cache'[b] = answer
      /\ \A c \in Cursors \ {b} : cache'[c] = cache[c]
  BY <1>1, <1>2, <1>3 DEF TypeOK, Cursors
<1>6. TypeOK'
  BY <1>1, <1>3, <1>4, <1>5 DEF TypeOK, Cursors
<1>7. CacheOK'
  <2>1. ASSUME NEW c \in Cursors
        PROVE  /\ ~cache'[c].loaded => cache'[c] = NotAsked
               /\ cache'[c].asOf <= Len(trades)
               /\ cache'[c].loaded =>
                    Taken(trades, cache'[c].items, c, cache'[c].next, cache'[c].asOf)
    <3>1. CASE c = b
      BY <1>4, <1>5, <3>1, <1>1, RowTypes
    <3>2. CASE c # b
      BY <1>1, <1>5, <3>2 DEF CacheOK
    <3> QED
      BY <3>1, <3>2
  <2> QED
    BY <1>1, <2>1 DEF CacheOK
<1>8. PagesOK' /\ ReportOK'
  BY <1>1 DEF PagesOK, Blocks, Inner, ReportOK, SummaryGrouped, Committed, InDay
<1>9. ShownOK'
  <2>1. ASSUME NEW j \in Inner, cache'[pages[j].before].loaded
        PROVE  Fits(trades, cache'[pages[j].before].items, pages[j].before,
                    pages[j + 1].before, pages[j + 1].asOf)
    <3>1. pages[j].before \in Cursors /\ pages[j + 1].before \in Cursors /\ pages[j + 1].before # 0
      BY <1>1, BlockTypes DEF PagesOK
    <3>2. pages[j + 1].asOf \in 0..Len(trades)
      BY <1>1, BlockTypes, RowTypes DEF PagesOK
    <3>3. CASE pages[j].before = b
      <4>1. PICK items \in SUBSET Ids :
              Taken(trades, items, b, pages[j + 1].before, pages[j + 1].asOf)
        BY <1>1, <3>3 DEF PagesOK
      <4> QED
        BY <1>1, <1>2, <1>4, <1>5, <3>1, <3>2, <3>3, <4>1, Refetched
    <3>4. CASE pages[j].before # b
      BY <1>1, <1>5, <2>1, <3>1, <3>4 DEF ShownOK, Shown
    <3> QED
      BY <3>3, <3>4
  <2> QED
    BY <1>1, <2>1 DEF ShownOK, Inner, Shown
<1> QED
  BY <1>6, <1>7, <1>8, <1>9 DEF IInv

\* A new block begins where the last one ends.
LEMMA LoadMoreInv ==
  ASSUME IInv, LoadMore
  PROVE  IInv'
<1> DEFINE n == Len(pages)
           b == pages[n].before
           last == cache[b]
           more == [before |-> last.next, asOf |-> last.asOf]
<1>1. /\ TypeOK /\ CacheOK /\ PagesOK /\ ShownOK /\ ReportOK
      /\ UNCHANGED <<trades, cache, wanted, report>>
  BY DEF IInv, LoadMore
<1>2. n \in Blocks /\ n \in Nat \ {0} /\ b \in Cursors
  BY <1>1, BlockTypes DEF Blocks
<1>3. last.next # 0 /\ pages' = Append(pages, more) /\ Shown(n) # {}
  BY DEF LoadMore, Matching
<1>4. last.loaded
  BY <1>1, <1>2, <1>3 DEF CacheOK, NotAsked, Shown
<1>5. /\ last.next \in Cursors /\ last.asOf \in 0..Len(trades) /\ last.items \subseteq Ids
      /\ last.asOf \in 0..MaxTrades
      /\ Taken(trades, last.items, b, last.next, last.asOf)
  BY <1>1, <1>2, <1>4, CacheTypes, RowTypes DEF CacheOK
<1>6. more \in Block
  BY <1>5 DEF Block, Cursors
<1>7. /\ pages' \in Seq(Block) /\ Len(pages') = n + 1 /\ pages'[n + 1] = more
      /\ \A i \in Blocks : pages'[i] = pages[i]
  <2>1. pages \in Seq(Block)
    BY <1>1 DEF TypeOK
  <2> QED
    BY <1>3, <1>6, <2>1 DEF Blocks
<1>8. TypeOK'
  <2>1. pages' # <<>>
    BY <1>2, <1>7
  <2> QED
    BY <1>1, <1>7, <2>1 DEF TypeOK
<1>9. CacheOK' /\ ReportOK'
  BY <1>1 DEF CacheOK, ReportOK, SummaryGrouped, Committed, InDay
<1>10. Blocks' = Blocks \union {n + 1} /\ Inner' = Blocks /\ Blocks = Inner \union {n}
  BY <1>2, <1>7 DEF Blocks, Inner
<1>11. PagesOK'
  <2>1. pages'[1] = [before |-> 0, asOf |-> 0]
    BY <1>1, <1>2, <1>7 DEF PagesOK, Blocks
  <2>2. \A i \in Blocks' : i > 1 => pages'[i].before # 0 /\ pages'[i].asOf <= Len(trades)
    <3>1. \A i \in Blocks : i > 1 => pages'[i].before # 0 /\ pages'[i].asOf <= Len(trades)
      BY <1>1, <1>7 DEF PagesOK
    <3>2. pages'[n + 1].before # 0 /\ pages'[n + 1].asOf <= Len(trades)
      BY <1>1, <1>3, <1>5, <1>7, RowTypes
    <3> HIDE DEF n
    <3> QED
      BY <1>10, <3>1, <3>2
  <2>3. ASSUME NEW i \in Blocks', NEW j \in Blocks', i < j
        PROVE  pages'[i].before = 0 \/ pages'[j].before < pages'[i].before
    <3>1. i \in Blocks
      BY <1>2, <1>10, <2>3 DEF Blocks
    <3>2. CASE j \in Blocks
      BY <1>1, <1>7, <2>3, <3>1, <3>2 DEF PagesOK
    <3>3. CASE j = n + 1
      <4>1. b = 0 \/ last.next < b
        BY <1>3, <1>5 DEF Taken
      <4>2. i = n \/ pages[i].before = 0 \/ b < pages[i].before
        BY <1>1, <1>2, <3>1 DEF PagesOK, Blocks
      <4>3. b = 0 => n = 1
        <5>1. n > 1 => b # 0
          BY <1>1, <1>2 DEF PagesOK
        <5> HIDE DEF n, b
        <5> QED
          BY <1>2, <5>1
      <4>4. pages'[j].before = last.next /\ pages'[i] = pages[i] /\ pages[i].before \in Cursors
        BY <1>1, <1>7, <3>1, <3>3, BlockTypes
      <4>5. last.next \in Nat /\ b \in Nat /\ pages[i].before \in Nat
        BY <1>2, <1>5, <4>4 DEF Cursors, Times
      <4>6. n = 1 => i = 1
        BY <3>1 DEF Blocks
      <4>7. pages[1].before = 0
        BY <1>1 DEF PagesOK
      <4>8. CASE b = 0
        BY <4>3, <4>4, <4>6, <4>7, <4>8
      <4>9. CASE b # 0 /\ i = n
        BY <4>1, <4>4, <4>9
      <4>10. CASE b # 0 /\ i # n
        BY <4>1, <4>2, <4>4, <4>5, <4>10
      <4> QED
        BY <4>8, <4>9, <4>10
    <3> QED
      BY <1>10, <3>2, <3>3
  <2>4. ASSUME NEW i \in Inner'
        PROVE  \E items \in SUBSET Ids :
                 Taken(trades, items, pages'[i].before, pages'[i + 1].before, pages'[i + 1].asOf)
    <3>1. CASE i \in Inner
      BY <1>1, <1>7, <3>1, BlockTypes DEF PagesOK
    <3>2. CASE i = n
      BY <1>2, <1>5, <1>7, <3>2
    <3> QED
      BY <1>10, <3>1, <3>2
  <2> QED
    BY <1>1, <2>1, <2>2, <2>3, <2>4 DEF PagesOK
<1>12. ShownOK'
  <2>1. ASSUME NEW i \in Inner', cache[pages'[i].before].loaded
        PROVE  Fits(trades, cache[pages'[i].before].items, pages'[i].before,
                    pages'[i + 1].before, pages'[i + 1].asOf)
    <3>1. CASE i \in Inner
      BY <1>1, <1>7, <2>1, <3>1, BlockTypes DEF ShownOK, Shown
    <3>2. CASE i = n
      <4>1. pages'[i] = pages[n] /\ pages'[i + 1] = more
        BY <1>2, <1>7, <3>2
      <4>2. Fits(trades, last.items, b, last.next, last.asOf)
        <5>1. \A k \in RowsBefore(trades, b, last.asOf) : trades[k].ts \in Nat
          BY <1>1, <1>5, RowTypes DEF RowsBefore, Committed, Times
        <5>2. last.next \in Nat
          BY <1>5 DEF Cursors, Times
        <5> HIDE DEF last, b
        <5> QED
          BY <1>3, <1>5, <5>1, <5>2 DEF Fits, Taken
      <4> QED
        BY <4>1, <4>2
    <3> QED
      BY <1>10, <3>1, <3>2
  <2> QED
    BY <1>1, <2>1 DEF ShownOK, Shown
<1> QED
  BY <1>8, <1>9, <1>11, <1>12 DEF IInv

\* The other steps.
LEMMA RestInv ==
  ASSUME IInv,
         \/ \E instruments \in SUBSET Instruments : SetFilter(instruments)
         \/ \E b \in {0} \union Times : Forget(b)
         \/ \E d \in 1..Days : Summarise(d)
         \/ GroupByInstrument
         \/ UNCHANGED vars
  PROVE  IInv'
<1>1. /\ TypeOK /\ CacheOK /\ PagesOK /\ ShownOK /\ ReportOK
  BY DEF IInv
<1>2. ASSUME NEW instruments \in SUBSET Instruments, SetFilter(instruments)
      PROVE  IInv'
  <2>1. /\ UNCHANGED <<trades, cache, report>> /\ wanted' \subseteq Instruments
        /\ pages' = <<[before |-> 0, asOf |-> 0]>>
    BY <1>2 DEF SetFilter, FirstPage
  <2>2. /\ pages' \in Seq(Block) /\ pages' # <<>> /\ Len(pages') = 1
        /\ pages'[1] = [before |-> 0, asOf |-> 0]
    BY <2>1 DEF Block
  <2>3. TypeOK'
    BY <1>1, <2>1, <2>2 DEF TypeOK
  <2>4. PagesOK' /\ ShownOK'
    BY <2>2 DEF PagesOK, ShownOK, Inner, Blocks
  <2>5. CacheOK' /\ ReportOK'
    BY <1>1, <2>1 DEF CacheOK, ReportOK, SummaryGrouped, Committed, InDay
  <2> QED
    BY <2>3, <2>4, <2>5 DEF IInv
<1>3. ASSUME NEW b \in Cursors, Forget(b)
      PROVE  IInv'
  <2>1. /\ UNCHANGED <<trades, pages, wanted, report>>
        /\ cache' = [cache EXCEPT ![b] = NotAsked] /\ \A i \in Blocks : pages[i].before # b
    BY <1>3 DEF Forget
  <2>2. cache \in [Cursors -> Answer] /\ NotAsked \in Answer
    BY <1>1 DEF TypeOK, Cursors, Answer, NotAsked
  <2>3. TypeOK'
    BY <1>1, <2>1, <2>2 DEF TypeOK, Cursors
  <2>4. CacheOK'
    <3>1. ASSUME NEW c \in Cursors
          PROVE  /\ ~cache'[c].loaded => cache'[c] = NotAsked
                 /\ cache'[c].asOf <= Len(trades)
                 /\ cache'[c].loaded =>
                      Taken(trades, cache'[c].items, c, cache'[c].next, cache'[c].asOf)
      <4>1. CASE c = b
        BY <1>1, <2>1, <2>2, <4>1, RowTypes DEF NotAsked
      <4>2. CASE c # b
        BY <1>1, <2>1, <2>2, <4>2 DEF CacheOK
      <4> QED
        BY <4>1, <4>2
    <3> QED
      BY <2>1, <3>1 DEF CacheOK
  <2>5. \A i \in Blocks : cache'[pages[i].before] = cache[pages[i].before]
    BY <1>1, <2>1, <2>2, BlockTypes
  <2>6. PagesOK' /\ ReportOK'
    BY <1>1, <2>1 DEF PagesOK, Blocks, Inner, ReportOK, SummaryGrouped, Committed, InDay
  <2>7. ShownOK'
    BY <1>1, <2>1, <2>5, BlockTypes DEF ShownOK, Shown, Inner
  <2> QED
    BY <2>3, <2>4, <2>6, <2>7 DEF IInv
<1>4. CASE \/ UNCHANGED vars
           \/ GroupByInstrument
           \/ \E d \in 1..Days : Summarise(d)
  <2>1. UNCHANGED <<trades, pages, cache, wanted>>
    BY <1>4 DEF vars, GroupByInstrument, Summarise
  <2>2. Committed' = Committed /\ Committed \subseteq Ids
    BY <1>1, <2>1, RowTypes DEF Committed
  <2>3. report' \in Report /\ ReportOK'
    <3>1. CASE UNCHANGED vars
      BY <1>1, <2>1, <3>1 DEF vars, TypeOK, ReportOK, SummaryGrouped, Committed, InDay
    <3>2. CASE GroupByInstrument
      <4> DEFINE groups == {k \in Committed : /\ InDay(k, report.day)
                                              /\ trades[k].instrument # "null"}
      <4>1. /\ report \in Report /\ report.stage = "summary"
            /\ report' = [report EXCEPT !.stage = "done", !.perInstrument = groups]
        BY <1>1, <3>2 DEF GroupByInstrument, TypeOK
      <4>2. /\ report'.stage = "done" /\ report'.counted = report.counted
            /\ report'.day = report.day /\ report'.perInstrument = groups
        BY <4>1 DEF Report
      <4>3. report' \in Report
        <5>1. groups \in SUBSET Ids
          BY <2>2
        <5> QED
          BY <4>1, <5>1 DEF Report
      <4>4. report.counted \subseteq {k \in Committed : InDay(k, report.day)}
        BY <1>1, <4>1 DEF ReportOK
      <4>5. ReportOK'
        BY <2>1, <4>2, <4>4 DEF ReportOK, SummaryGrouped, Committed, InDay
      <4> QED
        BY <4>3, <4>5
    <3>3. ASSUME NEW d \in 1..Days, Summarise(d)
          PROVE  report' \in Report /\ ReportOK'
      <4> DEFINE counted == {k \in Committed : InDay(k, d)}
      <4>1. report' = [stage |-> "summary", day |-> d, counted |-> counted, perInstrument |-> {}]
        BY <3>3 DEF Summarise
      <4>2. counted \in SUBSET Ids
        BY <2>2
      <4>3. report' \in Report
        <5> HIDE DEF counted
        <5> QED
          BY <4>1, <4>2 DEF Report
      <4>4. ReportOK'
        BY <2>1, <4>1 DEF ReportOK, SummaryGrouped, Committed, InDay
      <4> QED
        BY <4>3, <4>4
    <3> QED
      BY <1>4, <3>1, <3>2, <3>3
  <2>4. TypeOK'
    BY <1>1, <2>1, <2>3 DEF TypeOK
  <2>5. CacheOK' /\ PagesOK' /\ ShownOK'
    BY <1>1, <2>1 DEF CacheOK, PagesOK, ShownOK, Blocks, Inner, Shown
  <2> QED
    BY <2>3, <2>4, <2>5 DEF IInv
<1> QED
  BY <1>2, <1>3, <1>4 DEF Cursors

\* The invariant holds throughout.
LEMMA Inductive == Spec => []IInv
<1>1. IInv /\ [Next]_vars => IInv'
  BY IngestInv, FetchInv, LoadMoreInv, RestInv DEF Next
<1> QED
  BY InitInv, <1>1, PTL DEF Spec

\* The invariant orders the pages.
LEMMA InvDescends == IInv => PagesDescend
<1> SUFFICES ASSUME IInv, NEW i \in Blocks, NEW j \in Blocks, i < j,
                    NEW k \in Shown(i), NEW l \in Shown(j)
             PROVE  trades[l].ts < trades[k].ts
  BY DEF PagesDescend
<1>1. TypeOK /\ CacheOK /\ PagesOK /\ ShownOK
  BY DEF IInv
<1>2. i \in Inner /\ i + 1 \in Blocks /\ i + 1 <= j
  BY DEF Inner, Blocks
<1>3. ASSUME NEW h \in Blocks, NEW r \in Shown(h)
      PROVE  /\ cache[pages[h].before].loaded /\ r \in Committed
             /\ pages[h].before = 0 \/ trades[r].ts < pages[h].before
  <2>1. pages[h].before \in Cursors
    BY <1>1, <1>3, BlockTypes
  <2>2. cache[pages[h].before].loaded
    BY <1>1, <1>3, <2>1 DEF CacheOK, NotAsked, Shown
  <2>3. /\ cache[pages[h].before].asOf \in 0..Len(trades)
        /\ Shown(h) \subseteq RowsBefore(trades, pages[h].before, cache[pages[h].before].asOf)
    BY <1>1, <2>1, <2>2, CacheTypes, RowTypes DEF CacheOK, Taken, Shown
  <2> QED
    BY <1>1, <1>3, <2>2, <2>3, RowTypes DEF RowsBefore, Committed
<1>4. trades[k].ts >= pages[i + 1].before
  BY <1>1, <1>2, <1>3 DEF ShownOK, Fits
<1>5. trades[l].ts < pages[j].before
  <2>1. pages[j].before # 0
    BY <1>1 DEF PagesOK, Blocks
  <2> QED
    BY <1>3, <2>1
<1>6. pages[j].before <= pages[i + 1].before
  <2>1. pages[i + 1].before # 0
    BY <1>1, <1>2 DEF PagesOK, Blocks
  <2>2. pages[j].before \in Nat /\ pages[i + 1].before \in Nat
    BY <1>1, <1>2, BlockTypes DEF Cursors, Times
  <2>3. CASE i + 1 = j
    BY <2>2, <2>3
  <2>4. CASE i + 1 < j
    BY <1>1, <1>2, <2>1, <2>2, <2>4 DEF PagesOK
  <2> QED
    BY <1>2, <2>3, <2>4 DEF Blocks
<1>7. /\ trades[k].ts \in Nat /\ trades[l].ts \in Nat
      /\ pages[j].before \in Nat /\ pages[i + 1].before \in Nat
  BY <1>1, <1>2, <1>3, BlockTypes, RowTypes DEF Cursors, Times
<1> QED
  BY <1>4, <1>5, <1>6, <1>7

\* The invariant explains every hole.
LEMMA InvExplains == IInv => HolesExplained
<1> SUFFICES ASSUME IInv, NEW i \in Blocks, cache[pages[i].before].loaded,
                    NEW k \in Committed \ Shown(i)
             PROVE  \/ pages[i].before # 0 /\ trades[k].ts >= pages[i].before
                    \/ trades[k].ts <= EndOf(i).before
                    \/ k > EndOf(i).asOf
                    \/ \E l \in Shown(i) : l > EndOf(i).asOf
  BY DEF HolesExplained
<1>1. TypeOK /\ CacheOK /\ PagesOK /\ ShownOK
  BY DEF IInv
<1>2. /\ pages[i].before \in Cursors /\ pages[i].before \in Nat
      /\ trades[k].ts \in Nat /\ k \in Nat \ {0}
  BY <1>1, BlockTypes, RowTypes DEF Cursors, Times, Committed
<1>3. CASE i < Len(pages)
  <2>1. i \in Inner /\ EndOf(i) = pages[i + 1]
    BY <1>3 DEF Inner, Blocks, EndOf
  <2>2. Fits(trades, Shown(i), pages[i].before, pages[i + 1].before, pages[i + 1].asOf)
    BY <1>1, <2>1 DEF ShownOK
  <2>3. pages[i + 1].before \in Nat /\ pages[i + 1].asOf \in Nat
    BY <1>1, <2>1, BlockTypes DEF Cursors, Times
  <2> QED
    BY <1>2, <2>1, <2>2, <2>3 DEF Fits, RowsBefore
<1>4. CASE ~(i < Len(pages))
  <2> DEFINE last == cache[pages[i].before]
  <2>1. EndOf(i).before = last.next /\ EndOf(i).asOf = last.asOf
    BY <1>4 DEF EndOf
  <2>2. /\ Taken(trades, Shown(i), pages[i].before, last.next, last.asOf)
        /\ last.next \in Nat /\ last.asOf \in Nat
    <3>1. last.next \in Cursors /\ last.asOf \in Nat
      BY <1>1, <1>2, CacheTypes
    <3>2. Taken(trades, Shown(i), pages[i].before, last.next, last.asOf)
      BY <1>1, <1>2 DEF CacheOK, Shown
    <3> QED
      BY <3>1, <3>2 DEF Cursors, Times
  <2> HIDE DEF last
  <2> QED
    BY <1>2, <2>1, <2>2 DEF Taken, RowsBefore
<1> QED
  BY <1>3, <1>4

\* Every reachable state has its types.
THEOREM TypeCorrect == Spec => []TypeOK
<1>1. IInv => TypeOK
  BY DEF IInv
<1> QED
  BY <1>1, Inductive, PTL

\* Later pages are older, whenever each of them was fetched and whatever the ETL commits
\* in between (api/aurum.py, aurum_closed_positions).
THEOREM PagesAreOrdered == Spec => []PagesDescend
<1> QED
  BY InvDescends, Inductive, PTL

\* A trade missing from its page lies at the page's end, or arrived after the page was
\* first left, or was pushed out by one that did.
THEOREM HolesAreExplained == Spec => []HolesExplained
<1> QED
  BY InvExplains, Inductive, PTL

\* What the report's first statement counted is in the groups of its second one
\* (api/aurum.py, aurum_daily_report).
THEOREM ReportsAreGrouped == Spec => []SummaryGrouped
<1>1. IInv => SummaryGrouped
  BY DEF IInv, ReportOK
<1> QED
  BY <1>1, Inductive, PTL
=============================================================================
