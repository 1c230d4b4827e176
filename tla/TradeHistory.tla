----------------------------- MODULE TradeHistory -----------------------------
(***************************************************************************)
(* Reading closed trades out of paper_events while the ETL goes on         *)
(* committing them: the cursor pages of /aurum/positions/closed as the     *)
(* trades page of the dashboard collects them, and the daily report, whose *)
(* two statements are two READ COMMITTED snapshots.                        *)
(*                                                                         *)
(* A trade is the number of its commit.  The table only grows, and a file  *)
(* ingested late brings trades of any ts.  A result is the set of trades   *)
(* that the query returned: ts gives it its order, and PostgreSQL is free  *)
(* to choose among equal ts.  Sorting by other columns, the side and date  *)
(* filters and the layout are left out.                                    *)
(***************************************************************************)
EXTENDS Naturals, FiniteSets, Sequences

CONSTANTS
  Instruments,
  PageSize,    \* limit of a page
  DayLength,   \* ticks of ts in a UTC day
  Days,        \* bound: ts runs over this many days
  MaxTrades    \* bound: trades ever committed

ASSUME PageAssumption  == PageSize \in Nat \ {0}
ASSUME TimeAssumption  == DayLength \in Nat \ {0} /\ Days \in Nat \ {0}
ASSUME TradeAssumption == MaxTrades \in Nat
ASSUME InstrumentAssumption == "null" \notin Instruments

Times == 1..(Days * DayLength)
Ids   == 1..MaxTrades

VARIABLES
  trades,     \* rows of type position_closed, in the order of their commits
  pages,      \* the blocks of the trades page: cursor, and how many rows it was taken from
  cache,      \* query cache of the browser: the last answer for each cursor, 0 for none
  wanted,     \* the instruments filter, empty for all
  report      \* one request for the daily report

vars == <<trades, pages, cache, wanted, report>>

Row    == [ts: Times, instrument: Instruments \union {"null"}]
Answer == [loaded: BOOLEAN, items: SUBSET Ids, next: {0} \union Times, asOf: 0..MaxTrades]
Block  == [before: {0} \union Times, asOf: 0..MaxTrades]
Report == [stage: {"idle", "summary", "done"}, day: 0..Days,
           counted: SUBSET Ids, perInstrument: SUBSET Ids]

Committed == 1..Len(trades)
NotAsked  == [loaded |-> FALSE, items |-> {}, next |-> 0, asOf |-> 0]
FirstPage == <<[before |-> 0, asOf |-> 0]>>
NoReport  == [stage |-> "idle", day |-> 0, counted |-> {}, perInstrument |-> {}]

Init ==
  /\ trades = <<>> /\ pages = FirstPage
  /\ cache = [b \in {0} \union Times |-> NotAsked]
  /\ wanted = {}
  /\ report = NoReport

\* The ETL commits a file, here one trade of it.
Ingest(row) ==
  /\ Len(trades) < MaxTrades
  /\ trades' = Append(trades, row)
  /\ UNCHANGED <<pages, cache, wanted, report>>
-----------------------------------------------------------------------------
(* aurum_closed_positions.                                                 *)

\* Mutants of Before: rows of the cursor's own ts come again; the tick before it is left
\* out as well.
BeforeOrAt(b) == {k \in Committed : b = 0 \/ trades[k].ts <= b}

BeforeLess(b) == {k \in Committed : b = 0 \/ trades[k].ts + 1 < b}

\* WHERE ts < :before
Before(b) == {k \in Committed : b = 0 \/ trades[k].ts < b}

\* ORDER BY ts DESC LIMIT :limit
Newest(items, rows) ==
  /\ items \subseteq rows
  /\ Cardinality(items) = IF Cardinality(rows) < PageSize THEN Cardinality(rows) ELSE PageSize
  /\ \A i \in items, k \in rows \ items : trades[k].ts <= trades[i].ts

Latest(rows) == CHOOSE ts \in {trades[k].ts : k \in rows} : \A k \in rows : trades[k].ts <= ts

\* The ts of the row fetched beyond the limit.
NextBefore(items, rest) == IF rest = {} THEN 0 ELSE Latest(rest)

ClosedPositions(b) ==
  { [loaded |-> TRUE, items |-> items,
     next |-> NextBefore(items, Before(b) \ items), asOf |-> Len(trades)] :
      items \in {rows \in SUBSET Before(b) : Newest(rows, Before(b))} }
-----------------------------------------------------------------------------
(* TradesPageInner and TradesPageBlock.                                    *)

Blocks   == 1..Len(pages)
Shown(i) == cache[pages[i].before].items
Matching(i) == {k \in Shown(i) : wanted = {} \/ trades[k].instrument \in wanted}

\* A block asks for its page when it appears and every minute from then on.
FetchPage(i) ==
  /\ \E answer \in ClosedPositions(pages[i].before) :
       cache' = [cache EXCEPT ![pages[i].before] = answer]
  /\ UNCHANGED <<trades, pages, wanted, report>>

\* Load more: the button is there while a block has something to show and a cursor.
LoadMore ==
  LET last == cache[pages[Len(pages)].before] IN
    /\ Matching(Len(pages)) # {} /\ last.next # 0
    /\ pages' = Append(pages, [before |-> last.next, asOf |-> last.asOf])
    /\ UNCHANGED <<trades, cache, wanted, report>>

\* updateFilters: the blocks start again at the first page.
SetFilter(instruments) ==
  /\ wanted' = instruments /\ instruments # wanted
  /\ pages' = FirstPage
  /\ UNCHANGED <<trades, cache, report>>

\* An answer that no block shows is dropped from the cache after a while.
Forget(b) ==
  /\ cache[b].loaded /\ \A i \in Blocks : pages[i].before # b
  /\ cache' = [cache EXCEPT ![b] = NotAsked]
  /\ UNCHANGED <<trades, pages, wanted, report>>
-----------------------------------------------------------------------------
(* aurum_daily_report.                                                     *)

\* ts >= day_start AND ts < day_end
InDay(k, d) == trades[k].ts > (d - 1) * DayLength /\ trades[k].ts <= d * DayLength

\* summary_sql
Summarise(d) ==
  /\ report.stage # "summary"
  /\ report' = [stage |-> "summary", day |-> d,
                counted |-> {k \in Committed : InDay(k, d)}, perInstrument |-> {}]
  /\ UNCHANGED <<trades, pages, cache, wanted>>

\* Mutant of GroupByInstrument: the last tick of the day is left out.
GroupShortDay ==
  /\ report.stage = "summary"
  /\ report' = [report EXCEPT !.stage = "done",
                  !.perInstrument = {k \in Committed : /\ InDay(k, report.day)
                                                       /\ trades[k].ts # report.day * DayLength
                                                       /\ trades[k].instrument # "null"}]
  /\ UNCHANGED <<trades, pages, cache, wanted>>

\* per_inst_sql: a statement of its own, and rows without an instrument are left out.
GroupByInstrument ==
  /\ report.stage = "summary"
  /\ report' = [report EXCEPT !.stage = "done",
                  !.perInstrument = {k \in Committed : /\ InDay(k, report.day)
                                                       /\ trades[k].instrument # "null"}]
  /\ UNCHANGED <<trades, pages, cache, wanted>>

Next ==
  \/ \E row \in Row : Ingest(row)
  \/ \E i \in Blocks : FetchPage(i)
  \/ LoadMore
  \/ \E instruments \in SUBSET Instruments : SetFilter(instruments)
  \/ \E b \in {0} \union Times : Forget(b)
  \/ \E d \in 1..Days : Summarise(d)
  \/ GroupByInstrument

Spec == Init /\ [][Next]_vars
-----------------------------------------------------------------------------
TypeOK ==
  /\ trades \in Seq(Row) /\ Len(trades) <= MaxTrades
  /\ pages \in Seq(Block) /\ pages # <<>>
  /\ cache \in [{0} \union Times -> Answer]
  /\ wanted \subseteq Instruments
  /\ report \in Report

\* test_aurum_api.py:310 "No overlap between pages": every trade of a page is newer than
\* every trade of a later page, although each page is fetched again on its own while
\* trades of any age arrive.
PagesDescend ==
  \A i, j \in Blocks : i < j =>
    \A k \in Shown(i), l \in Shown(j) : trades[l].ts < trades[k].ts

\* Where block i ends: at the cursor of the next block, or at its own last answer.
EndOf(i) ==
  IF i < Len(pages) THEN pages[i + 1]
  ELSE [before |-> cache[pages[i].before].next, asOf |-> cache[pages[i].before].asOf]

\* A trade that belongs to a loaded block and is missing from it has the ts of the
\* block's end or less, or is newer than that end, or was pushed out by one that is:
\* no other trade is lost, at whatever times the pages are fetched.
HolesExplained ==
  \A i \in Blocks : cache[pages[i].before].loaded =>
    \A k \in Committed \ Shown(i) :
      \/ pages[i].before # 0 /\ trades[k].ts >= pages[i].before
      \/ trades[k].ts <= EndOf(i).before
      \/ k > EndOf(i).asOf
      \/ \E l \in Shown(i) : l > EndOf(i).asOf

\* The two statements of a report see different snapshots: what the first counted is
\* in the second one's groups, unless it has no instrument.
SummaryGrouped ==
  report.stage = "done" =>
    \A k \in report.counted : k \in report.perInstrument \/ trades[k].instrument = "null"

\* trades/page.tsx:135 "Full history from the runner's journal": once every page is
\* loaded and up to date, every trade is shown.
FullHistory ==
  (/\ \A i \in Blocks : /\ cache[pages[i].before].loaded
                        /\ cache[pages[i].before].asOf = Len(trades)
   /\ cache[pages[Len(pages)].before].next = 0
   /\ \A i \in Blocks : pages[i].asOf \in {0, Len(trades)})
    => \A k \in Committed : \E i \in Blocks : k \in Shown(i)
=============================================================================
