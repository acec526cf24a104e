----------------------------- MODULE InboxPaging -----------------------------
(***************************************************************************)
(* The paged history screen of BankUI, InboxVC: it asks the server for one *)
(* page after another as the user scrolls to the last row, files the rows  *)
(* of an answer under their day, and starts again on pull-to-refresh.      *)
(*                                                                         *)
(* Everything runs on the main thread, but a request may be in flight      *)
(* while the user scrolls to the same last row again or refreshes, and     *)
(* requests are answered in any order or fail.  Nothing in the screen      *)
(* remembers which requests are out.                                       *)
(*                                                                         *)
(* A transaction is the place it has on the server: <<page, position>>.    *)
(***************************************************************************)
EXTENDS Integers, SequencesExt

CONSTANTS
    Pages,      \* the server's pages: Pages[n + 1] lists the days of page n
    MaxFetches  \* bound on the requests sent

ASSUME PagesAssumption == Pages \in Seq(Seq(Nat) \ {<<>>}) \ {<<>>}
ASSUME MaxFetchesAssumption == MaxFetches \in Nat

VARIABLES
    pageCount,          \* the page fetchHistory asks for next
    totalPagesCount,    \* how many pages the last answer announced
    transactionsHistory,\* the rows of every day
    orderedDates,       \* the days, newest first: the sections of the table
    flights,            \* requests not answered yet
    fetches,            \* how many were sent
    received,           \* pages filed since the last refresh (history variable)
    overlapped          \* a request was sent while another was out, since the
                        \* last refresh or by it (history variable)

pagesVars == <<pageCount, totalPagesCount, transactionsHistory, orderedDates>>
pagingVars == <<pagesVars, flights, fetches, received, overlapped>>

Page == 0..Len(Pages) - 1
Day == UNION {Range(Pages[i]) : i \in DOMAIN Pages}
Transaction == UNION {{page} \X DOMAIN Pages[page + 1] : page \in Page}
DayOf(t) == Pages[t[1] + 1][t[2]]

Flight == [id : 1..MaxFetches, page : Page]

PagingTypeOK ==
    /\ pageCount \in 0..MaxFetches
    /\ totalPagesCount \in {1, Len(Pages)}
    /\ DOMAIN transactionsHistory \subseteq Day
    /\ \A d \in DOMAIN transactionsHistory :
          transactionsHistory[d] \in Seq(Transaction)
    /\ orderedDates \in Seq(Day)
    /\ flights \subseteq Flight
    /\ fetches \in 0..MaxFetches
    /\ received \subseteq Page
    /\ overlapped \in BOOLEAN

NoHistory == [d \in {} |-> <<>>]

PagingInit ==
    /\ pageCount = 0
    /\ totalPagesCount = 1
    /\ transactionsHistory = NoHistory
    /\ orderedDates = <<>>
    /\ flights = {}
    /\ fetches = 0
    /\ received = {}
    /\ overlapped = FALSE

-----------------------------------------------------------------------------
\* fetchHistory with a next page to ask for.
FetchHistory(next, total) ==
    /\ next < total
    /\ fetches < MaxFetches
    /\ fetches' = fetches + 1
    /\ flights' = flights \cup {[id |-> fetches + 1, page |-> next]}

PagesViewDidLoad ==
    /\ fetches = 0
    /\ FetchHistory(pageCount, totalPagesCount)
    /\ UNCHANGED <<pagesVars, received, overlapped>>

\* Mutant: pageCount is not reset.
HandleRefreshKeepsCount ==
    /\ fetches > 0
    /\ transactionsHistory' = NoHistory
    /\ orderedDates' = <<>>
    /\ totalPagesCount' = 1
    /\ received' = {}
    /\ FetchHistory(0, 1)
    /\ overlapped' = (flights # {})
    /\ UNCHANGED pageCount

\* Mutant: the sections are not reset.
HandleRefreshKeepsDates ==
    /\ fetches > 0
    /\ transactionsHistory' = NoHistory
    /\ pageCount' = 0
    /\ totalPagesCount' = 1
    /\ received' = {}
    /\ FetchHistory(0, 1)
    /\ overlapped' = (flights # {})
    /\ UNCHANGED orderedDates

\* Pull to refresh.  Requests that are out stay out.
PagesHandleRefresh ==
    /\ fetches > 0
    /\ transactionsHistory' = NoHistory
    /\ orderedDates' = <<>>
    /\ pageCount' = 0
    /\ totalPagesCount' = 1
    /\ received' = {}
    /\ FetchHistory(0, 1)
    /\ overlapped' = (flights # {})

\* The last row of the last section is about to be displayed.
WillDisplayLastRow ==
    /\ orderedDates # <<>>
    /\ FetchHistory(pageCount, totalPagesCount)
    /\ overlapped' = (overlapped \/ flights # {})
    /\ UNCHANGED <<pagesVars, received>>

-----------------------------------------------------------------------------
DaysOf(page) == Range(Pages[page + 1])

\* The second loop, as far as day d is concerned: its rows are appended.
RowsOfDay(page, d) ==
    LET appended[i \in 0..Len(Pages[page + 1])] ==
            IF i = 0 THEN <<>>
            ELSE IF DayOf(<<page, i>>) = d THEN Append(appended[i - 1], <<page, i>>)
            ELSE appended[i - 1]
    IN appended[Len(Pages[page + 1])]

\* keys.sorted(by: >): each day once, the newest first.
Sorted(days) ==
    {s \in [1..Cardinality(days) -> days] :
        /\ Range(s) = days
        /\ \A i, j \in DOMAIN s : i < j => s[i] > s[j]}

\* Mutant: the days of the page are not emptied before they are filled.
OrderWithoutEmptying(page) ==
    /\ transactionsHistory' =
          [d \in DOMAIN transactionsHistory \cup DaysOf(page) |->
              (IF d \in DOMAIN transactionsHistory
               THEN transactionsHistory[d] ELSE <<>>)
              \o RowsOfDay(page, d)]
    /\ orderedDates' \in Sorted(DOMAIN transactionsHistory')

\* orderTransactionByDate: the days of the page start empty, and are filled.
OrderTransactionByDate(page) ==
    /\ transactionsHistory' =
          [d \in DOMAIN transactionsHistory \cup DaysOf(page) |->
              IF d \in DaysOf(page)
              THEN RowsOfDay(page, d)
              ELSE transactionsHistory[d]]
    /\ orderedDates' \in Sorted(DOMAIN transactionsHistory')

\* The completion of getHistoryData with a page.
Answer(f) ==
    /\ f \in flights
    /\ flights' = flights \ {f}
    /\ totalPagesCount' = Len(Pages)
    /\ OrderTransactionByDate(f.page)
    /\ pageCount' = pageCount + 1
    /\ received' = received \cup {f.page}
    /\ UNCHANGED <<fetches, overlapped>>

\* The completion with nil, once or twice: nothing changes.
AnswerFails(f) ==
    /\ f \in flights
    /\ flights' = flights \ {f}
    /\ UNCHANGED <<pagesVars, fetches, received, overlapped>>

PagingNext ==
    \/ PagesViewDidLoad
    \/ PagesHandleRefresh
    \/ WillDisplayLastRow
    \/ \E f \in flights : Answer(f) \/ AnswerFails(f)

PagingSpec == PagingInit /\ [][PagingNext]_pagingVars

-----------------------------------------------------------------------------
(***************************************************************************)
(* Pages are filed in order, none skipped or asked for again, as long as   *)
(* no two requests are out at once; willDisplay and pull-to-refresh are    *)
(* all that can bring that about.                                          *)
(***************************************************************************)
PagesInOrderUnlessOverlapped ==
    ~overlapped =>
        /\ received = 0..pageCount - 1
        /\ \A f, g \in flights : f = g /\ f.page = pageCount

\* Where a transaction is shown: its section and its row there.
ShownAt(t) ==
    {place \in UNION {{d} \X DOMAIN transactionsHistory[d] :
                        d \in DOMAIN transactionsHistory} :
        transactionsHistory[place[1]][place[2]] = t}

SpansPages(d) ==
    \E p, q \in received : p # q /\ d \in DaysOf(p) /\ d \in DaysOf(q)

(***************************************************************************)
(* However often a page is filed, and whatever was filed before and after  *)
(* it, none of its transactions is shown twice or under another day; and   *)
(* none is missing unless its day is on another page that was filed too.   *)
(***************************************************************************)
EachRowOnceUnlessDaySpansPages ==
    \A t \in Transaction :
        /\ \A a, b \in ShownAt(t) : a = b /\ a[1] = DayOf(t)
        /\ ShownAt(t) # {} => t[1] \in received
        /\ t[1] \in received /\ ~SpansPages(DayOf(t)) => ShownAt(t) # {}

(***************************************************************************)
(* The data source is consistent in every state the table may ask in: its  *)
(* sections are the days of the pages filed, newest first, each once.  No  *)
(* page past the last is ever asked for (PagingTypeOK).                   *)
(***************************************************************************)
SectionsMatchHistory ==
    /\ PagingTypeOK
    /\ Range(orderedDates) = DOMAIN transactionsHistory
    /\ Range(orderedDates) = UNION {DaysOf(page) : page \in received}
    /\ \A i, j \in DOMAIN orderedDates :
          i < j => orderedDates[i] > orderedDates[j]
=============================================================================
