# A TLA+ model of RF_Projects

RF_Projects is a collection of iOS programs in Swift: **BankUI**, a banking app
written by a team; **UnsplashApp**, a photo search; and exercises
(`Concurrency_Projects`, `FormattingAmount`, `Keychain`, `Maze`, `Snake`,
`Pizzeria3000`, `SoNiceNumPad`, `InboxScreenUI`, `Networking.playground`).
This directory holds TLA+ modules for those of its parts whose behaviour is
hard to test, TLC configurations that check them on small instances, and proofs
that TLAPS checks for every value of the constants.  `PROJECT.json` relates each
definition to the lines it models.

Most of the logic is in callbacks.  A screen asks a presenter, the presenter an
interactor, the interactor the network or a Realm database; the answer comes
back through two or three closures on another thread or in a later block of the
main queue.  No lock and no request identifier guards what happens in between.
The project is about those gaps.

Paths below are relative to `src/`; *Bank* is
`BankUI/BankUI/Modules/BankModule`, *ATM* is
`BankUI/BankUI/Modules/ATMAddressModule`, *Net* is
`BankUI/BankUI/Services/Network`.

## 1. Inventory

| Part | State it keeps | Operations | Talks to | What is hard | What makes it correct |
|---|---|---|---|---|---|
| Asynchronous operations (*Net*`/AsyncNetworkSerivce/AsyncOperation.swift`, copied in UnsplashApp) | `state`, observed by KVO; `isCancelled` | `start`, `main`, `cancel`, the `state` observers | `OperationQueue` | `state` has no lock and three writers; `start()` stores after `main()` | a finish is seen, dependencies are respected, an early cancel wins |
| Download of transactions (*Net*`/AsyncNetworkSerivce/LoadTransactionsAndWriteInRealm`) | output of the load operation, rows in Realm | create, cancel, request, answer, write a row, complete | the operations, `NetworkDataFetcher`, Realm | network callbacks run twice on errors; rows are committed one by one; a missing `return` | the completion agrees with Realm, and comes |
| Network (*Net*`/NetworkServices.swift`, `NetworkDataFetcher.swift`) | none | one request per kind of data | URLSession; completions come on the main queue | answers late, in any order, twice or failed | the callers below cope |
| History with logos (*Bank*`/InboxWithLogo`) | `transactionsHistory`, table, spinner | `viewDidLoad`, pull-to-refresh, completion blocks | the download, Realm | refresh during a download; no primary key | nothing stored twice, table settles on Realm, spinner stops |
| Paged history (*Bank*`/Inbox`) | `pageCount`, `totalPagesCount`, rows by day | `fetchHistory`, refresh, last row displayed | network | overlapping requests, days that span pages, pages filed again | pages in order, sections match, no row twice or under another day |
| ATM list (*ATM*`/ATMList`, `ATMFilters`) | two Realm databases, list, filters | load, answers, show, filter, select a row | network, Realm, `SubwayList` | overlapping loads, a presenter replaced under its download, a kill while rows are written | stored once, table settles, index in range |
| Subway list (*ATM*`/SubwayList`) | stations by letter, ordered letters | load on a global queue, layout on the main thread | Realm | unsynchronised rebuild against a table | grouped and sorted, no crash when idle, spinner stops |
| Clustering on the map (*ATM*`/AtmsMap/AtmsMapPresenter.swift`, `OrderedDictionary.swift`) | ordered dictionary of places | two passes that remove and insert while iterating | map screen | index arithmetic, colliding keys | in range, no ATM lost |
| Registration, login, session (*Bank*`/Registration`, `LogIn`, `UserData`, `MoreVC`; `SceneDelegate`) | form, PIN in the Keychain, user in UserDefaults, numpad, logins under way | edit, register, type, biometry, answer, exit, kill, restart | network, Keychain | several writes, ignored errors, delayed answers | a registered user has a PIN; main screen only after authorization |
| Map screen (*ATM*`/AtmsMap/View/AtmsMapVC.swift`) | zoom level, markers | open, zoom, reload, draw | clustering | two groupings under way at once; a reload that does not clear | the markers are those of the present grouping |
| Bottom card, drop-down list (*ATM*) | card position | tap, drag | map screen | - | (not modelled) |
| Image pipeline of BankUI (*Net*`/.../LoadImageAndCache`) | cache, operations | load, cache, deliver | operations | - | (not modelled) |
| Photo search (`UnsplashApp/.../UnsplashVC`) | photos, page count, pending work item | type, fire, answer, display, layout | network | late answers, stale index paths | no page twice, only late photos are foreign, index in range |
| Images of the photo search (UnsplashApp `UnsplashPresenter`, `ImageLoadProvider`, `AsyncOperations`) | cache, two sets of providers, the cells' images | display, end of display, load, cancel, deliver | operations, main queue | cells are reused, cancellation comes late, providers are found by URL | a cell shows its own photo; what it waits for is not cancelled |
| Thread-safe dictionary (`Concurrency_Projects/ThreadSafeDictionary.playground`) | `items`, dispatch queue | get, set, count, keys, values, remove | any thread | sync reads and asynchronous barriers | no race, calls are atomic |
| StreetBall calendar (`BankUI/.../BasketBallCD`, `StreetBallModule/CalendarVC`, `Data Providers`) | Core Data objects, day on the label, table | open, next/previous game day, restart | clock, bundled schedule | walking over days without games; a status read once per process; a save that saves nothing | no game day is missed, statuses are as old as the process at most |
| StreetBall teams, players, standings (`StreetBallModule`) | objects of the same store | show, sort | - | - | (not modelled) |
| Debounced suggestions (`Concurrency_Projects/AwesomeDebouncer`) | work item, result | type, fire, answer | network | answers out of order | (not modelled) |
| Amount formatter (`FormattingAmount`) | none | format | tests | boundaries of rounding and grouping | (planned) |
| Snake, Maze | board | step, turn, generate | console | - | (planned, last) |
| Pizzeria3000, SoNiceNumPad, InboxScreenUI, Keychain app, Networking.playground, transitions, extensions | - | layout, single calls | - | - | nothing of their own to check |
| Pods | - | third-party | - | - | used only |

`PROJECT.json` lists under `hazards` each place where this code can go wrong in
a way a unit test hardly reaches, with the properties that would notice.

## 2. Modules

```
 AsyncOperation <--implements-- TransactionPipeline --implements--> TransactionLoad
                                                                        ^ EXTENDS
 InboxPaging                                                        InboxLogo

 AtomicDictionary <--implements-- DictionaryRefinement --EXTENDS--> ThreadSafeDictionary
 SubwayList

 PhotoSearch   PhotoImages   AtmLoading   AtmClusters   Session   StreetBallCalendar
```

| Proofs | about |
|---|---|
| `AsyncOperationProofs` | AsyncOperation |
| `TransactionPipelineProofs` | TransactionPipeline, and what it implements |
| `InboxProofs` | InboxLogo; InboxPaging |
| `DictionaryProofs` | ThreadSafeDictionary, and what it implements; SubwayList |
| `AtmProofs` | AtmLoading; AtmClusters |
| `UnsplashProofs` | PhotoSearch; PhotoImages |
| `SessionProofs` | Session |
| `StreetBallCalendarProofs` | StreetBallCalendar |

A proof module about two models extends both.  They share neither a variable nor a
constant; one of the two has a prefix in names such as `PagingInit`, `ClustersNext`,
`SubwaysSpec` and `ImagesTypeOK`, so that the other can have the plain ones.

`MC*` modules extend a module and define the constants that a `.cfg` cannot.
Operators marked *Mutant* in a comment are wrong versions of the operator that
follows them: each property is violated when its mutant replaces that operator,
so that no property holds by the shape of the model alone.

**AsyncOperation.** An operation is the observed `state`, the thread of its queue
(`thread`: queued, dispatched, main, left), `cancelled`, `cancelling`, and `notices`,
the posts of `didSet` still to be made.  An assignment of `state` is two steps, the
store (`SetState`) and the post (`DidSet`), because other threads store in between.
The queue (external) clears an operation when, handling a post, it finds `isFinished`.
`start()` is `StartMain` or `StartCancelled`, then `ReturnFromMain`, the store of
`.executing` of line 64.  `cancel()` is two steps as well: `Cancel` is
`super.cancel()`, from which on `super.isReady` is true whatever the operation depends
on, and `FinishCancel` stores `.finished`; in between the queue may start the
operation.

**TransactionPipeline** has a load and a write operation per provider, one
dependent on the other.  Each statement of `main()` that another thread can
observe is an action: the request, the callback (twice after a network error),
the missing `return` at `WriteTransactionsInRealm.swift:22`, opening Realm, one
`realm.write` per row, the completion.  Rows are counted, not represented.

**TransactionLoad** is what the pipeline promises its client: rows committed one
by one, and at most one first report, a success or a failure.

**InboxLogo** extends it with the screen: the history, the table, the spinner and the
FIFO `mainQueue` of blocks.  `GetTransactions` has the three ways through
`InboxLogoPresenter.getTransactions`; a download is any behaviour of `TransactionLoad`
without cancellation, since `InboxLogoInteractor` drops the provider at once.
`FinishLost` is what `AsyncOperation.swift:64` may do to it: the finish of the load is
overwritten, and the download ends without a report.  Realm objects of the main thread
are refreshed before each block (its automatic refresh).

**InboxPaging** has the server's pages as a constant, transactions being places
on it, and a set of requests in flight that may be answered in any order.

**AtmLoading** keeps the two databases as counts of copies of each ATM and
station.  A load makes a new presenter; answers, the block that reads Realm
after a download, and the block that shows the list are separate actions.
`DidSelectRow` leaves a block that will index the list of the presenter of that moment
(`former` keeps the lists of those replaced), `ShowDetailInfo` is that block.
`Restart` kills the process, also while the rows of an answer are written one by one,
and starts it anew; Realm and the filters persist.

**SubwayList** is the finest-grained module.  A load is a program of eight kinds
of step that assign `sortedByDistanceSubways` and `orderedLetters` one at a time;
the main thread asks for the sections, the rows of each section and the cells in
steps of their own.  Each single access is atomic; an access of two threads at
once, one of them writing, may crash the app or not (`crashed` is then chosen).

**AtmClusters** runs both passes of the clustering on a plane of integers, each
iteration being a step.  `keys` and `values` are the two halves of
`OrderedDictionary`, kept apart because the code can make them disagree.  Around
it is the map: `ChangeZoom` clears the markers and groups again for another
distance, before the main thread does anything else; `ReloadMap`, when the filters'
screen closes, takes other ATMs from Realm and groups them for 200 metres, whatever
the zoom is, without clearing.  Each grouping leaves a block (`pending`), and
`SetAtmsOnMap` is that block, which draws whatever the dictionary holds when it runs.
A map that opens is loaded twice, by its own `viewDidLoad` and by its container.

**Session** has the form, the two stores, the login screen and the requests.
`RegisterButtonTaped` starts a sequence of writes (delete the old PIN, add the new
one, save the user); `Restart` may come between any two.  The Keychain may refuse
either of the first two: a PIN that was not deleted stays, and keeps the new one out.

**PhotoSearch** has the pending work item, the requests made (a sequence), those
in flight, the photos shown and the index paths the layout still remembers.

**PhotoImages** goes on where PhotoSearch stops.  A display asks for the thumb and the
regular image of a photo: `LookForThumb` and `LookForRegular` read the cache, and
`WillDisplayCell` does what comes of it.  What was found becomes a block of the main
queue, for the rest a provider is created, which is one element of `loads` with a
phase.  Completions fall between these steps: a provider may be created for an image
that has just been cached.  `DidEndDisplayingCell` cancels the providers of the photo
at the cell's index, `Deliver` is the completion on the output operation's thread,
`RunBlock` puts the image into the cell the block captured.  Displays are numbered, so
that an image can be told from the same photo's image asked for by an earlier display.

**StreetBallCalendar** counts time in three moments a day (midnight, start and end
of the day's game).  `CalendarInfo`, `NextDateGames` and `PreviousDateGames` are the
searches of `CalendarInteractor`, the last with its loop as a recursive function;
`OpenScreen` fills the Core Data context, which `SaveContext` does not save;
`Restart` loses it.  The schedule is any set of days, chosen in `Init`.

**ThreadSafeDictionary** is the dispatch queue: blocks wait in FIFO order, readers
run together, a barrier alone.  `Sync` and `Async` are the two ways to submit.
**AtomicDictionary** does each call in one step; **DictionaryRefinement** has the
mapping: the abstract dictionary is `items` after every assignment pending, the last
one to a key being the one that stays.

## 3. What the runs check

| Run | Instance | Distinct states | Question |
|---|---|---|---|
| `TransactionPipeline` | 1 download of up to 3 rows, cancellable | 10121 | completion against Realm; finishes are seen; `TransactionLoad` implemented; completion comes |
| `InboxLogo` | 2 downloads of 2 rows, 3 loads, a finish lost | 7640 | double storing, what the table settles on, the spinner |
| `ThreadSafeDictionary` | 2 clients, 2 keys, 2 pending blocks | 22404 | races, linearizability |
| `InboxPaging` | 3 pages, one day on two of them, 8 requests | 75009 | page order, each row once, sections |
| `PhotoSearch` | 2 searches, 3 pages of 2 photos, 2 cells | 332138 | page order, foreign photos, index range, spinner |
| `AtmLoading` | 3 ATMs of 2 types, 2 stations, 3 loads per launch, 1 selected row, kills | 190487 | double storing, completeness, table, index range, spinner |
| `SubwayList` | 3 stations under 2 letters, 2 loads | 135393 | the rebuilt list, crashes, table, spinner |
| `AtmClusters` | every list of 5 ATMs on 7 sites, 1 reload to these, none or two; 2 distances, 2 blocks pending | 300310 | indexes in range, each ATM once, keys against values, lone ATMs, markers against groups |
| `AtmClusters_count` | the same | violated | `OrderedDictionary.count` (finding 1) |
| `Session` | 2 digits, PIN of 2, 2 logins | 37654 | PIN of a registered user, authorization, numpad |
| `PhotoImages` | 2 photos, lists of 2, 2 cells, 2 displays | 1408354 | whose image a cell shows, which downloads are cancelled, what stays |
| `StreetBallCalendar` | all schedules of 6 days, months of 3 | 415704 | the arrows, the statuses, the crash after the season |

`CHECK_DEADLOCK FALSE` is set everywhere: every one of these systems may stop,
when its user does nothing or the bound on loads, requests or changes is spent.

**Bounds.**  `MaxRows`, `MaxLoads`, `MaxFetches`, `MaxChanges`, `MaxPage`,
`MaxSelected`, `MaxReloads`, `MaxPending`, `MaxDisplays`, `Days` and `MaxLogins` cap
what the user, the server or the clock could repeat for ever.  They are chosen so that
the interesting cases happen: two downloads overlap and a third load comes after both;
a list shrinks from two rows to one and to none; a day spans two pages; five ATMs can
be joined four times, which is what it takes to disturb both loops of the second pass,
and 16 units between sites keep four halvings integral; the zoom changes while the
block of the last grouping waits; a reload finds no ATM, or two, where there were
five; a row is selected under each presenter; a week of six days in months of three
has gaps, a day number that comes again, and a day after the season.  A PIN of 2
digits in place of 4 keeps a partial, a wrong and a right PIN apart.  Where a theorem
exists (section 5) the bound does not matter.

Two displays are as many as `PhotoImages` allows within minutes: they reuse a cell
or fill two, with the same photo or another.  `HasTwin` in
`ForeignImageOnlyIfNotCancelled` is needed only from the third display on, when a
provider that escaped its cancellation keeps a successor out of the set, so that
the successor escapes too: with one cell, one photo and three displays the property
fails without that disjunct.

**Fairness.**  Weak fairness says that threads of a queue run, that the main
thread runs its queue, and that a request is answered in the end (URLSession has
a timeout, which is an error answer).  `NetworkAnswers` of `TransactionPipeline`
is strongly fair, because the main thread it needs is busy now and then.
A `cancel()` under way returns.  Nobody is obliged to refresh, type, cancel, create or
register.  The liveness
properties name the ways in which the code really does lose the continuation:
a failed download that is only printed (`SpinnerStopsUnlessFailed`), a finish that
`start()` overwrites (`CompletionUnlessOverwritten`, and for the screen that waits for
it `SpinnerStopsUnlessFailedOrLost`), an answer behind a card
(`NumPadIsFreedUnlessCovered`).  In `InboxLogo` a download that has begun is obliged to
report only while its finish is not lost.

**Qualified properties.**  Several invariants have the form "unless *h*", where *h*
is a history variable (`overlap`, `overlapped`, `late`, `overtaken`, `collided`,
`unchecked`, ...).  The unqualified statement is false for the code, and no
document or test of the repository states it.  The qualified one says exactly
which behaviour breaks it, and that nothing else does:

- two overlapping loads store transactions, ATMs and stations twice;
- a download of the history whose finish `start()` overwrites never reports, and the
  spinner turns for ever although nothing failed;
- a day that spans two pages of the history keeps the rows of the page filed last;
- an answer between a new search's reset and the layout makes UnsplashVC index
  out of range; a late answer mixes two searches;
- a failure or a kill after some ATMs were written leaves the others, and all
  stations, undownloaded for good, since the database is no longer empty;
- a row selected before the block that shows the new list has run indexes that list
  with a row of the old one, maybe after the block;
- a mid-point equal to another place's key makes that place's ATMs vanish;
- a zoom before the block of the last grouping has run draws the new groups twice;
  a reload of the map, which also happens as it opens, draws over the old markers;
- an image delivered, or about to be, when its cell left the screen is shown in the
  next photo's cell; so is one whose provider `didEndDisplaying` did not find, the
  photos having been reset;
- providers are found by URL: of two for one URL the first that delivers cancels the
  other, whose cell then stays without its image;
- a user whose fields were edited after the button was enabled is saved with no
  PIN; so is one whose PIN the Keychain refused (or with the old PIN, if it was the
  deletion that was refused).

## 4. Findings

1. `AtmsMapPresenter.swift:130-134` inserts a key twice when the last place joins
   one before it.  `OrderedDictionary.count` is then -1 and the second pass stops,
   although `OrderedDictionary.swift:22` says that the numbers of keys agree.

Behaviour that no document speaks against, but a reader should know of:

- `AsyncOperation.swift:64` stores `.executing` after `main()` has returned.  A write
  operation, which ends its `main()` with `.finished`, reports `isFinished = false`
  ever after; the queue has seen the finish by the post made inside `main()`.  A fast
  network callback is less lucky: its finish may be overwritten unseen, and the
  completion then never comes.  `CompletionUnlessOverwritten` says that this is the
  only way to lose it.
- `CalendarInteractor.swift:176` reads the first element of an empty array when the
  arrow back is pressed on a screen opened after the season has been over for a
  whole day (`ArrowsFindNearestDay`, its last conjunct).
- The markers of the map are drawn twice when it opens, and drawn over the old ones
  when the filters' screen closes (`AtmsMapVC.swift:86`, `ATMAddressBaseVC.swift:95`).
  With filters that leave no ATM the old markers stay, and a tap on one opens a card
  of a group that is not there any more.  `MapShowsGroupingUnlessRedrawn` says that
  these, and an early zoom, are the only ways.
- A failed page of the photo search is never asked for again: `pageCount` has gone on,
  and the last photo on the screen asks for the next page.
- A process killed between the rows of an answer leaves the ATMs incomplete for good,
  as a failure does (`BothCompleteUnlessFailedOrKilled`).
- A row of the ATM list that is selected while a shorter list waits to be shown may
  crash the app (`ATMListVC.swift:238-248`, `OutOfRangeOnlyBeforeShow`).
- `CoreDataManager.saveContext` saves a context it has just made.  Nothing is ever
  stored, and that is as well: a game's `endDate` is fixed when its object is made,
  so that a stored running game would be called running for ever
  (`StatusStaleOnlySinceLoading` and its mutant).

In passing: the comments at `ATMListInteractor.swift:178` and
`SubwayListInteractor.swift:123` say that `checkDataInRealm` returns true if there
are data; it returns whether there are none, and its callers use it so.  The comment
at `CalendarInteractor.swift:116` speaks of the games of the current day, but :131
compares the day of the month only, so that the table of a day lists the games of the
same day of later months too.  No run shows either.

## 5. What is proved

Every safety property, action property and refinement that a passing run checks is
also a theorem, for every value of the constants.  What the theorems assume are
the named assumptions of the modules, which TLC evaluates on each run: bounds are
naturals; a value that stands for "none" (`NoList`, `None`, `Nil`, `NoObjects`,
`NoImage`) is not one of the others; `Cancelable` are providers; `Dependencies` are
sets of operations; the server has a page, and no page is empty; the sites are
points of the plane and distances are positive.

Each proof has the same layout: an inductive invariant in named parts, a lemma for
each action, and the properties as consequences.  What the invariants add to the
properties is the argument, and is summed up here.

**AsyncOperation.**  `FinishedIsSeen` is inductive with the type: the only step that
takes a notice away either clears the operation or finds the state not finished.
`StartedAfterDependencies` is about `main()`: between the two lines of `cancel()` the
queue may start an operation before its dependencies have finished, but such an
operation is cancelled, and `start()` looks at that first.  This and
`CancelBeforeStartWins` are what the pipeline inherits; no run checks them.

**TransactionPipeline** implements AsyncOperation (`ImplementsOperation`), so that the
theorems about operations apply to its own, `FinishedIsSeen` among them.
`PipelineInv` says that a write operation reads and writes in its `main()` only, by
which time the queue has seen its load finish, and that what is left of that load's
callbacks can then only bring nil again; hence `OutcomeMatchesRealm`,
`WriterInputStable`, and `ImplementsLoad`: the pipeline implements TransactionLoad,
with `PhaseOf` and the first report as the mapping and a second report as a
stuttering step.  `CompletionInv` counts completions by how far the write operation
has got (`SecondCompletionOnlyAfterCancel`).

**InboxLogo.**  `ScreenInv`: the table shows rows of the history, the history rows of
Realm, and with nothing pending the three agree.

**InboxPaging.**  The order of pages is inductive once the screen is known to be fresh
before its first request.  `SectionsInv` relates the sections to the pages received:
the days are those of the pages, and `orderedDates` is a sorted sequence of them.
It needs two facts by induction, that the loop over a page collects each day of it
and that a finite set of days can be sorted at all (`DaysCanBeSorted`).  For
`RowsShownOnce` the rows of a day are a copy of that day on one page filed (`DaysInv`),
and such a copy has each transaction of the page once, in place (`RowsOfDayCollects`):
pages have no transaction in common, so that neither a page filed again nor one filed
late can show one twice.

**SubwayList.**  `SubwayInv` follows the program counter of the one load that no other
overlaps: `ListInv` says, phase by phase, which letters are there and which of the
stations found are listed under them.  `FreshInv` keeps what the last load found
against what Realm holds, and `TableInv` what the table was told against the list.
A crash needs an access while a load rebuilds, or rows of a table that no reload
has brought up to date.

**ThreadSafeDictionary.**  `RaceInv`: writers are barriers, and a barrier that runs is
alone.  For `ImplementsAtomic` a client that waits has exactly one block that reads,
queued or running (`ClientsInv`).  A block submitted is the last of those
`AfterBlocks` counts; a block that starts or ends leaves the abstract dictionary
and all replies as they are.

**AtmLoading.**  Stations are asked for after all ATMs were written, so that the ATMs'
database is empty or complete while nothing fails, and a download that no other
overlaps finds both empty.  What a kill has left no later load changes, so that what
one listed stays right (`Settled`).  For the rows selected `QueueInv` says that a
presenter replaced never changes its list again, and that the present one has an empty
list until its only download is listed; a crash is then the fault of a row asked for
or selected before the list was shown (`CrashInv`).  `StoredTwiceOnlyByOverlap` is
proved under the hypothesis that the server has some ATM: if it had none, every load
would find the database empty and store the stations again.

**AtmClusters.**  `DictInv`: the keys are those of the values, and distinct until a
mid-point is a key already or the last place is joined with one before it.  From
then on there are more keys than values, `count` is -1 and both loops end: that is
why no index is out of range (`LoopInv`).  `AtmsInv` has each grouped ATM at one
place of one value, `LoneInv` an ATM without company where it is: a place moves only
when a second ATM joins.  `MapInv` counts the blocks that are to draw: with no reload
since the map was cleared the markers are a part of the groups, and none of them is
there twice while at most one block could have drawn them.

**Session.**  `SessionInv` says how far each step of saving has got when the app is
killed.

**PhotoSearch.**  `SearchInv` orders the texts of the requests, relates the requests to
`pageCount` and the cells of the layout to the photos, and carries the history
variable of each property.

**PhotoImages.**  Displays are numbered, so that what is under way is told apart from
what the cell shows now (`TurnsInv`).  What a display has found stays in the cache
while it is under way (`AskingInv`); the proof never needs that what it has not found
is still missing.  `ListInv` says what a cell that no reload has
overtaken has asked for, `ProvidersInv` that a provider which may still be
cancelled is in a set unless it has a twin.  `DeliveryInv` gives an excuse to every
provider, block and image that outlives its display, and `CellInv` follows the
regular image of a cell from its provider to its block, which is behind the block
of a cached thumb.

**StreetBallCalendar.**  `CalendarInv`: the context holds the games that were over when
this process loaded the schedule, nothing is ever saved, and no table is older than
the context it was filled from.  `NearestDayIsFound` is a fact about single steps;
that the loop of the arrow back stops at the right day is an induction.

**Induction.**  The library's induction theorems take an operator as a parameter,
which the provers cannot instantiate.  Where these proofs need one they take the
least counterexample instead: a set of naturals that is not empty has a least
element (`LeastNumber`, from `WFMin` of WellFoundedInduction).

The type invariants that are proved are not listed in the runs.

**Only model-checked.**  The liveness properties, which are outside the prover's reach:
`CompletionUnlessOverwritten`, `SpinnerStops` of SubwayList, `SpinnerStopsUnlessFailed` of
PhotoSearch and AtmLoading, `SpinnerStopsUnlessFailedOrLost` of InboxLogo,
`NumPadIsFreedUnlessCovered`.  `CountsAgree` is false (finding 1).

## 6. Abstractions, and what is not modelled

- Transactions, ATMs and photos are identities; texts, logos, URLs, distances and
  dates within a day are left out.  In `AtmLoading` all ATMs are within the
  distance limit, and the copies of one ATM are listed once, as the code's removal
  of duplicates does.  The card that a selected row opens is left out, and so is what
  the map does meanwhile.
- The half second of the search's work item and the second of the login are not
  timed: the block fires any time after it was queued.
- In `SubwayList` every station has a name that is not empty.  In `AtmClusters` the
  globe is a plane; the algorithm uses only a distance and mid-points.
- In `Session` the fields other than the PIN are together valid, too short or
  empty; the password, written after the PIN, is not kept apart.
- In `PhotoImages` an access to the presenter's cache or sets is atomic.  In the code
  the completions touch them on the threads of the operations, without a lock; what
  that does to a Swift dictionary or set is not defined, and no model of it says more
  than that.  Completions come between the looks into the cache and what is made of
  them, but a completion itself (cache, block, deletion) is one step, and a display
  makes its blocks and providers for both images in one step, after both looks.  What
  this leaves out is the order of two blocks for one URL, or of blocks of the thumb
  and of a twin's regular image.  A provider is one step per phase: the races of its
  load operation with the queue are those of `AsyncOperation`.
- In `StreetBallCalendar` all days are days of UTC (the code mixes UTC and the time
  zone of the device), a day has one game, and no game lasts past midnight.
- In `AtmClusters` the zoom jumps between the distances; the buttons go through them
  one by one.  A tap on a group at the highest level sets zoom level 19, for which
  `showMapInfo` draws nothing; it is left out.  A reload queues its
  block before it groups, in the model after; both happen before any block runs.
- Which filters are saved when a filter's cell is off screen
  (`ATMFiltersVC.swift:89`) depends on the layout of the device: `AtmLoading` lets the
  filters change or stay as they are whenever their screen closes.
- Not modelled: the gestures, camera and location of the map, the bottom card and
  drop-down list, the ATM list of one station (`loadAtmsForSubway`), the location
  service, the settings screen (it edits the mail address and telephone number, which
  nothing else reads), the image pipeline of BankUI (nobody cancels it, and its races
  are AsyncOperation's), the teams, players and standings of StreetBall, the debouncer
  (the work item and late answers of `PhotoSearch` again), the amount formatter, Snake,
  Maze, and the screens without logic of their own.  Third-party code is modelled only
  as the code uses it: the operation and dispatch queues, Realm, Core Data, UIKit's
  layout.

## 7. Plan

1. *Extend.*  `loadAtmsForSubway` in `AtmLoading`; the image pipeline of BankUI over
   `AsyncOperation`; the sets of players and teams in the store of
   `StreetBallCalendar`.
2. *Pure algorithms.*  The amount formatter against a reference over bounded
   inputs; the generator of Maze and the step of Snake.
3. *Prove more.*  A promise to the user of a screen as an abstract specification, as
   `AtomicDictionary` is for the dictionary: a table that settles on its database
   is stated three times, for `InboxLogo`, `AtmLoading` and `SubwayList`.

## 8. Running it

```
tlc -workers 2 -config TransactionPipeline.cfg MCTransactionPipeline.tla
tlapm AsyncOperationProofs.tla
```

`PROJECT.json` names the module and the configuration of each run.  The TLA+
community modules (SequencesExt, FiniteSetsExt, Folds) must be on the path.
