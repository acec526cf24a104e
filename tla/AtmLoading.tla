----------------------------- MODULE AtmLoading -----------------------------
(***************************************************************************)
(* The list of ATMs of BankUI: ATMListVC with its presenter and            *)
(* interactor, over the two Realm databases it is filled from.  The first  *)
(* load finds the ATMs' database empty and downloads the ATMs and then the *)
(* subway stations; later ones only read.  A load is made when the screen  *)
(* opens and each time the filters' screen closes.                         *)
(*                                                                         *)
(* Everything here runs on the main thread, in blocks: one for each answer *)
(* of the network and each OperationQueue.main.addOperation.  Each load    *)
(* makes a presenter of its own, and the one before is released; what its  *)
(* download brings is stored, but nothing is shown.  The block that opens  *)
(* the card of a selected row keeps the presenter the row was selected in. *)
(*                                                                         *)
(* The process may be killed at any moment, in the middle of an answer's   *)
(* rows too; the databases and the filters are what is left.               *)
(*                                                                         *)
(* The distance limit is not modelled: all ATMs are near.  The copies of   *)
(* an ATM, equally far and with one address, are listed once.              *)
(***************************************************************************)
EXTENDS Integers, Sequences, FiniteSets

CONSTANTS
    Type,       \* kinds of bank points: departments, ATMs, terminals
    TypeOf,     \* TypeOf[a]: the kind of the a-th ATM of the server's list
    Stations,   \* how many subway stations the server lists
    MaxLoads,   \* bound on the loads of one launch
    MaxSelected \* bound on the selected rows whose cards are to be opened

ASSUME TypeOfAssumption == TypeOf \in Seq(Type)
ASSUME BoundsAssumption == {Stations, MaxLoads, MaxSelected} \subseteq Nat

VARIABLES
    filters,    \* the kinds ticked, in UserDefaults
    atms,       \* atms[a]: how often ATM a is stored in Realm
    subways,    \* subways[s]: how often station s is stored in Realm
    loads,      \* loads so far; the current presenter is that of the last
    downloads,  \* requests out
    mainQueue,  \* blocks waiting for the main thread
    list,       \* sortedByDistanceATMs of the current presenter
    former,     \* former[n]: the list of the n-th presenter when replaced
    table,      \* what the table showed at its last reloadData
    spinner,    \* spinner.isAnimating
    crashed,    \* the list was indexed out of its range
    overlapped, \* two downloads were out at once (history variable)
    failed,     \* a download failed, or Realm did not open (history variable)
    killed      \* the process was killed (history variable)

realmVars == <<atms, subways>>
screenVars == <<mainQueue, list, former, table, spinner>>
vars == <<filters, realmVars, loads, downloads, screenVars, crashed,
          overlapped, failed, killed>>

Atm == DOMAIN TypeOf
Station == 1..Stations
Load == 1..MaxLoads
Download == [load : Load, of : {"atms", "subways"}]

Loaded(n) == [kind |-> "loaded", load |-> n]
Show == [kind |-> "show"]
Selected == [kind : {"select"}, load : Load, row : Nat, early : BOOLEAN]
Block == {Show} \cup {Loaded(n) : n \in Load} \cup Selected

TypeOK ==
    /\ filters \subseteq Type
    /\ atms \in [Atm -> Nat]
    /\ subways \in [Station -> Nat]
    /\ loads \in 0..MaxLoads
    /\ downloads \subseteq Download
    /\ mainQueue \in Seq(Block)
    /\ list \subseteq Atm
    /\ former \in [Load -> SUBSET Atm]
    /\ table \subseteq Atm
    /\ spinner \in BOOLEAN
    /\ crashed \in BOOLEAN
    /\ overlapped \in BOOLEAN
    /\ failed \in BOOLEAN
    /\ killed \in BOOLEAN

Init ==
    /\ filters = Type
    /\ atms = [a \in Atm |-> 0]
    /\ subways = [s \in Station |-> 0]
    /\ loads = 0
    /\ downloads = {}
    /\ mainQueue = <<>>
    /\ list = {}
    /\ former = [n \in Load |-> {}]
    /\ table = {}
    /\ spinner = FALSE
    /\ crashed = FALSE
    /\ overlapped = FALSE
    /\ failed = FALSE
    /\ killed = FALSE

-----------------------------------------------------------------------------
Stored == {a \in Atm : atms[a] > 0}

\* loadAtmsListFromRealm for the filters f.
AtmsListFromRealm(f) == {a \in Stored : TypeOf[a] \in f}

\* Mutant: an empty list does not reload the table.
CompleteEmptyUnshown(result, queue, turning) ==
    /\ list' = result
    /\ spinner' = (turning /\ result # {})
    /\ table' = table
    /\ mainQueue' = IF result = {} THEN queue ELSE Append(queue, Show)

(***************************************************************************)
(* getAtmsList ends with the list `result' while `queue' waits; `turning'  *)
(* is the spinner's state.  Its completion shows an empty list at once and *)
(* has another shown in a block of its own.                                *)
(***************************************************************************)
Complete(result, queue, turning) ==
    /\ list' = result
    /\ spinner' = (turning /\ result # {})
    /\ table' = IF result = {} THEN {} ELSE table
    /\ mainQueue' = IF result = {} THEN queue ELSE Append(queue, Show)

-----------------------------------------------------------------------------
\* Mutant: checkDataInRealm is not asked.
GetAtmsListAlwaysDownloads(f) ==
    /\ downloads' = downloads \cup {[load |-> loads', of |-> "atms"]}
    /\ overlapped' = (overlapped \/ downloads # {})
    /\ spinner' = TRUE
    /\ list' = {}
    /\ UNCHANGED <<mainQueue, table, failed>>

(***************************************************************************)
(* reloadDataForVC: loadATMs with a new presenter.  checkDataInRealm is    *)
(* true if the database opens and is empty; otherwise the list is read,    *)
(* and is empty if Realm does not open.                                    *)
(***************************************************************************)
GetAtmsList(f) ==
    \/ /\ Stored = {}
       /\ downloads' = downloads \cup {[load |-> loads', of |-> "atms"]}
       /\ overlapped' = (overlapped \/ downloads # {})
       /\ spinner' = TRUE
       /\ list' = {}
       /\ UNCHANGED <<mainQueue, table, failed>>
    \/ /\ Stored # {}
       /\ Complete(AtmsListFromRealm(f), mainQueue, TRUE)
       /\ UNCHANGED <<downloads, overlapped, failed>>
    \/ /\ Complete({}, mainQueue, TRUE)
       /\ failed' = TRUE
       /\ UNCHANGED <<downloads, overlapped>>

ViewDidLoad ==
    /\ loads = 0
    /\ loads < MaxLoads
    /\ loads' = 1
    /\ GetAtmsList(filters)
    /\ UNCHANGED <<filters, realmVars, former, crashed, killed>>

\* The filters' screen closes: saveFilters, then reloadDataForVC.
FiltersWillDisappear ==
    /\ loads \in 1..MaxLoads - 1
    /\ loads' = loads + 1
    /\ filters' \in SUBSET Type
    /\ former' = [former EXCEPT ![loads] = list]
    /\ GetAtmsList(filters')
    /\ UNCHANGED <<realmVars, crashed, killed>>

-----------------------------------------------------------------------------
\* The rows up to the n-th are written, each in a transaction of its own.
Write(rows, n) == [r \in DOMAIN rows |-> IF r <= n THEN rows[r] + 1 ELSE rows[r]]

\* Mutant: the stations are not asked for.
AtmsAnswerOnly(d) ==
    /\ d \in downloads
    /\ d.of = "atms"
    /\ \E n \in 0..Len(TypeOf) :
          /\ atms' = Write(atms, n)
          /\ failed' = (failed \/ n < Len(TypeOf))
    /\ downloads' = downloads \ {d}
    /\ UNCHANGED <<filters, subways, loads, screenVars, crashed, overlapped,
                   killed>>

(***************************************************************************)
(* getATMPoints has an answer; its n-th write is the last that succeeds.   *)
(* If all do, the stations are asked for.                                  *)
(***************************************************************************)
AtmsAnswer(d) ==
    /\ d \in downloads
    /\ d.of = "atms"
    /\ \E n \in 0..Len(TypeOf) :
          /\ atms' = Write(atms, n)
          /\ failed' = (failed \/ n < Len(TypeOf))
          /\ downloads' =
                (downloads \ {d}) \cup
                {[d EXCEPT !.of = "subways"] : m \in {n} \cap {Len(TypeOf)}}
    /\ UNCHANGED <<filters, subways, loads, screenVars, crashed, overlapped,
                   killed>>

\* getSubwayPoints has an answer; a success is handed to a block.
SubwaysAnswer(d) ==
    /\ d \in downloads
    /\ d.of = "subways"
    /\ downloads' = downloads \ {d}
    /\ \E n \in 0..Stations :
          /\ subways' = Write(subways, n)
          /\ failed' = (failed \/ n < Stations)
          /\ mainQueue' = IF n < Stations THEN mainQueue
                          ELSE Append(mainQueue, Loaded(d.load))
    /\ UNCHANGED <<filters, atms, loads, list, former, table, spinner, crashed,
                   overlapped, killed>>

\* An error, no list in the answer, or no Realm to write to: it is printed.
AnswerFails(d) ==
    /\ d \in downloads
    /\ downloads' = downloads \ {d}
    /\ failed' = TRUE
    /\ UNCHANGED <<filters, realmVars, loads, screenVars, crashed, overlapped,
                   killed>>

-----------------------------------------------------------------------------
\* The block of a download whose presenter is gone does nothing.  (A row
\* selected in the presenter would keep it, but its list is empty till then.)
RunLoadedReleased ==
    /\ mainQueue # <<>>
    /\ Head(mainQueue).kind = "loaded"
    /\ Head(mainQueue).load # loads
    /\ mainQueue' = Tail(mainQueue)
    /\ UNCHANGED <<filters, realmVars, loads, downloads, list, former, table,
                   spinner, crashed, overlapped, failed, killed>>

\* Mutant: Realm is not read again.
RunLoadedNoRead ==
    /\ mainQueue # <<>>
    /\ Head(mainQueue) = Loaded(loads)
    /\ Complete(list, Tail(mainQueue), spinner)
    /\ UNCHANGED <<filters, realmVars, loads, downloads, former, crashed,
                   overlapped, failed, killed>>

\* The block of the current presenter lists what Realm holds now.
RunLoaded ==
    /\ mainQueue # <<>>
    /\ Head(mainQueue) = Loaded(loads)
    /\ \/ /\ Complete(AtmsListFromRealm(filters), Tail(mainQueue), spinner)
          /\ UNCHANGED failed
       \/ /\ Complete({}, Tail(mainQueue), spinner)
          /\ failed' = TRUE
    /\ UNCHANGED <<filters, realmVars, loads, downloads, former, crashed,
                   overlapped, killed>>

\* Mutant: the spinner is not stopped.
RunShowTurning ==
    /\ mainQueue # <<>>
    /\ Head(mainQueue) = Show
    /\ mainQueue' = Tail(mainQueue)
    /\ table' = list
    /\ UNCHANGED <<filters, realmVars, loads, downloads, list, former, spinner,
                   crashed, overlapped, failed, killed>>

RunShow ==
    /\ mainQueue # <<>>
    /\ Head(mainQueue) = Show
    /\ mainQueue' = Tail(mainQueue)
    /\ spinner' = FALSE
    /\ table' = list
    /\ UNCHANGED <<filters, realmVars, loads, downloads, list, former, crashed,
                   overlapped, failed, killed>>

\* Scrolling brings up a row of the table: its cell indexes the list.
CellForRow ==
    /\ \E row \in 0..Cardinality(table) - 1 :
          crashed' = (row >= Cardinality(list))
    /\ UNCHANGED <<filters, realmVars, loads, downloads, screenVars,
                   overlapped, failed, killed>>

Waits(c) == \E k \in DOMAIN mainQueue : mainQueue[k] = c

(***************************************************************************)
(* A row is selected: its card is opened in a block of its own, by the     *)
(* presenter of this moment (`early' is history: the table was not yet     *)
(* that presenter's).                                                      *)
(***************************************************************************)
DidSelectRow ==
    /\ Cardinality({k \in DOMAIN mainQueue : mainQueue[k].kind = "select"})
          < MaxSelected
    /\ loads > 0
    /\ \E row \in 0..Cardinality(table) - 1 :
          mainQueue' = Append(mainQueue,
             [kind |-> "select", load |-> loads, row |-> row,
              early |-> Waits(Show)])
    /\ UNCHANGED <<filters, realmVars, loads, downloads, list, former, table,
                   spinner, crashed, overlapped, failed, killed>>

ListOf(n) == IF n = loads THEN list ELSE former[n]

\* showDetailInfo indexes the list of the presenter the row was selected in.
ShowDetailInfo ==
    /\ mainQueue # <<>>
    /\ Head(mainQueue).kind = "select"
    /\ IF Head(mainQueue).row < Cardinality(ListOf(Head(mainQueue).load))
         THEN mainQueue' = Tail(mainQueue) /\ crashed' = crashed
         ELSE mainQueue' = mainQueue /\ crashed' = TRUE
    /\ UNCHANGED <<filters, realmVars, loads, downloads, list, former, table,
                   spinner, overlapped, failed, killed>>

-----------------------------------------------------------------------------
\* The process is killed, maybe while an answer is written, and started anew.
Restart ==
    /\ loads > 0
    /\ \/ UNCHANGED realmVars
       \/ \E d \in downloads, n \in 0..Len(TypeOf) :
             /\ d.of = "atms"
             /\ atms' = Write(atms, n)
             /\ UNCHANGED subways
       \/ \E d \in downloads, n \in 0..Stations :
             /\ d.of = "subways"
             /\ subways' = Write(subways, n)
             /\ UNCHANGED atms
    /\ killed' = TRUE
    /\ loads' = 0
    /\ downloads' = {}
    /\ mainQueue' = <<>>
    /\ list' = {}
    /\ former' = [n \in Load |-> {}]
    /\ table' = {}
    /\ spinner' = FALSE
    /\ UNCHANGED <<filters, crashed, overlapped, failed>>

Next ==
    /\ ~crashed
    /\ \/ ViewDidLoad
       \/ FiltersWillDisappear
       \/ \E d \in Download : AtmsAnswer(d) \/ SubwaysAnswer(d) \/ AnswerFails(d)
       \/ RunLoadedReleased
       \/ RunLoaded
       \/ RunShow
       \/ CellForRow
       \/ DidSelectRow
       \/ ShowDetailInfo
       \/ Restart

Spec == Init /\ [][Next]_vars

\* The main queue runs its blocks; every request is answered or fails.
Fairness ==
    /\ WF_vars(~crashed /\ (\/ RunLoadedReleased \/ RunLoaded
                            \/ RunShow \/ ShowDetailInfo))
    /\ \A d \in Download :
          WF_vars(~crashed /\ (AtmsAnswer(d) \/ SubwaysAnswer(d) \/ AnswerFails(d)))

FairSpec == Spec /\ Fairness

-----------------------------------------------------------------------------
(***************************************************************************)
(* An ATM or a station is stored twice only if a load found the database   *)
(* still empty while a download was out.                                   *)
(***************************************************************************)
StoredTwiceOnlyByOverlap ==
    ~overlapped => /\ \A a \in Atm : atms[a] <= 1
                   /\ \A s \in Station : subways[s] <= 1

(***************************************************************************)
(* ATMs without their stations are left behind by a failure or a kill      *)
(* only: as soon as no download is out, both databases are complete or     *)
(* both are empty.  (With some ATMs left no load ever downloads again.)    *)
(***************************************************************************)
BothCompleteUnlessFailedOrKilled ==
    downloads = {} /\ ~failed /\ ~killed =>
        \/ \A a \in Atm : atms[a] = 0
        \/ (\A a \in Atm : atms[a] > 0) /\ (\A s \in Station : subways[s] > 0)

(***************************************************************************)
(* When all is quiet and nothing has failed the table shows the ATMs that  *)
(* pass the filters, whichever load's download brought them.               *)
(***************************************************************************)
SettledTableShowsRealm ==
    loads > 0 /\ downloads = {} /\ mainQueue = <<>> /\ ~failed
        => table = AtmsListFromRealm(filters)

(***************************************************************************)
(* A row of the table is out of the list's range only between a load that  *)
(* found fewer ATMs and the block that shows them: the cell is asked for,  *)
(* or the row was selected, while that block waited.                       *)
(***************************************************************************)
OutOfRangeOnlyBeforeShow ==
    crashed =>
        \/ Waits(Show)
        \/ /\ mainQueue # <<>>
           /\ Head(mainQueue).kind = "select"
           /\ Head(mainQueue).early

\* The spinner of a load stops, unless a download has failed.
SpinnerStopsUnlessFailed == spinner ~> ~spinner \/ failed \/ crashed
=============================================================================
