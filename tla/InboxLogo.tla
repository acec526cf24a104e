------------------------------ MODULE InboxLogo ------------------------------
(***************************************************************************)
(* The history screen with logos of BankUI: InboxLogoVC, its presenter and *)
(* interactor, over the Realm database and the downloads that fill it.     *)
(*                                                                         *)
(* The main thread runs the blocks queued on it one at a time, in order;   *)
(* pull-to-refresh comes between any two of them; the downloads commit     *)
(* rows and report on threads of their own.  A download is the abstract    *)
(* one of TransactionLoad, which TransactionPipeline implements.           *)
(***************************************************************************)
EXTENDS TransactionLoad, Sequences

CONSTANTS
    MaxLoads    \* bound on the calls of loadTransactions

ASSUME MaxLoadsAssumption == MaxLoads \in Nat

VARIABLES
    history,    \* transactionsHistory: rows by download, days being data
    table,      \* what the table showed at its last reloadData
    spinner,    \* spinner.isAnimating
    mainQueue,  \* blocks waiting for the main thread
    loads,      \* how often loadTransactions was called
    lost,       \* downloads whose load operation finished unseen
    overlap,    \* overlap[p]: downloads running when p began (history variable)
    unopened    \* Realm has failed to open on the main thread (history variable)

screenVars == <<history, table, spinner, mainQueue, loads>>
historyVars == <<overlap, unopened>>
vars == <<loadVars, screenVars, lost, historyVars>>

\* A row of Realm: which download wrote it, and which transaction it is.
Row == Provider \X (1..MaxRows)

RealmRows == {row \in Row : row[2] <= rows[row[1]]}

Loaded(p) == [kind |-> "loaded", by |-> p]
Show == [kind |-> "show"]
Block == {Show} \cup {Loaded(p) : p \in Provider}

ScreenTypeOK ==
    /\ TypeOK
    /\ history \subseteq Row
    /\ table \subseteq Row
    /\ spinner \in BOOLEAN
    /\ mainQueue \in Seq(Block)
    /\ loads \in 0..MaxLoads
    /\ lost \subseteq Provider
    /\ overlap \in [Provider -> SUBSET Provider]
    /\ unopened \in BOOLEAN

ScreenInit ==
    /\ Init
    /\ history = {}
    /\ table = {}
    /\ spinner = FALSE
    /\ mainQueue = <<>>
    /\ loads = 0
    /\ lost = {}
    /\ overlap = [p \in Provider |-> {}]
    /\ unopened = FALSE

-----------------------------------------------------------------------------
\* Mutant: a download is started whatever Realm holds.
GetTransactionsAlwaysLoads ==
    /\ history' = {}
    /\ \E p \in Provider :
          /\ Begin(p)
          /\ overlap' = [overlap EXCEPT ![p] =
                           {q \in Provider : phase[q] = "loading"}]
    /\ UNCHANGED <<mainQueue, unopened>>

(***************************************************************************)
(* presenter.getTransactions, called by loadTransactions of the screen: it *)
(* forgets the history, then either starts a download, Realm being empty,  *)
(* or reads Realm and has the result shown.  If Realm cannot be opened it  *)
(* returns without calling its completion.                                 *)
(***************************************************************************)
GetTransactions ==
    \/ /\ unopened' = TRUE
       /\ history' = {}
       /\ UNCHANGED <<loadVars, mainQueue, overlap>>
    \/ /\ RealmRows = {}
       /\ history' = {}
       /\ \E p \in Provider :
             /\ Begin(p)
             /\ overlap' = [overlap EXCEPT ![p] =
                              {q \in Provider : phase[q] = "loading"}]
       /\ UNCHANGED <<mainQueue, unopened>>
    \/ /\ RealmRows # {}
       /\ history' = RealmRows
       /\ mainQueue' = Append(mainQueue, Show)
       /\ UNCHANGED <<loadVars, historyVars>>

LoadTransactions ==
    /\ loads < MaxLoads
    /\ loads' = loads + 1
    /\ spinner' = TRUE
    /\ GetTransactions
    /\ UNCHANGED lost

\* viewDidLoad: the first load; the table is not reloaded.
ViewDidLoad ==
    /\ loads = 0
    /\ LoadTransactions
    /\ UNCHANGED table

\* Pull to refresh: loads again and reloads the table at once.
HandleRefresh ==
    /\ loads > 0
    /\ LoadTransactions
    /\ table' = history'

-----------------------------------------------------------------------------
(***************************************************************************)
(* start() of the load operation stores .executing after main() returned,  *)
(* over the .finished of a fast callback: the queue never sees it finish,  *)
(* the write operation never starts, and nobody is told.                   *)
(***************************************************************************)
FinishLost(p) ==
    /\ phase[p] = "loading"
    /\ rows[p] = 0
    /\ p \notin lost
    /\ lost' = lost \cup {p}
    /\ UNCHANGED <<loadVars, screenVars, historyVars>>

CommitRowOf(p) ==
    /\ p \notin lost
    /\ CommitRow(p)
    /\ UNCHANGED <<screenVars, lost, historyVars>>

\* A success is handed over to the main thread.
SucceedOf(p) ==
    /\ p \notin lost
    /\ Succeed(p)
    /\ mainQueue' = Append(mainQueue, Loaded(p))
    /\ UNCHANGED <<history, table, spinner, loads, lost, historyVars>>

\* A failure is printed, and that is all.
FailOf(p) ==
    /\ p \notin lost
    /\ FailEarly(p) \/ FailLate(p)
    /\ UNCHANGED <<screenVars, lost, historyVars>>

\* Mutant: Realm is not read again after the download.
RunLoadedNoRead ==
    /\ mainQueue # <<>>
    /\ Head(mainQueue) # Show
    /\ mainQueue' = Append(Tail(mainQueue), Show)
    /\ UNCHANGED <<loadVars, history, table, spinner, loads, lost, historyVars>>

\* Mutant: the screen's completion is not called.
RunLoadedNoShow ==
    /\ mainQueue # <<>>
    /\ Head(mainQueue) # Show
    /\ history' = RealmRows
    /\ mainQueue' = Tail(mainQueue)
    /\ UNCHANGED <<loadVars, table, spinner, loads, lost, historyVars>>

\* The block of a successful download: Realm is read again and shown.
RunLoaded ==
    /\ mainQueue # <<>>
    /\ Head(mainQueue) # Show
    /\ \/ /\ unopened' = TRUE
          /\ mainQueue' = Tail(mainQueue)
          /\ UNCHANGED history
       \/ /\ history' = RealmRows
          /\ mainQueue' = Append(Tail(mainQueue), Show)
          /\ UNCHANGED unopened
    /\ UNCHANGED <<loadVars, table, spinner, loads, lost, overlap>>

\* The screen's completion: the spinner stops and the table is reloaded.
RunShow ==
    /\ mainQueue # <<>>
    /\ Head(mainQueue) = Show
    /\ mainQueue' = Tail(mainQueue)
    /\ spinner' = FALSE
    /\ table' = history
    /\ UNCHANGED <<loadVars, history, loads, lost, historyVars>>

MainStep == RunLoaded \/ RunShow

DownloadStep(p) == CommitRowOf(p) \/ SucceedOf(p) \/ FailOf(p)

ScreenNext ==
    \/ ViewDidLoad
    \/ HandleRefresh
    \/ MainStep
    \/ \E p \in Provider : DownloadStep(p) \/ FinishLost(p)

\* The main thread runs, and a download that has begun reports in the end
\* unless its finish is lost.
Fairness ==
    /\ WF_vars(MainStep)
    /\ \A p \in Provider : WF_vars(DownloadStep(p))

ScreenSpec == ScreenInit /\ [][ScreenNext]_vars
FairScreenSpec == ScreenSpec /\ Fairness

-----------------------------------------------------------------------------
Failed(p) == outcome[p] \in EarlyFailure \cup LateFailure

\* Nothing is running or queued: only the user can change the screen now.
Quiet ==
    /\ mainQueue = <<>>
    /\ \A p \in Provider : phase[p] = "loading" => p \in lost

(***************************************************************************)
(* Realm has no primary key for a transaction, so two downloads store it   *)
(* twice.  That takes a refresh during a download: of two downloads with   *)
(* rows in Realm, one was running when the other began.                    *)
(***************************************************************************)
StoredTwiceOnlyByOverlap ==
    \A p, q \in Provider :
        p # q /\ rows[p] > 0 /\ rows[q] > 0
            => p \in overlap[q] \/ q \in overlap[p]

(***************************************************************************)
(* When everything has settled, no download having failed or been lost,    *)
(* the table shows what Realm holds, whatever the order in which           *)
(* refreshes, commits and completions came (provided Realm has opened      *)
(* every time).                                                            *)
(***************************************************************************)
SettledTableShowsRealm ==
    Quiet /\ ~unopened /\ lost = {} /\ (\A p \in Provider : ~Failed(p))
        => table = RealmRows /\ ~spinner

(***************************************************************************)
(* The rows a reload displays never vanish from the table unless the user  *)
(* refreshes: a block of the main queue only adds rows to it.              *)
(***************************************************************************)
RowsLeaveOnlyByRefresh ==
    [][loads' = loads => table \subseteq table']_vars

(***************************************************************************)
(* The spinner that a load starts is stopped, unless the screen has been   *)
(* left with nothing to wait for: by a failed download, by one whose load  *)
(* operation finished unseen, or by a closed Realm.                        *)
(***************************************************************************)
SpinnerStopsUnlessFailedOrLost ==
    spinner ~> \/ ~spinner
               \/ Quiet /\ (unopened \/ \E p \in Provider : Failed(p) \/ p \in lost)
=============================================================================
