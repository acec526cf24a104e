----------------------------- MODULE InboxProofs -----------------------------
(***************************************************************************)
(* Proofs about the two history screens of BankUI: InboxLogo, whose list   *)
(* comes from Realm, and InboxPaging, whose list comes page by page.  The  *)
(* two models share no variable; each has its own part below.              *)
(***************************************************************************)
EXTENDS InboxLogo, InboxPaging, FiniteSetTheorems, SequenceTheorems, TLAPS

-----------------------------------------------------------------------------
(***************************************************************************)
(* Proofs about InboxLogo, for any number of downloads, rows and loads.    *)
(*                                                                         *)
(* The properties follow from an invariant in four parts: the type, what   *)
(* is known of downloads (DownloadsInv, with StoredTwiceOnlyByOverlap),    *)
(* that the table shows rows of the history and the history rows of Realm  *)
(* (RowsInv), and that with nothing pending the history is what Realm      *)
(* holds and the table what the history holds (SettledInv).                *)
(***************************************************************************)

Loading(p) == phase[p] = "loading"

\* A block that reads Realm again is waiting for the main thread.
ReadQueued == \E i \in 1..Len(mainQueue) : mainQueue[i] # Show

\* Neither Realm nor a download has let the screen down.
NoFailure == ~unopened /\ lost = {} /\ \A p \in Provider : ~Failed(p)

DownloadsInv ==
    /\ \A p \in Provider :
          /\ phase[p] = "idle" => rows[p] = 0
          /\ outcome[p] # Cancellation
    /\ \A p, q \in Provider :
          p # q /\ Loading(p) /\ (Loading(q) \/ rows[q] > 0)
              => p \in overlap[q] \/ q \in overlap[p]

RowsInv ==
    /\ table \subseteq history
    /\ history \subseteq RealmRows
    /\ loads = 0 => /\ mainQueue = <<>>
                    /\ history = {}
                    /\ \A p \in Provider : phase[p] = "idle"

SettledInv ==
    NoFailure /\ (\A p \in Provider : ~Loading(p)) =>
        /\ ~ReadQueued => history = RealmRows
        /\ mainQueue = <<>> => table = history /\ ~spinner

ScreenInv ==
    /\ ScreenTypeOK
    /\ DownloadsInv
    /\ StoredTwiceOnlyByOverlap
    /\ RowsInv
    /\ SettledInv

-----------------------------------------------------------------------------
\* Realm's rows are rows, and there are none exactly if no download has any.
LEMMA RowsOfRealm ==
    ASSUME TypeOK
    PROVE  /\ RealmRows \subseteq Row
           /\ RealmRows = {} <=> \A p \in Provider : rows[p] = 0
<1>1. RealmRows \subseteq Row
  BY DEF RealmRows
<1>2. ASSUME NEW p \in Provider, rows[p] # 0
      PROVE  RealmRows # {}
  <2>1. rows[p] \in 1..MaxRows /\ 1 \in 1..MaxRows /\ 1 <= rows[p]
    BY <1>2, MaxRowsAssumption DEF TypeOK
  <2>2. <<p, 1>> \in RealmRows
    BY <2>1 DEF RealmRows, Row
  <2> QED BY <2>2
<1>3. ASSUME NEW row \in RealmRows
      PROVE  row[1] \in Provider /\ rows[row[1]] # 0
  BY DEF RealmRows, Row, TypeOK
<1> QED BY <1>1, <1>2, <1>3

\* A block leaves the queue at its head and may be followed by another.
LEMMA QueueStep ==
    ASSUME mainQueue \in Seq(Block), NEW b \in Block
    PROVE  /\ Append(mainQueue, b) \in Seq(Block)
           /\ Append(mainQueue, b) # <<>>
           /\ mainQueue # <<>> => /\ Tail(mainQueue) \in Seq(Block)
                                  /\ Head(mainQueue) \in Block
                                  /\ Append(Tail(mainQueue), b) \in Seq(Block)
                                  /\ Append(Tail(mainQueue), b) # <<>>
OBVIOUS

\* The two kinds of block are blocks.
LEMMA Blocks ==
    /\ Show \in Block
    /\ \A p \in Provider : Loaded(p) \in Block /\ Loaded(p) # Show
BY DEF Block, Show, Loaded

-----------------------------------------------------------------------------
\* The invariant holds before the screen has loaded.
LEMMA InitHolds == ScreenInit => ScreenInv
<1> SUFFICES ASSUME ScreenInit PROVE ScreenInv
  OBVIOUS
<1> USE DEF ScreenInit, Init
<1>1. ScreenTypeOK
  <2>1. TypeOK
    BY MaxRowsAssumption DEF TypeOK, Outcome
  <2>2. mainQueue \in Seq(Block) /\ loads \in 0..MaxLoads
    BY MaxLoadsAssumption
  <2>3. overlap \in [Provider -> SUBSET Provider]
    OBVIOUS
  <2> QED BY <2>1, <2>2, <2>3 DEF ScreenTypeOK
<1>2. DownloadsInv /\ StoredTwiceOnlyByOverlap
  BY DEF DownloadsInv, StoredTwiceOnlyByOverlap, Loading, Cancellation
<1>3. RealmRows = {}
  BY <1>1, RowsOfRealm DEF ScreenTypeOK
<1>4. RowsInv /\ SettledInv
  BY <1>3 DEF RowsInv, SettledInv
<1> QED BY <1>1, <1>2, <1>4 DEF ScreenInv

\* What getTransactions leaves behind, however it goes: the type but for the
\* spinner and the table, and the downloads.
LEMMA GetTransactionsStep ==
    ASSUME ScreenInv, LoadTransactions
    PROVE  /\ TypeOK'
           /\ history' \subseteq RealmRows'
           /\ mainQueue' \in Seq(Block)
           /\ loads' \in 1..MaxLoads
           /\ overlap' \in [Provider -> SUBSET Provider]
           /\ unopened' \in BOOLEAN
           /\ DownloadsInv'
           /\ StoredTwiceOnlyByOverlap'
<1> USE DEF ScreenInv, ScreenTypeOK
<1>1. loads' \in 1..MaxLoads
  BY MaxLoadsAssumption DEF LoadTransactions
<1>2. CASE /\ unopened' = TRUE
           /\ history' = {}
           /\ UNCHANGED <<loadVars, mainQueue, overlap>>
  BY <1>1, <1>2 DEF TypeOK, DownloadsInv, StoredTwiceOnlyByOverlap, Loading, loadVars
<1>3. ASSUME RealmRows = {}, history' = {}, NEW p \in Provider, Begin(p),
             overlap' = [overlap EXCEPT ![p] = {q \in Provider : phase[q] = "loading"}],
             UNCHANGED <<mainQueue, unopened>>
      PROVE  /\ TypeOK'
             /\ overlap' \in [Provider -> SUBSET Provider]
             /\ DownloadsInv'
             /\ StoredTwiceOnlyByOverlap'
  <2>1. TypeOK' /\ overlap' \in [Provider -> SUBSET Provider]
    BY <1>3 DEF TypeOK, Begin
  <2>2. \A q \in Provider : rows[q] = 0 /\ rows'[q] = 0
    BY <1>3, RowsOfRealm DEF Begin
  <2>3. \A q \in Provider :
            /\ q # p => phase'[q] = phase[q] /\ overlap'[q] = overlap[q]
            /\ phase'[p] = "loading"
            /\ phase[p] = "idle"
            /\ overlap'[p] = {r \in Provider : phase[r] = "loading"}
            /\ outcome' = outcome
    BY <1>3 DEF Begin, TypeOK
  <2>4. \A q \in Provider :
            /\ phase'[q] = "idle" => rows'[q] = 0
            /\ outcome'[q] # Cancellation
    BY <2>2, <2>3 DEF DownloadsInv
  <2>5. ASSUME NEW q \in Provider, NEW r \in Provider, q # r,
               phase'[q] = "loading", phase'[r] = "loading"
        PROVE  q \in overlap'[r] \/ r \in overlap'[q]
    <3>1. CASE q = p \/ r = p
      BY <3>1, <2>3, <2>5
    <3>2. CASE q # p /\ r # p
      BY <3>2, <2>3, <2>5 DEF DownloadsInv, Loading
    <3> QED BY <3>1, <3>2
  <2>6. DownloadsInv'
    BY <2>2, <2>4, <2>5 DEF DownloadsInv, Loading
  <2>7. StoredTwiceOnlyByOverlap'
    BY <2>2 DEF StoredTwiceOnlyByOverlap
  <2> QED BY <2>1, <2>6, <2>7
<1>4. CASE /\ RealmRows # {}
           /\ history' = RealmRows
           /\ mainQueue' = Append(mainQueue, Show)
           /\ UNCHANGED <<loadVars, historyVars>>
  <2>1. mainQueue' \in Seq(Block)
    BY <1>4, QueueStep, Blocks
  <2>2. history' \subseteq RealmRows'
    BY <1>4 DEF RealmRows, loadVars
  <2> QED
    BY <1>1, <1>4, <2>1, <2>2 DEF TypeOK, DownloadsInv, StoredTwiceOnlyByOverlap,
       Loading, loadVars, historyVars
<1> QED BY <1>1, <1>2, <1>3, <1>4 DEF LoadTransactions, GetTransactions

\* After it either a download runs, or something has failed, or a block that
\* shows Realm's rows is queued.
LEMMA GetTransactionsSettles ==
    ASSUME ScreenInv, LoadTransactions
    PROVE  SettledInv'
<1> USE DEF ScreenInv, ScreenTypeOK
<1>1. CASE unopened' = TRUE
  BY <1>1 DEF SettledInv, NoFailure
<1>2. ASSUME NEW p \in Provider, Begin(p)
      PROVE  SettledInv'
  BY <1>2 DEF SettledInv, Loading, Begin, TypeOK
<1>3. CASE /\ history' = RealmRows
           /\ mainQueue' = Append(mainQueue, Show)
           /\ UNCHANGED <<loadVars, historyVars>>
  <2>1. mainQueue' # <<>>
    BY <1>3, QueueStep, Blocks
  <2>2. history' = RealmRows'
    BY <1>3 DEF RealmRows, loadVars
  <2> QED BY <2>1, <2>2 DEF SettledInv
<1> QED BY <1>1, <1>2, <1>3 DEF LoadTransactions, GetTransactions

\* The first load.
LEMMA ViewDidLoadStep ==
    ASSUME ScreenInv, ViewDidLoad
    PROVE  ScreenInv'
<1>1. table = {} /\ table' = {}
  BY DEF ViewDidLoad, ScreenInv, RowsInv
<1>2. spinner' = TRUE
  BY DEF ViewDidLoad, LoadTransactions
<1>3. LoadTransactions
  BY DEF ViewDidLoad
<1>4. ScreenTypeOK'
  BY <1>1, <1>2, <1>3, GetTransactionsStep, RowsOfRealm, MaxLoadsAssumption
     DEF ScreenTypeOK, RealmRows, ScreenInv, LoadTransactions
<1>5. RowsInv'
  BY <1>1, <1>3, GetTransactionsStep DEF RowsInv
<1> QED BY <1>3, <1>4, <1>5, GetTransactionsStep, GetTransactionsSettles DEF ScreenInv

\* A refresh: the table is reloaded at once.
LEMMA HandleRefreshStep ==
    ASSUME ScreenInv, HandleRefresh
    PROVE  ScreenInv'
<1>1. table' = history'
  BY DEF HandleRefresh
<1>2. spinner' = TRUE
  BY DEF HandleRefresh, LoadTransactions
<1>3. LoadTransactions
  BY DEF HandleRefresh
<1>4. ScreenTypeOK'
  BY <1>1, <1>2, <1>3, GetTransactionsStep, MaxLoadsAssumption
     DEF ScreenTypeOK, RealmRows, ScreenInv, LoadTransactions
<1>5. RowsInv'
  BY <1>1, <1>3, GetTransactionsStep DEF RowsInv
<1> QED BY <1>3, <1>4, <1>5, GetTransactionsStep, GetTransactionsSettles DEF ScreenInv

-----------------------------------------------------------------------------
\* A row is committed by a download that runs.
LEMMA CommitRowStep ==
    ASSUME ScreenInv, NEW p \in Provider, CommitRowOf(p)
    PROVE  ScreenInv'
<1> USE DEF ScreenInv, ScreenTypeOK, CommitRowOf, CommitRow
<1>1. Loading(p) /\ UNCHANGED <<screenVars, historyVars, phase, outcome>>
  BY DEF DownloadsInv, Loading
<1>2. /\ rows' \in [Provider -> 0..MaxRows]
      /\ \A q \in Provider : q # p => rows'[q] = rows[q]
      /\ \A q \in Provider : rows'[q] >= rows[q]
  BY MaxRowsAssumption DEF TypeOK
<1>3. ScreenTypeOK'
  BY <1>1, <1>2 DEF TypeOK, screenVars, historyVars
<1>4. DownloadsInv'
  BY <1>1, <1>2 DEF DownloadsInv, Loading, historyVars
<1>5. StoredTwiceOnlyByOverlap'
  <2> SUFFICES ASSUME NEW q \in Provider, NEW r \in Provider,
                      q # r, rows'[q] > 0, rows'[r] > 0
               PROVE  q \in overlap[r] \/ r \in overlap[q]
    BY <1>1 DEF StoredTwiceOnlyByOverlap, historyVars
  <2>1. CASE q = p \/ r = p
    BY <2>1, <1>1, <1>2 DEF DownloadsInv
  <2>2. CASE q # p /\ r # p
    BY <2>2, <1>2 DEF StoredTwiceOnlyByOverlap
  <2> QED BY <2>1, <2>2
<1>6. RealmRows \subseteq RealmRows'
  <2> SUFFICES ASSUME NEW row \in Row, row[2] <= rows[row[1]]
               PROVE  row[2] <= rows'[row[1]]
    BY DEF RealmRows
  <2>1. row[1] \in Provider /\ row[2] \in Nat
    BY MaxRowsAssumption DEF Row
  <2> QED BY <2>1, <1>2, MaxRowsAssumption DEF TypeOK
<1>7. RowsInv'
  BY <1>1, <1>6 DEF RowsInv, screenVars
<1>8. SettledInv'
  BY <1>1 DEF SettledInv, Loading
<1> QED BY <1>3, <1>4, <1>5, <1>7, <1>8

\* What a report leaves alone: Realm, and the phases of other downloads.
LEMMA ReportStep ==
    ASSUME ScreenInv, NEW p \in Provider, NEW how \in Outcome \ {Cancellation},
           Report(p, how), UNCHANGED <<history, table, spinner, loads, historyVars>>
    PROVE  /\ TypeOK'
           /\ DownloadsInv'
           /\ StoredTwiceOnlyByOverlap'
           /\ RealmRows' = RealmRows
           /\ loads # 0
           /\ phase' = [phase EXCEPT ![p] = "reported"]
           /\ outcome'[p] = how
           /\ Failed(p)' <=> how \in EarlyFailure \cup LateFailure
<1> USE DEF ScreenInv, ScreenTypeOK, Report
<1>1. TypeOK' /\ phase' = [phase EXCEPT ![p] = "reported"] /\ outcome'[p] = how
  BY DEF TypeOK
<1>2. \A q \in Provider : q # p => phase'[q] = phase[q] /\ outcome'[q] = outcome[q]
  BY DEF TypeOK
<1>3. phase'[p] = "reported"
  BY DEF TypeOK
<1>4. DownloadsInv'
  BY <1>1, <1>2, <1>3 DEF DownloadsInv, Loading, historyVars
<1>5. StoredTwiceOnlyByOverlap' /\ RealmRows' = RealmRows
  BY DEF StoredTwiceOnlyByOverlap, RealmRows, historyVars
<1>6. loads # 0
  BY DEF RowsInv
<1> QED BY <1>1, <1>4, <1>5, <1>6 DEF Failed

\* A success queues the block that reads Realm again.
LEMMA SucceedStep ==
    ASSUME ScreenInv, NEW p \in Provider, SucceedOf(p)
    PROVE  ScreenInv'
<1>1. /\ TypeOK'
      /\ DownloadsInv'
      /\ StoredTwiceOnlyByOverlap'
      /\ RealmRows' = RealmRows
      /\ loads # 0
  BY ReportStep DEF SucceedOf, Succeed, Outcome, EarlyFailure, LateFailure, Cancellation
<1>2. mainQueue' \in Seq(Block) /\ mainQueue' # <<>>
  BY QueueStep, Blocks DEF SucceedOf, ScreenInv, ScreenTypeOK
<1>3. ReadQueued'
  <2>1. Len(mainQueue') \in Nat \ {0} /\ mainQueue'[Len(mainQueue')] = Loaded(p)
    BY Blocks DEF SucceedOf, ScreenInv, ScreenTypeOK
  <2> QED BY <2>1, Blocks DEF ReadQueued
<1>4. ScreenTypeOK'
  BY <1>1, <1>2 DEF ScreenInv, ScreenTypeOK, SucceedOf, historyVars
<1>5. RowsInv'
  BY <1>1 DEF ScreenInv, RowsInv, SucceedOf
<1>6. SettledInv'
  BY <1>2, <1>3 DEF SettledInv
<1> QED BY <1>1, <1>4, <1>5, <1>6 DEF ScreenInv

\* A failure is remembered and nothing else happens.
LEMMA FailStep ==
    ASSUME ScreenInv, NEW p \in Provider, FailOf(p)
    PROVE  ScreenInv'
<1> PICK how \in EarlyFailure \cup LateFailure : Report(p, how)
  BY DEF FailOf, FailEarly, FailLate
<1>1. UNCHANGED <<screenVars, lost, historyVars>>
  BY DEF FailOf
<1>2. how \in Outcome \ {Cancellation}
  BY DEF Outcome, EarlyFailure, LateFailure, Cancellation
<1>3. /\ TypeOK'
      /\ DownloadsInv'
      /\ StoredTwiceOnlyByOverlap'
      /\ RealmRows' = RealmRows
      /\ loads # 0
      /\ Failed(p)'
  BY <1>1, <1>2, ReportStep DEF screenVars
<1>4. ScreenTypeOK'
  BY <1>1, <1>3 DEF ScreenInv, ScreenTypeOK, FailOf, screenVars, historyVars
<1>5. RowsInv'
  BY <1>1, <1>3 DEF ScreenInv, RowsInv, screenVars
<1>6. SettledInv'
  BY <1>3 DEF SettledInv, NoFailure
<1> QED BY <1>3, <1>4, <1>5, <1>6 DEF ScreenInv

\* A lost finish changes nothing else: the download stays where it is.
LEMMA FinishLostStep ==
    ASSUME ScreenInv, NEW p \in Provider, FinishLost(p)
    PROVE  ScreenInv'
<1> USE DEF ScreenInv, FinishLost
<1>1. lost' # {} /\ lost' \subseteq Provider
  BY DEF ScreenTypeOK
<1>2. ScreenTypeOK'
  BY <1>1 DEF ScreenTypeOK, TypeOK, loadVars, screenVars, historyVars
<1>3. DownloadsInv' /\ StoredTwiceOnlyByOverlap' /\ RowsInv'
  BY DEF DownloadsInv, StoredTwiceOnlyByOverlap, RowsInv, RealmRows, Loading, loadVars,
         screenVars, historyVars
<1>4. SettledInv'
  BY <1>1 DEF SettledInv, NoFailure
<1> QED BY <1>2, <1>3, <1>4

\* The block of a success reads all of Realm, or finds it closed.
LEMMA RunLoadedStep ==
    ASSUME ScreenInv, RunLoaded
    PROVE  ScreenInv'
<1> USE DEF ScreenInv, ScreenTypeOK, RunLoaded
<1>1. UNCHANGED <<loadVars, table, spinner, loads, overlap>> /\ loads # 0
  BY DEF RowsInv
<1>2. /\ TypeOK'
      /\ DownloadsInv'
      /\ StoredTwiceOnlyByOverlap'
      /\ RealmRows' = RealmRows
  BY <1>1 DEF TypeOK, DownloadsInv, StoredTwiceOnlyByOverlap, RealmRows, Loading, loadVars
<1>3. mainQueue' \in Seq(Block)
  BY QueueStep, Blocks
<1>4. history' = history \/ history' = RealmRows
  OBVIOUS
<1>5. RowsInv'
  BY <1>1, <1>2, <1>4 DEF RowsInv
<1>6. unopened' \in BOOLEAN
  OBVIOUS
<1>7. ScreenTypeOK'
  BY <1>1, <1>2, <1>3, <1>4, <1>6, RowsOfRealm
<1>8. CASE unopened' = TRUE
  BY <1>2, <1>5, <1>7, <1>8 DEF SettledInv, NoFailure
<1>9. CASE history' = RealmRows /\ mainQueue' = Append(Tail(mainQueue), Show)
  <2>1. mainQueue' # <<>>
    BY <1>9, QueueStep, Blocks
  <2>2. SettledInv'
    BY <1>2, <1>9, <2>1 DEF SettledInv
  <2> QED BY <1>2, <1>5, <1>7, <2>2
<1> QED BY <1>8, <1>9

\* The screen's completion shows the history.
LEMMA RunShowStep ==
    ASSUME ScreenInv, RunShow
    PROVE  ScreenInv'
<1> USE DEF ScreenInv, ScreenTypeOK, RunShow
<1>1. UNCHANGED <<loadVars, history, loads, historyVars>> /\ loads # 0
  BY DEF RowsInv
<1>2. /\ TypeOK'
      /\ DownloadsInv'
      /\ StoredTwiceOnlyByOverlap'
      /\ RealmRows' = RealmRows
  BY <1>1 DEF TypeOK, DownloadsInv, StoredTwiceOnlyByOverlap, RealmRows, Loading,
     loadVars, historyVars
<1>3. mainQueue' \in Seq(Block)
  BY QueueStep, Blocks
<1>4. ScreenTypeOK'
  BY <1>1, <1>2, <1>3 DEF historyVars
<1>5. RowsInv'
  BY <1>1, <1>2 DEF RowsInv
<1>6. ~ReadQueued' => ~ReadQueued
  <2> SUFFICES ASSUME NEW i \in 1..Len(mainQueue), mainQueue[i] # Show
               PROVE  ReadQueued'
    BY DEF ReadQueued
  <2>1. i # 1
    OBVIOUS
  <2>2. i - 1 \in 1..Len(mainQueue') /\ mainQueue'[i - 1] = mainQueue[i]
    BY <2>1
  <2> QED BY <2>2 DEF ReadQueued
<1>7. SettledInv'
  <2>1. NoFailure' => NoFailure
    BY <1>1 DEF NoFailure, Failed, loadVars, historyVars
  <2>2. \A p \in Provider : Loading(p)' <=> Loading(p)
    BY <1>1 DEF Loading, loadVars
  <2>3. table' = history' /\ spinner' = FALSE
    BY <1>1
  <2> QED BY <1>1, <1>2, <1>6, <2>1, <2>2, <2>3 DEF SettledInv
<1> QED BY <1>2, <1>4, <1>5, <1>7

\* A step that changes nothing.
LEMMA Stutter ==
    ASSUME ScreenInv, UNCHANGED vars
    PROVE  ScreenInv'
BY DEF ScreenInv, ScreenTypeOK, TypeOK, DownloadsInv, StoredTwiceOnlyByOverlap,
   RowsInv, SettledInv, NoFailure, Failed, ReadQueued, Loading, RealmRows,
   vars, loadVars, screenVars, historyVars

(***************************************************************************)
(* The invariant of the history screen: every step of the user, the main   *)
(* thread and the downloads keeps it.                                      *)
(***************************************************************************)
THEOREM Invariant == ScreenSpec => []ScreenInv
<1>1. ScreenInv /\ [ScreenNext]_vars => ScreenInv'
  <2> SUFFICES ASSUME ScreenInv, ScreenNext PROVE ScreenInv'
    BY Stutter
  <2>1. CASE ViewDidLoad
    BY <2>1, ViewDidLoadStep
  <2>2. CASE HandleRefresh
    BY <2>2, HandleRefreshStep
  <2>3. CASE MainStep
    BY <2>3, RunLoadedStep, RunShowStep DEF MainStep
  <2>4. ASSUME NEW p \in Provider, DownloadStep(p) \/ FinishLost(p)
        PROVE  ScreenInv'
    BY <2>4, CommitRowStep, SucceedStep, FailStep, FinishLostStep DEF DownloadStep
  <2> QED BY <2>1, <2>2, <2>3, <2>4 DEF ScreenNext
<1> QED BY InitHolds, <1>1, PTL DEF ScreenSpec

(***************************************************************************)
(* The screen's state has its type: the queue holds blocks, the table and  *)
(* the history rows of Realm.                                              *)
(***************************************************************************)
THEOREM TypeCorrect == ScreenSpec => []ScreenTypeOK
<1>1. ScreenInv => ScreenTypeOK
  BY DEF ScreenInv
<1> QED BY <1>1, Invariant, PTL

(***************************************************************************)
(* Two downloads that both have rows in Realm overlapped: getTransactions  *)
(* starts one only if it has read no row.                                  *)
(***************************************************************************)
THEOREM StoredOnce == ScreenSpec => []StoredTwiceOnlyByOverlap
<1>1. ScreenInv => StoredTwiceOnlyByOverlap
  BY DEF ScreenInv
<1> QED BY <1>1, Invariant, PTL

(***************************************************************************)
(* Once all is quiet and nothing has failed, the table shows what Realm    *)
(* holds and the spinner stands still.                                     *)
(***************************************************************************)
THEOREM TableSettles == ScreenSpec => []SettledTableShowsRealm
<1>1. ScreenInv => SettledTableShowsRealm
  <2> SUFFICES ASSUME ScreenInv, Quiet, NoFailure
               PROVE  table = RealmRows /\ ~spinner
    BY DEF SettledTableShowsRealm, NoFailure
  <2>1. mainQueue = <<>> /\ \A p \in Provider : ~Loading(p)
    BY DEF Quiet, Loading, NoFailure
  <2>2. ~ReadQueued
    BY <2>1 DEF ReadQueued
  <2> QED BY <2>1, <2>2 DEF ScreenInv, SettledInv
<1> QED BY <1>1, Invariant, PTL

(***************************************************************************)
(* A row that is shown stays until the user refreshes.                     *)
(***************************************************************************)
THEOREM RowsStay == ScreenSpec => RowsLeaveOnlyByRefresh
<1>1. ScreenInv /\ [ScreenNext]_vars => [loads' = loads => table \subseteq table']_vars
  <2> SUFFICES ASSUME ScreenInv, ScreenNext, loads' = loads
               PROVE  table \subseteq table'
    OBVIOUS
  <2>1. CASE ViewDidLoad \/ HandleRefresh
    BY <2>1, MaxLoadsAssumption
       DEF ViewDidLoad, HandleRefresh, LoadTransactions, ScreenInv, ScreenTypeOK
  <2>2. CASE RunLoaded
    BY <2>2 DEF RunLoaded
  <2>3. CASE RunShow
    BY <2>3 DEF RunShow, ScreenInv, RowsInv
  <2>4. ASSUME NEW p \in Provider, DownloadStep(p) \/ FinishLost(p)
        PROVE  table \subseteq table'
    BY <2>4 DEF DownloadStep, FinishLost, CommitRowOf, SucceedOf, FailOf, screenVars
  <2> QED BY <2>1, <2>2, <2>3, <2>4 DEF ScreenNext, MainStep
<1> QED BY <1>1, Invariant, PTL DEF ScreenSpec, RowsLeaveOnlyByRefresh

-----------------------------------------------------------------------------
(***************************************************************************)
(* Proofs about InboxPaging, for any pages of the server and any number of *)
(* requests.                                                               *)
(*                                                                         *)
(* PagesInOrderUnlessOverlapped is inductive once the flights are known to *)
(* be typed and the screen to be fresh before its first request: the one   *)
(* request that is out asks for pageCount, and filing it makes received    *)
(* one page longer.  DaysInv is inductive on its own: filing a page makes  *)
(* each of its days a copy of what is on that page, and leaves the others. *)
(* That such a copy has each transaction once (RowsOfDayCollects) gives    *)
(* EachRowOnceUnlessDaySpansPages.                                         *)
(*                                                                         *)
(* The sections follow the pages received (SectionsInv), which also bounds *)
(* pageCount: each page filed and each request out took a fetch of its     *)
(* own.  What the loop over a page collects, and that days can be sorted   *)
(* at all, is induction; it is done with least counterexamples, which the  *)
(* library's WFMin provides without a predicate for a parameter.           *)
(***************************************************************************)

FlightsInv ==
    /\ pageCount \in Nat
    /\ totalPagesCount \in {1, Len(Pages)}
    /\ fetches \in 0..MaxFetches
    /\ flights \subseteq Flight
    /\ received \subseteq Page
    /\ overlapped \in BOOLEAN
    /\ fetches = 0 => flights = {} /\ pageCount = 0 /\ received = {}

\* What the rows of a day are a copy of: the day on one of the pages filed.
DaysInv ==
    \A d \in DOMAIN transactionsHistory :
        \E page \in received :
            /\ d \in DaysOf(page)
            /\ transactionsHistory[d] = RowsOfDay(page, d)

PagingInv ==
    /\ FlightsInv
    /\ PagesInOrderUnlessOverlapped
    /\ DaysInv

SectionsInv ==
    /\ IsFiniteSet(flights)
    /\ pageCount + Cardinality(flights) <= fetches
    /\ \A f \in flights : f.id <= fetches
    /\ orderedDates \in Sorted(DOMAIN transactionsHistory)
    /\ DOMAIN transactionsHistory = UNION {DaysOf(page) : page \in received}

-----------------------------------------------------------------------------
\* Every set of naturals that is not empty has a least element: induction, in
\* a form that needs no predicate as a parameter.
LEMMA LeastNumber ==
    ASSUME NEW T, T \subseteq Nat, T # {}
    PROVE  \E m \in T : \A k \in T : m <= k
<1> DEFINE R == OpToRel(<, Nat)
<1>1. IsWellFoundedOn(R, Nat)
  BY NatLessThanWellFounded
<1>2. \A k, m \in Nat : k < m => <<k, m>> \in R
  BY DEF OpToRel
<1> HIDE DEF R
<1>3. PICK m \in T : \A k \in T : <<k, m>> \notin R
  BY <1>1, WFMin
<1>4. ASSUME NEW k \in T PROVE m <= k
  <2>1. k \in Nat /\ m \in Nat
    OBVIOUS
  <2>2. ~(k < m)
    BY <1>2, <1>3, <2>1
  <2> QED BY <2>1, <2>2
<1> QED BY <1>4

\* A finite set of days can be sorted.
LEMMA SortedExists ==
    ASSUME NEW days, days \subseteq Nat, IsFiniteSet(days)
    PROVE  Sorted(days) # {}
<1> DEFINE Unsorted == {A \in SUBSET Nat : IsFiniteSet(A) /\ Sorted(A) = {}}
           Sizes == {n \in Nat : \E A \in Unsorted : Cardinality(A) = n}
<1> SUFFICES ASSUME days \in Unsorted PROVE FALSE
  OBVIOUS
<1>1. Sizes \subseteq Nat /\ Sizes # {}
  BY FS_CardinalityType
<1>2. PICK n \in Sizes : \A k \in Sizes : n <= k
  <2> HIDE DEF Sizes
  <2> QED BY <1>1, LeastNumber
<1>3. PICK A \in Unsorted : Cardinality(A) = n
  BY <1>2
<1>4. A # {}
  <2> SUFFICES ASSUME A = {} PROVE FALSE
    OBVIOUS
  <2>1. Cardinality({}) = 0
    BY FS_EmptySet
  <2>2. <<>> \in Sorted({})
    BY <2>1 DEF Sorted, Range
  <2> QED BY <1>3, <2>2
<1>5. PICK m \in A : \A k \in A : m <= k
  BY <1>4, LeastNumber
<1> DEFINE B == A \ {m}
<1>6. /\ IsFiniteSet(B) /\ Cardinality(B) \in Nat
      /\ Cardinality(A) = Cardinality(B) + 1
  <2>1. IsFiniteSet(A) /\ Cardinality(A) \in Nat
    BY <1>3, FS_CardinalityType
  <2>2. IsFiniteSet(B) /\ Cardinality(B) = Cardinality(A) - 1
    BY <1>5, <2>1, FS_RemoveElement
  <2>3. Cardinality(B) \in Nat
    BY <2>2, FS_CardinalityType
  <2> QED BY <2>1, <2>2, <2>3
<1>7. PICK t : t \in Sorted(B)
  <2>1. B \notin Unsorted
    BY <1>2, <1>3, <1>6
  <2> QED BY <1>3, <1>6, <2>1
<1> DEFINE N == Cardinality(B)
           s == [i \in 1..N + 1 |-> IF i = N + 1 THEN m ELSE t[i]]
<1> N \in Nat /\ Cardinality(A) = N + 1
  BY <1>6
<1> B \subseteq A /\ m \in A
  BY <1>5
<1>8. /\ t \in [1..N -> B] /\ Range(t) = B
      /\ \A i, j \in 1..N : i < j => t[i] > t[j]
  BY <1>7 DEF Sorted
<1> HIDE DEF N
<1>9. s \in [1..Cardinality(A) -> A]
  <2>1. ASSUME NEW i \in 1..N + 1, i # N + 1 PROVE i \in 1..N
    BY <2>1
  <2>2. ASSUME NEW i \in 1..N + 1
        PROVE  (IF i = N + 1 THEN m ELSE t[i]) \in A
    BY <1>8, <2>1
  <2> QED BY <2>2
<1>10. Range(s) = A
  <2>1. ASSUME NEW a \in A PROVE \E i \in DOMAIN s : s[i] = a
    <3>1. CASE a = m
      BY <1>6, <3>1 DEF N
    <3>2. CASE a # m
      <4>1. PICK i \in DOMAIN t : t[i] = a
        BY <1>8, <3>2 DEF Range
      <4> QED BY <1>6, <1>8, <4>1 DEF N
    <3> QED BY <3>1, <3>2
  <2>2. ASSUME NEW i \in DOMAIN s PROVE s[i] \in A
    BY <1>9
  <2> HIDE DEF s
  <2> QED BY <2>1, <2>2 DEF Range
<1>11. ASSUME NEW i \in DOMAIN s, NEW j \in DOMAIN s, i < j
       PROVE  s[i] > s[j]
  <2>0. N \in Nat
    BY <1>6 DEF N
  <2>1. i \in 1..N /\ s[i] = t[i] /\ t[i] \in B
    BY <1>8, <1>11, <2>0
  <2>2. CASE j = N + 1
    <3>1. s[j] = m /\ t[i] \in A /\ t[i] # m
      BY <2>0, <2>1, <2>2
    <3>2. A \subseteq Nat
      BY <1>3
    <3>3. m <= t[i] /\ m \in Nat /\ t[i] \in Nat
      BY <1>5, <3>1, <3>2
    <3> QED BY <2>1, <3>1, <3>3
  <2>3. CASE j # N + 1
    BY <1>8, <1>11, <2>0, <2>1, <2>3
  <2> QED BY <2>2, <2>3
<1>12. s \in Sorted(A)
  BY <1>9, <1>10, <1>11 DEF Sorted
<1> QED BY <1>3, <1>12

\* Rows are the transactions of day d among the first n of a page, each once.
Collects(s, page, d, n) ==
    /\ s \in Seq(Transaction)
    /\ \A i \in DOMAIN s : \E k \in 1..n : s[i] = <<page, k>> /\ DayOf(<<page, k>>) = d
    /\ \A i, j \in DOMAIN s : s[i] = s[j] => i = j
    /\ \A k \in 1..n : DayOf(<<page, k>>) = d => \E i \in DOMAIN s : s[i] = <<page, k>>

\* Appending the next transaction of the page, if it is of the day.
LEMMA CollectsNext ==
    ASSUME NEW page, NEW d, NEW n \in Nat \ {0}, NEW s, Collects(s, page, d, n - 1),
           <<page, n>> \in Transaction
    PROVE  Collects(IF DayOf(<<page, n>>) = d THEN Append(s, <<page, n>>) ELSE s,
                    page, d, n)
<1>1. /\ s \in Seq(Transaction)
      /\ \A i \in DOMAIN s : \E k \in 1..n - 1 : s[i] = <<page, k>> /\ DayOf(<<page, k>>) = d
      /\ \A i, j \in DOMAIN s : s[i] = s[j] => i = j
      /\ \A k \in 1..n - 1 : DayOf(<<page, k>>) = d => \E i \in DOMAIN s : s[i] = <<page, k>>
  BY DEF Collects
<1>2. \A k \in 1..n : k \in 1..n - 1 \/ k = n
  OBVIOUS
<1>3. \A k \in 1..n - 1 : k \in 1..n /\ k # n
  OBVIOUS
<1>4. CASE DayOf(<<page, n>>) # d
  <2>1. \A i \in DOMAIN s : \E k \in 1..n : s[i] = <<page, k>> /\ DayOf(<<page, k>>) = d
    BY <1>1, <1>3
  <2>2. \A k \in 1..n : DayOf(<<page, k>>) = d => \E i \in DOMAIN s : s[i] = <<page, k>>
    BY <1>1, <1>2, <1>4
  <2>3. Collects(s, page, d, n)
    BY <1>1, <2>1, <2>2 DEF Collects
  <2> QED BY <1>4, <2>3
<1>5. CASE DayOf(<<page, n>>) = d
  <2> DEFINE e == <<page, n>>
             r == Append(s, e)
  <2>1. /\ r \in Seq(Transaction)
        /\ DOMAIN r = DOMAIN s \cup {Len(s) + 1}
        /\ DOMAIN s = 1..Len(s)
        /\ Len(s) \in Nat
        /\ r[Len(s) + 1] = e
        /\ \A i \in DOMAIN s : r[i] = s[i]
    <3> HIDE DEF e
    <3>1. e \in Transaction
      BY DEF e
    <3> QED BY <1>1, <3>1
  <2>2. Len(s) + 1 \notin DOMAIN s
    BY <2>1
  <2>3. ASSUME NEW i \in DOMAIN s PROVE s[i] # e
    <3>1. PICK k \in 1..n - 1 : s[i] = <<page, k>>
      BY <1>1
    <3>2. k # n
      BY <1>3
    <3>3. <<page, k>> # <<page, n>>
      BY <3>2
    <3> QED BY <3>1, <3>3
  <2>4. \A i \in DOMAIN r : \E k \in 1..n : r[i] = <<page, k>> /\ DayOf(<<page, k>>) = d
    <3> SUFFICES ASSUME NEW i \in DOMAIN r
                 PROVE  \E k \in 1..n : r[i] = <<page, k>> /\ DayOf(<<page, k>>) = d
      OBVIOUS
    <3>1. CASE i \in DOMAIN s
      <4>1. PICK k \in 1..n - 1 : s[i] = <<page, k>> /\ DayOf(<<page, k>>) = d
        BY <1>1, <3>1
      <4>2. k \in 1..n /\ r[i] = s[i]
        BY <1>3, <2>1, <3>1
      <4> HIDE DEF r
      <4> QED BY <4>1, <4>2
    <3>2. CASE i = Len(s) + 1
      <4>1. n \in 1..n /\ r[i] = <<page, n>>
        BY <2>1, <3>2
      <4> HIDE DEF r
      <4> QED BY <1>5, <4>1
    <3>3. i \in DOMAIN s \/ i = Len(s) + 1
      BY <2>1
    <3> QED BY <3>1, <3>2, <3>3
  <2>5. \A i, j \in DOMAIN r : r[i] = r[j] => i = j
    <3> HIDE DEF r, e
    <3> QED BY <1>1, <2>1, <2>2, <2>3
  <2>6. \A k \in 1..n : DayOf(<<page, k>>) = d => \E i \in DOMAIN r : r[i] = <<page, k>>
    <3> SUFFICES ASSUME NEW k \in 1..n, DayOf(<<page, k>>) = d
                 PROVE  \E i \in DOMAIN r : r[i] = <<page, k>>
      OBVIOUS
    <3>1. CASE k = n
      BY <2>1, <3>1
    <3>2. CASE k \in 1..n - 1
      <4>1. PICK i \in DOMAIN s : s[i] = <<page, k>>
        BY <1>1, <3>2
      <4> QED BY <2>1, <4>1
    <3> QED BY <1>2, <3>1, <3>2
  <2>7. Collects(r, page, d, n)
    <3> HIDE DEF r, e
    <3> QED BY <2>1, <2>4, <2>5, <2>6 DEF Collects
  <2> QED BY <1>5, <2>7
<1> QED BY <1>4, <1>5

\* The second loop of orderTransactionByDate is defined for every page, and
\* collects the transactions of that page and day, each once.
LEMMA RowsOfDayCollects ==
    ASSUME NEW page \in Page, NEW d
    PROVE  Collects(RowsOfDay(page, d), page, d, Len(Pages[page + 1]))
<1> DEFINE N == Len(Pages[page + 1])

           Loop(g, n) == g = [i \in 0..n |-> IF i = 0 THEN <<>>
                               ELSE IF DayOf(<<page, i>>) = d THEN Append(g[i - 1], <<page, i>>)
            ELSE g[i - 1]]
<1>1. page + 1 \in DOMAIN Pages /\ N \in Nat /\ DOMAIN Pages[page + 1] = 1..N
  BY PagesAssumption DEF Page
<1>2. \A i \in 1..N : <<page, i>> \in Transaction
  BY <1>1 DEF Transaction
<1> DEFINE Undefined == {n \in 0..N : ~\E g : Loop(g, n)}
<1>3. Undefined = {}
  <2> SUFFICES ASSUME Undefined # {} PROVE FALSE
    OBVIOUS
  <2>1. PICK n \in Undefined : \A k \in Undefined : n <= k
    <3>1. Undefined \subseteq Nat
      BY <1>1
    <3> HIDE DEF Undefined
    <3> QED BY <3>1, LeastNumber
  <2>2. n # 0
    <3>1. Loop([i \in 0..0 |-> <<>>], 0)
      OBVIOUS
    <3> QED BY <3>1
  <2>3. PICK g : Loop(g, n - 1)
    <3>1. n - 1 \in 0..N /\ n - 1 < n
      BY <1>1, <2>1, <2>2
    <3>2. n - 1 \notin Undefined
      <4>1. n \in Nat /\ n - 1 \in Nat
        BY <1>1, <2>1, <3>1
      <4> HIDE DEF Undefined
      <4> QED BY <2>1, <3>1, <4>1
    <3> HIDE DEF Loop
    <3> QED BY <3>1, <3>2
  <2> DEFINE h == [i \in 0..n |-> IF i < n THEN g[i]
                     ELSE IF DayOf(<<page, n>>) = d THEN Append(g[n - 1], <<page, n>>) ELSE g[n - 1]]
  <2>4. Loop(h, n)
    <3>1. n \in Nat \ {0}
      BY <1>1, <2>1, <2>2
    <3>2. ASSUME NEW i \in 0..n
          PROVE  h[i] = IF i = 0 THEN <<>>
                       ELSE IF DayOf(<<page, i>>) = d THEN Append(h[i - 1], <<page, i>>)
                       ELSE h[i - 1]
      <4>1. CASE i = n
        BY <3>1, <4>1
      <4>2. CASE i < n
        <5>1. i \in 0..n - 1 /\ h[i] = g[i] /\ (i # 0 => i - 1 \in 0..n /\ i - 1 < n)
          BY <3>1, <4>2
        <5>2. i # 0 => h[i - 1] = g[i - 1]
          BY <5>1
        <5> HIDE DEF h
        <5> QED BY <2>3, <5>1, <5>2
      <4> QED BY <3>1, <4>1, <4>2
    <3> QED BY <3>2
  <2> QED BY <2>1, <2>4
<1> DEFINE appended == CHOOSE g : Loop(g, N)
<1>4. Loop(appended, N)
  <2>1. \E g : Loop(g, N)
    <3> HIDE DEF Loop
    <3> QED BY <1>1, <1>3
  <2> HIDE DEF Loop
  <2> QED BY <2>1
<1>5. RowsOfDay(page, d) = appended[N]
  BY DEF RowsOfDay
<1> HIDE DEF appended
<1> DEFINE Untyped == {n \in 0..N : ~Collects(appended[n], page, d, n)}
<1>6. Untyped = {}
  <2> SUFFICES ASSUME Untyped # {} PROVE FALSE
    OBVIOUS
  <2>1. PICK n \in Untyped : \A k \in Untyped : n <= k
    <3>1. Untyped \subseteq Nat
      BY <1>1
    <3> HIDE DEF Untyped
    <3> QED BY <3>1, LeastNumber
  <2>2. CASE n = 0
    <3>1. appended[0] = <<>>
      BY <1>1, <1>4
    <3>2. Collects(<<>>, page, d, 0)
      BY DEF Collects
    <3> QED BY <2>1, <2>2, <3>1, <3>2
  <2>3. CASE n # 0
    <3>1. Collects(appended[n - 1], page, d, n - 1)
      <4>1. n - 1 \in 0..N /\ n - 1 < n /\ n \in Nat /\ n - 1 \in Nat
        BY <1>1, <2>1, <2>3
      <4>2. n - 1 \notin Untyped
        <5> HIDE DEF Untyped
        <5> QED BY <2>1, <4>1
      <4> QED BY <4>1, <4>2
    <3>2. /\ n \in 1..N
          /\ appended[n] = IF DayOf(<<page, n>>) = d
                           THEN Append(appended[n - 1], <<page, n>>)
                           ELSE appended[n - 1]
      <4>1. n \in 1..N /\ n \in 0..N
        BY <1>1, <2>1, <2>3
      <4>2. appended[n] = IF n = 0 THEN <<>>
                          ELSE IF DayOf(<<page, n>>) = d
                               THEN Append(appended[n - 1], <<page, n>>)
                               ELSE appended[n - 1]
        <5> HIDE DEF N
        <5> QED BY <1>4, <4>1
      <4> QED BY <2>3, <4>1, <4>2
    <3>3. Collects(appended[n], page, d, n)
      <4>1. n \in Nat \ {0} /\ <<page, n>> \in Transaction
        BY <1>1, <1>2, <3>2
      <4>2. Collects(IF DayOf(<<page, n>>) = d THEN Append(appended[n - 1], <<page, n>>)
                     ELSE appended[n - 1], page, d, n)
        BY <3>1, <4>1, CollectsNext
      <4> QED BY <3>2, <4>2
    <3> QED BY <2>1, <3>3
  <2> QED BY <2>2, <2>3
<1> QED BY <1>1, <1>5, <1>6

LEMMA RowsOfDayType ==
    ASSUME NEW page \in Page, NEW d
    PROVE  RowsOfDay(page, d) \in Seq(Transaction)
BY RowsOfDayCollects DEF Collects

-----------------------------------------------------------------------------
\* The server has at least one page.
LEMMA SomePage == Len(Pages) \in Nat \ {0}
BY PagesAssumption

\* A request that is sent asks for a page of the server.
LEMMA FetchedPage ==
    ASSUME FlightsInv, NEW next \in Nat, NEW total \in {1, Len(Pages)},
           FetchHistory(next, total)
    PROVE  /\ fetches' \in 1..MaxFetches
           /\ flights' \subseteq Flight
           /\ flights' = flights \cup {[id |-> fetches + 1, page |-> next]}
<1>1. next \in Page
  BY SomePage DEF FetchHistory, Page
<1>2. fetches' = fetches + 1 /\ fetches + 1 \in 1..MaxFetches
  BY MaxFetchesAssumption DEF FetchHistory, FlightsInv
<1> QED BY <1>1, <1>2 DEF FetchHistory, FlightsInv, Flight

-----------------------------------------------------------------------------
\* The invariant holds initially: nothing is filed, nothing is out.
LEMMA PagingInitHolds == PagingInit => PagingInv
<1> SUFFICES ASSUME PagingInit PROVE PagingInv
  OBVIOUS
<1>1. FlightsInv
  <2>1. fetches \in 0..MaxFetches
    BY MaxFetchesAssumption DEF PagingInit
  <2>2. totalPagesCount \in {1, Len(Pages)} /\ overlapped \in BOOLEAN
    BY DEF PagingInit
  <2> QED BY <2>1, <2>2 DEF PagingInit, FlightsInv
<1>2. PagesInOrderUnlessOverlapped
  BY DEF PagingInit, PagesInOrderUnlessOverlapped
<1>3. DaysInv
  BY DEF PagingInit, NoHistory, DaysInv
<1> QED BY <1>1, <1>2, <1>3 DEF PagingInv

\* The first request finds nothing out.
LEMMA PagesViewDidLoadStep ==
    ASSUME PagingInv, PagesViewDidLoad
    PROVE  PagingInv'
<1>1. /\ fetches' \in 1..MaxFetches
      /\ flights' \subseteq Flight
      /\ flights' = flights \cup {[id |-> fetches + 1, page |-> pageCount]}
  BY FetchedPage DEF PagesViewDidLoad, PagingInv, FlightsInv
<1>2. FlightsInv'
  BY <1>1 DEF PagesViewDidLoad, PagingInv, FlightsInv, pagesVars
<1>3. PagesInOrderUnlessOverlapped'
  BY <1>1 DEF PagesViewDidLoad, PagingInv, FlightsInv, PagesInOrderUnlessOverlapped, pagesVars
<1>4. DaysInv'
  BY DEF PagesViewDidLoad, PagingInv, DaysInv, pagesVars
<1> QED BY <1>2, <1>3, <1>4 DEF PagingInv

\* A refresh empties the screen and asks for page 0.
LEMMA PagesHandleRefreshStep ==
    ASSUME PagingInv, PagesHandleRefresh
    PROVE  PagingInv'
<1>1. /\ fetches' \in 1..MaxFetches
      /\ flights' \subseteq Flight
      /\ flights' = flights \cup {[id |-> fetches + 1, page |-> 0]}
  BY FetchedPage DEF PagesHandleRefresh, PagingInv
<1>2. FlightsInv'
  BY <1>1 DEF PagesHandleRefresh, FlightsInv
<1>3. PagesInOrderUnlessOverlapped'
  <2> SUFFICES ASSUME ~overlapped'
               PROVE  /\ received' = 0..pageCount' - 1
                      /\ \A f, g \in flights' : f = g /\ f.page = pageCount'
    BY DEF PagesInOrderUnlessOverlapped
  <2>1. flights = {} /\ received' = {} /\ pageCount' = 0
    BY DEF PagesHandleRefresh
  <2> QED BY <1>1, <2>1
<1>4. DaysInv'
  BY DEF PagesHandleRefresh, NoHistory, DaysInv
<1> QED BY <1>2, <1>3, <1>4 DEF PagingInv

\* The last row asks for pageCount; if no other request is out it is the one.
LEMMA WillDisplayStep ==
    ASSUME PagingInv, WillDisplayLastRow
    PROVE  PagingInv'
<1>1. /\ fetches' \in 1..MaxFetches
      /\ flights' \subseteq Flight
      /\ flights' = flights \cup {[id |-> fetches + 1, page |-> pageCount]}
  BY FetchedPage DEF WillDisplayLastRow, PagingInv, FlightsInv
<1>2. FlightsInv'
  BY <1>1 DEF WillDisplayLastRow, PagingInv, FlightsInv, pagesVars
<1>3. PagesInOrderUnlessOverlapped'
  <2> SUFFICES ASSUME ~overlapped'
               PROVE  /\ received' = 0..pageCount' - 1
                      /\ \A f, g \in flights' : f = g /\ f.page = pageCount'
    BY DEF PagesInOrderUnlessOverlapped
  <2>1. ~overlapped /\ flights = {} /\ received' = received /\ pageCount' = pageCount
    BY DEF WillDisplayLastRow, pagesVars
  <2> QED BY <1>1, <2>1 DEF PagingInv, PagesInOrderUnlessOverlapped
<1>4. DaysInv'
  BY DEF WillDisplayLastRow, PagingInv, DaysInv, pagesVars
<1> QED BY <1>2, <1>3, <1>4 DEF PagingInv

\* An answer: the days of its page are replaced, the others keep their rows.
LEMMA AnswerStep ==
    ASSUME PagingInv, NEW f \in flights, Answer(f)
    PROVE  PagingInv'
<1>1. f.page \in Page /\ f.page \in Nat
  BY SomePage DEF PagingInv, FlightsInv, Flight, Page
<1>2. fetches # 0
  BY DEF PagingInv, FlightsInv
<1>3. FlightsInv'
  BY <1>1, <1>2 DEF Answer, PagingInv, FlightsInv
<1>4. PagesInOrderUnlessOverlapped'
  <2> SUFFICES ASSUME ~overlapped'
               PROVE  /\ received' = 0..pageCount' - 1
                      /\ flights' = {}
    BY DEF PagesInOrderUnlessOverlapped
  <2>1. received = 0..pageCount - 1 /\ flights = {f} /\ f.page = pageCount
    BY DEF Answer, PagingInv, PagesInOrderUnlessOverlapped
  <2> QED BY <2>1 DEF Answer, PagingInv, FlightsInv
<1>5. DaysInv'
  <2> SUFFICES ASSUME NEW d \in DOMAIN transactionsHistory'
               PROVE  \E page \in received' :
                         /\ d \in DaysOf(page)
                         /\ transactionsHistory'[d] = RowsOfDay(page, d)
    BY DEF DaysInv
  <2>1. transactionsHistory' =
          [e \in DOMAIN transactionsHistory \cup DaysOf(f.page) |->
              IF e \in DaysOf(f.page) THEN RowsOfDay(f.page, e)
              ELSE transactionsHistory[e]]
    BY DEF Answer, OrderTransactionByDate
  <2>2. received' = received \cup {f.page}
    BY DEF Answer
  <2>3. CASE d \in DaysOf(f.page)
    BY <2>1, <2>2, <2>3
  <2>4. CASE d \notin DaysOf(f.page)
    <3>1. d \in DOMAIN transactionsHistory /\ transactionsHistory'[d] = transactionsHistory[d]
      BY <2>1, <2>4
    <3> QED BY <2>2, <3>1 DEF PagingInv, DaysInv
  <2> QED BY <2>3, <2>4
<1> QED BY <1>3, <1>4, <1>5 DEF PagingInv

\* A request that fails is forgotten; the next one asks for the same page.
LEMMA AnswerFailsStep ==
    ASSUME PagingInv, NEW f \in flights, AnswerFails(f)
    PROVE  PagingInv'
<1>1. FlightsInv'
  BY DEF AnswerFails, PagingInv, FlightsInv, pagesVars
<1>2. PagesInOrderUnlessOverlapped' /\ DaysInv'
  BY DEF AnswerFails, PagingInv, PagesInOrderUnlessOverlapped, DaysInv,
         pagesVars
<1> QED BY <1>1, <1>2 DEF PagingInv

\* Every step keeps the invariant.
LEMMA PagingStepHolds == PagingInv /\ [PagingNext]_pagingVars => PagingInv'
<1> SUFFICES ASSUME PagingInv, [PagingNext]_pagingVars PROVE PagingInv'
  OBVIOUS
<1>1. CASE UNCHANGED pagingVars
  BY <1>1 DEF pagingVars, pagesVars, PagingInv, FlightsInv,
              PagesInOrderUnlessOverlapped, DaysInv
<1> QED
  BY <1>1, PagesViewDidLoadStep, PagesHandleRefreshStep, WillDisplayStep, AnswerStep,
     AnswerFailsStep DEF PagingNext

\* The inductive invariant of the paged history.
THEOREM PagingInvariant == PagingSpec => []PagingInv
BY PagingInitHolds, PagingStepHolds, PTL DEF PagingSpec

-----------------------------------------------------------------------------
\* Without overlapping requests the pages are filed in order, none skipped
\* and none twice (InboxVC.swift:109-126).
THEOREM PagesInOrder == PagingSpec => []PagesInOrderUnlessOverlapped
<1>1. PagingInv => PagesInOrderUnlessOverlapped
  BY DEF PagingInv
<1> QED BY <1>1, PagingInvariant, PTL

-----------------------------------------------------------------------------
\* There are finitely many days, all of them numbers.
LEMMA FiniteDays == Day \subseteq Nat /\ IsFiniteSet(Day)
<1>1. ASSUME NEW i \in DOMAIN Pages
      PROVE  Range(Pages[i]) \subseteq Nat /\ IsFiniteSet(Range(Pages[i]))
  <2>1. Pages[i] \in Seq(Nat) /\ DOMAIN Pages[i] = 1..Len(Pages[i]) /\ Len(Pages[i]) \in Nat
    BY PagesAssumption
  <2>2. Pages[i] \in Surjection(1..Len(Pages[i]), Range(Pages[i]))
    BY <2>1 DEF Surjection, Range
  <2>3. IsFiniteSet(1..Len(Pages[i]))
    BY <2>1, FS_Interval
  <2> QED BY <2>1, <2>2, <2>3, FS_Surjection DEF Range
<1> DEFINE Days == {Range(Pages[i]) : i \in DOMAIN Pages}
           f == [i \in DOMAIN Pages |-> Range(Pages[i])]
<1>2. IsFiniteSet(Days)
  <2>1. DOMAIN Pages = 1..Len(Pages) /\ Len(Pages) \in Nat
    BY PagesAssumption
  <2>2. f \in Surjection(DOMAIN Pages, Days)
    BY DEF Surjection
  <2>3. IsFiniteSet(DOMAIN Pages)
    BY <2>1, FS_Interval
  <2> HIDE DEF f, Days
  <2> QED BY <2>2, <2>3, FS_Surjection
<1>3. IsFiniteSet(UNION Days)
  <2>1. \A T \in Days : IsFiniteSet(T)
    BY <1>1
  <2> HIDE DEF Days
  <2> QED BY <1>2, <2>1, FS_UNION
<1> QED BY <1>1, <1>3 DEF Day

\* The days of a page are days.
LEMMA DaysOfPage ==
    ASSUME NEW page \in Page
    PROVE  DaysOf(page) \subseteq Day
<1>1. page + 1 \in DOMAIN Pages
  BY PagesAssumption DEF Page
<1> QED BY <1>1 DEF DaysOf, Day

\* sorted(by: >) has a result for whatever days have been filed
\* (InboxVC.swift:158): an answer can always be filed.
THEOREM DaysCanBeSorted == \A days \in SUBSET Day : Sorted(days) # {}
<1> SUFFICES ASSUME NEW days \in SUBSET Day PROVE Sorted(days) # {}
  OBVIOUS
<1>1. days \subseteq Nat /\ IsFiniteSet(days)
  BY FiniteDays, FS_Subset
<1> QED BY <1>1, SortedExists

\* One more request: one more fetch.
LEMMA FetchSections ==
    ASSUME PagingInv, SectionsInv, NEW next \in Nat, NEW total \in {1, Len(Pages)},
           FetchHistory(next, total), pageCount' \in {pageCount, 0}
    PROVE  /\ IsFiniteSet(flights')
           /\ pageCount' + Cardinality(flights') <= fetches'
           /\ \A f \in flights' : f.id <= fetches'
<1> DEFINE new == [id |-> fetches + 1, page |-> next]
<1>1. flights' = flights \cup {new} /\ fetches' = fetches + 1
  BY DEF FetchHistory
<1>2. pageCount \in Nat /\ fetches \in Nat /\ flights \subseteq Flight
  BY DEF PagingInv, FlightsInv
<1>3. IsFiniteSet(flights) /\ Cardinality(flights) \in Nat
  BY FS_CardinalityType DEF SectionsInv
<1>4. new \notin flights
  BY <1>2 DEF SectionsInv
<1>5. IsFiniteSet(flights') /\ Cardinality(flights') = Cardinality(flights) + 1
  BY <1>1, <1>3, <1>4, FS_AddElement
<1>6. \A f \in flights' : f.id <= fetches'
  BY <1>1, <1>2 DEF SectionsInv, Flight
<1> QED BY <1>1, <1>2, <1>3, <1>5, <1>6 DEF SectionsInv

\* An answer files the days of its page and sorts them all.
LEMMA AnswerSections ==
    ASSUME PagingInv, SectionsInv, NEW f \in flights, Answer(f)
    PROVE  SectionsInv'
<1>1. pageCount \in Nat /\ fetches \in Nat /\ pageCount' = pageCount + 1 /\ fetches' = fetches
  BY DEF PagingInv, FlightsInv, Answer
<1>2. IsFiniteSet(flights) /\ Cardinality(flights) \in Nat
  BY FS_CardinalityType DEF SectionsInv
<1>3. IsFiniteSet(flights') /\ Cardinality(flights') = Cardinality(flights) - 1
  <2>1. flights' = flights \ {f}
    BY DEF Answer
  <2> QED BY <1>2, <2>1, FS_RemoveElement
<1>4. \A g \in flights' : g.id <= fetches'
  BY <1>1 DEF Answer, SectionsInv
<1>5. orderedDates' \in Sorted(DOMAIN transactionsHistory')
  BY DEF Answer, OrderTransactionByDate
<1>6. DOMAIN transactionsHistory' = DOMAIN transactionsHistory \cup DaysOf(f.page)
  BY DEF Answer, OrderTransactionByDate
<1>7. UNION {DaysOf(page) : page \in received'}
        = (UNION {DaysOf(page) : page \in received}) \cup DaysOf(f.page)
  <2>1. received' = received \cup {f.page}
    BY DEF Answer
  <2> QED BY <2>1
<1>8. pageCount' + Cardinality(flights') <= fetches'
  BY <1>1, <1>2, <1>3 DEF SectionsInv
<1>9. DOMAIN transactionsHistory' = UNION {DaysOf(page) : page \in received'}
  <2>1. DOMAIN transactionsHistory = UNION {DaysOf(page) : page \in received}
    BY DEF SectionsInv
  <2> QED BY <1>6, <1>7, <2>1
<1> QED BY <1>3, <1>4, <1>5, <1>8, <1>9 DEF SectionsInv

\* The sections are those of the pages received, initially and ever after.
LEMMA SectionsHold == PagingSpec => []SectionsInv
<1>1. PagingInit => SectionsInv
  <2> SUFFICES ASSUME PagingInit PROVE SectionsInv
    OBVIOUS
  <2>1. IsFiniteSet({}) /\ Cardinality({}) = 0
    BY FS_EmptySet
  <2>2. DOMAIN transactionsHistory = {} /\ received = {}
    BY DEF PagingInit, NoHistory
  <2>3. orderedDates \in Sorted({})
    BY <2>1 DEF PagingInit, Sorted, Range
  <2> QED BY <2>1, <2>2, <2>3 DEF PagingInit, SectionsInv
<1>2. PagingInv /\ SectionsInv /\ [PagingNext]_pagingVars => SectionsInv'
  <2> SUFFICES ASSUME PagingInv, SectionsInv, [PagingNext]_pagingVars PROVE SectionsInv'
    OBVIOUS
  <2>1. pageCount \in Nat /\ fetches \in Nat /\ totalPagesCount \in {1, Len(Pages)}
    BY DEF PagingInv, FlightsInv
  <2>2. CASE PagesViewDidLoad \/ WillDisplayLastRow
    <3>1. FetchHistory(pageCount, totalPagesCount) /\ pageCount' = pageCount
      BY <2>2 DEF PagesViewDidLoad, WillDisplayLastRow, pagesVars
    <3>2. UNCHANGED <<orderedDates, transactionsHistory, received>>
      BY <2>2 DEF PagesViewDidLoad, WillDisplayLastRow, pagesVars
    <3> QED BY <2>1, <3>1, <3>2, FetchSections DEF SectionsInv
  <2>3. CASE PagesHandleRefresh
    <3>1. FetchHistory(0, 1) /\ pageCount' = 0
      BY <2>3 DEF PagesHandleRefresh
    <3>2. DOMAIN transactionsHistory' = {} /\ received' = {} /\ orderedDates' = <<>>
      BY <2>3 DEF PagesHandleRefresh, NoHistory
    <3>3. orderedDates' \in Sorted({})
      BY <3>2, FS_EmptySet DEF Sorted, Range
    <3> QED BY <3>1, <3>2, <3>3, FetchSections DEF SectionsInv
  <2>4. ASSUME NEW f \in flights, AnswerFails(f) PROVE SectionsInv'
    <3>1. flights' = flights \ {f} /\ UNCHANGED <<pagesVars, fetches, received>>
      BY <2>4 DEF AnswerFails
    <3>2. IsFiniteSet(flights) /\ Cardinality(flights) \in Nat
      BY FS_CardinalityType DEF SectionsInv
    <3>3. IsFiniteSet(flights') /\ Cardinality(flights') = Cardinality(flights) - 1
      BY <3>1, <3>2, FS_RemoveElement
    <3> QED BY <2>1, <3>1, <3>2, <3>3 DEF SectionsInv, pagesVars
  <2>5. CASE UNCHANGED pagingVars
    BY <2>5 DEF pagingVars, pagesVars, SectionsInv
  <2> QED BY <2>2, <2>3, <2>4, <2>5, AnswerSections DEF PagingNext
<1> QED BY <1>1, <1>2, PagingInvariant, PTL DEF PagingSpec

\* The data source is consistent whenever the table may ask: its sections
\* are the days of the pages filed, newest first, each once, and every
\* variable keeps its type (InboxVC.swift:92-165).
THEOREM SectionsAreThoseOfHistory == PagingSpec => []SectionsMatchHistory
<1>1. PagingInv /\ SectionsInv => SectionsMatchHistory
  <2> SUFFICES ASSUME PagingInv, SectionsInv PROVE SectionsMatchHistory
    OBVIOUS
  <2>1. DOMAIN transactionsHistory \subseteq Day
    BY DaysOfPage DEF PagingInv, FlightsInv, SectionsInv
  <2>2. /\ Cardinality(DOMAIN transactionsHistory) \in Nat
        /\ orderedDates \in [1..Cardinality(DOMAIN transactionsHistory)
                                -> DOMAIN transactionsHistory]
        /\ Range(orderedDates) = DOMAIN transactionsHistory
        /\ \A i, j \in DOMAIN orderedDates : i < j => orderedDates[i] > orderedDates[j]
    BY <2>1, FiniteDays, FS_Subset, FS_CardinalityType DEF SectionsInv, Sorted
  <2>3. orderedDates \in Seq(Day)
    BY <2>1, <2>2
  <2>4. \A d \in DOMAIN transactionsHistory : transactionsHistory[d] \in Seq(Transaction)
    BY RowsOfDayType DEF PagingInv, FlightsInv, DaysInv
  <2>5. pageCount \in 0..MaxFetches
    <3>1. Cardinality(flights) \in Nat
      BY FS_CardinalityType DEF SectionsInv
    <3> QED BY <3>1, MaxFetchesAssumption DEF PagingInv, FlightsInv, SectionsInv
  <2> QED BY <2>1, <2>2, <2>3, <2>4, <2>5
          DEF SectionsMatchHistory, PagingTypeOK, PagingInv, FlightsInv, SectionsInv
<1> QED BY <1>1, PagingInvariant, SectionsHold, PTL

\* However often a page is filed, its transactions are shown once each and under
\* their day; only a day that is on another page filed as well may lack some
\* (InboxVC.swift:148-165).
THEOREM RowsShownOnce == PagingSpec => []EachRowOnceUnlessDaySpansPages
<1>1. PagingInv /\ SectionsInv => EachRowOnceUnlessDaySpansPages
  <2> SUFFICES ASSUME PagingInv, SectionsInv, NEW t \in Transaction
               PROVE  /\ \A a, b \in ShownAt(t) : a = b /\ a[1] = DayOf(t)
                      /\ ShownAt(t) # {} => t[1] \in received
                      /\ t[1] \in received /\ ~SpansPages(DayOf(t)) => ShownAt(t) # {}
    BY DEF EachRowOnceUnlessDaySpansPages
  <2>1. /\ t[1] \in Page
        /\ t[2] \in 1..Len(Pages[t[1] + 1])
        /\ t[2] \in DOMAIN Pages[t[1] + 1]
        /\ t = <<t[1], t[2]>>
    <3>1. PICK page \in Page : t \in {page} \X DOMAIN Pages[page + 1]
      BY DEF Transaction
    <3>2. page + 1 \in DOMAIN Pages
      BY <3>1, PagesAssumption DEF Page
    <3>3. DOMAIN Pages[page + 1] = 1..Len(Pages[page + 1])
      BY <3>2, PagesAssumption
    <3> QED BY <3>1, <3>3
  <2>2. \A d \in DOMAIN transactionsHistory : \E page \in received :
           /\ d \in DaysOf(page)
           /\ Collects(transactionsHistory[d], page, d, Len(Pages[page + 1]))
    BY RowsOfDayCollects DEF PagingInv, DaysInv, FlightsInv
  <2>3. ASSUME NEW a \in ShownAt(t)
        PROVE  /\ a[1] = DayOf(t) /\ t[1] \in received
               /\ a = <<a[1], a[2]>> /\ a[1] \in DOMAIN transactionsHistory
               /\ a[2] \in DOMAIN transactionsHistory[a[1]]
               /\ transactionsHistory[a[1]][a[2]] = t
    <3>1. /\ a = <<a[1], a[2]>> /\ a[1] \in DOMAIN transactionsHistory
          /\ a[2] \in DOMAIN transactionsHistory[a[1]]
          /\ transactionsHistory[a[1]][a[2]] = t
      BY DEF ShownAt
    <3>2. PICK page \in received :
             Collects(transactionsHistory[a[1]], page, a[1], Len(Pages[page + 1]))
      BY <2>2, <3>1
    <3>3. PICK k \in 1..Len(Pages[page + 1]) :
             t = <<page, k>> /\ DayOf(<<page, k>>) = a[1]
      BY <3>1, <3>2 DEF Collects
    <3> QED BY <3>1, <3>3
  <2>4. ASSUME NEW a \in ShownAt(t), NEW b \in ShownAt(t)
        PROVE  a = b
    <3>1. /\ a[1] = DayOf(t) /\ b[1] = DayOf(t)
          /\ a = <<a[1], a[2]>> /\ b = <<b[1], b[2]>>
          /\ DayOf(t) \in DOMAIN transactionsHistory
          /\ a[2] \in DOMAIN transactionsHistory[DayOf(t)]
          /\ b[2] \in DOMAIN transactionsHistory[DayOf(t)]
          /\ transactionsHistory[DayOf(t)][a[2]] = transactionsHistory[DayOf(t)][b[2]]
      BY <2>3
    <3>2. a[2] = b[2]
      BY <2>2, <3>1 DEF Collects
    <3> QED BY <3>1, <3>2
  <2>5. ASSUME t[1] \in received, ~SpansPages(DayOf(t))
        PROVE  ShownAt(t) # {}
    <3>1. DayOf(t) \in DaysOf(t[1])
      BY <2>1 DEF DayOf, DaysOf, Range
    <3>2. DayOf(t) \in DOMAIN transactionsHistory
      BY <2>5, <3>1 DEF SectionsInv
    <3>3. PICK page \in received :
             /\ DayOf(t) \in DaysOf(page)
             /\ Collects(transactionsHistory[DayOf(t)], page, DayOf(t), Len(Pages[page + 1]))
      BY <2>2, <3>2
    <3>4. page = t[1]
      BY <2>5, <3>1, <3>3 DEF SpansPages
    <3>5. PICK i \in DOMAIN transactionsHistory[DayOf(t)] :
             transactionsHistory[DayOf(t)][i] = <<t[1], t[2]>>
      <4>1. DayOf(<<t[1], t[2]>>) = DayOf(t)
        BY <2>1
      <4> QED BY <2>1, <3>3, <3>4, <4>1 DEF Collects
    <3>6. <<DayOf(t), i>> \in ShownAt(t)
      BY <2>1, <3>2, <3>5 DEF ShownAt
    <3> QED BY <3>6
  <2> QED BY <2>3, <2>4, <2>5
<1> QED BY <1>1, PagingInvariant, SectionsHold, PTL
=============================================================================
