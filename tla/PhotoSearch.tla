----------------------------- MODULE PhotoSearch -----------------------------
(***************************************************************************)
(* The search screen of UnsplashApp: UnsplashVC with its presenter and     *)
(* interactor.  Every change of the search text replaces the one pending   *)
(* work item; when it fires the photos are dropped and page 1 is asked     *)
(* for.  Displaying the last photo asks for the next page.  Answers come   *)
(* in any order, or not at all, and are appended to whatever is shown.     *)
(*                                                                         *)
(* All of this runs on the main thread.  A reloadData is followed by a     *)
(* layout pass, which ends the display of the old cells, but other blocks  *)
(* of the main queue may run before it.                                    *)
(*                                                                         *)
(* The half second of the work item is not modelled: it fires any time     *)
(* before the next change of the text.  A search text is the number of the *)
(* change that produced it, a photo the request that brought it.           *)
(***************************************************************************)
EXTENDS Integers, Sequences

CONSTANTS
    MaxChanges, \* bound on the changes of the search text
    MaxPage,    \* bound on pageCount
    PerPage,    \* photos of one answer, at most
    Screen      \* cells on the screen, at most

ASSUME BoundsAssumption ==
    {MaxChanges, MaxPage, PerPage, Screen} \subseteq Nat \ {0}

VARIABLES
    changes,        \* changes of the search text so far
    workItem,       \* the text of the pending work item, 0 if there is none
    searchText,     \* the presenter's searchText
    pageCount,
    photos,         \* for each photo of the collection, its request
    spinner,        \* the spinner turns and the collection is hidden
    requests,       \* all requests sent: their text and page
    flights,        \* those not answered yet
    visible,        \* the items whose cells are displayed
    layoutPending,  \* reloadData was called since the last layout
    crashed,        \* photos was indexed out of its range
    late,           \* requests out when the last search began (history variable)
    overtaken,      \* an answer came between the start of a search and the
                    \* layout (history variable)
    failed          \* a request of the current text failed (history variable)

screenVars == <<workItem, searchText, pageCount, photos, spinner>>
netVars == <<requests, flights>>
cellVars == <<visible, layoutPending, crashed>>
historyVars == <<late, overtaken, failed>>
vars == <<changes, screenVars, netVars, cellVars, historyVars>>

MaxRequests == MaxChanges * MaxPage
Id == 1..MaxRequests
Request == [text : 1..MaxChanges, page : 1..MaxPage]

TypeOK ==
    /\ changes \in 0..MaxChanges
    /\ workItem \in 0..MaxChanges
    /\ searchText \in 0..MaxChanges
    /\ pageCount \in 1..MaxPage
    /\ photos \in Seq(DOMAIN requests)
    /\ spinner \in BOOLEAN
    /\ requests \in Seq(Request)
    /\ flights \subseteq DOMAIN requests
    /\ visible \subseteq Nat
    /\ layoutPending \in BOOLEAN
    /\ crashed \in BOOLEAN
    /\ late \subseteq DOMAIN requests
    /\ overtaken \in BOOLEAN
    /\ failed \in BOOLEAN

Init ==
    /\ changes = 0
    /\ workItem = 0
    /\ searchText = 0
    /\ pageCount = 1
    /\ photos = <<>>
    /\ spinner = FALSE
    /\ requests = <<>>
    /\ flights = {}
    /\ visible = {}
    /\ layoutPending = FALSE
    /\ crashed = FALSE
    /\ late = {}
    /\ overtaken = FALSE
    /\ failed = FALSE

-----------------------------------------------------------------------------
\* searchBar(textDidChange:): a pending work item is cancelled.
TextDidChange ==
    /\ changes < MaxChanges
    /\ changes' = changes + 1
    /\ workItem' = changes + 1
    /\ spinner' = TRUE
    /\ UNCHANGED <<searchText, pageCount, photos, netVars, cellVars, historyVars>>

\* networkService.request
Send(text, page) ==
    /\ requests' = Append(requests, [text |-> text, page |-> page])
    /\ flights' = flights \cup {Len(requests) + 1}

\* Mutant: the photos of the search before are kept.
WorkItemFiresKeepsPhotos ==
    /\ workItem # 0
    /\ workItem' = 0
    /\ pageCount' = 1
    /\ layoutPending' = TRUE
    /\ searchText' = workItem
    /\ Send(workItem, 1)
    /\ late' = flights
    /\ overtaken' = FALSE
    /\ failed' = FALSE
    /\ UNCHANGED <<changes, photos, spinner, visible, crashed>>

\* The work item runs: presenter.getPhotos of page 1 stores the text.
WorkItemFires ==
    /\ workItem # 0
    /\ workItem' = 0
    /\ pageCount' = 1
    /\ photos' = <<>>
    /\ layoutPending' = TRUE
    /\ searchText' = workItem
    /\ Send(workItem, 1)
    /\ late' = flights
    /\ overtaken' = FALSE
    /\ failed' = FALSE
    /\ UNCHANGED <<changes, spinner, visible, crashed>>

\* Mutant: the spinner is stopped only by an answer with photos.
AnswerStopsIfPhotos(r) ==
    /\ r \in flights
    /\ flights' = flights \ {r}
    /\ \E n \in 0..PerPage :
          /\ photos' = photos \o [i \in 1..n |-> r]
          /\ spinner' = (spinner /\ n = 0)
    /\ layoutPending' = TRUE
    /\ overtaken' = (overtaken \/ layoutPending)
    /\ UNCHANGED <<changes, workItem, searchText, pageCount, requests,
                   visible, crashed, late, failed>>

\* setCollectionView: n photos are appended, whatever they were asked for.
Answer(r) ==
    /\ r \in flights
    /\ flights' = flights \ {r}
    /\ spinner' = FALSE
    /\ \E n \in 0..PerPage : photos' = photos \o [i \in 1..n |-> r]
    /\ layoutPending' = TRUE
    /\ overtaken' = (overtaken \/ layoutPending)
    /\ UNCHANGED <<changes, workItem, searchText, pageCount, requests,
                   visible, crashed, late, failed>>

\* The interactor drops an answer without photos.
AnswerFails(r) ==
    /\ r \in flights
    /\ flights' = flights \ {r}
    /\ failed' = (failed \/ requests[r].text = searchText)
    /\ UNCHANGED <<changes, screenVars, requests, cellVars, late, overtaken>>

-----------------------------------------------------------------------------
\* What may be on the screen: consecutive items.
Windows ==
    {{}} \cup {first..last : first \in 0..Len(photos) - 1,
                             last \in 0..Len(photos) - 1}

\* Mutant: pageCount is not advanced.
WillDisplaySamePage(shown) ==
    IF Len(photos) - 1 \in shown
    THEN /\ Len(requests) < MaxRequests
         /\ Send(searchText, pageCount)
         /\ UNCHANGED pageCount
    ELSE UNCHANGED <<pageCount, netVars>>

\* willDisplay for each item of `shown': the last photo asks for a page.
WillDisplay(shown) ==
    IF Len(photos) - 1 \in shown
    THEN /\ pageCount < MaxPage
         /\ pageCount' = pageCount + 1
         /\ Send(searchText, pageCount + 1)
    ELSE UNCHANGED <<pageCount, netVars>>

\* Mutant: the guard on an empty collection is dropped.
DidEndDisplayingUnguarded(gone) ==
    crashed' = (\E index \in gone : index >= Len(photos))

\* didEndDisplaying for each item of `gone' indexes photos if there are any.
DidEndDisplaying(gone) ==
    crashed' = (photos # <<>> /\ \E index \in gone : index >= Len(photos))

InScreen(window) ==
    /\ \A i, j \in window : i - j < Screen
    /\ window = {} => photos = <<>>

\* The layout after reloadData: all cells are replaced.
Layout ==
    /\ layoutPending
    /\ layoutPending' = FALSE
    /\ DidEndDisplaying(visible)
    /\ visible' \in {w \in Windows : InScreen(w)}
    /\ WillDisplay(visible')
    /\ UNCHANGED <<changes, workItem, searchText, photos, spinner, historyVars>>

\* The user scrolls; the collection is not hidden.
Scroll ==
    /\ ~layoutPending
    /\ ~spinner
    /\ visible' \in {w \in Windows : InScreen(w)} \ {visible}
    /\ DidEndDisplaying(visible \ visible')
    /\ WillDisplay(visible' \ visible)
    /\ UNCHANGED <<changes, workItem, searchText, photos, spinner,
                   layoutPending, historyVars>>

Next ==
    /\ ~crashed
    /\ \/ TextDidChange
       \/ WorkItemFires
       \/ \E r \in Id : Answer(r) \/ AnswerFails(r)
       \/ Layout
       \/ Scroll

Spec == Init /\ [][Next]_vars

\* The main queue runs its blocks and every request is answered or fails.
Fairness ==
    /\ WF_vars(~crashed /\ WorkItemFires)
    /\ \A r \in Id : WF_vars(~crashed /\ (Answer(r) \/ AnswerFails(r)))

FairSpec == Spec /\ Fairness

-----------------------------------------------------------------------------
(***************************************************************************)
(* Within a search no page is asked for twice, however the user scrolls,   *)
(* and none is asked for before the pages in front of it; a page that      *)
(* failed is therefore never asked for again.                              *)
(***************************************************************************)
EachPageAskedOnceInOrder ==
    \A i, j \in DOMAIN requests :
        i < j /\ requests[i].text = requests[j].text
            => requests[i].page < requests[j].page

(***************************************************************************)
(* Photos of an older search among those of the current one come from      *)
(* requests that were out when the current search began, from no other.    *)
(***************************************************************************)
ForeignPhotosOnlyByLateAnswer ==
    \A i \in DOMAIN photos :
        requests[photos[i]].text = searchText \/ photos[i] \in late

(***************************************************************************)
(* Ending the display of a cell indexes photos out of range in one case    *)
(* only: an answer was appended between the reset of photos by a new       *)
(* search and the layout pass.  (The guard tests that photos is not empty, *)
(* which covers the reset itself.)                                         *)
(***************************************************************************)
OutOfRangeOnlyIfOvertaken == crashed => overtaken

(***************************************************************************)
(* The spinner that a change of the text starts is stopped, unless the     *)
(* search it belongs to has failed or the app with it.                     *)
(***************************************************************************)
SpinnerStopsUnlessFailed == spinner ~> ~spinner \/ failed \/ crashed
=============================================================================
