--------------------------- MODULE UnsplashProofs ----------------------------
(***************************************************************************)
(* Proofs about UnsplashApp: PhotoSearch, the pages of a search, and       *)
(* PhotoImages, the images of the collection's cells.  The two models      *)
(* share no variable; each has its own part below.                         *)
(***************************************************************************)
EXTENDS PhotoSearch, PhotoImages, SequenceTheorems, TLAPS

-----------------------------------------------------------------------------
(***************************************************************************)
(* Proofs about PhotoSearch, for any number of searches, pages, photos of  *)
(* an answer and cells of the screen.                                      *)
(*                                                                         *)
(* The invariant has a part for each property.  TextsInv orders the texts: *)
(* what is pending is newer than the current search, which is newer than   *)
(* any other that was sent; with PagesInv a new request is beyond all of   *)
(* its search.  FlightsInv extends ForeignPhotosOnlyByLateAnswer to the    *)
(* requests that are still out.  CellsInv says which cells didEndDisplaying*)
(* may find beyond the photos.                                             *)
(***************************************************************************)

Sent == 1..Len(requests)

TextsInv ==
    /\ searchText <= changes
    /\ workItem <= changes
    /\ workItem # 0 => searchText < workItem
    /\ \A r \in Sent : requests[r].text <= searchText

PagesInv ==
    /\ \A r \in Sent : requests[r].text = searchText => requests[r].page <= pageCount
    /\ \A i, j \in Sent :
          i < j /\ requests[i].text = requests[j].text
              => requests[i].page < requests[j].page

FlightsInv ==
    /\ \A r \in flights : requests[r].text = searchText \/ r \in late
    /\ \A i \in 1..Len(photos) :
          requests[photos[i]].text = searchText \/ photos[i] \in late

CellsInv ==
    ~overtaken =>
        \/ photos = <<>> /\ layoutPending
        \/ \A index \in visible : index < Len(photos)

SearchInv ==
    /\ TypeOK
    /\ TextsInv
    /\ PagesInv
    /\ FlightsInv
    /\ CellsInv
    /\ crashed => overtaken

-----------------------------------------------------------------------------
\* The bounds, one by one.
LEMMA Bounds ==
    /\ MaxChanges \in Nat \ {0}
    /\ MaxPage \in Nat \ {0}
    /\ PerPage \in Nat \ {0}
    /\ Screen \in Nat \ {0}
BY BoundsAssumption

\* The requests are typed, and so are their numbers.
LEMMA RequestsTyped ==
    ASSUME TypeOK
    PROVE  /\ requests \in Seq(Request)
           /\ Len(requests) \in Nat
           /\ DOMAIN requests = Sent
           /\ \A r \in Sent : requests[r].text \in 1..MaxChanges
                              /\ requests[r].page \in 1..MaxPage
<1>1. requests \in Seq(Request)
  BY DEF TypeOK
<1>2. Len(requests) \in Nat /\ DOMAIN requests = Sent
  BY <1>1, LenProperties DEF Sent
<1>3. ASSUME NEW r \in Sent PROVE requests[r] \in Request
  BY <1>1, <1>3, ElementOfSeq DEF Sent
<1> QED BY <1>1, <1>2, <1>3 DEF Request

\* A request that is sent comes last, and the others keep their numbers.
LEMMA SendAppends ==
    ASSUME TypeOK, NEW text \in 1..MaxChanges, NEW page \in 1..MaxPage,
           Send(text, page)
    PROVE  /\ requests' \in Seq(Request)
           /\ Len(requests') = Len(requests) + 1
           /\ Sent' = Sent \cup {Len(requests) + 1}
           /\ \A r \in Sent : requests'[r] = requests[r]
           /\ requests'[Len(requests) + 1] = [text |-> text, page |-> page]
           /\ flights' = flights \cup {Len(requests) + 1}
<1>1. requests \in Seq(Request) /\ Len(requests) \in Nat
  BY RequestsTyped
<1>2. [text |-> text, page |-> page] \in Request
  BY DEF Request
<1>3. requests' = Append(requests, [text |-> text, page |-> page])
  BY DEF Send
<1>4. requests' \in Seq(Request) /\ Len(requests') = Len(requests) + 1
  BY <1>1, <1>2, <1>3
<1>5. Sent' = Sent \cup {Len(requests) + 1}
  BY <1>1, <1>4 DEF Sent
<1>6. \A r \in Sent : requests'[r] = requests[r]
  BY <1>1, <1>2, <1>3 DEF Sent
<1>7. requests'[Len(requests) + 1] = [text |-> text, page |-> page]
  BY <1>1, <1>2, <1>3
<1> QED BY <1>4, <1>5, <1>6, <1>7 DEF Send

\* n photos of one request are appended to those of the collection.
LEMMA PhotosAppended ==
    ASSUME NEW S, photos \in Seq(S), NEW r \in S, NEW n \in Nat,
           photos' = photos \o [i \in 1..n |-> r]
    PROVE  /\ photos' \in Seq(S)
           /\ Len(photos') = Len(photos) + n
           /\ \A i \in 1..Len(photos') :
                 \/ i \in 1..Len(photos) /\ photos'[i] = photos[i]
                 \/ photos'[i] = r
<1> DEFINE more == [i \in 1..n |-> r]
<1>1. more \in Seq(S) /\ Len(more) = n
  OBVIOUS
<1>2. \A i \in 1..n : more[i] = r
  OBVIOUS
<1> HIDE DEF more
<1>3. /\ photos \o more \in Seq(S)
      /\ Len(photos \o more) = Len(photos) + Len(more)
      /\ \A i \in 1..Len(photos) + Len(more) :
            (photos \o more)[i] = IF i <= Len(photos) THEN photos[i]
                                  ELSE more[i - Len(photos)]
  BY <1>1, ConcatProperties
<1>4. photos' = photos \o more
  BY DEF more
<1>5. Len(photos) \in Nat
  BY LenProperties
<1>6. ASSUME NEW i \in 1..Len(photos')
      PROVE  \/ i \in 1..Len(photos) /\ photos'[i] = photos[i]
             \/ photos'[i] = r
  <2>1. CASE i <= Len(photos)
    BY <1>1, <1>3, <1>4, <1>5, <2>1
  <2>2. CASE i > Len(photos)
    <3>1. i - Len(photos) \in 1..n
      BY <1>1, <1>3, <1>4, <1>5, <2>2
    <3>2. photos'[i] = more[i - Len(photos)]
      BY <1>1, <1>3, <1>4, <1>5, <2>2
    <3> QED BY <1>2, <3>1, <3>2
  <2> QED BY <1>1, <1>3, <1>4, <1>5, <2>1, <2>2
<1> QED BY <1>1, <1>3, <1>4, <1>6

\* A sequence over a set is one over any larger set.
LEMMA SeqOverMore ==
    ASSUME NEW S, NEW T, S \subseteq T, NEW s \in Seq(S)
    PROVE  s \in Seq(T)
BY SeqDef

-----------------------------------------------------------------------------
\* The invariant holds initially.
LEMMA InitHolds == Init => SearchInv
<1> SUFFICES ASSUME Init PROVE SearchInv
  OBVIOUS
<1>1. requests = <<>> /\ photos = <<>> /\ flights = {} /\ late = {} /\ visible = {}
  BY DEF Init
<1>2. Len(requests) = 0 /\ Len(photos) = 0 /\ DOMAIN requests = {}
  BY <1>1
<1>3. TypeOK
  <2>1. requests \in Seq(Request) /\ photos \in Seq(DOMAIN requests)
    BY <1>1
  <2>2. /\ changes \in 0..MaxChanges
        /\ workItem \in 0..MaxChanges
        /\ searchText \in 0..MaxChanges
        /\ pageCount \in 1..MaxPage
    BY Bounds DEF Init
  <2>3. spinner \in BOOLEAN /\ layoutPending \in BOOLEAN /\ crashed \in BOOLEAN
        /\ overtaken \in BOOLEAN /\ failed \in BOOLEAN
    BY DEF Init
  <2> QED BY <1>1, <2>1, <2>2, <2>3 DEF TypeOK
<1>4. TextsInv
  BY <1>2 DEF Init, TextsInv, Sent
<1>5. PagesInv
  BY <1>2 DEF PagesInv, Sent
<1>6. FlightsInv
  BY <1>1, <1>2 DEF FlightsInv
<1>7. CellsInv
  BY <1>1 DEF CellsInv
<1>8. ~crashed
  BY DEF Init
<1> QED BY <1>3, <1>4, <1>5, <1>6, <1>7, <1>8 DEF SearchInv

\* A new search text changes no part of the invariant but the pending text.
LEMMA TextDidChangeStep ==
    ASSUME SearchInv, TextDidChange
    PROVE  SearchInv'
<1>1. TypeOK'
  BY Bounds DEF SearchInv, TypeOK, TextDidChange, netVars, cellVars, historyVars
<1>2. TextsInv'
  BY Bounds DEF SearchInv, TypeOK, TextsInv, Sent, TextDidChange, netVars
<1>3. PagesInv' /\ FlightsInv' /\ CellsInv' /\ (crashed => overtaken)'
  BY DEF SearchInv, PagesInv, FlightsInv, CellsInv, Sent, TextDidChange,
         netVars, cellVars, historyVars
<1> QED BY <1>1, <1>2, <1>3 DEF SearchInv

\* A new search: its request has a text newer than any other, and page 1.
LEMMA WorkItemFiresStep ==
    ASSUME SearchInv, WorkItemFires, ~crashed
    PROVE  SearchInv'
<1>1. workItem \in 1..MaxChanges /\ Send(workItem, 1) /\ 1 \in 1..MaxPage
  BY Bounds DEF SearchInv, TypeOK, WorkItemFires
<1>2. /\ requests' \in Seq(Request)
      /\ Len(requests') = Len(requests) + 1
      /\ Sent' = Sent \cup {Len(requests) + 1}
      /\ \A r \in Sent : requests'[r] = requests[r]
      /\ requests'[Len(requests) + 1] = [text |-> workItem, page |-> 1]
      /\ flights' = flights \cup {Len(requests) + 1}
  BY <1>1, SendAppends DEF SearchInv
<1>3. /\ Len(requests) \in Nat
      /\ DOMAIN requests = Sent
      /\ DOMAIN requests' = Sent'
      /\ \A r \in Sent : requests[r].text \in 1..MaxChanges
                          /\ requests[r].page \in 1..MaxPage
  BY <1>2, RequestsTyped, LenProperties DEF SearchInv, Sent
<1>4. photos' = <<>> /\ Len(photos') = 0 /\ late' = flights
  BY DEF WorkItemFires
<1>5. searchText < workItem /\ \A r \in Sent : requests[r].text < workItem
  BY <1>3, <1>1, Bounds DEF SearchInv, TypeOK, TextsInv
<1>6. TypeOK'
  <2>1. photos' \in Seq(DOMAIN requests')
    BY <1>4
  <2>2. flights' \subseteq DOMAIN requests' /\ late' \subseteq DOMAIN requests'
    BY <1>2, <1>3, <1>4 DEF SearchInv, TypeOK
  <2>3. /\ changes' \in 0..MaxChanges
        /\ workItem' \in 0..MaxChanges
        /\ searchText' \in 0..MaxChanges
        /\ pageCount' \in 1..MaxPage
    BY <1>1, Bounds DEF SearchInv, TypeOK, WorkItemFires
  <2>4. spinner' \in BOOLEAN /\ visible' \subseteq Nat /\ layoutPending' \in BOOLEAN
        /\ crashed' \in BOOLEAN /\ overtaken' \in BOOLEAN /\ failed' \in BOOLEAN
    BY DEF SearchInv, TypeOK, WorkItemFires
  <2> QED BY <1>2, <2>1, <2>2, <2>3, <2>4 DEF TypeOK
<1>7. TextsInv'
  <2>1. searchText' = workItem /\ workItem' = 0 /\ changes' = changes
    BY DEF WorkItemFires
  <2>2. workItem <= changes /\ 0 <= changes
    BY DEF SearchInv, TextsInv, TypeOK
  <2>3. \A r \in Sent' : requests'[r].text <= workItem
    BY <1>1, <1>2, <1>3, <1>5
  <2> QED BY <2>1, <2>2, <2>3 DEF TextsInv
<1>8. PagesInv'
  <2>1. searchText' = workItem /\ pageCount' = 1
    BY DEF WorkItemFires
  <2>2. \A r \in Sent' : requests'[r].text = workItem => r = Len(requests) + 1
    BY <1>1, <1>2, <1>3, <1>5
  <2>3. \A r \in Sent' : requests'[r].text = workItem => requests'[r].page <= 1
    BY <1>2, <2>2
  <2>4. ASSUME NEW i \in Sent', NEW j \in Sent', i < j,
               requests'[i].text = requests'[j].text
        PROVE  requests'[i].page < requests'[j].page
    <3>1. i # Len(requests) + 1 /\ i \in Sent
      BY <1>2, <1>3, <2>4 DEF Sent
    <3>2. requests'[i].text # workItem
      BY <2>2, <3>1
    <3>3. j \in Sent
      BY <1>2, <2>4, <3>2
    <3> QED BY <1>2, <2>4, <3>1, <3>3 DEF SearchInv, PagesInv
  <2> QED BY <2>1, <2>3, <2>4 DEF PagesInv
<1>9. FlightsInv'
  <2>1. searchText' = workItem
    BY DEF WorkItemFires
  <2>2. \A r \in flights' : requests'[r].text = searchText' \/ r \in late'
    BY <1>2, <1>4, <2>1
  <2> QED BY <1>4, <2>2 DEF FlightsInv
<1>10. CellsInv'
  BY <1>4 DEF WorkItemFires, CellsInv
<1>11. ~crashed'
  BY DEF WorkItemFires
<1> QED BY <1>6, <1>7, <1>8, <1>9, <1>10, <1>11 DEF SearchInv

\* An answer: its request is one of flights, so its photos are allowed.
LEMMA AnswerStep ==
    ASSUME SearchInv, NEW r, Answer(r), ~crashed
    PROVE  SearchInv'
<1>1. r \in Sent /\ DOMAIN requests = Sent /\ photos \in Seq(Sent)
  BY RequestsTyped DEF SearchInv, TypeOK, Answer
<1>2. /\ photos' \in Seq(Sent)
      /\ Len(photos) \in Nat
      /\ Len(photos') >= Len(photos)
      /\ \A i \in 1..Len(photos') :
            \/ i \in 1..Len(photos) /\ photos'[i] = photos[i]
            \/ photos'[i] = r
  <2>1. PICK n \in 0..PerPage : photos' = photos \o [i \in 1..n |-> r]
    BY DEF Answer
  <2>2. n \in Nat /\ Len(photos) \in Nat
    BY <1>1, <2>1, Bounds, LenProperties
  <2> QED BY <1>1, <2>1, <2>2, PhotosAppended
<1>3. requests' = requests /\ searchText' = searchText /\ late' = late
      /\ flights' = flights \ {r} /\ Sent' = Sent
  BY DEF Answer, Sent
<1>4. TypeOK'
  <2>1. photos' \in Seq(DOMAIN requests') /\ requests' \in Seq(Request)
        /\ flights' \subseteq DOMAIN requests' /\ late' \subseteq DOMAIN requests'
    BY <1>1, <1>2, <1>3 DEF SearchInv, TypeOK
  <2>2. /\ changes' \in 0..MaxChanges
        /\ workItem' \in 0..MaxChanges
        /\ searchText' \in 0..MaxChanges
        /\ pageCount' \in 1..MaxPage
    BY DEF SearchInv, TypeOK, Answer
  <2>3. spinner' \in BOOLEAN /\ visible' \subseteq Nat /\ layoutPending' \in BOOLEAN
        /\ crashed' \in BOOLEAN /\ overtaken' \in BOOLEAN /\ failed' \in BOOLEAN
    BY DEF SearchInv, TypeOK, Answer
  <2> QED BY <2>1, <2>2, <2>3 DEF TypeOK
<1>5. TextsInv' /\ PagesInv'
  BY <1>3 DEF SearchInv, TextsInv, PagesInv, Answer
<1>6. FlightsInv'
  <2>1. requests[r].text = searchText \/ r \in late
    BY DEF SearchInv, FlightsInv, Answer
  <2> QED BY <1>2, <1>3, <2>1 DEF SearchInv, FlightsInv
<1>7. CellsInv'
  <2> SUFFICES ASSUME ~overtaken' PROVE \A index \in visible' : index < Len(photos')
    BY DEF CellsInv
  <2>1. ~overtaken /\ ~layoutPending /\ visible' = visible
    BY DEF Answer
  <2>2. \A index \in visible : index \in Nat /\ index < Len(photos)
    BY <2>1 DEF SearchInv, TypeOK, CellsInv
  <2>3. Len(photos') \in Nat
    BY <1>2, LenProperties
  <2> QED BY <1>2, <2>1, <2>2, <2>3
<1>8. ~crashed'
  BY DEF Answer
<1> QED BY <1>4, <1>5, <1>6, <1>7, <1>8 DEF SearchInv

\* A request that fails is only taken off flights.
LEMMA AnswerFailsStep ==
    ASSUME SearchInv, NEW r, AnswerFails(r)
    PROVE  SearchInv'
<1>1. failed' \in BOOLEAN
  BY DEF SearchInv, TypeOK, AnswerFails
<1>2. TypeOK'
  BY <1>1 DEF SearchInv, TypeOK, AnswerFails, screenVars, cellVars
<1>3. TextsInv' /\ PagesInv' /\ FlightsInv' /\ CellsInv' /\ (crashed => overtaken)'
  BY DEF SearchInv, TextsInv, PagesInv, FlightsInv, CellsInv, Sent, AnswerFails,
         screenVars, cellVars
<1> QED BY <1>2, <1>3 DEF SearchInv

-----------------------------------------------------------------------------
\* Only items of the collection can be on the screen.
LEMMA WindowsInRange ==
    ASSUME TypeOK, NEW w \in Windows
    PROVE  w \subseteq 0..Len(photos) - 1
<1>1. Len(photos) \in Nat
  BY LenProperties DEF TypeOK
<1> QED BY <1>1 DEF Windows

\* Displaying items keeps what the invariant says of requests: if the last
\* photo is among them there is a search, and its next page is asked for.
LEMMA WillDisplayKeeps ==
    ASSUME SearchInv, NEW shown, shown \subseteq 0..Len(photos) - 1,
           WillDisplay(shown),
           UNCHANGED <<changes, workItem, searchText, photos, late>>
    PROVE  /\ requests' \in Seq(Request)
           /\ DOMAIN requests \subseteq DOMAIN requests'
           /\ pageCount' \in 1..MaxPage
           /\ flights' \subseteq DOMAIN requests'
           /\ TextsInv'
           /\ PagesInv'
           /\ FlightsInv'
<1>1. /\ Len(requests) \in Nat
      /\ DOMAIN requests = Sent
      /\ \A r \in Sent : requests[r].text \in 1..MaxChanges
                          /\ requests[r].page \in 1..MaxPage
  BY RequestsTyped DEF SearchInv
<1>2. photos \in Seq(Sent) /\ Len(photos) \in Nat
  BY <1>1, LenProperties DEF SearchInv, TypeOK
<1>3. CASE Len(photos) - 1 \in shown
  <2>1. photos[1] \in Sent
    BY <1>2, <1>3, ElementOfSeq
  <2>2. searchText \in 1..MaxChanges
    <3>1. requests[photos[1]].text <= searchText
      BY <2>1 DEF SearchInv, TextsInv
    <3> QED BY <1>1, <2>1, <3>1, Bounds DEF SearchInv, TypeOK
  <2>3. /\ Send(searchText, pageCount + 1)
        /\ pageCount + 1 \in 1..MaxPage
        /\ pageCount' = pageCount + 1
    BY <1>3, Bounds DEF WillDisplay, SearchInv, TypeOK
  <2>4. /\ requests' \in Seq(Request)
        /\ Len(requests') = Len(requests) + 1
        /\ Sent' = Sent \cup {Len(requests) + 1}
        /\ \A r \in Sent : requests'[r] = requests[r]
        /\ requests'[Len(requests) + 1] = [text |-> searchText, page |-> pageCount + 1]
        /\ flights' = flights \cup {Len(requests) + 1}
    BY <2>2, <2>3, SendAppends DEF SearchInv
  <2>5. DOMAIN requests' = Sent'
    BY <2>4, LenProperties DEF Sent
  <2>6. TextsInv'
    <3>1. \A r \in Sent' : requests'[r].text <= searchText
      BY <1>1, <2>2, <2>4 DEF SearchInv, TextsInv
    <3> QED BY <3>1 DEF SearchInv, TextsInv
  <2>7. PagesInv'
    <3>1. ASSUME NEW r \in Sent', requests'[r].text = searchText
          PROVE  requests'[r].page <= pageCount + 1
      <4>0. pageCount \in Nat
        BY <1>1, Bounds DEF SearchInv, TypeOK
      <4>1. CASE r = Len(requests) + 1
        BY <2>4, <4>0, <4>1
      <4>2. CASE r \in Sent
        <5>1. requests[r].page <= pageCount
          BY <2>4, <3>1, <4>2 DEF SearchInv, PagesInv
        <5>2. requests[r].page \in Nat
          BY <1>1, <4>2, Bounds
        <5> QED BY <2>4, <4>0, <4>2, <5>1, <5>2
      <4> QED BY <2>4, <4>1, <4>2
    <3>2. ASSUME NEW i \in Sent', NEW j \in Sent', i < j,
                 requests'[i].text = requests'[j].text
          PROVE  requests'[i].page < requests'[j].page
      <4>1. i # Len(requests) + 1 /\ i \in Sent
        BY <1>1, <2>4, <3>2 DEF Sent
      <4>2. CASE j = Len(requests) + 1
        <5>1. requests[i].text = searchText /\ requests[i].page <= pageCount
          BY <2>4, <3>2, <4>1, <4>2 DEF SearchInv, PagesInv
        <5> QED BY <1>1, <2>3, <2>4, <4>1, <4>2, <5>1, Bounds DEF SearchInv, TypeOK
      <4>3. CASE j \in Sent
        BY <2>4, <3>2, <4>1, <4>3 DEF SearchInv, PagesInv
      <4> QED BY <2>4, <4>2, <4>3
    <3> QED BY <2>3, <3>1, <3>2 DEF PagesInv
  <2>8. FlightsInv'
    <3>1. \A r \in flights' : requests'[r].text = searchText \/ r \in late
      BY <1>1, <2>4 DEF SearchInv, TypeOK, FlightsInv
    <3>2. \A i \in 1..Len(photos) : photos[i] \in Sent
      BY <1>2, ElementOfSeq
    <3> QED BY <2>4, <3>1, <3>2 DEF SearchInv, FlightsInv
  <2> QED BY <1>1, <2>3, <2>4, <2>5, <2>6, <2>7, <2>8 DEF SearchInv, TypeOK
<1>4. CASE Len(photos) - 1 \notin shown
  <2>1. UNCHANGED <<pageCount, requests, flights>>
    BY <1>4 DEF WillDisplay, netVars
  <2>2. TextsInv' /\ PagesInv' /\ FlightsInv'
    BY <2>1 DEF SearchInv, TextsInv, PagesInv, FlightsInv, Sent
  <2> QED BY <2>1, <2>2 DEF SearchInv, TypeOK
<1> QED BY <1>3, <1>4

\* A change of the screen: cells that were in range end their display, and
\* those that replace them are in range.
LEMMA ScreenStep ==
    ASSUME SearchInv, NEW gone, gone \subseteq visible, NEW shown,
           shown \subseteq visible',
           visible' \in Windows, DidEndDisplaying(gone), WillDisplay(shown),
           ~crashed, layoutPending' \in BOOLEAN,
           UNCHANGED <<changes, workItem, searchText, photos, spinner, historyVars>>
    PROVE  SearchInv'
<1>1. visible' \subseteq 0..Len(photos) - 1 /\ Len(photos) \in Nat
  BY WindowsInRange, LenProperties DEF SearchInv, TypeOK
<1>2. UNCHANGED <<late, overtaken, failed>>
  BY DEF historyVars
<1>3. /\ requests' \in Seq(Request)
      /\ DOMAIN requests \subseteq DOMAIN requests'
      /\ pageCount' \in 1..MaxPage
      /\ flights' \subseteq DOMAIN requests'
      /\ TextsInv' /\ PagesInv' /\ FlightsInv'
  BY <1>1, <1>2, WillDisplayKeeps
<1>4. TypeOK'
  <2>1. photos' \in Seq(DOMAIN requests')
    BY <1>3, SeqOverMore DEF SearchInv, TypeOK
  <2>2. late' \subseteq DOMAIN requests' /\ visible' \subseteq Nat
    BY <1>1, <1>2, <1>3 DEF SearchInv, TypeOK
  <2>3. /\ changes' \in 0..MaxChanges
        /\ workItem' \in 0..MaxChanges
        /\ searchText' \in 0..MaxChanges
    BY DEF SearchInv, TypeOK
  <2>4. spinner' \in BOOLEAN /\ overtaken' \in BOOLEAN /\ failed' \in BOOLEAN
    BY <1>2 DEF SearchInv, TypeOK
  <2>5. crashed' \in BOOLEAN
    BY DEF DidEndDisplaying
  <2> QED BY <1>3, <2>1, <2>2, <2>3, <2>4, <2>5 DEF TypeOK
<1>5. CellsInv'
  BY <1>1 DEF CellsInv
<1>6. ASSUME crashed' PROVE overtaken'
  <2>1. photos # <<>> /\ \E index \in visible : index >= Len(photos)
    BY <1>6 DEF DidEndDisplaying
  <2>2. overtaken
    BY <1>1, <2>1 DEF SearchInv, TypeOK, CellsInv
  <2> QED BY <1>2, <2>2
<1> QED BY <1>3, <1>4, <1>5, <1>6 DEF SearchInv

\* Every step keeps the invariant.
LEMMA StepHolds == SearchInv /\ [Next]_vars => SearchInv'
<1> SUFFICES ASSUME SearchInv, [Next]_vars PROVE SearchInv'
  OBVIOUS
<1>1. CASE TextDidChange
  BY <1>1, TextDidChangeStep
<1>2. CASE WorkItemFires /\ ~crashed
  BY <1>2, WorkItemFiresStep
<1>3. ASSUME NEW r \in Id, Answer(r), ~crashed PROVE SearchInv'
  BY <1>3, AnswerStep
<1>4. ASSUME NEW r \in Id, AnswerFails(r) PROVE SearchInv'
  BY <1>4, AnswerFailsStep
<1>5. CASE Layout /\ ~crashed
  <2>1. /\ visible' \in Windows
        /\ DidEndDisplaying(visible)
        /\ WillDisplay(visible')
        /\ layoutPending' \in BOOLEAN
        /\ UNCHANGED <<changes, workItem, searchText, photos, spinner, historyVars>>
    BY <1>5 DEF Layout
  <2> QED BY <1>5, <2>1, ScreenStep
<1>6. CASE Scroll /\ ~crashed
  <2>1. /\ visible' \in Windows
        /\ DidEndDisplaying(visible \ visible')
        /\ WillDisplay(visible' \ visible)
        /\ layoutPending' \in BOOLEAN
        /\ UNCHANGED <<changes, workItem, searchText, photos, spinner, historyVars>>
    BY <1>6 DEF Scroll, SearchInv, TypeOK
  <2>2. visible \ visible' \subseteq visible /\ visible' \ visible \subseteq visible'
    OBVIOUS
  <2> QED BY <1>6, <2>1, <2>2, ScreenStep
<1>7. CASE UNCHANGED vars
  BY <1>7 DEF vars, screenVars, netVars, cellVars, historyVars, SearchInv, TypeOK,
              TextsInv, PagesInv, FlightsInv, CellsInv, Sent
<1> QED BY <1>1, <1>2, <1>3, <1>4, <1>5, <1>6, <1>7 DEF Next

\* The inductive invariant of the search screen.
THEOREM Invariant == Spec => []SearchInv
BY InitHolds, StepHolds, PTL DEF Spec

-----------------------------------------------------------------------------
\* Every variable of the search screen keeps its type.
THEOREM TypeCorrect == Spec => []TypeOK
<1>1. SearchInv => TypeOK
  BY DEF SearchInv
<1> QED BY <1>1, Invariant, PTL

\* Within a search each page is asked for once and after those before it,
\* however often and however far the user scrolls (UnsplashVC.swift:239).
THEOREM PagesAskedInOrder == Spec => []EachPageAskedOnceInOrder
<1>1. SearchInv => EachPageAskedOnceInOrder
  BY RequestsTyped DEF SearchInv, PagesInv, EachPageAskedOnceInOrder
<1> QED BY <1>1, Invariant, PTL

\* Photos of another search come from requests that were out when the
\* current one began, and from no other (UnsplashVC.swift:282).
THEOREM ForeignPhotosAreLate == Spec => []ForeignPhotosOnlyByLateAnswer
<1>1. SearchInv => ForeignPhotosOnlyByLateAnswer
  BY LenProperties DEF SearchInv, TypeOK, FlightsInv, ForeignPhotosOnlyByLateAnswer
<1> QED BY <1>1, Invariant, PTL

\* The collection is indexed out of its range only after an answer came
\* between a reset and its layout (UnsplashVC.swift:272).
THEOREM OutOfRangeIsOvertaken == Spec => []OutOfRangeOnlyIfOvertaken
<1>1. SearchInv => OutOfRangeOnlyIfOvertaken
  BY DEF SearchInv, OutOfRangeOnlyIfOvertaken
<1> QED BY <1>1, Invariant, PTL

-----------------------------------------------------------------------------

(***************************************************************************)
(* Proofs about PhotoImages, for any photos, cells, lists and number of    *)
(* displays.                                                               *)
(*                                                                         *)
(* Displays are numbered, so that what is under way is told apart from     *)
(* what the cell is displayed for (TurnsInv).  A display under way is for  *)
(* a cell of the pool, and what it has found stays cached (AskingInv);     *)
(* that what it has not found is still missing is never needed.  ListInv   *)
(* says what a cell that no reloadData has overtaken may count on: its     *)
(* index is one of the list, and each image of its photo is cached or was  *)
(* asked for by it.                                                        *)
(* ProvidersInv ties the cache and the sets to the providers: one that may *)
(* still be cancelled is in a set unless it has a twin.  DeliveryInv       *)
(* follows the providers, blocks and images that outlive their display     *)
(* and carries the excuse of each, and CellInv follows the regular image   *)
(* of a cell from its provider to its block, which is behind a cached      *)
(* thumb's.                                                                *)
(***************************************************************************)
OnScreen(c) == item[c] # 0

\* The display of a cell has a number of its own, and what was asked for by
\* it is for that cell, each URL once.
TurnsInv ==
    /\ \A c \in Cell : IF OnScreen(c) THEN turn[c] \in 1..displays
                       ELSE turn[c] = 0 /\ image[c] = NoImage
    /\ \A c, d \in Cell : OnScreen(c) /\ turn[c] = turn[d] => c = d
    /\ \A l \in DOMAIN loads :
          /\ loads[l].turn <= displays
          /\ \A c \in Cell : OnScreen(c) /\ turn[c] = loads[l].turn => loads[l].cell = c
          /\ \A k \in DOMAIN loads :
                loads[k].url = loads[l].url /\ loads[k].turn = loads[l].turn => k = l
    /\ \A k \in DOMAIN mainQueue :
          /\ mainQueue[k].turn <= displays
          /\ \A c \in Cell :
                OnScreen(c) /\ turn[c] = mainQueue[k].turn => mainQueue[k].cell = c

\* Those that cancel() stops.
Live == {"loading", "loaded"}

\* What a cell on the screen has asked for, unless the list was reset.
ListInv ==
    /\ reloaded = {} \/ reloaded = {c \in Cell : OnScreen(c)}
    /\ \A c \in Cell : OnScreen(c) /\ c \notin reloaded =>
          /\ item[c] \in DOMAIN photoList
          /\ \A l \in DOMAIN loads :
                loads[l].turn = turn[c] => loads[l].url[1] = photoList[item[c]]
          /\ \A kind \in Kind :
                \/ <<photoList[item[c]], kind>> \in imageCashe
                \/ \E l \in DOMAIN loads : /\ loads[l].turn = turn[c]
                                           /\ loads[l].url = <<photoList[item[c]], kind>>

\* A cached image was delivered by a provider; a live provider is in a set,
\* where a deletion finds it, or another one for its URL kept it out.
ProvidersInv ==
    /\ \A url \in imageCashe : \E l \in DOMAIN loads :
          loads[l].url = url /\ loads[l].phase = "delivered"
    /\ \A l \in DOMAIN loads :
          loads[l].phase \in Live
              => l \in providers \/ HasTwin(loads[l].url, loads[l].turn)

\* Why the image of url may outlive display t.
Excused(url, t) ==
    \/ <<t, url[2]>> \in overdue
    \/ t \in replaced
    \/ HasTwin(url, t)

\* Nothing outlives its display without an excuse.
DeliveryInv ==
    /\ \A l \in DOMAIN loads :
          /\ loads[l].phase \in Live \cup {"output"}
          /\ turn[loads[l].cell] # loads[l].turn
          => Excused(loads[l].url, loads[l].turn)
    /\ \A k \in DOMAIN mainQueue :
          turn[mainQueue[k].cell] # mainQueue[k].turn
          => Excused(mainQueue[k].url, mainQueue[k].turn)
    /\ \A c \in Cell :
          OnScreen(c) /\ image[c] # NoImage /\ image[c][2] # turn[c]
          => Excused(image[c][1], image[c][2])

\* The regular image of cell c has not come: its provider is not through, or
\* a block behind the j-th has it.
RegularDue(c, j) ==
    \/ \E l \in Created(turn[c], "regular") : loads[l].phase # "delivered"
    \/ \E k \in DOMAIN mainQueue : /\ k > j
                                   /\ mainQueue[k].turn = turn[c]
                                   /\ mainQueue[k].url[2] = "regular"

\* A cell without an image, or with a cached thumb, has its regular image due.
CellInv ==
    \A c \in Cell : OnScreen(c) =>
        /\ image[c] = NoImage => RegularDue(c, 0)
        /\ Created(turn[c], "thumb") = {} =>
              /\ image[c] # NoImage /\ image[c][2] = turn[c] /\ image[c][1][2] = "thumb"
                    => RegularDue(c, 0)
              /\ \A j \in DOMAIN mainQueue :
                    mainQueue[j].turn = turn[c] /\ mainQueue[j].url[2] = "thumb"
                        => RegularDue(c, j)

\* A call of willDisplay is for a cell of the pool and an index of the list;
\* what it found is still in the cache.
AskingInv ==
    asking # <<>> =>
        /\ displays < MaxDisplays
        /\ reloaded = {}
        /\ ~OnScreen(asking[1].cell)
        /\ asking[1].item \in DOMAIN photoList
        /\ asking[1].found \subseteq imageCashe

ImagesInv ==
    /\ ImagesTypeOK
    /\ AskingInv
    /\ TurnsInv
    /\ ListInv
    /\ ProvidersInv
    /\ DeliveryInv
    /\ CurrentLoadCancelledOnlyByTwin
    /\ CellInv

-----------------------------------------------------------------------------
\* The URLs of a photo in a set: in order, each once.
LEMMA SelectedUrls ==
    ASSUME NEW photo \in Photo, NEW S
    PROVE  /\ UrlsIn(photo, S) \in Seq(Url)
           /\ \A k \in DOMAIN UrlsIn(photo, S) :
                 UrlsIn(photo, S)[k] \in S /\ UrlsIn(photo, S)[k][1] = photo
           /\ \A j, k \in DOMAIN UrlsIn(photo, S) :
                 UrlsIn(photo, S)[j] = UrlsIn(photo, S)[k] => j = k
           /\ \A url \in Url : url \in S /\ url[1] = photo =>
                 \E k \in DOMAIN UrlsIn(photo, S) : UrlsIn(photo, S)[k] = url
           /\ \A j \in DOMAIN UrlsIn(photo, S) :
                 UrlsIn(photo, S)[j][2] = "thumb" /\ <<photo, "regular">> \in S =>
                     \E k \in DOMAIN UrlsIn(photo, S) :
                        k > j /\ UrlsIn(photo, S)[k] = <<photo, "regular">>
<1> DEFINE t == <<photo, "thumb">>
           r == <<photo, "regular">>
           s == UrlsIn(photo, S)
<1>1. t \in Url /\ r \in Url /\ t # r /\ t[1] = photo /\ r[1] = photo
      /\ t[2] = "thumb" /\ r[2] = "regular"
      /\ \A url \in Url : url[1] = photo => url = t \/ url = r
  BY DEF Url, Kind
<1>2. s = (IF t \in S THEN <<t>> ELSE <<>>) \o (IF r \in S THEN <<r>> ELSE <<>>)
  BY DEF UrlsIn, UrlsOf
<1> HIDE DEF t, r, s
<1>3. CASE t \in S /\ r \in S
  <2>1. s = <<t, r>>
    <3>1. s = <<t>> \o <<r>>
      BY <1>2, <1>3
    <3>2. /\ <<t>> \in Seq(Url) /\ <<r>> \in Seq(Url) /\ <<t, r>> \in Seq(Url)
          /\ Len(<<t>>) = 1 /\ Len(<<r>>) = 1 /\ Len(<<t, r>>) = 2
      BY <1>1
    <3>3. /\ s \in Seq(Url) /\ Len(s) = 2
          /\ \A i \in 1..2 : s[i] = IF i <= 1 THEN <<t>>[i] ELSE <<r>>[i - 1]
      BY <3>1, <3>2, ConcatProperties
    <3>4. \A i \in 1..2 : s[i] = <<t, r>>[i]
      BY <3>3
    <3> QED BY <3>2, <3>3, <3>4, SeqEqual
  <2> QED BY <1>1, <1>3, <2>1 DEF s, r
<1>4. CASE t \in S /\ r \notin S
  <2>1. s = <<t>>
    BY <1>2, <1>4
  <2> QED BY <1>1, <1>4, <2>1 DEF s, r
<1>5. CASE t \notin S /\ r \in S
  <2>1. s = <<r>>
    BY <1>2, <1>5
  <2> QED BY <1>1, <1>5, <2>1 DEF s, r
<1>6. CASE t \notin S /\ r \notin S
  <2>1. s = <<>>
    BY <1>2, <1>6
  <2> QED BY <1>1, <1>6, <2>1 DEF s, r
<1> QED BY <1>3, <1>4, <1>5, <1>6

\* A sequence, as a function.
LEMMA SeqOfFunction ==
    ASSUME NEW R, NEW n \in Nat, NEW s \in [1..n -> R]
    PROVE  s \in Seq(R) /\ Len(s) = n /\ DOMAIN s = 1..n
<1> QED OBVIOUS

\* cancel() touches nothing but the phase of the providers it finds.
LEMMA CancelledLoads ==
    ASSUME NEW ls \in Seq(LoadRecord), NEW gone
    PROVE  /\ CancelAll(ls, gone) \in Seq(LoadRecord)
           /\ DOMAIN CancelAll(ls, gone) = DOMAIN ls
           /\ \A l \in DOMAIN ls :
                 /\ CancelAll(ls, gone)[l].url = ls[l].url
                 /\ CancelAll(ls, gone)[l].cell = ls[l].cell
                 /\ CancelAll(ls, gone)[l].turn = ls[l].turn
                 /\ CancelAll(ls, gone)[l].phase =
                       IF l \in gone /\ ls[l].phase \in Live THEN "cancelled"
                       ELSE ls[l].phase
<1> DEFINE N == Len(ls)
           s == CancelAll(ls, gone)
<1>1. N \in Nat /\ DOMAIN ls = 1..N /\ \A l \in 1..N : ls[l] \in LoadRecord
  BY LenProperties, ElementOfSeq
<1>2. s = [l \in 1..N |-> IF l \in gone /\ ls[l].phase \in Live
                          THEN [ls[l] EXCEPT !.phase = "cancelled"] ELSE ls[l]]
  BY <1>1 DEF CancelAll, Live
<1> HIDE DEF s, N
<1>3. ASSUME NEW l \in 1..N
      PROVE  /\ s[l] \in LoadRecord
             /\ s[l].url = ls[l].url /\ s[l].cell = ls[l].cell /\ s[l].turn = ls[l].turn
             /\ s[l].phase = IF l \in gone /\ ls[l].phase \in Live THEN "cancelled"
                             ELSE ls[l].phase
  <2>1. ls[l] \in LoadRecord
    BY <1>1
  <2>2. s[l] = IF l \in gone /\ ls[l].phase \in Live
               THEN [ls[l] EXCEPT !.phase = "cancelled"] ELSE ls[l]
    BY <1>2
  <2> QED BY <2>1, <2>2 DEF LoadRecord, Phase
<1>4. s \in [1..N -> LoadRecord]
  BY <1>2, <1>3
<1>5. s \in Seq(LoadRecord) /\ DOMAIN s = 1..N
  BY <1>1, <1>4, SeqOfFunction
<1> QED BY <1>1, <1>3, <1>5 DEF s

\* Changing the phase of one provider.
LEMMA PhasedLoads ==
    ASSUME NEW ls \in Seq(LoadRecord), NEW m \in DOMAIN ls, NEW phase \in Phase
    PROVE  /\ [ls EXCEPT ![m].phase = phase] \in Seq(LoadRecord)
           /\ DOMAIN [ls EXCEPT ![m].phase = phase] = DOMAIN ls
           /\ \A l \in DOMAIN ls :
                 /\ [ls EXCEPT ![m].phase = phase][l].url = ls[l].url
                 /\ [ls EXCEPT ![m].phase = phase][l].cell = ls[l].cell
                 /\ [ls EXCEPT ![m].phase = phase][l].turn = ls[l].turn
                 /\ [ls EXCEPT ![m].phase = phase][l].phase =
                       IF l = m THEN phase ELSE ls[l].phase
<1> DEFINE N == Len(ls)
           s == [ls EXCEPT ![m].phase = phase]
<1>1. N \in Nat /\ DOMAIN ls = 1..N /\ \A l \in 1..N : ls[l] \in LoadRecord
  BY LenProperties, ElementOfSeq
<1>2. s = [l \in 1..N |-> IF l = m THEN [ls[m] EXCEPT !.phase = phase] ELSE ls[l]]
  BY <1>1
<1> HIDE DEF s, N
<1>3. ASSUME NEW l \in 1..N
      PROVE  /\ s[l] \in LoadRecord
             /\ s[l].url = ls[l].url /\ s[l].cell = ls[l].cell /\ s[l].turn = ls[l].turn
             /\ s[l].phase = IF l = m THEN phase ELSE ls[l].phase
  <2>1. ls[l] \in LoadRecord
    BY <1>1
  <2>2. s[l] = IF l = m THEN [ls[l] EXCEPT !.phase = phase] ELSE ls[l]
    BY <1>2
  <2> QED BY <2>1, <2>2 DEF LoadRecord
<1>4. s \in [1..N -> LoadRecord]
  BY <1>2, <1>3
<1>5. s \in Seq(LoadRecord) /\ DOMAIN s = 1..N
  BY <1>1, <1>4, SeqOfFunction
<1> QED BY <1>1, <1>3, <1>5 DEF s

\* What every provider and every block is.
LEMMA LoadFacts ==
    ASSUME ImagesTypeOK
    PROVE  /\ DOMAIN loads = 1..Len(loads) /\ Len(loads) \in Nat
           /\ \A l \in DOMAIN loads :
                 /\ loads[l].url \in Url /\ loads[l].cell \in Cell
                 /\ loads[l].turn \in Display /\ loads[l].phase \in Phase
           /\ DOMAIN mainQueue = 1..Len(mainQueue) /\ Len(mainQueue) \in Nat
           /\ \A k \in DOMAIN mainQueue :
                 /\ mainQueue[k] \in Block
                 /\ mainQueue[k].url \in Url /\ mainQueue[k].cell \in Cell
                 /\ mainQueue[k].turn \in Display
<1>1. loads \in Seq(LoadRecord) /\ mainQueue \in Seq(Block)
  BY DEF ImagesTypeOK
<1>2. /\ DOMAIN loads = 1..Len(loads) /\ Len(loads) \in Nat
      /\ \A l \in DOMAIN loads : loads[l] \in LoadRecord
  BY <1>1, LenProperties, ElementOfSeq
<1>3. /\ DOMAIN mainQueue = 1..Len(mainQueue) /\ Len(mainQueue) \in Nat
      /\ \A k \in DOMAIN mainQueue : mainQueue[k] \in Block
  BY <1>1, LenProperties, ElementOfSeq
<1> QED BY <1>2, <1>3 DEF LoadRecord, Block

\* Nothing is displayed or loaded at first.
LEMMA ImagesInitHolds == ImagesInit => ImagesInv
<1> SUFFICES ASSUME ImagesInit PROVE ImagesInv
  OBVIOUS
<1>1. loads = <<>> /\ mainQueue = <<>> /\ DOMAIN loads = {} /\ DOMAIN mainQueue = {}
  BY DEF ImagesInit
<1>2. ImagesTypeOK
  <2>1. \A R : <<>> \in Seq(R)
    OBVIOUS
  <2>2. 0 \in 0..Items /\ 0 \in 0..MaxDisplays
    BY ListsAssumption
  <2> QED BY <1>1, <2>1, <2>2 DEF ImagesInit, ImagesTypeOK
<1>3. TurnsInv /\ ListInv /\ ProvidersInv /\ DeliveryInv /\ CellInv
      /\ CurrentLoadCancelledOnlyByTwin /\ AskingInv
  BY <1>1 DEF ImagesInit, AskingInv, TurnsInv, ListInv, ProvidersInv, DeliveryInv, CellInv,
              CurrentLoadCancelledOnlyByTwin, OnScreen
<1> QED BY <1>2, <1>3 DEF ImagesInv

-----------------------------------------------------------------------------
(***************************************************************************)
(* Most steps display and end nothing.  What such a step may do: providers *)
(* progress, blocks are taken from the front of the queue or are those of  *)
(* providers in main().                                                    *)
(***************************************************************************)
SameLoads ==
    /\ DOMAIN loads' = DOMAIN loads
    /\ \A l \in DOMAIN loads :
          /\ loads'[l].url = loads[l].url
          /\ loads'[l].cell = loads[l].cell
          /\ loads'[l].turn = loads[l].turn

\* Each block that waits after the step did so before, or is that of a
\* provider that was in main().
BlocksKnown ==
    \A k \in DOMAIN mainQueue' :
        \/ \E j \in DOMAIN mainQueue : mainQueue'[k] = mainQueue[j]
        \/ \E l \in DOMAIN loads : /\ loads[l].phase = "output"
                                   /\ mainQueue'[k].url = loads[l].url
                                   /\ mainQueue'[k].cell = loads[l].cell
                                   /\ mainQueue'[k].turn = loads[l].turn

\* Such a step keeps the displays apart ...
LEMMA TurnsKept ==
    ASSUME ImagesInv, SameLoads, BlocksKnown, UNCHANGED <<item, turn, displays>>,
           \A c \in Cell : ~OnScreen(c) => image'[c] = NoImage
    PROVE  TurnsInv'
<1>1. \A c \in Cell : IF item'[c] # 0 THEN turn'[c] \in 1..displays'
                      ELSE turn'[c] = 0 /\ image'[c] = NoImage
  BY DEF ImagesInv, TurnsInv, OnScreen
<1>2. \A c, d \in Cell : item'[c] # 0 /\ turn'[c] = turn'[d] => c = d
  BY DEF ImagesInv, TurnsInv, OnScreen
<1>3. \A l \in DOMAIN loads' :
          /\ loads'[l].turn <= displays'
          /\ \A c \in Cell : item'[c] # 0 /\ turn'[c] = loads'[l].turn => loads'[l].cell = c
          /\ \A k \in DOMAIN loads' :
                loads'[k].url = loads'[l].url /\ loads'[k].turn = loads'[l].turn => k = l
  BY DEF ImagesInv, TurnsInv, OnScreen, SameLoads
<1>4. ASSUME NEW k \in DOMAIN mainQueue'
      PROVE  /\ mainQueue'[k].turn <= displays'
             /\ \A c \in Cell :
                   item'[c] # 0 /\ turn'[c] = mainQueue'[k].turn => mainQueue'[k].cell = c
  BY <1>4 DEF ImagesInv, TurnsInv, OnScreen, BlocksKnown
<1> QED BY <1>1, <1>2, <1>3, <1>4 DEF TurnsInv, OnScreen

\* ... leaves each cell what it asked for, or marks it for the layout ...
LEMMA ListKept ==
    ASSUME ImagesInv, SameLoads, UNCHANGED <<item, turn>>,
           \/ UNCHANGED <<photoList, reloaded>>
           \/ reloaded' = {c \in Cell : OnScreen(c)},
           imageCashe \subseteq imageCashe'
    PROVE  ListInv'
<1>1. reloaded' = {} \/ reloaded' = {c \in Cell : item'[c] # 0}
  BY DEF ImagesInv, ListInv, OnScreen
<1>2. ASSUME NEW c \in Cell, item'[c] # 0, c \notin reloaded'
      PROVE  /\ item'[c] \in DOMAIN photoList'
             /\ \A l \in DOMAIN loads' :
                   loads'[l].turn = turn'[c] => loads'[l].url[1] = photoList'[item'[c]]
             /\ \A kind \in Kind :
                   \/ <<photoList'[item'[c]], kind>> \in imageCashe'
                   \/ \E l \in DOMAIN loads' : /\ loads'[l].turn = turn'[c]
                                               /\ loads'[l].url = <<photoList'[item'[c]], kind>>
  <2>1. UNCHANGED <<photoList, reloaded, item, turn>>
    BY <1>2 DEF OnScreen
  <2>2. /\ item[c] \in DOMAIN photoList
        /\ \A l \in DOMAIN loads :
              loads[l].turn = turn[c] => loads[l].url[1] = photoList[item[c]]
        /\ \A kind \in Kind :
              \/ <<photoList[item[c]], kind>> \in imageCashe
              \/ \E l \in DOMAIN loads : /\ loads[l].turn = turn[c]
                                         /\ loads[l].url = <<photoList[item[c]], kind>>
    BY <1>2, <2>1 DEF ImagesInv, ListInv, OnScreen
  <2> QED BY <2>1, <2>2 DEF SameLoads
<1> QED BY <1>1, <1>2 DEF ListInv, OnScreen

\* A provider that is done stays done, and one that is not cancelled by the
\* step was not loading, or stays in the sets.
LEMMA ProvidersKept ==
    ASSUME ImagesInv, SameLoads,
           \A l \in DOMAIN loads :
              /\ loads[l].phase = "delivered" => loads'[l].phase = "delivered"
              /\ loads'[l].phase \in Live
                    => loads[l].phase \in Live /\ (l \in providers => l \in providers'),
           \A url \in imageCashe' : \/ url \in imageCashe
                                    \/ \E l \in DOMAIN loads' :
                                          /\ loads'[l].url = url
                                          /\ loads'[l].phase = "delivered"
    PROVE  ProvidersInv'
<1>1. \A url \in imageCashe' : \E l \in DOMAIN loads' :
          loads'[l].url = url /\ loads'[l].phase = "delivered"
  BY DEF ImagesInv, ProvidersInv, SameLoads
<1>2. ASSUME NEW l \in DOMAIN loads', loads'[l].phase \in Live
      PROVE  \/ l \in providers'
             \/ \E k \in DOMAIN loads' : /\ loads'[k].url = loads'[l].url
                                         /\ loads'[k].turn # loads'[l].turn
  <2>1. l \in providers \/ HasTwin(loads[l].url, loads[l].turn)
    BY <1>2 DEF ImagesInv, ProvidersInv, SameLoads
  <2> QED BY <1>2, <2>1 DEF HasTwin, SameLoads
<1> QED BY <1>1, <1>2 DEF ProvidersInv, HasTwin

\* ... lets nothing outlive a display that did not already ...
LEMMA DeliveryKept ==
    ASSUME ImagesInv, SameLoads, BlocksKnown, UNCHANGED <<item, turn, overdue, replaced>>,
           \A l \in DOMAIN loads :
              loads'[l].phase \in Live \cup {"output"} => loads[l].phase \in Live \cup {"output"},
           \A c \in Cell : OnScreen(c) =>
              \/ image'[c] = image[c]
              \/ \E k \in DOMAIN mainQueue :
                    /\ mainQueue[k].cell = c
                    /\ image'[c] = <<mainQueue[k].url, mainQueue[k].turn>>
    PROVE  DeliveryInv'
<1>1. \A url, t : Excused(url, t) =>
          \/ <<t, url[2]>> \in overdue'
          \/ t \in replaced'
          \/ \E l \in DOMAIN loads' : loads'[l].url = url /\ loads'[l].turn # t
  BY DEF Excused, HasTwin, SameLoads
<1>2. \A l \in DOMAIN loads' :
          /\ loads'[l].phase \in Live \cup {"output"}
          /\ turn'[loads'[l].cell] # loads'[l].turn
          => Excused(loads'[l].url, loads'[l].turn)
  BY DEF ImagesInv, DeliveryInv, SameLoads
<1>3. \A k \in DOMAIN mainQueue' :
          turn'[mainQueue'[k].cell] # mainQueue'[k].turn
          => Excused(mainQueue'[k].url, mainQueue'[k].turn)
  BY DEF ImagesInv, DeliveryInv, BlocksKnown
<1>4. \A c \in Cell :
          item'[c] # 0 /\ image'[c] # NoImage /\ image'[c][2] # turn'[c]
          => Excused(image'[c][1], image'[c][2])
  BY DEF ImagesInv, DeliveryInv, OnScreen
<1> HIDE DEF Excused
<1> QED BY <1>1, <1>2, <1>3, <1>4 DEF DeliveryInv, OnScreen, Excused, HasTwin

\* ... cancels only providers that have a twin ...
LEMMA CurrentKept ==
    ASSUME ImagesInv, SameLoads, UNCHANGED <<item, turn>>,
           reloaded' = reloaded \/ reloaded' = {c \in Cell : OnScreen(c)},
           \A l \in DOMAIN loads :
              loads'[l].phase = "cancelled" =>
                 loads[l].phase = "cancelled" \/ HasTwin(loads[l].url, loads[l].turn)
    PROVE  CurrentLoadCancelledOnlyByTwin'
<1> SUFFICES ASSUME NEW l \in DOMAIN loads', loads'[l].phase = "cancelled",
                    item'[loads'[l].cell] # 0,
                    turn'[loads'[l].cell] = loads'[l].turn,
                    loads'[l].cell \notin reloaded'
             PROVE  \E k \in DOMAIN loads' : /\ loads'[k].url = loads'[l].url
                                             /\ loads'[k].turn # loads'[l].turn
  BY DEF CurrentLoadCancelledOnlyByTwin, HasTwin
<1>1. l \in DOMAIN loads /\ loads[l].cell \in Cell
  BY LoadFacts DEF ImagesInv, SameLoads
<1>2. /\ item[loads[l].cell] # 0 /\ turn[loads[l].cell] = loads[l].turn
      /\ loads[l].cell \notin reloaded
  BY <1>1 DEF SameLoads, OnScreen
<1>3. HasTwin(loads[l].url, loads[l].turn)
  BY <1>1, <1>2 DEF ImagesInv, CurrentLoadCancelledOnlyByTwin, SameLoads
<1> QED BY <1>1, <1>3 DEF HasTwin, SameLoads

\* The queue keeps its blocks, and each provider that gets its image puts the
\* block behind them.
LEMMA CellKept ==
    ASSUME ImagesInv, SameLoads, UNCHANGED <<item, turn, image>>,
           \A k \in DOMAIN mainQueue : k \in DOMAIN mainQueue' /\ mainQueue'[k] = mainQueue[k],
           \A k \in DOMAIN mainQueue' :
              \/ k \in DOMAIN mainQueue
              \/ \E l \in DOMAIN loads : /\ mainQueue'[k].url = loads[l].url
                                         /\ mainQueue'[k].turn = loads[l].turn,
           \A l \in DOMAIN loads :
              loads'[l].phase = "delivered" =>
                 \/ loads[l].phase = "delivered"
                 \/ \E k \in DOMAIN mainQueue' : /\ k \notin DOMAIN mainQueue
                                                 /\ mainQueue'[k].url = loads[l].url
                                                 /\ mainQueue'[k].turn = loads[l].turn,
           mainQueue' \in Seq(Block)
    PROVE  CellInv'
<1> DEFINE Due(c, j) ==
              \/ \E l \in DOMAIN loads' : /\ loads'[l].turn = turn'[c]
                                          /\ loads'[l].url[2] = "regular"
                                          /\ loads'[l].phase # "delivered"
              \/ \E k \in DOMAIN mainQueue' : /\ k > j
                                              /\ mainQueue'[k].turn = turn'[c]
                                              /\ mainQueue'[k].url[2] = "regular"
           Thumbs(c) == {l \in DOMAIN loads' : loads'[l].turn = turn'[c]
                                               /\ loads'[l].url[2] = "thumb"}
<1>1. /\ DOMAIN mainQueue = 1..Len(mainQueue) /\ Len(mainQueue) \in Nat
      /\ DOMAIN mainQueue' = 1..Len(mainQueue') /\ Len(mainQueue') \in Nat
  BY LoadFacts, LenProperties DEF ImagesInv
<1>2. ASSUME NEW c \in Cell, NEW j \in 0..Len(mainQueue), RegularDue(c, j)
      PROVE  Due(c, j)
  <2>1. CASE \E k \in DOMAIN mainQueue : /\ k > j
                                         /\ mainQueue[k].turn = turn[c]
                                         /\ mainQueue[k].url[2] = "regular"
    BY <2>1
  <2>2. ASSUME NEW l \in DOMAIN loads, loads[l].turn = turn[c],
               loads[l].url[2] = "regular", loads[l].phase # "delivered"
        PROVE  Due(c, j)
    <3>1. CASE loads'[l].phase # "delivered"
      BY <2>2, <3>1 DEF SameLoads
    <3>2. CASE loads'[l].phase = "delivered"
      <4>1. PICK k \in DOMAIN mainQueue' : /\ k \notin DOMAIN mainQueue
                                           /\ mainQueue'[k].url = loads[l].url
                                           /\ mainQueue'[k].turn = loads[l].turn
        BY <2>2, <3>2
      <4>2. k > j
        BY <1>1, <4>1
      <4> QED BY <2>2, <4>1, <4>2
    <3> QED BY <3>1, <3>2
  <2> QED BY <1>2, <2>1, <2>2 DEF RegularDue, Created
<1>3. ASSUME NEW c \in Cell, Thumbs(c) = {}
      PROVE  Created(turn[c], "thumb") = {}
  BY <1>3 DEF Created, SameLoads
<1> SUFFICES ASSUME NEW c \in Cell, item'[c] # 0
             PROVE  /\ image'[c] = NoImage => Due(c, 0)
                    /\ Thumbs(c) = {} =>
                          /\ /\ image'[c] # NoImage /\ image'[c][2] = turn'[c]
                             /\ image'[c][1][2] = "thumb"
                             => Due(c, 0)
                          /\ \A j \in DOMAIN mainQueue' :
                                mainQueue'[j].turn = turn'[c] /\ mainQueue'[j].url[2] = "thumb"
                                    => Due(c, j)
  BY DEF CellInv, OnScreen, RegularDue, Created
<1>4. OnScreen(c) /\ 0 \in 0..Len(mainQueue)
  BY <1>1 DEF OnScreen
<1>5. image'[c] = NoImage => Due(c, 0)
  BY <1>2, <1>4 DEF ImagesInv, CellInv
<1>6. ASSUME Thumbs(c) = {}
      PROVE  /\ /\ image'[c] # NoImage /\ image'[c][2] = turn'[c]
                /\ image'[c][1][2] = "thumb"
                => Due(c, 0)
             /\ \A j \in DOMAIN mainQueue' :
                   mainQueue'[j].turn = turn'[c] /\ mainQueue'[j].url[2] = "thumb"
                       => Due(c, j)
  <2>1. Created(turn[c], "thumb") = {}
    BY <1>3, <1>6
  <2>2. /\ /\ image[c] # NoImage /\ image[c][2] = turn[c]
           /\ image[c][1][2] = "thumb"
           => RegularDue(c, 0)
        /\ \A j \in DOMAIN mainQueue :
              mainQueue[j].turn = turn[c] /\ mainQueue[j].url[2] = "thumb"
                  => RegularDue(c, j)
    BY <1>4, <2>1 DEF ImagesInv, CellInv
  <2>3. ASSUME NEW j \in DOMAIN mainQueue', mainQueue'[j].turn = turn'[c],
               mainQueue'[j].url[2] = "thumb"
        PROVE  j \in DOMAIN mainQueue
    <3>1. ASSUME NEW l \in DOMAIN loads, mainQueue'[j].url = loads[l].url,
                 mainQueue'[j].turn = loads[l].turn
          PROVE  l \in Created(turn[c], "thumb")
      BY <2>3, <3>1 DEF Created
    <3> QED BY <2>1, <2>3, <3>1
  <2>4. ASSUME NEW j \in DOMAIN mainQueue', mainQueue'[j].turn = turn'[c],
               mainQueue'[j].url[2] = "thumb"
        PROVE  Due(c, j)
    <3>1. j \in DOMAIN mainQueue /\ mainQueue[j] = mainQueue'[j] /\ j \in 0..Len(mainQueue)
      BY <1>1, <2>3, <2>4
    <3>2. RegularDue(c, j)
      BY <2>2, <2>4, <3>1
    <3> HIDE DEF Due
    <3> QED BY <1>2, <3>1, <3>2
  <2> HIDE DEF Due
  <2> QED BY <1>2, <1>4, <2>2, <2>4
<1> HIDE DEF Due, Thumbs
<1> QED BY <1>5, <1>6

-----------------------------------------------------------------------------
\* The list is reset, and all cells on the screen wait for the layout.
LEMMA ResetStep ==
    ASSUME ImagesInv, SearchBegins \/ SetCollectionView
    PROVE  ImagesInv'
<1>1. /\ UNCHANGED <<item, image, imageCashe, providers, asking, loads, mainQueue,
                     displays, turn, overdue, replaced>>
      /\ asking = <<>>
      /\ reloaded' = {c \in Cell : OnScreen(c)}
      /\ photoList' \in Lists \cup {<<>>}
  BY DEF SearchBegins, SetCollectionView, presenterVars, displayVars, OnScreen,
         MainThreadIdle
<1>2. SameLoads /\ BlocksKnown
  BY <1>1 DEF SameLoads, BlocksKnown
<1>3. ImagesTypeOK'
  BY <1>1 DEF ImagesInv, ImagesTypeOK
<1>4. TurnsInv'
  BY <1>1, <1>2, TurnsKept DEF ImagesInv, TurnsInv
<1>5. ListInv'
  BY <1>1, <1>2, ListKept
<1>6. ProvidersInv'
  BY <1>1, <1>2, ProvidersKept
<1>7. DeliveryInv'
  BY <1>1, <1>2, DeliveryKept
<1>8. CurrentLoadCancelledOnlyByTwin'
  BY <1>1, <1>2, CurrentKept
<1>9. CellInv'
  BY <1>1 DEF ImagesInv, CellInv, OnScreen, RegularDue, Created
<1>10. AskingInv'
  BY <1>1 DEF AskingInv
<1> QED BY <1>3, <1>4, <1>5, <1>6, <1>7, <1>8, <1>9, <1>10 DEF ImagesInv

\* The operations of a provider move on.
LEMMA PhaseStep ==
    ASSUME ImagesInv, NEW l \in DOMAIN loads, ImageAnswer(l) \/ StartOutput(l)
    PROVE  ImagesInv'
<1>1. PICK phase \in {"loaded", "failed", "output"} :
          /\ loads' = [loads EXCEPT ![l].phase = phase]
          /\ loads[l].phase \in Live
  BY DEF ImageAnswer, StartOutput, SetPhase, Live
<1>2. UNCHANGED <<photoList, reloaded, item, image, imageCashe, providers, asking,
                  mainQueue, displays, turn, overdue, replaced>>
  BY DEF ImageAnswer, StartOutput, imageVars, presenterVars, displayVars
<1>3. /\ loads' \in Seq(LoadRecord)
      /\ SameLoads
      /\ \A m \in DOMAIN loads :
            loads'[m].phase = IF m = l THEN phase ELSE loads[m].phase
  <2>1. loads \in Seq(LoadRecord) /\ phase \in Phase
    BY DEF ImagesInv, ImagesTypeOK, Phase
  <2> QED BY <1>1, <2>1, PhasedLoads DEF SameLoads
<1>4. BlocksKnown
  BY <1>2 DEF BlocksKnown
<1>5. ImagesTypeOK'
  BY <1>2, <1>3 DEF ImagesInv, ImagesTypeOK, SameLoads
<1>6. TurnsInv'
  BY <1>2, <1>3, <1>4, TurnsKept DEF ImagesInv, TurnsInv
<1>7. ListInv'
  BY <1>2, <1>3, ListKept
<1>8. ProvidersInv'
  BY <1>1, <1>2, <1>3, ProvidersKept DEF Live
<1>9. DeliveryInv'
  BY <1>1, <1>2, <1>3, <1>4, DeliveryKept DEF Live
<1>10. CurrentLoadCancelledOnlyByTwin'
  BY <1>1, <1>2, <1>3, CurrentKept
<1>11. CellInv'
  <2>1. mainQueue' \in Seq(Block)
    BY <1>2 DEF ImagesInv, ImagesTypeOK
  <2>2. \A m \in DOMAIN loads : loads'[m].phase = "delivered" => loads[m].phase = "delivered"
    BY <1>1, <1>3
  <2> QED BY <1>2, <1>3, <2>1, <2>2, CellKept
<1>12. AskingInv'
  BY <1>2 DEF ImagesInv, AskingInv, OnScreen
<1> QED BY <1>5, <1>6, <1>7, <1>8, <1>9, <1>10, <1>11, <1>12 DEF ImagesInv

\* The completion: what it drops is live only if it is a twin.
LEMMA DeliverStep ==
    ASSUME ImagesInv, NEW l \in DOMAIN loads, Deliver(l)
    PROVE  ImagesInv'
<1> DEFINE ls == [loads EXCEPT ![l].phase = "delivered"]
           gone == Found(ls, providers, {loads[l].url})
           block == BlockFor(loads[l].url, loads[l].cell, loads[l].turn)
<1>1. /\ loads[l].phase = "output"
      /\ imageCashe' = imageCashe \cup {loads[l].url}
      /\ mainQueue' = Append(mainQueue, block)
      /\ loads' = CancelAll(ls, gone)
      /\ providers' = providers \ gone
      /\ UNCHANGED <<photoList, reloaded, item, image, asking, displays, turn, overdue,
                     replaced>>
  BY DEF Deliver, DeleteProviders, imageVars, displayVars
<1>2. /\ loads \in Seq(LoadRecord) /\ mainQueue \in Seq(Block)
      /\ loads[l].url \in Url /\ loads[l].cell \in Cell /\ loads[l].turn \in Display
      /\ DOMAIN mainQueue = 1..Len(mainQueue) /\ Len(mainQueue) \in Nat
      /\ providers \subseteq DOMAIN loads
  BY LoadFacts DEF ImagesInv, ImagesTypeOK
<1>3. /\ ls \in Seq(LoadRecord) /\ DOMAIN ls = DOMAIN loads
      /\ \A m \in DOMAIN loads :
            /\ ls[m].url = loads[m].url /\ ls[m].cell = loads[m].cell
            /\ ls[m].turn = loads[m].turn
            /\ ls[m].phase = IF m = l THEN "delivered" ELSE loads[m].phase
  <2>1. "delivered" \in Phase
    BY DEF Phase
  <2> QED BY <1>2, <2>1, PhasedLoads
<1>4. gone = {m \in providers : loads[m].url = loads[l].url}
  BY <1>2, <1>3 DEF Found
<1> HIDE DEF ls, gone
<1>5. /\ loads' \in Seq(LoadRecord)
      /\ SameLoads
      /\ \A m \in DOMAIN loads :
            loads'[m].phase = IF m = l THEN "delivered"
                              ELSE IF m \in gone /\ loads[m].phase \in Live THEN "cancelled"
                              ELSE loads[m].phase
  <2>1. /\ CancelAll(ls, gone) \in Seq(LoadRecord)
        /\ DOMAIN CancelAll(ls, gone) = DOMAIN ls
        /\ \A m \in DOMAIN ls :
              /\ CancelAll(ls, gone)[m].url = ls[m].url
              /\ CancelAll(ls, gone)[m].cell = ls[m].cell
              /\ CancelAll(ls, gone)[m].turn = ls[m].turn
              /\ CancelAll(ls, gone)[m].phase =
                    IF m \in gone /\ ls[m].phase \in Live THEN "cancelled" ELSE ls[m].phase
    BY <1>3, CancelledLoads
  <2> QED BY <1>1, <1>3, <2>1 DEF SameLoads, Live
<1>6. /\ block \in Block /\ block.url = loads[l].url /\ block.cell = loads[l].cell
      /\ block.turn = loads[l].turn
  BY <1>2 DEF BlockFor, Block
<1> HIDE DEF block
<1>7. /\ mainQueue' \in Seq(Block) /\ DOMAIN mainQueue' = 1..Len(mainQueue) + 1
      /\ \A k \in DOMAIN mainQueue : mainQueue'[k] = mainQueue[k]
      /\ mainQueue'[Len(mainQueue) + 1] = block
  BY <1>1, <1>2, <1>6
<1>8. BlocksKnown
  BY <1>1, <1>2, <1>6, <1>7 DEF BlocksKnown
<1>9. ImagesTypeOK'
  BY <1>1, <1>2, <1>5, <1>7 DEF ImagesInv, ImagesTypeOK, SameLoads
<1>10. TurnsInv'
  BY <1>1, <1>5, <1>8, TurnsKept DEF ImagesInv, TurnsInv
<1>11. ListInv'
  BY <1>1, <1>5, ListKept
<1>12. ProvidersInv'
  <2>1. ASSUME NEW m \in DOMAIN loads
        PROVE  /\ loads[m].phase = "delivered" => loads'[m].phase = "delivered"
               /\ loads'[m].phase \in Live
                     => loads[m].phase \in Live /\ (m \in providers => m \in providers')
    BY <1>1, <1>5 DEF Live
  <2>2. loads'[l].url = loads[l].url /\ loads'[l].phase = "delivered" /\ l \in DOMAIN loads'
    BY <1>5 DEF SameLoads
  <2> QED BY <1>1, <1>5, <2>1, <2>2, ProvidersKept
<1>13. DeliveryInv'
  BY <1>1, <1>5, <1>8, DeliveryKept DEF Live
<1>14. CurrentLoadCancelledOnlyByTwin'
  <2>1. ASSUME NEW m \in DOMAIN loads, loads'[m].phase = "cancelled",
               loads[m].phase # "cancelled"
        PROVE  HasTwin(loads[m].url, loads[m].turn)
    <3>1. m # l /\ loads[m].url = loads[l].url
      BY <1>4, <1>5, <2>1
    <3>2. loads[m].turn # loads[l].turn
      BY <3>1 DEF ImagesInv, TurnsInv
    <3> QED BY <3>1, <3>2 DEF HasTwin
  <2> QED BY <1>1, <1>5, <2>1, CurrentKept
<1>15. CellInv'
  <2>1. ASSUME NEW m \in DOMAIN loads, loads'[m].phase = "delivered",
               loads[m].phase # "delivered"
        PROVE  \E k \in DOMAIN mainQueue' : /\ k \notin DOMAIN mainQueue
                                            /\ mainQueue'[k].url = loads[m].url
                                            /\ mainQueue'[k].turn = loads[m].turn
    <3>1. m = l
      BY <1>5, <2>1
    <3>2. Len(mainQueue) + 1 \in DOMAIN mainQueue' /\ Len(mainQueue) + 1 \notin DOMAIN mainQueue
      BY <1>2, <1>7
    <3> QED BY <1>6, <1>7, <3>1, <3>2
  <2>2. ASSUME NEW k \in DOMAIN mainQueue'
        PROVE  \/ k \in DOMAIN mainQueue
               \/ \E m \in DOMAIN loads : /\ mainQueue'[k].url = loads[m].url
                                          /\ mainQueue'[k].turn = loads[m].turn
    BY <1>2, <1>6, <1>7
  <2>3. \A k \in DOMAIN mainQueue : k \in DOMAIN mainQueue' /\ mainQueue'[k] = mainQueue[k]
    BY <1>2, <1>7
  <2> QED BY <1>1, <1>5, <1>7, <2>1, <2>2, <2>3, CellKept
<1>16. AskingInv'
  BY <1>1 DEF ImagesInv, AskingInv, OnScreen
<1> QED BY <1>9, <1>10, <1>11, <1>12, <1>13, <1>14, <1>15, <1>16 DEF ImagesInv

\* A block takes its image to the cell it captured.
LEMMA RunBlockStep == ASSUME ImagesInv, RunBlock PROVE ImagesInv'
<1> DEFINE block == Head(mainQueue)
           N == Len(mainQueue)
<1>1. /\ mainQueue # <<>> /\ mainQueue' = Tail(mainQueue)
      /\ image' = [image EXCEPT ![block.cell] =
                      IF item[block.cell] = 0 THEN @ ELSE <<block.url, block.turn>>]
      /\ UNCHANGED <<photoList, item, reloaded, imageCashe, providers, asking, loads,
                     displays, turn, overdue, replaced>>
      /\ asking = <<>>
  BY DEF RunBlock, presenterVars, displayVars, MainThreadIdle
<1>2. /\ mainQueue \in Seq(Block) /\ N \in Nat /\ N >= 1 /\ DOMAIN mainQueue = 1..N
      /\ block = mainQueue[1] /\ 1 \in DOMAIN mainQueue
  <2>1. mainQueue \in Seq(Block)
    BY DEF ImagesInv, ImagesTypeOK
  <2> QED BY <1>1, <2>1, LenProperties, EmptySeq
<1>3. /\ block.url \in Url /\ block.cell \in Cell /\ block.turn \in Display
      /\ <<block.url, block.turn>> # NoImage
  BY <1>2, LoadFacts, NoImageAssumption DEF ImagesInv
<1>4. /\ mainQueue' \in Seq(Block) /\ DOMAIN mainQueue' = 1..N - 1
      /\ \A k \in 1..N - 1 : mainQueue'[k] = mainQueue[k + 1] /\ k + 1 \in DOMAIN mainQueue
  <2>1. mainQueue' \in Seq(Block) /\ Len(mainQueue') = N - 1
        /\ \A k \in 1..Len(mainQueue') : mainQueue'[k] = mainQueue[k + 1]
    BY <1>1, <1>2, HeadTailProperties
  <2>2. DOMAIN mainQueue' = 1..N - 1
    BY <2>1, LenProperties
  <2> QED BY <1>2, <2>1, <2>2
<1> HIDE DEF block, N
<1>5. /\ \A c \in Cell : ~OnScreen(c) \/ c # block.cell => image'[c] = image[c]
      /\ OnScreen(block.cell) => image'[block.cell] = <<block.url, block.turn>>
      /\ image' \in [Cell -> (Url \X Display) \cup {NoImage}]
  <2>1. image \in [Cell -> (Url \X Display) \cup {NoImage}]
    BY DEF ImagesInv, ImagesTypeOK
  <2> QED BY <1>1, <1>3, <2>1 DEF OnScreen
<1>6. SameLoads
  BY <1>1 DEF SameLoads
<1>7. BlocksKnown
  BY <1>4 DEF BlocksKnown
<1>8. ImagesTypeOK'
  BY <1>1, <1>4, <1>5 DEF ImagesInv, ImagesTypeOK
<1>9. TurnsInv'
  <2>1. \A c \in Cell : ~OnScreen(c) => image'[c] = NoImage
    BY <1>5 DEF ImagesInv, TurnsInv
  <2> QED BY <1>1, <1>6, <1>7, <2>1, TurnsKept
<1>10. ListInv'
  BY <1>1, <1>6, ListKept
<1>11. ProvidersInv'
  BY <1>1, <1>6, ProvidersKept
<1>12. DeliveryInv'
  <2>1. ASSUME NEW c \in Cell, OnScreen(c)
        PROVE  \/ image'[c] = image[c]
               \/ \E k \in DOMAIN mainQueue :
                     /\ mainQueue[k].cell = c
                     /\ image'[c] = <<mainQueue[k].url, mainQueue[k].turn>>
    BY <1>2, <1>5, <2>1
  <2> QED BY <1>1, <1>6, <1>7, <2>1, DeliveryKept
<1>13. CurrentLoadCancelledOnlyByTwin'
  BY <1>1, <1>6, CurrentKept
<1>14. CellInv'
  <2> DEFINE Due(c, j) ==
              \/ \E l \in Created(turn[c], "regular") : loads[l].phase # "delivered"
              \/ \E k \in DOMAIN mainQueue' : /\ k > j
                                              /\ mainQueue'[k].turn = turn[c]
                                              /\ mainQueue'[k].url[2] = "regular"
  <2>1. ASSUME NEW c \in Cell, NEW j \in Nat, RegularDue(c, j + 1)
        PROVE  Due(c, j)
    <3>1. ASSUME NEW k \in DOMAIN mainQueue, k > j + 1, mainQueue[k].turn = turn[c],
                 mainQueue[k].url[2] = "regular"
          PROVE  Due(c, j)
      <4>1. k - 1 \in 1..N - 1 /\ k - 1 > j /\ (k - 1) + 1 = k
        BY <1>2, <3>1
      <4>2. mainQueue'[k - 1] = mainQueue[k]
        BY <1>4, <4>1
      <4> QED BY <1>4, <3>1, <4>1, <4>2
    <3> QED BY <2>1, <3>1 DEF RegularDue
  <2>2. ASSUME NEW c \in Cell, OnScreen(c), c # block.cell, RegularDue(c, 0)
        PROVE  RegularDue(c, 1)
    <3>1. mainQueue[1].turn # turn[c]
      BY <1>2, <2>2 DEF ImagesInv, TurnsInv
    <3>2. ASSUME NEW k \in DOMAIN mainQueue, k > 0, mainQueue[k].turn = turn[c]
          PROVE  k > 1
      <4>1. k # 1
        BY <3>1, <3>2
      <4> QED BY <1>2, <4>1
    <3> QED BY <2>2, <3>2 DEF RegularDue
  <2>3. ASSUME NEW c \in Cell, OnScreen(c), image'[c] = NoImage PROVE Due(c, 0)
    <3>1. c # block.cell /\ image[c] = NoImage
      BY <1>3, <1>5, <2>3
    <3>2. RegularDue(c, 0)
      BY <2>3, <3>1 DEF ImagesInv, CellInv
    <3>3. RegularDue(c, 0 + 1)
      BY <2>2, <2>3, <3>1, <3>2
    <3> HIDE DEF Due
    <3> QED BY <2>1, <3>3
  <2>4. ASSUME NEW c \in Cell, OnScreen(c), Created(turn[c], "thumb") = {},
               image'[c] # NoImage, image'[c][2] = turn[c], image'[c][1][2] = "thumb"
        PROVE  Due(c, 0)
    <3>1. CASE c # block.cell
      <4>1. RegularDue(c, 0)
        BY <1>5, <2>4, <3>1 DEF ImagesInv, CellInv
      <4>2. RegularDue(c, 0 + 1)
        BY <2>2, <2>4, <3>1, <4>1
      <4> HIDE DEF Due
      <4> QED BY <2>1, <4>2
    <3>2. CASE c = block.cell
      <4>1. mainQueue[1].turn = turn[c] /\ mainQueue[1].url[2] = "thumb"
        BY <1>2, <1>5, <2>4, <3>2
      <4>2. RegularDue(c, 0 + 1)
        BY <1>2, <2>4, <4>1 DEF ImagesInv, CellInv
      <4> HIDE DEF Due
      <4> QED BY <2>1, <4>2
    <3> QED BY <3>1, <3>2
  <2>5. ASSUME NEW c \in Cell, OnScreen(c), Created(turn[c], "thumb") = {},
               NEW j \in DOMAIN mainQueue', mainQueue'[j].turn = turn[c],
               mainQueue'[j].url[2] = "thumb"
        PROVE  Due(c, j)
    <3>1. j \in Nat /\ j + 1 \in DOMAIN mainQueue /\ mainQueue'[j] = mainQueue[j + 1]
      BY <1>2, <1>4
    <3>2. RegularDue(c, j + 1)
      BY <2>5, <3>1 DEF ImagesInv, CellInv
    <3> HIDE DEF Due
    <3> QED BY <2>1, <3>1, <3>2
  <2> SUFFICES ASSUME NEW c \in Cell, OnScreen(c)
               PROVE  /\ image'[c] = NoImage => Due(c, 0)
                      /\ Created(turn[c], "thumb") = {} =>
                            /\ image'[c] # NoImage /\ image'[c][2] = turn[c] /\ image'[c][1][2] = "thumb"
                                  => Due(c, 0)
                            /\ \A j \in DOMAIN mainQueue' :
                                  mainQueue'[j].turn = turn[c] /\ mainQueue'[j].url[2] = "thumb"
                                      => Due(c, j)
    BY <1>1 DEF CellInv, OnScreen, RegularDue, Created
  <2> HIDE DEF Due
  <2> QED BY <2>3, <2>4, <2>5
<1>15. AskingInv'
  BY <1>1 DEF AskingInv
<1> QED BY <1>8, <1>9, <1>10, <1>11, <1>12, <1>13, <1>14, <1>15 DEF ImagesInv

\* The end of a display cancels what it asked for, or leaves an excuse.
LEMMA DidEndDisplayingStep ==
    ASSUME ImagesInv, NEW c \in Cell, DidEndDisplayingCell(c)
    PROVE  ImagesInv'
<1> DEFINE gone == IF photoList = <<>> THEN {}
                   ELSE Found(loads, providers, {photoList[item[c]]} \X Kind)
           t == turn[c]
<1>1. /\ item[c] # 0 /\ (reloaded = {} \/ c \in reloaded)
      /\ item' = [item EXCEPT ![c] = 0]
      /\ image' = [image EXCEPT ![c] = NoImage]
      /\ turn' = [turn EXCEPT ![c] = 0]
      /\ reloaded' = reloaded \ {c}
      /\ overdue' = overdue \cup ({t} \X UnderWay(t))
      /\ replaced' = IF c \in reloaded THEN replaced \cup {t} ELSE replaced
      /\ UNCHANGED <<photoList, imageCashe, asking, mainQueue, displays>>
      /\ asking = <<>>
  BY DEF DidEndDisplayingCell, MainThreadIdle
<1>2. /\ loads \in Seq(LoadRecord) /\ providers \subseteq DOMAIN loads
      /\ item \in [Cell -> 0..Items] /\ turn \in [Cell -> 0..MaxDisplays]
      /\ image \in [Cell -> (Url \X Display) \cup {NoImage}]
  BY DEF ImagesInv, ImagesTypeOK
<1>3. /\ loads' \in Seq(LoadRecord)
      /\ SameLoads
      /\ \A l \in DOMAIN loads :
            loads'[l].phase = IF l \in gone /\ loads[l].phase \in Live THEN "cancelled"
                              ELSE loads[l].phase
      /\ providers' = providers \ gone
  <2>1. CASE photoList = <<>>
    BY <1>2, <2>1 DEF DidEndDisplayingCell, SameLoads
  <2>2. CASE photoList # <<>>
    <3>1. loads' = CancelAll(loads, gone) /\ providers' = providers \ gone
      BY <2>2 DEF DidEndDisplayingCell, DeleteProviders
    <3> HIDE DEF gone
    <3> QED BY <1>2, <3>1, CancelledLoads DEF SameLoads
  <2> QED BY <2>1, <2>2
<1>4. gone = IF photoList = <<>> THEN {}
             ELSE {l \in providers : loads[l].url \in {photoList[item[c]]} \X Kind}
  BY DEF Found
<1> HIDE DEF gone
<1>5. OnScreen(c) /\ t \in 1..displays /\ t \in Display /\ t # 0
  <2>1. t \in 1..displays /\ displays \in 0..MaxDisplays
    BY <1>1 DEF ImagesInv, TurnsInv, ImagesTypeOK, OnScreen
  <2> QED BY <1>1, <2>1, ListsAssumption DEF OnScreen, Display
<1>6. \A d \in Cell : /\ d # c => item'[d] = item[d] /\ turn'[d] = turn[d] /\ image'[d] = image[d]
                      /\ item'[c] = 0 /\ turn'[c] = 0 /\ image'[c] = NoImage
  BY <1>1, <1>2
<1>7. UnderWay(t) \subseteq Kind
  BY LoadFacts DEF ImagesInv, UnderWay, Url
<1>8. ImagesTypeOK'
  <2>1. 0 \in 0..Items /\ 0 \in 0..MaxDisplays
    BY ListsAssumption
  <2>2. overdue' \subseteq Display \X Kind
    BY <1>1, <1>5, <1>7 DEF ImagesInv, ImagesTypeOK
  <2>3. replaced' \subseteq Display
    BY <1>1, <1>5 DEF ImagesInv, ImagesTypeOK
  <2>4. item' \in [Cell -> 0..Items] /\ turn' \in [Cell -> 0..MaxDisplays]
        /\ image' \in [Cell -> (Url \X Display) \cup {NoImage}]
    BY <1>1, <1>2, <2>1
  <2>5. providers' \subseteq DOMAIN loads' /\ reloaded' \subseteq Cell
    BY <1>1, <1>2, <1>3 DEF SameLoads, ImagesInv, ImagesTypeOK
  <2> QED BY <1>1, <1>3, <2>2, <2>3, <2>4, <2>5 DEF ImagesInv, ImagesTypeOK
<1>9. TurnsInv'
  <2>1. \A d \in Cell : IF item'[d] # 0 THEN turn'[d] \in 1..displays'
                        ELSE turn'[d] = 0 /\ image'[d] = NoImage
    BY <1>1, <1>6 DEF ImagesInv, TurnsInv, OnScreen
  <2>2. \A d, e \in Cell : item'[d] # 0 /\ turn'[d] = turn'[e] => d = e
    BY <1>6, <2>1 DEF ImagesInv, TurnsInv, OnScreen
  <2>3. \A l \in DOMAIN loads' :
          /\ loads'[l].turn <= displays'
          /\ \A d \in Cell : item'[d] # 0 /\ turn'[d] = loads'[l].turn => loads'[l].cell = d
          /\ \A k \in DOMAIN loads' :
                loads'[k].url = loads'[l].url /\ loads'[k].turn = loads'[l].turn => k = l
    BY <1>1, <1>3, <1>6 DEF ImagesInv, TurnsInv, OnScreen, SameLoads
  <2>4. \A k \in DOMAIN mainQueue' :
          /\ mainQueue'[k].turn <= displays'
          /\ \A d \in Cell :
                item'[d] # 0 /\ turn'[d] = mainQueue'[k].turn => mainQueue'[k].cell = d
    BY <1>1, <1>6 DEF ImagesInv, TurnsInv, OnScreen
  <2> QED BY <2>1, <2>2, <2>3, <2>4 DEF TurnsInv, OnScreen
<1>10. ListInv'
  <2>1. reloaded' = {} \/ reloaded' = {d \in Cell : item'[d] # 0}
    <3>1. CASE reloaded = {}
      BY <1>1, <3>1
    <3>2. CASE reloaded = {d \in Cell : OnScreen(d)}
      BY <1>1, <1>6, <3>2 DEF OnScreen
    <3> QED BY <3>1, <3>2 DEF ImagesInv, ListInv
  <2>2. ASSUME NEW d \in Cell, item'[d] # 0, d \notin reloaded'
        PROVE  /\ item'[d] \in DOMAIN photoList'
               /\ \A l \in DOMAIN loads' :
                     loads'[l].turn = turn'[d] => loads'[l].url[1] = photoList'[item'[d]]
               /\ \A kind \in Kind :
                     \/ <<photoList'[item'[d]], kind>> \in imageCashe'
                     \/ \E l \in DOMAIN loads' : /\ loads'[l].turn = turn'[d]
                                                 /\ loads'[l].url = <<photoList'[item'[d]], kind>>
    <3>1. d # c /\ OnScreen(d) /\ d \notin reloaded /\ item'[d] = item[d] /\ turn'[d] = turn[d]
      BY <1>1, <1>6, <2>2 DEF OnScreen
    <3>2. /\ item[d] \in DOMAIN photoList
          /\ \A l \in DOMAIN loads :
                loads[l].turn = turn[d] => loads[l].url[1] = photoList[item[d]]
          /\ \A kind \in Kind :
                \/ <<photoList[item[d]], kind>> \in imageCashe
                \/ \E l \in DOMAIN loads : /\ loads[l].turn = turn[d]
                                           /\ loads[l].url = <<photoList[item[d]], kind>>
      BY <3>1 DEF ImagesInv, ListInv
    <3>3. photoList'[item'[d]] = photoList[item[d]] /\ imageCashe' = imageCashe
          /\ DOMAIN photoList' = DOMAIN photoList
      BY <1>1, <3>1
    <3>4. \A l \in DOMAIN loads' :
             loads'[l].turn = turn'[d] => loads'[l].url[1] = photoList'[item'[d]]
      BY <1>3, <3>1, <3>2, <3>3 DEF SameLoads
    <3>5. ASSUME NEW kind \in Kind, <<photoList[item[d]], kind>> \notin imageCashe
          PROVE  \E l \in DOMAIN loads' : /\ loads'[l].turn = turn'[d]
                                          /\ loads'[l].url = <<photoList[item[d]], kind>>
      BY <1>3, <3>1, <3>2, <3>5 DEF SameLoads
    <3> QED BY <3>1, <3>2, <3>3, <3>4, <3>5
  <2> QED BY <2>1, <2>2 DEF ListInv, OnScreen
<1>11. ProvidersInv'
  <2>1. ASSUME NEW l \in DOMAIN loads
        PROVE  /\ loads[l].phase = "delivered" => loads'[l].phase = "delivered"
               /\ loads'[l].phase \in Live
                     => loads[l].phase \in Live /\ (l \in providers => l \in providers')
    BY <1>3 DEF Live
  <2> QED BY <1>1, <1>3, <2>1, ProvidersKept
<1>12. DeliveryInv'
  <2>1. \A url, u : Excused(url, u) =>
            \/ <<u, url[2]>> \in overdue'
            \/ u \in replaced'
            \/ \E l \in DOMAIN loads' : loads'[l].url = url /\ loads'[l].turn # u
    BY <1>1, <1>3 DEF Excused, HasTwin, SameLoads
  <2>2. ASSUME NEW l \in DOMAIN loads, loads'[l].phase \in Live \cup {"output"},
               turn'[loads[l].cell] # loads[l].turn
        PROVE  \/ <<loads[l].turn, loads[l].url[2]>> \in overdue'
               \/ loads[l].turn \in replaced'
               \/ \E k \in DOMAIN loads' : loads'[k].url = loads[l].url
                                           /\ loads'[k].turn # loads[l].turn
    <3>1. loads[l].phase \in Live \cup {"output"} /\ loads[l].cell \in Cell
      BY <1>3, <2>2, LoadFacts DEF ImagesInv, Live
    <3>2. CASE turn[loads[l].cell] # loads[l].turn
      BY <2>1, <3>1, <3>2 DEF ImagesInv, DeliveryInv
    <3>3. CASE turn[loads[l].cell] = loads[l].turn
      <4>1. loads[l].cell = c /\ loads[l].turn = t
        BY <1>6, <2>2, <3>1, <3>3
      <4>2. CASE loads[l].phase = "output"
        <5>1. loads[l].url[2] \in UnderWay(t)
          BY <4>1, <4>2 DEF UnderWay
        <5> QED BY <1>1, <4>1, <5>1
      <4>3. CASE c \in reloaded
        BY <1>1, <4>1, <4>3
      <4>4. CASE loads[l].phase # "output" /\ c \notin reloaded
        <5>1. loads[l].phase \in Live /\ loads'[l].phase \in Live /\ l \notin gone
          BY <1>3, <2>2, <3>1, <4>4 DEF Live
        <5>2. item[c] \in DOMAIN photoList /\ loads[l].url[1] = photoList[item[c]]
          BY <1>5, <4>1, <4>4 DEF ImagesInv, ListInv
        <5>3. photoList # <<>>
          BY <5>2
        <5>4. loads[l].url \in {photoList[item[c]]} \X Kind
          BY <5>2, LoadFacts DEF ImagesInv, Url
        <5>5. l \notin providers
          BY <1>4, <5>1, <5>3, <5>4
        <5>6. HasTwin(loads[l].url, loads[l].turn)
          BY <5>1, <5>5 DEF ImagesInv, ProvidersInv
        <5> QED BY <1>3, <5>6 DEF HasTwin, SameLoads
      <4> QED BY <4>2, <4>3, <4>4
    <3> QED BY <3>2, <3>3
  <2>3. ASSUME NEW k \in DOMAIN mainQueue,
               turn'[mainQueue[k].cell] # mainQueue[k].turn
        PROVE  \/ <<mainQueue[k].turn, mainQueue[k].url[2]>> \in overdue'
               \/ mainQueue[k].turn \in replaced'
               \/ \E l \in DOMAIN loads' : loads'[l].url = mainQueue[k].url
                                           /\ loads'[l].turn # mainQueue[k].turn
    <3>1. mainQueue[k].cell \in Cell
      BY LoadFacts DEF ImagesInv
    <3>2. CASE turn[mainQueue[k].cell] # mainQueue[k].turn
      BY <2>1, <3>2 DEF ImagesInv, DeliveryInv
    <3>3. CASE turn[mainQueue[k].cell] = mainQueue[k].turn
      <4>1. mainQueue[k].cell = c /\ mainQueue[k].turn = t
        BY <1>6, <2>3, <3>1, <3>3
      <4>2. mainQueue[k].url[2] \in UnderWay(t)
        BY <4>1 DEF UnderWay
      <4> QED BY <1>1, <4>1, <4>2
    <3> QED BY <3>2, <3>3
  <2>4. ASSUME NEW d \in Cell, item'[d] # 0, image'[d] # NoImage, image'[d][2] # turn'[d]
        PROVE  Excused(image'[d][1], image'[d][2])
    <3>1. d # c /\ OnScreen(d) /\ image'[d] = image[d] /\ turn'[d] = turn[d]
      BY <1>6, <2>4 DEF OnScreen
    <3> QED BY <2>4, <3>1 DEF ImagesInv, DeliveryInv
  <2>5. \A l \in DOMAIN loads' :
            /\ loads'[l].phase \in Live \cup {"output"}
            /\ turn'[loads'[l].cell] # loads'[l].turn
            => Excused(loads[l].url, loads[l].turn)'
    BY <1>3, <2>2 DEF Excused, HasTwin, SameLoads
  <2>6. \A k \in DOMAIN mainQueue' :
            turn'[mainQueue'[k].cell] # mainQueue'[k].turn
            => Excused(mainQueue[k].url, mainQueue[k].turn)'
    BY <1>1, <2>3 DEF Excused, HasTwin
  <2>7. \A d \in Cell :
            item'[d] # 0 /\ image'[d] # NoImage /\ image'[d][2] # turn'[d]
            => Excused(image[d][1], image[d][2])'
    BY <2>1, <2>4 DEF Excused, HasTwin
  <2> QED BY <2>5, <2>6, <2>7 DEF DeliveryInv, OnScreen
<1>13. CurrentLoadCancelledOnlyByTwin'
  <2> SUFFICES ASSUME NEW l \in DOMAIN loads', loads'[l].phase = "cancelled",
                      item'[loads'[l].cell] # 0,
                      turn'[loads'[l].cell] = loads'[l].turn,
                      loads'[l].cell \notin reloaded'
               PROVE  \E k \in DOMAIN loads' : /\ loads'[k].url = loads'[l].url
                                               /\ loads'[k].turn # loads'[l].turn
    BY DEF CurrentLoadCancelledOnlyByTwin, HasTwin
  <2> DEFINE d == loads[l].cell
  <2>1. /\ l \in DOMAIN loads /\ d \in Cell /\ loads[l].url \in Url
        /\ loads'[l].cell = d /\ loads'[l].url = loads[l].url /\ loads'[l].turn = loads[l].turn
    BY <1>3, LoadFacts DEF ImagesInv, SameLoads
  <2> HIDE DEF d
  <2>2. d # c /\ OnScreen(d) /\ turn[d] = loads[l].turn /\ d \notin reloaded
    BY <1>1, <1>6, <2>1 DEF OnScreen
  <2>3. HasTwin(loads[l].url, loads[l].turn)
    <3>1. CASE loads[l].phase = "cancelled"
      BY <2>1, <2>2, <3>1 DEF ImagesInv, CurrentLoadCancelledOnlyByTwin, OnScreen, d
    <3>2. CASE loads[l].phase # "cancelled"
      <4>1. l \in gone /\ loads[l].phase \in Live
        BY <1>3, <2>1, <3>2
      <4>2. photoList # <<>> /\ loads[l].url \in {photoList[item[c]]} \X Kind
        BY <1>4, <4>1
      <4>3. PICK kind \in Kind : loads[l].url = <<photoList[item[c]], kind>>
        BY <4>2
      <4>4. c \notin reloaded
        BY <2>1, <2>2 DEF ImagesInv, ListInv
      <4>5. \/ loads[l].url \in imageCashe
            \/ \E k \in DOMAIN loads : loads[k].turn = t /\ loads[k].url = loads[l].url
        BY <1>5, <4>3, <4>4 DEF ImagesInv, ListInv
      <4>6. CASE loads[l].url \in imageCashe
        <5>1. PICK k \in DOMAIN loads : loads[k].url = loads[l].url /\ loads[k].phase = "delivered"
          BY <4>6 DEF ImagesInv, ProvidersInv
        <5>2. k # l
          BY <4>1, <5>1 DEF Live
        <5>3. loads[k].turn # loads[l].turn
          BY <2>1, <5>1, <5>2 DEF ImagesInv, TurnsInv
        <5> QED BY <5>1, <5>3 DEF HasTwin
      <4>7. ASSUME NEW k \in DOMAIN loads, loads[k].turn = t, loads[k].url = loads[l].url
            PROVE  HasTwin(loads[l].url, loads[l].turn)
        <5>1. t # turn[d]
          BY <1>5, <2>1, <2>2 DEF ImagesInv, TurnsInv
        <5> QED BY <2>2, <4>7, <5>1 DEF HasTwin
      <4> QED BY <4>5, <4>6, <4>7
    <3> QED BY <3>1, <3>2
  <2> QED BY <1>3, <2>1, <2>3 DEF HasTwin, SameLoads
<1>14. CellInv'
  <2>1. ASSUME NEW d \in Cell, NEW j, d # c, RegularDue(d, j)
        PROVE  RegularDue(d, j)'
    BY <1>1, <1>3, <1>6, <2>1 DEF RegularDue, Created, SameLoads, Live
  <2>2. ASSUME NEW d \in Cell, d # c
        PROVE  Created(turn[d], "thumb")' = {} => Created(turn[d], "thumb") = {}
    BY <1>3, <1>6, <2>2 DEF Created, SameLoads
  <2> SUFFICES ASSUME NEW d \in Cell, item'[d] # 0
               PROVE  /\ image'[d] = NoImage => RegularDue(d, 0)'
                      /\ Created(turn[d], "thumb")' = {} =>
                            /\ image'[d] # NoImage /\ image'[d][2] = turn'[d] /\ image'[d][1][2] = "thumb"
                                  => RegularDue(d, 0)'
                            /\ \A j \in DOMAIN mainQueue' :
                                  mainQueue'[j].turn = turn'[d] /\ mainQueue'[j].url[2] = "thumb"
                                      => RegularDue(d, j)'
    BY DEF CellInv, OnScreen
  <2>3. d # c /\ OnScreen(d) /\ image'[d] = image[d] /\ turn'[d] = turn[d]
    BY <1>6 DEF OnScreen
  <2>4. /\ image[d] = NoImage => RegularDue(d, 0)
        /\ Created(turn[d], "thumb") = {} =>
              /\ image[d] # NoImage /\ image[d][2] = turn[d] /\ image[d][1][2] = "thumb"
                    => RegularDue(d, 0)
              /\ \A j \in DOMAIN mainQueue :
                    mainQueue[j].turn = turn[d] /\ mainQueue[j].url[2] = "thumb"
                        => RegularDue(d, j)
    BY <2>3 DEF ImagesInv, CellInv
  <2> QED BY <1>1, <2>1, <2>2, <2>3, <2>4
<1>15. AskingInv'
  BY <1>1 DEF AskingInv
<1> QED BY <1>8, <1>9, <1>10, <1>11, <1>12, <1>13, <1>14, <1>15 DEF ImagesInv

(***************************************************************************)
(* What a display adds: the cached images as blocks behind those that wait *)
(* and a provider for each of the others.                                  *)
(***************************************************************************)
LEMMA DisplayFacts ==
    ASSUME ImagesInv, NEW c \in Cell, NEW i \in 1..Items, NEW found,
           found \subseteq imageCashe, displays < MaxDisplays, i \in DOMAIN photoList,
           DisplayCell(c, i, found)
    PROVE  LET missing == Missing(photoList[i], found)
               cached == Cached(photoList[i], found)
               N == Len(loads)
               M == Len(mainQueue)
           IN /\ photoList[i] \in Photo
              /\ N \in Nat /\ DOMAIN loads = 1..N
              /\ M \in Nat /\ DOMAIN mainQueue = 1..M
              /\ missing \in Seq(Url) /\ cached \in Seq(Url)
              /\ loads' \in Seq(LoadRecord)
              /\ DOMAIN loads' = 1..N + Len(missing)
              /\ \A l \in DOMAIN loads :
                    /\ l \in DOMAIN loads'
                    /\ loads'[l].url = loads[l].url
                    /\ loads'[l].cell = loads[l].cell
                    /\ loads'[l].turn = loads[l].turn
                    /\ \/ loads'[l].phase = loads[l].phase
                             /\ (loads[l].phase \in Live /\ l \in providers => l \in providers')
                       \/ /\ loads'[l].phase = "cancelled"
                          /\ loads[l].phase \in Live
                          /\ loads[l].url \in imageCashe
              /\ \A k \in DOMAIN missing :
                    /\ N + k \in DOMAIN loads'
                    /\ loads'[N + k] = NewProvider(missing[k], c, displays + 1)
                    /\ \/ N + k \in providers'
                       \/ \E l \in providers : loads[l].url = missing[k]
              /\ \A l \in DOMAIN loads' : l \in DOMAIN loads \/ l - N \in DOMAIN missing
              /\ providers' \subseteq DOMAIN loads'
              /\ mainQueue' \in Seq(Block)
              /\ DOMAIN mainQueue' = 1..M + Len(cached)
              /\ \A k \in DOMAIN mainQueue :
                    k \in DOMAIN mainQueue' /\ mainQueue'[k] = mainQueue[k]
              /\ \A k \in DOMAIN cached :
                    /\ M + k \in DOMAIN mainQueue'
                    /\ mainQueue'[M + k] = BlockFor(cached[k], c, displays + 1)
              /\ \A k \in DOMAIN mainQueue' : k \in DOMAIN mainQueue \/ k - M \in DOMAIN cached
<1> DEFINE missing == Missing(photoList[i], found)
           cached == Cached(photoList[i], found)
           N == Len(loads)
           M == Len(mainQueue)
           u == displays + 1
           added == [k \in DOMAIN missing |-> NewProvider(missing[k], c, u)]
           blocks == [k \in DOMAIN cached |-> BlockFor(cached[k], c, u)]
           ls == loads \o added
           new == {l \in DOMAIN ls : l > N}
           ps == Insert(ls, providers, new)
           urls == {cached[k] : k \in DOMAIN cached}
           gone == Found(ls, ps, urls)
<1>1. /\ mainQueue' = mainQueue \o blocks
      /\ loads' = CancelAll(ls, gone)
      /\ providers' = ps \ gone
  BY DEF DisplayCell, DeleteProviders
<1>2. /\ loads \in Seq(LoadRecord) /\ N \in Nat /\ DOMAIN loads = 1..N
      /\ mainQueue \in Seq(Block) /\ M \in Nat /\ DOMAIN mainQueue = 1..M
      /\ providers \subseteq DOMAIN loads
      /\ \A l \in DOMAIN loads : loads[l] \in LoadRecord
  BY LenProperties, ElementOfSeq DEF ImagesInv, ImagesTypeOK
<1>3. photoList[i] \in Photo
  <2>1. photoList \in Lists
    BY DEF ImagesInv, ImagesTypeOK
  <2> QED BY <2>1, ListsAssumption
<1>4. u \in Display /\ u \in Nat
  BY ListsAssumption DEF ImagesInv, ImagesTypeOK, Display
<1>5. /\ missing \in Seq(Url) /\ Len(missing) \in Nat /\ DOMAIN missing = 1..Len(missing)
      /\ \A k \in DOMAIN missing : missing[k] \in Url /\ missing[k] \notin found
  BY <1>3, SelectedUrls, LenProperties, ElementOfSeq DEF Missing
<1>6. /\ cached \in Seq(Url) /\ Len(cached) \in Nat /\ DOMAIN cached = 1..Len(cached)
      /\ \A k \in DOMAIN cached : cached[k] \in Url /\ cached[k] \in found
  <2>1. /\ cached \in Seq(Url)
        /\ \A k \in DOMAIN cached : cached[k] \in found
    BY <1>3, SelectedUrls DEF Cached
  <2> HIDE DEF cached
  <2>2. Len(cached) \in Nat /\ DOMAIN cached = 1..Len(cached)
    BY <2>1, LenProperties
  <2> QED BY <2>1, <2>2, ElementOfSeq
<1> HIDE DEF missing, cached
<1>7. added \in Seq(LoadRecord) /\ Len(added) = Len(missing)
      /\ \A k \in DOMAIN missing : added[k] = NewProvider(missing[k], c, u)
  <2>1. \A k \in DOMAIN missing : NewProvider(missing[k], c, u) \in LoadRecord
    BY <1>4, <1>5 DEF NewProvider, LoadRecord, Phase
  <2>2. added \in [1..Len(missing) -> LoadRecord]
    BY <1>5, <2>1
  <2> QED BY <1>5, <2>2, SeqOfFunction
<1>8. blocks \in Seq(Block) /\ Len(blocks) = Len(cached)
      /\ \A k \in DOMAIN cached : blocks[k] = BlockFor(cached[k], c, u)
  <2>1. \A k \in DOMAIN cached : BlockFor(cached[k], c, u) \in Block
    BY <1>4, <1>6 DEF BlockFor, Block
  <2>2. blocks \in [1..Len(cached) -> Block]
    BY <1>6, <2>1
  <2> QED BY <1>6, <2>2, SeqOfFunction
<1> HIDE DEF added, blocks
<1>9. /\ mainQueue' \in Seq(Block)
      /\ DOMAIN mainQueue' = 1..M + Len(cached)
      /\ \A k \in DOMAIN mainQueue :
            k \in DOMAIN mainQueue' /\ mainQueue'[k] = mainQueue[k]
      /\ \A k \in DOMAIN cached :
            /\ M + k \in DOMAIN mainQueue'
            /\ mainQueue'[M + k] = BlockFor(cached[k], c, u)
      /\ \A k \in DOMAIN mainQueue' : k \in DOMAIN mainQueue \/ k - M \in DOMAIN cached
  <2>1. /\ mainQueue' \in Seq(Block) /\ Len(mainQueue') = M + Len(cached)
        /\ \A k \in 1..M + Len(cached) :
              mainQueue'[k] = IF k <= M THEN mainQueue[k] ELSE blocks[k - M]
    <3>1. /\ mainQueue \o blocks \in Seq(Block)
          /\ Len(mainQueue \o blocks) = M + Len(blocks)
          /\ \A k \in 1..M + Len(blocks) :
                (mainQueue \o blocks)[k] = IF k <= M THEN mainQueue[k] ELSE blocks[k - M]
      BY <1>2, <1>8, ConcatProperties
    <3> HIDE DEF M
    <3> QED BY <1>1, <1>8, <3>1
  <2>2. DOMAIN mainQueue' = 1..M + Len(cached)
    BY <2>1, LenProperties
  <2> HIDE DEF M
  <2>3. ASSUME NEW k \in DOMAIN cached
        PROVE  /\ M + k \in DOMAIN mainQueue'
               /\ mainQueue'[M + k] = BlockFor(cached[k], c, u)
    <3>1. M + k \in 1..M + Len(cached) /\ ~(M + k <= M) /\ (M + k) - M = k
      BY <1>2, <1>6
    <3> QED BY <1>8, <2>1, <2>2, <3>1
  <2>4. ASSUME NEW k \in DOMAIN mainQueue
        PROVE  k \in DOMAIN mainQueue' /\ mainQueue'[k] = mainQueue[k]
    BY <1>2, <1>6, <2>1, <2>2
  <2>5. ASSUME NEW k \in DOMAIN mainQueue'
        PROVE  k \in DOMAIN mainQueue \/ k - M \in DOMAIN cached
    BY <1>2, <1>6, <2>2
  <2> QED BY <2>1, <2>2, <2>3, <2>4, <2>5
<1>10. /\ ls \in Seq(LoadRecord) /\ DOMAIN ls = 1..N + Len(missing)
       /\ \A l \in DOMAIN loads : l \in DOMAIN ls /\ ls[l] = loads[l] /\ l \notin new
       /\ \A k \in DOMAIN missing :
             /\ N + k \in DOMAIN ls
             /\ ls[N + k] = NewProvider(missing[k], c, u)
             /\ N + k \in new
       /\ \A l \in DOMAIN ls : l \in DOMAIN loads \/ l - N \in DOMAIN missing
  <2>1. /\ ls \in Seq(LoadRecord) /\ Len(ls) = N + Len(missing)
        /\ \A l \in 1..N + Len(missing) :
              ls[l] = IF l <= N THEN loads[l] ELSE added[l - N]
    <3>1. /\ loads \o added \in Seq(LoadRecord)
          /\ Len(loads \o added) = N + Len(added)
          /\ \A l \in 1..N + Len(added) :
                (loads \o added)[l] = IF l <= N THEN loads[l] ELSE added[l - N]
      BY <1>2, <1>7, ConcatProperties
    <3> HIDE DEF N
    <3> QED BY <1>7, <3>1
  <2>2. DOMAIN ls = 1..N + Len(missing)
    BY <2>1, LenProperties
  <2> HIDE DEF N, ls
  <2>3. ASSUME NEW k \in DOMAIN missing
        PROVE  /\ N + k \in DOMAIN ls
               /\ ls[N + k] = NewProvider(missing[k], c, u)
               /\ N + k > N
    <3>1. N + k \in 1..N + Len(missing) /\ ~(N + k <= N) /\ (N + k) - N = k /\ N + k > N
      BY <1>2, <1>5
    <3> QED BY <1>7, <2>1, <2>2, <3>1
  <2>4. ASSUME NEW l \in DOMAIN loads
        PROVE  l \in DOMAIN ls /\ ls[l] = loads[l] /\ ~(l > N)
    BY <1>2, <1>5, <2>1, <2>2
  <2>5. ASSUME NEW l \in DOMAIN ls
        PROVE  l \in DOMAIN loads \/ l - N \in DOMAIN missing
    BY <1>2, <1>5, <2>2
  <2> QED BY <2>1, <2>2, <2>3, <2>4, <2>5
<1> HIDE DEF ls
<1>11. /\ ps \subseteq DOMAIN ls /\ providers \subseteq ps
       /\ \A l \in DOMAIN loads : l \in ps => l \in providers
       /\ \A k \in DOMAIN missing :
             \/ N + k \in ps
             \/ \E l \in providers : loads[l].url = missing[k]
  <2>1. ps \subseteq DOMAIN ls /\ providers \subseteq ps
    BY <1>2, <1>10 DEF Insert
  <2>2. \A l \in DOMAIN loads : l \in ps => l \in providers
    BY <1>10 DEF Insert
  <2>3. ASSUME NEW k \in DOMAIN missing, N + k \notin ps
        PROVE  \E l \in providers : loads[l].url = missing[k]
    <3>1. N + k \in new /\ ls[N + k].url = missing[k]
      <4>1. N + k \in new /\ ls[N + k] = NewProvider(missing[k], c, u)
        <5> HIDE DEF new, N
        <5> QED BY <1>10, <2>3
      <4> HIDE DEF new, N
      <4> QED BY <4>1 DEF NewProvider
    <3>2. PICK l \in providers : ls[l].url = missing[k]
      <4> HIDE DEF new
      <4> QED BY <2>3, <3>1 DEF Insert
    <3> QED BY <1>2, <1>10, <3>2
  <2> QED BY <2>1, <2>2, <2>3
<1> HIDE DEF new, ps
<1>12. /\ \A l \in gone : ls[l].url \in found
       /\ gone \subseteq ps
  BY <1>6 DEF Found
<1> HIDE DEF gone, urls
<1>13. /\ loads' \in Seq(LoadRecord)
       /\ DOMAIN loads' = DOMAIN ls
       /\ \A l \in DOMAIN ls :
             /\ loads'[l].url = ls[l].url
             /\ loads'[l].cell = ls[l].cell
             /\ loads'[l].turn = ls[l].turn
             /\ loads'[l].phase =
                   IF l \in gone /\ ls[l].phase \in Live THEN "cancelled" ELSE ls[l].phase
  BY <1>1, <1>10, CancelledLoads
<1>14. ASSUME NEW l \in DOMAIN loads
       PROVE  /\ l \in DOMAIN loads'
              /\ loads'[l].url = loads[l].url
              /\ loads'[l].cell = loads[l].cell
              /\ loads'[l].turn = loads[l].turn
              /\ \/ loads'[l].phase = loads[l].phase
                       /\ (loads[l].phase \in Live /\ l \in providers => l \in providers')
                 \/ /\ loads'[l].phase = "cancelled"
                    /\ loads[l].phase \in Live
                    /\ loads[l].url \in imageCashe
  <2>1. l \in DOMAIN ls /\ ls[l] = loads[l]
    BY <1>10
  <2>2. CASE l \in gone /\ loads[l].phase \in Live
    BY <1>12, <1>13, <2>1, <2>2
  <2>3. CASE ~(l \in gone /\ loads[l].phase \in Live)
    BY <1>1, <1>11, <1>13, <2>1, <2>3
  <2> QED BY <1>13, <2>1, <2>2, <2>3
<1>15. ASSUME NEW k \in DOMAIN missing
       PROVE  /\ N + k \in DOMAIN loads'
              /\ loads'[N + k] = NewProvider(missing[k], c, u)
              /\ \/ N + k \in providers'
                 \/ \E l \in providers : loads[l].url = missing[k]
  <2>1. N + k \in DOMAIN ls /\ ls[N + k] = NewProvider(missing[k], c, u)
    BY <1>10
  <2>2. N + k \notin gone
    BY <1>5, <1>12, <2>1 DEF NewProvider
  <2>3. loads'[N + k] = ls[N + k]
    <3>1. CancelAll(ls, gone)[N + k] = ls[N + k]
      BY <2>1, <2>2 DEF CancelAll
    <3> QED BY <1>1, <3>1
  <2> QED BY <1>1, <1>11, <1>13, <2>1, <2>2, <2>3
<1>16. providers' \subseteq DOMAIN loads'
  BY <1>1, <1>11, <1>13
<1> HIDE DEF N, M
<1> QED BY <1>2, <1>3, <1>5, <1>6, <1>9, <1>10, <1>13, <1>14, <1>15, <1>16
        DEF N, M, missing, cached

\* A new display has a number of its own and asks for both images.
LEMMA DisplayStep ==
    ASSUME ImagesInv, NEW c \in Cell, NEW i \in 1..Items, NEW found,
           found \subseteq imageCashe, displays < MaxDisplays, i \in DOMAIN photoList,
           DisplayCell(c, i, found), reloaded = {}, ~OnScreen(c), asking' = <<>>
    PROVE  ImagesInv'
<1> DEFINE missing == Missing(photoList[i], found)
           cached == Cached(photoList[i], found)
           photo == photoList[i]
           N == Len(loads)
           M == Len(mainQueue)
           u == displays + 1
<1>1. /\ reloaded = {} /\ ~OnScreen(c)
      /\ displays' = u
      /\ turn' = [turn EXCEPT ![c] = u]
      /\ item' = [item EXCEPT ![c] = i]
      /\ UNCHANGED <<photoList, image, reloaded, imageCashe, overdue, replaced>>
  BY DEF DisplayCell
<1>2. /\ photo \in Photo
      /\ N \in Nat /\ DOMAIN loads = 1..N
      /\ M \in Nat /\ DOMAIN mainQueue = 1..M
      /\ missing \in Seq(Url) /\ cached \in Seq(Url)
      /\ loads' \in Seq(LoadRecord)
      /\ providers' \subseteq DOMAIN loads'
      /\ mainQueue' \in Seq(Block)
  BY DisplayFacts
<1>3. \A l \in DOMAIN loads :
          /\ l \in DOMAIN loads'
          /\ loads'[l].url = loads[l].url
          /\ loads'[l].cell = loads[l].cell
          /\ loads'[l].turn = loads[l].turn
          /\ \/ loads'[l].phase = loads[l].phase
                   /\ (loads[l].phase \in Live /\ l \in providers => l \in providers')
             \/ /\ loads'[l].phase = "cancelled"
                /\ loads[l].phase \in Live
                /\ loads[l].url \in imageCashe
  BY DisplayFacts
<1>4. \A k \in DOMAIN missing :
          /\ N + k \in DOMAIN loads'
          /\ loads'[N + k].url = missing[k]
          /\ loads'[N + k].cell = c
          /\ loads'[N + k].turn = u
          /\ loads'[N + k].phase = "loading"
          /\ N + k \in providers' \/ \E l \in providers : loads[l].url = missing[k]
  <2>1. \A k \in DOMAIN missing :
            /\ N + k \in DOMAIN loads'
            /\ loads'[N + k] = NewProvider(missing[k], c, u)
            /\ N + k \in providers' \/ \E l \in providers : loads[l].url = missing[k]
    BY DisplayFacts
  <2> HIDE DEF missing, N, u
  <2>2. ASSUME NEW k \in DOMAIN missing
        PROVE  /\ loads'[N + k].url = missing[k]
               /\ loads'[N + k].cell = c
               /\ loads'[N + k].turn = u
               /\ loads'[N + k].phase = "loading"
    <3>1. loads'[N + k] = NewProvider(missing[k], c, u)
      BY <2>1
    <3>2. /\ NewProvider(missing[k], c, u).url = missing[k]
          /\ NewProvider(missing[k], c, u).cell = c
          /\ NewProvider(missing[k], c, u).turn = u
          /\ NewProvider(missing[k], c, u).phase = "loading"
      BY DEF NewProvider
    <3> QED BY <3>1, <3>2
  <2> QED BY <2>1, <2>2
<1>5. \A l \in DOMAIN loads' : l \in DOMAIN loads \/ l - N \in DOMAIN missing
  BY DisplayFacts
<1>6. /\ \A k \in DOMAIN mainQueue : k \in DOMAIN mainQueue' /\ mainQueue'[k] = mainQueue[k]
      /\ \A k \in DOMAIN mainQueue' : k \in DOMAIN mainQueue \/ k - M \in DOMAIN cached
  BY DisplayFacts
<1>7. \A k \in DOMAIN cached :
          /\ M + k \in DOMAIN mainQueue'
          /\ mainQueue'[M + k].url = cached[k]
          /\ mainQueue'[M + k].cell = c
          /\ mainQueue'[M + k].turn = u
  <2>1. \A k \in DOMAIN cached :
            /\ M + k \in DOMAIN mainQueue'
            /\ mainQueue'[M + k] = BlockFor(cached[k], c, u)
    BY DisplayFacts
  <2> HIDE DEF cached, M, u
  <2>2. ASSUME NEW k \in DOMAIN cached
        PROVE  /\ mainQueue'[M + k].url = cached[k]
               /\ mainQueue'[M + k].cell = c
               /\ mainQueue'[M + k].turn = u
    <3>1. mainQueue'[M + k] = BlockFor(cached[k], c, u)
      BY <2>1
    <3>2. /\ BlockFor(cached[k], c, u).url = cached[k]
          /\ BlockFor(cached[k], c, u).cell = c
          /\ BlockFor(cached[k], c, u).turn = u
      BY DEF BlockFor
    <3> QED BY <3>1, <3>2
  <2> QED BY <2>1, <2>2
<1>8. /\ \A k \in DOMAIN missing : missing[k] \in Url /\ missing[k][1] = photo
      /\ \A j, k \in DOMAIN missing : missing[j] = missing[k] => j = k
      /\ \A kind \in Kind : <<photo, kind>> \notin found =>
            \E k \in DOMAIN missing : missing[k] = <<photo, kind>>
      /\ \A k \in DOMAIN missing : k \in Nat /\ k >= 1
  <2>1. \A kind \in Kind : <<photo, kind>> \in Url
    BY <1>2 DEF Url
  <2> DEFINE absent == Url \ found
  <2>2. missing = UrlsIn(photo, absent)
    BY DEF Missing
  <2> HIDE DEF missing, photo, absent
  <2>3. /\ \A k \in DOMAIN missing : missing[k] \in absent /\ missing[k][1] = photo
        /\ \A j, k \in DOMAIN missing : missing[j] = missing[k] => j = k
        /\ \A kind \in Kind : <<photo, kind>> \in absent =>
              \E k \in DOMAIN missing : missing[k] = <<photo, kind>>
    <3>1. photo \in Photo
      BY <1>2
    <3>2. \A k \in DOMAIN UrlsIn(photo, absent) :
              UrlsIn(photo, absent)[k] \in absent /\ UrlsIn(photo, absent)[k][1] = photo
      BY <3>1, SelectedUrls
    <3>3. \A j, k \in DOMAIN UrlsIn(photo, absent) :
              UrlsIn(photo, absent)[j] = UrlsIn(photo, absent)[k] => j = k
      BY <3>1, SelectedUrls
    <3>4. ASSUME NEW kind \in Kind, <<photo, kind>> \in absent
          PROVE  \E k \in DOMAIN missing : missing[k] = <<photo, kind>>
      <4> DEFINE url == <<photo, kind>>
      <4>1. url \in Url /\ url \in absent /\ url[1] = photo
        BY <2>1, <3>4
      <4> HIDE DEF url
      <4>2. \E k \in DOMAIN UrlsIn(photo, absent) : UrlsIn(photo, absent)[k] = url
        BY <3>1, <4>1, SelectedUrls
      <4>3. \E k \in DOMAIN missing : missing[k] = url
        BY <2>2, <4>2
      <4> QED BY <4>3 DEF url
    <3> QED BY <2>2, <3>2, <3>3, <3>4
  <2> USE DEF absent
  <2>4. DOMAIN missing = 1..Len(missing) /\ Len(missing) \in Nat
    BY <1>2, LenProperties
  <2>5. \A k \in DOMAIN missing : missing[k] \in Url /\ missing[k][1] = photo
    BY <2>3
  <2>6. \A j, k \in DOMAIN missing : missing[j] = missing[k] => j = k
    BY <2>3
  <2>7. \A kind \in Kind : <<photo, kind>> \notin found =>
            \E k \in DOMAIN missing : missing[k] = <<photo, kind>>
    BY <2>1, <2>3
  <2>8. \A k \in DOMAIN missing : k \in Nat /\ k >= 1
    BY <2>4
  <2> QED BY <2>5, <2>6, <2>7, <2>8
<1>9. /\ \A kind \in Kind : <<photo, kind>> \in found =>
            \E k \in DOMAIN cached : cached[k] = <<photo, kind>>
      /\ \A j \in DOMAIN cached :
            cached[j][2] = "thumb" /\ <<photo, "regular">> \in found =>
                \E k \in DOMAIN cached : k > j /\ cached[k] = <<photo, "regular">>
      /\ \A k \in DOMAIN cached : k \in Nat /\ k >= 1
  <2>1. /\ \A kind \in Kind : <<photo, kind>> \in found =>
              \E k \in DOMAIN cached : cached[k] = <<photo, kind>>
        /\ \A j \in DOMAIN cached :
              cached[j][2] = "thumb" /\ <<photo, "regular">> \in found =>
                  \E k \in DOMAIN cached : k > j /\ cached[k] = <<photo, "regular">>
    <3>1. /\ photo \in Photo /\ found \subseteq Url
          /\ cached = UrlsIn(photo, found)
      BY <1>2 DEF Cached, ImagesInv, ImagesTypeOK
    <3> HIDE DEF cached, photo
    <3>2. ASSUME NEW kind \in Kind, <<photo, kind>> \in found
          PROVE  \E k \in DOMAIN cached : cached[k] = <<photo, kind>>
      <4> DEFINE url == <<photo, kind>>
      <4>1. url \in Url /\ url \in found /\ url[1] = photo
        BY <3>1, <3>2
      <4> HIDE DEF url
      <4>2. \E k \in DOMAIN UrlsIn(photo, found) : UrlsIn(photo, found)[k] = url
        BY <3>1, <4>1, SelectedUrls
      <4>3. \E k \in DOMAIN cached : cached[k] = url
        BY <3>1, <4>2
      <4> QED BY <4>3 DEF url
    <3>3. \A j \in DOMAIN cached :
              cached[j][2] = "thumb" /\ <<photo, "regular">> \in found =>
                  \E k \in DOMAIN cached : k > j /\ cached[k] = <<photo, "regular">>
      BY <3>1, SelectedUrls
    <3> QED BY <3>2, <3>3
  <2> HIDE DEF cached, photo
  <2>2. DOMAIN cached = 1..Len(cached) /\ Len(cached) \in Nat
    BY <1>2, LenProperties
  <2>3. \A k \in DOMAIN cached : k \in Nat /\ k >= 1
    BY <2>2
  <2> QED BY <2>1, <2>3
<1> HIDE DEF missing, cached, N, M
<1>10. /\ displays \in Nat /\ u \in Nat /\ u >= 1 /\ u <= MaxDisplays
       /\ item \in [Cell -> 0..Items] /\ turn \in [Cell -> 0..MaxDisplays]
       /\ MaxDisplays \in Nat /\ Items \in Nat
  BY <1>1, ListsAssumption DEF ImagesInv, ImagesTypeOK
<1>11. /\ turn'[c] = u /\ item'[c] = i /\ i # 0 /\ image'[c] = NoImage /\ turn[c] = 0
       /\ \A d \in Cell : d # c => turn'[d] = turn[d] /\ item'[d] = item[d]
       /\ \A d \in Cell : image'[d] = image[d]
  <2>1. image[c] = NoImage /\ turn[c] = 0
    BY <1>1 DEF ImagesInv, TurnsInv
  <2>2. i # 0
    BY <1>10
  <2> QED BY <1>1, <1>10, <2>1, <2>2
<1>12. \A l \in DOMAIN loads :
          /\ loads[l].turn <= displays /\ loads[l].turn # u /\ loads[l].turn # 0
          /\ loads[l].turn \in Nat /\ loads[l].cell \in Cell /\ loads[l].url \in Url
  <2>1. \A l \in DOMAIN loads :
           /\ loads[l].turn \in Display /\ loads[l].turn <= displays
           /\ loads[l].cell \in Cell /\ loads[l].url \in Url
    BY LoadFacts DEF ImagesInv, TurnsInv
  <2> QED BY <1>10, <2>1 DEF Display
<1>13. \A k \in DOMAIN mainQueue :
          /\ mainQueue[k].turn <= displays /\ mainQueue[k].turn # u /\ mainQueue[k].turn # 0
          /\ mainQueue[k].turn \in Nat /\ mainQueue[k].cell \in Cell
  <2>1. \A k \in DOMAIN mainQueue :
           /\ mainQueue[k].turn \in Display /\ mainQueue[k].turn <= displays
           /\ mainQueue[k].cell \in Cell
    BY LoadFacts DEF ImagesInv, TurnsInv
  <2> QED BY <1>10, <2>1 DEF Display
<1>14. \A d \in Cell : OnScreen(d) => d # c /\ turn[d] \in Nat /\ turn[d] <= displays /\ turn[d] # u
                                    /\ turn[d] >= 1
  BY <1>1, <1>10 DEF ImagesInv, TurnsInv
\* A provider after the step is one from before it, or one of this display.
<1>15. ASSUME NEW l \in DOMAIN loads', l \notin DOMAIN loads
       PROVE  /\ l - N \in DOMAIN missing
              /\ loads'[l].url = missing[l - N] /\ loads'[l].cell = c
              /\ loads'[l].turn = u /\ loads'[l].phase = "loading"
              /\ l \in providers' \/ \E k \in providers : loads[k].url = loads'[l].url
  <2>1. l - N \in DOMAIN missing
    BY <1>5, <1>15
  <2>2. l \in Int /\ N + (l - N) = l
    <3>1. DOMAIN loads' = 1..Len(loads')
      BY <1>2, LenProperties
    <3>2. Len(loads') \in Nat
      BY <1>2, LenProperties
    <3> QED BY <1>2, <3>1, <3>2
  <2> QED BY <1>4, <2>1, <2>2
<1>16. ASSUME NEW k \in DOMAIN mainQueue', k \notin DOMAIN mainQueue
       PROVE  /\ k - M \in DOMAIN cached
              /\ mainQueue'[k].url = cached[k - M] /\ mainQueue'[k].cell = c
              /\ mainQueue'[k].turn = u
              /\ k \in Nat
  <2>1. k - M \in DOMAIN cached
    BY <1>6, <1>16
  <2>2. k \in Nat /\ M + (k - M) = k
    <3>1. DOMAIN mainQueue' = 1..Len(mainQueue')
      BY <1>2, LenProperties
    <3>2. Len(mainQueue') \in Nat
      BY <1>2, LenProperties
    <3> QED BY <1>2, <3>1, <3>2
  <2> QED BY <1>7, <2>1, <2>2
<1> HIDE DEF u
<1>17. ImagesTypeOK'
  <2>1. item' \in [Cell -> 0..Items] /\ turn' \in [Cell -> 0..MaxDisplays]
        /\ displays' \in 0..MaxDisplays
    BY <1>1, <1>10
  <2> QED BY <1>1, <1>2, <2>1 DEF ImagesInv, ImagesTypeOK
<1>18. TurnsInv'
  <2>1. \A d \in Cell : IF item'[d] # 0 THEN turn'[d] \in 1..displays'
                        ELSE turn'[d] = 0 /\ image'[d] = NoImage
    <3>1. ASSUME NEW d \in Cell, d # c, OnScreen(d) PROVE turn[d] \in 1..u
      BY <1>10, <1>14, <3>1 DEF u
    <3> QED BY <1>1, <1>10, <1>11, <3>1 DEF ImagesInv, TurnsInv, OnScreen
  <2>2. \A d, e \in Cell : item'[d] # 0 /\ turn'[d] = turn'[e] => d = e
    <3>1. ASSUME NEW d \in Cell, NEW e \in Cell, item'[d] # 0, turn'[d] = turn'[e], d # e
          PROVE  FALSE
      <4>1. CASE d = c
        <5>1. turn[e] = u /\ u # 0
          BY <1>10, <1>11, <3>1, <4>1
        <5>2. OnScreen(e)
          BY <5>1 DEF ImagesInv, TurnsInv
        <5> QED BY <1>14, <5>1, <5>2
      <4>2. CASE e = c
        <5>1. turn[d] = u /\ OnScreen(d)
          BY <1>11, <3>1, <4>2 DEF OnScreen
        <5> QED BY <1>14, <5>1
      <4>3. CASE d # c /\ e # c
        BY <1>11, <3>1, <4>3 DEF ImagesInv, TurnsInv, OnScreen
      <4> QED BY <4>1, <4>2, <4>3
    <3> QED BY <3>1
  <2>3. ASSUME NEW l \in DOMAIN loads'
        PROVE  /\ loads'[l].turn <= displays'
               /\ \A d \in Cell : item'[d] # 0 /\ turn'[d] = loads'[l].turn => loads'[l].cell = d
               /\ \A k \in DOMAIN loads' :
                     loads'[k].url = loads'[l].url /\ loads'[k].turn = loads'[l].turn => k = l
    <3>1. CASE l \in DOMAIN loads
      <4>1. loads'[l].turn <= displays'
        BY <1>1, <1>3, <1>10, <1>12, <3>1 DEF u
      <4>2. ASSUME NEW d \in Cell, item'[d] # 0, turn'[d] = loads'[l].turn
            PROVE  loads'[l].cell = d
        <5>1. d # c /\ OnScreen(d) /\ turn[d] = loads[l].turn
          BY <1>3, <1>11, <1>12, <3>1, <4>2 DEF OnScreen
        <5> QED BY <1>3, <3>1, <5>1 DEF ImagesInv, TurnsInv
      <4>3. ASSUME NEW k \in DOMAIN loads', loads'[k].url = loads'[l].url,
                   loads'[k].turn = loads'[l].turn
            PROVE  k = l
        <5>1. k \in DOMAIN loads
          BY <1>3, <1>12, <1>15, <3>1, <4>3
        <5> QED BY <1>3, <3>1, <4>3, <5>1 DEF ImagesInv, TurnsInv
      <4> QED BY <4>1, <4>2, <4>3
    <3>2. CASE l \notin DOMAIN loads
      <4>1. loads'[l].turn = u /\ loads'[l].cell = c
        BY <1>15, <3>2
      <4>2. ASSUME NEW d \in Cell, item'[d] # 0, turn'[d] = u
            PROVE  d = c
        BY <1>11, <2>2, <4>2
      <4>3. ASSUME NEW k \in DOMAIN loads', loads'[k].url = loads'[l].url,
                   loads'[k].turn = loads'[l].turn
            PROVE  k = l
        <5>1. k \notin DOMAIN loads
          BY <1>3, <1>12, <4>1, <4>3
        <5>2. /\ k - N \in DOMAIN missing /\ l - N \in DOMAIN missing
              /\ missing[k - N] = missing[l - N]
          BY <1>15, <3>2, <4>3, <5>1
        <5>3. k - N = l - N
          BY <1>8, <5>2
        <5>4. DOMAIN loads' = 1..Len(loads') /\ Len(loads') \in Nat
          BY <1>2, LenProperties
        <5>5. k \in Int /\ l \in Int
          BY <5>4
        <5> QED BY <1>2, <5>3, <5>5
      <4>4. loads'[l].turn <= displays'
        BY <1>1, <1>10, <4>1
      <4> QED BY <4>1, <4>2, <4>3, <4>4
    <3> QED BY <3>1, <3>2
  <2>4. ASSUME NEW k \in DOMAIN mainQueue'
        PROVE  /\ mainQueue'[k].turn <= displays'
               /\ \A d \in Cell :
                     item'[d] # 0 /\ turn'[d] = mainQueue'[k].turn => mainQueue'[k].cell = d
    <3>1. CASE k \in DOMAIN mainQueue
      <4>1. mainQueue'[k] = mainQueue[k] /\ mainQueue'[k].turn <= displays'
        BY <1>1, <1>6, <1>10, <1>13, <3>1 DEF u
      <4>2. ASSUME NEW d \in Cell, item'[d] # 0, turn'[d] = mainQueue'[k].turn
            PROVE  mainQueue'[k].cell = d
        <5>1. d # c /\ OnScreen(d) /\ turn[d] = mainQueue[k].turn
          BY <1>11, <1>13, <3>1, <4>1, <4>2 DEF OnScreen
        <5> QED BY <3>1, <4>1, <5>1 DEF ImagesInv, TurnsInv
      <4> QED BY <4>1, <4>2
    <3>2. CASE k \notin DOMAIN mainQueue
      <4>1. mainQueue'[k].turn = u /\ mainQueue'[k].cell = c
        BY <1>16, <3>2
      <4>2. ASSUME NEW d \in Cell, item'[d] # 0, turn'[d] = u
            PROVE  d = c
        BY <1>11, <2>2, <4>2
      <4> QED BY <1>1, <1>10, <4>1, <4>2
    <3> QED BY <3>1, <3>2
  <2> QED BY <2>1, <2>2, <2>3, <2>4 DEF TurnsInv, OnScreen
<1>19. ListInv'
  <2>1. ASSUME NEW d \in Cell, item'[d] # 0
        PROVE  /\ item'[d] \in DOMAIN photoList'
               /\ \A l \in DOMAIN loads' :
                     loads'[l].turn = turn'[d] => loads'[l].url[1] = photoList'[item'[d]]
               /\ \A kind \in Kind :
                     \/ <<photoList'[item'[d]], kind>> \in imageCashe'
                     \/ \E l \in DOMAIN loads' : /\ loads'[l].turn = turn'[d]
                                                 /\ loads'[l].url = <<photoList'[item'[d]], kind>>
    <3>1. CASE d = c
      <4>1. item'[d] = i /\ turn'[d] = u /\ photoList'[item'[d]] = photo
            /\ imageCashe' = imageCashe /\ i \in DOMAIN photoList'
        BY <1>1, <1>11, <3>1
      <4> HIDE DEF photo
      <4>2. ASSUME NEW l \in DOMAIN loads', loads'[l].turn = u PROVE loads'[l].url[1] = photo
        <5>1. l \notin DOMAIN loads
          BY <1>3, <1>12, <4>2
        <5> QED BY <1>8, <1>15, <5>1
      <4>3. ASSUME NEW kind \in Kind, <<photo, kind>> \notin imageCashe
            PROVE  \E l \in DOMAIN loads' : /\ loads'[l].turn = u
                                            /\ loads'[l].url = <<photo, kind>>
        <5>1. PICK k \in DOMAIN missing : missing[k] = <<photo, kind>>
          BY <1>8, <4>3
        <5> QED BY <1>4, <5>1
      <4> QED BY <4>1, <4>2, <4>3
    <3>2. CASE d # c
      <4>1. OnScreen(d) /\ item'[d] = item[d] /\ turn'[d] = turn[d]
            /\ photoList' = photoList /\ imageCashe' = imageCashe
        BY <1>1, <1>11, <2>1, <3>2 DEF OnScreen
      <4>2. /\ item[d] \in DOMAIN photoList
            /\ \A l \in DOMAIN loads :
                  loads[l].turn = turn[d] => loads[l].url[1] = photoList[item[d]]
            /\ \A kind \in Kind :
                  \/ <<photoList[item[d]], kind>> \in imageCashe
                  \/ \E l \in DOMAIN loads : /\ loads[l].turn = turn[d]
                                             /\ loads[l].url = <<photoList[item[d]], kind>>
        BY <1>1, <4>1 DEF ImagesInv, ListInv
      <4>3. ASSUME NEW l \in DOMAIN loads', loads'[l].turn = turn[d]
            PROVE  loads'[l].url[1] = photoList[item[d]]
        <5>1. l \in DOMAIN loads
          BY <1>14, <1>15, <4>1, <4>3
        <5> QED BY <1>3, <4>2, <4>3, <5>1
      <4>4. ASSUME NEW kind \in Kind, <<photoList[item[d]], kind>> \notin imageCashe
            PROVE  \E l \in DOMAIN loads' : /\ loads'[l].turn = turn[d]
                                            /\ loads'[l].url = <<photoList[item[d]], kind>>
        BY <1>3, <4>2, <4>4
      <4> QED BY <4>1, <4>2, <4>3, <4>4
    <3> QED BY <3>1, <3>2
  <2>2. reloaded' = {}
    BY <1>1
  <2> QED BY <2>1, <2>2 DEF ListInv, OnScreen
<1>20. ProvidersInv'
  <2>1. ASSUME NEW url \in imageCashe'
        PROVE  \E l \in DOMAIN loads' : loads'[l].url = url /\ loads'[l].phase = "delivered"
    <3>1. PICK l \in DOMAIN loads : loads[l].url = url /\ loads[l].phase = "delivered"
      BY <1>1 DEF ImagesInv, ProvidersInv
    <3> QED BY <1>3, <3>1 DEF Live
  <2>2. ASSUME NEW l \in DOMAIN loads', loads'[l].phase \in Live, l \notin providers'
        PROVE  \E k \in DOMAIN loads' : /\ loads'[k].url = loads'[l].url
                                        /\ loads'[k].turn # loads'[l].turn
    <3>1. CASE l \in DOMAIN loads
      <4>1. loads[l].phase \in Live /\ l \notin providers
        BY <1>3, <2>2, <3>1 DEF Live
      <4>2. PICK k \in DOMAIN loads : loads[k].url = loads[l].url /\ loads[k].turn # loads[l].turn
        BY <3>1, <4>1 DEF ImagesInv, ProvidersInv, HasTwin
      <4> QED BY <1>3, <3>1, <4>2
    <3>2. CASE l \notin DOMAIN loads
      <4>1. PICK k \in providers : loads[k].url = loads'[l].url
        BY <1>15, <2>2, <3>2
      <4>2. k \in DOMAIN loads
        BY <4>1 DEF ImagesInv, ImagesTypeOK
      <4> QED BY <1>3, <1>12, <1>15, <3>2, <4>1, <4>2
    <3> QED BY <3>1, <3>2
  <2> QED BY <2>1, <2>2 DEF ProvidersInv, HasTwin
<1>21. DeliveryInv'
  <2>1. \A url, t : Excused(url, t) => Excused(url, t)'
    BY <1>1, <1>3 DEF Excused, HasTwin
  <2>2. ASSUME NEW l \in DOMAIN loads', loads'[l].phase \in Live \cup {"output"},
               turn'[loads'[l].cell] # loads'[l].turn
        PROVE  l \in DOMAIN loads /\ Excused(loads[l].url, loads[l].turn)
    <3>1. l \in DOMAIN loads
      BY <1>11, <1>15, <2>2
    <3>2. loads[l].phase \in Live \cup {"output"}
      BY <1>3, <2>2, <3>1 DEF Live
    <3>3. turn[loads[l].cell] # loads[l].turn
      <4>1. CASE loads[l].cell = c
        BY <1>11, <1>12, <3>1, <4>1
      <4>2. CASE loads[l].cell # c
        BY <1>3, <1>11, <1>12, <2>2, <3>1, <4>2
      <4> QED BY <4>1, <4>2
    <3> QED BY <3>1, <3>2, <3>3 DEF ImagesInv, DeliveryInv
  <2>3. ASSUME NEW k \in DOMAIN mainQueue', turn'[mainQueue'[k].cell] # mainQueue'[k].turn
        PROVE  k \in DOMAIN mainQueue /\ Excused(mainQueue[k].url, mainQueue[k].turn)
    <3>1. k \in DOMAIN mainQueue
      BY <1>11, <1>16, <2>3
    <3>2. turn[mainQueue[k].cell] # mainQueue[k].turn
      <4>1. CASE mainQueue[k].cell = c
        BY <1>11, <1>13, <3>1, <4>1
      <4>2. CASE mainQueue[k].cell # c
        BY <1>6, <1>11, <1>13, <2>3, <3>1, <4>2
      <4> QED BY <4>1, <4>2
    <3> QED BY <3>1, <3>2 DEF ImagesInv, DeliveryInv
  <2>4. ASSUME NEW d \in Cell, item'[d] # 0, image'[d] # NoImage, image'[d][2] # turn'[d]
        PROVE  Excused(image'[d][1], image'[d][2])
    <3>1. d # c /\ OnScreen(d) /\ turn'[d] = turn[d] /\ image'[d] = image[d]
      BY <1>11, <2>4 DEF OnScreen
    <3> QED BY <2>4, <3>1 DEF ImagesInv, DeliveryInv
  <2>5. \A l \in DOMAIN loads' :
            /\ loads'[l].phase \in Live \cup {"output"}
            /\ turn'[loads'[l].cell] # loads'[l].turn
            => Excused(loads[l].url, loads[l].turn)'
    <3> SUFFICES ASSUME NEW l \in DOMAIN loads', loads'[l].phase \in Live \cup {"output"},
                        turn'[loads'[l].cell] # loads'[l].turn
                 PROVE  Excused(loads[l].url, loads[l].turn)'
      OBVIOUS
    <3>1. l \in DOMAIN loads /\ Excused(loads[l].url, loads[l].turn)
      BY <2>2
    <3>2. loads'[l].url = loads[l].url /\ loads'[l].turn = loads[l].turn
      BY <1>3, <3>1
    <3>3. \/ <<loads'[l].turn, loads'[l].url[2]>> \in overdue'
          \/ loads'[l].turn \in replaced'
          \/ \E m \in DOMAIN loads' : /\ loads'[m].url = loads'[l].url
                                      /\ loads'[m].turn # loads'[l].turn
      BY <1>1, <1>3, <3>1, <3>2 DEF Excused, HasTwin
    <3> QED BY <3>3 DEF Excused, HasTwin
  <2>6. \A k \in DOMAIN mainQueue' :
            turn'[mainQueue'[k].cell] # mainQueue'[k].turn
            => Excused(mainQueue[k].url, mainQueue[k].turn)'
    <3> SUFFICES ASSUME NEW k \in DOMAIN mainQueue',
                        turn'[mainQueue'[k].cell] # mainQueue'[k].turn
                 PROVE  Excused(mainQueue[k].url, mainQueue[k].turn)'
      OBVIOUS
    <3>1. k \in DOMAIN mainQueue /\ Excused(mainQueue[k].url, mainQueue[k].turn)
      BY <2>3
    <3>2. mainQueue'[k] = mainQueue[k]
      BY <1>6, <3>1
    <3>3. \/ <<mainQueue'[k].turn, mainQueue'[k].url[2]>> \in overdue'
          \/ mainQueue'[k].turn \in replaced'
          \/ \E m \in DOMAIN loads' : /\ loads'[m].url = mainQueue'[k].url
                                      /\ loads'[m].turn # mainQueue'[k].turn
      BY <1>1, <1>3, <3>1, <3>2 DEF Excused, HasTwin
    <3> QED BY <3>3 DEF Excused, HasTwin
  <2>7. \A d \in Cell :
            item'[d] # 0 /\ image'[d] # NoImage /\ image'[d][2] # turn'[d]
            => Excused(image[d][1], image[d][2])'
    BY <2>1, <2>4 DEF Excused, HasTwin
  <2> QED BY <2>5, <2>6, <2>7 DEF DeliveryInv, OnScreen
<1>22. CurrentLoadCancelledOnlyByTwin'
  <2> SUFFICES ASSUME NEW l \in DOMAIN loads', loads'[l].phase = "cancelled",
                      item'[loads'[l].cell] # 0,
                      turn'[loads'[l].cell] = loads'[l].turn
               PROVE  \E k \in DOMAIN loads' : /\ loads'[k].url = loads'[l].url
                                               /\ loads'[k].turn # loads'[l].turn
    BY DEF CurrentLoadCancelledOnlyByTwin, HasTwin
  <2>1. l \in DOMAIN loads
    BY <1>15
  <2>2. /\ loads[l].cell \in Cell /\ loads[l].cell # c /\ OnScreen(loads[l].cell)
        /\ turn[loads[l].cell] = loads[l].turn
    BY <1>3, <1>11, <1>12, <2>1 DEF OnScreen
  <2>3. CASE loads[l].phase = "cancelled"
    <3>1. HasTwin(loads[l].url, loads[l].turn)
      BY <1>1, <2>1, <2>2, <2>3 DEF ImagesInv, CurrentLoadCancelledOnlyByTwin, OnScreen
    <3> QED BY <1>3, <2>1, <3>1 DEF HasTwin
  <2>4. CASE loads[l].phase # "cancelled"
    <3>1. loads[l].phase \in Live /\ loads[l].url \in imageCashe
      BY <1>3, <2>1, <2>4
    <3>2. PICK k \in DOMAIN loads : loads[k].url = loads[l].url /\ loads[k].phase = "delivered"
      BY <3>1 DEF ImagesInv, ProvidersInv
    <3>3. k # l
      BY <3>1, <3>2 DEF Live
    <3>4. loads[k].turn # loads[l].turn
      BY <2>1, <3>2, <3>3 DEF ImagesInv, TurnsInv
    <3> QED BY <1>3, <2>1, <3>2, <3>4
  <2> QED BY <2>3, <2>4
<1>23. CellInv'
  <2>1. ASSUME NEW d \in Cell, NEW j, d # c, RegularDue(d, j)
        PROVE  RegularDue(d, j)'
    BY <1>3, <1>6, <1>11, <2>1 DEF RegularDue, Created
  <2>2. ASSUME NEW d \in Cell, d # c, Created(turn[d], "thumb")' = {}
        PROVE  Created(turn[d], "thumb") = {}
    BY <1>3, <1>11, <2>2 DEF Created
  <2>3. ASSUME NEW d \in Cell, d # c, item'[d] # 0
        PROVE  /\ image'[d] = NoImage => RegularDue(d, 0)'
               /\ Created(turn[d], "thumb")' = {} =>
                     /\ image'[d] # NoImage /\ image'[d][2] = turn'[d] /\ image'[d][1][2] = "thumb"
                           => RegularDue(d, 0)'
                     /\ \A j \in DOMAIN mainQueue' :
                           mainQueue'[j].turn = turn'[d] /\ mainQueue'[j].url[2] = "thumb"
                               => RegularDue(d, j)'
    <3>1. OnScreen(d) /\ image'[d] = image[d] /\ turn'[d] = turn[d]
      BY <1>11, <2>3 DEF OnScreen
    <3>2. /\ image[d] = NoImage => RegularDue(d, 0)
          /\ Created(turn[d], "thumb") = {} =>
                /\ image[d] # NoImage /\ image[d][2] = turn[d] /\ image[d][1][2] = "thumb"
                      => RegularDue(d, 0)
                /\ \A j \in DOMAIN mainQueue :
                      mainQueue[j].turn = turn[d] /\ mainQueue[j].url[2] = "thumb"
                          => RegularDue(d, j)
      BY <3>1 DEF ImagesInv, CellInv
    <3>3. \A j \in DOMAIN mainQueue' :
              mainQueue'[j].turn = turn'[d] => j \in DOMAIN mainQueue /\ mainQueue'[j] = mainQueue[j]
      BY <1>6, <1>14, <1>16, <3>1
    <3> QED BY <2>1, <2>2, <2>3, <3>1, <3>2, <3>3
  <2> DEFINE regular == <<photo, "regular">>
  <2>4. "regular" \in Kind /\ regular[2] = "regular"
    BY DEF Kind
  <2> HIDE DEF photo
  <2>5. ASSUME regular \notin found, NEW j PROVE RegularDue(c, j)'
    <3>1. PICK k \in DOMAIN missing : missing[k] = regular
      BY <1>8, <2>4, <2>5
    <3>2. /\ N + k \in DOMAIN loads' /\ loads'[N + k].turn = u
          /\ loads'[N + k].url[2] = "regular" /\ loads'[N + k].phase # "delivered"
      BY <1>4, <2>4, <3>1
    <3> QED BY <1>11, <3>2 DEF RegularDue, Created
  <2>6. ASSUME regular \in found PROVE RegularDue(c, 0)'
    <3>1. PICK k \in DOMAIN cached : cached[k] = regular
      BY <1>9, <2>4, <2>6
    <3>2. M + k > 0
      BY <1>2, <1>9
    <3>3. M + k \in DOMAIN mainQueue' /\ mainQueue'[M + k].turn = u
          /\ mainQueue'[M + k].url[2] = "regular"
      BY <1>7, <2>4, <3>1
    <3> QED BY <1>11, <3>2, <3>3 DEF RegularDue
  <2>7. ASSUME regular \in found, NEW j \in DOMAIN mainQueue',
               mainQueue'[j].turn = u, mainQueue'[j].url[2] = "thumb"
        PROVE  RegularDue(c, j)'
    <3>1. j \notin DOMAIN mainQueue
      BY <1>6, <1>13, <2>7
    <3>2. j - M \in DOMAIN cached /\ cached[j - M][2] = "thumb" /\ j \in Nat
      BY <1>16, <2>7, <3>1
    <3>3. PICK k \in DOMAIN cached : k > j - M /\ cached[k] = regular
      BY <1>9, <2>7, <3>2
    <3>4. M + k > j
      BY <1>2, <1>9, <3>2, <3>3
    <3>5. M + k \in DOMAIN mainQueue' /\ mainQueue'[M + k].turn = u
          /\ mainQueue'[M + k].url[2] = "regular"
      BY <1>7, <2>4, <3>3
    <3> QED BY <1>11, <3>4, <3>5 DEF RegularDue
  <2> HIDE DEF regular
  <2>8. ASSUME NEW d \in Cell, d = c
        PROVE  /\ image'[d] = NoImage => RegularDue(d, 0)'
               /\ Created(turn[d], "thumb")' = {} =>
                     /\ image'[d] # NoImage /\ image'[d][2] = turn'[d] /\ image'[d][1][2] = "thumb"
                           => RegularDue(d, 0)'
                     /\ \A j \in DOMAIN mainQueue' :
                           mainQueue'[j].turn = turn'[d] /\ mainQueue'[j].url[2] = "thumb"
                               => RegularDue(d, j)'
    BY <1>11, <2>5, <2>6, <2>7, <2>8
  <2> QED BY <2>3, <2>8 DEF CellInv, OnScreen
<1>24. AskingInv'
  BY DEF AskingInv
<1> QED BY <1>17, <1>18, <1>19, <1>20, <1>21, <1>22, <1>23, <1>24 DEF ImagesInv

\* A look into the cache changes nothing else, and what it finds stays there.
LEMMA LookStep ==
    ASSUME ImagesInv, LookForRegular \/ \E c \in Cell, i \in 1..Items : LookForThumb(c, i)
    PROVE  ImagesInv'
<1>1. UNCHANGED <<photoList, item, image, reloaded, imageCashe, providers, loads, mainQueue,
                  displays, turn, overdue, replaced>>
  BY DEF LookForThumb, LookForRegular, imageVars, displayVars
<1>2. (asking' = <<>> \/ \E call \in Asking : asking' = <<call>>) /\ AskingInv'
  <2>1. ASSUME NEW c \in Cell, NEW i \in 1..Items, LookForThumb(c, i)
        PROVE  (asking' = <<>> \/ \E call \in Asking : asking' = <<call>>) /\ AskingInv'
    <3> DEFINE call == [cell |-> c, item |-> i, looked |-> "thumb",
                        found |-> InCashe(photoList[i], "thumb")]
    <3>1. /\ asking' = <<call>> /\ displays < MaxDisplays /\ reloaded = {} /\ ~OnScreen(c)
          /\ i \in DOMAIN photoList
      BY <2>1 DEF LookForThumb, OnScreen
    <3>2. InCashe(photoList[i], "thumb") \subseteq imageCashe
      BY DEF InCashe
    <3>3. /\ call \in Asking /\ call.cell = c /\ call.item = i
          /\ call.found \subseteq imageCashe
      BY <3>2 DEF Asking, Kind, ImagesInv, ImagesTypeOK
    <3> HIDE DEF call
    <3>4. asking'[1] = call
      BY <3>1
    <3> QED BY <1>1, <3>1, <3>3, <3>4 DEF AskingInv, OnScreen
  <2>2. CASE LookForRegular
    <3>1. PICK call \in Asking : asking = <<call>>
      BY <2>2 DEF LookForRegular, ImagesInv, ImagesTypeOK
    <3> DEFINE more == InCashe(photoList[call.item], "regular")
               next == [call EXCEPT !.looked = "regular", !.found = @ \cup more]
    <3>2. asking' = <<next>>
      BY <2>2, <3>1 DEF LookForRegular
    <3>3. /\ displays < MaxDisplays /\ reloaded = {} /\ ~OnScreen(call.cell)
          /\ call.item \in DOMAIN photoList /\ call.found \subseteq imageCashe
      BY <3>1 DEF ImagesInv, AskingInv
    <3>4. more \subseteq imageCashe
      BY DEF InCashe
    <3> HIDE DEF more
    <3>5. /\ next \in Asking /\ next.cell = call.cell /\ next.item = call.item
          /\ next.found \subseteq imageCashe
      BY <3>1, <3>3, <3>4 DEF Asking, Kind, ImagesInv, ImagesTypeOK
    <3> HIDE DEF next
    <3>6. asking'[1] = next
      BY <3>2
    <3> QED BY <1>1, <3>2, <3>3, <3>5, <3>6 DEF AskingInv, OnScreen
  <2> QED BY <2>1, <2>2
<1>3. ImagesTypeOK'
  BY <1>1, <1>2 DEF ImagesInv, ImagesTypeOK
<1>4. TurnsInv'
  BY <1>1 DEF ImagesInv, TurnsInv, OnScreen
<1>5. ListInv'
  BY <1>1 DEF ImagesInv, ListInv, OnScreen
<1>6. ProvidersInv'
  BY <1>1 DEF ImagesInv, ProvidersInv, HasTwin
<1>7. DeliveryInv'
  BY <1>1 DEF ImagesInv, DeliveryInv, Excused, HasTwin, OnScreen
<1>8. CurrentLoadCancelledOnlyByTwin'
  BY <1>1 DEF ImagesInv, CurrentLoadCancelledOnlyByTwin, HasTwin
<1>9. CellInv'
  BY <1>1 DEF ImagesInv, CellInv, RegularDue, Created, OnScreen
<1> QED BY <1>2, <1>3, <1>4, <1>5, <1>6, <1>7, <1>8, <1>9 DEF ImagesInv

\* Every step keeps the invariant.
LEMMA ImagesStepHolds == ImagesInv /\ [ImagesNext]_imagesVars => ImagesInv'
<1> SUFFICES ASSUME ImagesInv, [ImagesNext]_imagesVars PROVE ImagesInv'
  OBVIOUS
<1>1. CASE SearchBegins \/ SetCollectionView
  BY <1>1, ResetStep
<1>2. CASE WillDisplayCell
  <2>1. PICK call \in Asking : asking = <<call>>
    BY <1>2 DEF WillDisplayCell, ImagesInv, ImagesTypeOK
  <2>2. /\ DisplayCell(call.cell, call.item, call.found) /\ asking' = <<>>
        /\ call.cell \in Cell /\ call.item \in 1..Items
    BY <1>2, <2>1 DEF WillDisplayCell, Asking
  <2>3. /\ displays < MaxDisplays /\ reloaded = {} /\ ~OnScreen(call.cell)
        /\ call.item \in DOMAIN photoList /\ call.found \subseteq imageCashe
    BY <2>1 DEF ImagesInv, AskingInv
  <2> QED BY <2>2, <2>3, DisplayStep
<1>3. ASSUME NEW c \in Cell, DidEndDisplayingCell(c) PROVE ImagesInv'
  BY <1>3, DidEndDisplayingStep
<1>4. CASE RunBlock
  BY <1>4, RunBlockStep
<1>5. ASSUME NEW l \in DOMAIN loads, LoadStep(l) PROVE ImagesInv'
  BY <1>5, PhaseStep, DeliverStep DEF LoadStep
<1>6. CASE LookForRegular \/ \E c \in Cell, i \in 1..Items : LookForThumb(c, i)
  BY <1>6, LookStep
<1>7. CASE UNCHANGED imagesVars
  <2>1. UNCHANGED <<photoList, item, image, reloaded, imageCashe, providers, asking, loads,
                    mainQueue, displays, turn, overdue, replaced>>
    BY <1>7 DEF imagesVars, imageVars, presenterVars, displayVars
  <2>2. ImagesTypeOK'
    BY <2>1 DEF ImagesInv, ImagesTypeOK
  <2>3. TurnsInv'
    BY <2>1 DEF ImagesInv, TurnsInv, OnScreen
  <2>4. ListInv'
    BY <2>1 DEF ImagesInv, ListInv, OnScreen
  <2>5. ProvidersInv'
    BY <2>1 DEF ImagesInv, ProvidersInv, HasTwin
  <2>6. DeliveryInv'
    BY <2>1 DEF ImagesInv, DeliveryInv, Excused, HasTwin, OnScreen
  <2>7. CurrentLoadCancelledOnlyByTwin'
    BY <2>1 DEF ImagesInv, CurrentLoadCancelledOnlyByTwin, HasTwin
  <2>8. CellInv'
    BY <2>1 DEF ImagesInv, CellInv, RegularDue, Created, OnScreen
  <2>9. AskingInv'
    BY <2>1 DEF ImagesInv, AskingInv, OnScreen
  <2> QED BY <2>2, <2>3, <2>4, <2>5, <2>6, <2>7, <2>8, <2>9 DEF ImagesInv
<1> QED BY <1>1, <1>2, <1>3, <1>4, <1>5, <1>6, <1>7 DEF ImagesNext

(***************************************************************************)
(* Displays are told apart by their numbers, a provider that goes on after *)
(* its display has an excuse, and a cell without its regular image has     *)
(* one to come.                                                            *)
(***************************************************************************)
THEOREM ImagesInvariant == ImagesSpec => []ImagesInv
<1> QED BY ImagesInitHolds, ImagesStepHolds, PTL DEF ImagesSpec

(***************************************************************************)
(* An image of an earlier display is shown only if it was past the reach   *)
(* of cancel() when that display ended, or if the cancellation missed it.  *)
(***************************************************************************)
THEOREM ForeignImages == ImagesSpec => []ForeignImageOnlyIfNotCancelled
<1>1. ImagesInv => ForeignImageOnlyIfNotCancelled
  BY DEF ImagesInv, DeliveryInv, ForeignImageOnlyIfNotCancelled, Excused, OnScreen
<1> QED BY <1>1, ImagesInvariant, PTL

(***************************************************************************)
(* The provider of a photo still shown is cancelled only through a second  *)
(* provider for its URL.                                                   *)
(***************************************************************************)
THEOREM CancelledByTwin == ImagesSpec => []CurrentLoadCancelledOnlyByTwin
<1>1. ImagesInv => CurrentLoadCancelledOnlyByTwin
  BY DEF ImagesInv
<1> QED BY <1>1, ImagesInvariant, PTL

(***************************************************************************)
(* With nothing under way a cell shows an image unless its regular one did *)
(* not come, and no cached thumb covers a regular image.                   *)
(***************************************************************************)
THEOREM CellsSettle == ImagesSpec => []SettledCellShowsImage
<1>1. ImagesInv => SettledCellShowsImage
  <2> SUFFICES ASSUME ImagesInv, NEW c \in Cell, Settled, item[c] # 0,
                      \A l \in Created(turn[c], "regular") : loads[l].phase = "delivered"
               PROVE  /\ image[c] # NoImage
                      /\ image[c][2] = turn[c] /\ image[c][1][2] = "thumb"
                            => Created(turn[c], "thumb") # {}
    BY DEF SettledCellShowsImage
  <2>1. DOMAIN mainQueue = {}
    BY DEF Settled
  <2>2. ~RegularDue(c, 0)
    BY <2>1 DEF RegularDue
  <2> QED BY <2>2 DEF ImagesInv, CellInv, OnScreen
<1> QED BY <1>1, ImagesInvariant, PTL
=============================================================================
