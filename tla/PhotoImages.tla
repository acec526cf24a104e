----------------------------- MODULE PhotoImages -----------------------------
(***************************************************************************)
(* The images of UnsplashApp's collection: UnsplashVC asks the presenter   *)
(* for the thumb and the regular image of a photo when its cell comes on   *)
(* the screen, the presenter answers from its cache or creates an          *)
(* ImageLoadProvider, and the image reaches the cell through a block of    *)
(* the main queue.  Cells are reused for other photos; ending the display  *)
(* of a cell cancels the providers of the photo at its index.              *)
(*                                                                         *)
(* The layout, its delegate calls and the blocks run on the main thread.   *)
(* The completion of a provider runs on the thread of its output operation *)
(* and touches the presenter's cache and sets from there, at any moment:   *)
(* also after the main thread has looked for an image in the cache and     *)
(* before it has put the provider for it into a set.  The completion       *)
(* itself is one step.  (Swift gives no meaning to the unsynchronised      *)
(* accesses themselves.)                                                   *)
(*                                                                         *)
(* A provider is its two operations.  What AsyncOperation says of the load *)
(* operation in detail is one step here: its callback has stored the image *)
(* and .finished, which start() may have overwritten.                      *)
(***************************************************************************)
EXTENDS Integers, Sequences

CONSTANTS
    Photo,          \* the photos the server knows
    Cell,           \* the cells of the reuse pool
    Lists,          \* the lists of photos a search may bring
    Items,          \* the length of each
    MaxDisplays,    \* bound on the calls of willDisplay
    NoImage         \* nil in the place of a cell's image

ASSUME ListsAssumption ==
    /\ Items \in Nat
    /\ MaxDisplays \in Nat
    /\ Lists \subseteq [1..Items -> Photo]

VARIABLES
    photoList,  \* photos of UnsplashVC
    item,       \* the index a cell is displayed for, 0 in the reuse pool
    image,      \* photoImageView.image of each cell on the screen, with the
                \* display that asked for it
    imageCashe, \* the URLs whose image the presenter has
    loads,      \* the providers created, in that order
    providers,  \* those in imageThumbProviders or imageRegularProviders
    asking,     \* the call of willDisplay under way on the main thread, if any
    mainQueue,  \* the blocks that wait for the main thread
    reloaded,   \* cells displayed at a reloadData, until the layout ends them
    displays,   \* the number of displays so far
    turn,       \* the number of the display of each cell on the screen
                \* (history variable)
    overdue,    \* <<display, kind>> delivered, or about to be, when the
                \* display ended (history variable)
    replaced    \* displays that ended after the list was reset (history variable)

imageVars == <<photoList, item, image, reloaded>>
presenterVars == <<imageCashe, providers, asking>>
displayVars == <<displays, turn, overdue, replaced>>
imagesVars == <<imageVars, presenterVars, loads, mainQueue, displayVars>>

Kind == {"thumb", "regular"}
Url == Photo \X Kind
Display == 1..MaxDisplays

\* No image is nil.
ASSUME NoImageAssumption == \A shown \in Url \X Display : shown # NoImage

(***************************************************************************)
(* "loading": no answer yet; "loaded": the image is there and the output   *)
(* operation may start; "output": it is in main(); "delivered": the        *)
(* completion has run; "failed": the output operation got nil, which       *)
(* loadPhoto drops, or never starts, .finished having been overwritten;    *)
(* "cancelled": before its output operation had started.                   *)
(***************************************************************************)
Phase == {"loading", "loaded", "output", "delivered", "failed", "cancelled"}
Block == [url : Url, cell : Cell, turn : Display]
LoadRecord == [url : Url, cell : Cell, turn : Display, phase : Phase]

\* A call of willDisplay for a cell and an index: the kind of image it has
\* looked for last, and those of the photo's URLs it found in the cache.
Asking == [cell : Cell, item : 1..Items, looked : Kind, found : SUBSET Url]

ImagesTypeOK ==
    /\ photoList \in Lists \cup {<<>>}
    /\ item \in [Cell -> 0..Items]
    /\ image \in [Cell -> (Url \X Display) \cup {NoImage}]
    /\ imageCashe \subseteq Url
    /\ loads \in Seq(LoadRecord)
    /\ providers \subseteq DOMAIN loads
    /\ asking = <<>> \/ \E call \in Asking : asking = <<call>>
    /\ mainQueue \in Seq(Block)
    /\ reloaded \subseteq Cell
    /\ displays \in 0..MaxDisplays
    /\ turn \in [Cell -> 0..MaxDisplays]
    /\ overdue \subseteq Display \X Kind
    /\ replaced \subseteq Display

ImagesInit ==
    /\ photoList = <<>>
    /\ item = [c \in Cell |-> 0]
    /\ image = [c \in Cell |-> NoImage]
    /\ imageCashe = {}
    /\ loads = <<>>
    /\ providers = {}
    /\ asking = <<>>
    /\ mainQueue = <<>>
    /\ reloaded = {}
    /\ displays = 0
    /\ turn = [c \in Cell |-> 0]
    /\ overdue = {}
    /\ replaced = {}

-----------------------------------------------------------------------------
\* The providers of ls and ps that a deletion by URL finds.
Found(ls, ps, urls) == {l \in ps : ls[l].url \in urls}

(***************************************************************************)
(* cancel() of each provider of gone.  An output operation that is in      *)
(* main() already delivers all the same: main() does not return after      *)
(* completion(nil), and goes on to completion(inputImage).                 *)
(***************************************************************************)
CancelAll(ls, gone) ==
    [l \in DOMAIN ls |->
        IF l \in gone /\ ls[l].phase \in {"loading", "loaded"}
        THEN [ls[l] EXCEPT !.phase = "cancelled"]
        ELSE ls[l]]

\* Mutant: the set forgets the provider, which goes on.
DeleteWithoutCancel(ls, ps, urls) ==
    /\ loads' = ls
    /\ providers' = ps \ Found(ls, ps, urls)

\* Mutant: the filter by URL is forgotten.
DeleteEveryProvider(ls, ps, urls) ==
    /\ loads' = CancelAll(ls, ps)
    /\ providers' = {}

(***************************************************************************)
(* deleteThumbImageProvider and deleteRegularImageProvider: the providers  *)
(* of the URLs that are in a set are cancelled and leave it.  (ls and ps   *)
(* are the providers and the sets at that point of the caller.)            *)
(***************************************************************************)
DeleteProviders(ls, ps, urls) ==
    /\ loads' = CancelAll(ls, Found(ls, ps, urls))
    /\ providers' = ps \ Found(ls, ps, urls)

\* A block that hands the image of url to the cell of a display.
BlockFor(url, c, t) == [url |-> url, cell |-> c, turn |-> t]

NewProvider(url, c, t) ==
    [url |-> url, cell |-> c, turn |-> t, phase |-> "loading"]

\* Set.insert: an element equal to one of the set, by its URL, is not added.
Insert(ls, ps, new) ==
    ps \cup {l \in new : \A k \in ps : ls[k].url # ls[l].url}

\* Mutant: the regular image is asked for before the thumb.
RegularFirst(photo) == <<<<photo, "regular">>, <<photo, "thumb">>>>

\* The URLs of a photo in the order willDisplay asks for them.
UrlsOf(photo) == <<<<photo, "thumb">>, <<photo, "regular">>>>

\* Those of them that are in S, in that order.
UrlsIn(photo, S) ==
    LET part(url) == IF url \in S THEN <<url>> ELSE <<>>
    IN part(UrlsOf(photo)[1]) \o part(UrlsOf(photo)[2])

Missing(photo, found) == UrlsIn(photo, Url \ found)

\* The completion is called at once for what the cache had.
Cached(photo, found) == UrlsIn(photo, found)

\* What a look into the cache for the photo's image of a kind finds.
InCashe(photo, kind) == imageCashe \cap {<<photo, kind>>}

\* The main thread is not in the middle of a call.
MainThreadIdle == asking = <<>>

(***************************************************************************)
(* cellForItemAt takes cell c, without an image, from the pool; then       *)
(* willDisplay looks for the thumb of the photo at index i in the cache.   *)
(***************************************************************************)
LookForThumb(c, i) ==
    /\ MainThreadIdle
    /\ displays < MaxDisplays
    /\ reloaded = {}
    /\ item[c] = 0
    /\ i \in DOMAIN photoList
    /\ \A d \in Cell : item[d] # i
    /\ asking' = <<[cell |-> c, item |-> i, looked |-> "thumb",
                    found |-> InCashe(photoList[i], "thumb")]>>
    /\ UNCHANGED <<imageVars, imageCashe, providers, loads, mainQueue, displayVars>>

\* ... and for its regular image.
LookForRegular ==
    /\ asking # <<>>
    /\ asking[1].looked = "thumb"
    /\ asking' = [asking EXCEPT
           ![1].looked = "regular",
           ![1].found = @ \cup InCashe(photoList[asking[1].item], "regular")]
    /\ UNCHANGED <<imageVars, imageCashe, providers, loads, mainQueue, displayVars>>

(***************************************************************************)
(* What comes of it: an image found is put into the main queue, and the    *)
(* completion drops the URL's provider; for the others a provider is       *)
(* created and inserted, whether or not the cache has got the image since. *)
(***************************************************************************)
DisplayCell(c, i, found) ==
    /\ displays' = displays + 1
    /\ turn' = [turn EXCEPT ![c] = displays']
    /\ item' = [item EXCEPT ![c] = i]
    /\ UNCHANGED image
    /\ LET missing == Missing(photoList[i], found)
           cached == Cached(photoList[i], found)
           ls == loads \o [k \in DOMAIN missing |->
                              NewProvider(missing[k], c, displays')]
           new == {l \in DOMAIN ls : l > Len(loads)}
       IN /\ mainQueue' = mainQueue \o [k \in DOMAIN cached |->
                                           BlockFor(cached[k], c, displays')]
          /\ DeleteProviders(ls, Insert(ls, providers, new),
                             {cached[k] : k \in DOMAIN cached})
    /\ UNCHANGED <<photoList, reloaded, imageCashe, overdue, replaced>>

WillDisplayCell ==
    /\ asking # <<>>
    /\ asking[1].looked = "regular"
    /\ DisplayCell(asking[1].cell, asking[1].item, asking[1].found)
    /\ asking' = <<>>

\* What of display t is on its way and no longer stopped by a cancel().
UnderWay(t) ==
    {loads[l].url[2] : l \in {k \in DOMAIN loads :
                                 loads[k].turn = t /\ loads[k].phase = "output"}}
        \cup {mainQueue[k].url[2] : k \in {j \in DOMAIN mainQueue :
                                              mainQueue[j].turn = t}}

(***************************************************************************)
(* didEndDisplaying: the cell goes back to the pool, where its image is of *)
(* no interest (prepareForReuse clears it), and the providers of the photo *)
(* at its index are cancelled.  The list may have been reset since the     *)
(* cell was displayed: nothing is cancelled if it is empty, and the        *)
(* providers of another photo if it has been filled again.                 *)
(***************************************************************************)
DidEndDisplayingCell(c) ==
    /\ MainThreadIdle
    /\ item[c] # 0
    /\ reloaded = {} \/ c \in reloaded
    /\ item' = [item EXCEPT ![c] = 0]
    /\ image' = [image EXCEPT ![c] = NoImage]
    /\ turn' = [turn EXCEPT ![c] = 0]
    /\ reloaded' = reloaded \ {c}
    /\ IF photoList = <<>>
         THEN UNCHANGED <<loads, providers>>
         ELSE DeleteProviders(loads, providers, {photoList[item[c]]} \X Kind)
    /\ overdue' = overdue \cup ({turn[c]} \X UnderWay(turn[c]))
    /\ replaced' = IF c \in reloaded THEN replaced \cup {turn[c]} ELSE replaced
    /\ UNCHANGED <<photoList, imageCashe, asking, mainQueue, displays>>

\* A search begins: the list is reset and the collection reloaded.
SearchBegins ==
    /\ MainThreadIdle
    /\ photoList # <<>>
    /\ photoList' = <<>>
    /\ reloaded' = {c \in Cell : item[c] # 0}
    /\ UNCHANGED <<item, image, presenterVars, loads, mainQueue, displayVars>>

\* setCollectionView with the first page of the search.
SetCollectionView ==
    /\ MainThreadIdle
    /\ photoList = <<>>
    /\ photoList' \in Lists
    /\ reloaded' = {c \in Cell : item[c] # 0}
    /\ UNCHANGED <<item, image, presenterVars, loads, mainQueue, displayVars>>

\* The main queue runs its first block: the cell it captured gets the image,
\* whatever it is displayed for by now.
RunBlock ==
    /\ MainThreadIdle
    /\ mainQueue # <<>>
    /\ mainQueue' = Tail(mainQueue)
    /\ LET block == Head(mainQueue)
       IN image' = [image EXCEPT ![block.cell] =
                       IF item[block.cell] = 0 THEN @ ELSE <<block.url, block.turn>>]
    /\ UNCHANGED <<photoList, item, reloaded, presenterVars, loads, displayVars>>

-----------------------------------------------------------------------------
SetPhase(l, phase) == loads' = [loads EXCEPT ![l].phase = phase]

\* The request of a provider that was not cancelled is answered: with an
\* image, or not.
ImageAnswer(l) ==
    /\ loads[l].phase = "loading"
    /\ \E phase \in {"loaded", "failed"} : SetPhase(l, phase)
    /\ UNCHANGED <<imageVars, presenterVars, mainQueue, displayVars>>

\* start() of the output operation: it is not cancelled, and enters main().
StartOutput(l) ==
    /\ loads[l].phase = "loaded"
    /\ SetPhase(l, "output")
    /\ UNCHANGED <<imageVars, presenterVars, mainQueue, displayVars>>

(***************************************************************************)
(* The presenter's completion: the image is cached, its block goes to the  *)
(* main queue, and the provider that is in the set for the URL by now,     *)
(* this one or another, is dropped.                                        *)
(***************************************************************************)
Deliver(l) ==
    /\ loads[l].phase = "output"
    /\ imageCashe' = imageCashe \cup {loads[l].url}
    /\ mainQueue' = Append(mainQueue,
                           BlockFor(loads[l].url, loads[l].cell, loads[l].turn))
    /\ DeleteProviders([loads EXCEPT ![l].phase = "delivered"], providers,
                       {loads[l].url})
    /\ UNCHANGED <<imageVars, asking, displayVars>>

LoadStep(l) == ImageAnswer(l) \/ StartOutput(l) \/ Deliver(l)

ImagesNext ==
    \/ SearchBegins
    \/ SetCollectionView
    \/ \E c \in Cell, i \in 1..Items : LookForThumb(c, i)
    \/ LookForRegular
    \/ WillDisplayCell
    \/ \E c \in Cell : DidEndDisplayingCell(c)
    \/ RunBlock
    \/ \E l \in DOMAIN loads : LoadStep(l)

ImagesSpec == ImagesInit /\ [][ImagesNext]_imagesVars

-----------------------------------------------------------------------------
\* Another provider was created for the URL of display t.
HasTwin(url, t) == \E l \in DOMAIN loads : loads[l].url = url /\ loads[l].turn # t

(***************************************************************************)
(* A cell on the screen shows an image that an earlier display asked for   *)
(* only if that delivery was past the reach of cancel() when its display   *)
(* ended, or escaped the cancellation: photos had been reset, or two       *)
(* providers for one URL met in the set.  (The variables keep their types, *)
(* too.)                                                                   *)
(***************************************************************************)
ForeignImageOnlyIfNotCancelled ==
    /\ ImagesTypeOK
    /\ \A c \in Cell :
          item[c] # 0 /\ image[c] # NoImage /\ image[c][2] # turn[c]
              => LET url == image[c][1]
                     t == image[c][2]
                 IN \/ <<t, url[2]>> \in overdue
                    \/ t \in replaced
                    \/ HasTwin(url, t)

(***************************************************************************)
(* A provider whose cell still shows its photo is cancelled before it has  *)
(* delivered only because of a second provider for the same URL: one that  *)
(* outlived its own cancellation and whose completion then drops its       *)
(* successor, or one of another cell with the same photo.                  *)
(***************************************************************************)
CurrentLoadCancelledOnlyByTwin ==
    \A l \in DOMAIN loads :
        LET c == loads[l].cell
        IN /\ loads[l].phase = "cancelled"
           /\ item[c] # 0 /\ turn[c] = loads[l].turn /\ c \notin reloaded
           => HasTwin(loads[l].url, loads[l].turn)

\* Nothing is under way any more.
Settled ==
    /\ mainQueue = <<>>
    /\ \A l \in DOMAIN loads :
          loads[l].phase \in {"delivered", "failed", "cancelled"}

\* A provider created by display t for an image of the given kind.
Created(t, kind) ==
    {l \in DOMAIN loads : loads[l].turn = t /\ loads[l].url[2] = kind}

(***************************************************************************)
(* When nothing is under way any more a cell on the screen has an image,   *)
(* unless its regular one failed or was cancelled.  It is the thumb of its *)
(* photo only if the thumb had to be loaded and came last: a thumb from    *)
(* the cache never covers a regular image.                                 *)
(***************************************************************************)
SettledCellShowsImage ==
    \A c \in Cell :
        /\ Settled
        /\ item[c] # 0
        /\ \A l \in Created(turn[c], "regular") : loads[l].phase = "delivered"
        => /\ image[c] # NoImage
           /\ image[c][2] = turn[c] /\ image[c][1][2] = "thumb"
                 => Created(turn[c], "thumb") # {}
=============================================================================
