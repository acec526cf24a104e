----------------------------- MODULE AtmClusters -----------------------------
(***************************************************************************)
(* The map of ATMs of BankUI: AtmsMapVC, which groups the ATMs anew for    *)
(* each zoom level and draws a marker for each group, and the grouping:    *)
(* the clustering of AtmsMapPresenter, on the OrderedDictionary of keys    *)
(* (places) and values (the ATMs grouped there).  The first pass lets each *)
(* ATM join a place within the distance, which then moves half way towards *)
(* the ATM.  The second joins places that have come close.                 *)
(*                                                                         *)
(* All of it runs on the main thread: a change of the zoom clears the map  *)
(* and groups in one go, but the markers are drawn by a block of the main  *)
(* queue that takes the grouping as it finds it.  A reload, when the map   *)
(* opens or the filters' screen closes, takes the ATMs from Realm anew,    *)
(* groups them for the default distance whatever the zoom is, and does not *)
(* clear the map.                                                          *)
(*                                                                         *)
(* The algorithm only uses distances and mid-points; here they are those   *)
(* of a plane, whose unit is small enough to be halved as often as places  *)
(* are joined.                                                             *)
(***************************************************************************)
EXTENDS Integers, SequencesExt

CONSTANTS
    Site,           \* where ATMs may be
    User,           \* where the user is
    Lists,          \* the lists of ATMs that Realm may hold when the map opens
    Reloaded,       \* those that a later reload may bring
    Atms,           \* the most ATMs of a list
    Distances,      \* within which ATMs are grouped, one for each zoom level
    Default,        \* that of a reload: .twoHundredMeters
    MaxReloads,     \* bound on the reloads after the map has opened
    MaxPending      \* bound on the blocks that wait to draw markers

Coordinate == Nat \X Nat

ASSUME SiteAssumption == Site \cup {User} \subseteq Coordinate
ASSUME AtmsAssumption == Atms \in Nat
ASSUME DistanceAssumption == Distances \subseteq Nat \ {0} /\ Default \in Distances
ASSUME ReloadsAssumption == MaxReloads \in Nat
ASSUME PendingAssumption == MaxPending \in Nat \ {0, 1}

VARIABLES
    zoom,       \* the zoom level: the distance it stands for
    distance,   \* the one grouped for
    pending,    \* blocks of the main queue that are to draw the markers
    markers,    \* the bag of markers on the map: their place and number
    reloads,    \* how many reloads there were since the map opened
    redrawn,    \* there was a reload since the map was last cleared (history variable)
    zoomOverlapped, \* a block was waiting when the zoom last changed (history variable)
    at,         \* at[a]: the place of sortedByDistanceATMs[a]
    keys,       \* orderedClasteredATMs.keys
    values,     \* orderedClasteredATMs.values
    pass,       \* "first", "second" or "done"
    index,      \* the loop variable of the pass
    location,   \* of the second pass: keys[index] when its round began
    i,          \* the variable of its inner loop
    bound,      \* the end of its inner loop; 0 before the loop
    collided,   \* places met in a mid-point that was a key (history variable)
    reinserted  \* a place was inserted twice (history variable)

dictVars == <<keys, values>>
loopVars == <<pass, index, location, i, bound>>
historyVars == <<collided, reinserted>>
mapHistoryVars == <<reloads, redrawn, zoomOverlapped>>
mapVars == <<zoom, distance, pending, markers, mapHistoryVars>>
clustersVars == <<at, dictVars, loopVars, historyVars, mapVars>>

AtmIndex == 1..Atms
Square(n) == n * n
Gap(x, y) == Square(x[1] - y[1]) + Square(x[2] - y[2])
Near(x, y) == Gap(x, y) < Square(distance)
Middle(x, y) == <<(x[1] + y[1]) \div 2, (x[2] + y[2]) \div 2>>

\* Realm's ATMs come sorted by their distance from the user.
SortedByDistance(l) ==
    \A a, b \in DOMAIN l : a < b => Gap(User, l[a]) <= Gap(User, l[b])

ASSUME ListsAssumption ==
    /\ Reloaded \subseteq Lists
    /\ \A l \in Lists : l \in Seq(Site) /\ Len(l) <= Atms /\ SortedByDistance(l)

ClustersTypeOK ==
    /\ {zoom, distance} \subseteq Distances
    /\ pending \in 0..MaxPending
    /\ IsABag(markers)
    /\ reloads \in 0..MaxReloads
    /\ redrawn \in BOOLEAN
    /\ zoomOverlapped \in BOOLEAN
    /\ at \in Seq(Site) /\ Len(at) <= Atms
    /\ keys \in Seq(Coordinate)
    /\ DOMAIN values \subseteq Coordinate
    /\ \A x \in DOMAIN values : values[x] \in Seq(AtmIndex)
    /\ pass \in {"first", "second", "done"}
    /\ index \in 0..Atms
    /\ location \in Coordinate
    /\ i \in 0..Atms
    /\ bound \in 0..Atms
    /\ collided \in BOOLEAN
    /\ reinserted \in BOOLEAN

(***************************************************************************)
(* The screen opens.  AtmsMapVC.viewDidLoad has loaded the map and grouped *)
(* its ATMs, whose block waits if there are any, and reloadDataForVC of    *)
(* ATMAddressBaseVC.viewDidLoad loads it again: the second grouping of the *)
(* same ATMs begins.                                                       *)
(***************************************************************************)
ClustersInit ==
    /\ at \in Lists
    /\ zoom = Default
    /\ distance = Default
    /\ pending = IF at = <<>> THEN 0 ELSE 1
    /\ markers = EmptyBag
    /\ reloads = 0
    /\ redrawn = TRUE
    /\ zoomOverlapped = FALSE
    /\ keys = <<>>
    /\ values = [x \in {} |-> <<>>]
    /\ pass = "first"
    /\ index = 0
    /\ location = User
    /\ i = 0
    /\ bound = 0
    /\ collided = FALSE
    /\ reinserted = FALSE

-----------------------------------------------------------------------------
\* OrderedDictionary.count: -1 if there are not as many keys as values.
Count(ks, vs) == IF Len(ks) = Cardinality(DOMAIN vs) THEN Len(ks) ELSE -1

\* Mutant: only the value is removed.
KeysKept(ks, x) == ks

\* dictionary[key] = nil: keys.filter
KeysWithout(ks, x) ==
    LET kept[n \in 0..Len(ks)] ==
            IF n = 0 THEN <<>>
            ELSE IF ks[n] # x THEN Append(kept[n - 1], ks[n])
            ELSE kept[n - 1]
    IN kept[Len(ks)]

ValuesWithout(vs, S) == [y \in DOMAIN vs \ S |-> vs[y]]

\* dictionary[key] = value, for the values and for the keys.
Put(vs, x, group) ==
    [y \in DOMAIN vs \cup {x} |-> IF y = x THEN group ELSE vs[y]]
KeysPut(ks, vs, x) == IF x \in DOMAIN vs THEN ks ELSE Append(ks, x)

\* The first key within the distance of x, if there is one.
NearKeys(x) ==
    {k \in DOMAIN keys :
        /\ Near(x, keys[k])
        /\ \A h \in 1..k - 1 : ~Near(x, keys[h])}

\* The first pass: an ATM that no place is near to is a place of its own.
NewPlace ==
    /\ pass = "first"
    /\ index < Len(at)
    /\ LET x == at[index + 1]
       IN  /\ NearKeys(x) = {}
           /\ keys' = KeysPut(keys, values, x)
           /\ values' = Put(values, x, <<index + 1>>)
    /\ index' = index + 1
    /\ UNCHANGED <<at, pass, location, i, bound, historyVars, mapVars>>

\* Mutant: the ATM takes the place of those grouped there.
JoinPlaceAlone ==
    /\ pass = "first"
    /\ index < Len(at)
    /\ \E k \in NearKeys(at[index + 1]) :
          LET x == keys[k]
              middle == Middle(x, at[index + 1])
              rest == ValuesWithout(values, {x})
          IN  /\ keys' = KeysPut(KeysWithout(keys, x), rest, middle)
              /\ values' = Put(rest, middle, <<index + 1>>)
              /\ collided' = (collided \/ middle \in DOMAIN rest)
    /\ index' = index + 1
    /\ UNCHANGED <<at, pass, location, i, bound, reinserted, mapVars>>

\* The ATM joins the first place near it, which moves to the mid-point.
JoinPlace ==
    /\ pass = "first"
    /\ index < Len(at)
    /\ \E k \in NearKeys(at[index + 1]) :
          LET x == keys[k]
              middle == Middle(x, at[index + 1])
              joined == Append(values[x], index + 1)
              rest == ValuesWithout(values, {x})
          IN  /\ keys' = KeysPut(KeysWithout(keys, x), rest, middle)
              /\ values' = Put(rest, middle, joined)
              /\ collided' = (collided \/ middle \in DOMAIN rest)
    /\ index' = index + 1
    /\ UNCHANGED <<at, pass, location, i, bound, reinserted, mapVars>>

EndFirstPass ==
    /\ pass = "first"
    /\ index = Len(at)
    /\ pass' = "second"
    /\ index' = 0
    /\ UNCHANGED <<at, dictVars, location, i, bound, historyVars, mapVars>>

-----------------------------------------------------------------------------
\* checkClasteredObjects: the round of the next place begins.
BeginRound ==
    /\ pass = "second"
    /\ bound = 0
    /\ index < Count(keys, values)
    /\ location' = keys[index + 1]
    /\ i' = 0
    /\ bound' = Count(keys, values)
    /\ UNCHANGED <<at, dictVars, pass, index, historyVars, mapVars>>

\* The ATMs are grouped: a block is in the main queue, unless there are none.
\* (A reload left it there before it grouped them, which no block can tell.)
EndSecondPass ==
    /\ pass = "second"
    /\ bound = 0
    /\ index >= Count(keys, values)
    /\ pass' = "done"
    /\ pending' = IF at = <<>> THEN pending ELSE pending + 1
    /\ UNCHANGED <<at, dictVars, index, location, i, bound, historyVars,
                   zoom, distance, markers, mapHistoryVars>>

InRound == pass = "second" /\ bound > 0
Remaining == InRound /\ i < bound /\ i < Count(keys, values)

\* The inner loop has come to its end, or to that of the keys.
EndRound ==
    /\ InRound
    /\ ~Remaining
    /\ index' = index + 1
    /\ i' = 0
    /\ bound' = 0
    /\ UNCHANGED <<at, dictVars, pass, location, historyVars, mapVars>>

\* Another place, within the distance of the round's.
Joining ==
    /\ Remaining
    /\ i # index
    /\ Near(location, keys[i + 1])

Pass ==
    /\ Remaining
    /\ ~Joining
    /\ i' = i + 1
    /\ UNCHANGED <<at, dictVars, pass, index, location, bound, historyVars, mapVars>>

\* Array.insert(at:), from 0.
Insert(ks, n, x) == SubSeq(ks, 1, n) \o <<x>> \o SubSeq(ks, n + 1, Len(ks))

\* What is left when the i-th place and that of the round are removed.
RestKeys == KeysWithout(KeysWithout(keys, keys[i + 1]), keys[index + 1])
RestValues == ValuesWithout(values, {keys[i + 1], keys[index + 1]})

\* Past the end of the rest the new place is inserted in front as well.
InsertsTwice == index > Count(RestKeys, RestValues)
\* Mutant: nothing is inserted in front.
RestKeysOnly(x) == RestKeys

RestKeysWith(x) == IF InsertsTwice THEN Insert(RestKeys, 0, x) ELSE RestKeys

(***************************************************************************)
(* The i-th place joins that of the round: their mid-point is inserted     *)
(* where the round's place was.  Mid-points are taken from where that was  *)
(* when the round began.                                                   *)
(***************************************************************************)
JoinPlaces ==
    /\ Joining
    /\ LET middle == Middle(keys[i + 1], location)
       IN  /\ keys' = Insert(RestKeysWith(middle), index, middle)
           /\ values' = Put(RestValues, middle,
                            values[keys[index + 1]] \o values[keys[i + 1]])
           /\ collided' = (collided \/ middle \in DOMAIN RestValues)
    /\ reinserted' = (reinserted \/ InsertsTwice)
    /\ i' = i + 1
    /\ UNCHANGED <<at, pass, index, location, bound, mapVars>>

-----------------------------------------------------------------------------
\* Mutant: a change of the zoom does not clear the map.
MarkersKept == markers

\* googleMap.clear()
Cleared == EmptyBag

\* clasterizedAtms begins, for any list and distance.
BeginGrouping ==
    /\ keys' = <<>>
    /\ values' = [x \in {} |-> <<>>]
    /\ pass' = "first"
    /\ index' = 0
    /\ location' = User
    /\ i' = 0
    /\ collided' = FALSE
    /\ reinserted' = FALSE
    /\ UNCHANGED <<bound, pending>>

(***************************************************************************)
(* The zoom level changes, by a button, a tap on a large group or the map  *)
(* itself: the map is cleared and the ATMs are grouped for the new         *)
(* distance before the main thread does anything else.                     *)
(***************************************************************************)
ChangeZoom(d) ==
    /\ pass = "done"
    /\ pending < MaxPending
    /\ d # zoom
    /\ zoom' = d
    /\ distance' = d
    /\ markers' = Cleared
    /\ redrawn' = FALSE
    /\ zoomOverlapped' = (pending > 0)
    /\ BeginGrouping
    /\ UNCHANGED <<at, reloads>>

(***************************************************************************)
(* The filters' screen closes: the ATMs its filters leave are grouped, for *)
(* the default distance.  The zoom is what it was, and so are the markers. *)
(***************************************************************************)
ReloadMap(l) ==
    /\ pass = "done"
    /\ pending < MaxPending
    /\ reloads < MaxReloads
    /\ reloads' = reloads + 1
    /\ at' = l
    /\ distance' = Default
    /\ redrawn' = TRUE
    /\ BeginGrouping
    /\ UNCHANGED <<zoom, markers, zoomOverlapped>>

\* The marker of each group: where it is and what it counts.
Groups == {<<x, Len(values[x])>> : x \in DOMAIN values}

\* setAtmsOnMap, in its block: a marker for each group of the dictionary.
SetAtmsOnMap ==
    /\ pass = "done"
    /\ pending > 0
    /\ pending' = pending - 1
    /\ markers' = markers (+) SetToBag(Groups)
    /\ UNCHANGED <<at, dictVars, loopVars, historyVars, zoom, distance, mapHistoryVars>>

ClustersNext ==
    \/ \E d \in Distances : ChangeZoom(d)
    \/ \E l \in Reloaded \cup {at} : ReloadMap(l)
    \/ SetAtmsOnMap
    \/ NewPlace
    \/ JoinPlace
    \/ EndFirstPass
    \/ BeginRound
    \/ EndSecondPass
    \/ EndRound
    \/ Pass
    \/ JoinPlaces

ClustersSpec == ClustersInit /\ [][ClustersNext]_clustersVars

-----------------------------------------------------------------------------
\* The ATMs the first pass has seen so far.
Grouped == IF pass = "first" THEN 1..index ELSE DOMAIN at

(***************************************************************************)
(* No index of the second pass is out of range and no nil is unwrapped,    *)
(* although places are removed from under both its loops.  The loops'      *)
(* counters never leave their types either.                                *)
(***************************************************************************)
NeverOutOfRange ==
    /\ ClustersTypeOK
    /\ Joining =>
          /\ index < Len(keys)
          /\ {keys[i + 1], keys[index + 1]} \subseteq DOMAIN values
          /\ index <= Len(RestKeysWith(location))

(***************************************************************************)
(* Each ATM is grouped at one place, once, unless a mid-point was the key  *)
(* of another place, whose ATMs it then replaced.                          *)
(***************************************************************************)
EachAtmOnceUnlessCollided ==
    ~collided =>
        \A a \in Grouped :
            \E x \in DOMAIN values :
                /\ \E n \in DOMAIN values[x] :
                      {m \in DOMAIN values[x] : values[x][m] = a} = {n}
                /\ \A y \in DOMAIN values \ {x} : a \notin Range(values[y])

(***************************************************************************)
(* The keys are those of the values, each once, unless a mid-point was a   *)
(* key already or the last place was joined with one before it.            *)
(***************************************************************************)
KeysAreThoseOfValues ==
    /\ Range(keys) = DOMAIN values
    /\ ~collided /\ ~reinserted => Len(keys) = Cardinality(DOMAIN values)

(***************************************************************************)
(* An ATM grouped with no other is where its group is, so that the map     *)
(* finds it there: setAtmsOnMap gives up drawing, and leaves the markers   *)
(* that are still to be drawn out, at the first it does not find.          *)
(***************************************************************************)
LoneAtmIsFound ==
    \A x \in DOMAIN values :
        Len(values[x]) = 1 => \E a \in DOMAIN at : at[a] = x

(***************************************************************************)
(* Once all blocks have run each group has a marker.  A marker outlives    *)
(* the grouping it was drawn for, so that a tap on it finds nothing, only  *)
(* if the map was reloaded since it was last cleared; and a group has two  *)
(* only then, or if the zoom had changed before a block of the grouping    *)
(* before had run: both then draw the new grouping.                        *)
(***************************************************************************)
MapShowsGroupingUnlessRedrawn ==
    pass = "done" =>
        /\ pending = 0 => Groups \subseteq BagToSet(markers)
        /\ ~redrawn => BagToSet(markers) \subseteq Groups
        /\ pending = 0 /\ ~redrawn /\ ~zoomOverlapped => markers = SetToBag(Groups)

(***************************************************************************)
(* As OrderedDictionary.count says: there are as many keys as values.      *)
(***************************************************************************)
CountsAgree == Len(keys) = Cardinality(DOMAIN values)
=============================================================================
