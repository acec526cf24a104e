----------------------------- MODULE SubwayList -----------------------------
(***************************************************************************)
(* The list of subway stations of BankUI: SubwayListVC with its presenter  *)
(* and interactor.  Each load runs on a thread of the global queue, where  *)
(* it queries Realm and then rebuilds, assignment by assignment, the two   *)
(* collections of the one presenter from which the table of the main       *)
(* thread takes its sections and rows.  Nothing keeps two loads apart, nor *)
(* a load and the table.                                                   *)
(*                                                                         *)
(* Meanwhile AtmLoading may be storing the stations, a row at a time.      *)
(* Two threads in a Swift dictionary at once, one of them writing, are     *)
(* undefined behaviour: the app may crash or go on.                        *)
(***************************************************************************)
EXTENDS Integers, SequencesExt

CONSTANTS
    LetterOf,   \* LetterOf[s]: the first letter of station s; names ascend
    MaxLoads    \* bound on the loads

ASSUME LetterOfAssumption ==
    /\ LetterOf \in Seq(Nat)
    /\ \A s, t \in DOMAIN LetterOf : s <= t => LetterOf[s] <= LetterOf[t]
ASSUME MaxLoadsAssumption == MaxLoads \in Nat

VARIABLES
    stored,         \* how many stations are stored in Realm
    passing,        \* stations with an ATM that passes the filters
    loads,          \* how often loadSubways was called
    phase,          \* phase[n]: where the n-th load is
    found,          \* found[n]: the stations it found, in the order of names
    position,       \* position[n]: how many of them its loop is done with
    subwaysByLetter,\* sortedByDistanceSubways
    orderedLetters,
    reloads,        \* completions waiting for the main thread
    layoutPending,  \* reloadData was called since the last layout
    sections,       \* numberOfSections at the last layout
    rows,           \* numberOfRowsInSection for each section so far
    spinner,        \* the spinner or the refresh control is turning
    crashed,        \* an index was out of range, or threads met in a dictionary
    overlapped,     \* the last load began while another was active (history)
    stale           \* Realm or the filters changed since it was last queried, or
                    \* it did not open then (history variable)

realmVars == <<stored, passing>>
loadVars == <<loads, phase, found, position>>
listVars == <<subwaysByLetter, orderedLetters>>
tableVars == <<reloads, layoutPending, sections, rows, spinner>>
historyVars == <<overlapped, stale>>
subwaysVars == <<realmVars, loadVars, listVars, tableVars, crashed, historyVars>>

Load == 1..MaxLoads
Station == DOMAIN LetterOf
Letter == Range(LetterOf)
Ordering == {"found", "cleared", "emptying", "filling"}
Phase == {"none", "queued", "ending", "ended"} \cup Ordering

SubwaysTypeOK ==
    /\ stored \in 0..Len(LetterOf)
    /\ passing \subseteq Station
    /\ loads \in 0..MaxLoads
    /\ phase \in [Load -> Phase]
    /\ found \in [Load -> Seq(Station)]
    /\ \A n \in Load : position[n] \in 0..Len(found[n])
    /\ DOMAIN subwaysByLetter \subseteq Letter
    /\ \A a \in DOMAIN subwaysByLetter : subwaysByLetter[a] \in Seq(Station)
    /\ orderedLetters \in Seq(Letter)
    /\ reloads \in 0..MaxLoads
    /\ layoutPending \in BOOLEAN
    /\ sections \in Nat
    /\ rows \in Seq(Nat)
    /\ spinner \in BOOLEAN
    /\ crashed \in BOOLEAN
    /\ overlapped \in BOOLEAN
    /\ stale \in BOOLEAN

NoSubways == [a \in {} |-> <<>>]

SubwaysInit ==
    /\ stored = 0
    /\ passing = Station
    /\ loads = 0
    /\ phase = [n \in Load |-> "none"]
    /\ found = [n \in Load |-> <<>>]
    /\ position = [n \in Load |-> 0]
    /\ subwaysByLetter = NoSubways
    /\ orderedLetters = <<>>
    /\ reloads = 0
    /\ layoutPending = FALSE
    /\ sections = 0
    /\ rows = <<>>
    /\ spinner = FALSE
    /\ crashed = FALSE
    /\ overlapped = FALSE
    /\ stale = FALSE

-----------------------------------------------------------------------------
Active(n) == phase[n] \notin {"none", "ended"}
InLayout == Len(rows) < sections

\* The outcomes of an access to the presenter's collections that is out of
\* their range if `wrong', while the loads in `others' are rebuilding them.
Crashes(wrong, others) ==
    IF wrong THEN {TRUE}
    ELSE IF \E m \in others : phase[m] \in Ordering \ {"found"} THEN BOOLEAN
    ELSE {FALSE}

\* getSubwayPoints commits the row of another station.
StoreStation ==
    /\ stored < Len(LetterOf)
    /\ stored' = stored + 1
    /\ stale' = TRUE
    /\ UNCHANGED <<passing, loadVars, listVars, tableVars, crashed, overlapped>>

\* loadSubways of the screen.
LoadSubways ==
    /\ ~InLayout
    /\ loads < MaxLoads
    /\ loads' = loads + 1
    /\ phase' = [phase EXCEPT ![loads'] = "queued"]
    /\ spinner' = TRUE
    /\ overlapped' = (\E n \in Load : Active(n))
    /\ UNCHANGED <<stored, found, position, listVars, reloads, layoutPending,
                   sections, rows, crashed>>

\* viewDidLoad and pull-to-refresh.
HandleRefresh ==
    /\ LoadSubways
    /\ UNCHANGED <<passing, stale>>

\* The filters' screen closes with other filters.
FiltersWillDisappear ==
    /\ loads > 0
    /\ LoadSubways
    /\ passing' \in (SUBSET Station) \ {passing}
    /\ stale' = TRUE

-----------------------------------------------------------------------------
\* Mutant: a load that finds nothing stored says nothing.
FindsNothingQuietly(n) ==
    /\ phase[n] = "queued"
    /\ stored = 0
    /\ phase' = [phase EXCEPT ![n] = "ended"]
    /\ UNCHANGED <<realmVars, loads, found, position, listVars, tableVars,
                   crashed, historyVars>>

\* Realm holds no station yet: "try again".
FindsNothingStored(n) ==
    /\ phase[n] = "queued"
    /\ stored = 0
    /\ phase' = [phase EXCEPT ![n] = "ending"]
    /\ UNCHANGED <<realmVars, loads, found, position, listVars, tableVars,
                   crashed, historyVars>>

\* Each element once, in ascending order: sorted(byKeyPath:), keys.sorted(by: <).
Sorted(S) ==
    {s \in [1..Cardinality(S) -> S] :
        /\ Range(s) = S
        /\ \A i, j \in DOMAIN s : i < j => s[i] < s[j]}

\* The stations stored that pass the filters.
Matching == passing \cap (1..stored)

\* They are found in the order of names, or nothing if Realm does not open.
LoadSubwaysListFromRealm(n) ==
    /\ phase[n] = "queued"
    /\ phase' = [phase EXCEPT ![n] = "found"]
    /\ \/ /\ stored > 0
          /\ \E names \in Sorted(Matching) : found' = [found EXCEPT ![n] = names]
          /\ stale' = FALSE
       \/ /\ found' = [found EXCEPT ![n] = <<>>]
          /\ stale' = TRUE
    /\ UNCHANGED <<realmVars, loads, position, listVars, tableVars, crashed,
                   overlapped>>

\* Mutant: the stations of the load before are kept.
ClearSubwaysKeeps(n) ==
    /\ phase[n] = "found"
    /\ phase' = [phase EXCEPT ![n] = "cleared"]
    /\ crashed' \in Crashes(FALSE, Load \ {n})
    /\ UNCHANGED <<realmVars, loads, found, position, listVars, tableVars,
                   historyVars>>

\* orderSubwaysByLetters: the first assignment.
ClearSubways(n) ==
    /\ phase[n] = "found"
    /\ phase' = [phase EXCEPT ![n] = "cleared"]
    /\ subwaysByLetter' = NoSubways
    /\ crashed' \in Crashes(FALSE, Load \ {n})
    /\ UNCHANGED <<realmVars, loads, found, position, orderedLetters,
                   tableVars, historyVars>>

ClearLetters(n) ==
    /\ phase[n] = "cleared"
    /\ phase' = [phase EXCEPT ![n] = "emptying"]
    /\ orderedLetters' = <<>>
    /\ crashed' \in Crashes(FALSE, Load \ {n})
    /\ UNCHANGED <<realmVars, loads, found, position, subwaysByLetter,
                   tableVars, historyVars>>

\* The first loop: the letter of the next station has no stations.
EmptyLetter(n) ==
    /\ phase[n] = "emptying"
    /\ position[n] < Len(found[n])
    /\ position' = [position EXCEPT ![n] = @ + 1]
    /\ LET letter == LetterOf[found[n][position'[n]]]
       IN  subwaysByLetter' =
               [a \in DOMAIN subwaysByLetter \cup {letter} |->
                   IF a = letter THEN <<>> ELSE subwaysByLetter[a]]
    /\ crashed' \in Crashes(FALSE, Load \ {n})
    /\ UNCHANGED <<realmVars, loads, phase, found, orderedLetters, tableVars,
                   historyVars>>

\* Mutant: the second loop goes on where the first one ended.
SortLettersNoRewind(n) ==
    /\ phase[n] = "emptying"
    /\ position[n] = Len(found[n])
    /\ phase' = [phase EXCEPT ![n] = "filling"]
    /\ orderedLetters' \in Sorted(DOMAIN subwaysByLetter)
    /\ crashed' \in Crashes(FALSE, Load \ {n})
    /\ UNCHANGED <<realmVars, loads, found, position, subwaysByLetter,
                   tableVars, historyVars>>

\* Mutant: the letters are not ordered again.
SortLettersForgets(n) ==
    /\ phase[n] = "emptying"
    /\ position[n] = Len(found[n])
    /\ phase' = [phase EXCEPT ![n] = "filling"]
    /\ position' = [position EXCEPT ![n] = 0]
    /\ crashed' \in Crashes(FALSE, Load \ {n})
    /\ UNCHANGED <<realmVars, loads, found, listVars, tableVars, historyVars>>

SortLetters(n) ==
    /\ phase[n] = "emptying"
    /\ position[n] = Len(found[n])
    /\ phase' = [phase EXCEPT ![n] = "filling"]
    /\ position' = [position EXCEPT ![n] = 0]
    /\ orderedLetters' \in Sorted(DOMAIN subwaysByLetter)
    /\ crashed' \in Crashes(FALSE, Load \ {n})
    /\ UNCHANGED <<realmVars, loads, found, subwaysByLetter, tableVars,
                   historyVars>>

\* The second loop: the next station joins its letter, if it is still there.
AppendSubway(n) ==
    /\ phase[n] = "filling"
    /\ position[n] < Len(found[n])
    /\ position' = [position EXCEPT ![n] = @ + 1]
    /\ LET station == found[n][position'[n]]
       IN  subwaysByLetter' =
               [a \in DOMAIN subwaysByLetter |->
                   IF a = LetterOf[station]
                   THEN Append(subwaysByLetter[a], station)
                   ELSE subwaysByLetter[a]]
    /\ crashed' \in Crashes(FALSE, Load \ {n})
    /\ UNCHANGED <<realmVars, loads, phase, found, orderedLetters, tableVars,
                   historyVars>>

EndLoop(n) ==
    /\ phase[n] = "filling"
    /\ position[n] = Len(found[n])
    /\ phase' = [phase EXCEPT ![n] = "ending"]
    /\ UNCHANGED <<realmVars, loads, found, position, listVars, tableVars,
                   crashed, historyVars>>

\* The completion: it counts the letters and queues a reload either way.
Complete(n) ==
    /\ phase[n] = "ending"
    /\ phase' = [phase EXCEPT ![n] = "ended"]
    /\ reloads' = reloads + 1
    /\ crashed' \in Crashes(FALSE, Load \ {n})
    /\ UNCHANGED <<realmVars, loads, found, position, listVars, layoutPending,
                   sections, rows, spinner, historyVars>>

Step(n) ==
    \/ FindsNothingStored(n)
    \/ LoadSubwaysListFromRealm(n)
    \/ ClearSubways(n)
    \/ ClearLetters(n)
    \/ EmptyLetter(n)
    \/ SortLetters(n)
    \/ AppendSubway(n)
    \/ EndLoop(n)
    \/ Complete(n)

-----------------------------------------------------------------------------
RunReload ==
    /\ ~InLayout
    /\ reloads > 0
    /\ reloads' = reloads - 1
    /\ layoutPending' = TRUE
    /\ spinner' = FALSE
    /\ UNCHANGED <<realmVars, loadVars, listVars, sections, rows, crashed,
                   historyVars>>

NumberOfSections ==
    /\ ~InLayout
    /\ layoutPending
    /\ layoutPending' = FALSE
    /\ sections' = Cardinality(DOMAIN subwaysByLetter)
    /\ rows' = <<>>
    /\ crashed' \in Crashes(FALSE, Load)
    /\ UNCHANGED <<realmVars, loadVars, listVars, reloads, spinner, historyVars>>

\* orderedLetters[section], and how many stations it has.
SubwaysCount(section) ==
    LET letter == orderedLetters[section]
    IN  IF letter \in DOMAIN subwaysByLetter THEN Len(subwaysByLetter[letter])
        ELSE 0

NumberOfRowsInSection ==
    /\ InLayout
    /\ LET section == Len(rows) + 1
       IN  /\ crashed' \in Crashes(section > Len(orderedLetters), Load)
           /\ rows' = IF section > Len(orderedLetters) THEN rows
                      ELSE Append(rows, SubwaysCount(section))
    /\ UNCHANGED <<realmVars, loadVars, listVars, reloads, layoutPending,
                   sections, spinner, historyVars>>

\* Scrolling brings up a row the table knows of.
CellForRow ==
    /\ ~InLayout
    /\ ~layoutPending
    /\ \E section \in DOMAIN rows : \E row \in 1..rows[section] :
          crashed' \in Crashes(\/ section > Len(orderedLetters)
                               \/ row > SubwaysCount(section), Load)
    /\ UNCHANGED <<realmVars, loadVars, listVars, tableVars, historyVars>>

Main == RunReload \/ NumberOfSections \/ NumberOfRowsInSection

SubwaysNext ==
    /\ ~crashed
    /\ \/ StoreStation
       \/ HandleRefresh
       \/ FiltersWillDisappear
       \/ \E n \in Load : Step(n)
       \/ Main
       \/ CellForRow

SubwaysSpec == SubwaysInit /\ [][SubwaysNext]_subwaysVars

\* Threads go on, and the main thread runs its blocks and its layout.
SubwaysFairness ==
    /\ \A n \in Load : WF_subwaysVars(~crashed /\ Step(n))
    /\ WF_subwaysVars(~crashed /\ Main)

SubwaysFairSpec == SubwaysSpec /\ SubwaysFairness

-----------------------------------------------------------------------------
Quiet == \A n \in Load : ~Active(n)

Settled == Quiet /\ reloads = 0 /\ ~layoutPending /\ ~InLayout

(***************************************************************************)
(* What a load leaves behind that no other interfered with: each station   *)
(* once, under its letter, in the order of names, and the letters sorted.  *)
(***************************************************************************)
ListIsGroupedUnlessOverlapped ==
    Quiet /\ ~overlapped /\ ~crashed =>
        /\ orderedLetters \in Sorted(DOMAIN subwaysByLetter)
        /\ \A a \in DOMAIN subwaysByLetter :
              /\ subwaysByLetter[a] # <<>>
              /\ \A i \in DOMAIN subwaysByLetter[a] :
                    LetterOf[subwaysByLetter[a][i]] = a
              /\ \A i, j \in DOMAIN subwaysByLetter[a] :
                    i < j => subwaysByLetter[a][i] < subwaysByLetter[a][j]

(***************************************************************************)
(* The app crashes only while a load is active or the reload of one that   *)
(* has ended waits for the main thread, never in the layout or the scroll  *)
(* after it, unless two loads have left the list in pieces.  Whatever the  *)
(* loads do to each other, the variables keep their types.                 *)
(***************************************************************************)
CrashOnlyWhileLoading ==
    /\ SubwaysTypeOK
    /\ crashed => ~Quiet \/ reloads > 0 \/ overlapped

(***************************************************************************)
(* When everything has settled the table shows the stations stored that    *)
(* pass the filters, if Realm has not changed since and no other load was  *)
(* active when the last one began.                                         *)
(***************************************************************************)
SettledTableShowsRealm ==
    Settled /\ ~overlapped /\ ~stale /\ ~crashed =>
        /\ Len(rows) = Len(orderedLetters)
        /\ \A i \in DOMAIN rows :
              rows[i] = Cardinality({s \in Matching :
                                        LetterOf[s] = orderedLetters[i]})
        /\ {LetterOf[s] : s \in Matching} = Range(orderedLetters)

(***************************************************************************)
(* However loads and filters follow each other, the spinner stops: every   *)
(* way through getSubwayList calls the completion.                         *)
(***************************************************************************)
SpinnerStops == spinner ~> ~spinner \/ crashed
=============================================================================
