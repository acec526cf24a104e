------------------------ MODULE StreetBallCalendarProofs ------------------------
(***************************************************************************)
(* Proofs about StreetBallCalendar, for any schedule of any number of days *)
(* and any length of the month.                                            *)
(*                                                                         *)
(* What the table says of a game follows from an invariant: the context    *)
(* holds the games that were over when this process loaded the schedule,   *)
(* nothing is ever saved, and a table is not older than the context it was *)
(* filled from.  That the arrows find the nearest day is a matter of one   *)
(* step; the loop of the arrow back is a recursive function, and what it   *)
(* returns is proved by least counterexample.                              *)
(***************************************************************************)
EXTENDS StreetBallCalendar, WellFoundedInduction, TLAPS

ContextInv ==
    /\ saved = NoObjects
    /\ objects = NoObjects <=> loadedAt = NoMoment
    /\ loadedAt # NoMoment => loadedAt <= now /\ objects = Over(loadedAt)

TableInv ==
    /\ ~open => DOMAIN table = {}
    /\ open => /\ loadedAt # NoMoment
               /\ loadedAt <= searchedAt
    /\ \A d \in DOMAIN table :
          /\ table[d] = "running" => d \notin objects
          /\ table[d] = "finished" => d \in objects

CalendarInv ==
    /\ TypeOK
    /\ ContextInv
    /\ TableInv

-----------------------------------------------------------------------------
\* Induction on the naturals, in a form that needs no predicate as parameter.
LEMMA LeastNumber ==
    ASSUME NEW T, T \subseteq Nat, T # {}
    PROVE  \E m \in T : \A k \in T : m <= k
<1> DEFINE R == OpToRel(<, Nat)
<1>1. IsWellFoundedOn(R, Nat)
  BY NatLessThanWellFounded
<1>2. \A k, m \in Nat : k < m => <<k, m>> \in R
  BY DEF OpToRel
<1> HIDE DEF R
<1>3. PICK m \in T : \A k \in T : <<k, m>> \notin R
  BY <1>1, WFMin
<1>4. ASSUME NEW k \in T PROVE m <= k
  <2>1. k \in Nat /\ m \in Nat
    OBVIOUS
  <2>2. ~(k < m)
    BY <1>2, <1>3, <2>1
  <2> QED BY <2>1, <2>2
<1> QED BY <1>4

\* A set of days that is not empty has a first day and a last one.
LEMMA FirstDay ==
    ASSUME NEW S, S \subseteq Day, S # {}
    PROVE  Min(S) \in S /\ \A d \in S : Min(S) <= d
<1>1. S \subseteq Nat
  BY DaysAssumption DEF Day
<1>2. \E m \in S : \A d \in S : m <= d
  BY <1>1, LeastNumber
<1> QED BY <1>2 DEF Min

LEMMA LastDay ==
    ASSUME NEW S, S \subseteq Day, S # {}
    PROVE  Max(S) \in S /\ \A d \in S : Max(S) >= d
<1> DEFINE T == {Days - d : d \in S}
<1>1. \A d \in S : d \in Nat /\ Days - d \in Nat
  BY DaysAssumption DEF Day
<1>2. PICK m \in T : \A k \in T : m <= k
  <2>1. T \subseteq Nat /\ T # {}
    BY <1>1
  <2> HIDE DEF T
  <2> QED BY <2>1, LeastNumber
<1>3. PICK d \in S : m = Days - d
  BY <1>2
<1>4. ASSUME NEW e \in S PROVE d >= e
  <2>1. m <= Days - e
    BY <1>2
  <2> QED BY <1>1, <1>3, <2>1, DaysAssumption
<1> QED BY <1>4 DEF Max

LEMMA ScheduleDays == ASSUME TypeOK
                      PROVE  /\ schedule \subseteq Day /\ schedule # {}
                             /\ Min(schedule) \in schedule
                             /\ Max(schedule) \in schedule
                             /\ \A d \in schedule : Min(schedule) <= d /\ d <= Max(schedule)
<1>1. schedule \subseteq Day /\ schedule # {}
  <2>1. schedule \in (SUBSET Day) \ {{}}
    BY DEF TypeOK
  <2> QED BY <2>1
<1>2. Min(schedule) \in schedule /\ \A d \in schedule : Min(schedule) <= d
  BY <1>1, FirstDay
<1>3. Max(schedule) \in schedule /\ \A d \in schedule : Max(schedule) >= d
  BY <1>1, LastDay
<1>4. \A d \in schedule : d \in Int
  BY <1>1, DaysAssumption DEF Day
<1> QED BY <1>1, <1>2, <1>3, <1>4

-----------------------------------------------------------------------------
\* The games of one day: the first of the games given is among them.
LEMMA CurrentDay ==
    ASSUME NEW games, games \subseteq Day
    PROVE  /\ CurrentDayGames(games) \subseteq games
           /\ games # {} => /\ CurrentDayGames(games) # {}
                            /\ Min(CurrentDayGames(games)) = Min(games)
<1>1. CurrentDayGames(games) \subseteq games
  BY DEF CurrentDayGames
<1>2. ASSUME games # {}
      PROVE  /\ CurrentDayGames(games) # {}
             /\ Min(CurrentDayGames(games)) = Min(games)
  <2> DEFINE C == CurrentDayGames(games)
  <2>1. Min(games) \in games /\ \A d \in games : Min(games) <= d
    BY <1>2, FirstDay
  <2>2. Min(games) \in C
    BY <2>1 DEF CurrentDayGames
  <2>3. C \subseteq games /\ C \subseteq Day /\ C # {}
    BY <1>1, <2>2
  <2> HIDE DEF C
  <2>4. Min(C) \in C /\ \A d \in C : Min(C) <= d
    BY <2>3, FirstDay
  <2>5. Min(C) <= Min(games) /\ Min(games) <= Min(C)
    BY <2>1, <2>2, <2>3, <2>4
  <2>6. Min(C) \in Int /\ Min(games) \in Int
    <3>1. Day \subseteq Int
      BY DaysAssumption DEF Day
    <3>2. Min(C) \in Day /\ Min(games) \in Day
      BY <2>1, <2>3, <2>4
    <3> QED BY <3>1, <3>2
  <2>7. Min(C) = Min(games)
    BY <2>5, <2>6
  <2> QED BY <2>3, <2>7 DEF C
<1> QED BY <1>1, <1>2

\* The games after the midnight before day e are those from day e on.
LEMMA GamesFrom ==
    ASSUME TypeOK, NEW e \in Int
    PROVE  CalendarGames(Midnight(e)) = {d \in schedule : d >= e}
<1>1. \A d \in schedule : d \in Int
  BY ScheduleDays, DaysAssumption DEF Day
<1>2. \A d \in schedule : Start(d) > Midnight(e) <=> d >= e
  BY <1>1 DEF Start, Midnight
<1> QED BY <1>2 DEF CalendarGames

LEMMA InfoGames ==
    ASSUME TypeOK, NEW from
    PROVE  CalendarInfo(from) \subseteq schedule
<1>1. CalendarGames(from) \subseteq schedule /\ schedule \subseteq Day
  BY ScheduleDays DEF CalendarGames
<1>2. CurrentDayGames(CalendarGames(from)) \subseteq CalendarGames(from)
  BY <1>1, CurrentDay
<1> QED BY <1>1, <1>2 DEF CalendarInfo

\* The arrow forward finds the first of the later days.
LEMMA NextGames ==
    ASSUME TypeOK, NEW d \in Day
    PROVE  /\ NextDateGames(d) \subseteq schedule
           /\ NextDateGames(d) = {} <=> Later(d) = {}
           /\ Later(d) # {} => Min(NextDateGames(d)) = Min(Later(d))
<1>1. \A e \in schedule : e \in Int
  BY ScheduleDays, DaysAssumption DEF Day
<1>2. d \in Int /\ d + 1 \in Int
  BY DaysAssumption DEF Day
<1>3. CalendarGames(Midnight(d + 1)) = Later(d)
  <2>1. CalendarGames(Midnight(d + 1)) = {e \in schedule : e >= d + 1}
    BY <1>2, GamesFrom
  <2>2. \A e \in schedule : e >= d + 1 <=> e > d
    BY <1>1, <1>2
  <2> QED BY <2>1, <2>2 DEF Later
<1>4. Later(d) \subseteq Day /\ Later(d) \subseteq schedule
  BY ScheduleDays DEF Later
<1>5. Later(d) # {} <=> Midnight(d + 1) < EndCalendarDate
  <2>1. Max(schedule) \in schedule /\ \A e \in schedule : e <= Max(schedule)
    BY ScheduleDays
  <2>2. Later(d) # {} <=> Max(schedule) > d
    BY <1>1, <1>2, <2>1 DEF Later
  <2>3. Midnight(d + 1) < EndCalendarDate <=> Max(schedule) > d
    BY <1>1, <1>2, <2>1 DEF Midnight, EndCalendarDate, End
  <2> QED BY <2>2, <2>3
<1>6. CASE Later(d) = {}
  BY <1>5, <1>6 DEF NextDateGames, CalendarInfo
<1>7. CASE Later(d) # {}
  <2>1. NextDateGames(d) = CurrentDayGames(Later(d))
    BY <1>3, <1>5, <1>7 DEF NextDateGames, CalendarInfo
  <2> QED BY <1>4, <1>7, <2>1, CurrentDay
<1> QED BY <1>6, <1>7

(***************************************************************************)
(* The arrow back finds the last of the earlier days, unless the loop runs *)
(* into the end of the season.                                             *)
(***************************************************************************)
LEMMA PreviousGames ==
    ASSUME TypeOK, NEW d \in Day, ~ReadsEmpty(d)
    PROVE  /\ PreviousDateGames(d) \subseteq schedule
           /\ PreviousDateGames(d) = {} <=> Earlier(d) = {}
           /\ Earlier(d) # {} => Min(PreviousDateGames(d)) = Max(Earlier(d))
<1> DEFINE Stop(e) == Midnight(e) <= StartCalendarDate
           Nearest(e) == CurrentDayGames(CalendarGames(Midnight(e)))
           Skip(e) == Start(Min(Nearest(e))) > End(e)
           Loop(g, n) == g = [e \in 0..n |->
                                IF Stop(e) THEN {}
                                ELSE IF Skip(e) THEN g[e - 1] ELSE Nearest(e)]
           search == CHOOSE g : Loop(g, Days)
           Upto(e) == {k \in schedule : k <= e}
<1>1. PreviousDateGames(d) = search[d - 1]
  BY DEF PreviousDateGames
<1>2. Days \in Nat \ {0} /\ d \in 1..Days
  BY DaysAssumption DEF Day
<1>3. /\ schedule \subseteq 1..Days /\ Min(schedule) \in schedule
      /\ \A k \in schedule : k \in Nat /\ 1 <= k /\ Min(schedule) <= k
      /\ Min(schedule) \in Nat /\ 1 <= Min(schedule)
  <2>1. \A k \in Day : k \in Nat /\ 1 <= k
    BY DaysAssumption DEF Day
  <2> QED BY <2>1, ScheduleDays DEF Day
<1>4. \A e \in 0..Days : Stop(e) <=> e < Min(schedule)
  BY <1>2, <1>3 DEF Midnight, StartCalendarDate, Start
<1>5. ASSUME NEW e \in 0..d - 1, ~Stop(e)
      PROVE  /\ Nearest(e) \subseteq schedule
             /\ Nearest(e) # {}
             /\ Skip(e) <=> e \notin schedule
             /\ e \in schedule => Min(Nearest(e)) = e
  <2> DEFINE G == CalendarGames(Midnight(e))
  <2>1. e \in Int /\ d - 1 \in Int /\ e <= d - 1 /\ e \in 0..Days /\ d - 1 \in 0..Days
    BY <1>2
  <2>2. G = {k \in schedule : k >= e}
    BY <2>1, GamesFrom
  <2>3. G # {}
    <3>1. ~Stop(d - 1)
      BY <1>3, <1>4, <1>5, <2>1
    <3>2. CalendarGames(Midnight(d - 1)) # {}
      BY <3>1, <1>2, <1>3 DEF ReadsEmpty, Midnight, StartCalendarDate, Start
    <3>3. CalendarGames(Midnight(d - 1)) = {k \in schedule : k >= d - 1}
      BY <2>1, GamesFrom
    <3>4. PICK k \in schedule : k >= d - 1
      BY <3>2, <3>3
    <3> QED BY <1>3, <2>1, <2>2, <3>4
  <2>4. G \subseteq Day /\ G \subseteq schedule
    BY <1>3, <2>2 DEF Day
  <2>5. Nearest(e) \subseteq G /\ Nearest(e) # {} /\ Min(Nearest(e)) = Min(G)
    <3> HIDE DEF G
    <3>1. /\ CurrentDayGames(G) \subseteq G
          /\ CurrentDayGames(G) # {}
          /\ Min(CurrentDayGames(G)) = Min(G)
      BY <2>3, <2>4, CurrentDay
    <3> QED BY <3>1 DEF G
  <2> HIDE DEF Nearest
  <2>6. Min(G) \in G /\ \A k \in G : Min(G) <= k
    <3> HIDE DEF G
    <3> QED BY <2>3, <2>4, FirstDay
  <2>7. Min(G) \in Nat /\ Min(G) >= e /\ Min(G) \in schedule
    BY <1>3, <2>2, <2>6
  <2>8. e \in schedule => Min(G) = e
    <3>1. e \in schedule => e \in G
      BY <1>3, <2>1, <2>2
    <3> HIDE DEF G
    <3> QED BY <2>1, <2>6, <2>7, <3>1
  <2>9. Skip(e) <=> Min(G) > e
    <3> HIDE DEF G
    <3>1. Skip(e) <=> 3 * Min(G) + 1 > 3 * e + 2
      BY <2>5 DEF Start, End
    <3> HIDE DEF Skip
    <3> QED BY <2>1, <2>7, <3>1
  <2>10. Min(G) > e <=> e \notin schedule
    <3> HIDE DEF G
    <3>1. Min(G) > e \/ Min(G) = e
      BY <2>1, <2>7
    <3> QED BY <2>1, <2>7, <2>8, <3>1
  <2> QED BY <2>4, <2>5, <2>8, <2>9, <2>10
<1> HIDE DEF Stop, Nearest, Skip
<1>6. \A n \in 0..Days : \E g : Loop(g, n)
  <2> DEFINE Undefined == {n \in 0..Days : ~\E g : Loop(g, n)}
  <2> SUFFICES ASSUME Undefined # {} PROVE FALSE
    OBVIOUS
  <2>1. PICK n \in Undefined : \A k \in Undefined : n <= k
    <3>1. Undefined \subseteq Nat
      BY <1>2
    <3> HIDE DEF Undefined
    <3> QED BY <3>1, LeastNumber
  <2>2. n \in Nat /\ n \in 0..Days
    BY <1>2, <2>1
  <2>3. n # 0
    <3>1. Stop(0)
      BY <1>2, <1>3, <1>4
    <3>2. Loop([e \in 0..0 |-> {}], 0)
      BY <3>1
    <3> QED BY <2>1, <3>2
  <2>4. PICK g : Loop(g, n - 1)
    <3>1. n - 1 \in 0..Days /\ ~(n <= n - 1)
      BY <1>2, <2>2, <2>3
    <3>2. n - 1 \notin Undefined
      <4> HIDE DEF Undefined
      <4> QED BY <2>1, <3>1
    <3> HIDE DEF Loop
    <3> QED BY <3>1, <3>2
  <2> DEFINE h == [e \in 0..n |->
                     IF e < n THEN g[e]
                     ELSE IF Stop(n) THEN {}
                     ELSE IF Skip(n) THEN g[n - 1] ELSE Nearest(n)]
  <2>5. ASSUME NEW e \in 0..n
        PROVE  h[e] = IF Stop(e) THEN {}
                      ELSE IF Skip(e) THEN h[e - 1] ELSE Nearest(e)
    <3>1. CASE e = n
      BY <2>2, <2>3, <3>1
    <3>2. CASE e < n
      <4>1. e \in 0..n - 1 /\ h[e] = g[e]
        BY <2>2, <3>2
      <4>2. ~Stop(e) => h[e - 1] = g[e - 1]
        <5>1. ~Stop(e) => e # 0
          BY <1>2, <1>3, <1>4
        <5>2. e # 0 => e - 1 \in 0..n /\ e - 1 < n
          BY <2>2, <4>1
        <5> QED BY <5>1, <5>2
      <4> HIDE DEF h
      <4> QED BY <2>4, <4>1, <4>2
    <3> QED BY <2>2, <3>1, <3>2
  <2>6. Loop(h, n)
    BY <2>5
  <2> QED BY <2>1, <2>6
<1>7. Loop(search, Days)
  <2>1. \E g : Loop(g, Days)
    <3> HIDE DEF Loop
    <3> QED BY <1>2, <1>6
  <2> HIDE DEF Loop
  <2> QED BY <2>1
<1> HIDE DEF search
<1> DEFINE Found(n) == /\ search[n] \subseteq schedule
                       /\ search[n] = {} <=> Upto(n) = {}
                       /\ Upto(n) # {} => Min(search[n]) = Max(Upto(n))
           Wrong == {n \in 0..d - 1 : ~Found(n)}
<1>8. Wrong = {}
  <2> SUFFICES ASSUME Wrong # {} PROVE FALSE
    OBVIOUS
  <2>1. PICK n \in Wrong : \A k \in Wrong : n <= k
    <3>1. Wrong \subseteq Nat
      BY <1>2
    <3> HIDE DEF Wrong
    <3> QED BY <3>1, LeastNumber
  <2>2. n \in Nat /\ n \in 0..d - 1 /\ n \in 0..Days /\ ~Found(n)
    BY <1>2, <2>1
  <2>3. search[n] = IF Stop(n) THEN {}
                    ELSE IF Skip(n) THEN search[n - 1] ELSE Nearest(n)
    BY <1>7, <2>2
  <2>4. CASE Stop(n)
    <3>1. ASSUME NEW k \in schedule PROVE ~(k <= n)
      <4>1. n < Min(schedule) /\ Min(schedule) <= k /\ k \in Nat /\ Min(schedule) \in Nat
        BY <1>3, <1>4, <2>2, <2>4
      <4> QED BY <2>2, <4>1
    <3>2. Upto(n) = {}
      BY <3>1
    <3> QED BY <2>2, <2>3, <2>4, <3>2
  <2>5. CASE ~Stop(n) /\ n \in schedule
    <3>1. search[n] = Nearest(n) /\ search[n] \subseteq schedule
          /\ search[n] # {} /\ Min(search[n]) = n
      BY <1>5, <2>2, <2>3, <2>5
    <3>2. n \in Upto(n) /\ \A k \in Upto(n) : n >= k
      BY <1>3, <2>2, <2>5
    <3>3. Max(Upto(n)) = n
      <4>1. Upto(n) \subseteq Day /\ Upto(n) # {}
        BY <1>3, <3>2 DEF Day
      <4>2. Max(Upto(n)) \in Upto(n) /\ \A k \in Upto(n) : Max(Upto(n)) >= k
        <5> HIDE DEF Upto
        <5> QED BY <4>1, LastDay
      <4>3. Max(Upto(n)) \in Nat
        BY <1>3, <4>2
      <4> HIDE DEF Upto
      <4>4. Max(Upto(n)) >= n /\ n >= Max(Upto(n))
        BY <3>2, <4>2
      <4> QED BY <2>2, <4>3, <4>4
    <3> HIDE DEF Upto
    <3> QED BY <2>2, <3>1, <3>2, <3>3
  <2>6. CASE ~Stop(n) /\ n \notin schedule
    <3>1. n # 0
      BY <1>2, <1>3, <1>4, <2>6
    <3>2. n - 1 \in 0..d - 1 /\ ~(n <= n - 1)
      BY <1>2, <2>2, <3>1
    <3>3. Found(n - 1)
      <4>1. n - 1 \notin Wrong
        <5> HIDE DEF Wrong
        <5> QED BY <2>1, <3>2
      <4> HIDE DEF Found
      <4> QED BY <3>2, <4>1
    <3>4. Upto(n) = Upto(n - 1)
      <4>1. ASSUME NEW k \in schedule PROVE k <= n <=> k <= n - 1
        BY <1>3, <2>2, <2>6
      <4> QED BY <4>1
    <3>5. search[n] = search[n - 1]
      BY <1>5, <2>2, <2>3, <2>6
    <3> HIDE DEF Upto
    <3> QED BY <2>2, <3>3, <3>4, <3>5
  <2> QED BY <2>4, <2>5, <2>6
<1>9. Found(d - 1)
  <2>1. d - 1 \in 0..d - 1
    BY <1>2
  <2> HIDE DEF Found
  <2> QED BY <1>8, <2>1
<1>10. Upto(d - 1) = Earlier(d)
  <2>1. ASSUME NEW k \in schedule PROVE k <= d - 1 <=> k < d
    BY <1>2, <1>3
  <2> QED BY <2>1 DEF Earlier
<1> HIDE DEF Upto
<1> QED BY <1>1, <1>9, <1>10

-----------------------------------------------------------------------------
\* A moment lies on one of the days.
LEMMA DayOfMoment == ASSUME TypeOK PROVE Today \in Day
<1>1. now \in 3..3 * Days + 2 /\ Days \in Nat
  BY DaysAssumption DEF TypeOK, Moment, Midnight, End
<1>2. now \div 3 \in 1..Days
  BY <1>1
<1> QED BY <1>2 DEF Today, Day

\* What the table says of the games it is filled with.
LEMMA ShownStatus ==
    ASSUME NEW games, games \subseteq schedule, NEW ended, TypeOK,
           Show(games, ended)
    PROVE  /\ DOMAIN table' = games
           /\ \A d \in games :
                 /\ table'[d] \in Status
                 /\ table'[d] = "running" => d \notin ended
                 /\ table'[d] = "finished" => d \in ended
<1>1. ASSUME NEW d \in games
      PROVE  /\ StateOfGame(d, ended) \in Status
             /\ StateOfGame(d, ended) = "running" => d \notin ended
             /\ StateOfGame(d, ended) = "finished" => d \in ended
  <2>1. Start(d) \in Int /\ now \in Int
    BY ScheduleDays, DaysAssumption DEF TypeOK, Day, Start, Moment, Midnight, End
  <2>2. Start(d) > now \/ Start(d) <= now
    BY <2>1
  <2>3. ~(Start(d) > now /\ Start(d) <= now)
    BY <2>1
  <2> QED BY <2>2, <2>3 DEF StateOfGame, Status
<1>2. table' = [d \in games |-> StateOfGame(d, ended)]
  BY DEF Show
<1> QED BY <1>1, <1>2

LEMMA InitHolds == Init => CalendarInv
<1> SUFFICES ASSUME Init PROVE CalendarInv
  OBVIOUS
<1>1. now \in Moment /\ now \in 3..3 * Days + 2 /\ Days \in Nat
  BY DaysAssumption DEF Init, Moment, Midnight, End
<1>2. now \div 3 \in 1..Days
  BY <1>1
<1>3. label \in Day
  BY <1>2 DEF Init, Today, Day
<1>4. TypeOK
  BY <1>1, <1>3 DEF Init, TypeOK, EmptyTable
<1> QED BY <1>4 DEF Init, CalendarInv, ContextInv, TableInv, EmptyTable

\* A press of an arrow that fills the table, or only shows a message.
LEMMA PressedStep ==
    ASSUME CalendarInv, NEW games, games \subseteq schedule, NEW message,
           message \in {"noMoreGames", "seasonBegins"}, Pressed(games, message)
    PROVE  CalendarInv'
<1>1. CASE games # {}
  <2>1. Show(games, objects) /\ UNCHANGED <<schedule, now, storeVars, open, crashed, alert>>
    BY <1>1 DEF Pressed
  <2>2. /\ DOMAIN table' = games
        /\ \A d \in games :
              /\ table'[d] \in Status
              /\ table'[d] = "running" => d \notin objects
              /\ table'[d] = "finished" => d \in objects
    BY <2>1, ShownStatus DEF CalendarInv
  <2>3. label' \in Day
    <3>1. games \subseteq Day
      BY ScheduleDays DEF CalendarInv
    <3> QED BY <1>1, <2>1, <3>1, FirstDay DEF Show
  <2>4. searchedAt' = now
    BY <2>1 DEF Show
  <2>5. TypeOK'
    BY <2>1, <2>2, <2>3, <2>4 DEF CalendarInv, TypeOK, storeVars
  <2>6. ContextInv'
    BY <2>1 DEF CalendarInv, ContextInv, storeVars, Over
  <2>7. TableInv'
    BY <2>1, <2>2, <2>4 DEF CalendarInv, ContextInv, TableInv, storeVars, Pressed
  <2> QED BY <2>5, <2>6, <2>7 DEF CalendarInv
<1>2. CASE games = {}
  <2>1. /\ alert' = message
        /\ UNCHANGED <<schedule, now, storeVars, open, crashed, table, label, searchedAt>>
    BY <1>2 DEF Pressed
  <2>2. TypeOK'
    BY <2>1 DEF CalendarInv, TypeOK, storeVars
  <2>3. ContextInv' /\ TableInv'
    BY <2>1 DEF CalendarInv, ContextInv, TableInv, storeVars, Over
  <2> QED BY <2>2, <2>3 DEF CalendarInv
<1> QED BY <1>1, <1>2

LEMMA OpenScreenStep == ASSUME CalendarInv, OpenScreen PROVE CalendarInv'
<1> DEFINE seeded == CASE objects # NoObjects -> objects
                       [] objects = NoObjects /\ saved # NoObjects -> saved
                       [] objects = NoObjects /\ saved = NoObjects -> Over(now)
           games == CalendarInfo(Midnight(Today))
<1>1. /\ open' = TRUE /\ alert' = "none" /\ objects' = seeded
      /\ UNCHANGED <<schedule, now, crashed, saved>>
      /\ loadedAt' = IF loadedAt = NoMoment THEN now ELSE loadedAt
      /\ ~open
  BY DEF OpenScreen, SaveContext
<1>2. /\ games # {} => Show(games, seeded)
      /\ games = {} => /\ table' = EmptyTable
                       /\ label' = Today
                       /\ searchedAt' = now
  BY DEF OpenScreen
<1>3. TypeOK /\ ContextInv /\ now \in Moment /\ now \in Nat /\ now # NoMoment
  <2>1. now \in 3..3 * Days + 2 /\ Days \in Nat
    BY DaysAssumption DEF CalendarInv, TypeOK, Moment, Midnight, End
  <2> QED BY <2>1 DEF CalendarInv, TypeOK, NoMoment
<1>4. /\ loadedAt' \in Moment /\ loadedAt' # NoMoment /\ loadedAt' <= now
      /\ seeded = Over(loadedAt')
  <2>1. CASE loadedAt = NoMoment
    <3>1. seeded = Over(now) /\ loadedAt' = now
      BY <1>1, <1>3, <2>1 DEF ContextInv
    <3> QED BY <1>3, <3>1
  <2>2. CASE loadedAt # NoMoment
    <3>1. seeded = objects /\ loadedAt' = loadedAt
      BY <1>1, <1>3, <2>2 DEF ContextInv
    <3>2. loadedAt \in Moment
      BY <1>3, <2>2 DEF TypeOK
    <3> QED BY <1>3, <2>2, <3>1, <3>2 DEF ContextInv
  <2> QED BY <2>1, <2>2
<1> HIDE DEF seeded
<1>5. games \subseteq schedule /\ schedule \subseteq Day
  BY <1>3, InfoGames, ScheduleDays
<1> HIDE DEF games
<1>6. /\ searchedAt' = now
      /\ label' \in Day
      /\ DOMAIN table' \subseteq schedule
      /\ \A d \in DOMAIN table' :
            /\ table'[d] \in Status
            /\ table'[d] = "running" => d \notin seeded
            /\ table'[d] = "finished" => d \in seeded
  <2>1. CASE games # {}
    <3>1. Show(games, seeded)
      BY <1>2, <2>1
    <3>2. searchedAt' = now /\ label' \in Day
      BY <1>5, <2>1, <3>1, FirstDay DEF Show
    <3> QED BY <1>3, <1>5, <3>1, <3>2, ShownStatus
  <2>2. CASE games = {}
    <3>1. Today \in Day
      BY <1>3, DayOfMoment
    <3> QED BY <1>2, <2>2, <3>1 DEF EmptyTable
  <2> QED BY <2>1, <2>2
<1>7. seeded \subseteq Day
  BY <1>4, <1>5, <1>1 DEF Over
<1>8. objects' # NoObjects
  BY <1>1, <1>7, NoObjectsAssumption DEF Day
<1>9. TypeOK'
  BY <1>1, <1>3, <1>4, <1>6, <1>7 DEF TypeOK
<1>10. ContextInv'
  <2>1. objects' = {d \in schedule' : End(d) <= loadedAt'}
    BY <1>1, <1>4 DEF Over
  <2> QED BY <1>1, <1>3, <1>4, <1>8, <2>1 DEF ContextInv, Over
<1>11. TableInv'
  BY <1>1, <1>4, <1>6 DEF TableInv
<1> QED BY <1>9, <1>10, <1>11 DEF CalendarInv

LEMMA StepHolds == CalendarInv /\ [Next]_vars => CalendarInv'
<1> SUFFICES ASSUME CalendarInv, [Next]_vars PROVE CalendarInv'
  OBVIOUS
<1>1. ASSUME NextDateClicked PROVE CalendarInv'
  <2>1. label \in Day
    BY DEF CalendarInv, TypeOK
  <2>2. NextDateGames(label) \subseteq schedule
    BY <2>1, NextGames DEF CalendarInv
  <2>3. Pressed(NextDateGames(label), "noMoreGames")
    BY <1>1 DEF NextDateClicked
  <2> QED BY <2>2, <2>3, PressedStep
<1>2. ASSUME PreviousDateClicked PROVE CalendarInv'
  <2>1. label \in Day /\ ~ReadsEmpty(label)
    BY <1>2 DEF CalendarInv, TypeOK, PreviousDateClicked
  <2>2. PreviousDateGames(label) \subseteq schedule
    BY <2>1, PreviousGames DEF CalendarInv
  <2>3. Pressed(PreviousDateGames(label), "seasonBegins")
    BY <1>2 DEF PreviousDateClicked
  <2> QED BY <2>2, <2>3, PressedStep
<1>3. ASSUME PreviousDateCrashes \/ DismissAlert PROVE CalendarInv'
  <2>1. /\ UNCHANGED <<schedule, now, saved, objects, loadedAt, open, label,
                       table, searchedAt>>
        /\ alert' \in {alert, "none"}
        /\ crashed' \in BOOLEAN
    BY <1>3 DEF PreviousDateCrashes, DismissAlert, CalendarInv, TypeOK, storeVars,
                screenVars
  <2>2. TypeOK'
    BY <2>1 DEF CalendarInv, TypeOK
  <2>3. ContextInv' /\ TableInv'
    BY <2>1 DEF CalendarInv, ContextInv, TableInv, Over
  <2> QED BY <2>2, <2>3 DEF CalendarInv
<1>4. ASSUME CloseScreen PROVE CalendarInv'
  <2>1. Today \in Day
    BY DayOfMoment DEF CalendarInv
  <2>2. /\ UNCHANGED <<schedule, now, saved, objects, loadedAt, alert, crashed>>
        /\ open' = FALSE /\ label' = Today /\ searchedAt' = NoMoment
        /\ DOMAIN table' = {}
    BY <1>4 DEF CloseScreen, storeVars, EmptyTable
  <2> QED BY <2>1, <2>2 DEF CalendarInv, TypeOK, ContextInv, TableInv, Over
<1>5. ASSUME Restart PROVE CalendarInv'
  <2>1. Today \in Day
    BY DayOfMoment DEF CalendarInv
  <2>2. /\ UNCHANGED <<schedule, now, saved>>
        /\ open' = FALSE /\ label' = Today /\ searchedAt' = NoMoment
        /\ loadedAt' = NoMoment /\ objects' = NoObjects
        /\ alert' = "none" /\ crashed' = FALSE
        /\ DOMAIN table' = {}
    BY <1>5 DEF Restart, EmptyTable
  <2> QED BY <2>1, <2>2 DEF CalendarInv, TypeOK, ContextInv, TableInv
<1>6. ASSUME Tick PROVE CalendarInv'
  <2>1. /\ UNCHANGED <<schedule, saved, objects, loadedAt, open, label, table,
                       alert, searchedAt, crashed>>
        /\ now' = now + 1 /\ now < End(Days)
    BY <1>6 DEF Tick, storeVars, screenVars
  <2>2. now \in 3..3 * Days + 2 /\ Days \in Nat /\ End(Days) = 3 * Days + 2
    BY DaysAssumption DEF CalendarInv, TypeOK, Moment, Midnight, End
  <2>3. now' \in 3..3 * Days + 2
    BY <2>1, <2>2
  <2>4. now' \in Moment
    BY <2>3, DaysAssumption DEF Moment, Midnight, End
  <2>5. loadedAt # NoMoment => loadedAt \in Int
    BY DaysAssumption DEF CalendarInv, TypeOK, Moment, Midnight, End
  <2>6. TypeOK'
    BY <2>1, <2>4 DEF CalendarInv, TypeOK
  <2>7. loadedAt # NoMoment => loadedAt <= now + 1
    BY <2>2, <2>5 DEF CalendarInv, ContextInv
  <2>8. ContextInv'
    BY <2>1, <2>7 DEF CalendarInv, ContextInv, Over
  <2>9. TableInv'
    BY <2>1 DEF CalendarInv, TableInv
  <2> QED BY <2>6, <2>8, <2>9 DEF CalendarInv
<1>7. CASE UNCHANGED vars
  BY <1>7 DEF vars, CalendarInv, TypeOK, ContextInv, TableInv, storeVars, screenVars, Over
<1>8. ASSUME OpenScreen PROVE CalendarInv'
  BY <1>8, OpenScreenStep
<1> QED BY <1>1, <1>2, <1>3, <1>4, <1>5, <1>6, <1>7, <1>8 DEF Next

(***************************************************************************)
(* The context holds the games that were over when this process loaded the *)
(* schedule, and the table agrees with it.                                 *)
(***************************************************************************)
THEOREM Invariant == Spec => []CalendarInv
<1> QED BY InitHolds, StepHolds, PTL DEF Spec

(***************************************************************************)
(* A game the table wrongly calls running has ended since this process     *)
(* loaded the schedule, and no game is called finished that was not.       *)
(***************************************************************************)
THEOREM StaleSinceLoading == Spec => []StatusStaleOnlySinceLoading
<1>1. CalendarInv => StatusStaleOnlySinceLoading
  <2> SUFFICES ASSUME CalendarInv, NEW d \in DOMAIN table
               PROVE  /\ table[d] = "running" /\ d \in Over(searchedAt)
                           => d \notin Over(loadedAt)
                      /\ table[d] = "finished" => d \in Over(searchedAt)
    BY DEF StatusStaleOnlySinceLoading, CalendarInv
  <2>1. /\ objects = Over(loadedAt) /\ loadedAt # NoMoment
        /\ loadedAt <= searchedAt
        /\ table[d] = "running" => d \notin objects
        /\ table[d] = "finished" => d \in objects
    BY DEF CalendarInv, ContextInv, TableInv
  <2>2. loadedAt \in Int /\ searchedAt \in Int
    BY <2>1, DaysAssumption DEF CalendarInv, TypeOK, Moment, Midnight, End, NoMoment
  <2>3. d \in Over(loadedAt) => d \in Over(searchedAt)
    <3>1. d \in schedule /\ End(d) \in Int
      <4>1. d \in schedule /\ TypeOK
        BY DEF CalendarInv, TypeOK
      <4>2. d \in Day
        BY <4>1, ScheduleDays
      <4> QED BY <4>1, <4>2, DaysAssumption DEF Day, End
    <3> QED BY <2>1, <2>2, <3>1 DEF Over
  <2> QED BY <2>1, <2>3
<1> QED BY <1>1, Invariant, PTL

(***************************************************************************)
(* Each press of an arrow shows the nearest day with games in its          *)
(* direction, or says that there is none; the arrow back fails only when   *)
(* the season has been over for a whole day.                               *)
(***************************************************************************)
THEOREM NearestDayIsFound == Spec => ArrowsFindNearestDay
<1>1. CalendarInv /\ [Next]_vars =>
        [/\ NextDateClicked =>
              IF Later(label) = {}
                THEN alert' = "noMoreGames" /\ label' = label
                ELSE alert' = "none" /\ label' = Min(Later(label))
         /\ PreviousDateClicked =>
              IF Earlier(label) = {}
                THEN alert' = "seasonBegins" /\ label' = label
                ELSE alert' = "none" /\ label' = Max(Earlier(label))
         /\ PreviousDateCrashes => label > Max(schedule) + 1]_vars
  <2> SUFFICES ASSUME CalendarInv
               PROVE  /\ NextDateClicked =>
                           IF Later(label) = {}
                             THEN alert' = "noMoreGames" /\ label' = label
                             ELSE alert' = "none" /\ label' = Min(Later(label))
                      /\ PreviousDateClicked =>
                           IF Earlier(label) = {}
                             THEN alert' = "seasonBegins" /\ label' = label
                             ELSE alert' = "none" /\ label' = Max(Earlier(label))
                      /\ PreviousDateCrashes => label > Max(schedule) + 1
    OBVIOUS
  <2>1. label \in Day /\ TypeOK
    BY DEF CalendarInv, TypeOK
  <2>2. ASSUME NextDateClicked
        PROVE  IF Later(label) = {}
                 THEN alert' = "noMoreGames" /\ label' = label
                 ELSE alert' = "none" /\ label' = Min(Later(label))
    <3>1. /\ NextDateGames(label) = {} <=> Later(label) = {}
          /\ Later(label) # {} => Min(NextDateGames(label)) = Min(Later(label))
      BY <2>1, NextGames
    <3> QED BY <2>2, <3>1 DEF NextDateClicked, Pressed, Show
  <2>3. ASSUME PreviousDateClicked
        PROVE  IF Earlier(label) = {}
                 THEN alert' = "seasonBegins" /\ label' = label
                 ELSE alert' = "none" /\ label' = Max(Earlier(label))
    <3>1. ~ReadsEmpty(label)
      BY <2>3 DEF PreviousDateClicked
    <3>2. /\ PreviousDateGames(label) = {} <=> Earlier(label) = {}
          /\ Earlier(label) # {} => Min(PreviousDateGames(label)) = Max(Earlier(label))
      BY <2>1, <3>1, PreviousGames
    <3> QED BY <2>3, <3>2 DEF PreviousDateClicked, Pressed, Show
  <2>4. ASSUME PreviousDateCrashes PROVE label > Max(schedule) + 1
    <3>1. CalendarGames(Midnight(label - 1)) = {}
      BY <2>4 DEF PreviousDateCrashes, ReadsEmpty
    <3>2. label \in Int /\ label - 1 \in Int
      BY <2>1, DaysAssumption DEF Day
    <3>3. CalendarGames(Midnight(label - 1)) = {d \in schedule : d >= label - 1}
      BY <2>1, <3>2, GamesFrom
    <3>4. Max(schedule) \in schedule /\ Max(schedule) \in Int
      BY <2>1, ScheduleDays, DaysAssumption DEF Day
    <3>5. ~(Max(schedule) >= label - 1)
      BY <3>1, <3>3, <3>4
    <3> QED BY <3>2, <3>4, <3>5
  <2> QED BY <2>2, <2>3, <2>4
<1> QED BY <1>1, Invariant, PTL DEF Spec, ArrowsFindNearestDay
=============================================================================
