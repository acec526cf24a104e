-------------------------- MODULE StreetBallCalendar --------------------------
(***************************************************************************)
(* The calendar of the StreetBall league in BankUI: CalendarVC with its    *)
(* presenter and interactor, over the Core Data objects that               *)
(* BasketballData.calendarData makes of the bundled schedule.              *)
(*                                                                         *)
(* The screen shows the games of one day; the arrows look for the nearest  *)
(* day with games before or after the one on the label.  Whether a game is *)
(* over is read from the clock once per process, when the schedule is      *)
(* loaded and the objects are inserted; what is planned or running is read *)
(* from the clock at each search.                                          *)
(*                                                                         *)
(* Time is counted in three moments a day: midnight, when the day's game   *)
(* starts and when it ends.  The games of one day are one game, named by   *)
(* its day; all days are days of UTC.  Teams and scores are left out.      *)
(***************************************************************************)
EXTENDS Integers, FiniteSetsExt

CONSTANTS
    Days,       \* bound on the days
    Month,      \* the length of a month
    NoObjects   \* in the place of the games in a store that has none

ASSUME DaysAssumption == Days \in Nat \ {0} /\ Month \in Nat \ {0}

\* A store without games is not a store whose games have all no endDate.
ASSUME NoObjectsAssumption == \A S \in SUBSET (1..Days) : S # NoObjects

VARIABLES
    schedule,   \* the days that have a game, as in calender.json
    now,        \* the present moment
    saved,      \* the games in the persistent store, as objects below
    objects,    \* the games of the context that have an endDate
    open,       \* the screen is open
    label,      \* the day on the date label
    table,      \* the status of each game in the table
    alert,      \* the message over the screen
    crashed,    \* nearestGames[0] was read of an empty array
    loadedAt,   \* when this process read the schedule (history variable)
    searchedAt  \* when the table was filled (history variable)

storeVars == <<saved, objects, loadedAt>>
screenVars == <<open, label, table, alert, searchedAt>>
vars == <<schedule, now, storeVars, screenVars, crashed>>

Day == 1..Days
Midnight(d) == 3 * d
Start(d) == 3 * d + 1
End(d) == 3 * d + 2
Today == now \div 3
Moment == Midnight(1)..End(Days)

Status == {"planned", "running", "finished"}
NoMoment == 0

TypeOK ==
    /\ schedule \in (SUBSET Day) \ {{}}
    /\ now \in Moment
    /\ saved \in (SUBSET Day) \cup {NoObjects}
    /\ objects \in (SUBSET Day) \cup {NoObjects}
    /\ open \in BOOLEAN
    /\ label \in Day
    /\ DOMAIN table \subseteq schedule
    /\ \A d \in DOMAIN table : table[d] \in Status
    /\ alert \in {"none", "noMoreGames", "seasonBegins"}
    /\ crashed \in BOOLEAN
    /\ loadedAt \in Moment \cup {NoMoment}
    /\ searchedAt \in Moment \cup {NoMoment}

EmptyTable == [d \in {} |-> "planned"]

Init ==
    /\ schedule \in (SUBSET Day) \ {{}}
    /\ now \in Moment
    /\ saved = NoObjects
    /\ objects = NoObjects
    /\ open = FALSE
    /\ label = Today
    /\ table = EmptyTable
    /\ alert = "none"
    /\ crashed = FALSE
    /\ loadedAt = NoMoment
    /\ searchedAt = NoMoment

-----------------------------------------------------------------------------
\* The constants of the interactor: the afternoon before the first game day
\* and the end of the last game.
StartCalendarDate == Start(Min(schedule) - 1)
EndCalendarDate == End(Max(schedule))

\* getCalendarGames: the end of the interval is not part of the predicate.
CalendarGames(from) == {d \in schedule : Start(d) > from}

DayComponent(d) == d % Month

\* getCurrentDayGames compares the day of the month only.
CurrentDayGames(games) ==
    {d \in games : DayComponent(d) = DayComponent(Min(games))}

CalendarInfo(from) ==
    IF from < EndCalendarDate THEN CurrentDayGames(CalendarGames(from)) ELSE {}

\* getNextDateGame
NextDateGames(d) == CalendarInfo(Midnight(d + 1))

\* Mutant: the first game found is taken, be it of a later day.
PreviousWithoutLoop(d) ==
    IF Midnight(d - 1) <= StartCalendarDate THEN {}
    ELSE CurrentDayGames(CalendarGames(Midnight(d - 1)))

(***************************************************************************)
(* The loop of getPreviousDateGameResult, from day e downwards: it stops   *)
(* at the beginning of the season, or at the first day whose games are not *)
(* after it.                                                               *)
(***************************************************************************)
PreviousDateGames(d) ==
    LET search[e \in 0..Days] ==
            IF Midnight(e) <= StartCalendarDate THEN {}
            ELSE LET nearest == CurrentDayGames(CalendarGames(Midnight(e)))
                 IN IF Start(Min(nearest)) > End(e) THEN search[e - 1] ELSE nearest
    IN search[d - 1]

\* The loop reads nearestGames[0], and there is no game after day d - 1.
ReadsEmpty(d) ==
    /\ Midnight(d - 1) > StartCalendarDate
    /\ CalendarGames(Midnight(d - 1)) = {}

-----------------------------------------------------------------------------
\* getStateOfGame
StateOfGame(d, ended) ==
    CASE Start(d) > now                     -> "planned"
      [] Start(d) <= now /\ d \notin ended  -> "running"
      [] Start(d) <= now /\ d \in ended     -> "finished"

\* The games found go into the table and onto the label.
Show(games, ended) ==
    /\ table' = [d \in games |-> StateOfGame(d, ended)]
    /\ label' = Min(games)
    /\ searchedAt' = now

\* Mutant: the context with the objects is the one that is saved.
SaveOwnContext(games) == saved' = games

\* saveContext: the context it saves is new and has no changes.
SaveContext(games) == UNCHANGED saved

\* Game.init: the end of a game is kept if it is over by now.
Over(t) == {d \in schedule : End(d) <= t}

(***************************************************************************)
(* The screen opens.  TournamentTableVC, which is loaded first, inserts    *)
(* the games unless the context has some; then CalendarVC looks for the    *)
(* games of today or of the nearest day to come.                           *)
(***************************************************************************)
OpenScreen ==
    /\ ~open
    /\ open' = TRUE
    /\ alert' = "none"
    /\ LET seeded == CASE objects # NoObjects -> objects
                       [] objects = NoObjects /\ saved # NoObjects -> saved
                       [] objects = NoObjects /\ saved = NoObjects -> Over(now)
           games == CalendarInfo(Midnight(Today))
       IN /\ objects' = seeded
          /\ SaveContext(seeded)
          /\ IF games # {}
               THEN Show(games, seeded)
               ELSE /\ table' = EmptyTable
                    /\ label' = Today
                    /\ searchedAt' = now
    /\ loadedAt' = IF loadedAt = NoMoment THEN now ELSE loadedAt
    /\ UNCHANGED <<schedule, now, crashed>>

Pressed(games, message) ==
    /\ open
    /\ IF games # {}
         THEN Show(games, objects) /\ UNCHANGED alert
         ELSE alert' = message /\ UNCHANGED <<table, label, searchedAt>>
    /\ UNCHANGED <<schedule, now, storeVars, open, crashed>>

NextDateClicked ==
    /\ alert = "none"
    /\ Pressed(NextDateGames(label), "noMoreGames")

PreviousDateClicked ==
    /\ alert = "none"
    /\ ~ReadsEmpty(label)
    /\ Pressed(PreviousDateGames(label), "seasonBegins")

PreviousDateCrashes ==
    /\ open
    /\ alert = "none"
    /\ ReadsEmpty(label)
    /\ crashed' = TRUE
    /\ UNCHANGED <<schedule, now, storeVars, screenVars>>

DismissAlert ==
    /\ alert # "none"
    /\ alert' = "none"
    /\ UNCHANGED <<schedule, now, storeVars, open, label, table, searchedAt, crashed>>

\* The user leaves the screen; the process goes on.
CloseScreen ==
    /\ open
    /\ alert = "none"
    /\ open' = FALSE
    /\ table' = EmptyTable
    /\ label' = Today
    /\ searchedAt' = NoMoment
    /\ UNCHANGED <<schedule, now, storeVars, alert, crashed>>

\* The process ends and the app is started again: the context is lost.
Restart ==
    /\ loadedAt # NoMoment
    /\ objects' = NoObjects
    /\ loadedAt' = NoMoment
    /\ open' = FALSE
    /\ table' = EmptyTable
    /\ label' = Today
    /\ alert' = "none"
    /\ searchedAt' = NoMoment
    /\ crashed' = FALSE
    /\ UNCHANGED <<schedule, now, saved>>

Tick ==
    /\ now < End(Days)
    /\ now' = now + 1
    /\ UNCHANGED <<schedule, storeVars, screenVars, crashed>>

Next ==
    \/ Restart
    \/ /\ ~crashed
       /\ \/ OpenScreen
          \/ NextDateClicked
          \/ PreviousDateClicked
          \/ PreviousDateCrashes
          \/ DismissAlert
          \/ CloseScreen
          \/ Tick

Spec == Init /\ [][Next]_vars

-----------------------------------------------------------------------------
Later(d) == {e \in schedule : e > d}
Earlier(d) == {e \in schedule : e < d}

(***************************************************************************)
(* The arrows walk through the days of the schedule and miss none: each    *)
(* press shows the nearest day with games in its direction, or says that   *)
(* there is none.  The arrow back fails in one case only: the season has   *)
(* been over for a whole day when the screen is opened.                    *)
(***************************************************************************)
ArrowsFindNearestDay ==
    [][/\ NextDateClicked =>
             IF Later(label) = {}
               THEN alert' = "noMoreGames" /\ label' = label
               ELSE alert' = "none" /\ label' = Min(Later(label))
       /\ PreviousDateClicked =>
             IF Earlier(label) = {}
               THEN alert' = "seasonBegins" /\ label' = label
               ELSE alert' = "none" /\ label' = Max(Earlier(label))
       /\ PreviousDateCrashes => label > Max(schedule) + 1]_vars

(***************************************************************************)
(* The table calls a game running that was over when it was filled only    *)
(* if the game ended after this process had loaded the schedule; it never  *)
(* calls a game finished that was not.  (The variables keep their types,   *)
(* too.)                                                                   *)
(***************************************************************************)
StatusStaleOnlySinceLoading ==
    /\ TypeOK
    /\ \A d \in DOMAIN table :
          /\ table[d] = "running" /\ d \in Over(searchedAt) => d \notin Over(loadedAt)
          /\ table[d] = "finished" => d \in Over(searchedAt)
=============================================================================
