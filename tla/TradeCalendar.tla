---------------------------- MODULE TradeCalendar ----------------------------
(***************************************************************************)
(* How the running server comes to know which days are trading days.  The  *)
(* table trade_calendar is filled from the data source, at a start that    *)
(* finds it too short and by a job on the first of the month; the server   *)
(* copies a part of the table into memory when it starts, and the jobs ask *)
(* that copy.  The source knows a year's days only once they are           *)
(* published, and until then answers that nothing is open.                 *)
(***************************************************************************)
EXTENDS CalendarDays

CONSTANTS
    LastCalDay,     \* days are 0..LastCalDay
    OpenDays,       \* the days the exchange really opens
    PublishDays,    \* days on which the source may come to know more days
    RefreshDays,    \* the first days of the months
    RequiredAhead,  \* a start needs this many days ahead of it, and copies them
    FillAhead,      \* a fill writes this many
    MaxCalFaults    \* bound on fetches that fail

CalDays == 0..LastCalDay

ASSUME CalendarAssumption ==
    /\ LastCalDay \in Nat /\ OpenDays \subseteq CalDays /\ PublishDays \subseteq CalDays
    /\ RequiredAhead \in Nat /\ FillAhead \in Nat /\ RequiredAhead <= FillAhead
    /\ MaxCalFaults \in Nat

VARIABLES
    calToday,
    calKnown,    \* the source knows the days up to this one
    calTable,    \* trade_calendar: "open", "closed" or "absent"
    calFilledAt, \* history: what the source knew when the row was written
    calServer,   \* "down", "jobs" (with its scheduler) or "no_jobs"
    calMemory,   \* the copy: the open days, when it was loaded, how it was known
    calAsked,    \* history: what the job of 17:30 found and did, day by day
    calFaults

calVars == <<calToday, calKnown, calTable, calFilledAt, calServer, calMemory, calAsked, calFaults>>

NoCopy == [open |-> {}, loaded |-> 0, known |-> [d \in CalDays |-> 0]]

TradeCalendarTypeOK ==
    /\ calToday \in CalDays /\ calKnown \in CalDays
    /\ calTable \in [CalDays -> {"open", "closed", "absent"}]
    /\ calFilledAt \in [CalDays -> CalDays]
    /\ calServer \in {"down", "jobs", "no_jobs"}
    /\ calMemory \in [open : SUBSET CalDays, loaded : CalDays, known : [CalDays -> CalDays]]
    /\ calAsked \subseteq [day : CalDays, ran : BOOLEAN, loaded : CalDays,
                         known : CalDays, table : {"open", "closed", "absent"}]
    /\ calFaults \in 0..MaxCalFaults

CalendarInit ==
    /\ calToday = 0
    /\ calKnown \in PublishDays
    /\ calTable = [d \in CalDays |-> "absent"]
    /\ calFilledAt = [d \in CalDays |-> 0]
    /\ calServer = "down" /\ calMemory = NoCopy
    /\ calAsked = {} /\ calFaults = 0

-----------------------------------------------------------------------------
(* bootstrap_trade_calendar: every day of the range gets a row, and is     *)
(* open if the source lists it.                                            *)
FillRange == TradeDates(CalDays, 0, calToday + FillAhead)
Filled ==
    [d \in CalDays |->
        IF d \notin FillRange THEN calTable[d]
        ELSE IF d \in OpenDays /\ d <= calKnown THEN "open" ELSE "closed"]
FilledAt == [d \in CalDays |-> IF d \in FillRange THEN calKnown ELSE calFilledAt[d]]

(* get_trade_calendar_coverage: the last row is what counts.               *)
Covered == \E d \in CalDays : calTable[d] # "absent" /\ d >= calToday + RequiredAhead

(* Faulty variant of CopyOf: today is left out.                            *)
CopyOfAfterToday(table, filled) ==
    [open |-> {d \in TradeDates(CalDays, calToday + 1, calToday + RequiredAhead) :
                  table[d] = "open"},
     loaded |-> calToday, known |-> filled]

(* TradingCalendar.from_repo: the open rows up to RequiredAhead days from  *)
(* now.                                                                    *)
CopyOf(table, filled) ==
    [open |-> {d \in TradeDates(CalDays, 0, calToday + RequiredAhead) : table[d] = "open"},
     loaded |-> calToday, known |-> filled]

LoadCopy(table, filled) ==
    /\ calTable' = table /\ calFilledAt' = filled
    /\ calMemory' = CopyOf(table, filled)
    /\ calServer' = "jobs"

(* The start of the server: it fills the table if that does not reach far  *)
(* enough, and copies it.  Without a table, or with the source down while  *)
(* it is needed, the server comes up without its scheduler.                *)
StartServer ==
    /\ calServer = "down"
    /\ \/ /\ Covered
          /\ LoadCopy(calTable, calFilledAt)
          /\ UNCHANGED calFaults
       \/ /\ ~Covered
          /\ LoadCopy(Filled, FilledAt)
          /\ UNCHANGED calFaults
       \/ /\ ~Covered /\ calFaults < MaxCalFaults
          /\ calServer' = "no_jobs" /\ calFaults' = calFaults + 1
          /\ UNCHANGED <<calTable, calFilledAt, calMemory>>
    /\ UNCHANGED <<calToday, calKnown, calAsked>>

StopServer ==
    /\ calServer # "down"
    /\ calServer' = "down" /\ calMemory' = NoCopy
    /\ UNCHANGED <<calToday, calKnown, calTable, calFilledAt, calAsked, calFaults>>

(* The job of the first of the month, at 06:00: it fills the table and     *)
(* leaves the copy as it is; a failed fetch is logged.                     *)
RefreshCalendar ==
    /\ calServer = "jobs" /\ calToday \in RefreshDays
    /\ calTable' = Filled /\ calFilledAt' = FilledAt
    /\ UNCHANGED <<calToday, calKnown, calServer, calMemory, calAsked, calFaults>>

(* The job of 17:30 asks the copy whether today is a trading day.          *)
AskCalendar ==
    /\ calServer = "jobs" /\ \A a \in calAsked : a.day # calToday
    /\ calAsked' = calAsked \cup
          {[day |-> calToday, ran |-> calToday \in calMemory.open,
            loaded |-> calMemory.loaded, known |-> calMemory.known[calToday],
            table |-> calTable[calToday]]}
    /\ UNCHANGED <<calToday, calKnown, calTable, calFilledAt, calServer, calMemory, calFaults>>

(* A day passes; the source may have published more days by then.          *)
NextCalDay ==
    /\ calToday < LastCalDay
    /\ calToday' = calToday + 1
    /\ calKnown' \in {calKnown} \cup {d \in PublishDays : d > calKnown}
    /\ UNCHANGED <<calTable, calFilledAt, calServer, calMemory, calAsked, calFaults>>

CalendarNext == StartServer \/ StopServer \/ RefreshCalendar \/ AskCalendar \/ NextCalDay

CalendarSpec == CalendarInit /\ [][CalendarNext]_calVars

-----------------------------------------------------------------------------
(* A trading day on which the daily job did nothing lies beyond the days   *)
(* the server copied at its start, or was not published yet when its row   *)
(* was written; and the job never runs on a day the exchange is closed.    *)
SkippedOnlyIfUnknown ==
    \A a \in calAsked :
        IF a.ran THEN a.day \in OpenDays
        ELSE a.day \in OpenDays => a.day > a.loaded + RequiredAhead \/ a.day > a.known

(* The monthly refresh keeps the calendar of the jobs up to date without a *)
(* restart: a day the table has as open is never left out (scheduler.py,   *)
(* the comment on the refresh job).                                        *)
RefreshReachesTheJobs == \A a \in calAsked : a.table = "open" => a.ran
=============================================================================
