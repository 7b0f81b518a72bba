--------------------------- MODULE MarketDebounce --------------------------
(***************************************************************************)
(* The market state of each trade day: engine/market_state.py classifies   *)
(* every day of a window of index prices, debounces the sequence from the  *)
(* state stored before the window, and market_state_service stores the     *)
(* last day's state and announces a switch.  The window slides with the    *)
(* day that is identified, and a day can be identified again, out of       *)
(* order, when a run is resumed or backfilled.                             *)
(*                                                                         *)
(* A day's raw state (ADX, MA20, MA60, close) is an input; it is taken to  *)
(* be the same in every window that holds the day.                         *)
(***************************************************************************)
EXTENDS Integers, Sequences, FiniteSets, FiniteSetsExt

CONSTANTS RawStates,       \* UPTREND, DOWNTREND, OSCILLATION
          Oscillation,     \* the state before the first one is known
          NoState,         \* no row
          WindowDays,      \* rows of index_history the window holds
          WarmDays,        \* its first rows, whose indicators are NaN
          DebounceDays,
          LastMarketDay    \* bound on the trade days

ASSUME MarketAssumption ==
    /\ Oscillation \in RawStates /\ NoState \notin RawStates
    /\ WindowDays \in Nat /\ WarmDays \in Nat /\ DebounceDays \in Nat \ {0}
    /\ LastMarketDay \in Nat

VARIABLES rawStates,    \* the raw states of the days closed so far
          stateRows,    \* market_state: day -> state, or NoState
          switchesTold  \* MARKET_STATE notifications sent
marketVars == <<rawStates, stateRows, switchesTold>>

MarketDays == 1..LastMarketDay

MarketTypeOK ==
    /\ rawStates \in Seq(RawStates) /\ Len(rawStates) <= LastMarketDay
    /\ stateRows \in [MarketDays -> RawStates \cup {NoState}]
    /\ switchesTold \subseteq [day : MarketDays, old : RawStates, new : RawStates]

----------------------------------------------------------------------------
FirstOhlcvDay(d) == Max({1, d - WindowDays + 1})
FirstValidDay(d) == FirstOhlcvDay(d) + WarmDays

\* get_latest_market_state(before_date = first day of the window).
PrevConfirmed(d) ==
    LET before == {e \in MarketDays : e < FirstOhlcvDay(d) /\ stateRows[e] # NoState}
    IN  IF before = {} THEN Oscillation ELSE stateRows[Max(before)]

\* A plausible bug: a run one day too short counts.
ShortRunEndsOn(first, e) ==
    /\ e - DebounceDays + 2 >= first
    /\ \A i \in (e - DebounceDays + 2)..e : rawStates[i] = rawStates[e]

\* The DebounceDays rows ending on day e, none before `first`, are equal.
RunEndsOn(first, e) ==
    /\ e - DebounceDays + 1 >= first
    /\ \A i \in (e - DebounceDays + 1)..e : rawStates[i] = rawStates[e]

\* apply_debounce: folded over the valid days, a full run sets the state.
Confirmed(d) ==
    LET first == FirstValidDay(d)
        upTo[e \in (first - 1)..d] ==
            IF e < first THEN PrevConfirmed(d)
            ELSE IF RunEndsOn(first, e) THEN rawStates[e] ELSE upTo[e - 1]
    IN  upTo

----------------------------------------------------------------------------
MarketInit ==
    /\ rawStates = <<>>
    /\ stateRows = [d \in MarketDays |-> NoState]
    /\ switchesTold = {}

CloseMarket(raw) ==
    /\ Len(rawStates) < LastMarketDay
    /\ rawStates' = Append(rawStates, raw)
    /\ UNCHANGED <<stateRows, switchesTold>>

\* identify_and_save(d): nothing is stored while the window only warms up; a
\* switch is announced against the state before the window.
IdentifyMarket(d) ==
    /\ d \in 1..Len(rawStates) /\ FirstValidDay(d) <= d
    /\ LET states  == Confirmed(d)
           changed == states[d] # states[d - 1]
           old     == PrevConfirmed(d)
       IN  /\ stateRows' = [stateRows EXCEPT ![d] = states[d]]
           /\ switchesTold' =
                 IF changed /\ old # states[d]
                 THEN switchesTold \cup {[day |-> d, old |-> old, new |-> states[d]]}
                 ELSE switchesTold
    /\ UNCHANGED rawStates

MarketNext ==
    \/ \E raw \in RawStates : CloseMarket(raw)
    \/ \E d \in MarketDays : IdentifyMarket(d)

MarketSpec == MarketInit /\ [][MarketNext]_marketVars

----------------------------------------------------------------------------
\* Day e ends DebounceDays equal raw states, in the days themselves.
HeldLongEnough(e) ==
    /\ e >= DebounceDays
    /\ Cardinality({rawStates[i] : i \in (e - DebounceDays + 1)..e}) = 1

(***************************************************************************)
(* SwitchIsConfirmed: two consecutive days are identified over different   *)
(* windows, perhaps days apart and the later one first, and still the      *)
(* state in store changes between them only on a day that completes        *)
(* DebounceDays equal raw states, unless the whole window of the later day *)
(* holds no such run (then its state is the one stored before the window). *)
(* No switch is announced on any other day.  market_state.py:151-172 and   *)
(* market_state_service.py:56-118.                                         *)
(***************************************************************************)
SwitchIsConfirmed ==
    /\ \A d \in 2..Len(rawStates) :
          /\ stateRows[d] # NoState /\ stateRows[d - 1] # NoState
          /\ stateRows[d] # stateRows[d - 1]
          /\ \E e \in (FirstValidDay(d) + DebounceDays - 1)..d : HeldLongEnough(e)
          => HeldLongEnough(d) /\ stateRows[d] = rawStates[d]
    /\ \A t \in switchesTold : HeldLongEnough(t.day) /\ t.new = rawStates[t.day]
============================================================================
