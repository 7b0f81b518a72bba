----------------------------- MODULE MCServices -----------------------------
(***************************************************************************)
(* The services beside the daily pipeline and the account, checked in one  *)
(* run.  Their modules share no variable and no lock: each behaviour takes *)
(* one part and follows it, so the run covers every behaviour of every     *)
(* part and none of the products of unrelated ones.  A part that is not    *)
(* the one chosen stays in its initial state, where none of its fair       *)
(* actions is enabled, so that its fairness asks nothing.                  *)
(***************************************************************************)
EXTENDS ConfigStore, BacktestTasks, TradeCalendar, IcCatchup, MonthEnd,
        SignalLifecycle, Ingestion, BacktestDays, PitMarket,
        MarketDebounce, CandidatePool, PluginRun, NotificationInbox,
        UniverseScoring, HoldingExits

CONSTANTS k1, k2, v1, v2

VARIABLE part
serviceVars == <<part, configVars, btVars, calVars, icVars, monthVars,
                 sigVars, ingVars, simVars, pmVars, marketVars, poolVars,
                 pluginVars, inboxVars, scVars, exVars>>

ServicesInit ==
    /\ part \in {"config", "tasks", "calendar", "ic", "month", "signals", "ingestion",
                 "simulation", "financials", "market", "pool", "plugin", "inbox",
                 "scoring", "exits"}
    /\ ConfigInit /\ BacktestInit /\ CalendarInit /\ IcInit /\ MonthEndInit
    /\ SignalInit /\ IngestionInit /\ SimInit /\ PitMarketInit /\ MarketInit /\ PoolInit
    /\ PluginInit /\ InboxInit /\ ScoringInit /\ ExitInit
    /\ part # "simulation" => simMode = "OPEN_T1"
    /\ part # "plugin" => capable = TRUE
    /\ part # "calendar" => calKnown = 2

ServicesNext ==
    \/ /\ part = "config" /\ ConfigNext
       /\ UNCHANGED <<part, btVars, calVars, icVars, monthVars, sigVars,
                      ingVars, simVars, pmVars, marketVars, poolVars,
                      pluginVars, inboxVars, scVars, exVars>>
    \/ /\ part = "tasks" /\ BacktestNext
       /\ UNCHANGED <<part, configVars, calVars, icVars, monthVars, sigVars,
                      ingVars, simVars, pmVars, marketVars, poolVars,
                      pluginVars, inboxVars, scVars, exVars>>
    \/ /\ part = "calendar" /\ CalendarNext
       /\ UNCHANGED <<part, configVars, btVars, icVars, monthVars, sigVars,
                      ingVars, simVars, pmVars, marketVars, poolVars,
                      pluginVars, inboxVars, scVars, exVars>>
    \/ /\ part = "ic" /\ IcNext
       /\ UNCHANGED <<part, configVars, btVars, calVars, monthVars, sigVars,
                      ingVars, simVars, pmVars, marketVars, poolVars,
                      pluginVars, inboxVars, scVars, exVars>>
    \/ /\ part = "month" /\ MonthEndNext
       /\ UNCHANGED <<part, configVars, btVars, calVars, icVars, sigVars,
                      ingVars, simVars, pmVars, marketVars, poolVars,
                      pluginVars, inboxVars, scVars, exVars>>
    \/ /\ part = "signals" /\ SignalNext
       /\ UNCHANGED <<part, configVars, btVars, calVars, icVars, monthVars,
                      ingVars, simVars, pmVars, marketVars, poolVars,
                      pluginVars, inboxVars, scVars, exVars>>
    \/ /\ part = "ingestion" /\ IngestionNext
       /\ UNCHANGED <<part, configVars, btVars, calVars, icVars, monthVars,
                      sigVars, simVars, pmVars, marketVars, poolVars,
                      pluginVars, inboxVars, scVars, exVars>>
    \/ /\ part = "simulation" /\ SimNext
       /\ UNCHANGED <<part, configVars, btVars, calVars, icVars, monthVars,
                      sigVars, ingVars, pmVars, marketVars, poolVars,
                      pluginVars, inboxVars, scVars, exVars>>
    \/ /\ part = "financials" /\ PitMarketNext
       /\ UNCHANGED <<part, configVars, btVars, calVars, icVars, monthVars,
                      sigVars, ingVars, simVars, marketVars, poolVars,
                      pluginVars, inboxVars, scVars, exVars>>
    \/ /\ part = "market" /\ MarketNext
       /\ UNCHANGED <<part, configVars, btVars, calVars, icVars, monthVars,
                      sigVars, ingVars, simVars, pmVars, poolVars,
                      pluginVars, inboxVars, scVars, exVars>>
    \/ /\ part = "pool" /\ PoolNext
       /\ UNCHANGED <<part, configVars, btVars, calVars, icVars, monthVars,
                      sigVars, ingVars, simVars, pmVars, marketVars,
                      pluginVars, inboxVars, scVars, exVars>>
    \/ /\ part = "plugin" /\ PluginNext
       /\ UNCHANGED <<part, configVars, btVars, calVars, icVars, monthVars,
                      sigVars, ingVars, simVars, pmVars, marketVars,
                      poolVars, inboxVars, scVars, exVars>>
    \/ /\ part = "inbox" /\ InboxNext
       /\ UNCHANGED <<part, configVars, btVars, calVars, icVars, monthVars,
                      sigVars, ingVars, simVars, pmVars, marketVars,
                      poolVars, pluginVars, scVars, exVars>>
    \/ /\ part = "scoring" /\ ScoringNext
       /\ UNCHANGED <<part, configVars, btVars, calVars, icVars, monthVars,
                      sigVars, ingVars, simVars, pmVars, marketVars,
                      poolVars, pluginVars, inboxVars, exVars>>
    \/ /\ part = "exits" /\ ExitNext
       /\ UNCHANGED <<part, configVars, btVars, calVars, icVars, monthVars,
                      sigVars, ingVars, simVars, pmVars, marketVars,
                      poolVars, pluginVars, inboxVars, scVars>>

ServicesSpec ==
    ServicesInit /\ [][ServicesNext]_serviceVars /\ ConfigFairness /\ BacktestFairness
    /\ InboxFairness

----------------------------------------------------------------------------
\* Two files that name the same keys in opposite orders (and a key that is no
\* setting), one plain save, one revert, one preview.
Setting(k, v) == [key |-> k, value |-> v]

SaveKindDef ==
    [s \in Saves |-> CASE s \in {"imp1", "imp2"} -> "import" [] s = "put" -> "put"
                       [] s = "rev" -> "revert" [] s = "dry" -> "dry_run"]
SaveYamlDef ==
    [s \in Saves |-> CASE s = "imp1" -> <<Setting(k1, v1), Setting(k2, v1)>>
                       [] s = "imp2" -> <<Setting(k2, v2), Setting("other", v1), Setting(k1, v2)>>
                       [] s = "put" -> <<Setting(k1, v2)>>
                       [] s \in {"rev", "dry"} -> <<>>]

ImportOfDef == [i \in Imports |-> "m"]

\* Two strategies, whose default weights and registry order disagree.
StrategyOrderDef  == <<"a", "b">>
DefaultWeightsDef == [g \in MarketStates |-> [s \in {"a", "b"} |-> IF s = "a" THEN 1 ELSE 2]]
IcirDef == {-1, 2}

\* Days 2 and 3 belong to the second quarter; each report is announced a day
\* after its quarter's first trade day.
QuarterOfDef  == (1 :> 1 @@ 2 :> 2 @@ 3 :> 2)
AnnouncedDef  == (1 :> 2 @@ 2 :> 3)

\* A day without quotes, a plain one, one with a closed limit and a suspension,
\* one sealed at the limit and one without an opening price.
Quote(k, o, c) == [kind |-> k, open |-> o, close |-> c]
Call(s, c) == [stock |-> s, class |-> c]
SimMarketsDef ==
    {[s \in SimStocks |-> NoQuote],
     [a |-> Quote("normal", 1, 2), b |-> Quote("normal", 1, 1)],
     [a |-> Quote("limit_up", 2, 2), b |-> Quote("suspended", 1, 1)],
     [a |-> Quote("sealed", 2, 2), b |-> Quote("normal", NoOpen, 2)]}
SimRankingsDef ==
    {<<Call("a", "top"), Call("b", "top")>>, <<Call("b", "top"), Call("a", "bottom")>>,
     <<Call("b", "bottom"), Call("a", "middle")>>}
AvailablePctDef == ("UPTREND" :> 60 @@ "DOWNTREND" :> 20)

\* A blank daily row, a falling and a rising report, a balance sheet (two
\* amounts), a report that only knows its revenue.
BlankDef == -9
Data(y, r, e) == [yoy |-> y, revenue |-> r, equity |-> e]
PitFieldsDef ==
    {Data(BlankDef, BlankDef, BlankDef), Data(-1, BlankDef, BlankDef), Data(1, 1, BlankDef),
     Data(BlankDef, BlankDef, 1), Data(BlankDef, BlankDef, 2), Data(BlankDef, 1, BlankDef)}

\* Plain stocks; one without a day of listing and one that is a loser; a bank
\* whose equity would exclude another.  The blacklisted d has no say.
PlainFacts == [rule \in ScRules |-> "ok"]
FactsDef ==
    {[c \in ScStocks |-> PlainFacts],
     [[c \in ScStocks |-> PlainFacts] EXCEPT !["b"][2] = "missing", !["c"][6] = "missing"],
     [[c \in ScStocks |-> PlainFacts] EXCEPT !["b"][5] = "bad", !["c"][4] = "bad"]}
ColumnsDef == {{}, {"a", "b"}, {"a", "b", "c"}}
ScColumnsDef == ("s" :> 1 @@ "t" :> 2 @@ "u" :> 1)
ScWeightsDef == ("UPTREND" :> ("s" :> 2 @@ "t" :> 1 @@ "u" :> 0)
                 @@ "OSCILLATION" :> ("s" :> 1 @@ "t" :> 0 @@ "u" :> 1))
ScOrderDef == <<"s", "t", "u">>

PoolRankingsDef == {<<>>, <<"a", "b">>, <<"b">>}
PoolHoldingsDef == {{}, {"b"}}
=============================================================================
