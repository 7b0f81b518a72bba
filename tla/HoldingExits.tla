---------------------------- MODULE HoldingExits ----------------------------
(***************************************************************************)
(* What becomes of one held stock over the days.  The nightly batch scores *)
(* the pool, the holding in it, and writes the shared signals of the day,  *)
(* each with a snapshot of its scores; the alerts of a user evaluate the   *)
(* holding with the same generator over the newest pool, and leave out     *)
(* what the shared table is supposed to say already.  Thresholds, quotes,  *)
(* pool rows and the position change between the two.                      *)
(***************************************************************************)
EXTENDS Naturals

CONSTANTS LastExitDay,     \* bound on the days
          ExitRanks,       \* places in the market, 1 is the best
          SellRanks,       \* values the user gives sell_pct_threshold
          FirstSellRank,   \* its value at first
          Leads,           \* z of the strategy that contributes most
          DropSigma,       \* short_term_failure_sigma
          NoSignal,        \* there is no such row
          MaxExitRuns,     \* bound on how often pools are scored
          MaxExitEdits     \* bound on purchases, sales and new thresholds

ASSUME ExitAssumption ==
    /\ LastExitDay \in Nat \ {0} /\ MaxExitRuns \in Nat /\ MaxExitEdits \in Nat
    /\ ExitRanks \subseteq Nat \ {0} /\ SellRanks \subseteq Nat /\ FirstSellRank \in SellRanks
    /\ Leads \subseteq Nat /\ NoSignal \notin Leads /\ DropSigma \in Nat

VARIABLES exDay,      \* today
          exQuoted,   \* days for which the stock has a row in daily_quote
          exScored,   \* days that have a candidate pool
          exPool,     \* the stock's row in the pool of a day
          exShared,   \* shared signals of the stock, with the snapshot's z
          exCurrent,  \* days whose signals match row, quote and threshold
          exSellAt,   \* sell_pct_threshold
          exHeld,     \* the account holds the stock
          exLoss,     \* position.pnl_pct is past the stop-loss
          exTold,     \* the evaluation that just ended, or NotTold
          exRuns, exEdits
tables == <<exQuoted, exScored, exPool, exShared, exCurrent>>
exVars == <<exDay, tables, exSellAt, exHeld, exLoss, exTold, exRuns, exEdits>>

ExitDays   == 1..LastExitDay
SharedKeys == ExitDays \X {"BUY", "SELL"}
NotPooled  == [rank |-> 0, z |-> 0, in |-> FALSE]
Unscored   == [rank |-> 0, z |-> 0, in |-> TRUE]   \* there only as a holding
NotTold    == [trigger |-> "none", loss |-> FALSE, pool |-> 0]
Triggers   == {"none", "pct_above_sell", "hard_stop_loss", "short_term_z_drop",
               "mid_term_icir_flip", "add"}

ExitTypeOK ==
    /\ exDay \in ExitDays /\ exQuoted \subseteq ExitDays /\ exScored \subseteq ExitDays
    /\ exPool \in [ExitDays -> [rank : {0} \cup ExitRanks, z : {0} \cup Leads, in : BOOLEAN]]
    /\ exShared \in [SharedKeys -> Leads \cup {NoSignal}]
    /\ exCurrent \subseteq ExitDays /\ exSellAt \in SellRanks
    /\ exHeld \in BOOLEAN /\ exLoss \in BOOLEAN
    /\ exTold \in [trigger : Triggers, loss : BOOLEAN, pool : {0} \cup ExitDays]
    /\ exRuns \in 0..MaxExitRuns /\ exEdits \in 0..MaxExitEdits

ExitInit ==
    /\ exDay = 1 /\ exQuoted = {} /\ exScored = {}
    /\ exPool = [d \in ExitDays |-> NotPooled]
    /\ exShared = [k \in SharedKeys |-> NoSignal]
    /\ exCurrent = {} /\ exSellAt = FirstSellRank
    /\ exHeld = FALSE /\ exLoss = FALSE /\ exTold = NotTold
    /\ exRuns = 0 /\ exEdits = 0

Silent == exTold' = NotTold

----------------------------------------------------------------------------
\* A suspended stock has no row for the day; a backfill may add one later.
ArriveQuote(d) ==
    /\ d <= exDay /\ exQuoted' = exQuoted \cup {d} /\ d \notin exQuoted
    /\ exCurrent' = exCurrent \ {d} /\ Silent
    /\ UNCHANGED <<exDay, exScored, exPool, exShared, exSellAt, exHeld, exLoss, exRuns, exEdits>>

\* CP2: every holding is in the pool, with scores if the universe has it.
\* A row that is not written again stays what it was.
PoolRows(d) ==
    {[rank |-> r, z |-> z, in |-> TRUE] : r \in ExitRanks, z \in Leads}
    \cup (IF exHeld THEN {Unscored} ELSE {exPool[d], NotPooled})

ScoreHoldings(d) ==
    /\ d <= exDay /\ exRuns < MaxExitRuns /\ exRuns' = exRuns + 1
    /\ exScored' = exScored \cup {d}
    /\ \E row \in PoolRows(d) : exPool' = [exPool EXCEPT ![d] = row]
    /\ exCurrent' = exCurrent \ {d} /\ Silent
    /\ UNCHANGED <<exDay, exQuoted, exShared, exSellAt, exHeld, exLoss, exEdits>>

\* CP3, without positions: a place below the threshold sells, the best one
\* buys unless the quote forbids it (suspended, at the limit, illiquid).
SharedTypes(d, buyable) ==
    IF ~exPool[d].in \/ exPool[d].rank = 0 \/ d \notin exQuoted THEN {}
    ELSE IF exPool[d].rank >= exSellAt THEN {"SELL"}
    ELSE IF exPool[d].rank = 1 /\ buyable THEN {"BUY"} ELSE {}

GenerateShared(d) ==
    /\ d \in exScored
    /\ \E buyable \in BOOLEAN :
           exShared' = [k \in SharedKeys |-> IF k[1] = d /\ k[2] \in SharedTypes(d, buyable)
                                             THEN exPool[d].z ELSE exShared[k]]
    /\ exCurrent' = exCurrent \cup {d} /\ Silent
    /\ UNCHANGED <<exDay, exQuoted, exScored, exPool, exSellAt, exHeld, exLoss, exRuns, exEdits>>

\* Step 4: the day's close goes into the position, if there is one.
MarkPosition ==
    /\ exHeld /\ exDay \in exQuoted
    /\ exLoss' \in BOOLEAN /\ Silent
    /\ UNCHANGED <<exDay, tables, exSellAt, exHeld, exRuns, exEdits>>

----------------------------------------------------------------------------
\* The drop of z between the stock's two newest snapshots, where the newest has
\* a breakdown: only purchases carry one.  Two of a day come in any order.
Snapshots(d) == {k \in SharedKeys : k[1] <= d /\ exShared[k] # NoSignal}
NewestOf(keys) == {k \in keys : \A l \in keys : l[1] <= k[1]}

Pairs(d) == {p \in Snapshots(d) \X Snapshots(d) :
                /\ p[1] \in NewestOf(Snapshots(d))
                /\ p[2] \in NewestOf(Snapshots(d) \ {p[1]})}

Drops(d) ==
    IF Pairs(d) = {} THEN {FALSE}
    ELSE {p[1][2] = "BUY" /\ exShared[p[2]] > exShared[p[1]] + DropSigma : p \in Pairs(d)}

\* The core strategy's ICIR of the month has turned negative.
Flips(d) == IF \E k \in NewestOf(Snapshots(d)) : k[2] = "BUY" THEN BOOLEAN ELSE {FALSE}

\* generate(), the branch of a holding: the first trigger that applies.
Judged(d, drop, flip, addable) ==
    IF d \notin exQuoted THEN "none"
    ELSE IF exPool[d].rank # 0 /\ exPool[d].rank >= exSellAt THEN "pct_above_sell"
    ELSE IF exLoss THEN "hard_stop_loss"
    ELSE IF drop THEN "short_term_z_drop"
    ELSE IF flip THEN "mid_term_icir_flip"
    ELSE IF exPool[d].rank = 1 /\ addable THEN "add" ELSE "none"

(* Faulty variant of Verdict: holdings outside the pool are not looked at. *)
VerdictOfPool(d, drop, flip, addable) ==
    IF exPool[d].in THEN Judged(d, drop, flip, addable) ELSE "none"

\* A holding that is not in the pool is judged by its loss alone.
Verdict(d, drop, flip, addable) ==
    IF exPool[d].in THEN Judged(d, drop, flip, addable)
    ELSE IF exLoss THEN "hard_stop_loss" ELSE "none"

\* get_latest_pool_date: the newest pool there is.
NewestPool == {d \in exScored : \A e \in exScored : e <= d}

\* evaluate_private_signals; without any pool it says nothing.
EvaluateHolding ==
    /\ exHeld
    /\ \/ exScored = {} /\ exTold' = [NotTold EXCEPT !.loss = exLoss]
       \/ \E d \in NewestPool, addable \in BOOLEAN :
          \E drop \in Drops(d), flip \in Flips(d) :
              exTold' = [trigger |-> Verdict(d, drop, flip, addable), loss |-> exLoss, pool |-> d]
    /\ UNCHANGED <<exDay, tables, exSellAt, exHeld, exLoss, exRuns, exEdits>>

----------------------------------------------------------------------------
Edit == exEdits < MaxExitEdits /\ exEdits' = exEdits + 1 /\ Silent

Purchase == Edit /\ ~exHeld /\ exHeld' = TRUE
            /\ UNCHANGED <<exDay, tables, exSellAt, exLoss, exRuns>>

SellHolding == Edit /\ exHeld /\ exHeld' = FALSE /\ exLoss' = FALSE
               /\ UNCHANGED <<exDay, tables, exSellAt, exRuns>>

ChangeThreshold ==
    /\ Edit /\ exSellAt' \in SellRanks \ {exSellAt}
    /\ exCurrent' = {}
    /\ UNCHANGED <<exDay, exQuoted, exScored, exPool, exShared, exHeld, exLoss, exRuns>>

NextExitDay ==
    /\ exDay < LastExitDay /\ exDay' = exDay + 1 /\ Silent
    /\ UNCHANGED <<tables, exSellAt, exHeld, exLoss, exRuns, exEdits>>

ExitNext ==
    \/ \E d \in ExitDays : ArriveQuote(d) \/ ScoreHoldings(d) \/ GenerateShared(d)
    \/ MarkPosition \/ EvaluateHolding
    \/ Purchase \/ SellHolding \/ ChangeThreshold \/ NextExitDay

ExitSpec == ExitInit /\ [][ExitNext]_exVars

----------------------------------------------------------------------------
(***************************************************************************)
(* StopIsNotSwallowed: when the alerts evaluate a holding that is past its *)
(* stop-loss, the user is told, or the shared table says SELL of the pool  *)
(* they used: pct_above_sell takes precedence and is left out of the       *)
(* alerts on the strength of that row.  The exceptions are the code's: no  *)
(* pool yet, a pool row without a quote (the supplement for holdings       *)
(* outside the pool passes over it), and a pool row, a quote or a          *)
(* threshold that changed after the shared signals were written.           *)
(* signal.py:237-474, signal_service.py:639-697.                           *)
(***************************************************************************)
StopIsNotSwallowed ==
    LET d == exTold.pool IN
    exTold.loss =>
        \/ exTold.trigger = "hard_stop_loss"
        \/ d = 0
        \/ exPool[d].in /\ d \notin exQuoted
        \/ /\ exTold.trigger = "pct_above_sell"
           /\ d \in exCurrent => exShared[<<d, "SELL">>] # NoSignal
============================================================================
