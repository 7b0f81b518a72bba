--------------------------- MODULE UniverseScoring ---------------------------
(***************************************************************************)
(* The scoring of one day before the candidate pool is written: the eight  *)
(* hard filters and their funnel statistics (engine/universe.py), the      *)
(* strategies' factors, and the five steps of Scorer.aggregate.  Numbers   *)
(* are abstracted to which stocks have a value at all: what a score is     *)
(* made of is the set of strategies whose value went into it.              *)
(***************************************************************************)
EXTENDS Naturals, FiniteSets, FiniteSetsExt, Sequences

CONSTANTS
    ScStocks,       \* the active stocks
    ScStrategies,
    ScBlacklist,
    FactChoices,    \* what is known of the stocks: a fact per stock and rule
    FinancialStocks,\* banks, brokers, insurers: exempt from F-4, F-5 and F-6
    ColumnChoices,  \* the stocks a factor column may have values for
    ScColumns,      \* per strategy: the number of its factor columns
    ScStates,       \* market states with a row of weights, Sideways among them
    Sideways,
    ScWeights,      \* per state: the weight of each strategy
    ScOrder,        \* the strategies in the order they are orthogonalised
    MaxScRuns       \* bound: runs of the day, with the ones that are aborted

ASSUME ScoringAssumption ==
    /\ IsFiniteSet(ScStocks) /\ ScBlacklist \subseteq ScStocks
    /\ Sideways \in ScStates
    /\ ScWeights \in [ScStates -> [ScStrategies -> Nat]]
    /\ ScOrder \in Seq(ScStrategies)
    /\ \A s \in ScStrategies : \E i \in DOMAIN ScOrder : ScOrder[i] = s
    /\ MaxScRuns \in Nat

VARIABLES
    scAt,           \* where the run is
    scRuns,
    scFacts,        \* what the snapshot of the filters says
    scUniverse,     \* the stocks left
    scStat,         \* universe_daily_stat: the row of this day, or {}
    scSaved,        \* that row as last committed
    scFactors,      \* per strategy: the stocks each column has values for
    scSized,        \* stocks whose market value is known, the few case included
    scComposite     \* the weights used, and of which strategies each score is made

scVars == <<scAt, scRuns, scFacts, scUniverse, scStat, scSaved, scFactors, scSized,
            scComposite>>

NoFactors == [s \in ScStrategies |-> <<>>]
NoScores  == [weight |-> [s \in ScStrategies |-> 0], from |-> <<>>]

ScoringInit ==
    /\ scAt = "idle" /\ scRuns = 0
    /\ scFacts = CHOOSE f \in FactChoices : TRUE
    /\ scUniverse = {} /\ scStat = {} /\ scSaved = {}
    /\ scFactors = NoFactors /\ scSized = {} /\ scComposite = NoScores

----------------------------------------------------------------------------
(* UniverseFilter.filter_with_stats.                                       *)

ScRules == 1 .. 8

\* Missing data never excludes a stock, except a missing day of listing (F-2).
Passes(rule, c) ==
    \/ scFacts[c][rule] = "ok"
    \/ scFacts[c][rule] = "missing" /\ rule # 2
    \/ c \in FinancialStocks /\ rule \in {4, 5, 6}

LeftAfter(n) == {c \in ScStocks : \A rule \in 1 .. n : Passes(rule, c)}

\* What each rule takes from those the rules before it left.
Funnel ==
    [in  |-> Cardinality(ScStocks),
     out |-> Cardinality(LeftAfter(8)),
     excluded |-> [rule \in ScRules |->
                      Cardinality(LeftAfter(rule - 1)) - Cardinality(LeftAfter(rule))],
     rest |-> Cardinality(LeftAfter(8) \ ScBlacklist)]

FilterUniverse ==
    /\ scAt = "idle" /\ scRuns < MaxScRuns
    /\ scRuns' = scRuns + 1
    /\ scFacts' \in FactChoices
    /\ scUniverse' = LeftAfter(8)' \ ScBlacklist
    /\ scAt' = "filtered"
    /\ UNCHANGED <<scStat, scSaved, scFactors, scSized, scComposite>>

\* _record_universe_stats: the row is written behind a savepoint, so that its
\* failure takes nothing else with it.  An empty universe ends the run here.
RecordStats ==
    /\ scAt = "filtered"
    /\ scStat' \in {scStat, {Funnel}}
    /\ scAt' = IF scUniverse = {} THEN "scored" ELSE "recorded"
    /\ scComposite' = NoScores
    /\ UNCHANGED <<scRuns, scFacts, scUniverse, scSaved, scFactors, scSized>>

----------------------------------------------------------------------------
(* Scorer.aggregate, steps 1 to 3, strategy by strategy.                   *)

\* A column is taken to the residual of industry and market value; where the
\* value is not known there is no residual.
Kept(column) == column \cap scSized

\* zscore of a column that is empty, has one value or one value only repeated,
\* is zero for every stock of the universe, those without a value included.
IsFlat(column) == Cardinality(Kept(column)) < 2
ZRows(column)  == IF IsFlat(column) THEN scUniverse ELSE Kept(column)

\* A strategy without any raw value is left out; one that fails in the sandbox
\* answers with such a matrix.
Columns(s) == {scFactors[s][i] : i \in DOMAIN scFactors[s]}
ActiveColumns     == {s \in ScStrategies : \E column \in Columns(s) : column # {}}
Rows(s)    == UNION {ZRows(column) : column \in Columns(s)}
FlatRows(s) == \A column \in Columns(s) : IsFlat(column)

(* Faulty variant of Weighted: a strategy of weight zero takes part in the *)
(* orthogonalisation.                                                      *)
WeightedAll(weight) == ActiveColumns

Weighted(weight) == {s \in ActiveColumns : weight[s] > 0}

\* Steps 4a and 4b.  Only the stocks that every strategy in the order knows are
\* projected, the others lose all residuals; with fewer than two of them every
\* strategy keeps its values.  A residual that varies too little, against the
\* values the strategy had for all its stocks, counts as absorbed and is dropped
\* for all.  That may happen to the first in the order, which nothing is taken
\* from, too: when the stocks known to all are fewer than its own.
KnownToAll(weight) == {c \in scUniverse : \A s \in Weighted(weight) : c \in Rows(s)}

FirstOf(strategies) ==
    ScOrder[Min({i \in DOMAIN ScOrder : ScOrder[i] \in strategies})]

Absorbable(weight) ==
    {s \in Weighted(weight) :
        \/ s # FirstOf(Weighted(weight))
        \/ \E c \in scUniverse \ KnownToAll(weight) : c \in Rows(s)}

Residual(weight, absorbed, s) ==
    IF Cardinality(Weighted(weight)) = 1 THEN Rows(s)
    ELSE IF FlatRows(s) THEN {}
    ELSE IF Cardinality(KnownToAll(weight)) < 2 THEN Rows(s)
    ELSE IF s \in absorbed THEN {} ELSE KnownToAll(weight)

\* Step 5: a stock is scored if a strategy with weight has a row for it; its
\* score is the sum over the residuals it has, and zero without one.
Valid(weight) == {s \in ActiveColumns : weight[s] > 0}
Scored(weight, absorbed) ==
    [weight |-> weight,
     from   |-> [c \in {c \in scUniverse : \E s \in Valid(weight) : c \in Rows(s)} |->
                    {s \in Valid(weight) : c \in Residual(weight, absorbed, s)}]]

----------------------------------------------------------------------------
(* ScoringService.score_universe.                                          *)

\* The strategies compute their factors side by side, each for itself, over the
\* one snapshot; what they find is known when all have answered.
ComputeFactors ==
    /\ scAt = "recorded"
    /\ \E f \in [ScStrategies -> UNION {[1 .. n -> ColumnChoices] :
                                          n \in {ScColumns[s] : s \in ScStrategies}}] :
           /\ \A s \in ScStrategies : DOMAIN f[s] = 1 .. ScColumns[s]
           /\ scFactors' = [s \in ScStrategies |->
                               [i \in DOMAIN f[s] |-> f[s][i] \cap scUniverse]]
    /\ scSized' \in {column \cap scUniverse : column \in ColumnChoices}
    /\ scAt' = "computed"
    /\ UNCHANGED <<scRuns, scFacts, scUniverse, scStat, scSaved, scComposite>>

\* The day's state chooses the row of weights; Sideways is taken without a state
\* and for an up-trend on a narrow market.
LookupState(state, narrow) == IF state = "none" \/ narrow THEN Sideways ELSE state

Aggregate ==
    /\ scAt = "computed"
    /\ \E state \in ScStates \cup {"none"}, narrow \in BOOLEAN :
           LET weight == ScWeights[LookupState(state, narrow)]
           IN IF Weighted(weight) = {} THEN scComposite' = NoScores
              ELSE \E absorbed \in SUBSET Absorbable(weight) :
                       scComposite' = Scored(weight, absorbed)
    /\ scAt' = "scored"
    /\ UNCHANGED <<scRuns, scFacts, scUniverse, scStat, scSaved, scFactors, scSized>>

----------------------------------------------------------------------------
(* The transaction around it.                                              *)

Forget == /\ scAt' = "idle" /\ scUniverse' = {} /\ scFactors' = NoFactors
          /\ scSized' = {} /\ scComposite' = NoScores

CommitScoring ==
    /\ scAt = "scored" /\ scSaved' = scStat /\ Forget
    /\ UNCHANGED <<scRuns, scFacts, scStat>>

\* An exception of the queries or of a strategy takes the row with it.
AbortScoring ==
    /\ scAt # "idle" /\ scStat' = scSaved /\ Forget
    /\ UNCHANGED <<scRuns, scFacts, scSaved>>

ScoringNext ==
    \/ FilterUniverse \/ RecordStats \/ ComputeFactors \/ Aggregate
    \/ CommitScoring \/ AbortScoring

ScoringSpec == ScoringInit /\ [][ScoringNext]_scVars

----------------------------------------------------------------------------
KnownByTheWeighted(c) ==
    \A s \in ActiveColumns : scComposite.weight[s] > 0 => c \in Rows(s)

\* The first strategy with weight differs between stocks, and they are known to all.
LeadStays ==
    LET leads == {s \in ActiveColumns : scComposite.weight[s] > 0}
    IN leads # {} => /\ ~FlatRows(FirstOf(leads))
                     /\ \A c \in Rows(FirstOf(leads)) : KnownByTheWeighted(c)

\* Nobody is flattened alone.  The score of a stock that every strategy with
\* weight knows is made of all that any score is made of: a strategy that has no
\* weight, failed or was absorbed takes nothing from it that the others keep (the
\* trap of scorer.py:289).  All are flattened together only when the first
\* strategy fell.  Nobody outside the universe is scored, and the row of the
\* funnel accounts for every stock, whichever rules the data was missing for.
NobodyIsFlattened ==
    /\ \A c, d \in DOMAIN scComposite.from :
           KnownByTheWeighted(c) => scComposite.from[d] \subseteq scComposite.from[c]
    /\ \A c \in DOMAIN scComposite.from :
           KnownByTheWeighted(c) /\ LeadStays => scComposite.from[c] # {}
    /\ DOMAIN scComposite.from \subseteq LeftAfter(8) \ ScBlacklist
    /\ \A row \in scStat :
           row.in = row.out + SumFunctionOnSet(row.excluded, ScRules)
=============================================================================
