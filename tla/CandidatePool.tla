--------------------------- MODULE CandidatePool ---------------------------
(***************************************************************************)
(* The candidate pool of each trade day and the two watch lists that shape *)
(* it: strategy_service scores the universe without the blacklist, takes   *)
(* the best pool_capacity codes (engine/pool.py), every holding and the    *)
(* whitelist, and marks as faded the codes of yesterday's pool it did not  *)
(* take.  The rows are upserts by code and day: a second run of a day      *)
(* writes over the rows of its own selection and leaves the others.        *)
(*                                                                         *)
(* The blacklist is read before the scoring, the whitelist and yesterday's *)
(* pool after it; a user can edit the lists in between.  The ranking is an *)
(* input: any order of any codes that are not blacklisted.                 *)
(***************************************************************************)
EXTENDS Integers, Sequences, FiniteSets

CONSTANTS PoolCodes,
          PoolCapacity,     \* pool_capacity
          LastPoolDay,      \* bound on the trade days
          PoolRankings,     \* the rankings the scorer can return
          PoolHoldings,     \* the holdings a run can be given
          NoPool,           \* no row, no run
          MaxPoolWrites,    \* bound on the runs
          MaxListEdits      \* bound on the users' edits

VARIABLES whitelist, blacklist,  \* user_watchlist by list type
          poolTable,    \* candidate_pool: day -> code -> row, or NoPool
          scoring,      \* the run between its two halves, or NoPool
          poolRuns,     \* runs started
          listEdits,    \* edits so far
          lastWrite     \* for each day, what its last write saw and took
poolVars == <<whitelist, blacklist, poolTable, scoring, poolRuns, listEdits, lastWrite>>

PoolDays == 1..LastPoolDay
PoolRow  == [in : BOOLEAN, holding : BOOLEAN, scored : BOOLEAN, run : 1..MaxPoolWrites]
PoolRun  == [run : 1..MaxPoolWrites, day : PoolDays, ranking : PoolRankings,
             holdings : SUBSET PoolCodes, black : SUBSET PoolCodes]
PoolWrite == [run : 1..MaxPoolWrites, taken : SUBSET PoolCodes, black : SUBSET PoolCodes,
              forced : SUBSET PoolCodes, before : SUBSET PoolCodes]

PoolTypeOK ==
    /\ whitelist \subseteq PoolCodes /\ blacklist \subseteq PoolCodes
    /\ poolTable \in [PoolDays -> [PoolCodes -> PoolRow \cup {NoPool}]]
    /\ scoring \in PoolRun \cup {NoPool}
    /\ poolRuns \in 0..MaxPoolWrites /\ listEdits \in 0..MaxListEdits
    /\ lastWrite \in [PoolDays -> PoolWrite \cup {NoPool}]

----------------------------------------------------------------------------
Ranked(ranking) == {ranking[i] : i \in DOMAIN ranking}

ASSUME PoolAssumption ==
    /\ LastPoolDay \in Nat /\ MaxPoolWrites \in Nat /\ MaxListEdits \in Nat
    /\ \A ranking \in PoolRankings : Ranked(ranking) \subseteq PoolCodes
    /\ PoolHoldings \subseteq SUBSET PoolCodes
    /\ NoPool \notin PoolRow /\ NoPool \notin PoolRun /\ NoPool \notin PoolWrite

\* compute_pool: the first pool_capacity codes, the holdings, the whitelist.
Taken(ranking, holdings, white) ==
    {ranking[i] : i \in DOMAIN ranking \cap 1..PoolCapacity} \cup holdings \cup white

\* get_pool_codes: the codes of a day with in_pool.
InPool(d) ==
    IF d \in PoolDays
    THEN {c \in PoolCodes : poolTable[d][c] # NoPool /\ poolTable[d][c].in}
    ELSE {}

(* Faulty variant of Faded: a row that is there is not written over.        *)
FadedIfNew(rows, faded, run) ==
    [c \in PoolCodes |->
        IF c \in faded /\ rows[c] = NoPool
        THEN [in |-> FALSE, holding |-> FALSE, scored |-> FALSE, run |-> run]
        ELSE rows[c]]

\* Yesterday in the pool, today not taken: in_pool = FALSE, scores cleared.
Faded(rows, faded, run) ==
    [c \in PoolCodes |->
        IF c \in faded
        THEN [in |-> FALSE, holding |-> FALSE, scored |-> FALSE, run |-> run]
        ELSE rows[c]]

----------------------------------------------------------------------------
PoolInit ==
    /\ whitelist = {} /\ blacklist = {}
    /\ poolTable = [d \in PoolDays |-> [c \in PoolCodes |-> NoPool]]
    /\ scoring = NoPool
    /\ poolRuns = 0 /\ listEdits = 0
    /\ lastWrite = [d \in PoolDays |-> NoPool]

\* POST and DELETE /watchlist: a code may be on both lists.
EditWhitelist(c) ==
    /\ listEdits < MaxListEdits /\ listEdits' = listEdits + 1
    /\ \/ whitelist' = whitelist \cup {c}
       \/ whitelist' = whitelist \ {c}
    /\ UNCHANGED <<blacklist, poolTable, scoring, poolRuns, lastWrite>>

EditBlacklist(c) ==
    /\ listEdits < MaxListEdits /\ listEdits' = listEdits + 1
    /\ \/ blacklist' = blacklist \cup {c}
       \/ blacklist' = blacklist \ {c}
    /\ UNCHANGED <<whitelist, poolTable, scoring, poolRuns, lastWrite>>

\* score_universe_for_date; an empty universe ends the run with no write.
ScoreUniverse(d, ranking, holdings) ==
    /\ scoring = NoPool /\ poolRuns < MaxPoolWrites
    /\ Ranked(ranking) \cap blacklist = {}
    /\ poolRuns' = poolRuns + 1
    /\ scoring' = IF ranking = <<>> THEN NoPool
                  ELSE [run |-> poolRuns + 1, day |-> d, ranking |-> ranking,
                        holdings |-> holdings, black |-> blacklist]
    /\ UNCHANGED <<whitelist, blacklist, poolTable, listEdits, lastWrite>>

\* write_candidate_pool, and the commit at the end of the checkpoint.
WritePool ==
    /\ scoring # NoPool
    /\ LET d      == scoring.day
           run    == scoring.run
           taken  == Taken(scoring.ranking, scoring.holdings, whitelist)
           before == InPool(d - 1)
           upserted == [c \in PoolCodes |->
               IF c \in taken
               THEN [in |-> TRUE, holding |-> c \in scoring.holdings,
                     scored |-> c \in Ranked(scoring.ranking), run |-> run]
               ELSE poolTable[d][c]]
       IN  /\ poolTable' = [poolTable EXCEPT ![d] = Faded(upserted, before \ taken, run)]
           /\ lastWrite' = [lastWrite EXCEPT ![d] =
                 [run |-> run, taken |-> taken, black |-> scoring.black,
                  forced |-> scoring.holdings \cup whitelist, before |-> before]]
    /\ scoring' = NoPool
    /\ UNCHANGED <<whitelist, blacklist, poolRuns, listEdits>>

\* The checkpoint fails or the process stops: the session is rolled back.
AbortPool ==
    /\ scoring # NoPool
    /\ scoring' = NoPool
    /\ UNCHANGED <<whitelist, blacklist, poolTable, poolRuns, listEdits, lastWrite>>

PoolNext ==
    \/ \E c \in PoolCodes : EditWhitelist(c) \/ EditBlacklist(c)
    \/ \E d \in PoolDays, ranking \in PoolRankings, holdings \in PoolHoldings :
          ScoreUniverse(d, ranking, holdings)
    \/ WritePool
    \/ AbortPool

PoolSpec == PoolInit /\ [][PoolNext]_poolVars

----------------------------------------------------------------------------
(***************************************************************************)
(* PoolRowsExplained: however often a day is run again, and whatever the   *)
(* users do to the lists meanwhile, the rows of a day read as its last     *)
(* write: what it took is in the pool and carries that run; no code that   *)
(* was in the pool the day before is left over from an earlier run, it is  *)
(* either taken or faded; a code blacklisted when the scoring began is in  *)
(* only because it is held or whitelisted, or left over from an earlier    *)
(* run; and a code has a score exactly if it was ranked by the run that    *)
(* put it there.  strategy_service.py:708-802.                             *)
(***************************************************************************)
PoolRowsExplained ==
    \A d \in PoolDays, c \in PoolCodes :
        LET row == poolTable[d][c]
            w   == lastWrite[d]
        IN  IF w = NoPool THEN row = NoPool
            ELSE /\ c \in w.taken => row # NoPool /\ row.in /\ row.run = w.run
                 /\ c \in w.before => row # NoPool /\ row.run = w.run
                 /\ row # NoPool =>
                       /\ row.run <= w.run
                       /\ row.run = w.run => (row.in <=> c \in w.taken)
                       /\ row.run = w.run /\ row.in /\ c \in w.black => c \in w.forced
                       /\ row.scored => row.in
                       /\ row.run = w.run /\ row.scored => c \notin w.black
============================================================================
