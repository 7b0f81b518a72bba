--------------------------- MODULE SelectionProofs --------------------------
(***************************************************************************)
(* What holds of the way from the stocks to a signal: their scores         *)
(* (UniverseScoring), the pool of each day (CandidatePool), the shared     *)
(* signals (SignalLifecycle) and the exits of what an account holds        *)
(* (HoldingExits).  The four share no variable.                            *)
(***************************************************************************)
EXTENDS CandidatePool, SignalLifecycle, HoldingExits, UniverseScoring, InductionLemmas

-----------------------------------------------------------------------------
(***************************************************************************)
(* That the rows of every day are explained by its last write, for any     *)
(* codes, rankings, capacity, holdings and any number of runs and edits.   *)
(* Runs are numbered in the order of their scoring, and one run at a time  *)
(* scores and writes (RunsInOrder): so what an earlier run left carries a  *)
(* smaller number than what the last one wrote.                            *)
(***************************************************************************)
RunsInOrder ==
    /\ \A d \in PoolDays : lastWrite[d] # NoPool => lastWrite[d].run <= poolRuns
    /\ scoring # NoPool =>
          /\ scoring.run = poolRuns
          /\ Ranked(scoring.ranking) \cap scoring.black = {}
          /\ \A d \in PoolDays : lastWrite[d] # NoPool => lastWrite[d].run < poolRuns

\* PoolRowsExplained for one code and one day.
Explained(row, w, c) ==
    IF w = NoPool THEN row = NoPool
    ELSE /\ c \in w.taken => row # NoPool /\ row.in /\ row.run = w.run
         /\ c \in w.before => row # NoPool /\ row.run = w.run
         /\ row # NoPool =>
               /\ row.run <= w.run
               /\ row.run = w.run => (row.in <=> c \in w.taken)
               /\ row.run = w.run /\ row.in /\ c \in w.black => c \in w.forced
               /\ row.scored => row.in
               /\ row.run = w.run /\ row.scored => c \notin w.black

AllExplained == \A d \in PoolDays, c \in PoolCodes : Explained(poolTable[d][c], lastWrite[d], c)

PoolInv == PoolTypeOK /\ RunsInOrder /\ AllExplained

----------------------------------------------------------------------------
\* What the invariant says of every pair is the property.
LEMMA ExplainedIsProperty == PoolRowsExplained <=> AllExplained
BY DEF PoolRowsExplained, AllExplained, Explained

\* A row of the table, from its parts.
LEMMA RowOfParts ==
    ASSUME NEW inPool \in BOOLEAN, NEW holding \in BOOLEAN, NEW scored \in BOOLEAN,
           NEW run \in 1..MaxPoolWrites
    PROVE  [in |-> inPool, holding |-> holding, scored |-> scored, run |-> run] \in PoolRow
BY DEF PoolRow

\* Nothing is written and no run is under way.
LEMMA PoolInvInit == PoolInit => PoolInv
<1> SUFFICES ASSUME PoolInit PROVE PoolInv
  OBVIOUS
<1>1. PoolTypeOK
  <2>1. poolRuns \in 0..MaxPoolWrites /\ listEdits \in 0..MaxListEdits
    BY PoolAssumption DEF PoolInit
  <2>2. /\ poolTable \in [PoolDays -> [PoolCodes -> PoolRow \cup {NoPool}]]
        /\ lastWrite \in [PoolDays -> PoolWrite \cup {NoPool}]
    BY DEF PoolInit
  <2> QED BY <2>1, <2>2 DEF PoolInit, PoolTypeOK
<1>2. RunsInOrder /\ AllExplained
  BY DEF PoolInit, RunsInOrder, AllExplained, Explained
<1> QED BY <1>1, <1>2 DEF PoolInv

\* The scoring of a run takes the next number.
LEMMA ScoreKeepsPool ==
    ASSUME PoolInv, NEW d \in PoolDays, NEW ranking \in PoolRankings, NEW holdings \in PoolHoldings,
           ScoreUniverse(d, ranking, holdings)
    PROVE  PoolInv'
<1>1. poolRuns' = poolRuns + 1 /\ poolRuns' \in 0..MaxPoolWrites /\ poolRuns \in Nat
  BY PoolAssumption DEF ScoreUniverse, PoolInv, PoolTypeOK
<1>2. \A e \in PoolDays : lastWrite[e] # NoPool => lastWrite[e].run \in Nat
  BY DEF PoolInv, PoolTypeOK, PoolWrite
<1>3. UNCHANGED <<whitelist, blacklist, poolTable, listEdits, lastWrite>>
  BY DEF ScoreUniverse
<1> DEFINE new == [run |-> poolRuns + 1, day |-> d, ranking |-> ranking,
                   holdings |-> holdings, black |-> blacklist]
<1>4. scoring' = NoPool \/ scoring' = new
  BY DEF ScoreUniverse
<1>5. new \in PoolRun
  <2>1. poolRuns + 1 \in 1..MaxPoolWrites
    BY <1>1
  <2> QED BY <2>1, PoolAssumption DEF PoolRun, PoolInv, PoolTypeOK
<1>6. PoolTypeOK'
  <2> HIDE DEF new
  <2> QED BY <1>1, <1>3, <1>4, <1>5 DEF PoolInv, PoolTypeOK
<1>7. RunsInOrder'
  <2>1. Ranked(ranking) \cap blacklist = {}
    BY DEF ScoreUniverse
  <2> QED BY <1>1, <1>2, <1>3, <1>4, <2>1 DEF PoolInv, RunsInOrder
<1>8. AllExplained'
  BY <1>3 DEF PoolInv, AllExplained
<1> QED BY <1>6, <1>7, <1>8 DEF PoolInv

\* The write of a run: its own rows and the faded ones carry its number, and
\* the rest is older.
LEMMA WriteKeepsPool ==
    ASSUME PoolInv, WritePool
    PROVE  PoolInv'
<1> DEFINE d      == scoring.day
           run    == scoring.run
           held   == scoring.holdings
           ranked == Ranked(scoring.ranking)
           taken  == Taken(scoring.ranking, held, whitelist)
           before == InPool(d - 1)
           up     == [c \in PoolCodes |->
                        IF c \in taken
                        THEN [in |-> TRUE, holding |-> c \in held,
                              scored |-> c \in ranked, run |-> run]
                        ELSE poolTable[d][c]]
           rows   == Faded(up, before \ taken, run)
           w      == [run |-> run, taken |-> taken, black |-> scoring.black,
                      forced |-> held \cup whitelist, before |-> before]
<1>1. scoring \in PoolRun
  BY DEF WritePool, PoolInv, PoolTypeOK
<1>2. /\ d \in PoolDays /\ run \in 1..MaxPoolWrites /\ held \subseteq PoolCodes
      /\ scoring.ranking \in PoolRankings /\ scoring.black \subseteq PoolCodes
  BY <1>1 DEF PoolRun
<1>3. /\ run = poolRuns /\ ranked \cap scoring.black = {}
      /\ \A e \in PoolDays : lastWrite[e] # NoPool => lastWrite[e].run < run
  BY DEF WritePool, PoolInv, RunsInOrder
<1>4. /\ poolTable' = [poolTable EXCEPT ![d] = rows]
      /\ lastWrite' = [lastWrite EXCEPT ![d] = w]
      /\ scoring' = NoPool
      /\ UNCHANGED <<whitelist, blacklist, poolRuns, listEdits>>
  BY DEF WritePool
<1>5. /\ ranked \subseteq PoolCodes
      /\ taken \subseteq ranked \cup held \cup whitelist
      /\ before \subseteq PoolCodes
  BY <1>2, PoolAssumption DEF Taken, Ranked, InPool
<1>6. /\ poolTable \in [PoolDays -> [PoolCodes -> PoolRow \cup {NoPool}]]
      /\ lastWrite \in [PoolDays -> PoolWrite \cup {NoPool}]
      /\ whitelist \subseteq PoolCodes
  BY DEF PoolInv, PoolTypeOK
<1>7. w \in PoolWrite
  BY <1>2, <1>5, <1>6 DEF PoolWrite
<1>8. ASSUME NEW c \in PoolCodes
      PROVE  rows[c] \in PoolRow \cup {NoPool} /\ Explained(rows[c], w, c)
  <2> HIDE DEF d, run, held, ranked, taken, before
  <2>1. w # NoPool
    BY <1>7, PoolAssumption
  <2>2. CASE c \in taken
    <3>1. rows[c] = [in |-> TRUE, holding |-> c \in held, scored |-> c \in ranked, run |-> run]
      BY <2>2 DEF Faded
    <3>2. rows[c] \in PoolRow
      <4>1. (c \in held) \in BOOLEAN /\ (c \in ranked) \in BOOLEAN
        OBVIOUS
      <4> HIDE DEF rows
      <4> QED BY <1>2, <3>1, <4>1, RowOfParts
    <3>3. rows[c] # NoPool
      BY <3>2, PoolAssumption
    <3>4. rows[c].in /\ rows[c].run = run /\ (rows[c].scored => c \in ranked)
      <4> HIDE DEF rows
      <4>1. rows[c].in = TRUE /\ rows[c].run = run /\ rows[c].scored = (c \in ranked)
        BY <3>1
      <4> QED BY <4>1
    <3>5. run <= run
      BY <1>2
    <3> HIDE DEF rows
    <3> QED BY <1>3, <1>5, <2>1, <2>2, <3>2, <3>3, <3>4, <3>5 DEF Explained
  <2>3. CASE c \in before \ taken
    <3>1. rows[c] = [in |-> FALSE, holding |-> FALSE, scored |-> FALSE, run |-> run]
      BY <2>3 DEF Faded
    <3>2. rows[c] \in PoolRow
      <4> HIDE DEF rows
      <4> QED BY <1>2, <3>1, RowOfParts
    <3>3. rows[c] # NoPool
      BY <3>2, PoolAssumption
    <3>4. rows[c].in = FALSE /\ rows[c].run = run /\ rows[c].scored = FALSE
      BY <3>1
    <3>5. run <= run
      BY <1>2
    <3> HIDE DEF rows
    <3> QED BY <2>1, <2>3, <3>2, <3>3, <3>4, <3>5 DEF Explained
  <2>4. CASE c \notin before /\ c \notin taken
    <3>1. rows[c] = poolTable[d][c]
      BY <2>4 DEF Faded
    <3>2. rows[c] \in PoolRow \cup {NoPool}
      BY <1>2, <1>6, <3>1
    <3>3. ASSUME rows[c] # NoPool
          PROVE  rows[c].run < run /\ (rows[c].scored => rows[c].in)
      <4>1. Explained(poolTable[d][c], lastWrite[d], c)
        BY <1>2 DEF PoolInv, AllExplained
      <4>2. lastWrite[d] # NoPool /\ rows[c].run <= lastWrite[d].run
            /\ (rows[c].scored => rows[c].in)
        BY <3>1, <3>3, <4>1 DEF Explained
      <4>3. lastWrite[d].run \in Nat /\ rows[c].run \in Nat /\ run \in Nat
        BY <1>2, <1>6, <3>2, <3>3, <4>2 DEF PoolWrite, PoolRow
      <4> QED BY <1>2, <1>3, <4>2, <4>3
    <3>4. rows[c] # NoPool => rows[c].run \in Nat
      BY <3>2 DEF PoolRow
    <3>5. rows[c] # NoPool => rows[c].run <= run /\ rows[c].run # run
      BY <1>2, <3>3, <3>4
    <3> HIDE DEF rows
    <3> QED BY <2>1, <2>4, <3>2, <3>3, <3>5 DEF Explained
  <2> QED BY <2>2, <2>3, <2>4
<1>9. rows \in [PoolCodes -> PoolRow \cup {NoPool}]
  <2>1. rows = [c \in PoolCodes |-> rows[c]]
    BY DEF Faded
  <2> QED BY <1>8, <2>1
<1> HIDE DEF d, rows, w
<1>10. PoolTypeOK'
  BY <1>2, <1>4, <1>6, <1>7, <1>9 DEF PoolInv, PoolTypeOK
<1>11. RunsInOrder'
  <2>1. w.run = poolRuns /\ poolRuns \in Nat
    BY <1>3 DEF w, PoolInv, PoolTypeOK
  <2>2. \A e \in PoolDays : lastWrite'[e] = lastWrite[e] \/ lastWrite'[e] = w
    BY <1>4, <1>6
  <2>3. w.run <= poolRuns
    BY <2>1
  <2> QED BY <1>4, <2>2, <2>3 DEF PoolInv, RunsInOrder
<1>12. AllExplained'
  BY <1>2, <1>4, <1>6, <1>8 DEF PoolInv, AllExplained
<1> QED BY <1>10, <1>11, <1>12 DEF PoolInv

\* Edits of the lists and an aborted run write no row.
LEMMA RestKeepsPool ==
    ASSUME PoolInv, \/ \E c \in PoolCodes : EditWhitelist(c) \/ EditBlacklist(c)
                    \/ AbortPool \/ UNCHANGED poolVars
    PROVE  PoolInv'
<1>1. UNCHANGED <<poolTable, poolRuns, lastWrite>> /\ (scoring' = scoring \/ scoring' = NoPool)
  BY DEF EditWhitelist, EditBlacklist, AbortPool, poolVars
<1>2. whitelist' \subseteq PoolCodes /\ blacklist' \subseteq PoolCodes
  BY DEF EditWhitelist, EditBlacklist, AbortPool, poolVars, PoolInv, PoolTypeOK
<1>3. listEdits' \in 0..MaxListEdits
  <2>1. listEdits' = listEdits \/ (listEdits < MaxListEdits /\ listEdits' = listEdits + 1)
    BY DEF EditWhitelist, EditBlacklist, AbortPool, poolVars
  <2> QED BY <2>1, PoolAssumption DEF PoolInv, PoolTypeOK
<1> QED BY <1>1, <1>2, <1>3 DEF PoolInv, PoolTypeOK, RunsInOrder, AllExplained

\* The invariant holds in every reachable state.
LEMMA PoolInvHolds == PoolSpec => []PoolInv
<1>1. PoolInv /\ [PoolNext]_poolVars => PoolInv'
  BY ScoreKeepsPool, WriteKeepsPool, RestKeepsPool DEF PoolNext
<1> QED BY <1>1, PoolInvInit, PTL DEF PoolSpec

\* The pool and the lists are well typed, for any codes and rankings.
THEOREM PoolTypeCorrect == PoolSpec => []PoolTypeOK
<1>1. PoolInv => PoolTypeOK
  BY DEF PoolInv
<1> QED BY <1>1, PoolInvHolds, PTL

\* However often a day is run again and whatever the users do to the lists in
\* between, the rows of every day read as its last write
\* (write_candidate_pool, upsert_candidate_pool).
THEOREM RowsExplained == PoolSpec => []PoolRowsExplained
<1>1. PoolInv => PoolRowsExplained
  BY ExplainedIsProperty DEF PoolInv
<1> QED BY <1>1, PoolInvHolds, PTL

-----------------------------------------------------------------------------
(*****************************************************************************)
(* Proofs that the signal table keeps the contract of a signal's status and  *)
(* that expiry scans are exact, for any signals, days and pending clicks.    *)
(* A click is written over whatever the status has become; that it moves the *)
(* signal along a legal transition all the same rests on ClicksAreLegal: a   *)
(* status the signal had when the click was checked stays among those it had. *)
(*****************************************************************************)
HadIsHistory == \A k \in SignalKeys :
                  sigRow[k].status # "NONE" => sigRow[k].status \in sigHad[k]

ClicksAreLegal == \A c \in Clicks :
                    sigClick[c].at = "checked" =>
                      \E old \in sigHad[sigClick[c].key] : sigClick[c].write \in Allowed(old)

SigInv == SignalTypeOK /\ HadIsHistory /\ ClicksAreLegal

(* What all but the clicks do to one signal.                                 *)
BatchMoves(k) == \/ /\ sigRow[k].status = "NONE" /\ sigRow'[k].status = "NEW"
                    /\ sigHad'[k] = sigHad[k] \cup {"NEW"}
                 \/ /\ sigRow[k].status \in OpenStatuses /\ sigRow'[k].status = "EXPIRED"
                    /\ sigHad'[k] = sigHad[k] \cup {"EXPIRED"}
                 \/ sigRow'[k].status = sigRow[k].status /\ sigHad'[k] = sigHad[k]

-------------------------------------------------------------------------------
(* The empty table is well typed and no click is under way.                  *)
LEMMA SigInvInit == SignalInit => SigInv
<1> SUFFICES ASSUME SignalInit PROVE SigInv
  OBVIOUS
<1>1. 0 \in SigDays
  BY SignalAssumption DEF SigDays
<1>2. NoRow \in [status : SigStatuses, run : Nat, snapshot : Nat]
  BY DEF NoRow, SigStatuses
<1>3. SignalTypeOK
  BY <1>1, <1>2 DEF SignalInit, SignalTypeOK
<1>4. HadIsHistory /\ ClicksAreLegal
  BY DEF SignalInit, HadIsHistory, ClicksAreLegal, NoRow, IdleClick
<1> QED BY <1>3, <1>4 DEF SigInv

(* CP3 writes typed rows: new signals become NEW, others keep their status.  *)
LEMMA GenerateMoves ==
  ASSUME SigInv, NEW d \in SigDays, NEW names \in SUBSET SignalNames, GenerateSignals(d, names)
  PROVE  /\ SignalTypeOK'
         /\ \A k \in SignalKeys : BatchMoves(k)
<1> DEFINE batch == names \X {d}
<1>1. \A k \in SignalKeys : sigRow[k] \in [status : SigStatuses, run : Nat, snapshot : Nat]
  BY DEF SigInv, SignalTypeOK
<1>2. /\ sigRow' = [k \in SignalKeys |-> IF k \in batch THEN Upserted(sigRow[k], sigPool[d])
                                         ELSE sigRow[k]]
      /\ sigHad' = [k \in SignalKeys |-> IF k \in batch THEN sigHad[k] \cup {sigRow'[k].status}
                                         ELSE sigHad[k]]
      /\ sigMark' = [k \in SignalKeys |-> IF k \in batch /\ sigRow[k].status = "NONE"
                                          THEN sigScanned ELSE sigMark[k]]
      /\ UNCHANGED <<sigToday, sigPool, sigScanned, sigClick>>
  BY DEF GenerateSignals
<1>3. sigPool[d] \in Nat
  BY DEF SigInv, SignalTypeOK
<1>4. ASSUME NEW k \in SignalKeys
      PROVE  /\ sigRow'[k] \in [status : SigStatuses, run : Nat, snapshot : Nat]
             /\ sigRow'[k].status # "NONE" \/ sigRow'[k] = sigRow[k]
             /\ BatchMoves(k)
  <2> HIDE DEF batch
  <2>1. CASE k \in batch
    <3>1. sigRow'[k] = Upserted(sigRow[k], sigPool[d])
      BY <1>2, <2>1
    <3>2. sigRow'[k] \in [status : SigStatuses, run : Nat, snapshot : Nat]
      BY <1>1, <1>3, <3>1 DEF Upserted, SigStatuses
    <3>3. sigHad'[k] = sigHad[k] \cup {sigRow'[k].status}
      BY <1>2, <2>1
    <3>4. sigRow'[k].status = IF sigRow[k].status = "NONE" THEN "NEW" ELSE sigRow[k].status
      BY <3>1 DEF Upserted
    <3> QED BY <3>2, <3>3, <3>4 DEF BatchMoves, SigInv, HadIsHistory
  <2>2. CASE k \notin batch
    BY <1>1, <1>2, <2>2 DEF BatchMoves
  <2> QED BY <2>1, <2>2
<1>5. sigHad' \in [SignalKeys -> SUBSET (SigStatuses \ {"NONE"})]
  <2>1. ASSUME NEW k \in SignalKeys PROVE sigHad'[k] \subseteq SigStatuses \ {"NONE"}
    <3>1. sigHad[k] \subseteq SigStatuses \ {"NONE"}
      BY DEF SigInv, SignalTypeOK
    <3> QED BY <1>4, <3>1 DEF BatchMoves, SigStatuses
  <2> QED BY <1>2, <2>1
<1>6. SignalTypeOK'
  <2>1. sigRow' \in [SignalKeys -> [status : SigStatuses, run : Nat, snapshot : Nat]]
    BY <1>2, <1>4
  <2>2. sigMark' \in [SignalKeys -> SigDays]
    BY <1>2 DEF SigInv, SignalTypeOK
  <2> QED BY <1>2, <1>5, <2>1, <2>2 DEF SigInv, SignalTypeOK
<1> QED BY <1>4, <1>6

(* A scan expires open signals and touches no other.                         *)
LEMMA ExpireMoves ==
  ASSUME SigInv, NEW d \in SigDays, ExpireOldSignals(d)
  PROVE  /\ SignalTypeOK'
         /\ \A k \in SignalKeys : BatchMoves(k)
<1> DEFINE due == {k \in SignalKeys : Due(sigRow[k], DayOf(k), d)}
<1>1. \A k \in SignalKeys : sigRow[k] \in [status : SigStatuses, run : Nat, snapshot : Nat]
  BY DEF SigInv, SignalTypeOK
<1>2. /\ sigRow' = [k \in SignalKeys |-> IF k \in due THEN [sigRow[k] EXCEPT !.status = "EXPIRED"]
                                         ELSE sigRow[k]]
      /\ sigHad' = [k \in SignalKeys |-> IF k \in due THEN sigHad[k] \cup {"EXPIRED"}
                                         ELSE sigHad[k]]
      /\ sigScanned' = IF d > sigScanned THEN d ELSE sigScanned
      /\ UNCHANGED <<sigToday, sigPool, sigMark, sigClick>>
  BY DEF ExpireOldSignals
<1>3. ASSUME NEW k \in SignalKeys
      PROVE  /\ sigRow'[k] \in [status : SigStatuses, run : Nat, snapshot : Nat]
             /\ BatchMoves(k)
  <2>1. CASE k \in due
    <3>1. sigRow[k].status \in OpenStatuses
      BY <2>1 DEF Due
    <3>2. sigRow'[k] = [sigRow[k] EXCEPT !.status = "EXPIRED"]
      BY <1>2, <2>1
    <3>3. sigRow'[k] \in [status : SigStatuses, run : Nat, snapshot : Nat]
          /\ sigRow'[k].status = "EXPIRED"
      BY <1>1, <3>2 DEF SigStatuses
    <3>4. sigHad'[k] = sigHad[k] \cup {"EXPIRED"}
      BY <1>2, <2>1
    <3> QED BY <3>1, <3>3, <3>4 DEF BatchMoves
  <2>2. CASE k \notin due
    <3> HIDE DEF due
    <3> QED BY <1>1, <1>2, <2>2 DEF BatchMoves
  <2> QED BY <2>1, <2>2
<1>4. sigHad' \in [SignalKeys -> SUBSET (SigStatuses \ {"NONE"})]
  <2> HIDE DEF due
  <2>1. ASSUME NEW k \in SignalKeys PROVE sigHad'[k] \subseteq SigStatuses \ {"NONE"}
    <3>1. sigHad[k] \subseteq SigStatuses \ {"NONE"}
      BY DEF SigInv, SignalTypeOK
    <3> QED BY <1>2, <3>1 DEF SigStatuses
  <2> QED BY <1>2, <2>1
<1>5. SignalTypeOK'
  <2> HIDE DEF due
  <2>1. sigRow' \in [SignalKeys -> [status : SigStatuses, run : Nat, snapshot : Nat]]
    BY <1>2, <1>3
  <2>2. sigScanned' \in SigDays
    BY <1>2 DEF SigInv, SignalTypeOK
  <2> QED BY <1>2, <1>4, <2>1, <2>2 DEF SigInv, SignalTypeOK
<1> QED BY <1>3, <1>5

(* Batches and scans leave what was had, so pending clicks stay legal.       *)
LEMMA BatchKeeps ==
  ASSUME SigInv, SignalTypeOK', \A k \in SignalKeys : BatchMoves(k), UNCHANGED sigClick
  PROVE  SigInv'
<1>1. HadIsHistory'
  BY DEF SigInv, HadIsHistory, BatchMoves
<1>2. \A k \in SignalKeys : sigHad[k] \subseteq sigHad'[k]
  BY DEF BatchMoves
<1>3. \A c \in Clicks : sigClick[c].at = "checked" => sigClick[c].key \in SignalKeys
  BY DEF SigInv, SignalTypeOK, IdleClick
<1>4. ClicksAreLegal'
  BY <1>2, <1>3 DEF SigInv, ClicksAreLegal
<1> QED BY <1>1, <1>4 DEF SigInv

(* What WriteClick does to the table.                                        *)
LEMMA ClickMoves ==
  ASSUME SigInv, NEW c \in Clicks, WriteClick(c)
  PROVE  /\ SigInv'
         /\ \A k \in SignalKeys :
              \/ k # sigClick[c].key /\ sigRow'[k] = sigRow[k] /\ sigHad'[k] = sigHad[k]
              \/ /\ \E old \in sigHad[k] : sigRow'[k].status \in Allowed(old)
                 /\ sigRow'[k].status \in {"VIEWED", "ACTED"}
                 /\ sigHad'[k] = sigHad[k] \cup {sigRow'[k].status}
                 /\ sigMark'[k] = sigScanned
<1> DEFINE key == sigClick[c].key
           new == sigClick[c].write
<1>1. sigClick[c].at = "checked" /\ key \in SignalKeys /\ new \in {"VIEWED", "ACTED"}
  BY DEF WriteClick, SigInv, SignalTypeOK, IdleClick
<1>2. /\ sigRow' = [sigRow EXCEPT ![key].status = new]
      /\ sigHad' = [sigHad EXCEPT ![key] = @ \cup {new}]
      /\ sigMark' = [sigMark EXCEPT ![key] = sigScanned]
      /\ sigClick' = [sigClick EXCEPT ![c] = IdleClick]
      /\ UNCHANGED <<sigToday, sigPool, sigScanned>>
  BY DEF WriteClick
<1>3. PICK old \in sigHad[key] : new \in Allowed(old)
  BY <1>1 DEF SigInv, ClicksAreLegal
<1> HIDE DEF key, new
<1>4. /\ \A k \in SignalKeys : sigRow[k] \in [status : SigStatuses, run : Nat, snapshot : Nat]
      /\ \A k \in SignalKeys : sigHad[k] \subseteq SigStatuses \ {"NONE"}
      /\ sigRow \in [SignalKeys -> [status : SigStatuses, run : Nat, snapshot : Nat]]
      /\ sigHad \in [SignalKeys -> SUBSET (SigStatuses \ {"NONE"})]
      /\ sigMark \in [SignalKeys -> SigDays] /\ sigScanned \in SigDays
  BY DEF SigInv, SignalTypeOK
<1>5. /\ sigRow'[key].status = new /\ sigHad'[key] = sigHad[key] \cup {new}
      /\ sigRow'[key] \in [status : SigStatuses, run : Nat, snapshot : Nat]
      /\ sigMark'[key] = sigScanned
  BY <1>1, <1>2, <1>4 DEF SigStatuses
<1>6. \A k \in SignalKeys \ {key} : sigRow'[k] = sigRow[k] /\ sigHad'[k] = sigHad[k]
  BY <1>2, <1>4
<1>7. \A k \in SignalKeys : sigHad[k] \subseteq sigHad'[k]
  BY <1>5, <1>6
<1>8. SignalTypeOK'
  <2>1. sigRow' \in [SignalKeys -> [status : SigStatuses, run : Nat, snapshot : Nat]]
    BY <1>2, <1>4, <1>5, <1>6
  <2>2. sigHad' \in [SignalKeys -> SUBSET (SigStatuses \ {"NONE"})]
    BY <1>1, <1>2, <1>4, <1>5, <1>6 DEF SigStatuses
  <2>3. sigMark' \in [SignalKeys -> SigDays]
    BY <1>2, <1>4
  <2>4. \A b \in Clicks : sigClick'[b] = sigClick[b] \/ sigClick'[b] = IdleClick
    BY <1>2
  <2> QED BY <1>2, <2>1, <2>2, <2>3, <2>4 DEF SigInv, SignalTypeOK
<1>9. HadIsHistory'
  BY <1>5, <1>6 DEF SigInv, HadIsHistory
<1>10. ClicksAreLegal'
  <2>1. \A b \in Clicks : sigClick[b].at = "checked" => sigClick[b].key \in SignalKeys
    BY DEF SigInv, SignalTypeOK, IdleClick
  <2>2. \A b \in Clicks : sigClick'[b] = sigClick[b] \/ sigClick'[b] = IdleClick
    BY <1>2
  <2> QED BY <1>7, <2>1, <2>2 DEF SigInv, ClicksAreLegal, IdleClick
<1> QED BY <1>1, <1>3, <1>5, <1>6, <1>8, <1>9, <1>10 DEF SigInv, key

(* A click is checked against the status of the moment, which is one it had. *)
LEMMA CheckKeeps ==
  ASSUME SigInv, NEW c \in Clicks, NEW k \in SignalKeys, NEW new \in {"VIEWED", "ACTED"},
         CheckClick(c, k, new)
  PROVE  SigInv'
<1>1. \A b \in Clicks : \/ sigClick'[b] = sigClick[b]
                        \/ sigClick'[b] = [at |-> "checked", key |-> k, write |-> new]
  BY DEF CheckClick
<1>2. SignalTypeOK'
  BY <1>1 DEF SigInv, SignalTypeOK, CheckClick
<1>3. sigRow[k].status \in sigHad[k] /\ new \in Allowed(sigRow[k].status)
  BY DEF CheckClick, SigInv, HadIsHistory
<1>4. ClicksAreLegal'
  BY <1>1, <1>3 DEF SigInv, ClicksAreLegal, CheckClick
<1> QED BY <1>2, <1>4 DEF SigInv, HadIsHistory, CheckClick

(* Days pass and pools are scored without a trace in the signal table.       *)
LEMMA QuietKeeps ==
  ASSUME SigInv, \/ \E d \in SigDays : ScorePool(d)
                 \/ NextSigDay \/ UNCHANGED sigVars
  PROVE  SigInv' /\ UNCHANGED <<sigRow, sigHad, sigScanned, sigMark>>
<1> USE DEF SigInv, SignalTypeOK, HadIsHistory, ClicksAreLegal
<1>1. ASSUME NEW d \in SigDays, ScorePool(d) PROVE SigInv'
  BY <1>1 DEF ScorePool
<1>2. CASE NextSigDay
  BY <1>2, SignalAssumption DEF NextSigDay, SigDays
<1>3. CASE UNCHANGED sigVars
  BY <1>3 DEF sigVars
<1> QED BY <1>1, <1>2, <1>3 DEF ScorePool, NextSigDay, sigVars

(* The invariant holds in every reachable state.                             *)
LEMMA SigInvHolds == SignalSpec => []SigInv
<1>1. SigInv /\ [SignalNext]_sigVars => SigInv'
  <2> SUFFICES ASSUME SigInv, [SignalNext]_sigVars PROVE SigInv'
    OBVIOUS
  <2>1. ASSUME NEW d \in SigDays, NEW names \in SUBSET SignalNames, GenerateSignals(d, names)
        PROVE  SigInv'
    BY <2>1, GenerateMoves, BatchKeeps DEF GenerateSignals
  <2>2. ASSUME NEW d \in SigDays, ExpireOldSignals(d) PROVE SigInv'
    BY <2>2, ExpireMoves, BatchKeeps DEF ExpireOldSignals
  <2> QED BY <2>1, <2>2, ClickMoves, CheckKeeps, QuietKeeps DEF SignalNext
<1> QED BY <1>1, SigInvInit, PTL DEF SignalSpec

(* The signal table is well typed, for any signals, days and clicks.         *)
THEOREM SignalTypeCorrect == SignalSpec => []SignalTypeOK
<1>1. SigInv => SignalTypeOK
  BY DEF SigInv
<1> QED BY <1>1, SigInvHolds, PTL

-------------------------------------------------------------------------------
(* One step of the table is a step of the contract for every signal.         *)
LEMMA ContractStep ==
  ASSUME SigInv, [SignalNext]_sigVars
  PROVE  \/ Contract!StatusNext
         \/ UNCHANGED <<[k \in SignalKeys |-> sigRow[k].status], sigHad>>
<1> USE DEF Contract!StatusNext, Contract!Moves, Contract!Keeps, Contract!Born, Contract!Expires,
            Contract!Clicked, Contract!Open
<1>1. ASSUME NEW d \in SigDays, NEW names \in SUBSET SignalNames, GenerateSignals(d, names)
      PROVE  Contract!StatusNext
  BY <1>1, GenerateMoves DEF BatchMoves, OpenStatuses
<1>2. ASSUME NEW d \in SigDays, ExpireOldSignals(d) PROVE Contract!StatusNext
  BY <1>2, ExpireMoves DEF BatchMoves, OpenStatuses
<1>3. ASSUME NEW c \in Clicks, WriteClick(c) PROVE Contract!StatusNext
  <2>1. \A old : Allowed(old) # {} => Allowed(old) = Contract!ValidTransitions(old)
    BY DEF Allowed, Contract!ValidTransitions
  <2> QED BY <1>3, <2>1, ClickMoves
<1>4. ASSUME NEW c \in Clicks, NEW k \in SignalKeys, NEW new \in {"VIEWED", "ACTED"},
             CheckClick(c, k, new)
      PROVE  UNCHANGED <<sigRow, sigHad>>
  BY <1>4 DEF CheckClick
<1> QED BY <1>1, <1>2, <1>3, <1>4, QuietKeeps DEF SignalNext

(* Nightly batches, reruns, scans and overtaking clicks together keep the    *)
(* contract: a signal starts NEW, is never NEW again, expires only while     *)
(* open, and a click moves it along a transition that was legal for a status *)
(* it really had (SignalService.update_status, upsert_signals, expire).      *)
THEOREM ContractKept == SignalSpec => StatusContract
<1>1. SignalInit => Contract!StatusInit
  BY DEF SignalInit, Contract!StatusInit, NoRow
<1>2. SigInv /\ [SignalNext]_sigVars =>
        [Contract!StatusNext]_<<[k \in SignalKeys |-> sigRow[k].status], sigHad>>
  BY ContractStep
<1> QED BY <1>1, <1>2, SigInvHolds, PTL DEF SignalSpec, StatusContract, Contract!StatusSpec

-------------------------------------------------------------------------------
(* However late runs, scans and clicks come, what is open past its time was  *)
(* inserted or clicked after the last scan, and what is EXPIRED was past its *)
(* time (SignalService.expire_old_signals).                                  *)
THEOREM ScansAreExact == SignalSpec => []ScanIsExact
<1>1. SignalInit => ScanIsExact
  BY DEF SignalInit, ScanIsExact, NoRow, OpenStatuses
<1>2. SigInv /\ ScanIsExact /\ [SignalNext]_sigVars => ScanIsExact'
  <2> SUFFICES ASSUME SigInv, ScanIsExact, [SignalNext]_sigVars,
                      NEW k \in SignalKeys
               PROVE  /\ sigRow'[k].status \in OpenStatuses =>
                           DayOf(k) + SignalTtl >= sigScanned' \/ sigMark'[k] = sigScanned'
                      /\ sigRow'[k].status = "EXPIRED" => DayOf(k) + SignalTtl < sigScanned'
    BY DEF ScanIsExact
  <2>1. /\ sigRow[k].status \in OpenStatuses =>
             DayOf(k) + SignalTtl >= sigScanned \/ sigMark[k] = sigScanned
        /\ sigRow[k].status = "EXPIRED" => DayOf(k) + SignalTtl < sigScanned
    BY DEF ScanIsExact
  <2>2. ASSUME NEW d \in SigDays, NEW names \in SUBSET SignalNames, GenerateSignals(d, names)
        PROVE  /\ sigScanned' = sigScanned
               /\ \/ sigRow'[k].status = "NEW" /\ sigMark'[k] = sigScanned
                  \/ sigRow'[k].status = sigRow[k].status /\ sigMark'[k] = sigMark[k]
    BY <2>2 DEF GenerateSignals, Upserted
  <2>3. ASSUME NEW d \in SigDays, ExpireOldSignals(d)
        PROVE  /\ sigRow'[k].status \in OpenStatuses =>
                    DayOf(k) + SignalTtl >= sigScanned' \/ sigMark'[k] = sigScanned'
               /\ sigRow'[k].status = "EXPIRED" => DayOf(k) + SignalTtl < sigScanned'
    <3>1. sigScanned \in Nat /\ d \in Nat /\ DayOf(k) + SignalTtl \in Nat
      BY SignalAssumption DEF SigInv, SignalTypeOK, SigDays, SignalKeys, DayOf
    <3>2. /\ sigScanned' = (IF d > sigScanned THEN d ELSE sigScanned)
          /\ sigMark' = sigMark
          /\ IF Due(sigRow[k], DayOf(k), d)
             THEN sigRow'[k] = [sigRow[k] EXCEPT !.status = "EXPIRED"]
             ELSE sigRow'[k] = sigRow[k]
      BY <2>3 DEF ExpireOldSignals
    <3>3. CASE Due(sigRow[k], DayOf(k), d)
      <4>1. sigRow'[k].status = "EXPIRED"
        BY <3>2, <3>3 DEF SigInv, SignalTypeOK
      <4> QED BY <3>1, <3>2, <3>3, <4>1 DEF Due, OpenStatuses
    <3>4. CASE ~Due(sigRow[k], DayOf(k), d)
      BY <2>1, <3>1, <3>2, <3>4 DEF Due
    <3> QED BY <3>3, <3>4
  <2>4. ASSUME NEW c \in Clicks, WriteClick(c)
        PROVE  /\ sigScanned' = sigScanned
               /\ \/ sigRow'[k].status \in {"VIEWED", "ACTED"} /\ sigMark'[k] = sigScanned
                  \/ sigRow'[k].status = sigRow[k].status /\ sigMark'[k] = sigMark[k]
    <3>1. sigScanned' = sigScanned /\ sigMark' = [sigMark EXCEPT ![sigClick[c].key] = sigScanned]
      BY <2>4 DEF WriteClick
    <3> QED BY <2>4, <3>1, ClickMoves DEF SigInv, SignalTypeOK
  <2>5. ASSUME NEW c \in Clicks, NEW j \in SignalKeys, NEW new \in {"VIEWED", "ACTED"},
               CheckClick(c, j, new)
        PROVE  UNCHANGED <<sigRow, sigScanned, sigMark>>
    BY <2>5 DEF CheckClick
  <2> QED BY <2>1, <2>2, <2>3, <2>4, <2>5, QuietKeeps DEF SignalNext, OpenStatuses
<1> QED BY <1>1, <1>2, SigInvHolds, PTL DEF SignalSpec

-----------------------------------------------------------------------------
(***************************************************************************)
(* Proof that no stop-loss is swallowed between the shared signals and the *)
(* alerts of an account, for any bounds, ranks, thresholds and scores.     *)
(* The alerts leave pct_above_sell out because the shared table has it; so *)
(* the invariant has to say when it does (SoldInTable), and for that, what *)
(* a pool row with a place looks like (PlacedHasScore).                    *)
(***************************************************************************)
\* A pool row with a place at or below the threshold, and a quote to sell at.
Sellable(d) == /\ exPool[d].in /\ d \in exQuoted
               /\ exPool[d].rank # 0 /\ exPool[d].rank >= exSellAt

\* While row, quote and threshold are those the shared signals were written
\* with, a sellable stock has its SELL row.
SoldInTable == \A d \in exCurrent : Sellable(d) => exShared[<<d, "SELL">>] # NoSignal

PlacedHasScore == \A d \in ExitDays : exPool[d].rank # 0 => exPool[d].z \in Leads

ExitInv == ExitTypeOK /\ PlacedHasScore /\ SoldInTable

----------------------------------------------------------------------------
\* A pool row written by CP2 is typed and, with a place, scored.
LEMMA PoolRowsTyped ==
    ASSUME ExitAssumption, ExitInv, NEW d \in ExitDays, NEW row \in PoolRows(d)
    PROVE  /\ row \in [rank : {0} \cup ExitRanks, z : {0} \cup Leads, in : BOOLEAN]
           /\ row.rank # 0 => row.z \in Leads
<1>1. CASE \E r \in ExitRanks, z \in Leads : row = [rank |-> r, z |-> z, in |-> TRUE]
  BY <1>1
<1>2. CASE row = exPool[d]
  <2>1. exPool[d] \in [rank : {0} \cup ExitRanks, z : {0} \cup Leads, in : BOOLEAN]
    BY DEF ExitInv, ExitTypeOK
  <2> QED BY <1>2, <2>1 DEF ExitInv, PlacedHasScore
<1>3. CASE row = Unscored
  BY <1>3 DEF Unscored
<1>4. CASE row = NotPooled
  BY <1>4 DEF NotPooled
<1> QED BY <1>1, <1>2, <1>3, <1>4 DEF PoolRows

\* A pool that is scored again is no longer the one the signals are of.
LEMMA ScoreKeeps ==
    ASSUME ExitAssumption, ExitInv, NEW d \in ExitDays, ScoreHoldings(d)
    PROVE  ExitInv'
<1>1. PICK row \in PoolRows(d) : exPool' = [exPool EXCEPT ![d] = row]
  BY DEF ScoreHoldings
<1>2. /\ row \in [rank : {0} \cup ExitRanks, z : {0} \cup Leads, in : BOOLEAN]
      /\ row.rank # 0 => row.z \in Leads
  BY PoolRowsTyped
<1>3. ExitTypeOK'
  BY <1>1, <1>2 DEF ExitInv, ExitTypeOK, ScoreHoldings, Silent, NotTold, Triggers, ExitAssumption
<1>4. PlacedHasScore'
  BY <1>1, <1>2 DEF ExitInv, ExitTypeOK, PlacedHasScore
<1>5. SoldInTable'
  BY <1>1 DEF ExitInv, ExitTypeOK, SoldInTable, Sellable, ScoreHoldings
<1> QED BY <1>3, <1>4, <1>5 DEF ExitInv

\* CP3 writes the SELL row of a sellable stock and takes no row back.
LEMMA GenerateKeeps ==
    ASSUME ExitAssumption, ExitInv, NEW d \in ExitDays, GenerateShared(d)
    PROVE  ExitInv'
<1>1. PICK buyable \in BOOLEAN :
          exShared' = [k \in SharedKeys |-> IF k[1] = d /\ k[2] \in SharedTypes(d, buyable)
                                            THEN exPool[d].z ELSE exShared[k]]
  BY DEF GenerateShared
<1>2. SharedTypes(d, buyable) # {} => exPool[d].z \in Leads
  BY DEF SharedTypes, ExitInv, PlacedHasScore
<1>3. exShared' \in [SharedKeys -> Leads \cup {NoSignal}]
  <2>1. ASSUME NEW k \in SharedKeys PROVE exShared'[k] \in Leads \cup {NoSignal}
    BY <1>1, <1>2 DEF ExitInv, ExitTypeOK
  <2> QED BY <1>1, <2>1
<1>4. ExitTypeOK'
  BY <1>3 DEF ExitInv, ExitTypeOK, GenerateShared, Silent, NotTold, Triggers, ExitAssumption
<1>5. PlacedHasScore'
  BY DEF ExitInv, PlacedHasScore, GenerateShared
<1>6. ASSUME NEW e \in exCurrent', Sellable(e)'
      PROVE  exShared'[<<e, "SELL">>] # NoSignal
  <2> /\ e \in ExitDays /\ <<e, "SELL">> \in SharedKeys /\ Sellable(e)
      BY <1>6 DEF ExitInv, ExitTypeOK, GenerateShared, SharedKeys, Sellable
  <2>1. CASE e = d
    <3>1. "SELL" \in SharedTypes(d, buyable)
      BY <2>1 DEF SharedTypes, Sellable
    <3> QED BY <1>1, <1>2, <2>1, <3>1 DEF ExitAssumption
  <2>2. CASE e # d
    BY <1>1, <2>2 DEF ExitInv, SoldInTable, GenerateShared
  <2> QED BY <2>1, <2>2
<1> QED BY <1>4, <1>5, <1>6 DEF ExitInv, SoldInTable

\* The other steps touch no row of the shared table, and what they change of
\* row, quote or threshold ends the day's claim to be current.
LEMMA RestKeeps ==
    ASSUME ExitAssumption, ExitInv,
           \/ \E d \in ExitDays : ArriveQuote(d)
           \/ MarkPosition \/ EvaluateHolding
           \/ Purchase \/ SellHolding \/ ChangeThreshold \/ NextExitDay
           \/ UNCHANGED exVars
    PROVE  ExitInv'
<1> USE DEF ExitInv, ExitTypeOK, PlacedHasScore, SoldInTable, Sellable, tables, Silent, NotTold,
            Triggers
<1>1. ASSUME NEW d \in ExitDays, ArriveQuote(d) PROVE ExitInv'
  BY <1>1 DEF ArriveQuote, ExitAssumption
<1>2. CASE MarkPosition
  BY <1>2 DEF MarkPosition
<1>3. CASE EvaluateHolding
  <2>1. NewestPool \subseteq ExitDays
    BY DEF NewestPool
  <2>2. \A d, drop, flip, addable : Verdict(d, drop, flip, addable) \in Triggers
    BY DEF Verdict, Judged
  <2>3. exTold' \in [trigger : Triggers, loss : BOOLEAN, pool : {0} \cup ExitDays]
    <3> HIDE DEF Triggers
    <3>1. "none" \in Triggers
      BY DEF Triggers
    <3> QED BY <1>3, <2>1, <2>2, <3>1 DEF EvaluateHolding
  <2> QED BY <1>3, <2>3 DEF EvaluateHolding
<1>4. CASE Purchase
  <2>1. exHeld' = TRUE /\ exEdits' \in 0..MaxExitEdits
    BY <1>4 DEF Purchase, Edit, ExitAssumption
  <2> QED BY <1>4, <2>1 DEF Purchase, Edit
<1>5. CASE SellHolding
  <2>1. exHeld' = FALSE /\ exLoss' = FALSE /\ exEdits' \in 0..MaxExitEdits
    BY <1>5 DEF SellHolding, Edit, ExitAssumption
  <2> QED BY <1>5, <2>1 DEF SellHolding, Edit
<1>6. CASE ChangeThreshold
  BY <1>6 DEF ChangeThreshold, Edit, ExitAssumption
<1>7. CASE NextExitDay
  BY <1>7 DEF NextExitDay, ExitDays, ExitAssumption
<1>8. CASE UNCHANGED exVars
  BY <1>8 DEF exVars
<1> QED BY <1>1, <1>2, <1>3, <1>4, <1>5, <1>6, <1>7, <1>8

\* The invariant holds in every reachable state.
LEMMA ExitInvHolds == ExitSpec => []ExitInv
<1> USE ExitAssumption
<1>1. ExitInit => ExitInv
  <2> SUFFICES ASSUME ExitInit PROVE ExitInv
    OBVIOUS
  <2>1. exDay \in ExitDays /\ exRuns \in 0..MaxExitRuns /\ exEdits \in 0..MaxExitEdits
    BY DEF ExitInit, ExitDays, ExitAssumption
  <2>2. /\ exHeld \in BOOLEAN /\ exLoss \in BOOLEAN
        /\ exTold \in [trigger : Triggers, loss : BOOLEAN, pool : {0} \cup ExitDays]
    BY DEF ExitInit, NotTold, Triggers
  <2>3. exPool \in [ExitDays -> [rank : {0} \cup ExitRanks, z : {0} \cup Leads, in : BOOLEAN]]
    BY DEF ExitInit, NotPooled
  <2>4. exShared \in [SharedKeys -> Leads \cup {NoSignal}] /\ exSellAt \in SellRanks
    BY DEF ExitInit, ExitAssumption
  <2>5. PlacedHasScore /\ SoldInTable
    BY DEF ExitInit, PlacedHasScore, SoldInTable, NotPooled
  <2> QED BY <2>1, <2>2, <2>3, <2>4, <2>5 DEF ExitInit, ExitInv, ExitTypeOK
<1>2. ExitInv /\ [ExitNext]_exVars => ExitInv'
  BY ScoreKeeps, GenerateKeeps, RestKeeps DEF ExitNext
<1> QED BY <1>1, <1>2, PTL DEF ExitSpec

\* The state of one held stock is well typed, for any bounds.
THEOREM ExitTypeCorrect == ExitSpec => []ExitTypeOK
<1>1. ExitInv => ExitTypeOK
  BY DEF ExitInv
<1> QED BY ExitInvHolds, <1>1, PTL

----------------------------------------------------------------------------
\* What an evaluation tells is true of the tables it read.
LEMMA EvaluationTells ==
    ASSUME ExitAssumption, ExitInv, EvaluateHolding
    PROVE  StopIsNotSwallowed'
<1>1. CASE exScored = {} /\ exTold' = [NotTold EXCEPT !.loss = exLoss]
  BY <1>1 DEF StopIsNotSwallowed, NotTold
<1>2. CASE \E d \in NewestPool, addable \in BOOLEAN :
           \E drop \in Drops(d), flip \in Flips(d) :
               exTold' = [trigger |-> Verdict(d, drop, flip, addable), loss |-> exLoss, pool |-> d]
  <2>1. PICK d \in NewestPool, addable \in BOOLEAN :
             \E drop \in Drops(d), flip \in Flips(d) :
                 exTold' = [trigger |-> Verdict(d, drop, flip, addable), loss |-> exLoss, pool |-> d]
    BY <1>2
  <2>2. PICK drop \in Drops(d), flip \in Flips(d) :
             exTold' = [trigger |-> Verdict(d, drop, flip, addable), loss |-> exLoss, pool |-> d]
    BY <2>1
  <2> DEFINE v == Verdict(d, drop, flip, addable)
  <2>3. SUFFICES ASSUME exLoss, v # "hard_stop_loss", ~(exPool[d].in /\ d \notin exQuoted)
                 PROVE  /\ v = "pct_above_sell"
                        /\ d \in exCurrent => exShared[<<d, "SELL">>] # NoSignal
    BY <2>2 DEF EvaluateHolding, StopIsNotSwallowed, tables
  <2>4. exPool[d].in /\ d \in exQuoted
    BY <2>3 DEF Verdict
  <2>5. v = "pct_above_sell" /\ exPool[d].rank # 0 /\ exPool[d].rank >= exSellAt
    BY <2>3, <2>4 DEF Verdict, Judged
  <2> QED BY <2>4, <2>5 DEF ExitInv, SoldInTable, Sellable
<1> QED BY <1>1, <1>2 DEF EvaluateHolding

\* Whatever is scored, quoted, bought, sold or set in between: an evaluation of
\* a holding past its stop-loss tells the user, or leaves it to a SELL row that
\* is there, with the exceptions StopIsNotSwallowed names
\* (SignalGenerator.generate, evaluate_private_signals).
THEOREM StopReaches == ExitSpec => []StopIsNotSwallowed
<1> USE ExitAssumption
<1>1. ExitInit => StopIsNotSwallowed
  BY DEF ExitInit, StopIsNotSwallowed, NotTold
<1>2. ExitInv /\ StopIsNotSwallowed /\ [ExitNext]_exVars => StopIsNotSwallowed'
  <2> SUFFICES ASSUME ExitInv, StopIsNotSwallowed, [ExitNext]_exVars
               PROVE  StopIsNotSwallowed'
    OBVIOUS
  <2>1. CASE EvaluateHolding
    BY <2>1, EvaluationTells
  <2>2. CASE UNCHANGED exVars
    BY <2>2 DEF exVars, tables, StopIsNotSwallowed
  <2>3. CASE exTold' = NotTold
    BY <2>3 DEF StopIsNotSwallowed, NotTold
  <2>4. ExitNext => EvaluateHolding \/ exTold' = NotTold
    BY DEF ExitNext, ArriveQuote, ScoreHoldings, GenerateShared, MarkPosition, Purchase,
           SellHolding, ChangeThreshold, NextExitDay, Edit, Silent
  <2> QED BY <2>1, <2>2, <2>3, <2>4
<1> QED BY <1>1, <1>2, ExitInvHolds, PTL DEF ExitSpec

-----------------------------------------------------------------------------
(***************************************************************************)
(* UniverseScoring: nobody is flattened by a strategy that has no weight,  *)
(* and the funnel accounts for every stock, for any stocks, strategies,    *)
(* columns and weights.                                                    *)
(***************************************************************************)
Contributing(scores) == {s \in ActiveColumns : scores.weight[s] > 0}

\* What the property says of a set of scores.
KnownIn(scores, c) == \A s \in Contributing(scores) : c \in Rows(s)
LeadHolds(scores) ==
    Contributing(scores) # {} =>
      /\ ~FlatRows(FirstOf(Contributing(scores)))
      /\ \A c \in Rows(FirstOf(Contributing(scores))) : KnownIn(scores, c)
FairTo(scores, c) == KnownIn(scores, c) =>
    /\ \A d \in DOMAIN scores.from : scores.from[d] \subseteq scores.from[c]
    /\ LeadHolds(scores) => scores.from[c] # {}
FairScores(scores) == /\ DOMAIN scores.from \subseteq scUniverse
                      /\ \A c \in DOMAIN scores.from : FairTo(scores, c)

\* Before the scores of a run are there, there are none.
ScoresInPlace == /\ scAt # "scored" => scComposite = NoScores
                 /\ FairScores(scComposite)

\* The universe is what the filters leave of the snapshot of the run.
UniverseIsLeft == scUniverse \subseteq LeftAfter(8) \ ScBlacklist

Telescopes(row) == row.in = row.out + SumFunctionOnSet(row.excluded, ScRules)
StatsAddUp == \A row \in scStat \cup scSaved : Telescopes(row)

ScoringInv == ScoresInPlace /\ UniverseIsLeft /\ StatsAddUp

(* The first strategy with weight in the order is one with weight.         *)
LEMMA FirstIsOne ==
  ASSUME ScoringAssumption, NEW W \in SUBSET ScStrategies, W # {}
  PROVE  FirstOf(W) \in W
<1> DEFINE T == {i \in DOMAIN ScOrder : ScOrder[i] \in W}
<1> USE DEF ScoringAssumption
<1>1. DOMAIN ScOrder = 1..Len(ScOrder) /\ Len(ScOrder) \in Nat
  OBVIOUS
<1>2. IsFiniteSet(1..Len(ScOrder))
  BY <1>1, FS_Interval
<1>3. IsFiniteSet(T) /\ T \subseteq Int
  BY <1>1, <1>2, FS_Subset
<1>4. T # {}
  OBVIOUS
<1>5. Min(T) \in T
  <2> HIDE DEF T
  <2> QED BY <1>3, <1>4, MinOfFinite
<1> QED BY <1>5 DEF FirstOf

(* A run that has no scores treats everybody alike.                        *)
LEMMA NoScoresFair == FairScores(NoScores)
<1>1. DOMAIN NoScores.from = {}
  BY DEF NoScores
<1> QED BY <1>1 DEF FairScores

(* Scores made of the strategies with weight only.                         *)
LEMMA ScoredIsFair ==
  ASSUME ScoringAssumption, NEW weight, Weighted(weight) # {},
         NEW absorbed \in SUBSET Absorbable(weight)
  PROVE  FairScores(Scored(weight, absorbed))
<1> DEFINE W == Weighted(weight)
           scores == Scored(weight, absorbed)
           first == FirstOf(W)
           D == {c \in scUniverse : \E s \in Valid(weight) : c \in Rows(s)}
<1>1. W \in SUBSET ScStrategies /\ Valid(weight) = W
  BY DEF Weighted, Valid, ActiveColumns
<1>2. first \in W
  BY <1>1, FirstIsOne
<1>3. /\ scores.weight = weight /\ DOMAIN scores.from = D
      /\ \A c \in D : scores.from[c] = {s \in W : c \in Residual(weight, absorbed, s)}
  BY <1>1 DEF Scored
<1>4. Contributing(scores) = W
  BY <1>3 DEF Contributing, Weighted
<1> HIDE DEF scores
<1>a. ASSUME NEW c \in D, \A s \in W : c \in Rows(s), NEW d \in D
      PROVE  scores.from[d] \subseteq scores.from[c]
  <2>1. c \in KnownToAll(weight)
    BY <1>a DEF KnownToAll
  <2>2. ASSUME NEW s \in W, d \in Residual(weight, absorbed, s)
        PROVE  c \in Residual(weight, absorbed, s)
    <3> HIDE DEF W, D
    <3> QED BY <1>a, <2>1, <2>2 DEF Residual
  <2> HIDE DEF W, D
  <2> QED BY <1>3, <1>a, <2>2
<1>5. ASSUME NEW c \in D, \A s \in W : c \in Rows(s), ~ FlatRows(first),
             \A d \in Rows(first) : \A s \in W : d \in Rows(s)
      PROVE  scores.from[c] # {}
  <2>1. c \in KnownToAll(weight)
    BY <1>5 DEF KnownToAll
  <2>2. c \in Rows(first)
    BY <1>2, <1>5
  <2>3. c \in Residual(weight, absorbed, first)
    <3> HIDE DEF first, W
    <3>1. first \notin absorbed
      <4>1. \A d \in scUniverse : d \in Rows(first) => d \in KnownToAll(weight)
        BY <1>5 DEF KnownToAll, W
      <4> QED BY <4>1 DEF Absorbable, first, W
    <3> QED BY <1>5, <2>1, <2>2, <3>1 DEF Residual
  <2>4. first \in scores.from[c]
    BY <1>2, <1>3, <1>5, <2>3
  <2> QED BY <2>4
<1>6. ASSUME NEW c \in D PROVE FairTo(scores, c)
  <2> HIDE DEF D, W, first
  <2>1. W # {} /\ first = FirstOf(W)
    BY DEF W, first
  <2>2. ASSUME KnownIn(scores, c)
        PROVE  \A d \in DOMAIN scores.from : scores.from[d] \subseteq scores.from[c]
    BY <1>3, <1>4, <1>6, <1>a, <2>2 DEF KnownIn
  <2>3. ASSUME KnownIn(scores, c), LeadHolds(scores) PROVE scores.from[c] # {}
    BY <1>4, <1>5, <1>6, <2>1, <2>3 DEF KnownIn, LeadHolds
  <2> QED BY <2>2, <2>3 DEF FairTo
<1>7. D \subseteq scUniverse
  OBVIOUS
<1> HIDE DEF D
<1>8. FairScores(scores)
  BY <1>3, <1>6, <1>7 DEF FairScores
<1> QED BY <1>8 DEF scores

(* What each rule takes adds up to what all of them take.                  *)
LEMMA FunnelTelescopes ==
  ASSUME ScoringAssumption
  PROVE  Telescopes(Funnel)
<1> DEFINE g == [n \in 0..8 |-> Cardinality(LeftAfter(n))]
           f == [rule \in ScRules |-> Cardinality(LeftAfter(rule - 1)) - Cardinality(LeftAfter(rule))]
<1>1. ASSUME NEW n \in 0..8 PROVE g[n] \in Int
  <2>1. LeftAfter(n) \in SUBSET ScStocks
    BY DEF LeftAfter
  <2>2. IsFiniteSet(LeftAfter(n))
    BY <2>1, FS_Subset DEF ScoringAssumption
  <2>3. Cardinality(LeftAfter(n)) \in Nat
    BY <2>2, FS_CardinalityType
  <2> QED BY <2>3
<1>2. \A n \in 1..8 : f[n] = g[n - 1] - g[n]
  <2> TAKE n \in 1..8
  <2>1. n \in 0..8 /\ n - 1 \in 0..8
    OBVIOUS
  <2>2. g[n] = Cardinality(LeftAfter(n)) /\ g[n - 1] = Cardinality(LeftAfter(n - 1))
    BY <2>1
  <2>3. f[n] = Cardinality(LeftAfter(n - 1)) - Cardinality(LeftAfter(n))
    BY DEF ScRules
  <2> QED BY <2>2, <2>3
<1>3. g[0] = Cardinality(ScStocks)
  <2>1. LeftAfter(0) = ScStocks
    BY DEF LeftAfter
  <2> QED BY <2>1
<1>4. Funnel.in = g[0] /\ Funnel.out = g[8] /\ Funnel.excluded = f
  BY <1>3 DEF Funnel
<1> HIDE DEF f, g
<1>5. SumFunctionOnSet(f, 1..8) = g[0] - g[8]
  <2>1. Differences(f, g, 8)
    BY <1>1, <1>2 DEF Differences
  <2>2. \A m \in Nat : Differences(f, g, m) => SumFunctionOnSet(f, 1..m) = g[0] - g[m]
    BY SumTelescopes
  <2>3. 8 \in Nat
    OBVIOUS
  <2> QED BY <2>1, <2>2, <2>3, Zenon
<1> QED BY <1>1, <1>4, <1>5 DEF Telescopes, ScRules

(* Nothing is scored at first.                                             *)
LEMMA ScoringInvInit == ScoringInit => ScoringInv
<1> SUFFICES ASSUME ScoringInit PROVE ScoringInv
  OBVIOUS
<1>1. ScoresInPlace
  BY NoScoresFair DEF ScoringInit, ScoresInPlace
<1>2. UniverseIsLeft /\ StatsAddUp
  BY DEF ScoringInit, UniverseIsLeft, StatsAddUp
<1> QED BY <1>1, <1>2 DEF ScoringInv

(* A run that has no scores yet is in place whatever its factors are.      *)
LEMMA EmptyInPlace ==
  ASSUME scComposite' = NoScores
  PROVE  ScoresInPlace'
<1>1. NoScores' = NoScores
  BY DEF NoScores
<1>2. FairScores(scComposite)'
  <2>1. DOMAIN scComposite'.from = {}
    BY DEF NoScores
  <2> QED BY <2>1 DEF FairScores
<1> QED BY <1>1, <1>2 DEF ScoresInPlace

(* Every step keeps the invariant.                                         *)
LEMMA ScoringInvStep == ScoringAssumption /\ ScoringInv /\ [ScoringNext]_scVars => ScoringInv'
<1> SUFFICES ASSUME ScoringAssumption, ScoringInv, [ScoringNext]_scVars PROVE ScoringInv'
  OBVIOUS
<1> USE DEF ScoringInv
<1>0. \A x : LeftAfter(8)' = LeftAfter(8) \/ scFacts' # scFacts
  BY DEF LeftAfter, Passes
<1>1. CASE FilterUniverse
  <2>1. scComposite' = NoScores
    BY <1>1 DEF FilterUniverse, ScoresInPlace
  <2>2. UniverseIsLeft'
    BY <1>1 DEF FilterUniverse, UniverseIsLeft
  <2>3. StatsAddUp'
    BY <1>1 DEF FilterUniverse, StatsAddUp, Telescopes, ScRules
  <2> QED BY <2>1, <2>2, <2>3, EmptyInPlace
<1>2. CASE RecordStats
  <2>1. scComposite' = NoScores
    BY <1>2 DEF RecordStats
  <2>2. UniverseIsLeft'
    BY <1>0, <1>2 DEF RecordStats, UniverseIsLeft
  <2>3. StatsAddUp'
    BY <1>2, FunnelTelescopes DEF RecordStats, StatsAddUp, Telescopes, ScRules
  <2> QED BY <2>1, <2>2, <2>3, EmptyInPlace
<1>3. CASE ComputeFactors
  <2>1. scComposite' = NoScores
    BY <1>3 DEF ComputeFactors, ScoresInPlace
  <2>2. UniverseIsLeft'
    BY <1>0, <1>3 DEF ComputeFactors, UniverseIsLeft
  <2>3. StatsAddUp'
    BY <1>3 DEF ComputeFactors, StatsAddUp, Telescopes, ScRules
  <2> QED BY <2>1, <2>2, <2>3, EmptyInPlace
<1>4. CASE Aggregate
  <2>1. /\ scAt' = "scored"
        /\ UNCHANGED <<scRuns, scFacts, scUniverse, scStat, scSaved, scFactors, scSized>>
    BY <1>4 DEF Aggregate
  <2>2. UniverseIsLeft'
    BY <1>0, <2>1 DEF UniverseIsLeft
  <2>3. StatsAddUp'
    BY <2>1 DEF StatsAddUp, Telescopes, ScRules
  <2>4. FairScores(scComposite')
    <3>1. PICK weight : \/ scComposite' = NoScores
                        \/ /\ Weighted(weight) # {}
                           /\ \E absorbed \in SUBSET Absorbable(weight) :
                                 scComposite' = Scored(weight, absorbed)
      BY <1>4, Zenon DEF Aggregate
    <3>2. CASE scComposite' = NoScores
      BY <3>2, NoScoresFair
    <3>3. CASE scComposite' # NoScores
      <4>1. Weighted(weight) # {}
        BY <3>1, <3>3
      <4>2. PICK absorbed \in SUBSET Absorbable(weight) :
                    scComposite' = Scored(weight, absorbed)
        BY <3>1, <3>3
      <4> QED BY <4>1, <4>2, ScoredIsFair
    <3> QED BY <3>2, <3>3
  <2>5. FairScores(scComposite)'
    <3>1. \A s : Rows(s)' = Rows(s) /\ (FlatRows(s)' <=> FlatRows(s))
      BY <2>1 DEF Rows, FlatRows, ZRows, IsFlat, Kept, Columns
    <3>2. ActiveColumns' = ActiveColumns
      BY <2>1 DEF ActiveColumns, Columns
    <3>3. Contributing(scComposite)' = Contributing(scComposite')
      BY <3>2 DEF Contributing
    <3>4. \A c : FairTo(scComposite, c)' <=> FairTo(scComposite', c)
      BY <3>1, <3>3 DEF FairTo, KnownIn, LeadHolds, FirstOf
    <3> QED BY <2>1, <2>4, <3>4 DEF FairScores
  <2> QED BY <2>1, <2>2, <2>3, <2>5 DEF ScoresInPlace
<1>5. CASE CommitScoring \/ AbortScoring
  <2>1. scComposite' = NoScores /\ scUniverse' = {}
    BY <1>5 DEF CommitScoring, AbortScoring, Forget
  <2>2. StatsAddUp'
    BY <1>5 DEF CommitScoring, AbortScoring, StatsAddUp, Telescopes, ScRules
  <2> QED BY <2>1, <2>2, EmptyInPlace DEF UniverseIsLeft
<1>6. CASE UNCHANGED scVars
  <2>0. UNCHANGED <<scAt, scRuns, scFacts, scUniverse, scStat, scSaved, scFactors, scSized, scComposite>>
    BY <1>6 DEF scVars
  <2>1. UniverseIsLeft' /\ StatsAddUp'
    BY <1>0, <2>0 DEF UniverseIsLeft, StatsAddUp, Telescopes, ScRules
  <2>2. ScoresInPlace'
    <3>1. \A s : Rows(s)' = Rows(s) /\ (FlatRows(s)' <=> FlatRows(s))
      BY <2>0 DEF Rows, FlatRows, ZRows, IsFlat, Kept, Columns
    <3>2. ActiveColumns' = ActiveColumns
      BY <2>0 DEF ActiveColumns, Columns
    <3>3. Contributing(scComposite)' = Contributing(scComposite)
      BY <2>0, <3>2 DEF Contributing
    <3>4. \A c : FairTo(scComposite, c)' <=> FairTo(scComposite, c)
      BY <2>0, <3>1, <3>3 DEF FairTo, KnownIn, LeadHolds, FirstOf
    <3>5. FairScores(scComposite)'
      BY <2>0, <3>4 DEF FairScores, ScoresInPlace
    <3> QED BY <2>0, <3>5 DEF ScoresInPlace, NoScores
  <2> QED BY <2>1, <2>2
<1> QED BY <1>1, <1>2, <1>3, <1>4, <1>5, <1>6 DEF ScoringNext

(* A stock that every strategy with weight knows has a score made of all   *)
(* that any score is made of, and of something unless the first strategy   *)
(* fell; nobody outside the universe is scored, and the funnel accounts    *)
(* for every stock: whatever the data, whatever is absorbed, through       *)
(* aborted and repeated runs.                                              *)
THEOREM WeightlessNeverFlattens == ScoringSpec => []NobodyIsFlattened
<1>1. ScoringInit => ScoringInv
  BY ScoringInvInit
<1>2. ScoringInv /\ [ScoringNext]_scVars => ScoringInv'
  BY ScoringAssumption, ScoringInvStep
<1>3. ScoringInv => NobodyIsFlattened
  <2> SUFFICES ASSUME ScoringInv PROVE NobodyIsFlattened
    OBVIOUS
  <2>1. DOMAIN scComposite.from \subseteq LeftAfter(8) \ ScBlacklist
    BY DEF ScoringInv, ScoresInPlace, FairScores, UniverseIsLeft
  <2>2. ASSUME NEW c \in DOMAIN scComposite.from, KnownByTheWeighted(c)
        PROVE  /\ \A d \in DOMAIN scComposite.from :
                     scComposite.from[d] \subseteq scComposite.from[c]
               /\ LeadStays => scComposite.from[c] # {}
    <3>1. FairTo(scComposite, c)
      BY DEF ScoringInv, ScoresInPlace, FairScores
    <3>2. \A d : KnownByTheWeighted(d) <=> KnownIn(scComposite, d)
      BY DEF KnownByTheWeighted, KnownIn, Contributing
    <3>3. LeadStays <=> LeadHolds(scComposite)
      BY <3>2 DEF LeadStays, LeadHolds, Contributing
    <3> QED BY <2>2, <3>1, <3>2, <3>3 DEF FairTo
  <2>3. \A row \in scStat : Telescopes(row)
    BY DEF ScoringInv, StatsAddUp
  <2> QED BY <2>1, <2>2, <2>3 DEF NobodyIsFlattened, Telescopes
<1> QED BY <1>1, <1>2, <1>3, PTL DEF ScoringSpec
=============================================================================
