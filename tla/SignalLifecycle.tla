--------------------------- MODULE SignalLifecycle ---------------------------
(* The shared signal table: the nightly batch writes the signals of a day      *)
(* from the candidate pool, the last step of a run expires old ones, and the   *)
(* users' clicks move single signals along.  Each of the three has a session   *)
(* of its own, so a click that was checked against one status may be written   *)
(* over another.  A day may be run again (a retry, a resumed or a late run):   *)
(* its pool is scored anew and its signals are upserted.                       *)
EXTENDS Naturals

CONSTANTS SignalNames,   \* (ts_code, signal_type)
          LastSigDay,    \* bound on the days
          SignalTtl,     \* calendar days
          Clicks,        \* PATCH requests
          MaxPoolRuns    \* bound on how often a day is scored

ASSUME SignalAssumption == /\ LastSigDay \in Nat
                           /\ SignalTtl \in Nat
                           /\ MaxPoolRuns \in Nat

VARIABLES sigToday,
          sigPool,     \* the run that last scored the pool of the day, 0 for none
          sigRow,      \* the rows: status, and the scoring run of row and snapshot
          sigHad,      \* the statuses a signal has had
          sigScanned,  \* the latest as-of date of a scan
          sigMark,     \* sigScanned when a row was last inserted or clicked
          sigClick     \* the request: what it checked and will write

sigVars == <<sigToday, sigPool, sigRow, sigHad, sigScanned, sigMark, sigClick>>

SigDays == 0..LastSigDay
SignalKeys == SignalNames \X SigDays
DayOf(k) == k[2]

SigStatuses == {"NONE", "NEW", "VIEWED", "ACTED", "EXPIRED"}
OpenStatuses == {"NEW", "VIEWED"}
NoRow == [status |-> "NONE", run |-> 0, snapshot |-> 0]
IdleClick == [at |-> "idle", key |-> <<>>, write |-> "NONE"]

Allowed(old) == IF old = "NEW" THEN {"VIEWED", "ACTED"}
                ELSE IF old = "VIEWED" THEN {"ACTED"} ELSE {}

SignalInit == /\ sigToday = 0
              /\ sigPool = [d \in SigDays |-> 0]
              /\ sigRow = [k \in SignalKeys |-> NoRow]
              /\ sigHad = [k \in SignalKeys |-> {}]
              /\ sigScanned = 0
              /\ sigMark = [k \in SignalKeys |-> 0]
              /\ sigClick = [c \in Clicks |-> IdleClick]

(* CP2 commits the scores of a day before its signals are generated. *)
ScorePool(d) == /\ d <= sigToday /\ sigPool[d] < MaxPoolRuns
                /\ sigPool' = [sigPool EXCEPT ![d] = @ + 1]
                /\ UNCHANGED <<sigToday, sigRow, sigHad, sigScanned, sigMark, sigClick>>

(* The row the batch writes: a new signal is NEW, an existing one keeps its    *)
(* status and gets the new scores; the snapshot goes with it.                  *)
UpsertResetsStatus(old, run) == [status |-> "NEW", run |-> run, snapshot |-> run]
Upserted(old, run) == [status |-> IF old.status = "NONE" THEN "NEW" ELSE old.status,
                       run |-> run, snapshot |-> run]

(* CP3: the signals this scoring calls for, in one transaction.  A signal an   *)
(* earlier run of the day wrote and this one does not call for stays.          *)
GenerateSignals(d, names) ==
  LET batch == names \X {d} IN
  /\ sigPool[d] > 0
  /\ sigRow' = [k \in SignalKeys |-> IF k \in batch THEN Upserted(sigRow[k], sigPool[d])
                                     ELSE sigRow[k]]
  /\ sigHad' = [k \in SignalKeys |-> IF k \in batch THEN sigHad[k] \cup {sigRow'[k].status}
                                     ELSE sigHad[k]]
  /\ sigMark' = [k \in SignalKeys |-> IF k \in batch /\ sigRow[k].status = "NONE"
                                      THEN sigScanned ELSE sigMark[k]]
  /\ UNCHANGED <<sigToday, sigPool, sigScanned, sigClick>>

(* Step 6 of the run of day d: one UPDATE over the open signals older than     *)
(* the cut-off.  It is best-effort: a run may do without.                      *)
DueNewOnly(row, day, asOf) == row.status = "NEW" /\ day + SignalTtl < asOf
Due(row, day, asOf) == row.status \in OpenStatuses /\ day + SignalTtl < asOf

ExpireOldSignals(d) ==
  LET due == {k \in SignalKeys : Due(sigRow[k], DayOf(k), d)} IN
  /\ sigPool[d] > 0
  /\ sigRow' = [k \in SignalKeys |-> IF k \in due THEN [sigRow[k] EXCEPT !.status = "EXPIRED"]
                                     ELSE sigRow[k]]
  /\ sigHad' = [k \in SignalKeys |-> IF k \in due THEN sigHad[k] \cup {"EXPIRED"}
                                     ELSE sigHad[k]]
  /\ sigScanned' = IF d > sigScanned THEN d ELSE sigScanned
  /\ UNCHANGED <<sigToday, sigPool, sigMark, sigClick>>

(* PATCH /signals/{id}/status reads the signal and checks the transition ...   *)
CheckClick(c, k, new) ==
  /\ sigClick[c] = IdleClick
  /\ sigRow[k].status # "NONE" /\ new \in Allowed(sigRow[k].status)
  /\ sigClick' = [sigClick EXCEPT ![c] = [at |-> "checked", key |-> k, write |-> new]]
  /\ UNCHANGED <<sigToday, sigPool, sigRow, sigHad, sigScanned, sigMark>>

(* ... and writes the new status by id, whatever the status is by then.        *)
WriteClick(c) ==
  LET k == sigClick[c].key
      new == sigClick[c].write
  IN /\ sigClick[c].at = "checked"
     /\ sigRow' = [sigRow EXCEPT ![k].status = new]
     /\ sigHad' = [sigHad EXCEPT ![k] = @ \cup {new}]
     /\ sigMark' = [sigMark EXCEPT ![k] = sigScanned]
     /\ sigClick' = [sigClick EXCEPT ![c] = IdleClick]
     /\ UNCHANGED <<sigToday, sigPool, sigScanned>>

NextSigDay == /\ sigToday < LastSigDay
              /\ sigToday' = sigToday + 1
              /\ UNCHANGED <<sigPool, sigRow, sigHad, sigScanned, sigMark, sigClick>>

SignalNext ==
  \/ \E d \in SigDays : \/ ScorePool(d)
                        \/ \E names \in SUBSET SignalNames : GenerateSignals(d, names)
                        \/ ExpireOldSignals(d)
  \/ \E c \in Clicks : \/ \E k \in SignalKeys, new \in {"VIEWED", "ACTED"} : CheckClick(c, k, new)
                       \/ WriteClick(c)
  \/ NextSigDay

SignalSpec == SignalInit /\ [][SignalNext]_sigVars

SignalTypeOK ==
  /\ sigToday \in SigDays /\ sigScanned \in SigDays
  /\ sigPool \in [SigDays -> Nat]
  /\ sigRow \in [SignalKeys -> [status : SigStatuses, run : Nat, snapshot : Nat]]
  /\ sigHad \in [SignalKeys -> SUBSET (SigStatuses \ {"NONE"})]
  /\ sigMark \in [SignalKeys -> SigDays]
  /\ \A c \in Clicks : \/ sigClick[c] = IdleClick
                       \/ /\ sigClick[c].at = "checked"
                          /\ sigClick[c].key \in SignalKeys
                          /\ sigClick[c].write \in {"VIEWED", "ACTED"}

(* A signal still open although it is past its time was inserted or clicked    *)
(* after the last scan (a late run of an old day, or a click checked before    *)
(* the scan and written after it); and none expired before its time.           *)
ScanIsExact ==
  \A k \in SignalKeys :
    /\ sigRow[k].status \in OpenStatuses =>
         DayOf(k) + SignalTtl >= sigScanned \/ sigMark[k] = sigScanned
    /\ sigRow[k].status = "EXPIRED" => DayOf(k) + SignalTtl < sigScanned

Contract == INSTANCE SignalStatus
              WITH Signals <- SignalKeys,
                   status  <- [k \in SignalKeys |-> sigRow[k].status],
                   had     <- sigHad

(* The table keeps the contract of a signal's status: batches, scans and       *)
(* overtaking clicks included, no signal is ever made NEW again.               *)
StatusContract == Contract!StatusSpec
=============================================================================
