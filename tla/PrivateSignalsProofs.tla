------------------------ MODULE PrivateSignalsProofs ------------------------
(***************************************************************************)
(* That no topic gets two rows in a day, for every set of holdings and     *)
(* every number of faults, and that the 18:30 job is never early.          *)
(*                                                                         *)
(* _is_duplicate is a test before a write, so OneRowPerTopic rests on the  *)
(* producers being at work one at a time.  Nothing in the code says so in  *)
(* one place; it follows from the order of the day (Exclusive): the 15:05  *)
(* job is over before there is a pipeline_run row, step 7 runs while the   *)
(* row is not SUCCESS, and the 18:30 job only when it is and nothing runs. *)
(***************************************************************************)
EXTENDS PrivateSignals, FiniteSetTheorems, TLAPS

(* Who may be at work when.                                                *)
Exclusive ==
    /\ "stop_loss_warn" \notin fired => run = "off" /\ status = "NONE"
    /\ at["stop_loss_warn"] \in Busy =>
          run = "off" /\ status = "NONE" /\ "stop_loss_warn" \in fired
    /\ at["recheck"] \in Busy => run = "off" /\ status = "SUCCESS"
    /\ at["step7"] \in Busy => run = "step7"
    /\ run # "off" => status \in {"RUNNING", "FAILED"}

Distinct(S) == \A r, s \in S : Topic(r) = Topic(s) => r = s

(* What a producer has written fits the table, and so will what it is      *)
(* about to write.                                                         *)
Fits(p) ==
    /\ at[p] \notin Busy => mine[p] = {}
    /\ Distinct(rows \cup mine[p])
    /\ at[p] = "send" => ~IsDuplicate(p, sending[p])

(* The part of TypeOK that this argument needs.                            *)
Shape ==
    /\ at \in [Producers -> {"idle"} \cup Busy]
    /\ sending \in [Producers -> Alert]
    /\ todo \in [Producers -> SUBSET Alert]
    /\ mine \in [Producers -> SUBSET Alert] /\ rows \subseteq Alert
    /\ status \in {"NONE", "RUNNING", "FAILED", "SUCCESS"}

IInv == Shape /\ Exclusive /\ \A p \in Producers : Fits(p)

-----------------------------------------------------------------------------
(* The day begins with nobody at work.                                     *)
LEMMA InitIInv == Init => IInv
  BY DEF Init, IInv, Shape, Exclusive, Fits, Distinct, Busy, Producers, Jobs, Alert, NoAlert,
         IsDuplicate, Kinds

(* What a producer finds is about the account and its holdings.            *)
LEMMA FoundAlerts ==
  ASSUME SignalsAssumption, NEW v \in [Holdings -> Verdicts], NEW new \in BOOLEAN
  PROVE  Private(v, new) \subseteq Alert
<1>1. \A h \in Holdings : v[h] # "none" => v[h] \in Kinds
  <2> TAKE h \in Holdings
  <2>1. v[h] \in Verdicts
    OBVIOUS
  <2> QED BY <2>1 DEF SignalsAssumption, Kinds
<1> QED BY <1>1 DEF Private, Alert

(* So are the warnings of the 15:05 job.                                   *)
LEMMA FoundWarnings ==
  ASSUME near \subseteq Holdings
  PROVE  Warnings \subseteq Alert
<1>1. NoAlert \in Alert
  BY DEF Alert, Kinds, NoAlert
<1>2. \A h \in near : [subject |-> h, kind |-> "near", fresh |-> FALSE] \in Alert
  BY DEF Alert, Kinds
<1> QED BY <1>1, <1>2 DEF Warnings

(* The types are kept.                                                     *)
LEMMA ShapeStep ==
  ASSUME SignalsAssumption, Shape, near \subseteq Holdings, marked \in BOOLEAN, [Next]_vars
  PROVE  Shape'
<1> USE DEF Shape, Producers, Jobs, Busy, pipeline
<1>1. CASE UNCHANGED vars
  BY <1>1 DEF vars, session, table
<1>2. CASE Trigger
  BY <1>2 DEF Trigger, session, table
<1>3. CASE Pipeline
  BY <1>3 DEF Pipeline, DoCheckpoints, MarkToMarket, Succeed, session, table
<1>4. CASE StopLossWarn \/ Recheck \/ \E j \in Jobs : Miss(j)
  BY <1>4 DEF StopLossWarn, Recheck, Miss, session, table
<1>5. CASE Crash
  BY <1>5 DEF Crash
<1>6. ASSUME NEW p \in Producers, Evaluate(p) PROVE Shape'
  <2>1. \A v \in [Holdings -> Verdicts] : Private(v, marked) \subseteq Alert
    BY FoundAlerts
  <2>2. Warnings \subseteq Alert
    BY FoundWarnings
  <2> QED BY <1>6, <2>1, <2>2 DEF Evaluate, table
<1>7. ASSUME NEW p \in Producers, Look(p) \/ Send(p) \/ Commit(p) \/ Lose(p) PROVE Shape'
  BY <1>7 DEF Look, Send, Commit, Lose, table
<1> QED BY <1>1, <1>2, <1>3, <1>4, <1>5, <1>6, <1>7 DEF Next, Work

(* The order of the day.                                                   *)
LEMMA ExclusiveStep ==
  ASSUME Shape, Exclusive, Careful, [Next]_vars
  PROVE  Exclusive'
<1> USE DEF Shape, Exclusive, Producers, Jobs, Busy
<1>1. CASE UNCHANGED vars
  BY <1>1 DEF vars, session, pipeline
<1>2. CASE Trigger
  BY <1>2 DEF Trigger, session
<1>3. CASE DoCheckpoints
  BY <1>3 DEF DoCheckpoints, session
<1>4. CASE MarkToMarket
  BY <1>4 DEF MarkToMarket
<1>5. CASE Succeed
  BY <1>5 DEF Succeed, session
<1>6. CASE StopLossWarn
  BY <1>6 DEF StopLossWarn, pipeline
<1>7. CASE Recheck
  BY <1>7 DEF Recheck, pipeline
<1>8. ASSUME NEW j \in Jobs, Miss(j) PROVE Exclusive'
  BY <1>8 DEF Miss, pipeline, session
<1>9. CASE Crash
  BY <1>9 DEF Crash
<1>10. ASSUME NEW p \in Producers, Evaluate(p) \/ Look(p) \/ Send(p) PROVE Exclusive'
  BY <1>10 DEF Evaluate, Look, Send, pipeline
<1>11. ASSUME NEW p \in Producers, Commit(p) \/ Lose(p) PROVE Exclusive'
  BY <1>11 DEF Commit, Lose, After
<1> QED BY <1>1, <1>2, <1>3, <1>4, <1>5, <1>6, <1>7, <1>8, <1>9, <1>10, <1>11 DEF Next, Work, Pipeline

(* A step of one producer finds every other one with nothing written.      *)
LEMMA OthersAway ==
  ASSUME Shape, Exclusive, \A p \in Producers : Fits(p),
         NEW p \in Producers, at[p] \in Busy, NEW q \in Producers, q # p
  PROVE  at[q] \notin Busy /\ mine[q] = {}
  BY DEF Exclusive, Fits, Producers, Jobs

(* No step puts two rows of a topic into the table.                        *)
LEMMA FitsStep ==
  ASSUME SignalsAssumption, Shape, Shape', Exclusive, \A p \in Producers : Fits(p),
         [Next]_vars, NEW q \in Producers
  PROVE  Fits(q)'
<1>0. Fits(q)
  OBVIOUS
<1> USE DEF Shape, Busy
<1>1. CASE UNCHANGED <<at, sending, mine, rows>>
  BY <1>0, <1>1 DEF Fits, Distinct, IsDuplicate, Topic
<1>2. CASE StopLossWarn \/ Recheck \/ MarkToMarket
  <2>1. /\ UNCHANGED <<sending, mine, rows>>
        /\ at'[q] = at[q] \/ at'[q] = "evaluate"
    BY <1>2 DEF StopLossWarn, Recheck, MarkToMarket, table
  <2> QED BY <1>0, <2>1 DEF Fits, Distinct, IsDuplicate, Topic
<1>3. CASE Crash
  <2>1. rows' = rows /\ mine'[q] = {} /\ at'[q] = "idle"
    BY <1>3 DEF Crash
  <2> QED BY <1>0, <2>1 DEF Fits, Distinct
<1>4. ASSUME NEW p \in Producers, Work(p) \/ Lose(p), q # p PROVE Fits(q)'
  <2>1. at[p] \in Busy
    BY <1>4 DEF Work, Evaluate, Look, Send, Commit, Lose
  <2>2. at[q] \notin Busy /\ mine[q] = {}
    BY <1>4, <2>1, OthersAway
  <2>3. at'[q] = at[q] /\ mine'[q] = mine[q]
    BY <1>4 DEF Work, Evaluate, Look, Send, Commit, Lose
  <2>4. rows' = rows \/ rows' = rows \cup mine[p]
    BY <1>4 DEF Work, Evaluate, Look, Send, Commit, Lose, table
  <2>5. Distinct(rows) /\ Distinct(rows \cup mine[p])
    BY DEF Fits, Distinct
  <2> QED BY <2>2, <2>3, <2>4, <2>5 DEF Fits, Distinct
<1>5. CASE Evaluate(q)
  <2>1. UNCHANGED <<sending, mine, rows>> /\ at'[q] = "look"
    BY <1>5 DEF Evaluate, table
  <2> QED BY <1>0, <2>1 DEF Fits, Distinct
<1>6. CASE Look(q)
  <2>1. PICK a \in todo[q] :
          \/ IsDuplicate(q, a) /\ UNCHANGED <<at, sending>>
          \/ /\ ~IsDuplicate(q, a)
             /\ at' = [at EXCEPT ![q] = "send"] /\ sending' = [sending EXCEPT ![q] = a]
    BY <1>6 DEF Look
  <2>2. UNCHANGED <<mine, rows>>
    BY <1>6 DEF Look, table
  <2>3. CASE IsDuplicate(q, a) /\ UNCHANGED <<at, sending>>
    BY <1>0, <2>2, <2>3 DEF Fits, Distinct, IsDuplicate, Topic
  <2>4. CASE /\ ~IsDuplicate(q, a)
             /\ at' = [at EXCEPT ![q] = "send"] /\ sending' = [sending EXCEPT ![q] = a]
    <3>1. at'[q] = "send" /\ sending'[q] = a
      BY <2>4
    <3> QED BY <1>0, <2>2, <2>4, <3>1 DEF Fits, Distinct, IsDuplicate
  <2> QED BY <2>1, <2>3, <2>4
<1>7. CASE Send(q)
  <2>1. ~IsDuplicate(q, sending[q]) /\ Distinct(rows \cup mine[q])
    BY <1>0, <1>7 DEF Fits, Send
  <2>2. rows' = rows /\ mine'[q] = mine[q] \cup {sending[q]} /\ at'[q] = "look"
    BY <1>7 DEF Send
  <2> QED BY <2>1, <2>2 DEF Fits, Distinct, IsDuplicate
<1>8. CASE Commit(q)
  <2>1. rows' = rows \cup mine[q] /\ mine'[q] = {} /\ at'[q] = "idle"
    BY <1>8 DEF Commit
  <2> QED BY <1>0, <2>1 DEF Fits, Distinct
<1>9. CASE Lose(q)
  <2>1. rows' = rows /\ mine'[q] = {} /\ at'[q] = "idle"
    BY <1>9 DEF Lose
  <2> QED BY <1>0, <2>1 DEF Fits, Distinct
<1>10. CASE Trigger \/ DoCheckpoints \/ Succeed \/ UNCHANGED vars \/ \E j \in Jobs : Miss(j)
  BY <1>1, <1>10 DEF Trigger, DoCheckpoints, Succeed, Miss, vars, session, table
<1> QED BY <1>2, <1>3, <1>4, <1>5, <1>6, <1>7, <1>8, <1>9, <1>10 DEF Next, Work, Pipeline

(* The constants of a run of the day: near and marked keep their types.    *)
LEMMA VerdictsStep ==
  ASSUME near \subseteq Holdings, marked \in BOOLEAN, [Next]_vars
  PROVE  near' \subseteq Holdings /\ marked' \in BOOLEAN
  BY DEF Next, vars, verdicts, pipeline, Trigger, Pipeline, DoCheckpoints, MarkToMarket, Succeed,
         StopLossWarn, Recheck, Crash, Miss, Work, Evaluate, Look, Send, Commit, Lose

-----------------------------------------------------------------------------
(* A message on the phone has its row, in the table or with a producer, or *)
(* its row was lost.                                                       *)
HasRow(t) == \E p \in Producers : \E r \in rows \cup mine[p] : Topic(r) = t

Counted(t) == pushes[t] <= lost[t] + (IF HasRow(t) THEN 1 ELSE 0)

Counts ==
    /\ pushes \in [Topics -> Nat] /\ lost \in [Topics -> Nat]
    /\ \A p \in Producers : IsFiniteSet(mine[p])
    /\ \A t \in Topics : Counted(t)

(* Losing rows adds to the counts of their topics.                         *)
LEMMA LostCounts ==
  ASSUME NEW S, IsFiniteSet(S), lost \in [Topics -> Nat]
  PROVE  /\ Lost(S) \in [Topics -> Nat]
         /\ \A t \in Topics : /\ Lost(S)[t] >= lost[t]
                              /\ (\E a \in S : Topic(a) = t) => Lost(S)[t] >= lost[t] + 1
<1>1. ASSUME NEW t \in Topics
      PROVE  LET n == Cardinality({a \in S : Topic(a) = t})
             IN  n \in Nat /\ ((\E a \in S : Topic(a) = t) => n >= 1)
  <2> DEFINE A == {a \in S : Topic(a) = t}
  <2>1. IsFiniteSet(A)
    BY FS_Subset
  <2>2. Cardinality(A) \in Nat /\ (Cardinality(A) = 0 <=> A = {})
    BY <2>1, FS_CardinalityType, FS_EmptySet
  <2>3. (\E a \in S : Topic(a) = t) => A # {}
    OBVIOUS
  <2> HIDE DEF A
  <2>4. (\E a \in S : Topic(a) = t) => Cardinality(A) >= 1
    BY <2>2, <2>3
  <2> QED BY <2>2, <2>4 DEF A
<1> QED BY <1>1 DEF Lost

(* A step that pushes nothing and lets no row of the topic go.             *)
LEMMA CountedKept ==
  ASSUME Counts, NEW t \in Topics, pushes'[t] = pushes[t], lost'[t] \in Nat, lost'[t] >= lost[t],
         HasRow(t) => HasRow(t)' \/ lost'[t] >= lost[t] + 1
  PROVE  Counted(t)'
<1> DEFINE H == HasRow(t)
           G == HasRow(t)'
<1>1. pushes[t] \in Nat /\ lost[t] \in Nat /\ pushes[t] <= lost[t] + (IF H THEN 1 ELSE 0)
  BY DEF Counts, Counted
<1>2. H => G \/ lost'[t] >= lost[t] + 1
  OBVIOUS
<1> HIDE DEF H, G
<1>3. pushes'[t] <= lost'[t] + (IF G THEN 1 ELSE 0)
  BY <1>1, <1>2
<1> QED BY <1>3 DEF Counted, G

(* A topic on its way to the phone has no row yet.                         *)
LEMMA SendingIsNew ==
  ASSUME Shape, Exclusive, \A p \in Producers : Fits(p), NEW q \in Producers, at[q] = "send"
  PROVE  Topic(sending[q]) \in Topics /\ ~HasRow(Topic(sending[q]))
<1>1. sending[q] \in Alert
  BY DEF Shape
<1>2. Topic(sending[q]) \in Topics
  BY <1>1 DEF Topic, Topics, TypeOf, Alert
<1>3. ~IsDuplicate(q, sending[q])
  BY DEF Fits
<1>4. \A p \in Producers \ {q} : mine[p] = {}
  BY OthersAway DEF Busy
<1> QED BY <1>2, <1>3, <1>4 DEF IsDuplicate, HasRow

(* What a producer may lose is finite.                                     *)
LEMMA WrittenFinite ==
  ASSUME Counts, NEW p \in Producers
  PROVE  IsFiniteSet(mine[p] \cup (IF at[p] = "send" THEN {sending[p]} ELSE {}))
<1>1. IsFiniteSet(mine[p])
  BY DEF Counts
<1>2. IsFiniteSet(mine[p] \cup {sending[p]}) /\ mine[p] \cup {} = mine[p]
  BY <1>1, FS_AddElement
<1>3. CASE at[p] = "send"
  BY <1>2, <1>3
<1>4. CASE at[p] # "send"
  BY <1>1, <1>2, <1>4
<1> QED BY <1>3, <1>4

(* The counts are kept by every step.                                      *)
LEMMA CountsStep ==
  ASSUME Shape, Exclusive, \A p \in Producers : Fits(p), Counts, [Next]_vars
  PROVE  Counts'
<1> USE DEF Busy
<1>1. CASE UNCHANGED <<mine, rows, pushes, lost>>
  BY <1>1 DEF Counts, Counted, HasRow
<1>2. CASE Trigger \/ Pipeline \/ StopLossWarn \/ Recheck \/ UNCHANGED vars \/ \E j \in Jobs : Miss(j)
  BY <1>1, <1>2 DEF Trigger, Pipeline, DoCheckpoints, MarkToMarket, Succeed, StopLossWarn,
                    Recheck, Miss, vars, session, table
<1>3. ASSUME NEW q \in Producers, Evaluate(q) \/ Look(q) PROVE Counts'
  BY <1>1, <1>3 DEF Evaluate, Look, table
<1>4. ASSUME NEW q \in Producers, Send(q) PROVE Counts'
  <2> DEFINE t0 == Topic(sending[q])
  <2>1. /\ at[q] = "send" /\ rows' = rows /\ lost' = lost
        /\ pushes' = pushes \/ pushes' = [pushes EXCEPT ![t0] = @ + 1]
        /\ mine' = [mine EXCEPT ![q] = @ \cup {sending[q]}]
    BY <1>4 DEF Send
  <2>2. t0 \in Topics /\ ~HasRow(t0)
    BY <2>1, SendingIsNew
  <2>3. pushes' \in [Topics -> Nat]
    BY <2>1, <2>2 DEF Counts
  <2>4. \A p \in Producers : IsFiniteSet(mine'[p])
    BY <2>1, FS_AddElement DEF Counts, Shape
  <2>5. \A t \in Topics : t = t0 \/ HasRow(t) => HasRow(t)'
    <3>1. /\ sending[q] \in mine'[q]
          /\ \A p \in Producers : mine[p] \subseteq mine'[p]
      BY <2>1 DEF Shape
    <3> QED BY <2>1, <3>1 DEF HasRow
  <2> HIDE DEF t0
  <2>6. ASSUME NEW t \in Topics PROVE Counted(t)'
    <3>0. lost'[t] \in Nat /\ lost'[t] >= lost[t] /\ pushes[t] \in Nat
      BY <2>1 DEF Counts
    <3>1. CASE pushes'[t] = pushes[t]
      BY <3>0, <3>1, <2>5, CountedKept
    <3>2. CASE t = t0
      <4>1. pushes[t] <= lost[t]
        BY <3>2, <2>2 DEF Counts, Counted
      <4>2. pushes'[t] <= pushes[t] + 1
        BY <2>1, <3>0, <3>2 DEF Counts
      <4>3. pushes'[t] <= lost'[t] + 1
        BY <4>1, <4>2, <3>0, <2>1, <2>3
      <4>4. HasRow(t)'
        BY <3>2, <2>5
      <4> QED BY <4>3, <4>4 DEF Counted
    <3>3. t # t0 => pushes'[t] = pushes[t]
      BY <2>1 DEF Counts
    <3> QED BY <3>1, <3>2, <3>3
  <2> QED BY <2>1, <2>3, <2>4, <2>6 DEF Counts
<1>5. ASSUME NEW q \in Producers, Commit(q) PROVE Counts'
  <2>1. /\ rows' = rows \cup mine[q] /\ mine' = [mine EXCEPT ![q] = {}]
        /\ UNCHANGED <<pushes, lost>>
    BY <1>5 DEF Commit
  <2>2. \A p \in Producers : IsFiniteSet(mine'[p])
    BY <2>1, FS_EmptySet DEF Counts, Shape
  <2>3. \A t \in Topics : HasRow(t) => HasRow(t)'
    BY <2>1 DEF HasRow, Shape
  <2>4. ASSUME NEW t \in Topics PROVE Counted(t)'
    <3>1. lost'[t] \in Nat /\ lost'[t] >= lost[t] /\ pushes'[t] = pushes[t]
      BY <2>1 DEF Counts
    <3> QED BY <3>1, <2>3, CountedKept
  <2> QED BY <2>1, <2>2, <2>4 DEF Counts
<1>6. ASSUME NEW q \in Producers, Lose(q) PROVE Counts'
  <2> DEFINE t0 == Topic(sending[q])
             S == mine[q] \cup (IF at[q] = "send" THEN {sending[q]} ELSE {})
  <2>1. /\ rows' = rows /\ mine' = [mine EXCEPT ![q] = {}]
        /\ lost' = Lost(S)
        /\ \/ pushes' = pushes
           \/ at[q] = "send" /\ pushes' = [pushes EXCEPT ![t0] = @ + 1]
    BY <1>6 DEF Lose
  <2>2. at[q] = "send" => t0 \in Topics /\ ~HasRow(t0)
    BY SendingIsNew
  <2>3. IsFiniteSet(S)
    BY WrittenFinite
  <2>4. \A p \in Producers : IsFiniteSet(mine'[p])
    BY <2>1, FS_EmptySet DEF Counts, Shape
  <2>5. \A t \in Topics : HasRow(t) => HasRow(t)' \/ \E a \in S : Topic(a) = t
    BY <2>1 DEF HasRow, Shape
  <2>6. at[q] = "send" => \E a \in S : Topic(a) = t0
    OBVIOUS
  <2> HIDE DEF S, t0
  <2>7. /\ lost' \in [Topics -> Nat]
        /\ \A t \in Topics : /\ lost'[t] >= lost[t]
                             /\ (\E a \in S : Topic(a) = t) => lost'[t] >= lost[t] + 1
    BY <2>1, <2>3, LostCounts DEF Counts
  <2>8. pushes' \in [Topics -> Nat]
    BY <2>1, <2>2 DEF Counts
  <2>9. ASSUME NEW t \in Topics PROVE Counted(t)'
    <3>1. CASE pushes'[t] = pushes[t]
      BY <3>1, <2>5, <2>7, CountedKept
    <3>2. CASE pushes'[t] # pushes[t]
      <4>1. at[q] = "send" /\ t = t0 /\ pushes'[t] = pushes[t] + 1
        BY <2>1, <3>2 DEF Counts
      <4>2. pushes[t] <= lost[t]
        BY <4>1, <2>2 DEF Counts, Counted
      <4>3. lost'[t] >= lost[t] + 1
        BY <4>1, <2>6, <2>7
      <4>4. pushes'[t] <= lost'[t] /\ lost'[t] \in Nat /\ pushes'[t] \in Nat
        BY <4>1, <4>2, <4>3, <2>7, <2>8 DEF Counts
      <4> QED BY <4>4 DEF Counted
    <3> QED BY <3>1, <3>2
  <2> QED BY <2>4, <2>7, <2>8, <2>9 DEF Counts
<1>7. CASE Crash
  <2> DEFINE S == UNION {mine[p] \cup (IF at[p] = "send" THEN {sending[p]} ELSE {}) :
                         p \in Producers}
  <2>1. /\ rows' = rows /\ pushes' = pushes /\ lost' = Lost(S)
        /\ \A p \in Producers : mine'[p] = {}
    BY <1>7 DEF Crash
  <2>2. IsFiniteSet(S)
    <3> DEFINE A(p) == mine[p] \cup (IF at[p] = "send" THEN {sending[p]} ELSE {})
    <3>1. \A p \in Producers : IsFiniteSet(A(p))
      BY WrittenFinite
    <3>2. S = (A("stop_loss_warn") \cup A("recheck")) \cup A("step7")
      BY DEF Producers, Jobs
    <3>3. /\ IsFiniteSet(A("stop_loss_warn")) /\ IsFiniteSet(A("recheck"))
          /\ IsFiniteSet(A("step7"))
      BY <3>1 DEF Producers, Jobs
    <3> HIDE DEF A, S
    <3> QED BY <3>2, <3>3, FS_Union
  <2>3. \A t \in Topics : HasRow(t) => HasRow(t)' \/ \E a \in S : Topic(a) = t
    BY <2>1 DEF HasRow
  <2> HIDE DEF S
  <2>4. /\ lost' \in [Topics -> Nat]
        /\ \A t \in Topics : /\ lost'[t] >= lost[t]
                             /\ (\E a \in S : Topic(a) = t) => lost'[t] >= lost[t] + 1
    BY <2>1, <2>2, LostCounts DEF Counts
  <2>5. \A t \in Topics : Counted(t)'
    BY <2>1, <2>3, <2>4, CountedKept
  <2>6. \A p \in Producers : IsFiniteSet(mine'[p])
    BY <2>1, FS_EmptySet
  <2> QED BY <2>1, <2>4, <2>5, <2>6 DEF Counts
<1> QED BY <1>2, <1>3, <1>4, <1>5, <1>6, <1>7 DEF Next, Work

-----------------------------------------------------------------------------
(* What the day preserves.                                                 *)
DayInv == IInv /\ Counts /\ near \subseteq Holdings /\ marked \in BOOLEAN

LEMMA DayInvHolds ==
  ASSUME SignalsAssumption, Careful
  PROVE  Spec => []DayInv
<1>1. Init => DayInv
  <2>1. Init => Counts
    <3> SUFFICES ASSUME Init PROVE Counts
      OBVIOUS
    <3>1. \A p \in Producers : IsFiniteSet(mine[p])
      BY FS_EmptySet DEF Init
    <3>2. \A t \in Topics : pushes[t] = 0 /\ lost[t] = 0
      BY DEF Init
    <3>3. \A t \in Topics : Counted(t)
      BY <3>2 DEF Counted
    <3> QED BY <3>1, <3>3 DEF Init, Counts
  <2> QED BY <2>1, InitIInv DEF Init, DayInv
<1>2. DayInv /\ [Next]_vars => DayInv'
  <2> SUFFICES ASSUME DayInv, [Next]_vars PROVE DayInv'
    OBVIOUS
  <2> USE DEF DayInv
  <2>1. Shape' /\ Exclusive'
    BY ShapeStep, ExclusiveStep DEF IInv
  <2>2. \A q \in Producers : Fits(q)'
    BY <2>1, FitsStep DEF IInv
  <2>3. near' \subseteq Holdings /\ marked' \in BOOLEAN
    BY VerdictsStep
  <2>4. Producers' = Producers
    BY DEF Producers, Jobs
  <2>5. Counts'
    BY CountsStep DEF IInv
  <2> QED BY <2>1, <2>2, <2>3, <2>4, <2>5 DEF IInv
<1> QED BY <1>1, <1>2, PTL DEF Spec

(* The account is told of one thing once a day, whatever it holds and      *)
(* however many exceptions, missed jobs and crashes there are, as long as  *)
(* the pipeline is triggered after the 15:05 job and only for a date that  *)
(* is not SUCCESS.                                                         *)
THEOREM OneRow ==
  ASSUME SignalsAssumption, Careful
  PROVE  Spec => []OneRowPerTopic
<1>1. DayInv => OneRowPerTopic
  <2> SUFFICES ASSUME IInv PROVE OneRowPerTopic
    BY DEF DayInv
  <2>1. Distinct(rows \cup mine["step7"])
    BY DEF IInv, Fits, Producers
  <2> QED BY <2>1 DEF Distinct, OneRowPerTopic
<1> QED BY <1>1, DayInvHolds, PTL

(* The phone gets a message at most once more than its row was rolled      *)
(* back, although the message goes out before the row.                     *)
THEOREM PushedOnce ==
  ASSUME SignalsAssumption, Careful
  PROVE  Spec => []PushedOnceUnlessLost
<1>1. DayInv => PushedOnceUnlessLost
  <2> SUFFICES ASSUME Counts, NEW t \in Topics PROVE pushes[t] <= 1 + lost[t]
    BY DEF DayInv, PushedOnceUnlessLost
  <2>1. pushes[t] \in Nat /\ lost[t] \in Nat /\ Counted(t)
    BY DEF Counts
  <2> QED BY <2>1 DEF Counted
<1> QED BY <1>1, DayInvHolds, PTL

(* Where the pipeline is past step 4, or has been, today's close is in the *)
(* positions or there was a fault.                                         *)
Marked == run \in {"step7", "success"} \/ status = "SUCCESS" => marked \/ faults > 0

(* The 18:30 job works with today's close unless something failed, however *)
(* often and at whatever time the pipeline is triggered.                   *)
THEOREM RecheckFresh == ASSUME SignalsAssumption PROVE Spec => []RecheckIsFresh
<1> DEFINE I == /\ Marked /\ faults \in Nat
                /\ at \in [Producers -> {"idle"} \cup Busy]
                /\ \A p \in {"recheck", "step7"} : at[p] \in Busy => marked \/ faults > 0
<1>1. Init => I
  BY DEF Init, Marked, Producers, Jobs, Busy
<1>2. I /\ [Next]_vars => I'
  <2> SUFFICES ASSUME I, [Next]_vars PROVE I'
    OBVIOUS
  <2> USE DEF Marked, Producers, Jobs, Busy, Fault
  <2>1. CASE UNCHANGED vars
    BY <2>1 DEF vars, pipeline, session
  <2>2. CASE Trigger
    BY <2>2 DEF Trigger, session
  <2>3. CASE Pipeline
    BY <2>3, SMTT(30) DEF Pipeline, DoCheckpoints, MarkToMarket, Succeed, session
  <2>4. CASE StopLossWarn \/ Recheck
    BY <2>4 DEF StopLossWarn, Recheck, pipeline
  <2>5. ASSUME NEW j \in Jobs, Miss(j) PROVE I'
    BY <2>5 DEF Miss, pipeline, session
  <2>6. CASE Crash
    BY <2>6 DEF Crash
  <2>7. ASSUME NEW p \in Producers, Work(p) \/ Lose(p) PROVE I'
    <3>1. marked' = marked /\ status' = status /\ faults' \in Nat /\ faults <= faults'
      BY <2>7 DEF Work, Evaluate, Look, Send, Commit, Lose, pipeline
    <3>2. run' = run \/ (run' = "success" /\ p = "step7")
      BY <2>7, SMTT(40) DEF Work, Evaluate, Look, Send, Commit, Lose, After, pipeline
    <3>3. /\ at' \in [Producers -> {"idle"} \cup Busy]
          /\ \A q \in Producers : at'[q] \in Busy => at[q] \in Busy
          /\ at[p] \in Busy
      BY <2>7 DEF Work, Evaluate, Look, Send, Commit, Lose
    <3> QED BY <3>1, <3>2, <3>3
  <2> QED BY <2>1, <2>2, <2>3, <2>4, <2>5, <2>6, <2>7 DEF Next
<1>3. I => RecheckIsFresh
  BY DEF RecheckIsFresh
<1> QED BY <1>1, <1>2, <1>3, PTL DEF Spec
=============================================================================
