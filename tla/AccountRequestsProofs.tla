----------------------- MODULE AccountRequestsProofs -----------------------
(***************************************************************************)
(* What holds of AccountRequests for any number of requests of any kind.   *)
(***************************************************************************)
EXTENDS AccountRequests, TLAPS

(* The requests that have written to the account are one at a time.        *)
Locked == \A r \in Requests : pc[r] \in {"write", "answer", "commit"} => lock = r

(* Past the unique index there is no other row with the key.               *)
Alone ==
    \A r \in Requests : pc[r] \in {"answer", "commit"} /\ Keyed(r) => WithKey(Key(r)) = {}

(* A key names one row, and it is what its requests are answered with, if  *)
(* they are not answered with their own before they commit it.             *)
OneRow == \A x, y \in rows \ {Seed} : Keyed(x) /\ Keyed(y) /\ Key(x) = Key(y) => x = y
OwnRow(r) == answer[r] = r /\ pc[r] \in {"commit", "failed"}
RightAnswer ==
    \A r \in Requests : Keyed(r) =>
        /\ pc[r] \notin {"commit", "done", "failed"} => answer[r] = None
        /\ pc[r] = "commit" => answer[r] = r
        /\ answer[r] # None => answer[r] \in WithKey(Key(r)) \/ OwnRow(r)

IInv == TypeOK /\ Locked /\ Alone /\ OneRow /\ RightAnswer

-----------------------------------------------------------------------------
LEMMA InitType == RequestsAssumption /\ Init => TypeOK
  BY DEF RequestsAssumption, Init, TypeOK

(* Every step of a request keeps the types.                                *)
LEMMA StepType == RequestsAssumption /\ TypeOK /\ [Next]_vars => TypeOK'
<1> SUFFICES ASSUME RequestsAssumption, TypeOK, [Next]_vars PROVE TypeOK'
  OBVIOUS
<1> USE DEF TypeOK, Goto, Ended, Answered
<1>1. CASE UNCHANGED vars
  BY <1>1 DEF vars
<1>2. \A r \in Requests : op[r].amount \in Nat /\ Amount(r) \in Int /\ Delta(r) \in Int
  <2>1. \A r \in Requests : op[r] \in Operation
    BY DEF RequestsAssumption
  <2> QED BY <2>1 DEF RequestsAssumption, Operation, Amount, Delta
<1>3. ASSUME NEW r \in Requests, Handle(r) \/ Break(r) PROVE TypeOK'
  <2>0. op' \in Plans
    BY <1>3 DEF Handle, Break
  <2> USE <2>0
  <2>1. CASE FindFundFlow(r)
    BY <2>1 DEF FindFundFlow, WithKey
  <2>2. CASE LoadFundFlow(r)
    BY <2>2 DEF LoadFundFlow
  <2>3. CASE GetAccount(r)
    BY <2>3 DEF GetAccount
  <2>4. CASE GetPosition(r)
    BY <2>4 DEF GetPosition
  <2>5. CASE UpdateAccount(r)
    BY <2>5 DEF UpdateAccount
  <2>6. CASE WriteRows(r)
    BY <2>6 DEF WriteRows, Rollback
  <2>7. CASE Commit(r)
    <3>1. cash' \in Int /\ shares' \in Nat
      BY <2>7, <1>2 DEF Commit
    <3>2. /\ rows' \in SUBSET (Requests \cup {Seed}) /\ Seed \in rows' /\ answer' \in [Requests -> Requests \cup {Seed, None}]
          /\ lock' \in Requests \cup {None}
      BY <2>7 DEF Commit
    <3>3. pc' \in [Requests -> {"start", "account", "position", "flush", "write", "answer",
                                "commit", "recheck"} \cup Ended]
      BY <2>7 DEF Commit
    <3> QED BY <2>7, <3>1, <3>2, <3>3 DEF Commit
  <2>8. CASE Recheck(r)
    BY <2>8 DEF Recheck, WithKey
  <2>9. CASE Break(r)
    BY <2>9 DEF Break, Rollback
  <2>10. CASE Answer(r)
    BY <2>10 DEF Answer
  <2> QED BY <1>3, <2>1, <2>2, <2>3, <2>4, <2>5, <2>6, <2>7, <2>8, <2>9, <2>10 DEF Handle
<1> QED BY <1>1, <1>3 DEF Next

(* What a step does to the rows and to the requests that do not take it.   *)
LEMMA StepFrame ==
  ASSUME RequestsAssumption, TypeOK, NEW r \in Requests, Handle(r) \/ Break(r)
  PROVE  /\ op' = op
         /\ \A q \in Requests \ {r} : pc'[q] = pc[q] /\ answer'[q] = answer[q] /\ read'[q] = read[q]
         /\ \/ rows' = rows
            \/ /\ pc[r] = "commit" /\ pc'[r] = "done"
               /\ rows' = rows \cup {r} /\ answer' = answer
         /\ rows \subseteq rows'
<1>0. op' = op
  BY DEF Handle, Break
<1> USE <1>0 DEF TypeOK, Goto, Answered, Rollback
<1>1. CASE FindFundFlow(r)
  BY <1>1 DEF FindFundFlow
<1>2. CASE LoadFundFlow(r) \/ GetAccount(r) \/ GetPosition(r) \/ UpdateAccount(r)
  BY <1>2 DEF LoadFundFlow, GetAccount, GetPosition, UpdateAccount
<1>3. CASE WriteRows(r) \/ Break(r)
  BY <1>3 DEF WriteRows, Break
<1>4. CASE Commit(r)
  <2>1. CASE Kind(r) = "VOID"
    BY <1>4, <2>1 DEF Commit
  <2>2. CASE Kind(r) # "VOID"
    BY <1>4, <2>2 DEF Commit
  <2> QED BY <2>1, <2>2
<1>5. CASE Recheck(r) \/ Answer(r)
  BY <1>5 DEF Recheck, Answer
<1> QED BY <1>1, <1>2, <1>3, <1>4, <1>5 DEF Handle

(* A request has the lock from its first write to its end.                 *)
LEMMA LockStep ==
  ASSUME RequestsAssumption, TypeOK, Locked, NEW r \in Requests, Handle(r) \/ Break(r)
  PROVE  Locked'
<1> USE DEF TypeOK, Goto, Answered, Locked
<1>1. CASE FindFundFlow(r) \/ Recheck(r) \/ Answer(r)
  BY <1>1 DEF FindFundFlow, Recheck, Answer
<1>2. CASE LoadFundFlow(r) \/ GetAccount(r) \/ GetPosition(r)
  BY <1>2 DEF LoadFundFlow, GetAccount, GetPosition
<1>3. CASE UpdateAccount(r)
  BY <1>3 DEF UpdateAccount, RequestsAssumption
<1>4. CASE WriteRows(r)
  BY <1>4 DEF WriteRows, Rollback
<1>5. CASE Commit(r)
  BY <1>5 DEF Commit
<1>6. CASE Break(r)
  <2>1. CASE lock = r
    BY <1>6, <2>1 DEF Break, Rollback
  <2>2. CASE lock # r
    BY <1>6, <2>2 DEF Break, Rollback
  <2> QED BY <2>1, <2>2
<1> QED BY <1>1, <1>2, <1>3, <1>4, <1>5, <1>6 DEF Handle

(* The unique index lets nobody past whose key is taken, and nobody else   *)
(* can take it before the commit.                                          *)
LEMMA AloneStep ==
  ASSUME RequestsAssumption, TypeOK, Locked, Alone, NEW r \in Requests, Handle(r) \/ Break(r)
  PROVE  Alone'
<1> USE DEF Alone
<1> SUFFICES ASSUME NEW q \in Requests, pc'[q] \in {"answer", "commit"}, Keyed(q)
             PROVE  WithKey(Key(q))' = {}
  BY StepFrame DEF Keyed, Kind, Key
<1>1. CASE q = r
  <2>1. (WriteRows(r) /\ ~Duplicate(r)) \/ Answer(r)
    BY <1>1 DEF TypeOK, Goto, Answered, Rollback, Handle, FindFundFlow, LoadFundFlow,
                GetAccount, GetPosition, UpdateAccount, WriteRows, Commit, Recheck, Break
  <2>2. UNCHANGED rows
    BY <2>1 DEF WriteRows, Rollback, Answer
  <2>3. WithKey(Key(r)) = {}
    <3>1. CASE Answer(r)
      BY <1>1, <3>1 DEF Answer
    <3>2. CASE ~Duplicate(r)
      BY <1>1, <3>2 DEF Duplicate
    <3> QED BY <2>1, <3>1, <3>2
  <2> QED BY <1>1, <2>2, <2>3, StepFrame DEF WithKey, Keyed, Kind, Key
<1>2. CASE q # r
  <2>1. pc[q] \in {"answer", "commit"}
    BY <1>2, StepFrame
  <2>2. WithKey(Key(q)) = {}
    BY <2>1
  <2>3. rows' = rows
    <3>1. lock = q
      BY <2>1 DEF Locked
    <3>2. pc[r] # "commit"
      BY <3>1, <1>2 DEF Locked
    <3> QED BY <3>2, StepFrame
  <2> QED BY <2>2, <2>3, StepFrame DEF WithKey, Keyed, Kind, Key
<1> QED BY <1>1, <1>2

(* The row a commit adds is the only one with its key.                     *)
LEMMA OneRowStep ==
  ASSUME RequestsAssumption, TypeOK, Alone, OneRow, NEW r \in Requests, Handle(r) \/ Break(r)
  PROVE  OneRow'
<1>1. CASE rows' = rows
  BY <1>1, StepFrame DEF OneRow, Keyed, Kind, Key
<1>2. CASE pc[r] = "commit" /\ rows' = rows \cup {r}
  <2>1. Keyed(r) => \A x \in rows \ {Seed} : Keyed(x) => Key(x) # Key(r)
    BY <1>2 DEF Alone, WithKey
  <2> QED BY <1>2, <2>1, StepFrame DEF OneRow, Keyed, Kind, Key
<1> QED BY <1>1, <1>2, StepFrame

(* A request is answered with the row of its key, or with the one it will  *)
(* commit.                                                                 *)
LEMMA AnswerStep ==
  ASSUME RequestsAssumption, TypeOK, RightAnswer, NEW r \in Requests, Handle(r) \/ Break(r)
  PROVE  RightAnswer'
<1> SUFFICES ASSUME NEW q \in Requests, Keyed(q)
             PROVE  /\ pc'[q] \notin {"commit", "done", "failed"} => answer'[q] = None
                    /\ pc'[q] = "commit" => answer'[q] = q
                    /\ answer'[q] # None => answer'[q] \in WithKey(Key(q))' \/ OwnRow(q)'
  BY StepFrame DEF RightAnswer, Keyed, Kind, Key
<1>1. WithKey(Key(q)) \subseteq WithKey(Key(q))'
  BY StepFrame DEF WithKey, Keyed, Kind, Key
<1>2. CASE q # r
  BY <1>1, <1>2, StepFrame DEF RightAnswer, OwnRow
<1>3. CASE q = r
  <2>1. Kind(r) = "DEPOSIT" /\ r # Seed
    BY <1>3 DEF Keyed, RequestsAssumption
  <2>2. /\ pc[r] \notin {"commit", "done", "failed"} => answer[r] = None
        /\ pc[r] = "commit" => answer[r] = r
        /\ answer[r] # None => answer[r] \in WithKey(Key(r)) \/ OwnRow(r)
    BY <1>3 DEF RightAnswer
  <2>3. CASE FindFundFlow(r) \/ Recheck(r)
    <3>1. \/ answer'[r] \in WithKey(Key(r)) /\ pc'[r] = "done"
          \/ answer'[r] = None /\ pc'[r] = "account"
      BY <2>2, <2>3 DEF TypeOK, Goto, Answered, FindFundFlow, Recheck
    <3> QED BY <3>1, <1>1, <1>3
  <2>4. CASE Answer(r)
    <3>1. answer'[r] = r /\ pc'[r] = "commit"
      BY <2>1, <2>4 DEF Answer, TypeOK, Answered, Goto
    <3> QED BY <3>1, <1>3 DEF OwnRow
  <2>5. CASE Commit(r)
    <3>1. rows' = rows \cup {r} /\ answer'[r] = r /\ pc'[r] = "done"
      BY <2>1, <2>2, <2>5 DEF Commit, TypeOK, Goto
    <3> QED BY <3>1, <1>3, <2>1, StepFrame DEF WithKey, Keyed, Kind, Key
  <2>6. CASE GetAccount(r) \/ UpdateAccount(r) \/ WriteRows(r)
    <3>1. answer'[r] = None /\ pc'[r] \notin {"commit", "done"}
      BY <2>1, <2>2, <2>6 DEF TypeOK, Goto, Rollback, GetAccount, UpdateAccount, WriteRows
    <3> QED BY <3>1, <1>3
  <2>7. CASE Break(r)
    <3>1. answer'[r] = answer[r] /\ pc'[r] = "failed"
      BY <2>7 DEF TypeOK, Goto, Rollback, Break
    <3> QED BY <3>1, <1>1, <1>3, <2>2 DEF OwnRow
  <2>8. CASE GetPosition(r)
    <3>1. answer'[r] = None /\ pc'[r] = "flush"
      BY <2>2, <2>8 DEF TypeOK, Goto, GetPosition
    <3> QED BY <3>1, <1>3
  <2>9. ~LoadFundFlow(r)
    BY <2>1 DEF LoadFundFlow
  <2> QED BY <2>3, <2>4, <2>5, <2>6, <2>7, <2>8, <2>9 DEF Handle
<1> QED BY <1>2, <1>3

LEMMA InitInv == RequestsAssumption /\ Init => IInv
<1> SUFFICES ASSUME RequestsAssumption, Init PROVE IInv
  OBVIOUS
<1>1. TypeOK
  BY InitType
<1>2. Locked /\ Alone /\ OneRow /\ RightAnswer
  BY DEF Init, Locked, Alone, OneRow, RightAnswer
<1> QED BY <1>1, <1>2 DEF IInv

LEMMA StepInv == RequestsAssumption /\ IInv /\ [Next]_vars => IInv'
<1> SUFFICES ASSUME RequestsAssumption, IInv, [Next]_vars PROVE IInv'
  OBVIOUS
<1>1. TypeOK'
  BY StepType DEF IInv
<1>2. CASE UNCHANGED vars
  <2>1. op' = op /\ pc' = pc /\ rows' = rows /\ answer' = answer /\ lock' = lock
    BY <1>2 DEF vars
  <2>2. Locked' /\ Alone' /\ OneRow' /\ RightAnswer'
    BY <2>1 DEF IInv, Locked, Alone, OneRow, RightAnswer, OwnRow, WithKey, Keyed, Kind, Key
  <2> QED BY <1>1, <2>2 DEF IInv
<1>3. ASSUME NEW r \in Requests, Handle(r) \/ Break(r) PROVE IInv'
  BY <1>1, <1>3, LockStep, AloneStep, OneRowStep, AnswerStep DEF IInv
<1> QED BY <1>2, <1>3 DEF Next

(* The strengthened invariant holds in every reachable state.              *)
THEOREM RequestsInvariance == Spec => []IInv
<1>1. RequestsAssumption
  BY RequestsAssumption
<1> QED BY <1>1, InitInv, StepInv, PTL DEF Spec

(* deposit and record_dividend keep the promise of the idempotency key for *)
(* any number of overlapping requests of any kind, as far as the commits   *)
(* that follow the answers succeed.                                        *)
THEOREM KeysNameOneRow == Spec => []KeyNamesOneRow
<1>1. ASSUME RequestsAssumption, IInv PROVE KeyNamesOneRow
  <2> SUFFICES ASSUME NEW r \in Requests, NEW q \in Requests,
                      Keyed(r), Keyed(q), Key(r) = Key(q)
               PROVE  /\ r \in rows /\ q \in rows => r = q
                      /\ answer[r] # None => answer[r] \in rows \/ OwnRow(r)
                      /\ answer[r] # None /\ answer[q] # None
                         /\ "failed" \notin {pc[r], pc[q]} => answer[r] = answer[q]
    BY DEF KeyNamesOneRow, OwnRow
  <2>1. r # Seed /\ q # Seed
    BY <1>1 DEF RequestsAssumption
  <2>2. r \in rows /\ q \in rows => r = q
    BY <1>1, <2>1 DEF IInv, OneRow
  <2>3. \A x \in {r, q} : answer[x] # None => answer[x] \in WithKey(Key(r)) \/ OwnRow(x)
    BY <1>1 DEF IInv, RightAnswer
  <2>4. \A x, y \in WithKey(Key(r)) : x = y
    BY <1>1 DEF IInv, OneRow, WithKey
  <2>5. \A x \in {r, q} : pc[x] = "commit" => WithKey(Key(r)) = {} /\ lock = x
    BY <1>1 DEF IInv, Alone, Locked
  <2>6. ASSUME answer[r] # None, answer[q] # None, "failed" \notin {pc[r], pc[q]}
        PROVE  answer[r] = answer[q]
    <3>1. CASE WithKey(Key(r)) = {}
      <4>1. OwnRow(r) /\ OwnRow(q) /\ pc[r] = "commit" /\ pc[q] = "commit"
        BY <2>3, <2>6, <3>1 DEF OwnRow
      <4> QED BY <2>5, <4>1
    <3>2. CASE WithKey(Key(r)) # {}
      BY <2>3, <2>4, <2>5, <2>6, <3>2 DEF OwnRow
    <3> QED BY <3>1, <3>2
  <2> QED BY <2>2, <2>3, <2>6 DEF WithKey
<1>2. RequestsAssumption
  BY RequestsAssumption
<1> QED BY <1>1, <1>2, RequestsInvariance, PTL

-----------------------------------------------------------------------------
(* One deposit, sent any number of times.                                  *)
Same == \A q, r \in Requests : Keyed(r) /\ op[r] = op[q]

(* Until its row is there every request has read the opening cash.         *)
Counted ==
    /\ rows = {Seed} =>
          /\ cash = Opening
          /\ \A r \in Requests : pc[r] \in {"flush", "write", "answer", "commit"} => read[r] = Opening
    /\ rows # {Seed} => \A q \in Requests : cash = Opening + op[q].amount
    /\ \A r \in Requests : pc[r] # "position"

LEMMA CountedStep ==
  ASSUME RequestsAssumption, Same, IInv, Counted, NEW r \in Requests, Handle(r) \/ Break(r)
  PROVE  Counted'
<1>9. op' = op
  BY DEF Handle, Break
<1> USE <1>9 DEF IInv, TypeOK, Goto, Answered
<1>0. /\ Keyed(r) /\ Kind(r) = "DEPOSIT" /\ r # Seed
      /\ op[r].amount \in Nat /\ \A q \in Requests : op[q] = op[r]
  BY DEF Same, Keyed, RequestsAssumption, Operation
<1>1. CASE FindFundFlow(r) \/ Recheck(r) \/ Answer(r)
  BY <1>1 DEF Counted, FindFundFlow, Recheck, Answer
<1>2. CASE GetAccount(r)
  BY <1>2, <1>0 DEF Counted, GetAccount
<1>3. CASE UpdateAccount(r)
  BY <1>3 DEF Counted, UpdateAccount
<1>4. CASE WriteRows(r)
  BY <1>4 DEF Counted, WriteRows, Rollback
<1>5. CASE Break(r)
  BY <1>5 DEF Counted, Break, Rollback
<1>6. CASE Commit(r)
  <2>1. rows = {Seed}
    <3>1. WithKey(Key(r)) = {}
      BY <1>0, <1>6 DEF Commit, Alone
    <3>2. \A x \in rows \ {Seed} : x \in WithKey(Key(r))
      BY <1>0 DEF WithKey, Same, Key, Keyed, Kind
    <3> QED BY <3>1, <3>2
  <2>2. read[r] = Opening
    BY <1>6, <2>1 DEF Commit, Counted
  <2>3. Delta(r) = op[r].amount
    BY <1>0 DEF Delta, Amount
  <2>4. rows' = rows \cup {r} /\ cash' = Opening + op[r].amount
    BY <1>6, <1>0, <2>2, <2>3 DEF Commit
  <2>5. rows' # {Seed}
    BY <2>4, <1>0
  <2>6. \A q \in Requests : pc'[q] # "position"
    BY <1>6 DEF Commit, Counted
  <2> QED BY <1>0, <2>4, <2>5, <2>6 DEF Counted
<1>7. ~LoadFundFlow(r) /\ ~GetPosition(r)
  BY <1>0 DEF LoadFundFlow, GetPosition, Counted
<1> QED BY <1>1, <1>2, <1>3, <1>4, <1>5, <1>6, <1>7 DEF Handle

(* INT-P14-1-06 for any number of requests: a deposit sent again and again *)
(* under one key is added to account.cash once.                            *)
THEOREM RetriesCount == Spec => []RetriesCountOnce
<1>1. Init => (Same => Counted)
  BY DEF Init, Counted
<1>2. ASSUME RequestsAssumption, IInv, Same => Counted, [Next]_vars PROVE (Same => Counted)'
  <2>1. op' = op
    BY <1>2 DEF Next, Handle, Break, vars
  <2>2. SUFFICES ASSUME Same PROVE Counted'
    BY <2>1 DEF Same, Keyed, Kind, Key
  <2>3. CASE UNCHANGED vars
    BY <1>2, <2>2, <2>3 DEF vars, Counted
  <2> QED BY <1>2, <2>2, <2>3, CountedStep DEF Next
<1>3. IInv /\ (Same => Counted) => RetriesCountOnce
  <2> SUFFICES ASSUME IInv, Same => Counted, NEW q \in Requests,
                      \A r \in Requests : Keyed(r) /\ op[r] = op[q]
               PROVE  cash = Opening + IF rows = {Seed} THEN 0 ELSE op[q].amount
    BY DEF RetriesCountOnce
  <2>1. Same
    BY DEF Same
  <2>2. CASE rows = {Seed}
    BY <2>1, <2>2, RequestsAssumption DEF Counted, RequestsAssumption
  <2>3. CASE rows # {Seed}
    BY <2>1, <2>3 DEF Counted
  <2> QED BY <2>2, <2>3
<1>4. RequestsAssumption
  BY RequestsAssumption
<1> QED BY <1>1, <1>2, <1>3, <1>4, RequestsInvariance, PTL DEF Spec
=============================================================================
