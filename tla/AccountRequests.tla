-------------------------- MODULE AccountRequests --------------------------
(***************************************************************************)
(* AccountService requests that overlap.  Each request is one transaction  *)
(* at READ COMMITTED: it reads committed rows, one statement after the     *)
(* other, computes the new cash from what it read, and writes that number, *)
(* not a difference, when the session is flushed.  The flush takes the row *)
(* lock of the account, so that from there on requests go one by one; what *)
(* they read before is not protected.                                      *)
(*                                                                         *)
(* What each request asks for is op, one of the Plans and never changed.   *)
(* A client repeats a request whose answer it did not get.  The answer     *)
(* leaves when the endpoint returns, and get_db commits only then, so that *)
(* an answered request may still fail to commit.  A row of fund_flow is    *)
(* named by the request that inserts it; Seed is a deposit the account     *)
(* already has.                                                            *)
(***************************************************************************)
EXTENDS Integers, FiniteSets, FiniteSetsExt

CONSTANTS
    Requests, Seed, \* requests; the row that is there before
    None,           \* no request, no row
    Keys, NoKey,    \* idempotency keys
    Plans,          \* what the requests may ask for
    Opening,        \* cash at the start, the seed row included
    SeedAmount,     \* amount of the seed row
    Owned           \* shares of the stock held at the start

Operation == [kind : {"DEPOSIT", "WITHDRAW", "BUY", "VOID"}, amount : Nat \ {0},
              key : Keys \cup {NoKey}]

ASSUME RequestsAssumption ==
    /\ Seed \notin Requests /\ None \notin Requests \cup {Seed} /\ NoKey \notin Keys
    /\ Plans \subseteq [Requests -> Operation]
    /\ Opening \in Nat /\ SeedAmount \in Nat /\ Owned \in Nat

VARIABLES
    op,     \* what each request asks for
    pc,     \* where each request is
    read,   \* account.cash as each request read it
    held,   \* position.shares as each request read it
    answer, \* the row each request was answered with
    rows,   \* rows committed to fund_flow
    voided, \* those of them that are voided
    cash,   \* account.cash, committed
    shares, \* position.shares, committed
    lock    \* the request that holds the row lock of the account

vars == <<op, pc, read, held, answer, rows, voided, cash, shares, lock>>

Ended == {"done", "refused", "failed"}
Kind(r) == op[r].kind
Key(r) == op[r].key

TypeOK ==
    /\ op \in Plans
    /\ pc \in [Requests -> {"start", "account", "position", "flush", "write", "answer",
                            "commit", "recheck"} \cup Ended]
    /\ read \in [Requests -> Int] /\ held \in [Requests -> Nat]
    /\ answer \in [Requests -> Requests \cup {Seed, None}]
    /\ rows \in SUBSET (Requests \cup {Seed}) /\ Seed \in rows /\ voided \in SUBSET rows
    /\ cash \in Int /\ shares \in Nat
    /\ lock \in Requests \cup {None}

Init ==
    /\ op \in Plans
    /\ pc = [r \in Requests |-> "start"]
    /\ read = [r \in Requests |-> 0] /\ held = [r \in Requests |-> 0]
    /\ answer = [r \in Requests |-> None]
    /\ rows = {Seed} /\ voided = {}
    /\ cash = Opening /\ shares = Owned
    /\ lock = None

-----------------------------------------------------------------------------
Goto(r, p) == pc' = [pc EXCEPT ![r] = p]
Answered(r, row, p) == answer' = [answer EXCEPT ![r] = row] /\ Goto(r, p)
Keyed(r) == Kind(r) = "DEPOSIT" /\ Key(r) # NoKey
WithKey(k) == {x \in rows \ {Seed} : Keyed(x) /\ Key(x) = k}

(* amount of a row of fund_flow; what a request adds to account.cash.      *)
Amount(x) ==
    IF x = Seed THEN SeedAmount
    ELSE IF Kind(x) = "DEPOSIT" THEN op[x].amount ELSE -op[x].amount
Delta(r) == IF Kind(r) = "VOID" THEN -SeedAmount ELSE Amount(r)

(* deposit, record_dividend with a key: a row with that key is the answer. *)
FindFundFlow(r) ==
    /\ pc[r] = "start" /\ Keyed(r)
    /\ \/ \E x \in WithKey(Key(r)) : Answered(r, x, "done")
       \/ WithKey(Key(r)) = {} /\ Goto(r, "account") /\ UNCHANGED answer
    /\ UNCHANGED <<read, held, rows, voided, cash, shares, lock>>

(* void_fund_flow: the row is read first and must not be voided.           *)
LoadFundFlow(r) ==
    /\ pc[r] = "start" /\ Kind(r) = "VOID"
    /\ Goto(r, IF Seed \in voided THEN "refused" ELSE "account")
    /\ UNCHANGED <<read, held, answer, rows, voided, cash, shares, lock>>

(* get_account; a withdrawal of more than the cash read is refused.        *)
GetAccount(r) ==
    /\ \/ pc[r] = "account"
       \/ pc[r] = "start" /\ Kind(r) # "VOID" /\ ~Keyed(r)
    /\ read' = [read EXCEPT ![r] = cash]
    /\ Goto(r, IF Kind(r) = "WITHDRAW" /\ cash < op[r].amount THEN "refused"
               ELSE IF Kind(r) = "BUY" THEN "position" ELSE "flush")
    /\ UNCHANGED <<held, answer, rows, voided, cash, shares, lock>>

(* record_trade reads the position one statement later.                    *)
GetPosition(r) ==
    /\ pc[r] = "position"
    /\ held' = [held EXCEPT ![r] = shares] /\ Goto(r, "flush")
    /\ UNCHANGED <<read, answer, rows, voided, cash, shares, lock>>

(* flush: UPDATE account comes first and waits for the row lock.           *)
UpdateAccount(r) ==
    /\ pc[r] = "flush" /\ lock = None
    /\ lock' = r /\ Goto(r, "write")
    /\ UNCHANGED <<read, held, answer, rows, voided, cash, shares>>

(* Faulty variant of Rollback: the transaction is left open.               *)
StayOpen(r, p) ==
    Goto(r, p) /\ UNCHANGED <<read, held, answer, rows, voided, cash, shares, lock>>

(* The transaction is undone and the lock is free.                         *)
Rollback(r, p) ==
    /\ Goto(r, p) /\ lock' = IF lock = r THEN None ELSE lock
    /\ UNCHANGED <<read, held, answer, rows, voided, cash, shares>>

(* flush: the other rows.  The unique index on (account, key) refuses a    *)
(* second row with a key, after which the request rolls back and looks     *)
(* again; the one on (account, stock) refuses a second position, which     *)
(* nobody catches.                                                         *)
Duplicate(r) == Keyed(r) /\ WithKey(Key(r)) # {}
SecondPosition(r) == Kind(r) = "BUY" /\ held[r] = 0 /\ shares > 0

(* Faulty variant of WriteRows: the cash written before the unique index   *)
(* refused the row is kept, as if the request did not roll back.           *)
WriteRowsKeepingCash(r) ==
    /\ pc[r] = "write"
    /\ \/ /\ Duplicate(r) /\ Goto(r, "recheck") /\ lock' = None
          /\ cash' = read[r] + Delta(r)
          /\ UNCHANGED <<read, held, answer, rows, voided, shares>>
       \/ SecondPosition(r) /\ Rollback(r, "failed")
       \/ /\ ~Duplicate(r) /\ ~SecondPosition(r) /\ Goto(r, "answer")
          /\ UNCHANGED <<read, held, answer, rows, voided, cash, shares, lock>>

WriteRows(r) ==
    /\ pc[r] = "write"
    /\ \/ Duplicate(r) /\ Rollback(r, "recheck")
       \/ SecondPosition(r) /\ Rollback(r, "failed")
       \/ /\ ~Duplicate(r) /\ ~SecondPosition(r) /\ Goto(r, "answer")
          /\ UNCHANGED <<read, held, answer, rows, voided, cash, shares, lock>>

(* The endpoint returns, and the client has the row that was flushed.      *)
Answer(r) ==
    /\ pc[r] = "answer"
    /\ Answered(r, IF Kind(r) = "VOID" THEN Seed ELSE r, "commit")
    /\ UNCHANGED <<read, held, rows, voided, cash, shares, lock>>

(* get_db commits: what was flushed becomes visible and the lock is free.  *)
Commit(r) ==
    /\ pc[r] = "commit" /\ Goto(r, "done")
    /\ cash' = read[r] + Delta(r)
    /\ IF Kind(r) = "VOID" THEN voided' = voided \cup {Seed} /\ UNCHANGED rows
                           ELSE rows' = rows \cup {r} /\ UNCHANGED voided
    /\ shares' = IF Kind(r) = "BUY" THEN held[r] + 1 ELSE shares
    /\ lock' = None
    /\ UNCHANGED <<read, held, answer>>

(* Faulty variant of Recheck: the row rolled back is the answer.           *)
RecheckOwnRow(r) ==
    /\ pc[r] = "recheck" /\ Answered(r, r, "done")
    /\ UNCHANGED <<read, held, rows, voided, cash, shares, lock>>

(* After the rollback: the row that won the race is the answer.  (No row   *)
(* is ever deleted, so it is there.)                                       *)
Recheck(r) ==
    /\ pc[r] = "recheck"
    /\ \E x \in WithKey(Key(r)) : Answered(r, x, "done")
    /\ UNCHANGED <<read, held, rows, voided, cash, shares, lock>>

(* The connection or the process is lost before the commit, before or      *)
(* after the answer.                                                       *)
Break(r) == pc[r] \notin Ended /\ Rollback(r, "failed") /\ UNCHANGED op

Handle(r) ==
    /\ \/ FindFundFlow(r) \/ LoadFundFlow(r) \/ GetAccount(r) \/ GetPosition(r)
       \/ UpdateAccount(r) \/ WriteRows(r) \/ Answer(r) \/ Commit(r) \/ Recheck(r)
    /\ UNCHANGED op

Next == \E r \in Requests : Handle(r) \/ Break(r)

Fairness == \A r \in Requests : WF_vars(Handle(r))
Spec == Init /\ [][Next]_vars /\ Fairness

-----------------------------------------------------------------------------
(* Properties.                                                             *)

(* However requests overlap, are lost and are repeated, a key enters one   *)
(* row, and a request with that key is answered with it, or with the row   *)
(* of its own that it has yet to commit; unless that commit fails, all are *)
(* answered with the same row.                                             *)
KeyNamesOneRow ==
    \A r, q \in Requests :
        Keyed(r) /\ Keyed(q) /\ Key(r) = Key(q) =>
            /\ r \in rows /\ q \in rows => r = q
            /\ answer[r] # None => \/ answer[r] \in rows
                                   \/ answer[r] = r /\ pc[r] \in {"commit", "failed"}
            /\ answer[r] # None /\ answer[q] # None /\ "failed" \notin {pc[r], pc[q]} =>
                    answer[r] = answer[q]

(* A deposit with a key that is sent again and again, by requests that     *)
(* overlap and break off at any point, is added to account.cash once.      *)
RetriesCountOnce ==
    \A q \in Requests :
        (\A r \in Requests : Keyed(r) /\ op[r] = op[q]) =>
            cash = Opening + IF rows = {Seed} THEN 0 ELSE op[q].amount

(* The books balance: account.cash is what the rows that are not voided    *)
(* add up to, and the position is the shares that were bought.             *)
BooksBalance ==
    /\ cash = Opening + MapThenSumSet(Amount, rows \ {Seed})
              - (IF Seed \in voided THEN SeedAmount ELSE 0)
    /\ shares = Owned + Cardinality({r \in rows \ {Seed} : Kind(r) = "BUY"})

(* Every request ends: the one that holds the lock lets it go.             *)
EveryRequestEnds == \A r \in Requests : <>(pc[r] \in Ended)
=============================================================================
