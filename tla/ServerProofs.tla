---------------------------- MODULE ServerProofs ----------------------------
(***************************************************************************)
(* What holds of the other services: back-test tasks (BacktestTasks), the  *)
(* days a back-test simulates (BacktestDays), the notifications as the     *)
(* browser shows them (NotificationInbox), the configuration store         *)
(* (ConfigStore) and the sandbox of plug-ins (PluginRun).  The five share  *)
(* no variable.                                                            *)
(***************************************************************************)
EXTENDS BacktestTasks, NotificationInbox, ConfigStore, PluginRun, BacktestDays, InductionLemmas,
        SequenceTheorems

-----------------------------------------------------------------------------
(***************************************************************************)
(* That the rows a back-test leaves agree, and that no second one is begun *)
(* beside a first, for any requests, batches and number of faults.         *)
(* The guard of a submission and the insert of its task are two steps, so  *)
(* the second result needs what holds between them (GuardStillHolds).      *)
(***************************************************************************)
(* An import that is about to write its positions has written its result.  *)
ImportHasResult ==
    \A i \in Imports : importAt[i] = "flush" => ImportOf[i] \in resultRows

RowsInv == BacktestTypeOK /\ ImportHasResult /\ BacktestRowsAgree

(* What the guard saw is still so when the task is created, unless two     *)
(* requests passed it together.                                            *)
GuardStillHolds ==
    ~raced => \A r \in Runs : runAt[r] = "checked" =>
                 /\ \A t \in Tasks : ~Active(t)
                 /\ \A q \in Runs \ {r} : runAt[q] # "checked"

QueuedIsPending == \A r \in Runs : runAt[r] = "queued" => taskStatus[r] = "PENDING"

OneActive == ~raced => \A t, u \in Tasks : Active(t) /\ Active(u) => t = u

GuardInv == GuardStillHolds /\ QueuedIsPending /\ OneActive

-----------------------------------------------------------------------------
(* There is nothing at first.                                              *)
LEMMA RowsInvInit == BacktestInit => RowsInv
<1> SUFFICES ASSUME BacktestInit PROVE RowsInv
  OBVIOUS
<1>1. BacktestTypeOK
  <2>1. btFaults \in 0..MaxBtFaults /\ positionRows \in [Tasks -> 0..Batches]
    BY BacktestAssumption DEF BacktestInit
  <2>2. /\ taskStatus \in [Tasks -> {"NONE", "PENDING", "RUNNING", "SUCCESS", "FAILED"}]
        /\ runAt \in [Runs -> {"idle", "ended", "orphan", "abandoned"} \cup InServer]
        /\ importAt \in [Imports -> {"idle", "checked", "flush", "answered", "ended"}]
    BY DEF BacktestInit
  <2> QED BY <2>1, <2>2 DEF BacktestInit, BacktestTypeOK
<1>2. ImportHasResult /\ BacktestRowsAgree
  BY DEF BacktestInit, ImportHasResult, BacktestRowsAgree, Tasks
<1> QED BY <1>1, <1>2 DEF RowsInv

(* Steps of a run, up to its end.                                          *)
LEMMA RunKeepsRows ==
  ASSUME RowsInv, NEW r \in Runs, SubmitRun(r) \/ RunStep(r) \/ RunRaises(r)
  PROVE  RowsInv'
<1> USE BacktestAssumption DEF RowsInv, BacktestTypeOK, ImportHasResult, BacktestRowsAgree, Tasks,
        InServer, BtFault, btRows
<1>1. CASE SubmitRun(r)
  BY <1>1 DEF SubmitRun
<1>2. CASE CreateTask(r)
  BY <1>2 DEF CreateTask
<1>3. CASE StartRun(r)
  BY <1>3 DEF StartRun
<1>4. CASE FlushPositions(r)
  <2>1. positionRows' \in [Tasks -> 0..Batches]
    BY <1>4 DEF FlushPositions
  <2>2. \A i \in Imports : ImportOf[i] # r
    OBVIOUS
  <2> QED BY <1>4, <2>1, <2>2 DEF FlushPositions
<1>5. CASE FinishRun(r)
  BY <1>5 DEF FinishRun
<1>6. CASE HandleException(r)
  BY <1>6 DEF HandleException
<1>7. CASE FailTask(r)
  BY <1>7 DEF FailTask
<1>8. CASE RunRaises(r)
  BY <1>8 DEF RunRaises
<1> QED BY <1>1, <1>2, <1>3, <1>4, <1>5, <1>6, <1>7, <1>8 DEF RunStep

(* Steps of an import.                                                     *)
LEMMA ImportKeepsRows ==
  ASSUME RowsInv, NEW i \in Imports, CheckImport(i) \/ ImportStep(i)
  PROVE  RowsInv'
<1> USE BacktestAssumption DEF RowsInv, BacktestTypeOK, ImportHasResult, BacktestRowsAgree, Tasks,
        InServer, BtFault, btRows
<1>1. ImportOf[i] \in Tasks /\ ImportOf[i] \notin Runs
  OBVIOUS
<1>2. CASE CheckImport(i)
  BY <1>2 DEF CheckImport
<1>3. CASE InsertImport(i)
  BY <1>1, <1>3 DEF InsertImport
<1>4. CASE FlushImport(i)
  BY <1>1, <1>4 DEF FlushImport
<1> QED BY <1>2, <1>3, <1>4 DEF ImportStep

(* The process dies and comes back.                                        *)
LEMMA ServerKeepsRows ==
  ASSUME RowsInv, Crash \/ Restart \/ UNCHANGED btVars
  PROVE  RowsInv'
<1> USE BacktestAssumption DEF RowsInv, BacktestTypeOK, ImportHasResult, BacktestRowsAgree, Tasks,
        InServer, BtFault, btRows
<1>1. CASE Crash
  <2>1. runAt' \in [Runs -> {"idle", "ended", "orphan", "abandoned"} \cup InServer]
    BY <1>1 DEF Crash
  <2>2. /\ importAt' \in [Imports -> {"idle", "checked", "flush", "answered", "ended"}]
        /\ \A i \in Imports : importAt'[i] # "flush"
        /\ \A i \in Imports : importAt'[i] = "answered" => importAt[i] = "answered"
    BY <1>1 DEF Crash
  <2>3. serverUp' \in BOOLEAN /\ btFaults' \in 0..MaxBtFaults
    <3>1. serverUp' = FALSE /\ btFaults < MaxBtFaults /\ btFaults' = btFaults + 1
      BY <1>1 DEF Crash
    <3>2. btFaults' \in 0..MaxBtFaults
      BY <3>1
    <3> QED BY <3>1, <3>2
  <2>4. UNCHANGED <<taskStatus, resultRows, positionRows, calendarReady, raced>>
    BY <1>1 DEF Crash
  <2> QED BY <2>1, <2>2, <2>3, <2>4
<1>2. CASE Restart
  <2>1. /\ taskStatus' \in [Tasks -> {"NONE", "PENDING", "RUNNING", "SUCCESS", "FAILED"}]
        /\ \A t \in Tasks : taskStatus'[t] = "SUCCESS" => taskStatus[t] = "SUCCESS"
    BY <1>2 DEF Restart
  <2>2. runAt' \in [Runs -> {"idle", "ended", "orphan", "abandoned"} \cup InServer]
    BY <1>2 DEF Restart
  <2>3. /\ serverUp' \in BOOLEAN /\ calendarReady' \in BOOLEAN
        /\ btFaults' \in 0..MaxBtFaults
    <3>1. /\ serverUp' = TRUE
          /\ calendarReady' \in BOOLEAN \/ calendarReady' = FALSE
      BY <1>2 DEF Restart
    <3>2. btFaults' = btFaults \/ (btFaults < MaxBtFaults /\ btFaults' = btFaults + 1)
      BY <1>2 DEF Restart
    <3>3. btFaults' \in 0..MaxBtFaults
      BY <3>2
    <3> QED BY <3>1, <3>3
  <2>4. UNCHANGED <<resultRows, positionRows, importAt, raced>>
    BY <1>2 DEF Restart
  <2> QED BY <2>1, <2>2, <2>3, <2>4
<1>3. CASE UNCHANGED btVars
  BY <1>3 DEF btVars
<1> QED BY <1>1, <1>2, <1>3

(* The invariant holds in every reachable state.                           *)
LEMMA RowsInvHolds == BacktestSpec => []RowsInv
<1>1. RowsInv /\ [BacktestNext]_btVars => RowsInv'
  BY RunKeepsRows, ImportKeepsRows, ServerKeepsRows DEF BacktestNext
<1> QED BY <1>1, RowsInvInit, PTL DEF BacktestSpec

(* The tables of back-tests are well typed, for any requests and batches.  *)
THEOREM BacktestTypeCorrect == BacktestSpec => []BacktestTypeOK
<1>1. RowsInv => BacktestTypeOK
  BY DEF RowsInv
<1> QED BY <1>1, RowsInvHolds, PTL

(* Whatever fails or dies between the transactions of runs and imports: a  *)
(* task that says SUCCESS has its result, a run with a result all its      *)
(* positions, an answered import everything (run_task, import_result).     *)
THEOREM RowsAgree == BacktestSpec => []BacktestRowsAgree
<1>1. RowsInv => BacktestRowsAgree
  BY DEF RowsInv
<1> QED BY <1>1, RowsInvHolds, PTL

-----------------------------------------------------------------------------
(* Only the creation of a task makes one active, and it follows the guard. *)
LEMMA RunKeepsGuard ==
  ASSUME BacktestTypeOK, GuardInv, NEW r \in Runs, SubmitRun(r) \/ RunStep(r) \/ RunRaises(r)
  PROVE  GuardInv'
<1> USE BacktestAssumption DEF GuardInv, GuardStillHolds, QueuedIsPending, OneActive,
        BacktestTypeOK, Tasks, Active, btRows
<1>1. CASE SubmitRun(r)
  BY <1>1 DEF SubmitRun
<1>2. CASE CreateTask(r)
  BY <1>2 DEF CreateTask
<1>3. CASE StartRun(r)
  BY <1>3 DEF StartRun
<1>4. CASE FlushPositions(r) \/ RunRaises(r)
  BY <1>4 DEF FlushPositions, RunRaises
<1>5. CASE FinishRun(r)
  BY <1>5 DEF FinishRun
<1>6. CASE HandleException(r)
  BY <1>6 DEF HandleException
<1>7. CASE FailTask(r)
  BY <1>7 DEF FailTask
<1> QED BY <1>1, <1>2, <1>3, <1>4, <1>5, <1>6, <1>7 DEF RunStep

(* Imports bring tasks that are over; a crash ends what passed the guard.  *)
LEMMA RestKeepsGuard ==
  ASSUME BacktestTypeOK, GuardInv,
         \/ \E i \in Imports : CheckImport(i) \/ ImportStep(i)
         \/ Crash \/ Restart \/ UNCHANGED btVars
  PROVE  GuardInv'
<1> USE BacktestAssumption DEF GuardInv, GuardStillHolds, QueuedIsPending, OneActive,
        BacktestTypeOK, Tasks, Active, btRows
<1>1. ASSUME NEW i \in Imports, CheckImport(i) \/ ImportStep(i) PROVE GuardInv'
  <2>1. CASE CheckImport(i)
    BY <2>1 DEF CheckImport
  <2>2. CASE InsertImport(i)
    BY <2>2 DEF InsertImport
  <2>3. CASE FlushImport(i)
    BY <2>3 DEF FlushImport
  <2> QED BY <1>1, <2>1, <2>2, <2>3 DEF ImportStep
<1>2. CASE Crash
  BY <1>2 DEF Crash, InServer
<1>3. CASE Restart
  BY <1>3 DEF Restart, Reconciled
<1>4. CASE UNCHANGED btVars
  BY <1>4 DEF btVars
<1> QED BY <1>1, <1>2, <1>3, <1>4

(* For any number of requests and faults, as long as no two were between   *)
(* has_active_task and create_task together, at most one task waits or     *)
(* runs (POST /backtest/run).                                              *)
THEOREM OneAtATime == BacktestSpec => []OneBacktestAtATime
<1>1. BacktestInit => GuardInv
  BY DEF BacktestInit, GuardInv, GuardStillHolds, QueuedIsPending, OneActive, Active
<1>2. BacktestTypeOK /\ GuardInv /\ [BacktestNext]_btVars => GuardInv'
  BY RunKeepsGuard, RestKeepsGuard DEF BacktestNext
<1>3. GuardInv => OneBacktestAtATime
  <2> SUFFICES ASSUME GuardInv, ~raced
               PROVE  Cardinality({t \in Tasks : Active(t)}) <= 1
    BY DEF OneBacktestAtATime
  <2> DEFINE A == {t \in Tasks : Active(t)}
  <2>1. \A t, u \in A : t = u
    BY DEF GuardInv, OneActive
  <2>2. CASE A = {}
    BY <2>2, FS_EmptySet
  <2>3. CASE A # {}
    <3>1. PICK t \in A : A = {t}
      <4> HIDE DEF A
      <4> QED BY <2>1, <2>3
    <3> QED BY <3>1, FS_Singleton
  <2> QED BY <2>2, <2>3
<1> QED BY <1>1, <1>2, <1>3, BacktestTypeCorrect, PTL DEF BacktestSpec

-----------------------------------------------------------------------------

-----------------------------------------------------------------------------
(***************************************************************************)
(* NotificationInbox: nobody sees or marks a row of another account, for   *)
(* any accounts, rows and order of their requests and commits.             *)
(***************************************************************************)
(* Whatever is on a page, on its way to one or to be marked belongs to the *)
(* account or to the system.                                               *)
IsRequest(r) == DOMAIN r = {"at", "rows", "unread", "note", "shown"}
AreRequests(r) == DOMAIN r = Requests /\ \A q \in Requests : IsRequest(r[q])
IsBell(b) == DOMAIN b = {"open", "badge", "items"}

(* g is f, with v at a.                                                    *)
Placed(g, f, a, v) == DOMAIN g = Pages /\ \A c \in Pages : g[c] = IF c = a THEN v ELSE f[c]

(* What a transaction to come marks is what it may.                        *)
MarksOwn(a) == \A t \in marks' : t \in marks \/ (t.by = a /\ t.rows \subseteq Visible(a))
OfOwn(f, a) == DOMAIN f \subseteq Visible(a)

InboxShape ==
    /\ notes \in [Notes -> [owner : Inboxes \cup {System, NoOwner}, read : BOOLEAN]]
    /\ DOMAIN bell = Pages /\ DOMAIN asked = Pages
    /\ \A a \in Pages : IsBell(bell[a]) /\ AreRequests(asked[a])

InboxInv ==
    /\ InboxShape
    /\ \A a \in Pages : Showing(a) \subseteq Visible(a)
    /\ \A a \in Pages : DOMAIN asked[a]["list"].rows \subseteq Visible(a)
    /\ \A t \in marks : t.by \in Inboxes /\ t.rows \subseteq Visible(t.by)

(* Nothing is shown, asked or marked at first.                             *)
LEMMA InboxInvInit == InboxAssumption /\ InboxInit => InboxInv
BY DEF InboxAssumption, InboxInit, InboxInv, InboxShape, Showing, Idle, Requests, IsBell,
       IsRequest, AreRequests

(* The rows that a query for the list finds are visible.                   *)
LEMMA NewestAreVisible ==
  ASSUME NEW a
  PROVE  OfOwn(NewestNotes(a), a)
BY DEF NewestNotes, OfOwn

(* A row once visible to an account stays so.                              *)
LEMMA NewNoteKeeps ==
  ASSUME InboxAssumption, InboxInv, NewNote
  PROVE  InboxInv'
<1>1. PICK n \in Notes, o \in Inboxes \cup {System} :
        ~Exists(n) /\ notes' = [notes EXCEPT ![n].owner = o]
  BY DEF NewNote
<1>2. UNCHANGED <<marks, bell, asked>>
  BY DEF NewNote
<1>3. /\ notes' \in [Notes -> [owner : Inboxes \cup {System, NoOwner}, read : BOOLEAN]]
      /\ \A m \in Notes : m # n => notes'[m] = notes[m]
      /\ notes[n].owner = NoOwner
  BY <1>1 DEF InboxInv, InboxShape, Exists
<1>4. ASSUME NEW a \in Inboxes
      PROVE  Visible(a) \subseteq Visible(a)'
  <2>1. NoOwner # System /\ NoOwner # a
    BY DEF InboxAssumption
  <2> QED BY <1>3, <2>1 DEF Visible
<1>5. \A a \in Pages : a \in Inboxes
  BY DEF InboxAssumption
<1>6. \A a \in Pages : Showing(a)' = Showing(a)
  BY <1>2 DEF Showing
<1>7. InboxShape'
  BY <1>2, <1>3 DEF InboxInv, InboxShape
<1>8. \A a \in Pages : (Showing(a) \subseteq Visible(a))'
  BY <1>4, <1>5, <1>6 DEF InboxInv
<1>9. \A a \in Pages : (DOMAIN asked[a]["list"].rows \subseteq Visible(a))'
  BY <1>2, <1>4, <1>5 DEF InboxInv
<1>10. \A t \in marks' : t.by \in Inboxes /\ (t.rows \subseteq Visible(t.by))'
  BY <1>2, <1>4 DEF InboxInv
<1> QED BY <1>7, <1>8, <1>9, <1>10 DEF InboxInv

(* A commit sets read flags and leaves the owners alone.                   *)
LEMMA CommitKeeps ==
  ASSUME InboxInv, CommitMark
  PROVE  InboxInv'
<1>1. PICK t \in marks :
        /\ notes' = [n \in Notes |-> [notes[n] EXCEPT !.read = notes[n].read \/ n \in t.rows]]
        /\ marks' = marks \ {t} /\ UNCHANGED <<bell, asked>>
  BY DEF CommitMark
<1>2. notes \in [Notes -> [owner : Inboxes \cup {System, NoOwner}, read : BOOLEAN]]
  BY DEF InboxInv, InboxShape
<1>3. \A n \in Notes : /\ notes'[n] \in [owner : Inboxes \cup {System, NoOwner}, read : BOOLEAN]
                       /\ notes'[n].owner = notes[n].owner
  BY <1>1, <1>2
<1>4. notes' \in [Notes -> [owner : Inboxes \cup {System, NoOwner}, read : BOOLEAN]]
  BY <1>1, <1>3
<1>5. \A a : Visible(a)' = Visible(a)
  BY <1>3 DEF Visible
<1>6. \A a \in Pages : Showing(a)' = Showing(a)
  BY <1>1 DEF Showing
<1>7. InboxShape'
  BY <1>1, <1>4 DEF InboxInv, InboxShape
<1> QED BY <1>1, <1>5, <1>6, <1>7 DEF InboxInv

(* A step of one page that leaves the table alone: what it shows and what  *)
(* it is sent come from its own queries, and so do the rows it marks.      *)
LEMMA PageKeeps ==
  ASSUME InboxAssumption, InboxInv, UNCHANGED notes, NEW a \in Pages,
         NEW b, Placed(bell', bell, a, b), IsBell(b), OfOwn(b.items, a),
         NEW r, Placed(asked', asked, a, r), AreRequests(r),
         OfOwn(r["list"].rows, a),
         MarksOwn(a)
  PROVE  InboxInv'
<1>1. \A c : Visible(c)' = Visible(c)
  BY DEF Visible
<1>3. /\ DOMAIN bell' = Pages /\ DOMAIN asked' = Pages
      /\ \A c \in Pages : /\ bell'[c] = IF c = a THEN b ELSE bell[c]
                          /\ asked'[c] = IF c = a THEN r ELSE asked[c]
  BY DEF Placed
<1>4. \A c \in Pages : Showing(c)' \subseteq Visible(c)
  BY <1>3 DEF InboxInv, Showing, OfOwn
<1>5. \A c \in Pages : DOMAIN asked'[c]["list"].rows \subseteq Visible(c)
  BY <1>3 DEF InboxInv, OfOwn
<1>6. \A t \in marks' : t.by \in Inboxes /\ t.rows \subseteq Visible(t.by)
  BY DEF InboxInv, InboxAssumption, MarksOwn
<1>7. InboxShape'
  BY <1>3 DEF InboxInv, InboxShape
<1> QED BY <1>1, <1>4, <1>5, <1>6, <1>7 DEF InboxInv

(* Placed is what EXCEPT does.                                             *)
LEMMA PlacedIs ==
  ASSUME NEW f, DOMAIN f = Pages, NEW a \in Pages, NEW v
  PROVE  Placed(f, f, a, f[a]) /\ Placed([f EXCEPT ![a] = v], f, a, v)
BY DEF Placed

(* What the invariant says of one page.                                    *)
LEMMA PageOf ==
  ASSUME InboxInv, NEW a \in Pages
  PROVE  /\ IsBell(bell[a]) /\ OfOwn(bell[a].items, a)
         /\ AreRequests(asked[a]) /\ "list" \in Requests
         /\ \A q \in Requests : IsRequest(asked[a][q])
         /\ OfOwn(asked[a]["list"].rows, a)
         /\ DOMAIN bell = Pages /\ DOMAIN asked = Pages
BY DEF InboxInv, InboxShape, Showing, Requests, AreRequests, OfOwn

(* A request changes its place, and what it asked for.                     *)
LEMMA AskKeeps ==
  ASSUME InboxAssumption, InboxInv, UNCHANGED <<notes, bell>>, NEW a \in Pages,
         NEW q \in Requests, NEW r, Ask(a, q, r), IsRequest(r),
         q = "list" => OfOwn(r.rows, a),
         MarksOwn(a)
  PROVE  InboxInv'
<1> DEFINE s == [asked[a] EXCEPT ![q] = r]
<1>1. Placed(asked', asked, a, s)
  <2>1. asked' = [asked EXCEPT ![a] = s]
    BY DEF Ask
  <2> HIDE DEF s
  <2> QED BY <2>1, PageOf, PlacedIs
<1>2. /\ s[q] = r /\ (q # "list" => s["list"] = asked[a]["list"])
      /\ AreRequests(s)
  BY PageOf DEF AreRequests
<1> HIDE DEF s
<1>3. OfOwn(s["list"].rows, a)
  <2>1. CASE q = "list"
    BY <1>2, <2>1
  <2>2. CASE q # "list"
    BY <1>2, <2>2, PageOf
  <2> QED BY <2>1, <2>2
<1>4. Placed(bell', bell, a, bell[a])
  BY PageOf, PlacedIs
<1> QED BY <1>1, <1>2, <1>3, <1>4, PageOf, PageKeeps

(* A step that begins no mark.                                             *)
LEMMA NothingMarked ==
  ASSUME marks' = marks, NEW a
  PROVE  MarksOwn(a)
BY DEF MarksOwn

(* A request that is over asks for nothing.                                *)
LEMMA IdleIsEmpty ==
  ASSUME NEW a
  PROVE  /\ IsRequest(Idle)
         /\ Idle.rows = <<>> /\ OfOwn(Idle.rows, a)
BY DEF Idle, IsRequest, OfOwn

(* The steps of the server: an answer, and the two marks.                  *)
LEMMA ServerKeeps ==
  ASSUME InboxAssumption, InboxInv, NEW a \in Pages,
         AnswerList(a) \/ MarkOne(a) \/ MarkAll(a)
  PROVE  InboxInv'
<1>1. CASE AnswerList(a)
  <2>1. PICK u : /\ Ask(a, "list", [asked[a]["list"] EXCEPT !.at = "answered", !.unread = u])
                 /\ UNCHANGED <<notes, bell, marks>>
    BY <1>1 DEF AnswerList
  <2> DEFINE r == [asked[a]["list"] EXCEPT !.at = "answered", !.unread = u]
  <2>2. IsRequest(r) /\ r.rows = asked[a]["list"].rows
    BY PageOf DEF IsRequest
  <2>3. Ask(a, "list", r)
    BY <2>1
  <2> HIDE DEF r
  <2> QED BY <2>1, <2>2, <2>3, PageOf, NothingMarked, AskKeeps
<1>2. CASE MarkOne(a)
  <2> DEFINE r == [asked[a]["mark"] EXCEPT !.at = "answered"]
             t == [by |-> a, rows |-> {asked[a]["mark"].note} \cap Unread(a)]
  <2>1. Ask(a, "mark", r) /\ marks' = marks \cup {t} /\ UNCHANGED <<notes, bell>>
    BY <1>2 DEF MarkOne
  <2>2. "mark" \in Requests /\ IsRequest(r)
    BY PageOf DEF Requests, IsRequest
  <2>3. t.by = a /\ t.rows \subseteq Visible(a)
    BY DEF Unread
  <2> HIDE DEF r, t
  <2>4. MarksOwn(a)
    BY <2>1, <2>3 DEF MarksOwn
  <2> QED BY <2>1, <2>2, <2>4, AskKeeps
<1>3. CASE MarkAll(a)
  <2> DEFINE r == [Idle EXCEPT !.at = "answered"]
             t == [by |-> a, rows |-> MarkedByAll(a)]
  <2>1. Ask(a, "all", r) /\ marks' = marks \cup {t} /\ UNCHANGED <<notes, bell>>
    BY <1>3 DEF MarkAll
  <2>2. "all" \in Requests /\ IsRequest(r)
    BY DEF Requests, Idle, IsRequest
  <2>3. t.by = a /\ t.rows \subseteq Visible(a)
    BY DEF MarkedByAll, Unread
  <2> HIDE DEF r, t
  <2>4. MarksOwn(a)
    BY <2>1, <2>3 DEF MarksOwn
  <2> QED BY <2>1, <2>2, <2>4, AskKeeps
<1> QED BY <1>1, <1>2, <1>3

(* The steps in which the browser asks, or a request fails.                *)
LEMMA BrowserAsksKeeps ==
  ASSUME InboxAssumption, InboxInv, NEW a \in Pages,
         Poll(a) \/ OpenBell(a) \/ ClickItem(a) \/ ClickAll(a) \/ RequestFails(a)
  PROVE  InboxInv'
<1>1. CASE Poll(a)
  <2>1. PICK u : /\ Ask(a, "poll", [Idle EXCEPT !.at = "answered", !.unread = u])
                 /\ UNCHANGED <<notes, bell, marks>>
    BY <1>1 DEF Poll
  <2>2. "poll" \in Requests /\ IsRequest([Idle EXCEPT !.at = "answered", !.unread = u])
    BY DEF Requests, Idle, IsRequest
  <2> QED BY <2>1, <2>2, NothingMarked, AskKeeps
<1>2. CASE OpenBell(a)
  <2> DEFINE r == [Idle EXCEPT !.at = "selected", !.rows = NewestNotes(a)]
  <2>1. Ask(a, "list", r) /\ UNCHANGED <<notes, bell, marks>>
    BY <1>2 DEF OpenBell
  <2>2. IsRequest(r) /\ r.rows = NewestNotes(a) /\ "list" \in Requests
    BY DEF Requests, Idle, IsRequest
  <2> HIDE DEF r
  <2> QED BY <2>1, <2>2, NewestAreVisible, NothingMarked, AskKeeps
<1>3. CASE ClickItem(a)
  <2>1. PICK n : /\ Ask(a, "mark", [Idle EXCEPT !.at = "sent", !.note = n, !.shown = n])
                 /\ UNCHANGED <<notes, bell, marks>>
    BY <1>3 DEF ClickItem
  <2>2. "mark" \in Requests
        /\ IsRequest([Idle EXCEPT !.at = "sent", !.note = n, !.shown = n])
    BY DEF Requests, Idle, IsRequest
  <2> QED BY <2>1, <2>2, NothingMarked, AskKeeps
<1>4. CASE ClickAll(a)
  <2>1. Ask(a, "all", [Idle EXCEPT !.at = "sent"]) /\ UNCHANGED <<notes, bell, marks>>
    BY <1>4 DEF ClickAll
  <2>2. "all" \in Requests /\ IsRequest([Idle EXCEPT !.at = "sent"])
    BY DEF Requests, Idle, IsRequest
  <2> QED BY <2>1, <2>2, NothingMarked, AskKeeps
<1>5. CASE RequestFails(a)
  <2>1. PICK q \in Requests : Ask(a, q, Idle) /\ UNCHANGED <<notes, bell, marks>>
    BY <1>5 DEF RequestFails
  <2> QED BY <2>1, IdleIsEmpty, NothingMarked, AskKeeps
<1> QED BY <1>1, <1>2, <1>3, <1>4, <1>5

(* The steps in which the browser shows what it was sent.                  *)
LEMMA BrowserShowsKeeps ==
  ASSUME InboxAssumption, InboxInv, NEW a \in Pages,
         OpenPage(a) \/ ShowCount(a) \/ ShowList(a) \/ ShowMarked(a) \/ ShowAllMarked(a)
  PROVE  InboxInv'
<1>0. /\ DOMAIN bell = Pages /\ DOMAIN asked = Pages
      /\ {"poll", "list", "mark", "all"} = Requests
  BY DEF InboxInv, InboxShape, Requests
<1>1. CASE OpenPage(a)
  <2> DEFINE b == [bell[a] EXCEPT !.open = TRUE]
  <2>1. bell' = [bell EXCEPT ![a] = b] /\ UNCHANGED <<notes, marks, asked>>
    BY <1>1 DEF OpenPage
  <2>2. IsBell(b) /\ b.items = bell[a].items
    BY PageOf DEF IsBell
  <2> HIDE DEF b
  <2>8. Placed(bell', bell, a, b) /\ Placed(asked', asked, a, asked[a])
    BY <1>0, <2>1, PlacedIs
  <2> QED BY <2>1, <2>2, <2>8, PageOf, NothingMarked, PageKeeps
<1>2. CASE ShowCount(a)
  <2> DEFINE b == [bell[a] EXCEPT !.badge = asked[a]["poll"].unread]
             r == [asked[a] EXCEPT !["poll"] = Idle]
  <2>1. bell' = [bell EXCEPT ![a] = b] /\ asked' = [asked EXCEPT ![a] = r]
        /\ UNCHANGED <<notes, marks>>
    BY <1>2 DEF ShowCount, Ask
  <2>2. IsBell(b) /\ b.items = bell[a].items
    BY PageOf DEF IsBell
  <2>3. AreRequests(r) /\ r["list"] = asked[a]["list"]
    BY PageOf, IdleIsEmpty DEF AreRequests, Requests
  <2> HIDE DEF b, r
  <2>8. Placed(bell', bell, a, b) /\ Placed(asked', asked, a, r)
    BY <1>0, <2>1, PlacedIs
  <2> QED BY <2>1, <2>2, <2>3, <2>8, PageOf, NothingMarked, PageKeeps
<1>3. CASE ShowList(a)
  <2> DEFINE b == [bell[a] EXCEPT !.badge = asked[a]["list"].unread,
                                  !.items = asked[a]["list"].rows]
             m == [asked[a]["mark"] EXCEPT !.shown = 0]
             r == [asked[a] EXCEPT !["list"] = Idle, !["mark"] = m]
  <2>1. bell' = [bell EXCEPT ![a] = b] /\ UNCHANGED <<notes, marks>>
    BY <1>3 DEF ShowList
  <2>2. asked' = [asked EXCEPT ![a] = r]
    <3>1. asked' = [asked EXCEPT ![a]["list"] = Idle, ![a]["mark"].shown = 0]
      BY <1>3 DEF ShowList
    <3> QED BY <1>0, <3>1, PageOf
  <2>3. IsBell(b) /\ b.items = asked[a]["list"].rows
    BY PageOf DEF IsBell
  <2>4. IsRequest(m)
    BY <1>0, PageOf DEF IsRequest
  <2> HIDE DEF b, m
  <2>5. AreRequests(r) /\ r["list"] = Idle
    BY <1>0, <2>4, PageOf, IdleIsEmpty DEF AreRequests, Requests
  <2> HIDE DEF r
  <2>8. Placed(bell', bell, a, b) /\ Placed(asked', asked, a, r)
    BY <1>0, <2>1, <2>2, PlacedIs
  <2> QED BY <2>1, <2>3, <2>5, <2>8, PageOf, IdleIsEmpty, NothingMarked, PageKeeps
<1>4. CASE ShowMarked(a)
  <2> DEFINE shown == asked[a]["mark"].shown
             old == bell[a].items
             items == [n \in DOMAIN old |-> old[n] \/ n = shown]
             badge == IF bell[a].badge > 0 THEN bell[a].badge - 1 ELSE 0
             b == [bell[a] EXCEPT !.badge = badge, !.items = items]
             r == [asked[a] EXCEPT !["mark"] = Idle]
  <2>1. bell' = [bell EXCEPT ![a] = b] /\ asked' = [asked EXCEPT ![a] = r]
        /\ UNCHANGED <<notes, marks>>
    BY <1>0, <1>4, PageOf DEF ShowMarked, Ask
  <2>2. DOMAIN items = DOMAIN old
    OBVIOUS
  <2> HIDE DEF items, badge
  <2>3. IsBell(b) /\ b.items = items
    BY PageOf DEF IsBell
  <2>4. AreRequests(r) /\ r["list"] = asked[a]["list"]
    BY <1>0, PageOf, IdleIsEmpty DEF AreRequests, Requests
  <2>5. OfOwn(b.items, a)
    BY <2>2, <2>3, PageOf DEF OfOwn
  <2> HIDE DEF b, r
  <2>8. Placed(bell', bell, a, b) /\ Placed(asked', asked, a, r)
    BY <1>0, <2>1, PlacedIs
  <2> QED BY <2>1, <2>3, <2>4, <2>5, <2>8, PageOf, NothingMarked, PageKeeps
<1>5. CASE ShowAllMarked(a)
  <2> DEFINE l == [Idle EXCEPT !.at = "selected", !.rows = NewestNotes(a)]
             r == [asked[a] EXCEPT !["all"] = Idle, !["list"] = l]
  <2>1. asked' = [asked EXCEPT ![a] = r] /\ UNCHANGED <<notes, marks, bell>>
    BY <1>0, <1>5, PageOf DEF ShowAllMarked
  <2>2. IsRequest(l) /\ l.rows = NewestNotes(a)
    BY DEF Idle, IsRequest
  <2> HIDE DEF l
  <2>3. AreRequests(r) /\ r["list"] = l
    BY <1>0, <2>2, PageOf, IdleIsEmpty DEF AreRequests, Requests
  <2> HIDE DEF r
  <2>8. Placed(bell', bell, a, bell[a]) /\ Placed(asked', asked, a, r)
    BY <1>0, <2>1, PlacedIs
  <2> QED BY <2>1, <2>2, <2>3, <2>8, PageOf, NewestAreVisible, NothingMarked, PageKeeps
<1> QED BY <1>1, <1>2, <1>3, <1>4, <1>5

(* Every step keeps it.                                                    *)
LEMMA InboxInvStep ==
  ASSUME InboxAssumption, InboxInv, [InboxNext]_inboxVars
  PROVE  InboxInv'
<1>1. CASE NewNote
  BY <1>1, NewNoteKeeps
<1>2. CASE CommitMark
  BY <1>2, CommitKeeps
<1>3. ASSUME NEW a \in Pages, BellStep(a) \/ UserStep(a)
      PROVE  InboxInv'
  BY <1>3, ServerKeeps, BrowserAsksKeeps, BrowserShowsKeeps DEF BellStep, UserStep
<1>4. ASSUME NEW b \in Inboxes \ Pages, MarkElsewhere(b)
      PROVE  InboxInv'
  <2> DEFINE t == [by |-> b, rows |-> MarkedByAll(b)]
  <2>1. marks' = marks \cup {t} /\ UNCHANGED <<notes, bell, asked>>
    BY <1>4 DEF MarkElsewhere
  <2>2. t.by \in Inboxes /\ t.rows \subseteq Visible(t.by)
    BY DEF MarkedByAll, Unread
  <2> HIDE DEF t
  <2>3. \A c : Visible(c)' = Visible(c) /\ Showing(c)' = Showing(c)
    BY <2>1 DEF Visible, Showing
  <2> QED BY <2>1, <2>2, <2>3 DEF InboxInv, InboxShape
<1>5. CASE UNCHANGED inboxVars
  BY <1>5 DEF inboxVars, InboxInv, InboxShape, Showing, Visible
<1> QED BY <1>1, <1>2, <1>3, <1>4, <1>5 DEF InboxNext

(* A step of one page or of another account's marks leaves the table alone.*)
LEMMA PagesLeaveTheTable ==
  ASSUME NEW a, BellStep(a) \/ UserStep(a) \/ MarkElsewhere(a)
  PROVE  notes' = notes
BY DEF BellStep, UserStep, Poll, ShowCount, AnswerList, ShowList, MarkOne, ShowMarked, MarkAll,
       ShowAllMarked, OpenPage, OpenBell, ClickItem, ClickAll, RequestFails, MarkElsewhere

(* What such a step shows and marks, under the invariant.                  *)
LEMMA PrivateStep ==
  ASSUME InboxAssumption, InboxInv, [InboxNext]_inboxVars, InboxInv'
  PROVE  /\ \A a \in Pages : Showing(a)' \subseteq {n \in Notes : BelongsTo(n, a)}
         /\ \A n \in Notes :
                notes'[n].read /\ ~notes[n].read
                => \E t \in marks : n \in t.rows /\ BelongsTo(n, t.by)
<1>1. \A a : Visible(a) = {n \in Notes : BelongsTo(n, a)}
  BY DEF Visible, BelongsTo
<1>2. CASE notes' = notes
  <2>1. \A a : Visible(a)' = Visible(a)
    BY <1>2 DEF Visible
  <2>2. \A a \in Pages : Showing(a)' \subseteq Visible(a)'
    BY DEF InboxInv
  <2> QED BY <1>1, <1>2, <2>1, <2>2
<1>3. ASSUME bell' = bell
      PROVE  \A a \in Pages : Showing(a)' \subseteq Visible(a)
  BY <1>3 DEF InboxInv, Showing
<1>4. CASE NewNote
  <2>1. PICK n \in Notes, o \in Inboxes \cup {System} :
          notes' = [notes EXCEPT ![n].owner = o] /\ bell' = bell
    BY <1>4 DEF NewNote
  <2>2. \A m \in Notes : notes'[m].read = notes[m].read
    BY <2>1 DEF InboxInv, InboxShape
  <2> QED BY <1>1, <1>3, <2>1, <2>2
<1>5. CASE CommitMark
  <2>1. PICK t \in marks :
          /\ notes' = [n \in Notes |-> [notes[n] EXCEPT !.read = notes[n].read \/ n \in t.rows]]
          /\ bell' = bell
    BY <1>5 DEF CommitMark
  <2>2. ASSUME NEW n \in Notes, notes'[n].read, ~notes[n].read
        PROVE  n \in t.rows
    <3>1. notes[n] \in [owner : Inboxes \cup {System, NoOwner}, read : BOOLEAN]
      BY DEF InboxInv, InboxShape
    <3>2. notes'[n].read = (notes[n].read \/ n \in t.rows)
      BY <2>1, <3>1
    <3> QED BY <2>2, <3>2
  <2>3. t.rows \subseteq {n \in Notes : BelongsTo(n, t.by)}
    BY <1>1 DEF InboxInv
  <2> QED BY <1>1, <1>3, <2>1, <2>2, <2>3
<1>6. CASE \E a : BellStep(a) \/ UserStep(a) \/ MarkElsewhere(a)
  BY <1>2, <1>6, PagesLeaveTheTable
<1>7. CASE UNCHANGED inboxVars
  BY <1>2, <1>7 DEF inboxVars
<1> QED BY <1>2, <1>4, <1>5, <1>6, <1>7 DEF InboxNext

(* No account sees or marks a row of another: every query and every mark   *)
(* carries the account's clause (_visible_clause), and a row once visible  *)
(* to an account stays so until a late mark of it commits.                 *)
THEOREM InboxesArePrivate == InboxSpec => InboxIsPrivate
<1> USE InboxAssumption
<1>1. InboxInit => InboxInv
  BY InboxInvInit
<1>2. InboxInv /\ [InboxNext]_inboxVars => InboxInv'
  BY InboxInvStep
<1>3. InboxInv /\ [InboxNext]_inboxVars /\ InboxInv'
      => [/\ \A a \in Pages : Showing(a)' \subseteq {n \in Notes : BelongsTo(n, a)}
          /\ \A n \in Notes :
                 notes'[n].read /\ ~notes[n].read
                 => \E t \in marks : n \in t.rows /\ BelongsTo(n, t.by)]_inboxVars
  BY PrivateStep
<1> QED BY <1>1, <1>2, <1>3, PTL DEF InboxSpec, InboxIsPrivate

-----------------------------------------------------------------------------

-----------------------------------------------------------------------------
(***************************************************************************)
(* ConfigStore: the history explains the store, for any keys, values,      *)
(* files and number of saves, reads and faults.  The history is what the   *)
(* committed saves wrote, one after another, so its newest row of a key    *)
(* says its value; and the rows that an open save is to add start from the *)
(* committed value, for a key that no other save has touched meanwhile.    *)
(* What an import loaded of such a key at its start is still committed.    *)
(***************************************************************************)
(* A list of rows, whatever their keys.                                    *)
IsList(h) == \E S : h \in Seq(S)

(* The first n rows of h take the key k from b to v.                       *)
Leads(h, n, k, b, v) ==
    \/ v = b /\ \A i \in 1..n : h[i].key # k
    \/ \E i \in 1..n : /\ h[i].key = k /\ h[i].new = v
                       /\ \A j \in 1..n : h[j].key = k => j <= i

(* The value it takes k to.                                                *)
LastNew(h, n, k, b) ==
    LET I == {i \in 1..n : h[i].key = k} IN IF I = {} THEN b ELSE h[Newest(I)].new

(* Every row of k starts from where the row before it ended, the first     *)
(* one from b.                                                             *)
Chained(h, k, b) == \A i \in 1..Len(h) : h[i].key = k => Leads(h, i - 1, k, b, h[i].old)

(* What a save in progress, x, has done to k and what it is to write next. *)
SaveChained(x, k, b) ==
    /\ Chained(x.rows, k, b)
    /\ x.at = "upsert" /\ Head(x.todo).key = k => Leads(x.rows, Len(x.rows), k, b, x.old)
    /\ x.seen[k] \in {Unset, b}

Touches(x, k) ==
    \/ \E i \in DOMAIN x.rows : x.rows[i].key = k
    \/ x.at = "upsert" /\ Head(x.todo).key = k
    \/ k \in ConfigKeys /\ x.seen[k] # Unset

IsSave(x) == DOMAIN x = {"at", "todo", "rows", "old", "seen"} /\ IsList(x.rows)
IsRead(x) == DOMAIN x = {"at", "key", "found"}

(* What was committed for k at some time.                                  *)
Known(k) == {Unset} \cup {configHistory[i].new : i \in RowsOf(k)}

ConfigShape ==
    /\ DOMAIN configValue = ConfigKeys /\ IsList(configHistory)
    /\ DOMAIN saves = Saves /\ \A s \in Saves : IsSave(saves[s])
    /\ DOMAIN reads = Reads /\ \A r \in Reads : IsRead(reads[r])

ValueIsLast ==
    \A k \in ConfigKeys : Leads(configHistory, Len(configHistory), k, Unset, configValue[k])

RowsAreChained ==
    \A k \in ConfigKeys \ overlapped : Chained(configHistory, k, Unset)

SavesAreChained ==
    \A k \in ConfigKeys \ overlapped :
        /\ \A s \in Saves : SaveChained(saves[s], k, configValue[k])
        /\ \A s, t \in Saves : Touches(saves[s], k) /\ Touches(saves[t], k) => s = t

CopiesAreKnown ==
    /\ DOMAIN configCache = ConfigKeys
    /\ \A k \in ConfigKeys : configCache[k] \in Known(k) \cup {Missing}

ReadsAreKnown ==
    \A r \in Reads :
        /\ reads[r].at # "idle" => reads[r].key \in ConfigKeys
        /\ reads[r].at = "fill" => reads[r].found \in Known(reads[r].key)

ConfigInv ==
    ConfigShape /\ ValueIsLast /\ RowsAreChained /\ SavesAreChained
    /\ CopiesAreKnown /\ ReadsAreKnown

-----------------------------------------------------------------------------
(* Lists: nothing, one row more, one list after another.                   *)
LEMMA EmptyList == IsList(<<>>) /\ Len(<<>>) = 0 /\ DOMAIN <<>> = {}
<1>1. <<>> \in Seq({})
  OBVIOUS
<1> QED BY <1>1 DEF IsList

(* The places of a list.                                                   *)
LEMMA ListIs ==
  ASSUME NEW h, IsList(h)
  PROVE  Len(h) \in Nat /\ DOMAIN h = 1..Len(h)
BY DEF IsList

(* What Append does.                                                       *)
LEMMA OneMore ==
  ASSUME NEW h, IsList(h), NEW e
  PROVE  /\ IsList(Append(h, e)) /\ Len(Append(h, e)) = Len(h) + 1
         /\ \A i \in 1..Len(h) : Append(h, e)[i] = h[i]
         /\ Append(h, e)[Len(h) + 1] = e
<1>1. PICK S : h \in Seq(S)
  BY DEF IsList
<1>2. h \in Seq(S \cup {e}) /\ e \in S \cup {e}
  BY <1>1
<1>3. Append(h, e) \in Seq(S \cup {e})
  BY <1>2
<1> QED BY <1>2, <1>3 DEF IsList

(* What \o does.                                                           *)
LEMMA Joined ==
  ASSUME NEW h, IsList(h), NEW g, IsList(g)
  PROVE  /\ IsList(h \o g) /\ Len(h \o g) = Len(h) + Len(g)
         /\ \A i \in 1..Len(h) : (h \o g)[i] = h[i]
         /\ \A i \in 1..Len(g) : (h \o g)[Len(h) + i] = g[i]
<1>1. PICK S : h \in Seq(S)
  BY DEF IsList
<1>2. PICK T : g \in Seq(T)
  BY DEF IsList
<1>3. h \in Seq(S \cup T) /\ g \in Seq(S \cup T)
  BY <1>1, <1>2
<1>4. h \o g \in Seq(S \cup T)
  BY <1>3
<1> QED BY <1>3, <1>4 DEF IsList

(* Leads looks at the first n rows only.                                   *)
LEMMA LeadsSame ==
  ASSUME NEW g, NEW h, NEW n \in Nat, NEW k, NEW b, NEW v, Leads(h, n, k, b, v),
         \A i \in 1..n : g[i] = h[i]
  PROVE  Leads(g, n, k, b, v)
BY DEF Leads

(* f begins with the first n rows of h and goes on with the first m of g.  *)
Follows(f, h, n, g, m) ==
    (\A i \in 1..n : f[i] = h[i]) /\ (\A i \in 1..m : f[n + i] = g[i])

(* One list after another leads on from where the first one ended.         *)
LEMMA LeadsOn ==
  ASSUME NEW f, NEW h, NEW g, NEW n \in Nat, NEW m \in Nat, NEW k, NEW b, NEW v, NEW w,
         Follows(f, h, n, g, m), Leads(h, n, k, b, v), Leads(g, m, k, v, w)
  PROVE  Leads(f, n + m, k, b, w)
<1>1. \A i \in 1..(n + m) : \/ i \in 1..n /\ f[i] = h[i]
                            \/ i - n \in 1..m /\ f[i] = g[i - n] /\ i = n + (i - n)
  BY DEF Follows
<1>2. CASE \E i \in 1..m : g[i].key = k
  <2>1. PICK i \in 1..m : g[i].key = k /\ g[i].new = w /\ \A j \in 1..m : g[j].key = k => j <= i
    BY <1>2 DEF Leads
  <2>2. n + i \in 1..(n + m) /\ f[n + i].key = k /\ f[n + i].new = w
    BY <2>1 DEF Follows
  <2>3. ASSUME NEW j \in 1..(n + m), f[j].key = k
        PROVE  j <= n + i
    BY <1>1, <2>1, <2>3
  <2> QED BY <2>2, <2>3 DEF Leads
<1>3. CASE \A i \in 1..m : g[i].key # k
  <2>1. v = w
    BY <1>3 DEF Leads
  <2>2. CASE \A i \in 1..n : h[i].key # k
    <3>1. v = b
      BY <2>2 DEF Leads
    <3>2. \A i \in 1..(n + m) : f[i].key # k
      BY <1>1, <1>3, <2>2
    <3> QED BY <2>1, <3>1, <3>2 DEF Leads
  <2>3. CASE \E i \in 1..n : h[i].key = k
    <3>1. PICK i \in 1..n : h[i].key = k /\ h[i].new = v /\ \A j \in 1..n : h[j].key = k => j <= i
      BY <2>3 DEF Leads
    <3>2. i \in 1..(n + m) /\ f[i].key = k /\ f[i].new = w
      BY <2>1, <3>1 DEF Follows
    <3>3. ASSUME NEW j \in 1..(n + m), f[j].key = k
          PROVE  j <= i
      BY <1>1, <1>3, <3>1, <3>3
    <3> QED BY <3>2, <3>3 DEF Leads
  <2> QED BY <2>2, <2>3
<1> QED BY <1>2, <1>3

(* What it leads to: the newest row of k.                                  *)
LEMMA LeadsToNewest ==
  ASSUME NEW h, NEW n \in Nat, NEW k, NEW b, NEW v, Leads(h, n, k, b, v)
  PROVE  v = LastNew(h, n, k, b)
<1> DEFINE I == {i \in 1..n : h[i].key = k}
<1>1. CASE I = {}
  BY <1>1 DEF Leads, LastNew
<1>2. CASE I # {}
  <2>1. PICK i \in 1..n : h[i].key = k /\ h[i].new = v /\ \A j \in 1..n : h[j].key = k => j <= i
    BY <1>2 DEF Leads
  <2>2. i \in I /\ \A j \in I : j <= i
    BY <2>1
  <2>3. Newest(I) \in I /\ \A j \in I : j <= Newest(I)
    BY <2>2 DEF Newest
  <2>4. Newest(I) = i
    <3>1. Newest(I) \in Int /\ Newest(I) <= i /\ i <= Newest(I)
      BY <2>2, <2>3
    <3> QED BY <3>1
  <2> QED BY <1>2, <2>1, <2>4 DEF LastNew
<1> QED BY <1>1, <1>2

(* And the value of the newest row is one it leads to.                     *)
LEMMA NewestLeads ==
  ASSUME NEW h, NEW n \in Nat, NEW k, NEW b
  PROVE  Leads(h, n, k, b, LastNew(h, n, k, b))
<1> DEFINE I == {i \in 1..n : h[i].key = k}
<1>1. CASE I = {}
  BY <1>1 DEF Leads, LastNew
<1>2. CASE I # {}
  <2>1. IsFiniteSet(I) /\ I \subseteq Int
    <3>1. IsFiniteSet(1..n)
      BY FS_Interval
    <3>2. I \subseteq 1..n
      OBVIOUS
    <3> HIDE DEF I
    <3>3. IsFiniteSet(I)
      BY <3>1, <3>2, FS_Subset
    <3>4. I \subseteq Int
      BY <3>2
    <3> QED BY <3>3, <3>4
  <2>2. PICK i \in I : \A j \in I : j <= i
    BY <1>2, <2>1, MaxOfFinite
  <2>3. Newest(I) \in I /\ \A j \in I : j <= Newest(I)
    BY <2>2 DEF Newest
  <2> HIDE DEF I
  <2>4. Newest(I) \in 1..n /\ h[Newest(I)].key = k
        /\ \A j \in 1..n : h[j].key = k => j <= Newest(I)
    BY <2>3 DEF I
  <2>5. Leads(h, n, k, b, h[Newest(I)].new)
    BY <2>4 DEF Leads
  <2> QED BY <1>2, <2>5 DEF I, LastNew
<1> QED BY <1>1, <1>2

-----------------------------------------------------------------------------
(* g is f, with x at s.                                                    *)
Becomes(g, f, s, x) ==
    DOMAIN g = DOMAIN f /\ \A t \in DOMAIN f : g[t] = IF t = s THEN x ELSE f[t]

(* The save s may become x.                                                *)
Fits(s, x) ==
    \A k \in ConfigKeys \ overlapped' :
        /\ SaveChained(x, k, configValue[k])
        /\ Touches(x, k) => \A t \in Saves \ {s} : ~Touches(saves[t], k)

(* There are no rows, copies or requests at first.                         *)
LEMMA ConfigInvInit == ConfigAssumption /\ ConfigInit => ConfigInv
<1> SUFFICES ASSUME ConfigAssumption, ConfigInit
             PROVE  ConfigInv
  OBVIOUS
<1>1. ConfigShape /\ CopiesAreKnown /\ ReadsAreKnown
  BY EmptyList DEF ConfigInit, ConfigShape, IsSave, IsRead, CopiesAreKnown, ReadsAreKnown
<1>2. ValueIsLast /\ RowsAreChained
  BY EmptyList DEF ConfigInit, ValueIsLast, RowsAreChained, Chained, Leads
<1>3. SavesAreChained
  <2>1. \A s \in Saves : /\ saves[s].rows = <<>> /\ saves[s].at = "idle"
                         /\ \A k \in ConfigKeys : saves[s].seen[k] = Unset
    BY DEF ConfigInit, NoneSeen
  <2> QED BY <2>1, EmptyList DEF SavesAreChained, SaveChained, Chained, Touches
<1> QED BY <1>1, <1>2, <1>3 DEF ConfigInv

(* Nothing is committed: what is known stays known.                        *)
LEMMA KnownStays ==
  ASSUME UNCHANGED configHistory
  PROVE  \A k : Known(k)' = Known(k)
BY DEF Known, RowsOf

(* So a step that leaves the copies alone keeps them right.                *)
LEMMA CopiesStay ==
  ASSUME ConfigInv, UNCHANGED <<configHistory, configCache>>
  PROVE  CopiesAreKnown'
BY KnownStays DEF ConfigInv, CopiesAreKnown

(* A step of one save before its commit.                                   *)
LEMMA SaveMoves ==
  ASSUME ConfigInv, UNCHANGED <<configValue, configHistory, reads>>, CopiesAreKnown',
         overlapped \subseteq overlapped', NEW s \in Saves, NEW x, IsSave(x),
         Becomes(saves', saves, s, x), Fits(s, x)
  PROVE  ConfigInv'
<1>1. DOMAIN saves' = Saves /\ \A t \in Saves : saves'[t] = IF t = s THEN x ELSE saves[t]
  BY DEF ConfigInv, ConfigShape, Becomes
<1>2. ConfigShape' /\ ValueIsLast'
  BY <1>1 DEF ConfigInv, ConfigShape, ValueIsLast
<1>3. RowsAreChained'
  BY DEF ConfigInv, RowsAreChained
<1>4. ReadsAreKnown'
  BY KnownStays DEF ConfigInv, ReadsAreKnown
<1>5. SavesAreChained'
  <2> SUFFICES ASSUME NEW k \in ConfigKeys \ overlapped'
               PROVE  /\ \A t \in Saves : SaveChained(saves'[t], k, configValue[k])
                      /\ \A t, u \in Saves :
                            Touches(saves'[t], k) /\ Touches(saves'[u], k) => t = u
    BY DEF SavesAreChained
  <2>1. /\ SaveChained(x, k, configValue[k])
        /\ Touches(x, k) => \A t \in Saves \ {s} : ~Touches(saves[t], k)
    BY DEF Fits
  <2>2. /\ \A t \in Saves : SaveChained(saves[t], k, configValue[k])
        /\ \A t, u \in Saves : Touches(saves[t], k) /\ Touches(saves[u], k) => t = u
    BY DEF ConfigInv, SavesAreChained
  <2> QED BY <1>1, <2>1, <2>2
<1> QED BY <1>2, <1>3, <1>4, <1>5 DEF ConfigInv

(* A step that leaves the rows of the save and what it has seen alone, or  *)
(* drops both.                                                             *)
LEMMA RowsLeft ==
  ASSUME ConfigInv, UNCHANGED overlapped, NEW s \in Saves, NEW x, x.at # "upsert",
         \/ x.rows = saves[s].rows /\ x.seen = saves[s].seen
         \/ x.rows = <<>> /\ x.seen = NoneSeen
  PROVE  Fits(s, x)
<1> SUFFICES ASSUME NEW k \in ConfigKeys \ overlapped
             PROVE  /\ SaveChained(x, k, configValue[k])
                    /\ Touches(x, k) => \A t \in Saves \ {s} : ~Touches(saves[t], k)
  BY DEF Fits
<1>1. /\ SaveChained(saves[s], k, configValue[k])
      /\ \A t \in Saves \ {s} : Touches(saves[s], k) => ~Touches(saves[t], k)
  BY DEF ConfigInv, SavesAreChained
<1>2. CASE x.rows = saves[s].rows /\ x.seen = saves[s].seen
  BY <1>1, <1>2 DEF SaveChained, Touches
<1>3. CASE x.rows = <<>> /\ x.seen = NoneSeen
  <2>1. x.seen[k] = Unset
    BY <1>3 DEF NoneSeen
  <2> QED BY <1>3, <2>1, EmptyList DEF SaveChained, Touches, Chained
<1> QED BY <1>2, <1>3

(* What a statement of a save sees is where its own rows lead to.          *)
LEMMA SeesLast ==
  ASSUME NEW s, IsList(saves[s].rows), NEW k
  PROVE  Leads(saves[s].rows, Len(saves[s].rows), k, configValue[k], Sees(s, k))
<1> DEFINE h == saves[s].rows
           I == {i \in 1..Len(h) : h[i].key = k}
           v == LastNew(h, Len(h), k, configValue[k])
<1>1. Len(h) \in Nat /\ DOMAIN h = 1..Len(h)
  BY ListIs
<1>2. Leads(h, Len(h), k, configValue[k], v)
  BY <1>1, NewestLeads
<1>3. Sees(s, k) = IF k \in Wrote(s) THEN h[Newest(I)].new ELSE configValue[k]
  BY <1>1 DEF Sees, Newest
<1>4. k \in Wrote(s) <=> I # {}
  BY <1>1 DEF Wrote
<1>5. Sees(s, k) = v
  <2>1. v = IF I = {} THEN configValue[k] ELSE h[Newest(I)].new
    BY DEF LastNew
  <2> HIDE DEF I, h, v
  <2> QED BY <1>3, <1>4, <2>1
<1> HIDE DEF v
<1> QED BY <1>2, <1>5

(* Touched, key by key.                                                    *)
LEMMA TouchedIs ==
  ASSUME NEW s, NEW k
  PROVE  k \in Touched(s) <=> Touches(saves[s], k)
BY DEF Touched, Touches, Wrote, Key

(* What the invariant says of one save.                                    *)
LEMMA SaveOf ==
  ASSUME ConfigInv, NEW s \in Saves
  PROVE  /\ IsSave(saves[s]) /\ IsList(saves[s].rows) /\ DOMAIN saves = Saves
         /\ DOMAIN saves[s] = {"at", "todo", "rows", "old", "seen"}
BY DEF ConfigInv, ConfigShape, IsSave

(* What an open save takes for the current value of a key that no other    *)
(* save has touched is where its own rows lead to.                         *)
LEMMA OldIsLast ==
  ASSUME ConfigInv, NEW s \in Saves, NEW k \in ConfigKeys, k = Key(s),
         SaveChained(saves[s], k, configValue[k])
  PROVE  Leads(saves[s].rows, Len(saves[s].rows), k, configValue[k], OldValue(s))
<1>1. CASE k \in Wrote(s) \/ saves[s].seen[k] = Unset
  BY <1>1, SaveOf, SeesLast DEF OldValue
<1>2. CASE k \notin Wrote(s) /\ saves[s].seen[k] # Unset
  <2>1. OldValue(s) = configValue[k] /\ Sees(s, k) = configValue[k]
    BY <1>2 DEF OldValue, SaveChained, Sees
  <2> QED BY <2>1, SaveOf, SeesLast
<1> QED BY <1>1, <1>2

(* A request begins: it has written nothing, has loaded what is committed, *)
(* and marks the keys it has loaded and another has touched.               *)
LEMMA BeginKeeps ==
  ASSUME ConfigInv, NEW s \in Saves, NEW changes, NEW loaded, Begin(s, changes, loaded)
  PROVE  ConfigInv'
<1> DEFINE at == IF changes = <<>> THEN "ended" ELSE "read"
           seen == [k \in ConfigKeys |-> IF k \in loaded THEN configValue[k] ELSE Unset]
           x == [saves[s] EXCEPT !.at = at, !.todo = changes, !.seen = seen]
<1>1. /\ saves' = [saves EXCEPT ![s] = x]
      /\ overlapped' = overlapped \cup
            {k \in ConfigKeys : seen[k] # Unset /\ \E t \in Saves \ {s} : k \in Touched(t)}
      /\ UNCHANGED <<configValue, configCache, configHistory, reads>>
  BY DEF Begin
<1>2. at # "upsert" /\ \A k \in ConfigKeys : seen[k] \in {Unset, configValue[k]}
  OBVIOUS
<1> HIDE DEF at, seen
<1>3. IsSave(x) /\ x.at = at /\ x.rows = saves[s].rows /\ x.seen = seen
  BY SaveOf DEF IsSave
<1> HIDE DEF x
<1>4. Becomes(saves', saves, s, x)
  BY <1>1, SaveOf DEF Becomes
<1>5. ASSUME NEW k \in ConfigKeys \ overlapped'
      PROVE  /\ SaveChained(x, k, configValue[k])
             /\ Touches(x, k) => \A t \in Saves \ {s} : ~Touches(saves[t], k)
  <2>1. k \notin overlapped
    BY <1>1
  <2>2. /\ SaveChained(saves[s], k, configValue[k])
        /\ \A t \in Saves \ {s} : Touches(saves[s], k) => ~Touches(saves[t], k)
    BY <2>1 DEF ConfigInv, SavesAreChained
  <2>3. seen[k] # Unset => \A t \in Saves \ {s} : ~Touches(saves[t], k)
    BY <1>1, TouchedIs
  <2>4. SaveChained(x, k, configValue[k])
    BY <1>2, <1>3, <2>2 DEF SaveChained
  <2> QED BY <1>2, <1>3, <2>2, <2>3, <2>4 DEF Touches
<1>6. Fits(s, x)
  BY <1>5 DEF Fits
<1>7. overlapped \subseteq overlapped'
  BY <1>1
<1> QED BY <1>1, <1>3, <1>4, <1>6, <1>7, CopiesStay, SaveMoves

(* It reads the old value of its next key, and marks the key as touched by *)
(* two if another has.                                                     *)
LEMMA ReadOldKeeps ==
  ASSUME ConfigInv, NEW s \in Saves, ReadOld(s)
  PROVE  ConfigInv'
<1> DEFINE x == [saves[s] EXCEPT !.at = "upsert", !.old = OldValue(s)]
<1>1. /\ saves' = [saves EXCEPT ![s] = x]
      /\ overlapped' = overlapped \cup {k \in {Key(s)} : \E t \in Saves \ {s} : k \in Touched(t)}
      /\ UNCHANGED <<configValue, configCache, configHistory, reads>>
  BY DEF ReadOld
<1>2. /\ IsSave(x) /\ x.at = "upsert" /\ x.rows = saves[s].rows /\ x.todo = saves[s].todo
      /\ x.old = OldValue(s) /\ x.seen = saves[s].seen
  BY SaveOf DEF IsSave
<1> HIDE DEF x
<1>3. Becomes(saves', saves, s, x)
  BY <1>1, SaveOf DEF Becomes
<1>4. ASSUME NEW k \in ConfigKeys \ overlapped'
      PROVE  /\ SaveChained(x, k, configValue[k])
             /\ Touches(x, k) => \A t \in Saves \ {s} : ~Touches(saves[t], k)
  <2>1. k \notin overlapped
    BY <1>1
  <2>2. /\ SaveChained(saves[s], k, configValue[k])
        /\ \A t \in Saves \ {s} : Touches(saves[s], k) => ~Touches(saves[t], k)
    BY <2>1 DEF ConfigInv, SavesAreChained
  <2>3. k = Key(s) => \A t \in Saves \ {s} : ~Touches(saves[t], k)
    BY <1>1, TouchedIs
  <2>4. k = Key(s) => Leads(saves[s].rows, Len(saves[s].rows), k, configValue[k], OldValue(s))
    BY <2>2, OldIsLast
  <2>5. SaveChained(x, k, configValue[k])
    BY <1>2, <2>2, <2>4 DEF SaveChained, Key
  <2> QED BY <1>2, <2>2, <2>3, <2>5 DEF Touches, Key
<1>5. Fits(s, x)
  BY <1>4 DEF Fits
<1>6. overlapped \subseteq overlapped'
  BY <1>1
<1> QED BY <1>1, <1>2, <1>3, <1>5, <1>6, CopiesStay, SaveMoves

(* It writes: its new row starts from what it read.                        *)
LEMMA UpsertKeeps ==
  ASSUME ConfigInv, NEW s \in Saves, Upsert(s)
  PROVE  ConfigInv'
<1> DEFINE e == [key |-> Key(s), old |-> saves[s].old, new |-> Head(saves[s].todo).value]
           h == saves[s].rows
           g == Append(h, e)
           x == [saves[s] EXCEPT !.at = "invalidate", !.rows = g]
<1>1. /\ saves' = [saves EXCEPT ![s] = x] /\ saves[s].at = "upsert"
      /\ UNCHANGED <<configValue, configCache, configHistory, reads, overlapped>>
  BY DEF Upsert
<1>2. e.key = Key(s) /\ e.old = saves[s].old
  OBVIOUS
<1> HIDE DEF e
<1>3. /\ Len(h) \in Nat /\ IsList(g) /\ Len(g) = Len(h) + 1 /\ DOMAIN h = 1..Len(h)
      /\ DOMAIN g = 1..Len(g)
      /\ \A i \in 1..Len(h) : g[i] = h[i]
      /\ g[Len(h) + 1] = e
  BY SaveOf, ListIs, OneMore
<1> HIDE DEF g
<1>4. IsSave(x) /\ x.at = "invalidate" /\ x.rows = g /\ x.seen = saves[s].seen
  BY <1>3, SaveOf DEF IsSave
<1> HIDE DEF x
<1>5. Becomes(saves', saves, s, x)
  BY <1>1, SaveOf DEF Becomes
<1>6. ASSUME NEW k \in ConfigKeys \ overlapped
      PROVE  /\ SaveChained(x, k, configValue[k])
             /\ Touches(x, k) => \A t \in Saves \ {s} : ~Touches(saves[t], k)
  <2>1. /\ SaveChained(saves[s], k, configValue[k])
        /\ \A t \in Saves \ {s} : Touches(saves[s], k) => ~Touches(saves[t], k)
    BY DEF ConfigInv, SavesAreChained
  <2>2. Chained(h, k, configValue[k])
        /\ (Key(s) = k => Leads(h, Len(h), k, configValue[k], saves[s].old))
    BY <1>1, <2>1 DEF SaveChained, Key
  <2>3. ASSUME NEW i \in 1..Len(g), g[i].key = k
        PROVE  Leads(g, i - 1, k, configValue[k], g[i].old)
    <3>1. i - 1 \in Nat /\ \A j \in 1..(i - 1) : g[j] = h[j]
      BY <1>3
    <3>2. CASE i \in 1..Len(h)
      <4>1. Leads(h, i - 1, k, configValue[k], g[i].old)
        BY <1>3, <2>2, <2>3, <3>2 DEF Chained
      <4> QED BY <3>1, <4>1, LeadsSame
    <3>3. CASE i = Len(h) + 1
      <4>1. Leads(h, i - 1, k, configValue[k], g[i].old)
        BY <1>2, <1>3, <2>2, <2>3, <3>3
      <4> QED BY <3>1, <4>1, LeadsSame
    <3> QED BY <1>3, <3>2, <3>3
  <2>4. SaveChained(x, k, configValue[k])
    BY <1>4, <2>1, <2>3 DEF SaveChained, Chained
  <2>5. Touches(x, k) => Touches(saves[s], k)
    <3> SUFFICES ASSUME Touches(x, k)
                 PROVE  Touches(saves[s], k)
      OBVIOUS
    <3>1. CASE saves[s].seen[k] # Unset
      BY <3>1 DEF Touches
    <3>2. CASE saves[s].seen[k] = Unset
      <4>1. PICK i \in DOMAIN g : g[i].key = k
        BY <1>4, <3>2 DEF Touches
      <4>2. CASE i \in 1..Len(h)
        BY <1>3, <4>1, <4>2 DEF Touches
      <4>3. CASE i = Len(h) + 1
        BY <1>1, <1>2, <1>3, <4>1, <4>3 DEF Touches, Key
      <4> QED BY <1>3, <4>1, <4>2, <4>3
    <3> QED BY <3>1, <3>2
  <2> QED BY <2>1, <2>4, <2>5
<1>7. Fits(s, x)
  BY <1>1, <1>6 DEF Fits
<1> QED BY <1>1, <1>4, <1>5, <1>7, CopiesStay, SaveMoves

(* The copy is deleted or Redis fails.                                     *)
LEMMA InvalidateKeeps ==
  ASSUME ConfigInv, NEW s \in Saves, Invalidate(s)
  PROVE  ConfigInv'
<1> DEFINE at == IF Len(saves[s].todo) = 1 THEN "commit" ELSE "read"
           x == [saves[s] EXCEPT !.at = at, !.todo = Tail(saves[s].todo)]
<1>1. /\ saves' = [saves EXCEPT ![s] = x]
      /\ configCache' = [configCache EXCEPT ![Key(s)] = Missing] \/ configCache' = configCache
      /\ UNCHANGED <<configValue, configHistory, reads, overlapped>>
  BY SaveOf DEF Invalidate
<1>2. at # "upsert"
  OBVIOUS
<1> HIDE DEF at
<1>3. IsSave(x) /\ x.at = at /\ x.rows = saves[s].rows /\ x.seen = saves[s].seen
  BY SaveOf DEF IsSave
<1> HIDE DEF x
<1>4. Becomes(saves', saves, s, x)
  BY <1>1, SaveOf DEF Becomes
<1>5. Fits(s, x)
  BY <1>1, <1>2, <1>3, RowsLeft
<1>6. CopiesAreKnown'
  <2>1. \A k : Known(k)' = Known(k)
    BY <1>1, KnownStays
  <2> QED BY <1>1, <2>1 DEF ConfigInv, CopiesAreKnown
<1> QED BY <1>1, <1>3, <1>4, <1>5, <1>6, SaveMoves

(* A request that dies or is aborted leaves nothing.                       *)
LEMMA AbortKeeps ==
  ASSUME ConfigInv, NEW s \in Saves, saves' = Ended(s),
         UNCHANGED <<configValue, configCache, configHistory, reads, overlapped>>
  PROVE  ConfigInv'
<1> DEFINE x == [saves[s] EXCEPT !.at = "ended", !.todo = <<>>, !.rows = <<>>, !.seen = NoneSeen]
<1>1. saves' = [saves EXCEPT ![s] = x]
  BY DEF Ended
<1>3. IsSave(x) /\ x.at = "ended" /\ x.rows = <<>> /\ x.seen = NoneSeen
  BY SaveOf, EmptyList DEF IsSave
<1> HIDE DEF x
<1>4. Becomes(saves', saves, s, x)
  BY <1>1, SaveOf DEF Becomes
<1>5. Fits(s, x)
  BY <1>3, RowsLeft
<1> QED BY <1>3, <1>4, <1>5, CopiesStay, SaveMoves

(* A commit adds the rows of the save to the history and sets the values   *)
(* they lead to.  Another save keeps its rows chained: it has not touched  *)
(* what this one wrote.                                                    *)
LEMMA CommitSaveKeeps ==
  ASSUME ConfigInv, NEW s \in Saves, CommitSave(s)
  PROVE  ConfigInv'
<1> DEFINE h == configHistory
           g == saves[s].rows
           f == h \o g
           x == [saves[s] EXCEPT !.at = "ended", !.todo = <<>>, !.rows = <<>>, !.seen = NoneSeen]
<1>1. /\ configValue' = [k \in ConfigKeys |-> Sees(s, k)]
      /\ configHistory' = f /\ saves' = [saves EXCEPT ![s] = x]
      /\ UNCHANGED <<configCache, reads, overlapped>>
  BY DEF CommitSave, Ended
<1>2. IsSave(x) /\ x.at = "ended" /\ x.rows = <<>> /\ x.seen = NoneSeen
  BY SaveOf, EmptyList DEF IsSave
<1> HIDE DEF x
<1>3. DOMAIN saves' = Saves /\ \A t \in Saves : saves'[t] = IF t = s THEN x ELSE saves[t]
  BY <1>1, SaveOf
<1>4. IsList(h) /\ IsList(g)
  BY SaveOf DEF ConfigInv, ConfigShape
<1>5. /\ IsList(f) /\ Len(f) = Len(h) + Len(g) /\ Len(h) \in Nat /\ Len(g) \in Nat
      /\ DOMAIN h = 1..Len(h) /\ DOMAIN g = 1..Len(g) /\ DOMAIN f = 1..Len(f)
      /\ \A i \in 1..Len(h) : f[i] = h[i]
      /\ \A i \in 1..Len(g) : f[Len(h) + i] = g[i]
  <2>1. IsList(f) /\ Len(f) = Len(h) + Len(g)
    BY <1>4, Joined
  <2>2. Len(h) \in Nat /\ DOMAIN h = 1..Len(h) /\ Len(g) \in Nat /\ DOMAIN g = 1..Len(g)
    BY <1>4, ListIs
  <2>3. /\ \A i \in 1..Len(h) : f[i] = h[i]
        /\ \A i \in 1..Len(g) : f[Len(h) + i] = g[i]
    BY <1>4, Joined
  <2> HIDE DEF f
  <2>4. DOMAIN f = 1..Len(f)
    BY <2>1, ListIs
  <2> QED BY <2>1, <2>2, <2>3, <2>4
<1> HIDE DEF f
<1>6. ConfigShape'
  BY <1>1, <1>2, <1>3, <1>5 DEF ConfigInv, ConfigShape
<1>7. \A k \in ConfigKeys : Leads(h, Len(h), k, Unset, configValue[k])
  BY DEF ConfigInv, ValueIsLast
<1>8. ValueIsLast'
  <2> SUFFICES ASSUME NEW k \in ConfigKeys
               PROVE  Leads(f, Len(f), k, Unset, configValue'[k])
    BY <1>1 DEF ValueIsLast
  <2>1. Leads(g, Len(g), k, configValue[k], configValue'[k])
    BY <1>1, <1>4, SeesLast
  <2>2. Follows(f, h, Len(h), g, Len(g))
    BY <1>5 DEF Follows
  <2> QED BY <1>5, <1>7, <2>1, <2>2, LeadsOn
<1>9. RowsAreChained'
  <2> SUFFICES ASSUME NEW k \in ConfigKeys \ overlapped, NEW i \in 1..Len(f), f[i].key = k
               PROVE  Leads(f, i - 1, k, Unset, f[i].old)
    BY <1>1 DEF RowsAreChained, Chained
  <2>1. Chained(h, k, Unset) /\ Chained(g, k, configValue[k])
    BY DEF ConfigInv, RowsAreChained, SavesAreChained, SaveChained
  <2>2. CASE i \in 1..Len(h)
    <3>1. i - 1 \in Nat /\ \A j \in 1..(i - 1) : f[j] = h[j]
      BY <1>5, <2>2
    <3>2. Leads(h, i - 1, k, Unset, f[i].old)
      BY <1>5, <2>1, <2>2 DEF Chained
    <3> QED BY <3>1, <3>2, LeadsSame
  <2>3. CASE i \notin 1..Len(h)
    <3> DEFINE m == i - Len(h) - 1
    <3>1. m \in Nat /\ m + 1 \in 1..Len(g) /\ i = Len(h) + (m + 1) /\ i - 1 = Len(h) + m
          /\ (m + 1) - 1 = m
      BY <1>5, <2>3
    <3> HIDE DEF m
    <3>2. f[i] = g[m + 1]
      BY <1>5, <3>1
    <3>3. Leads(g, (m + 1) - 1, k, configValue[k], g[m + 1].old)
      BY <2>1, <3>1, <3>2 DEF Chained
    <3>4. Leads(g, m, k, configValue[k], f[i].old)
      BY <3>1, <3>2, <3>3
    <3>5. Follows(f, h, Len(h), g, m)
      BY <1>5, <3>1 DEF Follows
    <3>6. Leads(f, Len(h) + m, k, Unset, f[i].old)
      BY <1>5, <1>7, <3>1, <3>4, <3>5, LeadsOn
    <3> QED BY <3>1, <3>6
  <2> QED BY <2>2, <2>3
<1>10. SavesAreChained'
  <2> SUFFICES ASSUME NEW k \in ConfigKeys \ overlapped
               PROVE  /\ \A t \in Saves : SaveChained(saves'[t], k, configValue'[k])
                      /\ \A t, u \in Saves :
                            Touches(saves'[t], k) /\ Touches(saves'[u], k) => t = u
    BY <1>1 DEF SavesAreChained
  <2>1. /\ \A t \in Saves : SaveChained(saves[t], k, configValue[k])
        /\ \A t, u \in Saves : Touches(saves[t], k) /\ Touches(saves[u], k) => t = u
    BY DEF ConfigInv, SavesAreChained
  <2>2. SaveChained(x, k, configValue'[k]) /\ ~Touches(x, k)
    BY <1>2, EmptyList DEF SaveChained, Chained, Touches, NoneSeen
  <2>3. ASSUME NEW t \in Saves, t # s
        PROVE  SaveChained(saves[t], k, configValue'[k])
    <3>1. CASE Touches(saves[s], k)
      <4>1. ~Touches(saves[t], k)
        BY <2>1, <2>3, <3>1
      <4>2. DOMAIN saves[t].rows = 1..Len(saves[t].rows)
        BY SaveOf, ListIs
      <4> QED BY <4>1, <4>2 DEF Touches, SaveChained, Chained
    <3>2. CASE ~Touches(saves[s], k)
      <4>1. configValue'[k] = configValue[k]
        BY <1>1, <3>2 DEF Sees, Wrote, Touches
      <4> QED BY <2>1, <4>1
    <3> QED BY <3>1, <3>2
  <2> QED BY <1>3, <2>1, <2>2, <2>3
<1>11. \A k : Known(k) \subseteq Known(k)'
  <2> SUFFICES ASSUME NEW k, NEW v \in Known(k)
               PROVE  v \in Known(k)'
    OBVIOUS
  <2>1. CASE v = Unset
    BY <2>1 DEF Known
  <2>2. CASE v # Unset
    <3>1. PICK i \in 1..Len(h) : h[i].key = k /\ v = h[i].new
      BY <1>5, <2>2 DEF Known, RowsOf
    <3>2. i \in DOMAIN f /\ f[i] = h[i]
      BY <1>5
    <3> QED BY <1>1, <3>1, <3>2 DEF Known, RowsOf
  <2> QED BY <2>1, <2>2
<1>12. CopiesAreKnown' /\ ReadsAreKnown'
  BY <1>1, <1>11 DEF ConfigInv, CopiesAreKnown, ReadsAreKnown
<1> QED BY <1>6, <1>8, <1>9, <1>10, <1>12 DEF ConfigInv

(* Readers and the clock: only the copies and the reads change.            *)
LEMMA ReadersKeep ==
  ASSUME ConfigInv, UNCHANGED <<configValue, configHistory, saves, overlapped>>,
         CopiesAreKnown', ReadsAreKnown', DOMAIN reads' = Reads,
         \A r \in Reads : IsRead(reads'[r])
  PROVE  ConfigInv'
BY DEF ConfigInv, ConfigShape, ValueIsLast, RowsAreChained, SavesAreChained

(* The stored value of a key was committed for it.                         *)
LEMMA ValueIsKnown ==
  ASSUME ConfigInv, NEW k \in ConfigKeys
  PROVE  configValue[k] \in Known(k)
<1>1. Leads(configHistory, Len(configHistory), k, Unset, configValue[k])
      /\ IsList(configHistory)
  BY DEF ConfigInv, ValueIsLast, ConfigShape
<1>2. DOMAIN configHistory = 1..Len(configHistory)
  BY <1>1, ListIs
<1> QED BY <1>1, <1>2 DEF Leads, Known, RowsOf

(* A read of one key: from the copy, from the table, back into the copy.   *)
LEMMA ReadKeeps ==
  ASSUME ConfigInv, NEW r \in Reads,
         (\E k \in ConfigKeys : GetCached(r, k)) \/ ReadStep(r)
  PROVE  ConfigInv'
<1>0. /\ DOMAIN reads = Reads /\ IsRead(reads[r]) /\ \A q \in Reads : IsRead(reads[q])
      /\ CopiesAreKnown /\ ReadsAreKnown
  BY DEF ConfigInv, ConfigShape
<1>1. CASE \E k \in ConfigKeys : GetCached(r, k)
  <2>1. PICK k \in ConfigKeys : GetCached(r, k)
    BY <1>1
  <2>2. PICK x : /\ reads' = [reads EXCEPT ![r] = x] /\ IsRead(x)
                 /\ x.key = k /\ x.at \in {"ended", "select"}
    <3>1. \E at \in {"ended", "select"} : \E v :
            reads' = [reads EXCEPT ![r] = [at |-> at, key |-> k, found |-> v]]
      <4>1. CASE reads' = [reads EXCEPT ![r] = [at |-> "ended", key |-> k, found |-> configCache[k]]]
        BY <4>1
      <4>2. CASE reads' = [reads EXCEPT ![r] = [at |-> "select", key |-> k, found |-> Unset]]
        BY <4>2
      <4> QED BY <2>1, <4>1, <4>2 DEF GetCached
    <3>2. PICK at \in {"ended", "select"} : \E v :
            reads' = [reads EXCEPT ![r] = [at |-> at, key |-> k, found |-> v]]
      BY <3>1
    <3>2a. PICK v : reads' = [reads EXCEPT ![r] = [at |-> at, key |-> k, found |-> v]]
      BY <3>2
    <3> DEFINE x == [at |-> at, key |-> k, found |-> v]
    <3>3. IsRead(x) /\ x.key = k /\ x.at \in {"ended", "select"}
      BY <3>2 DEF IsRead
    <3>4. reads' = [reads EXCEPT ![r] = x]
      BY <3>2a
    <3> HIDE DEF x
    <3> QED BY <3>3, <3>4
  <2>3. UNCHANGED <<configValue, configCache, configHistory, saves, overlapped>>
    BY <2>1 DEF GetCached
  <2>4. ReadsAreKnown'
    BY <1>0, <2>2, <2>3, KnownStays DEF ReadsAreKnown
  <2> QED BY <1>0, <2>2, <2>3, <2>4, CopiesStay, ReadersKeep
<1>2. CASE SelectStored(r)
  <2> DEFINE x == [reads[r] EXCEPT !.at = "fill", !.found = configValue[reads[r].key]]
  <2>1. /\ reads[r].at = "select" /\ reads' = [reads EXCEPT ![r] = x]
        /\ UNCHANGED <<configValue, configCache, configHistory, saves, overlapped>>
    BY <1>2 DEF SelectStored
  <2>2. IsRead(x) /\ x.key = reads[r].key /\ x.found = configValue[x.key]
    BY <1>0 DEF IsRead
  <2>3. x.key \in ConfigKeys /\ x.found \in Known(x.key)
    BY <1>0, <2>1, <2>2, ValueIsKnown DEF ReadsAreKnown
  <2> HIDE DEF x
  <2>4. ReadsAreKnown'
    BY <1>0, <2>1, <2>3, KnownStays DEF ReadsAreKnown
  <2> QED BY <1>0, <2>1, <2>2, <2>4, CopiesStay, ReadersKeep
<1>3. CASE FillCache(r)
  <2> DEFINE x == [reads[r] EXCEPT !.at = "ended"]
  <2>1. /\ reads[r].at = "fill" /\ reads' = [reads EXCEPT ![r] = x]
        /\ \/ configCache' = [configCache EXCEPT ![reads[r].key] = reads[r].found]
           \/ configCache' = configCache
        /\ UNCHANGED <<configValue, configHistory, saves, overlapped>>
    BY <1>3 DEF FillCache
  <2>2. IsRead(x) /\ x.key = reads[r].key /\ x.at = "ended"
    BY <1>0 DEF IsRead
  <2>3. reads[r].key \in ConfigKeys /\ reads[r].found \in Known(reads[r].key)
    BY <1>0, <2>1 DEF ReadsAreKnown
  <2> HIDE DEF x
  <2>4. \A k : Known(k)' = Known(k)
    BY <2>1, KnownStays
  <2>5. CopiesAreKnown'
    BY <1>0, <2>1, <2>3, <2>4 DEF CopiesAreKnown
  <2>6. ReadsAreKnown'
    BY <1>0, <2>1, <2>2, <2>3, <2>4 DEF ReadsAreKnown
  <2> QED BY <1>0, <2>1, <2>2, <2>5, <2>6, ReadersKeep
<1> QED BY <1>1, <1>2, <1>3 DEF ReadStep

(* Every step keeps it.                                                    *)
LEMMA ConfigInvStep ==
  ASSUME ConfigInv, [ConfigNext]_configVars
  PROVE  ConfigInv'
<1>1. ASSUME NEW s \in Saves, \/ BeginPut(s) \/ BeginImport(s) \/ PreviewImport(s) \/ BeginRevert(s)
                             \/ SaveStep(s) \/ AbortSave(s)
      PROVE  ConfigInv'
  <2>1. CASE BeginPut(s) \/ BeginImport(s) \/ PreviewImport(s) \/ BeginRevert(s)
    BY <2>1, BeginKeeps DEF BeginPut, BeginImport, PreviewImport, BeginRevert
  <2>2. CASE ReadOld(s) \/ Upsert(s) \/ Invalidate(s) \/ CommitSave(s)
    BY <2>2, ReadOldKeeps, UpsertKeeps, InvalidateKeeps, CommitSaveKeeps
  <2>3. CASE BreakDeadlock(s) \/ AbortSave(s)
    BY <2>3, AbortKeeps DEF BreakDeadlock, AbortSave
  <2> QED BY <1>1, <2>1, <2>2, <2>3 DEF SaveStep
<1>2. ASSUME NEW r \in Reads, (\E k \in ConfigKeys : GetCached(r, k)) \/ ReadStep(r)
      PROVE  ConfigInv'
  BY <1>2, ReadKeeps
<1>3. ASSUME NEW k \in ConfigKeys, ExpireCopy(k)
      PROVE  ConfigInv'
  <2>1. /\ configCache' = [configCache EXCEPT ![k] = Missing]
        /\ UNCHANGED <<configValue, configHistory, saves, reads, overlapped>>
    BY <1>3 DEF ExpireCopy
  <2>2. \A j : Known(j)' = Known(j)
    BY <2>1, KnownStays
  <2>3. CopiesAreKnown' /\ ReadsAreKnown'
    BY <2>1, <2>2 DEF ConfigInv, CopiesAreKnown, ReadsAreKnown
  <2> QED BY <2>1, <2>3, ReadersKeep DEF ConfigInv, ConfigShape
<1>4. CASE UNCHANGED configVars
  <2>1. UNCHANGED <<configValue, configCache, configHistory, saves, reads, overlapped>>
    BY <1>4 DEF configVars
  <2>2. ReadsAreKnown'
    BY <2>1, KnownStays DEF ConfigInv, ReadsAreKnown
  <2> QED BY <2>1, <2>2, CopiesStay, ReadersKeep DEF ConfigInv, ConfigShape
<1> QED BY <1>1, <1>2, <1>3, <1>4 DEF ConfigNext

(* The value of a key is what its newest row says, a row starts from where *)
(* the one before it ended unless two open saves had both read the key (an *)
(* import reads at its start and keeps what it read), and a copy in Redis  *)
(* was committed once: for any keys, files, number of overlapping saves    *)
(* and reads, deadlocks and faults (upsert_setting writes the value and    *)
(* its row in one transaction).                                            *)
THEOREM HistoryExplainsTheStore == ConfigSpec => []HistoryExplainsConfig
<1>1. ConfigInit => ConfigInv
  BY ConfigAssumption, ConfigInvInit
<1>2. ConfigInv /\ [ConfigNext]_configVars => ConfigInv'
  BY ConfigInvStep
<1>3. ConfigInv => HistoryExplainsConfig
  <2> SUFFICES ASSUME ConfigInv
               PROVE  HistoryExplainsConfig
    OBVIOUS
  <2> DEFINE h == configHistory
  <2>1. Len(h) \in Nat /\ DOMAIN h = 1..Len(h)
    BY ListIs DEF ConfigInv, ConfigShape
  <2>3. ValueIsNewestRow
    <3> SUFFICES ASSUME NEW k \in ConfigKeys
                 PROVE  configValue[k] = IF RowsOf(k) = {} THEN Unset ELSE h[Newest(RowsOf(k))].new
      BY DEF ValueIsNewestRow
    <3>1. configValue[k] = LastNew(h, Len(h), k, Unset)
      BY <2>1, LeadsToNewest DEF ConfigInv, ValueIsLast
    <3>2. RowsOf(k) = {i \in 1..Len(h) : h[i].key = k}
      BY <2>1 DEF RowsOf
    <3> QED BY <3>1, <3>2 DEF LastNew
  <2>4. HistoryIsChain
    <3> SUFFICES ASSUME NEW k \in ConfigKeys \ overlapped, NEW i \in RowsOf(k)
                 PROVE  h[i].old = IF {j \in RowsOf(k) : j < i} = {} THEN Unset
                                   ELSE h[Newest({j \in RowsOf(k) : j < i})].new
      BY DEF HistoryIsChain
    <3>1. i \in 1..Len(h) /\ h[i].key = k /\ i - 1 \in Nat
      BY <2>1 DEF RowsOf
    <3>2. Leads(h, i - 1, k, Unset, h[i].old)
      BY <3>1 DEF ConfigInv, RowsAreChained, Chained
    <3>3. h[i].old = LastNew(h, i - 1, k, Unset)
      BY <3>1, <3>2, LeadsToNewest
    <3>4. {j \in RowsOf(k) : j < i} = {j \in 1..(i - 1) : h[j].key = k}
      BY <2>1, <3>1 DEF RowsOf
    <3> QED BY <3>3, <3>4 DEF LastNew
  <2>5. CopiesWereCommitted
    BY DEF ConfigInv, CopiesAreKnown, Known, CopiesWereCommitted
  <2> QED BY <2>3, <2>4, <2>5 DEF HistoryExplainsConfig
<1> QED BY <1>1, <1>2, <1>3, PTL DEF ConfigSpec

-----------------------------------------------------------------------------

-----------------------------------------------------------------------------
(***************************************************************************)
(* PluginRun: the status of a run is true of the child, for any number of  *)
(* calls and kills.  While the parent is in its loop, what the child has   *)
(* come to and what it has told agree; once it is out of it, the answer or *)
(* the state of the child that it left the loop with decides.              *)
(***************************************************************************)
(* What the child has told so far, received or still in the pipe: nothing, *)
(* that it is up, or that and one message m.                               *)
Nothing == ~sandbox.bootstrapped /\ pipe.sent = <<>>
UpOnly  == \/ sandbox.bootstrapped /\ pipe.sent = <<>>
           \/ ~sandbox.bootstrapped /\ pipe.sent = <<Hello>>
Told(m) == \/ sandbox.bootstrapped /\ pipe.sent = <<m>>
           \/ ~sandbox.bootstrapped /\ pipe.sent = <<Hello, m>>

(* An answer of the child; a checked matrix comes of code that ran.        *)
Answered == \E m \in AnswerOf : Told(m) /\ (m.status = "ok" => child.ran)

(* What it has told fits what it did.                                      *)
ToldFits ==
    /\ child.at = "starting" => Nothing /\ ~child.ran
    /\ child.at \in {"ready", "confined"} => UpOnly
    /\ child.at = "running" => UpOnly /\ child.ran
    /\ child.at = "done" => Answered
    /\ child.at = "leaving" => (Nothing /\ ~child.ran) \/ Answered
    /\ child.at = "dead" =>
          \/ Nothing /\ ~child.ran
          \/ Answered
          \/ child.exit = "killed" /\ (UpOnly \/ Told(Torn))
    /\ pipe.closed => child.at \in {"leaving", "dead"}
    /\ child.at # "none"

TookAnswer ==
    /\ sandbox.payload \in AnswerOf /\ sandbox.bootstrapped
    /\ sandbox.payload.status = "ok" => child.ran

(* A loop that ended in time without an answer: the child is going or      *)
(* gone, and one that ran was killed.                                      *)
NoneCame ==
    /\ child.at \in {"leaving", "dead"}
    /\ child.ran => sandbox.bootstrapped /\ child.at = "dead" /\ child.exit = "killed"

Reported ==
    \/ TookAnswer /\ sandbox.status = sandbox.payload.status
    \/ /\ sandbox.payload = NoResult /\ sandbox.status = "raised"
       /\ child.at = "dead" /\ child.exit = "killed"
    \/ /\ sandbox.payload = NoResult /\ ~Alive
       /\ sandbox.status \in {"sandbox_unavailable", "timeout", "sandbox_bootstrap_failed",
                              "memory", "error"}
       /\ sandbox.status = "sandbox_bootstrap_failed" => ~child.ran \/ sandbox.late
       /\ sandbox.status = "memory" => sandbox.bootstrapped
       /\ child.exit = "code" => ~child.ran \/ sandbox.late

PluginShape ==
    /\ DOMAIN sandbox = {"at", "late", "bootstrapped", "payload", "status"}
    /\ DOMAIN child = {"at", "exit", "ran"} /\ DOMAIN pipe = {"sent", "closed"}
    /\ sandbox.at \in {"idle", "polling", "checking", "judging", "returned"}
    /\ child.at \in {"none", "starting", "ready", "confined", "running", "done", "leaving", "dead"}

PluginInv ==
    /\ PluginShape
    /\ ~capable => child = NoChild /\ sandbox.at \in {"idle", "returned"}
    /\ sandbox.at \in {"polling", "checking"} => ToldFits /\ sandbox.payload = NoResult
    /\ sandbox.at = "judging" =>
          \/ TookAnswer
          \/ sandbox.payload = NoResult /\ (sandbox.late \/ NoneCame)
    /\ sandbox.at = "returned" => Reported

-----------------------------------------------------------------------------
(* What an answer is not.                                                  *)
LEMMA AnswersAre ==
  ASSUME NEW m \in AnswerOf
  PROVE  /\ m # Hello /\ m # Torn /\ m # NoResult
         /\ m.status \notin {"none", "hello", "torn", "raised", "sandbox_bootstrap_failed"}
         /\ m.status = "ok" => m.output = "valid"
BY DEF AnswerOf, Hello, Torn, NoResult, Validated, Outputs

(* At first nobody runs.                                                   *)
LEMMA PluginInvInit == PluginInit => PluginInv
BY DEF PluginInit, PluginInv, PluginShape, IdleParent, NoChild

(* One message more, and one less.                                         *)
LEMMA OneMessage ==
  ASSUME NEW m, NEW n
  PROVE  /\ Append(<<>>, m) = <<m>> /\ Append(<<m>>, n) = <<m, n>>
         /\ <<m>> # <<>> /\ <<m, n>> # <<>>
         /\ Head(<<m>>) = m /\ Tail(<<m>>) = <<>>
         /\ Head(<<m, n>>) = m /\ Tail(<<m, n>>) = <<n>>
<1>1. <<m>> \in Seq({m, n}) /\ <<>> \in Seq({m, n}) /\ <<m, n>> \in Seq({m, n})
  OBVIOUS
<1>2. Append(<<>>, m) = <<m>>
  OBVIOUS
<1>3. Append(<<m>>, n) = <<m, n>>
  <2> DEFINE a == Append(<<m>>, n)
             b == <<m, n>>
  <2>1. a \in Seq({m, n}) /\ Len(a) = 2 /\ a[1] = m /\ a[2] = n
    BY <1>1
  <2>2. b \in Seq({m, n}) /\ Len(b) = 2 /\ b[1] = m /\ b[2] = n
    BY <1>1
  <2> HIDE DEF a, b
  <2>3. \A i \in 1..2 : a[i] = b[i]
    BY <2>1, <2>2
  <2>4. a = b
    BY <2>1, <2>2, <2>3, SeqEqual
  <2> QED BY <2>4 DEF a, b
<1>4. <<m>> # <<>> /\ <<m, n>> # <<>>
  OBVIOUS
<1>5. Head(<<m>>) = m /\ Head(<<m, n>>) = m
  OBVIOUS
<1>6. Tail(<<m>>) = <<>>
  OBVIOUS
<1>7. Tail(<<m, n>>) = <<n>>
  OBVIOUS
<1> QED BY <1>2, <1>3, <1>4, <1>5, <1>6, <1>7

(* The last message that is not the report.                                *)
LEMMA LastAnswer ==
  ASSUME NEW s, NEW m, m # Hello
  PROVE  LET answers == {i \in DOMAIN s : s[i] # Hello}
         IN /\ s = <<>> \/ s = <<Hello>> => answers = {}
            /\ s = <<m>> => answers = {1} /\ s[Max(answers)] = m
            /\ s = <<Hello, m>> => answers = {2} /\ s[Max(answers)] = m
<1> DEFINE answers == {i \in DOMAIN s : s[i] # Hello}
<1>1. Max({1}) = 1 /\ Max({2}) = 2
  BY DEF Max
<1>2. s = <<>> \/ s = <<Hello>> => answers = {}
  OBVIOUS
<1>3. s = <<m>> => answers = {1} /\ s[1] = m
  OBVIOUS
<1>4. s = <<Hello, m>> => answers = {2} /\ s[2] = m
  OBVIOUS
<1> QED BY <1>1, <1>2, <1>3, <1>4

-----------------------------------------------------------------------------
(* The child's steps.  It comes back from nowhere and undoes nothing.      *)
LEMMA ChildOnly ==
  ASSUME PluginShape, ChildStep
  PROVE  /\ UNCHANGED <<capable, sandbox>> /\ PluginShape'
         /\ child.at \notin {"none", "dead"}
         /\ child.ran => child'.ran
         /\ child.at = "leaving" => child'.at = "dead" /\ child'.ran = child.ran
BY DEF ChildStep, ChildReports, BootstrapFails, Confine, RunSource, SendAnswer, CloseEnd, Exit,
       Killed, ByChild, ChildIs, Send, PluginShape

(* After the parent's loop the child changes nothing that was reported.    *)
LEMMA ChildAfterLoop ==
  ASSUME PluginShape, ChildStep
  PROVE  /\ TookAnswer => TookAnswer'
         /\ NoneCame => NoneCame'
         /\ Reported => Reported'
<1>1. TookAnswer => TookAnswer'
  BY ChildOnly DEF TookAnswer
<1>2. NoneCame => NoneCame'
  BY ChildOnly DEF NoneCame
<1>3. Reported => Reported'
  BY <1>1, ChildOnly DEF Reported, Alive
<1> QED BY <1>1, <1>2, <1>3

(* Of a child in its loop's sight: what it sends fits what it does.        *)
LEMMA ChildTells ==
  ASSUME PluginShape, ToldFits, ChildStep
  PROVE  ToldFits'
<1>0. DOMAIN child = {"at", "exit", "ran"} /\ DOMAIN pipe = {"sent", "closed"}
      /\ UNCHANGED sandbox
  BY ChildOnly DEF PluginShape
<1>1. CASE ChildReports
  <2>1. child.at = "starting" /\ child'.at = "ready" /\ pipe'.sent = Append(pipe.sent, Hello)
        /\ pipe'.closed = pipe.closed
    BY <1>0, <1>1 DEF ChildReports, Send, ChildIs
  <2>2. Nothing /\ ~pipe.closed
    BY <2>1 DEF ToldFits
  <2>3. UpOnly'
    BY <1>0, <2>1, <2>2, OneMessage DEF Nothing, UpOnly
  <2> QED BY <2>1, <2>2, <2>3 DEF ToldFits
<1>2. CASE BootstrapFails
  <2>1. child.at = "starting" /\ child'.at = "leaving" /\ child'.ran = child.ran
        /\ pipe'.sent = pipe.sent
    BY <1>0, <1>2 DEF BootstrapFails, ChildIs
  <2>2. Nothing' /\ ~child'.ran
    BY <1>0, <2>1 DEF ToldFits, Nothing
  <2> QED BY <2>1, <2>2 DEF ToldFits
<1>3. ASSUME UpOnly, NEW m, pipe'.sent = Append(pipe.sent, m)
      PROVE  Told(m)'
  BY <1>0, <1>3, OneMessage DEF UpOnly, Told
<1>4. CASE Confine \/ SendAnswer
  <2>1. CASE Confine /\ child'.at = "confined"
    <3>1. child.at = "ready" /\ UNCHANGED pipe
      BY <1>0, <2>1 DEF Confine, ChildIs
    <3> QED BY <1>0, <2>1, <3>1 DEF ToldFits, UpOnly
  <2>2. CASE (Confine /\ child'.at # "confined") \/ SendAnswer
    <3>1. PICK m \in AnswerOf : /\ pipe'.sent = Append(pipe.sent, m)
                                /\ m.status = "ok" => child.ran
      <4>1. CASE SendAnswer
        <5>1. child.ran
          BY <4>1 DEF SendAnswer, ToldFits
        <5> QED BY <1>0, <4>1, <5>1 DEF SendAnswer, Send
      <4>2. CASE Confine /\ child'.at # "confined"
        <5>1. PICK t \in {"rejected_import", "error"} :
                pipe'.sent = Append(pipe.sent, [status |-> t, output |-> "none"])
          BY <1>0, <4>2 DEF Confine, Send, ChildIs
        <5>2. [status |-> t, output |-> "none"] \in AnswerOf
          BY DEF AnswerOf
        <5> QED BY <5>1, <5>2
      <4> QED BY <2>2, <4>1, <4>2
    <3>2. /\ child.at \in {"ready", "running"} /\ child'.at = "done" /\ child'.ran = child.ran
          /\ pipe'.closed = pipe.closed
      BY <1>0, <2>2 DEF Confine, SendAnswer, Send, ChildIs
    <3>3. UpOnly /\ ~pipe.closed
      BY <3>2 DEF ToldFits
    <3>4. Answered'
      <4>1. Told(m)'
        BY <1>3, <3>1, <3>3
      <4>2. m.status = "ok" => child'.ran
        BY <3>1, <3>2
      <4> QED BY <4>1, <4>2 DEF Answered
    <3> QED BY <3>2, <3>3, <3>4 DEF ToldFits
  <2> QED BY <1>4, <2>1, <2>2
<1>5. CASE RunSource
  <2>1. child.at = "confined" /\ child'.at = "running" /\ child'.ran /\ UNCHANGED pipe
    BY <1>0, <1>5 DEF RunSource
  <2> QED BY <1>0, <2>1 DEF ToldFits, UpOnly
<1>6. CASE CloseEnd
  <2>1. child.at = "done" /\ child'.at = "leaving" /\ child'.ran = child.ran
        /\ pipe'.sent = pipe.sent
    BY <1>0, <1>6 DEF CloseEnd, ChildIs
  <2>2. Answered'
    BY <1>0, <2>1 DEF ToldFits, Answered, Told
  <2> QED BY <2>1, <2>2 DEF ToldFits
<1>7. CASE Exit
  <2>1. child.at = "leaving" /\ child'.at = "dead" /\ child'.ran = child.ran /\ UNCHANGED pipe
    BY <1>0, <1>7 DEF Exit
  <2>2. (Nothing' /\ ~child'.ran) \/ Answered'
    BY <1>0, <2>1 DEF ToldFits, Answered, Told, Nothing
  <2> QED BY <2>1, <2>2 DEF ToldFits
<1>8. CASE Killed
  <2>1. /\ child.at \in {"starting", "ready", "confined", "running", "done"}
        /\ child'.at = "dead" /\ child'.exit = "killed" /\ child'.ran = child.ran
        /\ \/ pipe'.sent = pipe.sent
           \/ child.at = "running" /\ pipe'.sent = Append(pipe.sent, Torn)
    BY <1>0, <1>8 DEF Killed
  <2>2. CASE pipe'.sent = pipe.sent
    <3>1. (Nothing' /\ ~child'.ran) \/ Answered' \/ UpOnly'
      BY <1>0, <2>1, <2>2 DEF ToldFits, Answered, Told, Nothing, UpOnly
    <3> QED BY <2>1, <3>1 DEF ToldFits
  <2>3. CASE child.at = "running" /\ pipe'.sent = Append(pipe.sent, Torn)
    <3>1. UpOnly
      BY <2>3 DEF ToldFits
    <3> QED BY <1>3, <2>1, <2>3, <3>1 DEF ToldFits
  <2> QED BY <2>1, <2>2, <2>3
<1> QED BY <1>1, <1>2, <1>4, <1>5, <1>6, <1>7, <1>8 DEF ChildStep

(* So its steps keep the invariant.                                        *)
LEMMA ChildKeeps ==
  ASSUME PluginInv, ChildStep
  PROVE  PluginInv'
<1>1. PluginShape /\ UNCHANGED <<capable, sandbox>> /\ PluginShape' /\ child.at # "none"
  BY ChildOnly DEF PluginInv
<1>2. ~capable => FALSE
  BY <1>1 DEF PluginInv, NoChild
<1>3. sandbox.at \in {"polling", "checking"} => ToldFits'
  BY <1>1, ChildTells DEF PluginInv
<1>4. sandbox.at = "judging" => \/ TookAnswer'
                                \/ sandbox.payload = NoResult /\ (sandbox.late \/ NoneCame')
  <2>1. ASSUME sandbox.at = "judging"
        PROVE  TookAnswer \/ (sandbox.payload = NoResult /\ (sandbox.late \/ NoneCame))
    BY <2>1 DEF PluginInv
  <2>2. (TookAnswer => TookAnswer') /\ (NoneCame => NoneCame')
    BY <1>1, ChildAfterLoop
  <2> QED BY <2>1, <2>2
<1>5. sandbox.at = "returned" => Reported'
  BY <1>1, ChildAfterLoop DEF PluginInv
<1> QED BY <1>1, <1>2, <1>3, <1>4, <1>5 DEF PluginInv

-----------------------------------------------------------------------------
(* The parent's steps.                                                     *)
LEMMA StartsKeep ==
  ASSUME PluginInv, Refuse \/ Spawn
  PROVE  PluginInv'
<1>1. CASE Refuse
  <2>1. /\ sandbox' = [IdleParent EXCEPT !.at = "returned", !.status = "sandbox_unavailable"]
        /\ ~capable /\ UNCHANGED <<capable, child, pipe>>
    BY <1>1 DEF Refuse, Parent
  <2>2. child = NoChild
    BY <2>1 DEF PluginInv
  <2> QED BY <2>1, <2>2 DEF PluginInv, PluginShape, IdleParent, NoChild, Reported, Alive
<1>2. CASE Spawn
  <2>1. /\ sandbox' = [IdleParent EXCEPT !.at = "polling"] /\ child' = [NoChild EXCEPT !.at = "starting"]
        /\ pipe' = [sent |-> <<>>, closed |-> FALSE] /\ capable /\ UNCHANGED capable
    BY <1>2 DEF Spawn, Parent
  <2> QED BY <2>1 DEF PluginInv, PluginShape, IdleParent, NoChild, ToldFits, Nothing
<1> QED BY <1>1, <1>2

(* In the loop nothing changes but what was received.                      *)
LEMMA LoopKeeps ==
  ASSUME PluginInv, DeadlinePasses \/ PollEmpty \/ (CheckAlive /\ Alive)
  PROVE  PluginInv'
<1>0. PluginShape /\ (sandbox.at \in {"polling", "checking"} => ToldFits /\ sandbox.payload = NoResult)
      /\ (~capable => child = NoChild /\ sandbox.at \in {"idle", "returned"})
  BY DEF PluginInv
<1>1. /\ sandbox.at \in {"polling", "checking"} /\ sandbox'.at \in {"polling", "checking"}
      /\ sandbox'.payload = sandbox.payload /\ sandbox'.bootstrapped = sandbox.bootstrapped
      /\ DOMAIN sandbox' = DOMAIN sandbox
      /\ UNCHANGED <<capable, child, pipe>>
  BY <1>0 DEF DeadlinePasses, PollEmpty, CheckAlive, Parent, ByParent, PluginShape
<1>2. ToldFits'
  BY <1>0, <1>1 DEF ToldFits, Nothing, UpOnly, Answered, Told
<1>3. PluginShape'
  BY <1>0, <1>1 DEF PluginShape
<1> QED BY <1>0, <1>1, <1>2, <1>3 DEF PluginInv

(* The loop ends: with an answer, with a message cut short, or with none.  *)
EndsWell ==
    /\ UNCHANGED <<capable, child>> /\ PluginShape' /\ capable
    /\ \/ sandbox'.at = "judging" /\ TookAnswer'
       \/ sandbox'.at = "judging" /\ sandbox'.payload = NoResult /\ (sandbox'.late \/ NoneCame')
       \/ /\ sandbox'.at = "returned" /\ sandbox'.payload = NoResult /\ sandbox'.status = "raised"
          /\ child.at = "dead" /\ child.exit = "killed"

(* However the loop ends so, the invariant holds.                          *)
LEMMA EndKeeps ==
  ASSUME PluginInv, EndsWell
  PROVE  PluginInv'
BY DEF EndsWell, PluginInv, Reported

(* What the child has told in its loop's sight is one of these.            *)
LEMMA ToldIs ==
  ASSUME PluginShape, ToldFits
  PROVE  \/ Nothing \/ UpOnly \/ Answered
         \/ Told(Torn) /\ child.at = "dead" /\ child.exit = "killed"
BY DEF PluginShape, ToldFits

(* A message cut short comes of a killed child only, an answer of one that *)
(* has reported.                                                           *)
LEMMA ReceiveKeeps ==
  ASSUME PluginInv, Receive
  PROVE  PluginInv'
<1>0. /\ PluginShape /\ ToldFits /\ sandbox.payload = NoResult /\ sandbox.at = "polling" /\ capable
      /\ UNCHANGED <<capable, child>> /\ pipe.sent # <<>>
      /\ pipe' = [pipe EXCEPT !.sent = Tail(pipe.sent)]
  BY DEF PluginInv, Receive, ByParent
<1>1. pipe'.sent = Tail(pipe.sent) /\ pipe'.closed = pipe.closed /\ DOMAIN pipe' = {"sent", "closed"}
  BY <1>0 DEF PluginShape
<1>2. Hello # Torn
  BY DEF Hello, Torn
<1>3. CASE ~sandbox.bootstrapped
  <2>1. Head(pipe.sent) = Hello
    <3>1. CASE UpOnly
      BY <1>0, <1>3, <3>1, OneMessage DEF UpOnly
    <3>2. ASSUME NEW m, Told(m)
          PROVE  Head(pipe.sent) = Hello
      BY <1>0, <1>3, <3>2, OneMessage DEF Told
    <3> QED BY <1>0, <3>1, <3>2, ToldIs DEF Nothing, Answered
  <2>2. sandbox' = [sandbox EXCEPT !.bootstrapped = TRUE]
    BY <2>1 DEF Receive, Parent
  <2>3. /\ sandbox'.at = "polling" /\ sandbox'.bootstrapped /\ sandbox'.payload = NoResult
        /\ PluginShape'
    BY <1>0, <1>1, <2>2 DEF PluginShape
  <2>4. ~Nothing
    BY <1>0 DEF Nothing
  <2>7. UpOnly => UpOnly'
    BY <1>1, <1>3, <2>3, OneMessage DEF UpOnly
  <2>8. ASSUME NEW m, Told(m)
        PROVE  Told(m)'
    <3>1. pipe.sent = <<Hello, m>>
      BY <1>3, <2>8 DEF Told
    <3>2. Tail(<<Hello, m>>) = <<m>>
      BY OneMessage
    <3> QED BY <1>1, <2>3, <3>1, <3>2 DEF Told
  <2>5. Answered => Answered'
    BY <1>0, <2>8 DEF Answered
  <2>6. ToldFits'
    BY <1>0, <1>1, <2>4, <2>5, <2>7, <2>8 DEF ToldFits
  <2> QED BY <1>0, <2>3, <2>6 DEF PluginInv
<1>4. CASE sandbox.bootstrapped
  <2>1. PICK m : pipe.sent = <<m>> /\ Head(pipe.sent) = m /\ Told(m)
    <3>1. ~Nothing /\ ~UpOnly
      BY <1>0, <1>4, OneMessage DEF Nothing, UpOnly
    <3>2. PICK m : Told(m)
      BY <1>0, <3>1, ToldIs DEF Answered
    <3>3. pipe.sent = <<m>>
      BY <1>4, <3>2 DEF Told
    <3> QED BY <3>2, <3>3, OneMessage
  <2>2. CASE Answered
    <3>1. m \in AnswerOf /\ (m.status = "ok" => child.ran)
      BY <1>4, <2>1, <2>2 DEF Answered, Told
    <3>2. sandbox' = [sandbox EXCEPT !.payload = m, !.at = "judging"]
      BY <2>1, <3>1, AnswersAre DEF Receive, Parent
    <3>3. TookAnswer' /\ sandbox'.at = "judging" /\ PluginShape'
      BY <1>0, <1>1, <1>4, <3>1, <3>2 DEF TookAnswer, PluginShape
    <3> QED BY <1>0, <3>3, EndKeeps DEF EndsWell
  <2>3. CASE ~Answered
    <3>1. child.at = "dead" /\ child.exit = "killed" /\ m = Torn
      <4>1. ~Nothing /\ ~UpOnly
        BY <1>0, <1>4, OneMessage DEF Nothing, UpOnly
      <4>2. Told(Torn) /\ child.at = "dead" /\ child.exit = "killed"
        BY <1>0, <2>3, <4>1, ToldIs
      <4>3. pipe.sent = <<Torn>>
        BY <1>4, <4>2 DEF Told
      <4> QED BY <2>1, <4>2, <4>3, OneMessage
    <3>2. sandbox' = [sandbox EXCEPT !.at = "returned", !.status = "raised"]
      BY <1>2, <2>1, <3>1 DEF Receive, Parent
    <3>3. /\ sandbox'.at = "returned" /\ sandbox'.payload = NoResult /\ sandbox'.status = "raised"
          /\ PluginShape'
      BY <1>0, <1>1, <3>2 DEF PluginShape
    <3> QED BY <1>0, <3>1, <3>3, EndKeeps DEF EndsWell
  <2> QED BY <2>2, <2>3
<1> QED BY <1>3, <1>4

(* The pipe is at its end: the child goes without an answer.               *)
LEMMA EndOfFileKeeps ==
  ASSUME PluginInv, EndOfFile
  PROVE  PluginInv'
<1>1. /\ PluginShape /\ ToldFits /\ sandbox.payload = NoResult /\ capable
      /\ pipe.sent = <<>> /\ pipe.closed /\ sandbox' = [sandbox EXCEPT !.at = "judging"]
      /\ UNCHANGED <<capable, child, pipe>>
  BY DEF PluginInv, EndOfFile, Parent, ByParent
<1>2. /\ sandbox'.at = "judging" /\ sandbox'.payload = NoResult /\ PluginShape'
      /\ sandbox'.bootstrapped = sandbox.bootstrapped
  BY <1>1 DEF PluginShape
<1>3. \A m : ~Told(m)
  BY <1>1, OneMessage DEF Told
<1>4. UpOnly => sandbox.bootstrapped
  BY <1>1, OneMessage DEF UpOnly
<1>5. NoneCame'
  BY <1>1, <1>2, <1>3, <1>4 DEF ToldFits, Answered, NoneCame
<1> QED BY <1>1, <1>2, <1>5, EndKeeps DEF EndsWell

(* The child is found dead: the pipe holds its answer, a message cut short *)
(* or none.                                                                *)
LEMMA DrainKeeps ==
  ASSUME PluginInv, CheckAlive, ~Alive
  PROVE  PluginInv'
<1> DEFINE answers == {i \in DOMAIN pipe.sent : pipe.sent[i] # Hello}
           payload == IF answers = {} THEN NoResult ELSE pipe.sent[Max(answers)]
           up == sandbox.bootstrapped \/ \E i \in DOMAIN pipe.sent : pipe.sent[i] = Hello
           x == [sandbox EXCEPT !.at = "judging", !.bootstrapped = up, !.payload = payload]
<1>1. /\ PluginShape /\ ToldFits /\ sandbox.payload = NoResult /\ capable
      /\ pipe' = [pipe EXCEPT !.sent = <<>>]
      /\ sandbox' = IF Drained.payload = Torn
                    THEN [sandbox EXCEPT !.at = "returned", !.status = "raised"] ELSE Drained
      /\ UNCHANGED <<capable, child>>
  BY DEF PluginInv, CheckAlive, Parent, ByParent
<1>2. Drained = x
  BY DEF Drained
<1>3. child.at = "dead"
  BY <1>1 DEF Alive, ToldFits
<1>4. Hello # Torn /\ NoResult # Torn
  BY DEF Hello, Torn, NoResult
<1>5. Nothing => payload = NoResult
  BY <1>4, LastAnswer DEF Nothing
<1>6. UpOnly => payload = NoResult /\ up
  <2>1. CASE sandbox.bootstrapped /\ pipe.sent = <<>>
    BY <1>4, <2>1, LastAnswer
  <2>2. CASE pipe.sent = <<Hello>>
    <3>1. up
      BY <2>2
    <3>2. answers = {}
      BY <2>2
    <3> QED BY <3>1, <3>2
  <2> QED BY <2>1, <2>2 DEF UpOnly
<1>7. ASSUME NEW m, m # Hello, Told(m)
      PROVE  payload = m /\ up
  <2>1. pipe.sent = <<m>> \/ pipe.sent = <<Hello, m>>
    BY <1>7 DEF Told
  <2>2. payload = m
    BY <1>7, <2>1, LastAnswer
  <2>3. CASE pipe.sent = <<Hello, m>>
    <3>1. 1 \in DOMAIN pipe.sent /\ pipe.sent[1] = Hello
      BY <2>3
    <3> QED BY <2>2, <3>1
  <2> HIDE DEF payload
  <2> QED BY <1>7, <2>1, <2>2, <2>3, OneMessage DEF Told
<1> HIDE DEF payload, up
<1>8. /\ x.at = "judging" /\ x.payload = payload /\ x.late = sandbox.late
      /\ x.bootstrapped = up /\ DOMAIN x = DOMAIN sandbox
  BY <1>1 DEF PluginShape
<1> HIDE DEF x
<1>9. DOMAIN pipe' = {"sent", "closed"}
  BY <1>1 DEF PluginShape
<1>10. CASE Answered
  <2>1. PICK m \in AnswerOf : Told(m) /\ (m.status = "ok" => child.ran)
    BY <1>10 DEF Answered
  <2>2. m # Hello /\ m # Torn
    BY AnswersAre
  <2>3. payload = m /\ up
    BY <1>7, <2>1, <2>2
  <2>4. sandbox' = x
    BY <1>1, <1>2, <1>8, <2>2, <2>3
  <2>5. TookAnswer' /\ sandbox'.at = "judging"
    BY <1>1, <1>8, <2>1, <2>3, <2>4 DEF TookAnswer
  <2> QED BY <1>1, <1>8, <1>9, <2>4, <2>5, EndKeeps DEF EndsWell, PluginShape
<1>11. CASE Nothing \/ UpOnly
  <2>1. payload = NoResult
    BY <1>5, <1>6, <1>11
  <2>2. sandbox' = x
    BY <1>1, <1>2, <1>4, <1>8, <2>1
  <2>3. sandbox'.at = "judging" /\ sandbox'.payload = NoResult /\ PluginShape'
    BY <1>1, <1>8, <1>9, <2>1, <2>2 DEF PluginShape
  <2>4. CASE Answered
    BY <2>4, <1>10
  <2>5. CASE ~Answered
    <3>1. child.ran => UpOnly /\ child.exit = "killed"
      <4>1. ASSUME Told(Torn)
            PROVE  FALSE
        BY <1>4, <1>7, <2>1, <4>1
      <4> QED BY <1>1, <1>3, <2>5, <4>1 DEF ToldFits
    <3>2. NoneCame'
      BY <1>1, <1>3, <1>6, <1>8, <2>2, <3>1 DEF NoneCame
    <3> QED BY <1>1, <2>3, <3>2, EndKeeps DEF EndsWell
  <2> QED BY <2>4, <2>5
<1>12. CASE Told(Torn) /\ child.exit = "killed"
  <2>1. payload = Torn
    BY <1>4, <1>7, <1>12
  <2>2. sandbox' = [sandbox EXCEPT !.at = "returned", !.status = "raised"]
    BY <1>1, <1>2, <1>8, <2>1
  <2>3. /\ sandbox'.at = "returned" /\ sandbox'.payload = NoResult /\ sandbox'.status = "raised"
        /\ PluginShape'
    BY <1>1, <1>9, <2>2 DEF PluginShape
  <2> QED BY <1>1, <1>3, <1>12, <2>3, EndKeeps DEF EndsWell
<1> QED BY <1>1, <1>10, <1>11, <1>12, ToldIs

(* The deadline has passed.                                                *)
LEMMA LoopEndsKeeps ==
  ASSUME PluginInv, LoopEnds
  PROVE  PluginInv'
<1>1. /\ PluginShape /\ sandbox.payload = NoResult /\ capable /\ sandbox.late
      /\ sandbox' = [sandbox EXCEPT !.at = "judging"]
      /\ UNCHANGED <<capable, child, pipe>>
  BY DEF PluginInv, LoopEnds, Parent, ByParent
<1>2. /\ sandbox'.at = "judging" /\ sandbox'.payload = NoResult /\ PluginShape'
      /\ sandbox'.late
  BY <1>1 DEF PluginShape
<1> QED BY <1>1, <1>2, EndKeeps DEF EndsWell

(* The status: of the answer, or of a child that is stopped or gone.       *)
LEMMA JudgeKeeps ==
  ASSUME PluginInv, StopChild \/ JudgeExit \/ TakeAnswer
  PROVE  PluginInv'
<1>0. /\ PluginShape /\ sandbox.at = "judging" /\ capable
      /\ TookAnswer \/ (sandbox.payload = NoResult /\ (sandbox.late \/ NoneCame))
      /\ UNCHANGED capable
  BY DEF PluginInv, StopChild, JudgeExit, TakeAnswer, ByParent
<1>1. PICK s : sandbox' = [sandbox EXCEPT !.at = "returned", !.status = s]
  BY DEF StopChild, JudgeExit, TakeAnswer, Returns, Parent
<1>2. /\ sandbox'.at = "returned" /\ sandbox'.status = s /\ sandbox'.payload = sandbox.payload
      /\ sandbox'.late = sandbox.late /\ sandbox'.bootstrapped = sandbox.bootstrapped
      /\ DOMAIN sandbox' = DOMAIN sandbox
  BY <1>0, <1>1 DEF PluginShape
<1>3. CASE TakeAnswer
  <2>1. TookAnswer /\ UNCHANGED <<child, pipe>> /\ sandbox'.status = sandbox.payload.status
    BY <1>0, <1>3 DEF TakeAnswer, Returns, Parent, PluginShape
  <2> QED BY <1>0, <1>2, <2>1 DEF PluginInv, PluginShape, Reported, TookAnswer
<1>4. CASE StopChild
  <2>1. /\ sandbox.payload = NoResult /\ child' = [child EXCEPT !.at = "dead", !.exit = "killed"]
        /\ pipe' = [pipe EXCEPT !.closed = TRUE] /\ sandbox'.status = "timeout"
    BY <1>0, <1>4 DEF StopChild, Returns, Parent, PluginShape
  <2>2. child'.at = "dead" /\ child'.exit = "killed" /\ DOMAIN child' = {"at", "exit", "ran"}
        /\ DOMAIN pipe' = {"sent", "closed"}
    BY <1>0, <2>1 DEF PluginShape
  <2>3. Reported'
    BY <1>2, <2>1, <2>2 DEF Reported, Alive
  <2> QED BY <1>0, <1>2, <2>2, <2>3 DEF PluginInv, PluginShape
<1>5. CASE JudgeExit
  <2>1. sandbox.payload = NoResult /\ ~Alive /\ UNCHANGED <<child, pipe>>
        /\ sandbox'.status = StatusOfExit
    BY <1>0, <1>5 DEF JudgeExit, Returns, Parent, PluginShape
  <2>2. sandbox.late \/ NoneCame
    BY <1>0, <2>1, AnswersAre DEF TookAnswer
  <2>3. /\ StatusOfExit \in {"sandbox_bootstrap_failed", "memory", "error"}
        /\ StatusOfExit = "sandbox_bootstrap_failed" => ~sandbox.bootstrapped
        /\ StatusOfExit = "memory" => sandbox.bootstrapped
    BY DEF StatusOfExit
  <2>4. Reported'
    BY <1>2, <2>1, <2>2, <2>3 DEF Reported, Alive, NoneCame
  <2> QED BY <1>0, <1>2, <2>1, <2>4 DEF PluginInv, PluginShape
<1> QED BY <1>3, <1>4, <1>5

(* Every step keeps it.                                                    *)
LEMMA PluginInvStep ==
  ASSUME PluginInv, [PluginNext]_pluginVars
  PROVE  PluginInv'
<1>1. CASE ChildStep
  BY <1>1, ChildKeeps
<1>2. CASE Refuse \/ Spawn
  BY <1>2, StartsKeep
<1>3. CASE DeadlinePasses \/ PollEmpty \/ CheckAlive
  BY <1>3, LoopKeeps, DrainKeeps
<1>4. CASE Receive \/ EndOfFile \/ LoopEnds
  BY <1>4, ReceiveKeeps, EndOfFileKeeps, LoopEndsKeeps
<1>5. CASE StopChild \/ JudgeExit \/ TakeAnswer
  BY <1>5, JudgeKeeps
<1>6. CASE HandFactors
  <2>1. /\ sandbox.at = "returned" /\ sandbox' = [sandbox EXCEPT !.at = "idle"]
        /\ UNCHANGED <<capable, child, pipe>>
    BY <1>6 DEF HandFactors, Parent, ByParent
  <2> QED BY <2>1 DEF PluginInv, PluginShape
<1>7. CASE UNCHANGED pluginVars
  BY <1>7 DEF pluginVars, PluginInv, PluginShape, ToldFits, Nothing, UpOnly, Answered, Told,
              TookAnswer, NoneCame, Reported, Alive
<1> QED BY <1>1, <1>2, <1>3, <1>4, <1>5, <1>6, <1>7 DEF PluginNext, ParentStep

(* The status of a run of a plug-in is true of its child, for any order of *)
(* the child's messages and death, the parent's polls and its deadline:    *)
(* ok comes with a checked matrix of code that ran, a failed start is not  *)
(* claimed of code that ran, no process outlives a run without answer, and *)
(* a run in time loses no answer.                                          *)
THEOREM VerdictsAreTrue == PluginSpec => []PluginVerdictIsTrue
<1>1. PluginInit => PluginInv
  BY PluginInvInit
<1>2. PluginInv /\ [PluginNext]_pluginVars => PluginInv'
  BY PluginInvStep
<1>3. PluginInv => PluginVerdictIsTrue
  <2> SUFFICES ASSUME PluginInv, sandbox.at = "returned"
               PROVE  PluginVerdictIsTrue
    BY DEF PluginVerdictIsTrue, OkIsChecked, BlameIsRight, NothingIsLeft, AnswerIsTaken, Finished
  <2>1. Reported
    BY DEF PluginInv
  <2>2. CASE TookAnswer /\ sandbox.status = sandbox.payload.status
    <3>1. /\ sandbox.payload # NoResult
          /\ sandbox.payload.status # "sandbox_bootstrap_failed"
          /\ sandbox.payload.status = "ok" => sandbox.payload.output = "valid"
      BY <2>2, AnswersAre DEF TookAnswer
    <3> QED BY <2>2, <3>1 DEF TookAnswer, PluginVerdictIsTrue, OkIsChecked, BlameIsRight,
                              NothingIsLeft, AnswerIsTaken, Finished
  <2>3. CASE ~(TookAnswer /\ sandbox.status = sandbox.payload.status)
    BY <2>1, <2>3 DEF Reported, Alive, PluginVerdictIsTrue, OkIsChecked, BlameIsRight,
                      NothingIsLeft, AnswerIsTaken, Finished
  <2> QED BY <2>2, <2>3
<1> QED BY <1>1, <1>2, <1>3, PTL DEF PluginSpec

-----------------------------------------------------------------------------
(***************************************************************************)
(* BacktestDays: the simulated account is an honest one, for any stocks,   *)
(* quotes, rankings, sizes, fees and number of days.                       *)
(***************************************************************************)
SignalRecs(d) == [stock : SimStocks, made : {d}, pct : Nat, type : {"NONE", "SELL", "BUY"}]
SignalsFor(signals, d) ==
  /\ signals \in Seq(SignalRecs(d))
  /\ \A i, j \in DOMAIN signals : signals[i].stock = signals[j].stock => i = j

TradeRecs == [day : Nat, made : Int, stock : SimStocks, type : {"SELL", "BUY"},
              price : Nat, shares : Nat, amount : Nat]
Books == [cash : Nat, held : [SimStocks -> [shares : Nat, basis : Nat]], trades : Seq(TradeRecs)]

\* The days from a signal to its trade.
Lag == IF simMode = "OPEN_T1" THEN 1 ELSE 0
OnTime(book, lag) == \A t \in DOMAIN book.trades : book.trades[t].made = book.trades[t].day - lag
OneSide(book) == \A t, u \in DOMAIN book.trades :
  book.trades[t].day = book.trades[u].day /\ book.trades[t].stock = book.trades[u].stock
    => book.trades[t].type = book.trades[u].type
Balanced(book) == book.cash = Capital - Moved(book, "BUY") + Moved(book, "SELL")
GoodBook(book, lag) == book \in Books /\ Balanced(book) /\ OnTime(book, lag) /\ OneSide(book)

\* What a day has traded carries out its first k signals.
TradedBy(book, signals, k, d) ==
  \A t \in DOMAIN book.trades :
    \/ book.trades[t].day < d
    \/ /\ book.trades[t].day = d
       /\ \E j \in 1..k : signals[j].stock = book.trades[t].stock

SimShape == simDay \in Nat /\ simMode \in {"OPEN_T1", "CLOSE_T"} /\ (simOpen => simQuotes \in SimMarkets)
\* Signals wait for the open of the day after theirs, and for no other.
PendingIsYesterdays ==
  /\ SignalsFor(simPending, simDay - 1)
  /\ simOpen \/ simMode = "CLOSE_T" => simPending = <<>>
\* Of a day that has not traded there is no trade.
TradesAreDone == \A t \in DOMAIN simBook.trades :
  \/ simBook.trades[t].day < simDay
  \/ simBook.trades[t].day = simDay /\ simOpen /\ simMode = "OPEN_T1"
SimInv == SimShape /\ PendingIsYesterdays /\ GoodBook(simBook, Lag) /\ TradesAreDone

-----------------------------------------------------------------------------
(* Products and quotients of natural numbers, kept apart from the rest.    *)
LEMMA NatArithmetic ==
  /\ \A a, b \in Nat : a * b \in Nat
  /\ \A a \in Nat, b \in Nat \ {0} : a \div b \in Nat
  /\ \A a, b \in Nat \ {0} : a * b \in Nat \ {0}
<1>1. \A a, b \in Nat : a * b \in Nat
  OBVIOUS
<1>2. \A a \in Nat, b \in Nat \ {0} : a \div b \in Nat
  OBVIOUS
<1>3. \A a, b \in Nat \ {0} : a * b \in Nat \ {0}
  OBVIOUS
<1> QED BY <1>1, <1>2, <1>3

(* The generator gives every ranked stock a place, and each place one stock.*)
LEMMA GeneratedAreSignals ==
  ASSUME simDay \in Nat, NEW ranking \in SimRankings, NEW quotes, NEW state
  PROVE  SignalsFor(Generate(ranking, quotes, state), simDay)
<1>1. /\ ranking \in Seq([stock : SimStocks, class : {"top", "middle", "bottom"}])
      /\ \A i, j \in DOMAIN ranking : ranking[i].stock = ranking[j].stock => i = j
  BY BacktestDaysAssumption
<1>2. \A x : CallOf(x, quotes, state) \in {"NONE", "SELL", "BUY"}
  BY DEF CallOf
<1> DEFINE g == Generate(ranking, quotes, state)
<1>3. \A i \in DOMAIN ranking : g[i] \in SignalRecs(simDay) /\ g[i].stock = ranking[i].stock
  <2> SUFFICES ASSUME NEW i \in DOMAIN ranking
               PROVE  g[i] \in SignalRecs(simDay) /\ g[i].stock = ranking[i].stock
    OBVIOUS
  <2> DEFINE type == CallOf(ranking[i], quotes, state)
  <2>1. ranking[i].stock \in SimStocks
    <3> DEFINE Recs == [stock : SimStocks, class : {"top", "middle", "bottom"}]
    <3>1. ranking \in Seq(Recs)
      BY <1>1
    <3>2. \A x \in Recs : x.stock \in SimStocks
      OBVIOUS
    <3> HIDE DEF Recs
    <3>3. ranking[i] \in Recs
      BY <3>1
    <3> QED BY <3>2, <3>3
  <2>2. type \in {"NONE", "SELL", "BUY"}
    BY <1>2, Zenon
  <2>3. g[i] = [stock |-> ranking[i].stock, made |-> simDay, pct |-> 0, type |-> type]
    BY DEF Generate
  <2> HIDE DEF g, type
  <2> QED BY <2>1, <2>2, <2>3 DEF SignalRecs
<1>4. g = [i \in 1..Len(ranking) |-> g[i]] /\ DOMAIN ranking = 1..Len(ranking) /\ Len(ranking) \in Nat
  BY <1>1 DEF Generate
<1> HIDE DEF g
<1>5. g \in Seq(SignalRecs(simDay)) /\ DOMAIN g = DOMAIN ranking
  BY <1>3, <1>4
<1>6. SignalsFor(g, simDay)
  BY <1>1, <1>3, <1>5 DEF SignalsFor
<1> QED BY <1>6 DEF g

(* What is left of the day's allowance is never negative.                  *)
Allowances(left, signals, first) ==
  left = [i \in 0..Len(signals) |->
            IF i = 0 THEN first
            ELSE left[i - 1] - (IF signals[i].type = "BUY" THEN SizeOf(left[i - 1]) ELSE 0)]

(* A size is no more than what is left.                                    *)
LEMMA SizeIsLeft ==
  ASSUME NEW left \in Nat
  PROVE  SizeOf(left) \in 0..left
BY BacktestDaysAssumption DEF SizeOf, Less
(* The allowances of a list of signals exist, and are natural numbers.     *)
LEMMA AllowancesExist ==
  ASSUME NEW signals, Len(signals) \in Nat, NEW first \in Nat
  PROVE  \E left : Allowances(left, signals, first)
<1> DEFINE Up(g, n) == g = [i \in 0..n |->
                         IF i = 0 THEN first
                         ELSE g[i - 1] - (IF signals[i].type = "BUY" THEN SizeOf(g[i - 1]) ELSE 0)]
           N == {n \in Nat : \E g : Up(g, n)}
<1>1. 0 \in N
  <2>1. Up([i \in 0..0 |-> first], 0)
    OBVIOUS
  <2> QED BY <2>1
<1>2. ASSUME NEW n \in Nat, n \in N PROVE n + 1 \in N
  <2>1. PICK g : Up(g, n)
    BY <1>2
  <2> DEFINE Next1(i) == IF i = 0 THEN first
                         ELSE g[i - 1] - (IF signals[i].type = "BUY" THEN SizeOf(g[i - 1]) ELSE 0)
             h == [i \in 0..(n + 1) |-> Next1(i)]
  <2>2. \A i \in 0..n : g[i] = Next1(i)
    BY <2>1
  <2>3. \A i \in 0..n : h[i] = g[i]
    BY <2>2
  <2>4. \A i \in 1..(n + 1) : h[i - 1] = g[i - 1]
    <3> HIDE DEF h
    <3> QED BY <2>3
  <2>5. Up(h, n + 1)
    <3>1. \A i \in 0..(n + 1) : Next1(i) =
             IF i = 0 THEN first
             ELSE h[i - 1] - (IF signals[i].type = "BUY" THEN SizeOf(h[i - 1]) ELSE 0)
      <4> SUFFICES ASSUME NEW i \in 0..(n + 1), i # 0
                   PROVE  Next1(i) = h[i - 1] - (IF signals[i].type = "BUY" THEN SizeOf(h[i - 1]) ELSE 0)
        OBVIOUS
      <4> HIDE DEF h
      <4>1. i \in 1..(n + 1)
        OBVIOUS
      <4>2. h[i - 1] = g[i - 1]
        BY <2>4, <4>1
      <4> QED BY <4>2
    <3>2. h = [i \in 0..(n + 1) |-> Next1(i)]
      OBVIOUS
    <3> HIDE DEF h, Next1
    <3> QED BY <3>1, <3>2
  <2>6. \E f : Up(f, n + 1)
    <3> HIDE DEF h, Up
    <3> QED BY <2>5
  <2> HIDE DEF Up
  <2> QED BY <2>6
<1>3. Nat \subseteq N
  <2> HIDE DEF N
  <2> QED BY <1>1, <1>2, NatInductionOnSets
<1>4. \E g : Up(g, Len(signals))
  BY <1>3
<1> QED BY <1>4 DEF Allowances

(* Every one of them is a natural number, and none exceeds the one before. *)
LEMMA AllowancesFall ==
  ASSUME NEW signals, Len(signals) \in Nat, NEW first \in Nat,
         NEW left, Allowances(left, signals, first)
  PROVE  \A i \in 1..Len(signals) : left[i - 1] - left[i] \in Nat
<1> DEFINE spent(i) == IF signals[i].type = "BUY" THEN SizeOf(left[i - 1]) ELSE 0
           N == {n \in Nat : n <= Len(signals) => left[n] \in Nat}
<1>1. left[0] = first /\ \A i \in 1..Len(signals) : left[i] = left[i - 1] - spent(i)
  BY DEF Allowances
<1>2. \A i \in 1..Len(signals) : left[i - 1] \in Nat => spent(i) \in 0..left[i - 1]
  <2>1. \A m \in Nat : SizeOf(m) \in 0..m
    BY SizeIsLeft
  <2>2. \A m \in Nat : 0 \in 0..m
    OBVIOUS
  <2> QED BY <2>1, <2>2
<1>3. 0 \in N
  BY <1>1
<1>4. ASSUME NEW n \in Nat, n \in N PROVE n + 1 \in N
  <2> SUFFICES ASSUME n + 1 <= Len(signals) PROVE left[n + 1] \in Nat
    OBVIOUS
  <2>1. left[n] \in Nat /\ n + 1 \in 1..Len(signals) /\ (n + 1) - 1 = n
    BY <1>4
  <2> HIDE DEF spent
  <2>2. left[n + 1] = left[n] - spent(n + 1) /\ spent(n + 1) \in 0..left[n]
    BY <1>1, <1>2, <2>1
  <2> QED BY <2>1, <2>2
<1>5. Nat \subseteq N
  <2> HIDE DEF N
  <2> QED BY <1>3, <1>4, NatInductionOnSets
<1> QED
  <2> SUFFICES ASSUME NEW i \in 1..Len(signals) PROVE left[i - 1] - left[i] \in Nat
    OBVIOUS
  <2>1. left[i - 1] \in Nat
    BY <1>5
  <2> HIDE DEF spent
  <2> QED BY <1>1, <1>2, <2>1

(* Giving sizes keeps signals signals.                                     *)
LEMMA SizedAreSignals ==
  ASSUME NEW d, NEW signals, SignalsFor(signals, d), NEW state \in DOMAIN AvailablePct
  PROVE  SignalsFor(Suggest(signals, state), d)
<1> DEFINE left == CHOOSE f : Allowances(f, signals, AvailablePct[state])
           g == [i \in DOMAIN signals |-> [signals[i] EXCEPT !.pct = left[i - 1] - left[i]]]
<1>1. Suggest(signals, state) = g
  BY DEF Suggest, Allowances
<1>2. AvailablePct[state] \in Nat /\ Len(signals) \in Nat /\ DOMAIN signals = 1..Len(signals)
  BY BacktestDaysAssumption DEF SignalsFor
<1>3. Allowances(left, signals, AvailablePct[state])
  BY <1>2, AllowancesExist
<1> HIDE DEF left
<1>4. \A i \in DOMAIN signals : left[i - 1] - left[i] \in Nat
  BY <1>2, <1>3, AllowancesFall
<1>5. \A i \in DOMAIN signals : signals[i] \in SignalRecs(d)
  BY <1>2 DEF SignalsFor
<1>6. \A i \in DOMAIN signals : g[i] \in SignalRecs(d) /\ g[i].stock = signals[i].stock
  <2> SUFFICES ASSUME NEW i \in DOMAIN signals
               PROVE  g[i] \in SignalRecs(d) /\ g[i].stock = signals[i].stock
    OBVIOUS
  <2>1. g[i] = [signals[i] EXCEPT !.pct = left[i - 1] - left[i]]
    OBVIOUS
  <2> HIDE DEF g
  <2> QED BY <1>4, <1>5, <2>1 DEF SignalRecs
<1>7. g = [i \in 1..Len(signals) |-> g[i]]
  BY <1>2
<1> HIDE DEF g
<1>8. g \in Seq(SignalRecs(d)) /\ DOMAIN g = DOMAIN signals
  BY <1>2, <1>6, <1>7
<1> QED BY <1>1, <1>6, <1>8 DEF SignalsFor

(* Dropping those that concentrate too much keeps signals signals.         *)
LEMMA CheckedAreSignals ==
  ASSUME NEW d, NEW signals, SignalsFor(signals, d), NEW quotes
  PROVE  SignalsFor(RiskChecked(signals, quotes), d)
<1> DEFINE g == RiskChecked(signals, quotes)
<1>1. Len(signals) \in Nat /\ DOMAIN signals = 1..Len(signals)
  BY DEF SignalsFor
<1>2. \A i \in DOMAIN signals : signals[i] \in SignalRecs(d)
  BY <1>1 DEF SignalsFor
<1>3. \A i \in DOMAIN signals : g[i] \in SignalRecs(d) /\ g[i].stock = signals[i].stock
  BY <1>2 DEF RiskChecked, SignalRecs
<1>4. g = [i \in 1..Len(signals) |-> g[i]]
  BY <1>1 DEF RiskChecked
<1> HIDE DEF g
<1>5. g \in Seq(SignalRecs(d)) /\ DOMAIN g = DOMAIN signals
  BY <1>1, <1>3, <1>4
<1>6. SignalsFor(g, d)
  BY <1>3, <1>5 DEF SignalsFor
<1> QED BY <1>6 DEF g

(* Whichever steps of the day raise, what is left are signals of the day.  *)
LEMMA DaysSignals ==
  ASSUME simDay \in Nat, NEW ranking \in SimRankings, NEW quotes, NEW state \in DOMAIN AvailablePct
  PROVE  \A signals \in SignalsOf(ranking, quotes, state) : SignalsFor(signals, simDay)
<1>1. SignalsFor(<<>>, simDay)
  BY DEF SignalsFor
<1> DEFINE made == Generate(ranking, quotes, state)
<1>2. SignalsFor(made, simDay)
  BY GeneratedAreSignals
<1> HIDE DEF made
<1>3. SignalsFor(Suggest(made, state), simDay)
  BY <1>2, SizedAreSignals
<1>4. SignalsFor(RiskChecked(made, quotes), simDay)
  BY <1>2, CheckedAreSignals
<1>5. SignalsFor(RiskChecked(Suggest(made, state), quotes), simDay)
  BY <1>3, CheckedAreSignals
<1> QED BY <1>1, <1>3, <1>4, <1>5 DEF SignalsOf, made
-----------------------------------------------------------------------------
(* A record more moves its amount on its own side, and nothing on the other.*)
LEMMA MovedByOneMore ==
  ASSUME NEW b, b.trades \in Seq(TradeRecs), NEW rec \in TradeRecs,
         NEW c, c.trades = Append(b.trades, rec), NEW type
  PROVE  /\ Moved(b, type) \in Int
         /\ Moved(c, type) = Moved(b, type) + (IF rec.type = type THEN rec.amount ELSE 0)
<1> DEFINE n == Len(b.trades)
           F(x) == [i \in DOMAIN x.trades |-> x.trades[i].amount]
           f == F(b)
           g == F(c)
           B == Matching(b, type)
           C == Matching(c, type)
<1>1. /\ n \in Nat /\ DOMAIN b.trades = 1..n /\ DOMAIN c.trades = 1..(n + 1)
      /\ c.trades[n + 1] = rec /\ \A i \in 1..n : c.trades[i] = b.trades[i]
  OBVIOUS
<1>2. B \subseteq 1..n /\ n + 1 \notin B
  BY <1>1 DEF Matching
<1>3. C = IF rec.type = type THEN B \cup {n + 1} ELSE B
  BY <1>1 DEF Matching
<1>4. IsFiniteSet(B)
  <2>1. IsFiniteSet(1..n)
    BY <1>1, FS_Interval
  <2> QED BY <1>2, <2>1, FS_Subset
<1>5. \A i \in 1..n : f[i] \in Int /\ g[i] = f[i]
  <2>1. \A i \in 1..n : b.trades[i] \in TradeRecs
    BY <1>1
  <2>2. \A x \in TradeRecs : x.amount \in Int
    BY DEF TradeRecs
  <2> QED BY <1>1, <2>1, <2>2
<1>6. g[n + 1] = rec.amount /\ rec.amount \in Int
  BY <1>1 DEF TradeRecs
<1>7. Moved(b, type) = SumFunctionOnSet(f, B) /\ Moved(c, type) = SumFunctionOnSet(g, C)
  BY DEF Moved
<1> HIDE DEF n, f, g, B, C
<1>8. SumFunctionOnSet(f, B) \in Int
  BY <1>2, <1>4, <1>5, SumOfInts
<1>9. SumFunctionOnSet(g, B) = SumFunctionOnSet(f, B)
  BY <1>2, <1>4, <1>5, SumOfEquals
<1>10. CASE rec.type = type
  <2>1. \A y \in B \cup {n + 1} : g[y] \in Int
    BY <1>2, <1>5, <1>6
  <2>2. SumFunctionOnSet(g, B \cup {n + 1}) = SumFunctionOnSet(g, B) + g[n + 1]
    <3> DEFINE m == n + 1
    <3>1. m \notin B /\ \A y \in B \cup {m} : g[y] \in Int
      BY <1>2, <2>1
    <3> HIDE DEF m
    <3>2. SumFunctionOnSet(g, B \cup {m}) = SumFunctionOnSet(g, B) + g[m]
      BY <1>4, <3>1, SumOfOneMore
    <3> QED BY <3>2 DEF m
  <2> QED BY <1>3, <1>6, <1>7, <1>8, <1>9, <1>10, <2>2
<1>11. CASE rec.type # type
  BY <1>3, <1>7, <1>8, <1>9, <1>11
<1> QED BY <1>10, <1>11

(* A book that trades the next signal is as good as before.                *)
LEMMA TradeKeepsBook ==
  ASSUME NEW d \in Nat, NEW lag \in {0, 1}, NEW signals, SignalsFor(signals, d - lag),
         NEW k \in Nat, k + 1 <= Len(signals),
         NEW b, GoodBook(b, lag), TradedBy(b, signals, k, d),
         NEW rec \in TradeRecs, rec.day = d, rec.made = d - lag, rec.stock = signals[k + 1].stock,
         NEW c \in Books, c.trades = Append(b.trades, rec),
         c.cash = IF rec.type = "BUY" THEN b.cash - rec.amount ELSE b.cash + rec.amount
  PROVE  GoodBook(c, lag) /\ TradedBy(c, signals, k + 1, d)
<1> DEFINE n == Len(b.trades)
<1>1. b.trades \in Seq(TradeRecs) /\ b.cash \in Nat
  BY DEF GoodBook, Books
<1>2. /\ n \in Nat /\ DOMAIN b.trades = 1..n /\ DOMAIN c.trades = 1..(n + 1)
      /\ c.trades[n + 1] = rec /\ \A i \in 1..n : c.trades[i] = b.trades[i]
  BY <1>1
<1> HIDE DEF n
<1>3. Balanced(c)
  <2>1. \A type : /\ Moved(b, type) \in Int
                  /\ Moved(c, type) = Moved(b, type) + (IF rec.type = type THEN rec.amount ELSE 0)
    BY <1>1, MovedByOneMore
  <2>2. b.cash = Capital - Moved(b, "BUY") + Moved(b, "SELL")
    BY DEF GoodBook, Balanced
  <2>3. rec.amount \in Int /\ rec.type \in {"SELL", "BUY"} /\ Capital \in Int
    BY BacktestDaysAssumption DEF TradeRecs
  <2>4. /\ Moved(b, "BUY") \in Int /\ Moved(b, "SELL") \in Int
        /\ Moved(c, "BUY") = Moved(b, "BUY") + (IF rec.type = "BUY" THEN rec.amount ELSE 0)
        /\ Moved(c, "SELL") = Moved(b, "SELL") + (IF rec.type = "SELL" THEN rec.amount ELSE 0)
    BY <2>1
  <2>5. c.cash = Capital - Moved(c, "BUY") + Moved(c, "SELL")
    <3>1. CASE rec.type = "BUY"
      BY <2>2, <2>3, <2>4, <3>1
    <3>2. CASE rec.type = "SELL"
      BY <2>2, <2>3, <2>4, <3>2
    <3> QED BY <2>3, <3>1, <3>2
  <2> QED BY <2>5 DEF Balanced
<1>4. OnTime(c, lag)
  <2>1. OnTime(b, lag)
    BY DEF GoodBook
  <2>2. \A t \in 1..n : b.trades[t].made = b.trades[t].day - lag
    BY <1>2, <2>1 DEF OnTime
  <2>3. \A t \in 1..(n + 1) : t \in 1..n \/ t = n + 1
    BY <1>2
  <2> QED BY <1>2, <2>2, <2>3 DEF OnTime
<1>5. \A t \in 1..n : b.trades[t].day # d \/ b.trades[t].stock # rec.stock
  <2> SUFFICES ASSUME NEW t \in 1..n, b.trades[t].day = d PROVE b.trades[t].stock # rec.stock
    OBVIOUS
  <2>1. PICK j \in 1..k : signals[j].stock = b.trades[t].stock
    <3>1. t \in DOMAIN b.trades /\ ~ (b.trades[t].day < d)
      BY <1>2
    <3> QED BY <3>1, Zenon DEF TradedBy
  <2>2. j \in DOMAIN signals /\ k + 1 \in DOMAIN signals /\ j # k + 1
    BY DEF SignalsFor
  <2>3. signals[j].stock # signals[k + 1].stock
    BY <2>2 DEF SignalsFor
  <2> QED BY <2>1, <2>3
<1>6. OneSide(c)
  <2> SUFFICES ASSUME NEW t \in 1..(n + 1), NEW u \in 1..(n + 1),
                      c.trades[t].day = c.trades[u].day, c.trades[t].stock = c.trades[u].stock
               PROVE  c.trades[t].type = c.trades[u].type
    BY <1>2 DEF OneSide
  <2>1. (t \in 1..n \/ t = n + 1) /\ (u \in 1..n \/ u = n + 1)
    BY <1>2
  <2>2. CASE t \in 1..n /\ u \in 1..n
    <3>1. OneSide(b)
      BY DEF GoodBook
    <3>2. /\ t \in DOMAIN b.trades /\ u \in DOMAIN b.trades
          /\ c.trades[t] = b.trades[t] /\ c.trades[u] = b.trades[u]
      BY <1>2, <2>2
    <3>3. b.trades[t].day = b.trades[u].day /\ b.trades[t].stock = b.trades[u].stock
      BY <3>2
    <3> QED BY <3>1, <3>2, <3>3, Zenon DEF OneSide
  <2>3. CASE t \in 1..n /\ u = n + 1
    BY <1>2, <1>5, <2>3
  <2>4. CASE t = n + 1 /\ u \in 1..n
    BY <1>2, <1>5, <2>4
  <2>5. CASE t = n + 1 /\ u = n + 1
    BY <2>5
  <2> QED BY <2>1, <2>2, <2>3, <2>4, <2>5
<1>7. TradedBy(c, signals, k + 1, d)
  <2> SUFFICES ASSUME NEW t \in 1..(n + 1)
               PROVE  \/ c.trades[t].day < d
                      \/ /\ c.trades[t].day = d
                         /\ \E j \in 1..(k + 1) : signals[j].stock = c.trades[t].stock
    BY <1>2 DEF TradedBy
  <2>1. CASE t = n + 1
    BY <1>2, <2>1
  <2>2. CASE t \in 1..n
    <3>1. \/ b.trades[t].day < d
          \/ /\ b.trades[t].day = d
             /\ \E j \in 1..k : signals[j].stock = b.trades[t].stock
      BY <1>2, <2>2 DEF TradedBy
    <3>2. 1..k \subseteq 1..(k + 1)
      OBVIOUS
    <3> QED BY <1>2, <2>2, <3>1, <3>2
  <2> QED BY <1>2, <2>1, <2>2
<1> QED BY <1>3, <1>4, <1>6, <1>7 DEF GoodBook
(* A signal executed, or lost: in both cases the book stays a good one.    *)
LEMMA SignalKeepsBook ==
  ASSUME SimShape, NEW quotes \in SimMarkets, NEW signals, SignalsFor(signals, simDay - Lag),
         NEW k \in Nat, k + 1 <= Len(signals),
         NEW b, GoodBook(b, Lag), TradedBy(b, signals, k, simDay)
  PROVE  LET c == Executed(b, signals[k + 1], quotes)
         IN  GoodBook(c, Lag) /\ TradedBy(c, signals, k + 1, simDay)
<1> DEFINE sig == signals[k + 1]
           q == quotes[sig.stock]
           price == ExecutionPrice(q)
           s == sig.stock
<1>1. sig \in SignalRecs(simDay - Lag)
  BY DEF SignalsFor
<1>2. /\ s \in SimStocks /\ sig.made = simDay - Lag /\ sig.pct \in Nat
      /\ sig.type \in {"NONE", "SELL", "BUY"}
  BY <1>1 DEF SignalRecs
<1>3. Lag \in {0, 1} /\ simDay \in Nat /\ simDay - Lag \in Int
  BY DEF Lag, SimShape
<1>4. TradedBy(b, signals, k + 1, simDay)
  <2>1. 1..k \subseteq 1..(k + 1)
    OBVIOUS
  <2> QED BY <2>1 DEF TradedBy
<1>5. b.cash \in Nat /\ b.trades \in Seq(TradeRecs) /\ b.held \in [SimStocks -> [shares : Nat, basis : Nat]]
  BY DEF GoodBook, Books
<1>6. b.held[s].shares \in Nat /\ b.held[s].basis \in Nat
  BY <1>2, <1>5
<1>7. ASSUME q.kind \notin {"none", "suspended"} PROVE price \in Nat \ {0}
  <2>1. q # NoQuote
    BY <1>7 DEF NoQuote
  <2>2. q = NoQuote \/ (q.open \in Nat /\ q.close \in Nat \ {0})
    BY <1>2, BacktestDaysAssumption
  <2> HIDE DEF q
  <2> QED BY <2>1, <2>2 DEF ExecutionPrice, NoOpen
<1> HIDE DEF sig, q, price, s
<1> DEFINE c == Executed(b, sig, quotes)
<1>8. CASE c = b
  BY <1>4, <1>8 DEF sig
<1>9. ASSUME c # b, sig.type = "BUY" PROVE GoodBook(c, Lag) /\ TradedBy(c, signals, k + 1, simDay)
  <2>1. c = Bought(b, sig, price) /\ price \in Nat \ {0}
    BY <1>7, <1>9 DEF Executed, q, price, s
  <2> DEFINE pct == IF sig.pct = 0 THEN DefaultPct ELSE sig.pct
             unit == price * (FeeScale + BuyFee)
             shares == Lot * (Less(Capital * pct, b.cash * 95) \div (100 * unit * Lot))
             cost == shares * unit
             rec == Record(sig, price, shares, cost)
  <2>2. pct \in Nat /\ Lot \in Nat \ {0} /\ Capital \in Nat /\ FeeScale + BuyFee \in Nat \ {0}
    BY <1>2, BacktestDaysAssumption
  <2> HIDE DEF pct
  <2>3. unit \in Nat \ {0}
    BY <2>1, <2>2, NatArithmetic, Zenon
  <2>4. shares \in Nat
    <3> HIDE DEF unit
    <3>1. 100 * unit \in Nat \ {0}
      BY <2>3
    <3>2. 100 * unit * Lot \in Nat \ {0}
      BY <3>1, <2>2, NatArithmetic, Zenon
    <3>3. Capital * pct \in Nat
      BY <2>2, NatArithmetic, Zenon
    <3>4. b.cash * 95 \in Nat
      BY <1>5
    <3>5. Less(Capital * pct, b.cash * 95) \in Nat
      BY <3>3, <3>4, Zenon DEF Less
    <3>6. Less(Capital * pct, b.cash * 95) \div (100 * unit * Lot) \in Nat
      BY <3>2, <3>5, NatArithmetic, Zenon
    <3> QED BY <2>2, <3>6, NatArithmetic, Zenon
  <2> HIDE DEF unit
  <2>5. cost \in Nat /\ shares * price \in Nat
    <3> HIDE DEF shares
    <3>1. unit \in Nat /\ price \in Nat
      BY <2>1, <2>3
    <3> QED BY <2>4, <3>1, NatArithmetic, Zenon
  <2> DEFINE e == [cash |-> b.cash - cost,
                   held |-> [b.held EXCEPT ![s].shares = @ + shares,
                                           ![s].basis = @ + shares * price],
                   trades |-> Append(b.trades, rec)]
             Refused == b.cash * 200 < Capital * pct \/ shares = 0 \/ cost > b.cash
  <2>6. Bought(b, sig, price) = IF Refused THEN b ELSE e
    BY DEF Bought, pct, unit, s
  <2>7. c = e /\ ~ (cost > b.cash)
    <3> HIDE DEF e, c, shares, cost
    <3> QED BY <1>9, <2>1, <2>6
  <2> HIDE DEF c, shares, cost
  <2>8. rec \in TradeRecs /\ rec.type = "BUY" /\ rec.amount = cost
    BY <1>2, <1>3, <1>9, <2>1, <2>4, <2>5 DEF Record, TradeRecs, s
  <2>9. rec.day = simDay /\ rec.made = simDay - Lag /\ rec.stock = s
    BY <1>2 DEF Record, s
  <2>10. e.held \in [SimStocks -> [shares : Nat, basis : Nat]]
    <3> DEFINE w == shares * price
    <3>1. w \in Nat
      BY <2>5
    <3> HIDE DEF w
    <3> DEFINE H == [SimStocks -> [shares : Nat, basis : Nat]]
    <3>2. \A h \in H, x \in Nat : [h EXCEPT ![s].shares = @ + x] \in H
      BY <1>2
    <3>3. \A h \in H, y \in Nat : [h EXCEPT ![s].basis = @ + y] \in H
      BY <1>2
    <3> HIDE DEF H
    <3>4. b.held \in H
      BY <1>5 DEF H
    <3>5. [b.held EXCEPT ![s].shares = @ + shares] \in H
      BY <2>4, <3>2, <3>4, Zenon
    <3>6. [[b.held EXCEPT ![s].shares = @ + shares] EXCEPT ![s].basis = @ + w] \in H
      BY <3>1, <3>3, <3>5, Zenon
    <3>7. e.held = [[b.held EXCEPT ![s].shares = @ + shares] EXCEPT ![s].basis = @ + w]
      BY DEF w
    <3> HIDE DEF e
    <3> QED BY <3>6, <3>7 DEF H
  <2> HIDE DEF rec
  <2>11. e.cash \in Nat /\ e.cash = b.cash - rec.amount
    BY <1>5, <2>5, <2>7, <2>8
  <2>12. e.trades = Append(b.trades, rec) /\ e.trades \in Seq(TradeRecs)
    BY <1>5, <2>8
  <2>13. e \in Books
    <3>1. e = [cash |-> e.cash, held |-> e.held, trades |-> e.trades]
      OBVIOUS
    <3> HIDE DEF e
    <3> QED BY <2>10, <2>11, <2>12, <3>1 DEF Books
  <2>14. c \in Books /\ c.trades = Append(b.trades, rec) /\ c.cash = b.cash - rec.amount
    <3> HIDE DEF e
    <3> QED BY <2>7, <2>11, <2>12, <2>13
  <2>15. /\ rec.stock = signals[k + 1].stock
         /\ c.cash = IF rec.type = "BUY" THEN b.cash - rec.amount ELSE b.cash + rec.amount
    BY <2>8, <2>9, <2>14 DEF sig, s
  <2> HIDE DEF e
  <2> QED BY <1>3, <2>8, <2>9, <2>14, <2>15, TradeKeepsBook
<1>10. ASSUME c # b, sig.type # "BUY" PROVE GoodBook(c, Lag) /\ TradedBy(c, signals, k + 1, simDay)
  <2>1. c = Sold(b, sig, price) /\ price \in Nat \ {0} /\ sig.type = "SELL"
    BY <1>2, <1>7, <1>10 DEF Executed, q, price, s
  <2> DEFINE shares == b.held[s].shares
             proceeds == shares * price * (FeeScale - SellFee)
             rec == Record(sig, price, shares, proceeds)
             e == [cash |-> b.cash + proceeds, held |-> [b.held EXCEPT ![s] = Flat0],
                   trades |-> Append(b.trades, rec)]
  <2>2. Sold(b, sig, price) = IF ~ Holding(b, s) THEN b ELSE e
    BY DEF Sold, s
  <2>3. c = e
    <3> HIDE DEF e, c
    <3> QED BY <1>10, <2>1, <2>2
  <2>4. proceeds \in Nat
    <3>1. FeeScale - SellFee \in Nat /\ shares \in Nat /\ price \in Nat
      BY <1>6, <2>1, BacktestDaysAssumption
    <3> HIDE DEF shares
    <3> QED BY <3>1, NatArithmetic, Zenon
  <2> HIDE DEF c, proceeds
  <2>5. rec \in TradeRecs /\ rec.type = "SELL" /\ rec.amount = proceeds
    BY <1>2, <1>3, <1>6, <2>1, <2>4 DEF Record, TradeRecs, s
  <2>6. rec.day = simDay /\ rec.made = simDay - Lag /\ rec.stock = s
    BY <1>2 DEF Record, s
  <2>7. e.held \in [SimStocks -> [shares : Nat, basis : Nat]]
    BY <1>2, <1>5 DEF Flat0
  <2> HIDE DEF rec
  <2>8. e.cash \in Nat /\ e.cash = b.cash + rec.amount
    BY <1>5, <2>4, <2>5
  <2>9. e.trades = Append(b.trades, rec) /\ e.trades \in Seq(TradeRecs)
    BY <1>5, <2>5
  <2>10. e \in Books
    <3>1. e = [cash |-> e.cash, held |-> e.held, trades |-> e.trades]
      OBVIOUS
    <3> HIDE DEF e
    <3> QED BY <2>7, <2>8, <2>9, <3>1 DEF Books
  <2>11. c \in Books /\ c.trades = Append(b.trades, rec) /\ c.cash = b.cash + rec.amount
    <3> HIDE DEF e
    <3> QED BY <2>3, <2>8, <2>9, <2>10
  <2>12. /\ rec.stock = signals[k + 1].stock
         /\ c.cash = IF rec.type = "BUY" THEN b.cash - rec.amount ELSE b.cash + rec.amount
    BY <2>5, <2>6, <2>11 DEF sig, s
  <2> HIDE DEF e
  <2> QED BY <1>3, <2>5, <2>6, <2>11, <2>12, TradeKeepsBook
<1> QED BY <1>8, <1>9, <1>10 DEF sig
-----------------------------------------------------------------------------
\* The books after each of a day's signals.
Executions(after, signals, book, quotes) ==
  after = [i \in 0..Len(signals) |->
             IF i = 0 THEN book ELSE Executed(after[i - 1], signals[i], quotes)]

(* There are such books for any signals.                                   *)
LEMMA ExecutionsExist ==
  ASSUME NEW signals, Len(signals) \in Nat, NEW book, NEW quotes
  PROVE  \E after : Executions(after, signals, book, quotes)
<1> DEFINE Up(g, n) == g = [i \in 0..n |-> IF i = 0 THEN book ELSE Executed(g[i - 1], signals[i], quotes)]
           N == {n \in Nat : \E g : Up(g, n)}
<1>1. 0 \in N
  <2>1. Up([i \in 0..0 |-> book], 0)
    OBVIOUS
  <2> QED BY <2>1
<1>2. ASSUME NEW n \in Nat, n \in N PROVE n + 1 \in N
  <2>1. PICK g : Up(g, n)
    BY <1>2
  <2> DEFINE Then(i) == IF i = 0 THEN book ELSE Executed(g[i - 1], signals[i], quotes)
             h == [i \in 0..(n + 1) |-> Then(i)]
  <2>2. \A i \in 0..n : g[i] = Then(i)
    BY <2>1
  <2>3. \A i \in 0..n : h[i] = g[i]
    BY <2>2
  <2>4. \A i \in 1..(n + 1) : h[i - 1] = g[i - 1]
    <3> HIDE DEF h
    <3> QED BY <2>3
  <2>5. Up(h, n + 1)
    <3>1. \A i \in 0..(n + 1) : Then(i) = IF i = 0 THEN book ELSE Executed(h[i - 1], signals[i], quotes)
      <4> SUFFICES ASSUME NEW i \in 0..(n + 1), i # 0
                   PROVE  Then(i) = Executed(h[i - 1], signals[i], quotes)
        OBVIOUS
      <4> HIDE DEF h
      <4>1. i \in 1..(n + 1)
        OBVIOUS
      <4>2. h[i - 1] = g[i - 1]
        BY <2>4, <4>1
      <4> QED BY <4>2
    <3>2. h = [i \in 0..(n + 1) |-> Then(i)]
      OBVIOUS
    <3> HIDE DEF h, Then
    <3> QED BY <3>1, <3>2
  <2>6. \E f : Up(f, n + 1)
    <3> HIDE DEF h, Up
    <3> QED BY <2>5
  <2> HIDE DEF Up
  <2> QED BY <2>6
<1>3. Nat \subseteq N
  <2> HIDE DEF N
  <2> QED BY <1>1, <1>2, NatInductionOnSets
<1>4. \E g : Up(g, Len(signals))
  BY <1>3
<1> QED BY <1>4 DEF Executions

(* A whole list of signals executed: the book stays a good one.            *)
LEMMA SignalsKeepBook ==
  ASSUME SimShape, NEW quotes \in SimMarkets, NEW signals, SignalsFor(signals, simDay - Lag),
         NEW book, GoodBook(book, Lag), TradedBy(book, signals, 0, simDay)
  PROVE  LET c == ExecuteSignals(signals, book, quotes)
         IN  GoodBook(c, Lag) /\ TradedBy(c, signals, Len(signals), simDay)
<1> DEFINE after == CHOOSE f : Executions(f, signals, book, quotes)
           Fine(n) == GoodBook(after[n], Lag) /\ TradedBy(after[n], signals, n, simDay)
           N == {n \in Nat : n <= Len(signals) => Fine(n)}
<1>1. ExecuteSignals(signals, book, quotes) = after[Len(signals)]
  BY DEF ExecuteSignals, Executions
<1>2. Len(signals) \in Nat
  BY DEF SignalsFor
<1>3. Executions(after, signals, book, quotes)
  BY <1>2, ExecutionsExist
<1> HIDE DEF after
<1>4. /\ after[0] = book
      /\ \A i \in 1..Len(signals) : after[i] = Executed(after[i - 1], signals[i], quotes)
  BY <1>2, <1>3 DEF Executions
<1>5. 0 \in N
  BY <1>4
<1>6. ASSUME NEW n \in Nat, n \in N PROVE n + 1 \in N
  <2> SUFFICES ASSUME n + 1 <= Len(signals) PROVE Fine(n + 1)
    OBVIOUS
  <2>1. Fine(n) /\ n + 1 \in 1..Len(signals) /\ (n + 1) - 1 = n
    BY <1>2, <1>6
  <2>2. after[n + 1] = Executed(after[n], signals[n + 1], quotes)
    BY <1>4, <2>1
  <2> DEFINE b == after[n]
  <2>3. GoodBook(b, Lag) /\ TradedBy(b, signals, n, simDay)
    BY <2>1
  <2> HIDE DEF b
  <2>4. LET c == Executed(b, signals[n + 1], quotes)
        IN  GoodBook(c, Lag) /\ TradedBy(c, signals, n + 1, simDay)
    BY <2>3, SignalKeepsBook
  <2> QED BY <2>2, <2>4 DEF b
<1>7. Nat \subseteq N
  <2> HIDE DEF N
  <2> QED BY <1>5, <1>6, NatInductionOnSets
<1> QED BY <1>1, <1>2, <1>7

(* The days of the records are numbers.                                    *)
LEMMA DaysAreNumbers ==
  ASSUME NEW b \in Books
  PROVE  \A t \in DOMAIN b.trades : b.trades[t].day \in Nat
<1>1. b.trades \in Seq(TradeRecs)
  BY DEF Books
<1>2. \A t \in DOMAIN b.trades : b.trades[t] \in TradeRecs
  BY <1>1
<1> QED BY <1>2 DEF TradeRecs

(* Before the first day nothing is pending, held or recorded.              *)
LEMMA SimStarts == SimInit => SimInv
<1> SUFFICES ASSUME SimInit PROVE SimInv
  OBVIOUS
<1>1. SimShape
  BY DEF SimInit, SimShape
<1>2. SignalsFor(<<>>, simDay - 1)
  BY DEF SignalsFor
<1>3. simBook.trades = <<>> /\ DOMAIN simBook.trades = {} /\ simBook.cash = Capital
  BY DEF SimInit
<1>4. simBook \in Books
  BY BacktestDaysAssumption DEF SimInit, Books, Flat0
<1>5. Balanced(simBook)
  <2>1. \A type : Matching(simBook, type) = {}
    BY <1>3 DEF Matching
  <2>2. \A type : Moved(simBook, type) = 0
    BY <2>1, SumOfNone DEF Moved
  <2> QED BY <1>3, <2>2, BacktestDaysAssumption DEF Balanced
<1> QED BY <1>1, <1>2, <1>3, <1>4, <1>5
        DEF SimInit, SimInv, PendingIsYesterdays, GoodBook, OnTime, OneSide, TradesAreDone

(* Every step of the simulation keeps the book a good one.                 *)
LEMMA SimKeeps == SimInv /\ [SimNext]_simVars => SimInv'
<1> SUFFICES ASSUME SimInv, [SimNext]_simVars PROVE SimInv'
  OBVIOUS
<1> USE DEF SimInv
<1>1. ASSUME NEW m \in SimMarkets, OpenDay(m) PROVE SimInv'
  <2>1. ~ simOpen /\ simOpen' = TRUE /\ simQuotes' = m /\ simPending' = <<>>
        /\ simDay' = simDay /\ simMode' = simMode
        /\ simBook' = ExecuteSignals(simPending, simBook, m)
    BY <1>1 DEF OpenDay
  <2>2. SimShape' /\ Lag' = Lag
    BY <2>1 DEF SimShape, Lag
  <2>3. SignalsFor(simPending, simDay - Lag)
    <3>1. CASE simMode = "OPEN_T1"
      BY <3>1 DEF PendingIsYesterdays, Lag
    <3>2. CASE simMode = "CLOSE_T"
      BY <3>2 DEF PendingIsYesterdays, SignalsFor
    <3> QED BY <3>1, <3>2 DEF SimShape
  <2>4. TradedBy(simBook, simPending, 0, simDay)
    BY <2>1 DEF TradedBy, TradesAreDone
  <2>5. LET c == ExecuteSignals(simPending, simBook, m)
        IN  GoodBook(c, Lag) /\ TradedBy(c, simPending, Len(simPending), simDay)
    BY <2>3, <2>4, SignalsKeepBook
  <2>6. GoodBook(simBook', Lag) /\ TradedBy(simBook', simPending, Len(simPending), simDay)
    BY <2>1, <2>5
  <2>7. GoodBook(simBook, Lag)'
    BY <2>2, <2>6 DEF GoodBook, Balanced, OnTime, OneSide, Moved, Matching
  <2>8. TradesAreDone'
    <3>1. CASE simMode = "OPEN_T1"
      BY <2>1, <2>6, <3>1 DEF TradedBy, TradesAreDone
    <3>2. CASE simMode = "CLOSE_T"
      <4>1. simPending = <<>> /\ 1..Len(simPending) = {}
        BY <3>2 DEF PendingIsYesterdays
      <4> QED BY <2>1, <2>6, <4>1 DEF TradedBy, TradesAreDone
    <3> QED BY <3>1, <3>2 DEF SimShape
  <2>9. PendingIsYesterdays'
    BY <2>1 DEF PendingIsYesterdays, SignalsFor
  <2> QED BY <2>2, <2>7, <2>8, <2>9
<1>2. ASSUME SkipSimDay PROVE SimInv'
  <2>1. simOpen /\ simOpen' = FALSE /\ simDay' = simDay + 1 /\ simMode' = simMode
        /\ simPending' = simPending /\ simBook' = simBook /\ simPending = <<>>
    BY <1>2 DEF SkipSimDay, PendingIsYesterdays
  <2>2. SimShape' /\ Lag' = Lag /\ PendingIsYesterdays'
    BY <2>1 DEF SimShape, Lag, PendingIsYesterdays, SignalsFor
  <2>3. \A t \in DOMAIN simBook.trades : simBook.trades[t].day < simDay + 1
    <3>1. \A t \in DOMAIN simBook.trades : simBook.trades[t].day \in Nat
      BY DaysAreNumbers DEF GoodBook
    <3> QED BY <3>1 DEF SimShape, TradesAreDone
  <2>4. TradesAreDone'
    BY <2>1, <2>3 DEF TradesAreDone
  <2> QED BY <2>1, <2>2, <2>4 DEF GoodBook, Balanced, OnTime, OneSide
<1>3. ASSUME NEW ranking \in SimRankings, NEW state \in DOMAIN AvailablePct, TradeSimDay(ranking, state)
      PROVE  SimInv'
  <2>1. PICK signals \in SignalsOf(ranking, simQuotes, state) : CloseDay(signals)
    BY <1>3 DEF TradeSimDay
  <2>2. simOpen /\ simQuotes \in SimMarkets /\ simDay \in Nat
    BY <1>3 DEF TradeSimDay, SimShape
  <2>3. SignalsFor(signals, simDay)
    BY <2>2, DaysSignals
  <2>4. /\ simPending' = IF simMode = "OPEN_T1" THEN signals ELSE simPending
        /\ simBook' = IF simMode = "OPEN_T1" THEN simBook
                      ELSE ExecuteSignals(signals, simBook, simQuotes)
        /\ simDay' = simDay + 1 /\ simOpen' = FALSE /\ simMode' = simMode
    BY <2>1 DEF CloseDay
  <2>5. SimShape' /\ Lag' = Lag
    BY <2>4 DEF SimShape, Lag
  <2>6. \A t \in DOMAIN simBook.trades : simBook.trades[t].day \in Nat
    BY DaysAreNumbers DEF GoodBook
  <2>7. CASE simMode = "OPEN_T1"
    <3>1. PendingIsYesterdays'
      <4>1. simDay' - 1 = simDay
        BY <2>2, <2>4
      <4> QED BY <2>3, <2>4, <2>7, <4>1 DEF PendingIsYesterdays, SignalsFor
    <3>2. TradesAreDone'
      BY <2>2, <2>4, <2>6, <2>7 DEF TradesAreDone
    <3> QED BY <2>4, <2>5, <2>7, <3>1, <3>2 DEF GoodBook, Balanced, OnTime, OneSide
  <2>8. CASE simMode = "CLOSE_T"
    <3>1. SignalsFor(signals, simDay - Lag) /\ TradedBy(simBook, signals, 0, simDay)
      BY <2>2, <2>3, <2>8 DEF Lag, TradedBy, TradesAreDone
    <3>2. LET c == ExecuteSignals(signals, simBook, simQuotes)
          IN  GoodBook(c, Lag) /\ TradedBy(c, signals, Len(signals), simDay)
      BY <2>2, <3>1, SignalsKeepBook
    <3>3. GoodBook(simBook', Lag) /\ TradedBy(simBook', signals, Len(signals), simDay)
      BY <2>4, <2>8, <3>2
    <3>4. \A t \in DOMAIN simBook'.trades : simBook'.trades[t].day < simDay + 1
      <4>1. \A t \in DOMAIN simBook'.trades : simBook'.trades[t].day \in Nat
        BY <3>3, DaysAreNumbers DEF GoodBook
      <4> QED BY <2>2, <3>3, <4>1 DEF TradedBy
    <3>5. TradesAreDone'
      BY <2>4, <3>4 DEF TradesAreDone
    <3>6. PendingIsYesterdays'
      BY <2>4, <2>8 DEF PendingIsYesterdays, SignalsFor
    <3> QED BY <2>5, <3>3, <3>5, <3>6 DEF GoodBook, Balanced, OnTime, OneSide, Moved, Matching
  <2> QED BY <2>7, <2>8 DEF SimShape
<1>4. CASE UNCHANGED simVars
  BY <1>4 DEF simVars, SimShape, PendingIsYesterdays, GoodBook, Balanced, OnTime, OneSide,
              Moved, Matching, TradesAreDone, Lag
<1> QED BY <1>1, <1>2, <1>3, <1>4 DEF SimNext

(* Cash is explained by the records and never overdrawn, no trade knows    *)
(* the future or is late, and nothing is sold on the day it was bought.    *)
THEOREM SimulationsAreHonest == SimSpec => []SimulationIsHonest
<1>1. SimInv => SimulationIsHonest
  <2> SUFFICES ASSUME SimInv PROVE SimulationIsHonest
    OBVIOUS
  <2>1. RecordsExplainCash
    BY DEF SimInv, GoodBook, Books, Balanced, RecordsExplainCash
  <2>2. NothingFromLater
    BY DEF SimInv, GoodBook, OnTime, Lag, NothingFromLater
  <2>3. NoSameDayRoundTrip
    BY DEF SimInv, GoodBook, OneSide, Matching, NoSameDayRoundTrip
  <2> QED BY <2>1, <2>2, <2>3 DEF SimulationIsHonest
<1> QED BY SimStarts, SimKeeps, <1>1, PTL DEF SimSpec
=============================================================================
