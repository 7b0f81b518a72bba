-------------------------- MODULE NotificationInbox --------------------------
(***************************************************************************)
(* The in-app notifications as the browser shows them: rows of the table   *)
(* in_app_notification that belong to the system (account NULL) or to one  *)
(* account, the queries and marks of api/v1/notifications.py, and the bell *)
(* of NotificationBell.vue, which polls the count every thirty seconds,    *)
(* loads the list when it is opened and corrects its badge by itself when  *)
(* an item is clicked.  get_db commits after the answer has been sent.     *)
(***************************************************************************)
EXTENDS Naturals, FiniteSets

CONSTANTS
    Inboxes,        \* the accounts
    Pages,          \* bound: those whose page is followed, the others only mark
    System,         \* the owner of a row whose account_id is NULL
    NoOwner,        \* the row does not exist yet
    LastNote,       \* bound: rows are numbered in the order they are created
    ListLimit,      \* rows the bell loads (10 in the code)
    MaxMarks        \* bound: clicks of all users and requests that fail

ASSUME InboxAssumption ==
    /\ Pages \subseteq Inboxes
    /\ System \notin Inboxes /\ NoOwner \notin Inboxes /\ System # NoOwner
    /\ {LastNote, ListLimit, MaxMarks} \subseteq Nat

VARIABLES
    notes,          \* the table: owner of each row and whether read_at is set
    marks,          \* transactions answered and not committed: who, which rows
    bell,           \* per browser: page open, badge, the items loaded and if read
    asked,          \* per browser and kind of request: where the request is
    marksLeft

inboxVars == <<notes, marks, bell, asked, marksLeft>>

Notes    == 1 .. LastNote
Requests == {"poll", "list", "mark", "all"}
Idle     == [at |-> "idle", rows |-> <<>>, unread |-> 0, note |-> 0, shown |-> 0]

InboxInit ==
    /\ notes = [n \in Notes |-> [owner |-> NoOwner, read |-> FALSE]]
    /\ marks = {}
    /\ bell = [a \in Pages |-> [open |-> FALSE, badge |-> 0, items |-> <<>>]]
    /\ asked = [a \in Pages |-> [q \in Requests |-> Idle]]
    /\ marksLeft = MaxMarks

----------------------------------------------------------------------------
(* The queries.                                                            *)

Exists(n)  == notes[n].owner # NoOwner
Visible(a) == {n \in Notes : notes[n].owner \in {System, a}}

(* Faulty variant of Unread: the count without the account's clause.       *)
UnreadOfAll(a) == {n \in Notes : Exists(n) /\ ~notes[n].read}

(* count_unread and the condition of mark_all_read.                        *)
Unread(a)  == {n \in Visible(a) : ~notes[n].read}

(* list_notifications: the newest visible rows, each with its read_at.     *)
NewestNotes(a) ==
    LET newest == {n \in Visible(a) : Cardinality({m \in Visible(a) : m > n}) < ListLimit}
    IN [n \in newest |-> notes[n].read]

----------------------------------------------------------------------------
(* The services that write notifications.                                  *)

\* A committed notify: a row of the system or of one account, not read.
NewNote ==
    \E n \in Notes, o \in Inboxes \cup {System} :
        /\ ~Exists(n) /\ \A m \in 1 .. (n - 1) : Exists(m)
        /\ notes' = [notes EXCEPT ![n].owner = o]
        /\ UNCHANGED <<marks, bell, asked, marksLeft>>

----------------------------------------------------------------------------
(* The browser.                                                            *)

Ask(a, q, r) == asked' = [asked EXCEPT ![a][q] = r]
Showing(a)   == DOMAIN bell[a].items

\* onMounted: the page is opened and stays open.
OpenPage(a) ==
    /\ ~bell[a].open /\ bell' = [bell EXCEPT ![a].open = TRUE]
    /\ UNCHANGED <<notes, marks, asked, marksLeft>>

\* setInterval(refreshCount) and GET /unread-count: the client gives up after
\* half the interval, so one poll is under way at most.  What the browser shows
\* changes with the answer only, so the request is counted from its query on.
Poll(a) ==
    /\ bell[a].open /\ asked[a]["poll"].at = "idle"
    /\ Ask(a, "poll", [Idle EXCEPT !.at = "answered", !.unread = Cardinality(Unread(a))])
    /\ UNCHANGED <<notes, marks, bell, marksLeft>>

\* The dropdown is opened, GET /notifications: the rows first, the unread count
\* by a later query (AnswerList).
OpenBell(a) ==
    /\ bell[a].open /\ marksLeft > 0 /\ asked[a]["list"].at = "idle"
    /\ Ask(a, "list", [Idle EXCEPT !.at = "selected", !.rows = NewestNotes(a)])
    /\ marksLeft' = marksLeft - 1
    /\ UNCHANGED <<notes, marks, bell>>

\* onClickItem returns for an item it shows as read.
ClickItem(a) ==
    /\ marksLeft > 0 /\ asked[a]["mark"].at = "idle"
    /\ \E n \in Showing(a) :
           /\ ~bell[a].items[n]
           /\ Ask(a, "mark", [Idle EXCEPT !.at = "sent", !.note = n, !.shown = n])
    /\ marksLeft' = marksLeft - 1
    /\ UNCHANGED <<notes, marks, bell>>

\* The button is disabled while the badge shows nothing.
ClickAll(a) ==
    /\ marksLeft > 0 /\ asked[a]["all"].at = "idle" /\ bell[a].badge > 0
    /\ Ask(a, "all", [Idle EXCEPT !.at = "sent"])
    /\ marksLeft' = marksLeft - 1
    /\ UNCHANGED <<notes, marks, bell>>

----------------------------------------------------------------------------
(* The server: one action per statement that another request can see apart.*)

AnswerList(a) ==
    /\ asked[a]["list"].at = "selected"
    /\ Ask(a, "list", [asked[a]["list"] EXCEPT !.at = "answered",
                                              !.unread = Cardinality(Unread(a))])
    /\ UNCHANGED <<notes, marks, bell, marksLeft>>

\* POST /{id}/read of a visible row, POST /read-all: the update is answered
\* before it is committed.  A row that is read already is left alone; a row
\* that is not visible is answered with 404.
MarkOne(a) ==
    LET q == asked[a]["mark"]
    IN /\ q.at = "sent" /\ q.note \in Visible(a)
       /\ marks' = marks \cup {[by |-> a, rows |-> {q.note} \cap Unread(a)]}
       /\ Ask(a, "mark", [q EXCEPT !.at = "answered"])
       /\ UNCHANGED <<notes, bell, marksLeft>>

(* Faulty variant of MarkedByAll: every unread row, whoever owns it.       *)
MarkedOfAll(a) == {n \in Notes : Exists(n) /\ ~notes[n].read}

MarkedByAll(a) == Unread(a)

MarkAll(a) ==
    /\ asked[a]["all"].at = "sent"
    /\ marks' = marks \cup {[by |-> a, rows |-> MarkedByAll(a)]}
    /\ Ask(a, "all", [Idle EXCEPT !.at = "answered"])
    /\ UNCHANGED <<notes, bell, marksLeft>>

\* The same request of an account whose page is not followed.
MarkElsewhere(b) ==
    /\ marksLeft > 0 /\ marksLeft' = marksLeft - 1
    /\ marks' = marks \cup {[by |-> b, rows |-> MarkedByAll(b)]}
    /\ UNCHANGED <<notes, bell, asked>>

CommitMark ==
    \E t \in marks :
        /\ notes' = [n \in Notes |-> [notes[n] EXCEPT !.read = @ \/ n \in t.rows]]
        /\ marks' = marks \ {t}
        /\ UNCHANGED <<bell, asked, marksLeft>>

----------------------------------------------------------------------------
(* The answers reach the browser.                                          *)

ShowCount(a) ==
    /\ asked[a]["poll"].at = "answered"
    /\ bell' = [bell EXCEPT ![a].badge = asked[a]["poll"].unread]
    /\ Ask(a, "poll", Idle)
    /\ UNCHANGED <<notes, marks, marksLeft>>

\* The items loaded now are new objects: a mark under way holds one of the old.
ShowList(a) ==
    /\ asked[a]["list"].at = "answered"
    /\ bell' = [bell EXCEPT ![a].badge = asked[a]["list"].unread,
                            ![a].items = asked[a]["list"].rows]
    /\ asked' = [asked EXCEPT ![a]["list"] = Idle, ![a]["mark"].shown = 0]
    /\ UNCHANGED <<notes, marks, marksLeft>>

\* The badge is lowered by hand, whatever was counted in the meantime; an item
\* of a list loaded since keeps what it was loaded with.
ShowMarked(a) ==
    LET shown == asked[a]["mark"].shown
    IN /\ asked[a]["mark"].at = "answered"
       /\ bell' = [bell EXCEPT
              ![a].badge = IF @ > 0 THEN @ - 1 ELSE 0,
              ![a].items = [n \in DOMAIN @ |-> @[n] \/ n = shown]]
       /\ Ask(a, "mark", Idle)
       /\ UNCHANGED <<notes, marks, marksLeft>>

\* markAllRead succeeded: loadRecent, perhaps before the commit.
ShowAllMarked(a) ==
    /\ asked[a]["all"].at = "answered" /\ asked[a]["list"].at = "idle"
    /\ asked' = [asked EXCEPT ![a]["all"] = Idle,
                              ![a]["list"] = [Idle EXCEPT !.at = "selected",
                                                          !.rows = NewestNotes(a)]]
    /\ UNCHANGED <<notes, marks, bell, marksLeft>>

\* A request fails on its way: a poll silently, the others with a message;
\* nothing on the page changes.
RequestFails(a) ==
    /\ marksLeft > 0 /\ marksLeft' = marksLeft - 1
    /\ \E q \in Requests : asked[a][q].at # "idle" /\ Ask(a, q, Idle)
    /\ UNCHANGED <<notes, marks, bell>>

BellStep(a) ==
    \/ Poll(a) \/ ShowCount(a) \/ AnswerList(a) \/ ShowList(a)
    \/ MarkOne(a) \/ ShowMarked(a) \/ MarkAll(a) \/ ShowAllMarked(a)
UserStep(a) == OpenPage(a) \/ OpenBell(a) \/ ClickItem(a) \/ ClickAll(a) \/ RequestFails(a)

InboxNext ==
    \/ NewNote \/ CommitMark
    \/ \E a \in Pages : BellStep(a) \/ UserStep(a)
    \/ \E b \in Inboxes \ Pages : MarkElsewhere(b)

\* The timer runs while the page is open, the server answers and commits, and
\* the browser handles what it is sent.  Nobody has to click or to write.
InboxFairness ==
    /\ WF_inboxVars(CommitMark)
    /\ \A a \in Pages :
           /\ WF_inboxVars(Poll(a)) /\ WF_inboxVars(ShowCount(a))
           /\ WF_inboxVars(AnswerList(a) \/ ShowList(a))
           /\ WF_inboxVars(MarkOne(a) \/ ShowMarked(a))
           /\ WF_inboxVars(MarkAll(a) \/ ShowAllMarked(a))

InboxSpec == InboxInit /\ [][InboxNext]_inboxVars /\ InboxFairness

----------------------------------------------------------------------------
BelongsTo(n, a) == notes[n].owner \in {System, a}

\* An account sees and marks rows of the system and its own, whatever order the
\* requests of the accounts, their commits and the writers take
\* (_visible_clause in every query of NotificationService).
InboxIsPrivate ==
    [][/\ \A a \in Pages : Showing(a)' \subseteq {n \in Notes : BelongsTo(n, a)}
       /\ \A n \in Notes :
              notes'[n].read /\ ~notes[n].read
              => \E t \in marks : n \in t.rows /\ BelongsTo(n, t.by)]_inboxVars

\* Once nobody writes or clicks any more, every badge comes to show the number
\* of unread rows of its account and keeps showing it, whatever stale counts,
\* late marks and failed polls came before (下次轮询会自愈, NotificationBell.vue:27).
BellHeals ==
    <>[](\A a \in Pages : bell[a].open =>
            bell[a].badge = Cardinality({n \in Notes : BelongsTo(n, a) /\ ~notes[n].read}))
=============================================================================
