---------------------------- MODULE SignalStatus ----------------------------
(* What the status of a signal promises to its readers, whatever the          *)
(* interleaving of nightly runs, expiry scans and clicks: it starts NEW, it    *)
(* is never NEW again, only an open signal expires, and a click moves it       *)
(* along the table of legal transitions from a status the signal really had.   *)
(* Many signals may move in one step: a batch, or an expiry scan.              *)
CONSTANT Signals

VARIABLES status,    \* "NONE" until the row exists
          had        \* the statuses the signal has had

Open == {"NEW", "VIEWED"}
Statuses == {"NONE", "NEW", "VIEWED", "ACTED", "EXPIRED"}

ValidTransitions(old) == CASE old = "NEW"    -> {"VIEWED", "ACTED"}
                           [] old = "VIEWED" -> {"ACTED"}
                           [] old \in Statuses \ Open -> {}

StatusInit == /\ status = [s \in Signals |-> "NONE"]
              /\ had = [s \in Signals |-> {}]

Born(s) == status[s] = "NONE" /\ status'[s] = "NEW"

Expires(s) == status[s] \in Open /\ status'[s] = "EXPIRED"

Clicked(s) == \E old \in had[s] : status'[s] \in ValidTransitions(old)

Moves(s) == /\ Born(s) \/ Expires(s) \/ Clicked(s)
            /\ had'[s] = had[s] \cup {status'[s]}

Keeps(s) == status'[s] = status[s] /\ had'[s] = had[s]

StatusNext == \A s \in Signals : Moves(s) \/ Keeps(s)

StatusSpec == StatusInit /\ [][StatusNext]_<<status, had>>
=============================================================================
