------------------------- MODULE MCAccountRequests -------------------------
(* Instances of AccountRequests for TLC: what the requests ask for.        *)
EXTENDS AccountRequests, TLC

CONSTANTS r1, r2, r3, r4, k1, k2, nokey, seed, none

Ask(kind, amount, key) == [kind |-> kind, amount |-> amount, key |-> key]

(* One deposit with a key, sent four times.                                *)
Retries == [r \in {r1, r2, r3, r4} |-> Ask("DEPOSIT", 5, k1)]

(* Two deposits with keys, one of them sent twice, and a purchase.         *)
Mixed == r1 :> Ask("DEPOSIT", 5, k1) @@ r2 :> Ask("DEPOSIT", 5, k1)
      @@ r3 :> Ask("DEPOSIT", 3, k2) @@ r4 :> Ask("BUY", 2, nokey)

(* A withdrawal, a void, two purchases.                                    *)
Others == r1 :> Ask("WITHDRAW", 6, nokey) @@ r2 :> Ask("BUY", 2, nokey)
       @@ r3 :> Ask("VOID", 1, nokey) @@ r4 :> Ask("BUY", 2, nokey)

(* Requests of which nothing is sent twice, or only with a key.            *)
MCPlans == {Retries, Mixed, Others}

TwoBuys == {r1 :> Ask("BUY", 2, nokey) @@ r2 :> Ask("BUY", 3, nokey)}
=============================================================================
