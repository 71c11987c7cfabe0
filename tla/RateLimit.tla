------------------------------ MODULE RateLimit ------------------------------
(***************************************************************************)
(* The token buckets of the server (src/cmd/server/rate_limit.go): one     *)
(* limiter, any number of callers.                                         *)
(*                                                                         *)
(* Allow reads the clock first and takes the lock afterwards, so calls may *)
(* enter in another order than they read the clock.  The clock is the wall *)
(* clock (time.Now().UTC() has no monotonic reading) and may be set back.  *)
(*                                                                         *)
(* Tokens are counted in parts, so that a tick refills a whole number.     *)
(***************************************************************************)
EXTENDS Integers

CONSTANTS
    Key,        \* hosts, or players
    Caller,     \* calls of Allow in progress at a time
    Cost,       \* the parts one token has
    Rate,       \* the parts a tick refills
    Burst,      \* the parts of a full bucket
    Ttl,        \* ticks after which an unused bucket is dropped
    MaxTime,    \* bound on the clock
    MaxSetBacks \* bound on how often it is set back

ASSUME RateLimitConstants ==
    /\ Cost \in Nat \ {0} /\ Rate \in Nat \ {0} /\ Burst \in Nat /\ Ttl \in Nat
    /\ Rate * Ttl >= Burst          \* 15 minutes fill every bucket of the server
    /\ MaxTime \in Nat /\ MaxSetBacks \in Nat

VARIABLES
    now,        \* the clock
    setBacks,   \* how often it was set back
    state,      \* the buckets, by key
    pending,    \* calls that have read the clock and not yet the lock
    account     \* history: what each key may still be granted

vars == <<now, setBacks, state, pending, account>>

Absent == [exists |-> FALSE, tokens |-> Burst, last |-> 0]
Idle   == [waits |-> FALSE]

(***************************************************************************)
(* The account of a key is what it could still be granted by a bucket of   *)
(* the same rate that never overflows and was full when the account was    *)
(* opened: with its first call, and again whenever one likes.  upTo is the *)
(* time to which refills are in it.                                        *)
(***************************************************************************)
Unopened    == [open |-> FALSE, upTo |-> 0, balance |-> 0]
OpenedAt(t) == [open |-> TRUE, upTo |-> t, balance |-> Burst]

Elapsed(from, to) == IF to > from THEN to - from ELSE 0

Booked(a, t, n) ==
    LET from == IF a.open THEN a ELSE OpenedAt(t)
    IN  [open    |-> TRUE,
         upTo    |-> t,
         balance |-> (from.balance + Rate * Elapsed(from.upTo, t)) - Cost * n]

Init ==
    /\ now = 0
    /\ setBacks = 0
    /\ state = [k \in Key |-> Absent]
    /\ pending = [c \in Caller |-> Idle]
    /\ account = [k \in Key |-> Unopened]

----------------------------------------------------------------------------
ReadClock(c) ==
    /\ ~pending[c].waits
    /\ \E k \in Key : pending' = [pending EXCEPT ![c] = [waits |-> TRUE, key |-> k, at |-> now]]
    /\ UNCHANGED <<now, setBacks, state, account>>

\* A bucket nobody has used for longer than Ttl is dropped by whoever comes by.
Stale(b, t) == b.exists /\ t - b.last > Ttl

Kept(b, t) == IF Stale(b, t) THEN Absent ELSE b

\* A bucket that is absent is a full one; one whose time is later gains nothing.
Refilled(b, t) ==
    LET more == b.tokens + Rate * Elapsed(b.last, t)
    IN  IF ~b.exists \/ more > Burst THEN Burst ELSE more

Admits(b, t) == Refilled(b, t) >= Cost

\* Fault: a refused call adds its refill and leaves the time as it was.
SpentIfAdmitted(b, t) ==
    IF Admits(b, t)
    THEN [exists |-> TRUE, tokens |-> Refilled(b, t) - Cost, last |-> t]
    ELSE [exists |-> TRUE, tokens |-> Refilled(b, t), last |-> IF b.exists THEN b.last ELSE t]

\* The bucket's time becomes the caller's, even if that is the earlier one.
Spent(b, t) ==
    [exists |-> TRUE,
     tokens |-> IF Admits(b, t) THEN Refilled(b, t) - Cost ELSE Refilled(b, t),
     last   |-> t]

\* The rest of Allow, under the lock: the sweep over all buckets, then the call's.
Allow(c) ==
    /\ pending[c].waits
    /\ LET t == pending[c].at
           k == pending[c].key
           b == Kept(state[k], t)
       IN  /\ state' = [j \in Key |-> IF j = k THEN Spent(b, t) ELSE Kept(state[j], t)]
           /\ account' = [j \in Key |->
                CASE j = k -> Booked(account[j], t, IF Admits(b, t) THEN 1 ELSE 0)
                  [] j # k /\ Stale(state[j], t) -> Booked(account[j], t, 0)
                  [] OTHER -> account[j]]
    /\ pending' = [pending EXCEPT ![c] = Idle]
    /\ UNCHANGED <<now, setBacks>>

\* History only: start counting anew.
OpenAccount(k) ==
    /\ account[k].open
    /\ account' = [account EXCEPT ![k] = OpenedAt(account[k].upTo)]
    /\ UNCHANGED <<now, setBacks, state, pending>>

Tick ==
    /\ now < MaxTime
    /\ now' = now + 1
    /\ UNCHANGED <<setBacks, state, pending, account>>

SetBack ==
    /\ setBacks < MaxSetBacks
    /\ \E t \in 0..(now - 1) : now' = t
    /\ setBacks' = setBacks + 1
    /\ UNCHANGED <<state, pending, account>>

Next ==
    \/ \E c \in Caller : ReadClock(c) \/ Allow(c)
    \/ \E k \in Key : OpenAccount(k)
    \/ Tick \/ SetBack

Spec == Init /\ [][Next]_vars

----------------------------------------------------------------------------
TypeOK ==
    /\ now \in Nat
    /\ setBacks \in Nat
    /\ state \in [Key -> [exists : BOOLEAN, tokens : 0..Burst, last : Nat]]
    /\ pending \in [Caller -> {Idle} \cup [waits : {TRUE}, key : Key, at : Nat]]
    /\ account \in [Key -> [open : BOOLEAN, upTo : Nat, balance : Int]]

\* docs/m3-ssh-protocol.md, rate limits.  Whatever moment one starts to count at, a key is
\* granted no more than a full bucket and what the time that has passed refills (Allow).
\* Time that passes twice refills twice: a call was overtaken between the clock and
\* the lock, or the clock was set back.  Dropping an unused bucket gives nothing away.
WithinBudget ==
    \A k \in Key :
        account[k].open => /\ account[k].balance >= 0
                           /\ state[k].tokens <= account[k].balance
============================================================================
