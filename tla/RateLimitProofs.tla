--------------------------- MODULE RateLimitProofs ---------------------------
(***************************************************************************)
(* Proofs about RateLimit, for every rate, bucket and number of callers.   *)
(***************************************************************************)
EXTENDS RateLimit, TLAPS

(***************************************************************************)
(* The invariant: an account is as far as its bucket, a bucket that is not *)
(* there counts as a full one, and there is an account for every bucket.   *)
(***************************************************************************)
KeyInv(b, a) ==
    /\ b \in [exists : BOOLEAN, tokens : 0..Burst, last : Nat]
    /\ a \in [open : BOOLEAN, upTo : Nat, balance : Int]
    /\ ~b.exists => b.tokens = Burst
    /\ b.exists => a.open /\ a.upTo = b.last
    /\ a.open => b.tokens <= a.balance

LimiterInv == TypeOK /\ \A k \in Key : KeyInv(state[k], account[k])

LEMMA RateLimitTypes ==
    /\ Cost \in Nat \ {0} /\ Rate \in Nat \ {0} /\ Burst \in Nat /\ Ttl \in Nat
    /\ MaxTime \in Nat /\ MaxSetBacks \in Nat
BY RateLimitConstants

\* Time that passes refills something, and more than Ttl fills a bucket.
LEMMA Refills ==
    ASSUME NEW d \in Nat
    PROVE  /\ Rate * d \in Nat
           /\ d > Ttl => Rate * d >= Burst
<1>1. Rate \in Nat /\ Ttl \in Nat /\ Burst \in Nat /\ Rate * Ttl >= Burst
  BY RateLimitConstants
<1>2. Rate * d \in Nat
  BY <1>1
<1>3. ASSUME d > Ttl PROVE Rate * d >= Burst
  <2>1. PICK e \in Nat : d = Ttl + e
    <3>1. d - Ttl \in Nat /\ d = Ttl + (d - Ttl)
      BY <1>1, <1>3
    <3> QED BY <3>1
  <2>2. Rate * d = Rate * Ttl + Rate * e /\ Rate * e \in Nat
    BY <2>1, <1>1
  <2>3. Rate * Ttl \in Nat
    BY <1>1
  <2> QED BY <2>2, <2>3, <1>1
<1> QED BY <1>2, <1>3

\* A bucket and an account that were brought to the same time.
LEMMA KeyAt ==
    ASSUME NEW t \in Nat, NEW tokens \in 0..Burst, NEW balance \in Int, tokens <= balance
    PROVE  KeyInv([exists |-> TRUE, tokens |-> tokens, last |-> t],
                  [open |-> TRUE, upTo |-> t, balance |-> balance])
BY DEF KeyInv

\* What a call takes off the balance it takes off the bucket as well.
LEMMA Takes ==
    ASSUME NEW r \in 0..Burst, NEW balance \in Int, r <= balance, NEW m, NEW tokens,
           m = IF r >= Cost THEN 1 ELSE 0, tokens = IF r >= Cost THEN r - Cost ELSE r
    PROVE  /\ tokens \in 0..Burst /\ balance - Cost * m \in Int
           /\ tokens <= balance - Cost * m
<1>1. Cost \in Nat /\ Burst \in Nat
  BY RateLimitTypes
<1>2. CASE r >= Cost
  <2>1. m = 1 /\ tokens = r - Cost /\ Cost * m = Cost
    BY <1>1, <1>2
  <2> QED BY <1>1, <1>2, <2>1
<1>3. CASE ~(r >= Cost)
  <2>1. m = 0 /\ tokens = r /\ Cost * m = 0
    BY <1>1, <1>3
  <2> QED BY <1>1, <1>3, <2>1
<1> QED BY <1>2, <1>3

\* A bucket is never fuller than its account, on whatever path a call takes: an
\* account is booked to t, the bucket refilled, and a token taken or not.
LEMMA BookingKeeps ==
    ASSUME NEW b, NEW a, NEW t \in Nat, KeyInv(b, a)
    PROVE  KeyInv(Spent(b, t), Booked(a, t, IF Admits(b, t) THEN 1 ELSE 0))
<1> DEFINE m == IF Admits(b, t) THEN 1 ELSE 0
           tokens == IF Admits(b, t) THEN Refilled(b, t) - Cost ELSE Refilled(b, t)
           from == IF a.open THEN a ELSE OpenedAt(t)
           filled == from.balance + Rate * Elapsed(from.upTo, t)
<1>1. /\ b \in [exists : BOOLEAN, tokens : 0..Burst, last : Nat]
      /\ a \in [open : BOOLEAN, upTo : Nat, balance : Int]
      /\ Cost \in Nat /\ Burst \in Nat
  BY RateLimitTypes DEF KeyInv
<1>2. from.upTo \in Nat /\ from.balance \in Int
  BY <1>1 DEF OpenedAt
<1>3. Elapsed(from.upTo, t) \in Nat /\ Elapsed(b.last, t) \in Nat
  BY <1>1, <1>2 DEF Elapsed
<1>4. Rate * Elapsed(from.upTo, t) \in Nat /\ Rate * Elapsed(b.last, t) \in Nat
  BY <1>3, Refills
<1>5. Refilled(b, t) \in 0..Burst
  BY <1>1, <1>4 DEF Refilled
<1>6. filled \in Int
  BY <1>2, <1>4
<1>7. Refilled(b, t) <= filled
  <2>1. CASE b.exists
    <3>1. from = a /\ a.upTo = b.last /\ b.tokens <= a.balance
      BY <2>1 DEF KeyInv
    <3>2. Refilled(b, t) <= b.tokens + Rate * Elapsed(b.last, t)
      BY <2>1, <1>1, <1>4 DEF Refilled
    <3>3. filled = a.balance + Rate * Elapsed(b.last, t)
      BY <3>1
    <3> HIDE DEF filled
    <3> QED BY <3>1, <3>2, <3>3, <1>1, <1>4, <1>5
  <2>2. CASE ~b.exists
    <3>1. Refilled(b, t) = Burst /\ b.tokens = Burst
      BY <2>2 DEF Refilled, KeyInv
    <3>2. from.balance >= Burst
      BY <3>1, <1>1 DEF KeyInv, OpenedAt
    <3> QED BY <3>1, <3>2, <1>1, <1>2, <1>4
  <2> QED BY <2>1, <2>2
<1>8. /\ Spent(b, t) = [exists |-> TRUE, tokens |-> tokens, last |-> t]
      /\ Booked(a, t, m) = [open |-> TRUE, upTo |-> t, balance |-> filled - Cost * m]
  <2>1. Spent(b, t) = [exists |-> TRUE, tokens |-> tokens, last |-> t]
    BY DEF Spent
  <2>2. Booked(a, t, m) = [open |-> TRUE, upTo |-> t, balance |-> filled - Cost * m]
    <3>1. CASE a.open
      <4>1. from = a
        BY <3>1
      <4> HIDE DEF m
      <4>2. Booked(a, t, m) = [open |-> TRUE, upTo |-> t,
                               balance |-> (a.balance + Rate * Elapsed(a.upTo, t)) - Cost * m]
        BY <3>1 DEF Booked
      <4>3. filled = a.balance + Rate * Elapsed(a.upTo, t)
        BY <4>1
      <4> HIDE DEF filled
      <4> QED BY <4>2, <4>3, Zenon
    <3>2. CASE ~a.open
      <4>1. from = OpenedAt(t)
        BY <3>2
      <4> HIDE DEF m
      <4>2. Booked(a, t, m) = [open |-> TRUE, upTo |-> t,
              balance |-> (OpenedAt(t).balance + Rate * Elapsed(OpenedAt(t).upTo, t)) - Cost * m]
        BY <3>2 DEF Booked
      <4>3. filled = OpenedAt(t).balance + Rate * Elapsed(OpenedAt(t).upTo, t)
        BY <4>1
      <4> HIDE DEF filled
      <4> QED BY <4>2, <4>3, Zenon
    <3> QED BY <3>1, <3>2
  <2> QED BY <2>1, <2>2
<1>9. /\ m = IF Refilled(b, t) >= Cost THEN 1 ELSE 0
      /\ tokens = IF Refilled(b, t) >= Cost THEN Refilled(b, t) - Cost ELSE Refilled(b, t)
  BY DEF Admits
<1> HIDE DEF m, tokens, filled
<1>10. /\ tokens \in 0..Burst /\ filled - Cost * m \in Int
       /\ tokens <= filled - Cost * m
  BY <1>5, <1>6, <1>7, <1>9, Takes
<1>11. KeyInv(Spent(b, t), Booked(a, t, m))
  BY <1>8, <1>10, KeyAt
<1> QED BY <1>11 DEF m

\* Dropping a stale bucket: the time that has passed would have filled it.
LEMMA DroppingKeeps ==
    ASSUME NEW b, NEW a, NEW t \in Nat, KeyInv(b, a), Stale(b, t)
    PROVE  KeyInv(Absent, Booked(a, t, 0))
<1>1. /\ b \in [exists : BOOLEAN, tokens : 0..Burst, last : Nat]
      /\ a \in [open : BOOLEAN, upTo : Nat, balance : Int]
      /\ Cost \in Nat /\ Burst \in Nat /\ Ttl \in Nat
  BY RateLimitTypes DEF KeyInv
<1>2. a.open /\ a.upTo = b.last /\ b.tokens <= a.balance /\ t - b.last > Ttl
  BY DEF KeyInv, Stale
<1>3. Elapsed(a.upTo, t) \in Nat /\ Elapsed(a.upTo, t) > Ttl
  BY <1>1, <1>2 DEF Elapsed
<1> DEFINE gain == Rate * Elapsed(a.upTo, t)
<1>4. gain \in Nat /\ gain >= Burst
  BY <1>3, Refills
<1>5. Cost * 0 = 0
  BY <1>1
<1>6. Booked(a, t, 0) = [open |-> TRUE, upTo |-> t, balance |-> (a.balance + gain) - Cost * 0]
  BY <1>2 DEF Booked
<1> HIDE DEF gain
<1>7. (a.balance + gain) - Cost * 0 \in Int /\ (a.balance + gain) - Cost * 0 >= Burst
  BY <1>1, <1>2, <1>4, <1>5
<1> DEFINE rest == (a.balance + gain) - Cost * 0
<1>8. /\ Booked(a, t, 0) = [open |-> TRUE, upTo |-> t, balance |-> rest]
      /\ rest \in Int /\ rest >= Burst
  BY <1>6, <1>7
<1> HIDE DEF rest
<1>9. Absent \in [exists : BOOLEAN, tokens : 0..Burst, last : Nat]
      /\ ~Absent.exists /\ Absent.tokens = Burst
  BY <1>1 DEF Absent
<1>10. KeyInv(Absent, [open |-> TRUE, upTo |-> t, balance |-> rest])
  BY <1>1, <1>8, <1>9 DEF KeyInv
<1> QED BY <1>8, <1>10

\* A bucket that was dropped is treated like a bucket that was never there.
LEMMA CallKeeps ==
    ASSUME NEW b, NEW a, NEW t \in Nat, KeyInv(b, a)
    PROVE  KeyInv(Spent(Kept(b, t), t), Booked(a, t, IF Admits(Kept(b, t), t) THEN 1 ELSE 0))
<1>1. CASE ~Stale(b, t)
  BY <1>1, BookingKeeps DEF Kept
<1>2. CASE Stale(b, t)
  <2> DEFINE e == Booked(a, t, 0)
             m == IF Admits(Absent, t) THEN 1 ELSE 0
  <2>1. KeyInv(Absent, e)
    BY <1>2, DroppingKeeps
  <2>2. KeyInv(Spent(Absent, t), Booked(e, t, m))
    BY <2>1, BookingKeeps
  <2>3. Booked(e, t, m) = Booked(a, t, m)
    <3> DEFINE gain == Rate * Elapsed(a.upTo, t)
    <3>1. /\ a \in [open : BOOLEAN, upTo : Nat, balance : Int] /\ a.open
          /\ Cost \in Nat /\ m \in {0, 1}
      BY <1>2, RateLimitTypes DEF KeyInv, Stale
    <3>2. Elapsed(t, t) = 0 /\ Rate * 0 = 0 /\ Cost * 0 = 0 /\ Cost * m \in Int
      BY <3>1, RateLimitTypes DEF Elapsed
    <3>3. gain \in Nat
      <4>1. Elapsed(a.upTo, t) \in Nat
        BY <3>1 DEF Elapsed
      <4> QED BY <4>1, Refills
    <3>4. e = [open |-> TRUE, upTo |-> t, balance |-> (a.balance + gain) - Cost * 0]
      BY <3>1 DEF Booked
    <3>5. Booked(a, t, m) = [open |-> TRUE, upTo |-> t, balance |-> (a.balance + gain) - Cost * m]
      BY <3>1 DEF Booked
    <3> HIDE DEF e, m, gain
    <3>6. e.open /\ e.upTo = t /\ e.balance = a.balance + gain
      BY <3>1, <3>2, <3>3, <3>4
    <3>7. Booked(e, t, m) = [open |-> TRUE, upTo |-> t,
                             balance |-> (e.balance + Rate * Elapsed(t, t)) - Cost * m]
      BY <3>6 DEF Booked
    <3>8. (e.balance + Rate * Elapsed(t, t)) - Cost * m = (a.balance + gain) - Cost * m
      BY <3>1, <3>2, <3>3, <3>6
    <3> QED BY <3>5, <3>7, <3>8
  <2> QED BY <1>2, <2>2, <2>3 DEF Kept
<1> QED BY <1>1, <1>2

----------------------------------------------------------------------------
LEMMA LimiterInit == Init => LimiterInv
<1> SUFFICES ASSUME Init PROVE LimiterInv
  OBVIOUS
<1>1. KeyInv(Absent, Unopened)
  BY RateLimitTypes DEF KeyInv, Absent, Unopened
<1>2. TypeOK
  <2>1. pending \in [Caller -> {Idle} \cup [waits : {TRUE}, key : Key, at : Nat]]
    BY DEF Init
  <2>2. /\ state \in [Key -> [exists : BOOLEAN, tokens : 0..Burst, last : Nat]]
        /\ account \in [Key -> [open : BOOLEAN, upTo : Nat, balance : Int]]
    BY <1>1 DEF Init, KeyInv
  <2> QED BY <2>1, <2>2 DEF Init, TypeOK
<1>3. \A k \in Key : KeyInv(state[k], account[k])
  BY <1>1 DEF Init
<1> QED BY <1>2, <1>3 DEF LimiterInv

\* Under the lock: the call's own bucket, and those the sweep drops.
LEMMA AllowKeeps ==
    ASSUME LimiterInv, NEW c \in Caller, Allow(c)
    PROVE  LimiterInv'
<1> DEFINE t == pending[c].at
           k == pending[c].key
<1>1. t \in Nat /\ k \in Key /\ pending' = [pending EXCEPT ![c] = Idle]
  <2>1. pending[c] \in {Idle} \cup [waits : {TRUE}, key : Key, at : Nat]
    BY DEF LimiterInv, TypeOK
  <2>2. pending[c] # Idle
    <3>1. pending[c].waits /\ ~Idle.waits
      BY DEF Allow, Idle
    <3> QED BY <3>1
  <2>3. pending[c] \in [waits : {TRUE}, key : Key, at : Nat]
    BY <2>1, <2>2
  <2> QED BY <2>3 DEF Allow
<1>2. ASSUME NEW j \in Key PROVE KeyInv(state'[j], account'[j])
  <2>1. KeyInv(state[j], account[j])
    BY DEF LimiterInv
  <2>2. CASE j = k
    <3>1. /\ state'[j] = Spent(Kept(state[j], t), t)
          /\ account'[j] = Booked(account[j], t, IF Admits(Kept(state[j], t), t) THEN 1 ELSE 0)
      BY <2>2 DEF Allow
    <3> QED BY <3>1, <2>1, <1>1, CallKeeps
  <2>3. CASE j # k /\ Stale(state[j], t)
    <3>1. state'[j] = Absent /\ account'[j] = Booked(account[j], t, 0)
      BY <2>3 DEF Allow, Kept
    <3> QED BY <3>1, <2>1, <2>3, <1>1, DroppingKeeps
  <2>4. CASE j # k /\ ~Stale(state[j], t)
    <3>1. state'[j] = state[j] /\ account'[j] = account[j]
      BY <2>4 DEF Allow, Kept
    <3> QED BY <3>1, <2>1
  <2> QED BY <2>2, <2>3, <2>4
<1>3. /\ state' = [j \in Key |-> state'[j]] /\ account' = [j \in Key |-> account'[j]]
  BY DEF Allow
<1>4. /\ state' \in [Key -> [exists : BOOLEAN, tokens : 0..Burst, last : Nat]]
      /\ account' \in [Key -> [open : BOOLEAN, upTo : Nat, balance : Int]]
  BY <1>2, <1>3 DEF KeyInv
<1>5. pending' \in [Caller -> {Idle} \cup [waits : {TRUE}, key : Key, at : Nat]]
  BY <1>1 DEF LimiterInv, TypeOK
<1>6. now' \in Nat /\ setBacks' \in Nat
  BY DEF LimiterInv, TypeOK, Allow
<1>7. TypeOK'
  BY <1>4, <1>5, <1>6 DEF TypeOK
<1> QED BY <1>2, <1>7 DEF LimiterInv

LEMMA LimiterStep == LimiterInv /\ [Next]_vars => LimiterInv'
<1> SUFFICES ASSUME LimiterInv, [Next]_vars PROVE LimiterInv'
  OBVIOUS
<1>1. ASSUME NEW c \in Caller, ReadClock(c) PROVE LimiterInv'
  <2>1. PICK k \in Key : pending' = [pending EXCEPT ![c] = [waits |-> TRUE, key |-> k, at |-> now]]
    BY <1>1 DEF ReadClock
  <2>2. [waits |-> TRUE, key |-> k, at |-> now] \in [waits : {TRUE}, key : Key, at : Nat]
    BY DEF LimiterInv, TypeOK
  <2>3. pending' \in [Caller -> {Idle} \cup [waits : {TRUE}, key : Key, at : Nat]]
    BY <2>1, <2>2 DEF LimiterInv, TypeOK
  <2>4. TypeOK' /\ state' = state /\ account' = account
    BY <1>1, <2>3 DEF ReadClock, LimiterInv, TypeOK
  <2> QED BY <2>4 DEF LimiterInv
<1>2. ASSUME NEW c \in Caller, Allow(c) PROVE LimiterInv'
  BY <1>2, AllowKeeps
<1>3. ASSUME NEW k \in Key, OpenAccount(k) PROVE LimiterInv'
  <2>1. ASSUME NEW j \in Key PROVE KeyInv(state[j], account'[j])
    <3>1. KeyInv(state[j], account[j]) /\ account \in [Key -> [open : BOOLEAN, upTo : Nat, balance : Int]]
      BY <2>1 DEF LimiterInv, TypeOK
    <3>2. CASE j = k
      <4>1. account'[j] = OpenedAt(account[j].upTo)
        BY <1>3, <3>1, <3>2 DEF OpenAccount
      <4>2. KeyInv(state[j], OpenedAt(account[j].upTo))
        BY <1>3, <3>1, <3>2, RateLimitTypes DEF KeyInv, OpenedAt, OpenAccount
      <4> QED BY <4>1, <4>2
    <3>3. CASE j # k
      BY <1>3, <2>1, <3>1, <3>3 DEF OpenAccount
    <3> QED BY <3>2, <3>3
  <2>2. account' \in [Key -> [open : BOOLEAN, upTo : Nat, balance : Int]]
    BY <1>3, RateLimitTypes DEF OpenAccount, LimiterInv, TypeOK, OpenedAt
  <2> QED BY <1>3, <2>1, <2>2 DEF OpenAccount, LimiterInv, TypeOK
<1>4. CASE Tick
  <2>0. now' \in Nat /\ UNCHANGED <<setBacks, state, pending, account>>
    BY <1>4 DEF Tick, LimiterInv, TypeOK
  <2>1. TypeOK' /\ state' = state /\ account' = account
    BY <2>0 DEF LimiterInv, TypeOK
  <2> QED BY <2>1 DEF LimiterInv
<1>5. CASE SetBack
  <2>1. now' \in Nat
    <3>1. PICK u \in 0..(now - 1) : now' = u
      BY <1>5 DEF SetBack
    <3> QED BY <3>1 DEF LimiterInv, TypeOK
  <2>2. TypeOK' /\ state' = state /\ account' = account
    <3>1. setBacks' \in Nat /\ UNCHANGED <<state, pending, account>>
      BY <1>5 DEF SetBack, LimiterInv, TypeOK
    <3> QED BY <2>1, <3>1 DEF LimiterInv, TypeOK
  <2> QED BY <2>2 DEF LimiterInv
<1>6. CASE UNCHANGED vars
  BY <1>6 DEF vars, LimiterInv, TypeOK
<1> QED BY <1>1, <1>2, <1>3, <1>4, <1>5, <1>6 DEF Next

\* The types of the limiter.
THEOREM RateLimitTyped == Spec => []TypeOK
<1>1. Init => LimiterInv
  BY LimiterInit
<1>2. LimiterInv /\ [Next]_vars => LimiterInv'
  BY LimiterStep
<1>3. LimiterInv => TypeOK
  BY DEF LimiterInv
<1> QED BY <1>1, <1>2, <1>3, PTL DEF Spec

\* docs/m3-ssh-protocol.md, rate limits: for every key, every clock and every order
\* of the calls, what is granted since any moment stays within the budget (Allow).
THEOREM LimiterWithinBudget == Spec => []WithinBudget
<1>1. Init => LimiterInv
  BY LimiterInit
<1>2. LimiterInv /\ [Next]_vars => LimiterInv'
  BY LimiterStep
<1>3. LimiterInv => WithinBudget
  <2> SUFFICES ASSUME LimiterInv, NEW k \in Key, account[k].open
               PROVE  account[k].balance >= 0 /\ state[k].tokens <= account[k].balance
    BY DEF WithinBudget
  <2> QED BY RateLimitTypes DEF LimiterInv, KeyInv
<1> QED BY <1>1, <1>2, <1>3, PTL DEF Spec
===============================================================================
