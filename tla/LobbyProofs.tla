---------------------------- MODULE LobbyProofs ----------------------------
(***************************************************************************)
(* What the lobby guarantees for every number of players and connections,  *)
(* every timeout and every clock.                                          *)
(***************************************************************************)
EXTENDS Lobby, FiniteSetTheorems, FunctionTheorems, TLAPS

(***************************************************************************)
(* The filter.  pick[n] is the position in q of the n-th element that is   *)
(* kept; it enumerates the kept positions in increasing order.             *)
(***************************************************************************)
Kept(q, keep) == KeptUpTo(q, keep, Len(q))
Pick(q, keep) ==
    [n \in 1..Cardinality(Kept(q, keep)) |->
        CHOOSE i \in Kept(q, keep) : Cardinality(KeptUpTo(q, keep, i)) = n]

\* Each prefix of a sequence has finitely many kept positions, at most as many
\* as the whole, and strictly more when one of them is added.
LEMMA KeptFinite ==
    ASSUME NEW S, NEW q \in Seq(S), NEW keep, NEW i \in 0..Len(q)
    PROVE  /\ IsFiniteSet(KeptUpTo(q, keep, i))
           /\ Cardinality(KeptUpTo(q, keep, i)) \in Nat
           /\ KeptUpTo(q, keep, i) \subseteq Kept(q, keep)
<1>1. Len(q) \in Nat
  OBVIOUS
<1>2. KeptUpTo(q, keep, i) \in SUBSET (1..i)
  BY DEF KeptUpTo
<1>3. IsFiniteSet(1..i)
  BY <1>1, FS_Interval
<1>4. IsFiniteSet(KeptUpTo(q, keep, i))
  BY <1>2, <1>3, FS_Subset
<1>5. KeptUpTo(q, keep, i) \subseteq Kept(q, keep)
  BY <1>1 DEF KeptUpTo, Kept
<1>6. QED
  BY <1>4, <1>5, FS_CardinalityType

LEMMA KeptIncreases ==
    ASSUME NEW S, NEW q \in Seq(S), NEW keep,
           NEW i \in Kept(q, keep), NEW j \in Kept(q, keep), i < j
    PROVE  Cardinality(KeptUpTo(q, keep, i)) < Cardinality(KeptUpTo(q, keep, j))
<1> DEFINE A == KeptUpTo(q, keep, i)
           B == KeptUpTo(q, keep, j)
<1>1. i \in 0..Len(q) /\ j \in 0..Len(q) /\ Len(q) \in Nat /\ i \in Nat /\ j \in Nat
  BY DEF Kept, KeptUpTo
<1>2. IsFiniteSet(A) /\ IsFiniteSet(B) /\ Cardinality(A) \in Nat /\ Cardinality(B) \in Nat
  BY <1>1, KeptFinite
<1>3. A \in SUBSET B
  BY <1>1 DEF KeptUpTo
<1>4. j \in B /\ j \notin A
  BY <1>1 DEF KeptUpTo, Kept
<1>5. Cardinality(A) <= Cardinality(B) /\ Cardinality(A) # Cardinality(B)
  BY <1>2, <1>3, <1>4, FS_Subset
<1>6. QED
  BY <1>2, <1>5

\* Pick is an increasing bijection between 1..n and the n kept positions.
LEMMA PickEnumerates ==
    ASSUME NEW S, NEW q \in Seq(S), NEW keep
    PROVE  LET n == Cardinality(Kept(q, keep))
               pick == Pick(q, keep)
           IN  /\ n \in Nat
               /\ pick \in [1..n -> Kept(q, keep)]
               /\ \A k, l \in 1..n : k < l => pick[k] < pick[l]
               /\ \A i \in Kept(q, keep) : \E k \in 1..n : pick[k] = i
<1> DEFINE K == Kept(q, keep)
           n == Cardinality(K)
           rank(i) == Cardinality(KeptUpTo(q, keep, i))
           r == [i \in K |-> rank(i)]
           pick == Pick(q, keep)
<1>1. /\ Len(q) \in Nat /\ K \subseteq 1..Len(q)
      /\ IsFiniteSet(K) /\ n \in Nat
  <2>1. Len(q) \in Nat /\ Len(q) \in 0..Len(q)
    OBVIOUS
  <2>2. K = KeptUpTo(q, keep, Len(q))
    BY DEF Kept
  <2>3. IsFiniteSet(K) /\ n \in Nat
    BY <2>1, <2>2, KeptFinite
  <2>4. QED
    BY <2>1, <2>2, <2>3 DEF KeptUpTo
<1>2. \A i \in K : rank(i) \in 1..n
  <2> TAKE i \in K
  <2>1. i \in 1..Len(q) /\ q[i] \in keep
    BY <1>1 DEF Kept, KeptUpTo
  <2>2. IsFiniteSet(KeptUpTo(q, keep, i)) /\ rank(i) \in Nat /\ KeptUpTo(q, keep, i) \in SUBSET K
    BY <2>1, <1>1, KeptFinite
  <2>3. i \in KeptUpTo(q, keep, i)
    BY <2>1 DEF KeptUpTo
  <2>4. rank(i) # 0
    BY <2>2, <2>3, FS_EmptySet
  <2>5. rank(i) <= n
    BY <2>2, <1>1, FS_Subset
  <2>6. QED
    BY <2>2, <2>4, <2>5, <1>1
<1>3. \A i, j \in K : rank(i) = rank(j) => i = j
  <2> SUFFICES ASSUME NEW i \in K, NEW j \in K, rank(i) = rank(j), i # j
               PROVE  FALSE
    OBVIOUS
  <2>1. i \in Nat /\ j \in Nat
    BY <1>1
  <2>2. CASE i < j
    BY <2>2, KeptIncreases, <1>2, <1>1
  <2>3. CASE j < i
    BY <2>3, KeptIncreases, <1>2, <1>1
  <2>4. QED
    BY <2>1, <2>2, <2>3
<1>4. r \in Injection(K, 1..n)
  <2>1. r \in [K -> 1..n]
    BY <1>2
  <2>2. \A i, j \in K : r[i] = r[j] => i = j
    BY <1>3
  <2>3. QED
    BY <2>1, <2>2, Fun_IsInj
<1>5. IsFiniteSet(1..n) /\ Cardinality(1..n) = n
  BY <1>1, FS_Interval
<1>6. r \in Surjection(K, 1..n)
  BY <1>4, <1>5, FS_Injection
<1>7. \A k \in 1..n : \E i \in K : rank(i) = k
  <2>1. \A k \in 1..n : \E i \in K : r[i] = k
    <3> HIDE DEF r, K, n
    <3> QED  BY <1>6, Fun_SurjectionProperties
  <2>2. \A i \in K : r[i] = rank(i)
    OBVIOUS
  <2>3. QED
    BY <2>1, <2>2
<1>8. \A k \in 1..n : pick[k] \in K /\ rank(pick[k]) = k
  <2> HIDE DEF rank, K
  <2> TAKE k \in 1..n
  <2>1. pick[k] = CHOOSE i \in K : rank(i) = k
    BY DEF Pick, K, rank
  <2>2. QED
    BY <2>1, <1>7
<1>9. pick \in [1..n -> K]
  BY <1>8 DEF Pick
<1>10. \A k, l \in 1..n : k < l => pick[k] < pick[l]
  <2> SUFFICES ASSUME NEW k \in 1..n, NEW l \in 1..n, k < l, ~(pick[k] < pick[l])
               PROVE  FALSE
    OBVIOUS
  <2>1. pick[k] \in K /\ pick[l] \in K /\ pick[k] \in Nat /\ pick[l] \in Nat
    BY <1>8, <1>1
  <2>2. rank(pick[k]) = k /\ rank(pick[l]) = l
    BY <1>8
  <2>3. CASE pick[k] = pick[l]
    BY <2>2, <2>3, <1>1
  <2>4. CASE pick[l] < pick[k]
    <3>1. rank(pick[l]) < rank(pick[k])
      BY <2>1, <2>4, KeptIncreases
    <3>2. QED
      BY <3>1, <2>2, <1>1
  <2>5. QED
    BY <2>1, <2>3, <2>4
<1>11. \A i \in K : \E k \in 1..n : pick[k] = i
  <2> TAKE i \in K
  <2>1. rank(i) \in 1..n
    BY <1>2
  <2>2. pick[rank(i)] \in K /\ rank(pick[rank(i)]) = rank(i)
    BY <2>1, <1>8
  <2>3. pick[rank(i)] = i
    BY <2>2, <1>3
  <2>4. QED
    BY <2>1, <2>3
<1>12. QED
  BY <1>1, <1>9, <1>10, <1>11

(***************************************************************************)
(* The filter returns the kept elements, each as often as it occurs, in    *)
(* their order.                                                            *)
(***************************************************************************)
LEMMA FilteredProperties ==
    ASSUME NEW S, NEW q \in Seq(S), NEW keep
    PROVE  LET f == Filtered(q, keep)
           IN  /\ f \in Seq(S)
               /\ Range(f) = Range(q) \cap keep
               /\ \A k, l \in 1..Len(f) : k < l =>
                    \E i, j \in 1..Len(q) : i < j /\ f[k] = q[i] /\ f[l] = q[j]
<1> DEFINE K == Kept(q, keep)
           n == Cardinality(K)
           pick == Pick(q, keep)
           f == Filtered(q, keep)
<1>1. /\ n \in Nat
      /\ pick \in [1..n -> K]
      /\ \A k, l \in 1..n : k < l => pick[k] < pick[l]
      /\ \A i \in K : \E k \in 1..n : pick[k] = i
  BY PickEnumerates
<1>2. f = [k \in 1..n |-> q[pick[k]]]
  BY DEF Filtered, Pick, Kept
<1>3. /\ K \subseteq 1..Len(q)
      /\ \A i \in 1..Len(q) : i \in K <=> q[i] \in keep
  BY DEF Kept, KeptUpTo
<1> HIDE DEF K, n, pick, f
<1>4. \A k \in 1..n : /\ pick[k] \in 1..Len(q)
                      /\ f[k] = q[pick[k]] /\ f[k] \in keep /\ f[k] \in S
  <2> TAKE k \in 1..n
  <2>1. pick[k] \in K
    BY <1>1
  <2>2. pick[k] \in 1..Len(q) /\ q[pick[k]] \in keep
    BY <2>1, <1>3
  <2>3. q[pick[k]] \in S
    BY <2>2
  <2>4. QED
    BY <2>2, <2>3, <1>2
<1>5. f \in [1..n -> S]
  BY <1>2, <1>4
<1>6. f \in Seq(S) /\ Len(f) = n /\ DOMAIN f = 1..n
  BY <1>1, <1>5
<1>7. Range(f) = Range(q) \cap keep
  <2>1. ASSUME NEW x \in Range(f) PROVE x \in Range(q) \cap keep
    <3>1. PICK k \in 1..n : f[k] = x
      BY <1>6 DEF Range
    <3>2. x = q[pick[k]] /\ pick[k] \in 1..Len(q) /\ x \in keep
      BY <3>1, <1>4
    <3>3. QED
      BY <3>2 DEF Range
  <2>2. ASSUME NEW x \in Range(q) \cap keep PROVE x \in Range(f)
    <3>1. PICK i \in 1..Len(q) : q[i] = x
      BY DEF Range
    <3>2. PICK k \in 1..n : pick[k] = i
      BY <3>1, <1>3, <1>1
    <3>3. f[k] = x
      BY <3>1, <3>2, <1>4
    <3>4. QED
      BY <3>3, <1>6 DEF Range
  <2>3. QED
    BY <2>1, <2>2
<1>8. ASSUME NEW k \in 1..n, NEW l \in 1..n, k < l
      PROVE  \E i, j \in 1..Len(q) : i < j /\ f[k] = q[i] /\ f[l] = q[j]
  <2>1. pick[k] < pick[l]
    BY <1>1, <1>8
  <2>2. QED
    BY <2>1, <1>4
<1>9. QED
  BY <1>6, <1>7, <1>8 DEF f

(***************************************************************************)
(* What is said of the queue, for any sequence q of waiting players.       *)
(***************************************************************************)
Distinct(q) == \A i, j \in 1..Len(q) : q[i] = q[j] => i = j
InOrder(q) ==
    \A i \in 1..Len(q) :
        /\ queuedAt[q[i]] <= now
        /\ \A j \in i..Len(q) : queuedAt[q[i]] <= queuedAt[q[j]]

\* f lists elements of q in the order of q.
Follows(f, q) ==
    \A k, l \in 1..Len(f) : k < l => \E i, j \in 1..Len(q) : i < j /\ f[k] = q[i] /\ f[l] = q[j]

\* A filtered queue is a queue.
LEMMA FilteredQueue ==
    ASSUME LobbyInv, NEW keep
    PROVE  LET f == Filtered(queue, keep)
           IN  /\ f \in Seq(Player)
               /\ Range(f) = {p \in Player : Queued(p)} \cap keep
               /\ Distinct(f)
               /\ InOrder(f)
               /\ Follows(f, queue)
<1> DEFINE f == Filtered(queue, keep)
<1>1. /\ queue \in Seq(Player)
      /\ Distinct(queue)
      /\ Range(queue) = {p \in Player : Queued(p)}
      /\ InOrder(queue)
  BY DEF LobbyInv, LobbyTypeOK, QueueMatchesIndex, QueueInArrivalOrder, Distinct, InOrder
<1>2. /\ f \in Seq(Player)
      /\ Range(f) = Range(queue) \cap keep
      /\ \A k, l \in 1..Len(f) : k < l =>
            \E i, j \in 1..Len(queue) : i < j /\ f[k] = queue[i] /\ f[l] = queue[j]
  BY <1>1, FilteredProperties
<1> HIDE DEF f
<1>3. Distinct(f)
  <2> SUFFICES ASSUME NEW k \in 1..Len(f), NEW l \in 1..Len(f), f[k] = f[l], k < l
               PROVE  FALSE
    BY <1>2 DEF Distinct
  <2>1. PICK i, j \in 1..Len(queue) : i < j /\ f[k] = queue[i] /\ f[l] = queue[j]
    BY <1>2
  <2>2. queue[i] = queue[j]
    BY <2>1
  <2>3. i = j
    BY <2>2, <1>1 DEF Distinct
  <2>4. i \in Nat /\ j \in Nat
    OBVIOUS
  <2>5. QED
    BY <2>1, <2>3, <2>4
<1>4. InOrder(f)
  <2>1. ASSUME NEW k \in 1..Len(f)
        PROVE  queuedAt[f[k]] <= now /\ queuedAt[f[k]] \in Nat
    <3>1. f[k] \in Range(queue)
      BY <1>2 DEF Range
    <3>2. PICK i \in 1..Len(queue) : queue[i] = f[k]
      BY <3>1, <1>1 DEF Range
    <3>3. queuedAt[f[k]] \in Nat
      BY <3>1, <1>1 DEF Queued, LobbyInv, LobbyTypeOK
    <3>4. QED
      BY <3>2, <3>3, <1>1 DEF InOrder
  <2>2. ASSUME NEW k \in 1..Len(f), NEW l \in k..Len(f)
        PROVE  queuedAt[f[k]] <= queuedAt[f[l]]
    <3>1. k \in Nat /\ l \in 1..Len(f) /\ l \in Nat
      BY <1>2
    <3>2. CASE k = l
      BY <3>2, <2>1
    <3>3. CASE k < l
      <4>1. PICK i, j \in 1..Len(queue) : i < j /\ f[k] = queue[i] /\ f[l] = queue[j]
        BY <1>2, <3>1, <3>3
      <4>2. j \in i..Len(queue)
        BY <4>1, <1>1
      <4>3. QED
        BY <4>1, <4>2, <1>1 DEF InOrder
    <3>4. QED
      BY <3>1, <3>2, <3>3
  <2>3. QED
    BY <2>1, <2>2 DEF InOrder
<1>5. QED
  BY <1>1, <1>2, <1>3, <1>4 DEF f, Follows

(***************************************************************************)
(* The operations.                                                         *)
(***************************************************************************)
Poppable == [pair : {<<>>} \cup (Player \X Player), timedOut : Seq(Player)]

LEMMA NothingIsPoppable == NothingPopped \in Poppable
  BY DEF NothingPopped, Poppable

LEMMA LobbyInvUnfolded ==
    LobbyInv <=> /\ LobbyTypeOK
                 /\ Distinct(queue)
                 /\ Range(queue) = {p \in Player : Queued(p)}
                 /\ QueuedAreRegistered
                 /\ InOrder(queue)
  BY DEF LobbyInv, QueueMatchesIndex, QueueInArrivalOrder, Distinct, InOrder

\* What a step does to the queue when it takes the players in gone out of it:
\* q lists the others, in order, and their times stay as they are.
LEMMA QueueShrinks ==
    ASSUME LobbyInv, NEW gone, NEW q \in Seq(Player),
           now' = now,
           Range(q) = {p \in Player : Queued(p)} \ gone,
           Distinct(q), InOrder(q),
           queue' = q,
           queuedAt' = [p \in Player |-> IF p \in gone THEN NotQueued ELSE queuedAt[p]]
    PROVE  /\ queue' \in Seq(Player)
           /\ queuedAt' \in [Player -> Nat \cup {NotQueued}]
           /\ QueueMatchesIndex'
           /\ QueueInArrivalOrder'
<1>1. queuedAt \in [Player -> Nat \cup {NotQueued}]
  BY DEF LobbyInv, LobbyTypeOK
<1>2. queuedAt' \in [Player -> Nat \cup {NotQueued}]
  BY <1>1
<1>3. {p \in Player : Queued(p)}' = {p \in Player : Queued(p)} \ gone
  BY <1>1 DEF Queued
<1>4. QueueMatchesIndex'
  BY <1>3 DEF QueueMatchesIndex, Distinct
<1>5. \A i \in 1..Len(q) : q[i] \in Player /\ q[i] \notin gone /\ queuedAt'[q[i]] = queuedAt[q[i]]
  <2> TAKE i \in 1..Len(q)
  <2>1. q[i] \in Range(q)
    BY DEF Range
  <2>2. q[i] \in Player /\ q[i] \notin gone
    BY <2>1
  <2>3. QED
    BY <2>2
<1>6. QueueInArrivalOrder'
  <2>1. ASSUME NEW i \in 1..Len(q), NEW j \in i..Len(q)
        PROVE  queuedAt'[q[i]] <= now' /\ queuedAt'[q[i]] <= queuedAt'[q[j]]
    <3>1. j \in 1..Len(q)
      OBVIOUS
    <3>2. queuedAt'[q[i]] = queuedAt[q[i]] /\ queuedAt'[q[j]] = queuedAt[q[j]]
      BY <1>5, <3>1
    <3>3. QED
      BY <3>2 DEF InOrder
  <2>2. ASSUME NEW i \in 1..Len(q) PROVE queuedAt'[q[i]] <= now'
    BY <1>5 DEF InOrder
  <2>3. QED
    BY <2>1, <2>2 DEF QueueInArrivalOrder
<1>7. QED
  BY <1>2, <1>4, <1>6

\* removeQueueLocked takes one player out, whether or not he was queued.
LEMMA RemoveQueued ==
    ASSUME LobbyInv, NEW p \in Player, removeQueueLocked(p), now' = now
    PROVE  /\ queue' \in Seq(Player)
           /\ queuedAt' \in [Player -> Nat \cup {NotQueued}]
           /\ QueueMatchesIndex'
           /\ QueueInArrivalOrder'
           /\ queuedAt' = [r \in Player |-> IF r \in {p} THEN NotQueued ELSE queuedAt[r]]
<1> DEFINE q == queue'
<1>1. queuedAt \in [Player -> Nat \cup {NotQueued}] /\ queue \in Seq(Player)
  BY DEF LobbyInv, LobbyTypeOK
<1>2. queuedAt' = [r \in Player |-> IF r \in {p} THEN NotQueued ELSE queuedAt[r]]
  BY <1>1 DEF removeQueueLocked
<1>3. /\ q \in Seq(Player)
      /\ Range(q) = {r \in Player : Queued(r)} \ {p}
      /\ Distinct(q)
      /\ InOrder(q)
  <2>1. CASE Queued(p)
    <3>1. q = Filtered(queue, Player \ {p})
      BY <2>1 DEF removeQueueLocked
    <3>2. QED
      BY <3>1, FilteredQueue
  <2>2. CASE ~Queued(p)
    BY <2>2, <1>1, LobbyInvUnfolded DEF removeQueueLocked
  <2>3. QED
    BY <2>1, <2>2
<1>4. QED
  <2> HIDE DEF q
  <2>1. q = queue'
    BY DEF q
  <2>2. QED
    BY <2>1, <1>2, <1>3, QueueShrinks

LEMMA RegisterKeepsInv ==
    ASSUME LobbyInv, NEW s \in Session, Register(s), now' = now, popped' \in Poppable
    PROVE  LobbyInv'
<1>1. Owner(s) \in Player
  BY LobbyConstants DEF Owner
<1>2. LobbyTypeOK'
  BY <1>1 DEF LobbyInv, LobbyTypeOK, Register, Poppable
<1>3. QueueMatchesIndex' /\ QueueInArrivalOrder'
  BY DEF LobbyInv, Register, QueueMatchesIndex, QueueInArrivalOrder, Queued
<1>4. QueuedAreRegistered'
  BY <1>1, LobbyConstants
     DEF LobbyInv, LobbyTypeOK, QueuedAreRegistered, Register, Registered, Queued
<1>5. QED
  BY <1>2, <1>3, <1>4 DEF LobbyInv

LEMMA UnregisterKeepsInv ==
    ASSUME LobbyInv, NEW p \in Player, Unregister(p), now' = now, popped' \in Poppable
    PROVE  LobbyInv'
<1>1. /\ queue' \in Seq(Player)
      /\ queuedAt' \in [Player -> Nat \cup {NotQueued}]
      /\ QueueMatchesIndex' /\ QueueInArrivalOrder'
      /\ queuedAt' = [r \in Player |-> IF r \in {p} THEN NotQueued ELSE queuedAt[r]]
  BY RemoveQueued DEF Unregister
<1>2. LobbyTypeOK'
  BY <1>1 DEF LobbyInv, LobbyTypeOK, Unregister, Poppable
<1>3. QueuedAreRegistered'
  BY <1>1 DEF LobbyInv, LobbyTypeOK, QueuedAreRegistered, Unregister, Registered, Queued
<1>4. QED
  BY <1>1, <1>2, <1>3 DEF LobbyInv

LEMMA LeaveQueueKeepsInv ==
    ASSUME LobbyInv, NEW p \in Player, LeaveQueue(p), now' = now, popped' \in Poppable
    PROVE  LobbyInv'
<1>1. /\ queue' \in Seq(Player)
      /\ queuedAt' \in [Player -> Nat \cup {NotQueued}]
      /\ QueueMatchesIndex' /\ QueueInArrivalOrder'
      /\ queuedAt' = [r \in Player |-> IF r \in {p} THEN NotQueued ELSE queuedAt[r]]
  BY RemoveQueued DEF LeaveQueue
<1>2. LobbyTypeOK'
  BY <1>1 DEF LobbyInv, LobbyTypeOK, LeaveQueue, Poppable
<1>3. QueuedAreRegistered'
  BY <1>1 DEF LobbyInv, LobbyTypeOK, QueuedAreRegistered, LeaveQueue, Registered, Queued
<1>4. QED
  BY <1>1, <1>2, <1>3 DEF LobbyInv

LEMMA JoinQueueKeepsInv ==
    ASSUME LobbyInv, NEW p \in Player, JoinQueue(p), now' = now, popped' \in Poppable
    PROVE  LobbyInv'
<1>1. CASE Queued(p)
  BY <1>1 DEF LobbyInv, LobbyTypeOK, QueueMatchesIndex, QueuedAreRegistered,
              QueueInArrivalOrder, JoinQueue, Registered, Queued, Poppable
<1>2. CASE ~Queued(p)
  <2> DEFINE n == Len(queue)
             q == Append(queue, p)
  <2>1. /\ queue \in Seq(Player) /\ n \in Nat
        /\ queuedAt \in [Player -> Nat \cup {NotQueued}]
        /\ now \in Nat
        /\ Distinct(queue) /\ InOrder(queue)
        /\ Range(queue) = {r \in Player : Queued(r)}
    BY LobbyInvUnfolded DEF LobbyInv, LobbyTypeOK
  <2>2. /\ queue' = q
        /\ queuedAt' = [queuedAt EXCEPT ![p] = now]
        /\ sessions' = sessions /\ Registered(p)
    BY <1>2 DEF JoinQueue
  <2>3. q \in Seq(Player) /\ Len(q) = n + 1 /\ q[n + 1] = p /\ \A i \in 1..n : q[i] = queue[i]
    BY <2>1
  <2> HIDE DEF q
  <2>4. \A i \in 1..n : q[i] # p /\ q[i] \in Player /\ queuedAt[q[i]] \in Nat
    <3> TAKE i \in 1..n
    <3>1. q[i] \in Range(queue)
      BY <2>1, <2>3 DEF Range
    <3>2. QED
      BY <3>1, <2>1, <1>2 DEF Queued
  <2>5. LobbyTypeOK'
    BY <2>1, <2>2, <2>3 DEF LobbyTypeOK, LobbyInv, Poppable
  <2>6. Range(q) = Range(queue) \cup {p}
    BY <2>1, <2>3 DEF Range
  <2>7. {r \in Player : Queued(r)}' = {r \in Player : Queued(r)} \cup {p}
    BY <2>1, <2>2, LobbyConstants DEF Queued
  <2>8. QueueMatchesIndex'
    <3>1. ASSUME NEW i \in 1..(n+1), NEW j \in 1..(n+1), q[i] = q[j] PROVE i = j
      <4>1. CASE i \in 1..n /\ j \in 1..n
        BY <4>1, <3>1, <2>1, <2>3 DEF Distinct
      <4>2. CASE i = n + 1 \/ j = n + 1
        BY <4>2, <3>1, <2>1, <2>3, <2>4
      <4>3. QED
        BY <4>1, <4>2, <2>1
    <3>2. QED
      BY <3>1, <2>1, <2>2, <2>3, <2>6, <2>7 DEF QueueMatchesIndex
  <2>9. QueueInArrivalOrder'
    <3>1. \A i \in 1..n : queuedAt'[q[i]] = queuedAt[queue[i]] /\ queuedAt[queue[i]] <= now
      BY <2>1, <2>2, <2>3, <2>4 DEF InOrder
    <3>2. queuedAt'[q[n + 1]] = now
      BY <2>1, <2>2, <2>3
    <3>3. ASSUME NEW i \in 1..(n+1), NEW j \in i..(n+1)
          PROVE  queuedAt'[q[i]] <= now /\ queuedAt'[q[i]] <= queuedAt'[q[j]]
      <4>1. CASE j \in 1..n
        <5>1. i \in 1..n /\ j \in i..n
          BY <4>1
        <5>2. queuedAt[queue[i]] <= queuedAt[queue[j]]
          BY <5>1, <2>1 DEF InOrder
        <5>3. QED
          BY <5>1, <5>2, <4>1, <3>1
      <4>2. CASE j = n + 1
        <5>1. CASE i \in 1..n
          BY <5>1, <4>2, <3>1, <3>2
        <5>2. CASE i = n + 1
          BY <5>2, <4>2, <3>2, <2>1
        <5>3. QED
          BY <5>1, <5>2, <2>1
      <4>3. QED
        BY <4>1, <4>2, <2>1
    <3>4. ASSUME NEW i \in 1..(n+1) PROVE queuedAt'[q[i]] <= now
      BY <3>1, <3>2, <2>1
    <3>5. QED
      BY <3>3, <3>4, <2>2, <2>3 DEF QueueInArrivalOrder
  <2>10. QueuedAreRegistered'
    BY <2>1, <2>2 DEF LobbyInv, QueuedAreRegistered, Registered, Queued
  <2>11. QED
    BY <2>5, <2>8, <2>9, <2>10 DEF LobbyInv
<1>3. QED
  BY <1>1, <1>2

\* At every time each queued player either stays or has expired, and not both.
LEMMA StaysOrExpired ==
    ASSUME NEW t
    PROVE  LET Q == {p \in Player : Queued(p)}
           IN  Q \cap StaysAt(t) = Q \ (Q \cap ExpiredAt(t))
<1>1. CASE QueueTimeout > 0
  BY <1>1 DEF StaysAt, ExpiredAt
<1>2. CASE ~(QueueTimeout > 0)
  BY <1>2 DEF StaysAt, ExpiredAt, Expired
<1>3. QED
  BY <1>1, <1>2

\* Without its first two a queue of distinct players in order is such a queue.
LEMMA WithoutFirstTwo ==
    ASSUME NEW q \in Seq(Player), Distinct(q), InOrder(q), Len(q) >= 2
    PROVE  LET rest == SubSeq(q, 3, Len(q))
           IN  /\ rest \in Seq(Player)
               /\ Len(rest) = Len(q) - 2
               /\ Range(rest) = Range(q) \ {q[1], q[2]}
               /\ Distinct(rest) /\ InOrder(rest)
<1> DEFINE rest == SubSeq(q, 3, Len(q))
<1>1. /\ Len(q) \in Nat /\ rest \in Seq(Player) /\ Len(rest) = Len(q) - 2
      /\ \A i \in 1..Len(rest) : rest[i] = q[i + 2]
  <2>1. Len(q) \in Nat /\ 3 \in 1..Len(q)+1 /\ Len(q) \in 3-1..Len(q)
    OBVIOUS
  <2>2. rest \in Seq(Player)
    OBVIOUS
  <2>3. Len(rest) = Len(q) - 2
    BY <2>1
  <2>4. \A i \in 1..Len(rest) : rest[i] = q[i + 2]
    BY <2>1
  <2>5. QED
    BY <2>1, <2>2, <2>3, <2>4
<1> HIDE DEF rest
<1>2. Range(rest) = Range(q) \ {q[1], q[2]}
  <2>1. ASSUME NEW x \in Range(rest) PROVE x \in Range(q) \ {q[1], q[2]}
    <3>1. PICK i \in 1..Len(rest) : rest[i] = x
      BY <1>1 DEF Range
    <3>2. x = q[i + 2] /\ i + 2 \in 1..Len(q) /\ i + 2 # 1 /\ i + 2 # 2
      BY <3>1, <1>1
    <3>3. 1 \in 1..Len(q) /\ 2 \in 1..Len(q)
      BY <1>1
    <3>4. QED
      BY <3>2, <3>3 DEF Range, Distinct
  <2>2. ASSUME NEW x \in Range(q) \ {q[1], q[2]} PROVE x \in Range(rest)
    <3>1. PICK i \in 1..Len(q) : q[i] = x
      BY DEF Range
    <3>2. i # 1 /\ i # 2
      BY <3>1, <2>2
    <3>3. i - 2 \in 1..Len(rest) /\ rest[i - 2] = x
      BY <3>1, <3>2, <1>1
    <3>4. QED
      BY <3>3, <1>1 DEF Range
  <2>3. QED
    BY <2>1, <2>2
<1>3. Distinct(rest)
  <2> SUFFICES ASSUME NEW i \in 1..Len(rest), NEW j \in 1..Len(rest), rest[i] = rest[j]
               PROVE  i = j
    BY DEF Distinct
  <2>1. i + 2 \in 1..Len(q) /\ j + 2 \in 1..Len(q) /\ q[i + 2] = q[j + 2]
    BY <1>1
  <2>2. i + 2 = j + 2
    BY <2>1 DEF Distinct
  <2>3. QED
    BY <2>2
<1>4. InOrder(rest)
  <2>1. ASSUME NEW i \in 1..Len(rest), NEW j \in i..Len(rest)
        PROVE  queuedAt[rest[i]] <= now /\ queuedAt[rest[i]] <= queuedAt[rest[j]]
    <3>0. j \in 1..Len(rest)
      BY <1>1
    <3>1. /\ i + 2 \in 1..Len(q) /\ j + 2 \in (i + 2)..Len(q)
          /\ rest[i] = q[i + 2] /\ rest[j] = q[j + 2]
      BY <1>1, <3>0
    <3>2. QED
      BY <3>1 DEF InOrder
  <2>2. ASSUME NEW i \in 1..Len(rest) PROVE queuedAt[rest[i]] <= now
    <3>1. i + 2 \in 1..Len(q) /\ rest[i] = q[i + 2]
      BY <1>1
    <3>2. QED
      BY <3>1 DEF InOrder
  <2>3. QED
    BY <2>1, <2>2 DEF InOrder
<1>5. QED
  BY <1>1, <1>2, <1>3, <1>4 DEF rest

\* The queue a pop leaves behind, and the pair and the expired players it
\* returns, are the queue it found.
LEMMA PopSplitsQueue ==
    ASSUME LobbyInv, NEW t, PopNextPair(t)
    PROVE  \E live, timedOut \in Seq(Player), pair \in {<<>>} \cup (Player \X Player), q \in Seq(Player) :
              /\ Range(timedOut) = {p \in Player : Queued(p)} \cap ExpiredAt(t)
              /\ Range(live) = {p \in Player : Queued(p)} \ Range(timedOut)
              /\ Range(live) = {p \in Player : Queued(p)} \cap StaysAt(t)
              /\ Distinct(live) /\ InOrder(live) /\ Follows(live, queue)
              /\ \/ Len(live) < 2 /\ pair = <<>> /\ q = live
                 \/ /\ Len(live) >= 2 /\ pair = <<live[1], live[2]>>
                    /\ q = SubSeq(live, 3, Len(live))
              /\ Returns(timedOut, pair, q)
<1> DEFINE live == Filtered(queue, StaysAt(t))
           timedOut == Filtered(queue, ExpiredAt(t))
           Q == {p \in Player : Queued(p)}
<1>1. /\ live \in Seq(Player) /\ timedOut \in Seq(Player)
      /\ Range(timedOut) = Q \cap ExpiredAt(t)
      /\ Range(live) = Q \cap StaysAt(t)
      /\ Distinct(live) /\ InOrder(live) /\ Follows(live, queue)
  BY FilteredQueue
<1>2. Range(live) = Q \ Range(timedOut)
  BY <1>1, StaysOrExpired
<1>3. CASE Len(live) < 2
  <2>1. Returns(timedOut, <<>>, live)
    BY <1>3 DEF PopNextPair
  <2> HIDE DEF live, timedOut, Q
  <2>2. QED
    BY <1>1, <1>2, <1>3, <2>1 DEF Q
<1>4. CASE Len(live) >= 2
  <2>1. Returns(timedOut, <<live[1], live[2]>>, SubSeq(live, 3, Len(live)))
    BY <1>1, <1>4 DEF PopNextPair
  <2> HIDE DEF live, timedOut, Q
  <2>2. live[1] \in Player /\ live[2] \in Player
    BY <1>1, <1>4
  <2>3. SubSeq(live, 3, Len(live)) \in Seq(Player)
    BY <1>1, <1>4
  <2>4. <<live[1], live[2]>> \in Player \X Player
    BY <2>2
  <2>5. QED
    BY <1>1, <1>2, <1>4, <2>1, <2>3, <2>4, Zenon DEF Q
<1>5. QED
  <2>1. Len(live) \in Nat
    BY <1>1
  <2>2. Len(live) < 2 \/ Len(live) >= 2
    BY <2>1
  <2> HIDE DEF live, timedOut, Q
  <2>3. QED
    BY <1>3, <1>4, <2>2

LEMMA PopNextPairKeepsInv ==
    ASSUME LobbyInv, NEW t, PopNextPair(t), now' = now
    PROVE  LobbyInv'
<1> DEFINE Q == {p \in Player : Queued(p)}
<1>1. PICK live, timedOut \in Seq(Player), pair \in {<<>>} \cup (Player \X Player), q \in Seq(Player) :
              /\ Range(live) = Q \ Range(timedOut)
              /\ Distinct(live) /\ InOrder(live)
              /\ \/ Len(live) < 2 /\ pair = <<>> /\ q = live
                 \/ /\ Len(live) >= 2 /\ pair = <<live[1], live[2]>>
                    /\ q = SubSeq(live, 3, Len(live))
              /\ Returns(timedOut, pair, q)
  BY PopSplitsQueue
<1> DEFINE gone == Range(timedOut) \cup Range(pair)
<1>2. Range(q) = Q \ gone /\ Distinct(q) /\ InOrder(q)
  <2> HIDE DEF Q
  <2>1. CASE pair = <<>> /\ q = live
    <3>1. Range(pair) = {}
      BY <2>1 DEF Range
    <3>2. QED
      BY <1>1, <2>1, <3>1
  <2>2. CASE Len(live) >= 2 /\ pair = <<live[1], live[2]>> /\ q = SubSeq(live, 3, Len(live))
    <3>1. Range(pair) = {live[1], live[2]}
      BY <2>2 DEF Range
    <3>2. Range(q) = Range(live) \ {live[1], live[2]} /\ Distinct(q) /\ InOrder(q)
      BY <1>1, <2>2, WithoutFirstTwo
    <3>3. QED
      BY <1>1, <3>1, <3>2
  <2>3. QED
    BY <1>1, <2>1, <2>2
<1>3. /\ queue' = q
      /\ queuedAt' = [p \in Player |-> IF p \in gone THEN NotQueued ELSE queuedAt[p]]
      /\ popped' = [pair |-> pair, timedOut |-> timedOut]
      /\ sessions' = sessions
  BY <1>1 DEF Returns
<1> HIDE DEF gone
<1>4. /\ queue' \in Seq(Player)
      /\ queuedAt' \in [Player -> Nat \cup {NotQueued}]
      /\ QueueMatchesIndex' /\ QueueInArrivalOrder'
  BY <1>2, <1>3, QueueShrinks
<1>5. LobbyTypeOK'
  BY <1>1, <1>3, <1>4 DEF LobbyInv, LobbyTypeOK
<1>6. QueuedAreRegistered'
  BY <1>3 DEF LobbyInv, QueuedAreRegistered, Queued, Registered
<1>7. QED
  BY <1>4, <1>5, <1>6 DEF LobbyInv

\* Neither the loop's forgetting a result nor the clock touches the lobby.
LEMMA LobbyKept ==
    ASSUME LobbyInv, lobbyState' = lobbyState, now' \in Nat, now <= now', popped' \in Poppable
    PROVE  LobbyInv'
<1>1. LobbyTypeOK'
  BY DEF LobbyInv, LobbyTypeOK, lobbyState, Poppable
<1>2. QueueMatchesIndex' /\ QueuedAreRegistered'
  BY DEF LobbyInv, QueueMatchesIndex, QueuedAreRegistered, lobbyState, Queued, Registered
<1>3. QueueInArrivalOrder'
  <2>1. ASSUME NEW i \in 1..Len(queue) PROVE queuedAt[queue[i]] <= now'
    <3>1. queue[i] \in Range(queue)
      BY DEF Range, LobbyInv, LobbyTypeOK
    <3>2. queuedAt[queue[i]] \in Nat
      BY <3>1 DEF Queued, LobbyInv, LobbyTypeOK, QueueMatchesIndex
    <3>3. QED
      BY <3>2 DEF LobbyInv, LobbyTypeOK, QueueInArrivalOrder
  <2>2. QED
    BY <2>1 DEF LobbyInv, QueueInArrivalOrder, lobbyState
<1>4. QED
  BY <1>1, <1>2, <1>3 DEF LobbyInv

LEMMA LobbyInitEstablishes == LobbyInit => LobbyInv
  BY LobbyConstants
     DEF LobbyInit, LobbyInv, LobbyTypeOK, QueueMatchesIndex, QueuedAreRegistered,
         QueueInArrivalOrder, Queued, Registered, NothingPopped, Range

\* The numbers the shell prints are those of the queue.
LEMMA ReportsFollow == LobbyInv => ReportsAgree
<1> SUFFICES ASSUME LobbyInv PROVE ReportsAgree
  OBVIOUS
<1> DEFINE Q == {p \in Player : Queued(p)}
<1>1. /\ queue \in Seq(Player) /\ Len(queue) \in Nat
      /\ \A i, j \in 1..Len(queue) : queue[i] = queue[j] => i = j
      /\ Range(queue) = Q
  BY DEF LobbyInv, LobbyTypeOK, QueueMatchesIndex
<1>2. Cardinality(Q) = Len(queue)
  <2>1. queue \in [1..Len(queue) -> Q]
    <3> HIDE DEF Q
    <3> QED BY <1>1 DEF Range
  <2>2. ExistsBijection(1..Len(queue), Q)
    <3>1. \A p \in Q : \E i \in 1..Len(queue) : queue[i] = p
      <4> HIDE DEF Q
      <4> QED BY <1>1 DEF Range
    <3> HIDE DEF Q
    <3>2. queue \in Bijection(1..Len(queue), Q)
      BY <1>1, <2>1, <3>1 DEF Bijection, Injection, Surjection, IsInjective
    <3> QED BY <3>2 DEF ExistsBijection
  <2> HIDE DEF Q
  <2> QED BY <1>1, <2>2, FS_CountingElements
<1>3. Snapshot.InQueue = Len(queue)
  BY <1>2 DEF Snapshot
<1>4. ASSUME NEW p \in Player, QueueStatus(p, now).inQueue
      PROVE  /\ QueueStatus(p, now).position \in 1..Len(queue)
             /\ queue[QueueStatus(p, now).position] = p
  <2> DEFINE places == {i \in 1..Len(queue) : queue[i] = p}
  <2>1. Queued(p)
    BY <1>4 DEF QueueStatus
  <2>2. PICK i \in 1..Len(queue) : queue[i] = p
    <3>1. p \in Range(queue)
      BY <1>1, <2>1
    <3> HIDE DEF Q
    <3> QED BY <1>1, <3>1 DEF Range
  <2>3. places = {i}
    BY <1>1, <2>2
  <2>4. i = CHOOSE k \in places : \A j \in places : k <= j
    BY <2>2, <2>3
  <2>5. QueueStatus(p, now).position = i
    BY <2>1, <2>3, <2>4 DEF QueueStatus
  <2> QED BY <2>2, <2>5
<1> QED BY <1>3, <1>4 DEF ReportsAgree

(***************************************************************************)
(* Whatever the callers of the lobby do, and in whatever order: its queue  *)
(* and its index agree, only connected players wait, and they wait in the  *)
(* order in which they came.                                               *)
(***************************************************************************)
THEOREM LobbyInvariant == LobbySpec => []LobbyInv
<1>1. LobbyInit => LobbyInv
  BY LobbyInitEstablishes
<1>2. LobbyInv /\ [LobbyNext]_lobbyVars => LobbyInv'
  <2> SUFFICES ASSUME LobbyInv, [LobbyNext]_lobbyVars PROVE LobbyInv'
    OBVIOUS
  <2>1. popped \in Poppable /\ now \in Nat
    BY DEF LobbyInv, LobbyTypeOK, Poppable
  <2>2. CASE LobbyCall /\ UNCHANGED <<now, popped>>
    BY <2>1, <2>2, RegisterKeepsInv, UnregisterKeepsInv, JoinQueueKeepsInv, LeaveQueueKeepsInv
       DEF LobbyCall
  <2>3. CASE Pop
    BY <2>3, PopNextPairKeepsInv DEF Pop
  <2>4. CASE Forget
    BY <2>1, <2>4, NothingIsPoppable, LobbyKept DEF Forget
  <2>5. CASE Tick
    BY <2>1, <2>5, LobbyKept DEF Tick, lobbyState
  <2>6. CASE UNCHANGED lobbyVars
    BY <2>1, <2>6, LobbyKept DEF lobbyVars, lobbyState
  <2>7. QED
    BY <2>2, <2>3, <2>4, <2>5, <2>6 DEF LobbyNext
<1>3. QED
  BY <1>1, <1>2, PTL DEF LobbySpec

\* And so are the position and the counts that the shells print (QueueStatus, Snapshot).
THEOREM LobbyCorrect == LobbySpec => []LobbyAgrees
<1>1. LobbyInv => LobbyAgrees
  BY ReportsFollow DEF LobbyAgrees
<1>2. QED
  BY <1>1, LobbyInvariant, PTL

\* The pair of a pop, for any time it is given.
LEMMA PopPairsTheOldest ==
    ASSUME LobbyInv, NEW t, PopNextPair(t)
    PROVE  PairsTheOldest(t)
<1> SUFFICES ASSUME NEW i \in DOMAIN popped'.pair
             PROVE  LET p == popped'.pair[i]
                    IN  /\ ~Expired(p, t)
                        /\ \A r \in Range(queue') : queuedAt[p] <= queuedAt[r] /\ Before(queue, p, r)
  BY DEF PairsTheOldest
<1> DEFINE Q == {p \in Player : Queued(p)}
<1>1. PICK live, timedOut \in Seq(Player), pair \in {<<>>} \cup (Player \X Player), q \in Seq(Player) :
            /\ Range(live) = Q \cap StaysAt(t)
            /\ InOrder(live) /\ Follows(live, queue)
            /\ \/ pair = <<>>
               \/ /\ Len(live) >= 2 /\ pair = <<live[1], live[2]>>
                  /\ q = SubSeq(live, 3, Len(live))
            /\ Returns(timedOut, pair, q)
  BY PopSplitsQueue
<1>2. popped'.pair = pair /\ queue' = q
  BY <1>1 DEF Returns
<1>3. /\ pair = <<live[1], live[2]>> /\ i \in {1, 2} /\ Len(live) >= 2
      /\ q = SubSeq(live, 3, Len(live)) /\ Len(live) \in Nat
  BY <1>1, <1>2
<1>4. pair[i] = live[i] /\ i \in 1..Len(live)
  BY <1>3
<1>5. ~Expired(live[i], t)
  <2>1. live[i] \in Q \cap StaysAt(t)
    <3> HIDE DEF Q
    <3> QED  BY <1>1, <1>4 DEF Range
  <2>2. QED
    BY <2>1 DEF StaysAt, Expired
<1>6. ASSUME NEW r \in Range(q) PROVE queuedAt[live[i]] <= queuedAt[r] /\ Before(queue, live[i], r)
  <2>1. PICK k \in DOMAIN q : q[k] = r
    BY DEF Range
  <2>2. k + 2 \in i..Len(live) /\ r = live[k + 2]
    BY <2>1, <1>1, <1>3
  <2>3. queuedAt[live[i]] <= queuedAt[r]
    BY <2>2, <1>1, <1>4 DEF InOrder
  <2>4. k + 2 \in 1..Len(live) /\ i < k + 2
    BY <2>1, <1>1, <1>3
  <2>5. Before(queue, live[i], r)
    BY <2>2, <2>4, <1>1, <1>4 DEF Follows, Before
  <2>6. QED
    BY <2>3, <2>5
<1>7. QED
  BY <1>2, <1>4, <1>5, <1>6

\* Where everybody is after a pop.
LEMMA PopAccounts ==
    ASSUME LobbyInv, NEW t, PopNextPair(t)
    PROVE  AccountsForAll(t)
<1> DEFINE Q == {p \in Player : Queued(p)}
<1>1. PICK live, timedOut \in Seq(Player), pair \in {<<>>} \cup (Player \X Player), q \in Seq(Player) :
          /\ Range(timedOut) = Q \cap ExpiredAt(t)
          /\ Range(live) = Q \ Range(timedOut)
          /\ Distinct(live) /\ InOrder(live)
          /\ \/ Len(live) < 2 /\ pair = <<>> /\ q = live
             \/ /\ Len(live) >= 2 /\ pair = <<live[1], live[2]>>
                /\ q = SubSeq(live, 3, Len(live))
          /\ Returns(timedOut, pair, q)
  BY PopSplitsQueue
<1> HIDE DEF Q
<1>2. popped'.pair = pair /\ popped'.timedOut = timedOut /\ queue' = q
  BY <1>1 DEF Returns
<1>3. Range(queue) = Q
  BY DEF LobbyInv, QueueMatchesIndex, Q
<1>4. /\ Range(live) = Range(q) \cup Range(pair) /\ Range(q) \cap Range(pair) = {}
      /\ pair # <<>> => pair[1] # pair[2]
      /\ Len(q) >= 2 => pair # <<>>
  <2>1. CASE Len(live) < 2 /\ pair = <<>> /\ q = live
    <3>1. Range(pair) = {}
      BY <2>1 DEF Range
    <3> QED BY <2>1, <3>1
  <2>2. CASE Len(live) >= 2 /\ pair = <<live[1], live[2]>> /\ q = SubSeq(live, 3, Len(live))
    <3>1. Range(q) = Range(live) \ {live[1], live[2]}
      BY <1>1, <2>2, WithoutFirstTwo
    <3>2. 1 \in DOMAIN live /\ 2 \in DOMAIN live /\ live[1] # live[2]
      BY <1>1, <2>2 DEF Distinct
    <3>3. Range(pair) = {live[1], live[2]}
      BY <2>2 DEF Range
    <3>4. live[1] \in Range(live) /\ live[2] \in Range(live)
      BY <3>2 DEF Range
    <3> QED BY <2>2, <3>1, <3>2, <3>3, <3>4
  <2> QED BY <1>1, <2>1, <2>2
<1>5. \A p \in Range(timedOut) : Expired(p, t)
  BY <1>1 DEF ExpiredAt
<1>6. Range(timedOut) \subseteq Q
  BY <1>1
<1> QED
  BY <1>1, <1>2, <1>3, <1>4, <1>5, <1>6 DEF AccountsForAll

(***************************************************************************)
(* Places.  A queue of some of the waiting players in their order leaves   *)
(* each of them where he is, and so does a newcomer at the end.            *)
(***************************************************************************)
LEMMA ShorterKeepsPlaces ==
    ASSUME LobbyInv, NEW q \in Seq(Player), Follows(q, queue), Range(q) \subseteq Range(queue),
           queue' = q, NEW p \in Range(queue')
    PROVE  KeepsHisPlace(p)
<1>1. queue \in Seq(Player) /\ Distinct(queue)
  BY LobbyInvUnfolded DEF LobbyTypeOK
<1> SUFFICES ASSUME NEW r \in Range(q), Before(queue, p, r)
             PROVE  Before(q, p, r)
  BY DEF KeepsHisPlace
<1>2. PICK i \in 1..Len(queue), j \in 1..Len(queue) : i < j /\ queue[i] = p /\ queue[j] = r
  BY DEF Before
<1>3. PICK k \in 1..Len(q) : q[k] = p
  BY DEF Range
<1>4. PICK l \in 1..Len(q) : q[l] = r
  BY DEF Range
<1>5. k # l
  BY <1>1, <1>2, <1>3, <1>4 DEF Distinct
<1>6. ~(l < k)
  <2> SUFFICES ASSUME l < k PROVE FALSE
    OBVIOUS
  <2>1. PICK m \in 1..Len(queue), n \in 1..Len(queue) : m < n /\ q[l] = queue[m] /\ q[k] = queue[n]
    BY DEF Follows
  <2>2. m = j /\ n = i
    BY <2>1, <1>1, <1>2, <1>3, <1>4 DEF Distinct
  <2> QED
    BY <2>1, <2>2, <1>2
<1> QED
  BY <1>3, <1>4, <1>5, <1>6 DEF Before

\* removeQueueLocked, whoever is taken out.
LEMMA RemovalKeepsPlaces ==
    ASSUME LobbyInv, NEW x \in Player, removeQueueLocked(x), NEW p \in Range(queue')
    PROVE  KeepsHisPlace(p)
<1>1. queue \in Seq(Player) /\ Range(queue) = {r \in Player : Queued(r)}
  BY LobbyInvUnfolded DEF LobbyTypeOK
<1>2. CASE Queued(x)
  <2> DEFINE q == Filtered(queue, Player \ {x})
  <2>1. queue' = q
    BY <1>2 DEF removeQueueLocked
  <2>2. q \in Seq(Player) /\ Follows(q, queue) /\ Range(q) \subseteq Range(queue)
    BY <1>1, FilteredQueue
  <2> HIDE DEF q
  <2> QED
    BY <2>1, <2>2, ShorterKeepsPlaces
<1>3. CASE ~Queued(x)
  BY <1>3 DEF removeQueueLocked, KeepsHisPlace
<1> QED
  BY <1>2, <1>3

LEMMA JoiningKeepsPlaces ==
    ASSUME LobbyInv, NEW x \in Player, JoinQueue(x), NEW p \in Range(queue)
    PROVE  KeepsHisPlace(p)
<1>1. queue \in Seq(Player) /\ Len(queue) \in Nat
  BY LobbyInvUnfolded DEF LobbyTypeOK
<1>2. CASE Queued(x)
  BY <1>2 DEF JoinQueue, KeepsHisPlace
<1>3. CASE ~Queued(x)
  <2> DEFINE n == Len(queue)
             q == Append(queue, x)
  <2>1. queue' = q
    BY <1>3 DEF JoinQueue
  <2>2. q \in Seq(Player) /\ Len(q) = n + 1 /\ q[n + 1] = x /\ \A i \in 1..n : q[i] = queue[i]
    BY <1>1
  <2> HIDE DEF q
  <2>3. Range(q) = Range(queue) \cup {x}
    BY <1>1, <2>2 DEF Range
  <2>4. PICK i \in 1..n : queue[i] = p
    BY <1>1 DEF Range
  <2>5. Before(q, p, x)
    <3>1. i \in 1..Len(q) /\ n + 1 \in 1..Len(q) /\ i < n + 1 /\ q[i] = p
      BY <1>1, <2>2, <2>4
    <3> QED
      BY <3>1, <2>2 DEF Before
  <2>6. ASSUME NEW r, Before(queue, p, r) PROVE Before(q, p, r)
    <3>1. PICK k \in 1..n, l \in 1..n : k < l /\ queue[k] = p /\ queue[l] = r
      BY <2>6 DEF Before
    <3>2. k \in 1..Len(q) /\ l \in 1..Len(q) /\ q[k] = p /\ q[l] = r
      BY <3>1, <1>1, <2>2
    <3> QED
      BY <3>1, <3>2 DEF Before
  <2> QED
    BY <2>1, <2>3, <2>5, <2>6 DEF KeepsHisPlace
<1> QED
  BY <1>2, <1>3

LEMMA PopKeepsPlaces ==
    ASSUME LobbyInv, NEW t, PopNextPair(t), NEW p \in Range(queue')
    PROVE  KeepsHisPlace(p)
<1> DEFINE Q == {r \in Player : Queued(r)}
<1>1. PICK live, timedOut \in Seq(Player), pair \in {<<>>} \cup (Player \X Player), q \in Seq(Player) :
          /\ Range(live) = Q \ Range(timedOut)
          /\ Distinct(live) /\ InOrder(live) /\ Follows(live, queue)
          /\ \/ Len(live) < 2 /\ pair = <<>> /\ q = live
             \/ /\ Len(live) >= 2 /\ pair = <<live[1], live[2]>>
                /\ q = SubSeq(live, 3, Len(live))
          /\ Returns(timedOut, pair, q)
  BY PopSplitsQueue
<1> HIDE DEF Q
<1>2. queue' = q
  BY <1>1 DEF Returns
<1>3. Range(queue) = Q
  BY DEF LobbyInv, QueueMatchesIndex, Q
<1>4. Range(q) \subseteq Range(live) /\ Follows(q, queue)
  <2>1. CASE q = live
    BY <1>1, <2>1
  <2>2. CASE Len(live) >= 2 /\ q = SubSeq(live, 3, Len(live))
    <3>1. Range(q) = Range(live) \ {live[1], live[2]}
      BY <1>1, <2>2, WithoutFirstTwo
    <3>2. ASSUME NEW k \in 1..Len(q) PROVE k + 2 \in 1..Len(live) /\ q[k] = live[k + 2]
      BY <1>1, <2>2
    <3>3. \A k, l \in 1..Len(q) : k < l => k + 2 < l + 2
      OBVIOUS
    <3> QED
      BY <1>1, <3>1, <3>2, <3>3 DEF Follows
  <2> QED
    BY <1>1, <2>1, <2>2
<1> QED
  BY <1>1, <1>2, <1>3, <1>4, ShorterKeepsPlaces

\* docs/m3-ssh-protocol.md, "paired FIFO": a pop takes the two at the head of the queue, nobody
\* whose wait is over, and loses nobody; and nobody overtakes anybody, whatever the players
\* do between two pops (PopNextPair, JoinQueue, removeQueueLocked).
THEOREM QueueIsFIFO == LobbySpec => FirstComeFirstServed
<1>1. ASSUME LobbyInv, LobbyNext, NEW p \in Range(queue) \cap Range(queue')
      PROVE  KeepsHisPlace(p)
  <2>1. ASSUME queue' = queue PROVE KeepsHisPlace(p)
    BY <2>1 DEF KeepsHisPlace
  <2>2. CASE LobbyCall
    BY <1>1, <2>1, <2>2, RemovalKeepsPlaces, JoiningKeepsPlaces
       DEF LobbyCall, Register, Unregister, LeaveQueue
  <2>3. CASE Pop
    BY <1>1, <2>3, PopKeepsPlaces DEF Pop
  <2>4. CASE Forget \/ Tick
    BY <2>1, <2>4 DEF Forget, Tick, lobbyState
  <2> QED
    BY <1>1, <2>2, <2>3, <2>4 DEF LobbyNext
<1>2. LobbyInv /\ [LobbyNext]_lobbyVars =>
        [/\ \A p \in Range(queue) \cap Range(queue') : KeepsHisPlace(p)
         /\ \A t \in 0..now : PopNextPair(t) => PairsTheOldest(t) /\ AccountsForAll(t)]_lobbyVars
  BY <1>1, PopPairsTheOldest, PopAccounts
<1> QED
  BY <1>2, LobbyInvariant, PTL DEF LobbySpec, FirstComeFirstServed
============================================================================
