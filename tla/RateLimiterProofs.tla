-------------------------- MODULE RateLimiterProofs --------------------------
(***************************************************************************)
(* Proofs about RateLimiter, for every rate, tick length and number of     *)
(* agents.                                                                 *)
(***************************************************************************)
EXTENDS RateLimiter, TLAPS

(* The bucket has been refilled since the agent's window began.            *)
Counting(a) == a \in known /\ last[a] >= start[a]

(* What the tokens in the bucket and the sends granted since the window    *)
(* began add up to, at the moment of the last refill: at most the burst    *)
(* and the refill of the window, and in a window of up to a minute at      *)
(* least that refill.                                                      *)
Balanced(a) ==
    /\ last[a] <= clock /\ start[a] <= clock
    /\ Counting(a) =>
         /\ Minute * granted[a] + tokens[a] <= Capacity + Rate * (last[a] - start[a])
         /\ last[a] - start[a] <= Minute =>
              Minute * granted[a] + tokens[a] >= Rate * (last[a] - start[a])
    /\ ~ Counting(a) => granted[a] = 0

BucketInv == TypeOK /\ \A a \in Agents : Balanced(a)

LEMMA CapacityIsNat == Capacity \in Nat
  BY RateIsNat, MinuteIsPositive DEF Capacity

(* Refills of adjoining spans of time add up.                              *)
LEMMA RefillsAdd ==
  ASSUME NEW x \in Int, NEW y \in Int, NEW z \in Int
  PROVE  /\ Rate * (z - x) = Rate * (z - y) + Rate * (y - x)
         /\ Rate * (z - x) \in Int /\ Rate * (z - y) \in Int /\ Rate * (y - x) \in Int
  BY RateIsNat

LEMMA RefillNonNegative ==
  ASSUME NEW n \in Nat
  PROVE  Rate * n \in Nat /\ (n <= Minute => Rate * n <= Capacity)
  <1>1. Rate * n \in Nat
    BY RateIsNat
  <1>2. ASSUME n <= Minute PROVE Rate * n <= Capacity
    <2>1. PICK k \in Nat : Minute = n + k
      BY <1>2, MinuteIsPositive
    <2>2. Rate * Minute = Rate * n + Rate * k /\ Rate * k \in Nat
      BY <2>1, RateIsNat
    <2> QED
      BY <1>1, <2>2 DEF Capacity
  <1> QED
    BY <1>1, <1>2

LEMMA RefilledType ==
  ASSUME BucketInv, NEW a \in Agents
  PROVE  Refilled(a) \in 0..Capacity
  <1>1. clock - last[a] \in Nat /\ tokens[a] \in 0..Capacity
    BY MaxClockIsNat DEF BucketInv, TypeOK, Balanced
  <1>2. Rate * (clock - last[a]) \in Nat
    BY <1>1, RefillNonNegative
  <1> QED
    BY <1>1, <1>2, CapacityIsNat DEF Refilled, Least

(* The balance an allow(a) finds before it takes a token.                  *)
LEMMA RefilledBalance ==
  ASSUME BucketInv, NEW a \in Agents
  PROVE  /\ Minute * granted[a] + Refilled(a) <= Capacity + Rate * (clock - start[a])
         /\ clock - start[a] <= Minute =>
              Minute * granted[a] + Refilled(a) >= Rate * (clock - start[a])
  <1> DEFINE used == Minute * granted[a]
             before == Rate * (last[a] - start[a])
             since == Rate * (clock - last[a])
             window == Rate * (clock - start[a])
  <1>1. /\ clock \in Nat /\ last[a] \in Nat /\ start[a] \in Nat /\ granted[a] \in Nat
        /\ tokens[a] \in Nat /\ tokens[a] <= Capacity
        /\ last[a] <= clock /\ start[a] <= clock
    BY MaxClockIsNat, CapacityIsNat DEF BucketInv, TypeOK, Balanced
  <1>2. clock - start[a] \in Nat /\ clock - last[a] \in Nat
    BY <1>1
  <1>3. /\ window \in Nat /\ since \in Nat /\ used \in Nat
        /\ clock - start[a] <= Minute => window <= Capacity
    BY <1>1, <1>2, RefillNonNegative, MinuteIsPositive
  <1>4. window = since + before /\ before \in Int
    <2>1. clock \in Int /\ last[a] \in Int /\ start[a] \in Int
      BY <1>1
    <2> QED
      BY <2>1, RefillsAdd, Zenon
  <1>5. CASE Counting(a)
    <2>1. /\ used + tokens[a] <= Capacity + before
          /\ last[a] - start[a] <= Minute => used + tokens[a] >= before
      BY <1>5 DEF BucketInv, Balanced
    <2>2. clock - start[a] <= Minute => last[a] - start[a] <= Minute
      BY <1>1, MinuteIsPositive
    <2>3. Refilled(a) = Least(Capacity, tokens[a] + since)
      BY <1>5 DEF Refilled, Counting
    <2> HIDE DEF used, before, since, window
    <2>4. Refilled(a) <= tokens[a] + since /\ Refilled(a) \in Nat
      BY <1>1, <1>3, <2>3, CapacityIsNat DEF Least
    <2>5. Refilled(a) = Capacity \/ Refilled(a) = tokens[a] + since
      BY <2>3 DEF Least
    <2>6. used + Refilled(a) <= Capacity + window
      BY <1>1, <1>3, <1>4, <2>1, <2>4, CapacityIsNat
    <2>7. clock - start[a] <= Minute => used + Refilled(a) >= window
      BY <1>1, <1>3, <1>4, <2>1, <2>2, <2>5, CapacityIsNat
    <2> QED
      BY <2>6, <2>7 DEF used, window
  <1>6. CASE ~ Counting(a)
    <2>1. granted[a] = 0
      BY <1>6 DEF BucketInv, Balanced
    <2>2. used = 0
      BY <2>1, MinuteIsPositive
    <2>3. Refilled(a) \in Nat /\ Refilled(a) <= Capacity
      BY RefilledType, CapacityIsNat
    <2>4. Refilled(a) = Capacity \/ Refilled(a) >= window
      <3>1. CASE a \notin known
        BY <3>1 DEF Refilled
      <3>2. CASE a \in known
        <4>1. last[a] < start[a]
          BY <1>1, <1>6, <3>2 DEF Counting
        <4>2. start[a] - last[a] \in Nat /\ clock - last[a] = (clock - start[a]) + (start[a] - last[a])
          BY <1>1, <4>1
        <4>3. since = window + Rate * (start[a] - last[a]) /\ Rate * (start[a] - last[a]) \in Nat
          BY <1>1, <4>2, RefillsAdd, RefillNonNegative
        <4>4. Refilled(a) = Least(Capacity, tokens[a] + since)
          BY <3>2 DEF Refilled
        <4> HIDE DEF since, window
        <4> QED
          BY <1>1, <1>3, <4>3, <4>4, CapacityIsNat DEF Least
      <3> QED
        BY <3>1, <3>2
    <2> HIDE DEF used, window
    <2>5. used + Refilled(a) <= Capacity + window
      BY <1>3, <2>2, <2>3, CapacityIsNat
    <2>6. clock - start[a] <= Minute => used + Refilled(a) >= window
      BY <1>3, <2>2, <2>3, <2>4, CapacityIsNat
    <2> QED
      BY <2>5, <2>6 DEF used, window
  <1> QED
    BY <1>5, <1>6

LEMMA InitBucket == Init => BucketInv
  <1> SUFFICES ASSUME Init PROVE BucketInv
    OBVIOUS
  <1>1. TypeOK
    BY CapacityIsNat, MaxClockIsNat DEF Init, TypeOK
  <1>2. ASSUME NEW a \in Agents PROVE Balanced(a)
    <2>1. ~ Counting(a)
      BY DEF Init, Counting
    <2>2. last[a] = 0 /\ start[a] = 0 /\ clock = 0 /\ granted[a] = 0
      BY DEF Init
    <2> QED
      BY <2>1, <2>2 DEF Balanced
  <1> QED
    BY <1>1, <1>2 DEF BucketInv

(* consume, with or without a token to take.                               *)
LEMMA ConsumeBucket ==
  ASSUME BucketInv, NEW a \in Agents, NEW taken \in {0, 1},
         Refilled(a) >= Minute * taken,
         tokens' = [tokens EXCEPT ![a] = Refilled(a) - Minute * taken],
         last' = [last EXCEPT ![a] = clock],
         known' = known \cup {a},
         granted' = [granted EXCEPT ![a] = @ + taken],
         UNCHANGED <<clock, start>>
  PROVE  BucketInv'
  <1>1. Refilled(a) \in Nat /\ Refilled(a) <= Capacity /\ Minute * taken \in Nat
    BY RefilledType, CapacityIsNat, MinuteIsPositive
  <1>2. Refilled(a) - Minute * taken \in 0..Capacity
    <2> DEFINE cost == Minute * taken
    <2>1. cost \in Nat /\ Refilled(a) >= cost
      BY <1>1
    <2> HIDE DEF cost
    <2>2. Refilled(a) - cost \in 0..Capacity
      BY <1>1, <2>1, CapacityIsNat
    <2> QED
      BY <2>2 DEF cost
  <1>3. /\ clock \in 0..MaxClock /\ start[a] \in 0..MaxClock /\ start[a] <= clock
        /\ granted[a] \in Nat /\ granted[a] + taken \in Nat
    BY DEF BucketInv, TypeOK, Balanced
  <1>4. TypeOK'
    BY <1>2, <1>3 DEF BucketInv, TypeOK, Capacity
  <1>5. ASSUME NEW b \in Agents, b # a PROVE Balanced(b)'
    <2>1. /\ tokens'[b] = tokens[b] /\ last'[b] = last[b] /\ granted'[b] = granted[b]
          /\ start'[b] = start[b] /\ clock' = clock /\ (b \in known' <=> b \in known)
      BY <1>5 DEF BucketInv, TypeOK
    <2>2. Counting(b)' <=> Counting(b)
      BY <2>1 DEF Counting
    <2> QED
      BY <2>1, <2>2 DEF BucketInv, Balanced, Capacity
  <1>6. Balanced(a)'
    <2>1. /\ tokens'[a] = Refilled(a) - Minute * taken /\ last'[a] = clock
          /\ granted'[a] = granted[a] + taken /\ start'[a] = start[a] /\ clock' = clock
      BY DEF BucketInv, TypeOK
    <2>2. Counting(a)'
      BY <1>3, <2>1 DEF Counting
    <2>3. Minute * granted'[a] + tokens'[a] = Minute * granted[a] + Refilled(a)
      <3>1. Minute * (granted[a] + taken) = Minute * granted[a] + Minute * taken
            /\ Minute * granted[a] \in Nat
        BY <1>3, MinuteIsPositive
      <3> DEFINE cost == Minute * taken
                 used == Minute * granted[a]
      <3>2. cost \in Nat /\ used \in Nat
        BY <1>1, <3>1
      <3> HIDE DEF cost, used
      <3>3. used + cost + (Refilled(a) - cost) = used + Refilled(a)
        BY <1>1, <3>2
      <3>4. Minute * granted'[a] = used + cost /\ tokens'[a] = Refilled(a) - cost
        BY <2>1, <3>1 DEF cost, used
      <3> QED
        BY <3>3, <3>4 DEF used
    <2>4. /\ Minute * granted[a] + Refilled(a) <= Capacity + Rate * (clock - start[a])
          /\ clock - start[a] <= Minute =>
               Minute * granted[a] + Refilled(a) >= Rate * (clock - start[a])
      BY RefilledBalance
    <2>5. last'[a] - start'[a] = clock - start[a]
      BY <2>1
    <2>6. last'[a] <= clock' /\ start'[a] <= clock'
      BY <1>3, <2>1, MaxClockIsNat
    <2> QED
      BY <2>2, <2>3, <2>4, <2>5, <2>6 DEF Balanced, Capacity
  <1> QED
    BY <1>4, <1>5, <1>6 DEF BucketInv

LEMMA NextBucket == BucketInv /\ [Next]_vars => BucketInv'
  <1> SUFFICES ASSUME BucketInv, [Next]_vars PROVE BucketInv'
    OBVIOUS
  <1>1. ASSUME NEW a \in Agents, Allow(a) PROVE BucketInv'
    <2>1. Minute * 1 = Minute
      BY MinuteIsPositive
    <2> QED
      BY <1>1, <2>1, ConsumeBucket DEF Allow
  <1>2. ASSUME NEW a \in Agents, Deny(a) PROVE BucketInv'
    <2>1. Minute * 0 = 0 /\ Refilled(a) \in Nat /\ Refilled(a) - 0 = Refilled(a)
      BY RefilledType, CapacityIsNat, MinuteIsPositive
    <2>2. granted' = [granted EXCEPT ![a] = @ + 0]
      BY <1>2 DEF Deny, BucketInv, TypeOK
    <2>3. Refilled(a) - Minute * 0 = Refilled(a) /\ Refilled(a) >= Minute * 0
      BY <2>1
    <2>4. tokens' = [tokens EXCEPT ![a] = Refilled(a) - Minute * 0]
      BY <1>2, <2>3 DEF Deny
    <2>5. /\ last' = [last EXCEPT ![a] = clock]
          /\ known' = known \cup {a}
          /\ UNCHANGED <<clock, start>>
      BY <1>2 DEF Deny
    <2> QED
      BY <2>2, <2>3, <2>4, <2>5, ConsumeBucket
  <1>3. ASSUME NEW a \in Agents, OpenWindow(a) PROVE BucketInv'
    <2>1. TypeOK'
      BY <1>3 DEF OpenWindow, BucketInv, TypeOK, Capacity
    <2>2. ASSUME NEW b \in Agents, b # a PROVE Balanced(b)'
      <3>1. /\ tokens'[b] = tokens[b] /\ last'[b] = last[b] /\ granted'[b] = granted[b]
            /\ start'[b] = start[b] /\ clock' = clock /\ known' = known
        BY <1>3, <2>2 DEF OpenWindow, BucketInv, TypeOK
      <3>2. Counting(b)' <=> Counting(b)
        BY <3>1 DEF Counting
      <3> QED
        BY <3>1, <3>2 DEF BucketInv, Balanced, Capacity
    <2>3. Balanced(a)'
      <3>1. /\ start'[a] = clock /\ granted'[a] = 0 /\ clock' = clock
            /\ tokens'[a] = tokens[a] /\ last'[a] = last[a]
            /\ clock \in Nat /\ last[a] \in Nat /\ last[a] <= clock
            /\ tokens[a] \in Nat /\ tokens[a] <= Capacity
        BY <1>3, MaxClockIsNat, CapacityIsNat DEF OpenWindow, BucketInv, TypeOK, Balanced
      <3>2. Counting(a)' => last'[a] - start'[a] = 0
        BY <3>1 DEF Counting
      <3>3. Rate * 0 = 0 /\ Minute * 0 = 0
        BY RateIsNat, MinuteIsPositive
      <3> QED
        BY <3>1, <3>2, <3>3, CapacityIsNat DEF Balanced, Capacity
    <2> QED
      BY <2>1, <2>2, <2>3 DEF BucketInv
  <1>4. CASE Tick
    <2>1. TypeOK'
      BY <1>4, MaxClockIsNat DEF Tick, BucketInv, TypeOK, Capacity
    <2>2. ASSUME NEW a \in Agents PROVE Balanced(a)'
      <3>1. /\ clock' = clock + 1 /\ clock \in Nat /\ last[a] \in Nat /\ start[a] \in Nat
            /\ UNCHANGED <<known, tokens, last, start, granted>>
        BY <1>4, MaxClockIsNat DEF Tick, BucketInv, TypeOK
      <3>2. last[a] <= clock' /\ start[a] <= clock'
        BY <3>1 DEF BucketInv, Balanced
      <3>3. Counting(a)' <=> Counting(a)
        BY <3>1 DEF Counting
      <3> QED
        BY <3>1, <3>2, <3>3 DEF BucketInv, Balanced, Capacity
    <2> QED
      BY <2>1, <2>2 DEF BucketInv
  <1>5. CASE Restart
    <2>1. TypeOK'
      BY <1>5 DEF Restart, BucketInv, TypeOK, Capacity
    <2>2. ASSUME NEW a \in Agents PROVE Balanced(a)'
      <3>1. /\ ~ Counting(a)' /\ granted'[a] = 0
            /\ last'[a] = last[a] /\ start'[a] = clock /\ clock' = clock
        BY <1>5 DEF Restart, Counting
      <3>2. last[a] <= clock /\ clock <= clock
        BY MaxClockIsNat DEF BucketInv, TypeOK, Balanced
      <3> QED
        BY <3>1, <3>2 DEF Balanced
    <2> QED
      BY <2>1, <2>2 DEF BucketInv
  <1>6. CASE UNCHANGED vars
    <2>1. UNCHANGED <<clock, known, tokens, last, start, granted>>
      BY <1>6 DEF vars
    <2>2. TypeOK'
      BY <2>1 DEF BucketInv, TypeOK, Capacity
    <2>3. \A a \in Agents : (Counting(a)' <=> Counting(a)) /\ Balanced(a)'
      BY <2>1 DEF BucketInv, Balanced, Counting, Capacity
    <2> QED
      BY <2>2, <2>3 DEF BucketInv
  <1> QED
    BY <1>1, <1>2, <1>3, <1>4, <1>5, <1>6 DEF Next

(* A bucket holds between nothing and its capacity.                        *)
THEOREM TypeCorrect == Spec => []TypeOK
  <1>1. BucketInv => TypeOK
    BY DEF BucketInv
  <1> QED
    BY <1>1, InitBucket, NextBucket, PTL DEF Spec

(* Whatever the rate and the window, an agent is never granted more sends  *)
(* than the burst and the window's refill.                                 *)
THEOREM RateIsBounded == Spec => []RateBounded
  <1>1. ASSUME BucketInv, NEW a \in Agents
        PROVE  Minute * granted[a] <= Capacity + Rate * (clock - start[a])
    <2>1. Refilled(a) \in Nat /\ Minute * granted[a] \in Nat /\ Rate * (clock - start[a]) \in Nat
      <3>1. granted[a] \in Nat /\ clock - start[a] \in Nat
        BY <1>1, MaxClockIsNat DEF BucketInv, TypeOK, Balanced
      <3> QED
        BY <1>1, <3>1, RefilledType, RefillNonNegative, CapacityIsNat, MinuteIsPositive
    <2>2. Minute * granted[a] + Refilled(a) <= Capacity + Rate * (clock - start[a])
      BY <1>1, RefilledBalance
    <2> QED
      BY <2>1, <2>2, CapacityIsNat
  <1>2. BucketInv => RateBounded
    BY <1>1 DEF RateBounded
  <1> QED
    BY <1>2, InitBucket, NextBucket, PTL DEF Spec

(* A send is refused only to an agent that has kept up with its rate.      *)
THEOREM RefusalsAreEarned == Spec => []RefusalIsEarned
  <1>1. ASSUME BucketInv, NEW a \in Agents, Refilled(a) < Minute, clock - start[a] <= Minute
        PROVE  Minute * (granted[a] + 1) > Rate * (clock - start[a])
    <2>1. granted[a] \in Nat /\ clock - start[a] \in Nat
      BY <1>1, MaxClockIsNat DEF BucketInv, TypeOK, Balanced
    <2>2. Minute * (granted[a] + 1) = Minute * granted[a] + Minute /\ Minute * granted[a] \in Nat
      BY <2>1, MinuteIsPositive
    <2>3. Minute * granted[a] + Refilled(a) >= Rate * (clock - start[a])
      BY <1>1, RefilledBalance
    <2>4. Refilled(a) \in Nat /\ Rate * (clock - start[a]) \in Nat
      BY <1>1, <2>1, RefilledType, RefillNonNegative, CapacityIsNat
    <2> QED
      BY <1>1, <2>2, <2>3, <2>4, MinuteIsPositive
  <1>2. BucketInv => RefusalIsEarned
    BY <1>1 DEF RefusalIsEarned
  <1> QED
    BY <1>2, InitBucket, NextBucket, PTL DEF Spec
=============================================================================
