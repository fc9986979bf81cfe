---------------------------- MODULE AgentsProofs ----------------------------
(***************************************************************************)
(* The MCP endpoint and the agent that reads through it, for every set of  *)
(* clients, texts, capacity, refill, window and table size: the lazily     *)
(* refilled, evicting table of tokenBuckets does what RateLimit promises   *)
(* (TableInv: no bucket is deeper in debt than the clock was set back); a  *)
(* page read in windows is the page (ReadInv); the wait a refusal names is *)
(* long enough (RestInv); the key asked longest ago is the one forgotten   *)
(* (OrderInv).                                                             *)
(***************************************************************************)
EXTENDS Agents, SequenceTheorems, WellFoundedInduction, TLAPS

\* What the clock was set back so far, in units.
Debt == (MaxBack - budget.back) * Refill

\* The table is a table: the keys in order are the keys with a bucket, and what
\* a bucket stores and what it would give are never below the debt.
TableInv ==
  /\ order \in Seq(Keys)
  /\ ToSet(order) = DOMAIN bucket
  /\ DOMAIN bucket \subseteq Keys
  /\ bucket \in [DOMAIN bucket -> [tokens : Int, age : Int]]
  /\ budget \in [back : 0..MaxBack, lost : Int, deploys : Int]
  /\ \A k \in DOMAIN bucket :
       /\ bucket[k].age <= MaxAge
       /\ bucket[k].tokens >= -Debt
       /\ bucket[k].tokens + bucket[k].age * Refill >= -Debt
-----------------------------------------------------------------------------
(* Arithmetic of one bucket.                                               *)

LEMMA UnitsType ==
  /\ Unit \in Nat \ {0} /\ Capacity \in Nat /\ Capacity >= Unit
  /\ Refill \in Nat \ {0} /\ PerSecond \in Nat \ {0}
  /\ MaxBack \in Nat /\ MaxAge \in Nat
BY BucketsAssumption

LEMMA Distribute ==
  ASSUME NEW a \in Int, NEW b \in Int
  PROVE  (a + b) * Refill = a * Refill + b * Refill /\ a * Refill \in Int
  BY UnitsType, SMT

LEMMA Monotone ==
  ASSUME NEW a \in Int, NEW b \in Int, a <= b
  PROVE  a * Refill <= b * Refill
<1>1. (b - a) * Refill >= 0
  BY UnitsType, SMT
<1>2. b * Refill = a * Refill + (b - a) * Refill
  BY Distribute, SMT
<1> QED
  BY <1>1, <1>2, UnitsType, SMT

LEMMA DebtType ==
  ASSUME TableInv
  PROVE  Debt \in Nat /\ Debt <= MaxBack * Refill
<1>1. budget.back \in 0..MaxBack
  BY DEF TableInv
<1>2. MaxBack - budget.back \in Int /\ 0 <= MaxBack - budget.back
      /\ MaxBack - budget.back <= MaxBack
  BY <1>1, UnitsType
<1>3. 0 * Refill = 0
  BY UnitsType
<1>4. 0 <= Debt /\ Debt <= MaxBack * Refill
  BY <1>2, <1>3, Monotone, UnitsType DEF Debt
<1>5. Debt \in Int
  BY <1>2, Distribute DEF Debt
<1> QED
  BY <1>4, <1>5

LEMMA TokensType ==
  ASSUME TableInv, NEW k \in Keys
  PROVE  Tokens(k) \in Int /\ Tokens(k) <= Capacity /\ Tokens(k) >= -Debt
<1>1. CASE k \notin DOMAIN bucket
  BY <1>1, UnitsType, DebtType DEF Tokens
<1>2. CASE k \in DOMAIN bucket
  <2>1. bucket[k].tokens \in Int /\ bucket[k].age \in Int
    BY <1>2 DEF TableInv
  <2>2. bucket[k].age * Refill \in Int
    BY <2>1, Distribute
  <2>3. bucket[k].tokens + bucket[k].age * Refill >= -Debt
    BY <1>2 DEF TableInv
  <2> QED
    BY <1>2, <2>1, <2>2, <2>3, UnitsType, DebtType DEF Tokens, Least
<1> QED
  BY <1>1, <1>2

\* A bucket d ticks older gives what came back in d ticks more, and one whose
\* age is not counted on is full.
LEMMA AgedBucket ==
  ASSUME TableInv, NEW d \in Int, NEW k \in DOMAIN bucket
  PROVE  LET t == bucket[k].tokens
             a == bucket[k].age
         IN  \/ t + Least(MaxAge, a + d) * Refill = t + a * Refill + d * Refill
             \/ /\ a + d > MaxAge
                /\ t + Least(MaxAge, a + d) * Refill >= Capacity
                /\ t + a * Refill + d * Refill >= Capacity
<1> DEFINE t == bucket[k].tokens
           a == bucket[k].age
<1>1. t \in Int /\ a \in Int /\ t >= -Debt
  BY DEF TableInv
<1>2. CASE a + d <= MaxAge
  <2>1. Least(MaxAge, a + d) = a + d
    BY <1>1, <1>2, UnitsType DEF Least
  <2>2. (a + d) * Refill = a * Refill + d * Refill /\ a * Refill \in Int /\ d * Refill \in Int
    BY <1>1, Distribute
  <2> QED
    BY <2>1, <2>2, <1>1
<1>3. CASE a + d > MaxAge
  <2>1. Least(MaxAge, a + d) = MaxAge
    BY <1>1, <1>3, UnitsType DEF Least
  <2>2. MaxAge * Refill >= Capacity + MaxBack * Refill
    BY BucketsAssumption
  <2>3. MaxAge * Refill \in Int /\ MaxBack * Refill \in Int
    BY UnitsType, Distribute
  <2>4. t + MaxAge * Refill >= Capacity
    BY <2>2, <2>3, <1>1, DebtType, UnitsType
  <2>5. MaxAge * Refill <= (a + d) * Refill
    BY <1>1, <1>3, Monotone, UnitsType
  <2>6. (a + d) * Refill = a * Refill + d * Refill /\ a * Refill \in Int /\ d * Refill \in Int
    BY <1>1, Distribute
  <2>7. t + a * Refill + d * Refill >= Capacity
    BY <2>3, <2>4, <2>5, <2>6, <1>1, UnitsType
  <2> QED
    BY <2>1, <2>4, <2>7, <1>3
<1> QED
  BY <1>1, <1>2, <1>3, UnitsType
-----------------------------------------------------------------------------
(* Each step of the table, as a step of the limit.                         *)

LEMMA TickRefines ==
  ASSUME TableInv, Tick
  PROVE  Limit!Tick
<1> SUFFICES ASSUME NEW k \in Keys
             PROVE  Tokens(k)' = Least(Capacity, Tokens(k) + Refill)
  BY DEF Limit!Tick, Limit!Least, Least
<1>1. bucket' = Aged(1)
  BY DEF Tick
<1>2. CASE k \notin DOMAIN bucket
  <2>1. k \notin DOMAIN bucket'
    BY <1>1, <1>2 DEF Aged
  <2> QED
    BY <1>2, <2>1, UnitsType DEF Tokens, Least
<1>3. CASE k \in DOMAIN bucket
  <2> DEFINE t == bucket[k].tokens
             a == bucket[k].age
  <2>1. t \in Int /\ a \in Int /\ bucket[k] \in [tokens : Int, age : Int]
    BY <1>3 DEF TableInv
  <2>2. k \in DOMAIN bucket' /\ bucket'[k].tokens = t /\ bucket'[k].age = Least(MaxAge, a + 1)
    BY <1>1, <1>3, <2>1 DEF Aged
  <2>3. Tokens(k)' = Least(Capacity, t + Least(MaxAge, a + 1) * Refill)
    BY <2>2 DEF Tokens, Least
  <2>4. 1 * Refill = Refill /\ a * Refill \in Int
    BY <2>1, UnitsType, Distribute
  <2>5. \/ t + Least(MaxAge, a + 1) * Refill = t + a * Refill + Refill
        \/ /\ t + Least(MaxAge, a + 1) * Refill >= Capacity
           /\ t + a * Refill + Refill >= Capacity
    BY <1>3, <2>4, AgedBucket
  <2>6. Least(MaxAge, a + 1) \in Int
    BY <2>1, UnitsType DEF Least
  <2>7. Least(MaxAge, a + 1) * Refill \in Int
    BY <2>6, Distribute
  <2>8. Least(Capacity, t + Least(MaxAge, a + 1) * Refill)
          = Least(Capacity, Least(Capacity, t + a * Refill) + Refill)
    <3> DEFINE x == t + Least(MaxAge, a + 1) * Refill
               y == t + a * Refill
    <3>1. x \in Int /\ y \in Int
      BY <2>1, <2>4, <2>7
    <3>2. x = y + Refill \/ (x >= Capacity /\ y + Refill >= Capacity)
      BY <2>5
    <3> HIDE DEF x, y
    <3>3. Least(Capacity, x) = Least(Capacity, Least(Capacity, y) + Refill)
      BY <3>1, <3>2, UnitsType DEF Least
    <3> QED
      BY <3>3 DEF x, y
  <2> QED
    BY <1>3, <2>3, <2>8 DEF Tokens
<1> QED
  BY <1>2, <1>3

LEMMA StepBackRefines ==
  ASSUME TableInv, NEW d \in 1..MaxBack, StepBack(d)
  PROVE  Limit!StepBack(d)
<1> SUFFICES ASSUME NEW k \in Keys
             PROVE  Tokens(k)' \in Int /\ Tokens(k)' \in Tokens(k) - Refill * d .. Tokens(k)
  BY DEF Limit!StepBack
<1>1. bucket' = Aged(-d)
  BY DEF StepBack
<1>2. d \in Nat /\ d * Refill \in Nat /\ Refill * d = d * Refill /\ (-d) * Refill = -(d * Refill)
  <2>1. d \in Nat
    BY UnitsType
  <2>2. d * Refill \in Nat /\ Refill * d = d * Refill
    BY <2>1, UnitsType, SMT
  <2>3. PICK e \in Int : e = -d
    BY <2>1
  <2>4. d \in Int
    BY <2>1
  <2>5. (d + e) * Refill = d * Refill + e * Refill /\ e * Refill \in Int
    BY <2>3, <2>4, Distribute, Zenon
  <2>6. d + e = 0 /\ 0 * Refill = 0
    BY <2>1, <2>3, UnitsType
  <2>7. e * Refill = -(d * Refill)
    BY <2>2, <2>5, <2>6
  <2> QED
    BY <2>1, <2>2, <2>3, <2>7
<1>3. CASE k \notin DOMAIN bucket
  <2>1. k \notin DOMAIN bucket'
    BY <1>1, <1>3 DEF Aged
  <2>2. Tokens(k)' = Capacity /\ Tokens(k) = Capacity
    BY <1>3, <2>1 DEF Tokens
  <2> QED
    BY <2>2, <1>2, UnitsType
<1>4. CASE k \in DOMAIN bucket
  <2> DEFINE t == bucket[k].tokens
             a == bucket[k].age
  <2>1. t \in Int /\ a \in Int /\ bucket[k] \in [tokens : Int, age : Int]
    BY <1>4 DEF TableInv
  <2>2. k \in DOMAIN bucket' /\ bucket'[k].tokens = t /\ bucket'[k].age = Least(MaxAge, a + (-d))
    BY <1>1, <1>4, <2>1 DEF Aged
  <2>3. Tokens(k)' = Least(Capacity, t + Least(MaxAge, a + (-d)) * Refill)
    BY <2>2 DEF Tokens, Least
  <2>4. a <= MaxAge
    BY <1>4 DEF TableInv
  <2>5. a * Refill \in Int
    BY <2>1, Distribute
  <2>6. t + Least(MaxAge, a + (-d)) * Refill = t + a * Refill - d * Refill
    BY <1>2, <1>4, <2>1, <2>4, <2>5, UnitsType, AgedBucket
  <2> QED
    BY <1>2, <1>4, <2>1, <2>3, <2>5, <2>6, UnitsType DEF Tokens, Least
<1> QED
  BY <1>3, <1>4

\* The Map after a request holds the client that asked and others it held before.
LEMMA UsedKeys ==
  ASSUME TableInv, NEW k \in Keys
  PROVE  /\ Used(k) \in Seq(Keys)
         /\ k \in ToSet(Used(k))
         /\ ToSet(Used(k)) \subseteq DOMAIN bucket \cup {k}
<1> DEFINE at   == CHOOSE i \in DOMAIN order : order[i] = k
           others == IF k \in DOMAIN bucket THEN RemoveAt(order, at) ELSE order
           kept == IF Len(others) >= MaxKeys THEN Tail(others) ELSE others
           old  == Keys \cap DOMAIN bucket
<1>1. order \in Seq(old)
  <2>1. order \in Seq(Keys) /\ \A i \in 1..Len(order) : order[i] \in DOMAIN bucket
    BY DEF TableInv, ToSet
  <2> QED
    BY <2>1
<1>2. others \in Seq(old)
  <2>1. CASE k \notin DOMAIN bucket
    BY <1>1, <2>1
  <2>2. CASE k \in DOMAIN bucket
    <3>1. at \in 1..Len(order)
      <4>1. \E i \in DOMAIN order : order[i] = k
        BY <2>2 DEF TableInv, ToSet
      <4> QED
        BY <1>1, <4>1
    <3> HIDE DEF at, old
    <3>2. SubSeq(order, 1, at - 1) \in Seq(old)
      BY <1>1, <3>1
    <3>3. SubSeq(order, at + 1, Len(order)) \in Seq(old)
      BY <1>1, <3>1
    <3> QED
      BY <2>2, <3>2, <3>3 DEF RemoveAt
  <2> QED
    BY <2>1, <2>2
<1>3. kept \in Seq(old)
  BY <1>2, BucketsAssumption
<1>4. Used(k) = Append(kept, k)
  BY DEF Used
<1>5. Used(k) \in Seq(Keys) /\ Len(Used(k)) = Len(kept) + 1 /\ Used(k)[Len(kept) + 1] = k
      /\ \A i \in 1..Len(kept) : Used(k)[i] = kept[i]
  BY <1>3, <1>4
<1>6. DOMAIN Used(k) = 1..Len(kept) + 1 /\ Len(kept) \in Nat
  BY <1>3, <1>5
<1>7. k \in ToSet(Used(k))
  <2>1. Len(kept) + 1 \in DOMAIN Used(k)
    BY <1>6
  <2> QED
    BY <1>5, <2>1, Zenon DEF ToSet
<1>8. ASSUME NEW i \in DOMAIN Used(k)
      PROVE  Used(k)[i] \in DOMAIN bucket \cup {k}
  <2> HIDE DEF kept
  <2>1. i = Len(kept) + 1 \/ i \in 1..Len(kept)
    BY <1>6
  <2>2. \A j \in 1..Len(kept) : kept[j] \in old
    BY <1>3
  <2> QED
    BY <1>5, <2>1, <2>2
<1>9. Used(k) \in Seq(Keys)
  BY <1>5
<1>10. ToSet(Used(k)) \subseteq DOMAIN bucket \cup {k}
  BY <1>8, Zenon DEF ToSet
<1> QED
  BY <1>7, <1>9, <1>10

LEMMA AskRefines ==
  ASSUME TableInv, NEW k \in Keys, Ask(k)
  PROVE  Limit!Ask(k)
<1> DEFINE forgotten == DOMAIN bucket \ ToSet(Used(k))
<1>1. forgotten \in SUBSET (Keys \ {k})
  BY UsedKeys DEF TableInv
<1>2. bucket' = [j \in ToSet(Used(k)) |-> IF j = k THEN Stored(k) ELSE bucket[j]]
  BY DEF Ask
<1>3. ASSUME NEW j \in Keys
      PROVE  Tokens(j)' = IF j \in forgotten THEN Capacity
                          ELSE IF j = k /\ Tokens(k) >= Unit THEN Tokens(k) - Unit
                          ELSE Tokens(j)
  <2>1. CASE j = k
    <3>1. k \in DOMAIN bucket' /\ bucket'[k] = Stored(k)
      BY <1>2, UsedKeys
    <3>2. Tokens(k)' = Least(Capacity, Stored(k).tokens + Stored(k).age * Refill)
      BY <3>1 DEF Tokens, Least
    <3>3. Stored(k).age * Refill = 0
      BY UnitsType DEF Stored
    <3>4. Tokens(k) \in Int /\ Tokens(k) <= Capacity
      BY TokensType
    <3>5. Stored(k).tokens = IF Tokens(k) >= Unit THEN Tokens(k) - Unit ELSE Tokens(k)
      BY DEF Stored
    <3>6. Stored(k).tokens \in Int /\ Stored(k).tokens <= Capacity
      BY <3>4, <3>5, UnitsType
    <3>7. Tokens(k)' = Stored(k).tokens
      BY <3>2, <3>3, <3>6, UnitsType DEF Least
    <3> QED
      BY <2>1, <3>5, <3>7, UsedKeys
  <2>2. CASE j # k /\ j \in ToSet(Used(k))
    <3>1. j \in DOMAIN bucket' /\ bucket'[j] = bucket[j] /\ j \in DOMAIN bucket
      BY <1>2, <2>2, UsedKeys
    <3> QED
      BY <2>2, <3>1 DEF Tokens, Least
  <2>3. CASE j # k /\ j \notin ToSet(Used(k))
    <3>1. j \notin DOMAIN bucket'
      BY <1>2, <2>3
    <3>2. Tokens(j)' = Capacity
      BY <3>1 DEF Tokens
    <3>3. j \notin forgotten => Tokens(j) = Capacity
      BY <2>3 DEF Tokens
    <3> QED
      BY <2>3, <3>2, <3>3
  <2> QED
    BY <2>1, <2>2, <2>3
<1>4. [j \in Keys |-> Tokens(j)]'
        = [j \in Keys |->
             IF j \in forgotten THEN Capacity
             ELSE IF j = k /\ Tokens(k) >= Unit THEN Tokens(k) - Unit
             ELSE Tokens(j)]
  BY <1>3
<1> QED
  BY <1>1, <1>4, Zenon DEF Limit!Ask

LEMMA RestartRefines ==
  ASSUME Restart
  PROVE  Limit!Restart
<1>1. DOMAIN bucket' = {}
  BY DEF Restart
<1> QED
  BY <1>1 DEF Limit!Restart, Tokens
-----------------------------------------------------------------------------
(* Each step keeps the invariant.                                          *)

BudgetType == budget \in [back : 0..MaxBack, lost : Int, deploys : Int]

LEMMA TickKeeps ==
  ASSUME TableInv, Tick, BudgetType', budget'.back = budget.back
  PROVE  TableInv'
<1>1. bucket' = Aged(1) /\ order' = order /\ DOMAIN bucket' = DOMAIN bucket
  BY DEF Tick, Aged
<1>2. Debt' = Debt
  BY DEF Debt
<1>3. ASSUME NEW k \in DOMAIN bucket
      PROVE  /\ bucket'[k] \in [tokens : Int, age : Int]
             /\ bucket'[k].age <= MaxAge
             /\ bucket'[k].tokens >= -Debt
             /\ bucket'[k].tokens + bucket'[k].age * Refill >= -Debt
  <2> DEFINE t == bucket[k].tokens
             a == bucket[k].age
             n == Least(MaxAge, a + 1)
  <2>1. bucket[k] \in [tokens : Int, age : Int] /\ t \in Int /\ a \in Int
    BY DEF TableInv
  <2>2. bucket'[k] = [bucket[k] EXCEPT !.age = n]
    BY <1>1 DEF Aged
  <2>3. n \in Int /\ n <= MaxAge /\ a <= n
    BY <2>1, UnitsType DEF Least, TableInv
  <2>4. bucket'[k] \in [tokens : Int, age : Int] /\ bucket'[k].tokens = t /\ bucket'[k].age = n
    BY <2>1, <2>2, <2>3
  <2>5. a * Refill \in Int /\ n * Refill \in Int /\ a * Refill <= n * Refill
    BY <2>1, <2>3, Distribute, Monotone
  <2>6. t >= -Debt /\ t + a * Refill >= -Debt
    BY DEF TableInv
  <2> HIDE DEF n, t, a
  <2> QED
    BY <2>1, <2>3, <2>4, <2>5, <2>6, DebtType
<1>4. bucket' \in [DOMAIN bucket' -> [tokens : Int, age : Int]]
  BY <1>1, <1>3 DEF Aged
<1> QED
  BY <1>1, <1>2, <1>3, <1>4 DEF TableInv, BudgetType, ToSet

LEMMA StepBackKeeps ==
  ASSUME TableInv, NEW d \in 1..MaxBack, StepBack(d),
         BudgetType', budget'.back = budget.back - d
  PROVE  TableInv'
<1>1. bucket' = Aged(-d) /\ order' = order /\ DOMAIN bucket' = DOMAIN bucket
  BY DEF StepBack, Aged
<1>2. Debt' = Debt + d * Refill /\ d * Refill \in Nat
  <2>1. d \in Int /\ d >= 0 /\ 0 * Refill = 0
    BY UnitsType
  <2>2. d * Refill \in Int /\ 0 * Refill <= d * Refill
    BY <2>1, Distribute, Monotone
  <2>3. MaxBack - budget.back \in Int
    BY UnitsType DEF TableInv
  <2>4. ((MaxBack - budget.back) + d) * Refill = (MaxBack - budget.back) * Refill + d * Refill
    BY <2>1, <2>3, Distribute
  <2>5. MaxBack - budget'.back = (MaxBack - budget.back) + d
    BY <2>1, <2>3, UnitsType DEF TableInv
  <2> QED
    BY <2>1, <2>2, <2>4, <2>5 DEF Debt
<1>3. ASSUME NEW k \in DOMAIN bucket
      PROVE  /\ bucket'[k] \in [tokens : Int, age : Int]
             /\ bucket'[k].age <= MaxAge
             /\ bucket'[k].tokens >= -Debt'
             /\ bucket'[k].tokens + bucket'[k].age * Refill >= -Debt'
  <2> DEFINE t == bucket[k].tokens
             a == bucket[k].age
             n == Least(MaxAge, a + (-d))
  <2>1. bucket[k] \in [tokens : Int, age : Int] /\ t \in Int /\ a \in Int /\ a <= MaxAge
    BY DEF TableInv
  <2>2. bucket'[k] = [bucket[k] EXCEPT !.age = n]
    BY <1>1 DEF Aged
  <2>3. n \in Int /\ n <= MaxAge /\ n + d = a
    BY <2>1, UnitsType DEF Least
  <2>4. bucket'[k] \in [tokens : Int, age : Int] /\ bucket'[k].tokens = t /\ bucket'[k].age = n
    BY <2>1, <2>2, <2>3
  <2>5. d \in Int
    BY UnitsType
  <2>6. n * Refill \in Int /\ (n + d) * Refill = n * Refill + d * Refill
    BY <2>3, <2>5, Distribute
  <2>7. t >= -Debt /\ t + a * Refill >= -Debt
    BY DEF TableInv
  <2> HIDE DEF n, t, a
  <2> QED
    BY <1>2, <2>1, <2>3, <2>4, <2>6, <2>7, DebtType
<1>4. bucket' \in [DOMAIN bucket' -> [tokens : Int, age : Int]]
  BY <1>1, <1>3 DEF Aged
<1> QED
  BY <1>1, <1>3, <1>4 DEF TableInv, BudgetType, ToSet

LEMMA AskKeeps ==
  ASSUME TableInv, NEW k \in Keys, Ask(k), BudgetType', budget'.back = budget.back
  PROVE  TableInv'
<1>1. /\ order' = Used(k)
      /\ bucket' = [j \in ToSet(Used(k)) |-> IF j = k THEN Stored(k) ELSE bucket[j]]
  BY DEF Ask
<1>2. Debt' = Debt
  BY DEF Debt
<1>3. order' \in Seq(Keys) /\ ToSet(order)' = DOMAIN bucket' /\ DOMAIN bucket' \subseteq Keys
  BY <1>1, UsedKeys DEF TableInv, ToSet
<1>4. ASSUME NEW j \in DOMAIN bucket'
      PROVE  /\ bucket'[j] \in [tokens : Int, age : Int]
             /\ bucket'[j].age <= MaxAge
             /\ bucket'[j].tokens >= -Debt
             /\ bucket'[j].tokens + bucket'[j].age * Refill >= -Debt
  <2>1. CASE j = k
    <3>1. Tokens(k) \in Int /\ Tokens(k) >= -Debt
      BY TokensType
    <3>2. Stored(k) \in [tokens : Int, age : Int] /\ Stored(k).age = 0 /\ Stored(k).tokens >= -Debt
      BY <3>1, UnitsType, DebtType DEF Stored
    <3>3. Stored(k).age * Refill = 0
      BY <3>2, UnitsType
    <3>4. bucket'[j] = Stored(k)
      BY <1>1, <2>1
    <3> QED
      BY <3>2, <3>3, <3>4, UnitsType, DebtType
  <2>2. CASE j # k
    <3>1. j \in DOMAIN bucket /\ bucket'[j] = bucket[j]
      BY <1>1, <2>2, UsedKeys
    <3> QED
      BY <3>1 DEF TableInv
  <2> QED
    BY <2>1, <2>2
<1>5. bucket' \in [DOMAIN bucket' -> [tokens : Int, age : Int]]
  BY <1>1, <1>4
<1> QED
  BY <1>2, <1>3, <1>4, <1>5 DEF TableInv, BudgetType

LEMMA RestartKeeps ==
  ASSUME TableInv, Restart, BudgetType'
  PROVE  TableInv'
<1>1. order' = <<>> /\ bucket' = <<>> /\ DOMAIN bucket' = {} /\ ToSet(<<>>) = {}
  BY DEF Restart, ToSet
<1> QED
  BY <1>1 DEF TableInv, BudgetType, ToSet
-----------------------------------------------------------------------------
LEMMA TableInit == AgentsInit => TableInv
<1> SUFFICES ASSUME AgentsInit PROVE TableInv
  OBVIOUS
<1>1. order = <<>> /\ bucket = <<>> /\ DOMAIN bucket = {} /\ ToSet(order) = {}
  BY DEF AgentsInit, BucketsInit, ToSet
<1>2. budget \in [back : 0..MaxBack, lost : Int, deploys : Int]
  BY UnitsType, AgentsAssumption DEF AgentsInit
<1> QED
  BY <1>1, <1>2 DEF TableInv

\* Every step of the endpoint and its clients keeps the invariant and is a
\* step of the limit, or leaves every level as it is.
LEMMA TableStep ==
  ASSUME TableInv, [Next]_vars
  PROVE  TableInv' /\ [Limit!Next]_([k \in Keys |-> Tokens(k)])
<1> Me \in Keys
  BY AgentsAssumption
<1>1. BudgetType
  BY DEF TableInv, BudgetType
<1>2. CASE Refused
  <2>1. Ask(Me) /\ BudgetType' /\ budget'.back = budget.back
    BY <1>1, <1>2 DEF Refused, BudgetType
  <2> QED
    BY <2>1, AskKeeps, AskRefines DEF Limit!Next
<1>3. CASE Served
  <2>1. Ask(Me) /\ BudgetType' /\ budget'.back = budget.back
    BY <1>1, <1>3 DEF Served, BudgetType
  <2> QED
    BY <2>1, AskKeeps, AskRefines DEF Limit!Next
<1>4. CASE Lost
  <2>1. Ask(Me) /\ BudgetType' /\ budget'.back = budget.back
    BY <1>1, <1>4 DEF Lost, BudgetType
  <2> QED
    BY <2>1, AskKeeps, AskRefines DEF Limit!Next
<1>5. CASE Clock
  <2>1. Tick /\ BudgetType' /\ budget'.back = budget.back
    BY <1>1, <1>5 DEF Clock, BudgetType
  <2> QED
    BY <2>1, TickKeeps, TickRefines DEF Limit!Next
<1>6. CASE Deploy
  <2>1. Restart /\ BudgetType'
    BY <1>1, <1>6 DEF Deploy, BudgetType
  <2> QED
    BY <2>1, RestartKeeps, RestartRefines DEF Limit!Next
<1>7. ASSUME NEW k \in Keys, Stranger(k)
      PROVE  TableInv' /\ [Limit!Next]_([j \in Keys |-> Tokens(j)])
  <2>1. Ask(k) /\ BudgetType' /\ budget'.back = budget.back
    BY <1>1, <1>7 DEF Stranger, BudgetType
  <2> QED
    BY <2>1, AskKeeps, AskRefines DEF Limit!Next
<1>8. ASSUME NEW d \in 1..MaxBack, ClockBack(d)
      PROVE  TableInv' /\ [Limit!Next]_([j \in Keys |-> Tokens(j)])
  <2>1. StepBack(d) /\ BudgetType' /\ budget'.back = budget.back - d
    <3>1. d <= budget.back /\ budget' = [budget EXCEPT !.back = @ - d] /\ StepBack(d)
      BY <1>8 DEF ClockBack
    <3> QED
      BY <1>1, <3>1, UnitsType DEF BudgetType
  <2> QED
    BY <2>1, StepBackKeeps, StepBackRefines DEF Limit!Next
<1>9. CASE UNCHANGED vars
  BY <1>9 DEF vars, table, TableInv, Tokens, Debt
<1> QED
  BY <1>2, <1>3, <1>4, <1>5, <1>6, <1>7, <1>8, <1>9 DEF Next

\* The table of the endpoint implements the limit, whatever agents, strangers,
\* deploys and the clock do.
THEOREM TableImplementsLimit == Spec => ImplementsLimit
<1>1. AgentsInit => Limit!Init
  BY TableInit DEF AgentsInit, BucketsInit, Limit!Init, Tokens
<1>2. TableInv /\ [Next]_vars => TableInv' /\ [Limit!Next]_([k \in Keys |-> Tokens(k)])
  BY TableStep
<1> QED
  BY <1>1, <1>2, TableInit, PTL DEF Spec, ImplementsLimit, Limit!Spec
-----------------------------------------------------------------------------
(* Windows of a page.  Every window of get_page moves on, stays within its *)
(* limit and ends outside a surrogate pair, for every text and offset.     *)

\* A set of positions that is not empty has a last one.
LEMMA LastPosition ==
  ASSUME NEW n \in Nat, NEW S \in SUBSET (1..n), S # {}
  PROVE  \E i \in S : \A j \in S : j <= i
<1> DEFINE T == {m \in Nat : n - m \in S}
<1>1. T \subseteq Nat /\ T # {}
  <2>1. PICK i \in S : TRUE
    OBVIOUS
  <2>2. n - i \in Nat /\ n - (n - i) = i
    BY <2>1
  <2> QED
    BY <2>1, <2>2
<1>2. \E x \in T : \A y \in T : ~(<<y, x>> \in OpToRel(<, Nat))
  BY <1>1, NatLessThanWellFounded, WFMin
<1>3. PICK x \in T : \A y \in T : ~(y < x)
  BY <1>1, <1>2 DEF OpToRel
<1>4. ASSUME NEW j \in S PROVE j <= n - x
  <2>1. n - j \in Nat /\ n - (n - j) = j
    OBVIOUS
  <2>2. n - j \in T
    BY <2>1
  <2>3. ~(n - j < x)
    BY <1>3, <2>2
  <2> QED
    BY <1>1, <2>1, <2>3
<1> QED
  BY <1>3, <1>4

LEMMA AfterBreakType ==
  ASSUME NEW text, NEW end \in Nat
  PROVE  /\ AfterBreak(text, end) \in 0..end
         /\ AfterBreak(text, end) # 0 => text[AfterBreak(text, end)] = "nl"
<1> DEFINE breaks == {i \in 1..end : text[i] = "nl"}
<1>1. CASE breaks = {}
  BY <1>1 DEF AfterBreak
<1>2. CASE breaks # {}
  <2>1. \E i \in breaks : \A j \in breaks : j <= i
    BY <1>2, LastPosition
  <2>2. AfterBreak(text, end) = CHOOSE i \in breaks : \A j \in breaks : j <= i
    BY <1>2 DEF AfterBreak
  <2>3. AfterBreak(text, end) \in breaks
    BY <2>1, <2>2
  <2> QED
    BY <2>3
<1> QED
  BY <1>1, <1>2

\* A window that starts within a text ends behind its start, at most Window on,
\* within the text, and not between the halves of a pair: an agent that follows
\* nextOffset reads on, and ends.
THEOREM WindowAdvances ==
  ASSUME NEW S, NEW text \in Seq(S), NEW offset \in 0..Len(text) - 1
  PROVE  /\ windowEnd(text, offset) \in offset + 1..Len(text)
         /\ windowEnd(text, offset) <= offset + Window
         /\ ~SplitsPair(text, windowEnd(text, offset))
<1> DEFINE far  == offset + Window
           line == IF 2 * (AfterBreak(text, far) - offset) > Window
                   THEN AfterBreak(text, far) ELSE far
           end  == windowEnd(text, offset)
<1>1. offset \in Nat /\ Window \in Nat /\ Window >= 2 /\ far \in Nat /\ Len(text) \in Nat
  BY WindowAssumption
<1>2. CASE far >= Len(text)
  <2>1. end = Len(text)
    BY <1>2 DEF windowEnd
  <2> QED
    BY <1>1, <1>2, <2>1 DEF SplitsPair
<1>3. CASE ~(far >= Len(text))
  <2>1. AfterBreak(text, far) \in 0..far
        /\ (AfterBreak(text, far) # 0 => text[AfterBreak(text, far)] = "nl")
    BY <1>1, AfterBreakType
  <2>2. line \in offset + 2..far /\ line < Len(text)
    BY <1>1, <1>3, <2>1
  <2>3. end = IF text[line] = "hi" THEN line - 1 ELSE line
    BY <1>3 DEF windowEnd
  <2> HIDE DEF line, far
  <2>4. CASE text[line] = "hi"
    <3>1. end = line - 1 /\ end + 1 = line
      BY <1>1, <2>2, <2>3, <2>4
    <3>2. ~SplitsPair(text, end)
      BY <2>4, <3>1 DEF SplitsPair
    <3> QED
      BY <1>1, <2>2, <3>1, <3>2 DEF far
  <2>5. CASE text[line] # "hi"
    <3>1. end = line
      BY <2>3, <2>5
    <3>2. ~SplitsPair(text, end)
      BY <2>5, <3>1 DEF SplitsPair
    <3> QED
      BY <1>1, <2>2, <3>1, <3>2 DEF far
  <2> QED
    BY <2>4, <2>5
<1> QED
  BY <1>2, <1>3
-----------------------------------------------------------------------------
(* What an agent has read.                                                 *)

Phases == {"probe", "open", "opened", "reading", "done", "declined"}

\* What was read so far is the start of the one text it came from, if it came
\* from one; after a deploy between two windows nothing is claimed.
Reads(t) ==
  agent.of \subseteq {t} =>
    /\ Len(agent.got) <= Len(t)
    /\ agent.got = SubSeq(t, 1, Len(agent.got))
    /\ ~SplitsPair(t, Len(agent.got))
    /\ agent.phase = "done" => agent.got = t

ReadInv ==
  /\ page \in Texts
  /\ agent.phase \in Phases
  /\ agent.got \in Seq(Units)
  /\ agent = [phase |-> agent.phase, version |-> agent.version, got |-> agent.got,
              of |-> agent.of]
  /\ \A t \in Texts : Reads(t)

\* Two stretches of a text that meet are one.
LEMMA Stretches ==
  ASSUME NEW S, NEW t \in Seq(S), NEW m \in 0..Len(t), NEW n \in m..Len(t)
  PROVE  /\ SubSeq(t, 1, m) \o SubSeq(t, m + 1, n) = SubSeq(t, 1, n)
         /\ Len(SubSeq(t, 1, n)) = n /\ SubSeq(t, 1, n) \in Seq(S)
         /\ SubSeq(t, m + 1, n) \in Seq(S)
         /\ SubSeq(t, 1, Len(t)) = t
<1>1. /\ Len(t) \in Nat /\ m \in Nat /\ n \in Nat /\ m <= n /\ n <= Len(t)
      /\ 1 \in 1..Len(t) + 1 /\ m \in 1 - 1..Len(t)
  OBVIOUS
<1>2. SubSeq(t, 1, m) \o SubSeq(t, m + 1, n) = SubSeq(t, 1, n)
  BY <1>1, ConcatAdjacentSubSeq
<1>3. SubSeq(t, 1, Len(t)) = t
  BY SubSeqFull
<1>4. Len(SubSeq(t, 1, n)) = n /\ SubSeq(t, 1, n) \in Seq(S) /\ SubSeq(t, m + 1, n) \in Seq(S)
  BY <1>1
<1> QED BY <1>2, <1>3, <1>4

\* A phase that starts over has read nothing.
LEMMA AtReads ==
  ASSUME page' \in Texts, NEW phase \in Phases \ {"done"}, NEW v, agent' = At(phase, v)
  PROVE  ReadInv'
<1>1. agent'.phase = phase /\ agent'.got = <<>> /\ agent'.of = {}
      /\ agent' = [phase |-> agent'.phase, version |-> agent'.version, got |-> agent'.got,
                   of |-> agent'.of]
  BY DEF At
<1>2. ASSUME NEW t \in Texts PROVE Reads(t)'
  <2>1. t \in Seq(Units) /\ Len(t) \in Nat /\ SubSeq(t, 1, 0) = <<>> /\ Len(<<>>) = 0
    BY AgentsAssumption
  <2> QED BY <1>1, <2>1 DEF Reads, SplitsPair
<1> QED BY <1>1, <1>2 DEF ReadInv

\* What get_page answers: the stretch from the offset to the next one, which is
\* 0 only when the text has been read to its end.
LEMMA GetPageAnswers ==
  ASSUME NEW offset \in Nat, page \in Seq(Units),
         "error" \notin DOMAIN GetPage(offset)
  PROVE  \E end \in offset..Len(page) :
           /\ GetPage(offset).text = SubSeq(page, offset + 1, end)
           /\ GetPage(offset).next = 0 => end = Len(page)
           /\ ~SplitsPair(page, end)
<1> DEFINE end == windowEnd(page, offset)
<1>1. Len(page) \in Nat
  OBVIOUS
<1>2. ~(offset > 0 /\ offset >= Len(page))
  <2> SUFFICES ASSUME offset > 0 /\ offset >= Len(page) PROVE "error" \in DOMAIN GetPage(offset)
    OBVIOUS
  <2>1. GetPage(offset) = [error |-> "past the end"]
    BY DEF GetPage
  <2> QED BY <2>1
<1>3. GetPage(offset) = [text |-> SubSeq(page, offset + 1, end),
                         next |-> IF end < Len(page) THEN end ELSE 0]
  BY <1>2 DEF GetPage
<1>4. CASE offset < Len(page)
  <2>1. offset \in 0..Len(page) - 1
    BY <1>1, <1>4
  <2>2. end \in offset + 1..Len(page) /\ ~SplitsPair(page, end)
    BY <2>1, WindowAdvances
  <2>3. end \in offset..Len(page) /\ end # 0
    BY <2>2
  <2>5. GetPage(offset).text = SubSeq(page, offset + 1, end)
    <3>1. \A x, y : [text |-> x, next |-> y].text = x
      OBVIOUS
    <3> QED BY <1>3, <3>1, Zenon
  <2> HIDE DEF end
  <2>4. GetPage(offset).next = 0 => end = Len(page)
    BY <1>1, <1>3, <2>3
  <2> QED BY <2>2, <2>3, <2>4, <2>5
<1>5. CASE offset = Len(page)
  <2>1. offset = 0 /\ offset + Window >= Len(page)
    BY <1>1, <1>2, <1>5, WindowAssumption
  <2>2. end = Len(page)
    BY <2>1 DEF windowEnd
  <2> QED BY <1>1, <1>3, <1>5, <2>2 DEF SplitsPair
<1> QED BY <1>1, <1>2, <1>4, <1>5

\* A request that is served with 200 while the agent reads was get_page from
\* where the agent is.
LEMMA ReadingAsks ==
  ASSUME agent.phase = "reading", NEW m \in Messages, Wait(Tokens(Me)) = 0,
         Handle(Me, m).status = 200
  PROVE  Handle(Me, m).body = GetPage(Len(agent.got))
<1>1. m.method = "tools/call" /\ m.id = TRUE /\ m.asked = Len(agent.got)
  <2>1. CASE agent.version \in Stateless
    BY <2>1 DEF Messages, Message
  <2>2. CASE agent.version \notin Stateless
    BY <2>2 DEF Messages, Message
  <2> QED BY <2>1, <2>2
<1>2. Handle(Me, m) = Dispatch(m)
  BY DEF Handle
<1>3. Dispatch(m) = ModernAnswer(m) \/ Dispatch(m) = LegacyAnswer(m)
  BY <1>1 DEF Dispatch
<1>4. \/ Dispatch(m) = Called(m)
      \/ \E body : Dispatch(m) = Answer(400, body)
  BY <1>1, <1>3 DEF ModernAnswer, LegacyAnswer
<1>5. ASSUME NEW body PROVE Answer(400, body).status = 400
  BY DEF Answer
<1>6. Dispatch(m) = Called(m)
  BY <1>2, <1>4, <1>5
<1>7. Called(m).body = GetPage(Len(agent.got))
  BY <1>1 DEF Called, Answer
<1> QED BY <1>2, <1>6, <1>7

LEMMA ServedReads ==
  ASSUME ReadInv, Served
  PROVE  ReadInv'
<1>1. PICK m \in Messages : agent' = After(Handle(Me, m))
  BY DEF Served
<1> DEFINE reply == Handle(Me, m)
<1>2. page' = page /\ page \in Texts /\ page \in Seq(Units) /\ Wait(Tokens(Me)) = 0
      /\ agent.phase \in Phases \ {"done", "declined"}
  BY AgentsAssumption DEF ReadInv, Served, Active
<1>3. CASE \E phase \in Phases \ {"done"} : \E v : agent' = At(phase, v)
  BY <1>2, <1>3, AtReads
<1>4. CASE ~\E phase \in Phases \ {"done"} : \E v : agent' = At(phase, v)
  <2>1. agent.phase \notin {"probe", "open", "opened"} /\ agent' = AfterWindow(reply)
    BY <1>1, <1>2, <1>4 DEF After, AfterProbe, AfterOpen, Opening, Phases
  <2>2. agent.phase = "reading"
    BY <1>2, <2>1 DEF Phases
  <2>3. reply.status = 200 /\ "error" \notin DOMAIN reply.body
    BY <1>4, <2>1 DEF AfterWindow, Phases
  <2>4. reply.body = GetPage(Len(agent.got))
    BY <1>2, <2>2, <2>3, ReadingAsks
  <2> DEFINE n == Len(agent.got)
  <2> HIDE DEF reply
  <2>5. agent' = [agent EXCEPT !.got = @ \o GetPage(n).text,
                               !.of = @ \cup {page},
                               !.phase = IF GetPage(n).next = 0 THEN "done" ELSE @]
    BY <2>1, <2>3, <2>4 DEF AfterWindow
  <2>6. /\ agent'.got = agent.got \o GetPage(n).text
        /\ agent'.of = agent.of \cup {page}
        /\ agent'.phase = IF GetPage(n).next = 0 THEN "done" ELSE agent.phase
        /\ agent' = [phase |-> agent'.phase, version |-> agent'.version, got |-> agent'.got,
                     of |-> agent'.of]
    BY <2>5, Zenon DEF ReadInv
  <2>7. n \in Nat /\ agent.got \in Seq(Units)
    BY DEF ReadInv
  <2>8. PICK end \in n..Len(page) :
          /\ GetPage(n).text = SubSeq(page, n + 1, end)
          /\ GetPage(n).next = 0 => end = Len(page)
          /\ ~SplitsPair(page, end)
    BY <1>2, <2>3, <2>4, <2>7, GetPageAnswers
  <2> HIDE DEF n
  <2>9. n \in 0..Len(page) /\ Len(page) \in Nat /\ end \in Nat
    BY <1>2, <2>7, <2>8
  <2>10. /\ SubSeq(page, 1, n) \o SubSeq(page, n + 1, end) = SubSeq(page, 1, end)
         /\ Len(SubSeq(page, 1, end)) = end
         /\ SubSeq(page, n + 1, end) \in Seq(Units)
         /\ SubSeq(page, 1, Len(page)) = page
    BY <1>2, <2>8, <2>9, Stretches
  <2>11. agent'.got \in Seq(Units)
    BY <2>6, <2>7, <2>8, <2>10
  <2>12. agent'.phase \in Phases
    BY <1>2, <2>6 DEF Phases
  <2>13. ASSUME NEW t \in Texts PROVE Reads(t)'
    <3> SUFFICES ASSUME agent'.of \subseteq {t}
                 PROVE  /\ Len(agent'.got) <= Len(t)
                        /\ agent'.got = SubSeq(t, 1, Len(agent'.got))
                        /\ ~SplitsPair(t, Len(agent'.got))
                        /\ agent'.phase = "done" => agent'.got = t
      BY DEF Reads
    <3>1. t = page /\ agent.of \subseteq {t}
      BY <2>6
    <3>2. agent.got = SubSeq(page, 1, n)
      BY <3>1 DEF ReadInv, Reads, n
    <3>3. agent'.got = SubSeq(page, 1, end) /\ Len(agent'.got) = end
      BY <2>6, <2>8, <2>10, <3>2
    <3>4. agent'.phase = "done" => end = Len(page)
      BY <2>2, <2>6, <2>8
    <3>5. ~SplitsPair(t, Len(agent'.got))
      BY <2>8, <3>1, <3>3
    <3>6. Len(agent'.got) <= Len(t)
      BY <2>8, <2>9, <3>1, <3>3
    <3>7. agent'.got = SubSeq(t, 1, Len(agent'.got))
      BY <3>1, <3>3
    <3>8. agent'.phase = "done" => agent'.got = t
      BY <2>10, <3>1, <3>3, <3>4
    <3> QED BY <3>5, <3>6, <3>7, <3>8
  <2> QED BY <1>2, <2>6, <2>11, <2>12, <2>13 DEF ReadInv
<1> QED BY <1>3, <1>4

LEMMA ReadInit == AgentsInit => ReadInv
<1> SUFFICES ASSUME AgentsInit PROVE ReadInv
  OBVIOUS
<1>1. page \in Texts /\ agent = Opening(Head(speaks))
  BY DEF AgentsInit
<1>2. PICK phase \in Phases \ {"done"} : agent = At(phase, Head(speaks))
  BY <1>1 DEF Opening, Phases
<1>3. agent.phase = phase /\ agent.got = <<>> /\ agent.of = {}
      /\ agent = [phase |-> agent.phase, version |-> agent.version, got |-> agent.got,
                  of |-> agent.of]
  BY <1>2 DEF At
<1>4. ASSUME NEW t \in Texts PROVE Reads(t)
  <2>1. t \in Seq(Units) /\ Len(t) \in Nat /\ SubSeq(t, 1, 0) = <<>> /\ Len(<<>>) = 0
    BY AgentsAssumption
  <2> QED BY <1>3, <2>1 DEF Reads, SplitsPair
<1>5. page \in Texts /\ agent.phase \in Phases /\ agent.got \in Seq(Units)
  BY <1>1, <1>3, <<>> \in Seq(Units), Zenon
<1> QED BY <1>3, <1>4, <1>5 DEF ReadInv

LEMMA ReadStep ==
  ASSUME ReadInv, [Next]_vars
  PROVE  ReadInv'
<1>1. CASE Served
  BY <1>1, ServedReads
<1>2. CASE ~Served
  <2>1. agent' = agent /\ page' \in Texts
    BY <1>2 DEF Next, Refused, Lost, Clock, Deploy, Stranger, ClockBack, vars, ReadInv
  <2> QED BY <2>1 DEF ReadInv, Reads
<1> QED BY <1>1, <1>2

\* What an agent got of one text is that text from its start, cut outside a
\* surrogate pair, and all of it once the agent is done: for every set of
\* texts and windows, with answers lost, refusals and deploys in between.
THEOREM WholePages == Spec => []WholePage
<1>1. ReadInv => WholePage
  BY DEF ReadInv, Reads, WholePage
<1> QED BY <1>1, ReadInit, ReadStep, PTL DEF Spec
-----------------------------------------------------------------------------
(* Waiting out a refusal.                                                  *)

\* A patient agent will have a token when its wait is over.
RestInv ==
  /\ rest \in Nat
  /\ patient \in BOOLEAN
  /\ patient => Tokens(Me) + rest * Refill >= Unit

\* Another client's request costs nothing, and a refused one neither.
LEMMA AskTokens ==
  ASSUME TableInv, NEW k \in Keys, Ask(k), NEW j \in Keys,
         j # k \/ ~(Tokens(k) >= Unit)
  PROVE  Tokens(j)' = Tokens(j) \/ Tokens(j)' = Capacity
<1> DEFINE level == [i \in Keys |-> Tokens(i)]
<1>1. Limit!Ask(k)
  BY AskRefines
<1>2. PICK forgotten \in SUBSET (Keys \ {k}) :
        level' = [i \in Keys |->
                    IF i \in forgotten THEN Capacity
                    ELSE IF i = k /\ level[k] >= Unit THEN level[k] - Unit
                    ELSE level[i]]
  BY <1>1, Zenon DEF Limit!Ask
<1>3. level'[j] = Tokens(j)' /\ level[j] = Tokens(j) /\ level[k] = Tokens(k)
  OBVIOUS
<1> HIDE DEF level
<1>4. level'[j] = IF j \in forgotten THEN Capacity
                  ELSE IF j = k /\ level[k] >= Unit THEN level[k] - Unit
                  ELSE level[j]
  BY <1>2, Zenon
<1> QED BY <1>3, <1>4

\* The wait of a refusal, rounded up to whole seconds, brings what is missing.
LEMMA WaitBrings ==
  ASSUME NEW units \in Int, ~(units >= Unit)
  PROVE  /\ Wait(units) \in Nat
         /\ units + (Wait(units) * PerSecond) * Refill >= Unit
<1> DEFINE D == PerSecond * Refill
           x == Unit - units + D - 1
           w == x \div D
<1>1. D \in Nat \ {0}
  BY UnitsType, SMT
<1> HIDE DEF D
<1>2. x \in Int /\ x >= D
  BY <1>1, UnitsType
<1> HIDE DEF x
<1>3. w \in Int /\ D * w <= x /\ x < D * w + D
  BY <1>1, <1>2, SMT
<1>4. Wait(units) = w
  BY DEF Wait, w, x, D
<1> HIDE DEF w
<1>5. w >= 0
  BY <1>1, <1>2, <1>3, SMT
<1>6. (w * PerSecond) * Refill = D * w
  BY <1>3, UnitsType, SMT DEF D
<1>7. D * w >= Unit - units
  BY <1>1, <1>3, UnitsType, SMT DEF x
<1> QED BY <1>1, <1>3, <1>4, <1>5, <1>6, <1>7, UnitsType

LEMMA RestStep ==
  ASSUME TableInv, RestInv, [Next]_vars
  PROVE  RestInv'
<1> Me \in Keys
  BY AgentsAssumption
<1>1. Tokens(Me) \in Int /\ Tokens(Me) <= Capacity
  BY TokensType
<1>2. \A a, b \in Nat : a * b \in Nat
  BY SMT
<1>3. rest * Refill \in Nat
  BY <1>2, UnitsType DEF RestInv
<1>4. ASSUME rest' = rest, patient' = patient,
             Tokens(Me)' = Tokens(Me) \/ Tokens(Me)' = Capacity
      PROVE  RestInv'
  BY <1>1, <1>3, <1>4, UnitsType DEF RestInv
<1>5. CASE Refused
  <2>1. rest' = Wait(Tokens(Me)) * PerSecond /\ patient' = TRUE /\ Wait(Tokens(Me)) > 0 /\ Ask(Me)
    BY <1>5 DEF Refused
  <2>2. ~(Tokens(Me) >= Unit)
    BY <2>1 DEF Wait
  <2>3. Tokens(Me)' = Tokens(Me) \/ Tokens(Me)' = Capacity
    BY <2>1, <2>2, AskTokens
  <2>4. Wait(Tokens(Me)) \in Nat /\ Tokens(Me) + rest' * Refill >= Unit
    BY <1>1, <2>1, <2>2, WaitBrings
  <2>5. rest' \in Nat /\ rest' * Refill \in Nat
    BY <1>2, <2>1, <2>4, UnitsType
  <2> QED BY <1>1, <2>1, <2>3, <2>4, <2>5, UnitsType DEF RestInv
<1>6. CASE Served \/ Lost
  BY <1>6 DEF Served, Lost, RestInv
<1>7. CASE Clock
  <2>1. patient' = patient /\ Tick /\ rest' = IF rest = 0 THEN 0 ELSE rest - 1
    BY <1>7 DEF Clock
  <2>2. Tokens(Me)' = Least(Capacity, Tokens(Me) + Refill)
    <3> DEFINE level == [i \in Keys |-> Tokens(i)]
    <3>1. Limit!Tick
      BY <2>1, TickRefines
    <3>2. level' = [k \in Keys |-> Least(Capacity, level[k] + Refill)]
      BY <3>1 DEF Limit!Tick, Limit!Least, Least
    <3>3. level'[Me] = Tokens(Me)' /\ level[Me] = Tokens(Me)
      OBVIOUS
    <3> HIDE DEF level
    <3> QED BY <3>2, <3>3
  <2>3. rest' \in Nat /\ (rest # 0 => rest' * Refill + Refill = rest * Refill)
        /\ (rest = 0 => rest' * Refill = 0 /\ rest * Refill = 0)
    BY <2>1, UnitsType, SMT DEF RestInv
  <2>4. rest' * Refill \in Nat
    BY <1>2, <2>3, UnitsType
  <2> QED BY <1>1, <1>3, <2>1, <2>2, <2>3, <2>4, UnitsType DEF RestInv, Least
<1>8. CASE Deploy
  <2>1. rest' = rest /\ patient' = patient /\ DOMAIN bucket' = {}
    BY <1>8 DEF Deploy, Restart
  <2> QED BY <1>4, <2>1 DEF Tokens
<1>9. ASSUME NEW k \in Keys, Stranger(k) PROVE RestInv'
  <2>1. k # Me /\ Ask(k) /\ rest' = rest /\ patient' = patient
    BY <1>9 DEF Stranger
  <2> QED BY <1>4, <2>1, AskTokens
<1>10. ASSUME NEW d \in 1..MaxBack, ClockBack(d) PROVE RestInv'
  BY <1>10 DEF ClockBack, RestInv
<1>11. CASE UNCHANGED vars
  BY <1>4, <1>11 DEF vars, table, Tokens
<1> QED BY <1>5, <1>6, <1>7, <1>8, <1>9, <1>10, <1>11 DEF Next

\* An agent that waited as long as a refusal said is not refused again, for
\* every rate and every crowd of other clients: the answer may round the wait
\* up, never down.
THEOREM RetryAfterIsEnough == Spec => RetryAfterSuffices
<1>1. AgentsInit => TableInv /\ RestInv
  <2> SUFFICES ASSUME AgentsInit PROVE RestInv
    BY TableInit
  <2>1. rest = 0 /\ patient = FALSE
    BY DEF AgentsInit
  <2> QED BY <2>1 DEF RestInv
<1>2. TableInv /\ RestInv /\ [Next]_vars => TableInv' /\ RestInv'
  BY TableStep, RestStep
<1>3. TableInv /\ RestInv => ~(Refused /\ patient)
  <2> SUFFICES ASSUME TableInv, RestInv, Refused, patient PROVE FALSE
    OBVIOUS
  <2>1. rest = 0 /\ Wait(Tokens(Me)) > 0 /\ 0 * Refill = 0
    BY UnitsType DEF Refused, Active
  <2>2. Tokens(Me) \in Int /\ Tokens(Me) >= Unit
    BY <2>1, TokensType, AgentsAssumption, UnitsType DEF RestInv
  <2> QED BY <2>1, <2>2 DEF Wait
<1> QED BY <1>1, <1>2, <1>3, PTL DEF Spec, RetryAfterSuffices
-----------------------------------------------------------------------------
(* Whom the table forgets.                                                 *)

\* The Map holds a key once, at most MaxKeys of them, and while the clock runs
\* forward those asked longest ago first.
OrderInv ==
  /\ Len(order) <= MaxKeys
  /\ \A i, j \in DOMAIN order : order[i] = order[j] => i = j
  /\ budget.back = MaxBack =>
       /\ \A k \in DOMAIN bucket : bucket[k].age >= 0
       /\ \A i, j \in DOMAIN order : i <= j => bucket[order[j]].age <= bucket[order[i]].age

\* A request puts its key behind the others, of which at most one goes: its own
\* old entry, or the first of a full Map that does not have it.
LEMMA UsedCuts ==
  ASSUME TableInv, OrderInv, NEW k \in Keys
  PROVE  \E c \in 1..Len(order) + 1, kept \in Seq(Keys) :
           /\ Used(k) = Append(kept, k)
           /\ Len(kept) = IF c <= Len(order) THEN Len(order) - 1 ELSE Len(order)
           /\ \A i \in 1..Len(kept) : kept[i] = order[IF i < c THEN i ELSE i + 1]
           /\ \/ k \in DOMAIN bucket /\ c <= Len(order) /\ order[c] = k
              \/ k \notin DOMAIN bucket /\ c = Len(order) + 1 /\ Len(order) < MaxKeys
              \/ k \notin DOMAIN bucket /\ c = 1 /\ Len(order) >= 1
<1> DEFINE at   == CHOOSE i \in DOMAIN order : order[i] = k
           others == IF k \in DOMAIN bucket THEN RemoveAt(order, at) ELSE order
           kept == IF Len(others) >= MaxKeys THEN Tail(others) ELSE others
<1>1. order \in Seq(Keys) /\ Len(order) \in Nat /\ DOMAIN order = 1..Len(order)
      /\ Len(order) <= MaxKeys /\ MaxKeys \in Nat \ {0}
  BY BucketsAssumption DEF TableInv, OrderInv
<1>2. Used(k) = Append(kept, k)
  BY DEF Used
<1>3. CASE k \in DOMAIN bucket
  <2>1. at \in 1..Len(order) /\ order[at] = k
    <3>1. \E i \in DOMAIN order : order[i] = k
      BY <1>3 DEF TableInv, ToSet
    <3> QED
      BY <1>1, <3>1
  <2> HIDE DEF at
  <2> DEFINE a == SubSeq(order, 1, at - 1)
             b == SubSeq(order, at + 1, Len(order))
  <2>2. /\ a \in Seq(Keys) /\ Len(a) = at - 1 /\ \A i \in 1..at - 1 : a[i] = order[i]
        /\ b \in Seq(Keys) /\ Len(b) = Len(order) - at
        /\ \A i \in 1..Len(order) - at : b[i] = order[at + i]
    <3>1. at - 1 \in Int /\ at + 1 \in Int /\ Len(order) \in Int /\ 1 \in Int
      BY <1>1, <2>1
    <3>2. \A i \in 1..Len(order) : order[i] \in Keys
      BY <1>1
    <3>3. /\ \A i \in 1..at - 1 : order[i] \in Keys
          /\ \A i \in at + 1..Len(order) : order[i] \in Keys
      BY <1>1, <2>1, <3>2
    <3>4. /\ a \in Seq(Keys)
          /\ Len(a) = IF 1 <= at - 1 THEN at - 1 - 1 + 1 ELSE 0
          /\ \A i \in 1..at - 1 - 1 + 1 : a[i] = order[1 + i - 1]
      BY <3>1, <3>3, SubSeqProperties
    <3>5. /\ b \in Seq(Keys)
          /\ Len(b) = IF at + 1 <= Len(order) THEN Len(order) - (at + 1) + 1 ELSE 0
          /\ \A i \in 1..Len(order) - (at + 1) + 1 : b[i] = order[at + 1 + i - 1]
      BY <3>1, <3>3, SubSeqProperties
    <3> HIDE DEF a, b
    <3>6. at \in Int /\ at >= 1 /\ at <= Len(order) /\ Len(order) \in Int
      BY <1>1, <2>1
    <3>7. at - 1 - 1 + 1 = at - 1 /\ Len(order) - (at + 1) + 1 = Len(order) - at
      BY <3>6
    <3>8. Len(a) = at - 1 /\ Len(b) = Len(order) - at
      BY <3>4, <3>5, <3>6
    <3>9. \A i \in Int : 1 + i - 1 = i /\ at + 1 + i - 1 = at + i
      BY <3>6
    <3>10. /\ \A i \in 1..at - 1 : a[i] = order[i]
           /\ \A i \in 1..Len(order) - at : b[i] = order[at + i]
      <4>1. ASSUME NEW i \in 1..at - 1 PROVE a[i] = order[i]
        <5>1. i \in 1..at - 1 - 1 + 1 /\ 1 + i - 1 = i
          BY <3>7, <3>9
        <5>2. a[i] = order[1 + i - 1]
          BY <3>4, <5>1, Zenon
        <5> QED BY <5>1, <5>2, Zenon
      <4>2. ASSUME NEW i \in 1..Len(order) - at PROVE b[i] = order[at + i]
        <5>1. i \in 1..Len(order) - (at + 1) + 1 /\ at + 1 + i - 1 = at + i
          BY <3>7, <3>9
        <5>2. b[i] = order[at + 1 + i - 1]
          BY <3>5, <5>1, Zenon
        <5> QED BY <5>1, <5>2, Zenon
      <4> QED BY <4>1, <4>2
    <3> QED BY <3>4, <3>5, <3>8, <3>10
  <2>3. others = a \o b
    BY <1>3 DEF RemoveAt
  <2> HIDE DEF a, b
  <2>4. /\ others \in Seq(Keys) /\ Len(others) = Len(order) - 1
        /\ \A i \in 1..Len(order) - 1 : others[i] = IF i <= at - 1 THEN a[i] ELSE b[i - (at - 1)]
    <3>1. Len(a) + Len(b) = Len(order) - 1
      BY <1>1, <2>1, <2>2
    <3>2. /\ a \o b \in Seq(Keys)
          /\ Len(a \o b) = Len(a) + Len(b)
          /\ \A i \in 1..Len(a) + Len(b) :
               (a \o b)[i] = IF i <= Len(a) THEN a[i] ELSE b[i - Len(a)]
      BY <2>2, ConcatProperties
    <3> HIDE DEF others
    <3> QED BY <2>2, <2>3, <3>1, <3>2
  <2>5. ASSUME NEW i \in 1..Len(order) - 1
        PROVE  others[i] = order[IF i < at THEN i ELSE i + 1]
    <3>1. CASE i < at
      <4>1. i \in 1..at - 1 /\ i <= at - 1
        BY <1>1, <2>1, <3>1
      <4> QED BY <2>2, <2>4, <3>1, <4>1
    <3>2. CASE ~(i < at)
      <4>1. i - (at - 1) \in 1..Len(order) - at /\ ~(i <= at - 1) /\ at + (i - (at - 1)) = i + 1
        BY <1>1, <2>1, <3>2
      <4>2. others[i] = b[i - (at - 1)]
        BY <2>4, <4>1
      <4> QED BY <2>2, <3>2, <4>1, <4>2
    <3> QED BY <3>1, <3>2
  <2> HIDE DEF others
  <2>6. kept = others
    <3>1. ~(Len(others) >= MaxKeys)
      BY <1>1, <2>4
    <3> QED BY <3>1
  <2>7. /\ at \in 1..Len(order) + 1 /\ at <= Len(order) /\ kept \in Seq(Keys)
        /\ Len(kept) = Len(order) - 1
        /\ \A i \in 1..Len(kept) : kept[i] = order[IF i < at THEN i ELSE i + 1]
    <3> HIDE DEF kept
    <3>1. at \in 1..Len(order) + 1 /\ at <= Len(order)
      BY <1>1, <2>1
    <3>2. kept \in Seq(Keys) /\ Len(kept) = Len(order) - 1
      BY <2>4, <2>6
    <3>3. \A i \in 1..Len(kept) : kept[i] = order[IF i < at THEN i ELSE i + 1]
      BY <2>5, <2>6, <3>2
    <3> QED BY <3>1, <3>2, <3>3
  <2> HIDE DEF kept
  <2> QED BY <1>2, <1>3, <2>1, <2>7
<1>4. CASE k \notin DOMAIN bucket /\ Len(order) < MaxKeys
  <2>1. kept = order
    <3>1. others = order
      BY <1>4
    <3> HIDE DEF others
    <3>2. ~(Len(order) >= MaxKeys)
      BY <1>1, <1>4
    <3> QED BY <3>1, <3>2
  <2> HIDE DEF kept
  <2> DEFINE c == Len(order) + 1
  <2>2. /\ c \in 1..Len(order) + 1 /\ ~(c <= Len(order))
        /\ \A i \in 1..Len(kept) : kept[i] = order[IF i < c THEN i ELSE i + 1]
    BY <1>1, <2>1
  <2> QED BY <1>1, <1>2, <1>4, <2>1, <2>2
<1>5. CASE k \notin DOMAIN bucket /\ ~(Len(order) < MaxKeys)
  <2>1. kept = Tail(order) /\ order # <<>> /\ Len(order) >= 1
    <3>1. others = order
      BY <1>5
    <3> HIDE DEF others
    <3>2. Len(order) >= MaxKeys /\ Len(order) >= 1 /\ order # <<>>
      BY <1>1, <1>5
    <3> QED BY <3>1, <3>2
  <2>2. /\ kept \in Seq(Keys) /\ Len(kept) = Len(order) - 1
        /\ \A i \in 1..Len(kept) : kept[i] = order[i + 1]
    BY <1>1, <2>1, HeadTailProperties
  <2> HIDE DEF kept
  <2>3. /\ 1 \in 1..Len(order) + 1 /\ 1 <= Len(order)
        /\ \A i \in 1..Len(kept) : kept[i] = order[IF i < 1 THEN i ELSE i + 1]
    BY <1>1, <2>1, <2>2
  <2> QED BY <1>2, <1>5, <2>1, <2>2, <2>3
<1> QED BY <1>3, <1>4, <1>5

\* The entries of the Map after a request: the other keys in the order they had,
\* then the one that asked.
LEMMA AskOrder ==
  ASSUME TableInv, OrderInv, NEW k \in Keys, Ask(k)
  PROVE  \E n \in Nat : \E f \in [1..n -> DOMAIN order] :
           /\ Len(order') = n + 1 /\ DOMAIN order' = 1..n + 1 /\ n + 1 <= MaxKeys
           /\ \A i \in 1..n : order'[i] = order[f[i]] /\ order[f[i]] # k
           /\ \A i, j \in 1..n : i < j => f[i] < f[j]
           /\ order'[n + 1] = k
           /\ \A gone \in DOMAIN bucket \ DOMAIN bucket' : order # <<>> /\ gone = order[1]
<1>1. /\ order \in Seq(Keys) /\ Len(order) \in Nat /\ DOMAIN order = 1..Len(order)
      /\ Len(order) <= MaxKeys /\ MaxKeys \in Nat \ {0}
  BY BucketsAssumption DEF TableInv, OrderInv
<1>2. PICK c \in 1..Len(order) + 1, kept \in Seq(Keys) :
           /\ Used(k) = Append(kept, k)
           /\ Len(kept) = IF c <= Len(order) THEN Len(order) - 1 ELSE Len(order)
           /\ \A i \in 1..Len(kept) : kept[i] = order[IF i < c THEN i ELSE i + 1]
           /\ \/ k \in DOMAIN bucket /\ c <= Len(order) /\ order[c] = k
              \/ k \notin DOMAIN bucket /\ c = Len(order) + 1 /\ Len(order) < MaxKeys
              \/ k \notin DOMAIN bucket /\ c = 1 /\ Len(order) >= 1
  BY UsedCuts
<1> DEFINE n == Len(kept)
           f == [i \in 1..n |-> IF i < c THEN i ELSE i + 1]
<1>3. n \in Nat /\ n + 1 <= MaxKeys /\ c \in Nat /\ c >= 1
      /\ n = IF c <= Len(order) THEN Len(order) - 1 ELSE Len(order)
  <2>1. n \in Nat /\ c \in 1..Len(order) + 1
        /\ n = IF c <= Len(order) THEN Len(order) - 1 ELSE Len(order)
    BY <1>2
  <2>2. c <= Len(order) \/ Len(order) < MaxKeys
    BY <1>1, <1>2
  <2> HIDE DEF n
  <2>3. Len(order) \in Nat /\ Len(order) <= MaxKeys /\ MaxKeys \in Nat
    BY <1>1
  <2> QED BY <2>1, <2>2, <2>3
<1>4. order' = Used(k) /\ Len(order') = n + 1 /\ DOMAIN order' = 1..n + 1 /\ order'[n + 1] = k
      /\ \A i \in 1..n : order'[i] = kept[i]
  <2>1. order' = Append(kept, k)
    BY <1>2 DEF Ask
  <2>2. order' \in Seq(Keys) /\ Len(order') = n + 1 /\ order'[n + 1] = k
        /\ \A i \in 1..n : order'[i] = kept[i]
    BY <2>1
  <2> QED BY <1>2, <2>1, <2>2
<1> HIDE DEF n
<1>5. ASSUME NEW i \in 1..n
      PROVE  f[i] \in 1..Len(order) /\ f[i] # c /\ order'[i] = order[f[i]]
             /\ f[i] = IF i < c THEN i ELSE i + 1
  <2>1. f[i] = IF i < c THEN i ELSE i + 1
    OBVIOUS
  <2> HIDE DEF f
  <2>2. f[i] \in 1..Len(order) /\ f[i] # c
    <3>1. Len(order) \in Nat /\ i \in Nat /\ i >= 1 /\ i <= n
      <4>1. \A j \in 1..n : j \in Nat /\ j >= 1 /\ j <= n
        BY <1>3
      <4> QED BY <1>1, <4>1, Zenon
    <3>2. CASE i < c
      BY <1>3, <2>1, <3>1, <3>2
    <3>3. CASE ~(i < c)
      BY <1>3, <2>1, <3>1, <3>3
    <3> QED BY <3>2, <3>3
  <2>3. order'[i] = order[f[i]]
    BY <1>2, <1>4, <2>1, Zenon DEF n
  <2> QED BY <2>1, <2>2, <2>3
<1>6. f \in [1..n -> DOMAIN order]
  BY <1>1, <1>5
<1> HIDE DEF f
<1>7. ASSUME NEW i \in 1..n PROVE order[f[i]] # k
  <2>1. CASE k \in DOMAIN bucket
    <3>1. order[c] = k /\ c <= Len(order)
      BY <1>2, <2>1
    <3>2. c \in DOMAIN order
      BY <1>1, <1>3, <3>1
    <3> QED BY <1>5, <1>6, <3>1, <3>2 DEF OrderInv
  <2>2. CASE k \notin DOMAIN bucket
    <3>1. order[f[i]] \in ToSet(order)
      BY <1>6 DEF ToSet
    <3> QED BY <2>2, <3>1 DEF TableInv
  <2> QED BY <2>1, <2>2
<1>8. \A i, j \in 1..n : i < j => f[i] < f[j]
  BY <1>3, <1>5
<1>9. ASSUME NEW gone \in DOMAIN bucket \ DOMAIN bucket'
      PROVE  order # <<>> /\ gone = order[1]
  <2>1. PICK j \in DOMAIN order : order[j] = gone
    BY DEF TableInv, ToSet
  <2>2. DOMAIN bucket' = ToSet(Used(k))
    BY DEF Ask
  <2>3. \A i \in 1..n + 1 : order'[i] # gone
    BY <1>4, <2>2 DEF ToSet
  <2>4. gone # k
    BY <1>3, <1>4, <2>3
  <2>5. \A i \in 1..n : f[i] # j
    BY <1>3, <1>5, <2>1, <2>3
  <2>6. j = c
    <3> SUFFICES ASSUME j # c PROVE FALSE
      OBVIOUS
    <3>3. j \in Nat /\ j >= 1 /\ j <= Len(order) /\ Len(order) \in Nat
      BY <1>1, <2>1
    <3>1. CASE j < c
      <4>1. j \in 1..n
        BY <1>3, <3>1, <3>3
      <4> QED BY <1>5, <2>5, <3>1, <4>1
    <3>2. CASE j > c
      <4>1. j - 1 \in 1..n /\ ~(j - 1 < c) /\ j - 1 + 1 = j
        BY <1>3, <3>2, <3>3
      <4> QED BY <1>5, <2>5, <4>1
    <3> QED BY <1>3, <3>1, <3>2, <3>3
  <2>7. c = 1
    BY <1>1, <1>2, <2>1, <2>4, <2>6
  <2> QED BY <1>1, <2>1, <2>6, <2>7
<1>10. /\ Len(order') = n + 1 /\ DOMAIN order' = 1..n + 1 /\ n + 1 <= MaxKeys
       /\ \A i \in 1..n : order'[i] = order[f[i]] /\ order[f[i]] # k
       /\ order'[n + 1] = k
       /\ \A gone \in DOMAIN bucket \ DOMAIN bucket' : order # <<>> /\ gone = order[1]
  BY <1>3, <1>4, <1>5, <1>7, <1>9
<1> QED BY <1>3, <1>6, <1>8, <1>10, Zenon

LEMMA AskOrders ==
  ASSUME TableInv, OrderInv, NEW k \in Keys, Ask(k), budget'.back = budget.back
  PROVE  OrderInv'
<1>0. PICK n \in Nat : \E f \in [1..n -> DOMAIN order] :
           /\ Len(order') = n + 1 /\ DOMAIN order' = 1..n + 1 /\ n + 1 <= MaxKeys
           /\ \A i \in 1..n : order'[i] = order[f[i]] /\ order[f[i]] # k
           /\ \A i, j \in 1..n : i < j => f[i] < f[j]
           /\ order'[n + 1] = k
  BY AskOrder
<1>1. PICK f \in [1..n -> DOMAIN order] :
           /\ Len(order') = n + 1 /\ DOMAIN order' = 1..n + 1 /\ n + 1 <= MaxKeys
           /\ \A i \in 1..n : order'[i] = order[f[i]] /\ order[f[i]] # k
           /\ \A i, j \in 1..n : i < j => f[i] < f[j]
           /\ order'[n + 1] = k
  BY <1>0
<1>2. /\ bucket' = [j \in ToSet(Used(k)) |-> IF j = k THEN Stored(k) ELSE bucket[j]]
      /\ DOMAIN bucket' = ToSet(order')
  BY DEF Ask
<1>3. order \in Seq(Keys) /\ DOMAIN order \subseteq Nat
  BY DEF TableInv
<1>4. ASSUME NEW i \in 1..n
      PROVE  order'[i] \in DOMAIN bucket /\ bucket'[order'[i]] = bucket[order[f[i]]]
             /\ f[i] \in DOMAIN order /\ f[i] \in Nat
  <2>1. f[i] \in DOMAIN order /\ order[f[i]] \in ToSet(order)
    BY <1>1 DEF ToSet
  <2>2. i \in DOMAIN order' /\ order'[i] \in DOMAIN bucket'
    <3>1. i \in 1..n + 1
      OBVIOUS
    <3>2. i \in DOMAIN order'
      BY <1>1, <3>1, Zenon
    <3> QED BY <1>2, <3>2, Zenon DEF ToSet
  <2>3. order'[i] # k
    BY <1>1
  <2> QED BY <1>1, <1>2, <1>3, <2>1, <2>2, <2>3 DEF TableInv
<1>5. bucket'[k].age = 0 /\ k \in DOMAIN bucket'
  <2>1. k \in DOMAIN bucket'
    <3>1. n + 1 \in 1..n + 1
      OBVIOUS
    <3>2. n + 1 \in DOMAIN order'
      BY <1>1, <3>1, Zenon
    <3> QED BY <1>1, <1>2, <3>2, Zenon DEF ToSet
  <2> QED BY <1>2, <2>1 DEF Stored
<1>6. ASSUME NEW i \in DOMAIN order', NEW j \in DOMAIN order', order'[i] = order'[j]
      PROVE  i = j
  <2>1. CASE i \in 1..n /\ j \in 1..n
    <3>1. f[i] = f[j]
      BY <1>1, <1>4, <1>6, <2>1 DEF OrderInv
    <3> QED BY <1>1, <1>4, <2>1, <3>1
  <2>2. CASE ~(i \in 1..n /\ j \in 1..n)
    BY <1>1, <1>6, <2>2
  <2> QED BY <2>1, <2>2
<1>7. ASSUME budget'.back = MaxBack, NEW j \in DOMAIN bucket' PROVE bucket'[j].age >= 0
  <2>1. CASE j = k
    BY <1>5, <2>1
  <2>2. CASE j # k
    <3>1. j \in DOMAIN bucket /\ bucket'[j] = bucket[j]
      BY <1>2, <2>2, UsedKeys
    <3> QED BY <1>7, <3>1 DEF OrderInv
  <2> QED BY <2>1, <2>2
<1>8. ASSUME budget'.back = MaxBack, NEW i \in DOMAIN order', NEW j \in DOMAIN order', i <= j
      PROVE  bucket'[order'[j]].age <= bucket'[order'[i]].age
  <2>1. CASE i \in 1..n /\ j \in 1..n
    <3>1. f[i] <= f[j]
      BY <1>1, <1>4, <1>8, <2>1
    <3>2. bucket[order[f[j]]].age <= bucket[order[f[i]]].age
      BY <1>4, <1>8, <2>1, <3>1 DEF OrderInv
    <3> QED BY <1>4, <2>1, <3>2
  <2>2. CASE ~(i \in 1..n /\ j \in 1..n)
    <3>1. j = n + 1 /\ order'[j] = k
      BY <1>1, <1>8, <2>2
    <3>2. order'[i] \in DOMAIN bucket'
      BY <1>2 DEF ToSet
    <3> QED BY <1>5, <1>7, <1>8, <3>1, <3>2
  <2> QED BY <2>1, <2>2
<1> QED BY <1>1, <1>6, <1>7, <1>8 DEF OrderInv

LEMMA OrderStep ==
  ASSUME TableInv, OrderInv, [Next]_vars
  PROVE  OrderInv'
<1> Me \in Keys
  BY AgentsAssumption
<1>1. BudgetType
  BY DEF TableInv, BudgetType
<1>2. CASE \E k \in Keys : Ask(k) /\ budget'.back = budget.back
  BY <1>2, AskOrders
<1>3. ASSUME Refused \/ Served \/ Lost \/ \E k \in Keys : Stranger(k)
      PROVE  \E k \in Keys : Ask(k) /\ budget'.back = budget.back
  <2>1. CASE Refused \/ Served
    BY <2>1 DEF Refused, Served
  <2>2. CASE Lost
    BY <1>1, <2>2 DEF Lost, BudgetType
  <2>3. CASE \E k \in Keys : Stranger(k)
    BY <2>3 DEF Stranger
  <2> QED BY <1>3, <2>1, <2>2, <2>3
<1>4. CASE Clock
  <2>1. order' = order /\ bucket' = Aged(1) /\ budget' = budget
    BY <1>4 DEF Clock, Tick
  <2>2. ASSUME NEW k \in DOMAIN bucket
        PROVE  bucket'[k].age = Least(MaxAge, bucket[k].age + 1) /\ bucket[k].age \in Int
    <3>1. bucket[k] \in [tokens : Int, age : Int]
      BY DEF TableInv
    <3> QED BY <2>1, <3>1 DEF Aged
  <2>3. DOMAIN bucket' = DOMAIN bucket /\ MaxAge \in Nat
    BY <2>1, UnitsType DEF Aged
  <2>4. \A i \in DOMAIN order : order[i] \in DOMAIN bucket
    BY DEF TableInv, ToSet
  <2>5. ASSUME budget.back = MaxBack
        PROVE  /\ \A k \in DOMAIN bucket : bucket'[k].age >= 0
               /\ \A i, j \in DOMAIN order :
                    i <= j => bucket'[order[j]].age <= bucket'[order[i]].age
    <3>1. \A k \in DOMAIN bucket : bucket'[k].age >= 0
      BY <2>2, <2>3, <2>5 DEF OrderInv, Least
    <3>2. ASSUME NEW i \in DOMAIN order, NEW j \in DOMAIN order, i <= j
          PROVE  bucket'[order[j]].age <= bucket'[order[i]].age
      <4>1. bucket[order[j]].age <= bucket[order[i]].age
        BY <2>5, <3>2 DEF OrderInv
      <4> QED BY <2>2, <2>3, <2>4, <4>1 DEF Least
    <3> QED BY <3>1, <3>2
  <2> QED BY <2>1, <2>3, <2>5 DEF OrderInv
<1>5. CASE Deploy
  <2>1. order' = <<>> /\ bucket' = <<>> /\ DOMAIN order' = {} /\ DOMAIN bucket' = {}
        /\ Len(order') = 0
    BY <1>5 DEF Deploy, Restart
  <2> QED BY <2>1, BucketsAssumption DEF OrderInv
<1>6. ASSUME NEW d \in 1..MaxBack, ClockBack(d) PROVE OrderInv'
  <2>1. order' = order /\ budget' = [budget EXCEPT !.back = @ - d]
    BY <1>6 DEF ClockBack, StepBack
  <2>2. budget'.back # MaxBack
    BY <1>1, <2>1, UnitsType DEF BudgetType
  <2> QED BY <2>1, <2>2 DEF OrderInv
<1>7. CASE UNCHANGED vars
  BY <1>7 DEF vars, table, OrderInv
<1> QED BY <1>2, <1>3, <1>4, <1>5, <1>6, <1>7 DEF Next

LEMMA OrderInit == AgentsInit => OrderInv
<1> SUFFICES ASSUME AgentsInit PROVE OrderInv
  OBVIOUS
<1>1. order = <<>> /\ bucket = <<>> /\ DOMAIN order = {} /\ DOMAIN bucket = {} /\ Len(order) = 0
  BY DEF AgentsInit, BucketsInit
<1> QED BY <1>1, BucketsAssumption DEF OrderInv

\* While the clock runs forward and the process stays up, the client whose
\* bucket goes is one that none of those that stay was heard of before: for
\* every size of the table and whatever addresses ask.
THEOREM LeastRecentEvicted == Spec => RecentKeysKept
<1> DEFINE Kept == (budget.back = MaxBack /\ budget'.deploys = budget.deploys)
                     => \A gone \in DOMAIN bucket \ DOMAIN bucket' :
                          \A kept \in DOMAIN bucket \cap DOMAIN bucket' :
                            bucket[kept].age <= bucket[gone].age
<1>1. TableInv /\ OrderInv /\ [Next]_vars => [Kept]_vars
  <2> SUFFICES ASSUME TableInv, OrderInv, Next, budget.back = MaxBack,
                      budget'.deploys = budget.deploys,
                      NEW gone \in DOMAIN bucket \ DOMAIN bucket',
                      NEW kept \in DOMAIN bucket \cap DOMAIN bucket'
               PROVE  bucket[kept].age <= bucket[gone].age
    OBVIOUS
  <2>1. PICK k \in Keys : Ask(k)
    <3>1. ~Clock /\ ~\E d \in 1..MaxBack : ClockBack(d)
      BY DEF Clock, ClockBack, Tick, StepBack, Aged
    <3>2. ~Deploy
      BY DEF Deploy, TableInv
    <3>3. Me \in Keys
      BY AgentsAssumption
    <3> QED BY <3>1, <3>2, <3>3 DEF Next, Refused, Served, Lost, Stranger
  <2>2. order # <<>> /\ gone = order[1]
    BY <2>1, AskOrder
  <2>3. PICK j \in DOMAIN order : order[j] = kept
    BY DEF TableInv, ToSet
  <2>4. 1 \in DOMAIN order /\ 1 <= j
    BY <2>2, <2>3 DEF TableInv
  <2> QED BY <2>2, <2>3, <2>4 DEF OrderInv
<1>2. AgentsInit => TableInv /\ OrderInv
  BY TableInit, OrderInit
<1>3. TableInv /\ OrderInv /\ [Next]_vars => TableInv' /\ OrderInv'
  BY TableStep, OrderStep
<1> QED BY <1>1, <1>2, <1>3, PTL DEF Spec, RecentKeysKept
=============================================================================
