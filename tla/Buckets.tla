------------------------------- MODULE Buckets -------------------------------
(***************************************************************************)
(* tokenBuckets (src/site/agents.ts): one table per handler and process.   *)
(* The Map keeps its keys in the order they were last used; a bucket holds *)
(* the tokens left by its last request and when that was.  Nothing runs    *)
(* between requests: a bucket is refilled when it is next asked.           *)
(*                                                                         *)
(* The clock is Date.now, which may be set back.  A bucket keeps the       *)
(* ticks since its last request (negative after a step back) instead of    *)
(* two times; past MaxAge every bucket is full, so it is not counted on.   *)
(*                                                                         *)
(* Tokens are counted in units, Unit of them in a token, so a bucket and a *)
(* rate may be any fraction; the rounding of the code's floats is left out.*)
(***************************************************************************)
EXTENDS Integers, Sequences, SequencesExt

CONSTANTS Keys,
          Unit,      \* units in a token
          Capacity,  \* RateLimit.capacity, in units
          Refill,    \* RateLimit.refillPerSecond, in units a tick
          PerSecond, \* ticks in a second
          MaxKeys,   \* the table's limit, 10 000 in the code
          MaxAge,    \* bound: ticks counted since a bucket was asked
          MaxBack    \* bound: ticks the clock is set back in all

ASSUME BucketsAssumption ==
  /\ Unit \in Nat \ {0}
  /\ Capacity \in Nat /\ Capacity >= Unit
  /\ Refill \in Nat \ {0}
  /\ PerSecond \in Nat \ {0}
  /\ MaxKeys \in Nat \ {0}
  /\ MaxBack \in Nat
  /\ MaxAge \in Nat /\ MaxAge * Refill >= Capacity + MaxBack * Refill

VARIABLES order,  \* the keys of the Map, the one used longest ago first
          bucket  \* its values, by key

table == <<order, bucket>>

Least(a, b) == IF a < b THEN a ELSE b

\* What a request by k would find: the stored tokens and what came back since.
Tokens(k) ==
  IF k \notin DOMAIN bucket THEN Capacity
  ELSE Least(Capacity, bucket[k].tokens + bucket[k].age * Refill)

\* Mutant of Wait: the seconds are rounded down, to one at least.
WaitRoundedDown(units) ==
  LET seconds == (Unit - units) \div (PerSecond * Refill)
  IN  IF units >= Unit THEN 0 ELSE IF seconds < 1 THEN 1 ELSE seconds

\* The whole seconds to wait, 0 when the request may go ahead: what is missing of a
\* token over what comes back in a second, rounded up.
Wait(units) ==
  IF units >= Unit THEN 0
  ELSE (Unit - units + PerSecond * Refill - 1) \div (PerSecond * Refill)

\* Mutant of Used: a key that is asked again keeps its place in the Map.
UsedInPlace(k) ==
  LET kept == IF Len(order) >= MaxKeys THEN Tail(order) ELSE order
  IN  IF k \in DOMAIN bucket THEN order ELSE Append(kept, k)

\* The keys after a request by k: k goes last, and when the Map is full
\* without k its first key goes.
Used(k) ==
  LET at   == CHOOSE i \in DOMAIN order : order[i] = k
      rest == IF k \in DOMAIN bucket THEN RemoveAt(order, at) ELSE order
  IN  Append(IF Len(rest) >= MaxKeys THEN Tail(rest) ELSE rest, k)

\* Mutant of Stored: a refused request does not keep what came back so far.
StoredOnlyIfServed(k) ==
  [tokens |-> IF Tokens(k) >= Unit THEN Tokens(k) - Unit ELSE bucket[k].tokens, age |-> 0]

\* The bucket a request leaves: one token less when it is served.
Stored(k) ==
  [tokens |-> IF Tokens(k) >= Unit THEN Tokens(k) - Unit ELSE Tokens(k), age |-> 0]

BucketsInit == order = <<>> /\ bucket = <<>>

\* One call of the limiter.
Ask(k) ==
  /\ order' = Used(k)
  /\ bucket' = [j \in ToSet(Used(k)) |-> IF j = k THEN Stored(k) ELSE bucket[j]]

Aged(d) == [k \in DOMAIN bucket |->
              [bucket[k] EXCEPT !.age = Least(MaxAge, bucket[k].age + d)]]

Tick == bucket' = Aged(1) /\ UNCHANGED order
StepBack(d) == bucket' = Aged(-d) /\ UNCHANGED order
Restart == order' = <<>> /\ bucket' = <<>>
-----------------------------------------------------------------------------
\* The abstract limit, every bucket refilled as the clock runs.
Limit == INSTANCE RateLimit WITH level <- [k \in Keys |-> Tokens(k)]

\* What the detailed table does is what the limit promises: a lazy refill, an
\* eviction or a restart is never seen by a client as anything but the limit.
ImplementsLimit == Limit!Spec
=============================================================================
