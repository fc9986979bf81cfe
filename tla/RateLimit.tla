------------------------------ MODULE RateLimit ------------------------------
(***************************************************************************)
(* What the rate limit of the agent endpoints promises: every client has a *)
(* bucket of its own that refills with the clock, and a request takes a    *)
(* token or is refused and takes nothing.  The limit may forget a client,  *)
(* which gives it a full bucket, and a clock that is set back takes tokens *)
(* away for as long as it was set back, never more.                        *)
(*                                                                         *)
(* Time is counted in ticks and tokens in units, Unit of them in a token:  *)
(* a tick brings Refill units.                                             *)
(***************************************************************************)
EXTENDS Integers

CONSTANTS Keys,     \* clients, as clientKey names them
          Unit,     \* units in a token
          Capacity, \* RateLimit.capacity, in units
          Refill,   \* RateLimit.refillPerSecond, in units a tick
          MaxBack   \* the most ticks the clock is set back at once

VARIABLE level  \* the units each client's bucket holds

Least(a, b) == IF a < b THEN a ELSE b

Init == level = [k \in Keys |-> Capacity]

Tick == level' = [k \in Keys |-> Least(Capacity, level[k] + Refill)]

StepBack(d) ==
  /\ level' \in [Keys -> Int]
  /\ \A k \in Keys : level'[k] \in level[k] - Refill * d .. level[k]

Ask(k) ==
  \E forgotten \in SUBSET (Keys \ {k}) :
    level' = [j \in Keys |->
                IF j \in forgotten THEN Capacity
                ELSE IF j = k /\ level[k] >= Unit THEN level[k] - Unit
                ELSE level[j]]

\* A new process starts with no bucket.
Restart == level' = [k \in Keys |-> Capacity]

Next == Tick \/ (\E d \in 1..MaxBack : StepBack(d)) \/ (\E k \in Keys : Ask(k)) \/ Restart

Spec == Init /\ [][Next]_level
==============================================================================
