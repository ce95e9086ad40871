----------------------------- MODULE RateLimiter -----------------------------
(***************************************************************************)
(* The token buckets of server/rate_limit.py, one per agent, shared by the *)
(* WebSocket and the HTTP route.  The code counts tokens as a float that   *)
(* grows by capacity/60 per second.  Here a minute has Minute clock ticks  *)
(* and a token is Minute units, so a tick refills Rate units and every     *)
(* quantity is a natural number; the finer the tick, the closer the clock  *)
(* comes to time.monotonic().                                              *)
(***************************************************************************)
EXTENDS Integers

CONSTANTS Agents,
          Rate,      \* RATE_LIMIT_PER_MIN, the capacity of a bucket in tokens
          Minute,    \* clock ticks per minute
          MaxClock   \* bound of the clock

ASSUME RateIsNat == Rate \in Nat
ASSUME MinuteIsPositive == Minute \in Nat \ {0}
ASSUME MaxClockIsNat == MaxClock \in Nat

VARIABLES clock,
          known,    \* agents whose bucket exists (the keys of _buckets)
          tokens,   \* agent -> units in its bucket
          last,     \* agent -> last_refill
          start,    \* history: the agent's sends are counted since this moment
          granted   \* history: sends allowed since start

vars == <<clock, known, tokens, last, start, granted>>

(* The capacity of a bucket in units.                                      *)
Capacity == Rate * Minute

Least(x, y) == IF x <= y THEN x ELSE y

(* A mutant of Refilled: the bucket never overflows.                       *)
RefilledUncapped(a) ==
    IF a \in known THEN tokens[a] + Rate * (clock - last[a]) ELSE Capacity

(* A mutant of Refilled: a new bucket is empty.                            *)
RefilledFromEmpty(a) ==
    IF a \in known THEN Least(Capacity, tokens[a] + Rate * (clock - last[a])) ELSE 0

(* What the bucket holds after the refill that consume begins with; the    *)
(* first call for an agent creates a full one.                             *)
Refilled(a) ==
    IF a \in known THEN Least(Capacity, tokens[a] + Rate * (clock - last[a])) ELSE Capacity

Init ==
    /\ clock = 0
    /\ known = {}
    /\ tokens = [a \in Agents |-> 0]
    /\ last = [a \in Agents |-> 0]
    /\ start = [a \in Agents |-> 0]
    /\ granted = [a \in Agents |-> 0]

(* A mutant of Allow: the token is not taken.                              *)
AllowForFree(a) ==
    /\ Refilled(a) >= Minute
    /\ tokens' = [tokens EXCEPT ![a] = Refilled(a)]
    /\ last' = [last EXCEPT ![a] = clock]
    /\ known' = known \cup {a}
    /\ granted' = [granted EXCEPT ![a] = @ + 1]
    /\ UNCHANGED <<clock, start>>

(* allow(a) with a whole token in the bucket.                              *)
Allow(a) ==
    /\ Refilled(a) >= Minute
    /\ tokens' = [tokens EXCEPT ![a] = Refilled(a) - Minute]
    /\ last' = [last EXCEPT ![a] = clock]
    /\ known' = known \cup {a}
    /\ granted' = [granted EXCEPT ![a] = @ + 1]
    /\ UNCHANGED <<clock, start>>

(* allow(a) without one: refused, yet the refill is kept.                  *)
Deny(a) ==
    /\ Refilled(a) < Minute
    /\ tokens' = [tokens EXCEPT ![a] = Refilled(a)]
    /\ last' = [last EXCEPT ![a] = clock]
    /\ known' = known \cup {a}
    /\ UNCHANGED <<clock, start, granted>>

Tick ==
    /\ clock < MaxClock
    /\ clock' = clock + 1
    /\ UNCHANGED <<known, tokens, last, start, granted>>

(* The observer begins to count anew: any moment may start a window.       *)
OpenWindow(a) ==
    /\ start' = [start EXCEPT ![a] = clock]
    /\ granted' = [granted EXCEPT ![a] = 0]
    /\ UNCHANGED <<clock, known, tokens, last>>

(* The server restarts: buckets live in memory only, so each agent has a   *)
(* full one again, and windows do not span the restart.                    *)
Restart ==
    /\ known' = {}
    /\ start' = [a \in Agents |-> clock]
    /\ granted' = [a \in Agents |-> 0]
    /\ UNCHANGED <<clock, tokens, last>>

Next ==
    \/ \E a \in Agents : Allow(a) \/ Deny(a) \/ OpenWindow(a)
    \/ Tick
    \/ Restart

Spec == Init /\ [][Next]_vars

-----------------------------------------------------------------------------
(* A bucket never holds more than its capacity, nor a negative amount, and *)
(* time does not run backwards.                                            *)
TypeOK ==
    /\ clock \in 0..MaxClock
    /\ known \subseteq Agents
    /\ tokens \in [Agents -> 0..Capacity]
    /\ last \in [Agents -> 0..MaxClock]
    /\ start \in [Agents -> 0..MaxClock]
    /\ granted \in [Agents -> Nat]

(* In every window of time an agent gets at most its burst and what the    *)
(* window refills: Rate + Rate * length / Minute sends.                    *)
RateBounded ==
    \A a \in Agents : Minute * granted[a] <= Capacity + Rate * (clock - start[a])

(* An agent that would be refused has used up its rate: over no window of  *)
(* at most a minute, up to now, was it below the allowed average by a      *)
(* whole send.  Lost refills at a full bucket never cost it a send.        *)
RefusalIsEarned ==
    \A a \in Agents :
        Refilled(a) < Minute /\ clock - start[a] <= Minute =>
            Minute * (granted[a] + 1) > Rate * (clock - start[a])
=============================================================================
