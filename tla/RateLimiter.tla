---------------------------- MODULE RateLimiter ----------------------------
(***************************************************************************)
(* The sliding-window limiter in front of viewer tokens and administrative *)
(* changes: per key, the times of the requests let through. A check reads  *)
(* the clock; then, under a lock, it prunes the times that left the window *)
(* by that clock, refuses when the window is full and tells when to come   *)
(* back, and notes the time otherwise. The memory is the process's: after  *)
(* a restart the count begins anew. Time is counted in ticks, of which a   *)
(* second has Second.                                                      *)
(***************************************************************************)
EXTENDS Integers, Sequences, FiniteSets

CONSTANTS
    Keys,           \* who is limited
    MaxRequests,    \* requests let through per window
    Window,         \* window_seconds, in ticks
    Second,         \* ticks in a second
    MaxTime,        \* bound: ticks; what begins, begins before the last
    MaxLives,       \* bound: lives of the process
    MaxPassed       \* bound: requests of a key let through

ASSUME RateAssumption ==
    /\ MaxRequests \in Nat \ {0} /\ Window \in Nat \ {0}
    /\ Second \in Nat \ {0} /\ MaxTime \in Nat /\ MaxLives \in Nat \ {0} /\ MaxPassed \in Nat

VARIABLES
    now,
    life,           \* which of its lives the process is in (history)
    served,         \* served[k]: the requests of k let through, in order: what the clock
                    \* said to each, in which life, and whether another check overtook
                    \* it on the way to the lock (history)
    timestamps,     \* timestamps[k]: those the limiter keeps, by their places in served[k]
    told            \* told[k]: the time the last refusal named (history)

rateVars == <<life, served, timestamps, told>>

Times == 0..MaxTime
Lives == 1..MaxLives
NotTold == -1
Passed == [at : Times, life : Lives, overtaken : BOOLEAN]

RateInit ==
    /\ now = 0 /\ life = 1
    /\ timestamps = [k \in Keys |-> {}]
    /\ told = [k \in Keys |-> NotTold]
    /\ served = [k \in Keys |-> <<>>]

\* (Deviation: the window is half as long.)
PrunedEarly(k, at) == {i \in timestamps[k] : served[k][i].at > at - Window \div 2}

Pruned(k, at) == {i \in timestamps[k] : served[k][i].at > at - Window}

Overtaken(k, at) == \E i \in timestamps[k] : served[k][i].at > at

First(places) == CHOOSE i \in places : \A j \in places : i <= j

\* Whole seconds, rounded down, and one more; at least one.
RetryAfter(k, at) ==
    LET oldest == served[k][First(Pruned(k, at))].at
        seconds == (oldest + Window - at) \div Second + 1
    IN IF seconds < 1 THEN Second ELSE seconds * Second

\* `at` is what the clock said before the lock was taken.
Allow(k, at) ==
    /\ Cardinality(Pruned(k, at)) < MaxRequests /\ Len(served[k]) < MaxPassed
    /\ served' = [served EXCEPT ![k] = Append(@, [at |-> at, life |-> life,
                                                  overtaken |-> Overtaken(k, at)])]
    /\ timestamps' = [timestamps EXCEPT ![k] = Pruned(k, at) \union {Len(served[k]) + 1}]
    /\ told' = [told EXCEPT ![k] = NotTold]
    /\ UNCHANGED life

Refuse(k, at) ==
    /\ Cardinality(Pruned(k, at)) >= MaxRequests
    /\ timestamps' = [timestamps EXCEPT ![k] = Pruned(k, at)]
    /\ told' = [told EXCEPT ![k] = at + RetryAfter(k, at)]
    /\ UNCHANGED <<life, served>>

\* The process ends, and with it what it kept.
Restart ==
    /\ life < MaxLives /\ life' = life + 1
    /\ timestamps' = [k \in Keys |-> {}]
    /\ UNCHANGED <<served, told>>

RateTypeOK ==
    /\ now \in Times /\ life \in Lives
    /\ served \in [Keys -> Seq(Passed)]
    /\ timestamps \in [Keys -> SUBSET Nat]
    /\ \A k \in Keys : timestamps[k] \subseteq DOMAIN served[k]
    /\ told \in [Keys -> Nat \union {NotTold}]

\* Those let through in a life of the process, between two times, that nobody overtook.
Between(k, alive, from, to) ==
    {i \in DOMAIN served[k] :
        /\ served[k][i].life = alive /\ ~served[k][i].overtaken
        /\ from <= served[k][i].at /\ served[k][i].at <= to}

(***************************************************************************)
(* No window of Window ticks, wherever it starts, lets more than           *)
(* MaxRequests requests of a key through in one life of the process, but   *)
(* for those that read the clock before another and took the lock after    *)
(* it: a window with a restart in it can let through as many again. And    *)
(* who was refused, waits as long as told and meanwhile gets nothing else, *)
(* is let through, restart or not.                                         *)
(***************************************************************************)
RateRespected ==
    \A k \in Keys :
        /\ \A alive \in Lives, t \in Times :
             Cardinality(Between(k, alive, t, t + Window - 1)) <= MaxRequests
        /\ told[k] # NotTold /\ now >= told[k] => Cardinality(Pruned(k, now)) < MaxRequests
=============================================================================
