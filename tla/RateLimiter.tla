------------------------------ MODULE RateLimiter ------------------------------
(***************************************************************************)
(* The token buckets of the collector API, one per client address, with the  *)
(* loop that evicts the buckets of clients that were not seen for long.      *)
(* Time passes in the ticks in which one unit is refilled, a request costs   *)
(* Cost units (a token), and Burst is what a full bucket holds: the finer    *)
(* the tick, the larger Cost, so the theorems, which are for every Cost, say *)
(* what holds of the code's fractions of a token.  /api/health goes round    *)
(* the limiter.                                                              *)
(***************************************************************************)
EXTENDS Integers

CONSTANTS Clients, Cost, Burst, Stale,   \* units, and the ticks of staleAge
          RetryAfter,                    \* the ticks of the header's second
          MaxTime                        \* bound

\* newRateLimiter(30, 5, 10*time.Minute): 30 tokens, five a second, ten minutes.
ASSUME LimiterTyped == /\ Cost \in Nat \ {0} /\ Burst \in Nat /\ Stale \in Nat /\ MaxTime \in Nat
                       /\ RetryAfter \in Nat
                       /\ Cost <= Burst /\ Burst <= Stale /\ Cost <= RetryAfter

VARIABLES now,
          known, tokens, last,  \* the buckets: of which clients, their units, lastSeen
          since, spent,         \* ghost: of any window, where it begins and what it was served
          refused               \* ghost: the last request was refused
limiterVars == <<now, known, tokens, last, since, spent, refused>>

LimiterInit == /\ now = 0 /\ known = {} /\ tokens = [c \in Clients |-> 0] /\ last = [c \in Clients |-> 0]
               /\ since = [c \in Clients |-> 0] /\ spent = [c \in Clients |-> 0]
               /\ refused = [c \in Clients |-> FALSE]

Tick == /\ now < MaxTime /\ now' = now + 1
        /\ UNCHANGED <<known, tokens, last, since, spent, refused>>

-----------------------------------------------------------------------------
\* What a bucket holds when it is looked at.
Refilled(c) == IF tokens[c] + (now - last[c]) > Burst THEN Burst ELSE tokens[c] + (now - last[c])

Held(c) == IF c \in known THEN Refilled(c) ELSE Burst

\* allow: a request of a client, under the mutex.  A refused one is seen, too.
Serve(c)  == /\ Held(c) >= Cost
             /\ tokens' = [tokens EXCEPT ![c] = Held(c) - Cost]
             /\ spent' = [spent EXCEPT ![c] = @ + Cost] /\ refused' = [refused EXCEPT ![c] = FALSE]
Refuse(c) == /\ Held(c) < Cost
             /\ tokens' = [tokens EXCEPT ![c] = Held(c)]
             /\ refused' = [refused EXCEPT ![c] = TRUE] /\ UNCHANGED spent
Allow(c)  == /\ known' = known \cup {c} /\ last' = [last EXCEPT ![c] = now]
             /\ Serve(c) \/ Refuse(c)
             /\ UNCHANGED <<now, since>>

\* Mutant of Evictable: a bucket goes at the next round of the loop.
EvictableSoon(c) == last[c] < now

\* evictLoop, one round, at any time.
Evictable(c) == last[c] < now - Stale
Evict == /\ \E c \in known : Evictable(c)
         /\ known' = {c \in known : ~Evictable(c)}
         /\ UNCHANGED <<now, tokens, last, since, spent, refused>>

\* A window begins.
Mark(c) == /\ since' = [since EXCEPT ![c] = now] /\ spent' = [spent EXCEPT ![c] = 0]
           /\ UNCHANGED <<now, known, tokens, last, refused>>

LimiterNext == Tick \/ Evict \/ \E c \in Clients : Allow(c) \/ Mark(c)
LimiterSpec == LimiterInit /\ [][LimiterNext]_limiterVars

-----------------------------------------------------------------------------
LimiterTypeOK == /\ now \in Nat /\ known \subseteq Clients
                 /\ tokens \in [Clients -> 0 .. Burst]
                 /\ last \in [Clients -> 0 .. now] /\ since \in [Clients -> 0 .. now]
                 /\ spent \in [Clients -> Nat] /\ refused \in [Clients -> BOOLEAN]

\* In no window is a client served more than a full bucket and what is refilled while the
\* window lasts; the eviction of its bucket, which it gets back full, gives
\* it nothing, for by then it was full.
BudgetHolds == \A c \in Clients : spent[c] <= Burst + (now - since[c])

\* The header's promise: a client that was refused and asks again after Retry-After is
\* served, though others asked and buckets were evicted meanwhile.
RetryIsServed == [][\A c \in Clients : refused[c] /\ last'[c] = now /\ now >= last[c] + RetryAfter
                                         => ~refused'[c]]_limiterVars
=============================================================================
