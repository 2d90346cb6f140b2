---------------------------- MODULE RateLimiter ----------------------------
(* The per-IP rate limiter of src/internal/auth/ratelimit.go: a sliding      *)
(* window of request times per IP, a cleaner that forgets idle IPs, and the  *)
(* middleware that applies it before authentication. Time advances in ticks, *)
(* TicksPerSecond to the second; rl.mu makes every operation one step.       *)
(*                                                                           *)
(* Definitions marked "Mutated form" are not part of the model: each is a    *)
(* plausible bug in the definition after it, which a property below catches. *)
EXTENDS Integers, Sequences

CONSTANTS
    IPs,
    Max,             \* rateLimitMax, 30 in the code
    WindowSeconds,   \* rateLimitWindow, 60 seconds in the code
    TicksPerSecond,
    CleanupInterval, \* ticks between two rounds of cleanup, 5 minutes in the code
    MaxTime          \* bound on the clock

ASSUME LimiterAssumption ==
    /\ Max \in Nat \ {0} /\ WindowSeconds \in Nat \ {0} /\ TicksPerSecond \in Nat \ {0}
    /\ CleanupInterval \in Nat \ {0} /\ MaxTime \in Nat

Window == WindowSeconds * TicksPerSecond
NoEntry == <<>>      \* an IP without an entry has no timestamps either

VARIABLES
    now,         \* the clock
    entries,     \* rl.entries: the timestamps kept for each IP
    nextCleanup, \* when cleanup wakes up
    admitted,    \* history: the times of all requests let through, for each IP
    refusal      \* the last 429 of each IP and what it said; forgotten when one is let through

vars == <<now, entries, nextCleanup, admitted, refusal>>

NoRefusal == [at |-> -1, retry |-> 0]
Times == 0..MaxTime

TypeOK ==
    /\ now \in Times
    /\ entries \in [IPs -> Seq(Times)]
    /\ \A ip \in IPs : Len(entries[ip]) =< Max
    /\ nextCleanup \in Nat
    /\ admitted \in [IPs -> Seq(Times)]
    /\ refusal \in [IPs -> [at: Times \cup {-1}, retry: Nat]]

Init ==
    /\ now = 0
    /\ entries = [ip \in IPs |-> NoEntry]
    /\ nextCleanup = CleanupInterval
    /\ admitted = [ip \in IPs |-> <<>>]
    /\ refusal = [ip \in IPs |-> NoRefusal]

\* Mutated form of Expired: a timestamp exactly Window old is kept.
ExpiredLater(ts) == CHOOSE k \in 0..Len(ts) :
    /\ \A i \in 1..k : ts[i] < now - Window
    /\ \A i \in k+1..Len(ts) : ts[i] >= now - Window

\* How many of the timestamps, which are in order, have left the window. A
\* timestamp exactly Window old has.
Expired(ts) == CHOOSE k \in 0..Len(ts) :
    /\ \A i \in 1..k : ts[i] =< now - Window
    /\ \A i \in k+1..Len(ts) : ts[i] > now - Window
Prune(ts) == SubSeq(ts, Expired(ts) + 1, Len(ts))

\* Mutated form of RetryAfter: how long the oldest request has been in the
\* window, not how long it will stay there.
RetryAfterAge(ts) ==
    LET age == now - ts[1]
    IN  IF age < TicksPerSecond THEN 1 ELSE age \div TicksPerSecond

\* The Retry-After of a 429: until the oldest request leaves the window, at
\* least one second, and cut to whole seconds.
RetryAfter(ts) ==
    LET left == ts[1] + Window - now
    IN  IF left < TicksPerSecond THEN 1 ELSE left \div TicksPerSecond

HasRoom(ts) == Len(ts) < Max

\* allow and RateLimitMiddleware, with auth enabled: every request counts,
\* whether or not the authentication behind it would accept it.
Admit(ip) ==
    /\ HasRoom(Prune(entries[ip]))
    /\ entries' = [entries EXCEPT ![ip] = Append(Prune(@), now)]
    /\ admitted' = [admitted EXCEPT ![ip] = Append(@, now)]
    /\ refusal' = [refusal EXCEPT ![ip] = NoRefusal]

Refuse(ip) ==
    /\ ~HasRoom(Prune(entries[ip]))
    /\ entries' = [entries EXCEPT ![ip] = Prune(@)]
    /\ refusal' = [refusal EXCEPT ![ip] = [at |-> now, retry |-> RetryAfter(Prune(entries[ip]))]]
    /\ UNCHANGED admitted

Request(ip) ==
    /\ Admit(ip) \/ Refuse(ip)
    /\ UNCHANGED <<now, nextCleanup>>

\* Mutated form of CleanupPrune: the cleaner deletes every entry.
ForgetAll(ts) == NoEntry

\* One round of cleanup: prune every entry; an empty one is deleted.
CleanupPrune(ts) == Prune(ts)
Cleanup ==
    /\ now >= nextCleanup
    /\ entries' = [ip \in IPs |-> CleanupPrune(entries[ip])]
    /\ nextCleanup' = now + CleanupInterval
    /\ UNCHANGED <<now, admitted, refusal>>

Tick ==
    /\ now < MaxTime
    /\ now' = now + 1
    /\ UNCHANGED <<entries, nextCleanup, admitted, refusal>>

Next ==
    \/ Tick
    \/ Cleanup
    \/ \E ip \in IPs : Request(ip)

Spec == Init /\ [][Next]_vars

---------------------------------------------------------------------------
(* Properties.                                                               *)

\* No IP gets more than Max requests through in any window, whenever the
\* window starts and whatever cleanup has forgotten: a request and the one Max
\* places later are at least a window apart.
AtMostMaxPerWindow ==
    \A ip \in IPs : \A i \in 1..Len(admitted[ip]) - Max :
        admitted[ip][i + Max] - admitted[ip][i] >= Window

\* Nobody is refused who has not used up the window: at a refusal exactly the
\* last Max requests let through lie in the window that ends then.
RefusedOnlyWhenFull ==
    \A ip \in IPs : LET n == Len(admitted[ip]) IN
        refusal[ip] # NoRefusal =>
            n >= Max /\ admitted[ip][n - Max + 1] > refusal[ip].at - Window

\* Retry-After is cut to whole seconds, so it may be up to a second short, and
\* never more: a second later than advertised the window has room.
RetryAfterIsCloseEnough ==
    \A ip \in IPs :
        refusal[ip] # NoRefusal /\ now >= refusal[ip].at + (refusal[ip].retry + 1) * TicksPerSecond
            => Len(Prune(entries[ip])) < Max
=============================================================================
