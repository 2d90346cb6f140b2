------------------------- MODULE RateLimiterProofs -------------------------
(* Theorems about RateLimiter, for any set of IPs, any maximum, window,      *)
(* clock resolution and cleanup interval.                                    *)
EXTENDS RateLimiter, SequenceTheorems, WellFoundedInduction, TLAPS

---------------------------------------------------------------------------
(* The invariant.                                                            *)

Sorted(ts) == \A i, j \in 1..Len(ts) : i =< j => ts[i] =< ts[j]

\* What has been let through is in order and not of the future.
AdmittedInOrder(ip) ==
    /\ Sorted(admitted[ip])
    /\ \A i \in 1..Len(admitted[ip]) : admitted[ip][i] =< now

\* The entry of an IP holds the last of the requests let through, and those it
\* has lost have left the window.
KeepsTheLast(ip) ==
    LET lost == Len(admitted[ip]) - Len(entries[ip]) IN
    /\ lost >= 0
    /\ \A k \in 1..Len(entries[ip]) : entries[ip][k] = admitted[ip][lost + k]
    /\ \A i \in 1..lost : admitted[ip][i] =< now - Window

\* Of the requests that filled the window at the last refusal, the oldest.
Oldest(ip) == admitted[ip][Len(admitted[ip]) - Max + 1]
RefusedFor(ip) ==
    refusal[ip] # NoRefusal =>
        /\ Len(admitted[ip]) >= Max
        /\ Oldest(ip) > refusal[ip].at - Window
        /\ Oldest(ip) + Window =< refusal[ip].at + (refusal[ip].retry + 1) * TicksPerSecond

IInv ==
    /\ TypeOK
    /\ \A ip \in IPs : AdmittedInOrder(ip) /\ KeepsTheLast(ip) /\ RefusedFor(ip)
    /\ AtMostMaxPerWindow

---------------------------------------------------------------------------
(* Pruning.                                                                  *)

\* The window lasts a whole number of ticks.
LEMMA WindowNat == Window \in Nat /\ Window > 0
BY LimiterAssumption DEF Window

\* Timestamps are numbers of ticks.
LEMMA TimesAreNat == Times \subseteq Nat
BY LimiterAssumption DEF Times

\* And so are the elements of an entry.
LEMMA Elements ==
  ASSUME NEW ts \in Seq(Times)
  PROVE  Len(ts) \in Nat /\ \A i \in 1..Len(ts) : ts[i] \in Times /\ ts[i] \in Nat
<1>1. Len(ts) \in Nat
  OBVIOUS
<1>2. \A i \in 1..Len(ts) : ts[i] \in Times
  BY ElementOfSeq
<1> QED BY <1>1, <1>2, TimesAreNat

\* Every set of numbers but the empty one has a least member.
LEMMA LeastNat ==
  ASSUME NEW T \in SUBSET Nat, T # {} PROVE \E x \in T : \A y \in T : x =< y
<1> DEFINE R == OpToRel(<, Nat)
<1>1. IsWellFoundedOn(R, Nat)
  BY NatLessThanWellFounded
<1>2. \A x, y \in Nat : y < x => <<y, x>> \in R
  BY DEF OpToRel
<1> HIDE DEF R
<1>3. PICK x \in T : \A y \in T : ~(<<y, x>> \in R)
  BY <1>1, WFMin, Zenon
<1>4. \A y \in T : ~(y < x)
  BY <1>2, <1>3
<1> QED BY <1>4

\* In a sequence of times in order there is a place (allow: the cutoff) up to
\* which all have left the window and after which none has.
LEMMA ExpiredSplits ==
  ASSUME TypeOK, NEW ts \in Seq(Times), Sorted(ts)
  PROVE  /\ Expired(ts) \in 0..Len(ts)
         /\ \A i \in 1..Expired(ts) : ts[i] =< now - Window
         /\ \A i \in Expired(ts) + 1..Len(ts) : ts[i] > now - Window
<1>1. Len(ts) \in Nat /\ \A i \in 1..Len(ts) : ts[i] \in Times
  BY Elements
<1> DEFINE T == {k \in 0..Len(ts) : k = Len(ts) \/ ts[k + 1] > now - Window}
<1>2. T \in SUBSET Nat /\ Len(ts) \in T
  BY <1>1
<1>3. PICK k \in T : \A y \in T : k =< y
  BY <1>2, LeastNat
<1> now \in Nat /\ Window \in Nat
  BY WindowNat, TimesAreNat DEF TypeOK
<1> HIDE DEF TypeOK
<1>3a. k \in 0..Len(ts) /\ (k = Len(ts) \/ ts[k + 1] > now - Window)
  OBVIOUS
<1>3b. \A y \in 0..k - 1 : y # Len(ts) /\ ~(ts[y + 1] > now - Window)
  <2> SUFFICES ASSUME NEW y \in 0..k - 1 PROVE y # Len(ts) /\ ~(ts[y + 1] > now - Window)
    OBVIOUS
  <2>1. y \in 0..Len(ts) /\ ~(k =< y)
    BY <1>1, <1>3a
  <2>2. y \notin T
    BY <2>1, <1>3
  <2> QED BY <2>1, <2>2
<1> HIDE DEF T
<1>4. \A i \in 1..k : ts[i] =< now - Window
  <2> SUFFICES ASSUME NEW i \in 1..k PROVE ts[i] =< now - Window
    OBVIOUS
  <2>1. i - 1 \in 0..k - 1 /\ (i - 1) + 1 = i /\ i \in 1..Len(ts)
    BY <1>1, <1>3a
  <2>2. ~(ts[i] > now - Window)
    BY <2>1, <1>3b
  <2>3. ts[i] \in Nat
    BY <2>1, Elements
  <2> QED BY <2>2, <2>3
<1>5. \A i \in k + 1..Len(ts) : ts[i] > now - Window
  <2> SUFFICES ASSUME NEW i \in k + 1..Len(ts) PROVE ts[i] > now - Window
    OBVIOUS
  <2>1. ts[k + 1] > now - Window /\ k + 1 \in 1..Len(ts) /\ i \in 1..Len(ts) /\ k + 1 =< i
    BY <1>1, <1>3a
  <2>2. ts[k + 1] =< ts[i]
    BY <2>1 DEF Sorted
  <2>3. ts[i] \in Nat /\ ts[k + 1] \in Nat
    BY <2>1, Elements
  <2> QED BY <2>1, <2>2, <2>3
<1>6. \E n \in 0..Len(ts) : /\ \A i \in 1..n : ts[i] =< now - Window
                            /\ \A i \in n + 1..Len(ts) : ts[i] > now - Window
  BY <1>3a, <1>4, <1>5
<1> QED BY <1>6, Zenon DEF Expired

\* What pruning leaves is the end of the sequence.
LEMMA PruneKeepsEnd ==
  ASSUME TypeOK, NEW ts \in Seq(Times), Sorted(ts)
  PROVE  /\ Prune(ts) \in Seq(Times)
         /\ Len(Prune(ts)) = Len(ts) - Expired(ts)
         /\ \A k \in 1..Len(Prune(ts)) : Prune(ts)[k] = ts[Expired(ts) + k]
<1>1. Expired(ts) \in 0..Len(ts) /\ Len(ts) \in Nat
  BY ExpiredSplits, Elements
<1>2. Prune(ts) = SubSeq(ts, Expired(ts) + 1, Len(ts))
  BY DEF Prune
<1>3. \A i \in Expired(ts) + 1..Len(ts) : ts[i] \in Times
  BY <1>1, Elements
<1>4. /\ SubSeq(ts, Expired(ts) + 1, Len(ts)) \in Seq(Times)
      /\ Len(SubSeq(ts, Expired(ts) + 1, Len(ts))) = Len(ts) - Expired(ts)
      /\ \A k \in 1..Len(ts) - Expired(ts) :
            SubSeq(ts, Expired(ts) + 1, Len(ts))[k] = ts[Expired(ts) + k]
  BY <1>1, <1>3, SubSeqProperties
<1> QED BY <1>2, <1>4

\* Where the entry of an IP keeps the last requests, so does its pruned form.
LEMMA PrunedEntry ==
  ASSUME TypeOK, NEW ip \in IPs, AdmittedInOrder(ip), KeepsTheLast(ip),
         NEW p, p = Prune(entries[ip])
  PROVE  /\ p \in Seq(Times) /\ Len(p) =< Max /\ Len(p) =< Len(admitted[ip])
         /\ \A k \in 1..Len(p) : /\ p[k] = admitted[ip][Len(admitted[ip]) - Len(p) + k]
                                 /\ p[k] > now - Window /\ p[k] =< now
         /\ \A i \in 1..Len(admitted[ip]) - Len(p) : admitted[ip][i] =< now - Window
<1> DEFINE e == entries[ip]
           a == admitted[ip]
           x == Expired(entries[ip])
<1>1. e \in Seq(Times) /\ Len(e) \in Nat /\ Len(e) =< Max /\ a \in Seq(Times) /\ Len(a) \in Nat
  BY Elements DEF TypeOK
<1>1a. /\ \A i \in 1..Len(e) : e[i] \in Nat
       /\ \A i \in 1..Len(a) : a[i] \in Nat
       /\ now \in Nat /\ Window \in Nat /\ Max \in Nat
  BY <1>1, Elements, TimesAreNat, WindowNat, LimiterAssumption DEF TypeOK
<1>2. /\ Len(a) - Len(e) >= 0
      /\ \A k \in 1..Len(e) : e[k] = a[Len(a) - Len(e) + k]
      /\ \A i \in 1..Len(a) - Len(e) : a[i] =< now - Window
  BY DEF KeepsTheLast
<1>3. \A i, j \in 1..Len(a) : i =< j => a[i] =< a[j]
  BY DEF AdmittedInOrder, Sorted
<1>3a. \A i \in 1..Len(a) : a[i] =< now
  BY DEF AdmittedInOrder
<1> HIDE DEF e, a, x
<1>4. Sorted(e)
  <2> SUFFICES ASSUME NEW i \in 1..Len(e), NEW j \in 1..Len(e), i =< j PROVE e[i] =< e[j]
    BY DEF Sorted
  <2> DEFINE d == Len(a) - Len(e)
  <2>1. d + i \in 1..Len(a) /\ d + j \in 1..Len(a) /\ d + i =< d + j
    BY <1>1, <1>2
  <2>2. e[i] = a[d + i] /\ e[j] = a[d + j]
    BY <1>2
  <2> QED BY <2>1, <2>2, <1>3
<1>5. /\ x \in 0..Len(e)
      /\ \A i \in 1..x : e[i] =< now - Window
      /\ \A i \in x + 1..Len(e) : e[i] > now - Window
  BY <1>1, <1>4, ExpiredSplits DEF e, x
<1>6. p \in Seq(Times) /\ Len(p) = Len(e) - x /\ \A k \in 1..Len(p) : p[k] = e[x + k]
  BY <1>1, <1>4, PruneKeepsEnd DEF e, x
<1> HIDE DEF TypeOK
<1>7. \A k \in 1..Len(p) : p[k] = a[Len(a) - Len(p) + k] /\ p[k] > now - Window /\ p[k] =< now
  <2> SUFFICES ASSUME NEW k \in 1..Len(p)
               PROVE  p[k] = a[Len(a) - Len(p) + k] /\ p[k] > now - Window /\ p[k] =< now
    OBVIOUS
  <2>1. x + k \in x + 1..Len(e) /\ x + k \in 1..Len(e) /\ p[k] = e[x + k]
    BY <1>1, <1>5, <1>6
  <2>2. /\ e[x + k] = a[Len(a) - Len(e) + (x + k)]
        /\ Len(a) - Len(e) + (x + k) = Len(a) - Len(p) + k
        /\ Len(a) - Len(p) + k \in 1..Len(a)
    BY <2>1, <1>1, <1>2, <1>5, <1>6
  <2> QED BY <2>1, <2>2, <1>3a, <1>5
<1>8. \A i \in 1..Len(a) - Len(p) : a[i] =< now - Window
  <2> SUFFICES ASSUME NEW i \in 1..Len(a) - Len(p) PROVE a[i] =< now - Window
    OBVIOUS
  <2>1. CASE i =< Len(a) - Len(e)
    BY <2>1, <1>1, <1>2
  <2>2. CASE i > Len(a) - Len(e)
    <3> DEFINE j == i - (Len(a) - Len(e))
    <3>1. j \in 1..x /\ j \in 1..Len(e) /\ Len(a) - Len(e) + j = i
      BY <2>2, <1>1, <1>2, <1>5, <1>6
    <3>2. e[j] = a[Len(a) - Len(e) + j] /\ e[j] =< now - Window
      BY <3>1, <1>2, <1>5
    <3> QED BY <3>1, <3>2
  <2> QED BY <2>1, <2>2, <1>1, <1>2, <1>5, <1>6
<1>9. Len(p) =< Max /\ Len(p) =< Len(a)
  BY <1>1, <1>1a, <1>2, <1>5, <1>6
<1> QED BY <1>6, <1>7, <1>8, <1>9 DEF a

\* Cutting to whole units loses less than one.
LEMMA Cut ==
  ASSUME NEW a \in Nat, NEW b \in Nat, b > 0
  PROVE  a \div b \in Nat /\ a =< (a \div b + 1) * b
OBVIOUS

\* The Retry-After of a 429 is a number of seconds, short by at most one.
LEMMA RetryAfterBound ==
  ASSUME TypeOK, NEW p \in Seq(Times), p # <<>>, p[1] > now - Window
  PROVE  /\ RetryAfter(p) \in Nat
         /\ p[1] + Window =< now + (RetryAfter(p) + 1) * TicksPerSecond
<1> DEFINE left == p[1] + Window - now
<1>1. p[1] \in Nat /\ now \in Nat /\ Window \in Nat /\ TicksPerSecond \in Nat /\ TicksPerSecond > 0
  BY Elements, WindowNat, TimesAreNat, LimiterAssumption DEF TypeOK
<1>2. left \in Nat
  BY <1>1
<1> HIDE DEF left
<1>3. left \div TicksPerSecond \in Nat /\ left =< (left \div TicksPerSecond + 1) * TicksPerSecond
  BY <1>1, <1>2, Cut
<1>4. CASE left < TicksPerSecond
  <2>1. RetryAfter(p) = 1
    BY <1>4 DEF RetryAfter, left
  <2> QED BY <2>1, <1>1, <1>4 DEF left
<1>5. CASE ~(left < TicksPerSecond)
  <2>1. RetryAfter(p) = left \div TicksPerSecond
    BY <1>5 DEF RetryAfter, left
  <2> DEFINE q == left \div TicksPerSecond
             r == (q + 1) * TicksPerSecond
  <2>2. left =< r /\ r \in Int
    BY <1>1, <1>3
  <2> HIDE DEF r
  <2>3. p[1] + Window =< now + r
    BY <1>1, <2>2 DEF left
  <2> QED BY <2>1, <2>3, <1>3 DEF r
<1> QED BY <1>4, <1>5

---------------------------------------------------------------------------
(* The operations.                                                           *)

\* A new limiter has no entries and has let nothing through.
LEMMA InitHolds == ASSUME Init PROVE IInv
<1>1. TypeOK
  BY LimiterAssumption, TimesAreNat DEF Init, TypeOK, NoEntry, NoRefusal, Times
<1>2. \A ip \in IPs : Len(entries[ip]) = 0 /\ Len(admitted[ip]) = 0 /\ refusal[ip] = NoRefusal
  BY DEF Init, NoEntry
<1>3. ASSUME NEW ip \in IPs PROVE AdmittedInOrder(ip) /\ KeepsTheLast(ip) /\ RefusedFor(ip)
  <2>1. AdmittedInOrder(ip)
    BY <1>2 DEF AdmittedInOrder, Sorted
  <2>2. KeepsTheLast(ip)
    <3> DEFINE lost == Len(admitted[ip]) - Len(entries[ip])
    <3>1. lost = 0 /\ Len(entries[ip]) = 0
      BY <1>2
    <3> HIDE DEF lost
    <3>2. /\ lost >= 0
          /\ \A k \in 1..Len(entries[ip]) : entries[ip][k] = admitted[ip][lost + k]
          /\ \A i \in 1..lost : admitted[ip][i] =< now - Window
      BY <3>1
    <3> QED BY <3>2, Zenon DEF KeepsTheLast, lost
  <2> QED BY <2>1, <2>2, <1>2 DEF RefusedFor
<1>4. AtMostMaxPerWindow
  BY <1>2, LimiterAssumption DEF AtMostMaxPerWindow
<1> QED BY <1>1, <1>3, <1>4 DEF IInv

\* allow lets a request through only when, of the last Max, one has left the
\* window.
LEMMA AdmitKeeps ==
  ASSUME IInv, NEW ip \in IPs, Admit(ip), UNCHANGED <<now, nextCleanup>>
  PROVE  IInv'
<1> DEFINE p == Prune(entries[ip])
           a == admitted[ip]
<1>1. /\ p \in Seq(Times) /\ Len(p) =< Max /\ Len(p) =< Len(a)
      /\ \A k \in 1..Len(p) : p[k] = a[Len(a) - Len(p) + k] /\ p[k] > now - Window /\ p[k] =< now
      /\ \A i \in 1..Len(a) - Len(p) : a[i] =< now - Window
  BY PrunedEntry DEF IInv
<1>2. Len(p) < Max
  BY DEF Admit, HasRoom
<1>3. /\ a \in Seq(Times) /\ Len(a) \in Nat /\ Len(p) \in Nat /\ now \in Times /\ now \in Nat
      /\ Window \in Nat /\ Max \in Nat /\ \A i \in 1..Len(a) : a[i] \in Nat
  BY <1>1, Elements, TimesAreNat, WindowNat, LimiterAssumption DEF IInv, TypeOK
<1>4. /\ \A i, j \in 1..Len(a) : i =< j => a[i] =< a[j]
      /\ \A i \in 1..Len(a) : a[i] =< now
      /\ \A i \in 1..Len(a) - Max : a[i + Max] - a[i] >= Window
  BY DEF IInv, AdmittedInOrder, Sorted, AtMostMaxPerWindow
<1>5. /\ entries' = [entries EXCEPT ![ip] = Append(p, now)]
      /\ admitted' = [admitted EXCEPT ![ip] = Append(a, now)]
      /\ refusal' = [refusal EXCEPT ![ip] = NoRefusal]
      /\ now' = now /\ nextCleanup' = nextCleanup
  BY DEF Admit
<1>6. /\ entries \in [IPs -> Seq(Times)] /\ admitted \in [IPs -> Seq(Times)]
      /\ refusal \in [IPs -> [at: Times \cup {-1}, retry: Nat]]
  BY DEF IInv, TypeOK
<1> HIDE DEF p, a
<1>7. /\ entries'[ip] = Append(p, now) /\ admitted'[ip] = Append(a, now)
      /\ refusal'[ip] = NoRefusal
      /\ \A o \in IPs \ {ip} : /\ entries'[o] = entries[o] /\ admitted'[o] = admitted[o]
                               /\ refusal'[o] = refusal[o]
  BY <1>5, <1>6
<1>8. /\ Append(p, now) \in Seq(Times) /\ Len(Append(p, now)) = Len(p) + 1
      /\ \A k \in 1..Len(p) : Append(p, now)[k] = p[k]
      /\ Append(p, now)[Len(p) + 1] = now
  BY <1>1, <1>3
<1>9. /\ Append(a, now) \in Seq(Times) /\ Len(Append(a, now)) = Len(a) + 1
      /\ \A k \in 1..Len(a) : Append(a, now)[k] = a[k]
      /\ Append(a, now)[Len(a) + 1] = now
  BY <1>3
<1>10. TypeOK'
  <2>1. entries' \in [IPs -> Seq(Times)] /\ admitted' \in [IPs -> Seq(Times)]
    BY <1>5, <1>6, <1>8, <1>9
  <2>2. \A o \in IPs : Len(entries'[o]) =< Max
    <3>1. \A o \in IPs \ {ip} : Len(entries'[o]) =< Max
      BY <1>7 DEF IInv, TypeOK
    <3>2. Len(entries'[ip]) =< Max
      BY <1>2, <1>3, <1>7, <1>8
    <3> QED BY <3>1, <3>2
  <2>3. refusal' \in [IPs -> [at: Times \cup {-1}, retry: Nat]]
    BY <1>5, <1>6 DEF NoRefusal
  <2> QED BY <2>1, <2>2, <2>3, <1>5 DEF IInv, TypeOK
<1>11. AdmittedInOrder(ip)'
  <2>1. \A i \in 1..Len(a) + 1 : admitted'[ip][i] =< now
    BY <1>3, <1>4, <1>7, <1>9
  <2>2. ASSUME NEW i \in 1..Len(a) + 1, NEW j \in 1..Len(a) + 1, i =< j
        PROVE  admitted'[ip][i] =< admitted'[ip][j]
    <3>1. CASE j = Len(a) + 1
      BY <3>1, <2>1, <1>3, <1>7, <1>9
    <3>2. CASE j # Len(a) + 1
      <4>1. i \in 1..Len(a) /\ j \in 1..Len(a)
        BY <3>2, <2>2, <1>3
      <4> QED BY <4>1, <2>2, <1>4, <1>7, <1>9
    <3> QED BY <3>1, <3>2
  <2>3. Len(admitted'[ip]) = Len(a) + 1
    BY <1>7, <1>9
  <2> QED BY <2>1, <2>2, <2>3, <1>5 DEF AdmittedInOrder, Sorted
<1>12. KeepsTheLast(ip)'
  <2> DEFINE e2 == entries'[ip]
             a2 == admitted'[ip]
  <2>1. /\ Len(a2) - Len(e2) = Len(a) - Len(p) /\ Len(a) - Len(p) \in Nat
    BY <1>1, <1>3, <1>7, <1>8, <1>9
  <2>2. \A k \in 1..Len(e2) : e2[k] = a2[Len(a2) - Len(e2) + k]
    <3> SUFFICES ASSUME NEW k \in 1..Len(e2) PROVE e2[k] = a2[Len(a) - Len(p) + k]
      BY <2>1
    <3>1. CASE k = Len(p) + 1
      BY <3>1, <1>3, <1>7, <1>8, <1>9
    <3>2. CASE k \in 1..Len(p)
      <4>1. e2[k] = p[k] /\ p[k] = a[Len(a) - Len(p) + k] /\ Len(a) - Len(p) + k \in 1..Len(a)
        BY <3>2, <1>1, <1>3, <1>7, <1>8
      <4> QED BY <4>1, <1>7, <1>9
    <3>3. Len(e2) = Len(p) + 1
      BY <1>7, <1>8
    <3> QED BY <3>1, <3>2, <3>3, <1>3
  <2>3. \A i \in 1..Len(a) - Len(p) : a2[i] =< now - Window
    BY <1>1, <1>3, <1>7, <1>9
  <2> HIDE DEF e2, a2
  <2>4. /\ Len(a2) - Len(e2) >= 0
        /\ \A k \in 1..Len(e2) : e2[k] = a2[Len(a2) - Len(e2) + k]
        /\ \A i \in 1..Len(a2) - Len(e2) : a2[i] =< now - Window
    BY <2>1, <2>2, <2>3
  <2>5. now' = now /\ Window' = Window
    BY <1>5
  <2> QED BY <2>4, <2>5, Zenon DEF KeepsTheLast, e2, a2
<1>13. RefusedFor(ip)'
  BY <1>7 DEF RefusedFor
<1>14. \A i \in 1..Len(a) + 1 - Max : Append(a, now)[i + Max] - Append(a, now)[i] >= Window
  <2> SUFFICES ASSUME NEW i \in 1..Len(a) + 1 - Max
               PROVE  Append(a, now)[i + Max] - Append(a, now)[i] >= Window
    OBVIOUS
  <2>1. CASE i = Len(a) + 1 - Max
    <3>1. i \in 1..Len(a) - Len(p) /\ i \in 1..Len(a) /\ i + Max = Len(a) + 1
      BY <2>1, <1>1, <1>2, <1>3
    <3>2. a[i] =< now - Window /\ a[i] \in Nat
      BY <3>1, <1>1, <1>3
    <3> QED BY <3>1, <3>2, <1>3, <1>9
  <2>2. CASE i \in 1..Len(a) - Max
    <3>1. i \in 1..Len(a) /\ i + Max \in 1..Len(a)
      BY <2>2, <1>3
    <3> QED BY <2>2, <3>1, <1>4, <1>9
  <2> QED BY <2>1, <2>2, <1>3
<1>15. \A o \in IPs \ {ip} : AdmittedInOrder(o)' /\ KeepsTheLast(o)' /\ RefusedFor(o)'
  <2> SUFFICES ASSUME NEW o \in IPs \ {ip}
               PROVE  AdmittedInOrder(o)' /\ KeepsTheLast(o)' /\ RefusedFor(o)'
    OBVIOUS
  <2>1. /\ entries'[o] = entries[o] /\ admitted'[o] = admitted[o] /\ refusal'[o] = refusal[o]
        /\ now' = now
    BY <1>5, <1>7
  <2>2. AdmittedInOrder(o) /\ KeepsTheLast(o) /\ RefusedFor(o)
    BY DEF IInv
  <2>3. AdmittedInOrder(o)'
    BY <2>1, <2>2 DEF AdmittedInOrder, Sorted
  <2>4. KeepsTheLast(o)'
    BY <2>1, <2>2 DEF KeepsTheLast
  <2>5. RefusedFor(o)'
    BY <2>1, <2>2 DEF RefusedFor, Oldest
  <2> QED BY <2>3, <2>4, <2>5
<1>16. AtMostMaxPerWindow'
  <2>1. \A i \in 1..Len(admitted'[ip]) - Max : admitted'[ip][i + Max] - admitted'[ip][i] >= Window
    <3> DEFINE b == Append(a, now)
    <3>1. admitted'[ip] = b /\ Len(b) = Len(a) + 1
      BY <1>7, <1>9
    <3>2. \A i \in 1..Len(a) + 1 - Max : b[i + Max] - b[i] >= Window
      BY <1>14
    <3> HIDE DEF b
    <3>3. Len(b) - Max = Len(a) + 1 - Max
      BY <1>3, <3>1
    <3> QED BY <3>1, <3>2, <3>3
  <2> QED BY <1>7, <2>1 DEF AtMostMaxPerWindow, IInv
<1> QED BY <1>10, <1>11, <1>12, <1>13, <1>15, <1>16 DEF IInv

\* The time goes on, or entries are pruned: what only looks at what was let
\* through and refused is kept.
LEMMA Frame ==
  ASSUME IInv, NEW ip \in IPs, now' \in Times, now' >= now,
         admitted'[ip] = admitted[ip], refusal'[ip] = refusal[ip]
  PROVE  AdmittedInOrder(ip)' /\ RefusedFor(ip)'
<1>1. AdmittedInOrder(ip) /\ RefusedFor(ip)
  BY DEF IInv
<1>2. now \in Nat /\ now' \in Nat /\ \A i \in 1..Len(admitted[ip]) : admitted[ip][i] \in Nat
  BY Elements, TimesAreNat DEF IInv, TypeOK
<1>3. AdmittedInOrder(ip)'
  BY <1>1, <1>2 DEF AdmittedInOrder, Sorted
<1>4. RefusedFor(ip)'
  BY <1>1 DEF RefusedFor, Oldest
<1> QED BY <1>3, <1>4

\* Pruning an entry, at the same time, loses only what has left the window.
LEMMA PruneKeeps ==
  ASSUME IInv, NEW ip \in IPs, now' = now, admitted'[ip] = admitted[ip],
         entries'[ip] = Prune(entries[ip])
  PROVE  entries'[ip] \in Seq(Times) /\ Len(entries'[ip]) =< Max /\ KeepsTheLast(ip)'
<1> DEFINE p == Prune(entries[ip])
           lost == Len(admitted'[ip]) - Len(entries'[ip])
<1>1. /\ p \in Seq(Times) /\ Len(p) =< Max /\ Len(p) =< Len(admitted[ip])
      /\ \A k \in 1..Len(p) : p[k] = admitted[ip][Len(admitted[ip]) - Len(p) + k]
      /\ \A i \in 1..Len(admitted[ip]) - Len(p) : admitted[ip][i] =< now - Window
  BY PrunedEntry DEF IInv
<1>2. lost \in Nat
  BY <1>1 DEF IInv, TypeOK
<1> HIDE DEF p
<1>3. entries'[ip] = p /\ lost = Len(admitted[ip]) - Len(p)
  BY DEF p
<1> HIDE DEF lost
<1>4. /\ lost >= 0
      /\ \A k \in 1..Len(entries'[ip]) : entries'[ip][k] = admitted'[ip][lost + k]
      /\ \A i \in 1..lost : admitted'[ip][i] =< now' - Window
  BY <1>1, <1>2, <1>3
<1>5. KeepsTheLast(ip)'
  BY <1>4, Zenon DEF KeepsTheLast, lost, Window
<1> QED BY <1>1, <1>3, <1>5

\* allow refuses when the last Max requests it let through are in the window.
LEMMA RefuseKeeps ==
  ASSUME IInv, NEW ip \in IPs, Refuse(ip), UNCHANGED <<now, nextCleanup>>
  PROVE  IInv'
<1> DEFINE p == Prune(entries[ip])
           a == admitted[ip]
<1>1. /\ p \in Seq(Times) /\ Len(p) =< Max /\ Len(p) =< Len(a)
      /\ \A k \in 1..Len(p) : p[k] = a[Len(a) - Len(p) + k] /\ p[k] > now - Window
  BY PrunedEntry DEF IInv
<1>2. /\ Len(a) \in Nat /\ Len(p) \in Nat /\ Max \in Nat /\ Max > 0
      /\ TypeOK /\ now \in Times
  BY <1>1, LimiterAssumption DEF IInv, TypeOK
<1>3. Len(p) = Max
  BY <1>1, <1>2 DEF Refuse, HasRoom
<1>4. /\ entries' = [entries EXCEPT ![ip] = p]
      /\ refusal' = [refusal EXCEPT ![ip] = [at |-> now, retry |-> RetryAfter(p)]]
      /\ admitted' = admitted /\ now' = now /\ nextCleanup' = nextCleanup
  BY DEF Refuse
<1>5. /\ entries \in [IPs -> Seq(Times)] /\ admitted \in [IPs -> Seq(Times)]
      /\ refusal \in [IPs -> [at: Times \cup {-1}, retry: Nat]]
  BY DEF IInv, TypeOK
<1>6. p # <<>> /\ p[1] = a[Len(a) - Max + 1] /\ p[1] > now - Window
  BY <1>1, <1>2, <1>3
<1>7. /\ RetryAfter(p) \in Nat
      /\ p[1] + Window =< now + (RetryAfter(p) + 1) * TicksPerSecond
  BY <1>1, <1>2, <1>6, RetryAfterBound
<1>8. entries'[ip] \in Seq(Times) /\ Len(entries'[ip]) =< Max /\ KeepsTheLast(ip)'
  BY <1>4, <1>5, PruneKeeps
<1> HIDE DEF p
<1>9. TypeOK'
  <2>1. \A o \in IPs : Len(entries'[o]) =< Max
    BY <1>4, <1>5, <1>8 DEF TypeOK, IInv
  <2>2. refusal' \in [IPs -> [at: Times \cup {-1}, retry: Nat]]
    BY <1>2, <1>4, <1>5, <1>7
  <2>3. entries' \in [IPs -> Seq(Times)]
    BY <1>1, <1>4, <1>5
  <2> QED BY <1>2, <1>4, <2>1, <2>2, <2>3 DEF TypeOK
<1>10. RefusedFor(ip)'
  <2>1. /\ refusal'[ip].at = now /\ refusal'[ip].retry = RetryAfter(p)
        /\ admitted'[ip] = a
    BY <1>4, <1>5
  <2> QED BY <2>1, <1>1, <1>2, <1>3, <1>6, <1>7 DEF RefusedFor, Oldest
<1>11. ASSUME NEW o \in IPs PROVE AdmittedInOrder(o)' /\ KeepsTheLast(o)' /\ RefusedFor(o)'
  <2>1. CASE o = ip
    <3>1. AdmittedInOrder(ip)'
      BY <1>4 DEF IInv, AdmittedInOrder, Sorted
    <3> QED BY <2>1, <3>1, <1>8, <1>10
  <2>2. CASE o # ip
    <3>1. /\ entries'[o] = entries[o] /\ admitted'[o] = admitted[o] /\ refusal'[o] = refusal[o]
          /\ now' = now
      BY <2>2, <1>4, <1>5
    <3>2. AdmittedInOrder(o) /\ KeepsTheLast(o) /\ RefusedFor(o)
      BY DEF IInv
    <3>3. AdmittedInOrder(o)'
      BY <3>1, <3>2 DEF AdmittedInOrder, Sorted
    <3>4. KeepsTheLast(o)'
      BY <3>1, <3>2 DEF KeepsTheLast
    <3>5. RefusedFor(o)'
      BY <3>1, <3>2 DEF RefusedFor, Oldest
    <3> QED BY <3>3, <3>4, <3>5
  <2> QED BY <2>1, <2>2
<1>12. AtMostMaxPerWindow'
  BY <1>4 DEF IInv, AtMostMaxPerWindow
<1> QED BY <1>9, <1>11, <1>12 DEF IInv

\* The cleaner forgets nothing that is in the window.
LEMMA CleanupKeeps == ASSUME IInv, Cleanup PROVE IInv'
<1>1. /\ now' = now /\ admitted' = admitted /\ refusal' = refusal
      /\ nextCleanup' = now + CleanupInterval
      /\ entries' = [ip \in IPs |-> Prune(entries[ip])]
  BY DEF Cleanup, CleanupPrune
<1>2. now \in Times /\ now \in Nat
  BY TimesAreNat DEF IInv, TypeOK
<1>3. ASSUME NEW ip \in IPs
      PROVE  entries'[ip] \in Seq(Times) /\ Len(entries'[ip]) =< Max /\ KeepsTheLast(ip)'
  <2>1. entries'[ip] = Prune(entries[ip])
    BY <1>1
  <2> QED BY <1>1, <2>1, PruneKeeps
<1>4. TypeOK'
  BY <1>1, <1>2, <1>3, LimiterAssumption DEF IInv, TypeOK
<1>5. \A ip \in IPs : AdmittedInOrder(ip)' /\ RefusedFor(ip)'
  BY <1>1, <1>2, Frame
<1>6. AtMostMaxPerWindow'
  BY <1>1 DEF IInv, AtMostMaxPerWindow
<1> QED BY <1>3, <1>4, <1>5, <1>6 DEF IInv

\* Time only takes requests out of the window.
LEMMA TickKeeps == ASSUME IInv, Tick PROVE IInv'
<1>1. /\ now' = now + 1 /\ entries' = entries /\ nextCleanup' = nextCleanup
      /\ admitted' = admitted /\ refusal' = refusal
  BY DEF Tick
<1>2. now \in Nat /\ now' \in Times /\ now' \in Nat /\ now' >= now /\ Window \in Nat
  BY <1>1, LimiterAssumption, WindowNat DEF Tick, IInv, TypeOK, Times
<1>3. TypeOK'
  BY <1>1, <1>2 DEF IInv, TypeOK
<1>4. \A ip \in IPs : AdmittedInOrder(ip)' /\ RefusedFor(ip)'
  BY <1>1, <1>2, Frame
<1>5. ASSUME NEW ip \in IPs PROVE KeepsTheLast(ip)'
  <2> DEFINE lost == Len(admitted[ip]) - Len(entries[ip])
  <2>1. /\ lost >= 0
        /\ \A k \in 1..Len(entries[ip]) : entries[ip][k] = admitted[ip][lost + k]
        /\ \A i \in 1..lost : admitted[ip][i] =< now - Window
    BY DEF IInv, KeepsTheLast
  <2>2. \A i \in 1..Len(admitted[ip]) : admitted[ip][i] \in Nat
    BY Elements DEF IInv, TypeOK
  <2>3. Len(admitted[ip]) \in Nat /\ Len(entries[ip]) \in Nat
    BY DEF IInv, TypeOK
  <2>4. \A i \in 1..lost : admitted[ip][i] =< now' - Window
    <3> SUFFICES ASSUME NEW i \in 1..lost PROVE admitted[ip][i] =< now' - Window
      OBVIOUS
    <3>0. lost \in Int /\ lost =< Len(admitted[ip]) /\ Len(admitted[ip]) \in Nat
      <4>1. \A x, y \in Nat : x - y \in Int /\ x - y =< x
        OBVIOUS
      <4> QED BY <2>3, <4>1
    <3> HIDE DEF lost
    <3>1. i \in 1..Len(admitted[ip]) /\ admitted[ip][i] =< now - Window
      BY <2>1, <3>0
    <3>2. admitted[ip][i] \in Nat
      BY <2>2, <3>1
    <3> QED BY <3>1, <3>2, <1>1, <1>2
  <2> HIDE DEF lost
  <2> QED BY <2>1, <2>4, <1>1, Zenon DEF KeepsTheLast, lost, Window
<1>6. AtMostMaxPerWindow'
  BY <1>1 DEF IInv, AtMostMaxPerWindow
<1> QED BY <1>3, <1>4, <1>5, <1>6 DEF IInv

---------------------------------------------------------------------------
(* The theorems.                                                             *)

\* The inductive invariant of the limiter.
THEOREM Inductive == Spec => []IInv
<1>1. Init => IInv
  BY InitHolds
<1>2. IInv /\ [Next]_vars => IInv'
  <2> SUFFICES ASSUME IInv, [Next]_vars PROVE IInv'
    OBVIOUS
  <2>1. CASE Tick
    BY <2>1, TickKeeps
  <2>2. CASE Cleanup
    BY <2>2, CleanupKeeps
  <2>3. ASSUME NEW ip \in IPs, Request(ip) PROVE IInv'
    BY <2>3, AdmitKeeps, RefuseKeeps DEF Request
  <2>4. CASE UNCHANGED vars
    BY <2>4 DEF vars, IInv, TypeOK, AdmittedInOrder, Sorted, KeepsTheLast, RefusedFor, Oldest,
                AtMostMaxPerWindow
  <2> QED BY <2>1, <2>2, <2>3, <2>4 DEF Next
<1> QED BY <1>1, <1>2, PTL DEF Spec

\* The types, and that no entry outgrows Max (allow appends below it only).
THEOREM TypeCorrect == Spec => []TypeOK
<1>1. IInv => TypeOK
  BY DEF IInv
<1> QED BY <1>1, Inductive, PTL

\* allow never lets more than Max requests of one IP through in any window,
\* wherever the window starts and whatever cleanup has done in between.
THEOREM WindowHolds == Spec => []AtMostMaxPerWindow
<1>1. IInv => AtMostMaxPerWindow
  BY DEF IInv
<1> QED BY <1>1, Inductive, PTL

\* allow refuses only an IP whose window is used up.
THEOREM RefusalsJust == Spec => []RefusedOnlyWhenFull
<1>1. IInv => RefusedOnlyWhenFull
  BY DEF IInv, RefusedFor, Oldest, RefusedOnlyWhenFull
<1> QED BY <1>1, Inductive, PTL

\* A second after the time Retry-After names, allow would let a request through.
THEOREM RetryAfterClose == Spec => []RetryAfterIsCloseEnough
<1>1. ASSUME IInv, NEW ip \in IPs, refusal[ip] # NoRefusal,
             now >= refusal[ip].at + (refusal[ip].retry + 1) * TicksPerSecond
      PROVE  Len(Prune(entries[ip])) < Max
  <2> DEFINE p == Prune(entries[ip])
             a == admitted[ip]
             until == refusal[ip].at + (refusal[ip].retry + 1) * TicksPerSecond
  <2>1. /\ p \in Seq(Times) /\ Len(p) =< Max /\ Len(p) =< Len(a)
        /\ \A k \in 1..Len(p) : p[k] = a[Len(a) - Len(p) + k] /\ p[k] > now - Window
    BY PrunedEntry, <1>1 DEF IInv
  <2>2. Len(a) >= Max /\ Oldest(ip) + Window =< until /\ now >= until
    BY <1>1 DEF IInv, RefusedFor
  <2>3. /\ now \in Nat /\ Window \in Nat /\ Max \in Nat /\ Max > 0 /\ Len(a) \in Nat /\ Len(p) \in Nat
        /\ \A i \in 1..Len(a) : a[i] \in Nat
    BY <1>1, <2>1, Elements, TimesAreNat, WindowNat, LimiterAssumption DEF IInv, TypeOK
  <2>4. until \in Int
    <3>1. refusal[ip].at \in Int /\ refusal[ip].retry \in Nat
      <4>1. refusal[ip] \in [at: Times \cup {-1}, retry: Nat]
        BY <1>1 DEF IInv, TypeOK
      <4>2. Times \cup {-1} \subseteq Int
        BY TimesAreNat
      <4> QED BY <4>1, <4>2
    <3> QED BY <3>1, LimiterAssumption
  <2> HIDE DEF until, p
  <2>5. Oldest(ip) = a[Len(a) - Max + 1] /\ Oldest(ip) \in Nat
    BY <2>2, <2>3 DEF Oldest
  <2>6. Oldest(ip) =< now - Window
    BY <2>2, <2>3, <2>4, <2>5
  <2>7. ASSUME Len(p) = Max PROVE FALSE
    <3>1. 1 \in 1..Len(p)
      BY <2>3, <2>7
    <3>2. p[1] = a[Len(a) - Len(p) + 1] /\ p[1] > now - Window
      BY <2>1, <3>1
    <3>3. p[1] = Oldest(ip)
      BY <2>5, <2>7, <3>2
    <3> QED BY <2>3, <2>5, <2>6, <3>2, <3>3
  <2> QED BY <2>1, <2>3, <2>7 DEF p
<1>2. IInv => RetryAfterIsCloseEnough
  BY <1>1 DEF RetryAfterIsCloseEnough
<1> QED BY <1>2, Inductive, PTL
=============================================================================
