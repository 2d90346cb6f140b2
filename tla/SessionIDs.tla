----------------------------- MODULE SessionIDs -----------------------------
(* Session ids as text. Manager.Create prints a counter as "s_%06d"; Init    *)
(* reads back the id GetMaxSessionID found, the last in the order of SQLite  *)
(* text. An id is the sequence of its digits; the "s_" that every id starts  *)
(* with is left out.                                                         *)
(*                                                                           *)
(* Definitions marked "Mutated form" are not part of the model: each is a    *)
(* plausible bug in the definition after it, which a property catches.       *)
EXTENDS Naturals, Sequences

CONSTANTS
    Base,       \* 10 in the code
    PadWidth    \* the 6 of %06d

ASSUME IDAssumption == Base \in Nat \ {0, 1} /\ PadWidth \in Nat \ {0}

\* b to the power k.
Power(b, k) ==
    LET power[j \in 0..k] == IF j = 0 THEN 1 ELSE b * power[j - 1]
    IN  power[k]

\* The digits of n, padded with zeros on the left to PadWidth, never cut.
Width(n) == CHOOSE w \in PadWidth..PadWidth + n :
    /\ n < Power(Base, w)
    /\ w = PadWidth \/ n >= Power(Base, w - 1)
Format(n) == [k \in 1..Width(n) |-> (n \div Power(Base, Width(n) - k)) % Base]

\* TrimLeft of the zeros and ParseUint; an id of zeros alone is 0.
Parse(id) ==
    LET value[k \in 0..Len(id)] == IF k = 0 THEN 0 ELSE Base * value[k - 1] + id[k]
    IN  value[Len(id)]

\* SQLite's BINARY order: the first difference decides, a prefix comes first.
Before(s, t) ==
    \E k \in 0..Len(s) :
        /\ k =< Len(t) /\ \A j \in 1..k : s[j] = t[j]
        /\ IF k = Len(s) THEN k < Len(t) ELSE k < Len(t) /\ s[k + 1] < t[k + 1]

\* Mutated form of First: ORDER BY id without DESC.
FirstAscending(s, t) == Before(s, t)
First(s, t) == Before(t, s)

\* The first of some ids, none of them stored twice.
GetMaxSessionID(ids) == CHOOSE id \in ids : \A other \in ids \ {id} : First(id, other)

\* Manager.Init, of a counter that is 0.
Seed(ids) == IF ids = {} THEN 0 ELSE Parse(GetMaxSessionID(ids))
=============================================================================
