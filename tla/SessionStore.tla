---------------------------- MODULE SessionStore ----------------------------
(* The sessions table of src/internal/store/sqlite.go as the manager and a   *)
(* client of GET /v1/sessions use it: ids and timestamps are text, ordered   *)
(* as SQLite orders text; external ids are unique as they were given, and    *)
(* looked up trimmed; a client pages through the list while sessions come,   *)
(* go and are active; activity is written some time after it was clocked.    *)
(*                                                                           *)
(* A statement is atomic (SetMaxOpenConns(1)). One user's sessions are       *)
(* modelled: user_id, project_id and working_dir are stored as given and at  *)
(* most select rows. No two sessions are created at the same instant.        *)
(*                                                                           *)
(* Definitions marked "Mutated form" are not part of the model: each is a    *)
(* plausible bug in the definition after it, which a property below catches. *)
EXTENDS SessionIDs, Integers, FiniteSets

CONSTANTS
    MaxN,          \* bound on the counter
    MaxTime,       \* bound on the clock
    FracDigits,    \* digits of a second's fraction (9 in the code), in base 2
    DefaultLimit,  \* 50 in the code
    MaxLimit,      \* 200 in the code
    AskedLimits,   \* limits a client asks for
    Names,         \* external ids, trimmed
    NoName,        \* the name of a blank one
    MaxLate        \* bound on the writes of activity under way

ASSUME StoreAssumption ==
    /\ MaxN \in Nat \ {0} /\ MaxTime \in Nat /\ FracDigits \in Nat
    /\ DefaultLimit \in Nat \ {0} /\ MaxLimit \in Nat \ {0}
    /\ AskedLimits \subseteq Int /\ NoName \notin Names /\ MaxLate \in Nat

VARIABLES
    counter,   \* Manager.counter
    now,       \* the clock, in the smallest fraction of a second
    rows,      \* the sessions table
    late,      \* activity clocked and not yet written
    walk       \* a client paging through GET /v1/sessions
vars == <<counter, now, rows, late, walk>>

Numbers == 1..MaxN
Times == 0..MaxTime

\* An external id as given: its name, and whether white space surrounds it.
Given == [name: Names \cup {NoName}, padded: BOOLEAN]
Null == [name |-> NoName, padded |-> FALSE]
Blank(e) == e.name = NoName
TrimSpace(e) == [e EXCEPT !.padded = FALSE]
nullableString(e) == IF Blank(e) THEN Null ELSE e

\* "of" (a history) is the session the last activity was clocked for. The time
\* of its creation tells a session from others that have had its id.
Row == [id: {Format(n) : n \in Numbers}, ext: Given, created: Times, active: Times, of: Times]
Write == [id: {Format(n) : n \in Numbers}, of: Times, at: Times]
NoWalk == [on |-> FALSE, limit |-> 0, offset |-> 0, unseen |-> {}, shrunk |-> FALSE]

TypeOK ==
    /\ counter \in 0..MaxN /\ now \in 0..MaxTime + 1
    /\ rows \subseteq Row /\ late \subseteq Write
    /\ walk \in [on: BOOLEAN, limit: AskedLimits \cup {0}, offset: 0..MaxN,
                 unseen: SUBSET Times, shrunk: BOOLEAN]

Init == counter = 0 /\ now = 0 /\ rows = {} /\ late = {} /\ walk = NoWalk

---------------------------------------------------------------------------
(* Timestamps: RFC3339Nano drops the trailing zeros of a fraction, and the   *)
(* dot with them. In ASCII the dot comes before the digits and Z after them. *)

Dot == 0
Digit(d) == d + 1
Zone == 3
Second(t) == t \div Power(2, FracDigits)
Fraction(t) == [k \in 1..FracDigits |-> (t \div Power(2, FracDigits - k)) % 2]

toTS == [t \in Times |->
    LET digits == Fraction(t)
        last == CHOOSE k \in 0..FracDigits :
                    /\ k = 0 \/ digits[k] # 0
                    /\ \A j \in k + 1..FracDigits : digits[j] = 0
    IN  <<Second(t)>> \o (IF last = 0 THEN <<>> ELSE <<Dot>>)
            \o [k \in 1..last |-> Digit(digits[k])] \o <<Zone>>]

---------------------------------------------------------------------------
(* The statements.                                                           *)

\* Mutated form of Conflicts: external_id has no unique index.
IdConflicts(id, e) == \E r \in rows : r.id = id
Conflicts(id, e) == \E r \in rows : r.id = id \/ (~Blank(e) /\ r.ext = e)

\* Mutated form of SortKey: ORDER BY last_active_at.
ActivityKey(r) == r.active
SortKey(r) == r.created
\* Mutated form of Descending: ORDER BY ... without DESC.
Ascending(r, o) == Before(toTS[SortKey(r)], toTS[SortKey(o)])
Descending(r, o) == Before(toTS[SortKey(o)], toTS[SortKey(r)])

Clamped(limit) ==
    IF limit <= 0 THEN DefaultLimit ELSE IF limit > MaxLimit THEN MaxLimit ELSE limit

Matching(e) == {r \in rows : Blank(e) \/ r.ext = TrimSpace(e)}
Place(r, e) == Cardinality({o \in Matching(e) : Descending(o, r)})
ListSessions(e, limit, offset) ==
    LET skip == IF offset < 0 THEN 0 ELSE offset
    IN  {r \in Matching(e) : Place(r, e) >= skip /\ Place(r, e) < skip + Clamped(limit)}

UpdateSessionActivity(w) ==
    rows' = {IF r.id = w.id THEN [r EXCEPT !.active = w.at, !.of = w.of] ELSE r : r \in rows}

---------------------------------------------------------------------------
(* The manager. A creation fails before the insert (Pi does not start), at   *)
(* it (a conflict) or not at all; the number is used up in any case.         *)

\* Mutated form of NextNumber: the lowest number that is not stored.
LowestFree == CHOOSE n \in 1..MaxN + 1 :
    /\ \A r \in rows : r.id # Format(n)
    /\ \A k \in 1..n - 1 : \E r \in rows : r.id = Format(k)
NextNumber == counter + 1

NewRow(n, e) == [id |-> Format(n), ext |-> nullableString(e),
                 created |-> now, active |-> now, of |-> now]

Create(e) ==
    /\ NextNumber =< MaxN /\ now =< MaxTime
    /\ counter' = NextNumber /\ now' = now + 1
    /\ \/ UNCHANGED rows
       \/ /\ ~Conflicts(Format(NextNumber), e)
          /\ rows' = rows \cup {NewRow(NextNumber, e)}
    /\ UNCHANGED <<late, walk>>

Delete(r) ==
    /\ rows' = rows \ {r}
    /\ walk' = [walk EXCEPT !.unseen = @ \ {r.created}, !.shrunk = walk # NoWalk]
    /\ UNCHANGED <<counter, now, late>>

\* Resume, or the listener of a session when a run ends, takes the time, and
\* writes it later, whatever has become of the session; no row is no matter.
ClockActivity(r) ==
    /\ now =< MaxTime /\ Cardinality(late) < MaxLate
    /\ late' = late \cup {[id |-> r.id, of |-> r.created, at |-> now]}
    /\ UNCHANGED <<counter, now, rows, walk>>

WriteActivity(w) ==
    /\ UpdateSessionActivity(w)
    /\ late' = late \ {w}
    /\ UNCHANGED <<counter, now, walk>>

\* A new server: a Manager whose counter is 0, then Init. The writes under way
\* are lost.
Restart ==
    /\ counter' = Seed({r.id : r \in rows})
    /\ late' = {}
    /\ UNCHANGED <<now, rows, walk>>

Tick ==
    /\ now < MaxTime
    /\ now' = now + 1
    /\ UNCHANGED <<counter, rows, late, walk>>

---------------------------------------------------------------------------
(* A client that asks for page after page, going on from the number of       *)
(* entries it has been sent, until a page is empty.                          *)

StartWalk(limit) ==
    /\ walk = NoWalk
    /\ walk' = [on |-> TRUE, limit |-> limit, offset |-> 0,
                unseen |-> {r.created : r \in rows}, shrunk |-> FALSE]
    /\ UNCHANGED <<counter, now, rows, late>>

NextPage ==
    LET page == ListSessions(Null, walk.limit, walk.offset) IN
    /\ walk # NoWalk
    /\ walk' = IF page = {} THEN NoWalk
               ELSE [walk EXCEPT !.offset = @ + Cardinality(page),
                                 !.unseen = @ \ {r.created : r \in page}]
    /\ UNCHANGED <<counter, now, rows, late>>

---------------------------------------------------------------------------
Next ==
    \/ \E e \in Given : Create(e)
    \/ \E r \in rows : Delete(r) \/ ClockActivity(r)
    \/ \E w \in late : WriteActivity(w)
    \/ Restart \/ Tick
    \/ \E limit \in AskedLimits : StartWalk(limit)
    \/ NextPage

Spec == Init /\ [][Next]_vars

---------------------------------------------------------------------------
(* Properties.                                                               *)

\* The padding of %06d, up to which the order of text is that of numbers.
FitsPadding(id) == Parse(id) < Power(Base, PadWidth)

\* Every stored number that fits the padding is behind the counter, whatever was
\* created, deleted and restarted before: Create does not print such an id again.
\* Past the padding "This prevents ID collisions after a restart" (docs/storage.md:122)
\* is not so: s_1000000 is stored and s_999999 the last in the order of
\* GetMaxSessionID, so every Create that comes to a longer stored id fails.
CounterAheadOfRows == \A r \in rows : FitsPadding(r.id) => Parse(r.id) =< counter

\* Looking up an external id without white space around it finds the session
\* it was given to, and no other. (A padded one is found by nobody.)
ExternalLookup ==
    \A r \in rows : ~Blank(r.ext) /\ ~r.ext.padded =>
        \A limit \in AskedLimits, spaced \in BOOLEAN :
            ListSessions([r.ext EXCEPT !.padded = spaced], limit, 0) = {r}

\* The list is newest first to the second, which is what the API prints,
\* although within a second the text of a time may come before an earlier one's.
ListedNewestFirst ==
    \A r, o \in rows : Second(r.created) < Second(o.created) => Place(o, Null) < Place(r, Null)

\* A client that pages to the end has seen every session that was there from
\* first to last, unless one was deleted in the meantime: sessions that come
\* and sessions that are active push none out of the next page.
NoSessionSkipped ==
    [][walk # NoWalk /\ walk' = NoWalk => walk.shrunk \/ walk.unseen = {}]_vars

\* A late write reaches the session it was clocked for or none: an id that fits
\* the padding is not given out again while a listener that knows it may still
\* write. A longer one may be: the counter may be behind it, and come to it when
\* its session has been deleted.
ActivityIsOwn ==
    \A r \in rows : FitsPadding(r.id) => r.of = r.created /\ r.active >= r.created
=============================================================================
