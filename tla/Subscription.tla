---------------------------- MODULE Subscription ----------------------------
(* What a subscription to the events of an agent promises the goroutine     *)
(* that ranges over its channel (AgentHandle.Subscribe in                   *)
(* src/internal/process/types.go): events arrive in the order they were     *)
(* broadcast, an event is lost only when the channel is full, and the       *)
(* channel is closed once, for good, without losing what it holds. Who      *)
(* closes it, the subscriber, its context or the end of Pi, is left open.   *)
EXTENDS Naturals, Sequences

CONSTANT Cap \* events the channel holds

VARIABLES
    registered, \* the channel is in the map of subscribers
    chan,       \* the numbers of the events it holds
    closed,     \* it has been closed
    missed,     \* it was full when an event came by
    latest      \* the number of the last event broadcast

svars == <<registered, chan, closed, missed, latest>>

Init ==
    /\ registered = FALSE /\ chan = <<>> /\ closed = FALSE
    /\ missed = FALSE /\ latest = 0

Open ==
    /\ ~registered /\ ~closed
    /\ registered' = TRUE
    /\ UNCHANGED <<chan, closed, missed, latest>>

\* Broadcast event n, which the channel gets if it is registered and has room.
Offer(n) ==
    /\ n > latest
    /\ latest' = n
    /\ chan' = IF registered /\ Len(chan) < Cap THEN Append(chan, n) ELSE chan
    /\ missed' = (missed \/ (registered /\ Len(chan) >= Cap))
    /\ UNCHANGED <<registered, closed>>

Take ==
    /\ chan # <<>>
    /\ chan' = Tail(chan)
    /\ UNCHANGED <<registered, closed, missed, latest>>

End ==
    /\ registered
    /\ registered' = FALSE /\ closed' = TRUE
    /\ UNCHANGED <<chan, missed, latest>>

Next == Open \/ Offer(latest') \/ Take \/ End

Spec == Init /\ [][Next]_svars
=============================================================================
