----------------------------- MODULE Introspect -----------------------------
(* Boot-time introspection: introspect.Run as main calls it before it        *)
(* listens. It starts a Pi in a session-dir that every boot shares, asks it  *)
(* for its commands with a slash command, waits for the event that announces *)
(* the answer, reads the answer back from the transcript and closes the Pi,  *)
(* all under one timeout. The handle is used through the promise of          *)
(* CommandCalls; the events take the way of the handle: the stdout of Pi,    *)
(* which cmd.Wait closes, readLoop, and a channel that is closed when its    *)
(* context ends, when it is unsubscribed and after the exit of Pi.           *)
(*                                                                           *)
(* Definitions marked "Mutated form" are not part of the model: each is a    *)
(* plausible bug in the definition after it, which a property below catches. *)
EXTENDS Naturals, Sequences, SequencesExt

CONSTANTS
    Cap,       \* capacity of a subscriber channel, 128 in the code
    OutCap,    \* lines that the stdout of Pi holds before a write waits
    MaxOther   \* bound on the events of no interest that Pi emits

ASSUME IntrospectAssumption ==
    Cap \in Nat \ {0} /\ OutCap \in Nat \ {0} /\ MaxOther \in Nat

VARIABLES
    phase,       \* where Run is, "served" once it has returned
    result,      \* "none", "error", or the snapshot taken
    expired,     \* the 30 second context of Run is done
    harvester,   \* the goroutine that reads the events
    signalled,   \* its channel done is closed
    out,         \* the lines Pi has written that readLoop has not passed on
    chan, open,  \* the subscription
    dropped,     \* history: the announcement found the channel full or closed
    lost,        \* history: it was in the stdout that cmd.Wait closed
    pi, extension, job, transcript, others \* Pi and its session-dir

runVars == <<phase, result, signalled, harvester>>
piVars == <<pi, extension, job, transcript, others>>
eventVars == <<out, chan, open, dropped, lost>>
vars == <<runVars, expired, eventVars, piVars>>

\* A transcript holds snapshots: of an earlier boot, of this one.
Snapshots == {"earlier", "this"}
Events == {"other", "snapshot", "runEnd"}

TypeOK ==
    /\ phase \in {"start", "subscribe", "send", "sent", "wait", "read",
                  "unsubscribe", "close", "closing", "served"}
    /\ result \in Snapshots \cup {"none", "error"}
    /\ expired \in BOOLEAN /\ signalled \in BOOLEAN
    /\ open \in BOOLEAN /\ dropped \in BOOLEAN /\ lost \in BOOLEAN
    /\ harvester \in {"none", "reading", "gone"}
    /\ chan \in Seq(Events) /\ Len(chan) =< Cap
    /\ out \in Seq(Events) /\ Len(out) =< OutCap
    /\ pi \in {"none", "running", "closing", "exited", "reaped", "done"} /\ extension \in BOOLEAN
    /\ job \in {"none", "asked", "command", "run", "refused", "finished"}
    /\ transcript \in Seq(Snapshots)
    /\ others \in 0..MaxOther

Init ==
    /\ phase = "start" /\ result = "none" /\ expired = FALSE
    /\ signalled = FALSE /\ harvester = "none"
    /\ out = <<>> /\ chan = <<>> /\ open = FALSE /\ dropped = FALSE /\ lost = FALSE
    /\ pi = "none" /\ extension \in BOOLEAN /\ job = "none"
    /\ transcript \in {<<>>, <<"earlier">>}
    /\ others = 0

---------------------------------------------------------------------------
(* Run.                                                                      *)

Goto(p) == phase' = p /\ UNCHANGED <<result, signalled, harvester>>

\* Mutated form of Bail: an error returns without the deferred calls.
BailAtOnce == phase' = "served"
Bail == phase' = "unsubscribe"
FailRun == Bail /\ result' = "error" /\ UNCHANGED <<signalled, harvester>>

Start ==
    /\ phase = "start"
    /\ \/ Goto("subscribe") /\ pi' = "running" /\ UNCHANGED expired
       \/ /\ phase' = "served" /\ result' = "error" /\ expired' = TRUE
          /\ UNCHANGED <<signalled, harvester, pi>>
    /\ UNCHANGED <<eventVars, extension, job, transcript, others>>

Subscribe ==
    /\ phase = "subscribe"
    /\ phase' = "send" /\ open' = TRUE /\ harvester' = "reading"
    /\ UNCHANGED <<result, signalled, expired, out, chan, dropped, lost, piVars>>

SendPrompt ==
    /\ phase = "send"
    /\ Goto("sent")
    /\ job' = IF pi = "running" THEN "asked" ELSE job
    /\ UNCHANGED <<expired, eventVars, pi, extension, transcript, others>>

\* Mutated form of TimedOut: the context is not in the select.
NoTimeout == FALSE
TimedOut == expired

\* Prompt succeeds when Pi took the prompt, and may when Pi has exited.
Gone == pi \in {"exited", "reaped", "done"}
PromptReturns ==
    /\ phase = "sent"
    /\ \/ job \in {"command", "run", "finished"} /\ Goto("wait")
       \/ Gone /\ Goto("wait")
       \/ (Gone \/ job = "refused" \/ TimedOut) /\ FailRun
    /\ UNCHANGED <<expired, eventVars, piVars>>

Wait ==
    /\ phase = "wait"
    /\ \/ signalled /\ Goto("read")
       \/ TimedOut /\ FailRun
    /\ UNCHANGED <<expired, eventVars, piVars>>

\* Mutated form of ParseIntrospectMessage: the transcript is walked forwards.
ParseFromStart(messages) == Head(messages)
ParseIntrospectMessage(messages) == Last(messages)

\* GetMessagesRaw, an error of which fails the run, and the parse.
Read ==
    /\ phase = "read"
    /\ \/ /\ pi = "running" /\ transcript # <<>>
          /\ result' = ParseIntrospectMessage(transcript)
          /\ phase' = "unsubscribe"
          /\ UNCHANGED <<signalled, harvester>>
       \/ FailRun
    /\ UNCHANGED <<expired, eventVars, piVars>>

\* The deferred calls, last first: unsubscribe, then Close, of at most 3 seconds.
Unsubscribe ==
    /\ phase = "unsubscribe"
    /\ Goto("close") /\ open' = FALSE
    /\ UNCHANGED <<expired, out, chan, dropped, lost, piVars>>

Close ==
    /\ phase = "close"
    /\ Goto("closing")
    /\ pi' = IF pi = "running" THEN "closing" ELSE pi
    /\ UNCHANGED <<expired, eventVars, extension, job, transcript, others>>

\* Close returns when Pi has exited or after it has been killed. main goes on,
\* with a snapshot or without, after it has cancelled the context of Run.
CloseReturns ==
    /\ phase = "closing"
    /\ Goto("served") /\ expired' = TRUE
    /\ UNCHANGED <<eventVars, piVars>>

Expire ==
    /\ ~expired
    /\ expired' = TRUE
    /\ UNCHANGED <<runVars, eventVars, piVars>>

---------------------------------------------------------------------------
(* The harvester, and the watcher of its subscription.                       *)

\* Mutated form of Announces: only the end of a run is waited for.
RunEndOnly(e) == e = "runEnd"
Announces(e) == e \in {"snapshot", "runEnd"}

\* Mutated form of ChannelEnds: an ended channel is read again.
NeverEnds == FALSE
ChannelEnds == ~open /\ chan = <<>>

Harvest ==
    /\ harvester = "reading"
    /\ \/ /\ chan # <<>>
          /\ chan' = Tail(chan)
          /\ IF Announces(Head(chan)) THEN signalled' = TRUE /\ harvester' = "gone"
                                      ELSE UNCHANGED <<signalled, harvester>>
       \/ /\ ChannelEnds
          /\ harvester' = "gone"
          /\ UNCHANGED <<chan, signalled>>
    /\ UNCHANGED <<phase, result, expired, out, open, dropped, lost, piVars>>

WatcherUnsubscribes ==
    /\ open /\ (expired \/ pi = "done")
    /\ open' = FALSE
    /\ UNCHANGED <<runVars, expired, out, chan, dropped, lost, piVars>>

---------------------------------------------------------------------------
(* Pi. With the extension installed the prompt is a command, which records a *)
(* snapshot and announces it; without, it is a prompt like any other, whose  *)
(* run comes to an end.                                                      *)

PiTakesPrompt ==
    /\ pi = "running" /\ job = "asked"
    /\ job' \in {"refused", IF extension THEN "command" ELSE "run"}
    /\ UNCHANGED <<runVars, expired, eventVars, pi, extension, transcript, others>>

PrintsLine(e) ==
    /\ Len(out) < OutCap
    /\ out' = Append(out, e)
    /\ UNCHANGED <<chan, open, dropped, lost>>

PiAnnounces ==
    /\ pi = "running" /\ job \in {"command", "run"}
    /\ job' = "finished"
    /\ PrintsLine(IF job = "command" THEN "snapshot" ELSE "runEnd")
    /\ transcript' = IF job = "command" THEN Append(transcript, "this") ELSE transcript
    /\ UNCHANGED <<runVars, expired, pi, extension, others>>

PiEmitsOther ==
    /\ pi = "running" /\ others < MaxOther
    /\ others' = others + 1
    /\ PrintsLine("other")
    /\ UNCHANGED <<runVars, expired, pi, extension, job, transcript>>

PiExits ==
    /\ pi \in {"running", "closing"}
    /\ pi' = "exited"
    /\ UNCHANGED <<runVars, expired, eventVars, extension, job, transcript, others>>

---------------------------------------------------------------------------
(* readLoop and waitLoop of the handle.                                      *)

\* readLoop passes a line on to the channel, which misses it when it is full or
\* closed. What it has buffered it passes on after the exit of Pi too.
ReadLine ==
    /\ out # <<>>
    /\ out' = Tail(out)
    /\ IF open /\ Len(chan) < Cap
       THEN chan' = Append(chan, Head(out)) /\ UNCHANGED dropped
       ELSE UNCHANGED chan /\ dropped' = (dropped \/ Head(out) # "other")
    /\ UNCHANGED <<runVars, expired, open, lost, piVars>>

\* cmd.Wait closes stdout as soon as Pi has exited: lines that readLoop has not
\* taken in by then are gone.
Reap ==
    /\ pi = "exited"
    /\ pi' = "reaped"
    /\ \E k \in 0..Len(out) :
         /\ out' = SubSeq(out, 1, k)
         /\ lost' = (lost \/ \E j \in k + 1..Len(out) : out[j] # "other")
    /\ UNCHANGED <<runVars, expired, chan, open, dropped, extension, job, transcript, others>>

\* waitLoop closes the subscriptions that are there, then done.
Drain ==
    /\ pi = "reaped"
    /\ pi' = "done" /\ open' = FALSE
    /\ UNCHANGED <<runVars, expired, out, chan, dropped, lost, extension, job, transcript, others>>

---------------------------------------------------------------------------
RunStep ==
    Start \/ Subscribe \/ SendPrompt \/ PromptReturns \/ Wait \/ Read
    \/ Unsubscribe \/ Close \/ CloseReturns
Next ==
    \/ RunStep \/ Expire
    \/ Harvest \/ WatcherUnsubscribes
    \/ PiTakesPrompt \/ PiAnnounces \/ PiEmitsOther \/ PiExits
    \/ ReadLine \/ Reap \/ Drain

Spec == Init /\ [][Next]_vars

\* The goroutines of the server run and its timer fires; Pi may do nothing at
\* all until it is closed.
FairSpec ==
    /\ Spec
    /\ WF_vars(RunStep) /\ WF_vars(Expire)
    /\ WF_vars(Harvest) /\ WF_vars(WatcherUnsubscribes)
    /\ WF_vars(ReadLine) /\ WF_vars(Reap \/ Drain)
    /\ WF_vars(pi = "closing" /\ PiExits)

---------------------------------------------------------------------------
(* Properties.                                                               *)

\* When Run has returned, with a snapshot or with an error, at a moment of its
\* own or of the timer's choosing, its Pi has exited or is being closed.
NoPiLeftBehind == phase = "served" => pi # "running"

\* With the extension installed a snapshot served is one taken in this boot,
\* whatever earlier boots left in the session-dir.
SnapshotOfThisBoot == extension => result # "earlier"

\* Once the command or the run is over Run waits in vain, until its timer, only if
\* the announcement found the channel full or closed, or was still in the stdout
\* that cmd.Wait closed after the exit of Pi: else it is on the way to the
\* harvester or has reached it.
NoVainWait ==
    phase = "wait" /\ job = "finished" =>
        \/ signalled
        \/ \E k \in 1..Len(chan) : chan[k] # "other"
        \/ \E k \in 1..Len(out) : out[k] # "other"
        \/ dropped \/ lost

\* The server starts, however Pi behaves.
BootEnds == <>(phase = "served")

\* The harvester does not outlive the boot.
HarvesterEnds == phase = "served" ~> harvester # "reading"
=============================================================================
