--------------------------- MODULE SessionStream ---------------------------
(* handleSessionStream of src/internal/api/handler.go: a WebSocket          *)
(* connection served by two goroutines. The handler writes the events of a  *)
(* subscription to the client; the reader passes the client's aborts and UI *)
(* responses on to Pi. The path is whole: from the lines Pi writes, through *)
(* EventMapper and the channel of a Subscription, to the client, and back.  *)
(*                                                                          *)
(* Pi, its stdin pipe and the client are as seen from these goroutines: Pi  *)
(* may stop reading or answering, the client may stop reading or be gone,   *)
(* which the server learns only when the network tells it.                  *)
EXTENDS Integers, EventMapper

CONSTANTS
    PiLines,   \* lines Pi can write
    MaxLines,  \* bound on them
    MaxSent,   \* bound on what the client sends of its own accord
    SubBuf,    \* capacity of the subscriber channel
    NetCap,    \* frames the network takes before a write waits
    StdinCap   \* lines the stdin pipe holds

ASSUME StreamAssumption ==
    /\ \A l \in PiLines : l.shape \in Shapes
    /\ MaxLines \in Nat /\ MaxSent \in Nat
    /\ SubBuf \in Nat \ {0} /\ NetCap \in Nat \ {0} /\ StdinCap \in Nat \ {0}

VARIABLES
    lines, asking,                               \* Pi: written so far, waits for a UI response
    pi, stdin, aborting, aborted,                \* its process, its pipe, an abort on its way
    registered, chan, closed, missed, latest,    \* the Subscription
    shut, done, watcher,                         \* h.closed, h.done, the subscription's watcher
    handler, frame, ctxDone, conn,               \* the handler and what it owns
    reader, message,                             \* the reader and what it read
    client, inbox, outbox, sent, received, owes  \* the client and the network

piVars == <<lines, asking, pi, stdin, aborting, aborted>>
channelVars == <<registered, chan, closed, missed, latest>>
subVars == <<channelVars, shut, done, watcher>>
handlerVars == <<handler, frame, ctxDone, conn>>
readerVars == <<reader, message>>
clientVars == <<client, inbox, outbox, sent, received, owes>>
vars == <<piVars, subVars, handlerVars, readerVars, clientVars>>

Sub == INSTANCE Subscription WITH Cap <- SubBuf

Numbers == 1..MaxLines
\* "other" is a type the reader ignores, or a ui_response without an id.
Chatter == {"abort", "other", "not JSON"}
Forwarded == {"abort", "ui_response"}
Messages == Chatter \cup Forwarded

PiType ==
    /\ lines \in Seq(PiLines) /\ Len(lines) =< MaxLines /\ asking \in BOOLEAN
    /\ pi \in {"running", "exited"}
    /\ stdin \in Seq(Forwarded) /\ Len(stdin) =< StdinCap
    /\ aborting \in BOOLEAN /\ aborted \in BOOLEAN

ChannelType ==
    /\ registered \in BOOLEAN /\ closed \in BOOLEAN /\ missed \in BOOLEAN
    /\ chan \in Seq(Numbers) /\ Len(chan) =< SubBuf /\ latest \in 0..MaxLines
    /\ shut \in BOOLEAN /\ done \in BOOLEAN /\ watcher \in {"none", "watching", "gone"}

ServerType ==
    /\ handler \in {"subscribe", "select", "write", "unsubscribe", "cancel", "close", "done"}
    /\ frame \in 0..MaxLines /\ (handler = "write" <=> frame # 0)
    /\ ctxDone \in BOOLEAN /\ conn \in {"open", "broken", "closed"}
    /\ reader \in {"none", "read", "write", "wait", "ended"}
    /\ message \in Forwarded \cup {"none"} /\ (reader = "write" => message \in Forwarded)

ClientType ==
    /\ client \in {"here", "gone"}
    /\ inbox \in Seq(Messages) /\ outbox \in Seq(Numbers) /\ Len(outbox) =< NetCap
    /\ sent \in 0..MaxSent /\ received \in Seq(Numbers) /\ owes \in BOOLEAN

TypeOK == PiType /\ ChannelType /\ ServerType /\ ClientType

\* The connection has just been upgraded.
Init ==
    /\ lines = <<>> /\ asking = FALSE
    /\ pi = "running" /\ stdin = <<>> /\ aborting = FALSE /\ aborted = FALSE
    /\ Sub!Init /\ shut = FALSE /\ done = FALSE /\ watcher = "none"
    /\ handler = "subscribe" /\ frame = 0 /\ ctxDone = FALSE /\ conn = "open"
    /\ reader = "none" /\ message = "none"
    /\ client = "here" /\ inbox = <<>> /\ outbox = <<>>
    /\ sent = 0 /\ received = <<>> /\ owes = FALSE

---------------------------------------------------------------------------
(* The handler goroutine. The parent of ctx, the request's context, outlives *)
(* the handler once the connection is hijacked, so ctx.Done() is not among   *)
(* the cases that can end the loop; a failed ping is ignored.                *)

Become(state) == handler' = state

\* Subscribe starts the watcher; the reader goroutine is started after it.
Subscribe ==
    /\ handler = "subscribe"
    /\ Sub!Open
    /\ watcher' = "watching" /\ reader' = "read"
    /\ Become("select")
    /\ UNCHANGED <<shut, done, frame, ctxDone, conn, message, piVars, clientVars>>

SelectEvent ==
    /\ handler = "select" /\ chan # <<>>
    /\ frame' = Head(chan)
    /\ Sub!Take
    /\ Become("write")
    /\ UNCHANGED <<shut, done, watcher, ctxDone, conn, piVars, readerVars, clientVars>>

\* Mutated form of ChannelEnded: a closed channel is read on.
IgnoreClosed == FALSE
ChannelEnded == closed /\ chan = <<>>
\* Mutated form of ReaderEnded: readDone is not in the select.
IgnoreReadDone == FALSE
ReaderEnded == reader = "ended"

SelectEnd ==
    /\ handler = "select" /\ (ChannelEnded \/ ReaderEnded)
    /\ Become("unsubscribe")
    /\ UNCHANGED <<frame, ctxDone, conn, piVars, subVars, readerVars, clientVars>>

\* Mutated form of NetworkTakes: a frame that would have to wait is skipped.
NetworkTakesOrSkips == outbox' = IF Len(outbox) < NetCap THEN Append(outbox, frame) ELSE outbox
NetworkTakes == Len(outbox) < NetCap /\ outbox' = Append(outbox, frame)

\* There is no write deadline: WriteJSON waits for the network to take the frame.
WriteFrame ==
    /\ handler = "write"
    /\ \/ conn = "open" /\ NetworkTakes /\ Become("select")
       \/ /\ conn = "broken"
          /\ Become("unsubscribe")
          /\ UNCHANGED outbox
    /\ frame' = 0
    /\ UNCHANGED <<ctxDone, conn, piVars, subVars, readerVars,
                   client, inbox, sent, received, owes>>

\* The deferred calls: unsubscribe, cancel, conn.Close.
Unsubscribe ==
    \/ Sub!End
    \/ ~registered /\ UNCHANGED channelVars

HandlerUnsubscribes ==
    /\ handler = "unsubscribe"
    /\ Unsubscribe
    /\ Become("cancel")
    /\ UNCHANGED <<shut, done, watcher, frame, ctxDone, conn, piVars, readerVars, clientVars>>

\* Mutated form of CancelContext: the calls of the reader outlive the handler.
KeepContext == UNCHANGED ctxDone
CancelContext == ctxDone' = TRUE

HandlerCancels ==
    /\ handler = "cancel"
    /\ CancelContext
    /\ Become("close")
    /\ UNCHANGED <<frame, conn, piVars, subVars, readerVars, clientVars>>

HandlerCloses ==
    /\ handler = "close"
    /\ conn' = "closed"
    /\ Become("done")
    /\ UNCHANGED <<frame, ctxDone, piVars, subVars, readerVars, clientVars>>

WatcherFires ==
    /\ watcher = "watching" /\ (ctxDone \/ done)
    /\ Unsubscribe
    /\ watcher' = "gone"
    /\ UNCHANGED <<shut, done, piVars, handlerVars, readerVars, clientVars>>

---------------------------------------------------------------------------
(* The reader goroutine, which handles one message before it reads the next. *)

\* sendCommand and SendUIResponse refuse once Close or waitLoop has marked the
\* handle closed.
Refused == shut

ReadMessage ==
    /\ reader = "read" /\ inbox # <<>> /\ conn # "closed"
    /\ inbox' = Tail(inbox)
    /\ \/ Head(inbox) = "not JSON" /\ reader' = "ended" /\ UNCHANGED message
       \/ Head(inbox) # "not JSON" /\ (Head(inbox) = "other" \/ Refused) /\ UNCHANGED readerVars
       \/ /\ Head(inbox) \in Forwarded /\ ~Refused
          /\ reader' = "write" /\ message' = Head(inbox)
    /\ UNCHANGED <<piVars, subVars, handlerVars, client, outbox, sent, received, owes>>

\* What had arrived before the connection broke may still be read first.
ReadFails ==
    /\ reader = "read" /\ conn \in {"broken", "closed"}
    /\ reader' = "ended"
    /\ UNCHANGED <<message, piVars, subVars, handlerVars, clientVars>>

\* Mutated form of PassOn: a UI response is dropped.
PassOnAborts(m) == stdin' = IF m = "abort" THEN Append(stdin, m) ELSE stdin
PassOn(m) == stdin' = Append(stdin, m)

PipeHasRoom == Len(stdin) < StdinCap

\* The write into the pipe waits for room; cancelling the context does not end it.
WriteMessage ==
    /\ reader = "write"
    /\ \/ /\ pi = "running" /\ PipeHasRoom
          /\ PassOn(message)
          /\ reader' = IF message = "abort" THEN "wait" ELSE "read"
       \/ /\ pi = "exited"
          /\ reader' = "read"
          /\ UNCHANGED stdin
    /\ message' = "none"
    /\ UNCHANGED <<lines, asking, pi, aborting, aborted, subVars, handlerVars, clientVars>>

\* Abort waits for Pi's response, in the reader, unless ctx or Pi ends first.
AbortReturns ==
    /\ reader = "wait" /\ (aborted \/ ctxDone \/ done)
    /\ reader' = "read"
    /\ aborted' = FALSE
    /\ UNCHANGED <<lines, asking, pi, stdin, aborting, message, subVars, handlerVars, clientVars>>

---------------------------------------------------------------------------
(* Pi, and the goroutines of its handle.                                    *)

\* What Pi begins it finishes before it begins it again: the types of the
\* lines, and of the events a client learns it from.
Spans == [run        |-> [pi     |-> <<"agent_start", "agent_end">>,
                          client |-> <<"agent.run.start", "agent.run.end">>],
          compaction |-> [pi     |-> <<"compaction_start", "compaction_end">>,
                          client |-> <<"agent.compaction.start", "agent.compaction.end">>]]

\* In a sequence of types, the last start has no end after it.
Unfinished(types, span) ==
    \E i \in DOMAIN types :
        types[i] = span[1] /\ \A j \in i..Len(types) : types[j] # span[2]

LineTypes == [i \in DOMAIN lines |-> lines[i].type]

MayWrite(l) ==
    /\ \A x \in DOMAIN Spans :
         /\ l.type = Spans[x].pi[1] => ~Unfinished(LineTypes, Spans[x].pi)
         /\ l.type = Spans[x].pi[2] => Unfinished(LineTypes, Spans[x].pi)
    /\ l.type = "extension_ui_request" => ~asking

\* Pi writes a line and readLoop broadcasts what it maps to. A line still in
\* the stdout pipe counts as not written yet.
PiWrites(l) ==
    /\ pi = "running" /\ Len(lines) < MaxLines /\ MayWrite(l)
    /\ lines' = Append(lines, l)
    /\ asking' = (asking \/ l.type = "extension_ui_request")
    /\ IF EventsOf(l) # <<>> THEN Sub!Offer(Len(lines) + 1) ELSE UNCHANGED channelVars
    /\ UNCHANGED <<pi, stdin, aborting, aborted, shut, done, watcher,
                   handlerVars, readerVars, clientVars>>

PiTakes ==
    /\ pi = "running" /\ stdin # <<>>
    /\ stdin' = Tail(stdin)
    /\ aborting' = (aborting \/ Head(stdin) = "abort")
    /\ asking' = (asking /\ Head(stdin) # "ui_response")
    /\ UNCHANGED <<lines, pi, aborted, subVars, handlerVars, readerVars, clientVars>>

PiAnswersAbort ==
    /\ aborting
    /\ aborting' = FALSE /\ aborted' = (reader = "wait")
    /\ UNCHANGED <<lines, asking, pi, stdin, subVars, handlerVars, readerVars, clientVars>>

PiExits ==
    /\ pi = "running"
    /\ pi' = "exited"
    /\ stdin' = <<>> /\ aborting' = FALSE /\ asking' = FALSE
    /\ UNCHANGED <<lines, aborted, subVars, handlerVars, readerVars, clientVars>>

\* Close, which goes on until Pi is gone.
Close ==
    /\ ~shut
    /\ shut' = TRUE
    /\ UNCHANGED <<channelVars, done, watcher, piVars, handlerVars, readerVars, clientVars>>

\* waitLoop.
Drain ==
    /\ pi = "exited" /\ ~done
    /\ Unsubscribe
    /\ shut' = TRUE /\ done' = TRUE
    /\ UNCHANGED <<watcher, piVars, handlerVars, readerVars, clientVars>>

---------------------------------------------------------------------------
(* The client and the network.                                              *)

ClientSends(m) ==
    /\ client = "here" /\ sent < MaxSent
    /\ inbox' = Append(inbox, m) /\ sent' = sent + 1
    /\ UNCHANGED <<client, outbox, received, owes,
                   piVars, subVars, handlerVars, readerVars>>

ClientReceives ==
    /\ client = "here" /\ outbox # <<>>
    /\ outbox' = Tail(outbox)
    /\ received' = Append(received, Head(outbox))
    /\ owes' = (owes \/ EventsOf(lines[Head(outbox)]) = <<"agent.ui.request">>)
    /\ UNCHANGED <<client, inbox, sent, piVars, subVars, handlerVars, readerVars>>

ClientResponds ==
    /\ client = "here" /\ owes
    /\ inbox' = Append(inbox, "ui_response") /\ owes' = FALSE
    /\ UNCHANGED <<client, outbox, sent, received, piVars, subVars, handlerVars, readerVars>>

ClientLeaves ==
    /\ client = "here"
    /\ client' = "gone"
    /\ UNCHANGED <<inbox, outbox, sent, received, owes,
                   piVars, subVars, handlerVars, readerVars>>

\* A close frame, a reset, or a ping that is never acknowledged.
NetworkNotices ==
    /\ client = "gone" /\ conn = "open"
    /\ conn' = "broken"
    /\ UNCHANGED <<handler, frame, ctxDone, piVars, subVars, readerVars, clientVars>>

---------------------------------------------------------------------------
HandlerStep ==
    \/ Subscribe \/ SelectEvent \/ SelectEnd \/ WriteFrame
    \/ HandlerUnsubscribes \/ HandlerCancels \/ HandlerCloses

ReaderStep == ReadMessage \/ ReadFails \/ WriteMessage \/ AbortReturns

PiStep == (\E l \in PiLines : PiWrites(l)) \/ PiTakes \/ PiAnswersAbort \/ PiExits

ClientStep ==
    \/ \E m \in Chatter : ClientSends(m)
    \/ ClientReceives \/ ClientResponds \/ ClientLeaves

Finished == handler = "done" /\ reader = "ended" /\ watcher = "gone" /\ UNCHANGED vars

Next ==
    \/ HandlerStep \/ ReaderStep \/ WatcherFires \/ Close \/ Drain
    \/ PiStep \/ ClientStep \/ NetworkNotices \/ Finished

Spec == Init /\ [][Next]_vars

\* The Go scheduler runs every goroutine that can run, Close kills a Pi that
\* does not exit, cmd.Wait returns once it is gone, and the network reports a
\* dead connection in the end. Otherwise Pi and the client owe nothing.
Fairness ==
    /\ WF_vars(HandlerStep) /\ WF_vars(ReaderStep)
    /\ WF_vars(WatcherFires) /\ WF_vars(shut /\ PiExits) /\ WF_vars(Drain)
    /\ WF_vars(NetworkNotices)

FairSpec == Spec /\ Fairness

---------------------------------------------------------------------------
(* Properties.                                                              *)

\* The client receives events in the order Pi sent them, and none is missing
\* between two it received unless the channel was full in the meantime:
\* neither the select loop nor a write error leaves a hole.
GaplessUnlessFull ==
    \A k \in 1..Len(received) - 1 :
        /\ received[k] < received[k + 1]
        /\ missed \/ \A n \in received[k] + 1 .. received[k + 1] - 1 : EventsOf(lines[n]) = <<>>

\* A client that has received all there is to receive agrees with Pi on
\* whether a run or a compaction is under way, even when a line's fields are
\* not the ones the mapper expects.
ClientTypes == [k \in DOMAIN received |-> EventsOf(lines[received[k]])[1]]
UpToDate ==
    \A n \in DOMAIN lines :
        EventsOf(lines[n]) = <<>> \/ \E k \in DOMAIN received : received[k] = n
ClientViewAgrees ==
    UpToDate => \A x \in DOMAIN Spans :
        Unfinished(ClientTypes, Spans[x].client) <=> Unfinished(LineTypes, Spans[x].pi)

\* When the client is gone the stream ends, although neither the request's
\* context nor a ping says so, unless the reader is held for good by a Pi
\* that does not read its pipe or does not answer an abort.
StreamEnds ==
    [](client = "gone" => <>(handler = "done") \/ <>[](reader \in {"write", "wait"}))

\* The reader goroutine ends after the handler, whichever of an abort, a read
\* and a message it was at, unless it is held by a full pipe.
ReaderEnds ==
    [](handler = "done" => <>(reader = "ended") \/ <>[](reader = "write"))

\* When Pi exits the stream ends, after what the channel still held, unless
\* the client has stopped reading.
ExitEndsStream ==
    [](pi = "exited" => <>(handler = "done") \/ <>[](handler = "write"))

\* A UI request that went into the channel gets its response to Pi while the
\* stream lasts, if the client receives and responds and Pi reads its pipe and
\* answers aborts: no abort or other message overtakes it or holds it up.
Attentive ==
    WF_vars(ClientReceives) /\ WF_vars(ClientResponds) /\ WF_vars(PiTakes) /\ WF_vars(PiAnswersAbort)
Queued == \E k \in DOMAIN chan : EventsOf(lines[chan[k]]) = <<"agent.ui.request">>
UIRoundTrip ==
    Attentive => [](asking /\ Queued => <>(~asking \/ handler = "done" \/ client = "gone"))
=============================================================================
