---------------------------- MODULE AgentHandle ----------------------------
(* The rpcHandle of src/internal/process/rpc_manager.go: one Pi subprocess  *)
(* driven over its stdin and stdout by the goroutines of the server.        *)
(*                                                                          *)
(* A section under h.mu never blocks, so it is one atomic step; h.writeMu   *)
(* is held across a write that may block, so it is a variable. A request    *)
(* "req-<n>" is the number n, its response channel (capacity 1) is          *)
(* respBuf[n] and respClosed[n]; a subscription is a member of Subs.        *)
(*                                                                          *)
(* Definitions marked "Mutated form" are not part of the model: each is a   *)
(* plausible bug in the definition after it, which a property catches.      *)
EXTENDS Integers, Sequences

CONSTANTS
    Callers,      \* goroutines that call Prompt, Abort, GetState, GetMessages...
    Subs,         \* subscriptions, each made at most once (nextSubID only grows)
    Closers,      \* goroutines that call Close, each at most once
    Nobody,       \* h.writeMu when it is free
    MaxRequests,  \* bound on nextID
    MaxEvents,    \* bound on the events Pi emits
    StdinCap,     \* lines the stdin pipe holds
    StdoutCap,    \* lines the stdout pipe holds
    SubBuf,       \* capacity of a subscriber channel (128 in the code)
    PiReplies     \* what Pi's responses may say

\* What a response says: success is a *bool, so it may also be absent; the data of
\* a query may be missing or not decode. Of a refusal nothing else is looked at.
Reply == {r \in [success: {"true", "false", "absent"}, decodes: BOOLEAN] :
             r.success = "false" => ~r.decodes}
NoReply == [success |-> "none", decodes |-> FALSE]

ASSUME BoundsAssumption ==
    /\ MaxRequests \in Nat /\ MaxEvents \in Nat
    /\ StdinCap \in Nat \ {0} /\ StdoutCap \in Nat \ {0} /\ SubBuf \in Nat \ {0}
    /\ Nobody \notin Callers
    /\ PiReplies \subseteq Reply

ReqIds == 1..MaxRequests
UIMessage == 0                      \* an extension_ui_response line on stdin
Response == [kind: {"response"}, id: ReqIds, reply: Reply]
Event == [kind: {"event"}, n: 1..MaxEvents]
NoEnv == [kind |-> "none"]

VARIABLES
    closed, nextID, pending, respBuf, respClosed, done, writeMu, \* rpcHandle
    pc, req, ctxDone,                              \* the callers
    subscribers, subChan, subClosed,               \* h.subscribers, its channels
    consumer, watcher, subCtx,                     \* the goroutines of a subscription
    closer,                                        \* the callers of Close
    reader, readerEnv, waiter,                     \* readLoop and waitLoop
    pi, signal, stdin, working, stdout, emitted, \* the Pi process
    op, answered, outcome, missed, broadcast \* history

handleVars == <<closed, nextID, pending, respBuf, respClosed, done>>
callVars == <<pc, req, ctxDone>>
subVars == <<subscribers, subChan, subClosed, consumer, watcher, subCtx, missed>>
loopVars == <<reader, readerEnv, waiter, broadcast>>
piVars == <<pi, signal, stdin, working, stdout, emitted, answered>>
callHistory == <<op, outcome>>
vars == <<handleVars, callVars, subVars, loopVars, piVars, callHistory, writeMu, closer>>

HandleType ==
    /\ closed \in BOOLEAN /\ done \in BOOLEAN
    /\ nextID \in 0..MaxRequests
    /\ pending \subseteq ReqIds
    /\ respBuf \in [ReqIds -> Response \cup {NoEnv}]
    /\ respClosed \in [ReqIds -> BOOLEAN]
    /\ writeMu \in Callers \cup {Nobody}

CallType ==
    /\ pc \in [Callers -> {"idle", "register", "lock", "write", "wait", "remove"}]
    /\ req \in [Callers -> ReqIds \cup {UIMessage}]
    /\ \A c \in Callers : pc[c] \in {"register", "wait", "remove"} => req[c] \in ReqIds
    /\ ctxDone \in [Callers -> BOOLEAN]
    /\ op \in [ReqIds -> {"none", "prompt", "query"}]
    /\ outcome \in [ReqIds -> {"none", "ok", "error"}]

SubType ==
    /\ subscribers \subseteq Subs
    /\ subChan \in [Subs -> Seq(1..MaxEvents)]
    /\ \A s \in Subs : Len(subChan[s]) =< SubBuf
    /\ subClosed \in [Subs -> BOOLEAN]
    /\ consumer \in [Subs -> {"idle", "reading", "ended"}]
    /\ watcher \in [Subs -> {"none", "watching", "firing", "gone"}]
    /\ subCtx \in [Subs -> BOOLEAN]
    /\ missed \in [Subs -> BOOLEAN]
    /\ closer \in [Closers -> {"idle", "signal", "wait", "returned"}]

LoopType ==
    /\ reader \in {"read", "send", "close", "stopped"}
    /\ readerEnv \in Response \cup {NoEnv}
    /\ reader \in {"send", "close"} => readerEnv \in Response
    /\ waiter \in {"wait", "drain", "close", "gone"}
    /\ broadcast \in 0..MaxEvents

PiType ==
    /\ pi \in {"running", "exited"}
    /\ signal \in {"none", "interrupt", "kill"}
    /\ stdin \in Seq(ReqIds \cup {UIMessage}) /\ Len(stdin) =< StdinCap
    /\ working \subseteq ReqIds
    /\ stdout \in Seq(Response \cup Event) /\ Len(stdout) =< StdoutCap
    /\ emitted \in 0..MaxEvents
    /\ answered \in [ReqIds -> Reply \cup {NoReply}]

TypeOK == HandleType /\ CallType /\ SubType /\ LoopType /\ PiType

\* A handle just returned by Start: Pi runs and the loops have been started.
Init ==
    /\ closed = FALSE /\ nextID = 0 /\ pending = {} /\ done = FALSE
    /\ respBuf = [i \in ReqIds |-> NoEnv]
    /\ respClosed = [i \in ReqIds |-> FALSE]
    /\ writeMu = Nobody
    /\ pc = [c \in Callers |-> "idle"]
    /\ req = [c \in Callers |-> UIMessage]
    /\ ctxDone = [c \in Callers |-> FALSE]
    /\ subscribers = {}
    /\ subChan = [s \in Subs |-> <<>>]
    /\ subClosed = [s \in Subs |-> FALSE]
    /\ consumer = [s \in Subs |-> "idle"]
    /\ watcher = [s \in Subs |-> "none"]
    /\ subCtx = [s \in Subs |-> FALSE]
    /\ closer = [x \in Closers |-> "idle"]
    /\ reader = "read" /\ readerEnv = NoEnv /\ waiter = "wait"
    /\ pi = "running" /\ signal = "none"
    /\ stdin = <<>> /\ working = {} /\ stdout = <<>> /\ emitted = 0
    /\ op = [i \in ReqIds |-> "none"]
    /\ answered = [i \in ReqIds |-> NoReply]
    /\ outcome = [i \in ReqIds |-> "none"]
    /\ missed = [s \in Subs |-> FALSE]
    /\ broadcast = 0

---------------------------------------------------------------------------
(* sendCommand and SendUIResponse. "prompt" stands for Prompt and Abort,    *)
(* which ignore the response; "query" for GetState and GetMessages, which   *)
(* decode it.                                                               *)

Goto(c, label) == pc' = [pc EXCEPT ![c] = label]

Return(c, result) ==
    /\ Goto(c, "idle")
    /\ outcome' = IF req[c] = UIMessage THEN outcome
                  ELSE [outcome EXCEPT ![req[c]] = result]

\* Mutated form of TakeId: the id is not taken, so the next request reuses it.
ReuseId == UNCHANGED nextID
TakeId == nextID' = nextID + 1

\* The id is taken with an atomic add, before h.mu.
StartCommand(c, kind) ==
    /\ pc[c] = "idle" /\ nextID < MaxRequests
    /\ TakeId
    /\ req' = [req EXCEPT ![c] = nextID + 1]
    /\ ctxDone' = [ctxDone EXCEPT ![c] = FALSE]
    /\ op' = [op EXCEPT ![nextID + 1] = kind]
    /\ Goto(c, "register")
    /\ UNCHANGED <<closed, pending, respBuf, respClosed, done, outcome,
                   subVars, loopVars, piVars, writeMu, closer>>

\* Mutated form of Refuses: closed is not looked at.
RefusesNever == FALSE
Refuses == closed

Register(c) ==
    /\ pc[c] = "register"
    /\ \/ Refuses /\ Return(c, "error") /\ UNCHANGED pending
       \/ ~Refuses /\ pending' = pending \cup {req[c]} /\ Goto(c, "lock")
                  /\ UNCHANGED outcome
    /\ UNCHANGED <<closed, nextID, respBuf, respClosed, done, req, ctxDone, op,
                   subVars, loopVars, piVars, writeMu, closer>>

\* SendUIResponse looks at closed, releases h.mu, then writes; it has no request.
StartUIResponse(c) ==
    /\ pc[c] = "idle" /\ ~closed
    /\ req' = [req EXCEPT ![c] = UIMessage]
    /\ ctxDone' = [ctxDone EXCEPT ![c] = FALSE]
    /\ Goto(c, "lock")
    /\ UNCHANGED <<handleVars, subVars, loopVars, piVars, callHistory, writeMu, closer>>

LockWrite(c) ==
    /\ pc[c] = "lock" /\ writeMu = Nobody
    /\ writeMu' = c
    /\ Goto(c, "write")
    /\ UNCHANGED <<handleVars, req, ctxDone, subVars, loopVars, piVars, callHistory, closer>>

\* Mutated form of PipeHasRoom: a write never has to wait.
PipeIsUnbounded == TRUE
PipeHasRoom == Len(stdin) < StdinCap
\* Mutated form of UnlockWrite: a failed write keeps h.writeMu.
UnlockOnSuccess == writeMu' = IF pi = "running" THEN Nobody ELSE writeMu
UnlockWrite == writeMu' = Nobody

\* The write waits for room in the pipe whatever the context says; a dead Pi
\* breaks the pipe and ends it with an error.
Write(c) ==
    /\ pc[c] = "write"
    /\ \/ /\ pi = "running" /\ PipeHasRoom
          /\ stdin' = Append(stdin, req[c])
          /\ Goto(c, IF req[c] = UIMessage THEN "idle" ELSE "wait")
       \/ /\ pi = "exited"
          /\ Goto(c, IF req[c] = UIMessage THEN "idle" ELSE "remove")
          /\ UNCHANGED stdin
    /\ UnlockWrite
    /\ UNCHANGED <<handleVars, req, ctxDone, subVars, loopVars, closer, callHistory,
                   pi, signal, working, stdout, emitted, answered>>

Wakes(c) == ctxDone[c] \/ done
\* Mutated form of GoRemovePending: the call returns and leaves its entry.
AbandonPending(c) == Goto(c, "idle")
GoRemovePending(c) == Goto(c, "remove")

\* select: the context is done, or the process is.
GiveUp(c) ==
    /\ pc[c] = "wait" /\ Wakes(c)
    /\ GoRemovePending(c)
    /\ UNCHANGED <<handleVars, req, ctxDone, subVars, loopVars, piVars, callHistory,
                   writeMu, closer>>

Refused(reply) == reply.success = "false"

\* GetState and GetMessages fail on a success whose data they cannot decode.
Verdict(kind, reply) ==
    IF Refused(reply) \/ (kind = "query" /\ ~reply.decodes) THEN "error" ELSE "ok"

\* select: an envelope was received.
TakeResponse(c) ==
    /\ pc[c] = "wait" /\ respBuf[req[c]] # NoEnv
    /\ respBuf' = [respBuf EXCEPT ![req[c]] = NoEnv]
    /\ Return(c, Verdict(op[req[c]], respBuf[req[c]].reply))
    /\ UNCHANGED <<closed, nextID, pending, respClosed, done, req, ctxDone, op,
                   subVars, loopVars, piVars, writeMu, closer>>

ZeroOutcome(c) == IF op[req[c]] = "prompt" THEN "ok" ELSE "error"

\* select: the channel is closed and empty, so the zero envelope is received.
\* Its nil Success is no failure to Prompt and Abort; a query cannot decode it.
TakeZero(c) ==
    /\ pc[c] = "wait" /\ respBuf[req[c]] = NoEnv /\ respClosed[req[c]]
    /\ Return(c, ZeroOutcome(c))
    /\ UNCHANGED <<handleVars, req, ctxDone, op, subVars, loopVars, piVars, writeMu, closer>>

RemovePending(c) ==
    /\ pc[c] = "remove"
    /\ pending' = pending \ {req[c]}
    /\ Return(c, "error")
    /\ UNCHANGED <<closed, nextID, respBuf, respClosed, done, req, ctxDone, op,
                   subVars, loopVars, piVars, writeMu, closer>>

CancelCall(c) ==
    /\ pc[c] # "idle" /\ ~ctxDone[c]
    /\ ctxDone' = [ctxDone EXCEPT ![c] = TRUE]
    /\ UNCHANGED <<handleVars, pc, req, subVars, loopVars, piVars, callHistory, writeMu, closer>>

---------------------------------------------------------------------------
(* Subscribe, its watcher goroutine and the goroutine that drains the       *)
(* channel. Subscribe does not look at closed.                              *)

Subscribe(s) ==
    /\ consumer[s] = "idle"
    /\ subscribers' = subscribers \cup {s}
    /\ consumer' = [consumer EXCEPT ![s] = "reading"]
    /\ watcher' = [watcher EXCEPT ![s] = "watching"]
    /\ UNCHANGED <<subChan, subClosed, subCtx, missed, handleVars, callVars, loopVars,
                   piVars, callHistory, writeMu, closer>>

Unsubscribe(s) ==
    /\ subscribers' = subscribers \ {s}
    /\ subClosed' = IF s \in subscribers THEN [subClosed EXCEPT ![s] = TRUE] ELSE subClosed

CancelSubscription(s) ==
    /\ watcher[s] # "none" /\ ~subCtx[s]
    /\ subCtx' = [subCtx EXCEPT ![s] = TRUE]
    /\ UNCHANGED <<subscribers, subChan, subClosed, consumer, watcher, missed,
                   handleVars, callVars, loopVars, piVars, callHistory, writeMu, closer>>

\* Mutated form of WatcherSees: done is not in the select.
WatcherIgnoresExit(s) == subCtx[s]
WatcherSees(s) == subCtx[s] \/ done

WatcherWakes(s) ==
    /\ watcher[s] = "watching" /\ WatcherSees(s)
    /\ watcher' = [watcher EXCEPT ![s] = "firing"]
    /\ UNCHANGED <<subscribers, subChan, subClosed, consumer, subCtx, missed,
                   handleVars, callVars, loopVars, piVars, callHistory, writeMu, closer>>

WatcherUnsubscribes(s) ==
    /\ watcher[s] = "firing"
    /\ Unsubscribe(s)
    /\ watcher' = [watcher EXCEPT ![s] = "gone"]
    /\ UNCHANGED <<subChan, consumer, subCtx, missed,
                   handleVars, callVars, loopVars, piVars, callHistory, writeMu, closer>>

Receive(s) ==
    /\ consumer[s] = "reading" /\ subChan[s] # <<>>
    /\ subChan' = [subChan EXCEPT ![s] = Tail(@)]
    /\ UNCHANGED <<subscribers, subClosed, consumer, watcher, subCtx, missed,
                   handleVars, callVars, loopVars, piVars, callHistory, writeMu, closer>>

\* The consumer calls unsubscribe itself, on its own account or because the
\* channel was closed under it.
ConsumerEnds(s) ==
    /\ consumer[s] = "reading"
    /\ Unsubscribe(s)
    /\ consumer' = [consumer EXCEPT ![s] = "ended"]
    /\ UNCHANGED <<subChan, watcher, subCtx, missed,
                   handleVars, callVars, loopVars, piVars, callHistory, writeMu, closer>>

---------------------------------------------------------------------------
(* Close.                                                                   *)

\* Mutated form of MarkClosed: Close closes the response channels itself.
CloseCutsCalls ==
    /\ closed' = TRUE
    /\ respClosed' = [i \in ReqIds |-> respClosed[i] \/ i \in pending]
    /\ pending' = {}
MarkClosed == closed' = TRUE /\ UNCHANGED <<respClosed, pending>>

CloseBegin(x) ==
    /\ closer[x] = "idle"
    /\ closer' = [closer EXCEPT ![x] = IF closed THEN "returned" ELSE "signal"]
    /\ MarkClosed
    /\ UNCHANGED <<nextID, respBuf, done, callVars, subVars, loopVars, piVars, callHistory, writeMu>>

Signalled(s) == signal' = IF pi = "running" /\ signal # "kill" THEN s ELSE signal

CloseSignal(x) ==
    /\ closer[x] = "signal"
    /\ Signalled("interrupt")
    /\ closer' = [closer EXCEPT ![x] = "wait"]
    /\ UNCHANGED <<handleVars, callVars, subVars, loopVars, callHistory, writeMu,
                   pi, stdin, working, stdout, emitted, answered>>

\* Mutated form of Kill: a process that ignores the interrupt is left alone.
NoKill == UNCHANGED signal
Kill == Signalled("kill")

\* select: done; or the context or the 3 second timer, and then Kill.
CloseReturn(x) ==
    /\ closer[x] = "wait"
    /\ \/ done /\ UNCHANGED signal
       \/ Kill
    /\ closer' = [closer EXCEPT ![x] = "returned"]
    /\ UNCHANGED <<handleVars, callVars, subVars, loopVars, callHistory, writeMu,
                   pi, stdin, working, stdout, emitted, answered>>

---------------------------------------------------------------------------
(* readLoop. Taking a line off the pipe and looking it up are one step: no  *)
(* one else reads the pipe.                                                 *)

\* Mutated form of DeleteEntry: the entry of an answered request stays.
KeepEntry(i) == UNCHANGED pending
DeleteEntry(i) == pending' = pending \ {i}

ReadResponse ==
    /\ reader = "read" /\ stdout # <<>> /\ Head(stdout) \in Response
    /\ stdout' = Tail(stdout)
    /\ LET env == Head(stdout) IN
         IF env.id \in pending
         THEN DeleteEntry(env.id) /\ readerEnv' = env /\ reader' = "send"
         ELSE UNCHANGED <<pending, readerEnv, reader>>
    /\ UNCHANGED <<closed, nextID, respBuf, respClosed, done, waiter, broadcast,
                   callVars, subVars, callHistory, writeMu, closer,
                   pi, signal, stdin, working, emitted, answered>>

ReaderSends ==
    /\ reader = "send"
    /\ respBuf' = [respBuf EXCEPT ![readerEnv.id] = readerEnv]
    /\ reader' = "close"
    /\ UNCHANGED <<closed, nextID, pending, respClosed, done, readerEnv, waiter, broadcast,
                   callVars, subVars, piVars, callHistory, writeMu, closer>>

ReaderCloses ==
    /\ reader = "close"
    /\ respClosed' = [respClosed EXCEPT ![readerEnv.id] = TRUE]
    /\ reader' = "read" /\ readerEnv' = NoEnv
    /\ UNCHANGED <<closed, nextID, pending, respBuf, done, waiter, broadcast,
                   callVars, subVars, piVars, callHistory, writeMu, closer>>

\* Mutated form of HasRoom: the last place of the channel is not used.
HasRoomToSpare(s) == Len(subChan[s]) < SubBuf - 1
HasRoom(s) == Len(subChan[s]) < SubBuf
Reaches(s) == s \in subscribers /\ HasRoom(s)

\* broadcastGatewayEvent: a full channel misses the event.
ReadEvent ==
    /\ reader = "read" /\ stdout # <<>> /\ Head(stdout) \in Event
    /\ stdout' = Tail(stdout)
    /\ broadcast' = Head(stdout).n
    /\ subChan' = [s \in Subs |-> IF Reaches(s)
                                 THEN Append(subChan[s], Head(stdout).n)
                                 ELSE subChan[s]]
    /\ missed' = [s \in Subs |-> missed[s] \/ (s \in subscribers /\ ~HasRoom(s))]
    /\ UNCHANGED <<handleVars, callVars, callHistory, writeMu, closer,
                   subscribers, subClosed, consumer, watcher, subCtx,
                   reader, readerEnv, waiter,
                   pi, signal, stdin, working, emitted, answered>>

ReaderStops ==
    /\ reader = "read" /\ stdout = <<>> /\ pi = "exited"
    /\ reader' = "stopped"
    /\ UNCHANGED <<handleVars, callVars, subVars, readerEnv, waiter, broadcast, piVars,
                   callHistory, writeMu, closer>>

(* waitLoop.                                                                *)

\* cmd.Wait closes the read end of stdout while readLoop may be reading it:
\* only the lines already in readLoop's buffer survive.
Reap ==
    /\ waiter = "wait" /\ pi = "exited"
    /\ waiter' = "drain"
    /\ \E kept \in 0..Len(stdout) : stdout' = SubSeq(stdout, 1, kept)
    /\ UNCHANGED <<handleVars, callVars, subVars, reader, readerEnv, broadcast, callHistory,
                   writeMu, closer, pi, signal, stdin, working, emitted, answered>>

Drain ==
    /\ waiter = "drain"
    /\ respClosed' = [i \in ReqIds |-> respClosed[i] \/ i \in pending]
    /\ pending' = {}
    /\ subClosed' = [s \in Subs |-> subClosed[s] \/ s \in subscribers]
    /\ subscribers' = {}
    /\ closed' = TRUE
    /\ waiter' = "close"
    /\ UNCHANGED <<nextID, respBuf, done, callVars, subChan, consumer, watcher, subCtx,
                   missed, reader, readerEnv, broadcast, piVars, callHistory,
                   writeMu, closer>>

CloseDone ==
    /\ waiter = "close"
    /\ done' = TRUE
    /\ waiter' = "gone"
    /\ UNCHANGED <<closed, nextID, pending, respBuf, respClosed, callVars, subVars,
                   reader, readerEnv, broadcast, piVars, callHistory, writeMu, closer>>

---------------------------------------------------------------------------
(* The Pi process, which is not part of the repository.                     *)

PiTakes ==
    /\ pi = "running" /\ stdin # <<>>
    /\ stdin' = Tail(stdin)
    /\ working' = working \cup ({Head(stdin)} \ {UIMessage})
    /\ UNCHANGED <<handleVars, callVars, subVars, loopVars, callHistory, writeMu, closer,
                   pi, signal, stdout, emitted, answered>>

PiAnswers(i, reply) ==
    /\ pi = "running" /\ i \in working /\ Len(stdout) < StdoutCap
    /\ working' = working \ {i}
    /\ stdout' = Append(stdout, [kind |-> "response", id |-> i, reply |-> reply])
    /\ answered' = [answered EXCEPT ![i] = reply]
    /\ UNCHANGED <<handleVars, callVars, subVars, loopVars, callHistory, writeMu, closer,
                   pi, signal, stdin, emitted>>

PiEmits ==
    /\ pi = "running" /\ emitted < MaxEvents /\ Len(stdout) < StdoutCap
    /\ emitted' = emitted + 1
    /\ stdout' = Append(stdout, [kind |-> "event", n |-> emitted + 1])
    /\ UNCHANGED <<handleVars, callVars, subVars, loopVars, callHistory, writeMu, closer,
                   pi, signal, stdin, working, answered>>

\* Whether it has been told to or not.
PiExits ==
    /\ pi = "running"
    /\ pi' = "exited"
    /\ stdin' = <<>> /\ working' = {}
    /\ UNCHANGED <<handleVars, callVars, subVars, loopVars, callHistory, writeMu, closer,
                   signal, stdout, emitted, answered>>

---------------------------------------------------------------------------
CallStep(c) ==
    \/ \E kind \in {"prompt", "query"} : StartCommand(c, kind)
    \/ Register(c) \/ StartUIResponse(c) \/ LockWrite(c) \/ Write(c)
    \/ GiveUp(c) \/ TakeResponse(c) \/ TakeZero(c) \/ RemovePending(c) \/ CancelCall(c)

SubStep(s) ==
    \/ Subscribe(s) \/ CancelSubscription(s) \/ WatcherWakes(s) \/ WatcherUnsubscribes(s)
    \/ Receive(s) \/ ConsumerEnds(s)

CloseStep(x) == CloseBegin(x) \/ CloseSignal(x) \/ CloseReturn(x)

LoopStep ==
    \/ ReadResponse \/ ReaderSends \/ ReaderCloses \/ ReadEvent \/ ReaderStops
    \/ Reap \/ Drain \/ CloseDone

PiStep ==
    \/ PiTakes \/ PiEmits \/ PiExits
    \/ \E i \in ReqIds, reply \in PiReplies : PiAnswers(i, reply)

\* Nothing is left to do: the process is gone and every goroutine has ended.
Finished ==
    /\ done /\ reader = "stopped" /\ nextID = MaxRequests
    /\ \A c \in Callers : pc[c] = "idle"
    /\ \A s \in Subs : consumer[s] = "ended" /\ watcher[s] = "gone"
    /\ \A x \in Closers : closer[x] = "returned"
    /\ UNCHANGED vars

Next ==
    \/ \E c \in Callers : CallStep(c)
    \/ \E s \in Subs : SubStep(s)
    \/ \E x \in Closers : CloseStep(x)
    \/ LoopStep
    \/ PiStep
    \/ Finished

Spec == Init /\ [][Next]_vars

\* The Go scheduler runs every goroutine that can run and a contended mutex is
\* handed over in the end; a consumer ranges over its channel until it is
\* closed; the 3 second timer fires; a kill ends Pi. Nothing makes Pi read,
\* answer, heed an interrupt or exit of its own accord.
Fairness ==
    /\ \A c \in Callers :
         /\ WF_vars(Register(c)) /\ SF_vars(LockWrite(c)) /\ WF_vars(Write(c))
         /\ WF_vars(GiveUp(c) \/ TakeResponse(c) \/ TakeZero(c))
         /\ WF_vars(RemovePending(c))
    /\ \A s \in Subs :
         /\ WF_vars(WatcherWakes(s)) /\ WF_vars(WatcherUnsubscribes(s))
         /\ WF_vars(Receive(s))
         /\ WF_vars(subClosed[s] /\ subChan[s] = <<>> /\ ConsumerEnds(s))
    /\ \A x \in Closers : WF_vars(CloseSignal(x)) /\ WF_vars(CloseReturn(x))
    /\ WF_vars(ReadResponse \/ ReaderSends \/ ReaderCloses \/ ReadEvent \/ ReaderStops)
    /\ WF_vars(Reap) /\ WF_vars(Drain) /\ WF_vars(CloseDone)
    /\ WF_vars(signal = "kill" /\ PiExits)

FairSpec == Spec /\ Fairness

---------------------------------------------------------------------------
(* Properties.                                                              *)

\* No goroutine sends on or closes a channel another one has closed, and
\* readLoop never blocks on a full response channel: whoever takes a channel
\* out of its map under h.mu is the only one to send on it and close it
\* (readLoop, waitLoop and unsubscribe race for them).
ChannelSafety ==
    /\ reader \in {"send", "close"} => ~respClosed[readerEnv.id]
    /\ reader = "send" => respBuf[readerEnv.id] = NoEnv
    /\ \A i \in pending : ~respClosed[i] /\ respBuf[i] = NoEnv
    /\ \A s \in subscribers : ~subClosed[s]

\* An entry of h.pending belongs to a call still in progress: replies, write
\* errors, cancellations and the exit of Pi all remove theirs.
PendingOwned ==
    \A i \in pending : \E c \in Callers : pc[c] # "idle" /\ req[c] = i

\* Once done is closed the handle takes no more requests, so none can be left
\* waiting for a waitLoop that will not come back.
NothingPendingAfterDone == done => closed /\ pending = {}

\* Pi refused the request in so many words, or answered a query with data that
\* does not decode.
TurnedDown(i) ==
    \/ answered[i].success = "false"
    \/ op[i] = "query" /\ answered[i] # NoReply /\ ~answered[i].decodes

\* A command fails only for a reason: Pi refused it (a reply that does not say
\* whether it succeeded is no refusal), a query's data did not decode, its context
\* ended, the handle was closed before it was registered, or Pi is gone. Close in
\* particular does not cut off a command already registered.
ErrorHasCause ==
    [][\A i \in ReqIds : outcome[i] # "error" /\ outcome'[i] = "error" =>
          \/ TurnedDown(i)
          \/ pi = "exited"
          \/ \E c \in Callers : req[c] = i /\ (ctxDone[c] \/ (pc[c] = "register" /\ closed))]_vars

\* Once Pi has exited every call in progress returns, even one that was
\* blocked in a write or registered while waitLoop was closing the channels.
ExitReleasesCalls ==
    \A c \in Callers : pi = "exited" /\ pc[c] # "idle" ~> pc[c] = "idle"

\* Once Pi has exited every subscription ends, also one made after the exit.
ExitEndsSubscriptions ==
    \A s \in Subs : pi = "exited" /\ consumer[s] = "reading" ~> consumer[s] = "ended"

\* The Close that does the work ends the process and closes done, even when Pi
\* ignores the interrupt.
CloseEndsProcess ==
    \A x \in Closers : closer[x] = "signal" ~> done

\* The handle keeps the promise of CommandCalls: a request id names one call,
\* is answered at most once and returns at most once, whichever of the reply, the
\* context, the exit of Pi or a write error comes first.
Calls == INSTANCE CommandCalls WITH
    Requests <- ReqIds, kind <- op, reply <- answered, result <- outcome,
    alive <- (pi = "running")
RefinesCommandCalls == Calls!Spec

\* Each subscription keeps the promise of Subscription, whichever of readLoop,
\* waitLoop, its watcher and its consumer gets to the channel: in order, lost
\* only when full, closed once.
Feed(s) == INSTANCE Subscription WITH
    Cap <- SubBuf, registered <- (s \in subscribers), chan <- subChan[s],
    closed <- subClosed[s], missed <- missed[s], latest <- broadcast
RefinesSubscription ==
    /\ \A s \in Subs : Feed(s)!Init
    /\ [][\A s \in Subs : [Feed(s)!Next]_(Feed(s)!svars)]_vars
=============================================================================
