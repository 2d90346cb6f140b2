------------------------- MODULE AgentHandleProofs -------------------------
(* Proofs about AgentHandle, for any set of callers, subscriptions and      *)
(* closers, any pipe and channel capacities and any number of requests.     *)
EXTENDS AgentHandle, SequenceTheorems, TLAPS

Registering(c) == pc[c] = "register"
Active(c) == pc[c] # "idle" /\ req[c] # UIMessage
ReaderHolds(i) == reader \in {"send", "close"} /\ readerEnv.id = i
Fresh(i) == ~respClosed[i] /\ respBuf[i] = NoEnv

\* A response channel is in exactly one hand: not yet registered (its id not
\* handed out, or its caller about to register it), in h.pending, held by
\* readLoop, or finished with. Only a channel nobody has finished with is fresh.
ResponseOwnership ==
    /\ \A i \in ReqIds : i > nextID => Fresh(i)
    /\ \A c \in Callers : Active(c) => req[c] =< nextID
    /\ \A c, d \in Callers : Active(c) /\ Active(d) /\ c # d => req[c] # req[d]
    /\ \A c \in Callers : Registering(c) =>
          /\ req[c] # UIMessage /\ req[c] \notin pending
          /\ Fresh(req[c]) /\ ~ReaderHolds(req[c])
    /\ \A i \in pending : /\ i =< nextID /\ Fresh(i) /\ ~ReaderHolds(i)
                          /\ \E c \in Callers : Active(c) /\ ~Registering(c) /\ req[c] = i
    /\ \A i \in ReqIds : ReaderHolds(i) => i =< nextID /\ ~respClosed[i]
    /\ reader = "send" => respBuf[readerEnv.id] = NoEnv

\* A subscriber channel is open while it is registered and before.
SubscriberOwnership ==
    /\ \A s \in subscribers : ~subClosed[s] /\ consumer[s] # "idle"
    /\ \A s \in Subs : consumer[s] = "idle" => ~subClosed[s] /\ watcher[s] = "none"

\* What waitLoop has done stays done.
WaitLoopProgress ==
    /\ waiter \in {"close", "gone"} => closed /\ pending = {}
    /\ done => waiter = "gone"

IInv == TypeOK /\ ResponseOwnership /\ SubscriberOwnership /\ WaitLoopProgress

---------------------------------------------------------------------------
(* Type correctness.                                                        *)

USE DEF ReqIds, UIMessage, Response, Event, NoEnv

\* The state of a handle just started (Start) has the types.
LEMMA TypeInit == ASSUME Init PROVE TypeOK
<1>1. HandleType
  <2>1. closed \in BOOLEAN /\ done \in BOOLEAN
    BY DEF Init
  <2>2. nextID \in 0..MaxRequests /\ pending \subseteq ReqIds
    BY BoundsAssumption DEF Init
  <2>3. respBuf \in [ReqIds -> Response \cup {NoEnv}]
    BY DEF Init
  <2>4. respClosed \in [ReqIds -> BOOLEAN]
    BY DEF Init
  <2>5. writeMu \in Callers \cup {Nobody}
    BY DEF Init
  <2> QED BY <2>1, <2>2, <2>3, <2>4, <2>5 DEF HandleType
<1>2. CallType /\ SubType /\ LoopType
  BY BoundsAssumption DEF Init, CallType, SubType, LoopType
<1>3. PiType
  <2>1. pi \in {"running", "exited"}
        /\ signal \in {"none", "interrupt", "kill"}
    BY DEF Init
  <2>2. stdin \in Seq(ReqIds \cup {UIMessage}) /\ stdout \in Seq(Response \cup Event)
    BY DEF Init
  <2>3. Len(stdin) =< StdinCap /\ Len(stdout) =< StdoutCap /\ emitted \in 0..MaxEvents
    BY BoundsAssumption DEF Init
  <2>4. working \subseteq ReqIds /\ answered \in [ReqIds -> Reply \cup {NoReply}]
    BY DEF Init
  <2> QED BY <2>1, <2>2, <2>3, <2>4 DEF PiType
<1> QED BY <1>1, <1>2, <1>3 DEF TypeOK

\* sendCommand registers its request or is refused; either way h keeps its types.
LEMMA TypeRegister ==
  ASSUME TypeOK, NEW c \in Callers, Register(c)
  PROVE  TypeOK'
<1>0. req[c] \in ReqIds
  BY DEF Register, TypeOK, CallType
<1>1. CASE closed
  <2>1. UNCHANGED pending /\ Return(c, "error")
    BY <1>1 DEF Register, Refuses
  <2>2. HandleType' /\ CallType'
    BY <1>0, <2>1 DEF Register, TypeOK, HandleType, CallType, Return, Goto
  <2> QED BY <2>2 DEF Register, TypeOK, SubType, LoopType, PiType, subVars, loopVars, piVars
<1>2. CASE ~closed
  <2>1. pending' = pending \cup {req[c]} /\ Goto(c, "lock") /\ UNCHANGED outcome
    BY <1>2 DEF Register, Refuses
  <2>2. HandleType' /\ CallType'
    BY <1>0, <2>1 DEF Register, TypeOK, HandleType, CallType, Goto
  <2> QED BY <2>2 DEF Register, TypeOK, SubType, LoopType, PiType, subVars, loopVars, piVars
<1> QED BY <1>1, <1>2

\* A write appends one line and only when the stdin pipe has room for it.
LEMMA TypeWrite ==
  ASSUME TypeOK, NEW c \in Callers, Write(c)
  PROVE  TypeOK'
<1> USE DEF handleVars, subVars, loopVars, callHistory
<1>1. HandleType' /\ CallType' /\ SubType' /\ LoopType'
  <2>1. HandleType' /\ SubType' /\ LoopType'
    BY DEF Write, UnlockWrite, TypeOK, HandleType, SubType, LoopType
  <2>2. CASE req[c] = UIMessage
    BY <2>1, <2>2 DEF Write, Goto, TypeOK, CallType
  <2>3. CASE req[c] \in ReqIds
    BY <2>1, <2>3 DEF Write, Goto, TypeOK, CallType
  <2> QED BY <2>2, <2>3 DEF TypeOK, CallType
<1>2. PiType'
  <2>1. CASE UNCHANGED stdin
    BY <2>1 DEF Write, TypeOK, PiType
  <2>2. CASE stdin' = Append(stdin, req[c]) /\ PipeHasRoom
    <3>1. stdin' \in Seq(ReqIds \cup {UIMessage}) /\ Len(stdin') = Len(stdin) + 1
      BY <2>2 DEF TypeOK, CallType, PiType
    <3>2. Len(stdin') =< StdinCap
      BY <3>1, <2>2, BoundsAssumption DEF TypeOK, PiType, PipeHasRoom
    <3> QED BY <3>1, <3>2 DEF Write, TypeOK, PiType
  <2> QED BY <2>1, <2>2 DEF Write
<1> QED BY <1>1, <1>2 DEF TypeOK

\* The consumer of a subscription takes the head of its channel.
LEMMA TypeReceive ==
  ASSUME TypeOK, NEW s \in Subs, Receive(s)
  PROVE  TypeOK'
<1>1. subChan[s] \in Seq(1..MaxEvents) /\ subChan[s] # <<>>
  BY DEF Receive, TypeOK, SubType
<1>2. /\ Tail(subChan[s]) \in Seq(1..MaxEvents)
      /\ Len(Tail(subChan[s])) = Len(subChan[s]) - 1
  BY <1>1, HeadTailProperties
<1>3. subChan' \in [Subs -> Seq(1..MaxEvents)] /\ \A t \in Subs : Len(subChan'[t]) =< SubBuf
  BY <1>2, BoundsAssumption DEF Receive, TypeOK, SubType
<1>4. SubType'
  BY <1>3 DEF Receive, TypeOK, SubType
<1> QED BY <1>4 DEF Receive, TypeOK, HandleType, CallType, LoopType, PiType,
                    handleVars, callVars, loopVars, piVars, callHistory

\* A broadcast extends only the channels that have room (SubBuf is their capacity).
LEMMA TypeReadEvent ==
  ASSUME TypeOK, ReadEvent
  PROVE  TypeOK'
<1>1. Head(stdout).n \in 1..MaxEvents
  BY DEF ReadEvent
<1>2. ASSUME NEW s \in Subs
      PROVE  subChan'[s] \in Seq(1..MaxEvents) /\ Len(subChan'[s]) =< SubBuf
  <2>1. subChan[s] \in Seq(1..MaxEvents) /\ Len(subChan[s]) =< SubBuf
    BY DEF TypeOK, SubType
  <2>2. CASE Reaches(s)
    <3>1. subChan'[s] = Append(subChan[s], Head(stdout).n)
      BY <2>2 DEF ReadEvent
    <3>2. /\ Append(subChan[s], Head(stdout).n) \in Seq(1..MaxEvents)
          /\ Len(Append(subChan[s], Head(stdout).n)) = Len(subChan[s]) + 1
      BY <1>1, <2>1, AppendProperties
    <3> QED BY <2>1, <2>2, <3>1, <3>2, BoundsAssumption DEF Reaches, HasRoom
  <2>3. CASE ~Reaches(s)
    BY <2>1, <2>3 DEF ReadEvent
  <2> QED BY <2>2, <2>3
<1>3. missed' \in [Subs -> BOOLEAN] /\ subChan' = [s \in Subs |-> subChan'[s]]
  BY DEF ReadEvent
<1>4. SubType'
  <2>1. subChan' \in [Subs -> Seq(1..MaxEvents)]
    BY <1>2, <1>3
  <2> QED BY <1>2, <1>3, <2>1 DEF ReadEvent, TypeOK, SubType
<1>5. LoopType' /\ PiType'
  <2>1. stdout \in Seq(Response \cup Event) /\ stdout # <<>> /\ Len(stdout) =< StdoutCap
    BY DEF ReadEvent, TypeOK, PiType
  <2>2. stdout' \in Seq(Response \cup Event) /\ Len(stdout') =< StdoutCap
    BY <2>1, HeadTailProperties, BoundsAssumption DEF ReadEvent
  <2> QED BY <1>1, <2>2, BoundsAssumption DEF ReadEvent, TypeOK, LoopType, PiType
<1> QED BY <1>4, <1>5 DEF ReadEvent, TypeOK, HandleType, CallType, handleVars, callVars, callHistory

\* readLoop takes a response line and perhaps its entry of h.pending.
LEMMA TypeReadResponse ==
  ASSUME TypeOK, ReadResponse
  PROVE  TypeOK'
<1>1. Head(stdout) \in Response
  BY DEF ReadResponse
<1>2. HandleType' /\ LoopType'
  <2>1. CASE Head(stdout).id \in pending
    BY <1>1, <2>1 DEF ReadResponse, DeleteEntry, TypeOK, HandleType, LoopType
  <2>2. CASE Head(stdout).id \notin pending
    BY <2>2 DEF ReadResponse, TypeOK, HandleType, LoopType
  <2> QED BY <2>1, <2>2
<1>3. PiType'
  <2>1. stdout \in Seq(Response \cup Event) /\ stdout # <<>> /\ Len(stdout) =< StdoutCap
    BY DEF ReadResponse, TypeOK, PiType
  <2>2. stdout' \in Seq(Response \cup Event) /\ Len(stdout') =< StdoutCap
    BY <2>1, HeadTailProperties, BoundsAssumption DEF ReadResponse
  <2> QED BY <2>2 DEF ReadResponse, TypeOK, PiType
<1> QED BY <1>2, <1>3 DEF ReadResponse, TypeOK, CallType, SubType, callVars, subVars, callHistory

\* Pi, outside the repository, takes the head of its stdin.
LEMMA TypePiTakes ==
  ASSUME TypeOK, PiTakes
  PROVE  TypeOK'
<1>1. stdin \in Seq(ReqIds \cup {UIMessage}) /\ stdin # <<>> /\ Len(stdin) =< StdinCap
  BY DEF PiTakes, TypeOK, PiType
<1>2. /\ Tail(stdin) \in Seq(ReqIds \cup {UIMessage})
      /\ Head(stdin) \in ReqIds \cup {UIMessage}
      /\ Len(Tail(stdin)) = Len(stdin) - 1
  BY <1>1, HeadTailProperties
<1>3. Len(stdin') =< StdinCap
  BY <1>1, <1>2, BoundsAssumption DEF PiTakes
<1>4. working' \subseteq ReqIds
  BY <1>2 DEF PiTakes, TypeOK, PiType
<1>5. PiType'
  BY <1>2, <1>3, <1>4 DEF PiTakes, TypeOK, PiType
<1> QED BY <1>5 DEF PiTakes, TypeOK, HandleType, CallType, SubType, LoopType,
                    handleVars, callVars, subVars, loopVars, callHistory

\* Every step of the handle, its goroutines and Pi keeps the types.
LEMMA TypeNext == ASSUME TypeOK, [Next]_vars PROVE TypeOK'
<1> USE DEF handleVars, callVars, subVars, loopVars, piVars, callHistory
<1>1. ASSUME NEW c \in Callers, NEW kind \in {"prompt", "query"}, StartCommand(c, kind) PROVE TypeOK'
  BY <1>1, BoundsAssumption DEF TypeOK, HandleType, CallType, SubType, LoopType, PiType, StartCommand, TakeId, Goto
<1>2. ASSUME NEW c \in Callers, Register(c) PROVE TypeOK'
  BY <1>2, TypeRegister
<1>3. ASSUME NEW c \in Callers, StartUIResponse(c) PROVE TypeOK'
  BY <1>3, BoundsAssumption DEF TypeOK, HandleType, CallType, SubType, LoopType, PiType, StartUIResponse, Goto
<1>4. ASSUME NEW c \in Callers, LockWrite(c) PROVE TypeOK'
  BY <1>4, BoundsAssumption DEF TypeOK, HandleType, CallType, SubType, LoopType, PiType, LockWrite, Goto
<1>5. ASSUME NEW c \in Callers, Write(c) PROVE TypeOK'
  BY <1>5, TypeWrite
<1>6. ASSUME NEW c \in Callers, GiveUp(c) PROVE TypeOK'
  BY <1>6, BoundsAssumption DEF TypeOK, HandleType, CallType, SubType, LoopType, PiType, GiveUp, Wakes, GoRemovePending, Goto
<1>7. ASSUME NEW c \in Callers, TakeResponse(c) PROVE TypeOK'
  <2>1. HandleType' /\ CallType'
    BY <1>7 DEF TypeOK, HandleType, CallType, TakeResponse, Verdict, Return, Goto
  <2> QED BY <1>7, <2>1 DEF TypeOK, SubType, LoopType, PiType, TakeResponse
<1>8. ASSUME NEW c \in Callers, TakeZero(c) PROVE TypeOK'
  BY <1>8, BoundsAssumption DEF TypeOK, HandleType, CallType, SubType, LoopType, PiType, TakeZero, ZeroOutcome, Return, Goto
<1>9. ASSUME NEW c \in Callers, RemovePending(c) PROVE TypeOK'
  <2>1. HandleType' /\ CallType'
    BY <1>9 DEF TypeOK, HandleType, CallType, RemovePending, Return, Goto
  <2> QED BY <1>9, <2>1 DEF TypeOK, SubType, LoopType, PiType, RemovePending
<1>10. ASSUME NEW c \in Callers, CancelCall(c) PROVE TypeOK'
  <2>1. HandleType' /\ CallType'
    BY <1>10 DEF TypeOK, HandleType, CallType, CancelCall
  <2> QED BY <1>10, <2>1 DEF TypeOK, SubType, LoopType, PiType, CancelCall
<1>11. ASSUME NEW s \in Subs, Subscribe(s) PROVE TypeOK'
  BY <1>11, BoundsAssumption DEF TypeOK, HandleType, CallType, SubType, LoopType, PiType, Subscribe
<1>12. ASSUME NEW s \in Subs, CancelSubscription(s) PROVE TypeOK'
  BY <1>12, BoundsAssumption DEF TypeOK, HandleType, CallType, SubType, LoopType, PiType, CancelSubscription
<1>13. ASSUME NEW s \in Subs, WatcherWakes(s) PROVE TypeOK'
  BY <1>13, BoundsAssumption DEF TypeOK, HandleType, CallType, SubType, LoopType, PiType, WatcherWakes, WatcherSees
<1>14. ASSUME NEW s \in Subs, WatcherUnsubscribes(s) PROVE TypeOK'
  BY <1>14, BoundsAssumption DEF TypeOK, HandleType, CallType, SubType, LoopType, PiType, WatcherUnsubscribes, Unsubscribe
<1>15. ASSUME NEW s \in Subs, Receive(s) PROVE TypeOK'
  BY <1>15, TypeReceive
<1>16. ASSUME NEW s \in Subs, ConsumerEnds(s) PROVE TypeOK'
  BY <1>16, BoundsAssumption DEF TypeOK, HandleType, CallType, SubType, LoopType, PiType, ConsumerEnds, Unsubscribe
<1>17. ASSUME NEW x \in Closers, CloseBegin(x) PROVE TypeOK'
  BY <1>17, BoundsAssumption DEF TypeOK, HandleType, CallType, SubType, LoopType, PiType, CloseBegin, MarkClosed
<1>18. ASSUME NEW x \in Closers, CloseSignal(x) PROVE TypeOK'
  BY <1>18, BoundsAssumption DEF TypeOK, HandleType, CallType, SubType, LoopType, PiType, CloseSignal, Signalled
<1>19. ASSUME NEW x \in Closers, CloseReturn(x) PROVE TypeOK'
  BY <1>19, BoundsAssumption DEF TypeOK, HandleType, CallType, SubType, LoopType, PiType, CloseReturn, Kill, Signalled
<1>20. ASSUME ReadResponse PROVE TypeOK'
  BY <1>20, TypeReadResponse
<1>21. ASSUME ReaderSends PROVE TypeOK'
  BY <1>21, BoundsAssumption DEF TypeOK, HandleType, CallType, SubType, LoopType, PiType, ReaderSends
<1>22. ASSUME ReaderCloses PROVE TypeOK'
  BY <1>22, BoundsAssumption DEF TypeOK, HandleType, CallType, SubType, LoopType, PiType, ReaderCloses
<1>23. ASSUME ReadEvent PROVE TypeOK'
  BY <1>23, TypeReadEvent
<1>24. ASSUME ReaderStops PROVE TypeOK'
  BY <1>24, BoundsAssumption DEF TypeOK, HandleType, CallType, SubType, LoopType, PiType, ReaderStops
<1>25. ASSUME Reap PROVE TypeOK'
  BY <1>25, BoundsAssumption DEF TypeOK, HandleType, CallType, SubType, LoopType, PiType, Reap
<1>26. ASSUME Drain PROVE TypeOK'
  BY <1>26, BoundsAssumption DEF TypeOK, HandleType, CallType, SubType, LoopType, PiType, Drain
<1>27. ASSUME CloseDone PROVE TypeOK'
  BY <1>27, BoundsAssumption DEF TypeOK, HandleType, CallType, SubType, LoopType, PiType, CloseDone
<1>28. ASSUME PiTakes PROVE TypeOK'
  BY <1>28, TypePiTakes
<1>29. ASSUME NEW i \in ReqIds, NEW reply \in PiReplies, PiAnswers(i, reply) PROVE TypeOK'
  BY <1>29, BoundsAssumption DEF TypeOK, HandleType, CallType, SubType, LoopType, PiType, PiAnswers
<1>30. ASSUME PiEmits PROVE TypeOK'
  BY <1>30, BoundsAssumption DEF TypeOK, HandleType, CallType, SubType, LoopType, PiType, PiEmits
<1>31. ASSUME PiExits PROVE TypeOK'
  BY <1>31, BoundsAssumption DEF TypeOK, HandleType, CallType, SubType, LoopType, PiType, PiExits
<1>32. CASE Finished
  BY <1>32 DEF Finished, vars, TypeOK, HandleType, CallType, SubType, LoopType, PiType
<1>33. CASE UNCHANGED vars
  BY <1>33 DEF vars, TypeOK, HandleType, CallType, SubType, LoopType, PiType
<1> QED BY <1>1, <1>2, <1>3, <1>4, <1>5, <1>6, <1>7, <1>8, <1>9,
           <1>10, <1>11, <1>12, <1>13, <1>14, <1>15, <1>16, <1>17, <1>18,
           <1>19, <1>20, <1>21, <1>22, <1>23, <1>24, <1>25, <1>26, <1>27,
           <1>28, <1>29, <1>30, <1>31, <1>32, <1>33
        DEF Next, CallStep, SubStep, CloseStep, LoopStep, PiStep

\* The variables of a handle (rpcHandle, its channels and goroutines) keep their
\* types, and no pipe or subscriber channel exceeds its capacity.
THEOREM TypeCorrect == Spec => []TypeOK
<1>1. Init => TypeOK
  BY TypeInit
<1>2. TypeOK /\ [Next]_vars => TypeOK'
  BY TypeNext
<1> QED BY <1>1, <1>2, PTL DEF Spec

---------------------------------------------------------------------------
(* Ownership of the channels.                                               *)

\* The variables that the ownership of the response channels is about.
respVars == <<nextID, pending, respBuf, respClosed, pc, req, reader, readerEnv>>

\* A handle just started (Start) has made no response channel yet.
LEMMA ResponseOwnershipInit == ASSUME Init PROVE ResponseOwnership
  BY BoundsAssumption DEF Init, ResponseOwnership, Registering, Active, ReaderHolds, Fresh

\* Only sendCommand, readLoop and waitLoop touch the response channels: every
\* other step leaves their ownership as it is.
LEMMA ResponseOwnershipStutter ==
  ASSUME ResponseOwnership, UNCHANGED respVars
  PROVE  ResponseOwnership'
  BY DEF respVars, ResponseOwnership, Registering, Active, ReaderHolds, Fresh

\* A call that goes on inside sendCommand, past its registration, owns what it
\* owned; one that returns from SendUIResponse owns nothing.
LEMMA ResponseOwnershipSameCalls ==
  ASSUME TypeOK, ResponseOwnership, NEW c \in Callers, NEW label,
         UNCHANGED <<nextID, pending, respBuf, respClosed, req, reader, readerEnv>>,
         pc[c] \notin {"idle", "register"}, pc' = [pc EXCEPT ![c] = label],
         label # "register", label # "idle" \/ req[c] = UIMessage
  PROVE  ResponseOwnership'
<1>1. \A d \in Callers : (pc'[d] = "register") <=> (pc[d] = "register")
  BY DEF TypeOK, CallType
<1>2. \A d \in Callers : (pc'[d] # "idle" /\ req[d] # UIMessage)
                          <=> (pc[d] # "idle" /\ req[d] # UIMessage)
  BY DEF TypeOK, CallType
<1> QED BY <1>1, <1>2 DEF ResponseOwnership, Active, Registering, ReaderHolds, Fresh

\* sendCommand under h.mu: the request enters h.pending, or a closed handle
\* refuses it and nobody will touch its channel again.
LEMMA ResponseOwnershipRegister ==
  ASSUME TypeOK, ResponseOwnership, NEW c \in Callers, Register(c)
  PROVE  ResponseOwnership'
<1> USE DEF ResponseOwnership, Registering, Active, ReaderHolds, Fresh
<1>0. /\ req[c] \in ReqIds /\ req[c] =< nextID
      /\ UNCHANGED <<nextID, respBuf, respClosed, req, reader, readerEnv>>
  <2>1. pc[c] = "register" /\ UNCHANGED <<nextID, respBuf, respClosed, req, reader, readerEnv>>
    BY DEF Register, loopVars
  <2>2. req[c] \in ReqIds
    BY <2>1 DEF TypeOK, CallType
  <2>3. req[c] =< nextID
    BY <2>1, <2>2
  <2> QED BY <2>1, <2>2, <2>3
<1>1. CASE closed
  <2>1. UNCHANGED pending /\ pc' = [pc EXCEPT ![c] = "idle"]
    BY <1>1 DEF Register, Refuses, Return, Goto
  <2> QED BY <1>0, <2>1 DEF Register, TypeOK, CallType
<1>2. CASE ~closed
  <2>1. pending' = pending \cup {req[c]} /\ pc' = [pc EXCEPT ![c] = "lock"]
    BY <1>2 DEF Register, Refuses, Goto
  <2> QED BY <1>0, <2>1 DEF Register, TypeOK, CallType
<1> QED BY <1>1, <1>2

\* readLoop takes the entry of a response out of h.pending, and with it the right
\* to send on its channel and close it.
LEMMA ResponseOwnershipReadResponse ==
  ASSUME TypeOK, ResponseOwnership, ReadResponse
  PROVE  ResponseOwnership'
<1> USE DEF ResponseOwnership, Registering, Active, ReaderHolds, Fresh
<1>0. UNCHANGED <<nextID, respBuf, respClosed, pc, req>> /\ reader = "read"
  BY DEF ReadResponse, callVars
<1>1. CASE Head(stdout).id \in pending
  <2>1. /\ pending' = pending \ {Head(stdout).id}
        /\ readerEnv' = Head(stdout) /\ reader' = "send"
    BY <1>1 DEF ReadResponse, DeleteEntry
  <2> QED BY <1>0, <1>1, <2>1 DEF TypeOK, HandleType
<1>2. CASE Head(stdout).id \notin pending
  <2>1. UNCHANGED <<pending, readerEnv, reader>>
    BY <1>2 DEF ReadResponse
  <2> QED BY <1>0, <2>1
<1> QED BY <1>1, <1>2

\* Whoever removes a channel from h.pending is the one to finish with it.
LEMMA ResponseOwnershipNext ==
  ASSUME TypeOK, ResponseOwnership, [Next]_vars
  PROVE  ResponseOwnership'
<1> USE DEF handleVars, callVars, subVars, loopVars, piVars, callHistory
<1>1. ASSUME NEW c \in Callers, NEW kind \in {"prompt", "query"}, StartCommand(c, kind) PROVE ResponseOwnership'
  BY <1>1, BoundsAssumption DEF ResponseOwnership, Registering, Active, ReaderHolds, Fresh, TypeOK, HandleType, CallType, LoopType, StartCommand, TakeId, Goto
<1>2. ASSUME NEW c \in Callers, Register(c) PROVE ResponseOwnership'
  BY <1>2, ResponseOwnershipRegister
<1>3. ASSUME NEW c \in Callers, StartUIResponse(c) PROVE ResponseOwnership'
  BY <1>3, BoundsAssumption DEF ResponseOwnership, Registering, Active, ReaderHolds, Fresh, TypeOK, HandleType, CallType, LoopType, StartUIResponse, Goto
<1>4. ASSUME NEW c \in Callers, LockWrite(c) PROVE ResponseOwnership'
  BY <1>4, ResponseOwnershipSameCalls DEF LockWrite, Goto
<1>5. ASSUME NEW c \in Callers, Write(c) PROVE ResponseOwnership'
  BY <1>5, ResponseOwnershipSameCalls DEF Write, Goto
<1>6. ASSUME NEW c \in Callers, GiveUp(c) PROVE ResponseOwnership'
  BY <1>6, BoundsAssumption DEF ResponseOwnership, Registering, Active, ReaderHolds, Fresh, TypeOK, HandleType, CallType, LoopType, GiveUp, Wakes, GoRemovePending, Goto
<1>7. ASSUME NEW c \in Callers, TakeResponse(c) PROVE ResponseOwnership'
  BY <1>7, BoundsAssumption DEF ResponseOwnership, Registering, Active, ReaderHolds, Fresh, TypeOK, HandleType, CallType, LoopType, TakeResponse, Return, Goto
<1>8. ASSUME NEW c \in Callers, TakeZero(c) PROVE ResponseOwnership'
  BY <1>8, BoundsAssumption DEF ResponseOwnership, Registering, Active, ReaderHolds, Fresh, TypeOK, HandleType, CallType, LoopType, TakeZero, ZeroOutcome, Return, Goto
<1>9. ASSUME NEW c \in Callers, RemovePending(c) PROVE ResponseOwnership'
  BY <1>9, BoundsAssumption DEF ResponseOwnership, Registering, Active, ReaderHolds, Fresh, TypeOK, HandleType, CallType, LoopType, RemovePending, Return, Goto
<1>10. ASSUME NEW c \in Callers, CancelCall(c) PROVE ResponseOwnership'
  BY <1>10, ResponseOwnershipStutter DEF respVars, CancelCall
<1>11. ASSUME NEW s \in Subs, Subscribe(s) PROVE ResponseOwnership'
  BY <1>11, ResponseOwnershipStutter DEF respVars, Subscribe
<1>12. ASSUME NEW s \in Subs, CancelSubscription(s) PROVE ResponseOwnership'
  BY <1>12, ResponseOwnershipStutter DEF respVars, CancelSubscription
<1>13. ASSUME NEW s \in Subs, WatcherWakes(s) PROVE ResponseOwnership'
  BY <1>13, ResponseOwnershipStutter DEF respVars, WatcherWakes, WatcherSees
<1>14. ASSUME NEW s \in Subs, WatcherUnsubscribes(s) PROVE ResponseOwnership'
  BY <1>14, ResponseOwnershipStutter DEF respVars, WatcherUnsubscribes, Unsubscribe
<1>15. ASSUME NEW s \in Subs, Receive(s) PROVE ResponseOwnership'
  BY <1>15, ResponseOwnershipStutter DEF respVars, Receive
<1>16. ASSUME NEW s \in Subs, ConsumerEnds(s) PROVE ResponseOwnership'
  BY <1>16, ResponseOwnershipStutter DEF respVars, ConsumerEnds, Unsubscribe
<1>17. ASSUME NEW x \in Closers, CloseBegin(x) PROVE ResponseOwnership'
  BY <1>17, ResponseOwnershipStutter DEF respVars, CloseBegin, MarkClosed
<1>18. ASSUME NEW x \in Closers, CloseSignal(x) PROVE ResponseOwnership'
  BY <1>18, ResponseOwnershipStutter DEF respVars, CloseSignal, Signalled
<1>19. ASSUME NEW x \in Closers, CloseReturn(x) PROVE ResponseOwnership'
  BY <1>19, ResponseOwnershipStutter DEF respVars, CloseReturn, Kill, Signalled
<1>20. ASSUME ReadResponse PROVE ResponseOwnership'
  BY <1>20, ResponseOwnershipReadResponse
<1>21. ASSUME ReaderSends PROVE ResponseOwnership'
  BY <1>21, BoundsAssumption DEF ResponseOwnership, Registering, Active, ReaderHolds, Fresh, TypeOK, HandleType, CallType, LoopType, ReaderSends
<1>22. ASSUME ReaderCloses PROVE ResponseOwnership'
  BY <1>22, BoundsAssumption DEF ResponseOwnership, Registering, Active, ReaderHolds, Fresh, TypeOK, HandleType, CallType, LoopType, ReaderCloses
<1>23. ASSUME ReadEvent PROVE ResponseOwnership'
  BY <1>23, ResponseOwnershipStutter DEF respVars, ReadEvent, Reaches, HasRoom
<1>24. ASSUME ReaderStops PROVE ResponseOwnership'
  BY <1>24, BoundsAssumption DEF ResponseOwnership, Registering, Active, ReaderHolds, Fresh, TypeOK, HandleType, CallType, LoopType, ReaderStops
<1>25. ASSUME Reap PROVE ResponseOwnership'
  BY <1>25, ResponseOwnershipStutter DEF respVars, Reap
<1>26. ASSUME Drain PROVE ResponseOwnership'
  BY <1>26, BoundsAssumption DEF ResponseOwnership, Registering, Active, ReaderHolds, Fresh, TypeOK, HandleType, CallType, LoopType, Drain
<1>27. ASSUME CloseDone PROVE ResponseOwnership'
  BY <1>27, ResponseOwnershipStutter DEF respVars, CloseDone
<1>28. ASSUME PiTakes PROVE ResponseOwnership'
  BY <1>28, ResponseOwnershipStutter DEF respVars, PiTakes
<1>29. ASSUME NEW i \in ReqIds, NEW reply \in PiReplies, PiAnswers(i, reply) PROVE ResponseOwnership'
  BY <1>29, ResponseOwnershipStutter DEF respVars, PiAnswers
<1>30. ASSUME PiEmits PROVE ResponseOwnership'
  BY <1>30, ResponseOwnershipStutter DEF respVars, PiEmits
<1>31. ASSUME PiExits PROVE ResponseOwnership'
  BY <1>31, ResponseOwnershipStutter DEF respVars, PiExits
<1>32. CASE Finished
  BY <1>32, ResponseOwnershipStutter DEF Finished, vars, respVars
<1>33. CASE UNCHANGED vars
  BY <1>33, ResponseOwnershipStutter DEF vars, respVars
<1> QED BY <1>1, <1>2, <1>3, <1>4, <1>5, <1>6, <1>7, <1>8, <1>9,
           <1>10, <1>11, <1>12, <1>13, <1>14, <1>15, <1>16, <1>17, <1>18,
           <1>19, <1>20, <1>21, <1>22, <1>23, <1>24, <1>25, <1>26, <1>27,
           <1>28, <1>29, <1>30, <1>31, <1>32, <1>33
        DEF Next, CallStep, SubStep, CloseStep, LoopStep, PiStep

\* A handle just started (Start) has no subscriber.
LEMMA SubscriberOwnershipInit == ASSUME Init PROVE SubscriberOwnership
  BY DEF Init, SubscriberOwnership

\* A subscriber channel leaves h.subscribers in the step that closes it.
LEMMA SubscriberOwnershipNext ==
  ASSUME TypeOK, SubscriberOwnership, [Next]_vars
  PROVE  SubscriberOwnership'
<1> USE DEF SubscriberOwnership, subVars
<1>1. ASSUME NEW c \in Callers, CallStep(c) PROVE SubscriberOwnership'
  BY <1>1 DEF CallStep, StartCommand, Register, StartUIResponse, LockWrite, Write, GiveUp,
              TakeResponse, TakeZero, RemovePending, CancelCall
<1>2. ASSUME NEW s \in Subs, SubStep(s) PROVE SubscriberOwnership'
  <2>1. CASE Subscribe(s)
    BY <2>1 DEF Subscribe, TypeOK, SubType
  <2>2. CASE CancelSubscription(s)
    BY <2>2 DEF CancelSubscription, TypeOK, SubType
  <2>3. CASE WatcherWakes(s)
    BY <2>3 DEF WatcherWakes, TypeOK, SubType
  <2>4. CASE WatcherUnsubscribes(s)
    BY <2>4 DEF WatcherUnsubscribes, Unsubscribe, TypeOK, SubType
  <2>5. CASE Receive(s)
    BY <2>5 DEF Receive, TypeOK, SubType
  <2>6. CASE ConsumerEnds(s)
    BY <2>6 DEF ConsumerEnds, Unsubscribe, TypeOK, SubType
  <2> QED BY <1>2, <2>1, <2>2, <2>3, <2>4, <2>5, <2>6 DEF SubStep
<1>3. ASSUME NEW x \in Closers, CloseStep(x) PROVE SubscriberOwnership'
  BY <1>3 DEF CloseStep, CloseBegin, CloseSignal, CloseReturn
<1>4. CASE LoopStep
  <2>1. CASE Drain
    BY <2>1 DEF Drain, TypeOK, SubType
  <2>2. CASE ReadEvent
    BY <2>2 DEF ReadEvent
  <2> QED BY <1>4, <2>1, <2>2 DEF LoopStep, ReadResponse, ReaderSends, ReaderCloses,
                                  ReaderStops, Reap, CloseDone
<1>5. CASE PiStep
  BY <1>5 DEF PiStep, PiTakes, PiAnswers, PiEmits, PiExits
<1>6. CASE Finished \/ UNCHANGED vars
  BY <1>6 DEF Finished, vars
<1> QED BY <1>1, <1>2, <1>3, <1>4, <1>5, <1>6 DEF Next

\* A handle just started (Start) has a waitLoop that still waits for Pi.
LEMMA WaitLoopProgressInit == ASSUME Init PROVE WaitLoopProgress
  BY DEF Init, WaitLoopProgress

\* After waitLoop has drained h.pending, closed keeps new requests out.
LEMMA WaitLoopProgressNext ==
  ASSUME TypeOK, WaitLoopProgress, [Next]_vars
  PROVE  WaitLoopProgress'
<1> USE DEF WaitLoopProgress, handleVars, loopVars
<1>1. ASSUME NEW c \in Callers, CallStep(c) PROVE WaitLoopProgress'
  <2>1. CASE Register(c)
    <3>1. UNCHANGED <<closed, done, waiter>>
      BY <2>1 DEF Register
    <3>2. CASE closed
      BY <2>1, <3>1, <3>2 DEF Register, Refuses
    <3>3. CASE ~closed
      BY <3>1, <3>3
    <3> QED BY <3>2, <3>3
  <2>2. CASE RemovePending(c)
    BY <2>2 DEF RemovePending
  <2>3. CASE ~Register(c) /\ ~RemovePending(c)
    <3>1. UNCHANGED <<closed, done, waiter, pending>>
      BY <1>1, <2>3 DEF CallStep, StartCommand, StartUIResponse, LockWrite, Write, GiveUp,
                        TakeResponse, TakeZero, CancelCall
    <3> QED BY <3>1
  <2> QED BY <2>1, <2>2, <2>3
<1>2. ASSUME NEW s \in Subs, SubStep(s) PROVE WaitLoopProgress'
  <2>1. UNCHANGED <<closed, done, waiter, pending>>
    BY <1>2 DEF SubStep, Subscribe, CancelSubscription, WatcherWakes, WatcherUnsubscribes,
                Receive, ConsumerEnds
  <2> QED BY <2>1
<1>3. ASSUME NEW x \in Closers, CloseStep(x) PROVE WaitLoopProgress'
  BY <1>3 DEF CloseStep, CloseBegin, MarkClosed, CloseSignal, CloseReturn
<1>4. CASE LoopStep
  <2>1. CASE ReadResponse
    <3>1. pending' \subseteq pending /\ UNCHANGED <<closed, done, waiter>>
      BY <2>1 DEF ReadResponse, DeleteEntry
    <3> QED BY <3>1
  <2>2. CASE ReaderSends \/ ReaderCloses \/ ReadEvent \/ ReaderStops
    <3>1. UNCHANGED <<closed, done, waiter, pending>>
      BY <2>2 DEF ReaderSends, ReaderCloses, ReadEvent, ReaderStops
    <3> QED BY <3>1
  <2>3. CASE Reap
    BY <2>3 DEF Reap
  <2>4. CASE Drain
    BY <2>4 DEF Drain
  <2>5. CASE CloseDone
    BY <2>5 DEF CloseDone
  <2> QED BY <1>4, <2>1, <2>2, <2>3, <2>4, <2>5 DEF LoopStep
<1>5. CASE PiStep
  <2>1. UNCHANGED <<closed, done, waiter, pending>>
    BY <1>5 DEF PiStep, PiTakes, PiAnswers, PiEmits, PiExits
  <2> QED BY <2>1
<1>6. CASE Finished \/ UNCHANGED vars
  <2>1. UNCHANGED <<closed, done, waiter, pending>>
    BY <1>6 DEF Finished, vars
  <2> QED BY <2>1
<1> QED BY <1>1, <1>2, <1>3, <1>4, <1>5, <1>6 DEF Next

---------------------------------------------------------------------------
(* The invariant and what follows from it.                                  *)

\* The inductive invariant behind the safety theorems about the channels of a
\* handle (h.pending, h.subscribers, done).
THEOREM Inductive == Spec => []IInv
<1>1. Init => IInv
  BY TypeInit, ResponseOwnershipInit, SubscriberOwnershipInit, WaitLoopProgressInit DEF IInv
<1>2. IInv /\ [Next]_vars => IInv'
  BY TypeNext, ResponseOwnershipNext, SubscriberOwnershipNext, WaitLoopProgressNext DEF IInv
<1> QED BY <1>1, <1>2, PTL DEF Spec

\* readLoop, waitLoop and unsubscribe never send on a closed channel, never
\* close one twice, and readLoop never blocks on a response channel.
THEOREM ChannelsSafe == Spec => []ChannelSafety
<1>1. IInv => ChannelSafety
  <2> SUFFICES ASSUME IInv PROVE ChannelSafety
    OBVIOUS
  <2>1. reader \in {"send", "close"} => ~respClosed[readerEnv.id]
    BY DEF IInv, TypeOK, LoopType, ResponseOwnership, ReaderHolds
  <2>2. reader = "send" => respBuf[readerEnv.id] = NoEnv
    BY DEF IInv, ResponseOwnership
  <2>3. \A i \in pending : ~respClosed[i] /\ respBuf[i] = NoEnv
    BY DEF IInv, ResponseOwnership, Fresh
  <2>4. \A s \in subscribers : ~subClosed[s]
    BY DEF IInv, SubscriberOwnership
  <2> QED BY <2>1, <2>2, <2>3, <2>4 DEF ChannelSafety
<1> QED BY <1>1, Inductive, PTL

\* Every entry of h.pending belongs to a call that is still in sendCommand.
THEOREM NoPendingLeak == Spec => []PendingOwned
<1>1. IInv => PendingOwned
  BY DEF IInv, ResponseOwnership, Active, PendingOwned
<1> QED BY <1>1, Inductive, PTL

\* Once waitLoop has closed done, no request is left in h.pending and none can
\* be added.
THEOREM NothingPendingOnceDone == Spec => []NothingPendingAfterDone
<1>1. IInv => NothingPendingAfterDone
  BY DEF IInv, WaitLoopProgress, NothingPendingAfterDone
<1> QED BY <1>1, Inductive, PTL
=============================================================================
