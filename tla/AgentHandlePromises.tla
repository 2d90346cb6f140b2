------------------------ MODULE AgentHandlePromises ------------------------
(* Proofs that AgentHandle keeps the promises of Subscription and of        *)
(* CommandCalls, for any set of callers, subscriptions and closers, any pipe *)
(* and channel capacities and any number of requests and events.            *)
EXTENDS AgentHandleProofs

\* The events on the stdout pipe were emitted one after the other, after the
\* last one that was broadcast.
EventOrder ==
    /\ broadcast =< emitted
    /\ \A k \in 1..Len(stdout) : stdout[k] \in Event =>
          /\ broadcast < stdout[k].n /\ stdout[k].n =< emitted
          /\ \A j \in 1..k - 1 : stdout[j] \in Event => stdout[j].n < stdout[k].n

\* A request has a kind from the moment it has an id, and a result only when no
\* call is in progress for it any more.
Results ==
    /\ \A i \in ReqIds : op[i] = "none" <=> i > nextID
    /\ \A i \in ReqIds : i > nextID => outcome[i] = "none"
    /\ \A c \in Callers : Active(c) => outcome[req[c]] = "none"

\* Pi can judge a request once: it is on its way to Pi, or with Pi, in one place
\* only and only until Pi has judged it.
Unseen(i) == answered[i] = NoReply /\ i \notin working /\ \A k \in 1..Len(stdin) : stdin[k] # i
Unjudged ==
    /\ \A i \in ReqIds : i > nextID => Unseen(i)
    /\ \A c \in Callers : Active(c) /\ pc[c] \in {"register", "lock", "write"} => Unseen(req[c])
    /\ \A k \in 1..Len(stdin) : stdin[k] # UIMessage =>
          /\ answered[stdin[k]] = NoReply /\ stdin[k] \notin working
          /\ \A j \in 1..Len(stdin) : stdin[j] = stdin[k] => j = k
    /\ \A i \in working : answered[i] = NoReply

\* A response, wherever it has got to, says what Pi answered.
Says(env) == answered[env.id] = env.reply
Truthful ==
    /\ \A k \in 1..Len(stdout) : stdout[k] \in Response => Says(stdout[k])
    /\ reader \in {"send", "close"} => Says(readerEnv)
    /\ \A i \in ReqIds : respBuf[i] # NoEnv => respBuf[i].id = i /\ Says(respBuf[i])

\* A channel that is closed with no response in it for a call in progress was
\* closed by waitLoop: Pi has exited. Nothing else gives a call up without cause.
Served(i) == respBuf[i] # NoEnv \/ \A c \in Callers : Active(c) => req[c] # i
Causes ==
    /\ reader = "close" => Served(readerEnv.id)
    /\ \A i \in ReqIds : respClosed[i] => Served(i) \/ pi = "exited"
    /\ \A c \in Callers : pc[c] = "remove" => ctxDone[c] \/ pi = "exited"
    /\ done \/ waiter # "wait" => pi = "exited"

Promised == EventOrder /\ Results /\ Unjudged /\ Truthful /\ Causes

USE DEF ReqIds, UIMessage, Response, Event, NoEnv

\* A handle just started (Start) has promised nothing yet.
LEMMA PromisedInit == ASSUME Init PROVE Promised
<1>1. EventOrder /\ Truthful
  BY BoundsAssumption DEF Init, EventOrder, Truthful
<1>2. Results
  BY BoundsAssumption DEF Init, Results, Active
<1>3. Unjudged
  BY DEF Init, Unjudged, Unseen, Active
<1>4. Causes
  BY DEF Init, Causes
<1> QED BY <1>1, <1>2, <1>3, <1>4 DEF Promised

\* The places of a sequence without its head.
LEMMA TailPlaces ==
    ASSUME NEW S, NEW seq \in Seq(S), seq # <<>>
    PROVE /\ Head(seq) = seq[1] /\ Tail(seq) \in Seq(S) /\ Len(Tail(seq)) = Len(seq) - 1
          /\ 1 \in 1..Len(seq) /\ Len(seq) \in Nat
          /\ \A k \in 1..Len(Tail(seq)) : k + 1 \in 1..Len(seq) /\ Tail(seq)[k] = seq[k + 1]
BY HeadTailProperties

\* And of one with an element more.
LEMMA AppendPlaces ==
    ASSUME NEW S, NEW seq \in Seq(S), NEW e \in S
    PROVE /\ Len(Append(seq, e)) = Len(seq) + 1 /\ Len(seq) \in Nat
          /\ Append(seq, e)[Len(seq) + 1] = e
          /\ \A k \in 1..Len(seq) : Append(seq, e)[k] = seq[k]
OBVIOUS

---------------------------------------------------------------------------
(* The order of events.                                                     *)

\* readLoop takes the first line.
LEMMA EventOrderTakes ==
    ASSUME TypeOK, EventOrder, stdout # <<>>, stdout' = Tail(stdout), UNCHANGED emitted,
           \/ Head(stdout) \in Response /\ UNCHANGED broadcast
           \/ Head(stdout) \in Event /\ broadcast' = Head(stdout).n
    PROVE EventOrder'
<1>1. stdout \in Seq(Response \cup Event) /\ broadcast \in Nat /\ emitted \in Nat
  BY BoundsAssumption DEF TypeOK, PiType, LoopType
<1>2. /\ Head(stdout) = stdout[1] /\ Len(stdout') = Len(stdout) - 1 /\ 1 \in 1..Len(stdout)
      /\ Len(stdout) \in Nat
      /\ \A k \in 1..Len(stdout') : k + 1 \in 1..Len(stdout) /\ stdout'[k] = stdout[k + 1]
  BY <1>1, TailPlaces
<1>3. \A k \in 1..Len(stdout) : stdout[k] \in Event => stdout[k].n \in Nat
  OBVIOUS
<1>4. broadcast' =< emitted /\ broadcast' \in Nat
  BY <1>1, <1>2, <1>3 DEF EventOrder
<1>5. ASSUME NEW k \in 1..Len(stdout'), stdout'[k] \in Event
      PROVE /\ broadcast' < stdout'[k].n /\ stdout'[k].n =< emitted
            /\ \A j \in 1..k - 1 : stdout'[j] \in Event => stdout'[j].n < stdout'[k].n
  <2> DEFINE m == k + 1
  <2>1. m \in 1..Len(stdout) /\ stdout'[k] = stdout[m] /\ 1 \in 1..m - 1
    BY <1>2, <1>5
  <2>2. /\ broadcast < stdout[m].n /\ stdout[m].n =< emitted
        /\ \A j \in 1..m - 1 : stdout[j] \in Event => stdout[j].n < stdout[m].n
    BY <1>5, <2>1 DEF EventOrder
  <2>3. \A j \in 1..k - 1 : j + 1 \in 1..m - 1 /\ stdout'[j] = stdout[j + 1]
    BY <1>2, <1>5
  <2> HIDE DEF m
  <2>4. broadcast' < stdout[m].n
    BY <1>2, <2>1, <2>2
  <2>5. \A j \in 1..k - 1 : stdout'[j] \in Event => stdout'[j].n < stdout'[k].n
    BY <2>1, <2>2, <2>3
  <2> QED BY <2>1, <2>2, <2>4, <2>5
<1> QED BY <1>4, <1>5 DEF EventOrder

\* Pi writes a line behind the others.
LEMMA EventOrderAppends ==
    ASSUME TypeOK, EventOrder, NEW line, stdout' = Append(stdout, line), UNCHANGED broadcast,
           \/ line \in Response /\ UNCHANGED emitted
           \/ line = [kind |-> "event", n |-> emitted + 1] /\ emitted' = emitted + 1
              /\ emitted < MaxEvents
    PROVE EventOrder'
<1>1. stdout \in Seq(Response \cup Event) /\ broadcast \in Nat /\ emitted \in Nat
  BY BoundsAssumption DEF TypeOK, PiType, LoopType
<1>2. line \in Response \cup Event /\ (line \in Event => line.n = emitted + 1 /\ emitted' = emitted + 1)
  BY <1>1, BoundsAssumption
<1>3. /\ Len(stdout') = Len(stdout) + 1 /\ stdout'[Len(stdout) + 1] = line /\ Len(stdout) \in Nat
      /\ \A k \in 1..Len(stdout) : stdout'[k] = stdout[k]
  BY <1>1, <1>2
<1>4. \A k \in 1..Len(stdout) : stdout[k] \in Event => stdout[k].n \in Nat
  OBVIOUS
<1>5. emitted =< emitted' /\ emitted' \in Nat
  BY <1>1
<1>6. ASSUME NEW k \in 1..Len(stdout'), stdout'[k] \in Event
      PROVE /\ broadcast < stdout'[k].n /\ stdout'[k].n =< emitted'
            /\ \A j \in 1..k - 1 : stdout'[j] \in Event => stdout'[j].n < stdout'[k].n
  <2>1. \A j \in 1..k - 1 : j \in 1..Len(stdout) /\ stdout'[j] = stdout[j]
    BY <1>3, <1>6
  <2>2. CASE k \in 1..Len(stdout)
    <3>1. /\ broadcast < stdout[k].n /\ stdout[k].n =< emitted
          /\ \A j \in 1..k - 1 : stdout[j] \in Event => stdout[j].n < stdout[k].n
      BY <1>3, <1>6, <2>2 DEF EventOrder
    <3>2. stdout[k].n =< emitted'
      BY <1>1, <1>3, <1>4, <1>5, <1>6, <2>2, <3>1
    <3> QED BY <1>3, <2>1, <2>2, <3>1, <3>2
  <2>3. CASE k = Len(stdout) + 1
    <3>1. stdout'[k].n = emitted + 1 /\ emitted' = emitted + 1
      BY <1>2, <1>3, <1>6, <2>3
    <3>2. \A j \in 1..k - 1 : stdout[j] \in Event => stdout[j].n =< emitted /\ stdout[j].n \in Nat
      BY <1>4, <2>1 DEF EventOrder
    <3> QED BY <1>1, <2>1, <3>1, <3>2 DEF EventOrder
  <2> QED BY <1>3, <1>6, <2>2, <2>3
<1>7. broadcast =< emitted'
  BY <1>1, <1>5 DEF EventOrder
<1> QED BY <1>6, <1>7 DEF EventOrder

\* Every step keeps the events in the order Pi emitted them.
LEMMA EventOrderNext ==
    ASSUME TypeOK, EventOrder, [Next]_vars
    PROVE EventOrder'
<1>1. ASSUME NEW c \in Callers, CallStep(c) PROVE EventOrder'
  <2>1. UNCHANGED <<stdout, emitted, broadcast>>
    BY <1>1 DEF CallStep, StartCommand, Register, StartUIResponse, LockWrite, Write, GiveUp,
                TakeResponse, TakeZero, RemovePending, CancelCall, loopVars, piVars
  <2> QED BY <2>1 DEF EventOrder
<1>2. ASSUME NEW s \in Subs, SubStep(s) PROVE EventOrder'
  <2>1. UNCHANGED <<stdout, emitted, broadcast>>
    BY <1>2 DEF SubStep, Subscribe, CancelSubscription, WatcherWakes, WatcherUnsubscribes,
                Receive, ConsumerEnds, loopVars, piVars
  <2> QED BY <2>1 DEF EventOrder
<1>3. ASSUME NEW x \in Closers, CloseStep(x) PROVE EventOrder'
  <2>1. UNCHANGED <<stdout, emitted, broadcast>>
    BY <1>3 DEF CloseStep, CloseBegin, CloseSignal, CloseReturn, loopVars, piVars
  <2> QED BY <2>1 DEF EventOrder
<1>4. CASE LoopStep
  <2>1. CASE ReadResponse
    BY <2>1, EventOrderTakes DEF ReadResponse
  <2>2. CASE ReadEvent
    BY <2>2, EventOrderTakes DEF ReadEvent
  <2>3. CASE Reap
    <3>1. PICK kept \in 0..Len(stdout) : stdout' = SubSeq(stdout, 1, kept)
      BY <2>3 DEF Reap
    <3>2. /\ \A k \in 1..Len(stdout') : k \in 1..Len(stdout) /\ stdout'[k] = stdout[k]
          /\ UNCHANGED <<emitted, broadcast>>
      BY <2>3, <3>1 DEF Reap, TypeOK, PiType
    <3>3. \A k \in 1..Len(stdout') : \A j \in 1..k - 1 : stdout'[j] = stdout[j]
      BY <3>1 DEF TypeOK, PiType
    <3> HIDE DEF Event
    <3> QED BY <3>2, <3>3 DEF EventOrder
  <2>4. CASE ReaderSends \/ ReaderCloses \/ ReaderStops \/ Drain \/ CloseDone
    <3>1. UNCHANGED <<stdout, emitted, broadcast>>
      BY <2>4 DEF ReaderSends, ReaderCloses, ReaderStops, Drain, CloseDone, piVars
    <3> QED BY <3>1 DEF EventOrder
  <2> QED BY <1>4, <2>1, <2>2, <2>3, <2>4 DEF LoopStep
<1>5. CASE PiStep
  <2>1. ASSUME NEW i \in ReqIds, NEW reply \in PiReplies, PiAnswers(i, reply) PROVE EventOrder'
    BY <2>1, EventOrderAppends, BoundsAssumption DEF PiAnswers, loopVars
  <2>2. CASE PiEmits
    BY <2>2, EventOrderAppends DEF PiEmits, loopVars
  <2>3. CASE PiTakes \/ PiExits
    <3>1. UNCHANGED <<stdout, emitted, broadcast>>
      BY <2>3 DEF PiTakes, PiExits, loopVars
    <3> QED BY <3>1 DEF EventOrder
  <2> QED BY <1>5, <2>1, <2>2, <2>3 DEF PiStep
<1>6. CASE Finished \/ UNCHANGED vars
  <2>1. UNCHANGED <<stdout, emitted, broadcast>>
    BY <1>6 DEF Finished, vars, loopVars, piVars
  <2> QED BY <2>1 DEF EventOrder
<1> QED BY <1>1, <1>2, <1>3, <1>4, <1>5, <1>6 DEF Next

---------------------------------------------------------------------------
(* Results.                                                                 *)

\* A call that returns a result has been the only one of its request, and is in
\* progress no more.
LEMMA ResultsReturn ==
    ASSUME TypeOK, ResponseOwnership, Results, NEW c \in Callers, NEW result, Active(c),
           Return(c, result), UNCHANGED <<nextID, op, req>>
    PROVE Results'
<1>1. /\ req[c] \in ReqIds /\ outcome' = [outcome EXCEPT ![req[c]] = result]
      /\ pc' = [pc EXCEPT ![c] = "idle"]
  BY DEF Return, Goto, Active, TypeOK, CallType
<1>2. req[c] =< nextID /\ nextID \in Nat
  BY BoundsAssumption DEF ResponseOwnership, TypeOK, HandleType
<1>3. \A d \in Callers : Active(d)' => d # c /\ Active(d) /\ req[d] # req[c] /\ req[d] \in ReqIds
  BY <1>1 DEF Active, ResponseOwnership, TypeOK, CallType
<1>4. \A i \in ReqIds : i > nextID => outcome'[i] = "none"
  BY <1>1, <1>2 DEF Results, TypeOK, CallType
<1>5. \A d \in Callers : Active(d)' => outcome'[req[d]] = "none"
  BY <1>1, <1>3 DEF Results, TypeOK, CallType
<1> QED BY <1>4, <1>5 DEF Results

\* Other steps at most end calls in progress without a result.
LEMMA ResultsSame ==
    ASSUME Results, UNCHANGED <<nextID, op, outcome>>,
           \A c \in Callers : Active(c)' => Active(c) /\ req'[c] = req[c]
    PROVE Results'
BY DEF Results

\* Every step of a call keeps track of its result.
LEMMA ResultsNext ==
    ASSUME TypeOK, ResponseOwnership, Results, [Next]_vars
    PROVE Results'
<1>1. ASSUME NEW c \in Callers, CallStep(c) PROVE Results'
  <2>0. req \in [Callers -> ReqIds \cup {UIMessage}] /\ op \in [ReqIds -> {"none", "prompt", "query"}]
        /\ nextID \in Nat
        /\ pc \in [Callers -> {"idle", "register", "lock", "write", "wait", "remove"}]
    BY BoundsAssumption DEF TypeOK, CallType, HandleType
  <2>1. ASSUME NEW kind \in {"prompt", "query"}, StartCommand(c, kind) PROVE Results'
    <3>1. /\ nextID' = nextID + 1 /\ nextID + 1 \in ReqIds /\ UNCHANGED outcome
          /\ req' = [req EXCEPT ![c] = nextID + 1] /\ op' = [op EXCEPT ![nextID + 1] = kind]
          /\ pc' = [pc EXCEPT ![c] = "register"]
      BY <2>0, <2>1, BoundsAssumption DEF StartCommand, TakeId, Goto
    <3>2. \A i \in ReqIds : op'[i] = "none" <=> i > nextID'
      BY <2>0, <3>1 DEF Results
    <3>3. \A i \in ReqIds : i > nextID' => outcome'[i] = "none"
      BY <2>0, <3>1 DEF Results
    <3>4. \A d \in Callers : Active(d)' => outcome'[req'[d]] = "none"
      BY <2>0, <3>1 DEF Results, Active
    <3> QED BY <3>2, <3>3, <3>4 DEF Results
  <2>2. CASE Register(c)
    <3>1. Active(c) /\ UNCHANGED <<nextID, op, req>>
      BY <2>2 DEF Register, Active, TypeOK, CallType
    <3>2. CASE Return(c, "error")
      BY <3>1, <3>2, ResultsReturn
    <3>3. CASE Goto(c, "lock") /\ UNCHANGED outcome
      <4>1. \A d \in Callers : Active(d)' => Active(d)
        BY <2>0, <3>1, <3>3 DEF Goto, Active
      <4> QED BY <3>1, <3>3, <4>1, ResultsSame
    <3> QED BY <2>2, <3>2, <3>3 DEF Register
  <2>3. CASE StartUIResponse(c)
    <3>1. /\ UNCHANGED <<nextID, op, outcome>>
          /\ req' = [req EXCEPT ![c] = UIMessage] /\ pc' = [pc EXCEPT ![c] = "lock"]
      BY <2>3 DEF StartUIResponse, Goto, handleVars, callHistory
    <3>2. \A d \in Callers : Active(d)' => Active(d) /\ req'[d] = req[d]
      BY <2>0, <3>1 DEF Active
    <3> QED BY <3>1, <3>2, ResultsSame
  <2>4. CASE LockWrite(c) \/ Write(c) \/ GiveUp(c)
    <3>1. /\ UNCHANGED <<nextID, op, outcome, req>> /\ pc[c] # "idle"
          /\ \E label : pc' = [pc EXCEPT ![c] = label]
      BY <2>4 DEF LockWrite, Write, GiveUp, GoRemovePending, Goto, handleVars, callHistory
    <3>2. \A d \in Callers : Active(d)' => Active(d)
      BY <2>0, <3>1 DEF Active
    <3> QED BY <3>1, <3>2, ResultsSame
  <2>5. CASE TakeResponse(c) \/ TakeZero(c) \/ RemovePending(c)
    <3>1. /\ Active(c) /\ UNCHANGED <<nextID, op, req>>
          /\ \E result : Return(c, result)
      BY <2>5 DEF TakeResponse, TakeZero, RemovePending, Active, TypeOK, CallType, handleVars
    <3> QED BY <3>1, ResultsReturn
  <2>6. CASE CancelCall(c)
    <3>1. UNCHANGED <<nextID, op, outcome, req, pc>>
      BY <2>6 DEF CancelCall, handleVars, callHistory
    <3> QED BY <3>1, ResultsSame DEF Active
  <2> QED BY <1>1, <2>1, <2>2, <2>3, <2>4, <2>5, <2>6 DEF CallStep
<1>2. ASSUME UNCHANGED <<nextID, op, outcome, req, pc>> PROVE Results'
  BY <1>2, ResultsSame DEF Active
<1>3. ASSUME NEW s \in Subs, SubStep(s) PROVE Results'
  BY <1>2, <1>3 DEF SubStep, Subscribe, CancelSubscription, WatcherWakes, WatcherUnsubscribes,
                    Receive, ConsumerEnds, handleVars, callVars, callHistory
<1>4. ASSUME NEW x \in Closers, CloseStep(x) PROVE Results'
  BY <1>2, <1>4 DEF CloseStep, CloseBegin, CloseSignal, CloseReturn, handleVars, callVars, callHistory
<1>5. CASE LoopStep
  BY <1>2, <1>5 DEF LoopStep, ReadResponse, ReaderSends, ReaderCloses, ReadEvent, ReaderStops,
                    Reap, Drain, CloseDone, handleVars, callVars, callHistory
<1>6. CASE PiStep
  BY <1>2, <1>6 DEF PiStep, PiTakes, PiAnswers, PiEmits, PiExits, handleVars, callVars, callHistory
<1>7. CASE Finished \/ UNCHANGED vars
  BY <1>2, <1>7 DEF Finished, vars, handleVars, callVars, callHistory
<1> QED BY <1>1, <1>3, <1>4, <1>5, <1>6, <1>7 DEF Next

---------------------------------------------------------------------------
(* What Pi has not judged yet.                                              *)

\* Nothing is sent and nothing judged, and calls move on.
LEMMA UnjudgedSame ==
    ASSUME Unjudged, UNCHANGED <<nextID, stdin, working, answered>>,
           \A c \in Callers : Active(c)' /\ pc'[c] \in {"register", "lock", "write"} =>
               Active(c) /\ pc[c] \in {"register", "lock", "write"} /\ req'[c] = req[c]
    PROVE Unjudged'
BY DEF Unjudged, Unseen

\* A line goes into the pipe, for the request that its caller has just sent.
LEMMA UnjudgedWrite ==
    ASSUME TypeOK, ResponseOwnership, Unjudged, NEW c \in Callers, Write(c),
           stdin' = Append(stdin, req[c])
    PROVE Unjudged'
<1>0. /\ req \in [Callers -> ReqIds \cup {UIMessage}] /\ stdin \in Seq(ReqIds \cup {UIMessage})
      /\ nextID \in Nat /\ pc \in [Callers -> {"idle", "register", "lock", "write", "wait", "remove"}]
  BY BoundsAssumption DEF TypeOK, CallType, PiType, HandleType
<1>1. /\ UNCHANGED <<nextID, req, working, answered>> /\ pc[c] = "write"
      /\ \E label \in {"idle", "wait", "remove"} : pc' = [pc EXCEPT ![c] = label]
  BY DEF Write, Goto, handleVars
<1>2. /\ Len(stdin') = Len(stdin) + 1 /\ Len(stdin) \in Nat /\ stdin'[Len(stdin) + 1] = req[c]
      /\ \A k \in 1..Len(stdin) : stdin'[k] = stdin[k]
  BY <1>0, AppendPlaces
<1>3. \A k \in 1..Len(stdin') : k \in 1..Len(stdin) \/ k = Len(stdin) + 1
  BY <1>2
<1>4. \A i \in ReqIds : Unseen(i) /\ i # req[c] => Unseen(i)'
  BY <1>1, <1>2, <1>3 DEF Unseen
<1>5. req[c] # UIMessage => Unseen(req[c]) /\ req[c] =< nextID
  BY <1>0, <1>1 DEF Unjudged, Active, ResponseOwnership
<1>6. \A i \in ReqIds : i > nextID => Unseen(i)'
  BY <1>0, <1>4, <1>5 DEF Unjudged
<1>7. \A d \in Callers : Active(d)' /\ pc'[d] \in {"register", "lock", "write"} => Unseen(req[d])'
  <2>1. \A d \in Callers : Active(d)' /\ pc'[d] \in {"register", "lock", "write"} =>
            d # c /\ Active(d) /\ pc[d] \in {"register", "lock", "write"} /\ req[d] \in ReqIds
    BY <1>0, <1>1 DEF Active
  <2>2. \A d \in Callers : Active(d) /\ d # c => req[d] # req[c]
    BY <1>1 DEF ResponseOwnership, Active
  <2> QED BY <1>1, <1>4, <2>1, <2>2 DEF Unjudged
<1>8. ASSUME NEW k \in 1..Len(stdin'), stdin'[k] # UIMessage
      PROVE /\ answered[stdin'[k]] = NoReply /\ stdin'[k] \notin working
            /\ \A j \in 1..Len(stdin') : stdin'[j] = stdin'[k] => j = k
  <2>1. CASE k = Len(stdin) + 1
    <3>1. stdin'[k] = req[c] /\ Unseen(req[c])
      BY <1>2, <1>5, <1>8, <2>1
    <3> QED BY <1>2, <1>3, <2>1, <3>1 DEF Unseen
  <2>2. CASE k \in 1..Len(stdin)
    <3>1. /\ stdin'[k] = stdin[k] /\ stdin[k] # UIMessage
          /\ answered[stdin[k]] = NoReply /\ stdin[k] \notin working
          /\ \A j \in 1..Len(stdin) : stdin[j] = stdin[k] => j = k
      BY <1>2, <1>8, <2>2 DEF Unjudged
    <3>2. stdin'[Len(stdin) + 1] # stdin[k]
      BY <1>2, <1>5, <2>2, <3>1 DEF Unseen
    <3> QED BY <1>2, <1>3, <3>1, <3>2
  <2> QED BY <1>3, <2>1, <2>2
<1> QED BY <1>1, <1>6, <1>7, <1>8 DEF Unjudged

\* Pi takes the first line.
LEMMA UnjudgedPiTakes ==
    ASSUME TypeOK, Unjudged, PiTakes
    PROVE Unjudged'
<1>0. stdin \in Seq(ReqIds \cup {UIMessage}) /\ stdin # <<>> /\ stdin' = Tail(stdin)
      /\ working' = working \cup ({Head(stdin)} \ {UIMessage})
      /\ UNCHANGED <<nextID, pc, req, answered>>
  BY DEF PiTakes, TypeOK, PiType, handleVars, callVars
<1>1. /\ Head(stdin) = stdin[1] /\ Len(stdin') = Len(stdin) - 1 /\ 1 \in 1..Len(stdin)
      /\ Len(stdin) \in Nat
      /\ \A k \in 1..Len(stdin') : k + 1 \in 1..Len(stdin) /\ stdin'[k] = stdin[k + 1]
  BY <1>0, TailPlaces
<1>2. \A i \in ReqIds : Unseen(i) => Unseen(i)'
  BY <1>0, <1>1 DEF Unseen
<1>3. ASSUME NEW k \in 1..Len(stdin'), stdin'[k] # UIMessage
      PROVE /\ answered[stdin'[k]] = NoReply /\ stdin'[k] \notin working'
            /\ \A j \in 1..Len(stdin') : stdin'[j] = stdin'[k] => j = k
  <2>1. /\ k + 1 \in 1..Len(stdin) /\ stdin[k + 1] # UIMessage /\ stdin'[k] = stdin[k + 1]
    BY <1>1, <1>3
  <2>2. /\ answered[stdin[k + 1]] = NoReply /\ stdin[k + 1] \notin working
        /\ \A j \in 1..Len(stdin) : stdin[j] = stdin[k + 1] => j = k + 1
    BY <2>1 DEF Unjudged
  <2>3. stdin[1] # stdin[k + 1]
    BY <1>1, <1>3, <2>2
  <2>4. ASSUME NEW j \in 1..Len(stdin'), stdin'[j] = stdin'[k] PROVE j = k
    <3>1. j + 1 = k + 1
      BY <1>1, <2>1, <2>2, <2>4
    <3> QED BY <1>1, <1>3, <2>4, <3>1
  <2> QED BY <1>0, <1>1, <2>1, <2>2, <2>3, <2>4
<1>4. \A i \in working' : answered[i] = NoReply
  BY <1>0, <1>1 DEF Unjudged
<1>5. \A c \in Callers : Active(c) => req[c] \in ReqIds
  BY DEF Active, TypeOK, CallType
<1> QED BY <1>0, <1>2, <1>3, <1>4, <1>5 DEF Unjudged, Active

\* Pi judges a request it has.
LEMMA UnjudgedPiAnswers ==
    ASSUME TypeOK, Unjudged, NEW i \in ReqIds, NEW reply \in PiReplies, PiAnswers(i, reply)
    PROVE Unjudged'
<1>1. /\ i \in working /\ working' = working \ {i} /\ UNCHANGED <<nextID, pc, req, stdin>>
      /\ \A j \in ReqIds : j # i => answered'[j] = answered[j]
  BY DEF PiAnswers, TypeOK, PiType, handleVars, callVars
<1>2. \A j \in ReqIds : Unseen(j) => Unseen(j)'
  BY <1>1 DEF Unseen
<1>3. stdin \in Seq(ReqIds \cup {UIMessage}) /\ working \subseteq ReqIds
  BY DEF TypeOK, PiType
<1>4. \A k \in 1..Len(stdin) : stdin[k] \in ReqIds \cup {UIMessage}
  BY <1>3
<1>5. \A c \in Callers : Active(c) => req[c] \in ReqIds
  BY DEF Active, TypeOK, CallType
<1> QED BY <1>1, <1>2, <1>3, <1>4, <1>5 DEF Unjudged, Active

\* Every step keeps what Pi has not judged apart from what it has.
LEMMA UnjudgedNext ==
    ASSUME TypeOK, ResponseOwnership, Unjudged, [Next]_vars
    PROVE Unjudged'
<1>1. ASSUME NEW c \in Callers, CallStep(c) PROVE Unjudged'
  <2>0. req \in [Callers -> ReqIds \cup {UIMessage}] /\ nextID \in Nat
        /\ pc \in [Callers -> {"idle", "register", "lock", "write", "wait", "remove"}]
    BY BoundsAssumption DEF TypeOK, CallType, HandleType
  <2>1. ASSUME NEW kind \in {"prompt", "query"}, StartCommand(c, kind) PROVE Unjudged'
    <3>1. /\ nextID' = nextID + 1 /\ nextID + 1 \in ReqIds /\ UNCHANGED <<stdin, working, answered>>
          /\ req' = [req EXCEPT ![c] = nextID + 1] /\ pc' = [pc EXCEPT ![c] = "register"]
      BY <2>0, <2>1, BoundsAssumption DEF StartCommand, TakeId, Goto, piVars
    <3>2. \A i \in ReqIds : Unseen(i) => Unseen(i)'
      BY <3>1 DEF Unseen
    <3>3. \A d \in Callers : \A i \in ReqIds :
              Active(d)' /\ pc'[d] \in {"register", "lock", "write"} /\ req'[d] = i => Unseen(i)'
      <4> SUFFICES ASSUME NEW d \in Callers, NEW i \in ReqIds, Active(d)',
                          pc'[d] \in {"register", "lock", "write"}, req'[d] = i
                   PROVE Unseen(i)
        BY <3>2
      <4>1. CASE d = c
        <5>1. i = nextID + 1
          BY <2>0, <3>1, <4>1
        <5> QED BY <2>0, <5>1 DEF Unjudged
      <4>2. CASE d # c
        <5>1. Active(d) /\ pc[d] \in {"register", "lock", "write"} /\ req[d] = i
          BY <2>0, <3>1, <4>2 DEF Active
        <5> QED BY <5>1 DEF Unjudged
      <4> QED BY <4>1, <4>2
    <3>4. \A i \in ReqIds : i > nextID' => Unseen(i)'
      BY <2>0, <3>1, <3>2 DEF Unjudged
    <3>5. \A d \in Callers : Active(d)' => req'[d] \in ReqIds
      BY <2>0, <3>1 DEF Active
    <3>6. \A d \in Callers : Active(d)' /\ pc'[d] \in {"register", "lock", "write"} => Unseen(req[d])'
      BY <3>3, <3>5
    <3> QED BY <3>1, <3>4, <3>6 DEF Unjudged
  <2>2. CASE Register(c)
    <3>1. /\ UNCHANGED <<nextID, req, stdin, working, answered>> /\ pc[c] = "register"
          /\ \E label : pc' = [pc EXCEPT ![c] = label]
      BY <2>2 DEF Register, Return, Goto, piVars
    <3>2. \A d \in Callers : pc'[d] # "idle" /\ pc'[d] \in {"register", "lock", "write"} =>
              pc[d] # "idle" /\ pc[d] \in {"register", "lock", "write"}
      BY <2>0, <3>1
    <3> QED BY <3>1, <3>2, UnjudgedSame DEF Active
  <2>3. CASE StartUIResponse(c)
    <3>1. /\ UNCHANGED <<nextID, stdin, working, answered>>
          /\ req' = [req EXCEPT ![c] = UIMessage] /\ pc' = [pc EXCEPT ![c] = "lock"]
      BY <2>3 DEF StartUIResponse, Goto, handleVars, piVars
    <3>2. \A d \in Callers : Active(d)' => d # c /\ Active(d) /\ pc'[d] = pc[d] /\ req'[d] = req[d]
      BY <2>0, <3>1 DEF Active
    <3> QED BY <3>1, <3>2, UnjudgedSame
  <2>4. CASE Write(c)
    <3>1. CASE stdin' = Append(stdin, req[c])
      BY <2>4, <3>1, UnjudgedWrite
    <3>2. CASE UNCHANGED stdin
      <4>1. /\ UNCHANGED <<nextID, req, working, answered>>
            /\ \E label \in {"idle", "wait", "remove"} : pc' = [pc EXCEPT ![c] = label]
        BY <2>4 DEF Write, Goto, handleVars
      <4>2. \A d \in Callers : pc'[d] \in {"register", "lock", "write"} => pc'[d] = pc[d]
        BY <2>0, <4>1
      <4> QED BY <3>2, <4>1, <4>2, UnjudgedSame DEF Active
    <3> QED BY <2>4, <3>1, <3>2 DEF Write
  <2>5. CASE LockWrite(c)
    <3>1. /\ UNCHANGED <<nextID, req, stdin, working, answered>>
          /\ pc[c] = "lock" /\ pc' = [pc EXCEPT ![c] = "write"]
      BY <2>5 DEF LockWrite, Goto, handleVars, piVars
    <3>2. \A d \in Callers : pc'[d] \in {"register", "lock", "write"} =>
              pc[d] \in {"register", "lock", "write"} /\ pc[d] # "idle"
      BY <2>0, <3>1
    <3> QED BY <3>1, <3>2, UnjudgedSame DEF Active
  <2>6. CASE GiveUp(c) \/ TakeResponse(c) \/ TakeZero(c) \/ RemovePending(c)
    <3>1. /\ UNCHANGED <<nextID, req, stdin, working, answered>>
          /\ \E label \in {"idle", "remove"} : pc' = [pc EXCEPT ![c] = label]
      BY <2>6 DEF GiveUp, TakeResponse, TakeZero, RemovePending, GoRemovePending, Return, Goto,
                  handleVars, piVars
    <3>2. \A d \in Callers : pc'[d] \in {"register", "lock", "write"} => pc'[d] = pc[d]
      BY <2>0, <3>1
    <3> QED BY <3>1, <3>2, UnjudgedSame DEF Active
  <2>7. CASE CancelCall(c)
    BY <2>7, UnjudgedSame DEF CancelCall, Active, handleVars, piVars
  <2> QED BY <1>1, <2>1, <2>2, <2>3, <2>4, <2>5, <2>6, <2>7 DEF CallStep
<1>2. ASSUME UNCHANGED <<nextID, req, pc, stdin, working, answered>> PROVE Unjudged'
  BY <1>2, UnjudgedSame DEF Active
<1>3. ASSUME NEW s \in Subs, SubStep(s) PROVE Unjudged'
  BY <1>2, <1>3 DEF SubStep, Subscribe, CancelSubscription, WatcherWakes, WatcherUnsubscribes,
                    Receive, ConsumerEnds, handleVars, callVars, piVars
<1>4. ASSUME NEW x \in Closers, CloseStep(x) PROVE Unjudged'
  BY <1>2, <1>4 DEF CloseStep, CloseBegin, CloseSignal, CloseReturn, handleVars, callVars, piVars
<1>5. CASE LoopStep
  BY <1>2, <1>5 DEF LoopStep, ReadResponse, ReaderSends, ReaderCloses, ReadEvent, ReaderStops,
                    Reap, Drain, CloseDone, handleVars, callVars, piVars
<1>6. CASE PiStep
  <2>1. CASE PiTakes
    BY <2>1, UnjudgedPiTakes
  <2>2. ASSUME NEW i \in ReqIds, NEW reply \in PiReplies, PiAnswers(i, reply) PROVE Unjudged'
    BY <2>2, UnjudgedPiAnswers
  <2>3. CASE PiEmits
    BY <1>2, <2>3 DEF PiEmits, handleVars, callVars
  <2>4. CASE PiExits
    <3>1. stdin' = <<>> /\ working' = {} /\ UNCHANGED <<nextID, req, pc, answered>>
      BY <2>4 DEF PiExits, handleVars, callVars
    <3>2. \A i : Unseen(i) => Unseen(i)'
      BY <3>1 DEF Unseen
    <3> QED BY <3>1, <3>2 DEF Unjudged, Active
  <2> QED BY <1>6, <2>1, <2>2, <2>3, <2>4 DEF PiStep
<1>7. CASE Finished \/ UNCHANGED vars
  BY <1>2, <1>7 DEF Finished, vars, handleVars, callVars, piVars
<1> QED BY <1>1, <1>3, <1>4, <1>5, <1>6, <1>7 DEF Next

---------------------------------------------------------------------------
(* What responses say.                                                      *)

\* Pi's answer agrees with what it had said before, which was nothing.
LEMMA TruthfulPiAnswers ==
    ASSUME TypeOK, Unjudged, Truthful, NEW i \in ReqIds, NEW reply \in PiReplies, PiAnswers(i, reply)
    PROVE Truthful'
<1> DEFINE env == [kind |-> "response", id |-> i, reply |-> reply]
<1>1. /\ stdout' = Append(stdout, env) /\ UNCHANGED <<reader, readerEnv, respBuf>>
      /\ answered' = [answered EXCEPT ![i] = reply]
      /\ answered[i] = NoReply /\ stdout \in Seq(Response \cup Event)
      /\ answered \in [ReqIds -> Reply \cup {NoReply}]
  BY DEF PiAnswers, Unjudged, TypeOK, PiType, loopVars, handleVars
<1>2. env \in Response /\ Says(env)'
  BY <1>1, BoundsAssumption DEF Says
<1>3. \A e \in Response : Says(e) => Says(e)'
  <2>1. \A e \in Response : e.reply # NoReply /\ e.id \in ReqIds
    BY DEF Reply, NoReply
  <2> QED BY <1>1, <2>1 DEF Says
<1>4. /\ Len(stdout') = Len(stdout) + 1 /\ stdout'[Len(stdout) + 1] = env /\ Len(stdout) \in Nat
      /\ \A k \in 1..Len(stdout) : stdout'[k] = stdout[k]
  BY <1>1, <1>2, AppendPlaces
<1>5. readerEnv \in Response \cup {NoEnv} /\ (reader \in {"send", "close"} => readerEnv \in Response)
      /\ \A j \in ReqIds : respBuf[j] # NoEnv => respBuf[j] \in Response
  BY DEF TypeOK, LoopType, HandleType
<1> HIDE DEF env
<1>6. \A e \in Response : \A k \in 1..Len(stdout') : stdout'[k] = e => Says(e)'
  BY <1>2, <1>3, <1>4 DEF Truthful
<1> QED BY <1>1, <1>3, <1>5, <1>6 DEF Truthful, Says

\* Reading, sending on and taking a response pass on what it says.
LEMMA TruthfulNext ==
    ASSUME TypeOK, Unjudged, Truthful, [Next]_vars
    PROVE Truthful'
<1>0. /\ readerEnv \in Response \cup {NoEnv} /\ (reader \in {"send", "close"} => readerEnv \in Response)
      /\ respBuf \in [ReqIds -> Response \cup {NoEnv}]
      /\ stdout \in Seq(Response \cup Event)
  BY DEF TypeOK, LoopType, HandleType, PiType
<1>1. ASSUME UNCHANGED <<stdout, reader, readerEnv, respBuf, answered>> PROVE Truthful'
  BY <1>1 DEF Truthful, Says
<1>2. ASSUME NEW c \in Callers, CallStep(c) PROVE Truthful'
  <2>1. CASE TakeResponse(c)
    <3>1. /\ UNCHANGED <<stdout, reader, readerEnv, answered>>
          /\ \A i \in ReqIds : respBuf'[i] \in {respBuf[i], NoEnv}
      BY <1>0, <2>1 DEF TakeResponse, loopVars, piVars
    <3> QED BY <3>1 DEF Truthful, Says
  <2>2. CASE ~TakeResponse(c)
    BY <1>1, <1>2, <2>2 DEF CallStep, StartCommand, Register, StartUIResponse, LockWrite, Write,
            GiveUp, TakeZero, RemovePending, CancelCall, handleVars, loopVars, piVars
  <2> QED BY <2>1, <2>2
<1>3. ASSUME NEW s \in Subs, SubStep(s) PROVE Truthful'
  BY <1>1, <1>3 DEF SubStep, Subscribe, CancelSubscription, WatcherWakes, WatcherUnsubscribes,
                    Receive, ConsumerEnds, handleVars, loopVars, piVars
<1>4. ASSUME NEW x \in Closers, CloseStep(x) PROVE Truthful'
  BY <1>1, <1>4 DEF CloseStep, CloseBegin, CloseSignal, CloseReturn, handleVars, loopVars, piVars
<1>5. CASE LoopStep
  <2>1. CASE ReadResponse \/ ReadEvent
    <3>1. /\ stdout # <<>> /\ stdout' = Tail(stdout) /\ UNCHANGED <<respBuf, answered>>
          /\ \/ UNCHANGED <<reader, readerEnv>>
             \/ readerEnv' = Head(stdout) /\ Head(stdout) \in Response
      BY <2>1 DEF ReadResponse, ReadEvent, handleVars
    <3>2. /\ Head(stdout) = stdout[1] /\ 1 \in 1..Len(stdout)
          /\ \A k \in 1..Len(stdout') : k + 1 \in 1..Len(stdout) /\ stdout'[k] = stdout[k + 1]
      BY <1>0, <3>1, TailPlaces
    <3>3. \A k \in 1..Len(stdout') : stdout'[k] \in Response => Says(stdout[k + 1])
      BY <3>2 DEF Truthful
    <3>4. Head(stdout) \in Response => Says(stdout[1])
      BY <3>2 DEF Truthful
    <3>5. reader' \in {"send", "close"} =>
              answered[readerEnv'.id] = readerEnv'.reply
      <4>1. CASE UNCHANGED <<reader, readerEnv>>
        BY <4>1 DEF Truthful, Says
      <4>2. CASE readerEnv' = Head(stdout) /\ Head(stdout) \in Response
        BY <3>2, <3>4, <4>2 DEF Says
      <4> QED BY <3>1, <4>1, <4>2
    <3>6. \A k \in 1..Len(stdout') : stdout'[k] \in Response =>
              answered[stdout'[k].id] = stdout'[k].reply
      BY <3>2, <3>3 DEF Says
    <3> HIDE DEF Response, NoEnv
    <3> QED BY <3>1, <3>5, <3>6 DEF Truthful, Says
  <2>2. CASE ReaderSends
    BY <1>0, <2>2 DEF ReaderSends, piVars, Truthful, Says
  <2>3. CASE ReaderCloses
    BY <2>3 DEF ReaderCloses, piVars, Truthful, Says
  <2>4. CASE ReaderStops
    BY <2>4 DEF ReaderStops, handleVars, piVars, Truthful, Says
  <2>5. CASE Reap
    <3>1. PICK kept \in 0..Len(stdout) : stdout' = SubSeq(stdout, 1, kept)
      BY <2>5 DEF Reap
    <3>2. \A k \in 1..Len(stdout') : k \in 1..Len(stdout) /\ stdout'[k] = stdout[k]
      BY <1>0, <3>1
    <3> QED BY <2>5, <3>2 DEF Reap, handleVars, Truthful, Says
  <2>6. CASE Drain \/ CloseDone
    BY <1>1, <2>6 DEF Drain, CloseDone, handleVars, piVars
  <2> QED BY <1>5, <2>1, <2>2, <2>3, <2>4, <2>5, <2>6 DEF LoopStep
<1>6. CASE PiStep
  <2>1. ASSUME NEW i \in ReqIds, NEW reply \in PiReplies, PiAnswers(i, reply) PROVE Truthful'
    BY <2>1, TruthfulPiAnswers
  <2>2. CASE PiEmits
    <3> DEFINE line == [kind |-> "event", n |-> emitted + 1]
    <3>1. stdout' = Append(stdout, line) /\ UNCHANGED <<reader, readerEnv, respBuf, answered>>
          /\ line \in Event
      BY <2>2, BoundsAssumption DEF PiEmits, handleVars, loopVars, TypeOK, PiType
    <3>2. line \notin Response
      OBVIOUS
    <3> HIDE DEF line
    <3>3. \A k \in 1..Len(stdout') : stdout'[k] \in Response =>
              k \in 1..Len(stdout) /\ stdout'[k] = stdout[k]
      BY <1>0, <3>1, <3>2, AppendPlaces
    <3> QED BY <3>1, <3>3 DEF Truthful, Says
  <2>3. CASE PiTakes \/ PiExits
    BY <1>1, <2>3 DEF PiTakes, PiExits, handleVars, loopVars
  <2> QED BY <1>6, <2>1, <2>2, <2>3 DEF PiStep
<1>7. CASE Finished \/ UNCHANGED vars
  BY <1>1, <1>7 DEF Finished, vars, handleVars, loopVars, piVars
<1> QED BY <1>2, <1>3, <1>4, <1>5, <1>6, <1>7 DEF Next

---------------------------------------------------------------------------
(* Causes.                                                                  *)

\* Calls end or go on, and no channel is emptied, closed or read from.
LEMMA CausesSame ==
    ASSUME Causes, UNCHANGED <<reader, readerEnv, respBuf, respClosed, done, waiter>>,
           pi' = pi \/ pi' = "exited",
           \A c \in Callers : Active(c)' => Active(c) /\ req'[c] = req[c],
           \A c \in Callers : pc'[c] = "remove" => ctxDone'[c] \/ pi = "exited"
    PROVE Causes'
<1>1. \A i : Served(i) => Served(i)'
  BY DEF Served
<1> QED BY <1>1 DEF Causes, Served

\* A call that takes its response is no more in progress, and was the only one.
LEMMA CausesTakeResponse ==
    ASSUME TypeOK, ResponseOwnership, Causes, NEW c \in Callers, TakeResponse(c)
    PROVE Causes'
<1>1. /\ pc[c] = "wait" /\ respBuf' = [respBuf EXCEPT ![req[c]] = NoEnv]
      /\ pc' = [pc EXCEPT ![c] = "idle"] /\ Active(c) /\ req[c] \in ReqIds
      /\ UNCHANGED <<reader, readerEnv, respClosed, done, waiter, pi, req, ctxDone>>
  BY DEF TakeResponse, Return, Goto, loopVars, piVars, Active, TypeOK, CallType
<1>2. \A d \in Callers : Active(d)' => d # c /\ Active(d) /\ req[d] # req[c]
  BY <1>1 DEF Active, ResponseOwnership, TypeOK, CallType
<1>3. \A i \in ReqIds : Served(i) => Served(i)'
  BY <1>1, <1>2 DEF Served, TypeOK, HandleType
<1>4. reader = "close" => readerEnv.id \in ReqIds
  BY DEF TypeOK, LoopType
<1>5. \A d \in Callers : pc'[d] = "remove" => pc[d] = "remove"
  BY <1>1 DEF TypeOK, CallType
<1> QED BY <1>1, <1>3, <1>4, <1>5 DEF Causes, Served

\* Nothing but the exit of Pi lets a call go unserved.
LEMMA CausesNext ==
    ASSUME TypeOK, ResponseOwnership, Causes, [Next]_vars
    PROVE Causes'
<1>1. ASSUME NEW c \in Callers, CallStep(c) PROVE Causes'
  <2>0. req \in [Callers -> ReqIds \cup {UIMessage}] /\ nextID \in Nat
        /\ ctxDone \in [Callers -> BOOLEAN] /\ respClosed \in [ReqIds -> BOOLEAN]
        /\ pc \in [Callers -> {"idle", "register", "lock", "write", "wait", "remove"}]
    BY BoundsAssumption DEF TypeOK, CallType, HandleType
  <2>1. ASSUME NEW kind \in {"prompt", "query"}, StartCommand(c, kind) PROVE Causes'
    <3>1. /\ nextID + 1 \in ReqIds /\ pc[c] = "idle"
          /\ UNCHANGED <<reader, readerEnv, respBuf, respClosed, done, waiter, pi>>
          /\ req' = [req EXCEPT ![c] = nextID + 1] /\ pc' = [pc EXCEPT ![c] = "register"]
          /\ ctxDone' = [ctxDone EXCEPT ![c] = FALSE]
      BY <2>0, <2>1, BoundsAssumption DEF StartCommand, TakeId, Goto, loopVars, piVars
    <3>2. \A d \in Callers : Active(d)' =>
              req'[d] = nextID + 1 \/ (Active(d) /\ req'[d] = req[d])
      BY <2>0, <3>1 DEF Active
    <3>3. \A i \in ReqIds : Served(i) /\ i # nextID + 1 => Served(i)'
      BY <3>1, <3>2 DEF Served
    <3>4. \A i \in ReqIds : respClosed[i] => i # nextID + 1
      BY <2>0 DEF ResponseOwnership, Fresh
    <3>5. reader = "close" => readerEnv.id \in ReqIds /\ readerEnv.id # nextID + 1
      BY <2>0 DEF ResponseOwnership, ReaderHolds, TypeOK, LoopType
    <3>6. \A d \in Callers : pc'[d] = "remove" => pc[d] = "remove" /\ ctxDone'[d] = ctxDone[d]
      BY <2>0, <3>1
    <3>7. \A i \in ReqIds : respClosed[i] => Served(i)' \/ pi = "exited"
      BY <3>3, <3>4 DEF Causes
    <3>8. reader = "close" => \A i \in ReqIds : readerEnv.id = i => Served(i)'
      BY <3>3, <3>5 DEF Causes
    <3> QED BY <3>1, <3>5, <3>6, <3>7, <3>8 DEF Causes, Served
  <2>2. CASE Register(c)
    <3>1. /\ UNCHANGED <<reader, readerEnv, respBuf, respClosed, done, waiter, pi, req, ctxDone>>
          /\ pc[c] = "register" /\ \E label \in {"idle", "lock"} : pc' = [pc EXCEPT ![c] = label]
      BY <2>2 DEF Register, Return, Goto, loopVars, piVars
    <3>2. \A d \in Callers : /\ Active(d)' => Active(d) /\ req'[d] = req[d]
                             /\ pc'[d] = "remove" => ctxDone'[d] \/ pi = "exited"
      BY <2>0, <3>1 DEF Active, Causes
    <3> QED BY <3>1, <3>2, CausesSame
  <2>3. CASE StartUIResponse(c)
    <3>1. /\ UNCHANGED <<reader, readerEnv, respBuf, respClosed, done, waiter, pi>>
          /\ req' = [req EXCEPT ![c] = UIMessage] /\ pc' = [pc EXCEPT ![c] = "lock"]
          /\ ctxDone' = [ctxDone EXCEPT ![c] = FALSE]
      BY <2>3 DEF StartUIResponse, Goto, handleVars, loopVars, piVars
    <3>2. \A d \in Callers : /\ Active(d)' => Active(d) /\ req'[d] = req[d]
                             /\ pc'[d] = "remove" => ctxDone'[d] \/ pi = "exited"
      BY <2>0, <3>1 DEF Active, Causes
    <3> QED BY <3>1, <3>2, CausesSame
  <2>4. CASE LockWrite(c)
    <3>1. /\ UNCHANGED <<reader, readerEnv, respBuf, respClosed, done, waiter, pi, req, ctxDone>>
          /\ pc[c] = "lock" /\ pc' = [pc EXCEPT ![c] = "write"]
      BY <2>4 DEF LockWrite, Goto, handleVars, loopVars, piVars
    <3>2. \A d \in Callers : /\ Active(d)' => Active(d) /\ req'[d] = req[d]
                             /\ pc'[d] = "remove" => ctxDone'[d] \/ pi = "exited"
      BY <2>0, <3>1 DEF Active, Causes
    <3> QED BY <3>1, <3>2, CausesSame
  <2>5. CASE Write(c)
    <3>1. /\ UNCHANGED <<reader, readerEnv, respBuf, respClosed, done, waiter, pi, req, ctxDone>>
          /\ pc[c] = "write"
          /\ \/ \E label \in {"idle", "wait"} : pc' = [pc EXCEPT ![c] = label]
             \/ pc' = [pc EXCEPT ![c] = "remove"] /\ pi = "exited"
      BY <2>5 DEF Write, Goto, handleVars, loopVars
    <3>2. \A d \in Callers : /\ Active(d)' => Active(d) /\ req'[d] = req[d]
                             /\ pc'[d] = "remove" => ctxDone'[d] \/ pi = "exited"
      BY <2>0, <3>1 DEF Active, Causes
    <3> QED BY <3>1, <3>2, CausesSame
  <2>6. CASE GiveUp(c)
    <3>1. /\ UNCHANGED <<reader, readerEnv, respBuf, respClosed, done, waiter, pi, req, ctxDone>>
          /\ pc[c] = "wait" /\ pc' = [pc EXCEPT ![c] = "remove"]
          /\ ctxDone[c] \/ done
      BY <2>6 DEF GiveUp, GoRemovePending, Wakes, Goto, handleVars, callVars, loopVars, piVars
    <3>2. \A d \in Callers : /\ Active(d)' => Active(d) /\ req'[d] = req[d]
                             /\ pc'[d] = "remove" => ctxDone'[d] \/ pi = "exited"
      BY <2>0, <3>1 DEF Active, Causes
    <3> QED BY <3>1, <3>2, CausesSame
  <2>7. CASE TakeResponse(c)
    BY <2>7, CausesTakeResponse
  <2>8. CASE TakeZero(c) \/ RemovePending(c)
    <3>1. /\ UNCHANGED <<reader, readerEnv, respBuf, respClosed, done, waiter, pi, req, ctxDone>>
          /\ pc' = [pc EXCEPT ![c] = "idle"]
      BY <2>8 DEF TakeZero, RemovePending, Return, Goto, handleVars, loopVars, piVars
    <3>2. \A d \in Callers : /\ Active(d)' => Active(d) /\ req'[d] = req[d]
                             /\ pc'[d] = "remove" => ctxDone'[d] \/ pi = "exited"
      BY <2>0, <3>1 DEF Active, Causes
    <3> QED BY <3>1, <3>2, CausesSame
  <2>9. CASE CancelCall(c)
    <3>1. /\ UNCHANGED <<reader, readerEnv, respBuf, respClosed, done, waiter, pi, req, pc>>
          /\ ctxDone' = [ctxDone EXCEPT ![c] = TRUE]
      BY <2>9 DEF CancelCall, handleVars, loopVars, piVars
    <3>2. \A d \in Callers : /\ Active(d)' => Active(d) /\ req'[d] = req[d]
                             /\ pc'[d] = "remove" => ctxDone'[d] \/ pi = "exited"
      BY <2>0, <3>1 DEF Active, Causes
    <3> QED BY <3>1, <3>2, CausesSame
  <2> QED BY <1>1, <2>1, <2>2, <2>3, <2>4, <2>5, <2>6, <2>7, <2>8, <2>9 DEF CallStep
<1>2. ASSUME pi' = pi \/ pi' = "exited",
             UNCHANGED <<reader, readerEnv, respBuf, respClosed, done, waiter, req, pc, ctxDone>>
      PROVE Causes'
  BY <1>2, CausesSame DEF Active, Causes
<1>3. ASSUME NEW s \in Subs, SubStep(s) PROVE Causes'
  BY <1>2, <1>3 DEF SubStep, Subscribe, CancelSubscription, WatcherWakes, WatcherUnsubscribes,
                    Receive, ConsumerEnds, handleVars, callVars, loopVars, piVars
<1>4. ASSUME NEW x \in Closers, CloseStep(x) PROVE Causes'
  BY <1>2, <1>4 DEF CloseStep, CloseBegin, MarkClosed, CloseSignal, CloseReturn, handleVars,
                    callVars, loopVars, piVars
<1>5. CASE LoopStep
  <2>1. CASE ReadResponse \/ ReadEvent \/ ReaderStops
    <3>1. /\ UNCHANGED <<respBuf, respClosed, done, waiter, req, pc, ctxDone, pi>>
          /\ reader' # "close"
      BY <2>1 DEF ReadResponse, ReadEvent, ReaderStops, handleVars, callVars, piVars
    <3> QED BY <3>1 DEF Causes, Served, Active
  <2>2. CASE ReaderSends
    <3>1. /\ UNCHANGED <<respClosed, done, waiter, req, pc, ctxDone, pi, readerEnv>>
          /\ respBuf' = [respBuf EXCEPT ![readerEnv.id] = readerEnv]
          /\ readerEnv \in Response
      BY <2>2 DEF ReaderSends, callVars, piVars, TypeOK, LoopType
    <3>2. respBuf'[readerEnv.id] # NoEnv
      BY <3>1 DEF TypeOK, HandleType
    <3>3. \A i \in ReqIds : respBuf[i] # NoEnv => respBuf'[i] # NoEnv
      BY <3>1 DEF TypeOK, HandleType
    <3> QED BY <3>1, <3>2, <3>3 DEF Causes, Served, Active
  <2>3. CASE ReaderCloses
    <3>1. /\ UNCHANGED <<respBuf, done, waiter, req, pc, ctxDone, pi>>
          /\ reader' # "close" /\ reader = "close"
          /\ \A i \in ReqIds : respClosed'[i] => respClosed[i] \/ readerEnv.id = i
      BY <2>3 DEF ReaderCloses, callVars, piVars, TypeOK, HandleType
    <3> QED BY <3>1 DEF Causes, Served, Active
  <2>4. CASE Reap
    BY <2>4 DEF Reap, handleVars, callVars, Causes, Served, Active
  <2>5. CASE Drain
    <3>1. /\ UNCHANGED <<respBuf, done, req, pc, ctxDone, pi, reader, readerEnv>>
          /\ pi = "exited"
      BY <2>5 DEF Drain, callVars, piVars, Causes
    <3> QED BY <3>1 DEF Causes, Served, Active
  <2>6. CASE CloseDone
    <3>1. /\ UNCHANGED <<respBuf, respClosed, req, pc, ctxDone, pi, reader, readerEnv>>
          /\ pi = "exited"
      BY <2>6 DEF CloseDone, callVars, piVars, Causes
    <3> QED BY <3>1 DEF Causes, Served, Active
  <2> QED BY <1>5, <2>1, <2>2, <2>3, <2>4, <2>5, <2>6 DEF LoopStep
<1>6. CASE PiStep
  BY <1>2, <1>6 DEF PiStep, PiTakes, PiAnswers, PiEmits, PiExits, handleVars, callVars, loopVars
<1>7. CASE Finished \/ UNCHANGED vars
  BY <1>2, <1>7 DEF Finished, vars, handleVars, callVars, loopVars, piVars
<1> QED BY <1>1, <1>3, <1>4, <1>5, <1>6, <1>7 DEF Next

---------------------------------------------------------------------------
(* The promises together.                                                   *)

\* The inductive invariant behind the refinements of a handle: what it keeps of
\* its channels (IInv) and what it has promised.
THEOREM PromisedInductive == Spec => [](IInv /\ Promised)
<1>1. Init => IInv /\ Promised
  BY TypeInit, ResponseOwnershipInit, SubscriberOwnershipInit, WaitLoopProgressInit,
     PromisedInit DEF IInv
<1>2. IInv /\ Promised /\ [Next]_vars => (IInv /\ Promised)'
  <2>1. ASSUME IInv, [Next]_vars PROVE IInv'
    BY <2>1, TypeNext, ResponseOwnershipNext, SubscriberOwnershipNext, WaitLoopProgressNext DEF IInv
  <2>2. ASSUME IInv, Promised, [Next]_vars PROVE Promised'
    BY <2>2, EventOrderNext, ResultsNext, UnjudgedNext, TruthfulNext, CausesNext DEF IInv, Promised
  <2> QED BY <2>1, <2>2
<1> QED BY <1>1, <1>2, PTL DEF Spec

\* A call may return with this result: an error has a cause, a success comes from
\* an answer of Pi's or from a channel closed because Pi has exited.
Taken(i) ==
    /\ answered[i].success \in {"true", "absent"}
    /\ op[i] = "query" => answered[i].decodes
Justified(c, result) ==
    \/ /\ result = "error"
       /\ \/ TurnedDown(req[c]) \/ pi = "exited" \/ ctxDone[c]
          \/ pc[c] = "register" /\ closed
    \/ /\ result = "ok"
       /\ Taken(req[c]) \/ (op[req[c]] = "prompt" /\ pi = "exited")

\* Only a call in progress gets a result, a first one and a justified one, and
\* nothing else changes for its request.
LEMMA ResultJustified ==
    ASSUME IInv, Promised, NEW c \in Callers, CallStep(c), outcome' # outcome
    PROVE \E result \in {"ok", "error"} :
              /\ Active(c) /\ req[c] \in ReqIds /\ outcome[req[c]] = "none"
              /\ outcome' = [outcome EXCEPT ![req[c]] = result]
              /\ Justified(c, result)
              /\ UNCHANGED <<op, answered, pi>>
<1>0. TypeOK /\ Truthful /\ Causes /\ Results
  BY DEF IInv, Promised
<1>1. /\ req[c] \in ReqIds \cup {UIMessage}
      /\ pc[c] \in {"register", "wait", "remove"} =>
            req[c] \in ReqIds /\ Active(c) /\ outcome[req[c]] = "none"
      /\ respBuf \in [ReqIds -> Response \cup {NoEnv}]
  BY <1>0 DEF TypeOK, CallType, HandleType, Active, Results
<1>2. CASE Register(c)
  <2>1. /\ pc[c] = "register" /\ closed /\ Return(c, "error") /\ UNCHANGED <<op, answered, pi>>
    BY <1>2 DEF Register, Refuses, piVars
  <2> QED BY <1>1, <2>1 DEF Return, Justified
<1>3. CASE TakeResponse(c)
  <2> DEFINE env == respBuf[req[c]]
             result == Verdict(op[req[c]], env.reply)
  <2>1. pc[c] = "wait" /\ env # NoEnv /\ Return(c, result) /\ UNCHANGED <<op, answered, pi>>
    BY <1>3 DEF TakeResponse, piVars
  <2>2. env.reply \in Reply /\ answered[req[c]] = env.reply
    BY <1>0, <1>1, <2>1 DEF Truthful, Says
  <2>3. /\ env.reply.success \in {"true", "false", "absent"} /\ env.reply # NoReply
        /\ result \in {"ok", "error"}
    BY <2>2 DEF Reply, NoReply, Verdict
  <2>4. Justified(c, result)
    <3>1. CASE TurnedDown(req[c])
      BY <2>2, <2>3, <3>1 DEF Justified, Verdict, Refused, TurnedDown
    <3>2. CASE ~TurnedDown(req[c])
      BY <2>2, <2>3, <3>2 DEF Justified, Verdict, Refused, TurnedDown, Taken
    <3> QED BY <3>1, <3>2
  <2> HIDE DEF result
  <2> QED BY <1>1, <2>1, <2>3, <2>4 DEF Return
<1>4. CASE TakeZero(c)
  <2>1. /\ pc[c] = "wait" /\ respBuf[req[c]] = NoEnv /\ respClosed[req[c]]
        /\ Return(c, ZeroOutcome(c)) /\ UNCHANGED <<op, answered, pi>>
    BY <1>4 DEF TakeZero, piVars
  <2>2. pi = "exited"
    BY <1>0, <1>1, <2>1 DEF Causes, Served
  <2>3. Justified(c, ZeroOutcome(c)) /\ ZeroOutcome(c) \in {"ok", "error"}
    BY <2>2 DEF Justified, ZeroOutcome
  <2> QED BY <1>1, <2>1, <2>3 DEF Return
<1>5. CASE RemovePending(c)
  <2>1. /\ pc[c] = "remove" /\ Return(c, "error") /\ UNCHANGED <<op, answered, pi>>
    BY <1>5 DEF RemovePending, piVars
  <2>2. ctxDone[c] \/ pi = "exited"
    BY <1>0, <2>1 DEF Causes
  <2> QED BY <1>1, <2>1, <2>2 DEF Return, Justified
<1>6. ~ \/ \E kind \in {"prompt", "query"} : StartCommand(c, kind)
        \/ StartUIResponse(c) \/ LockWrite(c) \/ Write(c) \/ GiveUp(c) \/ CancelCall(c)
  BY DEF StartCommand, StartUIResponse, LockWrite, Write, GiveUp, CancelCall, callHistory
<1> QED BY <1>2, <1>3, <1>4, <1>5, <1>6 DEF CallStep

\* The steps of the subscriptions, of Close and of the loops give no result.
LEMMA OthersGiveNoResult ==
    ASSUME Next, ~\E c \in Callers : CallStep(c)
    PROVE UNCHANGED <<op, outcome>>
<1>1. ASSUME NEW s \in Subs, SubStep(s) PROVE UNCHANGED callHistory
  BY <1>1 DEF SubStep, Subscribe, CancelSubscription, WatcherWakes, WatcherUnsubscribes,
              Receive, ConsumerEnds
<1>2. ASSUME NEW x \in Closers, CloseStep(x) PROVE UNCHANGED callHistory
  BY <1>2 DEF CloseStep, CloseBegin, CloseSignal, CloseReturn
<1>3. CASE LoopStep
  BY <1>3 DEF LoopStep, ReadResponse, ReaderSends, ReaderCloses, ReadEvent, ReaderStops, Reap,
              Drain, CloseDone, callHistory
<1>4. CASE PiStep
  BY <1>4 DEF PiStep, PiTakes, PiAnswers, PiEmits, PiExits, callHistory
<1>5. CASE Finished
  BY <1>5 DEF Finished, vars, callHistory
<1> QED BY <1>1, <1>2, <1>3, <1>4, <1>5 DEF Next, callHistory

\* A command fails only because Pi refused it (sendCommand), the data Pi sent did
\* not decode (GetState, GetMessages), its context ended, the handle was closed
\* before the command was registered, or Pi is gone.
THEOREM ErrorsHaveCauses == Spec => ErrorHasCause
<1> DEFINE Caused ==
      \A i \in ReqIds : outcome[i] # "error" /\ outcome'[i] = "error" =>
          \/ TurnedDown(i)
          \/ pi = "exited"
          \/ \E c \in Callers : req[c] = i /\ (ctxDone[c] \/ (pc[c] = "register" /\ closed))
<1>1. ASSUME IInv, Promised, [Next]_vars PROVE [Caused]_vars
  <2>1. ASSUME NEW c \in Callers, CallStep(c), outcome' # outcome PROVE Caused
    <3>1. PICK result \in {"ok", "error"} :
              /\ req[c] \in ReqIds /\ outcome' = [outcome EXCEPT ![req[c]] = result]
              /\ Justified(c, result)
      BY <1>1, <2>1, ResultJustified
    <3>2. outcome \in [ReqIds -> {"none", "ok", "error"}]
      BY <1>1 DEF IInv, TypeOK, CallType
    <3>3. ASSUME NEW i \in ReqIds, outcome[i] # "error", outcome'[i] = "error"
          PROVE i = req[c] /\ result = "error"
      BY <3>1, <3>2, <3>3
    <3> QED BY <3>1, <3>3 DEF Justified
  <2>2. CASE UNCHANGED outcome
    BY <2>2
  <2>3. CASE UNCHANGED vars
    BY <2>3
  <2> QED BY <1>1, <2>1, <2>2, <2>3, OthersGiveNoResult
<1> QED BY <1>1, PromisedInductive, PTL DEF Spec, ErrorHasCause

---------------------------------------------------------------------------
(* The handle implements CommandCalls.                                      *)

\* A handle just started has no calls, and Pi runs.
LEMMA CallsInit == ASSUME Init PROVE Calls!Init
BY DEF Init, Calls!Init, NoReply, Calls!NoReply

\* Every step is a step of CommandCalls or none: a command is issued when its id
\* is taken, judged when Pi answers it, and returns when its caller does.
LEMMA CallsNext ==
    ASSUME IInv, Promised, [Next]_vars
    PROVE [Calls!Next]_(Calls!vars)
<1>0. TypeOK /\ Results /\ Unjudged /\ ResponseOwnership
  BY DEF IInv, Promised
<1>1. ASSUME NEW c \in Callers, NEW kind \in {"prompt", "query"}, StartCommand(c, kind)
      PROVE Calls!Next
  <2>1. /\ nextID + 1 \in ReqIds /\ nextID \in Nat /\ op' = [op EXCEPT ![nextID + 1] = kind]
        /\ UNCHANGED <<answered, outcome, pi>>
    BY <1>0, <1>1, BoundsAssumption DEF StartCommand, piVars, TypeOK, HandleType
  <2>2. op[nextID + 1] = "none"
    BY <1>0, <2>1 DEF Results
  <2>3. Calls!Issue(nextID + 1)
    BY <2>1, <2>2 DEF Calls!Issue
  <2> QED BY <2>1, <2>3 DEF Calls!Next
<1>2. ASSUME NEW c \in Callers, CallStep(c), outcome' # outcome PROVE Calls!Next
  <2>1. PICK result \in {"ok", "error"} :
            /\ Active(c) /\ req[c] \in ReqIds /\ outcome[req[c]] = "none"
            /\ outcome' = [outcome EXCEPT ![req[c]] = result]
            /\ Justified(c, result)
            /\ UNCHANGED <<op, answered, pi>>
    BY <1>2, ResultJustified
  <2>2. op[req[c]] # "none"
    BY <1>0, <2>1, BoundsAssumption DEF Results, ResponseOwnership, TypeOK, HandleType
  <2>3. Calls!Succeed(req[c]) \/ Calls!Fail(req[c])
    BY <2>1, <2>2 DEF Calls!Succeed, Calls!Fail, Justified, Taken
  <2> QED BY <2>1, <2>3 DEF Calls!Next
<1>3. ASSUME NEW c \in Callers, CallStep(c), outcome' = outcome,
             ~\E kind \in {"prompt", "query"} : StartCommand(c, kind)
      PROVE UNCHANGED Calls!vars
  BY <1>3 DEF CallStep, Register, StartUIResponse, LockWrite, Write, GiveUp, TakeResponse,
              TakeZero, RemovePending, CancelCall, piVars, callHistory, Calls!vars
<1>4. ASSUME NEW s \in Subs, SubStep(s) PROVE UNCHANGED Calls!vars
  BY <1>4 DEF SubStep, Subscribe, CancelSubscription, WatcherWakes, WatcherUnsubscribes,
              Receive, ConsumerEnds, piVars, callHistory, Calls!vars
<1>5. ASSUME NEW x \in Closers, CloseStep(x) PROVE UNCHANGED Calls!vars
  BY <1>5 DEF CloseStep, CloseBegin, CloseSignal, CloseReturn, piVars, callHistory, Calls!vars
<1>6. CASE LoopStep
  <2>1. UNCHANGED Calls!vars
    BY <1>6 DEF LoopStep, ReadResponse, ReaderSends, ReaderCloses, ReadEvent, ReaderStops, Reap,
                Drain, CloseDone, piVars, callHistory, Calls!vars
  <2> QED BY <2>1
<1>7. ASSUME NEW i \in ReqIds, NEW reply \in PiReplies, PiAnswers(i, reply) PROVE Calls!Next
  <2>1. /\ i \in working /\ pi = "running" /\ UNCHANGED <<op, outcome, pi>>
        /\ answered' = [answered EXCEPT ![i] = reply]
    BY <1>7 DEF PiAnswers, callHistory
  <2>2. answered[i] = NoReply /\ op[i] # "none"
    BY <1>0, <2>1, BoundsAssumption DEF Unjudged, Unseen, Results, TypeOK, HandleType
  <2>3. Calls!Answer(i)
    BY <2>1, <2>2, BoundsAssumption
       DEF Calls!Answer, Reply, NoReply, Calls!Replies, Calls!NoReply
  <2> QED BY <2>3 DEF Calls!Next
<1>8. CASE PiExits
  BY <1>8 DEF PiExits, callHistory, Calls!Exit, Calls!Next
<1>9. CASE PiTakes \/ PiEmits \/ Finished \/ UNCHANGED vars
  <2>1. UNCHANGED Calls!vars
    BY <1>9 DEF PiTakes, PiEmits, Finished, vars, piVars, callHistory, Calls!vars
  <2> QED BY <2>1
<1> QED BY <1>1, <1>2, <1>3, <1>4, <1>5, <1>6, <1>7, <1>8, <1>9 DEF Next, PiStep

\* A request id names one call, is judged at most once and returns at most once,
\* with success only for a reason (sendCommand, Prompt, GetState, GetMessages).
THEOREM ImplementsCommandCalls == Spec => RefinesCommandCalls
<1>1. Init => Calls!Init
  BY CallsInit
<1>2. IInv /\ Promised /\ [Next]_vars => [Calls!Next]_(Calls!vars)
  BY CallsNext
<1> QED BY <1>1, <1>2, PromisedInductive, PTL DEF Spec, RefinesCommandCalls, Calls!Spec

---------------------------------------------------------------------------
(* The handle implements Subscription, for each of its subscriptions.       *)

\* A handle just started has no subscription.
LEMMA FeedInit == ASSUME Init, NEW s \in Subs PROVE Feed(s)!Init
BY DEF Init, Feed!Init

\* A step that does not touch a subscription is a stutter of its promise.
LEMMA FeedSame ==
    ASSUME NEW s \in Subs, UNCHANGED <<subscribers, broadcast>>,
           subChan'[s] = subChan[s], subClosed'[s] = subClosed[s], missed'[s] = missed[s]
    PROVE UNCHANGED Feed(s)!svars
BY DEF Feed!svars

\* The channel of a subscription is closed and taken out of the map in one step,
\* by whoever calls unsubscribe first.
LEMMA FeedUnsubscribe ==
    ASSUME TypeOK, NEW s \in Subs, NEW t \in Subs, Unsubscribe(t),
           UNCHANGED <<subChan, missed, broadcast>>
    PROVE [Feed(s)!Next]_(Feed(s)!svars)
<1>1. CASE s = t /\ s \in subscribers
  <2>1. Feed(s)!End
    BY <1>1 DEF Unsubscribe, TypeOK, SubType, Feed!End
  <2> QED BY <2>1 DEF Feed!Next
<1>2. CASE ~(s = t /\ s \in subscribers)
  <2>1. (s \in subscribers') = (s \in subscribers)
    BY <1>2 DEF Unsubscribe
  <2>2. subClosed'[s] = subClosed[s]
    BY <1>2 DEF Unsubscribe, TypeOK, SubType
  <2>3. UNCHANGED Feed(s)!svars
    BY <2>1, <2>2 DEF Feed!svars
  <2> QED BY <2>3
<1> QED BY <1>1, <1>2

\* Every step is a step of each subscription's promise or none.
LEMMA FeedNext ==
    ASSUME IInv, Promised, [Next]_vars, NEW s \in Subs
    PROVE [Feed(s)!Next]_(Feed(s)!svars)
<1>0. TypeOK /\ SubscriberOwnership /\ EventOrder
  BY DEF IInv, Promised
<1>1. ASSUME UNCHANGED <<subVars, broadcast>> PROVE UNCHANGED Feed(s)!svars
  BY <1>1 DEF subVars, Feed!svars
<1>2. ASSUME NEW t \in Subs, SubStep(t) PROVE [Feed(s)!Next]_(Feed(s)!svars)
  <2>1. CASE Subscribe(t)
    <3>1. /\ consumer[t] = "idle" /\ subscribers' = subscribers \cup {t}
          /\ UNCHANGED <<subChan, subClosed, missed, broadcast>>
      BY <2>1 DEF Subscribe, loopVars
    <3>2. t \notin subscribers /\ ~subClosed[t]
      BY <1>0, <3>1 DEF SubscriberOwnership
    <3>3. CASE s = t
      <4>1. Feed(s)!Open
        BY <3>1, <3>2, <3>3 DEF Feed!Open
      <4> QED BY <4>1 DEF Feed!Next
    <3>4. CASE s # t
      BY <3>1, <3>4 DEF Feed!svars
    <3> QED BY <3>3, <3>4
  <2>2. CASE CancelSubscription(t) \/ WatcherWakes(t)
    BY <2>2 DEF CancelSubscription, WatcherWakes, loopVars, Feed!svars
  <2>3. CASE WatcherUnsubscribes(t) \/ ConsumerEnds(t)
    BY <1>0, <2>3, FeedUnsubscribe DEF WatcherUnsubscribes, ConsumerEnds, loopVars
  <2>4. CASE Receive(t)
    <3>1. /\ subChan[t] # <<>> /\ subChan' = [subChan EXCEPT ![t] = Tail(subChan[t])]
          /\ UNCHANGED <<subscribers, subClosed, missed, broadcast>>
      BY <2>4 DEF Receive, loopVars
    <3>2. CASE s = t
      <4>1. Feed(s)!Take
        BY <1>0, <3>1, <3>2 DEF TypeOK, SubType, Feed!Take
      <4> QED BY <4>1 DEF Feed!Next
    <3>3. CASE s # t
      BY <1>0, <3>1, <3>3 DEF TypeOK, SubType, Feed!svars
    <3> QED BY <3>2, <3>3
  <2> QED BY <1>2, <2>1, <2>2, <2>3, <2>4 DEF SubStep
<1>3. CASE ReadEvent
  <2>1. /\ stdout # <<>> /\ Head(stdout) \in Event /\ broadcast' = Head(stdout).n
        /\ subChan'[s] = IF s \in subscribers /\ Len(subChan[s]) < SubBuf
                         THEN Append(subChan[s], broadcast') ELSE subChan[s]
        /\ missed'[s] = (missed[s] \/ (s \in subscribers /\ ~(Len(subChan[s]) < SubBuf)))
        /\ UNCHANGED <<subscribers, subClosed>>
    BY <1>3 DEF ReadEvent, Reaches, HasRoom
  <2>2. stdout \in Seq(Response \cup Event) /\ Len(subChan[s]) \in Nat /\ SubBuf \in Nat
    BY <1>0, BoundsAssumption DEF TypeOK, PiType, SubType
  <2>3. Head(stdout) = stdout[1] /\ 1 \in 1..Len(stdout)
    BY <2>1, <2>2, TailPlaces
  <2>4. broadcast' > broadcast
    BY <1>0, <2>1, <2>3 DEF EventOrder, TypeOK, LoopType
  <2>5. ~(Len(subChan[s]) < SubBuf) <=> Len(subChan[s]) >= SubBuf
    BY <2>2
  <2>6. Feed(s)!Offer(broadcast')
    BY <2>1, <2>4, <2>5 DEF Feed!Offer
  <2> QED BY <2>6 DEF Feed!Next
<1>4. CASE Drain
  <2>1. /\ subClosed'[s] = (subClosed[s] \/ s \in subscribers) /\ subscribers' = {}
        /\ UNCHANGED <<subChan, missed, broadcast>>
    BY <1>4 DEF Drain
  <2>2. CASE s \in subscribers
    <3>1. subClosed'[s] = (subClosed[s] \/ TRUE)
      BY <1>4, <2>2, Zenon DEF Drain
    <3>2. subClosed'[s] = TRUE
      BY <3>1, Zenon
    <3>3. (s \in subscribers') = FALSE
      BY <2>1
    <3>4. Feed(s)!End
      BY <2>1, <2>2, <3>2, <3>3 DEF Feed!End
    <3> QED BY <3>4 DEF Feed!Next
  <2>3. CASE s \notin subscribers
    BY <1>0, <2>1, <2>3 DEF TypeOK, SubType, Feed!svars
  <2> QED BY <2>2, <2>3
<1>5. ASSUME NEW c \in Callers, CallStep(c) PROVE UNCHANGED Feed(s)!svars
  BY <1>1, <1>5 DEF CallStep, StartCommand, Register, StartUIResponse, LockWrite, Write, GiveUp,
                    TakeResponse, TakeZero, RemovePending, CancelCall, loopVars
<1>6. ASSUME NEW x \in Closers, CloseStep(x) PROVE UNCHANGED Feed(s)!svars
  BY <1>1, <1>6 DEF CloseStep, CloseBegin, CloseSignal, CloseReturn, loopVars
<1>7. CASE ReadResponse \/ ReaderSends \/ ReaderCloses \/ ReaderStops \/ Reap \/ CloseDone
  BY <1>1, <1>7 DEF ReadResponse, ReaderSends, ReaderCloses, ReaderStops, Reap, CloseDone
<1>8. CASE PiStep
  BY <1>1, <1>8 DEF PiStep, PiTakes, PiAnswers, PiEmits, PiExits, loopVars
<1>9. CASE Finished \/ UNCHANGED vars
  BY <1>1, <1>9 DEF Finished, vars, loopVars
<1> QED BY <1>2, <1>3, <1>4, <1>5, <1>6, <1>7, <1>8, <1>9 DEF Next, LoopStep

\* The subscriber of any subscription gets its events in the order they were
\* broadcast, loses one only when its channel is full, and finds the channel
\* closed once and for good (Subscribe, broadcastGatewayEvent, waitLoop).
THEOREM ImplementsSubscription == Spec => RefinesSubscription
<1> DEFINE Fed == \A s \in Subs : [Feed(s)!Next]_(Feed(s)!svars)
<1>1. Init => \A s \in Subs : Feed(s)!Init
  BY FeedInit
<1>2. IInv /\ Promised /\ [Next]_vars => [Fed]_vars
  BY FeedNext
<1> QED BY <1>1, <1>2, PromisedInductive, PTL DEF Spec, RefinesSubscription
=============================================================================
